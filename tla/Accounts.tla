------------------------------ MODULE Accounts ------------------------------
(***************************************************************************)
(* Accounts: nested/manager_account.go, manager_verification.go, the login *)
(* tokens of manager_token.go, and the handlers of pkg/rpc/api/auth,       *)
(* account, admin, client and session that create, verify and change them. *)
(*                                                                         *)
(* An account is a MongoDB document with a copy in Redis, which most of    *)
(* what changes the document removes afterwards.  A user proves to own a   *)
(* phone by the code of a verification, an account by its secret; both     *)
(* count the attempts.  The system counts the enabled and the disabled     *)
(* accounts, an account its keys, each in a command of its own.            *)
(* Registering's memberships are PlaceMembership's, its session Sessions'. *)
(***************************************************************************)
EXTENDS Integers, FiniteSets, Sequences

CONSTANTS
  Ids, Enabled, Disabled,   \* account ids; the accounts there are at first
  Phone,                    \* their phones: a function
  Phones, Emails, Secrets, KeyNames, Nil,
  First,                    \* the secret all accounts have at first
  MagicNumber,              \* the phone any number of accounts may have, or Nil
  MaxUsers,                 \* the licence's MaxActiveUsers; 0 for any number
  MaxAttempts,              \* DefaultMaxVerificationAttempts
  MaxLogins,                \* wrong passwords an account survives
  MaxTexts,                 \* messages a verification may send
  MaxKeys,                  \* DefaultMaxClientObjCount
  Workers, Requests,
  MaxVerifications,         \* bound: verifications created
  MaxRequests               \* bound: requests served in a behaviour

VARIABLES
  account,       \* the documents
  cached,        \* their copies in Redis
  keys,          \* accounts.data: the names of an account's keys
  totals,        \* system.internal: how many are enabled, and disabled
  owner,         \* phones: the account a phone was registered to
  home,          \* accounts with a personal place
  verification,  \* the verifications, in the order they were made
  guesses,       \* how often the code of one was compared
  token,         \* login tokens of accounts an administrator made
  script,        \* what a worker still has to do
  copy,          \* the account its handler has read
  served

docs == <<account, keys, totals, owner, home, verification, guesses, token>>
vars == <<docs, cached, script, copy, served>>

AccountDocs ==
  [disabled : BOOLEAN, phone : Phones, email : Emails \cup {Nil},
   secret : Secrets, attempts : Nat, keys : Int, changeable : BOOLEAN,
   forced : BOOLEAN]
Verifications ==
  [phone : Phones, attempts : Nat, texts : Nat, verified : BOOLEAN,
   expired : BOOLEAN, old : BOOLEAN]

(* `who' is the account a request is about, or comes from; `vid' the       *)
(* verification, `right' whether the code is, or whether set_password      *)
(* names the account; `pass' the password that is given and `new' the one  *)
(* that is set; `key' the name of a key.                                   *)
RequestType ==
  [op : {"get_verification", "verify_code", "send_text", "recover_pass",
         "recover_username", "register", "create", "enable", "disable",
         "set_pass", "edit", "restrict", "permit", "change_phone",
         "set_password", "by_token", "login", "update", "save_key",
         "remove_key"},
   who : Ids \cup {Nil}, vid : Nat, right : BOOLEAN,
   phone : Phones \cup {Nil}, email : Emails \cup {Nil},
   pass : Secrets, new : Secrets, key : KeyNames \cup {Nil}]

AccountsAssumption ==
  /\ Enabled \subseteq Ids /\ Disabled \subseteq Ids \ Enabled
  /\ Phone \in [Enabled \cup Disabled -> Phones] /\ First \in Secrets
  /\ MagicNumber \in Phones \cup {Nil}
  /\ Requests \subseteq RequestType
  /\ {MaxUsers, MaxAttempts, MaxLogins, MaxTexts, MaxKeys, MaxVerifications,
      MaxRequests} \subseteq Nat
  /\ MaxAttempts > 0

NewAccount(phone, secret) ==
  [disabled |-> TRUE, phone |-> phone, email |-> Nil, secret |-> secret,
   attempts |-> 0, keys |-> 0, changeable |-> TRUE, forced |-> FALSE]

Init ==
  /\ account = [a \in Ids |->
       IF a \in Enabled \cup Disabled
         THEN [NewAccount(Phone[a], First) EXCEPT !.disabled = a \in Disabled]
         ELSE Nil]
  /\ cached = [a \in Ids |-> Nil]
  /\ keys = [a \in Ids |-> {}]
  /\ totals = [enabled |-> Cardinality(Enabled),
                 disabled |-> Cardinality(Disabled)]
  /\ owner = [p \in Phones |->
       IF \E a \in DOMAIN Phone : Phone[a] = p
         THEN CHOOSE a \in DOMAIN Phone : Phone[a] = p ELSE Nil]
  /\ home = Enabled \cup Disabled
  /\ verification = <<>> /\ guesses = <<>>
  /\ token = [a \in Ids |-> Nil]
  /\ script = [w \in Workers |-> <<>>]
  /\ copy = [w \in Workers |-> Nil]
  /\ served = 0

-----------------------------------------------------------------------------
(* Scripts.                                                                *)

Command(do, a, arg) == [do |-> do, at |-> a, arg |-> arg]

Ready(w, do) == script[w] # <<>> /\ Head(script[w]).do = do
Now(w) == Head(script[w])
Become(w, s) == script' = [script EXCEPT ![w] = s \o Tail(@)]
Proceed(w) == Become(w, <<>>)
Return(w) == script' = [script EXCEPT ![w] = <<>>]
Pass(w, ok, s) == IF ok THEN Become(w, s) ELSE Return(w)

GetByID(a) == <<Command("get", a, Nil)>>
RemoveCache(a) == <<Command("uncache", a, Nil)>>
Count(enabled, disabled) ==
  <<Command("count", Nil, <<enabled, disabled>>)>>
ExpireVerification(v) == <<Command("expire", Nil, v)>>

(* One field of an account, by a deferred removal of its copy.             *)
Set(a, field, value) ==
  <<Command("set", a, <<field, value>>)>> \o RemoveCache(a)
SetPhone(a, phone) == Set(a, "phone", phone)
SetPassword(a, secret) == Set(a, "secret", secret)
ForcePasswordChange(a) == Set(a, "forced", TRUE)

Verify(a, secret) == <<Command("verify", a, secret)>>

(* Requests of a user read the account; so do most about an account.       *)
Receive(w, r) ==
  /\ script[w] = <<>> /\ served < MaxRequests
  /\ r.vid \in 0..Len(verification)
  /\ r.op = "get_verification" =>
       Len(verification) + Cardinality({v \in Workers : script[v] # <<>>})
         < MaxVerifications
  /\ served' = served + 1
  /\ script' = [script EXCEPT ![w] =
       (IF r.who # Nil /\ r.op \notin {"register", "create", "by_token",
                                       "enable"}
          THEN GetByID(r.who) ELSE <<>>)
         \o <<Command("handle", r.who, r)>>]
  /\ copy' = [copy EXCEPT ![w] = Nil]
  /\ UNCHANGED <<docs, cached>>

Handles(w, ops) == Ready(w, "handle") /\ Now(w).arg.op \in ops

-----------------------------------------------------------------------------
(* Documents and copies.                                                   *)

(* readFromCache; a missed copy is stored in a command of its own.         *)
Get(w) ==
  /\ Ready(w, "get")
  /\ LET a == Now(w).at
     IN IF cached[a] # Nil \/ account[a] = Nil
          THEN copy' = [copy EXCEPT ![w] = cached[a]] /\ Proceed(w)
          ELSE /\ copy' = [copy EXCEPT ![w] = account[a]]
               /\ Become(w, <<Command("store", a, account[a])>>)
  /\ UNCHANGED <<docs, cached, served>>

Store(w) ==
  /\ Ready(w, "store")
  /\ cached' = [cached EXCEPT ![Now(w).at] = Now(w).arg]
  /\ Proceed(w)
  /\ UNCHANGED <<docs, copy, served>>

Uncache(w) ==
  /\ Ready(w, "uncache")
  /\ cached' = [cached EXCEPT ![Now(w).at] = Nil]
  /\ Proceed(w)
  /\ UNCHANGED <<docs, copy, served>>

SetField(w) ==
  /\ Ready(w, "set")
  /\ LET a == Now(w).at
         field == Now(w).arg[1]
         forced == IF field = "secret" THEN FALSE ELSE account[a].forced
     IN account' = [account EXCEPT
          ![a] = [[@ EXCEPT !.forced = forced] EXCEPT
                    ![field] = Now(w).arg[2]]]
  /\ Proceed(w)
  /\ UNCHANGED <<cached, keys, totals, owner, home, verification, guesses,
                 token, copy, served>>

(* incrementCounter.                                                       *)
IncrementCounter(w) ==
  /\ Ready(w, "count")
  /\ totals' = [enabled |-> totals.enabled + Now(w).arg[1],
                  disabled |-> totals.disabled + Now(w).arg[2]]
  /\ Proceed(w)
  /\ UNCHANGED <<account, cached, keys, owner, home, verification, guesses,
                 token, copy, served>>

(* Mutant: a disabled account is disabled, and counted, once more.         *)
DisableAgain(w) ==
  /\ Ready(w, "disable")
  /\ LET a == Now(w).at
     IN /\ account' = [account EXCEPT ![a].disabled = TRUE]
        /\ Become(w, Count(-1, 1) \o RemoveCache(a))
  /\ UNCHANGED <<cached, keys, totals, owner, home, verification, guesses,
                 token, copy, served>>

Disable(w) ==
  /\ Ready(w, "disable")
  /\ LET a == Now(w).at
     IN IF account[a].disabled
          THEN Become(w, RemoveCache(a)) /\ UNCHANGED account
          ELSE /\ account' = [account EXCEPT ![a].disabled = TRUE]
               /\ Become(w, Count(-1, 1) \o RemoveCache(a))
  /\ UNCHANGED <<cached, keys, totals, owner, home, verification, guesses,
                 token, copy, served>>

(* Mutant: an enabled account keeps its wrong attempts.                    *)
EnableTired(w) ==
  /\ Ready(w, "enable")
  /\ LET a == Now(w).at
     IN IF ~account[a].disabled
          THEN Become(w, RemoveCache(a)) /\ UNCHANGED account
          ELSE /\ account' = [account EXCEPT ![a].disabled = FALSE]
               /\ Become(w, Count(1, -1) \o RemoveCache(a))
  /\ UNCHANGED <<cached, keys, totals, owner, home, verification, guesses,
                 token, copy, served>>

Enable(w) ==
  /\ Ready(w, "enable")
  /\ LET a == Now(w).at
     IN IF ~account[a].disabled
          THEN Become(w, RemoveCache(a)) /\ UNCHANGED account
          ELSE /\ account' = [account EXCEPT ![a] =
                    [@ EXCEPT !.disabled = FALSE, !.attempts = 0]]
               /\ Become(w, Count(1, -1) \o RemoveCache(a))
  /\ UNCHANGED <<cached, keys, totals, owner, home, verification, guesses,
                 token, copy, served>>

(* Account.Verify counts the attempt before it compares the secret: a      *)
(* wrong one may disable the account, the right one forgets the attempts.  *)
VerifySecret(w) ==
  /\ Ready(w, "verify")
  /\ LET a == Now(w).at
         attempts == account[a].attempts + 1
     IN /\ account' = [account EXCEPT ![a].attempts = attempts]
        /\ IF account[a].secret = Now(w).arg
             THEN Become(w, Set(a, "attempts", 0))
             ELSE script' = [script EXCEPT ![w] =
                    IF attempts > MaxLogins
                      THEN <<Command("disable", a, Nil)>> ELSE <<>>]
  /\ UNCHANGED <<cached, keys, totals, owner, home, verification, guesses,
                 token, copy, served>>

-----------------------------------------------------------------------------
(* Verifications.                                                          *)

(* By a phone, or the phone of an account.                                 *)
CreateByPhone(w) ==
  /\ Handles(w, {"get_verification"})
  /\ LET r == Now(w).arg
         known == r.phone # Nil \/ copy[w] # Nil
         phone == IF r.phone # Nil THEN r.phone ELSE copy[w].phone
         new == [phone |-> phone, attempts |-> 0, texts |-> 0,
                 verified |-> FALSE, expired |-> FALSE, old |-> FALSE]
     IN IF known THEN /\ verification' = Append(verification, new)
                      /\ guesses' = Append(guesses, 0)
        ELSE UNCHANGED <<verification, guesses>>
  /\ Return(w)
  /\ UNCHANGED <<account, cached, keys, totals, owner, home, token, copy,
                 served>>

(* A day passes.                                                           *)
Age(v) ==
  /\ ~verification[v].old /\ ~verification[v].expired
  /\ verification' = [verification EXCEPT ![v].old = TRUE]
  /\ UNCHANGED <<account, keys, totals, owner, home, guesses, token, cached,
                 script, copy, served>>

(* Mutant: the attempts are read first, and counted afterwards.            *)
GuessThenCount(w) ==
  /\ \/ Handles(w, {"verify_code"}) \/ Ready(w, "guess")
  /\ LET r == Now(w).arg
         v == verification[r.vid]
         over == v.expired \/ v.old \/ v.attempts + 2 > MaxAttempts
     IN IF Ready(w, "guess")
          THEN /\ verification' = [verification EXCEPT ![r.vid].attempts =
                                     @ + 1]
               /\ Proceed(w)
               /\ UNCHANGED guesses
          ELSE /\ UNCHANGED verification
               /\ IF over THEN Return(w) /\ UNCHANGED guesses
                  ELSE /\ guesses' = [guesses EXCEPT ![r.vid] = @ + 1]
                       /\ Become(w, <<Command("guess", Nil, r)>>)
  /\ UNCHANGED <<account, cached, keys, totals, owner, home, token, copy,
                 served>>

(* Verification.Verify counts the attempt and reads the verification in    *)
(* one command, and adds one more.                                         *)
VerifyCode(w) ==
  /\ Handles(w, {"verify_code"})
  /\ LET id == Now(w).arg.vid
         v == [verification[id] EXCEPT !.attempts = @ + 1]
         over == v.old \/ v.attempts + 1 > MaxAttempts
     IN /\ verification' = [verification EXCEPT ![id] = v]
        /\ guesses' = IF v.expired \/ over THEN guesses
                      ELSE [guesses EXCEPT ![id] = @ + 1]
        /\ Become(w, IF v.expired THEN <<>>
                     ELSE IF over THEN ExpireVerification(id)
                     ELSE IF Now(w).arg.right
                            THEN <<Command("verified", Nil, id)>>
                     ELSE <<>>)
  /\ UNCHANGED <<account, cached, keys, totals, owner, home, token, copy,
                 served>>

Verified(w) ==
  /\ Ready(w, "verified")
  /\ verification' = [verification EXCEPT ![Now(w).arg].verified = TRUE]
  /\ Proceed(w)
  /\ UNCHANGED <<account, cached, keys, totals, owner, home, guesses, token,
                 copy, served>>

Expire(w) ==
  /\ Ready(w, "expire")
  /\ verification' = [verification EXCEPT ![Now(w).arg].expired = TRUE]
  /\ Proceed(w)
  /\ UNCHANGED <<account, cached, keys, totals, owner, home, guesses, token,
                 copy, served>>

(* send_text reads how many were sent, and counts one more later.          *)
SendCodeByText(w) ==
  /\ Handles(w, {"send_text"})
  /\ LET id == Now(w).arg.vid
     IN Pass(w, verification[id].texts <= MaxTexts,
             <<Command("text", Nil, id)>>)
  /\ UNCHANGED <<docs, cached, copy, served>>

IncrementSmsCounter(w) ==
  /\ Ready(w, "text")
  /\ verification' = [verification EXCEPT ![Now(w).arg].texts = @ + 1]
  /\ Proceed(w)
  /\ UNCHANGED <<account, cached, keys, totals, owner, home, guesses, token,
                 copy, served>>

Usable(v) == verification[v].verified /\ ~verification[v].expired

(* recover_pass and recover_username, of any account with that phone; both *)
(* expire the verification last, also when no account has the phone.       *)
Recover(w) ==
  /\ Handles(w, {"recover_pass", "recover_username"})
  /\ LET r == Now(w).arg
         has == {a \in Ids : account[a] # Nil
                               /\ account[a].phone = verification[r.vid].phone}
     IN IF ~Usable(r.vid) THEN Return(w)
        ELSE IF has = {} \/ r.op = "recover_username"
               THEN Become(w, ExpireVerification(r.vid))
        ELSE \E a \in has :
               Become(w, SetPassword(a, r.new) \o ExpireVerification(r.vid))
  /\ UNCHANGED <<docs, cached, copy, served>>

-----------------------------------------------------------------------------
(* Accounts.                                                               *)

Licensed == MaxUsers = 0 \/ totals.enabled < MaxUsers

(* What registering and creating check, each in a command: the id, which   *)
(* no place may have either, the phone and the email.                      *)
Checks(r) ==
  <<Command("id_free", r.who, Nil), Command("phone_free", Nil, r.phone)>>
    \o (IF r.email = Nil THEN <<>>
        ELSE <<Command("email_free", Nil, r.email)>>)

CreateUser(r) ==
  <<Command("insert", r.who, r), Command("own", r.who, r.phone),
    Command("complete", r.who, r.email)>> \o Count(1, 0)
    \o <<Command("home", r.who, Nil)>> \o RemoveCache(r.who)

(* register uses its verification up first, expired or not.                *)
Register(w) ==
  /\ Handles(w, {"register"})
  /\ LET r == Now(w).arg
         v == verification[r.vid]
     IN Pass(w, Licensed /\ v.verified /\ v.phone = r.phone,
             ExpireVerification(r.vid) \o Checks(r) \o CreateUser(r))
  /\ UNCHANGED <<docs, cached, copy, served>>

(* An administrator's account has a password to be changed; a token too    *)
(* when nobody gave the password, or a message is to be sent.              *)
CreateAccount(w) ==
  /\ Handles(w, {"create"})
  /\ LET r == Now(w).arg
     IN \E made \in BOOLEAN :
          Pass(w, Licensed,
               Checks(r) \o CreateUser(r) \o ForcePasswordChange(r.who)
                 \o IF made THEN <<Command("token", r.who, Nil)>>
                    ELSE <<>>)
  /\ UNCHANGED <<docs, cached, copy, served>>

Check(w) ==
  /\ script[w] # <<>>
  /\ LET held == {account[a] : a \in {b \in Ids : account[b] # Nil}}
     IN \/ Ready(w, "id_free")
             /\ Pass(w, account[Now(w).at] = Nil /\ Now(w).at \notin home,
                     <<>>)
        \/ Ready(w, "phone_free")
             /\ Pass(w, \/ Now(w).arg = MagicNumber
                        \/ \A d \in held : d.phone # Now(w).arg, <<>>)
        \/ Ready(w, "email_free")
             /\ Pass(w, \A d \in held : d.email # Now(w).arg, <<>>)
  /\ UNCHANGED <<docs, cached, copy, served>>

(* The document is disabled until it is complete; only one can be made.    *)
Insert(w) ==
  /\ Ready(w, "insert")
  /\ LET a == Now(w).at
     IN IF account[a] # Nil THEN Return(w) /\ UNCHANGED account
        ELSE /\ account' = [account EXCEPT ![a] =
                  NewAccount(Now(w).arg.phone, Now(w).arg.pass)]
             /\ Proceed(w)
  /\ UNCHANGED <<cached, keys, totals, owner, home, verification, guesses,
                 token, copy, served>>

RegisterPhoneToAccount(w) ==
  /\ Ready(w, "own")
  /\ owner' = [owner EXCEPT ![Now(w).arg] = Now(w).at]
  /\ Proceed(w)
  /\ UNCHANGED <<account, cached, keys, totals, home, verification, guesses,
                 token, copy, served>>

Complete(w) ==
  /\ Ready(w, "complete")
  /\ account' = [account EXCEPT ![Now(w).at] =
       [@ EXCEPT !.disabled = FALSE, !.email = Now(w).arg]]
  /\ Proceed(w)
  /\ UNCHANGED <<cached, keys, totals, owner, home, verification, guesses,
                 token, copy, served>>

CreatePersonalPlace(w) ==
  /\ Ready(w, "home")
  /\ home' = home \cup {Now(w).at}
  /\ Proceed(w)
  /\ UNCHANGED <<account, cached, keys, totals, owner, verification,
                 guesses, token, copy, served>>

CreateLoginToken(w) ==
  /\ Ready(w, "token")
  /\ token' = [token EXCEPT ![Now(w).at] = "live"]
  /\ Proceed(w)
  /\ UNCHANGED <<account, cached, keys, totals, owner, home, verification,
                 guesses, copy, served>>

(* A month passes.                                                         *)
TokenLapses(a) ==
  /\ token[a] = "live"
  /\ token' = [token EXCEPT ![a] = "old"]
  /\ UNCHANGED <<account, cached, keys, totals, owner, home, verification,
                 guesses, script, copy, served>>

(* GetLoginToken removes a token that has expired, and returns it.         *)
SetPasswordByToken(w) ==
  /\ Handles(w, {"by_token"})
  /\ LET a == Now(w).at
     IN /\ token' = IF token[a] = "old" THEN [token EXCEPT ![a] = Nil]
                    ELSE token
        /\ Pass(w, token[a] # Nil,
                GetByID(a) \o SetPassword(a, Now(w).arg.new)
                  \o <<Command("revoke", a, Nil)>>)
  /\ UNCHANGED <<account, cached, keys, totals, owner, home, verification,
                 guesses, copy, served>>

RevokeLoginToken(w) ==
  /\ Ready(w, "revoke")
  /\ token' = [token EXCEPT ![Now(w).at] = Nil]
  /\ Proceed(w)
  /\ UNCHANGED <<account, cached, keys, totals, owner, home, verification,
                 guesses, copy, served>>

(* The administrator.                                                      *)
EnableAccount(w) ==
  /\ Handles(w, {"enable"})
  /\ Pass(w, Licensed, GetByID(Now(w).at)
                         \o <<Command("found", Now(w).at, "enable")>>)
  /\ UNCHANGED <<docs, cached, copy, served>>

Found(w) ==
  /\ Ready(w, "found")
  /\ Pass(w, copy[w] # Nil, <<Command(Now(w).arg, Now(w).at, Nil)>>)
  /\ UNCHANGED <<docs, cached, copy, served>>

Administer(w) ==
  /\ Handles(w, {"disable", "set_pass", "edit", "restrict", "permit"})
  /\ LET r == Now(w).arg
         a == r.who
     IN Pass(w, copy[w] # Nil,
          CASE r.op = "disable"  -> <<Command("disable", a, Nil)>>
            [] r.op = "set_pass" -> SetPassword(a, r.new)
            [] r.op = "edit"     -> SetPhone(a, r.phone)
            [] r.op = "restrict" -> Set(a, "changeable", FALSE)
            [] r.op = "permit"   -> Set(a, "changeable", TRUE))
  /\ UNCHANGED <<docs, cached, copy, served>>

(* session/register, which asks the copy whether the account is disabled.  *)
Login(w) ==
  /\ Handles(w, {"login"})
  /\ LET r == Now(w).arg
     IN Pass(w, copy[w] # Nil /\ ~copy[w].disabled,
             Verify(r.who, r.pass) \o RemoveCache(r.who))
  /\ UNCHANGED <<docs, cached, copy, served>>

(* set_password of a named account asks too, of one's own it does not.     *)
SetAccountPassword(w) ==
  /\ Handles(w, {"set_password"})
  /\ LET r == Now(w).arg
     IN Pass(w, copy[w] # Nil /\ (r.right => ~copy[w].disabled),
             Verify(r.who, r.pass) \o SetPassword(r.who, r.new))
  /\ UNCHANGED <<docs, cached, copy, served>>

(* The verification stays good, and nobody looks for the phone elsewhere.  *)
ChangePhone(w) ==
  /\ Handles(w, {"change_phone"})
  /\ LET r == Now(w).arg
     IN Pass(w, copy[w] # Nil /\ copy[w].changeable /\ Usable(r.vid),
             Verify(r.who, r.pass)
               \o (IF verification[r.vid].phone = r.phone
                     THEN SetPhone(r.who, r.phone) ELSE <<>>))
  /\ UNCHANGED <<docs, cached, copy, served>>

UpdateAccount(w) ==
  /\ Handles(w, {"update"})
  /\ LET r == Now(w).arg
     IN Pass(w, copy[w] # Nil /\ copy[w].changeable,
             Set(r.who, "email", r.email))
  /\ UNCHANGED <<docs, cached, copy, served>>

(* save_key, whose limit the handler and the manager both check in a copy. *)
SaveKey(w) ==
  /\ Handles(w, {"save_key", "remove_key"})
  /\ LET r == Now(w).arg
         a == r.who
     IN Pass(w, copy[w] # Nil /\ (r.op = "save_key" => copy[w].keys < MaxKeys),
             IF r.op = "save_key"
               THEN GetByID(a) \o <<Command("save", a, r.key)>>
               ELSE <<Command("remove", a, r.key)>>)
  /\ UNCHANGED <<docs, cached, copy, served>>

(* The upsert, or the removal, then the counter, of a key that was not, or *)
(* was, there.  The copy of the account is not removed.                    *)
ChangeKeys(w) ==
  /\ Ready(w, "save") \/ Ready(w, "remove")
  /\ LET a == Now(w).at
         key == Now(w).arg
         saves == Ready(w, "save")
         new == IF saves THEN keys[a] \cup {key} ELSE keys[a] \ {key}
     IN IF saves /\ copy[w].keys >= MaxKeys THEN Return(w) /\ UNCHANGED keys
        ELSE /\ keys' = [keys EXCEPT ![a] = new]
             /\ Become(w, IF new = keys[a] THEN <<>>
                          ELSE <<Command("keys", a, IF saves THEN 1 ELSE -1)>>)
  /\ UNCHANGED <<account, cached, totals, owner, home, verification,
                 guesses, token, copy, served>>

CountKeys(w) ==
  /\ Ready(w, "keys")
  /\ account' = [account EXCEPT ![Now(w).at].keys = @ + Now(w).arg]
  /\ Proceed(w)
  /\ UNCHANGED <<cached, keys, totals, owner, home, verification, guesses,
                 token, copy, served>>

Next ==
  \/ \E w \in Workers :
       \/ \E r \in Requests : Receive(w, r)
       \/ Get(w) \/ Store(w) \/ Uncache(w) \/ SetField(w)
       \/ IncrementCounter(w) \/ Disable(w) \/ Enable(w) \/ VerifySecret(w)
       \/ CreateByPhone(w) \/ VerifyCode(w) \/ Verified(w) \/ Expire(w)
       \/ SendCodeByText(w) \/ IncrementSmsCounter(w) \/ Recover(w)
       \/ Register(w) \/ CreateAccount(w) \/ Check(w) \/ Insert(w)
       \/ RegisterPhoneToAccount(w) \/ Complete(w) \/ CreatePersonalPlace(w)
       \/ CreateLoginToken(w) \/ SetPasswordByToken(w) \/ RevokeLoginToken(w)
       \/ EnableAccount(w) \/ Found(w) \/ Administer(w) \/ Login(w)
       \/ SetAccountPassword(w) \/ ChangePhone(w) \/ UpdateAccount(w)
       \/ SaveKey(w) \/ ChangeKeys(w) \/ CountKeys(w)
  \/ \E v \in DOMAIN verification : Age(v)
  \/ \E a \in Ids : TokenLapses(a)

Quiet == \A w \in Workers : script[w] = <<>>
Stop == Quiet /\ served = MaxRequests /\ UNCHANGED vars

Spec == Init /\ [][Next \/ Stop]_vars

-----------------------------------------------------------------------------
(* Properties.                                                             *)

TypeOK ==
  /\ account \in [Ids -> AccountDocs \cup {Nil}]
  /\ cached \in [Ids -> AccountDocs \cup {Nil}]
  /\ keys \in [Ids -> SUBSET KeyNames]
  /\ DOMAIN totals = {"enabled", "disabled"}
  /\ owner \in [Phones -> Ids \cup {Nil}] /\ home \subseteq Ids
  /\ \A v \in DOMAIN verification : verification[v] \in Verifications
  /\ Len(guesses) = Len(verification)
  /\ token \in [Ids -> {"live", "old", Nil}]

There == {a \in Ids : account[a] # Nil}

(* When nothing is under way, the system's totals of enabled and of      *)
(* disabled accounts are what the documents say, whatever registrations,   *)
(* administrators and wrong passwords did at once; and every account       *)
(* counts its keys.                                                        *)
AccountsCounted ==
  Quiet => /\ totals =
                [enabled |-> Cardinality({a \in There : ~account[a].disabled}),
                 disabled |-> Cardinality({a \in There : account[a].disabled})]
           /\ \A a \in There : account[a].keys = Cardinality(keys[a])

(* The code of a verification is compared once less than the constant     *)
(* allows, however many guess at once and whatever becomes of the          *)
(* verification in between.                                                *)
GuessesBounded == \A v \in DOMAIN guesses : guesses[v] < MaxAttempts

(* An account that was tried with too many wrong passwords is disabled,    *)
(* until an administrator enables it, who gives it all its attempts again. *)
LockedOut ==
  Quiet => \A a \in There : account[a].attempts > MaxLogins =>
                              account[a].disabled
=============================================================================
