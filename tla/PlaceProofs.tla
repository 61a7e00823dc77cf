----------------------------- MODULE PlaceProofs -----------------------------
(***************************************************************************)
(* What PlaceMembership keeps for any accounts, places, workers, requests, *)
(* limits and number of requests; in the second half, when one worker      *)
(* serves one request after another.  It then decides as if there were no  *)
(* copies, so what it does is first stated on the documents, the request   *)
(* and the script alone; what a script has still to do makes up for what   *)
(* the documents lack.                                                     *)
(***************************************************************************)
EXTENDS PlaceInvariants, FiniteSetTheorems, SequenceTheorems, TLAPS

(* Commands are what they say: a document's key, a place, or a loop.       *)
LEMMA CommandFields ==
  ASSUME NEW c \in Commands
  PROVE  /\ c.do \in {"get", "del"} => c.on \in Keys
         /\ c.do \in {"use", "dissolve", "uncount", "count", "evict",
                      "delete"} => c.on \in Places
         /\ c.do \in {"serve", "dismiss", "visit", "insert", "join", "grant",
                      "raise", "lower", "expel", "revoke"} =>
              c.on \in Places /\ c.who \in Accounts
         /\ c.do = "tour" => c.on \in SUBSET Subs /\ c.who \in Accounts
         /\ c.do = "enlist" => c.on \in Loops /\ c.who \in Accounts
         /\ c.do = "admit" =>
              c.on \in Loops /\ c.on.list # <<>> /\ c.who \in Accounts
  BY SMT DEF Commands, Halt, Command

LEMMA PlainCommands ==
  /\ \A k \in Keys : Get(k) \in Commands /\ Del(k) \in Commands
  /\ \A p \in Places : Use(p) \in Commands
  /\ \A p \in Places : \A do \in {"dissolve", "uncount", "count", "evict",
                                  "delete"} :
       Command(do, p, NoOne) \in Commands
  /\ \A p \in Places, a \in Accounts :
       \A do \in {"serve", "dismiss", "visit", "insert", "join", "grant",
                  "raise", "lower", "expel", "revoke"} :
         Command(do, p, a) \in Commands
  /\ Halt \in Commands
  BY SMT DEF Commands, Command, Get, Del, Use

LEMMA LoopCommands ==
  /\ \A S \in SUBSET Subs, a \in Accounts : Command("tour", S, a) \in Commands
  /\ \A l \in Loops, a \in Accounts :
       /\ Command("enlist", l, a) \in Commands
       /\ l.list # <<>> => Command("admit", l, a) \in Commands
  BY SMT DEF Commands, Command

LEMMA KeyKinds ==
  /\ \A p \in Places : p \in Keys /\ p \notin Accounts
  /\ \A a \in Accounts : a \in Keys /\ a \notin Places
  /\ Grand \in Places
  BY KeysAssumption DEF Keys, Places

-----------------------------------------------------------------------------
(* Scripts.                                                                *)

LEMMA ScriptsConcat ==
  ASSUME NEW s \in Scripts, NEW t \in Scripts
  PROVE  s \o t \in Scripts
  BY DEF Scripts

LEMMA ShortScripts ==
  /\ <<>> \in Scripts
  /\ \A c \in Commands : <<c>> \in Scripts
  /\ \A c, d \in Commands : <<c, d>> \in Scripts
  /\ \A c, d, e \in Commands : <<c, d, e>> \in Scripts
  BY SMT DEF Scripts

LEMMA LongScripts ==
  /\ \A c, d, e, f, g \in Commands : <<c, d, e, f, g>> \in Scripts
  /\ \A c, d, e, f, g, h \in Commands : <<c, d, e, f, g, h>> \in Scripts
  BY SMT DEF Scripts

LEMMA MemberScripts ==
  ASSUME NEW p \in Places, NEW a \in Accounts
  PROVE  /\ AddKeyHolder(p, a) \in Scripts
         /\ Promote(p, a) \in Scripts
         /\ Demote(p, a) \in Scripts
         /\ RemoveKeyHolder(p, a) \in Scripts
         /\ RemoveCreator(p, a) \in Scripts
<1>1. AddKeyHolder(p, a) \in Scripts
  BY PlainCommands, KeyKinds, LongScripts DEF AddKeyHolder
<1>2. Promote(p, a) \in Scripts
  BY PlainCommands, KeyKinds, ShortScripts DEF Promote
<1>3. Demote(p, a) \in Scripts
  BY PlainCommands, KeyKinds, ShortScripts DEF Demote
<1>4. RemoveKeyHolder(p, a) \in Scripts
  BY PlainCommands, KeyKinds, LongScripts DEF RemoveKeyHolder
<1> QED
  BY <1>1, <1>2, <1>3, <1>4, ScriptsConcat DEF RemoveCreator

LEMMA RoleScripts ==
  ASSUME NEW p \in Places, NEW a \in Accounts, NEW c
  PROVE  RemoveByRole(p, a, c) \in Scripts
  BY MemberScripts, ShortScripts DEF RemoveByRole

LEMMA LoopScripts ==
  /\ \A S \in SUBSET Subs, a \in Accounts : Tour(S, a) \in Scripts
  /\ \A l \in Loops, a \in Accounts : AddMembers(l, a) \in Scripts
  BY LoopCommands, ShortScripts DEF Tour, AddMembers

-----------------------------------------------------------------------------
(* Type correctness.                                                       *)

LEMMA RequestFields ==
  ASSUME NEW r \in Requests
  PROVE  /\ r.op \in Ops /\ r.who \in Accounts /\ r.place \in Places
         /\ r.list \in Seq(Accounts) /\ r.admin \in BOOLEAN
         /\ r.op \in AboutOne => Head(r.list) \in Accounts
         /\ Subject(r) \in Places
<1>1. /\ r.op \in Ops /\ r.who \in Accounts /\ r.place \in Places
      /\ r.list \in Seq(Accounts) /\ r.admin \in BOOLEAN
  BY RequestsAssumption DEF RequestType
<1>2. r.op \in AboutOne => r.list # <<>>
  BY RequestsAssumption
<1>3. r.list # <<>> => Head(r.list) \in Accounts
  BY <1>1, HeadTailProperties
<1> QED
  BY <1>1, <1>2, <1>3, KeyKinds DEF Subject

(* What a worker about to run a command has at hand.                       *)
LEMMA AtCommand ==
  ASSUME TypeOK, NEW w \in Workers, script[w] # <<>>
  PROVE  /\ Current(w) \in Commands
         /\ Tail(script[w]) \in Scripts
         /\ req[w] \in Requests
         /\ IsStore(copy[w])
         /\ Current(w).do # "get" => phase[w] = "get"
<1>1. script[w] \in Seq(Commands)
  BY DEF TypeOK
<1>2. Head(script[w]) \in Commands /\ Tail(script[w]) \in Seq(Commands)
  BY <1>1, HeadTailProperties
<1>3. req[w] \in Requests
  BY RequestsAssumption DEF TypeOK
<1> QED
  BY <1>2, <1>3 DEF TypeOK, Current, Scripts, At

(* A worker runs a command that is no GET: what it writes are documents,   *)
(* and what it has left is a script.                                       *)
LEMMA StepTyped ==
  ASSUME TypeOK, NEW w \in Workers, script[w] # <<>>, Current(w).do # "get",
         NEW s \in Scripts, script' = [script EXCEPT ![w] = s],
         IsStore(db'), \A a \in Accounts : db'[a] # Nil, IsStore(cache'),
         UNCHANGED <<phase, copy, req, served>>
  PROVE  TypeOK'
<1>1. phase[w] = "get"
  BY AtCommand
<1>2. script' \in [Workers -> Seq(Commands)]
  BY DEF TypeOK, Scripts
<1>3. ASSUME NEW v \in Workers
      PROVE  /\ script'[v] # <<>> => req[v] # NoRequest
             /\ phase[v] # "get" => At(v, "get")'
             /\ phase[v] = "fill" => copy[v][Current(v)'.on] # Nil
  <2>1. CASE v = w
    <3>1. req[w] # NoRequest
      BY DEF TypeOK
    <3> QED
      BY <2>1, <3>1, <1>1
  <2>2. CASE v # w
    <3>1. script'[v] = script[v]
      BY <2>2 DEF TypeOK
    <3> QED
      BY <3>1 DEF TypeOK, At, Current
  <2> QED
    BY <2>1, <2>2
<1> QED
  BY <1>2, <1>3 DEF TypeOK, IsStore

LEMMA ProceedTyped ==
  ASSUME TypeOK, NEW w \in Workers, script[w] # <<>>, Current(w).do # "get",
         NEW calls \in Scripts, Proceed(w, calls)
  PROVE  TypeOK'
<1>1. calls \o Tail(script[w]) \in Scripts
  BY AtCommand, ScriptsConcat
<1>2. script' = [script EXCEPT ![w] = calls \o Tail(script[w])]
  BY DEF Proceed, Continue, TypeOK
<1>3. IsStore(db') /\ IsStore(cache') /\ \A a \in Accounts : db'[a] # Nil
  BY DEF Proceed, TypeOK, IsStore
<1> QED
  BY <1>1, <1>2, <1>3, StepTyped DEF Proceed

LEMMA PanicTyped ==
  ASSUME TypeOK, NEW w \in Workers, script[w] # <<>>, Current(w).do # "get",
         NEW deferred \in Scripts, Panic(w, deferred),
         UNCHANGED <<db, cache, phase, copy, req, served>>
  PROVE  TypeOK'
<1>1. deferred \o <<Halt>> \in Scripts
  BY PlainCommands, ShortScripts, ScriptsConcat
<1>2. IsStore(db') /\ IsStore(cache') /\ \A a \in Accounts : db'[a] # Nil
  BY DEF TypeOK, IsStore
<1> QED
  BY <1>1, <1>2, StepTyped DEF Panic

(* The places of a store, and the accounts, have their types.              *)
LEMMA StoreFields ==
  ASSUME NEW s, IsStore(s)
  PROVE  /\ \A p \in Places : s[p] # Nil => s[p] \in PlaceDocs
         /\ \A a \in Accounts : s[a] # Nil => s[a] \in AccountDocs
  BY DEF IsStore

LEMMA InitTypeOK == Init => TypeOK
<1> SUFFICES ASSUME Init
             PROVE  TypeOK
  OBVIOUS
<1>1. IsStore(Nothing)
  BY KeyKinds DEF IsStore, Nothing
<1>2. PICK f \in Foundings : db = Founded(f)
  BY DEF Init
<1>3. ASSUME NEW p \in Places, f[p] # Nil
      PROVE  db[p] \in PlaceDocs
  <2>1. f[p] \in Rosters
    BY <1>3, PlacesAssumption
  <2>2. f[p].creators \in SUBSET Accounts /\ f[p].keys \in SUBSET Accounts
    BY <2>1 DEF Rosters
  <2>3. /\ Cardinality(f[p].creators) \in Int
        /\ Cardinality(f[p].keys) \in Int
    BY <2>2, KeysAssumption, FS_Subset, FS_CardinalityType
  <2>4. Cardinality({q \in Subs : f[q] # Nil}) \in Int
    BY KeysAssumption, FS_Subset, FS_CardinalityType
  <2> DEFINE n == IF p = Grand THEN Cardinality({q \in Subs : f[q] # Nil})
                               ELSE 0
  <2>5. n \in Int
    BY <2>4
  <2>6. db[p] = [creators |-> f[p].creators, keys |-> f[p].keys,
                 nCreators |-> Cardinality(f[p].creators),
                 nKeys |-> Cardinality(f[p].keys),
                 nChildren |-> n]
    BY <1>2, <1>3, KeyKinds DEF Founded
  <2> HIDE DEF n
  <2> QED
    BY <2>2, <2>3, <2>5, <2>6 DEF PlaceDocs
<1>4. ASSUME NEW a \in Accounts
      PROVE  db[a] \in AccountDocs /\ db[a] # Nil
  <2>1. db[a] = [access |-> {p \in Places : f[p] # Nil
                                             /\ a \in Members(f[p])}]
    BY <1>2, KeyKinds DEF Founded
  <2>2. db[a] \in AccountDocs
    BY <2>1 DEF AccountDocs
  <2> QED
    BY <2>2, PlacesAssumption
<1>5. IsStore(db)
  <2>1. \A p \in Places : f[p] = Nil => db[p] = Nil
    BY <1>2, KeyKinds DEF Founded
  <2>2. DOMAIN db = Keys
    BY <1>2 DEF Founded
  <2> QED
    BY <2>1, <2>2, <1>3, <1>4 DEF IsStore
<1> QED
  BY <1>1, <1>4, <1>5, RequestsAssumption DEF Init, TypeOK, At

(* Requests come and go between scripts.                                   *)
LEMMA RequestTypeOK ==
  ASSUME TypeOK, NEW w \in Workers, Receive(w) \/ Answer(w)
  PROVE  TypeOK'
<1>1. script[w] = <<>> /\ phase[w] = "get"
  BY DEF Receive, Answer, TypeOK, At
<1>a. CASE Receive(w)
  <2>1. PICK r \in Requests :
          /\ req' = [req EXCEPT ![w] = r]
          /\ script' = [script EXCEPT ![w] =
               <<Get(r.who), Get(Subject(r)), Command("serve", r.place, r.who)>>]
    BY <1>a DEF Receive
  <2>2. r # NoRequest
    BY RequestsAssumption
  <2> DEFINE s == <<Get(r.who), Get(Subject(r)),
                    Command("serve", r.place, r.who)>>
  <2>3. s \in Scripts
    BY RequestFields, PlainCommands, KeyKinds, ShortScripts
  <2> HIDE DEF s
  <2>4. script' \in [Workers -> Seq(Commands)]
    BY <2>1, <2>3 DEF TypeOK, Scripts, s
  <2>5. req' \in [Workers -> Requests \cup {NoRequest}]
    BY <2>1 DEF TypeOK
  <2>6. served' \in 0..MaxRequests
    BY <1>a, RequestsAssumption DEF Receive, TypeOK
  <2>7. ASSUME NEW v \in Workers
        PROVE  /\ script'[v] # <<>> => req'[v] # NoRequest
               /\ phase[v] # "get" => At(v, "get")'
               /\ phase[v] = "fill" => copy[v][Current(v)'.on] # Nil
    <3>1. CASE v = w
      <4>1. req'[w] = r
        BY <2>1 DEF TypeOK
      <4> QED
        BY <3>1, <4>1, <2>2, <1>1
    <3>2. CASE v # w
      <4>1. script'[v] = script[v] /\ req'[v] = req[v]
        BY <2>1, <3>2 DEF TypeOK
      <4> QED
        BY <4>1 DEF TypeOK, At, Current
    <3> QED
      BY <3>1, <3>2
  <2> QED
    BY <1>a, <2>4, <2>5, <2>6, <2>7 DEF Receive, TypeOK, IsStore
<1>b. CASE Answer(w)
  <2>1. req' \in [Workers -> Requests \cup {NoRequest}]
    BY <1>b DEF Answer, TypeOK
  <2>2. IsStore(Nothing)
    BY KeyKinds DEF IsStore, Nothing
  <2>3. ASSUME NEW v \in Workers
        PROVE  /\ IsStore(copy'[v])
               /\ script[v] # <<>> => req'[v] # NoRequest
               /\ phase[v] # "get" => At(v, "get")
               /\ phase[v] = "fill" => copy'[v][Current(v).on] # Nil
    <3>1. CASE v = w
      BY <1>b, <1>1, <2>2, <3>1 DEF Answer, TypeOK
    <3>2. CASE v # w
      <4>1. copy'[v] = copy[v] /\ req'[v] = req[v]
        BY <1>b, <3>2 DEF Answer, TypeOK
      <4> QED
        BY <4>1 DEF TypeOK
    <3> QED
      BY <3>1, <3>2
  <2>4. DOMAIN copy' = Workers
    BY <1>b DEF Answer, TypeOK
  <2> QED
    BY <1>b, <2>1, <2>3, <2>4 DEF Answer, TypeOK, IsStore, At, Current
<1> QED
  BY <1>a, <1>b

(* A store with one document replaced by one of its kind, or by none.      *)
LEMMA StoreUpdated ==
  ASSUME NEW s, IsStore(s), NEW k \in Keys, NEW d,
         k \in Places => d \in PlaceDocs \cup {Nil},
         k \in Accounts => d \in AccountDocs \cup {Nil}
  PROVE  IsStore([s EXCEPT ![k] = d])
<1> DEFINE t == [s EXCEPT ![k] = d]
<1>1. DOMAIN t = Keys
  BY DEF IsStore
<1>2. \A j \in Keys : t[j] = IF j = k THEN d ELSE s[j]
  BY DEF IsStore
<1> HIDE DEF t
<1>3. IsStore(t)
  BY <1>1, <1>2, KeyKinds DEF IsStore
<1> QED
  BY <1>3 DEF t

(* One step of a read through the cache.                                   *)
LEMMA ReadTypeOK ==
  ASSUME TypeOK, NEW w \in Workers, Read(w)
  PROVE  TypeOK'
<1> DEFINE k == Current(w).on
           rest == Tail(script[w])
<1>1. At(w, "get") /\ script[w] # <<>>
  BY DEF Read, Lookup, Find, Fill, At
<1>2. k \in Keys /\ rest \in Scripts /\ req[w] # NoRequest
  BY <1>1, AtCommand, CommandFields, RequestsAssumption DEF At, Current
<1>3. <<>> \o rest = rest
  BY <1>2, ConcatEmptySeq DEF Scripts
<1>4. IsStore(db) /\ IsStore(cache) /\ IsStore(copy[w])
  BY DEF TypeOK
<1>5. UNCHANGED <<db, req, served>>
  BY DEF Read, Lookup, Find, Fill
<1>6. \/ phase' = [phase EXCEPT ![w] = "get"]
         /\ script' = [script EXCEPT ![w] = rest]
      \/ /\ phase' = [phase EXCEPT ![w] = "find"]
         /\ UNCHANGED <<script, copy>>
      \/ /\ phase' = [phase EXCEPT ![w] = "fill"]
         /\ UNCHANGED script
         /\ db[k] # Nil
         /\ copy' = [copy EXCEPT ![w][k] = db[k]]
  <2>1. CASE Lookup(w)
    BY <2>1, <1>3 DEF Lookup, Continue, TypeOK
  <2>2. CASE Find(w)
    BY <2>2, <1>3 DEF Find, Continue, TypeOK
  <2>3. CASE Fill(w)
    BY <2>3, <1>3 DEF Fill, Continue, TypeOK
  <2> QED
    BY <2>1, <2>2, <2>3 DEF Read
<1>7. /\ IsStore([copy[w] EXCEPT ![k] = db[k]])
      /\ IsStore([copy[w] EXCEPT ![k] = cache[k]])
      /\ IsStore([cache EXCEPT ![k] = copy[w][k]])
  <2>1. \A s : IsStore(s) =>
          /\ k \in Places => s[k] \in PlaceDocs \cup {Nil}
          /\ k \in Accounts => s[k] \in AccountDocs \cup {Nil}
    BY <1>2 DEF IsStore
  <2> QED
    BY <1>2, <1>4, <2>1, StoreUpdated
<1>8. /\ cache' = cache \/ cache' = [cache EXCEPT ![k] = copy[w][k]]
      /\ \/ copy' = copy
         \/ copy' = [copy EXCEPT ![w] = [copy[w] EXCEPT ![k] = db[k]]]
         \/ copy' = [copy EXCEPT ![w] = [copy[w] EXCEPT ![k] = cache[k]]]
  BY DEF Read, Lookup, Find, Fill
<1>9. IsStore(cache')
  BY <1>4, <1>7, <1>8
<1>10. /\ DOMAIN copy' = Workers
       /\ IsStore(copy'[w])
       /\ \A v \in Workers : v # w => copy'[v] = copy[v]
  BY <1>4, <1>7, <1>8 DEF TypeOK
<1>11. script' \in [Workers -> Seq(Commands)]
  BY <1>2, <1>6 DEF TypeOK, Scripts
<1>12. phase' \in [Workers -> {"get", "find", "fill"}]
  BY <1>6 DEF TypeOK
<1>13. ASSUME NEW v \in Workers
       PROVE  /\ IsStore(copy'[v])
              /\ script'[v] # <<>> => req[v] # NoRequest
              /\ phase'[v] # "get" => At(v, "get")'
              /\ phase'[v] = "fill" => copy'[v][Current(v)'.on] # Nil
  <2>1. CASE v # w
    <3>1. script'[v] = script[v] /\ phase'[v] = phase[v] /\ copy'[v] = copy[v]
      BY <2>1, <1>6, <1>10 DEF TypeOK
    <3> QED
      BY <3>1 DEF TypeOK, At, Current
  <2>2. CASE v = w
    <3>1. \/ phase'[w] = "get"
          \/ phase'[w] = "find" /\ script'[w] = script[w]
          \/ /\ phase'[w] = "fill" /\ script'[w] = script[w]
             /\ copy'[w][k] # Nil
      BY <1>2, <1>4, <1>6 DEF TypeOK, IsStore
    <3> QED
      BY <2>2, <3>1, <1>1, <1>2, <1>10 DEF At, Current
  <2> QED
    BY <2>1, <2>2
<1>14. \A a \in Accounts : db[a] # Nil
  BY DEF TypeOK
<1> QED
  BY <1>4, <1>5, <1>9, <1>10, <1>11, <1>12, <1>13, <1>14
     DEF TypeOK, IsStore, At, Current

(* A handler's decision.                                                   *)
LEMMA HandleTypeOK ==
  ASSUME TypeOK, NEW w \in Workers, Handle(w)
  PROVE  TypeOK'
<1> DEFINE r == req[w]
           c == copy[w][Subject(r)]
           on == Current(w).on
           who == Current(w).who
<1>1. script[w] # <<>> /\ Current(w).do # "get"
  BY DEF Handle, Refuse, Invite, AddMember, Enlist, Admit, PromoteMember,
         DemoteMember, Leave, RemoveMember, Dismiss, NextSub, VisitSub,
         RemovePlace, AddPlace, Serving, At, Current
<1>2. /\ r \in Requests /\ IsStore(copy[w]) /\ Current(w) \in Commands
      /\ <<>> \in Scripts
  BY <1>1, AtCommand, ShortScripts
<1>3. /\ r.op \in Ops /\ r.who \in Accounts /\ r.place \in Places
      /\ r.list \in Seq(Accounts) /\ r.admin \in BOOLEAN
      /\ r.op \in AboutOne => Head(r.list) \in Accounts
      /\ Subject(r) \in Places
  BY <1>2, RequestFields
<1>4. \A p \in Places : copy[w][p] # Nil => copy[w][p] \in PlaceDocs
  BY <1>2, StoreFields
<1>5. \A p \in PlaceDocs : Members(p) \in SUBSET Accounts /\ p.nKeys \in Int
  BY DEF PlaceDocs, Members
<1>6. r.op # "add_place" => Subject(r) = r.place
  BY DEF Subject
<1>7. c # Nil /\ r.op # "add_place" => Joining(r, copy[w][r.place]) \in Loops
  <2> SUFFICES ASSUME c # Nil, r.op # "add_place"
               PROVE  Joining(r, c) \in Loops
    BY <1>6
  <2>1. c.nKeys \in Int
    BY <1>3, <1>4, <1>5
  <2>2. KeyholderLimit - c.nKeys \in Int
    BY <2>1, PlacesAssumption
  <2> HIDE DEF c
  <2> QED
    BY <1>3, <2>2 DEF Joining, Loops
<1>8. \A S : S \cap Subs \in SUBSET Subs
  OBVIOUS
<1>9. Grand \in Places /\ \A p \in Subs : p \in Places /\ p \in Keys
  BY KeyKinds DEF Places
<1> HIDE DEF r, c, on, who
<1>a. CASE Refuse(w)
  <2>1. PICK calls \in {<<>>, <<Get(Grand), Use(Grand)>>} : Proceed(w, calls)
    BY <1>a DEF Refuse
  <2>2. <<Get(Grand), Use(Grand)>> \in Scripts
    BY PlainCommands, KeyKinds, ShortScripts
  <2>3. calls \in Scripts
    BY <2>1, <2>2, <1>2
  <2> QED
    BY <1>1, <2>1, <2>3, ProceedTyped
<1>b. CASE Invite(w)
  <2>1. c # Nil /\ r.op # "add_place"
    BY <1>b DEF Invite, Serving, r, c
  <2>2. AddMembers(Joining(r, copy[w][r.place]), r.who) \in Scripts
    BY <2>1, <1>3, <1>7, LoopScripts
  <2> QED
    BY <1>b, <1>1, <2>2, ProceedTyped DEF Invite, r
<1>c. CASE AddMember(w)
  <2>1. c # Nil /\ r.op # "add_place"
    BY <1>c DEF AddMember, Serving, r, c
  <2>2. <<Get(Grand), Command("enlist", Joining(r, copy[w][r.place]), r.who)>>
          \in Scripts
    BY <2>1, <1>3, <1>7, LoopCommands, PlainCommands, KeyKinds, ShortScripts
  <2> QED
    BY <1>c, <1>1, <2>2, ProceedTyped DEF AddMember, r
<1>d. CASE Enlist(w)
  <2>1. on \in Loops /\ who \in Accounts
    BY <1>d, <1>2, CommandFields DEF Enlist, At, Current, on, who
  <2>2. CASE copy[w][Grand] = Nil
    BY <1>d, <1>1, <1>2, <2>2, PanicTyped DEF Enlist
  <2>3. CASE copy[w][Grand] # Nil
    <3> DEFINE loop == [on EXCEPT !.eligible = @ \cap Members(copy[w][Grand])]
    <3>1. loop \in Loops
      BY <2>1 DEF Loops
    <3> HIDE DEF loop
    <3>2. AddMembers(loop, who) \in Scripts
      BY <2>1, <3>1, LoopScripts
    <3> QED
      BY <1>d, <1>1, <2>3, <3>2, ProceedTyped DEF Enlist, loop, on, who
  <2> QED
    BY <2>2, <2>3
<1>e. CASE Admit(w)
  <2> DEFINE a == Head(on.list)
             joins == a \in on.eligible /\ on.room > 0
             taken == IF joins /\ ~r.admin THEN 1 ELSE 0
             loop == [on EXCEPT !.list = Tail(@), !.room = @ - taken]
             joining == IF joins THEN AddKeyHolder(on.place, a) \o <<Del(a)>>
                                 ELSE <<>>
  <2>1. on \in Loops /\ on.list # <<>> /\ who \in Accounts
    BY <1>e, <1>2, CommandFields DEF Admit, At, Current, on, who
  <2>2. /\ on.place \in Places /\ on.list \in Seq(Accounts)
        /\ on.room \in Int
    BY <2>1 DEF Loops
  <2>3. a \in Accounts /\ Tail(on.list) \in Seq(Accounts)
    BY <2>1, <2>2, HeadTailProperties
  <2>4. on.room - taken \in Int
    BY <2>2
  <2> HIDE DEF taken
  <2>5. loop \in Loops
    BY <2>1, <2>3, <2>4 DEF Loops
  <2> HIDE DEF loop, a
  <2>6. AddKeyHolder(on.place, a) \o <<Del(a)>> \in Scripts
    BY <2>2, <2>3, MemberScripts, PlainCommands, KeyKinds, ShortScripts,
       ScriptsConcat
  <2>7. joining \in Scripts
    BY <2>6, <1>2
  <2> HIDE DEF joining
  <2>8. joining \o AddMembers(loop, who) \in Scripts
    BY <2>1, <2>5, <2>7, LoopScripts, ScriptsConcat
  <2> QED
    BY <1>e, <1>1, <2>8, ProceedTyped
       DEF Admit, joining, loop, taken, joins, a, on, who, r
<1>f. CASE PromoteMember(w)
  <2>1. r.op \in AboutOne
    BY <1>f DEF PromoteMember, Serving, AboutOne, r
  <2>2. Promote(r.place, Head(r.list)) \in Scripts
    BY <2>1, <1>3, MemberScripts
  <2> QED
    BY <1>f, <1>1, <2>2, ProceedTyped DEF PromoteMember, r
<1>g. CASE DemoteMember(w)
  <2>1. r.op \in AboutOne
    BY <1>g DEF DemoteMember, Serving, AboutOne, r
  <2>2. Demote(r.place, Head(r.list)) \in Scripts
    BY <2>1, <1>3, MemberScripts
  <2> QED
    BY <1>g, <1>1, <2>2, ProceedTyped DEF DemoteMember, r
<1>h. CASE Leave(w)
  <2> DEFINE subs == IF r.place = Grand
                       THEN AccessPlaceIDs(copy[w][r.who]) \cap Subs
                       ELSE {}
  <2>1. Tour(subs, r.who) \in Scripts
    BY <1>3, <1>8, LoopScripts
  <2> HIDE DEF subs
  <2>2. Tour(subs, r.who) \o RemoveByRole(r.place, r.who, copy[w][r.place])
          \in Scripts
    BY <2>1, <1>3, RoleScripts, ScriptsConcat
  <2> QED
    BY <1>h, <1>1, <2>2, ProceedTyped DEF Leave, subs, r
<1>i. CASE RemoveMember(w)
  <2> DEFINE a == Head(r.list)
             calls == IF r.place = Grand
                        THEN <<Get(a), Command("dismiss", Grand, a)>>
                        ELSE RemoveByRole(r.place, a, copy[w][r.place])
  <2>1. r.op \in AboutOne
    BY <1>i DEF RemoveMember, Serving, AboutOne, r
  <2>2. a \in Accounts
    BY <2>1, <1>3
  <2> HIDE DEF a
  <2>3. <<Get(a), Command("dismiss", Grand, a)>> \in Scripts
    BY <2>2, PlainCommands, KeyKinds, ShortScripts
  <2>4. calls \in Scripts
    BY <2>2, <2>3, <1>3, RoleScripts
  <2> HIDE DEF calls
  <2> QED
    BY <1>i, <1>1, <2>4, ProceedTyped DEF RemoveMember, calls, a, r
<1>j. CASE Dismiss(w)
  <2>1. who \in Accounts
    BY <1>j, <1>2, CommandFields DEF Dismiss, At, Current, who
  <2>2. Tour(AccessPlaceIDs(copy[w][who]) \cap Subs, who) \in Scripts
    BY <2>1, <1>8, LoopScripts
  <2>3. Tour(AccessPlaceIDs(copy[w][who]) \cap Subs, who)
          \o RemoveByRole(Grand, who, copy[w][Grand]) \in Scripts
    BY <2>1, <2>2, <1>9, RoleScripts, ScriptsConcat
  <2> QED
    BY <1>j, <1>1, <2>3, ProceedTyped DEF Dismiss, who
<1>k. CASE NextSub(w)
  <2>1. on \in SUBSET Subs /\ who \in Accounts
    BY <1>k, <1>2, CommandFields DEF NextSub, At, Current, on, who
  <2>2. PICK p \in on :
          Proceed(w, <<Get(p), Command("visit", p, who)>>
                       \o Tour(on \ {p}, who))
    BY <1>k DEF NextSub, on, who
  <2>3. Tour(on \ {p}, who) \in Scripts
    BY <2>1, LoopScripts
  <2>4. <<Get(p), Command("visit", p, who)>> \in Scripts
    BY <2>1, <2>2, <1>9, PlainCommands, ShortScripts
  <2> QED
    BY <1>1, <2>2, <2>3, <2>4, ProceedTyped, ScriptsConcat
<1>l. CASE VisitSub(w)
  <2>1. on \in Places /\ who \in Accounts
    BY <1>l, <1>2, CommandFields DEF VisitSub, At, Current, on, who
  <2>2. PICK calls \in {<<>>, RemoveKeyHolder(on, who),
                        RemoveByRole(on, who, copy[w][on])} : Proceed(w, calls)
    BY <1>l DEF VisitSub, on, who
  <2>3. calls \in Scripts
    BY <2>1, <2>2, <1>2, MemberScripts, RoleScripts
  <2> QED
    BY <1>1, <2>2, <2>3, ProceedTyped
<1>m. CASE RemovePlace(w)
  <2>1. <<Get(r.place), Command("dissolve", r.place, NoOne)>> \in Scripts
    BY <1>3, PlainCommands, KeyKinds, ShortScripts
  <2> QED
    BY <1>m, <1>1, <2>1, ProceedTyped DEF RemovePlace, r
<1>n. CASE AddPlace(w)
  <2>1. <<Get(Grand), Command("insert", r.place, r.who)>> \in Scripts
    BY <1>3, PlainCommands, KeyKinds, ShortScripts
  <2> QED
    BY <1>n, <1>1, <2>1, ProceedTyped DEF AddPlace, r
<1> QED
  BY <1>a, <1>b, <1>c, <1>d, <1>e, <1>f, <1>g, <1>h, <1>i, <1>j, <1>k, <1>l,
     <1>m, <1>n DEF Handle

(* A command changes one document, or none, and calls more commands.       *)
LEMMA DocumentTyped ==
  ASSUME TypeOK, NEW w \in Workers, script[w] # <<>>, Current(w).do # "get",
         NEW k \in Keys, NEW d,
         k \in Places => d \in PlaceDocs \cup {Nil},
         k \in Accounts => d \in AccountDocs /\ d # Nil,
         db' = [db EXCEPT ![k] = d] \/ db' = db,
         NEW s \in Scripts, script' = [script EXCEPT ![w] = s],
         UNCHANGED <<cache, phase, copy, req, served>>
  PROVE  TypeOK'
<1>1. IsStore(db) /\ IsStore([db EXCEPT ![k] = d])
  BY StoreUpdated DEF TypeOK
<1>2. IsStore(db')
  BY <1>1
<1>3. ASSUME NEW a \in Accounts
      PROVE  db'[a] # Nil
  <2>1. DOMAIN db = Keys /\ db[a] # Nil
    BY DEF TypeOK, IsStore
  <2>2. db'[a] = db[a] \/ (db'[a] = d /\ k = a)
    BY <2>1, KeyKinds
  <2> QED
    BY <2>1, <2>2
<1>4. IsStore(cache')
  BY DEF TypeOK, IsStore
<1> QED
  BY <1>2, <1>3, <1>4, StepTyped

LEMMA UpdateTyped ==
  ASSUME TypeOK, NEW w \in Workers, script[w] # <<>>, Current(w).do # "get",
         NEW p \in Places, NEW matches, NEW new,
         db[p] \in PlaceDocs => new \in PlaceDocs,
         Update(w, p, matches, new)
  PROVE  TypeOK'
<1> DEFINE d == IF db[p] = Nil THEN Nil ELSE new
<1>1. d \in PlaceDocs \cup {Nil}
  BY StoreFields DEF TypeOK
<1>2. db' = [db EXCEPT ![p] = d] \/ db' = db
  BY DEF Update
<1> HIDE DEF d
<1>3. Tail(script[w]) \in Scripts
  BY AtCommand
<1>4. <<>> \o Tail(script[w]) = Tail(script[w])
  BY <1>3, ConcatEmptySeq DEF Scripts
<1>5. script' = [script EXCEPT ![w] = Tail(script[w])]
  BY <1>4 DEF Update, Continue, TypeOK
<1> QED
  BY <1>1, <1>2, <1>3, <1>5, KeyKinds, DocumentTyped DEF Update

(* The documents that the updates of places write.                         *)
LEMMA PlaceTyped ==
  ASSUME NEW c \in PlaceDocs, NEW S \in SUBSET Accounts,
         NEW T \in SUBSET Accounts, NEW m \in Int, NEW n \in Int
  PROVE  /\ [c EXCEPT !.keys = S, !.nKeys = m] \in PlaceDocs
         /\ [c EXCEPT !.creators = T, !.keys = S,
                      !.nCreators = n, !.nKeys = m] \in PlaceDocs
         /\ [c EXCEPT !.keys = S, !.creators = T,
                      !.nKeys = m, !.nCreators = n] \in PlaceDocs
         /\ [c EXCEPT !.nChildren = n] \in PlaceDocs
  BY DEF PlaceDocs

LEMMA PlaceCounts ==
  ASSUME NEW c \in PlaceDocs, NEW a \in Accounts
  PROVE  /\ c.creators \cup {a} \in SUBSET Accounts
         /\ c.creators \ {a} \in SUBSET Accounts
         /\ c.keys \cup {a} \in SUBSET Accounts
         /\ c.keys \ {a} \in SUBSET Accounts
         /\ c.nCreators + 1 \in Int /\ c.nCreators - 1 \in Int
         /\ c.nKeys + 1 \in Int /\ c.nKeys - 1 \in Int
         /\ c.nChildren + 1 \in Int /\ c.nChildren - 1 \in Int
<1>1. /\ c.nCreators \in Int /\ c.nKeys \in Int /\ c.nChildren \in Int
      /\ c.creators \in SUBSET Accounts /\ c.keys \in SUBSET Accounts
  BY DEF PlaceDocs
<1> QED
  BY <1>1

(* An account's document with a place more or less in its list.            *)
LEMMA AccessTyped ==
  ASSUME TypeOK, NEW a \in Accounts, NEW p \in Places
  PROVE  /\ [db[a] EXCEPT !.access = @ \cup {p}] \in AccountDocs
         /\ [db[a] EXCEPT !.access = @ \ {p}] \in AccountDocs
         /\ [access |-> db[a].access \ {p}] \in AccountDocs
         /\ Nil \notin AccountDocs
<1>1. db[a] \in AccountDocs
  BY StoreFields DEF TypeOK
<1> QED
  BY <1>1, PlacesAssumption DEF AccountDocs

LEMMA DeferTyped ==
  ASSUME NEW p \in Places
  PROVE  RemoveDefers(p) \in Scripts
  BY PlainCommands, KeyKinds, ShortScripts DEF RemoveDefers

(* Creating, removing and counting places.                                 *)
LEMMA PlaceWriteTypeOK ==
  ASSUME TypeOK, NEW w \in Workers,
         \/ Dissolve(w) \/ Uncount(w) \/ Evict(w) \/ Delete(w)
         \/ Insert(w) \/ Count(w)
  PROVE  TypeOK'
<1> DEFINE p == Current(w).on
           c == copy[w][p]
<1>1. script[w] # <<>> /\ Current(w).do # "get"
  BY DEF Dissolve, Uncount, Evict, Delete, Insert, Count, At, Current
<1>2. /\ Current(w) \in Commands /\ Tail(script[w]) \in Scripts
      /\ IsStore(copy[w]) /\ IsStore(db) /\ <<>> \in Scripts
  BY <1>1, AtCommand, ShortScripts DEF TypeOK
<1>3. p \in Places
  BY <1>2, CommandFields
     DEF Dissolve, Uncount, Evict, Delete, Insert, Count, At, Current
<1>4. p \in Keys /\ p \notin Accounts /\ Grand \in Places /\ Grand \in Keys
  BY <1>3, KeyKinds
<1>5. \A calls \in Scripts : calls \o Tail(script[w]) \in Scripts
  BY <1>2, ScriptsConcat
<1>6. ASSUME NEW calls \in Scripts, Continue(w, calls)
      PROVE  script' = [script EXCEPT ![w] = calls \o Tail(script[w])]
  BY <1>6 DEF Continue, TypeOK
<1>7. <<Del(p)>> \in Scripts /\ <<Del(Grand)>> \in Scripts
      /\ RemoveDefers(p) \in Scripts
  BY <1>3, <1>4, PlainCommands, ShortScripts, DeferTyped
<1> HIDE DEF p, c
<1>a. CASE Dissolve(w)
  <2>1. CASE c = Nil
    BY <1>a, <1>1, <1>7, <2>1, PanicTyped DEF Dissolve, p, c
  <2>2. CASE c # Nil
    <3> DEFINE parent == IF p = Grand THEN <<>>
                         ELSE <<Command("uncount", Grand, NoOne)>>
               own == <<Get(p), Command("evict", p, NoOne),
                        Command("delete", p, NoOne)>>
    <3>1. parent \in Scripts /\ own \in Scripts
      BY <1>2, <1>3, <1>4, PlainCommands, ShortScripts
    <3> HIDE DEF parent, own
    <3>2. parent \o own \o RemoveDefers(p) \in Scripts
      BY <3>1, <1>7, ScriptsConcat
    <3>3. \/ Proceed(w, <<Del(p)>>)
          \/ Proceed(w, parent \o own \o RemoveDefers(p))
      BY <1>a, <2>2 DEF Dissolve, parent, own, p, c
    <3> QED
      BY <1>1, <1>7, <3>2, <3>3, ProceedTyped
  <2> QED
    BY <2>1, <2>2
<1>b. CASE Uncount(w)
  <2>1. db[Grand] \in PlaceDocs =>
          [db[Grand] EXCEPT !.nChildren = @ - 1] \in PlaceDocs
    BY DEF PlaceDocs
  <2> QED
    BY <1>b, <1>1, <1>4, <2>1, UpdateTyped DEF Uncount
<1>c. CASE Evict(w)
  <2>1. CASE c = Nil
    BY <1>c, <1>1, <1>7, <2>1, PanicTyped DEF Evict, p, c
  <2>2. CASE c # Nil
    <3>1. c \in PlaceDocs
      BY <1>2, <1>3, <2>2, StoreFields DEF c
    <3>2. Members(c) \subseteq Accounts
      BY <3>1 DEF Members, PlaceDocs
    <3>3. db' = [k \in Keys |-> IF k \in Members(c)
                   THEN [access |-> db[k].access \ {p}] ELSE db[k]]
      BY <1>c, <2>2 DEF Evict, p, c
    <3>4. ASSUME NEW a \in Accounts
          PROVE  db'[a] \in AccountDocs /\ db'[a] # Nil
      <4>1. db[a] # Nil /\ db[a] \in AccountDocs
        BY StoreFields DEF TypeOK
      <4>2. db'[a] = [access |-> db[a].access \ {p}] \/ db'[a] = db[a]
        BY <3>3, KeyKinds
      <4> QED
        BY <4>1, <4>2, <1>3, AccessTyped
    <3>5. \A q \in Places : db'[q] = db[q]
      BY <3>2, <3>3, KeyKinds
    <3>6. IsStore(db')
      BY <1>2, <3>3, <3>4, <3>5 DEF IsStore
    <3>7. IsStore(cache')
      BY <1>c DEF Evict, TypeOK, IsStore
    <3>8. script' = [script EXCEPT ![w] = <<>> \o Tail(script[w])]
      BY <1>c, <1>2, <1>6, <2>2 DEF Evict, c, p
    <3> QED
      BY <1>c, <1>1, <1>2, <1>5, <3>4, <3>6, <3>7, <3>8, StepTyped DEF Evict
  <2> QED
    BY <2>1, <2>2
<1>d. CASE Delete(w)
  <2>1. script' = [script EXCEPT ![w] = <<>> \o Tail(script[w])]
    BY <1>d, <1>2, <1>6 DEF Delete
  <2>2. db' = [db EXCEPT ![p] = Nil]
    BY <1>d DEF Delete, p
  <2> QED
    BY <1>d, <1>1, <1>2, <1>4, <1>5, <2>1, <2>2, DocumentTyped DEF Delete
<1>e. CASE Insert(w)
  <2> DEFINE a == Current(w).who
  <2>1. a \in Accounts
    BY <1>e, <1>2, CommandFields DEF Insert, At, Current
  <2> HIDE DEF a
  <2>2. CASE copy[w][Grand] = Nil
    <3>1. PICK deferred \in {<<>>, <<Del(Grand)>>} : Panic(w, deferred)
      BY <1>e, <2>2 DEF Insert
    <3>2. deferred \in Scripts
      BY <1>2, <1>7, <3>1
    <3> QED
      BY <1>e, <1>1, <2>2, <3>1, <3>2, PanicTyped DEF Insert
  <2>3. CASE copy[w][Grand] # Nil /\ db[p] # Nil
    <3>1. Proceed(w, <<Del(Grand)>>)
      BY <1>e, <2>3 DEF Insert, Proceed, p
    <3> QED
      BY <1>1, <1>7, <3>1, ProceedTyped
  <2>4. CASE copy[w][Grand] # Nil /\ db[p] = Nil
    <3> DEFINE calls == <<Command("count", Grand, NoOne), Del(Grand)>>
                          \o AddKeyHolder(p, a) \o Promote(p, a) \o <<Del(a)>>
    <3>1. /\ <<Command("count", Grand, NoOne), Del(Grand)>> \in Scripts
          /\ <<Del(a)>> \in Scripts
      BY <1>4, <2>1, PlainCommands, KeyKinds, ShortScripts
    <3>2. calls \in Scripts
      BY <1>3, <2>1, <3>1, MemberScripts, ScriptsConcat
    <3> HIDE DEF calls
    <3>3. NewPlace \in PlaceDocs
      BY DEF NewPlace, PlaceDocs
    <3>4. db' = [db EXCEPT ![p] = NewPlace] /\ Continue(w, calls)
      BY <1>e, <2>4 DEF Insert, calls, p, a
    <3> QED
      BY <1>e, <1>1, <1>4, <1>5, <1>6, <3>2, <3>3, <3>4, DocumentTyped
         DEF Insert
  <2> QED
    BY <2>2, <2>3, <2>4
<1>f. CASE Count(w)
  <2>1. db[Grand] \in PlaceDocs =>
          [db[Grand] EXCEPT !.nChildren = @ + 1] \in PlaceDocs
    BY DEF PlaceDocs
  <2> QED
    BY <1>f, <1>1, <1>4, <2>1, UpdateTyped DEF Count
<1> QED
  BY <1>a, <1>b, <1>c, <1>d, <1>e, <1>f

(* Moving an account between roles, and the lists of its places.           *)
LEMMA MemberWriteTypeOK ==
  ASSUME TypeOK, NEW w \in Workers,
         Join(w) \/ Grant(w) \/ Raise(w) \/ Lower(w) \/ Expel(w) \/ Revoke(w)
  PROVE  TypeOK'
<1> DEFINE p == Current(w).on
           a == Current(w).who
<1>1. script[w] # <<>> /\ Current(w).do # "get"
  BY DEF Join, Grant, Raise, Lower, Expel, Revoke, At, Current
<1>2. /\ Current(w) \in Commands /\ Tail(script[w]) \in Scripts
  BY <1>1, AtCommand
<1>3. p \in Places /\ a \in Accounts
  BY <1>2, CommandFields
     DEF Join, Grant, Raise, Lower, Expel, Revoke, At, Current
<1> HIDE DEF p, a
<1>a. CASE Join(w)
  <2>1. db[p] \in PlaceDocs =>
          [db[p] EXCEPT !.keys = @ \cup {a}, !.nKeys = @ + 1] \in PlaceDocs
    BY <1>3, PlaceTyped, PlaceCounts
  <2> QED
    BY <1>a, <1>1, <1>3, <2>1, UpdateTyped DEF Join, p, a
<1>b. CASE Raise(w)
  <2> DEFINE c == db[p]
             new == [c EXCEPT !.creators = @ \cup {a}, !.keys = @ \ {a},
                              !.nCreators = @ + 1, !.nKeys = @ - 1]
  <2>1. ASSUME c \in PlaceDocs
        PROVE  new \in PlaceDocs
    <3>1. /\ c.creators \cup {a} \in SUBSET Accounts
          /\ c.keys \ {a} \in SUBSET Accounts
          /\ c.nCreators + 1 \in Int
          /\ c.nKeys - 1 \in Int
      BY <1>3, <2>1, PlaceCounts
    <3> HIDE DEF c
    <3> QED
      BY <2>1, <3>1, PlaceTyped
  <2> HIDE DEF new
  <2> QED
    BY <1>b, <1>1, <1>3, <2>1, UpdateTyped DEF Raise, new, c, p, a
<1>c. CASE Lower(w)
  <2> DEFINE c == db[p]
             new == [c EXCEPT !.keys = @ \cup {a}, !.creators = @ \ {a},
                              !.nKeys = @ + 1, !.nCreators = @ - 1]
  <2>1. ASSUME c \in PlaceDocs
        PROVE  new \in PlaceDocs
    <3>1. /\ c.creators \ {a} \in SUBSET Accounts
          /\ c.keys \cup {a} \in SUBSET Accounts
          /\ c.nCreators - 1 \in Int
          /\ c.nKeys + 1 \in Int
      BY <1>3, <2>1, PlaceCounts
    <3> HIDE DEF c
    <3> QED
      BY <2>1, <3>1, PlaceTyped
  <2> HIDE DEF new
  <2> QED
    BY <1>c, <1>1, <1>3, <2>1, UpdateTyped DEF Lower, new, c, p, a
<1>d. CASE Expel(w)
  <2>1. db[p] \in PlaceDocs =>
          [db[p] EXCEPT !.keys = @ \ {a}, !.nKeys = @ - 1] \in PlaceDocs
    BY <1>3, PlaceTyped, PlaceCounts
  <2> QED
    BY <1>d, <1>1, <1>3, <2>1, UpdateTyped DEF Expel, p, a
<1>e. CASE Grant(w) \/ Revoke(w)
  <2>1. PICK d \in {[db[a] EXCEPT !.access = @ \cup {p}],
                   [db[a] EXCEPT !.access = @ \ {p}]} :
          db' = [db EXCEPT ![a] = d]
    BY <1>e DEF Grant, Revoke, p, a
  <2>2. d \in AccountDocs /\ d # Nil
    BY <1>3, <2>1, AccessTyped
  <2>3. <<Del(a), Del(p), Halt>> \in Scripts
    BY <1>3, PlainCommands, KeyKinds, ShortScripts
  <2>4. <<Del(a), Del(p)>> \in Scripts /\ <<Halt>> \in Scripts
    BY <1>3, PlainCommands, KeyKinds, ShortScripts
  <2>5. <<Del(a), Del(p)>> \o <<Halt>> \in Scripts
    BY <2>4, ScriptsConcat
  <2>6. <<>> \o Tail(script[w]) \in Scripts
    BY <1>2, ShortScripts, ScriptsConcat
  <2>7. \E s \in Scripts : script' = [script EXCEPT ![w] = s]
    BY <1>e, <2>5, <2>6 DEF Grant, Revoke, Panic, Continue, TypeOK, p, a
  <2> QED
    BY <1>e, <1>1, <1>3, <2>1, <2>2, <2>7, KeyKinds, DocumentTyped
       DEF Grant, Revoke
<1> QED
  BY <1>a, <1>b, <1>c, <1>d, <1>e

LEMMA DropTypeOK ==
  ASSUME TypeOK, NEW w \in Workers, Drop(w) \/ UsePlace(w)
  PROVE  TypeOK'
<1>1. script[w] # <<>> /\ Current(w).do # "get"
  BY DEF Drop, UsePlace, At, Current
<1>2. /\ Current(w) \in Commands /\ Tail(script[w]) \in Scripts
      /\ <<>> \in Scripts
  BY <1>1, AtCommand, ShortScripts
<1>a. CASE Drop(w)
  <2>1. Current(w).on \in Keys
    BY <1>a, <1>2, CommandFields DEF Drop, At, Current
  <2>2. IsStore([cache EXCEPT ![Current(w).on] = Nil])
    BY <2>1, StoreUpdated DEF TypeOK
  <2>3. IsStore(cache')
    BY <1>a, <2>2 DEF Drop
  <2>4. <<>> \o Tail(script[w]) \in Scripts
    BY <1>2, ScriptsConcat
  <2>5. script' = [script EXCEPT ![w] = <<>> \o Tail(script[w])]
    BY <1>a DEF Drop, Continue, TypeOK
  <2>6. IsStore(db') /\ \A a \in Accounts : db'[a] # Nil
    BY <1>a DEF Drop, TypeOK, IsStore
  <2> QED
    BY <1>a, <1>1, <2>3, <2>4, <2>5, <2>6, StepTyped DEF Drop
<1>b. CASE UsePlace(w)
  <2>1. Panic(w, <<>>) \/ Continue(w, <<>>)
    BY <1>b DEF UsePlace
  <2> QED
    BY <1>b, <1>1, <1>2, <2>1, PanicTyped, ProceedTyped DEF UsePlace, Proceed
<1> QED
  BY <1>a, <1>b

LEMMA StepTypeOK == TypeOK /\ [Next]_vars => TypeOK'
<1> SUFFICES ASSUME TypeOK, [Next]_vars
             PROVE  TypeOK'
  OBVIOUS
<1>1. ASSUME NEW w \in Workers, Receive(w) \/ Answer(w)
      PROVE  TypeOK'
  BY <1>1, RequestTypeOK
<1>2. ASSUME NEW w \in Workers, Read(w)
      PROVE  TypeOK'
  BY <1>2, ReadTypeOK
<1>3. ASSUME NEW w \in Workers, Drop(w) \/ UsePlace(w)
      PROVE  TypeOK'
  BY <1>3, DropTypeOK
<1>4. ASSUME NEW w \in Workers, Handle(w)
      PROVE  TypeOK'
  BY <1>4, HandleTypeOK
<1>5. ASSUME NEW w \in Workers, Write(w)
      PROVE  TypeOK'
  BY <1>5, MemberWriteTypeOK, PlaceWriteTypeOK DEF Write
<1>6. CASE Quiet \/ UNCHANGED vars
  BY <1>6 DEF Quiet, vars, TypeOK, IsStore, At, Current
<1> QED
  BY <1>1, <1>2, <1>3, <1>4, <1>5, <1>6 DEF Next

(* Documents, cached values and copies are places and accounts, scripts    *)
(* are commands on them, and an account is never gone: no handler builds a *)
(* call from arguments or a copy of another kind.                          *)
THEOREM TypeCorrect == Spec => []TypeOK
  BY InitTypeOK, StepTypeOK, PTL DEF Spec

-----------------------------------------------------------------------------
(* How one step may change the places.                                     *)

(* An update of a place's document.                                        *)
LEMMA UpdateChanges ==
  ASSUME TypeOK, NEW w \in Workers, NEW p \in Places, NEW matches, NEW new,
         Update(w, p, matches, new),
         db[p] \in PlaceDocs /\ db[p] # Nil /\ matches =>
           Changed(db[p], new)
  PROVE  OnePlaceChanges
<1>1. db[p] # Nil => db[p] \in PlaceDocs
  BY StoreFields DEF TypeOK
<1>2. db' = db \/ (db' = [db EXCEPT ![p] = new] /\ Changed(db[p], new))
  BY <1>1 DEF Update
<1>3. DOMAIN db = Keys /\ p \in Keys
  BY KeyKinds DEF TypeOK, IsStore
<1>4. Changed(db[p], db'[p])
  BY <1>2, <1>3 DEF Changed, SameRoster
<1>5. \A q \in Places : q # p => db'[q] = db[q]
  BY <1>2, <1>3, KeyKinds
<1> QED
  BY <1>4, <1>5 DEF OnePlaceChanges

LEMMA NoPlaceChanges ==
  ASSUME \A p \in Places : db'[p] = db[p]
  PROVE  OnePlaceChanges
  BY KeyKinds DEF OnePlaceChanges, Changed, SameRoster

LEMMA MemberWriteChanges ==
  ASSUME TypeOK, NEW w \in Workers,
         Join(w) \/ Grant(w) \/ Raise(w) \/ Lower(w) \/ Expel(w) \/ Revoke(w)
  PROVE  OnePlaceChanges
<1> DEFINE p == Current(w).on
           a == Current(w).who
           c == db[p]
<1>1. script[w] # <<>>
  BY DEF Join, Grant, Raise, Lower, Expel, Revoke, At
<1>2. Current(w) \in Commands
  BY <1>1, AtCommand
<1>3. p \in Places /\ a \in Accounts
  BY <1>2, CommandFields
     DEF Join, Grant, Raise, Lower, Expel, Revoke, At, Current
<1>4. \A d \in PlaceDocs : d # Nil
  BY PlacesAssumption
<1>5. ASSUME NEW new, c \in PlaceDocs, new \in PlaceDocs, Moved(c, new, a)
      PROVE  Changed(c, new)
  BY <1>3, <1>4, <1>5 DEF Changed
<1>6. ASSUME c \in PlaceDocs
      PROVE  /\ c.creators \cup {a} \in SUBSET Accounts
             /\ c.creators \ {a} \in SUBSET Accounts
             /\ c.keys \cup {a} \in SUBSET Accounts
             /\ c.keys \ {a} \in SUBSET Accounts
             /\ c.nCreators + 1 \in Int /\ c.nCreators - 1 \in Int
             /\ c.nKeys + 1 \in Int /\ c.nKeys - 1 \in Int
  BY <1>3, <1>6, PlaceCounts
<1> HIDE DEF p, a, c
<1>a. CASE Join(w)
  <2> DEFINE new == [c EXCEPT !.keys = @ \cup {a}, !.nKeys = @ + 1]
  <2>1. ASSUME c \in PlaceDocs, a \notin Members(c)
        PROVE  Changed(c, new)
    <3>1. new \in PlaceDocs
      BY <1>6, <2>1, PlaceTyped
    <3>2. Moved(c, new, a)
      BY <2>1 DEF Moved, Members, PlaceDocs
    <3> QED
      BY <1>5, <2>1, <3>1, <3>2
  <2> HIDE DEF new
  <2> QED
    BY <1>a, <1>3, <2>1, UpdateChanges DEF Join, new, p, a, c
<1>b. CASE Raise(w)
  <2> DEFINE new == [c EXCEPT !.creators = @ \cup {a}, !.keys = @ \ {a},
                              !.nCreators = @ + 1, !.nKeys = @ - 1]
  <2>1. ASSUME c \in PlaceDocs, a \in c.keys \ c.creators
        PROVE  Changed(c, new)
    <3>1. new \in PlaceDocs
      BY <1>6, <2>1, PlaceTyped
    <3>2. Moved(c, new, a)
      BY <2>1 DEF Moved, PlaceDocs
    <3> QED
      BY <1>5, <2>1, <3>1, <3>2
  <2> HIDE DEF new
  <2> QED
    BY <1>b, <1>3, <2>1, UpdateChanges DEF Raise, new, p, a, c
<1>c. CASE Lower(w)
  <2> DEFINE new == [c EXCEPT !.keys = @ \cup {a}, !.creators = @ \ {a},
                              !.nKeys = @ + 1, !.nCreators = @ - 1]
  <2>1. ASSUME c \in PlaceDocs, a \in c.creators \ c.keys
        PROVE  Changed(c, new)
    <3>1. new \in PlaceDocs
      BY <1>6, <2>1, PlaceTyped
    <3>2. Moved(c, new, a)
      BY <2>1 DEF Moved, PlaceDocs
    <3> QED
      BY <1>5, <2>1, <3>1, <3>2
  <2> HIDE DEF new
  <2> QED
    BY <1>c, <1>3, <2>1, UpdateChanges DEF Lower, new, p, a, c
<1>d. CASE Expel(w)
  <2> DEFINE new == [c EXCEPT !.keys = @ \ {a}, !.nKeys = @ - 1]
  <2>1. ASSUME c \in PlaceDocs, a \in c.keys \ c.creators
        PROVE  Changed(c, new)
    <3>1. new \in PlaceDocs
      BY <1>6, <2>1, PlaceTyped
    <3>2. Moved(c, new, a)
      BY <2>1 DEF Moved, PlaceDocs
    <3> QED
      BY <1>5, <2>1, <3>1, <3>2
  <2> HIDE DEF new
  <2> QED
    BY <1>d, <1>3, <2>1, UpdateChanges DEF Expel, new, p, a, c
<1>e. CASE Grant(w) \/ Revoke(w)
  <2>1. PICK d : db' = [db EXCEPT ![a] = d]
    BY <1>e DEF Grant, Revoke, a
  <2>2. \A q \in Places : db'[q] = db[q]
    BY <1>3, <2>1, KeyKinds DEF TypeOK, IsStore
  <2> QED
    BY <2>2, NoPlaceChanges
<1> QED
  BY <1>a, <1>b, <1>c, <1>d, <1>e

LEMMA PlaceWriteChanges ==
  ASSUME TypeOK, NEW w \in Workers,
         \/ Dissolve(w) \/ Uncount(w) \/ Evict(w) \/ Delete(w)
         \/ Insert(w) \/ Count(w)
  PROVE  OnePlaceChanges
<1> DEFINE p == Current(w).on
           c == copy[w][p]
<1>1. script[w] # <<>>
  BY DEF Dissolve, Uncount, Evict, Delete, Insert, Count, At
<1>2. Current(w) \in Commands /\ IsStore(copy[w])
  BY <1>1, AtCommand
<1>3. p \in Places
  BY <1>2, CommandFields
     DEF Dissolve, Uncount, Evict, Delete, Insert, Count, At, Current
<1>4. DOMAIN db = Keys /\ Grand \in Places /\ p \in Keys
  BY <1>3, KeyKinds DEF TypeOK, IsStore
<1>5. ASSUME NEW d \in PlaceDocs, NEW n \in Int
      PROVE  Changed(d, [d EXCEPT !.nChildren = n])
  <2> DEFINE new == [d EXCEPT !.nChildren = n]
  <2>1. new \in PlaceDocs
    BY PlaceTyped, <1>5 DEF PlaceDocs
  <2>2. /\ new.creators = d.creators /\ new.nCreators = d.nCreators
        /\ new.keys = d.keys /\ new.nKeys = d.nKeys
    BY DEF PlaceDocs
  <2> HIDE DEF new
  <2>3. d # Nil /\ new # Nil
    BY <2>1, PlacesAssumption
  <2>4. Changed(d, new)
    BY <2>2, <2>3 DEF Changed, SameRoster
  <2> QED
    BY <2>4 DEF new
<1>6. \A d \in PlaceDocs : d.nChildren + 1 \in Int /\ d.nChildren - 1 \in Int
  BY DEF PlaceDocs
<1> HIDE DEF p, c
<1>a. CASE Dissolve(w)
  BY <1>a, NoPlaceChanges DEF Dissolve, Proceed
<1>b. CASE Uncount(w)
  BY <1>b, <1>4, <1>5, <1>6, UpdateChanges DEF Uncount
<1>c. CASE Count(w)
  BY <1>c, <1>4, <1>5, <1>6, UpdateChanges DEF Count
<1>d. CASE Evict(w)
  <2>1. CASE c = Nil
    BY <1>d, <2>1, NoPlaceChanges DEF Evict, p, c
  <2>2. CASE c # Nil
    <3>1. Members(c) \subseteq Accounts
      BY <1>2, <1>3, <2>2, StoreFields DEF Members, PlaceDocs, c
    <3>2. db' = [k \in Keys |-> IF k \in Members(c)
                   THEN [access |-> db[k].access \ {p}] ELSE db[k]]
      BY <1>d, <2>2 DEF Evict, p, c
    <3>3. \A q \in Places : db'[q] = db[q]
      BY <3>1, <3>2, KeyKinds
    <3> QED
      BY <3>3, NoPlaceChanges
  <2> QED
    BY <2>1, <2>2
<1>e. CASE Delete(w)
  <2>1. db' = [db EXCEPT ![p] = Nil]
    BY <1>e DEF Delete, p
  <2>2. db'[p] = Nil /\ \A q \in Places : q # p => db'[q] = db[q]
    BY <1>3, <1>4, <2>1, KeyKinds
  <2> QED
    BY <1>3, <2>2 DEF OnePlaceChanges, Changed, SameRoster
<1>f. CASE Insert(w)
  <2>1. db' = db \/ (db[p] = Nil /\ db' = [db EXCEPT ![p] = NewPlace])
    BY <1>f DEF Insert, p
  <2>2. CASE db' = db
    BY <2>2, NoPlaceChanges
  <2>3. CASE db[p] = Nil /\ db' = [db EXCEPT ![p] = NewPlace]
    <3>1. db'[p] = NewPlace /\ \A q \in Places : q # p => db'[q] = db[q]
      BY <1>3, <1>4, <2>3, KeyKinds
    <3> QED
      BY <1>3, <2>3, <3>1 DEF OnePlaceChanges, Changed
  <2> QED
    BY <2>1, <2>2, <2>3
<1> QED
  BY <1>a, <1>b, <1>c, <1>d, <1>e, <1>f

LEMMA StepChanges == TypeOK /\ [Next]_vars => OnePlaceChanges
<1> SUFFICES ASSUME TypeOK, [Next]_vars
             PROVE  OnePlaceChanges
  OBVIOUS
<1>1. ASSUME NEW w \in Workers, Write(w)
      PROVE  OnePlaceChanges
  BY <1>1, MemberWriteChanges, PlaceWriteChanges DEF Write
<1>2. ASSUME NEW w \in Workers,
             Receive(w) \/ Answer(w) \/ Read(w) \/ Drop(w) \/ UsePlace(w)
      PROVE  db' = db
  BY <1>2 DEF Receive, Answer, Read, Lookup, Find, Fill, Drop, UsePlace
<1>3. ASSUME NEW w \in Workers, Handle(w)
      PROVE  db' = db
  BY <1>3 DEF Handle, Refuse, Invite, AddMember, Enlist, Admit, PromoteMember,
         DemoteMember, Leave, RemoveMember, Dismiss, NextSub, VisitSub,
         RemovePlace, AddPlace, Proceed
<1>4. ASSUME Quiet \/ UNCHANGED vars
      PROVE  db' = db
  BY <1>4 DEF Quiet, vars
<1>5. ASSUME db' = db
      PROVE  OnePlaceChanges
  BY <1>5, NoPlaceChanges
<1> QED
  BY <1>1, <1>2, <1>3, <1>4, <1>5 DEF Next

-----------------------------------------------------------------------------
(* Rosters and counters.                                                   *)

(* Moving one account between disjoint, counted rosters.                   *)
LEMMA MovedCounted ==
  ASSUME NEW c \in PlaceDocs, Counted(c), NEW d, NEW a \in Accounts,
         Moved(c, d, a)
  PROVE  Counted(d)
<1>1. IsFiniteSet(c.creators) /\ IsFiniteSet(c.keys)
  BY FS_Subset, KeysAssumption DEF PlaceDocs
<1>2. /\ Cardinality(c.creators \cup {a}) =
           IF a \in c.creators THEN Cardinality(c.creators)
                               ELSE Cardinality(c.creators) + 1
      /\ Cardinality(c.keys \cup {a}) =
           IF a \in c.keys THEN Cardinality(c.keys)
                           ELSE Cardinality(c.keys) + 1
  BY <1>1, FS_AddElement
<1>3. /\ Cardinality(c.creators \ {a}) =
           IF a \in c.creators THEN Cardinality(c.creators) - 1
                               ELSE Cardinality(c.creators)
      /\ Cardinality(c.keys \ {a}) =
           IF a \in c.keys THEN Cardinality(c.keys) - 1
                           ELSE Cardinality(c.keys)
  BY <1>1, FS_RemoveElement
<1> QED
  BY <1>2, <1>3 DEF Moved, Counted

LEMMA StepCounted ==
  TypeOK /\ RosterCounted /\ [Next]_vars => RosterCounted'
<1> SUFFICES ASSUME TypeOK, RosterCounted, [Next]_vars,
                    NEW p \in Places, db'[p] # Nil
             PROVE  Counted(db'[p])
  BY DEF RosterCounted, Counted
<1>1. db'[p] = db[p] \/ Changed(db[p], db'[p])
  BY StepChanges DEF OnePlaceChanges
<1>2. db[p] # Nil => db[p] \in PlaceDocs /\ Counted(db[p])
  BY StoreFields DEF TypeOK, RosterCounted, Counted
<1>a. CASE SameRoster(db[p], db'[p])
  BY <1>2, <1>a DEF SameRoster, Counted
<1>b. CASE db'[p] = NewPlace
  BY <1>b, FS_EmptySet DEF NewPlace, Counted
<1>c. CASE db[p] # Nil /\ \E a \in Accounts : Moved(db[p], db'[p], a)
  BY <1>2, <1>c, MovedCounted
<1> QED
  BY <1>1, <1>a, <1>b, <1>c DEF Changed, SameRoster

LEMMA InitCounted == Init => RosterCounted
<1> SUFFICES ASSUME NEW f \in Foundings, db = Founded(f),
                    NEW p \in Places, db[p] # Nil
             PROVE  Counted(db[p])
  BY DEF Init, RosterCounted, Counted
<1>1. f[p] \in Rosters
  BY KeyKinds, PlacesAssumption DEF Founded
<1>2. /\ db[p].creators = f[p].creators /\ db[p].keys = f[p].keys
      /\ db[p].nCreators = Cardinality(f[p].creators)
      /\ db[p].nKeys = Cardinality(f[p].keys)
  BY KeyKinds DEF Founded
<1> QED
  BY <1>1, <1>2 DEF Rosters, Counted

(* Nobody is creator and key holder of one place and the counters the      *)
(* limits are checked with are right, whichever handlers interleave and on *)
(* however old copies: each update of AddKeyHolder, Promote, Demote and    *)
(* RemoveKeyHolder repeats in its query what its $inc relies on.           *)
THEOREM RostersStayCounted == Spec => []RosterCounted
<1>1. Init => TypeOK /\ RosterCounted
  BY InitTypeOK, InitCounted
<1>2. TypeOK /\ RosterCounted /\ [Next]_vars => TypeOK' /\ RosterCounted'
  BY StepTypeOK, StepCounted
<1> QED
  BY <1>1, <1>2, PTL DEF Spec

-----------------------------------------------------------------------------
(* The roster implements PlaceRoster.                                      *)

LEMMA RolesAt ==
  /\ Roles = [p \in Places |-> RolesOf(db[p])]
  /\ Roles' = [p \in Places |-> RolesOf(db'[p])]
  BY DEF Roles, RolesOf

LEMMA RolesGone ==
  ASSUME NEW c
  PROVE  RolesOf(c) = Nil <=> c = Nil
<1>1. [a \in Accounts |-> RoleIn(c, a)] \in [Accounts -> Roster!RoleNames]
  BY DEF RoleIn, Roster!RoleNames
<1> QED
  BY <1>1, RolesAssumption DEF RolesOf

LEMMA InitRoster == Init => Roster!Init
<1>1. \A c : RolesOf(c) \in [Accounts -> Roster!RoleNames] \cup {Nil}
  BY DEF RolesOf, RoleIn, Roster!RoleNames
<1>2. Roles \in [Places -> [Accounts -> Roster!RoleNames] \cup {Nil}]
  BY <1>1, RolesAt
<1> QED
  BY <1>2 DEF Roster!Init, Roster!TypeOK

(* A place whose roster changes makes a step of PlaceRoster.               *)
LEMMA MovedRoster ==
  ASSUME NEW c, NEW d, NEW a \in Accounts, Moved(c, d, a), c # Nil, d # Nil
  PROVE  \E to \in {"none", "key_holder", "creator"} :
           /\ RolesOf(d) = [RolesOf(c) EXCEPT ![a] = to]
           /\ \/ RolesOf(c)[a] = "none" /\ to = "key_holder"
              \/ RolesOf(c)[a] = "key_holder" /\ to \in {"none", "creator"}
              \/ RolesOf(c)[a] = "creator" /\ to = "key_holder"
<1>1. /\ RolesOf(c) = [b \in Accounts |-> RoleIn(c, b)]
      /\ RolesOf(d) = [b \in Accounts |-> RoleIn(d, b)]
  BY DEF RolesOf
<1>2. \A b \in Accounts : b # a => RoleIn(d, b) = RoleIn(c, b)
  BY DEF Moved, RoleIn
<1>3. RolesOf(d) = [RolesOf(c) EXCEPT ![a] = RoleIn(d, a)]
  BY <1>1, <1>2
<1>4. \/ RoleIn(c, a) = "none" /\ RoleIn(d, a) = "key_holder"
      \/ RoleIn(c, a) = "key_holder" /\ RoleIn(d, a) \in {"none", "creator"}
      \/ RoleIn(c, a) = "creator" /\ RoleIn(d, a) = "key_holder"
  BY DEF Moved, RoleIn
<1>5. RolesOf(c)[a] = RoleIn(c, a)
  BY <1>1
<1> QED
  BY <1>3, <1>4, <1>5

LEMMA StepRoster == TypeOK /\ [Next]_vars => [Roster!Next]_Roles
<1> SUFFICES ASSUME TypeOK, [Next]_vars
             PROVE  Roster!Next \/ Roles' = Roles
  OBVIOUS
<1>1. PICK p \in Places :
        /\ Changed(db[p], db'[p])
        /\ \A q \in Places : q # p => db'[q] = db[q]
  BY StepChanges DEF OnePlaceChanges
<1> DEFINE c == db[p]
           d == db'[p]
<1>2. Roles[p] = RolesOf(c)
  BY RolesAt
<1>3. Roles' = [Roles EXCEPT ![p] = RolesOf(d)]
  BY <1>1, RolesAt
<1> HIDE DEF c, d
<1>a. CASE SameRoster(c, d)
  <2>1. RolesOf(d) = RolesOf(c)
    BY <1>a DEF SameRoster, RolesOf, RoleIn
  <2>2. Roles' = Roles
    BY <1>2, <1>3, <2>1, RolesAt
  <2> QED
    BY <2>2
<1>b. CASE c = Nil /\ d = NewPlace
  <2>1. NewPlace # Nil
    BY PlacesAssumption DEF NewPlace, PlaceDocs
  <2>2. RolesOf(c) = Nil /\ RolesOf(d) = [a \in Accounts |-> "none"]
    BY <1>b, <2>1 DEF RolesOf, RoleIn, NewPlace
  <2>3. Roster!Found(p)
    BY <1>2, <1>3, <2>2 DEF Roster!Found
  <2> QED
    BY <2>3 DEF Roster!Next
<1>c. CASE c # Nil /\ d = Nil
  <2>1. RolesOf(c) # Nil /\ RolesOf(d) = Nil
    BY <1>c, RolesGone
  <2>2. Roster!Dissolve(p)
    BY <1>2, <1>3, <2>1 DEF Roster!Dissolve
  <2> QED
    BY <2>2 DEF Roster!Next
<1>d. CASE c # Nil /\ d # Nil /\ \E a \in Accounts : Moved(c, d, a)
  <2>1. PICK a \in Accounts : Moved(c, d, a)
    BY <1>d
  <2>2. PICK to \in {"none", "key_holder", "creator"} :
          /\ RolesOf(d) = [RolesOf(c) EXCEPT ![a] = to]
          /\ \/ RolesOf(c)[a] = "none" /\ to = "key_holder"
             \/ RolesOf(c)[a] = "key_holder" /\ to \in {"none", "creator"}
             \/ RolesOf(c)[a] = "creator" /\ to = "key_holder"
    BY <1>d, <2>1, MovedRoster
  <2>3. RolesOf(c) # Nil
    BY <1>d, RolesGone
  <2>4. Roles' = [Roles EXCEPT ![p] = [@ EXCEPT ![a] = to]]
    BY <1>2, <1>3, <2>2
  <2>5. Roster!Turn(p, a, Roles[p][a], to)
    BY <1>2, <2>3, <2>4 DEF Roster!Turn
  <2>6. \/ Roster!Admit(p, a) \/ Roster!Raise(p, a)
        \/ Roster!Lower(p, a) \/ Roster!Exclude(p, a)
    BY <1>2, <2>2, <2>5
       DEF Roster!Admit, Roster!Raise, Roster!Lower, Roster!Exclude
  <2> QED
    BY <2>6 DEF Roster!Next
<1> QED
  BY <1>1, <1>a, <1>b, <1>c, <1>d DEF Changed, c, d

(* However handlers interleave, memberships change as PlaceRoster says:    *)
(* one account at a time, from no member to key holder to creator and back *)
(* the same way.                                                           *)
THEOREM RostersImplement == Spec => ImplementsRoster
<1>1. Init => Roster!Init
  BY InitRoster
<1>2. TypeOK /\ [Next]_vars => [Roster!Next]_Roles
  BY StepRoster
<1>3. Spec => []TypeOK
  BY TypeCorrect
<1> QED
  BY <1>1, <1>2, <1>3, PTL DEF Spec, ImplementsRoster, Roster!Spec

-----------------------------------------------------------------------------
(* One request at a time.                                                  *)

(* The commands of a script, the rest of one and one after another.        *)
LEMMA ScriptAt ==
  ASSUME NEW s \in Scripts
  PROVE  /\ Len(s) \in Nat
         /\ \A i \in 1..Len(s) : s[i] \in Commands
         /\ s # <<>> <=> Len(s) > 0
         /\ s # <<>> =>
              /\ Head(s) = s[1] /\ Tail(s) \in Scripts
              /\ Len(Tail(s)) = Len(s) - 1
              /\ \A i \in 1..(Len(s) - 1) : Tail(s)[i] = s[i + 1]
<1>1. /\ Len(s) \in Nat
      /\ \A i \in 1..Len(s) : s[i] \in Commands
      /\ s # <<>> <=> Len(s) > 0
  BY ElementOfSeq, EmptySeq, LenProperties DEF Scripts
<1>2. ASSUME s # <<>>
      PROVE  /\ Head(s) = s[1] /\ Tail(s) \in Scripts
             /\ Len(Tail(s)) = Len(s) - 1
             /\ \A i \in 1..(Len(s) - 1) : Tail(s)[i] = s[i + 1]
  BY <1>2, HeadTailProperties DEF Scripts
<1> QED
  BY <1>1, <1>2

LEMMA CatAt ==
  ASSUME NEW s \in Scripts, NEW t \in Scripts
  PROVE  /\ s \o t \in Scripts
         /\ Len(s \o t) = Len(s) + Len(t)
         /\ \A i \in 1..Len(s) : (s \o t)[i] = s[i]
         /\ \A i \in 1..Len(t) : (s \o t)[Len(s) + i] = t[i]
<1>1. Len(s) \in Nat /\ Len(t) \in Nat
  BY ScriptAt
<1> QED
  BY <1>1, ConcatProperties DEF Scripts

LEMMA HeadCat ==
  ASSUME NEW s \in Scripts, NEW t \in Scripts
  PROVE  /\ s # <<>> => s \o t # <<>> /\ Head(s \o t) = Head(s)
         /\ s = <<>> => s \o t = t
         /\ t = <<>> => s \o t = s
<1>1. /\ s \o t \in Scripts /\ Len(s) \in Nat /\ Len(t) \in Nat
      /\ Len(s \o t) = Len(s) + Len(t)
      /\ \A i \in 1..Len(s) : (s \o t)[i] = s[i]
  BY CatAt, ScriptAt
<1>2. ASSUME s # <<>>
      PROVE  s \o t # <<>> /\ Head(s \o t) = Head(s)
  <2>1. Len(s) > 0 /\ Head(s) = s[1]
    BY <1>2, ScriptAt
  <2>2. Len(s \o t) > 0 /\ (s \o t)[1] = s[1]
    BY <1>1, <2>1
  <2> QED
    BY <1>1, <2>1, <2>2, ScriptAt
<1>3. /\ s = <<>> => s \o t = t
      /\ t = <<>> => s \o t = s
  BY ConcatEmptySeq DEF Scripts
<1> QED
  BY <1>2, <1>3

(* What is dropped stays dropped when a script is shortened or extended.   *)
LEMMA DropsTail ==
  ASSUME NEW s \in Scripts, s # <<>>, NEW k
  PROVE  /\ \A i \in 1..Len(s) : Drops(s, k, i + 1) => Drops(Tail(s), k, i)
         /\ Drops(s, k, 1) /\ Head(s) # Del(k) => Drops(Tail(s), k, 1)
<1> DEFINE t == Tail(s)
<1>1. /\ Len(s) \in Nat /\ Len(t) = Len(s) - 1 /\ s[1] = Head(s)
      /\ \A i \in 1..Len(t) : t[i] = s[i + 1]
  BY ScriptAt
<1> HIDE DEF t
<1>2. ASSUME NEW i \in Nat, i >= 1, Drops(s, k, i + 1)
      PROVE  Drops(t, k, i)
  <2>1. PICK j \in (i + 1)..Len(s) :
          /\ s[j] = Del(k)
          /\ \A m \in (i + 1)..j : s[m] # Get(k) /\ s[m].do \notin Deciding
    BY <1>2 DEF Drops
  <2>2. j - 1 \in i..Len(t) /\ t[j - 1] = Del(k)
    BY <1>1, <1>2, <2>1
  <2>3. \A m \in i..(j - 1) : t[m] # Get(k) /\ t[m].do \notin Deciding
    BY <1>1, <1>2, <2>1
  <2> DEFINE n == j - 1
  <2>4. n \in i..Len(t) /\ t[n] = Del(k)
    BY <2>2
  <2>5. \A m \in i..n : t[m] # Get(k) /\ t[m].do \notin Deciding
    BY <2>3
  <2> HIDE DEF n
  <2> QED
    BY <2>4, <2>5 DEF Drops
<1>3. ASSUME Drops(s, k, 1), Head(s) # Del(k)
      PROVE  Drops(s, k, 1 + 1)
  BY <1>1, <1>3 DEF Drops
<1> QED
  BY <1>1, <1>2, <1>3 DEF t

LEMMA DropsCat ==
  ASSUME NEW s \in Scripts, NEW t \in Scripts, NEW k, NEW i \in Nat, i >= 1
  PROVE  /\ Drops(s, k, i) => Drops(s \o t, k, i)
         /\ Drops(t, k, i) => Drops(s \o t, k, Len(s) + i)
<1> DEFINE u == s \o t
<1>1. /\ Len(s) \in Nat /\ Len(t) \in Nat /\ Len(u) = Len(s) + Len(t)
      /\ \A j \in 1..Len(s) : u[j] = s[j]
      /\ \A j \in 1..Len(t) : u[Len(s) + j] = t[j]
  BY CatAt, ScriptAt
<1> HIDE DEF u
<1>2. ASSUME Drops(s, k, i)
      PROVE  Drops(u, k, i)
  BY <1>1, <1>2 DEF Drops
<1>3. ASSUME Drops(t, k, i)
      PROVE  Drops(u, k, Len(s) + i)
  <2>1. PICK j \in i..Len(t) :
          /\ t[j] = Del(k)
          /\ \A m \in i..j : t[m] # Get(k) /\ t[m].do \notin Deciding
    BY <1>3 DEF Drops
  <2>2. /\ Len(s) + j \in (Len(s) + i)..Len(u)
        /\ u[Len(s) + j] = Del(k)
    BY <1>1, <2>1
  <2>3. \A m \in (Len(s) + i)..(Len(s) + j) :
          m - Len(s) \in i..j /\ u[m] = t[m - Len(s)]
    <3> TAKE m \in (Len(s) + i)..(Len(s) + j)
    <3>1. m - Len(s) \in 1..Len(t)
      BY <1>1, <2>1
    <3>2. u[Len(s) + (m - Len(s))] = t[m - Len(s)]
      BY <1>1, <3>1
    <3> QED
      BY <1>1, <2>1, <3>2
  <2> QED
    BY <1>1, <2>1, <2>2, <2>3 DEF Drops
<1> QED
  BY <1>2, <1>3 DEF u

(* A shaped script stays shaped when its first command is done, and after  *)
(* another that it may follow.                                             *)
LEMMA ShapedTail ==
  ASSUME NEW s \in Scripts, s # <<>>, Shaped(s)
  PROVE  Shaped(Tail(s))
<1> DEFINE t == Tail(s)
<1>1. /\ Len(s) \in Nat /\ Len(t) = Len(s) - 1
      /\ \A i \in 1..Len(t) : t[i] = s[i + 1]
  BY ScriptAt
<1>2. \A k, i : i \in 1..Len(s) /\ Drops(s, k, i + 1) => Drops(t, k, i)
  BY DropsTail
<1> HIDE DEF t
<1> SUFFICES ASSUME NEW i \in 1..Len(t)
             PROVE  ShapedAt(t, i)
  BY DEF Shaped, t
<1>3. i + 1 \in 1..Len(s) /\ t[i] = s[i + 1] /\ ShapedAt(s, i + 1)
  BY <1>1 DEF Shaped
<1>4. \A k \in Dirtied(t[i]) : Drops(t, k, i + 1)
  BY <1>1, <1>2, <1>3 DEF ShapedAt
<1>5. t[i].do \in Judging /\ i > 1 => t[i - 1] = Get(Judged(t[i]))
  <2>1. i > 1 => t[i - 1] = s[i]
    BY <1>1
  <2> QED
    BY <1>1, <1>3, <2>1 DEF ShapedAt
<1>6. /\ t[i].do = "dismiss" => i \in {1, 2} /\ t[i].on = Grand
      /\ t[i].do \in {"count", "uncount"} => i = 1 /\ t[i].on = Grand
  BY <1>1, <1>3 DEF ShapedAt
<1>7. ASSUME NEW c, \E j \in (i + 1 + 1)..Len(s) : s[j] = c
      PROVE  \E j \in (i + 1)..Len(t) : t[j] = c
  <2>1. PICK j \in (i + 1 + 1)..Len(s) : s[j] = c
    BY <1>7
  <2>2. j - 1 \in (i + 1)..Len(t) /\ t[j - 1] = c
    BY <1>1, <2>1
  <2> QED
    BY <2>2
<1> QED
  BY <1>3, <1>4, <1>5, <1>6, <1>7 DEF ShapedAt

LEMMA ShapedCat ==
  ASSUME NEW s \in Scripts, NEW t \in Scripts, Shaped(s), Shaped(t),
         t # <<>> => Head(t).do \notin Judging \cup {"count", "uncount"},
         \A i \in 1..Len(t) : t[i].do # "dismiss"
  PROVE  Shaped(s \o t)
<1> DEFINE u == s \o t
<1>1. /\ Len(s) \in Nat /\ Len(t) \in Nat /\ Len(u) = Len(s) + Len(t)
      /\ \A i \in 1..Len(s) : u[i] = s[i]
      /\ \A i \in 1..Len(t) : u[Len(s) + i] = t[i]
      /\ t # <<>> <=> Len(t) > 0
      /\ t # <<>> => Head(t) = t[1]
  BY CatAt, ScriptAt
<1>2. \A k, i : i \in Nat /\ i >= 1 =>
        /\ Drops(s, k, i) => Drops(u, k, i)
        /\ Drops(t, k, i) => Drops(u, k, Len(s) + i)
  BY DropsCat
<1> HIDE DEF u
<1>3. ASSUME NEW i \in 1..Len(s)
      PROVE  ShapedAt(u, i)
  <2>1. u[i] = s[i] /\ ShapedAt(s, i)
    BY <1>1 DEF Shaped
  <2>2. \A k \in Dirtied(u[i]) : Drops(u, k, i + 1)
    BY <1>2, <2>1 DEF ShapedAt
  <2>3. i > 1 => u[i - 1] = s[i - 1]
    BY <1>1
  <2>4. \A c : (\E j \in (i + 1)..Len(s) : s[j] = c) =>
                 \E j \in (i + 1)..Len(u) : u[j] = c
    BY <1>1
  <2> QED
    BY <2>1, <2>2, <2>3, <2>4 DEF ShapedAt
<1>4. ASSUME NEW i \in 1..Len(t)
      PROVE  ShapedAt(u, Len(s) + i)
  <2>1. u[Len(s) + i] = t[i] /\ ShapedAt(t, i)
    BY <1>1 DEF Shaped
  <2>2. \A k \in Dirtied(t[i]) : Drops(u, k, Len(s) + i + 1)
    <3>1. \A k \in Dirtied(t[i]) : Drops(u, k, Len(s) + (i + 1))
      BY <1>2, <2>1 DEF ShapedAt
    <3>2. Len(s) + (i + 1) = Len(s) + i + 1
      BY <1>1
    <3> QED
      BY <3>1, <3>2
  <2>3. t[i].do \in Judging => i > 1 /\ u[Len(s) + i - 1] = t[i - 1]
    <3>1. t[i].do \in Judging => i > 1
      BY <1>1
    <3>2. i > 1 => u[Len(s) + (i - 1)] = t[i - 1]
      BY <1>1
    <3>3. Len(s) + (i - 1) = Len(s) + i - 1
      BY <1>1
    <3> QED
      BY <3>1, <3>2, <3>3
  <2>4. t[i].do \notin {"count", "uncount", "dismiss"}
    BY <1>1, <2>1 DEF ShapedAt
  <2>5. ASSUME NEW c, \E j \in (i + 1)..Len(t) : t[j] = c
        PROVE  \E j \in (Len(s) + i + 1)..Len(u) : u[j] = c
    <3>1. PICK j \in (i + 1)..Len(t) : t[j] = c
      BY <2>5
    <3>2. Len(s) + j \in (Len(s) + i + 1)..Len(u) /\ u[Len(s) + j] = c
      BY <1>1, <3>1
    <3> QED
      BY <3>2
  <2>6. /\ t[i].do = "expel" =>
             \E j \in (Len(s) + i + 1)..Len(u) :
               u[j] = Command("revoke", t[i].on, t[i].who)
        /\ t[i].do = "join" =>
             \E j \in (Len(s) + i + 1)..Len(u) :
               u[j] = Command("grant", t[i].on, t[i].who)
    BY <2>1, <2>5 DEF ShapedAt
  <2> DEFINE n == Len(s) + i
  <2>7. /\ u[n] = t[i]
        /\ \A k \in Dirtied(t[i]) : Drops(u, k, n + 1)
        /\ t[i].do \in Judging => u[n - 1] = Get(Judged(t[i]))
    <3>1. t[i].do \in Judging /\ i > 1 => t[i - 1] = Get(Judged(t[i]))
      BY <2>1 DEF ShapedAt
    <3> QED
      BY <2>1, <2>2, <2>3, <3>1
  <2>8. /\ t[i].do = "expel" =>
             \E j \in (n + 1)..Len(u) :
               u[j] = Command("revoke", t[i].on, t[i].who)
        /\ t[i].do = "join" =>
             \E j \in (n + 1)..Len(u) :
               u[j] = Command("grant", t[i].on, t[i].who)
    BY <2>6
  <2> HIDE DEF n
  <2>9. ShapedAt(u, n)
    BY <2>4, <2>7, <2>8 DEF ShapedAt, Judging
  <2> QED
    BY <2>9 DEF n
<1>5. ASSUME NEW i \in 1..Len(u), i > Len(s)
      PROVE  ShapedAt(u, i)
  <2>1. i - Len(s) \in 1..Len(t) /\ Len(s) + (i - Len(s)) = i
    BY <1>1, <1>5
  <2>2. ShapedAt(u, Len(s) + (i - Len(s)))
    BY <1>4, <2>1
  <2> QED
    BY <2>1, <2>2
<1>6. \A i \in 1..Len(u) : i \in 1..Len(s) \/ i > Len(s)
  BY <1>1
<1>7. Shaped(u)
  BY <1>3, <1>5, <1>6 DEF Shaped
<1> QED
  BY <1>7 DEF u

-----------------------------------------------------------------------------
(* The manager's functions are shaped.                                     *)

(* The fields of the commands that scripts are written with.               *)
LEMMA Fields ==
  /\ \A do, on, who : /\ Command(do, on, who).do = do
                      /\ Command(do, on, who).on = on
                      /\ Command(do, on, who).who = who
  /\ \A k : Get(k).do = "get" /\ Get(k).on = k
  /\ \A k : Del(k).do = "del" /\ Del(k).on = k
  /\ \A p : Use(p).do = "use" /\ Use(p).on = p
  /\ \A k, j : Get(k) = Get(j) => k = j
  /\ \A k, j : Del(k) = Del(j) => k = j
  /\ \A k, j : Del(k) # Get(j)
  BY DEF Command, Get, Del, Use

LEMMA MakesNothing == \A dos : Makes(<<>>, dos)
  BY ShortScripts DEF Makes, Shaped

LEMMA MakesMore ==
  ASSUME NEW s, NEW dos, NEW more, Makes(s, dos), dos \subseteq more
  PROVE  Makes(s, more)
  BY DEF Makes

LEMMA MakesCat ==
  ASSUME NEW s, NEW t, NEW dos, Makes(s, dos), Makes(t, dos),
         "dismiss" \notin dos,
         t # <<>> => Head(t).do \notin Judging \cup {"count", "uncount"}
  PROVE  Makes(s \o t, dos)
<1>1. /\ s \in Scripts /\ t \in Scripts /\ Len(s) \in Nat /\ Len(t) \in Nat
      /\ s \o t \in Scripts /\ Len(s \o t) = Len(s) + Len(t)
      /\ \A i \in 1..Len(s) : (s \o t)[i] = s[i]
      /\ \A i \in 1..Len(t) : (s \o t)[Len(s) + i] = t[i]
  BY CatAt, ScriptAt DEF Makes
<1>2. Shaped(s \o t)
  BY <1>1, ShapedCat DEF Makes
<1> DEFINE u == s \o t
<1> HIDE DEF u
<1>3. ASSUME NEW i \in 1..Len(u)
      PROVE  u[i].do \in dos
  <2>1. CASE i \in 1..Len(s)
    BY <1>1, <2>1 DEF Makes, u
  <2>2. CASE i - Len(s) \in 1..Len(t)
    <3>1. u[Len(s) + (i - Len(s))] = t[i - Len(s)]
      BY <1>1, <2>2 DEF u
    <3>2. Len(s) + (i - Len(s)) = i
      BY <1>1
    <3> QED
      BY <3>1, <3>2, <2>2 DEF Makes
  <2> QED
    BY <1>1, <2>1, <2>2 DEF u
<1> QED
  BY <1>1, <1>2, <1>3 DEF Makes, u

(* A command that neither writes nor judges.                               *)
LEMMA MakesOne ==
  ASSUME NEW c \in Commands, c.do \in {"get", "del", "use", "tour", "admit"}
  PROVE  Makes(<<c>>, {c.do})
<1> DEFINE s == <<c>>
<1>1. s \in Scripts /\ Len(s) = 1 /\ s[1] = c
  BY ShortScripts
<1> HIDE DEF s
<1>2. Dirtied(c) = {}
  BY DEF Dirtied
<1>3. Shaped(s)
  BY <1>1, <1>2 DEF Shaped, ShapedAt, Judging
<1> QED
  BY <1>1, <1>3 DEF Makes, s

LEMMA MakesAddKeyHolder ==
  ASSUME NEW p \in Places, NEW a \in Accounts
  PROVE  /\ Makes(AddKeyHolder(p, a), {"get", "join", "grant", "del"})
         /\ Head(AddKeyHolder(p, a)) = Get(p)
<1> DEFINE s == AddKeyHolder(p, a)
<1>1. /\ Len(s) = 6 /\ Head(s) = s[1]
      /\ s[1] = Get(p) /\ s[2] = Get(a) /\ s[3] = Command("join", p, a)
      /\ s[4] = Command("grant", p, a) /\ s[5] = Del(a) /\ s[6] = Del(p)
  BY DEF AddKeyHolder
<1>2. s \in Scripts
  BY MemberScripts
<1> HIDE DEF s
<1>3. Drops(s, p, 4) /\ Drops(s, a, 5)
  BY <1>1, Fields DEF Drops, Deciding
<1>4. \A i \in 1..6 :
        i = 1 \/ i = 2 \/ i = 3 \/ i = 4 \/ i = 5 \/ i = 6
  OBVIOUS
<1>5. ASSUME NEW i \in 1..6
      PROVE  /\ s[i].do \in {"get", "join", "grant", "del"}
             /\ \A k \in Dirtied(s[i]) : Drops(s, k, i + 1)
             /\ s[i].do = "join" =>
                  s[i + 1] = Command("grant", s[i].on, s[i].who) /\ i + 1 \in 1..6
  BY <1>1, <1>3, <1>4, Fields DEF Dirtied
<1>6. Shaped(s)
  BY <1>1, <1>5 DEF Shaped, ShapedAt, Judging
<1> QED
  BY <1>1, <1>2, <1>5, <1>6 DEF Makes, s

LEMMA MakesPromote ==
  ASSUME NEW p \in Places, NEW a \in Accounts
  PROVE  /\ Makes(Promote(p, a), {"raise", "del"})
         /\ Makes(Demote(p, a), {"lower", "del"})
         /\ Head(Promote(p, a)).do = "raise"
         /\ Head(Demote(p, a)).do = "lower"
<1>1. ASSUME NEW do \in {"raise", "lower"}, NEW s \in Scripts,
             s = <<Command(do, p, a), Del(a), Del(p)>>
      PROVE  Makes(s, {do, "del"}) /\ Head(s).do = do
  <2>1. /\ Len(s) = 3 /\ Head(s) = s[1]
        /\ s[1] = Command(do, p, a) /\ s[2] = Del(a) /\ s[3] = Del(p)
    BY <1>1
  <2>2. Drops(s, p, 2)
    BY <2>1, Fields DEF Drops, Deciding
  <2>3. \A i \in 1..3 : i = 1 \/ i = 2 \/ i = 3
    OBVIOUS
  <2>4. ASSUME NEW i \in 1..3
        PROVE  /\ s[i].do \in {do, "del"}
               /\ \A k \in Dirtied(s[i]) : Drops(s, k, i + 1)
    BY <2>1, <2>2, <2>3, Fields DEF Dirtied
  <2>5. Shaped(s)
    BY <2>1, <2>4, <1>1 DEF Shaped, ShapedAt, Judging
  <2> QED
    BY <1>1, <2>1, <2>4, <2>5, Fields DEF Makes
<1> QED
  BY <1>1, MemberScripts DEF Promote, Demote

LEMMA MakesRemoveKeyHolder ==
  ASSUME NEW p \in Places, NEW a \in Accounts
  PROVE  /\ Makes(RemoveKeyHolder(p, a), {"get", "expel", "revoke", "del"})
         /\ Head(RemoveKeyHolder(p, a)) = Get(p)
         /\ RemoveKeyHolder(p, a) # <<>>
<1> DEFINE s == RemoveKeyHolder(p, a)
<1>1. /\ Len(s) = 5 /\ Head(s) = s[1] /\ s # <<>>
      /\ s[1] = Get(p) /\ s[2] = Command("expel", p, a)
      /\ s[3] = Command("revoke", p, a) /\ s[4] = Del(a) /\ s[5] = Del(p)
  BY DEF RemoveKeyHolder
<1>2. s \in Scripts
  BY MemberScripts
<1> HIDE DEF s
<1>3. Drops(s, p, 3)
  BY <1>1, Fields DEF Drops, Deciding
<1>4. \A i \in 1..5 : i = 1 \/ i = 2 \/ i = 3 \/ i = 4 \/ i = 5
  OBVIOUS
<1>5. ASSUME NEW i \in 1..5
      PROVE  /\ s[i].do \in {"get", "expel", "revoke", "del"}
             /\ \A k \in Dirtied(s[i]) : Drops(s, k, i + 1)
             /\ s[i].do = "expel" =>
                  /\ s[i + 1] = Command("revoke", s[i].on, s[i].who)
                  /\ i + 1 \in 1..5
  BY <1>1, <1>3, <1>4, Fields DEF Dirtied
<1>6. Shaped(s)
  BY <1>1, <1>5 DEF Shaped, ShapedAt, Judging
<1> QED
  BY <1>1, <1>2, <1>5, <1>6 DEF Makes, s

LEMMA MakesRole ==
  ASSUME NEW p \in Places, NEW a \in Accounts, NEW c
  PROVE  /\ Makes(RemoveByRole(p, a, c),
                  {"get", "lower", "expel", "revoke", "del"})
         /\ RemoveByRole(p, a, c) # <<>> =>
              Head(RemoveByRole(p, a, c)).do \in {"get", "lower"}
<1> DEFINE dos == {"get", "lower", "expel", "revoke", "del"}
           d == Demote(p, a)
           r == RemoveKeyHolder(p, a)
<1>1. Makes(d, dos) /\ Makes(r, dos)
  BY MakesPromote, MakesRemoveKeyHolder, MakesMore
<1>2. Makes(RemoveCreator(p, a), dos)
  <2>1. Head(r).do \notin Judging \cup {"count", "uncount"}
    BY MakesRemoveKeyHolder, Fields DEF Judging
  <2> HIDE DEF d, r
  <2>2. Makes(d \o r, dos)
    BY <1>1, <2>1, MakesCat
  <2> QED
    BY <2>2 DEF RemoveCreator, d, r
<1>3. Head(RemoveCreator(p, a)).do = "lower"
  <2>1. d # <<>> /\ Head(d).do = "lower" /\ d \in Scripts /\ r \in Scripts
    BY MakesPromote, MemberScripts DEF Demote
  <2> HIDE DEF d, r
  <2> QED
    BY <2>1, HeadCat DEF RemoveCreator, d, r
<1>4. Head(r).do = "get"
  BY MakesRemoveKeyHolder, Fields
<1> QED
  BY <1>1, <1>2, <1>3, <1>4, MakesNothing DEF RemoveByRole

LEMMA MakesLoops ==
  /\ \A S \in SUBSET Subs, a \in Accounts :
       /\ Makes(Tour(S, a), {"tour"})
       /\ Tour(S, a) # <<>> => Head(Tour(S, a)) = Command("tour", S, a)
  /\ \A l \in Loops, a \in Accounts :
       /\ Makes(AddMembers(l, a), {"admit"})
       /\ AddMembers(l, a) # <<>> => Head(AddMembers(l, a)).do = "admit"
<1>1. \A c \in Commands : c.do \in {"tour", "admit"} => Makes(<<c>>, {c.do})
  BY MakesOne
<1> QED
  BY <1>1, LoopCommands, MakesNothing, Fields DEF Tour, AddMembers

-----------------------------------------------------------------------------
(* Steps of the one worker.                                                *)

LEMMA StoppedStays ==
  ASSUME NEW s, Stopped(s)
  PROVE  /\ s # <<>>
         /\ Head(s) = Halt \/ \E k \in Keys : Head(s) = Del(k)
         /\ Head(s) # Halt => Stopped(Tail(s))
<1>1. CASE s = <<Halt>>
  BY <1>1
<1>2. CASE \E k \in Keys : s = <<Del(k), Halt>>
  <2>1. PICK k \in Keys : s = <<Del(k), Halt>>
    BY <1>2
  <2>2. Head(s) = Del(k) /\ Tail(s) = <<Halt>>
    BY <2>1
  <2> QED
    BY <2>2 DEF Stopped
<1>3. CASE \E j, k \in Keys : s = <<Del(j), Del(k), Halt>>
  <2>1. PICK j \in Keys, k \in Keys : s = <<Del(j), Del(k), Halt>>
    BY <1>3
  <2>2. Head(s) = Del(j) /\ Tail(s) = <<Del(k), Halt>>
    BY <2>1
  <2> QED
    BY <2>2 DEF Stopped
<1> QED
  BY <1>1, <1>2, <1>3 DEF Stopped

LEMMA PanicStays ==
  ASSUME TypeOK, NEW w \in Workers, NEW deferred, Deferred(deferred),
         Panic(w, deferred)
  PROVE  Stopped(script'[w])
<1>1. script'[w] = deferred \o <<Halt>>
  BY DEF Panic, TypeOK
<1> DEFINE h == <<Halt>>
<1>2. h \in Scripts /\ Len(h) = 1 /\ h[1] = Halt
  BY PlainCommands, ShortScripts
<1>3. CASE deferred = <<>>
  <2>1. deferred \o h = h
    BY <1>2, <1>3, ConcatEmptySeq DEF Scripts
  <2> QED
    BY <1>1, <2>1 DEF Stopped
<1>4. ASSUME NEW k \in Keys, deferred = <<Del(k)>>
      PROVE  deferred \o h = <<Del(k), Halt>>
  <2> DEFINE d == <<Del(k)>>
             e == <<Del(k), Halt>>
  <2>1. d \in Scripts /\ Len(d) = 1 /\ d[1] = Del(k)
    BY PlainCommands, ShortScripts
  <2>2. e \in Scripts /\ Len(e) = 2 /\ e[1] = Del(k) /\ e[2] = Halt
    BY PlainCommands, ShortScripts
  <2> HIDE DEF d, e, h
  <2>3. /\ d \o h \in Scripts /\ Len(d \o h) = Len(d) + Len(h)
        /\ \A i \in 1..Len(d) : (d \o h)[i] = d[i]
        /\ \A i \in 1..Len(h) : (d \o h)[Len(d) + i] = h[i]
    BY <1>2, <2>1, CatAt
  <2>4. (d \o h)[1 + 1] = h[1] /\ (d \o h)[1] = d[1] /\ Len(d \o h) = 2
    BY <1>2, <2>1, <2>3
  <2>5. \A i \in 1..2 : i = 1 \/ i = 2
    OBVIOUS
  <2>6. d \o h = e
    BY <1>2, <2>1, <2>2, <2>3, <2>4, <2>5, SeqEqual DEF Scripts
  <2> QED
    BY <1>4, <2>6 DEF d, e
<1>5. ASSUME NEW j \in Keys, NEW k \in Keys, deferred = <<Del(j), Del(k)>>
      PROVE  deferred \o h = <<Del(j), Del(k), Halt>>
  <2> DEFINE d == <<Del(j), Del(k)>>
             e == <<Del(j), Del(k), Halt>>
  <2>1. d \in Scripts /\ Len(d) = 2 /\ d[1] = Del(j) /\ d[2] = Del(k)
    BY PlainCommands, ShortScripts
  <2>2. /\ e \in Scripts /\ Len(e) = 3
        /\ e[1] = Del(j) /\ e[2] = Del(k) /\ e[3] = Halt
    BY PlainCommands, ShortScripts
  <2> HIDE DEF d, e, h
  <2>3. /\ d \o h \in Scripts /\ Len(d \o h) = Len(d) + Len(h)
        /\ \A i \in 1..Len(d) : (d \o h)[i] = d[i]
        /\ \A i \in 1..Len(h) : (d \o h)[Len(d) + i] = h[i]
    BY <1>2, <2>1, CatAt
  <2>4. /\ (d \o h)[2 + 1] = h[1] /\ (d \o h)[1] = d[1]
        /\ (d \o h)[2] = d[2] /\ Len(d \o h) = 3
    BY <1>2, <2>1, <2>3
  <2>5. \A i \in 1..3 : i = 1 \/ i = 2 \/ i = 3
    OBVIOUS
  <2>6. d \o h = e
    BY <1>2, <2>1, <2>2, <2>3, <2>4, <2>5, SeqEqual DEF Scripts
  <2> QED
    BY <1>5, <2>6 DEF d, e
<1> QED
  BY <1>1, <1>3, <1>4, <1>5 DEF Deferred, Stopped

(* What the rest of a script looks like when its first command is done.    *)
LEMMA RestOf ==
  ASSUME NEW s \in Scripts, s # <<>>, Shaped(s), NEW r, InCourse(s, r)
  PROVE  /\ Tail(s) \in Scripts /\ Shaped(Tail(s)) /\ InCourse(Tail(s), r)
         /\ Head(s).do # "get" =>
              /\ Tail(s) # <<>> =>
                   Head(Tail(s)).do \notin Judging \cup {"count", "uncount"}
              /\ \A i \in 1..Len(Tail(s)) :
                   Tail(s)[i].do \notin {"dismiss", "serve"}
         /\ Head(s).do = "get" =>
              /\ Tail(s) # <<>> /\ Head(Tail(s)).do \in Judging =>
                   Head(s) = Get(Judged(Head(Tail(s))))
              /\ \A i \in 1..Len(Tail(s)) :
                   Tail(s)[i].do = "dismiss" =>
                     i = 1 /\ Head(s) = Get(Tail(s)[i].who)
<1> DEFINE t == Tail(s)
<1>1. /\ Len(s) \in Nat /\ Len(s) > 0 /\ Head(s) = s[1] /\ t \in Scripts
      /\ Len(t) = Len(s) - 1 /\ \A i \in 1..Len(t) : t[i] = s[i + 1]
  BY ScriptAt
<1>2. t # <<>> <=> Len(t) > 0
  BY <1>1, ScriptAt
<1>3. t # <<>> => Head(t) = t[1]
  BY <1>1, ScriptAt
<1>4. Shaped(t)
  BY ShapedTail
<1>5. ASSUME NEW i \in 1..Len(t)
      PROVE  /\ i + 1 \in 1..Len(s) /\ t[i] = s[i + 1] /\ ShapedAt(s, i + 1)
             /\ t[i].do \in Reading \cup Running(r.op)
             /\ t[i].do = "serve" => Opens(s, r)
  <2>1. i + 1 \in 1..Len(s) /\ t[i] = s[i + 1]
    BY <1>1
  <2> QED
    BY <2>1 DEF Shaped, InCourse
<1>6. ASSUME Opens(s, r), t # <<>>
      PROVE  Opens(t, r) /\ Head(s).do = "get"
  <2> DEFINE a == Get(r.who)
             b == Get(Subject(r))
             c == Command("serve", r.place, r.who)
  <2>1. a.do = "get" /\ b.do = "get"
    BY Fields
  <2> HIDE DEF a, b, c
  <2>2. s = <<a, b, c>> \/ s = <<b, c>> \/ s = <<c>>
    BY <1>6 DEF Opens, a, b, c
  <2>3. CASE s = <<a, b, c>>
    <3>1. t = <<b, c>> /\ Head(s) = a
      BY <2>3
    <3> QED
      BY <3>1, <2>1 DEF Opens, b, c
  <2>4. CASE s = <<b, c>>
    <3>1. t = <<c>> /\ Head(s) = b
      BY <2>4
    <3> QED
      BY <3>1, <2>1 DEF Opens, c
  <2>5. CASE s = <<c>>
    BY <2>5, <1>6
  <2> QED
    BY <2>2, <2>3, <2>4, <2>5
<1>7. InCourse(t, r)
  BY <1>1, <1>2, <1>5, <1>6 DEF InCourse
<1>8. ASSUME NEW i \in 1..Len(t), t[i].do \in Judging
      PROVE  i = 1 => s[1] = Get(Judged(t[i]))
  <2>1. s[i + 1].do \in Judging => s[(i + 1) - 1] = Get(Judged(s[i + 1]))
    BY <1>5 DEF ShapedAt
  <2> QED
    BY <1>5, <1>8, <2>1
<1>9. ASSUME NEW i \in 1..Len(t), t[i].do = "dismiss"
      PROVE  i = 1 /\ s[1] = Get(t[i].who)
  <2> DEFINE j == i + 1
  <2>0. j \in 1..Len(s) /\ s[j].do = "dismiss" /\ ShapedAt(s, j)
    BY <1>5, <1>9
  <2> HIDE DEF j
  <2>2. j \in {1, 2}
    BY <2>0 DEF ShapedAt
  <2>1. i = 1
    BY <2>2 DEF j
  <2> QED
    BY <1>8, <1>9, <2>1 DEF Judging, Judged
<1>10. t # <<>> => Head(t).do \notin {"count", "uncount"}
  BY <1>1, <1>2, <1>3, <1>7, <1>5, PlainCommands DEF ShapedAt
<1> HIDE DEF t
<1>11. t # <<>> /\ Head(t).do \in Judging => Head(s) = Get(Judged(Head(t)))
  BY <1>1, <1>2, <1>3, <1>8
<1>12. \A i \in 1..Len(t) : t[i].do = "serve" => Head(s).do = "get"
  BY <1>1, <1>2, <1>5, <1>6
<1>13. \A k : Get(k).do = "get"
  BY Fields
<1> QED
  BY <1>1, <1>4, <1>7, <1>9, <1>10, <1>11, <1>12, <1>13 DEF t

(* Agreement depends on the document only.                                 *)
LEMMA AgreesStays ==
  ASSUME NEW d, NEW e, NEW k, NEW c, Agrees(d, k, c),
         \/ e[k] = d[k]
         \/ k \notin Places /\ e[k].access \subseteq d[k].access
  PROVE  Agrees(e, k, c)
  BY DEF Agrees

(* The end of a read: what was read agrees, and so does what it cached.    *)
LEMMA GetSolo ==
  ASSUME TypeOK, NEW w \in Workers, SoloAt(w), script[w] # <<>>,
         NEW k \in Keys, Current(w) = Get(k),
         script'[w] = Tail(script[w]), phase'[w] = "get",
         db' = db, req'[w] = req[w], Agrees(db, k, copy'[w][k]),
         \A j \in Keys : j # k => copy'[w][j] = copy[w][j],
         \A j \in Keys : \/ cache'[j] = cache[j]
                         \/ j = k /\ Agrees(db, k, cache'[k])
  PROVE  SoloAt(w)'
<1> DEFINE s == script[w]
           t == Tail(s)
           r == req[w]
<1>1. s \in Scripts /\ Shaped(s) /\ InCourse(s, r) /\ Head(s) = Get(k)
  BY DEF TypeOK, Scripts, SoloAt, Current
<1>2. /\ Head(s).do = "get" /\ Len(s) \in Nat /\ Len(s) > 0
      /\ Head(s) = s[1] /\ t \in Scripts /\ Len(t) = Len(s) - 1
      /\ \A i \in 1..Len(t) : t[i] = s[i + 1]
  BY <1>1, Fields, ScriptAt
<1>3. /\ Shaped(t) /\ InCourse(t, r)
      /\ t # <<>> /\ Head(t).do \in Judging => Get(k) = Get(Judged(Head(t)))
      /\ \A i \in 1..Len(t) :
           t[i].do = "dismiss" => i = 1 /\ Get(k) = Get(t[i].who)
  BY <1>1, <1>2, RestOf
<1>4. /\ t # <<>> <=> Len(t) > 0
      /\ t # <<>> => Head(t) = t[1]
      /\ \A i \in 1..Len(t) : t[i] \in Commands
  BY <1>2, ScriptAt
<1>5. ASSUME NEW j \in Keys
      PROVE  cache'[j] = Nil \/ Agrees(db, j, cache'[j]) \/ Drops(t, j, 1)
  <2>1. cache[j] = Nil \/ Agrees(db, j, cache[j]) \/ Drops(s, j, 1)
    BY DEF SoloAt
  <2>2. Drops(s, j, 1) => Drops(t, j, 1)
    BY <1>1, Fields, DropsTail
  <2> QED
    BY <2>1, <2>2
<1>6. t # <<>> /\ Head(t).do \in Judging =>
        Agrees(db, Judged(Head(t)), copy'[w][Judged(Head(t))])
  BY <1>3, Fields
<1>7. ASSUME NEW i \in 1..Len(t), t[i].do = "dismiss"
      PROVE  copy'[w][Grand] = db[Grand]
  <2>1. t[i] \in Commands /\ k = t[i].who
    BY <1>3, <1>4, <1>7, Fields
  <2>2. k \in Accounts
    BY <2>1, <1>7, CommandFields
  <2>3. Grand \in Keys /\ k # Grand
    BY <2>2, KeyKinds
  <2>4. i + 1 \in 1..Len(s) /\ s[i + 1].do = "dismiss"
    BY <1>2, <1>7
  <2>5. copy[w][Grand] = db[Grand]
    BY <2>4 DEF SoloAt
  <2> QED
    BY <2>3, <2>5
<1>8. r \in Requests
  BY AtCommand
<1>9. r.who \in Accounts /\ r.who \in Keys /\ Subject(r) \in Places
  BY <1>8, RequestFields, KeyKinds
<1> HIDE DEF t, s, r
<1>10. ASSUME t # <<>>, t[Len(t)].do = "serve"
       PROVE  /\ Opens(s, r)
              /\ \/ /\ Len(t) = 1 /\ k = Subject(r)
                    /\ s = <<Get(Subject(r)),
                             Command("serve", r.place, r.who)>>
                 \/ Len(t) = 2 /\ k = r.who
  <2>1. Len(t) \in 1..Len(t)
    BY <1>2, <1>4, <1>10
  <2>2. Len(t) + 1 \in 1..Len(s) /\ s[Len(t) + 1].do = "serve"
    BY <1>2, <1>10, <2>1
  <2>3. Opens(s, r)
    BY <1>1, <2>2 DEF InCourse
  <2>4. s # <<Command("serve", r.place, r.who)>>
    BY <1>2, <1>4, <1>10
  <2> QED
    BY <1>1, <1>2, <2>3, <2>4, Fields DEF Opens
<1>11. ASSUME t # <<>>, Head(t).do = "serve"
       PROVE  copy'[w][Subject(r)] = db[Subject(r)]
  <2>1. Opens(s, r)
    <3>1. 1 + 1 \in 1..Len(s) /\ s[1 + 1].do = "serve"
      BY <1>2, <1>4, <1>11
    <3> QED
      BY <1>1, <3>1 DEF InCourse
  <2>2. Len(t) = 1
    <3>1. s[2].do = "serve"
      BY <1>2, <1>4, <1>11
    <3> QED
      BY <1>2, <1>4, <1>11, <2>1, <3>1, Fields DEF Opens
  <2>3. k = Subject(r)
    BY <1>10, <1>4, <1>11, <2>2
  <2> QED
    BY <2>3, <1>9 DEF Agrees
<1>12. ASSUME t # <<>>, t[Len(t)].do = "serve", Len(t) < 3
       PROVE  Agrees(db, r.who, copy'[w][r.who])
  <2>1. CASE k = r.who
    BY <2>1
  <2>2. CASE k # r.who
    <3>1. Len(t) = 1
      BY <1>10, <1>12, <2>2
    <3>2. Len(s) = 2 /\ s # <<>> /\ s[Len(s)].do = "serve"
      <4>1. s = <<Get(Subject(r)), Command("serve", r.place, r.who)>>
        BY <1>10, <1>12, <2>2
      <4> QED
        BY <4>1, Fields
    <3>3. Agrees(db, r.who, copy[w][r.who])
      BY <3>2 DEF SoloAt, s, r
    <3> QED
      BY <3>3, <2>2, <1>9
  <2> QED
    BY <2>1, <2>2
<1>13. script'[w] = t /\ req'[w] = r
  BY DEF t, s, r
<1> QED
  BY <1>3, <1>5, <1>6, <1>7, <1>11, <1>12, <1>13 DEF SoloAt, At

(* A command that writes and no more: whatever it makes stale is dropped   *)
(* later.                                                                  *)
LEMMA WriteSolo ==
  ASSUME TypeOK, NEW w \in Workers, SoloAt(w), script[w] # <<>>,
         Current(w).do # "get",
         script'[w] = Tail(script[w]), phase'[w] = phase[w],
         copy' = copy, cache' = cache, req'[w] = req[w],
         \A k \in Keys :
           \/ k \in Dirtied(Current(w))
           \/ db'[k] = db[k]
           \/ k \notin Places /\ db'[k].access \subseteq db[k].access,
         \A k \in Keys : Current(w) # Del(k)
  PROVE  SoloAt(w)'
<1> DEFINE s == script[w]
           t == Tail(s)
           r == req[w]
<1>1. s \in Scripts /\ Shaped(s) /\ InCourse(s, r) /\ Head(s) = Current(w)
  BY DEF TypeOK, Scripts, SoloAt, Current
<1>2. /\ Len(s) \in Nat /\ Len(s) > 0 /\ Head(s) = s[1]
      /\ t \in Scripts /\ Len(t) = Len(s) - 1
      /\ \A i \in 1..Len(t) : t[i] = s[i + 1]
  BY <1>1, ScriptAt
<1>3. /\ Shaped(t) /\ InCourse(t, r)
      /\ t # <<>> => Head(t).do \notin Judging
      /\ \A i \in 1..Len(t) : t[i].do \notin {"dismiss", "serve"}
  BY <1>1, RestOf
<1>4. /\ t # <<>> <=> Len(t) > 0
      /\ t # <<>> => Head(t) = t[1]
  BY <1>2, ScriptAt
<1>5. phase[w] = "get"
  BY AtCommand
<1> HIDE DEF s, t, r
<1>6. ASSUME NEW k \in Keys
      PROVE  cache[k] = Nil \/ Agrees(db', k, cache[k]) \/ Drops(t, k, 1)
  <2>1. CASE k \in Dirtied(Current(w))
    <3>1. ShapedAt(s, 1)
      BY <1>1, <1>2 DEF Shaped
    <3>2. Drops(s, k, 1 + 1)
      BY <1>1, <1>2, <2>1, <3>1 DEF ShapedAt
    <3> QED
      BY <1>1, <1>2, <3>2, DropsTail DEF t, s
  <2>2. CASE k \notin Dirtied(Current(w))
    <3>1. cache[k] = Nil \/ Agrees(db, k, cache[k]) \/ Drops(s, k, 1)
      BY DEF SoloAt, s
    <3>2. Drops(s, k, 1) => Drops(t, k, 1)
      BY <1>1, DropsTail DEF t, s
    <3>3. Agrees(db, k, cache[k]) => Agrees(db', k, cache[k])
      BY <2>2, AgreesStays
    <3> QED
      BY <3>1, <3>2, <3>3
  <2> QED
    BY <2>1, <2>2
<1>7. script'[w] = t /\ req'[w] = r
  BY DEF t, s, r
<1>8. t # <<>> => Len(t) \in 1..Len(t) /\ 1 \in 1..Len(t)
  BY <1>2, <1>4
<1> QED
  BY <1>3, <1>4, <1>5, <1>6, <1>7, <1>8 DEF SoloAt, At

(* A decision: it is made when no copy is stale, and judges nothing more   *)
(* without reading it.                                                     *)
LEMMA DecideSolo ==
  ASSUME TypeOK, NEW w \in Workers, SoloAt(w), script[w] # <<>>,
         Current(w).do \in Deciding, NEW calls \in Scripts, Shaped(calls),
         \A i \in 1..Len(calls) :
           calls[i].do \in (Reading \ {"serve"}) \cup Running(req[w].op),
         calls # <<>> => Head(calls).do \notin Judging,
         \A i \in 1..Len(calls) :
           calls[i].do = "dismiss" =>
             copy[w][Grand] = db[Grand] /\ Tail(script[w]) = <<>>,
         script'[w] = calls \o Tail(script[w]), phase'[w] = phase[w],
         copy' = copy, cache' = cache, req'[w] = req[w],
         \A k \in Keys :
           Agrees(db, k, cache[k]) /\ cache[k] # Nil =>
             Agrees(db', k, cache[k]),
         db'[Grand] = db[Grand]
  PROVE  SoloAt(w)'
<1> DEFINE s == script[w]
           t == Tail(s)
           r == req[w]
           u == calls \o t
<1>1. s \in Scripts /\ Shaped(s) /\ InCourse(s, r) /\ Head(s) = Current(w)
  BY DEF TypeOK, Scripts, SoloAt, Current
<1>2. /\ Len(s) \in Nat /\ Len(s) > 0 /\ Head(s) = s[1] /\ t \in Scripts
  BY <1>1, ScriptAt
<1>3. Head(s).do # "get" /\ phase[w] = "get"
  BY <1>1, AtCommand DEF Deciding
<1>4. /\ Shaped(t) /\ InCourse(t, r)
      /\ t # <<>> => Head(t).do \notin Judging \cup {"count", "uncount"}
      /\ \A i \in 1..Len(t) : t[i].do \notin {"dismiss", "serve"}
  BY <1>1, <1>3, RestOf
<1>5. Shaped(u)
  BY <1>2, <1>4, ShapedCat
<1>6. /\ u \in Scripts /\ Len(u) = Len(calls) + Len(t)
      /\ Len(calls) \in Nat /\ Len(t) \in Nat
      /\ \A i \in 1..Len(calls) : u[i] = calls[i]
      /\ \A i \in 1..Len(t) : u[Len(calls) + i] = t[i]
  BY <1>2, CatAt, ScriptAt
<1>7. /\ u # <<>> <=> Len(u) > 0
      /\ u # <<>> => Head(u) = u[1]
  BY <1>6, ScriptAt
<1>8. u # <<>> => Head(u).do \notin Judging
  <2>1. CASE calls = <<>>
    BY <2>1, <1>2, <1>4, HeadCat
  <2>2. CASE calls # <<>>
    BY <2>2, <1>2, HeadCat
  <2> QED
    BY <2>1, <2>2
<1> HIDE DEF s, t, r, u
<1>9. ASSUME NEW i \in 1..Len(u)
      PROVE  /\ u[i].do \in Reading \cup Running(r.op)
             /\ u[i].do # "serve"
             /\ u[i].do = "dismiss" => copy[w][Grand] = db[Grand]
  <2>1. CASE i \in 1..Len(calls)
    <3>1. calls[i].do \in (Reading \ {"serve"}) \cup Running(r.op)
      BY <2>1 DEF r
    <3>2. "serve" \notin Running(r.op)
      BY DEF Running, AddingSteps, LeavingSteps
    <3> QED
      BY <1>6, <2>1, <3>1, <3>2
  <2>2. CASE i - Len(calls) \in 1..Len(t)
    <3>1. u[Len(calls) + (i - Len(calls))] = t[i - Len(calls)]
      BY <1>6, <2>2
    <3>2. Len(calls) + (i - Len(calls)) = i
      BY <1>6
    <3> QED
      BY <3>1, <3>2, <2>2, <1>4 DEF InCourse
  <2> QED
    BY <1>6, <2>1, <2>2
<1>10. InCourse(u, r)
  BY <1>9 DEF InCourse
<1>11. ASSUME NEW k \in Keys
       PROVE  cache[k] = Nil \/ Agrees(db', k, cache[k])
  <2>1. ~Drops(s, k, 1)
    BY <1>1, <1>2 DEF Drops
  <2>2. cache[k] = Nil \/ Agrees(db, k, cache[k])
    BY <2>1 DEF SoloAt, s
  <2> QED
    BY <2>2
<1>12. script'[w] = u /\ req'[w] = r
  BY DEF u, t, s, r
<1>13. u # <<>> => Len(u) \in 1..Len(u) /\ 1 \in 1..Len(u)
  BY <1>6, <1>7
<1> QED
  BY <1>3, <1>5, <1>7, <1>8, <1>9, <1>10, <1>11, <1>12, <1>13
     DEF SoloAt, At

(* Which request a command belongs to.                                     *)
LEMMA RunningFor ==
  ASSUME TypeOK, NEW w \in Workers, SoloAt(w), script[w] # <<>>
  PROVE  LET do == Current(w).do
             run == Running(req[w].op)
         IN  /\ do \in {"enlist", "admit"} => run = AddingSteps
             /\ do \in {"dismiss", "tour", "visit"} => run = LeavingSteps
             /\ do = "dissolve" => req[w].op = "remove"
             /\ do = "insert" =>
                  run = {"insert", "count", "join", "grant", "raise"}
<1> DEFINE s == script[w]
<1>1. s \in Scripts /\ InCourse(s, req[w])
  BY DEF TypeOK, Scripts, SoloAt
<1>2. Len(s) \in Nat /\ Len(s) > 0 /\ Head(s) = s[1]
  BY <1>1, ScriptAt
<1> HIDE DEF s
<1>3. s[1].do \in Reading \cup Running(req[w].op)
  BY <1>1, <1>2 DEF InCourse
<1>4. Current(w) = s[1]
  BY <1>2 DEF Current, s
<1> QED
  BY <1>3, <1>4 DEF Reading, Running, AddingSteps, LeavingSteps

LEMMA ReadSolo ==
  ASSUME TypeOK, NEW w \in Workers, SoloAt(w), Read(w)
  PROVE  SoloAt(w)'
<1> DEFINE k == Current(w).on
<1>1. script[w] # <<>> /\ Current(w).do = "get"
  BY DEF Read, Lookup, Find, Fill, At, Current
<1>2. Current(w) \in Commands /\ script[w] \in Scripts /\ k \in Keys
  BY <1>1, AtCommand, CommandFields DEF TypeOK, Scripts
<1>3. Current(w) = Get(k)
  BY <1>1, <1>2 DEF Commands, Get, Command, Halt
<1>4. Head(script[w]) = script[w][1] /\ Len(script[w]) > 0
  BY <1>1, <1>2, ScriptAt
<1>5. cache[k] = Nil \/ Agrees(db, k, cache[k])
  <2>1. ~Drops(script[w], k, 1)
    BY <1>3, <1>4 DEF Drops, Current
  <2> QED
    BY <1>2, <2>1 DEF SoloAt
<1>6. Agrees(db, k, db[k])
  BY <1>2 DEF Agrees, TypeOK, Keys
<1>7. <<>> \o Tail(script[w]) = Tail(script[w])
  BY <1>1, <1>2, ScriptAt, ConcatEmptySeq DEF Scripts
<1>8. /\ DOMAIN copy = Workers /\ DOMAIN copy[w] = Keys /\ DOMAIN cache = Keys
      /\ DOMAIN phase = Workers /\ DOMAIN script = Workers
  BY DEF TypeOK, IsStore
<1>9. UNCHANGED <<db, req>>
  BY DEF Read, Lookup, Find, Fill
<1> HIDE DEF k
<1>a. CASE Lookup(w) /\ cache[k] # Nil
  <2>1. /\ copy' = [copy EXCEPT ![w][k] = cache[k]]
        /\ script' = [script EXCEPT ![w] = Tail(@)]
        /\ cache' = cache /\ phase' = phase /\ phase[w] = "get"
    BY <1>a, <1>7, <1>8 DEF Lookup, Continue, k
  <2> QED
    BY <1>1, <1>2, <1>3, <1>5, <1>8, <1>9, <1>a, <2>1, GetSolo
<1>b. CASE Find(w) /\ db[k] = Nil
  <2>1. /\ copy' = [copy EXCEPT ![w][k] = db[k]]
        /\ script' = [script EXCEPT ![w] = Tail(@)]
        /\ cache' = cache /\ phase'[w] = "get"
    BY <1>b, <1>7, <1>8 DEF Find, Continue, k
  <2> QED
    BY <1>1, <1>2, <1>3, <1>6, <1>8, <1>9, <2>1, GetSolo
<1>c. CASE Fill(w)
  <2>1. copy[w][k] = db[k]
    BY <1>c DEF Fill, SoloAt, k, Current
  <2>2. /\ cache' = [cache EXCEPT ![k] = copy[w][k]]
        /\ script' = [script EXCEPT ![w] = Tail(@)]
        /\ copy' = copy /\ phase'[w] = "get"
    BY <1>c, <1>7, <1>8 DEF Fill, Continue, k
  <2> QED
    BY <1>1, <1>2, <1>3, <1>6, <1>8, <1>9, <2>1, <2>2, GetSolo
<1>d. CASE Lookup(w) /\ cache[k] = Nil
  <2>1. UNCHANGED <<copy, script, cache>> /\ phase'[w] = "find"
    BY <1>d, <1>8 DEF Lookup, k
  <2> QED
    BY <1>9, <2>1 DEF SoloAt, At
<1>e. CASE Find(w) /\ db[k] # Nil
  <2>1. /\ copy' = [copy EXCEPT ![w][k] = db[k]]
        /\ UNCHANGED <<script, cache>>
    BY <1>e DEF Find, k
  <2>2. copy'[w][k] = db[k] /\ \A j \in Keys : j # k => copy'[w][j] = copy[w][j]
    BY <1>2, <1>8, <2>1
  <2>3. Head(script[w]).do = "get" /\ Head(script[w]).on = k
    BY <1>1 DEF Current, k
  <2>4. req[w].who \in Keys /\ Grand \in Keys
    BY <1>1, AtCommand, RequestFields, KeyKinds
  <2>5. \A j \in Keys : Agrees(db, j, copy[w][j]) => Agrees(db, j, copy'[w][j])
    BY <1>6, <2>2
  <2>6. copy[w][Grand] = db[Grand] => copy'[w][Grand] = db[Grand]
    BY <2>2, <2>4
  <2> QED
    BY <1>9, <2>1, <2>2, <2>3, <2>4, <2>5, <2>6 DEF SoloAt, At, Judging
<1> QED
  BY <1>a, <1>b, <1>c, <1>d, <1>e DEF Read

LEMMA DropSolo ==
  ASSUME TypeOK, NEW w \in Workers, SoloAt(w), Drop(w)
  PROVE  SoloAt(w)'
<1> DEFINE k == Current(w).on
           s == script[w]
           t == Tail(s)
           r == req[w]
<1>1. s # <<>> /\ Current(w).do = "del"
  BY DEF Drop, At, Current
<1>2. /\ Current(w) \in Commands /\ s \in Scripts /\ k \in Keys
      /\ Shaped(s) /\ InCourse(s, r) /\ phase[w] = "get"
  BY <1>1, AtCommand, CommandFields DEF TypeOK, Scripts, SoloAt
<1>3. Head(s) = Del(k)
  BY <1>1, <1>2 DEF Commands, Del, Command, Halt, Current
<1>4. /\ Shaped(t) /\ InCourse(t, r) /\ t \in Scripts
      /\ t # <<>> => Head(t).do \notin Judging
      /\ \A i \in 1..Len(t) : t[i].do \notin {"dismiss", "serve"}
  BY <1>1, <1>2, RestOf, Fields DEF Current
<1>5. /\ Len(t) \in Nat /\ t # <<>> <=> Len(t) > 0
      /\ t # <<>> => Head(t) = t[1]
  BY <1>4, ScriptAt
<1>6. <<>> \o t = t
  BY <1>4, ConcatEmptySeq DEF Scripts
<1>7. /\ script'[w] = t /\ req'[w] = r /\ UNCHANGED <<db, copy, phase>>
      /\ cache' = [cache EXCEPT ![k] = Nil]
  BY <1>6 DEF Drop, Continue, TypeOK
<1> HIDE DEF s, t, r, k
<1>8. ASSUME NEW j \in Keys
      PROVE  cache'[j] = Nil \/ Agrees(db, j, cache'[j]) \/ Drops(t, j, 1)
  <2>1. CASE j = k
    BY <1>2, <1>7, <2>1 DEF TypeOK, IsStore
  <2>2. CASE j # k
    <3>1. cache[j] = Nil \/ Agrees(db, j, cache[j]) \/ Drops(s, j, 1)
      BY DEF SoloAt, s
    <3>2. Drops(s, j, 1) => Drops(t, j, 1)
      BY <1>1, <1>2, <1>3, <2>2, Fields, DropsTail DEF t, s
    <3>3. cache'[j] = cache[j]
      BY <1>7, <2>2 DEF TypeOK, IsStore
    <3> QED
      BY <3>1, <3>2, <3>3
  <2> QED
    BY <2>1, <2>2
<1>9. t # <<>> => Len(t) \in 1..Len(t) /\ 1 \in 1..Len(t)
  BY <1>5
<1> QED
  BY <1>2, <1>4, <1>5, <1>7, <1>8, <1>9 DEF SoloAt, At

LEMMA RequestSolo ==
  ASSUME TypeOK, NEW w \in Workers, SoloAt(w), Receive(w) \/ Answer(w)
  PROVE  SoloAt(w)'
<1>1. /\ script[w] = <<>> /\ phase[w] = "get"
      /\ UNCHANGED <<db, cache, phase>>
  BY DEF Receive, Answer, TypeOK, At
<1>2. \A k \in Keys : cache[k] = Nil \/ Agrees(db, k, cache[k])
  <2>1. \A k : ~Drops(<<>>, k, 1)
    BY DEF Drops
  <2> QED
    BY <1>1, <2>1 DEF SoloAt
<1>a. CASE Receive(w)
  <2>1. PICK r \in Requests :
          /\ req' = [req EXCEPT ![w] = r]
          /\ script' = [script EXCEPT ![w] =
               <<Get(r.who), Get(Subject(r)), Command("serve", r.place, r.who)>>]
    BY <1>a DEF Receive
  <2> DEFINE s == <<Get(r.who), Get(Subject(r)),
                    Command("serve", r.place, r.who)>>
  <2>2. /\ Len(s) = 3 /\ Head(s) = s[1] /\ s[1] = Get(r.who)
        /\ s[2] = Get(Subject(r)) /\ s[3] = Command("serve", r.place, r.who)
    OBVIOUS
  <2>3. Opens(s, r)
    BY DEF Opens
  <2>4. script'[w] = s /\ req'[w] = r
    BY <2>1 DEF TypeOK
  <2> HIDE DEF s
  <2>5. \A i \in 1..3 : i = 1 \/ i = 2 \/ i = 3
    OBVIOUS
  <2>6. \A i \in 1..3 : s[i].do \in {"get", "serve"}
    BY <2>2, <2>5, Fields
  <2>7. \A i \in 1..3 : Dirtied(s[i]) = {}
    BY <2>6 DEF Dirtied
  <2>8. Shaped(s)
    BY <2>2, <2>6, <2>7 DEF Shaped, ShapedAt, Judging
  <2>9. InCourse(s, r)
    BY <2>2, <2>3, <2>6 DEF InCourse, Reading
  <2>10. Head(s).do \notin Judging /\ Head(s).do # "serve"
    BY <2>2, Fields DEF Judging
  <2>11. Len(s) = 3 /\ \A i \in 1..Len(s) : s[i].do # "dismiss"
    BY <2>2, <2>6
  <2>12. /\ phase'[w] = "get"
         /\ \A k \in Keys : cache'[k] = Nil \/ Agrees(db', k, cache'[k])
    BY <1>1, <1>2
  <2> QED
    BY <2>4, <2>8, <2>9, <2>10, <2>11, <2>12 DEF SoloAt, At
<1>b. CASE Answer(w)
  <2>1. script' = script
    BY <1>b DEF Answer
  <2>2. Shaped(<<>>) /\ \A r : InCourse(<<>>, r)
    BY DEF Shaped, InCourse
  <2> QED
    BY <1>1, <1>2, <2>1, <2>2 DEF SoloAt, At
<1> QED
  BY <1>a, <1>b

(* The command each of the manager's updates is.                           *)
LEMMA UpdatesAt ==
  ASSUME NEW w
  PROVE  /\ Join(w) => At(w, "join")
         /\ Grant(w) => At(w, "grant")
         /\ Raise(w) => At(w, "raise")
         /\ Lower(w) => At(w, "lower")
         /\ Expel(w) => At(w, "expel")
         /\ Revoke(w) => At(w, "revoke")
         /\ Uncount(w) => At(w, "uncount")
         /\ Evict(w) => At(w, "evict")
         /\ Delete(w) => At(w, "delete")
         /\ Count(w) => At(w, "count")
<1>1. Join(w) => At(w, "join")
  BY DEF Join
<1>2. Grant(w) => At(w, "grant")
  BY DEF Grant
<1>3. Raise(w) => At(w, "raise")
  BY DEF Raise
<1>4. Lower(w) => At(w, "lower")
  BY DEF Lower
<1>5. Expel(w) => At(w, "expel")
  BY DEF Expel
<1>6. Revoke(w) => At(w, "revoke")
  BY DEF Revoke
<1>7. Uncount(w) => At(w, "uncount")
  BY DEF Uncount
<1>8. Evict(w) => At(w, "evict")
  BY DEF Evict
<1>9. Delete(w) => At(w, "delete")
  BY DEF Delete
<1>10. Count(w) => At(w, "count")
  BY DEF Count
<1> QED
  BY <1>1, <1>2, <1>3, <1>4, <1>5, <1>6, <1>7, <1>8, <1>9, <1>10

(* The manager's updates.                                                  *)
LEMMA MemberWriteSolo ==
  ASSUME TypeOK, NEW w \in Workers, SoloAt(w), ~Stopped(script[w]),
         Join(w) \/ Grant(w) \/ Raise(w) \/ Lower(w) \/ Expel(w) \/ Revoke(w)
  PROVE  SoloAt(w)' \/ Stopped(script'[w])
<1> DEFINE p == Current(w).on
           a == Current(w).who
           t == Tail(script[w])
<1>1. /\ script[w] # <<>>
      /\ Current(w).do \in {"join", "grant", "raise", "lower", "expel",
                            "revoke"}
  BY UpdatesAt DEF At, Current
<1>2. Current(w) \in Commands /\ t \in Scripts /\ p \in Places /\ a \in Accounts
  BY <1>1, AtCommand, CommandFields
<1>3. p \in Keys /\ a \in Keys /\ a \notin Places
  BY <1>2, KeyKinds
<1>4. <<>> \o t = t
  BY <1>2, ConcatEmptySeq DEF Scripts
<1>5. \A k : Current(w) # Del(k)
  BY <1>1, Fields
<1>6. DOMAIN db = Keys /\ DOMAIN script = Workers /\ DOMAIN phase = Workers
  BY DEF TypeOK, IsStore
<1>7. /\ Current(w).do \in {"join", "raise", "lower", "expel"} =>
           Dirtied(Current(w)) = {p}
      /\ Current(w).do = "grant" => Dirtied(Current(w)) = {a}
  BY DEF Dirtied
<1> HIDE DEF p, a, t
<1>a. CASE Join(w) \/ Raise(w) \/ Lower(w) \/ Expel(w)
  <2>1. PICK matches, new : Update(w, p, matches, new)
    BY <1>a DEF Join, Raise, Lower, Expel, p
  <2>2. /\ script'[w] = t /\ UNCHANGED <<cache, phase, copy, req>>
        /\ db' = db \/ db' = [db EXCEPT ![p] = new]
    BY <2>1, <1>4, <1>6 DEF Update, Continue, t
  <2>3. p \in Dirtied(Current(w))
    BY <1>a, <1>7, UpdatesAt DEF At, Current
  <2>4. \A k \in Keys : k \in Dirtied(Current(w)) \/ db'[k] = db[k]
    BY <1>6, <2>2, <2>3
  <2> QED
    BY <1>1, <1>5, <2>2, <2>4, WriteSolo DEF t
<1>b. CASE Grant(w) \/ Revoke(w)
  <2>1. CASE copy[w][p] = Nil
    <3>1. Panic(w, <<Del(a), Del(p)>>)
      BY <1>b, <2>1 DEF Grant, Revoke, p, a
    <3>2. Deferred(<<Del(a), Del(p)>>)
      BY <1>2, <1>3 DEF Deferred
    <3> QED
      BY <3>1, <3>2, PanicStays
  <2>2. CASE copy[w][p] # Nil
    <3>1. /\ script'[w] = t /\ UNCHANGED <<cache, phase, copy, req>>
      BY <1>b, <2>2, <1>4, <1>6 DEF Grant, Revoke, Continue, t, p
    <3>2. \A k \in Keys : k # a => db'[k] = db[k]
      BY <1>b, <1>6 DEF Grant, Revoke, a
    <3>3. CASE Grant(w)
      <4>1. a \in Dirtied(Current(w))
        BY <3>3, <1>7 DEF Grant, At, Current
      <4> QED
        BY <1>1, <1>5, <3>1, <3>2, <4>1, WriteSolo DEF t
    <3>4. CASE Revoke(w)
      <4>1. db[a] \in AccountDocs
        BY <1>2 DEF TypeOK, IsStore
      <4>2. db'[a].access \subseteq db[a].access
        BY <3>4, <4>1, <1>3, <1>6 DEF Revoke, a, AccountDocs
      <4> QED
        BY <1>1, <1>3, <1>5, <3>1, <3>2, <4>2, WriteSolo DEF t
    <3> QED
      BY <1>b, <3>3, <3>4
  <2> QED
    BY <2>1, <2>2
<1> QED
  BY <1>a, <1>b

LEMMA PlaceWriteSolo ==
  ASSUME TypeOK, NEW w \in Workers, SoloAt(w), ~Stopped(script[w]),
         Uncount(w) \/ Evict(w) \/ Delete(w) \/ Count(w)
  PROVE  SoloAt(w)' \/ Stopped(script'[w])
<1> DEFINE p == Current(w).on
           t == Tail(script[w])
<1>1. /\ script[w] # <<>>
      /\ Current(w).do \in {"uncount", "evict", "delete", "count"}
  BY DEF Uncount, Evict, Delete, Count, At, Current
<1>2. /\ Current(w) \in Commands /\ t \in Scripts /\ p \in Places
      /\ IsStore(copy[w])
  BY <1>1, AtCommand, CommandFields
<1>3. p \in Keys /\ Grand \in Keys
  BY <1>2, KeyKinds
<1>4. <<>> \o t = t
  BY <1>2, ConcatEmptySeq DEF Scripts
<1>5. \A k : Current(w) # Del(k)
  BY <1>1, Fields
<1>6. DOMAIN db = Keys /\ DOMAIN script = Workers
  BY DEF TypeOK, IsStore
<1> HIDE DEF p, t
<1>a. CASE Uncount(w) \/ Count(w)
  <2>1. PICK matches, new : Update(w, Grand, matches, new)
    BY <1>a DEF Uncount, Count
  <2>2. /\ script'[w] = t /\ UNCHANGED <<cache, phase, copy, req>>
        /\ db' = db \/ db' = [db EXCEPT ![Grand] = new]
    BY <2>1, <1>4, <1>6 DEF Update, Continue, t
  <2>3. Grand \in Dirtied(Current(w))
    BY <1>a DEF Uncount, Count, At, Current, Dirtied
  <2>4. \A k \in Keys : k \in Dirtied(Current(w)) \/ db'[k] = db[k]
    BY <1>6, <2>2, <2>3
  <2> QED
    BY <1>1, <1>5, <2>2, <2>4, WriteSolo DEF t
<1>b. CASE Delete(w)
  <2>1. /\ script'[w] = t /\ UNCHANGED <<cache, phase, copy, req>>
        /\ db' = [db EXCEPT ![p] = Nil]
    BY <1>b, <1>4, <1>6 DEF Delete, Continue, t, p
  <2>2. p \in Dirtied(Current(w))
    BY <1>b DEF Delete, At, Current, Dirtied, p
  <2>3. \A k \in Keys : k \in Dirtied(Current(w)) \/ db'[k] = db[k]
    BY <1>6, <2>1, <2>2
  <2> QED
    BY <1>1, <1>5, <2>1, <2>3, WriteSolo DEF t
<1>c. CASE Evict(w)
  <2> DEFINE c == copy[w][p]
  <2>1. CASE c = Nil
    <3>1. Panic(w, RemoveDefers(p))
      BY <1>c, <2>1 DEF Evict, p
    <3>2. Deferred(RemoveDefers(p))
      BY <1>3 DEF RemoveDefers, Deferred
    <3> QED
      BY <3>1, <3>2, PanicStays
  <2>2. CASE c # Nil
    <3>1. /\ script'[w] = t /\ UNCHANGED <<cache, phase, copy, req>>
          /\ db' = [k \in Keys |-> IF k \in Members(c)
                      THEN [access |-> db[k].access \ {p}] ELSE db[k]]
      BY <1>c, <2>2, <1>4, <1>6 DEF Evict, Continue, t, p
    <3>2. Members(c) \subseteq Accounts
      BY <1>2, <2>2, StoreFields DEF Members, PlaceDocs
    <3> HIDE DEF c
    <3>3. \A k \in Keys : \/ db'[k] = db[k]
                          \/ k \notin Places /\ db'[k].access \subseteq db[k].access
      BY <3>1, <3>2, KeyKinds
    <3> QED
      BY <1>1, <1>5, <3>1, <3>3, WriteSolo DEF t
  <2> QED
    BY <2>1, <2>2
<1> QED
  BY <1>a, <1>b, <1>c

(* A decision that changes no document.                                    *)
LEMMA ProceedSolo ==
  ASSUME TypeOK, NEW w \in Workers, SoloAt(w), script[w] # <<>>,
         Current(w).do \in Deciding, NEW calls, NEW dos,
         Makes(calls, dos), Proceed(w, calls),
         dos \subseteq (Reading \ {"serve"}) \cup Running(req[w].op),
         calls # <<>> => Head(calls).do \notin Judging,
         "dismiss" \in dos => copy[w][Grand] = db[Grand] /\ At(w, "serve")
  PROVE  SoloAt(w)'
<1>1. Tail(script[w]) \in Scripts /\ script[w] \in Scripts
  BY AtCommand DEF TypeOK, Scripts
<1>2. script'[w] = calls \o Tail(script[w])
  BY DEF Proceed, Continue, TypeOK
<1>3. At(w, "serve") => Tail(script[w]) = <<>>
  <2> SUFFICES ASSUME At(w, "serve")
               PROVE  Tail(script[w]) = <<>>
    OBVIOUS
  <2> DEFINE s == script[w]
  <2>1. /\ Len(s) \in Nat /\ Len(s) > 0 /\ s[1].do = "serve"
        /\ InCourse(s, req[w])
    BY <1>1, ScriptAt DEF At, SoloAt
  <2>2. Opens(s, req[w])
    BY <2>1 DEF InCourse
  <2>3. s = <<Command("serve", req[w].place, req[w].who)>>
    BY <2>1, <2>2, Fields DEF Opens
  <2> QED
    BY <2>3
<1>4. /\ phase'[w] = phase[w] /\ copy' = copy /\ cache' = cache
      /\ req'[w] = req[w] /\ db' = db
  BY DEF Proceed
<1>5. calls \in Scripts /\ Shaped(calls)
  BY DEF Makes
<1>6. \A i \in 1..Len(calls) :
        /\ calls[i].do \in (Reading \ {"serve"}) \cup Running(req[w].op)
        /\ calls[i].do = "dismiss" =>
             copy[w][Grand] = db[Grand] /\ Tail(script[w]) = <<>>
  BY <1>3 DEF Makes
<1> QED
  BY <1>2, <1>4, <1>5, <1>6, DecideSolo

LEMMA MakesRead ==
  ASSUME NEW k \in Keys, NEW c \in Commands,
         c.do \in {"use", "enlist", "dismiss", "visit", "dissolve", "insert"},
         c.do = "use" \/ Judged(c) = k, c.do = "dismiss" => c.on = Grand
  PROVE  /\ Makes(<<Get(k), c>>, {"get", c.do})
         /\ Head(<<Get(k), c>>).do = "get" /\ <<Get(k), c>> # <<>>
<1> DEFINE s == <<Get(k), c>>
<1>1. /\ s \in Scripts /\ Len(s) = 2 /\ s[1] = Get(k) /\ s[2] = c
      /\ Head(s) = s[1] /\ s # <<>>
  BY PlainCommands, ShortScripts
<1> HIDE DEF s
<1>2. Dirtied(c) = {} /\ Dirtied(Get(k)) = {}
  BY Fields DEF Dirtied
<1>3. ASSUME NEW i \in 1..2
      PROVE  /\ s[i].do \in {"get", c.do} /\ Dirtied(s[i]) = {}
             /\ s[i].do \in Judging /\ i > 1 => s[i - 1] = Get(Judged(s[i]))
             /\ s[i].do = "dismiss" => s[i].on = Grand
  <2>1. CASE i = 1
    BY <1>1, <1>2, <2>1, Fields
  <2>2. CASE i = 2
    BY <1>1, <1>2, <2>2 DEF Judging
  <2> QED
    BY <2>1, <2>2
<1>4. Shaped(s)
  BY <1>1, <1>3, Fields DEF Shaped, ShapedAt
<1> QED
  BY <1>1, <1>3, <1>4, Fields DEF Makes, s

(* The command each handler's step is at.                                  *)
LEMMA HandlesAt ==
  ASSUME NEW w, Handle(w)
  PROVE  script[w] # <<>> /\ Current(w).do \in Deciding
<1>1. \A do \in Deciding :
        At(w, do) => script[w] # <<>> /\ Current(w).do \in Deciding
  BY DEF At, Current
<1>2. \A op : Serving(w, op) => At(w, "serve")
  BY DEF Serving
<1>3. /\ Refuse(w) => At(w, "serve")
      /\ Invite(w) => At(w, "serve")
      /\ AddMember(w) => At(w, "serve")
  BY <1>2 DEF Refuse, Invite, AddMember
<1>4. /\ Enlist(w) => At(w, "enlist")
      /\ Admit(w) => At(w, "admit")
  BY DEF Enlist, Admit
<1>5. PromoteMember(w) \/ DemoteMember(w) => At(w, "serve")
  BY <1>2 DEF PromoteMember, DemoteMember
<1>6. Leave(w) \/ RemoveMember(w) => At(w, "serve")
  BY <1>2 DEF Leave, RemoveMember
<1>7. /\ Dismiss(w) => At(w, "dismiss")
      /\ NextSub(w) => At(w, "tour")
      /\ VisitSub(w) => At(w, "visit")
  BY DEF Dismiss, NextSub, VisitSub
<1>8. RemovePlace(w) \/ AddPlace(w) => At(w, "serve")
  BY <1>2 DEF RemovePlace, AddPlace
<1>9. {"serve", "enlist", "admit", "dismiss", "tour", "visit"} \subseteq Deciding
  BY DEF Deciding
<1> QED
  BY <1>1, <1>3, <1>4, <1>5, <1>6, <1>7, <1>8, <1>9 DEF Handle

LEMMA HandleSolo ==
  ASSUME TypeOK, NEW w \in Workers, SoloAt(w), Handle(w)
  PROVE  SoloAt(w)' \/ Stopped(script'[w])
<1> DEFINE r == req[w]
           c == copy[w][Subject(r)]
           on == Current(w).on
           who == Current(w).who
           free == (Reading \ {"serve"}) \cup Running(r.op)
<1>1. script[w] # <<>> /\ Current(w).do \in Deciding
  BY HandlesAt
<1>2. /\ r \in Requests /\ IsStore(copy[w]) /\ Current(w) \in Commands
  BY <1>1, AtCommand
<1>3. /\ r.op \in Ops /\ r.who \in Accounts /\ r.place \in Places
      /\ r.list \in Seq(Accounts)
      /\ r.op \in AboutOne => Head(r.list) \in Accounts
      /\ Subject(r) \in Places
  BY <1>2, RequestFields
<1>4. r.op # "add_place" => Subject(r) = r.place
  BY DEF Subject
<1>5. c # Nil => c.nKeys \in Int
  BY <1>2, <1>3, StoreFields DEF PlaceDocs
<1>6. Grand \in Places /\ Grand \in Keys /\ r.place \in Keys
  BY <1>3, KeyKinds
<1>7. At(w, "serve") => c = db[Subject(r)]
  BY DEF SoloAt
<1>8. /\ {"get", "use", "del"} \subseteq free
      /\ Running(r.op) = AddingSteps =>
           {"enlist", "admit", "get", "join", "grant", "del"} \subseteq free
      /\ Running(r.op) = LeavingSteps =>
           {"dismiss", "tour", "visit", "get", "lower", "expel", "revoke",
            "del"} \subseteq free
  BY DEF Reading, AddingSteps, LeavingSteps
<1>9. /\ r.op \in {"add_member", "invite_member"} =>
           Running(r.op) = AddingSteps
      /\ r.op \in {"leave", "remove_member"} =>
           Running(r.op) = LeavingSteps
      /\ r.op = "promote_member" => "raise" \in free
      /\ r.op = "demote_member" => "lower" \in free
      /\ r.op = "remove" => "dissolve" \in free
      /\ r.op = "add_place" => "insert" \in free
  BY DEF Running
<1>10. ASSUME NEW do, do \in Judging \cup {"count", "uncount"}
       PROVE  do \notin {"get", "admit", "tour", "raise", "lower"}
  BY <1>10 DEF Judging
<1>11. ASSUME NEW calls, NEW dos, Makes(calls, dos), dos \subseteq free,
              "dismiss" \notin dos, Proceed(w, calls),
              calls # <<>> =>
                Head(calls).do \in {"get", "admit", "tour", "raise", "lower"}
       PROVE  SoloAt(w)'
  <2>1. calls # <<>> => Head(calls).do \notin Judging
    BY <1>10, <1>11
  <2> QED
    BY <1>1, <1>11, <2>1, ProceedSolo
<1>12. \A S \in SUBSET Subs, a \in Accounts :
         /\ Makes(Tour(S, a), LeavingSteps \cup {"get", "del"})
         /\ Tour(S, a) # <<>> => Head(Tour(S, a)).do = "tour"
  <2>1. {"tour"} \subseteq LeavingSteps \cup {"get", "del"}
    BY DEF LeavingSteps
  <2> QED
    BY <2>1, MakesLoops, MakesMore, Fields
<1> DEFINE leaving == {"get", "tour", "lower", "expel", "revoke", "del"}
<1>13. ASSUME NEW S \in SUBSET Subs, NEW a \in Accounts, NEW p \in Places,
              NEW d, Running(r.op) = LeavingSteps,
              Proceed(w, Tour(S, a) \o RemoveByRole(p, a, d))
       PROVE  SoloAt(w)'
  <2> DEFINE tour == Tour(S, a)
             left == RemoveByRole(p, a, d)
  <2>1. Makes(tour, leaving) /\ Makes(left, leaving)
    BY MakesLoops, MakesRole, MakesMore
  <2>2. /\ left # <<>> => Head(left).do \in {"get", "lower"}
        /\ tour # <<>> => Head(tour).do = "tour"
    BY MakesRole, <1>12
  <2> HIDE DEF tour, left
  <2>3. Makes(tour \o left, leaving)
    BY <2>1, <2>2, <1>10, MakesCat
  <2>4. tour \o left # <<>> =>
          Head(tour \o left).do \in {"get", "lower", "tour"}
    BY <2>1, <2>2, HeadCat DEF Makes
  <2>5. leaving \subseteq free /\ "dismiss" \notin leaving
    BY <1>8, <1>13
  <2> DEFINE u == tour \o left
  <2>6. Proceed(w, u)
    BY <1>13 DEF tour, left
  <2> HIDE DEF leaving, free, u
  <2>7. Makes(u, leaving) /\ (u # <<>> => Head(u).do \in {"get", "lower", "tour"})
    BY <2>3, <2>4 DEF u
  <2> QED
    BY <1>11, <2>5, <2>6, <2>7
<1> HIDE DEF r, c, on, who, free, leaving
<1>a. CASE Refuse(w)
  <2>1. PICK calls \in {<<>>, <<Get(Grand), Use(Grand)>>} : Proceed(w, calls)
    BY <1>a DEF Refuse
  <2>2. /\ Makes(<<Get(Grand), Use(Grand)>>, {"get", "use"})
        /\ Head(<<Get(Grand), Use(Grand)>>).do = "get"
    BY <1>6, PlainCommands, Fields, MakesRead
  <2>3. /\ Makes(calls, {"get", "use"})
        /\ calls # <<>> => Head(calls).do = "get"
    BY <2>1, <2>2, MakesNothing
  <2> QED
    BY <1>8, <1>11, <2>1, <2>3
<1>b. CASE Invite(w)
  <2>1. c # Nil /\ r.op = "invite_member"
    BY <1>b DEF Invite, Serving, r, c
  <2> DEFINE l == Joining(r, copy[w][r.place])
  <2>2. l \in Loops
    BY <2>1, <1>3, <1>4, <1>5, PlacesAssumption DEF Joining, Loops, c
  <2>3. Proceed(w, AddMembers(l, r.who))
    BY <1>b DEF Invite, r
  <2> HIDE DEF l
  <2>4. /\ Makes(AddMembers(l, r.who), {"admit"})
        /\ AddMembers(l, r.who) # <<>> =>
             Head(AddMembers(l, r.who)).do = "admit"
    BY <2>2, <1>3, MakesLoops
  <2> QED
    BY <1>8, <1>9, <1>11, <2>1, <2>3, <2>4
<1>c. CASE AddMember(w)
  <2>1. c # Nil /\ r.op = "add_member"
    BY <1>c DEF AddMember, Serving, r, c
  <2> DEFINE l == Joining(r, copy[w][r.place])
             e == Command("enlist", l, r.who)
  <2>2. l \in Loops
    BY <2>1, <1>3, <1>4, <1>5, PlacesAssumption DEF Joining, Loops, c
  <2>3. Proceed(w, <<Get(Grand), e>>)
    BY <1>c DEF AddMember, r
  <2> HIDE DEF l
  <2>4. e \in Commands /\ e.do = "enlist" /\ Judged(e) = Grand
    BY <2>2, <1>3, LoopCommands, Fields DEF Judged
  <2> HIDE DEF e
  <2>5. /\ Makes(<<Get(Grand), e>>, {"get", "enlist"})
        /\ Head(<<Get(Grand), e>>).do = "get"
    BY <2>4, <1>6, MakesRead
  <2>6. {"get", "enlist"} \subseteq free
    BY <2>1, <1>8, <1>9
  <2> QED
    BY <1>11, <2>3, <2>5, <2>6
<1>d. CASE Enlist(w)
  <2>1. on \in Loops /\ who \in Accounts /\ Current(w).do = "enlist"
    BY <1>d, <1>2, CommandFields DEF Enlist, At, Current, on, who
  <2>2. CASE copy[w][Grand] = Nil
    <3>1. Panic(w, <<>>)
      BY <1>d, <2>2 DEF Enlist
    <3> QED
      BY <3>1, PanicStays DEF Deferred
  <2>3. CASE copy[w][Grand] # Nil
    <3> DEFINE l == [on EXCEPT !.eligible = @ \cap Members(copy[w][Grand])]
    <3>1. l \in Loops
      BY <2>1 DEF Loops
    <3>2. Proceed(w, AddMembers(l, who))
      BY <1>d, <2>3 DEF Enlist, on, who
    <3> HIDE DEF l
    <3>3. /\ Makes(AddMembers(l, who), {"admit"})
          /\ AddMembers(l, who) # <<>> => Head(AddMembers(l, who)).do = "admit"
      BY <3>1, <2>1, MakesLoops
    <3>4. {"admit"} \subseteq free
      BY <1>1, <1>8, <2>1, RunningFor DEF r
    <3> QED
      BY <1>11, <3>2, <3>3, <3>4
  <2> QED
    BY <2>2, <2>3
<1>e. CASE Admit(w)
  <2> DEFINE a == Head(on.list)
             joins == a \in on.eligible /\ on.room > 0
             taken == IF joins /\ ~r.admin THEN 1 ELSE 0
             l == [on EXCEPT !.list = Tail(@), !.room = @ - taken]
             joining == IF joins THEN AddKeyHolder(on.place, a) \o <<Del(a)>>
                                 ELSE <<>>
             dos == {"get", "join", "grant", "del", "admit"}
  <2>1. /\ on \in Loops /\ on.list # <<>> /\ who \in Accounts
        /\ Current(w).do = "admit"
    BY <1>e, <1>2, CommandFields DEF Admit, At, Current, on, who
  <2>2. /\ on.place \in Places /\ on.list \in Seq(Accounts)
        /\ on.room \in Int
    BY <2>1 DEF Loops
  <2>3. a \in Accounts /\ Tail(on.list) \in Seq(Accounts)
    BY <2>1, <2>2, HeadTailProperties
  <2>4. on.room - taken \in Int
    BY <2>2
  <2>5. Proceed(w, joining \o AddMembers(l, who))
    BY <1>e DEF Admit, on, who, r
  <2> HIDE DEF taken
  <2>6. l \in Loops
    BY <2>1, <2>3, <2>4 DEF Loops
  <2> HIDE DEF l, a
  <2>7. Makes(AddKeyHolder(on.place, a) \o <<Del(a)>>, dos)
    <3> DEFINE add == AddKeyHolder(on.place, a)
               last == <<Del(a)>>
    <3>1. Makes(last, {"del"}) /\ Head(last).do = "del"
      BY <2>3, MakesOne, PlainCommands, KeyKinds, Fields
    <3>2. Makes(add, dos) /\ Makes(last, dos)
      BY <2>2, <2>3, <3>1, MakesAddKeyHolder, MakesMore
    <3>3. "del" \notin Judging \cup {"count", "uncount"}
      BY DEF Judging
    <3> HIDE DEF add, last, dos
    <3>4. Makes(add \o last, dos)
      BY <3>1, <3>2, <3>3, MakesCat DEF dos
    <3> QED
      BY <3>4 DEF add, last
  <2>8. Head(AddKeyHolder(on.place, a) \o <<Del(a)>>).do = "get"
    <3> DEFINE add == AddKeyHolder(on.place, a)
               last == <<Del(a)>>
    <3>1. add # <<>> /\ Head(add).do = "get"
      BY <2>2, <2>3, MakesAddKeyHolder, Fields DEF AddKeyHolder
    <3>2. add \in Scripts /\ last \in Scripts
      BY <2>2, <2>3, MemberScripts, PlainCommands, KeyKinds, ShortScripts
    <3> HIDE DEF add, last
    <3>3. Head(add \o last).do = "get"
      BY <3>1, <3>2, HeadCat
    <3> QED
      BY <3>3 DEF add, last
  <2>9. /\ Makes(joining, dos)
        /\ joining # <<>> => Head(joining).do = "get"
    BY <2>7, <2>8, MakesNothing
  <2> DEFINE more == AddMembers(l, who)
  <2>10. /\ Makes(more, dos)
         /\ more # <<>> => Head(more).do = "admit"
    BY <2>1, <2>6, MakesLoops, MakesMore
  <2> HIDE DEF joining, more, dos
  <2>11. Makes(joining \o more, dos)
    BY <2>9, <2>10, <1>10, MakesCat DEF dos
  <2>12. joining \o more # <<>> =>
           Head(joining \o more).do \in {"get", "admit"}
    BY <2>9, <2>10, HeadCat DEF Makes
  <2>13. dos \subseteq free /\ "dismiss" \notin dos
    BY <1>1, <1>8, <2>1, RunningFor DEF r, dos
  <2> DEFINE u == joining \o more
  <2>14. Proceed(w, u)
    BY <2>5 DEF more
  <2> HIDE DEF u
  <2>15. Makes(u, dos) /\ (u # <<>> => Head(u).do \in {"get", "admit"})
    BY <2>11, <2>12 DEF u
  <2> QED
    BY <1>11, <2>13, <2>14, <2>15
<1>f. CASE PromoteMember(w) \/ DemoteMember(w)
  <2>1. PICK s \in Scripts, do \in {"raise", "lower"} :
          /\ Makes(s, {do, "del"}) /\ Head(s).do = do
          /\ Proceed(w, s) /\ do \in free
    <3>1. CASE PromoteMember(w)
      <4>1. /\ r.op = "promote_member" /\ r.op \in AboutOne
            /\ Proceed(w, Promote(r.place, Head(r.list)))
        BY <3>1 DEF PromoteMember, Serving, AboutOne, r
      <4> QED
        BY <4>1, <1>3, <1>9, MakesPromote DEF Makes
    <3>2. CASE DemoteMember(w)
      <4>1. /\ r.op = "demote_member" /\ r.op \in AboutOne
            /\ Proceed(w, Demote(r.place, Head(r.list)))
        BY <3>2 DEF DemoteMember, Serving, AboutOne, r
      <4> QED
        BY <4>1, <1>3, <1>9, MakesPromote DEF Makes
    <3> QED
      BY <1>f, <3>1, <3>2
  <2>2. {do, "del"} \subseteq free
    BY <2>1, <1>8
  <2> QED
    BY <1>11, <2>1, <2>2
<1>h. CASE Leave(w)
  <2> DEFINE subs == IF r.place = Grand
                       THEN AccessPlaceIDs(copy[w][r.who]) \cap Subs
                       ELSE {}
  <2>1. subs \in SUBSET Subs
    OBVIOUS
  <2>2. /\ r.op = "leave"
        /\ Proceed(w, Tour(subs, r.who)
                        \o RemoveByRole(r.place, r.who, copy[w][r.place]))
    BY <1>h DEF Leave, Serving, r
  <2> HIDE DEF subs
  <2> QED
    BY <2>1, <2>2, <1>3, <1>9, <1>13
<1>i. CASE RemoveMember(w)
  <2> DEFINE a == Head(r.list)
  <2>1. /\ r.op = "remove_member" /\ At(w, "serve")
        /\ Running(r.op) = LeavingSteps
    BY <1>i, <1>9 DEF RemoveMember, Serving, r
  <2>2. a \in Accounts
    BY <2>1, <1>3 DEF AboutOne
  <2> HIDE DEF a
  <2>3. CASE r.place = Grand
    <3> DEFINE d == Command("dismiss", Grand, a)
    <3>1. /\ Makes(<<Get(a), d>>, {"get", "dismiss"})
          /\ Head(<<Get(a), d>>).do = "get"
      BY <2>2, <1>6, PlainCommands, KeyKinds, Fields, MakesRead DEF Judged
    <3>2. Proceed(w, <<Get(a), d>>)
      BY <1>i, <2>3 DEF RemoveMember, a, r
    <3>3. copy[w][Grand] = db[Grand]
      BY <1>4, <1>7, <2>1, <2>3 DEF c
    <3>4. {"get", "dismiss"} \subseteq free
      BY <1>8, <2>1
    <3> HIDE DEF d
    <3>5. Head(<<Get(a), d>>).do \notin Judging
      BY <1>10, <3>1
    <3> QED
      BY <1>1, <2>1, <3>1, <3>2, <3>3, <3>4, <3>5, ProceedSolo DEF free, r
  <2>4. CASE r.place # Grand
    <3>1. Proceed(w, RemoveByRole(r.place, a, copy[w][r.place]))
      BY <1>i, <2>4 DEF RemoveMember, a, r
    <3>2. {"get", "lower", "expel", "revoke", "del"} \subseteq free
      BY <1>8, <2>1
    <3>3. /\ Makes(RemoveByRole(r.place, a, copy[w][r.place]),
                   {"get", "lower", "expel", "revoke", "del"})
          /\ RemoveByRole(r.place, a, copy[w][r.place]) # <<>> =>
               Head(RemoveByRole(r.place, a, copy[w][r.place])).do
                 \in {"get", "lower"}
      BY <1>3, <2>2, MakesRole
    <3> QED
      BY <1>11, <3>1, <3>2, <3>3
  <2> QED
    BY <2>3, <2>4
<1>j. CASE Dismiss(w)
  <2>1. who \in Accounts /\ Current(w).do = "dismiss"
    BY <1>j, <1>2, CommandFields DEF Dismiss, At, Current, who
  <2>2. AccessPlaceIDs(copy[w][who]) \cap Subs \in SUBSET Subs
    OBVIOUS
  <2>3. Proceed(w, Tour(AccessPlaceIDs(copy[w][who]) \cap Subs, who)
                     \o RemoveByRole(Grand, who, copy[w][Grand]))
    BY <1>j DEF Dismiss, who
  <2>4. Running(r.op) = LeavingSteps
    BY <1>1, <2>1, RunningFor DEF r
  <2> QED
    BY <2>1, <2>2, <2>3, <2>4, <1>6, <1>13
<1>k. CASE NextSub(w)
  <2>1. on \in SUBSET Subs /\ who \in Accounts /\ Current(w).do = "tour"
    BY <1>k, <1>2, CommandFields DEF NextSub, At, Current, on, who
  <2>2. PICK p \in on :
          Proceed(w, <<Get(p), Command("visit", p, who)>>
                       \o Tour(on \ {p}, who))
    BY <1>k DEF NextSub, on, who
  <2> DEFINE v == Command("visit", p, who)
             s == <<Get(p), v>>
             t == Tour(on \ {p}, who)
             dos == {"get", "visit", "tour"}
  <2>3. p \in Places /\ p \in Keys
    BY <2>1, <2>2, KeyKinds DEF Places
  <2>4. Makes(s, {"get", "visit"}) /\ Head(s).do = "get" /\ s # <<>>
    BY <2>1, <2>3, PlainCommands, Fields, MakesRead DEF Judged
  <2>5. on \ {p} \in SUBSET Subs
    BY <2>1
  <2>6. /\ Makes(t, {"tour"})
        /\ t # <<>> => Head(t).do = "tour"
    BY <2>1, <2>5, MakesLoops, Fields
  <2> HIDE DEF s, t
  <2>7. Makes(s, dos) /\ Makes(t, dos)
    BY <2>4, <2>6, MakesMore
  <2>8. Makes(s \o t, dos)
    BY <2>6, <2>7, <1>10, MakesCat
  <2>9. Head(s \o t).do = "get"
    BY <2>4, <2>7, HeadCat DEF Makes
  <2>10. dos \subseteq free /\ "dismiss" \notin dos
    BY <1>1, <1>8, <2>1, RunningFor DEF r
  <2> DEFINE u == s \o t
  <2>11. Proceed(w, u)
    BY <2>2 DEF s, t
  <2> HIDE DEF u, dos
  <2>12. Makes(u, dos) /\ Head(u).do = "get"
    BY <2>8, <2>9 DEF u
  <2> QED
    BY <1>11, <2>10, <2>11, <2>12
<1>l. CASE VisitSub(w)
  <2>1. on \in Places /\ who \in Accounts /\ Current(w).do = "visit"
    BY <1>l, <1>2, CommandFields DEF VisitSub, At, Current, on, who
  <2>2. PICK calls \in {<<>>, RemoveKeyHolder(on, who),
                        RemoveByRole(on, who, copy[w][on])} : Proceed(w, calls)
    BY <1>l DEF VisitSub, on, who
  <2> DEFINE dos == {"get", "lower", "expel", "revoke", "del"}
  <2>3. /\ Makes(calls, dos)
        /\ calls # <<>> => Head(calls).do \in {"get", "lower"}
    BY <2>1, <2>2, MakesRemoveKeyHolder, MakesMore, MakesRole, MakesNothing,
       Fields
  <2>4. dos \subseteq free
    BY <1>1, <1>8, <2>1, RunningFor DEF r
  <2> QED
    BY <1>11, <2>2, <2>3, <2>4
<1>m. CASE RemovePlace(w) \/ AddPlace(w)
  <2>1. PICK k \in Keys, d \in Commands :
          /\ Proceed(w, <<Get(k), d>>)
          /\ Judged(d) = k /\ d.do \in {"dissolve", "insert"} \cap free
    <3>1. CASE RemovePlace(w)
      <4>1. /\ r.op = "remove"
            /\ Proceed(w, <<Get(r.place), Command("dissolve", r.place, NoOne)>>)
        BY <3>1 DEF RemovePlace, Serving, r
      <4> DEFINE d == Command("dissolve", r.place, NoOne)
      <4>2. d \in Commands /\ d.do = "dissolve" /\ Judged(d) = r.place
        BY <1>3, PlainCommands, Fields DEF Judged
      <4> HIDE DEF d
      <4> QED
        BY <4>1, <4>2, <1>6, <1>9 DEF d
    <3>2. CASE AddPlace(w)
      <4>1. /\ r.op = "add_place"
            /\ Proceed(w, <<Get(Grand), Command("insert", r.place, r.who)>>)
        BY <3>2 DEF AddPlace, Serving, r
      <4> DEFINE d == Command("insert", r.place, r.who)
      <4>2. d \in Commands /\ d.do = "insert" /\ Judged(d) = Grand
        BY <1>3, PlainCommands, Fields DEF Judged
      <4> HIDE DEF d
      <4> QED
        BY <4>1, <4>2, <1>6, <1>9 DEF d
    <3> QED
      BY <1>m, <3>1, <3>2
  <2>2. /\ Makes(<<Get(k), d>>, {"get", d.do})
        /\ Head(<<Get(k), d>>).do = "get"
    BY <2>1, MakesRead
  <2>3. {"get", d.do} \subseteq free /\ "dismiss" \notin {"get", d.do}
    BY <2>1, <1>8
  <2> QED
    BY <1>11, <2>1, <2>2, <2>3
<1> QED
  BY <1>a, <1>b, <1>c, <1>d, <1>e, <1>f, <1>h, <1>i, <1>j, <1>k, <1>l, <1>m
     DEF Handle

LEMMA DissolveSolo ==
  ASSUME TypeOK, NEW w \in Workers, SoloAt(w), Dissolve(w)
  PROVE  SoloAt(w)' \/ Stopped(script'[w])
<1> DEFINE p == Current(w).on
           c == copy[w][p]
           parent == IF p = Grand THEN <<>>
                     ELSE <<Command("uncount", Grand, NoOne)>>
           evict == Command("evict", p, NoOne)
           delete == Command("delete", p, NoOne)
           dos == {"uncount", "get", "evict", "delete", "del"}
<1>1. script[w] # <<>> /\ Current(w).do = "dissolve"
  BY DEF Dissolve, At, Current
<1>2. p \in Places /\ p \in Keys /\ Grand \in Places /\ Grand \in Keys
  BY <1>1, AtCommand, CommandFields, KeyKinds
<1>3. Current(w).do \in Deciding
  BY <1>1 DEF Deciding
<1>4. req[w].op = "remove"
  BY <1>1, RunningFor
<1>5. /\ dos \subseteq (Reading \ {"serve"}) \cup Running(req[w].op)
      /\ "dismiss" \notin dos
  BY <1>4 DEF Running, Reading
<1>10. c = Nil \/ c.nChildren \in Int
  BY <1>2 DEF TypeOK, IsStore, PlaceDocs
<1>6. CASE c = Nil
  <2>1. Panic(w, <<Del(p)>>) /\ Deferred(<<Del(p)>>)
    BY <1>2, <1>6 DEF Dissolve, Deferred
  <2> QED
    BY <2>1, PanicStays
<1>7. CASE c # Nil /\ c.nChildren > 0
  <2>1. Proceed(w, <<Del(p)>>)
    <3>1. ~(c.nChildren <= 0)
      BY <1>7, <1>10
    <3> QED
      BY <3>1, <1>7 DEF Dissolve
  <2>2. Makes(<<Del(p)>>, {"del"}) /\ Head(<<Del(p)>>).do = "del"
    BY <1>2, PlainCommands, MakesOne, Fields
  <2>3. "del" \notin Judging /\ {"del"} \subseteq dos
    BY DEF Judging
  <2> HIDE DEF dos
  <2> QED
    BY <1>1, <1>3, <1>5, <2>1, <2>2, <2>3, ProceedSolo
<1>8. CASE c # Nil /\ c.nChildren <= 0
  <2> DEFINE s == <<Get(p), evict, delete>> \o RemoveDefers(p)
  <2>1. evict \in Commands /\ delete \in Commands
    BY <1>2, PlainCommands
  <2>2. s \in Scripts
    BY <1>2, <2>1, PlainCommands, ShortScripts, ScriptsConcat
       DEF RemoveDefers
  <2>3. /\ Len(s) \in {4, 5} /\ s[1] = Get(p) /\ s[2] = evict
        /\ s[3] = delete /\ Head(s) = s[1] /\ s # <<>>
        /\ p = Grand => Len(s) = 4 /\ s[4] = Del(p)
        /\ p # Grand => Len(s) = 5 /\ s[4] = Del(Grand) /\ s[5] = Del(p)
    BY DEF RemoveDefers
  <2> HIDE DEF s
  <2>4. \A i \in 1..5 : i = 1 \/ i = 2 \/ i = 3 \/ i = 4 \/ i = 5
    OBVIOUS
  <2>5. ASSUME NEW i \in 1..Len(s)
        PROVE  s[i].do \in {"get", "evict", "delete", "del"}
    <3>1. CASE p = Grand
      <4>2. Len(s) = 4
        BY <3>1, <2>3
      <4>1. i = 1 \/ i = 2 \/ i = 3 \/ i = 4
        BY <4>2
      <4> QED
        BY <4>1, <3>1, <2>3, Fields
    <3>2. CASE p # Grand
      <4>2. Len(s) = 5
        BY <3>2, <2>3
      <4>1. i = 1 \/ i = 2 \/ i = 3 \/ i = 4 \/ i = 5
        BY <4>2
      <4> QED
        BY <4>1, <3>2, <2>3, Fields
    <3> QED
      BY <3>1, <3>2
  <2>6. Drops(s, p, 4)
    <3>1. CASE p = Grand
      <4>2. Len(s) = 4 /\ s[4] = Del(p)
        BY <3>1, <2>3
      <4>1. 4 \in 4..Len(s) /\ 4..4 = {4} /\ s[4] = Del(p)
        BY <4>2
      <4> QED
        BY <4>1, Fields DEF Drops, Deciding
    <3>2. CASE p # Grand
      <4>4. Len(s) = 5 /\ s[4] = Del(Grand) /\ s[5] = Del(p)
        BY <3>2, <2>3
      <4>1. 5 \in 4..Len(s) /\ s[4] = Del(Grand) /\ s[5] = Del(p)
        BY <4>4
      <4>2. \A m \in 4..5 : m = 4 \/ m = 5
        OBVIOUS
      <4>3. \A m \in 4..5 : s[m] # Get(p) /\ s[m].do \notin Deciding
        BY <4>1, <4>2, Fields DEF Deciding
      <4> QED
        BY <4>1, <4>3 DEF Drops
    <3> QED
      BY <3>1, <3>2
  <2>7. ASSUME NEW i \in 1..Len(s)
        PROVE  ShapedAt(s, i)
    <3>1. CASE i = 1
      BY <3>1, <2>3, Fields DEF ShapedAt, Dirtied, Judging
    <3>2. CASE i = 2
      BY <3>2, <2>3, Fields DEF ShapedAt, Dirtied, Judging, Judged
    <3>3. CASE i = 3
      BY <3>3, <2>3, <2>6, Fields DEF ShapedAt, Dirtied, Judging
    <3>4. CASE i = 4 \/ i = 5
      <4>1. s[i].do = "del"
        BY <3>4, <2>3, Fields
      <4> QED
        BY <4>1 DEF ShapedAt, Dirtied, Judging
    <3>5. i = 1 \/ i = 2 \/ i = 3 \/ i = 4 \/ i = 5
      <4>3. Len(s) = 4 \/ Len(s) = 5
        BY <2>3
      <4>1. i \in 1..5
        <5>1. CASE Len(s) = 4
          BY <5>1
        <5>2. CASE Len(s) = 5
          BY <5>2
        <5> QED
          BY <4>3, <5>1, <5>2
      <4> QED
        BY <4>1, <2>4
    <3> QED
      BY <3>1, <3>2, <3>3, <3>4, <3>5
  <2>8. Makes(s, dos)
    BY <2>2, <2>5, <2>7 DEF Makes, Shaped
  <2>9. ASSUME p # Grand
        PROVE  Makes(parent \o s, dos) /\ Head(parent \o s).do = "uncount"
    <3> DEFINE uncount == Command("uncount", Grand, NoOne)
               one == <<uncount>>
               t == one \o s
    <3>1. one \in Scripts /\ Len(one) = 1 /\ one[1] = uncount
      BY <1>2, PlainCommands, ShortScripts
    <3> HIDE DEF one
    <3>2. /\ t \in Scripts /\ Len(t) = 1 + Len(s) /\ t[1] = uncount
          /\ \A i \in 1..Len(s) : t[1 + i] = s[i]
      <4>1. /\ t \in Scripts /\ Len(t) = Len(one) + Len(s)
            /\ \A i \in 1..Len(one) : t[i] = one[i]
            /\ \A i \in 1..Len(s) : t[Len(one) + i] = s[i]
        BY <3>1, <2>2, CatAt
      <4> QED
        BY <4>1, <3>1
    <3>3. Len(s) = 5 /\ s[4] = Del(Grand)
      BY <2>3, <2>9
    <3>4. /\ t[2] = Get(p) /\ t[3] = evict /\ t[4] = delete
          /\ t[5] = Del(Grand) /\ Len(t) = 6
      <4>1. t[1 + 1] = s[1] /\ t[1 + 2] = s[2] /\ t[1 + 3] = s[3]
            /\ t[1 + 4] = s[4]
        BY <3>2, <3>3
      <4> QED
        BY <4>1, <3>2, <3>3, <2>3
    <3> HIDE DEF t
    <3>5. Drops(t, Grand, 2)
      BY <3>4, <2>9, Fields DEF Drops, Deciding
    <3>6. \A k, i : i \in Nat /\ i >= 1 /\ Drops(s, k, i) =>
            Drops(t, k, 1 + i)
      BY <2>2, <3>1, DropsCat DEF t
    <3>7. ASSUME NEW i \in 1..Len(s)
          PROVE  ShapedAt(t, 1 + i)
      <4>1. t[1 + i] = s[i] /\ ShapedAt(s, i)
        BY <3>2, <2>7
      <4>2. s[i].do \in {"get", "evict", "delete", "del"}
        BY <2>5
      <4>3. \A k \in Dirtied(t[1 + i]) : Drops(t, k, (1 + i) + 1)
        <5>1. \A k \in Dirtied(s[i]) : Drops(t, k, 1 + (i + 1))
          BY <4>1, <3>6 DEF ShapedAt
        <5>2. 1 + (i + 1) = (1 + i) + 1
          OBVIOUS
        <5> QED
          BY <5>1, <5>2, <4>1
      <4>4. s[i].do \in Judging => i = 2
        BY <2>3, <2>4, <4>2, Fields DEF Judging
      <4>5. s[i].do \in Judging => t[(1 + i) - 1] = Get(Judged(s[i]))
        <5>1. i = 2 => (1 + i) - 1 = 2 /\ Judged(s[i]) = p
          BY <2>3, Fields DEF Judged
        <5> QED
          BY <4>4, <5>1, <3>4
      <4> QED
        BY <4>1, <4>2, <4>3, <4>5 DEF ShapedAt
    <3>8. ShapedAt(t, 1)
      BY <3>2, <3>5, Fields DEF ShapedAt, Dirtied, Judging
    <3>9. ASSUME NEW i \in 1..Len(t)
          PROVE  ShapedAt(t, i) /\ t[i].do \in dos
      <4>1. CASE i = 1
        BY <4>1, <3>2, <3>8, Fields
      <4>2. CASE i # 1
        <5>1. i - 1 \in 1..Len(s) /\ 1 + (i - 1) = i
          BY <4>2, <3>2, <3>3
        <5>2. ShapedAt(t, 1 + (i - 1)) /\ t[1 + (i - 1)].do \in dos
          BY <5>1, <3>2, <3>7, <2>5
        <5> QED
          BY <5>1, <5>2
      <4> QED
        BY <4>1, <4>2
    <3>10. Makes(t, dos)
      BY <3>2, <3>9 DEF Makes, Shaped
    <3>11. t # <<>> /\ Head(t) = t[1]
      BY <3>2, <3>4, ScriptAt
    <3> QED
      BY <3>2, <3>10, <3>11, <2>9, Fields DEF t, one
  <2>10. ASSUME p = Grand
         PROVE  parent \o s = s
    BY <2>10, <2>2, ConcatEmptySeq DEF Scripts
  <2>11. /\ Makes(parent \o s, dos)
         /\ Head(parent \o s).do \in {"uncount", "get"}
    <3>1. CASE p = Grand
      <4>1. parent \o s = s /\ Head(s).do = "get"
        BY <3>1, <2>3, <2>10, Fields
      <4> QED
        BY <4>1, <2>8
    <3>2. CASE p # Grand
      BY <3>2, <2>9
    <3> QED
      BY <3>1, <3>2
  <2>12. Proceed(w, parent \o s)
    <3>1. Proceed(w, parent \o <<Get(p), evict, delete>> \o RemoveDefers(p))
      <4>1. ~(c.nChildren > 0)
        BY <1>8, <1>10
      <4> QED
        BY <4>1, <1>8 DEF Dissolve
    <3>2. /\ parent \in Scripts /\ <<Get(p), evict, delete>> \in Scripts
          /\ RemoveDefers(p) \in Scripts
      BY <1>2, <2>1, PlainCommands, ShortScripts DEF RemoveDefers
    <3> DEFINE a == parent
               b == <<Get(p), evict, delete>>
               d == RemoveDefers(p)
    <3>3. a \in Seq(Commands) /\ b \in Seq(Commands) /\ d \in Seq(Commands)
      BY <3>2 DEF Scripts
    <3>4. Proceed(w, (a \o b) \o d) /\ parent \o s = a \o (b \o d)
      BY <3>1 DEF s
    <3> HIDE DEF a, b, d
    <3>5. (a \o b) \o d = a \o (b \o d)
      BY <3>3, ConcatAssociative
    <3> QED
      BY <3>4, <3>5
  <2> DEFINE u == parent \o s
  <2> HIDE DEF u, dos
  <2>13. Makes(u, dos) /\ Head(u).do \in {"uncount", "get"} /\ Proceed(w, u)
    BY <2>11, <2>12 DEF u
  <2>14. Head(u).do \notin Judging
    BY <2>13 DEF Judging
  <2> QED
    BY <1>1, <1>3, <1>5, <2>13, <2>14, ProceedSolo
<1>9. c = Nil \/ c.nChildren > 0 \/ c.nChildren <= 0
  BY DEF Dissolve
<1> QED
  BY <1>6, <1>7, <1>8, <1>9

LEMMA InsertSolo ==
  ASSUME TypeOK, NEW w \in Workers, SoloAt(w), Insert(w)
  PROVE  SoloAt(w)' \/ Stopped(script'[w])
<1> DEFINE p == Current(w).on
           a == Current(w).who
           run == Running(req[w].op)
<1>1. script[w] # <<>> /\ Current(w).do = "insert"
  BY DEF Insert, At, Current
<1>2. /\ p \in Places /\ p \in Keys /\ Grand \in Places /\ Grand \in Keys
      /\ a \in Accounts /\ a \in Keys
  BY <1>1, AtCommand, CommandFields, KeyKinds
<1>3. Current(w).do \in Deciding
  BY <1>1 DEF Deciding
<1>4. run = {"insert", "count", "join", "grant", "raise"}
  BY <1>1, RunningFor
<1>5. script[w] \in Scripts /\ DOMAIN script = Workers /\ DOMAIN db = Keys
  BY DEF TypeOK, IsStore, Scripts
<1>6. UNCHANGED <<cache, phase, copy, req>>
  BY DEF Insert
<1>7. copy[w][Grand] = db[Grand]
  <2>1. Current(w).do \in Judging /\ Judged(Current(w)) = Grand
    BY <1>1 DEF Judging, Judged
  <2> QED
    BY <1>1, <1>2, <2>1 DEF SoloAt, Current, Agrees
<1>8. Deferred(<<Del(Grand)>>) /\ Deferred(<<>>)
  BY <1>2 DEF Deferred
<1>a. CASE copy[w][Grand] = Nil
  <2>1. \E deferred \in {<<>>, <<Del(Grand)>>} : Panic(w, deferred)
    BY <1>a DEF Insert
  <2> QED
    BY <2>1, <1>8, PanicStays
<1>b. CASE copy[w][Grand] # Nil /\ db[p] # Nil
  <2> DEFINE s == <<Del(Grand)>>
  <2>1. Continue(w, s) /\ db' = db
    BY <1>b DEF Insert
  <2>2. Makes(s, {"del"}) /\ Head(s).do = "del"
    BY <1>2, PlainCommands, MakesOne, Fields
  <2>3. script'[w] = s \o Tail(script[w])
    BY <2>1, <1>5 DEF Continue
  <2> HIDE DEF s
  <2>4. s \in Scripts /\ Shaped(s) /\ \A i \in 1..Len(s) : s[i].do = "del"
    BY <2>2 DEF Makes
  <2> QED
    BY <1>1, <1>3, <1>6, <2>1, <2>2, <2>3, <2>4, DecideSolo
       DEF Reading, Judging
<1>c. CASE copy[w][Grand] # Nil /\ db[p] = Nil
  <2> DEFINE count == Command("count", Grand, NoOne)
             s1 == <<count, Del(Grand)>>
             s2 == AddKeyHolder(p, a)
             s3 == Promote(p, a)
             s4 == <<Del(a)>>
             s == ((s1 \o s2) \o s3) \o s4
             dos == {"count", "get", "join", "grant", "raise", "del"}
  <2>1. /\ db' = [db EXCEPT ![p] = NewPlace]
        /\ Continue(w, s)
    BY <1>c DEF Insert
  <2>2. p # Grand
    BY <1>7, <1>c
  <2>3. script'[w] = s \o Tail(script[w])
    BY <2>1, <1>5 DEF Continue
  <2>4. Makes(s1, dos) /\ s1 # <<>> /\ Head(s1) = count
    <3>1. s1 \in Scripts /\ Len(s1) = 2 /\ s1[1] = count /\ s1[2] = Del(Grand)
      BY <1>2, PlainCommands, ShortScripts
    <3>2. Head(s1) = count /\ s1 # <<>>
      OBVIOUS
    <3> HIDE DEF s1
    <3>3. Drops(s1, Grand, 2)
      <4>1. 2 \in 2..Len(s1) /\ \A m \in 2..2 : m = 2
        BY <3>1
      <4> QED
        BY <3>1, <4>1, Fields DEF Drops, Deciding
    <3>4. ShapedAt(s1, 1)
      BY <3>1, <3>3, Fields DEF ShapedAt, Dirtied, Judging
    <3>5. ShapedAt(s1, 2)
      BY <3>1, Fields DEF ShapedAt, Dirtied, Judging
    <3>6. \A i \in 1..2 : i = 1 \/ i = 2
      OBVIOUS
    <3> QED
      BY <3>1, <3>2, <3>4, <3>5, <3>6, Fields DEF Makes, Shaped
  <2>5. Makes(s2, dos) /\ s2 # <<>> /\ Head(s2).do = "get"
    BY <1>2, MakesAddKeyHolder, MakesMore, Fields DEF AddKeyHolder
  <2>6. Makes(s3, dos) /\ s3 # <<>> /\ Head(s3).do = "raise"
    BY <1>2, MakesPromote, MakesMore DEF Promote
  <2>7. Makes(s4, dos) /\ s4 # <<>> /\ Head(s4).do = "del"
    <3>1. Del(a) \in Commands /\ Del(a).do = "del"
      BY <1>2, PlainCommands, Fields
    <3>2. Makes(s4, {"del"}) /\ {"del"} \subseteq dos
      BY <3>1, MakesOne
    <3> QED
      BY <3>1, <3>2, MakesMore
  <2>8. "dismiss" \notin dos
    OBVIOUS
  <2> HIDE DEF s1, s2, s3, s4, dos
  <2>9. Makes(s1 \o s2, dos)
    BY <2>4, <2>5, <2>8, MakesCat DEF Judging
  <2>10. Makes((s1 \o s2) \o s3, dos)
    BY <2>6, <2>8, <2>9, MakesCat DEF Judging
  <2>11. Makes(s, dos)
    BY <2>7, <2>8, <2>10, MakesCat DEF Judging
  <2>12. s # <<>> /\ Head(s) = count
    <3>1. /\ s1 \in Scripts /\ s2 \in Scripts /\ s3 \in Scripts
          /\ s4 \in Scripts /\ s1 \o s2 \in Scripts
          /\ (s1 \o s2) \o s3 \in Scripts
      BY <2>4, <2>5, <2>6, <2>7, <2>9, <2>10 DEF Makes
    <3>2. s1 \o s2 # <<>> /\ Head(s1 \o s2) = count
      BY <2>4, <3>1, HeadCat
    <3>3. (s1 \o s2) \o s3 # <<>> /\ Head((s1 \o s2) \o s3) = count
      BY <3>1, <3>2, HeadCat
    <3> QED
      BY <3>1, <3>3, HeadCat
  <2> HIDE DEF s
  <2>13. Head(s).do \notin Judging
    BY <2>12, Fields DEF Judging
  <2>14. dos \subseteq (Reading \ {"serve"}) \cup run
    BY <1>4 DEF dos, Reading
  <2>15. /\ s \in Scripts /\ Shaped(s)
         /\ \A i \in 1..Len(s) :
              /\ s[i].do \in (Reading \ {"serve"}) \cup run
              /\ s[i].do # "dismiss"
    BY <2>8, <2>11, <2>14 DEF Makes
  <2>16. ASSUME NEW k \in Keys, Agrees(db, k, cache[k]), cache[k] # Nil
         PROVE  Agrees(db', k, cache[k])
    <3>1. k # p
      BY <1>2, <1>c, <2>16 DEF Agrees
    <3>2. db'[k] = db[k]
      BY <2>1, <3>1, <1>5
    <3> QED
      BY <2>16, <3>2, AgreesStays
  <2>17. db'[Grand] = db[Grand]
    BY <1>2, <1>5, <2>1, <2>2
  <2> QED
    BY <1>1, <1>3, <1>6, <2>3, <2>13, <2>15, <2>16, <2>17, DecideSolo
<1> QED
  BY <1>a, <1>b, <1>c

LEMMA UseSolo ==
  ASSUME TypeOK, NEW w \in Workers, SoloAt(w), UsePlace(w)
  PROVE  SoloAt(w)' \/ Stopped(script'[w])
<1>1. script[w] # <<>> /\ Current(w).do = "use"
  BY DEF UsePlace, At, Current
<1>2. Tail(script[w]) \in Scripts /\ DOMAIN script = Workers
  BY <1>1, AtCommand DEF TypeOK
<1>3. <<>> \o Tail(script[w]) = Tail(script[w]) /\ <<>> \in Scripts
  BY <1>2, ConcatEmptySeq, ShortScripts DEF Scripts
<1>4. \A k : Current(w) # Del(k)
  BY <1>1, Fields
<1>5. CASE Panic(w, <<>>)
  BY <1>5, PanicStays DEF Deferred
<1>6. CASE Continue(w, <<>>)
  <2>1. script'[w] = Tail(script[w])
    BY <1>2, <1>3, <1>6 DEF Continue
  <2>2. /\ db' = db /\ cache' = cache /\ phase' = phase /\ copy' = copy
        /\ req' = req
    BY DEF UsePlace
  <2>3. Current(w).do # "get"
    BY <1>1
  <2> QED
    BY <1>1, <1>4, <2>1, <2>2, <2>3, WriteSolo
<1> QED
  BY <1>5, <1>6 DEF UsePlace

(* A stopped worker runs its last DELs and no more.                        *)
LEMMA StoppedStep ==
  ASSUME TypeOK, NEW w \in Workers, Stopped(script[w]),
         \/ Receive(w) \/ Answer(w) \/ Read(w) \/ Drop(w) \/ UsePlace(w)
         \/ Handle(w) \/ Write(w)
  PROVE  Stopped(script'[w])
<1>1. script[w] # <<>>
  BY StoppedStays
<1>2. Current(w).do \in {"del", "halt"}
  BY StoppedStays, Fields DEF Current, Halt
<1>3. ~Receive(w) /\ ~Answer(w)
  BY <1>1 DEF Receive, Answer
<1>4. ~Read(w) /\ ~UsePlace(w)
  BY <1>2 DEF Read, Lookup, Find, Fill, UsePlace, At, Current
<1>5. ~Handle(w)
  BY <1>2, HandlesAt DEF Deciding
<1>6. ~Write(w)
  <2>1. ~At(w, "dissolve") /\ ~At(w, "insert") /\ ~At(w, "join")
        /\ ~At(w, "grant") /\ ~At(w, "raise") /\ ~At(w, "lower")
        /\ ~At(w, "expel") /\ ~At(w, "revoke") /\ ~At(w, "uncount")
        /\ ~At(w, "evict") /\ ~At(w, "delete") /\ ~At(w, "count")
    BY <1>2 DEF At, Current
  <2>2. ~Dissolve(w) /\ ~Insert(w)
    BY <2>1 DEF Dissolve, Insert
  <2> QED
    BY <2>1, <2>2, UpdatesAt DEF Write
<1>7. Drop(w)
  BY <1>3, <1>4, <1>5, <1>6
<1>8. script'[w] = <<>> \o Tail(script[w]) /\ Current(w).do = "del"
  BY <1>7 DEF Drop, Continue, TypeOK, At, Current
<1>9. Tail(script[w]) \in Seq(Commands)
  BY <1>1, AtCommand DEF Scripts
<1>10. script'[w] = Tail(script[w])
  BY <1>8, <1>9, ConcatEmptySeq
<1>11. Head(script[w]) # Halt
  BY <1>8, Fields DEF Halt, Current
<1> QED
  BY <1>10, <1>11, StoppedStays

LEMMA StepSolo ==
  ASSUME TypeOK, NEW w \in Workers, SoloAt(w), ~Stopped(script[w]),
         \/ Receive(w) \/ Answer(w) \/ Read(w) \/ Drop(w) \/ UsePlace(w)
         \/ Handle(w) \/ Write(w)
  PROVE  SoloAt(w)' \/ Stopped(script'[w])
<1>1. CASE Write(w)
  BY <1>1, MemberWriteSolo, PlaceWriteSolo, DissolveSolo, InsertSolo
     DEF Write
<1> QED
  BY <1>1, RequestSolo, ReadSolo, DropSolo, UseSolo, HandleSolo

LEMMA InitSolo == Init => Solo
<1> SUFFICES ASSUME Init, NEW w \in Workers
             PROVE  SoloAt(w)
  BY DEF Solo
<1>1. /\ script[w] = <<>> /\ phase[w] = "get"
      /\ \A k \in Keys : cache[k] = Nil
  BY DEF Init, Nothing
<1>2. \A i \in 1..Len(script[w]) : FALSE
  BY <1>1
<1> QED
  BY <1>1, <1>2 DEF SoloAt, Shaped, InCourse, At

LEMMA NextSolo ==
  ASSUME OneWorker, TypeOK, Solo, [Next]_vars
  PROVE  Solo'
<1> SUFFICES ASSUME NEW w \in Workers
             PROVE  SoloAt(w)' \/ Stopped(script'[w])
  BY DEF Solo
<1>1. CASE UNCHANGED vars
  BY <1>1 DEF Solo, SoloAt, vars, At, Current
<1>2. CASE Quiet
  BY <1>1, <1>2 DEF Quiet
<1>3. CASE Next /\ ~Quiet
  <2>1. PICK v \in Workers :
          \/ Receive(v) \/ Answer(v) \/ Read(v) \/ Drop(v) \/ UsePlace(v)
          \/ Handle(v) \/ Write(v)
    BY <1>3 DEF Next
  <2>2. v = w
    BY DEF OneWorker
  <2>4. CASE Stopped(script[w])
    BY <2>1, <2>2, <2>4, StoppedStep
  <2>5. CASE ~Stopped(script[w])
    BY <2>1, <2>2, <2>5, StepSolo DEF Solo
  <2> QED
    BY <2>4, <2>5
<1> QED
  BY <1>1, <1>2, <1>3

(* With one request at a time a handler decides on the place as it is in   *)
(* the database: every copy a handler could find in the cache either       *)
(* agrees with its document or is deleted before it is read.               *)
THEOREM PlacesDecideOnCurrent == OneWorker /\ Spec => []DecidesOnCurrent
<1> SUFFICES ASSUME OneWorker PROVE Spec => []DecidesOnCurrent
  OBVIOUS
<1>1. Init => TypeOK /\ Solo
  BY InitTypeOK, InitSolo
<1>2. TypeOK /\ Solo /\ [Next]_vars => (TypeOK /\ Solo)'
  BY StepTypeOK, NextSolo
<1>3. TypeOK /\ Solo => DecidesOnCurrent
  <2> SUFFICES ASSUME TypeOK, Solo, NEW w \in Workers, At(w, "serve")
               PROVE  copy[w][Subject(req[w])] = db[Subject(req[w])]
    BY DEF DecidesOnCurrent
  <2>1. CASE SoloAt(w)
    BY <2>1 DEF SoloAt
  <2>2. CASE Stopped(script[w])
    <3>1. Head(script[w]).do \in {"del", "halt"}
      BY <2>2, StoppedStays, Fields DEF Halt
    <3> QED
      BY <3>1 DEF At
  <2> QED
    BY <2>1, <2>2 DEF Solo
<1> QED
  BY <1>1, <1>2, <1>3, PTL DEF Spec

-----------------------------------------------------------------------------
(* The steps of a lone worker, without copies.                             *)

LEMMA StoresNow ==
  /\ TypeOK /\ RosterCounted => Stores(db)
  /\ TypeOK' /\ RosterCounted' => Stores(db')
  BY DEF TypeOK, RosterCounted, Stores, Ranked, Held

(* The reads, DELs and dereferences.                                       *)
LEMMA ReadSteps ==
  ASSUME TypeOK, NEW w \in Workers, Read(w) \/ Drop(w) \/ UsePlace(w),
         ~Stopped(script'[w])
  PROVE  Steps(db, req[w], script[w], db', script'[w]) /\ req' = req
<1> DEFINE s == script[w]
           h == Head(s).do
<1>1. DOMAIN script = Workers
  BY DEF TypeOK
<1>2. s # <<>> /\ h \in {"get", "del", "use"} /\ db' = db /\ req' = req
  BY DEF Read, Lookup, Find, Fill, Drop, UsePlace, At
<1>3. <<>> \o Tail(s) = Tail(s)
  BY <1>2, AtCommand, ConcatEmptySeq DEF Scripts
<1>4. Continue(w, <<>>) => script'[w] = Tail(s)
  BY <1>1, <1>3 DEF Continue
<1>5. Panic(w, <<>>) => Stopped(script'[w])
  BY PanicStays DEF Deferred
<1>6. Continue(w, <<>>) \/ script' = script
  BY <1>5 DEF Read, Lookup, Find, Fill, Drop, UsePlace
<1> HIDE DEF s, h
<1>7. script'[w] = s \/ script'[w] = Tail(s)
  BY <1>4, <1>6 DEF s
<1> QED
  BY <1>2, <1>7 DEF Steps, s, h

(* The handlers decide on the documents.                                   *)
LEMMA ServeSteps ==
  ASSUME TypeOK, NEW w \in Workers, SoloAt(w),
         \/ Refuse(w) \/ Invite(w) \/ AddMember(w) \/ PromoteMember(w)
         \/ DemoteMember(w) \/ Leave(w) \/ RemoveMember(w) \/ RemovePlace(w)
         \/ AddPlace(w)
  PROVE  /\ At(w, "serve")
         /\ \E calls : /\ Proceed(w, calls)
                       /\ \/ calls \in {<<>>, <<Get(Grand), Use(Grand)>>}
                          \/ Serves(db, req[w], calls)
<1> DEFINE r == req[w]
           c == copy[w][Subject(r)]
           p == r.place
           a == r.who
           b == Head(r.list)
<1>1. ASSUME NEW op, Serving(w, op)
      PROVE  /\ At(w, "serve") /\ r.op = op /\ c = db[Subject(r)]
             /\ c # Nil /\ Valid(r, c) /\ Entitled(r, c)
             /\ op # "add_place" => Subject(r) = p
  BY <1>1 DEF Serving, SoloAt, Subject
<1> HIDE DEF r, c, p, a, b
<1>a. CASE Refuse(w)
  BY <1>a DEF Refuse
<1>b. CASE Invite(w)
  <2>1. Serving(w, "invite_member")
    BY <1>b DEF Invite
  <2>2. Proceed(w, AddMembers(Joining(r, copy[w][p]), a))
    BY <1>b DEF Invite, r, p, a
  <2>3. copy[w][p] = c
    BY <1>1, <2>1 DEF c
  <2>4. Serves(db, r, AddMembers(Joining(r, c), a))
    BY <1>1, <2>1 DEF Serves, a
  <2> QED
    BY <1>1, <2>1, <2>2, <2>3, <2>4 DEF r
<1>c. CASE AddMember(w)
  <2>1. Serving(w, "add_member")
    BY <1>c DEF AddMember
  <2>2. Proceed(w, <<Get(Grand),
                      Command("enlist", Joining(r, copy[w][p]), a)>>)
    BY <1>c DEF AddMember, r, p, a
  <2>3. copy[w][p] = c
    BY <1>1, <2>1 DEF c
  <2>4. Serves(db, r, <<Get(Grand), Command("enlist", Joining(r, c), a)>>)
    BY <1>1, <2>1 DEF Serves, a
  <2> QED
    BY <1>1, <2>1, <2>2, <2>3, <2>4 DEF r
<1>d. CASE PromoteMember(w) \/ DemoteMember(w)
  <2>1. CASE PromoteMember(w)
    <3>1. Serving(w, "promote_member") /\ Proceed(w, Promote(p, b))
      BY <2>1 DEF PromoteMember, r, p, b
    <3>2. Serves(db, r, Promote(p, b))
      BY <1>1, <3>1 DEF Serves, p, b
    <3> QED
      BY <1>1, <3>1, <3>2 DEF r
  <2>2. CASE DemoteMember(w)
    <3>1. Serving(w, "demote_member") /\ Proceed(w, Demote(p, b))
      BY <2>2 DEF DemoteMember, r, p, b
    <3>2. Serves(db, r, Demote(p, b))
      BY <1>1, <3>1 DEF Serves, p, b
    <3> QED
      BY <1>1, <3>1, <3>2 DEF r
  <2> QED
    BY <1>d, <2>1, <2>2
<1>e. CASE Leave(w)
  <2> DEFINE S == IF p = Grand THEN AccessPlaceIDs(copy[w][a]) \cap Subs
                  ELSE {}
  <2>1. Serving(w, "leave")
    BY <1>e DEF Leave
  <2>2. Proceed(w, Tour(S, a) \o RemoveByRole(p, a, copy[w][p]))
    BY <1>e DEF Leave, r, p, a
  <2>3. copy[w][p] = c
    BY <1>1, <2>1 DEF c
  <2>4. Agrees(db, a, copy[w][a]) /\ a \in Accounts
    <3>1. /\ script[w] # <<>> /\ Head(script[w]).do = "serve"
          /\ script[w] \in Scripts /\ InCourse(script[w], r)
      BY <1>1, <2>1 DEF At, TypeOK, SoloAt, Scripts, r
    <3>2. script[w] = <<Command("serve", p, a)>>
      <4>1. 1 \in 1..Len(script[w]) /\ script[w][1].do = "serve"
        BY <3>1, ScriptAt
      <4>2. Opens(script[w], r)
        BY <3>1, <4>1 DEF InCourse
      <4> QED
        BY <4>1, <4>2, Fields DEF Opens, p, a
    <3>3. script[w][Len(script[w])].do = "serve" /\ Len(script[w]) < 3
      BY <3>2, Fields
    <3> QED
      BY <3>1, <3>3, AtCommand, RequestFields DEF SoloAt, r, a
  <2>5. p = Grand => db[a].access \cap Subs \subseteq S
    BY <2>4, KeyKinds DEF Agrees, AccessPlaceIDs
  <2>6. S \in SUBSET Subs
    OBVIOUS
  <2> HIDE DEF S
  <2>7. Serves(db, r, Tour(S, a) \o RemoveByRole(p, a, c))
    BY <1>1, <2>1, <2>5, <2>6 DEF Serves, p, a
  <2> QED
    BY <1>1, <2>1, <2>2, <2>3, <2>7 DEF r
<1>f. CASE RemoveMember(w)
  <2>1. Serving(w, "remove_member")
    BY <1>f DEF RemoveMember
  <2>2. /\ p = Grand =>
             Proceed(w, <<Get(b), Command("dismiss", Grand, b)>>)
        /\ p # Grand => Proceed(w, RemoveByRole(p, b, copy[w][p]))
    BY <1>f DEF RemoveMember, r, p, b
  <2>3. copy[w][p] = c
    BY <1>1, <2>1 DEF c
  <2>4. /\ p = Grand =>
             Serves(db, r, <<Get(b), Command("dismiss", Grand, b)>>)
        /\ p # Grand => Serves(db, r, RemoveByRole(p, b, c))
    BY <1>1, <2>1 DEF Serves, p, b
  <2> QED
    BY <1>1, <2>1, <2>2, <2>3, <2>4 DEF r
<1>g. CASE RemovePlace(w)
  <2>1. /\ Serving(w, "remove")
        /\ Proceed(w, <<Get(p), Command("dissolve", p, NoOne)>>)
    BY <1>g DEF RemovePlace, r, p
  <2>2. Serves(db, r, <<Get(p), Command("dissolve", p, NoOne)>>)
    BY <1>1, <2>1 DEF Serves, p
  <2> QED
    BY <1>1, <2>1, <2>2 DEF r
<1>h. CASE AddPlace(w)
  <2>1. /\ Serving(w, "add_place")
        /\ Proceed(w, <<Get(Grand), Command("insert", p, a)>>)
    BY <1>h DEF AddPlace, r, p, a
  <2>2. Serves(db, r, <<Get(Grand), Command("insert", p, a)>>)
    BY <1>1, <2>1 DEF Serves, p, a
  <2> QED
    BY <1>1, <2>1, <2>2 DEF r
<1> QED
  BY <1>a, <1>b, <1>c, <1>d, <1>e, <1>f, <1>g, <1>h

(* So do the loops, and Remove and CreateLockedPlace when they begin.      *)
LEMMA LoopSteps ==
  ASSUME TypeOK, NEW w \in Workers, SoloAt(w),
         Enlist(w) \/ Admit(w) \/ Dismiss(w) \/ NextSub(w) \/ VisitSub(w),
         ~Stopped(script'[w])
  PROVE  /\ script[w] # <<>>
         /\ \E calls : /\ Proceed(w, calls)
                       /\ Decides(db, req[w], Current(w), calls)
<1> DEFINE r == req[w]
           c == Current(w)
           on == c.on
           a == c.who
<1>1. Handle(w) /\ script[w] # <<>>
  BY HandlesAt DEF Handle
<1>2. c \in Commands /\ r \in Requests /\ Grand \in Places
  BY <1>1, AtCommand, KeyKinds
<1>3. c.do \in Judging => Agrees(db, Judged(c), copy[w][Judged(c)])
  BY <1>1 DEF SoloAt, Current
<1> HIDE DEF r, c, on, a
<1>a. CASE Enlist(w)
  <2>1. c.do = "enlist"
    BY <1>a DEF Enlist, At, Current, c
  <2>2. copy[w][Grand] = db[Grand]
    BY <1>2, <1>3, <2>1 DEF Judging, Judged, Agrees
  <2>3. copy[w][Grand] # Nil
    <3>1. copy[w][Grand] = Nil => Panic(w, <<>>)
      BY <1>a DEF Enlist
    <3> QED
      BY <3>1, PanicStays DEF Deferred
  <2> DEFINE calls == AddMembers([on EXCEPT !.eligible =
                                    @ \cap Members(copy[w][Grand])], a)
  <2>4. Proceed(w, calls)
    BY <1>a, <2>3 DEF Enlist, c, on, a
  <2>5. Decides(db, r, c, calls)
    BY <2>1, <2>2, <2>3 DEF Decides, on, a
  <2> QED
    BY <1>1, <2>4, <2>5 DEF r, c
<1>b. CASE Admit(w)
  <2> DEFINE x == Head(on.list)
             joins == x \in on.eligible /\ on.room > 0
             taken == IF joins /\ ~r.admin THEN 1 ELSE 0
             calls == (IF joins THEN AddKeyHolder(on.place, x) \o <<Del(x)>>
                                ELSE <<>>)
                        \o AddMembers([on EXCEPT !.list = Tail(@),
                                                 !.room = @ - taken], a)
  <2>1. c.do = "admit" /\ Proceed(w, calls)
    BY <1>b DEF Admit, At, Current, c, on, a, r
  <2>2. on \in Loops /\ on.list # <<>> /\ a \in Accounts
    BY <1>2, <2>1, CommandFields DEF on, a
  <2>3. CASE joins
    <3>1. taken = IF r.admin THEN 0 ELSE 1
      BY <2>3
    <3> HIDE DEF taken
    <3>2. calls = (AddKeyHolder(on.place, x) \o <<Del(x)>>)
                    \o AddMembers([on EXCEPT !.list = Tail(@),
                         !.room = @ - (IF r.admin THEN 0 ELSE 1)], a)
      BY <2>3, <3>1
    <3> HIDE DEF calls
    <3>3. Decides(db, r, c, calls)
      BY <2>1, <2>3, <3>2 DEF Decides, on, a
    <3> QED
      BY <1>1, <2>1, <3>3 DEF r, c
  <2>4. CASE ~joins
    <3>1. taken = 0 /\ on.room - 0 = on.room
      BY <2>2, <2>4 DEF Loops
    <3> HIDE DEF taken
    <3> DEFINE m == [on EXCEPT !.list = Tail(@), !.room = @ - taken]
               l == [on EXCEPT !.list = Tail(@)]
               more == AddMembers(l, a)
    <3>2. m = l
      BY <2>2, <3>1 DEF Loops
    <3>3. l \in Loops
      <4>1. Tail(on.list) \in Seq(Accounts)
        BY <2>2, HeadTailProperties DEF Loops
      <4> QED
        BY <2>2, <4>1 DEF Loops
    <3> HIDE DEF m, l
    <3>4. more \in Scripts
      BY <2>2, <3>3, LoopScripts
    <3>5. calls = <<>> \o more
      BY <2>4, <3>2 DEF m
    <3>6. calls = more
      BY <3>4, <3>5, ConcatEmptySeq DEF Scripts
    <3> HIDE DEF calls, more
    <3>7. Decides(db, r, c, calls)
      BY <2>1, <2>4, <3>6 DEF Decides, on, a, more, l
    <3> QED
      BY <1>1, <2>1, <3>7 DEF r, c
  <2> QED
    BY <2>3, <2>4
<1>c. CASE Dismiss(w)
  <2>1. c.do = "dismiss"
    BY <1>c DEF Dismiss, At, Current, c
  <2>2. copy[w][Grand] = db[Grand]
    <3>1. /\ script[w] \in Scripts
          /\ Head(script[w]).do = "dismiss"
      BY <2>1 DEF TypeOK, Scripts, Current, c
    <3>2. 1 \in 1..Len(script[w]) /\ script[w][1].do = "dismiss"
      BY <1>1, <3>1, ScriptAt
    <3> QED
      BY <3>2 DEF SoloAt
  <2>3. Agrees(db, a, copy[w][a]) /\ a \in Accounts
    BY <1>2, <1>3, <2>1, CommandFields DEF Judging, Judged, a
  <2> DEFINE S == AccessPlaceIDs(copy[w][a]) \cap Subs
  <2>4. S \in SUBSET Subs /\ db[a].access \cap Subs \subseteq S
    BY <2>3, KeyKinds DEF Agrees, AccessPlaceIDs
  <2>5. Proceed(w, Tour(S, a) \o RemoveByRole(Grand, a, copy[w][Grand]))
    BY <1>c DEF Dismiss, a, c
  <2> HIDE DEF S
  <2>6. Decides(db, r, c, Tour(S, a) \o RemoveByRole(Grand, a, copy[w][Grand]))
    BY <2>1, <2>2, <2>4 DEF Decides, a
  <2> QED
    BY <1>1, <2>5, <2>6 DEF r, c
<1>d. CASE NextSub(w)
  <2>1. c.do = "tour"
    BY <1>d DEF NextSub, At, Current, c
  <2>2. PICK q \in on : Proceed(w, <<Get(q), Command("visit", q, a)>>
                                     \o Tour(on \ {q}, a))
    BY <1>d DEF NextSub, on, a, c
  <2>3. Decides(db, r, c, <<Get(q), Command("visit", q, a)>>
                            \o Tour(on \ {q}, a))
    BY <2>1, <2>2 DEF Decides, on, a
  <2> QED
    BY <1>1, <2>2, <2>3 DEF r, c
<1>e. CASE VisitSub(w)
  <2>1. c.do = "visit"
    BY <1>e DEF VisitSub, At, Current, c
  <2>2. copy[w][on] = db[on]
    BY <1>2, <1>3, <2>1, CommandFields DEF Judging, Judged, Agrees, on
  <2> DEFINE d == copy[w][on]
             calls == IF d = Nil THEN <<>>
                      ELSE IF a \notin d.creators /\ r.op = "remove_member"
                        THEN RemoveKeyHolder(on, a)
                      ELSE RemoveByRole(on, a, d)
  <2>3. Proceed(w, calls)
    BY <1>e DEF VisitSub, on, a, c, r
  <2>4. Decides(db, r, c, calls)
    BY <2>1, <2>2 DEF Decides, on, a
  <2> QED
    BY <1>1, <2>3, <2>4 DEF r, c
<1> QED
  BY <1>a, <1>b, <1>c, <1>d, <1>e

LEMMA PlaceSteps ==
  ASSUME TypeOK, NEW w \in Workers, SoloAt(w), Dissolve(w) \/ Insert(w),
         ~Stopped(script'[w])
  PROVE  /\ script[w] # <<>> /\ req' = req
         /\ \/ /\ db' = db
               /\ \E calls : /\ Continue(w, calls)
                             /\ Decides(db, req[w], Current(w), calls)
            \/ /\ Current(w).do = "insert" /\ db[Grand] # Nil
               /\ db[Current(w).on] = Nil
               /\ db' = [db EXCEPT ![Current(w).on] = NewPlace]
               /\ Continue(w, Founding(Current(w).on, Current(w).who))
<1> DEFINE c == Current(w)
           p == c.on
<1>1. script[w] # <<>> /\ c.do \in {"dissolve", "insert"} /\ req' = req
  BY DEF Dissolve, Insert, Proceed, At, Current
<1>2. c \in Commands /\ Grand \in Places /\ p \in Places /\ p \in Keys
  BY <1>1, AtCommand, CommandFields, KeyKinds
<1>3. Agrees(db, Judged(c), copy[w][Judged(c)])
  BY <1>1 DEF SoloAt, Current, Judging
<1> HIDE DEF c, p
<1>a. CASE Dissolve(w)
  <2>1. c.do = "dissolve" /\ copy[w][p] = db[p]
    <3>1. c.do = "dissolve"
      BY <1>a DEF Dissolve, At, Current, c
    <3> QED
      BY <1>2, <1>3, <3>1 DEF Judged, Agrees, p
  <2>2. \A calls : Proceed(w, calls) => Continue(w, calls) /\ db' = db
    BY DEF Proceed
  <2>3. copy[w][p] # Nil
    <3>1. copy[w][p] = Nil => Panic(w, <<Del(p)>>)
      BY <1>a DEF Dissolve, c, p
    <3> QED
      BY <1>2, <3>1, PanicStays DEF Deferred
  <2>4. \/ Proceed(w, <<Del(p)>>)
        \/ Proceed(w, Removal(p)) /\ copy[w][p].nChildren <= 0
    BY <1>a, <2>3 DEF Dissolve, Removal, c, p
  <2>5. CASE Proceed(w, <<Del(p)>>)
    <3>1. Decides(db, req[w], c, <<Del(p)>>)
      BY <2>1 DEF Decides, p
    <3> QED
      BY <1>1, <2>2, <2>5, <3>1 DEF c
  <2>6. CASE Proceed(w, Removal(p)) /\ copy[w][p].nChildren <= 0
    <3>1. Decides(db, req[w], c, Removal(p))
      BY <2>1, <2>3, <2>6 DEF Decides, p
    <3> QED
      BY <1>1, <2>2, <2>6, <3>1 DEF c
  <2> QED
    BY <2>4, <2>5, <2>6
<1>b. CASE Insert(w)
  <2>1. c.do = "insert" /\ copy[w][Grand] = db[Grand]
    <3>1. c.do = "insert"
      BY <1>b DEF Insert, At, Current, c
    <3> QED
      BY <1>2, <1>3, <3>1 DEF Judged, Agrees
  <2>2. copy[w][Grand] # Nil
    <3>1. ASSUME copy[w][Grand] = Nil
          PROVE  \E deferred \in {<<>>, <<Del(Grand)>>} : Panic(w, deferred)
      BY <1>b, <3>1 DEF Insert
    <3>2. Deferred(<<>>) /\ Deferred(<<Del(Grand)>>)
      BY <1>2, KeyKinds DEF Deferred
    <3> QED
      BY <3>1, <3>2, PanicStays
  <2>3. CASE db[p] # Nil
    <3>1. Continue(w, <<Del(Grand)>>) /\ db' = db
      BY <1>b, <2>2, <2>3 DEF Insert, c, p
    <3>2. Decides(db, req[w], c, <<Del(Grand)>>)
      BY <2>1 DEF Decides
    <3> QED
      BY <1>1, <3>1, <3>2 DEF c
  <2>4. CASE db[p] = Nil
    BY <1>b, <1>1, <2>1, <2>2, <2>4 DEF Insert, Founding, c, p
  <2> QED
    BY <2>3, <2>4
<1> QED
  BY <1>a, <1>b

(* The updates, on rosters whose counters are right.                       *)
LEMMA MemberSteps ==
  ASSUME TypeOK, RosterCounted, NEW w \in Workers, SoloAt(w),
         Join(w) \/ Grant(w) \/ Raise(w) \/ Lower(w) \/ Expel(w) \/ Revoke(w),
         ~Stopped(script'[w])
  PROVE  /\ script[w] # <<>> /\ req' = req /\ Continue(w, <<>>)
         /\ Does(Current(w), db, db')
<1> DEFINE p == Current(w).on
           a == Current(w).who
           c == db[p]
           do == Current(w).do
<1>1. /\ script[w] # <<>>
      /\ Current(w).do \in {"join", "grant", "raise", "lower", "expel",
                            "revoke"}
  BY UpdatesAt DEF At, Current
<1>2. Current(w) \in Commands /\ p \in Places /\ a \in Accounts
  BY <1>1, AtCommand, CommandFields
<1>3. p \in Keys /\ a \in Keys /\ a \notin Places
  BY <1>2, KeyKinds
<1>4. DOMAIN db = Keys /\ c \in PlaceDocs \cup {Nil}
  BY <1>2 DEF TypeOK, IsStore
<1>5. c # Nil => c.creators \cap c.keys = {}
  BY <1>2 DEF RosterCounted
<1>6. ASSUME c \in PlaceDocs
      PROVE  /\ c.creators \cup {a} \in SUBSET Accounts
             /\ c.creators \ {a} \in SUBSET Accounts
             /\ c.keys \cup {a} \in SUBSET Accounts
             /\ c.keys \ {a} \in SUBSET Accounts
             /\ c.nCreators + 1 \in Int /\ c.nCreators - 1 \in Int
             /\ c.nKeys + 1 \in Int /\ c.nKeys - 1 \in Int
  BY <1>2, <1>6, PlaceCounts
<1>7. Nil \notin PlaceDocs
  BY PlacesAssumption
<1>8. db[a] \in AccountDocs
  BY <1>2 DEF TypeOK, IsStore
<1> HIDE DEF p, a, c, do
<1>a. CASE Join(w)
  <2> DEFINE new == [c EXCEPT !.keys = @ \cup {a}, !.nKeys = @ + 1]
  <2>1. do = "join"
    BY <1>a, UpdatesAt DEF At, Current, do
  <2>2. Update(w, p, a \notin Members(c), new)
    BY <1>a DEF Join, p, a, c
  <2>3. ASSUME c # Nil
        PROVE  /\ new # Nil /\ new.creators = c.creators
               /\ new.keys = c.keys \cup {a}
               /\ new.nChildren = c.nChildren
    <3>1. c \in PlaceDocs
      BY <1>4, <2>3
    <3>2. new \in PlaceDocs
      BY <1>6, <3>1, PlaceTyped
    <3> QED
      BY <1>7, <3>1, <3>2 DEF PlaceDocs
  <2> HIDE DEF new
  <2>4. /\ req' = req /\ Continue(w, <<>>)
        /\ \A k \in Keys : k # p => db'[k] = db[k]
        /\ c # Nil /\ a \notin Members(c) => db'[p] = new
        /\ ~(c # Nil /\ a \notin Members(c)) => db'[p] = c
    BY <1>3, <1>4, <2>2 DEF Update, c
  <2>5. Reroled(db, db', p, Ranked(db, p),
                Held(db, p) \cup ({a} \ Ranked(db, p)))
    BY <1>5, <2>3, <2>4 DEF Reroled, Ranked, Held, c, Members
  <2> QED
    BY <1>1, <2>1, <2>4, <2>5 DEF Does, do, p, a
<1>b. CASE Raise(w)
  <2> DEFINE new == [c EXCEPT !.creators = @ \cup {a}, !.keys = @ \ {a},
                                  !.nCreators = @ + 1, !.nKeys = @ - 1]
  <2>1. do = "raise"
    BY <1>b, UpdatesAt DEF At, Current, do
  <2>2. Update(w, p, a \in c.keys \ c.creators, new)
    BY <1>b DEF Raise, p, a, c
  <2>3. ASSUME c # Nil
        PROVE  /\ new # Nil /\ new.creators = c.creators \cup {a}
               /\ new.keys = c.keys \ {a}
               /\ new.nChildren = c.nChildren
    <3>1. c \in PlaceDocs
      BY <1>4, <2>3
    <3>2. new \in PlaceDocs
      BY <1>6, <3>1, PlaceTyped
    <3> QED
      BY <1>7, <3>1, <3>2 DEF PlaceDocs
  <2> HIDE DEF new
  <2>4. /\ req' = req /\ Continue(w, <<>>)
        /\ \A k \in Keys : k # p => db'[k] = db[k]
        /\ c # Nil /\ a \in c.keys \ c.creators => db'[p] = new
        /\ ~(c # Nil /\ a \in c.keys \ c.creators) =>
             db'[p] = c
    BY <1>3, <1>4, <2>2 DEF Update, c
  <2>5. Reroled(db, db', p, Ranked(db, p) \cup ({a} \cap Held(db, p)),
                Held(db, p) \ {a})
    BY <1>5, <2>3, <2>4 DEF Reroled, Ranked, Held, c
  <2> QED
    BY <1>1, <2>1, <2>4, <2>5 DEF Does, do, p, a
<1>c. CASE Lower(w)
  <2> DEFINE new == [c EXCEPT !.keys = @ \cup {a}, !.creators = @ \ {a},
                                  !.nKeys = @ + 1, !.nCreators = @ - 1]
  <2>1. do = "lower"
    BY <1>c, UpdatesAt DEF At, Current, do
  <2>2. Update(w, p, a \in c.creators \ c.keys, new)
    BY <1>c DEF Lower, p, a, c
  <2>3. ASSUME c # Nil
        PROVE  /\ new # Nil /\ new.creators = c.creators \ {a}
               /\ new.keys = c.keys \cup {a}
               /\ new.nChildren = c.nChildren
    <3>1. c \in PlaceDocs
      BY <1>4, <2>3
    <3>2. new \in PlaceDocs
      BY <1>6, <3>1, PlaceTyped
    <3> QED
      BY <1>7, <3>1, <3>2 DEF PlaceDocs
  <2> HIDE DEF new
  <2>4. /\ req' = req /\ Continue(w, <<>>)
        /\ \A k \in Keys : k # p => db'[k] = db[k]
        /\ c # Nil /\ a \in c.creators \ c.keys => db'[p] = new
        /\ ~(c # Nil /\ a \in c.creators \ c.keys) =>
             db'[p] = c
    BY <1>3, <1>4, <2>2 DEF Update, c
  <2>5. Reroled(db, db', p, Ranked(db, p) \ {a},
                Held(db, p) \cup ({a} \cap Ranked(db, p)))
    BY <1>5, <2>3, <2>4 DEF Reroled, Ranked, Held, c
  <2> QED
    BY <1>1, <2>1, <2>4, <2>5 DEF Does, do, p, a
<1>d. CASE Expel(w)
  <2> DEFINE new == [c EXCEPT !.keys = @ \ {a}, !.nKeys = @ - 1]
  <2>1. do = "expel"
    BY <1>d, UpdatesAt DEF At, Current, do
  <2>2. Update(w, p, a \in c.keys \ c.creators, new)
    BY <1>d DEF Expel, p, a, c
  <2>3. ASSUME c # Nil
        PROVE  /\ new # Nil /\ new.creators = c.creators
               /\ new.keys = c.keys \ {a}
               /\ new.nChildren = c.nChildren
    <3>1. c \in PlaceDocs
      BY <1>4, <2>3
    <3>2. new \in PlaceDocs
      BY <1>6, <3>1, PlaceTyped
    <3> QED
      BY <1>7, <3>1, <3>2 DEF PlaceDocs
  <2> HIDE DEF new
  <2>4. /\ req' = req /\ Continue(w, <<>>)
        /\ \A k \in Keys : k # p => db'[k] = db[k]
        /\ c # Nil /\ a \in c.keys \ c.creators => db'[p] = new
        /\ ~(c # Nil /\ a \in c.keys \ c.creators) =>
             db'[p] = c
    BY <1>3, <1>4, <2>2 DEF Update, c
  <2>5. Reroled(db, db', p, Ranked(db, p), Held(db, p) \ {a})
    BY <1>5, <2>3, <2>4 DEF Reroled, Ranked, Held, c
  <2> QED
    BY <1>1, <2>1, <2>4, <2>5 DEF Does, do, p, a
<1>e. CASE Grant(w) \/ Revoke(w)
  <2>1. /\ req' = req
        /\ Continue(w, <<>>) \/ Panic(w, <<Del(a), Del(p)>>)
    BY <1>e DEF Grant, Revoke, p, a
  <2>2. Continue(w, <<>>)
    BY <1>3, <2>1, PanicStays DEF Deferred
  <2>3. CASE Grant(w)
    <3>1. do = "grant"
      BY <2>3 DEF Grant, At, Current, do
    <3>2. db' = [db EXCEPT ![a].access = @ \cup {p}]
      BY <2>3 DEF Grant, p, a
    <3>3. /\ \A k \in Keys : k # a => db'[k] = db[k]
          /\ db'[a].access = db[a].access \cup {p}
      BY <1>3, <1>4, <1>8, <3>2 DEF AccountDocs
    <3> QED
      BY <1>1, <2>1, <2>2, <3>1, <3>3 DEF Does, do, p, a
  <2>4. CASE Revoke(w)
    <3>1. do = "revoke"
      BY <2>4 DEF Revoke, At, Current, do
    <3>2. db' = [db EXCEPT ![a].access = @ \ {p}]
      BY <2>4 DEF Revoke, p, a
    <3>3. /\ \A k \in Keys : k # a => db'[k] = db[k]
          /\ db'[a].access = db[a].access \ {p}
      BY <1>3, <1>4, <1>8, <3>2 DEF AccountDocs
    <3> QED
      BY <1>1, <2>1, <2>2, <3>1, <3>3 DEF Does, do, p, a
  <2> QED
    BY <1>e, <2>3, <2>4
<1> QED
  BY <1>a, <1>b, <1>c, <1>d, <1>e

LEMMA CounterSteps ==
  ASSUME TypeOK, NEW w \in Workers, SoloAt(w),
         Uncount(w) \/ Count(w) \/ Evict(w) \/ Delete(w), ~Stopped(script'[w])
  PROVE  /\ script[w] # <<>> /\ req' = req /\ Continue(w, <<>>)
         /\ Does(Current(w), db, db')
<1> DEFINE c == Current(w)
           p == c.on
<1>1. /\ script[w] # <<>>
      /\ c.do \in {"uncount", "count", "evict", "delete"}
  BY UpdatesAt DEF At, Current
<1>2. c \in Commands /\ p \in Places /\ p \in Keys /\ Grand \in Places
  BY <1>1, AtCommand, CommandFields, KeyKinds
<1>3. DOMAIN db = Keys /\ \A q \in Places : db[q] \in PlaceDocs \cup {Nil}
  BY DEF TypeOK, IsStore
<1>4. Nil \notin PlaceDocs /\ Grand \in Keys
  BY PlacesAssumption, KeyKinds
<1> HIDE DEF c, p
<1>a. CASE Uncount(w) \/ Count(w)
  <2> DEFINE Turn(n) ==
               Update(w, Grand, TRUE, [db[Grand] EXCEPT !.nChildren = @ + n])
  <2>1. \/ c.do = "count" /\ Turn(1)
        \/ c.do = "uncount" /\ Turn(-1)
    <3>1. CASE Count(w)
      <4>1. c.do = "count"
        BY <3>1, UpdatesAt DEF At, Current, c
      <4> QED
        BY <3>1, <4>1 DEF Count
    <3>2. CASE Uncount(w)
      <4>1. /\ c.do = "uncount"
            /\ Update(w, Grand, TRUE, [db[Grand] EXCEPT !.nChildren = @ - 1])
        BY <3>2 DEF Uncount, At, Current, c
      <4>2. CASE db[Grand] # Nil
        <5>1. db[Grand].nChildren \in Int
          BY <1>2, <1>3, <4>2 DEF PlaceDocs
        <5>2. db[Grand].nChildren - 1 = db[Grand].nChildren + (-1)
          BY <5>1
        <5> DEFINE m == db[Grand].nChildren - 1
                   n == db[Grand].nChildren + (-1)
                   new(x) == [db[Grand] EXCEPT !.nChildren = x]
        <5>3. Update(w, Grand, TRUE, new(m))
          BY <4>1
        <5>4. m = n
          BY <5>2
        <5> HIDE DEF m, n, new
        <5>5. Update(w, Grand, TRUE, new(n))
          BY <5>3, <5>4
        <5>6. Turn(-1)
          BY <5>5 DEF n, new
        <5> HIDE DEF Turn
        <5> QED
          BY <4>1, <5>6
      <4>3. CASE db[Grand] = Nil
        BY <4>1, <4>3 DEF Update
      <4> QED
        BY <4>2, <4>3
    <3> QED
      BY <1>a, <3>1, <3>2
  <2> HIDE DEF Turn
  <2>0. PICK n \in {1, -1} :
          /\ c.do = IF n = 1 THEN "count" ELSE "uncount"
          /\ Turn(n)
    BY <2>1
  <2> DEFINE new == [db[Grand] EXCEPT !.nChildren = @ + n]
  <2>2. db[Grand] # Nil =>
          /\ new # Nil /\ new.creators = db[Grand].creators
          /\ new.keys = db[Grand].keys
          /\ new.nChildren = db[Grand].nChildren + n
    <3>1. ASSUME db[Grand] # Nil
          PROVE  db[Grand] \in PlaceDocs /\ db[Grand].nChildren + n \in Int
      BY <1>2, <1>3, <3>1 DEF PlaceDocs
    <3>2. ASSUME db[Grand] # Nil PROVE new \in PlaceDocs
      BY <3>1, <3>2 DEF PlaceDocs
    <3> QED
      BY <1>4, <3>1, <3>2 DEF PlaceDocs
  <2>3. Update(w, Grand, TRUE, new)
    BY <2>0 DEF Turn
  <2> HIDE DEF new
  <2>4. /\ req' = req /\ Continue(w, <<>>)
        /\ \A k \in Keys : k # Grand => db'[k] = db[k]
        /\ db[Grand] # Nil => db'[Grand] = new
        /\ db[Grand] = Nil => db'[Grand] = Nil
    BY <1>3, <1>4, <2>3 DEF Update
  <2>5. Recounted(db, db', n)
    BY <2>2, <2>4 DEF Recounted
  <2>6. p = Grand
    <3>1. 1 \in 1..Len(script[w]) /\ script[w][1] = c
      BY <1>1, ScriptAt DEF TypeOK, Scripts, Current, c
    <3>2. ShapedAt(script[w], 1)
      BY <3>1 DEF SoloAt, Shaped
    <3> QED
      BY <3>1, <3>2, <2>0 DEF ShapedAt, p
  <2> QED
    BY <1>1, <2>0, <2>4, <2>5, <2>6 DEF Does, c, p
<1>b. CASE Evict(w)
  <2>1. c.do = "evict"
    BY <1>b DEF Evict, At, Current, c
  <2>2. copy[w][p] = db[p]
    <3>1. Agrees(db, Judged(c), copy[w][Judged(c)])
      BY <1>1, <2>1 DEF SoloAt, Current, c, Judging
    <3> QED
      BY <1>2, <2>1, <3>1 DEF Judged, Agrees, p
  <2>3. copy[w][p] # Nil
    <3>1. copy[w][p] = Nil => Panic(w, RemoveDefers(p))
      BY <1>b DEF Evict, c, p
    <3>2. Deferred(RemoveDefers(p))
      BY <1>2, <1>4 DEF Deferred, RemoveDefers
    <3> QED
      BY <3>1, <3>2, PanicStays
  <2>4. /\ Continue(w, <<>>) /\ req' = req
        /\ db' = [k \in Keys |-> IF k \in Members(db[p])
                     THEN [access |-> db[k].access \ {p}] ELSE db[k]]
    BY <1>b, <2>2, <2>3 DEF Evict, c, p
  <2>5. Members(db[p]) = Belong(db, p) /\ Members(db[p]) \subseteq Accounts
    BY <1>2, <1>3, <2>2, <2>3 DEF Members, Belong, Ranked, Held, PlaceDocs
  <2>6. \A q \in Places : db'[q] = db[q]
    BY <2>4, <2>5, KeyKinds
  <2>7. \A b \in Accounts :
          db'[b].access = IF b \in Belong(db, p) THEN db[b].access \ {p}
                                                 ELSE db[b].access
    BY <2>4, <2>5, KeyKinds
  <2> QED
    BY <1>1, <2>1, <2>4, <2>6, <2>7 DEF Does, c, p
<1>c. CASE Delete(w)
  <2>1. /\ c.do = "delete" /\ Continue(w, <<>>) /\ req' = req
        /\ db' = [db EXCEPT ![p] = Nil]
    BY <1>c DEF Delete, At, Current, c, p
  <2>2. db'[p] = Nil /\ \A k \in Keys : k # p => db'[k] = db[k]
    BY <1>2, <1>3, <2>1
  <2> QED
    BY <1>1, <2>1, <2>2 DEF Does, c, p
<1> QED
  BY <1>a, <1>b, <1>c

(* A lone worker that goes on takes one of these steps, or receives or     *)
(* answers a request.                                                      *)
LEMMA LoneSteps ==
  ASSUME TypeOK, RosterCounted, NEW w \in Workers, SoloAt(w),
         Read(w) \/ Drop(w) \/ UsePlace(w) \/ Handle(w) \/ Write(w),
         ~Stopped(script'[w])
  PROVE  /\ Steps(db, req[w], script[w], db', script'[w])
         /\ req' = req
<1> DEFINE s == script[w]
           r == req[w]
<1>1. DOMAIN script = Workers
  BY DEF TypeOK
<1>2. \A calls : Continue(w, calls) => script'[w] = calls \o Tail(s)
  BY <1>1 DEF Continue
<1>3. ASSUME s # <<>>, Continue(w, <<>>)
      PROVE  script'[w] = Tail(s)
  BY <1>2, <1>3, AtCommand, ConcatEmptySeq DEF Scripts
<1>4. ASSUME NEW calls, Proceed(w, calls)
      PROVE  Continue(w, calls) /\ db' = db /\ req' = req
  BY <1>4 DEF Proceed
<1>5. ASSUME NEW calls, s # <<>>, Continue(w, calls), db' = db,
             Decides(db, r, Head(s), calls)
      PROVE  Steps(db, r, s, db', script'[w])
  <2>1. script'[w] = calls \o Tail(s)
    BY <1>2, <1>5
  <2> HIDE DEF s, r
  <2> QED
    BY <1>5, <2>1 DEF Steps
<1>6. Current(w) = Head(s)
  BY DEF Current
<1> HIDE DEF r
<1>a. CASE Read(w) \/ Drop(w) \/ UsePlace(w)
  BY <1>a, ReadSteps DEF r
<1>b. CASE \/ Refuse(w) \/ Invite(w) \/ AddMember(w) \/ PromoteMember(w)
           \/ DemoteMember(w) \/ Leave(w) \/ RemoveMember(w)
           \/ RemovePlace(w) \/ AddPlace(w)
  <2>1. /\ At(w, "serve")
        /\ \E calls : /\ Proceed(w, calls)
                      /\ \/ calls \in {<<>>, <<Get(Grand), Use(Grand)>>}
                         \/ Serves(db, r, calls)
    BY <1>b, ServeSteps DEF r
  <2>2. PICK calls : /\ Proceed(w, calls)
                     /\ \/ calls \in {<<>>, <<Get(Grand), Use(Grand)>>}
                        \/ Serves(db, r, calls)
    BY <2>1
  <2>3. s # <<>> /\ Head(s).do = "serve"
    BY <2>1 DEF At
  <2> HIDE DEF s
  <2>4. Decides(db, r, Head(s), calls)
    BY <2>2, <2>3 DEF Decides
  <2> QED
    BY <1>4, <1>5, <2>2, <2>3, <2>4 DEF r, s
<1>c. CASE \/ Enlist(w) \/ Admit(w) \/ Dismiss(w) \/ NextSub(w)
           \/ VisitSub(w)
  <2>1. /\ s # <<>>
        /\ \E calls : /\ Proceed(w, calls)
                      /\ Decides(db, r, Current(w), calls)
    BY <1>c, LoopSteps DEF r
  <2> QED
    BY <1>4, <1>5, <1>6, <2>1 DEF r
<1>d. CASE Dissolve(w) \/ Insert(w)
  <2>1. /\ s # <<>> /\ req' = req
        /\ \/ /\ db' = db
              /\ \E calls : /\ Continue(w, calls)
                            /\ Decides(db, r, Current(w), calls)
           \/ /\ Current(w).do = "insert" /\ db[Grand] # Nil
              /\ db[Current(w).on] = Nil
              /\ db' = [db EXCEPT ![Current(w).on] = NewPlace]
              /\ Continue(w, Founding(Current(w).on, Current(w).who))
    BY <1>d, PlaceSteps DEF r
  <2>2. CASE /\ db' = db
             /\ \E calls : /\ Continue(w, calls)
                           /\ Decides(db, r, Current(w), calls)
    BY <1>5, <1>6, <2>1, <2>2 DEF r
  <2>3. CASE /\ Current(w).do = "insert" /\ db[Grand] # Nil
             /\ db[Current(w).on] = Nil
             /\ db' = [db EXCEPT ![Current(w).on] = NewPlace]
             /\ Continue(w, Founding(Current(w).on, Current(w).who))
    <3>1. script'[w] = Founding(Head(s).on, Head(s).who) \o Tail(s)
      BY <1>2, <1>6, <2>3
    <3> HIDE DEF s
    <3>2. Steps(db, r, s, db', script'[w])
      BY <1>6, <2>1, <2>3, <3>1 DEF Steps
    <3> QED
      BY <2>1, <3>2 DEF r, s
  <2> QED
    BY <2>1, <2>2, <2>3
<1>e. CASE \/ Join(w) \/ Grant(w) \/ Raise(w) \/ Lower(w) \/ Expel(w)
           \/ Revoke(w) \/ Uncount(w) \/ Evict(w) \/ Delete(w) \/ Count(w)
  <2>1. /\ s # <<>> /\ req' = req /\ Continue(w, <<>>)
        /\ Does(Current(w), db, db')
    BY <1>e, MemberSteps, CounterSteps
  <2>2. script'[w] = Tail(s)
    BY <1>3, <2>1
  <2> HIDE DEF s
  <2>3. Steps(db, r, s, db', script'[w])
    BY <1>6, <2>1, <2>2 DEF Steps
  <2> QED
    BY <2>1, <2>3 DEF r, s
<1> QED
  BY <1>a, <1>b, <1>c, <1>d, <1>e DEF Handle, Write, r

-----------------------------------------------------------------------------
(* What a script has still to do: the command c; the command e, with none  *)
(* of C before it; the command c after every e.                            *)

LEMMA HasNothing ==
  /\ \A c : ~Has(<<>>, c)
  /\ \A e, C : ~Bare(<<>>, e, C)
  /\ \A e, c : Followed(<<>>, e, c)
  BY DEF Has, Bare, Followed

LEMMA HasTail ==
  ASSUME NEW s \in Scripts, s # <<>>, NEW c
  PROVE  Has(s, c) <=> Head(s) = c \/ Has(Tail(s), c)
<1> DEFINE t == Tail(s)
<1>1. /\ Len(s) \in Nat /\ Len(s) > 0 /\ Len(t) = Len(s) - 1 /\ s[1] = Head(s)
      /\ \A i \in 1..Len(t) : t[i] = s[i + 1]
  BY ScriptAt
<1> HIDE DEF t
<1>2. ASSUME NEW i \in 1..Len(s), s[i] = c, i # 1
      PROVE  Has(t, c)
  <2>1. i - 1 \in 1..Len(t) /\ t[i - 1] = c
    BY <1>1, <1>2
  <2> QED
    BY <2>1 DEF Has
<1>3. Has(s, c) => Head(s) = c \/ Has(t, c)
  BY <1>1, <1>2 DEF Has
<1>4. Head(s) = c => Has(s, c)
  BY <1>1 DEF Has
<1>5. ASSUME NEW i \in 1..Len(t), t[i] = c
      PROVE  Has(s, c)
  <2>1. i + 1 \in 1..Len(s) /\ s[i + 1] = c
    BY <1>1, <1>5
  <2> QED
    BY <2>1 DEF Has
<1> QED
  BY <1>3, <1>4, <1>5 DEF Has, t

LEMMA HasCat ==
  ASSUME NEW s \in Scripts, NEW t \in Scripts, NEW c
  PROVE  Has(s \o t, c) <=> Has(s, c) \/ Has(t, c)
<1> DEFINE u == s \o t
<1>1. /\ Len(s) \in Nat /\ Len(t) \in Nat /\ Len(u) = Len(s) + Len(t)
      /\ \A i \in 1..Len(s) : u[i] = s[i]
      /\ \A i \in 1..Len(t) : u[Len(s) + i] = t[i]
  BY CatAt, ScriptAt
<1> HIDE DEF u
<1>2. Has(s, c) => Has(u, c)
  <2>1. 1..Len(s) \subseteq 1..Len(u)
    BY <1>1
  <2> QED
    BY <1>1, <2>1 DEF Has
<1>3. ASSUME NEW i \in 1..Len(t), t[i] = c
      PROVE  Has(u, c)
  <2>1. Len(s) + i \in 1..Len(u) /\ u[Len(s) + i] = c
    BY <1>1, <1>3
  <2> QED
    BY <2>1 DEF Has
<1>4. ASSUME NEW i \in 1..Len(u), u[i] = c
      PROVE  Has(s, c) \/ Has(t, c)
  <2>1. CASE i \in 1..Len(s)
    BY <1>1, <1>4, <2>1 DEF Has
  <2>2. CASE i \notin 1..Len(s)
    <3>1. i - Len(s) \in 1..Len(t) /\ Len(s) + (i - Len(s)) = i
      BY <1>1, <2>2
    <3>2. t[i - Len(s)] = c
      BY <1>1, <1>4, <3>1
    <3> QED
      BY <3>1, <3>2 DEF Has
  <2> QED
    BY <2>1, <2>2
<1> QED
  BY <1>2, <1>3, <1>4 DEF Has, u

LEMMA BareTail ==
  ASSUME NEW s \in Scripts, s # <<>>, NEW e, NEW C
  PROVE  /\ Head(s) \notin C /\ Bare(Tail(s), e, C) => Bare(s, e, C)
         /\ Head(s) = e => Bare(s, e, C)
         /\ Bare(s, e, C) => Has(s, e)
<1> DEFINE t == Tail(s)
<1>1. /\ Len(s) \in Nat /\ Len(s) > 0 /\ Len(t) = Len(s) - 1 /\ s[1] = Head(s)
      /\ \A i \in 1..Len(t) : t[i] = s[i + 1]
  BY ScriptAt
<1> HIDE DEF t
<1>2. ASSUME Head(s) \notin C, NEW i \in 1..Len(t), t[i] = e,
             \A j \in 1..(i - 1) : t[j] \notin C
      PROVE  Bare(s, e, C)
  <2>1. i + 1 \in 1..Len(s) /\ s[i + 1] = e
    BY <1>1, <1>2
  <2>2. ASSUME NEW j \in 1..i
        PROVE  s[j] \notin C
    <3>1. CASE j = 1
      BY <1>1, <1>2, <3>1
    <3>2. CASE j # 1
      <4>1. j - 1 \in 1..(i - 1) /\ j - 1 \in 1..Len(t) /\ j - 1 + 1 = j
        BY <1>1, <3>2
      <4>2. t[j - 1] = s[j - 1 + 1]
        BY <1>1, <4>1
      <4> QED
        BY <1>2, <4>1, <4>2
    <3> QED
      BY <3>1, <3>2
  <2>3. (i + 1) - 1 = i
    BY <1>1
  <2> QED
    BY <2>1, <2>2, <2>3 DEF Bare
<1>3. Head(s) = e => Bare(s, e, C)
  <2>1. 1 \in 1..Len(s) /\ \A j \in 1..(1 - 1) : FALSE
    BY <1>1
  <2> QED
    BY <1>1, <2>1 DEF Bare
<1>4. Bare(s, e, C) => Has(s, e)
  BY DEF Bare, Has
<1> QED
  BY <1>2, <1>3, <1>4 DEF Bare, t

LEMMA BareCat ==
  ASSUME NEW s \in Scripts, NEW t \in Scripts, NEW e, NEW C,
         Bare(s \o t, e, C)
  PROVE  \/ Bare(s, e, C)
         \/ Bare(t, e, C) /\ \A c \in C : ~Has(s, c)
<1> DEFINE u == s \o t
<1>1. /\ Len(s) \in Nat /\ Len(t) \in Nat /\ Len(u) = Len(s) + Len(t)
      /\ \A i \in 1..Len(s) : u[i] = s[i]
      /\ \A i \in 1..Len(t) : u[Len(s) + i] = t[i]
  BY CatAt, ScriptAt
<1>2. PICK i \in 1..Len(u) : u[i] = e /\ \A j \in 1..(i - 1) : u[j] \notin C
  BY DEF Bare
<1> HIDE DEF u
<1>3. CASE i \in 1..Len(s)
  <2>1. \A j \in 1..(i - 1) : j \in 1..Len(s)
    BY <1>1, <1>3
  <2> QED
    BY <1>1, <1>2, <1>3, <2>1 DEF Bare
<1>4. CASE i \notin 1..Len(s)
  <2> DEFINE k == i - Len(s)
  <2>1. k \in 1..Len(t) /\ Len(s) + k = i
    BY <1>1, <1>4
  <2>2. t[k] = e
    BY <1>1, <1>2, <2>1
  <2>3. ASSUME NEW j \in 1..(k - 1)
        PROVE  t[j] \notin C
    <3>1. j \in 1..Len(t) /\ Len(s) + j \in 1..(i - 1)
      BY <1>1, <2>1
    <3> QED
      BY <1>1, <1>2, <3>1
  <2>4. ASSUME NEW j \in 1..Len(s)
        PROVE  s[j] \notin C
    <3>1. j \in 1..(i - 1)
      BY <1>1, <1>4
    <3> QED
      BY <1>1, <1>2, <3>1
  <2> HIDE DEF k
  <2> QED
    BY <2>1, <2>2, <2>3, <2>4 DEF Bare, Has
<1> QED
  BY <1>3, <1>4

LEMMA FollowedTail ==
  ASSUME NEW s \in Scripts, s # <<>>, NEW e, NEW c, Followed(s, e, c)
  PROVE  /\ Followed(Tail(s), e, c)
         /\ Head(s) = e => Has(Tail(s), c)
<1> DEFINE t == Tail(s)
<1>1. /\ Len(s) \in Nat /\ Len(s) > 0 /\ Len(t) = Len(s) - 1 /\ s[1] = Head(s)
      /\ \A i \in 1..Len(t) : t[i] = s[i + 1]
  BY ScriptAt
<1> HIDE DEF t
<1>2. ASSUME NEW i \in 1..Len(s), s[i] = e
      PROVE  \E j \in i..Len(t) : t[j] = c
  <2>1. PICK j \in (i + 1)..Len(s) : s[j] = c
    BY <1>2 DEF Followed
  <2>2. j - 1 \in i..Len(t) /\ t[j - 1] = c
    BY <1>1, <2>1
  <2> QED
    BY <2>2
<1>3. ASSUME NEW i \in 1..Len(t), t[i] = e
      PROVE  \E j \in (i + 1)..Len(t) : t[j] = c
  <2>1. i + 1 \in 1..Len(s) /\ s[i + 1] = e
    BY <1>1, <1>3
  <2> QED
    BY <1>2, <2>1
<1>4. Head(s) = e => Has(t, c)
  BY <1>1, <1>2 DEF Has
<1> QED
  BY <1>3, <1>4 DEF Followed, t

LEMMA FollowedCat ==
  ASSUME NEW s \in Scripts, NEW t \in Scripts, NEW e, NEW c,
         Followed(t, e, c), Followed(s, e, c) \/ Has(t, c)
  PROVE  Followed(s \o t, e, c)
<1> DEFINE u == s \o t
<1>1. /\ Len(s) \in Nat /\ Len(t) \in Nat /\ Len(u) = Len(s) + Len(t)
      /\ \A i \in 1..Len(s) : u[i] = s[i]
      /\ \A i \in 1..Len(t) : u[Len(s) + i] = t[i]
  BY CatAt, ScriptAt
<1> HIDE DEF u
<1> SUFFICES ASSUME NEW i \in 1..Len(u), u[i] = e
             PROVE  \E j \in (i + 1)..Len(u) : u[j] = c
  BY DEF Followed, u
<1>2. CASE i \in 1..Len(s) /\ Has(t, c)
  <2>1. PICK j \in 1..Len(t) : t[j] = c
    BY <1>2 DEF Has
  <2>2. Len(s) + j \in (i + 1)..Len(u) /\ u[Len(s) + j] = c
    BY <1>1, <1>2, <2>1
  <2> QED
    BY <2>2
<1>3. CASE i \in 1..Len(s) /\ Followed(s, e, c)
  <2>1. PICK j \in (i + 1)..Len(s) : s[j] = c
    BY <1>1, <1>3 DEF Followed
  <2>2. j \in (i + 1)..Len(u) /\ u[j] = c
    BY <1>1, <1>3, <2>1
  <2> QED
    BY <2>2
<1>4. CASE i \notin 1..Len(s)
  <2>1. i - Len(s) \in 1..Len(t) /\ Len(s) + (i - Len(s)) = i
    BY <1>1, <1>4
  <2> DEFINE k == i - Len(s)
  <2>2. k \in 1..Len(t) /\ t[k] = e
    BY <1>1, <2>1
  <2> HIDE DEF k
  <2>3. PICK j \in (k + 1)..Len(t) : t[j] = c
    BY <2>2 DEF Followed
  <2>4. Len(s) + j \in (i + 1)..Len(u) /\ u[Len(s) + j] = c
    BY <1>1, <2>1, <2>2, <2>3 DEF k
  <2> QED
    BY <2>4
<1> QED
  BY <1>2, <1>3, <1>4

-----------------------------------------------------------------------------
(* What the manager's functions have to do.                                *)

LEMMA SameCommand ==
  \A do, on, who, eo, en, eh :
    Command(do, on, who) = Command(eo, en, eh) <=>
      do = eo /\ on = en /\ who = eh
  BY DEF Command

LEMMA DoesShort ==
  ASSUME NEW c, NEW d, NEW x
  PROVE  /\ Has(<<c>>, x) <=> x = c
         /\ Has(<<c, d>>, x) <=> x = c \/ x = d
<1> DEFINE s == <<c>>
           t == <<c, d>>
<1>1. Len(s) = 1 /\ s[1] = c /\ Len(t) = 2 /\ t[1] = c /\ t[2] = d
  OBVIOUS
<1> HIDE DEF s, t
<1>2. 1..1 = {1} /\ 1..2 = {1, 2}
  OBVIOUS
<1> QED
  BY <1>1, <1>2 DEF Has, s, t

LEMMA DoesAdd ==
  ASSUME NEW p \in Places, NEW a \in Accounts
  PROVE  /\ \A c : Has(AddKeyHolder(p, a), c) <=>
                     c \in {Get(p), Get(a), Command("join", p, a),
                            Command("grant", p, a), Del(a), Del(p)}
         /\ \A q, b : ~Bare(AddKeyHolder(p, a), Command("grant", q, b),
                            {Command("join", q, b)})
<1> DEFINE s == AddKeyHolder(p, a)
           join == Command("join", p, a)
           grant == Command("grant", p, a)
<1>1. /\ Len(s) = 6 /\ s[1] = Get(p) /\ s[2] = Get(a)
      /\ s[3] = join /\ s[4] = grant /\ s[5] = Del(a) /\ s[6] = Del(p)
  BY DEF AddKeyHolder
<1>2. 1..6 = {1, 2, 3, 4, 5, 6} /\ 3 \in 1..(4 - 1)
  OBVIOUS
<1> HIDE DEF s
<1>3. \A i \in 1..6 : \A q, b : s[i] = Command("grant", q, b) => i = 4
  BY <1>1, <1>2, Fields
<1>4. \A q, b : s[4] = Command("grant", q, b) => q = p /\ b = a
  BY <1>1, SameCommand
<1>5. ASSUME NEW q, NEW b, Bare(s, Command("grant", q, b),
                                {Command("join", q, b)})
      PROVE  FALSE
  <2>1. PICK i \in 1..6 : /\ s[i] = Command("grant", q, b)
                          /\ \A j \in 1..(i - 1) : s[j] # Command("join", q, b)
    BY <1>1, <1>5 DEF Bare
  <2>2. i = 4 /\ q = p /\ b = a
    BY <1>3, <1>4, <2>1
  <2> QED
    BY <1>1, <1>2, <2>1, <2>2
<1>6. \A c : Has(s, c) <=>
               c \in {Get(p), Get(a), join, grant, Del(a), Del(p)}
  BY <1>1, <1>2 DEF Has
<1> QED
  BY <1>5, <1>6 DEF s

LEMMA DoesPromote ==
  ASSUME NEW p, NEW a
  PROVE  /\ \A c : Has(Promote(p, a), c) <=>
                     c \in {Command("raise", p, a), Del(a), Del(p)}
         /\ \A c : Has(Demote(p, a), c) <=>
                     c \in {Command("lower", p, a), Del(a), Del(p)}
<1> DEFINE s == Promote(p, a)
           t == Demote(p, a)
<1>1. /\ Len(s) = 3 /\ s[1] = Command("raise", p, a) /\ s[2] = Del(a)
      /\ s[3] = Del(p)
      /\ Len(t) = 3 /\ t[1] = Command("lower", p, a) /\ t[2] = Del(a)
      /\ t[3] = Del(p)
  BY DEF Promote, Demote
<1>2. 1..3 = {1, 2, 3}
  OBVIOUS
<1> HIDE DEF s, t
<1>3. /\ \A c : Has(s, c) <=> c \in {Command("raise", p, a), Del(a), Del(p)}
      /\ \A c : Has(t, c) <=> c \in {Command("lower", p, a), Del(a), Del(p)}
  BY <1>1, <1>2 DEF Has
<1> QED
  BY <1>3 DEF s, t

LEMMA DoesRemove ==
  ASSUME NEW p \in Places, NEW a \in Accounts
  PROVE  /\ \A c : Has(RemoveKeyHolder(p, a), c) <=>
                     c \in {Get(p), Command("expel", p, a),
                            Command("revoke", p, a), Del(a), Del(p)}
         /\ \A q, b : ~Bare(RemoveKeyHolder(p, a), Command("revoke", q, b),
                            {Command("expel", q, b)})
<1> DEFINE s == RemoveKeyHolder(p, a)
           expel == Command("expel", p, a)
           revoke == Command("revoke", p, a)
<1>1. /\ Len(s) = 5 /\ s[1] = Get(p) /\ s[2] = expel /\ s[3] = revoke
      /\ s[4] = Del(a) /\ s[5] = Del(p)
  BY DEF RemoveKeyHolder
<1>2. 1..5 = {1, 2, 3, 4, 5} /\ 2 \in 1..(3 - 1)
  OBVIOUS
<1> HIDE DEF s
<1>3. \A i \in 1..5 : \A q, b : s[i] = Command("revoke", q, b) => i = 3
  BY <1>1, <1>2, Fields
<1>4. \A q, b : s[3] = Command("revoke", q, b) => q = p /\ b = a
  BY <1>1, SameCommand
<1>5. ASSUME NEW q, NEW b, Bare(s, Command("revoke", q, b),
                                {Command("expel", q, b)})
      PROVE  FALSE
  <2>1. PICK i \in 1..5 : /\ s[i] = Command("revoke", q, b)
                          /\ \A j \in 1..(i - 1) :
                                s[j] # Command("expel", q, b)
    BY <1>1, <1>5 DEF Bare
  <2>2. i = 3 /\ q = p /\ b = a
    BY <1>3, <1>4, <2>1
  <2> QED
    BY <1>1, <1>2, <2>1, <2>2
<1>6. \A c : Has(s, c) <=> c \in {Get(p), expel, revoke, Del(a), Del(p)}
  BY <1>1, <1>2 DEF Has
<1> QED
  BY <1>5, <1>6 DEF s

(* Who is removed as a creator is lowered before he is expelled, and whose *)
(* place is revoked is expelled before.                                    *)
LEMMA DoesRole ==
  ASSUME NEW p \in Places, NEW a \in Accounts, NEW c
  PROVE  /\ RemoveByRole(p, a, c) \in Scripts
         /\ \A x : Has(RemoveByRole(p, a, c), x) =>
              \/ x \in {Command("expel", p, a), Command("revoke", p, a),
                        Get(p), Del(a), Del(p)}
              \/ x = Command("lower", p, a) /\ a \in c.creators
         /\ \A q, b : /\ Bare(RemoveByRole(p, a, c), Command("expel", q, b),
                              {Command("lower", q, b)}) =>
                           q = p /\ b = a /\ a \notin c.creators
                      /\ ~Bare(RemoveByRole(p, a, c), Command("revoke", q, b),
                               {Command("expel", q, b)})
                      /\ Followed(RemoveByRole(p, a, c),
                                  Command("lower", q, b),
                                  Command("expel", q, b))
         /\ a \in c.creators \cup c.keys =>
              /\ Has(RemoveByRole(p, a, c), Command("expel", p, a))
              /\ Has(RemoveByRole(p, a, c), Command("revoke", p, a))
<1> DEFINE s == Demote(p, a)
           t == RemoveKeyHolder(p, a)
           lower == Command("lower", p, a)
           expel == Command("expel", p, a)
           revoke == Command("revoke", p, a)
           rest == {Get(p), Del(a), Del(p)}
<1>1. s \in Scripts /\ t \in Scripts
  BY MemberScripts
<1>2. /\ \A x : Has(s, x) => x = lower \/ x \in rest
      /\ \A x : Has(t, x) => x \in {expel, revoke} \cup rest
      /\ Has(s, lower) /\ Has(t, expel) /\ Has(t, revoke)
  BY DoesPromote, DoesRemove
<1>3. \A q, b : ~Bare(t, Command("revoke", q, b), {Command("expel", q, b)})
  BY DoesRemove
<1>4. ASSUME NEW q, NEW b
      PROVE  /\ ~Has(s, Command("expel", q, b))
             /\ ~Has(s, Command("revoke", q, b))
             /\ ~Has(t, Command("lower", q, b))
             /\ Has(t, Command("expel", q, b)) => q = p /\ b = a
             /\ Has(s, Command("lower", q, b)) => q = p /\ b = a
  BY <1>2, SameCommand, Fields
<1> HIDE DEF s, t
<1>5. ASSUME NEW q, NEW b
      PROVE  /\ Followed(t, Command("lower", q, b), Command("expel", q, b))
             /\ ~Bare(s \o t, Command("expel", q, b), {Command("lower", q, b)})
             /\ ~Bare(s \o t, Command("revoke", q, b),
                      {Command("expel", q, b)})
             /\ Followed(s \o t, Command("lower", q, b),
                         Command("expel", q, b))
  <2>1. Followed(t, Command("lower", q, b), Command("expel", q, b))
    BY <1>4 DEF Followed, Has
  <2>2. ~Bare(s \o t, Command("expel", q, b), {Command("lower", q, b)})
    <3>1. \A C : /\ Bare(s, Command("expel", q, b), C) => FALSE
                 /\ Bare(t, Command("expel", q, b), C) =>
                      Has(t, Command("expel", q, b))
      BY <1>4 DEF Bare, Has
    <3> QED
      BY <1>1, <1>2, <1>4, <3>1, BareCat
  <2>3. ~Bare(s \o t, Command("revoke", q, b), {Command("expel", q, b)})
    <3>1. \A C : ~Bare(s, Command("revoke", q, b), C)
      BY <1>4 DEF Bare, Has
    <3> QED
      BY <1>1, <1>3, <3>1, BareCat
  <2>4. Followed(s \o t, Command("lower", q, b), Command("expel", q, b))
    <3>1. CASE q = p /\ b = a
      BY <1>1, <1>2, <2>1, <3>1, FollowedCat
    <3>2. CASE ~(q = p /\ b = a)
      <4>1. Followed(s, Command("lower", q, b), Command("expel", q, b))
        BY <1>4, <3>2 DEF Followed, Has
      <4> QED
        BY <1>1, <2>1, <4>1, FollowedCat
    <3> QED
      BY <3>1, <3>2
  <2> QED
    BY <2>1, <2>2, <2>3, <2>4
<1> DEFINE u == RemoveByRole(p, a, c)
<1>6. \/ a \in c.creators /\ u = s \o t
      \/ a \notin c.creators /\ a \in c.keys /\ u = t
      \/ a \notin c.creators /\ a \notin c.keys /\ u = <<>>
  BY DEF RemoveByRole, RemoveCreator, s, t
<1>7. u \in Scripts
  BY RoleScripts
<1> HIDE DEF u
<1>a. CASE a \in c.creators /\ u = s \o t
  <2>1. \A x : Has(u, x) <=> Has(s, x) \/ Has(t, x)
    BY <1>1, <1>a, HasCat
  <2> QED
    BY <1>2, <1>5, <1>7, <1>a, <2>1 DEF u
<1>b. CASE a \notin c.creators /\ a \in c.keys /\ u = t
  <2>1. \A q, b : Bare(t, Command("expel", q, b), {Command("lower", q, b)}) =>
                    q = p /\ b = a
    <3>1. \A q, b : Bare(t, Command("expel", q, b),
                         {Command("lower", q, b)}) =>
                      Has(t, Command("expel", q, b))
      BY DEF Bare, Has
    <3> QED
      BY <1>4, <3>1
  <2> QED
    BY <1>2, <1>3, <1>5, <1>7, <1>b, <2>1 DEF u
<1>c. CASE a \notin c.creators /\ a \notin c.keys /\ u = <<>>
  BY <1>7, <1>c, HasNothing DEF u
<1> QED
  BY <1>6, <1>a, <1>b, <1>c

(* Who founds a place joins it before anything is granted, and is made its *)
(* creator afterwards.                                                     *)
LEMMA DoesFound ==
  ASSUME NEW p \in Places, NEW a \in Accounts
  PROVE  /\ Founding(p, a) \in Scripts
         /\ Founding(p, a) # <<>>
         /\ Head(Founding(p, a)) = Command("count", Grand, NoOne)
         /\ \A x : Has(Founding(p, a), x) <=>
              x \in {Command("count", Grand, NoOne), Get(p), Get(a),
                     Command("join", p, a), Command("grant", p, a),
                     Command("raise", p, a), Del(Grand), Del(a), Del(p)}
         /\ \A q, b : /\ ~Bare(Founding(p, a), Command("grant", q, b),
                               {Command("join", q, b)})
                      /\ Followed(Founding(p, a), Command("join", q, b),
                                  Command("raise", q, b))
<1> DEFINE count == Command("count", Grand, NoOne)
           s == <<count, Del(Grand)>>
           t == AddKeyHolder(p, a)
           u == Promote(p, a)
           v == <<Del(a)>>
<1>1. s \in Scripts /\ t \in Scripts /\ u \in Scripts /\ v \in Scripts
  BY MemberScripts, PlainCommands, ShortScripts, KeyKinds
<1>2. /\ \A x : Has(s, x) <=> x \in {count, Del(Grand)}
      /\ \A x : Has(t, x) <=>
           x \in {Get(p), Get(a), Command("join", p, a),
                  Command("grant", p, a), Del(a), Del(p)}
      /\ \A x : Has(u, x) <=> x \in {Command("raise", p, a), Del(a), Del(p)}
      /\ \A x : Has(v, x) <=> x = Del(a)
  BY DoesShort, DoesAdd, DoesPromote
<1>3. \A q, b : ~Bare(t, Command("grant", q, b), {Command("join", q, b)})
  BY DoesAdd
<1>4. s # <<>> /\ Head(s) = count
  OBVIOUS
<1>5. Founding(p, a) = ((s \o t) \o u) \o v
  BY DEF Founding
<1> HIDE DEF s, t, u, v
<1>6. s \o t \in Scripts /\ (s \o t) \o u \in Scripts
      /\ ((s \o t) \o u) \o v \in Scripts
  BY <1>1, CatAt
<1>7. /\ \A x : Has(s \o t, x) <=> Has(s, x) \/ Has(t, x)
      /\ \A x : Has((s \o t) \o u, x) <=> Has(s, x) \/ Has(t, x) \/ Has(u, x)
      /\ \A x : Has(((s \o t) \o u) \o v, x) <=>
                  Has(s, x) \/ Has(t, x) \/ Has(u, x) \/ Has(v, x)
  BY <1>1, <1>6, HasCat
<1>8. ASSUME NEW q, NEW b
      PROVE  /\ ~Has(s, Command("grant", q, b))
             /\ ~Has(u, Command("grant", q, b))
             /\ ~Has(v, Command("grant", q, b))
             /\ ~Has(s, Command("join", q, b))
             /\ ~Has(u, Command("join", q, b))
             /\ ~Has(v, Command("join", q, b))
             /\ Has(t, Command("join", q, b)) => q = p /\ b = a
  BY <1>2, Fields, SameCommand
<1>9. ASSUME NEW q, NEW b
      PROVE  ~Bare(((s \o t) \o u) \o v, Command("grant", q, b),
                   {Command("join", q, b)})
  <2> DEFINE g == Command("grant", q, b)
             C == {Command("join", q, b)}
  <2>1. ~Bare(s, g, C) /\ ~Bare(u, g, C) /\ ~Bare(v, g, C) /\ ~Bare(t, g, C)
    BY <1>3, <1>8 DEF Bare, Has
  <2> HIDE DEF g, C
  <2>2. ~Bare(s \o t, g, C)
    BY <1>1, <2>1, BareCat
  <2>3. ~Bare((s \o t) \o u, g, C)
    BY <1>1, <1>6, <2>1, <2>2, BareCat
  <2>4. ~Bare(((s \o t) \o u) \o v, g, C)
    BY <1>1, <1>6, <2>1, <2>3, BareCat
  <2> QED
    BY <2>4 DEF g, C
<1>10. ASSUME NEW q, NEW b
       PROVE  Followed(((s \o t) \o u) \o v, Command("join", q, b),
                       Command("raise", q, b))
  <2> DEFINE j == Command("join", q, b)
             r == Command("raise", q, b)
  <2>1. /\ Followed(s, j, r) /\ Followed(u, j, r) /\ Followed(v, j, r)
        /\ Followed(t, j, r) \/ Has(u, r)
    <3>1. Followed(s, j, r) /\ Followed(u, j, r) /\ Followed(v, j, r)
      BY <1>8 DEF Followed, Has
    <3>2. q = p /\ b = a => Has(u, r)
      BY <1>2
    <3>3. ~(q = p /\ b = a) => Followed(t, j, r)
      BY <1>8 DEF Followed, Has
    <3> QED
      BY <3>1, <3>2, <3>3
  <2> HIDE DEF j, r
  <2>2. Followed((s \o t) \o u, j, r)
    <3>1. Followed(t, j, r) => Followed(s \o t, j, r)
      BY <1>1, <2>1, FollowedCat
    <3> QED
      BY <1>1, <1>6, <2>1, <3>1, FollowedCat
  <2>3. Followed(((s \o t) \o u) \o v, j, r)
    BY <1>1, <1>6, <2>1, <2>2, FollowedCat
  <2> QED
    BY <2>3 DEF j, r
<1>11. /\ ((s \o t) \o u) \o v # <<>>
       /\ Head(((s \o t) \o u) \o v) = count
  <2>1. s \o t # <<>> /\ Head(s \o t) = count
    BY <1>1, <1>4, HeadCat
  <2>2. (s \o t) \o u # <<>> /\ Head((s \o t) \o u) = count
    BY <1>1, <1>6, <2>1, HeadCat
  <2> QED
    BY <1>1, <1>6, <2>2, HeadCat
<1>12. \A x : Has(((s \o t) \o u) \o v, x) <=>
              x \in {count, Get(p), Get(a),
                     Command("join", p, a), Command("grant", p, a),
                     Command("raise", p, a), Del(Grand), Del(a), Del(p)}
  BY <1>2, <1>7
<1> QED
  BY <1>5, <1>6, <1>9, <1>10, <1>11, <1>12

(* A place's members are evicted before it is deleted.                     *)
LEMMA DoesRemoval ==
  ASSUME NEW p \in Places
  PROVE  /\ Removal(p) \in Scripts
         /\ Removal(p) # <<>>
         /\ p = Grand => Head(Removal(p)) = Get(p)
         /\ p # Grand => Head(Removal(p)) = Command("uncount", Grand, NoOne)
         /\ \A x : Has(Removal(p), x) =>
              x \in {Command("uncount", Grand, NoOne), Get(p),
                     Command("evict", p, NoOne),
                     Command("delete", p, NoOne), Del(Grand), Del(p)}
         /\ Has(Removal(p), Command("delete", p, NoOne))
         /\ Has(Removal(p), Command("evict", p, NoOne))
         /\ \A q : /\ ~Bare(Removal(p), Command("delete", q, NoOne),
                            {Command("evict", q, NoOne)})
                   /\ Followed(Removal(p), Command("evict", q, NoOne),
                               Command("delete", q, NoOne))
<1> DEFINE uncount == Command("uncount", Grand, NoOne)
           evict == Command("evict", p, NoOne)
           delete == Command("delete", p, NoOne)
           s == IF p = Grand THEN <<>> ELSE <<uncount>>
           t == <<Get(p), evict, delete>>
           u == RemoveDefers(p)
<1>1. /\ p \in Keys /\ Grand \in Places /\ Grand \in Keys
      /\ uncount \in Commands /\ evict \in Commands /\ delete \in Commands
      /\ Get(p) \in Commands /\ Del(p) \in Commands /\ Del(Grand) \in Commands
  BY KeyKinds, PlainCommands
<1>2. s \in Scripts /\ t \in Scripts /\ u \in Scripts
  BY <1>1, ShortScripts DEF RemoveDefers
<1>3. /\ Len(t) = 3 /\ t[1] = Get(p) /\ t[2] = evict /\ t[3] = delete
      /\ t # <<>> /\ Head(t) = Get(p)
  OBVIOUS
<1>4. \A x : /\ Has(s, x) => x = uncount
             /\ Has(u, x) => x \in {Del(Grand), Del(p)}
  BY DoesShort, HasNothing DEF RemoveDefers
<1>5. /\ p = Grand => s = <<>>
      /\ p # Grand => s # <<>> /\ Head(s) = uncount
  OBVIOUS
<1>6. Removal(p) = (s \o t) \o u
  BY DEF Removal
<1> HIDE DEF s, t, u
<1>7. 1..3 = {1, 2, 3} /\ 2 \in 1..(3 - 1) /\ 3 \in (2 + 1)..3
  OBVIOUS
<1>8. \A x : Has(t, x) <=> x \in {Get(p), evict, delete}
  BY <1>3, <1>7 DEF Has
<1>9. ASSUME NEW q
      PROVE  /\ ~Bare(t, Command("delete", q, NoOne),
                      {Command("evict", q, NoOne)})
             /\ Followed(t, Command("evict", q, NoOne),
                         Command("delete", q, NoOne))
  <2>1. /\ \A i \in 1..3 : t[i] = Command("delete", q, NoOne) =>
             i = 3 /\ q = p
        /\ \A i \in 1..3 : t[i] = Command("evict", q, NoOne) =>
             i = 2 /\ q = p
    BY <1>3, <1>7, Fields, SameCommand
  <2>2. ~Bare(t, Command("delete", q, NoOne), {Command("evict", q, NoOne)})
    BY <1>3, <1>7, <2>1 DEF Bare
  <2>3. Followed(t, Command("evict", q, NoOne), Command("delete", q, NoOne))
    BY <1>3, <1>7, <2>1 DEF Followed
  <2> QED
    BY <2>2, <2>3
<1>10. ASSUME NEW q
       PROVE  /\ ~Has(s, Command("delete", q, NoOne))
              /\ ~Has(u, Command("delete", q, NoOne))
              /\ ~Has(s, Command("evict", q, NoOne))
              /\ ~Has(u, Command("evict", q, NoOne))
  BY <1>4, Fields
<1>11. s \o t \in Scripts /\ (s \o t) \o u \in Scripts
  BY <1>2, CatAt
<1>12. \A x : Has((s \o t) \o u, x) <=> Has(s, x) \/ Has(t, x) \/ Has(u, x)
  BY <1>2, <1>11, HasCat
<1>13. ASSUME NEW q
       PROVE  /\ ~Bare((s \o t) \o u, Command("delete", q, NoOne),
                       {Command("evict", q, NoOne)})
              /\ Followed((s \o t) \o u, Command("evict", q, NoOne),
                          Command("delete", q, NoOne))
  <2> DEFINE e == Command("evict", q, NoOne)
             d == Command("delete", q, NoOne)
  <2>1. ~Bare(s, d, {e}) /\ ~Bare(t, d, {e}) /\ ~Bare(u, d, {e})
    BY <1>9, <1>10 DEF Bare, Has
  <2>2. Followed(s, e, d) /\ Followed(t, e, d) /\ Followed(u, e, d)
    BY <1>9, <1>10 DEF Followed, Has
  <2> HIDE DEF e, d
  <2>3. ~Bare(s \o t, d, {e}) /\ Followed(s \o t, e, d)
    BY <1>2, <2>1, <2>2, BareCat, FollowedCat
  <2>4. ~Bare((s \o t) \o u, d, {e}) /\ Followed((s \o t) \o u, e, d)
    BY <1>2, <1>11, <2>1, <2>2, <2>3, BareCat, FollowedCat
  <2> QED
    BY <2>4 DEF e, d
<1>14. /\ (s \o t) \o u # <<>>
       /\ p = Grand => Head((s \o t) \o u) = Get(p)
       /\ p # Grand => Head((s \o t) \o u) = uncount
  <2>1. /\ s \o t # <<>>
        /\ p = Grand => Head(s \o t) = Get(p)
        /\ p # Grand => Head(s \o t) = uncount
    BY <1>2, <1>3, <1>5, HeadCat
  <2> QED
    BY <1>2, <1>11, <2>1, HeadCat
<1> QED
  BY <1>4, <1>6, <1>8, <1>11, <1>12, <1>13, <1>14

-----------------------------------------------------------------------------
(* What an update changes.                                                 *)

(* A command is what it does, on what and for whom.                        *)
LEMMA CommandIs ==
  ASSUME NEW c \in Commands
  PROVE  /\ c = Command(c.do, c.on, c.who)
         /\ c.do \in {"uncount", "count", "evict", "delete"} => c.who = NoOne
<1>1. c = [do |-> c.do, on |-> c.on, who |-> c.who]
  BY SMT DEF Commands, Halt, Command
<1>2. c.do \in {"uncount", "count", "evict", "delete"} => c.who = NoOne
  BY SMT DEF Commands, Halt, Command
<1> QED
  BY <1>1, <1>2 DEF Command

LEMMA DoesUpdates ==
  ASSUME NEW c, NEW d, NEW e, Does(c, d, e)
  PROVE  c.do \in Updating
  BY DEF Does, Updating

(* Of the rosters, an update changes the one of its place, for its account. *)
LEMMA DoesRosters ==
  ASSUME NEW c \in Commands, NEW d, NEW e, Stores(d), Stores(e),
         Does(c, d, e), NEW q \in Places
  PROVE  /\ c.do = "join" /\ c.on = q =>
              Reroled(d, e, q, Ranked(d, q),
                      Held(d, q) \cup ({c.who} \ Ranked(d, q)))
         /\ c.do = "raise" /\ c.on = q =>
              Reroled(d, e, q, Ranked(d, q) \cup ({c.who} \cap Held(d, q)),
                      Held(d, q) \ {c.who})
         /\ c.do = "lower" /\ c.on = q =>
              Reroled(d, e, q, Ranked(d, q) \ {c.who},
                      Held(d, q) \cup ({c.who} \cap Ranked(d, q)))
         /\ c.do = "expel" /\ c.on = q =>
              Reroled(d, e, q, Ranked(d, q), Held(d, q) \ {c.who})
         /\ c.do = "delete" /\ c.on = q => e[q] = Nil
         /\ ~(c.do \in {"join", "raise", "lower", "expel", "delete"}
                /\ c.on = q) =>
              /\ Ranked(e, q) = Ranked(d, q) /\ Held(e, q) = Held(d, q)
              /\ e[q] = Nil <=> d[q] = Nil
<1> DEFINE p == c.on
           a == c.who
<1>1. /\ q \in Keys /\ \A b \in Accounts : b \in Keys /\ b # q
      /\ c.do \in {"join", "raise", "lower", "expel", "grant", "revoke"} =>
           p \in Places /\ a \in Accounts
      /\ c.do \in {"delete"} => p \in Places
  BY KeyKinds, CommandFields
<1>2. ASSUME NEW creators, NEW keys, Reroled(d, e, p, creators, keys), p # q
      PROVE  e[q] = d[q]
  BY <1>1, <1>2 DEF Reroled
<1>3. ASSUME NEW n, Recounted(d, e, n)
      PROVE  /\ Ranked(e, q) = Ranked(d, q) /\ Held(e, q) = Held(d, q)
             /\ e[q] = Nil <=> d[q] = Nil
  BY <1>1, <1>3 DEF Recounted, Ranked, Held
<1>4. e[q] = d[q] => /\ Ranked(e, q) = Ranked(d, q) /\ Held(e, q) = Held(d, q)
                     /\ e[q] = Nil <=> d[q] = Nil
  BY DEF Ranked, Held
<1> HIDE DEF p, a
<1>a. CASE /\ c.do = "join"
           /\ Reroled(d, e, p, Ranked(d, p),
                                Held(d, p) \cup ({a} \ Ranked(d, p)))
  BY <1>2, <1>4, <1>a DEF p, a
<1>b. CASE /\ c.do = "raise"
           /\ Reroled(d, e, p, Ranked(d, p) \cup ({a} \cap Held(d, p)),
                               Held(d, p) \ {a})
  BY <1>2, <1>4, <1>b DEF p, a
<1>c. CASE /\ c.do = "lower"
           /\ Reroled(d, e, p, Ranked(d, p) \ {a},
                               Held(d, p) \cup ({a} \cap Ranked(d, p)))
  BY <1>2, <1>4, <1>c DEF p, a
<1>d. CASE /\ c.do = "expel"
           /\ Reroled(d, e, p, Ranked(d, p), Held(d, p) \ {a})
  BY <1>2, <1>4, <1>d DEF p, a
<1>e. CASE /\ c.do \in {"grant", "revoke"}
           /\ \A k \in Keys : k # a => e[k] = d[k]
  <2>1. a \in Accounts
    BY <1>1, <1>e DEF a
  <2>2. e[q] = d[q]
    BY <1>1, <1>e, <2>1
  <2> QED
    BY <1>4, <1>e, <2>2
<1>f. CASE c.do \in {"count", "uncount"} /\ \E n : Recounted(d, e, n)
  BY <1>3, <1>f
<1>g. CASE c.do = "evict" /\ \A z \in Places : e[z] = d[z]
  BY <1>4, <1>g
<1>h. CASE /\ c.do = "delete"
           /\ \A k \in Keys : k # p => e[k] = d[k]
           /\ e[p] = Nil
  BY <1>1, <1>4, <1>h DEF p
<1> QED
  BY <1>a, <1>b, <1>c, <1>d, <1>e, <1>f, <1>g, <1>h DEF Does, p, a

(* Who comes to belong to a place joins it, who no longer does is expelled *)
(* or the place is deleted.                                                *)
LEMMA DoesBelong ==
  ASSUME NEW c \in Commands, NEW d, NEW e, Stores(d), Stores(e),
         Does(c, d, e), NEW q \in Places, NEW b
  PROVE  /\ b \in Belong(e, q) /\ b \notin Belong(d, q) =>
              c = Command("join", q, b)
         /\ b \in Belong(d, q) /\ b \notin Belong(e, q) =>
              c = Command("expel", q, b) \/ c = Command("delete", q, NoOne)
         /\ b \in Ranked(e, q) /\ b \notin Ranked(d, q) =>
              c = Command("raise", q, b)
         /\ c = Command("join", q, b) /\ d[q] # Nil => b \in Belong(e, q)
         /\ c = Command("lower", q, b) => b \notin Ranked(e, q)
         /\ c = Command("expel", q, b) /\ b \notin Ranked(d, q) =>
              b \notin Belong(e, q)
         /\ c = Command("delete", q, NoOne) => e[q] = Nil
         /\ d[q] # Nil /\ e[q] = Nil => c = Command("delete", q, NoOne)
         /\ d[q] = Nil => e[q] = Nil
<1>1. /\ c = Command(c.do, c.on, c.who)
      /\ c.do = "delete" => c.who = NoOne
  BY CommandIs
<1>2. \A do, on, who : c = Command(do, on, who) =>
        c.do = do /\ c.on = on /\ c.who = who
  BY Fields
<1>3. /\ d[q] = Nil => Ranked(d, q) = {} /\ Held(d, q) = {}
      /\ d[q] # Nil => Ranked(d, q) = d[q].creators /\ Held(d, q) = d[q].keys
      /\ e[q] = Nil => Ranked(e, q) = {} /\ Held(e, q) = {}
      /\ e[q] # Nil => Ranked(e, q) = e[q].creators /\ Held(e, q) = e[q].keys
  BY DEF Ranked, Held
<1>4. ASSUME NEW creators, NEW keys, Reroled(d, e, q, creators, keys)
      PROVE  /\ e[q] = Nil <=> d[q] = Nil
             /\ d[q] # Nil => Ranked(e, q) = creators /\ Held(e, q) = keys
  BY <1>3, <1>4 DEF Reroled
<1>a. CASE ~(c.do \in {"join", "raise", "lower", "expel", "delete"}
              /\ c.on = q)
  <2>1. /\ Ranked(e, q) = Ranked(d, q) /\ Held(e, q) = Held(d, q)
        /\ e[q] = Nil <=> d[q] = Nil
    BY <1>a, DoesRosters
  <2> QED
    BY <1>2, <1>a, <2>1 DEF Belong
<1>b. CASE c.do = "join" /\ c.on = q
  <2>1. Reroled(d, e, q, Ranked(d, q),
                      Held(d, q) \cup ({c.who} \ Ranked(d, q)))
    BY <1>b, DoesRosters
  <2> QED
    BY <1>1, <1>2, <1>3, <1>4, <1>b, <2>1 DEF Belong
<1>c. CASE c.do = "raise" /\ c.on = q
  <2>1. Reroled(d, e, q, Ranked(d, q) \cup ({c.who} \cap Held(d, q)),
                Held(d, q) \ {c.who})
    BY <1>c, DoesRosters
  <2> QED
    BY <1>1, <1>2, <1>3, <1>4, <1>c, <2>1 DEF Belong
<1>d. CASE c.do = "lower" /\ c.on = q
  <2>1. Reroled(d, e, q, Ranked(d, q) \ {c.who},
                Held(d, q) \cup ({c.who} \cap Ranked(d, q)))
    BY <1>d, DoesRosters
  <2> QED
    BY <1>1, <1>2, <1>3, <1>4, <1>d, <2>1 DEF Belong
<1>e. CASE c.do = "expel" /\ c.on = q
  <2>1. Reroled(d, e, q, Ranked(d, q), Held(d, q) \ {c.who})
    BY <1>e, DoesRosters
  <2> QED
    BY <1>1, <1>2, <1>3, <1>4, <1>e, <2>1 DEF Belong
<1>f. CASE c.do = "delete" /\ c.on = q
  <2>1. e[q] = Nil
    BY <1>f, DoesRosters
  <2> QED
    BY <1>1, <1>2, <1>3, <1>f, <2>1 DEF Belong
<1> QED
  BY <1>a, <1>b, <1>c, <1>d, <1>e, <1>f

(* An account's list gets a place that is granted, and loses one that is   *)
(* revoked or whose members are evicted.                                   *)
LEMMA DoesAccess ==
  ASSUME NEW c \in Commands, NEW d, NEW e, Stores(d), Stores(e),
         Does(c, d, e), NEW q \in Places, NEW b \in Accounts
  PROVE  /\ q \in e[b].access /\ q \notin d[b].access =>
              c = Command("grant", q, b)
         /\ q \in d[b].access /\ q \notin e[b].access =>
              \/ c = Command("revoke", q, b)
              \/ c = Command("evict", q, NoOne) /\ b \in Belong(d, q)
         /\ c = Command("grant", q, b) => q \in e[b].access
         /\ c = Command("revoke", q, b) => q \notin e[b].access
         /\ c = Command("evict", q, NoOne) /\ q \in e[b].access =>
              q \in d[b].access /\ b \notin Belong(d, q)
<1> DEFINE p == c.on
           a == c.who
<1>1. /\ c = Command(c.do, c.on, c.who)
      /\ c.do = "evict" => c.who = NoOne
  BY CommandIs
<1>2. \A do, on, who : c = Command(do, on, who) =>
        c.do = do /\ c.on = on /\ c.who = who
  BY Fields
<1>3. /\ b \in Keys /\ \A z \in Places : b # z
      /\ Grand \in Places
      /\ c.do \in {"join", "raise", "lower", "expel", "delete"} => p \in Places
  BY KeyKinds, CommandFields
<1>4. ASSUME NEW creators, NEW keys, Reroled(d, e, p, creators, keys),
             p \in Places
      PROVE  e[b] = d[b]
  BY <1>3, <1>4 DEF Reroled
<1>5. ASSUME NEW n, Recounted(d, e, n)
      PROVE  e[b] = d[b]
  BY <1>3, <1>5 DEF Recounted
<1> HIDE DEF p, a
<1>a. CASE c.do \in {"join", "raise", "lower", "expel"}
  <2>1. \E creators, keys : Reroled(d, e, p, creators, keys)
    BY <1>a DEF Does, p
  <2>2. e[b] = d[b]
    BY <1>3, <1>4, <1>a, <2>1
  <2> QED
    BY <1>2, <1>a, <2>2
<1>b. CASE c.do = "grant"
  <2>1. /\ \A k \in Keys : k # a => e[k] = d[k]
        /\ e[a].access = d[a].access \cup {p}
    BY <1>b DEF Does, p, a
  <2> QED
    BY <1>1, <1>2, <1>3, <1>b, <2>1 DEF p, a
<1>c. CASE c.do = "revoke"
  <2>1. /\ \A k \in Keys : k # a => e[k] = d[k]
        /\ e[a].access = d[a].access \ {p}
    BY <1>c DEF Does, p, a
  <2> QED
    BY <1>1, <1>2, <1>3, <1>c, <2>1 DEF p, a
<1>d. CASE c.do \in {"count", "uncount"}
  <2>1. \E n : Recounted(d, e, n)
    BY <1>d DEF Does
  <2> QED
    BY <1>2, <1>5, <1>d, <2>1
<1>e. CASE c.do = "evict"
  <2>1. e[b].access = IF b \in Belong(d, p) THEN d[b].access \ {p}
                                            ELSE d[b].access
    BY <1>e DEF Does, p
  <2> QED
    BY <1>1, <1>2, <1>e, <2>1 DEF p
<1>f. CASE c.do = "delete"
  <2>1. e[b] = d[b]
    BY <1>3, <1>f DEF Does, p
  <2> QED
    BY <1>2, <1>f, <2>1
<1> QED
  BY <1>a, <1>b, <1>c, <1>d, <1>e, <1>f, DoesUpdates DEF Updating

(* The children are counted by `count' and `uncount' alone.                *)
LEMMA DoesChildren ==
  ASSUME NEW c \in Commands, NEW d, NEW e, Stores(d), Stores(e),
         Does(c, d, e), e[Grand] # Nil
  PROVE  /\ d[Grand] # Nil
         /\ e[Grand].nChildren = d[Grand].nChildren
              + (IF c.do = "count" THEN 1
                 ELSE IF c.do = "uncount" THEN -1 ELSE 0)
         /\ d[Grand].nChildren \in Int
<1> DEFINE p == c.on
<1>1. /\ Grand \in Places /\ Grand \in Keys
      /\ \A b \in Accounts : b # Grand
      /\ c.do \in {"grant", "revoke"} => c.who \in Accounts
  BY KeyKinds, CommandFields
<1>2. d[Grand] # Nil
  BY <1>1, DoesBelong
<1>3. d[Grand].nChildren \in Int
  BY <1>1, <1>2 DEF Stores, IsStore, PlaceDocs
<1>4. e[Grand] = d[Grand] => e[Grand].nChildren = d[Grand].nChildren
  OBVIOUS
<1>5. ASSUME NEW creators, NEW keys, Reroled(d, e, p, creators, keys)
      PROVE  e[Grand].nChildren = d[Grand].nChildren
  <2>1. CASE p = Grand
    BY <1>2, <1>5, <2>1 DEF Reroled
  <2>2. CASE p # Grand
    BY <1>1, <1>5, <2>2 DEF Reroled
  <2> QED
    BY <2>1, <2>2
<1> HIDE DEF p
<1>a. CASE c.do \in {"join", "raise", "lower", "expel"}
  <2>1. \E creators, keys : Reroled(d, e, p, creators, keys)
    BY <1>a DEF Does, p
  <2> QED
    BY <1>2, <1>3, <1>5, <1>a, <2>1
<1>b. CASE c.do \in {"grant", "revoke"}
  <2>1. \A k \in Keys : k # c.who => e[k] = d[k]
    BY <1>b DEF Does
  <2> QED
    BY <1>1, <1>2, <1>3, <1>4, <1>b, <2>1
<1>c. CASE c.do = "count"
  <2>1. Recounted(d, e, 1)
    BY <1>c DEF Does
  <2> QED
    BY <1>2, <1>3, <1>c, <2>1 DEF Recounted
<1>d. CASE c.do = "uncount"
  <2>1. Recounted(d, e, -1)
    BY <1>d DEF Does
  <2> QED
    BY <1>2, <1>3, <1>d, <2>1 DEF Recounted
<1>e. CASE c.do = "evict"
  BY <1>1, <1>2, <1>3, <1>e DEF Does
<1>f. CASE c.do = "delete"
  <2>1. p # Grand
    BY <1>f DEF Does, p
  <2> QED
    BY <1>1, <1>2, <1>3, <1>4, <1>f, <2>1 DEF Does, p
<1> QED
  BY <1>a, <1>b, <1>c, <1>d, <1>e, <1>f, DoesUpdates DEF Updating

-----------------------------------------------------------------------------
(* The order of a script.                                                  *)

LEMMA CourseHead ==
  ASSUME NEW d, NEW r, NEW s, Course(d, r, s), s # <<>>
  PROVE  /\ Head(s) \in Commands /\ Tail(s) \in Scripts
         /\ Head(s).do \in Reading \cup Running(r.op)
         /\ Head(s).do \in {"count", "uncount", "dismiss"} =>
              Head(s).on = Grand
         /\ Tail(s) # <<>> => Head(Tail(s)).do \notin {"count", "uncount"}
         /\ Head(s).do = "expel" =>
              Has(Tail(s), Command("revoke", Head(s).on, Head(s).who))
         /\ Head(s).do = "join" =>
              Has(Tail(s), Command("grant", Head(s).on, Head(s).who))
<1> DEFINE t == Tail(s)
<1>1. /\ s \in Scripts /\ Len(s) \in Nat /\ Len(s) > 0 /\ 1 \in 1..Len(s)
      /\ Head(s) = s[1] /\ s[1] \in Commands
      /\ t \in Scripts /\ Len(t) = Len(s) - 1
      /\ \A i \in 1..Len(t) : t[i] = s[i + 1]
  BY ScriptAt DEF Course
<1>2. t # <<>> => Len(t) > 0 /\ Head(t) = t[1]
  BY <1>1, ScriptAt
<1>3. ShapedAt(s, 1) /\ s[1].do \in Reading \cup Running(r.op)
  BY <1>1 DEF Course, Shaped, InCourse
<1> HIDE DEF t
<1>4. t # <<>> => Head(t).do \notin {"count", "uncount"}
  <2> SUFFICES ASSUME t # <<>> PROVE Head(t).do \notin {"count", "uncount"}
    OBVIOUS
  <2>1. 2 \in 1..Len(s) /\ t[1] = s[2]
    BY <1>1, <1>2
  <2>2. ShapedAt(s, 2)
    BY <2>1 DEF Course, Shaped
  <2> QED
    BY <1>2, <2>1, <2>2 DEF ShapedAt
<1>5. ASSUME NEW c, NEW j \in (1 + 1)..Len(s), s[j] = c
      PROVE  Has(t, c)
  <2>1. j - 1 \in 1..Len(t) /\ t[j - 1] = c
    BY <1>1, <1>5
  <2> QED
    BY <2>1 DEF Has
<1> QED
  BY <1>1, <1>3, <1>4, <1>5 DEF ShapedAt, t

(* Whose command it is.                                                    *)
LEMMA CourseHas ==
  ASSUME NEW d, NEW r, NEW s, Course(d, r, s),
         NEW do, NEW on, NEW who, Has(s, Command(do, on, who))
  PROVE  /\ do \in Reading \cup Running(r.op)
         /\ Command(do, on, who) \in Commands
<1>1. PICK i \in 1..Len(s) : s[i] = Command(do, on, who)
  BY DEF Has
<1>2. s[i].do = do /\ s[i] \in Commands
  BY <1>1, Fields, ScriptAt DEF Course
<1> QED
  BY <1>1, <1>2 DEF Course, InCourse

LEMMA FinalsTail ==
  ASSUME NEW s \in Scripts, s # <<>>, Finals(s)
  PROVE  /\ Finals(Tail(s))
         /\ Head(s).do \in Final => Tail(s) = <<>>
<1> DEFINE t == Tail(s)
<1>1. /\ Len(s) \in Nat /\ Len(s) > 0 /\ Head(s) = s[1] /\ 1 \in 1..Len(s)
      /\ t \in Scripts /\ Len(t) = Len(s) - 1
      /\ \A i \in 1..Len(t) : t[i] = s[i + 1]
  BY ScriptAt
<1>2. t # <<>> => Len(t) > 0
  BY <1>1, ScriptAt
<1> HIDE DEF t
<1>3. ASSUME NEW i \in 1..Len(t), t[i].do \in Final
      PROVE  i = Len(t)
  <2>1. i + 1 \in 1..Len(s) /\ s[i + 1].do \in Final
    BY <1>1, <1>3
  <2>2. i + 1 = Len(s)
    BY <2>1 DEF Finals
  <2> QED
    BY <1>1, <2>2
<1>4. Head(s).do \in Final => Len(s) = 1
  BY <1>1 DEF Finals
<1>5. Len(s) = 1 => t = <<>>
  BY <1>1, <1>2
<1>6. Finals(t)
  BY <1>3 DEF Finals
<1> QED
  BY <1>4, <1>5, <1>6 DEF t

LEMMA FinalsCat ==
  ASSUME NEW s \in Scripts, NEW t \in Scripts, Finals(t),
         \A i \in 1..Len(s) : s[i].do \notin Final
  PROVE  Finals(s \o t)
<1> DEFINE u == s \o t
<1>1. /\ Len(s) \in Nat /\ Len(t) \in Nat /\ Len(u) = Len(s) + Len(t)
      /\ \A i \in 1..Len(s) : u[i] = s[i]
      /\ \A i \in 1..Len(t) : u[Len(s) + i] = t[i]
  BY CatAt, ScriptAt
<1> HIDE DEF u
<1> SUFFICES ASSUME NEW i \in 1..Len(u), u[i].do \in Final
             PROVE  i = Len(u)
  BY DEF Finals, u
<1>2. i \notin 1..Len(s)
  BY <1>1
<1> DEFINE k == i - Len(s)
<1>3. k \in 1..Len(t) /\ i = Len(s) + k
  BY <1>1, <1>2
<1>4. t[k].do \in Final
  BY <1>1, <1>3
<1>5. k = Len(t)
  BY <1>3, <1>4 DEF Finals
<1> QED
  BY <1>1, <1>3, <1>5

(* A script one of whose commands ends it.                                 *)
LEMMA FinalsShort ==
  ASSUME NEW c, NEW d
  PROVE  /\ Finals(<<>>) /\ Finals(<<c>>)
         /\ c.do \notin Final => Finals(<<c, d>>)
<1> DEFINE s == <<c>>
           t == <<c, d>>
<1>1. Len(s) = 1 /\ Len(t) = 2 /\ t[1] = c /\ t[2] = d
  OBVIOUS
<1>2. 1..1 = {1} /\ 1..2 = {1, 2}
  OBVIOUS
<1> HIDE DEF s, t
<1>3. Finals(s) /\ (c.do \notin Final => Finals(t))
  BY <1>1, <1>2 DEF Finals
<1>4. Finals(<<>>)
  BY DEF Finals
<1> QED
  BY <1>3, <1>4 DEF s, t

LEMMA JoiningLoop ==
  ASSUME NEW r \in Requests, NEW c \in PlaceDocs
  PROVE  Joining(r, c) \in Loops
<1>1. r.list \in Seq(Accounts) /\ r.place \in Places
  BY RequestFields
<1>2. KeyholderLimit \in Int
  BY PlacesAssumption
<1>3. KeyholderLimit - c.nKeys \in Int
  BY <1>2 DEF PlaceDocs
<1> QED
  BY <1>1, <1>3 DEF Joining, Loops

-----------------------------------------------------------------------------
(* What is decided.                                                        *)

LEMMA OnlyHas ==
  ASSUME NEW s, NEW dos, Only(s, dos), NEW do, NEW on, NEW who,
         Has(s, Command(do, on, who))
  PROVE  do \in dos
<1>1. PICK i \in 1..Len(s) : s[i] = Command(do, on, who)
  BY DEF Has
<1> QED
  BY <1>1, Fields DEF Only

LEMMA OnlyShort ==
  /\ \A dos : Only(<<>>, dos)
  /\ \A c \in Commands : \A dos : c.do \in dos => Only(<<c>>, dos)
  /\ \A c, d \in Commands : \A dos :
       c.do \in dos /\ d.do \in dos => Only(<<c, d>>, dos)
<1> SUFFICES ASSUME NEW c \in Commands, NEW d \in Commands, NEW dos
             PROVE  /\ Only(<<>>, dos)
                    /\ c.do \in dos => Only(<<c>>, dos)
                    /\ c.do \in dos /\ d.do \in dos => Only(<<c, d>>, dos)
  <2>1. Halt \in Commands
    BY PlainCommands
  <2> QED
    BY <2>1
<1> DEFINE s == <<c>>
           t == <<c, d>>
<1>1. Len(s) = 1 /\ s[1] = c /\ Len(t) = 2 /\ t[1] = c /\ t[2] = d
  OBVIOUS
<1>2. 1..1 = {1} /\ 1..2 = {1, 2}
  OBVIOUS
<1>3. s \in Scripts /\ t \in Scripts /\ <<>> \in Scripts
  BY ShortScripts
<1> HIDE DEF s, t
<1>4. /\ c.do \in dos => Only(s, dos)
      /\ c.do \in dos /\ d.do \in dos => Only(t, dos)
  BY <1>1, <1>2, <1>3 DEF Only
<1>5. Only(<<>>, dos)
  BY <1>3 DEF Only
<1> QED
  BY <1>4, <1>5 DEF s, t

LEMMA OnlyCat ==
  ASSUME NEW s, NEW t, NEW dos, Only(s, dos), Only(t, dos)
  PROVE  Only(s \o t, dos)
<1> DEFINE u == s \o t
<1>1. /\ Len(s) \in Nat /\ Len(t) \in Nat /\ Len(u) = Len(s) + Len(t)
      /\ u \in Scripts
      /\ \A i \in 1..Len(s) : u[i] = s[i]
      /\ \A i \in 1..Len(t) : u[Len(s) + i] = t[i]
  BY CatAt, ScriptAt DEF Only
<1> HIDE DEF u
<1>2. ASSUME NEW i \in 1..Len(u)
      PROVE  u[i].do \in dos
  <2>1. CASE i \in 1..Len(s)
    BY <1>1, <2>1 DEF Only
  <2>2. CASE i \notin 1..Len(s)
    <3>1. i - Len(s) \in 1..Len(t) /\ Len(s) + (i - Len(s)) = i
      BY <1>1, <2>2
    <3>2. u[i] = t[i - Len(s)]
      BY <1>1, <3>1
    <3> QED
      BY <3>1, <3>2 DEF Only
  <2> QED
    BY <2>1, <2>2
<1> QED
  BY <1>1, <1>2 DEF Only, u

LEMMA OnlyFinals ==
  ASSUME NEW s, NEW dos, Only(s, dos), dos \cap Final = {}
  PROVE  Finals(s) /\ \A i \in 1..Len(s) : s[i].do \notin Final
  BY DEF Only, Finals

LEMMA OnlyUnits ==
  ASSUME NEW p \in Places, NEW a \in Accounts
  PROVE  /\ Only(AddKeyHolder(p, a), {"get", "join", "grant", "del"})
         /\ Only(Promote(p, a), {"raise", "del"})
         /\ Only(Demote(p, a), {"lower", "del"})
         /\ Only(RemoveKeyHolder(p, a), Removing)
         /\ \A c : Only(RemoveByRole(p, a, c), Removing)
         /\ \A S \in SUBSET Subs : Only(Tour(S, a), {"tour"})
         /\ \A l \in Loops : Only(AddMembers(l, a), {"admit"})
<1>1. \A s, dos, more : Makes(s, dos) /\ dos \subseteq more => Only(s, more)
  BY DEF Makes, Only
<1>2. /\ {"get", "expel", "revoke", "del"} \subseteq Removing
      /\ Removing \subseteq {"get", "lower", "expel", "revoke", "del"}
  BY DEF Removing
<1> QED
  BY <1>1, <1>2, MakesAddKeyHolder, MakesPromote, MakesRemoveKeyHolder,
     MakesRole, MakesLoops DEF Removing

LEMMA ServesTyped ==
  ASSUME NEW d, NEW r \in Requests, Stores(d), NEW calls, Serves(d, r, calls)
  PROVE  Only(calls, Called) /\ Finals(calls)
<1> DEFINE p == r.place
           a == r.who
           b == Head(r.list)
           c == d[Subject(r)]
<1>1. /\ p \in Places /\ a \in Accounts /\ Subject(r) \in Places
      /\ r.op \in AboutOne => b \in Accounts
      /\ r.op # "add_place" => Subject(r) = p
  BY RequestFields DEF Subject
<1>2. c \in PlaceDocs
  BY <1>1 DEF Serves, Stores, IsStore
<1>3. Joining(r, c) \in Loops
  BY <1>2, JoiningLoop
<1>4. Grand \in Keys /\ Grand \in Places /\ p \in Keys
      /\ \A x \in Accounts : x \in Keys
  BY <1>1, KeyKinds
<1>5. ASSUME NEW k \in Keys, NEW x \in Commands,
             x.do \in {"enlist", "dismiss", "dissolve", "insert"}
      PROVE  Only(<<Get(k), x>>, Called) /\ Finals(<<Get(k), x>>)
  <2>1. Get(k) \in Commands /\ Get(k).do = "get"
    BY PlainCommands, Fields
  <2>2. {"get", x.do} \subseteq Called /\ "get" \notin Final
    BY <1>5 DEF Called, Final
  <2> QED
    BY <2>1, <2>2, OnlyShort, FinalsShort
<1>6. \A s, dos : Only(s, dos) /\ dos \subseteq Called => Only(s, Called)
  BY DEF Only
<1>7. /\ {"admit"} \subseteq Called
      /\ {"raise", "del"} \subseteq Called /\ {"raise", "del"} \cap Final = {}
      /\ {"lower", "del"} \subseteq Called /\ {"lower", "del"} \cap Final = {}
      /\ Removing \subseteq Called /\ Removing \cap Final = {}
      /\ {"tour"} \cup Removing \subseteq Called
      /\ ({"tour"} \cup Removing) \cap Final = {}
  BY DEF Called, Final, Removing
<1> HIDE DEF p, a, b, c
<1>a. CASE r.op = "invite_member"
  <2>1. calls = AddMembers(Joining(r, c), a)
    BY <1>a DEF Serves, c, a
  <2>2. Only(calls, {"admit"})
    BY <1>1, <1>3, <2>1, OnlyUnits
  <2>3. Finals(calls)
    BY <2>1, FinalsShort DEF AddMembers
  <2> QED
    BY <1>6, <1>7, <2>2, <2>3
<1>b. CASE r.op = "add_member"
  <2>1. calls = <<Get(Grand), Command("enlist", Joining(r, c), a)>>
    BY <1>b DEF Serves, c, a
  <2>2. /\ Command("enlist", Joining(r, c), a) \in Commands
        /\ Command("enlist", Joining(r, c), a).do = "enlist"
    BY <1>1, <1>3, LoopCommands, Fields
  <2> QED
    BY <1>4, <1>5, <2>1, <2>2
<1>c. CASE r.op = "promote_member"
  <2>1. calls = Promote(p, b) /\ b \in Accounts
    BY <1>1, <1>c DEF Serves, p, b, AboutOne
  <2> QED
    BY <1>1, <1>6, <1>7, <2>1, OnlyUnits, OnlyFinals
<1>d. CASE r.op = "demote_member"
  <2>1. calls = Demote(p, b) /\ b \in Accounts
    BY <1>1, <1>d DEF Serves, p, b, AboutOne
  <2> QED
    BY <1>1, <1>6, <1>7, <2>1, OnlyUnits, OnlyFinals
<1>e. CASE r.op = "leave"
  <2>1. PICK S \in SUBSET Subs : calls = Tour(S, a) \o RemoveByRole(p, a, c)
    BY <1>1, <1>e DEF Serves, p, a, c
  <2>2. Only(Tour(S, a), {"tour"}) /\ Only(RemoveByRole(p, a, c), Removing)
    BY <1>1, OnlyUnits
  <2>3. /\ Only(Tour(S, a), {"tour"} \cup Removing)
        /\ Only(RemoveByRole(p, a, c), {"tour"} \cup Removing)
    BY <2>2 DEF Only
  <2>4. Only(calls, {"tour"} \cup Removing)
    BY <2>1, <2>3, OnlyCat
  <2> QED
    BY <1>6, <1>7, <2>4, OnlyFinals
<1>f. CASE r.op = "remove_member" /\ p = Grand
  <2>1. calls = <<Get(b), Command("dismiss", Grand, b)>> /\ b \in Accounts
    BY <1>1, <1>f DEF Serves, p, b, AboutOne
  <2>2. /\ Command("dismiss", Grand, b) \in Commands
        /\ Command("dismiss", Grand, b).do = "dismiss"
    BY <1>4, <2>1, PlainCommands, Fields
  <2> QED
    BY <1>4, <1>5, <2>1, <2>2
<1>g. CASE r.op = "remove_member" /\ p # Grand
  <2>1. calls = RemoveByRole(p, b, c) /\ b \in Accounts
    BY <1>1, <1>g DEF Serves, p, b, c, AboutOne
  <2> QED
    BY <1>1, <1>6, <1>7, <2>1, OnlyUnits, OnlyFinals
<1>h. CASE r.op = "remove"
  <2>1. calls = <<Get(p), Command("dissolve", p, NoOne)>>
    BY <1>h DEF Serves, p
  <2>2. /\ Command("dissolve", p, NoOne) \in Commands
        /\ Command("dissolve", p, NoOne).do = "dissolve"
    BY <1>1, PlainCommands, Fields
  <2> QED
    BY <1>4, <1>5, <2>1, <2>2
<1>i. CASE r.op = "add_place"
  <2>1. calls = <<Get(Grand), Command("insert", p, a)>>
    BY <1>i DEF Serves, p, a
  <2>2. /\ Command("insert", p, a) \in Commands
        /\ Command("insert", p, a).do = "insert"
    BY <1>1, PlainCommands, Fields
  <2> QED
    BY <1>4, <1>5, <2>1, <2>2
<1>10. r.op \in Ops
  BY RequestFields
<1> QED
  BY <1>10, <1>a, <1>b, <1>c, <1>d, <1>e, <1>f, <1>g, <1>h, <1>i DEF Ops

(* The manager's commands are called by the loop over new members, by      *)
(* Remove and by CreateLockedPlace.                                        *)
LEMMA DecidesTyped ==
  ASSUME NEW d, NEW r \in Requests, Stores(d), NEW c \in Commands, NEW calls,
         Decides(d, r, c, calls)
  PROVE  /\ calls \in Scripts /\ Finals(calls)
         /\ c.do \in Deciding
         /\ c.do \notin {"admit", "dissolve"} => Only(calls, Called)
         /\ c.do = "admit" =>
              Only(calls, {"get", "join", "grant", "del", "admit"})
         /\ c.do = "dissolve" =>
              Only(calls, {"get", "del", "uncount", "evict", "delete"})
<1> DEFINE on == c.on
           a == c.who
<1>1. /\ c.do \in {"dismiss", "visit", "insert"} =>
           on \in Places /\ a \in Accounts
      /\ c.do = "dissolve" => on \in Places
      /\ c.do = "tour" => on \in SUBSET Subs /\ a \in Accounts
      /\ c.do \in {"enlist", "admit"} => on \in Loops /\ a \in Accounts
      /\ c.do = "admit" => on.list # <<>>
  BY CommandFields
<1>2. Grand \in Keys /\ Grand \in Places /\ \A p \in Places : p \in Keys
  BY KeyKinds
<1>3. \A s, dos, more : Only(s, dos) /\ dos \subseteq more => Only(s, more)
  BY DEF Only
<1>4. /\ {"admit"} \subseteq Called
      /\ Removing \subseteq Called /\ Removing \cap Final = {}
      /\ {"tour"} \subseteq Called
      /\ {"tour"} \cup Removing \subseteq Called
      /\ ({"tour"} \cup Removing) \cap Final = {}
      /\ {"get", "use"} \subseteq Called /\ "del" \in Called
  BY DEF Called, Final, Removing
<1>5. Get(Grand) \in Commands /\ Use(Grand) \in Commands
      /\ \A k \in Keys : Del(k) \in Commands /\ Del(k).do = "del"
  BY <1>2, PlainCommands, Fields
<1> HIDE DEF on, a
<1>a. CASE c.do = "serve"
  <2>1. CASE calls \in {<<>>, <<Get(Grand), Use(Grand)>>}
    <3>1. Get(Grand).do = "get" /\ Use(Grand).do = "use" /\ "get" \notin Final
      BY Fields DEF Final
    <3>2. /\ Only(<<Get(Grand), Use(Grand)>>, Called)
          /\ Only(<<>>, Called)
      BY <1>4, <1>5, <3>1, OnlyShort
    <3>3. Finals(<<Get(Grand), Use(Grand)>>) /\ Finals(<<>>)
      BY <3>1, FinalsShort
    <3>4. Only(calls, Called) /\ Finals(calls)
      BY <2>1, <3>2, <3>3
    <3> QED
      BY <1>a, <3>4 DEF Only, Deciding
  <2>2. CASE Serves(d, r, calls)
    <3>1. Only(calls, Called) /\ Finals(calls)
      BY <2>2, ServesTyped
    <3> QED
      BY <1>a, <3>1 DEF Only, Deciding
  <2> QED
    BY <1>a, <2>1, <2>2 DEF Decides
<1>b. CASE c.do = "enlist"
  <2>1. calls =
           AddMembers([on EXCEPT !.eligible = @ \cap Members(d[Grand])], a)
    BY <1>b DEF Decides, on, a
  <2>2. [on EXCEPT !.eligible = @ \cap Members(d[Grand])] \in Loops
    BY <1>1, <1>b DEF Loops
  <2>3. Only(calls, {"admit"})
    BY <1>1, <1>2, <1>b, <2>1, <2>2, OnlyUnits
  <2>4. Finals(calls)
    BY <2>1, FinalsShort DEF AddMembers
  <2>5. Only(calls, Called)
    BY <1>3, <1>4, <2>3
  <2> QED
    BY <1>b, <2>4, <2>5 DEF Only, Deciding
<1>c. CASE c.do = "admit"
  <2> DEFINE rest(n) == [on EXCEPT !.list = Tail(@), !.room = @ - n]
             more == [on EXCEPT !.list = Tail(@)]
             x == Head(on.list)
             n == IF r.admin THEN 0 ELSE 1
             dos == {"get", "join", "grant", "del", "admit"}
  <2>1. /\ on \in Loops /\ a \in Accounts /\ on.place \in Places
        /\ on.list \in Seq(Accounts) /\ on.room \in Int
        /\ x \in Accounts /\ Tail(on.list) \in Seq(Accounts)
    <3>1. /\ on \in Loops /\ a \in Accounts /\ on.list # <<>>
      BY <1>1, <1>c
    <3>2. on.place \in Places /\ on.list \in Seq(Accounts) /\ on.room \in Int
      BY <3>1 DEF Loops
    <3> QED
      BY <3>1, <3>2, HeadTailProperties
  <2>2. more \in Loops
    BY <2>1 DEF Loops
  <2>3. on.room - n \in Int
    BY <2>1
  <2>4. rest(n) \in Loops
    <3> HIDE DEF n
    <3> QED
      BY <2>1, <2>3 DEF Loops
  <2> HIDE DEF n
  <2>5. /\ Only(AddMembers(more, a), dos) /\ Only(AddMembers(rest(n), a), dos)
        /\ Only(AddKeyHolder(on.place, x), dos)
        /\ Only(<<Del(x)>>, dos)
    <3>1. /\ Only(AddMembers(more, a), {"admit"})
          /\ Only(AddMembers(rest(n), a), {"admit"})
          /\ Only(AddKeyHolder(on.place, x), {"get", "join", "grant", "del"})
      BY <2>1, <2>2, <2>4, OnlyUnits
    <3>2. x \in Keys
      BY <2>1, KeyKinds
    <3>3. Only(<<Del(x)>>, dos)
      BY <1>5, <3>2, OnlyShort
    <3> QED
      BY <1>3, <3>1, <3>3
  <2>6. /\ Finals(AddMembers(more, a)) /\ Finals(AddMembers(rest(n), a))
    BY FinalsShort DEF AddMembers
  <2>7. \/ calls = AddMembers(more, a)
        \/ calls = (AddKeyHolder(on.place, x) \o <<Del(x)>>)
                     \o AddMembers(rest(n), a)
    BY <1>c DEF Decides, on, a, n
  <2> HIDE DEF more, rest, x, dos
  <2>8. CASE calls = AddMembers(more, a)
    BY <1>c, <2>5, <2>6, <2>8 DEF Only, Deciding, dos
  <2>9. CASE calls = (AddKeyHolder(on.place, x) \o <<Del(x)>>)
                       \o AddMembers(rest(n), a)
    <3> DEFINE u == AddKeyHolder(on.place, x) \o <<Del(x)>>
               v == AddMembers(rest(n), a)
    <3>1. Only(u, dos \ {"admit"})
      <4>1. /\ Only(AddKeyHolder(on.place, x), dos \ {"admit"})
            /\ Only(<<Del(x)>>, dos \ {"admit"})
        <5>1. Only(AddKeyHolder(on.place, x), {"get", "join", "grant", "del"})
          BY <2>1, OnlyUnits DEF x
        <5>2. x \in Keys
          BY <2>1, KeyKinds DEF x
        <5>3. Only(<<Del(x)>>, dos \ {"admit"})
          BY <1>5, <5>2, OnlyShort DEF dos
        <5> QED
          BY <1>3, <5>1, <5>3 DEF dos
      <4> QED
        BY <4>1, OnlyCat
    <3>2. Only(v, dos)
      BY <2>5
    <3> HIDE DEF u, v
    <3>3. (dos \ {"admit"}) \cap Final = {}
      BY DEF dos, Final
    <3>4. Finals(u \o v)
      BY <2>6, <3>1, <3>2, <3>3, OnlyFinals, FinalsCat DEF Only, v
    <3>5. Only(u, dos)
      BY <1>3, <3>1
    <3>6. Only(u \o v, dos)
      BY <3>2, <3>5, OnlyCat
    <3> QED
      BY <1>c, <2>9, <3>4, <3>6 DEF Only, Deciding, dos, u, v
  <2> QED
    BY <2>7, <2>8, <2>9
<1>d. CASE c.do = "dismiss"
  <2>1. PICK S \in SUBSET Subs :
          calls = Tour(S, a) \o RemoveByRole(Grand, a, d[Grand])
    BY <1>d DEF Decides, on, a
  <2>2. /\ Only(Tour(S, a), {"tour"})
        /\ Only(RemoveByRole(Grand, a, d[Grand]), Removing)
    BY <1>1, <1>2, <1>d, OnlyUnits
  <2>3. /\ Only(Tour(S, a), {"tour"} \cup Removing)
        /\ Only(RemoveByRole(Grand, a, d[Grand]), {"tour"} \cup Removing)
    BY <2>2 DEF Only
  <2>4. Only(calls, {"tour"} \cup Removing)
    BY <2>1, <2>3, OnlyCat
  <2>5. Finals(calls) /\ Only(calls, Called)
    BY <1>3, <1>4, <2>4, OnlyFinals
  <2> QED
    BY <1>d, <2>5 DEF Only, Deciding
<1>e. CASE c.do = "tour"
  <2>1. PICK q \in on : calls = <<Get(q), Command("visit", q, a)>>
                                  \o Tour(on \ {q}, a)
    BY <1>e DEF Decides, on, a
  <2> DEFINE u == <<Get(q), Command("visit", q, a)>>
             v == Tour(on \ {q}, a)
             dos == {"get", "visit", "tour"}
  <2>2. q \in Places /\ q \in Keys /\ a \in Accounts /\ on \ {q} \in SUBSET Subs
    BY <1>1, <1>2, <1>e, <2>1 DEF Places
  <2>3. /\ Get(q) \in Commands /\ Command("visit", q, a) \in Commands
        /\ Get(q).do = "get" /\ Command("visit", q, a).do = "visit"
    BY <2>2, PlainCommands, Fields
  <2>4. Only(u, dos)
    BY <2>3, OnlyShort
  <2>5. Only(v, dos)
    BY <1>3, <2>2, OnlyUnits
  <2> HIDE DEF u, v
  <2>6. Only(u \o v, dos)
    BY <2>4, <2>5, OnlyCat
  <2>7. dos \cap Final = {} /\ dos \subseteq Called
    BY DEF Final, Called
  <2> HIDE DEF dos
  <2>8. Finals(u \o v) /\ Only(u \o v, Called)
    BY <1>3, <2>6, <2>7, OnlyFinals
  <2> QED
    BY <1>e, <2>1, <2>8 DEF Only, Deciding, u, v
<1>f. CASE c.do = "visit"
  <2>1. \/ calls = <<>> \/ calls = RemoveByRole(on, a, d[on])
        \/ calls = RemoveKeyHolder(on, a)
    BY <1>f DEF Decides, on, a
  <2>2. Only(calls, Removing)
    BY <1>1, <1>f, <1>5, <2>1, OnlyUnits, OnlyShort
  <2>3. Finals(calls) /\ Only(calls, Called)
    BY <1>3, <1>4, <2>2, OnlyFinals
  <2> QED
    BY <1>f, <2>3 DEF Only, Deciding
<1>g. CASE c.do = "dissolve"
  <2> DEFINE dos == {"get", "del", "uncount", "evict", "delete"}
  <2>1. on \in Places /\ on \in Keys
    BY <1>1, <1>2, <1>g
  <2>2. calls = <<Del(on)>> \/ calls = Removal(on)
    BY <1>g DEF Decides, on
  <2>3. Only(<<Del(on)>>, dos)
    BY <1>5, <2>1, OnlyShort
  <2>4. Only(Removal(on), dos)
    <3>1. Removal(on) \in Scripts
      BY <2>1, DoesRemoval
    <3>2. \A x : Has(Removal(on), x) =>
            x \in {Command("uncount", Grand, NoOne), Get(on),
                   Command("evict", on, NoOne),
                   Command("delete", on, NoOne), Del(Grand), Del(on)}
      BY <2>1, DoesRemoval
    <3>3. \A x : Has(Removal(on), x) => x.do \in dos
      BY <3>2, Fields
    <3> QED
      BY <3>1, <3>3 DEF Only, Has
  <2>5. dos \cap Final = {}
    BY DEF Final
  <2> HIDE DEF dos
  <2>6. Only(calls, dos) /\ Finals(calls)
    BY <2>2, <2>3, <2>4, <2>5, OnlyFinals
  <2> QED
    BY <1>g, <2>6 DEF Only, Deciding, dos
<1>h. CASE c.do = "insert"
  <2>1. calls = <<Del(Grand)>>
    BY <1>h DEF Decides
  <2>2. Only(calls, Called) /\ Finals(calls)
    BY <1>2, <1>4, <1>5, <2>1, OnlyShort, FinalsShort
  <2> QED
    BY <1>h, <2>2 DEF Only, Deciding
<1>10. c.do \in Deciding
  BY DEF Decides, Deciding
<1> QED
  BY <1>10, <1>a, <1>b, <1>c, <1>d, <1>e, <1>f, <1>g, <1>h DEF Deciding

-----------------------------------------------------------------------------
(* Scripts stay in order.                                                  *)

LEMMA StepCases ==
  ASSUME NEW d, NEW r, NEW s, NEW e, NEW t, Course(d, r, s),
         Ordered(s), Steps(d, r, s, e, t)
  PROVE  StepCase(d, r, s, e, t)
<1> DEFINE c == Head(s)
           rest == Tail(s)
<1>1. ASSUME s # <<>>
      PROVE  /\ c \in Commands /\ rest \in Scripts
             /\ c.do \in Final => rest = <<>>
  BY <1>1, CourseHead, FinalsTail DEF Course, Ordered
<1> HIDE DEF c, rest
<1>2. ASSUME s # <<>>, NEW calls, Decides(d, r, c, calls), e = d,
             t = calls \o rest
      PROVE  \/ \E u \in Scripts :
                  /\ Decides(d, r, c, u)
                  /\ c.do \in {"dismiss", "tour", "visit"}
                  /\ t = u \o rest
             \/ rest = <<>> /\ Decides(d, r, c, t) /\ c.do \in Final
  <2>1. calls \in Scripts /\ c.do \in Deciding
    BY <1>1, <1>2, DecidesTyped DEF Course
  <2>2. CASE c.do \in {"dismiss", "tour", "visit"}
    BY <1>2, <2>1, <2>2
  <2>3. CASE c.do \in Final
    <3>1. rest = <<>> /\ t = calls
      BY <1>1, <1>2, <2>1, <2>3, HeadCat
    <3> QED
      BY <1>2, <2>3, <3>1
  <2> QED
    BY <2>1, <2>2, <2>3 DEF Deciding, Final
<1>3. ASSUME s # <<>>, c.do = "insert", d[Grand] # Nil, d[c.on] = Nil,
             e = [d EXCEPT ![c.on] = NewPlace],
             t = Founding(c.on, c.who) \o rest
      PROVE  /\ rest = <<>> /\ c.on \in Places /\ c.who \in Accounts
             /\ t = Founding(c.on, c.who)
  <2>1. rest = <<>> /\ c.on \in Places /\ c.who \in Accounts
    BY <1>1, <1>3, CommandFields DEF Final
  <2>2. Founding(c.on, c.who) \in Scripts
    BY <2>1, DoesFound
  <2> QED
    BY <1>1, <1>3, <2>1, <2>2, HeadCat
<1>4. \/ e = d /\ t = s
      \/ /\ s # <<>>
         /\ \/ c.do \in {"get", "use", "del"} /\ e = d /\ t = rest
            \/ Does(c, d, e) /\ t = rest
            \/ \E calls : Decides(d, r, c, calls) /\ e = d /\ t = calls \o rest
            \/ /\ c.do = "insert" /\ d[Grand] # Nil /\ d[c.on] = Nil
               /\ e = [d EXCEPT ![c.on] = NewPlace]
               /\ t = Founding(c.on, c.who) \o rest
  BY DEF Steps, c, rest
<1>a. CASE e = d /\ t = s
  BY <1>a DEF StepCase
<1>b. CASE /\ s # <<>> /\ t = rest
           /\ \/ c.do \in {"get", "use", "del"} /\ e = d
              \/ Does(c, d, e)
  BY <1>b DEF StepCase, c, rest
<1>c. CASE s # <<>> /\ \E calls :
             Decides(d, r, c, calls) /\ e = d /\ t = calls \o rest
  <2>1. \/ \E u \in Scripts :
             /\ Decides(d, r, c, u)
             /\ c.do \in {"dismiss", "tour", "visit"}
             /\ t = u \o rest
        \/ rest = <<>> /\ Decides(d, r, c, t) /\ c.do \in Final
    BY <1>2, <1>c
  <2> QED
    BY <1>c, <2>1 DEF StepCase, c, rest
<1>d. CASE /\ s # <<>> /\ c.do = "insert" /\ d[Grand] # Nil /\ d[c.on] = Nil
           /\ e = [d EXCEPT ![c.on] = NewPlace]
           /\ t = Founding(c.on, c.who) \o rest
  BY <1>3, <1>d DEF StepCase, c, rest
<1> QED
  BY <1>4, <1>a, <1>b, <1>c, <1>d

(* In a request to leave or to remove a member nothing but the handler     *)
(* comes last.                                                             *)
LEMMA LeavingFinals ==
  ASSUME NEW e, NEW r, NEW t, Course(e, r, t),
         r.op \in {"leave", "remove_member"}
  PROVE  Finals(t)
<1> SUFFICES ASSUME NEW i \in 1..Len(t), t[i].do \in Final
             PROVE  i = Len(t)
  BY DEF Finals
<1>1. Running(r.op) = LeavingSteps
  BY DEF Running
<1>2. /\ t[i].do \in Reading \cup LeavingSteps
      /\ t[i].do = "serve" => Opens(t, r)
  BY <1>1 DEF Course, InCourse
<1>3. Opens(t, r)
  BY <1>2 DEF Final, Reading, LeavingSteps
<1> DEFINE serve == Command("serve", r.place, r.who)
<1>4. serve.do = "serve" /\ \A k : Get(k).do = "get"
  BY Fields
<1>5. t[i].do # "get"
  BY DEF Final
<1> HIDE DEF serve
<1>a. CASE t = <<serve>>
  <2>1. Len(t) = 1
    BY <1>a
  <2> QED
    BY <2>1
<1>b. CASE t = <<Get(Subject(r)), serve>>
  <2>1. Len(t) = 2 /\ t[1] = Get(Subject(r))
    BY <1>b
  <2>2. i # 1
    BY <1>4, <1>5, <2>1
  <2> QED
    BY <2>1, <2>2
<1>c. CASE t = <<Get(r.who), Get(Subject(r)), serve>>
  <2>1. Len(t) = 3 /\ t[1] = Get(r.who) /\ t[2] = Get(Subject(r))
    BY <1>c
  <2>2. i # 1 /\ i # 2
    BY <1>4, <1>5, <2>1
  <2> QED
    BY <2>1, <2>2
<1> QED
  BY <1>3, <1>a, <1>b, <1>c DEF Opens, serve

LEMMA StepOrdered ==
  ASSUME NEW d, NEW r, NEW s, NEW e, NEW t, Course(d, r, s),
         Course(e, r, t), Ordered(s), Steps(d, r, s, e, t)
  PROVE  Ordered(t)
<1> DEFINE c == Head(s)
<1>1. s # <<>> => c \in Commands /\ s \in Scripts /\ Tail(s) \in Scripts
                  /\ c.do \in Reading \cup Running(r.op)
  BY CourseHead DEF Course
<1>2. ASSUME NEW u, NEW dos, Only(u, dos), "evict" \notin dos, NEW p
      PROVE  Followed(u, Command("evict", p, NoOne),
                          Command("delete", p, NoOne))
  <2>1. ~Has(u, Command("evict", p, NoOne))
    BY <1>2, OnlyHas
  <2> QED
    BY <2>1 DEF Followed, Has
<1>3. r \in Requests /\ Stores(d)
  BY DEF Course
<1> HIDE DEF c
<1>a. CASE t = s
  BY <1>a
<1>b. CASE s # <<>> /\ t = Tail(s)
  <2>1. Finals(t)
    BY <1>1, <1>b, FinalsTail DEF Ordered
  <2>2. \A p : Followed(t, Command("evict", p, NoOne),
                           Command("delete", p, NoOne))
    BY <1>1, <1>b, FollowedTail DEF Ordered
  <2> QED
    BY <2>1, <2>2 DEF Ordered
<1>c. CASE /\ s # <<>>
           /\ \E calls \in Scripts :
                /\ Decides(d, r, c, calls)
                /\ c.do \in {"dismiss", "tour", "visit"}
                /\ t = calls \o Tail(s)
  <2>1. PICK calls \in Scripts :
          /\ Decides(d, r, c, calls)
          /\ c.do \in {"dismiss", "tour", "visit"}
          /\ t = calls \o Tail(s)
    BY <1>c
  <2>2. r.op \in {"leave", "remove_member"}
    BY <1>1, <1>c, <2>1 DEF Reading, Running, AddingSteps
  <2>3. Finals(t)
    BY <2>2, LeavingFinals
  <2>4. Only(calls, Called) /\ "evict" \notin Called
    <3>1. Only(calls, Called)
      BY <1>1, <1>3, <1>c, <2>1, DecidesTyped
    <3> QED
      BY <3>1 DEF Called
  <2>5. ASSUME NEW p
        PROVE  Followed(t, Command("evict", p, NoOne),
                           Command("delete", p, NoOne))
    <3> DEFINE x == Command("evict", p, NoOne)
               y == Command("delete", p, NoOne)
    <3>1. Followed(calls, x, y)
      BY <1>2, <2>4
    <3>2. Followed(Tail(s), x, y)
      BY <1>1, <1>c, FollowedTail DEF Ordered
    <3> HIDE DEF x, y
    <3>3. Followed(t, x, y)
      BY <1>1, <1>c, <2>1, <3>1, <3>2, FollowedCat
    <3> QED
      BY <3>3 DEF x, y
  <2> QED
    BY <2>3, <2>5 DEF Ordered
<1>d. CASE s # <<>> /\ Decides(d, r, c, t) /\ c.do \in Final
  <2>1. Finals(t)
    BY <1>1, <1>3, <1>d, DecidesTyped
  <2>2. CASE c.do # "dissolve"
    <3>1. \/ Only(t, Called)
          \/ Only(t, {"get", "join", "grant", "del", "admit"})
      BY <1>1, <1>3, <1>d, <2>2, DecidesTyped
    <3>2. /\ "evict" \notin Called
          /\ "evict" \notin {"get", "join", "grant", "del", "admit"}
      BY DEF Called
    <3> QED
      BY <1>2, <2>1, <3>1, <3>2 DEF Ordered
  <2>3. CASE c.do = "dissolve"
    <3>1. c.on \in Places
      BY <1>1, <1>d, <2>3, CommandFields
    <3>2. t = <<Del(c.on)>> \/ t = Removal(c.on)
      BY <1>d, <2>3 DEF Decides
    <3>3. Only(<<Del(c.on)>>, {"del"})
      BY <3>1, KeyKinds, PlainCommands, Fields, OnlyShort
    <3>4. \A p : /\ Followed(Removal(c.on), Command("evict", p, NoOne),
                             Command("delete", p, NoOne))
                 /\ Followed(<<Del(c.on)>>, Command("evict", p, NoOne),
                             Command("delete", p, NoOne))
      BY <1>2, <3>1, <3>3, DoesRemoval
    <3> QED
      BY <2>1, <3>2, <3>4 DEF Ordered
  <2> QED
    BY <2>2, <2>3
<1>e. CASE /\ c.on \in Places /\ c.who \in Accounts
           /\ t = Founding(c.on, c.who)
  <2> DEFINE dos == {"count", "get", "join", "grant", "raise", "del"}
  <2>1. t \in Scripts
    BY <1>e, DoesFound
  <2>2. \A x : Has(t, x) => x.do \in dos
    <3>1. \A x : Has(t, x) =>
            x \in {Command("count", Grand, NoOne), Get(c.on), Get(c.who),
                   Command("join", c.on, c.who),
                   Command("grant", c.on, c.who),
                   Command("raise", c.on, c.who), Del(Grand), Del(c.who),
                   Del(c.on)}
      BY <1>e, DoesFound
    <3> QED
      BY <3>1, Fields
  <2>3. Only(t, dos)
    BY <2>1, <2>2 DEF Only, Has
  <2>4. dos \cap Final = {} /\ "evict" \notin dos
    BY DEF Final
  <2> HIDE DEF dos
  <2> QED
    BY <1>2, <2>3, <2>4, OnlyFinals DEF Ordered
<1> QED
  BY <1>a, <1>b, <1>c, <1>d, <1>e, StepCases DEF StepCase, c

-----------------------------------------------------------------------------
(* The sub-places are counted.                                             *)

LEMMA KeptFinite ==
  ASSUME NEW d, NEW s
  PROVE  IsFiniteSet(Kept(d, s)) /\ Cardinality(Kept(d, s)) \in Nat
<1>1. Kept(d, s) \subseteq Subs
  BY DEF Kept
<1> QED
  BY <1>1, KeysAssumption, FS_Subset, FS_CardinalityType

(* Commands that only read, or decide something else.                      *)
LEMMA SameKept ==
  ASSUME NEW d, NEW s, NEW e, NEW t,
         \A p \in Subs : d[p] = Nil <=> e[p] = Nil,
         \A p \in Subs : Has(s, Command("delete", p, NoOne)) <=>
                         Has(t, Command("delete", p, NoOne))
  PROVE  Kept(e, t) = Kept(d, s)
BY DEF Kept

LEMMA StepChildren ==
  ASSUME NEW d, NEW r, NEW s, NEW e, NEW t, Course(d, r, s),
         Course(e, r, t), Ordered(s), Steps(d, r, s, e, t),
         ChildrenDue(d, s)
  PROVE  ChildrenDue(e, t)
<1> DEFINE c == Head(s)
           rest == Tail(s)
           delete(p) == Command("delete", p, NoOne)
<1>1. s # <<>> =>
        /\ s \in Scripts /\ c \in Commands /\ rest \in Scripts
        /\ c.do \in Reading \cup Running(r.op)
        /\ c.do \in {"count", "uncount"} => c.on = Grand
        /\ rest # <<>> => Head(rest).do \notin {"count", "uncount"}
  BY CourseHead DEF Course
<1>2. s # <<>> => \A x : Has(s, x) <=> c = x \/ Has(rest, x)
  BY <1>1, HasTail
<1>3. r \in Requests /\ Stores(d) /\ Stores(e)
  BY DEF Course
<1>4. Grand \in Places /\ Subs \subseteq Places /\ Grand \notin Subs
  BY KeysAssumption DEF Places
<1>5. \A x, p : x = delete(p) => x.do = "delete" /\ x.on = p
  BY Fields
<1>6. \/ s = <<>>
      \/ Pending(rest, "count") = 0 /\ Pending(rest, "uncount") = 0
  BY <1>1 DEF Pending
<1>7. d[Grand] # Nil => d[Grand].nChildren \in Int
  BY <1>3, <1>4 DEF Stores, IsStore, PlaceDocs
<1>8. Cardinality(Kept(d, s)) \in Nat /\ Cardinality(Kept(e, t)) \in Nat
      /\ IsFiniteSet(Kept(d, s)) /\ IsFiniteSet(Kept(e, t))
  BY KeptFinite
<1>9. ASSUME NEW u, NEW dos, Only(u, dos), "delete" \notin dos
      PROVE  \A p : ~Has(u, delete(p))
  BY <1>9, OnlyHas
<1> HIDE DEF c, rest, delete
<1>a. CASE e = d /\ t = s
  BY <1>a
<1>b. CASE s # <<>> /\ t = rest /\ c.do \in {"get", "use", "del"} /\ e = d
  <2>1. Kept(e, t) = Kept(d, s)
    BY <1>2, <1>5, <1>b, SameKept DEF delete
  <2>2. Pending(s, "count") = 0 /\ Pending(s, "uncount") = 0
    BY <1>b DEF Pending, c
  <2> QED
    BY <1>6, <1>b, <2>1, <2>2 DEF ChildrenDue
<1>c. CASE s # <<>> /\ t = rest /\ Does(c, d, e)
  <2> SUFFICES ASSUME e[Grand] # Nil
               PROVE  e[Grand].nChildren + Pending(t, "count")
                        = Cardinality(Kept(e, t)) + Pending(t, "uncount")
    BY DEF ChildrenDue
  <2>1. /\ d[Grand] # Nil
        /\ e[Grand].nChildren = d[Grand].nChildren
             + (IF c.do = "count" THEN 1
                ELSE IF c.do = "uncount" THEN -1 ELSE 0)
    BY <1>1, <1>3, <1>c, DoesChildren
  <2>2. \A p \in Subs : /\ d[p] # Nil /\ e[p] = Nil => c = delete(p)
                        /\ c = delete(p) => e[p] = Nil
                        /\ d[p] = Nil => e[p] = Nil
    BY <1>1, <1>3, <1>4, <1>c, DoesBelong DEF delete
  <2>3. Kept(e, t) = Kept(d, s)
    BY <1>2, <1>c, <2>2 DEF Kept, delete
  <2>4. /\ Pending(s, "count") = IF c.do = "count" THEN 1 ELSE 0
        /\ Pending(s, "uncount") = IF c.do = "uncount" THEN 1 ELSE 0
    BY <1>c DEF Pending, c
  <2>5. d[Grand].nChildren + Pending(s, "count")
          = Cardinality(Kept(d, s)) + Pending(s, "uncount")
    BY <2>1 DEF ChildrenDue
  <2> QED
    BY <1>6, <1>7, <1>8, <1>c, <2>1, <2>3, <2>4, <2>5
<1>d. CASE /\ s # <<>> /\ e = d
           /\ \E calls \in Scripts :
                /\ Decides(d, r, c, calls)
                /\ c.do \in {"dismiss", "tour", "visit"}
                /\ t = calls \o rest
  <2>1. PICK calls \in Scripts :
          /\ Decides(d, r, c, calls)
          /\ c.do \in {"dismiss", "tour", "visit"}
          /\ t = calls \o rest
    BY <1>d
  <2>2. \A p : ~Has(calls, delete(p))
    <3>1. Only(calls, Called) /\ "delete" \notin Called
      BY <1>1, <1>3, <1>d, <2>1, DecidesTyped DEF Called
    <3> QED
      BY <1>9, <3>1
  <2>3. \A p : Has(t, delete(p)) <=> Has(s, delete(p))
    <3>1. \A p : c # delete(p)
      BY <1>5, <2>1
    <3> QED
      BY <1>1, <1>2, <1>d, <2>1, <2>2, <3>1, HasCat
  <2>4. Kept(e, t) = Kept(d, s)
    BY <1>d, <2>3, SameKept DEF delete
  <2>5. r.op \in {"leave", "remove_member"}
    BY <1>1, <1>d, <2>1 DEF Reading, Running, AddingSteps
  <2>6. t # <<>> => Head(t).do \notin {"count", "uncount"}
    <3>1. t # <<>> => Head(t).do \in Reading \cup Running(r.op)
      BY CourseHead
    <3> QED
      BY <2>5, <3>1 DEF Reading, Running, LeavingSteps
  <2>7. /\ Pending(s, "count") = 0 /\ Pending(s, "uncount") = 0
        /\ Pending(t, "count") = 0 /\ Pending(t, "uncount") = 0
    BY <2>1, <2>6 DEF Pending, c
  <2> QED
    BY <1>d, <2>4, <2>7 DEF ChildrenDue
<1>e. CASE /\ s # <<>> /\ rest = <<>> /\ e = d
           /\ Decides(d, r, c, t) /\ c.do \in Final
  <2>1. \A p : ~Has(s, delete(p))
    BY <1>2, <1>5, <1>e, HasNothing DEF Final
  <2>2. Pending(s, "count") = 0 /\ Pending(s, "uncount") = 0
    BY <1>e DEF Pending, c, Final
  <2>3. CASE \A p : ~Has(t, delete(p))
                   /\ (t # <<>> => Head(t).do \notin {"count", "uncount"})
    <3>1. Kept(e, t) = Kept(d, s)
      BY <1>e, <2>1, <2>3, SameKept DEF delete
    <3>2. Pending(t, "count") = 0 /\ Pending(t, "uncount") = 0
      BY <2>3 DEF Pending
    <3> QED
      BY <1>e, <2>2, <3>1, <3>2 DEF ChildrenDue
  <2>4. CASE c.do # "dissolve"
    <3>1. PICK dos \in {Called, {"get", "join", "grant", "del", "admit"}} :
            Only(t, dos)
      BY <1>1, <1>3, <1>e, <2>4, DecidesTyped
    <3>2. dos \cap {"delete", "count", "uncount"} = {}
      BY DEF Called
    <3>3. t # <<>> => Head(t).do \in dos
      BY <3>1, ScriptAt DEF Only
    <3>4. \A p : ~Has(t, delete(p))
      BY <1>9, <3>1, <3>2
    <3> QED
      BY <2>3, <3>2, <3>3, <3>4
  <2>5. CASE c.do = "dissolve" /\ t = <<Del(c.on)>>
    <3>1. c.on \in Keys
      BY <1>1, <1>e, <2>5, CommandFields, KeyKinds
    <3>2. Only(t, {"del"})
      BY <2>5, <3>1, PlainCommands, Fields, OnlyShort
    <3>3. t # <<>> => Head(t).do = "del"
      BY <3>2, ScriptAt DEF Only
    <3>4. \A p : ~Has(t, delete(p))
      BY <1>9, <3>2
    <3> QED
      BY <2>3, <3>3, <3>4
  <2>6. CASE c.do = "dissolve" /\ d[c.on] # Nil /\ t = Removal(c.on)
    <3> DEFINE p == c.on
    <3>1. p \in Places
      BY <1>1, <1>e, <2>6, CommandFields
    <3>2. /\ t # <<>>
          /\ p = Grand => Head(t) = Get(p)
          /\ p # Grand => Head(t) = Command("uncount", Grand, NoOne)
          /\ Has(t, delete(p))
      BY <2>6, <3>1, DoesRemoval DEF delete
    <3>3. ASSUME NEW q, Has(t, delete(q))
          PROVE  q = p
      <4>1. delete(q) \in {Command("uncount", Grand, NoOne), Get(p),
                           Command("evict", p, NoOne),
                           Command("delete", p, NoOne), Del(Grand), Del(p)}
        BY <2>6, <3>1, <3>3, DoesRemoval
      <4> QED
        BY <4>1, Fields DEF delete
    <3> HIDE DEF p
    <3>4. Kept(e, t) = Kept(d, s) \ {p}
      BY <1>e, <2>1, <3>2, <3>3 DEF Kept, delete
    <3>5. CASE p = Grand
      <4>1. Kept(e, t) = Kept(d, s)
        BY <1>4, <3>4, <3>5 DEF Kept
      <4>2. Pending(t, "count") = 0 /\ Pending(t, "uncount") = 0
        BY <3>2, <3>5, Fields DEF Pending
      <4> QED
        BY <1>e, <2>2, <4>1, <4>2 DEF ChildrenDue
    <3>6. CASE p # Grand
      <4>1. p \in Kept(d, s)
        BY <2>1, <2>6, <3>1, <3>6 DEF Kept, Places, delete, p
      <4>2. Cardinality(Kept(e, t)) = Cardinality(Kept(d, s)) - 1
        BY <1>8, <3>4, <4>1, FS_RemoveElement
      <4>3. Pending(t, "count") = 0 /\ Pending(t, "uncount") = 1
        BY <3>2, <3>6, Fields DEF Pending
      <4> QED
        BY <1>7, <1>8, <1>e, <2>2, <4>2, <4>3 DEF ChildrenDue
    <3> QED
      BY <3>5, <3>6
  <2>7. c.do = "dissolve" =>
          \/ t = <<Del(c.on)>>
          \/ d[c.on] # Nil /\ t = Removal(c.on)
    BY <1>e DEF Decides
  <2> QED
    BY <2>4, <2>5, <2>6, <2>7
<1>f. CASE /\ s # <<>> /\ rest = <<>> /\ c.do = "insert"
           /\ c.on \in Places /\ c.who \in Accounts
           /\ d[Grand] # Nil /\ d[c.on] = Nil
           /\ e = [d EXCEPT ![c.on] = NewPlace]
           /\ t = Founding(c.on, c.who)
  <2> DEFINE p == c.on
  <2>1. p \in Subs /\ p # Grand
    BY <1>f DEF Places
  <2>2. /\ t # <<>> /\ Head(t) = Command("count", Grand, NoOne)
        /\ \A q : ~Has(t, delete(q))
    <3>1. t # <<>> /\ Head(t) = Command("count", Grand, NoOne)
      BY <1>f, DoesFound
    <3>2. ASSUME NEW q, Has(t, delete(q))
          PROVE  FALSE
      <4>1. delete(q) \in {Command("count", Grand, NoOne), Get(p),
                           Get(c.who), Command("join", p, c.who),
                           Command("grant", p, c.who),
                           Command("raise", p, c.who),
                           Del(Grand), Del(c.who), Del(p)}
        BY <1>f, <3>2, DoesFound
      <4> QED
        BY <4>1, Fields DEF delete
    <3> QED
      BY <3>1, <3>2
  <2>3. \A q : ~Has(s, delete(q))
    BY <1>2, <1>5, <1>f, HasNothing
  <2>4. DOMAIN d = Keys /\ p \in Keys /\ Grand \in Keys
        /\ \A q \in Subs : q \in Keys
    BY <1>3, <1>4, <1>f, KeyKinds DEF Stores, IsStore
  <2>5. /\ e[p] = NewPlace /\ e[Grand] = d[Grand]
        /\ \A q \in Subs : q # p => e[q] = d[q]
    BY <1>f, <2>1, <2>4
  <2>6. NewPlace # Nil
    BY PlacesAssumption DEF NewPlace, PlaceDocs
  <2>7. d[p] = Nil
    BY <1>f
  <2> HIDE DEF p
  <2>8. Kept(e, t) = Kept(d, s) \cup {p} /\ p \notin Kept(d, s)
    BY <2>1, <2>2, <2>3, <2>5, <2>6, <2>7 DEF Kept, delete
  <2>9. Cardinality(Kept(e, t)) = Cardinality(Kept(d, s)) + 1
    BY <1>8, <2>8, FS_AddElement
  <2>10. /\ Pending(s, "count") = 0 /\ Pending(s, "uncount") = 0
         /\ Pending(t, "count") = 1 /\ Pending(t, "uncount") = 0
    BY <1>f, <2>2, Fields DEF Pending, c
  <2> QED
    BY <1>7, <1>8, <2>5, <2>9, <2>10 DEF ChildrenDue
<1> QED
  BY <1>a, <1>b, <1>c, <1>d, <1>e, <1>f, StepCases DEF StepCase, c, rest

-----------------------------------------------------------------------------
(* Accounts list the places they belong to.                                *)

LEMMA SoundOnly ==
  ASSUME NEW d, NEW s, NEW dos, Only(s, dos),
         dos \cap {"join", "grant", "expel", "revoke", "delete", "enlist",
                   "admit", "dismiss"} = {}
  PROVE  Sound(d, s)
<1>1. \A do \in {"join", "grant", "expel", "revoke", "delete", "enlist",
                 "admit", "dismiss"} :
       \A on, who : ~Has(s, Command(do, on, who))
  BY OnlyHas
<1>2. \A do \in {"grant", "expel", "revoke", "delete"} : \A on, who, C :
        ~Bare(s, Command(do, on, who), C)
  BY <1>1 DEF Bare, Has
<1> QED
  BY <1>1, <1>2 DEF Sound

LEMMA SoundTail ==
  ASSUME NEW d, NEW s \in Scripts, s # <<>>, Sound(d, s),
         Head(s).do \notin {"join", "lower", "expel", "evict"}
  PROVE  Sound(d, Tail(s))
<1> DEFINE t == Tail(s)
<1>1. \A x : Has(t, x) => Has(s, x)
  BY HasTail
<1>2. ASSUME NEW x, NEW do \in {"join", "lower", "expel", "evict"},
             NEW on, NEW who, Bare(t, x, {Command(do, on, who)})
      PROVE  Bare(s, x, {Command(do, on, who)})
  <2>1. Head(s) \notin {Command(do, on, who)}
    BY Fields
  <2> QED
    BY <1>2, <2>1, BareTail
<1> HIDE DEF t
<1>3. Sound(d, t)
  BY <1>1, <1>2 DEF Sound
<1> QED
  BY <1>3 DEF t

LEMMA SoundCat ==
  ASSUME NEW d, NEW s \in Scripts, NEW t \in Scripts, Sound(d, s), Sound(d, t)
  PROVE  Sound(d, s \o t)
<1> DEFINE u == s \o t
<1>1. \A x : Has(u, x) => Has(s, x) \/ Has(t, x)
  BY HasCat
<1>2. \A x, C : Bare(u, x, C) => Bare(s, x, C) \/ Bare(t, x, C)
  BY BareCat
<1> HIDE DEF u
<1>3. Sound(d, u)
  BY <1>1, <1>2 DEF Sound
<1> QED
  BY <1>3 DEF u

(* After an update the rest of the script is as sound.                     *)
LEMMA SoundDoes ==
  ASSUME NEW d, NEW r, NEW s, NEW e, Course(d, r, s), s # <<>>,
         Course(e, r, Tail(s)), Does(Head(s), d, e),
         Sound(d, s), Agreeing(d, s)
  PROVE  Sound(e, Tail(s))
<1> DEFINE c == Head(s)
           t == Tail(s)
<1>1. /\ s \in Scripts /\ c \in Commands /\ Stores(d) /\ Stores(e)
      /\ c.do \in Reading \cup Running(r.op)
      /\ r \in Requests /\ r.op \in Ops
  BY CourseHead, RequestFields DEF Course
<1>2. \A x : Has(t, x) => Has(s, x)
  BY <1>1, HasTail
<1>3. \A x, y : Bare(t, x, {y}) => Bare(s, x, {y}) \/ c = y
  BY <1>1, BareTail
<1>4. \A x, C : Bare(s, x, C) => Has(s, x)
  BY <1>1, BareTail
<1>5. c.do \in Updating
  BY DoesUpdates
<1>6. \A x, C : c = x => Bare(s, x, C)
  BY <1>1, BareTail
<1>7. \A do, on, who : c = Command(do, on, who) => c.do = do
  BY Fields
<1>8. ASSUME NEW do, NEW on, NEW who, Has(s, Command(do, on, who))
      PROVE  do \in Reading \cup Running(r.op)
  BY <1>8, CourseHas
(* Which commands do not go together.                                      *)
<1>9. /\ {"join", "grant", "enlist", "admit"} \cap
           (Reading \cup Running(r.op)) # {} =>
             c.do \notin {"expel", "delete"}
      /\ "dismiss" \in Reading \cup Running(r.op) => c.do # "delete"
      /\ "expel" \in Reading \cup Running(r.op) => c.do # "raise"
      /\ "revoke" \in Reading \cup Running(r.op) => c.do # "join"
      /\ "delete" \in Reading \cup Running(r.op) => c.do # "grant"
      /\ c.do = "evict" => "revoke" \notin Reading \cup Running(r.op)
  BY <1>1 DEF Reading, Running, AddingSteps, LeavingSteps, Ops
<1> HIDE DEF c, t
<1>10. \A p \in Places : \A b :
         /\ b \in Belong(e, p) /\ b \notin Belong(d, p) =>
              c = Command("join", p, b)
         /\ b \in Belong(d, p) /\ b \notin Belong(e, p) =>
              c = Command("expel", p, b) \/ c = Command("delete", p, NoOne)
         /\ b \in Ranked(e, p) /\ b \notin Ranked(d, p) =>
              c = Command("raise", p, b)
         /\ c = Command("join", p, b) /\ d[p] # Nil => b \in Belong(e, p)
         /\ c = Command("lower", p, b) => b \notin Ranked(e, p)
         /\ c = Command("expel", p, b) /\ b \notin Ranked(d, p) =>
              b \notin Belong(e, p)
         /\ d[p] # Nil /\ e[p] = Nil => c = Command("delete", p, NoOne)
  BY <1>1, DoesBelong DEF c
<1>11. \A p \in Places, b \in Accounts :
         /\ p \in e[b].access /\ p \notin d[b].access =>
              c = Command("grant", p, b)
         /\ c = Command("evict", p, NoOne) /\ p \in e[b].access =>
              p \in d[b].access /\ b \notin Belong(d, p)
  BY <1>1, DoesAccess DEF c
<1>a. ASSUME NEW p \in Places, NEW do \in {"join", "grant", "enlist", "admit",
                                        "dismiss"},
             NEW on, NEW who, Has(s, Command(do, on, who)), d[p] # Nil
      PROVE  e[p] # Nil
  <2>1. c.do # "delete"
    BY <1>8, <1>9, <1>a
  <2> QED
    BY <1>7, <1>10, <1>a, <2>1
<1>b. ASSUME NEW p \in Places, NEW a \in Accounts,
             Bare(t, Command("grant", p, a), {Command("join", p, a)})
      PROVE  a \in Belong(e, p)
  <2>1. Has(t, Command("grant", p, a))
    BY <1>b DEF Bare, Has
  <2>2. Has(s, Command("grant", p, a)) /\ d[p] # Nil
    BY <1>2, <2>1 DEF Sound
  <2>3. c.do \notin {"expel", "delete"}
    BY <1>8, <1>9, <2>2
  <2>4. CASE c = Command("join", p, a)
    BY <1>10, <2>2, <2>4
  <2>5. CASE Bare(s, Command("grant", p, a), {Command("join", p, a)})
    <3>1. a \in Belong(d, p)
      BY <2>5 DEF Sound
    <3> QED
      BY <1>7, <1>10, <2>3, <3>1
  <2> QED
    BY <1>3, <1>b, <2>4, <2>5
<1>c. ASSUME NEW p \in Places, NEW a \in Accounts,
             Bare(t, Command("expel", p, a), {Command("lower", p, a)})
      PROVE  a \notin Ranked(e, p)
  <2>1. Has(t, Command("expel", p, a))
    BY <1>c DEF Bare, Has
  <2>2. Has(s, Command("expel", p, a))
    BY <1>2, <2>1
  <2>3. c.do # "raise"
    BY <1>8, <1>9, <2>2
  <2>4. CASE c = Command("lower", p, a)
    BY <1>10, <2>4
  <2>5. CASE Bare(s, Command("expel", p, a), {Command("lower", p, a)})
    <3>1. a \notin Ranked(d, p)
      BY <2>5 DEF Sound
    <3> QED
      BY <1>7, <1>10, <2>3, <3>1
  <2> QED
    BY <1>3, <1>c, <2>4, <2>5
<1>d. ASSUME NEW p \in Places, NEW a \in Accounts,
             Bare(t, Command("revoke", p, a), {Command("expel", p, a)})
      PROVE  a \notin Belong(e, p)
  <2>1. Has(t, Command("revoke", p, a))
    BY <1>d DEF Bare, Has
  <2>2. Has(s, Command("revoke", p, a))
    BY <1>2, <2>1
  <2>3. c.do # "join"
    BY <1>8, <1>9, <2>2
  <2>4. CASE c = Command("expel", p, a)
    <3>1. Bare(s, Command("expel", p, a), {Command("lower", p, a)})
      BY <1>6, <2>4
    <3>2. a \notin Ranked(d, p)
      BY <3>1 DEF Sound
    <3> QED
      BY <1>10, <2>4, <3>2
  <2>5. CASE Bare(s, Command("revoke", p, a), {Command("expel", p, a)})
    <3>1. a \notin Belong(d, p)
      BY <2>5 DEF Sound
    <3> QED
      BY <1>7, <1>10, <2>3, <3>1
  <2> QED
    BY <1>3, <1>d, <2>4, <2>5
<1>e. ASSUME NEW p \in Places, NEW b \in Accounts,
             Bare(t, Command("delete", p, NoOne), {Command("evict", p, NoOne)})
      PROVE  p \notin e[b].access
  <2>1. Has(t, Command("delete", p, NoOne))
    BY <1>e DEF Bare, Has
  <2>2. Has(s, Command("delete", p, NoOne))
    BY <1>2, <2>1
  <2>3. c.do # "grant"
    BY <1>8, <1>9, <2>2
  <2>4. CASE c = Command("evict", p, NoOne)
    <3> SUFFICES ASSUME p \in e[b].access PROVE FALSE
      OBVIOUS
    <3>1. p \in d[b].access /\ b \notin Belong(d, p)
      BY <1>11, <2>4
    <3>2. Has(s, Command("revoke", p, b))
      BY <3>1 DEF Agreeing
    <3>3. c.do = "evict"
      BY <1>7, <2>4
    <3> QED
      BY <1>8, <1>9, <3>2, <3>3
  <2>5. CASE Bare(s, Command("delete", p, NoOne), {Command("evict", p, NoOne)})
    <3>1. p \notin d[b].access
      BY <2>5 DEF Sound
    <3> QED
      BY <1>7, <1>11, <2>3, <3>1
  <2> QED
    BY <1>3, <1>e, <2>4, <2>5
<1>f. ASSUME NEW p \in Places, NEW a \in Accounts,
             NEW do \in {"join", "grant", "dismiss"},
             Has(t, Command(do, p, a))
      PROVE  e[p] # Nil
  <2>1. Has(s, Command(do, p, a))
    BY <1>2, <1>f
  <2>2. d[p] # Nil
    BY <2>1 DEF Sound
  <2> QED
    BY <1>a, <2>1, <2>2
<1>g. ASSUME NEW l \in Loops, NEW a \in Accounts,
             Has(t, Command("enlist", l, a)) \/ Has(t, Command("admit", l, a))
      PROVE  e[l.place] # Nil
  <2>1. Has(s, Command("enlist", l, a)) \/ Has(s, Command("admit", l, a))
    BY <1>2, <1>g
  <2>2. d[l.place] # Nil /\ l.place \in Places
    BY <2>1 DEF Sound, Loops
  <2> QED
    BY <1>a, <2>1, <2>2
<1>12. Sound(e, t)
  BY <1>b, <1>c, <1>d, <1>e, <1>f, <1>g DEF Sound
<1> QED
  BY <1>12 DEF t

(* What an update changes in one of them is still to be changed in the     *)
(* other.                                                                  *)
LEMMA AgreeingDoes ==
  ASSUME NEW d, NEW r, NEW s, NEW e, Course(d, r, s), s # <<>>,
         Course(e, r, Tail(s)), Does(Head(s), d, e), Ordered(s),
         Sound(d, s), Agreeing(d, s)
  PROVE  Agreeing(e, Tail(s))
<1> DEFINE c == Head(s)
           t == Tail(s)
<1>1. s \in Scripts /\ c \in Commands /\ Stores(d) /\ Stores(e)
  BY CourseHead DEF Course
<1>2. \A x : Has(s, x) <=> c = x \/ Has(t, x)
  BY <1>1, HasTail
<1>3. \A x, C : c = x => Bare(s, x, C)
  BY <1>1, BareTail
<1>4. \A do, on, who : c = Command(do, on, who) =>
        c.do = do /\ c.on = on /\ c.who = who
  BY Fields
<1>5. /\ c.do = "expel" => Has(t, Command("revoke", c.on, c.who))
      /\ c.do = "join" => Has(t, Command("grant", c.on, c.who))
  BY CourseHead
<1>6. \A p : c = Command("evict", p, NoOne) =>
               Has(t, Command("delete", p, NoOne))
  BY <1>1, FollowedTail DEF Ordered
<1> SUFFICES ASSUME NEW p \in Places, NEW a \in Accounts
             PROVE  /\ a \in Belong(e, p) /\ p \notin e[a].access =>
                         \/ Has(t, Command("grant", p, a))
                         \/ Has(t, Command("delete", p, NoOne))
                    /\ p \in e[a].access /\ a \notin Belong(e, p) =>
                         Has(t, Command("revoke", p, a))
  BY DEF Agreeing
<1> HIDE DEF c, t
<1>10. /\ a \in Belong(e, p) /\ a \notin Belong(d, p) =>
            c = Command("join", p, a)
       /\ a \in Belong(d, p) /\ a \notin Belong(e, p) =>
            c = Command("expel", p, a) \/ c = Command("delete", p, NoOne)
       /\ c = Command("delete", p, NoOne) => e[p] = Nil
  BY <1>1, DoesBelong DEF c
<1>11. /\ p \in e[a].access /\ p \notin d[a].access =>
            c = Command("grant", p, a)
       /\ p \in d[a].access /\ p \notin e[a].access =>
            \/ c = Command("revoke", p, a)
            \/ c = Command("evict", p, NoOne) /\ a \in Belong(d, p)
       /\ c = Command("grant", p, a) => p \in e[a].access
       /\ c = Command("revoke", p, a) => p \notin e[a].access
  BY <1>1, DoesAccess DEF c
<1>12. e[p] = Nil => a \notin Belong(e, p)
  BY DEF Belong, Ranked, Held
<1>a. ASSUME a \in Belong(e, p), p \notin e[a].access
      PROVE  \/ Has(t, Command("grant", p, a))
             \/ Has(t, Command("delete", p, NoOne))
  <2>1. CASE a \in Belong(d, p) /\ p \notin d[a].access
    <3>1. \/ Has(s, Command("grant", p, a))
          \/ Has(s, Command("delete", p, NoOne))
      BY <2>1 DEF Agreeing
    <3> QED
      BY <1>2, <1>10, <1>11, <1>12, <1>a, <3>1
  <2>2. CASE a \notin Belong(d, p)
    BY <1>4, <1>5, <1>10, <1>a, <2>2
  <2>3. CASE a \in Belong(d, p) /\ p \in d[a].access
    <3>1. CASE c = Command("revoke", p, a)
      <4>1. Bare(s, Command("revoke", p, a), {Command("expel", p, a)})
        BY <1>3, <3>1
      <4> QED
        BY <2>3, <4>1 DEF Sound
    <3>2. CASE c = Command("evict", p, NoOne)
      BY <1>6, <3>2
    <3> QED
      BY <1>11, <1>a, <2>3, <3>1, <3>2
  <2> QED
    BY <2>1, <2>2, <2>3
<1>b. ASSUME p \in e[a].access, a \notin Belong(e, p)
      PROVE  Has(t, Command("revoke", p, a))
  <2>1. CASE p \in d[a].access /\ a \notin Belong(d, p)
    <3>1. Has(s, Command("revoke", p, a))
      BY <2>1 DEF Agreeing
    <3> QED
      BY <1>2, <1>11, <1>b, <3>1
  <2>2. CASE p \notin d[a].access
    <3>1. c = Command("grant", p, a)
      BY <1>11, <1>b, <2>2
    <3>2. Bare(s, Command("grant", p, a), {Command("join", p, a)})
      BY <1>3, <3>1
    <3>3. a \in Belong(d, p)
      BY <3>2 DEF Sound
    <3>4. c.do = "grant"
      BY <1>4, <3>1
    <3> QED
      BY <1>4, <1>10, <1>b, <3>3, <3>4
  <2>3. CASE p \in d[a].access /\ a \in Belong(d, p)
    <3>1. CASE c = Command("expel", p, a)
      BY <1>4, <1>5, <3>1
    <3>2. CASE c = Command("delete", p, NoOne)
      <4>1. Bare(s, Command("delete", p, NoOne), {Command("evict", p, NoOne)})
        BY <1>3, <3>2
      <4> QED
        BY <2>3, <4>1 DEF Sound
    <3> QED
      BY <1>10, <1>b, <2>3, <3>1, <3>2
  <2> QED
    BY <2>1, <2>2, <2>3
<1> QED
  BY <1>a, <1>b

(* Whoever is removed by the role he has: as in the document.              *)
LEMMA SoundRemoving ==
  ASSUME NEW d, NEW p \in Places, NEW a \in Accounts
  PROVE  /\ d[p] # Nil => Sound(d, RemoveByRole(p, a, d[p]))
         /\ a \notin Ranked(d, p) => Sound(d, RemoveKeyHolder(p, a))
<1>1. /\ Only(RemoveByRole(p, a, d[p]), Removing)
      /\ Only(RemoveKeyHolder(p, a), Removing)
  BY OnlyUnits
<1>2. Removing \cap {"join", "grant", "delete", "enlist", "admit",
                   "dismiss"} = {}
  BY DEF Removing
<1>3. ASSUME NEW s, Only(s, Removing),
             NEW q \in Places, NEW b \in Accounts
      PROVE  /\ ~Has(s, Command("join", q, b)) /\ ~Has(s, Command("grant", q, b))
             /\ ~Has(s, Command("delete", q, NoOne))
             /\ ~Has(s, Command("dismiss", q, b))
             /\ \A l : /\ ~Has(s, Command("enlist", l, b))
                       /\ ~Has(s, Command("admit", l, b))
             /\ \A C : /\ ~Bare(s, Command("grant", q, b), C)
                       /\ ~Bare(s, Command("delete", q, NoOne), C)
  <2>1. \A do \in {"join", "grant", "delete", "enlist", "admit", "dismiss"} :
             \A on, who :
          ~Has(s, Command(do, on, who))
    BY <1>2, <1>3, OnlyHas
  <2>2. \A x, C : Bare(s, x, C) => Has(s, x)
    BY DEF Bare, Has
  <2> QED
    BY <2>1, <2>2
<1>4. ASSUME d[p] # Nil
      PROVE  Sound(d, RemoveByRole(p, a, d[p]))
  <2> DEFINE s == RemoveByRole(p, a, d[p])
  <2>1. \A q, b : /\ Bare(s, Command("expel", q, b), {Command("lower", q, b)})
                       => q = p /\ b = a /\ a \notin d[p].creators
                  /\ ~Bare(s, Command("revoke", q, b),
                           {Command("expel", q, b)})
    BY DoesRole
  <2>2. Only(s, Removing)
    BY <1>1
  <2> HIDE DEF s
  <2>3. Ranked(d, p) = d[p].creators
    BY <1>4 DEF Ranked
  <2>4. Sound(d, s)
    BY <1>3, <2>1, <2>2, <2>3 DEF Sound
  <2> QED
    BY <2>4 DEF s
<1>5. ASSUME a \notin Ranked(d, p)
      PROVE  Sound(d, RemoveKeyHolder(p, a))
  <2> DEFINE s == RemoveKeyHolder(p, a)
  <2>1. \A q, b : ~Bare(s, Command("revoke", q, b), {Command("expel", q, b)})
    BY DoesRemove
  <2>2. \A q, b : Bare(s, Command("expel", q, b), {Command("lower", q, b)}) =>
                    q = p /\ b = a
    <3>1. \A c : Has(s, c) => c \in {Get(p), Command("expel", p, a),
                                     Command("revoke", p, a), Del(a), Del(p)}
      BY DoesRemove
    <3>2. \A q, b : Command("expel", q, b) \in
                      {Get(p), Command("expel", p, a),
                       Command("revoke", p, a), Del(a), Del(p)} =>
                    q = p /\ b = a
      BY Fields
    <3>3. \A x, C : Bare(s, x, C) => Has(s, x)
      BY DEF Bare, Has
    <3> HIDE DEF s
    <3> QED
      BY <3>1, <3>2, <3>3
  <2>3. Only(s, Removing)
    BY <1>1
  <2> HIDE DEF s
  <2>4. Sound(d, s)
    BY <1>3, <1>5, <2>1, <2>2, <2>3 DEF Sound
  <2> QED
    BY <2>4 DEF s
<1> QED
  BY <1>4, <1>5

(* Members are added to a place that is there.                             *)
LEMMA SoundAdding ==
  ASSUME NEW d, NEW p \in Places, NEW a \in Accounts, d[p] # Nil
  PROVE  /\ Sound(d, AddKeyHolder(p, a))
         /\ \A l \in Loops : l.place = p => Sound(d, AddMembers(l, a))
<1>1. Sound(d, AddKeyHolder(p, a))
  <2> DEFINE s == AddKeyHolder(p, a)
             dos == {"get", "join", "grant", "del"}
  <2>1. /\ Only(s, dos)
        /\ \A c : Has(s, c) => c \in {Get(p), Get(a), Command("join", p, a),
                                      Command("grant", p, a), Del(a), Del(p)}
        /\ \A q, b : ~Bare(s, Command("grant", q, b), {Command("join", q, b)})
    BY OnlyUnits, DoesAdd
  <2> HIDE DEF s
  <2>2. \A do \in {"expel", "revoke", "delete", "enlist", "admit",
                   "dismiss"} : \A on, who :
          ~Has(s, Command(do, on, who))
    BY <2>1, OnlyHas
  <2>3. \A do \in {"expel", "revoke", "delete"} : \A on, who, C :
          ~Bare(s, Command(do, on, who), C)
    BY <2>2 DEF Bare, Has
  <2>4. \A q, b : /\ Has(s, Command("join", q, b)) => q = p
                  /\ Has(s, Command("grant", q, b)) => q = p
    BY <2>1, Fields
  <2>5. Sound(d, s)
    BY <2>1, <2>2, <2>3, <2>4 DEF Sound
  <2> QED
    BY <2>5 DEF s
<1>2. ASSUME NEW l \in Loops, l.place = p
      PROVE  Sound(d, AddMembers(l, a))
  <2> DEFINE s == AddMembers(l, a)
  <2>1. Only(s, {"admit"})
    BY OnlyUnits
  <2>2. \A x : Has(s, x) => x = Command("admit", l, a)
    BY HasNothing, DoesShort DEF AddMembers
  <2> HIDE DEF s
  <2>3. \A do \in {"join", "grant", "expel", "revoke", "delete", "enlist",
                   "dismiss"} : \A on, who : ~Has(s, Command(do, on, who))
    BY <2>1, OnlyHas
  <2>4. \A do \in {"grant", "expel", "revoke", "delete"} : \A on, who, C :
          ~Bare(s, Command(do, on, who), C)
    BY <2>3 DEF Bare, Has
  <2>5. \A k, b : Has(s, Command("admit", k, b)) => k = l
    BY <2>2, SameCommand
  <2>6. Sound(d, s)
    BY <1>2, <2>3, <2>4, <2>5 DEF Sound
  <2> QED
    BY <2>6 DEF s
<1> QED
  BY <1>1, <1>2

(* Two commands, the second of which adds to a place or only decides.      *)
LEMMA SoundRead ==
  ASSUME NEW d, NEW k \in Keys, NEW c \in Commands,
         \/ c.do \in {"use", "visit", "dissolve", "insert"}
         \/ c.do = "enlist" /\ d[c.on.place] # Nil
         \/ c.do = "dismiss" /\ d[c.on] # Nil
  PROVE  Sound(d, <<Get(k), c>>)
<1> DEFINE s == <<Get(k), c>>
<1>1. Get(k) \in Commands /\ Get(k).do = "get"
  BY PlainCommands, Fields
<1>2. Only(s, {"get", c.do})
  BY <1>1, OnlyShort
<1>3. \A x : Has(s, x) => x = Get(k) \/ x = c
  BY DoesShort
<1> HIDE DEF s
<1>4. \A do \in {"join", "grant", "expel", "revoke", "delete", "admit"} :
        \A on, who : ~Has(s, Command(do, on, who))
  BY <1>2, OnlyHas
<1>5. \A do \in {"grant", "expel", "revoke", "delete"} : \A on, who, C :
        ~Bare(s, Command(do, on, who), C)
  BY <1>4 DEF Bare, Has
<1>6. \A l, b : /\ Has(s, Command("enlist", l, b)) => d[l.place] # Nil
                /\ Has(s, Command("dismiss", l, b)) => d[l] # Nil
  BY <1>3, Fields
<1>7. Sound(d, s)
  BY <1>4, <1>5, <1>6 DEF Sound
<1> QED
  BY <1>7 DEF s

LEMMA ServesSound ==
  ASSUME NEW d, NEW r \in Requests, Stores(d), NEW calls, Serves(d, r, calls)
  PROVE  Sound(d, calls)
<1> DEFINE p == r.place
           a == r.who
           b == Head(r.list)
           c == d[Subject(r)]
<1>1. /\ p \in Places /\ a \in Accounts /\ Subject(r) \in Places
      /\ r.op \in AboutOne => b \in Accounts
      /\ r.op # "add_place" => c = d[p]
  BY RequestFields DEF Subject
<1>2. c \in PlaceDocs /\ c # Nil
  BY <1>1 DEF Serves, Stores, IsStore
<1>3. Joining(r, c) \in Loops /\ Joining(r, c).place = p
  BY <1>2, JoiningLoop DEF Joining
<1>4. Grand \in Keys /\ Grand \in Places /\ p \in Keys
      /\ \A x \in Accounts : x \in Keys
  BY <1>1, KeyKinds
<1>5. ASSUME NEW s, NEW dos \in {{"raise", "del"}, {"lower", "del"}, {"tour"}},
             Only(s, dos)
      PROVE  Sound(d, s)
  <2>1. dos \cap {"join", "grant", "expel", "revoke", "delete", "enlist",
                  "admit", "dismiss"} = {}
    OBVIOUS
  <2> QED
    BY <1>5, <2>1, SoundOnly
<1> HIDE DEF p, a, b, c
<1>a. CASE r.op = "invite_member"
  <2>1. calls = AddMembers(Joining(r, c), a) /\ d[p] # Nil
    BY <1>1, <1>2, <1>a DEF Serves, c, a
  <2> QED
    BY <1>1, <1>3, <2>1, SoundAdding
<1>b. CASE r.op = "add_member"
  <2>1. calls = <<Get(Grand), Command("enlist", Joining(r, c), a)>>
    BY <1>b DEF Serves, c, a
  <2> DEFINE x == Command("enlist", Joining(r, c), a)
  <2>2. /\ x \in Commands /\ x.do = "enlist" /\ x.on.place = p /\ d[p] # Nil
    BY <1>1, <1>2, <1>3, <1>b, LoopCommands, Fields
  <2> HIDE DEF x
  <2>3. Sound(d, <<Get(Grand), x>>)
    BY <1>4, <2>2, SoundRead
  <2> QED
    BY <2>1, <2>3 DEF x
<1>c. CASE r.op = "promote_member"
  <2>1. calls = Promote(p, b) /\ b \in Accounts
    BY <1>1, <1>c DEF Serves, p, b, AboutOne
  <2> QED
    BY <1>1, <1>5, <2>1, OnlyUnits
<1>d. CASE r.op = "demote_member"
  <2>1. calls = Demote(p, b) /\ b \in Accounts
    BY <1>1, <1>d DEF Serves, p, b, AboutOne
  <2> QED
    BY <1>1, <1>5, <2>1, OnlyUnits
<1>e. CASE r.op = "leave"
  <2>1. PICK S \in SUBSET Subs : calls = Tour(S, a) \o RemoveByRole(p, a, c)
    BY <1>1, <1>e DEF Serves, p, a, c
  <2> DEFINE u == Tour(S, a)
             v == RemoveByRole(p, a, c)
  <2>2. Only(u, {"tour"}) /\ Only(v, Removing)
    BY <1>1, OnlyUnits
  <2>3. Sound(d, u) /\ Sound(d, v)
    BY <1>1, <1>2, <1>5, <1>e, <2>2, SoundRemoving
  <2> HIDE DEF u, v
  <2>4. Sound(d, u \o v)
    BY <2>2, <2>3, SoundCat DEF Only
  <2> QED
    BY <2>1, <2>4 DEF u, v
<1>f. CASE r.op = "remove_member" /\ p = Grand
  <2>1. calls = <<Get(b), Command("dismiss", Grand, b)>> /\ b \in Accounts
    BY <1>1, <1>f DEF Serves, p, b, AboutOne
  <2>2. /\ Command("dismiss", Grand, b) \in Commands
        /\ Command("dismiss", Grand, b).do = "dismiss"
        /\ Command("dismiss", Grand, b).on = Grand /\ d[Grand] # Nil
    BY <1>1, <1>2, <1>4, <1>f, <2>1, PlainCommands, Fields
  <2> QED
    BY <1>4, <2>1, <2>2, SoundRead
<1>g. CASE r.op = "remove_member" /\ p # Grand
  <2>1. calls = RemoveByRole(p, b, c) /\ b \in Accounts /\ c = d[p]
    BY <1>1, <1>g DEF Serves, p, b, c, AboutOne
  <2> QED
    BY <1>1, <1>2, <2>1, SoundRemoving
<1>h. CASE r.op = "remove"
  <2>1. calls = <<Get(p), Command("dissolve", p, NoOne)>>
    BY <1>h DEF Serves, p
  <2>2. /\ Command("dissolve", p, NoOne) \in Commands
        /\ Command("dissolve", p, NoOne).do = "dissolve"
    BY <1>1, PlainCommands, Fields
  <2> QED
    BY <1>4, <2>1, <2>2, SoundRead
<1>i. CASE r.op = "add_place"
  <2>1. calls = <<Get(Grand), Command("insert", p, a)>>
    BY <1>i DEF Serves, p, a
  <2>2. /\ Command("insert", p, a) \in Commands
        /\ Command("insert", p, a).do = "insert"
    BY <1>1, PlainCommands, Fields
  <2> QED
    BY <1>4, <2>1, <2>2, SoundRead
<1>10. r.op \in Ops
  BY RequestFields
<1> QED
  BY <1>10, <1>a, <1>b, <1>c, <1>d, <1>e, <1>f, <1>g, <1>h, <1>i DEF Ops

LEMMA DecidesSound ==
  ASSUME NEW d, NEW r \in Requests, Stores(d), NEW c \in Commands, NEW calls,
         Decides(d, r, c, calls),
         c.do \in {"enlist", "admit"} => d[c.on.place] # Nil,
         c.do = "dismiss" => d[Grand] # Nil
  PROVE  Sound(d, calls)
<1> DEFINE on == c.on
           a == c.who
<1>1. /\ c.do \in {"dismiss", "visit", "insert"} =>
           on \in Places /\ a \in Accounts
      /\ c.do = "dissolve" => on \in Places
      /\ c.do = "tour" => on \in SUBSET Subs /\ a \in Accounts
      /\ c.do \in {"enlist", "admit"} => on \in Loops /\ a \in Accounts
      /\ c.do = "admit" => on.list # <<>>
  BY CommandFields
<1>2. Grand \in Keys /\ Grand \in Places /\ \A p \in Places : p \in Keys
  BY KeyKinds
<1>3. ASSUME NEW s, NEW dos \in {{"del"}, {"tour"}, {"get", "visit", "tour"}},
             Only(s, dos)
      PROVE  Sound(d, s)
  <2>1. dos \cap {"join", "grant", "expel", "revoke", "delete", "enlist",
                  "admit", "dismiss"} = {}
    OBVIOUS
  <2> QED
    BY <1>3, <2>1, SoundOnly
<1>4. Sound(d, <<>>)
  <2>1. Only(<<>>, {"del"})
    BY OnlyShort
  <2> QED
    BY <1>3, <2>1
<1>5. \A k \in Keys : Only(<<Del(k)>>, {"del"})
  BY PlainCommands, Fields, OnlyShort
<1> HIDE DEF on, a
<1>a. CASE c.do = "serve"
  <2>1. CASE calls \in {<<>>, <<Get(Grand), Use(Grand)>>}
    <3>1. Use(Grand) \in Commands /\ Use(Grand).do = "use"
      BY <1>2, PlainCommands, Fields
    <3>2. Sound(d, <<Get(Grand), Use(Grand)>>)
      BY <1>2, <3>1, SoundRead
    <3> QED
      BY <1>4, <2>1, <3>2
  <2>2. CASE Serves(d, r, calls)
    BY <2>2, ServesSound
  <2> QED
    BY <1>a, <2>1, <2>2 DEF Decides
<1>b. CASE c.do = "enlist"
  <2> DEFINE l == [on EXCEPT !.eligible = @ \cap Members(d[Grand])]
  <2>1. calls = AddMembers(l, a)
    BY <1>b DEF Decides, on, a
  <2>2. /\ l \in Loops /\ l.place = on.place /\ on.place \in Places
        /\ a \in Accounts
    BY <1>1, <1>b DEF Loops
  <2>3. d[l.place] # Nil
    BY <1>b, <2>2 DEF on
  <2> HIDE DEF l
  <2> QED
    BY <2>1, <2>2, <2>3, SoundAdding
<1>c. CASE c.do = "admit"
  <2> DEFINE rest(n) == [on EXCEPT !.list = Tail(@), !.room = @ - n]
             more == [on EXCEPT !.list = Tail(@)]
             x == Head(on.list)
             n == IF r.admin THEN 0 ELSE 1
  <2>1. /\ on \in Loops /\ a \in Accounts /\ on.place \in Places
        /\ on.list \in Seq(Accounts) /\ on.room \in Int
        /\ x \in Accounts /\ Tail(on.list) \in Seq(Accounts)
    <3>1. /\ on \in Loops /\ a \in Accounts /\ on.list # <<>>
      BY <1>1, <1>c
    <3>2. on.place \in Places /\ on.list \in Seq(Accounts) /\ on.room \in Int
      BY <3>1 DEF Loops
    <3> QED
      BY <3>1, <3>2, HeadTailProperties
  <2>2. more \in Loops /\ more.place = on.place
    BY <2>1 DEF Loops
  <2>3. on.room - n \in Int
    BY <2>1
  <2>4. rest(n) \in Loops /\ rest(n).place = on.place
    <3> HIDE DEF n
    <3> QED
      BY <2>1, <2>3 DEF Loops
  <2> HIDE DEF n
  <2>5. d[on.place] # Nil
    BY <1>c DEF on
  <2>6. \/ calls = AddMembers(more, a)
        \/ calls = (AddKeyHolder(on.place, x) \o <<Del(x)>>)
                     \o AddMembers(rest(n), a)
    BY <1>c DEF Decides, on, a, n
  <2> HIDE DEF more, rest, x
  <2>7. /\ Sound(d, AddMembers(more, a)) /\ Sound(d, AddMembers(rest(n), a))
        /\ Sound(d, AddKeyHolder(on.place, x)) /\ Sound(d, <<Del(x)>>)
    <3>1. x \in Keys
      BY <2>1, KeyKinds
    <3> QED
      BY <1>3, <1>5, <2>1, <2>2, <2>4, <2>5, <3>1, SoundAdding
  <2>8. /\ AddKeyHolder(on.place, x) \in Scripts /\ <<Del(x)>> \in Scripts
        /\ AddMembers(rest(n), a) \in Scripts
    <3>1. Del(x) \in Commands
      BY <2>1, KeyKinds, PlainCommands
    <3> QED
      BY <2>1, <2>4, <3>1, MemberScripts, LoopScripts, ShortScripts
  <2>9. Sound(d, (AddKeyHolder(on.place, x) \o <<Del(x)>>)
                   \o AddMembers(rest(n), a))
    <3> DEFINE u == AddKeyHolder(on.place, x)
               v == <<Del(x)>>
               z == AddMembers(rest(n), a)
    <3>1. /\ u \in Scripts /\ v \in Scripts /\ z \in Scripts
          /\ Sound(d, u) /\ Sound(d, v) /\ Sound(d, z)
      BY <2>7, <2>8
    <3> HIDE DEF u, v, z
    <3>2. u \o v \in Scripts /\ Sound(d, u \o v)
      BY <3>1, SoundCat, CatAt
    <3>3. Sound(d, (u \o v) \o z)
      BY <3>1, <3>2, SoundCat
    <3> QED
      BY <3>3 DEF u, v, z
  <2> QED
    BY <2>6, <2>7, <2>9
<1>d. CASE c.do = "dismiss"
  <2>1. PICK S \in SUBSET Subs :
          calls = Tour(S, a) \o RemoveByRole(Grand, a, d[Grand])
    BY <1>d DEF Decides, on, a
  <2> DEFINE u == Tour(S, a)
             v == RemoveByRole(Grand, a, d[Grand])
  <2>2. Only(u, {"tour"}) /\ Only(v, Removing)
    BY <1>1, <1>2, <1>d, OnlyUnits
  <2>3. Sound(d, u)
    BY <1>3, <2>2
  <2>4. Sound(d, v)
    BY <1>1, <1>2, <1>d, SoundRemoving
  <2> HIDE DEF u, v
  <2>5. Sound(d, u \o v)
    BY <2>2, <2>3, <2>4, SoundCat DEF Only
  <2> QED
    BY <2>1, <2>5 DEF u, v
<1>e. CASE c.do = "tour"
  <2>1. PICK q \in on : calls = <<Get(q), Command("visit", q, a)>>
                                  \o Tour(on \ {q}, a)
    BY <1>e DEF Decides, on, a
  <2> DEFINE u == <<Get(q), Command("visit", q, a)>>
             v == Tour(on \ {q}, a)
  <2>2. q \in Places /\ q \in Keys /\ a \in Accounts /\ on \ {q} \in SUBSET Subs
    BY <1>1, <1>2, <1>e, <2>1 DEF Places
  <2>3. /\ Get(q) \in Commands /\ Command("visit", q, a) \in Commands
        /\ Get(q).do = "get" /\ Command("visit", q, a).do = "visit"
    BY <2>2, PlainCommands, Fields
  <2>4. u \in Scripts /\ v \in Scripts /\ Sound(d, u) /\ Sound(d, v)
    <3>1. u \in Scripts
      BY <2>3, ShortScripts
    <3>2. Only(v, {"tour"})
      BY <2>2, OnlyUnits
    <3>3. Sound(d, v)
      BY <1>3, <3>2
    <3>4. Sound(d, u)
      BY <2>2, <2>3, SoundRead
    <3> QED
      BY <3>1, <3>2, <3>3, <3>4 DEF Only
  <2> HIDE DEF u, v
  <2>5. Sound(d, u \o v)
    BY <2>4, SoundCat
  <2> QED
    BY <2>1, <2>5 DEF u, v
<1>f. CASE c.do = "visit"
  <2>1. \/ calls = <<>>
        \/ d[on] # Nil /\ calls = RemoveByRole(on, a, d[on])
        \/ /\ d[on] # Nil /\ a \notin d[on].creators
           /\ calls = RemoveKeyHolder(on, a)
    BY <1>f DEF Decides, on, a
  <2>2. d[on] # Nil /\ a \notin d[on].creators => a \notin Ranked(d, on)
    BY DEF Ranked
  <2> QED
    BY <1>1, <1>4, <1>f, <2>1, <2>2, SoundRemoving
<1>g. CASE c.do = "dissolve"
  <2>1. on \in Places /\ on \in Keys
    BY <1>1, <1>2, <1>g
  <2>2. calls = <<Del(on)>> \/ calls = Removal(on)
    BY <1>g DEF Decides, on
  <2>3. Sound(d, <<Del(on)>>)
    BY <1>3, <1>5, <2>1
  <2> DEFINE s == Removal(on)
  <2>4. \A x : Has(s, x) =>
          x \in {Command("uncount", Grand, NoOne), Get(on),
                 Command("evict", on, NoOne),
                 Command("delete", on, NoOne), Del(Grand), Del(on)}
    BY <2>1, DoesRemoval
  <2>5. \A q : ~Bare(s, Command("delete", q, NoOne),
                     {Command("evict", q, NoOne)})
    BY <2>1, DoesRemoval
  <2> HIDE DEF s
  <2>6. \A do \in {"join", "grant", "expel", "revoke", "enlist", "admit",
                   "dismiss"} : \A k, who : ~Has(s, Command(do, k, who))
    BY <2>4, Fields
  <2>7. \A do \in {"grant", "expel", "revoke"} : \A k, who, C :
          ~Bare(s, Command(do, k, who), C)
    BY <2>6 DEF Bare, Has
  <2>8. Sound(d, s)
    BY <2>5, <2>6, <2>7 DEF Sound
  <2> QED
    BY <2>2, <2>3, <2>8 DEF s
<1>h. CASE c.do = "insert"
  <2>1. calls = <<Del(Grand)>>
    BY <1>h DEF Decides
  <2> QED
    BY <1>2, <1>3, <1>5, <2>1
<1>10. c.do \in Deciding
  BY DEF Decides, Deciding
<1> QED
  BY <1>10, <1>a, <1>b, <1>c, <1>d, <1>e, <1>f, <1>g, <1>h DEF Deciding

(* Every step keeps scripts sound and lists and rosters agreeing.          *)
LEMMA StepAccess ==
  ASSUME NEW d, NEW r, NEW s, NEW e, NEW t, Course(d, r, s),
         Course(e, r, t), Ordered(s), Steps(d, r, s, e, t),
         Sound(d, s), Agreeing(d, s)
  PROVE  Sound(e, t) /\ Agreeing(e, t)
<1>0. StepCase(d, r, s, e, t)
  BY StepCases
<1> DEFINE c == Head(s)
           rest == Tail(s)
<1>1. s # <<>> =>
        /\ s \in Scripts /\ c \in Commands /\ rest \in Scripts
        /\ \A x : Has(s, x) <=> c = x \/ Has(rest, x)
  BY CourseHead, HasTail DEF Course
<1>2. r \in Requests /\ Stores(d) /\ Stores(e)
  BY DEF Course
<1>3. /\ s # <<>> /\ c.do \in {"enlist", "admit"} => d[c.on.place] # Nil
      /\ s # <<>> /\ c.do = "dismiss" => d[Grand] # Nil
  <2>1. s # <<>> => c = Command(c.do, c.on, c.who) /\ Has(s, c)
    BY <1>1, CommandIs
  <2>2. s # <<>> /\ c.do \in {"enlist", "admit"} =>
          c.on \in Loops /\ c.who \in Accounts
    BY <1>1, CommandFields
  <2>3. s # <<>> /\ c.do = "dismiss" => c.on = Grand /\ c.who \in Accounts
    BY <1>1, CommandFields, CourseHead
  <2> QED
    BY <2>1, <2>2, <2>3, KeyKinds DEF Sound
(* What is no update neither makes nor settles a difference.               *)
<1>4. ASSUME e = d,
             \A do \in {"grant", "delete", "revoke"} : \A on, who :
               Has(s, Command(do, on, who)) => Has(t, Command(do, on, who))
      PROVE  Agreeing(e, t)
  BY <1>4 DEF Agreeing
<1>5. \A do, on, who : c = Command(do, on, who) => c.do = do
  BY Fields
<1>6. {"get", "use", "del"} \cap {"join", "lower", "expel", "evict"} = {}
      /\ Deciding \cap {"join", "lower", "expel", "evict"} = {}
      /\ Deciding \cap {"grant", "delete", "revoke"} = {}
      /\ {"get", "use", "del"} \cap {"grant", "delete", "revoke"} = {}
      /\ Final \subseteq Deciding
      /\ {"dismiss", "tour", "visit"} \subseteq Deciding
  BY DEF Deciding, Final
<1> HIDE DEF c, rest
<1>7. ASSUME s # <<>>, c.do \in Deciding \/ c.do \in {"get", "use", "del"}
      PROVE  Sound(d, rest)
  BY <1>1, <1>6, <1>7, SoundTail DEF c, rest
<1>8. ASSUME s # <<>>, c.do \in Deciding \/ c.do \in {"get", "use", "del"},
             NEW do \in {"grant", "delete", "revoke"}, NEW on, NEW who,
             Has(s, Command(do, on, who))
      PROVE  Has(rest, Command(do, on, who))
  BY <1>1, <1>5, <1>6, <1>8
<1>a. CASE e = d /\ t = s
  BY <1>a
<1>b. CASE s # <<>> /\ t = rest /\ c.do \in {"get", "use", "del"} /\ e = d
  BY <1>4, <1>7, <1>8, <1>b
<1>c. CASE s # <<>> /\ t = rest /\ Does(c, d, e)
  BY <1>c, SoundDoes, AgreeingDoes DEF c, rest
<1>d. CASE /\ s # <<>> /\ e = d
           /\ \E calls \in Scripts :
                /\ Decides(d, r, c, calls)
                /\ c.do \in {"dismiss", "tour", "visit"}
                /\ t = calls \o rest
  <2>1. PICK calls \in Scripts :
          /\ Decides(d, r, c, calls)
          /\ c.do \in {"dismiss", "tour", "visit"}
          /\ t = calls \o rest
    BY <1>d
  <2>2. Sound(d, calls)
    BY <1>1, <1>2, <1>3, <1>d, <2>1, DecidesSound
  <2>3. Sound(d, t)
    BY <1>1, <1>6, <1>7, <1>d, <2>1, <2>2, SoundCat
  <2>4. Agreeing(e, t)
    <3>1. \A x : Has(rest, x) => Has(t, x)
      BY <1>1, <1>d, <2>1, HasCat
    <3> QED
      BY <1>4, <1>6, <1>8, <1>d, <2>1, <3>1
  <2> QED
    BY <1>d, <2>3, <2>4
<1>e. CASE /\ s # <<>> /\ rest = <<>> /\ e = d
           /\ Decides(d, r, c, t) /\ c.do \in Final
  <2>1. Sound(d, t)
    BY <1>1, <1>2, <1>3, <1>e, DecidesSound
  <2>2. \A x : ~Has(rest, x)
    BY <1>e, HasNothing
  <2>3. Agreeing(e, t)
    BY <1>4, <1>6, <1>8, <1>e, <2>2
  <2> QED
    BY <1>e, <2>1, <2>3
<1>f. CASE /\ s # <<>> /\ rest = <<>> /\ c.do = "insert"
           /\ c.on \in Places /\ c.who \in Accounts
           /\ d[Grand] # Nil /\ d[c.on] = Nil
           /\ e = [d EXCEPT ![c.on] = NewPlace]
           /\ t = Founding(c.on, c.who)
  <2> DEFINE p == c.on
             a == c.who
  <2>1. p \in Places /\ a \in Accounts /\ d[p] = Nil
    BY <1>f
  <2>2. DOMAIN d = Keys /\ p \in Keys /\ \A b \in Accounts : b \in Keys /\ b # p
    BY <1>2, <2>1, KeyKinds DEF Stores, IsStore
  <2>3. /\ e[p] = NewPlace
        /\ \A k \in Keys : k # p => e[k] = d[k]
    BY <1>f, <2>2
  <2>4. NewPlace # Nil /\ NewPlace.creators = {} /\ NewPlace.keys = {}
    BY PlacesAssumption DEF NewPlace, PlaceDocs
  <2>5. \A x : Has(t, x) <=>
          x \in {Command("count", Grand, NoOne), Get(p), Get(a),
                 Command("join", p, a), Command("grant", p, a),
                 Command("raise", p, a), Del(Grand), Del(a), Del(p)}
    BY <1>f, DoesFound
  <2>6. \A q, b : ~Bare(t, Command("grant", q, b), {Command("join", q, b)})
    BY <1>f, DoesFound
  <2> HIDE DEF p, a
  <2>7. \A do \in {"expel", "revoke", "delete", "enlist", "admit",
                   "dismiss"} : \A on, who :
          ~Has(t, Command(do, on, who))
    BY <2>5, Fields
  <2>8. \A do \in {"expel", "revoke", "delete"} : \A on, who, C :
          ~Bare(t, Command(do, on, who), C)
    BY <2>7 DEF Bare, Has
  <2>9. \A q, b : /\ Has(t, Command("join", q, b)) => q = p
                  /\ Has(t, Command("grant", q, b)) => q = p
    BY <2>5, Fields
  <2>10. Sound(e, t)
    BY <2>3, <2>4, <2>6, <2>7, <2>8, <2>9 DEF Sound
  <2>11. ASSUME NEW q \in Places
         PROVE  Belong(e, q) = Belong(d, q)
    <3>1. CASE q = p
      BY <2>1, <2>3, <2>4, <3>1 DEF Belong, Ranked, Held
    <3>2. CASE q # p
      BY <2>3, <3>2, KeyKinds DEF Belong, Ranked, Held
    <3> QED
      BY <3>1, <3>2
  <2>12. \A b \in Accounts : e[b] = d[b]
    BY <2>2, <2>3
  <2>13. \A do \in {"grant", "delete", "revoke"} : \A on, who :
           ~Has(s, Command(do, on, who))
    <3>1. \A x : ~Has(rest, x)
      BY <1>f, HasNothing
    <3>2. c.do \in Deciding
      BY <1>f DEF Deciding
    <3> QED
      BY <1>8, <1>f, <3>1, <3>2
  <2>14. Agreeing(e, t)
    BY <2>11, <2>12, <2>13 DEF Agreeing
  <2> QED
    BY <2>10, <2>14
<1> QED
  BY <1>0, <1>a, <1>b, <1>c, <1>d, <1>e, <1>f DEF StepCase, c, rest

-----------------------------------------------------------------------------
(* The invariant of a lone worker.                                         *)

(* Founded places, and every request once it is answered, leave nothing to *)
(* be done.                                                                *)
LEMMA SettledScript ==
  ASSUME NEW d, NEW s, NEW dos, Only(s, dos), dos \subseteq {"get", "serve"},
         Finals(s), Agreeing(d, <<>>), ChildrenDue(d, <<>>)
  PROVE  InStep(d, s)
<1>1. dos \cap {"join", "grant", "expel", "revoke", "delete", "enlist",
                "admit", "dismiss"} = {}
  OBVIOUS
<1>2. Sound(d, s)
  BY <1>1, SoundOnly
<1>3. Ordered(s)
  <2>1. \A i \in 1..Len(s) : s[i].do # "evict"
    BY DEF Only
  <2>2. ASSUME NEW p
        PROVE  Followed(s, Command("evict", p, NoOne),
                           Command("delete", p, NoOne))
    BY <2>1, Fields DEF Followed
  <2> QED
    BY <2>2 DEF Ordered
<1>4. Agreeing(d, s)
  BY HasNothing DEF Agreeing
<1>5. ChildrenDue(d, s)
  <2>1. Kept(d, s) = Kept(d, <<>>)
    <3>1. \A p : ~Has(s, Command("delete", p, NoOne))
      BY OnlyHas
    <3> QED
      BY <3>1, HasNothing DEF Kept
  <2>2. Pending(s, "count") = 0 /\ Pending(s, "uncount") = 0
    <3>1. s # <<>> => 1 \in 1..Len(s) /\ s[1] = Head(s)
      BY DEF Only, Scripts
    <3>2. s # <<>> => Head(s).do \in dos
      BY <3>1 DEF Only
    <3> QED
      BY <3>2 DEF Pending
  <2>3. Pending(<<>>, "count") = 0 /\ Pending(<<>>, "uncount") = 0
    BY DEF Pending
  <2> QED
    BY <2>1, <2>2, <2>3 DEF ChildrenDue
<1> QED
  BY <1>2, <1>3, <1>4, <1>5 DEF InStep

LEMMA FoundedDocs ==
  ASSUME NEW f \in Foundings, db = Founded(f), NEW p \in Places
  PROVE  /\ f[p] = Nil => db[p] = Nil
         /\ f[p] # Nil => /\ db[p] # Nil
                          /\ db[p].creators = f[p].creators
                          /\ db[p].keys = f[p].keys
                          /\ f[p].creators \in SUBSET Accounts
                          /\ f[p].keys \in SUBSET Accounts
                          /\ p = Grand => db[p].nChildren =
                               Cardinality({q \in Subs : f[q] # Nil})
<1>1. p \in Keys /\ p \notin Accounts
  BY KeyKinds
<1>2. f[p] = Nil => db[p] = Nil
  BY <1>1 DEF Founded
<1>3. ASSUME f[p] # Nil
      PROVE  /\ db[p] # Nil
             /\ db[p].creators = f[p].creators /\ db[p].keys = f[p].keys
             /\ f[p].creators \in SUBSET Accounts
             /\ f[p].keys \in SUBSET Accounts
             /\ p = Grand => db[p].nChildren =
                  Cardinality({q \in Subs : f[q] # Nil})
  <2> DEFINE n == Cardinality(f[p].creators)
             m == Cardinality(f[p].keys)
             k == IF p = Grand THEN Cardinality({q \in Subs : f[q] # Nil})
                               ELSE 0
             c == [creators |-> f[p].creators, keys |-> f[p].keys,
                   nCreators |-> n, nKeys |-> m, nChildren |-> k]
  <2>1. f[p].creators \in SUBSET Accounts /\ f[p].keys \in SUBSET Accounts
    <3>1. f[p] \in Rosters
      BY <1>3, PlacesAssumption
    <3> QED
      BY <3>1 DEF Rosters
  <2>2. n \in Int /\ m \in Int /\ k \in Int
    BY <2>1, KeysAssumption, FS_Subset, FS_CardinalityType
  <2>3. db[p] = c
    BY <1>1, <1>3 DEF Founded
  <2>4. p = Grand => k = Cardinality({q \in Subs : f[q] # Nil})
    OBVIOUS
  <2> HIDE DEF n, m, k
  <2>5. c \in PlaceDocs
    BY <2>1, <2>2 DEF PlaceDocs
  <2> QED
    BY <2>1, <2>3, <2>4, <2>5, PlacesAssumption
<1> QED
  BY <1>2, <1>3

LEMMA InitAlone == Init => Alone
<1> SUFFICES ASSUME Init
             PROVE  InStep(db, <<>>) /\ \A w \in Workers : script[w] = <<>>
  BY DEF Alone
<1>1. PICK f \in Foundings : db = Founded(f)
  BY DEF Init
<1>2. \A p \in Places :
        /\ db[p] = Nil <=> f[p] = Nil
        /\ f[p] # Nil => Belong(db, p) = Members(f[p])
  BY <1>1, FoundedDocs DEF Belong, Ranked, Held, Members
<1>3. \A p \in Places : db[p] = Nil => Belong(db, p) = {}
  BY DEF Belong, Ranked, Held
<1>4. \A a \in Accounts :
        db[a].access = {p \in Places : f[p] # Nil /\ a \in Members(f[p])}
  BY <1>1, KeyKinds DEF Founded
<1>5. Agreeing(db, <<>>)
  BY <1>2, <1>3, <1>4 DEF Agreeing
<1>6. ChildrenDue(db, <<>>)
  <2>1. Grand \in Places /\ Subs \subseteq Places /\ f[Grand] # Nil
    BY PlacesAssumption DEF Places
  <2>2. Kept(db, <<>>) = {p \in Subs : f[p] # Nil}
    BY <1>2, <2>1, HasNothing DEF Kept
  <2>3. db[Grand].nChildren = Cardinality({p \in Subs : f[p] # Nil})
    BY <1>1, <2>1, FoundedDocs
  <2>4. db[Grand].nChildren \in Int
    BY <1>2, <2>1, InitTypeOK DEF TypeOK, IsStore, PlaceDocs
  <2>5. Pending(<<>>, "count") = 0 /\ Pending(<<>>, "uncount") = 0
    BY DEF Pending
  <2> QED
    BY <2>2, <2>3, <2>4, <2>5 DEF ChildrenDue
<1>7. Only(<<>>, {}) /\ Finals(<<>>)
  BY OnlyShort, OnlyFinals
<1>8. InStep(db, <<>>)
  BY <1>5, <1>6, <1>7, SettledScript
<1> QED
  BY <1>8 DEF Init

(* A request starts with its account and place read.                       *)
LEMMA ReceiveOpens ==
  ASSUME TypeOK, NEW w \in Workers, Receive(w)
  PROVE  Only(script'[w], {"get", "serve"}) /\ Finals(script'[w])
<1>1. PICK r \in Requests :
        script' = [script EXCEPT ![w] =
          <<Get(r.who), Get(Subject(r)), Command("serve", r.place, r.who)>>]
  BY DEF Receive
<1> DEFINE x == Get(r.who)
           y == Get(Subject(r))
           z == Command("serve", r.place, r.who)
<1>2. script'[w] = <<x, y, z>>
  BY <1>1 DEF TypeOK
<1>3. /\ x \in Commands /\ x.do = "get" /\ y \in Commands /\ y.do = "get"
      /\ z \in Commands /\ z.do = "serve"
  BY RequestFields, KeyKinds, PlainCommands, Fields
<1> HIDE DEF x, y, z
<1> DEFINE s == <<x, y, z>>
<1>4. s \in Scripts
  BY <1>3 DEF Scripts
<1>5. 1..Len(s) = {1, 2, 3} /\ Len(s) = 3
  OBVIOUS
<1>6. Only(s, {"get", "serve"}) /\ Finals(s)
  BY <1>3, <1>4, <1>5 DEF Only, Finals, Final
<1> QED
  BY <1>2, <1>6

LEMMA WorkerAdvances ==
  ASSUME TypeOK, RosterCounted, TypeOK', RosterCounted',
         NEW w \in Workers, SoloAt(w), ~Stopped(script'[w]), SoloAt(w)',
         \/ Receive(w) \/ Answer(w) \/ Read(w) \/ Drop(w) \/ UsePlace(w)
         \/ Handle(w) \/ Write(w)
  PROVE  Advances(db, req[w], script[w], db', script'[w])
<1>1. CASE Receive(w)
  BY <1>1, ReceiveOpens DEF Advances, Receive
<1>2. CASE Answer(w)
  BY <1>2 DEF Answer, Advances
<1>3. CASE Read(w) \/ Drop(w) \/ UsePlace(w) \/ Handle(w) \/ Write(w)
  <2> DEFINE d == db
             r == req[w]
             s == script[w]
             e == db'
             t == script'[w]
  <2>1. Steps(d, r, s, e, t) /\ req' = req
    BY <1>3, LoneSteps
  <2>2. CASE r \in Requests
    <3>1. Course(d, r, s)
      BY <2>2, StoresNow DEF Course, SoloAt, TypeOK, Scripts
    <3>2. Course(e, r, t)
      BY <2>1, <2>2, StoresNow DEF Course, SoloAt, TypeOK, Scripts
    <3> HIDE DEF d, r, s, e, t
    <3>3. Advances(d, r, s, e, t)
      BY <2>1, <3>1, <3>2 DEF Advances
    <3> QED
      BY <3>3 DEF d, r, s, e, t
  <2>3. CASE r \notin Requests
    <3>1. s = <<>>
      BY <2>3, AtCommand
    <3>2. e = d /\ t = s
      BY <2>1, <3>1 DEF Steps
    <3> QED
      BY <3>2 DEF Advances
  <2> QED
    BY <2>2, <2>3
<1> QED
  BY <1>1, <1>2, <1>3

(* The worker there is, if it goes on.                                     *)
LEMMA NextAdvances ==
  ASSUME OneWorker, TypeOK, RosterCounted, Solo,
         TypeOK', RosterCounted', Solo', [Next]_vars
  PROVE  \/ db' = db /\ script' = script
         \/ \E w \in Workers :
              /\ Workers = {w}
              /\ \/ Stopped(script'[w])
                 \/ /\ ~Stopped(script[w])
                    /\ \E r : Advances(db, r, script[w], db', script'[w])
<1>1. CASE UNCHANGED vars
  BY <1>1 DEF vars
<1>2. CASE Quiet
  BY <1>2 DEF Quiet, vars
<1>3. CASE Next /\ ~Quiet
  <2>1. PICK w \in Workers :
          \/ Receive(w) \/ Answer(w) \/ Read(w) \/ Drop(w) \/ UsePlace(w)
          \/ Handle(w) \/ Write(w)
    BY <1>3 DEF Next
  <2>2. Workers = {w}
    BY DEF OneWorker
  <2>3. SUFFICES ASSUME ~Stopped(script'[w])
                 PROVE  /\ ~Stopped(script[w])
                        /\ Advances(db, req[w], script[w], db', script'[w])
    BY <2>2
  <2>4. ~Stopped(script[w])
    BY <2>1, <2>3, StoppedStep
  <2>5. SoloAt(w) /\ SoloAt(w)'
    BY <2>3, <2>4 DEF Solo
  <2> QED
    BY <2>1, <2>3, <2>4, <2>5, WorkerAdvances
<1> QED
  BY <1>1, <1>2, <1>3

LEMMA StepInStep ==
  ASSUME NEW d, NEW r, NEW s, NEW e, NEW t, Advances(d, r, s, e, t),
         InStep(d, s)
  PROVE  InStep(e, t)
<1>1. CASE e = d /\ s = <<>> /\ Only(t, {"get", "serve"}) /\ Finals(t)
  BY <1>1, SettledScript DEF InStep
<1>2. CASE e = d /\ t = s
  BY <1>2
<1>3. CASE Course(d, r, s) /\ Course(e, r, t) /\ Steps(d, r, s, e, t)
  <2>1. Ordered(s) /\ Sound(d, s) /\ Agreeing(d, s) /\ ChildrenDue(d, s)
    BY DEF InStep
  <2>2. Ordered(t) /\ Sound(e, t) /\ Agreeing(e, t) /\ ChildrenDue(e, t)
    BY <1>3, <2>1, StepOrdered, StepAccess, StepChildren
  <2> QED
    BY <2>2 DEF InStep
<1> QED
  BY <1>1, <1>2, <1>3 DEF Advances

LEMMA NextAlone ==
  ASSUME OneWorker, TypeOK, RosterCounted, Solo, Alone,
         TypeOK', RosterCounted', Solo', [Next]_vars
  PROVE  Alone'
<1>1. CASE db' = db /\ script' = script
  BY <1>1 DEF Alone
<1>2. CASE \E w \in Workers :
             /\ Workers = {w}
             /\ \/ Stopped(script'[w])
                \/ /\ ~Stopped(script[w])
                   /\ \E r : Advances(db, r, script[w], db', script'[w])
  <2>1. PICK w \in Workers :
          /\ Workers = {w}
          /\ \/ Stopped(script'[w])
             \/ /\ ~Stopped(script[w])
                /\ \E r : Advances(db, r, script[w], db', script'[w])
    BY <1>2
  <2>2. ASSUME ~Stopped(script'[w]) PROVE InStep(db', script'[w])
    <3>1. InStep(db, script[w])
      BY <2>1, <2>2 DEF Alone
    <3> QED
      BY <2>1, <2>2, <3>1, StepInStep
  <2> QED
    BY <2>1, <2>2 DEF Alone
<1> QED
  BY <1>1, <1>2, NextAdvances

(* Without a script nothing is left to be done.                            *)
LEMMA IdleSettled ==
  ASSUME TypeOK, Alone, Idle
  PROVE  Agreeing(db, <<>>) /\ ChildrenDue(db, <<>>)
<1>1. CASE Workers = {}
  BY <1>1 DEF Alone, InStep
<1>2. CASE Workers # {}
  <2>1. PICK w \in Workers : TRUE
    BY <1>2
  <2>2. script[w] = <<>>
    BY DEF Idle, TypeOK
  <2>3. ~Stopped(script[w])
    BY <2>2, StoppedStays
  <2> QED
    BY <2>2, <2>3 DEF Alone, InStep
<1> QED
  BY <1>1, <1>2

LEMMA AloneStays ==
  ASSUME OneWorker
  PROVE  Spec => [](TypeOK /\ Alone)
<1> DEFINE Inv == TypeOK /\ RosterCounted /\ Solo /\ Alone
<1>1. Init => Inv
  BY InitTypeOK, InitCounted, InitSolo, InitAlone
<1>2. Inv /\ [Next]_vars => Inv'
  <2> SUFFICES ASSUME Inv, [Next]_vars PROVE Inv'
    OBVIOUS
  <2>1. TypeOK' /\ RosterCounted'
    BY StepTypeOK, StepCounted
  <2>2. Solo'
    BY NextSolo
  <2>3. Alone'
    BY <2>1, <2>2, NextAlone
  <2> QED
    BY <2>1, <2>2, <2>3
<1>3. Inv => TypeOK /\ Alone
  OBVIOUS
<1> HIDE DEF Inv
<1> QED
  BY <1>1, <1>2, <1>3, PTL DEF Spec

(* With one request at a time, between requests an account lists the       *)
(* places it is a member of and no others: in a request every command that *)
(* changes a roster is followed by the one that changes the account, on    *)
(* every way AddKeyHolder, RemoveKeyHolder and Remove are called.          *)
THEOREM AccountsListPlaces == OneWorker /\ Spec => []AccessAgrees
<1> SUFFICES ASSUME OneWorker PROVE Spec => []AccessAgrees
  OBVIOUS
<1>1. TypeOK /\ Alone => AccessAgrees
  <2> SUFFICES ASSUME TypeOK, Alone, Idle, NEW a \in Accounts
               PROVE  db[a].access =
                        {p \in Places : db[p] # Nil /\ a \in Members(db[p])}
    BY DEF AccessAgrees
  <2>1. \A p \in Places :
          p \in db[a].access <=> db[p] # Nil /\ a \in Members(db[p])
    BY IdleSettled, HasNothing
       DEF Agreeing, Belong, Ranked, Held, Members
  <2>2. db[a].access \subseteq Places
    BY KeyKinds DEF TypeOK, IsStore, AccountDocs
  <2> QED
    BY <2>1, <2>2
<1> QED
  BY <1>1, AloneStays, PTL

(* With one request at a time, between requests the grand place's          *)
(* counters.childs is the number of its sub-places, although the places    *)
(* and the counter change in different commands.                           *)
THEOREM ChildrenStayCounted == OneWorker /\ Spec => []ChildrenCounted
<1> SUFFICES ASSUME OneWorker PROVE Spec => []ChildrenCounted
  OBVIOUS
<1>1. TypeOK /\ Alone => ChildrenCounted
  <2> SUFFICES ASSUME TypeOK, Alone, Idle, db[Grand] # Nil
               PROVE  db[Grand].nChildren =
                        Cardinality({p \in Subs : db[p] # Nil})
    BY DEF ChildrenCounted
  <2>1. db[Grand].nChildren + Pending(<<>>, "count")
          = Cardinality(Kept(db, <<>>)) + Pending(<<>>, "uncount")
    BY IdleSettled DEF ChildrenDue
  <2>2. Pending(<<>>, "count") = 0 /\ Pending(<<>>, "uncount") = 0
    BY DEF Pending
  <2>3. Kept(db, <<>>) = {p \in Subs : db[p] # Nil}
    BY HasNothing DEF Kept
  <2>4. Grand \in Places /\ db[Grand].nChildren \in Int
    BY DEF TypeOK, IsStore, Places, PlaceDocs
  <2> DEFINE n == Cardinality(Kept(db, <<>>))
  <2>5. n \in Nat
    BY KeptFinite
  <2>6. n = Cardinality({p \in Subs : db[p] # Nil})
    BY <2>3
  <2> HIDE DEF n
  <2>7. db[Grand].nChildren = n
    BY <2>1, <2>2, <2>4, <2>5 DEF n
  <2> QED
    BY <2>6, <2>7
<1> QED
  BY <1>1, AloneStays, PTL

-----------------------------------------------------------------------------
(* The members of sub-places are members of the grand place.               *)

LEMMA HousingOnly ==
  ASSUME NEW d, NEW s, NEW dos, Only(s, dos),
         dos \cap {"join", "insert", "expel", "admit", "visit", "delete"} = {}
  PROVE  Housing(d, s)
<1>1. \A do \in {"join", "insert", "expel", "admit", "visit", "delete"} :
         \A on, who : ~Has(s, Command(do, on, who))
  BY OnlyHas
<1>2. \A on, who, C : ~Bare(s, Command("expel", on, who), C)
  BY <1>1 DEF Bare, Has
<1> QED
  BY <1>1, <1>2 DEF Housing

LEMMA DepartingDo ==
  ASSUME NEW q, NEW a, NEW c \in Departing(q, a)
  PROVE  /\ c.do \in {"expel", "visit", "tour"}
         /\ c.do = "expel" => c = Command("expel", q, a)
         /\ c.do = "visit" => c = Command("visit", q, a)
         /\ c.do = "tour" => q \in c.on /\ c.who = a
<1>1. \/ c = Command("expel", q, a) \/ c = Command("visit", q, a)
      \/ \E S \in SUBSET Subs : q \in S /\ c = Command("tour", S, a)
  BY DEF Departing
<1> QED
  BY <1>1, Fields

LEMMA HousingTail ==
  ASSUME NEW d, NEW s \in Scripts, s # <<>>, Housing(d, s),
         Head(s).do \notin {"expel", "visit", "tour"}
  PROVE  Housing(d, Tail(s))
<1> DEFINE t == Tail(s)
<1>1. \A x : Has(t, x) => Has(s, x)
  BY HasTail
<1>2. ASSUME NEW x, NEW q, NEW a, Bare(t, x, Departing(q, a))
      PROVE  Bare(s, x, Departing(q, a))
  BY <1>2, BareTail, DepartingDo
<1> HIDE DEF t
<1>3. Housing(d, t)
  BY <1>1, <1>2 DEF Housing
<1> QED
  BY <1>3 DEF t

LEMMA HousingCat ==
  ASSUME NEW d, NEW s \in Scripts, NEW t \in Scripts,
         Housing(d, s), Housing(d, t)
  PROVE  Housing(d, s \o t)
<1> DEFINE u == s \o t
<1>1. \A x : Has(u, x) => Has(s, x) \/ Has(t, x)
  BY HasCat
<1>2. \A x, C : Bare(u, x, C) => Bare(s, x, C) \/ Bare(t, x, C)
  BY BareCat
<1> HIDE DEF u
<1>3. Housing(d, u)
  BY <1>1, <1>2 DEF Housing
<1> QED
  BY <1>3 DEF u

(* Updates.                                                                *)
LEMMA HousingDoes ==
  ASSUME NEW d, NEW r, NEW s, NEW e, Course(d, r, s), s # <<>>,
         Course(e, r, Tail(s)), Does(Head(s), d, e),
         Sound(d, s), Inside(d), Housing(d, s)
  PROVE  Inside(e) /\ Housing(e, Tail(s))
<1> DEFINE c == Head(s)
           t == Tail(s)
<1>1. /\ s \in Scripts /\ c \in Commands /\ Stores(d) /\ Stores(e)
      /\ c.do \in Reading \cup Running(r.op)
      /\ r \in Requests /\ r.op \in Ops
  BY CourseHead, RequestFields DEF Course
<1>2. \A x : Has(s, x) <=> c = x \/ Has(t, x)
  BY <1>1, HasTail
<1>3. \A x, C : /\ Bare(t, x, C) => Bare(s, x, C) \/ c \in C
                /\ c = x => Bare(s, x, C)
                /\ Bare(s, x, C) => Has(s, x)
                /\ Bare(t, x, C) => Has(t, x)
  <2>1. \A x, C : Bare(t, x, C) => Has(t, x)
    BY DEF Bare, Has
  <2> HIDE DEF t
  <2>2. \A x, C : /\ Bare(t, x, C) => Bare(s, x, C) \/ c \in C
                  /\ c = x => Bare(s, x, C)
                  /\ Bare(s, x, C) => Has(s, x)
    BY <1>1, BareTail DEF t
  <2> QED
    BY <2>1, <2>2
<1>4. c.do \in Updating
  BY DoesUpdates
<1>5. \A do, on, who : c = Command(do, on, who) => c.do = do
  BY Fields
<1>6. ASSUME NEW do, NEW on, NEW who, Has(s, Command(do, on, who))
      PROVE  do \in Reading \cup Running(r.op)
  BY <1>6, CourseHas
<1>7. /\ {"join", "insert", "admit"} \cap (Reading \cup Running(r.op)) # {}
           => c.do \notin {"expel", "delete"}
      /\ "expel" \in Reading \cup Running(r.op) => c.do # "join"
  BY <1>1 DEF Reading, Running, AddingSteps, LeavingSteps, Ops
<1>8. Grand \in Places /\ Subs \subseteq Places
  BY DEF Places
<1> HIDE DEF c, t
<1>9. \A p \in Places : \A b :
        /\ b \in Belong(e, p) /\ b \notin Belong(d, p) =>
             c = Command("join", p, b)
        /\ b \in Belong(d, p) /\ b \notin Belong(e, p) =>
             c = Command("expel", p, b) \/ c = Command("delete", p, NoOne)
        /\ c = Command("expel", p, b) /\ b \notin Ranked(d, p) =>
             b \notin Belong(e, p)
        /\ d[p] # Nil /\ e[p] = Nil => c = Command("delete", p, NoOne)
        /\ d[p] = Nil => e[p] = Nil
  BY <1>1, DoesBelong DEF c
<1>10. \A p \in Places : Belong(d, p) \subseteq Accounts
  BY <1>1 DEF Stores, IsStore, PlaceDocs, Belong, Ranked, Held
<1>11. \A p : d[p] = Nil => Belong(d, p) = {}
  BY DEF Belong, Ranked, Held
(* The grand place loses nobody a sub-place keeps.                         *)
<1>12. ASSUME NEW p \in Subs, NEW b \in Belong(d, p)
       PROVE  b \in Belong(e, Grand)
  <2>1. b \in Belong(d, Grand) /\ b \in Accounts
    BY <1>8, <1>10, <1>12 DEF Inside
  <2>2. c # Command("expel", Grand, b)
    <3>1. ~Bare(s, Command("expel", Grand, b), Departing(p, b))
      BY <1>12, <2>1 DEF Housing
    <3> QED
      BY <1>3, <3>1
  <2>3. c # Command("delete", Grand, NoOne)
    <3>1. d[p] # Nil
      BY <1>11, <1>12
    <3>2. ~Has(s, Command("delete", Grand, NoOne))
      BY <3>1 DEF Housing
    <3> QED
      BY <1>2, <3>2
  <2> QED
    BY <1>8, <1>9, <2>1, <2>2, <2>3
<1>13. ASSUME NEW do \in {"join", "insert", "admit"}, NEW on, NEW who,
              Has(s, Command(do, on, who)), NEW b \in Belong(d, Grand)
       PROVE  b \in Belong(e, Grand)
  <2>1. c.do \notin {"expel", "delete"}
    BY <1>6, <1>7, <1>13
  <2> QED
    BY <1>5, <1>8, <1>9, <2>1
<1>a. Inside(e)
  <2> SUFFICES ASSUME NEW p \in Subs
               PROVE  /\ e[p] # Nil => e[Grand] # Nil
                      /\ \A b \in Belong(e, p) : b \in Belong(e, Grand)
    BY DEF Inside
  <2>1. ASSUME e[p] # Nil PROVE e[Grand] # Nil
    <3>1. d[p] # Nil /\ d[Grand] # Nil
      BY <1>8, <1>9, <2>1 DEF Inside
    <3>2. ~Has(s, Command("delete", Grand, NoOne))
      BY <3>1 DEF Housing
    <3> QED
      BY <1>2, <1>8, <1>9, <3>1, <3>2
  <2>2. ASSUME NEW b \in Belong(e, p) PROVE b \in Belong(e, Grand)
    <3>1. CASE b \in Belong(d, p)
      BY <1>12, <3>1
    <3>2. CASE b \notin Belong(d, p)
      <4>1. c = Command("join", p, b) /\ Has(s, Command("join", p, b))
        BY <1>2, <1>8, <1>9, <2>2, <3>2
      <4>2. b \in Accounts
        BY <1>1, <1>5, <4>1, CommandFields, Fields
      <4>3. b \in Belong(d, Grand)
        BY <4>1, <4>2 DEF Housing
      <4> QED
        BY <1>13, <4>1, <4>3
    <3> QED
      BY <3>1, <3>2
  <2> QED
    BY <2>1, <2>2
<1>b. ASSUME NEW p \in Subs, NEW a \in Accounts, NEW do \in {"join", "insert"},
             Has(t, Command(do, p, a))
      PROVE  a \in Belong(e, Grand)
  <2>1. Has(s, Command(do, p, a))
    BY <1>2, <1>b
  <2>2. a \in Belong(d, Grand)
    BY <1>b, <2>1 DEF Housing
  <2> QED
    BY <1>13, <2>1, <2>2
<1>c. ASSUME NEW p \in Subs, NEW a \in Accounts,
             Bare(t, Command("expel", Grand, a), Departing(p, a))
      PROVE  a \notin Belong(e, p)
  <2>1. Has(s, Command("expel", Grand, a))
    BY <1>2, <1>3, <1>c
  <2>2. c.do # "join"
    BY <1>6, <1>7, <2>1
  <2>3. CASE Bare(s, Command("expel", Grand, a), Departing(p, a))
    <3>1. a \notin Belong(d, p)
      BY <2>3 DEF Housing
    <3> QED
      BY <1>5, <1>8, <1>9, <2>2, <3>1
  <2>4. CASE c \in Departing(p, a)
    <3>1. c = Command("expel", p, a)
      BY <1>4, <2>4, DepartingDo DEF Updating
    <3>2. Bare(s, Command("expel", p, a), {Command("lower", p, a)})
      BY <1>3, <3>1
    <3>3. a \notin Ranked(d, p)
      BY <1>8, <3>2 DEF Sound
    <3> QED
      BY <1>8, <1>9, <3>1, <3>3
  <2> QED
    BY <1>3, <1>c, <2>3, <2>4
<1>d. ASSUME NEW l \in Loops, NEW a \in Accounts, l.place \in Subs,
             Has(t, Command("admit", l, a))
      PROVE  l.eligible \subseteq Belong(e, Grand)
  <2>1. Has(s, Command("admit", l, a))
    BY <1>2, <1>d
  <2>2. l.eligible \subseteq Belong(d, Grand)
    BY <1>d, <2>1 DEF Housing
  <2> QED
    BY <1>13, <2>1, <2>2
<1>e. ASSUME Has(t, Command("delete", Grand, NoOne)), NEW p \in Subs
      PROVE  e[p] = Nil
  <2>1. d[p] = Nil
    BY <1>2, <1>e DEF Housing
  <2> QED
    BY <1>8, <1>9, <2>1
<1>f. \A a \in Accounts : ~Has(t, Command("visit", Grand, a))
  BY <1>2 DEF Housing
<1>14. Housing(e, t)
  BY <1>b, <1>c, <1>d, <1>e, <1>f DEF Housing
<1> QED
  BY <1>a, <1>14 DEF t

(* Who is removed by role leaves the place; from the grand place after the *)
(* sub-places toured.                                                      *)
LEMMA HousingLeave ==
  ASSUME NEW d, NEW S \in SUBSET Subs, NEW p \in Places, NEW a \in Accounts,
         NEW c, p = Grand => \A q \in Subs : a \in Belong(d, q) => q \in S
  PROVE  Housing(d, Tour(S, a) \o RemoveByRole(p, a, c))
<1> DEFINE u == Tour(S, a)
           v == RemoveByRole(p, a, c)
           s == u \o v
<1>1. Only(u, {"tour"}) /\ Only(v, Removing)
  BY OnlyUnits
<1>2. \A do \in {"join", "insert", "admit", "visit", "delete"} :
        \A on, who : ~Has(s, Command(do, on, who))
  <2>1. {"join", "insert", "admit", "visit", "delete"}
          \cap ({"tour"} \cup Removing) = {}
    BY DEF Removing
  <2>2. \A x : Has(s, x) => Has(u, x) \/ Has(v, x)
    BY <1>1, HasCat DEF Only
  <2> HIDE DEF u, v, s
  <2> QED
    BY <1>1, <2>1, <2>2, OnlyHas
<1>3. ASSUME NEW q \in Subs, NEW b \in Accounts,
             Bare(s, Command("expel", Grand, b), Departing(q, b))
      PROVE  b \notin Belong(d, q)
  <2>1. ~Has(u, Command("expel", Grand, b))
    BY <1>1, OnlyHas
  <2>2. ~Bare(u, Command("expel", Grand, b), Departing(q, b))
    BY <2>1 DEF Bare, Has
  <2>3. /\ Bare(v, Command("expel", Grand, b), Departing(q, b))
        /\ \A x \in Departing(q, b) : ~Has(u, x)
    BY <1>1, <1>3, <2>2, BareCat DEF Only
  <2>4. Has(v, Command("expel", Grand, b))
    BY <2>3 DEF Bare, Has
  <2>5. \/ Command("expel", Grand, b) \in
             {Command("expel", p, a), Command("revoke", p, a),
              Get(p), Del(a), Del(p)}
        \/ Command("expel", Grand, b) = Command("lower", p, a)
    BY <2>4, DoesRole
  <2>6. p = Grand /\ b = a
    BY <2>5, Fields
  <2>7. q \notin S
    <3> SUFFICES ASSUME q \in S PROVE FALSE
      OBVIOUS
    <3>1. u = <<Command("tour", S, a)>>
      BY DEF Tour
    <3>2. Has(u, Command("tour", S, a))
      BY <3>1, DoesShort
    <3>3. Command("tour", S, a) \in Departing(q, a)
      BY DEF Departing
    <3> QED
      BY <2>3, <2>6, <3>2, <3>3
  <2> QED
    BY <2>6, <2>7
<1> HIDE DEF s
<1>4. Housing(d, s)
  BY <1>2, <1>3, KeysAssumption DEF Housing
<1> QED
  BY <1>4 DEF s

(* Members who are let in.                                                 *)
LEMMA HousingAdding ==
  ASSUME NEW d, NEW p \in Places, NEW a \in Accounts
  PROVE  /\ p \in Subs /\ a \in Belong(d, Grand) =>
              Housing(d, AddKeyHolder(p, a))
         /\ p = Grand => Housing(d, AddKeyHolder(p, a))
         /\ \A l \in Loops :
              (l.place \in Subs => l.eligible \subseteq Belong(d, Grand)) =>
                Housing(d, AddMembers(l, a))
<1>1. ASSUME p = Grand \/ (p \in Subs /\ a \in Belong(d, Grand))
      PROVE  Housing(d, AddKeyHolder(p, a))
  <2> DEFINE s == AddKeyHolder(p, a)
             dos == {"get", "join", "grant", "del"}
  <2>1. /\ Only(s, dos)
        /\ \A c : Has(s, c) => c \in {Get(p), Get(a), Command("join", p, a),
                                      Command("grant", p, a), Del(a), Del(p)}
    BY OnlyUnits, DoesAdd
  <2> HIDE DEF s
  <2>2. \A do \in {"expel", "delete", "insert", "admit", "visit"} :
          \A on, who : ~Has(s, Command(do, on, who))
    BY <2>1, OnlyHas
  <2>3. \A on, who, C : ~Bare(s, Command("expel", on, who), C)
    BY <2>2 DEF Bare, Has
  <2>4. \A q, b : Has(s, Command("join", q, b)) => q = p /\ b = a
    BY <2>1, Fields
  <2>5. Housing(d, s)
    BY <1>1, <2>2, <2>3, <2>4, KeysAssumption DEF Housing
  <2> QED
    BY <2>5 DEF s
<1>2. ASSUME NEW l \in Loops,
             l.place \in Subs => l.eligible \subseteq Belong(d, Grand)
      PROVE  Housing(d, AddMembers(l, a))
  <2> DEFINE s == AddMembers(l, a)
  <2>1. Only(s, {"admit"})
    BY OnlyUnits
  <2>2. \A x : Has(s, x) => x = Command("admit", l, a)
    BY HasNothing, DoesShort DEF AddMembers
  <2> HIDE DEF s
  <2>3. \A do \in {"join", "insert", "expel", "visit", "delete"} :
          \A on, who : ~Has(s, Command(do, on, who))
    BY <2>1, OnlyHas
  <2>4. \A on, who, C : ~Bare(s, Command("expel", on, who), C)
    BY <2>3 DEF Bare, Has
  <2>5. \A k, b : Has(s, Command("admit", k, b)) => k = l
    BY <2>2, SameCommand
  <2>6. Housing(d, s)
    BY <1>2, <2>3, <2>4, <2>5 DEF Housing
  <2> QED
    BY <2>6 DEF s
<1> QED
  BY <1>1, <1>2

(* A read and what it is for.                                              *)
LEMMA HousingRead ==
  ASSUME NEW d, NEW k \in Keys, NEW c \in Commands,
         \/ c.do \in {"use", "enlist", "dismiss", "dissolve"}
         \/ c.do = "insert" /\ c.who \in Belong(d, Grand)
  PROVE  Housing(d, <<Get(k), c>>)
<1> DEFINE s == <<Get(k), c>>
<1>1. Get(k) \in Commands /\ Get(k).do = "get"
  BY PlainCommands, Fields
<1>2. Only(s, {"get", c.do})
  BY <1>1, OnlyShort
<1>3. \A x : Has(s, x) => x = Get(k) \/ x = c
  BY DoesShort
<1> HIDE DEF s
<1>4. \A do \in {"join", "expel", "admit", "visit", "delete"} : \A on, who :
        ~Has(s, Command(do, on, who))
  BY <1>2, OnlyHas
<1>5. \A on, who, C : ~Bare(s, Command("expel", on, who), C)
  BY <1>4 DEF Bare, Has
<1>6. \A p, a : Has(s, Command("insert", p, a)) => a \in Belong(d, Grand)
  BY <1>3, Fields
<1>7. Housing(d, s)
  BY <1>4, <1>5, <1>6 DEF Housing
<1> QED
  BY <1>7 DEF s

LEMMA ServesHousing ==
  ASSUME FoundedByMembers, NEW d, NEW r \in Requests, Stores(d), NEW calls,
         Serves(d, r, calls),
         r.op = "leave" =>
           \A q \in Subs : r.who \in Belong(d, q) => q \in d[r.who].access
  PROVE  Housing(d, calls)
<1> DEFINE p == r.place
           a == r.who
           b == Head(r.list)
           c == d[Subject(r)]
<1>1. /\ p \in Places /\ a \in Accounts /\ Subject(r) \in Places
      /\ r.op \in AboutOne => b \in Accounts
      /\ r.op # "add_place" => c = d[p]
      /\ r.op = "add_place" => c = d[Grand]
  BY RequestFields DEF Subject
<1>2. c \in PlaceDocs /\ c # Nil /\ Valid(r, c) /\ Entitled(r, c)
  BY <1>1 DEF Serves, Stores, IsStore
<1>3. Joining(r, c) \in Loops /\ Joining(r, c).place = p
  BY <1>2, JoiningLoop DEF Joining
<1>4. Grand \in Keys /\ Grand \in Places /\ p \in Keys /\ Grand \notin Subs
      /\ \A x \in Accounts : x \in Keys
  BY <1>1, KeyKinds, KeysAssumption
<1>5. ASSUME NEW s, NEW dos \in {{"raise", "del"}, {"lower", "del"}},
             Only(s, dos)
      PROVE  Housing(d, s)
  <2>1. dos \cap {"join", "insert", "expel", "admit", "visit", "delete"} = {}
    OBVIOUS
  <2> QED
    BY <1>5, <2>1, HousingOnly
<1> HIDE DEF p, a, b, c
<1>a. CASE r.op = "invite_member"
  <2>1. calls = AddMembers(Joining(r, c), a) /\ p = Grand
    BY <1>2, <1>a DEF Serves, Valid, c, a, p
  <2> QED
    BY <1>1, <1>3, <1>4, <2>1, HousingAdding
<1>b. CASE r.op = "add_member"
  <2>1. calls = <<Get(Grand), Command("enlist", Joining(r, c), a)>>
    BY <1>b DEF Serves, c, a
  <2> DEFINE x == Command("enlist", Joining(r, c), a)
  <2>2. x \in Commands /\ x.do = "enlist"
    BY <1>1, <1>3, LoopCommands, Fields
  <2> HIDE DEF x
  <2>3. Housing(d, <<Get(Grand), x>>)
    BY <1>4, <2>2, HousingRead
  <2> QED
    BY <2>1, <2>3 DEF x
<1>c. CASE r.op = "promote_member"
  <2>1. calls = Promote(p, b) /\ b \in Accounts
    BY <1>1, <1>c DEF Serves, p, b, AboutOne
  <2> QED
    BY <1>1, <1>5, <2>1, OnlyUnits
<1>d. CASE r.op = "demote_member"
  <2>1. calls = Demote(p, b) /\ b \in Accounts
    BY <1>1, <1>d DEF Serves, p, b, AboutOne
  <2> QED
    BY <1>1, <1>5, <2>1, OnlyUnits
<1>e. CASE r.op = "leave"
  <2>1. PICK S \in SUBSET Subs :
          /\ p = Grand => d[a].access \cap Subs \subseteq S
          /\ calls = Tour(S, a) \o RemoveByRole(p, a, c)
    BY <1>1, <1>e DEF Serves, p, a, c
  <2>2. p = Grand => \A q \in Subs : a \in Belong(d, q) => q \in S
    BY <1>e, <2>1 DEF a
  <2> QED
    BY <1>1, <2>1, <2>2, HousingLeave
<1>f. CASE r.op = "remove_member" /\ p = Grand
  <2>1. calls = <<Get(b), Command("dismiss", Grand, b)>> /\ b \in Accounts
    BY <1>1, <1>f DEF Serves, p, b, AboutOne
  <2>2. /\ Command("dismiss", Grand, b) \in Commands
        /\ Command("dismiss", Grand, b).do = "dismiss"
    BY <1>4, <2>1, PlainCommands, Fields
  <2> QED
    BY <1>4, <2>1, <2>2, HousingRead
<1>g. CASE r.op = "remove_member" /\ p # Grand
  <2>1. calls = RemoveByRole(p, b, c) /\ b \in Accounts
    BY <1>1, <1>g DEF Serves, p, b, c, AboutOne
  <2>2. Tour({}, b) \o RemoveByRole(p, b, c) = RemoveByRole(p, b, c)
    <3>1. RemoveByRole(p, b, c) \in Seq(Commands)
      BY <1>1, <2>1, DoesRole DEF Scripts
    <3>2. Tour({}, b) = <<>>
      BY DEF Tour
    <3> QED
      BY <3>1, <3>2, ConcatEmptySeq
  <2>3. Housing(d, Tour({}, b) \o RemoveByRole(p, b, c))
    BY <1>1, <1>g, <2>1, HousingLeave
  <2> QED
    BY <2>1, <2>2, <2>3
<1>h. CASE r.op = "remove"
  <2>1. calls = <<Get(p), Command("dissolve", p, NoOne)>>
    BY <1>h DEF Serves, p
  <2>2. /\ Command("dissolve", p, NoOne) \in Commands
        /\ Command("dissolve", p, NoOne).do = "dissolve"
    BY <1>1, PlainCommands, Fields
  <2> QED
    BY <1>4, <2>1, <2>2, HousingRead
<1>i. CASE r.op = "add_place"
  <2>1. calls = <<Get(Grand), Command("insert", p, a)>>
    BY <1>i DEF Serves, p, a
  <2>2. /\ Command("insert", p, a) \in Commands
        /\ Command("insert", p, a).do = "insert"
        /\ Command("insert", p, a).who = a
    BY <1>1, PlainCommands, Fields
  <2>3. a \in Members(c)
    BY <1>2, <1>i DEF Entitled, FoundedByMembers, Adders, Members, a
  <2>4. a \in Belong(d, Grand)
    BY <1>1, <1>2, <1>i, <2>3 DEF Members, Belong, Ranked, Held
  <2> QED
    BY <1>4, <2>1, <2>2, <2>4, HousingRead
<1>10. r.op \in Ops
  BY RequestFields
<1> QED
  BY <1>10, <1>a, <1>b, <1>c, <1>d, <1>e, <1>f, <1>g, <1>h, <1>i DEF Ops

(* The commands that come last in a request.                               *)
LEMMA DecidesHousing ==
  ASSUME FoundedByMembers, NEW d, NEW r \in Requests, Stores(d),
         NEW c \in Commands, NEW calls, Decides(d, r, c, calls),
         c.do \in Final, Housing(d, <<c>>),
         r.op = "leave" =>
           \A q \in Subs : r.who \in Belong(d, q) => q \in d[r.who].access,
         c.do = "dissolve" /\ d[Grand] # Nil /\ d[Grand].nChildren <= 0 =>
           \A q \in Subs : d[q] = Nil
  PROVE  Housing(d, calls)
<1> DEFINE on == c.on
           a == c.who
<1>1. /\ c.do = "insert" => on \in Places /\ a \in Accounts
      /\ c.do = "dissolve" => on \in Places
      /\ c.do \in {"enlist", "admit"} => on \in Loops /\ a \in Accounts
      /\ c.do = "admit" => on.list # <<>>
  BY CommandFields
<1>2. /\ Grand \in Keys /\ Grand \in Places /\ Grand \notin Subs
      /\ \A p \in Places : p \in Keys
  BY KeyKinds, KeysAssumption
<1>3. \A x \in Commands : x.do = "del" => Housing(d, <<x>>)
  <2> SUFFICES ASSUME NEW x \in Commands, x.do = "del"
               PROVE  Housing(d, <<x>>)
    OBVIOUS
  <2>1. Only(<<x>>, {"del"})
    BY OnlyShort
  <2> QED
    BY <2>1, HousingOnly
<1>4. \A k \in Keys : Housing(d, <<Del(k)>>)
  BY <1>3, PlainCommands, Fields
<1>5. Housing(d, <<>>)
  <2>1. Only(<<>>, {"del"})
    BY OnlyShort
  <2> QED
    BY <2>1, HousingOnly
<1> HIDE DEF on, a
<1>a. CASE c.do = "serve"
  <2>1. CASE calls \in {<<>>, <<Get(Grand), Use(Grand)>>}
    <3>1. Use(Grand) \in Commands /\ Use(Grand).do = "use"
      BY <1>2, PlainCommands, Fields
    <3>2. Housing(d, <<Get(Grand), Use(Grand)>>)
      BY <1>2, <3>1, HousingRead
    <3> QED
      BY <1>5, <2>1, <3>2
  <2>2. CASE Serves(d, r, calls)
    BY <2>2, ServesHousing
  <2> QED
    BY <1>a, <2>1, <2>2 DEF Decides
<1>b. CASE c.do = "enlist"
  <2> DEFINE l == [on EXCEPT !.eligible = @ \cap Members(d[Grand])]
  <2>1. calls = AddMembers(l, a) /\ d[Grand] # Nil
    BY <1>b DEF Decides, on, a
  <2>2. /\ l \in Loops /\ l.eligible \subseteq Members(d[Grand])
        /\ a \in Accounts
    BY <1>1, <1>b DEF Loops
  <2>3. l.eligible \subseteq Belong(d, Grand)
    BY <2>1, <2>2 DEF Members, Belong, Ranked, Held
  <2> HIDE DEF l
  <2> QED
    BY <1>2, <2>1, <2>2, <2>3, HousingAdding
<1>c. CASE c.do = "admit"
  <2> DEFINE rest(n) == [on EXCEPT !.list = Tail(@), !.room = @ - n]
             more == [on EXCEPT !.list = Tail(@)]
             x == Head(on.list)
             n == IF r.admin THEN 0 ELSE 1
  <2>1. /\ on \in Loops /\ a \in Accounts /\ on.place \in Places
        /\ on.list \in Seq(Accounts) /\ on.room \in Int
        /\ x \in Accounts /\ Tail(on.list) \in Seq(Accounts)
    <3>1. /\ on \in Loops /\ a \in Accounts /\ on.list # <<>>
      BY <1>1, <1>c
    <3>2. on.place \in Places /\ on.list \in Seq(Accounts) /\ on.room \in Int
      BY <3>1 DEF Loops
    <3> QED
      BY <3>1, <3>2, HeadTailProperties
  <2>2. /\ more \in Loops /\ more.place = on.place
        /\ more.eligible = on.eligible
    BY <2>1 DEF Loops
  <2>3. on.room - n \in Int
    BY <2>1
  <2>4. /\ rest(n) \in Loops /\ rest(n).place = on.place
        /\ rest(n).eligible = on.eligible
    <3> HIDE DEF n
    <3> QED
      BY <2>1, <2>3 DEF Loops
  <2> HIDE DEF n
  <2>5. on.place \in Subs => on.eligible \subseteq Belong(d, Grand)
    <3>1. c = Command("admit", on, a)
      BY <1>c, CommandIs DEF on, a
    <3>2. Has(<<c>>, Command("admit", on, a))
      BY <3>1, DoesShort
    <3> QED
      BY <2>1, <3>2 DEF Housing
  <2>6. \/ calls = AddMembers(more, a)
        \/ /\ x \in on.eligible
           /\ calls = (AddKeyHolder(on.place, x) \o <<Del(x)>>)
                        \o AddMembers(rest(n), a)
    BY <1>c DEF Decides, on, a, n
  <2> HIDE DEF more, rest, x
  <2>7. Housing(d, AddMembers(more, a)) /\ Housing(d, AddMembers(rest(n), a))
    BY <1>2, <2>1, <2>2, <2>4, <2>5, HousingAdding
  <2>8. ASSUME x \in on.eligible
        PROVE  Housing(d, (AddKeyHolder(on.place, x) \o <<Del(x)>>)
                            \o AddMembers(rest(n), a))
    <3> DEFINE u == AddKeyHolder(on.place, x)
               v == <<Del(x)>>
               z == AddMembers(rest(n), a)
    <3>1. Housing(d, u)
      BY <2>1, <2>5, <2>8, HousingAdding DEF Places
    <3>2. x \in Keys /\ Del(x) \in Commands
      BY <2>1, KeyKinds, PlainCommands
    <3>3. Housing(d, v) /\ Housing(d, z)
      BY <1>4, <2>7, <3>2
    <3>4. u \in Scripts /\ v \in Scripts /\ z \in Scripts
      BY <2>1, <2>4, <3>2, MemberScripts, LoopScripts, ShortScripts
    <3> HIDE DEF u, v, z
    <3>5. u \o v \in Scripts /\ Housing(d, u \o v)
      BY <3>1, <3>3, <3>4, HousingCat, CatAt
    <3>6. Housing(d, (u \o v) \o z)
      BY <3>3, <3>4, <3>5, HousingCat
    <3> QED
      BY <3>6 DEF u, v, z
  <2> QED
    BY <2>6, <2>7, <2>8
<1>d. CASE c.do = "dissolve"
  <2>1. on \in Places /\ on \in Keys
    BY <1>1, <1>2, <1>d
  <2>2. \/ calls = <<Del(on)>>
        \/ calls = Removal(on) /\ d[on] # Nil /\ d[on].nChildren <= 0
    BY <1>d DEF Decides, on
  <2> DEFINE s == Removal(on)
  <2>3. ASSUME d[on] # Nil, d[on].nChildren <= 0
        PROVE  Housing(d, s)
    <3>1. \A x : Has(s, x) =>
            x \in {Command("uncount", Grand, NoOne), Get(on),
                   Command("evict", on, NoOne),
                   Command("delete", on, NoOne), Del(Grand), Del(on)}
      BY <2>1, DoesRemoval
    <3> HIDE DEF s
    <3>2. \A do \in {"join", "insert", "expel", "admit", "visit"} :
             \A k, who : ~Has(s, Command(do, k, who))
      BY <3>1, Fields
    <3>3. \A k, who, C : ~Bare(s, Command("expel", k, who), C)
      BY <3>2 DEF Bare, Has
    <3>4. Has(s, Command("delete", Grand, NoOne)) => on = Grand
      BY <3>1, Fields
    <3>5. on = Grand => \A q \in Subs : d[q] = Nil
      BY <1>d, <2>3
    <3> QED
      BY <3>2, <3>3, <3>4, <3>5 DEF Housing
  <2> QED
    BY <1>4, <2>1, <2>2, <2>3
<1>e. CASE c.do = "insert"
  <2>1. calls = <<Del(Grand)>>
    BY <1>e DEF Decides
  <2> QED
    BY <1>2, <1>4, <2>1
<1> QED
  BY <1>a, <1>b, <1>c, <1>d, <1>e DEF Final

(* One sub-place after the other.                                          *)
LEMMA TourHousing ==
  ASSUME NEW d, NEW r, NEW s \in Scripts, s # <<>>, NEW calls \in Scripts,
         Head(s) \in Commands, Decides(d, r, Head(s), calls),
         Head(s).do \in {"tour", "visit"}, Housing(d, s)
  PROVE  Housing(d, calls \o Tail(s))
<1> DEFINE c == Head(s)
           on == c.on
           a == c.who
           rest == Tail(s)
           t == calls \o rest
<1>1. /\ c.do = "tour" => on \in SUBSET Subs /\ a \in Accounts
      /\ c.do = "visit" => on \in Places /\ a \in Accounts
      /\ rest \in Scripts
  BY CommandFields, HeadTailProperties DEF Scripts
<1>2. \A x : Has(t, x) => Has(calls, x) \/ Has(s, x)
  <2>1. \A x : Has(t, x) => Has(calls, x) \/ Has(rest, x)
    BY <1>1, HasCat
  <2>2. \A x : Has(rest, x) => Has(s, x)
    BY HasTail
  <2> QED
    BY <2>1, <2>2
<1>3. c = Command(c.do, on, a) /\ Has(s, c)
  BY CommandIs, HasTail
<1>4. c.do = "visit" => on \in Subs
  BY <1>1, <1>3 DEF Housing, Places
<1>5. ASSUME NEW q, NEW b
      PROVE  Bare(t, Command("expel", Grand, b), Departing(q, b)) =>
               \/ Bare(calls, Command("expel", Grand, b), Departing(q, b))
               \/ Bare(s, Command("expel", Grand, b), Departing(q, b))
               \/ /\ c \in Departing(q, b)
                  /\ \A x \in Departing(q, b) : ~Has(calls, x)
  BY <1>1, BareCat, BareTail
<1> HIDE DEF rest, t
(* What is decided only reads, takes a from sub-places and goes on.        *)
<1>6. /\ \A do \in {"join", "insert", "admit", "delete"} :
           \A k, who : ~Has(calls, Command(do, k, who))
      /\ \A b : /\ ~Has(calls, Command("expel", Grand, b))
                /\ ~Has(calls, Command("visit", Grand, b))
      /\ \A q, b : c \in Departing(q, b) =>
           \/ b \notin Belong(d, q)
           \/ \E x \in Departing(q, b) : Has(calls, x)
  <2>1. CASE c.do = "tour"
    <3>1. PICK q \in on : calls = <<Get(q), Command("visit", q, a)>>
                                    \o Tour(on \ {q}, a)
      BY <2>1 DEF Decides
    <3> DEFINE u == <<Get(q), Command("visit", q, a)>>
               v == Tour(on \ {q}, a)
    <3>2. q \in Subs /\ q \in Places /\ q \in Keys /\ q # Grand
          /\ a \in Accounts /\ on \ {q} \in SUBSET Subs
      BY <1>1, <2>1, <3>1, KeyKinds, KeysAssumption DEF Places
    <3>3. Get(q) \in Commands /\ Command("visit", q, a) \in Commands
      BY <3>2, PlainCommands
    <3>4. u \in Scripts /\ v \in Scripts
      BY <3>2, <3>3, ShortScripts, LoopScripts
    <3>5. \A x : Has(u, x) <=> x = Get(q) \/ x = Command("visit", q, a)
      BY DoesShort
    <3>6. \A x : Has(v, x) <=>
            on \ {q} # {} /\ x = Command("tour", on \ {q}, a)
      BY HasNothing, DoesShort DEF Tour
    <3>7. \A x : Has(calls, x) <=>
            \/ x = Get(q) \/ x = Command("visit", q, a)
            \/ on \ {q} # {} /\ x = Command("tour", on \ {q}, a)
      <4> HIDE DEF u, v
      <4>1. calls = u \o v
        BY <3>1 DEF u, v
      <4> QED
        BY <3>4, <3>5, <3>6, <4>1, HasCat
    <3> HIDE DEF on, a, c
    <3>8. ASSUME NEW p, NEW b, c \in Departing(p, b)
          PROVE  \E x \in Departing(p, b) : Has(calls, x)
      <4>1. p \in on /\ b = a
        BY <2>1, <3>8, DepartingDo DEF on, a
      <4>2. CASE p = q
        <5>1. Command("visit", q, a) \in Departing(p, b)
          BY <4>1, <4>2 DEF Departing
        <5> QED
          BY <3>7, <5>1
      <4>3. CASE p # q
        <5>1. on \ {q} # {} /\ p \in on \ {q}
          BY <4>1, <4>3
        <5>2. Command("tour", on \ {q}, a) \in Departing(p, b)
          BY <3>2, <4>1, <5>1 DEF Departing
        <5> QED
          BY <3>7, <5>1, <5>2
      <4> QED
        BY <4>2, <4>3
    <3> QED
      BY <3>2, <3>7, <3>8, Fields
  <2>2. CASE c.do = "visit"
    <3>1. \/ d[on] = Nil /\ calls = <<>>
          \/ d[on] # Nil /\ calls = RemoveByRole(on, a, d[on])
          \/ d[on] # Nil /\ calls = RemoveKeyHolder(on, a)
      BY <2>2 DEF Decides
    <3>2. on \in Subs /\ on \in Places /\ a \in Accounts /\ on # Grand
      BY <1>1, <1>4, <2>2, KeysAssumption
    <3> HIDE DEF on, a, c
    <3>3. \A x : Has(calls, x) =>
            x \in {Command("expel", on, a), Command("revoke", on, a),
                   Get(on), Del(a), Del(on), Command("lower", on, a)}
      BY <3>1, <3>2, HasNothing, DoesRole, DoesRemove
    <3>4. d[on] # Nil /\ a \in Belong(d, on) =>
            Has(calls, Command("expel", on, a))
      <4>1. d[on] # Nil => Belong(d, on) = d[on].creators \cup d[on].keys
        BY DEF Belong, Ranked, Held
      <4> QED
        BY <3>1, <3>2, <4>1, DoesRole, DoesRemove
    <3>5. d[on] = Nil => a \notin Belong(d, on)
      BY DEF Belong, Ranked, Held
    <3>6. ASSUME NEW p, NEW b, c \in Departing(p, b)
          PROVE  p = on /\ b = a
      <4>1. c = Command("visit", p, b)
        BY <2>2, <3>6, DepartingDo
      <4> QED
        BY <4>1, Fields DEF on, a
    <3>7. Command("expel", on, a) \in Departing(on, a)
      BY DEF Departing
    <3> QED
      BY <3>2, <3>3, <3>4, <3>5, <3>6, <3>7, Fields
  <2> QED
    BY <2>1, <2>2
<1> HIDE DEF c, on, a
<1>7. ASSUME NEW p \in Subs, NEW b \in Accounts,
             Bare(t, Command("expel", Grand, b), Departing(p, b))
      PROVE  b \notin Belong(d, p)
  <2>1. ~Bare(calls, Command("expel", Grand, b), Departing(p, b))
    BY <1>6 DEF Bare, Has
  <2> QED
    BY <1>5, <1>6, <1>7, <2>1 DEF Housing
<1>8. Housing(d, t)
  BY <1>2, <1>6, <1>7 DEF Housing
<1> QED
  BY <1>8 DEF t, rest

LEMMA StepHousing ==
  ASSUME FoundedByMembers,
         NEW d, NEW r, NEW s, NEW e, NEW t, Course(d, r, s),
         Course(e, r, t), Ordered(s), Steps(d, r, s, e, t),
         Sound(d, s), Agreeing(d, s), ChildrenDue(d, s),
         Inside(d), Housing(d, s)
  PROVE  Inside(e) /\ Housing(e, t)
<1>0. StepCase(d, r, s, e, t)
  BY StepCases
<1> DEFINE c == Head(s)
           rest == Tail(s)
<1>1. s # <<>> =>
        /\ s \in Scripts /\ c \in Commands /\ rest \in Scripts
        /\ \A x : Has(s, x) <=> c = x \/ Has(rest, x)
        /\ c = Command(c.do, c.on, c.who)
  BY CourseHead, HasTail, CommandIs DEF Course
<1>2. r \in Requests /\ Stores(d) /\ Stores(e)
  BY DEF Course
<1>3. {"get", "use", "del", "dismiss"} \cap {"expel", "visit", "tour"} = {}
  OBVIOUS
(* Who leaves or is removed lists the sub-places he belongs to.            *)
<1>4. ASSUME r.op \in {"leave", "remove_member"}, NEW a \in Accounts,
             NEW q \in Subs, a \in Belong(d, q)
      PROVE  q \in d[a].access
  <2>1. "grant" \notin Reading \cup Running(r.op)
        /\ "delete" \notin Reading \cup Running(r.op)
    BY <1>4 DEF Reading, Running, LeavingSteps
  <2>2. ~Has(s, Command("grant", q, a)) /\ ~Has(s, Command("delete", q, NoOne))
    BY <2>1, CourseHas
  <2> QED
    BY <1>4, <2>2 DEF Agreeing, Places
<1>5. s # <<>> => c.do \in Reading \cup Running(r.op)
  BY CourseHead
<1> HIDE DEF c, rest
<1>6. ASSUME s # <<>>, c.do \in {"get", "use", "del", "dismiss"}
      PROVE  Housing(d, rest)
  BY <1>1, <1>3, <1>6, HousingTail DEF c, rest
<1>a. CASE e = d /\ t = s
  BY <1>a
<1>b. CASE s # <<>> /\ t = rest /\ c.do \in {"get", "use", "del"} /\ e = d
  BY <1>6, <1>b
<1>c. CASE s # <<>> /\ t = rest /\ Does(c, d, e)
  BY <1>c, HousingDoes DEF c, rest
<1>d. CASE /\ s # <<>> /\ e = d
           /\ \E calls \in Scripts :
                /\ Decides(d, r, c, calls)
                /\ c.do \in {"dismiss", "tour", "visit"}
                /\ t = calls \o rest
  <2>1. PICK calls \in Scripts :
          /\ Decides(d, r, c, calls)
          /\ c.do \in {"dismiss", "tour", "visit"}
          /\ t = calls \o rest
    BY <1>d
  <2>2. CASE c.do = "dismiss"
    <3>1. r.op \in {"leave", "remove_member"}
      <4>1. r.op \in Ops
        BY <1>2, RequestFields
      <4> QED
        BY <1>5, <1>d, <2>2, <4>1
           DEF Reading, Running, AddingSteps, LeavingSteps, Ops
    <3>2. c.who \in Accounts
      BY <1>1, <1>d, <2>2, CommandFields
    <3>3. PICK S \in SUBSET Subs :
            /\ d[c.who].access \cap Subs \subseteq S
            /\ calls = Tour(S, c.who) \o RemoveByRole(Grand, c.who, d[Grand])
      BY <2>1, <2>2 DEF Decides
    <3>4. \A q \in Subs : c.who \in Belong(d, q) => q \in S
      BY <1>4, <3>1, <3>2, <3>3
    <3>5. Housing(d, calls)
      BY <3>2, <3>3, <3>4, KeyKinds, HousingLeave
    <3>6. Housing(d, calls \o rest)
      BY <1>1, <1>6, <1>d, <2>2, <3>5, HousingCat
    <3> QED
      BY <1>d, <2>1, <3>6
  <2>3. CASE c.do \in {"tour", "visit"}
    <3>1. Housing(d, calls \o rest)
      BY <1>1, <1>d, <2>1, <2>3, TourHousing DEF c, rest
    <3> QED
      BY <1>d, <2>1, <3>1
  <2> QED
    BY <2>1, <2>2, <2>3
<1>e. CASE /\ s # <<>> /\ rest = <<>> /\ e = d
           /\ Decides(d, r, c, t) /\ c.do \in Final
  <2>1. \A x : Has(s, x) <=> x = c
    BY <1>1, <1>e, HasNothing
  <2>2. s = <<c>>
    <3> DEFINE u == <<c>>
    <3>1. /\ s \in Seq(Commands) /\ Len(s) = Len(rest) + 1 /\ s[1] = c
          /\ Len(rest) = 0
      <4>1. s \in Scripts /\ s # <<>> /\ rest = <<>> /\ rest = Tail(s)
            /\ c = Head(s)
        BY <1>1, <1>e DEF c, rest
      <4>2. Len(s) \in Nat /\ s[1] = c /\ Len(rest) = Len(s) - 1
        BY <4>1, ScriptAt
      <4>3. Len(rest) = 0
        BY <4>1
      <4> QED
        BY <4>1, <4>2, <4>3 DEF Scripts
    <3>2. u \in Seq(Commands) /\ Len(u) = 1 /\ u[1] = c
      BY <1>1, <1>e
    <3> HIDE DEF u
    <3>3. Len(s) = 1 /\ \A i \in 1..1 : i = 1
      BY <3>1
    <3>4. s = u
      BY <3>1, <3>2, <3>3, SeqEqual
    <3> QED
      BY <3>4 DEF u
  <2>3. Housing(d, <<c>>)
    BY <2>2
  <2>4. c.do = "dissolve" /\ d[Grand] # Nil /\ d[Grand].nChildren <= 0 =>
          \A q \in Subs : d[q] = Nil
    <3> SUFFICES ASSUME c.do = "dissolve", d[Grand] # Nil,
                        d[Grand].nChildren <= 0
                 PROVE  \A q \in Subs : d[q] = Nil
      OBVIOUS
    <3> DEFINE n == Cardinality(Kept(d, s))
    <3>1. Pending(s, "count") = 0 /\ Pending(s, "uncount") = 0
      BY DEF Pending, c
    <3>2. n \in Nat /\ IsFiniteSet(Kept(d, s))
      BY KeptFinite
    <3>3. d[Grand].nChildren \in Int
      BY <1>2, KeyKinds DEF Stores, IsStore, PlaceDocs
    <3>4. d[Grand].nChildren + Pending(s, "count")
            = n + Pending(s, "uncount")
      BY DEF ChildrenDue
    <3> HIDE DEF n
    <3>5. n = 0
      BY <3>1, <3>2, <3>3, <3>4
    <3>6. Kept(d, s) = {}
      BY <3>2, <3>5, FS_EmptySet DEF n
    <3>7. \A q : ~Has(s, Command("delete", q, NoOne))
      BY <2>1, Fields
    <3> QED
      BY <3>6, <3>7 DEF Kept
  <2>5. r.op = "leave" =>
          \A q \in Subs : r.who \in Belong(d, q) => q \in d[r.who].access
    BY <1>2, <1>4, RequestFields
  <2>6. Housing(d, t)
    BY <1>1, <1>2, <1>e, <2>3, <2>4, <2>5, DecidesHousing
  <2> QED
    BY <1>e, <2>6
<1>f. CASE /\ s # <<>> /\ rest = <<>> /\ c.do = "insert"
           /\ c.on \in Places /\ c.who \in Accounts
           /\ d[Grand] # Nil /\ d[c.on] = Nil
           /\ e = [d EXCEPT ![c.on] = NewPlace]
           /\ t = Founding(c.on, c.who)
  <2> DEFINE p == c.on
             a == c.who
  <2>1. /\ p \in Places /\ a \in Accounts /\ d[p] = Nil /\ p # Grand
        /\ p \in Subs /\ p \in Keys /\ DOMAIN d = Keys /\ Grand \in Places
        /\ Subs \subseteq Places /\ Grand \notin Subs
    BY <1>2, <1>f, KeyKinds, KeysAssumption DEF Stores, IsStore, Places
  <2>2. a \in Belong(d, Grand)
    <3>1. Has(s, Command("insert", p, a))
      BY <1>1, <1>f
    <3> QED
      BY <2>1, <3>1 DEF Housing
  <2>3. e[p] = NewPlace /\ \A k \in Keys : k # p => e[k] = d[k]
    BY <1>f, <2>1
  <2>4. NewPlace # Nil /\ NewPlace.creators = {} /\ NewPlace.keys = {}
    BY PlacesAssumption DEF NewPlace, PlaceDocs
  <2>5. \A x : Has(t, x) <=>
          x \in {Command("count", Grand, NoOne), Get(p), Get(a),
                 Command("join", p, a), Command("grant", p, a),
                 Command("raise", p, a), Del(Grand), Del(a), Del(p)}
    BY <1>f, DoesFound
  <2> HIDE DEF p, a
  <2>6. Belong(e, p) = {}
    BY <2>3, <2>4 DEF Belong, Ranked, Held
  <2>7. \A q \in Places : q # p =>
          Belong(e, q) = Belong(d, q) /\ (e[q] = Nil <=> d[q] = Nil)
    BY <2>3, KeyKinds DEF Belong, Ranked, Held
  <2>8. Inside(e)
    BY <1>f, <2>1, <2>6, <2>7 DEF Inside
  <2>9. \A do \in {"insert", "expel", "admit", "visit", "delete"} :
          \A on, who : ~Has(t, Command(do, on, who))
    BY <2>5, Fields
  <2>10. \A on, who, C : ~Bare(t, Command("expel", on, who), C)
    BY <2>9 DEF Bare, Has
  <2>11. \A q, b : Has(t, Command("join", q, b)) => b = a
    BY <2>5, Fields
  <2>12. a \in Belong(e, Grand)
    BY <2>1, <2>2, <2>7
  <2>13. Housing(e, t)
    BY <2>9, <2>10, <2>11, <2>12 DEF Housing
  <2> QED
    BY <2>8, <2>13
<1> QED
  BY <1>0, <1>a, <1>b, <1>c, <1>d, <1>e, <1>f DEF StepCase, c, rest

LEMMA InitHoused == FoundedInside /\ Init => Housed
<1> SUFFICES ASSUME FoundedInside, Init
             PROVE  Inside(db) /\ \A w \in Workers : Housing(db, script[w])
  BY DEF Housed
<1>1. \A w \in Workers : script[w] = <<>>
  BY DEF Init
<1>2. Housing(db, <<>>)
  <2>1. Only(<<>>, {})
    BY OnlyShort
  <2> QED
    BY <2>1, HousingOnly
<1>3. PICK f \in Foundings : db = Founded(f)
  BY DEF Init
<1>4. /\ Grand \in Places /\ Subs \subseteq Places /\ f[Grand] # Nil
      /\ \A p \in Places : f[p] = Nil => db[p] = Nil
  BY <1>3, PlacesAssumption, FoundedDocs DEF Places
<1>5. \A p \in Places : f[p] # Nil =>
        db[p] # Nil /\ Belong(db, p) = Members(f[p])
  BY <1>3, FoundedDocs DEF Belong, Ranked, Held, Members
<1>6. \A p \in Places : Belong(db, p) # {} => db[p] # Nil
  BY DEF Belong, Ranked, Held
<1>7. Inside(db)
  BY <1>4, <1>5, <1>6 DEF Inside, FoundedInside
<1> QED
  BY <1>1, <1>2, <1>7

LEMMA StepHoused ==
  ASSUME FoundedByMembers, NEW d, NEW r, NEW s, NEW e, NEW t,
         Advances(d, r, s, e, t), InStep(d, s), Inside(d), Housing(d, s)
  PROVE  Inside(e) /\ Housing(e, t)
<1>1. CASE e = d /\ s = <<>> /\ Only(t, {"get", "serve"}) /\ Finals(t)
  <2>1. {"get", "serve"} \cap {"join", "insert", "expel", "admit", "visit",
                               "delete"} = {}
    OBVIOUS
  <2> QED
    BY <1>1, <2>1, HousingOnly
<1>2. CASE e = d /\ t = s
  BY <1>2
<1>3. CASE Course(d, r, s) /\ Course(e, r, t) /\ Steps(d, r, s, e, t)
  BY <1>3, StepHousing DEF InStep
<1> QED
  BY <1>1, <1>2, <1>3 DEF Advances

LEMMA NextHoused ==
  ASSUME OneWorker, FoundedByMembers, TypeOK, RosterCounted, Solo, Alone,
         Housed, TypeOK', RosterCounted', Solo', [Next]_vars
  PROVE  Housed'
<1>1. CASE db' = db /\ script' = script
  BY <1>1 DEF Housed
<1>2. CASE \E w \in Workers :
             /\ Workers = {w}
             /\ \/ Stopped(script'[w])
                \/ /\ ~Stopped(script[w])
                   /\ \E r : Advances(db, r, script[w], db', script'[w])
  <2>1. PICK w \in Workers :
          /\ Workers = {w}
          /\ \/ Stopped(script'[w])
             \/ /\ ~Stopped(script[w])
                /\ \E r : Advances(db, r, script[w], db', script'[w])
    BY <1>2
  <2>2. ASSUME ~Stopped(script'[w])
        PROVE  Inside(db') /\ Housing(db', script'[w])
    <3>1. InStep(db, script[w]) /\ Inside(db) /\ Housing(db, script[w])
      BY <2>1, <2>2 DEF Alone, Housed
    <3> QED
      BY <2>1, <2>2, <3>1, StepHoused
  <2> QED
    BY <2>1, <2>2 DEF Housed
<1> QED
  BY <1>1, <1>2, NextAdvances

(* With one request at a time, between requests the members of a sub-place *)
(* are members of the grand place, however they came and left, when places *)
(* are founded by members: add_member takes only them, leave and           *)
(* remove_member visit every sub-place the account lists before the grand  *)
(* place, and that is removed only without sub-places.                     *)
THEOREM SubMembersStayInGrand ==
  OneWorker /\ FoundedByMembers /\ FoundedInside /\ Spec =>
    []SubMembersInGrand
<1> SUFFICES ASSUME OneWorker, FoundedByMembers, FoundedInside
             PROVE  Spec => []SubMembersInGrand
  OBVIOUS
<1> DEFINE Inv == TypeOK /\ RosterCounted /\ Solo /\ Alone /\ Housed
<1>1. Init => Inv
  BY InitTypeOK, InitCounted, InitSolo, InitAlone, InitHoused
<1>2. Inv /\ [Next]_vars => Inv'
  <2> SUFFICES ASSUME Inv, [Next]_vars PROVE Inv'
    OBVIOUS
  <2>1. TypeOK' /\ RosterCounted'
    BY StepTypeOK, StepCounted
  <2>2. Solo'
    BY NextSolo
  <2>3. Alone' /\ Housed'
    BY <2>1, <2>2, NextAlone, NextHoused
  <2> QED
    BY <2>1, <2>2, <2>3
<1>3. Inv => SubMembersInGrand
  <2> SUFFICES ASSUME Inv, Idle, NEW p \in Subs, db[p] # Nil
               PROVE  /\ db[Grand] # Nil
                      /\ Members(db[p]) \subseteq Members(db[Grand])
    BY DEF SubMembersInGrand
  <2>1. Inside(db)
    <3>1. CASE Workers = {}
      BY <3>1 DEF Housed
    <3>2. CASE Workers # {}
      <4>1. PICK w \in Workers : TRUE
        BY <3>2
      <4>2. script[w] = <<>>
        BY DEF Idle, TypeOK
      <4>3. ~Stopped(script[w])
        BY <4>2, StoppedStays
      <4> QED
        BY <4>3 DEF Housed
    <3> QED
      BY <3>1, <3>2
  <2>2. /\ db[Grand] # Nil
        /\ Belong(db, p) \subseteq Belong(db, Grand)
    BY <2>1 DEF Inside
  <2> QED
    BY <2>2 DEF Belong, Ranked, Held, Members
<1> HIDE DEF Inv
<1> QED
  BY <1>1, <1>2, <1>3, PTL DEF Spec

-----------------------------------------------------------------------------
(* The limits of creators and key holders.                                 *)

LEMMA Fewer ==
  ASSUME NEW S \in SUBSET Accounts, NEW T \in SUBSET S
  PROVE  /\ IsFiniteSet(S) /\ Cardinality(S) \in Nat
         /\ Cardinality(T) \in Nat /\ Cardinality(T) <= Cardinality(S)
<1>1. IsFiniteSet(S)
  BY KeysAssumption, FS_Subset
<1>2. IsFiniteSet(T) /\ Cardinality(T) <= Cardinality(S)
  BY <1>1, FS_Subset
<1> QED
  BY <1>1, <1>2, FS_CardinalityType

LEMMA ComingKinds ==
  ASSUME NEW d, Stores(d), NEW s, NEW p \in Places
  PROVE  /\ Held(d, p) \in SUBSET Accounts /\ Ranked(d, p) \in SUBSET Accounts
         /\ ComingKeys(d, s, p) \in SUBSET Accounts
         /\ ComingCreators(d, s, p) \in SUBSET Accounts
<1>1. Held(d, p) \in SUBSET Accounts /\ Ranked(d, p) \in SUBSET Accounts
  BY DEF Stores, IsStore, PlaceDocs, Ranked, Held
<1>2. \A do : Doing(s, do, p) \in SUBSET Accounts
  BY DEF Doing
<1> QED
  BY <1>1, <1>2 DEF ComingKeys, ComingCreators

(* What adds nobody and starts no loop keeps within the limits.            *)
LEMMA LimitedStays ==
  ASSUME NEW d, NEW s, NEW e, NEW t, Stores(d), Limited(d, s),
         \A p \in Places :
           /\ ComingKeys(e, t, p) \subseteq ComingKeys(d, s, p)
           /\ ComingCreators(e, t, p) \subseteq ComingCreators(d, s, p),
         \A do \in {"enlist", "admit"} : \A l, a :
           Has(t, Command(do, l, a)) => Has(s, Command(do, l, a))
  PROVE  Limited(e, t)
<1>1. ASSUME NEW p \in Places
      PROVE  /\ Cardinality(ComingKeys(d, s, p)) \in Nat
             /\ Cardinality(ComingKeys(e, t, p)) \in Nat
             /\ Cardinality(ComingKeys(e, t, p))
                  <= Cardinality(ComingKeys(d, s, p))
             /\ Cardinality(ComingCreators(d, s, p)) \in Nat
             /\ Cardinality(ComingCreators(e, t, p)) \in Nat
             /\ Cardinality(ComingCreators(e, t, p))
                  <= Cardinality(ComingCreators(d, s, p))
  BY ComingKinds, Fewer
<1>2. KeyholderLimit \in Nat /\ CreatorLimit \in Nat
  BY PlacesAssumption
<1>3. ASSUME NEW p \in Places
      PROVE  /\ Cardinality(ComingKeys(e, t, p)) <= KeyholderLimit
             /\ Cardinality(ComingCreators(e, t, p)) <= CreatorLimit
  <2>1. /\ Cardinality(ComingKeys(d, s, p)) <= KeyholderLimit
        /\ Cardinality(ComingCreators(d, s, p)) <= CreatorLimit
    BY DEF Limited
  <2> QED
    BY <1>1, <1>2, <2>1
<1>4. ASSUME NEW l \in Loops, NEW a \in Accounts,
             NEW do \in {"enlist", "admit"}, Has(t, Command(do, l, a))
      PROVE  \/ l.room <= 0
             \/ Cardinality(ComingKeys(e, t, l.place)) + l.room
                  <= KeyholderLimit
  <2>1. l.place \in Places /\ l.room \in Int
    BY DEF Loops
  <2>2. \/ l.room <= 0
        \/ Cardinality(ComingKeys(d, s, l.place)) + l.room
             <= KeyholderLimit
    BY <1>4 DEF Limited
  <2> QED
    BY <1>1, <1>2, <2>1, <2>2
<1> QED
  BY <1>3, <1>4 DEF Limited

LEMMA ComingSame ==
  ASSUME NEW d, NEW s, NEW e, NEW t, NEW p,
         Held(e, p) = Held(d, p), Ranked(e, p) = Ranked(d, p),
         \A do \in Changing : \A a :
           Has(t, Command(do, p, a)) <=> Has(s, Command(do, p, a))
  PROVE  /\ ComingKeys(e, t, p) = ComingKeys(d, s, p)
         /\ ComingCreators(e, t, p) = ComingCreators(d, s, p)
<1>1. \A do \in Changing : Doing(t, do, p) = Doing(s, do, p)
  BY DEF Doing
<1> QED
  BY <1>1 DEF ComingKeys, ComingCreators, Changing

LEMMA ComingNow ==
  ASSUME NEW d, NEW s, NEW p, Held(d, p) \subseteq Accounts,
         \A do \in Changing : \A a : ~Has(s, Command(do, p, a))
  PROVE  /\ ComingKeys(d, s, p) = Held(d, p)
         /\ ComingCreators(d, s, p) = Ranked(d, p)
<1>1. \A do \in Changing : Doing(s, do, p) = {}
  BY DEF Doing
<1> QED
  BY <1>1 DEF ComingKeys, ComingCreators, Changing

(* Pairs.                                                                  *)
LEMMA PairedOnly ==
  ASSUME NEW s, NEW dos, Only(s, dos),
         \/ dos \cap (Expelling \cup {"raise"}) = {}
         \/ dos \cap {"lower", "join"} = {}
  PROVE  Paired(s)
<1>1. \A do, on, who : Has(s, Command(do, on, who)) => do \in dos
  BY OnlyHas
<1>2. \A x, y : ~Has(s, x) => Followed(s, x, y)
  BY DEF Has, Followed
<1>3. CASE dos \cap (Expelling \cup {"raise"}) = {}
  BY <1>1, <1>3 DEF Paired
<1>4. CASE dos \cap {"lower", "join"} = {}
  BY <1>1, <1>2, <1>4 DEF Paired
<1> QED
  BY <1>3, <1>4

LEMMA PairedTail ==
  ASSUME NEW s \in Scripts, s # <<>>, Paired(s)
  PROVE  Paired(Tail(s))
<1> DEFINE t == Tail(s)
<1>1. \A x : Has(t, x) => Has(s, x)
  BY HasTail
<1>2. \A x, y : Followed(s, x, y) => Followed(t, x, y)
  BY FollowedTail
<1> HIDE DEF t
<1>3. Paired(t)
  BY <1>1, <1>2 DEF Paired
<1> QED
  BY <1>3 DEF t

LEMMA FollowedHas ==
  ASSUME NEW s, NEW x, NEW y, Followed(s, x, y), Has(s, x), NEW n \in Nat,
         Len(s) = n
  PROVE  Has(s, y)
<1>1. PICK i \in 1..n : s[i] = x
  BY DEF Has
<1>2. PICK j \in (i + 1)..n : s[j] = y
  BY <1>1 DEF Followed
<1>3. j \in 1..n
  BY <1>1, <1>2
<1> QED
  BY <1>2, <1>3 DEF Has

(* Updates.                                                                *)
LEMMA DoesRoles ==
  ASSUME NEW c \in Commands, NEW d, NEW e, Stores(d), Stores(e),
         Does(c, d, e), NEW p \in Places, NEW b
  PROVE  /\ b \in Held(e, p) /\ b \notin Held(d, p) =>
              c \in {Command("join", p, b), Command("lower", p, b)}
         /\ b \in Ranked(e, p) /\ b \notin Ranked(d, p) =>
              c = Command("raise", p, b)
         /\ c \in {Command("expel", p, b), Command("raise", p, b)} =>
              b \notin Held(e, p)
         /\ c = Command("lower", p, b) => b \notin Ranked(e, p)
<1>1. ASSUME NEW creators, NEW keys, Reroled(d, e, p, creators, keys)
      PROVE  /\ Held(e, p) \subseteq keys /\ Ranked(e, p) \subseteq creators
  BY <1>1 DEF Reroled, Held, Ranked
<1>2. c = Command(c.do, c.on, c.who)
  BY CommandIs
<1>3. /\ c.do = "join" /\ c.on = p =>
           /\ Held(e, p) \subseteq Held(d, p) \cup {c.who}
           /\ Ranked(e, p) \subseteq Ranked(d, p)
      /\ c.do = "raise" /\ c.on = p =>
           /\ Held(e, p) \subseteq Held(d, p) \ {c.who}
           /\ Ranked(e, p) \subseteq Ranked(d, p) \cup {c.who}
      /\ c.do = "lower" /\ c.on = p =>
           /\ Held(e, p) \subseteq Held(d, p) \cup {c.who}
           /\ Ranked(e, p) \subseteq Ranked(d, p) \ {c.who}
      /\ c.do = "expel" /\ c.on = p =>
           /\ Held(e, p) \subseteq Held(d, p) \ {c.who}
           /\ Ranked(e, p) \subseteq Ranked(d, p)
  <2>1. /\ c.do = "join" /\ c.on = p =>
              Reroled(d, e, p, Ranked(d, p),
                      Held(d, p) \cup ({c.who} \ Ranked(d, p)))
        /\ c.do = "raise" /\ c.on = p =>
              Reroled(d, e, p, Ranked(d, p) \cup ({c.who} \cap Held(d, p)),
                      Held(d, p) \ {c.who})
        /\ c.do = "lower" /\ c.on = p =>
              Reroled(d, e, p, Ranked(d, p) \ {c.who},
                      Held(d, p) \cup ({c.who} \cap Ranked(d, p)))
        /\ c.do = "expel" /\ c.on = p =>
              Reroled(d, e, p, Ranked(d, p), Held(d, p) \ {c.who})
    BY DoesRosters
  <2>a. ASSUME c.do = "join", c.on = p
        PROVE  /\ Held(e, p) \subseteq Held(d, p) \cup {c.who}
               /\ Ranked(e, p) \subseteq Ranked(d, p)
    <3>1. /\ Held(e, p) \subseteq Held(d, p) \cup ({c.who} \ Ranked(d, p))
          /\ Ranked(e, p) \subseteq Ranked(d, p)
      BY <1>1, <2>1, <2>a
    <3> QED
      BY <3>1
  <2>b. ASSUME c.do = "raise", c.on = p
        PROVE  /\ Held(e, p) \subseteq Held(d, p) \ {c.who}
               /\ Ranked(e, p) \subseteq Ranked(d, p) \cup {c.who}
    <3>1. /\ Held(e, p) \subseteq Held(d, p) \ {c.who}
          /\ Ranked(e, p) \subseteq
               Ranked(d, p) \cup ({c.who} \cap Held(d, p))
      BY <1>1, <2>1, <2>b
    <3> QED
      BY <3>1
  <2>c. ASSUME c.do = "lower", c.on = p
        PROVE  /\ Held(e, p) \subseteq Held(d, p) \cup {c.who}
               /\ Ranked(e, p) \subseteq Ranked(d, p) \ {c.who}
    <3>1. /\ Held(e, p) \subseteq
               Held(d, p) \cup ({c.who} \cap Ranked(d, p))
          /\ Ranked(e, p) \subseteq Ranked(d, p) \ {c.who}
      BY <1>1, <2>1, <2>c
    <3> QED
      BY <3>1
  <2>d. ASSUME c.do = "expel", c.on = p
        PROVE  /\ Held(e, p) \subseteq Held(d, p) \ {c.who}
               /\ Ranked(e, p) \subseteq Ranked(d, p)
    BY <1>1, <2>1, <2>d
  <2> QED
    BY <2>a, <2>b, <2>c, <2>d
<1>4. ~(c.do \in Changing /\ c.on = p) =>
         Held(e, p) \subseteq Held(d, p) /\ Ranked(e, p) \subseteq Ranked(d, p)
  <2>1. /\ c.do = "delete" /\ c.on = p => e[p] = Nil
        /\ ~(c.do \in {"join", "raise", "lower", "expel", "delete"}
               /\ c.on = p) =>
             /\ Ranked(e, p) = Ranked(d, p) /\ Held(e, p) = Held(d, p)
             /\ e[p] = Nil <=> d[p] = Nil
    BY DoesRosters
  <2>2. e[p] = Nil => Held(e, p) = {} /\ Ranked(e, p) = {}
    BY DEF Held, Ranked
  <2> QED
    BY <2>1, <2>2 DEF Changing
<1>5. \A do : /\ c = Command(do, p, b) => c.do = do /\ c.on = p /\ c.who = b
              /\ c.do = do /\ c.on = p /\ c.who = b => c = Command(do, p, b)
  BY <1>2, Fields
<1> QED
  BY <1>3, <1>4, <1>5 DEF Changing

LEMMA LimitedDoes ==
  ASSUME NEW d, NEW r, NEW s, NEW e, Course(d, r, s), s # <<>>,
         Course(e, r, Tail(s)), Does(Head(s), d, e),
         Limited(d, s), Paired(s)
  PROVE  Limited(e, Tail(s))
<1> DEFINE c == Head(s)
           t == Tail(s)
<1>1. /\ s \in Scripts /\ t \in Scripts /\ c \in Commands
      /\ Stores(d) /\ Stores(e) /\ r.op \in Ops
      /\ c.do \in Reading \cup Running(r.op)
  BY CourseHead, RequestFields DEF Course
<1>2. \A x : Has(s, x) <=> c = x \/ Has(t, x)
  BY <1>1, HasTail
<1>3. ASSUME NEW do, NEW on, NEW who, Has(s, Command(do, on, who))
      PROVE  do \in Reading \cup Running(r.op)
  BY <1>3, CourseHas
<1>4. /\ "expel" \in Reading \cup Running(r.op) =>
           "join" \notin Reading \cup Running(r.op)
      /\ "raise" \in Reading \cup Running(r.op) =>
           "lower" \notin Reading \cup Running(r.op)
  BY <1>1 DEF Reading, Running, AddingSteps, LeavingSteps, Ops
(* Whoever is expelled is not to be lowered any more, whoever is raised    *)
(* not to join, unless it happens once more.                               *)
<1>5. ASSUME NEW p, NEW b, c = Command("expel", p, b),
             Has(t, Command("lower", p, b))
      PROVE  Has(t, Command("expel", p, b))
  <2>1. Has(s, Command("expel", p, b)) /\ "expel" \in Expelling
    BY <1>2, <1>5 DEF Expelling
  <2>2. Followed(s, Command("lower", p, b), Command("expel", p, b))
    BY <2>1 DEF Paired
  <2>3. Followed(t, Command("lower", p, b), Command("expel", p, b))
    BY <1>1, <2>2, FollowedTail
  <2>4. Len(t) \in Nat
    BY <1>1, ScriptAt
  <2> HIDE DEF t
  <2> QED
    BY <1>5, <2>3, <2>4, FollowedHas
<1>6. ASSUME NEW p, NEW b, c = Command("raise", p, b),
             Has(t, Command("join", p, b))
      PROVE  Has(t, Command("raise", p, b))
  <2>1. Has(s, Command("raise", p, b))
    BY <1>2, <1>6
  <2>2. Followed(s, Command("join", p, b), Command("raise", p, b))
    BY <2>1 DEF Paired
  <2>3. Followed(t, Command("join", p, b), Command("raise", p, b))
    BY <1>1, <2>2, FollowedTail
  <2>4. Len(t) \in Nat
    BY <1>1, ScriptAt
  <2> HIDE DEF t
  <2> QED
    BY <1>6, <2>3, <2>4, FollowedHas
<1> HIDE DEF c, t
<1>7. \A p \in Places : \A b :
        /\ b \in Held(e, p) /\ b \notin Held(d, p) =>
             c \in {Command("join", p, b), Command("lower", p, b)}
        /\ b \in Ranked(e, p) /\ b \notin Ranked(d, p) =>
             c = Command("raise", p, b)
        /\ c \in {Command("expel", p, b), Command("raise", p, b)} =>
             b \notin Held(e, p)
        /\ c = Command("lower", p, b) => b \notin Ranked(e, p)
  BY <1>1, DoesRoles DEF c
<1>8. ASSUME NEW p \in Places, NEW b \in ComingKeys(e, t, p)
      PROVE  b \in ComingKeys(d, s, p)
  <2>1. /\ b \in Accounts
        /\ \/ b \in Held(e, p) \/ Has(t, Command("join", p, b))
           \/ Has(t, Command("lower", p, b))
        /\ ~Has(t, Command("expel", p, b)) /\ ~Has(t, Command("raise", p, b))
    <3>1. b \in Accounts
      BY <1>1, <1>8, ComingKinds
    <3> QED
      BY <1>8, <3>1 DEF ComingKeys, Doing
  <2>2. \/ b \in Held(d, p) \/ Has(s, Command("join", p, b))
        \/ Has(s, Command("lower", p, b))
    BY <1>2, <1>7, <2>1
  <2>3. ~Has(s, Command("expel", p, b))
    <3> SUFFICES ASSUME Has(s, Command("expel", p, b)) PROVE FALSE
      OBVIOUS
    <3>1. c = Command("expel", p, b)
      BY <1>2, <2>1
    <3>2. ~Has(t, Command("join", p, b))
      BY <1>2, <1>3, <1>4
    <3> QED
      BY <1>5, <1>7, <2>1, <3>1, <3>2
  <2>4. ~Has(s, Command("raise", p, b))
    <3> SUFFICES ASSUME Has(s, Command("raise", p, b)) PROVE FALSE
      OBVIOUS
    <3>1. c = Command("raise", p, b)
      BY <1>2, <2>1
    <3>2. ~Has(t, Command("lower", p, b))
      BY <1>2, <1>3, <1>4
    <3> QED
      BY <1>6, <1>7, <2>1, <3>1, <3>2
  <2> QED
    BY <2>1, <2>2, <2>3, <2>4 DEF ComingKeys, Doing
<1>9. ASSUME NEW p \in Places, NEW b \in ComingCreators(e, t, p)
      PROVE  b \in ComingCreators(d, s, p)
  <2>1. /\ b \in Accounts
        /\ b \in Ranked(e, p) \/ Has(t, Command("raise", p, b))
        /\ ~Has(t, Command("lower", p, b))
    <3>1. b \in Accounts
      BY <1>1, <1>9, ComingKinds
    <3> QED
      BY <1>9, <3>1 DEF ComingCreators, Doing
  <2>2. b \in Ranked(d, p) \/ Has(s, Command("raise", p, b))
    BY <1>2, <1>7, <2>1
  <2>3. ~Has(s, Command("lower", p, b))
    <3> SUFFICES ASSUME Has(s, Command("lower", p, b)) PROVE FALSE
      OBVIOUS
    <3>1. c = Command("lower", p, b)
      BY <1>2, <2>1
    <3>2. ~Has(t, Command("raise", p, b))
      BY <1>2, <1>3, <1>4
    <3> QED
      BY <1>7, <2>1, <3>1, <3>2
  <2> QED
    BY <2>1, <2>2, <2>3 DEF ComingCreators, Doing
<1>10. Limited(e, t)
  <2>1. \A p \in Places :
          /\ ComingKeys(e, t, p) \subseteq ComingKeys(d, s, p)
          /\ ComingCreators(e, t, p) \subseteq ComingCreators(d, s, p)
    BY <1>8, <1>9
  <2> QED
    BY <1>1, <1>2, <2>1, LimitedStays
<1> QED
  BY <1>10 DEF t

-----------------------------------------------------------------------------
(* Leaving: who is lowered is expelled.                                    *)

LEMMA LeavesUnits ==
  ASSUME NEW p \in Places, NEW a \in Accounts
  PROVE  /\ \A c : Leaves(RemoveByRole(p, a, c))
         /\ Leaves(RemoveKeyHolder(p, a))
         /\ \A S \in SUBSET Subs : Leaves(Tour(S, a))
<1>1. \A s, dos, more : Only(s, dos) /\ dos \subseteq more => Only(s, more)
  BY DEF Only
<1>2. Removing \subseteq Leaving /\ {"tour"} \subseteq Leaving
  BY DEF Leaving
<1>3. /\ \A S \in SUBSET Subs : Only(Tour(S, a), {"tour"})
      /\ Only(RemoveKeyHolder(p, a), Removing)
      /\ \A c : Only(RemoveByRole(p, a, c), Removing)
  BY OnlyUnits
<1>4. \A c : Leaves(RemoveByRole(p, a, c))
  BY <1>1, <1>2, <1>3, DoesRole DEF Leaves
<1>5. \A s, x, y : ~Has(s, x) => Followed(s, x, y)
  BY DEF Has, Followed
<1>6. ASSUME NEW S \in SUBSET Subs PROVE Leaves(Tour(S, a))
  <2>1. Only(Tour(S, a), {"tour"})
    BY <1>3
  <2>2. \A q, b : ~Has(Tour(S, a), Command("lower", q, b))
    BY <2>1, OnlyHas
  <2> QED
    BY <1>1, <1>2, <1>5, <2>1, <2>2 DEF Leaves
<1>7. Leaves(RemoveKeyHolder(p, a))
  <2> DEFINE c == [creators |-> {}, keys |-> {a}]
  <2>1. RemoveByRole(p, a, c) = RemoveKeyHolder(p, a)
    BY DEF RemoveByRole
  <2> HIDE DEF c
  <2> QED
    BY <1>4, <2>1
<1> QED
  BY <1>4, <1>6, <1>7

LEMMA LeavesCat ==
  ASSUME NEW s, NEW t, Leaves(s), Leaves(t)
  PROVE  Leaves(s \o t)
<1>1. Only(s \o t, Leaving)
  BY OnlyCat DEF Leaves
<1>2. s \in Scripts /\ t \in Scripts
  BY DEF Leaves, Only
<1>3. \A p, a :
        Followed(s \o t, Command("lower", p, a), Command("expel", p, a))
  BY <1>2, FollowedCat DEF Leaves
<1> QED
  BY <1>1, <1>3 DEF Leaves

LEMMA DecidesLeaving ==
  ASSUME NEW d, NEW r, NEW c \in Commands, NEW calls, Decides(d, r, c, calls),
         c.do \in {"dismiss", "tour", "visit"}
  PROVE  Leaves(calls)
<1> DEFINE on == c.on
           a == c.who
<1>1. /\ a \in Accounts
      /\ c.do \in {"dismiss", "visit"} => on \in Places
      /\ c.do = "tour" => on \in SUBSET Subs
  BY CommandFields
<1>2. Grand \in Places /\ Subs \subseteq Places /\ {} \in SUBSET Subs
  BY DEF Places
<1> HIDE DEF on, a
<1>a. CASE c.do = "dismiss"
  <2>1. PICK S \in SUBSET Subs :
          calls = Tour(S, a) \o RemoveByRole(Grand, a, d[Grand])
    BY <1>a DEF Decides, a
  <2>2. Leaves(Tour(S, a)) /\ Leaves(RemoveByRole(Grand, a, d[Grand]))
    BY <1>1, <1>2, LeavesUnits
  <2> QED
    BY <2>1, <2>2, LeavesCat
<1>b. CASE c.do = "tour"
  <2>1. PICK q \in on : calls = <<Get(q), Command("visit", q, a)>>
                                  \o Tour(on \ {q}, a)
    BY <1>b DEF Decides, on, a
  <2> DEFINE u == <<Get(q), Command("visit", q, a)>>
  <2>2. q \in Places /\ q \in Keys /\ on \ {q} \in SUBSET Subs
    BY <1>1, <1>2, <1>b, KeyKinds
  <2>3. /\ Get(q) \in Commands /\ Command("visit", q, a) \in Commands
        /\ Get(q).do = "get" /\ Command("visit", q, a).do = "visit"
    BY <1>1, <2>2, PlainCommands, Fields
  <2>4. Only(u, {"get", "visit"})
    BY <2>3, OnlyShort
  <2> HIDE DEF u
  <2>5. Only(u, Leaving)
    BY <2>4 DEF Only, Leaving, Removing
  <2>6. \A x, y : ~Has(u, x) => Followed(u, x, y)
    BY DEF Has, Followed
  <2>7. Leaves(u)
    <3>1. \A p, b : ~Has(u, Command("lower", p, b))
      BY <2>4, OnlyHas
    <3> QED
      BY <2>5, <2>6, <3>1 DEF Leaves
  <2>8. Leaves(Tour(on \ {q}, a))
    BY <1>1, <2>2, LeavesUnits
  <2>9. Leaves(u \o Tour(on \ {q}, a))
    BY <2>7, <2>8, LeavesCat
  <2> QED
    BY <2>1, <2>9 DEF u
<1>c. CASE c.do = "visit"
  <2>1. \/ calls = <<>> \/ calls = RemoveByRole(on, a, d[on])
        \/ calls = RemoveKeyHolder(on, a)
    BY <1>c DEF Decides, on, a
  <2>2. Leaves(RemoveByRole(on, a, d[on])) /\ Leaves(RemoveKeyHolder(on, a))
        /\ Leaves(Tour({}, a))
    BY <1>1, <1>2, <1>c, LeavesUnits
  <2>3. Tour({}, a) = <<>>
    BY DEF Tour
  <2> QED
    BY <2>1, <2>2, <2>3
<1> QED
  BY <1>a, <1>b, <1>c

LEMMA LeavesHas ==
  ASSUME NEW s, Leaves(s), NEW p, NEW a
  PROVE  /\ Has(s, Command("lower", p, a)) => Has(s, Command("expel", p, a))
         /\ ~Has(s, Command("join", p, a)) /\ ~Has(s, Command("raise", p, a))
         /\ ~Has(s, Command("enlist", p, a)) /\ ~Has(s, Command("admit", p, a))
<1>1. {"join", "raise", "enlist", "admit"} \cap Leaving = {}
  BY DEF Leaving, Removing
<1>2. Len(s) \in Nat
  BY ScriptAt DEF Leaves, Only
<1>3. Has(s, Command("lower", p, a)) => Has(s, Command("expel", p, a))
  BY <1>2, FollowedHas DEF Leaves
<1> QED
  BY <1>1, <1>3, OnlyHas DEF Leaves

(* From the start of a request, and on the tour.                           *)
LEMMA LimitedLeaves ==
  ASSUME NEW d, Stores(d), NEW s \in Scripts, s # <<>>, NEW calls,
         Head(s).do \in {"dismiss", "tour", "visit"}, Leaves(calls),
         Limited(d, s), Paired(s)
  PROVE  Limited(d, calls \o Tail(s)) /\ Paired(calls \o Tail(s))
<1> DEFINE c == Head(s)
           rest == Tail(s)
           t == calls \o rest
<1>1. calls \in Scripts /\ rest \in Scripts /\ c \in Commands
  BY ScriptAt, HeadTailProperties DEF Leaves, Only, Scripts
<1>2. /\ \A x : Has(s, x) <=> c = x \/ Has(rest, x)
      /\ \A x : Has(t, x) <=> Has(calls, x) \/ Has(rest, x)
  BY <1>1, HasTail, HasCat
<1>3. c = Command(c.do, c.on, c.who)
  BY <1>1, CommandIs
<1>4. \A do, on, who : c = Command(do, on, who) => c.do = do
  BY Fields
<1>5. \A p, a : Followed(s, Command("lower", p, a), Command("expel", p, a))
  BY <1>2, <1>3 DEF Paired, Expelling
<1>6. \A x, y : /\ Followed(s, x, y) => Followed(rest, x, y)
                /\ Followed(rest, x, y) /\ Followed(calls, x, y) =>
                     Followed(t, x, y)
  BY <1>1, FollowedTail, FollowedCat
<1>7. \A x, y : ~Has(calls, x) => Followed(calls, x, y)
  BY DEF Has, Followed
<1>8. \A p, a :
        /\ Has(calls, Command("lower", p, a)) =>
             Has(calls, Command("expel", p, a))
        /\ ~Has(calls, Command("join", p, a))
        /\ ~Has(calls, Command("raise", p, a))
        /\ ~Has(calls, Command("enlist", p, a))
        /\ ~Has(calls, Command("admit", p, a))
  BY LeavesHas
<1> HIDE DEF c, rest, t
<1>9. \A do \in Changing \cup {"enlist", "admit"} : \A p, a :
        Has(s, Command(do, p, a)) <=> Has(rest, Command(do, p, a))
  BY <1>2, <1>4 DEF Changing, c
<1>10. ASSUME NEW p \in Places
       PROVE  /\ ComingKeys(d, t, p) \subseteq ComingKeys(d, s, p)
              /\ ComingCreators(d, t, p) \subseteq ComingCreators(d, s, p)
  <2>1. /\ Doing(t, "join", p) = Doing(s, "join", p)
        /\ Doing(t, "raise", p) = Doing(s, "raise", p)
        /\ Doing(t, "lower", p) = Doing(calls, "lower", p)
                                    \cup Doing(s, "lower", p)
        /\ Doing(t, "expel", p) = Doing(calls, "expel", p)
                                    \cup Doing(s, "expel", p)
        /\ Doing(calls, "lower", p) \subseteq Doing(calls, "expel", p)
    BY <1>2, <1>8, <1>9 DEF Doing, Changing
  <2> QED
    BY <2>1 DEF ComingKeys, ComingCreators
<1>11. Limited(d, t)
  <2>1. \A do \in {"enlist", "admit"} : \A l, a :
          Has(t, Command(do, l, a)) => Has(s, Command(do, l, a))
    BY <1>2, <1>8
  <2> QED
    BY <1>10, <2>1, LimitedStays
<1>12. \A p, a : Followed(t, Command("lower", p, a), Command("expel", p, a))
  BY <1>5, <1>6 DEF Leaves
<1>13. \/ \A p, a : Followed(t, Command("join", p, a), Command("raise", p, a))
       \/ \A on, who : ~Has(t, Command("raise", on, who))
  <2>1. CASE \A p, a : Followed(s, Command("join", p, a),
                                   Command("raise", p, a))
    BY <1>6, <1>7, <1>8, <2>1
  <2>2. CASE \A on, who : ~Has(s, Command("raise", on, who))
    BY <1>2, <1>8, <2>2
  <2> QED
    BY <2>1, <2>2 DEF Paired
<1>14. Paired(t)
  BY <1>12, <1>13 DEF Paired
<1> QED
  BY <1>11, <1>14 DEF t, rest

-----------------------------------------------------------------------------
(* Decisions on the limits.                                                *)

LEMMA RosterSizes ==
  ASSUME NEW d, Stores(d), NEW p \in Places
  PROVE  /\ Cardinality(Held(d, p)) \in Nat
         /\ Cardinality(Ranked(d, p)) \in Nat
         /\ \A a : /\ Cardinality(Held(d, p) \cup {a}) \in Nat
                   /\ Cardinality(Held(d, p) \cup {a})
                        <= Cardinality(Held(d, p)) + 1
                   /\ Cardinality(Ranked(d, p) \cup {a}) \in Nat
                   /\ Cardinality(Ranked(d, p) \cup {a})
                        <= Cardinality(Ranked(d, p)) + 1
<1>1. IsFiniteSet(Held(d, p)) /\ IsFiniteSet(Ranked(d, p))
  BY ComingKinds, KeysAssumption, FS_Subset
<1>2. ASSUME NEW S, IsFiniteSet(S), NEW a
      PROVE  /\ Cardinality(S) \in Nat /\ Cardinality(S \cup {a}) \in Nat
             /\ Cardinality(S \cup {a}) <= Cardinality(S) + 1
  <2>1. Cardinality(S) \in Nat
    BY <1>2, FS_CardinalityType
  <2>2. Cardinality(S \cup {a}) =
          IF a \in S THEN Cardinality(S) ELSE Cardinality(S) + 1
    BY <1>2, FS_AddElement
  <2> QED
    BY <2>1, <2>2
<1> QED
  BY <1>1, <1>2

LEMMA LimitedWithin ==
  ASSUME NEW d, Stores(d), NEW s, Limited(d, s),
         \A do \in Changing : \A p, a : ~Has(s, Command(do, p, a))
  PROVE  Within(d)
<1> SUFFICES ASSUME NEW p \in Places
             PROVE  /\ Cardinality(Held(d, p)) <= KeyholderLimit
                    /\ Cardinality(Ranked(d, p)) <= CreatorLimit
  BY DEF Within
<1>1. /\ ComingKeys(d, s, p) = Held(d, p)
      /\ ComingCreators(d, s, p) = Ranked(d, p)
  BY ComingKinds, ComingNow
<1> QED
  BY <1>1 DEF Limited

LEMMA LimitedRead ==
  ASSUME NEW d, Stores(d), Within(d), NEW t,
         \A do \in Changing : \A p, a : ~Has(t, Command(do, p, a)),
         \A do \in {"enlist", "admit"} : \A l, a :
           Has(t, Command(do, l, a)) =>
             \/ l.room <= 0
             \/ Cardinality(Held(d, l.place)) + l.room <= KeyholderLimit
  PROVE  Limited(d, t)
<1>1. \A p \in Places :
        /\ ComingKeys(d, t, p) = Held(d, p)
        /\ ComingCreators(d, t, p) = Ranked(d, p)
  BY ComingKinds, ComingNow
<1>2. \A l \in Loops : l.place \in Places
  BY DEF Loops
<1> QED
  BY <1>1, <1>2 DEF Limited, Within

LEMMA LimitedOnly ==
  ASSUME NEW d, Stores(d), Within(d), NEW t, NEW dos, Only(t, dos),
         dos \cap (Changing \cup {"enlist", "admit"}) = {}
  PROVE  Limited(d, t) /\ Paired(t)
<1>1. \A do \in Changing \cup {"enlist", "admit"} : \A p, a :
        ~Has(t, Command(do, p, a))
  BY OnlyHas
<1>2. dos \cap {"lower", "join"} = {}
  BY DEF Changing
<1> QED
  BY <1>1, <1>2, LimitedRead, PairedOnly

LEMMA LimitedLeave ==
  ASSUME NEW d, Stores(d), Within(d), NEW t, Leaves(t)
  PROVE  Limited(d, t) /\ Paired(t)
<1>1. \A p, a :
        /\ Has(t, Command("lower", p, a)) => Has(t, Command("expel", p, a))
        /\ ~Has(t, Command("join", p, a)) /\ ~Has(t, Command("raise", p, a))
        /\ ~Has(t, Command("enlist", p, a)) /\ ~Has(t, Command("admit", p, a))
  BY LeavesHas
<1>2. Paired(t)
  BY <1>1 DEF Paired, Leaves
<1>3. \A p : /\ Doing(t, "join", p) = {} /\ Doing(t, "raise", p) = {}
             /\ Doing(t, "lower", p) \subseteq Doing(t, "expel", p)
  BY <1>1 DEF Doing
<1>4. Limited(d, <<>>)
  BY HasNothing, LimitedRead
<1>5. \A p \in Places :
        /\ ComingKeys(d, <<>>, p) = Held(d, p)
        /\ ComingCreators(d, <<>>, p) = Ranked(d, p)
  BY HasNothing, ComingKinds, ComingNow
<1>6. \A p \in Places :
        /\ ComingKeys(d, t, p) \subseteq Held(d, p)
        /\ ComingCreators(d, t, p) \subseteq Ranked(d, p)
  BY <1>3 DEF ComingKeys, ComingCreators
<1>7. Limited(d, t)
  BY <1>1, <1>4, <1>5, <1>6, LimitedStays
<1> QED
  BY <1>2, <1>7

(* One role of one place is changed.                                       *)
LEMMA LimitedPromote ==
  ASSUME NEW d, Stores(d), Within(d), NEW p \in Places, NEW b \in Accounts,
         Cardinality(Ranked(d, p)) < CreatorLimit
  PROVE  Limited(d, Promote(p, b)) /\ Paired(Promote(p, b))
<1> DEFINE t == Promote(p, b)
<1>1. /\ Only(t, {"raise", "del"})
      /\ \A x : Has(t, x) <=> x \in {Command("raise", p, b), Del(b), Del(p)}
  BY OnlyUnits, DoesPromote
<1> HIDE DEF t
<1>2. {"raise", "del"} \cap {"lower", "join"} = {}
  OBVIOUS
<1>3. Paired(t)
  BY <1>1, <1>2, PairedOnly
<1>4. \A do \in {"join", "lower", "expel", "enlist", "admit"} :
        \A on, who : ~Has(t, Command(do, on, who))
  BY <1>1, OnlyHas
<1>5. \A q, a : Has(t, Command("raise", q, a)) <=> q = p /\ a = b
  <2>1. \A q, a : /\ Command("raise", q, a) # Del(b)
                  /\ Command("raise", q, a) # Del(p)
    BY Fields
  <2> QED
    BY <1>1, <2>1, SameCommand
<1>6. ASSUME NEW q \in Places
      PROVE  /\ Cardinality(ComingKeys(d, t, q)) <= KeyholderLimit
             /\ Cardinality(ComingCreators(d, t, q)) <= CreatorLimit
  <2>1. /\ Doing(t, "join", q) = {} /\ Doing(t, "lower", q) = {}
        /\ Doing(t, "expel", q) = {}
        /\ Doing(t, "raise", q) = IF q = p THEN {b} ELSE {}
    BY <1>4, <1>5 DEF Doing
  <2>2. /\ ComingKeys(d, t, q) \subseteq Held(d, q)
        /\ q # p => ComingCreators(d, t, q) = Ranked(d, q)
        /\ q = p => ComingCreators(d, t, q) = Ranked(d, q) \cup {b}
    BY <2>1 DEF ComingKeys, ComingCreators
  <2>3. /\ Cardinality(ComingKeys(d, t, q)) \in Nat
        /\ Cardinality(ComingKeys(d, t, q)) <= Cardinality(Held(d, q))
        /\ Cardinality(Held(d, q)) \in Nat
    BY <2>2, ComingKinds, Fewer
  <2>4. /\ KeyholderLimit \in Nat /\ CreatorLimit \in Nat
        /\ Cardinality(Held(d, q)) <= KeyholderLimit
        /\ Cardinality(Ranked(d, q)) <= CreatorLimit
    BY PlacesAssumption DEF Within
  <2>5. /\ Cardinality(Ranked(d, q)) \in Nat
        /\ Cardinality(Ranked(d, q) \cup {b}) \in Nat
        /\ Cardinality(Ranked(d, q) \cup {b}) <= Cardinality(Ranked(d, q)) + 1
    BY RosterSizes
  <2>6. Cardinality(ComingKeys(d, t, q)) <= KeyholderLimit
    BY <2>3, <2>4
  <2>7. CASE q = p
    <3>1. Cardinality(Ranked(d, q) \cup {b}) <= CreatorLimit
      BY <2>4, <2>5, <2>7
    <3> QED
      BY <2>2, <2>6, <2>7, <3>1
  <2>8. CASE q # p
    BY <2>2, <2>4, <2>6, <2>8
  <2> QED
    BY <2>7, <2>8
<1>7. Limited(d, t)
  BY <1>4, <1>6 DEF Limited
<1> QED
  BY <1>3, <1>7 DEF t

LEMMA LimitedDemote ==
  ASSUME NEW d, Stores(d), Within(d), NEW p \in Places, NEW b \in Accounts,
         Cardinality(Held(d, p)) < KeyholderLimit
  PROVE  Limited(d, Demote(p, b)) /\ Paired(Demote(p, b))
<1> DEFINE t == Demote(p, b)
<1>1. /\ Only(t, {"lower", "del"})
      /\ \A x : Has(t, x) <=> x \in {Command("lower", p, b), Del(b), Del(p)}
  BY OnlyUnits, DoesPromote
<1> HIDE DEF t
<1>2. {"lower", "del"} \cap (Expelling \cup {"raise"}) = {}
  BY DEF Expelling
<1>3. Paired(t)
  BY <1>1, <1>2, PairedOnly
<1>4. \A do \in {"join", "raise", "expel", "enlist", "admit"} :
        \A on, who : ~Has(t, Command(do, on, who))
  BY <1>1, OnlyHas
<1>5. \A q, a : Has(t, Command("lower", q, a)) <=> q = p /\ a = b
  <2>1. \A q, a : /\ Command("lower", q, a) # Del(b)
                  /\ Command("lower", q, a) # Del(p)
    BY Fields
  <2> QED
    BY <1>1, <2>1, SameCommand
<1>6. ASSUME NEW q \in Places
      PROVE  /\ Cardinality(ComingKeys(d, t, q)) <= KeyholderLimit
             /\ Cardinality(ComingCreators(d, t, q)) <= CreatorLimit
  <2>1. /\ Doing(t, "join", q) = {} /\ Doing(t, "raise", q) = {}
        /\ Doing(t, "expel", q) = {}
        /\ Doing(t, "lower", q) = IF q = p THEN {b} ELSE {}
    BY <1>4, <1>5 DEF Doing
  <2>2. /\ ComingCreators(d, t, q) \subseteq Ranked(d, q)
        /\ q # p => ComingKeys(d, t, q) = Held(d, q)
        /\ q = p => ComingKeys(d, t, q) = Held(d, q) \cup {b}
    BY <2>1 DEF ComingKeys, ComingCreators
  <2>3. /\ Cardinality(ComingCreators(d, t, q)) \in Nat
        /\ Cardinality(ComingCreators(d, t, q)) <= Cardinality(Ranked(d, q))
        /\ Cardinality(Ranked(d, q)) \in Nat
    BY <2>2, ComingKinds, Fewer
  <2>4. /\ KeyholderLimit \in Nat /\ CreatorLimit \in Nat
        /\ Cardinality(Held(d, q)) <= KeyholderLimit
        /\ Cardinality(Ranked(d, q)) <= CreatorLimit
    BY PlacesAssumption DEF Within
  <2>5. /\ Cardinality(Held(d, q)) \in Nat
        /\ Cardinality(Held(d, q) \cup {b}) \in Nat
        /\ Cardinality(Held(d, q) \cup {b}) <= Cardinality(Held(d, q)) + 1
    BY RosterSizes
  <2>6. Cardinality(ComingCreators(d, t, q)) <= CreatorLimit
    BY <2>3, <2>4
  <2>7. CASE q = p
    <3>1. Cardinality(Held(d, q) \cup {b}) <= KeyholderLimit
      BY <2>4, <2>5, <2>7
    <3> QED
      BY <2>2, <2>6, <2>7, <3>1
  <2>8. CASE q # p
    BY <2>2, <2>4, <2>6, <2>8
  <2> QED
    BY <2>7, <2>8
<1>7. Limited(d, t)
  BY <1>4, <1>6 DEF Limited
<1> QED
  BY <1>3, <1>7 DEF t

LEMMA LimitedLoop ==
  ASSUME NEW d, Stores(d), Within(d), NEW l \in Loops, NEW a \in Accounts,
         HasRoom(d, l)
  PROVE  /\ Limited(d, AddMembers(l, a)) /\ Paired(AddMembers(l, a))
         /\ Limited(d, <<Get(Grand), Command("enlist", l, a)>>)
         /\ Paired(<<Get(Grand), Command("enlist", l, a)>>)
<1>1. ASSUME NEW t, Only(t, {"get", "enlist", "admit"}),
             \A do \in {"enlist", "admit"} : \A k, b :
               Has(t, Command(do, k, b)) => k = l
      PROVE  Limited(d, t) /\ Paired(t)
  <2>1. {"get", "enlist", "admit"} \cap Changing = {}
        /\ {"get", "enlist", "admit"} \cap {"lower", "join"} = {}
    BY DEF Changing
  <2>2. \A do \in Changing : \A p, b : ~Has(t, Command(do, p, b))
    BY <1>1, <2>1, OnlyHas
  <2> QED
    BY <1>1, <2>1, <2>2, LimitedRead, PairedOnly DEF HasRoom
<1>2. Grand \in Places /\ Grand \in Keys
  BY KeyKinds
<1>3. Limited(d, AddMembers(l, a)) /\ Paired(AddMembers(l, a))
  <2> DEFINE t == AddMembers(l, a)
  <2>1. Only(t, {"admit"})
    BY <1>2, OnlyUnits
  <2>2. \A x : Has(t, x) => x = Command("admit", l, a)
    BY HasNothing, DoesShort DEF AddMembers
  <2> HIDE DEF t
  <2>3. Only(t, {"get", "enlist", "admit"})
    BY <2>1 DEF Only
  <2>4. \A do, k, b : Has(t, Command(do, k, b)) => k = l
    BY <2>2, SameCommand
  <2> QED
    BY <1>1, <2>3, <2>4 DEF t
<1>4. /\ Limited(d, <<Get(Grand), Command("enlist", l, a)>>)
      /\ Paired(<<Get(Grand), Command("enlist", l, a)>>)
  <2> DEFINE t == <<Get(Grand), Command("enlist", l, a)>>
  <2>1. /\ Get(Grand) \in Commands /\ Command("enlist", l, a) \in Commands
        /\ Get(Grand).do = "get" /\ Command("enlist", l, a).do = "enlist"
    BY <1>2, PlainCommands, LoopCommands, Fields
  <2>2. Only(t, {"get", "enlist", "admit"})
    BY <2>1, OnlyShort
  <2>3. \A x : Has(t, x) <=> x = Get(Grand) \/ x = Command("enlist", l, a)
    BY DoesShort
  <2> HIDE DEF t
  <2>4. \A do \in {"enlist", "admit"} : \A k, b :
          Has(t, Command(do, k, b)) => k = l
    <3>1. \A do \in {"enlist", "admit"} : \A k, b :
            Command(do, k, b) # Get(Grand)
      BY Fields
    <3> QED
      BY <2>3, <3>1, SameCommand
  <2> QED
    BY <1>1, <2>2, <2>4 DEF t
<1> QED
  BY <1>3, <1>4

(* One joins and the room is one less.                                     *)
LEMMA LimitedAdmit ==
  ASSUME NEW d, Stores(d), Within(d), NEW l \in Loops, NEW a \in Accounts,
         NEW b \in Accounts, l.room + 1 > 0,
         Cardinality(Held(d, l.place)) + l.room + 1 <= KeyholderLimit
  PROVE  LET t == (AddKeyHolder(l.place, b) \o <<Del(b)>>)
                    \o AddMembers(l, a)
         IN  Limited(d, t) /\ Paired(t)
<1> DEFINE p == l.place
           u == AddKeyHolder(p, b)
           v == <<Del(b)>>
           z == AddMembers(l, a)
           uv == u \o v
           t == uv \o z
           dos == {"get", "join", "grant", "del", "admit"}
<1>1. p \in Places /\ l.room \in Int /\ b \in Keys
  BY KeyKinds DEF Loops
<1>2. Only(u, {"get", "join", "grant", "del"}) /\ Only(z, {"admit"})
  BY <1>1, OnlyUnits
<1>3. Only(v, {"del"})
  BY <1>1, PlainCommands, OnlyShort, Fields
<1>4. Only(u, dos) /\ Only(v, dos) /\ Only(z, dos)
  <2> HIDE DEF u, v, z
  <2> QED
    BY <1>2, <1>3 DEF Only
<1>5. /\ \A x : Has(u, x) <=>
           x \in {Get(p), Get(b), Command("join", p, b),
                  Command("grant", p, b), Del(b), Del(p)}
      /\ \A x : Has(v, x) <=> x = Del(b)
      /\ \A x : Has(z, x) => x = Command("admit", l, a)
  BY <1>1, DoesAdd, DoesShort, HasNothing DEF AddMembers
<1> HIDE DEF u, v, z
<1>6. Only(uv, dos) /\ Only(t, dos)
  <2>1. Only(uv, dos)
    BY <1>4, OnlyCat
  <2> HIDE DEF uv
  <2> QED
    BY <1>4, <2>1, OnlyCat
<1>7. \A x : Has(t, x) <=> Has(u, x) \/ Has(v, x) \/ Has(z, x)
  <2>1. u \in Scripts /\ v \in Scripts /\ z \in Scripts /\ uv \in Scripts
    BY <1>4, <1>6 DEF Only
  <2>2. \A x : Has(uv, x) <=> Has(u, x) \/ Has(v, x)
    BY <2>1, HasCat
  <2> HIDE DEF uv
  <2> QED
    BY <2>1, <2>2, HasCat
<1> HIDE DEF t, uv
<1>8. \A do \in {"lower", "raise", "expel", "enlist"} :
        \A on, who : ~Has(t, Command(do, on, who))
  BY <1>6, OnlyHas
<1>9. \A q, c : Has(t, Command("join", q, c)) <=> q = p /\ c = b
  <2>1. \A q, c : /\ \A k : /\ Command("join", q, c) # Del(k)
                            /\ Command("join", q, c) # Get(k)
                  /\ Command("join", q, c) # Command("grant", p, b)
                  /\ Command("join", q, c) # Command("admit", l, a)
                  /\ Command("join", q, c) = Command("join", p, b) <=>
                       q = p /\ c = b
    BY SameCommand, Fields
  <2> QED
    BY <1>5, <1>7, <2>1
<1>10. \A k, c : Has(t, Command("admit", k, c)) => k = l
  <2>1. \A k, c : /\ \A j : /\ Command("admit", k, c) # Del(j)
                            /\ Command("admit", k, c) # Get(j)
                  /\ Command("admit", k, c) # Command("grant", p, b)
                  /\ Command("admit", k, c) # Command("join", p, b)
                  /\ Command("admit", k, c) = Command("admit", l, a) => k = l
    BY SameCommand, Fields
  <2> QED
    BY <1>5, <1>7, <2>1
<1>11. dos \cap (Expelling \cup {"raise"}) = {}
  BY DEF Expelling
<1>12. Paired(t)
  BY <1>6, <1>11, PairedOnly
<1>13. \A q : /\ Doing(t, "lower", q) = {} /\ Doing(t, "raise", q) = {}
              /\ Doing(t, "expel", q) = {}
              /\ Doing(t, "join", q) = IF q = p THEN {b} ELSE {}
  BY <1>8, <1>9 DEF Doing
<1>14. \A q : /\ ComingCreators(d, t, q) = Ranked(d, q)
              /\ q # p => ComingKeys(d, t, q) = Held(d, q)
              /\ q = p => ComingKeys(d, t, q) = Held(d, q) \cup {b}
  BY <1>13 DEF ComingKeys, ComingCreators
<1>15. /\ Cardinality(Held(d, p)) \in Nat
       /\ Cardinality(Held(d, p) \cup {b}) \in Nat
       /\ Cardinality(Held(d, p) \cup {b}) <= Cardinality(Held(d, p)) + 1
       /\ KeyholderLimit \in Nat
  BY <1>1, RosterSizes, PlacesAssumption
<1>16. /\ Cardinality(ComingKeys(d, t, p)) <= KeyholderLimit
       /\ l.room <= 0 \/ Cardinality(ComingKeys(d, t, p)) + l.room
                           <= KeyholderLimit
  <2>1. Cardinality(Held(d, p)) + l.room + 1 <= KeyholderLimit
    OBVIOUS
  <2>2. /\ Cardinality(Held(d, p) \cup {b}) <= KeyholderLimit
        /\ Cardinality(Held(d, p) \cup {b}) + l.room <= KeyholderLimit
    BY <1>1, <1>15, <2>1
  <2> QED
    BY <1>14, <2>2
<1>17. Limited(d, t)
  <2>1. ASSUME NEW q \in Places
        PROVE  /\ Cardinality(ComingKeys(d, t, q)) <= KeyholderLimit
               /\ Cardinality(ComingCreators(d, t, q)) <= CreatorLimit
    <3>1. /\ Cardinality(Held(d, q)) <= KeyholderLimit
          /\ Cardinality(Ranked(d, q)) <= CreatorLimit
      BY DEF Within
    <3> QED
      BY <1>14, <1>16, <3>1
  <2> QED
    BY <1>8, <1>10, <1>16, <2>1 DEF Limited, p
<1> QED
  BY <1>12, <1>17 DEF t, uv, u, v, z, p

(* What the handlers call.                                                 *)
LEMMA ServesLimited ==
  ASSUME AddedByClients, NEW d, NEW r \in Requests, Stores(d), Within(d),
         Tallied(d), NEW calls, Serves(d, r, calls)
  PROVE  Limited(d, calls) /\ Paired(calls)
<1> DEFINE p == r.place
           a == r.who
           b == Head(r.list)
           c == d[Subject(r)]
           l == Joining(r, c)
<1>1. /\ p \in Places /\ a \in Accounts /\ Subject(r) \in Places
      /\ r.op \in AboutOne => b \in Accounts
      /\ r.op # "add_place" => c = d[p]
      /\ p \in Keys /\ Grand \in Keys /\ Grand \in Places
  BY RequestFields, KeyKinds DEF Subject
<1>2. c \in PlaceDocs /\ c # Nil /\ Valid(r, c)
  BY <1>1 DEF Serves, Stores, IsStore
<1>3. l \in Loops /\ l.place = p /\ l.room = KeyholderLimit - c.nKeys
  BY <1>2, JoiningLoop DEF Joining
<1>4. r.op # "add_place" =>
        /\ Held(d, p) = c.keys /\ Ranked(d, p) = c.creators
        /\ c.nKeys = Cardinality(Held(d, p))
        /\ c.nCreators = Cardinality(Ranked(d, p))
  BY <1>1, <1>2 DEF Held, Ranked, Tallied
<1>5. ASSUME NEW dos \in {{"get", "dismiss"}, {"get", "dissolve"},
                          {"get", "insert"}},
             NEW k \in Keys, NEW x \in Commands, x.do \in dos
      PROVE  Limited(d, <<Get(k), x>>) /\ Paired(<<Get(k), x>>)
  <2>1. Get(k) \in Commands /\ Get(k).do = "get"
    BY PlainCommands, Fields
  <2>2. Only(<<Get(k), x>>, dos)
    BY <1>5, <2>1, OnlyShort
  <2>3. dos \cap (Changing \cup {"enlist", "admit"}) = {}
    BY DEF Changing
  <2> QED
    BY <2>2, <2>3, LimitedOnly
<1> HIDE DEF p, a, b, c, l
<1>a. CASE r.op \in {"invite_member", "add_member"}
  <2>1. \/ calls = AddMembers(l, a)
        \/ calls = <<Get(Grand), Command("enlist", l, a)>>
    BY <1>a DEF Serves, a, c, l
  <2>2. HasRoom(d, l)
    <3>1. /\ Cardinality(Held(d, p)) \in Nat /\ KeyholderLimit \in Nat
          /\ c.nKeys = Cardinality(Held(d, p))
      BY <1>1, <1>4, <1>a, RosterSizes, PlacesAssumption
    <3>2. Cardinality(Held(d, p)) + (KeyholderLimit - c.nKeys)
            <= KeyholderLimit
      BY <3>1
    <3> QED
      BY <1>3, <3>2 DEF HasRoom
  <2> QED
    BY <1>1, <1>3, <2>1, <2>2, LimitedLoop
<1>b. CASE r.op = "promote_member"
  <2>1. calls = Promote(p, b) /\ b \in Accounts
    BY <1>1, <1>b DEF Serves, p, b, AboutOne
  <2>2. c.nCreators < CreatorLimit
    BY <1>2, <1>b DEF Valid
  <2>3. Cardinality(Ranked(d, p)) < CreatorLimit
    BY <1>4, <1>b, <2>2
  <2> QED
    BY <1>1, <2>1, <2>3, LimitedPromote
<1>c. CASE r.op = "demote_member"
  <2>1. calls = Demote(p, b) /\ b \in Accounts
    BY <1>1, <1>c DEF Serves, p, b, AboutOne
  <2>2. c.nKeys < KeyholderLimit
    BY <1>2, <1>c DEF Valid, AddedByClients
  <2>3. Cardinality(Held(d, p)) < KeyholderLimit
    BY <1>4, <1>c, <2>2
  <2> QED
    BY <1>1, <2>1, <2>3, LimitedDemote
<1>d. CASE r.op = "leave"
  <2>1. PICK S \in SUBSET Subs : calls = Tour(S, a) \o RemoveByRole(p, a, c)
    BY <1>1, <1>d DEF Serves, p, a, c
  <2>2. Leaves(Tour(S, a)) /\ Leaves(RemoveByRole(p, a, c))
    BY <1>1, LeavesUnits
  <2>3. Leaves(calls)
    BY <2>1, <2>2, LeavesCat
  <2> QED
    BY <2>3, LimitedLeave
<1>e. CASE r.op = "remove_member" /\ p # Grand
  <2>1. calls = RemoveByRole(p, b, c) /\ b \in Accounts
    BY <1>1, <1>e DEF Serves, p, b, c, AboutOne
  <2>2. Leaves(calls)
    BY <1>1, <2>1, LeavesUnits
  <2> QED
    BY <2>2, LimitedLeave
<1>f. CASE r.op = "remove_member" /\ p = Grand
  <2>1. calls = <<Get(b), Command("dismiss", Grand, b)>> /\ b \in Accounts
    BY <1>1, <1>f DEF Serves, p, b, AboutOne
  <2>2. /\ Command("dismiss", Grand, b) \in Commands
        /\ Command("dismiss", Grand, b).do = "dismiss" /\ b \in Keys
    BY <1>1, <2>1, PlainCommands, KeyKinds, Fields
  <2> QED
    BY <1>5, <2>1, <2>2
<1>g. CASE r.op = "remove"
  <2>1. calls = <<Get(p), Command("dissolve", p, NoOne)>>
    BY <1>g DEF Serves, p
  <2>2. /\ Command("dissolve", p, NoOne) \in Commands
        /\ Command("dissolve", p, NoOne).do = "dissolve"
    BY <1>1, PlainCommands, Fields
  <2> QED
    BY <1>1, <1>5, <2>1, <2>2
<1>h. CASE r.op = "add_place"
  <2>1. calls = <<Get(Grand), Command("insert", p, a)>>
    BY <1>h DEF Serves, p, a
  <2>2. /\ Command("insert", p, a) \in Commands
        /\ Command("insert", p, a).do = "insert"
    BY <1>1, PlainCommands, Fields
  <2> QED
    BY <1>1, <1>5, <2>1, <2>2
<1>6. r.op \in Ops
  BY RequestFields
<1> QED
  BY <1>6, <1>a, <1>b, <1>c, <1>d, <1>e, <1>f, <1>g, <1>h DEF Ops

(* The commands that come last in a request.                               *)
LEMMA DecidesLimited ==
  ASSUME AddedByClients, NEW d, NEW r \in Requests, Stores(d), Within(d),
         Tallied(d), NEW c \in Commands, NEW calls, Decides(d, r, c, calls),
         c.do \in Final, c.do = "admit" => ~r.admin,
         c.do \in {"enlist", "admit"} => HasRoom(d, c.on)
  PROVE  Limited(d, calls) /\ Paired(calls)
<1> DEFINE on == c.on
           a == c.who
<1>1. /\ c.do = "dissolve" => on \in Places
      /\ c.do \in {"enlist", "admit"} => on \in Loops /\ a \in Accounts
      /\ c.do = "admit" => on.list # <<>>
  BY CommandFields
<1>2. Grand \in Keys /\ Grand \in Places /\ \A p \in Places : p \in Keys
  BY KeyKinds
<1>3. ASSUME NEW k \in Keys
      PROVE  Limited(d, <<Del(k)>>) /\ Paired(<<Del(k)>>)
  <2>1. Only(<<Del(k)>>, {"del"})
    BY PlainCommands, OnlyShort, Fields
  <2>2. {"del"} \cap (Changing \cup {"enlist", "admit"}) = {}
    BY DEF Changing
  <2> QED
    BY <2>1, <2>2, LimitedOnly
<1> HIDE DEF on, a
<1>a. CASE c.do = "serve"
  <2>1. CASE calls \in {<<>>, <<Get(Grand), Use(Grand)>>}
    <3>1. /\ Use(Grand) \in Commands /\ Use(Grand).do = "use"
          /\ Get(Grand) \in Commands /\ Get(Grand).do = "get"
      BY <1>2, PlainCommands, Fields
    <3>2. Only(calls, {"get", "use"})
      BY <2>1, <3>1, OnlyShort
    <3>3. {"get", "use"} \cap (Changing \cup {"enlist", "admit"}) = {}
      BY DEF Changing
    <3> QED
      BY <3>2, <3>3, LimitedOnly
  <2>2. CASE Serves(d, r, calls)
    BY <2>2, ServesLimited
  <2> QED
    BY <1>a, <2>1, <2>2 DEF Decides
<1>b. CASE c.do = "enlist"
  <2> DEFINE l == [on EXCEPT !.eligible = @ \cap Members(d[Grand])]
  <2>1. calls = AddMembers(l, a)
    BY <1>b DEF Decides, on, a
  <2>2. l \in Loops /\ l.place = on.place /\ l.room = on.room /\ a \in Accounts
    BY <1>1, <1>b DEF Loops
  <2> HIDE DEF l
  <2>3. HasRoom(d, l)
    BY <1>b, <2>2 DEF HasRoom, on
  <2> QED
    BY <2>1, <2>2, <2>3, LimitedLoop
<1>c. CASE c.do = "admit"
  <2> DEFINE less == [on EXCEPT !.list = Tail(@), !.room = @ - 1]
             more == [on EXCEPT !.list = Tail(@)]
             x == Head(on.list)
  <2>1. /\ on \in Loops /\ a \in Accounts /\ on.place \in Places
        /\ on.list \in Seq(Accounts) /\ on.room \in Int
        /\ x \in Accounts /\ Tail(on.list) \in Seq(Accounts)
    <3>1. /\ on \in Loops /\ a \in Accounts /\ on.list # <<>>
      BY <1>1, <1>c
    <3>2. on.place \in Places /\ on.list \in Seq(Accounts) /\ on.room \in Int
      BY <3>1 DEF Loops
    <3> QED
      BY <3>1, <3>2, HeadTailProperties
  <2>2. more \in Loops /\ more.place = on.place /\ more.room = on.room
    BY <2>1 DEF Loops
  <2>3. less \in Loops /\ less.place = on.place /\ less.room = on.room - 1
    <3>1. on.room - 1 \in Int
      BY <2>1
    <3> DEFINE room == on.room - 1
               l == [on EXCEPT !.list = Tail(@), !.room = room]
    <3>2. less = l /\ room \in Int
      BY <3>1
    <3> HIDE DEF room, less
    <3>3. l \in Loops /\ l.place = on.place /\ l.room = room
      BY <2>1, <3>2 DEF Loops
    <3> QED
      BY <3>2, <3>3 DEF room
  <2>4. \/ calls = AddMembers(more, a)
        \/ /\ on.room > 0
           /\ calls = (AddKeyHolder(on.place, x) \o <<Del(x)>>)
                        \o AddMembers(less, a)
    BY <1>c DEF Decides, on, a
  <2> HIDE DEF more, less, x
  <2>5. HasRoom(d, more)
    BY <1>c, <2>2 DEF HasRoom, on
  <2>6. CASE calls = AddMembers(more, a)
    BY <2>1, <2>2, <2>5, <2>6, LimitedLoop
  <2>7. CASE /\ on.room > 0
             /\ calls = (AddKeyHolder(on.place, x) \o <<Del(x)>>)
                          \o AddMembers(less, a)
    <3>1. Cardinality(Held(d, on.place)) + on.room <= KeyholderLimit
      BY <1>c, <2>1, <2>7 DEF HasRoom, on
    <3>2. /\ Cardinality(Held(d, less.place)) \in Nat
          /\ KeyholderLimit \in Nat
      BY <2>1, <2>3, RosterSizes, PlacesAssumption
    <3>3. /\ less.room + 1 > 0
          /\ Cardinality(Held(d, less.place)) + less.room + 1
               <= KeyholderLimit
      BY <2>1, <2>3, <2>7, <3>1, <3>2
    <3> QED
      BY <2>1, <2>3, <2>7, <3>3, LimitedAdmit
  <2> QED
    BY <2>4, <2>6, <2>7
<1>d. CASE c.do = "dissolve"
  <2>1. Only(calls, {"get", "del", "uncount", "evict", "delete"})
    BY <1>d, DecidesTyped
  <2>2. {"get", "del", "uncount", "evict", "delete"}
          \cap (Changing \cup {"enlist", "admit"}) = {}
    BY DEF Changing
  <2> QED
    BY <2>1, <2>2, LimitedOnly
<1>e. CASE c.do = "insert"
  <2>1. calls = <<Del(Grand)>>
    BY <1>e DEF Decides
  <2> QED
    BY <1>2, <1>3, <2>1
<1> QED
  BY <1>a, <1>b, <1>c, <1>d, <1>e DEF Final

(* A new place has its founder and nobody else.                            *)
LEMMA LimitedFound ==
  ASSUME CreatorLimit > 0, NEW d, Stores(d), Within(d),
         NEW p \in Places, NEW a \in Accounts, d[p] = Nil,
         NEW e, e = [d EXCEPT ![p] = NewPlace]
  PROVE  Limited(e, Founding(p, a)) /\ Paired(Founding(p, a))
<1> DEFINE t == Founding(p, a)
<1>1. p \in Keys /\ DOMAIN d = Keys /\ \A q \in Places : q \in Keys
  BY KeyKinds DEF Stores, IsStore
<1>2. e[p] = NewPlace /\ \A q \in Places : q # p => e[q] = d[q]
  BY <1>1
<1>3. NewPlace # Nil /\ NewPlace.creators = {} /\ NewPlace.keys = {}
  BY PlacesAssumption DEF NewPlace, PlaceDocs
<1>4. /\ Held(e, p) = {} /\ Ranked(e, p) = {}
      /\ \A q \in Places : q # p =>
           Held(e, q) = Held(d, q) /\ Ranked(e, q) = Ranked(d, q)
  BY <1>2, <1>3 DEF Held, Ranked
<1>5. /\ \A x : Has(t, x) <=>
           x \in {Command("count", Grand, NoOne), Get(p), Get(a),
                  Command("join", p, a), Command("grant", p, a),
                  Command("raise", p, a), Del(Grand), Del(a), Del(p)}
      /\ \A q, b : Followed(t, Command("join", q, b), Command("raise", q, b))
  BY DoesFound
<1> HIDE DEF t
<1>6. \A do \in {"lower", "expel", "enlist", "admit", "dismiss", "tour",
                 "visit"} : \A on, who : ~Has(t, Command(do, on, who))
  BY <1>5, Fields
<1>7. \A do \in {"join", "raise"} : \A q, b :
        Has(t, Command(do, q, b)) <=> q = p /\ b = a
  <2>1. \A do \in {"join", "raise"} : \A q, b :
          /\ \A k : Command(do, q, b) # Del(k) /\ Command(do, q, b) # Get(k)
          /\ Command(do, q, b) # Command("grant", p, a)
          /\ Command(do, q, b) # Command("count", Grand, NoOne)
          /\ Command(do, q, b) \in {Command("join", p, a),
                                    Command("raise", p, a)} <=>
               q = p /\ b = a
    BY SameCommand, Fields
  <2> QED
    BY <1>5, <2>1
<1>8. Paired(t)
  BY <1>5, <1>6 DEF Paired, Expelling
<1>9. \A q : /\ Doing(t, "lower", q) = {} /\ Doing(t, "expel", q) = {}
             /\ Doing(t, "join", q) = IF q = p THEN {a} ELSE {}
             /\ Doing(t, "raise", q) = IF q = p THEN {a} ELSE {}
  BY <1>6, <1>7 DEF Doing
<1>10. /\ ComingKeys(e, t, p) = {} /\ ComingCreators(e, t, p) = {a}
       /\ \A q \in Places : q # p => /\ ComingKeys(e, t, q) = Held(d, q)
                                     /\ ComingCreators(e, t, q) = Ranked(d, q)
  BY <1>4, <1>9 DEF ComingKeys, ComingCreators
<1>11. Cardinality({}) <= KeyholderLimit /\ Cardinality({a}) <= CreatorLimit
  <2>1. Cardinality({}) = 0 /\ Cardinality({a}) = 1
    BY FS_EmptySet, FS_Singleton
  <2>2. CreatorLimit \in Nat /\ KeyholderLimit \in Nat
    BY PlacesAssumption
  <2> QED
    BY <2>1, <2>2
<1>12. Limited(e, t)
  BY <1>6, <1>10, <1>11 DEF Limited, Within
<1> QED
  BY <1>8, <1>12 DEF t

LEMMA StepLimited ==
  ASSUME AddedByClients, CreatorLimit > 0,
         NEW d, NEW r, NEW s, NEW e, NEW t, Course(d, r, s),
         Course(e, r, t), Ordered(s), Steps(d, r, s, e, t),
         Tallied(d), Limited(d, s), Paired(s)
  PROVE  Limited(e, t) /\ Paired(t)
<1>0. StepCase(d, r, s, e, t)
  BY StepCases
<1> DEFINE c == Head(s)
           rest == Tail(s)
<1>1. s # <<>> =>
        /\ s \in Scripts /\ c \in Commands /\ rest \in Scripts
        /\ \A x : Has(s, x) <=> c = x \/ Has(rest, x)
        /\ c = Command(c.do, c.on, c.who)
        /\ c.do \in Reading \cup Running(r.op)
        /\ Paired(rest)
  BY CourseHead, HasTail, CommandIs, PairedTail DEF Course
<1>2. r \in Requests /\ Stores(d) /\ Stores(e) /\ s \in Scripts
  BY DEF Course
<1>3. \A do, on, who : c = Command(do, on, who) => c.do = do
  BY Fields
<1> HIDE DEF c, rest
<1>a. CASE e = d /\ t = s
  BY <1>a
<1>b. CASE s # <<>> /\ t = rest /\ c.do \in {"get", "use", "del"} /\ e = d
  <2>1. \A do \in Changing : \A p, a :
          Has(t, Command(do, p, a)) <=> Has(s, Command(do, p, a))
    BY <1>1, <1>3, <1>b DEF Changing
  <2>2. \A p : /\ ComingKeys(e, t, p) = ComingKeys(d, s, p)
               /\ ComingCreators(e, t, p) = ComingCreators(d, s, p)
    BY <1>b, <2>1, ComingSame
  <2>3. \A x : Has(t, x) => Has(s, x)
    BY <1>1, <1>b
  <2>4. Limited(e, t)
    BY <1>2, <2>2, <2>3, LimitedStays
  <2> QED
    BY <1>1, <1>b, <2>4
<1>c. CASE s # <<>> /\ t = rest /\ Does(c, d, e)
  <2>1. Limited(e, rest)
    BY <1>c, LimitedDoes DEF c, rest
  <2> QED
    BY <1>1, <1>c, <2>1
<1>d. CASE /\ s # <<>> /\ e = d
           /\ \E calls \in Scripts :
                /\ Decides(d, r, c, calls)
                /\ c.do \in {"dismiss", "tour", "visit"}
                /\ t = calls \o rest
  <2>1. PICK calls \in Scripts :
          /\ Decides(d, r, c, calls)
          /\ c.do \in {"dismiss", "tour", "visit"}
          /\ t = calls \o rest
    BY <1>d
  <2>2. Leaves(calls)
    BY <1>1, <1>d, <2>1, DecidesLeaving
  <2>3. Limited(d, calls \o rest) /\ Paired(calls \o rest)
    BY <1>2, <1>d, <2>1, <2>2, LimitedLeaves DEF c, rest
  <2> QED
    BY <1>d, <2>1, <2>3
(* The last command stands alone, and no roster is about to change.        *)
<1>4. ASSUME s # <<>>, rest = <<>>, c.do \in Final
      PROVE  /\ Within(d)
             /\ c.do \in {"enlist", "admit"} => HasRoom(d, c.on)
  <2>1. \A x : Has(s, x) <=> x = c
    BY <1>1, <1>4, HasNothing
  <2>2. \A do \in Changing : \A p, a : ~Has(s, Command(do, p, a))
    BY <1>3, <1>4, <2>1 DEF Final, Changing
  <2>3. Within(d)
    BY <1>2, <2>2, LimitedWithin
  <2>4. ASSUME c.do \in {"enlist", "admit"} PROVE HasRoom(d, c.on)
    <3>1. /\ c.on \in Loops /\ c.who \in Accounts
          /\ Has(s, Command(c.do, c.on, c.who))
      BY <1>1, <1>4, <2>1, <2>4, CommandFields
    <3>2. \/ c.on.room <= 0
          \/ Cardinality(ComingKeys(d, s, c.on.place)) + c.on.room
               <= KeyholderLimit
      BY <2>4, <3>1 DEF Limited
    <3>3. c.on.place \in Places
      BY <3>1 DEF Loops
    <3>4. ComingKeys(d, s, c.on.place) = Held(d, c.on.place)
      BY <1>2, <2>2, <3>3, ComingKinds, ComingNow
    <3> QED
      BY <3>2, <3>4 DEF HasRoom
  <2> QED
    BY <2>3, <2>4
<1>e. CASE /\ s # <<>> /\ rest = <<>> /\ e = d
           /\ Decides(d, r, c, t) /\ c.do \in Final
  <2>1. Within(d) /\ (c.do \in {"enlist", "admit"} => HasRoom(d, c.on))
    BY <1>4, <1>e
  <2>2. ASSUME c.do = "admit" PROVE ~r.admin
    <3>1. r.op \in {"add_member", "invite_member"}
      <4>1. r.op \in Ops
        BY <1>2, RequestFields
      <4> QED
        BY <1>1, <1>e, <2>2, <4>1
           DEF Reading, Running, AddingSteps, LeavingSteps, Ops
    <3> QED
      BY <1>2, <3>1 DEF AddedByClients
  <2>3. Limited(d, t) /\ Paired(t)
    BY <1>1, <1>2, <1>e, <2>1, <2>2, DecidesLimited
  <2> QED
    BY <1>e, <2>3
<1>f. CASE /\ s # <<>> /\ rest = <<>> /\ c.do = "insert"
           /\ c.on \in Places /\ c.who \in Accounts
           /\ d[Grand] # Nil /\ d[c.on] = Nil
           /\ e = [d EXCEPT ![c.on] = NewPlace]
           /\ t = Founding(c.on, c.who)
  <2>1. Within(d)
    BY <1>4, <1>f DEF Final
  <2>2. Limited(e, Founding(c.on, c.who)) /\ Paired(Founding(c.on, c.who))
    BY <1>2, <1>f, <2>1, LimitedFound
  <2> QED
    BY <1>f, <2>2
<1> QED
  BY <1>0, <1>a, <1>b, <1>c, <1>d, <1>e, <1>f DEF StepCase, c, rest

LEMMA InitFitting == FoundedWithin /\ Init => Fitting
<1> SUFFICES ASSUME FoundedWithin, Init
             PROVE  /\ Within(db)
                    /\ \A w \in Workers : /\ Limited(db, script[w])
                                          /\ Paired(script[w])
  BY DEF Fitting
<1>1. \A w \in Workers : script[w] = <<>>
  BY DEF Init
<1>2. PICK f \in Foundings : db = Founded(f)
  BY DEF Init
<1>3. Within(db)
  <2> SUFFICES ASSUME NEW p \in Places
               PROVE  /\ Cardinality(Held(db, p)) <= KeyholderLimit
                      /\ Cardinality(Ranked(db, p)) <= CreatorLimit
    BY DEF Within
  <2>1. CASE f[p] = Nil
    <3>1. Held(db, p) = {} /\ Ranked(db, p) = {}
      BY <1>2, <2>1, FoundedDocs DEF Held, Ranked
    <3> QED
      BY <3>1, FS_EmptySet, PlacesAssumption
  <2>2. CASE f[p] # Nil
    <3>1. Held(db, p) = f[p].keys /\ Ranked(db, p) = f[p].creators
      BY <1>2, <2>2, FoundedDocs DEF Held, Ranked
    <3> QED
      BY <1>2, <2>2, <3>1 DEF FoundedWithin
  <2> QED
    BY <2>1, <2>2
<1>4. Limited(db, <<>>) /\ Paired(<<>>)
  <2>1. Only(<<>>, {})
    BY OnlyShort
  <2>2. Stores(db)
    BY InitTypeOK, InitCounted, StoresNow
  <2> QED
    BY <1>3, <2>1, <2>2, LimitedOnly
<1> QED
  BY <1>1, <1>3, <1>4

LEMMA AdvancesLimited ==
  ASSUME AddedByClients, CreatorLimit > 0,
         NEW d, NEW r, NEW s, NEW e, NEW t, Stores(d),
         Advances(d, r, s, e, t), InStep(d, s), Tallied(d),
         Limited(d, s), Paired(s)
  PROVE  Limited(e, t) /\ Paired(t)
<1>1. CASE e = d /\ s = <<>> /\ Only(t, {"get", "serve"}) /\ Finals(t)
  <2>1. Within(d)
    BY <1>1, HasNothing, LimitedWithin
  <2>2. {"get", "serve"} \cap (Changing \cup {"enlist", "admit"}) = {}
    BY DEF Changing
  <2> QED
    BY <1>1, <2>1, <2>2, LimitedOnly
<1>2. CASE e = d /\ t = s
  BY <1>2
<1>3. CASE Course(d, r, s) /\ Course(e, r, t) /\ Steps(d, r, s, e, t)
  BY <1>3, StepLimited DEF InStep
<1> QED
  BY <1>1, <1>2, <1>3 DEF Advances

LEMMA NextFitting ==
  ASSUME OneWorker, AddedByClients, CreatorLimit > 0,
         TypeOK, RosterCounted, Solo, Alone, Fitting,
         TypeOK', RosterCounted', Solo', [Next]_vars
  PROVE  Fitting'
<1>1. CASE db' = db /\ script' = script
  BY <1>1 DEF Fitting, Within, Held, Ranked
<1>2. CASE \E w \in Workers :
             /\ Workers = {w}
             /\ \/ Stopped(script'[w])
                \/ /\ ~Stopped(script[w])
                   /\ \E r : Advances(db, r, script[w], db', script'[w])
  <2>1. PICK w \in Workers :
          /\ Workers = {w}
          /\ \/ Stopped(script'[w])
             \/ /\ ~Stopped(script[w])
                /\ \E r : Advances(db, r, script[w], db', script'[w])
    BY <1>2
  <2>2. ASSUME ~Stopped(script'[w])
        PROVE  Limited(db', script'[w]) /\ Paired(script'[w])
    <3>1. /\ InStep(db, script[w])
          /\ Limited(db, script[w]) /\ Paired(script[w])
      BY <2>1, <2>2 DEF Alone, Fitting
    <3>2. Stores(db) /\ Tallied(db)
      BY StoresNow DEF Tallied, RosterCounted
    <3> QED
      BY <2>1, <2>2, <3>1, <3>2, AdvancesLimited
  <2> QED
    BY <2>1, <2>2 DEF Fitting
<1> QED
  BY <1>1, <1>2, NextAdvances

(* With one request at a time, between requests no place has more creators *)
(* or key holders than its limits, after lists of members longer than the  *)
(* room there was, promotions, demotions and departures, as long as no     *)
(* admin adds or demotes members and a place may have a creator.           *)
THEOREM PlacesStayWithinLimits ==
  OneWorker /\ AddedByClients /\ FoundedWithin /\ CreatorLimit > 0 /\ Spec =>
    []LimitsKept
<1> SUFFICES ASSUME OneWorker, AddedByClients, FoundedWithin,
                    CreatorLimit > 0
             PROVE  Spec => []LimitsKept
  OBVIOUS
<1> DEFINE Inv == TypeOK /\ RosterCounted /\ Solo /\ Alone /\ Fitting
<1>1. Init => Inv
  BY InitTypeOK, InitCounted, InitSolo, InitAlone, InitFitting
<1>2. Inv /\ [Next]_vars => Inv'
  <2> SUFFICES ASSUME Inv, [Next]_vars PROVE Inv'
    OBVIOUS
  <2>1. TypeOK' /\ RosterCounted'
    BY StepTypeOK, StepCounted
  <2>2. Solo'
    BY NextSolo
  <2>3. Alone' /\ Fitting'
    BY <2>1, <2>2, NextAlone, NextFitting
  <2> QED
    BY <2>1, <2>2, <2>3
<1>3. Inv => LimitsKept
  <2> SUFFICES ASSUME Inv, Idle, NEW p \in Places, db[p] # Nil
               PROVE  /\ Cardinality(db[p].creators) <= CreatorLimit
                      /\ Cardinality(db[p].keys) <= KeyholderLimit
    BY DEF LimitsKept
  <2>1. Within(db)
    <3>1. CASE Workers = {}
      BY <3>1 DEF Fitting
    <3>2. CASE Workers # {}
      <4>1. PICK w \in Workers : TRUE
        BY <3>2
      <4>2. script[w] = <<>>
        BY DEF Idle, TypeOK
      <4>3. ~Stopped(script[w])
        BY <4>2, StoppedStays
      <4>4. Stores(db) /\ Limited(db, <<>>)
        BY <4>2, <4>3, StoresNow DEF Fitting
      <4> QED
        BY <4>4, HasNothing, LimitedWithin
    <3> QED
      BY <3>1, <3>2
  <2> QED
    BY <2>1 DEF Within, Held, Ranked
<1> HIDE DEF Inv
<1> QED
  BY <1>1, <1>2, <1>3, PTL DEF Spec

=============================================================================
