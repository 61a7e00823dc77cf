--------------------------- MODULE PlaceMembership ---------------------------
(***************************************************************************)
(* Who belongs to which place: the handlers of api/place/functions.go and  *)
(* their counterparts in api/admin, over the place manager of              *)
(* nested/manager_place.go.  A grand place and its sub-places are MongoDB  *)
(* documents with a roster and counters; an account's document lists the   *)
(* places it belongs to.  Both kinds have copies in Redis.                 *)
(*                                                                         *)
(* A handler reads documents through the cache, decides on those copies,   *)
(* and calls the manager, whose functions are several commands each.  A    *)
(* worker's `script' is the commands it still has to run: every step here  *)
(* is one GET, SETEX or DEL, one find, or one update.  Nothing locks the   *)
(* documents, so the steps of several workers interleave.                  *)
(***************************************************************************)
EXTENDS Integers, FiniteSets, Sequences

CONSTANTS
  Accounts,      \* account ids
  Grand,         \* the grand place
  Subs,          \* ids of locked sub-places of it, existing or not
  Nil,           \* no document; as a cached value, the absent key
  NoOne,         \* the account of a command that concerns none
  NoRequest,     \* what an idle worker serves
  Workers,       \* goroutines serving requests
  Requests,      \* the requests clients send
  Foundings,     \* the rosters the places may start with
  EveryoneAdds,  \* policy.add_member and add_place: key holders may add
  CreatorLimit, KeyholderLimit, ChildLimit,   \* limits of every place
  MaxRequests    \* bound: requests served in a behaviour

VARIABLES
  db,            \* the documents of places and accounts
  cache,         \* "place:gob:<id>" and "account:gob:<id>" in Redis
  script,        \* the commands each worker has before it
  phase,         \* how far each worker is in a read through the cache
  copy,          \* what each worker read last of each document
  req,           \* the request each worker serves
  served         \* requests received so far

vars == <<db, cache, script, phase, copy, req, served>>

-----------------------------------------------------------------------------

Places == {Grand} \cup Subs
Keys == Places \cup Accounts

PlaceDocs == [creators : SUBSET Accounts, keys : SUBSET Accounts,
              nCreators : Int, nKeys : Int, nChildren : Int]
AccountDocs == [access : SUBSET Places]

Ops == {"add_member", "invite_member", "promote_member", "demote_member",
        "leave", "remove_member", "remove", "add_place"}

AboutOne == {"promote_member", "demote_member", "remove_member"}

(* `list' is the member the request is about, or the members to add; an    *)
(* admin request is the handler of api/admin, which checks no rights.      *)
RequestType == [op : Ops, who : Accounts, place : Places,
                list : Seq(Accounts), admin : BOOLEAN]

Rosters == {r \in [creators : SUBSET Accounts, keys : SUBSET Accounts] :
              r.creators \cap r.keys = {}}

ASSUME KeysAssumption ==
  /\ IsFiniteSet(Accounts) /\ IsFiniteSet(Subs)
  /\ Grand \notin Subs
  /\ Places \cap Accounts = {}
  /\ NoOne \notin Keys

ASSUME RequestsAssumption ==
  /\ Requests \subseteq RequestType
  /\ \A r \in Requests : r.op \in AboutOne => r.list # <<>>
  /\ NoRequest \notin Requests
  /\ MaxRequests \in Nat

ASSUME PlacesAssumption ==
  /\ Nil \notin PlaceDocs \cup AccountDocs \cup Rosters
  /\ Foundings \subseteq [Places -> Rosters \cup {Nil}]
  /\ \A f \in Foundings : f[Grand] # Nil
  /\ {CreatorLimit, KeyholderLimit, ChildLimit} \subseteq Nat
  /\ EveryoneAdds \in BOOLEAN

Members(c) == c.creators \cup c.keys

(* AM and AP of GetAccess, for a locked place that is not personal.        *)
Adders(c) == IF EveryoneAdds THEN Members(c) ELSE c.creators

(* A place as CreateLockedPlace inserts it.                                *)
NewPlace == [creators |-> {}, keys |-> {},
             nCreators |-> 0, nKeys |-> 0, nChildren |-> 0]

(* The documents once the places of f have been created and their members  *)
(* have joined.                                                            *)
Founded(f) ==
  [k \in Keys |->
     IF k \in Accounts
       THEN [access |-> {p \in Places : f[p] # Nil /\ k \in Members(f[p])}]
     ELSE IF f[k] = Nil THEN Nil
     ELSE [creators |-> f[k].creators, keys |-> f[k].keys,
           nCreators |-> Cardinality(f[k].creators),
           nKeys |-> Cardinality(f[k].keys),
           nChildren |-> IF k = Grand
                           THEN Cardinality({p \in Subs : f[p] # Nil})
                           ELSE 0]]

Nothing == [k \in Keys |-> Nil]

Init ==
  /\ \E f \in Foundings : db = Founded(f)
  /\ cache = Nothing
  /\ script = [w \in Workers |-> <<>>]
  /\ phase = [w \in Workers |-> "get"]
  /\ copy = [w \in Workers |-> Nothing]
  /\ req = [w \in Workers |-> NoRequest]
  /\ served = 0

-----------------------------------------------------------------------------
(* Commands: what to do, on which document, for whom.                      *)

Command(do, on, who) == [do |-> do, on |-> on, who |-> who]
Get(k)  == Command("get", k, NoOne)
Use(p)  == Command("use", p, NoOne)
Del(k)  == Command("del", k, NoOne)
Halt    == Command("halt", Nil, NoOne)

(* The manager's functions.  The deferred DELs come last, in the reverse   *)
(* order of their defer statements.  The reads of AddKeyHolder and         *)
(* RemoveKeyHolder serve later steps of theirs, not their updates.         *)
AddKeyHolder(p, a) ==
  <<Get(p), Get(a), Command("join", p, a), Command("grant", p, a),
    Del(a), Del(p)>>

Promote(p, a) == <<Command("raise", p, a), Del(a), Del(p)>>

(* Mutant: the deferred removeCache of the place is missing.               *)
DemoteCached(p, a) == <<Command("lower", p, a), Del(a)>>

Demote(p, a) == <<Command("lower", p, a), Del(a), Del(p)>>

RemoveKeyHolder(p, a) ==
  <<Get(p), Command("expel", p, a), Command("revoke", p, a),
    Del(a), Del(p)>>

RemoveCreator(p, a) == Demote(p, a) \o RemoveKeyHolder(p, a)

(* By the role in the handler's copy.                                      *)
RemoveByRole(p, a, c) ==
  IF a \in c.creators THEN RemoveCreator(p, a)
  ELSE IF a \in c.keys THEN RemoveKeyHolder(p, a) ELSE <<>>

(* The loop over the members to add: those left of the list, who of them   *)
(* may join, and how many more the place takes.                            *)
Loops == [place : Places, eligible : SUBSET Accounts, room : Int,
          list : Seq(Accounts)]

AddMembers(loop, who) ==
  IF loop.list = <<>> THEN <<>> ELSE <<Command("admit", loop, who)>>

(* The sub-places a still belongs to, to be left one after the other.      *)
Tour(subs, a) ==
  IF subs = {} THEN <<>> ELSE <<Command("tour", subs, a)>>

-----------------------------------------------------------------------------
(* Running scripts.                                                        *)

At(w, do) == script[w] # <<>> /\ Head(script[w]).do = do

Current(w) == Head(script[w])

(* The command at hand is done; what it calls comes before the rest.       *)
Continue(w, calls) ==
  script' = [script EXCEPT ![w] = calls \o Tail(@)]

(* A nil pointer is dereferenced: the deferred DELs still run, the rest    *)
(* does not, and nothing recovers.                                         *)
Panic(w, deferred) ==
  script' = [script EXCEPT ![w] = deferred \o <<Halt>>]

(* The place a handler reads first; a new place is judged by its parent.   *)
Subject(r) == IF r.op = "add_place" THEN Grand ELSE r.place

(* The session gives the requester's account.                              *)
Receive(w) ==
  /\ script[w] = <<>>
  /\ req[w] = NoRequest
  /\ served < MaxRequests
  /\ \E r \in Requests :
       /\ req' = [req EXCEPT ![w] = r]
       /\ script' = [script EXCEPT ![w] =
            <<Get(r.who), Get(Subject(r)), Command("serve", r.place, r.who)>>]
  /\ served' = served + 1
  /\ UNCHANGED <<db, cache, phase, copy>>

Answer(w) ==
  /\ script[w] = <<>>
  /\ req[w] # NoRequest
  /\ req' = [req EXCEPT ![w] = NoRequest]
  /\ copy' = [copy EXCEPT ![w] = Nothing]
  /\ UNCHANGED <<db, cache, script, phase, served>>

(* GET: a hit ends the read, a miss sends it to MongoDB.                   *)
Lookup(w) ==
  /\ At(w, "get")
  /\ phase[w] = "get"
  /\ LET k == Current(w).on
     IN  \/ /\ cache[k] # Nil
            /\ copy' = [copy EXCEPT ![w][k] = cache[k]]
            /\ Continue(w, <<>>)
            /\ UNCHANGED phase
         \/ /\ cache[k] = Nil
            /\ phase' = [phase EXCEPT ![w] = "find"]
            /\ UNCHANGED <<copy, script>>
  /\ UNCHANGED <<db, cache, req, served>>

(* What is not found is nil, and is not cached.                            *)
Find(w) ==
  /\ At(w, "get")
  /\ phase[w] = "find"
  /\ LET k == Current(w).on
     IN  /\ copy' = [copy EXCEPT ![w][k] = db[k]]
         /\ \/ /\ db[k] # Nil
               /\ phase' = [phase EXCEPT ![w] = "fill"]
               /\ UNCHANGED script
            \/ /\ db[k] = Nil
               /\ phase' = [phase EXCEPT ![w] = "get"]
               /\ Continue(w, <<>>)
  /\ UNCHANGED <<db, cache, req, served>>

(* SETEX, possibly long after the find it stores the result of.            *)
Fill(w) ==
  /\ At(w, "get")
  /\ phase[w] = "fill"
  /\ cache' = [cache EXCEPT ![Current(w).on] = copy[w][Current(w).on]]
  /\ phase' = [phase EXCEPT ![w] = "get"]
  /\ Continue(w, <<>>)
  /\ UNCHANGED <<db, copy, req, served>>

(* removeCache.                                                            *)
Drop(w) ==
  /\ At(w, "del")
  /\ cache' = [cache EXCEPT ![Current(w).on] = Nil]
  /\ Continue(w, <<>>)
  /\ UNCHANGED <<db, phase, copy, req, served>>

(* A place that was read is dereferenced.                                  *)
UsePlace(w) ==
  /\ At(w, "use")
  /\ IF copy[w][Current(w).on] = Nil THEN Panic(w, <<>>)
                                   ELSE Continue(w, <<>>)
  /\ UNCHANGED <<db, cache, phase, copy, req, served>>

-----------------------------------------------------------------------------
(* The handlers.                                                           *)

Rights == {"add_member", "invite_member", "remove_member", "remove",
           "add_place"}

(* What GetAccess, or the creator check, says of the requester.            *)
Entitled(r, c) ==
  \/ r.admin
  \/ r.op = "leave"
  \/ r.op \in {"add_member", "invite_member", "add_place"}
       /\ r.who \in Adders(c)
  \/ r.op \in {"promote_member", "demote_member", "remove_member", "remove"}
       /\ r.who \in c.creators

(* The other checks.  Admins may act on themselves and demote into a full  *)
(* place.                                                                  *)
Valid(r, c) ==
  /\ r.op = "add_member" => r.place # Grand
  /\ r.op = "invite_member" => r.place = Grand
  /\ r.op \in {"promote_member", "remove_member"} =>
       r.admin \/ Head(r.list) # r.who
  /\ r.op = "promote_member" =>
       Head(r.list) \in c.keys /\ c.nCreators < CreatorLimit
  /\ r.op = "demote_member" =>
       /\ Head(r.list) \in c.creators
       /\ r.admin \/ c.nKeys < KeyholderLimit
  /\ r.op = "remove" => c.nChildren <= 0
  /\ r.op = "add_place" => c.nChildren < ChildLimit

Serving(w, op) ==
  /\ At(w, "serve")
  /\ req[w].op = op
  /\ LET c == copy[w][Subject(req[w])]
     IN  c # Nil /\ Valid(req[w], c) /\ Entitled(req[w], c)

Proceed(w, calls) ==
  /\ Continue(w, calls)
  /\ UNCHANGED <<db, cache, phase, copy, req, served>>

(* An error is answered.  GetAccess reads the grand place for those who    *)
(* are no members; only `remove' asks it before the other checks.          *)
Refuse(w) ==
  /\ At(w, "serve")
  /\ LET r == req[w]
         c == copy[w][Subject(r)]
         asked == /\ r.op \in Rights /\ ~r.admin
                  /\ r.op = "remove" \/ Valid(r, c)
     IN  \/ c = Nil /\ Proceed(w, <<>>)
         \/ /\ c # Nil
            /\ ~(Valid(r, c) /\ Entitled(r, c))
            /\ Proceed(w, IF asked /\ r.who \notin Members(c)
                            THEN <<Get(Grand), Use(Grand)>> ELSE <<>>)

(* The list of a request, for whoever is no member of the handler's copy.  *)
Joining(r, c) ==
  [place |-> r.place, eligible |-> Accounts \ Members(c),
   room |-> KeyholderLimit - c.nKeys, list |-> r.list]

Invite(w) ==
  /\ Serving(w, "invite_member")
  /\ LET r == req[w]
     IN  Proceed(w, AddMembers(Joining(r, copy[w][r.place]), r.who))

(* The grand place is read next.                                           *)
AddMember(w) ==
  /\ Serving(w, "add_member")
  /\ LET r == req[w]
     IN  Proceed(w, <<Get(Grand), Command("enlist",
                                          Joining(r, copy[w][r.place]),
                                          r.who)>>)

(* Mutant: membership in the grand place is not asked for.                 *)
EnlistAnyone(w) ==
  /\ At(w, "enlist")
  /\ Proceed(w, AddMembers(Current(w).on, Current(w).who))

(* Members of the grand place are added.                                   *)
Enlist(w) ==
  /\ At(w, "enlist")
  /\ LET home == copy[w][Grand]
     IN  \/ /\ home = Nil
            /\ Panic(w, <<>>)
            /\ UNCHANGED <<db, cache, phase, copy, req, served>>
         \/ /\ home # Nil
            /\ Proceed(w, AddMembers([Current(w).on EXCEPT
                                        !.eligible = @ \cap Members(home)],
                                     Current(w).who))

(* Mutant: the handler does not count those it adds.                       *)
AdmitUncounted(w) ==
  /\ At(w, "admit")
  /\ LET loop == Current(w).on
         a == Head(loop.list)
         joins == a \in loop.eligible /\ loop.room > 0
     IN  Proceed(w, (IF joins THEN AddKeyHolder(loop.place, a) \o <<Del(a)>>
                              ELSE <<>>)
                      \o AddMembers([loop EXCEPT !.list = Tail(@)],
                                    Current(w).who))

(* One member of the list.  Adding also enables notifications and          *)
(* bookmarks the place, which clears the account's copy once more.  Those  *)
(* added count in the handler's copy of the place, but not in admin's.     *)
Admit(w) ==
  /\ At(w, "admit")
  /\ LET loop == Current(w).on
         a == Head(loop.list)
         joins == a \in loop.eligible /\ loop.room > 0
         taken == IF joins /\ ~req[w].admin THEN 1 ELSE 0
     IN  Proceed(w, (IF joins THEN AddKeyHolder(loop.place, a) \o <<Del(a)>>
                              ELSE <<>>)
                      \o AddMembers([loop EXCEPT !.list = Tail(@),
                                                 !.room = @ - taken],
                                    Current(w).who))

PromoteMember(w) ==
  /\ Serving(w, "promote_member")
  /\ Proceed(w, Promote(req[w].place, Head(req[w].list)))

DemoteMember(w) ==
  /\ Serving(w, "demote_member")
  /\ Proceed(w, Demote(req[w].place, Head(req[w].list)))

(* GetAccessPlaceIDs: nothing of an account that is not there.             *)
AccessPlaceIDs(c) == IF c = Nil THEN {} ELSE c.access

(* Who leaves the grand place leaves first the sub-places that the         *)
(* session's copy of the account lists.                                    *)
Leave(w) ==
  /\ Serving(w, "leave")
  /\ LET r == req[w]
         subs == IF r.place = Grand
                THEN AccessPlaceIDs(copy[w][r.who]) \cap Subs
                ELSE {}
     IN  Proceed(w, Tour(subs, r.who)
                      \o RemoveByRole(r.place, r.who, copy[w][r.place]))

(* Removing from the grand place reads the member's account first.         *)
RemoveMember(w) ==
  /\ Serving(w, "remove_member")
  /\ LET r == req[w]
         a == Head(r.list)
     IN  Proceed(w, IF r.place = Grand
                      THEN <<Get(a), Command("dismiss", Grand, a)>>
                      ELSE RemoveByRole(r.place, a, copy[w][r.place]))

Dismiss(w) ==
  /\ At(w, "dismiss")
  /\ LET a == Current(w).who
     IN  Proceed(w, Tour(AccessPlaceIDs(copy[w][a]) \cap Subs, a)
                      \o RemoveByRole(Grand, a, copy[w][Grand]))

(* The loop over the sub-places, in the order of the account's list.       *)
NextSub(w) ==
  /\ At(w, "tour")
  /\ \E p \in Current(w).on :
       Proceed(w, <<Get(p), Command("visit", p, Current(w).who)>>
                    \o Tour(Current(w).on \ {p}, Current(w).who))

(* remove_member takes whoever is no creator for a key holder.             *)
VisitSub(w) ==
  /\ At(w, "visit")
  /\ LET p == Current(w).on
         a == Current(w).who
         c == copy[w][p]
     IN  Proceed(w, IF c = Nil THEN <<>>
                    ELSE IF a \notin c.creators /\ req[w].op = "remove_member"
                      THEN RemoveKeyHolder(p, a)
                    ELSE RemoveByRole(p, a, c))

RemovePlace(w) ==
  /\ Serving(w, "remove")
  /\ LET p == req[w].place
     IN  Proceed(w, <<Get(p), Command("dissolve", p, NoOne)>>)

(* The handler and CreateLockedPlace read the grand place again before     *)
(* the place is inserted; one read stands for theirs.                      *)
AddPlace(w) ==
  /\ Serving(w, "add_place")
  /\ LET r == req[w]
     IN  Proceed(w, <<Get(Grand), Command("insert", r.place, r.who)>>)

-----------------------------------------------------------------------------
(* The manager's commands on the documents.                                *)

(* One MongoDB update of the document under k: nothing unless it exists    *)
(* and the query matches.                                                  *)
Update(w, k, matches, new) ==
  /\ db' = IF db[k] # Nil /\ matches THEN [db EXCEPT ![k] = new] ELSE db
  /\ Continue(w, <<>>)
  /\ UNCHANGED <<cache, phase, copy, req, served>>

(* Mutant: the query does not repeat that the account is no member.        *)
JoinUnguarded(w) ==
  /\ At(w, "join")
  /\ LET p == Current(w).on
         a == Current(w).who
     IN  Update(w, p, TRUE,
                [db[p] EXCEPT !.keys = @ \cup {a}, !.nKeys = @ + 1])

Join(w) ==
  /\ At(w, "join")
  /\ LET p == Current(w).on
         a == Current(w).who
     IN  Update(w, p, a \notin Members(db[p]),
                [db[p] EXCEPT !.keys = @ \cup {a}, !.nKeys = @ + 1])

(* Made whether or not the place was joined.  Afterwards the place that    *)
(* AddKeyHolder read is dereferenced.                                      *)
Grant(w) ==
  /\ At(w, "grant")
  /\ LET p == Current(w).on
         a == Current(w).who
     IN  /\ db' = [db EXCEPT ![a].access = @ \cup {p}]
         /\ IF copy[w][p] = Nil THEN Panic(w, <<Del(a), Del(p)>>)
                                ELSE Continue(w, <<>>)
         /\ UNCHANGED <<cache, phase, copy, req, served>>

(* Mutant: the query does not repeat that the account is a key holder.     *)
RaiseUnguarded(w) ==
  /\ At(w, "raise")
  /\ LET p == Current(w).on
         a == Current(w).who
     IN  Update(w, p, a \notin db[p].creators,
                [db[p] EXCEPT !.creators = @ \cup {a}, !.keys = @ \ {a},
                              !.nCreators = @ + 1, !.nKeys = @ - 1])

Raise(w) ==
  /\ At(w, "raise")
  /\ LET p == Current(w).on
         a == Current(w).who
     IN  Update(w, p, a \in db[p].keys \ db[p].creators,
                [db[p] EXCEPT !.creators = @ \cup {a}, !.keys = @ \ {a},
                              !.nCreators = @ + 1, !.nKeys = @ - 1])

Lower(w) ==
  /\ At(w, "lower")
  /\ LET p == Current(w).on
         a == Current(w).who
     IN  Update(w, p, a \in db[p].creators \ db[p].keys,
                [db[p] EXCEPT !.keys = @ \cup {a}, !.creators = @ \ {a},
                              !.nKeys = @ + 1, !.nCreators = @ - 1])

Expel(w) ==
  /\ At(w, "expel")
  /\ LET p == Current(w).on
         a == Current(w).who
     IN  Update(w, p, a \in db[p].keys \ db[p].creators,
                [db[p] EXCEPT !.keys = @ \ {a}, !.nKeys = @ - 1])

(* Made whether or not the key holder was found; the place is dereferenced *)
(* afterwards.                                                             *)
Revoke(w) ==
  /\ At(w, "revoke")
  /\ LET p == Current(w).on
         a == Current(w).who
     IN  /\ db' = [db EXCEPT ![a].access = @ \ {p}]
         /\ IF copy[w][p] = Nil THEN Panic(w, <<Del(a), Del(p)>>)
                                ELSE Continue(w, <<>>)
         /\ UNCHANGED <<cache, phase, copy, req, served>>

(* What Remove defers, once it knows which place it is.                    *)
RemoveDefers(p) == IF p = Grand THEN <<Del(p)>> ELSE <<Del(Grand), Del(p)>>

(* Remove: nothing while the copy has children; the parent, which is the   *)
(* grand place, is updated first.                                          *)
Dissolve(w) ==
  /\ At(w, "dissolve")
  /\ LET p == Current(w).on
         c == copy[w][p]
         parent == IF p = Grand THEN <<>>
                   ELSE <<Command("uncount", Grand, NoOne)>>
     IN  \/ /\ c = Nil
            /\ Panic(w, <<Del(p)>>)
            /\ UNCHANGED <<db, cache, phase, copy, req, served>>
         \/ /\ c # Nil /\ c.nChildren > 0
            /\ Proceed(w, <<Del(p)>>)
         \/ /\ c # Nil /\ c.nChildren <= 0
            /\ Proceed(w, parent \o <<Get(p), Command("evict", p, NoOne),
                                      Command("delete", p, NoOne)>>
                                 \o RemoveDefers(p))

(* Mutant: the parent is updated only when it is the one removed.          *)
UncountSkipped(w) ==
  /\ At(w, "uncount")
  /\ Update(w, Grand, FALSE, db[Grand])

Uncount(w) ==
  /\ At(w, "uncount")
  /\ Update(w, Grand, TRUE, [db[Grand] EXCEPT !.nChildren = @ - 1])

(* Mutant: only the key holders are evicted.                               *)
EvictKeyHolders(w) ==
  /\ At(w, "evict")
  /\ LET p == Current(w).on
         c == copy[w][p]
     IN  /\ c # Nil
         /\ db' = [k \in Keys |-> IF k \in c.keys
                     THEN [access |-> db[k].access \ {p}] ELSE db[k]]
         /\ Continue(w, <<>>)
  /\ UNCHANGED <<cache, phase, copy, req, served>>

(* RemoveAllMembers: those of the copy lose the place.  It deletes the     *)
(* keys "account:json:<id>", which nothing else uses, so the accounts'     *)
(* copies stay.                                                            *)
Evict(w) ==
  /\ At(w, "evict")
  /\ LET p == Current(w).on
         c == copy[w][p]
     IN  \/ /\ c = Nil
            /\ Panic(w, RemoveDefers(p))
            /\ UNCHANGED db
         \/ /\ c # Nil
            /\ db' = [k \in Keys |-> IF k \in Members(c)
                        THEN [access |-> db[k].access \ {p}] ELSE db[k]]
            /\ Continue(w, <<>>)
  /\ UNCHANGED <<cache, phase, copy, req, served>>

Delete(w) ==
  /\ At(w, "delete")
  /\ db' = [db EXCEPT ![Current(w).on] = Nil]
  /\ Continue(w, <<>>)
  /\ UNCHANGED <<cache, phase, copy, req, served>>

(* CreateLockedPlace.  Without the grand place it panics, before or after  *)
(* its defer; if the id is taken it has only the DEL left.                 *)
Insert(w) ==
  /\ At(w, "insert")
  /\ LET p == Current(w).on
         a == Current(w).who
     IN  \/ /\ copy[w][Grand] = Nil
            /\ \E deferred \in {<<>>, <<Del(Grand)>>} : Panic(w, deferred)
            /\ UNCHANGED db
         \/ /\ copy[w][Grand] # Nil /\ db[p] # Nil
            /\ Continue(w, <<Del(Grand)>>)
            /\ UNCHANGED db
         \/ /\ copy[w][Grand] # Nil /\ db[p] = Nil
            /\ db' = [db EXCEPT ![p] = NewPlace]
            /\ Continue(w, <<Command("count", Grand, NoOne), Del(Grand)>>
                             \o AddKeyHolder(p, a) \o Promote(p, a)
                             \o <<Del(a)>>)
  /\ UNCHANGED <<cache, phase, copy, req, served>>

Count(w) ==
  /\ At(w, "count")
  /\ Update(w, Grand, TRUE, [db[Grand] EXCEPT !.nChildren = @ + 1])

-----------------------------------------------------------------------------

Read(w) == Lookup(w) \/ Find(w) \/ Fill(w)

Handle(w) ==
  \/ Refuse(w) \/ Invite(w) \/ AddMember(w) \/ Enlist(w) \/ Admit(w)
  \/ PromoteMember(w) \/ DemoteMember(w)
  \/ Leave(w) \/ RemoveMember(w) \/ Dismiss(w) \/ NextSub(w) \/ VisitSub(w)
  \/ RemovePlace(w) \/ AddPlace(w)

Write(w) ==
  \/ Join(w) \/ Grant(w) \/ Raise(w) \/ Lower(w) \/ Expel(w) \/ Revoke(w)
  \/ Dissolve(w) \/ Uncount(w) \/ Evict(w) \/ Delete(w)
  \/ Insert(w) \/ Count(w)

Halted(w) == At(w, "halt")

(* Every request is answered or its worker is halted, and no more come.    *)
Quiet ==
  /\ \A w \in Workers : Halted(w) \/ req[w] = NoRequest
  /\ served = MaxRequests \/ \A w \in Workers : Halted(w)
  /\ UNCHANGED vars

Next ==
  \/ \E w \in Workers :
       \/ Receive(w) \/ Answer(w)
       \/ Read(w) \/ Drop(w) \/ UsePlace(w) \/ Handle(w) \/ Write(w)
  \/ Quiet

Spec == Init /\ [][Next]_vars
-----------------------------------------------------------------------------
(* Properties.                                                             *)

Commands ==
  [do : {"get", "del"}, on : Keys, who : {NoOne}]
    \cup [do : {"use", "dissolve", "uncount", "count", "evict", "delete"},
          on : Places, who : {NoOne}]
    \cup [do : {"serve", "dismiss", "visit", "insert", "join",
                "grant", "raise", "lower", "expel", "revoke"},
          on : Places, who : Accounts]
    \cup [do : {"tour"}, on : SUBSET Subs, who : Accounts]
    \cup [do : {"enlist"}, on : Loops, who : Accounts]
    \cup [do : {"admit"}, on : {l \in Loops : l.list # <<>>}, who : Accounts]
    \cup {Halt}

IsStore(s) ==
  /\ DOMAIN s = Keys
  /\ \A p \in Places : s[p] \in PlaceDocs \cup {Nil}
  /\ \A a \in Accounts : s[a] \in AccountDocs \cup {Nil}

(* Documents, copies and scripts have their types, and a worker that is    *)
(* about to cache what it found has found something.                       *)
TypeOK ==
  /\ IsStore(db) /\ IsStore(cache) /\ \A w \in Workers : IsStore(copy[w])
  /\ \A a \in Accounts : db[a] # Nil
  /\ DOMAIN copy = Workers
  /\ script \in [Workers -> Seq(Commands)]
  /\ phase \in [Workers -> {"get", "find", "fill"}]
  /\ req \in [Workers -> Requests \cup {NoRequest}]
  /\ served \in 0..MaxRequests
  /\ \A w \in Workers :
       /\ script[w] # <<>> => req[w] # NoRequest
       /\ phase[w] # "get" => At(w, "get")
       /\ phase[w] = "fill" => copy[w][Current(w).on] # Nil

(* Nobody is creator and key holder of one place, and the counters the     *)
(* limits are checked with count the rosters, whichever requests run at    *)
(* once and however old the copies they decide on.                         *)
RosterCounted ==
  \A p \in Places :
    db[p] # Nil =>
      /\ db[p].creators \cap db[p].keys = {}
      /\ db[p].nCreators = Cardinality(db[p].creators)
      /\ db[p].nKeys = Cardinality(db[p].keys)

RoleIn(c, a) == IF a \in c.creators THEN "creator"
                ELSE IF a \in c.keys THEN "key_holder" ELSE "none"

Roles == [p \in Places |->
            IF db[p] = Nil THEN Nil
            ELSE [a \in Accounts |-> RoleIn(db[p], a)]]

Roster == INSTANCE PlaceRoster WITH Gone <- Nil, roles <- Roles

ASSUME RolesAssumption == Nil \notin [Accounts -> Roster!RoleNames]

(* Whatever interleaves, memberships change as PlaceRoster says: who is    *)
(* promoted was a key holder, who is removed from the creators is a key    *)
(* holder first, and no write brings back an older roster.                 *)
ImplementsRoster == Roster!Spec

Idle == \A w \in Workers : req[w] = NoRequest

(* One request at a time.  A handler decides on the places as they are;    *)
(* no DEL of a place's copy is missing.                                    *)
DecidesOnCurrent ==
  \A w \in Workers : At(w, "serve") =>
    LET p == Subject(req[w]) IN copy[w][p] = db[p]

(* One request at a time, without admins, who may demote into a full       *)
(* place: between requests the limits hold, also after lists of members    *)
(* longer than the room there was.                                         *)
LimitsKept ==
  Idle => \A p \in Places : db[p] # Nil =>
            /\ Cardinality(db[p].creators) <= CreatorLimit
            /\ Cardinality(db[p].keys) <= KeyholderLimit

(* One request at a time: between requests an account lists the places it  *)
(* is a member of and no others, although rosters and accounts are updated *)
(* by different commands, and places go away with their members.           *)
AccessAgrees ==
  Idle => \A a \in Accounts :
            db[a].access =
              {p \in Places : db[p] # Nil /\ a \in Members(db[p])}

(* One request at a time: between requests the members of a sub-place are  *)
(* members of the grand place, whichever way they came and left.           *)
SubMembersInGrand ==
  Idle => \A p \in Subs : db[p] # Nil =>
            /\ db[Grand] # Nil
            /\ Members(db[p]) \subseteq Members(db[Grand])

(* One request at a time: between requests counters.childs, on which       *)
(* removing the grand place depends, is the number of its sub-places.      *)
ChildrenCounted ==
  Idle /\ db[Grand] # Nil =>
    db[Grand].nChildren = Cardinality({p \in Subs : db[p] # Nil})

(* Stated by the comment of leavePlace: who cannot leave a sub-place must  *)
(* first add another creator or remove the place.  Nothing checks it: the  *)
(* last creator leaves, and nobody may administer the place.               *)
CreatorRemains ==
  Idle => \A p \in Subs : db[p] # Nil => db[p].creators # {}

(* Stated by the comment of Remove: all members are removed from the       *)
(* place.  Their cached accounts still list it: removeMultiFromCache       *)
(* deletes keys with another prefix.                                       *)
RemovedPlaceUnlisted ==
  Idle => \A a \in Accounts : cache[a] # Nil =>
            \A p \in cache[a].access : db[p] # Nil

=============================================================================
