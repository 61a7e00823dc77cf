------------------------------- MODULE Sessions -------------------------------
(***************************************************************************)
(* Sessions: nested/manager_session.go, pkg/rpc/api/session and the part   *)
(* of Worker.Execute that authenticates a request.                         *)
(*                                                                         *)
(* A session is a MongoDB document with a copy in Redis that every request *)
(* is verified with.  Whoever changes the document reads it again and      *)
(* stores the copy, in two commands; whoever misses the copy does the      *)
(* same.  A copy lapses after a while, and closing all other sessions of   *)
(* an account leaves theirs.  The devices and sockets that logging in and  *)
(* out registers are Sockets'.                                             *)
(***************************************************************************)
EXTENDS Integers, FiniteSets, Sequences

CONSTANTS
  Accounts, Nil, Workers, Requests,
  MaxSessions,  \* bound: sessions created
  MaxRequests   \* bound: requests served in a behaviour

VARIABLES
  session,   \* the documents: the account, once it is logged in, and expired
  cached,    \* the copies in Redis
  ids,       \* sessions created
  closed,    \* the sessions that Expire closed
  script,    \* what a worker still has to do
  copy,      \* the session its handler has read
  served

vars == <<session, cached, ids, closed, script, copy, served>>

SessionIds == 1..MaxSessions
SessionDocs == [uid : Accounts \cup {Nil}, expired : BOOLEAN]

(* `by' is the session key a request comes with, `right' whether the       *)
(* secret, or the password of a login, is; `other' the session to close.   *)
RequestType ==
  [op : {"register", "recall", "close", "close_active", "close_all", "any"},
   by : SessionIds \cup {Nil}, right : BOOLEAN,
   uid : Accounts \cup {Nil}, other : SessionIds \cup {Nil}]

(* All but a login name a session; one to close is named.                  *)
Complete(r) ==
  /\ r.op # "register" => r.by # Nil
  /\ r.op = "close_active" => r.other # Nil

SessionsAssumption ==
  /\ IsFiniteSet(Workers) /\ Nil \notin SessionIds
  /\ Requests \subseteq RequestType /\ \A r \in Requests : Complete(r)
  /\ {MaxSessions, MaxRequests} \subseteq Nat

Init ==
  /\ session = [s \in SessionIds |-> Nil]
  /\ cached = [s \in SessionIds |-> Nil]
  /\ ids = 0
  /\ closed = {}
  /\ script = [w \in Workers |-> <<>>]
  /\ copy = [w \in Workers |-> Nil]
  /\ served = 0

Good(s) == s # Nil /\ ~s.expired

(* What Verify says to the holder of the session's key and secret.         *)
Valid(s) == Good(IF cached[s] # Nil THEN cached[s] ELSE session[s])

-----------------------------------------------------------------------------
(* Scripts.                                                                *)

Command(do, s, arg) == [do |-> do, at |-> s, arg |-> arg]

Ready(w, do) == script[w] # <<>> /\ Head(script[w]).do = do
Now(w) == Head(script[w])
Become(w, s) == script' = [script EXCEPT ![w] = s \o Tail(@)]
Proceed(w) == Become(w, <<>>)
Return(w) == script' = [script EXCEPT ![w] = <<>>]

GetByID(s) == <<Command("get", s, Nil)>>
UpdateCache(s) == <<Command("find", s, Nil)>>
Expire(s) == <<Command("expire", s, Nil)>>
Set(s) == <<Command("touch", s, Nil)>>

(* Execute verifies the session before the handler runs; recall, and a     *)
(* login without a session, are not authenticated.                         *)
Receive(w, r) ==
  /\ script[w] = <<>> /\ served < MaxRequests
  /\ r.by # Nil => r.by <= ids
  /\ r.other # Nil => r.other <= ids
  /\ r.op = "register" =>
       ids + Cardinality({v \in Workers : script[v] # <<>>}) < MaxSessions
  /\ served' = served + 1
  /\ script' = [script EXCEPT ![w] =
       IF r.by = Nil THEN <<Command("handle", Nil, r)>>
       ELSE GetByID(r.by)
              \o <<Command(IF r.op = "recall" THEN "recall" ELSE "verify",
                           r.by, r)>>]
  /\ UNCHANGED <<session, cached, ids, closed, copy>>

-----------------------------------------------------------------------------
(* The cache.                                                              *)

(* readFromCache; a missed copy is stored in a command of its own.         *)
Get(w) ==
  /\ Ready(w, "get")
  /\ LET s == Now(w).at
     IN IF cached[s] # Nil \/ session[s] = Nil
          THEN copy' = [copy EXCEPT ![w] = cached[s]] /\ Proceed(w)
          ELSE /\ copy' = [copy EXCEPT ![w] = session[s]]
               /\ Become(w, <<Command("store", s, session[s])>>)
  /\ UNCHANGED <<session, cached, ids, closed, served>>

(* updateCache reads the document, then stores the copy, or removes it     *)
(* when there is no document.                                              *)
Find(w) ==
  /\ Ready(w, "find")
  /\ Become(w, <<Command("store", Now(w).at, session[Now(w).at])>>)
  /\ UNCHANGED <<session, cached, ids, closed, copy, served>>

Store(w) ==
  /\ Ready(w, "store")
  /\ cached' = [cached EXCEPT ![Now(w).at] = Now(w).arg]
  /\ Proceed(w)
  /\ UNCHANGED <<session, ids, closed, copy, served>>

(* The lifetime of a copy ends.                                            *)
Lapse(s) ==
  /\ cached[s] # Nil
  /\ cached' = [cached EXCEPT ![s] = Nil]
  /\ UNCHANGED <<session, ids, closed, script, copy, served>>

-----------------------------------------------------------------------------
(* The documents.                                                          *)

(* Mutant: the copy is refreshed before the document is changed.           *)
ExpireLater(w) ==
  /\ Ready(w, "expire")
  /\ LET s == Now(w).at
     IN IF Now(w).arg = Nil
          THEN /\ Become(w, UpdateCache(s) \o <<Command("expire", s, "now")>>)
               /\ UNCHANGED <<session, closed>>
          ELSE /\ session' = [session EXCEPT ![s] = IF @ = Nil THEN Nil ELSE
                                [@ EXCEPT !.expired = TRUE]]
               /\ closed' = closed \cup {s}
               /\ Proceed(w)
  /\ UNCHANGED <<cached, ids, copy, served>>

ExpireSession(w) ==
  /\ Ready(w, "expire")
  /\ LET s == Now(w).at
     IN /\ session' = [session EXCEPT ![s] = IF @ = Nil THEN Nil ELSE
                         [@ EXCEPT !.expired = TRUE]]
        /\ closed' = closed \cup {s}
        /\ Become(w, UpdateCache(s))
  /\ UNCHANGED <<cached, ids, copy, served>>

(* Mutant: the session that was read is written back.                      *)
TouchCopy(w) ==
  /\ Ready(w, "touch")
  /\ session' = [session EXCEPT ![Now(w).at] = IF @ = Nil THEN @ ELSE copy[w]]
  /\ Become(w, UpdateCache(Now(w).at))
  /\ UNCHANGED <<cached, ids, closed, copy, served>>

(* Set and UpdateLastAccess, of fields that nothing here depends on and    *)
(* only while the session is not expired.                                  *)
Touch(w) ==
  /\ Ready(w, "touch")
  /\ Become(w, UpdateCache(Now(w).at))
  /\ UNCHANGED <<session, cached, ids, closed, copy, served>>

(* The doctor's CleanupSessions.                                           *)
Cleanup ==
  /\ \E s \in SessionIds : session[s] # Nil /\ session[s].expired
  /\ session' = [s \in SessionIds |-> IF Good(session[s]) THEN session[s]
                                      ELSE Nil]
  /\ UNCHANGED <<cached, ids, closed, script, copy, served>>

-----------------------------------------------------------------------------
(* Handlers.                                                               *)

(* Execute: Verify, then the account of the session, read again.           *)
Verify(w) ==
  /\ Ready(w, "verify")
  /\ LET r == Now(w).arg
     IN IF Good(copy[w]) /\ (r.right \/ r.op = "register")
          THEN Become(w, GetByID(r.by) \o <<Command("handle", r.by, r)>>)
          ELSE Return(w)
  /\ UNCHANGED <<session, cached, ids, closed, copy, served>>

(* The session has gone since it was last verified or read, and is used    *)
(* all the same.  The panic ends the request or, if the request came by a  *)
(* socket, the server with all its requests.                               *)
Panic(w) ==
  /\ copy[w] = Nil
  /\ \/ Ready(w, "handle") /\ Now(w).at # Nil
     \/ Ready(w, "closing") \/ Ready(w, "recalled")
  /\ script' \in {[script EXCEPT ![w] = <<>>], [v \in Workers |-> <<>>]}
  /\ UNCHANGED <<session, cached, ids, closed, copy, served>>

Requester(w) == IF copy[w] = Nil THEN Nil ELSE copy[w].uid

(* Nobody is logged in.                                                    *)
Unknown(w) ==
  /\ Ready(w, "handle") /\ Now(w).at # Nil
  /\ copy[w] # Nil /\ Requester(w) = Nil
  /\ Return(w)
  /\ UNCHANGED <<session, cached, ids, closed, copy, served>>

Handles(w, op) ==
  /\ Ready(w, "handle") /\ Now(w).arg.op = op
  /\ Now(w).at = Nil \/ Requester(w) # Nil

(* close reads the session once more, and closes it.                       *)
CloseSession(w) ==
  /\ Handles(w, "close")
  /\ Become(w, GetByID(Now(w).at) \o <<Command("closing", Now(w).at, Nil)>>)
  /\ UNCHANGED <<session, cached, ids, closed, copy, served>>

Closing(w) ==
  /\ Ready(w, "closing") /\ copy[w] # Nil
  /\ Become(w, Expire(Now(w).at))
  /\ UNCHANGED <<session, cached, ids, closed, copy, served>>

CloseActive(w) ==
  /\ Handles(w, "close_active")
  /\ LET r == Now(w).arg
     IN Become(w,
          GetByID(r.other)
            \o <<Command("own", r.other, <<r.by, Requester(w)>>)>>)
  /\ UNCHANGED <<session, cached, ids, closed, copy, served>>

(* Users close sessions of theirs, but the one they are using.             *)
OwnSession(w) ==
  /\ Ready(w, "own")
  /\ LET s == Now(w).at
     IN IF copy[w] # Nil /\ s # Now(w).arg[1] /\ copy[w].uid = Now(w).arg[2]
          THEN Become(w, Expire(s)) ELSE Return(w)
  /\ UNCHANGED <<session, cached, ids, closed, copy, served>>

(* CloseOtherActives removes the documents and leaves the copies.          *)
CloseAll(w) ==
  /\ Handles(w, "close_all")
  /\ LET others == {s \in SessionIds \ {Now(w).at} :
                      session[s] # Nil /\ session[s].uid = Requester(w)}
     IN session' = [s \in SessionIds |->
                      IF s \in others THEN Nil ELSE session[s]]
  /\ Proceed(w)
  /\ UNCHANGED <<cached, ids, closed, copy, served>>

(* A request of another service.                                           *)
Other(w) ==
  /\ Handles(w, "any")
  /\ Proceed(w)
  /\ UNCHANGED <<session, cached, ids, closed, copy, served>>

(* register closes the session it comes with, even if the password is not  *)
(* right, and makes a new one, which is read and then logged in.           *)
Register(w) ==
  /\ Handles(w, "register")
  /\ LET r == Now(w).arg
         old == IF r.by # Nil THEN Expire(r.by) ELSE <<>>
     IN Become(w, old \o (IF r.right THEN <<Command("create", Nil, r.uid)>>
                          ELSE <<>>))
  /\ UNCHANGED <<session, cached, ids, closed, copy, served>>

Create(w) ==
  /\ Ready(w, "create")
  /\ ids' = ids + 1
  /\ session' = [session EXCEPT ![ids'] = [uid |-> Nil, expired |-> FALSE]]
  /\ Become(w, GetByID(ids') \o <<Command("login", ids', Now(w).arg)>>)
  /\ UNCHANGED <<cached, closed, copy, served>>

Login(w) ==
  /\ Ready(w, "login")
  /\ LET s == Now(w).at
     IN /\ session' = [session EXCEPT ![s] =
             IF Good(@) THEN [@ EXCEPT !.uid = Now(w).arg] ELSE @]
        /\ Become(w, UpdateCache(s))
  /\ UNCHANGED <<cached, ids, closed, copy, served>>

(* recall of a session that does not verify closes it; otherwise the       *)
(* session is read again and touched twice, or closed, if nobody is logged *)
(* in.                                                                     *)
Recall(w) ==
  /\ Ready(w, "recall")
  /\ LET s == Now(w).at
     IN IF Good(copy[w]) /\ Now(w).arg.right
          THEN Become(w, GetByID(s) \o Set(s)
                           \o <<Command("recalled", s, Nil)>>)
          ELSE Become(w, Expire(s))
  /\ UNCHANGED <<session, cached, ids, closed, copy, served>>

Recalled(w) ==
  /\ Ready(w, "recalled") /\ copy[w] # Nil
  /\ IF copy[w].uid = Nil THEN Become(w, Expire(Now(w).at))
     ELSE Become(w, Set(Now(w).at))
  /\ UNCHANGED <<session, cached, ids, closed, copy, served>>

Work(w) ==
  \/ Get(w) \/ Find(w) \/ Store(w) \/ ExpireSession(w) \/ Touch(w)
  \/ Verify(w) \/ Panic(w) \/ Unknown(w) \/ CloseSession(w) \/ Closing(w)
  \/ CloseActive(w) \/ OwnSession(w) \/ CloseAll(w) \/ Other(w)
  \/ Register(w) \/ Create(w) \/ Login(w) \/ Recall(w) \/ Recalled(w)

Next ==
  \/ \E w \in Workers : (\E r \in Requests : Receive(w, r)) \/ Work(w)
  \/ \E s \in SessionIds : Lapse(s)
  \/ Cleanup

Quiet == \A w \in Workers : script[w] = <<>>
Stop == Quiet /\ (\A s \in SessionIds : cached[s] = Nil) /\ UNCHANGED vars

(* Handlers run to their end and copies lapse, sooner or later.            *)
Step == \/ \E w \in Workers : Work(w)
        \/ \E s \in SessionIds : Lapse(s)

Fairness == WF_vars(Step)

Spec == Init /\ [][Next \/ Stop]_vars /\ Fairness

-----------------------------------------------------------------------------
(* Properties.                                                             *)

TypeOK ==
  /\ session \in [SessionIds -> SessionDocs \cup {Nil}]
  /\ cached \in [SessionIds -> SessionDocs \cup {Nil}]
  /\ copy \in [Workers -> SessionDocs \cup {Nil}]
  /\ ids \in 0..MaxSessions /\ closed \subseteq SessionIds

(* With one request at a time, a session that close, close_active, a       *)
(* failed recall or a new login expired does not verify any more, whether  *)
(* its copy is there or has lapsed.                                        *)
ExpiredInvalid == Quiet => \A s \in closed : ~Valid(s)

Over(s) == s <= ids /\ ~Good(session[s])

(* However handlers interleave, a closed session, also one of those that   *)
(* close_all_actives removed, stops to verify for good when its copy       *)
(* lapses: nothing brings it back.                                         *)
ClosedEnds ==
  \A s \in SessionIds : Over(s) ~> [](~Valid(s))
=============================================================================
