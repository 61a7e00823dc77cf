-------------------------------- MODULE Hooks --------------------------------
(***************************************************************************)
(* Hooks: nested/manager_hook.go, the places that send it events in        *)
(* manager_post.go and manager_place.go, and pkg/rpc/api/hook.             *)
(*                                                                         *)
(* Requests put events into a channel and wait when it is full.  The       *)
(* hooker takes one after the other and starts a goroutine for each, as    *)
(* soon as chLimit has room for one more; the goroutine posts the event to *)
(* all the hooks it finds and makes room again.  An address may answer     *)
(* with an error, which is taken for an answer, or never: the default HTTP *)
(* client waits for the answer without a limit.                            *)
(***************************************************************************)
EXTENDS Integers, FiniteSets, Sequences

CONSTANTS
  Places, Kinds, Nil, Workers,
  Limit,      \* places in chLimit: 10
  Room,       \* places in chEvents: 1000
  MaxHooks,   \* bound: hooks that are added
  MaxEvents   \* bound: events that are sent

VARIABLES
  hooks,     \* the documents; Nil, before a hook is added and once removed
  added,     \* hooks added so far
  sends,     \* events a request still has to send
  events,    \* events so far
  queue,     \* chEvents
  taken,     \* the event the hooker waits with
  limit,     \* how much of chLimit is taken
  running,   \* the goroutines: an event, the hooks to post it to, and
             \* whether it waits for an answer that never comes
  awaited,   \* the hooks there were for an event when it was sent
  called     \* the hooks that an event was posted to

vars ==
  <<hooks, added, sends, events, queue, taken, limit, running, awaited,
    called>>

HookIds == 1..MaxHooks
Events == [id : 1..MaxEvents, place : Places, kind : Kinds]

HooksAssumption == {Limit, Room} \subseteq Nat \ {0}
                     /\ {MaxHooks, MaxEvents} \subseteq Nat

(* The places of a post, each of them once.                                *)
PlaceLists ==
  UNION {{order \in [1..n -> Places] :
            \A i, j \in 1..n : order[i] = order[j] => i = j} :
         n \in 1..Cardinality(Places)}

Init ==
  /\ hooks = [h \in HookIds |-> Nil] /\ added = 0
  /\ sends = [w \in Workers |-> <<>>] /\ events = 0
  /\ queue = <<>> /\ taken = Nil /\ limit = 0 /\ running = {}
  /\ awaited = {} /\ called = {}

(* The hooks of an event: of its place, and of its type.                   *)
HooksOf(e) ==
  {h \in HookIds : hooks[h] = [place |-> e.place, kind |-> e.kind]}

-----------------------------------------------------------------------------

AddHook(p, k) ==
  /\ added < MaxHooks
  /\ added' = added + 1
  /\ hooks' = [hooks EXCEPT ![added'] = [place |-> p, kind |-> k]]
  /\ UNCHANGED <<sends, events, queue, taken, limit, running, awaited,
                 called>>

RemoveHook(h) ==
  /\ hooks[h] # Nil
  /\ hooks' = [hooks EXCEPT ![h] = Nil]
  /\ UNCHANGED <<added, sends, events, queue, taken, limit, running, awaited,
                 called>>

(* A post, or a comment on one, sends an event for each of its places; a   *)
(* member, for the place joined.                                           *)
Request(w, order, k) ==
  /\ sends[w] = <<>> /\ events + Len(order) <= MaxEvents
  /\ sends' = [sends EXCEPT ![w] = [i \in 1..Len(order) |->
       [id |-> events + i, place |-> order[i], kind |-> k]]]
  /\ events' = events + Len(order)
  /\ UNCHANGED <<hooks, added, queue, taken, limit, running, awaited,
                 called>>

Send(w) ==
  /\ sends[w] # <<>> /\ Len(queue) < Room
  /\ LET e == Head(sends[w])
     IN /\ queue' = Append(queue, e)
        /\ awaited' = awaited \cup {<<e.id, h>> : h \in HooksOf(e)}
  /\ sends' = [sends EXCEPT ![w] = Tail(@)]
  /\ UNCHANGED <<hooks, added, events, taken, limit, running, called>>

(* hooker.                                                                 *)
Take ==
  /\ taken = Nil /\ queue # <<>>
  /\ taken' = Head(queue) /\ queue' = Tail(queue)
  /\ UNCHANGED <<hooks, added, sends, events, limit, running, awaited,
                 called>>

Start ==
  /\ taken # Nil /\ limit < Limit
  /\ limit' = limit + 1
  /\ running' = running \cup
       {[event |-> taken, calls |-> Nil, stuck |-> FALSE]}
  /\ taken' = Nil
  /\ UNCHANGED <<hooks, added, sends, events, queue, awaited, called>>

(* hHook: the hooks are looked for, and called one after the other.        *)
Find(g) ==
  /\ g \in running /\ g.calls = Nil
  /\ running' = (running \ {g}) \cup {[g EXCEPT !.calls = HooksOf(g.event)]}
  /\ UNCHANGED <<hooks, added, sends, events, queue, taken, limit, awaited,
                 called>>

Posted(g, h, stuck) ==
  [event |-> g.event, calls |-> g.calls \ {h}, stuck |-> stuck]

(* Mutant: an error ends the goroutine, which keeps its place.             *)
PostGivesUp(g) ==
  /\ g \in running /\ g.calls # Nil /\ ~g.stuck
  /\ \E h \in g.calls, stuck \in BOOLEAN :
       /\ called' = called \cup {<<g.event.id, h>>}
       /\ running' \in {(running \ {g}) \cup {Posted(g, h, stuck)},
                       running \ {g}}
  /\ UNCHANGED <<hooks, added, sends, events, queue, taken, limit, awaited>>

(* Whatever the address answers, and if it never does.                     *)
Post(g) ==
  /\ g \in running /\ g.calls # Nil /\ ~g.stuck
  /\ \E h \in g.calls, stuck \in BOOLEAN :
       /\ called' = called \cup {<<g.event.id, h>>}
       /\ running' = (running \ {g}) \cup {Posted(g, h, stuck)}
  /\ UNCHANGED <<hooks, added, sends, events, queue, taken, limit, awaited>>

Leave(g) ==
  /\ g \in running /\ g.calls = {} /\ ~g.stuck
  /\ running' = running \ {g} /\ limit' = limit - 1
  /\ UNCHANGED <<hooks, added, sends, events, queue, taken, awaited, called>>

Step ==
  \/ \E w \in Workers : Send(w)
  \/ Take \/ Start
  \/ \E g \in running : Find(g) \/ Post(g) \/ Leave(g)

Next ==
  \/ \E p \in Places, k \in Kinds : AddHook(p, k)
  \/ \E h \in HookIds : RemoveHook(h)
  \/ \E w \in Workers, order \in PlaceLists, k \in Kinds :
       Request(w, order, k)
  \/ Step

(* Nobody can go on: all is done, or waits.                                *)
Stop ==
  /\ \A w \in Workers : sends[w] # <<>> => Len(queue) = Room
  /\ IF taken = Nil THEN queue = <<>> ELSE limit = Limit
  /\ \A g \in running : g.stuck
  /\ UNCHANGED vars

(* Requests, the hooker and its goroutines go on, but where they wait for  *)
(* an answer.                                                              *)
Spec == Init /\ [][Next \/ Stop]_vars /\ WF_vars(Step)

-----------------------------------------------------------------------------
(* Properties.                                                             *)

TypeOK ==
  /\ hooks \in [HookIds -> [place : Places, kind : Kinds] \cup {Nil}]
  /\ \A w \in Workers : sends[w] \in Seq(Events)
  /\ queue \in Seq(Events) /\ Len(queue) <= Room
  /\ taken \in Events \cup {Nil} /\ limit \in 0..Limit
  /\ \A g \in running : g.event \in Events /\ g.stuck \in BOOLEAN
  /\ awaited \subseteq (1..MaxEvents) \X HookIds

There == {h \in DOMAIN hooks : hooks[h] # Nil}
Stuck == {g \in running : g.stuck}

(* A hook that is there when its event is sent is called with it, unless   *)
(* it is removed first, or another hook of the event never answers: full   *)
(* channels keep events and the requests that send them waiting, but the   *)
(* places in them become free again, as long as one place of chLimit is    *)
(* not taken for ever by an address that never answers.                    *)
HooksCalled ==
  \A i \in 1..MaxEvents, h \in HookIds :
    <<i, h>> \in awaited ~>
      \/ <<i, h>> \in called \/ h \notin There
      \/ \E g \in Stuck : g.event.id = i
      \/ Cardinality(Stuck) = Limit
=============================================================================
