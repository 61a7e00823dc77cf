---------------------------- MODULE Notifications ----------------------------
(***************************************************************************)
(* Notifications: nested/manager_notification.go, pkg/rpc/api/notification *)
(* and the functions of pkg/pusher/pusher.go that decide who is notified.  *)
(*                                                                         *)
(* Most events insert a notification for each account concerned.  Comments *)
(* and settings look for an unread one they can be added to first, in a    *)
(* command of its own.  The pusher runs in a goroutine beside the handlers *)
(* that mark notifications read.  Devices and sockets are Sockets'.        *)
(***************************************************************************)
EXTENDS Integers, FiniteSets, Sequences, SequencesExt

CONSTANTS
  Accounts, Nil,
  Posts, Watchers,            \* who watches a post at first: a function
  Tasks, Assignor, Assignee,  \* who asked for a task, who does it: functions
  TaskReaders,                \* who may read a task: a function
  Places, Creators,           \* who gets to know of settings: a function
  Workers, Requests,
  MaxNotices,                 \* bound: notifications made
  MaxRequests                 \* bound: requests served in a behaviour

VARIABLES
  notice,    \* notifications, in the order they were made
  counters,  \* counters.total_notifications and unread_notifications
  watching,  \* posts.watchers
  readers,   \* who has access to a post
  owed,      \* who was to learn that someone commented, and has not read it
  script,    \* what a worker still has to do
  served

vars == <<notice, counters, watching, readers, owed, script, served>>

Items == Posts \cup Tasks \cup Places \cup {Nil}

(* Notifications that one account gets, of what one other did.             *)
Single ==
  {"mention", "task_mention", "joined", "promoted", "demoted", "session",
   "approved", "rejected", "assigned", "decided", "state", "added"}
Merged == {"comment", "task_comment", "settings"}

NoticeDocs ==
  [kind : Single \cup Merged, to : Accounts \cup {Nil}, item : Items,
   by : SUBSET Accounts, read : BOOLEAN, removed : BOOLEAN]

(* `who' did something about the item; `to' are those it was done to, or   *)
(* those a comment mentions; `n' is a notification.                        *)
Mentions == {"mention", "task_mention"}  \* of comments, not of their own
Events == (Single \ Mentions) \cup Merged
RequestType ==
  [op : Events \cup
        {"read_all", "read", "read_post", "remove", "reset", "leave"},
   who : Accounts, item : Items, to : SUBSET Accounts, n : Nat]

(* What an event is about.                                                 *)
Complete(r) ==
  /\ r.op \in {"comment", "read_post", "leave"} => r.item \in Posts
  /\ r.op \in {"task_comment", "assigned", "decided", "state"} =>
       r.item \in Tasks
  /\ r.op = "settings" => r.item \in Places

NotificationsAssumption ==
  /\ Watchers \in [Posts -> SUBSET Accounts]
  /\ Creators \in [Places -> SUBSET Accounts]
  /\ Assignor \in [Tasks -> Accounts]
  /\ Assignee \in [Tasks -> Accounts \cup {Nil}]
  /\ TaskReaders \in [Tasks -> SUBSET Accounts]
  /\ Nil \notin Accounts /\ IsFiniteSet(Accounts) /\ IsFiniteSet(Workers)
  /\ Requests \subseteq RequestType /\ \A r \in Requests : Complete(r)
  /\ {MaxNotices, MaxRequests} \subseteq Nat

Init ==
  /\ notice = <<>>
  /\ counters = [a \in Accounts |-> [total |-> 0, unread |-> 0]]
  /\ watching = Watchers
  /\ readers = [p \in Posts |-> Accounts]
  /\ owed = {}
  /\ script = [w \in Workers |-> <<>>]
  /\ served = 0

-----------------------------------------------------------------------------
(* Scripts.                                                                *)

Command(do, kind, to, item, by) ==
  [do |-> do, kind |-> kind, to |-> to, item |-> item, by |-> by]

(* What a worker may have before it; `by' is who did it, of a comment the  *)
(* request, which gathers in `to' who was told.                            *)
Commands ==
  [do : {"insert", "merge"}, kind : Single \cup Merged,
   to : Accounts \cup {Nil}, item : Items, by : Accounts]
    \cup [do : {"count"}, kind : {Nil}, to : Accounts \cup {Nil},
          item : {Nil}, by : {Nil}]
    \cup [do : {"mention"}, kind : {"mention"}, to : Accounts, item : Posts,
          by : Accounts]
    \cup [do : {"watchers"}, kind : {"comment"}, to : {Nil}, item : Posts,
          by : {r \in RequestType : r.item \in Posts}]
    \cup [do : {"watcher"}, kind : {"comment"}, to : Accounts, item : Posts,
          by : [who : Accounts, told : BOOLEAN]]
    \cup [do : {"read_all", "read", "remove", "reset"}, kind : {Nil}, to : Nat,
          item : Items, by : Accounts]
    \cup [do : {"read_post", "leave"}, kind : {Nil}, to : Nat, item : Posts,
          by : Accounts]

Ready(w, do) == script[w] # <<>> /\ Head(script[w]).do = do
Now(w) == Head(script[w])
Become(w, s) == script' = [script EXCEPT ![w] = s \o Tail(@)]
Proceed(w) == Become(w, <<>>)

ForEach(as, Call(_)) == [i \in 1..Cardinality(as) |-> Call(SetToSeq(as)[i])]

(* Insert, then incrementCounter.                                          *)
Add(kind, to, item, by) == Command("insert", kind, to, item, by)
Merge(kind, to, item, by) == Command("merge", kind, to, item, by)

-----------------------------------------------------------------------------
(* What the pusher makes of an event.                                      *)

(* PlaceJoined, PlaceMemberPromoted, PlaceMemberDemoted, NewSession and    *)
(* the answers to label requests: one notification, whoever gets it.       *)
Told(r) == ForEach(r.to, LAMBDA a : Add(r.op, a, r.item, r.who))

(* TaskAddedToCandidates, ...ToWatchers, ...ToEditors: not whoever did it. *)
AddedTo(r) == ForEach(r.to \ {r.who}, LAMBDA a : Add(r.op, a, r.item, r.who))

TaskAssigned(r) ==
  LET t == r.item
  IN IF Assignor[t] = Assignee[t] THEN <<>>
     ELSE <<Add("assigned", Assignee[t], t, Assignor[t])>>

(* TaskAccepted and TaskRejected.                                          *)
TaskDecided(r) == <<Add("decided", Assignor[r.item], r.item, r.who)>>

(* The assignee and the assignor, unless they did it or are told already.  *)
(* They may be one and the same, and a task without an assignee has a      *)
(* notification for nobody.                                                *)
Unless(a, told) == IF a \in told THEN <<>> ELSE <<a>>
BothRoles(r, told) ==
  Unless(Assignee[r.item], told \cup {r.who})
    \o Unless(Assignor[r.item], told \cup {r.who})

(* TaskFailed, TaskCompleted, TaskHold, TaskInProgress.                    *)
TaskStatusChanged(r) ==
  LET to == BothRoles(r, {})
  IN [i \in 1..Len(to) |-> Add("state", to[i], r.item, r.who)]

(* Whoever is mentioned and may read the task, then the others of the two. *)
TaskCommentAdded(r) ==
  LET mentioned == r.to \cap TaskReaders[r.item]
      others == BothRoles(r, mentioned)
  IN ForEach(mentioned, LAMBDA a : Add("task_mention", a, r.item, r.who))
       \o [i \in 1..Len(others) |->
             Merge("task_comment", others[i], r.item, r.who)]

(* Each mentioned account is asked for its access, and then the watchers,  *)
(* read when that is done.  The last command remembers who was told.       *)
PostCommentAdded(r) ==
  ForEach(r.to, LAMBDA a :
            Command("mention", "mention", a, r.item, r.who))
    \o <<Command("watchers", "comment", Nil, r.item, [r EXCEPT !.to = {}])>>

PlaceSettingsUpdated(r) ==
  ForEach(Creators[r.item] \ {r.who},
          LAMBDA a : Merge("settings", a, r.item, r.who))

Calls(r) ==
  CASE r.op = "comment" -> PostCommentAdded(r)
    [] r.op = "task_comment" -> TaskCommentAdded(r)
    [] r.op = "settings" -> PlaceSettingsUpdated(r)
    [] r.op = "assigned" -> TaskAssigned(r)
    [] r.op = "decided" -> TaskDecided(r)
    [] r.op = "state" -> TaskStatusChanged(r)
    [] r.op = "added" -> AddedTo(r)
    [] r.op \in {"joined", "promoted", "demoted", "session", "approved",
                 "rejected"} -> Told(r)
    [] OTHER -> <<Command(r.op, Nil, r.n, r.item, r.who)>>

(* Notifications still to be made by the events being handled, at most.    *)
Upcoming ==
  LET Makes(c) == IF c.do = "watchers" THEN Cardinality(Accounts)
                  ELSE IF c.do \in {"insert", "merge", "mention"} THEN 1 ELSE 0
      Pending(w) == FoldLeft(LAMBDA n, c : n + Makes(c), 0, script[w])
  IN FoldLeft(LAMBDA n, w : n + Pending(w), 0, SetToSeq(Workers))

Receive(w, r) ==
  /\ script[w] = <<>> /\ served < MaxRequests
  /\ r.op \in {"read", "remove"} => r.n \in DOMAIN notice
  /\ r.op \in Events => Len(notice) + Upcoming < MaxNotices
  /\ served' = served + 1
  /\ script' = [script EXCEPT ![w] = Calls(r)]
  /\ UNCHANGED <<notice, counters, watching, readers, owed>>

-----------------------------------------------------------------------------
(* The pusher's steps.                                                     *)

HasAccess(a, p) == a \in readers[p]

(* A mentioned account without access is passed over.                      *)
Mention(w) ==
  /\ Ready(w, "mention")
  /\ LET c == Now(w)
     IN IF HasAccess(c.to, c.item)
          THEN LET s == script[w] IN script' = [script EXCEPT ![w] =
                 <<Add("mention", c.to, c.item, c.by)>>
                   \o Tail([s EXCEPT ![Len(s)].by.to = @ \cup {c.to}])]
          ELSE Proceed(w)
  /\ UNCHANGED <<notice, counters, watching, readers, owed, served>>

(* GetPostWatchers.                                                        *)
AskWatchers(w) ==
  /\ Ready(w, "watchers")
  /\ LET r == Now(w).by
     IN Become(w, ForEach(watching[r.item],
                    LAMBDA a : Command("watcher", "comment", a, r.item,
                                 [who |-> r.who, told |-> a \in r.to])))
  /\ UNCHANGED <<notice, counters, watching, readers, owed, served>>

(* A watcher is told, unless it is the commenter or was mentioned; one who *)
(* has lost access watches no longer.                                      *)
Watcher(w) ==
  /\ Ready(w, "watcher")
  /\ LET c == Now(w)
     IN /\ watching' = IF HasAccess(c.to, c.item) THEN watching
                       ELSE [watching EXCEPT ![c.item] = @ \ {c.to}]
        /\ IF HasAccess(c.to, c.item) /\ c.to # c.by.who /\ ~c.by.told
             THEN /\ Become(w, <<Merge("comment", c.to, c.item, c.by.who)>>)
                  /\ owed' = owed \cup {<<c.to, c.item, c.by.who>>}
             ELSE Proceed(w) /\ UNCHANGED owed
  /\ UNCHANGED <<notice, counters, readers, served>>

(* Mutant: a notification that was read will do.                           *)
MatchesRead(n, c) ==
  /\ n.kind = c.kind /\ n.item = c.item /\ ~n.removed
  /\ c.kind = "settings" \/ n.to = c.to

(* What is added to: an unread notification of the same account about the  *)
(* same post or task; of settings, of any account about the same place.    *)
Matches(n, c) ==
  /\ n.kind = c.kind /\ n.item = c.item /\ ~n.read /\ ~n.removed
  /\ c.kind = "settings" \/ n.to = c.to

AddToNotice(w) ==
  /\ Ready(w, "merge")
  /\ LET c == Now(w)
         same == {i \in DOMAIN notice : Matches(notice[i], c)}
     IN IF same = {}
          THEN /\ Become(w, <<Add(c.kind, c.to, c.item, c.by)>>)
               /\ UNCHANGED notice
          ELSE /\ \E i \in same : notice' = [notice EXCEPT ![i].by =
                    IF c.kind = "settings" THEN @ ELSE @ \cup {c.by}]
               /\ Proceed(w)
  /\ UNCHANGED <<counters, watching, readers, owed, served>>

Insert(w) ==
  /\ Ready(w, "insert")
  /\ LET c == Now(w)
     IN /\ notice' = Append(notice, [kind |-> c.kind, to |-> c.to,
             item |-> c.item, by |-> {c.by}, read |-> FALSE,
             removed |-> FALSE])
        /\ Become(w, <<Command("count", Nil, c.to, Nil, Nil)>>)
  /\ UNCHANGED <<counters, watching, readers, owed, served>>

(* Mutant: the counters of the handler's copy are written back.            *)
CountFromCopy(w) ==
  /\ Ready(w, "count")
  /\ LET c == Now(w)
     IN IF c.to = Nil THEN Proceed(w) /\ UNCHANGED counters
        ELSE IF c.by = Nil
          THEN /\ Become(w, <<[c EXCEPT !.by = counters[c.to]]>>)
               /\ UNCHANGED counters
          ELSE /\ counters' = [counters EXCEPT ![c.to] =
                    [total |-> c.by.total + 1, unread |-> c.by.unread + 1]]
               /\ Proceed(w)
  /\ UNCHANGED <<notice, watching, readers, owed, served>>

(* incrementCounter, of an account that exists.                            *)
IncrementCounter(w) ==
  /\ Ready(w, "count")
  /\ LET a == Now(w).to
     IN counters' = IF a = Nil THEN counters
                    ELSE [counters EXCEPT ![a].total = @ + 1,
                                          ![a].unread = @ + 1]
  /\ Proceed(w)
  /\ UNCHANGED <<notice, watching, readers, owed, served>>

-----------------------------------------------------------------------------
(* The notification service.                                               *)

Marked(ns) == [i \in DOMAIN notice |->
                 IF i \in ns THEN [notice[i] EXCEPT !.read = TRUE]
                 ELSE notice[i]]

Settled(ns) ==
  {o \in owed : \A i \in ns : notice[i].to # o[1] \/ notice[i].item # o[2]}

(* mark_as_read of one or all, mark_as_read_by_post and reading a post.    *)
MarkAsRead(w) ==
  /\ Ready(w, "read") \/ Ready(w, "read_all") \/ Ready(w, "read_post")
  /\ LET c == Now(w)
         ns == {i \in DOMAIN notice :
                  /\ notice[i].to = c.by
                  /\ c.do = "read" => i = c.to
                  /\ c.do = "read_post" => notice[i].item = c.item}
     IN notice' = Marked(ns) /\ owed' = Settled(ns)
  /\ Proceed(w)
  /\ UNCHANGED <<counters, watching, readers, served>>

(* Mutant: a removed notification is counted no longer, each time.         *)
RemoveUncounts(w) ==
  /\ Ready(w, "remove")
  /\ LET i == Now(w).to
         a == Now(w).by
         own == {i} \cap {j \in DOMAIN notice : notice[j].to = a}
     IN IF own = {} THEN UNCHANGED <<notice, counters, owed>>
        ELSE /\ notice' = [notice EXCEPT ![i].removed = TRUE]
             /\ counters' = [counters EXCEPT ![a].unread = @ - 1]
             /\ owed' = Settled(own)
  /\ Proceed(w)
  /\ UNCHANGED <<watching, readers, served>>

RemoveNotice(w) ==
  /\ Ready(w, "remove")
  /\ LET i == Now(w).to
         own == {i} \cap {j \in DOMAIN notice : notice[j].to = Now(w).by}
     IN /\ notice' = IF own = {} THEN notice
                     ELSE [notice EXCEPT ![i].removed = TRUE]
        /\ owed' = Settled(own)
  /\ Proceed(w)
  /\ UNCHANGED <<counters, watching, readers, served>>

(* reset_counter, the only one that lowers it: reading does not.           *)
ResetCounter(w) ==
  /\ Ready(w, "reset")
  /\ counters' = [counters EXCEPT ![Now(w).by].unread = 0]
  /\ Proceed(w)
  /\ UNCHANGED <<notice, watching, readers, owed, served>>

(* Someone leaves the places of a post.                                    *)
Leave(w) ==
  /\ Ready(w, "leave")
  /\ readers' = [readers EXCEPT ![Now(w).item] = @ \ {Now(w).by}]
  /\ Proceed(w)
  /\ UNCHANGED <<notice, counters, watching, owed, served>>

Work(w) ==
  \/ Mention(w) \/ AskWatchers(w) \/ Watcher(w) \/ AddToNotice(w)
  \/ Insert(w) \/ IncrementCounter(w) \/ MarkAsRead(w) \/ RemoveNotice(w)
  \/ ResetCounter(w) \/ Leave(w)

Next == \E w \in Workers : (\E r \in Requests : Receive(w, r)) \/ Work(w)

Quiet == \A w \in Workers : script[w] = <<>>
Stop == Quiet /\ UNCHANGED vars

Spec == Init /\ [][Next \/ Stop]_vars

-----------------------------------------------------------------------------
(* Properties.                                                             *)

TypeOK ==
  /\ notice \in Seq(NoticeDocs)
  /\ counters \in [Accounts -> [total : Nat, unread : Nat]]
  /\ watching \in [Posts -> SUBSET Accounts]
  /\ readers \in [Posts -> SUBSET Accounts]
  /\ script \in [Workers -> Seq(Commands)]

To(a) == {i \in DOMAIN notice : notice[i].to = a}

(* However events are handled side by side, once they are the counters of  *)
(* an account are those of its notifications: it has been counted for      *)
(* every one that was made, and for none that another was added to.        *)
NoticesCounted ==
  Quiet => \A a \in Accounts : counters[a].total = Cardinality(To(a))

(* Whoever watches a post and has not read its notifications since finds,  *)
(* in one that is neither read nor removed, everyone who commented,        *)
(* however comments and reading interleave.                                *)
CommentersNamed ==
  Quiet => \A o \in owed :
    \E i \in To(o[1]) :
      /\ notice[i].kind = "comment" /\ notice[i].item = o[2]
      /\ o[3] \in notice[i].by /\ ~notice[i].read /\ ~notice[i].removed
=============================================================================
