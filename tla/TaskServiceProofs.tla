-------------------------- MODULE TaskServiceProofs --------------------------
(***************************************************************************)
(* What TaskService keeps for any accounts, workers, requests and number   *)
(* of requests.                                                            *)
(***************************************************************************)
EXTENDS TaskService, FiniteSetTheorems, TLAPS

(* A list of accounts has a length.                                        *)
LEMMA ListLenType ==
  ASSUME NEW list \in Lists
  PROVE  ListLen(list) \in Nat
<1>1. list.ids \subseteq Accounts /\ list.again \subseteq Accounts
  BY DEF Lists
<1>2. IsFiniteSet(list.ids) /\ IsFiniteSet(list.again)
  BY <1>1, FS_Subset, AccountsAssumption
<1> QED
  BY <1>2, FS_CardinalityType DEF ListLen

(* Leaving out accounts leaves a list.                                     *)
LEMMA WithoutType ==
  ASSUME NEW list \in Lists, NEW S
  PROVE  Without(list, S) \in Lists
  BY DEF Without, Lists

(* A request in service has the arguments its type says.                   *)
LEMMA RequestFields ==
  ASSUME NEW r \in Requests
  PROVE  /\ r.op \in Ops /\ r.who \in Accounts /\ r.list \in Lists
         /\ r.todo \in Nat /\ r.txt \in Texts /\ r.status \in Statuses
         /\ r.status \in Settable
  BY RequestsAssumption DEF RequestType, Settable, Statuses

-----------------------------------------------------------------------------
(* Type correctness.                                                       *)

(* Changing one role, the members and a counter, or the to-dos, of a task. *)
LEMMA RoleTyped ==
  ASSUME NEW t \in Tasks, NEW S \in SUBSET Accounts,
         NEW M \in SUBSET (Accounts \cup {NoAccount}), NEW n \in Int
  PROVE  /\ [t EXCEPT !.watchers = S, !.members = M, !.nWatch = n] \in Tasks
         /\ [t EXCEPT !.editors = S, !.members = M, !.nEdit = n] \in Tasks
         /\ [t EXCEPT !.candidates = S, !.members = M, !.nCand = n] \in Tasks
         /\ [t EXCEPT !.candidates = S, !.members = M, !.nWatch = n] \in Tasks
  BY DEF Tasks

LEMMA RejectTyped ==
  ASSUME NEW t \in Tasks, NEW S \in SUBSET Accounts, NEW n \in Int,
         NEW status \in Statuses
  PROVE  [t EXCEPT !.candidates = S, !.nCand = n, !.status = status] \in Tasks
  BY DEF Tasks

LEMMA UnassignTyped ==
  ASSUME NEW t \in Tasks, NEW S \in SUBSET Accounts, NEW n \in Int
  PROVE  [t EXCEPT !.assignee = NoAccount, !.status = "NotAssigned",
                   !.candidates = S, !.nCand = n] \in Tasks
  BY DEF Tasks, Statuses

LEMMA TodosTyped ==
  ASSUME NEW t \in Tasks, NEW T \in SUBSET Todos, NEW n \in Nat
  PROVE  [t EXCEPT !.todos = T, !.nid = n] \in Tasks
  BY DEF Tasks

LEMMA InitTypeOK == Init => TypeOK
  BY RequestsAssumption, CreationsAssumption DEF Init, TypeOK

(* A command that writes a task keeps the types.                           *)
LEMMA UpdateTypeOK ==
  ASSUME TypeOK, NEW w \in Workers, pc[w] = "act", NEW matches, NEW new,
         matches => new \in Tasks, Update(w, matches, new)
  PROVE  TypeOK'
<1>1. doc' \in Tasks
  BY DEF Update, TypeOK
<1> QED
  BY <1>1 DEF Update, TypeOK

(* A command runs for a request, on a copy of a task.                      *)
LEMMA CommandHas ==
  ASSUME TypeOK, NEW w \in Workers, Command(w)
  PROVE  pc[w] = "act" /\ req[w] \in Requests /\ copy[w] \in Tasks
<1>1. pc[w] = "act"
  BY DEF Command, AddComment, AddToDo, RemoveToDo, UpdateTodo, AddWatchers,
         AddEditors, AddCandidates, RemoveWatchers, RemoveEditors,
         RemoveCandidates, Assign, Unassign, UpdateMemberIDs, Accept, Reject,
         Resign, SetStatus, InProgress, RemoveTaskReread, RemoveTask, Handling
<1> QED
  BY <1>1 DEF TypeOK

(* Whatever a handler writes is a task.                                    *)
LEMMA CommandTypeOK ==
  ASSUME TypeOK, NEW w \in Workers, Command(w)
  PROVE  TypeOK'
<1> DEFINE r == req[w]
           c == copy[w]
<1>0. doc \in Tasks
  BY DEF TypeOK
<1>1. pc[w] = "act"
  BY CommandHas
<1>2. r \in Requests /\ c \in Tasks
  BY <1>1 DEF TypeOK
<1>3. /\ r.op \in Ops /\ r.who \in Accounts /\ r.list \in Lists
      /\ r.todo \in Nat /\ r.txt \in Texts /\ r.status \in Statuses
  BY <1>2, RequestFields
<1>4. ListLen(r.list) \in Nat
  BY <1>3, ListLenType
<1>5. \A S : Without(r.list, S) \in Lists /\ ListLen(Without(r.list, S)) \in Nat
  BY <1>3, WithoutType, ListLenType
<1>6. \A l \in Lists : l.ids \in SUBSET Accounts
  BY DEF Lists
<1>7. /\ doc.candidates \in SUBSET Accounts
      /\ doc.watchers \in SUBSET Accounts
      /\ doc.editors \in SUBSET Accounts
      /\ doc.members \in SUBSET (Accounts \cup {NoAccount})
  BY <1>0 DEF Tasks
<1>10. /\ doc.nCand \in Int /\ doc.nWatch \in Int /\ doc.nEdit \in Int
       /\ doc.nid \in Nat /\ doc.status \in Statuses
  BY <1>0 DEF Tasks
<1>11. \A n \in Nat :
         /\ doc.nCand + n \in Int /\ doc.nWatch + n \in Int
         /\ doc.nEdit + n \in Int /\ doc.nCand - n \in Int
         /\ doc.nWatch - n \in Int /\ doc.nEdit - n \in Int
  BY <1>10
<1>8. \A S \in SUBSET Accounts :
        /\ doc.candidates \cup S \in SUBSET Accounts
        /\ doc.watchers \cup S \in SUBSET Accounts
        /\ doc.editors \cup S \in SUBSET Accounts
        /\ doc.members \cup S \in SUBSET (Accounts \cup {NoAccount})
  BY <1>7
<1>9. \A S : /\ doc.candidates \ S \in SUBSET Accounts
             /\ doc.watchers \ S \in SUBSET Accounts
             /\ doc.editors \ S \in SUBSET Accounts
             /\ doc.members \ S \in SUBSET (Accounts \cup {NoAccount})
  BY <1>7
<1> HIDE DEF r, c
<1>a. CASE AddComment(w)
  BY <1>a, <1>0, <1>1, UpdateTypeOK DEF AddComment
<1>b. CASE AddToDo(w)
  <2> DEFINE new == [id |-> c.nid, txt |-> r.txt, added |-> TRUE]
  <2>1. new \in Todos
    BY <1>2, <1>3 DEF Tasks, Todos
  <2>2. c.todos \cup {new} \in SUBSET Todos
    BY <1>2, <2>1 DEF Tasks
  <2>3. [doc EXCEPT !.todos = c.todos \cup {new},
                    !.nid = @ + 1] \in Tasks
    <3>1. doc.nid + 1 \in Nat
      BY <1>10
    <3> QED
      BY <1>0, <2>2, <3>1, TodosTyped
  <2> QED
    BY <1>b, <1>1, <2>3, UpdateTypeOK DEF AddToDo, r, c
<1>c. CASE RemoveToDo(w)
  <2>1. [doc EXCEPT !.todos = {t \in @ : t.id # r.todo}] \in Tasks
    BY <1>0 DEF Tasks
  <2> QED
    BY <1>c, <1>1, <2>1, UpdateTypeOK DEF RemoveToDo, r
<1>d. CASE UpdateTodo(w)
  <2> DEFINE Renamed(t) == [t EXCEPT !.txt = IF FirstNamed(t, r.todo)
                                               THEN r.txt ELSE @]
  <2>1. \A t \in Todos : Renamed(t) \in Todos
    BY <1>3 DEF Todos
  <2>2. doc.todos \subseteq Todos
    BY <1>0 DEF Tasks
  <2>3. {Renamed(t) : t \in doc.todos} \in SUBSET Todos
    BY <2>1, <2>2
  <2>4. [doc EXCEPT !.todos = {Renamed(t) : t \in @}] \in Tasks
    BY <1>0, <2>3 DEF Tasks
  <2> QED
    BY <1>d, <1>1, <2>4, UpdateTypeOK DEF UpdateTodo, r
<1>e. CASE AddWatchers(w)
  <2> DEFINE list == Without(r.list, c.watchers)
  <2>1. list.ids \in SUBSET Accounts /\ ListLen(list) \in Nat
    BY <1>5, <1>6
  <2> HIDE DEF list
  <2>2. [doc EXCEPT !.watchers = @ \cup list.ids, !.members = @ \cup list.ids,
                    !.nWatch = @ + ListLen(list)] \in Tasks
    BY <1>0, <1>8, <1>11, <2>1, RoleTyped
  <2> QED
    BY <1>e, <1>1, <2>2, UpdateTypeOK DEF AddWatchers, r, c, list
<1>f. CASE AddEditors(w)
  <2> DEFINE list == Without(r.list, c.editors)
  <2>1. list.ids \in SUBSET Accounts /\ ListLen(list) \in Nat
    BY <1>5, <1>6
  <2> HIDE DEF list
  <2>2. [doc EXCEPT !.editors = @ \cup list.ids, !.members = @ \cup list.ids,
                    !.nEdit = @ + ListLen(list)] \in Tasks
    BY <1>0, <1>8, <1>11, <2>1, RoleTyped
  <2> QED
    BY <1>f, <1>1, <2>2, UpdateTypeOK DEF AddEditors, r, c, list
<1>g. CASE AddCandidates(w)
  <2> DEFINE list == Without(r.list, c.candidates)
  <2>1. list.ids \in SUBSET Accounts /\ ListLen(list) \in Nat
    BY <1>5, <1>6
  <2> HIDE DEF list
  <2>2. [doc EXCEPT !.candidates = @ \cup list.ids, !.members = @ \cup list.ids,
                    !.nWatch = @ + ListLen(list)] \in Tasks
    BY <1>0, <1>8, <1>11, <2>1, RoleTyped
  <2> QED
    BY <1>g, <1>1, <2>2, UpdateTypeOK DEF AddCandidates, r, c, list
<1>h. CASE RemoveWatchers(w)
  <2>1. [doc EXCEPT !.watchers = @ \ r.list.ids,
                    !.members = @ \ (r.list.ids \ c.editors),
                    !.nWatch = @ - ListLen(r.list)] \in Tasks
    BY <1>0, <1>4, <1>9, <1>11, RoleTyped
  <2> QED
    BY <1>h, <1>1, <2>1, UpdateTypeOK DEF RemoveWatchers, r, c
<1>i. CASE RemoveEditors(w)
  <2>1. [doc EXCEPT !.editors = @ \ r.list.ids,
                    !.members = @ \ (r.list.ids \ c.watchers),
                    !.nEdit = @ - ListLen(r.list)] \in Tasks
    BY <1>0, <1>4, <1>9, <1>11, RoleTyped
  <2> QED
    BY <1>i, <1>1, <2>1, UpdateTypeOK DEF RemoveEditors, r, c
<1>j. CASE RemoveCandidates(w)
  <2>1. [doc EXCEPT !.candidates = @ \ r.list.ids,
                    !.members = @ \ r.list.ids,
                    !.nCand = @ - ListLen(r.list)] \in Tasks
    BY <1>0, <1>4, <1>9, <1>11, RoleTyped
  <2> QED
    BY <1>j, <1>1, <2>1, UpdateTypeOK DEF RemoveCandidates, r
<1>k. CASE Assign(w)
  <2>1. PICK a \in r.list.ids :
          Update(w, TRUE, [doc EXCEPT !.assignee = a, !.status = "Assigned"])
    BY <1>k DEF Assign, r
  <2>2. a \in Accounts
    BY <1>3, <1>6
  <2>3. [doc EXCEPT !.assignee = a, !.status = "Assigned"] \in Tasks
    BY <1>0, <2>2 DEF Tasks, Statuses
  <2> QED
    BY <1>1, <2>1, <2>3, UpdateTypeOK
<1>l. CASE Unassign(w)
  <2>1. [doc EXCEPT !.assignee = NoAccount, !.status = "NotAssigned",
                    !.candidates = r.list.ids,
                    !.nCand = ListLen(r.list)] \in Tasks
    <3>1. r.list.ids \in SUBSET Accounts /\ ListLen(r.list) \in Int
      BY <1>3, <1>4, <1>6
    <3> QED
      BY <1>0, <3>1, UnassignTyped
  <2> QED
    BY <1>l, <1>1, <2>1, UpdateTypeOK DEF Unassign, r
<1>m. CASE UpdateMemberIDs(w)
  <2>1. doc' \in Tasks
    BY <1>m, <1>0, <1>2, AccountsAssumption DEF UpdateMemberIDs, Tasks, c
  <2> QED
    BY <1>m, <2>1 DEF UpdateMemberIDs, Reply, TypeOK
<1>n. CASE Accept(w)
  <2>1. [doc EXCEPT !.assignee = r.who, !.status = "Assigned"] \in Tasks
    BY <1>0, <1>3 DEF Tasks, Statuses
  <2> QED
    BY <1>n, <1>1, <2>1, UpdateTypeOK DEF Accept, r
<1>o. CASE Reject(w)
  <2>1. [doc EXCEPT !.candidates = @ \ {r.who}, !.nCand = @ - 1,
                    !.status = IF c.nCand > 1 THEN @ ELSE "Rejected"] \in Tasks
    <3>1. (IF c.nCand > 1 THEN doc.status ELSE "Rejected") \in Statuses
      BY <1>10 DEF Statuses
    <3>2. doc.nCand - 1 \in Int
      BY <1>10
    <3> QED
      BY <1>0, <1>9, <3>1, <3>2, RejectTyped
  <2> QED
    BY <1>o, <1>1, <2>1, UpdateTypeOK DEF Reject, r, c
<1>p. CASE Resign(w)
  <2>1. [doc EXCEPT !.assignee = NoAccount, !.status = "Rejected"] \in Tasks
    BY <1>0 DEF Tasks, Statuses
  <2> QED
    BY <1>p, <1>1, <2>1, UpdateTypeOK DEF Resign
<1>q. CASE SetStatus(w)
  <2>1. [doc EXCEPT !.status = r.status] \in Tasks
    BY <1>0, <1>3 DEF Tasks
  <2> QED
    BY <1>q, <1>1, <2>1, UpdateTypeOK DEF SetStatus, UpdateStatus, r
<1>r. CASE InProgress(w)
  <2>1. [doc EXCEPT !.status = IF c.assignee # NoAccount
                                 THEN "Assigned" ELSE "NotAssigned"] \in Tasks
    BY <1>0 DEF Tasks, Statuses
  <2> QED
    BY <1>r, <1>1, <2>1, UpdateTypeOK DEF InProgress, UpdateStatus, c
<1>s. CASE RemoveTaskReread(w)
  BY <1>s, <1>1 DEF RemoveTaskReread, TypeOK
<1>t. CASE RemoveTask(w)
  <2>1. [doc EXCEPT !.removed = TRUE] \in Tasks
    BY <1>0 DEF Tasks
  <2> QED
    BY <1>t, <1>1, <2>1, UpdateTypeOK DEF RemoveTask
<1> QED
  BY <1>a, <1>b, <1>c, <1>d, <1>e, <1>f, <1>g, <1>h, <1>i, <1>j, <1>k, <1>l,
     <1>m, <1>n, <1>o, <1>p, <1>q, <1>r, <1>s, <1>t DEF Command

(* Reading the task, refusing a request and clearing the cache keep the    *)
(* types.                                                                  *)
LEMMA OtherTypeOK ==
  ASSUME TypeOK, NEW w \in Workers,
         Receive(w) \/ Read(w) \/ Refuse(w) \/ Drop(w)
  PROVE  TypeOK'
<1>a. CASE Receive(w)
  BY <1>a, CreationsAssumption DEF Receive, Lookup, TypeOK
<1>b. CASE Find(w)
  BY <1>b DEF Find, TypeOK
<1>c. CASE Fill(w)
  BY <1>c DEF Fill, TypeOK
<1>d. CASE Unavailable(w)
  BY <1>d DEF Unavailable, Reply, TypeOK
<1>e. CASE Vanished(w)
  BY <1>e DEF Vanished, Reply, TypeOK
<1>f. CASE Reread(w)
  BY <1>f DEF Reread, Lookup, TypeOK
<1>g. CASE Refuse(w)
  BY <1>g DEF Refuse, Reply, TypeOK
<1>h. CASE Drop(w)
  BY <1>h DEF Drop, Reply, TypeOK
<1> QED
  BY <1>a, <1>b, <1>c, <1>d, <1>e, <1>f, <1>g, <1>h DEF Read

LEMMA StepTypeOK == TypeOK /\ [Next]_vars => TypeOK'
<1> SUFFICES ASSUME TypeOK, [Next]_vars
             PROVE  TypeOK'
  OBVIOUS
<1>1. ASSUME NEW w \in Workers, Receive(w) \/ Serve(w)
      PROVE  TypeOK'
  BY <1>1, CommandTypeOK, OtherTypeOK DEF Serve
<1>2. CASE Expire
  BY <1>2 DEF Expire, TypeOK
<1>3. CASE Quiet \/ UNCHANGED vars
  BY <1>3 DEF Quiet, vars, TypeOK
<1> QED
  BY <1>1, <1>2, <1>3 DEF Next

(* The document, the cached value and every copy a handler holds are tasks *)
(* at all times: readFromCache never hands a handler anything else.        *)
THEOREM TypeCorrect == Spec => []TypeOK
  BY InitTypeOK, StepTypeOK, PTL DEF Spec

-----------------------------------------------------------------------------
(* To-do ids.                                                              *)

(* A list of items where no two that were added share a number, nor two    *)
(* that were created, and the added ones are numbered below `n'.           *)
Numbered(todos, n) ==
  /\ \A s, t \in todos : s.id = t.id /\ s.added = t.added => s = t
  /\ \A t \in todos : t.added => t.id < n

(* The inductive invariant: every version of the task, stored, cached or   *)
(* held, numbers its added items below its own todo_nid, and no version's  *)
(* todo_nid is ahead of the document's.  An old copy therefore writes back *)
(* items, and a new number, that are below the todo_nid it leaves.         *)
Behind(t) == t # NoTask => Numbered(t.todos, t.nid) /\ t.nid <= doc.nid

TodoInv ==
  /\ Numbered(doc.todos, doc.nid)
  /\ Behind(cache)
  /\ \A w \in Workers : Behind(copy[w])

(* create gives each item it stores a number of its own, whether or not    *)
(* every item of the request decodes: CreatedSound.                        *)
CreationsNumbered == \A t \in Creations : Numbered(t.todos, t.nid)

(* A step that changes neither the items nor todo_nid, and reads only what *)
(* is already there, keeps the invariant.                                  *)
LEMMA SameTodosInv ==
  ASSUME TypeOK, TodoInv, doc'.todos = doc.todos, doc'.nid = doc.nid,
         cache' = cache \/ cache' = NoTask
           \/ \E w \in Workers : cache' = copy[w],
         \A w \in Workers :
           \/ copy'[w] = copy[w] \/ copy'[w] = NoTask
           \/ copy'[w] = cache \/ copy'[w] = doc
  PROVE  TodoInv'
<1>2. Numbered(doc.todos, doc.nid)'
  BY DEF TodoInv, Numbered
<1>3. Behind(cache)'
  BY DEF TodoInv, Behind
<1>4. ASSUME NEW w \in Workers
      PROVE  Behind(copy[w])'
  <2>1. doc.nid <= doc.nid
    BY DEF TypeOK, Tasks
  <2>2. Behind(copy[w]) /\ Behind(cache) /\ Behind(doc)
    BY <2>1 DEF TodoInv, Behind
  <2> QED
    BY <2>2 DEF Behind
<1> QED
  BY <1>2, <1>3, <1>4 DEF TodoInv

(* A command that leaves the items alone.                                  *)
LEMMA OtherCommandInv ==
  ASSUME TypeOK, TodoInv, NEW w \in Workers, Command(w),
         ~AddToDo(w), ~RemoveToDo(w), ~UpdateTodo(w)
  PROVE  TodoInv'
<1>0. doc \in Tasks
  BY DEF TypeOK
<1>1. doc'.todos = doc.todos /\ doc'.nid = doc.nid
  BY <1>0 DEF Command, Update, AddComment, AddWatchers, AddEditors,
     AddCandidates, RemoveWatchers, RemoveEditors, RemoveCandidates, Assign,
     Unassign, UpdateMemberIDs, Accept, Reject, Resign, SetStatus, InProgress,
     UpdateStatus, RemoveTaskReread, RemoveTask, Tasks
<1>2. /\ cache' = cache
      /\ copy' = copy \/ copy' = [copy EXCEPT ![w] = NoTask]
  BY DEF Command, Update, AddComment, AddWatchers, AddEditors,
     AddCandidates, RemoveWatchers, RemoveEditors, RemoveCandidates, Assign,
     Unassign, UpdateMemberIDs, Accept, Reject, Resign, SetStatus, InProgress,
     UpdateStatus, RemoveTaskReread, RemoveTask, Reply
<1>3. \A v \in Workers : copy'[v] = copy[v] \/ copy'[v] = NoTask
  BY <1>2 DEF TypeOK
<1> QED
  BY <1>1, <1>2, <1>3, SameTodosInv

(* A command that writes the items: the copies are unchanged, todo_nid     *)
(* does not go back, and the new items are numbered below it.              *)
LEMMA TodosWrittenInv ==
  ASSUME TypeOK, TodoInv, UNCHANGED <<cache, copy>>,
         doc.nid \in Nat, doc'.nid \in Nat, doc.nid <= doc'.nid,
         Numbered(doc'.todos, doc'.nid)
  PROVE  TodoInv'
<1>1. ASSUME NEW t \in Tasks \cup {NoTask}, Behind(t)
      PROVE  t # NoTask => Numbered(t.todos, t.nid) /\ t.nid <= doc'.nid
  <2> SUFFICES ASSUME t # NoTask
               PROVE  Numbered(t.todos, t.nid) /\ t.nid <= doc'.nid
    OBVIOUS
  <2>1. t.nid \in Nat
    BY <1>1 DEF Tasks
  <2> QED
    BY <1>1, <2>1 DEF Behind
<1>2. Behind(cache)'
  BY <1>1 DEF TodoInv, TypeOK, Behind
<1>3. ASSUME NEW w \in Workers
      PROVE  Behind(copy[w])'
  <2>1. copy[w] \in Tasks \cup {NoTask} /\ Behind(copy[w])
    BY <1>3 DEF TodoInv, TypeOK
  <2> QED
    BY <1>1, <2>1 DEF Behind
<1>4. Numbered(doc.todos, doc.nid)'
  BY DEF Numbered
<1> QED
  BY <1>2, <1>3, <1>4 DEF TodoInv

LEMMA CommandTodoInv ==
  ASSUME TypeOK, TodoInv, NEW w \in Workers, Command(w)
  PROVE  TodoInv'
<1>0. doc \in Tasks /\ doc.nid \in Nat /\ doc.todos \subseteq Todos
  BY DEF TypeOK, Tasks
<1>a. CASE AddToDo(w)
  <2> DEFINE c == copy[w]
             todo == [id |-> c.nid, txt |-> req[w].txt, added |-> TRUE]
  <2>1. c \in Tasks /\ c # NoTask
    BY <1>a, CreationsAssumption DEF AddToDo, Handling, TypeOK
  <2>2. c.nid \in Nat /\ c.todos \subseteq Todos
    BY <2>1 DEF Tasks
  <2>3. Numbered(c.todos, c.nid) /\ c.nid <= doc.nid
    BY <2>1 DEF TodoInv, Behind
  <2>4. /\ doc'.todos = c.todos \cup {todo}
        /\ doc'.nid = doc.nid + 1
        /\ UNCHANGED <<cache, copy>>
    BY <1>a, <1>0 DEF AddToDo, Update, Tasks
  <2>5. ASSUME NEW s \in c.todos \cup {todo}
        PROVE  s.added => /\ s.id \in Nat
                          /\ s.id <= c.nid
                          /\ (s.id = c.nid => s = todo)
    <3>1. CASE s \in c.todos
      BY <3>1, <2>2, <2>3 DEF Numbered, Todos
    <3>2. CASE s = todo
      BY <3>2, <2>2
    <3> QED
      BY <2>5, <3>1, <3>2
  <2>6. \A s, t \in c.todos \cup {todo} :
          s.id = t.id /\ s.added = t.added => s = t
    BY <2>3, <2>5 DEF Numbered
  <2>7. \A s \in c.todos \cup {todo} : s.added => s.id < doc.nid + 1
    BY <2>2, <2>3, <2>5, <1>0
  <2>8. Numbered(doc'.todos, doc'.nid)
    BY <2>4, <2>6, <2>7 DEF Numbered
  <2>9. doc'.nid \in Nat /\ doc.nid <= doc'.nid
    BY <2>4, <1>0
  <2> QED
    BY <2>4, <2>8, <2>9, <1>0, TodosWrittenInv
<1>b. CASE RemoveToDo(w)
  <2>1. /\ doc'.todos \subseteq doc.todos
        /\ doc'.nid = doc.nid
        /\ UNCHANGED <<cache, copy>>
    BY <1>b, <1>0 DEF RemoveToDo, Update, Tasks
  <2>2. Numbered(doc'.todos, doc'.nid)
    BY <2>1 DEF TodoInv, Numbered
  <2> QED
    BY <2>1, <2>2, <1>0, TodosWrittenInv
<1>c. CASE UpdateTodo(w)
  <2> DEFINE Renamed(t) == [t EXCEPT !.txt = IF FirstNamed(t, req[w].todo)
                                               THEN req[w].txt ELSE @]
  <2>1. /\ \/ doc'.todos = doc.todos
           \/ doc'.todos = {Renamed(t) : t \in doc.todos}
        /\ doc'.nid = doc.nid
        /\ UNCHANGED <<cache, copy>>
    BY <1>c, <1>0 DEF UpdateTodo, Update, Tasks
  <2>2. \A t \in doc.todos : Renamed(t).id = t.id /\ Renamed(t).added = t.added
    BY <1>0 DEF Todos
  <2> HIDE DEF Renamed
  <2>3. Numbered({Renamed(t) : t \in doc.todos}, doc.nid)
    BY <2>2 DEF TodoInv, Numbered
  <2>4. Numbered(doc'.todos, doc'.nid)
    BY <2>1, <2>3 DEF TodoInv
  <2> QED
    BY <2>1, <2>4, <1>0, TodosWrittenInv
<1> QED
  BY <1>a, <1>b, <1>c, OtherCommandInv

LEMMA StepTodoInv == TypeOK /\ TodoInv /\ [Next]_vars => TodoInv'
<1> SUFFICES ASSUME TypeOK, TodoInv, [Next]_vars
             PROVE  TodoInv'
  OBVIOUS
<1>1. ASSUME NEW w \in Workers, Command(w)
      PROVE  TodoInv'
  BY <1>1, CommandTodoInv
<1>2. ASSUME NEW w \in Workers,
             Receive(w) \/ Read(w) \/ Refuse(w) \/ Drop(w)
      PROVE  TodoInv'
  <2>1. doc' = doc
    BY <1>2 DEF Receive, Read, Find, Fill, Unavailable, Vanished, Reread,
                Refuse, Drop
  <2>2. cache' = cache \/ cache' = NoTask \/ cache' = copy[w]
    BY <1>2 DEF Receive, Read, Find, Fill, Unavailable, Vanished, Reread,
                Refuse, Drop
  <2>3. \/ copy' = copy
        \/ \E t \in {NoTask, cache, doc} : copy' = [copy EXCEPT ![w] = t]
    BY <1>2 DEF Receive, Read, Find, Fill, Unavailable, Vanished, Reread,
                Refuse, Drop, Lookup, Reply
  <2>4. \A v \in Workers :
          \/ copy'[v] = copy[v] \/ copy'[v] = NoTask
          \/ copy'[v] = cache \/ copy'[v] = doc
    BY <2>3 DEF TypeOK
  <2> QED
    BY <2>1, <2>2, <2>4, SameTodosInv
<1>3. CASE Expire \/ Quiet \/ UNCHANGED vars
  <2>1. doc' = doc /\ copy' = copy /\ (cache' = cache \/ cache' = NoTask)
    BY <1>3 DEF Expire, Quiet, vars
  <2> QED
    BY <2>1, SameTodosInv
<1> QED
  BY <1>1, <1>2, <1>3 DEF Next, Serve

LEMMA InitTodoInv == CreationsNumbered /\ Init => TodoInv
  BY DEF CreationsNumbered, Init, TodoInv, Behind

(* Two items that add_todo numbered never share an id, whatever handlers   *)
(* run concurrently on whatever old copies (AddToDo's $set of its copy's   *)
(* list, RemoveToDo, UpdateTodo, and every other command), and neither do  *)
(* two that create numbered.                                               *)
THEOREM TodoIdsStayUnique == CreationsNumbered /\ Spec => []TodoIdsUnique
<1>1. CreationsNumbered /\ Init => TypeOK /\ TodoInv
  BY InitTypeOK, InitTodoInv
<1>2. TypeOK /\ TodoInv /\ [Next]_vars => (TypeOK /\ TodoInv)'
  BY StepTypeOK, StepTodoInv
<1>3. TodoInv => TodoIdsUnique
  BY DEF TodoInv, Numbered, TodoIdsUnique
<1> QED
  BY <1>1, <1>2, <1>3, PTL DEF Spec

-----------------------------------------------------------------------------
(* Counters.                                                               *)

(* What the counters' agreement asks of clients and of create: no list     *)
(* names an account twice, nobody uses add_candidate (which counts with    *)
(* the watchers), and create stored agreeing counters.                     *)
PlainRequests ==
  \A r \in Requests : r.list.again = {} /\ r.op # "add_candidate"

CountersAgree(t) ==
  /\ t.nCand = Cardinality(t.candidates)
  /\ t.nWatch = Cardinality(t.watchers)

CreationsCounted == \A t \in Creations : CountersAgree(t)

(* A list without repetitions is as long as the set it names.              *)
LEMMA PlainListLen ==
  ASSUME NEW list, list.again = {}, IsFiniteSet(list.ids)
  PROVE  ListLen(list) = Cardinality(list.ids)
<1>1. Cardinality(list.ids) \in Nat /\ Cardinality({}) = 0
  BY FS_CardinalityType, FS_EmptySet
<1> QED
  BY <1>1 DEF ListLen

(* Removing listed accounts, adding unlisted ones, removing one.           *)
LEMMA CountRemoved ==
  ASSUME NEW S, IsFiniteSet(S), NEW T \in SUBSET S
  PROVE  Cardinality(S \ T) = Cardinality(S) - Cardinality(T)
<1>1. S \cap T = T
  OBVIOUS
<1> QED
  BY <1>1, FS_Difference

LEMMA CountAdded ==
  ASSUME NEW S, IsFiniteSet(S), NEW T, IsFiniteSet(T), S \cap T = {}
  PROVE  Cardinality(S \cup T) = Cardinality(S) + Cardinality(T)
<1>1. Cardinality(S \cap T) = 0
  BY FS_EmptySet
<1>2. Cardinality(S) \in Nat /\ Cardinality(T) \in Nat
  BY FS_CardinalityType
<1>3. Cardinality(S \cup T)
        = Cardinality(S) + Cardinality(T) - Cardinality(S \cap T)
  BY FS_Union, Zenon
<1> QED
  BY <1>1, <1>2, <1>3

LEMMA CommandCounters ==
  ASSUME PlainRequests, TypeOK, CountersAgree(doc),
         NEW w \in Workers, Command(w)
  PROVE  CountersAgree(doc')
<1> DEFINE r == req[w]
           c == copy[w]
<1>0. doc \in Tasks
  BY DEF TypeOK
<1>1. pc[w] = "act"
  BY CommandHas
<1>2. r \in Requests
  BY <1>1 DEF TypeOK
<1>3. /\ r.list \in Lists /\ r.list.again = {} /\ r.op # "add_candidate"
  BY <1>2, RequestFields DEF PlainRequests
<1>4. \A S \in SUBSET Accounts : IsFiniteSet(S) /\ Cardinality(S) \in Nat
  BY FS_Subset, FS_CardinalityType, AccountsAssumption
<1>5. /\ r.list.ids \in SUBSET Accounts
      /\ ListLen(r.list) = Cardinality(r.list.ids)
  BY <1>3, <1>4, PlainListLen DEF Lists
<1>6. doc.candidates \in SUBSET Accounts /\ doc.watchers \in SUBSET Accounts
  BY <1>0 DEF Tasks
<1>7. /\ doc.nCand = Cardinality(doc.candidates)
      /\ doc.nWatch = Cardinality(doc.watchers)
  BY DEF CountersAgree
<1>a. CASE AddWatchers(w)
  <2> DEFINE list == Without(r.list, c.watchers)
  <2>1. list.ids \in SUBSET Accounts /\ list.again = {}
    BY <1>3, <1>5 DEF Without
  <2>2. ListLen(list) = Cardinality(list.ids)
    BY <2>1, <1>4, PlainListLen
  <2> HIDE DEF list
  <2>3. \/ doc' = doc
        \/ /\ doc.watchers \cap list.ids = {}
           /\ doc'.candidates = doc.candidates /\ doc'.nCand = doc.nCand
           /\ doc'.watchers = doc.watchers \cup list.ids
           /\ doc'.nWatch = doc.nWatch + ListLen(list)
    BY <1>a, <1>0 DEF AddWatchers, Update, Tasks, r, c, list
  <2>4. doc.watchers \cap list.ids = {} =>
          Cardinality(doc.watchers \cup list.ids)
            = Cardinality(doc.watchers) + Cardinality(list.ids)
    BY <1>4, <1>6, <2>1, CountAdded
  <2> QED
    BY <1>7, <2>2, <2>3, <2>4 DEF CountersAgree
<1>b. CASE RemoveWatchers(w)
  <2>1. \/ doc' = doc
        \/ /\ r.list.ids \in SUBSET doc.watchers
           /\ doc'.candidates = doc.candidates /\ doc'.nCand = doc.nCand
           /\ doc'.watchers = doc.watchers \ r.list.ids
           /\ doc'.nWatch = doc.nWatch - ListLen(r.list)
    BY <1>b, <1>0 DEF RemoveWatchers, Update, Tasks
  <2>2. r.list.ids \in SUBSET doc.watchers =>
          Cardinality(doc.watchers \ r.list.ids)
            = Cardinality(doc.watchers) - Cardinality(r.list.ids)
    BY <1>4, <1>6, CountRemoved
  <2> QED
    BY <1>5, <1>7, <2>1, <2>2 DEF CountersAgree
<1>c. CASE RemoveCandidates(w)
  <2>1. \/ doc' = doc
        \/ /\ r.list.ids \in SUBSET doc.candidates
           /\ doc'.watchers = doc.watchers /\ doc'.nWatch = doc.nWatch
           /\ doc'.candidates = doc.candidates \ r.list.ids
           /\ doc'.nCand = doc.nCand - ListLen(r.list)
    BY <1>c, <1>0 DEF RemoveCandidates, Update, Tasks
  <2>2. r.list.ids \in SUBSET doc.candidates =>
          Cardinality(doc.candidates \ r.list.ids)
            = Cardinality(doc.candidates) - Cardinality(r.list.ids)
    BY <1>4, <1>6, CountRemoved
  <2> QED
    BY <1>5, <1>7, <2>1, <2>2 DEF CountersAgree
<1>d. CASE Unassign(w)
  <2>1. /\ doc'.watchers = doc.watchers /\ doc'.nWatch = doc.nWatch
        /\ doc'.candidates = r.list.ids
        /\ doc'.nCand = ListLen(r.list)
    BY <1>d, <1>0 DEF Unassign, Update, Tasks
  <2> QED
    BY <1>5, <1>7, <2>1 DEF CountersAgree
<1>e. CASE Reject(w)
  <2>1. \/ doc' = doc
        \/ /\ r.who \in doc.candidates
           /\ doc'.watchers = doc.watchers /\ doc'.nWatch = doc.nWatch
           /\ doc'.candidates = doc.candidates \ {r.who}
           /\ doc'.nCand = doc.nCand - 1
    BY <1>e, <1>0 DEF Reject, Update, Tasks
  <2>2. r.who \in doc.candidates =>
          Cardinality(doc.candidates \ {r.who}) = Cardinality(doc.candidates) - 1
    BY <1>4, <1>6, FS_RemoveElement
  <2> QED
    BY <1>7, <2>1, <2>2 DEF CountersAgree
<1>f. CASE AddCandidates(w)
  BY <1>f, <1>3 DEF AddCandidates, Handling
<1>g. ASSUME ~AddWatchers(w), ~RemoveWatchers(w), ~RemoveCandidates(w),
             ~Unassign(w), ~Reject(w), ~AddCandidates(w)
      PROVE  CountersAgree(doc')
  <2>1. /\ doc'.candidates = doc.candidates /\ doc'.nCand = doc.nCand
        /\ doc'.watchers = doc.watchers /\ doc'.nWatch = doc.nWatch
    <3>1. CASE AddToDo(w)
      BY <1>0, <3>1 DEF AddToDo, Update, Tasks
    <3>3. CASE RemoveToDo(w)
      BY <1>0, <3>3 DEF RemoveToDo, Update, Tasks
    <3>4. CASE UpdateTodo(w)
      BY <1>0, <3>4 DEF UpdateTodo, Update, Tasks
    <3>2. ASSUME ~AddToDo(w), ~RemoveToDo(w), ~UpdateTodo(w)
          PROVE  /\ doc'.candidates = doc.candidates /\ doc'.nCand = doc.nCand
                 /\ doc'.watchers = doc.watchers /\ doc'.nWatch = doc.nWatch
      BY <1>0, <1>g, <3>2 DEF Command, Update, AddComment, AddEditors,
         RemoveEditors, Assign, UpdateMemberIDs, Accept, Resign, SetStatus,
         InProgress, UpdateStatus, RemoveTaskReread, RemoveTask, Tasks
    <3> QED
      BY <3>1, <3>2, <3>3, <3>4
  <2> QED
    BY <1>7, <2>1 DEF CountersAgree
<1> QED
  BY <1>a, <1>b, <1>c, <1>d, <1>e, <1>f, <1>g

LEMMA CountersStayRight ==
  PlainRequests /\ CreationsCounted /\ Spec
    => [](CandidatesCounted /\ WatchersCounted)
<1> DEFINE Agree == CountersAgree(doc)
<1> SUFFICES ASSUME PlainRequests, CreationsCounted
             PROVE  Spec => [](CandidatesCounted /\ WatchersCounted)
  OBVIOUS
<1>1. Init => TypeOK /\ Agree
  BY InitTypeOK DEF CreationsCounted, Init
<1>2. TypeOK /\ Agree /\ [Next]_vars => TypeOK' /\ Agree'
  <2> SUFFICES ASSUME TypeOK, CountersAgree(doc), [Next]_vars
               PROVE  TypeOK' /\ CountersAgree(doc')
    BY DEF CountersAgree
  <2>1. ASSUME NEW w \in Workers, Command(w)
        PROVE  CountersAgree(doc')
    BY <2>1, CommandCounters
  <2>2. ASSUME ~\E w \in Workers : Command(w)
        PROVE  doc' = doc
    BY <2>2 DEF Next, Serve, Receive, Read, Find, Fill, Unavailable, Vanished,
                Reread, Refuse, Drop, Expire, Quiet, vars
  <2> QED
    BY <2>1, <2>2, StepTypeOK
<1>3. Agree => CandidatesCounted /\ WatchersCounted
  BY DEF CountersAgree, CandidatesCounted, WatchersCounted
<1> QED
  BY <1>1, <1>2, <1>3, PTL DEF Spec

(* counters.candidates counts the candidates, however RemoveCandidates,    *)
(* UpdateAssignee and Reject interleave: their queries ($all, the          *)
(* candidate itself) make each $inc match what the same update moves.      *)
THEOREM CandidatesStayCounted ==
  PlainRequests /\ CreationsCounted /\ Spec => []CandidatesCounted
  BY CountersStayRight, PTL

(* Likewise counters.watchers, for AddWatchers ($nin) and RemoveWatchers.  *)
THEOREM WatchersStayCounted ==
  PlainRequests /\ CreationsCounted /\ Spec => []WatchersCounted
  BY CountersStayRight, PTL

-----------------------------------------------------------------------------
(* What create stores.                                                     *)

(* create meets the hypotheses of these theorems on what it stores, for    *)
(* lists that name nobody twice, whatever items of the request decode:     *)
(* each has its number, counters count, and a task is assigned when it has *)
(* an assignee.                                                            *)
LEMMA CreatedSound ==
  ASSUME NEW assignee \in Accounts \cup {NoAccount},
         NEW candidates \in Lists, NEW watchers \in Lists, NEW editors \in Lists,
         candidates.again = {}, watchers.again = {},
         NEW texts
  PROVE  LET t == Created(assignee, candidates, watchers, editors, texts)
         IN  /\ Numbered(t.todos, t.nid)
             /\ CountersAgree(t)
             /\ t.status = "Assigned" => t.assignee # NoAccount
<1> DEFINE t == Created(assignee, candidates, watchers, editors, texts)
<1>2. t.todos = {[id |-> i, txt |-> texts[i], added |-> FALSE] :
                   i \in Decoded(texts)}
  BY DEF Created
<1>3. Numbered(t.todos, t.nid)
  BY <1>2 DEF Numbered
<1>4. CountersAgree(t)
  <2>1. IsFiniteSet(candidates.ids) /\ IsFiniteSet(watchers.ids)
    BY FS_Subset, AccountsAssumption DEF Lists
  <2> QED
    BY <2>1, PlainListLen DEF CountersAgree, Created
<1>5. t.status = "Assigned" => t.assignee # NoAccount
  BY DEF Created
<1> QED
  BY <1>3, <1>4, <1>5

-----------------------------------------------------------------------------
(* Who decides a task.                                                     *)

(* Only a command writes the document.                                     *)
LEMMA OnlyCommandsWrite ==
  ASSUME [Next]_vars, doc' # doc
  PROVE  \E w \in Workers : Command(w)
  BY DEF Next, Serve, Receive, Read, Find, Fill, Unavailable, Vanished,
         Reread, Refuse, Drop, Expire, Quiet, vars

(* The commands that change neither the status nor the assignee.           *)
Stationary(w) ==
  \/ AddComment(w) \/ AddToDo(w) \/ RemoveToDo(w) \/ UpdateTodo(w)
  \/ AddWatchers(w) \/ AddEditors(w) \/ AddCandidates(w)
  \/ RemoveWatchers(w) \/ RemoveEditors(w) \/ RemoveCandidates(w)
  \/ UpdateMemberIDs(w) \/ RemoveTaskReread(w) \/ RemoveTask(w)

LEMMA StationaryKeeps ==
  ASSUME TypeOK, NEW w \in Workers, Stationary(w)
  PROVE  doc'.status = doc.status /\ doc'.assignee = doc.assignee
<1>0. doc \in Tasks
  BY DEF TypeOK
<1>1. CASE AddToDo(w)
  BY <1>0, <1>1 DEF AddToDo, Update, Tasks
<1>2. CASE RemoveToDo(w)
  BY <1>0, <1>2 DEF RemoveToDo, Update, Tasks
<1>3. CASE UpdateTodo(w)
  BY <1>0, <1>3 DEF UpdateTodo, Update, Tasks
<1>4. CASE AddWatchers(w) \/ AddEditors(w) \/ AddCandidates(w)
  BY <1>0, <1>4 DEF AddWatchers, AddEditors, AddCandidates, Update, Tasks
<1>5. CASE RemoveWatchers(w) \/ RemoveEditors(w) \/ RemoveCandidates(w)
  BY <1>0, <1>5 DEF RemoveWatchers, RemoveEditors, RemoveCandidates, Update,
     Tasks
<1>6. CASE AddComment(w) \/ UpdateMemberIDs(w) \/ RemoveTaskReread(w)
             \/ RemoveTask(w)
  BY <1>0, <1>6 DEF AddComment, UpdateMemberIDs, RemoveTaskReread, RemoveTask,
     Update, Tasks
<1> QED
  BY <1>1, <1>2, <1>3, <1>4, <1>5, <1>6 DEF Stationary

(* A step that makes a task rejected is the reject of a candidate or the   *)
(* resignation of the assignee.                                            *)
LEMMA StepRejection ==
  ASSUME TypeOK, [Next]_vars, doc.status # "Rejected",
         doc'.status = "Rejected"
  PROVE  \E w \in Workers :
           /\ pc[w] = "act" /\ pc'[w] = "drop"
           /\ \/ req[w].op = "reject" /\ req[w].who \in doc.candidates
              \/ req[w].op = "resign" /\ req[w].who = doc.assignee
<1>1. PICK w \in Workers : Command(w)
  BY OnlyCommandsWrite
<1>2. doc \in Tasks
  BY DEF TypeOK
<1>3. /\ pc[w] = "act"
      /\ req[w].list \in Lists /\ req[w].status \in Settable
  BY <1>1, CommandHas, RequestFields
<1>a. CASE Reject(w)
  <2>1. /\ req[w].op = "reject" /\ pc'[w] = "drop"
        /\ doc' # doc => req[w].who \in doc.candidates
    BY <1>a DEF Reject, Handling, Update, TypeOK
  <2> QED
    BY <2>1, <1>3
<1>b. CASE Resign(w)
  <2>1. /\ req[w].op = "resign" /\ pc'[w] = "drop"
        /\ doc' # doc => req[w].who = doc.assignee
    BY <1>b DEF Resign, Handling, Update, TypeOK
  <2> QED
    BY <2>1, <1>3
<1>c. CASE Assign(w) \/ Accept(w) \/ Unassign(w)
  BY <1>2, <1>c DEF Assign, Accept, Unassign, Update, Tasks
<1>d. CASE SetStatus(w) \/ InProgress(w)
  BY <1>2, <1>3, <1>d DEF SetStatus, InProgress, UpdateStatus, Update, Tasks,
     Settable
<1>e. CASE Stationary(w)
  BY <1>e, StationaryKeeps
<1> QED
  BY <1>1, <1>a, <1>b, <1>c, <1>d, <1>e DEF Command, Stationary

(* A task becomes rejected only by one of its candidates at that moment,   *)
(* or by its assignee at that moment, whatever other handlers did since    *)
(* Reject or Resign was decided: their queries repeat the condition, and   *)
(* no other command, set_status included, can write "Rejected".            *)
THEOREM RejectionsEntitled == Spec => RejectionEntitled
<1>1. TypeOK /\ [Next]_vars =>
        [doc.status # "Rejected" /\ doc'.status = "Rejected"
           => \E w \in Workers :
                /\ pc[w] = "act" /\ pc'[w] = "drop"
                /\ \/ req[w].op = "reject" /\ req[w].who \in doc.candidates
                   \/ req[w].op = "resign" /\ req[w].who = doc.assignee]_vars
  BY StepRejection
<1> QED
  BY <1>1, TypeCorrect, PTL DEF Spec, RejectionEntitled

-----------------------------------------------------------------------------
(* One request at a time.                                                  *)

OneWorker == \A v, w \in Workers : v = w

(* A version of the task that differs from the document in the members at  *)
(* most, which no handler decides on.                                      *)
Same(t) == [t EXCEPT !.members = {}] = [doc EXCEPT !.members = {}]

(* The inductive invariant: what a handler read is current until it has    *)
(* written, and what is cached is current but between a write and its DEL. *)
Current ==
  /\ \A w \in Workers : pc[w] \in {"fill", "act"} => Same(copy[w])
  /\ (\A w \in Workers : pc[w] # "drop") => cache = NoTask \/ Same(cache)

(* What commands do to the rest: write and go on to the DEL; or, for       *)
(* update_assignee, write the members only and reply; or read again.       *)
LEMMA CommandEnds ==
  ASSUME TypeOK, NEW w \in Workers, Command(w)
  PROVE  /\ cache' = cache
         /\ \/ pc' = [pc EXCEPT ![w] = "drop"] /\ copy' = copy
            \/ /\ pc' = [pc EXCEPT ![w] = "idle"]
               /\ Same(doc')
            \/ /\ pc' = [pc EXCEPT ![w] = "reread"]
               /\ copy' = copy /\ doc' = doc
<1>0. doc \in Tasks
  BY DEF TypeOK
<1>1. CASE UpdateMemberIDs(w)
  BY <1>0, <1>1 DEF UpdateMemberIDs, Reply, Same, Tasks
<1>2. CASE RemoveTaskReread(w)
  BY <1>2 DEF RemoveTaskReread
<1>3. ASSUME ~UpdateMemberIDs(w), ~RemoveTaskReread(w)
      PROVE  \E matches, new : Update(w, matches, new)
  BY <1>3 DEF Command, AddComment, AddToDo, RemoveToDo, UpdateTodo,
     AddWatchers, AddEditors, AddCandidates, RemoveWatchers, RemoveEditors,
     RemoveCandidates, Assign, Unassign, Accept, Reject, Resign, SetStatus,
     InProgress, UpdateStatus, RemoveTask
<1> QED
  BY <1>1, <1>2, <1>3 DEF Update

LEMMA SoloCommand ==
  ASSUME OneWorker, TypeOK, Current, NEW w \in Workers, Command(w)
  PROVE  Current'
<1>1. pc[w] = "act" /\ \A v \in Workers : v = w
  BY CommandHas DEF OneWorker
<1>2. cache = NoTask \/ Same(cache)
  BY <1>1 DEF Current
<1>3. CASE pc' = [pc EXCEPT ![w] = "drop"]
  BY <1>1, <1>3 DEF Current, TypeOK
<1>4. CASE pc' = [pc EXCEPT ![w] = "idle"] /\ Same(doc')
  BY <1>1, <1>2, <1>4, CommandEnds DEF Current, TypeOK, Same
<1>5. CASE /\ pc' = [pc EXCEPT ![w] = "reread"]
           /\ copy' = copy /\ doc' = doc
  BY <1>1, <1>2, <1>5, CommandEnds DEF Current, TypeOK, Same
<1> QED
  BY <1>3, <1>4, <1>5, CommandEnds

LEMMA StepCurrent ==
  ASSUME OneWorker, TypeOK, Current, [Next]_vars
  PROVE  Current'
<1>1. ASSUME NEW w \in Workers,
             Receive(w) \/ Read(w) \/ Refuse(w) \/ Drop(w)
      PROVE  Current'
  <2>1. doc' = doc /\ \A v \in Workers : v = w
    BY <1>1 DEF Receive, Read, Find, Fill, Unavailable, Vanished, Reread,
                Refuse, Drop, OneWorker
  <2>a. CASE Receive(w) \/ Reread(w)
    BY <2>1, <2>a DEF Receive, Reread, Lookup, Current, TypeOK, Same
  <2>b. CASE Find(w)
    BY <2>1, <2>b DEF Find, Current, TypeOK, Same
  <2>c. CASE Fill(w)
    BY <2>1, <2>c DEF Fill, Current, TypeOK, Same
  <2>d. CASE Unavailable(w) \/ Vanished(w) \/ Refuse(w)
    BY <2>1, <2>d DEF Unavailable, Vanished, Refuse, Reply, Current, TypeOK,
       Same
  <2>e. CASE Drop(w)
    BY <2>1, <2>e DEF Drop, Reply, Current, TypeOK, Same
  <2> QED
    BY <1>1, <2>a, <2>b, <2>c, <2>d, <2>e DEF Read
<1>2. CASE Expire \/ Quiet \/ UNCHANGED vars
  BY <1>2 DEF Expire, Quiet, vars, Current, Same
<1> QED
  BY <1>1, <1>2, SoloCommand DEF Next, Serve

LEMMA InitCurrent == Init => Current
  BY DEF Init, Current

LEMMA CurrentAlways == OneWorker /\ Spec => [](TypeOK /\ Current)
<1>1. OneWorker /\ TypeOK /\ Current /\ [Next]_vars => (TypeOK /\ Current)'
  BY StepTypeOK, StepCurrent
<1>2. Init => TypeOK /\ Current
  BY InitTypeOK, InitCurrent
<1> SUFFICES ASSUME OneWorker
             PROVE  Spec => [](TypeOK /\ Current)
  OBVIOUS
<1>3. TypeOK /\ Current /\ [Next]_vars => (TypeOK /\ Current)'
  BY <1>1
<1> QED
  BY <1>2, <1>3, PTL DEF Spec

(* With one request at a time a handler decides on the task as it is, all  *)
(* but its members, although it reads it through the cache: every command  *)
(* that changes something else is followed by removeCache.                 *)
THEOREM DecisionsCurrent == OneWorker /\ Spec => []DecidesOnCurrent
<1>1. Current => DecidesOnCurrent
  BY DEF Current, Same, DecidesOnCurrent
<1> QED
  BY <1>1, CurrentAlways, PTL

CreationsAssigned ==
  \A t \in Creations : t.status = "Assigned" => t.assignee # NoAccount

LEMMA SoloAssigned ==
  ASSUME TypeOK, Current, AssignedHasAssignee, [Next]_vars
  PROVE  AssignedHasAssignee'
<1>0. doc \in Tasks
  BY DEF TypeOK
<1> SUFFICES ASSUME doc' # doc
             PROVE  AssignedHasAssignee'
  BY DEF AssignedHasAssignee
<1>1. PICK w \in Workers : Command(w)
  BY OnlyCommandsWrite
<1>2. /\ pc[w] = "act" /\ copy[w] \in Tasks
      /\ req[w].list \in Lists /\ req[w].status \in Settable
      /\ req[w].who \in Accounts
  BY <1>1, CommandHas, RequestFields
<1>3. copy[w].assignee = doc.assignee
  <2>1. [copy[w] EXCEPT !.members = {}].assignee
          = [doc EXCEPT !.members = {}].assignee
    BY <1>2 DEF Current, Same
  <2> QED
    BY <2>1, <1>0, <1>2 DEF Tasks
<1>a. CASE Assign(w)
  <2>1. req[w].list.ids \subseteq Accounts
    BY <1>2 DEF Lists
  <2> QED
    BY <2>1, <1>0, <1>a, AccountsAssumption DEF Assign, Update, Tasks,
       AssignedHasAssignee
<1>b. CASE Accept(w)
  BY <1>0, <1>2, <1>b, AccountsAssumption DEF Accept, Update, Tasks,
     AssignedHasAssignee
<1>c. CASE Unassign(w) \/ Resign(w)
  BY <1>0, <1>c DEF Unassign, Resign, Update, Tasks, AssignedHasAssignee
<1>d. CASE Reject(w)
  BY <1>0, <1>d DEF Reject, Update, Tasks, AssignedHasAssignee
<1>e. CASE SetStatus(w) \/ InProgress(w)
  BY <1>0, <1>2, <1>3, <1>e DEF SetStatus, InProgress, UpdateStatus, Update,
     Tasks, Settable, AssignedHasAssignee
<1>f. CASE Stationary(w)
  BY <1>f, StationaryKeeps DEF AssignedHasAssignee
<1> QED
  BY <1>1, <1>a, <1>b, <1>c, <1>d, <1>e, <1>f DEF Command, Stationary

(* With one request at a time an assigned task has an assignee: Accept and *)
(* Assign name an account, Resign and Unassign take the status along, and  *)
(* in_progress asks a copy that is current.                                *)
THEOREM AssignedKeepsAssignee ==
  OneWorker /\ CreationsAssigned /\ Spec => []AssignedHasAssignee
<1> SUFFICES ASSUME CreationsAssigned
             PROVE  OneWorker /\ Spec => []AssignedHasAssignee
  OBVIOUS
<1>1. Init => AssignedHasAssignee
  BY DEF Init, CreationsAssigned, AssignedHasAssignee
<1>2. TypeOK /\ Current /\ AssignedHasAssignee /\ [Next]_vars
        => AssignedHasAssignee'
  BY SoloAssigned
<1> QED
  BY <1>1, <1>2, CurrentAlways, PTL DEF Spec

(* A reject that finds the requester among the candidates rejects the task *)
(* exactly when it leaves no candidate.                                    *)
LEMMA SoloReject ==
  ASSUME TypeOK, Current, NEW w \in Workers, Reject(w), doc' # doc,
         doc.status # "Rejected", doc.nCand = Cardinality(doc.candidates)
  PROVE  doc'.status = "Rejected" <=> doc'.candidates = {}
<1> DEFINE who == req[w].who
<1>0. doc \in Tasks /\ copy[w] \in Tasks /\ pc[w] = "act"
  BY CommandHas DEF TypeOK, Command
<1>1. /\ who \in doc.candidates
      /\ doc'.candidates = doc.candidates \ {who}
      /\ doc'.status = IF copy[w].nCand > 1 THEN doc.status ELSE "Rejected"
  BY <1>0 DEF Reject, Update, Tasks
<1>2. copy[w].nCand = doc.nCand
  <2>1. [copy[w] EXCEPT !.members = {}].nCand
          = [doc EXCEPT !.members = {}].nCand
    BY <1>0 DEF Current, Same
  <2> QED
    BY <2>1, <1>0 DEF Tasks
<1>3. IsFiniteSet(doc.candidates)
  BY <1>0, FS_Subset, AccountsAssumption DEF Tasks
<1>4. /\ IsFiniteSet(doc.candidates \ {who})
      /\ Cardinality(doc.candidates) \in Nat
      /\ Cardinality(doc.candidates \ {who}) \in Nat
      /\ Cardinality(doc.candidates \ {who}) = Cardinality(doc.candidates) - 1
  BY <1>1, <1>3, FS_RemoveElement, FS_CardinalityType
<1>5. doc'.candidates = {} <=> Cardinality(doc.candidates) - 1 = 0
  BY <1>1, <1>4, FS_EmptySet
<1>6. copy[w].nCand > 1 <=> ~(Cardinality(doc.candidates) - 1 = 0)
  BY <1>2, <1>4
<1> QED
  BY <1>1, <1>5, <1>6

(* With one request at a time the last candidate's reject, and no earlier  *)
(* one, rejects the task: Reject compares a counter of its copy, which is  *)
(* the document's.                                                         *)
THEOREM LastRejectDecides == OneWorker /\ Spec => LastRejectRejects
<1>1. TypeOK /\ Current /\ [Next]_vars =>
        [(\E w \in Workers : Reject(w)) /\ doc' # doc
           /\ doc.status # "Rejected"
           /\ doc.nCand = Cardinality(doc.candidates)
           => (doc'.status = "Rejected" <=> doc'.candidates = {})]_vars
  BY SoloReject
<1> QED
  BY <1>1, CurrentAlways, PTL DEF Spec, LastRejectRejects

(* The two comments that concurrent handlers belie hold of one request at  *)
(* a time: respond accepts only a task that is not assigned, and AddToDo   *)
(* keeps the items there are.                                              *)
LEMMA SoloCopy ==
  ASSUME TypeOK, Current, NEW w \in Workers, Command(w)
  PROVE  copy[w].status = doc.status /\ copy[w].todos = doc.todos
<1>1. doc \in Tasks /\ copy[w] \in Tasks /\ pc[w] = "act"
  BY CommandHas DEF TypeOK
<1>2. [copy[w] EXCEPT !.members = {}] = [doc EXCEPT !.members = {}]
  BY <1>1 DEF Current, Same
<1>3. /\ [copy[w] EXCEPT !.members = {}].status
           = [doc EXCEPT !.members = {}].status
      /\ [copy[w] EXCEPT !.members = {}].todos
           = [doc EXCEPT !.members = {}].todos
  BY <1>2
<1> QED
  BY <1>1, <1>3 DEF Tasks

(* With one request at a time Accept finds the task unassigned, as the     *)
(* comment in respond says.                                                *)
THEOREM AcceptsUnassignedAlone == OneWorker /\ Spec => AcceptsUnassigned
<1>1. ASSUME TypeOK, Current, NEW w \in Workers, Accept(w)
      PROVE  doc.status # "Assigned"
  BY <1>1, SoloCopy DEF Accept, Handling, Allowed, Command
<1>2. TypeOK /\ Current /\ [Next]_vars =>
        [\A w \in Workers : Accept(w) => doc.status # "Assigned"]_vars
  BY <1>1
<1> QED
  BY <1>2, CurrentAlways, PTL DEF Spec, AcceptsUnassigned

(* With one request at a time AddToDo adds an item and keeps the others.   *)
THEOREM AddToDoKeepsItemsAlone == OneWorker /\ Spec => AddToDoKeepsItems
<1>1. ASSUME TypeOK, Current, NEW w \in Workers, AddToDo(w)
      PROVE  doc.todos \subseteq doc'.todos
  <2>1. copy[w].todos = doc.todos /\ doc \in Tasks
    BY <1>1, SoloCopy DEF Command, TypeOK
  <2> QED
    BY <1>1, <2>1 DEF AddToDo, Update, Tasks
<1>2. TypeOK /\ Current /\ [Next]_vars =>
        [\A w \in Workers : AddToDo(w) => doc.todos \subseteq doc'.todos]_vars
  BY <1>1
<1> QED
  BY <1>2, CurrentAlways, PTL DEF Spec, AddToDoKeepsItems
=============================================================================
