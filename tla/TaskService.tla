----------------------------- MODULE TaskService -----------------------------
(***************************************************************************)
(* The handlers of pkg/rpc/api/task/functions.go over the task manager of  *)
(* nested/manager_task.go, for one task.  The task is a MongoDB document   *)
(* (`doc') with a Redis copy in front of it (`cache').  A handler reads    *)
(* the task through the cache, decides on that private copy, and changes   *)
(* the document by single atomic updates whose queries repeat only some of *)
(* the conditions it decided on; the deferred removeCache comes last.      *)
(* Handlers run concurrently and nothing locks the task.                   *)
(***************************************************************************)
EXTENDS Integers, FiniteSets

CONSTANTS
  Accounts,     \* account ids
  Assignor,     \* the account that created the task
  NoAccount,    \* the empty account id
  NoTask,       \* the nil task; as the value of `cache', the absent key
  NoRequest,    \* what an idle worker serves
  Texts,        \* texts of to-do items
  Workers,      \* goroutines serving requests
  Requests,     \* the requests clients send
  Creations,    \* the tasks create may have stored
  MaxRequests   \* bound: requests served in a behaviour

VARIABLES
  doc,          \* the task document in MongoDB
  cache,        \* the value of "task:gob:<id>" in Redis
  pc,           \* where each worker is
  round,        \* 1, or 2 once its handler reads the task a second time
  req,          \* the request each worker serves
  copy,         \* the *Task each worker holds
  served        \* requests received so far

vars == <<doc, cache, pc, round, req, copy, served>>

-----------------------------------------------------------------------------

Statuses == {"NotAssigned", "Assigned", "Canceled", "Rejected",
             "Completed", "Hold", "Overdue", "Failed"}

(* A comma separated list of account ids: the ids it names and those it    *)
(* names a second time.  Only what it names and how long it is matter.     *)
Lists == {l \in [ids : SUBSET Accounts, again : SUBSET Accounts] :
            l.again \subseteq l.ids}

ListLen(list) == Cardinality(list.ids) + Cardinality(list.again)

Without(list, S) == [ids |-> list.ids \ S, again |-> list.again \ S]

(* Items that create numbered come before those that add_todo numbered.    *)
Todos == [id : Nat, txt : Texts, added : BOOLEAN]

Tasks == [status : Statuses, assignee : Accounts \cup {NoAccount},
          candidates : SUBSET Accounts, watchers : SUBSET Accounts,
          editors : SUBSET Accounts,
          members : SUBSET (Accounts \cup {NoAccount}),
          nCand : Int, nWatch : Int, nEdit : Int,
          todos : SUBSET Todos, nid : Nat, removed : BOOLEAN]

Ops == {"add_comment", "add_todo", "remove_todo", "update_todo",
        "add_watcher", "remove_watcher", "add_editor", "remove_editor",
        "add_candidate", "remove_candidate", "update_assignee", "accept",
        "reject", "resign", "set_status", "in_progress", "remove"}

(* What set_status, and the closing states of set_state, may ask for.      *)
Settable == {"Completed", "Hold", "Canceled", "Failed"}

RequestType == [op : Ops, who : Accounts, list : Lists, todo : Nat,
                txt : Texts, status : Settable]

ASSUME AccountsAssumption ==
  /\ IsFiniteSet(Accounts)
  /\ Assignor \in Accounts
  /\ NoAccount \notin Accounts

ASSUME RequestsAssumption ==
  /\ Requests \subseteq RequestType
  /\ NoRequest \notin Requests

ASSUME CreationsAssumption ==
  /\ Creations \subseteq Tasks
  /\ NoTask \notin Tasks
  /\ MaxRequests \in Nat

-----------------------------------------------------------------------------
(* The task create stores: `assignee', or the candidates when there is     *)
(* none, and the two lists.  The handler numbers the items of the request  *)
(* from 1 and skips those that do not decode, whose numbers are spent;     *)
(* CreateTask sets todo_nid past as many items as are left.                *)
Decoded(texts) == {i \in DOMAIN texts : texts[i] \in Texts}

Created(assignee, candidates, watchers, editors, texts) ==
  [status     |-> IF assignee # NoAccount THEN "Assigned" ELSE "NotAssigned",
   assignee   |-> assignee,
   candidates |-> candidates.ids,
   watchers   |-> watchers.ids,
   editors    |-> editors.ids,
   members    |-> watchers.ids \cup editors.ids \cup candidates.ids
                    \cup {assignee, Assignor},
   nCand      |-> ListLen(candidates),
   nWatch     |-> ListLen(watchers),
   nEdit      |-> 0,
   todos      |-> {[id |-> i, txt |-> texts[i], added |-> FALSE] :
                     i \in Decoded(texts)},
   nid        |-> Cardinality(Decoded(texts)) + 1,
   removed    |-> FALSE]

(* Who holds which right on a task, by the ranks of GetAccess: assignor,   *)
(* assignee, editor, watcher, each with the rights of the next, and        *)
(* candidate.                                                              *)
Editors(t) == {Assignor, t.assignee} \cup t.editors

Holders(t, right) ==
  CASE right \in {"AddCandidate", "Delete"} -> {Assignor}
    [] right \in {"AddWatcher", "RemoveWatcher", "AddEditor",
                  "RemoveEditor", "Update"} -> Editors(t)
    [] right = "Comment" -> Editors(t) \cup t.watchers \cup t.candidates

RightFor(op) ==
  CASE op = "add_comment" -> "Comment"
    [] op \in {"add_todo", "remove_todo", "update_todo", "update_assignee",
               "set_status", "in_progress"} -> "Update"
    [] op = "add_watcher" -> "AddWatcher"
    [] op \in {"remove_watcher", "remove_candidate"} -> "RemoveWatcher"
    [] op = "add_editor" -> "AddEditor"
    [] op = "remove_editor" -> "RemoveEditor"
    [] op = "add_candidate" -> "AddCandidate"
    [] op = "remove" -> "Delete"

(* A request to remove oneself and nobody else needs no right.             *)
RemovesSelf(r) ==
  /\ r.op \in {"remove_watcher", "remove_editor", "remove_candidate"}
  /\ r.list = [ids |-> {r.who}, again |-> {}]

Responses == {"accept", "reject", "resign"}

(* The checks a handler makes on its copy before it calls the manager.     *)
Allowed(t, r) ==
  /\ r.op \in {"accept", "reject"} =>
       r.who \in t.candidates /\ t.status # "Assigned"
  /\ r.op = "resign" => r.who = t.assignee
  /\ r.op \notin Responses =>
       RemovesSelf(r) \/ r.who \in Holders(t, RightFor(r.op))
  /\ r.op = "in_progress" => t.status # "Overdue"
  /\ r.op = "update_todo" => \E todo \in t.todos : todo.id = r.todo

-----------------------------------------------------------------------------
(* Reading through the cache (readFromCache).                              *)

Init ==
  /\ doc \in Creations
  /\ cache = NoTask
  /\ pc = [w \in Workers |-> "idle"]
  /\ round = [w \in Workers |-> 1]
  /\ req = [w \in Workers |-> NoRequest]
  /\ copy = [w \in Workers |-> NoTask]
  /\ served = 0

(* GET: a hit gives the handler its copy, a miss sends it to MongoDB.      *)
Lookup(w) ==
  \/ /\ cache # NoTask
     /\ copy' = [copy EXCEPT ![w] = cache]
     /\ pc' = [pc EXCEPT ![w] = "act"]
  \/ /\ cache = NoTask
     /\ pc' = [pc EXCEPT ![w] = "find"]
     /\ UNCHANGED copy

Receive(w) ==
  /\ pc[w] = "idle"
  /\ served < MaxRequests
  /\ \E r \in Requests : req' = [req EXCEPT ![w] = r]
  /\ served' = served + 1
  /\ Lookup(w)
  /\ UNCHANGED <<doc, cache, round>>

(* The request is over; the worker forgets it.                             *)
Reply(w, at) ==
  /\ pc' = [pc EXCEPT ![w] = at]
  /\ round' = [round EXCEPT ![w] = 1]
  /\ req' = [req EXCEPT ![w] = NoRequest]
  /\ copy' = [copy EXCEPT ![w] = NoTask]

(* The query asks for _removed: false.                                     *)
Find(w) ==
  /\ pc[w] = "find"
  /\ ~doc.removed
  /\ copy' = [copy EXCEPT ![w] = doc]
  /\ pc' = [pc EXCEPT ![w] = "fill"]
  /\ UNCHANGED <<doc, cache, round, req, served>>

(* SETEX, possibly long after the Find it stores the result of.            *)
Fill(w) ==
  /\ pc[w] = "fill"
  /\ cache' = copy[w]
  /\ pc' = [pc EXCEPT ![w] = "act"]
  /\ UNCHANGED <<doc, round, req, copy, served>>

(* GetTask answers "unavailable".                                          *)
Unavailable(w) ==
  /\ pc[w] = "find"
  /\ doc.removed
  /\ round[w] = 1
  /\ Reply(w, "idle")
  /\ UNCHANGED <<doc, cache, served>>

(* The second read of a handler finds the task removed since the first: it *)
(* dereferences nil.  RemoveTask has a deferred DEL, which still runs.     *)
Vanished(w) ==
  /\ pc[w] = "find"
  /\ doc.removed
  /\ round[w] = 2
  /\ Reply(w, "panicked")
  /\ cache' = IF req[w].op = "remove" THEN NoTask ELSE cache
  /\ UNCHANGED <<doc, served>>

Reread(w) ==
  /\ pc[w] = "reread"
  /\ Lookup(w)
  /\ UNCHANGED <<doc, cache, round, req, served>>

Refuse(w) ==
  /\ pc[w] = "act"
  /\ round[w] = 1
  /\ ~Allowed(copy[w], req[w])
  /\ Reply(w, "idle")
  /\ UNCHANGED <<doc, cache, served>>

-----------------------------------------------------------------------------
(* The manager's updates.  Each is one MongoDB command: when its query     *)
(* matches, the document becomes `new'; matched or not, the deferred DEL   *)
(* follows.                                                                *)

Handling(w, op) ==
  /\ pc[w] = "act"
  /\ round[w] = 1
  /\ req[w].op = op
  /\ Allowed(copy[w], req[w])

Update(w, matches, new) ==
  /\ doc' = IF matches THEN new ELSE doc
  /\ pc' = [pc EXCEPT ![w] = "drop"]
  /\ UNCHANGED <<cache, round, req, copy, served>>

(* Mutant: the deferred removeCache is missing.                            *)
DropForgotten(w) ==
  /\ pc[w] = "drop"
  /\ req[w].op # "update_assignee"
  /\ Reply(w, "idle")
  /\ UNCHANGED <<doc, cache, served>>

(* removeCache; update_assignee goes on to read the task again.            *)
Drop(w) ==
  /\ pc[w] = "drop"
  /\ cache' = NoTask
  /\ \/ /\ req[w].op = "update_assignee"
        /\ pc' = [pc EXCEPT ![w] = "reread"]
        /\ round' = [round EXCEPT ![w] = 2]
        /\ UNCHANGED <<req, copy>>
     \/ /\ req[w].op # "update_assignee"
        /\ Reply(w, "idle")
  /\ UNCHANGED <<doc, served>>

(* A comment is an activity document of its own; the task only loses its   *)
(* cached copy.                                                            *)
AddComment(w) ==
  /\ Handling(w, "add_comment")
  /\ Update(w, FALSE, doc)

(* Mutant: items are numbered by the length of the list.                   *)
AddToDoByLength(w) ==
  /\ Handling(w, "add_todo")
  /\ LET todo == [id |-> Cardinality(copy[w].todos) + 1, txt |-> req[w].txt,
                  added |-> TRUE]
     IN  Update(w, TRUE, [doc EXCEPT !.todos = copy[w].todos \cup {todo},
                                     !.nid = @ + 1])

(* $set of the copy's to-dos with the new one, $inc of todo_nid.           *)
AddToDo(w) ==
  /\ Handling(w, "add_todo")
  /\ LET todo == [id |-> copy[w].nid, txt |-> req[w].txt, added |-> TRUE]
     IN  Update(w, TRUE, [doc EXCEPT !.todos = copy[w].todos \cup {todo},
                                     !.nid = @ + 1])

RemoveToDo(w) ==
  /\ Handling(w, "remove_todo")
  /\ Update(w, TRUE,
            [doc EXCEPT !.todos = {t \in @ : t.id # req[w].todo}])

(* The first item with that id: of two, the one create numbered.           *)
FirstNamed(t, id) ==
  t.id = id /\ (t.added => \A s \in doc.todos : s.id = id => s.added)

UpdateTodo(w) ==
  /\ Handling(w, "update_todo")
  /\ Update(w, \E t \in doc.todos : t.id = req[w].todo,
            [doc EXCEPT !.todos =
               {[t EXCEPT !.txt = IF FirstNamed(t, req[w].todo)
                                    THEN req[w].txt ELSE @] : t \in @}])

(* Mutant: the query does not repeat that the watchers are new.            *)
AddWatchersUnguarded(w) ==
  /\ Handling(w, "add_watcher")
  /\ LET list == Without(req[w].list, copy[w].watchers)
     IN  Update(w, TRUE,
                [doc EXCEPT !.watchers = @ \cup list.ids,
                            !.members = @ \cup list.ids,
                            !.nWatch = @ + ListLen(list)])

(* The handler drops the ids its copy already lists; the query ($nin)      *)
(* fails if the document lists one of the others.                          *)
AddWatchers(w) ==
  /\ Handling(w, "add_watcher")
  /\ LET list == Without(req[w].list, copy[w].watchers)
     IN  Update(w, list.ids \cap doc.watchers = {},
                [doc EXCEPT !.watchers = @ \cup list.ids,
                            !.members = @ \cup list.ids,
                            !.nWatch = @ + ListLen(list)])

AddEditors(w) ==
  /\ Handling(w, "add_editor")
  /\ LET list == Without(req[w].list, copy[w].editors)
     IN  Update(w, list.ids \cap doc.editors = {},
                [doc EXCEPT !.editors = @ \cup list.ids,
                            !.members = @ \cup list.ids,
                            !.nEdit = @ + ListLen(list)])

(* The counter incremented is the watchers'.                               *)
AddCandidates(w) ==
  /\ Handling(w, "add_candidate")
  /\ LET list == Without(req[w].list, copy[w].candidates)
     IN  Update(w, list.ids \cap doc.candidates = {},
                [doc EXCEPT !.candidates = @ \cup list.ids,
                            !.members = @ \cup list.ids,
                            !.nWatch = @ + ListLen(list)])

(* $all: every id must be listed, and the empty list matches nothing.  An  *)
(* id leaves the members unless the copy lists it in the other role.       *)
RemoveWatchers(w) ==
  /\ Handling(w, "remove_watcher")
  /\ LET list == req[w].list
     IN  Update(w, list.ids # {} /\ list.ids \subseteq doc.watchers,
                [doc EXCEPT !.watchers = @ \ list.ids,
                            !.members = @ \ (list.ids \ copy[w].editors),
                            !.nWatch = @ - ListLen(list)])

RemoveEditors(w) ==
  /\ Handling(w, "remove_editor")
  /\ LET list == req[w].list
     IN  Update(w, list.ids # {} /\ list.ids \subseteq doc.editors,
                [doc EXCEPT !.editors = @ \ list.ids,
                            !.members = @ \ (list.ids \ copy[w].watchers),
                            !.nEdit = @ - ListLen(list)])

RemoveCandidates(w) ==
  /\ Handling(w, "remove_candidate")
  /\ LET list == req[w].list
     IN  Update(w, list.ids # {} /\ list.ids \subseteq doc.candidates,
                [doc EXCEPT !.candidates = @ \ list.ids,
                            !.members = @ \ list.ids,
                            !.nCand = @ - ListLen(list)])

(* A list of one id assigns the task; any other list, the empty one too,   *)
(* becomes the candidates of an unassigned task.                           *)
Assign(w) ==
  /\ Handling(w, "update_assignee")
  /\ ListLen(req[w].list) = 1
  /\ \E a \in req[w].list.ids :
       Update(w, TRUE, [doc EXCEPT !.assignee = a, !.status = "Assigned"])

Unassign(w) ==
  /\ Handling(w, "update_assignee")
  /\ ListLen(req[w].list) # 1
  /\ Update(w, TRUE, [doc EXCEPT !.assignee = NoAccount,
                                 !.status = "NotAssigned",
                                 !.candidates = req[w].list.ids,
                                 !.nCand = ListLen(req[w].list)])

(* After update_assignee: the members are recomputed from the second copy, *)
(* and this write clears no cache.                                         *)
UpdateMemberIDs(w) ==
  /\ pc[w] = "act"
  /\ round[w] = 2
  /\ req[w].op = "update_assignee"
  /\ doc' = [doc EXCEPT !.members =
               copy[w].watchers \cup copy[w].editors \cup copy[w].candidates
                 \cup {copy[w].assignee, Assignor}]
  /\ Reply(w, "idle")
  /\ UNCHANGED <<cache, served>>

(* Accept's query names the task only.                                     *)
Accept(w) ==
  /\ Handling(w, "accept")
  /\ Update(w, TRUE, [doc EXCEPT !.assignee = req[w].who,
                                 !.status = "Assigned"])

(* Mutants: the query names the task only; the counter is compared with 0. *)
RejectUnguarded(w) ==
  /\ Handling(w, "reject")
  /\ Update(w, TRUE,
            [doc EXCEPT !.candidates = @ \ {req[w].who},
                        !.nCand = @ - 1,
                        !.status = IF copy[w].nCand > 1
                                     THEN @ ELSE "Rejected"])

RejectOffByOne(w) ==
  /\ Handling(w, "reject")
  /\ Update(w, req[w].who \in doc.candidates,
            [doc EXCEPT !.candidates = @ \ {req[w].who},
                        !.nCand = @ - 1,
                        !.status = IF copy[w].nCand > 0
                                     THEN @ ELSE "Rejected"])

(* The last candidate, by the copy's counter, rejects the task for good.   *)
Reject(w) ==
  /\ Handling(w, "reject")
  /\ Update(w, req[w].who \in doc.candidates,
            [doc EXCEPT !.candidates = @ \ {req[w].who},
                        !.nCand = @ - 1,
                        !.status = IF copy[w].nCand > 1
                                     THEN @ ELSE "Rejected"])

(* Mutants: the query names the task only; the status is not written.      *)
ResignUnguarded(w) ==
  /\ Handling(w, "resign")
  /\ Update(w, TRUE,
            [doc EXCEPT !.assignee = NoAccount, !.status = "Rejected"])

ResignKeepsStatus(w) ==
  /\ Handling(w, "resign")
  /\ Update(w, req[w].who = doc.assignee,
            [doc EXCEPT !.assignee = NoAccount])

Resign(w) ==
  /\ Handling(w, "resign")
  /\ Update(w, req[w].who = doc.assignee,
            [doc EXCEPT !.assignee = NoAccount, !.status = "Rejected"])

(* UpdateStatus: nothing is written when the copy has the status already.  *)
UpdateStatus(w, status) ==
  Update(w, status # copy[w].status, [doc EXCEPT !.status = status])

SetStatus(w) ==
  /\ Handling(w, "set_status")
  /\ UpdateStatus(w, req[w].status)

InProgress(w) ==
  /\ Handling(w, "in_progress")
  /\ UpdateStatus(w, IF copy[w].assignee # NoAccount
                       THEN "Assigned" ELSE "NotAssigned")

(* task/remove: RemoveTask reads the task again before it updates it.      *)
RemoveTaskReread(w) ==
  /\ Handling(w, "remove")
  /\ pc' = [pc EXCEPT ![w] = "reread"]
  /\ round' = [round EXCEPT ![w] = 2]
  /\ UNCHANGED <<doc, cache, req, copy, served>>

RemoveTask(w) ==
  /\ pc[w] = "act"
  /\ round[w] = 2
  /\ req[w].op = "remove"
  /\ Update(w, TRUE, [doc EXCEPT !.removed = TRUE])

-----------------------------------------------------------------------------

(* Mutant: the key is stored without a time to live.                       *)
ExpireNever == FALSE /\ UNCHANGED vars

(* The cached copy reaches its time to live, CacheLifetime.                *)
Expire ==
  /\ cache # NoTask
  /\ cache' = NoTask
  /\ UNCHANGED <<doc, pc, round, req, copy, served>>

(* Every request of the bound is served: the model stops, not the server.  *)
Quiet ==
  /\ served = MaxRequests
  /\ \A w \in Workers : pc[w] \in {"idle", "panicked"}
  /\ UNCHANGED vars

Read(w) == Find(w) \/ Fill(w) \/ Unavailable(w) \/ Vanished(w) \/ Reread(w)

Command(w) ==
  \/ AddComment(w) \/ AddToDo(w) \/ RemoveToDo(w) \/ UpdateTodo(w)
  \/ AddWatchers(w) \/ AddEditors(w) \/ AddCandidates(w)
  \/ RemoveWatchers(w) \/ RemoveEditors(w) \/ RemoveCandidates(w)
  \/ Assign(w) \/ Unassign(w) \/ UpdateMemberIDs(w)
  \/ Accept(w) \/ Reject(w) \/ Resign(w)
  \/ SetStatus(w) \/ InProgress(w)
  \/ RemoveTaskReread(w) \/ RemoveTask(w)

Serve(w) == Read(w) \/ Refuse(w) \/ Command(w) \/ Drop(w)

Next ==
  \/ \E w \in Workers : Receive(w) \/ Serve(w)
  \/ Expire
  \/ Quiet

Spec == Init /\ [][Next]_vars

(* A goroutine that serves a request is scheduled, and Redis expires keys. *)
FairSpec ==
  Spec /\ WF_vars(Expire) /\ \A w \in Workers : WF_vars(Serve(w))
-----------------------------------------------------------------------------
(* Properties.                                                             *)

(* The document, the cached value and every handler's copy are tasks, and  *)
(* a worker between two steps has what its next step needs.                *)
TypeOK ==
  /\ doc \in Tasks
  /\ cache \in Tasks \cup {NoTask}
  /\ pc \in [Workers -> {"idle", "find", "fill", "act", "drop", "reread",
                         "panicked"}]
  /\ round \in [Workers -> {1, 2}]
  /\ req \in [Workers -> Requests \cup {NoRequest}]
  /\ copy \in [Workers -> Tasks \cup {NoTask}]
  /\ served \in 0..MaxRequests
  /\ \A w \in Workers :
       /\ pc[w] \notin {"idle", "panicked"} => req[w] \in Requests
       /\ pc[w] \in {"fill", "act"} => copy[w] \in Tasks

(* AddToDo numbers an item from its own, possibly old, copy of the task,   *)
(* and writes back the whole list of that copy.  Whatever handlers run in  *)
(* between, it gives no id to two items of the list, nor one that todo_nid *)
(* is still to give; those that create gave differ too.  An id of create's *)
(* may be given again, if an item before it did not decode.                *)
TodoIdsUnique ==
  /\ \A s, t \in doc.todos : s.id = t.id /\ s.added = t.added => s = t
  /\ \A t \in doc.todos : t.added => t.id < doc.nid

(* counters.candidates, on which Reject decides whether the task is        *)
(* rejected for good, counts the candidates, however update_assignee,      *)
(* remove_candidate and reject interleave on old copies (lists that name   *)
(* an account twice and add_candidate, which counts elsewhere, excluded).  *)
CandidatesCounted == doc.nCand = Cardinality(doc.candidates)

(* Likewise for counters.watchers and AddWatchers / RemoveWatchers.        *)
WatchersCounted == doc.nWatch = Cardinality(doc.watchers)

(* With one request at a time the cache never misleads a handler: what it  *)
(* decides on, all but the members, is the document.  update_assignee      *)
(* leaves old members in the cache, which no handler decides on.           *)
DecidesOnCurrent ==
  \A w \in Workers :
    pc[w] = "act" => [copy[w] EXCEPT !.members = {}]
                       = [doc EXCEPT !.members = {}]

(* With one request at a time an assigned task has an assignee, whichever  *)
(* of create, accept, update_assignee, resign, set_status, set_state       *)
(* brought it where it is.                                                 *)
AssignedHasAssignee == doc.status = "Assigned" => doc.assignee # NoAccount

(* With one request at a time a reject that leaves no candidate rejects    *)
(* the task, and no other reject does, as long as the counter is right: no *)
(* task is left unassigned with nobody to accept it.                       *)
LastRejectRejects ==
  [][(\E w \in Workers : Reject(w)) /\ doc' # doc
       /\ doc.status # "Rejected"
       /\ doc.nCand = Cardinality(doc.candidates)
       => (doc'.status = "Rejected" <=> doc'.candidates = {})]_vars

(* A task becomes rejected only by a current candidate who rejects it, or  *)
(* by its current assignee who resigns, even when the handler decided on   *)
(* an old copy: the queries of Reject and Resign repeat that condition.    *)
RejectionEntitled ==
  [][doc.status # "Rejected" /\ doc'.status = "Rejected"
       => \E w \in Workers :
            /\ pc[w] = "act" /\ pc'[w] = "drop"
            /\ \/ req[w].op = "reject" /\ req[w].who \in doc.candidates
               \/ req[w].op = "resign" /\ req[w].who = doc.assignee]_vars

(* A removed task leaves the cache for good.  A handler that read the task *)
(* before it was removed may still store it after the DEL; no later find   *)
(* returns it, and the key's time to live ends what was stored.            *)
RemovedForgotten == doc.removed ~> [](cache = NoTask)

(* Stated by the comment in respond: a candidate accepts the task only if  *)
(* it was not already assigned.  The handler checks its copy and Accept    *)
(* checks nothing, so two candidates can both accept.                      *)
AcceptsUnassigned ==
  [][\A w \in Workers : Accept(w) => doc.status # "Assigned"]_vars

(* Stated by the comment of AddToDo: it adds an item.  What it writes is   *)
(* the list of the handler's copy: an item added since is replaced by the  *)
(* new one, under the same id, and items removed since come back.          *)
AddToDoKeepsItems ==
  [][\A w \in Workers : AddToDo(w) => doc.todos \subseteq doc'.todos]_vars

(* Stated by GetByWatcherEditorID, whose query asks for the account among  *)
(* the members and among the watchers or editors: a watcher finds the      *)
(* tasks it watches.                                                       *)
WatchersAreMembers == doc.watchers \subseteq doc.members
=============================================================================
