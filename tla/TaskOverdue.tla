----------------------------- MODULE TaskOverdue -----------------------------
(***************************************************************************)
(* Due dates.  A task with a due date is listed in the time bucket of that *)
(* minute (nested/manager_time_bucket.go); Task.Update moves it from one   *)
(* bucket to another, and a job that every server runs once a minute       *)
(* (pkg/rpc/api/background_jobs.go) takes the buckets of past minutes and  *)
(* marks their tasks overdue.  Task documents and buckets are different    *)
(* collections: nothing makes a handler, or the job, atomic.               *)
(*                                                                         *)
(* One handler edits tasks at a time here; TaskService has the races of    *)
(* handlers with one another and of cache fills with removals, so a read   *)
(* through the cache is one step.  Nothing is cached at first and a copy   *)
(* lives an hour, more than the minutes of a behaviour: none expires.      *)
(***************************************************************************)
EXTENDS Integers, FiniteSets

CONSTANTS
  Tasks,        \* task ids
  None,         \* no cached copy; no task
  LastMinute,   \* bound: minutes the clock reaches
  MaxEdits,     \* bound: edits by users
  MaxCrashes    \* bound: crashes of the server

VARIABLES
  status,       \* the statuses in the documents, as the job tells them apart
  due,          \* the due dates in them; 0 is none
  bucket,       \* the tasks listed for each minute; {} when there is no bucket
  cache,        \* the tasks' copies in Redis
  now,          \* the current minute
  handler,      \* the handler serving an edit
  job,          \* JobOverdueTasks
  edits,        \* edits started so far
  crashes,      \* crashes so far
  torn          \* whether one of them left something half done for good

docs == <<status, due>>
counts == <<edits, crashes, torn>>
vars == <<docs, bucket, cache, now, handler, job, counts>>

BoundsAssumption ==
  LastMinute \in 1..59 /\ MaxEdits \in Nat /\ MaxCrashes \in Nat

(* Open: not assigned, assigned, rejected.  Closed: completed, failed,     *)
(* hold, canceled.                                                         *)
Statuses == {"Open", "Closed", "Overdue"}

Minutes == 1..LastMinute
Dues == 0..(LastMinute - 1)

Copies == [status : Statuses, due : Dues]

IdleHandler == [pc |-> "idle", task |-> None, due |-> 0, copy |-> None]

(* The job's local variables: the buckets it listed and has not begun, the *)
(* bucket it is at, the copies of that bucket's tasks it has not handled,  *)
(* and the task whose cached copy UpdateStatus is about to remove.         *)
IdleJob == [pc |-> "idle", left |-> [m \in Minutes |-> {}], at |-> 1,
            copies |-> {}, drop |-> None]

-----------------------------------------------------------------------------

(* Tasks as create leaves them: open, and listed when they have a due date.*)
Init ==
  /\ status = [t \in Tasks |-> "Open"]
  /\ due \in [Tasks -> Dues]
  /\ bucket = [m \in Minutes |-> {t \in Tasks : due[t] = m}]
  /\ cache = [t \in Tasks |-> None]
  /\ now = 1
  /\ handler = IdleHandler
  /\ job = IdleJob
  /\ edits = 0
  /\ crashes = 0
  /\ torn = FALSE

(* What readFromCache returns, and leaves in the cache.                    *)
Cached(t) == IF cache[t] # None THEN cache[t]
             ELSE [status |-> status[t], due |-> due[t]]

-----------------------------------------------------------------------------
(* Edits.                                                                  *)

Edit(t, pc, d) ==
  /\ handler.pc = "idle"
  /\ edits < MaxEdits
  /\ edits' = edits + 1
  /\ handler' = [pc |-> pc, task |-> t, due |-> d, copy |-> Cached(t)]
  /\ cache' = [cache EXCEPT ![t] = Cached(t)]
  /\ UNCHANGED <<docs, bucket, now, job, crashes, torn>>

(* task/update: any due date, none, or one that has passed already.        *)
ChangeDue(t, d) ==
  /\ Edit(t, "write", d)

(* task/set_status, task/set_state.                                        *)
Close(t) ==
  /\ Edit(t, "close", 0)

Goto(pc) == handler' = [handler EXCEPT !.pc = pc]

(* Update: the document first, then the buckets, if the due date differs   *)
(* from the copy's.                                                        *)
WriteDue ==
  /\ handler.pc = "write"
  /\ due' = [due EXCEPT ![handler.task] = handler.due]
  /\ Goto(IF handler.due # handler.copy.due THEN "unlist" ELSE "drop")
  /\ UNCHANGED <<status, bucket, cache, now, job, counts>>

(* Mutant: the task stays in its old bucket.                               *)
UnlistForgotten ==
  /\ handler.pc = "unlist"
  /\ Goto(IF handler.due = 0 THEN "open" ELSE "list")
  /\ UNCHANGED <<docs, bucket, cache, now, job, counts>>

(* Mutant: an upsert, which makes a bucket for the due date a task without *)
(* due date has.                                                           *)
UnlistUpserts ==
  /\ handler.pc = "unlist"
  /\ bucket' = [m \in Minutes \cup {handler.copy.due} |->
                  IF m \in Minutes THEN bucket[m] \ {handler.task} ELSE {}]
  /\ Goto(IF handler.due = 0 THEN "open" ELSE "list")
  /\ UNCHANGED <<docs, cache, now, job, counts>>

(* RemoveOverdueTask(t.DueDate, t.ID).                                     *)
Unlist ==
  /\ handler.pc = "unlist"
  /\ bucket' = [m \in Minutes |-> IF m = handler.copy.due
                                    THEN bucket[m] \ {handler.task}
                                    ELSE bucket[m]]
  /\ Goto(IF handler.due = 0 THEN "open" ELSE "list")
  /\ UNCHANGED <<docs, cache, now, job, counts>>

(* AddOverdueTask(dueDate, t.ID).                                          *)
List ==
  /\ handler.pc = "list"
  /\ bucket' = [bucket EXCEPT ![handler.due] = @ \cup {handler.task}]
  /\ Goto("open")
  /\ UNCHANGED <<docs, cache, now, job, counts>>

(* A new due date makes the task assigned or not assigned again, whatever  *)
(* it was; UpdateStatus writes only if the copy says otherwise.            *)
Open ==
  /\ handler.pc = "open"
  /\ status' = IF handler.copy.status # "Open"
                 THEN [status EXCEPT ![handler.task] = "Open"] ELSE status
  /\ Goto("drop")
  /\ UNCHANGED <<due, bucket, cache, now, job, counts>>

WriteClosed ==
  /\ handler.pc = "close"
  /\ status' = [status EXCEPT ![handler.task] = "Closed"]
  /\ Goto("drop")
  /\ UNCHANGED <<due, bucket, cache, now, job, counts>>

(* removeCache.                                                            *)
Finish ==
  /\ handler.pc = "drop"
  /\ cache' = [cache EXCEPT ![handler.task] = None]
  /\ handler' = IdleHandler
  /\ UNCHANGED <<docs, bucket, now, job, counts>>

-----------------------------------------------------------------------------
(* JobOverdueTasks.                                                        *)

Past == {m \in Minutes : m < now /\ bucket[m] # {}}

(* GetBucketsBefore: the buckets of past minutes, as they are now.         *)
ListBuckets ==
  /\ job.pc = "idle"
  /\ Past # {}
  /\ job' = [job EXCEPT !.pc = "bucket",
                        !.left = [m \in Minutes |->
                                    IF m \in Past THEN bucket[m] ELSE {}]]
  /\ UNCHANGED <<docs, bucket, cache, now, handler, counts>>

(* GetTasksByIDs of one listed bucket.                                     *)
ReadBucket(m) ==
  /\ job.pc = "bucket"
  /\ job.left[m] # {}
  /\ job' = [job EXCEPT !.pc = "task", !.at = m, !.left[m] = {},
                        !.copies = {[task |-> t, status |-> Cached(t).status] :
                                      t \in job.left[m]}]
  /\ cache' = [t \in Tasks |-> IF t \in job.left[m] THEN Cached(t)
                               ELSE cache[t]]
  /\ UNCHANGED <<docs, bucket, now, handler, counts>>

(* Mutant: after a closed task the job leaves the bucket's other tasks.    *)
SkipClosedLeaves(c) ==
  /\ job.pc = "task"
  /\ c \in job.copies
  /\ c.status = "Closed"
  /\ bucket' = [bucket EXCEPT ![job.at] = {}]
  /\ job' = [job EXCEPT !.copies = {}]
  /\ UNCHANGED <<docs, cache, now, handler, counts>>

(* A closed task is skipped, but the whole bucket is removed already.      *)
SkipClosed(c) ==
  /\ job.pc = "task"
  /\ c \in job.copies
  /\ c.status = "Closed"
  /\ bucket' = [bucket EXCEPT ![job.at] = {}]
  /\ job' = [job EXCEPT !.copies = @ \ {c}]
  /\ UNCHANGED <<docs, cache, now, handler, counts>>

(* Any other is marked by UpdateStatus, which asks its copy, not the       *)
(* document, whether there is something to write.                          *)
MarkOverdue(c) ==
  /\ job.pc = "task"
  /\ c \in job.copies
  /\ c.status # "Closed"
  /\ status' = IF c.status # "Overdue"
                 THEN [status EXCEPT ![c.task] = "Overdue"] ELSE status
  /\ job' = [job EXCEPT !.pc = "drop", !.drop = c.task, !.copies = @ \ {c}]
  /\ UNCHANGED <<due, bucket, cache, now, handler, counts>>

DropMarked ==
  /\ job.pc = "drop"
  /\ cache' = [cache EXCEPT ![job.drop] = None]
  /\ job' = [job EXCEPT !.pc = "task", !.drop = None]
  /\ UNCHANGED <<docs, bucket, now, handler, counts>>

(* The bucket is done: TimeBucket.Remove, with whatever it holds by now.   *)
RemoveBucket ==
  /\ job.pc = "task"
  /\ job.copies = {}
  /\ bucket' = [bucket EXCEPT ![job.at] = {}]
  /\ job' = IF \A m \in Minutes : job.left[m] = {}
              THEN IdleJob ELSE [job EXCEPT !.pc = "bucket"]
  /\ UNCHANGED <<docs, cache, now, handler, counts>>

-----------------------------------------------------------------------------

(* Assumed: an edit is over within the minute it began in.                 *)
Tick ==
  /\ now < LastMinute
  /\ handler.pc = "idle"
  /\ now' = now + 1
  /\ UNCHANGED <<docs, bucket, cache, handler, job, counts>>

(* The job has removed the bucket it is at, and has tasks of it to handle. *)
Beheaded == job.copies # {} /\ bucket[job.at] = {}

(* The server stops and starts again: what handlers and the job had in     *)
(* memory is lost, MongoDB and Redis are not.                              *)
Crash ==
  /\ crashes < MaxCrashes
  /\ crashes' = crashes + 1
  /\ torn' = (torn \/ handler.pc # "idle" \/ Beheaded)
  /\ handler' = IdleHandler
  /\ job' = IdleJob
  /\ UNCHANGED <<docs, bucket, cache, now, edits>>

(* Every edit of the bound is made, every minute has passed and the job    *)
(* has nothing to do: the model stops, not the server.                     *)
Quiet ==
  /\ edits = MaxEdits /\ now = LastMinute
  /\ handler.pc = "idle" /\ job.pc = "idle" /\ Past = {}
  /\ UNCHANGED vars

Handle == WriteDue \/ Unlist \/ List \/ Open \/ WriteClosed \/ Finish

Job ==
  \/ ListBuckets \/ RemoveBucket \/ DropMarked
  \/ \E m \in Minutes : ReadBucket(m)
  \/ \E c \in job.copies : SkipClosed(c) \/ MarkOverdue(c)

Next ==
  \/ \E t \in Tasks : Close(t) \/ \E d \in Dues : ChangeDue(t, d)
  \/ Handle
  \/ Job
  \/ Tick
  \/ Crash
  \/ Quiet

Spec == Init /\ [][Next]_vars

(* The clock advances, and the goroutines of the handler and of the job,   *)
(* which its loop starts again every minute, are scheduled.                *)
FairSpec == Spec /\ WF_vars(Tick) /\ WF_vars(Handle) /\ WF_vars(Job)

-----------------------------------------------------------------------------
(* Properties.                                                             *)

TypeOK ==
  /\ status \in [Tasks -> Statuses]
  /\ due \in [Tasks -> Dues]
  /\ bucket \in [Minutes -> SUBSET Tasks]
  /\ cache \in [Tasks -> Copies \cup {None}]
  /\ now \in Minutes

(* Between edits, unless a crash interrupted one, a task is listed for the *)
(* minutes to come exactly where its due date says: it will not be marked  *)
(* early by a bucket Update forgot it in, nor missed for want of one.      *)
BucketsFollowDue ==
  handler.pc = "idle" /\ ~torn
    => \A t \in Tasks, m \in now..LastMinute : t \in bucket[m] <=> due[t] = m

Waits(t, d) ==
  status[t] = "Open" /\ due[t] = d /\ t \in bucket[d] /\ now <= d
Served(t, d) == status[t] # "Open" \/ due[t] # d \/ torn

(* An open task listed for a due date that has not passed becomes overdue, *)
(* or is closed, or gets another due date, even if the server crashes half *)
(* way through the job: the next run finds the bucket again.  Two crashes  *)
(* are left out, and do lose tasks: one between the status and the cache   *)
(* of an edit leaves a copy the job takes for the task, and one after the  *)
(* job met a closed task finds the others' bucket removed already.         *)
DueServed ==
  \A t \in Tasks, d \in Dues \ {0} : Waits(t, d) ~> Served(t, d)
=============================================================================
