---------------------------- MODULE ServicesProofs ----------------------------
(***************************************************************************)
(* What is proved of the components that MC_Services checks.  Due dates    *)
(* and sessions are instances with parameters, and their lemmas hold for   *)
(* all of them; the theorems then say of every behaviour of MC_Services    *)
(* what the lemmas say of the component its part names.                    *)
(***************************************************************************)
EXTENDS MC_Services, FiniteSetTheorems, SequenceTheorems, TLAPS

-----------------------------------------------------------------------------
(* Due dates.                                                              *)

Editing == {"write", "unlist", "list", "open", "drop", "close"}

(* What the handler and the job remember: the copy the edit began with,    *)
(* and buckets of minutes that were past when they were listed.            *)
DueTypes(tasks, last) ==
  /\ status \in [tasks -> {"Open", "Closed", "Overdue"}]
  /\ due \in [tasks -> 0..(last - 1)]
  /\ bucket \in [1..last -> SUBSET tasks]
  /\ cache \in [tasks -> [status : {"Open", "Closed", "Overdue"},
                          due : 0..(last - 1)] \cup {Nil}]
  /\ now \in 1..last
  /\ torn \in BOOLEAN
  /\ handler.pc # "idle" =>
       handler \in [pc : Editing, task : tasks, due : 0..(last - 1),
                    copy : [status : {"Open", "Closed", "Overdue"},
                            due : 0..(last - 1)]]

JobBehind(tasks, last) ==
  /\ job \in [pc : {"idle", "bucket", "task", "drop"},
              left : [1..last -> SUBSET tasks], at : 1..last,
              copies : SUBSET [task : tasks,
                               status : {"Open", "Closed", "Overdue"}],
              drop : tasks \cup {Nil}]
  /\ \A m \in 1..last : job.left[m] # {} => m < now
  /\ job.pc \in {"task", "drop"} => job.at < now

(* An edit has changed the due date of a task and not removed its copy.    *)
Stale(t) ==
  handler.pc \in {"unlist", "list", "open", "drop"} /\ handler.task = t

(* The minute a task is listed for, if it is to come: that of its due date *)
(* but while Update moves it from one bucket to the other.                 *)
ListedFor(t) ==
  IF handler.pc = "unlist" /\ handler.task = t THEN handler.copy.due
  ELSE IF handler.pc = "list" /\ handler.task = t THEN 0
  ELSE due[t]

DueCurrent(tasks) ==
  /\ \A t \in tasks : cache[t] = Nil \/ Stale(t) \/ cache[t].due = due[t]
  /\ handler.pc = "write" => handler.copy.due = due[handler.task]
  /\ handler.pc \in {"unlist", "list"} => due[handler.task] = handler.due
  /\ handler.pc = "list" => handler.due # 0

DueListed(tasks, last) ==
  \A t \in tasks, m \in now..last : t \in bucket[m] <=> ListedFor(t) = m

DueInv(tasks, last) ==
  /\ DueTypes(tasks, last)
  /\ JobBehind(tasks, last)
  /\ ~torn => DueCurrent(tasks) /\ DueListed(tasks, last)

LEMMA DueStart ==
  ASSUME NEW tasks, NEW last \in 1..59, NEW most, NEW falls
  PROVE  Due(tasks, last, most, falls)!Init => DueInv(tasks, last)
<1> SUFFICES ASSUME Due(tasks, last, most, falls)!Init
             PROVE  DueInv(tasks, last)
  OBVIOUS
<1> USE DEF Due!Init, Due!Minutes, Due!Dues, Due!IdleHandler, Due!IdleJob
<1>1. DueTypes(tasks, last)
  <2>1. handler.pc = "idle" /\ torn = FALSE
    OBVIOUS
  <2>2. /\ status \in [tasks -> {"Open", "Closed", "Overdue"}]
        /\ due \in [tasks -> 0..(last - 1)]
        /\ bucket \in [1..last -> SUBSET tasks]
        /\ now \in 1..last
    OBVIOUS
  <2>3. cache \in [tasks -> [status : {"Open", "Closed", "Overdue"},
                             due : 0..(last - 1)] \cup {Nil}]
    OBVIOUS
  <2> QED
    BY <2>1, <2>2, <2>3 DEF DueTypes
<1>2. JobBehind(tasks, last)
  BY DEF JobBehind
<1>3. DueCurrent(tasks)
  BY DEF DueCurrent
<1>4. DueListed(tasks, last)
  BY DEF DueListed, ListedFor
<1> QED
  BY <1>1, <1>2, <1>3, <1>4 DEF DueInv

LEMMA DueHandles ==
  ASSUME NEW tasks, NEW last \in 1..59, NEW most, NEW falls,
         DueInv(tasks, last),
         Due(tasks, last, most, falls)!Handle
  PROVE  DueInv(tasks, last)'
<1> USE DEF Due!docs, Due!counts, Due!Minutes, Due!Dues
<1>1. CASE Due(tasks, last, most, falls)!WriteDue
  <2>1. DueTypes(tasks, last)'
    BY <1>1 DEF DueInv, DueTypes, Editing, Due!Goto, Due!WriteDue
  <2>2. JobBehind(tasks, last)'
    BY <1>1 DEF DueInv, DueTypes, JobBehind, Due!Goto, Due!WriteDue
  <2>3. ~torn' => DueCurrent(tasks)'
    BY <1>1 DEF DueInv, DueTypes, Editing, DueCurrent, Stale, Due!Goto,
       Due!WriteDue
  <2>4. ~torn' => DueListed(tasks, last)'
    BY <1>1 DEF DueInv, DueTypes, JobBehind, Editing, DueCurrent, DueListed,
       ListedFor, Due!Goto, Due!WriteDue
  <2> QED
    BY <2>1, <2>2, <2>3, <2>4 DEF DueInv
<1>2. CASE Due(tasks, last, most, falls)!Unlist
  <2>1. DueTypes(tasks, last)'
    BY <1>2 DEF DueInv, DueTypes, Editing, Due!Goto, Due!Unlist
  <2>2. JobBehind(tasks, last)'
    BY <1>2 DEF DueInv, DueTypes, JobBehind, Due!Goto, Due!Unlist
  <2>3. ~torn' => DueCurrent(tasks)'
    BY <1>2 DEF DueInv, DueTypes, Editing, DueCurrent, Stale, Due!Goto,
       Due!Unlist
  <2>4. ~torn' => DueListed(tasks, last)'
    BY <1>2 DEF DueInv, DueTypes, JobBehind, Editing, DueCurrent, DueListed,
       ListedFor, Due!Goto, Due!Unlist
  <2> QED
    BY <2>1, <2>2, <2>3, <2>4 DEF DueInv
<1>3. CASE Due(tasks, last, most, falls)!List
  <2>1. DueTypes(tasks, last)'
    BY <1>3 DEF DueInv, DueTypes, Editing, Due!Goto, Due!List
  <2>2. JobBehind(tasks, last)'
    BY <1>3 DEF DueInv, DueTypes, JobBehind, Due!Goto, Due!List
  <2>3. ~torn' => DueCurrent(tasks)'
    BY <1>3 DEF DueInv, DueTypes, Editing, DueCurrent, Stale, Due!Goto,
       Due!List
  <2>4. ~torn' => DueListed(tasks, last)'
    BY <1>3 DEF DueInv, DueTypes, JobBehind, Editing, DueCurrent, DueListed,
       ListedFor, Due!Goto, Due!List
  <2> QED
    BY <2>1, <2>2, <2>3, <2>4 DEF DueInv
<1>4. CASE Due(tasks, last, most, falls)!Open
  <2>1. DueTypes(tasks, last)'
    BY <1>4 DEF DueInv, DueTypes, Editing, Due!Goto, Due!Open
  <2>2. JobBehind(tasks, last)'
    BY <1>4 DEF DueInv, DueTypes, JobBehind, Due!Goto, Due!Open
  <2>3. ~torn' => DueCurrent(tasks)'
    BY <1>4 DEF DueInv, DueTypes, Editing, DueCurrent, Stale, Due!Goto,
       Due!Open
  <2>4. ~torn' => DueListed(tasks, last)'
    BY <1>4 DEF DueInv, DueTypes, JobBehind, Editing, DueCurrent, DueListed,
       ListedFor, Due!Goto, Due!Open
  <2> QED
    BY <2>1, <2>2, <2>3, <2>4 DEF DueInv
<1>5. CASE Due(tasks, last, most, falls)!WriteClosed
  <2>1. DueTypes(tasks, last)'
    BY <1>5 DEF DueInv, DueTypes, Editing, Due!Goto, Due!WriteClosed
  <2>2. JobBehind(tasks, last)'
    BY <1>5 DEF DueInv, DueTypes, JobBehind, Due!Goto, Due!WriteClosed
  <2>3. ~torn' => DueCurrent(tasks)'
    BY <1>5 DEF DueInv, DueTypes, Editing, DueCurrent, Stale, Due!Goto,
       Due!WriteClosed
  <2>4. ~torn' => DueListed(tasks, last)'
    BY <1>5 DEF DueInv, DueTypes, JobBehind, Editing, DueCurrent, DueListed,
       ListedFor, Due!Goto, Due!WriteClosed
  <2> QED
    BY <2>1, <2>2, <2>3, <2>4 DEF DueInv
<1>6. CASE Due(tasks, last, most, falls)!Finish
  <2>1. DueTypes(tasks, last)'
    BY <1>6 DEF DueInv, DueTypes, Editing, Due!Goto, Due!Finish,
       Due!IdleHandler
  <2>2. JobBehind(tasks, last)'
    BY <1>6 DEF DueInv, DueTypes, JobBehind, Due!Goto, Due!Finish,
       Due!IdleHandler
  <2>3. ~torn' => DueCurrent(tasks)'
    BY <1>6 DEF DueInv, DueTypes, Editing, DueCurrent, Stale, Due!Goto,
       Due!Finish, Due!IdleHandler
  <2>4. ~torn' => DueListed(tasks, last)'
    BY <1>6 DEF DueInv, DueTypes, JobBehind, Editing, DueCurrent, DueListed,
       ListedFor, Due!Goto, Due!Finish, Due!IdleHandler
  <2> QED
    BY <2>1, <2>2, <2>3, <2>4 DEF DueInv
<1> QED
  BY <1>1, <1>2, <1>3, <1>4, <1>5, <1>6 DEF Due!Handle

LEMMA DueWorks ==
  ASSUME NEW tasks, NEW last \in 1..59, NEW most, NEW falls,
         DueInv(tasks, last),
         Due(tasks, last, most, falls)!Job
  PROVE  DueInv(tasks, last)'
<1> USE DEF Due!docs, Due!counts, Due!Minutes, Due!Dues
<1>1. CASE Due(tasks, last, most, falls)!ListBuckets
  <2>1. DueTypes(tasks, last)'
    BY <1>1 DEF DueInv, DueTypes, Editing, Due!ListBuckets, Due!Past
  <2>2. JobBehind(tasks, last)'
    BY <1>1 DEF DueInv, DueTypes, JobBehind, Due!ListBuckets, Due!Past
  <2>3. ~torn' => DueCurrent(tasks)'
    BY <1>1 DEF DueInv, DueTypes, Editing, DueCurrent, Stale, Due!ListBuckets,
       Due!Past
  <2>4. ~torn' => DueListed(tasks, last)'
    BY <1>1 DEF DueInv, DueTypes, JobBehind, Editing, DueCurrent, DueListed,
       ListedFor, Due!ListBuckets, Due!Past
  <2> QED
    BY <2>1, <2>2, <2>3, <2>4 DEF DueInv
<1>2. CASE Due(tasks, last, most, falls)!RemoveBucket
  <2>1. DueTypes(tasks, last)'
    BY <1>2 DEF DueInv, DueTypes, Editing, Due!RemoveBucket, Due!IdleJob
  <2>2. JobBehind(tasks, last)'
    <3>1. /\ job.pc = "task" /\ now' = now
          /\ \/ job' = Due(tasks, last, most, falls)!IdleJob
             \/ job' = [job EXCEPT !.pc = "bucket"]
      BY <1>2 DEF Due!RemoveBucket
    <3>2. CASE job' = Due(tasks, last, most, falls)!IdleJob
      <4>1. job' = [pc |-> "idle", left |-> [m \in 1..last |-> {}], at |-> 1,
                    copies |-> {}, drop |-> Nil]
        BY <3>2 DEF Due!IdleJob
      <4>2. 1 \in 1..last /\ [m \in 1..last |-> {}] \in [1..last -> SUBSET tasks]
        OBVIOUS
      <4>3. job' \in [pc : {"idle", "bucket", "task", "drop"},
                      left : [1..last -> SUBSET tasks], at : 1..last,
                      copies : SUBSET [task : tasks,
                                       status : {"Open", "Closed", "Overdue"}],
                      drop : tasks \cup {Nil}]
        BY <4>1, <4>2
      <4> QED
        BY <4>1, <4>3 DEF JobBehind
    <3>3. CASE job' = [job EXCEPT !.pc = "bucket"]
      BY <3>1, <3>3 DEF DueInv, JobBehind
    <3> QED
      BY <3>1, <3>2, <3>3
  <2>3. ~torn' => DueCurrent(tasks)'
    BY <1>2 DEF DueInv, DueTypes, Editing, DueCurrent, Stale, Due!RemoveBucket,
       Due!IdleJob
  <2>4. ~torn' => DueListed(tasks, last)'
    BY <1>2 DEF DueInv, DueTypes, JobBehind, Editing, DueCurrent, DueListed,
       ListedFor, Due!RemoveBucket, Due!IdleJob
  <2> QED
    BY <2>1, <2>2, <2>3, <2>4 DEF DueInv
<1>3. CASE Due(tasks, last, most, falls)!DropMarked
  <2>1. DueTypes(tasks, last)'
    BY <1>3 DEF DueInv, DueTypes, Editing, Due!DropMarked
  <2>2. JobBehind(tasks, last)'
    BY <1>3 DEF DueInv, DueTypes, JobBehind, Due!DropMarked
  <2>3. ~torn' => DueCurrent(tasks)'
    BY <1>3 DEF DueInv, DueTypes, Editing, DueCurrent, Stale, Due!DropMarked
  <2>4. ~torn' => DueListed(tasks, last)'
    BY <1>3 DEF DueInv, DueTypes, JobBehind, Editing, DueCurrent, DueListed,
       ListedFor, Due!DropMarked
  <2> QED
    BY <2>1, <2>2, <2>3, <2>4 DEF DueInv
<1>4. ASSUME NEW m \in 1..last,
             Due(tasks, last, most, falls)!ReadBucket(m)
      PROVE  DueInv(tasks, last)'
  <2>1. DueTypes(tasks, last)'
    BY <1>4 DEF DueInv, DueTypes, Editing, Due!ReadBucket, Due!Cached
  <2>2. JobBehind(tasks, last)'
    <3> DEFINE read == {[task |-> t,
                         status |-> Due(tasks, last, most, falls)!Cached(t).status] :
                          t \in job.left[m]}
    <3>1. /\ job.left[m] # {} /\ now' = now
          /\ job' = [job EXCEPT !.pc = "task", !.at = m, !.left[m] = {},
                                !.copies = read]
      BY <1>4 DEF Due!ReadBucket
    <3>2. read \in SUBSET [task : tasks,
                           status : {"Open", "Closed", "Overdue"}]
      <4>1. job.left[m] \in SUBSET tasks
        BY DEF DueInv, JobBehind
      <4>2. ASSUME NEW t \in tasks
            PROVE  Due(tasks, last, most, falls)!Cached(t).status
                     \in {"Open", "Closed", "Overdue"}
        BY DEF DueInv, DueTypes, Due!Cached
      <4> QED
        BY <4>1, <4>2
    <3> HIDE DEF read
    <3>3. /\ job'.pc = "task" /\ job'.at = m /\ m < now
          /\ job'.left = [job.left EXCEPT ![m] = {}]
          /\ job'.copies = read /\ job'.drop = job.drop
          /\ DOMAIN job' = DOMAIN job
      BY <3>1 DEF DueInv, JobBehind
    <3> QED
      BY <3>1, <3>2, <3>3 DEF DueInv, JobBehind
  <2>3. ~torn' => DueCurrent(tasks)'
    BY <1>4 DEF DueInv, DueTypes, Editing, DueCurrent, Stale, Due!ReadBucket,
       Due!Cached
  <2>4. ~torn' => DueListed(tasks, last)'
    BY <1>4 DEF DueInv, DueTypes, JobBehind, Editing, DueCurrent, DueListed,
       ListedFor, Due!ReadBucket, Due!Cached
  <2> QED
    BY <2>1, <2>2, <2>3, <2>4 DEF DueInv
<1>5. ASSUME NEW c \in job.copies,
             Due(tasks, last, most, falls)!SkipClosed(c)
      PROVE  DueInv(tasks, last)'
  <2>1. DueTypes(tasks, last)'
    BY <1>5 DEF DueInv, DueTypes, Editing, Due!SkipClosed
  <2>2. JobBehind(tasks, last)'
    BY <1>5 DEF DueInv, DueTypes, JobBehind, Due!SkipClosed
  <2>3. ~torn' => DueCurrent(tasks)'
    BY <1>5 DEF DueInv, DueTypes, Editing, DueCurrent, Stale, Due!SkipClosed
  <2>4. ~torn' => DueListed(tasks, last)'
    BY <1>5 DEF DueInv, DueTypes, JobBehind, Editing, DueCurrent, DueListed,
       ListedFor, Due!SkipClosed
  <2> QED
    BY <2>1, <2>2, <2>3, <2>4 DEF DueInv
<1>6. ASSUME NEW c \in job.copies,
             Due(tasks, last, most, falls)!MarkOverdue(c)
      PROVE  DueInv(tasks, last)'
  <2>1. DueTypes(tasks, last)'
    BY <1>6 DEF DueInv, DueTypes, Editing, Due!MarkOverdue
  <2>2. JobBehind(tasks, last)'
    BY <1>6 DEF DueInv, DueTypes, JobBehind, Due!MarkOverdue
  <2>3. ~torn' => DueCurrent(tasks)'
    BY <1>6 DEF DueInv, DueTypes, Editing, DueCurrent, Stale, Due!MarkOverdue
  <2>4. ~torn' => DueListed(tasks, last)'
    BY <1>6 DEF DueInv, DueTypes, JobBehind, Editing, DueCurrent, DueListed,
       ListedFor, Due!MarkOverdue
  <2> QED
    BY <2>1, <2>2, <2>3, <2>4 DEF DueInv
<1> QED
  BY <1>1, <1>2, <1>3, <1>4, <1>5, <1>6 DEF Due!Job

LEMMA DueStep ==
  ASSUME NEW tasks, NEW last \in 1..59, NEW most, NEW falls,
         DueInv(tasks, last),
         \/ Due(tasks, last, most, falls)!Next
         \/ UNCHANGED Due(tasks, last, most, falls)!vars
  PROVE  DueInv(tasks, last)'
<1> USE DEF Due!docs, Due!counts, Due!Minutes, Due!Dues
<1>1. ASSUME NEW t \in tasks, NEW d \in 0..(last - 1),
             \/ Due(tasks, last, most, falls)!Close(t)
             \/ Due(tasks, last, most, falls)!ChangeDue(t, d)
      PROVE  DueInv(tasks, last)'
  <2> DEFINE copied == Due(tasks, last, most, falls)!Cached(t)
  <2>1. \E pc \in {"close", "write"}, e \in 0..(last - 1) :
          Due(tasks, last, most, falls)!Edit(t, pc, e)
    BY <1>1 DEF Due!Close, Due!ChangeDue
  <2>2. PICK pc \in {"close", "write"}, e \in 0..(last - 1) :
          Due(tasks, last, most, falls)!Edit(t, pc, e)
    BY <2>1
  <2>3. /\ handler.pc = "idle"
        /\ handler' = [pc |-> pc, task |-> t, due |-> e, copy |-> copied]
        /\ cache' = [cache EXCEPT ![t] = copied]
        /\ UNCHANGED <<status, due, bucket, now, job, torn>>
    BY <2>2 DEF Due!Edit
  <2>4. copied \in [status : {"Open", "Closed", "Overdue"},
                    due : 0..(last - 1)]
    BY DEF DueInv, DueTypes, Due!Cached
  <2>5. ~torn => copied.due = due[t]
    BY <2>3 DEF DueInv, DueTypes, DueCurrent, Stale, Due!Cached
  <2> HIDE DEF copied
  <2>6. DueTypes(tasks, last)'
    BY <2>3, <2>4 DEF DueInv, DueTypes, Editing
  <2>7. JobBehind(tasks, last)'
    BY <2>3 DEF DueInv, JobBehind
  <2>8. ~torn' => DueCurrent(tasks)'
    BY <2>3, <2>4, <2>5 DEF DueInv, DueTypes, DueCurrent, Stale
  <2>9. ~torn' => DueListed(tasks, last)'
    BY <2>3 DEF DueInv, DueTypes, DueListed, ListedFor
  <2> QED
    BY <2>6, <2>7, <2>8, <2>9 DEF DueInv
<1>2. CASE Due(tasks, last, most, falls)!Handle
  BY <1>2, DueHandles
<1>3. CASE Due(tasks, last, most, falls)!Job
  BY <1>3, DueWorks
<1>4. CASE Due(tasks, last, most, falls)!Tick
  <2>1. now' \in 1..last /\ now' = now + 1 /\ now \in 1..last
    BY <1>4 DEF Due!Tick, DueInv, DueTypes
  <2>2. UNCHANGED <<status, due, bucket, cache, handler, job, torn>>
    BY <1>4 DEF Due!Tick
  <2>3. DueTypes(tasks, last)'
    BY <2>1, <2>2 DEF DueInv, DueTypes
  <2>4. JobBehind(tasks, last)'
    BY <2>1, <2>2 DEF DueInv, JobBehind
  <2>5. ~torn' => DueCurrent(tasks)' /\ DueListed(tasks, last)'
    BY <2>1, <2>2 DEF DueInv, DueCurrent, DueListed, ListedFor, Stale
  <2> QED
    BY <2>3, <2>4, <2>5 DEF DueInv
<1>5. CASE Due(tasks, last, most, falls)!Crash
  <2>1. /\ handler'.pc = "idle" /\ torn' \in BOOLEAN
        /\ ~torn' => ~torn /\ handler.pc = "idle"
        /\ job' = Due(tasks, last, most, falls)!IdleJob
        /\ UNCHANGED <<status, due, bucket, cache, now>>
    BY <1>5 DEF Due!Crash, Due!IdleHandler, DueInv, DueTypes
  <2>2. DueTypes(tasks, last)'
    BY <2>1 DEF DueInv, DueTypes
  <2>3. JobBehind(tasks, last)'
    BY <2>1 DEF DueInv, JobBehind, Due!IdleJob
  <2>4. ~torn' => DueCurrent(tasks)' /\ DueListed(tasks, last)'
    BY <2>1 DEF DueInv, DueCurrent, DueListed, ListedFor, Stale
  <2> QED
    BY <2>2, <2>3, <2>4 DEF DueInv
<1>6. CASE UNCHANGED Due(tasks, last, most, falls)!vars
  BY <1>6 DEF Due!vars, DueInv, DueTypes, JobBehind, DueCurrent, DueListed,
              ListedFor, Stale
<1> QED
  BY <1>1, <1>2, <1>3, <1>4, <1>5, <1>6 DEF Due!Next, Due!Quiet

LEMMA DueTyped ==
  ASSUME NEW tasks, NEW last \in 1..59, NEW most, NEW falls,
         DueInv(tasks, last)
  PROVE  /\ Due(tasks, last, most, falls)!TypeOK
         /\ Due(tasks, last, most, falls)!BucketsFollowDue
<1>1. Due(tasks, last, most, falls)!TypeOK
  BY DEF DueInv, DueTypes, Due!TypeOK, Due!Statuses, Due!Dues, Due!Minutes,
         Due!Copies
<1>2. Due(tasks, last, most, falls)!BucketsFollowDue
  BY DEF DueInv, DueTypes, DueListed, ListedFor, Due!BucketsFollowDue
<1> QED
  BY <1>1, <1>2

(* Buckets agree with the due dates to come, whatever the tasks, the edits *)
(* and the crashes.                                                        *)
THEOREM DueFollowed ==
  ASSUME NEW tasks, NEW last \in 1..59, NEW most, NEW falls
  PROVE  Due(tasks, last, most, falls)!Spec =>
           []Due(tasks, last, most, falls)!BucketsFollowDue
<1>1. Due(tasks, last, most, falls)!Init => DueInv(tasks, last)
  BY DueStart
<1>2. DueInv(tasks, last) /\
      [Due(tasks, last, most, falls)!Next]_(Due(tasks, last, most, falls)!vars)
        => DueInv(tasks, last)'
  BY DueStep
<1>3. DueInv(tasks, last) =>
        Due(tasks, last, most, falls)!BucketsFollowDue
  BY DEF DueInv, DueTypes, DueListed, ListedFor, Due!BucketsFollowDue
<1> QED
  BY <1>1, <1>2, <1>3, PTL DEF Due!Spec

-----------------------------------------------------------------------------
(* Sessions.                                                               *)

Docs(people) == [uid : people \cup {Nil}, expired : BOOLEAN]

SessionCalls(people, requests, most) ==
  [do : {"get", "find", "expire", "touch", "closing", "recalled"},
   at : 1..most,
   arg : {Nil}]
    \cup [do : {"store"}, at : 1..most, arg : Docs(people) \cup {Nil}]
    \cup [do : {"verify", "recall"}, at : 1..most, arg : requests]
    \cup [do : {"handle"}, at : 1..most \cup {Nil}, arg : requests]
    \cup [do : {"own"}, at : 1..most,
          arg : (1..most \cup {Nil}) \X (people \cup {Nil})]
    \cup [do : {"create"}, at : {Nil}, arg : people \cup {Nil}]
    \cup [do : {"login"}, at : 1..most, arg : people \cup {Nil}]

(* What a script ends with.                                                *)
Endings ==
  {"verify", "recall", "handle", "own", "create", "login", "closing",
   "recalled"}

(* Of n sessions, what a worker still has to do with them: a copy is       *)
(* stored at once.                                                         *)
ToDo(n, c) ==
  /\ c.at # Nil => c.at <= n
  /\ c.do \in {"verify", "recall", "handle"} =>
       /\ c.at = c.arg.by
       /\ c.arg.other # Nil => c.arg.other <= n

LoginScript(people, requests, most, n, s) ==
  /\ s \in Seq(SessionCalls(people, requests, most))
  /\ \A i \in 1..Len(s) :
       /\ ToDo(n, s[i])
       /\ s[i].do = "store" => i = 1
       /\ s[i].do \in Endings => i = Len(s)

LoginTypes(people, workers, requests, most) ==
  /\ session \in [1..most -> Docs(people) \cup {Nil}]
  /\ cached \in [1..most -> Docs(people) \cup {Nil}]
  /\ copy \in [workers -> Docs(people) \cup {Nil}]
  /\ ids \in 0..most /\ closed \subseteq 1..ids
  /\ DOMAIN script = workers
  /\ \A w \in workers : LoginScript(people, requests, most, ids, script[w])

(* Scripts that will create a session, and the bound on them.              *)
Making(s) ==
  /\ s # <<>>
  /\ \/ s[Len(s)].do = "create"
     \/ s[Len(s)].do \in {"verify", "handle"} /\ s[Len(s)].arg.op = "register"
Makers(workers) == {w \in workers : Making(script[w])}
LoginRoom(workers, most) == ids + Cardinality(Makers(workers)) <= most

Live(d) == d # Nil /\ ~d.expired

(* A closed session is over, and a copy that says otherwise is about to be *)
(* replaced by one that does not.                                          *)
ClosedOver(workers) ==
  /\ \A s \in closed : ~Live(session[s])
  /\ \A s \in closed : Live(cached[s]) =>
       \E w \in workers : /\ script[w] # <<>> /\ Head(script[w]).at = s
                          /\ Head(script[w]).do \in {"find", "store"}
  /\ \A w \in workers :
       /\ script[w] # <<>> /\ Head(script[w]).do = "store"
       /\ Head(script[w]).at \in closed
       => ~Live(Head(script[w]).arg)


(* The sessions that requests name.                                        *)
Naming(requests, most) ==
  \A r \in requests : {r.by, r.other} \subseteq 1..most \cup {Nil}

(* A script that grows no longer, or by a command that ends none.          *)
LEMMA ScriptGoes ==
  ASSUME NEW people, NEW requests, NEW most \in Nat, NEW n \in Nat,
         NEW m \in Nat, n <= m, NEW s, s # <<>>,
         LoginScript(people, requests, most, n, s),
         Head(s).do \notin Endings, Naming(requests, most),
         NEW c \in SessionCalls(people, requests, most),
         ToDo(m, c), c.do \notin Endings
  PROVE  /\ LoginScript(people, requests, most, m, Tail(s))
         /\ LoginScript(people, requests, most, m, <<c>> \o Tail(s))
         /\ Making(Tail(s)) => Making(s)
         /\ Making(<<c>> \o Tail(s)) => Making(s)
         /\ Tail(s) # <<>> => Head(Tail(s)).do # "store"
         /\ Head(<<c>> \o Tail(s)) = c
<1> DEFINE C == SessionCalls(people, requests, most)
<1> DEFINE t == Tail(s)
<1> DEFINE u == <<c>> \o t
<1>1. /\ s \in Seq(C) /\ Len(s) \in Nat /\ Len(s) >= 1 /\ Head(s) = s[1]
      /\ t \in Seq(C) /\ Len(t) = Len(s) - 1
      /\ \A i \in 1..Len(t) : t[i] = s[i + 1] /\ i + 1 \in 1..Len(s)
  BY DEF LoginScript
<1>2. /\ u \in Seq(C) /\ Len(u) = Len(s) /\ u[1] = c /\ u # <<>>
      /\ \A i \in 2..Len(u) : u[i] = s[i]
      /\ Head(u) = c
  <2>1. <<c>> \in Seq(C) /\ Len(<<c>>) = 1 /\ <<c>>[1] = c
    OBVIOUS
  <2>2. u \in Seq(C) /\ Len(u) = 1 + Len(t)
    BY <1>1, <2>1
  <2>3. \A i \in 1..Len(u) :
          u[i] = IF i <= 1 THEN <<c>>[i] ELSE t[i - 1]
    BY <1>1, <2>1, <2>2
  <2>4. \A i \in 2..Len(u) : u[i] = s[i]
    <3> TAKE i \in 2..Len(u)
    <3>1. i - 1 \in 1..Len(t) /\ (i - 1) + 1 = i
      BY <1>1, <2>2
    <3>2. t[i - 1] = s[i]
      BY <1>1, <3>1
    <3> QED
      BY <1>1, <2>2, <2>3, <3>2
  <2>5. u[1] = c
    BY <1>1, <2>1, <2>2, <2>3
  <2> QED
    BY <1>1, <2>2, <2>4, <2>5
<1> HIDE DEF t, u, C
<1>3. \A i \in 1..Len(s) :
        /\ ToDo(n, s[i])
        /\ s[i].do = "store" => i = 1
        /\ s[i].do \in Endings => i = Len(s)
  BY DEF LoginScript
<1>4. \A i \in 1..Len(s) : s[i] \in C /\ ToDo(m, s[i])
  <2> TAKE i \in 1..Len(s)
  <2>1. s[i] \in C /\ ToDo(n, s[i])
    BY <1>1, <1>3
  <2> DEFINE a == s[i]
  <2>2. a \in C /\ ToDo(n, a)
    BY <2>1
  <2> HIDE DEF a
  <2>3. /\ a.at # Nil => a.at \in 1..most
        /\ a.do \in {"verify", "recall", "handle"} => a.arg \in requests
    BY <2>2 DEF SessionCalls, C
  <2>4. ToDo(m, a)
    BY <2>2, <2>3 DEF ToDo, Naming
  <2> QED
    BY <2>1, <2>4 DEF a
<1>5. LoginScript(people, requests, most, m, t)
  <2>1. ASSUME NEW i \in 1..Len(t)
        PROVE  /\ ToDo(m, t[i])
               /\ t[i].do = "store" => i = 1
               /\ t[i].do \in Endings => i = Len(t)
    <3>1. i + 1 \in 1..Len(s) /\ t[i] = s[i + 1] /\ i + 1 # 1
      BY <1>1
    <3>2. i + 1 = Len(s) => i = Len(t)
      BY <1>1
    <3> QED
      BY <1>3, <1>4, <3>1, <3>2
  <2> QED
    BY <1>1, <2>1 DEF LoginScript, C
<1>6. LoginScript(people, requests, most, m, u)
  <2>1. \A i \in 1..Len(u) : i = 1 \/ i \in 2..Len(u)
    BY <1>1, <1>2
  <2> QED
    BY <1>1, <1>2, <1>3, <1>4, <2>1 DEF LoginScript, C
<1>7. Making(t) => Making(s)
  BY <1>1 DEF Making
<1>8. Making(u) => Making(s)
  <2>1. CASE Len(s) = 1
    BY <1>1, <1>2, <2>1 DEF Making, Endings
  <2>2. CASE Len(s) # 1
    BY <1>1, <1>2, <2>2 DEF Making
  <2> QED
    BY <2>1, <2>2
<1>9. t # <<>> => Head(t).do # "store"
  <2> SUFFICES ASSUME t # <<>> PROVE Head(t).do # "store"
    OBVIOUS
  <2>1. 1 \in 1..Len(t) /\ Head(t) = t[1]
    BY <1>1
  <2>2. Head(t) = s[1 + 1] /\ 1 + 1 \in 1..Len(s) /\ 1 + 1 # 1
    BY <1>1, <2>1
  <2> QED
    BY <1>3, <2>2
<1> QED
  BY <1>2, <1>5, <1>6, <1>7, <1>8, <1>9 DEF t, u

(* A command that ends a script is its last.                               *)
LEMMA ScriptEnds ==
  ASSUME NEW people, NEW requests, NEW most \in Nat, NEW n \in Nat,
         NEW s, s # <<>>, LoginScript(people, requests, most, n, s)
  PROVE  /\ Head(s) \in SessionCalls(people, requests, most)
         /\ ToDo(n, Head(s))
         /\ Head(s).do \in Endings => Tail(s) = <<>> /\ s[Len(s)] = Head(s)
<1>1. /\ s \in Seq(SessionCalls(people, requests, most))
      /\ 1 \in 1..Len(s) /\ Head(s) = s[1] /\ Len(s) \in Nat
  BY DEF LoginScript
<1>2. Head(s).do \in Endings => Len(s) = 1
  BY <1>1 DEF LoginScript
<1>3. Len(s) = 1 => Tail(s) = <<>> /\ s[Len(s)] = Head(s)
  <2> SUFFICES ASSUME Len(s) = 1
               PROVE  Tail(s) = <<>> /\ s[Len(s)] = Head(s)
    OBVIOUS
  <2>1. Tail(s) \in Seq(SessionCalls(people, requests, most)) /\ Len(Tail(s)) = 0
    BY <1>1
  <2> QED
    BY <1>1, <2>1, EmptySeq
<1> QED
  BY <1>1, <1>2, <1>3 DEF LoginScript

(* Scripts of at most three commands, the last of which may end them.        *)
LEMMA ScriptShort ==
  ASSUME NEW people, NEW requests, NEW most \in Nat, NEW n \in Nat
  PROVE  /\ LoginScript(people, requests, most, n, <<>>)
         /\ ~Making(<<>>)
         /\ \A c \in SessionCalls(people, requests, most) :
              ToDo(n, c) =>
                /\ LoginScript(people, requests, most, n, <<c>>)
                /\ Making(<<c>>) =>
                     \/ c.do = "create"
                     \/ c.do \in {"verify", "handle"} /\ c.arg.op = "register"
         /\ \A c, d \in SessionCalls(people, requests, most) :
              (/\ ToDo(n, c) /\ ToDo(n, d)
               /\ c.do \notin Endings /\ d.do # "store")
              => /\ LoginScript(people, requests, most, n, <<c, d>>)
                 /\ Making(<<c, d>>) =>
                      \/ d.do = "create"
                      \/ /\ d.do \in {"verify", "handle"}
                         /\ d.arg.op = "register"
         /\ \A c, d, e \in SessionCalls(people, requests, most) :
              (/\ ToDo(n, c) /\ ToDo(n, d) /\ ToDo(n, e)
               /\ c.do \notin Endings /\ d.do \notin Endings \cup {"store"}
               /\ e.do # "store")
              => /\ LoginScript(people, requests, most, n, <<c, d, e>>)
                 /\ Making(<<c, d, e>>) =>
                      \/ e.do = "create"
                      \/ /\ e.do \in {"verify", "handle"}
                         /\ e.arg.op = "register"
<1>1. /\ LoginScript(people, requests, most, n, <<>>)
      /\ ~Making(<<>>)
  BY DEF LoginScript, Making
<1>2. ASSUME NEW c \in SessionCalls(people, requests, most), ToDo(n, c)
      PROVE  /\ LoginScript(people, requests, most, n, <<c>>)
             /\ Making(<<c>>) =>
                  \/ c.do = "create"
                  \/ c.do \in {"verify", "handle"} /\ c.arg.op = "register"
  <2>1. /\ <<c>> \in Seq(SessionCalls(people, requests, most))
        /\ Len(<<c>>) = 1 /\ <<c>>[1] = c
    OBVIOUS
  <2> QED
    BY <1>2, <2>1 DEF LoginScript, Making
<1>3. ASSUME NEW c \in SessionCalls(people, requests, most),
             NEW d \in SessionCalls(people, requests, most),
             ToDo(n, c), ToDo(n, d), c.do \notin Endings, d.do # "store"
      PROVE  /\ LoginScript(people, requests, most, n, <<c, d>>)
             /\ Making(<<c, d>>) =>
                  \/ d.do = "create"
                  \/ d.do \in {"verify", "handle"} /\ d.arg.op = "register"
  <2>1. /\ <<c, d>> \in Seq(SessionCalls(people, requests, most))
        /\ Len(<<c, d>>) = 2 /\ <<c, d>>[1] = c /\ <<c, d>>[2] = d
    OBVIOUS
  <2> QED
    BY <1>3, <2>1 DEF LoginScript, Making
<1>4. ASSUME NEW c \in SessionCalls(people, requests, most),
             NEW d \in SessionCalls(people, requests, most),
             NEW e \in SessionCalls(people, requests, most),
             ToDo(n, c), ToDo(n, d), ToDo(n, e), c.do \notin Endings,
             d.do \notin Endings \cup {"store"}, e.do # "store"
      PROVE  /\ LoginScript(people, requests, most, n, <<c, d, e>>)
             /\ Making(<<c, d, e>>) =>
                  \/ e.do = "create"
                  \/ e.do \in {"verify", "handle"} /\ e.arg.op = "register"
  <2>1. /\ <<c, d, e>> \in Seq(SessionCalls(people, requests, most))
        /\ Len(<<c, d, e>>) = 3 /\ <<c, d, e>>[1] = c
        /\ <<c, d, e>>[2] = d /\ <<c, d, e>>[3] = e
    OBVIOUS
  <2> QED
    BY <1>4, <2>1 DEF LoginScript, Making
<1> QED
  BY <1>1, <1>2, <1>3, <1>4

(* Short scripts, one after the other.                                     *)
LEMMA Cats ==
  /\ \A a, b : <<a>> \o <<b>> = <<a, b>>
  /\ \A a, b, c : <<a, b>> \o <<c>> = <<a, b, c>>
  /\ \A a : <<a>> \o <<>> = <<a>> /\ <<>> \o <<a>> = <<a>>
  /\ \A a, b : <<a, b>> \o <<>> = <<a, b>>
  /\ \A a, b, c : <<a, b, c>> \o <<>> = <<a, b, c>>
  /\ <<>> \o <<>> = <<>>
  /\ \A a, b, c : /\ Head(<<a>>) = a /\ Head(<<a, b>>) = a
                  /\ Head(<<a, b, c>>) = a
<1>1. ASSUME NEW a, NEW b PROVE <<a>> \o <<b>> = <<a, b>>
  <2> DEFINE S == {a, b}
  <2> DEFINE u == <<a>> \o <<b>>
  <2>1. u \in Seq(S) /\ Len(u) = 2 /\ u[1] = a /\ u[2] = b
    OBVIOUS
  <2>2. <<a, b>> \in Seq(S) /\ Len(<<a, b>>) = 2 /\ <<a, b>>[1] = a /\ <<a, b>>[2] = b
    OBVIOUS
  <2> HIDE DEF u, S
  <2>3. \A i \in 1..Len(u) : u[i] = <<a, b>>[i]
    BY <2>1, <2>2
  <2>4. u = <<a, b>>
    BY <2>1, <2>2, <2>3, SeqEqual
  <2> QED
    BY <2>4 DEF u
<1>2. ASSUME NEW a, NEW b, NEW c PROVE <<a, b>> \o <<c>> = <<a, b, c>>
  <2> DEFINE S == {a, b, c}
  <2> DEFINE u == <<a, b>> \o <<c>>
  <2>1. u \in Seq(S) /\ Len(u) = 3 /\ u[1] = a /\ u[2] = b /\ u[3] = c
    OBVIOUS
  <2> DEFINE v == <<a, b, c>>
  <2>2. v \in Seq(S) /\ Len(v) = 3 /\ v[1] = a /\ v[2] = b /\ v[3] = c
    OBVIOUS
  <2> HIDE DEF u, S, v
  <2>3. \A i \in 1..Len(u) : u[i] = v[i]
    BY <2>1, <2>2
  <2>4. u = v
    BY <2>1, <2>2, <2>3, SeqEqual
  <2> QED
    BY <2>4 DEF u, v
<1>3. \A a : <<a>> \o <<>> = <<a>> /\ <<>> \o <<a>> = <<a>>
  OBVIOUS
<1>4. \A a, b : <<a, b>> \o <<>> = <<a, b>>
  OBVIOUS
<1>5. \A a, b, c : <<a, b, c>> \o <<>> = <<a, b, c>>
  OBVIOUS
<1>6. <<>> \o <<>> = <<>>
  OBVIOUS
<1>7. \A a, b, c : /\ Head(<<a>>) = a /\ Head(<<a, b>>) = a
                   /\ Head(<<a, b, c>>) = a
  OBVIOUS
<1> QED
  BY <1>1, <1>2, <1>3, <1>4, <1>5, <1>6, <1>7

(* What is known of a worker's next command.                               *)
LEMMA LoginHead ==
  ASSUME NEW people, NEW workers, NEW requests, NEW most, NEW n,
         Logins(people, workers, requests, most, n)!SessionsAssumption,
         LoginTypes(people, workers, requests, most),
         NEW w \in workers, script[w] # <<>>
  PROVE  /\ most \in Nat /\ ids \in Nat /\ ids <= most
         /\ Naming(requests, most)
         /\ LoginScript(people, requests, most, ids, script[w])
         /\ Head(script[w]).do \in
              Endings \cup {"get", "find", "store", "expire", "touch"}
         /\ Head(script[w]).do \notin {"create", "handle"} =>
              Head(script[w]).at \in 1..most /\ Head(script[w]).at <= ids
         /\ Head(script[w]).do = "store" =>
              Head(script[w]).arg \in Docs(people) \cup {Nil}
         /\ Head(script[w]).do \in {"verify", "recall", "handle"} =>
              /\ Head(script[w]).arg \in requests
              /\ Head(script[w]).at = Head(script[w]).arg.by
              /\ Head(script[w]).arg.by # Nil =>
                   /\ Head(script[w]).arg.by \in 1..most
                   /\ Head(script[w]).arg.by <= ids
              /\ Head(script[w]).arg.other # Nil =>
                   /\ Head(script[w]).arg.other \in 1..most
                   /\ Head(script[w]).arg.other <= ids
              /\ Head(script[w]).arg.uid \in people \cup {Nil}
              /\ Head(script[w]).arg.op # "register" =>
                   Head(script[w]).arg.by # Nil
              /\ Head(script[w]).arg.op = "close_active" =>
                   Head(script[w]).arg.other # Nil
         /\ Head(script[w]).do \in {"create", "login"} =>
              Head(script[w]).arg \in people \cup {Nil}
         /\ Head(script[w]).do \in Endings =>
              /\ Tail(script[w]) = <<>>
              /\ script[w][Len(script[w])] = Head(script[w])
<1> DEFINE h == Head(script[w])
<1>1. /\ most \in Nat /\ ids \in Nat /\ ids <= most
      /\ LoginScript(people, requests, most, ids, script[w])
      /\ Nil \notin 1..most
  BY DEF LoginTypes, Logins!SessionsAssumption, Logins!SessionIds
<1>2. \A r \in requests :
        /\ {r.by, r.other} \subseteq 1..most \cup {Nil}
        /\ r.uid \in people \cup {Nil}
        /\ r.op # "register" => r.by # Nil
        /\ r.op = "close_active" => r.other # Nil
  BY DEF Logins!SessionsAssumption, Logins!SessionIds, Logins!RequestType,
         Logins!Complete
<1>3. /\ h \in SessionCalls(people, requests, most)
      /\ ToDo(ids, h)
      /\ h.do \in Endings => /\ Tail(script[w]) = <<>>
                             /\ script[w][Len(script[w])] = h
  BY <1>1, ScriptEnds
<1> HIDE DEF h
<1>4. /\ h.do \in Endings \cup {"get", "find", "store", "expire", "touch"}
      /\ h.do \notin {"create", "handle"} => h.at \in 1..most
      /\ h.do = "store" => h.arg \in Docs(people) \cup {Nil}
      /\ h.do \in {"verify", "recall", "handle"} => h.arg \in requests
      /\ h.do \in {"create", "login"} => h.arg \in people \cup {Nil}
  BY <1>3 DEF SessionCalls, Endings
<1>5. h.do \notin {"create", "handle"} => h.at <= ids
  BY <1>1, <1>3, <1>4 DEF ToDo
<1>6. h.do \in {"verify", "recall", "handle"} =>
        /\ h.at = h.arg.by
        /\ h.arg.by # Nil => h.arg.by \in 1..most /\ h.arg.by <= ids
        /\ h.arg.other # Nil => h.arg.other \in 1..most /\ h.arg.other <= ids
  BY <1>1, <1>2, <1>3, <1>4 DEF ToDo
<1>7. Naming(requests, most)
  BY <1>2 DEF Naming
<1> QED
  BY <1>1, <1>2, <1>3, <1>4, <1>5, <1>6, <1>7 DEF h

(* The cardinality that Sessions counts busy workers with.                 *)
LEMMA SameCardinality ==
  ASSUME NEW people, NEW workers, NEW requests, NEW most, NEW n, NEW S
  PROVE  Logins(people, workers, requests, most, n)!Cardinality(S)
           = Cardinality(S)
BY DEF Logins!Cardinality, Cardinality

(* A worker's new script keeps all scripts well formed, and sessions to be *)
(* created within their bound.                                             *)
LEMMA LoginMoves ==
  ASSUME NEW people, NEW workers, NEW requests, NEW most, NEW n,
         Logins(people, workers, requests, most, n)!SessionsAssumption,
         LoginTypes(people, workers, requests, most),
         LoginRoom(workers, most),
         NEW w \in workers, NEW s,
         script' = [script EXCEPT ![w] = s],
         ids' = ids + 1 \/ ids' = ids,
         LoginScript(people, requests, most, ids', s),
         Making(s) => Making(script[w]),
         ids' # ids => Making(script[w]) /\ ~Making(s)
  PROVE  /\ DOMAIN script' = workers
         /\ \A v \in workers :
              LoginScript(people, requests, most, ids', script'[v])
         /\ LoginRoom(workers, most)'
         /\ ids' \in 0..most
<1>1. /\ most \in Nat /\ ids \in Nat /\ Naming(requests, most)
      /\ IsFiniteSet(workers) /\ DOMAIN script = workers
      /\ Nil \notin 1..most
      /\ \A v \in workers :
           LoginScript(people, requests, most, ids, script[v])
  <2>1. \A r \in requests : {r.by, r.other} \subseteq 1..most \cup {Nil}
    BY DEF Logins!SessionsAssumption, Logins!SessionIds, Logins!RequestType
  <2>2. most \in Nat /\ Nil \notin 1..most
    BY DEF Logins!SessionsAssumption, Logins!SessionIds
  <2>4. IsFiniteSet(workers)
    BY DEF Logins!SessionsAssumption, Logins!IsFiniteSet, IsFiniteSet
  <2>3. /\ ids \in 0..most /\ DOMAIN script = workers
        /\ \A v \in workers :
             LoginScript(people, requests, most, ids, script[v])
    BY DEF LoginTypes
  <2> QED
    BY <2>1, <2>2, <2>3, <2>4 DEF Naming
<1>2. /\ DOMAIN script' = workers /\ script'[w] = s
      /\ \A v \in workers \ {w} : script'[v] = script[v]
  BY <1>1
<1>3. \A v \in workers :
        LoginScript(people, requests, most, ids', script'[v])
  <2> TAKE v \in workers
  <2>1. CASE v = w
    BY <1>2, <2>1
  <2>2. CASE v # w
    <3>1. LoginScript(people, requests, most, ids, script[v])
      BY <1>1
    <3>2. LoginScript(people, requests, most, ids', script[v])
      <4> SUFFICES ASSUME NEW i \in 1..Len(script[v])
                   PROVE  ToDo(ids', script[v][i])
        BY <3>1 DEF LoginScript
      <4> DEFINE c == script[v][i]
      <4>1. c \in SessionCalls(people, requests, most) /\ ToDo(ids, c)
        BY <3>1 DEF LoginScript
      <4> HIDE DEF c
      <4>2. /\ c.at # Nil => c.at \in 1..most
            /\ c.do \in {"verify", "recall", "handle"} => c.arg \in requests
        BY <4>1 DEF SessionCalls
      <4>3. ToDo(ids', c)
        BY <1>1, <4>1, <4>2 DEF ToDo, Naming
      <4> QED
        BY <4>3 DEF c
    <3> QED
      BY <1>2, <2>2, <3>2
  <2> QED
    BY <2>1, <2>2
<1>4. LoginRoom(workers, most)' /\ ids' <= most
  <2> DEFINE M == Makers(workers)
  <2> DEFINE N == Makers(workers)'
  <2>1. /\ N \subseteq M
        /\ ids' # ids => w \in M /\ N \subseteq M \ {w}
    BY <1>2 DEF Makers
  <2>2. IsFiniteSet(M) /\ M \subseteq workers
    BY <1>1, FS_Subset DEF Makers
  <2>3. ids + Cardinality(M) <= most
    BY DEF LoginRoom
  <2> HIDE DEF M, N
  <2>4. /\ IsFiniteSet(N) /\ Cardinality(N) <= Cardinality(M)
        /\ Cardinality(N) \in Nat /\ Cardinality(M) \in Nat
    BY <2>1, <2>2, FS_Subset, FS_CardinalityType
  <2>5. ids' # ids => Cardinality(N) <= Cardinality(M) - 1
    <3> SUFFICES ASSUME ids' # ids
                 PROVE  Cardinality(N) <= Cardinality(M) - 1
      OBVIOUS
    <3>1. /\ IsFiniteSet(M \ {w})
          /\ Cardinality(M \ {w}) = Cardinality(M) - 1
      BY <2>1, <2>2, FS_RemoveElement
    <3> QED
      BY <2>1, <3>1, FS_Subset
  <2>6. ids' + Cardinality(N) <= most
    BY <1>1, <2>3, <2>4, <2>5
  <2> QED
    BY <1>1, <2>4, <2>6 DEF LoginRoom, N
<1> QED
  BY <1>1, <1>2, <1>3, <1>4

(* A script that stores a copy next, as one that has read it does.         *)
Storing(s) == s # <<>> /\ Head(s).do = "store"

(* A worker keeps scripts, copies and documents well formed.               *)
LEMMA LoginWorks ==
  ASSUME NEW people, NEW workers, NEW requests, NEW most, NEW n,
         Logins(people, workers, requests, most, n)!SessionsAssumption,
         LoginTypes(people, workers, requests, most),
         LoginRoom(workers, most),
         NEW w \in workers,
         Logins(people, workers, requests, most, n)!Work(w)
  PROVE  /\ LoginTypes(people, workers, requests, most)'
         /\ LoginRoom(workers, most)'
         /\ Storing(script'[w]) => Head(script[w]).do \in {"get", "find"}
<1> DEFINE h == Head(script[w])
<1> DEFINE t == Tail(script[w])
<1> DEFINE C == SessionCalls(people, requests, most)
<1> DEFINE Do(do, s, arg) == [do |-> do, at |-> s, arg |-> arg]
<1> DEFINE OK(s, m) ==
      /\ LoginScript(people, requests, most, m, s)
      /\ Making(s) => Making(script[w])
      /\ Storing(s) => h.do \in {"get", "find"}
<1> DEFINE Kept ==
      /\ LoginTypes(people, workers, requests, most)'
      /\ LoginRoom(workers, most)'
      /\ Storing(script'[w]) => h.do \in {"get", "find"}
<1> SUFFICES Kept
  OBVIOUS
<1> USE DEF Logins!Ready, Logins!Now, Logins!Command
<1>0. script[w] # <<>>
  BY DEF Logins!Work, Logins!Get, Logins!Find, Logins!Store,
         Logins!ExpireSession, Logins!Touch, Logins!Verify, Logins!Handles,
         Logins!Panic, Logins!Unknown, Logins!CloseSession, Logins!Closing,
         Logins!CloseActive, Logins!OwnSession, Logins!CloseAll, Logins!Other, Logins!Register, Logins!Create,
         Logins!Login, Logins!Recall, Logins!Recalled
<1>1. /\ most \in Nat /\ ids \in Nat /\ ids <= most
      /\ Naming(requests, most) /\ DOMAIN script = workers
      /\ LoginScript(people, requests, most, ids, script[w])
  BY <1>0, LoginHead DEF LoginTypes
<1>2. /\ h.do \notin {"create", "handle"} => h.at \in 1..most /\ h.at <= ids
      /\ h.do = "store" => h.arg \in Docs(people) \cup {Nil}
      /\ h.do \in {"verify", "recall", "handle"} =>
           /\ h.arg \in requests /\ h.at = h.arg.by
           /\ h.arg.by # Nil => h.arg.by \in 1..most /\ h.arg.by <= ids
           /\ h.arg.other # Nil =>
                h.arg.other \in 1..most /\ h.arg.other <= ids
           /\ h.arg.uid \in people \cup {Nil}
           /\ h.arg.op # "register" => h.arg.by # Nil
           /\ h.arg.op = "close_active" => h.arg.other # Nil
      /\ h.do \in {"create", "login"} => h.arg \in people \cup {Nil}
      /\ h.do \in Endings => t = <<>> /\ script[w][Len(script[w])] = h
  BY <1>0, LoginHead
<1>3. /\ session \in [1..most -> Docs(people) \cup {Nil}]
      /\ cached \in [1..most -> Docs(people) \cup {Nil}]
      /\ copy \in [workers -> Docs(people) \cup {Nil}]
      /\ closed \subseteq 1..ids
      /\ Nil \notin 1..most
  BY DEF LoginTypes, Logins!SessionsAssumption, Logins!SessionIds
<1>4. \A s \in 1..most, d \in Docs(people) \cup {Nil} :
        s <= ids =>
          /\ Do("get", s, Nil) \in C /\ ToDo(ids, Do("get", s, Nil))
          /\ Do("find", s, Nil) \in C /\ ToDo(ids, Do("find", s, Nil))
          /\ Do("expire", s, Nil) \in C /\ ToDo(ids, Do("expire", s, Nil))
          /\ Do("touch", s, Nil) \in C /\ ToDo(ids, Do("touch", s, Nil))
          /\ Do("closing", s, Nil) \in C /\ ToDo(ids, Do("closing", s, Nil))
          /\ Do("recalled", s, Nil) \in C /\ ToDo(ids, Do("recalled", s, Nil))
          /\ Do("store", s, d) \in C /\ ToDo(ids, Do("store", s, d))
  BY <1>1 DEF SessionCalls, ToDo
<1>5. ASSUME NEW c \in C, ToDo(ids, c), c.do \notin Endings,
             h.do \notin Endings, c.do = "store" => h.do \in {"get", "find"}
      PROVE  OK(t, ids) /\ OK(<<c>> \o t, ids)
  BY <1>0, <1>1, <1>5, ScriptGoes DEF Storing
<1>6. ASSUME NEW s, script' = [script EXCEPT ![w] = s], ids' = ids,
             OK(s, ids),
             session' \in [1..most -> Docs(people) \cup {Nil}],
             cached' \in [1..most -> Docs(people) \cup {Nil}],
             copy' \in [workers -> Docs(people) \cup {Nil}],
             closed' \subseteq 1..ids
      PROVE  Kept
  <2>1. /\ DOMAIN script' = workers
        /\ \A v \in workers :
             LoginScript(people, requests, most, ids', script'[v])
        /\ LoginRoom(workers, most)'
        /\ ids' \in 0..most
    BY <1>1, <1>6, LoginMoves
  <2>2. script'[w] = s
    BY <1>1, <1>6
  <2> QED
    BY <1>6, <2>1, <2>2 DEF LoginTypes
<1> HIDE DEF OK, C, Do, h, t, Kept
<1>7. CASE Logins(people, workers, requests, most, n)!Get(w)
  <2>1. h.do = "get"
    BY <1>7 DEF Logins!Get, h
  <2>2. h.at \in 1..most /\ h.at <= ids /\ h.do \notin Endings
    BY <1>2, <2>1 DEF Endings
  <2>3. PICK d \in Docs(people) \cup {Nil} :
          /\ copy' = [copy EXCEPT ![w] = d]
          /\ UNCHANGED <<session, cached, ids, closed>>
          /\ \/ script' = [script EXCEPT ![w] = <<>> \o t]
             \/ script' = [script EXCEPT ![w] =
                             <<Do("store", h.at, d)>> \o t]
    BY <1>3, <1>7, <2>2
    DEF Logins!Get, Logins!Become, Logins!Proceed, h, t, Do
  <2>4. <<>> \o t = t
    BY <1>0, <1>1 DEF t, LoginScript
  <2>5. copy' \in [workers -> Docs(people) \cup {Nil}]
    BY <1>3, <2>3
  <2>6. OK(t, ids) /\ OK(<<Do("store", h.at, d)>> \o t, ids)
    BY <1>4, <1>5, <2>1, <2>2 DEF Do, Endings
  <2> QED
    BY <1>3, <1>6, <2>3, <2>4, <2>5, <2>6
<1>8. CASE Logins(people, workers, requests, most, n)!Find(w)
  <2>1. h.do = "find"
    BY <1>8 DEF Logins!Find, h
  <2>2. /\ h.at \in 1..most /\ h.at <= ids /\ h.do \notin Endings
        /\ session[h.at] \in Docs(people) \cup {Nil}
    BY <1>2, <1>3, <2>1 DEF Endings
  <2>3. OK(<<Do("store", h.at, session[h.at])>> \o t, ids)
    BY <1>4, <1>5, <2>1, <2>2 DEF Do, Endings
  <2>4. /\ script' = [script EXCEPT ![w] =
                        <<Do("store", h.at, session[h.at])>> \o t]
        /\ ids' = ids
        /\ UNCHANGED <<session, cached, closed, copy>>
    BY <1>8 DEF Logins!Find, Logins!Become, h, t, Do
  <2> QED
    BY <1>3, <1>6, <2>3, <2>4
<1>9. CASE Logins(people, workers, requests, most, n)!Store(w)
  <2>1. h.do = "store"
    BY <1>9 DEF Logins!Store, h
  <2>2. /\ h.at \in 1..most /\ h.at <= ids /\ h.do \notin Endings
        /\ h.arg \in Docs(people) \cup {Nil}
    BY <1>2, <2>1 DEF Endings
  <2>3. OK(t, ids)
    BY <1>4, <1>5, <2>2 DEF Do, Endings
  <2>4. <<>> \o t = t
    BY <1>0, <1>1 DEF t, LoginScript
  <2>5. /\ script' = [script EXCEPT ![w] = t]
        /\ cached' = [cached EXCEPT ![h.at] = h.arg]
        /\ UNCHANGED <<session, ids, closed, copy>>
    BY <1>9, <2>4 DEF Logins!Store, Logins!Become, Logins!Proceed, h, t
  <2> QED
    <3>1. cached' \in [1..most -> Docs(people) \cup {Nil}]
      BY <1>3, <2>2, <2>5
    <3> QED
      BY <1>3, <1>6, <2>3, <2>5, <3>1
<1>10. CASE Logins(people, workers, requests, most, n)!ExpireSession(w)
  <2>1. h.do = "expire"
    BY <1>10 DEF Logins!ExpireSession, h
  <2>2. h.at \in 1..most /\ h.at <= ids /\ h.do \notin Endings
    BY <1>1, <1>2, <2>1 DEF Endings
  <2>3. OK(<<Do("find", h.at, Nil)>> \o t, ids)
    BY <1>4, <1>5, <2>2 DEF Do, Endings
  <2>4. /\ script' = [script EXCEPT ![w] =
                        <<Do("find", h.at, Nil)>> \o t]
        /\ session' = [session EXCEPT ![h.at] = IF @ = Nil THEN Nil ELSE
                         [@ EXCEPT !.expired = TRUE]]
        /\ closed' = closed \cup {h.at}
        /\ UNCHANGED <<cached, ids, copy>>
    BY <1>10 DEF Logins!ExpireSession, Logins!Become, Logins!UpdateCache, h,
                 t, Do
  <2>5. session' \in [1..most -> Docs(people) \cup {Nil}]
    BY <1>3, <2>2, <2>4 DEF Docs
  <2>6. closed' \subseteq 1..ids
    BY <1>1, <1>3, <2>2, <2>4
  <2> QED
    BY <1>3, <1>6, <2>3, <2>4, <2>5, <2>6
<1>11. CASE Logins(people, workers, requests, most, n)!Touch(w)
  <2>1. h.do = "touch"
    BY <1>11 DEF Logins!Touch, h
  <2>2. h.at \in 1..most /\ h.at <= ids /\ h.do \notin Endings
    BY <1>2, <2>1 DEF Endings
  <2>3. OK(<<Do("find", h.at, Nil)>> \o t, ids)
    BY <1>4, <1>5, <2>2 DEF Do, Endings
  <2>4. /\ script' = [script EXCEPT ![w] = <<Do("find", h.at, Nil)>> \o t]
        /\ ids' = ids
        /\ UNCHANGED <<session, cached, closed, copy>>
    BY <1>11 DEF Logins!Touch, Logins!Become, Logins!UpdateCache, h, t, Do
  <2> QED
    BY <1>3, <1>6, <2>3, <2>4
<1>12. OK(<<>>, ids)
  BY <1>1, ScriptShort DEF OK, Storing
<1>13. ASSUME NEW c \in C, ToDo(ids, c),
              c.do \notin {"create", "verify", "handle", "store"}
       PROVE  OK(<<c>>, ids)
  BY <1>1, <1>13, ScriptShort, Cats DEF OK, C, Storing
<1>14. \A s : /\ script' = [script EXCEPT ![w] = s] /\ OK(s, ids)
              /\ UNCHANGED <<session, cached, ids, closed, copy>>
              => Kept
  BY <1>3, <1>6
<1>15. (\/ h.do = "create"
        \/ h.do \in {"verify", "handle"} /\ h.arg.op = "register")
       => Making(script[w])
  BY <1>0, <1>2 DEF Making, Endings
<1>16. CASE Logins(people, workers, requests, most, n)!Verify(w)
  <2>1. h.do = "verify" /\ h.do \in Endings
    BY <1>16 DEF Logins!Verify, h, Endings
  <2>2. /\ h.arg \in requests /\ h.at = h.arg.by /\ h.arg.by \in 1..most
        /\ h.arg.by <= ids /\ t = <<>>
    BY <1>2, <2>1 DEF Endings
  <2> DEFINE g == Do("get", h.arg.by, Nil)
  <2> DEFINE c == Do("handle", h.arg.by, h.arg)
  <2>3. \/ script' = [script EXCEPT ![w] = <<>>]
        \/ script' = [script EXCEPT ![w] = (<<g>> \o <<c>>) \o t]
    BY <1>16 DEF Logins!Verify, Logins!Become, Logins!Return, Logins!GetByID,
                 h, t, Do
  <2>4. (<<g>> \o <<c>>) \o t = <<g, c>>
    BY <2>2, Cats
  <2>5. g \in C /\ ToDo(ids, g) /\ g.do \notin Endings \cup {"store"}
    BY <1>4, <2>2 DEF Do, Endings
  <2>6. c \in C /\ ToDo(ids, c) /\ c.do # "store"
    BY <1>2, <2>1, <2>2 DEF C, Do, SessionCalls, ToDo
  <2>7. c.do = "handle" /\ c.arg = h.arg
    BY DEF Do
  <2> HIDE DEF g, c
  <2>8. OK(<<g, c>>, ids)
    BY <1>1, <1>15, <2>1, <2>5, <2>6, <2>7, ScriptShort, Cats DEF OK, C,
       Storing
  <2>9. UNCHANGED <<session, cached, ids, closed, copy>>
    BY <1>16 DEF Logins!Verify
  <2> QED
    BY <1>12, <1>14, <2>3, <2>4, <2>8, <2>9
<1>17. CASE Logins(people, workers, requests, most, n)!CloseSession(w)
  <2>1. h.do = "handle" /\ h.do \in Endings /\ h.arg.op = "close"
    BY <1>17 DEF Logins!CloseSession, Logins!Handles, h, Endings
  <2>2. h.at \in 1..most /\ h.at <= ids /\ t = <<>>
    BY <1>2, <2>1
  <2> DEFINE g == Do("get", h.at, Nil)
  <2> DEFINE c == Do("closing", h.at, Nil)
  <2>3. script' = [script EXCEPT ![w] = (<<g>> \o <<c>>) \o t]
    BY <1>17 DEF Logins!CloseSession, Logins!Become, Logins!GetByID, h, t,
                 Do
  <2>4. (<<g>> \o <<c>>) \o t = <<g, c>>
    BY <2>2, Cats
  <2>5. g \in C /\ ToDo(ids, g) /\ g.do \notin Endings \cup {"store"}
    BY <1>4, <2>2 DEF Do, Endings
  <2>6. /\ c \in C /\ ToDo(ids, c)
        /\ c.do \notin {"store", "create", "verify", "handle"}
    BY <1>4, <2>2 DEF Do
  <2> HIDE DEF g, c
  <2>8. OK(<<g, c>>, ids)
    BY <1>1, <2>5, <2>6, ScriptShort, Cats DEF OK, C, Storing
  <2>9. UNCHANGED <<session, cached, ids, closed, copy>>
    BY <1>17 DEF Logins!CloseSession
  <2> QED
    BY <1>12, <1>14, <2>3, <2>4, <2>8, <2>9
<1>27. CASE Logins(people, workers, requests, most, n)!Closing(w)
  <2>1. h.do = "closing" /\ h.do \in Endings
    BY <1>27 DEF Logins!Closing, h, Endings
  <2>2. h.at \in 1..most /\ h.at <= ids /\ t = <<>>
    BY <1>2, <2>1
  <2> DEFINE c == Do("expire", h.at, Nil)
  <2>3. script' = [script EXCEPT ![w] = <<c>> \o t]
    BY <1>27 DEF Logins!Closing, Logins!Become, Logins!Expire, h, t, Do
  <2>4. <<c>> \o t = <<c>>
    BY <2>2, Cats
  <2>5. OK(<<c>>, ids)
    BY <1>4, <1>13, <2>2 DEF Do
  <2>6. UNCHANGED <<session, cached, ids, closed, copy>>
    BY <1>27 DEF Logins!Closing
  <2> QED
    BY <1>14, <2>3, <2>4, <2>5, <2>6
<1>28. CASE Logins(people, workers, requests, most, n)!Unknown(w)
  BY <1>12, <1>14, <1>28 DEF Logins!Unknown, Logins!Return
<1>29. CASE Logins(people, workers, requests, most, n)!Panic(w)
  <2>1. /\ \/ script' = [script EXCEPT ![w] = <<>>]
           \/ script' = [v \in workers |-> <<>>]
        /\ UNCHANGED <<session, cached, ids, closed, copy>>
    BY <1>29 DEF Logins!Panic
  <2>2. CASE script' = [script EXCEPT ![w] = <<>>]
    BY <1>12, <1>14, <2>1, <2>2
  <2>3. CASE script' = [v \in workers |-> <<>>]
    <3>1. \A v \in workers :
            /\ script'[v] = <<>>
            /\ LoginScript(people, requests, most, ids, script'[v])
      BY <1>12, <2>3 DEF OK
    <3>2. ~Storing(script'[w])
      BY <3>1 DEF Storing
    <3>3. DOMAIN script' = workers
      BY <2>3
    <3>4. LoginTypes(people, workers, requests, most)'
      BY <1>1, <1>3, <2>1, <3>1, <3>3 DEF LoginTypes
    <3>5. Makers(workers)' = {}
      BY <3>1 DEF Makers, Making
    <3>6. LoginRoom(workers, most)'
      BY <1>1, <2>1, <3>5, FS_EmptySet DEF LoginRoom
    <3> QED
      BY <3>2, <3>4, <3>6 DEF Kept
  <2> QED
    BY <2>1, <2>2, <2>3
<1>18. CASE Logins(people, workers, requests, most, n)!CloseActive(w)
  <2>1. h.do = "handle" /\ h.do \in Endings /\ h.arg.op = "close_active"
    BY <1>18 DEF Logins!CloseActive, Logins!Handles, h, Endings
  <2>2. /\ h.arg.other \in 1..most /\ h.arg.other <= ids /\ t = <<>>
        /\ h.arg.by \in 1..most \cup {Nil}
    BY <1>2, <2>1
  <2> DEFINE r == IF copy[w] = Nil THEN Nil ELSE copy[w].uid
  <2> DEFINE g == Do("get", h.arg.other, Nil)
  <2> DEFINE c == Do("own", h.arg.other, <<h.arg.by, r>>)
  <2>3. script' = [script EXCEPT ![w] = (<<g>> \o <<c>>) \o t]
    BY <1>18 DEF Logins!CloseActive, Logins!Become, Logins!GetByID, Logins!Requester, h, t, Do
  <2>4. (<<g>> \o <<c>>) \o t = <<g, c>>
    BY <2>2, Cats
  <2>5. g \in C /\ ToDo(ids, g) /\ g.do \notin Endings \cup {"store"}
    BY <1>4, <2>2 DEF Do, Endings
  <2>6. /\ c \in C /\ ToDo(ids, c)
        /\ c.do \notin {"store", "create", "verify", "handle"}
    <3>1. r \in people \cup {Nil}
      BY <1>3 DEF Docs
    <3> HIDE DEF r
    <3> QED
      BY <2>2, <3>1 DEF C, Do, SessionCalls, ToDo
  <2> HIDE DEF g, c
  <2>8. OK(<<g, c>>, ids)
    BY <1>1, <2>5, <2>6, ScriptShort, Cats DEF OK, C, Storing
  <2>9. UNCHANGED <<session, cached, ids, closed, copy>>
    BY <1>18 DEF Logins!CloseActive
  <2> QED
    BY <1>12, <1>14, <2>3, <2>4, <2>8, <2>9
<1>19. CASE Logins(people, workers, requests, most, n)!OwnSession(w)
  <2>1. h.do = "own" /\ h.do \in Endings
    BY <1>19 DEF Logins!OwnSession, h, Endings
  <2>2. h.at \in 1..most /\ h.at <= ids /\ t = <<>>
    BY <1>2, <2>1
  <2> DEFINE c == Do("expire", h.at, Nil)
  <2>3. \/ script' = [script EXCEPT ![w] = <<>>]
        \/ script' = [script EXCEPT ![w] = <<c>> \o t]
    BY <1>19 DEF Logins!OwnSession, Logins!Become, Logins!Return,
                 Logins!Expire, h, t, Do
  <2>4. <<c>> \o t = <<c>>
    BY <2>2, Cats
  <2>5. OK(<<c>>, ids)
    BY <1>4, <1>13, <2>2 DEF Do
  <2>6. UNCHANGED <<session, cached, ids, closed, copy>>
    BY <1>19 DEF Logins!OwnSession
  <2> QED
    BY <1>12, <1>14, <2>3, <2>4, <2>5, <2>6
<1>20. CASE Logins(people, workers, requests, most, n)!CloseAll(w)
  <2>1. h.do = "handle" /\ h.do \in Endings
    BY <1>20 DEF Logins!CloseAll, Logins!Handles, h, Endings
  <2>2. t = <<>>
    BY <1>2, <2>1
  <2>3. /\ script' = [script EXCEPT ![w] = <<>> \o t]
        /\ UNCHANGED <<cached, ids, closed, copy>>
    BY <1>20 DEF Logins!CloseAll, Logins!Become, Logins!Proceed, t
  <2>4. <<>> \o t = <<>>
    BY <2>2, Cats
  <2>5. session' \in [1..most -> Docs(people) \cup {Nil}]
    BY <1>3, <1>20 DEF Logins!CloseAll, Logins!SessionIds
  <2> QED
    BY <1>3, <1>6, <1>12, <2>3, <2>4, <2>5
<1>21. CASE Logins(people, workers, requests, most, n)!Other(w)
  <2>1. h.do = "handle" /\ h.do \in Endings
    BY <1>21 DEF Logins!Other, Logins!Handles, h, Endings
  <2>2. <<>> \o t = <<>>
    BY <1>2, <2>1, Cats
  <2>3. /\ script' = [script EXCEPT ![w] = <<>> \o t]
        /\ UNCHANGED <<session, cached, ids, closed, copy>>
    BY <1>21 DEF Logins!Other, Logins!Become, Logins!Proceed, t
  <2> QED
    BY <1>12, <1>14, <2>2, <2>3
<1>22. CASE Logins(people, workers, requests, most, n)!Register(w)
  <2>1. h.do = "handle" /\ h.do \in Endings /\ h.arg.op = "register"
    BY <1>22 DEF Logins!Register, Logins!Handles, h, Endings
  <2>2. /\ h.arg.by # Nil => h.arg.by \in 1..most /\ h.arg.by <= ids
        /\ h.arg.uid \in people \cup {Nil} /\ t = <<>>
    BY <1>2, <2>1
  <2> DEFINE e == Do("expire", h.arg.by, Nil)
  <2> DEFINE c == Do("create", Nil, h.arg.uid)
  <2>3. PICK old \in {<<>>, <<e>>}, new \in {<<>>, <<c>>} :
          /\ old = <<e>> => h.arg.by # Nil
          /\ script' = [script EXCEPT ![w] = (old \o new) \o t]
    BY <1>22 DEF Logins!Register, Logins!Become, Logins!Expire, h, t, Do
  <2>6. c \in C /\ ToDo(ids, c) /\ c.do # "store"
    <3>1. ToDo(ids, c)
      BY DEF Do, ToDo
    <3> QED
      BY <2>2, <3>1 DEF C, Do, SessionCalls
  <2>7. h.arg.by # Nil =>
          e \in C /\ ToDo(ids, e)
            /\ e.do \notin Endings \cup {"store"}
    BY <1>4, <2>2 DEF Do, Endings
  <2> HIDE DEF e, c
  <2>4. /\ (old \o new) \o t \in {<<>>, <<c>>, <<e, c>>, <<e>>}
        /\ old = <<>> => (old \o new) \o t \in {<<>>, <<c>>}
    <3>1. CASE old = <<>> /\ new = <<>>
      BY <2>2, <3>1, Cats
    <3>2. CASE old = <<>> /\ new = <<c>>
      <4>1. old \o new = <<c>>
        BY <3>2, Cats
      <4>2. <<c>> \o t = <<c>>
        BY <2>2, Cats
      <4> QED
        BY <4>1, <4>2
    <3>3. CASE old = <<e>> /\ new = <<>>
      <4>1. old \o new = <<e>>
        BY <3>3, Cats
      <4>2. <<e>> \o t = <<e>>
        BY <2>2, Cats
      <4>3. old # <<>>
        BY <3>3
      <4> QED
        BY <4>1, <4>2, <4>3
    <3>4. CASE old = <<e>> /\ new = <<c>>
      <4>1. old \o new = <<e, c>>
        BY <3>4, Cats
      <4>2. <<e, c>> \o t = <<e, c>>
        BY <2>2, Cats
      <4>3. old # <<>>
        BY <3>4
      <4> QED
        BY <4>1, <4>2, <4>3
    <3> QED
      BY <2>3, <3>1, <3>2, <3>3, <3>4
  <2>8. OK(<<c>>, ids)
    BY <1>1, <1>15, <2>1, <2>6, ScriptShort, Cats DEF OK, C, Storing
  <2>9. h.arg.by # Nil => OK(<<e>>, ids) /\ OK(<<e, c>>, ids)
    BY <1>1, <1>13, <1>15, <2>1, <2>6, <2>7, ScriptShort, Cats DEF OK, C,
       Storing
  <2>10. UNCHANGED <<session, cached, ids, closed, copy>>
    BY <1>22 DEF Logins!Register
  <2>11. OK((old \o new) \o t, ids)
    BY <1>12, <2>3, <2>4, <2>8, <2>9
  <2> QED
    BY <1>14, <2>3, <2>10, <2>11
<1>23. CASE Logins(people, workers, requests, most, n)!Create(w)
  <2>1. h.do = "create" /\ h.do \in Endings
    BY <1>23 DEF Logins!Create, h, Endings
  <2>2. t = <<>> /\ h.arg \in people \cup {Nil}
    BY <1>2, <2>1
  <2> DEFINE g == Do("get", ids', Nil)
  <2> DEFINE c == Do("login", ids', h.arg)
  <2>3. /\ script' = [script EXCEPT ![w] = (<<g>> \o <<c>>) \o t]
        /\ ids' = ids + 1
        /\ session' = [session EXCEPT ![ids'] =
                         [uid |-> Nil, expired |-> FALSE]]
        /\ UNCHANGED <<cached, closed, copy>>
    BY <1>23 DEF Logins!Create, Logins!Become, Logins!GetByID, h, t, Do
  <2>4. (<<g>> \o <<c>>) \o t = <<g, c>>
    BY <2>2, Cats
  <2>5. Making(script[w])
    BY <1>15, <2>1
  <2>6. ids' \in 1..most
    <3> DEFINE M == Makers(workers)
    <3>1. w \in M /\ M \subseteq workers /\ IsFiniteSet(workers)
      BY <2>5 DEF Makers, Logins!SessionsAssumption, Logins!IsFiniteSet,
                  IsFiniteSet
    <3>2. ids + Cardinality(M) <= most
      BY DEF LoginRoom
    <3> HIDE DEF M
    <3>3. IsFiniteSet(M) /\ Cardinality(M) \in Nat
      BY <3>1, FS_Subset, FS_CardinalityType
    <3>4. Cardinality(M) # 0
      BY <3>1, <3>3, FS_EmptySet
    <3> QED
      BY <1>1, <2>3, <3>2, <3>3, <3>4
  <2>7. /\ g \in C /\ ToDo(ids', g) /\ g.do \notin Endings \cup {"store"}
        /\ c \in C /\ ToDo(ids', c)
        /\ c.do \notin {"store", "create", "verify", "handle"}
    BY <2>2, <2>6 DEF C, Do, SessionCalls, ToDo, Endings
  <2> HIDE DEF g, c
  <2>8. OK(<<g, c>>, ids') /\ ~Making(<<g, c>>)
    <3>1. ids' \in Nat
      BY <2>6
    <3> QED
      BY <1>1, <2>7, <3>1, ScriptShort, Cats DEF OK, C, Storing
  <2>9. session' \in [1..most -> Docs(people) \cup {Nil}]
    BY <1>3, <2>3, <2>6 DEF Docs
  <2>10. closed' \subseteq 1..ids'
    BY <1>1, <1>3, <2>3
  <2>11. script' = [script EXCEPT ![w] = <<g, c>>]
    BY <2>3, <2>4
  <2> HIDE DEF OK
  <2>12. LoginScript(people, requests, most, ids', <<g, c>>)
    BY <2>8 DEF OK
  <2>13. /\ DOMAIN script' = workers
         /\ \A v \in workers :
              LoginScript(people, requests, most, ids', script'[v])
         /\ LoginRoom(workers, most)'
         /\ ids' \in 0..most
    BY <2>3, <2>5, <2>8, <2>11, <2>12, LoginMoves
  <2>14. script'[w] = <<g, c>>
    BY <1>1, <2>11
  <2> QED
    BY <1>3, <2>3, <2>8, <2>9, <2>10, <2>13, <2>14 DEF LoginTypes, OK, Kept
<1>24. CASE Logins(people, workers, requests, most, n)!Login(w)
  <2>1. h.do = "login" /\ h.do \in Endings
    BY <1>24 DEF Logins!Login, h, Endings
  <2>2. /\ h.at \in 1..most /\ h.at <= ids /\ t = <<>>
        /\ h.arg \in people \cup {Nil}
    BY <1>2, <2>1
  <2> DEFINE c == Do("find", h.at, Nil)
  <2>3. /\ script' = [script EXCEPT ![w] = <<c>> \o t]
        /\ UNCHANGED <<cached, ids, closed, copy>>
    BY <1>24 DEF Logins!Login, Logins!Become, Logins!UpdateCache, h, t, Do
  <2>4. <<c>> \o t = <<c>>
    BY <2>2, Cats
  <2>5. OK(<<c>>, ids)
    BY <1>4, <1>13, <2>2 DEF Do
  <2> HIDE DEF c
  <2>6. session' \in [1..most -> Docs(people) \cup {Nil}]
    BY <1>3, <1>24, <2>2 DEF Logins!Login, Logins!Good, Docs, h
  <2> QED
    BY <1>3, <1>6, <2>3, <2>4, <2>5, <2>6
<1>25. CASE Logins(people, workers, requests, most, n)!Recall(w)
  <2>1. h.do = "recall" /\ h.do \in Endings
    BY <1>25 DEF Logins!Recall, h, Endings
  <2>2. h.at \in 1..most /\ h.at <= ids /\ t = <<>>
    BY <1>2, <2>1
  <2> DEFINE g == Do("get", h.at, Nil)
  <2> DEFINE c == Do("touch", h.at, Nil)
  <2> DEFINE d == Do("recalled", h.at, Nil)
  <2> DEFINE e == Do("expire", h.at, Nil)
  <2>3. \/ script' = [script EXCEPT ![w] = <<e>> \o t]
        \/ script' = [script EXCEPT ![w] = ((<<g>> \o <<c>>) \o <<d>>) \o t]
    BY <1>25 DEF Logins!Recall, Logins!Become, Logins!GetByID, Logins!Set,
                 Logins!Expire, h, t, Do
  <2>5. /\ g \in C /\ ToDo(ids, g) /\ g.do \notin Endings \cup {"store"}
        /\ c \in C /\ ToDo(ids, c) /\ c.do \notin Endings \cup {"store"}
        /\ d \in C /\ ToDo(ids, d)
        /\ d.do \notin {"store", "create", "verify", "handle"}
    BY <1>4, <2>2 DEF Do, Endings
  <2>6. OK(<<e>>, ids)
    BY <1>4, <1>13, <2>2 DEF Do
  <2> HIDE DEF g, c, d, e
  <2>4. /\ ((<<g>> \o <<c>>) \o <<d>>) \o t = <<g, c, d>>
        /\ <<e>> \o t = <<e>>
    <3>1. <<g>> \o <<c>> = <<g, c>> /\ <<e>> \o t = <<e>>
      BY <2>2, Cats
    <3>2. <<g, c>> \o <<d>> = <<g, c, d>>
      BY Cats
    <3>3. <<g, c, d>> \o t = <<g, c, d>>
      BY <2>2, Cats
    <3> QED
      BY <3>1, <3>2, <3>3
  <2>7. OK(<<g, c, d>>, ids)
    BY <1>1, <2>5, ScriptShort, Cats DEF OK, C, Storing
  <2>8. UNCHANGED <<session, cached, ids, closed, copy>>
    BY <1>25 DEF Logins!Recall
  <2> QED
    BY <1>14, <2>3, <2>4, <2>6, <2>7, <2>8
<1>26. CASE Logins(people, workers, requests, most, n)!Recalled(w)
  <2>1. h.do = "recalled" /\ h.do \in Endings
    BY <1>26 DEF Logins!Recalled, h, Endings
  <2>2. h.at \in 1..most /\ h.at <= ids /\ t = <<>>
    BY <1>2, <2>1
  <2> DEFINE c == Do("touch", h.at, Nil)
  <2> DEFINE e == Do("expire", h.at, Nil)
  <2>3. \/ script' = [script EXCEPT ![w] = <<c>> \o t]
        \/ script' = [script EXCEPT ![w] = <<e>> \o t]
    BY <1>26 DEF Logins!Recalled, Logins!Become, Logins!Set,
                 Logins!Expire, h, t, Do
  <2>4. <<c>> \o t = <<c>> /\ <<e>> \o t = <<e>>
    BY <2>2, Cats
  <2>5. OK(<<c>>, ids) /\ OK(<<e>>, ids)
    BY <1>4, <1>13, <2>2 DEF Do
  <2>6. UNCHANGED <<session, cached, ids, closed, copy>>
    BY <1>26 DEF Logins!Recalled
  <2> QED
    BY <1>12, <1>14, <2>3, <2>4, <2>5, <2>6
<1> QED
  BY <1>7, <1>8, <1>9, <1>10, <1>11, <1>16, <1>17, <1>18, <1>19, <1>20,
     <1>21, <1>22, <1>23, <1>24, <1>25, <1>26, <1>27, <1>28, <1>29
     DEF Logins!Work

(* So do a request that arrives, a copy that lapses and the doctor.        *)
LEMMA LoginStep ==
  ASSUME NEW people, NEW workers, NEW requests, NEW most, NEW n,
         Logins(people, workers, requests, most, n)!SessionsAssumption,
         LoginTypes(people, workers, requests, most),
         LoginRoom(workers, most),
         \/ Logins(people, workers, requests, most, n)!Next
         \/ Logins(people, workers, requests, most, n)!Stop
         \/ UNCHANGED Logins(people, workers, requests, most, n)!vars
  PROVE  LoginTypes(people, workers, requests, most)'
           /\ LoginRoom(workers, most)'
<1> DEFINE C == SessionCalls(people, requests, most)
<1> DEFINE Do(do, s, arg) == [do |-> do, at |-> s, arg |-> arg]
<1>1. /\ most \in Nat /\ ids \in 0..most /\ IsFiniteSet(workers)
      /\ DOMAIN script = workers
      /\ \A v \in workers :
           LoginScript(people, requests, most, ids, script[v])
      /\ session \in [1..most -> Docs(people) \cup {Nil}]
      /\ cached \in [1..most -> Docs(people) \cup {Nil}]
      /\ copy \in [workers -> Docs(people) \cup {Nil}]
      /\ closed \subseteq 1..ids
  <2>1. IsFiniteSet(workers)
    BY DEF Logins!SessionsAssumption, Logins!IsFiniteSet, IsFiniteSet
  <2>2. most \in Nat
    BY DEF Logins!SessionsAssumption
  <2> QED
    BY <2>1, <2>2 DEF LoginTypes
<1>2. \A r \in requests :
        /\ {r.by, r.other} \subseteq 1..most \cup {Nil}
        /\ Nil \notin 1..most
  BY DEF Logins!SessionsAssumption, Logins!SessionIds, Logins!RequestType
<1>3. ASSUME NEW w \in workers, NEW r \in requests,
             Logins(people, workers, requests, most, n)!Receive(w, r)
      PROVE  LoginTypes(people, workers, requests, most)'
               /\ LoginRoom(workers, most)'
  <2> DEFINE g == Do("get", r.by, Nil)
  <2> DEFINE c == Do(IF r.op = "recall" THEN "recall" ELSE "verify", r.by, r)
  <2> DEFINE d == Do("handle", Nil, r)
  <2>1. /\ script[w] = <<>>
        /\ r.by # Nil => r.by <= ids
        /\ r.other # Nil => r.other <= ids
        /\ r.op = "register" =>
             ids + Logins(people, workers, requests, most, n)!Cardinality(
                     {v \in workers : script[v] # <<>>}) < most
        /\ script' = [script EXCEPT ![w] =
             IF r.by = Nil THEN <<d>> ELSE <<g>> \o <<c>>]
        /\ UNCHANGED <<session, cached, ids, closed, copy>>
    BY <1>3 DEF Logins!Receive, Logins!GetByID, Logins!Command
  <2>2. r.by = Nil => d \in C /\ ToDo(ids, d)
    BY <1>2, <2>1 DEF SessionCalls, ToDo
  <2>3. r.by # Nil =>
          /\ g \in C /\ ToDo(ids, g) /\ g.do \notin Endings
          /\ c \in C /\ ToDo(ids, c) /\ c.do # "store"
    <3> SUFFICES ASSUME r.by # Nil
                 PROVE  /\ g \in C /\ ToDo(ids, g) /\ g.do \notin Endings
                        /\ c \in C /\ ToDo(ids, c) /\ c.do # "store"
      OBVIOUS
    <3>1. r.by \in 1..most /\ r.by <= ids
      BY <1>2, <2>1
    <3>2. g \in C /\ c \in C
      BY <3>1 DEF SessionCalls
    <3> QED
      BY <2>1, <3>1, <3>2 DEF ToDo, Endings
  <2>4. d.arg = r /\ c.arg = r
    OBVIOUS
  <2> DEFINE s == script'[w]
  <2>5. s = IF r.by = Nil THEN <<d>> ELSE <<g, c>>
    BY <1>1, <2>1, Cats
  <2>6. d.do # "create" /\ c.do # "create"
    OBVIOUS
  <2> HIDE DEF d, c, g, C
  <2>7. /\ LoginScript(people, requests, most, ids, s)
        /\ Making(s) => r.op = "register"
    <3>1. ids \in Nat
      BY <1>1
    <3>2. CASE r.by = Nil
      BY <1>1, <2>2, <2>4, <2>5, <2>6, <3>1, <3>2, ScriptShort DEF C
    <3>3. CASE r.by # Nil
      BY <1>1, <2>3, <2>4, <2>5, <2>6, <3>1, <3>3, ScriptShort DEF C
    <3> QED
      BY <3>2, <3>3
  <2> HIDE DEF s
  <2>8. /\ DOMAIN script' = workers
        /\ \A v \in workers : script'[v] = IF v = w THEN s ELSE script[v]
    BY <1>1, <2>1 DEF s
  <2>9. \A v \in workers :
          LoginScript(people, requests, most, ids', script'[v])
    BY <1>1, <2>1, <2>7, <2>8
  <2>10. LoginRoom(workers, most)'
    <3> DEFINE M == Makers(workers)
    <3> DEFINE N == Makers(workers)'
    <3> DEFINE B == {v \in workers : script[v] # <<>>}
    <3>1. /\ M \subseteq B /\ w \notin B /\ B \subseteq workers
          /\ N \subseteq M \cup {w}
          /\ w \in N => r.op = "register"
      BY <2>1, <2>7, <2>8 DEF Makers, Making
    <3>2. ids + Cardinality(M) <= most
      BY DEF LoginRoom
    <3>3. r.op = "register" => ids + Cardinality(B) < most
      BY <2>1, SameCardinality
    <3> HIDE DEF M, N, B
    <3>4. IsFiniteSet(B) /\ IsFiniteSet(M) /\ IsFiniteSet(N)
      <4>1. IsFiniteSet(B)
        BY <1>1, <3>1, FS_Subset
      <4>2. IsFiniteSet(M)
        BY <3>1, <4>1, FS_Subset
      <4>3. IsFiniteSet(M \cup {w})
        BY <4>2, FS_AddElement
      <4> QED
        BY <3>1, <4>1, <4>2, <4>3, FS_Subset
    <3>5. /\ Cardinality(B) \in Nat /\ Cardinality(M) \in Nat
          /\ Cardinality(N) \in Nat
      BY <3>4, FS_CardinalityType
    <3>6. ids + Cardinality(N) <= most
      <4>1. CASE w \in N
        <5>1. /\ IsFiniteSet(B \cup {w})
              /\ Cardinality(B \cup {w}) = Cardinality(B) + 1
          BY <3>1, <3>4, FS_AddElement
        <5>2. Cardinality(N) <= Cardinality(B \cup {w})
          BY <3>1, <5>1, FS_Subset
        <5> QED
          BY <1>1, <3>1, <3>3, <3>5, <4>1, <5>1, <5>2
      <4>2. CASE w \notin N
        <5>1. Cardinality(N) <= Cardinality(M)
          BY <3>1, <3>4, <4>2, FS_Subset
        <5> QED
          BY <1>1, <3>2, <3>5, <5>1
      <4> QED
        BY <4>1, <4>2
    <3> QED
      BY <2>1, <3>6 DEF LoginRoom, N
  <2> QED
    BY <1>1, <2>1, <2>8, <2>9, <2>10 DEF LoginTypes
<1>4. ASSUME NEW w \in workers,
             Logins(people, workers, requests, most, n)!Work(w)
      PROVE  LoginTypes(people, workers, requests, most)'
               /\ LoginRoom(workers, most)'
  BY <1>4, LoginWorks
<1>5. ASSUME UNCHANGED <<ids, closed, script, copy>>,
             session' \in [1..most -> Docs(people) \cup {Nil}],
             cached' \in [1..most -> Docs(people) \cup {Nil}]
      PROVE  LoginTypes(people, workers, requests, most)'
               /\ LoginRoom(workers, most)'
  BY <1>5 DEF LoginTypes, LoginRoom, Makers, Making
<1>6. ASSUME NEW s \in 1..most,
             Logins(people, workers, requests, most, n)!Lapse(s)
      PROVE  LoginTypes(people, workers, requests, most)'
               /\ LoginRoom(workers, most)'
  BY <1>1, <1>5, <1>6 DEF Logins!Lapse
<1>7. CASE Logins(people, workers, requests, most, n)!Cleanup
  <2>1. session' \in [1..most -> Docs(people) \cup {Nil}]
    BY <1>1, <1>7 DEF Logins!Cleanup, Logins!SessionIds
  <2> QED
    BY <1>1, <1>5, <1>7, <2>1 DEF Logins!Cleanup
<1>8. CASE \/ Logins(people, workers, requests, most, n)!Stop
           \/ UNCHANGED Logins(people, workers, requests, most, n)!vars
  BY <1>1, <1>5, <1>8 DEF Logins!Stop, Logins!vars
<1> QED
  BY <1>3, <1>4, <1>6, <1>7, <1>8 DEF Logins!Next, Logins!SessionIds

(* With one worker, closed sessions stay over, and so do their copies but  *)
(* while the worker replaces them.                                         *)
LEMMA ClosedWorks ==
  ASSUME NEW people, NEW workers, NEW requests, NEW most, NEW n,
         Logins(people, workers, requests, most, n)!SessionsAssumption,
         LoginTypes(people, workers, requests, most),
         LoginRoom(workers, most), ClosedOver(workers),
         NEW w \in workers, \A v \in workers : v = w,
         Logins(people, workers, requests, most, n)!Work(w)
  PROVE  ClosedOver(workers)'
<1> DEFINE h == Head(script[w])
<1> DEFINE t == Tail(script[w])
<1> USE DEF Logins!Ready, Logins!Now, Logins!Command
<1>1. script[w] # <<>>
  BY DEF Logins!Work, Logins!Get, Logins!Find, Logins!Store,
         Logins!ExpireSession, Logins!Touch, Logins!Verify, Logins!Handles,
         Logins!Panic, Logins!Unknown, Logins!CloseSession, Logins!Closing,
         Logins!CloseActive, Logins!OwnSession, Logins!CloseAll, Logins!Other, Logins!Register, Logins!Create,
         Logins!Login, Logins!Recall, Logins!Recalled
<1>2. /\ most \in Nat /\ ids \in Nat /\ ids <= most
      /\ LoginScript(people, requests, most, ids, script[w])
      /\ h.do \notin {"create", "handle"} => h.at \in 1..most
  BY <1>1, LoginHead
<1>3. /\ session \in [1..most -> Docs(people) \cup {Nil}]
      /\ cached \in [1..most -> Docs(people) \cup {Nil}]
      /\ closed \subseteq 1..ids /\ closed \subseteq 1..most
      /\ DOMAIN script = workers
  BY <1>2 DEF LoginTypes
<1>4. /\ \A s \in closed : ~Live(session[s])
      /\ \A s \in closed : Live(cached[s]) =>
           h.at = s /\ h.do \in {"find", "store"}
      /\ h.do = "store" /\ h.at \in closed => ~Live(h.arg)
  BY <1>1 DEF ClosedOver
<1>5. Storing(script'[w]) => h.do \in {"get", "find"}
  BY LoginWorks
<1>6. ASSUME ~Storing(script'[w]), cached' = cached,
             h.do \notin {"find", "store"},
             \A s \in closed' : ~Live(session'[s]),
             closed' = closed
      PROVE  ClosedOver(workers)'
  BY <1>4, <1>6 DEF ClosedOver, Storing
<1>7. CASE Logins(people, workers, requests, most, n)!Get(w)
  <2>1. h.do = "get"
    BY <1>7 DEF Logins!Get
  <2>2. UNCHANGED <<session, cached, closed>>
    BY <1>7 DEF Logins!Get
  <2>3. Storing(script'[w]) => /\ Head(script'[w]).at = h.at
                               /\ Head(script'[w]).arg = session[h.at]
    <3>1. CASE script' = [script EXCEPT ![w] = <<>> \o t]
      <4>1. script'[w] = t
        BY <1>1, <1>2, <1>3, <3>1 DEF LoginScript
      <4>2. t # <<>> => Head(t).do # "store"
        <5> SUFFICES ASSUME t # <<>> PROVE Head(t).do # "store"
          OBVIOUS
        <5>1. 1 + 1 \in 1..Len(script[w]) /\ Head(t) = script[w][1 + 1]
          BY <1>1, <1>2 DEF LoginScript
        <5> QED
          BY <1>2, <5>1 DEF LoginScript
      <4> QED
        BY <4>1, <4>2 DEF Storing
    <3>2. CASE script' = [script EXCEPT ![w] =
                 <<[do |-> "store", at |-> h.at, arg |-> session[h.at]]>> \o t]
      <4> DEFINE c == [do |-> "store", at |-> h.at, arg |-> session[h.at]]
      <4>1. script'[w] = <<c>> \o t
        BY <1>3, <3>2
      <4> HIDE DEF c
      <4>2. Head(<<c>> \o t) = c
        BY <1>1, <1>2 DEF LoginScript
      <4> QED
        BY <4>1, <4>2 DEF c
    <3> QED
      BY <1>7, <3>1, <3>2 DEF Logins!Get, Logins!Become, Logins!Proceed
  <2> QED
    BY <1>4, <2>1, <2>2, <2>3 DEF ClosedOver, Storing
<1>8. CASE Logins(people, workers, requests, most, n)!Find(w)
  <2> DEFINE c == [do |-> "store", at |-> h.at, arg |-> session[h.at]]
  <2>1. h.do = "find"
    BY <1>8 DEF Logins!Find
  <2>2. UNCHANGED <<session, cached, closed>>
    BY <1>8 DEF Logins!Find
  <2>3. script'[w] = <<c>> \o t
    BY <1>3, <1>8 DEF Logins!Find, Logins!Become
  <2>4. c.do = "store" /\ c.at = h.at /\ c.arg = session[h.at]
    OBVIOUS
  <2> HIDE DEF c
  <2>5. <<c>> \o t # <<>> /\ Head(<<c>> \o t) = c
    BY <1>1, <1>2 DEF LoginScript
  <2> QED
    BY <1>4, <2>1, <2>2, <2>3, <2>4, <2>5 DEF ClosedOver
<1>9. CASE Logins(people, workers, requests, most, n)!Store(w)
  <2>1. h.do = "store" /\ ~Storing(script'[w])
    BY <1>5, <1>9 DEF Logins!Store
  <2>2. /\ cached' = [cached EXCEPT ![h.at] = h.arg]
        /\ UNCHANGED <<session, closed>>
    BY <1>9 DEF Logins!Store
  <2>3. \A s \in closed : ~Live(cached'[s])
    BY <1>2, <1>3, <1>4, <2>1, <2>2
  <2> QED
    BY <1>4, <2>1, <2>2, <2>3 DEF ClosedOver, Storing
<1>10. CASE Logins(people, workers, requests, most, n)!ExpireSession(w)
  <2> DEFINE c == [do |-> "find", at |-> h.at, arg |-> Nil]
  <2>1. h.do = "expire"
    BY <1>10 DEF Logins!ExpireSession
  <2>2. /\ session' = [session EXCEPT ![h.at] = IF @ = Nil THEN Nil ELSE
                         [@ EXCEPT !.expired = TRUE]]
        /\ closed' = closed \cup {h.at}
        /\ cached' = cached
    BY <1>10 DEF Logins!ExpireSession
  <2>3. script'[w] = <<c>> \o t
    BY <1>3, <1>10
    DEF Logins!ExpireSession, Logins!Become, Logins!UpdateCache
  <2>4. c.do = "find" /\ c.at = h.at
    OBVIOUS
  <2> HIDE DEF c
  <2>5. <<c>> \o t # <<>> /\ Head(<<c>> \o t) = c
    BY <1>1, <1>2 DEF LoginScript
  <2>6. \A s \in closed' : ~Live(session'[s])
    BY <1>2, <1>3, <1>4, <2>1, <2>2 DEF Live, Docs
  <2>7. \A s \in closed' : Live(cached'[s]) => s = h.at
    BY <1>4, <2>1, <2>2
  <2> QED
    BY <1>5, <2>1, <2>3, <2>4, <2>5, <2>6, <2>7 DEF ClosedOver, Storing
<1>11. CASE \/ Logins(people, workers, requests, most, n)!Touch(w)
            \/ Logins(people, workers, requests, most, n)!Verify(w)
            \/ Logins(people, workers, requests, most, n)!Unknown(w)
            \/ Logins(people, workers, requests, most, n)!CloseSession(w)
            \/ Logins(people, workers, requests, most, n)!Closing(w)
            \/ Logins(people, workers, requests, most, n)!CloseActive(w)
            \/ Logins(people, workers, requests, most, n)!OwnSession(w)
            \/ Logins(people, workers, requests, most, n)!Other(w)
            \/ Logins(people, workers, requests, most, n)!Register(w)
            \/ Logins(people, workers, requests, most, n)!Recall(w)
            \/ Logins(people, workers, requests, most, n)!Recalled(w)
  <2>1. /\ UNCHANGED <<session, cached, closed>>
        /\ h.do \in {"touch", "verify", "handle", "own", "recall",
                     "closing", "recalled"}
    BY <1>11
    DEF Logins!Touch, Logins!Verify, Logins!Unknown,
        Logins!CloseSession, Logins!Closing, Logins!CloseActive, Logins!OwnSession, Logins!Other,
        Logins!Register, Logins!Recall, Logins!Recalled, Logins!Handles
  <2> QED
    BY <1>4, <1>5, <1>6, <2>1
<1>12. CASE Logins(people, workers, requests, most, n)!CloseAll(w)
  <2>1. h.do = "handle" /\ UNCHANGED <<cached, closed>>
    BY <1>12 DEF Logins!CloseAll, Logins!Handles
  <2>2. \A s \in 1..most : session'[s] = session[s] \/ session'[s] = Nil
    BY <1>3, <1>12 DEF Logins!CloseAll, Logins!SessionIds
  <2>3. \A s \in closed' : ~Live(session'[s])
    BY <1>3, <1>4, <2>1, <2>2 DEF Live
  <2> QED
    BY <1>5, <1>6, <2>1, <2>3
<1>13. CASE Logins(people, workers, requests, most, n)!Create(w)
  <2>1. h.do = "create" /\ UNCHANGED <<cached, closed>>
    BY <1>13 DEF Logins!Create
  <2>2. /\ ids' = ids + 1
        /\ session' = [session EXCEPT ![ids'] =
                         [uid |-> Nil, expired |-> FALSE]]
    BY <1>13 DEF Logins!Create
  <2>3. \A s \in closed : s # ids' /\ s \in 1..most
    BY <1>2, <1>3, <2>2
  <2>4. \A s \in closed' : ~Live(session'[s])
    BY <1>3, <1>4, <2>1, <2>2, <2>3
  <2> QED
    BY <1>5, <1>6, <2>1, <2>4
<1>14. CASE Logins(people, workers, requests, most, n)!Login(w)
  <2>1. h.do = "login" /\ UNCHANGED <<cached, closed>>
    BY <1>14 DEF Logins!Login
  <2>2. \A s \in 1..most : Live(session'[s]) => Live(session[s])
    BY <1>2, <1>3, <1>14, <2>1 DEF Logins!Login, Logins!Good, Live
  <2>3. \A s \in closed' : ~Live(session'[s])
    BY <1>3, <1>4, <2>1, <2>2
  <2> QED
    BY <1>5, <1>6, <2>1, <2>3
<1>15. CASE Logins(people, workers, requests, most, n)!Panic(w)
  <2>1. /\ UNCHANGED <<session, cached, closed>>
        /\ h.do \in {"handle", "closing", "recalled"}
    BY <1>15 DEF Logins!Panic
  <2>2. script'[w] = <<>>
    BY <1>3, <1>15 DEF Logins!Panic
  <2> QED
    BY <1>4, <1>6, <2>1, <2>2 DEF Storing
<1> QED
  BY <1>7, <1>8, <1>9, <1>10, <1>11, <1>12, <1>13, <1>14, <1>15
  DEF Logins!Work

LEMMA ClosedStep ==
  ASSUME NEW people, NEW workers, NEW requests, NEW most, NEW n,
         Logins(people, workers, requests, most, n)!SessionsAssumption,
         LoginTypes(people, workers, requests, most),
         LoginRoom(workers, most), ClosedOver(workers),
         \A v, u \in workers : v = u,
         \/ Logins(people, workers, requests, most, n)!Next
         \/ Logins(people, workers, requests, most, n)!Stop
         \/ UNCHANGED Logins(people, workers, requests, most, n)!vars
  PROVE  ClosedOver(workers)'
<1>1. /\ most \in Nat /\ DOMAIN script = workers /\ closed \subseteq 1..most
      /\ session \in [1..most -> Docs(people) \cup {Nil}]
      /\ cached \in [1..most -> Docs(people) \cup {Nil}]
  <2>1. most \in Nat
    BY DEF Logins!SessionsAssumption
  <2> QED
    BY <2>1 DEF LoginTypes
<1>2. /\ \A s \in closed : ~Live(session[s])
      /\ \A s \in closed : Live(cached[s]) =>
           \E w \in workers : /\ script[w] # <<>> /\ Head(script[w]).at = s
                              /\ Head(script[w]).do \in {"find", "store"}
      /\ \A w \in workers :
           /\ script[w] # <<>> /\ Head(script[w]).do = "store"
           /\ Head(script[w]).at \in closed
           => ~Live(Head(script[w]).arg)
  BY DEF ClosedOver
<1>3. ASSUME NEW w \in workers, NEW r \in requests,
             Logins(people, workers, requests, most, n)!Receive(w, r)
      PROVE  ClosedOver(workers)'
  <2> DEFINE Do(do, s, arg) == [do |-> do, at |-> s, arg |-> arg]
  <2> DEFINE g == Do("get", r.by, Nil)
  <2> DEFINE c == Do(IF r.op = "recall" THEN "recall" ELSE "verify", r.by, r)
  <2> DEFINE d == Do("handle", Nil, r)
  <2>1. /\ script[w] = <<>>
        /\ script'[w] = IF r.by = Nil THEN <<d>> ELSE <<g>> \o <<c>>
        /\ UNCHANGED <<session, cached, closed>>
    BY <1>1, <1>3 DEF Logins!Receive, Logins!GetByID, Logins!Command
  <2>2. script'[w] # <<>> /\ Head(script'[w]).do # "store"
    <3>1. d.do # "store" /\ g.do # "store"
      OBVIOUS
    <3> HIDE DEF d, g, c
    <3> QED
      BY <2>1, <3>1, Cats
  <2>3. \A v \in workers : v = w
    OBVIOUS
  <2>4. \A s \in closed : ~Live(cached[s])
    BY <1>2, <2>1, <2>3
  <2> QED
    BY <1>2, <2>1, <2>2, <2>3, <2>4 DEF ClosedOver
<1>4. ASSUME NEW w \in workers,
             Logins(people, workers, requests, most, n)!Work(w)
      PROVE  ClosedOver(workers)'
  BY <1>4, ClosedWorks
<1>5. ASSUME UNCHANGED <<closed, script>>,
             \A s \in closed : Live(session'[s]) => Live(session[s]),
             \A s \in closed : Live(cached'[s]) => Live(cached[s])
      PROVE  ClosedOver(workers)'
  BY <1>2, <1>5 DEF ClosedOver
<1>6. ASSUME NEW s \in 1..most,
             Logins(people, workers, requests, most, n)!Lapse(s)
      PROVE  ClosedOver(workers)'
  BY <1>1, <1>5, <1>6 DEF Logins!Lapse, Live
<1>7. CASE Logins(people, workers, requests, most, n)!Cleanup
  <2>1. \A s \in closed : Live(session'[s]) => Live(session[s])
    BY <1>1, <1>7 DEF Logins!Cleanup, Logins!SessionIds, Live
  <2> QED
    BY <1>5, <1>7, <2>1 DEF Logins!Cleanup
<1>8. CASE \/ Logins(people, workers, requests, most, n)!Stop
           \/ UNCHANGED Logins(people, workers, requests, most, n)!vars
  BY <1>5, <1>8 DEF Logins!Stop, Logins!vars
<1> QED
  BY <1>3, <1>4, <1>6, <1>7, <1>8 DEF Logins!Next, Logins!SessionIds

LEMMA LoginStart ==
  ASSUME NEW people, NEW workers, NEW requests, NEW most, NEW n,
         Logins(people, workers, requests, most, n)!SessionsAssumption,
         Logins(people, workers, requests, most, n)!Init
  PROVE  /\ LoginTypes(people, workers, requests, most)
         /\ LoginRoom(workers, most) /\ ClosedOver(workers)
<1>1. most \in Nat
  BY DEF Logins!SessionsAssumption
<1>2. /\ ids = 0 /\ closed = {}
      /\ session = [s \in 1..most |-> Nil]
      /\ cached = [s \in 1..most |-> Nil]
      /\ script = [w \in workers |-> <<>>]
      /\ copy = [w \in workers |-> Nil]
  BY DEF Logins!Init, Logins!SessionIds
<1>3. LoginTypes(people, workers, requests, most)
  <2>1. ids \in Nat /\ ids \in 0..most /\ closed \subseteq 1..ids
    BY <1>1, <1>2
  <2>2. \A w \in workers : LoginScript(people, requests, most, ids, script[w])
    BY <1>1, <1>2, <2>1, ScriptShort
  <2>3. DOMAIN script = workers
    BY <1>2
  <2> QED
    BY <1>2, <2>1, <2>2, <2>3 DEF LoginTypes
<1>4. LoginRoom(workers, most)
  <2>1. Makers(workers) = {}
    BY <1>2 DEF Makers, Making
  <2> QED
    BY <1>1, <1>2, <2>1, FS_EmptySet DEF LoginRoom
<1>5. ClosedOver(workers)
  BY <1>2 DEF ClosedOver
<1> QED
  BY <1>3, <1>4, <1>5

(* What a run of one worker shows of its closed sessions holds for any     *)
(* accounts, requests and bounds.                                          *)
LEMMA ClosedInvalid ==
  ASSUME NEW people, NEW workers, NEW requests, NEW most, NEW n,
         Logins(people, workers, requests, most, n)!SessionsAssumption,
         LoginTypes(people, workers, requests, most)
  PROVE  /\ Logins(people, workers, requests, most, n)!TypeOK
         /\ ClosedOver(workers) =>
              Logins(people, workers, requests, most, n)!ExpiredInvalid
<1>1. Logins(people, workers, requests, most, n)!TypeOK
  <2>1. most \in Nat
    BY DEF Logins!SessionsAssumption
  <2>2. closed \subseteq 1..most
    BY <2>1 DEF LoginTypes
  <2> QED
    BY <2>2 DEF LoginTypes, Logins!TypeOK, Logins!SessionIds,
              Logins!SessionDocs, Docs
<1>2. ClosedOver(workers) =>
        Logins(people, workers, requests, most, n)!ExpiredInvalid
  BY DEF ClosedOver, Live, Logins!ExpiredInvalid, Logins!Quiet,
         Logins!Valid, Logins!Good
<1> QED
  BY <1>1, <1>2

-----------------------------------------------------------------------------
(* Uploads.                                                                *)

(* Processors that the collector still waits for, if it waits for any; the *)
(* others panic when they are done.                                        *)
Busy == {p \in DOMAIN proc : proc[p] \in {"reading", "stored"}}
Counted == kind \in {"VOICE", "IMAGE", "GIF"}
Documented == (IF kind = "VOICE" THEN "voice" ELSE "file") \in files

UploadListing ==
  /\ ~panicked => IF Counted THEN waiting = Cardinality(Busy)
                  ELSE waiting = 0 /\ Busy = DOMAIN proc /\ found = {}
  /\ collector # "waiting" => save \in {"done", "failed"}
  /\ collector # "waiting" /\ ~panicked /\ Counted =>
       Busy = {} /\ (Documented => found \cap {"meta"} \subseteq listed)
  /\ collector = "done" /\ ~panicked /\ Documented => listed = found
  /\ main \in {"answered", "refused"} =>
       /\ collector = "done" /\ Busy = {}
       /\ Documented => listed = found

UploadInv(kinds, thumbs, most) ==
  Uploads(kinds, thumbs, most)!TypeOK /\ UploadListing

LEMMA UploadTypes ==
  ASSUME NEW kinds, NEW thumbs, NEW most,
         Uploads(kinds, thumbs, most)!UploadAssumption,
         Uploads(kinds, thumbs, most)!TypeOK,
         \/ Uploads(kinds, thumbs, most)!Step
         \/ UNCHANGED Uploads(kinds, thumbs, most)!vars
  PROVE  Uploads(kinds, thumbs, most)!TypeOK'
<1> USE DEF Uploads!streams, Uploads!stored, Uploads!TypeOK
<1>1. /\ most \in Nat
      /\ "save" \in Uploads(kinds, thumbs, most)!Ends(kind)
  BY DEF Uploads!UploadAssumption, Uploads!Ends
<1>2. CASE Uploads(kinds, thumbs, most)!NextChunk
  BY <1>1, <1>2 DEF Uploads!NextChunk
<1>3. CASE Uploads(kinds, thumbs, most)!WriteChunk
  BY <1>1, <1>3 DEF Uploads!WriteChunk
<1>4. CASE Uploads(kinds, thumbs, most)!StopWriting
  BY <1>1, <1>4 DEF Uploads!StopWriting
<1>5. CASE Uploads(kinds, thumbs, most)!EndOfFile
  BY <1>1, <1>5 DEF Uploads!EndOfFile
<1>6. CASE Uploads(kinds, thumbs, most)!ClosePipes
  BY <1>1, <1>6 DEF Uploads!ClosePipes
<1>7. CASE Uploads(kinds, thumbs, most)!Answer
  BY <1>1, <1>7 DEF Uploads!Answer, Uploads!Saved
<1>8. CASE Uploads(kinds, thumbs, most)!Convert
  BY <1>1, <1>8 DEF Uploads!Convert
<1>9. CASE Uploads(kinds, thumbs, most)!ConvertFails
  BY <1>1, <1>9 DEF Uploads!ConvertFails
<1>10. CASE Uploads(kinds, thumbs, most)!ConvertEmpty
  BY <1>1, <1>10 DEF Uploads!ConvertEmpty
<1>11. CASE Uploads(kinds, thumbs, most)!StoreFile
  BY <1>1, <1>11 DEF Uploads!StoreFile
<1>12. CASE Uploads(kinds, thumbs, most)!StoreFails
  BY <1>1, <1>12 DEF Uploads!StoreFails
<1>13. CASE Uploads(kinds, thumbs, most)!AddFile
  BY <1>1, <1>13 DEF Uploads!AddFile
<1>14. CASE Uploads(kinds, thumbs, most)!Collect
  BY <1>1, <1>14 DEF Uploads!Collect
<1>15. CASE Uploads(kinds, thumbs, most)!ListThumbs
  BY <1>1, <1>15 DEF Uploads!ListThumbs
<1>16. ASSUME NEW p \in DOMAIN proc, Uploads(kinds, thumbs, most)!Processor(p)
      PROVE  Uploads(kinds, thumbs, most)!TypeOK'
  <2>1. /\ p \in Uploads(kinds, thumbs, most)!Processors(kind)
        /\ UNCHANGED <<kind, left, todo, written, pipe, out, main, errors,
                       pre, save, collector, listed>>
        /\ found' \in {found, found \cup {p}}
        /\ waiting' \in {waiting, waiting - 1}
        /\ panicked' \in BOOLEAN
        /\ \E s \in {"stored", "draining", "done"} :
             proc' = [proc EXCEPT ![p] = s]
    BY <1>16 DEF Uploads!Processor, Uploads!StoreThumb, Uploads!Note,
                Uploads!ProcessFails, Uploads!Drained, Uploads!Done
  <2> QED
    BY <2>1
<1>17. CASE UNCHANGED Uploads(kinds, thumbs, most)!vars
  BY <1>17 DEF Uploads!vars
<1> QED
  BY <1>2, <1>3, <1>4, <1>5, <1>6, <1>7, <1>8, <1>9, <1>10, <1>11, <1>12,
     <1>13, <1>14, <1>15, <1>16, <1>17
  DEF Uploads!Step, Uploads!Handler, Uploads!Converter, Uploads!Saver,
      Uploads!Collector

(* The counter of an upload's processors, and what the collector lists.    *)
LEMMA UploadLists ==
  ASSUME NEW kinds, NEW thumbs, NEW most,
         Uploads(kinds, thumbs, most)!UploadAssumption,
         UploadInv(kinds, thumbs, most),
         \/ Uploads(kinds, thumbs, most)!Step
         \/ UNCHANGED Uploads(kinds, thumbs, most)!vars
  PROVE  UploadListing'
<1> DEFINE U == Uploads(kinds, thumbs, most)!Processors(kind)
<1> USE DEF Uploads!streams, Uploads!stored
<1>1. /\ proc \in [U -> {"reading", "stored", "draining", "done"}]
      /\ found \subseteq U /\ listed \subseteq found
      /\ panicked \in BOOLEAN
      /\ main \in {"writing", "closing", "awaiting", "answered", "refused"}
      /\ collector \in {"waiting", "thumbnails", "done"}
      /\ kind \in {"FILE", "DOCUMENT", "OTHER", "PICTURE", "VIDEO", "AUDIO",
                   "VOICE", "IMAGE", "GIF"}
  BY DEF UploadInv, Uploads!TypeOK, Uploads!AllKinds
<1>2. /\ U \subseteq thumbs \cup {"meta"} /\ IsFiniteSet(U)
      /\ thumbs \cap {"file", "voice", "meta"} = {}
  <2>1. U \subseteq thumbs \cup {"meta"}
    BY <1>1 DEF Uploads!Processors
  <2>2. IsFiniteSet(thumbs)
    BY DEF Uploads!UploadAssumption, Uploads!IsFiniteSet, IsFiniteSet
  <2>3. IsFiniteSet(thumbs \cup {"meta"})
    BY <2>2, FS_AddElement
  <2> QED
    BY <2>1, <2>3, FS_Subset DEF Uploads!UploadAssumption
<1>3. Busy \subseteq U /\ IsFiniteSet(Busy) /\ DOMAIN proc = U
  <2>1. Busy \subseteq U
    BY <1>1 DEF Busy
  <2> QED
    BY <1>1, <1>2, <2>1, FS_Subset
<1>4. UploadListing
  BY DEF UploadInv
<1> HIDE DEF U
<1>5. ASSUME UNCHANGED <<kind, proc, waiting, found, files, listed,
                         panicked, collector>>,
             main' \in {"answered", "refused"} => main' = main,
             save' = save
      PROVE  UploadListing'
  BY <1>4, <1>5 DEF UploadListing, Busy, Counted, Documented
<1>6. ASSUME UNCHANGED <<kind, proc, waiting, found, listed, panicked,
                         collector, main>>,
             save \notin {"done", "failed"}
      PROVE  UploadListing'
  BY <1>1, <1>4, <1>6 DEF UploadListing, Busy, Counted, Documented
<1>7. CASE Uploads(kinds, thumbs, most)!NextChunk
  BY <1>5, <1>7 DEF Uploads!NextChunk
<1>8. CASE Uploads(kinds, thumbs, most)!WriteChunk
  BY <1>5, <1>8 DEF Uploads!WriteChunk
<1>9. CASE Uploads(kinds, thumbs, most)!StopWriting
  BY <1>5, <1>9 DEF Uploads!StopWriting
<1>10. CASE Uploads(kinds, thumbs, most)!EndOfFile
  BY <1>5, <1>10 DEF Uploads!EndOfFile
<1>11. CASE Uploads(kinds, thumbs, most)!ClosePipes
  BY <1>5, <1>11 DEF Uploads!ClosePipes
<1>12. CASE Uploads(kinds, thumbs, most)!Convert
  BY <1>5, <1>12 DEF Uploads!Convert
<1>13. CASE Uploads(kinds, thumbs, most)!ConvertFails
  BY <1>5, <1>13 DEF Uploads!ConvertFails
<1>14. CASE Uploads(kinds, thumbs, most)!ConvertEmpty
  BY <1>5, <1>14 DEF Uploads!ConvertEmpty
<1>15. CASE Uploads(kinds, thumbs, most)!StoreFile
  BY <1>6, <1>15 DEF Uploads!StoreFile
<1>16. CASE Uploads(kinds, thumbs, most)!StoreFails
  BY <1>6, <1>16 DEF Uploads!StoreFails
<1>17. CASE Uploads(kinds, thumbs, most)!AddFile
  BY <1>6, <1>17 DEF Uploads!AddFile
<1>18. CASE ~panicked /\ Uploads(kinds, thumbs, most)!Answer
  <2>1. /\ UNCHANGED <<kind, proc, waiting, found, files, listed, panicked,
                       collector, save>>
        /\ collector = "done" /\ \A p \in DOMAIN proc : proc[p] = "done"
    BY <1>18 DEF Uploads!Answer
  <2>2. Busy = {}
    BY <2>1 DEF Busy
  <2>3. Documented => listed = found
    BY <1>4, <1>18, <2>1 DEF UploadListing
  <2> QED
    BY <1>4, <2>1, <2>2, <2>3 DEF UploadListing, Busy, Counted, Documented
<1>19. CASE ~panicked /\ Uploads(kinds, thumbs, most)!Collect
  <2>1. /\ UNCHANGED <<kind, proc, waiting, found, files, panicked, main,
                       save>>
        /\ collector = "waiting" /\ waiting = 0 /\ save \in {"done", "failed"}
        /\ collector' = "thumbnails"
        /\ listed' = IF Documented THEN listed \cup (found \cap {"meta"})
                     ELSE listed
    BY <1>19 DEF Uploads!Collect, Uploads!Saved, Uploads!DocumentId, Documented
  <2>2. main \notin {"answered", "refused"}
    BY <1>4, <2>1 DEF UploadListing
  <2>3. Counted => Busy = {}
    BY <1>3, <1>4, <1>19, <2>1, FS_EmptySet DEF UploadListing
  <2> QED
    BY <1>4, <2>1, <2>2, <2>3 DEF UploadListing, Busy, Counted, Documented
<1>20. CASE ~panicked /\ Uploads(kinds, thumbs, most)!ListThumbs
  <2>1. /\ UNCHANGED <<kind, proc, waiting, found, files, panicked, main,
                       save>>
        /\ collector = "thumbnails" /\ collector' = "done"
        /\ listed' = IF Documented THEN listed \cup (found \cap thumbs)
                     ELSE listed
    BY <1>20 DEF Uploads!ListThumbs, Uploads!DocumentId, Documented
  <2>2. main \notin {"answered", "refused"}
    BY <1>4, <2>1 DEF UploadListing
  <2>3. Documented => listed' = found
    <3>1. CASE Counted
      BY <1>1, <1>2, <1>4, <1>20, <2>1, <3>1 DEF UploadListing
    <3>2. CASE ~Counted
      BY <1>1, <1>4, <1>20, <2>1, <3>2 DEF UploadListing
    <3> QED
      BY <3>1, <3>2
  <2>4. collector # "waiting" /\ save \in {"done", "failed"}
    BY <1>4, <2>1 DEF UploadListing
  <2>5. Counted => Busy = {}
    BY <1>4, <1>20, <2>4 DEF UploadListing
  <2>6. ~panicked => IF Counted THEN waiting = Cardinality(Busy)
                     ELSE waiting = 0 /\ Busy = DOMAIN proc /\ found = {}
    BY <1>4 DEF UploadListing
  <2> QED
    BY <2>1, <2>2, <2>3, <2>4, <2>5, <2>6
    DEF UploadListing, Busy, Counted, Documented
<1>21. ASSUME ~panicked, NEW p \in DOMAIN proc, proc[p] \in {"reading", "stored"},
             UNCHANGED <<kind, main, save, collector, files, listed>>,
             proc' = [proc EXCEPT ![p] = "draining"],
             found' \in {found, found \cup {p}},
             waiting' = waiting - 1, panicked' = (waiting = 0)
      PROVE  UploadListing'
  <2>1. p \in Busy /\ Busy' = Busy \ {p}
    BY <1>1, <1>21 DEF Busy
  <2>2. main \notin {"answered", "refused"}
    BY <1>4, <2>1 DEF UploadListing
  <2>3. CASE Counted
    <3>1. Cardinality(Busy') = Cardinality(Busy) - 1
      BY <1>3, <2>1, FS_RemoveElement
    <3>2. waiting = Cardinality(Busy) /\ Cardinality(Busy) \in Nat
      BY <1>3, <1>4, <1>21, <2>3, FS_CardinalityType DEF UploadListing
    <3>3. waiting # 0
      BY <1>3, <2>1, <3>2, FS_EmptySet
    <3>4. collector = "waiting"
      BY <1>4, <1>21, <2>1, <2>3 DEF UploadListing
    <3>5. waiting' = Cardinality(Busy')
      BY <1>21, <3>1, <3>2
    <3> QED
      BY <1>21, <2>2, <2>3, <3>3, <3>4, <3>5 DEF UploadListing, Counted
  <2>4. CASE ~Counted
    <3>1. panicked'
      BY <1>4, <1>21, <2>4 DEF UploadListing
    <3> QED
      BY <1>4, <1>21, <2>2, <3>1 DEF UploadListing
  <2> QED
    BY <2>3, <2>4
<1>22. ASSUME ~panicked, NEW p \in DOMAIN proc,
             \/ Uploads(kinds, thumbs, most)!Note(p)
             \/ Uploads(kinds, thumbs, most)!ProcessFails(p)
      PROVE  UploadListing'
  BY <1>21, <1>22 DEF Uploads!Note, Uploads!ProcessFails, Uploads!Done
<1>23. ASSUME ~panicked, NEW p \in DOMAIN proc,
             \/ Uploads(kinds, thumbs, most)!StoreThumb(p)
             \/ Uploads(kinds, thumbs, most)!Drained(p)
      PROVE  UploadListing'
  <2>1. /\ UNCHANGED <<kind, main, save, collector, listed, found, waiting,
                       panicked>>
        /\ \/ /\ proc[p] = "reading" /\ p \in thumbs
              /\ proc' = [proc EXCEPT ![p] = "stored"]
              /\ files' \in {files, files \cup {p}}
           \/ /\ proc[p] = "draining" /\ files' = files
              /\ proc' = [proc EXCEPT ![p] = "done"]
    BY <1>23 DEF Uploads!StoreThumb, Uploads!Drained
  <2>2. Busy' = Busy /\ DOMAIN proc' = DOMAIN proc
    BY <1>1, <2>1 DEF Busy
  <2>3. Documented' <=> Documented
    BY <1>2, <2>1 DEF Documented
  <2> QED
    BY <1>4, <2>1, <2>2, <2>3 DEF UploadListing, Counted
<1>24. CASE UNCHANGED Uploads(kinds, thumbs, most)!vars
  BY <1>5, <1>24 DEF Uploads!vars
<1> QED
  BY <1>7, <1>8, <1>9, <1>10, <1>11, <1>12, <1>13, <1>14,
     <1>15, <1>16, <1>17, <1>18, <1>19, <1>20, <1>22, <1>23, <1>24
  DEF Uploads!Step, Uploads!Handler, Uploads!Converter, Uploads!Saver,
      Uploads!Collector, Uploads!Processor

LEMMA UploadStart ==
  ASSUME NEW kinds, NEW thumbs, NEW most,
         Uploads(kinds, thumbs, most)!UploadAssumption,
         Uploads(kinds, thumbs, most)!Init
  PROVE  UploadInv(kinds, thumbs, most)
<1> DEFINE U == Uploads(kinds, thumbs, most)!Processors(kind)
<1>1. /\ kind \in Uploads(kinds, thumbs, most)!AllKinds /\ left \in 0..most
      /\ pipe = [e \in Uploads(kinds, thumbs, most)!Ends(kind) |-> "open"]
      /\ out = "open" /\ main = "writing" /\ errors = 0
      /\ pre \in {"none", "reading"} /\ save = "reading"
      /\ proc = [p \in U |-> "reading"]
      /\ waiting = Uploads(kinds, thumbs, most)!Expected(kind)
      /\ found = {} /\ collector = "waiting" /\ listed = {}
      /\ panicked = FALSE
  BY DEF Uploads!Init, Uploads!UploadAssumption
<1>2. IsFiniteSet(U)
  <2>1. U \subseteq thumbs \cup {"meta"}
    BY <1>1 DEF Uploads!Processors, Uploads!AllKinds
  <2>2. IsFiniteSet(thumbs)
    BY DEF Uploads!UploadAssumption, Uploads!IsFiniteSet, IsFiniteSet
  <2>3. IsFiniteSet(thumbs \cup {"meta"})
    BY <2>2, FS_AddElement
  <2> QED
    BY <2>1, <2>3, FS_Subset
<1>3. Busy = U
  BY <1>1 DEF Busy
<1>4. /\ waiting = IF Counted THEN Cardinality(U) ELSE 0
      /\ waiting \in Int
  <2>1. Uploads(kinds, thumbs, most)!Cardinality(U) = Cardinality(U)
    BY DEF Uploads!Cardinality, Cardinality
  <2>2. Cardinality(U) \in Nat
    BY <1>2, FS_CardinalityType
  <2> HIDE DEF U
  <2>3. waiting = IF Counted
                    THEN Uploads(kinds, thumbs, most)!Cardinality(U) ELSE 0
    BY <1>1 DEF Uploads!Expected, Counted, U
  <2> QED
    BY <2>1, <2>2, <2>3
<1> HIDE DEF U
<1>5. UploadListing
  <2>1. DOMAIN proc = U
    BY <1>1
  <2> QED
    BY <1>1, <1>3, <1>4, <2>1 DEF UploadListing
<1>6. Uploads(kinds, thumbs, most)!TypeOK
  <2>1. /\ pipe \in [Uploads(kinds, thumbs, most)!Ends(kind)
                     -> {"open", "closed", "broken"}]
        /\ out \in {"open", "closed", "broken"} /\ errors \in 0..2
    BY <1>1
  <2>2. /\ proc \in [U -> {"reading", "stored", "draining", "done"}]
        /\ found \subseteq U /\ listed \subseteq found
    BY <1>1
  <2> QED
    BY <1>1, <1>4, <2>1, <2>2 DEF Uploads!TypeOK, U
<1> QED
  BY <1>5, <1>6 DEF UploadInv

(* Whatever kind is uploaded, an answered upload lists what was found.     *)
LEMMA UploadListed ==
  ASSUME NEW kinds, NEW thumbs, NEW most,
         UploadInv(kinds, thumbs, most)
  PROVE  Uploads(kinds, thumbs, most)!ThumbsListed
BY DEF UploadInv, UploadListing, Documented, Uploads!ThumbsListed,
       Uploads!DocumentId

-----------------------------------------------------------------------------
(* Hooks.                                                                  *)

(* The events of a sequence, and of the hooker and its goroutines.         *)
Carried(s) == {s[i].id : i \in 1..Len(s)}
Once(s) == \A i, j \in 1..Len(s) : s[i].id = s[j].id => i = j
Held == IF taken = Nil THEN {} ELSE {taken.id}
Handled == {g.event.id : g \in running}

(* An event is in one place, and chLimit counts the goroutines.            *)
HookOnce(workers) ==
  /\ \A w \in workers :
       /\ Once(sends[w]) /\ Carried(sends[w]) \subseteq 1..events
       /\ Carried(sends[w]) \cap (Carried(queue) \cup Held \cup Handled) = {}
  /\ \A w, v \in workers :
       w # v => Carried(sends[w]) \cap Carried(sends[v]) = {}
  /\ Once(queue) /\ Carried(queue) \cap (Held \cup Handled) = {}
  /\ Carried(queue) \cup Held \cup Handled \subseteq 1..events
  /\ Held \cap Handled = {}
  /\ \A f, g \in running : f.event.id = g.event.id => f = g
  /\ IsFiniteSet(running) /\ limit = Cardinality(running)

HookTypes(places, types, workers, slots, room, most, n) ==
  /\ Hooking(places, types, workers, slots, room, most, n)!TypeOK
  /\ added \in 0..most /\ events \in 0..n /\ DOMAIN sends = workers
  /\ \A g \in running :
       g = [event |-> g.event, calls |-> g.calls, stuck |-> g.stuck]

LEMMA HeadOnce ==
  ASSUME NEW E, NEW s \in Seq(E), s # <<>>, Once(s)
  PROVE  /\ Carried(s) = {Head(s).id} \cup Carried(Tail(s))
         /\ Head(s).id \notin Carried(Tail(s)) /\ Once(Tail(s))
         /\ Head(s) \in E /\ Tail(s) \in Seq(E)
         /\ Len(Tail(s)) = Len(s) - 1
<1> DEFINE t == Tail(s)
<1>1. /\ Len(s) \in Nat /\ Len(s) >= 1 /\ Head(s) = s[1] /\ s[1] \in E
      /\ t \in Seq(E) /\ Len(t) = Len(s) - 1
      /\ \A i \in 1..Len(t) : t[i] = s[i + 1] /\ i + 1 \in 1..Len(s)
  OBVIOUS
<1> HIDE DEF t
<1>2. \A i \in 1..Len(s) : i = 1 \/ (i - 1 \in 1..Len(t) /\ (i - 1) + 1 = i)
  BY <1>1
<1>3. Carried(s) = {Head(s).id} \cup Carried(t)
  <2>1. 1 \in 1..Len(s)
    BY <1>1
  <2>2. Carried(t) \subseteq Carried(s)
    BY <1>1 DEF Carried
  <2>3. ASSUME NEW i \in 1..Len(s), i # 1
        PROVE  s[i].id \in Carried(t)
    <3>1. i - 1 \in 1..Len(t) /\ s[i] = t[i - 1]
      BY <1>1, <1>2, <2>3
    <3> QED
      BY <3>1 DEF Carried
  <2>4. \A i \in 1..Len(s) : s[i].id \in {Head(s).id} \cup Carried(t)
    BY <1>1, <2>3
  <2>5. Head(s).id \in Carried(s)
    BY <1>1, <2>1 DEF Carried
  <2>6. Carried(s) \subseteq {Head(s).id} \cup Carried(t)
    BY <2>4 DEF Carried
  <2> QED
    BY <2>2, <2>5, <2>6
<1>4. Head(s).id \notin Carried(t)
  <2> SUFFICES ASSUME NEW i \in 1..Len(t), t[i].id = s[1].id
               PROVE  FALSE
    BY <1>1 DEF Carried
  <2>1. 1 \in 1..Len(s) /\ i + 1 \in 1..Len(s) /\ s[i + 1].id = s[1].id
    BY <1>1
  <2>2. i + 1 = 1
    BY <2>1 DEF Once
  <2> QED
    BY <2>2
<1>5. Once(t)
  <2> SUFFICES ASSUME NEW i \in 1..Len(t), NEW j \in 1..Len(t),
                      t[i].id = t[j].id
               PROVE  i = j
    BY DEF Once
  <2>1. i + 1 = j + 1
    BY <1>1 DEF Once
  <2> QED
    BY <2>1
<1> QED
  BY <1>1, <1>3, <1>4, <1>5 DEF t

LEMMA AppendOnce ==
  ASSUME NEW E, NEW s \in Seq(E), Once(s), NEW e \in E,
         e.id \notin Carried(s)
  PROVE  /\ Carried(Append(s, e)) = Carried(s) \cup {e.id}
         /\ Once(Append(s, e)) /\ Append(s, e) \in Seq(E)
         /\ Len(Append(s, e)) = Len(s) + 1
<1> DEFINE t == Append(s, e)
<1>1. /\ Len(s) \in Nat /\ Len(t) = Len(s) + 1 /\ t \in Seq(E)
      /\ \A i \in 1..Len(s) : t[i] = s[i] /\ i \in 1..Len(t)
      /\ t[Len(t)] = e /\ Len(t) \in 1..Len(t)
  OBVIOUS
<1> HIDE DEF t
<1>2. \A i \in 1..Len(t) : i \in 1..Len(s) \/ i = Len(t)
  BY <1>1
<1>3. Carried(t) = Carried(s) \cup {e.id}
  BY <1>1, <1>2 DEF Carried
<1>4. \A i \in 1..Len(s) : s[i].id # e.id
  BY DEF Carried
<1>5. Once(t)
  BY <1>1, <1>2, <1>4 DEF Once
<1> QED
  BY <1>1, <1>3, <1>5 DEF t

(* What the hooker and its goroutines do.                                  *)
LEMMA HookStep ==
  ASSUME NEW places, NEW types, NEW workers, NEW slots, NEW room, NEW most,
         NEW n,
         Hooking(places, types, workers, slots, room, most, n)!HooksAssumption,
         HookTypes(places, types, workers, slots, room, most, n),
         HookOnce(workers),
         \/ Hooking(places, types, workers, slots, room, most, n)!Next
         \/ Hooking(places, types, workers, slots, room, most, n)!Stop
         \/ UNCHANGED Hooking(places, types, workers, slots, room, most, n)!vars
  PROVE  /\ HookTypes(places, types, workers, slots, room, most, n)'
         /\ HookOnce(workers)'
<1> DEFINE E == [id : 1..n, place : places, kind : types]
<1> DEFINE D == [place : places, kind : types]
<1>1. /\ slots \in Nat /\ room \in Nat /\ most \in Nat /\ n \in Nat
  BY DEF Hooking!HooksAssumption
<1>2. /\ hooks \in [1..most -> D \cup {Nil}]
      /\ \A w \in workers : sends[w] \in Seq(E)
      /\ queue \in Seq(E) /\ Len(queue) <= room
      /\ taken \in E \cup {Nil} /\ limit \in 0..slots
      /\ \A g \in running :
           /\ g.event \in E /\ g.stuck \in BOOLEAN
           /\ g = [event |-> g.event, calls |-> g.calls, stuck |-> g.stuck]
      /\ awaited \subseteq (1..n) \X (1..most)
      /\ added \in 0..most /\ events \in 0..n /\ DOMAIN sends = workers
  BY DEF HookTypes, Hooking!TypeOK, Hooking!HookIds, Hooking!Events
<1>3. ASSUME hooks' \in [1..most -> D \cup {Nil}],
             \A w \in workers : sends'[w] \in Seq(E),
             queue' \in Seq(E), Len(queue') <= room,
             taken' \in E \cup {Nil}, limit' \in 0..slots,
             \A g \in running' :
               /\ g.event \in E /\ g.stuck \in BOOLEAN
               /\ g = [event |-> g.event, calls |-> g.calls, stuck |-> g.stuck],
             awaited' \subseteq (1..n) \X (1..most),
             added' \in 0..most, events' \in 0..n, DOMAIN sends' = workers
      PROVE  HookTypes(places, types, workers, slots, room, most, n)'
  BY <1>3 DEF HookTypes, Hooking!TypeOK, Hooking!HookIds, Hooking!Events
<1> HIDE DEF E, D
<1>4. ASSUME UNCHANGED <<sends, events, queue, taken, limit, running>>
      PROVE  HookOnce(workers)'
  BY <1>4 DEF HookOnce, Held, Handled
<1>5. ASSUME NEW p \in places, NEW k \in types,
             Hooking(places, types, workers, slots, room, most, n)!AddHook(p, k)
      PROVE  /\ HookTypes(places, types, workers, slots, room, most, n)'
             /\ HookOnce(workers)'
  <2>1. /\ added < most /\ added' = added + 1
        /\ hooks' = [hooks EXCEPT ![added'] = [place |-> p, kind |-> k]]
        /\ UNCHANGED <<sends, events, queue, taken, limit, running, awaited>>
    BY <1>5 DEF Hooking!AddHook
  <2>2. added' \in 1..most /\ [place |-> p, kind |-> k] \in D
    BY <1>1, <1>2, <2>1 DEF D
  <2>3. hooks' \in [1..most -> D \cup {Nil}] /\ added' \in 0..most
    BY <1>2, <2>1, <2>2
  <2> QED
    BY <1>2, <1>3, <1>4, <2>1, <2>3
<1>6. ASSUME NEW h \in 1..most,
             Hooking(places, types, workers, slots, room, most, n)!RemoveHook(h)
      PROVE  /\ HookTypes(places, types, workers, slots, room, most, n)'
             /\ HookOnce(workers)'
  <2>1. /\ hooks' \in [1..most -> D \cup {Nil}]
        /\ UNCHANGED <<added, sends, events, queue, taken, limit, running,
                       awaited>>
    BY <1>2, <1>6 DEF Hooking!RemoveHook
  <2> QED
    BY <1>2, <1>3, <1>4, <2>1
<1>7. ASSUME NEW w \in workers, NEW k \in types,
             NEW order \in Hooking(places, types, workers, slots, room, most,
                                   n)!PlaceLists,
             Hooking(places, types, workers, slots, room, most,
                     n)!Request(w, order, k)
      PROVE  /\ HookTypes(places, types, workers, slots, room, most, n)'
             /\ HookOnce(workers)'
  <2> DEFINE m == Len(order)
  <2> DEFINE s == [i \in 1..m |->
                     [id |-> events + i, place |-> order[i], kind |-> k]]
  <2>1. m \in Nat /\ \A i \in 1..m : order[i] \in places
    BY DEF Hooking!PlaceLists
  <2>2. /\ sends[w] = <<>> /\ events + m <= n /\ events' = events + m
        /\ sends' = [sends EXCEPT ![w] = s]
        /\ UNCHANGED <<hooks, added, queue, taken, limit, running, awaited>>
    BY <1>7 DEF Hooking!Request
  <2> HIDE DEF m
  <2>3. s \in Seq(E) /\ Len(s) = m /\ \A i \in 1..m : s[i].id = events + i
    <3>1. \A i \in 1..m :
            [id |-> events + i, place |-> order[i], kind |-> k] \in E
      BY <1>1, <1>2, <2>1, <2>2 DEF E
    <3> QED
      BY <2>1, <3>1
  <2> HIDE DEF s
  <2>4. /\ \A i \in 1..Len(s) : s[i].id \in (events + 1)..events'
        /\ Once(s)
    BY <1>2, <2>1, <2>2, <2>3 DEF Once
  <2>5. /\ Carried(s) \subseteq 1..events'
        /\ Carried(s) \cap 1..events = {}
        /\ 1..events \subseteq 1..events'
    BY <1>2, <2>1, <2>2, <2>4 DEF Carried
  <2>6. \A v \in workers : sends'[v] = IF v = w THEN s ELSE sends[v]
    BY <1>2, <2>2
  <2>7. Held' = Held /\ Handled' = Handled
    BY <2>2 DEF Held, Handled
  <2>8. HookOnce(workers)'
    <3>1. \A v \in workers :
            /\ Once(sends'[v]) /\ Carried(sends'[v]) \subseteq 1..events'
            /\ Carried(sends'[v])
                 \cap (Carried(queue) \cup Held \cup Handled) = {}
      BY <2>4, <2>5, <2>6 DEF HookOnce
    <3>2. \A u, v \in workers :
            u # v => Carried(sends'[u]) \cap Carried(sends'[v]) = {}
      BY <2>5, <2>6 DEF HookOnce
    <3>3. Carried(queue) \cup Held \cup Handled \subseteq 1..events'
      BY <2>5 DEF HookOnce
    <3> QED
      BY <2>2, <2>7, <3>1, <3>2, <3>3 DEF HookOnce
  <2>9. /\ \A v \in workers : sends'[v] \in Seq(E)
        /\ DOMAIN sends' = workers /\ events' \in 0..n
    BY <1>1, <1>2, <2>1, <2>2, <2>3, <2>6
  <2> QED
    BY <1>2, <1>3, <2>2, <2>8, <2>9
<1>8. ASSUME NEW w \in workers,
             Hooking(places, types, workers, slots, room, most, n)!Send(w)
      PROVE  /\ HookTypes(places, types, workers, slots, room, most, n)'
             /\ HookOnce(workers)'
  <2> DEFINE e == Head(sends[w])
  <2> DEFINE t == Tail(sends[w])
  <2>1. /\ sends[w] # <<>> /\ Len(queue) < room
        /\ queue' = Append(queue, e)
        /\ sends' = [sends EXCEPT ![w] = t]
        /\ UNCHANGED <<hooks, added, events, taken, limit, running>>
    BY <1>8 DEF Hooking!Send
  <2>2. awaited' \subseteq (1..n) \X (1..most)
    <3>1. e \in E
      BY <1>2, <2>1
    <3>2. e.id \in 1..n
      BY <3>1 DEF E
    <3> HIDE DEF e
    <3>3. awaited' = awaited \cup
            {<<e.id, h>> :
               h \in Hooking(places, types, workers, slots, room, most,
                             n)!HooksOf(e)}
      BY <1>8 DEF Hooking!Send, e
    <3> QED
      BY <1>2, <3>2, <3>3 DEF Hooking!HooksOf, Hooking!HookIds
  <2>3. /\ Carried(sends[w]) = {e.id} \cup Carried(t)
        /\ e.id \notin Carried(t) /\ Once(t)
        /\ e \in E /\ t \in Seq(E)
    BY <1>2, <2>1, HeadOnce DEF HookOnce
  <2> HIDE DEF e, t
  <2>4. e.id \notin Carried(queue) \cup Held \cup Handled /\ Once(queue)
    BY <2>3 DEF HookOnce
  <2>5. /\ Carried(queue') = Carried(queue) \cup {e.id}
        /\ Once(queue') /\ queue' \in Seq(E) /\ Len(queue') = Len(queue) + 1
    BY <1>2, <2>1, <2>3, <2>4, AppendOnce
  <2>6. /\ \A v \in workers : sends'[v] = IF v = w THEN t ELSE sends[v]
        /\ DOMAIN sends' = workers
    BY <1>2, <2>1
  <2>7. Held' = Held /\ Handled' = Handled
    BY <2>1 DEF Held, Handled
  <2>8. HookOnce(workers)'
    <3>1. \A v \in workers :
            /\ Once(sends'[v]) /\ Carried(sends'[v]) \subseteq 1..events
            /\ Carried(sends'[v])
                 \cap (Carried(queue') \cup Held \cup Handled) = {}
      <4> TAKE v \in workers
      <4>1. CASE v = w
        BY <2>3, <2>5, <2>6, <4>1 DEF HookOnce
      <4>2. CASE v # w
        <5>1. /\ Once(sends[v]) /\ Carried(sends[v]) \subseteq 1..events
              /\ Carried(sends[v])
                   \cap (Carried(queue) \cup Held \cup Handled) = {}
              /\ Carried(sends[v]) \cap Carried(sends[w]) = {}
          BY <4>2 DEF HookOnce
        <5> QED
          BY <2>3, <2>5, <2>6, <4>2, <5>1
      <4> QED
        BY <4>1, <4>2
    <3>2. \A u, v \in workers :
            u # v => Carried(sends'[u]) \cap Carried(sends'[v]) = {}
      BY <2>3, <2>6 DEF HookOnce
    <3>3. /\ Carried(queue') \cup Held \cup Handled \subseteq 1..events
          /\ Carried(queue') \cap (Held \cup Handled) = {}
      BY <2>3, <2>4, <2>5 DEF HookOnce
    <3> QED
      BY <2>1, <2>5, <2>7, <3>1, <3>2, <3>3 DEF HookOnce
  <2>9. (\A v \in workers : sends'[v] \in Seq(E)) /\ Len(queue') <= room
    BY <1>1, <1>2, <2>1, <2>3, <2>5, <2>6
  <2> QED
    BY <1>2, <1>3, <2>1, <2>2, <2>5, <2>6, <2>8, <2>9
<1>9. CASE Hooking(places, types, workers, slots, room, most, n)!Take
  <2> DEFINE t == Tail(queue)
  <2>1. /\ taken = Nil /\ queue # <<>>
        /\ taken' = Head(queue) /\ queue' = t
        /\ UNCHANGED <<hooks, added, sends, events, limit, running, awaited>>
    BY <1>9 DEF Hooking!Take
  <2>2. /\ Carried(queue) = {taken'.id} \cup Carried(t)
        /\ taken'.id \notin Carried(t) /\ Once(t)
        /\ taken' \in E /\ t \in Seq(E) /\ Len(t) = Len(queue) - 1
    BY <1>2, <2>1, HeadOnce DEF HookOnce
  <2> HIDE DEF t
  <2>3. /\ Held = {} /\ Held' \subseteq {taken'.id} /\ Handled' = Handled
    BY <2>1 DEF Held, Handled
  <2>4. HookOnce(workers)'
    <3>1. \A v \in workers :
            Carried(sends[v]) \cap (Carried(t) \cup Held' \cup Handled) = {}
      BY <2>2, <2>3 DEF HookOnce
    <3>2. /\ Carried(t) \cap (Held' \cup Handled) = {}
          /\ Carried(t) \cup Held' \cup Handled \subseteq 1..events
          /\ Held' \cap Handled = {}
      BY <2>2, <2>3 DEF HookOnce
    <3> QED
      BY <2>1, <2>2, <2>3, <3>1, <3>2 DEF HookOnce
  <2>5. Len(t) <= room
    BY <1>1, <1>2, <2>2
  <2> QED
    BY <1>2, <1>3, <2>1, <2>2, <2>4, <2>5
<1>10. CASE Hooking(places, types, workers, slots, room, most, n)!Start
  <2> DEFINE g == [event |-> taken, calls |-> Nil, stuck |-> FALSE]
  <2>1. /\ taken # Nil /\ limit < slots /\ limit' = limit + 1
        /\ running' = running \cup {g} /\ taken' = Nil
        /\ UNCHANGED <<hooks, added, sends, events, queue, awaited>>
    BY <1>10 DEF Hooking!Start
  <2>2. /\ taken \in E /\ g.event = taken /\ g.stuck \in BOOLEAN
        /\ g = [event |-> g.event, calls |-> g.calls, stuck |-> g.stuck]
    BY <1>2, <2>1
  <2> HIDE DEF g
  <2>3. /\ Held = {taken.id} /\ Held' = {}
        /\ Handled' = Handled \cup {taken.id}
    BY <2>1, <2>2 DEF Held, Handled
  <2>4. \A f \in running : f.event.id # taken.id
    BY <2>3 DEF HookOnce, Handled
  <2>5. /\ IsFiniteSet(running') /\ Cardinality(running') = limit'
    <3>1. g \notin running
      BY <2>2, <2>4
    <3> QED
      BY <2>1, <3>1, FS_AddElement DEF HookOnce
  <2>6. HookOnce(workers)'
    <3>1. Held' \cup Handled' = Held \cup Handled /\ Held' \cap Handled' = {}
      BY <2>3
    <3>2. \A f, h \in running' : f.event.id = h.event.id => f = h
      BY <2>1, <2>2, <2>4 DEF HookOnce
    <3> QED
      BY <2>1, <2>5, <3>1, <3>2 DEF HookOnce
  <2>7. limit' \in 0..slots
    BY <1>1, <1>2, <2>1
  <2>8. \A f \in running' :
          /\ f.event \in E /\ f.stuck \in BOOLEAN
          /\ f = [event |-> f.event, calls |-> f.calls, stuck |-> f.stuck]
    BY <1>2, <2>1, <2>2
  <2> QED
    BY <1>2, <1>3, <2>1, <2>6, <2>7, <2>8
<1>11. ASSUME NEW g \in running, NEW c, NEW b \in BOOLEAN,
              running' = (running \ {g}) \cup
                {[event |-> g.event, calls |-> c, stuck |-> b]},
              UNCHANGED <<hooks, added, sends, events, queue, taken, limit,
                          awaited>>
       PROVE  /\ HookTypes(places, types, workers, slots, room, most, n)'
              /\ HookOnce(workers)'
  <2> DEFINE h == [event |-> g.event, calls |-> c, stuck |-> b]
  <2>1. /\ h = [event |-> h.event, calls |-> h.calls, stuck |-> h.stuck]
        /\ h.event = g.event /\ h.stuck \in BOOLEAN
    OBVIOUS
  <2>2. running' = (running \ {g}) \cup {h}
    BY <1>11
  <2> HIDE DEF h
  <2>3. Handled' = Handled /\ Held' = Held
    BY <1>11, <2>1, <2>2 DEF Handled, Held
  <2>4. \A f \in running \ {g} : f.event.id # h.event.id
    BY <2>1 DEF HookOnce
  <2>5. IsFiniteSet(running') /\ Cardinality(running') = Cardinality(running)
    <3>1. IsFiniteSet(running \ {g}) /\ Cardinality(running) \in Nat
          /\ Cardinality(running \ {g}) = Cardinality(running) - 1
      BY FS_RemoveElement, FS_CardinalityType DEF HookOnce
    <3>2. h \notin running \ {g}
      BY <2>4
    <3>3. IsFiniteSet(running')
          /\ Cardinality(running') = Cardinality(running \ {g}) + 1
      BY <2>2, <3>1, <3>2, FS_AddElement
    <3> QED
      BY <3>1, <3>3
  <2>6. \A e, f \in running' : e.event.id = f.event.id => e = f
    BY <2>2, <2>4 DEF HookOnce
  <2>7. HookOnce(workers)'
    BY <1>11, <2>3, <2>5, <2>6 DEF HookOnce
  <2>8. \A f \in running' :
          /\ f.event \in E /\ f.stuck \in BOOLEAN
          /\ f = [event |-> f.event, calls |-> f.calls, stuck |-> f.stuck]
    BY <1>2, <2>1, <2>2
  <2> QED
    BY <1>2, <1>3, <1>11, <2>7, <2>8
<1>12. ASSUME NEW g \in running,
              Hooking(places, types, workers, slots, room, most, n)!Leave(g)
       PROVE  /\ HookTypes(places, types, workers, slots, room, most, n)'
              /\ HookOnce(workers)'
  <2>1. /\ running' = running \ {g} /\ limit' = limit - 1
        /\ UNCHANGED <<hooks, added, sends, events, queue, taken, awaited>>
    BY <1>12 DEF Hooking!Leave
  <2>2. /\ IsFiniteSet(running') /\ limit' = Cardinality(running')
        /\ limit' \in Nat
    <3>1. IsFiniteSet(running) /\ limit = Cardinality(running)
      BY DEF HookOnce
    <3>2. /\ IsFiniteSet(running \ {g})
          /\ Cardinality(running \ {g}) = Cardinality(running) - 1
          /\ Cardinality(running \ {g}) \in Nat
      BY <3>1, FS_RemoveElement, FS_CardinalityType
    <3> QED
      BY <2>1, <3>1, <3>2
  <2>3. Handled' \subseteq Handled /\ Held' = Held
    BY <2>1 DEF Handled, Held
  <2>4. HookOnce(workers)'
    <3>1. \A v \in workers :
            Carried(sends[v]) \cap (Carried(queue) \cup Held \cup Handled') = {}
      BY <2>3 DEF HookOnce
    <3>2. /\ Carried(queue) \cap (Held \cup Handled') = {}
          /\ Carried(queue) \cup Held \cup Handled' \subseteq 1..events
          /\ Held \cap Handled' = {}
      BY <2>3 DEF HookOnce
    <3> QED
      BY <2>1, <2>2, <2>3, <3>1, <3>2 DEF HookOnce
  <2>5. limit' \in 0..slots
    BY <1>1, <1>2, <2>1, <2>2
  <2> QED
    BY <1>2, <1>3, <2>1, <2>4, <2>5
<1>13. ASSUME NEW g \in running,
              \/ Hooking(places, types, workers, slots, room, most, n)!Find(g)
              \/ Hooking(places, types, workers, slots, room, most, n)!Post(g)
       PROVE  /\ HookTypes(places, types, workers, slots, room, most, n)'
              /\ HookOnce(workers)'
  <2>1. CASE Hooking(places, types, workers, slots, room, most, n)!Find(g)
    <3>1. /\ g = [event |-> g.event, calls |-> g.calls, stuck |-> g.stuck]
          /\ g.stuck \in BOOLEAN
      BY <1>2
    <3>2. PICK c : running' = (running \ {g}) \cup
                     {[event |-> g.event, calls |-> c, stuck |-> g.stuck]}
      BY <2>1, <3>1 DEF Hooking!Find
    <3> QED
      BY <1>11, <2>1, <3>1, <3>2 DEF Hooking!Find
  <2>2. CASE Hooking(places, types, workers, slots, room, most, n)!Post(g)
    BY <1>11, <2>2 DEF Hooking!Post, Hooking!Posted
  <2> QED
    BY <1>13, <2>1, <2>2
<1>14. CASE \/ Hooking(places, types, workers, slots, room, most, n)!Stop
            \/ UNCHANGED Hooking(places, types, workers, slots, room, most,
                                 n)!vars
  <2>1. UNCHANGED <<hooks, added, sends, events, queue, taken, limit,
                    running, awaited>>
    BY <1>14 DEF Hooking!Stop, Hooking!vars
  <2> QED
    BY <1>2, <1>3, <1>4, <2>1
<1> QED
  BY <1>5, <1>6, <1>7, <1>8, <1>9, <1>10, <1>12, <1>13, <1>14
  DEF Hooking!Next, Hooking!Step, Hooking!HookIds

LEMMA HookStart ==
  ASSUME NEW places, NEW types, NEW workers, NEW slots, NEW room, NEW most,
         NEW n,
         Hooking(places, types, workers, slots, room, most, n)!HooksAssumption,
         Hooking(places, types, workers, slots, room, most, n)!Init
  PROVE  /\ HookTypes(places, types, workers, slots, room, most, n)
         /\ HookOnce(workers)
<1>1. /\ slots \in Nat /\ room \in Nat /\ most \in Nat /\ n \in Nat
  BY DEF Hooking!HooksAssumption
<1>2. /\ hooks = [h \in 1..most |-> Nil] /\ added = 0
      /\ sends = [w \in workers |-> <<>>] /\ events = 0
      /\ queue = <<>> /\ taken = Nil /\ limit = 0 /\ running = {}
      /\ awaited = {}
  BY DEF Hooking!Init, Hooking!HookIds
<1>3. HookTypes(places, types, workers, slots, room, most, n)
  BY <1>1, <1>2
  DEF HookTypes, Hooking!TypeOK, Hooking!HookIds, Hooking!Events
<1>4. Carried(<<>>) = {} /\ Once(<<>>) /\ Held = {} /\ Handled = {}
  BY <1>2 DEF Carried, Once, Held, Handled
<1>5. HookOnce(workers)
  BY <1>2, <1>4, FS_EmptySet DEF HookOnce
<1> QED
  BY <1>3, <1>5

-----------------------------------------------------------------------------
(* Each component alone, whatever its sizes.                               *)

(* What is found of a file, a thumbnail or metadata, is in the document    *)
(* that lists it, whatever the kinds of files, the thumbnails and the      *)
(* length of the file.                                                     *)
THEOREM UploadsList ==
  ASSUME NEW kinds, NEW thumbs, NEW most,
         Uploads(kinds, thumbs, most)!UploadAssumption
  PROVE  Uploads(kinds, thumbs, most)!Spec =>
           []Uploads(kinds, thumbs, most)!ThumbsListed
<1>1. Uploads(kinds, thumbs, most)!Init => UploadInv(kinds, thumbs, most)
  BY UploadStart
<1>2. UploadInv(kinds, thumbs, most) /\
      [Uploads(kinds, thumbs, most)!Next \/ Uploads(kinds, thumbs, most)!Stop
         ]_(Uploads(kinds, thumbs, most)!vars)
        => UploadInv(kinds, thumbs, most)'
  BY UploadTypes, UploadLists DEF UploadInv, Uploads!Next, Uploads!Stop
<1>3. UploadInv(kinds, thumbs, most) =>
        Uploads(kinds, thumbs, most)!ThumbsListed
  BY UploadListed
<1> QED
  BY <1>1, <1>2, <1>3, PTL DEF Uploads!Spec

(* An event is carried by one goroutine at a time, and chLimit holds a     *)
(* token for each goroutine that calls hooks, so never more than its size, *)
(* whatever the places, the hooks and the events.                          *)
THEOREM HooksCarryOnce ==
  ASSUME NEW places, NEW types, NEW workers, NEW slots, NEW room, NEW most,
         NEW n,
         Hooking(places, types, workers, slots, room, most, n)!HooksAssumption
  PROVE  Hooking(places, types, workers, slots, room, most, n)!Spec =>
           [](/\ Hooking(places, types, workers, slots, room, most, n)!TypeOK
              /\ HookOnce(workers))
<1> DEFINE Inv == HookTypes(places, types, workers, slots, room, most, n)
                    /\ HookOnce(workers)
<1>1. Hooking(places, types, workers, slots, room, most, n)!Init => Inv
  BY HookStart
<1>2. Inv /\
      [\/ Hooking(places, types, workers, slots, room, most, n)!Next
       \/ Hooking(places, types, workers, slots, room, most, n)!Stop
         ]_(Hooking(places, types, workers, slots, room, most, n)!vars)
        => Inv'
  BY HookStep
<1>3. Inv => /\ Hooking(places, types, workers, slots, room, most, n)!TypeOK
             /\ HookOnce(workers)
  BY DEF HookTypes
<1> QED
  BY <1>1, <1>2, <1>3, PTL DEF Hooking!Spec

(* Where requests come one at a time, a session that was closed stays      *)
(* invalid, whatever the accounts, the requests and the sessions.          *)
THEOREM ClosedStaysInvalid ==
  ASSUME NEW people, NEW workers, NEW requests, NEW most, NEW n,
         Logins(people, workers, requests, most, n)!SessionsAssumption,
         \A v, u \in workers : v = u
  PROVE  Logins(people, workers, requests, most, n)!Spec =>
           []Logins(people, workers, requests, most, n)!ExpiredInvalid
<1> DEFINE Inv == /\ LoginTypes(people, workers, requests, most)
                  /\ LoginRoom(workers, most) /\ ClosedOver(workers)
<1>1. Logins(people, workers, requests, most, n)!Init => Inv
  BY LoginStart
<1>2. Inv /\
      [\/ Logins(people, workers, requests, most, n)!Next
       \/ Logins(people, workers, requests, most, n)!Stop
         ]_(Logins(people, workers, requests, most, n)!vars)
        => Inv'
  BY LoginStep, ClosedStep
<1>3. Inv => Logins(people, workers, requests, most, n)!ExpiredInvalid
  BY ClosedInvalid
<1> QED
  BY <1>1, <1>2, <1>3, PTL DEF Logins!Spec

-----------------------------------------------------------------------------
(* The components side by side: the one a behaviour is about keeps its     *)
(* invariant, and part does not change.                                    *)

ServicesInv ==
  /\ part \in Parts
  /\ part = "upload" => UploadInv(Waited, {small, large}, 1)
  /\ part = "hooks" =>
       /\ HookTypes({p1, p2}, {"post"}, {w1, w2}, 1, 1, 2, 2)
       /\ HookOnce({w1, w2})
  /\ part = "waiting" =>
       HookTypes({p1}, {"post"}, {w1}, 2, 1, 1, 3) /\ HookOnce({w1})
  /\ part = "due" => DueInv({t1, t2}, 2)
  /\ part = "crashing" => DueInv({t1, t2}, 3)
  /\ part = "sessions" =>
       /\ LoginTypes({ann}, {w1}, OnSessions, 2)
       /\ LoginRoom({w1}, 2) /\ ClosedOver({w1})
  /\ part = "reconnecting" =>
       /\ LoginTypes({ann}, {w1, w2}, Reconnecting, 2)
       /\ LoginRoom({w1, w2}, 2)

LEMMA DueBounds == 2 \in 1..59 /\ 3 \in 1..59
OBVIOUS

LEMMA ServicesStart == Init => ServicesInv
<1> SUFFICES ASSUME Init PROVE ServicesInv
  OBVIOUS
<1>1. CASE InitFileUpload
  BY <1>1, ServicesAssumption, UploadStart DEF InitFileUpload, ServicesInv,
     Parts
<1>2. CASE InitHooks
  BY <1>2, ServicesAssumption, HookStart DEF InitHooks, ServicesInv, Parts
<1>3. CASE InitTaskOverdue
  <2>1. 2 \in 1..59 /\ 3 \in 1..59
    OBVIOUS
  <2> QED
    BY <1>3, <2>1, DueStart DEF InitTaskOverdue, ServicesInv, Parts
<1>4. CASE InitSessions
  BY <1>4, ServicesAssumption, LoginStart DEF InitSessions, ServicesInv, Parts
<1> QED
  BY <1>1, <1>2, <1>3, <1>4 DEF Init

LEMMA ServicesStep == ServicesInv /\ [Next]_vars => ServicesInv'
<1> SUFFICES ASSUME ServicesInv, [Next]_vars PROVE ServicesInv'
  OBVIOUS
<1>1. part' = part /\ part \in Parts
  BY DEF ServicesInv, Next, NextFileUpload, NextHooks, NextTaskOverdue,
         NextSessions, vars
<1>2. CASE part = "upload"
  <2>1. UploadInv(Waited, {small, large}, 1)
    BY <1>2 DEF ServicesInv
  <2>2. \/ Uploads(Waited, {small, large}, 1)!Step
        \/ UNCHANGED Uploads(Waited, {small, large}, 1)!vars
    BY <1>2 DEF Next, NextFileUpload, NextHooks, NextTaskOverdue,
                NextSessions, vars, FileUploadVars, Uploads!Next, Uploads!Stop,
                Uploads!vars, Uploads!streams, Uploads!stored
  <2>3. UploadInv(Waited, {small, large}, 1)'
    BY <2>1, <2>2, ServicesAssumption, UploadTypes, UploadLists DEF UploadInv
  <2> QED
    BY <1>1, <1>2, <2>3 DEF ServicesInv
<1>3. CASE part = "hooks"
  <2>1. /\ HookTypes({p1, p2}, {"post"}, {w1, w2}, 1, 1, 2, 2)
        /\ HookOnce({w1, w2})
    BY <1>3 DEF ServicesInv
  <2>2. \/ Hooking({p1, p2}, {"post"}, {w1, w2}, 1, 1, 2, 2)!Next
        \/ Hooking({p1, p2}, {"post"}, {w1, w2}, 1, 1, 2, 2)!Stop
        \/ UNCHANGED Hooking({p1, p2}, {"post"}, {w1, w2}, 1, 1, 2, 2)!vars
    BY <1>3 DEF Next, NextFileUpload, NextHooks, NextTaskOverdue,
                NextSessions, vars, HooksVars, Hooking!vars
  <2>3. /\ HookTypes({p1, p2}, {"post"}, {w1, w2}, 1, 1, 2, 2)'
        /\ HookOnce({w1, w2})'
    BY <2>1, <2>2, ServicesAssumption, HookStep
  <2> QED
    BY <1>1, <1>3, <2>3 DEF ServicesInv
<1>8. CASE part = "waiting"
  <2>1. /\ HookTypes({p1}, {"post"}, {w1}, 2, 1, 1, 3)
        /\ HookOnce({w1})
    BY <1>8 DEF ServicesInv
  <2>2. \/ Hooking({p1}, {"post"}, {w1}, 2, 1, 1, 3)!Next
        \/ Hooking({p1}, {"post"}, {w1}, 2, 1, 1, 3)!Stop
        \/ UNCHANGED Hooking({p1}, {"post"}, {w1}, 2, 1, 1, 3)!vars
    BY <1>8 DEF Next, NextFileUpload, NextHooks, NextTaskOverdue,
                NextSessions, vars, HooksVars, Hooking!vars
  <2>3. /\ HookTypes({p1}, {"post"}, {w1}, 2, 1, 1, 3)'
        /\ HookOnce({w1})'
    BY <2>1, <2>2, ServicesAssumption, HookStep
  <2> QED
    BY <1>1, <1>8, <2>3 DEF ServicesInv
<1>4. CASE part = "due"
  <2>1. DueInv({t1, t2}, 2) /\ 2 \in 1..59
    BY <1>4 DEF ServicesInv
  <2>2. \/ Due({t1, t2}, 2, 2, 0)!Next
        \/ UNCHANGED Due({t1, t2}, 2, 2, 0)!vars
    BY <1>4 DEF Next, NextFileUpload, NextHooks, NextTaskOverdue,
                NextSessions, vars, TaskOverdueVars, Due!vars, Due!docs,
                Due!counts
  <2>3. DueInv({t1, t2}, 2)'
    BY <2>1, <2>2, DueStep
  <2> QED
    BY <1>1, <1>4, <2>3 DEF ServicesInv
<1>5. CASE part = "crashing"
  <2>1. DueInv({t1, t2}, 3) /\ 3 \in 1..59
    BY <1>5 DEF ServicesInv
  <2>2. \/ Due({t1, t2}, 3, 1, 1)!Next
        \/ UNCHANGED Due({t1, t2}, 3, 1, 1)!vars
    BY <1>5 DEF Next, NextFileUpload, NextHooks, NextTaskOverdue,
                NextSessions, vars, TaskOverdueVars, Due!vars, Due!docs,
                Due!counts
  <2>3. DueInv({t1, t2}, 3)'
    BY <2>1, <2>2, DueStep
  <2> QED
    BY <1>1, <1>5, <2>3 DEF ServicesInv
<1>6. CASE part = "sessions"
  <2>1. /\ LoginTypes({ann}, {w1}, OnSessions, 2)
        /\ LoginRoom({w1}, 2) /\ ClosedOver({w1})
        /\ \A v, u \in {w1} : v = u
    BY <1>6 DEF ServicesInv
  <2>2. \/ Logins({ann}, {w1}, OnSessions, 2, 5)!Next
        \/ Logins({ann}, {w1}, OnSessions, 2, 5)!Stop
        \/ UNCHANGED Logins({ann}, {w1}, OnSessions, 2, 5)!vars
    BY <1>6 DEF Next, NextFileUpload, NextHooks, NextTaskOverdue,
                NextSessions, vars, SessionsVars, Logins!vars
  <2>3. /\ LoginTypes({ann}, {w1}, OnSessions, 2)'
        /\ LoginRoom({w1}, 2)' /\ ClosedOver({w1})'
    BY <2>1, <2>2, ServicesAssumption, LoginStep, ClosedStep
  <2> QED
    BY <1>1, <1>6, <2>3 DEF ServicesInv
<1>7. CASE part = "reconnecting"
  <2>1. /\ LoginTypes({ann}, {w1, w2}, Reconnecting, 2)
        /\ LoginRoom({w1, w2}, 2)
    BY <1>7 DEF ServicesInv
  <2>2. \/ Logins({ann}, {w1, w2}, Reconnecting, 2, 3)!Next
        \/ Logins({ann}, {w1, w2}, Reconnecting, 2, 3)!Stop
        \/ UNCHANGED Logins({ann}, {w1, w2}, Reconnecting, 2, 3)!vars
    BY <1>7 DEF Next, NextFileUpload, NextHooks, NextTaskOverdue,
                NextSessions, vars, SessionsVars, Logins!vars
  <2>3. /\ LoginTypes({ann}, {w1, w2}, Reconnecting, 2)'
        /\ LoginRoom({w1, w2}, 2)'
    BY <2>1, <2>2, ServicesAssumption, LoginStep
  <2> QED
    BY <1>1, <1>7, <2>3 DEF ServicesInv
<1> QED
  BY <1>1, <1>2, <1>3, <1>4, <1>5, <1>6, <1>7, <1>8 DEF Parts

LEMMA ServicesShow ==
  ServicesInv =>
    TypeOK /\ ThumbsListed /\ BucketsFollowDue /\ ExpiredInvalid
<1> SUFFICES ASSUME ServicesInv
             PROVE  TypeOK /\ ThumbsListed /\ BucketsFollowDue
                      /\ ExpiredInvalid
  OBVIOUS
<1>1. TypeOK
  <2>1. part = "upload" => Uploads(Waited, {small, large}, 1)!TypeOK
    BY DEF ServicesInv, UploadInv
  <2>2. /\ part = "hooks" =>
             Hooking({p1, p2}, {"post"}, {w1, w2}, 1, 1, 2, 2)!TypeOK
        /\ part = "waiting" =>
             Hooking({p1}, {"post"}, {w1}, 2, 1, 1, 3)!TypeOK
    BY DEF ServicesInv, HookTypes
  <2>3. /\ part = "due" => Due({t1, t2}, 2, 2, 0)!TypeOK
        /\ part = "crashing" => Due({t1, t2}, 3, 1, 1)!TypeOK
    BY DueBounds, DueTyped DEF ServicesInv
  <2>4. /\ part = "sessions" =>
             Logins({ann}, {w1}, OnSessions, 2, 5)!TypeOK
        /\ part = "reconnecting" =>
             Logins({ann}, {w1, w2}, Reconnecting, 2, 3)!TypeOK
    BY ServicesAssumption, ClosedInvalid DEF ServicesInv
  <2> QED
    BY <2>1, <2>2, <2>3, <2>4 DEF TypeOK, ServicesInv
<1>2. ThumbsListed
  BY UploadListed DEF ThumbsListed, ServicesInv
<1>3. BucketsFollowDue
  BY DueBounds, DueTyped DEF BucketsFollowDue, ServicesInv
<1>4. ExpiredInvalid
  BY ServicesAssumption, ClosedInvalid DEF ExpiredInvalid, ServicesInv
<1> QED
  BY <1>1, <1>2, <1>3, <1>4

LEMMA ServicesAlways == Spec => []ServicesInv
BY ServicesStart, ServicesStep, PTL DEF Spec

(* Uploads, hooks, due dates and sessions keep their state well formed; in *)
(* particular chLimit, of hooks, is never exceeded nor given back twice.   *)
THEOREM ServicesTyped == Spec => []TypeOK
BY ServicesAlways, ServicesShow, PTL

(* The document of a file whose upload is answered lists every thumbnail   *)
(* and all metadata that were found.                                       *)
THEOREM UploadsListThumbs == Spec => []ThumbsListed
BY ServicesAlways, ServicesShow, PTL

(* A task that is to become due is in the bucket of that minute, and in no *)
(* other to come, but for what a crash tore apart.                         *)
THEOREM BucketsFollow == Spec => []BucketsFollowDue
BY ServicesAlways, ServicesShow, PTL

(* With one request at a time, a closed session does not verify.           *)
THEOREM ClosedSessionsInvalid == Spec => []ExpiredInvalid
BY ServicesAlways, ServicesShow, PTL
=============================================================================
