----------------------------- MODULE MC_Services ------------------------------
(***************************************************************************)
(* Instances for TLC of the components with something that must eventually *)
(* happen: uploads, hooks, due dates and sessions.  They share no          *)
(* variable, so one run explores them side by side: `part' says which of   *)
(* them a behaviour is about, the state of the others is absent.           *)
(***************************************************************************)
EXTENDS Integers, FiniteSets, Sequences, TLC

CONSTANTS
  ann, t1, t2, p1, p2, small, large, Nil, w1, w2

VARIABLES
  part, script, copy, served, kind, left, todo, written, pipe, main, errors,
  pre, out, save, proc, waiting, found, collector, content, files, listed,
  panicked, hooks, added, sends, events, queue, taken, limit, running,
  awaited, called, status, due, bucket, cache, now, handler, job, edits,
  crashes, torn, session, cached, ids, closed

-----------------------------------------------------------------------------
(* Uploads, of kinds whose thumbnails are waited for, and others.          *)

Uploads(kinds, thumbs, most) == INSTANCE FileUpload WITH
  Kinds <- kinds, Thumbs <- thumbs, Chunks <- most

Waited == {"IMAGE", "VOICE", "OTHER"}

-----------------------------------------------------------------------------
(* Hooks: two at most, of two places; two requests and two events fill     *)
(* channels with room for one.  Or one hook and three events, and room in  *)
(* chLimit for two, so that events are posted beside a call that is never  *)
(* answered.                                                               *)

Hooking(places, types, workers, slots, room, most, n) == INSTANCE Hooks WITH
  Places <- places, Kinds <- types, Workers <- workers, Limit <- slots,
  Room <- room, MaxHooks <- most, MaxEvents <- n

-----------------------------------------------------------------------------
(* Due dates: two edits in two minutes, or an edit and a crash in three.   *)

Due(tasks, last, most, falls) == INSTANCE TaskOverdue WITH
  Tasks <- tasks, None <- Nil, LastMinute <- last, MaxEdits <- most,
  MaxCrashes <- falls

-----------------------------------------------------------------------------
(* Sessions: ann logs in, on one device and another, and out.              *)

About(op, by, right, other) ==
  [op |-> op, by |-> by, right |-> right, uid |-> ann, other |-> other]

OnSessions ==
  {About("register", Nil, TRUE, Nil), About("register", 1, TRUE, Nil),
   About("register", 1, FALSE, Nil), About("recall", 1, TRUE, Nil),
   About("recall", 2, FALSE, Nil), About("close", 1, TRUE, Nil),
   About("close_active", 2, TRUE, 1), About("close_all", 2, TRUE, Nil),
   About("any", 1, TRUE, Nil)}

Reconnecting ==
  {About("register", Nil, TRUE, Nil), About("recall", 1, TRUE, Nil),
   About("close", 1, TRUE, Nil), About("close_all", 2, TRUE, Nil)}

Logins(people, workers, requests, most, n) == INSTANCE Sessions WITH
  Accounts <- people, Workers <- workers, Requests <- requests,
  MaxSessions <- most, MaxRequests <- n

ASSUME ServicesAssumption ==
  /\ Uploads(Waited, {small, large}, 1)!UploadAssumption
  /\ Hooking({p1, p2}, {"post"}, {w1, w2}, 1, 1, 2, 2)!HooksAssumption
  /\ Hooking({p1}, {"post"}, {w1}, 2, 1, 1, 3)!HooksAssumption
  /\ Due({t1, t2}, 2, 2, 0)!BoundsAssumption
  /\ Due({t1, t2}, 3, 1, 1)!BoundsAssumption
  /\ Logins({ann}, {w1}, OnSessions, 2, 5)!SessionsAssumption
  /\ Logins({ann}, {w1, w2}, Reconnecting, 2, 3)!SessionsAssumption

-----------------------------------------------------------------------------
FileUploadVars ==
  <<kind, left, todo, written, pipe, main, errors, pre, out, save, proc,
  waiting, found, collector, content, files, listed, panicked>>
FileUploadAbsent ==
  /\ kind = Nil
  /\ left = Nil
  /\ todo = Nil
  /\ written = Nil
  /\ pipe = Nil
  /\ main = Nil
  /\ errors = Nil
  /\ pre = Nil
  /\ out = Nil
  /\ save = Nil
  /\ proc = Nil
  /\ waiting = Nil
  /\ found = Nil
  /\ collector = Nil
  /\ content = Nil
  /\ files = Nil
  /\ listed = Nil
  /\ panicked = Nil

HooksVars ==
  <<hooks, added, sends, events, queue, taken, limit, running, awaited,
  called>>
HooksAbsent ==
  /\ hooks = [h \in 1..2 |-> Nil]
  /\ added = Nil
  /\ sends = Nil
  /\ events = Nil
  /\ queue = Nil
  /\ taken = Nil
  /\ limit = Nil
  /\ running = Nil
  /\ awaited = {}
  /\ called = {}

TaskOverdueVars ==
  <<status, due, bucket, cache, now, handler, job, edits, crashes, torn>>
TaskOverdueAbsent ==
  /\ status = [t \in {t1, t2} |-> Nil]
  /\ due = [t \in {t1, t2} |-> 0]
  /\ bucket = [m \in 1..3 |-> {}]
  /\ cache = Nil
  /\ now = 1
  /\ handler = Nil
  /\ job = Nil
  /\ edits = Nil
  /\ crashes = Nil
  /\ torn = FALSE

SessionsVars ==
  <<session, cached, ids, closed>>
SessionsAbsent ==
  /\ session = [s \in 1..2 |-> Nil]
  /\ cached = [s \in 1..2 |-> Nil]
  /\ ids = 0
  /\ closed = Nil

Parts ==
  {"upload", "hooks", "waiting", "due", "crashing", "sessions", "reconnecting"}

InitFileUpload ==
  /\ HooksAbsent
  /\ TaskOverdueAbsent
  /\ SessionsAbsent
  /\ script = Nil
  /\ copy = Nil
  /\ served = Nil
  /\ part = "upload" /\ Uploads(Waited, {small, large}, 1)!Init

InitHooks ==
  /\ FileUploadAbsent
  /\ TaskOverdueAbsent
  /\ SessionsAbsent
  /\ script = Nil
  /\ copy = Nil
  /\ served = Nil
  /\ \/ part = "hooks" /\ Hooking({p1, p2}, {"post"}, {w1, w2}, 1, 1, 2, 2)!Init
     \/ part = "waiting" /\ Hooking({p1}, {"post"}, {w1}, 2, 1, 1, 3)!Init

InitTaskOverdue ==
  /\ FileUploadAbsent
  /\ HooksAbsent
  /\ SessionsAbsent
  /\ script = Nil
  /\ copy = Nil
  /\ served = Nil
  /\ \/ part = "due" /\ Due({t1, t2}, 2, 2, 0)!Init
     \/ part = "crashing" /\ Due({t1, t2}, 3, 1, 1)!Init

InitSessions ==
  /\ FileUploadAbsent
  /\ HooksAbsent
  /\ TaskOverdueAbsent
  /\ \/ part = "sessions" /\ Logins({ann}, {w1}, OnSessions, 2, 5)!Init
     \/ /\ part = "reconnecting"
        /\ Logins({ann}, {w1, w2}, Reconnecting, 2, 3)!Init

NextFileUpload ==
  /\ part = "upload"
  /\ \/ Uploads(Waited, {small, large}, 1)!Next
     \/ Uploads(Waited, {small, large}, 1)!Stop
  /\ UNCHANGED
       <<part, script, copy, served, HooksVars, TaskOverdueVars,
       SessionsVars>>

NextHooks ==
  /\ \/ /\ part = "hooks"
        /\ \/ Hooking({p1, p2}, {"post"}, {w1, w2}, 1, 1, 2, 2)!Next
           \/ Hooking({p1, p2}, {"post"}, {w1, w2}, 1, 1, 2, 2)!Stop
     \/ /\ part = "waiting"
        /\ \/ Hooking({p1}, {"post"}, {w1}, 2, 1, 1, 3)!Next
           \/ Hooking({p1}, {"post"}, {w1}, 2, 1, 1, 3)!Stop
  /\ UNCHANGED
       <<part, script, copy, served, FileUploadVars, TaskOverdueVars,
       SessionsVars>>

NextTaskOverdue ==
  /\ \/ part = "due" /\ Due({t1, t2}, 2, 2, 0)!Next
     \/ part = "crashing" /\ Due({t1, t2}, 3, 1, 1)!Next
  /\ UNCHANGED
       <<part, script, copy, served, FileUploadVars, HooksVars,
       SessionsVars>>

NextSessions ==
  /\ \/ /\ part = "sessions"
        /\ \/ Logins({ann}, {w1}, OnSessions, 2, 5)!Next
           \/ Logins({ann}, {w1}, OnSessions, 2, 5)!Stop
     \/ /\ part = "reconnecting"
        /\ \/ Logins({ann}, {w1, w2}, Reconnecting, 2, 3)!Next
           \/ Logins({ann}, {w1, w2}, Reconnecting, 2, 3)!Stop
  /\ UNCHANGED
       <<part, FileUploadVars, HooksVars, TaskOverdueVars>>

Init ==
  \/ InitFileUpload
  \/ InitHooks
  \/ InitTaskOverdue
  \/ InitSessions

Next ==
  \/ NextFileUpload
  \/ NextHooks
  \/ NextTaskOverdue
  \/ NextSessions

vars ==
  <<part, script, copy, served, FileUploadVars, HooksVars, TaskOverdueVars,
  SessionsVars>>

SessionVars == <<SessionsVars, script, copy, served>>

(* The goroutines of an upload run and those of hooks, but where they wait *)
(* for an answer; so do the clock, the handler and the job of due dates,   *)
(* the workers and the lifetimes of sessions.                              *)
Fairness ==
  /\ WF_FileUploadVars(/\ part = "upload"
                       /\ Uploads(Waited, {small, large}, 1)!Step)
  /\ WF_HooksVars(/\ part = "hooks"
                  /\ Hooking({p1, p2}, {"post"}, {w1, w2}, 1, 1, 2, 2)!Step)
  /\ WF_HooksVars(part = "waiting" /\ Hooking({p1}, {"post"}, {w1}, 2, 1, 1, 3)!Step)
  /\ WF_TaskOverdueVars(part = "due" /\ Due({t1, t2}, 2, 2, 0)!Tick)
  /\ WF_TaskOverdueVars(part = "crashing" /\ Due({t1, t2}, 3, 1, 1)!Tick)
  /\ WF_TaskOverdueVars(part = "due" /\ Due({t1, t2}, 2, 2, 0)!Handle)
  /\ WF_TaskOverdueVars(part = "crashing" /\ Due({t1, t2}, 3, 1, 1)!Handle)
  /\ WF_TaskOverdueVars(part = "due" /\ Due({t1, t2}, 2, 2, 0)!Job)
  /\ WF_TaskOverdueVars(part = "crashing" /\ Due({t1, t2}, 3, 1, 1)!Job)
  /\ WF_SessionVars(/\ part = "reconnecting"
                    /\ Logins({ann}, {w1, w2}, Reconnecting, 2, 3)!Step)

Spec == Init /\ [][Next]_vars /\ Fairness

-----------------------------------------------------------------------------
(* The properties of the components, for the part that runs.               *)

(* Every part keeps its documents, scripts and copies well formed.         *)
TypeOK ==
  /\ part \in Parts
  /\ part = "upload" => Uploads(Waited, {small, large}, 1)!TypeOK
  /\ part = "hooks" => Hooking({p1, p2}, {"post"}, {w1, w2}, 1, 1, 2, 2)!TypeOK
  /\ part = "waiting" => Hooking({p1}, {"post"}, {w1}, 2, 1, 1, 3)!TypeOK
  /\ part = "due" => Due({t1, t2}, 2, 2, 0)!TypeOK
  /\ part = "crashing" => Due({t1, t2}, 3, 1, 1)!TypeOK
  /\ part = "sessions" => Logins({ann}, {w1}, OnSessions, 2, 5)!TypeOK
  /\ part = "reconnecting" =>
       Logins({ann}, {w1, w2}, Reconnecting, 2, 3)!TypeOK

(* Every upload is answered.                                               *)
UploadAnswered ==
  part = "upload" => Uploads(Waited, {small, large}, 1)!UploadAnswered

(* What was found is listed when it is.                                    *)
ThumbsListed ==
  part = "upload" => Uploads(Waited, {small, large}, 1)!ThumbsListed

(* A hook is called with the events that are sent while it is there, as    *)
(* long as addresses answer.                                               *)
HooksCalled ==
  /\ part = "hooks" =>
       Hooking({p1, p2}, {"post"}, {w1, w2}, 1, 1, 2, 2)!HooksCalled
  /\ part = "waiting" => Hooking({p1}, {"post"}, {w1}, 2, 1, 1, 3)!HooksCalled

(* Buckets agree with the due dates to come.                               *)
BucketsFollowDue ==
  /\ part = "due" => Due({t1, t2}, 2, 2, 0)!BucketsFollowDue
  /\ part = "crashing" => Due({t1, t2}, 3, 1, 1)!BucketsFollowDue

(* A task that is due is marked.                                           *)
DueServed ==
  /\ part = "due" => Due({t1, t2}, 2, 2, 0)!DueServed
  /\ part = "crashing" => Due({t1, t2}, 3, 1, 1)!DueServed

(* A session that was closed does not verify.                              *)
ExpiredInvalid ==
  part = "sessions" => Logins({ann}, {w1}, OnSessions, 2, 5)!ExpiredInvalid

(* Nothing brings a closed session back for good.                          *)
ClosedEnds ==
  part = "reconnecting" =>
    Logins({ann}, {w1, w2}, Reconnecting, 2, 3)!ClosedEnds

=============================================================================
