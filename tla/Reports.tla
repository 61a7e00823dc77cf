------------------------------- MODULE Reports -------------------------------
(***************************************************************************)
(* Reports: nested/manager_report.go and the job that flushes it every     *)
(* minute in every server, JobReporter of pkg/rpc/api/background_jobs.go.  *)
(*                                                                         *)
(* Requests count what they do in Redis, by an increment for each counter. *)
(* A server's job reads one counter after the other, adds what it has read *)
(* to the reports in MongoDB and sets one counter after the other to       *)
(* nothing.  The servers share the counters and know nothing of each       *)
(* other's flushes; a server may crash, and the job ignores every error.   *)
(* Of the reports this is their sums; the hours and minutes they are kept  *)
(* by are left out.                                                        *)
(***************************************************************************)
EXTENDS Integers, FiniteSets

CONSTANTS
  Servers,
  Counters, Nil,
  MaxCounts,   \* bound: how often a counter is counted
  MaxFlushes   \* bound: flushes begun

VARIABLES
  counter,   \* report:counter:* in Redis
  report,    \* reports.counters in MongoDB
  step,      \* what the job of each server is doing
  values,    \* what it has read
  left,      \* counters it has not got to in this step
  flushes,
  counted,   \* how often each counter was counted
  lost,      \* of these, what was counted after a server had read the counter
             \* and before it reset it, or was in a command that failed
  apart      \* no flush began during another, or ended before its resets

vars == <<counter, report, step, values, left, flushes, counted, lost, apart>>

Nothing == [k \in Counters |-> 0]

Init ==
  /\ counter = Nothing /\ report = Nothing
  /\ step = [v \in Servers |-> "wait"]
  /\ values = [v \in Servers |-> Nothing]
  /\ left = [v \in Servers |-> {}]
  /\ flushes = 0
  /\ counted = Nothing /\ lost = Nothing /\ apart = TRUE

(* The server has read the counter, and not reset it yet.                  *)
Held(v, k) ==
  \/ step[v] = "read" /\ k \notin left[v]
  \/ step[v] = "write"
  \/ step[v] = "reset" /\ k \in left[v]

(* One of the Count operations.                                            *)
Count(k) ==
  /\ counted[k] < MaxCounts
  /\ counter' = [counter EXCEPT ![k] = @ + 1]
  /\ counted' = [counted EXCEPT ![k] = @ + 1]
  /\ lost' = IF \E v \in Servers : Held(v, k) THEN [lost EXCEPT ![k] = @ + 1]
             ELSE lost
  /\ UNCHANGED <<report, step, values, left, flushes, apart>>

Goes(v, to) ==
  /\ step' = [step EXCEPT ![v] = to]
  /\ left' = [left EXCEPT ![v] = IF to = "wait" THEN {} ELSE Counters]
Through(v, k) == left' = [left EXCEPT ![v] = @ \ {k}]

(* A minute has passed, of this server.                                    *)
Begin(v) ==
  /\ step[v] = "wait" /\ flushes < MaxFlushes
  /\ Goes(v, "read")
  /\ flushes' = flushes + 1
  /\ apart' = (apart /\ \A u \in Servers : step[u] = "wait")
  /\ UNCHANGED <<counter, report, values, counted, lost>>

Reads(v, k, n) ==
  /\ step[v] = "read" /\ k \in left[v]
  /\ values' = [values EXCEPT ![v][k] = n]
  /\ Through(v, k)
  /\ UNCHANGED <<report, step, flushes, counted, apart>>

(* Mutant: the counter is set to nothing as it is read.                    *)
ReadAndReset(v, k) ==
  \/ Reads(v, k, counter[k]) /\ counter' = [counter EXCEPT ![k] = 0]
       /\ UNCHANGED lost
  \/ Reads(v, k, 0) /\ UNCHANGED counter
       /\ lost' = [lost EXCEPT ![k] = @ + counter[k]]

(* One of the get operations, which return nothing if they fail.           *)
Read(v, k) ==
  /\ \/ Reads(v, k, counter[k]) /\ UNCHANGED lost
     \/ Reads(v, k, 0) /\ lost' = [lost EXCEPT ![k] = @ + counter[k]]
  /\ UNCHANGED counter

(* The upserts, in no order, when all counters have been read.  They fail  *)
(* one by one, and nobody looks at the result.                             *)
Collected(v) ==
  /\ step[v] = "read" /\ left[v] = {}
  /\ Goes(v, "write")
  /\ UNCHANGED <<counter, report, values, flushes, counted, lost, apart>>

Upsert(v, k) ==
  /\ step[v] = "write" /\ k \in left[v]
  /\ \/ report' = [report EXCEPT ![k] = @ + values[v][k]] /\ UNCHANGED lost
     \/ lost' = [lost EXCEPT ![k] = @ + values[v][k]] /\ UNCHANGED report
  /\ Through(v, k)
  /\ UNCHANGED <<counter, step, values, flushes, counted, apart>>

Written(v) ==
  /\ step[v] = "write" /\ left[v] = {}
  /\ Goes(v, "reset")
  /\ UNCHANGED <<counter, report, values, flushes, counted, lost, apart>>

(* One of the commands of resetAllCounters.                                *)
Reset(v, k) ==
  /\ step[v] = "reset" /\ k \in left[v]
  /\ counter' = [counter EXCEPT ![k] = 0]
  /\ Through(v, k)
  /\ UNCHANGED <<report, step, values, flushes, counted, lost, apart>>

Flushed(v) ==
  /\ step[v] = "reset" /\ left[v] = {}
  /\ Goes(v, "wait")
  /\ UNCHANGED <<counter, report, values, flushes, counted, lost, apart>>

(* The server crashes, or its connection to Redis breaks while it resets:  *)
(* the flush ends.                                                         *)
Break(v) ==
  /\ step[v] # "wait"
  /\ Goes(v, "wait")
  /\ apart' = FALSE
  /\ UNCHANGED <<counter, report, values, flushes, counted, lost>>

Next ==
  \/ \E k \in Counters : Count(k)
  \/ \E v \in Servers, k \in Counters :
       Read(v, k) \/ Upsert(v, k) \/ Reset(v, k)
  \/ \E v \in Servers :
       Begin(v) \/ Collected(v) \/ Written(v) \/ Flushed(v) \/ Break(v)

Waiting == \A v \in Servers : step[v] = "wait"

Stop ==
  /\ Waiting /\ flushes = MaxFlushes
  /\ \A k \in Counters : counted[k] = MaxCounts
  /\ UNCHANGED vars

Spec == Init /\ [][Next \/ Stop]_vars

-----------------------------------------------------------------------------
(* Properties.                                                             *)

TypeOK ==
  /\ counter \in [Counters -> Nat] /\ report \in [Counters -> Nat]
  /\ values \in [Servers -> [Counters -> Nat]]
  /\ left \in [Servers -> SUBSET Counters]
  /\ step \in [Servers -> {"wait", "read", "write", "reset"}]
  /\ counted \in [Counters -> Nat] /\ lost \in [Counters -> Nat]
  /\ apart \in BOOLEAN

(* However the servers' flushes overlap, fail and break off, the reports   *)
(* and the counters have at any time all that was counted, but what was    *)
(* counted while a server had read the counter and not reset it, or was in *)
(* a command that failed; and nothing is reported twice unless two servers *)
(* flush at once or a flush breaks off.                                    *)
CountsReported ==
  \A k \in Counters :
    /\ counted[k] <= report[k] + counter[k] + lost[k]
    /\ apart /\ Waiting => report[k] + counter[k] <= counted[k]
=============================================================================
