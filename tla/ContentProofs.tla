---------------------------- MODULE ContentProofs ----------------------------
(***************************************************************************)
(* What is proved of components in their own modules, for the components   *)
(* that MC_Content checks together: a behaviour of MC_Content is, from its *)
(* start to its end, one of the instance that its part names, so that what *)
(* every behaviour of the instance keeps is kept.  Of the reports,         *)
(* MC_Content fixes neither the counters nor the bounds, and they are      *)
(* proved here.                                                            *)
(***************************************************************************)
EXTENDS MC_Content, TLAPS

Runs(p) == part = p

-----------------------------------------------------------------------------
(* Which component a part is about, at the start and in every step.        *)

PartOf ==
  /\ InitPosts => part \in {"posts", "plain", "racing"}
  /\ InitLabels => part \in {"labels", "members"}
  /\ InitFiles => part \in {"files", "attaching"}
  /\ InitNotifications => part \in {"notices", "commenting"}
  /\ InitAccounts => part \in {"accounts", "registering", "guessing"}
  /\ InitSockets => part \in {"sockets", "connecting"}
  /\ InitReports => part \in {"reports"}

PartRuns ==
  /\ NextPosts => part \in {"posts", "plain", "racing"} /\ part' = part
  /\ NextLabels => part \in {"labels", "members"} /\ part' = part
  /\ NextFiles => part \in {"files", "attaching"} /\ part' = part
  /\ NextNotifications => part \in {"notices", "commenting"} /\ part' = part
  /\ NextAccounts => part \in {"accounts", "registering", "guessing"} /\ part' = part
  /\ NextSockets => part \in {"sockets", "connecting"} /\ part' = part
  /\ NextReports => part \in {"reports"} /\ part' = part

LEMMA Starting == PartOf
<1>1. InitPosts => part \in {"posts", "plain", "racing"}
  BY DEF InitPosts
<1>2. InitLabels => part \in {"labels", "members"}
  BY DEF InitLabels
<1>3. InitFiles => part \in {"files", "attaching"}
  BY DEF InitFiles
<1>4. InitNotifications => part \in {"notices", "commenting"}
  BY DEF InitNotifications
<1>5. InitAccounts => part \in {"accounts", "registering", "guessing"}
  BY DEF InitAccounts
<1>6. InitSockets => part \in {"sockets", "connecting"}
  BY DEF InitSockets
<1>7. InitReports => part \in {"reports"}
  BY DEF InitReports
<1> QED
  BY <1>1, <1>2, <1>3, <1>4, <1>5, <1>6, <1>7 DEF PartOf

LEMMA Running == PartRuns
<1>1. NextPosts => part \in {"posts", "plain", "racing"} /\ part' = part
  BY DEF NextPosts
<1>2. NextLabels => part \in {"labels", "members"} /\ part' = part
  BY DEF NextLabels
<1>3. NextFiles => part \in {"files", "attaching"} /\ part' = part
  BY DEF NextFiles
<1>4. NextNotifications => part \in {"notices", "commenting"} /\ part' = part
  BY DEF NextNotifications
<1>5. NextAccounts => part \in {"accounts", "registering", "guessing"} /\ part' = part
  BY DEF NextAccounts
<1>6. NextSockets => part \in {"sockets", "connecting"} /\ part' = part
  BY DEF NextSockets
<1>7. NextReports => part \in {"reports"} /\ part' = part
  BY DEF NextReports
<1> QED
  BY <1>1, <1>2, <1>3, <1>4, <1>5, <1>6, <1>7 DEF PartRuns

(* A behaviour is about one part for ever.                                 *)
LEMMA OthersStay ==
  ASSUME NEW p
  PROVE  ~Runs(p) /\ [Next]_vars => ~Runs(p)'
  BY Running DEF PartRuns, Runs, Next, vars

-----------------------------------------------------------------------------
(* A behaviour of a part is one of its instance.                           *)

LEMMA AllLabelsRuns == Spec => AllLabels!Spec \/ []~Runs("labels")
<1>1. Init /\ Runs("labels") => AllLabels!Init
  BY Starting DEF PartOf, Runs, Init, InitLabels
<1>2. Runs("labels") /\ [Next]_vars =>
        /\ Runs("labels")'
        /\ [AllLabels!Next \/ AllLabels!Stop]_(AllLabels!vars)
  BY Running DEF PartRuns, Runs, Next, NextLabels, vars, LabelsVars,
     AllLabels!vars, AllLabels!docs
<1>3. ~Runs("labels") /\ [Next]_vars => ~Runs("labels")'
  BY OthersStay
<1> QED
  BY <1>1, <1>2, <1>3, PTL DEF Spec, AllLabels!Spec

LEMMA RacingLabelsRuns == Spec => RacingLabels!Spec \/ []~Runs("members")
<1>1. Init /\ Runs("members") => RacingLabels!Init
  BY Starting DEF PartOf, Runs, Init, InitLabels
<1>2. Runs("members") /\ [Next]_vars =>
        /\ Runs("members")'
        /\ [RacingLabels!Next \/ RacingLabels!Stop]_(RacingLabels!vars)
  BY Running DEF PartRuns, Runs, Next, NextLabels, vars, LabelsVars,
     RacingLabels!vars, RacingLabels!docs
<1>3. ~Runs("members") /\ [Next]_vars => ~Runs("members")'
  BY OthersStay
<1> QED
  BY <1>1, <1>2, <1>3, PTL DEF Spec, RacingLabels!Spec

LEMMA AllFilesRuns == Spec => AllFiles!Spec \/ []~Runs("files")
<1>1. Init /\ Runs("files") => AllFiles!Init
  BY Starting DEF PartOf, Runs, Init, InitFiles
<1>2. Runs("files") /\ [Next]_vars =>
        /\ Runs("files")'
        /\ [AllFiles!Next \/ AllFiles!Stop]_(AllFiles!vars)
  BY Running DEF PartRuns, Runs, Next, NextFiles, vars, FilesVars,
     AllFiles!vars, AllFiles!docs
<1>3. ~Runs("files") /\ [Next]_vars => ~Runs("files")'
  BY OthersStay
<1> QED
  BY <1>1, <1>2, <1>3, PTL DEF Spec, AllFiles!Spec

LEMMA RacingFilesRuns == Spec => RacingFiles!Spec \/ []~Runs("attaching")
<1>1. Init /\ Runs("attaching") => RacingFiles!Init
  BY Starting DEF PartOf, Runs, Init, InitFiles
<1>2. Runs("attaching") /\ [Next]_vars =>
        /\ Runs("attaching")'
        /\ [RacingFiles!Next \/ RacingFiles!Stop]_(RacingFiles!vars)
  BY Running DEF PartRuns, Runs, Next, NextFiles, vars, FilesVars,
     RacingFiles!vars, RacingFiles!docs
<1>3. ~Runs("attaching") /\ [Next]_vars => ~Runs("attaching")'
  BY OthersStay
<1> QED
  BY <1>1, <1>2, <1>3, PTL DEF Spec, RacingFiles!Spec

LEMMA AllNoticesRuns == Spec => AllNotices!Spec \/ []~Runs("notices")
<1>1. Init /\ Runs("notices") => AllNotices!Init
  BY Starting DEF PartOf, Runs, Init, InitNotifications
<1>2. Runs("notices") /\ [Next]_vars =>
        /\ Runs("notices")'
        /\ [AllNotices!Next \/ AllNotices!Stop]_(AllNotices!vars)
  BY Running DEF PartRuns, Runs, Next, NextNotifications, vars,
     NotificationsVars, AllNotices!vars
<1>3. ~Runs("notices") /\ [Next]_vars => ~Runs("notices")'
  BY OthersStay
<1> QED
  BY <1>1, <1>2, <1>3, PTL DEF Spec, AllNotices!Spec

LEMMA RacingNoticesRuns == Spec => RacingNotices!Spec \/ []~Runs("commenting")
<1>1. Init /\ Runs("commenting") => RacingNotices!Init
  BY Starting DEF PartOf, Runs, Init, InitNotifications
<1>2. Runs("commenting") /\ [Next]_vars =>
        /\ Runs("commenting")'
        /\ [RacingNotices!Next \/ RacingNotices!Stop]_(RacingNotices!vars)
  BY Running DEF PartRuns, Runs, Next, NextNotifications, vars,
     NotificationsVars, RacingNotices!vars
<1>3. ~Runs("commenting") /\ [Next]_vars => ~Runs("commenting")'
  BY OthersStay
<1> QED
  BY <1>1, <1>2, <1>3, PTL DEF Spec, RacingNotices!Spec

LEMMA AllAccountsRuns == Spec => AllAccounts!Spec \/ []~Runs("accounts")
<1>1. Init /\ Runs("accounts") => AllAccounts!Init
  BY Starting DEF PartOf, Runs, Init, InitAccounts
<1>2. Runs("accounts") /\ [Next]_vars =>
        /\ Runs("accounts")'
        /\ [AllAccounts!Next \/ AllAccounts!Stop]_(AllAccounts!vars)
  BY Running DEF PartRuns, Runs, Next, NextAccounts, vars, AccountsVars,
     AllAccounts!vars, AllAccounts!docs
<1>3. ~Runs("accounts") /\ [Next]_vars => ~Runs("accounts")'
  BY OthersStay
<1> QED
  BY <1>1, <1>2, <1>3, PTL DEF Spec, AllAccounts!Spec

LEMMA GuessesRuns == Spec => Guesses!Spec \/ []~Runs("guessing")
<1>1. Init /\ Runs("guessing") => Guesses!Init
  BY Starting DEF PartOf, Runs, Init, InitAccounts
<1>2. Runs("guessing") /\ [Next]_vars =>
        /\ Runs("guessing")'
        /\ [Guesses!Next \/ Guesses!Stop]_(Guesses!vars)
  BY Running DEF PartRuns, Runs, Next, NextAccounts, vars, AccountsVars,
     Guesses!vars, Guesses!docs
<1>3. ~Runs("guessing") /\ [Next]_vars => ~Runs("guessing")'
  BY OthersStay
<1> QED
  BY <1>1, <1>2, <1>3, PTL DEF Spec, Guesses!Spec

LEMMA ReportingRuns == Spec => Reporting!Spec \/ []~Runs("reports")
<1>1. Init /\ Runs("reports") => Reporting!Init
  BY Starting DEF PartOf, Runs, Init, InitReports
<1>2. Runs("reports") /\ [Next]_vars =>
        /\ Runs("reports")'
        /\ [Reporting!Next \/ Reporting!Stop]_(Reporting!vars)
  BY Running DEF PartRuns, Runs, Next, NextReports, vars, ReportsVars,
     Reporting!vars
<1>3. ~Runs("reports") /\ [Next]_vars => ~Runs("reports")'
  BY OthersStay
<1> QED
  BY <1>1, <1>2, <1>3, PTL DEF Spec, Reporting!Spec

-----------------------------------------------------------------------------
(* Labels count their members, whoever adds and removes them meanwhile.    *)
THEOREM ContentLabelsCounted == Spec => []LabelsCounted
<1>1. Spec => AllLabels!Spec \/ []~Runs("labels")
  BY AllLabelsRuns
<1>2. AllLabels!Spec => []AllLabels!LabelsCounted
  BY ContentAssumption, AllLabels!CountsKept
<1>3. Spec => RacingLabels!Spec \/ []~Runs("members")
  BY RacingLabelsRuns
<1>4. RacingLabels!Spec => []RacingLabels!LabelsCounted
  BY ContentAssumption, RacingLabels!CountsKept
<1>5. /\ (AllLabels!LabelsCounted \/ ~Runs("labels"))
        /\ (RacingLabels!LabelsCounted \/ ~Runs("members"))
        => LabelsCounted
  BY DEF Runs, LabelsCounted
<1> QED
  BY <1>1, <1>2, <1>3, <1>4, <1>5, PTL

(* With one worker, members and the labels they have name each other: the  *)
(* runs of AllLabels have the one worker w1.                               *)
THEOREM ContentLabelsAgree == Spec => []LabelsAgree
<1>1. Spec => AllLabels!Spec \/ []~Runs("labels")
  BY AllLabelsRuns
<1>2. AllLabels!LabelsAssumption
  BY ContentAssumption DEF ContentAssumption
<1>3. AllLabels!OneWorker
  BY DEF AllLabels!OneWorker
<1>4. AllLabels!Spec => []AllLabels!LabelsAgree
  BY <1>2, <1>3, AllLabels!LabelsStayAgreed
<1>5. AllLabels!LabelsAgree \/ ~Runs("labels") => LabelsAgree
  BY DEF Runs, LabelsAgree
<1> QED
  BY <1>1, <1>4, <1>5, PTL

(* A post owns the files attached to it, wherever a handler stopped.       *)
THEOREM ContentPostFilesOwned == Spec => []PostFilesOwned
<1>1. Spec => AllFiles!Spec \/ []~Runs("files")
  BY AllFilesRuns
<1>2. AllFiles!Spec => []AllFiles!PostFilesOwned
  BY ContentAssumption, AllFiles!PostsOwn
<1>3. Spec => RacingFiles!Spec \/ []~Runs("attaching")
  BY RacingFilesRuns
<1>4. RacingFiles!Spec => []RacingFiles!PostFilesOwned
  BY ContentAssumption, RacingFiles!PostsOwn
<1>5. /\ (AllFiles!PostFilesOwned \/ ~Runs("files"))
        /\ (RacingFiles!PostFilesOwned \/ ~Runs("attaching"))
        => PostFilesOwned
  BY DEF Runs, PostFilesOwned
<1> QED
  BY <1>1, <1>2, <1>3, <1>4, <1>5, PTL

(* Everything shown can be downloaded, with one worker and no crash: the   *)
(* runs of AllFiles have the one worker w1.                                *)
THEOREM ContentFilesReachable == Spec => []FilesReachable
<1>1. Spec => AllFiles!Spec \/ []~Runs("files")
  BY AllFilesRuns
<1>2. AllFiles!FilesAssumption
  BY ContentAssumption DEF ContentAssumption
<1>3. AllFiles!OneWorker
  BY DEF AllFiles!OneWorker
<1>4. AllFiles!Spec => []AllFiles!FilesReachable
  BY <1>2, <1>3, AllFiles!ShownReachable
<1>5. AllFiles!FilesReachable \/ ~Runs("files") => FilesReachable
  BY DEF Runs, FilesReachable
<1> QED
  BY <1>1, <1>4, <1>5, PTL

(* Tasks count their attachments, whoever adds and removes them meanwhile. *)
THEOREM ContentTaskFilesCounted == Spec => []TaskFilesCounted
<1>1. Spec => AllFiles!Spec \/ []~Runs("files")
  BY AllFilesRuns
<1>2. AllFiles!Spec => []AllFiles!TaskFilesCounted
  BY ContentAssumption, AllFiles!TasksCounted
<1>3. Spec => RacingFiles!Spec \/ []~Runs("attaching")
  BY RacingFilesRuns
<1>4. RacingFiles!Spec => []RacingFiles!TaskFilesCounted
  BY ContentAssumption, RacingFiles!TasksCounted
<1>5. /\ (AllFiles!TaskFilesCounted \/ ~Runs("files"))
        /\ (RacingFiles!TaskFilesCounted \/ ~Runs("attaching"))
        => TaskFilesCounted
  BY DEF Runs, TaskFilesCounted
<1> QED
  BY <1>1, <1>2, <1>3, <1>4, <1>5, PTL

(* Accounts are counted the notifications they have not read, but those    *)
(* whose counting is still to come.                                        *)
THEOREM ContentNoticesCounted == Spec => []NoticesCounted
<1>1. Spec => AllNotices!Spec \/ []~Runs("notices")
  BY AllNoticesRuns
<1>2. AllNotices!Spec => []AllNotices!NoticesCounted
  BY ContentAssumption, AllNotices!CountersKept
<1>3. Spec => RacingNotices!Spec \/ []~Runs("commenting")
  BY RacingNoticesRuns
<1>4. RacingNotices!Spec => []RacingNotices!NoticesCounted
  BY ContentAssumption, RacingNotices!CountersKept
<1>5. /\ (AllNotices!NoticesCounted \/ ~Runs("notices"))
        /\ (RacingNotices!NoticesCounted \/ ~Runs("commenting"))
        => NoticesCounted
  BY DEF Runs, NoticesCounted
<1> QED
  BY <1>1, <1>2, <1>3, <1>4, <1>5, PTL

(* Who is notified of a comment reads of everyone who commented since.     *)
THEOREM ContentCommentersNamed == Spec => []CommentersNamed
<1>1. Spec => AllNotices!Spec \/ []~Runs("notices")
  BY AllNoticesRuns
<1>2. AllNotices!Spec => []AllNotices!CommentersNamed
  BY ContentAssumption, AllNotices!CommentersTold
<1>3. Spec => RacingNotices!Spec \/ []~Runs("commenting")
  BY RacingNoticesRuns
<1>4. RacingNotices!Spec => []RacingNotices!CommentersNamed
  BY ContentAssumption, RacingNotices!CommentersTold
<1>5. /\ (AllNotices!CommentersNamed \/ ~Runs("notices"))
        /\ (RacingNotices!CommentersNamed \/ ~Runs("commenting"))
        => CommentersNamed
  BY DEF Runs, CommentersNamed
<1> QED
  BY <1>1, <1>2, <1>3, <1>4, <1>5, PTL

(* A code is guessed a bounded number of times, however requests race.     *)
THEOREM ContentGuessesBounded == Spec => []GuessesBounded
<1>1. Spec => AllAccounts!Spec \/ []~Runs("accounts")
  BY AllAccountsRuns
<1>2. AllAccounts!Spec => []AllAccounts!GuessesBounded
  BY ContentAssumption, AllAccounts!GuessesStayBounded
<1>3. Spec => Guesses!Spec \/ []~Runs("guessing")
  BY GuessesRuns
<1>4. Guesses!Spec => []Guesses!GuessesBounded
  BY ContentAssumption, Guesses!GuessesStayBounded
<1>5. /\ (AllAccounts!GuessesBounded \/ ~Runs("accounts"))
        /\ (Guesses!GuessesBounded \/ ~Runs("guessing"))
        => GuessesBounded
  BY DEF Runs, GuessesBounded
<1> QED
  BY <1>1, <1>2, <1>3, <1>4, <1>5, PTL

-----------------------------------------------------------------------------
(* Reports.                                                                *)

(* Where what was counted is: in the reports and in the counter, or lost;  *)
(* for a server that has read the counter, also in the reports and in what *)
(* it has read; for one that has written, in the reports.                  *)
Taken(v, k) ==
  \/ step[v] = "read" /\ k \notin left[v]
  \/ step[v] = "write" /\ k \in left[v]
Put(v, k) ==
  \/ step[v] = "write" /\ k \notin left[v]
  \/ step[v] = "reset" /\ k \in left[v]
Found(k) ==
  /\ counted[k] <= report[k] + counter[k] + lost[k]
  /\ \A v \in Servers :
       /\ Taken(v, k) => counted[k] <= report[k] + values[v][k] + lost[k]
       /\ Put(v, k) => counted[k] <= report[k] + lost[k]

(* While flushes are apart, only the one server has its reading still to   *)
(* add to the reports, and what it has added it still has to reset.        *)
Single ==
  \A u, v \in Servers : step[u] # "wait" /\ step[v] # "wait" => u = v
Once(k) ==
  /\ \/ \E v \in Servers : Put(v, k)
     \/ report[k] + counter[k] <= counted[k]
  /\ report[k] <= counted[k]
  /\ \A v \in Servers : Taken(v, k) => values[v][k] <= counter[k]

ReportsInv ==
  /\ Reporting!TypeOK
  /\ \A k \in Counters : Found(k)
  /\ apart => Single /\ \A k \in Counters : Once(k)

LEMMA ReportsStart == Reporting!Init => ReportsInv
  BY DEF Reporting!Init, Reporting!Nothing, Reporting!TypeOK, ReportsInv,
     Found, Once, Single, Taken, Put

LEMMA ReportsStep ==
  ReportsInv /\ [Reporting!Next \/ Reporting!Stop]_(Reporting!vars)
    => ReportsInv'
<1> SUFFICES ASSUME ReportsInv,
                    [Reporting!Next \/ Reporting!Stop]_(Reporting!vars)
             PROVE  ReportsInv'
  OBVIOUS
<1> USE DEF ReportsInv, Reporting!TypeOK
<1> USE DEF Found, Once, Single, Taken, Put
<1>1. ASSUME NEW k \in Counters, Reporting!Count(k)
      PROVE  ReportsInv'
  BY <1>1 DEF Reporting!Count, Reporting!Held
<1>2. ASSUME NEW v \in Servers, NEW k \in Counters, Reporting!Read(v, k)
      PROVE  ReportsInv'
  <2>1. /\ step[v] = "read" /\ k \in left[v]
        /\ UNCHANGED <<report, counter, step, counted, apart>>
    BY <1>2 DEF Reporting!Read, Reporting!Reads
  <2>2. Reporting!TypeOK'
    <3>1. /\ counter[k] + lost[k] \in Nat
          /\ values[v] \in [Counters -> Nat]
      OBVIOUS
    <3>2. lost' \in [Counters -> Nat]
      BY <1>2, <3>1 DEF Reporting!Read
    <3>3. PICK n \in Nat :
            /\ values' = [values EXCEPT ![v] = [values[v] EXCEPT ![k] = n]]
            /\ left' = [left EXCEPT ![v] = @ \ {k}]
      BY <1>2, <3>1 DEF Reporting!Read, Reporting!Reads, Reporting!Through
    <3>4. [values[v] EXCEPT ![k] = n] \in [Counters -> Nat]
      BY <3>1
    <3>5. values' \in [Servers -> [Counters -> Nat]]
      BY <3>3, <3>4
    <3>6. left' \in [Servers -> SUBSET Counters]
      BY <3>3
    <3> QED
      BY <2>1, <3>2, <3>5, <3>6, <1>2 DEF Reporting!Read, Reporting!Reads
  <2>3. /\ \A u \in Servers, j \in Counters : u # v \/ j # k =>
             /\ values'[u][j] = values[u][j]
             /\ j \in left'[u] <=> j \in left[u]
        /\ k \notin left'[v]
    BY <1>2 DEF Reporting!Read, Reporting!Reads, Reporting!Through
  <2>4. \/ values'[v][k] = counter[k] /\ UNCHANGED lost
        \/ /\ values'[v][k] = 0
           /\ lost'[k] = lost[k] + counter[k]
           /\ \A j \in Counters : j # k => lost'[j] = lost[j]
    BY <1>2 DEF Reporting!Read, Reporting!Reads
  <2>5. ASSUME NEW j \in Counters PROVE Found(j)'
    <3>1. /\ lost'[j] \in Nat /\ lost[j] \in Nat /\ lost[j] <= lost'[j]
          /\ counted[j] \in Nat /\ report[j] \in Nat
          /\ counter[j] \in Nat
      BY <2>2, <2>4
    <3>2. Found(j)
      OBVIOUS
    <3>3. counted'[j] <= report'[j] + counter'[j] + lost'[j]
      BY <2>1, <3>1, <3>2
    <3>4. ASSUME NEW u \in Servers, Taken(u, j)'
          PROVE  counted'[j] <= report'[j] + values'[u][j] + lost'[j]
      <4>1. CASE u = v /\ j = k
        BY <4>1, <2>1, <2>4, <3>1, <3>2
      <4>2. CASE u # v \/ j # k
        <5>1. Taken(u, j)
          BY <4>2, <2>1, <2>3, <3>4
        <5>2. values[u][j] \in Nat /\ values'[u][j] = values[u][j]
          BY <4>2, <2>3
        <5> QED
          BY <5>1, <5>2, <2>1, <3>1, <3>2
      <4> QED
        BY <4>1, <4>2
    <3>5. ASSUME NEW u \in Servers, Put(u, j)'
          PROVE  counted'[j] <= report'[j] + lost'[j]
      <4>1. Put(u, j)
        BY <2>1, <2>3, <3>5
      <4> QED
        BY <4>1, <2>1, <3>1, <3>2
    <3> QED
      BY <3>3, <3>4, <3>5
  <2>6. ASSUME apart' PROVE Single' /\ \A j \in Counters : Once(j)'
    <3>1. Single'
      BY <2>1, <2>6
    <3>2. ASSUME NEW j \in Counters PROVE Once(j)'
      <4>1. Once(j) /\ counter[j] \in Nat
        BY <2>1, <2>6
      <4>2. \A u \in Servers : Put(u, j)' <=> Put(u, j)
        BY <2>1, <2>3
      <4>3. \A u \in Servers : Taken(u, j)' => values'[u][j] <= counter'[j]
        BY <4>1, <2>1, <2>3, <2>4
      <4> QED
        BY <4>1, <4>2, <4>3, <2>1
    <3> QED
      BY <3>1, <3>2
  <2> QED
    BY <2>2, <2>5, <2>6
<1>3. ASSUME NEW v \in Servers, NEW k \in Counters, Reporting!Upsert(v, k)
      PROVE  ReportsInv'
  <2>1. /\ step[v] = "write" /\ k \in left[v]
        /\ UNCHANGED <<counter, step, values, counted, apart>>
    BY <1>3 DEF Reporting!Upsert
  <2>2. Reporting!TypeOK'
    <3>1. /\ values[v] \in [Counters -> Nat] /\ values[v][k] \in Nat
          /\ report[k] \in Nat /\ lost[k] \in Nat
      OBVIOUS
    <3>2. /\ report[k] + values[v][k] \in Nat
          /\ lost[k] + values[v][k] \in Nat
      BY <3>1
    <3>3. report' \in [Counters -> Nat] /\ lost' \in [Counters -> Nat]
      BY <1>3, <3>2 DEF Reporting!Upsert
    <3>4. left' \in [Servers -> SUBSET Counters]
      BY <1>3 DEF Reporting!Upsert, Reporting!Through
    <3> QED
      BY <2>1, <3>3, <3>4, <1>3 DEF Reporting!Upsert
  <2>3. /\ \A u \in Servers, j \in Counters : u # v \/ j # k =>
             (j \in left'[u] <=> j \in left[u])
        /\ k \notin left'[v]
    BY <1>3 DEF Reporting!Upsert, Reporting!Through
  <2>4. /\ \/ report'[k] = report[k] + values[v][k] /\ lost'[k] = lost[k]
           \/ report'[k] = report[k] /\ lost'[k] = lost[k] + values[v][k]
        /\ \A j \in Counters : j # k =>
             report'[j] = report[j] /\ lost'[j] = lost[j]
    BY <1>3 DEF Reporting!Upsert
  <2>5. ASSUME NEW j \in Counters PROVE Found(j)'
    <3>1. /\ lost'[j] \in Nat /\ lost[j] \in Nat /\ lost[j] <= lost'[j]
          /\ counted[j] \in Nat /\ counter[j] \in Nat
          /\ report[j] \in Nat /\ report'[j] \in Nat
          /\ report[j] <= report'[j]
      BY <2>2, <2>4
    <3>2. Found(j)
      OBVIOUS
    <3>3. counted'[j] <= report'[j] + counter'[j] + lost'[j]
      BY <2>1, <3>1, <3>2
    <3>4. ASSUME NEW u \in Servers, Taken(u, j)'
          PROVE  counted'[j] <= report'[j] + values'[u][j] + lost'[j]
      <4>1. Taken(u, j) /\ values[u][j] \in Nat
        BY <2>1, <2>3, <3>4
      <4> QED
        BY <4>1, <2>1, <3>1, <3>2
    <3>5. ASSUME NEW u \in Servers, Put(u, j)'
          PROVE  counted'[j] <= report'[j] + lost'[j]
      <4>1. CASE u = v /\ j = k
        <5>1. Taken(v, k) /\ values[v][k] \in Nat
          BY <2>1
        <5> QED
          BY <4>1, <5>1, <2>1, <2>4, <3>1, <3>2
      <4>2. CASE u # v \/ j # k
        <5>1. Put(u, j)
          BY <4>2, <2>1, <2>3, <3>5
        <5> QED
          BY <5>1, <2>1, <3>1, <3>2
      <4> QED
        BY <4>1, <4>2
    <3> QED
      BY <3>3, <3>4, <3>5
  <2>6. ASSUME apart' PROVE Single' /\ \A j \in Counters : Once(j)'
    <3>1. Single'
      BY <2>1, <2>6
    <3>2. ASSUME NEW j \in Counters PROVE Once(j)'
      <4>1. /\ Once(j) /\ Single
            /\ counter[j] \in Nat /\ report[j] \in Nat /\ counted[j] \in Nat
        BY <2>1, <2>6
      <4>2. \A u \in Servers : Taken(u, j)' => values'[u][j] <= counter'[j]
        BY <4>1, <2>1, <2>3
      <4>3. CASE j # k
        <5>1. \A u \in Servers : Put(u, j)' <=> Put(u, j)
          BY <4>3, <2>1, <2>3
        <5> QED
          BY <4>1, <4>2, <4>3, <5>1, <2>1, <2>4
      <4>4. CASE j = k
        <5>1. Put(v, k)'
          BY <2>1, <2>3
        <5>2. \A u \in Servers : ~Put(u, k)
          BY <4>1, <2>1
        <5>3. /\ report[k] + counter[k] <= counted[k]
              /\ values[v][k] \in Nat /\ values[v][k] <= counter[k]
          BY <4>1, <4>4, <5>2, <2>1
        <5>4. report'[k] <= counted'[k]
          BY <4>1, <4>4, <5>3, <2>1, <2>4
        <5> QED
          BY <4>2, <4>4, <5>1, <5>4
      <4> QED
        BY <4>3, <4>4
    <3> QED
      BY <3>1, <3>2
  <2> QED
    BY <2>2, <2>5, <2>6
<1>4. ASSUME NEW v \in Servers, NEW k \in Counters, Reporting!Reset(v, k)
      PROVE  ReportsInv'
  <2>1. /\ step[v] = "reset" /\ k \in left[v]
        /\ UNCHANGED <<report, step, values, counted, lost, apart>>
    BY <1>4 DEF Reporting!Reset
  <2>2. Reporting!TypeOK'
    BY <1>4 DEF Reporting!Reset, Reporting!Through
  <2>3. /\ \A u \in Servers, j \in Counters : u # v \/ j # k =>
             (j \in left'[u] <=> j \in left[u])
        /\ k \notin left'[v]
    BY <1>4 DEF Reporting!Reset, Reporting!Through
  <2>4. /\ counter'[k] = 0
        /\ \A j \in Counters : j # k => counter'[j] = counter[j]
    BY <1>4 DEF Reporting!Reset
  <2>5. ASSUME NEW j \in Counters PROVE Found(j)'
    <3>1. /\ lost[j] \in Nat /\ counted[j] \in Nat /\ report[j] \in Nat
          /\ counter[j] \in Nat /\ Found(j)
      OBVIOUS
    <3>2. Put(v, k)
      BY <2>1
    <3>3. counted'[j] <= report'[j] + counter'[j] + lost'[j]
      BY <2>1, <2>4, <3>1, <3>2
    <3>4. ASSUME NEW u \in Servers, Taken(u, j)'
          PROVE  counted'[j] <= report'[j] + values'[u][j] + lost'[j]
      <4>1. Taken(u, j)
        BY <2>1, <2>3, <3>4
      <4> QED
        BY <4>1, <2>1, <3>1
    <3>5. ASSUME NEW u \in Servers, Put(u, j)'
          PROVE  counted'[j] <= report'[j] + lost'[j]
      <4>1. Put(u, j)
        BY <2>1, <2>3, <3>5
      <4> QED
        BY <4>1, <2>1, <3>1
    <3> QED
      BY <3>3, <3>4, <3>5
  <2>6. ASSUME apart' PROVE Single' /\ \A j \in Counters : Once(j)'
    <3>1. Single'
      BY <2>1, <2>6
    <3>2. ASSUME NEW j \in Counters PROVE Once(j)'
      <4>1. /\ Once(j) /\ Single
            /\ counter[j] \in Nat /\ report[j] \in Nat /\ counted[j] \in Nat
        BY <2>1, <2>6
      <4>2. \A u \in Servers : ~Taken(u, j)'
        BY <4>1, <2>1, <2>3
      <4>3. CASE j # k
        <5>1. \A u \in Servers : Put(u, j)' <=> Put(u, j)
          BY <4>3, <2>1, <2>3
        <5> QED
          BY <4>1, <4>2, <4>3, <5>1, <2>1, <2>4
      <4>4. CASE j = k
        BY <4>1, <4>2, <4>4, <2>1, <2>4
      <4> QED
        BY <4>3, <4>4
    <3> QED
      BY <3>1, <3>2
  <2> QED
    BY <2>2, <2>5, <2>6
<1>5. ASSUME NEW v \in Servers, Reporting!Begin(v)
      PROVE  ReportsInv'
  BY <1>5 DEF Reporting!Begin, Reporting!Goes
<1>6. ASSUME NEW v \in Servers, Reporting!Collected(v)
      PROVE  ReportsInv'
  BY <1>6 DEF Reporting!Collected, Reporting!Goes
<1>7. ASSUME NEW v \in Servers, Reporting!Written(v)
      PROVE  ReportsInv'
  BY <1>7 DEF Reporting!Written, Reporting!Goes
<1>8. ASSUME NEW v \in Servers, Reporting!Flushed(v)
      PROVE  ReportsInv'
  BY <1>8 DEF Reporting!Flushed, Reporting!Goes
<1>9. ASSUME NEW v \in Servers, Reporting!Break(v)
      PROVE  ReportsInv'
  BY <1>9 DEF Reporting!Break, Reporting!Goes
<1>10. CASE UNCHANGED Reporting!vars
  BY <1>10 DEF Reporting!vars
<1> QED
  BY <1>1, <1>2, <1>3, <1>4, <1>5, <1>6, <1>7, <1>8, <1>9, <1>10
     DEF Reporting!Next, Reporting!Stop

LEMMA ReportsKept == Reporting!Spec => []Reporting!CountsReported
<1>1. ReportsInv => Reporting!CountsReported
  BY DEF ReportsInv, Found, Once, Put, Reporting!TypeOK,
     Reporting!CountsReported, Reporting!Waiting
<1> QED
  BY <1>1, ReportsStart, ReportsStep, PTL DEF Reporting!Spec

(* Whatever servers flush at once, crash or fail, the reports and the      *)
(* counters of Redis have all that was counted but what was counted after  *)
(* a server's reading and before its reset, or was in a command that       *)
(* failed; and while flushes keep apart nothing is reported twice.         *)
THEOREM EveryCountReported == Spec => []CountsReported
<1>1. Spec => Reporting!Spec \/ []~Runs("reports")
  BY ReportingRuns
<1>2. Reporting!Spec => []Reporting!CountsReported
  BY ReportsKept
<1>3. (Reporting!CountsReported \/ ~Runs("reports")) => CountsReported
  BY DEF Runs, CountsReported
<1> QED
  BY <1>1, <1>2, <1>3, PTL

=============================================================================
