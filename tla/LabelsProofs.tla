----------------------------- MODULE LabelsProofs -----------------------------
(***************************************************************************)
(* What Labels keeps for any accounts, labels, workers, requests and       *)
(* number of requests.                                                     *)
(***************************************************************************)
EXTENDS Labels, FiniteSetTheorems, SequenceTheorems, TLAPS

-----------------------------------------------------------------------------
(* Calls, and what a worker has before it.                                 *)

LEMMA CallFields ==
  ASSUME NEW c \in Calls
  PROVE  /\ c.do \notin {"get", "get_asked", "decide"}
         /\ c.do = "answer" => c.id \in AskedIds /\ c.arg \in Statuses
         /\ c.do # "answer" => c.id \in LabelIds
         /\ c.do \in {"lookup", "retitle"} => c.arg \in Titles
         /\ c.do = "insert" =>
              /\ c.arg[1] \in Titles \cup {Nil} /\ c.arg[2] \in BOOLEAN
              /\ c.arg[3] \in AskedIds \cup {Nil}
         /\ c.do = "enlist" => c.arg \in SUBSET Accounts
         /\ c.do = "delist" => c.arg \in Accounts
         /\ c.do \in {"list", "unlist"} =>
              c.arg \in SUBSET (Accounts \cup {Public})
  BY SMT DEF Calls

LEMMA PlainCalls ==
  ASSUME NEW l \in LabelIds
  PROVE  /\ \A t \in Titles : /\ Command("lookup", l, t) \in Calls
                              /\ Command("retitle", l, t) \in Calls
         /\ \A t \in Titles \cup {Nil}, b \in BOOLEAN,
               i \in AskedIds \cup {Nil} :
              Command("insert", l, <<t, b, i>>) \in Calls
         /\ \A S \in SUBSET Accounts : Command("enlist", l, S) \in Calls
         /\ \A a \in Accounts : Command("delist", l, a) \in Calls
         /\ \A S \in SUBSET (Accounts \cup {Public}) :
              /\ Command("list", l, S) \in Calls
              /\ Command("unlist", l, S) \in Calls
         /\ \A do \in {"delete", "tag", "untag"} :
              Command(do, l, Nil) \in Calls
  BY SMT DEF Calls, Command

LEMMA AnswerCall ==
  ASSUME NEW i \in AskedIds, NEW status \in Statuses
  PROVE  Command("answer", i, status) \in Calls
  BY SMT DEF Calls, Command

LEMMA ShortScripts ==
  /\ <<>> \in Seq(Calls)
  /\ \A c \in Calls : <<c>> \in Seq(Calls)
  /\ \A c, d \in Calls : <<c, d>> \in Seq(Calls)
  /\ \A s, t \in Seq(Calls) : s \o t \in Seq(Calls)
  BY SMT

LEMMA RequestFields ==
  ASSUME LabelsAssumption, NEW r \in Requests
  PROVE  /\ Complete(r) /\ r.who \in Accounts /\ r.public \in BOOLEAN
         /\ r.op \in {"create", "add_member", "remove_member", "update",
                      "remove", "create_req", "remove_req", "approve",
                      "reject", "tag"}
  BY DEF LabelsAssumption, RequestType

LEMMA Openings ==
  ASSUME NEW r
  PROVE  /\ Opening(r) # <<>>
         /\ Head(Opening(r)).do \in {"get", "get_asked"}
         /\ Head(Opening(r)).id = r.id
         /\ Head(Opening(r)).do = "get_asked" <=> r.op \in OnAsked
         /\ Tail(Opening(r)) = <<Decide(r)>>
         /\ Opening(r) # <<Decide(r)>>
         /\ <<Decide(r)>> # <<>>
         /\ Head(<<Decide(r)>>) = Decide(r)
         /\ Head(<<Decide(r)>>).do = "decide"
         /\ Tail(<<Decide(r)>>) = <<>>
         /\ Decide(r).do = "decide" /\ Decide(r).id = r.id /\ Decide(r).arg = r
  BY SMT DEF Opening, Decide, Command

LEMMA OpeningHeads ==
  ASSUME NEW r, NEW s
  PROVE  /\ s = Opening(r) =>
              s # <<>> /\ Head(s).do \in {"get", "get_asked"}
         /\ s = <<Decide(r)>> => s # <<>> /\ Head(s).do = "decide"
<1>1. CASE s = Opening(r)
  <2>1. Opening(r) # <<>> /\ Head(Opening(r)).do \in {"get", "get_asked"}
    BY Openings
  <2>2. Opening(r) # <<Decide(r)>>
    BY Openings
  <2> QED
    BY <1>1, <2>1, <2>2
<1>2. CASE s = <<Decide(r)>>
  <2>1. <<Decide(r)>> # <<>> /\ Head(<<Decide(r)>>).do = "decide"
    BY Openings
  <2>2. Opening(r) # <<Decide(r)>>
    BY Openings
  <2> QED
    BY <1>2, <2>1, <2>2
<1> QED
  BY <1>1, <1>2

LEMMA CallsOnly ==
  ASSUME NEW s \in Seq(Calls)
  PROVE  /\ s # <<>> => /\ Head(s) \in Calls /\ Tail(s) \in Seq(Calls)
                       /\ Head(s).do \notin {"get", "get_asked", "decide"}
         /\ \A r : s # Opening(r) /\ s # <<Decide(r)>>
<1>1. s # <<>> => Head(s) \in Calls /\ Tail(s) \in Seq(Calls)
  BY HeadTailProperties
<1>2. s # <<>> => Head(s).do \notin {"get", "get_asked", "decide"}
  BY <1>1, CallFields
<1> QED
  BY <1>1, <1>2, OpeningHeads

(* A worker about to run a call has calls after it.                        *)
LEMMA AtCall ==
  ASSUME TypeOK, NEW w \in Workers, script[w] # <<>>,
         Now(w).do \notin {"get", "get_asked", "decide"}
  PROVE  /\ Now(w) \in Calls
         /\ Tail(script[w]) \in Seq(Calls)
<1>1. script[w] \in Seq(Calls)
  <2>1. \A r : script[w] # Opening(r) /\ script[w] # <<Decide(r)>>
    BY OpeningHeads DEF Now
  <2> QED
    BY <2>1 DEF TypeOK
<1> QED
  BY <1>1, CallsOnly DEF Now

(* A worker about to decide has nothing after it, and what it asked for.   *)
LEMMA AtDecide ==
  ASSUME TypeOK, NEW w \in Workers, Ready(w, "decide")
  PROVE  \E r \in Receives :
           /\ script[w] = <<Decide(r)>> /\ copy[w] \in Found(r)
           /\ Now(w).arg = r /\ Now(w).id = r.id /\ Tail(script[w]) = <<>>
<1>1. script[w] \notin Seq(Calls)
  BY CallsOnly DEF Ready
<1>2. PICK r \in Receives :
        \/ script[w] = Opening(r)
        \/ script[w] = <<Decide(r)>> /\ copy[w] \in Found(r)
  BY <1>1 DEF TypeOK
<1>3. script[w] # Opening(r)
  BY OpeningHeads DEF Ready
<1>4. script[w] = <<Decide(r)>> /\ copy[w] \in Found(r)
  BY <1>2, <1>3
<1>5. Now(w) = Decide(r) /\ Tail(script[w]) = <<>>
  BY <1>4, Openings DEF Now
<1>6. Now(w).arg = r /\ Now(w).id = r.id
  BY <1>5, Openings
<1> QED
  BY <1>4, <1>5, <1>6

LEMMA AtGet ==
  ASSUME TypeOK, NEW w \in Workers, Ready(w, "get") \/ Ready(w, "get_asked")
  PROVE  \E r \in Receives : script[w] = Opening(r)
<1>1. script[w] \notin Seq(Calls)
  BY CallsOnly DEF Ready
<1>2. \A r : script[w] # <<Decide(r)>>
  BY OpeningHeads DEF Ready
<1> QED
  BY <1>1, <1>2 DEF TypeOK

-----------------------------------------------------------------------------
(* Type correctness.                                                       *)

(* Labels are given ids within the bound: of the workers that will approve *)
(* a request, each may need one more.                                      *)
Approving ==
  {w \in Workers : \E r \in Receives :
     r.op = "approve" /\ script[w] \in {Opening(r), <<Decide(r)>>}}
Room == ids + Cardinality(Approving) <= MaxLabels

Busy == {w \in Workers : script[w] # <<>>}

(* Documents have their types.                                             *)
DocsOK ==
  /\ label \in [LabelIds -> LabelDocs \cup {Nil}]
  /\ listing \in [Accounts \cup {Public} -> Lists]
  /\ asked \in [AskedIds -> AskedDocs \cup {Nil}]
  /\ tagged \subseteq LabelIds
  /\ ids \in 0..MaxLabels /\ served \in 0..MaxRequests

(* A step of a worker that leaves it with calls, or with an opening, keeps *)
(* the types if the documents keep theirs.                                 *)
LEMMA StepTyped ==
  ASSUME TypeOK, NEW w \in Workers, NEW s, script' = [script EXCEPT ![w] = s],
         DocsOK', copy' = copy,
         s \in Seq(Calls) \/ \E r \in Receives : s = Opening(r)
  PROVE  TypeOK'
<1>1. /\ DOMAIN script' = Workers /\ script'[w] = s
      /\ \A v \in Workers : v # w => script'[v] = script[v]
  BY DEF TypeOK
<1>2. ASSUME NEW v \in Workers
      PROVE  \/ script'[v] \in Seq(Calls)
             \/ \E r \in Receives :
                  \/ script'[v] = Opening(r)
                  \/ script'[v] = <<Decide(r)>> /\ copy'[v] \in Found(r)
  <2>1. CASE v = w
    BY <1>1, <2>1
  <2>2. CASE v # w
    BY <1>1, <2>2 DEF TypeOK
  <2> QED
    BY <2>1, <2>2
<1> QED
  BY <1>1, <1>2 DEF TypeOK, DocsOK, Calls, Receives, Found

(* A worker that goes on with calls is none that will approve.             *)
LEMMA ApprovingShrinks ==
  ASSUME LabelsAssumption, TypeOK, Room, NEW w \in Workers, NEW s \in Seq(Calls),
         script' = [script EXCEPT ![w] = s], ids' \in Nat,
         ids' = ids \/ (w \in Approving /\ ids' = ids + 1)
  PROVE  Room'
<1>1. Approving' \subseteq Approving \ {w}
  <2>1. ASSUME NEW v \in Approving'
        PROVE  v \in Approving /\ v # w
    <3>1. \A r : s # Opening(r) /\ s # <<Decide(r)>>
      BY CallsOnly
    <3> QED
      BY <3>1 DEF Approving, TypeOK, Receives
  <2> QED
    BY <2>1
<1>2. IsFiniteSet(Approving)
  BY FS_Subset DEF Approving, LabelsAssumption
<1>3. /\ Cardinality(Approving') \in Nat /\ Cardinality(Approving) \in Nat
      /\ Cardinality(Approving') <= Cardinality(Approving)
      /\ w \in Approving => Cardinality(Approving') <= Cardinality(Approving) - 1
  <2>1. IsFiniteSet(Approving \ {w})
    BY <1>2, FS_Subset
  <2>2. /\ Cardinality(Approving') <= Cardinality(Approving \ {w})
        /\ IsFiniteSet(Approving')
        /\ Cardinality(Approving \ {w}) <= Cardinality(Approving)
    BY <1>1, <1>2, <2>1, FS_Subset
  <2>3. w \in Approving =>
          Cardinality(Approving \ {w}) = Cardinality(Approving) - 1
    BY <1>2, FS_RemoveElement
  <2>4. /\ Cardinality(Approving') \in Nat /\ Cardinality(Approving) \in Nat
        /\ Cardinality(Approving \ {w}) \in Nat
    BY <1>2, <2>1, <2>2, FS_CardinalityType
  <2> QED
    BY <2>2, <2>3, <2>4
<1>4. ids \in Nat /\ MaxLabels \in Nat /\ MaxLabels' = MaxLabels
  BY DEF TypeOK, LabelsAssumption
<1>5. CASE ids' = ids
  BY <1>3, <1>4, <1>5 DEF Room
<1>6. CASE w \in Approving /\ ids' = ids + 1
  BY <1>3, <1>4, <1>6 DEF Room
<1> QED
  BY <1>5, <1>6

(* A call of a worker: it leaves the rest of its calls, more before them,  *)
(* or nothing.                                                             *)
LEMMA CallTyped ==
  ASSUME LabelsAssumption, TypeOK, Room, NEW w \in Workers, script[w] # <<>>,
         Now(w).do \notin {"get", "get_asked", "decide"},
         NEW s \in Seq(Calls),
         Become(w, s) \/ Return(w) \/ script' = [script EXCEPT ![w] = s],
         DocsOK', copy' = copy, ids' = ids
  PROVE  TypeOK' /\ Room'
<1>1. PICK t \in Seq(Calls) : script' = [script EXCEPT ![w] = t]
  <2>1. s \o Tail(script[w]) \in Seq(Calls) /\ <<>> \in Seq(Calls)
    BY AtCall, ShortScripts
  <2> QED
    BY <2>1 DEF Become, Return
<1>2. ids \in Nat
  BY DEF TypeOK
<1>3. Room'
  BY <1>1, <1>2, ApprovingShrinks
<1> QED
  BY <1>1, <1>3, StepTyped

(* A decision leaves what it calls.                                        *)
LEMMA DecisionTyped ==
  ASSUME LabelsAssumption, TypeOK, Room, NEW w \in Workers, NEW op, NEW ok,
         NEW calls, Handle(w, op, ok, calls),
         ok => calls \in Seq(Calls), DocsOK',
         ids' = ids \/ (w \in Approving /\ ids' = ids + 1)
  PROVE  TypeOK' /\ Room'
<1>1. PICK r \in Receives : script[w] = <<Decide(r)>> /\ Tail(script[w]) = <<>>
  BY AtDecide DEF Handle
<1>2. PICK t \in Seq(Calls) : script' = [script EXCEPT ![w] = t]
  <2>1. (IF ok THEN calls ELSE <<>>) \in Seq(Calls)
    BY ShortScripts
  <2>2. (IF ok THEN calls ELSE <<>>) \o Tail(script[w]) \in Seq(Calls)
    BY <1>1, <2>1, ShortScripts
  <2> QED
    BY <2>2 DEF Handle, Become
<1>3. ids \in Nat /\ ids' \in Nat
  BY DEF TypeOK
<1>4. Room'
  BY <1>2, <1>3, ApprovingShrinks
<1> QED
  BY <1>2, <1>4, StepTyped DEF Handle

LEMMA IdsTyped ==
  ASSUME LabelsAssumption
  PROVE  /\ MaxLabels \in Nat /\ MaxAsked \in Nat /\ MaxRequests \in Nat
         /\ \A n \in 0..MaxLabels : n < MaxLabels =>
              n + 1 \in LabelIds /\ n + 1 \in 0..MaxLabels
  BY DEF LabelsAssumption, LabelIds

(* Whoever approves has room for a label.                                  *)
LEMMA RoomToApprove ==
  ASSUME LabelsAssumption, TypeOK, Room, NEW w \in Approving
  PROVE  ids < MaxLabels
<1>1. IsFiniteSet(Approving) /\ Approving # {}
  BY FS_Subset DEF Approving, LabelsAssumption
<1>2. Cardinality(Approving) \in Nat /\ Cardinality(Approving) # 0
  BY <1>1, FS_CardinalityType, FS_EmptySet
<1> QED
  BY <1>2, IdsTyped DEF Room, TypeOK

LEMMA RequestTyped ==
  ASSUME LabelsAssumption, TypeOK, Room, NEW w \in Workers, NEW r \in Requests,
         CreateLabel(w, r) \/ Receive(w, r) \/ AskForLabel(w, r)
  PROVE  TypeOK' /\ Room'
<1>1. /\ script[w] = <<>> /\ served' = served + 1 /\ served' \in 0..MaxRequests
      /\ copy' = copy
  BY IdsTyped DEF CreateLabel, Receive, AskForLabel, Arrives, TypeOK
<1>2. /\ IsFiniteSet(Busy) /\ IsFiniteSet(Approving) /\ Approving \subseteq Busy
      /\ w \notin Busy
  BY <1>1, FS_Subset, Openings DEF Approving, Busy, LabelsAssumption
<1>3. /\ Cardinality(Busy) \in Nat /\ Cardinality(Approving) \in Nat
      /\ Cardinality(Approving) <= Cardinality(Busy)
  BY <1>2, FS_Subset, FS_CardinalityType
<1>4. ids \in 0..MaxLabels /\ ids \in Nat
  BY DEF TypeOK
<1>a. CASE CreateLabel(w, r)
  <2>1. ids + Cardinality(Busy) < MaxLabels
    BY <1>a DEF CreateLabel, HasRoom, Busy
  <2>2. ids' = ids + 1 /\ ids' \in 0..MaxLabels /\ ids' \in LabelIds
    BY <1>3, <1>4, <1>a, <2>1, IdsTyped DEF CreateLabel, NewLabel
  <2>3. r.item \in Titles /\ r.public \in BOOLEAN
    BY <1>a, RequestFields DEF CreateLabel, Complete
  <2>4. PICK s \in Seq(Calls) : script' = [script EXCEPT ![w] = s]
    <3>1. /\ Command("lookup", NewLabel, r.item) \in Calls
          /\ Command("insert", NewLabel, <<r.item, r.public, Nil>>) \in Calls
      BY <1>a, <2>2, <2>3, PlainCalls DEF CreateLabel
    <3> QED
      BY <1>a, <3>1, ShortScripts DEF CreateLabel, Arrives
  <2>5. DocsOK'
    BY <1>1, <1>a, <2>2 DEF CreateLabel, docs, TypeOK, DocsOK
  <2>6. TypeOK'
    BY <1>1, <2>4, <2>5, StepTyped
  <2>7. Approving' \subseteq Approving
    <3>1. \A q : script'[w] # Opening(q) /\ script'[w] # <<Decide(q)>>
      BY <2>4, CallsOnly DEF TypeOK
    <3>2. \A v \in Workers : v # w => script'[v] = script[v]
      BY <2>4 DEF TypeOK
    <3> QED
      BY <3>1, <3>2 DEF Approving, Receives
  <2>8. /\ Cardinality(Approving') <= Cardinality(Approving)
        /\ Cardinality(Approving') \in Nat
    BY <1>2, <2>7, FS_Subset, FS_CardinalityType
  <2>9. ids' + Cardinality(Approving') <= MaxLabels
    BY <1>3, <1>4, <2>1, <2>2, <2>8, IdsTyped
  <2> QED
    BY <2>6, <2>9 DEF Room
<1>b. CASE Receive(w, r)
  <2>1. r \in Receives /\ script' = [script EXCEPT ![w] = Opening(r)]
    BY <1>b DEF Receive, Arrives, Receives
  <2>2. DocsOK'
    BY <1>1, <1>b DEF Receive, docs, TypeOK, DocsOK
  <2>3. TypeOK'
    BY <1>1, <2>1, <2>2, StepTyped
  <2>4. /\ \A v \in Workers : v # w => script'[v] = script[v]
        /\ script'[w] = Opening(r) /\ ids' = ids
    BY <1>b, <2>1 DEF TypeOK, Receive
  <2>5. CASE r.op = "approve"
    <3>1. Approving' \subseteq Busy \cup {w}
      BY <1>2, <2>4 DEF Approving, Receives
    <3>2. /\ IsFiniteSet(Busy \cup {w})
          /\ Cardinality(Busy \cup {w}) = Cardinality(Busy) + 1
      BY <1>2, FS_AddElement
    <3>3. /\ Cardinality(Approving') <= Cardinality(Busy) + 1
          /\ Cardinality(Approving') \in Nat
      BY <3>1, <3>2, FS_Subset, FS_CardinalityType
    <3>4. ids + Cardinality(Busy) < MaxLabels
      BY <1>b, <2>5 DEF Receive, HasRoom, Busy
    <3>5. ids' + Cardinality(Approving') <= MaxLabels
      BY <1>3, <1>4, <2>4, <3>3, <3>4, IdsTyped
    <3> QED
      BY <2>3, <3>5 DEF Room
  <2>6. CASE r.op # "approve"
    <3>1. \A q \in Receives : q.op = "approve" =>
            script'[w] # Opening(q) /\ script'[w] # <<Decide(q)>>
      <4>1. ASSUME NEW q \in Receives, q.op = "approve", Opening(r) = Opening(q)
            PROVE  FALSE
        <5>1. Decide(r) = Decide(q)
          BY <4>1 DEF Opening
        <5> QED
          BY <4>1, <5>1, <2>6 DEF Decide, Command
      <4> QED
        BY <2>4, <4>1, OpeningHeads
    <3>2. Approving' \subseteq Approving
      BY <2>4, <3>1 DEF Approving, Receives
    <3>3. /\ Cardinality(Approving') <= Cardinality(Approving)
          /\ Cardinality(Approving') \in Nat
      BY <1>2, <3>2, FS_Subset, FS_CardinalityType
    <3>4. ids' + Cardinality(Approving') <= MaxLabels
      BY <1>3, <1>4, <2>4, <3>3, IdsTyped DEF Room
    <3> QED
      BY <2>3, <3>4 DEF Room
  <2> QED
    BY <2>5, <2>6
<1>c. CASE AskForLabel(w, r)
  <2>1. script' = [script EXCEPT ![w] = <<>>] /\ ids' = ids
    BY <1>c DEF AskForLabel, Arrives
  <2>2. [by |-> r.who, label |-> r.id, title |-> r.item, status |-> "pending"]
          \in AskedDocs
    BY <1>c, RequestFields DEF AskForLabel, Complete, AskedDocs, Statuses
  <2>3. DocsOK'
    BY <1>1, <1>c, <2>2 DEF AskForLabel, TypeOK, DocsOK
  <2>4. TypeOK' /\ Room'
    BY <1>1, <1>4, <2>1, <2>3, ShortScripts, StepTyped, ApprovingShrinks
  <2> QED
    BY <2>4
<1> QED
  BY <1>a, <1>b, <1>c

LEMMA GetTyped ==
  ASSUME LabelsAssumption, TypeOK, Room, NEW w \in Workers, GetLabel(w)
  PROVE  TypeOK' /\ Room'
<1>1. PICK r \in Receives : script[w] = Opening(r)
  BY AtGet DEF GetLabel
<1>2. r \in Requests /\ r.op \notin {"create", "create_req"}
  BY DEF Receives
<1>3. /\ Now(w).id = r.id /\ Tail(script[w]) = <<Decide(r)>>
      /\ Now(w).do \in {"get", "get_asked"}
      /\ Now(w).do = "get_asked" <=> r.op \in OnAsked
  BY <1>1, Openings DEF Now
<1> DEFINE found == IF Now(w).do = "get" THEN label[Now(w).id]
                    ELSE asked[Now(w).id]
<1>4. found = Nil \/ found \in Found(r)
  <2>1. CASE r.op \in OnAsked
    <3>1. r.id \in AskedIds
      BY <1>2, <2>1, RequestFields DEF Complete
    <3> QED
      BY <1>3, <2>1, <3>1 DEF TypeOK, Found
  <2>2. CASE r.op \notin OnAsked
    <3>1. r.id \in LabelIds
      BY <1>2, <2>2, RequestFields DEF Complete, OnAsked
    <3> QED
      BY <1>3, <2>2, <3>1 DEF TypeOK, Found
  <2> QED
    BY <2>1, <2>2
<1>5. DocsOK' /\ ids' = ids /\ ids \in Nat
  BY DEF GetLabel, docs, TypeOK, DocsOK
<1>6. CASE found = Nil
  <2>1. script' = [script EXCEPT ![w] = <<>>] /\ copy' = copy
    BY <1>6 DEF GetLabel, Return
  <2> QED
    BY <1>5, <2>1, ShortScripts, StepTyped, ApprovingShrinks
<1>7. CASE found # Nil
  <2>1. /\ script' = [script EXCEPT ![w] = <<Decide(r)>>]
        /\ copy' = [copy EXCEPT ![w] = found]
    <3>1. <<>> \o <<Decide(r)>> = <<Decide(r)>>
      BY SMT
    <3> QED
      BY <1>3, <1>7, <3>1 DEF GetLabel, Proceed, Become
  <2>2. /\ DOMAIN script' = Workers /\ DOMAIN copy' = Workers
        /\ script'[w] = <<Decide(r)>> /\ copy'[w] \in Found(r)
        /\ \A v \in Workers : v # w => /\ script'[v] = script[v]
                                       /\ copy'[v] = copy[v]
    BY <1>4, <1>7, <2>1 DEF TypeOK
  <2>3. ASSUME NEW v \in Workers
        PROVE  \/ script'[v] \in Seq(Calls)
               \/ \E q \in Receives :
                    \/ script'[v] = Opening(q)
                    \/ script'[v] = <<Decide(q)>> /\ copy'[v] \in Found(q)
    BY <2>2 DEF TypeOK
  <2>4. TypeOK'
    BY <1>5, <2>2, <2>3 DEF TypeOK, DocsOK, Calls, Receives, Found
  <2>5. Approving' \subseteq Approving
    <3>1. ASSUME NEW q \in Receives, q.op = "approve",
                 script'[w] = Opening(q) \/ script'[w] = <<Decide(q)>>
          PROVE  w \in Approving
      <4>1. <<Decide(r)>> = <<Decide(q)>>
        BY <2>2, <3>1, OpeningHeads
      <4>2. Decide(r) = Decide(q)
        BY <4>1
      <4>3. r = q
        <5>1. Decide(r).arg = r /\ Decide(q).arg = q
          BY Openings
        <5> QED
          BY <4>2, <5>1
      <4> QED
        BY <1>1, <3>1, <4>3 DEF Approving
    <3> QED
      BY <2>2, <3>1 DEF Approving, Receives
  <2>6. IsFiniteSet(Approving)
    BY FS_Subset DEF Approving, LabelsAssumption
  <2>7. /\ Cardinality(Approving') <= Cardinality(Approving)
        /\ Cardinality(Approving') \in Nat /\ Cardinality(Approving) \in Nat
    BY <2>5, <2>6, FS_Subset, FS_CardinalityType
  <2>8. ids' + Cardinality(Approving') <= MaxLabels
    BY <1>5, <2>7, IdsTyped DEF Room
  <2> QED
    BY <2>4, <2>8 DEF Room
<1> QED
  BY <1>6, <1>7

(* What a handler does on what it read.                                    *)
Decisions(w) ==
  \/ AddMember(w) \/ RemoveMember(w) \/ UpdateLabel(w) \/ RemoveLabel(w)
  \/ CancelRequest(w) \/ RejectRequest(w) \/ ApproveRequest(w) \/ TagPost(w)

LEMMA HandleTyped ==
  ASSUME LabelsAssumption, TypeOK, Room, NEW w \in Workers, Decisions(w)
  PROVE  TypeOK' /\ Room'
<1>1. Ready(w, "decide") /\ DOMAIN script = Workers
  BY DEF Decisions, AddMember, RemoveMember, UpdateLabel, RemoveLabel,
     CancelRequest, RejectRequest, ApproveRequest, TagPost, Handle, TypeOK
<1>2. PICK r \in Receives :
        /\ script[w] = <<Decide(r)>> /\ copy[w] \in Found(r)
        /\ Now(w).arg = r /\ Now(w).id = r.id /\ Tail(script[w]) = <<>>
  BY <1>1, AtDecide
<1>3. r \in Requests /\ Complete(r) /\ Asked(w) = r
  BY <1>2, RequestFields DEF Receives, Asked
<1>4. ids' = ids => DocsOK'
  BY DEF Decisions, AddMember, RemoveMember, UpdateLabel, RemoveLabel,
     CancelRequest, RejectRequest, ApproveRequest, TagPost, Handle, docs,
     TypeOK, DocsOK
<1> DEFINE c == copy[w]
<1>a. CASE AddMember(w)
  <2>1. Handle(w, "add_member",
               /\ IsEditor(w)
               /\ c.nMembers + Cardinality(r.item) <= MaxMembers,
               AddMembers(r.id, r.item \cap Enabled)) /\ r.op = "add_member"
    BY <1>a, <1>2, <1>3 DEF AddMember, Handle
  <2>2. r.id \in LabelIds /\ r.item \cap Enabled \in SUBSET Accounts
    BY <1>3, <2>1 DEF Complete, LabelsAssumption
  <2>3. AddMembers(r.id, r.item \cap Enabled) \in Seq(Calls)
    BY <2>2, PlainCalls, ShortScripts DEF AddMembers
  <2> QED
    BY <1>4, <1>a, <2>1, <2>3, DecisionTyped DEF AddMember
<1>b. CASE RemoveMember(w)
  <2>1. Handle(w, "remove_member", IsEditor(w),
               <<Command("delist", r.id, r.item)>>) /\ r.op = "remove_member"
    BY <1>b, <1>2, <1>3 DEF RemoveMember, Handle
  <2>2. <<Command("delist", r.id, r.item)>> \in Seq(Calls)
    BY <1>3, <2>1, PlainCalls, ShortScripts DEF Complete
  <2> QED
    BY <1>4, <1>b, <2>1, <2>2, DecisionTyped DEF RemoveMember
<1>c. CASE UpdateLabel(w)
  <2>1. Handle(w, "update", IsEditor(w),
               <<Command("retitle", r.id, r.item)>>) /\ r.op = "update"
    BY <1>c, <1>2, <1>3 DEF UpdateLabel, Handle
  <2>2. <<Command("retitle", r.id, r.item)>> \in Seq(Calls)
    BY <1>3, <2>1, PlainCalls, ShortScripts DEF Complete
  <2> QED
    BY <1>4, <1>c, <2>1, <2>2, DecisionTyped DEF UpdateLabel
<1>d. CASE RemoveLabel(w)
  <2>1. Handle(w, "remove", IsEditor(w), <<Command("delete", r.id, Nil)>>)
          /\ r.op = "remove"
    BY <1>d, <1>2, <1>3 DEF RemoveLabel, Handle
  <2>2. <<Command("delete", r.id, Nil)>> \in Seq(Calls)
    BY <1>3, <2>1, PlainCalls, ShortScripts DEF Complete
  <2> QED
    BY <1>4, <1>d, <2>1, <2>2, DecisionTyped DEF RemoveLabel
<1>e. CASE CancelRequest(w)
  <2>1. Handle(w, "remove_req", c.by = r.who, Answer(r.id, "canceled"))
          /\ r.op = "remove_req"
    BY <1>e, <1>2, <1>3 DEF CancelRequest, Handle
  <2>2. Answer(r.id, "canceled") \in Seq(Calls)
    BY <1>3, <2>1, AnswerCall, ShortScripts DEF Complete, OnAsked, Statuses,
       Answer
  <2> QED
    BY <1>4, <1>e, <2>1, <2>2, DecisionTyped DEF CancelRequest
<1>f. CASE RejectRequest(w)
  <2>1. Handle(w, "reject", IsEditor(w), Answer(r.id, "rejected"))
          /\ r.op = "reject"
    BY <1>f, <1>2, <1>3 DEF RejectRequest, Handle
  <2>2. Answer(r.id, "rejected") \in Seq(Calls)
    BY <1>3, <2>1, AnswerCall, ShortScripts DEF Complete, OnAsked, Statuses,
       Answer
  <2> QED
    BY <1>4, <1>f, <2>1, <2>2, DecisionTyped DEF RejectRequest
<1>g. CASE TagPost(w)
  <2>1. Handle(w, "tag", c.public \/ Asked(w).who \in c.members,
               <<Command("tag", r.id, Nil)>>) /\ r.op = "tag"
    BY <1>g, <1>2, <1>3 DEF TagPost, Handle
  <2>2. <<Command("tag", r.id, Nil)>> \in Seq(Calls)
    BY <1>3, <2>1, PlainCalls, ShortScripts DEF Complete
  <2> QED
    BY <1>4, <1>g, <2>1, <2>2, DecisionTyped DEF TagPost
<1>h. CASE ApproveRequest(w)
  <2> DEFINE creates == IsEditor(w) /\ c.label = Nil
             calls == IF creates
                        THEN <<Command("insert", NewLabel, <<c.title, FALSE, r.id>>)>>
                               \o Answer(r.id, "approved")
                               \o AddMembers(NewLabel, {c.by})
                      ELSE IF c.label \notin Made THEN Answer(r.id, "failed")
                      ELSE (IF c.title # Nil
                              THEN <<Command("retitle", c.label, c.title)>>
                              ELSE AddMembers(c.label, {c.by}))
                           \o Answer(r.id, "approved")
  <2>1. /\ Handle(w, "approve", IsEditor(w), calls) /\ r.op = "approve"
        /\ ids' = IF creates THEN NewLabel ELSE ids
    BY <1>h, <1>2, <1>3 DEF ApproveRequest, Handle
  <2>2. w \in Approving
    BY <1>2, <2>1 DEF Approving
  <2>3. /\ NewLabel \in LabelIds /\ NewLabel = ids + 1 /\ ids + 1 \in 0..MaxLabels
    BY <2>2, RoomToApprove, IdsTyped DEF NewLabel, TypeOK
  <2>4. r.id \in AskedIds /\ c \in AskedDocs
    BY <1>2, <1>3, <2>1 DEF Complete, OnAsked, Found
  <2>5. /\ c.by \in Accounts /\ c.label \in LabelIds \cup {Nil}
        /\ c.title \in Titles \cup {Nil} /\ {c.by} \in SUBSET Accounts
    BY <2>4 DEF AskedDocs
  <2>6. /\ Answer(r.id, "approved") \in Seq(Calls)
        /\ Answer(r.id, "failed") \in Seq(Calls)
    BY <2>4, AnswerCall, ShortScripts DEF Statuses, Answer
  <2>7. \A l \in LabelIds : /\ AddMembers(l, {c.by}) \in Seq(Calls)
                            /\ <<Command("insert", l, <<c.title, FALSE, r.id>>)>>
                                 \in Seq(Calls)
                            /\ c.title # Nil =>
                                 <<Command("retitle", l, c.title)>> \in Seq(Calls)
    BY <2>4, <2>5, PlainCalls, ShortScripts DEF AddMembers
  <2>8. c.label \in Made => c.label \in LabelIds
    BY DEF Made
  <2> HIDE DEF c
  <2>9. calls \in Seq(Calls)
    <3>1. CASE creates
      BY <2>3, <2>6, <2>7, <3>1, ShortScripts
    <3>2. CASE ~creates
      BY <2>6, <2>7, <2>8, <3>2, ShortScripts
    <3> QED
      BY <3>1, <3>2
  <2>10. DocsOK'
    <3>1. UNCHANGED <<docs, served>> /\ ids' \in 0..MaxLabels
      BY <2>1, <2>3 DEF Handle, TypeOK
    <3> QED
      BY <3>1 DEF docs, TypeOK, DocsOK
  <2> HIDE DEF calls, creates
  <2> QED
    BY <2>1, <2>2, <2>3, <2>9, <2>10, DecisionTyped
<1> QED
  BY <1>a, <1>b, <1>c, <1>d, <1>e, <1>f, <1>g, <1>h DEF Decisions

(* What a worker runs once it has decided.                                 *)
Runs(w) ==
  \/ TitleExists(w) \/ InsertLabel(w) \/ Enlist(w) \/ List(w) \/ Delist(w)
  \/ Unlist(w) \/ Delete(w) \/ Retitle(w) \/ AnswerRequest(w)
  \/ TagOrUntag(w)

LEMMA LabelTyped ==
  ASSUME NEW d \in LabelDocs
  PROVE  /\ d.members \in SUBSET Accounts /\ d.nMembers \in Int
         /\ \A t \in Titles : [d EXCEPT !.title = t] \in LabelDocs
  BY DEF LabelDocs

LEMMA MembersTyped ==
  ASSUME NEW d \in LabelDocs, NEW S \in SUBSET Accounts, NEW n \in Int
  PROVE  [d EXCEPT !.members = S, !.nMembers = n] \in LabelDocs
  BY DEF LabelDocs

LEMMA Counting ==
  ASSUME LabelsAssumption, NEW S \in SUBSET Accounts
  PROVE  IsFiniteSet(S) /\ Cardinality(S) \in Nat
  BY FS_Subset, FS_CardinalityType DEF LabelsAssumption

LEMMA RunTyped ==
  ASSUME LabelsAssumption, TypeOK, Room, NEW w \in Workers, Runs(w)
  PROVE  TypeOK' /\ Room'
<1> DEFINE l == Now(w).id
           arg == Now(w).arg
<1>1. /\ script[w] # <<>> /\ Now(w).do \notin {"get", "get_asked", "decide"}
      /\ copy' = copy /\ ids' = ids /\ served' = served
  BY DEF Runs, TitleExists, InsertLabel, Enlist, List, Delist, Unlist, Delete,
     Retitle, AnswerRequest, TagOrUntag, Ready, Now
<1>2. Now(w) \in Calls
  BY <1>1, AtCall
<1>3. <<>> \in Seq(Calls)
  BY ShortScripts
<1>4. DocsOK
  BY DEF TypeOK, DocsOK
<1>5. \A d \in LabelDocs \cup {Nil} :
        label' = [label EXCEPT ![l] = d]
          /\ UNCHANGED <<listing, asked, tagged>> => DocsOK'
  BY <1>1, <1>4 DEF DocsOK
<1>6. UNCHANGED docs => DocsOK'
  BY <1>1, <1>4 DEF DocsOK, docs
<1>7. \A k \in Made : k \in LabelIds /\ label[k] \in LabelDocs
  BY DEF Made, TypeOK
<1> HIDE DEF l, arg
<1>a. CASE TitleExists(w)
  BY <1>a, <1>1, <1>3, <1>6, CallTyped DEF TitleExists, Proceed
<1>b. CASE InsertLabel(w)
  <2>1. /\ l \in LabelIds /\ arg[1] \in Titles \cup {Nil} /\ arg[2] \in BOOLEAN
        /\ arg[3] \in AskedIds \cup {Nil}
    BY <1>b, <1>2, CallFields DEF InsertLabel, Ready, Now, l, arg
  <2>2. [title |-> arg[1], public |-> arg[2], members |-> {}, nMembers |-> 0]
          \in LabelDocs
    BY <2>1 DEF LabelDocs
  <2>3. DocsOK'
    <3>1. CASE TitleUsed(arg[1], Made)
      BY <1>b, <1>6, <3>1 DEF InsertLabel, arg, docs
    <3>2. CASE ~TitleUsed(arg[1], Made)
      BY <1>b, <1>5, <2>2, <3>2 DEF InsertLabel, l, arg
    <3> QED
      BY <3>1, <3>2
  <2>4. Command("list", l, {Public}) \in Calls
    BY <2>1, PlainCalls
  <2>5. (IF arg[2] THEN <<Command("list", l, {Public})>> ELSE <<>>)
          \in Seq(Calls)
    BY <2>4, ShortScripts
  <2>6. (IF arg[3] = Nil THEN <<>> ELSE Answer(arg[3], "failed")) \in Seq(Calls)
    <3>1. \A i \in AskedIds : Command("answer", i, "failed") \in Calls
      BY AnswerCall DEF Statuses
    <3> QED
      BY <1>3, <2>1, <3>1, ShortScripts DEF Answer
  <2>7. CASE TitleUsed(arg[1], Made)
    BY <1>b, <1>1, <2>3, <2>6, <2>7, CallTyped DEF InsertLabel, arg
  <2>8. CASE ~TitleUsed(arg[1], Made)
    BY <1>b, <1>1, <2>3, <2>5, <2>8, CallTyped DEF InsertLabel, l, arg
  <2> QED
    BY <2>7, <2>8
<1>c. CASE Enlist(w)
  <2>1. l \in LabelIds /\ arg \in SUBSET Accounts
    BY <1>c, <1>2, CallFields DEF Enlist, Ready, Now, l, arg
  <2>2. CASE l \in Made /\ label[l].members \cap arg = {}
    <3>1. [label[l] EXCEPT !.members = @ \cup arg,
                           !.nMembers = @ + Cardinality(arg)] \in LabelDocs
      <4>1. label[l] \in LabelDocs /\ Cardinality(arg) \in Nat
        BY <1>7, <2>1, <2>2, Counting
      <4>2. /\ label[l].members \cup arg \in SUBSET Accounts
            /\ label[l].nMembers + Cardinality(arg) \in Int
        BY <2>1, <4>1, LabelTyped
      <4> QED
        BY ONLY <4>1, <4>2, MembersTyped
    <3>2. label' = [label EXCEPT ![l] =
            [label[l] EXCEPT !.members = @ \cup arg,
                             !.nMembers = @ + Cardinality(arg)]]
      BY <1>c, <2>2 DEF Enlist, l, arg, TypeOK
    <3>3. DocsOK'
      BY <1>c, <1>5, <3>1, <3>2 DEF Enlist
    <3>4. <<Command("list", l, arg)>> \in Seq(Calls)
      BY <2>1, PlainCalls, ShortScripts
    <3> QED
      BY <1>c, <1>1, <2>2, <3>3, <3>4, CallTyped DEF Enlist, l, arg
  <2>3. CASE ~(l \in Made /\ label[l].members \cap arg = {})
    <3>1. UNCHANGED docs /\ Proceed(w)
      BY <1>c, <2>3 DEF Enlist, docs, l, arg
    <3> QED
      BY <1>1, <1>3, <1>6, <3>1, CallTyped DEF Proceed
  <2> QED
    BY <2>2, <2>3
<1>d. CASE List(w)
  <2>1. l \in LabelIds /\ arg \in SUBSET (Accounts \cup {Public})
    BY <1>d, <1>2, CallFields DEF List, Ready, Now, l, arg
  <2>2. CASE arg = {}
    <3>1. UNCHANGED docs /\ Proceed(w)
      BY <1>d, <2>2 DEF List, docs, l, arg
    <3> QED
      BY <1>1, <1>3, <1>6, <3>1, CallTyped DEF Proceed
  <2>3. CASE arg # {}
    <3>1. PICK a \in arg :
            /\ listing' = [listing EXCEPT ![a] =
                 IF l \in @.labels THEN @
                 ELSE [labels |-> @.labels \cup {l}, qty |-> @.qty + 1]]
            /\ Become(w, IF arg = {a} THEN <<>>
                         ELSE <<Command("list", l, arg \ {a})>>)
      BY <1>d, <2>3 DEF List, l, arg
    <3>2. (IF arg = {a} THEN <<>> ELSE <<Command("list", l, arg \ {a})>>)
            \in Seq(Calls)
      BY <2>1, PlainCalls, ShortScripts
    <3>3. listing' \in [Accounts \cup {Public} -> Lists]
      BY <2>1, <3>1 DEF TypeOK, Lists
    <3>4. DocsOK'
      BY <1>d, <1>1, <1>4, <3>3 DEF List, DocsOK
    <3> QED
      BY <1>1, <3>1, <3>2, <3>4, CallTyped
  <2> QED
    BY <2>2, <2>3
<1>e. CASE Delist(w)
  <2>1. l \in LabelIds /\ arg \in Accounts
    BY <1>e, <1>2, CallFields DEF Delist, Ready, Now, l, arg
  <2>2. CASE l \in Made /\ arg \in label[l].members
    <3>1. [label[l] EXCEPT !.members = @ \ {arg}, !.nMembers = @ - 1]
            \in LabelDocs
      <4>1. label[l] \in LabelDocs
        BY <1>7, <2>2
      <4>2. /\ label[l].members \ {arg} \in SUBSET Accounts
            /\ label[l].nMembers - 1 \in Int
        BY <4>1, LabelTyped
      <4> QED
        BY ONLY <4>1, <4>2, MembersTyped
    <3>2. label' = [label EXCEPT ![l] =
            [label[l] EXCEPT !.members = @ \ {arg}, !.nMembers = @ - 1]]
      BY <1>e, <2>2 DEF Delist, l, arg, TypeOK
    <3>3. DocsOK'
      BY <1>e, <1>5, <3>1, <3>2 DEF Delist
    <3>4. <<Command("unlist", l, {arg})>> \in Seq(Calls)
      BY <2>1, PlainCalls, ShortScripts
    <3> QED
      BY <1>e, <1>1, <2>2, <3>3, <3>4, CallTyped DEF Delist, l, arg
  <2>3. CASE ~(l \in Made /\ arg \in label[l].members)
    <3>1. UNCHANGED docs /\ Return(w)
      BY <1>e, <2>3 DEF Delist, docs, l, arg
    <3> QED
      BY <1>1, <1>3, <1>6, <3>1, CallTyped
  <2> QED
    BY <2>2, <2>3
<1>f. CASE Unlist(w)
  <2>1. listing' \in [Accounts \cup {Public} -> Lists]
    BY <1>f DEF Unlist, Without, TypeOK, Lists
  <2>2. DocsOK'
    BY <1>f, <1>1, <1>4, <2>1 DEF Unlist, DocsOK
  <2> QED
    BY <1>f, <1>1, <1>3, <2>2, CallTyped DEF Unlist, Proceed
<1>g. CASE Delete(w)
  <2>1. l \in LabelIds
    BY <1>g, <1>2, CallFields DEF Delete, Ready, Now, l
  <2>2. CASE l \in Made
    <3>1. DocsOK'
      BY <1>g, <1>5, <2>2 DEF Delete, l
    <3>2. DOMAIN listing \in SUBSET (Accounts \cup {Public})
      BY DEF TypeOK
    <3>3. <<Command("untag", l, Nil), Command("unlist", l, DOMAIN listing)>>
            \in Seq(Calls)
      BY <2>1, <3>2, PlainCalls, ShortScripts
    <3> QED
      BY <1>g, <1>1, <2>2, <3>1, <3>3, CallTyped DEF Delete, l
  <2>3. CASE l \notin Made
    <3>1. UNCHANGED docs /\ Return(w)
      BY <1>g, <2>3 DEF Delete, docs, l
    <3> QED
      BY <1>1, <1>3, <1>6, <3>1, CallTyped
  <2> QED
    BY <2>2, <2>3
<1>h. CASE Retitle(w)
  <2>1. l \in LabelIds /\ arg \in Titles
    BY <1>h, <1>2, CallFields DEF Retitle, Ready, Now, l, arg
  <2> DEFINE free == l \in Made /\ ~TitleUsed(arg, Made \ {l})
  <2>2. CASE free
    <3>1. [label[l] EXCEPT !.title = arg] \in LabelDocs
      BY <1>7, <2>1, <2>2, LabelTyped
    <3>2. label' = [label EXCEPT ![l] = [label[l] EXCEPT !.title = arg]]
      BY <1>h, <2>2 DEF Retitle, l, arg, TypeOK
    <3>3. DocsOK'
      BY <1>h, <1>5, <3>1, <3>2 DEF Retitle
    <3> QED
      BY <1>h, <1>1, <1>3, <3>3, CallTyped DEF Retitle, Proceed
  <2>3. CASE ~free
    <3>1. UNCHANGED docs /\ Proceed(w)
      BY <1>h, <2>3 DEF Retitle, docs, l, arg
    <3> QED
      BY <1>1, <1>3, <1>6, <3>1, CallTyped DEF Proceed
  <2> QED
    BY <2>2, <2>3
<1>i. CASE AnswerRequest(w)
  <2>1. l \in AskedIds /\ arg \in Statuses
    BY <1>i, <1>2, CallFields DEF AnswerRequest, Ready, Now, l, arg
  <2>2. asked' \in [AskedIds -> AskedDocs \cup {Nil}]
    <3>1. asked[l] # Nil => [asked[l] EXCEPT !.status = arg] \in AskedDocs
      BY <2>1 DEF TypeOK, AskedDocs
    <3>2. asked[l] # Nil =>
            asked' = [asked EXCEPT ![l] = [asked[l] EXCEPT !.status = arg]]
      BY <1>i DEF AnswerRequest, TypeOK, l, arg
    <3>3. asked[l] = Nil => asked' = asked
      BY <1>i DEF AnswerRequest, l
    <3> QED
      BY <2>1, <3>1, <3>2, <3>3 DEF TypeOK
  <2>3. DocsOK'
    BY <1>i, <1>1, <1>4, <2>2 DEF AnswerRequest, DocsOK
  <2> QED
    BY <1>i, <1>1, <1>3, <2>3, CallTyped DEF AnswerRequest, Proceed
<1>j. CASE TagOrUntag(w)
  <2>1. l \in LabelIds
    BY <1>j, <1>2, CallFields DEF TagOrUntag, Ready, Now, l
  <2>2. tagged' \subseteq LabelIds
    BY <1>j, <2>1 DEF TagOrUntag, TypeOK, l
  <2>3. DocsOK'
    BY <1>j, <1>1, <1>4, <2>2 DEF TagOrUntag, DocsOK
  <2> QED
    BY <1>j, <1>1, <1>3, <2>3, CallTyped DEF TagOrUntag, Proceed
<1> QED
  BY <1>a, <1>b, <1>c, <1>d, <1>e, <1>f, <1>g, <1>h, <1>i, <1>j DEF Runs

LEMMA StepTypeOK ==
  ASSUME LabelsAssumption, TypeOK, Room, [Next \/ Stop]_vars
  PROVE  TypeOK' /\ Room'
<1>1. CASE UNCHANGED vars
  BY <1>1 DEF vars, docs, TypeOK, Room, Calls, Approving, Receives, Found
<1>2. CASE Next
  <2>1. PICK w \in Workers :
          \/ \E r \in Requests :
               CreateLabel(w, r) \/ Receive(w, r) \/ AskForLabel(w, r)
          \/ GetLabel(w) \/ Decisions(w) \/ Runs(w)
    BY <1>2 DEF Next, Serve, Decisions, Runs
  <2> QED
    BY <2>1, RequestTyped, GetTyped, HandleTyped, RunTyped
<1> QED
  BY <1>1, <1>2 DEF Stop

LEMMA InitTypeOK ==
  ASSUME LabelsAssumption, Init
  PROVE  TypeOK /\ Room
<1>1. Approving = {}
  BY OpeningHeads DEF Approving, Init
<1>2. Cardinality(Approving) = 0
  BY <1>1, FS_EmptySet
<1>3. Room
  BY <1>2, IdsTyped DEF Room, Init
<1>4. TypeOK
  BY ShortScripts, IdsTyped DEF Init, TypeOK, Lists
<1> QED
  BY <1>3, <1>4

(* Whatever is asked, and however handlers interleave: labels, lists and   *)
(* requests have their types, no id is given beyond the bound, and a       *)
(* worker has a handler's opening before it, its decision on the document  *)
(* it found, or calls with arguments of their types.                       *)
THEOREM TypeCorrect ==
  LabelsAssumption /\ Spec => []TypeOK
<1> SUFFICES ASSUME LabelsAssumption
             PROVE  Spec => []TypeOK
  OBVIOUS
<1>1. Init => TypeOK /\ Room
  BY InitTypeOK
<1>2. TypeOK /\ Room /\ [Next \/ Stop]_vars => TypeOK' /\ Room'
  BY StepTypeOK
<1> QED
  BY <1>1, <1>2, PTL DEF Spec

-----------------------------------------------------------------------------
(* Counters.                                                               *)

LabelCounts(d) == d.nMembers = Cardinality(d.members)
ListCounts(e) == e.qty = Cardinality(e.labels)

LEMMA ListFinite ==
  ASSUME LabelsAssumption, NEW S \in SUBSET LabelIds
  PROVE  IsFiniteSet(S) /\ Cardinality(S) \in Nat
<1>1. IsFiniteSet(LabelIds)
  BY FS_Interval DEF LabelIds, LabelsAssumption
<1> QED
  BY <1>1, FS_Subset, FS_CardinalityType

(* Members that are added are none yet, and one that is removed was one.   *)
LEMMA MembersCounted ==
  ASSUME LabelsAssumption, NEW d \in LabelDocs, LabelCounts(d)
  PROVE  /\ \A t : LabelCounts([d EXCEPT !.title = t])
         /\ \A S \in SUBSET Accounts : d.members \cap S = {} =>
              LabelCounts([d EXCEPT !.members = @ \cup S,
                                    !.nMembers = @ + Cardinality(S)])
         /\ \A a \in d.members :
              LabelCounts([d EXCEPT !.members = @ \ {a}, !.nMembers = @ - 1])
<1>1. d.members \in SUBSET Accounts
  BY DEF LabelDocs
<1>2. \A t : LabelCounts([d EXCEPT !.title = t])
  BY DEF LabelCounts, LabelDocs
<1>3. ASSUME NEW S \in SUBSET Accounts, d.members \cap S = {}
      PROVE  LabelCounts([d EXCEPT !.members = @ \cup S,
                                   !.nMembers = @ + Cardinality(S)])
  <2>1. Cardinality(d.members \cup S) = Cardinality(d.members) + Cardinality(S)
    <3>1. /\ IsFiniteSet(d.members) /\ Cardinality(d.members) \in Nat
          /\ IsFiniteSet(S) /\ Cardinality(S) \in Nat
      BY <1>1, Counting
    <3>2. Cardinality(d.members \cup S) =
            Cardinality(d.members) + Cardinality(S)
              - Cardinality(d.members \cap S)
      BY <3>1, FS_Union
    <3>3. Cardinality(d.members \cap S) = 0
      BY <1>3, FS_EmptySet
    <3> QED
      BY <3>1, <3>2, <3>3
  <2> QED
    BY <2>1 DEF LabelCounts, LabelDocs
<1>4. ASSUME NEW a \in d.members
      PROVE  LabelCounts([d EXCEPT !.members = @ \ {a}, !.nMembers = @ - 1])
  <2>1. Cardinality(d.members \ {a}) = Cardinality(d.members) - 1
    BY <1>1, <1>4, Counting, FS_RemoveElement
  <2> QED
    BY <2>1 DEF LabelCounts, LabelDocs
<1> QED
  BY <1>2, <1>3, <1>4

LEMMA ListsCounted ==
  ASSUME LabelsAssumption, NEW e \in Lists, ListCounts(e)
  PROVE  /\ \A l : l \notin e.labels =>
              ListCounts([labels |-> e.labels \cup {l}, qty |-> e.qty + 1])
         /\ \A l \in e.labels :
              ListCounts([labels |-> e.labels \ {l}, qty |-> e.qty - 1])
<1>1. IsFiniteSet(e.labels)
  BY ListFinite DEF Lists
<1>2. \A l : l \notin e.labels =>
        Cardinality(e.labels \cup {l}) = Cardinality(e.labels) + 1
  BY <1>1, FS_AddElement
<1>3. \A l \in e.labels :
        Cardinality(e.labels \ {l}) = Cardinality(e.labels) - 1
  BY <1>1, FS_RemoveElement
<1> QED
  BY <1>2, <1>3 DEF ListCounts

LEMMA StepCounted ==
  ASSUME LabelsAssumption, TypeOK, LabelsCounted, [Next \/ Stop]_vars
  PROVE  LabelsCounted'
<1> DEFINE Labelled == \A k \in Made : LabelCounts(label[k])
           Listed == \A a \in DOMAIN listing : ListCounts(listing[a])
<1>1. Labelled /\ Listed /\ (Labelled' /\ Listed' => LabelsCounted')
  BY DEF LabelsCounted, LabelCounts, ListCounts
<1>2. /\ \A k \in Made : k \in LabelIds /\ label[k] \in LabelDocs
      /\ \A a \in DOMAIN listing : listing[a] \in Lists
      /\ DOMAIN label = LabelIds
  BY DEF Made, TypeOK
<1>3. label' = label => Labelled'
  BY <1>1 DEF Made
<1>4. listing' = listing => Listed'
  BY <1>1
<1>5. ASSUME NEW k, NEW d, label' = [label EXCEPT ![k] = d],
             d = Nil \/ LabelCounts(d)
      PROVE  Labelled'
  <2>1. ASSUME NEW m \in Made'
        PROVE  LabelCounts(label'[m])
    <3>1. CASE m = k
      BY <1>2, <1>5, <2>1, <3>1 DEF Made
    <3>2. CASE m # k
      BY <1>1, <1>2, <1>5, <2>1, <3>2 DEF Made
    <3> QED
      BY <3>1, <3>2
  <2> QED
    BY <2>1
<1> HIDE DEF Labelled, Listed
<1>6. CASE UNCHANGED docs
  BY <1>1, <1>3, <1>4, <1>6 DEF docs
<1>7. ASSUME NEW w \in Workers, Runs(w)
      PROVE  Labelled' /\ Listed'
  <2> DEFINE l == Now(w).id
             arg == Now(w).arg
  <2>0. Now(w) \in Calls
    BY <1>7, AtCall DEF Runs, TitleExists, InsertLabel, Enlist, List, Delist,
       Unlist, Delete, Retitle, AnswerRequest, TagOrUntag, Ready, Now
  <2> HIDE DEF l, arg
  <2>a. CASE InsertLabel(w)
    <3> DEFINE d == [title |-> arg[1], public |-> arg[2], members |-> {},
                     nMembers |-> 0]
    <3>1. /\ label' = [label EXCEPT ![l] = d] \/ label' = label
          /\ listing' = listing
      BY <2>a DEF InsertLabel, l, arg
    <3>2. LabelCounts(d)
      BY FS_EmptySet DEF LabelCounts
    <3> HIDE DEF d
    <3> QED
      BY <1>3, <1>4, <1>5, <3>1, <3>2
  <2>b. CASE Enlist(w)
    <3>1. arg \in SUBSET Accounts
      BY <2>b, <2>0, CallFields DEF Enlist, Ready, Now, arg
    <3>2. CASE l \in Made /\ label[l].members \cap arg = {}
      <4> DEFINE d == [label[l] EXCEPT !.members = @ \cup arg,
                                       !.nMembers = @ + Cardinality(arg)]
      <4>1. label' = [label EXCEPT ![l] = d] /\ listing' = listing
        BY <2>b, <3>2, <1>2 DEF Enlist, l, arg
      <4>2. LabelCounts(d)
        BY <1>1, <1>2, <3>1, <3>2, MembersCounted DEF Labelled
      <4> HIDE DEF d
      <4> QED
        BY <1>4, <1>5, <4>1, <4>2
    <3>3. CASE ~(l \in Made /\ label[l].members \cap arg = {})
      BY <1>3, <1>4, <2>b, <3>3 DEF Enlist, l, arg
    <3> QED
      BY <3>2, <3>3
  <2>c. CASE List(w)
    <3>1. label' = label
      BY <2>c DEF List
    <3>2. CASE UNCHANGED listing
      BY <1>3, <1>4, <3>1, <3>2
    <3>3. CASE listing' # listing
      <4>1. PICK a \in arg :
              listing' = [listing EXCEPT ![a] =
                 IF l \in @.labels THEN @
                 ELSE [labels |-> @.labels \cup {l}, qty |-> @.qty + 1]]
        BY <2>c, <3>3 DEF List, l, arg
      <4>2. ASSUME NEW b \in DOMAIN listing
            PROVE  ListCounts(listing'[b])
        <5>1. listing[b] \in Lists /\ ListCounts(listing[b])
          BY <1>1, <1>2 DEF Listed
        <5>2. \/ listing'[b] = listing[b]
              \/ /\ l \notin listing[b].labels
                 /\ listing'[b] = [labels |-> listing[b].labels \cup {l},
                                   qty |-> listing[b].qty + 1]
          BY <4>1
        <5> QED
          BY <5>1, <5>2, ListsCounted
      <4> QED
        BY <1>3, <3>1, <4>1, <4>2 DEF Listed
    <3> QED
      BY <3>2, <3>3
  <2>d. CASE Delist(w)
    <3>2. CASE l \in Made /\ arg \in label[l].members
      <4> DEFINE d == [label[l] EXCEPT !.members = @ \ {arg},
                                       !.nMembers = @ - 1]
      <4>1. label' = [label EXCEPT ![l] = d] /\ listing' = listing
        BY <2>d, <3>2, <1>2 DEF Delist, l, arg
      <4>2. LabelCounts(d)
        BY <1>1, <1>2, <3>2, MembersCounted DEF Labelled
      <4> HIDE DEF d
      <4> QED
        BY <1>4, <1>5, <4>1, <4>2
    <3>3. CASE ~(l \in Made /\ arg \in label[l].members)
      BY <1>3, <1>4, <2>d, <3>3 DEF Delist, l, arg
    <3> QED
      BY <3>2, <3>3
  <2>e. CASE Unlist(w)
    <3>1. label' = label /\ listing' = Without(arg, l)
      BY <2>e DEF Unlist, l, arg
    <3>2. ASSUME NEW b \in DOMAIN listing
          PROVE  ListCounts(listing'[b])
      <4>1. listing[b] \in Lists /\ ListCounts(listing[b])
        BY <1>1, <1>2 DEF Listed
      <4>2. \/ listing'[b] = listing[b]
            \/ /\ l \in listing[b].labels
               /\ listing'[b] = [labels |-> listing[b].labels \ {l},
                                 qty |-> listing[b].qty - 1]
        BY <3>1 DEF Without
      <4> QED
        BY <4>1, <4>2, ListsCounted
    <3> QED
      BY <1>3, <3>1, <3>2 DEF Listed, Without
  <2>f. CASE Delete(w)
    <3>1. /\ label' = [label EXCEPT ![l] = Nil] \/ label' = label
          /\ listing' = listing
      BY <2>f DEF Delete, l
    <3>2. label' = [label EXCEPT ![l] = Nil] => Labelled'
      BY <1>5
    <3> QED
      BY <1>3, <1>4, <3>1, <3>2
  <2>g. CASE Retitle(w)
    <3>1. listing' = listing
      BY <2>g DEF Retitle
    <3> DEFINE free == l \in Made /\ ~TitleUsed(arg, Made \ {l})
    <3>2. CASE free
      <4> DEFINE d == [label[l] EXCEPT !.title = arg]
      <4>1. label' = [label EXCEPT ![l] = d]
        BY <2>g, <3>2, <1>2 DEF Retitle, l, arg
      <4>2. LabelCounts(d)
        BY <1>1, <1>2, <3>2, MembersCounted DEF Labelled
      <4> HIDE DEF d
      <4> QED
        BY <1>4, <1>5, <3>1, <4>1, <4>2
    <3>3. CASE ~free
      BY <1>3, <1>4, <2>g, <3>1, <3>3 DEF Retitle, l, arg
    <3> QED
      BY <3>2, <3>3
  <2>h. CASE TitleExists(w) \/ AnswerRequest(w) \/ TagOrUntag(w)
    BY <1>3, <1>4, <2>h DEF TitleExists, AnswerRequest, TagOrUntag, docs
  <2> QED
    BY <1>7, <2>a, <2>b, <2>c, <2>d, <2>e, <2>f, <2>g, <2>h DEF Runs
<1>8. CASE Next /\ ~UNCHANGED docs
  <2>1. PICK w \in Workers :
          Runs(w) \/ \E r \in Requests : AskForLabel(w, r)
    BY <1>8 DEF Next, Serve, Runs, CreateLabel, Receive, GetLabel, AddMember,
       RemoveMember, UpdateLabel, RemoveLabel, CancelRequest, RejectRequest,
       ApproveRequest, TagPost, Handle
  <2>2. CASE \E r \in Requests : AskForLabel(w, r)
    BY <1>1, <1>3, <1>4, <2>2 DEF AskForLabel
  <2> QED
    BY <1>1, <1>7, <2>1, <2>2
<1> QED
  BY <1>1, <1>6, <1>8 DEF Stop, vars

(* However handlers interleave, and also when several add and remove the   *)
(* same member: a label counts its members, and an account's list (and the *)
(* public one) its labels.                                                 *)
THEOREM CountsKept ==
  LabelsAssumption /\ Spec => []LabelsCounted
<1> SUFFICES ASSUME LabelsAssumption
             PROVE  Spec => []LabelsCounted
  OBVIOUS
<1>1. Init => LabelsCounted
  BY FS_EmptySet DEF Init, LabelsCounted, Made
<1>2. TypeOK /\ LabelsCounted /\ [Next \/ Stop]_vars => LabelsCounted'
  BY StepCounted
<1> QED
  BY <1>1, <1>2, TypeCorrect, PTL DEF Spec

-----------------------------------------------------------------------------
(* Agreement, with one worker.                                             *)

OneWorker == \E w : Workers = {w}

Shown == Accounts \cup {Public}

(* The label is one of the account's, or a public one; the list says so.   *)
Belongs(t, l) ==
  l \in Made /\ IF t = Public THEN label[l].public ELSE t \in label[l].members
Agree(t, l) == l \in listing[t].labels <=> Belongs(t, l)

(* Lists agree with labels, but those of S with the label k.               *)
AgreeBut(S, k) ==
  \A t \in Shown, l \in LabelIds : (t \in S /\ l = k) \/ Agree(t, l)
AllAgree == AgreeBut({}, Nil)

TagsBut(S) == tagged \subseteq Made \cup S

Plain(s) ==
  \A i \in 1..Len(s) :
    s[i].do \notin {"insert", "list", "unlist", "tag", "untag"}

(* The lists still to be changed are those that do not agree.              *)
Listing(c) ==
  /\ c.do = "list" /\ \A t \in c.arg : Belongs(t, c.id)
  /\ AgreeBut(c.arg, c.id)
Unlisting(c) ==
  /\ c.do = "unlist" /\ \A t \in c.arg : ~Belongs(t, c.id)
  /\ AgreeBut(c.arg, c.id)
Inserting(c) ==
  c.do = "insert" /\ c.id \notin Made /\ c.id <= ids /\ AllAgree
Tagging(c) == c.do = "tag" /\ c.id \in Made /\ AllAgree

(* Where the calls s of the worker have got to.                            *)
Idles(s) == Plain(s) /\ AllAgree /\ TagsBut({})
Finishes(s) ==
  /\ s # <<>> /\ Plain(Tail(s)) /\ TagsBut({})
  /\ \/ Listing(Head(s)) \/ Unlisting(Head(s)) \/ Inserting(Head(s))
     \/ Tagging(Head(s))
Creates(s) ==
  /\ s # <<>> /\ Head(s).do = "lookup" /\ Tail(s) # <<>>
  /\ Plain(Tail(Tail(s))) /\ Inserting(Head(Tail(s))) /\ TagsBut({})
Deletes(s) ==
  /\ s # <<>> /\ Head(s).do = "untag" /\ TagsBut({Head(s).id})
  /\ Tail(s) # <<>> /\ Plain(Tail(Tail(s))) /\ Unlisting(Head(Tail(s)))

(* Nobody has been given an id beyond the count; what is about to be       *)
(* tagged was found.                                                       *)
Fresh == \A l \in Made : l <= ids
FoundLabel(s) ==
  \A r \in Receives : s = <<Decide(r)>> /\ r.op = "tag" => r.id \in Made

Phase(s) == Idles(s) \/ Finishes(s) \/ Creates(s) \/ Deletes(s)

AgreeInv ==
  /\ Fresh
  /\ \A w \in Workers : FoundLabel(script[w]) /\ Phase(script[w])

LEMMA PlainTail ==
  ASSUME NEW S, NEW s \in Seq(S), s # <<>>, Plain(s)
  PROVE  /\ Plain(Tail(s))
         /\ Head(s).do \notin {"insert", "list", "unlist", "tag", "untag"}
BY SMT DEF Plain

LEMMA PlainNone == Plain(<<>>)
BY SMT DEF Plain

LEMMA PlainMore ==
  ASSUME NEW S, NEW t \in Seq(S), Plain(t), NEW c,
         c.do \notin {"insert", "list", "unlist", "tag", "untag"}
  PROVE  Plain(<<c>> \o t)
<1> DEFINE s == <<c>> \o t
<1>1. /\ Len(s) = Len(t) + 1 /\ Len(t) \in Nat /\ s[1] = c
      /\ \A i \in 2..Len(s) : s[i] = t[i - 1] /\ i - 1 \in 1..Len(t)
  BY SMT
<1> HIDE DEF s
<1>2. \A i \in 1..Len(s) : i = 1 \/ i \in 2..Len(s)
  BY <1>1
<1>3. Plain(s)
  BY <1>1, <1>2 DEF Plain
<1> QED
  BY <1>3 DEF s

LEMMA Ahead ==
  ASSUME NEW S, NEW t \in Seq(S), NEW c \in S
  PROVE  /\ <<>> \o t = t
         /\ <<c>> \o t # <<>> /\ Head(<<c>> \o t) = c /\ Tail(<<c>> \o t) = t
  BY SMT

LEMMA TwoAhead ==
  ASSUME NEW S, NEW t \in Seq(S), NEW c \in S, NEW d \in S,
         NEW s, s = <<c, d>> \o t
  PROVE  /\ s # <<>> /\ Head(s) = c /\ Tail(s) # <<>>
         /\ Head(Tail(s)) = d /\ Tail(Tail(s)) = t
<1>1. /\ s \in Seq(S) /\ Len(s) = Len(t) + 2 /\ Len(t) \in Nat
      /\ s[1] = c /\ s[2] = d
      /\ \A i \in 3..Len(s) : s[i] = t[i - 2]
  BY SMT
<1>2. /\ Tail(s) \in Seq(S) /\ Len(Tail(s)) = Len(t) + 1
      /\ \A i \in 1..Len(Tail(s)) : Tail(s)[i] = s[i + 1]
      /\ s # <<>> /\ Head(s) = c
  BY ONLY <1>1, SMT
<1>3. /\ Tail(Tail(s)) \in Seq(S) /\ Len(Tail(Tail(s))) = Len(t)
      /\ \A i \in 1..Len(t) : Tail(Tail(s))[i] = Tail(s)[i + 1]
      /\ Tail(s) # <<>> /\ Head(Tail(s)) = Tail(s)[1]
  <2>1. Tail(s) # <<>>
    <3>1. Len(Tail(s)) # 0
      BY ONLY <1>1, <1>2, SMT
    <3> QED
      BY ONLY <3>1, EmptySeq
  <2> QED
    BY ONLY <1>1, <1>2, <2>1, HeadTailProperties, SMT
<1>4. Head(Tail(s)) = d
  BY ONLY <1>1, <1>2, <1>3, SMT
<1>5. ASSUME NEW i \in 1..Len(t)
      PROVE  Tail(Tail(s))[i] = t[i]
  BY ONLY <1>1, <1>2, <1>3, SMT
<1>6. Tail(Tail(s)) = t
  BY ONLY <1>1, <1>3, <1>5, SeqEqual
<1> QED
  BY <1>1, <1>2, <1>3, <1>4, <1>6

(* A step that leaves the worker with s.                                   *)
LEMMA OneSteps ==
  ASSUME OneWorker, TypeOK, NEW w \in Workers, NEW s,
         script' = [script EXCEPT ![w] = s], Fresh', FoundLabel(s)', Phase(s)'
  PROVE  AgreeInv'
<1>1. script'[w] = s /\ \A v \in Workers : v = w
  BY DEF TypeOK, OneWorker
<1> QED
  BY <1>1 DEF AgreeInv

LEMMA CallsFind ==
  ASSUME NEW s \in Seq(Calls)
  PROVE  FoundLabel(s)'
BY CallsOnly DEF FoundLabel, Receives

(* Where the worker is, by the call before it.                             *)
LEMMA PhaseOf ==
  ASSUME TypeOK, AgreeInv, NEW w \in Workers, script[w] # <<>>
  PROVE  LET c == Now(w)
             t == Tail(script[w])
         IN /\ c.do = "insert" => Inserting(c) /\ Plain(t) /\ TagsBut({})
            /\ c.do = "list" => Listing(c) /\ Plain(t) /\ TagsBut({})
            /\ c.do = "unlist" => Unlisting(c) /\ Plain(t) /\ TagsBut({})
            /\ c.do = "tag" => Tagging(c) /\ Plain(t) /\ TagsBut({})
            /\ c.do = "untag" =>
                 /\ TagsBut({c.id}) /\ t # <<>>
                 /\ Unlisting(Head(t)) /\ Plain(Tail(t))
            /\ c.do = "lookup" => Idles(script[w]) \/ Creates(script[w])
            /\ c.do \notin {"insert", "list", "unlist", "tag", "untag",
                            "lookup"} =>
                 Idles(script[w])
<1>1. Phase(script[w])
  BY DEF AgreeInv
<1>2. Plain(script[w]) =>
        Now(w).do \notin {"insert", "list", "unlist", "tag", "untag"}
  <2>1. \E S : script[w] \in Seq(S)
    <3>1. CASE script[w] \in Seq(Calls)
      BY <3>1
    <3>2. ASSUME NEW r, script[w] = Opening(r)
          PROVE  script[w] \in Seq({script[w][1], script[w][2]})
      BY SMT, <3>2 DEF Opening
    <3>3. ASSUME NEW r, script[w] = <<Decide(r)>>
          PROVE  script[w] \in Seq({Decide(r)})
      BY SMT, <3>3
    <3> QED
      BY <3>1, <3>2, <3>3 DEF TypeOK
  <2> QED
    BY <2>1, PlainTail DEF Now
<1> QED
  BY <1>1, <1>2 DEF Phase, Idles, Finishes, Creates, Deletes, Now, Inserting,
     Listing, Unlisting, Tagging

-----------------------------------------------------------------------------
(* What the calls do to labels and lists.                                  *)

LEMMA PublicApart ==
  ASSUME LabelsAssumption
  PROVE  /\ Public \notin Accounts /\ \A a \in Accounts : a # Public
         /\ \A t \in Shown : t = Public \/ t \in Accounts
  BY DEF LabelsAssumption, Shown

(* Nothing that the phase is about changes.                                *)
LEMMA SamePhase ==
  ASSUME UNCHANGED <<label, listing, tagged>>, ids \in Int, ids' \in Int,
         ids <= ids', Fresh, \A l \in Made : l \in Int
  PROVE  /\ Fresh' /\ Made' = Made /\ (AllAgree => AllAgree')
         /\ \A S : TagsBut(S) => TagsBut(S)'
         /\ \A t, l : Belongs(t, l)' <=> Belongs(t, l)
         /\ \A S, k : AgreeBut(S, k) => AgreeBut(S, k)'
         /\ \A s : Plain(s)' <=> Plain(s)
         /\ \A c : /\ Listing(c) => Listing(c)'
                   /\ Unlisting(c) => Unlisting(c)'
                   /\ Inserting(c) /\ c.id \in Int => Inserting(c)'
<1>1. Made' = Made
  BY DEF Made
<1>2. Fresh'
  BY <1>1 DEF Fresh
<1>3. \A t, l : Belongs(t, l)' <=> Belongs(t, l)
  BY <1>1 DEF Belongs
<1>4. \A t, l : Agree(t, l)' <=> Agree(t, l)
  BY <1>3 DEF Agree
<1>5. \A S, k : AgreeBut(S, k) => AgreeBut(S, k)'
  BY <1>4 DEF AgreeBut, Shown
<1>6. AllAgree => AllAgree'
  BY <1>5 DEF AllAgree
<1>7. \A S : TagsBut(S) => TagsBut(S)'
  BY <1>1 DEF TagsBut
<1>8. \A s : Plain(s)' <=> Plain(s)
  BY DEF Plain
<1>9. \A c : (Listing(c) => Listing(c)') /\ (Unlisting(c) => Unlisting(c)')
  BY <1>3, <1>5 DEF Listing, Unlisting
<1>10. \A c : Inserting(c) /\ c.id \in Int => Inserting(c)'
  BY <1>1, <1>6 DEF Inserting
<1> QED
  BY <1>1, <1>2, <1>3, <1>5, <1>6, <1>7, <1>8, <1>9, <1>10

(* A label whose members change, of the accounts S.                        *)
LEMMA MembersChange ==
  ASSUME LabelsAssumption, TypeOK, AllAgree, NEW l \in Made, NEW S,
         S \in SUBSET Accounts, NEW d \in LabelDocs,
         label' = [label EXCEPT ![l] = d], d.public = label[l].public,
         \A a \in Accounts \ S : a \in d.members <=> a \in label[l].members,
         UNCHANGED <<listing, tagged>>
  PROVE  Made' = Made /\ AgreeBut(S, l)'
<1>0. /\ l \in LabelIds /\ d # Nil /\ label[l] # Nil /\ label'[l] = d
      /\ \A k \in LabelIds : k # l => label'[k] = label[k]
  <2>1. d # Nil
    BY DEF LabelsAssumption
  <2> QED
    BY <2>1 DEF Made, TypeOK
<1>1. Made' = Made
  BY <1>0 DEF Made
<1>2. \A t \in Shown, k \in LabelIds :
        (t \in S /\ k = l) \/ (Belongs(t, k)' <=> Belongs(t, k))
  BY <1>0, <1>1, PublicApart DEF Belongs
<1> QED
  BY <1>1, <1>2 DEF AllAgree, AgreeBut, Agree, Shown

-----------------------------------------------------------------------------
(* Steps.                                                                  *)

LEMMA IdsAreNumbers ==
  ASSUME LabelsAssumption, TypeOK, TypeOK'
  PROVE  /\ ids \in Int /\ ids' \in Int
         /\ \A l \in LabelIds : l \in Int
         /\ \A l \in Made : l \in LabelIds /\ l \in Int
  BY DEF TypeOK, LabelIds, LabelsAssumption, Made

LEMMA RequestAgrees ==
  ASSUME LabelsAssumption, OneWorker, TypeOK, TypeOK', AgreeInv,
         NEW w \in Workers, NEW r \in Requests,
         CreateLabel(w, r) \/ Receive(w, r) \/ AskForLabel(w, r)
  PROVE  AgreeInv'
<1>1. /\ script[w] = <<>> /\ UNCHANGED <<label, listing, tagged>>
      /\ ids' = ids \/ ids' = ids + 1
  BY DEF CreateLabel, Receive, AskForLabel, Arrives, docs, NewLabel
<1>2. Fresh /\ Idles(script[w])
  BY <1>1 DEF AgreeInv, Phase, Idles, Finishes, Creates, Deletes
<1>3. ids \in Int /\ ids' \in Int /\ ids <= ids' /\ \A l \in Made : l \in Int
  BY <1>1, IdsAreNumbers
<1>4. /\ Fresh' /\ Made' = Made /\ AllAgree' /\ TagsBut({})'
      /\ \A s : Plain(s)' <=> Plain(s)
  BY <1>1, <1>2, <1>3, SamePhase DEF Idles
<1>a. CASE CreateLabel(w, r)
  <2>0. PICK c, d :
          /\ c = Command("lookup", NewLabel, r.item)
          /\ d = Command("insert", NewLabel, <<r.item, r.public, Nil>>)
    OBVIOUS
  <2>1. /\ script' = [script EXCEPT ![w] = <<c, d>>] /\ ids' = ids + 1
        /\ c.do = "lookup" /\ d.do = "insert" /\ d.id = ids + 1
    BY <1>a, <2>0 DEF CreateLabel, Arrives, NewLabel, Command
  <2>2. d.id \notin Made' /\ d.id <= ids'
    BY <1>2, <1>3, <1>4, <2>1 DEF Fresh
  <2>3. PICK s : s = <<c, d>>
    OBVIOUS
  <2>4. /\ s # <<>> /\ Head(s) = c /\ Tail(s) # <<>> /\ Head(Tail(s)) = d
        /\ Tail(Tail(s)) = <<>>
    BY <2>3
  <2>5. Inserting(d)'
    BY <1>4, <2>1, <2>2 DEF Inserting
  <2>6. Creates(s)'
    BY <1>4, <2>1, <2>4, <2>5, PlainNone DEF Creates
  <2>7. FoundLabel(s)'
    <3>1. \A q : s # <<Decide(q)>>
      BY <2>4
    <3> QED
      BY <3>1 DEF FoundLabel
  <2> QED
    BY <1>4, <2>1, <2>3, <2>6, <2>7, OneSteps DEF Phase
<1>b. CASE Receive(w, r) \/ AskForLabel(w, r)
  <2>1. PICK s : /\ script' = [script EXCEPT ![w] = s]
                 /\ s = Opening(r) \/ s = <<>>
    BY <1>b DEF Receive, AskForLabel, Arrives
  <2>2. Plain(s)
    <3>1. CASE s = Opening(r)
      BY <3>1, SMT DEF Opening, Plain, Decide, Command
    <3> QED
      BY <2>1, <3>1, PlainNone
  <2>3. Idles(s)'
    BY <1>4, <2>2 DEF Idles
  <2>4. FoundLabel(s)'
    <3>1. \A q : s # <<Decide(q)>>
      BY <2>1, OpeningHeads, Openings
    <3> QED
      BY <3>1 DEF FoundLabel
  <2> QED
    BY <1>4, <2>1, <2>3, <2>4, OneSteps DEF Phase
<1> QED
  BY <1>a, <1>b

LEMMA GetAgrees ==
  ASSUME LabelsAssumption, OneWorker, TypeOK, TypeOK', AgreeInv,
         NEW w \in Workers, GetLabel(w)
  PROVE  AgreeInv'
<1>1. PICK r \in Receives : script[w] = Opening(r)
  BY AtGet DEF GetLabel
<1>2. /\ Now(w).id = r.id /\ Tail(script[w]) = <<Decide(r)>>
      /\ Now(w).do = "get_asked" <=> r.op \in OnAsked
      /\ Now(w).do \in {"get", "get_asked"} /\ script[w] # <<>>
  BY <1>1, Openings DEF Now
<1>3. Idles(script[w]) /\ Fresh
  BY <1>2, PhaseOf DEF AgreeInv
<1>4. UNCHANGED <<label, listing, tagged>> /\ ids' = ids
  BY DEF GetLabel, docs
<1>5. /\ Fresh' /\ Made' = Made /\ AllAgree' /\ TagsBut({})'
      /\ \A s : Plain(s)' <=> Plain(s)
  BY <1>3, <1>4, IdsAreNumbers, SamePhase DEF Idles
<1>6. PICK s : /\ script' = [script EXCEPT ![w] = s]
               /\ \/ s = <<>>
                  \/ /\ s = <<Decide(r)>>
                     /\ r.op \notin OnAsked => label[r.id] # Nil
  <2>1. <<>> \o <<Decide(r)>> = <<Decide(r)>>
    BY SMT
  <2> QED
    BY <1>2, <2>1 DEF GetLabel, Return, Proceed, Become
<1>7. Idles(s)'
  <2>1. Decide(r).do = "decide"
    BY Openings
  <2>2. Plain(<<Decide(r)>>)
    BY <2>1, SMT DEF Plain
  <2> QED
    BY <1>5, <1>6, <2>2, PlainNone DEF Idles
<1>8. FoundLabel(s)'
  <2>1. ASSUME NEW q \in Receives, s = <<Decide(q)>>, q.op = "tag"
        PROVE  q.id \in Made'
    <3>1. Decide(q) = Decide(r) /\ s = <<Decide(r)>>
      BY <1>6, <2>1
    <3>2. q = r
      <4>1. Decide(q).arg = q /\ Decide(r).arg = r
        BY Openings
      <4> QED
        BY <3>1, <4>1
    <3>3. r.id \in LabelIds /\ r.op \notin OnAsked
      BY <2>1, <3>2, RequestFields DEF Receives, Complete, OnAsked
    <3> QED
      BY <1>5, <1>6, <3>1, <3>2, <3>3 DEF Made
  <2> QED
    BY <2>1 DEF FoundLabel, Receives
<1> QED
  BY <1>5, <1>6, <1>7, <1>8, OneSteps DEF Phase

(* What a decision leaves: nothing of what the phase is about, or an       *)
(* insert of the label given an id, or a tag of the label found.           *)
LEMMA Decides ==
  ASSUME LabelsAssumption, OneWorker, TypeOK, TypeOK', AgreeInv,
         NEW w \in Workers, NEW op, NEW ok, NEW calls,
         Handle(w, op, ok, calls), ids' = ids \/ ids' = ids + 1,
         ok => /\ calls \in Seq(Calls)
               /\ \/ Plain(calls)
                  \/ /\ calls # <<>> /\ Plain(Tail(calls))
                     /\ \/ Inserting(Head(calls))'
                        \/ Head(calls).do = "tag" /\ Head(calls).id \in Made
  PROVE  AgreeInv'
<1>1. Ready(w, "decide")
  BY DEF Handle
<1>2. Tail(script[w]) = <<>> /\ script[w] # <<>>
  BY <1>1, AtDecide DEF Ready
<1>3. Fresh /\ Idles(script[w])
  BY <1>1, <1>2, PhaseOf DEF Ready, Now, AgreeInv
<1>4. UNCHANGED <<label, listing, tagged>>
  BY DEF Handle, docs
<1>5. /\ Fresh' /\ Made' = Made /\ AllAgree' /\ TagsBut({})'
      /\ \A s : Plain(s)' <=> Plain(s)
  BY <1>3, <1>4, IdsAreNumbers, SamePhase DEF Idles
<1>6. PICK s : /\ script' = [script EXCEPT ![w] = s]
               /\ s = <<>> \/ (ok /\ s = calls)
  <2>1. ok => calls \o <<>> = calls
    BY ConcatEmptySeq
  <2>2. <<>> \o <<>> = <<>>
    BY SMT
  <2> QED
    BY <1>2, <2>1, <2>2 DEF Handle, Become
<1>7. s \in Seq(Calls)
  BY <1>6, ShortScripts
<1>8. Phase(s)'
  <2>1. CASE Plain(s)
    BY <1>5, <2>1 DEF Phase, Idles
  <2>2. CASE ~Plain(s)
    <3>1. ok /\ s = calls
      BY <1>6, <2>2, PlainNone
    <3>2. /\ s # <<>> /\ Plain(Tail(s))
          /\ Inserting(Head(s))' \/ (Head(s).do = "tag" /\ Head(s).id \in Made)
      BY <2>2, <3>1
    <3>3. Inserting(Head(s))' \/ Tagging(Head(s))'
      BY <1>5, <3>2 DEF Tagging
    <3>4. Finishes(s)'
      BY <1>5, <3>2, <3>3 DEF Finishes
    <3> QED
      BY <3>4 DEF Phase
  <2> QED
    BY <2>1, <2>2
<1> QED
  BY <1>5, <1>6, <1>7, <1>8, OneSteps, CallsFind

LEMMA PlainAnswer ==
  /\ \A i, status : /\ Plain(Answer(i, status)) /\ Answer(i, status) # <<>>
                    /\ Plain(Tail(Answer(i, status)))
  /\ \A l, S : Plain(AddMembers(l, S))
  /\ \A do, l, x : do \notin {"insert", "list", "unlist", "tag", "untag"} =>
       Plain(<<Command(do, l, x)>>)
BY SMT DEF Plain, Answer, AddMembers, Command

LEMMA PlainBoth ==
  ASSUME NEW S, NEW s \in Seq(S), NEW t \in Seq(S), Plain(s), Plain(t)
  PROVE  Plain(s \o t)
<1>1. /\ Len(s \o t) = Len(s) + Len(t) /\ Len(s) \in Nat /\ Len(t) \in Nat
      /\ \A i \in 1..(Len(s) + Len(t)) :
           (s \o t)[i] = IF i <= Len(s) THEN s[i] ELSE t[i - Len(s)]
  BY ConcatProperties, LenProperties
<1>2. ASSUME NEW i \in 1..Len(s \o t)
      PROVE  (s \o t)[i].do \notin {"insert", "list", "unlist", "tag", "untag"}
  <2>1. CASE i <= Len(s)
    <3>1. i \in 1..Len(s) /\ (s \o t)[i] = s[i]
      BY <1>1, <2>1
    <3> QED
      BY <3>1 DEF Plain
  <2>2. CASE ~(i <= Len(s))
    <3>1. i - Len(s) \in 1..Len(t) /\ (s \o t)[i] = t[i - Len(s)]
      BY <1>1, <2>2
    <3> QED
      BY <3>1 DEF Plain
  <2> QED
    BY <2>1, <2>2
<1> QED
  BY <1>2 DEF Plain

LEMMA HandleAgrees ==
  ASSUME LabelsAssumption, OneWorker, TypeOK, TypeOK', Room, AgreeInv,
         NEW w \in Workers, Decisions(w)
  PROVE  AgreeInv'
<1>1. Ready(w, "decide") /\ script[w] # <<>>
  BY DEF Decisions, AddMember, RemoveMember, UpdateLabel, RemoveLabel,
     CancelRequest, RejectRequest, ApproveRequest, TagPost, Handle, Ready
<1>2. PICK r \in Receives :
        /\ script[w] = <<Decide(r)>> /\ copy[w] \in Found(r)
        /\ Now(w).arg = r /\ Now(w).id = r.id /\ Tail(script[w]) = <<>>
  BY <1>1, AtDecide
<1>3. r \in Requests /\ Complete(r) /\ Asked(w) = r
  BY <1>2, RequestFields DEF Receives, Asked
<1>4. Idles(script[w]) /\ Fresh /\ FoundLabel(script[w])
  BY <1>1, PhaseOf DEF AgreeInv, Ready, Now
<1>5. UNCHANGED <<label, listing, tagged>>
  BY DEF Decisions, AddMember, RemoveMember, UpdateLabel, RemoveLabel,
     CancelRequest, RejectRequest, ApproveRequest, TagPost, Handle, docs
<1> DEFINE c == copy[w]
<1>a. CASE AddMember(w)
  <2>1. Handle(w, "add_member",
               /\ IsEditor(w)
               /\ c.nMembers + Cardinality(r.item) <= MaxMembers,
               AddMembers(r.id, r.item \cap Enabled)) /\ r.op = "add_member"
    BY <1>a, <1>2, <1>3 DEF AddMember, Handle
  <2>2. r.id \in LabelIds /\ r.item \cap Enabled \in SUBSET Accounts
    BY <1>3, <2>1 DEF Complete, LabelsAssumption
  <2>3. AddMembers(r.id, r.item \cap Enabled) \in Seq(Calls)
    BY <2>2, PlainCalls, ShortScripts DEF AddMembers
  <2> QED
    BY <1>a, <2>1, <2>3, PlainAnswer, Decides DEF AddMember
<1>b. CASE RemoveMember(w)
  <2>1. Handle(w, "remove_member", IsEditor(w),
               <<Command("delist", r.id, r.item)>>) /\ r.op = "remove_member"
    BY <1>b, <1>2, <1>3 DEF RemoveMember, Handle
  <2>2. <<Command("delist", r.id, r.item)>> \in Seq(Calls)
    BY <1>3, <2>1, PlainCalls, ShortScripts DEF Complete
  <2> QED
    BY <1>b, <2>1, <2>2, PlainAnswer, Decides DEF RemoveMember
<1>c. CASE UpdateLabel(w)
  <2>1. Handle(w, "update", IsEditor(w),
               <<Command("retitle", r.id, r.item)>>) /\ r.op = "update"
    BY <1>c, <1>2, <1>3 DEF UpdateLabel, Handle
  <2>2. <<Command("retitle", r.id, r.item)>> \in Seq(Calls)
    BY <1>3, <2>1, PlainCalls, ShortScripts DEF Complete
  <2> QED
    BY <1>c, <2>1, <2>2, PlainAnswer, Decides DEF UpdateLabel
<1>d. CASE RemoveLabel(w)
  <2>1. Handle(w, "remove", IsEditor(w), <<Command("delete", r.id, Nil)>>)
          /\ r.op = "remove"
    BY <1>d, <1>2, <1>3 DEF RemoveLabel, Handle
  <2>2. <<Command("delete", r.id, Nil)>> \in Seq(Calls)
    BY <1>3, <2>1, PlainCalls, ShortScripts DEF Complete
  <2> QED
    BY <1>d, <2>1, <2>2, PlainAnswer, Decides DEF RemoveLabel
<1>e. CASE CancelRequest(w)
  <2>1. Handle(w, "remove_req", c.by = r.who, Answer(r.id, "canceled"))
          /\ r.op = "remove_req"
    BY <1>e, <1>2, <1>3 DEF CancelRequest, Handle
  <2>2. Answer(r.id, "canceled") \in Seq(Calls)
    BY <1>3, <2>1, AnswerCall, ShortScripts DEF Complete, OnAsked, Statuses,
       Answer
  <2> QED
    BY <1>e, <2>1, <2>2, PlainAnswer, Decides DEF CancelRequest
<1>h. CASE RejectRequest(w)
  <2>1. Handle(w, "reject", IsEditor(w), Answer(r.id, "rejected"))
          /\ r.op = "reject"
    BY <1>h, <1>2, <1>3 DEF RejectRequest, Handle
  <2>2. Answer(r.id, "rejected") \in Seq(Calls)
    BY <1>3, <2>1, AnswerCall, ShortScripts DEF Complete, OnAsked, Statuses,
       Answer
  <2> QED
    BY <1>h, <2>1, <2>2, PlainAnswer, Decides DEF RejectRequest
<1>f. CASE TagPost(w)
  <2>1. Handle(w, "tag", c.public \/ Asked(w).who \in c.members,
               <<Command("tag", r.id, Nil)>>) /\ r.op = "tag"
    BY <1>f, <1>2, <1>3 DEF TagPost, Handle
  <2>2. PICK s : s = <<Command("tag", r.id, Nil)>>
    OBVIOUS
  <2>3. s \in Seq(Calls)
    BY <1>3, <2>1, <2>2, PlainCalls, ShortScripts DEF Complete
  <2>4. r.id \in Made
    BY <1>2, <1>4, <2>1 DEF FoundLabel
  <2>5. /\ s # <<>> /\ Plain(Tail(s))
        /\ Head(s).do = "tag" /\ Head(s).id \in Made
    <3>1. s # <<>> /\ Tail(s) = <<>> /\ Head(s) = Command("tag", r.id, Nil)
      BY <2>2
    <3>2. /\ Command("tag", r.id, Nil).do = "tag"
          /\ Command("tag", r.id, Nil).id = r.id
      BY SMT DEF Command
    <3> QED
      BY <2>4, <3>1, <3>2, PlainNone
  <2> QED
    BY <1>f, <2>1, <2>2, <2>3, <2>5, Decides DEF TagPost
<1>g. CASE ApproveRequest(w)
  <2> DEFINE creates == IsEditor(w) /\ c.label = Nil
  <2>0. PICK calls :
          calls = IF creates
                    THEN <<Command("insert", NewLabel, <<c.title, FALSE, r.id>>)>>
                           \o Answer(r.id, "approved")
                           \o AddMembers(NewLabel, {c.by})
                  ELSE IF c.label \notin Made THEN Answer(r.id, "failed")
                  ELSE (IF c.title # Nil
                          THEN <<Command("retitle", c.label, c.title)>>
                          ELSE AddMembers(c.label, {c.by}))
                       \o Answer(r.id, "approved")
    OBVIOUS
  <2>1. /\ Handle(w, "approve", IsEditor(w), calls) /\ r.op = "approve"
        /\ ids' = IF creates THEN NewLabel ELSE ids
    BY <1>g, <1>2, <1>3, <2>0 DEF ApproveRequest, Handle
  <2>2. w \in Approving
    BY <1>2, <2>1 DEF Approving
  <2>3. NewLabel \in LabelIds /\ NewLabel = ids + 1
    BY <2>2, RoomToApprove, IdsTyped DEF NewLabel, TypeOK
  <2>4. r.id \in AskedIds /\ c \in AskedDocs
    BY <1>2, <1>3, <2>1 DEF Complete, OnAsked, Found
  <2>5. /\ c.by \in Accounts /\ c.label \in LabelIds \cup {Nil}
        /\ c.title \in Titles \cup {Nil} /\ {c.by} \in SUBSET Accounts
    BY <2>4 DEF AskedDocs
  <2>6. /\ Answer(r.id, "approved") \in Seq(Calls)
        /\ Answer(r.id, "failed") \in Seq(Calls)
    BY <2>4, AnswerCall, ShortScripts DEF Statuses, Answer
  <2>7. \A l \in LabelIds : /\ AddMembers(l, {c.by}) \in Seq(Calls)
                            /\ c.title # Nil =>
                                 <<Command("retitle", l, c.title)>> \in Seq(Calls)
    BY <2>5, PlainCalls, ShortScripts DEF AddMembers
  <2>8. c.label \in Made => c.label \in LabelIds
    BY DEF Made
  <2>9. ids' = ids \/ ids' = ids + 1
    BY <2>1, <2>3
  <2> HIDE DEF c
  <2>10. CASE creates
    <3>1. PICK i, t : /\ i = Command("insert", NewLabel, <<c.title, FALSE, r.id>>)
                      /\ t = Answer(r.id, "approved") \o AddMembers(NewLabel, {c.by})
      OBVIOUS
    <3>2. /\ i \in Calls /\ t \in Seq(Calls) /\ <<i>> \in Seq(Calls)
      BY <2>3, <2>4, <2>5, <2>6, <2>7, <3>1, PlainCalls, ShortScripts
    <3>3. calls = <<i>> \o t
      <4>1. PICK a, m : /\ a = Answer(r.id, "approved")
                        /\ m = AddMembers(NewLabel, {c.by})
        OBVIOUS
      <4>2. a \in Seq(Calls) /\ m \in Seq(Calls)
        BY <2>3, <2>5, <2>6, <2>7, <4>1
      <4>3. calls = <<i>> \o a \o m /\ t = a \o m
        BY <2>0, <2>10, <3>1, <4>1
      <4>4. <<i>> \o a \o m = <<i>> \o (a \o m)
        BY <3>2, <4>2, ConcatAssociative
      <4> QED
        BY <4>3, <4>4
    <3>4. Plain(t)
      BY <2>3, <2>6, <2>7, <3>1, PlainAnswer, PlainBoth
    <3>5. /\ calls # <<>> /\ Head(calls) = i /\ Tail(calls) = t
          /\ calls \in Seq(Calls)
      BY <3>2, <3>3, Ahead, ShortScripts
    <3>6. Inserting(i)'
      <4>1. /\ i.do = "insert" /\ i.id = ids + 1 /\ ids' = ids + 1
        BY <2>1, <2>3, <2>10, <3>1 DEF Command
      <4>2. Made' = Made /\ AllAgree'
        BY <1>4, <1>5, <2>9, IdsAreNumbers, SamePhase DEF Idles
      <4>3. ids + 1 \notin Made /\ ids + 1 <= ids'
        BY <1>4, <4>1, IdsAreNumbers DEF Fresh
      <4> QED
        BY <4>1, <4>2, <4>3 DEF Inserting
    <3> QED
      BY <2>1, <2>9, <3>4, <3>5, <3>6, Decides
  <2>11. CASE ~creates
    <3>1. calls \in Seq(Calls) /\ Plain(calls)
      <4>1. CASE c.label \notin Made
        BY <2>0, <2>6, <2>11, <4>1, PlainAnswer
      <4>2. CASE c.label \in Made
        <5>1. PICK x : x = IF c.title # Nil
                             THEN <<Command("retitle", c.label, c.title)>>
                             ELSE AddMembers(c.label, {c.by})
          OBVIOUS
        <5>2. x \in Seq(Calls) /\ Plain(x)
          BY <2>7, <2>8, <4>2, <5>1, PlainAnswer
        <5>3. calls = x \o Answer(r.id, "approved")
          BY <2>0, <2>11, <4>2, <5>1
        <5> QED
          BY <2>6, <5>2, <5>3, PlainAnswer, PlainBoth, ShortScripts
      <4> QED
        BY <4>1, <4>2
    <3> QED
      BY <2>1, <2>9, <3>1, Decides
  <2> QED
    BY <2>10, <2>11
<1> QED
  BY <1>a, <1>b, <1>c, <1>d, <1>e, <1>f, <1>g, <1>h
     DEF Decisions

(* The worker goes on with s, which is what its phase calls for.           *)
LEMMA RunSteps ==
  ASSUME LabelsAssumption, OneWorker, TypeOK, TypeOK', AgreeInv,
         NEW w \in Workers, script[w] # <<>>,
         Now(w).do \notin {"get", "get_asked", "decide"}, ids' = ids,
         NEW s \in Seq(Calls), script' = [script EXCEPT ![w] = s],
         Made' \subseteq Made \/ Fresh', Phase(s)'
  PROVE  AgreeInv'
<1>1. Fresh'
  BY DEF AgreeInv, Fresh
<1> QED
  BY <1>1, OneSteps, CallsFind

LEMMA RunAgrees ==
  ASSUME LabelsAssumption, OneWorker, TypeOK, TypeOK', AgreeInv,
         NEW w \in Workers, Runs(w)
  PROVE  AgreeInv'
<1>1. /\ script[w] # <<>> /\ Now(w).do \notin {"get", "get_asked", "decide"}
      /\ ids' = ids
  BY DEF Runs, TitleExists, InsertLabel, Enlist, List, Delist, Unlist, Delete,
     Retitle, AnswerRequest, TagOrUntag, Ready, Now
<1>2. PICK c, t : c = Now(w) /\ t = Tail(script[w])
  OBVIOUS
<1>3. c \in Calls /\ t \in Seq(Calls)
  BY <1>1, <1>2, AtCall
<1>4. PICK l, arg : l = c.id /\ arg = c.arg
  OBVIOUS
<1>5. /\ <<>> \in Seq(Calls) /\ <<>> \o t = t
      /\ \A d \in Calls : /\ <<d>> \o t \in Seq(Calls) /\ <<d>> \o t # <<>>
                          /\ Head(<<d>> \o t) = d /\ Tail(<<d>> \o t) = t
      /\ \A d, e \in Calls : <<d, e>> \o t \in Seq(Calls)
  BY <1>3, ShortScripts, Ahead
<1>6. ASSUME UNCHANGED <<label, listing, tagged>>
      PROVE  /\ Fresh' /\ Made' = Made /\ (AllAgree => AllAgree')
             /\ \A S : TagsBut(S) => TagsBut(S)'
             /\ \A s : Plain(s)' <=> Plain(s)
             /\ \A d : Unlisting(d) => Unlisting(d)'
             /\ \A d : Inserting(d) /\ d.id \in Int => Inserting(d)'
  BY <1>1, <1>6, IdsAreNumbers, SamePhase DEF AgreeInv
<1>7. \A s : Plain(s)' <=> Plain(s)
  BY DEF Plain
<1>8. Plain(script[w]) => Plain(t) /\ Plain(<<>>)
  BY <1>1, <1>2, PlainNone, PlainTail, AtCall
<1>9. /\ Phase(script[w]) /\ TypeOK
      /\ \A k \in Made : k \in LabelIds /\ label[k] \in LabelDocs
      /\ DOMAIN listing = Shown /\ DOMAIN label = LabelIds
      /\ \A k \in LabelIds : k \in Int
  BY IdsAreNumbers DEF AgreeInv, Made, TypeOK, Shown
<1>10. ASSUME AllAgree', TagsBut({})', NEW s, Plain(s)
       PROVE  Phase(s)'
  BY <1>7, <1>10 DEF Phase, Idles
<1>11. ASSUME TagsBut({})', NEW s, s # <<>>, Plain(Tail(s)),
              Listing(Head(s))' \/ Unlisting(Head(s))' \/ Inserting(Head(s))'
       PROVE  Phase(s)'
  BY <1>7, <1>11 DEF Phase, Finishes
<1>a. CASE TitleExists(w)
  <2>1. /\ c.do = "lookup" /\ UNCHANGED <<label, listing, tagged>>
        /\ script' = [script EXCEPT ![w] = <<>>] \/
             script' = [script EXCEPT ![w] = t]
    BY <1>a, <1>2, <1>5 DEF TitleExists, Ready, Now, docs, Return, Proceed,
       Become
  <2>2. Idles(script[w]) \/ Creates(script[w])
    BY <1>1, <1>2, <2>1, PhaseOf
  <2>3. AllAgree' /\ TagsBut({})' /\ Made' = Made
    BY <1>6, <2>1, <2>2 DEF Idles, Creates, Inserting
  <2>4. Phase(<<>>)'
    BY <1>10, <2>3, PlainNone
  <2>5. Phase(t)'
    <3>1. CASE Idles(script[w])
      BY <1>8, <1>10, <2>3, <3>1 DEF Idles
    <3>2. CASE Creates(script[w])
      <4>1. t # <<>> /\ Plain(Tail(t)) /\ Inserting(Head(t))
        BY <1>2, <3>2 DEF Creates
      <4>2. Head(t).id \in Int
        BY <1>3, <1>9, <4>1, CallsOnly, CallFields DEF Inserting
      <4> QED
        BY <1>6, <1>11, <2>1, <2>3, <4>1, <4>2
    <3> QED
      BY <2>2, <3>1, <3>2
  <2> QED
    BY <1>1, <1>3, <1>5, <2>1, <2>3, <2>4, <2>5, RunSteps
<1>k. CASE InsertLabel(w) /\ TitleUsed(arg[1], Made)
  <2>1. PICK x : x = IF arg[3] = Nil THEN <<>> ELSE Answer(arg[3], "failed")
    OBVIOUS
  <2>2. /\ c.do = "insert" /\ UNCHANGED <<label, listing, tagged>>
        /\ script' = [script EXCEPT ![w] = x]
    BY <1>k, <1>2, <1>4, <2>1 DEF InsertLabel, Ready, Now
  <2>3. x \in Seq(Calls)
    <3>1. arg[3] \in AskedIds \cup {Nil}
      BY <1>3, <1>4, <2>2, CallFields
    <3>2. \A i \in AskedIds : Command("answer", i, "failed") \in Calls
      BY AnswerCall DEF Statuses
    <3> QED
      BY <2>1, <3>1, <3>2, ShortScripts DEF Answer
  <2>4. AllAgree' /\ TagsBut({})' /\ Made' = Made
    BY <1>1, <1>2, <1>6, <2>2, PhaseOf DEF Inserting
  <2>5. Phase(x)'
    BY <1>10, <2>1, <2>4, PlainAnswer, PlainNone
  <2> QED
    BY <1>1, <2>2, <2>3, <2>4, <2>5, RunSteps
<1>b. CASE InsertLabel(w) /\ ~TitleUsed(arg[1], Made)
  <2>1. /\ c.do = "insert" /\ UNCHANGED <<listing, tagged>>
        /\ label' = [label EXCEPT ![l] =
             [title |-> arg[1], public |-> arg[2], members |-> {},
              nMembers |-> 0]]
        /\ Become(w, IF arg[2] THEN <<Command("list", l, {Public})>> ELSE <<>>)
    BY <1>b, <1>2, <1>4 DEF InsertLabel, Ready, Now
  <2>2. /\ l \in LabelIds /\ arg[2] \in BOOLEAN
        /\ arg[1] \in Titles \cup {Nil}
    BY <1>3, <1>4, <2>1, CallFields
  <2>3. Inserting(c) /\ Plain(t) /\ TagsBut({})
    BY <1>1, <1>2, <2>1, PhaseOf
  <2>4. PICK d \in LabelDocs :
          /\ label' = [label EXCEPT ![l] = d] /\ d.public = arg[2]
          /\ d.members = {}
    <3>1. [title |-> arg[1], public |-> arg[2], members |-> {}, nMembers |-> 0]
            \in LabelDocs
      BY <2>2 DEF LabelDocs
    <3> QED
      BY <2>1, <3>1
  <2>5. /\ label'[l] = d /\ d # Nil /\ l \notin Made /\ l <= ids /\ AllAgree
        /\ \A k \in LabelIds : k # l => label'[k] = label[k]
    BY <1>4, <1>9, <2>2, <2>3, <2>4 DEF Inserting, LabelsAssumption
  <2>6. Made' = Made \cup {l}
    BY <1>9, <2>2, <2>5 DEF Made
  <2>7. Fresh' /\ TagsBut({})'
    BY <1>1, <2>1, <2>3, <2>5, <2>6 DEF AgreeInv, Fresh, TagsBut
  <2>8. \A x \in Shown : /\ Belongs(x, l)' <=> x = Public /\ arg[2]
                         /\ l \notin listing[x].labels
    <3>1. \A x \in Shown : l \notin listing[x].labels
      BY <2>2, <2>5 DEF AllAgree, AgreeBut, Agree, Belongs
    <3>2. \A x : Belongs(x, l)' <=> x = Public /\ arg[2]
      BY <2>4, <2>5, <2>6 DEF Belongs
    <3> QED
      BY <3>1, <3>2
  <2>9. \A x \in Shown, k \in LabelIds : k # l => Agree(x, k)'
    <3>1. \A x, k : k \in LabelIds /\ k # l => (Belongs(x, k)' <=> Belongs(x, k))
      BY <2>5, <2>6 DEF Belongs
    <3> QED
      BY <2>1, <2>5, <3>1 DEF AllAgree, AgreeBut, Agree
  <2>10. CASE arg[2]
    <3>1. PICK e : e = Command("list", l, {Public})
      OBVIOUS
    <3>2. e \in Calls /\ e.do = "list" /\ e.id = l /\ e.arg = {Public}
      BY <2>2, <3>1, PlainCalls DEF Shown, Command
    <3>3. AgreeBut({Public}, l)'
      BY <2>1, <2>8, <2>9 DEF AgreeBut, Agree, Shown
    <3>4. Listing(e)'
      BY <2>8, <2>10, <3>2, <3>3 DEF Listing, Shown
    <3>5. script' = [script EXCEPT ![w] = <<e>> \o t]
      BY <1>2, <2>1, <2>10, <3>1 DEF Become
    <3>6. Phase(<<e>> \o t)'
      BY <1>5, <1>11, <2>3, <2>7, <3>2, <3>4
    <3> QED
      BY <1>1, <1>5, <2>7, <3>2, <3>5, <3>6, RunSteps
  <2>11. CASE ~arg[2]
    <3>1. AllAgree'
      BY <2>1, <2>8, <2>9, <2>11 DEF AllAgree, AgreeBut, Agree, Shown
    <3>2. script' = [script EXCEPT ![w] = t]
      BY <1>2, <1>5, <2>1, <2>11 DEF Become
    <3>3. Phase(t)'
      BY <1>10, <2>3, <2>7, <3>1
    <3> QED
      BY <1>1, <1>3, <2>7, <3>2, <3>3, RunSteps
  <2> QED
    BY <2>10, <2>11
<1>c. CASE Enlist(w)
  <2>1. c.do = "enlist" /\ UNCHANGED <<listing, tagged>>
    BY <1>c, <1>2 DEF Enlist, Ready, Now
  <2>2. l \in LabelIds /\ arg \in SUBSET Accounts
    BY <1>3, <1>4, <2>1, CallFields
  <2>3. AllAgree /\ TagsBut({}) /\ Plain(t)
    BY <1>1, <1>2, <1>8, <2>1, PhaseOf DEF Idles
  <2>4. CASE l \in Made /\ label[l].members \cap arg = {}
    <3>1. PICK d : d = [label[l] EXCEPT !.members = @ \cup arg,
                                        !.nMembers = @ + Cardinality(arg)]
      OBVIOUS
    <3>2. d \in LabelDocs
      <4>1. label[l] \in LabelDocs /\ Cardinality(arg) \in Nat
        BY <1>9, <2>2, <2>4, Counting
      <4>2. /\ label[l].members \cup arg \in SUBSET Accounts
            /\ label[l].nMembers + Cardinality(arg) \in Int
        BY <2>2, <4>1, LabelTyped
      <4> QED
        BY ONLY <3>1, <4>1, <4>2, MembersTyped
    <3>3. d.public = label[l].public /\ d.members = label[l].members \cup arg
      BY <1>9, <2>4, <3>1 DEF LabelDocs
    <3>4. /\ label' = [label EXCEPT ![l] = d]
          /\ script' = [script EXCEPT ![w] = <<Command("list", l, arg)>> \o t]
      BY <1>c, <1>2, <1>4, <1>9, <2>4, <3>1 DEF Enlist, Become, Now
    <3>5. Made' = Made /\ AgreeBut(arg, l)'
      BY <2>1, <2>2, <2>3, <2>4, <3>2, <3>3, <3>4, MembersChange
    <3>6. \A x \in arg : Belongs(x, l)'
      <4>1. label'[l] = d /\ \A x \in arg : x # Public
        BY <1>9, <2>2, <2>4, <3>4, PublicApart
      <4> QED
        BY <2>4, <3>3, <3>5, <4>1 DEF Belongs
    <3>7. PICK e : e = Command("list", l, arg)
      OBVIOUS
    <3>8. e \in Calls /\ e.do = "list" /\ e.id = l /\ e.arg = arg
      BY <2>2, <3>7, PlainCalls DEF Command
    <3>9. Listing(e)' /\ TagsBut({})'
      BY <2>1, <2>3, <3>5, <3>6, <3>8 DEF Listing, TagsBut
    <3>10. Phase(<<e>> \o t)'
      BY <1>5, <1>11, <2>3, <3>8, <3>9
    <3> QED
      BY <1>1, <1>5, <3>4, <3>5, <3>7, <3>8, <3>10, RunSteps
  <2>5. CASE ~(l \in Made /\ label[l].members \cap arg = {})
    <3>1. UNCHANGED label /\ script' = [script EXCEPT ![w] = t]
      BY <1>c, <1>2, <1>4, <1>5, <2>5 DEF Enlist, Proceed, Become, Now
    <3>2. Phase(t)' /\ Made' = Made
      BY <1>6, <1>10, <2>1, <2>3, <3>1
    <3> QED
      BY <1>1, <1>3, <3>1, <3>2, RunSteps
  <2> QED
    BY <2>4, <2>5
<1>d. CASE List(w)
  <2>1. c.do = "list" /\ UNCHANGED <<label, tagged>>
    BY <1>d, <1>2 DEF List, Ready, Now
  <2>2. l \in LabelIds /\ arg \in SUBSET Shown
    BY <1>3, <1>4, <2>1, CallFields DEF Shown
  <2>3. Listing(c) /\ Plain(t) /\ TagsBut({})
    BY <1>1, <1>2, <2>1, PhaseOf
  <2>4. /\ Made' = Made /\ TagsBut({})'
        /\ \A x, k : Belongs(x, k)' <=> Belongs(x, k)
    BY <2>1, <2>3 DEF Made, TagsBut, Belongs
  <2>5. CASE arg = {}
    <3>1. UNCHANGED listing /\ script' = [script EXCEPT ![w] = t]
      BY <1>d, <1>2, <1>4, <1>5, <2>5 DEF List, Proceed, Become, Now
    <3>2. AllAgree'
      BY <1>4, <2>3, <2>4, <2>5, <3>1
         DEF Listing, AllAgree, AgreeBut, Agree, Shown
    <3>3. Phase(t)'
      BY <1>10, <2>3, <2>4, <3>2
    <3> QED
      BY <1>1, <1>3, <2>4, <3>1, <3>3, RunSteps
  <2>6. CASE arg # {}
    <3>1. PICK a \in arg :
            /\ listing' = [listing EXCEPT ![a] =
                  IF l \in @.labels THEN @
                  ELSE [labels |-> @.labels \cup {l}, qty |-> @.qty + 1]]
            /\ Become(w, IF arg = {a} THEN <<>>
                         ELSE <<Command("list", l, arg \ {a})>>)
      BY <1>d, <1>2, <1>4, <2>6 DEF List, Now
    <3>2. /\ listing'[a].labels = listing[a].labels \cup {l}
          /\ \A x \in Shown : x # a => listing'[x] = listing[x]
      BY <1>9, <2>2, <3>1
    <3>3. AgreeBut(arg \ {a}, l)'
      <4>1. \A x \in Shown, k \in LabelIds :
              (x \in arg \ {a} /\ k = l) \/ Agree(x, k)'
        BY <1>4, <2>3, <2>4, <3>2 DEF Listing, AgreeBut, Agree
      <4> QED
        BY <4>1 DEF AgreeBut, Shown
    <3>4. CASE arg = {a}
      <4>1. AllAgree'
        BY <3>3, <3>4 DEF AllAgree, AgreeBut
      <4>2. script' = [script EXCEPT ![w] = t]
        BY <1>2, <1>5, <3>1, <3>4 DEF Become
      <4>3. Phase(t)'
        BY <1>10, <2>3, <2>4, <4>1
      <4> QED
        BY <1>1, <1>3, <2>4, <4>2, <4>3, RunSteps
    <3>5. CASE arg # {a}
      <4>1. PICK e : e = Command("list", l, arg \ {a})
        OBVIOUS
      <4>2. e \in Calls /\ e.do = "list" /\ e.id = l /\ e.arg = arg \ {a}
        BY <2>2, <4>1, PlainCalls DEF Command, Shown
      <4>3. script' = [script EXCEPT ![w] = <<e>> \o t]
        BY <1>2, <3>1, <3>5, <4>1 DEF Become
      <4>4. Listing(e)'
        BY <1>4, <2>3, <2>4, <3>3, <4>2 DEF Listing
      <4>5. Phase(<<e>> \o t)'
        BY <1>5, <1>11, <2>3, <2>4, <4>2, <4>4
      <4> QED
        BY <1>1, <1>5, <2>4, <4>2, <4>3, <4>5, RunSteps
    <3> QED
      BY <3>4, <3>5
  <2> QED
    BY <2>5, <2>6
<1>e. CASE Delist(w)
  <2>1. c.do = "delist" /\ UNCHANGED <<listing, tagged>>
    BY <1>e, <1>2 DEF Delist, Ready, Now
  <2>2. l \in LabelIds /\ arg \in Accounts
    BY <1>3, <1>4, <2>1, CallFields
  <2>3. AllAgree /\ TagsBut({}) /\ Plain(t)
    BY <1>1, <1>2, <1>8, <2>1, PhaseOf DEF Idles
  <2>4. CASE l \in Made /\ arg \in label[l].members
    <3>1. PICK d : d = [label[l] EXCEPT !.members = @ \ {arg},
                                        !.nMembers = @ - 1]
      OBVIOUS
    <3>2. d \in LabelDocs
      <4>1. label[l] \in LabelDocs
        BY <1>9, <2>4
      <4>2. /\ label[l].members \ {arg} \in SUBSET Accounts
            /\ label[l].nMembers - 1 \in Int
        BY <4>1, LabelTyped
      <4> QED
        BY ONLY <3>1, <4>1, <4>2, MembersTyped
    <3>3. d.public = label[l].public /\ d.members = label[l].members \ {arg}
      BY <1>9, <2>4, <3>1 DEF LabelDocs
    <3>4. /\ label' = [label EXCEPT ![l] = d]
          /\ script' = [script EXCEPT ![w] = <<Command("unlist", l, {arg})>> \o t]
      BY <1>e, <1>2, <1>4, <1>9, <2>4, <3>1 DEF Delist, Become, Now
    <3>5. Made' = Made /\ AgreeBut({arg}, l)'
      BY <2>1, <2>2, <2>3, <2>4, <3>2, <3>3, <3>4, MembersChange
    <3>6. ~Belongs(arg, l)'
      <4>1. label'[l] = d /\ arg # Public
        BY <1>9, <2>2, <2>4, <3>4, PublicApart
      <4> QED
        BY <3>3, <4>1 DEF Belongs
    <3>7. PICK e : e = Command("unlist", l, {arg})
      OBVIOUS
    <3>8. e \in Calls /\ e.do = "unlist" /\ e.id = l /\ e.arg = {arg}
      BY <2>2, <3>7, PlainCalls DEF Command
    <3>9. Unlisting(e)' /\ TagsBut({})'
      BY <2>1, <2>3, <3>5, <3>6, <3>8 DEF Unlisting, TagsBut
    <3>10. Phase(<<e>> \o t)'
      BY <1>5, <1>11, <2>3, <3>8, <3>9
    <3> QED
      BY <1>1, <1>5, <3>4, <3>5, <3>7, <3>8, <3>10, RunSteps
  <2>5. CASE ~(l \in Made /\ arg \in label[l].members)
    <3>1. UNCHANGED label /\ script' = [script EXCEPT ![w] = <<>>]
      BY <1>e, <1>2, <1>4, <2>5 DEF Delist, Return, Now
    <3>2. Phase(<<>>)' /\ Made' = Made
      BY <1>6, <1>10, <2>1, <2>3, <3>1, PlainNone
    <3> QED
      BY <1>1, <1>5, <3>1, <3>2, RunSteps
  <2> QED
    BY <2>4, <2>5
<1>f. CASE Unlist(w)
  <2>1. /\ c.do = "unlist" /\ UNCHANGED <<label, tagged>>
        /\ listing' = Without(arg, l) /\ script' = [script EXCEPT ![w] = t]
    BY <1>f, <1>2, <1>4, <1>5 DEF Unlist, Ready, Now, Proceed, Become
  <2>2. Unlisting(c) /\ Plain(t) /\ TagsBut({})
    BY <1>1, <1>2, <2>1, PhaseOf
  <2>3. /\ Made' = Made /\ TagsBut({})'
        /\ \A x, k : Belongs(x, k)' <=> Belongs(x, k)
    BY <2>1, <2>2 DEF Made, TagsBut, Belongs
  <2>4. \A x \in Shown : listing'[x].labels =
          IF x \in arg THEN listing[x].labels \ {l} ELSE listing[x].labels
    BY <1>9, <2>1 DEF Without
  <2>5. \A x \in Shown, k \in LabelIds : Agree(x, k)'
    BY <1>4, <2>2, <2>3, <2>4 DEF Unlisting, AgreeBut, Agree
  <2>6. AllAgree'
    BY <2>5 DEF AllAgree, AgreeBut, Shown
  <2>7. Phase(t)'
    BY <1>10, <2>2, <2>3, <2>6
  <2> QED
    BY <1>1, <1>3, <2>1, <2>3, <2>7, RunSteps
<1>g. CASE Delete(w)
  <2>1. c.do = "delete" /\ UNCHANGED <<listing, tagged>>
    BY <1>g, <1>2 DEF Delete, Ready, Now
  <2>2. l \in LabelIds
    BY <1>3, <1>4, <2>1, CallFields
  <2>3. AllAgree /\ TagsBut({}) /\ Plain(t)
    BY <1>1, <1>2, <1>8, <2>1, PhaseOf DEF Idles
  <2>4. CASE l \in Made
    <3>1. PICK e, f : /\ e = Command("untag", l, Nil)
                      /\ f = Command("unlist", l, DOMAIN listing)
      OBVIOUS
    <3>2. /\ e \in Calls /\ e.do = "untag" /\ e.id = l
          /\ f \in Calls /\ f.do = "unlist" /\ f.id = l /\ f.arg = Shown
      BY <1>9, <2>2, <3>1, PlainCalls DEF Command, Shown
    <3>3. PICK s : s = <<e, f>> \o t
      OBVIOUS
    <3>4. /\ label' = [label EXCEPT ![l] = Nil]
          /\ script' = [script EXCEPT ![w] = s]
      BY <1>g, <1>2, <1>4, <2>4, <3>1, <3>3 DEF Delete, Become, Now
    <3>5. Made' = Made \ {l} /\ \A k \in Made' : label'[k] = label[k]
      BY <1>9, <2>2, <3>4 DEF Made
    <3>6. /\ \A x : ~Belongs(x, l)'
          /\ \A x, k : k # l => (Belongs(x, k)' <=> Belongs(x, k))
      BY <3>5 DEF Belongs
    <3>7. AgreeBut(Shown, l)'
      BY <2>1, <2>3, <3>6 DEF AllAgree, AgreeBut, Agree, Shown
    <3>8. Unlisting(f)' /\ TagsBut({l})'
      BY <2>1, <2>3, <3>2, <3>5, <3>6, <3>7 DEF Unlisting, TagsBut, Shown
    <3>9. /\ s # <<>> /\ Head(s) = e /\ Tail(s) # <<>>
          /\ Head(Tail(s)) = f /\ Tail(Tail(s)) = t /\ s \in Seq(Calls)
      BY <1>3, <1>5, <3>2, <3>3, TwoAhead
    <3>10. Phase(s)'
      BY <1>7, <2>3, <3>2, <3>8, <3>9 DEF Phase, Deletes
    <3> QED
      BY <1>1, <3>4, <3>5, <3>9, <3>10, RunSteps
  <2>5. CASE l \notin Made
    <3>1. UNCHANGED label /\ script' = [script EXCEPT ![w] = <<>>]
      BY <1>g, <1>2, <1>4, <2>5 DEF Delete, Return, Now
    <3>2. Phase(<<>>)' /\ Made' = Made
      BY <1>6, <1>10, <2>1, <2>3, <3>1, PlainNone
    <3> QED
      BY <1>1, <1>5, <3>1, <3>2, RunSteps
  <2> QED
    BY <2>4, <2>5
<1>h. CASE Retitle(w)
  <2>1. /\ c.do = "retitle" /\ UNCHANGED <<listing, tagged>>
        /\ script' = [script EXCEPT ![w] = t]
    BY <1>h, <1>2, <1>5 DEF Retitle, Ready, Now, Proceed, Become
  <2>2. l \in LabelIds /\ arg \in Titles
    BY <1>3, <1>4, <2>1, CallFields
  <2>3. AllAgree /\ TagsBut({}) /\ Plain(t)
    BY <1>1, <1>2, <1>8, <2>1, PhaseOf DEF Idles
  <2> DEFINE free == l \in Made /\ ~TitleUsed(arg, Made \ {l})
  <2>4. CASE free
    <3>1. PICK d : d = [label[l] EXCEPT !.title = arg]
      OBVIOUS
    <3>2. d \in LabelDocs /\ label' = [label EXCEPT ![l] = d]
      BY <1>h, <1>2, <1>4, <1>9, <2>2, <2>4, <3>1, LabelTyped DEF Retitle, Now
    <3>3. d.public = label[l].public /\ d.members = label[l].members
      BY <1>9, <2>4, <3>1 DEF LabelDocs
    <3>4. Made' = Made /\ AgreeBut({}, l)'
      BY <2>1, <2>3, <2>4, <3>2, <3>3, MembersChange
    <3>5. AllAgree' /\ TagsBut({})'
      BY <2>1, <2>3, <3>4 DEF AllAgree, AgreeBut, TagsBut
    <3>6. Phase(t)'
      BY <1>10, <2>3, <3>5
    <3> QED
      BY <1>1, <1>3, <2>1, <3>4, <3>6, RunSteps
  <2>5. CASE ~free
    <3>1. UNCHANGED label
      BY <1>h, <1>2, <1>4, <2>5 DEF Retitle, Now
    <3>2. Phase(t)' /\ Made' = Made
      BY <1>6, <1>10, <2>1, <2>3, <3>1
    <3> QED
      BY <1>1, <1>3, <2>1, <3>2, RunSteps
  <2> QED
    BY <2>4, <2>5
<1>i. CASE AnswerRequest(w)
  <2>1. /\ c.do = "answer" /\ UNCHANGED <<label, listing, tagged>>
        /\ script' = [script EXCEPT ![w] = t]
    BY <1>i, <1>2, <1>5 DEF AnswerRequest, Ready, Now, Proceed, Become
  <2>2. AllAgree /\ TagsBut({}) /\ Plain(t)
    BY <1>1, <1>2, <1>8, <2>1, PhaseOf DEF Idles
  <2>3. Phase(t)' /\ Made' = Made
    BY <1>6, <1>10, <2>1, <2>2
  <2> QED
    BY <1>1, <1>3, <2>1, <2>3, RunSteps
<1>j. CASE TagOrUntag(w)
  <2>1. /\ c.do \in {"tag", "untag"} /\ UNCHANGED <<label, listing>>
        /\ tagged' = IF c.do = "tag" THEN tagged \cup {l} ELSE tagged \ {l}
        /\ script' = [script EXCEPT ![w] = t]
    BY <1>j, <1>2, <1>4, <1>5 DEF TagOrUntag, Ready, Now, Proceed, Become
  <2>2. Made' = Made /\ \A x, k : Belongs(x, k)' <=> Belongs(x, k)
    BY <2>1 DEF Made, Belongs
  <2>3. \A S, k : AgreeBut(S, k) => AgreeBut(S, k)'
    BY <2>1, <2>2 DEF AgreeBut, Agree, Shown
  <2>4. CASE c.do = "tag"
    <3>1. Tagging(c) /\ Plain(t) /\ TagsBut({})
      BY <1>1, <1>2, <2>4, PhaseOf
    <3>2. AllAgree' /\ TagsBut({})'
      BY <1>4, <2>1, <2>2, <2>3, <2>4, <3>1 DEF Tagging, AllAgree, TagsBut
    <3>3. Phase(t)'
      BY <1>10, <3>1, <3>2
    <3> QED
      BY <1>1, <1>3, <2>1, <2>2, <3>3, RunSteps
  <2>5. CASE c.do = "untag"
    <3>1. /\ TagsBut({l}) /\ t # <<>>
          /\ Unlisting(Head(t)) /\ Plain(Tail(t))
      BY <1>1, <1>2, <1>4, <2>5, PhaseOf
    <3>2. TagsBut({})'
      BY <2>1, <2>2, <2>5, <3>1 DEF TagsBut
    <3>3. Unlisting(Head(t))'
      BY <2>2, <2>3, <3>1 DEF Unlisting
    <3>4. Phase(t)'
      BY <1>11, <3>1, <3>2, <3>3
    <3> QED
      BY <1>1, <1>3, <2>1, <2>2, <3>4, RunSteps
  <2> QED
    BY <2>1, <2>4, <2>5
<1> QED
  BY <1>a, <1>b, <1>k, <1>c, <1>d, <1>e, <1>f, <1>g, <1>h, <1>i, <1>j DEF Runs

LEMMA StepAgrees ==
  ASSUME LabelsAssumption, OneWorker, TypeOK, Room, AgreeInv,
         [Next \/ Stop]_vars
  PROVE  AgreeInv'
<1>0. TypeOK'
  BY StepTypeOK
<1>1. CASE UNCHANGED vars
  <2>1. /\ UNCHANGED <<label, listing, tagged>> /\ ids' = ids
        /\ script' = script
    BY <1>1 DEF vars, docs
  <2> QED
    BY <2>1 DEF AgreeInv, Fresh, Made, Phase, Idles, Finishes, Creates,
       Deletes, FoundLabel, Listing, Unlisting, Inserting, Tagging, AllAgree,
       AgreeBut, Agree, Belongs, TagsBut, Plain, Shown, Receives
<1>2. CASE Next
  <2>1. PICK w \in Workers :
          \/ \E r \in Requests :
               CreateLabel(w, r) \/ Receive(w, r) \/ AskForLabel(w, r)
          \/ GetLabel(w) \/ Decisions(w) \/ Runs(w)
    BY <1>2 DEF Next, Serve, Decisions, Runs
  <2> QED
    BY <1>0, <2>1, RequestAgrees, GetAgrees, HandleAgrees, RunAgrees
<1> QED
  BY <1>1, <1>2 DEF Stop

(* With one worker, whatever was created, approved, answered again or      *)
(* removed: between requests every account lists exactly the labels it is  *)
(* a member of, the public list exactly the public ones, and no post has a *)
(* label that does not exist.                                              *)
THEOREM LabelsStayAgreed ==
  LabelsAssumption /\ OneWorker /\ Spec => []LabelsAgree
<1> SUFFICES ASSUME LabelsAssumption, OneWorker
             PROVE  Spec => []LabelsAgree
  OBVIOUS
<1>1. Init => TypeOK /\ Room /\ AgreeInv
  <2> SUFFICES ASSUME Init PROVE AgreeInv
    BY InitTypeOK
  <2>1. Made = {} /\ tagged = {} /\ \A w \in Workers : script[w] = <<>>
    BY DEF Init, Made
  <2>2. AllAgree
    BY <2>1 DEF Init, AllAgree, AgreeBut, Agree, Belongs, Shown
  <2>3. \A r : <<>> # <<Decide(r)>>
    BY Openings
  <2> QED
    BY <2>1, <2>2, <2>3, PlainNone DEF AgreeInv, Fresh, FoundLabel, Phase,
       Idles, TagsBut
<1>2. TypeOK /\ Room /\ AgreeInv /\ [Next \/ Stop]_vars =>
        TypeOK' /\ Room' /\ AgreeInv'
  BY StepTypeOK, StepAgrees
<1>3. TypeOK /\ AgreeInv => LabelsAgree
  <2> SUFFICES ASSUME TypeOK, AgreeInv, Quiet PROVE LabelsAgree
    BY DEF LabelsAgree
  <2>1. PICK w : Workers = {w}
    BY DEF OneWorker
  <2>2. script[w] = <<>> /\ Phase(script[w])
    BY <2>1 DEF Quiet, AgreeInv
  <2>3. AllAgree /\ TagsBut({})
    BY <2>2 DEF Phase, Idles, Finishes, Creates, Deletes
  <2>4. \A t \in Shown : listing[t].labels \subseteq LabelIds
    BY DEF TypeOK, Lists, Shown
  <2> QED
    BY <2>3, <2>4, PublicApart
       DEF LabelsAgree, AllAgree, AgreeBut, Agree, Belongs, TagsBut, Shown, Made
<1> QED
  BY <1>1, <1>2, <1>3, PTL DEF Spec
=============================================================================
