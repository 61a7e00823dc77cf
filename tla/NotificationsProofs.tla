------------------------- MODULE NotificationsProofs -------------------------
(***************************************************************************)
(* What Notifications keeps for any accounts, posts, tasks, places,        *)
(* workers, requests and bounds.                                           *)
(***************************************************************************)
EXTENDS Notifications, FiniteSetTheorems, SequenceTheorems, TLAPS

-----------------------------------------------------------------------------
(* Scripts.                                                                *)

(* Only the first command counts: it is the second half of an insert.      *)
CountsFirst(s) == \A i \in 2..Len(s) : s[i].do # "count"

(* Those a comment mentions are told before its watchers are asked for.    *)
MentionsBefore(s) ==
  \/ \A i \in 1..Len(s) : s[i].do # "mention"
  \/ Len(s) > 0 /\ s[Len(s)].do = "watchers"

Shaped(s) == s \in Seq(Commands) /\ CountsFirst(s) /\ MentionsBefore(s)

(* What may come before the rest of a script.                              *)
Fresh(s) ==
  /\ s \in Seq(Commands) /\ CountsFirst(s)
  /\ \A i \in 1..Len(s) : s[i].do # "mention"

ScriptsShaped == \A w \in Workers : Shaped(script[w])

LEMMA Listing ==
  ASSUME NEW S, IsFiniteSet(S)
  PROVE  /\ Cardinality(S) \in Nat
         /\ SetToSeq(S) \in [1..Cardinality(S) -> S]
<1>1. Cardinality(S) \in Nat /\ ExistsBijection(1..Cardinality(S), S)
  BY FS_CardinalityType
<1>2. \E f \in [1..Cardinality(S) -> S] : IsInjective(f)
  BY <1>1 DEF ExistsBijection, Bijection, Injection, IsInjective
<1> QED
  BY <1>1, <1>2 DEF SetToSeq

LEMMA Rest ==
  ASSUME NEW s, Shaped(s), s # <<>>
  PROVE  /\ Head(s) \in Commands /\ Head(s) = s[1] /\ Len(s) \in Nat /\ Len(s) > 0
         /\ Shaped(Tail(s)) /\ Tail(s) \in Seq(Commands)
         /\ \A i \in 1..Len(Tail(s)) : Tail(s)[i].do # "count"
<1>1. /\ Head(s) \in Commands /\ Tail(s) \in Seq(Commands)
      /\ Len(Tail(s)) = Len(s) - 1
      /\ \A i \in 1..Len(Tail(s)) : Tail(s)[i] = s[i + 1]
      /\ Len(s) \in Nat /\ Len(s) > 0
  BY HeadTailProperties, EmptySeq DEF Shaped
<1>2. \A i \in 1..Len(Tail(s)) : Tail(s)[i].do # "count"
  BY <1>1 DEF Shaped, CountsFirst
<1>3. MentionsBefore(Tail(s))
  <2> DEFINE t == Tail(s)
  <2>1. Len(t) = Len(s) - 1 /\ \A i \in 1..Len(t) : t[i] = s[i + 1]
    BY <1>1
  <2> SUFFICES MentionsBefore(t)
    OBVIOUS
  <2> HIDE DEF t
  <2>2. CASE Len(s) = 1
    BY <1>1, <2>1, <2>2 DEF MentionsBefore
  <2>3. CASE Len(s) > 1 /\ s[Len(s)].do = "watchers"
    BY <1>1, <2>1, <2>3 DEF MentionsBefore
  <2>4. CASE \A i \in 1..Len(s) : s[i].do # "mention"
    BY <1>1, <2>1, <2>4 DEF MentionsBefore
  <2>5. Len(s) = 1 \/ Len(s) > 1
    BY <1>1
  <2>6. (\A i \in 1..Len(s) : s[i].do # "mention") \/ s[Len(s)].do = "watchers"
    BY DEF Shaped, MentionsBefore
  <2> QED
    BY <2>2, <2>3, <2>4, <2>5, <2>6
<1>4. CountsFirst(Tail(s))
  BY <1>1, <1>2 DEF CountsFirst
<1>5. Head(s) = s[1]
  BY <1>1 DEF Shaped
<1> QED
  BY <1>1, <1>2, <1>3, <1>4, <1>5 DEF Shaped

LEMMA Putting ==
  ASSUME NEW s, Shaped(s), s # <<>>, NEW p, Fresh(p)
  PROVE  /\ Shaped(p \o Tail(s))
         /\ p # <<>> => p \o Tail(s) # <<>> /\ Head(p \o Tail(s)) = p[1]
         /\ p = <<>> => p \o Tail(s) = Tail(s)
<1> DEFINE t == Tail(s)
           m == Len(p)
           n == Len(t)
<1>1. /\ t \in Seq(Commands) /\ p \in Seq(Commands) /\ Shaped(t)
      /\ \A i \in 1..n : t[i].do # "count"
  BY Rest DEF Fresh
<1>2. m \in Nat /\ n \in Nat
  BY <1>1
<1> HIDE DEF t
<1>3. /\ p \o t \in Seq(Commands) /\ Len(p \o t) = m + n
      /\ \A i \in 1..(m + n) : (p \o t)[i] = IF i <= m THEN p[i] ELSE t[i - m]
  BY <1>1, ConcatProperties
<1> HIDE DEF m, n
<1>4. CountsFirst(p \o t)
  <2>1. ASSUME NEW i \in 2..(m + n)
        PROVE  (p \o t)[i].do # "count"
    <3>1. CASE i <= m
      <4>1. i \in 2..m /\ (p \o t)[i] = p[i]
        BY <1>2, <1>3, <3>1
      <4> QED
        BY <4>1 DEF Fresh, CountsFirst, m
    <3>2. CASE i > m
      <4>1. i - m \in 1..n /\ (p \o t)[i] = t[i - m]
        BY <1>2, <1>3, <3>2
      <4> QED
        BY <1>1, <4>1
    <3>3. i <= m \/ i > m
      BY <1>2
    <3> QED
      BY <3>1, <3>2, <3>3
  <2> QED
    BY <1>3, <2>1 DEF CountsFirst
<1>5. MentionsBefore(p \o t)
  <2>1. CASE n > 0 /\ t[n].do = "watchers"
    <3>1. (p \o t)[m + n] = t[n] /\ m + n > 0
      BY <1>2, <1>3, <2>1
    <3> QED
      BY <1>3, <2>1, <3>1 DEF MentionsBefore
  <2>2. CASE \A i \in 1..n : t[i].do # "mention"
    <3>1. ASSUME NEW i \in 1..(m + n)
          PROVE  (p \o t)[i].do # "mention"
      <4>1. CASE i <= m
        <5>1. i \in 1..m /\ (p \o t)[i] = p[i]
          BY <1>2, <1>3, <4>1
        <5> QED
          BY <5>1 DEF Fresh, m
      <4>2. CASE i > m
        <5>1. i - m \in 1..n /\ (p \o t)[i] = t[i - m]
          BY <1>2, <1>3, <4>2
        <5> QED
          BY <2>2, <5>1
      <4>3. i <= m \/ i > m
        BY <1>2
      <4> QED
        BY <4>1, <4>2, <4>3
    <3> QED
      BY <1>3, <3>1 DEF MentionsBefore
  <2> QED
    BY <1>1, <2>1, <2>2 DEF Shaped, MentionsBefore, n
<1>6. p # <<>> => p \o t # <<>> /\ Head(p \o t) = p[1]
  <2> SUFFICES ASSUME p # <<>> PROVE p \o t # <<>> /\ Head(p \o t) = p[1]
    OBVIOUS
  <2>1. m > 0
    BY <1>1, EmptySeq DEF m
  <2>2. (p \o t)[1] = p[1] /\ Len(p \o t) > 0
    BY <1>2, <1>3, <2>1
  <2> QED
    BY <1>3, <2>2
<1>7. p = <<>> => p \o t = t
  BY <1>1, ConcatEmptySeq
<1> QED
  BY <1>3, <1>4, <1>5, <1>6, <1>7 DEF Shaped, t

LEMMA ShortFresh ==
  /\ Fresh(<<>>)
  /\ \A c \in Commands : c.do # "mention" =>
       Fresh(<<c>>) /\ <<c>> # <<>> /\ <<c>>[1] = c
<1>1. <<>> \in Seq(Commands) /\ Len(<<>>) = 0
  BY EmptySeq
<1>2. \A c \in Commands : <<c>> \in Seq(Commands) /\ Len(<<c>>) = 1 /\ <<c>>[1] = c
  OBVIOUS
<1>3. Fresh(<<>>)
  BY <1>1 DEF Fresh, CountsFirst
<1>4. ASSUME NEW c \in Commands, c.do # "mention"
      PROVE  Fresh(<<c>>) /\ <<c>> # <<>> /\ <<c>>[1] = c
  BY <1>2, <1>4 DEF Fresh, CountsFirst
<1> QED
  BY <1>3, <1>4

(* Commands that neither count nor ask for the access of someone.          *)
Plain(s) ==
  /\ s \in Seq(Commands)
  /\ \A i \in 1..Len(s) : s[i].do \notin {"count", "mention"}

LEMMA PlainShaped ==
  ASSUME NEW s, Plain(s)
  PROVE  Fresh(s) /\ Shaped(s)
  BY DEF Plain, Fresh, Shaped, CountsFirst, MentionsBefore

LEMMA PlainEach ==
  ASSUME NEW n \in Nat, NEW s \in [1..n -> Commands],
         \A i \in 1..n : s[i].do \notin {"count", "mention"}
  PROVE  Plain(s)
<1>1. s \in Seq(Commands) /\ Len(s) = n
  OBVIOUS
<1> QED
  BY <1>1 DEF Plain

LEMMA PlainShort ==
  /\ Plain(<<>>)
  /\ \A c \in Commands : c.do \notin {"count", "mention"} => Plain(<<c>>)
<1>1. <<>> \in Seq(Commands) /\ Len(<<>>) = 0
  BY EmptySeq
<1>2. \A c \in Commands : <<c>> \in Seq(Commands) /\ Len(<<c>>) = 1 /\ <<c>>[1] = c
  OBVIOUS
<1>3. Plain(<<>>)
  BY <1>1 DEF Plain
<1>4. ASSUME NEW c \in Commands, c.do \notin {"count", "mention"}
      PROVE  Plain(<<c>>)
  BY <1>2, <1>4 DEF Plain
<1> QED
  BY <1>3, <1>4

LEMMA PlainConcat ==
  ASSUME NEW s, NEW t, Plain(s), Plain(t)
  PROVE  Plain(s \o t)
<1> DEFINE m == Len(s)
           n == Len(t)
<1>1. s \in Seq(Commands) /\ t \in Seq(Commands) /\ m \in Nat /\ n \in Nat
  BY DEF Plain
<1>2. /\ s \o t \in Seq(Commands) /\ Len(s \o t) = m + n
      /\ \A i \in 1..(m + n) : (s \o t)[i] = IF i <= m THEN s[i] ELSE t[i - m]
  BY <1>1, ConcatProperties
<1> HIDE DEF m, n
<1>3. ASSUME NEW i \in 1..(m + n)
      PROVE  (s \o t)[i].do \notin {"count", "mention"}
  <2>1. CASE i <= m
    <3>1. i \in 1..m /\ (s \o t)[i] = s[i]
      BY <1>1, <1>2, <2>1
    <3> QED
      BY <3>1 DEF Plain, m
  <2>2. CASE i > m
    <3>1. i - m \in 1..n /\ (s \o t)[i] = t[i - m]
      BY <1>1, <1>2, <2>2
    <3> QED
      BY <3>1 DEF Plain, n
  <2>3. i <= m \/ i > m
    BY <1>1
  <2> QED
    BY <2>1, <2>2, <2>3
<1> QED
  BY <1>2, <1>3 DEF Plain

LEMMA Makes ==
  ASSUME NEW kind \in Single \cup Merged, NEW to \in Accounts \cup {Nil},
         NEW item \in Items, NEW by \in Accounts
  PROVE  /\ Add(kind, to, item, by) \in Commands
         /\ Merge(kind, to, item, by) \in Commands
         /\ Add(kind, to, item, by).do = "insert"
         /\ Merge(kind, to, item, by).do = "merge"
  BY DEF Add, Merge, Command, Commands

LEMMA RequestFields ==
  ASSUME NotificationsAssumption, NEW r \in Requests
  PROVE  /\ Complete(r) /\ r.who \in Accounts /\ r.item \in Items
         /\ r.to \in SUBSET Accounts /\ r.n \in Nat /\ r \in RequestType
         /\ r.op \in Events \cup
              {"read_all", "read", "read_post", "remove", "reset", "leave"}
  BY DEF NotificationsAssumption, RequestType

LEMMA SomeAccounts ==
  ASSUME NotificationsAssumption, NEW S \in SUBSET Accounts
  PROVE  /\ Cardinality(S) \in Nat
         /\ SetToSeq(S) \in [1..Cardinality(S) -> S]
<1>1. IsFiniteSet(S)
  BY FS_Subset DEF NotificationsAssumption
<1> QED
  BY <1>1, Listing

(* Notifications of one kind about one item, for each of some accounts.    *)
LEMMA AddEach ==
  ASSUME NotificationsAssumption, NEW S \in SUBSET Accounts,
         NEW kind \in Single \cup Merged, NEW item \in Items, NEW by \in Accounts
  PROVE  /\ Plain([i \in 1..Cardinality(S) |->
                     Add(kind, SetToSeq(S)[i], item, by)])
         /\ Plain([i \in 1..Cardinality(S) |->
                     Merge(kind, SetToSeq(S)[i], item, by)])
         /\ \A i \in 1..Cardinality(S) :
              /\ Add(kind, SetToSeq(S)[i], item, by) \in Commands
              /\ Add(kind, SetToSeq(S)[i], item, by).do = "insert"
<1> DEFINE n == Cardinality(S)
           q == SetToSeq(S)
<1>1. n \in Nat /\ \A i \in 1..n : q[i] \in Accounts \cup {Nil}
  BY SomeAccounts
<1> HIDE DEF n, q
<1>2. \A i \in 1..n :
        /\ Add(kind, q[i], item, by) \in Commands
        /\ Merge(kind, q[i], item, by) \in Commands
        /\ Add(kind, q[i], item, by).do = "insert"
        /\ Merge(kind, q[i], item, by).do = "merge"
  BY <1>1, Makes
<1> DEFINE s == [i \in 1..n |-> Add(kind, q[i], item, by)]
           t == [i \in 1..n |-> Merge(kind, q[i], item, by)]
<1>3. /\ s \in [1..n -> Commands] /\ t \in [1..n -> Commands]
      /\ \A i \in 1..n : s[i].do = "insert" /\ t[i].do = "merge"
  BY <1>2
<1>4. Plain(s) /\ Plain(t)
  <2> HIDE DEF s, t
  <2> QED
    BY <1>1, <1>3, PlainEach
<1> QED
  BY <1>2, <1>4 DEF s, t, n, q

(* The assignee and the assignor, or who of them is told.                  *)
LEMMA Roles ==
  ASSUME NotificationsAssumption, NEW r \in Requests, r.item \in Tasks, NEW told
  PROVE  BothRoles(r, told) \in Seq(Accounts \cup {Nil})
<1>1. Assignee[r.item] \in Accounts \cup {Nil} /\ Assignor[r.item] \in Accounts
  BY DEF NotificationsAssumption
<1> DEFINE S == Accounts \cup {Nil}
           x == told \cup {r.who}
<1>2. /\ Unless(Assignee[r.item], x) \in Seq(S)
      /\ Unless(Assignor[r.item], x) \in Seq(S)
  <2>1. Assignee[r.item] \in S /\ Assignor[r.item] \in S
    BY <1>1
  <2> HIDE DEF S, x
  <2>2. <<>> \in Seq(S) /\ \A a \in S : <<a>> \in Seq(S)
    OBVIOUS
  <2> QED
    BY <2>1, <2>2 DEF Unless
<1> QED
  BY <1>2, ConcatProperties DEF BothRoles

LEMMA AddRoles ==
  ASSUME NotificationsAssumption, NEW q \in Seq(Accounts \cup {Nil}),
         NEW kind \in Single \cup Merged, NEW item \in Items, NEW by \in Accounts
  PROVE  /\ Plain([i \in 1..Len(q) |-> Add(kind, q[i], item, by)])
         /\ Plain([i \in 1..Len(q) |-> Merge(kind, q[i], item, by)])
<1> DEFINE n == Len(q)
           s == [i \in 1..n |-> Add(kind, q[i], item, by)]
           t == [i \in 1..n |-> Merge(kind, q[i], item, by)]
<1>1. n \in Nat /\ \A i \in 1..n : q[i] \in Accounts \cup {Nil}
  OBVIOUS
<1> HIDE DEF n
<1>2. /\ s \in [1..n -> Commands] /\ t \in [1..n -> Commands]
      /\ \A i \in 1..n : s[i].do = "insert" /\ t[i].do = "merge"
  BY <1>1, Makes
<1>3. Plain(s) /\ Plain(t)
  <2> HIDE DEF s, t
  <2> QED
    BY <1>1, <1>2, PlainEach
<1> QED
  BY <1>3 DEF n

LEMMA CommentShaped ==
  ASSUME NotificationsAssumption, NEW r \in Requests, r.op = "comment"
  PROVE  /\ Shaped(Calls(r))
         /\ \A i \in 1..Len(Calls(r)) : Calls(r)[i].do # "count"
<1> DEFINE n == Cardinality(r.to)
           q == SetToSeq(r.to)
           s == [i \in 1..n |->
                   Command("mention", "mention", q[i], r.item, r.who)]
           c == Command("watchers", "comment", Nil, r.item, [r EXCEPT !.to = {}])
<1>1. /\ r.item \in Posts /\ r.who \in Accounts /\ r.to \in SUBSET Accounts
      /\ r \in RequestType
  BY RequestFields DEF Complete
<1>2. n \in Nat /\ \A i \in 1..n : q[i] \in Accounts
  BY <1>1, SomeAccounts
<1>3. c \in Commands /\ c.do = "watchers"
  <2>1. [r EXCEPT !.to = {}] \in {x \in RequestType : x.item \in Posts}
    BY <1>1 DEF RequestType
  <2> QED
    BY <1>1, <2>1 DEF Command, Commands
<1>4. Calls(r) = s \o <<c>>
  BY DEF Calls, PostCommentAdded, ForEach
<1> HIDE DEF n, q, c
<1>5. s \in Seq(Commands) /\ Len(s) = n /\ \A i \in 1..n : s[i].do = "mention"
  <2>1. \A i \in 1..n :
          Command("mention", "mention", q[i], r.item, r.who) \in Commands
    BY <1>1, <1>2 DEF Command, Commands
  <2> QED
    BY <1>2, <2>1 DEF Command
<1> HIDE DEF s
<1>6. /\ s \o <<c>> \in Seq(Commands) /\ Len(s \o <<c>>) = n + 1
      /\ \A i \in 1..n : (s \o <<c>>)[i] = s[i]
      /\ (s \o <<c>>)[n + 1] = c
  <2>1. s \o <<c>> = Append(s, c)
    BY <1>3, <1>5, AppendIsConcat
  <2> QED
    BY <1>3, <1>5, <2>1, AppendProperties
<1>7. \A i \in 1..(n + 1) : (s \o <<c>>)[i].do # "count"
  <2>1. \A i \in 1..(n + 1) : i \in 1..n \/ i = n + 1
    BY <1>2
  <2> QED
    BY <1>3, <1>5, <1>6, <2>1
<1>8. MentionsBefore(s \o <<c>>)
  BY <1>2, <1>3, <1>6 DEF MentionsBefore
<1> QED
  BY <1>2, <1>4, <1>6, <1>7, <1>8 DEF Shaped, CountsFirst

LEMMA OthersPlain ==
  ASSUME NotificationsAssumption, NEW r \in Requests, r.op # "comment"
  PROVE  Plain(Calls(r))
<1>0. /\ r.who \in Accounts /\ r.to \in SUBSET Accounts /\ r.item \in Items
      /\ r.n \in Nat /\ Complete(r)
  BY RequestFields
<1>1. CASE r.op \in {"joined", "promoted", "demoted", "session", "approved",
                     "rejected"}
  <2>1. Calls(r) = Told(r) /\ r.op \in Single \cup Merged
    BY <1>1 DEF Calls, Single
  <2> QED
    BY <1>0, <2>1, AddEach DEF Told, ForEach
<1>2. CASE r.op = "added"
  <2>1. Calls(r) = AddedTo(r) /\ r.op \in Single \cup Merged
    BY <1>2 DEF Calls, Single
  <2>2. r.to \ {r.who} \in SUBSET Accounts
    BY <1>0
  <2> QED
    BY <1>0, <2>1, <2>2, AddEach DEF AddedTo, ForEach
<1>3. CASE r.op = "settings"
  <2>1. Calls(r) = PlaceSettingsUpdated(r) /\ "settings" \in Single \cup Merged
    BY <1>3 DEF Calls, Merged
  <2>2. Creators[r.item] \ {r.who} \in SUBSET Accounts
    BY <1>0, <1>3 DEF Complete, NotificationsAssumption
  <2> QED
    BY <1>0, <2>1, <2>2, AddEach DEF PlaceSettingsUpdated, ForEach
<1>4. CASE r.op = "assigned"
  <2>1. /\ Calls(r) = TaskAssigned(r) /\ "assigned" \in Single \cup Merged
        /\ r.item \in Tasks
    BY <1>0, <1>4 DEF Calls, Single, Complete
  <2>2. /\ Assignee[r.item] \in Accounts \cup {Nil}
        /\ Assignor[r.item] \in Accounts
    BY <2>1 DEF NotificationsAssumption
  <2> QED
    BY <1>0, <2>1, <2>2, Makes, PlainShort DEF TaskAssigned
<1>5. CASE r.op = "decided"
  <2>1. /\ Calls(r) = TaskDecided(r) /\ "decided" \in Single \cup Merged
        /\ r.item \in Tasks
    BY <1>0, <1>5 DEF Calls, Single, Complete
  <2>2. Assignor[r.item] \in Accounts
    BY <2>1 DEF NotificationsAssumption
  <2> QED
    BY <1>0, <2>1, <2>2, Makes, PlainShort DEF TaskDecided
<1>6. CASE r.op = "state"
  <2>1. /\ Calls(r) = TaskStatusChanged(r) /\ "state" \in Single \cup Merged
        /\ r.item \in Tasks
    BY <1>0, <1>6 DEF Calls, Single, Complete
  <2> QED
    BY <1>0, <2>1, Roles, AddRoles DEF TaskStatusChanged
<1>7. CASE r.op = "task_comment"
  <2>1. /\ Calls(r) = TaskCommentAdded(r) /\ r.item \in Tasks
        /\ "task_comment" \in Single \cup Merged
        /\ "task_mention" \in Single \cup Merged
    BY <1>0, <1>7 DEF Calls, Single, Merged, Complete
  <2> DEFINE mentioned == r.to \cap TaskReaders[r.item]
             others == BothRoles(r, mentioned)
  <2>2. mentioned \in SUBSET Accounts /\ others \in Seq(Accounts \cup {Nil})
    BY <1>0, <2>1, Roles
  <2> HIDE DEF mentioned, others
  <2>3. Plain([i \in 1..Cardinality(mentioned) |->
                 Add("task_mention", SetToSeq(mentioned)[i], r.item, r.who)])
    BY <1>0, <2>1, <2>2, AddEach
  <2>4. Plain([i \in 1..Len(others) |->
                 Merge("task_comment", others[i], r.item, r.who)])
    BY <1>0, <2>1, <2>2, AddRoles
  <2> QED
    BY <2>1, <2>3, <2>4, PlainConcat
       DEF TaskCommentAdded, ForEach, mentioned, others
<1>8. CASE r.op \in {"read_all", "read", "read_post", "remove", "reset", "leave"}
  <2>1. Calls(r) = <<Command(r.op, Nil, r.n, r.item, r.who)>>
    BY <1>8 DEF Calls
  <2>2. Command(r.op, Nil, r.n, r.item, r.who) \in Commands
    BY <1>0, <1>8 DEF Command, Commands, Complete
  <2> QED
    BY <1>8, <2>1, <2>2, PlainShort DEF Command
<1> QED
  BY <1>1, <1>2, <1>3, <1>4, <1>5, <1>6, <1>7, <1>8, RequestFields
     DEF Events, Single, Merged, Mentions

(* What a request calls counts nothing before it inserts.                  *)
LEMMA CallsShaped ==
  ASSUME NotificationsAssumption, NEW r \in Requests
  PROVE  /\ Shaped(Calls(r))
         /\ \A i \in 1..Len(Calls(r)) : Calls(r)[i].do # "count"
<1>1. CASE r.op = "comment"
  BY <1>1, CommentShaped
<1>2. CASE r.op # "comment"
  <2>1. Plain(Calls(r))
    BY <1>2, OthersPlain
  <2> QED
    BY <2>1, PlainShaped DEF Plain
<1> QED
  BY <1>1, <1>2

-----------------------------------------------------------------------------
(* Type correctness.                                                       *)

(* A worker that finished a command has `p' before the rest.               *)
LEMMA Became ==
  ASSUME TypeOK, ScriptsShaped, NEW w \in Workers, script[w] # <<>>,
         NEW p, Fresh(p), Become(w, p)
  PROVE  /\ script' \in [Workers -> Seq(Commands)] /\ ScriptsShaped'
         /\ \A v \in Workers : v # w => script'[v] = script[v]
         /\ p # <<>> => script'[w] # <<>> /\ Head(script'[w]) = p[1]
         /\ p = <<>> /\ script'[w] # <<>> => Head(script'[w]).do # "count"
<1> DEFINE s == p \o Tail(script[w])
<1>1. script \in [Workers -> Seq(Commands)] /\ \A v \in Workers : Shaped(script[v])
  BY DEF TypeOK, ScriptsShaped
<1>2. /\ Shaped(s)
      /\ p # <<>> => s # <<>> /\ Head(s) = p[1]
      /\ p = <<>> => s = Tail(script[w])
  BY <1>1, Putting
<1>3. p = <<>> /\ s # <<>> => Head(s).do # "count"
  <2> SUFFICES ASSUME p = <<>>, s # <<>> PROVE Head(s).do # "count"
    OBVIOUS
  <2>1. /\ \A i \in 1..Len(s) : s[i].do # "count"
        /\ Shaped(s)
    BY <1>1, <1>2, Rest
  <2> HIDE DEF s
  <2>2. Head(s) = s[1] /\ Len(s) \in Nat /\ Len(s) > 0
    BY <2>1, Rest
  <2> QED
    BY <2>1, <2>2
<1>4. script' = [script EXCEPT ![w] = s]
  BY DEF Become
<1> HIDE DEF s
<1>5. /\ script' \in [Workers -> Seq(Commands)] /\ script'[w] = s
      /\ \A v \in Workers : v # w => script'[v] = script[v]
  BY <1>1, <1>2, <1>4 DEF Shaped
<1>6. ScriptsShaped'
  BY <1>1, <1>2, <1>5 DEF ScriptsShaped, Shaped, CountsFirst, MentionsBefore, Commands,
     Items, RequestType
<1> QED
  BY <1>2, <1>3, <1>5, <1>6

(* The last command of a comment remembers another who was told.           *)
LEMMA Remembers ==
  ASSUME NotificationsAssumption, NEW s, Shaped(s), s # <<>>,
         Head(s).do = "mention"
  PROVE  Shaped([s EXCEPT ![Len(s)].by.to = @ \cup {Head(s).to}])
<1>1. Head(s) \in Commands /\ Head(s) = s[1] /\ Len(s) \in Nat /\ Len(s) > 0
  BY Rest
<1>2. Head(s).to \in Accounts
  BY <1>1 DEF Commands
<1> DEFINE n == Len(s)
           e == s[n]
           d == [e EXCEPT !.by.to = @ \cup {Head(s).to}]
<1>3. s \in Seq(Commands) /\ n \in 1..Len(s) /\ e.do = "watchers"
  BY <1>1 DEF Shaped, MentionsBefore
<1>4. e \in Commands
  BY <1>3
<1>5. d \in Commands /\ d.do = "watchers"
  <2>1. e \in [do : {"watchers"}, kind : {"comment"}, to : {Nil}, item : Posts,
               by : {r \in RequestType : r.item \in Posts}]
    BY <1>3, <1>4 DEF Commands
  <2> HIDE DEF e
  <2>2. [e.by EXCEPT !.to = @ \cup {Head(s).to}]
           \in {r \in RequestType : r.item \in Posts}
    BY <1>2, <2>1 DEF RequestType
  <2>3. d = [e EXCEPT !.by = [e.by EXCEPT !.to = @ \cup {Head(s).to}]]
    BY <2>1 DEF RequestType
  <2>4. d \in [do : {"watchers"}, kind : {"comment"}, to : {Nil}, item : Posts,
               by : {r \in RequestType : r.item \in Posts}]
    BY <2>1, <2>2, <2>3
  <2> QED
    BY <2>4 DEF Commands
<1>6. [s EXCEPT ![Len(s)].by.to = @ \cup {Head(s).to}] = [s EXCEPT ![n] = d]
  BY <1>3
<1> DEFINE t == [s EXCEPT ![n] = d]
<1> HIDE DEF d
<1>7. /\ t \in Seq(Commands) /\ Len(t) = Len(s)
      /\ \A i \in 1..Len(s) : t[i] = IF i = n THEN d ELSE s[i]
  BY <1>3, <1>5, ExceptSeq
<1> HIDE DEF t
<1>8. CountsFirst(t)
  BY <1>1, <1>5, <1>7 DEF Shaped, CountsFirst
<1>9. MentionsBefore(t)
  BY <1>1, <1>5, <1>7 DEF MentionsBefore
<1> QED
  BY <1>6, <1>7, <1>8, <1>9 DEF Shaped, t

LEMMA CommandFields ==
  ASSUME NEW c \in Commands
  PROVE  /\ c.do \in {"insert", "merge"} =>
              /\ c.kind \in Single \cup Merged /\ c.to \in Accounts \cup {Nil}
              /\ c.item \in Items /\ c.by \in Accounts
         /\ c.do = "count" => c.to \in Accounts \cup {Nil}
         /\ c.do \in {"mention", "watcher"} =>
              c.to \in Accounts /\ c.item \in Posts
         /\ c.do = "mention" => c.by \in Accounts
         /\ c.do = "watcher" =>
              /\ c.kind = "comment" /\ c.by.who \in Accounts
              /\ c.by.told \in BOOLEAN
         /\ c.do = "watchers" =>
              /\ c.by \in RequestType /\ c.by.item \in Posts
         /\ c.do \in {"read_all", "read", "remove", "reset", "read_post",
                      "leave"} => c.by \in Accounts
         /\ c.do \in {"read_post", "leave"} => c.item \in Posts
  BY SMT DEF Commands

LEMMA AtHead ==
  ASSUME TypeOK, ScriptsShaped, NEW w \in Workers, script[w] # <<>>
  PROVE  Now(w) \in Commands /\ Shaped(script[w])
  BY Rest DEF ScriptsShaped, Now

LEMMA PostItems ==
  /\ Posts \subseteq Items /\ Tasks \subseteq Items /\ Places \subseteq Items
  /\ {"mention", "comment"} \subseteq Single \cup Merged
  BY DEF Items, Single, Merged

LEMMA AppendNotice ==
  ASSUME notice \in Seq(NoticeDocs), NEW c \in Commands, c.do = "insert"
  PROVE  Append(notice, [kind |-> c.kind, to |-> c.to, item |-> c.item,
                by |-> {c.by}, read |-> FALSE, removed |-> FALSE])
           \in Seq(NoticeDocs)
<1>1. [kind |-> c.kind, to |-> c.to, item |-> c.item, by |-> {c.by},
       read |-> FALSE, removed |-> FALSE] \in NoticeDocs
  BY CommandFields DEF NoticeDocs
<1> QED
  BY <1>1, AppendProperties

LEMMA NoticeDoc ==
  ASSUME NEW d \in NoticeDocs
  PROVE  /\ [d EXCEPT !.read = TRUE] \in NoticeDocs
         /\ [d EXCEPT !.removed = TRUE] \in NoticeDocs
         /\ \A a \in Accounts : [d EXCEPT !.by = @ \cup {a}] \in NoticeDocs
  BY DEF NoticeDocs

(* What the commands of a worker leave of it: it goes on, and only after   *)
(* an insert with a count.                                                 *)
Went(w) ==
  /\ script' \in [Workers -> Seq(Commands)] /\ ScriptsShaped'
  /\ \A v \in Workers : v # w => script'[v] = script[v]

Advances(w) ==
  Went(w) /\ (script'[w] # <<>> => Head(script'[w]).do # "count")

LEMMA Proceeds ==
  ASSUME TypeOK, ScriptsShaped, NEW w \in Workers, script[w] # <<>>, Proceed(w)
  PROVE  Advances(w)
<1>1. Fresh(<<>>)
  BY ShortFresh
<1> QED
  BY <1>1, Became DEF Advances, Went, Proceed

LEMMA Becomes ==
  ASSUME TypeOK, ScriptsShaped, NEW w \in Workers, script[w] # <<>>,
         NEW c \in Commands, c.do \notin {"mention", "count"}, Become(w, <<c>>)
  PROVE  Advances(w) /\ script'[w] # <<>> /\ Head(script'[w]) = c
<1>1. Fresh(<<c>>) /\ <<c>> # <<>> /\ <<c>>[1] = c
  BY ShortFresh
<1> QED
  BY <1>1, Became DEF Advances, Went

LEMMA Receives ==
  ASSUME NotificationsAssumption, TypeOK, ScriptsShaped, NEW w \in Workers,
         NEW r \in Requests, Receive(w, r)
  PROVE  Advances(w)
<1> DEFINE s == Calls(r)
<1>1. Shaped(s) /\ \A i \in 1..Len(s) : s[i].do # "count"
  BY CallsShaped
<1>2. script' = [script EXCEPT ![w] = s]
  BY DEF Receive
<1> HIDE DEF s
<1>3. s # <<>> => Head(s).do # "count"
  <2> SUFFICES ASSUME s # <<>> PROVE Head(s).do # "count"
    OBVIOUS
  <2>1. Head(s) = s[1] /\ Len(s) \in Nat /\ Len(s) > 0
    BY <1>1, Rest
  <2> QED
    BY <1>1, <2>1
<1>4. /\ script' \in [Workers -> Seq(Commands)] /\ script'[w] = s
      /\ \A v \in Workers : v # w => script'[v] = script[v]
  BY <1>1, <1>2 DEF TypeOK, Shaped
<1>5. ScriptsShaped'
  BY <1>1, <1>4 DEF ScriptsShaped, Shaped, CountsFirst, MentionsBefore, Commands,
     Items, RequestType
<1> QED
  BY <1>3, <1>4, <1>5 DEF Advances, Went

LEMMA Mentioned ==
  ASSUME NotificationsAssumption, TypeOK, ScriptsShaped, NEW w \in Workers,
         Mention(w)
  PROVE  Advances(w)
<1> DEFINE s == script[w]
           c == Now(w)
<1>1. s # <<>> /\ Head(s).do = "mention" /\ c = Head(s) /\ c \in Commands /\ Shaped(s)
  BY AtHead DEF Mention, Ready, Now
<1>2. CASE ~HasAccess(c.to, c.item)
  BY <1>1, <1>2, Proceeds DEF Mention
<1>3. CASE HasAccess(c.to, c.item)
  <2> DEFINE n == Add("mention", c.to, c.item, c.by)
             t == [s EXCEPT ![Len(s)].by.to = @ \cup {Head(s).to}]
             z == <<n>> \o Tail(t)
  <2>1. n \in Commands /\ n.do = "insert"
    BY <1>1, CommandFields, Makes, PostItems
  <2>2. Shaped(t) /\ t # <<>>
    <3>1. Shaped(t)
      BY <1>1, Remembers
    <3>2. Len(t) = Len(s) /\ Len(s) > 0
      BY <1>1, Rest DEF Shaped
    <3> QED
      BY <3>1, <3>2
  <2>3. script' = [script EXCEPT ![w] = z]
    BY <1>1, <1>3 DEF Mention, Now
  <2> HIDE DEF n, t, s
  <2>4. Shaped(z) /\ z # <<>> /\ Head(z) = n
    <3>1. Fresh(<<n>>) /\ <<n>> # <<>> /\ <<n>>[1] = n
      BY <2>1, ShortFresh
    <3> QED
      BY <2>2, <3>1, Putting
  <2> HIDE DEF z
  <2>5. /\ script' \in [Workers -> Seq(Commands)] /\ script'[w] = z
        /\ \A v \in Workers : v # w => script'[v] = script[v]
    BY <2>3, <2>4 DEF TypeOK, Shaped
  <2>6. ScriptsShaped'
    BY <2>4, <2>5 DEF ScriptsShaped, Shaped, CountsFirst, MentionsBefore, Commands,
       Items, RequestType
  <2> QED
    BY <2>1, <2>4, <2>5, <2>6 DEF Advances, Went
<1> QED
  BY <1>2, <1>3

LEMMA WatchersAsked ==
  ASSUME NotificationsAssumption, TypeOK, ScriptsShaped, NEW w \in Workers,
         AskWatchers(w)
  PROVE  Advances(w)
<1> DEFINE r == Now(w).by
           S == watching[r.item]
           n == Cardinality(S)
           q == SetToSeq(S)
           s == [i \in 1..n |-> Command("watcher", "comment", q[i], r.item,
                                  [who |-> r.who, told |-> q[i] \in r.to])]
<1>1. script[w] # <<>> /\ Now(w) \in Commands /\ Now(w).do = "watchers"
  BY AtHead DEF AskWatchers, Ready, Now
<1>2. r \in RequestType /\ r.item \in Posts /\ r.who \in Accounts
  BY <1>1, CommandFields DEF RequestType
<1>3. Become(w, s)
  BY DEF AskWatchers, ForEach
<1> HIDE DEF r
<1>4. S \in SUBSET Accounts
  BY <1>2 DEF TypeOK
<1> HIDE DEF S
<1>5. n \in Nat /\ q \in [1..n -> Accounts]
  BY <1>4, SomeAccounts
<1> HIDE DEF n, q
<1>6. s \in [1..n -> Commands] /\ \A i \in 1..n : s[i].do = "watcher"
  <2>1. ASSUME NEW i \in 1..n
        PROVE  Command("watcher", "comment", q[i], r.item,
                       [who |-> r.who, told |-> q[i] \in r.to]) \in Commands
    <3>1. q[i] \in Accounts /\ (q[i] \in r.to) \in BOOLEAN
      BY <1>5
    <3> DEFINE b == q[i] \in r.to
    <3>2. b \in BOOLEAN
      BY <3>1
    <3> HIDE DEF b
    <3>3. [who |-> r.who, told |-> b] \in [who : Accounts, told : BOOLEAN]
      BY <1>2, <3>2
    <3>4. Command("watcher", "comment", q[i], r.item, [who |-> r.who, told |-> b])
            \in Commands
      BY <1>2, <3>1, <3>3 DEF Command, Commands
    <3> QED
      BY <3>4 DEF b
  <2>2. s \in [1..n -> Commands]
    BY <2>1
  <2>3. \A i \in 1..n : s[i].do = "watcher"
    BY DEF Command
  <2> QED
    BY <2>2, <2>3
<1> HIDE DEF s
<1>7. Plain(s) /\ Fresh(s)
  BY <1>5, <1>6, PlainEach, PlainShaped
<1>8. Went(w) /\ (s # <<>> => Head(script'[w]) = s[1])
      /\ (s = <<>> /\ script'[w] # <<>> => Head(script'[w]).do # "count")
  BY <1>1, <1>3, <1>7, Became DEF Went
<1>9. s # <<>> => s[1].do # "count"
  BY <1>7, EmptySeq DEF Plain
<1> QED
  BY <1>8, <1>9 DEF Advances

(* Notifications, counters, watchers and readers have their types.         *)
DocsOK ==
  /\ notice \in Seq(NoticeDocs)
  /\ counters \in [Accounts -> [total : Nat, unread : Nat]]
  /\ watching \in [Posts -> SUBSET Accounts]
  /\ readers \in [Posts -> SUBSET Accounts]

LEMMA DocsAndScripts ==
  /\ TypeOK <=> DocsOK /\ script \in [Workers -> Seq(Commands)]
  /\ DocsOK /\ UNCHANGED <<notice, counters, watching, readers>> => DocsOK'
  /\ \A w : DocsOK' /\ Went(w) => TypeOK' /\ ScriptsShaped'
<1>1. TypeOK <=> DocsOK /\ script \in [Workers -> Seq(Commands)]
  BY DEF TypeOK, DocsOK
<1>2. DocsOK /\ UNCHANGED <<notice, counters, watching, readers>> => DocsOK'
  BY DEF DocsOK, NoticeDocs, Items
<1>3. \A w : DocsOK' /\ Went(w) => TypeOK' /\ ScriptsShaped'
  BY DEF TypeOK, DocsOK, Went, Commands, Items, RequestType
<1> QED
  BY <1>1, <1>2, <1>3

LEMMA WatcherTyped ==
  ASSUME NotificationsAssumption, TypeOK, ScriptsShaped, NEW w \in Workers,
         Watcher(w)
  PROVE  /\ TypeOK' /\ ScriptsShaped' /\ Advances(w)
         /\ \/ owed' = owed
            \/ \E a \in Accounts, p \in Posts, b \in Accounts :
                 /\ owed' = owed \cup {<<a, p, b>>}
                 /\ script'[w] # <<>>
                 /\ Head(script'[w]) = Merge("comment", a, p, b)
<1> DEFINE c == Now(w)
           a == c.to
           p == c.item
           b == c.by.who
<1>1. script[w] # <<>> /\ c \in Commands /\ c.do = "watcher"
  BY AtHead DEF Watcher, Ready, Now
<1>2. a \in Accounts /\ p \in Posts /\ b \in Accounts
  BY <1>1, CommandFields
<1>3. DocsOK'
  <2>1. watching' \in [Posts -> SUBSET Accounts]
    <3>1. watching' = watching \/ watching' = [watching EXCEPT ![p] = @ \ {a}]
      BY DEF Watcher
    <3> QED
      BY <1>2, <3>1 DEF TypeOK
  <2> QED
    BY <2>1, DocsAndScripts DEF Watcher, DocsOK, NoticeDocs, Items
<1>4. CASE HasAccess(a, p) /\ a # b /\ ~c.by.told
  <2> DEFINE m == Merge("comment", a, p, b)
  <2>1. m \in Commands /\ m.do = "merge"
    BY <1>2, Makes, PostItems
  <2>2. Become(w, <<m>>) /\ owed' = owed \cup {<<a, p, b>>}
    BY <1>4 DEF Watcher
  <2> HIDE DEF m
  <2>3. Advances(w) /\ script'[w] # <<>> /\ Head(script'[w]) = m
    BY <1>1, <2>1, <2>2, Becomes
  <2> HIDE DEF a, b, c, p
  <2> QED
    BY <1>2, <1>3, <2>2, <2>3, DocsAndScripts DEF Advances, m
<1>5. CASE ~(HasAccess(a, p) /\ a # b /\ ~c.by.told)
  <2>1. Proceed(w) /\ owed' = owed
    BY <1>5 DEF Watcher
  <2> QED
    BY <1>1, <1>3, <2>1, Proceeds, DocsAndScripts DEF Advances
<1> QED
  BY <1>4, <1>5

LEMMA AddedToTyped ==
  ASSUME NotificationsAssumption, TypeOK, ScriptsShaped, NEW w \in Workers,
         AddToNotice(w)
  PROVE  /\ TypeOK' /\ ScriptsShaped' /\ Advances(w)
         /\ LET c == Now(w)
            IN \/ /\ notice' = notice /\ script'[w] # <<>>
                  /\ Head(script'[w]) = Add(c.kind, c.to, c.item, c.by)
               \/ \E i \in DOMAIN notice :
                    /\ Matches(notice[i], c)
                    /\ notice' = [notice EXCEPT ![i].by =
                         IF c.kind = "settings" THEN @ ELSE @ \cup {c.by}]
<1> DEFINE c == Now(w)
           same == {i \in DOMAIN notice : Matches(notice[i], c)}
<1>1. script[w] # <<>> /\ c \in Commands /\ c.do = "merge"
  BY AtHead DEF AddToNotice, Ready, Now
<1>2. /\ c.kind \in Single \cup Merged /\ c.to \in Accounts \cup {Nil}
      /\ c.item \in Items /\ c.by \in Accounts
  BY <1>1, CommandFields
<1>3. CASE same = {}
  <2> DEFINE m == Add(c.kind, c.to, c.item, c.by)
  <2>1. m \in Commands /\ m.do = "insert"
    BY <1>2, Makes
  <2>2. Become(w, <<m>>) /\ notice' = notice
    BY <1>3 DEF AddToNotice
  <2>3. DocsOK'
    BY <2>2, DocsAndScripts DEF AddToNotice
  <2> HIDE DEF m
  <2>4. Advances(w) /\ script'[w] # <<>> /\ Head(script'[w]) = m
    BY <1>1, <2>1, <2>2, Becomes
  <2> HIDE DEF c
  <2> QED
    BY <2>2, <2>3, <2>4, DocsAndScripts DEF Advances, m, c
<1>4. CASE same # {}
  <2>1. Proceed(w)
    BY <1>4 DEF AddToNotice
  <2>2. PICK i \in same : notice' = [notice EXCEPT ![i].by =
                   IF c.kind = "settings" THEN @ ELSE @ \cup {c.by}]
    BY <1>4 DEF AddToNotice
  <2>3. notice \in Seq(NoticeDocs) /\ i \in 1..Len(notice)
        /\ notice[i] \in NoticeDocs /\ Matches(notice[i], c)
    BY <2>2 DEF TypeOK
  <2>4. PICK d \in NoticeDocs : notice' = [notice EXCEPT ![i] = d]
    <3>1. [notice[i] EXCEPT !.by = IF c.kind = "settings" THEN @
                                   ELSE @ \cup {c.by}] \in NoticeDocs
      BY <1>2, <2>3 DEF NoticeDocs
    <3> QED
      BY <2>2, <3>1
  <2>5. DocsOK'
    <3>1. notice' \in Seq(NoticeDocs)
      BY <2>3, <2>4, ExceptSeq
    <3> QED
      BY <3>1, DocsAndScripts DEF AddToNotice, DocsOK, NoticeDocs, Items
  <2>6. Advances(w)
    BY <1>1, <2>1, Proceeds
  <2>7. i \in DOMAIN notice
    BY <2>2
  <2> HIDE DEF c
  <2> QED
    BY <2>2, <2>3, <2>5, <2>6, <2>7, DocsAndScripts DEF Advances, c
<1> QED
  BY <1>3, <1>4

LEMMA InsertTyped ==
  ASSUME NotificationsAssumption, TypeOK, ScriptsShaped, NEW w \in Workers,
         Insert(w)
  PROVE  /\ TypeOK' /\ ScriptsShaped' /\ Went(w)
         /\ script'[w] # <<>> /\ Head(script'[w]).do = "count"
         /\ Head(script'[w]).to = Now(w).to
         /\ Now(w) \in Commands /\ Now(w).do = "insert" /\ script[w] # <<>>
<1> DEFINE c == Now(w)
           m == Command("count", Nil, c.to, Nil, Nil)
<1>1. script[w] # <<>> /\ c \in Commands /\ c.do = "insert"
  BY AtHead DEF Insert, Ready, Now
<1>2. c.to \in Accounts \cup {Nil}
  BY <1>1, CommandFields
<1>3. m \in Commands /\ m.do = "count" /\ m.to = c.to
  BY <1>2 DEF Command, Commands
<1>4. Become(w, <<m>>)
  BY DEF Insert
<1>5. DocsOK'
  <2>1. notice' \in Seq(NoticeDocs)
    BY <1>1, AppendNotice DEF Insert, TypeOK
  <2> QED
    BY <2>1, DocsAndScripts DEF Insert, DocsOK, NoticeDocs, Items
<1> HIDE DEF m
<1>6. Fresh(<<m>>) /\ <<m>> # <<>> /\ <<m>>[1] = m
  BY <1>3, ShortFresh
<1>7. Went(w) /\ script'[w] # <<>> /\ Head(script'[w]) = m
  BY <1>1, <1>4, <1>6, Became DEF Went
<1> QED
  BY <1>1, <1>3, <1>5, <1>7, DocsAndScripts

LEMMA CountTyped ==
  ASSUME NotificationsAssumption, TypeOK, ScriptsShaped, NEW w \in Workers,
         IncrementCounter(w)
  PROVE  TypeOK' /\ ScriptsShaped' /\ Advances(w)
<1>1. script[w] # <<>> /\ Now(w) \in Commands /\ Now(w).do = "count"
  BY AtHead DEF IncrementCounter, Ready, Now
<1>2. Now(w).to \in Accounts \cup {Nil}
  BY <1>1, CommandFields
<1>3. counters' \in [Accounts -> [total : Nat, unread : Nat]]
  BY <1>2 DEF IncrementCounter, TypeOK
<1>4. DocsOK'
  BY <1>3, DocsAndScripts DEF IncrementCounter, DocsOK, NoticeDocs, Items
<1> QED
  BY <1>1, <1>4, Proceeds, DocsAndScripts DEF IncrementCounter, Advances

LEMMA ReadTyped ==
  ASSUME NotificationsAssumption, TypeOK, ScriptsShaped, NEW w \in Workers,
         MarkAsRead(w) \/ RemoveNotice(w)
  PROVE  TypeOK' /\ ScriptsShaped' /\ Advances(w)
<1>1. notice' \in Seq(NoticeDocs)
  <2>0. notice \in Seq(NoticeDocs) /\ DOMAIN notice = 1..Len(notice)
        /\ Len(notice) \in Nat
    BY DEF TypeOK
  <2>a. \A i \in 1..Len(notice) : notice[i] \in NoticeDocs
    BY <2>0
  <2>1. CASE MarkAsRead(w)
    <3>1. PICK ns : notice' = Marked(ns)
      BY <2>1 DEF MarkAsRead
    <3>2. ASSUME NEW i \in 1..Len(notice)
          PROVE  (IF i \in ns THEN [notice[i] EXCEPT !.read = TRUE]
                  ELSE notice[i]) \in NoticeDocs
      BY <2>a, NoticeDoc
    <3>3. notice' = [i \in 1..Len(notice) |->
                       IF i \in ns THEN [notice[i] EXCEPT !.read = TRUE]
                       ELSE notice[i]]
      BY <2>0, <3>1 DEF Marked
    <3> DEFINE n == Len(notice)
    <3>4. n \in Nat /\ notice' \in [1..n -> NoticeDocs]
      BY <2>0, <3>2, <3>3
    <3> HIDE DEF n
    <3> QED
      BY <3>4
  <2>2. CASE RemoveNotice(w)
    <3> DEFINE i == Now(w).to
    <3>1. \/ notice' = notice
          \/ i \in DOMAIN notice /\ notice' = [notice EXCEPT ![i].removed = TRUE]
      BY <2>2 DEF RemoveNotice
    <3> HIDE DEF i
    <3>2. CASE i \in DOMAIN notice /\ notice' = [notice EXCEPT ![i].removed = TRUE]
      <4> DEFINE d == [notice[i] EXCEPT !.removed = TRUE]
      <4>1. d \in NoticeDocs
        <5>1. notice[i] \in NoticeDocs
          BY <2>0, <2>a, <3>2
        <5> QED
          BY <5>1, NoticeDoc
      <4>2. notice' = [notice EXCEPT ![i] = d]
        BY <3>2
      <4>3. i \in 1..Len(notice)
        BY <2>0, <3>2
      <4> HIDE DEF d
      <4>4. [notice EXCEPT ![i] = d] \in Seq(NoticeDocs)
        BY ONLY <2>0, <4>1, <4>3, ExceptSeq
      <4> QED
        BY <4>2, <4>4
    <3> QED
      BY <2>0, <3>1, <3>2
  <2> QED
    BY <2>1, <2>2
<1>2. DocsOK'
  BY <1>1, DocsAndScripts DEF MarkAsRead, RemoveNotice, DocsOK, NoticeDocs, Items
<1>3. script[w] # <<>> /\ Proceed(w)
  BY DEF MarkAsRead, RemoveNotice, Ready
<1> QED
  BY <1>2, <1>3, Proceeds, DocsAndScripts DEF Advances

LEMMA ResetTyped ==
  ASSUME NotificationsAssumption, TypeOK, ScriptsShaped, NEW w \in Workers,
         ResetCounter(w) \/ Leave(w)
  PROVE  TypeOK' /\ ScriptsShaped' /\ Advances(w)
<1>1. /\ counters' \in [Accounts -> [total : Nat, unread : Nat]]
      /\ readers' \in [Posts -> SUBSET Accounts]
  <2>1. CASE ResetCounter(w)
    BY <2>1 DEF ResetCounter, TypeOK
  <2>2. CASE Leave(w)
    BY <2>2 DEF Leave, TypeOK
  <2> QED
    BY <2>1, <2>2
<1>2. DocsOK'
  BY <1>1, DocsAndScripts DEF ResetCounter, Leave, DocsOK, NoticeDocs, Items
<1>3. script[w] # <<>> /\ Proceed(w)
  BY DEF ResetCounter, Leave, Ready
<1> QED
  BY <1>2, <1>3, Proceeds, DocsAndScripts DEF Advances

(* Steps that leave the documents as they are.                             *)
LEMMA AskTyped ==
  ASSUME NotificationsAssumption, TypeOK, ScriptsShaped, NEW w \in Workers,
         (\E r \in Requests : Receive(w, r)) \/ Mention(w) \/ AskWatchers(w)
  PROVE  TypeOK' /\ ScriptsShaped' /\ Advances(w)
<1>1. DocsOK'
  BY DocsAndScripts DEF Receive, Mention, AskWatchers
<1>2. Advances(w)
  BY Receives, Mentioned, WatchersAsked
<1> QED
  BY <1>1, <1>2, DocsAndScripts DEF Advances

LEMMA StepTypeOK ==
  ASSUME NotificationsAssumption, TypeOK, ScriptsShaped, [Next \/ Stop]_vars
  PROVE  TypeOK' /\ ScriptsShaped'
<1>1. CASE UNCHANGED vars
  <2>1. DocsOK' /\ script' \in [Workers -> Seq(Commands)]
    BY <1>1, DocsAndScripts DEF vars
  <2> QED
    BY <1>1, <2>1 DEF vars, TypeOK, DocsOK, ScriptsShaped, Shaped, CountsFirst,
       MentionsBefore, Commands, Items, RequestType
<1>2. CASE Next
  BY <1>2, AskTyped, WatcherTyped, AddedToTyped, InsertTyped, CountTyped,
     ReadTyped, ResetTyped DEF Next, Work
<1> QED
  BY <1>1, <1>2 DEF Stop

LEMMA InitTypeOK ==
  ASSUME NotificationsAssumption, Init
  PROVE  TypeOK /\ ScriptsShaped
<1>1. DocsOK
  <2>1. <<>> \in Seq(NoticeDocs)
    BY EmptySeq
  <2> QED
    BY <2>1 DEF Init, DocsOK, NotificationsAssumption
<1>2. Shaped(<<>>)
  BY PlainShort, PlainShaped
<1> QED
  BY <1>1, <1>2, DocsAndScripts DEF Init, ScriptsShaped, Shaped

(* However handlers and the pusher interleave: notifications, counters,    *)
(* watchers and readers have their types, and what the pusher has yet to   *)
(* do is made of commands with arguments of theirs.                        *)
THEOREM TypeCorrect ==
  NotificationsAssumption /\ Spec => []TypeOK
<1> SUFFICES ASSUME NotificationsAssumption
             PROVE  Spec => []TypeOK
  OBVIOUS
<1>1. Init => TypeOK /\ ScriptsShaped
  BY InitTypeOK
<1>2. TypeOK /\ ScriptsShaped /\ [Next \/ Stop]_vars => TypeOK' /\ ScriptsShaped'
  BY StepTypeOK
<1> QED
  BY <1>1, <1>2, PTL DEF Spec

-----------------------------------------------------------------------------
(* Counters.                                                               *)

(* Workers that have inserted a notification and not counted it yet.       *)
Counting(w, a) ==
  script[w] # <<>> /\ Head(script[w]).do = "count" /\ Head(script[w]).to = a
Owing(a) == {w \in Workers : Counting(w, a)}

(* Whatever was inserted has been counted, or is about to be.              *)
Tally ==
  \A a \in Accounts :
    counters[a].total + Cardinality(Owing(a)) = Cardinality(To(a))

LEMMA Finite ==
  ASSUME NotificationsAssumption, TypeOK, NEW a \in Accounts
  PROVE  /\ IsFiniteSet(To(a)) /\ IsFiniteSet(Owing(a))
         /\ Cardinality(To(a)) \in Nat /\ Cardinality(Owing(a)) \in Nat
         /\ counters[a].total \in Nat
<1>1. Len(notice) \in Nat /\ DOMAIN notice = 1..Len(notice)
  BY DEF TypeOK
<1>2. IsFiniteSet(1..Len(notice))
  BY <1>1, FS_Interval
<1>3. To(a) \subseteq 1..Len(notice) /\ Owing(a) \subseteq Workers
  BY <1>1 DEF To, Owing
<1>4. IsFiniteSet(To(a)) /\ IsFiniteSet(Owing(a))
  BY <1>2, <1>3, FS_Subset DEF NotificationsAssumption
<1> QED
  BY <1>4, FS_CardinalityType DEF TypeOK

(* The other workers count what they did.                                  *)
LEMMA OwingElse ==
  ASSUME NEW w \in Workers, \A v \in Workers : v # w => script'[v] = script[v],
         NEW a
  PROVE  /\ Counting(w, a)' => Owing(a)' = Owing(a) \cup {w}
         /\ ~Counting(w, a)' => Owing(a)' = Owing(a) \ {w}
  BY DEF Owing, Counting

(* Steps that neither insert nor count.                                    *)
LEMMA TallyElse ==
  ASSUME Tally, NEW w \in Workers, Advances(w), script[w] = <<>> \/ Head(script[w]).do # "count",
         \A a \in Accounts : /\ counters'[a].total = counters[a].total
                             /\ To(a)' = To(a)
  PROVE  Tally'
<1>1. ASSUME NEW a \in Accounts
      PROVE  Owing(a)' = Owing(a)
  <2>1. ~Counting(w, a) /\ ~Counting(w, a)'
    BY DEF Counting, Advances
  <2> QED
    BY <2>1, OwingElse DEF Owing, Advances, Went
<1> QED
  BY <1>1 DEF Tally

LEMMA InsertTally ==
  ASSUME NotificationsAssumption, TypeOK, ScriptsShaped, Tally, NEW w \in Workers, Insert(w)
  PROVE  Tally'
<1> DEFINE c == Now(w)
           n == Len(notice)
           d == [kind |-> c.kind, to |-> c.to, item |-> c.item, by |-> {c.by},
                 read |-> FALSE, removed |-> FALSE]
<1>1. /\ Went(w) /\ script'[w] # <<>> /\ Head(script'[w]).do = "count"
      /\ Head(script'[w]).to = c.to
      /\ c \in Commands /\ c.do = "insert" /\ script[w] # <<>> /\ TypeOK'
  BY InsertTyped
<1>2. notice' = Append(notice, d) /\ counters' = counters /\ d.to = c.to
  BY DEF Insert
<1>3. /\ notice \in Seq(NoticeDocs) /\ n \in Nat /\ DOMAIN notice = 1..n
      /\ notice' \in Seq(NoticeDocs)
  BY <1>1 DEF TypeOK
<1>4. /\ DOMAIN notice' = 1..(n + 1) /\ notice'[n + 1].to = c.to
      /\ \A i \in 1..n : notice'[i] = notice[i]
  BY <1>2, <1>3
<1> HIDE DEF d, n
<1>5. ASSUME NEW a \in Accounts
      PROVE  counters'[a].total + Cardinality(Owing(a)') = Cardinality(To(a)')
  <2>1. /\ IsFiniteSet(To(a)) /\ IsFiniteSet(Owing(a))
        /\ Cardinality(To(a)) \in Nat /\ Cardinality(Owing(a)) \in Nat
        /\ counters[a].total \in Nat
        /\ counters[a].total + Cardinality(Owing(a)) = Cardinality(To(a))
    BY Finite DEF Tally
  <2>2. w \notin Owing(a) /\ n + 1 \notin To(a)
    BY <1>1, <1>3 DEF Owing, Counting, Now, To
  <2>3. CASE a = c.to
    <3>1. To(a)' = To(a) \cup {n + 1}
      BY <1>3, <1>4, <2>3 DEF To
    <3>2. Owing(a)' = Owing(a) \cup {w}
      <4>1. Counting(w, a)'
        BY <1>1, <2>3 DEF Counting
      <4> QED
        BY <1>1, <4>1, OwingElse DEF Went
    <3>3. /\ Cardinality(To(a) \cup {n + 1}) = Cardinality(To(a)) + 1
          /\ Cardinality(Owing(a) \cup {w}) = Cardinality(Owing(a)) + 1
      BY <2>1, <2>2, FS_AddElement
    <3>4. /\ Cardinality(To(a)') = Cardinality(To(a)) + 1
          /\ Cardinality(Owing(a)') = Cardinality(Owing(a)) + 1
      BY <3>1, <3>2, <3>3
    <3>5. counters'[a].total = counters[a].total
      BY <1>2
    <3> QED
      BY <2>1, <3>4, <3>5
  <2>4. CASE a # c.to
    <3>1. To(a)' = To(a)
      BY <1>3, <1>4, <2>4 DEF To
    <3>2. Owing(a)' = Owing(a)
      <4>1. ~Counting(w, a)'
        BY <1>1, <2>4 DEF Counting
      <4>2. Owing(a)' = Owing(a) \ {w}
        BY <1>1, <4>1, OwingElse DEF Went
      <4> QED
        BY <2>2, <4>2
    <3> QED
      BY <1>2, <2>1, <3>1, <3>2
  <2> QED
    BY <2>3, <2>4
<1> QED
  BY <1>5 DEF Tally

LEMMA CountTally ==
  ASSUME NotificationsAssumption, TypeOK, ScriptsShaped, Tally, NEW w \in Workers,
         IncrementCounter(w)
  PROVE  Tally'
<1> DEFINE b == Now(w).to
<1>1. /\ script[w] # <<>> /\ Head(script[w]).do = "count"
      /\ Head(script[w]).to = b /\ b \in Accounts \cup {Nil}
  <2>1. script[w] # <<>> /\ Now(w) \in Commands /\ Now(w).do = "count"
    BY AtHead DEF IncrementCounter, Ready, Now
  <2> QED
    BY <2>1, CommandFields DEF Now
<1>2. Advances(w) /\ notice' = notice
  BY CountTyped DEF IncrementCounter
<1>3. counters' = IF b = Nil THEN counters
                  ELSE [counters EXCEPT ![b].total = @ + 1, ![b].unread = @ + 1]
  BY DEF IncrementCounter
<1> HIDE DEF b
<1>4. ASSUME NEW a \in Accounts
      PROVE  counters'[a].total + Cardinality(Owing(a)') = Cardinality(To(a)')
  <2>1. /\ IsFiniteSet(Owing(a))
        /\ Cardinality(To(a)) \in Nat /\ Cardinality(Owing(a)) \in Nat
        /\ counters[a].total \in Nat
        /\ counters[a].total + Cardinality(Owing(a)) = Cardinality(To(a))
    BY Finite DEF Tally
  <2>2. To(a)' = To(a)
    BY <1>2 DEF To
  <2>3. Owing(a)' = Owing(a) \ {w}
    <3>1. ~Counting(w, a)'
      BY <1>2 DEF Counting, Advances
    <3> QED
      BY <1>2, <3>1, OwingElse DEF Advances, Went
  <2>4. CASE a = b
    <3>1. w \in Owing(a)
      BY <1>1, <2>4 DEF Owing, Counting
    <3>2. Cardinality(Owing(a) \ {w}) = Cardinality(Owing(a)) - 1
      BY <2>1, <3>1, FS_RemoveElement
    <3>3. counters'[a].total = counters[a].total + 1
      BY <1>3, <1>4, <2>4 DEF TypeOK, NotificationsAssumption
    <3> QED
      BY <2>1, <2>2, <2>3, <3>2, <3>3
  <2>5. CASE a # b
    <3>1. w \notin Owing(a)
      BY <1>1, <2>5 DEF Owing, Counting
    <3>2. Owing(a)' = Owing(a)
      BY <2>3, <3>1
    <3>3. counters'[a] = counters[a]
      BY <1>3, <1>4, <2>5 DEF TypeOK
    <3> QED
      BY <2>1, <2>2, <3>2, <3>3
  <2> QED
    BY <2>4, <2>5
<1> QED
  BY <1>4 DEF Tally

(* Reading, removing and adding to a notification keep whose it is.        *)
LEMMA SameTo ==
  ASSUME TypeOK, NEW i, NEW d,
         notice' = [notice EXCEPT ![i] = d], i \in DOMAIN notice => d.to = notice[i].to,
         NEW a
  PROVE  To(a)' = To(a)
<1>1. DOMAIN notice' = DOMAIN notice
  OBVIOUS
<1>2. \A j \in DOMAIN notice : notice'[j].to = notice[j].to
  OBVIOUS
<1> QED
  BY <1>1, <1>2 DEF To

LEMMA StepTally ==
  ASSUME NotificationsAssumption, TypeOK, ScriptsShaped, Tally, [Next \/ Stop]_vars
  PROVE  Tally'
<1>1. CASE UNCHANGED vars
  BY <1>1 DEF vars, Tally, Owing, Counting, To
<1>2. ASSUME NEW w \in Workers,
             \/ \E r \in Requests : Receive(w, r)
             \/ Mention(w) \/ AskWatchers(w) \/ Watcher(w)
      PROVE  Tally'
  <2>1. Advances(w)
    BY <1>2, AskTyped, WatcherTyped
  <2>2. script[w] = <<>> \/ Head(script[w]).do # "count"
    BY <1>2 DEF Receive, Mention, AskWatchers, Watcher, Ready
  <2>3. counters' = counters /\ \A a : To(a)' = To(a)
    BY <1>2 DEF Receive, Mention, AskWatchers, Watcher, To
  <2> QED
    BY <2>1, <2>2, <2>3, TallyElse
<1>3. ASSUME NEW w \in Workers, AddToNotice(w)
      PROVE  Tally'
  <2>1. Advances(w) /\ Head(script[w]).do # "count" /\ counters' = counters
    BY <1>3, AddedToTyped DEF AddToNotice, Ready
  <2>2. ASSUME NEW a \in Accounts
        PROVE  To(a)' = To(a)
    <3>1. CASE notice' = notice
      BY <3>1 DEF To
    <3>2. ASSUME NEW i \in DOMAIN notice, NEW b,
                 notice' = [notice EXCEPT ![i].by = b]
          PROVE  To(a)' = To(a)
      <4> DEFINE d == [notice[i] EXCEPT !.by = b]
      <4>1. notice' = [notice EXCEPT ![i] = d]
        BY <3>2
      <4>2. d.to = notice[i].to
        BY DEF TypeOK, NoticeDocs
      <4> HIDE DEF d
      <4> QED
        BY <4>1, <4>2, SameTo
    <3>3. notice' = notice \/ \E i \in DOMAIN notice : \E b :
            notice' = [notice EXCEPT ![i].by = b]
      BY <1>3, AddedToTyped
    <3> QED
      BY <3>1, <3>2, <3>3
  <2> QED
    BY <2>1, <2>2, TallyElse
<1>4. ASSUME NEW w \in Workers, MarkAsRead(w)
      PROVE  Tally'
  <2>1. Advances(w) /\ Head(script[w]).do # "count" /\ counters' = counters
    BY <1>4, ReadTyped DEF MarkAsRead, Ready
  <2>2. ASSUME NEW a \in Accounts
        PROVE  To(a)' = To(a)
    <3>1. PICK ns : notice' = Marked(ns)
      BY <1>4 DEF MarkAsRead
    <3>2. \A i \in DOMAIN notice : notice[i] \in NoticeDocs
      BY DEF TypeOK
    <3>3. \A i \in DOMAIN notice : notice'[i].to = notice[i].to
      BY <3>1, <3>2 DEF Marked, NoticeDocs
    <3>4. DOMAIN notice' = DOMAIN notice
      BY <3>1 DEF Marked
    <3> QED
      BY <3>3, <3>4 DEF To
  <2> QED
    BY <2>1, <2>2, TallyElse
<1>5. ASSUME NEW w \in Workers, RemoveNotice(w)
      PROVE  Tally'
  <2> DEFINE i == Now(w).to
  <2>1. Advances(w) /\ Head(script[w]).do # "count" /\ counters' = counters
    BY <1>5, ReadTyped DEF RemoveNotice, Ready
  <2>2. notice' = notice \/ notice' = [notice EXCEPT ![i].removed = TRUE]
    BY <1>5 DEF RemoveNotice
  <2> HIDE DEF i
  <2>3. ASSUME NEW a \in Accounts
        PROVE  To(a)' = To(a)
    <3>1. CASE notice' = notice
      BY <3>1 DEF To
    <3>2. CASE notice' = [notice EXCEPT ![i].removed = TRUE]
      <4> DEFINE d == [notice[i] EXCEPT !.removed = TRUE]
      <4>1. notice' = [notice EXCEPT ![i] = d]
        BY <3>2
      <4>2. i \in DOMAIN notice => d.to = notice[i].to
        BY DEF TypeOK, NoticeDocs
      <4> HIDE DEF d
      <4> QED
        BY <4>1, <4>2, SameTo
    <3> QED
      BY <2>2, <3>1, <3>2
  <2> QED
    BY <2>1, <2>3, TallyElse
<1>6. ASSUME NEW w \in Workers, ResetCounter(w) \/ Leave(w)
      PROVE  Tally'
  <2>1. Advances(w) /\ Head(script[w]).do # "count" /\ notice' = notice
    BY <1>6, ResetTyped DEF ResetCounter, Leave, Ready
  <2>2. \A a \in Accounts : counters'[a].total = counters[a].total
    <3>1. CASE ResetCounter(w)
      <4> DEFINE b == Now(w).by
      <4>1. counters' = [counters EXCEPT ![b].unread = 0]
        BY <3>1 DEF ResetCounter
      <4> HIDE DEF b
      <4> QED
        BY <4>1 DEF TypeOK
    <3>2. CASE Leave(w)
      BY <3>2 DEF Leave
    <3> QED
      BY <1>6, <3>1, <3>2
  <2>3. \A a : To(a)' = To(a)
    BY <2>1 DEF To
  <2> QED
    BY <2>1, <2>2, <2>3, TallyElse
<1>7. CASE Next
  BY <1>2, <1>3, <1>4, <1>5, <1>6, <1>7, InsertTally, CountTally DEF Next, Work
<1> QED
  BY <1>1, <1>7 DEF Stop

LEMMA InitTally ==
  ASSUME NotificationsAssumption, Init
  PROVE  Tally
<1>1. \A a \in Accounts : To(a) = {} /\ Owing(a) = {} /\ counters[a].total = 0
  BY DEF Init, To, Owing, Counting
<1> QED
  BY <1>1, FS_EmptySet DEF Tally

LEMMA TallyMeans ==
  ASSUME NotificationsAssumption, TypeOK, Tally
  PROVE  NoticesCounted
<1> SUFFICES ASSUME Quiet, NEW a \in Accounts
             PROVE  counters[a].total = Cardinality(To(a))
  BY DEF NoticesCounted
<1>1. Owing(a) = {}
  BY DEF Quiet, Owing, Counting
<1>2. Cardinality(Owing(a)) = 0
  BY <1>1, FS_EmptySet
<1> QED
  BY <1>2, Finite DEF Tally

(* However events are handled side by side: an insert and the count that   *)
(* follows it are two steps, but once the pusher and the handlers are done *)
(* an account has been counted as many notifications as it was sent.       *)
THEOREM CountersKept ==
  NotificationsAssumption /\ Spec => []NoticesCounted
<1> SUFFICES ASSUME NotificationsAssumption
             PROVE  Spec => []NoticesCounted
  OBVIOUS
<1> DEFINE Inv == TypeOK /\ ScriptsShaped /\ Tally
<1>1. Init => Inv
  BY InitTypeOK, InitTally
<1>2. Inv /\ [Next \/ Stop]_vars => Inv'
  BY StepTypeOK, StepTally
<1>3. Inv => NoticesCounted
  BY TallyMeans
<1> HIDE DEF Inv
<1> QED
  BY <1>1, <1>2, <1>3, PTL DEF Spec

-----------------------------------------------------------------------------
(* Commenters.                                                             *)

Names(n, o) ==
  /\ n.to = o[1] /\ n.kind = "comment" /\ n.item = o[2]
  /\ o[3] \in n.by /\ ~n.read /\ ~n.removed

Naming(w, o) ==
  /\ script[w] # <<>> /\ Head(script[w]).do \in {"merge", "insert"}
  /\ Head(script[w]).kind = "comment" /\ Head(script[w]).to = o[1]
  /\ Head(script[w]).item = o[2] /\ Head(script[w]).by = o[3]

(* Whoever commented is named, or the pusher is about to see to it.        *)
Owed(o) ==
  \/ \E i \in DOMAIN notice : Names(notice[i], o)
  \/ \E w \in Workers : Naming(w, o)
EachOwed == \A o \in owed : Owed(o)

(* A step of a worker that was not about to name anyone.                   *)
LEMMA OwedElse ==
  ASSUME EachOwed, NEW w \in Workers, Went(w),
         script[w] = <<>> \/ Head(script[w]).do \notin {"merge", "insert"},
         owed' \subseteq owed,
         \A o \in owed', i \in DOMAIN notice :
           Names(notice[i], o) => i \in DOMAIN notice' /\ Names(notice'[i], o)
  PROVE  EachOwed'
<1>1. ASSUME NEW o \in owed'
      PROVE  Owed(o)'
  <2>1. Owed(o)
    BY DEF EachOwed
  <2>2. CASE \E i \in DOMAIN notice : Names(notice[i], o)
    BY <2>2 DEF Owed
  <2>3. CASE \E v \in Workers : Naming(v, o)
    <3>1. PICK v \in Workers : Naming(v, o)
      BY <2>3
    <3>2. v # w
      BY <3>1 DEF Naming
    <3>3. Naming(v, o)'
      BY <3>1, <3>2 DEF Went, Naming
    <3> QED
      BY <3>3 DEF Owed
  <2> QED
    BY <2>1, <2>2, <2>3 DEF Owed
<1> QED
  BY <1>1 DEF EachOwed

LEMMA WatcherOwed ==
  ASSUME NotificationsAssumption, TypeOK, ScriptsShaped, EachOwed,
         NEW w \in Workers, Watcher(w)
  PROVE  EachOwed'
<1>1. /\ Went(w) /\ notice' = notice /\ script[w] # <<>>
      /\ Head(script[w]).do = "watcher"
  BY WatcherTyped DEF Watcher, Ready, Advances
<1>2. \A o : Owed(o) => Owed(o)'
  <2>1. ASSUME NEW o, NEW v \in Workers, Naming(v, o)
        PROVE  Naming(v, o)'
    <3>1. v # w
      BY <1>1, <2>1 DEF Naming
    <3> QED
      BY <1>1, <2>1, <3>1 DEF Went, Naming
  <2> QED
    BY <1>1, <2>1 DEF Owed
<1>3. CASE owed' = owed
  BY <1>2, <1>3 DEF EachOwed
<1>4. ASSUME NEW a \in Accounts, NEW p \in Posts, NEW b \in Accounts,
             owed' = owed \cup {<<a, p, b>>}, script'[w] # <<>>,
             Head(script'[w]) = Merge("comment", a, p, b)
      PROVE  EachOwed'
  <2>1. Naming(w, <<a, p, b>>)'
    BY <1>4 DEF Naming, Merge, Command
  <2> QED
    BY <1>2, <1>4, <2>1 DEF EachOwed, Owed
<1> QED
  BY <1>3, <1>4, WatcherTyped

LEMMA AddedOwed ==
  ASSUME NotificationsAssumption, TypeOK, ScriptsShaped, EachOwed,
         NEW w \in Workers, AddToNotice(w)
  PROVE  EachOwed'
<1> DEFINE c == Now(w)
<1>1. Went(w) /\ owed' = owed /\ script[w] # <<>> /\ c = Head(script[w])
  BY AddedToTyped DEF AddToNotice, Ready, Advances, Now
<1>2. \A v \in Workers : \A o : v # w /\ Naming(v, o) => Naming(v, o)'
  BY <1>1 DEF Went, Naming
<1>3. CASE /\ notice' = notice /\ script'[w] # <<>>
           /\ Head(script'[w]) = Add(c.kind, c.to, c.item, c.by)
  <2>1. \A o : Naming(w, o) => Naming(w, o)'
    BY <1>1, <1>3 DEF Naming, Add, Command
  <2> QED
    BY <1>1, <1>2, <1>3, <2>1 DEF EachOwed, Owed
<1>4. ASSUME NEW i \in DOMAIN notice, Matches(notice[i], c),
             notice' = [notice EXCEPT ![i].by =
                          IF c.kind = "settings" THEN @ ELSE @ \cup {c.by}]
      PROVE  EachOwed'
  <2> DEFINE d == [notice[i] EXCEPT !.by =
                     IF c.kind = "settings" THEN @ ELSE @ \cup {c.by}]
  <2>1. notice' = [notice EXCEPT ![i] = d] /\ DOMAIN notice' = DOMAIN notice
    BY <1>4
  <2>2. notice[i] \in NoticeDocs
    BY DEF TypeOK
  <2>3. \A o : Names(notice[i], o) => Names(d, o)
    BY <2>2 DEF Names, NoticeDocs
  <2>4. \A o : Naming(w, o) => Names(d, o)
    BY <1>1, <1>4, <2>2 DEF Naming, Names, NoticeDocs, Matches
  <2> HIDE DEF d, c
  <2>5. notice'[i] = d /\ \A j \in DOMAIN notice : j # i => notice'[j] = notice[j]
    BY <2>1
  <2>6. ASSUME NEW o \in owed
        PROVE  Owed(o)'
    <3>1. CASE \E j \in DOMAIN notice : Names(notice[j], o)
      <4>1. PICK j \in DOMAIN notice : Names(notice[j], o)
        BY <3>1
      <4>2. Names(notice'[j], o)
        BY <2>3, <2>5, <4>1
      <4> QED
        BY <2>1, <4>2 DEF Owed
    <3>2. CASE \E v \in Workers : Naming(v, o)
      <4>1. PICK v \in Workers : Naming(v, o)
        BY <3>2
      <4>2. CASE v = w
        BY <2>1, <2>4, <2>5, <4>1, <4>2 DEF Owed
      <4>3. CASE v # w
        BY <1>2, <4>1, <4>3 DEF Owed
      <4> QED
        BY <4>2, <4>3
    <3> QED
      BY <3>1, <3>2 DEF EachOwed, Owed
  <2> QED
    BY <1>1, <2>6 DEF EachOwed
<1> QED
  BY <1>3, <1>4, AddedToTyped

LEMMA InsertOwed ==
  ASSUME NotificationsAssumption, TypeOK, ScriptsShaped, EachOwed,
         NEW w \in Workers, Insert(w)
  PROVE  EachOwed'
<1> DEFINE c == Now(w)
           n == Len(notice)
           d == [kind |-> c.kind, to |-> c.to, item |-> c.item, by |-> {c.by},
                 read |-> FALSE, removed |-> FALSE]
<1>1. Went(w) /\ owed' = owed /\ c = Head(script[w])
  BY InsertTyped DEF Insert, Now
<1>2. \A v \in Workers : \A o : v # w /\ Naming(v, o) => Naming(v, o)'
  BY <1>1 DEF Went, Naming
<1>3. \A o : Naming(w, o) => Names(d, o)
  BY <1>1 DEF Naming, Names
<1>4. notice' = Append(notice, d) /\ notice \in Seq(NoticeDocs)
      /\ DOMAIN notice = 1..n /\ n \in Nat
  BY DEF Insert, TypeOK
<1> HIDE DEF d, n
<1>5. /\ n + 1 \in DOMAIN notice' /\ notice'[n + 1] = d
      /\ \A i \in DOMAIN notice : i \in DOMAIN notice' /\ notice'[i] = notice[i]
  BY <1>4 DEF n
<1>6. ASSUME NEW o \in owed
      PROVE  Owed(o)'
  <2>1. CASE \E j \in DOMAIN notice : Names(notice[j], o)
    <3>1. PICK j \in DOMAIN notice : Names(notice[j], o)
      BY <2>1
    <3>2. j \in DOMAIN notice' /\ Names(notice'[j], o)
      BY <1>5, <3>1
    <3> QED
      BY <3>2 DEF Owed
  <2>2. CASE \E v \in Workers : Naming(v, o)
    <3>1. PICK v \in Workers : Naming(v, o)
      BY <2>2
    <3>2. CASE v = w
      <4>1. n + 1 \in DOMAIN notice' /\ Names(notice'[n + 1], o)
        BY <1>3, <1>5, <3>1, <3>2
      <4> QED
        BY <4>1 DEF Owed
    <3>3. CASE v # w
      BY <1>2, <3>1, <3>3 DEF Owed
    <3> QED
      BY <3>2, <3>3
  <2> QED
    BY <2>1, <2>2 DEF EachOwed, Owed
<1> QED
  BY <1>1, <1>6 DEF EachOwed

LEMMA ReadOwed ==
  ASSUME NotificationsAssumption, TypeOK, ScriptsShaped, EachOwed,
         NEW w \in Workers, MarkAsRead(w)
  PROVE  EachOwed'
<1>1. /\ Went(w) /\ script[w] # <<>>
      /\ Head(script[w]).do \in {"read", "read_all", "read_post"}
  BY ReadTyped DEF MarkAsRead, Ready, Advances
<1>2. PICK ns : notice' = Marked(ns) /\ owed' = Settled(ns)
  BY DEF MarkAsRead
<1>3. owed' \subseteq owed
  BY <1>2 DEF Settled
<1>4. ASSUME NEW o \in owed', NEW i \in DOMAIN notice, Names(notice[i], o)
      PROVE  i \in DOMAIN notice' /\ Names(notice'[i], o)
  <2>1. i \notin ns
    BY <1>2, <1>4 DEF Settled, Names
  <2> QED
    BY <1>2, <1>4, <2>1 DEF Marked
<1> QED
  BY <1>1, <1>3, <1>4, OwedElse

LEMMA RemoveOwed ==
  ASSUME NotificationsAssumption, TypeOK, ScriptsShaped, EachOwed,
         NEW w \in Workers, RemoveNotice(w)
  PROVE  EachOwed'
<1> DEFINE j == Now(w).to
           own == {j} \cap {k \in DOMAIN notice : notice[k].to = Now(w).by}
<1>1. /\ Went(w) /\ script[w] # <<>> /\ Head(script[w]).do = "remove"
  BY ReadTyped DEF RemoveNotice, Ready, Advances
<1>2. /\ notice' = IF own = {} THEN notice
                   ELSE [notice EXCEPT ![j].removed = TRUE]
      /\ owed' = Settled(own) /\ own \subseteq {j}
  BY DEF RemoveNotice
<1> HIDE DEF j, own
<1>3. owed' \subseteq owed
  BY <1>2 DEF Settled
<1>4. ASSUME NEW o \in owed', NEW i \in DOMAIN notice, Names(notice[i], o)
      PROVE  i \in DOMAIN notice' /\ Names(notice'[i], o)
  <2>1. i \notin own
    BY <1>2, <1>4 DEF Settled, Names
  <2>2. i \in DOMAIN notice' /\ notice'[i] = notice[i]
    BY <1>2, <2>1
  <2> QED
    BY <1>4, <2>2
<1> QED
  BY <1>1, <1>3, <1>4, OwedElse

LEMMA StepOwed ==
  ASSUME NotificationsAssumption, TypeOK, ScriptsShaped, EachOwed,
         [Next \/ Stop]_vars
  PROVE  EachOwed'
<1>1. CASE UNCHANGED vars
  BY <1>1 DEF vars, EachOwed, Owed, Naming
<1>2. ASSUME NEW w \in Workers,
             \/ \E r \in Requests : Receive(w, r)
             \/ Mention(w) \/ AskWatchers(w) \/ IncrementCounter(w)
             \/ ResetCounter(w) \/ Leave(w)
      PROVE  EachOwed'
  <2>1. Went(w)
    BY <1>2, AskTyped, CountTyped, ResetTyped DEF Advances
  <2>2. script[w] = <<>> \/ Head(script[w]).do \notin {"merge", "insert"}
    BY <1>2 DEF Receive, Mention, AskWatchers, IncrementCounter, ResetCounter,
       Leave, Ready
  <2>3. notice' = notice /\ owed' = owed
    BY <1>2 DEF Receive, Mention, AskWatchers, IncrementCounter, ResetCounter,
       Leave
  <2> QED
    BY <2>1, <2>2, <2>3, OwedElse
<1>3. CASE Next
  BY <1>2, <1>3, WatcherOwed, AddedOwed, InsertOwed, ReadOwed, RemoveOwed
     DEF Next, Work
<1> QED
  BY <1>1, <1>3 DEF Stop

LEMMA OwedMeans ==
  ASSUME EachOwed
  PROVE  CommentersNamed
<1> SUFFICES ASSUME Quiet, NEW o \in owed
             PROVE  \E i \in DOMAIN notice : Names(notice[i], o)
  BY DEF CommentersNamed, Names, To
<1>1. \A w \in Workers : ~Naming(w, o)
  BY DEF Quiet, Naming
<1> QED
  BY <1>1 DEF EachOwed, Owed

(* However comments, reading and removing interleave: finding an unread    *)
(* notification, adding to it and inserting one are steps of their own,    *)
(* and still whoever watches a post and has not read its notifications     *)
(* since finds everyone who commented named in one.                        *)
THEOREM CommentersTold ==
  NotificationsAssumption /\ Spec => []CommentersNamed
<1> SUFFICES ASSUME NotificationsAssumption
             PROVE  Spec => []CommentersNamed
  OBVIOUS
<1> DEFINE Inv == TypeOK /\ ScriptsShaped /\ EachOwed
<1>1. Init => Inv
  BY InitTypeOK DEF Init, EachOwed
<1>2. Inv /\ [Next \/ Stop]_vars => Inv'
  BY StepTypeOK, StepOwed
<1>3. Inv => CommentersNamed
  BY OwedMeans
<1> HIDE DEF Inv
<1> QED
  BY <1>1, <1>2, <1>3, PTL DEF Spec
=============================================================================
