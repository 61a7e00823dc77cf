----------------------------- MODULE FilesProofs -----------------------------
(***************************************************************************)
(* What Files keeps for any files, posts, tasks, accounts, workers,        *)
(* requests and bounds, also when handlers die.                            *)
(***************************************************************************)
EXTENDS Files, FiniteSetTheorems, SequenceTheorems, TLAPS

-----------------------------------------------------------------------------
(* Flattened sequences.  What FlattenSeq gives is known by induction on    *)
(* the number of sequences, which rests on the least element of a set.     *)

LEMMA Least ==
  ASSUME NEW T \in SUBSET Nat, T # {}
  PROVE  \E x \in T : \A y \in T : x <= y
<1>1. PICK R : /\ IsWellFoundedOn(R, Nat)
               /\ \A x, y \in Nat : <<y, x>> \in R <=> y < x
  <2>1. \A x, y \in Nat : <<y, x>> \in OpToRel(<, Nat) <=> y < x
    BY DEF OpToRel
  <2> QED
    BY <2>1, NatLessThanWellFounded
<1>2. PICK x \in T : \A y \in T : ~ (<<y, x>> \in R)
  BY <1>1, WFMin, T \subseteq Nat
<1>3. ASSUME NEW y \in T
      PROVE  x <= y
  <2>1. x \in Nat /\ y \in Nat /\ ~(<<y, x>> \in R)
    BY <1>2
  <2>2. ~(y < x)
    BY <1>1, <2>1
  <2> QED
    BY <2>1, <2>2
<1> QED
  BY <1>3

LEMMA NatSets ==
  ASSUME NEW T, 0 \in T, \A n \in Nat : n \in T => n + 1 \in T
  PROVE  \A n \in Nat : n \in T
<1> SUFFICES ASSUME NEW m \in Nat, m \notin T PROVE FALSE
  OBVIOUS
<1> DEFINE U == {n \in Nat : n \notin T}
<1>1. PICK x \in U : \A y \in U : x <= y
  BY Least, U \in SUBSET Nat, U # {}
<1>2. x # 0 /\ x - 1 \in Nat
  OBVIOUS
<1>3. x - 1 \in T
  BY <1>1, <1>2
<1> QED
  BY <1>1, <1>2, <1>3

(* Each of `f' is a sequence of `s' behind all before it.                  *)
Joined(s, n, f) ==
  \A i \in 1..n : f[i] = IF i = 1 THEN s[i] ELSE f[i - 1] \o s[i]

LEMMA JoinExists ==
  ASSUME NEW S, NEW s \in Seq(Seq(S))
  PROVE  \A n \in Nat : n <= Len(s) => \E f \in [1..n -> Seq(S)] : Joined(s, n, f)
<1> DEFINE T == {n \in Nat : n <= Len(s) =>
                   \E f \in [1..n -> Seq(S)] : Joined(s, n, f)}
<1>1. 0 \in T
  <2>1. [i \in 1..0 |-> <<>>] \in [1..0 -> Seq(S)]
    OBVIOUS
  <2>2. \A f : Joined(s, 0, f)
    BY DEF Joined
  <2> QED
    BY <2>1, <2>2
<1>2. ASSUME NEW n \in Nat, n \in T
      PROVE  n + 1 \in T
  <2> SUFFICES ASSUME n + 1 <= Len(s)
               PROVE  \E f \in [1..(n + 1) -> Seq(S)] : Joined(s, n + 1, f)
    OBVIOUS
  <2>1. PICK f \in [1..n -> Seq(S)] : Joined(s, n, f)
    BY <1>2
  <2> DEFINE g == [i \in 1..(n + 1) |-> IF i <= n THEN f[i]
                     ELSE IF n = 0 THEN s[1] ELSE f[n] \o s[n + 1]]
  <2>2. g \in [1..(n + 1) -> Seq(S)]
    <3>1. s[n + 1] \in Seq(S) /\ (n = 0 => s[1] \in Seq(S))
      OBVIOUS
    <3>2. n # 0 => f[n] \in Seq(S)
      OBVIOUS
    <3>3. n # 0 => f[n] \o s[n + 1] \in Seq(S)
      BY <3>1, <3>2
    <3> QED
      BY <3>1, <3>3
  <2>3. Joined(s, n + 1, g)
    <3>1. ASSUME NEW i \in 1..(n + 1)
          PROVE  g[i] = IF i = 1 THEN s[i] ELSE g[i - 1] \o s[i]
      <4>1. CASE i <= n
        <5>1. g[i] = f[i] /\ (i # 1 => g[i - 1] = f[i - 1]) /\ i \in 1..n
          BY <4>1
        <5> QED
          BY <5>1, <2>1 DEF Joined
      <4>2. CASE i = n + 1 /\ n = 0
        BY <4>2
      <4>3. CASE i = n + 1 /\ n # 0
        <5>1. g[n] = f[n]
          BY <4>3
        <5> QED
          BY <4>3, <5>1
      <4> QED
        BY <4>1, <4>2, <4>3
    <3> QED
      BY <3>1 DEF Joined
  <2> QED
    BY <2>2, <2>3
<1> HIDE DEF T
<1>3. \A n \in Nat : n \in T
  BY <1>1, <1>2, NatSets
<1> QED
  BY <1>3 DEF T

Within(s, t) == \A j \in DOMAIN s : \E k \in DOMAIN t : t[k] = s[j]

LEMMA WithinConcat ==
  ASSUME NEW S, NEW s \in Seq(S), NEW t \in Seq(S)
  PROVE  /\ Within(s, s \o t) /\ Within(t, s \o t)
         /\ \A r : Within(r, s) => Within(r, s \o t)
<1> DEFINE m == Len(s)
           n == Len(t)
<1>1. /\ m \in Nat /\ n \in Nat /\ DOMAIN s = 1..m /\ DOMAIN t = 1..n
      /\ DOMAIN (s \o t) = 1..(m + n)
      /\ \A i \in 1..(m + n) : (s \o t)[i] = IF i <= m THEN s[i] ELSE t[i - m]
  BY ConcatProperties, LenProperties
<1> HIDE DEF m, n
<1>2. \A i \in 1..m : i \in DOMAIN (s \o t) /\ (s \o t)[i] = s[i]
  BY <1>1
<1>3. \A i \in 1..n : i + m \in DOMAIN (s \o t) /\ (s \o t)[i + m] = t[i]
  BY <1>1
<1>4. Within(s, s \o t)
  BY <1>1, <1>2 DEF Within
<1>5. Within(t, s \o t)
  BY <1>1, <1>3 DEF Within
<1>6. ASSUME NEW r, Within(r, s)
      PROVE  Within(r, s \o t)
  <2>1. ASSUME NEW j \in DOMAIN r
        PROVE  \E k \in DOMAIN (s \o t) : (s \o t)[k] = r[j]
    <3>1. PICK k \in DOMAIN s : s[k] = r[j]
      BY <1>6 DEF Within
    <3> QED
      BY <1>1, <1>2, <3>1
  <2> QED
    BY <2>1 DEF Within
<1> QED
  BY <1>4, <1>5, <1>6

LEMMA JoinKeeps ==
  ASSUME NEW S, NEW s \in Seq(Seq(S)), NEW f, Joined(s, Len(s), f)
  PROVE  \A n \in Nat : n \in 1..Len(s) =>
           f[n] \in Seq(S) /\ \A i \in 1..n : Within(s[i], f[n])
<1> DEFINE Good(n) == f[n] \in Seq(S) /\ \A i \in 1..n : Within(s[i], f[n])
           T == {n \in Nat : n \in 1..Len(s) => Good(n)}
<1>1. 0 \in T
  OBVIOUS
<1>2. ASSUME NEW n \in Nat, n \in T
      PROVE  n + 1 \in T
  <2> SUFFICES ASSUME n + 1 \in 1..Len(s)
               PROVE  Good(n + 1)
    OBVIOUS
  <2>1. s[n + 1] \in Seq(S)
    OBVIOUS
  <2>2. CASE n = 0
    <3>1. f[1] = s[1]
      BY <2>2 DEF Joined
    <3>2. \A i \in 1..1 : i = 1
      OBVIOUS
    <3>3. Within(s[1], s[1])
      BY DEF Within
    <3> QED
      BY <2>1, <2>2, <3>1, <3>2, <3>3
  <2>3. CASE n # 0
    <3>1. n \in 1..Len(s) /\ n + 1 # 1 /\ (n + 1) - 1 = n
      BY <2>3
    <3>2. Good(n)
      BY <1>2, <3>1
    <3>3. f[n + 1] = f[n] \o s[n + 1]
      <4>1. f[n + 1] = f[(n + 1) - 1] \o s[n + 1]
        BY <3>1 DEF Joined
      <4> QED
        BY <3>1, <4>1
    <3>4. f[n + 1] \in Seq(S)
      BY <2>1, <3>2, <3>3, ConcatProperties
    <3>5. /\ Within(s[n + 1], f[n + 1])
          /\ \A i \in 1..n : Within(s[i], f[n + 1])
      BY <2>1, <3>2, <3>3, WithinConcat
    <3>6. \A i \in 1..(n + 1) : i \in 1..n \/ i = n + 1
      OBVIOUS
    <3> QED
      BY <3>4, <3>5, <3>6
  <2> QED
    BY <2>2, <2>3
<1> HIDE DEF T
<1>3. \A n \in Nat : n \in T
  BY <1>1, <1>2, NatSets
<1> QED
  BY <1>3 DEF T

(* Sequences one after the other: all of their elements and no other.      *)
LEMMA Flattened ==
  ASSUME NEW S, NEW s \in Seq(Seq(S))
  PROVE  FlattenSeq(s) \in Seq(S)
         /\ \A i \in 1..Len(s) : Within(s[i], FlattenSeq(s))
<1>1. CASE Len(s) = 0
  <2>1. s = <<>>
    BY <1>1
  <2>2. FlattenSeq(s) \in Seq(S)
    BY <1>1, <2>1 DEF FlattenSeq
  <2>3. \A i \in 1..Len(s) : FALSE
    BY <1>1
  <2> QED
    BY <2>2, <2>3
<1>2. CASE Len(s) # 0
  <2> DEFINE L == Len(s)
             E(f) == [i \in 1..L |-> IF i = 1 THEN s[i] ELSE f[i - 1] \o s[i]]
             c == CHOOSE f : f = E(f)
  <2>1. PICK g \in [1..L -> Seq(S)] : Joined(s, L, g)
    BY JoinExists
  <2>2. g = E(g)
    BY <2>1 DEF Joined
  <2>3. c = E(c)
    BY <2>2
  <2>4. Joined(s, L, c)
    BY <2>3 DEF Joined
  <2>5. c[L] \in Seq(S) /\ \A i \in 1..L : Within(s[i], c[L])
    <3> HIDE DEF c
    <3>1. \A n \in Nat : n \in 1..L =>
            c[n] \in Seq(S) /\ \A i \in 1..n : Within(s[i], c[n])
      BY <2>4, JoinKeeps
    <3>2. L \in Nat /\ L \in 1..L
      BY <1>2
    <3> QED
      BY <3>1, <3>2
  <2>6. FlattenSeq(s) = c[L]
    BY <1>2 DEF FlattenSeq
  <2> QED
    BY <2>5, <2>6
<1> QED
  BY <1>1, <1>2

LEMMA Listing ==
  ASSUME NEW S, IsFiniteSet(S)
  PROVE  /\ Cardinality(S) \in Nat
         /\ SetToSeq(S) \in [1..Cardinality(S) -> S]
         /\ \A x \in S : \E i \in 1..Cardinality(S) : SetToSeq(S)[i] = x
<1> DEFINE n == Cardinality(S)
           q == SetToSeq(S)
<1>1. n \in Nat /\ ExistsBijection(1..n, S)
  BY FS_CardinalityType
<1>2. \E f \in [1..n -> S] : IsInjective(f)
  BY <1>1 DEF ExistsBijection, Bijection, Injection, IsInjective
<1>3. q \in [1..n -> S] /\ IsInjective(q)
  BY <1>2 DEF SetToSeq
<1>4. Cardinality(1..n) = n
  BY <1>1, FS_Interval
<1>5. q \in Injection(1..n, S)
  BY <1>3 DEF Injection, IsInjective
<1> HIDE DEF q, n
<1>6. q \in Surjection(1..n, S)
  BY <1>4, <1>5, FS_Injection DEF n
<1>7. \A x \in S : \E i \in 1..n : q[i] = x
  BY <1>6 DEF Surjection
<1> QED
  BY <1>1, <1>3, <1>7 DEF n, q

-----------------------------------------------------------------------------
(* Scripts.                                                                *)

Has(s, c) == \E j \in DOMAIN s : s[j] = c

(* What attaches files to an owner, and what takes them from it.           *)
Attaching(K, o) ==
  [do : {"refer", "own", "attach", "look"}, file : K, owner : {o}]
Detaching(K, o) == [do : {"unrefer", "disown"}, file : K, owner : {o}]

LEMMA CommandFields ==
  ASSUME NEW c \in Commands
  PROVE  /\ c.do \in {"refer", "unrefer", "own", "disown", "attach", "look"} =>
              c.file \in FileIds /\ c.owner \in Owners
         /\ c.do \in {"insert", "extend", "reduce"} => c.file \in SUBSET FileIds
         /\ c.do = "insert" => c.owner \in Posts
         /\ c.do \in {"extend", "reduce"} => c.owner \in Tasks
  BY SMT DEF Commands

LEMMA SomeFiles ==
  ASSUME FilesAssumption, NEW K \in SUBSET FileIds
  PROVE  /\ IsFiniteSet(K) /\ Cardinality(K) \in Nat
         /\ SetToSeq(K) \in [1..Cardinality(K) -> K]
         /\ \A x \in K : \E i \in 1..Cardinality(K) : SetToSeq(K)[i] = x
<1>1. IsFiniteSet(K)
  BY FS_Subset DEF FilesAssumption
<1> QED
  BY <1>1, Listing

LEMMA OneFile ==
  ASSUME NEW K, NEW f \in K, NEW o
  PROVE  /\ Own(f, o) \in Seq(Attaching(K, o))
         /\ Attach(f, o) \in Seq(Attaching(K, o))
         /\ Attach(f, o) \o <<Command("look", f, o)>> \in Seq(Attaching(K, o))
         /\ Disown(f, o) \in Seq(Detaching(K, o))
         /\ Has(Own(f, o), Command("own", f, o))
         /\ Has(Attach(f, o), Command("own", f, o))
         /\ Has(Attach(f, o) \o <<Command("look", f, o)>>, Command("own", f, o))
<1> DEFINE S == Attaching(K, o)
           T == Detaching(K, o)
<1>1. /\ Command("refer", f, o) \in S /\ Command("own", f, o) \in S
      /\ Command("attach", f, o) \in S /\ Command("look", f, o) \in S
      /\ Command("unrefer", f, o) \in T /\ Command("disown", f, o) \in T
  BY DEF Attaching, Detaching, Command
<1> DEFINE a == Command("refer", f, o)
           b == Command("own", f, o)
           c == Command("attach", f, o)
           d == Command("look", f, o)
<1> HIDE DEF S, T
<1>2. Own(f, o) \in Seq(S) /\ Disown(f, o) \in Seq(T)
  BY <1>1 DEF Own, Disown
<1>3. Has(Own(f, o), b)
  <2>1. DOMAIN Own(f, o) = 1..2 /\ Own(f, o)[2] = b
    BY DEF Own
  <2> QED
    BY <2>1 DEF Has
<1>4. Attach(f, o) = Own(f, o) \o <<c>>
  BY DEF Attach
<1>5. <<c>> \in Seq(S) /\ <<d>> \in Seq(S)
  BY <1>1
<1> HIDE DEF a, b, c, d
<1>6. Attach(f, o) \in Seq(S) /\ Within(Own(f, o), Attach(f, o))
  BY <1>2, <1>4, <1>5, ConcatProperties, WithinConcat
<1>7. /\ Attach(f, o) \o <<d>> \in Seq(S)
      /\ Within(Own(f, o), Attach(f, o) \o <<d>>)
  BY <1>5, <1>6, ConcatProperties, WithinConcat
<1>8. Has(Attach(f, o), b) /\ Has(Attach(f, o) \o <<d>>, b)
  BY <1>3, <1>6, <1>7 DEF Has, Within
<1> QED
  BY <1>2, <1>3, <1>6, <1>7, <1>8 DEF S, T, b, d

(* The scripts of some files, one after the other.                         *)
LEMMA Pieces ==
  ASSUME NEW S, NEW n \in Nat, NEW g \in [1..n -> Seq(S)]
  PROVE  /\ FlattenSeq(g) \in Seq(S)
         /\ \A i \in 1..n : Within(g[i], FlattenSeq(g))
<1>1. g \in Seq(Seq(S)) /\ Len(g) = n
  OBVIOUS
<1> QED
  BY <1>1, Flattened

LEMMA EachFile ==
  ASSUME FilesAssumption, NEW K \in SUBSET FileIds, NEW o
  PROVE  LET n == Cardinality(K)
             q == SetToSeq(K)
         IN /\ FlattenSeq([i \in 1..n |-> Own(q[i], o)]) \in Seq(Attaching(K, o))
            /\ FlattenSeq([i \in 1..n |-> Attach(q[i], o)])
                 \in Seq(Attaching(K, o))
            /\ FlattenSeq([i \in 1..n |-> Attach(q[i], o)
                             \o <<Command("look", q[i], o)>>])
                 \in Seq(Attaching(K, o))
            /\ FlattenSeq([i \in 1..n |-> Disown(q[i], o)])
                 \in Seq(Detaching(K, o))
            /\ \A f \in K :
                 /\ Has(FlattenSeq([i \in 1..n |-> Own(q[i], o)]),
                        Command("own", f, o))
                 /\ Has(FlattenSeq([i \in 1..n |-> Attach(q[i], o)]),
                        Command("own", f, o))
                 /\ Has(FlattenSeq([i \in 1..n |-> Attach(q[i], o)
                                      \o <<Command("look", q[i], o)>>]),
                        Command("own", f, o))
<1> DEFINE n == Cardinality(K)
           q == SetToSeq(K)
           S == Attaching(K, o)
           T == Detaching(K, o)
<1>1. /\ n \in Nat /\ \A i \in 1..n : q[i] \in K
      /\ \A x \in K : \E i \in 1..n : q[i] = x
  BY SomeFiles
<1> HIDE DEF n, q
<1> DEFINE g1 == [i \in 1..n |-> Own(q[i], o)]
           g2 == [i \in 1..n |-> Attach(q[i], o)]
           g3 == [i \in 1..n |-> Attach(q[i], o) \o <<Command("look", q[i], o)>>]
           g4 == [i \in 1..n |-> Disown(q[i], o)]
<1>2. /\ \A i \in 1..n : Own(q[i], o) \in Seq(S)
      /\ \A i \in 1..n : Attach(q[i], o) \in Seq(S)
      /\ \A i \in 1..n : Attach(q[i], o) \o <<Command("look", q[i], o)>> \in Seq(S)
      /\ \A i \in 1..n : Disown(q[i], o) \in Seq(T)
  BY <1>1, OneFile
<1> HIDE DEF S, T
<1>3. /\ g1 \in [1..n -> Seq(S)] /\ g2 \in [1..n -> Seq(S)]
      /\ g3 \in [1..n -> Seq(S)] /\ g4 \in [1..n -> Seq(T)]
  BY <1>2
<1>4. /\ \A i \in 1..n : Has(g1[i], Command("own", q[i], o))
      /\ \A i \in 1..n : Has(g2[i], Command("own", q[i], o))
      /\ \A i \in 1..n : Has(g3[i], Command("own", q[i], o))
  BY <1>1, OneFile
<1> HIDE DEF g1, g2, g3, g4
<1>5. /\ FlattenSeq(g1) \in Seq(S) /\ FlattenSeq(g2) \in Seq(S)
      /\ FlattenSeq(g3) \in Seq(S) /\ FlattenSeq(g4) \in Seq(T)
      /\ \A i \in 1..n : Within(g1[i], FlattenSeq(g1))
      /\ \A i \in 1..n : Within(g2[i], FlattenSeq(g2))
      /\ \A i \in 1..n : Within(g3[i], FlattenSeq(g3))
  BY <1>1, <1>3, Pieces
<1>6. ASSUME NEW f \in K
      PROVE  /\ Has(FlattenSeq(g1), Command("own", f, o))
             /\ Has(FlattenSeq(g2), Command("own", f, o))
             /\ Has(FlattenSeq(g3), Command("own", f, o))
  <2>1. PICK i \in 1..n : q[i] = f
    BY <1>1
  <2>2. /\ Has(g1[i], Command("own", f, o)) /\ Within(g1[i], FlattenSeq(g1))
        /\ Has(g2[i], Command("own", f, o)) /\ Within(g2[i], FlattenSeq(g2))
        /\ Has(g3[i], Command("own", f, o)) /\ Within(g3[i], FlattenSeq(g3))
    BY <1>4, <1>5, <2>1
  <2> QED
    BY <2>2 DEF Has, Within
<1> QED
  BY <1>5, <1>6 DEF g1, g2, g3, g4, n, q, S, T

-----------------------------------------------------------------------------
(* The inductive invariant.                                                *)

(* A post keeps a file, unless one of its comments takes it away.          *)
Kept(f, p) == <<f, p>> \in owned \/ Voicing(f, p) # {}

(* A post loses a file only with one of its comments, and the attachments  *)
(* that are edited are those of a task that was made.                      *)
Fit(c) ==
  /\ c.do = "disown" /\ c.owner \in Posts => Voicing(c.file, c.owner) # {}
  /\ c.do \in {"extend", "reduce"} => attached[c.owner] # Nil

(* Whoever makes a post inserts it last.                                   *)
InsertLast(s) == \A i \in DOMAIN s : s[i].do = "insert" => i = Len(s)

(* By the time a post is inserted it has its files.                        *)
Secured(s) ==
  \A i \in DOMAIN s : s[i].do = "insert" =>
    \A f \in s[i].file :
      Kept(f, s[i].owner) \/ Has(s, Command("own", f, s[i].owner))

ScriptFit(s) ==
  s \in Seq(Commands) /\ InsertLast(s) /\ Secured(s)
    /\ \A i \in DOMAIN s : Fit(s[i])

ScriptsFit == \A w \in Workers : ScriptFit(script[w])

HeldKept == \A p \in Posts, f \in FileIds : p \in Holders(f) => Kept(f, p)
AllCounted ==
  \A o \in Owners :
    attached[o] # Nil => attached[o].n = Cardinality(attached[o].files)

FilesInv == TypeOK /\ ScriptsFit /\ HeldKept /\ AllCounted

-----------------------------------------------------------------------------
(* What no step takes away.                                                *)

Monotone ==
  /\ \A f, o : Voicing(f, o) # {} => Voicing(f, o)' # {}
  /\ \A o \in Owners : attached[o] # Nil => attached'[o] # Nil
  /\ \A p \in Posts, f \in FileIds : Kept(f, p) => Kept(f, p)'

LEMMA VoicesStay ==
  ASSUME FilesAssumption, TypeOK,
         \/ voiced' = voiced
         \/ \E c \in CommentIds :
              voiced[c] = Nil /\ \E d : voiced' = [voiced EXCEPT ![c] = d]
         \/ \E c \in CommentIds : voiced[c] # Nil
              /\ voiced' = [voiced EXCEPT ![c].removed = TRUE]
  PROVE  \A f, o : Voicing(f, o) # {} => Voicing(f, o)' # {}
<1> SUFFICES ASSUME NEW f, NEW o, NEW k \in Voicing(f, o)
             PROVE  Voicing(f, o)' # {}
  OBVIOUS
<1>0. /\ voiced \in [CommentIds -> VoiceDocs \cup {Nil}]
      /\ k \in CommentIds /\ voiced[k] # Nil
      /\ voiced[k].post = o /\ voiced[k].file = f
  BY DEF TypeOK, Voicing
<1>1. CASE voiced' = voiced
  BY <1>0, <1>1 DEF Voicing
<1>2. ASSUME NEW c \in CommentIds, NEW d, voiced[c] = Nil,
             voiced' = [voiced EXCEPT ![c] = d]
      PROVE  Voicing(f, o)' # {}
  <2>1. voiced'[k] = voiced[k]
    BY <1>0, <1>2
  <2> QED
    BY <1>0, <2>1 DEF Voicing, CommentIds
<1>3. ASSUME NEW c \in CommentIds, voiced[c] # Nil,
             voiced' = [voiced EXCEPT ![c].removed = TRUE]
      PROVE  Voicing(f, o)' # {}
  <2>1. CASE k # c
    <3>1. voiced'[k] = voiced[k]
      BY <1>0, <1>3, <2>1
    <3> QED
      BY <1>0, <3>1 DEF Voicing, CommentIds
  <2>2. CASE k = c
    <3> DEFINE d == [voiced[c] EXCEPT !.removed = TRUE]
    <3>1. voiced[c] \in VoiceDocs
      BY <1>0, <2>2
    <3>2. d \in VoiceDocs /\ d.post = o /\ d.file = f
      BY <1>0, <2>2, <3>1 DEF VoiceDocs
    <3>3. voiced'[k] = d
      BY <1>0, <1>3, <2>2
    <3>4. d # Nil
      BY <3>2 DEF FilesAssumption
    <3> HIDE DEF d
    <3> QED
      BY <1>0, <3>2, <3>3, <3>4 DEF Voicing, CommentIds
  <2> QED
    BY <2>1, <2>2
<1> QED
  BY <1>1, <1>2, <1>3

(* A script that fits goes on to fit while another worker runs.            *)
LEMMA FitStays ==
  ASSUME Monotone, NEW s, ScriptFit(s)
  PROVE  ScriptFit(s)'
<1>1. s \in Seq(Commands) /\ InsertLast(s)
  BY DEF ScriptFit
<1>2. \A i \in DOMAIN s : s[i] \in Commands
  BY <1>1
<1>3. ASSUME NEW i \in DOMAIN s
      PROVE  Fit(s[i])'
  <2>1. Fit(s[i]) /\ s[i] \in Commands
    BY <1>2 DEF ScriptFit
  <2>2. s[i].do \in {"extend", "reduce"} => s[i].owner \in Owners
    BY <2>1, CommandFields DEF Owners
  <2> QED
    BY <2>1, <2>2 DEF Fit, Monotone
<1>4. ASSUME NEW i \in DOMAIN s, s[i].do = "insert", NEW f \in s[i].file
      PROVE  Kept(f, s[i].owner)' \/ Has(s, Command("own", f, s[i].owner))
  <2>1. s[i].owner \in Posts /\ f \in FileIds
    BY <1>2, <1>4, CommandFields
  <2>2. Kept(f, s[i].owner) \/ Has(s, Command("own", f, s[i].owner))
    BY <1>4 DEF ScriptFit, Secured
  <2> QED
    BY <2>1, <2>2 DEF Monotone
<1> QED
  BY <1>1, <1>3, <1>4 DEF ScriptFit, Secured, InsertLast, Commands, Has, Owners

LEMMA FitEmpty == ScriptFit(<<>>) /\ ScriptFit(<<>>)'
  BY DEF ScriptFit, InsertLast, Secured, Commands, Owners

(* What a handler may put before the rest of its script.                   *)
Fore(p) ==
  p \in Seq(Commands)
    /\ \A i \in DOMAIN p : p[i].do # "insert" /\ Fit(p[i])

LEMMA Goes ==
  ASSUME Monotone, NEW s, ScriptFit(s), s # <<>>, NEW p, Fore(p)',
         Head(s).do = "own" /\ Head(s).owner \in Posts =>
           Kept(Head(s).file, Head(s).owner)'
  PROVE  ScriptFit(p \o Tail(s))'
<1> DEFINE t == Tail(s)
           m == Len(p)
           n == Len(t)
           z == p \o t
<1>1. /\ p \in Seq(Commands)
      /\ \A i \in DOMAIN p : p[i].do # "insert" /\ Fit(p[i])'
  BY DEF Fore, Commands, Owners
<1>2. /\ s \in Seq(Commands) /\ t \in Seq(Commands) /\ n = Len(s) - 1
      /\ \A i \in 1..n : t[i] = s[i + 1]
      /\ Len(s) \in Nat /\ DOMAIN s = 1..Len(s) /\ Head(s) = s[1] /\ Len(s) > 0
      /\ DOMAIN t = 1..n
  BY HeadTailProperties, EmptySeq DEF ScriptFit
<1>3. m \in Nat /\ n \in Nat /\ DOMAIN p = 1..m
  BY <1>1, <1>2
<1> HIDE DEF t
<1>4. /\ z \in Seq(Commands) /\ Len(z) = m + n
      /\ \A i \in 1..(m + n) : z[i] = IF i <= m THEN p[i] ELSE t[i - m]
      /\ DOMAIN z = 1..(m + n)
  <2>1. /\ z \in Seq(Commands) /\ Len(z) = m + n
        /\ \A i \in 1..(m + n) : z[i] = IF i <= m THEN p[i] ELSE t[i - m]
    BY <1>1, <1>2, ConcatProperties
  <2> HIDE DEF z
  <2>2. DOMAIN z = 1..Len(z)
    BY <2>1, LenProperties
  <2> QED
    BY <2>1, <2>2
<1> HIDE DEF m, n, z
<1>5. ASSUME NEW i \in DOMAIN z
      PROVE  \/ i \in DOMAIN p /\ z[i] = p[i]
             \/ /\ i - m + 1 \in DOMAIN s /\ i - m \in 1..n
                /\ z[i] = s[i - m + 1] /\ z[i] = t[i - m]
  BY <1>2, <1>3, <1>4
<1>6. \A i \in DOMAIN s : i # 1 => i - 1 + m \in DOMAIN z /\ z[i - 1 + m] = s[i]
  <2> SUFFICES ASSUME NEW i \in DOMAIN s, i # 1
               PROVE  i - 1 + m \in DOMAIN z /\ z[i - 1 + m] = s[i]
    OBVIOUS
  <2>1. i - 1 \in 1..n /\ i - 1 + m \in 1..(m + n) /\ ~(i - 1 + m <= m)
    BY <1>2, <1>3
  <2>2. (i - 1 + m) - m = i - 1 /\ (i - 1) + 1 = i
    BY <1>2, <1>3
  <2>3. z[i - 1 + m] = t[i - 1] /\ t[i - 1] = s[i]
    BY <1>2, <1>4, <2>1, <2>2
  <2> QED
    BY <1>4, <2>1, <2>3
<1>7. ScriptFit(s)'
  BY FitStays
<1>8. /\ \A i \in DOMAIN s : Fit(s[i])'
      /\ InsertLast(s)
      /\ \A i \in DOMAIN s : s[i].do = "insert" =>
           \A f \in s[i].file :
             Kept(f, s[i].owner)' \/ Has(s, Command("own", f, s[i].owner))
  BY <1>7 DEF ScriptFit, Secured, InsertLast, Has
<1>9. InsertLast(z)
  <2>1. ASSUME NEW i \in DOMAIN z, z[i].do = "insert"
        PROVE  i = m + n
    <3>1. i - m + 1 \in DOMAIN s /\ s[i - m + 1].do = "insert"
      BY <1>1, <1>5, <2>1
    <3>2. i - m + 1 = Len(s)
      BY <1>8, <3>1 DEF InsertLast
    <3> QED
      BY <1>2, <1>3, <1>4, <3>2
  <2> QED
    BY <1>4, <2>1 DEF InsertLast
<1>a. \A i \in DOMAIN z : Fit(z[i])'
  BY <1>1, <1>5, <1>8
<1>b. ASSUME NEW i \in DOMAIN z, z[i].do = "insert", NEW f \in z[i].file
      PROVE  Kept(f, z[i].owner)' \/ Has(z, Command("own", f, z[i].owner))
  <2> DEFINE c == Command("own", f, z[i].owner)
  <2>1. i - m + 1 \in DOMAIN s /\ z[i] = s[i - m + 1]
    BY <1>1, <1>5, <1>b
  <2>2. Kept(f, z[i].owner)' \/ Has(s, c)
    BY <1>8, <1>b, <2>1
  <2>3. ASSUME NEW j \in DOMAIN s, s[j] = c
        PROVE  Kept(f, z[i].owner)' \/ Has(z, c)
    <3>1. CASE j = 1
      <4>1. Head(s) = c /\ c.do = "own" /\ c.file = f /\ c.owner = z[i].owner
        BY <1>2, <2>3, <3>1 DEF Command
      <4>2. z[i].owner \in Posts
        BY <1>b, <1>4, CommandFields
      <4> QED
        BY <4>1, <4>2
    <3>2. CASE j # 1
      BY <1>6, <2>3, <3>2 DEF Has
    <3> QED
      BY <3>1, <3>2
  <2> QED
    BY <2>2, <2>3 DEF Has
<1> QED
  BY <1>4, <1>9, <1>a, <1>b
     DEF ScriptFit, Secured, InsertLast, Commands, Has, Owners, z, t

-----------------------------------------------------------------------------
(* Steps.                                                                  *)

DocsOK ==
  /\ file \in [FileIds -> FileDocs \cup {Nil}]
  /\ owned \subseteq FileIds \X Owners
  /\ attached \in [Owners -> AttachedDocs \cup {Nil}]
  /\ voiced \in [CommentIds -> VoiceDocs \cup {Nil}]
  /\ seen \in [FileIds -> Statuses \cup {Nil}]
  /\ tokens \subseteq FileIds \X Accounts /\ fetched \subseteq FileIds

(* What a step has to keep of the documents.                               *)
DocsKeep == DocsOK' /\ Monotone /\ HeldKept' /\ AllCounted'

LEMMA DocsMean ==
  /\ FilesInv => DocsOK /\ script \in [Workers -> Seq(Commands)]
  /\ DocsOK' /\ script' \in [Workers -> Seq(Commands)] => TypeOK'
<1>1. FilesInv => DocsOK /\ script \in [Workers -> Seq(Commands)]
  BY DEF FilesInv, TypeOK, DocsOK
<1>2. DocsOK' /\ script' \in [Workers -> Seq(Commands)] => TypeOK'
  BY DEF TypeOK, DocsOK, Commands, Owners
<1> QED
  BY <1>1, <1>2

(* A step that gives a worker a script that fits.                          *)
LEMMA ScriptStep ==
  ASSUME FilesInv, DocsKeep, NEW w \in Workers, NEW z,
         script' = [script EXCEPT ![w] = z], ScriptFit(z)'
  PROVE  FilesInv'
<1>1. script \in [Workers -> Seq(Commands)] /\ z \in Seq(Commands)
  BY DocsMean DEF ScriptFit, Commands, Owners
<1>2. /\ script' \in [Workers -> Seq(Commands)] /\ script'[w] = z
      /\ \A v \in Workers : v # w => script'[v] = script[v]
  BY <1>1
<1>3. ASSUME NEW v \in Workers
      PROVE  ScriptFit(script[v])'
  <2>1. CASE v = w
    BY <1>2, <2>1 DEF ScriptFit, InsertLast, Secured, Fit, Kept, Has, Voicing,
       Commands, Owners, CommentIds
  <2>2. CASE v # w
    <3>1. PICK u : u = script[v]
      OBVIOUS
    <3>2. ScriptFit(u)
      BY <3>1 DEF FilesInv, ScriptsFit
    <3>3. ScriptFit(u)' /\ script'[v] = u
      BY <1>2, <2>2, <3>1, <3>2, FitStays DEF DocsKeep
    <3> QED
      BY <3>3 DEF ScriptFit, InsertLast, Secured, Fit, Kept, Has, Voicing,
         Commands, Owners, CommentIds
  <2> QED
    BY <2>1, <2>2
<1> QED
  BY <1>2, <1>3, DocsMean DEF FilesInv, ScriptsFit, DocsKeep

LEMMA ScriptsStay ==
  ASSUME FilesInv, DocsKeep, script' = script
  PROVE  FilesInv'
<1>1. ASSUME NEW v \in Workers
      PROVE  ScriptFit(script[v])'
  <2>1. PICK u : u = script[v]
    OBVIOUS
  <2>2. ScriptFit(u)
    BY <2>1 DEF FilesInv, ScriptsFit
  <2>3. ScriptFit(u)' /\ script'[v] = u
    BY <2>1, <2>2, FitStays DEF DocsKeep
  <2> QED
    BY <2>3 DEF ScriptFit, InsertLast, Secured, Fit, Kept, Has, Voicing,
       Commands, Owners, CommentIds
<1>2. script' \in [Workers -> Seq(Commands)]
  BY DocsMean
<1> QED
  BY <1>1, <1>2, DocsMean DEF FilesInv, ScriptsFit, DocsKeep, Commands, Owners

(* A command leaves the rest of the script, behind what it puts there.     *)
LEMMA CommandStep ==
  ASSUME FilesInv, DocsKeep, NEW w \in Workers, script[w] # <<>>,
         NEW p, Fore(p)', Become(w, p), NEW c, c = Now(w),
         c.do = "own" /\ c.owner \in Posts => Kept(c.file, c.owner)'
  PROVE  FilesInv'
<1>1. PICK s : s = script[w]
  OBVIOUS
<1>2. ScriptFit(s) /\ s # <<>> /\ Head(s) = c
  BY <1>1 DEF FilesInv, ScriptsFit, Now
<1>3. ScriptFit(p \o Tail(s))'
  BY <1>2, Goes DEF DocsKeep
<1>4. script' = [script EXCEPT ![w] = p \o Tail(s)]
  BY <1>1 DEF Become
<1> QED
  BY <1>3, <1>4, ScriptStep

(* What a step has to do to the documents.                                 *)
LEMMA Keeps ==
  ASSUME FilesAssumption, FilesInv, DocsOK',
         \/ voiced' = voiced
         \/ \E c \in CommentIds :
              voiced[c] = Nil /\ \E d : voiced' = [voiced EXCEPT ![c] = d]
         \/ \E c \in CommentIds : voiced[c] # Nil
              /\ voiced' = [voiced EXCEPT ![c].removed = TRUE],
         \A p \in Posts, f \in FileIds :
           <<f, p>> \in owned => <<f, p>> \in owned' \/ Voicing(f, p) # {},
         \A o \in Owners :
           \/ attached'[o] = attached[o]
           \/ /\ attached'[o] # Nil
              /\ attached'[o].n = Cardinality(attached'[o].files)
              /\ o \in Posts => \A f \in attached'[o].files : Kept(f, o)
  PROVE  DocsKeep
<1>0. DocsOK /\ TypeOK /\ HeldKept /\ AllCounted
  BY DocsMean DEF FilesInv
<1>1. \A f, o : Voicing(f, o) # {} => Voicing(f, o)' # {}
  BY <1>0, VoicesStay
<1>2. \A o \in Owners : attached[o] # Nil => attached'[o] # Nil
  OBVIOUS
<1>3. ASSUME NEW p \in Posts, NEW f \in FileIds, Kept(f, p)
      PROVE  Kept(f, p)'
  <2>1. <<f, p>> \in owned' \/ Voicing(f, p) # {}
    BY <1>3 DEF Kept
  <2> QED
    BY <1>1, <2>1 DEF Kept
<1>4. ASSUME NEW p \in Posts, NEW f \in FileIds, (p \in Holders(f))'
      PROVE  Kept(f, p)'
  <2>1. p \in Owners /\ attached'[p] # Nil /\ f \in attached'[p].files
    BY <1>4 DEF Holders, Owners
  <2>2. attached'[p] = attached[p] \/ Kept(f, p)
    BY <2>1
  <2>3. attached'[p] = attached[p] => p \in Holders(f)
    BY <2>1 DEF Holders
  <2>4. Kept(f, p)
    BY <1>0, <2>2, <2>3 DEF HeldKept
  <2> QED
    BY <1>3, <2>4
<1>5. AllCounted'
  BY <1>0 DEF AllCounted, Owners
<1> QED
  BY <1>1, <1>2, <1>3, <1>4, <1>5 DEF DocsKeep, Monotone, HeldKept

(* A step that leaves all documents.                                       *)
LEMMA DocsSame ==
  ASSUME FilesAssumption, FilesInv, DocsOK', UNCHANGED docs
  PROVE  DocsKeep
  BY Keeps DEF docs

LEMMA Looks ==
  ASSUME FilesInv, NEW f \in FileIds, Look(f)
  PROVE  seen' \in [FileIds -> Statuses \cup {Nil}]
<1>1. /\ file \in [FileIds -> FileDocs \cup {Nil}]
      /\ seen \in [FileIds -> Statuses \cup {Nil}]
  BY DEF FilesInv, TypeOK
<1>2. Cached(f) \in Statuses \cup {Nil}
  <2>1. file[f] # Nil => file[f].status \in Statuses
    BY <1>1 DEF FileDocs
  <2>2. seen[f] \in Statuses \cup {Nil}
    BY <1>1
  <2> QED
    BY <2>1, <2>2 DEF Cached, Exists
<1> QED
  BY <1>1, <1>2 DEF Look

-----------------------------------------------------------------------------
(* What handlers put into scripts.                                         *)

LEMMA ForeAttach ==
  ASSUME FilesAssumption, NEW K \in SUBSET FileIds, NEW o \in Owners,
         NEW p \in Seq(Attaching(K, o))
  PROVE  Fore(p)'
<1>1. \A i \in DOMAIN p : p[i] \in Attaching(K, o)
  OBVIOUS
<1>2. Attaching(K, o) \subseteq Commands
  BY DEF Attaching, Commands
<1>3. p \in Seq(Commands)
  BY <1>2
<1>4. \A i \in DOMAIN p : p[i].do \in {"refer", "own", "attach", "look"}
  BY <1>1 DEF Attaching
<1> QED
  BY <1>3, <1>4 DEF Fore, Fit, Commands, Owners

LEMMA ForeDetach ==
  ASSUME FilesAssumption, NEW K \in SUBSET FileIds, NEW o \in Owners,
         o \in Posts => \A f \in K : Voicing(f, o)' # {},
         NEW p \in Seq(Detaching(K, o))
  PROVE  Fore(p)'
<1>1. \A i \in DOMAIN p : p[i] \in Detaching(K, o)
  OBVIOUS
<1>2. Detaching(K, o) \subseteq Commands
  BY DEF Detaching, Commands
<1>3. p \in Seq(Commands)
  BY <1>2
<1>4. \A i \in DOMAIN p :
        p[i].do \in {"unrefer", "disown"} /\ p[i].file \in K /\ p[i].owner = o
  BY <1>1 DEF Detaching
<1> QED
  BY <1>3, <1>4 DEF Fore, Fit, Commands, Owners

LEMMA ForeFits ==
  ASSUME NEW p, Fore(p)'
  PROVE  ScriptFit(p)'
  BY DEF Fore, ScriptFit, InsertLast, Secured

LEMMA InsertEnds ==
  ASSUME FilesAssumption, NEW K \in SUBSET FileIds, NEW o \in Posts,
         NEW p \in Seq(Attaching(K, o)),
         \A f \in K : Has(p, Command("own", f, o))
  PROVE  ScriptFit(p \o <<Command("insert", K, o)>>)'
<1> DEFINE c == Command("insert", K, o)
           z == p \o <<c>>
           m == Len(p)
<1>1. o \in Owners /\ Fore(p)'
  BY ForeAttach DEF Owners
<1>2. p \in Seq(Commands) /\ \A i \in DOMAIN p : p[i].do # "insert" /\ Fit(p[i])'
  BY <1>1 DEF Fore, Commands, Owners
<1>3. c \in Commands /\ c.do = "insert" /\ c.file = K /\ c.owner = o
  BY DEF Command, Commands
<1> HIDE DEF c
<1>4. /\ z \in Seq(Commands) /\ Len(z) = m + 1 /\ m \in Nat
      /\ DOMAIN p = 1..m /\ DOMAIN z = 1..(m + 1)
      /\ \A i \in 1..m : z[i] = p[i]
      /\ z[m + 1] = c
  BY <1>2, <1>3
<1> HIDE DEF z, m
<1>5. \A i \in DOMAIN z :
        \/ i \in DOMAIN p /\ z[i] = p[i]
        \/ i = m + 1 /\ z[i] = c
  BY <1>4
<1>6. InsertLast(z)
  BY <1>2, <1>4, <1>5 DEF InsertLast
<1>7. \A i \in DOMAIN z : Fit(z[i])'
  <2>1. Fit(c)'
    BY <1>3 DEF Fit
  <2> QED
    BY <1>2, <1>5, <2>1
<1>8. ASSUME NEW i \in DOMAIN z, z[i].do = "insert", NEW f \in z[i].file
      PROVE  Has(z, Command("own", f, z[i].owner))
  <2>1. z[i] = c
    BY <1>2, <1>5, <1>8
  <2>2. PICK j \in DOMAIN p : p[j] = Command("own", f, o)
    BY <1>3, <1>8, <2>1 DEF Has
  <2>3. j \in DOMAIN z /\ z[j] = p[j]
    BY <1>4
  <2> QED
    BY <1>3, <2>1, <2>2, <2>3 DEF Has
<1> QED
  BY <1>4, <1>6, <1>7, <1>8
     DEF ScriptFit, Secured, InsertLast, Commands, Has, Owners, z, c

LEMMA OneCommand ==
  ASSUME NEW c \in Commands, c.do # "insert", Fit(c)'
  PROVE  ScriptFit(<<c>>)'
<1>1. <<c>> \in Seq(Commands) /\ DOMAIN <<c>> = {1} /\ <<c>>[1] = c
  OBVIOUS
<1> QED
  BY <1>1 DEF ScriptFit, InsertLast, Secured, Commands, Owners

LEMMA FewFiles ==
  ASSUME FilesAssumption, NEW A \in SUBSET FileIds, NEW B \in SUBSET FileIds
  PROVE  /\ A \cap B = {} =>
              Cardinality(A \cup B) = Cardinality(A) + Cardinality(B)
         /\ B \subseteq A => Cardinality(A \ B) = Cardinality(A) - Cardinality(B)
<1>1. /\ IsFiniteSet(A) /\ IsFiniteSet(B)
      /\ Cardinality(A) \in Nat /\ Cardinality(B) \in Nat
  BY SomeFiles
<1>2. Cardinality(A \cup B) =
        Cardinality(A) + Cardinality(B) - Cardinality(A \cap B)
  BY <1>1, FS_Union
<1>3. Cardinality(A \ B) = Cardinality(A) - Cardinality(A \cap B)
  BY <1>1, FS_Difference
<1>4. Cardinality({}) = 0
  BY FS_EmptySet
<1>5. ASSUME A \cap B = {}
      PROVE  Cardinality(A \cup B) = Cardinality(A) + Cardinality(B)
  <2>1. Cardinality(A \cap B) = 0
    BY <1>4, <1>5
  <2> HIDE <1>5
  <2> QED
    BY <1>1, <1>2, <2>1
<1>6. ASSUME B \subseteq A
      PROVE  Cardinality(A \ B) = Cardinality(A) - Cardinality(B)
  <2>1. A \cap B = B
    BY <1>6
  <2> QED
    BY <1>3, <2>1
<1> QED
  BY <1>5, <1>6

LEMMA NowFits ==
  ASSUME FilesInv, NEW w \in Workers, script[w] # <<>>
  PROVE  Now(w) \in Commands /\ Fit(Now(w))
<1>1. script[w] \in Seq(Commands) /\ \A i \in DOMAIN script[w] : Fit(script[w][i])
  BY DEF FilesInv, ScriptsFit, ScriptFit
<1>2. 1 \in DOMAIN script[w] /\ Now(w) = script[w][1]
  BY <1>1 DEF Now
<1> QED
  BY <1>1, <1>2

(* When a post is inserted nothing else is left to do, so that its files   *)
(* are kept.                                                               *)
LEMMA InsertKept ==
  ASSUME FilesInv, NEW w \in Workers, Ready(w, "insert"),
         NEW f \in Now(w).file
  PROVE  Kept(f, Now(w).owner)
<1>1. PICK s : s = script[w]
  OBVIOUS
<1>2. s \in Seq(Commands) /\ InsertLast(s) /\ Secured(s)
  BY <1>1 DEF FilesInv, ScriptsFit, ScriptFit
<1>3. /\ s # <<>> /\ 1 \in DOMAIN s /\ Now(w) = s[1] /\ s[1].do = "insert"
      /\ DOMAIN s = 1..Len(s)
  BY <1>1, <1>2 DEF Ready, Now
<1>4. DOMAIN s = {1}
  BY <1>2, <1>3 DEF InsertLast
<1>5. ~ Has(s, Command("own", f, s[1].owner))
  BY <1>3, <1>4 DEF Has, Command
<1> QED
  BY <1>2, <1>3, <1>5 DEF Secured

-----------------------------------------------------------------------------
(* Handlers.                                                               *)

LEMMA RequestFields ==
  ASSUME FilesAssumption, NEW r \in Requests
  PROVE  /\ r.who \in Accounts /\ r.files \in SUBSET FileIds
         /\ r.op \in {"add_post", "add_comment"} => r.at \in Posts
         /\ r.op \in {"create_task", "add_attachment", "remove_attachment"} =>
              r.at \in Tasks
         /\ r.op = "remove_comment" => r.at \in CommentIds
         /\ Posts \cap Tasks = {} /\ Posts \subseteq Owners
         /\ Tasks \subseteq Owners
<1>1. r \in RequestType /\ Complete(r)
  BY DEF FilesAssumption
<1> QED
  BY <1>1 DEF FilesAssumption, RequestType, Complete, Owners

LEMMA UploadKeeps ==
  ASSUME FilesAssumption, FilesInv, NEW w \in Workers, NEW r \in Requests,
         Upload(w, r)
  PROVE  FilesInv'
<1>1. DocsOK
  BY DocsMean
<1>2. file' \in [FileIds -> FileDocs \cup {Nil}]
  <2>1. ASSUME NEW f \in FileIds
        PROVE  [status |-> IF f \in Pictures THEN "pub" ELSE "tmp", refs |-> 0]
                 \in FileDocs
    BY DEF FileDocs, Statuses
  <2> QED
    BY <1>1, <2>1 DEF Upload, DocsOK
<1>3. DocsOK' /\ script' = script
  BY <1>1, <1>2 DEF Upload, DocsOK, Owners, CommentIds
<1>4. DocsKeep
  BY <1>3, Keeps DEF Upload
<1> QED
  BY <1>3, <1>4, ScriptsStay

(* Handlers that only look.                                                *)
LEMMA LookKeeps ==
  ASSUME FilesAssumption, FilesInv, NEW w \in Workers, NEW r \in Requests,
         \/ GetFile(w, r) \/ Overrun(w, r) \/ GetToken(w, r)
         \/ Serve(w, r)
  PROVE  FilesInv'
<1>1. DocsOK /\ r.files \in SUBSET FileIds /\ r.who \in Accounts
  BY DocsMean, RequestFields
<1>2. /\ seen' = seen \/ \E f \in FileIds : Look(f)
      /\ tokens' \subseteq FileIds \X Accounts /\ fetched' \subseteq FileIds
      /\ UNCHANGED docs /\ script' = script
  <2> HIDE DEF Look
  <2>1. CASE GetFile(w, r)
    BY <1>1, <2>1 DEF GetFile, DocsOK
  <2>2. CASE GetToken(w, r)
    <3>1. PICK f \in FileIds :
            Look(f) /\ tokens' \in {tokens, tokens \cup {<<f, r.who>>}}
      BY <1>1, <2>2 DEF GetToken
    <3>2. <<f, r.who>> \in FileIds \X Accounts
      BY <1>1
    <3>3. tokens' \subseteq FileIds \X Accounts
      BY <1>1, <3>1, <3>2 DEF DocsOK
    <3> QED
      BY <1>1, <2>2, <3>1, <3>3 DEF GetToken, DocsOK
  <2>3. CASE Serve(w, r)
    BY <1>1, <2>3 DEF Serve, DocsOK
  <2>4. CASE Overrun(w, r)
    BY <1>1, <2>4 DEF Overrun, DocsOK
  <2> QED
    BY <2>1, <2>2, <2>3, <2>4
<1>3. seen' \in [FileIds -> Statuses \cup {Nil}]
  <2>1. CASE seen' = seen
    BY <1>1, <2>1 DEF DocsOK
  <2> QED
    BY <1>2, <2>1, Looks
<1>4. DocsOK'
  BY <1>1, <1>2, <1>3 DEF DocsOK, docs, Owners, CommentIds
<1> QED
  BY <1>2, <1>4, DocsSame, ScriptsStay

LEMMA AddPostKeeps ==
  ASSUME FilesAssumption, FilesInv, NEW w \in Workers, NEW r \in Requests,
         AddPost(w, r)
  PROVE  FilesInv'
<1>1. DocsOK /\ UNCHANGED docs /\ UNCHANGED <<seen, tokens, fetched>>
  BY DocsMean DEF AddPost, ForEach
<1>2. DocsKeep
  <2>1. DocsOK'
    BY <1>1 DEF DocsOK, docs, Owners, CommentIds
  <2> QED
    BY <1>1, <2>1, DocsSame
<1>3. PICK K \in SUBSET FileIds : K = Known(r)
  BY RequestFields DEF Known
<1>4. r.at \in Posts
  BY RequestFields DEF AddPost, ForEach
<1> DEFINE n == Cardinality(K)
           q == SetToSeq(K)
           p == FlattenSeq([i \in 1..n |->
                  Attach(q[i], r.at) \o <<Command("look", q[i], r.at)>>])
<1>5. script' = [script EXCEPT ![w] = p \o <<Command("insert", K, r.at)>>]
  BY <1>3 DEF AddPost, ForEach
<1>6. /\ p \in Seq(Attaching(K, r.at))
      /\ \A f \in K : Has(p, Command("own", f, r.at))
  BY EachFile
<1> HIDE DEF p
<1>7. ScriptFit(p \o <<Command("insert", K, r.at)>>)'
  BY <1>4, <1>6, InsertEnds
<1> QED
  BY <1>2, <1>5, <1>7, ScriptStep

LEMMA AddCommentKeeps ==
  ASSUME FilesAssumption, FilesInv, NEW w \in Workers, NEW r \in Requests,
         AddComment(w, r)
  PROVE  FilesInv'
<1>1. /\ DocsOK /\ r.at \in Posts /\ r.at \in Owners
      /\ r.files \in SUBSET FileIds
  <2>1. r.op = "add_comment"
    BY DEF AddComment
  <2> QED
    BY <2>1, DocsMean, RequestFields
<1>2. UNCHANGED <<file, owned, attached, tokens, fetched>>
  BY DEF AddComment
<1>3. PICK f \in FileIds :
        /\ Look(f)
        /\ \/ UNCHANGED <<voiced, script>>
           \/ \E c \in CommentIds :
                /\ voiced[c] = Nil
                /\ voiced' = [voiced EXCEPT ![c] =
                     [post |-> r.at, file |-> f, removed |-> FALSE]]
                /\ script' = [script EXCEPT ![w] = Attach(f, r.at)]
  BY <1>1 DEF AddComment
<1>4. seen' \in [FileIds -> Statuses \cup {Nil}]
  BY <1>3, Looks
<1>5. CASE UNCHANGED <<voiced, script>>
  <2>1. UNCHANGED docs
    BY <1>2, <1>5 DEF docs
  <2>2. DocsOK'
    BY <1>1, <1>2, <1>4, <1>5 DEF DocsOK, Owners, CommentIds
  <2>3. DocsKeep
    BY <2>1, <2>2, DocsSame
  <2> QED
    BY <1>5, <2>3, ScriptsStay
<1>6. ASSUME NEW c \in CommentIds, voiced[c] = Nil,
             voiced' = [voiced EXCEPT ![c] =
               [post |-> r.at, file |-> f, removed |-> FALSE]],
             script' = [script EXCEPT ![w] = Attach(f, r.at)]
      PROVE  FilesInv'
  <2>1. [post |-> r.at, file |-> f, removed |-> FALSE] \in VoiceDocs
    BY <1>1 DEF VoiceDocs
  <2>2. voiced' \in [CommentIds -> VoiceDocs \cup {Nil}]
    BY <1>1, <1>6, <2>1 DEF DocsOK
  <2>3. DocsOK'
    BY <1>1, <1>2, <1>4, <2>2 DEF DocsOK, Owners, CommentIds, VoiceDocs
  <2>4. DocsKeep
    BY <1>2, <1>6, <2>3, Keeps
  <2>5. PICK p : p = Attach(f, r.at)
    OBVIOUS
  <2>6. p \in Seq(Attaching({f}, r.at)) /\ {f} \in SUBSET FileIds
    BY <2>5, OneFile
  <2>7. ScriptFit(p)'
    BY <1>1, <2>6, ForeAttach, ForeFits
  <2> QED
    BY <1>6, <2>4, <2>5, <2>7, ScriptStep
<1> QED
  BY <1>3, <1>5, <1>6

LEMMA RemoveCommentKeeps ==
  ASSUME FilesAssumption, FilesInv, NEW w \in Workers, NEW r \in Requests,
         RemoveComment(w, r)
  PROVE  FilesInv'
<1>1. DocsOK /\ r.at \in CommentIds /\ Posts \subseteq Owners
  <2>1. r.op = "remove_comment"
    BY DEF RemoveComment
  <2> QED
    BY <2>1, DocsMean, RequestFields
<1>2. /\ voiced[r.at] # Nil
      /\ voiced' = [voiced EXCEPT ![r.at].removed = TRUE]
      /\ UNCHANGED <<file, owned, attached, seen, tokens, fetched>>
  BY DEF RemoveComment
<1>3. PICK d : d = voiced[r.at]
  OBVIOUS
<1>4. d \in VoiceDocs /\ d.post \in Posts /\ d.file \in FileIds
  <2>1. d \in VoiceDocs
    BY <1>1, <1>2, <1>3 DEF DocsOK
  <2> QED
    BY <2>1 DEF VoiceDocs
<1>5. script' = [script EXCEPT ![w] = Disown(d.file, d.post)]
  BY <1>3 DEF RemoveComment
<1>6. voiced' \in [CommentIds -> VoiceDocs \cup {Nil}]
  <2>1. [d EXCEPT !.removed = TRUE] \in VoiceDocs
    BY <1>4 DEF VoiceDocs
  <2>2. voiced' = [voiced EXCEPT ![r.at] = [d EXCEPT !.removed = TRUE]]
    BY <1>2, <1>3
  <2> QED
    BY <1>1, <2>1, <2>2 DEF DocsOK
<1>7. DocsOK'
  BY <1>1, <1>2, <1>6 DEF DocsOK, Owners, CommentIds, VoiceDocs
<1>8. DocsKeep
  BY <1>1, <1>2, <1>7, Keeps
<1>9. Voicing(d.file, d.post) # {}
  BY <1>1, <1>2, <1>3 DEF Voicing
<1>a. Voicing(d.file, d.post)' # {}
  BY <1>8, <1>9 DEF DocsKeep, Monotone
<1>b. PICK p : p = Disown(d.file, d.post)
  OBVIOUS
<1>c. p \in Seq(Detaching({d.file}, d.post)) /\ {d.file} \in SUBSET FileIds
  BY <1>4, <1>b, OneFile
<1>d. ScriptFit(p)'
  <2>1. \A f \in {d.file} : Voicing(f, d.post)' # {}
    BY <1>a
  <2>2. d.post \in Owners
    BY <1>1, <1>4
  <2>3. Fore(p)'
    BY <1>c, <2>1, <2>2, ForeDetach
  <2> QED
    BY <2>3, ForeFits
<1> QED
  BY <1>5, <1>8, <1>b, <1>d, ScriptStep

LEMMA CreateTaskKeeps ==
  ASSUME FilesAssumption, FilesInv, NEW w \in Workers, NEW r \in Requests,
         CreateTask(w, r)
  PROVE  FilesInv'
<1>1. /\ DocsOK /\ r.at \in Tasks /\ r.at \in Owners /\ r.at \notin Posts
      /\ r.files \in SUBSET FileIds
  <2>1. r.op = "create_task"
    BY DEF CreateTask, ForEach
  <2> QED
    BY <2>1, DocsMean, RequestFields
<1> DEFINE d == [files |-> r.files, n |-> Cardinality(r.files)]
<1>2. /\ attached' = [attached EXCEPT ![r.at] = d]
      /\ UNCHANGED <<file, owned, voiced, seen, tokens, fetched>>
  BY DEF CreateTask, ForEach
<1>3. d \in AttachedDocs /\ d.n = Cardinality(d.files) /\ d # Nil
  <2>1. Cardinality(r.files) \in Nat
    BY <1>1, SomeFiles
  <2>2. d \in AttachedDocs
    BY <1>1, <2>1 DEF AttachedDocs
  <2> QED
    BY <2>2 DEF FilesAssumption
<1>4. PICK p : p = FlattenSeq([i \in 1..Cardinality(r.files) |->
                                  Own(SetToSeq(r.files)[i], r.at)])
  OBVIOUS
<1>5. script' = [script EXCEPT ![w] = p]
  BY <1>4 DEF CreateTask, ForEach
<1> HIDE DEF d
<1>6. DocsOK'
  <2>1. attached' \in [Owners -> AttachedDocs \cup {Nil}]
    BY <1>1, <1>2, <1>3 DEF DocsOK
  <2> QED
    BY <1>1, <1>2, <2>1 DEF DocsOK, Owners, CommentIds, AttachedDocs
<1>7. DocsKeep
  <2>1. \A o \in Owners :
           \/ attached'[o] = attached[o]
           \/ /\ attached'[o] # Nil
              /\ attached'[o].n = Cardinality(attached'[o].files)
              /\ o \in Posts => \A f \in attached'[o].files : Kept(f, o)
    BY <1>1, <1>2, <1>3 DEF DocsOK
  <2> QED
    BY <1>2, <1>6, <2>1, Keeps
<1>8. p \in Seq(Attaching(r.files, r.at))
  BY <1>1, <1>4, EachFile
<1>9. ScriptFit(p)'
  BY <1>1, <1>8, ForeAttach, ForeFits
<1> QED
  BY <1>5, <1>7, <1>9, ScriptStep

LEMMA EditTaskKeeps ==
  ASSUME FilesAssumption, FilesInv, NEW w \in Workers, NEW r \in Requests,
         EditTask(w, r)
  PROVE  FilesInv'
<1>1. /\ r.op \in {"add_attachment", "remove_attachment"}
      /\ attached[r.at] # Nil /\ UNCHANGED <<docs, seen, tokens, fetched>>
  BY DEF EditTask
<1>2. DocsOK /\ r.at \in Tasks /\ r.files \in SUBSET FileIds
  BY <1>1, DocsMean, RequestFields
<1>3. PICK c : /\ c = IF r.op = "add_attachment"
                        THEN Command("extend", Known(r), r.at)
                        ELSE Command("reduce", r.files, r.at)
               /\ script' = [script EXCEPT ![w] = <<c>>]
  BY DEF EditTask
<1>4. /\ c \in Commands /\ c.do \in {"extend", "reduce"} /\ c.owner = r.at
  BY <1>2, <1>3 DEF Command, Commands, Known
<1>5. DocsKeep
  <2>1. DocsOK'
    BY <1>1, <1>2 DEF DocsOK, docs, Owners, CommentIds
  <2> QED
    BY <1>1, <2>1, DocsSame
<1>6. Fit(c)'
  BY <1>1, <1>4 DEF Fit, docs
<1>7. ScriptFit(<<c>>)'
  BY <1>4, <1>6, OneCommand
<1> QED
  BY <1>3, <1>5, <1>7, ScriptStep

LEMMA ExamineKeeps ==
  ASSUME FilesAssumption, FilesInv, NEW w \in Workers, NEW r \in Requests,
         Examine(w, r)
  PROVE  FilesInv'
<1>1. DocsKeep
  <2>1. DocsOK'
    BY DocsMean DEF DocsOK, Examine, docs, Owners, CommentIds
  <2> QED
    BY <2>1, DocsSame DEF Examine
<1>2. PICK s \in {<<"sync", "fix">>, <<"fix", "sync">>} :
        script' = [script EXCEPT ![w] =
                     [i \in 1..2 |-> Command(s[i], {}, Nil)]]
  BY DEF Examine
<1> DEFINE z == [i \in 1..2 |-> Command(s[i], {}, Nil)]
<1>3. \A i \in 1..2 : z[i] \in Commands /\ z[i].do \in {"sync", "fix"}
  BY DEF Command, Commands
<1> HIDE DEF z
<1>4. z \in Seq(Commands) /\ DOMAIN z = 1..2
  BY <1>3 DEF z
<1>5. Fore(z)'
  BY <1>3, <1>4 DEF Fore, Fit, Commands, Owners
<1>6. ScriptFit(z)'
  BY <1>5, ForeFits
<1> QED
  BY <1>1, <1>2, <1>6, ScriptStep DEF z

LEMMA ReceiveKeeps ==
  ASSUME FilesAssumption, FilesInv, NEW w \in Workers, NEW r \in Requests,
         Receive(w, r)
  PROVE  FilesInv'
  BY UploadKeeps, LookKeeps, AddPostKeeps, AddCommentKeeps,
     RemoveCommentKeeps, CreateTaskKeeps, EditTaskKeeps, ExamineKeeps
     DEF Receive

-----------------------------------------------------------------------------
(* Commands.                                                               *)

(* A command that puts nothing before the rest of the script.              *)
LEMMA ProceedKeeps ==
  ASSUME FilesInv, DocsKeep, NEW w \in Workers, script[w] # <<>>, Proceed(w),
         NEW c, c = Now(w),
         c.do = "own" /\ c.owner \in Posts => Kept(c.file, c.owner)'
  PROVE  FilesInv'
<1>1. Fore(<<>>)'
  BY DEF Fore, Commands, Owners
<1> QED
  BY <1>1, CommandStep DEF Proceed

LEMMA ReferKeeps ==
  ASSUME FilesAssumption, FilesInv, NEW w \in Workers, Refer(w)
  PROVE  FilesInv'
<1>1. PICK c : c = Now(w)
  OBVIOUS
<1>2. /\ script[w] # <<>> /\ c.do \in {"refer", "unrefer"} /\ Proceed(w)
      /\ file' = [file EXCEPT ![c.file] =
           IF @ = Nil THEN @
           ELSE [status |-> @.status,
                 refs |-> @.refs + IF c.do = "refer" THEN 1 ELSE -1]]
      /\ UNCHANGED <<owned, attached, voiced, seen, tokens, fetched>>
  BY <1>1 DEF Refer, Ready, Now, Same
<1>3. DocsOK
  BY DocsMean
<1>4. file' \in [FileIds -> FileDocs \cup {Nil}]
  <2> DEFINE d == IF file[c.file] = Nil THEN Nil
                  ELSE [status |-> file[c.file].status,
                        refs |-> file[c.file].refs
                                   + IF c.do = "refer" THEN 1 ELSE -1]
  <2>1. c.file \in FileIds
    BY <1>1, <1>2, NowFits, CommandFields
  <2>2. d \in FileDocs \cup {Nil}
    <3>1. CASE file[c.file] = Nil
      BY <3>1
    <3>2. CASE file[c.file] # Nil
      <4>1. file[c.file] \in FileDocs
        BY <1>3, <2>1, <3>2 DEF DocsOK
      <4> QED
        BY <3>2, <4>1 DEF FileDocs
    <3> QED
      BY <3>1, <3>2
  <2>3. file' = [file EXCEPT ![c.file] = d]
    BY <1>2
  <2> HIDE DEF d
  <2> QED
    BY <1>3, <2>2, <2>3 DEF DocsOK
<1>5. DocsOK'
  BY <1>2, <1>3, <1>4 DEF DocsOK, Owners, CommentIds
<1>6. DocsKeep
  BY <1>2, <1>5, Keeps
<1> QED
  BY <1>1, <1>2, <1>6, ProceedKeeps

LEMMA OwnerKeeps ==
  ASSUME FilesAssumption, FilesInv, NEW w \in Workers, Owner(w)
  PROVE  FilesInv'
<1>1. PICK c : c = Now(w)
  OBVIOUS
<1>2. /\ script[w] # <<>> /\ c.do \in {"own", "disown"} /\ Proceed(w)
      /\ owned' = IF c.do = "own" THEN owned \cup {<<c.file, c.owner>>}
                  ELSE owned \ {<<c.file, c.owner>>}
      /\ UNCHANGED <<file, attached, voiced, seen, tokens, fetched>>
  BY <1>1 DEF Owner, Ready, Now, Same
<1>3. DocsOK /\ c \in Commands /\ Fit(c)
  BY <1>1, <1>2, DocsMean, NowFits
<1>4. c.file \in FileIds /\ c.owner \in Owners
  BY <1>2, <1>3, CommandFields
<1>5. owned' \subseteq FileIds \X Owners
  <2>1. <<c.file, c.owner>> \in FileIds \X Owners
    BY <1>4
  <2> QED
    BY <1>2, <1>3, <2>1 DEF DocsOK
<1>6. DocsOK'
  BY <1>2, <1>3, <1>5 DEF DocsOK, Owners, CommentIds
<1>7. ASSUME NEW p \in Posts, NEW f \in FileIds, <<f, p>> \in owned
      PROVE  <<f, p>> \in owned' \/ Voicing(f, p) # {}
  <2>1. CASE c.do = "own"
    BY <1>2, <1>7, <2>1
  <2>2. CASE c.do = "disown" /\ <<f, p>> # <<c.file, c.owner>>
    BY <1>2, <1>7, <2>2
  <2>3. CASE c.do = "disown" /\ <<f, p>> = <<c.file, c.owner>>
    BY <1>3, <2>3 DEF Fit
  <2> QED
    BY <1>2, <2>1, <2>2, <2>3
<1>8. DocsKeep
  BY <1>2, <1>6, <1>7, Keeps
<1>9. c.do = "own" => Kept(c.file, c.owner)'
  <2>1. c.do = "own" => <<c.file, c.owner>> \in owned'
    BY <1>2
  <2> QED
    BY <2>1 DEF Kept
<1> QED
  BY <1>1, <1>2, <1>8, <1>9, ProceedKeeps

LEMMA SetStatusKeeps ==
  ASSUME FilesAssumption, FilesInv, NEW w \in Workers, SetStatus(w)
  PROVE  FilesInv'
<1>1. PICK c : c = Now(w)
  OBVIOUS
<1>2. /\ script[w] # <<>> /\ c.do = "attach" /\ Proceed(w)
      /\ file' = [file EXCEPT ![c.file] =
           IF @ = Nil THEN @
           ELSE IF @.status = "pub" THEN @
                ELSE [@ EXCEPT !.status = "attached"]]
      /\ UNCHANGED <<owned, attached, voiced, seen, tokens, fetched>>
  BY <1>1 DEF SetStatus, Ready, Now, Same
<1>3. DocsOK
  BY DocsMean
<1>4. file' \in [FileIds -> FileDocs \cup {Nil}]
  <2> DEFINE d == IF file[c.file] = Nil \/ file[c.file].status = "pub"
                    THEN file[c.file]
                  ELSE [file[c.file] EXCEPT !.status = "attached"]
  <2>1. c.file \in FileIds
    BY <1>1, <1>2, NowFits, CommandFields
  <2>2. d \in FileDocs \cup {Nil}
    <3>1. file[c.file] = Nil \/ file[c.file] \in FileDocs
      BY <1>3, <2>1 DEF DocsOK
    <3> QED
      BY <3>1 DEF FileDocs, Statuses
  <2>3. file' = [file EXCEPT ![c.file] = d]
    BY <1>2
  <2> HIDE DEF d
  <2> QED
    BY <1>3, <2>2, <2>3 DEF DocsOK
<1>5. DocsOK'
  BY <1>2, <1>3, <1>4 DEF DocsOK, Owners, CommentIds
<1>6. DocsKeep
  BY <1>2, <1>5, Keeps
<1> QED
  BY <1>1, <1>2, <1>6, ProceedKeeps

LEMMA LookAtSizeKeeps ==
  ASSUME FilesAssumption, FilesInv, NEW w \in Workers, LookAtSize(w)
  PROVE  FilesInv'
<1>1. PICK c : c = Now(w)
  OBVIOUS
<1>2. /\ script[w] # <<>> /\ c.do = "look" /\ Proceed(w) /\ Look(c.file)
      /\ UNCHANGED docs /\ UNCHANGED <<tokens, fetched>>
  BY <1>1 DEF LookAtSize, Ready, Now, Same
<1>3. DocsOK /\ c.file \in FileIds
  BY <1>1, <1>2, DocsMean, NowFits, CommandFields
<1>4. seen' \in [FileIds -> Statuses \cup {Nil}]
  BY <1>2, <1>3, Looks
<1>5. DocsOK'
  BY <1>2, <1>3, <1>4 DEF DocsOK, docs, Owners, CommentIds
<1>6. DocsKeep
  BY <1>2, <1>5, DocsSame
<1> QED
  BY <1>1, <1>2, <1>6, ProceedKeeps

LEMMA InsertPostKeeps ==
  ASSUME FilesAssumption, FilesInv, NEW w \in Workers, InsertPost(w)
  PROVE  FilesInv'
<1>1. PICK c : c = Now(w)
  OBVIOUS
<1> DEFINE d == [files |-> c.file, n |-> Cardinality(c.file)]
<1>2. /\ script[w] # <<>> /\ c.do = "insert" /\ Proceed(w)
      /\ Ready(w, "insert")
      /\ attached' = [attached EXCEPT ![c.owner] = d]
      /\ UNCHANGED <<file, owned, voiced, seen, tokens, fetched>>
  BY <1>1 DEF InsertPost, Ready, Now, Same
<1>3. DocsOK /\ c.file \in SUBSET FileIds /\ c.owner \in Posts
  BY <1>1, <1>2, DocsMean, NowFits, CommandFields
<1>4. d \in AttachedDocs /\ d.n = Cardinality(d.files) /\ d # Nil
  <2>1. Cardinality(c.file) \in Nat
    BY <1>3, SomeFiles
  <2>2. d \in AttachedDocs
    BY <1>3, <2>1 DEF AttachedDocs
  <2> QED
    BY <2>2 DEF FilesAssumption
<1>5. \A f \in d.files : Kept(f, c.owner)
  BY <1>1, <1>2, InsertKept
<1> HIDE DEF d
<1>6. DocsOK'
  <2>1. attached' \in [Owners -> AttachedDocs \cup {Nil}]
    BY <1>2, <1>3, <1>4 DEF DocsOK
  <2> QED
    BY <1>2, <1>3, <2>1 DEF DocsOK, Owners, CommentIds, AttachedDocs
<1>7. DocsKeep
  <2>1. ASSUME NEW o \in Owners
        PROVE  \/ attached'[o] = attached[o]
               \/ /\ attached'[o] # Nil
                  /\ attached'[o].n = Cardinality(attached'[o].files)
                  /\ o \in Posts => \A f \in attached'[o].files : Kept(f, o)
    <3>1. CASE o = c.owner
      <4>1. attached'[o] = d
        BY <1>2, <1>3, <3>1 DEF DocsOK
      <4> QED
        BY <1>4, <1>5, <3>1, <4>1
    <3>2. CASE o # c.owner
      BY <1>2, <1>3, <3>2 DEF DocsOK
    <3> QED
      BY <3>1, <3>2
  <2> QED
    BY <1>2, <1>6, <2>1, Keeps
<1> QED
  BY <1>1, <1>2, <1>7, ProceedKeeps

LEMMA ReturnKeeps ==
  ASSUME FilesAssumption, FilesInv, NEW w \in Workers, Return(w),
         UNCHANGED docs, UNCHANGED <<seen, tokens, fetched>>
  PROVE  FilesInv'
<1>1. DocsKeep
  <2>1. DocsOK'
    BY DocsMean DEF DocsOK, docs, Owners, CommentIds
  <2> QED
    BY <2>1, DocsSame
<1> QED
  BY <1>1, FitEmpty, ScriptStep DEF Return

(* Adding attachments to a task, and removing some, counts them.           *)
LEMMA EditedKeeps ==
  ASSUME FilesAssumption, FilesInv, NEW t \in Tasks, NEW d \in AttachedDocs,
         d.n = Cardinality(d.files),
         attached' = [attached EXCEPT ![t] = d],
         UNCHANGED <<file, owned, voiced, seen, tokens, fetched>>
  PROVE  DocsKeep
<1>1. DocsOK /\ t \in Owners /\ t \notin Posts /\ d # Nil
  BY DocsMean DEF FilesAssumption, Owners
<1>2. DocsOK'
  <2>1. attached' \in [Owners -> AttachedDocs \cup {Nil}]
    BY <1>1 DEF DocsOK
  <2> QED
    BY <1>1, <2>1 DEF DocsOK, Owners, CommentIds, AttachedDocs
<1>3. \A o \in Owners :
        \/ attached'[o] = attached[o]
        \/ /\ attached'[o] # Nil
           /\ attached'[o].n = Cardinality(attached'[o].files)
           /\ o \in Posts => \A f \in attached'[o].files : Kept(f, o)
  BY <1>1 DEF DocsOK
<1> QED
  BY <1>2, <1>3, Keeps

LEMMA ExtendKeeps ==
  ASSUME FilesAssumption, FilesInv, NEW w \in Workers, Extend(w)
  PROVE  FilesInv'
<1>1. PICK c : c = Now(w)
  OBVIOUS
<1>2. /\ script[w] # <<>> /\ c.do = "extend"
      /\ UNCHANGED <<file, owned, voiced, seen, tokens, fetched>>
  BY <1>1 DEF Extend, Ready, Now, Same, ForEach
<1>3. /\ DocsOK /\ c.file \in SUBSET FileIds /\ c.owner \in Tasks
      /\ c.owner \in Owners /\ attached[c.owner] # Nil
  BY <1>1, <1>2, DocsMean, NowFits, CommandFields DEF Fit, Owners
<1>4. PICK a : a = attached[c.owner]
  OBVIOUS
<1>5. /\ a \in AttachedDocs /\ a.files \in SUBSET FileIds
      /\ a.n = Cardinality(a.files)
  <2>1. a \in AttachedDocs /\ a.n = Cardinality(a.files)
    BY <1>3, <1>4 DEF FilesInv, AllCounted, DocsOK
  <2> QED
    BY <2>1 DEF AttachedDocs
<1> DEFINE d == [files |-> a.files \cup c.file, n |-> a.n + Cardinality(c.file)]
<1>6. PICK p : p = FlattenSeq([i \in 1..Cardinality(c.file) |->
                                  Attach(SetToSeq(c.file)[i], c.owner)])
  OBVIOUS
<1>7. \/ Return(w) /\ UNCHANGED attached
      \/ /\ a.files \cap c.file = {} /\ Become(w, p)
         /\ attached' = [attached EXCEPT ![c.owner] = d]
  BY <1>1, <1>4, <1>6 DEF Extend, ForEach
<1>8. CASE Return(w) /\ UNCHANGED attached
  BY <1>2, <1>8, ReturnKeeps DEF docs
<1>9. CASE /\ a.files \cap c.file = {} /\ Become(w, p)
           /\ attached' = [attached EXCEPT ![c.owner] = d]
  <2>1. d \in AttachedDocs /\ d.n = Cardinality(d.files)
    <3>1. Cardinality(c.file) \in Nat /\ Cardinality(a.files) \in Nat
      BY <1>3, <1>5, SomeFiles
    <3>2. Cardinality(a.files \cup c.file) =
            Cardinality(a.files) + Cardinality(c.file)
      BY <1>3, <1>5, <1>9, FewFiles
    <3>3. d.n = Cardinality(d.files)
      BY <1>5, <3>2
    <3>4. d \in AttachedDocs
      BY <1>3, <1>5, <3>1 DEF AttachedDocs
    <3> QED
      BY <3>3, <3>4
  <2> HIDE DEF d
  <2>2. DocsKeep
    BY <1>2, <1>3, <1>9, <2>1, EditedKeeps
  <2>3. p \in Seq(Attaching(c.file, c.owner))
    BY <1>3, <1>6, EachFile
  <2>4. Fore(p)'
    BY <1>3, <2>3, ForeAttach
  <2> QED
    BY <1>1, <1>2, <1>9, <2>2, <2>4, CommandStep
<1> QED
  BY <1>7, <1>8, <1>9

LEMMA ReduceKeeps ==
  ASSUME FilesAssumption, FilesInv, NEW w \in Workers, Reduce(w)
  PROVE  FilesInv'
<1>1. PICK c : c = Now(w)
  OBVIOUS
<1>2. /\ script[w] # <<>> /\ c.do = "reduce"
      /\ UNCHANGED <<file, owned, voiced, seen, tokens, fetched>>
  BY <1>1 DEF Reduce, Ready, Now, Same, ForEach
<1>3. /\ DocsOK /\ c.file \in SUBSET FileIds /\ c.owner \in Tasks
      /\ c.owner \in Owners /\ c.owner \notin Posts /\ attached[c.owner] # Nil
  BY <1>1, <1>2, DocsMean, NowFits, CommandFields
     DEF Fit, Owners, FilesAssumption
<1>4. PICK a : a = attached[c.owner]
  OBVIOUS
<1>5. /\ a \in AttachedDocs /\ a.files \in SUBSET FileIds
      /\ a.n = Cardinality(a.files)
  <2>1. a \in AttachedDocs /\ a.n = Cardinality(a.files)
    BY <1>3, <1>4 DEF FilesInv, AllCounted, DocsOK
  <2> QED
    BY <2>1 DEF AttachedDocs
<1> DEFINE d == [files |-> a.files \ c.file, n |-> a.n - Cardinality(c.file)]
<1>6. PICK p : p = FlattenSeq([i \in 1..Cardinality(c.file) |->
                                  Disown(SetToSeq(c.file)[i], c.owner)])
  OBVIOUS
<1>7. \/ Return(w) /\ UNCHANGED attached
      \/ /\ c.file \subseteq a.files /\ Become(w, p)
         /\ attached' = [attached EXCEPT ![c.owner] = d]
  BY <1>1, <1>4, <1>6 DEF Reduce, ForEach
<1>8. CASE Return(w) /\ UNCHANGED attached
  BY <1>2, <1>8, ReturnKeeps DEF docs
<1>9. CASE /\ c.file \subseteq a.files /\ Become(w, p)
           /\ attached' = [attached EXCEPT ![c.owner] = d]
  <2>1. d \in AttachedDocs /\ d.n = Cardinality(d.files)
    <3>1. Cardinality(c.file) \in Nat /\ Cardinality(a.files) \in Nat
      BY <1>3, <1>5, SomeFiles
    <3>2. Cardinality(a.files \ c.file) =
            Cardinality(a.files) - Cardinality(c.file)
      BY <1>3, <1>5, <1>9, FewFiles
    <3>3. d.n = Cardinality(d.files)
      BY <1>5, <3>2
    <3>4. d \in AttachedDocs
      BY <1>3, <1>5, <3>1 DEF AttachedDocs
    <3> QED
      BY <3>3, <3>4
  <2> HIDE DEF d
  <2>2. DocsKeep
    BY <1>2, <1>3, <1>9, <2>1, EditedKeeps
  <2>3. p \in Seq(Detaching(c.file, c.owner))
    BY <1>3, <1>6, EachFile
  <2>4. Fore(p)'
    BY <1>3, <2>3, ForeDetach
  <2> QED
    BY <1>1, <1>2, <1>9, <2>2, <2>4, CommandStep
<1> QED
  BY <1>7, <1>8, <1>9

(* The doctor adds owners, and counts them.                                *)
LEMMA SyncKeeps ==
  ASSUME FilesAssumption, FilesInv, NEW w \in Workers, SyncFileRefCounters(w)
  PROVE  FilesInv'
<1>1. PICK c : c = Now(w)
  OBVIOUS
<1>2. /\ script[w] # <<>> /\ c.do = "sync" /\ Proceed(w)
      /\ file' = [f \in FileIds |-> IF ~Exists(f) THEN Nil ELSE
                    [file[f] EXCEPT !.refs = Cardinality(Holders(f))]]
      /\ owned' = owned \cup Links
                    \cup {<<voiced[k].file, voiced[k].post>> :
                            k \in {d \in CommentIds : voiced[d] # Nil}}
      /\ UNCHANGED <<attached, voiced, seen, tokens, fetched>>
  BY <1>1 DEF SyncFileRefCounters, Ready, Now, Same
<1>3. DocsOK
  BY DocsMean
<1>4. file' \in [FileIds -> FileDocs \cup {Nil}]
  <2>1. ASSUME NEW f \in FileIds, Exists(f)
        PROVE  [file[f] EXCEPT !.refs = Cardinality(Holders(f))] \in FileDocs
    <3>1. Holders(f) \subseteq Owners
      BY DEF Holders
    <3>2. Cardinality(Holders(f)) \in Nat
      BY <3>1, FS_Subset, FS_CardinalityType DEF FilesAssumption
    <3>3. file[f] \in FileDocs
      BY <1>3, <2>1 DEF DocsOK, Exists
    <3> HIDE DEF Holders
    <3> QED
      BY <3>2, <3>3 DEF FileDocs
  <2> QED
    BY <1>2, <2>1
<1>5. owned' \subseteq FileIds \X Owners
  <2>1. ASSUME NEW k \in CommentIds, voiced[k] # Nil
        PROVE  <<voiced[k].file, voiced[k].post>> \in FileIds \X Owners
    <3>1. voiced[k] \in VoiceDocs
      BY <1>3, <2>1 DEF DocsOK
    <3> QED
      BY <3>1 DEF VoiceDocs, Owners
  <2>2. Links \subseteq FileIds \X Owners /\ owned \subseteq FileIds \X Owners
    BY <1>3 DEF Links, DocsOK
  <2> QED
    BY <1>2, <2>1, <2>2
<1>6. DocsOK'
  BY <1>2, <1>3, <1>4, <1>5 DEF DocsOK, Owners, CommentIds
<1>7. DocsKeep
  BY <1>2, <1>6, Keeps
<1> QED
  BY <1>1, <1>2, <1>7, ProceedKeeps

LEMMA FixKeeps ==
  ASSUME FilesAssumption, FilesInv, NEW w \in Workers, FixReferredTmpFiles(w)
  PROVE  FilesInv'
<1>1. PICK c : c = Now(w)
  OBVIOUS
<1>2. /\ script[w] # <<>> /\ c.do = "fix" /\ Proceed(w)
      /\ file' = [f \in FileIds |->
           IF Exists(f) /\ file[f].refs > 0 /\ file[f].status = "tmp"
             THEN [file[f] EXCEPT !.status = "attached"] ELSE file[f]]
      /\ UNCHANGED <<owned, attached, voiced, seen, tokens, fetched>>
  BY <1>1 DEF FixReferredTmpFiles, Ready, Now, Same
<1>3. DocsOK
  BY DocsMean
<1>4. file' \in [FileIds -> FileDocs \cup {Nil}]
  <2>1. ASSUME NEW f \in FileIds, Exists(f)
        PROVE  [file[f] EXCEPT !.status = "attached"] \in FileDocs
    <3>1. file[f] \in FileDocs
      BY <1>3, <2>1 DEF DocsOK, Exists
    <3> QED
      BY <3>1 DEF FileDocs, Statuses
  <2>2. \A f \in FileIds : file[f] \in FileDocs \cup {Nil}
    BY <1>3 DEF DocsOK
  <2> QED
    BY <1>2, <2>1, <2>2
<1>5. DocsOK'
  BY <1>2, <1>3, <1>4 DEF DocsOK, Owners, CommentIds
<1>6. DocsKeep
  BY <1>2, <1>5, Keeps
<1> QED
  BY <1>1, <1>2, <1>6, ProceedKeeps

LEMMA CrashKeeps ==
  ASSUME FilesAssumption, FilesInv, NEW w \in Workers, Crash(w)
  PROVE  FilesInv'
  BY ReturnKeeps DEF Crash

-----------------------------------------------------------------------------
(* The theorems.                                                           *)

LEMMA InitFits ==
  ASSUME FilesAssumption, Init
  PROVE  FilesInv
<1>1. TypeOK
  BY DEF Init, TypeOK
<1>2. ScriptsFit
  BY FitEmpty DEF Init, ScriptsFit
<1>3. HeldKept /\ AllCounted
  BY DEF Init, HeldKept, AllCounted, Holders
<1> QED
  BY <1>1, <1>2, <1>3 DEF FilesInv

LEMMA NextKeeps ==
  ASSUME FilesAssumption, FilesInv, [Next \/ Stop]_vars
  PROVE  FilesInv'
<1>1. ASSUME NEW w \in Workers, NEW r \in Requests, Receive(w, r)
      PROVE  FilesInv'
  BY <1>1, ReceiveKeeps
<1>2. ASSUME NEW w \in Workers,
             \/ Refer(w) \/ Owner(w) \/ SetStatus(w) \/ LookAtSize(w)
             \/ InsertPost(w) \/ Extend(w) \/ Reduce(w)
             \/ SyncFileRefCounters(w) \/ FixReferredTmpFiles(w) \/ Crash(w)
      PROVE  FilesInv'
  BY <1>2, ReferKeeps, OwnerKeeps, SetStatusKeeps, LookAtSizeKeeps,
     InsertPostKeeps, ExtendKeeps, ReduceKeeps, SyncKeeps, FixKeeps, CrashKeeps
<1>3. CASE UNCHANGED vars
  <2>1. DocsKeep
    <3>1. UNCHANGED docs /\ DocsOK'
      BY <1>3, DocsMean DEF vars, docs, DocsOK, Owners, CommentIds
    <3> QED
      BY <3>1, DocsSame
  <2>2. script' = script
    BY <1>3 DEF vars
  <2> QED
    BY <2>1, <2>2, ScriptsStay
<1> QED
  BY <1>1, <1>2, <1>3 DEF Next, Stop

(* A post's file is owned by it unless it is shown twice, by the post and  *)
(* a comment or by two comments.                                           *)
LEMMA OwnedOrTwice ==
  ASSUME FilesAssumption, FilesInv
  PROVE  PostFilesOwned
<1> SUFFICES ASSUME NEW p \in Posts, NEW f \in FileIds,
                    p \in Holders(f), ~Twice(f, p)
             PROVE  <<f, p>> \in owned
  BY DEF PostFilesOwned
<1>1. Kept(f, p)
  BY DEF FilesInv, HeldKept
<1>2. Voicing(f, p) = {}
  <2>1. IsFiniteSet(CommentIds) /\ Voicing(f, p) \subseteq CommentIds
    <3>1. MaxComments \in Nat
      BY DEF FilesAssumption
    <3>2. IsFiniteSet(CommentIds)
      BY <3>1, FS_Interval DEF CommentIds
    <3> QED
      BY <3>2 DEF Voicing
  <2>2. IsFiniteSet(Voicing(f, p)) /\ Cardinality(Voicing(f, p)) \in Nat
    BY <2>1, FS_Subset, FS_CardinalityType
  <2>3. ~(Cardinality(Voicing(f, p)) + 1 > 1)
    BY DEF Twice
  <2>4. Cardinality(Voicing(f, p)) = 0
    BY <2>2, <2>3
  <2> QED
    BY <2>2, <2>4, FS_EmptySet
<1> QED
  BY <1>1, <1>2 DEF Kept

(* The invariant holds from the start and after every step.                *)
THEOREM FilesStayRight == FilesAssumption /\ Spec => []FilesInv
<1> SUFFICES ASSUME FilesAssumption
             PROVE  Spec => []FilesInv
  OBVIOUS
<1>1. Init => FilesInv
  BY InitFits
<1>2. FilesInv /\ [Next \/ Stop]_vars => FilesInv'
  BY NextKeeps
<1> QED
  BY <1>1, <1>2, PTL DEF Spec

(* The documents of files, posts, comments and tasks keep their types, and *)
(* scripts hold only commands.                                             *)
THEOREM TypeCorrect == FilesAssumption /\ Spec => []TypeOK
<1> SUFFICES ASSUME FilesAssumption
             PROVE  Spec => []TypeOK
  OBVIOUS
<1>1. Spec => []FilesInv
  BY FilesStayRight
<1>2. FilesInv => TypeOK
  BY DEF FilesInv
<1> QED
  BY <1>1, <1>2, PTL

(* However AddAttachments and RemoveAttachments interleave with each other *)
(* and with handlers that die, a task's counter of attachments is right.   *)
THEOREM TasksCounted == FilesAssumption /\ Spec => []TaskFilesCounted
<1> SUFFICES ASSUME FilesAssumption
             PROVE  Spec => []TaskFilesCounted
  OBVIOUS
<1>1. Spec => []FilesInv
  BY FilesStayRight
<1>2. FilesInv => TaskFilesCounted
  BY DEF FilesInv, AllCounted, TaskFilesCounted, Owners
<1> QED
  BY <1>1, <1>2, PTL

(* A post that can be read owns the files attached to it, so that its      *)
(* readers get tokens for them, wherever a handler stopped.                *)
THEOREM PostsOwn == FilesAssumption /\ Spec => []PostFilesOwned
<1> SUFFICES ASSUME FilesAssumption
             PROVE  Spec => []PostFilesOwned
  OBVIOUS
<1>1. Spec => []FilesInv
  BY FilesStayRight
<1>2. FilesInv => PostFilesOwned
  BY OwnedOrTwice
<1> QED
  BY <1>1, <1>2, PTL

-----------------------------------------------------------------------------
(* What is shown can be downloaded, with one worker and before it dies.    *)

OneWorker == \E w : Workers = {w}

Showing(f, o) ==
  o \in Holders(f) \/ \E c \in Voicing(f, o) : ~voiced[c].removed
Once(f, o) == Showing(f, o) /\ ~Twice(f, o)

(* What is shown once is owned, or will be by the end of the script.       *)
OwnsAll(s) ==
  \A f \in FileIds, o \in Owners : Once(f, o) =>
    <<f, o>> \in owned \/ Has(s, Command("own", f, o))

(* No command takes what is shown once; attachments are edited by the      *)
(* first command; a post that is to be inserted is a new one.              *)
Careful(s) ==
  \A i \in DOMAIN s :
    /\ s[i].do = "disown" => ~Once(s[i].file, s[i].owner)
    /\ s[i].do \in {"extend", "reduce"} => Len(s) = 1
    /\ s[i].do = "insert" => attached[s[i].owner] = Nil

Reached(s) == OwnsAll(s) /\ Careful(s)

ReachInv ==
  /\ crashes \in Nat
  /\ crashes = 0 => \A w \in Workers : Reached(script[w])

(* A step of the one worker that leaves a script that reaches what is      *)
(* shown.                                                                  *)
LEMMA ReachStep ==
  ASSUME OneWorker, ReachInv, FilesInv, NEW w \in Workers, NEW t,
         script' = [script EXCEPT ![w] = t], Reached(t)', crashes' = crashes
  PROVE  ReachInv'
<1>1. script \in [Workers -> Seq(Commands)] /\ Workers = {w}
  BY DocsMean DEF OneWorker
<1>2. script'[w] = t
  BY <1>1
<1>3. ASSUME NEW v \in Workers
      PROVE  Reached(script[v])'
  <2>1. script'[v] = t
    BY <1>1, <1>2
  <2>2. OwnsAll(script[v])'
    BY <2>1 DEF Reached, OwnsAll, Has, Owners
  <2>3. Careful(script[v])'
    BY <2>1 DEF Reached, Careful
  <2> QED
    BY <2>2, <2>3 DEF Reached
<1> QED
  BY <1>3 DEF ReachInv

(* Nothing is left to be owned.                                            *)
AllOwned ==
  \A f \in FileIds, o \in Owners : Once(f, o) => <<f, o>> \in owned

LEMMA Idle ==
  ASSUME NEW s, s = <<>>
  PROVE  /\ OwnsAll(s) <=> AllOwned
         /\ Careful(s)
         /\ (AllOwned => Reached(s)) /\ (AllOwned' => Reached(s)')
<1>1. \A c : ~Has(s, c)
  BY DEF Has
<1> QED
  BY <1>1 DEF OwnsAll, AllOwned, Careful, Reached, Owners

(* Who starts to serve a request, or edits attachments, has nothing left   *)
(* to own.                                                                 *)
LEMMA Clear ==
  ASSUME FilesInv, ReachInv, crashes = 0, NEW w \in Workers,
         \/ script[w] = <<>>
         \/ Ready(w, "extend") \/ Ready(w, "reduce")
  PROVE  /\ AllOwned
         /\ script[w] # <<>> => Tail(script[w]) = <<>>
<1>1. PICK s : s = script[w]
  OBVIOUS
<1>2. Reached(s) /\ s \in Seq(Commands)
  BY <1>1, DocsMean DEF ReachInv
<1>3. CASE s = <<>>
  BY <1>1, <1>2, <1>3, Idle DEF Reached
<1>4. CASE s # <<>> /\ Head(s).do \in {"extend", "reduce"}
  <2>1. 1 \in DOMAIN s /\ Head(s) = s[1] /\ DOMAIN s = 1..Len(s)
    BY <1>2, <1>4
  <2>2. Len(s) = 1
    BY <1>2, <1>4, <2>1 DEF Reached, Careful
  <2>3. Tail(s) = <<>>
    <3>1. Tail(s) \in Seq(Commands) /\ Len(Tail(s)) = 0
      BY <1>2, <1>4, <2>2, HeadTailProperties
    <3> QED
      BY <3>1, EmptySeq
  <2>4. \A f, o : ~Has(s, Command("own", f, o))
    <3>1. \A f, o : Command("own", f, o).do = "own"
      BY DEF Command
    <3> QED
      BY <1>4, <2>1, <2>2, <3>1 DEF Has
  <2> QED
    BY <1>1, <1>2, <2>3, <2>4 DEF Reached, OwnsAll, AllOwned
<1> QED
  BY <1>1, <1>3, <1>4 DEF Ready

(* What is shown once stays so, and nothing else becomes so.               *)
LEMMA OnceStays ==
  ASSUME UNCHANGED <<attached, voiced>>
  PROVE  \A f, o : Once(f, o)' <=> Once(f, o)
BY DEF Once, Showing, Twice, Holders, Voicing, Owners, CommentIds

(* Handlers that leave the documents.                                      *)
LEMMA AllOwnedStays ==
  ASSUME AllOwned, UNCHANGED <<attached, voiced>>, owned \subseteq owned'
  PROVE  AllOwned'
<1>1. \A f, o : Once(f, o)' <=> Once(f, o)
  BY OnceStays
<1> QED
  BY <1>1 DEF AllOwned, Owners

(* A script that only attaches files, or does nothing of note.             *)
LEMMA Harmless ==
  ASSUME NEW s, \A i \in DOMAIN s :
           s[i].do \notin {"disown", "extend", "reduce", "insert"}
  PROVE  Careful(s)'
  BY DEF Careful

LEMMA AllReached ==
  ASSUME NEW s, AllOwned', Careful(s)'
  PROVE  Reached(s)'
  BY DEF Reached, OwnsAll, AllOwned, Owners

LEMMA LookReaches ==
  ASSUME OneWorker, FilesInv, ReachInv, crashes = 0,
         NEW w \in Workers, NEW r \in Requests,
         \/ Upload(w, r) \/ GetFile(w, r) \/ Overrun(w, r) \/ GetToken(w, r)
         \/ Serve(w, r)
  PROVE  ReachInv'
<1>1. /\ script[w] = <<>>
      /\ UNCHANGED <<owned, attached, voiced, script, crashes>>
  <2> HIDE DEF Look
  <2> QED
    BY DEF Upload, GetFile, Overrun, GetToken, Serve, Arrives, docs
<1>2. AllOwned'
  BY <1>1, Clear, AllOwnedStays
<1>3. Reached(<<>>)'
  BY <1>2, Idle
<1>4. script' = [script EXCEPT ![w] = <<>>]
  BY <1>1, DocsMean
<1> QED
  BY <1>1, <1>3, <1>4, ReachStep

(* A handler that leaves posts and tasks and puts an innocent script.      *)
LEMMA LeaveReaches ==
  ASSUME OneWorker, FilesInv, ReachInv, crashes = 0, NEW w \in Workers,
         script[w] = <<>>, UNCHANGED docs, crashes' = crashes,
         NEW t, script' = [script EXCEPT ![w] = t], Careful(t)'
  PROVE  ReachInv'
<1>1. AllOwned
  BY Clear
<1>2. UNCHANGED <<attached, voiced>> /\ owned \subseteq owned'
  BY DEF docs
<1>3. AllOwned'
  BY <1>1, <1>2, AllOwnedStays
<1>4. Reached(t)'
  BY <1>3, AllReached
<1> QED
  BY <1>4, ReachStep

LEMMA AddPostReaches ==
  ASSUME FilesAssumption, OneWorker, FilesInv, ReachInv, crashes = 0,
         NEW w \in Workers, NEW r \in Requests, AddPost(w, r)
  PROVE  ReachInv'
<1>1. /\ script[w] = <<>> /\ UNCHANGED docs /\ crashes' = crashes
      /\ attached'[r.at] = Nil
  BY DEF AddPost, Arrives, New, ForEach, docs
<1>2. PICK K \in SUBSET FileIds : K = Known(r)
  BY RequestFields DEF Known
<1> DEFINE n == Cardinality(K)
           q == SetToSeq(K)
           p == FlattenSeq([i \in 1..n |->
                  Attach(q[i], r.at) \o <<Command("look", q[i], r.at)>>])
           c == Command("insert", K, r.at)
<1>3. script' = [script EXCEPT ![w] = p \o <<c>>]
  BY <1>2 DEF AddPost, ForEach
<1>4. p \in Seq(Attaching(K, r.at))
  BY EachFile
<1>5. c.do = "insert" /\ c.owner = r.at
  BY DEF Command
<1> HIDE DEF p, c
<1>6. \A i \in DOMAIN p : p[i].do \in {"refer", "own", "attach", "look"}
  <2>1. \A i \in DOMAIN p : p[i] \in Attaching(K, r.at)
    BY <1>4
  <2> QED
    BY <2>1 DEF Attaching
<1>7. \A i \in DOMAIN (p \o <<c>>) :
        \/ i \in DOMAIN p /\ (p \o <<c>>)[i] = p[i]
        \/ (p \o <<c>>)[i] = c
  BY <1>4
<1>8. Careful(p \o <<c>>)'
  BY <1>1, <1>5, <1>6, <1>7 DEF Careful
<1> QED
  BY <1>1, <1>3, <1>8, LeaveReaches

LEMMA EditTaskReaches ==
  ASSUME FilesAssumption, OneWorker, FilesInv, ReachInv, crashes = 0,
         NEW w \in Workers, NEW r \in Requests, EditTask(w, r)
  PROVE  ReachInv'
<1>1. script[w] = <<>> /\ UNCHANGED docs /\ crashes' = crashes
  BY DEF EditTask, Arrives
<1>2. PICK c : /\ c = IF r.op = "add_attachment"
                        THEN Command("extend", Known(r), r.at)
                        ELSE Command("reduce", r.files, r.at)
               /\ script' = [script EXCEPT ![w] = <<c>>]
  BY DEF EditTask
<1>4. c.do \in {"extend", "reduce"}
  BY <1>2 DEF Command
<1>3. Careful(<<c>>)'
  <2>1. DOMAIN <<c>> = {1} /\ <<c>>[1] = c /\ Len(<<c>>) = 1
    OBVIOUS
  <2> QED
    BY <1>4, <2>1 DEF Careful
<1> QED
  BY <1>1, <1>2, <1>3, LeaveReaches

LEMMA ExamineReaches ==
  ASSUME FilesAssumption, OneWorker, FilesInv, ReachInv, crashes = 0,
         NEW w \in Workers, NEW r \in Requests, Examine(w, r)
  PROVE  ReachInv'
<1>1. script[w] = <<>> /\ UNCHANGED docs /\ crashes' = crashes
  BY DEF Examine, Arrives
<1>2. PICK s \in {<<"sync", "fix">>, <<"fix", "sync">>} :
        script' = [script EXCEPT ![w] =
                     [i \in 1..2 |-> Command(s[i], {}, Nil)]]
  BY DEF Examine
<1> DEFINE z == [i \in 1..2 |-> Command(s[i], {}, Nil)]
<1>3. \A i \in DOMAIN z : z[i].do \in {"sync", "fix"}
  BY DEF Command
<1> HIDE DEF z
<1>4. Careful(z)'
  BY <1>3, Harmless
<1> QED
  BY <1>1, <1>2, <1>4, LeaveReaches DEF z

(* What an account attaches to a task only that shows.                     *)
LEMMA TasksSilent ==
  ASSUME FilesAssumption, DocsOK, NEW t \in Tasks, NEW f
  PROVE  Voicing(f, t) = {}
<1>1. \A c \in CommentIds : voiced[c] # Nil => voiced[c].post \in Posts
  <2>1. \A c \in CommentIds : voiced[c] # Nil => voiced[c] \in VoiceDocs
    BY DEF DocsOK
  <2> QED
    BY <2>1 DEF VoiceDocs
<1> QED
  BY <1>1 DEF Voicing, FilesAssumption

LEMMA OnceElsewhere ==
  ASSUME NEW t, \A o \in Owners : o # t => attached'[o] = attached[o],
         voiced' = voiced
  PROVE  \A f, o : o # t => (Once(f, o)' <=> Once(f, o))
<1>1. \A f, o : o # t => (o \in Holders(f)' <=> o \in Holders(f))
  BY DEF Holders, Owners
<1>2. \A f, o : Voicing(f, o)' = Voicing(f, o)
  BY DEF Voicing, CommentIds
<1> QED
  BY <1>1, <1>2 DEF Once, Showing, Twice

(* A task's files are shown and no others.                                 *)
LEMMA TaskShows ==
  ASSUME FilesAssumption, DocsOK, NEW t \in Tasks, NEW d, d # Nil,
         attached' = [attached EXCEPT ![t] = d], voiced' = voiced
  PROVE  \A f : Once(f, t)' => f \in d.files
<1>1. t \in Owners
  BY DEF Owners
<1>2. \A f : Voicing(f, t) = {}
  BY TasksSilent
<1>3. \A f : Voicing(f, t)' = {}
  BY <1>2 DEF Voicing, CommentIds
<1>4. \A f : t \in Holders(f)' => f \in d.files
  BY <1>1 DEF Holders, DocsOK, Owners
<1> QED
  BY <1>3, <1>4 DEF Once, Showing

LEMMA AttachReaches ==
  ASSUME NEW K, NEW o, NEW p \in Seq(Attaching(K, o))
  PROVE  Careful(p)'
<1>1. \A i \in DOMAIN p : p[i] \in Attaching(K, o)
  OBVIOUS
<1>2. \A i \in DOMAIN p : p[i].do \in {"refer", "own", "attach", "look"}
  BY <1>1 DEF Attaching
<1> QED
  BY <1>2, Harmless

(* Files are attached to a task, whose script owns them.                   *)
LEMMA TaskReaches ==
  ASSUME FilesAssumption, FilesInv, AllOwned, NEW t \in Tasks, NEW d, d # Nil,
         attached' = [attached EXCEPT ![t] = d], UNCHANGED <<owned, voiced>>,
         NEW p, \A f \in d.files : \/ attached[t] # Nil /\ f \in attached[t].files
                                   \/ Has(p, Command("own", f, t))
  PROVE  OwnsAll(p)'
<1>1. /\ DocsOK /\ t \in Owners /\ voiced' = voiced
      /\ \A o \in Owners : o # t => attached'[o] = attached[o]
  BY DocsMean DEF Owners, DocsOK
<1>2. \A f, o : o # t => (Once(f, o)' <=> Once(f, o))
  BY <1>1, OnceElsewhere
<1>3. \A f : Once(f, t)' => f \in d.files
  BY <1>1, TaskShows
<1>4. ASSUME NEW f \in FileIds, attached[t] # Nil, f \in attached[t].files
      PROVE  <<f, t>> \in owned'
  <2>1. t \in Holders(f) /\ Voicing(f, t) = {}
    BY <1>1, <1>4, TasksSilent DEF Holders
  <2>2. ~Twice(f, t)
    <3>1. Cardinality({}) = 0
      BY FS_EmptySet
    <3> QED
      BY <2>1, <3>1 DEF Twice
  <2> QED
    BY <1>1, <2>1, <2>2 DEF AllOwned, Once, Showing
<1>5. ASSUME NEW f \in FileIds, NEW o \in Owners, Once(f, o)'
      PROVE  <<f, o>> \in owned' \/ Has(p, Command("own", f, o))
  <2>1. CASE o # t
    BY <1>2, <1>5, <2>1 DEF AllOwned
  <2>2. CASE o = t
    <3>1. f \in d.files
      BY <1>3, <1>5, <2>2
    <3> QED
      BY <1>4, <2>2, <3>1
  <2> QED
    BY <2>1, <2>2
<1> QED
  BY <1>5 DEF OwnsAll, Owners

LEMMA CreateTaskReaches ==
  ASSUME FilesAssumption, OneWorker, FilesInv, ReachInv, crashes = 0,
         NEW w \in Workers, NEW r \in Requests, CreateTask(w, r)
  PROVE  ReachInv'
<1>1. /\ r.at \in Tasks /\ r.files \in SUBSET FileIds
  <2>1. r.op = "create_task"
    BY DEF CreateTask, ForEach
  <2> QED
    BY <2>1, RequestFields
<1>2. PICK d : d = [files |-> r.files, n |-> Cardinality(r.files)]
  OBVIOUS
<1>3. PICK p : p = FlattenSeq([i \in 1..Cardinality(r.files) |->
                                  Own(SetToSeq(r.files)[i], r.at)])
  OBVIOUS
<1>4. /\ script[w] = <<>> /\ attached' = [attached EXCEPT ![r.at] = d]
      /\ UNCHANGED <<owned, voiced, crashes>>
      /\ script' = [script EXCEPT ![w] = p]
  BY <1>2, <1>3 DEF CreateTask, ForEach, Arrives
<1>5. /\ p \in Seq(Attaching(r.files, r.at))
      /\ \A f \in r.files : Has(p, Command("own", f, r.at))
  BY <1>1, <1>3, EachFile
<1>6. d.files = r.files /\ d # Nil
  <2>1. Cardinality(r.files) \in Nat
    BY <1>1, SomeFiles
  <2>2. d \in AttachedDocs
    BY <1>1, <1>2, <2>1 DEF AttachedDocs
  <2> QED
    BY <1>2, <2>2 DEF FilesAssumption
<1>7. AllOwned
  BY <1>4, Clear
<1>8. OwnsAll(p)'
  BY <1>1, <1>4, <1>5, <1>6, <1>7, TaskReaches
<1>9. Careful(p)'
  BY <1>5, AttachReaches
<1> QED
  BY <1>4, <1>8, <1>9, ReachStep DEF Reached

LEMMA AddCommentReaches ==
  ASSUME FilesAssumption, OneWorker, FilesInv, ReachInv, crashes = 0,
         NEW w \in Workers, NEW r \in Requests, AddComment(w, r)
  PROVE  ReachInv'
<1>1. /\ DocsOK /\ r.at \in Posts /\ r.files \in SUBSET FileIds
  <2>1. r.op = "add_comment"
    BY DEF AddComment
  <2> QED
    BY <2>1, DocsMean, RequestFields
<1>2. /\ script[w] = <<>> /\ UNCHANGED <<owned, attached, crashes>>
  BY DEF AddComment, Arrives
<1>3. AllOwned
  BY <1>2, Clear
<1>4. PICK f \in FileIds :
        \/ UNCHANGED <<voiced, script>>
        \/ \E c \in CommentIds :
             /\ voiced[c] = Nil
             /\ voiced' = [voiced EXCEPT ![c] =
                  [post |-> r.at, file |-> f, removed |-> FALSE]]
             /\ script' = [script EXCEPT ![w] = Attach(f, r.at)]
  BY <1>1 DEF AddComment
<1>5. CASE UNCHANGED <<voiced, script>>
  <2>1. AllOwned'
    BY <1>2, <1>3, <1>5, AllOwnedStays
  <2>2. Reached(<<>>)'
    BY <2>1, Idle
  <2>3. script' = [script EXCEPT ![w] = <<>>]
    BY <1>2, <1>5, DocsMean
  <2> QED
    BY <1>2, <2>2, <2>3, ReachStep
<1>6. ASSUME NEW c \in CommentIds, voiced[c] = Nil,
             voiced' = [voiced EXCEPT ![c] =
               [post |-> r.at, file |-> f, removed |-> FALSE]],
             script' = [script EXCEPT ![w] = Attach(f, r.at)]
      PROVE  ReachInv'
  <2>1. PICK p : p = Attach(f, r.at)
    OBVIOUS
  <2>2. p \in Seq(Attaching({f}, r.at)) /\ Has(p, Command("own", f, r.at))
    BY <2>1, OneFile
  <2>3. /\ \A k \in CommentIds : k # c => voiced'[k] = voiced[k]
        /\ voiced'[c].post = r.at /\ voiced'[c].file = f
    BY <1>1, <1>6 DEF DocsOK
  <2>4. ASSUME NEW g \in FileIds, NEW o \in Owners, Once(g, o)'
        PROVE  <<g, o>> \in owned' \/ Has(p, Command("own", g, o))
    <3>1. CASE g = f /\ o = r.at
      BY <2>2, <3>1
    <3>2. CASE ~(g = f /\ o = r.at)
      <4>1. /\ Voicing(g, o)' = Voicing(g, o)
            /\ \A k \in Voicing(g, o) : k # c
        BY <1>6, <2>3, <3>2 DEF Voicing, CommentIds
      <4>2. \A k \in Voicing(g, o) : voiced'[k] = voiced[k]
        BY <2>3, <4>1 DEF Voicing
      <4>3. Holders(g)' = Holders(g)
        BY <1>2 DEF Holders, Owners
      <4>4. Once(g, o)
        BY <2>4, <4>1, <4>2, <4>3 DEF Once, Showing, Twice
      <4> QED
        BY <1>2, <1>3, <4>4 DEF AllOwned
    <3> QED
      BY <3>1, <3>2
  <2>5. OwnsAll(p)'
    BY <2>4 DEF OwnsAll, Owners
  <2>6. Careful(p)'
    BY <2>2, AttachReaches
  <2> QED
    BY <1>2, <1>6, <2>1, <2>5, <2>6, ReachStep DEF Reached
<1> QED
  BY <1>4, <1>5, <1>6

(* A set that is not counted twice has no other element.                   *)
LEMMA Single ==
  ASSUME NEW S, IsFiniteSet(S), NEW c \in S, NEW h \in {0, 1},
         ~(Cardinality(S) + h > 1)
  PROVE  h = 0 /\ S = {c}
<1>1. Cardinality(S) \in Nat /\ Cardinality(S) # 0
  BY FS_CardinalityType, FS_EmptySet
<1>2. h = 0 /\ Cardinality(S) = 1
  BY <1>1
<1>3. PICK x : S = {x}
  BY <1>2, FS_Singleton
<1> QED
  BY <1>2, <1>3

LEMMA RemoveCommentReaches ==
  ASSUME FilesAssumption, OneWorker, FilesInv, ReachInv, crashes = 0,
         NEW w \in Workers, NEW r \in Requests, RemoveComment(w, r)
  PROVE  ReachInv'
<1>1. DocsOK /\ r.at \in CommentIds
  <2>1. r.op = "remove_comment"
    BY DEF RemoveComment
  <2> QED
    BY <2>1, DocsMean, RequestFields
<1>2. PICK d : d = voiced[r.at]
  OBVIOUS
<1>3. PICK p : p = Disown(d.file, d.post)
  OBVIOUS
<1>4. /\ script[w] = <<>> /\ d # Nil /\ UNCHANGED <<owned, attached, crashes>>
      /\ voiced' = [voiced EXCEPT ![r.at].removed = TRUE]
      /\ script' = [script EXCEPT ![w] = p]
  BY <1>2, <1>3 DEF RemoveComment, Arrives
<1>5. d \in VoiceDocs
  BY <1>1, <1>2, <1>4 DEF DocsOK
<1>6. /\ voiced'[r.at] # Nil /\ voiced'[r.at].post = d.post
      /\ voiced'[r.at].file = d.file /\ voiced'[r.at].removed = TRUE
      /\ \A k \in CommentIds : k # r.at => voiced'[k] = voiced[k]
  <2>1. voiced' = [voiced EXCEPT ![r.at] = [d EXCEPT !.removed = TRUE]]
    BY <1>2, <1>4
  <2>2. [d EXCEPT !.removed = TRUE] \in VoiceDocs
    BY <1>5 DEF VoiceDocs
  <2>3. Nil \notin VoiceDocs
    BY DEF FilesAssumption
  <2>4. /\ [d EXCEPT !.removed = TRUE].post = d.post
        /\ [d EXCEPT !.removed = TRUE].file = d.file
        /\ [d EXCEPT !.removed = TRUE].removed = TRUE
    BY <1>5 DEF VoiceDocs
  <2> QED
    BY <1>1, <2>1, <2>2, <2>3, <2>4 DEF DocsOK
<1>7. ASSUME NEW f, NEW o
      PROVE  /\ Voicing(f, o)' = Voicing(f, o) /\ Holders(f)' = Holders(f)
             /\ Once(f, o)' => Once(f, o)
  <2>1. Voicing(f, o)' = Voicing(f, o)
    BY <1>2, <1>4, <1>6 DEF Voicing, CommentIds
  <2>2. Holders(f)' = Holders(f)
    BY <1>4 DEF Holders, Owners
  <2>3. \A k \in CommentIds : ~voiced'[k].removed => voiced'[k] = voiced[k]
    BY <1>6
  <2>4. Showing(f, o)' => Showing(f, o)
    BY <2>1, <2>2, <2>3 DEF Showing, Voicing
  <2> QED
    BY <2>1, <2>2, <2>4 DEF Once, Twice
<1>8. AllOwned'
  <2>1. AllOwned
    BY <1>4, Clear
  <2> QED
    BY <1>4, <1>7, <2>1 DEF AllOwned, Owners
<1>9. ~Once(d.file, d.post)'
  <2> SUFFICES ASSUME ~Twice(d.file, d.post)'
               PROVE  ~Showing(d.file, d.post)'
    BY DEF Once
  <2> DEFINE S == Voicing(d.file, d.post)'
             h == IF d.post \in Holders(d.file)' THEN 1 ELSE 0
  <2>1. r.at \in S
    BY <1>1, <1>6 DEF Voicing, CommentIds
  <2>2. IsFiniteSet(S)
    <3>1. MaxComments \in Nat
      BY DEF FilesAssumption
    <3>2. IsFiniteSet(CommentIds) /\ S \subseteq CommentIds
      BY <3>1, FS_Interval DEF Voicing, CommentIds
    <3> QED
      BY <3>2, FS_Subset
  <2>3. ~(Cardinality(S) + h > 1)
    BY DEF Twice
  <2> HIDE DEF S
  <2>4. h \in {0, 1}
    OBVIOUS
  <2>5. h = 0 /\ S = {r.at}
    BY <2>1, <2>2, <2>3, <2>4, Single
  <2> QED
    BY <1>6, <2>5 DEF Showing, S
<1>a. Careful(p)'
  <2>1. p \in Seq(Detaching({d.file}, d.post))
    BY <1>3, OneFile
  <2>2. \A i \in DOMAIN p : p[i] \in Detaching({d.file}, d.post)
    BY <2>1
  <2>3. \A i \in DOMAIN p : /\ p[i].do \in {"unrefer", "disown"}
                            /\ p[i].file = d.file /\ p[i].owner = d.post
    BY <2>2 DEF Detaching
  <2> QED
    BY <1>9, <2>3 DEF Careful
<1> QED
  BY <1>4, <1>8, <1>a, AllReached, ReachStep

LEMMA ReceiveReaches ==
  ASSUME FilesAssumption, OneWorker, FilesInv, ReachInv, crashes = 0,
         NEW w \in Workers, NEW r \in Requests, Receive(w, r)
  PROVE  ReachInv'
  BY LookReaches, AddPostReaches, AddCommentReaches, RemoveCommentReaches,
     CreateTaskReaches, EditTaskReaches, ExamineReaches DEF Receive

-----------------------------------------------------------------------------
(* The commands.                                                           *)

(* What the rest of a script has.                                          *)
LEMMA RestOf ==
  ASSUME NEW S, NEW s \in Seq(S), s # <<>>
  PROVE  /\ \A c : Has(s, c) => Head(s) = c \/ Has(Tail(s), c)
         /\ \A i \in DOMAIN Tail(s) : i + 1 \in DOMAIN s /\ Tail(s)[i] = s[i + 1]
         /\ 1 \in DOMAIN s /\ Head(s) = s[1]
         /\ Len(s) = 1 => DOMAIN Tail(s) = {}
<1>1. /\ Len(s) \in Nat /\ DOMAIN s = 1..Len(s) /\ Head(s) = s[1]
      /\ Len(s) # 0 /\ DOMAIN Tail(s) = 1..(Len(s) - 1)
      /\ \A i \in 1..(Len(s) - 1) : Tail(s)[i] = s[i + 1]
  BY EmptySeq, HeadTailProperties
<1> HIDE DEF Tail, Head
<1>2. ASSUME NEW j \in DOMAIN s, j # 1
      PROVE  j - 1 \in DOMAIN Tail(s) /\ Tail(s)[j - 1] = s[j]
  BY <1>1, <1>2
<1>3. \A c : Has(s, c) => Head(s) = c \/ Has(Tail(s), c)
  BY <1>1, <1>2 DEF Has
<1> QED
  BY <1>1, <1>3

(* A command behind which the rest still reaches what is shown.            *)
LEMMA RestReaches ==
  ASSUME OneWorker, FilesInv, ReachInv, crashes = 0, crashes' = crashes,
         NEW w \in Workers, script[w] # <<>>, Proceed(w),
         UNCHANGED <<attached, voiced>>, NEW c, c = Now(w),
         c.do = "own" => <<c.file, c.owner>> \in owned',
         \A f \in FileIds, o \in Owners :
           <<f, o>> \in owned => \/ <<f, o>> \in owned'
                                 \/ /\ c.do = "disown"
                                    /\ c.file = f /\ c.owner = o
  PROVE  ReachInv'
<1>1. PICK s : s = script[w]
  OBVIOUS
<1>2. Reached(s) /\ s \in Seq(Commands) /\ s # <<>> /\ Head(s) = c
  BY <1>1, DocsMean DEF ReachInv, Now
<1> DEFINE t == Tail(s)
<1>3. /\ \A k : Has(s, k) => c = k \/ Has(t, k)
      /\ \A i \in DOMAIN t : i + 1 \in DOMAIN s /\ t[i] = s[i + 1]
      /\ 1 \in DOMAIN s /\ c = s[1]
      /\ Len(s) = 1 => DOMAIN t = {}
  BY <1>2, RestOf
<1>4. script' = [script EXCEPT ![w] = t]
  <2>1. t \in Seq(Commands)
    BY <1>2
  <2>2. <<>> \o t = t
    BY <2>1
  <2> QED
    BY <1>1, <2>2 DEF Proceed, Become
<1> HIDE DEF t
<1>5. \A f, o : Once(f, o)' <=> Once(f, o)
  BY OnceStays
<1>6. ASSUME NEW f \in FileIds, NEW o \in Owners, Once(f, o)
      PROVE  <<f, o>> \in owned' \/ Has(t, Command("own", f, o))
  <2>1. c.do = "disown" => ~Once(c.file, c.owner)
    BY <1>2, <1>3 DEF Reached, Careful
  <2>2. CASE <<f, o>> \in owned
    BY <1>6, <2>1, <2>2
  <2>3. CASE Has(s, Command("own", f, o))
    <3>1. CASE c = Command("own", f, o)
      BY <3>1 DEF Command
    <3>2. CASE Has(t, Command("own", f, o))
      BY <3>2
    <3> QED
      BY <1>3, <2>3, <3>1, <3>2
  <2> QED
    BY <1>2, <1>6, <2>2, <2>3 DEF Reached, OwnsAll
<1>7. OwnsAll(t)'
  BY <1>5, <1>6 DEF OwnsAll, Owners
<1>8. Careful(t)'
  <2>1. ASSUME NEW i \in DOMAIN t
        PROVE  /\ t[i].do = "disown" => ~Once(t[i].file, t[i].owner)
               /\ t[i].do \in {"extend", "reduce"} => Len(t) = 1
               /\ t[i].do = "insert" => attached[t[i].owner] = Nil
    BY <1>2, <1>3 DEF Reached, Careful
  <2> QED
    BY <1>5, <2>1 DEF Careful
<1>9. Reached(t)'
  BY <1>7, <1>8 DEF Reached
<1> QED
  BY <1>4, <1>9, ReachStep

LEMMA PlainReaches ==
  ASSUME OneWorker, FilesInv, ReachInv, crashes = 0, NEW w \in Workers,
         \/ Refer(w) \/ Owner(w) \/ SetStatus(w) \/ LookAtSize(w)
         \/ SyncFileRefCounters(w) \/ FixReferredTmpFiles(w)
  PROVE  ReachInv'
<1>1. PICK c : c = Now(w)
  OBVIOUS
<1>2. script[w] # <<>> /\ crashes' = crashes /\ Proceed(w)
  <2> HIDE DEF Look
  <2> QED
    BY DEF Refer, Owner, SetStatus, LookAtSize, SyncFileRefCounters,
       FixReferredTmpFiles, Ready, Same
<1>3. UNCHANGED <<attached, voiced>>
  BY DEF Refer, Owner, SetStatus, LookAtSize, SyncFileRefCounters,
     FixReferredTmpFiles, docs
<1>4. CASE Owner(w)
  <2>1. /\ c.do \in {"own", "disown"}
        /\ owned' = IF c.do = "own" THEN owned \cup {<<c.file, c.owner>>}
                    ELSE owned \ {<<c.file, c.owner>>}
    BY <1>1, <1>4 DEF Owner, Ready, Now
  <2>2. c.do = "own" => <<c.file, c.owner>> \in owned'
    BY <2>1
  <2>3. ASSUME NEW f, NEW o, <<f, o>> \in owned
        PROVE  \/ <<f, o>> \in owned'
               \/ c.do = "disown" /\ c.file = f /\ c.owner = o
    BY <2>1, <2>3
  <2> QED
    BY <1>1, <1>2, <1>3, <2>2, <2>3, RestReaches
<1>5. CASE ~Owner(w)
  <2>1. c.do # "own" /\ owned \subseteq owned'
    BY <1>1, <1>5 DEF Refer, Owner, SetStatus, LookAtSize,
       SyncFileRefCounters, FixReferredTmpFiles, docs, Ready, Now
  <2> QED
    BY <1>1, <1>2, <1>3, <2>1, RestReaches
<1> QED
  BY <1>4, <1>5

(* A post owns its files when it is inserted, if they are shown once.      *)
LEMMA InsertReaches ==
  ASSUME FilesAssumption, OneWorker, FilesInv, ReachInv, crashes = 0,
         NEW w \in Workers, InsertPost(w), PostFilesOwned'
  PROVE  ReachInv'
<1>1. PICK c : c = Now(w)
  OBVIOUS
<1>2. PICK s : s = script[w]
  OBVIOUS
<1>3. /\ s # <<>> /\ c = Head(s) /\ c.do = "insert" /\ Proceed(w)
      /\ UNCHANGED <<owned, voiced, crashes>>
      /\ attached' = [attached EXCEPT ![c.owner] =
           [files |-> c.file, n |-> Cardinality(c.file)]]
  BY <1>1, <1>2 DEF InsertPost, Ready, Now, Same
<1>4. /\ DocsOK /\ s \in Seq(Commands) /\ Reached(s) /\ InsertLast(s)
      /\ c \in Commands
  BY <1>1, <1>2, <1>3, DocsMean, NowFits
     DEF ReachInv, FilesInv, ScriptsFit, ScriptFit
<1> DEFINE t == Tail(s)
<1>5. /\ 1 \in DOMAIN s /\ c = s[1] /\ DOMAIN t = {} /\ DOMAIN s = {1}
  <2>1. 1 \in DOMAIN s /\ c = s[1] /\ (Len(s) = 1 => DOMAIN t = {})
    BY <1>3, <1>4, RestOf
  <2>2. 1 = Len(s)
    BY <1>3, <1>4, <2>1 DEF InsertLast
  <2>3. DOMAIN s = 1..Len(s)
    BY <1>4
  <2> QED
    BY <2>1, <2>2, <2>3
<1>6. script' = [script EXCEPT ![w] = t]
  <2>1. t \in Seq(Commands)
    BY <1>3, <1>4
  <2>2. <<>> \o t = t
    BY <2>1
  <2> QED
    BY <1>2, <1>3, <2>2 DEF Proceed, Become
<1> HIDE DEF t
<1>7. AllOwned
  <2>1. \A f, o : Command("own", f, o).do = "own"
    BY DEF Command
  <2>2. \A f, o : ~Has(s, Command("own", f, o))
    BY <1>3, <1>5, <2>1 DEF Has
  <2> QED
    BY <1>4, <2>2 DEF Reached, OwnsAll, AllOwned
<1>8. attached[c.owner] = Nil /\ c.owner \in Posts
  BY <1>3, <1>4, <1>5, CommandFields DEF Reached, Careful
<1>9. ASSUME NEW f \in FileIds, NEW o \in Owners, Once(f, o)'
      PROVE  <<f, o>> \in owned'
  <2>1. CASE o = c.owner /\ o \in Holders(f)'
    BY <1>8, <1>9, <2>1 DEF PostFilesOwned, Once
  <2>2. CASE o = c.owner /\ o \notin Holders(f)'
    <3>1. o \notin Holders(f)
      BY <1>8, <2>2 DEF Holders
    <3>2. Voicing(f, o)' = Voicing(f, o)
      BY <1>3 DEF Voicing, CommentIds
    <3>3. Once(f, o)
      BY <1>3, <1>9, <2>2, <3>1, <3>2 DEF Once, Showing, Twice
    <3> QED
      BY <1>3, <1>7, <3>3 DEF AllOwned
  <2>3. CASE o # c.owner
    <3>1. \A q \in Owners : q # c.owner => attached'[q] = attached[q]
      BY <1>3, <1>4 DEF DocsOK
    <3>2. voiced' = voiced
      BY <1>3
    <3>3. Once(f, o)
      BY <1>9, <2>3, <3>1, <3>2, OnceElsewhere
    <3> QED
      BY <1>3, <1>7, <3>3 DEF AllOwned
  <2> QED
    BY <2>1, <2>2, <2>3
<1>a. OwnsAll(t)' /\ Careful(t)'
  BY <1>5, <1>9 DEF OwnsAll, Careful, Owners
<1> QED
  BY <1>3, <1>6, <1>a, ReachStep DEF Reached

LEMMA RefusedReaches ==
  ASSUME OneWorker, FilesInv, ReachInv, AllOwned, NEW w \in Workers,
         Return(w), UNCHANGED <<owned, attached, voiced, crashes>>
  PROVE  ReachInv'
<1>1. AllOwned' /\ crashes' = crashes
  BY AllOwnedStays
<1>2. Reached(<<>>)'
  BY <1>1, Idle
<1> QED
  BY <1>1, <1>2, ReachStep DEF Return

LEMMA ExtendReaches ==
  ASSUME FilesAssumption, OneWorker, FilesInv, ReachInv, crashes = 0,
         NEW w \in Workers, Extend(w)
  PROVE  ReachInv'
<1>1. PICK c : c = Now(w)
  OBVIOUS
<1>2. /\ Ready(w, "extend") /\ script[w] # <<>> /\ c.do = "extend"
      /\ UNCHANGED <<owned, voiced, crashes>>
  BY <1>1 DEF Extend, Ready, Now, Same, ForEach
<1>3. AllOwned /\ Tail(script[w]) = <<>>
  BY <1>2, Clear
<1>4. /\ DocsOK /\ c.file \in SUBSET FileIds /\ c.owner \in Tasks
      /\ c.owner \in Owners /\ attached[c.owner] # Nil
  BY <1>1, <1>2, DocsMean, NowFits, CommandFields DEF Fit, Owners
<1>5. PICK a : a = attached[c.owner]
  OBVIOUS
<1>6. a \in AttachedDocs
  BY <1>4, <1>5 DEF DocsOK
<1>7. PICK d : d = [files |-> a.files \cup c.file,
                    n |-> a.n + Cardinality(c.file)]
  OBVIOUS
<1>8. PICK p : p = FlattenSeq([i \in 1..Cardinality(c.file) |->
                                  Attach(SetToSeq(c.file)[i], c.owner)])
  OBVIOUS
<1>9. \/ Return(w) /\ UNCHANGED attached
      \/ Become(w, p) /\ attached' = [attached EXCEPT ![c.owner] = d]
  BY <1>1, <1>5, <1>7, <1>8 DEF Extend, ForEach
<1>a. CASE Return(w) /\ UNCHANGED attached
  BY <1>2, <1>3, <1>a, RefusedReaches
<1>b. CASE Become(w, p) /\ attached' = [attached EXCEPT ![c.owner] = d]
  <2>1. d.files = a.files \cup c.file /\ d # Nil
    <3>1. Cardinality(c.file) \in Nat
      BY <1>4, SomeFiles
    <3>2. d \in AttachedDocs
      BY <1>4, <1>6, <1>7, <3>1 DEF AttachedDocs
    <3> QED
      BY <1>7, <3>2 DEF FilesAssumption
  <2>2. /\ p \in Seq(Attaching(c.file, c.owner))
        /\ \A f \in c.file : Has(p, Command("own", f, c.owner))
    BY <1>4, <1>8, EachFile
  <2>3. script' = [script EXCEPT ![w] = p]
    <3>1. p \o <<>> = p
      BY <2>2
    <3> QED
      BY <1>3, <1>b, <3>1 DEF Become
  <2>4. \A f \in d.files : \/ attached[c.owner] # Nil /\ f \in attached[c.owner].files
                           \/ Has(p, Command("own", f, c.owner))
    BY <1>4, <1>5, <2>1, <2>2
  <2>5. UNCHANGED <<owned, voiced>>
    BY <1>2
  <2>6. OwnsAll(p)'
    BY <1>3, <1>4, <1>b, <2>1, <2>4, <2>5, TaskReaches
  <2>7. Careful(p)'
    BY <2>2, AttachReaches
  <2> QED
    BY <1>2, <2>3, <2>6, <2>7, ReachStep DEF Reached
<1> QED
  BY <1>9, <1>a, <1>b

LEMMA ReduceReaches ==
  ASSUME FilesAssumption, OneWorker, FilesInv, ReachInv, crashes = 0,
         NEW w \in Workers, Reduce(w)
  PROVE  ReachInv'
<1>1. PICK c : c = Now(w)
  OBVIOUS
<1>2. /\ Ready(w, "reduce") /\ script[w] # <<>> /\ c.do = "reduce"
      /\ UNCHANGED <<owned, voiced, crashes>>
  BY <1>1 DEF Reduce, Ready, Now, Same, ForEach
<1>3. AllOwned /\ Tail(script[w]) = <<>>
  BY <1>2, Clear
<1>4. /\ DocsOK /\ c.file \in SUBSET FileIds /\ c.owner \in Tasks
      /\ c.owner \in Owners /\ attached[c.owner] # Nil
  BY <1>1, <1>2, DocsMean, NowFits, CommandFields DEF Fit, Owners
<1>5. PICK a : a = attached[c.owner]
  OBVIOUS
<1>6. a \in AttachedDocs
  BY <1>4, <1>5 DEF DocsOK
<1>7. PICK d : d = [files |-> a.files \ c.file, n |-> a.n - Cardinality(c.file)]
  OBVIOUS
<1>8. PICK p : p = FlattenSeq([i \in 1..Cardinality(c.file) |->
                                  Disown(SetToSeq(c.file)[i], c.owner)])
  OBVIOUS
<1>9. \/ Return(w) /\ UNCHANGED attached
      \/ Become(w, p) /\ attached' = [attached EXCEPT ![c.owner] = d]
  BY <1>1, <1>5, <1>7, <1>8 DEF Reduce, ForEach
<1>a. CASE Return(w) /\ UNCHANGED attached
  BY <1>2, <1>3, <1>a, RefusedReaches
<1>b. CASE Become(w, p) /\ attached' = [attached EXCEPT ![c.owner] = d]
  <2>1. d.files = a.files \ c.file /\ d # Nil
    <3>1. Cardinality(c.file) \in Nat
      BY <1>4, SomeFiles
    <3>2. d \in AttachedDocs
      BY <1>4, <1>6, <1>7, <3>1 DEF AttachedDocs
    <3> QED
      BY <1>7, <3>2 DEF FilesAssumption
  <2>2. p \in Seq(Detaching(c.file, c.owner))
    BY <1>4, <1>8, EachFile
  <2>3. script' = [script EXCEPT ![w] = p]
    <3>1. p \o <<>> = p
      BY <2>2
    <3> QED
      BY <1>3, <1>b, <3>1 DEF Become
  <2>4. \A f \in d.files : attached[c.owner] # Nil /\ f \in attached[c.owner].files
    BY <1>4, <1>5, <2>1
  <2>5. UNCHANGED <<owned, voiced>> /\ voiced' = voiced
    BY <1>2
  <2>6. OwnsAll(p)'
    BY <1>3, <1>4, <1>b, <2>1, <2>4, <2>5, TaskReaches
  <2>7. \A f : Once(f, c.owner)' => f \notin c.file
    <3>1. \A f : Once(f, c.owner)' => f \in d.files
      BY <1>4, <1>b, <2>1, <2>5, TaskShows
    <3> QED
      BY <2>1, <3>1
  <2>8. Careful(p)'
    <3>1. \A i \in DOMAIN p : p[i] \in Detaching(c.file, c.owner)
      BY <2>2
    <3>2. \A i \in DOMAIN p : /\ p[i].do \in {"unrefer", "disown"}
                              /\ p[i].file \in c.file /\ p[i].owner = c.owner
      BY <3>1 DEF Detaching
    <3> QED
      BY <2>7, <3>2 DEF Careful
  <2> QED
    BY <1>2, <2>3, <2>6, <2>8, ReachStep DEF Reached
<1> QED
  BY <1>9, <1>a, <1>b

LEMMA NextReaches ==
  ASSUME FilesAssumption, OneWorker, FilesInv, ReachInv, PostFilesOwned',
         [Next \/ Stop]_vars
  PROVE  ReachInv'
<1>1. CASE UNCHANGED vars
  <2>1. UNCHANGED <<owned, attached, voiced, crashes, script>>
    BY <1>1 DEF vars, docs
  <2>2. \A f, o : Once(f, o)' <=> Once(f, o)
    BY <2>1, OnceStays
  <2> QED
    BY <2>1, <2>2 DEF ReachInv, Reached, OwnsAll, Careful, Has, Owners
<1>2. ASSUME NEW w \in Workers, Crash(w)
      PROVE  ReachInv'
  BY <1>2 DEF Crash, ReachInv
<1>3. ASSUME NEW w \in Workers,
             \/ \E r \in Requests : Receive(w, r)
             \/ Refer(w) \/ Owner(w) \/ SetStatus(w) \/ LookAtSize(w)
             \/ InsertPost(w) \/ Extend(w) \/ Reduce(w)
             \/ SyncFileRefCounters(w) \/ FixReferredTmpFiles(w)
      PROVE  ReachInv'
  <2>1. CASE crashes = 0
    BY <1>3, <2>1, ReceiveReaches, PlainReaches, InsertReaches, ExtendReaches,
       ReduceReaches
  <2>2. CASE crashes # 0
    <3>1. crashes' = crashes
      <4> HIDE DEF Look
      <4> QED
        BY <1>3 DEF Receive, Upload, GetFile, AddPost, Overrun, AddComment,
           RemoveComment, CreateTask, EditTask, GetToken, Serve, Examine,
           Refer, Owner, SetStatus, LookAtSize, InsertPost, Extend, Reduce,
           SyncFileRefCounters, FixReferredTmpFiles, Same, ForEach
    <3> QED
      BY <2>2, <3>1 DEF ReachInv
  <2> QED
    BY <2>1, <2>2
<1> QED
  BY <1>1, <1>2, <1>3 DEF Next, Stop

(* Who serves one request at a time and does not stop half-way leaves each *)
(* post, comment and task the owner of what it is shown with, but for what *)
(* a post and its comments have twice.                                     *)
THEOREM ShownReachable ==
  FilesAssumption /\ OneWorker /\ Spec => []FilesReachable
<1> SUFFICES ASSUME FilesAssumption, OneWorker
             PROVE  Spec => []FilesReachable
  OBVIOUS
<1>1. Init => ReachInv
  <2> SUFFICES ASSUME Init PROVE ReachInv
    OBVIOUS
  <2>1. \A f, o : ~Once(f, o)
    BY DEF Init, Once, Showing, Holders, Voicing
  <2>2. \A w \in Workers : script[w] = <<>>
    BY DEF Init
  <2>3. AllOwned
    BY <2>1 DEF AllOwned
  <2> QED
    BY <2>2, <2>3, Idle DEF Init, ReachInv
<1>2. FilesInv /\ ReachInv /\ PostFilesOwned' /\ [Next \/ Stop]_vars => ReachInv'
  BY NextReaches
<1>3. Spec => []FilesInv
  BY FilesStayRight
<1>4. Spec => []PostFilesOwned
  BY PostsOwn
<1>5. ReachInv => FilesReachable
  <2> SUFFICES ASSUME ReachInv, Quiet, crashes = 0
               PROVE  FilesReachable
    BY DEF FilesReachable
  <2>1. PICK w : Workers = {w}
    BY DEF OneWorker
  <2>2. PICK s : s = script[w]
    OBVIOUS
  <2>3. Reached(s) /\ s = <<>>
    BY <2>1, <2>2 DEF ReachInv, Quiet
  <2>4. AllOwned
    BY <2>3, Idle DEF Reached
  <2> QED
    BY <2>4 DEF FilesReachable, AllOwned, Once, Showing
<1> QED
  BY <1>1, <1>2, <1>3, <1>4, <1>5, PTL DEF Spec
=============================================================================
