---------------------------- MODULE AccountsProofs ----------------------------
(***************************************************************************)
(* What Accounts keeps for any accounts, phones, workers, requests and     *)
(* number of requests.                                                     *)
(***************************************************************************)
EXTENDS Accounts, SequenceTheorems, TLAPS

-----------------------------------------------------------------------------
(* Guesses.                                                                *)

(* The code was compared at most as often as attempts were counted, and    *)
(* fewer times than the constant allows.                                   *)
Guarded(v, n) ==
  /\ "attempts" \in DOMAIN v /\ v.attempts \in Nat
  /\ n \in Nat /\ n <= v.attempts /\ n < MaxAttempts

(* The inductive invariant.  What else a verification holds matters to no  *)
(* step.                                                                   *)
GuessInv ==
  /\ \E S : verification \in Seq(S)
  /\ guesses \in Seq(Nat) /\ Len(guesses) = Len(verification)
  /\ \A v \in 1..Len(verification) : Guarded(verification[v], guesses[v])

LEMMA SomeAttempts ==
  ASSUME AccountsAssumption
  PROVE  MaxAttempts \in Nat /\ 0 < MaxAttempts
  BY DEF AccountsAssumption

LEMMA GuessInvMeans ==
  ASSUME GuessInv
  PROVE  GuessesBounded
  BY DEF GuessInv, GuessesBounded, Guarded

(* A step that changes one verification, or what it was guessed.           *)
LEMMA OneVerification ==
  ASSUME GuessInv, NEW id, NEW d, NEW n,
         verification' = [verification EXCEPT ![id] = d],
         \/ guesses' = guesses /\ (id \in DOMAIN guesses => n = guesses[id])
         \/ guesses' = [guesses EXCEPT ![id] = n],
         id \in 1..Len(verification) => Guarded(d, n)
  PROVE  GuessInv'
<1>1. PICK S : verification \in Seq(S)
  BY DEF GuessInv
<1>2. /\ guesses \in Seq(Nat) /\ Len(guesses) = Len(verification)
      /\ DOMAIN guesses = 1..Len(verification)
      /\ DOMAIN verification = 1..Len(verification)
  BY <1>1 DEF GuessInv
<1>3. verification' \in Seq(S \cup {d}) /\ Len(verification') = Len(verification)
  <2>1. verification \in Seq(S \cup {d}) /\ d \in S \cup {d}
    BY <1>1
  <2>2. CASE id \in 1..Len(verification)
    BY <2>1, <2>2, ExceptSeq
  <2>3. CASE id \notin 1..Len(verification)
    <3>1. verification' = verification
      BY <1>1, <1>2, <2>3
    <3> QED
      BY <2>1, <3>1
  <2> QED
    BY <2>2, <2>3
<1>4. guesses' \in Seq(Nat) /\ Len(guesses') = Len(guesses)
  <2>1. CASE id \in DOMAIN guesses
    <3>1. n \in Nat
      BY <1>2, <2>1 DEF Guarded
    <3> QED
      BY <1>2, <3>1
  <2>2. CASE id \notin DOMAIN guesses
    <3>1. guesses' = guesses
      BY <1>2, <2>2
    <3> QED
      BY <1>2, <3>1
  <2> QED
    BY <2>1, <2>2
<1>5. ASSUME NEW v \in 1..Len(verification)
      PROVE  Guarded(verification'[v], guesses'[v])
  <2>1. CASE v = id
    <3>1. verification'[v] = d /\ guesses'[v] = n
      BY <1>2, <2>1
    <3> QED
      BY <2>1, <3>1
  <2>2. CASE v # id
    <3>1. verification'[v] = verification[v] /\ guesses'[v] = guesses[v]
      BY <1>2, <2>2
    <3> QED
      BY <3>1 DEF GuessInv
  <2> QED
    BY <2>1, <2>2
<1> QED
  BY <1>2, <1>3, <1>4, <1>5 DEF GuessInv, Guarded

(* Counting a text, an expiry or an age guesses nothing.                   *)
LEMMA OtherField ==
  ASSUME GuessInv, NEW id, NEW x,
         \/ verification' = [verification EXCEPT ![id].verified = x]
         \/ verification' = [verification EXCEPT ![id].expired = x]
         \/ verification' = [verification EXCEPT ![id].texts = x]
         \/ verification' = [verification EXCEPT ![id].old = x],
         guesses' = guesses
  PROVE  GuessInv'
<1> DEFINE v == verification[id]
<1>1. PICK d : /\ verification' = [verification EXCEPT ![id] = d]
               /\ \/ d = [v EXCEPT !.verified = x]
                  \/ d = [v EXCEPT !.expired = x]
                  \/ d = [v EXCEPT !.texts = x]
                  \/ d = [v EXCEPT !.old = x]
  OBVIOUS
<1>2. id \in 1..Len(verification) => Guarded(d, guesses[id])
  <2>1. DOMAIN d = DOMAIN v /\ ("attempts" \in DOMAIN v => d.attempts = v.attempts)
    BY <1>1
  <2> HIDE DEF v
  <2>2. id \in 1..Len(verification) => Guarded(v, guesses[id])
    BY DEF GuessInv, v
  <2> QED
    BY <2>1, <2>2 DEF Guarded
<1> QED
  BY <1>1, <1>2, OneVerification

(* What works on accounts, keys and phones leaves the verifications.       *)
LEMMA OnAccounts ==
  ASSUME NEW w,
         \/ Get(w) \/ Store(w) \/ Uncache(w) \/ SetField(w)
         \/ IncrementCounter(w) \/ Disable(w) \/ Enable(w) \/ VerifySecret(w)
         \/ Check(w) \/ Insert(w) \/ RegisterPhoneToAccount(w) \/ Complete(w)
         \/ CreatePersonalPlace(w) \/ CreateLoginToken(w)
         \/ RevokeLoginToken(w) \/ ChangeKeys(w) \/ CountKeys(w)
  PROVE  UNCHANGED <<verification, guesses>>
  BY DEF docs, Get, Store, Uncache, SetField, IncrementCounter, Disable,
     Enable, VerifySecret, Check, Insert, RegisterPhoneToAccount, Complete,
     CreatePersonalPlace, CreateLoginToken, RevokeLoginToken, ChangeKeys,
     CountKeys

(* So do handlers that only decide what to do.                             *)
LEMMA OnDeciding ==
  ASSUME NEW w,
         \/ \E r \in Requests : Receive(w, r)
         \/ SendCodeByText(w) \/ Recover(w) \/ Register(w) \/ CreateAccount(w)
         \/ SetPasswordByToken(w) \/ EnableAccount(w) \/ Found(w)
         \/ Administer(w) \/ Login(w) \/ SetAccountPassword(w)
         \/ ChangePhone(w) \/ UpdateAccount(w) \/ SaveKey(w)
  PROVE  UNCHANGED <<verification, guesses>>
<1>1. \/ UNCHANGED docs \/ SetPasswordByToken(w)
  BY DEF Receive, SendCodeByText, Recover, Register, CreateAccount,
     EnableAccount, Found, Administer, Login, SetAccountPassword, ChangePhone,
     UpdateAccount, SaveKey
<1> QED
  BY <1>1 DEF docs, SetPasswordByToken

LEMMA StepGuessed ==
  ASSUME AccountsAssumption, GuessInv, [Next \/ Stop]_vars
  PROVE  GuessInv'
<1>1. CASE UNCHANGED <<verification, guesses>>
  BY <1>1 DEF GuessInv, Guarded
<1>2. ASSUME NEW w \in Workers, CreateByPhone(w),
             ~UNCHANGED <<verification, guesses>>
      PROVE  GuessInv'
  <2>1. PICK new : /\ verification' = Append(verification, new)
                   /\ guesses' = Append(guesses, 0)
                   /\ "attempts" \in DOMAIN new /\ new.attempts = 0
    BY <1>2 DEF CreateByPhone
  <2>2. PICK S : verification \in Seq(S)
    BY DEF GuessInv
  <2>3. /\ verification \in Seq(S \cup {new})
        /\ guesses \in Seq(Nat) /\ Len(guesses) = Len(verification)
    BY <2>2 DEF GuessInv
  <2>4. /\ verification' \in Seq(S \cup {new})
        /\ Len(verification') = Len(verification) + 1
        /\ guesses' \in Seq(Nat) /\ Len(guesses') = Len(guesses) + 1
    BY <2>1, <2>3
  <2>5. Guarded(new, 0)
    <3>1. "attempts" \in DOMAIN new /\ new.attempts = 0
      BY <2>1
    <3> QED
      BY <3>1, SomeAttempts DEF Guarded
  <2>6. ASSUME NEW v \in 1..(Len(verification) + 1)
        PROVE  Guarded(verification'[v], guesses'[v])
    <3>1. CASE v = Len(verification) + 1
      <4>1. verification'[v] = new
        BY <2>1, <2>3, <3>1
      <4>2. guesses'[v] = 0
        BY <2>1, <2>3, <3>1
      <4> QED
        BY <2>5, <4>1, <4>2
    <3>2. CASE v # Len(verification) + 1
      <4>1. v \in 1..Len(verification)
        BY <2>3, <3>2
      <4>2. verification'[v] = verification[v] /\ guesses'[v] = guesses[v]
        BY <2>1, <2>3, <4>1
      <4> QED
        BY <4>1, <4>2 DEF GuessInv
    <3> QED
      BY <3>1, <3>2
  <2> QED
    BY <2>3, <2>4, <2>6 DEF GuessInv, Guarded
<1>3. ASSUME NEW w \in Workers, VerifyCode(w)
      PROVE  GuessInv'
  <2> DEFINE id == Now(w).arg.vid
             v == verification[id]
             d == [v EXCEPT !.attempts = @ + 1]
             over == d.old \/ d.attempts + 1 > MaxAttempts
  <2>1. /\ verification' = [verification EXCEPT ![id] = d]
        /\ guesses' = IF d.expired \/ over THEN guesses
                      ELSE [guesses EXCEPT ![id] = @ + 1]
    BY <1>3 DEF VerifyCode
  <2>2. id \in 1..Len(verification) => Guarded(v, guesses[id])
    BY DEF GuessInv
  <2>3. /\ DOMAIN d = DOMAIN v
        /\ "attempts" \in DOMAIN v => d.attempts = v.attempts + 1
    OBVIOUS
  <2>4. MaxAttempts \in Nat
    BY SomeAttempts
  <2> HIDE DEF d, v, id
  <2>5. CASE guesses' = guesses
    <3>1. id \in 1..Len(verification) => Guarded(d, guesses[id])
      BY <2>2, <2>3, <2>4 DEF Guarded
    <3> QED
      BY <2>1, <2>5, <3>1, OneVerification
  <2>6. CASE guesses' = [guesses EXCEPT ![id] = @ + 1] /\ ~over
    <3>1. id \in 1..Len(verification) => Guarded(d, guesses[id] + 1)
      BY <2>2, <2>3, <2>4, <2>6 DEF Guarded
    <3> DEFINE n == guesses[id] + 1
    <3>2. guesses' = [guesses EXCEPT ![id] = n]
      BY <2>6
    <3>3. id \in 1..Len(verification) => Guarded(d, n)
      BY <3>1
    <3> HIDE DEF n
    <3> QED
      BY <2>1, <3>2, <3>3, OneVerification
  <2> QED
    BY <2>1, <2>5, <2>6
<1>4. ASSUME NEW w \in Workers,
             Verified(w) \/ Expire(w) \/ IncrementSmsCounter(w)
      PROVE  GuessInv'
  BY <1>4, OtherField DEF Verified, Expire, IncrementSmsCounter
<1>5. ASSUME NEW v \in DOMAIN verification, Age(v)
      PROVE  GuessInv'
  BY <1>5, OtherField DEF Age
<1>6. CASE Next
  BY <1>1, <1>2, <1>3, <1>4, <1>5, <1>6, OnAccounts, OnDeciding
     DEF Next, TokenLapses
<1> QED
  BY <1>1, <1>6 DEF Stop, vars, docs

(* However many guess at once, and whatever becomes of the verification in *)
(* between: its code is compared fewer times than the constant allows.     *)
THEOREM GuessesStayBounded ==
  AccountsAssumption /\ Spec => []GuessesBounded
<1> SUFFICES ASSUME AccountsAssumption
             PROVE  Spec => []GuessesBounded
  OBVIOUS
<1>1. Init => GuessInv
  <2>1. <<>> \in Seq({}) /\ <<>> \in Seq(Nat) /\ Len(<<>>) = 0
    OBVIOUS
  <2> QED
    BY <2>1 DEF Init, GuessInv
<1>2. GuessInv /\ [Next \/ Stop]_vars => GuessInv'
  BY StepGuessed
<1>3. GuessInv => GuessesBounded
  BY GuessInvMeans
<1> QED
  BY <1>1, <1>2, <1>3, PTL DEF Spec
=============================================================================
