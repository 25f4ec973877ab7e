--------------------------- MODULE BackOffProofs ---------------------------
(* Proofs about BackOff, for every configuration that run can set up. *)
EXTENDS BackOff, TLAPS

\* current is 0 only until the first result that counts, and never below the
\* shortest delay after it.
CurrentInv == current = 0 \/ current >= Least

IndInv == TypeOK /\ CurrentInv /\ BlackoutBounded

LEMMA CappedNat ==
    ASSUME Configured, NEW d \in Nat
    PROVE  /\ Capped(d) \in Nat /\ Capped(d) <= d
           /\ Max > 0 => Capped(d) <= Max
           /\ d >= Least => Capped(d) >= Least
BY DEF Configured, Capped, Least

LEMMA BaseNat ==
    ASSUME Configured, IndInv
    PROVE  Base \in Nat /\ Base >= Least
BY DEF Configured, Capped, Least, Base, IndInv, TypeOK, CurrentInv

LEMMA FailureFacts ==
    ASSUME Configured, IndInv, NEW j \in Nat, Failure(j)
    PROVE  /\ end' \in Nat /\ current' \in Nat /\ last' = now
           /\ end' >= now + Least
           /\ Max > 0 => end' <= now + Max
           /\ current' >= Least
<1>1. Base \in Nat /\ Base >= Least
  BY BaseNat
<1>2. Least \in Nat /\ Initial \in Nat /\ Max \in Nat
  BY CappedNat DEF Configured, Least
<1>3. Base + j \in Nat /\ Base + j >= Least /\ 2 * Base \in Nat /\ 2 * Base >= Least
  BY <1>1, <1>2
<1>4. /\ Capped(Base + j) \in Nat /\ Capped(Base + j) >= Least
      /\ Max > 0 => Capped(Base + j) <= Max
      /\ Capped(2 * Base) \in Nat /\ Capped(2 * Base) >= Least
  BY <1>3, CappedNat
<1> QED
  BY <1>2, <1>4 DEF Failure, IndInv, TypeOK

LEMMA Inductive ==
    ASSUME Configured, IndInv, [Next]_vars
    PROVE  IndInv'
<1>0. Least \in Nat
  BY CappedNat DEF Configured, Least
<1>1. CASE TimePasses
  BY <1>1 DEF TimePasses, IndInv, TypeOK, CurrentInv, BlackoutBounded, Least, Capped
<1>2. ASSUME NEW j \in Nat, Failure(j)
      PROVE  IndInv'
  <2>1. /\ end' \in Nat /\ current' \in Nat /\ last' = now
        /\ end' >= now + Least
        /\ Max > 0 => end' <= now + Max
        /\ current' >= Least
    BY <1>2, FailureFacts
  <2>2. now' = now /\ panicked' = panicked
    BY <1>2 DEF Failure
  <2> QED
    BY <2>1, <2>2 DEF IndInv, TypeOK, CurrentInv, BlackoutBounded, Least, Capped
<1>3. CASE FailurePanics
  BY <1>3 DEF FailurePanics, IndInv, TypeOK, CurrentInv, BlackoutBounded, Least, Capped
<1>4. CASE Success
  <2>1. Initial \in Nat /\ Initial >= Least
    BY CappedNat DEF Configured, Least
  <2> QED
    BY <1>4, <2>1 DEF Success, IndInv, TypeOK, CurrentInv, BlackoutBounded, Least, Capped
<1>5. CASE UNCHANGED vars
  BY <1>5 DEF vars, IndInv, TypeOK, CurrentInv, BlackoutBounded, Least, Capped
<1> QED
  BY <1>1, <1>2, <1>3, <1>4, <1>5 DEF Next, Update, Ignored

LEMMA InitInv == ASSUME Init PROVE IndInv
<1>1. TypeOK
  <2>1. now \in Nat \ {0} /\ current \in Nat /\ end \in Nat /\ last \in Nat
    BY DEF Init
  <2>2. panicked \in BOOLEAN
    BY Zenon DEF Init
  <2> QED
    BY <2>1, <2>2 DEF TypeOK
<1>2. CurrentInv
  BY DEF Init, CurrentInv
<1>3. ~(last > 0)
  BY DEF Init
<1> QED
  BY <1>1, <1>2, <1>3 DEF IndInv, BlackoutBounded

\* The invariant behind the results about backOffTracker.update.
THEOREM Invariance == ASSUME Configured PROVE Spec => []IndInv
<1>1. Init => IndInv
  BY InitInv
<1>2. IndInv /\ [Next]_vars => IndInv'
  BY Inductive
<1> QED
  BY <1>1, <1>2, PTL DEF Spec

\* Every blackout lasts at least the configured minimum and at most the maximum
\* (backOffTracker.update).
THEOREM DelaysBounded == ASSUME Configured PROVE Spec => []BlackoutBounded
<1>1. IndInv => BlackoutBounded
  BY DEF IndInv
<1> QED
  BY <1>1, Invariance, PTL

\* Failures of attempts that were under way together count once
\* (backOffTracker.update, "Ignore any failures before end time").
THEOREM FailuresAreSpaced == ASSUME Configured PROVE Spec => FailuresSpaced
<1>1. IndInv /\ [Next]_vars => [last' # last /\ last > 0 => last' > last + Least]_vars
  <2> SUFFICES ASSUME IndInv, [Next]_vars, last' # last, last > 0
               PROVE  last' > last + Least
    OBVIOUS
  <2>1. PICK j \in Nat : Failure(j)
    BY DEF Next, Update, TimePasses, FailurePanics, Success, Ignored, vars
  <2>2. Least \in Nat
    BY CappedNat DEF Configured, Least
  <2> QED
    BY <2>1, <2>2 DEF Failure, IndInv, TypeOK, BlackoutBounded
<1> QED
  BY <1>1, Invariance, PTL DEF Spec, FailuresSpaced

\* No result moves the end of a blackout back (backOffTracker.update).
THEOREM BlackoutsKept == ASSUME Configured PROVE Spec => BlackoutKept
<1>1. IndInv /\ [Next]_vars => [end' >= end]_vars
  <2> SUFFICES ASSUME IndInv, [Next]_vars
               PROVE  end' >= end
    OBVIOUS
  <2>1. CASE \E j \in Nat : Failure(j)
    <3>1. PICK j \in Nat : Failure(j)
      BY <2>1
    <3>2. end' \in Nat /\ end' >= now + Least /\ Least \in Nat
      BY <3>1, FailureFacts, CappedNat DEF Configured, Least
    <3> QED
      BY <3>1, <3>2 DEF Failure, IndInv, TypeOK
  <2>2. CASE end' = end
    BY <2>2 DEF IndInv, TypeOK
  <2> QED
    BY <2>1, <2>2 DEF Next, Update, TimePasses, FailurePanics, Success, Ignored, vars
<1> QED
  BY <1>1, Invariance, PTL DEF Spec, BlackoutKept

\* rand.Int63n gets a positive argument if the jitter of the shortest delay is
\* at least a nanosecond; a shorter one panics in the governor's goroutine.
THEOREM JitterIsSafe ==
    ASSUME Configured, Jitter => Span[Least] > 0
    PROVE  Spec => []NoPanic
<1>1. Init => NoPanic
  BY DEF Init, NoPanic
<1>2. IndInv /\ NoPanic /\ [Next]_vars => NoPanic'
  <2> SUFFICES ASSUME IndInv, NoPanic, [Next]_vars, FailurePanics
               PROVE  FALSE
    BY DEF Next, Update, TimePasses, Failure, Success, Ignored, vars, NoPanic
  <2>1. Base \in Nat /\ Base >= Least
    BY BaseNat
  <2>2. Least \in Nat
    BY CappedNat DEF Configured, Least
  <2>3. Span[Least] <= Span[Base] /\ Span[Least] \in Nat /\ Span[Base] \in Nat
    BY <2>1, <2>2 DEF Configured
  <2> QED
    BY <2>3 DEF FailurePanics
<1> QED
  BY <1>1, <1>2, Invariance, PTL DEF Spec
=============================================================================
