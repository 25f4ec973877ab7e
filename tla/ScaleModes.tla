----------------------------- MODULE ScaleModes -----------------------------
(***************************************************************************)
(* The scaling modes of package scale: how many connections to go to from  *)
(* n.  Counts are unsigned integers that wrap around.  The factor of       *)
(* Exponential is the fraction num/den; the code's float32 product is      *)
(* taken to be exact, which it is for few connections.                     *)
(***************************************************************************)
EXTENDS Integers

CONSTANT Width  \* bits of a count: 32 in the code

ASSUME WidthAssumption == Width \in Nat \ {0}

Wrapped(n) == n % 2^Width

\* Constant
ConstantApply(n) == n
ConstantApplyInverse(n) == n

\* Incremental
IncrementalIsValid(s) == s >= 1
IncrementalApply(s, n) == Wrapped(n + s)
IncrementalApplyInverse(s, n) == IF s > n THEN 0 ELSE n - s

\* Exponential
ExponentialIsValid(num, den) == num > den

\* Mutant: the step of at least 1 is forgotten.
ExponentialRounded(num, den, n) == (num * n) \div den

ExponentialApply(num, den, n) ==
    LET res == (num * n) \div den
    IN  IF res <= n THEN Wrapped(n + 1) ELSE res

ExponentialApplyInverse(num, den, n) ==
    LET res == (n * den) \div num
    IN  IF res >= n /\ n > 0 THEN n - 1 ELSE res
=============================================================================
