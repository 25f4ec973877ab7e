------------------------------ MODULE BackOff ------------------------------
(***************************************************************************)
(* backOffTracker (backoff.go), as the governor uses it: set up when it    *)
(* starts to run, told the result of every launch, and asked for the end   *)
(* of the blackout before it scales up.  Durations and times are natural   *)
(* numbers; the zero time.Time is 0 and lies before any time.Now.          *)
(***************************************************************************)
EXTENDS Integers

CONSTANTS
    Initial,  \* MinDialBackOff, or 4 seconds when that is not positive
    Max,      \* MaxDialBackOff; 0 for none
    Jitter,   \* whether DialBackOffJitter is positive
    Span      \* int64(funit.Measure(d) * jitter) for every duration d

\* What run makes of any configuration, and what a product with a positive
\* factor gives.
Configured ==
    /\ Initial \in Nat \ {0} /\ Max \in Nat /\ Jitter \in BOOLEAN
    /\ Span \in [Nat -> Nat]
    /\ \A a, b \in Nat : a <= b => Span[a] <= Span[b]

VARIABLES
    now,      \* time.Now
    current,  \* backOffTracker.current
    end,      \* backOffTracker.end
    last,     \* when the last failure that counted was received; 0 for none
    panicked  \* rand.Int63n was asked for a number below 0

vars == <<now, current, end, last, panicked>>

TypeOK ==
    /\ now \in Nat \ {0} /\ current \in Nat /\ end \in Nat /\ last \in Nat
    /\ panicked \in BOOLEAN

Init ==
    /\ now = 1 /\ current = 0 /\ end = 0 /\ last = 0
    /\ panicked = FALSE

TimePasses ==
    /\ now' > now /\ now' \in Nat
    /\ UNCHANGED <<current, end, last, panicked>>

Capped(d) == IF Max > 0 /\ d > Max THEN Max ELSE d

\* The duration that update starts from.
Base == IF current = 0 THEN Initial ELSE current

\* A failure that counts; the jitter is j.
Failure(j) ==
    /\ now > end
    /\ IF Jitter THEN j < Span[Base] ELSE j = 0
    /\ end' = now + Capped(Base + j)
    /\ current' = Capped(2 * Base)
    /\ last' = now
    /\ UNCHANGED <<now, panicked>>

FailurePanics ==
    /\ now > end /\ Jitter /\ Span[Base] = 0
    /\ panicked' = TRUE
    /\ UNCHANGED <<now, current, end, last>>

Success ==
    /\ now > end
    /\ current' = Initial
    /\ UNCHANGED <<now, end, last, panicked>>

\* Results of either kind that come in before the end are ignored.
Ignored == now <= end /\ UNCHANGED vars

Update == (\E j \in Nat : Failure(j)) \/ FailurePanics \/ Success \/ Ignored

Next == ~panicked /\ (TimePasses \/ Update)

Spec == Init /\ [][Next]_vars

-----------------------------------------------------------------------------
\* The shortest delay update can ask for.
Least == Capped(Initial)

\* However failures, successes and concurrent attempts alternate, a blackout is
\* neither shorter than the configured minimum nor longer than the maximum:
\* doubling and jitter never get past the cap, and a reset never gets to 0.
BlackoutBounded ==
    last > 0 => /\ end >= last + Least
                /\ Max > 0 => end <= last + Max

\* Of failures that come in together only the first one counts: two that count
\* are more than the shortest delay apart.
FailuresSpaced == [][last' # last /\ last > 0 => last' > last + Least]_vars

\* The end of a blackout is never moved back by a later result.
BlackoutKept == [][end' >= end]_vars

\* The jitter is drawn from a positive range.
NoPanic == ~panicked
=============================================================================
