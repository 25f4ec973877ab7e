------------------------------ MODULE Sampling ------------------------------
(***************************************************************************)
(* How the governor of apns2 decides whether to scale                      *)
(* (updateCountersAndEvalScaling in dispatch.go).  Goroutines that send on *)
(* a channel count what they send in a syncx.Counter and their waits in a  *)
(* syncx.TickTockCounter: the callers of Client.submit in rateCtr and the  *)
(* client's waitCtr, the roundtrips of a streamer in sizeCtr and the       *)
(* streamer's waitCtr.  The governor reads them on every tick, sizeCtr     *)
(* only if there is a bandwidth to keep to.                                *)
(*                                                                         *)
(* A counter is one word that is only ever added to atomically; Fold and   *)
(* Draw load it first and subtract later.  A TickTockCounter keeps ticks   *)
(* in the upper half of its word and tocks in the lower.                   *)
(* There is one streamer.                                                  *)
(***************************************************************************)
EXTENDS Integers, Sequences, FiniteSets, FiniteSetsExt

CONSTANTS
    Submitters,  \* goroutines in Client.submit
    Trips,       \* roundtrip goroutines of the streamer
    Half,          \* the values of half a word, 2^32 in the code
    Second,        \* a second, in the unit of the two times below
    MinSustain,    \* ProcCfg.MinSustain
    PollInterval,  \* ProcCfg.PollInterval
    MaxRate,       \* ProcCfg.MaxRate, requests per second
    MaxBandwidth,  \* ProcCfg.MaxBandwidth, bits per second
    Sizes,         \* wire sizes of requests; 0: the roundtrip failed
    MaxWaits,      \* bound: waits begun between two readings of their counter
    MaxAmount,     \* bound: what is added between two readings of a counter
    MaxSamples     \* bound: ticks of the governor

\* There are ticks only if PollInterval is positive; a negative MinSustain, which
\* the code takes for the longest possible one, is left out.
ASSUME ConfigAssumption ==
    /\ {Second, PollInterval} \subseteq Nat \ {0}
    /\ {MinSustain, MaxRate, MaxBandwidth} \subseteq Nat
ASSUME BoundsAssumption ==
    /\ Half \in Nat \ {0}
    /\ MaxWaits \in Nat /\ MaxAmount \in Nat /\ MaxSamples \in Nat
    /\ Submitters \cap Trips = {} /\ IsFiniteSet(Submitters \cup Trips)
ASSUME SizesAssumption == Sizes \subseteq Nat

Goroutines == Submitters \cup Trips

\* The counters in the order the governor reads them.
Counters == <<"in", "rate", "out", "size">>
Names == {"in", "rate", "out", "size"}
Waits(g) == IF g \in Submitters THEN "in" ELSE "out"
Amounts(g) == IF g \in Submitters THEN "rate" ELSE "size"
Counts(g) == IF g \in Submitters THEN {1} ELSE Sizes

VARIABLES
    word,      \* the four counters
    pc,        \* each goroutine: idle, sending (before its first select)
               \* or waiting (between Tick and Tock)
    at,        \* the counter the governor is about to read; after the last:
               \* evaluation
    loaded,    \* the word it loaded and has not yet subtracted, or -1
    sample,    \* what it read: ics, cnt, ocs and osz
    inCtr, outCtr,      \* waitCounter
    countAcc, sizeAcc,  \* movingAcc
    decision,  \* the last result
    burst,     \* history: waits begun, or what was added, since the governor
               \* last loaded the counter
    sent,      \* history: what was added to a counter that is drawn
    hist       \* history: the samples evaluated

vars == <<word, pc, at, loaded, sample, inCtr, outCtr, countAcc, sizeAcc,
          decision, burst, sent, hist>>

Full == Half * Half
Add(x, y) == (x + y) % Full
Sub(x, y) == (x - y) % Full
Ticks(x) == x \div Half
Tocks(x) == x % Half

minSustainPollPeriods ==
    MinSustain \div PollInterval
      + (IF MinSustain % PollInterval > 0 THEN 1 ELSE 0)

MinSust == minSustainPollPeriods

\* Between two ticks, half a word has room for the waits that begin and a word
\* for what is added, twice, as a reading is subtracted some time after it was
\* loaded; a word has room for what is added over MinSustain.
ASSUME RoomAssumption ==
    /\ Cardinality(Goroutines) + 2 * MaxWaits < Half
    /\ (MinSust + 2) * MaxAmount < Full

\* rateAsCount and bandwidthAsSize: the limits over the adjusted period.
maxCount == (MaxRate * MinSust * PollInterval) \div Second
maxSize == (MaxBandwidth * MinSust * PollInterval) \div (8 * Second)

NewAcc == [samples |-> [i \in 0..(MinSust - 1) |-> 0], sum |-> 0, pos |-> 0]
shouldCount == MaxRate > 0 /\ MinSust > 0
shouldSize == MaxBandwidth > 0 /\ MinSust > 0

\* The number of counters that are read; an amount that is not drawn wraps around.
Reads == IF shouldSize THEN 4 ELSE 3
Drawn(c) == c # "size" \/ shouldSize

Init ==
    /\ word = [c \in Names |-> 0]
    /\ pc = [g \in Goroutines |-> "idle"]
    /\ at = 1 /\ loaded = -1
    /\ sample = [c \in Names |-> 0]
    /\ inCtr = [waits |-> 0, noWaits |-> 0] /\ outCtr = inCtr
    /\ countAcc = NewAcc /\ sizeAcc = NewAcc
    /\ decision = 0
    /\ burst = [c \in Names |-> 0] /\ sent = burst
    /\ hist = <<>>

-----------------------------------------------------------------------------
(* Goroutines that send *)

govVars == <<at, loaded, sample, inCtr, outCtr, countAcc, sizeAcc, decision,
             hist>>

Moves(g, from, to) ==
    /\ pc[g] = from
    /\ pc' = [pc EXCEPT ![g] = to]
    /\ UNCHANGED govVars

\* rateCtr.Add in Client.submit, sizeCtr.Add in streamer.submit
Sends(g, n) ==
    LET c == Amounts(g)
    IN  /\ Moves(g, "idle", "sending")
        /\ word' = [word EXCEPT ![c] = Add(@, n)]
        /\ IF Drawn(c)
           THEN /\ burst[c] + n <= MaxAmount
                /\ burst' = [burst EXCEPT ![c] = @ + n]
                /\ sent' = [sent EXCEPT ![c] = @ + n]
           ELSE UNCHANGED <<burst, sent>>

\* The non-blocking send succeeds.
Passes(g) ==
    /\ Moves(g, "sending", "idle")
    /\ UNCHANGED <<word, burst, sent>>

Tick(g) ==
    LET c == Waits(g)
    IN  /\ burst[c] < MaxWaits
        /\ Moves(g, "sending", "waiting")
        /\ word' = [word EXCEPT ![c] = Add(@, Half)]
        /\ burst' = [burst EXCEPT ![c] = @ + 1]
        /\ UNCHANGED sent

Tock(g) ==
    /\ Moves(g, "waiting", "idle")
    /\ word' = [word EXCEPT ![Waits(g)] = Add(@, 1)]
    /\ UNCHANGED <<burst, sent>>

-----------------------------------------------------------------------------
(* The governor *)

\* atomic.LoadUint64 in Fold and Draw
Load ==
    /\ at <= Reads /\ loaded = -1 /\ Len(hist) < MaxSamples
    /\ loaded' = word[Counters[at]]
    /\ burst' = [burst EXCEPT ![Counters[at]] = 0]
    /\ UNCHANGED <<word, pc, at, sample, inCtr, outCtr, countAcc, sizeAcc,
                   decision, sent, hist>>

\* Mutants: the tocks are not taken off the ticks; what is there at the time of
\* the subtraction is taken, not what was loaded.
TocksOnly(c, x) == IF c \in {"in", "out"} THEN Tocks(x) ELSE x
Cleared(c, x) == IF c \in {"in", "out"} THEN Tocks(x) * (Half + 1) ELSE word[c]

\* What Fold (of waits) and Draw (of amounts) take off a counter.
Taken(c, x) == IF c \in {"in", "out"} THEN Tocks(x) * (Half + 1) ELSE x

\* atomic.AddUint64 in Fold and Draw
Subtract ==
    /\ loaded # -1
    /\ LET c == Counters[at]
       IN  /\ word' = [word EXCEPT ![c] = Sub(@, Taken(c, loaded))]
           /\ sample' = [sample EXCEPT ![c] = IF c \in {"in", "out"}
                                              THEN Ticks(loaded) ELSE loaded]
    /\ loaded' = -1
    /\ at' = at + 1
    /\ UNCHANGED <<pc, inCtr, outCtr, countAcc, sizeAcc, decision, burst, sent,
                   hist>>

\* Mutant: noWaits is not reset.
AccWithoutReset(ctr, val) ==
    IF val > 0 THEN [ctr EXCEPT !.waits = @ + 1]
               ELSE [waits |-> 0, noWaits |-> ctr.noWaits + 1]

\* waitCounter.acc
Acc(ctr, val) ==
    IF val > 0 THEN [waits |-> ctr.waits + 1, noWaits |-> 0]
               ELSE [waits |-> 0, noWaits |-> ctr.noWaits + 1]

\* movingAcc.accumulate
Accumulate(a, v) ==
    [samples |-> [a.samples EXCEPT ![a.pos] = v],
     sum |-> Sub(Add(a.sum, v), a.samples[a.pos]),
     pos |-> (a.pos + 1) % MinSust]

\* Scale up (1), wind down (-1) or neither.
Decide(in, out, cnt, osz) ==
    IF in.waits >= MinSust /\ out.noWaits >= MinSust
    THEN IF \/ shouldCount /\ cnt > maxCount
            \/ shouldSize /\ osz > maxSize THEN 0 ELSE 1
    ELSE IF in.noWaits >= MinSust THEN -1 ELSE 0

\* The rest of updateCountersAndEvalScaling
Evaluate ==
    /\ at > Reads
    /\ at' = 1
    /\ inCtr' = Acc(inCtr, sample["in"])
    /\ outCtr' = Acc(outCtr, sample["out"])
    /\ countAcc' = IF shouldCount THEN Accumulate(countAcc, sample["rate"])
                                  ELSE countAcc
    /\ sizeAcc' = IF shouldSize THEN Accumulate(sizeAcc, sample["size"])
                                ELSE sizeAcc
    /\ decision' = Decide(inCtr', outCtr', countAcc'.sum, sizeAcc'.sum)
    /\ hist' = Append(hist, sample)
    /\ UNCHANGED <<word, pc, loaded, sample, burst, sent>>

-----------------------------------------------------------------------------
Next ==
    \/ Load \/ Subtract \/ Evaluate
    \/ \E g \in Goroutines :
         (\E n \in Counts(g) : Sends(g, n)) \/ Passes(g) \/ Tick(g) \/ Tock(g)

Spec == Init /\ [][Next]_vars

-----------------------------------------------------------------------------
TypeOK ==
    /\ word \in [Names -> 0..(Full - 1)]
    /\ pc \in [Goroutines -> {"idle", "sending", "waiting"}]
    /\ at \in 1..(Reads + 1) /\ loaded \in -1..(Full - 1)
    /\ sample \in [Names -> 0..(Full - 1)]
    /\ {inCtr, outCtr} \subseteq [waits : 0..MaxSamples, noWaits : 0..MaxSamples]
    /\ {countAcc.pos, sizeAcc.pos} \subseteq 0..(MinSust - 1) \cup {0}
    /\ decision \in {-1, 0, 1}
    /\ {burst, sent} \subseteq [Names -> Nat]
    /\ hist \in Seq([Names -> 0..(Full - 1)])

\* A counter as it will be when a load in progress has been subtracted.
Settled(c) ==
    IF loaded # -1 /\ Counters[at] = c
    THEN Sub(word[c], Taken(c, loaded)) ELSE word[c]

Waiting(c) == Cardinality({g \in Goroutines : Waits(g) = c /\ pc[g] = "waiting"})

\* Whatever is folded while goroutines tick and tock, the ticks of a counter stay
\* ahead of its tocks by exactly the goroutines that wait at the moment: nothing
\* borrows from the other half of the word.
FoldKeepsBalance ==
    \A c \in {"in", "out"} :
        /\ Ticks(word[c]) - Tocks(word[c]) = Waiting(c)
        /\ Ticks(Settled(c)) - Tocks(Settled(c)) = Waiting(c)

\* The sum of f[x] over the members x of S, for values below Full: the size of a
\* set that has f[x] members for every x.
Total(f, S) == Cardinality({u \in S \X (1..Full) : u[2] <= f[u[1]]})

\* The readings of the counter c.
Readings(c) == [i \in 1..Len(hist) |-> hist[i][c]]

\* What was read of an amount counter c so far, in this round too.
Read(c) ==
    Total(Readings(c), 1..Len(hist))
      + (IF \E i \in 1..4 : Counters[i] = c /\ i < at THEN sample[c] ELSE 0)

\* Draw drops nothing and counts nothing twice: what was added is what was read
\* and what is still in the counter.
DrawLosesNothing ==
    \A c \in {"rate", "size"} : Drawn(c) => Read(c) + word[c] = sent[c]

\* The least number of ticks that MinSustain takes, and the samples of the last
\* so many.
Periods == Min({n \in 0..MinSustain : n * PollInterval >= MinSustain})
Window == (Len(hist) - Periods + 1)..Len(hist)
SumOf(c) == Total(Readings(c), {i \in Window : i >= 1})

\* What was sent over the window is more than the limits allow for its length.
TooMuch ==
    LET time == Periods * PollInterval
    IN  \/ MaxRate > 0 /\ SumOf("rate") * Second > MaxRate * time
        \/ MaxBandwidth > 0 /\ SumOf("size") * 8 * Second > MaxBandwidth * time

\* What the decision should be, from the samples themselves: to scale up, blocking
\* inbound and none outbound over the whole of MinSustain, within the limits; to
\* wind down, no inbound blocking over MinSustain.
Justified ==
    IF /\ Len(hist) >= Periods
       /\ \A i \in Window : hist[i]["in"] > 0 /\ hist[i]["out"] = 0
    THEN IF TooMuch THEN 0 ELSE 1
    ELSE IF Len(hist) >= Periods /\ \A i \in Window : hist[i]["in"] = 0
    THEN -1 ELSE 0

\* The counters of continuous periods and the moving sums, kept from one tick to
\* the next, decide as the samples of the last MinSustain would.
DecisionJustified == MinSustain > 0 /\ hist # <<>> => decision = Justified

=============================================================================
