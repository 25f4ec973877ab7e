--------------------------- MODULE GovernorProofs ---------------------------
(***************************************************************************)
(* Safety of the governor for every value of its constants.                *)
(*                                                                         *)
(* LiveWithinMaxConns is not inductive: a scale-up is bounded by what the  *)
(* governor's maps hold, so the proof needs LiveIsKnown, and LiveIsKnown   *)
(* needs to know which launchers the maps hold and that a failed launch    *)
(* left no streamer behind (LaunchesKnown).                                *)
(***************************************************************************)
EXTENDS Governor, FiniteSetTheorems, TLAPS

USE ConnsAssumption, ScaleAssumption, StreamsAssumption, SwitchesAssumption
  DEF ConnsAssumption, ScaleAssumption, StreamsAssumption, SwitchesAssumption

-----------------------------------------------------------------------------
(* Type correctness *)

\* The workers created so far are finitely many.
LEMMA IdsFinite ==
    ASSUME TypeOK
    PROVE  IsFiniteSet(Ids)
<1>1. 0 \in Int /\ nextWId - 1 \in Int
  BY DEF TypeOK
<1>2. IsFiniteSet(0..(nextWId - 1))
  BY <1>1, FS_Interval, ZenonT(20)
<1> QED
  BY <1>2 DEF Ids

LEMMA AllowedScaleDeltaType ==
    ASSUME TypeOK
    PROVE  /\ AllowedScaleDelta \in Int
           /\ IsFiniteSet(streamers) /\ IsFiniteSet(launchers)
           /\ AllowedScaleDelta > 0 =>
                /\ launchers = {} /\ ~isClosing
                /\ Cardinality(streamers) + AllowedScaleDelta <= MaxConns
<1>1. IsFiniteSet(Ids)
  BY IdsFinite
<1>2. IsFiniteSet(streamers) /\ IsFiniteSet(launchers)
  BY <1>1, FS_Subset DEF TypeOK
<1>3. Cardinality(streamers) \in Nat /\ Cardinality(launchers) \in Nat
  BY <1>2, FS_CardinalityType
<1>4. launchers = {} => Cardinality(launchers) = 0
  BY FS_EmptySet
<1> DEFINE prov == Cardinality(streamers) + Cardinality(launchers)
           barred == \/ isClosing \/ launchers # {} \/ settling \/ blackout
                     \/ prov >= MaxConns
<1>5. CASE barred
  <2>1. AllowedScaleDelta = 0
    BY <1>5 DEF AllowedScaleDelta
  <2> QED
    BY <1>2, <2>1
<1>6. CASE ~barred
  <2>1. prov \in 0..MaxConns /\ prov = Cardinality(streamers)
    BY <1>3, <1>4, <1>6
  <2>2. Scale[prov] \in Nat
    BY <2>1
  <2>3. AllowedScaleDelta = AtMost(AtLeast(Scale[prov], MinConns), MaxConns)
                              - prov
    BY <1>6 DEF AllowedScaleDelta
  <2>4. AtMost(AtLeast(Scale[prov], MinConns), MaxConns) \in 0..MaxConns
    BY <2>2 DEF AtMost, AtLeast
  <2> HIDE DEF prov
  <2>5. /\ AllowedScaleDelta \in Int
        /\ Cardinality(streamers) + AllowedScaleDelta <= MaxConns
    BY <2>1, <2>3, <2>4
  <2> QED
    BY <1>2, <1>6, <2>5
<1> QED
  BY <1>5, <1>6

LEMMA LaunchType ==
    ASSUME TypeOK, NEW k \in Nat, NEW ws \in [Ids -> Worker],
           LaunchStreamers(ws, k)
    PROVE  /\ nextWId' \in Nat
           /\ Ids \subseteq Ids'
           /\ launchers' \subseteq Ids'
           /\ worker' \in [Ids' -> Worker]
<1>1. NewWorker \in Worker
  BY DEF NewWorker, Worker, LPC, WPC, Exit
<1>2. nextWId' \in Nat /\ Ids' = 0..(nextWId + k - 1) /\ Ids \subseteq Ids'
  BY DEF TypeOK, LaunchStreamers, Ids
<1>3. launchers' \subseteq Ids'
  BY <1>2 DEF TypeOK, LaunchStreamers, Ids
<1>4. worker' \in [Ids' -> Worker]
  <2>1. ASSUME NEW w \in 0..(nextWId + k - 1)
        PROVE  (IF w < nextWId THEN ws[w] ELSE NewWorker) \in Worker
    BY <1>1 DEF TypeOK, Ids
  <2> QED
    BY <1>2, <2>1 DEF LaunchStreamers
<1> QED
  BY <1>2, <1>3, <1>4

-----------------------------------------------------------------------------
(* Steps of a launcher or a streamer *)

\* The worker with record r is dialing or running.
LiveRec(r) ==
    \/ r.lpc = "dialing"
    \/ r.wpc \in {"running", "reserving", "draining", "exiting"}

\* Its launcher has not been received by the governor.
PendingRec(r) == r.lpc \in {"dialing", "started", "failed"}

\* Where the governor is once it has left its loop.
Ended == {"signalLaunchers", "signalStreamers", "signalParent", "stopped"}

\* A launch that has not succeeded has no streamer, and a streamer stops for a
\* closed inbound channel only when it is closed.
StageRec(r) ==
    /\ r.lpc \in {"dialing", "failed"} => r.wpc = "none"
    /\ r.wpc = "draining" \/ r.exit = "inClosed" => outClosed

\* A streamer has a reason to be out of its loop; one that drained, or never
\* ran, has no roundtrip.
DrainRec(r) ==
    /\ r.exit = "none"
         <=> r.wpc \in {"none", "running", "reserving", "draining"}
    /\ r.wpc = "none" \/ r.exit = "inClosed" => r.inflight = 0

\* A streamer is told to terminate by a hard stop only.
ControlRec(r) ==
    /\ r.exit = "terminated" => r.wctl
    /\ r.wctl => gctl /\ gpc \in Ended

SoundRec(r) == StageRec(r) /\ DrainRec(r) /\ ControlRec(r)

\* The dial failed.
FailedRec(r) == r.wpc = "none" /\ r.lpc # "dialing"

\* A failure brought the launch to nothing, or will once it is noticed.
FaultyRec(r) == FailedRec(r) \/ r.exit = "didQuit"

\* Nothing comes any more of a launch that failed, or of a streamer that quit
\* and was replaced or has gone.
SpentRec(r) == FailedRec(r) \/ (r.exit = "didQuit" /\ r.wpc # "exiting")

\* What a step that turns the record r of a worker into q may do.
RecStep(r, q) ==
    /\ q \in Worker
    /\ LiveRec(q) => LiveRec(r)
    /\ PendingRec(q) => PendingRec(r)
    /\ (r.lctl => q.lctl) /\ (r.wctl => q.wctl)
    /\ SoundRec(r) => /\ SoundRec(q)
                      /\ SpentRec(r) => SpentRec(q)
                      /\ FaultyRec(q) => FaultyRec(r) \/ faults' = faults + 1

\* A launcher's or streamer's step changes its own record only.
LEMMA WorkerStep ==
    ASSUME TypeOK, NEW w \in Ids, Launcher(w) \/ Streamer(w)
    PROVE  /\ UNCHANGED <<govVars, outClosed, gctl>>
           /\ faults' \in 0..MaxFaults /\ panicked' \in BOOLEAN
           /\ faults' = faults \/ faults' = faults + 1
           /\ \E q : worker' = [worker EXCEPT ![w] = q] /\ RecStep(worker[w], q)
<1> DEFINE r == worker[w]
<1>0. r \in Worker /\ worker = [worker EXCEPT ![w] = worker[w]]
  BY DEF TypeOK
<1>1. UNCHANGED <<govVars, outClosed, gctl>>
  BY DEF Launcher, DialOK, DialFails, LauncherLeaves, Streamer, TakeRequest,
         ExecRefuses, SpawnRoundtrip, RoundtripEnds, QuitSignalled,
         QuitSignalTaken, QuitSignalPanics, SeeInClosed, Drained,
         SeeCtlClosed, StreamerLeaves
<1>2. faults' \in 0..MaxFaults /\ (faults' = faults \/ faults' = faults + 1)
  <2>1. \/ faults' = faults
        \/ faults < MaxFaults /\ faults' = faults + 1
    BY DEF Launcher, DialOK, DialFails, LauncherLeaves, Streamer,
           TakeRequest, ExecRefuses, SpawnRoundtrip, RoundtripEnds, ConnBreaks,
           QuitSignalled, QuitSignalTaken, QuitSignalPanics, SeeInClosed,
           Drained, SeeCtlClosed, StreamerLeaves
  <2> QED
    BY <2>1 DEF TypeOK
<1>3. panicked' \in BOOLEAN
  <2>1. panicked' = panicked \/ panicked' = TRUE
    BY DEF Launcher, DialOK, DialFails, LauncherLeaves, Streamer,
           TakeRequest, ExecRefuses, SpawnRoundtrip, RoundtripEnds,
           QuitSignalled, QuitSignalTaken, QuitSignalPanics, SeeInClosed,
           Drained, SeeCtlClosed, StreamerLeaves
  <2> QED
    BY <2>1 DEF TypeOK
<1>4. \E q : worker' = [worker EXCEPT ![w] = q] /\ RecStep(r, q)
  <2> USE DEF Worker, LPC, WPC, Exit, RecStep, LiveRec, PendingRec, SoundRec,
              StageRec, DrainRec, ControlRec, FailedRec, FaultyRec, SpentRec
  <2>1. CASE DialOK(w)
    <3> DEFINE q == [r EXCEPT !.lpc = "started", !.wpc = "running"]
    <3>1. worker' = [worker EXCEPT ![w] = q]
      BY <2>1, <1>0 DEF DialOK, TypeOK
    <3>2. RecStep(r, q)
      BY <2>1, <1>0 DEF DialOK
    <3> QED
      BY <3>1, <3>2
  <2>2. CASE DialFails(w)
    <3> DEFINE q == [r EXCEPT !.lpc = "failed"]
    <3>1. worker' = [worker EXCEPT ![w] = q]
      BY <2>2, <1>0 DEF DialFails, TypeOK
    <3>2. RecStep(r, q)
      BY <2>2, <1>0 DEF DialFails
    <3> QED
      BY <3>1, <3>2
  <2>3. CASE LauncherLeaves(w)
    <3> DEFINE q == [r EXCEPT !.lpc = "done"]
    <3>1. worker' = [worker EXCEPT ![w] = q]
      BY <2>3, <1>0 DEF LauncherLeaves, TypeOK
    <3>2. RecStep(r, q)
      BY <2>3, <1>0 DEF LauncherLeaves
    <3> QED
      BY <3>1, <3>2
  <2>4. CASE TakeRequest(w)
    <3> DEFINE q == [r EXCEPT !.wpc = "reserving"]
    <3>1. worker' = [worker EXCEPT ![w] = q]
      BY <2>4, <1>0 DEF TakeRequest, TypeOK
    <3>2. RecStep(r, q)
      BY <2>4, <1>0 DEF TakeRequest
    <3> QED
      BY <3>1, <3>2
  <2>5. CASE ExecRefuses(w)
    <3> DEFINE q == [r EXCEPT !.wpc = "running"]
    <3>1. worker' = [worker EXCEPT ![w] = q]
      BY <2>5, <1>0 DEF ExecRefuses, TypeOK
    <3>2. RecStep(r, q)
      BY <2>5, <1>0 DEF ExecRefuses
    <3> QED
      BY <3>1, <3>2
  <2>6. CASE SpawnRoundtrip(w)
    <3> DEFINE q == [r EXCEPT !.wpc = "running", !.inflight = @ + 1]
    <3>1. worker' = [worker EXCEPT ![w] = q]
      BY <2>6, <1>0 DEF SpawnRoundtrip, TypeOK
    <3>2. r.inflight + 1 \in 0..Streams
      BY <2>6, <1>0 DEF SpawnRoundtrip
    <3>3. q \in Worker
      BY <1>0, <3>2
    <3>4. RecStep(r, q)
      BY <2>6, <1>0, <3>3 DEF SpawnRoundtrip
    <3> QED
      BY <3>1, <3>4
  <2>7. CASE RoundtripEnds(w)
    <3> DEFINE q == [r EXCEPT !.inflight = @ - 1]
    <3>1. worker' = [worker EXCEPT ![w] = q]
      BY <2>7, <1>0 DEF RoundtripEnds, TypeOK
    <3>2. RecStep(r, q)
      BY <2>7, <1>0 DEF RoundtripEnds
    <3> QED
      BY <3>1, <3>2
  <2>8. CASE QuitSignalled(w)
    <3> DEFINE q == [r EXCEPT !.wpc = "exiting", !.exit = "didQuit",
                           !.inflight = @ - 1]
    <3>1. worker' = [worker EXCEPT ![w] = q]
      BY <2>8, <1>0 DEF QuitSignalled, ConnBreaks, TypeOK
    <3>2. r.inflight - 1 \in 0..Streams
      BY <2>8, <1>0 DEF QuitSignalled, ConnBreaks
    <3>3. q \in Worker
      BY <1>0, <3>2
    <3>4. RecStep(r, q)
      BY <2>8, <1>0, <3>3 DEF QuitSignalled, ConnBreaks
    <3> QED
      BY <3>1, <3>4
  <2>9. CASE QuitSignalTaken(w)
    <3> DEFINE q == [r EXCEPT !.wpc = "abandoned", !.inflight = @ - 1]
    <3>1. worker' = [worker EXCEPT ![w] = q]
      BY <2>9, <1>0 DEF QuitSignalTaken, ConnBreaks, TypeOK
    <3>2. r.inflight - 1 \in 0..Streams
      BY <2>9, <1>0 DEF QuitSignalTaken, ConnBreaks
    <3>3. q \in Worker
      BY <1>0, <3>2
    <3>4. RecStep(r, q)
      BY <2>9, <1>0, <3>3 DEF QuitSignalTaken, ConnBreaks
    <3> QED
      BY <3>1, <3>4
  <2>10. CASE SeeInClosed(w)
    <3> DEFINE q == [r EXCEPT !.wpc = "draining"]
    <3>1. worker' = [worker EXCEPT ![w] = q]
      BY <2>10, <1>0 DEF SeeInClosed, TypeOK
    <3>2. RecStep(r, q)
      BY <2>10, <1>0 DEF SeeInClosed
    <3> QED
      BY <3>1, <3>2
  <2>11. CASE Drained(w)
    <3> DEFINE q == [r EXCEPT !.wpc = "exiting", !.exit = "inClosed"]
    <3>1. worker' = [worker EXCEPT ![w] = q]
      BY <2>11, <1>0 DEF Drained, TypeOK
    <3>2. RecStep(r, q)
      BY <2>11, <1>0 DEF Drained
    <3> QED
      BY <3>1, <3>2
  <2>12. CASE SeeCtlClosed(w)
    <3> DEFINE q == [r EXCEPT !.wpc = "exiting", !.exit = "terminated"]
    <3>1. worker' = [worker EXCEPT ![w] = q]
      BY <2>12, <1>0 DEF SeeCtlClosed, TypeOK
    <3>2. RecStep(r, q)
      BY <2>12, <1>0 DEF SeeCtlClosed
    <3> QED
      BY <3>1, <3>2
  <2>13. CASE StreamerLeaves(w)
    <3> DEFINE q == [r EXCEPT !.wpc = "abandoned"]
    <3>1. worker' = [worker EXCEPT ![w] = q]
      BY <2>13, <1>0 DEF StreamerLeaves, TypeOK
    <3>2. RecStep(r, q)
      BY <2>13, <1>0 DEF StreamerLeaves
    <3> QED
      BY <3>1, <3>2
  <2>14. CASE QuitSignalPanics(w)
    <3>1. RecStep(r, r)
      BY <1>0
    <3> QED
      BY <2>14, <1>0, <3>1 DEF QuitSignalPanics
  <2> QED
    BY <2>1, <2>2, <2>3, <2>4, <2>5, <2>6, <2>7, <2>8, <2>9, <2>10, <2>11, <2>12, <2>13, <2>14
       DEF Launcher, Streamer
<1> QED
  BY <1>1, <1>2, <1>3, <1>4

\* The type invariant is inductive.
LEMMA TypeStep == TypeOK /\ [Next]_vars => TypeOK'
<1> SUFFICES ASSUME TypeOK, [Next]_vars PROVE TypeOK'
  OBVIOUS
<1>1. CASE UNCHANGED vars
  BY <1>1 DEF TypeOK, vars, Ids
<1>2. ASSUME NEW k \in Nat, NEW ws \in [Ids -> Worker],
             LaunchStreamers(ws, k), streamers' \subseteq streamers,
             gpc' \in GovPC,
             UNCHANGED <<outClosed, gctl, faults, panicked, settling, blackout>>,
             isClosing' \in BOOLEAN
      PROVE  TypeOK'
  <2> USE <1>2
  <2>1. /\ nextWId' \in Nat
        /\ Ids \subseteq Ids'
        /\ launchers' \subseteq Ids'
        /\ worker' \in [Ids' -> Worker]
    BY LaunchType
  <2>2. streamers' \subseteq Ids'
    BY <2>1 DEF TypeOK
  <2> QED
    BY <2>1, <2>2 DEF TypeOK
<1>3. TryScaleUp => LaunchStreamers(worker, AtLeast(AllowedScaleDelta, 0))
                      /\ AtLeast(AllowedScaleDelta, 0) \in Nat
  BY AllowedScaleDeltaType DEF TryScaleUp, AtLeast
<1>4. CASE Run
  BY <1>4, <1>2, <1>3 DEF Run, TypeOK, GovPC
<1>5. CASE Tick
  BY <1>5, <1>2, <1>3 DEF Tick, TypeOK, GovPC
<1>6. ASSUME NEW w \in Ids, RecvStreamer(w) PROVE TypeOK'
  <2>1. Received(w) \in [Ids -> Worker]
    BY <1>6 DEF Received, TypeOK, Worker, WPC
  <2>2. gpc' \in GovPC
    BY <1>6 DEF RecvStreamer, LoopExit, GovPC
  <2>3. isClosing' \in BOOLEAN
    BY <1>6 DEF RecvStreamer
  <2>4. (IF worker[w].exit = "didQuit" THEN 1 ELSE 0) \in Nat
    OBVIOUS
  <2> QED
    BY <1>6, <1>2, <2>1, <2>2, <2>3, <2>4 DEF RecvStreamer
<1>7. ASSUME NEW w \in Ids, RecvLauncher(w) PROVE TypeOK'
  <2>1. worker' \in [Ids -> Worker]
    BY <1>7 DEF RecvLauncher, TypeOK, Worker, LPC
  <2>2. gpc' \in GovPC
    BY <1>7 DEF RecvLauncher, LoopExit, GovPC
  <2>3. /\ settling' \in BOOLEAN /\ blackout' \in BOOLEAN
        /\ streamers' \subseteq Ids /\ launchers' \subseteq Ids
    BY <1>7 DEF RecvLauncher, StreamersWith, TypeOK
  <2> QED
    BY <1>7, <2>1, <2>2, <2>3 DEF RecvLauncher, TypeOK, Ids
<1>8. CASE HardStop \/ SignalParent \/ SettlePeriodEnds \/ BlackoutEnds
           \/ CloseOut \/ CloseGctl
  BY <1>8 DEF HardStop, SignalParent, SettlePeriodEnds, BlackoutEnds,
              CloseOut, CloseGctl, govVars, TypeOK, GovPC, Ids
<1>9. CASE SignalLaunchers \/ SignalStreamers
  <2>1. ASSUME NEW w \in Ids
        PROVE  /\ worker[w] \in Worker
               /\ [worker[w] EXCEPT !.lctl = TRUE] \in Worker
               /\ [worker[w] EXCEPT !.wctl = TRUE] \in Worker
    BY DEF TypeOK, Worker
  <2>2. worker' \in [Ids -> Worker]
    BY <1>9, <2>1 DEF SignalLaunchers, SignalStreamers
  <2> QED
    BY <1>9, <2>2 DEF SignalLaunchers, SignalStreamers, TypeOK, GovPC, Ids
<1>10. ASSUME NEW w \in Ids, Launcher(w) \/ Streamer(w) PROVE TypeOK'
  <2>1. PICK q : worker' = [worker EXCEPT ![w] = q] /\ RecStep(worker[w], q)
    BY <1>10, WorkerStep
  <2>2. worker' \in [Ids -> Worker]
    BY <2>1 DEF RecStep, TypeOK
  <2> QED
    BY <1>10, <2>2, WorkerStep DEF TypeOK, govVars, Ids
<1> QED
  BY <1>1, <1>4, <1>5, <1>6, <1>7, <1>8, <1>9, <1>10 DEF Next

\* Every behaviour of the governor and its workers is well typed: the workers
\* in the governor's maps exist, and a streamer's roundtrips stay within its
\* connection's streams.
THEOREM TypeCorrect == Spec => []TypeOK
<1>1. Init => TypeOK
  BY DEF Init, TypeOK, Ids, GovPC, Worker
<1> QED
  BY <1>1, TypeStep, PTL DEF Spec

-----------------------------------------------------------------------------
(* The inductive invariant *)

LaunchesKnown == \A w \in Ids : PendingRec(worker[w]) => w \in launchers

RecsSound == \A w \in Ids : SoundRec(worker[w])

\* The governor leaves its loop on a hard stop or with its maps empty.
EndsEmpty == gpc \in Ended => gctl \/ (streamers = {} /\ launchers = {})

IndInv ==
    /\ TypeOK
    /\ LiveWithinMaxConns
    /\ LiveIsKnown
    /\ LaunchesKnown
    /\ RecsSound
    /\ ClosingOnlyOnSoftStop
    /\ EndsEmpty

LEMMA LiveFinite ==
    ASSUME TypeOK
    PROVE  /\ IsFiniteSet(Live) /\ Cardinality(Live) \in Nat
           /\ Live = {w \in Ids : LiveRec(worker[w])}
<1>1. IsFiniteSet(Ids)
  BY IdsFinite
<1>2. Live \subseteq Ids
  BY DEF Live
<1>3. IsFiniteSet(Live)
  BY <1>1, <1>2, FS_Subset
<1>4. Live = {w \in Ids : LiveRec(worker[w])}
  BY DEF Live, LiveRec
<1> QED
  BY <1>3, <1>4, FS_CardinalityType

\* A step that launches and receives nothing keeps the invariant.
LEMMA QuietStep ==
    ASSUME IndInv, TypeOK',
           UNCHANGED <<nextWId, streamers, launchers, isClosing>>,
           outClosed => outClosed', gctl => gctl',
           gpc' \in Ended => gpc \in Ended \/ gctl,
           gpc \in Ended => gpc' \in Ended,
           \A v \in Ids : RecStep(worker[v], worker'[v])
    PROVE  IndInv'
<1>1. TypeOK /\ Ids' = Ids
  BY DEF IndInv, Ids
<1>2. Live' \subseteq Live
  BY <1>1, LiveFinite DEF Live, RecStep, LiveRec
<1>3. Cardinality(Live') <= Cardinality(Live) /\ Cardinality(Live') \in Nat
  BY <1>1, <1>2, LiveFinite, FS_Subset, FS_CardinalityType
<1>8. LiveWithinMaxConns'
  BY <1>1, <1>3, LiveFinite DEF IndInv, LiveWithinMaxConns
<1>4. LiveIsKnown'
  BY <1>2 DEF IndInv, LiveIsKnown
<1>5. LaunchesKnown'
  BY <1>1 DEF IndInv, LaunchesKnown, RecStep
<1>6. RecsSound'
  <2>1. \A v \in Ids : SoundRec(worker'[v])
    BY DEF IndInv, RecsSound, RecStep
  <2> QED
    BY <1>1, <2>1 DEF RecsSound, SoundRec, StageRec, DrainRec, ControlRec
<1>7. ClosingOnlyOnSoftStop' /\ EndsEmpty'
  BY DEF IndInv, ClosingOnlyOnSoftStop, EndsEmpty
<1> QED
  BY <1>3, <1>4, <1>5, <1>6, <1>7, <1>8 DEF IndInv

\* What launching k streamers adds to the live workers.
LEMMA LaunchLive ==
    ASSUME TypeOK, TypeOK', NEW k \in Nat, NEW ws \in [Ids -> Worker],
           LaunchStreamers(ws, k)
    PROVE  LET old == {w \in Ids : LiveRec(ws[w])}
               new == nextWId..(nextWId + k - 1)
           IN  /\ Live' = old \cup new
               /\ IsFiniteSet(old)
               /\ Cardinality(Live') <= Cardinality(old) + k
               /\ Cardinality(Live') \in Nat /\ Cardinality(old) \in Nat
<1> DEFINE old == {w \in Ids : LiveRec(ws[w])}
           new == nextWId..(nextWId + k - 1)
<1>1. Ids' = Ids \cup new /\ nextWId \in Nat
  BY DEF TypeOK, Ids, LaunchStreamers
<1>2. /\ \A w \in Ids : worker'[w] = ws[w]
      /\ \A w \in new : worker'[w] = NewWorker
  BY DEF LaunchStreamers, TypeOK, Ids
<1>3. LiveRec(NewWorker)
  BY DEF LiveRec, NewWorker
<1>4. Live' = {w \in Ids' : LiveRec(worker'[w])}
  BY DEF Live, LiveRec
<1>5. Live' = old \cup new
  BY <1>1, <1>2, <1>3, <1>4
<1>6. IsFiniteSet(old) /\ IsFiniteSet(new)
  <2>1. IsFiniteSet(Ids)
    BY IdsFinite
  <2>2. IsFiniteSet(old)
    BY <2>1, FS_Subset
  <2>3. nextWId \in Int /\ nextWId + k - 1 \in Int
    BY <1>1
  <2>4. IsFiniteSet(new)
    BY <2>3, FS_Interval
  <2> QED
    BY <2>2, <2>4
<1>7. Cardinality(new) = k
  BY <1>1, FS_Interval
<1>8. /\ Cardinality(old) \in Nat
      /\ Cardinality(old \cup new) \in Nat
      /\ Cardinality(old \cup new) <= Cardinality(old) + Cardinality(new)
  <2>1. IsFiniteSet(old \cup new) /\ IsFiniteSet(old \cap new)
    BY <1>6, FS_Union, FS_Intersection
  <2>2. Cardinality(old \cup new)
          = Cardinality(old) + Cardinality(new) - Cardinality(old \cap new)
    BY <1>6, FS_Union
  <2> QED
    BY <1>6, <2>1, <2>2, FS_CardinalityType
<1> QED
  BY <1>5, <1>6, <1>7, <1>8

\* A step that launches k streamers keeps the invariant when it makes room.
LEMMA LaunchStep ==
    ASSUME IndInv, TypeOK', NEW k \in Nat, NEW ws \in [Ids -> Worker],
           LaunchStreamers(ws, k),
           \A w \in Ids : RecStep(worker[w], ws[w]),
           \A w \in Ids : LiveRec(ws[w]) => w \in streamers' \cup launchers,
           Cardinality({w \in Ids : LiveRec(ws[w])}) + k <= MaxConns,
           UNCHANGED <<outClosed, gctl>>, isClosing' => outClosed,
           gpc \notin Ended,
           gpc' \in Ended => streamers' = {} /\ launchers' = {}
    PROVE  IndInv'
<1> DEFINE old == {w \in Ids : LiveRec(ws[w])}
           new == nextWId..(nextWId + k - 1)
<1>0. TypeOK
  BY DEF IndInv
<1>1. /\ Live' = old \cup new
      /\ Cardinality(Live') <= Cardinality(old) + k
      /\ Cardinality(Live') \in Nat /\ Cardinality(old) \in Nat
  BY <1>0, LaunchLive
<1>2. LiveWithinMaxConns'
  <2> HIDE DEF old
  <2>1. Cardinality(old) + k <= MaxConns
    BY DEF old
  <2> QED
    BY <1>1, <2>1 DEF LiveWithinMaxConns
<1>3. launchers' = launchers \cup new
  BY DEF LaunchStreamers
<1>4. LiveIsKnown'
  BY <1>1, <1>3 DEF LiveIsKnown
<1>5. Ids' = Ids \cup new
  BY <1>0 DEF TypeOK, Ids, LaunchStreamers
<1>6. /\ \A w \in Ids : worker'[w] = ws[w]
      /\ \A w \in new : worker'[w] = NewWorker
  BY <1>0 DEF LaunchStreamers, TypeOK, Ids
<1>7. LaunchesKnown'
  BY <1>3, <1>5, <1>6 DEF IndInv, LaunchesKnown, RecStep
<1>8. RecsSound'
  <2>1. SoundRec(NewWorker)
    BY DEF SoundRec, StageRec, DrainRec, ControlRec, NewWorker
  <2>2. \A w \in Ids : SoundRec(ws[w])
    BY DEF IndInv, RecsSound, RecStep
  <2>3. \A w \in Ids' : SoundRec(worker'[w])
    BY <1>5, <1>6, <2>1, <2>2
  <2> QED
    BY <2>3 DEF RecsSound, SoundRec, StageRec, DrainRec, ControlRec
<1>9. ClosingOnlyOnSoftStop' /\ EndsEmpty'
  BY DEF ClosingOnlyOnSoftStop, EndsEmpty
<1> QED
  BY <1>2, <1>4, <1>7, <1>8, <1>9 DEF IndInv

\* A scale-up makes room for what it launches.
LEMMA ScaleUpStep ==
    ASSUME IndInv, TypeOK', TryScaleUp,
           UNCHANGED <<streamers, isClosing, outClosed, gctl>>,
           gpc \notin Ended, gpc' \notin Ended
    PROVE  IndInv'
<1> DEFINE k == AtLeast(AllowedScaleDelta, 0)
<1>1. TypeOK /\ worker \in [Ids -> Worker]
  BY DEF IndInv, TypeOK
<1>2. k \in Nat /\ LaunchStreamers(worker, k)
  BY <1>1, AllowedScaleDeltaType DEF AtLeast, TryScaleUp
<1>3. \A w \in Ids : RecStep(worker[w], worker[w])
  BY <1>1 DEF RecStep
<1>4. \A w \in Ids : LiveRec(worker[w]) => w \in streamers' \cup launchers
  BY <1>1, LiveFinite DEF IndInv, LiveIsKnown
<1>5. Cardinality(Live) + k <= MaxConns
  <2>1. CASE AllowedScaleDelta > 0
    <3>1. /\ k = AllowedScaleDelta /\ IsFiniteSet(streamers)
          /\ Cardinality(streamers) + k <= MaxConns
          /\ launchers = {}
      BY <1>1, <2>1, AllowedScaleDeltaType DEF AtLeast
    <3>2. Live \subseteq streamers
      BY <3>1 DEF IndInv, LiveIsKnown
    <3>3. /\ Cardinality(Live) <= Cardinality(streamers)
          /\ Cardinality(streamers) \in Nat
      BY <3>1, <3>2, FS_Subset, FS_CardinalityType
    <3>4. Cardinality(Live) \in Nat
      BY <1>1, LiveFinite
    <3> HIDE DEF k
    <3> QED
      BY <1>2, <3>1, <3>3, <3>4
  <2>2. CASE ~(AllowedScaleDelta > 0)
    <3>1. k = 0
      BY <1>1, <2>2, AllowedScaleDeltaType DEF AtLeast
    <3>2. Cardinality(Live) \in Nat /\ Cardinality(Live) <= MaxConns
      BY <1>1, LiveFinite DEF IndInv, LiveWithinMaxConns
    <3> HIDE DEF k
    <3> QED
      BY <3>1, <3>2
  <2> QED
    BY <2>1, <2>2
<1>6. Live = {w \in Ids : LiveRec(worker[w])}
  BY <1>1, LiveFinite
<1>7. Cardinality({w \in Ids : LiveRec(worker[w])}) + k <= MaxConns
  BY <1>5, <1>6
<1> HIDE DEF k
<1> QED
  BY <1>1, <1>2, <1>3, <1>4, <1>7, LaunchStep
     DEF IndInv, ClosingOnlyOnSoftStop

\* Receiving a streamer makes room for the one that replaces it.
LEMMA RecvStreamerStep ==
    ASSUME IndInv, TypeOK', NEW w \in Ids, RecvStreamer(w)
    PROVE  IndInv'
<1> DEFINE k == IF worker[w].exit = "didQuit" THEN 1 ELSE 0
           q == [worker[w] EXCEPT !.wpc = "reported"]
           ws == [worker EXCEPT ![w] = q]
           old == {v \in Ids : LiveRec(ws[v])}
<1>1. TypeOK /\ worker \in [Ids -> Worker] /\ worker[w] \in Worker
  BY DEF IndInv, TypeOK
<1>2. q \in Worker /\ ws \in [Ids -> Worker] /\ k \in Nat
  BY <1>1 DEF Worker, WPC
<1>3. LaunchStreamers(ws, k)
  BY <1>1 DEF RecvStreamer, Received
<1>4. worker[w].lpc \notin {"dialing", "failed"} /\ worker[w].wpc = "exiting"
  BY DEF IndInv, RecsSound, SoundRec, StageRec, RecvStreamer
<1>5. /\ q.lpc = worker[w].lpc /\ q.wpc = "reported"
      /\ q.exit = worker[w].exit /\ q.inflight = worker[w].inflight
      /\ q.wctl = worker[w].wctl
  BY <1>1 DEF Worker
<1>6. LiveRec(worker[w]) /\ ~LiveRec(q) /\ RecStep(worker[w], q)
  BY <1>2, <1>4, <1>5 DEF LiveRec, RecStep, PendingRec, SoundRec, StageRec,
     DrainRec, ControlRec, FailedRec, FaultyRec, SpentRec
<1>7. \A v \in Ids : RecStep(worker[v], ws[v])
  BY <1>1, <1>6 DEF RecStep
<1>8. old = Live \ {w} /\ w \in Live
  BY <1>1, <1>6, LiveFinite
<1>9. \A v \in Ids : LiveRec(ws[v]) => v \in streamers' \cup launchers
  BY <1>8 DEF RecvStreamer, IndInv, LiveIsKnown
<1>10. /\ Cardinality(old) = Cardinality(Live) - 1
       /\ Cardinality(Live) \in Nat /\ Cardinality(Live) <= MaxConns
  BY <1>1, <1>8, LiveFinite, FS_RemoveElement DEF IndInv, LiveWithinMaxConns
<1>11. k <= 1
  OBVIOUS
<1>12. isClosing' => outClosed
  BY DEF RecvStreamer, InClosed, IndInv, RecsSound, SoundRec, StageRec,
         ClosingOnlyOnSoftStop
<1>13. gpc' \in Ended => streamers' = {} /\ launchers' = {}
  BY DEF RecvStreamer, LoopExit, Ended
<1>14. UNCHANGED <<outClosed, gctl>> /\ gpc \notin Ended
  BY DEF RecvStreamer, Ended
<1> HIDE DEF k, ws
<1>15. Cardinality({v \in Ids : LiveRec(ws[v])}) + k <= MaxConns
  BY <1>2, <1>10, <1>11
<1> QED
  BY <1>2, <1>3, <1>7, <1>9, <1>15, <1>12, <1>13, <1>14, LaunchStep

\* Receiving a launcher moves its streamer from one map to the other.
LEMMA RecvLauncherStep ==
    ASSUME IndInv, TypeOK', NEW l \in Ids, RecvLauncher(l)
    PROVE  IndInv'
<1> DEFINE q == [worker[l] EXCEPT !.lpc = "done"]
<1>1. /\ TypeOK /\ worker \in [Ids -> Worker] /\ worker[l] \in Worker
      /\ Ids' = Ids
  BY DEF IndInv, TypeOK, RecvLauncher, Ids
<1>2. /\ q.lpc = "done" /\ q.wpc = worker[l].wpc /\ q.exit = worker[l].exit
      /\ q.inflight = worker[l].inflight /\ q.wctl = worker[l].wctl
      /\ worker' = [worker EXCEPT ![l] = q]
  BY <1>1 DEF Worker, RecvLauncher
<1>3. /\ SoundRec(worker[l]) /\ SoundRec(q) /\ ~PendingRec(q)
      /\ LiveRec(q) => LiveRec(worker[l]) /\ worker[l].lpc = "started"
  BY <1>2 DEF IndInv, RecsSound, SoundRec, StageRec, DrainRec, ControlRec,
     PendingRec, LiveRec, RecvLauncher
<1>4. /\ worker'[l] = q
      /\ \A v \in Ids \ {l} : worker'[v] = worker[v]
  BY <1>1, <1>2
<1> HIDE DEF q
<1>5. Live' \subseteq Live
  BY <1>1, <1>3, <1>4, LiveFinite DEF Live, LiveRec
<1>6. Cardinality(Live') <= Cardinality(Live) /\ Cardinality(Live') \in Nat
  BY <1>1, <1>5, LiveFinite, FS_Subset, FS_CardinalityType
<1>7. LiveWithinMaxConns'
  BY <1>1, <1>6, LiveFinite DEF IndInv, LiveWithinMaxConns
<1>8. LiveIsKnown'
  <2>1. l \in Live' => l \in streamers'
    BY <1>1, <1>3, <1>4 DEF Live, LiveRec, RecvLauncher, StreamersWith
  <2> QED
    BY <1>5, <2>1 DEF IndInv, LiveIsKnown, RecvLauncher, StreamersWith
<1>9. LaunchesKnown'
  BY <1>1, <1>3, <1>4 DEF IndInv, LaunchesKnown, RecvLauncher
<1>10. RecsSound'
  <2>1. \A v \in Ids : SoundRec(worker'[v])
    BY <1>3, <1>4 DEF IndInv, RecsSound
  <2> QED
    BY <1>1, <2>1 DEF RecsSound, SoundRec, StageRec, DrainRec, ControlRec,
       RecvLauncher, Ended
<1>11. ClosingOnlyOnSoftStop' /\ EndsEmpty'
  BY DEF IndInv, ClosingOnlyOnSoftStop, EndsEmpty, Ended, RecvLauncher, LoopExit
<1> QED
  BY <1>6, <1>7, <1>8, <1>9, <1>10, <1>11 DEF IndInv

\* The invariant is inductive.
LEMMA IndStep ==
    ASSUME IndInv, [Next]_vars
    PROVE  IndInv'
<1>1. TypeOK /\ TypeOK' /\ worker \in [Ids -> Worker]
  BY TypeStep DEF IndInv, TypeOK
<1>2. \A v \in Ids : RecStep(worker[v], worker[v])
  BY <1>1 DEF RecStep
<1>3. CASE UNCHANGED vars
  BY <1>1, <1>2, <1>3, QuietStep DEF vars
<1>4. CASE Run
  <2>1. gpc \notin Ended /\ gpc' \notin Ended
    BY <1>4 DEF Run, Ended
  <2> QED
    BY <1>1, <1>4, <2>1, ScaleUpStep DEF Run
<1>5. CASE Tick
  <2>1. gpc \notin Ended /\ gpc' \notin Ended
    BY <1>5 DEF Tick, Ended
  <2> QED
    BY <1>1, <1>5, <2>1, ScaleUpStep DEF Tick
<1>6. CASE HardStop
  BY <1>1, <1>2, <1>6, QuietStep DEF HardStop, Ended
<1>7. CASE SignalLaunchers \/ SignalStreamers
  <2>1. ASSUME NEW v \in Ids PROVE RecStep(worker[v], worker'[v])
    <3>1. worker[v] \in Worker /\ worker'[v] \in Worker
      BY <1>1, <1>7 DEF TypeOK, Ids, SignalLaunchers, SignalStreamers
    <3>2. /\ worker'[v].lpc = worker[v].lpc
          /\ worker'[v].wpc = worker[v].wpc
          /\ worker'[v].exit = worker[v].exit
          /\ worker'[v].inflight = worker[v].inflight
      BY <3>1, <1>7 DEF SignalLaunchers, SignalStreamers, Worker
    <3>3. worker'[v].wctl = worker[v].wctl \/ worker'[v].wctl = TRUE
      BY <3>1, <1>7 DEF SignalLaunchers, SignalStreamers, Worker
    <3>4. worker'[v].wctl # worker[v].wctl => gctl /\ gpc \in Ended
      BY <3>1, <1>7
         DEF SignalLaunchers, SignalStreamers, Worker, IndInv, EndsEmpty, Ended
    <3>5. ControlRec(worker[v]) => ControlRec(worker'[v])
      BY <3>2, <3>3, <3>4, Zenon DEF ControlRec
    <3>6. /\ worker[v].lctl => worker'[v].lctl
          /\ worker[v].wctl => worker'[v].wctl
      BY <3>1, <1>7 DEF SignalLaunchers, SignalStreamers, Worker
    <3> QED
      BY <3>1, <3>2, <3>5, <3>6 DEF RecStep, LiveRec, PendingRec, SoundRec, StageRec,
         DrainRec, FailedRec, FaultyRec, SpentRec
  <2> QED
    BY <1>1, <1>7, <2>1, QuietStep DEF SignalLaunchers, SignalStreamers, Ended
<1>8. CASE SignalParent
  BY <1>1, <1>2, <1>8, QuietStep DEF SignalParent, Ended
<1>9. CASE SettlePeriodEnds \/ BlackoutEnds
  BY <1>1, <1>2, <1>9, QuietStep DEF SettlePeriodEnds, BlackoutEnds
<1>10. CASE CloseOut \/ CloseGctl
  BY <1>1, <1>2, <1>10, QuietStep DEF CloseOut, CloseGctl, govVars
<1>11. ASSUME NEW w \in Ids, RecvLauncher(w) \/ RecvStreamer(w)
       PROVE  IndInv'
  BY <1>1, <1>11, RecvLauncherStep, RecvStreamerStep
<1>12. ASSUME NEW w \in Ids, Launcher(w) \/ Streamer(w)
       PROVE  IndInv'
  <2>1. PICK q : worker' = [worker EXCEPT ![w] = q] /\ RecStep(worker[w], q)
    BY <1>1, <1>12, WorkerStep
  <2>2. \A v \in Ids : RecStep(worker[v], worker'[v])
    BY <1>1, <1>2, <2>1
  <2>3. UNCHANGED <<govVars, outClosed, gctl>>
    BY <1>1, <1>12, WorkerStep
  <2> QED
    BY <1>1, <2>2, <2>3, QuietStep DEF govVars
<1> QED
  BY <1>3, <1>4, <1>5, <1>6, <1>7, <1>8, <1>9, <1>10, <1>11, <1>12 DEF Next

LEMMA IndInit == Init => IndInv
<1> SUFFICES ASSUME Init PROVE IndInv
  OBVIOUS
<1>1. TypeOK
  BY DEF Init, TypeOK, Ids, GovPC, Worker
<1>2. Ids = {}
  BY DEF Init, Ids
<1>3. Live = {} /\ Cardinality(Live) = 0
  BY <1>2, FS_EmptySet DEF Live
<1> QED
  BY <1>1, <1>2, <1>3
     DEF Init, IndInv, LiveWithinMaxConns, LiveIsKnown, LaunchesKnown,
         RecsSound, ClosingOnlyOnSoftStop, EndsEmpty, Ended

THEOREM Invariance == Spec => []IndInv
<1>1. IndInv /\ [Next]_vars => IndInv'
  BY IndStep
<1> QED
  BY <1>1, IndInit, PTL DEF Spec

-----------------------------------------------------------------------------
\* Whatever fails and in whatever order exits are received, the governor never
\* has more than MaxConns workers dialing or running (allowedScaleDelta and the
\* relaunch in run).
THEOREM MaxConnsRespected == Spec => []LiveWithinMaxConns
<1>1. IndInv => LiveWithinMaxConns
  BY DEF IndInv
<1> QED
  BY <1>1, Invariance, PTL

\* Every worker that is dialing or running is in one of the governor's maps.
THEOREM WorkersKnown == Spec => []LiveIsKnown
<1>1. IndInv => LiveIsKnown
  BY DEF IndInv
<1> QED
  BY <1>1, Invariance, PTL

\* When a soft stop is announced as complete, no worker is dialing or running.
THEOREM SoftStopSound == Spec => []SoftStopLeavesNobody
<1>1. IndInv => SoftStopLeavesNobody
  BY DEF IndInv, SoftStopLeavesNobody, EndsEmpty, Ended, LiveIsKnown
<1> QED
  BY <1>1, Invariance, PTL

\* The governor closes only because the client closed the inbound channel.
THEOREM ClosingSound == Spec => []ClosingOnlyOnSoftStop
<1>1. IndInv => ClosingOnlyOnSoftStop
  BY DEF IndInv
<1> QED
  BY <1>1, Invariance, PTL

-----------------------------------------------------------------------------
(* The contract with the client *)

Contract == INSTANCE Shutdown WITH
    out <- outClosed, done <- (gpc = "stopped")

\* The governor announces its end once, and only after the client has closed out
\* or gctl: no failure, quit or termination of its workers ends it by itself.
ImplementsShutdown == Contract!Spec

\* The governor has left its loop because one of the client's channels is closed.
EndsOnStop == gpc \in Ended => gctl \/ isClosing

LEMMA EndsOnStopStep ==
    ASSUME IndInv, EndsOnStop, [Next]_vars
    PROVE  EndsOnStop'
<1> USE DEF EndsOnStop, Ended
<1>1. CASE UNCHANGED vars
  BY <1>1 DEF vars
<1>2. CASE Run \/ Tick \/ HardStop
  BY <1>2 DEF Run, Tick, HardStop
<1>3. CASE \/ SignalLaunchers \/ SignalStreamers \/ SignalParent
           \/ SettlePeriodEnds \/ BlackoutEnds
  BY <1>3 DEF SignalLaunchers, SignalStreamers, SignalParent,
     SettlePeriodEnds, BlackoutEnds
<1>4. CASE CloseOut \/ CloseGctl
  BY <1>4 DEF CloseOut, CloseGctl, govVars
<1>5. ASSUME NEW w \in Ids, RecvLauncher(w) \/ RecvStreamer(w)
      PROVE  EndsOnStop'
  BY <1>5 DEF RecvLauncher, RecvStreamer, LoopExit
<1>6. ASSUME NEW w \in Ids, Launcher(w) \/ Streamer(w)
      PROVE  EndsOnStop'
  <2>1. UNCHANGED <<govVars, outClosed, gctl>>
    BY <1>6, WorkerStep DEF IndInv, TypeOK
  <2> QED
    BY <2>1 DEF govVars
<1> QED
  BY <1>1, <1>2, <1>3, <1>4, <1>5, <1>6 DEF Next

\* Every step of the governor and its workers is one that the contract allows.
LEMMA ContractStep ==
    ASSUME IndInv, EndsOnStop, [Next]_vars
    PROVE  [Contract!Next]_(Contract!chans)
<1> USE DEF Contract!chans
<1>1. CASE UNCHANGED vars
  BY <1>1 DEF vars
<1>2. CASE \/ Run \/ Tick \/ HardStop \/ SignalLaunchers \/ SignalStreamers
           \/ SettlePeriodEnds \/ BlackoutEnds
  BY <1>2 DEF Run, Tick, HardStop, SignalLaunchers, SignalStreamers,
     SettlePeriodEnds, BlackoutEnds
<1>3. CASE SignalParent
  <2>1. gctl \/ outClosed
    BY <1>3 DEF SignalParent, EndsOnStop, Ended, IndInv, ClosingOnlyOnSoftStop
  <2> QED
    BY <1>3, <2>1 DEF SignalParent, Contract!Next, Contract!CloseDone
<1>4. CASE CloseOut
  BY <1>4 DEF CloseOut, govVars, Contract!Next, Contract!CloseOut
<1>5. CASE CloseGctl
  BY <1>5 DEF CloseGctl, govVars, Contract!Next, Contract!CloseGctl
<1>6. ASSUME NEW w \in Ids, RecvLauncher(w) \/ RecvStreamer(w)
      PROVE  UNCHANGED Contract!chans
  BY <1>6 DEF RecvLauncher, RecvStreamer, LoopExit
<1>7. ASSUME NEW w \in Ids, Launcher(w) \/ Streamer(w)
      PROVE  UNCHANGED Contract!chans
  <2>1. UNCHANGED <<govVars, outClosed, gctl>>
    BY <1>7, WorkerStep DEF IndInv, TypeOK
  <2> QED
    BY <2>1 DEF govVars
<1> QED
  BY <1>1, <1>2, <1>3, <1>4, <1>5, <1>6, <1>7 DEF Next

\* The governor keeps its side of the contract with the client, for every number
\* of connections, streams and failures: it closes done once, after a stop
\* (the end of run in dispatch.go).
THEOREM GovernorImplementsShutdown == Spec => ImplementsShutdown
<1>1. Init => EndsOnStop /\ Contract!Init
  BY DEF Init, EndsOnStop, Ended, Contract!Init
<1>2. IndInv /\ EndsOnStop /\ [Next]_vars => EndsOnStop'
  BY EndsOnStopStep
<1>3. IndInv /\ EndsOnStop /\ [Next]_vars => [Contract!Next]_(Contract!chans)
  BY ContractStep
<1> QED
  BY <1>1, <1>2, <1>3, Invariance, PTL
     DEF Spec, ImplementsShutdown, Contract!Spec

-----------------------------------------------------------------------------
(* Who hears of the end *)

\* Once it has signalled them, the governor's launchers and streamers have their
\* ctl channels closed, and they stay the same.
Told ==
    /\ gpc \in {"signalStreamers", "signalParent", "stopped"}
         => \A w \in launchers : worker[w].lctl
    /\ gpc \in {"signalParent", "stopped"}
         => \A w \in streamers : worker[w].wctl

LEMMA ToldStep ==
    ASSUME TypeOK, Told, [Next]_vars
    PROVE  Told'
<1>1. CASE UNCHANGED vars
  BY <1>1 DEF vars, Told
<1>2. CASE Run \/ Tick \/ HardStop
  BY <1>2 DEF Run, Tick, HardStop, Told
<1>3. CASE SignalLaunchers
  BY <1>3 DEF SignalLaunchers, Told, TypeOK, Worker
<1>4. CASE SignalStreamers
  <2>1. /\ gpc = "signalStreamers" /\ gpc' = "signalParent"
        /\ UNCHANGED <<streamers, launchers>>
    BY <1>4 DEF SignalStreamers
  <2>2. \A v \in streamers : worker'[v].wctl
    BY <1>4 DEF SignalStreamers, TypeOK, Worker
  <2>3. \A v \in Ids : worker'[v].lctl = worker[v].lctl
    BY <1>4 DEF SignalStreamers, TypeOK, Worker
  <2> QED
    BY <2>1, <2>2, <2>3 DEF Told, TypeOK
<1>5. CASE SignalParent \/ SettlePeriodEnds \/ BlackoutEnds
  BY <1>5 DEF SignalParent, SettlePeriodEnds, BlackoutEnds, Told
<1>6. CASE CloseOut \/ CloseGctl
  BY <1>6 DEF CloseOut, CloseGctl, govVars, Told
<1>7. ASSUME NEW w \in Ids, RecvLauncher(w) \/ RecvStreamer(w)
      PROVE  Told'
  BY <1>7 DEF RecvLauncher, RecvStreamer, LoopExit, Told
<1>8. ASSUME NEW w \in Ids, Launcher(w) \/ Streamer(w)
      PROVE  Told'
  <2>1. UNCHANGED govVars
    BY <1>8, WorkerStep
  <2>2. PICK q : worker' = [worker EXCEPT ![w] = q] /\ RecStep(worker[w], q)
    BY <1>8, WorkerStep
  <2>3. \A v \in Ids : /\ worker[v].lctl => worker'[v].lctl
                       /\ worker[v].wctl => worker'[v].wctl
    BY <2>2 DEF RecStep, TypeOK
  <2> QED
    BY <2>1, <2>3 DEF Told, govVars, TypeOK
<1> QED
  BY <1>1, <1>2, <1>3, <1>4, <1>5, <1>6, <1>7, <1>8 DEF Next

\* When the governor has stopped, only a streamer whose launch was pending may run
\* on without having been told (the end of run in dispatch.go).
THEOREM NobodyUntold == Spec => []EverybodyTold
<1>1. Init => Told
  BY DEF Init, Told
<1>2. IndInv /\ Told => EverybodyTold
  BY DEF IndInv, LiveIsKnown, Told, EverybodyTold
<1>3. IndInv => TypeOK
  BY DEF IndInv
<1> QED
  BY <1>1, <1>2, <1>3, ToldStep, Invariance, PTL DEF Spec

-----------------------------------------------------------------------------
\* When a soft stop is announced as complete, the only roundtrips left are those
\* of streamers that quit (wg.Wait comes before inClosed in streamer.run).
THEOREM SoftStopDrained == Spec => []SoftStopDrains
<1>1. ASSUME IndInv, gpc = "stopped", ~gctl, NEW w \in Ids
      PROVE  worker[w].inflight = 0 \/ worker[w].exit = "didQuit"
  <2>1. worker[w] \in Worker /\ SoundRec(worker[w])
    BY <1>1 DEF IndInv, TypeOK, RecsSound
  <2>2. w \notin Live
    BY <1>1 DEF IndInv, EndsEmpty, Ended, LiveIsKnown
  <2>3. worker[w].wpc \in {"none", "reported", "abandoned"}
    BY <2>1, <2>2 DEF Live, Worker, WPC
  <2>4. worker[w].exit # "terminated"
    BY <1>1, <2>1 DEF SoundRec, ControlRec
  <2> QED
    BY <2>1, <2>3, <2>4 DEF SoundRec, DrainRec, Worker, Exit
<1>2. IndInv => SoftStopDrains
  BY <1>1 DEF SoftStopDrains
<1> QED
  BY <1>2, Invariance, PTL

-----------------------------------------------------------------------------
(***************************************************************************)
(* Every launch beyond MaxConns is paid for by a failure.  The workers of  *)
(* which something may still come (Standing) are at most MaxConns: until   *)
(* the governor is closing they are all in its maps, which a scale-up      *)
(* counts, and a relaunch takes the place of a streamer that has just      *)
(* ceased to stand.  All the others have cost a failure each.              *)
(***************************************************************************)
Standing == {w \in Ids : ~SpentRec(worker[w])}

Faulty == {w \in Ids : FaultyRec(worker[w])}

PaidInv ==
    /\ Cardinality(Standing) <= MaxConns
    /\ Cardinality(Faulty) <= faults
    /\ gpc \notin Ended /\ ~isClosing => Standing \subseteq streamers \cup launchers

LEMMA PaidFinite ==
    ASSUME TypeOK
    PROVE  /\ IsFiniteSet(Ids)
           /\ IsFiniteSet(Standing) /\ Cardinality(Standing) \in Nat
           /\ IsFiniteSet(Faulty) /\ Cardinality(Faulty) \in Nat
<1>1. IsFiniteSet(Ids)
  BY IdsFinite
<1>2. Standing \subseteq Ids /\ Faulty \subseteq Ids
  BY DEF Standing, Faulty
<1>3. IsFiniteSet(Standing) /\ IsFiniteSet(Faulty)
  BY <1>1, <1>2, FS_Subset
<1> QED
  BY <1>1, <1>3, FS_CardinalityType

\* A step that launches nothing keeps the accounts, and a worker that becomes
\* faulty is charged with a failure.
LEMMA PaidQuiet ==
    ASSUME IndInv, PaidInv, TypeOK', UNCHANGED nextWId,
           NEW w,
           \A v \in Ids : RecStep(worker[v], worker'[v]),
           \/ faults' = faults
           \/ faults' = faults + 1 /\ \A v \in Ids \ {w} : worker'[v] = worker[v],
           gpc' \notin Ended /\ ~isClosing'
             => Standing' \subseteq streamers' \cup launchers'
    PROVE  PaidInv'
<1>1. TypeOK /\ Ids' = Ids /\ faults \in Nat
  BY DEF IndInv, TypeOK, Ids
<1>2. \A v \in Ids : SoundRec(worker[v])
  BY DEF IndInv, RecsSound
<1>3. Standing' \subseteq Standing
  BY <1>1, <1>2 DEF Standing, RecStep, SpentRec, FailedRec
<1>4. Cardinality(Standing') <= MaxConns
  <2>0. IsFiniteSet(Standing)
    BY <1>1, PaidFinite
  <2>1. IsFiniteSet(Standing') /\ Cardinality(Standing) \in Nat
    BY <1>3, <2>0, FS_Subset, FS_CardinalityType
  <2>2. Cardinality(Standing') <= Cardinality(Standing)
    BY <1>3, <2>0, FS_Subset
  <2> QED
    BY <2>1, <2>2, FS_CardinalityType DEF PaidInv
<1>5. Cardinality(Faulty') <= faults'
  <2>1. IsFiniteSet(Faulty)
    BY <1>1, PaidFinite
  <2>0. Faulty' \subseteq Ids /\ IsFiniteSet(Ids)
    BY <1>1, PaidFinite DEF Faulty
  <2>2. Cardinality(Faulty) \in Nat /\ Cardinality(Faulty') \in Nat
    BY <2>0, <2>1, FS_Subset, FS_CardinalityType
  <2>3. CASE faults' = faults
    <3>1. faults' # faults + 1
      BY <1>1, <2>3
    <3>2. Faulty' \subseteq Faulty
      BY <1>1, <1>2, <3>1 DEF Faulty, RecStep, FaultyRec, FailedRec
    <3>3. Cardinality(Faulty') <= Cardinality(Faulty)
      BY <2>1, <3>2, FS_Subset
    <3> QED
      BY <2>2, <2>3, <3>3, <1>1 DEF PaidInv
  <2>4. CASE faults' = faults + 1 /\ \A v \in Ids \ {w} : worker'[v] = worker[v]
    <3>1. Faulty' \subseteq Faulty \cup {w}
      BY <1>1, <2>4 DEF Faulty, FaultyRec, FailedRec
    <3>2. IsFiniteSet(Faulty \cup {w})
      BY <2>1, FS_AddElement
    <3>3. Cardinality(Faulty \cup {w}) <= Cardinality(Faulty) + 1
      <4>1. \/ Cardinality(Faulty \cup {w}) = Cardinality(Faulty)
            \/ Cardinality(Faulty \cup {w}) = Cardinality(Faulty) + 1
        BY <2>1, FS_AddElement, Zenon
      <4> QED
        BY <2>2, <4>1
    <3>4. Cardinality(Faulty') <= Cardinality(Faulty \cup {w})
      BY <3>1, <3>2, FS_Subset
    <3>5. Cardinality(Faulty \cup {w}) \in Nat
      BY <3>2, FS_CardinalityType
    <3> QED
      BY <2>2, <2>4, <3>3, <3>4, <3>5, <1>1 DEF PaidInv
  <2> QED
    BY <2>3, <2>4
<1> QED
  BY <1>4, <1>5 DEF PaidInv

\* A launch keeps the accounts when as many workers have ceased to stand, or
\* when MaxConns leaves room for it.
LEMMA PaidLaunch ==
    ASSUME IndInv, PaidInv, TypeOK', NEW k \in Nat, NEW ws \in [Ids -> Worker],
           LaunchStreamers(ws, k), UNCHANGED faults,
           \A v \in Ids : RecStep(worker[v], ws[v]),
           Cardinality({v \in Ids : ~SpentRec(ws[v])}) + k <= MaxConns,
           gpc' \notin Ended /\ ~isClosing'
             => {v \in Ids : ~SpentRec(ws[v])} \subseteq streamers' \cup launchers
    PROVE  PaidInv'
<1> DEFINE old == {v \in Ids : ~SpentRec(ws[v])}
           new == nextWId..(nextWId + k - 1)
<1>1. /\ TypeOK /\ Ids' = Ids \cup new /\ nextWId \in Nat /\ faults \in Nat
      /\ launchers' = launchers \cup new
  BY DEF IndInv, TypeOK, Ids, LaunchStreamers
<1>2. /\ \A v \in Ids : worker'[v] = ws[v]
      /\ \A v \in new : worker'[v] = NewWorker
  BY <1>1 DEF LaunchStreamers, TypeOK, Ids
<1>3. ~SpentRec(NewWorker) /\ ~FaultyRec(NewWorker)
  BY DEF SpentRec, FaultyRec, FailedRec, NewWorker
<1>4. Standing' = {v \in Ids' : ~SpentRec(worker'[v])}
  BY DEF Standing, SpentRec, FailedRec
<1>5. Standing' = old \cup new
  BY <1>1, <1>2, <1>3, <1>4
<1>6. Faulty' = {v \in Ids' : FaultyRec(worker'[v])}
  BY DEF Faulty, FaultyRec, FailedRec
<1>7. Faulty' \subseteq Faulty
  <2>1. ASSUME NEW v \in Ids, FaultyRec(ws[v]) PROVE FaultyRec(worker[v])
    <3>1. faults' # faults + 1
      BY <1>1
    <3>2. SoundRec(worker[v])
      BY DEF IndInv, RecsSound
    <3> QED
      BY <2>1, <3>1, <3>2 DEF RecStep
  <2> QED
    BY <1>1, <1>2, <1>3, <1>6, <2>1 DEF Faulty
<1>8. Cardinality(Faulty') <= faults'
  <2>1. IsFiniteSet(Faulty)
    BY <1>1, PaidFinite
  <2>2. Cardinality(Faulty) \in Nat /\ Cardinality(Faulty') \in Nat
    BY <1>7, <2>1, FS_Subset, FS_CardinalityType
  <2>3. Cardinality(Faulty') <= Cardinality(Faulty)
    BY <1>7, <2>1, FS_Subset
  <2> QED
    BY <1>1, <2>2, <2>3 DEF PaidInv
<1>9. Cardinality(Standing') <= MaxConns
  <2>1. IsFiniteSet(Ids)
    BY <1>1, IdsFinite
  <2>2. IsFiniteSet(old)
    BY <2>1, FS_Subset
  <2>3. nextWId \in Int /\ nextWId + k - 1 \in Int
    BY <1>1
  <2>4. IsFiniteSet(new) /\ Cardinality(new) = k
    <3>1. IsFiniteSet(new)
      BY <2>3, FS_Interval
    <3>2. Cardinality(new) = k
      BY <1>1, FS_Interval
    <3> QED
      BY <3>1, <3>2
  <2>5. IsFiniteSet(old \cap new)
    BY <2>2, FS_Intersection
  <2>6. Cardinality(old \cup new)
          = Cardinality(old) + Cardinality(new) - Cardinality(old \cap new)
    BY <2>2, <2>4, FS_Union
  <2>7. Cardinality(old) \in Nat /\ Cardinality(old \cap new) \in Nat
    BY <2>2, <2>5, FS_CardinalityType
  <2>8. Cardinality(old) + k <= MaxConns
    OBVIOUS
  <2> HIDE DEF old, new
  <2> QED
    BY <1>5, <2>4, <2>6, <2>7, <2>8
<1>10. gpc' \notin Ended /\ ~isClosing'
         => Standing' \subseteq streamers' \cup launchers'
  BY <1>1, <1>5
<1> QED
  BY <1>8, <1>9, <1>10 DEF PaidInv

LEMMA PaidScaleUp ==
    ASSUME IndInv, PaidInv, TypeOK', TryScaleUp, gpc \notin Ended,
           UNCHANGED <<streamers, isClosing, faults>>
    PROVE  PaidInv'
<1> DEFINE k == AtLeast(AllowedScaleDelta, 0)
<1>1. TypeOK /\ worker \in [Ids -> Worker]
  BY DEF IndInv, TypeOK
<1>2. k \in Nat /\ LaunchStreamers(worker, k)
  BY <1>1, AllowedScaleDeltaType DEF AtLeast, TryScaleUp
<1>3. \A v \in Ids : RecStep(worker[v], worker[v])
  BY <1>1 DEF RecStep
<1>4. Cardinality(Standing) \in Nat /\ Cardinality(Standing) <= MaxConns
  BY <1>1, PaidFinite DEF PaidInv
<1>5. Cardinality(Standing) + k <= MaxConns
  <2>1. CASE AllowedScaleDelta > 0
    <3>1. /\ k = AllowedScaleDelta /\ IsFiniteSet(streamers)
          /\ Cardinality(streamers) + k <= MaxConns
          /\ launchers = {} /\ ~isClosing
      BY <1>1, <2>1, AllowedScaleDeltaType DEF AtLeast
    <3>2. Standing \subseteq streamers
      BY <3>1 DEF PaidInv
    <3>3. /\ Cardinality(Standing) <= Cardinality(streamers)
          /\ Cardinality(streamers) \in Nat
      BY <3>1, <3>2, FS_Subset, FS_CardinalityType
    <3> HIDE DEF k
    <3> QED
      BY <1>2, <1>4, <3>1, <3>3
  <2>2. CASE ~(AllowedScaleDelta > 0)
    <3>1. k = 0
      BY <1>1, <2>2, AllowedScaleDeltaType DEF AtLeast
    <3> HIDE DEF k
    <3> QED
      BY <1>4, <3>1
  <2> QED
    BY <2>1, <2>2
<1>6. Cardinality({v \in Ids : ~SpentRec(worker[v])}) + k <= MaxConns
  BY <1>5 DEF Standing
<1>7. gpc' \notin Ended /\ ~isClosing'
        => {v \in Ids : ~SpentRec(worker[v])} \subseteq streamers' \cup launchers
  BY DEF PaidInv, Standing
<1> HIDE DEF k
<1> QED
  BY <1>1, <1>2, <1>3, <1>6, <1>7, PaidLaunch

\* A relaunch takes the place of the streamer that quit, which stood until its
\* exit was received.
LEMMA PaidRecvStreamer ==
    ASSUME IndInv, PaidInv, TypeOK', NEW w \in Ids, RecvStreamer(w)
    PROVE  PaidInv'
<1> DEFINE k == IF worker[w].exit = "didQuit" THEN 1 ELSE 0
           q == [worker[w] EXCEPT !.wpc = "reported"]
           ws == [worker EXCEPT ![w] = q]
           old == {v \in Ids : ~SpentRec(ws[v])}
<1>1. /\ TypeOK /\ worker \in [Ids -> Worker] /\ worker[w] \in Worker
      /\ SoundRec(worker[w])
  BY DEF IndInv, TypeOK, RecsSound
<1>2. q \in Worker /\ ws \in [Ids -> Worker] /\ k \in Nat
  BY <1>1 DEF Worker, WPC
<1>3. LaunchStreamers(ws, k)
  BY <1>1 DEF RecvStreamer, Received
<1>4. /\ q.lpc = worker[w].lpc /\ q.wpc = "reported"
      /\ q.exit = worker[w].exit /\ q.inflight = worker[w].inflight
      /\ q.wctl = worker[w].wctl
  BY <1>1 DEF Worker
<1>5. worker[w].wpc = "exiting" /\ gpc \notin Ended /\ UNCHANGED faults
  BY DEF RecvStreamer, Ended
<1>6. RecStep(worker[w], q)
  BY <1>1, <1>2, <1>4, <1>5 DEF LiveRec, RecStep, PendingRec, SoundRec,
     StageRec, DrainRec, ControlRec, FailedRec, FaultyRec, SpentRec
<1>7. /\ ~SpentRec(worker[w])
      /\ SpentRec(q) <=> worker[w].exit = "didQuit"
  BY <1>4, <1>5 DEF SpentRec, FailedRec
<1>8. \A v \in Ids : RecStep(worker[v], ws[v])
  BY <1>1, <1>6 DEF RecStep
<1>9. /\ worker[w].exit = "didQuit" => old = Standing \ {w} /\ w \in Standing
      /\ worker[w].exit # "didQuit" => old = Standing
  BY <1>1, <1>7 DEF Standing
<1>10. Cardinality(old) + k <= MaxConns
  <2>1. /\ IsFiniteSet(Standing)
        /\ Cardinality(Standing) \in Nat /\ Cardinality(Standing) <= MaxConns
    BY <1>1, PaidFinite DEF PaidInv
  <2>2. CASE worker[w].exit = "didQuit"
    <3>1. Cardinality(old) = Cardinality(Standing) - 1
      BY <1>9, <2>1, <2>2, FS_RemoveElement
    <3>2. k = 1
      BY <2>2
    <3> HIDE DEF k, old
    <3> QED
      BY <2>1, <3>1, <3>2
  <2>3. CASE worker[w].exit # "didQuit"
    <3>1. k = 0 /\ old = Standing
      BY <1>9, <2>3
    <3> HIDE DEF k, old
    <3> QED
      BY <2>1, <3>1
  <2> QED
    BY <2>2, <2>3
<1>11. gpc' \notin Ended /\ ~isClosing' => old \subseteq streamers' \cup launchers
  <2>1. SUFFICES ASSUME ~isClosing' PROVE old \subseteq streamers' \cup launchers
    OBVIOUS
  <2>2. ~isClosing /\ worker[w].exit # "inClosed"
    BY <2>1 DEF RecvStreamer, InClosed
  <2>3. worker[w].exit = "didQuit"
    BY <1>1, <1>5, <2>2 DEF SoundRec, ControlRec, DrainRec, Worker, Exit
  <2>4. Standing \subseteq streamers \cup launchers
    BY <1>5, <2>2 DEF PaidInv
  <2> QED
    BY <1>9, <2>3, <2>4 DEF RecvStreamer
<1> HIDE DEF k, ws
<1> QED
  BY <1>2, <1>3, <1>5, <1>8, <1>10, <1>11, PaidLaunch

\* A launcher that is received leaves a streamer in the map, or has failed.
LEMMA PaidRecvLauncher ==
    ASSUME IndInv, PaidInv, TypeOK', NEW l \in Ids, RecvLauncher(l)
    PROVE  PaidInv'
<1> DEFINE q == [worker[l] EXCEPT !.lpc = "done"]
<1>1. /\ TypeOK /\ worker \in [Ids -> Worker] /\ worker[l] \in Worker
      /\ Ids' = Ids /\ SoundRec(worker[l])
  BY DEF IndInv, TypeOK, RecvLauncher, Ids, RecsSound
<1>2. /\ q.lpc = "done" /\ q.wpc = worker[l].wpc /\ q.exit = worker[l].exit
      /\ q.inflight = worker[l].inflight /\ q.wctl = worker[l].wctl
      /\ worker' = [worker EXCEPT ![l] = q] /\ q \in Worker
  BY <1>1 DEF Worker, LPC, RecvLauncher
<1>3. worker[l].lpc \in {"started", "failed"}
  BY DEF RecvLauncher
<1>4. RecStep(worker[l], q)
  BY <1>1, <1>2, <1>3 DEF LiveRec, RecStep, PendingRec, SoundRec,
     StageRec, DrainRec, ControlRec, FailedRec, FaultyRec, SpentRec
<1>5. ~SpentRec(q) => worker[l].lpc = "started" /\ ~SpentRec(worker[l])
  BY <1>1, <1>2, <1>3 DEF SpentRec, FailedRec, SoundRec, StageRec
<1>6. /\ worker'[l] = q
      /\ \A v \in Ids \ {l} : worker'[v] = worker[v]
  BY <1>1, <1>2
<1> HIDE DEF q
<1>7. \A v \in Ids : RecStep(worker[v], worker'[v])
  BY <1>1, <1>4, <1>6 DEF RecStep
<1>8. Standing' = {v \in Ids : ~SpentRec(worker'[v])}
  BY <1>1 DEF Standing, SpentRec, FailedRec
<1>9. ~isClosing' => Standing' \subseteq streamers' \cup launchers'
  <2>1. SUFFICES ASSUME ~isClosing' PROVE Standing' \subseteq streamers' \cup launchers'
    OBVIOUS
  <2>2. Standing \subseteq streamers \cup launchers
    BY <2>1 DEF PaidInv, RecvLauncher, Ended
  <2>3. Standing' \subseteq Standing /\ (l \in Standing' => l \in streamers')
    BY <1>5, <1>6, <1>8 DEF Standing, RecvLauncher, StreamersWith
  <2> QED
    BY <2>2, <2>3 DEF RecvLauncher, StreamersWith
<1>10. UNCHANGED <<nextWId, faults>>
  BY DEF RecvLauncher
<1> QED
  BY <1>7, <1>9, <1>10, PaidQuiet

LEMMA PaidStep ==
    ASSUME IndInv, PaidInv, [Next]_vars
    PROVE  PaidInv'
<1>1. TypeOK /\ TypeOK' /\ worker \in [Ids -> Worker]
  BY TypeStep DEF IndInv, TypeOK
<1>2. \A v \in Ids : RecStep(worker[v], worker[v])
  BY <1>1 DEF RecStep
<1>3. CASE UNCHANGED vars
  BY <1>3 DEF vars, PaidInv, Standing, Faulty, Ids, SpentRec, FaultyRec,
     FailedRec
<1>4. CASE Run \/ Tick
  <2>1. /\ TryScaleUp /\ gpc \notin Ended
        /\ UNCHANGED <<streamers, isClosing, faults>>
    BY <1>4 DEF Run, Tick, Ended
  <2> QED
    BY <1>1, <2>1, PaidScaleUp
<1>5. CASE \/ HardStop \/ SignalParent \/ SettlePeriodEnds \/ BlackoutEnds
           \/ CloseOut \/ CloseGctl
  <2>1. /\ UNCHANGED <<nextWId, worker, faults, streamers, launchers, isClosing>>
        /\ gpc' = gpc \/ gpc' \in Ended
    BY <1>5 DEF HardStop, SignalParent, SettlePeriodEnds, BlackoutEnds,
       CloseOut, CloseGctl, govVars, Ended
  <2> QED
    BY <2>1 DEF PaidInv, Standing, Faulty, Ids, SpentRec, FaultyRec, FailedRec
<1>6. CASE SignalLaunchers \/ SignalStreamers
  <2>1. ASSUME NEW v \in Ids
        PROVE  /\ worker'[v].lpc = worker[v].lpc
               /\ worker'[v].wpc = worker[v].wpc
               /\ worker'[v].exit = worker[v].exit
    <3>1. worker[v] \in Worker
      BY <1>1
    <3> QED
      BY <1>6, <3>1 DEF SignalLaunchers, SignalStreamers, Worker
  <2>2. UNCHANGED <<nextWId, faults>> /\ gpc' \in Ended
    BY <1>6 DEF SignalLaunchers, SignalStreamers, Ended
  <2>3. Standing' = Standing /\ Faulty' = Faulty
    BY <2>1, <2>2 DEF Standing, Faulty, Ids, SpentRec, FaultyRec, FailedRec
  <2> QED
    BY <2>2, <2>3 DEF PaidInv
<1>7. ASSUME NEW w \in Ids, RecvLauncher(w) \/ RecvStreamer(w)
      PROVE  PaidInv'
  BY <1>1, <1>7, PaidRecvLauncher, PaidRecvStreamer
<1>8. ASSUME NEW w \in Ids, Launcher(w) \/ Streamer(w)
      PROVE  PaidInv'
  <2>1. PICK q : worker' = [worker EXCEPT ![w] = q] /\ RecStep(worker[w], q)
    BY <1>1, <1>8, WorkerStep
  <2>2. /\ \A v \in Ids : RecStep(worker[v], worker'[v])
        /\ \A v \in Ids \ {w} : worker'[v] = worker[v]
    BY <1>1, <1>2, <2>1
  <2>3. /\ UNCHANGED <<nextWId, streamers, launchers, isClosing, gpc>>
        /\ faults' = faults \/ faults' = faults + 1
    BY <1>1, <1>8, WorkerStep DEF govVars
  <2>4. Standing' \subseteq Standing
    BY <2>2, <2>3 DEF Standing, Ids, RecStep, SpentRec, FailedRec, IndInv,
       RecsSound
  <2>5. gpc' \notin Ended /\ ~isClosing'
          => Standing' \subseteq streamers' \cup launchers'
    BY <2>3, <2>4 DEF PaidInv
  <2> QED
    BY <1>1, <2>2, <2>3, <2>5, PaidQuiet
<1> QED
  BY <1>3, <1>4, <1>5, <1>6, <1>7, <1>8 DEF Next

\* Every launch beyond the first MaxConns is paid for by a dial that failed or a
\* connection that was found unusable: relaunching never runs away, with or
\* without a soft stop under way (the relaunch after didQuit in governor.run).
THEOREM EveryLaunchPaid == Spec => []LaunchesPaid
<1>1. Init => PaidInv
  <2> SUFFICES ASSUME Init PROVE PaidInv
    OBVIOUS
  <2>1. Ids = {}
    BY DEF Init, Ids
  <2>2. Standing = {} /\ Faulty = {} /\ Cardinality({}) = 0
    BY <2>1, FS_EmptySet DEF Standing, Faulty
  <2> QED
    BY <2>2 DEF Init, PaidInv
<1>2. IndInv /\ PaidInv /\ [Next]_vars => PaidInv'
  BY PaidStep
<1>3. ASSUME IndInv, PaidInv PROVE LaunchesPaid
  <2>1. TypeOK /\ nextWId \in Nat /\ faults \in Nat
    BY <1>3 DEF IndInv, TypeOK
  <2>2. /\ IsFiniteSet(Standing) /\ Cardinality(Standing) \in Nat
        /\ IsFiniteSet(Faulty) /\ Cardinality(Faulty) \in Nat
    BY <2>1, PaidFinite
  <2>3. Ids = Standing \cup Faulty
    BY DEF Standing, Faulty, SpentRec, FaultyRec
  <2>4. /\ Cardinality(Ids) = Cardinality(Standing) + Cardinality(Faulty)
                                - Cardinality(Standing \cap Faulty)
        /\ Cardinality(Standing \cap Faulty) \in Nat
    BY <2>2, <2>3, FS_Union, FS_Intersection, FS_CardinalityType
  <2>5. Cardinality(Ids) = nextWId
    <3>1. Cardinality(0..(nextWId - 1)) = nextWId
      BY <2>1, FS_Interval
    <3> QED
      BY <3>1 DEF Ids
  <2> QED
    BY <1>3, <2>1, <2>2, <2>4, <2>5 DEF PaidInv, LaunchesPaid
<1> QED
  BY <1>1, <1>2, <1>3, Invariance, PTL DEF Spec

-----------------------------------------------------------------------------
(* What a launch may be *)

\* What a step of ReplacesOnly says, as a relation of two states.
Replaces ==
    HeldBack /\ nextWId' # nextWId =>
        /\ nextWId' = nextWId + 1
        /\ \E w \in Ids : /\ worker[w].exit = "didQuit"
                          /\ worker[w].wpc = "exiting"
                          /\ worker'[w].wpc = "reported"

LEMMA HeldBackScalesNothing ==
    ASSUME TypeOK, HeldBack, TryScaleUp
    PROVE  nextWId' = nextWId
<1>1. AllowedScaleDelta = 0
  BY DEF HeldBack, AllowedScaleDelta
<1>2. AtLeast(AllowedScaleDelta, 0) = 0
  BY <1>1 DEF AtLeast
<1>3. nextWId' = nextWId + AtLeast(AllowedScaleDelta, 0)
  BY DEF TryScaleUp, LaunchStreamers
<1> QED
  BY <1>2, <1>3 DEF TypeOK

LEMMA RecvStreamerReplaces ==
    ASSUME TypeOK, NEW w \in Ids, RecvStreamer(w)
    PROVE  Replaces
<1>1. CASE worker[w].exit # "didQuit"
  <2>1. nextWId' = nextWId + 0
    BY <1>1 DEF RecvStreamer, LaunchStreamers
  <2> QED
    BY <2>1 DEF Replaces, TypeOK
<1>2. CASE worker[w].exit = "didQuit"
  <2>1. /\ worker[w].wpc = "exiting"
        /\ nextWId' = nextWId + 1
        /\ worker' = [x \in 0..(nextWId + 1 - 1) |->
                        IF x < nextWId THEN Received(w)[x] ELSE NewWorker]
    BY <1>2 DEF RecvStreamer, LaunchStreamers
  <2>2. w \in 0..(nextWId + 1 - 1) /\ w < nextWId
    BY DEF Ids, TypeOK
  <2>3. Received(w)[w].wpc = "reported"
    BY DEF Received, TypeOK, Worker
  <2>4. worker'[w].wpc = "reported"
    BY <2>1, <2>2, <2>3
  <2> QED
    BY <1>2, <2>1, <2>4 DEF Replaces
<1> QED
  BY <1>1, <1>2

\* A launch while scaling is held back replaces one streamer that quit.
THEOREM OnlyReplacements == Spec => ReplacesOnly
<1>1. ASSUME TypeOK, [Next]_vars
      PROVE  nextWId' = nextWId \/ Replaces
  <2>1. CASE Run \/ Tick
    <3>1. TryScaleUp
      BY <2>1 DEF Run, Tick
    <3> QED
      BY <1>1, <3>1, HeldBackScalesNothing DEF Replaces
  <2>2. CASE \E w \in Ids : RecvStreamer(w)
    BY <1>1, <2>2, RecvStreamerReplaces
  <2>3. CASE \/ HardStop \/ SignalLaunchers \/ SignalStreamers
             \/ SignalParent \/ SettlePeriodEnds \/ BlackoutEnds
             \/ CloseOut \/ CloseGctl \/ UNCHANGED vars
    BY <2>3 DEF HardStop, SignalLaunchers, SignalStreamers, SignalParent,
       SettlePeriodEnds, BlackoutEnds, CloseOut, CloseGctl, govVars, vars
  <2>4. ASSUME NEW w \in Ids, RecvLauncher(w) \/ Launcher(w)
        PROVE  nextWId' = nextWId
    BY <2>4 DEF RecvLauncher, Launcher, DialOK, DialFails, LauncherLeaves,
       govVars
  <2>5. ASSUME NEW w \in Ids, Streamer(w)
        PROVE  nextWId' = nextWId
    BY <2>5 DEF Streamer, TakeRequest, ExecRefuses, SpawnRoundtrip,
       RoundtripEnds, QuitSignalled, QuitSignalTaken, QuitSignalPanics,
       SeeInClosed, Drained, SeeCtlClosed, StreamerLeaves, govVars
  <2> QED
    BY <1>1, <2>1, <2>2, <2>3, <2>4, <2>5 DEF Next
<1>2. TypeOK /\ [Next]_vars => [Replaces]_vars
  BY <1>1 DEF Replaces
<1> QED
  BY <1>2, TypeCorrect, PTL DEF Spec, ReplacesOnly, Replaces
=============================================================================
