------------------------------ MODULE Governor ------------------------------
(***************************************************************************)
(* The governor of apns2 (dispatch.go) together with the goroutines it     *)
(* supervises: launchers, which dial a connection and start a streamer,    *)
(* and streamers (streamer.go), which take requests from the client's      *)
(* outbound channel and run them as concurrent HTTP/2 roundtrips.          *)
(*                                                                         *)
(* A launcher and the streamer it creates share one identifier, the value  *)
(* of nextWId at the launch.  A send on the unbuffered wExits and lExits   *)
(* channels is a rendezvous: one action of the governor and the sender.    *)
(* Channels that are only ever closed are Booleans.  Time is abstracted to *)
(* two flags, settling and blackout, that expire by themselves.            *)
(*                                                                         *)
(* The performance sampling that decides when to scale is left open here:  *)
(* any tick may ask for a scale-up.                                        *)
(***************************************************************************)
EXTENDS Integers, FiniteSets

CONSTANTS
    MinConns,      \* ProcCfg.MinConns
    MaxConns,      \* ProcCfg.MaxConns
    Scale,         \* ProcCfg.Scale.Apply, as a function of the current count
    Streams,       \* roundtrips one connection carries at a time
    MaxFaults,     \* bound: failed dials and connections found unusable
    Polling,       \* ProcCfg.PollInterval > 0
    DialMayFail,   \* a dial may fail
    ConnMayBreak   \* a roundtrip may find its connection unusable

ASSUME ConnsAssumption == MinConns \in Nat /\ MaxConns \in Nat
ASSUME ScaleAssumption == Scale \in [0..MaxConns -> Nat]
ASSUME StreamsAssumption == Streams \in Nat \ {0} /\ MaxFaults \in Nat
ASSUME SwitchesAssumption ==
    {Polling, DialMayFail, ConnMayBreak} \subseteq BOOLEAN

VARIABLES
    gpc,        \* the governor's goroutine: see GovPC
    isClosing,  \* governor.isClosing
    streamers,  \* keys of governor.streamers
    launchers,  \* keys of governor.launchers
    nextWId,    \* governor.nextWId
    worker,     \* every launcher and streamer created so far
    settling,   \* lastScale + SettlePeriod is in the future
    blackout,   \* backOffTracker.end is in the future
    outClosed,  \* Client.out, the streamers' inbound channel, is closed
    gctl,       \* Client.gctl, the hard stop command, is closed
    faults,     \* failures so far
    panicked    \* a goroutine sent on a closed channel

vars == <<gpc, isClosing, streamers, launchers, nextWId, worker, settling,
          blackout, outClosed, gctl, faults, panicked>>

GovPC == {"starting", "running", "signalLaunchers", "signalStreamers",
          "signalParent", "stopped"}

(***************************************************************************)
(* lpc   the launcher: dialing in streamer.start, blocked on lExits with   *)
(*       or without a worker, or finished                                  *)
(* wpc   the streamer's run goroutine: in its select, waiting for a stream *)
(*       in ReservedStream, waiting for its roundtrips, blocked on wExits, *)
(*       received by the governor, or gone by way of its ctl channel       *)
(* exit  why it left its loop: didQuit, inClosed or neither                *)
(***************************************************************************)
LPC == {"dialing", "started", "failed", "done"}
WPC == {"none", "running", "reserving", "draining", "exiting", "reported",
        "abandoned"}
Exit == {"none", "didQuit", "inClosed", "terminated"}

Worker == [lpc : LPC, wpc : WPC, exit : Exit, inflight : 0..Streams,
           lctl : BOOLEAN, wctl : BOOLEAN]

NewWorker == [lpc |-> "dialing", wpc |-> "none", exit |-> "none",
              inflight |-> 0, lctl |-> FALSE, wctl |-> FALSE]

Ids == 0..(nextWId - 1)

Init ==
    /\ gpc = "starting"
    /\ isClosing = FALSE
    /\ streamers = {} /\ launchers = {}
    /\ nextWId = 0
    /\ worker = [w \in {} |-> NewWorker]
    /\ settling = FALSE /\ blackout = FALSE
    /\ outClosed = FALSE /\ gctl = FALSE
    /\ faults = 0
    /\ panicked = FALSE

-----------------------------------------------------------------------------
(* The governor *)

AtLeast(a, b) == IF a < b THEN b ELSE a
AtMost(a, b) == IF a > b THEN b ELSE a

\* Mutant: pending launches are not counted.
AllowedScaleDeltaIgnoringLaunchers ==
    LET prov == Cardinality(streamers)
    IN  IF isClosing \/ settling \/ blackout \/ prov >= MaxConns
        THEN 0
        ELSE AtMost(AtLeast(Scale[prov], MinConns), MaxConns) - prov

\* Mutant: the back-off is not looked at.
AllowedScaleDeltaIgnoringBackOff ==
    LET prov == Cardinality(streamers) + Cardinality(launchers)
    IN  IF isClosing \/ launchers # {} \/ settling \/ prov >= MaxConns
        THEN 0
        ELSE AtMost(AtLeast(Scale[prov], MinConns), MaxConns) - prov

AllowedScaleDelta ==
    LET prov == Cardinality(streamers) + Cardinality(launchers)
    IN  IF \/ isClosing \/ launchers # {}
           \/ settling \/ blackout
           \/ prov >= MaxConns
        THEN 0
        ELSE AtMost(AtLeast(Scale[prov], MinConns), MaxConns) - prov

\* launchStreamer, k times, with ws the records of the existing workers.
LaunchStreamers(ws, k) ==
    /\ launchers' = launchers \cup nextWId..(nextWId + k - 1)
    /\ nextWId' = nextWId + k
    /\ worker' = [w \in 0..(nextWId + k - 1) |->
                    IF w < nextWId THEN ws[w] ELSE NewWorker]

TryScaleUp == LaunchStreamers(worker, AtLeast(AllowedScaleDelta, 0))

Run ==
    /\ gpc = "starting"
    /\ gpc' = "running"
    /\ TryScaleUp
    /\ UNCHANGED <<isClosing, streamers, settling, blackout, outClosed, gctl,
                   faults, panicked>>

\* Mutants: pending launchers are not waited for; the test is missing.
LoopExitIgnoringLaunchers ==
    gpc' = IF isClosing' /\ streamers' = {}
           THEN "signalLaunchers" ELSE "running"

\* The loop's exit test: a soft stop is over when nobody is left.
LoopExit ==
    gpc' = IF isClosing' /\ streamers' = {} /\ launchers' = {}
           THEN "signalLaunchers" ELSE "running"

\* Mutant: the new streamer is not registered.
StreamersWithout(l) == streamers

\* if w := l.worker; w != nil
StreamersWith(l) ==
    IF worker[l].lpc = "started" THEN streamers \cup {l} ELSE streamers

\* case l := <-g.lExits
RecvLauncher(l) ==
    /\ gpc = "running"
    /\ worker[l].lpc \in {"started", "failed"}
    /\ launchers' = launchers \ {l}
    /\ streamers' = StreamersWith(l)
    /\ worker' = [worker EXCEPT ![l].lpc = "done"]
    /\ settling' = (settling \/ launchers' = {})
    /\ blackout' = (blackout \/ worker[l].lpc = "failed")
    /\ UNCHANGED <<isClosing, nextWId, outClosed, gctl, faults, panicked>>
    /\ LoopExit

\* Mutant: no exit counts as a soft stop.
InClosedIgnored(w) == FALSE

InClosed(w) == worker[w].exit = "inClosed"

Received(w) == [worker EXCEPT ![w].wpc = "reported"]

\* case w := <-g.wExits
RecvStreamer(w) ==
    /\ gpc = "running"
    /\ worker[w].wpc = "exiting"
    /\ isClosing' = (isClosing \/ InClosed(w))
    /\ streamers' = streamers \ {w}
    /\ LaunchStreamers(Received(w),
                       IF worker[w].exit = "didQuit" THEN 1 ELSE 0)
    /\ LoopExit
    /\ UNCHANGED <<settling, blackout, outClosed, gctl, faults, panicked>>

\* case <-tkrChan, when the sampled counters ask for a scale-up.
Tick ==
    /\ gpc = "running" /\ Polling /\ ~isClosing
    /\ AllowedScaleDelta > 0
    /\ TryScaleUp
    /\ UNCHANGED <<gpc, isClosing, streamers, settling, blackout, outClosed,
                   gctl, faults, panicked>>

\* case <-g.ctl
HardStop ==
    /\ gpc = "running" /\ gctl
    /\ gpc' = "signalLaunchers"
    /\ UNCHANGED <<isClosing, streamers, launchers, nextWId, worker, settling,
                   blackout, outClosed, gctl, faults, panicked>>

SignalLaunchers ==
    /\ gpc = "signalLaunchers"
    /\ gpc' = "signalStreamers"
    /\ worker' = [w \in Ids |->
                    IF w \in launchers THEN [worker[w] EXCEPT !.lctl = TRUE]
                    ELSE worker[w]]
    /\ UNCHANGED <<isClosing, streamers, launchers, nextWId, settling,
                   blackout, outClosed, gctl, faults, panicked>>

\* Mutant: the streamers' ctl channels are not closed.
SignalStreamersMissing ==
    /\ gpc = "signalStreamers"
    /\ gpc' = "signalParent"
    /\ UNCHANGED <<isClosing, streamers, launchers, nextWId, worker, settling,
                   blackout, outClosed, gctl, faults, panicked>>

SignalStreamers ==
    /\ gpc = "signalStreamers"
    /\ gpc' = "signalParent"
    /\ worker' = [w \in Ids |->
                    IF w \in streamers THEN [worker[w] EXCEPT !.wctl = TRUE]
                    ELSE worker[w]]
    /\ UNCHANGED <<isClosing, streamers, launchers, nextWId, settling,
                   blackout, outClosed, gctl, faults, panicked>>

SignalParent ==
    /\ gpc = "signalParent"
    /\ gpc' = "stopped"
    /\ UNCHANGED <<isClosing, streamers, launchers, nextWId, worker, settling,
                   blackout, outClosed, gctl, faults, panicked>>

SettlePeriodEnds ==
    /\ settling
    /\ settling' = FALSE
    /\ UNCHANGED <<gpc, isClosing, streamers, launchers, nextWId, worker,
                   blackout, outClosed, gctl, faults, panicked>>

BlackoutEnds ==
    /\ blackout
    /\ blackout' = FALSE
    /\ UNCHANGED <<gpc, isClosing, streamers, launchers, nextWId, worker,
                   settling, outClosed, gctl, faults, panicked>>

-----------------------------------------------------------------------------
(* Launchers *)

govVars == <<gpc, isClosing, streamers, launchers, nextWId, settling,
             blackout>>

\* streamer.start succeeds and its run goroutine is under way before the
\* launcher has reported.
DialOK(l) ==
    /\ worker[l].lpc = "dialing"
    /\ worker' = [worker EXCEPT ![l].lpc = "started", ![l].wpc = "running"]
    /\ UNCHANGED <<govVars, outClosed, gctl, faults, panicked>>

DialFails(l) ==
    /\ worker[l].lpc = "dialing"
    /\ DialMayFail /\ faults < MaxFaults
    /\ faults' = faults + 1
    /\ worker' = [worker EXCEPT ![l].lpc = "failed"]
    /\ UNCHANGED <<govVars, outClosed, gctl, panicked>>

\* case <-l.ctl
LauncherLeaves(l) ==
    /\ worker[l].lpc \in {"started", "failed"}
    /\ worker[l].lctl
    /\ worker' = [worker EXCEPT ![l].lpc = "done"]
    /\ UNCHANGED <<govVars, outClosed, gctl, faults, panicked>>

-----------------------------------------------------------------------------
(* Streamers *)

\* case req, ok := <-s.in with a request: exec is entered.
TakeRequest(w) ==
    /\ worker[w].wpc = "running" /\ ~outClosed
    /\ worker' = [worker EXCEPT ![w].wpc = "reserving"]
    /\ UNCHANGED <<govVars, outClosed, gctl, faults, panicked>>

\* exec answers the request itself: no credentials, context cancelled.
ExecRefuses(w) ==
    /\ worker[w].wpc = "reserving"
    /\ worker' = [worker EXCEPT ![w].wpc = "running"]
    /\ UNCHANGED <<govVars, outClosed, gctl, faults, panicked>>

\* ReservedStream returns and the roundtrip's goroutine is spawned.
SpawnRoundtrip(w) ==
    /\ worker[w].wpc = "reserving" /\ worker[w].inflight < Streams
    /\ worker' = [worker EXCEPT ![w].wpc = "running", ![w].inflight = @ + 1]
    /\ UNCHANGED <<govVars, outClosed, gctl, faults, panicked>>

\* A roundtrip ends with the connection usable, or with nobody reading the
\* signal it sends: the send does not block and the signal is lost.
RoundtripEnds(w) ==
    /\ worker[w].inflight > 0
    /\ worker' = [worker EXCEPT ![w].inflight = @ - 1]
    /\ UNCHANGED <<govVars, outClosed, gctl, faults, panicked>>

ConnBreaks(w) ==
    /\ ConnMayBreak /\ faults < MaxFaults
    /\ worker[w].inflight > 0
    /\ faults' = faults + 1

\* A roundtrip finds the connection unusable and its signal on s.ctl reaches
\* the streamer's select: didQuit.
QuitSignalled(w) ==
    /\ ConnBreaks(w)
    /\ worker[w].wpc = "running" /\ ~worker[w].wctl
    /\ worker' = [worker EXCEPT ![w].wpc = "exiting", ![w].exit = "didQuit",
                                ![w].inflight = @ - 1]
    /\ UNCHANGED <<govVars, outClosed, gctl, panicked>>

\* The same signal reaches a streamer that is blocked on done: case <-s.ctl.
QuitSignalTaken(w) ==
    /\ ConnBreaks(w)
    /\ worker[w].wpc = "exiting" /\ ~worker[w].wctl
    /\ worker' = [worker EXCEPT ![w].wpc = "abandoned",
                                ![w].inflight = @ - 1]
    /\ UNCHANGED <<govVars, outClosed, gctl, panicked>>

\* The same signal is sent after the governor closed s.ctl: a send on a closed
\* channel panics, and with it the process.
QuitSignalPanics(w) ==
    /\ ConnBreaks(w)
    /\ worker[w].wctl
    /\ panicked' = TRUE
    /\ UNCHANGED <<govVars, worker, outClosed, gctl>>

\* case req, ok := <-s.in with the channel closed, then s.wg.Wait.
SeeInClosed(w) ==
    /\ worker[w].wpc = "running" /\ outClosed
    /\ worker' = [worker EXCEPT ![w].wpc = "draining"]
    /\ UNCHANGED <<govVars, outClosed, gctl, faults, panicked>>

\* Mutant: s.wg.Wait is missing.
DrainedAtOnce(w) ==
    /\ worker[w].wpc = "draining"
    /\ worker' = [worker EXCEPT ![w].wpc = "exiting", ![w].exit = "inClosed"]
    /\ UNCHANGED <<govVars, outClosed, gctl, faults, panicked>>

Drained(w) ==
    /\ worker[w].wpc = "draining" /\ worker[w].inflight = 0
    /\ worker' = [worker EXCEPT ![w].wpc = "exiting", ![w].exit = "inClosed"]
    /\ UNCHANGED <<govVars, outClosed, gctl, faults, panicked>>

\* case _, ok := <-s.ctl with the channel closed.
SeeCtlClosed(w) ==
    /\ worker[w].wpc = "running" /\ worker[w].wctl
    /\ worker' = [worker EXCEPT ![w].wpc = "exiting", ![w].exit = "terminated"]
    /\ UNCHANGED <<govVars, outClosed, gctl, faults, panicked>>

\* The second select of run: case <-s.ctl with the channel closed.
StreamerLeaves(w) ==
    /\ worker[w].wpc = "exiting" /\ worker[w].wctl
    /\ worker' = [worker EXCEPT ![w].wpc = "abandoned"]
    /\ UNCHANGED <<govVars, outClosed, gctl, faults, panicked>>

-----------------------------------------------------------------------------
(* The client: Stop closes out, Kill closes gctl.  Once Stop has closed out *)
(* the client is in stateClosed and Kill has no effect.                     *)

CloseOut ==
    /\ ~outClosed
    /\ outClosed' = TRUE
    /\ UNCHANGED <<govVars, worker, gctl, faults, panicked>>

CloseGctl ==
    /\ ~gctl /\ ~outClosed
    /\ gctl' = TRUE
    /\ UNCHANGED <<govVars, worker, outClosed, faults, panicked>>

-----------------------------------------------------------------------------
Launcher(w) == DialOK(w) \/ DialFails(w) \/ LauncherLeaves(w)

Streamer(w) ==
    \/ TakeRequest(w) \/ ExecRefuses(w) \/ SpawnRoundtrip(w)
    \/ RoundtripEnds(w)
    \/ QuitSignalled(w) \/ QuitSignalTaken(w) \/ QuitSignalPanics(w)
    \/ SeeInClosed(w) \/ Drained(w) \/ SeeCtlClosed(w) \/ StreamerLeaves(w)

Next ==
    /\ ~panicked
    /\ \/ Run \/ Tick \/ HardStop
       \/ SignalLaunchers \/ SignalStreamers \/ SignalParent
       \/ SettlePeriodEnds \/ BlackoutEnds
       \/ CloseOut \/ CloseGctl
       \/ \E w \in Ids : \/ RecvLauncher(w) \/ RecvStreamer(w)
                         \/ Launcher(w) \/ Streamer(w)

(***************************************************************************)
(* Fairness.  The Go scheduler runs every goroutine that can run, and a    *)
(* select picks among its ready cases at random, so a case that stays      *)
(* ready is eventually taken.  A dial ends by DialTimeout.  Nothing is     *)
(* assumed of the ticker, of the client or of the arrival of requests, nor *)
(* of roundtrips: RequestTimeout ends what http.Client.Do does, but then a *)
(* roundtrip may block on governor.retry for good (Delivery).  At most     *)
(* MaxConns + MaxFaults launches ever happen (LaunchesPaid).               *)
(***************************************************************************)
AllIds == 0..(MaxConns + MaxFaults - 1)

\* The step A of the goroutine w, in a process that is still alive.
Alive(w, A) == w \in Ids /\ ~panicked /\ A

Fairness ==
    /\ WF_vars(~panicked /\ (\/ Run \/ HardStop \/ SignalLaunchers
                             \/ SignalStreamers \/ SignalParent))
    /\ \A w \in AllIds :
        /\ WF_vars(Alive(w, Launcher(w)))
        /\ WF_vars(Alive(w, RecvLauncher(w)))
        /\ WF_vars(Alive(w, RecvStreamer(w)))
        /\ WF_vars(Alive(w, SpawnRoundtrip(w)))
        /\ WF_vars(Alive(w, SeeInClosed(w) \/ Drained(w)))
        /\ WF_vars(Alive(w, StreamerLeaves(w)))
        /\ SF_vars(Alive(w, SeeCtlClosed(w)))

Spec == Init /\ [][Next]_vars /\ Fairness

-----------------------------------------------------------------------------
TypeOK ==
    /\ gpc \in GovPC
    /\ nextWId \in Nat
    /\ streamers \subseteq Ids /\ launchers \subseteq Ids
    /\ worker \in [Ids -> Worker]
    /\ {isClosing, settling, blackout, outClosed, gctl, panicked}
         \subseteq BOOLEAN
    /\ faults \in 0..MaxFaults

\* The workers whose goroutine is dialing or running: each has, or is about to
\* have, a connection to the APN service.
Live ==
    {w \in Ids : \/ worker[w].lpc = "dialing"
                 \/ worker[w].wpc \in {"running", "reserving", "draining",
                                       "exiting"}}

\* The governor never has more than MaxConns workers dialing or running, even
\* though its relaunch after a quit consults no limit and its two maps can hold
\* workers that are gone (launchStreamer, allowedScaleDelta).
LiveWithinMaxConns == Cardinality(Live) <= MaxConns

\* Every worker that is dialing or running is in one of the governor's maps, so
\* that a soft stop waits for it.
LiveIsKnown == Live \subseteq streamers \cup launchers

\* When the governor announces the end of a soft stop by closing done, no
\* launcher is dialing and no streamer is running.
SoftStopLeavesNobody == gpc = "stopped" /\ ~gctl => Live = {}

\* The governor decides that it is closing only when the client has closed the
\* streamers' inbound channel, never on a quit or a termination.
ClosingOnlyOnSoftStop == isClosing => outClosed

\* When the governor has stopped, every worker still dialing or running was told
\* so by the close of its ctl channel; only a streamer whose launch was pending
\* was not, as the governor knew its launcher alone (SignalLaunchers).
EverybodyTold ==
    gpc = "stopped" =>
        \A w \in Live : worker[w].wctl \/ (w \in launchers /\ worker[w].lctl)

\* A launch while scaling is held back (the governor is closing, another launch
\* is pending, the last scaling settles or dialing is backed off) only ever
\* replaces, one for one, a streamer that quit.
HeldBack == isClosing \/ launchers # {} \/ settling \/ blackout

ReplacesOnly ==
    [][ HeldBack /\ nextWId' # nextWId =>
          /\ nextWId' = nextWId + 1
          /\ \E w \in Ids : /\ worker[w].exit = "didQuit"
                            /\ worker[w].wpc = "exiting"
                            /\ worker'[w].wpc = "reported" ]_vars

\* Relaunches never run away: every launch beyond the first MaxConns is paid for
\* by a dial that failed or a connection that was found unusable.
LaunchesPaid == nextWId <= MaxConns + faults

\* The streamers that wait for a roundtrip to end: in ReservedStream for one of
\* the streams, all in use, or in s.wg.Wait.
Held ==
    {w \in Ids : \/ worker[w].wpc = "reserving" /\ worker[w].inflight = Streams
                 \/ worker[w].wpc = "draining" /\ worker[w].inflight > 0}

\* A hard stop ends the governor and every streamer it has registered, for good,
\* unless a late roundtrip brings the process down; but for the streamers that
\* roundtrips without an end keep from looking at their ctl channel.
HardStopTerminates ==
    gctl ~> []( \/ panicked
                \/ gpc = "stopped" /\ streamers \cap Live \subseteq Held )

\* A streamer that is gone and still, or again, in the map of active streamers:
\* its exit was received before its launcher's, or was never received.
Ghosts == {w \in streamers : worker[w].wpc \in {"reported", "abandoned"}}

\* Nobody is left to tell the governor that the inbound channel is closed.
Deserted == ~isClosing /\ streamers = {} /\ launchers = {}


\* "Block until all processing is complete", and no longer: a soft stop ends the
\* governor once no worker is dialing or running.
SoftStopCompletes == outClosed /\ Live = {} ~> gpc = "stopped"

\* When a soft stop is over, every roundtrip is over ("All inflight requests are
\* given the chance to be executed"), but for those of a streamer that quit,
\* which are waited for by nobody.
SoftStopDrains ==
    gpc = "stopped" /\ ~gctl =>
        \A w \in Ids : worker[w].inflight = 0 \/ worker[w].exit = "didQuit"

\* Senders wait so often that a tick that may scale up at last does.
SustainedDemand ==
    /\ WF_vars(~panicked /\ Tick)
    /\ WF_vars(~panicked /\ SettlePeriodEnds)
    /\ WF_vars(~panicked /\ BlackoutEnds)

\* Under sustained demand the connections grow to MaxConns, and do so again after
\* every failed dial and broken connection: neither the settle period, the
\* back-off nor the rounding of a small scale factor holds them back for good.
\* A ghost in the governor's map takes the place of a connection.
ScalesToMaxConns ==
    SustainedDemand =>
        []<>( \/ outClosed \/ gctl \/ Ghosts # {}
              \/ Cardinality(Live) = MaxConns )

=============================================================================
