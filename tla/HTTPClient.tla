----------------------------- MODULE HTTPClient -----------------------------
(***************************************************************************)
(* The HTTP/2 stream reservation of apns2 (http.go).  A call of            *)
(* ReservedStream waits on a condition variable until the connection has a *)
(* free stream or its context is cancelled; the stream's Close gives it    *)
(* back.  How many streams there are is read from the HTTP/2 layer on      *)
(* every call (precise), from time to time (polling) or never (off).       *)
(*                                                                         *)
(* A critical section of mu is one action.  A call in cond.Wait is         *)
(* "waiting" until a Broadcast makes it "woken"; it then has to get mu     *)
(* back and tests its condition again.  The goroutine that watches the     *)
(* context is cnl, and sets cerr and broadcasts in separate steps.         *)
(***************************************************************************)
EXTENDS Integers, FiniteSets

CONSTANTS
    Calls,        \* calls of ReservedStream
    Cancellable,  \* the calls that pass a cancel function
    CfgCap,       \* cfgCap: CommsCfg.MaxConcurrentStreams
    ServerCaps,   \* what the HTTP/2 layer may report at one time or another
    Modes,        \* configurations: see Mode
    DialMayFail   \* a refresh that has to dial may fail

ASSUME CallsAssumption == IsFiniteSet(Calls) /\ Cancellable \subseteq Calls
ASSUME CapsAssumption == CfgCap \in Nat /\ ServerCaps \subseteq Nat

\* precise; pollInt > 0; or neither: HTTP/2 incursion is not allowed.
Mode == {"off", "precise", "polling"}

ASSUME ModesAssumption == Modes \subseteq Mode /\ DialMayFail \in BOOLEAN

VARIABLES
    mode,    \* precise and pollInt, set by the streamer
    phase,   \* of the client: "new", "open" (init is done) or "closed"
    srvCap,  \* what the HTTP/2 layer reports now
    effCap,  \* effCap; 0 stands for no limit
    cnt,     \* cnt, reserved streams
    call,    \* each call of ReservedStream and the stream it returned
    cnl,     \* its cancel goroutine
    cerr,    \* its cerr is set
    ctx,     \* its context is cancelled
    poller   \* the goroutine that refreshes effCap

vars == <<mode, phase, srvCap, effCap, cnt, call, cnl, cerr, ctx, poller>>

CallPC == {"idle", "waiting", "woken", "holding", "released", "cancelled"}
CnlPC == {"none", "watching", "fired", "stored", "gone"}

Init ==
    /\ mode \in Modes
    /\ phase = "new"
    /\ srvCap \in ServerCaps
    /\ effCap = 0 /\ cnt = 0
    /\ call = [c \in Calls |-> "idle"]
    /\ cnl = [c \in Calls |-> "none"]
    /\ cerr = [c \in Calls |-> FALSE]
    /\ ctx = [c \in Calls |-> FALSE]
    /\ poller = "none"

-----------------------------------------------------------------------------
(* Capacity *)

\* Mutant: only one waiting call is woken.
Signalled(pcs) ==
    LET ws == {c \in Calls : pcs[c] = "waiting"}
        one == CHOOSE c \in Calls : c \in ws
    IN  IF ws = {} THEN pcs ELSE [pcs EXCEPT ![one] = "woken"]

\* cond.Broadcast()
Broadcast(pcs) ==
    [c \in Calls |-> IF pcs[c] = "waiting" THEN "woken" ELSE pcs[c]]

\* Mutant: only a greater capacity is notified.
NotifiesGrowth(old, new) == old < new

Notifies(old, new) == old < new \/ (old > 0 /\ new = 0)

\* Mutant: the configured limit is not applied.
ServerCapOnly == srvCap

AllowedCap == IF srvCap > CfgCap THEN CfgCap ELSE srvCap

\* The capacities refreshCapLocked may set: it dials if there is no connection
\* and, if that fails, leaves the capacity alone.
RefreshedCaps(old) ==
    {AllowedCap} \cup (IF DialMayFail THEN {old} ELSE {})

Room(cap, n) == cap = 0 \/ n < cap

\* init, called by way of getClientConn when a streamer starts.
Open ==
    /\ phase = "new"
    /\ phase' = "open"
    /\ effCap' \in IF mode = "off" THEN {1} ELSE RefreshedCaps(1)
    /\ poller' = IF mode = "polling" THEN "watching" ELSE "none"
    /\ UNCHANGED <<mode, srvCap, cnt, call, cnl, cerr, ctx>>

\* The poller's select: case <-c.tkr.C.  There is no loop around it.
PollRefresh ==
    /\ poller = "watching"
    /\ poller' = "gone"
    /\ effCap' \in RefreshedCaps(effCap)
    /\ call' = IF Notifies(effCap, effCap') THEN Broadcast(call) ELSE call
    /\ UNCHANGED <<mode, phase, srvCap, cnt, cnl, cerr, ctx>>

\* The poller's select: case <-c.ctl.
PollerStops ==
    /\ poller = "watching" /\ phase = "closed"
    /\ poller' = "gone"
    /\ UNCHANGED <<mode, phase, srvCap, effCap, cnt, call, cnl, cerr, ctx>>

\* Close, called once by the streamer that owns the client.
Close ==
    /\ phase = "open"
    /\ phase' = "closed"
    /\ UNCHANGED <<mode, srvCap, effCap, cnt, call, cnl, cerr, ctx, poller>>

-----------------------------------------------------------------------------
(* ReservedStream *)

\* A call goes to sleep; its first time it starts the cancel goroutine.
Sleeps(c, pcs) ==
    /\ call' = [pcs EXCEPT ![c] = "waiting"]
    /\ cnl' = IF c \in Cancellable /\ cnl[c] = "none"
              THEN [cnl EXCEPT ![c] = "watching"] ELSE cnl
    /\ UNCHANGED cnt

Takes(c, pcs) ==
    /\ call' = [pcs EXCEPT ![c] = "holding"]
    /\ cnt' = cnt + 1
    /\ UNCHANGED cnl

\* From the call to its first test of the condition, refresh included.
Reserve(c) ==
    /\ phase = "open" /\ call[c] = "idle"
    /\ effCap' \in IF mode = "precise" THEN RefreshedCaps(effCap) ELSE {effCap}
    /\ LET pcs == IF Notifies(effCap, effCap') THEN Broadcast(call) ELSE call
       IN  IF Room(effCap', cnt) THEN Takes(c, pcs) ELSE Sleeps(c, pcs)
    /\ UNCHANGED <<mode, phase, srvCap, cerr, ctx, poller>>

\* Mutant: the condition is tested by an if, not by a loop.
WakesOnce(c) ==
    /\ call[c] = "woken"
    /\ IF cerr[c]
       THEN call' = [call EXCEPT ![c] = "cancelled"] /\ UNCHANGED <<cnt, cnl>>
       ELSE Takes(c, call)
    /\ UNCHANGED <<mode, phase, srvCap, effCap, cerr, ctx, poller>>

\* Mutant: a cancelled call keeps the stream it woke for.
WakesCounting(c) ==
    /\ call[c] = "woken"
    /\ IF Room(effCap, cnt) \/ cerr[c]
       THEN /\ call' = [call EXCEPT ![c] = IF cerr[c] THEN "cancelled"
                                         ELSE "holding"]
            /\ cnt' = cnt + 1 /\ UNCHANGED cnl
       ELSE Sleeps(c, call)
    /\ UNCHANGED <<mode, phase, srvCap, effCap, cerr, ctx, poller>>

\* cond.Wait returns and the loop's condition is tested again.
Wakes(c) ==
    /\ call[c] = "woken"
    /\ IF cerr[c]
       THEN call' = [call EXCEPT ![c] = "cancelled"] /\ UNCHANGED <<cnt, cnl>>
       ELSE IF Room(effCap, cnt) THEN Takes(c, call) ELSE Sleeps(c, call)
    /\ UNCHANGED <<mode, phase, srvCap, effCap, cerr, ctx, poller>>

\* HTTP2Stream.Close, at the end of the roundtrip.
Release(c) ==
    /\ call[c] = "holding"
    /\ cnt' = IF cnt > 0 THEN cnt - 1 ELSE cnt
    /\ LET pcs == [call EXCEPT ![c] = "released"]
       IN  call' = IF cnt > 0 /\ cnt' < effCap THEN Broadcast(pcs) ELSE pcs
    /\ UNCHANGED <<mode, phase, srvCap, effCap, cnl, cerr, ctx, poller>>

-----------------------------------------------------------------------------
(* The cancel goroutine of a call *)

CancelStep(c, from, to) ==
    /\ cnl[c] = from
    /\ cnl' = [cnl EXCEPT ![c] = to]
    /\ UNCHANGED <<mode, phase, srvCap, effCap, cnt, ctx, poller>>

\* cancel returns the error of the context.
CancelFires(c) ==
    /\ ctx[c]
    /\ CancelStep(c, "watching", "fired")
    /\ UNCHANGED <<call, cerr>>

\* Mutant: done is never closed.
CancelNeverEnds(c) == FALSE

\* cancel returns nil: done is closed, ReservedStream has returned.
CancelEnds(c) ==
    /\ call[c] \notin {"waiting", "woken"}
    /\ CancelStep(c, "watching", "gone")
    /\ UNCHANGED <<call, cerr>>

CancelStores(c) ==
    /\ CancelStep(c, "fired", "stored")
    /\ cerr' = [cerr EXCEPT ![c] = TRUE]
    /\ UNCHANGED call

\* Mutant: the waiting calls are not woken.
CancelSilent(c) ==
    /\ CancelStep(c, "stored", "gone")
    /\ UNCHANGED <<call, cerr>>

\* The Broadcast is outside the lock.
CancelBroadcasts(c) ==
    /\ CancelStep(c, "stored", "gone")
    /\ call' = Broadcast(call)
    /\ UNCHANGED cerr

-----------------------------------------------------------------------------
(* The environment *)

\* The application cancels a context.
CancelContext(c) ==
    /\ c \in Cancellable /\ ~ctx[c]
    /\ ctx' = [ctx EXCEPT ![c] = TRUE]
    /\ UNCHANGED <<mode, phase, srvCap, effCap, cnt, call, cnl, cerr, poller>>

\* The server's SETTINGS, a GOAWAY or a new connection.
ServerChanges ==
    /\ srvCap' \in ServerCaps \ {srvCap}
    /\ UNCHANGED <<mode, phase, effCap, cnt, call, cnl, cerr, ctx, poller>>

-----------------------------------------------------------------------------
Canceller(c) ==
    CancelFires(c) \/ CancelEnds(c) \/ CancelStores(c) \/ CancelBroadcasts(c)

Next ==
    \/ Open \/ Close \/ PollRefresh \/ PollerStops \/ ServerChanges
    \/ \E c \in Calls : \/ Reserve(c) \/ Wakes(c) \/ Release(c)
                        \/ Canceller(c) \/ CancelContext(c)

(***************************************************************************)
(* Fairness: goroutines that can run do, sync.Mutex lets no waiter starve, *)
(* and the ticker ticks.  Nothing is assumed of the server, of Close, of   *)
(* contexts being cancelled, or of roundtrips giving their streams back.   *)
(***************************************************************************)
Fairness ==
    /\ WF_vars(PollRefresh \/ PollerStops)
    /\ \A c \in Calls : WF_vars(Wakes(c)) /\ WF_vars(Canceller(c))

Spec == Init /\ [][Next]_vars /\ Fairness

-----------------------------------------------------------------------------
TypeOK ==
    /\ mode \in Mode /\ phase \in {"new", "open", "closed"}
    /\ srvCap \in ServerCaps /\ effCap \in 0..CfgCap \cup {0, 1} /\ cnt \in Nat
    /\ call \in [Calls -> CallPC]
    /\ cnl \in [Calls -> CnlPC]
    /\ cerr \in [Calls -> BOOLEAN] /\ ctx \in [Calls -> BOOLEAN]
    /\ poller \in {"none", "watching", "gone"}

Holding == {c \in Calls : call[c] = "holding"}

\* The count is exactly the streams that were reserved and not yet closed,
\* through cancellations, refreshes and wake-ups.
CountsHolders == cnt = Cardinality(Holding)

\* No wake-up is lost: a call sleeps only while there is really no stream for it
\* and its context is not cancelled, or a Broadcast is about to come.
NoLostWakeup ==
    \A c \in Calls : call[c] = "waiting" =>
        /\ ~Room(effCap, cnt)
        /\ cerr[c] => cnl[c] = "stored"

\* A stream is handed out only within the capacity at that moment, however many
\* calls were woken for it.
WithinCapacity ==
    [][cnt' > cnt => cnt' = cnt + 1 /\ Room(effCap', cnt)]_vars

\* If every roundtrip ends, every call that waits gets a stream or the error of
\* its context.
WaitersReturn ==
    (\A c \in Calls : []<>(call[c] # "holding"))
      => \A c \in Calls : []<>(call[c] \notin {"waiting", "woken"})

\* No cancel goroutine outlives its call for good.
CancellersEnd ==
    \A c \in Calls :
        call[c] \in {"holding", "cancelled"} ~> cnl[c] \in {"none", "gone"}

\* A call whose context is cancelled returns even if no stream ever becomes free.
CancelledReturns ==
    \A c \in Calls :
        ctx[c] /\ call[c] = "waiting" ~> call[c] \notin {"waiting", "woken"}

=============================================================================
