------------------------------- MODULE Client -------------------------------
(***************************************************************************)
(* The front end of apns2: Client (client.go), with its life cycle Start,  *)
(* Stop and Kill, the submitter goroutine that moves requests from Queue   *)
(* and from the retry forwarder to the streamers, and concurrent calls of  *)
(* Push.                                                                   *)
(*                                                                         *)
(* Each caller is one goroutine making one call.  A critical section of    *)
(* Client.mu is one step.  The processing pipeline behind the channel out  *)
(* is external: it receives whenever it likes, hands back requests to be   *)
(* retried, and closes cdone some time after it was told to stop.          *)
(***************************************************************************)
EXTENDS Integers, FiniteSets

CONSTANTS
    Pushers,      \* calls of Push, each with a request of its own
    NoAuth,       \* those of them that have no means of authentication
    Queued,       \* requests the application writes to Client.Queue
    Stoppers,     \* calls of Stop
    Killers,      \* calls of Kill
    MaxRetries,   \* bound: requests handed back for a retry
    HasCallback,  \* Client.Callback is neither nil nor NoCallback
    NoReq         \* no request

Requests == Pushers \cup Queued

ASSUME CallersAssumption ==
    /\ NoAuth \subseteq Pushers /\ NoReq \notin Requests
    /\ IsFiniteSet(Pushers) /\ Pushers \cap Queued = {}
ASSUME RetriesAssumption == MaxRetries \in Nat /\ HasCallback \in BOOLEAN

VARIABLES
    state,        \* Client.state
    cctl,         \* Client.cctl is closed: the submitter must stop
    gctl,         \* Client.gctl is closed: the governor must terminate
    ctl,          \* Client.ctl is closed: Stop must not wait any longer
    out,          \* Client.out is closed
    callback,     \* Client.Callback is closed
    cdone,        \* Client.cdone is closed: the pipeline is done
    push,         \* progress of each Push
    stop,         \* progress of each Stop
    kill,         \* progress of each Kill
    sub,          \* progress of the submitter
    subReq,       \* the request the submitter holds
    queue,        \* requests not yet taken from Client.Queue
    queueClosed,  \* the application has closed Client.Queue
    handed,       \* requests received by the pipeline
    dropped,      \* requests the submitter took and gave up
    retries,      \* requests handed back so far
    rateCtr,      \* Client.rateCtr
    waitCtr,      \* Client.waitCtr: ticks and tocks
    panic         \* why the process went down, or "none"

ctls == <<cctl, gctl, ctl, out, callback>>
subVars == <<sub, subReq, queue, dropped, retries>>
counters == <<rateCtr, waitCtr>>
vars == <<state, ctls, cdone, push, stop, kill, subVars, queueClosed, handed,
          counters, panic>>

stateInitial == 0
stateStarting == 1
stateRunning == 2
stateStopping == 3
stateTerminating == 4
stateClosed == 5

(***************************************************************************)
(* A sender on out is submitting (before its non-blocking send), blocked   *)
(* (that send failed, before the second select) or parked (waiting in it). *)
(***************************************************************************)
Sending == {"submitting", "blocked", "parked"}
PushPC == {"idle", "ok", "interrupted", "notRunning", "missingAuth"} \cup Sending
StopPC == {"idle", "waitSubmitter", "waitPipeline", "closing", "returned",
           "refused"}
KillPC == {"idle", "returned", "refused"}
SubPC == {"none", "starting", "select", "finishing", "closed", "done"}
         \cup Sending

Init ==
    /\ state = stateInitial
    /\ cctl = FALSE /\ gctl = FALSE /\ ctl = FALSE
    /\ out = FALSE /\ callback = FALSE /\ cdone = FALSE
    /\ push = [p \in Pushers |-> "idle"]
    /\ stop = [s \in Stoppers |-> "idle"]
    /\ kill = [k \in Killers |-> "idle"]
    /\ sub = "none" /\ subReq = NoReq
    /\ queue = Queued /\ queueClosed = FALSE
    /\ handed = {} /\ dropped = {} /\ retries = 0
    /\ rateCtr = 0 /\ waitCtr = [ticks |-> 0, tocks |-> 0]
    /\ panic = "none"

-----------------------------------------------------------------------------
(* Start, Stop and Kill *)

Start ==
    /\ state < stateStarting
    /\ state' = stateStarting
    /\ sub' = "starting"
    /\ UNCHANGED <<ctls, cdone, push, stop, kill, subReq, queue, dropped,
                   retries, queueClosed, handed, counters, panic>>

\* close of a channel: panics if Start never made it or it is closed already.
ClosePanic(closed) ==
    IF state = stateInitial THEN "close of nil channel"
    ELSE IF closed THEN "close of closed channel"
    ELSE "none"

\* close(c.cctl) wakes the senders that are parked: ErrPushInterrupted for a
\* Push; the submitter ignores the error, and its request is gone.
CloseCctl ==
    /\ cctl' = TRUE
    /\ push' = [p \in Pushers |->
                  IF push[p] = "parked" THEN "interrupted" ELSE push[p]]
    /\ waitCtr' = [waitCtr EXCEPT !.tocks =
                     @ + Cardinality({p \in Pushers : push[p] = "parked"})
                       + (IF sub = "parked" THEN 1 ELSE 0)]
    /\ IF sub = "parked"
       THEN /\ sub' = "select" /\ subReq' = NoReq
            /\ dropped' = dropped \cup {subReq}
       ELSE UNCHANGED <<sub, subReq, dropped>>

\* Mutant: off by one.
StoppingOffByOne == state > stateStopping

AlreadyStopping == state >= stateStopping

Refused(pc, c) ==
    /\ pc' = [pc EXCEPT ![c] = "refused"]
    /\ UNCHANGED <<state, ctls, push, subVars, counters, panic>>

\* Stop, up to the end of its critical section.
Stop(s) ==
    /\ stop[s] = "idle"
    /\ IF AlreadyStopping
       THEN Refused(stop, s)
       ELSE /\ state' = stateStopping
            /\ panic' = ClosePanic(cctl)
            /\ CloseCctl
            /\ stop' = [stop EXCEPT ![s] = "waitSubmitter"]
            /\ UNCHANGED <<gctl, ctl, out, callback, queue, retries, rateCtr>>
    /\ UNCHANGED <<cdone, kill, queueClosed, handed>>

\* Mutant: c.wg.Wait() is missing.
SubmitterIgnored == TRUE

SubmitterGone == sub = "done"

\* c.wg.Wait() returns and out is closed; a sender parked in its select would
\* have been woken by cctl before.
StopCloseOut(s) ==
    /\ stop[s] = "waitSubmitter"
    /\ SubmitterGone
    /\ stop' = [stop EXCEPT ![s] = "waitPipeline"]
    /\ panic' = ClosePanic(out)
    /\ out' = TRUE
    /\ UNCHANGED <<state, cctl, gctl, ctl, callback, cdone, push, kill,
                   subVars, queueClosed, handed, counters>>

\* Mutants: Stop does not wait for the pipeline; Kill does not unblock it.
PipelineIgnored == TRUE
KillIgnored == cdone

\* select on cdone and ctl
PipelineGone == cdone \/ ctl

StopPipelineDone(s) ==
    /\ stop[s] = "waitPipeline"
    /\ PipelineGone
    /\ stop' = [stop EXCEPT ![s] = "closing"]
    /\ UNCHANGED <<state, ctls, cdone, push, kill, subVars, queueClosed,
                   handed, counters, panic>>

StopReturn(s) ==
    /\ stop[s] = "closing"
    /\ stop' = [stop EXCEPT ![s] = "returned"]
    /\ callback' = (callback \/ HasCallback)
    /\ panic' = IF HasCallback THEN ClosePanic(callback) ELSE "none"
    /\ UNCHANGED <<state, cctl, gctl, ctl, out, cdone, push, kill, subVars,
                   queueClosed, handed, counters>>

Kill(k) ==
    /\ kill[k] = "idle"
    /\ IF state >= stateTerminating
       THEN Refused(kill, k)
       ELSE /\ state' = stateTerminating
            /\ IF state = stateStopping
               THEN UNCHANGED <<cctl, push, waitCtr, sub, subReq, dropped>>
               ELSE CloseCctl
            /\ panic' = ClosePanic(\/ state # stateStopping /\ cctl
                                   \/ gctl \/ ctl)
            /\ gctl' = TRUE /\ ctl' = TRUE
            /\ kill' = [kill EXCEPT ![k] = "returned"]
            /\ UNCHANGED <<out, callback, queue, retries, rateCtr>>
    /\ UNCHANGED <<cdone, stop, queueClosed, handed>>

-----------------------------------------------------------------------------
(* Push and submit *)

Ticked == [waitCtr EXCEPT !.ticks = @ + 1]
Tocked == [waitCtr EXCEPT !.tocks = @ + 1]

\* The state is read and, if it allows, submit is entered; by the time of the
\* send the state may be another one.
Push(p) ==
    /\ push[p] = "idle"
    /\ IF state < stateStarting \/ state > stateRunning
       THEN push' = [push EXCEPT ![p] = "notRunning"] /\ UNCHANGED rateCtr
       ELSE IF p \in NoAuth
       THEN push' = [push EXCEPT ![p] = "missingAuth"] /\ UNCHANGED rateCtr
       ELSE /\ push' = [push EXCEPT ![p] = "submitting"]
            /\ rateCtr' = rateCtr + 1
    /\ UNCHANGED <<state, ctls, cdone, stop, kill, subVars, queueClosed,
                   handed, waitCtr, panic>>

PushStep(p, pc) ==
    /\ push' = [push EXCEPT ![p] = pc]
    /\ UNCHANGED <<state, ctls, cdone, stop, kill, subVars, queueClosed,
                   rateCtr>>

\* case c.out <- req, in either select
PushHanded(p) ==
    /\ push[p] \in Sending /\ ~out
    /\ PushStep(p, "ok")
    /\ handed' = handed \cup {p}
    /\ waitCtr' = IF push[p] = "submitting" THEN waitCtr ELSE Tocked
    /\ UNCHANGED panic

\* default
PushBlocks(p) ==
    /\ push[p] = "submitting" /\ ~out
    /\ PushStep(p, "blocked")
    /\ waitCtr' = Ticked
    /\ UNCHANGED <<handed, panic>>

PushParks(p) ==
    /\ push[p] = "blocked" /\ ~out /\ ~cctl
    /\ PushStep(p, "parked")
    /\ UNCHANGED <<handed, waitCtr, panic>>

\* Mutants: the Tock is missing; the select has no case for cctl.
PushInterruptedUntocked(p) ==
    /\ push[p] = "blocked" /\ cctl
    /\ PushStep(p, "interrupted")
    /\ UNCHANGED <<handed, waitCtr, panic>>
PushUninterrupted(p) == FALSE

\* case <-c.cctl
PushInterrupted(p) ==
    /\ push[p] = "blocked" /\ cctl
    /\ PushStep(p, "interrupted")
    /\ waitCtr' = Tocked
    /\ UNCHANGED <<handed, panic>>

PushOnClosed(p) ==
    /\ push[p] \in {"submitting", "blocked"} /\ out
    /\ panic' = "send on closed channel"
    /\ PushStep(p, push[p])
    /\ UNCHANGED <<handed, waitCtr>>

-----------------------------------------------------------------------------
(* The submitter: runSubmitter, with submit inlined *)

\* Mutant: the state is not checked.
SubStartUnchecked ==
    /\ sub = "starting"
    /\ state' = stateRunning /\ sub' = "select"
    /\ UNCHANGED <<ctls, cdone, push, stop, kill, subReq, queue, dropped,
                   retries, queueClosed, handed, counters, panic>>

SubStart ==
    /\ sub = "starting"
    /\ IF state = stateStarting
       THEN state' = stateRunning /\ sub' = "select"
       ELSE sub' = "finishing" /\ UNCHANGED state
    /\ UNCHANGED <<ctls, cdone, push, stop, kill, subReq, queue, dropped,
                   retries, queueClosed, handed, counters, panic>>

SubTakes(r) ==
    /\ sub = "select"
    /\ sub' = "submitting" /\ subReq' = r
    /\ rateCtr' = rateCtr + 1
    /\ UNCHANGED <<state, ctls, cdone, push, stop, kill, dropped,
                   queueClosed, waitCtr, panic>>

\* case req, ok := <-c.Queue
SubRecvQueue(r) ==
    /\ SubTakes(r)
    /\ queue' = queue \ {r}
    /\ UNCHANGED <<retries, handed>>

\* case req, _ := <-c.retry
SubRecvRetry(r) ==
    /\ retries < MaxRetries
    /\ SubTakes(r)
    /\ handed' = handed \ {r}
    /\ retries' = retries + 1
    /\ UNCHANGED queue

\* Mutant: the select has no case for cctl.
LoopEndsOnQueueOnly == queueClosed /\ queue = {}

LoopEnds == cctl \/ (queueClosed /\ queue = {})

\* The loop ends: Queue is closed, or case <-c.cctl.
SubLeaves ==
    /\ sub = "select"
    /\ LoopEnds
    /\ sub' = "finishing"
    /\ UNCHANGED <<state, ctls, cdone, push, stop, kill, subReq, queue,
                   dropped, retries, queueClosed, handed, counters, panic>>

SubStep(pc) ==
    /\ sub' = pc
    /\ subReq' = IF pc = "select" THEN NoReq ELSE subReq
    /\ UNCHANGED <<state, ctls, cdone, push, stop, kill, queue, retries,
                   queueClosed, rateCtr>>

SubHanded ==
    /\ sub \in Sending /\ ~out
    /\ SubStep("select")
    /\ handed' = handed \cup {subReq}
    /\ waitCtr' = IF sub = "submitting" THEN waitCtr ELSE Tocked
    /\ UNCHANGED <<dropped, panic>>

\* Mutant: the second select is missing.
SubBlocksLosing ==
    /\ sub = "submitting"
    /\ SubStep("select")
    /\ UNCHANGED <<handed, dropped, waitCtr, panic>>

\* default; on a closed channel the send would panic instead.
SubBlocks ==
    /\ sub = "submitting"
    /\ SubStep("blocked")
    /\ waitCtr' = Ticked
    /\ panic' = IF out THEN "submitter on closed channel" ELSE "none"
    /\ UNCHANGED <<handed, dropped>>

SubParks ==
    /\ sub = "blocked" /\ ~out /\ ~cctl
    /\ SubStep("parked")
    /\ UNCHANGED <<handed, dropped, waitCtr, panic>>

\* submit returns ErrPushInterrupted, which runSubmitter ignores.
SubInterrupted ==
    /\ sub = "blocked" /\ cctl
    /\ SubStep("select")
    /\ dropped' = dropped \cup {subReq}
    /\ waitCtr' = Tocked
    /\ UNCHANGED <<handed, panic>>

\* Mutant: the state is not set.
SubCloseStateless ==
    /\ sub = "finishing"
    /\ sub' = "closed"
    /\ UNCHANGED <<state, ctls, cdone, push, stop, kill, subReq, queue,
                   dropped, retries, queueClosed, handed, counters, panic>>

\* The state is set before c.wg.Done() lets Stop go on.
SubClose ==
    /\ sub = "finishing"
    /\ sub' = "closed"
    /\ state' = stateClosed
    /\ UNCHANGED <<ctls, cdone, push, stop, kill, subReq, queue, dropped,
                   retries, queueClosed, handed, counters, panic>>

SubDone ==
    /\ sub = "closed"
    /\ sub' = "done"
    /\ UNCHANGED <<state, ctls, cdone, push, stop, kill, subReq, queue,
                   dropped, retries, queueClosed, handed, counters, panic>>

-----------------------------------------------------------------------------
(* The application and the pipeline *)

CloseQueue ==
    /\ ~queueClosed /\ queue = {}
    /\ queueClosed' = TRUE
    /\ UNCHANGED <<state, ctls, cdone, push, stop, kill, subVars, handed,
                   counters, panic>>

\* The governor closes cdone after it was stopped one way or the other.
PipelineDone ==
    /\ ~cdone /\ (out \/ gctl)
    /\ cdone' = TRUE
    /\ UNCHANGED <<state, ctls, push, stop, kill, subVars, queueClosed,
                   handed, counters, panic>>

-----------------------------------------------------------------------------
Submitter ==
    \/ SubStart \/ SubLeaves
    \/ \E r \in queue : SubRecvQueue(r)
    \/ \E r \in handed : SubRecvRetry(r)
    \/ SubHanded \/ SubBlocks \/ SubParks \/ SubInterrupted
    \/ SubClose \/ SubDone

Pusher(p) ==
    \/ Push(p) \/ PushHanded(p) \/ PushBlocks(p) \/ PushParks(p)
    \/ PushInterrupted(p) \/ PushOnClosed(p)

Stopper(s) ==
    Stop(s) \/ StopCloseOut(s) \/ StopPipelineDone(s) \/ StopReturn(s)

Next ==
    /\ panic = "none"
    /\ \/ Start \/ CloseQueue \/ PipelineDone \/ Submitter
       \/ \E p \in Pushers : Pusher(p)
       \/ \E s \in Stoppers : Stopper(s)
       \/ \E k \in Killers : Kill(k)

(***************************************************************************)
(* Fairness: a goroutine that can run does.  The submitter's select picks  *)
(* among its ready cases at random, so that it sees cctl or the closed     *)
(* Queue at last however many requests keep coming (strong fairness of     *)
(* SubLeaves).  The application need not call anything, and nothing is     *)
(* assumed here of the pipeline: it may never receive and never be done.   *)
(***************************************************************************)
Running(A) == panic = "none" /\ A

Fairness ==
    /\ SF_vars(Running(SubLeaves))
    /\ WF_vars(Running(\/ SubStart \/ SubClose \/ SubDone
                       \/ SubBlocks \/ SubInterrupted))
    /\ \A p \in Pushers :
         WF_vars(Running(PushBlocks(p) \/ PushInterrupted(p) \/ PushOnClosed(p)))
    /\ \A s \in Stoppers :
         WF_vars(Running(StopCloseOut(s) \/ StopPipelineDone(s)
                                        \/ StopReturn(s)))

Spec == Init /\ [][Next]_vars /\ Fairness

-----------------------------------------------------------------------------
TypeOK ==
    /\ state \in 0..5
    /\ cctl \in BOOLEAN /\ gctl \in BOOLEAN /\ ctl \in BOOLEAN
    /\ out \in BOOLEAN /\ callback \in BOOLEAN /\ cdone \in BOOLEAN
    /\ push \in [Pushers -> PushPC]
    /\ stop \in [Stoppers -> StopPC]
    /\ kill \in [Killers -> KillPC]
    /\ sub \in SubPC
    /\ subReq \in Requests \cup {NoReq}
    /\ queue \subseteq Queued /\ queueClosed \in BOOLEAN
    /\ handed \subseteq Requests /\ dropped \subseteq Requests
    /\ retries \in 0..MaxRetries
    /\ rateCtr \in Nat
    /\ waitCtr \in [ticks : Nat, tocks : Nat]
    /\ panic \in {"none", "close of nil channel", "close of closed channel",
                  "send on closed channel", "submitter on closed channel"}

\* However many goroutines call Stop and Kill, no channel is closed twice.
NoDoubleClose == panic # "close of closed channel"

\* The submitter never sends on out after Stop has closed it, because Stop waits
\* for the submitter first.
SubmitterSafe ==
    /\ panic # "submitter on closed channel"
    /\ out => sub = "done"

\* The client's state never goes back, although Start's submitter, Stop and Kill
\* race to set it.
StateMonotone == [][state' >= state]_vars

\* The streamers' inbound channel and the default callback are closed only by a
\* Stop that nobody refused, and the callback after the pipeline is done or the
\* client was killed.
ClosedInOrder ==
    /\ out => \E s \in Stoppers : stop[s] \in {"waitPipeline", "closing",
                                               "returned"}
    /\ callback => out /\ (cdone \/ ctl)

Contract == INSTANCE Shutdown WITH done <- cdone

\* Whatever calls of Stop and Kill race, the governor sees what it is written for:
\* out and gctl are closed once each, and gctl never after out, as a Kill that
\* comes so late finds stateClosed.
ImplementsShutdown == Contract!Spec

\* Senders blocked on out: each has made its Tick and not yet its Tock.
Waiting == {p \in Pushers : push[p] \in {"blocked", "parked"}}

\* The counter the governor scales by is always exactly the blocked senders, also
\* when a shutdown wakes several at once.
WaitsBalanced ==
    waitCtr.ticks - waitCtr.tocks =
        Cardinality(Waiting) + (IF sub \in {"blocked", "parked"} THEN 1 ELSE 0)

\* Without a Stop or a Kill no request is lost: one that came by Queue is in the
\* queue, with the submitter or handed to the pipeline, in one place at a time.
QueuedAccounted ==
    /\ \A r \in Queued :
         Cardinality({x \in {"queue", "submitter", "handed", "dropped"} :
                        \/ x = "queue" /\ r \in queue
                        \/ x = "submitter" /\ r = subReq
                        \/ x = "handed" /\ r \in handed
                        \/ x = "dropped" /\ r \in dropped}) = 1
    /\ dropped # {} => cctl

\* Once a Stop or a Kill has closed cctl, every Push that is blocked returns, even
\* if the pipeline receives nothing any more.
BlockedPushesReturn ==
    \A p \in Pushers :
        cctl /\ push[p] \in Sending
            ~> push[p] \notin Sending \/ panic # "none"

\* A Stop gets past its wait for the submitter and out is closed, even if the
\* pipeline receives nothing.
StopReachesPipeline ==
    \A s \in Stoppers :
        stop[s] = "waitSubmitter" ~> out \/ panic # "none"

\* A Kill that was accepted unblocks every pending Stop, also one that still waits
\* for a submitter blocked on out, with a pipeline that receives nothing and is
\* never done.
AcceptedKillUnblocksStop ==
    \A s \in Stoppers :
        ctl /\ stop[s] \in {"waitSubmitter", "waitPipeline"}
            ~> stop[s] = "returned" \/ panic # "none"

-----------------------------------------------------------------------------
(* What the comments promise and the code does not keep *)

\* "It is safe to use one client in concurrent goroutines and issue concurrent
\* push requests": no Push sends on a closed channel.
PushIsSafe == panic # "send on closed channel"

\* "unblock pending Stop() if there's one": after a call of Kill no Stop waits.
KillUnblocksStop ==
    \A k \in Killers, s \in Stoppers :
        kill[k] # "idle" /\ stop[s] = "waitPipeline"
            ~> stop[s] # "waitPipeline" \/ panic # "none"

=============================================================================
