------------------------------ MODULE Delivery ------------------------------
(***************************************************************************)
(* The way of a request through the client, from the submitter to a        *)
(* streamer, through its roundtrip, and to its callback or, by way of the  *)
(* retry forwarder, back to the submitter (client.go, streamer.go,         *)
(* dispatch.go), with both shutdowns.                                      *)
(*                                                                         *)
(* The state is where each request is.  A goroutine that holds a request   *)
(* is busy with it; so the submitter, the streamer, the forwarder and the  *)
(* buffered forwarder are idle when no request is at their place.  Buffers *)
(* are the sets of the requests in them: the order is left out.            *)
(*                                                                         *)
(* There is one connection at a time.  A streamer that quits is replaced   *)
(* by the next, numbered by gen; its roundtrips stay behind.  Governor has *)
(* the launch, its failures and several connections.                       *)
(***************************************************************************)
EXTENDS Integers, FiniteSets, Sequences

CONSTANTS
    Requests,
    Silent,      \* requests without a callback, their own or the client's
    Own,         \* requests with a callback channel of their own
    Refusable,   \* requests that may lack credentials or be cancelled
    RetryCap,    \* capacity of governor.retry: 100 in the code
    BufSize,     \* bufSize in runRetryForwarder: 500 in the code
    MaxRetries,  \* ProcCfg.MaxRetries
    Outcomes,    \* what may become of each request's roundtrip, see Outcome
    Scenarios    \* what the application may do, see Scenario

(***************************************************************************)
(* What submit returns: a response of the service, one that rejects the    *)
(* connection (idle timeout, bad certificate), one whose body cannot be    *)
(* decoded, an error in the request, or an error of http.Client.Do.        *)
(***************************************************************************)
Outcome == {"response", "connRejected", "badBody", "requestError",
            "transportError"}

(***************************************************************************)
(* The requests that the application submits, the calls of Stop and Kill   *)
(* that it may make, and the roundtrips that a connection carries at a     *)
(* time.                                                                   *)
(***************************************************************************)
Scenario == [requests : SUBSET Requests,
             shutdowns : SUBSET {"stop", "kill"},
             streams : Nat \ {0}]

ASSUME RequestsAssumption ==
    /\ IsFiniteSet(Requests)
    /\ Silent \subseteq Requests /\ Own \subseteq Requests
    /\ Silent \cap Own = {} /\ Refusable \subseteq Requests
ASSUME CapacitiesAssumption ==
    /\ MaxRetries \in Nat \ {0}
    /\ RetryCap \in Nat \ {0} /\ BufSize \in Nat \ {0}
ASSUME ChoicesAssumption ==
    Outcomes \in [Requests -> SUBSET Outcome] /\ Scenarios \subseteq Scenario

VARIABLES
    scenario,  \* the one of Scenarios that this is
    loc,       \* where each request is: see Place
    attempts,  \* Request.attemptCnt
    outcome,   \* what submit last returned, or that exec refused the request
    owner,     \* the streamer that was given the request last
    answers,   \* how often callBack has delivered a result
    dropped,   \* the requests whose result a blocked callBack gave up
    gen,       \* number of the current streamer
    spc,       \* its run goroutine
    sctl,      \* its ctl channel is closed
    fwd,       \* runRetryForwarder
    bf,        \* bufferedForwarder
    sub,       \* runSubmitter
    cctl,      \* Client.cctl is closed
    gctl,      \* Client.gctl, and with it Client.ctl, is closed
    outClosed, \* Client.out is closed
    callbackClosed,  \* Client.Callback is closed
    stopping,  \* a Stop was accepted
    panicked   \* a goroutine sent on a closed channel

noteVars == <<scenario, attempts, outcome, owner, answers, dropped>>
reqVars == <<loc, noteVars>>
strVars == <<gen, spc, sctl>>
fwdVars == <<fwd, bf>>
ctlVars == <<sub, cctl, gctl, outClosed, callbackClosed, stopping>>
vars == <<reqVars, strVars, fwdVars, ctlVars, panicked>>

(***************************************************************************)
(* unsent       never submitted                                            *)
(* queued       with the application, in Queue                             *)
(* submitting   in the submitter's submit                                  *)
(* reserving    in the streamer's exec                                     *)
(* inflight     in the roundtrip's submit                                  *)
(* toRetry      in the roundtrip's send on governor.retry                  *)
(* nilRetry     the same, on the channel that was not yet made             *)
(* retryCh      in governor.retry                                          *)
(* forwarding   in the forwarder's send on buf                             *)
(* buffered     in buf                                                     *)
(* resubmitting in the buffered forwarder's send on Client.retry           *)
(* answering    in callBack                                                *)
(* blocked      in callBack's second select                                *)
(* signalling   answered, and the roundtrip found its connection unusable  *)
(* done         answered; the roundtrip is over                            *)
(* lost         given up by a goroutine that a shutdown has ended          *)
(***************************************************************************)
Place == {"unsent", "queued", "submitting", "reserving", "inflight",
          "toRetry", "nilRetry", "retryCh", "forwarding", "buffered",
          "resubmitting", "answering", "blocked", "signalling", "done", "lost"}

At(place) == {r \in Requests : loc[r] = place}

TypeOK ==
    /\ scenario \in Scenarios
    /\ loc \in [Requests -> Place]
    /\ attempts \in [Requests -> 0..MaxRetries]
    /\ outcome \in [Requests -> Outcome \cup {"none", "refused"}]
    /\ owner \in [Requests -> Nat]
    /\ answers \in [Requests -> Nat]
    /\ dropped \subseteq Requests
    /\ gen \in Nat
    /\ spc \in {"running", "draining", "quitting", "ended", "terminated",
                "abandoned"}
    /\ fwd \in {"starting", "running", "stopped"}
    /\ bf \in {"none", "running", "stopped"}
    /\ sub \in {"running", "closed"}
    /\ {sctl, cctl, gctl, outClosed, callbackClosed, stopping, panicked}
         \subseteq BOOLEAN

Init ==
    /\ scenario \in Scenarios
    /\ loc = [r \in Requests |->
                IF r \in scenario.requests THEN "queued" ELSE "unsent"]
    /\ attempts = [r \in Requests |-> 0]
    /\ outcome = [r \in Requests |-> "none"]
    /\ owner = [r \in Requests |-> 0]
    /\ answers = [r \in Requests |-> 0]
    /\ dropped = {}
    /\ gen = 0 /\ spc = "running" /\ sctl = FALSE
    /\ fwd = "starting" /\ bf = "none" /\ sub = "running"
    /\ cctl = FALSE /\ gctl = FALSE /\ outClosed = FALSE
    /\ callbackClosed = FALSE /\ stopping = FALSE /\ panicked = FALSE

Move(r, place) == loc' = [loc EXCEPT ![r] = place]

-----------------------------------------------------------------------------
(* The submitter *)

SubIdle == sub = "running" /\ At("submitting") = {}

\* case req, ok := <-c.Queue, or case req := <-c.retry with the buffered
\* forwarder's request.
SubTakes(r) ==
    /\ SubIdle /\ loc[r] \in {"queued", "resubmitting"}
    /\ Move(r, "submitting")
    /\ UNCHANGED <<noteVars, strVars, fwdVars, ctlVars, panicked>>

\* case <-c.cctl in submit: ErrPushInterrupted, which nobody looks at.
SubInterrupted(r) ==
    /\ loc[r] = "submitting" /\ cctl
    /\ Move(r, "lost")
    /\ UNCHANGED <<noteVars, strVars, fwdVars, ctlVars, panicked>>

\* case <-c.cctl in runSubmitter.
SubCloses ==
    /\ SubIdle /\ cctl
    /\ sub' = "closed"
    /\ UNCHANGED <<reqVars, strVars, fwdVars, cctl, gctl, outClosed,
                   callbackClosed, stopping, panicked>>

-----------------------------------------------------------------------------
(* The streamer *)

\* Requests that the streamer's own goroutine is busy with.
InExec ==
    {r \in Requests : \/ loc[r] = "reserving"
                      \/ outcome[r] = "refused" /\ loc[r] \in {"answering",
                                                               "blocked"}}

InSelect == spc = "running" /\ InExec = {}

\* The roundtrips of the streamer g: each holds a stream and counts in s.wg.
Roundtrips(g) ==
    {r \in Requests : /\ owner[r] = g /\ outcome[r] # "refused"
                      /\ loc[r] \in {"inflight", "toRetry", "nilRetry",
                                     "answering", "blocked", "signalling"}}

\* case req, ok := <-s.in meets the send of submit.
Handover(r) ==
    /\ InSelect /\ loc[r] = "submitting" /\ ~outClosed
    /\ Move(r, "reserving")
    /\ owner' = [owner EXCEPT ![r] = gen]
    /\ outcome' = [outcome EXCEPT ![r] = "none"]
    /\ UNCHANGED <<scenario, attempts, answers, dropped, strVars, fwdVars,
                   ctlVars, panicked>>

\* exec answers by itself: ErrMissingAuth, ErrCanceled, or a reservation that
\* was cancelled.
ExecRefuses(r) ==
    /\ loc[r] = "reserving" /\ r \in Refusable
    /\ Move(r, "answering")
    /\ outcome' = [outcome EXCEPT ![r] = "refused"]
    /\ UNCHANGED <<scenario, attempts, owner, answers, dropped, strVars,
                   fwdVars, ctlVars, panicked>>

\* ReservedStream returns, and the roundtrip's goroutine is spawned.
Spawn(r) ==
    /\ loc[r] = "reserving" /\ Cardinality(Roundtrips(gen)) < scenario.streams
    /\ Move(r, "inflight")
    /\ UNCHANGED <<noteVars, strVars, fwdVars, ctlVars, panicked>>

\* Mutant: inClosed is not set, and the governor does not see a soft stop.
SeeInClosedUnsaid ==
    /\ InSelect /\ outClosed
    /\ spc' = "terminated"
    /\ UNCHANGED <<reqVars, gen, sctl, fwdVars, ctlVars, panicked>>

SeeInClosed ==
    /\ InSelect /\ outClosed
    /\ spc' = "draining"
    /\ UNCHANGED <<reqVars, gen, sctl, fwdVars, ctlVars, panicked>>

\* Mutant: s.wg.Wait is missing.
DrainedAtOnce ==
    /\ spc = "draining"
    /\ spc' = "ended"
    /\ UNCHANGED <<reqVars, gen, sctl, fwdVars, ctlVars, panicked>>

\* s.wg.Wait returns; the governor receives the exit and ends.
Drained ==
    /\ spc = "draining" /\ Roundtrips(gen) = {}
    /\ spc' = "ended"
    /\ UNCHANGED <<reqVars, gen, sctl, fwdVars, ctlVars, panicked>>

\* case _, ok := <-s.ctl with the channel closed.
SeeCtlClosed ==
    /\ InSelect /\ sctl
    /\ spc' = "terminated"
    /\ UNCHANGED <<reqVars, gen, sctl, fwdVars, ctlVars, panicked>>

\* Mutant: the governor does not replace a streamer that quit.
RelaunchForgotten ==
    /\ spc = "quitting" /\ ~sctl
    /\ spc' = "terminated"
    /\ UNCHANGED <<reqVars, gen, sctl, fwdVars, ctlVars, panicked>>

\* The governor receives a streamer that quit and launches the next one.
Relaunch ==
    /\ spc = "quitting" /\ ~sctl
    /\ gen' = gen + 1
    /\ spc' = "running"
    /\ UNCHANGED <<reqVars, sctl, fwdVars, ctlVars, panicked>>

-----------------------------------------------------------------------------
(* Roundtrips *)

\* isRetriable: an error without a response is not retriable.  Only a response
\* that cannot be decoded has both.  RetryEval may say what it likes.
Retriable(o) == o = "badBody"

\* isConnUsable
Unusable == {"connRejected", "transportError"}

\* submit returns and the result is not to be retried.
Returns(r, o) ==
    /\ loc[r] = "inflight"
    /\ outcome' = [outcome EXCEPT ![r] = o]
    /\ Move(r, "answering")
    /\ UNCHANGED <<scenario, attempts, owner, answers, dropped, strVars,
                   fwdVars, ctlVars, panicked>>

\* Mutant: the roundtrip that asks for a retry answers too.
RetriesAnswering(r, o) ==
    /\ loc[r] = "inflight" /\ Retriable(o) /\ attempts[r] < MaxRetries
    /\ attempts' = [attempts EXCEPT ![r] = @ + 1]
    /\ answers' = [answers EXCEPT ![r] = @ + 1]
    /\ outcome' = [outcome EXCEPT ![r] = o]
    /\ Move(r, IF fwd = "starting" THEN "nilRetry" ELSE "toRetry")
    /\ UNCHANGED <<scenario, owner, dropped, strVars, fwdVars, ctlVars,
                   panicked>>

\* Mutant: attemptCnt is not incremented.
RetriesUncounted(r, o) ==
    /\ loc[r] = "inflight" /\ Retriable(o) /\ attempts[r] < MaxRetries
    /\ outcome' = [outcome EXCEPT ![r] = o]
    /\ Move(r, IF fwd = "starting" THEN "nilRetry" ELSE "toRetry")
    /\ UNCHANGED <<scenario, attempts, owner, answers, dropped, strVars,
                   fwdVars, ctlVars, panicked>>

\* submit returns and the request is to be retried: the roundtrip reads
\* governor.retry, which is nil until the forwarder has made it.
Retries(r, o) ==
    /\ loc[r] = "inflight" /\ Retriable(o) /\ attempts[r] < MaxRetries
    /\ attempts' = [attempts EXCEPT ![r] = @ + 1]
    /\ outcome' = [outcome EXCEPT ![r] = o]
    /\ Move(r, IF fwd = "starting" THEN "nilRetry" ELSE "toRetry")
    /\ UNCHANGED <<scenario, owner, answers, dropped, strVars, fwdVars,
                   ctlVars, panicked>>

\* s.gov.retry <- req, and the roundtrip ends.
RetrySent(r) ==
    /\ loc[r] = "toRetry" /\ Cardinality(At("retryCh")) < RetryCap
    /\ Move(r, "retryCh")
    /\ UNCHANGED <<noteVars, strVars, fwdVars, ctlVars, panicked>>

\* Where a request goes when its callBack returns.
AfterCallBack(r) == IF outcome[r] \in Unusable THEN "signalling" ELSE "done"

\* The result would go to the client's Callback after Stop has closed it.
ToClosed(r) == callbackClosed /\ r \notin Own \cup Silent

\* The result is delivered, at once or after a wait; or nobody wants it.
Delivers(r) ==
    /\ loc[r] \in {"answering", "blocked"} /\ ~ToClosed(r)
    /\ Move(r, AfterCallBack(r))
    /\ answers' = [answers EXCEPT ![r] = @ + 1]
    /\ UNCHANGED <<scenario, attempts, outcome, owner, dropped, strVars,
                   fwdVars, ctlVars, panicked>>

DeliveryPanics(r) ==
    /\ loc[r] \in {"answering", "blocked"} /\ ToClosed(r)
    /\ panicked' = TRUE
    /\ UNCHANGED <<reqVars, strVars, fwdVars, ctlVars>>

DeliveryBlocks(r) ==
    /\ loc[r] = "answering" /\ r \notin Silent /\ ~ToClosed(r)
    /\ Move(r, "blocked")
    /\ UNCHANGED <<noteVars, strVars, fwdVars, ctlVars, panicked>>

\* The governor has closed the ctl channel of r's streamer.
CtlClosed(r) == sctl /\ owner[r] = gen

\* Mutant: the second select of callBack has a default case.
GivesUpAtOnce(r) ==
    /\ loc[r] = "blocked"
    /\ Move(r, AfterCallBack(r))
    /\ dropped' = dropped \cup {r}
    /\ UNCHANGED <<scenario, attempts, outcome, owner, answers, strVars,
                   fwdVars, ctlVars, panicked>>

\* case <-s.ctl in callBack, with the channel closed.
GivesUp(r) ==
    /\ loc[r] = "blocked" /\ CtlClosed(r)
    /\ Move(r, AfterCallBack(r))
    /\ dropped' = dropped \cup {r}
    /\ UNCHANGED <<scenario, attempts, outcome, owner, answers, strVars,
                   fwdVars, ctlVars, panicked>>

(***************************************************************************)
(* The signal that the connection is unusable is sent on the streamer's    *)
(* ctl if a goroutine is receiving there: the streamer in its select, the  *)
(* streamer that is leaving, or a blocked callBack.  A goroutine may be    *)
(* about to receive, so that the signal can always be missed.              *)
(***************************************************************************)
Signals(x) == loc[x] = "signalling" /\ ~CtlClosed(x)

SignalMissed(x) ==
    /\ Signals(x)
    /\ Move(x, "done")
    /\ UNCHANGED <<noteVars, strVars, fwdVars, ctlVars, panicked>>

SignalQuits(x) ==
    /\ Signals(x) /\ owner[x] = gen /\ InSelect
    /\ Move(x, "done")
    /\ spc' = "quitting"
    /\ UNCHANGED <<noteVars, gen, sctl, fwdVars, ctlVars, panicked>>

\* The streamer's second select takes it for the hard stop.
SignalAbandons(x) ==
    /\ Signals(x) /\ owner[x] = gen /\ spc = "quitting"
    /\ Move(x, "done")
    /\ spc' = "abandoned"
    /\ UNCHANGED <<noteVars, gen, sctl, fwdVars, ctlVars, panicked>>

\* A blocked callBack of the same streamer takes it and drops its result.
SignalDrops(x, r) ==
    /\ Signals(x) /\ loc[r] = "blocked" /\ owner[r] = owner[x]
    /\ loc' = [loc EXCEPT ![x] = "done", ![r] = AfterCallBack(r)]
    /\ dropped' = dropped \cup {r}
    /\ UNCHANGED <<scenario, attempts, outcome, owner, answers, strVars,
                   fwdVars, ctlVars, panicked>>

SignalPanics(x) ==
    /\ loc[x] = "signalling" /\ CtlClosed(x)
    /\ panicked' = TRUE
    /\ UNCHANGED <<reqVars, strVars, fwdVars, ctlVars>>

-----------------------------------------------------------------------------
(* The retry forwarder *)

\* g.retry = make(chan *Request, 100)
FwdStarts ==
    /\ fwd = "starting"
    /\ fwd' = "running"
    /\ UNCHANGED <<reqVars, strVars, bf, ctlVars, panicked>>

FwdIdle == fwd = "running" /\ At("forwarding") = {}

\* case req := <-g.retry; the first one starts the buffered forwarder.  cnt is
\* never incremented, so that there is never a second one.
FwdTakes(r) ==
    /\ FwdIdle /\ loc[r] = "retryCh"
    /\ Move(r, "forwarding")
    /\ bf' = IF bf = "none" THEN "running" ELSE bf
    /\ UNCHANGED <<noteVars, strVars, fwd, ctlVars, panicked>>

\* buf <- req, whatever ctl says.
FwdPuts(r) ==
    /\ loc[r] = "forwarding" /\ Cardinality(At("buffered")) < BufSize
    /\ Move(r, "buffered")
    /\ UNCHANGED <<noteVars, strVars, fwdVars, ctlVars, panicked>>

\* Mutant: the forwarder listens to the client's cctl.
FwdStopsOnCctl ==
    /\ FwdIdle /\ cctl
    /\ fwd' = "stopped"
    /\ UNCHANGED <<reqVars, strVars, bf, ctlVars, panicked>>

\* case <-g.ctl
FwdStops ==
    /\ FwdIdle /\ gctl
    /\ fwd' = "stopped"
    /\ UNCHANGED <<reqVars, strVars, bf, ctlVars, panicked>>

BfIdle == bf = "running" /\ At("resubmitting") = {}

BfTakes(r) ==
    /\ BfIdle /\ loc[r] = "buffered"
    /\ Move(r, "resubmitting")
    /\ UNCHANGED <<noteVars, strVars, fwdVars, ctlVars, panicked>>

\* case <-ctl, in either select; the request it holds is given up.
BfStops ==
    /\ bf = "running" /\ gctl
    /\ bf' = "stopped"
    /\ loc' = [r \in Requests |->
                 IF loc[r] = "resubmitting" THEN "lost" ELSE loc[r]]
    /\ UNCHANGED <<noteVars, strVars, fwd, ctlVars, panicked>>

-----------------------------------------------------------------------------
(* Shutdowns *)

Stop ==
    /\ "stop" \in scenario.shutdowns /\ ~cctl
    /\ cctl' = TRUE /\ stopping' = TRUE
    /\ UNCHANGED <<reqVars, strVars, fwdVars, sub, gctl, outClosed,
                   callbackClosed, panicked>>

\* c.wg.Wait(), close(c.out)
CloseOut ==
    /\ stopping /\ sub = "closed" /\ ~outClosed
    /\ outClosed' = TRUE
    /\ UNCHANGED <<reqVars, strVars, fwdVars, sub, cctl, gctl, callbackClosed,
                   stopping, panicked>>

\* case <-c.cdone or case <-c.ctl, then close(c.Callback)
CloseCallback ==
    /\ outClosed /\ ~callbackClosed
    /\ spc = "ended" \/ gctl
    /\ callbackClosed' = TRUE
    /\ UNCHANGED <<reqVars, strVars, fwdVars, sub, cctl, gctl, outClosed,
                   stopping, panicked>>

\* Once the submitter has set stateClosed a Kill is refused.
Kill ==
    /\ "kill" \in scenario.shutdowns /\ ~gctl /\ sub # "closed"
    /\ cctl' = TRUE /\ gctl' = TRUE
    /\ UNCHANGED <<reqVars, strVars, fwdVars, sub, outClosed, callbackClosed,
                   stopping, panicked>>

\* The governor closes the ctl of the streamer it has in its map.
GovernorStops ==
    /\ gctl /\ ~sctl /\ spc # "ended"
    /\ sctl' = TRUE
    /\ spc' = IF spc = "quitting" THEN "terminated" ELSE spc
    /\ UNCHANGED <<reqVars, gen, fwdVars, ctlVars, panicked>>

-----------------------------------------------------------------------------
Submitter(r) == SubTakes(r) \/ SubInterrupted(r)

CallBack(r) == Delivers(r) \/ DeliveryPanics(r) \/ GivesUp(r)

Roundtrip(r) ==
    \/ \E o \in Outcomes[r] : Returns(r, o) \/ Retries(r, o)
    \/ RetrySent(r) \/ CallBack(r)
    \/ SignalMissed(r) \/ SignalQuits(r) \/ SignalAbandons(r)
    \/ SignalPanics(r)
    \/ \E x \in Requests : SignalDrops(r, x)

Streamer == SeeInClosed \/ Drained \/ SeeCtlClosed

Governor == Relaunch \/ GovernorStops

Forwarder(r) == FwdTakes(r) \/ FwdPuts(r)

\* What the goroutines of the client do by themselves.
Work ==
    \/ \E r \in Requests :
         \/ Submitter(r) \/ Handover(r) \/ Spawn(r) \/ Roundtrip(r)
         \/ Forwarder(r) \/ BfTakes(r)
    \/ SubCloses \/ Streamer \/ Governor
    \/ FwdStarts \/ FwdStops \/ BfStops
    \/ CloseOut \/ CloseCallback

\* What the application does or leaves undone.
Application ==
    \/ \E r \in Requests : ExecRefuses(r) \/ DeliveryBlocks(r)
    \/ Stop \/ Kill

Next == ~panicked /\ (Work \/ Application)

(***************************************************************************)
(* Fairness: goroutines that can run do.  A roundtrip's submit ends by     *)
(* RequestTimeout, and a blocked callBack because the application reads    *)
(* its callbacks; that a reservation is granted when a stream is free is   *)
(* shown in HTTPClient.  Every step takes some request, goroutine or       *)
(* shutdown forward (StepsForward), so that nothing goes on for ever and   *)
(* the work as a whole need only be fair.                                  *)
(***************************************************************************)
Fairness == WF_vars(~panicked /\ Work)

Spec == Init /\ [][Next]_vars /\ Fairness

-----------------------------------------------------------------------------
\* However often a request is retried and whoever shuts down, its result is
\* delivered at most once, and a request whose result was delivered or dropped
\* is not on its way any more (exec, callBack).
AnsweredOnce ==
    \A r \in Requests :
        /\ answers[r] + (IF r \in dropped THEN 1 ELSE 0) <= 1
        /\ answers[r] > 0 \/ r \in dropped => loc[r] \in {"signalling", "done"}

\* A result is dropped only in a hard stop, or when another roundtrip of the same
\* streamer has found the connection unusable: callBack reads from ctl a signal
\* that was meant for the streamer.
DropsExplained ==
    \A r \in dropped :
        \/ gctl
        \/ \E x \in Requests \ {r} : /\ outcome[x] \in Unusable
                                     /\ owner[x] = owner[r]
                                     /\ loc[x] = "done"

\* When Stop closes Callback without a Kill, the only roundtrips left, and the
\* only ones that can panic on it, are those of streamers that quit before.
CallbackClosedLast ==
    callbackClosed /\ ~gctl =>
        \A g \in 0..gen : Roundtrips(g) # {} => g < gen

\* A request that the roundtrip cannot place because the forwarder had not yet
\* made its channel stays there for good, and its stream with it.
NilRetry == At("nilRetry") # {}

\* Every place behind the retry channel is taken: one more roundtrip that asks
\* for a retry blocks.
RingFull ==
    /\ Cardinality(At("retryCh")) = RetryCap
    /\ At("forwarding") # {} /\ Cardinality(At("buffered")) = BufSize
    /\ At("resubmitting") # {}

\* The circular wait of the retry path: the streamer waits for a stream, every
\* stream for the forwarder, the forwarder for room in the buffer, the buffered
\* forwarder for the submitter and the submitter for the streamer.
Wedged ==
    /\ RingFull
    /\ At("submitting") # {} /\ At("reserving") # {}
    /\ Cardinality(Roundtrips(gen) \cap (At("toRetry") \cup At("nilRetry")))
         = scenario.streams

\* A soft stop has ended the submitter, and nobody empties the full ring.
Jammed == RingFull /\ sub = "closed"

\* No goroutine has anything left to do: by fairness, how every behaviour ends.
StandsStill == ~panicked /\ ~ENABLED Work

\* Where a request may be, in the order in which one attempt passes through.
Route == <<"unsent", "queued", "toRetry", "nilRetry", "retryCh", "forwarding",
           "buffered", "resubmitting", "submitting", "reserving", "inflight",
           "answering", "blocked", "signalling", "done", "lost">>

Before(p, q) ==
    \E i \in DOMAIN Route : \E j \in DOMAIN Route :
        i < j /\ p = Route[i] /\ q = Route[j]

\* A request goes forward, or back at the price of one of its MaxRetries: no
\* combination of retries, quits and shutdowns keeps it going round for ever.
StepsForward ==
    [][ \A r \in Requests :
          \/ loc'[r] = loc[r] /\ attempts'[r] = attempts[r]
          \/ Before(loc[r], loc'[r]) /\ attempts'[r] = attempts[r]
          \/ attempts'[r] = attempts[r] + 1 /\ attempts'[r] <= MaxRetries ]_vars

\* A roundtrip is held up for good in the send of its retry only by a hard stop,
\* or by a full ring that nobody empties: the submitter ended by a soft stop or
\* behind a streamer that is gone, or the ring waiting for itself.
RetriesServiced ==
    At("toRetry") # {} /\ StandsStill =>
        gctl \/ Wedged \/ Jammed \/ (RingFull /\ spc = "abandoned")

Unanswered == {r \in scenario.requests : answers[r] = 0 /\ r \notin dropped}

\* Unless the application shuts down, every request it submits is answered or its
\* result dropped, through retries, refusals and any number of streamers that
\* quit; but for three ways to stop for good: a retry met the missing channel, a
\* streamer that quit took a second signal for the hard stop and is not
\* replaced, or the retry path waits for itself.
EveryRequestAnswered ==
    ~cctl /\ Unanswered # {} /\ StandsStill =>
        NilRetry \/ spc = "abandoned" \/ Wedged

\* A Stop gets through to the close of Callback, with roundtrips that retry,
\* block and quit in its way, unless a retry met the missing channel, a streamer
\* is not replaced, or the retries fill the ring that nobody empties any more.
StopCompletes ==
    stopping /\ ~callbackClosed /\ StandsStill =>
        NilRetry \/ spc = "abandoned" \/ Jammed

\* "Retry is serviced in a timely manner": the retry path never waits for itself.
NotWedged == ~Wedged

=============================================================================
