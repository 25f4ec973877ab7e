--------------------------- MODULE DeliveryProofs ---------------------------
(***************************************************************************)
(* Proofs of the safety of the way of a request, for any number of         *)
(* requests, retries, streams and streamers.  A result is delivered or     *)
(* dropped only where a request leaves callBack, and from there it goes    *)
(* nowhere else (OnceStep).  What is dropped without a hard stop was       *)
(* dropped for a signal (DropsStep).  The streamer that ends a soft stop   *)
(* was in nobody's exec and has no roundtrip left, so that it cannot get   *)
(* one any more (EndStep).  Every step takes requests along Route or       *)
(* spends a retry (ForwardStep).                                           *)
(***************************************************************************)
EXTENDS Delivery, TLAPS

USE RequestsAssumption, CapacitiesAssumption, ChoicesAssumption
  DEF RequestsAssumption, CapacitiesAssumption, ChoicesAssumption

-----------------------------------------------------------------------------
(* Type correctness *)

LEMMA TypeStep ==
    ASSUME TypeOK, [Next]_vars
    PROVE  TypeOK'
<1> USE DEF TypeOK, Place, Outcome, Move, AfterCallBack,
           noteVars, reqVars, strVars, fwdVars, ctlVars
<1>1. ASSUME NEW r \in Requests, Submitter(r)
      PROVE  TypeOK'
  BY <1>1 DEF Submitter, SubTakes, SubInterrupted
<1>2. ASSUME NEW r \in Requests, Handover(r) \/ ExecRefuses(r) \/ Spawn(r)
      PROVE  TypeOK'
  BY <1>2 DEF Handover, ExecRefuses, Spawn
<1>3. ASSUME NEW r \in Requests, NEW o \in Outcomes[r],
             Returns(r, o) \/ Retries(r, o)
      PROVE  TypeOK'
  BY <1>3 DEF Returns, Retries
<1>4. ASSUME NEW r \in Requests, RetrySent(r) \/ DeliveryBlocks(r)
      PROVE  TypeOK'
  BY <1>4 DEF RetrySent, DeliveryBlocks
<1>5. ASSUME NEW r \in Requests, CallBack(r)
      PROVE  TypeOK'
  <2>1. CASE Delivers(r)
    BY <2>1 DEF Delivers
  <2>2. CASE DeliveryPanics(r)
    BY <2>2 DEF DeliveryPanics
  <2>3. CASE GivesUp(r)
    BY <2>3 DEF GivesUp
  <2> QED
    BY <1>5, <2>1, <2>2, <2>3 DEF CallBack
<1>6. ASSUME NEW r \in Requests,
             \/ SignalMissed(r) \/ SignalQuits(r)
             \/ SignalAbandons(r) \/ SignalPanics(r)
      PROVE  TypeOK'
  BY <1>6 DEF SignalMissed, SignalQuits, SignalAbandons,
     SignalPanics, Signals
<1>7. ASSUME NEW x \in Requests, NEW r \in Requests,
             SignalDrops(x, r)
      PROVE  TypeOK'
  BY <1>7 DEF SignalDrops, Signals
<1>8. ASSUME NEW r \in Requests, Forwarder(r) \/ BfTakes(r)
      PROVE  TypeOK'
  BY <1>8 DEF Forwarder, FwdTakes, FwdPuts, BfTakes
<1>9. CASE SubCloses \/ Streamer
  BY <1>9 DEF SubCloses, Streamer, SeeInClosed, Drained, SeeCtlClosed
<1>10. CASE Governor
  <2>1. CASE Relaunch
    BY <2>1 DEF Relaunch
  <2>2. CASE GovernorStops
    BY <2>2 DEF GovernorStops
  <2> QED
    BY <1>10, <2>1, <2>2 DEF Governor
<1>11. CASE FwdStarts \/ FwdStops \/ BfStops
  BY <1>11 DEF FwdStarts, FwdStops, BfStops
<1>12. CASE Stop \/ CloseOut \/ CloseCallback \/ Kill
  BY <1>12 DEF Stop, CloseOut, CloseCallback, Kill
<1>13. CASE UNCHANGED vars
  BY <1>13 DEF vars
<1> QED
  BY <1>1, <1>2, <1>3, <1>4, <1>5, <1>6, <1>7, <1>8, <1>9,
     <1>10, <1>11, <1>12, <1>13 DEF Next, Work, Application, Roundtrip

\* Requests are always at a place of their way, and are never tried more than
\* MaxRetries times again.
THEOREM TypeCorrect == Spec => []TypeOK
<1>1. Init => TypeOK
  <2> SUFFICES ASSUME Init
               PROVE  TypeOK
    OBVIOUS
  <2>1. {sctl, cctl, gctl, outClosed, callbackClosed, stopping, panicked}
          \subseteq BOOLEAN
    BY Zenon DEF Init
  <2>2. attempts \in [Requests -> 0..MaxRetries]
    BY DEF Init
  <2> QED
    BY <2>1, <2>2 DEF Init, TypeOK, Place
<1> QED
  BY <1>1, TypeStep, PTL DEF Spec

-----------------------------------------------------------------------------
(* One answer *)

LEMMA OnceStep ==
    ASSUME TypeOK, AnsweredOnce, [Next]_vars
    PROVE  AnsweredOnce'
<1> USE DEF TypeOK, AnsweredOnce, Move, AfterCallBack,
           noteVars, reqVars, strVars, fwdVars, ctlVars
<1>1. ASSUME NEW r \in Requests, Submitter(r)
      PROVE  AnsweredOnce'
  BY <1>1 DEF Submitter, SubTakes, SubInterrupted
<1>2. ASSUME NEW r \in Requests, Handover(r) \/ ExecRefuses(r) \/ Spawn(r)
      PROVE  AnsweredOnce'
  BY <1>2 DEF Handover, ExecRefuses, Spawn
<1>3. ASSUME NEW r \in Requests, NEW o \in Outcomes[r],
             Returns(r, o) \/ Retries(r, o)
      PROVE  AnsweredOnce'
  BY <1>3 DEF Returns, Retries
<1>4. ASSUME NEW r \in Requests, RetrySent(r) \/ DeliveryBlocks(r)
      PROVE  AnsweredOnce'
  BY <1>4 DEF RetrySent, DeliveryBlocks
<1>5. ASSUME NEW r \in Requests, CallBack(r)
      PROVE  AnsweredOnce'
  BY <1>5 DEF CallBack, Delivers, DeliveryPanics, GivesUp
<1>6. ASSUME NEW r \in Requests,
             \/ SignalMissed(r) \/ SignalQuits(r)
             \/ SignalAbandons(r) \/ SignalPanics(r)
      PROVE  AnsweredOnce'
  BY <1>6 DEF SignalMissed, SignalQuits, SignalAbandons,
     SignalPanics, Signals
<1>7. ASSUME NEW x \in Requests, NEW r \in Requests,
             SignalDrops(x, r)
      PROVE  AnsweredOnce'
  BY <1>7 DEF SignalDrops, Signals
<1>8. ASSUME NEW r \in Requests, Forwarder(r) \/ BfTakes(r)
      PROVE  AnsweredOnce'
  BY <1>8 DEF Forwarder, FwdTakes, FwdPuts, BfTakes
<1>9. CASE SubCloses \/ Streamer
  BY <1>9 DEF SubCloses, Streamer, SeeInClosed, Drained, SeeCtlClosed
<1>10. CASE Governor
  BY <1>10 DEF Governor, Relaunch, GovernorStops
<1>11. CASE FwdStarts \/ FwdStops \/ BfStops
  BY <1>11 DEF FwdStarts, FwdStops, BfStops
<1>12. CASE Stop \/ CloseOut \/ CloseCallback \/ Kill
  BY <1>12 DEF Stop, CloseOut, CloseCallback, Kill
<1>13. CASE UNCHANGED vars
  BY <1>13 DEF vars
<1> QED
  BY <1>1, <1>2, <1>3, <1>4, <1>5, <1>6, <1>7, <1>8, <1>9,
     <1>10, <1>11, <1>12, <1>13 DEF Next, Work, Application, Roundtrip

\* For any number of requests and retries, a result is delivered at most once, and
\* never for a request that is still on its way (exec, callBack).
THEOREM AnswersAreUnique == Spec => []AnsweredOnce
<1>1. Init => AnsweredOnce
  BY DEF Init, AnsweredOnce
<1> QED
  BY <1>1, OnceStep, TypeCorrect, PTL DEF Spec

-----------------------------------------------------------------------------
(* Dropped results *)

\* Who signals has found its connection unusable; a ctl channel is closed only
\* in a hard stop.
SignalsSound ==
    /\ \A r \in Requests : loc[r] = "signalling" => outcome[r] \in Unusable
    /\ sctl => gctl

LEMMA SignalsStep ==
    ASSUME TypeOK, SignalsSound, [Next]_vars
    PROVE  SignalsSound'
<1> USE DEF TypeOK, SignalsSound, Move, AfterCallBack,
           noteVars, reqVars, strVars, fwdVars, ctlVars
<1>1. ASSUME NEW r \in Requests, Submitter(r)
      PROVE  SignalsSound'
  BY <1>1 DEF Submitter, SubTakes, SubInterrupted
<1>2. ASSUME NEW r \in Requests, Handover(r) \/ ExecRefuses(r) \/ Spawn(r)
      PROVE  SignalsSound'
  BY <1>2 DEF Handover, ExecRefuses, Spawn
<1>3. ASSUME NEW r \in Requests, NEW o \in Outcomes[r],
             Returns(r, o) \/ Retries(r, o)
      PROVE  SignalsSound'
  BY <1>3 DEF Returns, Retries
<1>4. ASSUME NEW r \in Requests, RetrySent(r) \/ DeliveryBlocks(r)
      PROVE  SignalsSound'
  BY <1>4 DEF RetrySent, DeliveryBlocks
<1>5. ASSUME NEW r \in Requests, CallBack(r)
      PROVE  SignalsSound'
  BY <1>5 DEF CallBack, Delivers, DeliveryPanics, GivesUp
<1>6. ASSUME NEW r \in Requests,
             \/ SignalMissed(r) \/ SignalQuits(r)
             \/ SignalAbandons(r) \/ SignalPanics(r)
      PROVE  SignalsSound'
  BY <1>6 DEF SignalMissed, SignalQuits, SignalAbandons,
     SignalPanics, Signals
<1>7. ASSUME NEW x \in Requests, NEW r \in Requests,
             SignalDrops(x, r)
      PROVE  SignalsSound'
  BY <1>7 DEF SignalDrops, Signals
<1>8. ASSUME NEW r \in Requests, Forwarder(r) \/ BfTakes(r)
      PROVE  SignalsSound'
  BY <1>8 DEF Forwarder, FwdTakes, FwdPuts, BfTakes
<1>9. CASE SubCloses \/ Streamer
  BY <1>9 DEF SubCloses, Streamer, SeeInClosed, Drained, SeeCtlClosed
<1>10. CASE Governor
  BY <1>10 DEF Governor, Relaunch, GovernorStops
<1>11. CASE FwdStarts \/ FwdStops \/ BfStops
  BY <1>11 DEF FwdStarts, FwdStops, BfStops
<1>12. CASE Stop \/ CloseOut \/ CloseCallback \/ Kill
  BY <1>12 DEF Stop, CloseOut, CloseCallback, Kill
<1>13. CASE UNCHANGED vars
  BY <1>13 DEF vars
<1> QED
  BY <1>1, <1>2, <1>3, <1>4, <1>5, <1>6, <1>7, <1>8, <1>9,
     <1>10, <1>11, <1>12, <1>13 DEF Next, Work, Application, Roundtrip

LEMMA DropsStep ==
    ASSUME TypeOK, AnsweredOnce, SignalsSound, DropsExplained, [Next]_vars
    PROVE  DropsExplained'
<1> USE DEF TypeOK, AnsweredOnce, SignalsSound, DropsExplained, Move,
           AfterCallBack, CtlClosed,
           noteVars, reqVars, strVars, fwdVars, ctlVars
<1>1. ASSUME NEW r \in Requests, Submitter(r)
      PROVE  DropsExplained'
  BY <1>1 DEF Submitter, SubTakes, SubInterrupted
<1>2. ASSUME NEW r \in Requests, Handover(r) \/ ExecRefuses(r) \/ Spawn(r)
      PROVE  DropsExplained'
  BY <1>2 DEF Handover, ExecRefuses, Spawn
<1>3. ASSUME NEW r \in Requests, NEW o \in Outcomes[r],
             Returns(r, o) \/ Retries(r, o)
      PROVE  DropsExplained'
  BY <1>3 DEF Returns, Retries
<1>4. ASSUME NEW r \in Requests, RetrySent(r) \/ DeliveryBlocks(r)
      PROVE  DropsExplained'
  BY <1>4 DEF RetrySent, DeliveryBlocks
<1>5. ASSUME NEW r \in Requests, CallBack(r)
      PROVE  DropsExplained'
  BY <1>5 DEF CallBack, Delivers, DeliveryPanics, GivesUp
<1>6. ASSUME NEW r \in Requests,
             \/ SignalMissed(r) \/ SignalQuits(r)
             \/ SignalAbandons(r) \/ SignalPanics(r)
      PROVE  DropsExplained'
  BY <1>6 DEF SignalMissed, SignalQuits, SignalAbandons,
     SignalPanics, Signals
<1>7. ASSUME NEW x \in Requests, NEW r \in Requests,
             SignalDrops(x, r)
      PROVE  DropsExplained'
  BY <1>7 DEF SignalDrops, Signals
<1>8. ASSUME NEW r \in Requests, Forwarder(r) \/ BfTakes(r)
      PROVE  DropsExplained'
  BY <1>8 DEF Forwarder, FwdTakes, FwdPuts, BfTakes
<1>9. CASE SubCloses \/ Streamer
  BY <1>9 DEF SubCloses, Streamer, SeeInClosed, Drained, SeeCtlClosed
<1>10. CASE Governor
  BY <1>10 DEF Governor, Relaunch, GovernorStops
<1>11. CASE FwdStarts \/ FwdStops \/ BfStops
  BY <1>11 DEF FwdStarts, FwdStops, BfStops
<1>12. CASE Stop \/ CloseOut \/ CloseCallback \/ Kill
  BY <1>12 DEF Stop, CloseOut, CloseCallback, Kill
<1>13. CASE UNCHANGED vars
  BY <1>13 DEF vars
<1> QED
  BY <1>1, <1>2, <1>3, <1>4, <1>5, <1>6, <1>7, <1>8, <1>9,
     <1>10, <1>11, <1>12, <1>13 DEF Next, Work, Application, Roundtrip

\* For any number of requests and streamers, a result is dropped only in a hard stop
\* or for the signal of another roundtrip of the same streamer (callBack).
THEOREM DropsAreExplained == Spec => []DropsExplained
<1>1. Init => SignalsSound /\ DropsExplained
  BY DEF Init, SignalsSound, DropsExplained
<1> QED
  BY <1>1, SignalsStep, DropsStep, AnswersAreUnique, TypeCorrect, PTL DEF Spec

-----------------------------------------------------------------------------
(* The end of a soft stop *)

EndSound ==
    /\ \A r \in Requests :
         outcome[r] = "refused" => loc[r] \in {"answering", "blocked", "done"}
    /\ InExec # {} => spc = "running"
    /\ spc = "ended" => Roundtrips(gen) = {}
    /\ callbackClosed /\ ~gctl => spc = "ended"

LEMMA EndStep ==
    ASSUME TypeOK, EndSound, [Next]_vars
    PROVE  EndSound'
<1> USE DEF TypeOK, EndSound, InExec, InSelect, Roundtrips, Move,
           AfterCallBack, Unusable,
           noteVars, reqVars, strVars, fwdVars, ctlVars
<1>1. ASSUME NEW r \in Requests, Submitter(r)
      PROVE  EndSound'
  BY <1>1 DEF Submitter, SubTakes, SubInterrupted
<1>2. ASSUME NEW r \in Requests, Handover(r) \/ ExecRefuses(r) \/ Spawn(r)
      PROVE  EndSound'
  BY <1>2 DEF Handover, ExecRefuses, Spawn
<1>3. ASSUME NEW r \in Requests, NEW o \in Outcomes[r],
             Returns(r, o) \/ Retries(r, o)
      PROVE  EndSound'
  <2>1. o # "refused"
    BY Outcomes[r] \subseteq Outcome DEF Outcome
  <2>2. CASE Returns(r, o)
    BY <2>1, <2>2 DEF Returns
  <2>3. CASE Retries(r, o)
    BY <2>1, <2>3 DEF Retries
  <2> QED
    BY <1>3, <2>2, <2>3
<1>4. ASSUME NEW r \in Requests, RetrySent(r) \/ DeliveryBlocks(r)
      PROVE  EndSound'
  BY <1>4 DEF RetrySent, DeliveryBlocks
<1>5. ASSUME NEW r \in Requests, CallBack(r)
      PROVE  EndSound'
  BY <1>5 DEF CallBack, Delivers, DeliveryPanics, GivesUp
<1>6. ASSUME NEW r \in Requests,
             \/ SignalMissed(r) \/ SignalQuits(r)
             \/ SignalAbandons(r) \/ SignalPanics(r)
      PROVE  EndSound'
  BY <1>6 DEF SignalMissed, SignalQuits, SignalAbandons,
     SignalPanics, Signals
<1>7. ASSUME NEW x \in Requests, NEW r \in Requests,
             SignalDrops(x, r)
      PROVE  EndSound'
  BY <1>7 DEF SignalDrops, Signals
<1>8. ASSUME NEW r \in Requests, Forwarder(r) \/ BfTakes(r)
      PROVE  EndSound'
  BY <1>8 DEF Forwarder, FwdTakes, FwdPuts, BfTakes
<1>9. CASE SubCloses \/ Streamer
  BY <1>9 DEF SubCloses, Streamer, SeeInClosed, Drained, SeeCtlClosed
<1>10. CASE Governor
  BY <1>10 DEF Governor, Relaunch, GovernorStops
<1>11. CASE FwdStarts \/ FwdStops \/ BfStops
  BY <1>11 DEF FwdStarts, FwdStops, BfStops
<1>12. CASE Stop \/ CloseOut \/ CloseCallback \/ Kill
  BY <1>12 DEF Stop, CloseOut, CloseCallback, Kill
<1>13. CASE UNCHANGED vars
  BY <1>13 DEF vars
<1> QED
  BY <1>1, <1>2, <1>3, <1>4, <1>5, <1>6, <1>7, <1>8, <1>9,
     <1>10, <1>11, <1>12, <1>13 DEF Next, Work, Application, Roundtrip

\* For any number of requests and streamers, when Stop has closed Callback only
\* streamers that quit before can have roundtrips left (Stop, run).
THEOREM CallbackIsClosedLast == Spec => []CallbackClosedLast
<1>1. Init => EndSound
  BY DEF Init, EndSound, InExec, Roundtrips
<1>2. TypeOK /\ EndSound => CallbackClosedLast
  BY DEF TypeOK, EndSound, CallbackClosedLast
<1> QED
  BY <1>1, <1>2, EndStep, TypeCorrect, PTL DEF Spec

-----------------------------------------------------------------------------
(* Termination *)

LEMMA RouteFacts ==
    /\ Before("queued", "submitting") /\ Before("resubmitting", "submitting")
    /\ Before("submitting", "reserving") /\ Before("submitting", "lost")
    /\ Before("reserving", "inflight") /\ Before("reserving", "answering")
    /\ Before("inflight", "answering") /\ Before("toRetry", "retryCh")
    /\ Before("retryCh", "forwarding") /\ Before("forwarding", "buffered")
    /\ Before("buffered", "resubmitting") /\ Before("resubmitting", "lost")
    /\ Before("answering", "blocked") /\ Before("answering", "signalling")
    /\ Before("answering", "done") /\ Before("blocked", "signalling")
    /\ Before("blocked", "done") /\ Before("signalling", "done")
<1>1. DOMAIN Route = 1..16
  BY DEF Route
<1>2. ASSUME NEW i \in 1..16, NEW j \in 1..16, i < j
      PROVE  Before(Route[i], Route[j])
  BY <1>1, <1>2 DEF Before
<1>3. /\ Route[2] = "queued" /\ Route[3] = "toRetry"
      /\ Route[5] = "retryCh" /\ Route[6] = "forwarding"
      /\ Route[7] = "buffered" /\ Route[8] = "resubmitting"
      /\ Route[9] = "submitting" /\ Route[10] = "reserving"
      /\ Route[11] = "inflight" /\ Route[12] = "answering"
      /\ Route[13] = "blocked" /\ Route[14] = "signalling"
      /\ Route[15] = "done" /\ Route[16] = "lost"
  BY DEF Route
<1> QED
  BY <1>2, <1>3

\* The step that StepsForward allows.
Forward ==
    \A r \in Requests :
        \/ loc'[r] = loc[r] /\ attempts'[r] = attempts[r]
        \/ Before(loc[r], loc'[r]) /\ attempts'[r] = attempts[r]
        \/ attempts'[r] = attempts[r] + 1 /\ attempts'[r] <= MaxRetries

LEMMA ForwardStep ==
    ASSUME TypeOK, [Next]_vars
    PROVE  Forward
<1> USE RouteFacts DEF TypeOK, Forward, Move, AfterCallBack,
           noteVars, reqVars, strVars, fwdVars, ctlVars
<1>1. ASSUME NEW r \in Requests, Submitter(r)
      PROVE  Forward
  BY <1>1 DEF Submitter, SubTakes, SubInterrupted
<1>2. ASSUME NEW r \in Requests, Handover(r) \/ ExecRefuses(r) \/ Spawn(r)
      PROVE  Forward
  BY <1>2 DEF Handover, ExecRefuses, Spawn
<1>3. ASSUME NEW r \in Requests, NEW o \in Outcomes[r],
             Returns(r, o) \/ Retries(r, o)
      PROVE  Forward
  BY <1>3 DEF Returns, Retries
<1>4. ASSUME NEW r \in Requests, RetrySent(r) \/ DeliveryBlocks(r)
      PROVE  Forward
  BY <1>4 DEF RetrySent, DeliveryBlocks
<1>5. ASSUME NEW r \in Requests, CallBack(r)
      PROVE  Forward
  BY <1>5 DEF CallBack, Delivers, DeliveryPanics, GivesUp
<1>6. ASSUME NEW r \in Requests,
             \/ SignalMissed(r) \/ SignalQuits(r)
             \/ SignalAbandons(r) \/ SignalPanics(r)
      PROVE  Forward
  BY <1>6 DEF SignalMissed, SignalQuits, SignalAbandons,
     SignalPanics, Signals
<1>7. ASSUME NEW x \in Requests, NEW r \in Requests,
             SignalDrops(x, r)
      PROVE  Forward
  BY <1>7 DEF SignalDrops, Signals
<1>8. ASSUME NEW r \in Requests, Forwarder(r) \/ BfTakes(r)
      PROVE  Forward
  BY <1>8 DEF Forwarder, FwdTakes, FwdPuts, BfTakes
<1>9. CASE SubCloses \/ Streamer
  BY <1>9 DEF SubCloses, Streamer, SeeInClosed, Drained, SeeCtlClosed
<1>10. CASE Governor
  BY <1>10 DEF Governor, Relaunch, GovernorStops
<1>11. CASE FwdStarts \/ FwdStops \/ BfStops
  BY <1>11 DEF FwdStarts, FwdStops, BfStops
<1>12. CASE Stop \/ CloseOut \/ CloseCallback \/ Kill
  BY <1>12 DEF Stop, CloseOut, CloseCallback, Kill
<1>13. CASE UNCHANGED vars
  BY <1>13 DEF vars
<1> QED
  BY <1>1, <1>2, <1>3, <1>4, <1>5, <1>6, <1>7, <1>8, <1>9,
     <1>10, <1>11, <1>12, <1>13 DEF Next, Work, Application, Roundtrip

\* Whatever the requests, outcomes and shutdowns, a request that is not further on
\* its way after a step has paid for it with one of its MaxRetries (exec).
THEOREM RequestsGoForward == Spec => StepsForward
<1>1. TypeOK /\ [Next]_vars => [Forward]_vars
  BY ForwardStep
<1> QED
  BY <1>1, TypeCorrect, PTL DEF Spec, StepsForward, Forward
=============================================================================
