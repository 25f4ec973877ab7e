---------------------------- MODULE ClientProofs ----------------------------
(***************************************************************************)
(* The client's shutdown protocol for any number of concurrent callers.    *)
(*                                                                         *)
(* None of the results is inductive by itself: that out is closed once     *)
(* rests on there being one Stop past its critical section, which rests on *)
(* what the state says of the channels (ShutdownInv).                      *)
(***************************************************************************)
EXTENDS Client, FiniteSetTheorems, TLAPS

Stopping == {"waitSubmitter", "waitPipeline", "closing", "returned"}

ShutdownType ==
    /\ state \in 0..5
    /\ {cctl, gctl, ctl, out, callback} \subseteq BOOLEAN
    /\ stop \in [Stoppers -> StopPC]
    /\ sub \in SubPC

\* What the state tells of the channels and of the submitter.
StateInv ==
    /\ cctl => state >= stateStopping
    /\ gctl \/ ctl => state >= stateTerminating
    /\ sub \in {"closed", "done"} => state = stateClosed
    /\ out => sub = "done"

\* One Stop at most is past its critical section, and how far it is tells which
\* channels are closed.
StopInv ==
    /\ \A s \in Stoppers : stop[s] \in Stopping => state >= stateStopping
    /\ \A s, t \in Stoppers :
         stop[s] \in Stopping /\ stop[t] \in Stopping => s = t
    /\ out => \E s \in Stoppers : stop[s] \in Stopping \ {"waitSubmitter"}
    /\ callback => \E s \in Stoppers : stop[s] = "returned"
    /\ \A s \in Stoppers : stop[s] \in Stopping \ {"waitSubmitter"} => out
    /\ \A s \in Stoppers : stop[s] \in {"closing", "returned"} => cdone \/ ctl

PanicInv ==
    panic \notin {"close of closed channel", "submitter on closed channel"}

ShutdownInv == ShutdownType /\ StateInv /\ StopInv /\ PanicInv

\* Steps that leave the shutdown protocol alone.
LEMMA OtherStep ==
    ASSUME ShutdownInv, UNCHANGED <<state, ctls, cdone, stop>>,
           sub' \in SubPC \ {"closed", "done"} \/ sub' = sub,
           out => sub' = sub,
           PanicInv'
    PROVE  ShutdownInv'
<1> USE DEF ShutdownInv, ctls
<1>1. ShutdownType'
  BY DEF ShutdownType
<1>2. StateInv'
  BY DEF StateInv
<1>3. StopInv'
  BY DEF StopInv
<1> QED
  BY <1>1, <1>2, <1>3

LEMMA StopStep ==
    ASSUME ShutdownInv, NEW s \in Stoppers, Stop(s)
    PROVE  ShutdownInv'
<1> USE DEF ShutdownInv, ShutdownType, stateStopping, stateTerminating,
            stateClosed, stateInitial
<1>1. CASE state >= stateStopping
  <2>1. /\ UNCHANGED <<state, ctls, cdone, sub, panic>>
        /\ stop' = [stop EXCEPT ![s] = "refused"]
    BY <1>1 DEF Stop, AlreadyStopping, Refused, subVars
  <2>2. \A t \in Stoppers : stop'[t] = IF t = s THEN "refused" ELSE stop[t]
    BY <2>1
  <2>3. stop[s] = "idle"
    BY DEF Stop
  <2>4. ShutdownType'
    BY <2>1, <2>2 DEF ctls, StopPC
  <2>5. StateInv' /\ PanicInv'
    BY <2>1 DEF ctls, StateInv, PanicInv
  <2>6. StopInv'
    BY <2>1, <2>2, <2>3 DEF ctls, StopInv, Stopping
  <2> QED
    BY <2>4, <2>5, <2>6
<1>2. CASE ~(state >= stateStopping)
  <2>1. /\ state' = stateStopping /\ cctl' = TRUE
        /\ panic' = ClosePanic(cctl)
        /\ stop' = [stop EXCEPT ![s] = "waitSubmitter"]
        /\ UNCHANGED <<gctl, ctl, out, callback, cdone>>
        /\ sub' \in {sub, "select"}
    BY <1>2 DEF Stop, AlreadyStopping, CloseCctl
  <2>2. \A t \in Stoppers :
          stop'[t] = IF t = s THEN "waitSubmitter" ELSE stop[t]
    BY <2>1
  <2>3. /\ ~cctl /\ ~gctl /\ ~ctl /\ ~out /\ ~callback
        /\ sub \notin {"closed", "done"}
    BY <1>2 DEF StateInv, StopInv, Stopping
  <2>4. \A t \in Stoppers : stop[t] \notin Stopping
    BY <1>2 DEF StopInv
  <2>5. ShutdownType'
    BY <2>1, <2>2 DEF StopPC, SubPC
  <2>6. StateInv'
    BY <2>1, <2>3 DEF StateInv
  <2>7. StopInv'
    BY <2>1, <2>2, <2>3, <2>4 DEF StopInv, Stopping
  <2>8. PanicInv'
    BY <2>1, <2>3 DEF PanicInv, ClosePanic
  <2> QED
    BY <2>5, <2>6, <2>7, <2>8
<1> QED
  BY <1>1, <1>2

LEMMA StopCloseOutStep ==
    ASSUME ShutdownInv, NEW s \in Stoppers, StopCloseOut(s)
    PROVE  ShutdownInv'
<1> USE DEF ShutdownInv, ShutdownType
<1>1. /\ UNCHANGED <<state, cctl, gctl, ctl, callback, cdone, sub>>
      /\ stop[s] = "waitSubmitter" /\ sub = "done" /\ out' = TRUE
      /\ panic' = ClosePanic(out)
      /\ stop' = [stop EXCEPT ![s] = "waitPipeline"]
  BY DEF StopCloseOut, SubmitterGone, subVars
<1>2. \A t \in Stoppers :
        stop'[t] = IF t = s THEN "waitPipeline" ELSE stop[t]
  BY <1>1
<1>3. ~out /\ ~callback
  BY <1>1 DEF StopInv, Stopping
<1>4. ShutdownType' /\ StateInv'
  BY <1>1, <1>2 DEF StopPC, StateInv
<1>5. StopInv'
  BY <1>1, <1>2, <1>3 DEF StopInv, Stopping
<1>6. PanicInv'
  BY <1>1, <1>3 DEF PanicInv, ClosePanic
<1> QED
  BY <1>4, <1>5, <1>6

LEMMA StopEndStep ==
    ASSUME ShutdownInv, NEW s \in Stoppers,
           StopPipelineDone(s) \/ StopReturn(s), panic = "none"
    PROVE  ShutdownInv'
<1> USE DEF ShutdownInv, ShutdownType, ctls
<1>1. CASE StopPipelineDone(s)
  <2>1. /\ UNCHANGED <<state, ctls, cdone, sub, panic>>
        /\ stop[s] = "waitPipeline" /\ (cdone \/ ctl)
        /\ stop' = [stop EXCEPT ![s] = "closing"]
    BY <1>1 DEF StopPipelineDone, PipelineGone, subVars
  <2>2. \A t \in Stoppers : stop'[t] = IF t = s THEN "closing" ELSE stop[t]
    BY <2>1
  <2>3. ShutdownType' /\ StateInv' /\ PanicInv'
    BY <2>1, <2>2 DEF StopPC, StateInv, PanicInv
  <2>4. out
    BY <2>1 DEF StopInv, Stopping
  <2>5. StopInv'
    BY <2>1, <2>2, <2>4 DEF StopInv, Stopping
  <2> QED
    BY <2>3, <2>5
<1>2. CASE StopReturn(s)
  <2>1. /\ UNCHANGED <<state, cctl, gctl, ctl, out, cdone, sub>>
        /\ stop[s] = "closing" /\ callback' = (callback \/ HasCallback)
        /\ stop' = [stop EXCEPT ![s] = "returned"]
        /\ panic' = IF HasCallback THEN ClosePanic(callback) ELSE "none"
    BY <1>2 DEF StopReturn, subVars
  <2>2. \A t \in Stoppers : stop'[t] = IF t = s THEN "returned" ELSE stop[t]
    BY <2>1
  <2>3. ~callback
    BY <2>1 DEF StopInv, Stopping
  <2>4. ShutdownType' /\ StateInv'
    BY <2>1, <2>2, RetriesAssumption DEF StopPC, StateInv, RetriesAssumption
  <2>5. StopInv'
    BY <2>1, <2>2, <2>3 DEF StopInv, Stopping
  <2>6. PanicInv'
    BY <2>1, <2>3 DEF PanicInv, ClosePanic
  <2> QED
    BY <2>4, <2>5, <2>6
<1> QED
  BY <1>1, <1>2

LEMMA KillStep ==
    ASSUME ShutdownInv, NEW k \in Killers, Kill(k)
    PROVE  ShutdownInv'
<1>1. CASE state >= stateTerminating
  <2>1. UNCHANGED <<state, ctls, cdone, stop, sub, panic>>
    BY <1>1 DEF Kill, Refused, subVars
  <2>2. PanicInv'
    BY <2>1 DEF ShutdownInv, PanicInv
  <2> QED
    BY <2>1, <2>2, OtherStep
<1>2. CASE ~(state >= stateTerminating)
  <2> USE DEF ShutdownInv, ShutdownType, stateStopping, stateTerminating,
              stateClosed, stateInitial
  <2>1. /\ state' = stateTerminating /\ gctl' = TRUE /\ ctl' = TRUE
        /\ panic' = ClosePanic(\/ state # stateStopping /\ cctl
                               \/ gctl \/ ctl)
        /\ UNCHANGED <<out, callback, cdone, stop>>
        /\ cctl' \in {cctl, TRUE}
        /\ sub' \in {sub, "select"}
    BY <1>2 DEF Kill, CloseCctl
  <2>2. /\ ~gctl /\ ~ctl /\ ~out /\ sub \notin {"closed", "done"}
        /\ cctl => state = stateStopping
    BY <1>2 DEF StateInv
  <2>3. ShutdownType'
    <3>1. {cctl', gctl', ctl', out', callback'} \subseteq BOOLEAN
      BY <2>1
    <3>2. state' \in 0..5 /\ sub' \in SubPC /\ stop' \in [Stoppers -> StopPC]
      BY <2>1 DEF SubPC
    <3> QED
      BY <3>1, <3>2
  <2>4. StateInv'
    BY <2>1, <2>2 DEF StateInv
  <2>5. StopInv'
    BY <2>1, <2>2 DEF StopInv, Stopping
  <2>6. PanicInv'
    BY <2>1, <2>2 DEF PanicInv, ClosePanic
  <2> QED
    BY <2>3, <2>4, <2>5, <2>6
<1> QED
  BY <1>1, <1>2

LEMMA LifeCycleStep ==
    ASSUME ShutdownInv, Start \/ SubStart \/ SubClose \/ SubDone
    PROVE  ShutdownInv'
<1> USE DEF ShutdownInv, ShutdownType, ctls, stateStarting, stateRunning,
            stateStopping, stateTerminating, stateClosed, stateInitial
<1>1. /\ UNCHANGED <<ctls, cdone, stop, panic>>
      /\ \/ state < stateStarting /\ state' = stateStarting /\ sub' = "starting"
         \/ /\ sub = "starting" /\ state = stateStarting
            /\ state' = stateRunning /\ sub' = "select"
         \/ sub = "starting" /\ sub' = "finishing" /\ state' = state
         \/ sub = "finishing" /\ sub' = "closed" /\ state' = stateClosed
         \/ sub = "closed" /\ sub' = "done" /\ state' = state
  BY DEF Start, SubStart, SubClose, SubDone
<1>2. ShutdownType'
  BY <1>1 DEF SubPC
<1>3. StateInv'
  BY <1>1 DEF StateInv
<1>4. StopInv'
  BY <1>1 DEF StopInv, StateInv, Stopping
<1>5. PanicInv'
  BY <1>1 DEF PanicInv
<1> QED
  BY <1>2, <1>3, <1>4, <1>5

\* The invariant is inductive, and the state never goes back.
LEMMA ShutdownStep ==
    ASSUME ShutdownInv, [Next]_vars
    PROVE  ShutdownInv' /\ (state' >= state)
<1>0. ShutdownType /\ StateInv /\ StopInv /\ PanicInv
  BY DEF ShutdownInv
<1>n. state \in 0..5
  BY <1>0 DEF ShutdownType
<1>e. state' = state => state' >= state
  BY <1>n
<1>a. ASSUME UNCHANGED <<state, ctls, cdone, stop, sub>>,
             panic' \in {panic, "send on closed channel"}
      PROVE  ShutdownInv' /\ (state' >= state)
  <2>1. PanicInv'
    BY <1>0, <1>a DEF PanicInv
  <2>2. ShutdownInv'
    BY <1>a, <2>1, OtherStep
  <2>3. state' = state
    BY <1>a
  <2> QED
    BY <2>2, <2>3, <1>e
<1>1. CASE UNCHANGED vars
  BY <1>1, <1>a DEF vars, subVars
<1>2. CASE Start \/ SubStart \/ SubClose \/ SubDone
  <2>1. state' >= state
    BY <1>n, <1>2 DEF Start, SubStart, SubClose, SubDone, ShutdownType, stateStarting,
                stateRunning, stateClosed
  <2> QED
    BY <1>2, <2>1, LifeCycleStep
<1>3. CASE CloseQueue
  BY <1>3, <1>a DEF CloseQueue, subVars
<1>4. CASE PipelineDone
  <2>1. /\ UNCHANGED <<state, ctls, stop, sub, panic>> /\ cdone' = TRUE
    BY <1>4 DEF PipelineDone, subVars
  <2>2. ShutdownType' /\ StateInv' /\ PanicInv'
    BY <1>0, <2>1 DEF ctls, ShutdownType, StateInv, PanicInv
  <2>3. StopInv'
    BY <1>0, <2>1 DEF ctls, StopInv
  <2>4. ShutdownInv'
    BY <2>2, <2>3 DEF ShutdownInv
  <2>5. state' = state
    BY <2>1
  <2> QED
    BY <2>4, <2>5, <1>e
<1>5. CASE \/ SubLeaves \/ SubHanded \/ SubParks \/ SubInterrupted
           \/ \E r \in queue : SubRecvQueue(r)
           \/ \E r \in handed : SubRecvRetry(r)
  <2>1. /\ UNCHANGED <<state, ctls, cdone, stop, panic>>
        /\ sub # "done"
        /\ sub' \in {"finishing", "select", "parked", "submitting"}
    BY <1>5 DEF SubLeaves, SubHanded, SubParks, SubInterrupted, SubStep,
                SubRecvQueue, SubRecvRetry, SubTakes, Sending
  <2>2. ~out
    BY <1>0, <2>1 DEF StateInv
  <2>3. PanicInv' /\ sub' \in SubPC \ {"closed", "done"}
    BY <1>0, <2>1 DEF PanicInv, SubPC, Sending
  <2>4. ShutdownInv'
    BY <2>1, <2>2, <2>3, OtherStep
  <2>5. state' = state
    BY <2>1
  <2> QED
    BY <2>4, <2>5, <1>e
<1>6. CASE SubBlocks
  <2>1. /\ UNCHANGED <<state, ctls, cdone, stop>>
        /\ sub = "submitting" /\ sub' = "blocked"
        /\ panic' = IF out THEN "submitter on closed channel" ELSE "none"
    BY <1>6 DEF SubBlocks, SubStep
  <2>2. ~out
    BY <1>0, <2>1 DEF StateInv
  <2>3. PanicInv' /\ sub' \in SubPC \ {"closed", "done"}
    BY <2>1, <2>2 DEF PanicInv, SubPC, Sending
  <2>4. ShutdownInv'
    BY <2>1, <2>2, <2>3, OtherStep
  <2>5. state' = state
    BY <2>1
  <2> QED
    BY <2>4, <2>5, <1>e
<1>7. ASSUME NEW p \in Pushers, Pusher(p)
      PROVE  ShutdownInv' /\ (state' >= state)
  <2>1. /\ UNCHANGED <<state, ctls, cdone, stop, sub>>
        /\ panic' \in {panic, "send on closed channel"}
    BY <1>7 DEF Pusher, Push, PushHanded, PushBlocks, PushParks,
                PushInterrupted, PushOnClosed, PushStep, subVars
  <2> QED
    BY <2>1, <1>a
<1>8. ASSUME NEW s \in Stoppers, Stopper(s), panic = "none"
      PROVE  ShutdownInv' /\ (state' >= state)
  <2>1. state' >= state
    <3>1. \/ state' = state
          \/ ~(state >= stateStopping) /\ state' = stateStopping
      BY <1>8 DEF Stopper, Stop, AlreadyStopping, Refused, StopCloseOut, StopPipelineDone,
                  StopReturn
    <3> QED
      BY <1>n, <3>1 DEF stateStopping
  <2> QED
    BY <1>8, <2>1, StopStep, StopCloseOutStep, StopEndStep DEF Stopper
<1>9. ASSUME NEW k \in Killers, Kill(k)
      PROVE  ShutdownInv' /\ (state' >= state)
  <2>1. state' >= state
    <3>1. \/ state' = state
          \/ ~(state >= stateTerminating) /\ state' = stateTerminating
      BY <1>9 DEF Kill, Refused
    <3> QED
      BY <1>n, <3>1 DEF stateTerminating
  <2> QED
    BY <1>9, <2>1, KillStep
<1> QED
  BY <1>1, <1>2, <1>3, <1>4, <1>5, <1>6, <1>7, <1>8, <1>9 DEF Next, Submitter

THEOREM ShutdownInvariance == Spec => []ShutdownInv
<1>1. Init => ShutdownInv
  <2> SUFFICES ASSUME Init PROVE ShutdownInv
    OBVIOUS
  <2> USE DEF Init
  <2>1. ShutdownType
    <3>1. /\ state \in 0..5
          /\ stop \in [Stoppers -> StopPC] /\ sub \in SubPC
      BY DEF StopPC, SubPC, stateInitial
    <3>2. {cctl, gctl, ctl, out, callback} \subseteq BOOLEAN
      OBVIOUS
    <3> QED
      BY <3>1, <3>2 DEF ShutdownType
  <2>2. StateInv /\ PanicInv
    BY DEF StateInv, PanicInv
  <2>3. StopInv
    BY DEF StopInv, Stopping
  <2> QED
    BY <2>1, <2>2, <2>3 DEF ShutdownInv
<1>2. ShutdownInv /\ [Next]_vars => ShutdownInv'
  BY ShutdownStep
<1> QED
  BY <1>1, <1>2, PTL DEF Spec

-----------------------------------------------------------------------------
\* However many goroutines call Stop and Kill at once, none of the client's
\* channels is closed twice.
THEOREM ClosedOnce == Spec => []NoDoubleClose
<1>1. ShutdownInv => NoDoubleClose
  BY DEF ShutdownInv, PanicInv, NoDoubleClose
<1> QED
  BY <1>1, ShutdownInvariance, PTL

\* The submitter is gone before Stop closes out, so it never sends on a closed
\* channel.
THEOREM SubmitterNeverPanics == Spec => []SubmitterSafe
<1>1. ShutdownInv => SubmitterSafe
  BY DEF ShutdownInv, PanicInv, StateInv, SubmitterSafe
<1> QED
  BY <1>1, ShutdownInvariance, PTL

\* The inbound channel of the streamers is closed by one accepted Stop, and the
\* callback only after the pipeline is done or the client was killed.
THEOREM ShutdownInOrder == Spec => []ClosedInOrder
<1>1. ShutdownInv => ClosedInOrder
  BY DEF ShutdownInv, StopInv, Stopping, ClosedInOrder
<1> QED
  BY <1>1, ShutdownInvariance, PTL

\* The life-cycle state of a client never goes back.
THEOREM StateNeverGoesBack == Spec => StateMonotone
<1>1. ShutdownInv /\ [Next]_vars => [state' >= state]_vars
  BY ShutdownStep
<1> QED
  BY <1>1, ShutdownInvariance, PTL DEF Spec, StateMonotone

\* Every step of the client is one that its contract with the governor allows.
LEMMA ContractStep ==
    ASSUME ShutdownInv, [Next]_vars
    PROVE  [Contract!Next]_(Contract!chans)
<1> USE DEF Contract!chans
<1>0. ShutdownType /\ StateInv /\ StopInv
  BY DEF ShutdownInv
<1>1. CASE UNCHANGED vars
  BY <1>1 DEF vars, ctls
<1>2. CASE Start \/ CloseQueue \/ Submitter
  BY <1>2 DEF Start, CloseQueue, Submitter, SubStart, SubLeaves, SubRecvQueue,
     SubRecvRetry, SubTakes, SubHanded, SubBlocks, SubParks, SubInterrupted,
     SubClose, SubDone, SubStep, ctls
<1>3. CASE PipelineDone
  BY <1>3 DEF PipelineDone, ctls, Contract!Next, Contract!CloseDone
<1>4. ASSUME NEW p \in Pushers, Pusher(p)
      PROVE  UNCHANGED Contract!chans
  BY <1>4 DEF Pusher, Push, PushHanded, PushBlocks, PushParks,
     PushInterrupted, PushOnClosed, PushStep, ctls
<1>5. ASSUME NEW s \in Stoppers, StopCloseOut(s)
      PROVE  Contract!CloseOut
  <2>1. ~out
    <3>1. SUFFICES ASSUME out PROVE FALSE
      OBVIOUS
    <3>2. PICK t \in Stoppers : stop[t] \in Stopping \ {"waitSubmitter"}
      BY <1>0, <3>1 DEF StopInv
    <3>3. stop[s] = "waitSubmitter"
      BY <1>5 DEF StopCloseOut
    <3>4. s = t
      BY <1>0, <3>2, <3>3 DEF StopInv, Stopping
    <3> QED
      BY <3>2, <3>3, <3>4
  <2> QED
    BY <1>5, <2>1 DEF StopCloseOut, Contract!CloseOut
<1>6. ASSUME NEW s \in Stoppers, Stop(s) \/ StopPipelineDone(s) \/ StopReturn(s)
      PROVE  UNCHANGED Contract!chans
  BY <1>6 DEF Stop, Refused, CloseCctl, StopPipelineDone, StopReturn, ctls
<1>7. ASSUME NEW k \in Killers, Kill(k)
      PROVE  Contract!CloseGctl \/ UNCHANGED Contract!chans
  <2>1. CASE state >= stateTerminating
    BY <1>7, <2>1 DEF Kill, Refused, ctls
  <2>2. CASE ~(state >= stateTerminating)
    <3>1. ~gctl
      BY <1>0, <2>2 DEF StateInv
    <3>2. ~out
      BY <1>0, <2>2 DEF StateInv, stateClosed, stateTerminating
    <3> QED
      BY <1>7, <2>2, <3>1, <3>2 DEF Kill, CloseCctl, Contract!CloseGctl
  <2> QED
    BY <2>1, <2>2
<1> QED
  BY <1>1, <1>2, <1>3, <1>4, <1>5, <1>6, <1>7 DEF Next, Stopper, Contract!Next

\* The client keeps its side of the contract with the governor for any number of
\* concurrent calls of Stop and Kill: out and gctl are closed once each, and gctl
\* never after out.
THEOREM ClientImplementsShutdown == Spec => ImplementsShutdown
<1>1. Init => Contract!Init
  BY DEF Init, Contract!Init
<1>2. ShutdownInv /\ [Next]_vars => [Contract!Next]_(Contract!chans)
  BY ContractStep
<1> QED
  BY <1>1, <1>2, ShutdownInvariance, PTL
     DEF Spec, ImplementsShutdown, Contract!Spec

-----------------------------------------------------------------------------
(***************************************************************************)
(* The wait counter.  That ticks and tocks balance the blocked senders is  *)
(* inductive once a client that was never started is known to have no      *)
(* submitter: Start would otherwise forget one that waits.                 *)
(***************************************************************************)
SubWaits == IF sub \in {"blocked", "parked"} THEN 1 ELSE 0

WaitInv ==
    /\ push \in [Pushers -> PushPC]
    /\ waitCtr \in [ticks : Nat, tocks : Nat]
    /\ state = stateInitial => sub = "none"
    /\ WaitsBalanced

LEMMA WaitingFinite ==
    IsFiniteSet(Waiting) /\ Cardinality(Waiting) \in Nat
<1>1. Waiting \subseteq Pushers /\ IsFiniteSet(Pushers)
  BY CallersAssumption DEF Waiting, CallersAssumption
<1>2. IsFiniteSet(Waiting)
  BY <1>1, FS_Subset
<1> QED
  BY <1>2, FS_CardinalityType

\* The step of one Push: a Tick as it starts to wait, a Tock as it ends to.
LEMMA PushWaits ==
    ASSUME WaitInv, NEW p \in Pushers, Pusher(p)
    PROVE  WaitInv'
<1>0. /\ UNCHANGED <<state, sub>>
      /\ push \in [Pushers -> PushPC] /\ waitCtr \in [ticks : Nat, tocks : Nat]
      /\ SubWaits' = SubWaits /\ SubWaits \in Nat
  BY DEF WaitInv, Pusher, Push, PushHanded, PushBlocks, PushParks,
     PushInterrupted, PushOnClosed, PushStep, subVars, SubWaits
<1>1. IsFiniteSet(Waiting) /\ Cardinality(Waiting) \in Nat
  BY WaitingFinite
<1>2. waitCtr.ticks - waitCtr.tocks = Cardinality(Waiting) + SubWaits
  BY DEF WaitInv, WaitsBalanced, SubWaits
<1>3. ASSUME NEW pc \in PushPC, push' = [push EXCEPT ![p] = pc],
             waitCtr' \in [ticks : Nat, tocks : Nat],
             waitCtr'.ticks - waitCtr'.tocks = Cardinality(Waiting') + SubWaits
      PROVE  WaitInv'
  BY <1>0, <1>3 DEF WaitInv, WaitsBalanced, SubWaits
<1>4. ASSUME NEW pc \in PushPC, push' = [push EXCEPT ![p] = pc],
             push[p] \in {"blocked", "parked"} <=> pc \in {"blocked", "parked"},
             waitCtr' = waitCtr
      PROVE  WaitInv'
  <2>1. Waiting' = Waiting
    BY <1>0, <1>4 DEF Waiting
  <2> QED
    BY <1>0, <1>2, <1>3, <1>4, <2>1
<1>5. ASSUME NEW pc \in PushPC, push' = [push EXCEPT ![p] = pc],
             push[p] \in {"blocked", "parked"}, pc \notin {"blocked", "parked"},
             waitCtr' = Tocked
      PROVE  WaitInv'
  <2>1. Waiting' = Waiting \ {p} /\ p \in Waiting
    BY <1>0, <1>5 DEF Waiting
  <2>2. Cardinality(Waiting') = Cardinality(Waiting) - 1
    BY <1>1, <2>1, FS_RemoveElement
  <2>3. /\ waitCtr' \in [ticks : Nat, tocks : Nat]
        /\ waitCtr'.ticks = waitCtr.ticks /\ waitCtr'.tocks = waitCtr.tocks + 1
    BY <1>0, <1>5 DEF Tocked
  <2>4. waitCtr'.ticks - waitCtr'.tocks = Cardinality(Waiting') + SubWaits
    BY <1>0, <1>1, <1>2, <2>2, <2>3
  <2> QED
    BY <1>3, <1>5, <2>3, <2>4
<1>6. ASSUME push' = [push EXCEPT ![p] = "blocked"], push[p] = "submitting",
             waitCtr' = Ticked
      PROVE  WaitInv'
  <2>1. Waiting' = Waiting \cup {p} /\ p \notin Waiting
    BY <1>0, <1>6 DEF Waiting
  <2>2. Cardinality(Waiting') = Cardinality(Waiting) + 1
    BY <1>1, <2>1, FS_AddElement
  <2>3. /\ waitCtr' \in [ticks : Nat, tocks : Nat]
        /\ waitCtr'.ticks = waitCtr.ticks + 1 /\ waitCtr'.tocks = waitCtr.tocks
    BY <1>0, <1>6 DEF Ticked
  <2>4. waitCtr'.ticks - waitCtr'.tocks = Cardinality(Waiting') + SubWaits
    BY <1>0, <1>1, <1>2, <2>2, <2>3
  <2> QED
    BY <1>3, <1>6, <2>3, <2>4 DEF PushPC, Sending
<1> USE DEF PushStep, PushPC, Sending
<1>7. CASE Push(p)
  <2>1. /\ push[p] = "idle" /\ waitCtr' = waitCtr
        /\ \E pc \in {"notRunning", "missingAuth", "submitting"} :
             push' = [push EXCEPT ![p] = pc]
    BY <1>7 DEF Push
  <2> QED
    BY <2>1, <1>4
<1>8. CASE PushHanded(p)
  BY <1>8, <1>4, <1>5 DEF PushHanded
<1>9. CASE PushBlocks(p)
  BY <1>9, <1>6 DEF PushBlocks
<1>10. CASE PushParks(p)
  BY <1>10, <1>4 DEF PushParks
<1>11. CASE PushInterrupted(p)
  BY <1>11, <1>5 DEF PushInterrupted
<1>12. CASE PushOnClosed(p)
  BY <1>12, <1>4 DEF PushOnClosed
<1> QED
  BY <1>7, <1>8, <1>9, <1>10, <1>11, <1>12 DEF Pusher

\* The step of the submitter.
LEMMA SubmitterWaits ==
    ASSUME WaitInv, state \in 0..5, Submitter \/ Start
    PROVE  WaitInv'
<1>0. /\ UNCHANGED push
      /\ push \in [Pushers -> PushPC] /\ waitCtr \in [ticks : Nat, tocks : Nat]
      /\ waitCtr.ticks - waitCtr.tocks = Cardinality(Waiting) + SubWaits
  BY DEF Submitter, Start, SubStart, SubLeaves, SubRecvQueue, SubRecvRetry,
     SubTakes, SubHanded, SubBlocks, SubParks, SubInterrupted, SubStep,
     SubClose, SubDone, WaitInv, WaitsBalanced, SubWaits
<1>1. Waiting' = Waiting /\ Cardinality(Waiting) \in Nat
  BY <1>0, WaitingFinite DEF Waiting
<1>2. SubWaits \in {0, 1} /\ SubWaits' \in {0, 1}
  BY DEF SubWaits
<1>3. state' # stateInitial
  <2>1. state = stateInitial => sub = "none"
    BY DEF WaitInv
  <2>2. \/ state' \in {stateStarting, stateRunning, stateClosed}
        \/ sub # "none" /\ state' = state
    BY DEF Submitter, Start, SubStart, SubLeaves, SubRecvQueue,
       SubRecvRetry, SubTakes, SubHanded, SubBlocks, SubParks, SubInterrupted,
       SubStep, SubClose, SubDone, Sending
  <2> QED
    BY <2>1, <2>2 DEF stateInitial, stateStarting, stateRunning, stateClosed
<1>4. \/ waitCtr' = waitCtr /\ SubWaits' = SubWaits
      \/ waitCtr' = Ticked /\ SubWaits = 0 /\ SubWaits' = 1
      \/ waitCtr' = Tocked /\ SubWaits = 1 /\ SubWaits' = 0
  <2>1. CASE Start
    BY <2>1 DEF Start, counters, WaitInv, SubWaits, stateInitial, stateStarting
  <2>2. CASE SubStart \/ SubLeaves \/ SubClose \/ SubDone
    BY <2>2 DEF SubStart, SubLeaves, SubClose, SubDone, counters, SubWaits
  <2>3. CASE \/ \E r \in queue : SubRecvQueue(r)
             \/ \E r \in handed : SubRecvRetry(r)
    BY <2>3 DEF SubRecvQueue, SubRecvRetry, SubTakes, SubWaits
  <2>4. CASE SubHanded
    BY <2>4 DEF SubHanded, SubStep, SubWaits, Sending
  <2>5. CASE SubBlocks
    BY <2>5 DEF SubBlocks, SubStep, SubWaits
  <2>6. CASE SubParks
    BY <2>6 DEF SubParks, SubStep, SubWaits
  <2>7. CASE SubInterrupted
    BY <2>7 DEF SubInterrupted, SubStep, SubWaits
  <2> QED
    BY <2>1, <2>2, <2>3, <2>4, <2>5, <2>6, <2>7 DEF Submitter
<1>5. waitCtr' \in [ticks : Nat, tocks : Nat]
  BY <1>0, <1>4 DEF Ticked, Tocked
<1>6. waitCtr'.ticks - waitCtr'.tocks = Cardinality(Waiting') + SubWaits'
  BY <1>0, <1>1, <1>2, <1>4 DEF Ticked, Tocked
<1> QED
  BY <1>0, <1>3, <1>5, <1>6 DEF WaitInv, WaitsBalanced, SubWaits

\* Closing cctl wakes every parked sender, and each makes its Tock.
LEMMA CloseCctlWaits ==
    ASSUME WaitInv, CloseCctl, state' # stateInitial
    PROVE  WaitInv'
<1> DEFINE parked == {p \in Pushers : push[p] = "parked"}
<1>0. /\ push \in [Pushers -> PushPC] /\ waitCtr \in [ticks : Nat, tocks : Nat]
      /\ waitCtr.ticks - waitCtr.tocks = Cardinality(Waiting) + SubWaits
  BY DEF WaitInv, WaitsBalanced, SubWaits
<1>1. push' \in [Pushers -> PushPC]
  BY <1>0 DEF CloseCctl, PushPC
<1>2. /\ Waiting' = Waiting \ parked /\ parked \subseteq Waiting
      /\ Waiting \cap parked = parked
  BY <1>0 DEF CloseCctl, Waiting
<1>3. IsFiniteSet(Waiting) /\ Cardinality(Waiting) \in Nat
  BY WaitingFinite
<1>4. IsFiniteSet(parked) /\ Cardinality(parked) \in Nat
  BY <1>2, <1>3, FS_Subset, FS_CardinalityType
<1>5. Cardinality(Waiting') = Cardinality(Waiting) - Cardinality(parked)
  <2>1. Cardinality(Waiting \ parked)
          = Cardinality(Waiting) - Cardinality(Waiting \cap parked)
    BY <1>3, FS_Difference
  <2> QED
    BY <1>2, <2>1
<1>6. LET n == IF sub = "parked" THEN 1 ELSE 0
      IN  /\ waitCtr' = [waitCtr EXCEPT !.tocks = @ + Cardinality(parked) + n]
          /\ SubWaits' = SubWaits - n /\ n \in Nat /\ SubWaits \in Nat
  BY DEF CloseCctl, SubWaits
<1> HIDE DEF parked
<1>7. waitCtr' \in [ticks : Nat, tocks : Nat]
  BY <1>0, <1>4, <1>6
<1>8. waitCtr'.ticks - waitCtr'.tocks = Cardinality(Waiting') + SubWaits'
  BY <1>0, <1>3, <1>4, <1>5, <1>6
<1> QED
  BY <1>1, <1>7, <1>8 DEF WaitInv, WaitsBalanced, SubWaits

LEMMA WaitStep ==
    ASSUME ShutdownInv, WaitInv, [Next]_vars
    PROVE  WaitInv'
<1>0. state \in 0..5
  BY DEF ShutdownInv, ShutdownType
<1>1. ASSUME UNCHANGED <<state, push, sub, waitCtr>>
      PROVE  WaitInv'
  BY <1>1 DEF WaitInv, WaitsBalanced, Waiting
<1>2. CASE UNCHANGED vars \/ CloseQueue \/ PipelineDone
  BY <1>1, <1>2 DEF vars, CloseQueue, PipelineDone, subVars, counters
<1>3. CASE Submitter \/ Start
  BY <1>0, <1>3, SubmitterWaits
<1>4. ASSUME NEW p \in Pushers, Pusher(p)
      PROVE  WaitInv'
  BY <1>4, PushWaits
<1>5. ASSUME NEW s \in Stoppers, Stopper(s)
      PROVE  WaitInv'
  <2>1. CASE StopCloseOut(s) \/ StopPipelineDone(s) \/ StopReturn(s)
    BY <2>1, <1>1 DEF StopCloseOut, StopPipelineDone, StopReturn, subVars,
       counters
  <2>2. CASE Stop(s) /\ AlreadyStopping
    BY <2>2, <1>1 DEF Stop, Refused, subVars, counters
  <2>3. CASE Stop(s) /\ ~AlreadyStopping
    <3>1. CloseCctl /\ state' # stateInitial
      BY <2>3 DEF Stop, stateStopping, stateInitial
    <3> QED
      BY <3>1, CloseCctlWaits
  <2> QED
    BY <1>5, <2>1, <2>2, <2>3 DEF Stopper
<1>6. ASSUME NEW k \in Killers, Kill(k)
      PROVE  WaitInv'
  <2>1. CASE state >= stateTerminating
    BY <1>6, <2>1, <1>1 DEF Kill, Refused, subVars, counters
  <2>2. CASE ~(state >= stateTerminating) /\ state = stateStopping
    <3>1. UNCHANGED <<push, waitCtr, sub>> /\ state' # stateInitial
      BY <1>6, <2>2 DEF Kill, stateTerminating, stateInitial
    <3> QED
      BY <3>1 DEF WaitInv, WaitsBalanced, Waiting
  <2>3. CASE ~(state >= stateTerminating) /\ state # stateStopping
    <3>1. CloseCctl /\ state' # stateInitial
      BY <1>6, <2>3 DEF Kill, stateTerminating, stateInitial
    <3> QED
      BY <3>1, CloseCctlWaits
  <2> QED
    BY <2>1, <2>2, <2>3
<1> QED
  BY <1>2, <1>3, <1>4, <1>5, <1>6 DEF Next

THEOREM WaitInvariance == Spec => []WaitInv
<1>1. Init => WaitInv
  <2> SUFFICES ASSUME Init PROVE WaitInv
    OBVIOUS
  <2>1. Waiting = {}
    BY DEF Init, Waiting
  <2>2. Cardinality(Waiting) = 0
    BY <2>1, FS_EmptySet
  <2> QED
    BY <2>2 DEF Init, WaitInv, WaitsBalanced, PushPC
<1>2. ShutdownInv /\ WaitInv /\ [Next]_vars => WaitInv'
  BY WaitStep
<1> QED
  BY <1>1, <1>2, ShutdownInvariance, PTL DEF Spec

\* The counter the governor scales by (waitCtr) is exactly the senders that are
\* blocked on out, for any number of concurrent Push calls and also when a
\* shutdown wakes several of them at once.
THEOREM WaitsAreBalanced == Spec => []WaitsBalanced
<1>1. WaitInv => WaitsBalanced
  BY DEF WaitInv
<1> QED
  BY <1>1, WaitInvariance, PTL

-----------------------------------------------------------------------------
(***************************************************************************)
(* Requests of the Queue.  Each is in one place at a time; the submitter   *)
(* holds a request exactly while it is sending, and what a client that was *)
(* never started holds is nothing.                                         *)
(***************************************************************************)
InOnePlace(r) ==
    \/ r \in queue /\ r # subReq /\ r \notin handed /\ r \notin dropped
    \/ r \notin queue /\ r = subReq /\ r \notin handed /\ r \notin dropped
    \/ r \notin queue /\ r # subReq /\ r \in handed /\ r \notin dropped
    \/ r \notin queue /\ r # subReq /\ r \notin handed /\ r \in dropped

PlaceInv ==
    /\ queue \subseteq Queued /\ handed \subseteq Requests
    /\ subReq \in Requests \cup {NoReq}
    /\ subReq = NoReq <=> sub \notin Sending
    /\ \A r \in Queued : InOnePlace(r)
    /\ dropped # {} => cctl

\* A request that is in one place is counted once.
LEMMA OnePlaceCounts ==
    ASSUME NEW r, InOnePlace(r)
    PROVE  Cardinality({x \in {"queue", "submitter", "handed", "dropped"} :
                          \/ x = "queue" /\ r \in queue
                          \/ x = "submitter" /\ r = subReq
                          \/ x = "handed" /\ r \in handed
                          \/ x = "dropped" /\ r \in dropped}) = 1
<1> DEFINE places == {x \in {"queue", "submitter", "handed", "dropped"} :
                        \/ x = "queue" /\ r \in queue
                        \/ x = "submitter" /\ r = subReq
                        \/ x = "handed" /\ r \in handed
                        \/ x = "dropped" /\ r \in dropped}
<1>1. \/ places = {"queue"} \/ places = {"submitter"}
      \/ places = {"handed"} \/ places = {"dropped"}
  BY DEF InOnePlace
<1>2. \A x : Cardinality({x}) = 1
  BY FS_Singleton
<1> HIDE DEF places
<1>3. Cardinality(places) = 1
  BY <1>1, <1>2
<1> QED
  BY <1>3 DEF places

\* The submitter takes a request, or passes on the one it has.
LEMMA SubmitterPlaces ==
    ASSUME PlaceInv, Submitter
    PROVE  PlaceInv'
<1> USE CallersAssumption DEF CallersAssumption, Requests
<1>0. UNCHANGED cctl
  BY DEF Submitter, SubStart, SubLeaves, SubRecvQueue, SubRecvRetry,
     SubTakes, SubHanded, SubBlocks, SubParks, SubInterrupted, SubStep,
     SubClose, SubDone, ctls
<1>1. CASE SubStart \/ SubLeaves \/ SubClose \/ SubDone
  <2>1. /\ sub \notin Sending /\ sub' \notin Sending
        /\ UNCHANGED <<subReq, queue, dropped, handed>>
    BY <1>1 DEF SubStart, SubLeaves, SubClose, SubDone, Sending
  <2> QED
    BY <1>0, <2>1 DEF PlaceInv, InOnePlace
<1>2. ASSUME NEW q \in queue, SubRecvQueue(q) PROVE PlaceInv'
  <2>1. /\ sub = "select" /\ sub' = "submitting" /\ subReq' = q
        /\ queue' = queue \ {q} /\ UNCHANGED <<handed, dropped>>
    BY <1>2 DEF SubRecvQueue, SubTakes
  <2>2. subReq = NoReq /\ q # NoReq /\ InOnePlace(q) /\ sub' \in Sending
    BY <2>1 DEF PlaceInv, Sending
  <2>3. ASSUME NEW r \in Queued PROVE InOnePlace(r)'
    BY <2>1, <2>2 DEF PlaceInv, InOnePlace
  <2> QED
    BY <1>0, <2>1, <2>2, <2>3 DEF PlaceInv
<1>3. ASSUME NEW q \in handed, SubRecvRetry(q) PROVE PlaceInv'
  <2>1. /\ sub = "select" /\ sub' = "submitting" /\ subReq' = q
        /\ handed' = handed \ {q} /\ UNCHANGED <<queue, dropped>>
    BY <1>3 DEF SubRecvRetry, SubTakes
  <2>2. subReq = NoReq /\ q # NoReq /\ sub' \in Sending
    BY <2>1 DEF PlaceInv, Sending
  <2>3. ASSUME NEW r \in Queued PROVE InOnePlace(r)'
    BY <2>1, <2>2 DEF PlaceInv, InOnePlace
  <2> QED
    BY <1>0, <2>1, <2>2, <2>3 DEF PlaceInv
<1>4. CASE SubHanded
  <2>1. /\ sub \in Sending /\ sub' = "select" /\ subReq' = NoReq
        /\ handed' = handed \cup {subReq} /\ UNCHANGED <<queue, dropped>>
    BY <1>4 DEF SubHanded, SubStep
  <2>2. subReq # NoReq /\ sub' \notin Sending
    BY <2>1 DEF PlaceInv, Sending
  <2>3. ASSUME NEW r \in Queued PROVE InOnePlace(r)'
    BY <2>1, <2>2 DEF PlaceInv, InOnePlace
  <2> QED
    BY <1>0, <2>1, <2>2, <2>3 DEF PlaceInv
<1>5. CASE SubBlocks \/ SubParks
  <2>1. /\ sub \in Sending /\ sub' \in Sending
        /\ UNCHANGED <<subReq, queue, dropped, handed>>
    BY <1>5 DEF SubBlocks, SubParks, SubStep, Sending
  <2> QED
    BY <1>0, <2>1 DEF PlaceInv, InOnePlace
<1>6. CASE SubInterrupted
  <2>1. /\ sub \in Sending /\ sub' = "select" /\ subReq' = NoReq /\ cctl
        /\ dropped' = dropped \cup {subReq} /\ UNCHANGED <<queue, handed>>
    BY <1>6 DEF SubInterrupted, SubStep, Sending
  <2>2. subReq # NoReq /\ sub' \notin Sending
    BY <2>1 DEF PlaceInv, Sending
  <2>3. ASSUME NEW r \in Queued PROVE InOnePlace(r)'
    BY <2>1, <2>2 DEF PlaceInv, InOnePlace
  <2> QED
    BY <1>0, <2>1, <2>2, <2>3 DEF PlaceInv
<1> QED
  BY <1>1, <1>2, <1>3, <1>4, <1>5, <1>6 DEF Submitter

\* A shutdown takes the request from a parked submitter.
LEMMA CloseCctlPlaces ==
    ASSUME PlaceInv, CloseCctl, UNCHANGED <<queue, handed>>
    PROVE  PlaceInv'
<1> USE CallersAssumption DEF CallersAssumption, Requests
<1>1. CASE sub # "parked"
  BY <1>1 DEF CloseCctl, PlaceInv, InOnePlace
<1>2. CASE sub = "parked"
  <2>1. /\ sub \in Sending /\ sub' = "select" /\ subReq' = NoReq /\ cctl'
        /\ dropped' = dropped \cup {subReq}
    BY <1>2 DEF CloseCctl, Sending
  <2>2. subReq # NoReq /\ sub' \notin Sending
    BY <2>1 DEF PlaceInv, Sending
  <2>3. ASSUME NEW r \in Queued PROVE InOnePlace(r)'
    BY <2>1, <2>2 DEF PlaceInv, InOnePlace
  <2> QED
    BY <2>1, <2>2, <2>3 DEF PlaceInv
<1> QED
  BY <1>1, <1>2

LEMMA PlaceStep ==
    ASSUME ShutdownInv, WaitInv, PlaceInv, [Next]_vars
    PROVE  PlaceInv'
<1> USE CallersAssumption DEF CallersAssumption, Requests
<1>1. ASSUME UNCHANGED <<cctl, sub, subReq, queue, handed, dropped>>
      PROVE  PlaceInv'
  BY <1>1 DEF PlaceInv, InOnePlace
<1>2. CASE UNCHANGED vars \/ CloseQueue \/ PipelineDone
  BY <1>1, <1>2 DEF vars, CloseQueue, PipelineDone, subVars, ctls
<1>3. CASE Submitter
  BY <1>3, SubmitterPlaces
<1>4. CASE Start
  <2>1. state = stateInitial /\ sub' = "starting"
    BY <1>4 DEF Start, ShutdownInv, ShutdownType, stateInitial, stateStarting
  <2>2. sub \notin Sending /\ sub' \notin Sending
    BY <2>1 DEF WaitInv, Sending
  <2> QED
    BY <1>4, <2>2 DEF Start, ctls, PlaceInv, InOnePlace
<1>5. ASSUME NEW p \in Pushers, Pusher(p)
      PROVE  PlaceInv'
  <2>1. /\ UNCHANGED <<cctl, sub, subReq, queue, dropped>>
        /\ handed' = handed \/ handed' = handed \cup {p}
    BY <1>5 DEF Pusher, Push, PushHanded, PushBlocks, PushParks,
       PushInterrupted, PushOnClosed, PushStep, subVars, ctls
  <2>2. ASSUME NEW r \in Queued PROVE r \in handed' <=> r \in handed
    BY <2>1
  <2> QED
    BY <2>1, <2>2 DEF PlaceInv, InOnePlace
<1>6. ASSUME NEW s \in Stoppers, Stopper(s)
      PROVE  PlaceInv'
  <2>1. CASE StopCloseOut(s) \/ StopPipelineDone(s) \/ StopReturn(s)
    BY <2>1, <1>1 DEF StopCloseOut, StopPipelineDone, StopReturn, subVars, ctls
  <2>2. CASE Stop(s) /\ AlreadyStopping
    BY <2>2, <1>1 DEF Stop, Refused, subVars, ctls
  <2>3. CASE Stop(s) /\ ~AlreadyStopping
    BY <2>3, CloseCctlPlaces DEF Stop
  <2> QED
    BY <1>6, <2>1, <2>2, <2>3 DEF Stopper
<1>7. ASSUME NEW k \in Killers, Kill(k)
      PROVE  PlaceInv'
  <2>1. CASE state >= stateTerminating
    BY <1>7, <2>1, <1>1 DEF Kill, Refused, subVars, ctls
  <2>2. CASE ~(state >= stateTerminating) /\ state = stateStopping
    BY <1>7, <2>2, <1>1 DEF Kill
  <2>3. CASE ~(state >= stateTerminating) /\ state # stateStopping
    BY <1>7, <2>3, CloseCctlPlaces DEF Kill
  <2> QED
    BY <2>1, <2>2, <2>3
<1> QED
  BY <1>2, <1>3, <1>4, <1>5, <1>6, <1>7 DEF Next

\* A request of the Queue is in one place at a time, and the submitter holds one
\* exactly while it is sending.
THEOREM PlaceInvariance == Spec => []PlaceInv
<1>1. Init => PlaceInv
  BY CallersAssumption DEF Init, PlaceInv, InOnePlace, CallersAssumption,
     Requests, Sending
<1>2. ShutdownInv /\ WaitInv /\ PlaceInv /\ [Next]_vars => PlaceInv'
  BY PlaceStep
<1> QED
  BY <1>1, <1>2, ShutdownInvariance, WaitInvariance, PTL DEF Spec

\* No request that came by Queue is lost or sent twice at a time: it is in the
\* queue, with the submitter or with the pipeline, or was dropped by a submitter
\* that a Stop or a Kill interrupted, and in one of these places only.
THEOREM QueueAccounted == Spec => []QueuedAccounted
<1>1. PlaceInv => QueuedAccounted
  BY OnePlaceCounts DEF PlaceInv, QueuedAccounted
<1> QED
  BY <1>1, PlaceInvariance, PTL

-----------------------------------------------------------------------------
(* Type correctness *)

\* What the invariants above leave out.
RestType ==
    /\ cdone \in BOOLEAN /\ queueClosed \in BOOLEAN
    /\ kill \in [Killers -> KillPC]
    /\ dropped \subseteq Requests
    /\ retries \in 0..MaxRetries /\ rateCtr \in Nat
    /\ panic \in {"none", "close of nil channel", "close of closed channel",
                  "send on closed channel", "submitter on closed channel"}

LEMMA RestStep ==
    ASSUME PlaceInv, RestType, [Next]_vars
    PROVE  RestType'
<1>1. CASE UNCHANGED vars \/ Start \/ CloseQueue \/ PipelineDone
  BY <1>1 DEF RestType, vars, Start, CloseQueue, PipelineDone, subVars, counters
<1>2. ASSUME CloseCctl \/ UNCHANGED dropped
      PROVE  dropped' \subseteq Requests
  <2>1. sub = "parked" => subReq \in Requests
    BY DEF PlaceInv, Sending
  <2> QED
    BY <1>2, <2>1 DEF CloseCctl, RestType
<1>3. ASSUME NEW p \in Pushers, Pusher(p)
      PROVE  RestType'
  <2>1. /\ UNCHANGED <<cdone, queueClosed, kill, dropped, retries>>
        /\ rateCtr' = rateCtr \/ rateCtr' = rateCtr + 1
        /\ panic' = panic \/ panic' = "send on closed channel"
    BY <1>3 DEF Pusher, Push, PushHanded, PushBlocks, PushParks,
       PushInterrupted, PushOnClosed, PushStep, subVars
  <2>2. rateCtr' \in Nat
    <3>1. rateCtr \in Nat
      BY DEF RestType
    <3>2. rateCtr' = rateCtr \/ rateCtr' = rateCtr + 1
      BY <2>1, Zenon
    <3> QED
      BY <3>1, <3>2
  <2> QED
    BY <2>1, <2>2, Zenon DEF RestType
<1>4. ASSUME NEW s \in Stoppers, Stopper(s)
      PROVE  RestType'
  <2>1. /\ UNCHANGED <<cdone, queueClosed, kill, retries, rateCtr>>
        /\ CloseCctl \/ UNCHANGED dropped
        /\ \/ panic' = panic
           \/ panic' \in {"none", "close of nil channel", "close of closed channel"}
    BY <1>4 DEF Stopper, Stop, StopCloseOut, StopPipelineDone, StopReturn,
       Refused, subVars, counters, ClosePanic
  <2> QED
    BY <1>2, <2>1 DEF RestType
<1>5. ASSUME NEW k \in Killers, Kill(k)
      PROVE  RestType'
  <2>1. /\ UNCHANGED <<cdone, queueClosed, retries, rateCtr>>
        /\ CloseCctl \/ UNCHANGED dropped
        /\ \/ panic' = panic
           \/ panic' \in {"none", "close of nil channel", "close of closed channel"}
    BY <1>5 DEF Kill, Refused, subVars, counters, ClosePanic
  <2>2. \E pc \in KillPC : kill' = [kill EXCEPT ![k] = pc]
    BY <1>5 DEF Kill, Refused, KillPC
  <2> QED
    BY <1>2, <2>1, <2>2 DEF RestType
<1>6. CASE Submitter
  <2>1. CASE SubStart \/ SubLeaves \/ SubClose \/ SubDone \/ SubParks \/ SubHanded
    BY <2>1 DEF RestType, SubStart, SubLeaves, SubClose, SubDone, SubParks,
       SubHanded, SubStep, counters
  <2>2. ASSUME NEW r, SubRecvQueue(r) \/ SubRecvRetry(r)
        PROVE  RestType'
    <3>1. /\ UNCHANGED <<cdone, queueClosed, kill, dropped, panic>>
          /\ rateCtr' = rateCtr + 1
          /\ retries' = retries \/ (retries < MaxRetries /\ retries' = retries + 1)
      BY <2>2 DEF SubRecvQueue, SubRecvRetry, SubTakes
    <3>2. rateCtr' \in Nat /\ retries' \in 0..MaxRetries
      <4>1. rateCtr \in Nat /\ retries \in 0..MaxRetries /\ MaxRetries \in Nat
        BY RetriesAssumption DEF RestType, RetriesAssumption
      <4> QED
        BY <3>1, <4>1
    <3> QED
      BY <3>1, <3>2, Zenon DEF RestType
  <2>3. CASE SubBlocks
    BY <2>3 DEF RestType, SubBlocks, SubStep
  <2>4. CASE SubInterrupted
    <3>1. subReq \in Requests
      BY <2>4 DEF SubInterrupted, PlaceInv, Sending
    <3> QED
      BY <2>4, <3>1 DEF RestType, SubInterrupted, SubStep
  <2> QED
    BY <1>6, <2>1, <2>2, <2>3, <2>4 DEF Submitter
<1> QED
  BY <1>1, <1>3, <1>4, <1>5, <1>6 DEF Next

\* The client stays well typed: the submitter holds a request or none, and no more
\* requests come back than MaxRetries.
THEOREM TypeCorrect == Spec => []TypeOK
<1>1. Init => RestType
  <2> SUFFICES ASSUME Init PROVE RestType
    OBVIOUS
  <2>1. retries \in 0..MaxRetries /\ rateCtr \in Nat
    BY RetriesAssumption DEF Init, RetriesAssumption
  <2>2. kill \in [Killers -> KillPC] /\ dropped \subseteq Requests
    BY DEF Init, KillPC
  <2>3. cdone \in BOOLEAN /\ queueClosed \in BOOLEAN /\ panic = "none"
    BY Zenon DEF Init
  <2> QED
    BY <2>1, <2>2, <2>3, Zenon DEF RestType
<1>2. PlaceInv /\ RestType /\ [Next]_vars => RestType'
  BY RestStep
<1>3. ShutdownInv /\ WaitInv /\ PlaceInv /\ RestType => TypeOK
  BY DEF ShutdownInv, ShutdownType, WaitInv, PlaceInv, RestType, TypeOK
<1> QED
  BY <1>1, <1>2, <1>3, ShutdownInvariance, WaitInvariance, PlaceInvariance, PTL
     DEF Spec

=============================================================================
