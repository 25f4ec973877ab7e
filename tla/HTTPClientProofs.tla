-------------------------- MODULE HTTPClientProofs --------------------------
(***************************************************************************)
(* Safety of the stream reservation for any number of calls, any           *)
(* capacities and every mode.                                              *)
(*                                                                         *)
(* NoLostWakeup needs to know that a call that has not begun has no        *)
(* cancel goroutine and no error yet (IdleClean), that the count is never  *)
(* negative, and, for the streams given back, that cnt counts the holders. *)
(* The capacity set at the start needs no Broadcast because no call has    *)
(* begun (also IdleClean).                                                 *)
(***************************************************************************)
EXTENDS HTTPClient, FiniteSetTheorems, TLAPS

USE CallsAssumption, CapsAssumption, ModesAssumption
  DEF CallsAssumption, CapsAssumption, ModesAssumption, Mode

IdleClean ==
    /\ \A c \in Calls : call[c] = "idle" => cnl[c] = "none" /\ ~cerr[c]
    /\ phase = "new" => \A c \in Calls : call[c] = "idle"

IndInv == TypeOK /\ CountsHolders /\ NoLostWakeup /\ IdleClean

-----------------------------------------------------------------------------
(* Operators *)

\* What a Broadcast does to the calls: nobody sleeps, and nobody else moves.
LEMMA BroadcastWakes ==
    ASSUME NEW pcs \in [Calls -> CallPC]
    PROVE  /\ Broadcast(pcs) \in [Calls -> CallPC]
           /\ \A c \in Calls :
                /\ Broadcast(pcs)[c] # "waiting"
                /\ pcs[c] # "waiting" => Broadcast(pcs)[c] = pcs[c]
                /\ Broadcast(pcs)[c] = "holding" <=> pcs[c] = "holding"
                /\ Broadcast(pcs)[c] = "idle" <=> pcs[c] = "idle"
BY DEF Broadcast, CallPC

\* What a refresh may set, and when it makes room without a Broadcast: never.
LEMMA RefreshNotifies ==
    ASSUME TypeOK, NEW new \in RefreshedCaps(effCap)
    PROVE  /\ new \in 0..CfgCap \cup {0, 1}
           /\ ~Notifies(effCap, new) /\ ~Room(effCap, cnt) => ~Room(new, cnt)
<1>1. srvCap \in Nat /\ effCap \in Nat /\ cnt \in Nat
  BY DEF TypeOK
<1>2. new \in 0..CfgCap \cup {0, 1}
  <2>1. AllowedCap \in 0..CfgCap
    BY <1>1 DEF AllowedCap
  <2>2. new = AllowedCap \/ new = effCap
    BY DEF RefreshedCaps
  <2> QED
    BY <2>1, <2>2 DEF TypeOK
<1>3. ASSUME ~Notifies(effCap, new), ~Room(effCap, cnt)
      PROVE  ~Room(new, cnt)
  <2>1. new \in Nat
    BY <1>2
  <2> QED
    BY <1>1, <1>3, <2>1 DEF Notifies, Room
<1> QED
  BY <1>2, <1>3

LEMMA HoldingFinite ==
    /\ IsFiniteSet(Holding)
    /\ Cardinality(Holding) \in Nat
<1>1. IsFiniteSet(Holding)
  BY FS_Subset DEF Holding
<1> QED
  BY <1>1, FS_CardinalityType

\* The calls after a possible Broadcast of a refresh.
After(new) == IF Notifies(effCap, new) THEN Broadcast(call) ELSE call

LEMMA AfterRefresh ==
    ASSUME TypeOK, NoLostWakeup, NEW new \in RefreshedCaps(effCap) \cup {effCap}
    PROVE  /\ After(new) \in [Calls -> CallPC]
           /\ \A c \in Calls :
                /\ After(new)[c] = "holding" <=> call[c] = "holding"
                /\ After(new)[c] = "idle" <=> call[c] = "idle"
                /\ After(new)[c] = "waiting" =>
                     /\ call[c] = "waiting"
                     /\ ~Room(new, cnt)
<1>1. call \in [Calls -> CallPC] /\ effCap \in Nat /\ cnt \in Nat
  BY DEF TypeOK
<1>2. ~Notifies(effCap, effCap)
  BY <1>1 DEF Notifies
<1>3. CASE Notifies(effCap, new)
  <2>1. After(new) = Broadcast(call)
    BY <1>3 DEF After
  <2> QED
    BY <1>1, <2>1, BroadcastWakes
<1>4. CASE ~Notifies(effCap, new)
  <2>1. After(new) = call
    BY <1>4 DEF After
  <2>2. ~Room(effCap, cnt) => ~Room(new, cnt)
    BY <1>4, RefreshNotifies
  <2> QED
    BY <1>1, <2>1, <2>2 DEF NoLostWakeup
<1> QED
  BY <1>3, <1>4

-----------------------------------------------------------------------------
(* The two ways a call goes on after a test of its condition *)

LEMMA TakesKeeps ==
    ASSUME IndInv, NEW c \in Calls, NEW pcs \in [Calls -> CallPC],
           \A d \in Calls : pcs[d] = "holding" <=> call[d] = "holding",
           call[c] # "holding", Takes(c, pcs)
    PROVE  /\ call' \in [Calls -> CallPC] /\ cnt' \in Nat /\ CountsHolders'
           /\ cnt' = cnt + 1
<1>1. /\ call' = [pcs EXCEPT ![c] = "holding"]
      /\ cnt' = cnt + 1
  BY DEF Takes
<1>2. Holding' = Holding \cup {c}
  BY <1>1 DEF Holding
<1>3. c \notin Holding
  BY DEF Holding
<1>4. Cardinality(Holding \cup {c}) = Cardinality(Holding) + 1
  BY <1>3, HoldingFinite, FS_AddElement
<1> QED
  BY <1>1, <1>2, <1>4, HoldingFinite DEF IndInv, CountsHolders, CallPC

LEMMA SleepsKeeps ==
    ASSUME IndInv, NEW c \in Calls, NEW pcs \in [Calls -> CallPC],
           \A d \in Calls : pcs[d] = "holding" <=> call[d] = "holding",
           call[c] # "holding", Sleeps(c, pcs)
    PROVE  /\ call' \in [Calls -> CallPC] /\ cnt' \in Nat /\ CountsHolders'
           /\ cnl' \in [Calls -> CnlPC] /\ cnt' = cnt
           /\ \A d \in Calls : d # c => cnl'[d] = cnl[d]
<1>1. /\ call' = [pcs EXCEPT ![c] = "waiting"]
      /\ cnt' = cnt
      /\ cnl' = IF c \in Cancellable /\ cnl[c] = "none"
                THEN [cnl EXCEPT ![c] = "watching"] ELSE cnl
  BY DEF Sleeps
<1>2. Holding' = Holding
  BY <1>1 DEF Holding
<1> QED
  BY <1>1, <1>2 DEF IndInv, TypeOK, CountsHolders, CallPC, CnlPC

-----------------------------------------------------------------------------
(* Induction *)

LEMMA InitInv == Init => IndInv
<1> SUFFICES ASSUME Init PROVE IndInv
  OBVIOUS
<1>1. TypeOK
  BY DEF Init, TypeOK, CallPC, CnlPC
<1>2. Holding = {}
  BY DEF Init, Holding
<1>3. CountsHolders
  BY <1>2, FS_EmptySet DEF CountsHolders, Init
<1> QED
  BY <1>1, <1>3 DEF IndInv, NoLostWakeup, IdleClean, Init

LEMMA ReserveKeeps ==
    ASSUME IndInv, NEW c \in Calls, Reserve(c)
    PROVE  IndInv'
<1>1. /\ call[c] = "idle" /\ phase = "open"
      /\ effCap' \in RefreshedCaps(effCap) \cup {effCap}
      /\ IF Room(effCap', cnt) THEN Takes(c, After(effCap'))
                               ELSE Sleeps(c, After(effCap'))
      /\ UNCHANGED <<mode, phase, srvCap, cerr, ctx, poller>>
  BY DEF Reserve, After
<1>2. TypeOK /\ NoLostWakeup /\ CountsHolders
  BY DEF IndInv
<1> DEFINE new == effCap'
           pcs == After(new)
<1>3. /\ pcs \in [Calls -> CallPC]
      /\ \A d \in Calls :
           /\ pcs[d] = "holding" <=> call[d] = "holding"
           /\ pcs[d] = "idle" <=> call[d] = "idle"
           /\ pcs[d] = "waiting" => call[d] = "waiting" /\ ~Room(new, cnt)
  BY <1>1, <1>2, AfterRefresh
<1>4. new \in 0..CfgCap \cup {0, 1}
  BY <1>1, <1>2, RefreshNotifies DEF TypeOK
<1>5. cnl[c] = "none" /\ ~cerr[c]
  BY <1>1 DEF IndInv, IdleClean
<1>6. CASE Room(new, cnt)
  <2>1. Takes(c, pcs)
    BY <1>1, <1>6
  <2>2. /\ call' = [pcs EXCEPT ![c] = "holding"] /\ cnl' = cnl
        /\ \A d \in Calls : call'[d] # "waiting"
    BY <2>1, <1>3, <1>6 DEF Takes
  <2>3. call' \in [Calls -> CallPC] /\ cnt' \in Nat /\ CountsHolders'
    BY <1>1, <1>3, <2>1, TakesKeeps
  <2>4. TypeOK'
    BY <1>1, <1>2, <1>4, <2>2, <2>3 DEF TypeOK
  <2>5. NoLostWakeup' /\ IdleClean'
    BY <1>1, <1>3, <2>2 DEF NoLostWakeup, IdleClean, IndInv
  <2> QED
    BY <2>3, <2>4, <2>5 DEF IndInv
<1>7. CASE ~Room(new, cnt)
  <2>1. Sleeps(c, pcs)
    BY <1>1, <1>7
  <2>2. /\ call' = [pcs EXCEPT ![c] = "waiting"] /\ cnt' = cnt
    BY <2>1 DEF Sleeps
  <2>3. /\ call' \in [Calls -> CallPC] /\ cnt' \in Nat /\ CountsHolders'
        /\ cnl' \in [Calls -> CnlPC]
        /\ \A d \in Calls : d # c => cnl'[d] = cnl[d]
    BY <1>1, <1>3, <2>1, SleepsKeeps
  <2>4. TypeOK'
    BY <1>1, <1>2, <1>4, <2>3 DEF TypeOK
  <2>5. ~Room(effCap', cnt')
    BY <1>7, <2>2
  <2>6. \A d \in Calls : call'[d] = "waiting" /\ cerr'[d] => cnl'[d] = "stored"
    BY <1>1, <1>2, <1>3, <1>5, <2>2, <2>3 DEF NoLostWakeup
  <2>7. IdleClean'
    BY <1>1, <1>3, <2>2, <2>3 DEF IdleClean, IndInv
  <2> QED
    BY <2>3, <2>4, <2>5, <2>6, <2>7 DEF IndInv, NoLostWakeup
<1> QED
  BY <1>6, <1>7

LEMMA WakesKeeps ==
    ASSUME IndInv, NEW c \in Calls, Wakes(c)
    PROVE  IndInv'
<1>1. /\ call[c] = "woken"
      /\ UNCHANGED <<mode, phase, srvCap, effCap, cerr, ctx, poller>>
  BY DEF Wakes
<1>2. /\ TypeOK /\ NoLostWakeup /\ CountsHolders /\ IdleClean
      /\ call \in [Calls -> CallPC] /\ effCap \in Nat /\ cnt \in Nat
  BY DEF IndInv, TypeOK
<1>3. CASE cerr[c]
  <2>1. call' = [call EXCEPT ![c] = "cancelled"] /\ UNCHANGED <<cnt, cnl>>
    BY <1>3 DEF Wakes
  <2>2. Holding' = Holding
    BY <1>1, <1>2, <2>1 DEF Holding
  <2>3. CountsHolders'
    BY <1>2, <2>1, <2>2 DEF CountsHolders
  <2>4. TypeOK'
    BY <1>1, <1>2, <2>1 DEF TypeOK, CallPC
  <2>5. NoLostWakeup' /\ IdleClean'
    BY <1>1, <1>2, <2>1 DEF NoLostWakeup, IdleClean, Room
  <2> QED
    BY <2>3, <2>4, <2>5 DEF IndInv
<1>4. CASE ~cerr[c] /\ Room(effCap, cnt)
  <2>1. Takes(c, call)
    BY <1>4 DEF Wakes
  <2>2. call' = [call EXCEPT ![c] = "holding"] /\ cnl' = cnl
    BY <2>1 DEF Takes
  <2>3. call' \in [Calls -> CallPC] /\ cnt' \in Nat /\ CountsHolders'
    BY <1>1, <1>2, <2>1, TakesKeeps
  <2>4. TypeOK'
    BY <1>1, <1>2, <2>2, <2>3 DEF TypeOK
  <2>5. \A d \in Calls : call'[d] # "waiting"
    BY <1>2, <1>4, <2>2 DEF NoLostWakeup
  <2>6. NoLostWakeup' /\ IdleClean'
    BY <1>1, <1>2, <2>2, <2>5 DEF NoLostWakeup, IdleClean
  <2> QED
    BY <2>3, <2>4, <2>6 DEF IndInv
<1>5. CASE ~cerr[c] /\ ~Room(effCap, cnt)
  <2>1. Sleeps(c, call)
    BY <1>5 DEF Wakes
  <2>2. call' = [call EXCEPT ![c] = "waiting"] /\ cnt' = cnt
    BY <2>1 DEF Sleeps
  <2>3. /\ call' \in [Calls -> CallPC] /\ cnt' \in Nat /\ CountsHolders'
        /\ cnl' \in [Calls -> CnlPC]
        /\ \A d \in Calls : d # c => cnl'[d] = cnl[d]
    BY <1>1, <1>2, <2>1, SleepsKeeps
  <2>4. TypeOK'
    BY <1>1, <1>2, <2>3 DEF TypeOK
  <2>5. ~Room(effCap', cnt')
    BY <1>1, <1>5, <2>2
  <2>6. \A d \in Calls : call'[d] = "waiting" /\ cerr'[d] => cnl'[d] = "stored"
    BY <1>1, <1>2, <1>5, <2>2, <2>3 DEF NoLostWakeup
  <2>7. IdleClean'
    BY <1>1, <1>2, <2>2, <2>3 DEF IdleClean
  <2> QED
    BY <2>3, <2>4, <2>5, <2>6, <2>7 DEF IndInv, NoLostWakeup
<1> QED
  BY <1>3, <1>4, <1>5

LEMMA ReleaseKeeps ==
    ASSUME IndInv, NEW c \in Calls, Release(c)
    PROVE  IndInv' /\ cnt' <= cnt
<1> DEFINE pcs == [call EXCEPT ![c] = "released"]
<1>1. /\ call[c] = "holding"
      /\ cnt' = IF cnt > 0 THEN cnt - 1 ELSE cnt
      /\ call' = IF cnt > 0 /\ cnt' < effCap THEN Broadcast(pcs) ELSE pcs
      /\ UNCHANGED <<mode, phase, srvCap, effCap, cnl, cerr, ctx, poller>>
  BY DEF Release
<1>2. /\ TypeOK /\ NoLostWakeup /\ CountsHolders /\ IdleClean
      /\ call \in [Calls -> CallPC] /\ effCap \in Nat /\ cnt \in Nat
  BY DEF IndInv, TypeOK
<1>3. pcs \in [Calls -> CallPC]
  BY <1>2 DEF CallPC
<1>4. /\ call' \in [Calls -> CallPC]
      /\ \A d \in Calls :
           /\ call'[d] = "holding" <=> call[d] = "holding" /\ d # c
           /\ call'[d] = "idle" <=> call[d] = "idle"
           /\ call'[d] = "waiting" => call[d] = "waiting"
  <2>1. \A d \in Calls :
           /\ pcs[d] = "holding" <=> call[d] = "holding" /\ d # c
           /\ pcs[d] = "idle" <=> call[d] = "idle"
           /\ pcs[d] = "waiting" => call[d] = "waiting"
    BY <1>1, <1>2
  <2> HIDE DEF pcs
  <2>2. CASE call' = pcs
    BY <1>3, <2>1, <2>2
  <2>3. CASE call' = Broadcast(pcs)
    BY <1>3, <2>1, <2>3, BroadcastWakes
  <2> QED
    BY <1>1, <2>2, <2>3
<1>5. Holding' = Holding \ {c} /\ c \in Holding
  BY <1>1, <1>4 DEF Holding
<1>6. Cardinality(Holding \ {c}) = Cardinality(Holding) - 1
  BY <1>5, HoldingFinite, FS_RemoveElement
<1>7. cnt > 0
  <2>1. Cardinality(Holding \ {c}) \in Nat
    BY HoldingFinite, FS_Subset, FS_CardinalityType
  <2> QED
    BY <1>2, <1>6, <2>1, HoldingFinite DEF CountsHolders
<1>8. cnt' = cnt - 1 /\ cnt' \in Nat
  BY <1>1, <1>2, <1>7
<1>9. CountsHolders'
  BY <1>2, <1>5, <1>6, <1>8 DEF CountsHolders
<1>10. TypeOK'
  BY <1>1, <1>2, <1>4, <1>8 DEF TypeOK
<1>11. ASSUME NEW d \in Calls, call'[d] = "waiting"
       PROVE  ~Room(effCap', cnt') /\ (cerr'[d] => cnl'[d] = "stored")
  <2>1. call[d] = "waiting"
    BY <1>4, <1>11
  <2>2. ~(cnt' < effCap)
    BY <1>1, <1>3, <1>7, <1>11, BroadcastWakes
  <2>3. ~Room(effCap, cnt) /\ (cerr[d] => cnl[d] = "stored")
    BY <1>2, <2>1 DEF NoLostWakeup
  <2>4. effCap # 0
    BY <2>3 DEF Room
  <2> QED
    BY <1>1, <2>2, <2>3, <2>4 DEF Room
<1>12. IdleClean'
  BY <1>1, <1>2, <1>4 DEF IdleClean
<1> QED
  BY <1>2, <1>8, <1>9, <1>10, <1>11, <1>12 DEF IndInv, NoLostWakeup

LEMMA PollRefreshKeeps ==
    ASSUME IndInv, PollRefresh
    PROVE  IndInv'
<1>1. /\ effCap' \in RefreshedCaps(effCap) \cup {effCap}
      /\ call' = After(effCap') /\ poller' = "gone"
      /\ UNCHANGED <<mode, phase, srvCap, cnt, cnl, cerr, ctx>>
  BY DEF PollRefresh, After
<1>2. TypeOK /\ NoLostWakeup /\ CountsHolders /\ IdleClean
  BY DEF IndInv
<1>3. /\ call' \in [Calls -> CallPC]
      /\ \A d \in Calls :
           /\ call'[d] = "holding" <=> call[d] = "holding"
           /\ call'[d] = "idle" <=> call[d] = "idle"
           /\ call'[d] = "waiting" => call[d] = "waiting" /\ ~Room(effCap', cnt)
  BY <1>1, <1>2, AfterRefresh
<1>4. effCap' \in 0..CfgCap \cup {0, 1}
  BY <1>1, <1>2, RefreshNotifies DEF TypeOK
<1>5. Holding' = Holding
  BY <1>3 DEF Holding
<1>6. CountsHolders'
  BY <1>1, <1>2, <1>5 DEF CountsHolders
<1>7. TypeOK'
  BY <1>1, <1>2, <1>3, <1>4 DEF TypeOK
<1>8. NoLostWakeup' /\ IdleClean'
  BY <1>1, <1>2, <1>3 DEF NoLostWakeup, IdleClean
<1> QED
  BY <1>6, <1>7, <1>8 DEF IndInv

LEMMA CancellerKeeps ==
    ASSUME IndInv, NEW c \in Calls, Canceller(c)
    PROVE  IndInv' /\ cnt' = cnt
<1>1. /\ UNCHANGED <<mode, phase, srvCap, effCap, cnt, ctx, poller>>
      /\ cnl[c] # "none"
      /\ \E to \in CnlPC : cnl' = [cnl EXCEPT ![c] = to]
  BY DEF Canceller, CancelFires, CancelEnds, CancelStores, CancelBroadcasts,
     CancelStep, CnlPC
<1>2. /\ TypeOK /\ NoLostWakeup /\ CountsHolders /\ IdleClean
      /\ call \in [Calls -> CallPC] /\ cnl \in [Calls -> CnlPC]
      /\ cerr \in [Calls -> BOOLEAN]
  BY DEF IndInv, TypeOK
<1>3. call[c] # "idle"
  BY <1>1, <1>2 DEF IdleClean
<1>4. \/ call' = call /\ cerr' = cerr /\ cnl[c] = "watching"
      \/ call' = call /\ cerr' = [cerr EXCEPT ![c] = TRUE]
                      /\ cnl' = [cnl EXCEPT ![c] = "stored"]
      \/ call' = Broadcast(call) /\ cerr' = cerr
  BY DEF Canceller, CancelFires, CancelEnds, CancelStores, CancelBroadcasts,
     CancelStep
<1>5. /\ call' \in [Calls -> CallPC]
      /\ \A d \in Calls :
           /\ call'[d] = "holding" <=> call[d] = "holding"
           /\ call'[d] = "idle" <=> call[d] = "idle"
  BY <1>2, <1>4, BroadcastWakes
<1>6. Holding' = Holding
  BY <1>5 DEF Holding
<1>7. CountsHolders'
  BY <1>1, <1>2, <1>6 DEF CountsHolders
<1>8. cerr' \in [Calls -> BOOLEAN] /\ cnl' \in [Calls -> CnlPC]
  BY <1>1, <1>2, <1>4
<1>9. TypeOK'
  BY <1>1, <1>2, <1>5, <1>8 DEF TypeOK
<1>10. IdleClean'
  BY <1>1, <1>2, <1>3, <1>4, <1>5 DEF IdleClean
<1>11. NoLostWakeup'
  BY <1>1, <1>2, <1>4, BroadcastWakes DEF NoLostWakeup, Room
<1> QED
  BY <1>1, <1>7, <1>9, <1>10, <1>11 DEF IndInv

LEMMA OpenKeeps ==
    ASSUME IndInv, Open
    PROVE  IndInv'
<1>1. /\ phase = "new" /\ phase' = "open"
      /\ effCap' \in {1} \cup RefreshedCaps(1)
      /\ poller' \in {"none", "watching"}
      /\ UNCHANGED <<mode, srvCap, cnt, call, cnl, cerr, ctx>>
  BY DEF Open
<1>2. /\ TypeOK /\ NoLostWakeup /\ CountsHolders /\ IdleClean
      /\ srvCap \in Nat
  BY DEF IndInv, TypeOK
<1>3. effCap' \in 0..CfgCap \cup {0, 1}
  <2>1. AllowedCap \in 0..CfgCap
    BY <1>2 DEF AllowedCap
  <2> QED
    BY <1>1, <2>1 DEF RefreshedCaps
<1>4. TypeOK'
  BY <1>1, <1>2, <1>3 DEF TypeOK
<1>5. \A c \in Calls : call'[c] = "idle"
  BY <1>1, <1>2 DEF IdleClean
<1>6. CountsHolders' /\ NoLostWakeup' /\ IdleClean'
  BY <1>1, <1>2, <1>5 DEF CountsHolders, Holding, NoLostWakeup, IdleClean
<1> QED
  BY <1>4, <1>6 DEF IndInv

\* The steps that touch neither the capacity, the count nor the calls.
LEMMA OthersKeep ==
    ASSUME IndInv,
           \/ Close \/ PollerStops \/ ServerChanges
           \/ \E c \in Calls : CancelContext(c)
           \/ UNCHANGED vars
    PROVE  IndInv' /\ cnt' = cnt
<1>1. /\ UNCHANGED <<mode, effCap, cnt, call, cnl, cerr>>
      /\ phase' = "new" => phase = "new"
  BY DEF Close, PollerStops, ServerChanges, CancelContext, vars
<1>2. TypeOK'
  BY DEF IndInv, TypeOK, Close, PollerStops, ServerChanges, CancelContext, vars
<1>3. Holding' = Holding
  BY <1>1 DEF Holding
<1>4. CountsHolders' /\ NoLostWakeup' /\ IdleClean'
  BY <1>1, <1>3 DEF IndInv, CountsHolders, NoLostWakeup, IdleClean, Room
<1> QED
  BY <1>1, <1>2, <1>4 DEF IndInv

LEMMA NextInv == IndInv /\ [Next]_vars => IndInv'
<1> SUFFICES ASSUME IndInv, [Next]_vars PROVE IndInv'
  OBVIOUS
<1>1. CASE Open
  BY <1>1, OpenKeeps
<1>2. CASE PollRefresh
  BY <1>2, PollRefreshKeeps
<1>3. CASE \E c \in Calls : Reserve(c)
  BY <1>3, ReserveKeeps
<1>4. CASE \E c \in Calls : Wakes(c)
  BY <1>4, WakesKeeps
<1>5. CASE \E c \in Calls : Release(c)
  BY <1>5, ReleaseKeeps
<1>6. CASE \E c \in Calls : Canceller(c)
  BY <1>6, CancellerKeeps
<1>7. CASE \/ Close \/ PollerStops \/ ServerChanges
           \/ \E c \in Calls : CancelContext(c)
           \/ UNCHANGED vars
  BY <1>7, OthersKeep
<1> QED
  BY <1>1, <1>2, <1>3, <1>4, <1>5, <1>6, <1>7 DEF Next

LEMMA Invariance == Spec => []IndInv
  BY InitInv, NextInv, PTL DEF Spec

\* The reservation's state is well typed and its capacity never exceeds the
\* configured one (or the one stream assumed at first).
THEOREM ReservationTyped == Spec => []TypeOK
<1>1. IndInv => TypeOK
  BY DEF IndInv
<1> QED
  BY <1>1, Invariance, PTL

\* For any number of calls, cnt is the number of streams handed out and not yet
\* closed.
THEOREM StreamsCounted == Spec => []CountsHolders
<1>1. IndInv => CountsHolders
  BY DEF IndInv
<1> QED
  BY <1>1, Invariance, PTL

\* For any number of calls and any change of capacity, no wake-up of the
\* condition variable is lost.
THEOREM WakeupsKept == Spec => []NoLostWakeup
<1>1. IndInv => NoLostWakeup
  BY DEF IndInv
<1> QED
  BY <1>1, Invariance, PTL

\* A stream is handed out only within the capacity of the moment.
THEOREM CapacityKept == Spec => WithinCapacity
<1> DEFINE Within == cnt' > cnt => cnt' = cnt + 1 /\ Room(effCap', cnt)
<1>1. ASSUME IndInv, [Next]_vars PROVE Within
  <2>1. cnt \in Nat
    BY <1>1 DEF IndInv, TypeOK
  <2>2. ASSUME NEW c \in Calls, Reserve(c) PROVE Within
    BY <2>1, <2>2 DEF Reserve, Takes, Sleeps
  <2>3. ASSUME NEW c \in Calls, Wakes(c) PROVE Within
    BY <2>1, <2>3 DEF Wakes, Takes, Sleeps
  <2>4. ASSUME NEW c \in Calls, Release(c) PROVE Within
    <3>1. cnt' <= cnt /\ cnt' \in Nat
      BY <1>1, <2>4, ReleaseKeeps DEF IndInv, TypeOK
    <3> QED
      BY <2>1, <3>1
  <2>5. CASE Open \/ PollRefresh
    BY <2>1, <2>5 DEF Open, PollRefresh
  <2>6. ASSUME NEW c \in Calls, Canceller(c) PROVE Within
    BY <1>1, <2>1, <2>6, CancellerKeeps
  <2>7. CASE \/ Close \/ PollerStops \/ ServerChanges
             \/ \E c \in Calls : CancelContext(c)
             \/ UNCHANGED vars
    BY <1>1, <2>1, <2>7, OthersKeep
  <2> QED
    BY <1>1, <2>2, <2>3, <2>4, <2>5, <2>6, <2>7 DEF Next
<1>2. IndInv /\ [Next]_vars => [Within]_vars
  BY <1>1
<1> QED
  BY <1>2, Invariance, PTL DEF Spec, WithinCapacity
=============================================================================
