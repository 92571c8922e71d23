------------------------- MODULE OmegaBridgeProofs -------------------------
(***************************************************************************)
(* Proofs about OmegaBridge for any number of signals, brokers and         *)
(* overlapping cycles, and any set of faults.                              *)
(***************************************************************************)
EXTENDS OmegaBridge, FiniteSetTheorems, TLAPS

(* Rows are named by a trade and an engine, and by nothing else. *)
LEMMA TradeType == \A t \in Trades : t.signal \in Signals /\ t.broker \in Brokers
BY DEF Trades

LEMMA RowType == \A t \in Trades : OmegaRow(t) \in RowIds /\ ReconciledRow(t) \in RowIds
BY DEF RowIds, OmegaRow, ReconciledRow

LEMMA RowTrade ==
  /\ \A t \in Trades : OmegaRow(t).trade = t /\ ReconciledRow(t).trade = t
  /\ \A r \in RowIds : r.trade \in Trades
BY DEF RowIds, OmegaRow, ReconciledRow

LEMMA RowDistinct ==
  /\ \A t, u \in Trades : OmegaRow(t) = OmegaRow(u) => t = u
  /\ \A t, u \in Trades : OmegaRow(t) # ReconciledRow(u)
BY DEF OmegaRow, ReconciledRow

LEMMA OmegaEngine == \A t \in Trades : OmegaRow(t).engine = "omega"
BY DEF OmegaRow

(* A close request, answered or not, leaves the venue well typed. *)
LEMMA CloseType ==
  ASSUME NEW t \in Trades, venue \in [Trades -> VenueStates], CloseReturns(t) \/ CloseThrows(t)
  PROVE  venue' \in [Trades -> VenueStates]
BY DEF CloseReturns, CloseThrows, VenueStates

LEMMA BumpType == \A n \in 0..Cap : Bump(n) \in 0..Cap
BY DEF Cap, Bump

-----------------------------------------------------------------------------
LEMMA InitInv == Init => IInv
<1> SUFFICES ASSUME Init PROVE IInv
  OBVIOUS
<1> USE DEF Init, StoreInit, RouterInit, MonitorInit, SessionInit
<1>1. TypeOK
  BY DEF TypeOK, StoreTypeOK, RouterTypeOK, MonitorTypeOK, SessionTypeOK, VenueStates, RowStates, Cap,
         SignalPcs, LegPcs, CyclePcs, None
<1>2. OrderHasRow
  BY DEF OrderHasRow
<1>3. LegInv
  BY RowType, TradeType DEF LegInv
<1>4. CloserInv
  BY DEF CloserInv
<1>5. LogInv
  BY RowType DEF LogInv, Once, Reached
<1>6. SessionInv
  BY DEF SessionInv
<1> QED
  BY <1>1, <1>2, <1>3, <1>4, <1>5, <1>6 DEF IInv

-----------------------------------------------------------------------------
(* Type correctness is preserved by every step. *)
LEMMA TypeNext == TypeOK /\ [Next]_vars => TypeOK'
<1> SUFFICES ASSUME TypeOK, [Next]_vars PROVE TypeOK'
  OBVIOUS
<1> USE RowType, RowTrade, BumpType
    DEF TypeOK, StoreTypeOK, RouterTypeOK, MonitorTypeOK, SessionTypeOK, VenueStates, RowStates,
        SignalPcs, LegPcs, CyclePcs, storeVars, routerVars, monitorVars, sessionVars, Goto, LegGoto,
        CycleAt, Visited, MarkClosed, ProcessDies
<1>1. CASE Router
  <2>1. ASSUME NEW d \in Directions, SetDirection(d), UNCHANGED <<monitorVars, sessionVars, bootOpen>> PROVE TypeOK'
    BY <2>1 DEF SetDirection
  <2>2. ASSUME NEW s \in Signals, Receive(s) \/ SignalStep(s), UNCHANGED <<monitorVars, sessionVars, bootOpen>> PROVE TypeOK'
    <3>1. CASE Receive(s)
      BY <2>2, <3>1 DEF Receive
    <3>2. CASE GiveUp(s)
      BY <2>2, <3>2 DEF GiveUp
    <3>3. CASE DetectFlip(s)
      <4>1. StoreTypeOK'
        BY <2>2, <3>3 DEF DetectFlip
      <4>2. RouterTypeOK'
        <5>1. (pc \in [Signals -> SignalPcs])'
          BY <2>2, <3>3 DEF DetectFlip
        <5>2. (from \in [Signals -> Directions \cup {None}])'
          BY <2>2, <3>3 DEF DetectFlip
        <5>3. (cachedDir \in Directions \cup {None})'
          BY <2>2, <3>3 DEF DetectFlip
        <5> QED
          BY <2>2, <3>3, <5>1, <5>2, <5>3 DEF DetectFlip
      <4>3. MonitorTypeOK'
        BY <2>2, <3>3 DEF DetectFlip
      <4>4. (SessionTypeOK /\ bootOpen \in SUBSET Trades)'
        BY <2>2, <3>3 DEF DetectFlip
      <4> QED
        BY <4>1, <4>2, <4>3, <4>4
    <3>4. CASE SelectOpposing(s)
      BY <2>2, <3>4 DEF SelectOpposing, OpenOmega
    <3>5. CASE FlipDone(s)
      BY <2>2, <3>5 DEF FlipDone
    <3>6. CASE Sequence(s)
      BY <2>2, <3>6 DEF Sequence
    <3>7. CASE FinishRoutes(s)
      BY <2>2, <3>7 DEF FinishRoutes
    <3>8. ASSUME NEW t \in Trades, FlipClose(s, t) PROVE TypeOK'
      <4>1. StoreTypeOK'
        BY <2>2, <3>8, CloseType DEF FlipClose
      <4>2. RouterTypeOK'
        BY <2>2, <3>8 DEF FlipClose
      <4>3. MonitorTypeOK'
        BY <2>2, <3>8 DEF FlipClose
      <4>4. (SessionTypeOK /\ bootOpen \in SUBSET Trades)'
        BY <2>2, <3>8 DEF FlipClose
      <4> QED
        BY <4>1, <4>2, <4>3, <4>4
    <3>9. ASSUME NEW t \in Trades, FlipWrite(s, t) PROVE TypeOK'
      BY <2>2, <3>9 DEF FlipWrite
    <3> QED
      BY <2>2, <3>1, <3>2, <3>3, <3>4, <3>5, <3>6, <3>7, <3>8, <3>9 DEF SignalStep
  <2>3. ASSUME NEW t \in Trades, LegStep(t), UNCHANGED <<monitorVars, sessionVars, bootOpen>> PROVE TypeOK'
    <3>1. CASE StartLeg(t)
      BY <2>3, <3>1 DEF StartLeg
    <3>2. CASE LegGate(t)
      BY <2>3, <3>2 DEF LegGate
    <3>3. CASE LegInsert(t)
      <4>1. StoreTypeOK'
        BY <2>3, <3>3 DEF LegInsert
      <4>2. RouterTypeOK'
        BY <2>3, <3>3 DEF LegInsert
      <4>3. MonitorTypeOK'
        BY <2>3, <3>3 DEF LegInsert
      <4>4. (SessionTypeOK /\ bootOpen \in SUBSET Trades)'
        BY <2>3, <3>3 DEF LegInsert
      <4> QED
        BY <4>1, <4>2, <4>3, <4>4
    <3>4. CASE LegPlace(t)
      BY <2>3, <3>4 DEF LegPlace
    <3>5. CASE LegReply(t)
      BY <2>3, <3>5 DEF LegReply
    <3>6. CASE LegCancel(t)
      BY <2>3, <3>6 DEF LegCancel
    <3>7. CASE LegUpdate(t)
      <4>1. StoreTypeOK'
        BY <2>3, <3>7 DEF LegUpdate
      <4>2. RouterTypeOK'
        BY <2>3, <3>7 DEF LegUpdate
      <4>3. MonitorTypeOK'
        BY <2>3, <3>7 DEF LegUpdate
      <4>4. (SessionTypeOK /\ bootOpen \in SUBSET Trades)'
        BY <2>3, <3>7 DEF LegUpdate
      <4> QED
        BY <4>1, <4>2, <4>3, <4>4
    <3> QED
      BY <2>3, <3>1, <3>2, <3>3, <3>4, <3>5, <3>6, <3>7 DEF LegStep
  <2> QED
    BY <1>1, <2>1, <2>2, <2>3 DEF Router, RouterStep
<1>2. CASE Monitor
  <2> SUFFICES ASSUME NEW c \in Cycles, CycleStep(c), UNCHANGED <<routerVars, sessionVars, bootOpen>> PROVE TypeOK'
    BY <1>2 DEF Monitor, MonitorStep
  <2>1. CASE CycleStart(c)
    BY <2>1 DEF CycleStart, OpenRows
  <2>2. CASE CycleIndex(c)
    BY <2>2 DEF CycleIndex
  <2>3. CASE CycleFails(c)
    BY <2>3 DEF CycleFails
  <2>4. CASE CycleEnd(c)
    BY <2>4 DEF CycleEnd
  <2>5. ASSUME NEW r \in RowIds, RowSkip(c, r) PROVE TypeOK'
    BY <2>5 DEF RowSkip
  <2>6. ASSUME NEW r \in RowIds, RowSeenClosed(c, r) PROVE TypeOK'
    BY <2>6 DEF RowSeenClosed
  <2>7. ASSUME NEW r \in RowIds, RowMaxHold(c, r) PROVE TypeOK'
    <3>1. StoreTypeOK'
      BY <2>7, CloseType DEF RowMaxHold
    <3>2. RouterTypeOK'
      BY <2>7 DEF RowMaxHold
    <3>3. MonitorTypeOK'
      <4>1. (at \in [Cycles -> CyclePcs])'
        BY <2>7 DEF RowMaxHold
      <4>2. (rows \in [Cycles -> SUBSET RowIds])'
        BY <2>7 DEF RowMaxHold
      <4>3. (closing \in [Cycles -> SUBSET RowIds])'
        BY <2>7 DEF RowMaxHold
      <4> QED
        BY <2>7, <4>1, <4>2, <4>3 DEF RowMaxHold
    <3>4. (SessionTypeOK /\ bootOpen \in SUBSET Trades)'
      BY <2>7 DEF RowMaxHold
    <3> QED
      BY <3>1, <3>2, <3>3, <3>4
  <2>8. ASSUME NEW r \in RowIds, RowTrailStop(c, r) PROVE TypeOK'
    <3>1. StoreTypeOK'
      BY <2>8, CloseType DEF RowTrailStop
    <3>2. RouterTypeOK'
      BY <2>8 DEF RowTrailStop
    <3>3. MonitorTypeOK'
      <4>1. at' \in [Cycles -> CyclePcs]
        BY <2>8 DEF RowTrailStop
      <4>2. closing' \in [Cycles -> SUBSET RowIds] /\ rows' \in [Cycles -> SUBSET RowIds]
        BY <2>8 DEF RowTrailStop
      <4> QED
        BY <2>8, <4>1, <4>2 DEF RowTrailStop
    <3>4. (SessionTypeOK /\ bootOpen \in SUBSET Trades)'
      BY <2>8 DEF RowTrailStop
    <3> QED
      BY <3>1, <3>2, <3>3, <3>4
  <2>9. ASSUME NEW r \in RowIds, Finalize(c, r) PROVE TypeOK'
    <3>1. StoreTypeOK'
      <4>1. booked' \in [Trades -> 0..Cap] /\ alerted' \in [RowIds -> 0..Cap]
        BY <2>9 DEF Finalize
      <4>2. status' \in [RowIds -> RowStates]
        BY <2>9 DEF Finalize
      <4> QED
        BY <2>9, <4>1, <4>2 DEF Finalize
    <3>2. RouterTypeOK'
      BY <2>9 DEF Finalize
    <3>3. MonitorTypeOK'
      BY <2>9 DEF Finalize
    <3>4. (SessionTypeOK /\ bootOpen \in SUBSET Trades)'
      BY <2>9 DEF Finalize
    <3> QED
      BY <3>1, <3>2, <3>3, <3>4
  <2>10. ASSUME NEW r \in RowIds, TrailWrite(c, r) PROVE TypeOK'
    BY <2>10 DEF TrailWrite
  <2> QED
    BY <2>1, <2>2, <2>3, <2>4, <2>5, <2>6, <2>7, <2>8, <2>9, <2>10 DEF CycleStep
<1>3. CASE Venue
  <2>1. venue' \in [Trades -> VenueStates] /\ UNCHANGED <<status, booked, alerted, up>>
    BY <1>3 DEF Venue, VenueFill, VenueReject, VenueExit
  <2> QED
    BY <1>3, <2>1 DEF Venue
<1>4. CASE Crash
  BY <1>4 DEF Crash
<1>5. CASE Restart
  BY <1>5 DEF Restart, None
<1>6. CASE Reconcile
  BY <1>6 DEF Reconcile
<1>7. CASE UNCHANGED vars
  BY <1>7 DEF vars
<1>8. CASE Session
  <2>1. CASE SessionStart(cfgDir) \/ SessionSelect \/ SessionEnd
    BY <1>8, <2>1 DEF Session, SessionStart, SessionSelect, SessionEnd, OpenOmega
  <2>2. ASSUME NEW t \in Trades, SessionCloseTrade(t) PROVE TypeOK'
    <3>1. StoreTypeOK'
      BY <2>2, CloseType DEF SessionCloseTrade
    <3>2. SessionTypeOK'
      BY <2>2 DEF SessionCloseTrade
    <3>3. RouterTypeOK' /\ MonitorTypeOK' /\ (bootOpen \in SUBSET Trades)'
      BY <1>8 DEF Session
    <3> QED
      BY <3>1, <3>2, <3>3
  <2>3. ASSUME NEW t \in Trades, SessionWrite(t) PROVE TypeOK'
    BY <1>8, <2>3 DEF Session, SessionWrite
  <2> QED
    BY <1>8, <2>1, <2>2, <2>3 DEF Session, SessionStep
<1> QED
  BY <1>1, <1>2, <1>3, <1>4, <1>5, <1>6, <1>7, <1>8 DEF Next

(* Every variable holds a value of its type in every reachable state. *)
THEOREM TypeCorrect == Spec => []TypeOK
<1>1. Init => TypeOK
  BY InitInv DEF IInv
<1> QED
  BY <1>1, TypeNext, PTL DEF Spec
-----------------------------------------------------------------------------
(* The session close does one of three things to what others see: nothing, *)
(* the end of an open trade, and the end of the row of a trade whose close *)
(* it had answered.                                                        *)
EndsTrade(t) ==
  /\ venue[t] = "open"
  /\ venue' = [venue EXCEPT ![t] = "closed"]
  /\ UNCHANGED <<status, booked, alerted, up>>

EndsRow(t) ==
  /\ Once(OmegaRow(t)) /\ (Honest => venue[t] = "closed")
  /\ MarkClosed(OmegaRow(t))
  /\ UNCHANGED <<venue, booked, alerted, up>>

LEMMA SessionShape ==
  ASSUME SessionInv, Session
  PROVE  /\ UNCHANGED <<routerVars, monitorVars, bootOpen>>
         /\ up = "up"
         /\ UNCHANGED storeVars \/ \E t \in Trades : EndsTrade(t) \/ EndsRow(t)
<1> USE DEF storeVars
<1>1. CASE SessionStart(cfgDir) \/ SessionSelect \/ SessionEnd
  BY <1>1 DEF Session, SessionStart, SessionSelect, SessionEnd
<1>2. ASSUME NEW t \in Trades, SessionCloseTrade(t)
      PROVE  up = "up" /\ (UNCHANGED storeVars \/ EndsTrade(t))
  BY <1>2 DEF SessionCloseTrade, CloseReturns, CloseThrows, EndsTrade
<1>3. ASSUME NEW t \in Trades, SessionWrite(t)
      PROVE  up = "up" /\ (UNCHANGED storeVars \/ EndsRow(t))
  BY <1>3 DEF SessionWrite, SessionInv, EndsRow
<1> QED
  BY <1>1, <1>2, <1>3 DEF Session, SessionStep

(* Startup changes the log in two ways only: a row of its own for a trade  *)
(* it found, and the end of an open row whose trade is closed.             *)
LEMMA ReconcileChanges ==
  ASSUME TypeOK, Reconcile
  PROVE  \A r \in RowIds : status'[r] # status[r] =>
           \/ /\ r \in { ReconciledRow(t) : t \in bootOpen }
              /\ status[r] = "none" /\ status'[r] = "open"
           \/ /\ status[r] = "open" /\ status'[r] = "closed"
              /\ venue[r.trade] = "closed"
<1> USE RowType DEF TypeOK, StoreTypeOK
<1>1. PICK open \in LogReads, unsaved \in Skips({"dbWrite"}), unread \in Skips({"dbWrite", "fetch"}) :
        status' = [r \in RowIds |-> IF r \in Adopted(open) \ unsaved THEN "open"
                                    ELSE IF r \in Ghosts(open) \ unread THEN "closed"
                                    ELSE status[r]]
  BY Zenon DEF Reconcile
<1>2. ASSUME NEW r \in Adopted(open)
      PROVE  r \in { ReconciledRow(t) : t \in bootOpen } /\ status[r] = "none"
  BY <1>2 DEF Adopted
<1>3. ASSUME NEW r \in Ghosts(open) PROVE status[r] = "open" /\ venue[r.trade] = "closed"
  BY <1>3 DEF Ghosts, LogReads, OpenRows
<1> QED
  BY <1>1, <1>2, <1>3

(* What was once open or closed in the log stays so, and a trade that is   *)
(* closed stays closed.                                                    *)
Lasts ==
  /\ \A r \in RowIds : Once(r) => Once(r)'
  /\ \A t \in Trades : venue[t] = "closed" => venue'[t] = "closed"

LEMMA LastsStep ==
  ASSUME IInv, [Next]_vars
  PROVE  Lasts
<1> USE RowType, RowTrade, RowDistinct
    DEF IInv, TypeOK, StoreTypeOK, storeVars, MarkClosed, ProcessDies, Once, Lasts
<1>1. CASE Router
  <2>1. ASSUME NEW t \in Trades, LegStep(t) PROVE Lasts
    BY <2>1 DEF LegStep, LegInv, StartLeg, LegGate, LegInsert, LegPlace, LegReply, LegCancel, LegUpdate
  <2>2. ASSUME NEW s \in Signals, NEW t \in Trades, FlipClose(s, t) PROVE Lasts
    BY <2>2 DEF FlipClose, CloseReturns, CloseThrows
  <2>3. ASSUME NEW s \in Signals, NEW t \in Trades, FlipWrite(s, t) PROVE Lasts
    BY <2>3 DEF FlipWrite
  <2>4. ASSUME NEW s \in Signals,
               \/ Receive(s) \/ GiveUp(s) \/ DetectFlip(s) \/ SelectOpposing(s)
               \/ FlipDone(s) \/ Sequence(s) \/ FinishRoutes(s)
        PROVE Lasts
    BY <2>4 DEF Receive, GiveUp, DetectFlip, SelectOpposing, FlipDone, Sequence, FinishRoutes
  <2> QED
    BY <1>1, <2>1, <2>2, <2>3, <2>4 DEF Router, RouterStep, SignalStep, SetDirection
<1>2. CASE Monitor
  <2>1. PICK c \in Cycles : CycleStep(c)
    BY <1>2 DEF Monitor, MonitorStep
  <2>2. ASSUME NEW r \in RowIds, Finalize(c, r) \/ TrailWrite(c, r) PROVE Lasts
    BY <2>2 DEF Finalize, TrailWrite
  <2>3. ASSUME NEW r \in RowIds, RowMaxHold(c, r) \/ RowTrailStop(c, r) PROVE Lasts
    BY <2>3 DEF RowMaxHold, RowTrailStop, CloseReturns, CloseThrows
  <2>4. ASSUME NEW r \in RowIds, RowSkip(c, r) \/ RowSeenClosed(c, r) PROVE Lasts
    BY <2>4 DEF RowSkip, RowSeenClosed
  <2>5. CASE CycleStart(c) \/ CycleIndex(c) \/ CycleFails(c) \/ CycleEnd(c)
    BY <2>5 DEF CycleStart, CycleIndex, CycleFails, CycleEnd
  <2> QED
    BY <2>1, <2>2, <2>3, <2>4, <2>5 DEF CycleStep
<1>3. CASE Venue \/ Crash \/ Restart
  BY <1>3 DEF Venue, VenueFill, VenueReject, VenueExit, Crash, Restart
<1>4. CASE Reconcile
  BY <1>4, ReconcileChanges DEF Reconcile
<1>5. CASE UNCHANGED vars
  BY <1>5 DEF vars
<1>6. CASE Session
  BY <1>6, SessionShape DEF EndsTrade, EndsRow
<1> QED
  BY <1>1, <1>2, <1>3, <1>4, <1>5, <1>6 DEF Next

(* What the session close holds is true when it is used.                   *)
LEMMA SessionHolds ==
  ASSUME IInv, [Next]_vars
  PROVE  SessionInv'
<1>1. Lasts
  BY LastsStep
<1>2. sessionTodo \subseteq Trades /\ sessionCur \subseteq Trades
  BY DEF IInv, TypeOK, SessionTypeOK
<1>3. SessionInv
  BY DEF IInv
<1>4. CASE UNCHANGED sessionVars
  BY <1>1, <1>2, <1>3, <1>4, RowType DEF SessionInv, sessionVars, Lasts, Honest
<1>5. CASE SessionStart(cfgDir) \/ SessionEnd
  BY <1>1, <1>2, <1>3, <1>5, RowType DEF SessionStart, SessionEnd, SessionInv, Lasts, Honest
<1>6. CASE SessionSelect
  <2>1. \A t \in sessionTodo' : t \in Trades /\ Once(OmegaRow(t))
    BY <1>6 DEF SessionSelect, OpenOmega, Once
  <2>2. sessionCur' = sessionCur
    BY <1>6 DEF SessionSelect
  <2> QED
    BY <1>1, <1>2, <1>3, <2>1, <2>2, RowType DEF SessionInv, Lasts, Honest
<1>7. ASSUME NEW t \in Trades, SessionCloseTrade(t) PROVE SessionInv'
  <2>1. sessionTodo' \subseteq sessionTodo /\ t \in sessionTodo
    BY <1>7 DEF SessionCloseTrade
  <2>2. sessionCur' = sessionCur \/ (sessionCur' = {t} /\ CloseReturns(t))
    BY <1>7 DEF SessionCloseTrade
  <2>3. CloseReturns(t) /\ Honest => venue'[t] = "closed"
    BY DEF CloseReturns, Honest, IInv, TypeOK, StoreTypeOK
  <2> QED
    BY <1>1, <1>2, <1>3, <2>1, <2>2, <2>3, RowType DEF SessionInv, Lasts, Honest
<1>8. ASSUME NEW t \in Trades, SessionWrite(t) PROVE SessionInv'
  BY <1>1, <1>2, <1>3, <1>8, RowType DEF SessionWrite, SessionInv, Lasts
<1>9. CASE Restart
  BY <1>9 DEF Restart, SessionInv
<1> QED
  BY <1>4, <1>5, <1>6, <1>7, <1>8, <1>9
     DEF Next, Router, Monitor, Session, SessionStep, Venue, Crash, Reconcile, vars

(* Safety: the inductive invariant is preserved by every step. *)
LEMMA InvNext == IInv /\ [Next]_vars => IInv'
<1> SUFFICES ASSUME IInv, [Next]_vars PROVE IInv'
  OBVIOUS
<1>0. TypeOK'
  BY TypeNext DEF IInv
<1>10. SessionInv'
  BY SessionHolds
<1>9. SUFFICES OrderHasRow' /\ LegInv' /\ CloserInv' /\ LogInv'
  BY <1>0, <1>10 DEF IInv
<1> USE RowType, RowTrade, RowDistinct, TradeType
    DEF IInv, TypeOK, StoreTypeOK, RouterTypeOK, MonitorTypeOK, storeVars, routerVars, monitorVars, sessionVars,
        Goto, LegGoto, CycleAt, Visited, MarkClosed, CloseReturns, CloseThrows, ProcessDies
<1>1. CASE Router
  <2>1. ASSUME NEW d \in Directions, SetDirection(d), UNCHANGED <<monitorVars, sessionVars, bootOpen>> PROVE OrderHasRow' /\ LegInv' /\ CloserInv' /\ LogInv'
    <3>1. OrderHasRow'
      BY <2>1 DEF SetDirection, OrderHasRow
    <3>2. LegInv'
      BY <2>1 DEF SetDirection, LegInv
    <3>3. CloserInv'
      BY <2>1 DEF SetDirection, CloserInv, Once, Reached
    <3>4. LogInv'
      BY <2>1 DEF SetDirection, LogInv, Once, Reached
    <3> QED
      BY <3>1, <3>2, <3>3, <3>4
  <2>2. ASSUME NEW s \in Signals, Receive(s), UNCHANGED <<monitorVars, sessionVars, bootOpen>> PROVE OrderHasRow' /\ LegInv' /\ CloserInv' /\ LogInv'
    <3>1. OrderHasRow'
      BY <2>2 DEF Receive, OrderHasRow
    <3>2. LegInv'
      BY <2>2 DEF Receive, LegInv
    <3>3. CloserInv'
      BY <2>2 DEF Receive, CloserInv, Once, Reached
    <3>4. LogInv'
      BY <2>2 DEF Receive, LogInv, Once, Reached
    <3> QED
      BY <3>1, <3>2, <3>3, <3>4
  <2>3. ASSUME NEW s \in Signals, GiveUp(s), UNCHANGED <<monitorVars, sessionVars, bootOpen>> PROVE OrderHasRow' /\ LegInv' /\ CloserInv' /\ LogInv'
    <3>1. OrderHasRow'
      BY <2>3 DEF GiveUp, OrderHasRow
    <3>2. LegInv'
      BY <2>3 DEF GiveUp, LegInv
    <3>3. CloserInv'
      BY <2>3 DEF GiveUp, CloserInv, Once, Reached
    <3>4. LogInv'
      BY <2>3 DEF GiveUp, LogInv, Once, Reached
    <3> QED
      BY <3>1, <3>2, <3>3, <3>4
  <2>4. ASSUME NEW s \in Signals, DetectFlip(s), UNCHANGED <<monitorVars, sessionVars, bootOpen>> PROVE OrderHasRow' /\ LegInv' /\ CloserInv' /\ LogInv'
    <3>1. OrderHasRow'
      BY <2>4 DEF DetectFlip, OrderHasRow
    <3>2. LegInv'
      BY <2>4 DEF DetectFlip, LegInv
    <3>3. CloserInv'
      BY <2>4 DEF DetectFlip, CloserInv, Once, Reached
    <3>4. LogInv'
      BY <2>4 DEF DetectFlip, LogInv, Once, Reached
    <3> QED
      BY <3>1, <3>2, <3>3, <3>4
  <2>5. ASSUME NEW s \in Signals, SelectOpposing(s), UNCHANGED <<monitorVars, sessionVars, bootOpen>> PROVE OrderHasRow' /\ LegInv' /\ CloserInv' /\ LogInv'
    <3>1. OrderHasRow'
      BY <2>5 DEF SelectOpposing, OpenOmega, OrderHasRow
    <3>2. LegInv'
      BY <2>5 DEF SelectOpposing, OpenOmega, LegInv
    <3>3. CloserInv'
      BY <2>5 DEF SelectOpposing, OpenOmega, CloserInv, Once, Reached
    <3>4. LogInv'
      BY <2>5 DEF SelectOpposing, OpenOmega, LogInv, Once, Reached
    <3> QED
      BY <3>1, <3>2, <3>3, <3>4
  <2>6. ASSUME NEW s \in Signals, FlipDone(s), UNCHANGED <<monitorVars, sessionVars, bootOpen>> PROVE OrderHasRow' /\ LegInv' /\ CloserInv' /\ LogInv'
    <3>1. OrderHasRow'
      BY <2>6 DEF FlipDone, OrderHasRow
    <3>2. LegInv'
      BY <2>6 DEF FlipDone, LegInv
    <3>3. CloserInv'
      BY <2>6 DEF FlipDone, CloserInv, Once, Reached
    <3>4. LogInv'
      BY <2>6 DEF FlipDone, LogInv, Once, Reached
    <3> QED
      BY <3>1, <3>2, <3>3, <3>4
  <2>7. ASSUME NEW s \in Signals, Sequence(s), UNCHANGED <<monitorVars, sessionVars, bootOpen>> PROVE OrderHasRow' /\ LegInv' /\ CloserInv' /\ LogInv'
    <3>1. OrderHasRow'
      BY <2>7 DEF Sequence, OrderHasRow
    <3>2. LegInv'
      BY <2>7 DEF Sequence, LegInv
    <3>3. CloserInv'
      BY <2>7 DEF Sequence, CloserInv, Once, Reached
    <3>4. LogInv'
      BY <2>7 DEF Sequence, LogInv, Once, Reached
    <3> QED
      BY <3>1, <3>2, <3>3, <3>4
  <2>8. ASSUME NEW s \in Signals, FinishRoutes(s), UNCHANGED <<monitorVars, sessionVars, bootOpen>> PROVE OrderHasRow' /\ LegInv' /\ CloserInv' /\ LogInv'
    <3>1. OrderHasRow'
      BY <2>8 DEF FinishRoutes, OrderHasRow
    <3>2. LegInv'
      BY <2>8 DEF FinishRoutes, LegInv
    <3>3. CloserInv'
      BY <2>8 DEF FinishRoutes, CloserInv, Once, Reached
    <3>4. LogInv'
      BY <2>8 DEF FinishRoutes, LogInv, Once, Reached
    <3> QED
      BY <3>1, <3>2, <3>3, <3>4
  <2>9. ASSUME NEW s \in Signals, NEW t \in Trades, FlipClose(s, t), UNCHANGED <<monitorVars, sessionVars, bootOpen>> PROVE OrderHasRow' /\ LegInv' /\ CloserInv' /\ LogInv'
    <3>1. \A q \in RowIds : Once(q) => Once(q)'
      BY <2>9 DEF FlipClose, Once
    <3>2. \A u \in Trades : Reached(u) => Reached(u)'
      BY <2>9 DEF FlipClose, Reached
    <3>3. \A u \in Trades : venue[u] = "closed" => venue'[u] = "closed"
      BY <2>9 DEF FlipClose
    <3>4. OrderHasRow'
      BY <2>9 DEF FlipClose, OrderHasRow
    <3>5. LegInv'
      BY <2>9 DEF FlipClose, LegInv
    <3>6. CloserInv'
      BY <2>9, <3>1, <3>2, <3>3 DEF FlipClose, CloserInv, Honest
    <3>7. LogInv'
      BY <2>9 DEF FlipClose, LogInv, Once, Reached
    <3> QED
      BY <3>4, <3>5, <3>6, <3>7
  <2>10. ASSUME NEW s \in Signals, NEW t \in Trades, FlipWrite(s, t), UNCHANGED <<monitorVars, sessionVars, bootOpen>> PROVE OrderHasRow' /\ LegInv' /\ CloserInv' /\ LogInv'
    <3>1. \A q \in RowIds : Once(q) => Once(q)'
      BY <2>10 DEF FlipWrite, Once
    <3>2. \A u \in Trades : Reached(u) => Reached(u)'
      BY <2>10 DEF FlipWrite, Reached
    <3>3. \A u \in Trades : venue[u] = "closed" => venue'[u] = "closed"
      BY <2>10 DEF FlipWrite
    <3>4. OrderHasRow'
      BY <2>10 DEF FlipWrite, OrderHasRow
    <3>5. LegInv'
      BY <2>10 DEF FlipWrite, LegInv, CloserInv, Once, Reached
    <3>6. CloserInv'
      BY <2>10, <3>1, <3>2, <3>3 DEF FlipWrite, CloserInv
    <3>7. LogInv'
      BY <2>10 DEF FlipWrite, LogInv, CloserInv, Once, Reached
    <3> QED
      BY <3>4, <3>5, <3>6, <3>7
  <2>11. ASSUME NEW t \in Trades, StartLeg(t), UNCHANGED <<monitorVars, sessionVars, bootOpen>> PROVE OrderHasRow' /\ LegInv' /\ CloserInv' /\ LogInv'
    <3>1. OrderHasRow'
      BY <2>11 DEF StartLeg, OrderHasRow
    <3>2. LegInv'
      BY <2>11 DEF StartLeg, LegInv
    <3>3. CloserInv'
      BY <2>11 DEF StartLeg, CloserInv, Once, Reached
    <3>4. LogInv'
      BY <2>11 DEF StartLeg, LogInv, Once, Reached
    <3> QED
      BY <3>1, <3>2, <3>3, <3>4
  <2>12. ASSUME NEW t \in Trades, LegGate(t), UNCHANGED <<monitorVars, sessionVars, bootOpen>> PROVE OrderHasRow' /\ LegInv' /\ CloserInv' /\ LogInv'
    <3>1. OrderHasRow'
      BY <2>12 DEF LegGate, OrderHasRow
    <3>2. LegInv'
      BY <2>12 DEF LegGate, LegInv
    <3>3. CloserInv'
      BY <2>12 DEF LegGate, CloserInv, Once, Reached
    <3>4. LogInv'
      BY <2>12 DEF LegGate, LogInv, Once, Reached
    <3> QED
      BY <3>1, <3>2, <3>3, <3>4
  <2>13. ASSUME NEW t \in Trades, LegInsert(t), UNCHANGED <<monitorVars, sessionVars, bootOpen>> PROVE OrderHasRow' /\ LegInv' /\ CloserInv' /\ LogInv'
    <3>1. \A q \in RowIds : Once(q) => Once(q)'
      BY <2>13 DEF LegInsert, Once, LegInv
    <3>2. \A u \in Trades : Reached(u) => Reached(u)'
      BY <2>13 DEF LegInsert, Reached, LegInv
    <3>3. \A u \in Trades : venue[u] = "closed" => venue'[u] = "closed"
      BY <2>13 DEF LegInsert, LegInv
    <3>4. OrderHasRow'
      BY <2>13 DEF LegInsert, OrderHasRow
    <3>5. LegInv'
      BY <2>13 DEF LegInsert, LegInv
    <3>6. CloserInv'
      BY <2>13, <3>1, <3>2, <3>3 DEF LegInsert, CloserInv
    <3>7. LogInv'
      BY <2>13 DEF LegInsert, LogInv, Once, Reached
    <3> QED
      BY <3>4, <3>5, <3>6, <3>7
  <2>14. ASSUME NEW t \in Trades, LegPlace(t), UNCHANGED <<monitorVars, sessionVars, bootOpen>> PROVE OrderHasRow' /\ LegInv' /\ CloserInv' /\ LogInv'
    <3>1. \A q \in RowIds : Once(q) => Once(q)'
      BY <2>14 DEF LegPlace, Once, LegInv
    <3>2. \A u \in Trades : Reached(u) => Reached(u)'
      BY <2>14 DEF LegPlace, Reached, LegInv
    <3>3. \A u \in Trades : venue[u] = "closed" => venue'[u] = "closed"
      BY <2>14 DEF LegPlace, LegInv
    <3>4. OrderHasRow'
      BY <2>14 DEF LegPlace, OrderHasRow, LegInv
    <3>5. LegInv'
      BY <2>14 DEF LegPlace, LegInv
    <3>6. CloserInv'
      BY <2>14, <3>1, <3>2, <3>3 DEF LegPlace, CloserInv
    <3>7. LogInv'
      BY <2>14 DEF LegPlace, LogInv, LegInv, Once, Reached
    <3> QED
      BY <3>4, <3>5, <3>6, <3>7
  <2>15. ASSUME NEW t \in Trades, LegReply(t), UNCHANGED <<monitorVars, sessionVars, bootOpen>> PROVE OrderHasRow' /\ LegInv' /\ CloserInv' /\ LogInv'
    <3>1. OrderHasRow'
      BY <2>15 DEF LegReply, OrderHasRow
    <3>2. LegInv'
      BY <2>15 DEF LegReply, LegInv
    <3>3. CloserInv'
      BY <2>15 DEF LegReply, CloserInv, Once, Reached
    <3>4. LogInv'
      BY <2>15 DEF LegReply, LogInv, Once, Reached
    <3> QED
      BY <3>1, <3>2, <3>3, <3>4
  <2>16. ASSUME NEW t \in Trades, LegCancel(t), UNCHANGED <<monitorVars, sessionVars, bootOpen>> PROVE OrderHasRow' /\ LegInv' /\ CloserInv' /\ LogInv'
    <3>1. \A q \in RowIds : Once(q) => Once(q)'
      BY <2>16 DEF LegCancel, Once, LegInv
    <3>2. \A u \in Trades : Reached(u) => Reached(u)'
      BY <2>16 DEF LegCancel, Reached, LegInv
    <3>3. \A u \in Trades : venue[u] = "closed" => venue'[u] = "closed"
      BY <2>16 DEF LegCancel, LegInv
    <3>4. OrderHasRow'
      BY <2>16 DEF LegCancel, OrderHasRow
    <3>5. LegInv'
      BY <2>16 DEF LegCancel, LegInv
    <3>6. CloserInv'
      BY <2>16, <3>1, <3>2, <3>3 DEF LegCancel, CloserInv
    <3>7. LogInv'
      BY <2>16 DEF LegCancel, LogInv, Once, Reached
    <3> QED
      BY <3>4, <3>5, <3>6, <3>7
  <2>17. ASSUME NEW t \in Trades, LegUpdate(t), UNCHANGED <<monitorVars, sessionVars, bootOpen>> PROVE OrderHasRow' /\ LegInv' /\ CloserInv' /\ LogInv'
    <3>1. \A q \in RowIds : Once(q) => Once(q)'
      BY <2>17 DEF LegUpdate, Once, LegInv
    <3>2. \A u \in Trades : Reached(u) => Reached(u)'
      BY <2>17 DEF LegUpdate, Reached, LegInv
    <3>3. \A u \in Trades : venue[u] = "closed" => venue'[u] = "closed"
      BY <2>17 DEF LegUpdate, LegInv
    <3>4. OrderHasRow'
      BY <2>17 DEF LegUpdate, OrderHasRow
    <3>5. LegInv'
      BY <2>17 DEF LegUpdate, LegInv
    <3>6. CloserInv'
      BY <2>17, <3>1, <3>2, <3>3 DEF LegUpdate, CloserInv
    <3>7. LogInv'
      BY <2>17 DEF LegUpdate, LogInv, LegInv, Once, Reached
    <3> QED
      BY <3>4, <3>5, <3>6, <3>7
  <2> QED
    BY <1>1, <2>1, <2>2, <2>3, <2>4, <2>5, <2>6, <2>7, <2>8, <2>9, <2>10, <2>11, <2>12, <2>13, <2>14, <2>15, <2>16, <2>17 DEF Router, RouterStep, SignalStep, LegStep
<1>2. CASE Monitor
  <2>1. ASSUME NEW c \in Cycles, CycleStart(c), UNCHANGED <<routerVars, sessionVars, bootOpen>> PROVE OrderHasRow' /\ LegInv' /\ CloserInv' /\ LogInv'
    <3>1. OrderHasRow'
      BY <2>1 DEF CycleStart, OpenRows, OrderHasRow
    <3>2. LegInv'
      BY <2>1 DEF CycleStart, OpenRows, LegInv
    <3>3. CloserInv'
      BY <2>1 DEF CycleStart, OpenRows, CloserInv, Once, Reached
    <3>4. LogInv'
      BY <2>1 DEF CycleStart, OpenRows, LogInv, Once, Reached
    <3> QED
      BY <3>1, <3>2, <3>3, <3>4
  <2>2. ASSUME NEW c \in Cycles, CycleIndex(c), UNCHANGED <<routerVars, sessionVars, bootOpen>> PROVE OrderHasRow' /\ LegInv' /\ CloserInv' /\ LogInv'
    <3>1. OrderHasRow'
      BY <2>2 DEF CycleIndex, OrderHasRow
    <3>2. LegInv'
      BY <2>2 DEF CycleIndex, LegInv
    <3>3. CloserInv'
      BY <2>2 DEF CycleIndex, CloserInv, Once, Reached
    <3>4. LogInv'
      BY <2>2 DEF CycleIndex, LogInv, Once, Reached
    <3> QED
      BY <3>1, <3>2, <3>3, <3>4
  <2>3. ASSUME NEW c \in Cycles, CycleFails(c), UNCHANGED <<routerVars, sessionVars, bootOpen>> PROVE OrderHasRow' /\ LegInv' /\ CloserInv' /\ LogInv'
    <3>1. OrderHasRow'
      BY <2>3 DEF CycleFails, OrderHasRow
    <3>2. LegInv'
      BY <2>3 DEF CycleFails, LegInv
    <3>3. CloserInv'
      BY <2>3 DEF CycleFails, CloserInv, Once, Reached
    <3>4. LogInv'
      BY <2>3 DEF CycleFails, LogInv, Once, Reached
    <3> QED
      BY <3>1, <3>2, <3>3, <3>4
  <2>4. ASSUME NEW c \in Cycles, CycleEnd(c), UNCHANGED <<routerVars, sessionVars, bootOpen>> PROVE OrderHasRow' /\ LegInv' /\ CloserInv' /\ LogInv'
    <3>1. OrderHasRow'
      BY <2>4 DEF CycleEnd, OrderHasRow
    <3>2. LegInv'
      BY <2>4 DEF CycleEnd, LegInv
    <3>3. CloserInv'
      BY <2>4 DEF CycleEnd, CloserInv, Once, Reached
    <3>4. LogInv'
      BY <2>4 DEF CycleEnd, LogInv, Once, Reached
    <3> QED
      BY <3>1, <3>2, <3>3, <3>4
  <2>5. ASSUME NEW c \in Cycles, NEW r \in RowIds, RowSkip(c, r), UNCHANGED <<routerVars, sessionVars, bootOpen>> PROVE OrderHasRow' /\ LegInv' /\ CloserInv' /\ LogInv'
    <3>1. OrderHasRow'
      BY <2>5 DEF RowSkip, OrderHasRow
    <3>2. LegInv'
      BY <2>5 DEF RowSkip, LegInv
    <3>3. CloserInv'
      BY <2>5 DEF RowSkip, CloserInv, Once, Reached
    <3>4. LogInv'
      BY <2>5 DEF RowSkip, LogInv, Once, Reached
    <3> QED
      BY <3>1, <3>2, <3>3, <3>4
  <2>6. ASSUME NEW c \in Cycles, NEW r \in RowIds, RowSeenClosed(c, r), UNCHANGED <<routerVars, sessionVars, bootOpen>> PROVE OrderHasRow' /\ LegInv' /\ CloserInv' /\ LogInv'
    <3>1. OrderHasRow'
      BY <2>6 DEF RowSeenClosed, OrderHasRow
    <3>2. LegInv'
      BY <2>6 DEF RowSeenClosed, LegInv
    <3>3. CloserInv'
      BY <2>6 DEF RowSeenClosed, CloserInv, Once, Reached
    <3>4. LogInv'
      BY <2>6 DEF RowSeenClosed, LogInv, Once, Reached
    <3> QED
      BY <3>1, <3>2, <3>3, <3>4
  <2>7. ASSUME NEW c \in Cycles, NEW r \in RowIds, RowMaxHold(c, r), UNCHANGED <<routerVars, sessionVars, bootOpen>> PROVE OrderHasRow' /\ LegInv' /\ CloserInv' /\ LogInv'
    <3>1. \A q \in RowIds : Once(q) => Once(q)'
      BY <2>7 DEF RowMaxHold, Once
    <3>2. \A u \in Trades : Reached(u) => Reached(u)'
      BY <2>7 DEF RowMaxHold, Reached
    <3>3. \A u \in Trades : venue[u] = "closed" => venue'[u] = "closed"
      BY <2>7 DEF RowMaxHold
    <3>4. OrderHasRow'
      BY <2>7 DEF RowMaxHold, OrderHasRow
    <3>5. LegInv'
      BY <2>7 DEF RowMaxHold, LegInv
    <3>6. CloserInv'
      <4>1. CASE CloseReturns(r.trade) /\ closing' = [closing EXCEPT ![c] = {r}] /\ rows' = [rows EXCEPT ![c] = @ \ {r}]
        <5>1. Honest => venue'[r.trade] = "closed"
          BY <4>1 DEF Honest
        <5>2. \A s \in Signals : todo'[s] = todo[s] /\ cur'[s] = cur[s]
          BY <2>7
        <5>3. \A k \in Cycles : rows'[k] \subseteq rows[k]
          BY <2>7, <4>1 DEF RowMaxHold
        <5>4. \A k \in Cycles : closing'[k] = IF k = c THEN {r} ELSE closing[k]
          BY <2>7, <4>1
        <5> QED
          BY <2>7, <3>1, <3>2, <3>3, <5>1, <5>2, <5>3, <5>4 DEF RowMaxHold, CloserInv
      <4>2. CASE CloseThrows(r.trade) /\ UNCHANGED monitorVars
        BY <2>7, <3>1, <3>2, <3>3, <4>2 DEF RowMaxHold, CloserInv
      <4> QED
        BY <2>7, <4>1, <4>2 DEF RowMaxHold
    <3>7. LogInv'
      BY <2>7 DEF RowMaxHold, LogInv, Once, Reached
    <3> QED
      BY <3>4, <3>5, <3>6, <3>7
  <2>8. ASSUME NEW c \in Cycles, NEW r \in RowIds, RowTrailStop(c, r), UNCHANGED <<routerVars, sessionVars, bootOpen>> PROVE OrderHasRow' /\ LegInv' /\ CloserInv' /\ LogInv'
    <3>1. \A q \in RowIds : Once(q) => Once(q)'
      BY <2>8 DEF RowTrailStop, Once
    <3>2. \A u \in Trades : Reached(u) => Reached(u)'
      BY <2>8 DEF RowTrailStop, Reached
    <3>3. \A u \in Trades : venue[u] = "closed" => venue'[u] = "closed"
      BY <2>8 DEF RowTrailStop
    <3>4. OrderHasRow'
      BY <2>8 DEF RowTrailStop, OrderHasRow
    <3>5. LegInv'
      BY <2>8 DEF RowTrailStop, LegInv
    <3>6. CloserInv'
      BY <2>8, <3>1, <3>2, <3>3 DEF RowTrailStop, CloserInv, Honest
    <3>7. LogInv'
      BY <2>8 DEF RowTrailStop, LogInv, Once, Reached
    <3> QED
      BY <3>4, <3>5, <3>6, <3>7
  <2>9. ASSUME NEW c \in Cycles, NEW r \in RowIds, Finalize(c, r), UNCHANGED <<routerVars, sessionVars, bootOpen>> PROVE OrderHasRow' /\ LegInv' /\ CloserInv' /\ LogInv'
    <3>1. \A q \in RowIds : Once(q) => Once(q)'
      BY <2>9 DEF Finalize, Once
    <3>2. \A u \in Trades : Reached(u) => Reached(u)'
      BY <2>9 DEF Finalize, Reached
    <3>3. \A u \in Trades : venue[u] = "closed" => venue'[u] = "closed"
      BY <2>9 DEF Finalize
    <3>4. OrderHasRow'
      BY <2>9 DEF Finalize, OrderHasRow
    <3>5. LegInv'
      BY <2>9 DEF Finalize, LegInv
    <3>6. CloserInv'
      BY <2>9, <3>1, <3>2, <3>3 DEF Finalize, CloserInv
    <3>7. LogInv'
      BY <2>9 DEF Finalize, LogInv, CloserInv, Once, Reached
    <3> QED
      BY <3>4, <3>5, <3>6, <3>7
  <2>10. ASSUME NEW c \in Cycles, NEW r \in RowIds, TrailWrite(c, r), UNCHANGED <<routerVars, sessionVars, bootOpen>> PROVE OrderHasRow' /\ LegInv' /\ CloserInv' /\ LogInv'
    <3>1. \A q \in RowIds : Once(q) => Once(q)'
      BY <2>10 DEF TrailWrite, Once
    <3>2. \A u \in Trades : Reached(u) => Reached(u)'
      BY <2>10 DEF TrailWrite, Reached
    <3>3. \A u \in Trades : venue[u] = "closed" => venue'[u] = "closed"
      BY <2>10 DEF TrailWrite
    <3>4. OrderHasRow'
      BY <2>10 DEF TrailWrite, OrderHasRow
    <3>5. LegInv'
      BY <2>10 DEF TrailWrite, LegInv, CloserInv, Once, Reached
    <3>6. CloserInv'
      BY <2>10, <3>1, <3>2, <3>3 DEF TrailWrite, CloserInv
    <3>7. LogInv'
      BY <2>10 DEF TrailWrite, LogInv, CloserInv, Once, Reached
    <3> QED
      BY <3>4, <3>5, <3>6, <3>7
  <2> QED
    BY <1>2, <2>1, <2>2, <2>3, <2>4, <2>5, <2>6, <2>7, <2>8, <2>9, <2>10 DEF Monitor, MonitorStep, CycleStep
<1>3. CASE Venue
  <2>1. ASSUME NEW t \in Trades, VenueFill(t), UNCHANGED <<routerVars, monitorVars, sessionVars, bootOpen>> PROVE OrderHasRow' /\ LegInv' /\ CloserInv' /\ LogInv'
    <3>1. OrderHasRow'
      BY <2>1 DEF VenueFill, OrderHasRow
    <3>2. LegInv'
      BY <2>1 DEF VenueFill, LegInv
    <3>3. CloserInv'
      BY <2>1 DEF VenueFill, CloserInv, Once, Reached
    <3>4. LogInv'
      BY <2>1 DEF VenueFill, LogInv, Once, Reached
    <3> QED
      BY <3>1, <3>2, <3>3, <3>4
  <2>2. ASSUME NEW t \in Trades, VenueReject(t), UNCHANGED <<routerVars, monitorVars, sessionVars, bootOpen>> PROVE OrderHasRow' /\ LegInv' /\ CloserInv' /\ LogInv'
    <3>1. OrderHasRow'
      BY <2>2 DEF VenueReject, OrderHasRow
    <3>2. LegInv'
      BY <2>2 DEF VenueReject, LegInv
    <3>3. CloserInv'
      BY <2>2 DEF VenueReject, CloserInv, Once, Reached
    <3>4. LogInv'
      BY <2>2 DEF VenueReject, LogInv, Once, Reached
    <3> QED
      BY <3>1, <3>2, <3>3, <3>4
  <2>3. ASSUME NEW t \in Trades, VenueExit(t), UNCHANGED <<routerVars, monitorVars, sessionVars, bootOpen>> PROVE OrderHasRow' /\ LegInv' /\ CloserInv' /\ LogInv'
    <3>1. OrderHasRow'
      BY <2>3 DEF VenueExit, OrderHasRow
    <3>2. LegInv'
      BY <2>3 DEF VenueExit, LegInv
    <3>3. CloserInv'
      BY <2>3 DEF VenueExit, CloserInv, Once, Reached
    <3>4. LogInv'
      BY <2>3 DEF VenueExit, LogInv, Once, Reached
    <3> QED
      BY <3>1, <3>2, <3>3, <3>4
  <2> QED
    BY <1>3, <2>1, <2>2, <2>3 DEF Venue
<1>4. CASE Crash
  <2>1. OrderHasRow'
    BY <1>4 DEF Crash, OrderHasRow
  <2>2. LegInv'
    BY <1>4 DEF Crash, LegInv
  <2>3. CloserInv'
    BY <1>4 DEF Crash, CloserInv, Once, Reached
  <2>4. LogInv'
    BY <1>4 DEF Crash, LogInv, Once, Reached
  <2> QED
    BY <2>1, <2>2, <2>3, <2>4
<1>5. CASE Restart
  <2>1. OrderHasRow'
    BY <1>5 DEF Restart, OrderHasRow
  <2>2. LegInv'
    BY <1>5 DEF Restart, LegInv
  <2>3. CloserInv'
    BY <1>5 DEF Restart, CloserInv, Once, Reached
  <2>4. LogInv'
    BY <1>5 DEF Restart, LogInv, Once, Reached
  <2> QED
    BY <2>1, <2>2, <2>3, <2>4
<1>6. CASE Reconcile
  <2>1. OrderHasRow'
    BY <1>6, ReconcileChanges DEF Reconcile, OrderHasRow
  <2>2. LegInv'
    <3>1. UNCHANGED <<pc, leg, venue>>
      BY <1>6 DEF Reconcile, routerVars
    <3>2. ASSUME NEW t \in Trades
          PROVE  status[OmegaRow(t)] \in {"none", "pending"} => status'[OmegaRow(t)] = status[OmegaRow(t)]
      BY <1>6, <3>2, ReconcileChanges
    <3> QED
      BY <3>1, <3>2 DEF LegInv
  <2>3. CloserInv'
    BY <1>6, ReconcileChanges DEF Reconcile, CloserInv, Once, Reached
  <2>4. LogInv'
    BY <1>6, ReconcileChanges DEF Reconcile, LogInv, CloserInv, Once, Reached
  <2> QED
    BY <2>1, <2>2, <2>3, <2>4
<1>7. CASE UNCHANGED vars
  <2>1. OrderHasRow'
    BY <1>7 DEF vars, OrderHasRow
  <2>2. LegInv'
    BY <1>7 DEF vars, LegInv
  <2>3. CloserInv'
    BY <1>7 DEF vars, CloserInv, Once, Reached
  <2>4. LogInv'
    BY <1>7 DEF vars, LogInv, Once, Reached
  <2> QED
    BY <2>1, <2>2, <2>3, <2>4
<1>8. CASE Session
  <2>1. UNCHANGED <<routerVars, monitorVars, bootOpen>>
    BY <1>8, SessionShape
  <2>2. ASSUME NEW t \in Trades, EndsTrade(t) PROVE OrderHasRow' /\ LegInv' /\ LogInv'
    <3>1. OrderHasRow'
      BY <2>2 DEF EndsTrade, OrderHasRow
    <3>2. LegInv'
      BY <2>1, <2>2 DEF EndsTrade, LegInv
    <3>3. LogInv'
      BY <2>2 DEF EndsTrade, LogInv, Once, Reached
    <3> QED
      BY <3>1, <3>2, <3>3
  <2>3. ASSUME NEW t \in Trades, EndsRow(t) PROVE OrderHasRow' /\ LegInv' /\ LogInv'
    <3>1. OrderHasRow'
      BY <2>3 DEF EndsRow, OrderHasRow
    <3>2. LegInv'
      BY <2>1, <2>3 DEF EndsRow, LegInv, Once
    <3>3. LogInv'
      BY <2>3 DEF EndsRow, LogInv, Once, Reached
    <3> QED
      BY <3>1, <3>2, <3>3
  <2>4. ASSUME UNCHANGED storeVars PROVE OrderHasRow' /\ LegInv' /\ LogInv'
    BY <2>1, <2>4 DEF OrderHasRow, LegInv, LogInv, Once, Reached
  <2>5. OrderHasRow' /\ LegInv' /\ LogInv'
    BY <1>8, <2>2, <2>3, <2>4, SessionShape
  <2>6. /\ \A q \in RowIds : Once(q) => Once(q)'
        /\ \A u \in Trades : Reached(u) => Reached(u)'
        /\ \A u \in Trades : venue[u] = "closed" => venue'[u] = "closed"
    BY <1>8, SessionShape DEF EndsTrade, EndsRow, Once, Reached
  <2>7. CloserInv'
    BY <2>1, <2>6 DEF CloserInv, Honest
  <2> QED
    BY <2>5, <2>7
<1> QED
  BY <1>1, <1>2, <1>3, <1>4, <1>5, <1>6, <1>7, <1>8 DEF Next

LEMMA Invariance == Spec => []IInv
BY InitInv, InvNext, PTL DEF Spec

(* No order reaches a venue without a row: the order of the pre-insert and *)
(* the order in executeOmegaTrailV1Order survives crashes and timeouts.    *)
THEOREM OrdersAreRecorded == Spec => []OrderHasRow
<1>1. IInv => OrderHasRow
  BY DEF IInv
<1> QED
  BY <1>1, Invariance, PTL

(* As long as no close is cancelled, a row is closed only after its trade: *)
(* flip, monitor, trailing stop and startup all write the log behind the   *)
(* venue, however they interleave.                                         *)
THEOREM ClosedMeansClosed == ASSUME Honest PROVE Spec => []LogFollowsVenue
<1>1. IInv => LogFollowsVenue
  BY Honest DEF IInv, LogInv, LogFollowsVenue, Once, Reached
<1> QED
  BY <1>1, Invariance, PTL

-----------------------------------------------------------------------------
(* A row that is closed is never opened again. *)
LEMMA ClosedStays ==
  ASSUME IInv, [Next]_vars
  PROVE  \A r \in RowIds : status[r] = "closed" => status'[r] = "closed"
<1> USE RowType, RowTrade, RowDistinct
    DEF IInv, TypeOK, StoreTypeOK, storeVars, MarkClosed, ProcessDies
<1>1. CASE Router
  <2>1. ASSUME NEW t \in Trades, LegStep(t) PROVE \A r \in RowIds : status[r] = "closed" => status'[r] = "closed"
    BY <2>1 DEF LegStep, LegInv, StartLeg, LegGate, LegInsert, LegPlace, LegReply, LegCancel, LegUpdate
  <2>2. ASSUME NEW s \in Signals, Receive(s) \/ SignalStep(s) PROVE \A r \in RowIds : status[r] = "closed" => status'[r] = "closed"
    BY <2>2 DEF Receive, SignalStep, GiveUp, DetectFlip, SelectOpposing, FlipClose, FlipWrite, FlipDone, Sequence, FinishRoutes
  <2> QED
    BY <1>1, <2>1, <2>2 DEF Router, RouterStep, SetDirection
<1>2. CASE Monitor
  BY <1>2 DEF Monitor, MonitorStep, CycleStep, CycleStart, CycleIndex, CycleFails, CycleEnd, RowSkip,
              RowSeenClosed, RowMaxHold, RowTrailStop, Finalize, TrailWrite
<1>3. CASE Venue \/ Crash \/ Restart
  BY <1>3 DEF Venue, VenueFill, VenueReject, VenueExit, Crash, Restart
<1>4. CASE Reconcile
  BY <1>4, ReconcileChanges
<1>5. CASE UNCHANGED vars
  BY <1>5 DEF vars
<1>6. CASE Session
  BY <1>6, SessionShape DEF EndsTrade, EndsRow
<1> QED
  BY <1>1, <1>2, <1>3, <1>4, <1>5, <1>6 DEF Next

(* No step of any process opens a closed row again, cancelled closes and   *)
(* failed writes included.                                                 *)
THEOREM ClosingIsFinal == Spec => ClosedIsFinal
<1>1. ASSUME IInv, [Next]_vars PROVE [\A r \in RowIds : status[r] = "closed" => status'[r] = "closed"]_vars
  BY <1>1, ClosedStays
<1> QED
  BY <1>1, Invariance, PTL DEF Spec, ClosedIsFinal

-----------------------------------------------------------------------------
(* Alerts.  Only Finalize counts, and only where it closes an open row.    *)
LEMMA AlertStep == IInv /\ AlertInv /\ [Next]_vars => AlertInv'
<1> SUFFICES ASSUME IInv, AlertInv, [Next]_vars PROVE AlertInv'
  OBVIOUS
<1>1. \A r \in RowIds : status[r] = "closed" => status'[r] = "closed"
  BY ClosedStays
<1>2. CASE UNCHANGED alerted
  BY <1>1, <1>2 DEF AlertInv
<1>3. ASSUME NEW c \in Cycles, NEW r \in RowIds, Finalize(c, r) PROVE AlertInv'
  <2>1. CASE UNCHANGED alerted
    BY <1>2, <2>1
  <2>2. CASE status[r] = "open" /\ MarkClosed(r) /\ alerted' = [alerted EXCEPT ![r] = Bump(@)]
    <3>1. alerted[r] = 0
      BY <2>2 DEF AlertInv, IInv, TypeOK, StoreTypeOK, Cap
    <3>2. alerted'[r] = 1 /\ status'[r] = "closed"
      BY <2>2, <3>1 DEF Bump, Cap, MarkClosed, IInv, TypeOK, StoreTypeOK
    <3>3. \A q \in RowIds \ {r} : alerted'[q] = alerted[q]
      BY <2>2 DEF IInv, TypeOK, StoreTypeOK
    <3> QED
      BY <1>1, <3>2, <3>3 DEF AlertInv
  <2> QED
    BY <1>3, <2>1, <2>2 DEF Finalize
<1>4. CASE Router
  <2>1. UNCHANGED alerted
    BY <1>4 DEF Router, RouterStep, SetDirection, Receive, SignalStep, LegStep, StartLeg, LegGate, LegInsert, LegPlace,
                LegReply, LegCancel, LegUpdate, GiveUp, DetectFlip, SelectOpposing, FlipClose, FlipWrite,
                FlipDone, Sequence, FinishRoutes, storeVars
  <2> QED
    BY <1>2, <2>1
<1>5. CASE Monitor
  <2>1. PICK c \in Cycles : CycleStep(c)
    BY <1>5 DEF Monitor, MonitorStep
  <2>2. UNCHANGED alerted \/ \E r \in RowIds : Finalize(c, r)
    BY <2>1 DEF CycleStep, CycleStart, CycleIndex, CycleFails, CycleEnd, RowSkip, RowSeenClosed, RowMaxHold,
                RowTrailStop, TrailWrite, ProcessDies, storeVars
  <2> QED
    BY <1>2, <1>3, <2>2
<1>6. CASE Venue \/ Crash \/ Restart \/ Reconcile \/ UNCHANGED vars
  BY <1>2, <1>6 DEF Venue, VenueFill, VenueReject, VenueExit, Crash, ProcessDies, Restart, Reconcile, vars, storeVars
<1>7. CASE Session
  BY <1>2, <1>7, SessionShape DEF IInv, EndsTrade, EndsRow, storeVars
<1> QED
  BY <1>4, <1>5, <1>6, <1>7 DEF Next

(* However many cycles overlap and whichever of them see the same trade    *)
(* closed, the alert of a row is sent at most once: the guarded update of  *)
(* finalizeOpenLogRowClose decides who sends it.                           *)
THEOREM AlertsAreSentOnce == Spec => []AlertedOnce
<1>1. Init => AlertInv
  BY DEF Init, StoreInit, AlertInv
<1>2. AlertInv => AlertedOnce
  BY DEF AlertInv, AlertedOnce
<1> QED
  BY <1>1, <1>2, Invariance, AlertStep, PTL DEF Spec

-----------------------------------------------------------------------------
(* Startup.  Only a step of a leg opens an omega row, and only startup a   *)
(* row of its own.                                                         *)
RowsOfLegsOver ==
  \A t \in Trades :
    /\ status[ReconciledRow(t)] \in {"none", "open", "closed"}
    /\ status[ReconciledRow(t)] # "none" =>
         leg[t] = "done" /\ (ReadsWork => status[OmegaRow(t)] # "open")

(* With the log read, startup adopts no trade that has an open row, and    *)
(* leaves the open row of a trade it found open.                           *)
LEMMA AdoptedHaveNoRow ==
  ASSUME TypeOK, Reconcile, ReadsWork, NEW t \in Trades,
         status[ReconciledRow(t)] = "none", status'[ReconciledRow(t)] # "none"
  PROVE  status[OmegaRow(t)] # "open"
<1> USE RowType, RowTrade, RowDistinct DEF TypeOK, StoreTypeOK
<1>1. PICK unsaved \in Skips({"dbWrite"}), unread \in Skips({"dbWrite", "fetch"}) :
        status' = [r \in RowIds |-> IF r \in Adopted(OpenRows) \ unsaved THEN "open"
                                    ELSE IF r \in Ghosts(OpenRows) \ unread THEN "closed"
                                    ELSE status[r]]
  <2>1. PICK open \in LogReads, unsaved \in Skips({"dbWrite"}), unread \in Skips({"dbWrite", "fetch"}) :
          status' = [r \in RowIds |-> IF r \in Adopted(open) \ unsaved THEN "open"
                                      ELSE IF r \in Ghosts(open) \ unread THEN "closed"
                                      ELSE status[r]]
    BY Zenon DEF Reconcile
  <2>2. open = OpenRows
    BY DEF LogReads, ReadsWork
  <2> QED
    BY <2>1, <2>2
<1>2. ReconciledRow(t) \notin Ghosts(OpenRows)
  BY DEF Ghosts, OpenRows
<1>3. ReconciledRow(t) \in Adopted(OpenRows)
  BY <1>1, <1>2
<1>4. \A u \in Trades : ReconciledRow(u) = ReconciledRow(t) => u = t
  OBVIOUS
<1>5. \A r \in OpenRows : r.trade # t
  BY <1>3, <1>4 DEF Adopted
<1> QED
  BY <1>5 DEF OpenRows

LEMMA RowsOfLegsOverStep ==
  ASSUME IInv, StartupInv, [Next]_vars
  PROVE  RowsOfLegsOver'
<1> USE RowType, RowTrade, RowDistinct
    DEF IInv, TypeOK, StoreTypeOK, RouterTypeOK, storeVars, MarkClosed, ProcessDies, RowsOfLegsOver
<1>1. RowsOfLegsOver
  BY DEF StartupInv
<1>2. CASE UNCHANGED <<status, leg>>
  BY <1>1, <1>2
<1>3. CASE Router
  <2>1. ASSUME NEW t \in Trades, LegStep(t) PROVE RowsOfLegsOver'
    <3>1. leg[t] # "done" /\ leg' \in [Trades -> LegPcs] /\ \A u \in Trades \ {t} : leg'[u] = leg[u]
      BY <2>1, <1>3, TypeNext DEF LegStep, StartLeg, LegGate, LegInsert, LegPlace, LegReply, LegCancel, LegUpdate, LegGoto
    <3>2. \A r \in RowIds : r # OmegaRow(t) => status'[r] = status[r]
      BY <2>1 DEF LegStep, StartLeg, LegGate, LegInsert, LegPlace, LegReply, LegCancel, LegUpdate
    <3>3. status'[ReconciledRow(t)] = "none"
      BY <1>1, <3>1, <3>2
    <3>4. ASSUME NEW u \in Trades \ {t}
          PROVE  status'[OmegaRow(u)] = status[OmegaRow(u)] /\ status'[ReconciledRow(u)] = status[ReconciledRow(u)]
      BY <3>2
    <3> QED
      BY <1>1, <3>1, <3>3, <3>4
  <2>2. ASSUME NEW s \in Signals, NEW t \in Trades, FlipWrite(s, t) PROVE RowsOfLegsOver'
    BY <1>1, <2>2 DEF FlipWrite
  <2>3. ASSUME NEW s \in Signals, NEW t \in Trades, FlipClose(s, t) PROVE RowsOfLegsOver'
    BY <1>2, <2>3 DEF FlipClose
  <2>4. ASSUME NEW s \in Signals,
               \/ Receive(s) \/ GiveUp(s) \/ DetectFlip(s) \/ SelectOpposing(s)
               \/ FlipDone(s) \/ Sequence(s) \/ FinishRoutes(s)
        PROVE RowsOfLegsOver'
    BY <1>2, <2>4 DEF Receive, GiveUp, DetectFlip, SelectOpposing, FlipDone, Sequence, FinishRoutes
  <2> QED
    BY <1>2, <1>3, <2>1, <2>2, <2>3, <2>4 DEF Router, RouterStep, SignalStep, SetDirection
<1>4. CASE Monitor
  <2>1. PICK c \in Cycles : CycleStep(c)
    BY <1>4 DEF Monitor, MonitorStep
  <2>2. UNCHANGED leg
    BY <1>4 DEF Monitor, routerVars
  <2>3. ASSUME NEW r \in RowIds, Finalize(c, r) \/ TrailWrite(c, r)
        PROVE RowsOfLegsOver'
    <3>1. status[r] \in {"open", "closed"}
      BY <2>3 DEF Finalize, TrailWrite, CloserInv, Once
    <3>2. UNCHANGED status \/ MarkClosed(r)
      BY <2>3 DEF Finalize, TrailWrite
    <3> QED
      BY <1>1, <2>2, <3>1, <3>2
  <2>4. UNCHANGED status \/ \E r \in RowIds : Finalize(c, r) \/ TrailWrite(c, r)
    BY <2>1 DEF CycleStep, CycleStart, CycleIndex, CycleFails, CycleEnd, RowSkip, RowSeenClosed, RowMaxHold, RowTrailStop
  <2> QED
    BY <1>2, <2>2, <2>3, <2>4
<1>5. CASE Restart
  <2>1. \A t \in Trades : leg[t] = "done" => leg'[t] = "done"
    BY <1>5, TradeType DEF Restart, LegInv
  <2> QED
    BY <1>1, <1>5, <2>1 DEF Restart
<1>6. CASE Reconcile
  <2>1. UNCHANGED leg
    BY <1>6 DEF Reconcile, routerVars
  <2>2. ASSUME NEW t \in Trades, status[OmegaRow(t)] # "open" PROVE status'[OmegaRow(t)] # "open"
    BY <1>6, <2>2, ReconcileChanges
  <2>3. ASSUME NEW t \in Trades, status[ReconciledRow(t)] # "none"
        PROVE  /\ status'[ReconciledRow(t)] \in {"open", "closed"}
               /\ leg'[t] = "done" /\ (ReadsWork => status'[OmegaRow(t)] # "open")
    BY <1>1, <1>6, <2>1, <2>2, <2>3, ReconcileChanges
  <2>4. ASSUME NEW t \in Trades, status[ReconciledRow(t)] = "none", status'[ReconciledRow(t)] # "none"
        PROVE  /\ status'[ReconciledRow(t)] = "open"
               /\ leg'[t] = "done" /\ (ReadsWork => status'[OmegaRow(t)] # "open")
    <3>1. status'[ReconciledRow(t)] = "open" /\ t \in bootOpen
      BY <1>6, <2>4, ReconcileChanges DEF ReconciledRow
    <3>2. leg[t] = "done"
      BY <1>6, <3>1 DEF Reconcile, StartupInv, LegInv, CloserInv, Reached
    <3>3. ASSUME ReadsWork PROVE status[OmegaRow(t)] # "open"
      BY <1>6, <2>4, <3>3, AdoptedHaveNoRow
    <3> QED
      BY <2>1, <2>2, <3>1, <3>2, <3>3
  <2> QED
    BY <2>3, <2>4
<1>7. CASE Venue \/ Crash \/ UNCHANGED vars
  BY <1>2, <1>7 DEF Venue, VenueFill, VenueReject, VenueExit, Crash, vars, routerVars
<1>8. CASE Session
  BY <1>1, <1>2, <1>8, SessionShape DEF EndsTrade, EndsRow, routerVars
<1> QED
  BY <1>3, <1>4, <1>5, <1>6, <1>7, <1>8 DEF Next

(* What startup found open was not recorded as closed while it starts.     *)
LEMMA StartupStep == IInv /\ StartupInv /\ [Next]_vars => StartupInv'
<1> SUFFICES ASSUME IInv, StartupInv, [Next]_vars PROVE StartupInv'
  OBVIOUS
<1> DEFINE NoLegs == up = "boot" => \A t \in Trades : leg[t] \in {"idle", "done"}
           Unclosed == up = "boot" /\ Honest =>
                         \A t \in bootOpen : status[OmegaRow(t)] # "closed" /\ status[ReconciledRow(t)] # "closed"
<1>1. RowsOfLegsOver'
  BY RowsOfLegsOverStep
<1>2. NoLegs /\ Unclosed
  BY DEF StartupInv
<1>3. NoLegs' /\ Unclosed'
  <2>1. CASE up' # "boot"
    BY <2>1
  <2>2. CASE UNCHANGED <<up, leg, status, bootOpen>>
    BY <1>2, <2>2 DEF Honest
  <2>3. CASE Restart
    <3>1. NoLegs'
      BY <2>3 DEF Restart
    <3>2. ASSUME Honest, NEW t \in bootOpen' PROVE status'[OmegaRow(t)] # "closed" /\ status'[ReconciledRow(t)] # "closed"
      <4>1. t \in Trades /\ venue[t] = "open" /\ UNCHANGED status
        BY <2>3, <3>2 DEF Restart
      <4> QED
        BY <3>2, <4>1, RowType, RowTrade DEF IInv, LogInv
    <3> QED
      BY <3>1, <3>2
  <2>4. CASE up' = "boot" /\ ~ Restart
    <3>1. UNCHANGED <<up, leg, status, bootOpen>>
      <4>1. CASE Router
        BY <2>4, <4>1 DEF Router, RouterStep, SetDirection, Receive, SignalStep, LegStep, StartLeg, LegGate, LegInsert,
              LegPlace, LegReply, LegCancel, LegUpdate, GiveUp, DetectFlip, SelectOpposing, FlipClose, FlipWrite,
              FlipDone, Sequence, FinishRoutes, storeVars, monitorVars
      <4>2. CASE Monitor
        BY <2>4, <4>2 DEF Monitor, MonitorStep, CycleStep, CycleStart, CycleIndex, CycleFails, CycleEnd, RowSkip, RowSeenClosed,
              RowMaxHold, RowTrailStop, Finalize, TrailWrite, ProcessDies, storeVars, routerVars
      <4>3. CASE Venue \/ Crash \/ Reconcile \/ UNCHANGED vars
        BY <2>4, <4>3 DEF Venue, VenueFill, VenueReject, VenueExit, Crash, ProcessDies, Reconcile, vars, storeVars, routerVars
      <4>4. CASE Session
        BY <2>4, <4>4, SessionShape DEF IInv, EndsTrade, EndsRow, storeVars
      <4> QED
        BY <2>4, <4>1, <4>2, <4>3, <4>4 DEF Next
    <3> QED
      BY <2>2, <3>1
  <2> QED
    BY <2>1, <2>3, <2>4
<1> QED
  BY <1>1, <1>3 DEF StartupInv, RowsOfLegsOver, Honest, ReadsWork

LEMMA StartupInvariance == Spec => [](IInv /\ StartupInv)
<1>1. Init => StartupInv
  BY RowType DEF Init, StoreInit, RouterInit, StartupInv
<1> QED
  BY <1>1, Invariance, StartupStep, PTL DEF Spec

(* Unless the read of the log fails, no trade has two open rows: startup   *)
(* adopts only what no leg will confirm any more.                          *)
THEOREM TradesAreTrackedOnce == ASSUME ReadsWork PROVE Spec => []TrackedOnce
<1>1. StartupInv => TrackedOnce
  BY ReadsWork DEF StartupInv, TrackedOnce
<1> QED
  BY <1>1, StartupInvariance, PTL

(* The step that ends startup leaves an open row for each such trade.      *)
LEMMA StartupTracks ==
  ASSUME Honest, ReadsWork, WritesWork, IInv, StartupInv, [Next]_vars,
         up = "boot", up' = "up", NEW t \in bootOpen, t.broker = Practice
  PROVE  status'[OmegaRow(t)] = "open" \/ status'[ReconciledRow(t)] = "open"
<1> USE RowType, RowTrade, RowDistinct DEF IInv, TypeOK, StoreTypeOK
<1>1. Reconcile
  <2>1. ~ Router
    BY DEF Router, RouterStep, SetDirection, Receive, SignalStep, LegStep, StartLeg, LegGate, LegInsert,
           LegPlace, LegReply, LegCancel, LegUpdate, GiveUp, DetectFlip, SelectOpposing, FlipClose, FlipWrite,
           FlipDone, Sequence, FinishRoutes, storeVars
  <2>2. ~ Monitor
    BY DEF Monitor, MonitorStep, CycleStep, CycleStart, CycleIndex, CycleFails, CycleEnd, RowSkip, RowSeenClosed,
           RowMaxHold, RowTrailStop, Finalize, TrailWrite, ProcessDies, storeVars
  <2>3. ~ (Venue \/ Crash \/ Restart \/ UNCHANGED vars)
    BY DEF Venue, VenueFill, VenueReject, VenueExit, Crash, ProcessDies, Restart, vars, storeVars
  <2>4. ~ Session
    BY SessionShape
  <2> QED
    BY <2>1, <2>2, <2>3, <2>4 DEF Next
<1>2. PICK unread \in Skips({"dbWrite", "fetch"}) :
        status' = [r \in RowIds |-> IF r \in Adopted(OpenRows) THEN "open"
                                    ELSE IF r \in Ghosts(OpenRows) \ unread THEN "closed"
                                    ELSE status[r]]
  <2>1. PICK open \in LogReads, unsaved \in Skips({"dbWrite"}), unread \in Skips({"dbWrite", "fetch"}) :
          status' = [r \in RowIds |-> IF r \in Adopted(open) \ unsaved THEN "open"
                                      ELSE IF r \in Ghosts(open) \ unread THEN "closed"
                                      ELSE status[r]]
    BY <1>1, Zenon DEF Reconcile
  <2>2. open = OpenRows
    BY DEF LogReads, ReadsWork
  <2>3. unsaved = {}
    BY DEF Skips, WritesWork
  <2> QED
    BY <2>1, <2>2, <2>3
<1>3. t \in Trades
  OBVIOUS
<1>4. \A r \in RowIds : r.trade = t => r \notin Ghosts(OpenRows)
  BY DEF Ghosts
<1>5. CASE \E r \in OpenRows : r.trade = t
  <2>1. PICK r \in OpenRows : r.trade = t
    BY <1>5
  <2>2. r \in RowIds /\ status'[r] = "open"
    BY <1>2, <1>4, <2>1 DEF OpenRows
  <2>3. r = OmegaRow(t) \/ r = ReconciledRow(t)
    BY <2>1, <2>2 DEF RowIds, OmegaRow, ReconciledRow
  <2> QED
    BY <2>2, <2>3
<1>6. CASE ~ \E r \in OpenRows : r.trade = t
  <2>1. status[ReconciledRow(t)] # "open"
    BY <1>3, <1>6 DEF OpenRows
  <2>2. status[ReconciledRow(t)] = "none"
    BY <1>3, <2>1, Honest DEF StartupInv
  <2>3. ReconciledRow(t) \in Adopted(OpenRows)
    BY <1>6, <2>2 DEF Adopted
  <2> QED
    BY <1>2, <1>3, <2>3
<1> QED
  BY <1>5, <1>6

(* If startup can read and write the log and no close was cancelled, every *)
(* trade it found on the default account has an open row when it ends,     *)
(* whatever the process was doing when it died and whatever ended since.   *)
THEOREM StartupTracksItsTrades ==
  ASSUME Honest, ReadsWork, WritesWork PROVE Spec => StartupTracksPractice
<1>1. ASSUME IInv, StartupInv, [Next]_vars
      PROVE  [up = "boot" /\ up' = "up" =>
                \A t \in bootOpen : t.broker = Practice =>
                  status'[OmegaRow(t)] = "open" \/ status'[ReconciledRow(t)] = "open"]_vars
  BY <1>1, StartupTracks, Honest, ReadsWork, WritesWork
<1> QED
  BY <1>1, StartupInvariance, PTL DEF Spec, StartupTracksPractice

-----------------------------------------------------------------------------
(* Counting results.  What is over stays over: the leg, the trade, and an  *)
(* omega row that no leg will open; and only startup opens the other row.  *)
OverStays(t) ==
  /\ leg[t] = "done" => leg'[t] = "done"
  /\ venue[t] = "closed" => venue'[t] = "closed"
  /\ leg[t] = "done" /\ ~ Once(OmegaRow(t)) => ~ Once(OmegaRow(t))'
  /\ leg[t] = "done" /\ status[OmegaRow(t)] # "open" => status'[OmegaRow(t)] # "open"
  /\ status[ReconciledRow(t)] = "closed" => status'[ReconciledRow(t)] = "closed"
  /\ status[ReconciledRow(t)] = "none" /\ status'[ReconciledRow(t)] # "none" =>
       Reconcile /\ t \in bootOpen

LEMMA OverStep ==
  ASSUME IInv, StartupInv, [Next]_vars
  PROVE  \A t \in Trades : OverStays(t)
<1> USE RowType, RowTrade, RowDistinct, TradeType
    DEF IInv, TypeOK, StoreTypeOK, RouterTypeOK, storeVars, MarkClosed, ProcessDies, OverStays, Once, VenueStates
<1>1. CASE UNCHANGED <<status, leg>> /\ \A t \in Trades : venue[t] = "closed" => venue'[t] = "closed"
  BY <1>1
<1>2. CASE Router
  <2>1. ASSUME NEW t \in Trades, LegStep(t) PROVE \A u \in Trades : OverStays(u)
    <3>1. leg[t] # "done" /\ \A u \in Trades \ {t} : leg'[u] = leg[u]
      BY <2>1 DEF LegStep, StartLeg, LegGate, LegInsert, LegPlace, LegReply, LegCancel, LegUpdate, LegGoto
    <3>2. \A r \in RowIds : r # OmegaRow(t) => status'[r] = status[r]
      BY <2>1 DEF LegStep, StartLeg, LegGate, LegInsert, LegPlace, LegReply, LegCancel, LegUpdate
    <3>3. \A u \in Trades : venue[u] = "closed" => venue'[u] = "closed"
      BY <2>1 DEF LegStep, StartLeg, LegGate, LegInsert, LegPlace, LegReply, LegCancel, LegUpdate, LegInv
    <3>4. OverStays(t)
      BY <3>1, <3>2, <3>3
    <3>5. ASSUME NEW u \in Trades \ {t} PROVE OverStays(u)
      BY <3>1, <3>2, <3>3
    <3> QED
      BY <3>4, <3>5
  <2>2. ASSUME NEW s \in Signals, NEW t \in Trades, FlipWrite(s, t) PROVE \A u \in Trades : OverStays(u)
    <3>1. status[OmegaRow(t)] \in {"open", "closed"}
      BY <2>2 DEF FlipWrite, CloserInv
    <3> QED
      BY <2>2, <3>1 DEF FlipWrite
  <2>3. ASSUME NEW s \in Signals, NEW t \in Trades, FlipClose(s, t) PROVE \A u \in Trades : OverStays(u)
    BY <1>1, <2>3 DEF FlipClose, CloseReturns, CloseThrows
  <2>4. ASSUME NEW s \in Signals,
               \/ Receive(s) \/ GiveUp(s) \/ DetectFlip(s) \/ SelectOpposing(s)
               \/ FlipDone(s) \/ Sequence(s) \/ FinishRoutes(s)
        PROVE \A u \in Trades : OverStays(u)
    BY <1>1, <2>4 DEF Receive, GiveUp, DetectFlip, SelectOpposing, FlipDone, Sequence, FinishRoutes
  <2> QED
    BY <1>1, <1>2, <2>1, <2>2, <2>3, <2>4 DEF Router, RouterStep, SignalStep, SetDirection
<1>3. CASE Monitor
  <2>1. PICK c \in Cycles : CycleStep(c)
    BY <1>3 DEF Monitor, MonitorStep
  <2>2. UNCHANGED leg
    BY <1>3 DEF Monitor, routerVars
  <2>3. ASSUME NEW r \in RowIds, Finalize(c, r) \/ TrailWrite(c, r)
        PROVE \A u \in Trades : OverStays(u)
    <3>1. status[r] \in {"open", "closed"}
      BY <2>3 DEF Finalize, TrailWrite, CloserInv
    <3>2. UNCHANGED venue /\ (UNCHANGED status \/ MarkClosed(r))
      BY <2>3 DEF Finalize, TrailWrite
    <3> QED
      BY <2>2, <3>1, <3>2
  <2>4. ASSUME NEW r \in RowIds, RowMaxHold(c, r) \/ RowTrailStop(c, r)
        PROVE \A u \in Trades : OverStays(u)
    BY <1>1, <2>2, <2>4 DEF RowMaxHold, RowTrailStop, CloseReturns, CloseThrows
  <2>5. UNCHANGED <<status, venue>> \/ \E r \in RowIds : \/ Finalize(c, r) \/ TrailWrite(c, r)
                                                          \/ RowMaxHold(c, r) \/ RowTrailStop(c, r)
    BY <2>1 DEF CycleStep, CycleStart, CycleIndex, CycleFails, CycleEnd, RowSkip, RowSeenClosed
  <2> QED
    BY <1>1, <2>2, <2>3, <2>4, <2>5
<1>4. CASE Restart
  <2>1. \A t \in Trades : leg[t] = "done" => leg'[t] = "done"
    BY <1>4 DEF Restart, LegInv
  <2> QED
    BY <1>4, <2>1 DEF Restart
<1>5. CASE Reconcile
  <2>1. UNCHANGED <<leg, venue>>
    BY <1>5 DEF Reconcile, routerVars
  <2>2. ASSUME NEW t \in Trades
        PROVE  /\ ~ Once(OmegaRow(t)) => ~ Once(OmegaRow(t))'
               /\ status[OmegaRow(t)] # "open" => status'[OmegaRow(t)] # "open"
               /\ status[ReconciledRow(t)] = "closed" => status'[ReconciledRow(t)] = "closed"
    BY <1>5, <2>2, ReconcileChanges
  <2>3. ASSUME NEW t \in Trades, status[ReconciledRow(t)] = "none", status'[ReconciledRow(t)] # "none"
        PROVE  t \in bootOpen
    BY <1>5, <2>3, ReconcileChanges DEF ReconciledRow
  <2> QED
    BY <1>5, <2>1, <2>2, <2>3
<1>6. CASE Venue \/ Crash \/ UNCHANGED vars
  BY <1>1, <1>6 DEF Venue, VenueFill, VenueReject, VenueExit, Crash, vars, routerVars
<1>7. CASE Session
  BY <1>1, <1>7, SessionShape DEF EndsTrade, EndsRow, routerVars
<1> QED
  BY <1>2, <1>3, <1>4, <1>5, <1>6, <1>7 DEF Next

(* What startup adopts was neither recorded as closed nor open in the log. *)
LEMMA AdoptedWasNotOnce ==
  ASSUME Honest, ReadsWork, IInv, StartupInv, Reconcile, NEW t \in bootOpen,
         status[ReconciledRow(t)] = "none", status'[ReconciledRow(t)] # "none"
  PROVE  leg[t] = "done" /\ ~ Once(OmegaRow(t))
<1>1. t \in Trades
  BY DEF IInv, TypeOK
<1>2. leg[t] = "done"
  BY <1>1 DEF Reconcile, StartupInv, IInv, LegInv, CloserInv, Reached
<1>3. status[OmegaRow(t)] # "open"
  BY <1>1, AdoptedHaveNoRow DEF IInv
<1>4. status[OmegaRow(t)] # "closed"
  BY Honest DEF StartupInv, Reconcile
<1> QED
  BY <1>2, <1>3, <1>4 DEF Once

(* A row of a trade that is not counted: counting it closes all there is.  *)
LEMMA OtherRowNotOpen ==
  ASSUME BookInv, NEW r \in RowIds, Once(r), NEW q \in RowIds, q.trade = r.trade, q # r
  PROVE  status[q] # "open"
<1>1. PICK t \in Trades : r.trade = t /\ q.trade = t
  BY RowTrade
<1>2. \/ r = OmegaRow(t) /\ q = ReconciledRow(t)
      \/ r = ReconciledRow(t) /\ q = OmegaRow(t)
  BY <1>1 DEF RowIds, OmegaRow, ReconciledRow
<1> QED
  BY <1>2 DEF BookInv, Once

LEMMA BookStep ==
  ASSUME Honest, ReadsWork, WritesWork, OneCycle
  PROVE  IInv /\ StartupInv /\ BookInv /\ [Next]_vars => BookInv'
<1> SUFFICES ASSUME IInv, StartupInv, BookInv, [Next]_vars PROVE BookInv'
  OBVIOUS
<1> USE RowType, RowTrade, RowDistinct, TradeType
    DEF IInv, TypeOK, StoreTypeOK, RouterTypeOK, MonitorTypeOK, storeVars, Cap
<1> DEFINE Over(t) == /\ leg[t] = "done" /\ venue[t] = "closed"
                      /\ status[OmegaRow(t)] # "open" /\ status[ReconciledRow(t)] # "open"
           Uncounted == \A c \in Cycles : at[c] = "trailWrite" => \A r \in closing[c] : booked[r.trade] = 0
           FoundUncounted == up = "boot" => \A t \in bootOpen : booked[t] = 0
<1>1. \A t \in Trades : OverStays(t)
  BY OverStep
<1>2. ASSUME NEW t \in Trades, status'[ReconciledRow(t)] # "none" PROVE ~ Once(OmegaRow(t))'
  <2>1. leg[t] = "done" /\ ~ Once(OmegaRow(t))
    <3>1. CASE status[ReconciledRow(t)] # "none"
      BY <3>1 DEF StartupInv, BookInv
    <3>2. CASE status[ReconciledRow(t)] = "none"
      BY <1>1, <1>2, <3>2, AdoptedWasNotOnce DEF OverStays
    <3> QED
      BY <3>1, <3>2
  <2> QED
    BY <1>1, <2>1 DEF OverStays
<1>3. ASSUME NEW t \in Trades, booked[t] = 1 PROVE Over(t)'
  <2>1. Over(t)
    BY <1>3 DEF BookInv
  <2>2. status'[ReconciledRow(t)] # "open"
    <3>1. CASE status[ReconciledRow(t)] = "none"
      <4>1. ~ (Reconcile /\ t \in bootOpen)
        BY <1>3 DEF BookInv, Reconcile
      <4> QED
        BY <1>1, <3>1, <4>1 DEF OverStays
    <3>2. CASE status[ReconciledRow(t)] = "closed"
      BY <1>1, <3>2 DEF OverStays
    <3> QED
      BY <2>1, <3>1, <3>2 DEF StartupInv
  <2> QED
    BY <1>1, <2>1, <2>2 DEF OverStays
<1>4. CASE UNCHANGED booked /\ Uncounted' /\ FoundUncounted'
  BY <1>2, <1>3, <1>4 DEF BookInv
<1>5. ASSUME NEW c \in Cycles, NEW r \in RowIds, UNCHANGED <<leg, venue, up, bootOpen>>,
             r \in closing[c], MarkClosed(r), up = "up", booked[r.trade] = 0,
             booked' = [booked EXCEPT ![r.trade] = Bump(@)], closing' = [closing EXCEPT ![c] = {}]
      PROVE  BookInv'
  <2>1. booked'[r.trade] = 1 /\ \A t \in Trades \ {r.trade} : booked'[t] = booked[t]
    BY <1>5 DEF Bump
  <2>2. Over(r.trade)'
    <3>1. Once(r) /\ venue[r.trade] = "closed"
      BY <1>5 DEF CloserInv
    <3>2. leg[r.trade] = "done"
      <4>1. r = OmegaRow(r.trade) \/ r = ReconciledRow(r.trade)
        BY DEF RowIds, OmegaRow, ReconciledRow
      <4> QED
        BY <3>1, <4>1 DEF Once, LegInv, RouterTypeOK, LegPcs, StartupInv
    <3>3. \A q \in RowIds : q.trade = r.trade => status'[q] # "open"
      BY <1>5, <3>1, OtherRowNotOpen DEF MarkClosed
    <3> QED
      BY <1>5, <3>1, <3>2, <3>3
  <2>3. Uncounted'
    BY <1>5 DEF OneCycle
  <2> QED
    BY <1>2, <1>3, <1>5, <2>1, <2>2, <2>3 DEF BookInv
<1>6. ASSUME NEW c \in Cycles, NEW r \in RowIds, Finalize(c, r), UNCHANGED <<leg, bootOpen>> PROVE BookInv'
  <2>1. CASE UNCHANGED booked
    BY <1>4, <1>6, <2>1 DEF Finalize, CycleAt, BookInv
  <2>2. CASE /\ status[r] = "open" /\ MarkClosed(r)
             /\ booked' = [booked EXCEPT ![r.trade] = Bump(@)]
    <3>1. r = OmegaRow(r.trade) \/ r = ReconciledRow(r.trade)
      BY DEF RowIds, OmegaRow, ReconciledRow
    <3>2. booked[r.trade] = 0
      BY <2>2, <3>1 DEF BookInv
    <3> QED
      BY <1>5, <1>6, <2>2, <3>2 DEF Finalize
  <2> QED
    BY <1>6, <2>1, <2>2 DEF Finalize
<1>7. ASSUME NEW c \in Cycles, NEW r \in RowIds, TrailWrite(c, r), UNCHANGED <<leg, bootOpen>> PROVE BookInv'
  <2>1. booked[r.trade] = 0
    BY <1>7 DEF TrailWrite, BookInv
  <2>2. MarkClosed(r)
    BY <1>7 DEF TrailWrite, WritesWork
  <2> QED
    BY <1>5, <1>7, <2>1, <2>2 DEF TrailWrite
<1>8. ASSUME NEW c \in Cycles, NEW r \in RowIds, RowTrailStop(c, r), UNCHANGED bootOpen PROVE BookInv'
  <2>1. UNCHANGED <<booked, up>>
    BY <1>8 DEF RowTrailStop
  <2>2. CASE CloseReturns(r.trade) /\ closing' = [closing EXCEPT ![c] = {r}] /\ CycleAt(c, "trailWrite")
    <3>1. booked[r.trade] = 0
      <4>1. r.trade \in Trades /\ venue[r.trade] # "closed"
        BY <2>2 DEF CloseReturns
      <4>2. booked[r.trade] \in 0..1 /\ booked[r.trade] # 1
        BY <4>1 DEF BookInv
      <4> QED
        BY <4>2
    <3>2. Uncounted'
      BY <2>1, <2>2, <3>1 DEF CycleAt, OneCycle
    <3> QED
      BY <1>4, <1>8, <2>1, <3>2 DEF BookInv
  <2>3. CASE UNCHANGED <<at, closing>>
    BY <1>4, <1>8, <2>1, <2>3 DEF BookInv
  <2> QED
    BY <1>8, <2>2, <2>3 DEF RowTrailStop
<1>9. CASE Monitor
  <2>1. PICK c \in Cycles : CycleStep(c)
    BY <1>9 DEF Monitor, MonitorStep
  <2>2. UNCHANGED <<leg, bootOpen>>
    BY <1>9 DEF Monitor, routerVars
  <2>3. ASSUME NEW r \in RowIds, RowMaxHold(c, r) PROVE BookInv'
    <3>1. UNCHANGED booked /\ up' # "boot"
      BY <2>3 DEF RowMaxHold
    <3>2. Uncounted'
      BY <2>3, <3>1 DEF RowMaxHold, CycleAt, BookInv, monitorVars
    <3> QED
      BY <1>4, <3>1, <3>2
  <2>4. ASSUME NEW r \in RowIds, RowSkip(c, r) \/ RowSeenClosed(c, r) PROVE BookInv'
    <3>1. UNCHANGED <<booked, up>>
      BY <2>4 DEF RowSkip, RowSeenClosed
    <3>2. Uncounted'
      BY <2>4, <3>1 DEF RowSkip, RowSeenClosed, CycleAt, BookInv
    <3> QED
      BY <1>4, <2>2, <3>1, <3>2 DEF BookInv
  <2>5. CASE CycleStart(c) \/ CycleIndex(c) \/ CycleFails(c) \/ CycleEnd(c)
    <3>1. UNCHANGED booked /\ (up' # "boot" \/ UNCHANGED up)
      BY <2>5 DEF CycleStart, CycleIndex, CycleFails, CycleEnd, ProcessDies
    <3>2. Uncounted'
      BY <2>5, <3>1 DEF CycleStart, CycleIndex, CycleFails, CycleEnd, CycleAt, BookInv, monitorVars
    <3> QED
      BY <1>4, <2>2, <3>1, <3>2 DEF BookInv
  <2> QED
    BY <1>6, <1>7, <1>8, <2>1, <2>2, <2>3, <2>4, <2>5 DEF CycleStep
<1>10. CASE Router
  <2>1. UNCHANGED <<booked, up, at, closing, bootOpen>>
    BY <1>10 DEF Router, RouterStep, SetDirection, Receive, SignalStep, LegStep, StartLeg, LegGate, LegInsert,
          LegPlace, LegReply, LegCancel, LegUpdate, GiveUp, DetectFlip, SelectOpposing, FlipClose, FlipWrite,
          FlipDone, Sequence, FinishRoutes, monitorVars
  <2> QED
    BY <1>4, <2>1 DEF BookInv
<1>11. CASE Restart
  <2>1. Uncounted' /\ UNCHANGED booked
    BY <1>11 DEF Restart
  <2>2. FoundUncounted'
    BY <1>11 DEF Restart, BookInv
  <2> QED
    BY <1>4, <2>1, <2>2
<1>12. CASE Venue \/ Crash \/ Reconcile \/ UNCHANGED vars
  <2>1. UNCHANGED <<booked, at, closing>> /\ (up' # "boot" \/ UNCHANGED <<up, bootOpen>>)
    BY <1>12 DEF Venue, VenueFill, VenueReject, VenueExit, Crash, ProcessDies, Reconcile, vars, monitorVars
  <2> QED
    BY <1>4, <2>1 DEF BookInv
<1>13. CASE Session
  <2>1. UNCHANGED <<booked, at, closing, up, bootOpen>>
    BY <1>13, SessionShape DEF EndsTrade, EndsRow, monitorVars
  <2> QED
    BY <1>4, <2>1 DEF BookInv
<1> QED
  BY <1>9, <1>10, <1>11, <1>12, <1>13 DEF Next

(* The breaker counts the result of a trade at most once, whichever paths  *)
(* close it and whenever the process dies: if the log can be read and      *)
(* written, no close was cancelled and no cycle overlaps the one before.   *)
THEOREM ResultsAreCountedOnce ==
  ASSUME Honest, ReadsWork, WritesWork, OneCycle PROVE Spec => []BookedOnce
<1>1. Init => BookInv
  BY RowType DEF Init, StoreInit, RouterInit, MonitorInit, BookInv
<1>2. BookInv => BookedOnce
  BY DEF BookInv, BookedOnce
<1> QED
  BY <1>1, <1>2, BookStep, StartupInvariance, PTL DEF Spec

-----------------------------------------------------------------------------
(* One trade at a time.  Two signals are never in flight together.         *)
LEMMA AloneInFlight ==
  ASSUME IInv, CalmInv, Calm, NEW s \in Signals, Receive(s)
  PROVE  InFlight = {}
<1>1. IsFiniteSet(InFlight)
  BY FS_Subset DEF Calm, InFlight
<1>2. Cardinality(InFlight) = 0
  BY <1>1, FS_CardinalityType DEF Receive, Calm
<1> QED
  BY <1>1, <1>2, FS_EmptySet

(* The part of the invariant about the venue, the log and the legs.        *)
LegsKnow ==
  \A t \in Trades :
    /\ pc[t.signal] # "routes" => leg[t] \in {"idle", "done"}
    /\ venue[t] = "sent" => leg[t] = "await"
    /\ leg[t] = "cancel" => venue[t] = "rejected"
    /\ leg[t] = "done" /\ venue[t] = "open" => status[OmegaRow(t)] = "open"
    /\ HasBroker(t) =>
         \A u \in Trades : u.broker = t.broker /\ u # t => venue[u] \notin {"sent", "open"}

(* A leg under way is that of the one signal in flight, so no other leg of *)
(* the same broker is.                                                     *)
LEMMA OneLeg ==
  ASSUME IInv, CalmInv, NEW t \in Trades, NEW u \in Trades, t.broker = u.broker,
         leg[t] \notin {"idle", "done"}, leg[u] \notin {"idle", "done"}
  PROVE  t = u
<1>1. pc[t.signal] = "routes" /\ pc[u.signal] = "routes"
  BY DEF CalmInv
<1>2. t.signal = u.signal
  BY <1>1, TradeType DEF CalmInv, InFlight
<1> QED
  BY <1>2 DEF Trades

(* The gate of a leg lets it through only to a broker without a trade.     *)
LEMMA GateFree ==
  ASSUME IInv, CalmInv, NEW t \in Trades, leg[t] = "gate", t.broker \notin BusyBrokers,
         NEW u \in Trades, u.broker = t.broker, u # t
  PROVE  venue[u] \notin {"sent", "open"}
<1>1. leg[u] \in {"idle", "done"}
  BY OneLeg
<1>2. status[OmegaRow(u)] # "open"
  BY DEF BusyBrokers, OpenOmega
<1> QED
  BY <1>1, <1>2 DEF CalmInv, IInv, LegInv

(* A step changes the venue or the log for one trade, and says so.         *)
LEMMA LegsKnowStep ==
  ASSUME IInv, CalmInv, Calm, Honest, [Next]_vars
  PROVE  LegsKnow'
<1> USE RowType, RowTrade, RowDistinct, TradeType
    DEF IInv, TypeOK, StoreTypeOK, RouterTypeOK, storeVars, MarkClosed, VenueStates
<1>1. LegsKnow /\ up = "up"
  BY DEF CalmInv, LegsKnow
<1>2. CASE UNCHANGED <<venue, status, leg, pc>>
  BY <1>1, <1>2 DEF LegsKnow, HasBroker
<1>3. ASSUME NEW t \in Trades, LegStep(t), UNCHANGED <<monitorVars, sessionVars, bootOpen>> PROVE LegsKnow'
  <2>1. CASE StartLeg(t)
    BY <1>1, <2>1 DEF StartLeg, LegGoto, LegsKnow, HasBroker, LegInv
  <2>2. CASE LegGate(t)
    <3>1. CASE LegGoto(t, "insert") /\ t.broker \notin BusyBrokers
      <4>1. \A u \in Trades : u.broker = t.broker /\ u # t => venue[u] \notin {"sent", "open"}
        BY <2>2, <3>1, GateFree DEF LegGate
      <4> QED
        BY <1>1, <2>2, <3>1, <4>1 DEF LegGate, LegGoto, LegsKnow, HasBroker, LegInv
    <3>2. CASE LegGoto(t, "done")
      BY <1>1, <2>2, <3>2 DEF LegGate, LegGoto, LegsKnow, HasBroker, LegInv
    <3> QED
      BY <2>2, <3>1, <3>2 DEF LegGate, Calm
  <2>3. CASE LegInsert(t)
    BY <1>1, <2>3 DEF LegInsert, LegGoto, LegsKnow, HasBroker, LegInv, Calm
  <2>4. CASE LegPlace(t)
    <3>1. \A u \in Trades : u.broker = t.broker /\ u # t => ~HasBroker(u)
      <4>1. ASSUME NEW u \in Trades, u.broker = t.broker, u # t PROVE leg[u] \in {"idle", "done"}
        BY <2>4, <4>1, OneLeg DEF LegPlace
      <4>2. \A u \in Trades : u.broker = t.broker /\ u # t => venue[u] \notin {"sent", "open"}
        BY <1>1, <2>4 DEF LegPlace, HasBroker, LegsKnow
      <4> QED
        BY <4>1, <4>2 DEF HasBroker
    <3> QED
      BY <1>1, <2>4, <3>1 DEF LegPlace, LegGoto, LegsKnow, HasBroker
  <2>5. CASE LegReply(t)
    BY <1>1, <2>5 DEF LegReply, LegGoto, LegsKnow, HasBroker, Calm
  <2>6. CASE LegCancel(t)
    BY <1>1, <2>6 DEF LegCancel, LegGoto, LegsKnow, HasBroker, Calm
  <2>7. CASE LegUpdate(t)
    BY <1>1, <2>7 DEF LegUpdate, LegGoto, LegsKnow, HasBroker, Calm
  <2> QED
    BY <1>3, <2>1, <2>2, <2>3, <2>4, <2>5, <2>6, <2>7 DEF LegStep
<1>4. ASSUME NEW r \in RowIds, MarkClosed(r), venue[r.trade] = "closed", UNCHANGED <<venue, leg, pc>> PROVE LegsKnow'
  BY <1>1, <1>4 DEF LegsKnow, HasBroker
<1>5. ASSUME NEW t \in Trades, venue[t] = "open", venue' = [venue EXCEPT ![t] = "closed"], UNCHANGED <<status, leg>>,
             \A u \in Trades : pc[u.signal] # "routes" <=> pc'[u.signal] # "routes"
      PROVE  LegsKnow'
  BY <1>1, <1>5 DEF LegsKnow, HasBroker
<1>6. ASSUME NEW s \in Signals, Goto(s, pc'[s]), UNCHANGED <<venue, status, leg>>,
             pc'[s] # "routes" => \A t \in LegsOf(s) : leg[t] \in {"idle", "done"}
      PROVE  LegsKnow'
  BY <1>1, <1>6 DEF LegsKnow, HasBroker, Goto, LegsOf
<1>7. ASSUME NEW t \in Trades, CloseReturns(t) \/ CloseThrows(t)
      PROVE  venue' = venue \/ (venue[t] = "open" /\ venue' = [venue EXCEPT ![t] = "closed"])
  BY <1>7 DEF CloseReturns, CloseThrows
<1>8. CASE Router
  <2>1. ASSUME NEW s \in Signals, Receive(s) PROVE LegsKnow'
    <3>1. UNCHANGED <<venue, status, leg>> /\ Goto(s, pc'[s])
      BY <2>1 DEF Receive, Goto
    <3>2. \A t \in LegsOf(s) : leg[t] \in {"idle", "done"}
      BY <1>1, <2>1 DEF Receive, LegsOf, LegsKnow
    <3> QED
      BY <1>6, <3>1, <3>2
  <2>2. ASSUME NEW s \in Signals, NEW t \in Trades, FlipClose(s, t) PROVE LegsKnow'
    <3>1. UNCHANGED <<status, leg>> /\ \A u \in Trades : pc[u.signal] # "routes" <=> pc'[u.signal] # "routes"
      BY <2>2 DEF FlipClose, Goto
    <3>2. CASE venue' = venue
      BY <1>1, <3>1, <3>2 DEF LegsKnow, HasBroker
    <3> QED
      BY <1>5, <1>7, <2>2, <3>1, <3>2 DEF FlipClose
  <2>3. ASSUME NEW s \in Signals, NEW t \in Trades, FlipWrite(s, t) PROVE LegsKnow'
    <3>1. UNCHANGED <<venue, leg>> /\ \A u \in Trades : pc[u.signal] # "routes" <=> pc'[u.signal] # "routes"
      BY <2>3 DEF FlipWrite, Goto
    <3>2. MarkClosed(OmegaRow(t)) /\ venue[t] = "closed"
      BY <2>3 DEF FlipWrite, Calm, CloserInv
    <3> QED
      BY <1>1, <3>1, <3>2 DEF LegsKnow, HasBroker
  <2>4. ASSUME NEW s \in Signals,
               \/ GiveUp(s) \/ DetectFlip(s) \/ SelectOpposing(s)
               \/ FlipDone(s) \/ Sequence(s) \/ FinishRoutes(s)
        PROVE LegsKnow'
    <3>1. UNCHANGED <<venue, status, leg>> /\ Goto(s, pc'[s])
      BY <2>4 DEF GiveUp, DetectFlip, SelectOpposing, FlipDone, Sequence, FinishRoutes, Goto
    <3>2. \A t \in LegsOf(s) : leg[t] \in {"idle", "done"}
      BY <1>1, <2>4 DEF GiveUp, DetectFlip, SelectOpposing, FlipDone, Sequence, FinishRoutes, LegsOf, LegsKnow
    <3> QED
      BY <1>6, <3>1, <3>2
  <2> QED
    BY <1>2, <1>3, <1>8, <2>1, <2>2, <2>3, <2>4 DEF Router, RouterStep, SignalStep, SetDirection
<1>9. CASE Monitor
  <2>1. PICK c \in Cycles : CycleStep(c)
    BY <1>9 DEF Monitor, MonitorStep
  <2>2. UNCHANGED <<leg, pc>>
    BY <1>9 DEF Monitor, routerVars
  <2>3. ASSUME NEW r \in RowIds, Finalize(c, r) \/ TrailWrite(c, r) PROVE LegsKnow'
    <3>1. venue[r.trade] = "closed" /\ UNCHANGED venue /\ (UNCHANGED status \/ MarkClosed(r))
      BY <2>3 DEF Finalize, TrailWrite, CloserInv
    <3> QED
      BY <1>2, <1>4, <2>2, <3>1
  <2>4. ASSUME NEW r \in RowIds, RowTrailStop(c, r) PROVE LegsKnow'
    BY <1>2, <1>5, <1>7, <2>2, <2>4 DEF RowTrailStop
  <2>5. ASSUME NEW r \in RowIds, RowSkip(c, r) \/ RowSeenClosed(c, r) PROVE LegsKnow'
    BY <1>2, <2>2, <2>5 DEF RowSkip, RowSeenClosed
  <2>6. CASE CycleStart(c) \/ CycleIndex(c) \/ CycleFails(c) \/ CycleEnd(c)
    BY <1>2, <2>2, <2>6 DEF CycleStart, CycleIndex, CycleFails, CycleEnd, ProcessDies
  <2> QED
    BY <2>1, <2>3, <2>4, <2>5, <2>6 DEF CycleStep, RowMaxHold, Calm
<1>10. CASE Venue
  <2>1. ASSUME NEW t \in Trades, VenueFill(t), UNCHANGED routerVars PROVE LegsKnow'
    BY <1>1, <2>1 DEF VenueFill, routerVars, LegsKnow, HasBroker
  <2>2. ASSUME NEW t \in Trades, VenueReject(t), UNCHANGED routerVars PROVE LegsKnow'
    BY <1>1, <2>2 DEF VenueReject, routerVars, LegsKnow, HasBroker
  <2>3. ASSUME NEW t \in Trades, VenueExit(t), UNCHANGED routerVars PROVE LegsKnow'
    BY <1>5, <2>3 DEF VenueExit, routerVars
  <2> QED
    BY <1>10, <2>1, <2>2, <2>3 DEF Venue
<1>11. ~ Crash /\ ~ Restart /\ ~ Reconcile
  BY <1>1 DEF Crash, Restart, Reconcile, Calm
<1>12. CASE UNCHANGED vars
  BY <1>2, <1>12 DEF vars, routerVars
<1>13. CASE Session
  <2>1. UNCHANGED <<leg, pc>>
    BY <1>13, SessionShape DEF routerVars
  <2>2. ASSUME NEW t \in Trades, EndsTrade(t) PROVE LegsKnow'
    BY <1>5, <2>1, <2>2 DEF EndsTrade
  <2>3. ASSUME NEW t \in Trades, EndsRow(t) PROVE LegsKnow'
    BY <1>4, <2>1, <2>3 DEF EndsRow
  <2> QED
    BY <1>2, <1>13, <2>1, <2>2, <2>3, SessionShape
<1> QED
  BY <1>8, <1>9, <1>10, <1>11, <1>12, <1>13 DEF Next

LEMMA CalmStep == ASSUME Calm PROVE IInv /\ CalmInv /\ [Next]_vars => CalmInv'
<1> SUFFICES ASSUME IInv, CalmInv, [Next]_vars PROVE CalmInv'
  OBVIOUS
<1>1. Honest
  BY DEF Calm, Honest
<1>2. LegsKnow'
  BY <1>1, LegsKnowStep
<1>3. up' = "up"
  <2>1. ~ Crash /\ ~ Restart /\ ~ Reconcile /\ up = "up"
    BY DEF Crash, Restart, Reconcile, Calm, CalmInv
  <2>2. CASE Router
    BY <2>1, <2>2 DEF Router, RouterStep, SetDirection, Receive, SignalStep, LegStep, StartLeg, LegGate, LegInsert,
          LegPlace, LegReply, LegCancel, LegUpdate, GiveUp, DetectFlip, SelectOpposing, FlipClose, FlipWrite,
          FlipDone, Sequence, FinishRoutes, storeVars
  <2>3. CASE Monitor
    BY <2>1, <2>3 DEF Monitor, MonitorStep, CycleStep, CycleStart, CycleIndex, CycleFails, CycleEnd, RowSkip, RowSeenClosed,
          RowMaxHold, RowTrailStop, Finalize, TrailWrite, ProcessDies, storeVars, Calm
  <2>4. CASE Session
    BY <2>4, SessionShape DEF IInv, EndsTrade, EndsRow, storeVars
  <2> QED
    BY <2>1, <2>2, <2>3, <2>4 DEF Next, Venue, VenueFill, VenueReject, VenueExit, vars, storeVars
<1>4. \A s, z \in InFlight' : s = z
  <2> USE DEF IInv, TypeOK, RouterTypeOK
  <2>1. CASE InFlight' \subseteq InFlight
    BY <2>1 DEF CalmInv
  <2>2. ASSUME NEW s \in Signals, Receive(s) PROVE InFlight' \subseteq {s}
    BY <2>2, AloneInFlight DEF Receive, Goto, InFlight
  <2>3. ASSUME NEW s \in Signals, SignalStep(s) PROVE InFlight' \subseteq InFlight
    BY <2>3 DEF SignalStep, GiveUp, DetectFlip, SelectOpposing, FlipClose, FlipWrite,
          FlipDone, Sequence, FinishRoutes, Goto, InFlight
  <2>4. ASSUME UNCHANGED pc PROVE InFlight' \subseteq InFlight
    BY <2>4 DEF InFlight
  <2>5. CASE Router
    <3>1. ASSUME NEW t \in Trades, LegStep(t) PROVE UNCHANGED pc
      BY <3>1 DEF LegStep, StartLeg, LegGate, LegInsert, LegPlace, LegReply, LegCancel, LegUpdate
    <3>2. \/ UNCHANGED pc
          \/ \E s \in Signals : Receive(s) \/ SignalStep(s)
      BY <2>5, <3>1 DEF Router, RouterStep, SetDirection
    <3> QED
      BY <2>1, <2>2, <2>3, <2>4, <3>2
  <2>6. CASE Monitor \/ Session \/ Venue \/ UNCHANGED vars
    BY <2>1, <2>4, <2>6 DEF Monitor, Session, Venue, vars, routerVars
  <2>7. ~ Crash /\ ~ Restart /\ ~ Reconcile
    BY DEF Crash, Restart, Reconcile, Calm, CalmInv
  <2> QED
    BY <2>5, <2>6, <2>7 DEF Next
<1> QED
  BY <1>2, <1>3, <1>4 DEF CalmInv, LegsKnow

(* One trade per broker, at the venue and not only in the log, however     *)
(* many signals and brokers there are and however a flip's closes, the     *)
(* monitor's and the venue's own exits interleave: if signals are handled  *)
(* one at a time and nothing fails but a close that throws.                *)
THEOREM OneTradeForABroker == ASSUME Calm PROVE Spec => []OneTradePerBroker
<1>1. Init => CalmInv
  BY TradeType DEF Init, StoreInit, RouterInit, CalmInv, InFlight, HasBroker
<1>2. CalmInv => OneTradePerBroker
  BY DEF CalmInv, HasBroker, OneTradePerBroker
<1> QED
  BY <1>1, <1>2, CalmStep, Invariance, PTL DEF Spec

-----------------------------------------------------------------------------
(* Refinement of the ledger.  A step does one of three things to the log   *)
(* and the venues, and the ledger has a step for each.                     *)
Intends ==
  /\ UNCHANGED venue
  /\ \E t \in Trades : status[OmegaRow(t)] = "none"
                       /\ status' = [status EXCEPT ![OmegaRow(t)] = "pending"]

VenueMoves ==
  /\ UNCHANGED status
  /\ \E t \in Trades : \E v \in VenueStates :
       /\ <<venue[t], v>> \in { <<"none", "sent">>, <<"sent", "open">>,
                                <<"sent", "rejected">>, <<"open", "closed">> }
       /\ venue' = [venue EXCEPT ![t] = v]

LogMoves ==
  /\ UNCHANGED venue
  /\ \A t \in Trades : status[OmegaRow(t)] = "none" <=> status'[OmegaRow(t)] = "none"
  /\ \A r \in RowIds : status[r] = "closed" => status'[r] = "closed"

(* Every step of the bridge has one of the three shapes. *)
LEMMA StepShape ==
  ASSUME IInv, [Next]_vars
  PROVE  Intends \/ VenueMoves \/ LogMoves
<1> USE RowType, RowTrade, RowDistinct
    DEF IInv, TypeOK, StoreTypeOK, storeVars, VenueStates, ProcessDies
<1>1. CASE Router
  <2>1. ASSUME NEW t \in Trades, LegStep(t) PROVE Intends \/ VenueMoves \/ LogMoves
    <3>1. CASE LegInsert(t)
      BY <3>1 DEF LegInsert, LegInv, Intends, LogMoves
    <3>2. CASE LegPlace(t)
      BY <3>2 DEF LegPlace, LegInv, VenueMoves
    <3>3. CASE LegCancel(t) \/ LegUpdate(t)
      BY <3>3 DEF LegCancel, LegUpdate, LegInv, LogMoves
    <3>4. CASE StartLeg(t) \/ LegGate(t) \/ LegReply(t)
      BY <3>4 DEF StartLeg, LegGate, LegReply, LogMoves
    <3> QED
      BY <2>1, <3>1, <3>2, <3>3, <3>4 DEF LegStep
  <2>2. ASSUME NEW s \in Signals, NEW t \in Trades, FlipClose(s, t)
        PROVE VenueMoves \/ LogMoves
    BY <2>2 DEF FlipClose, CloseReturns, CloseThrows, VenueMoves, LogMoves
  <2>3. ASSUME NEW s \in Signals, NEW t \in Trades, FlipWrite(s, t)
        PROVE LogMoves
    BY <2>3 DEF FlipWrite, MarkClosed, CloserInv, Once, LogMoves
  <2>4. ASSUME NEW s \in Signals,
               \/ Receive(s) \/ GiveUp(s) \/ DetectFlip(s) \/ SelectOpposing(s)
               \/ FlipDone(s) \/ Sequence(s) \/ FinishRoutes(s)
        PROVE LogMoves
    BY <2>4 DEF Receive, GiveUp, DetectFlip, SelectOpposing, FlipDone, Sequence, FinishRoutes, LogMoves
  <2> QED
    BY <1>1, <2>1, <2>2, <2>3, <2>4 DEF Router, RouterStep, SignalStep, SetDirection, LogMoves
<1>2. CASE Monitor
  <2>1. PICK c \in Cycles : CycleStep(c)
    BY <1>2 DEF Monitor, MonitorStep
  <2>2. ASSUME NEW r \in RowIds, Finalize(c, r) \/ TrailWrite(c, r) PROVE LogMoves
    BY <2>2 DEF Finalize, TrailWrite, MarkClosed, CloserInv, Once, LogMoves
  <2>3. ASSUME NEW r \in RowIds, RowMaxHold(c, r) \/ RowTrailStop(c, r)
        PROVE VenueMoves \/ LogMoves
    BY <2>3 DEF RowMaxHold, RowTrailStop, CloseReturns, CloseThrows, VenueMoves, LogMoves
  <2>4. ASSUME NEW r \in RowIds, RowSkip(c, r) \/ RowSeenClosed(c, r) PROVE LogMoves
    BY <2>4 DEF RowSkip, RowSeenClosed, LogMoves
  <2>5. CASE CycleStart(c) \/ CycleIndex(c) \/ CycleFails(c) \/ CycleEnd(c)
    BY <2>5 DEF CycleStart, CycleIndex, CycleFails, CycleEnd, LogMoves
  <2> QED
    BY <2>1, <2>2, <2>3, <2>4, <2>5 DEF CycleStep
<1>3. CASE Venue
  BY <1>3 DEF Venue, VenueFill, VenueReject, VenueExit, VenueMoves
<1>4. CASE Crash \/ Restart
  BY <1>4 DEF Crash, Restart, LogMoves
<1>5. CASE Reconcile
  BY <1>5, ReconcileChanges DEF Reconcile, LogMoves
<1>6. CASE UNCHANGED vars
  BY <1>6 DEF vars, LogMoves
<1>7. CASE Session
  <2>1. ASSUME NEW t \in Trades, EndsTrade(t) PROVE VenueMoves
    BY <2>1 DEF EndsTrade, VenueMoves
  <2>2. ASSUME NEW t \in Trades, EndsRow(t) PROVE LogMoves
    BY <2>2 DEF EndsRow, Once, MarkClosed, LogMoves
  <2>3. ASSUME UNCHANGED storeVars PROVE LogMoves
    BY <2>3 DEF LogMoves
  <2> QED
    BY <1>7, <2>1, <2>2, <2>3, SessionShape
<1> QED
  BY <1>1, <1>2, <1>3, <1>4, <1>5, <1>6, <1>7 DEF Next

(* The stages a step may take one trade through, and whether it may take   *)
(* several trades through it at once.                                      *)
LEMMA StageAfter ==
  ASSUME Honest, IInv, IInv', Intends \/ VenueMoves \/ LogMoves, NEW t \in Trades
  PROVE  \/ StageOf(t)' = StageOf(t)
         \/ StageOf(t) = "absent"   /\ StageOf(t)' = "intended" /\ Intends
         \/ StageOf(t) = "intended" /\ StageOf(t)' = "live"     /\ VenueMoves
         \/ StageOf(t) = "live"     /\ StageOf(t)' = "ended"    /\ VenueMoves
         \/ StageOf(t) = "ended"    /\ StageOf(t)' = "settled"  /\ LogMoves
<1> USE RowType, RowTrade, RowDistinct
    DEF IInv, TypeOK, StoreTypeOK
<1>1. CASE Intends
  <2>1. PICK u \in Trades : status[OmegaRow(u)] = "none"
                            /\ status' = [status EXCEPT ![OmegaRow(u)] = "pending"]
    BY <1>1 DEF Intends
  <2>2. venue[u] = "none" /\ UNCHANGED venue
    BY <1>1, <2>1 DEF Intends, OrderHasRow
  <2>3. \A r \in RowIds : r.trade = u => status'[r] # "closed"
    BY <2>2 DEF LogInv, Once, Reached
  <2>4. CASE t = u
    BY <1>1, <2>1, <2>2, <2>3, <2>4 DEF StageOf
  <2>5. CASE t # u
    BY <2>1, <2>2, <2>5 DEF StageOf
  <2> QED
    BY <2>4, <2>5
<1>2. CASE VenueMoves
  BY <1>2 DEF VenueMoves, StageOf, OrderHasRow, LogInv, Honest
<1>3. CASE LogMoves
  BY <1>3 DEF LogMoves, StageOf, OrderHasRow, LogInv, Honest
<1> QED
  BY <1>1, <1>2, <1>3

LEMMA LedgerStep ==
  ASSUME Honest, IInv, IInv', [Next]_vars
  PROVE  [Ledger!LedgerNext]_[t \in Trades |-> StageOf(t)]
<1> DEFINE stg == [t \in Trades |-> StageOf(t)]
           moved == { t \in Trades : StageOf(t)' # StageOf(t) }
<1>1. Intends \/ VenueMoves \/ LogMoves
  BY StepShape
<1>2. CASE moved = {}
  <2>1. stg' = stg
    BY <1>2
  <2> QED
    BY <2>1
<1>3. CASE moved # {} /\ (Intends \/ VenueMoves)
  <2>1. PICK t \in Trades : moved = {t}
    BY <1>3, RowType, RowTrade, RowDistinct
       DEF Intends, VenueMoves, StageOf, IInv, TypeOK, StoreTypeOK
  <2>2. stg' = [u \in Trades |-> IF u \in {t} THEN StageOf(t)' ELSE stg[u]]
    BY <2>1
  <2>3. \/ StageOf(t) = "absent"   /\ StageOf(t)' = "intended"
        \/ StageOf(t) = "intended" /\ StageOf(t)' = "live"
        \/ StageOf(t) = "live"     /\ StageOf(t)' = "ended"
        \/ StageOf(t) = "ended"    /\ StageOf(t)' = "settled" /\ LogMoves
    BY <1>1, <2>1, StageAfter
  <2>4. \/ Ledger!Intend(t) \/ Ledger!GoLive(t) \/ Ledger!End(t)
        \/ stg[t] = "ended" /\ Ledger!Advance({t}, "ended", "settled")
    BY <2>2, <2>3 DEF Ledger!Intend, Ledger!GoLive, Ledger!End, Ledger!Advance
  <2> QED
    BY <2>4 DEF Ledger!LedgerNext, Ledger!Settle
<1>4. CASE moved # {} /\ ~ Intends /\ ~ VenueMoves
  <2>1. \A t \in moved : StageOf(t) = "ended" /\ StageOf(t)' = "settled"
    BY <1>1, <1>4, StageAfter
  <2>2. stg' = [u \in Trades |-> IF u \in moved THEN "settled" ELSE stg[u]]
    BY <2>1
  <2>3. Ledger!Advance(moved, "ended", "settled")
    BY <1>4, <2>1, <2>2 DEF Ledger!Advance
  <2>4. moved \in SUBSET { t \in Trades : stg[t] = "ended" }
    BY <2>1
  <2> QED
    BY <2>3, <2>4 DEF Ledger!LedgerNext, Ledger!Settle
<1> QED
  BY <1>2, <1>3, <1>4

(* The refinement, for every set of signals, brokers and cycles and every  *)
(* mixture of faults but a cancelled close: each trade passes through      *)
(* absent, intended, live, ended and settled in that order.                *)
THEOREM LedgerImplemented == ASSUME Honest PROVE Spec => ImplementsLedger
<1>1. Init => Ledger!LedgerInit
  BY RowType DEF Init, StoreInit, StageOf, Ledger!LedgerInit
<1>2. IInv /\ IInv' /\ [Next]_vars => [Ledger!LedgerNext]_[t \in Trades |-> StageOf(t)]
  BY Honest, LedgerStep
<1> QED
  BY <1>1, <1>2, Invariance, PTL DEF Spec, ImplementsLedger, Ledger!Spec
=============================================================================
