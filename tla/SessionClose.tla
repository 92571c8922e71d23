---------------------------- MODULE SessionClose ----------------------------
(***************************************************************************)
(* runAsianSessionClose: at 08:00 UTC a cron reads omega_direction and     *)
(* closes the open omega trades of that direction, with the function that  *)
(* a direction flip uses (closeAllOpenOmegaPositions).  Nothing keeps it   *)
(* from running while a flip, a cycle of the monitor or the order of a     *)
(* signal is under way.  A day's run has long ended when the next begins.  *)
(***************************************************************************)
EXTENDS TradeStore

CONSTANT AsianClose   \* bound: whether 08:00 may come

ASSUME SessionAssumption == AsianClose \in BOOLEAN

VARIABLES
  session,      \* where the run of the day stands
  sessionDir,   \* the direction it read
  sessionTodo,  \* trades it still has to close
  sessionCur    \* the trade whose close it is writing to the log

sessionVars == <<session, sessionDir, sessionTodo, sessionCur>>

SessionTypeOK ==
  /\ session     \in {"idle", "select", "closing", "write"}
  /\ sessionDir  \in SUBSET Directions
  /\ sessionTodo \in SUBSET Trades
  /\ sessionCur  \in SUBSET Trades

SessionInit ==
  /\ session     = "idle"
  /\ sessionDir  = {}
  /\ sessionTodo = {}
  /\ sessionCur  = {}

(* readOmegaDirection; a read that fails is taken for "long". *)
SessionStart(direction) ==
  /\ AsianClose
  /\ up = "up"
  /\ session = "idle"
  /\ session' = "select"
  /\ \/ sessionDir' = {direction}
     \/ "dbRead" \in Faults /\ \E d \in Directions : sessionDir' = {d}
  /\ UNCHANGED <<sessionTodo, sessionCur>>
  /\ UNCHANGED storeVars

SessionSelect ==
  /\ up = "up"
  /\ session = "select"
  /\ \/ sessionTodo' = { t \in OpenOmega : DirOf[t.signal] \in sessionDir /\ t.broker \notin LaneB }
     \/ "dbRead" \in Faults /\ sessionTodo' = {}
  /\ session' = "closing"
  /\ sessionDir' = {}
  /\ UNCHANGED sessionCur
  /\ UNCHANGED storeVars

SessionCloseTrade(t) ==
  /\ up = "up"
  /\ session = "closing"
  /\ t \in sessionTodo
  /\ sessionTodo' = sessionTodo \ {t}
  /\ \/ /\ CloseReturns(t)
        /\ session' = "write"
        /\ sessionCur' = {t}
     \/ /\ CloseThrows(t)
        /\ UNCHANGED <<session, sessionCur>>
  /\ UNCHANGED sessionDir
  /\ UNCHANGED <<status, booked, alerted, up>>

SessionWrite(t) ==
  /\ up = "up"
  /\ session = "write"
  /\ t \in sessionCur
  /\ \/ MarkClosed(OmegaRow(t))
     \/ "dbWrite" \in Faults /\ UNCHANGED status
  /\ sessionCur' = {}
  /\ session' = "closing"
  /\ UNCHANGED <<sessionDir, sessionTodo>>
  /\ UNCHANGED <<venue, booked, alerted, up>>

SessionEnd ==
  /\ up = "up"
  /\ session = "closing"
  /\ sessionTodo = {}
  /\ session' = "idle"
  /\ UNCHANGED <<sessionDir, sessionTodo, sessionCur>>
  /\ UNCHANGED storeVars

SessionStep(direction) ==
  \/ SessionStart(direction) \/ SessionSelect \/ SessionEnd
  \/ \E t \in Trades : SessionCloseTrade(t) \/ SessionWrite(t)
=============================================================================
