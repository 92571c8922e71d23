--------------------------- MODULE OmegaExecution ---------------------------
(***************************************************************************)
(* The router's path for an omega signal, from the direction-flip check to *)
(* the Trail v1 order on every active broker.                              *)
(*                                                                         *)
(* processSignal is started by a Realtime callback that does not wait for  *)
(* it, so several signals are in flight at once.  Every await is a place   *)
(* where another handler runs: an action below is the code between two     *)
(* awaits.  The gates that only read the signal or the configuration       *)
(* (validation, latency, news, window, risk) are the choice GiveUp.        *)
(***************************************************************************)
EXTENDS TradeStore

CONSTANTS RawMode,       \* bridge_config omega_raw_mode
          MaxInFlight    \* bound: signals processed at the same time

ASSUME ExecutionAssumption == RawMode \in BOOLEAN /\ MaxInFlight \in Nat

VARIABLES
  pc,         \* where processSignal stands, per signal
  override,   \* omega_direction as the signal read it
  from,       \* the cached direction it saw when it detected a flip
  todo,       \* trades the flip still has to close
  cur,        \* the trade whose close it is writing to the log
  leg,        \* where executeOmegaTrailV1Order stands, per trade
  cfgDir,     \* bridge_config omega_direction
  cachedDir   \* cachedOmegaDirection, a module-level variable of the router

routerVars == <<pc, override, from, todo, cur, leg, cfgDir, cachedDir>>

None == "none"

SignalPcs == {"new", "flip", "select", "closing", "write", "sequence", "routes", "done"}
LegPcs    == {"idle", "gate", "insert", "place", "await", "cancel", "update", "retry", "done"}

RouterTypeOK ==
  /\ pc        \in [Signals -> SignalPcs]
  /\ override  \in [Signals -> Directions \cup {None}]
  /\ from      \in [Signals -> Directions \cup {None}]
  /\ todo      \in [Signals -> SUBSET Trades]
  /\ cur       \in [Signals -> SUBSET Trades]
  /\ leg       \in [Trades -> LegPcs]
  /\ cfgDir    \in Directions
  /\ cachedDir \in Directions \cup {None}

RouterInit ==
  /\ pc        = [s \in Signals |-> "new"]
  /\ override  = [s \in Signals |-> None]
  /\ from      = [s \in Signals |-> None]
  /\ todo      = [s \in Signals |-> {}]
  /\ cur       = [s \in Signals |-> {}]
  /\ leg       = [t \in Trades |-> "idle"]
  /\ cfgDir    \in Directions
  /\ cachedDir = None

Goto(s, label) == pc' = [pc EXCEPT ![s] = label]
LegGoto(t, label) == leg' = [leg EXCEPT ![t] = label]

InFlight == { s \in Signals : pc[s] \notin {"new", "done"} }
LegsOf(s) == { t \in Trades : t.signal = s }

-----------------------------------------------------------------------------
(* Direction set by the dashboard, the AMD detector or the Asian service. *)
SetDirection(d) ==
  /\ d # cfgDir
  /\ cfgDir' = d
  /\ UNCHANGED <<pc, override, from, todo, cur, leg, cachedDir>>
  /\ UNCHANGED storeVars

Receive(s) ==
  /\ up = "up"
  /\ pc[s] = "new"
  /\ Cardinality(InFlight) < MaxInFlight
  /\ Goto(s, "flip")
  /\ override' = [override EXCEPT ![s] = cfgDir]
  /\ UNCHANGED <<from, todo, cur, leg, cfgDir, cachedDir>>
  /\ UNCHANGED storeVars

(* A gate before the flip check, or between sequencing and the fan-out,    *)
(* records BLOCKED or SKIPPED and returns.                                 *)
GiveUp(s) ==
  /\ up = "up"
  /\ \/ pc[s] = "flip"
     \/ pc[s] = "routes" /\ \A t \in LegsOf(s) : leg[t] = "idle"
  /\ Goto(s, "done")
  /\ UNCHANGED <<override, from, todo, cur, leg, cfgDir, cachedDir>>
  /\ UNCHANGED storeVars

DetectFlip(s) ==
  /\ up = "up"
  /\ pc[s] = "flip"
  /\ \/ /\ ~RawMode
        /\ cachedDir \notin {None, override[s]}
        /\ Goto(s, "select")
        /\ from' = [from EXCEPT ![s] = cachedDir]
        /\ UNCHANGED cachedDir
     \/ /\ ~RawMode
        /\ cachedDir \in {None, override[s]}
        /\ Goto(s, "sequence")
        /\ cachedDir' = override[s]
        /\ UNCHANGED from
     \/ /\ RawMode
        /\ Goto(s, "sequence")
        /\ UNCHANGED <<from, cachedDir>>
  /\ UNCHANGED <<override, todo, cur, leg, cfgDir>>
  /\ UNCHANGED storeVars

(* closeAllOpenOmegaPositions: the query, then one close per row. *)
SelectOpposing(s) ==
  /\ up = "up"
  /\ pc[s] = "select"
  /\ LET opposing == { t \in OpenOmega : DirOf[t.signal] = from[s] /\ t.broker \notin LaneB }
     IN  \/ todo' = [todo EXCEPT ![s] = opposing]
         \/ "dbRead" \in Faults /\ todo' = [todo EXCEPT ![s] = {}]
  /\ Goto(s, "closing")
  /\ UNCHANGED <<override, from, cur, leg, cfgDir, cachedDir>>
  /\ UNCHANGED storeVars

FlipClose(s, t) ==
  /\ up = "up"
  /\ pc[s] = "closing"
  /\ t \in todo[s]
  /\ todo' = [todo EXCEPT ![s] = @ \ {t}]
  /\ \/ /\ CloseReturns(t)
        /\ Goto(s, "write")
        /\ cur' = [cur EXCEPT ![s] = {t}]
     \/ /\ CloseThrows(t)
        /\ UNCHANGED <<pc, cur>>
  /\ UNCHANGED <<override, from, leg, cfgDir, cachedDir>>
  /\ UNCHANGED <<status, booked, alerted, up>>

FlipWrite(s, t) ==
  /\ up = "up"
  /\ pc[s] = "write"
  /\ t \in cur[s]
  /\ \/ MarkClosed(OmegaRow(t))
     \/ "dbWrite" \in Faults /\ UNCHANGED status
  /\ cur' = [cur EXCEPT ![s] = {}]
  /\ Goto(s, "closing")
  /\ UNCHANGED <<override, from, todo, leg, cfgDir, cachedDir>>
  /\ UNCHANGED <<venue, booked, alerted, up>>

FlipDone(s) ==
  /\ up = "up"
  /\ pc[s] = "closing"
  /\ todo[s] = {}
  /\ cachedDir' = override[s]
  /\ Goto(s, "sequence")
  /\ UNCHANGED <<override, from, todo, cur, leg, cfgDir>>
  /\ UNCHANGED storeVars

(* checkOmegaBrokerSequencingBlock; with at most one link, the global block. *)
AllBrokersBusy ==
  IF Cardinality(Brokers) <= 1 THEN OpenOmega # {} ELSE Brokers \subseteq BusyBrokers

Sequence(s) ==
  /\ up = "up"
  /\ pc[s] = "sequence"
  /\ \/ AllBrokersBusy /\ Goto(s, "done")
     \/ ~AllBrokersBusy /\ Goto(s, "routes")
     \/ "dbRead" \in Faults /\ Goto(s, "routes")
  /\ UNCHANGED <<override, from, todo, cur, leg, cfgDir, cachedDir>>
  /\ UNCHANGED storeVars

(* The AlphaOmega routes start together; the others follow one at a time. *)
StartLeg(t) ==
  /\ up = "up"
  /\ pc[t.signal] = "routes"
  /\ leg[t] = "idle"
  /\ t.broker \notin LaneB =>
       \A u \in LegsOf(t.signal) \ {t} :
         /\ u.broker \in LaneB => leg[u] = "done"
         /\ leg[u] \in {"idle", "done"}
  /\ LegGoto(t, "gate")
  /\ UNCHANGED <<pc, override, from, todo, cur, cfgDir, cachedDir>>
  /\ UNCHANGED storeVars

FinishRoutes(s) ==
  /\ up = "up"
  /\ pc[s] = "routes"
  /\ \A t \in LegsOf(s) : leg[t] = "done"
  /\ Goto(s, "done")
  /\ UNCHANGED <<override, from, todo, cur, leg, cfgDir, cachedDir>>
  /\ UNCHANGED storeVars

-----------------------------------------------------------------------------
(* Names with Bug are mistakes a change to the code could make; no         *)
(* specification uses them: the properties are tested against them.        *)

(* One broker route: hasOpenOmegaOnBroker, the Lane B gates, then the order. *)
LegGateBugNoGate(t) ==
  /\ up = "up"
  /\ leg[t] = "gate"
  /\ LegGoto(t, "insert")
  /\ UNCHANGED <<pc, override, from, todo, cur, cfgDir, cachedDir>>
  /\ UNCHANGED storeVars

LegGate(t) ==
  /\ up = "up"
  /\ leg[t] = "gate"
  /\ \/ t.broker \notin BusyBrokers /\ LegGoto(t, "insert")
     \/ t.broker \in BusyBrokers \cup LaneB /\ LegGoto(t, "done")
     \/ "dbRead" \in Faults /\ LegGoto(t, "insert")
  /\ UNCHANGED <<pc, override, from, todo, cur, cfgDir, cachedDir>>
  /\ UNCHANGED storeVars

(* insertPendingOmegaRow: without the row there is no order. *)
LegInsert(t) ==
  /\ up = "up"
  /\ leg[t] = "insert"
  /\ \/ /\ status' = [status EXCEPT ![OmegaRow(t)] = "pending"]
        /\ LegGoto(t, "place")
     \/ /\ "dbWrite" \in Faults
        /\ LegGoto(t, "done")
        /\ UNCHANGED status
  /\ UNCHANGED <<pc, override, from, todo, cur, cfgDir, cachedDir>>
  /\ UNCHANGED <<venue, booked, alerted, up>>

LegPlace(t) ==
  /\ up = "up"
  /\ leg[t] = "place"
  /\ venue' = [venue EXCEPT ![t] = "sent"]
  /\ LegGoto(t, "await")
  /\ UNCHANGED <<pc, override, from, todo, cur, cfgDir, cachedDir>>
  /\ UNCHANGED <<status, booked, alerted, up>>

(* The answer of the venue, or the client's own timeout (AbortError). *)
LegReply(t) ==
  /\ up = "up"
  /\ leg[t] = "await"
  /\ \/ venue[t] \in {"open", "closed"} /\ LegGoto(t, "update")
     \/ venue[t] = "rejected" /\ LegGoto(t, "cancel")
     \/ "orderTimeout" \in Faults /\ LegGoto(t, "cancel")
  /\ UNCHANGED <<pc, override, from, todo, cur, cfgDir, cachedDir>>
  /\ UNCHANGED storeVars

(* markOmegaRowCancelled: decision BLOCKED, the status stays 'pending'. *)
LegCancel(t) ==
  /\ up = "up"
  /\ leg[t] = "cancel"
  /\ \/ status' = [status EXCEPT ![OmegaRow(t)] = "blocked"]
     \/ "dbWrite" \in Faults /\ UNCHANGED status
  /\ LegGoto(t, "done")
  /\ UNCHANGED <<pc, override, from, todo, cur, cfgDir, cachedDir>>
  /\ UNCHANGED <<venue, booked, alerted, up>>

(* applyOmegaFillUpdate: one retry, then the leg goes on regardless. *)
LegUpdate(t) ==
  /\ up = "up"
  /\ leg[t] \in {"update", "retry"}
  /\ \/ /\ status' = [status EXCEPT ![OmegaRow(t)] = "open"]
        /\ LegGoto(t, "done")
     \/ /\ "dbWrite" \in Faults
        /\ LegGoto(t, IF leg[t] = "update" THEN "retry" ELSE "done")
        /\ UNCHANGED status
  /\ UNCHANGED <<pc, override, from, todo, cur, cfgDir, cachedDir>>
  /\ UNCHANGED <<venue, booked, alerted, up>>

-----------------------------------------------------------------------------
(* What the process itself does next for a signal, or for one broker. *)
SignalStep(s) ==
  \/ GiveUp(s) \/ DetectFlip(s) \/ SelectOpposing(s) \/ FlipDone(s)
  \/ Sequence(s) \/ FinishRoutes(s)
  \/ \E t \in Trades : FlipClose(s, t) \/ FlipWrite(s, t)

LegStep(t) ==
  \/ StartLeg(t) \/ LegGate(t) \/ LegInsert(t) \/ LegPlace(t)
  \/ LegReply(t) \/ LegCancel(t) \/ LegUpdate(t)

RouterStep ==
  \/ \E d \in Directions : SetDirection(d)
  \/ \E s \in Signals : Receive(s) \/ SignalStep(s)
  \/ \E t \in Trades : LegStep(t)
=============================================================================
