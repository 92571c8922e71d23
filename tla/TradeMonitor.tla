---------------------------- MODULE TradeMonitor ----------------------------
(***************************************************************************)
(* runTradeMonitor: every 30 seconds it compares the open rows of the log  *)
(* with what the brokers say, records closes it finds, closes what was     *)
(* held too long, and runs the trailing stop.                              *)
(*                                                                         *)
(* setInterval does not wait for the previous run, so a slow cycle         *)
(* overlaps the next: Cycles is how many may overlap.  A cycle reads the   *)
(* rows first and the brokers afterwards, then walks the rows it read,     *)
(* awaiting a broker or the database at every row.                         *)
(***************************************************************************)
EXTENDS TradeStore

CONSTANTS Cycles,   \* bound: runs of the monitor that may overlap
          MaxHold   \* whether trades may reach max_hold_hours

ASSUME MonitorAssumption == MaxHold \in BOOLEAN

VARIABLES
  at,       \* where each cycle stands
  rows,     \* logOpen: the rows it has still to visit
  openIds,  \* buildBrokerOpenTradeIndex, as it was read
  closing   \* the row whose close it is about to write

monitorVars == <<at, rows, openIds, closing>>

CyclePcs == {"idle", "index", "loop", "finalize", "trailWrite"}

MonitorTypeOK ==
  /\ at      \in [Cycles -> CyclePcs]
  /\ rows    \in [Cycles -> SUBSET RowIds]
  /\ openIds \in [Cycles -> SUBSET Trades]
  /\ closing \in [Cycles -> SUBSET RowIds]

MonitorInit ==
  /\ at      = [c \in Cycles |-> "idle"]
  /\ rows    = [c \in Cycles |-> {}]
  /\ openIds = [c \in Cycles |-> {}]
  /\ closing = [c \in Cycles |-> {}]

CycleAt(c, label) == at' = [at EXCEPT ![c] = label]
Visited(c, r) == rows' = [rows EXCEPT ![c] = @ \ {r}]

(* A failed read of the rows, or an empty answer, leaves nothing to do. *)
CycleStart(c) ==
  /\ up = "up"
  /\ at[c] = "idle"
  /\ OpenRows # {}
  /\ rows' = [rows EXCEPT ![c] = OpenRows]
  /\ CycleAt(c, "index")
  /\ UNCHANGED <<openIds, closing>>
  /\ UNCHANGED storeVars

(* Practice must answer; any other broker that does not is taken to hold   *)
(* nothing.                                                                *)
CycleIndex(c) ==
  /\ up = "up"
  /\ at[c] = "index"
  /\ \E silent \in SUBSET (IF "fetch" \in Faults THEN Brokers \ {Practice} ELSE {}) :
       openIds' = [openIds EXCEPT ![c] =
                     { t \in Trades : venue[t] = "open" /\ t.broker \notin silent }]
  /\ CycleAt(c, "loop")
  /\ UNCHANGED <<rows, closing>>
  /\ UNCHANGED storeVars

(* The fifth failure in a row exits; a failure inside a cycle rejects the  *)
(* promise nobody handles, which ends the process.                         *)
CycleFails(c) ==
  /\ up = "up"
  /\ "fetch" \in Faults
  /\ at[c] \in {"idle", "index"}
  /\ ProcessDies
  /\ UNCHANGED monitorVars

(* Younger than a minute, still open and within its limits, or the broker  *)
(* has no record of a close yet.                                           *)
RowSkip(c, r) ==
  /\ up = "up"
  /\ at[c] = "loop"
  /\ r \in rows[c]
  /\ Visited(c, r)
  /\ UNCHANGED <<at, openIds, closing>>
  /\ UNCHANGED storeVars

(* Names with Bug are mistakes a change to the code could make; no         *)
(* specification uses them: the properties are tested against them.        *)

(* fetchClosedTradeSnapshotViaBroker confirms a close. *)
RowSeenClosedBugOandaOnly(c, r) ==
  /\ up = "up"
  /\ at[c] = "loop"
  /\ r \in rows[c]
  /\ r.trade.broker \notin Mt5
  /\ r.trade \notin openIds[c]
  /\ closing' = [closing EXCEPT ![c] = {r}]
  /\ Visited(c, r)
  /\ CycleAt(c, "finalize")
  /\ UNCHANGED openIds
  /\ UNCHANGED storeVars
  /\ venue[r.trade] = "closed"

RowSeenClosed(c, r) ==
  /\ up = "up"
  /\ at[c] = "loop"
  /\ r \in rows[c]
  /\ r.trade \notin openIds[c]
  /\ venue[r.trade] = "closed"
  /\ closing' = [closing EXCEPT ![c] = {r}]
  /\ Visited(c, r)
  /\ CycleAt(c, "finalize")
  /\ UNCHANGED openIds
  /\ UNCHANGED storeVars

(* Max hold: a close that throws is not caught either. *)
RowMaxHold(c, r) ==
  /\ MaxHold
  /\ up = "up"
  /\ at[c] = "loop"
  /\ r \in rows[c]
  /\ r.trade \in openIds[c]
  /\ \/ /\ CloseReturns(r.trade)
        /\ closing' = [closing EXCEPT ![c] = {r}]
        /\ Visited(c, r)
        /\ CycleAt(c, "finalize")
        /\ UNCHANGED <<openIds, status, booked, alerted, up>>
     \/ /\ CloseThrows(r.trade)
        /\ up' = "down"
        /\ UNCHANGED monitorVars
        /\ UNCHANGED <<status, booked, alerted>>

(* closeTrailStop swallows a close that throws. *)
RowTrailStopBugIgnoresError(c, r) ==
  /\ up = "up"
  /\ at[c] = "loop"
  /\ r \in rows[c]
  /\ r.trade \in openIds[c]
  /\ r.engine = "omega" /\ r.trade.broker \notin LaneB
  /\ CloseReturns(r.trade) \/ CloseThrows(r.trade)
  /\ closing' = [closing EXCEPT ![c] = {r}]
  /\ CycleAt(c, "trailWrite")
  /\ Visited(c, r)
  /\ UNCHANGED <<openIds, status, booked, alerted, up>>

RowTrailStop(c, r) ==
  /\ up = "up"
  /\ at[c] = "loop"
  /\ r \in rows[c]
  /\ r.trade \in openIds[c]
  /\ r.engine = "omega" /\ r.trade.broker \notin LaneB
  /\ \/ /\ CloseReturns(r.trade)
        /\ closing' = [closing EXCEPT ![c] = {r}]
        /\ CycleAt(c, "trailWrite")
     \/ /\ CloseThrows(r.trade)
        /\ UNCHANGED <<at, closing>>
  /\ Visited(c, r)
  /\ UNCHANGED <<openIds, status, booked, alerted, up>>

(* finalizeOpenLogRowClose: UPDATE ... WHERE status = 'open', and only the *)
(* writer that changed the row counts the result and sends the alert.      *)
FinalizeBugNoGuard(c, r) ==
  /\ up = "up"
  /\ at[c] = "finalize"
  /\ r \in closing[c]
  /\ MarkClosed(r)
  /\ booked' = [booked EXCEPT ![r.trade] = Bump(@)]
  /\ alerted' = [alerted EXCEPT ![r] = Bump(@)]
  /\ closing' = [closing EXCEPT ![c] = {}]
  /\ CycleAt(c, "loop")
  /\ UNCHANGED <<rows, openIds, venue, up>>

Finalize(c, r) ==
  /\ up = "up"
  /\ at[c] = "finalize"
  /\ r \in closing[c]
  /\ \/ /\ status[r] = "open"
        /\ MarkClosed(r)
        /\ booked' = [booked EXCEPT ![r.trade] = Bump(@)]
        /\ alerted' = [alerted EXCEPT ![r] = Bump(@)]
     \/ /\ status[r] # "open" \/ "dbWrite" \in Faults
        /\ UNCHANGED <<status, booked, alerted>>
  /\ closing' = [closing EXCEPT ![c] = {}]
  /\ CycleAt(c, "loop")
  /\ UNCHANGED <<rows, openIds, venue, up>>

(* persistBridgeLogAfterTrailClose: no guard, and the error is not read. *)
TrailWriteBugNoStatus(c, r) ==
  /\ up = "up"
  /\ at[c] = "trailWrite"
  /\ r \in closing[c]
  /\ booked' = [booked EXCEPT ![r.trade] = Bump(@)]
  /\ closing' = [closing EXCEPT ![c] = {}]
  /\ CycleAt(c, "loop")
  /\ UNCHANGED <<rows, openIds, venue, status, alerted, up>>

TrailWrite(c, r) ==
  /\ up = "up"
  /\ at[c] = "trailWrite"
  /\ r \in closing[c]
  /\ \/ MarkClosed(r)
     \/ "dbWrite" \in Faults /\ UNCHANGED status
  /\ booked' = [booked EXCEPT ![r.trade] = Bump(@)]
  /\ closing' = [closing EXCEPT ![c] = {}]
  /\ CycleAt(c, "loop")
  /\ UNCHANGED <<rows, openIds, venue, alerted, up>>

CycleEnd(c) ==
  /\ up = "up"
  /\ at[c] = "loop"
  /\ rows[c] = {}
  /\ openIds' = [openIds EXCEPT ![c] = {}]
  /\ CycleAt(c, "idle")
  /\ UNCHANGED <<rows, closing>>
  /\ UNCHANGED storeVars

CycleStep(c) ==
  \/ CycleStart(c) \/ CycleIndex(c) \/ CycleFails(c) \/ CycleEnd(c)
  \/ \E r \in RowIds :
       \/ RowSkip(c, r) \/ RowSeenClosed(c, r) \/ RowMaxHold(c, r)
       \/ RowTrailStop(c, r) \/ Finalize(c, r) \/ TrailWrite(c, r)

MonitorStep == \E c \in Cycles : CycleStep(c)
=============================================================================
