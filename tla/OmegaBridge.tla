----------------------------- MODULE OmegaBridge -----------------------------
(***************************************************************************)
(* The bridge as one system: the router, the monitor, the session close,   *)
(* the venues, and the process that dies and starts again.  What the first *)
(* three remember is in memory and is lost when the process dies; the      *)
(* log and the venues survive, and runStartupReconciliation compares them  *)
(* before the monitor and the signal subscription start.                   *)
(***************************************************************************)
EXTENDS OmegaExecution, TradeMonitor, SessionClose

VARIABLE bootOpen   \* the open trades startup read from the OANDA accounts

vars == <<storeVars, routerVars, monitorVars, sessionVars, bootOpen>>

(* Type invariant: rows, venue, handlers and what startup has read.        *)
TypeOK ==
  /\ StoreTypeOK
  /\ RouterTypeOK
  /\ MonitorTypeOK
  /\ SessionTypeOK
  /\ bootOpen \in SUBSET Trades

Init == StoreInit /\ RouterInit /\ MonitorInit /\ SessionInit /\ bootOpen = {}

Router  == RouterStep /\ UNCHANGED <<monitorVars, sessionVars, bootOpen>>
Monitor == MonitorStep /\ UNCHANGED <<routerVars, sessionVars, bootOpen>>
Session == SessionStep(cfgDir) /\ UNCHANGED <<routerVars, monitorVars, bootOpen>>

Venue ==
  /\ \E t \in Trades : VenueFill(t) \/ VenueReject(t) \/ VenueExit(t)
  /\ UNCHANGED <<routerVars, monitorVars, sessionVars, bootOpen>>

Crash ==
  /\ "crash" \in Faults
  /\ up # "down"
  /\ ProcessDies
  /\ UNCHANGED <<routerVars, monitorVars, sessionVars, bootOpen>>

(* A new process: signals that were being handled are never seen again.    *)
(* It reads the main and the Phase 2 account before it reads the log.      *)
Restart ==
  /\ up = "down"
  /\ up' = "boot"
  /\ bootOpen' = { t \in Trades : venue[t] = "open" /\ t.broker \notin Mt5 }
  /\ pc'        = [s \in Signals |-> IF pc[s] = "new" THEN "new" ELSE "done"]
  /\ leg'       = [t \in Trades |-> IF pc[t.signal] = "new" THEN "idle" ELSE "done"]
  /\ todo'      = [s \in Signals |-> {}]
  /\ cur'       = [s \in Signals |-> {}]
  /\ cachedDir' = None
  /\ at'        = [c \in Cycles |-> "idle"]
  /\ rows'      = [c \in Cycles |-> {}]
  /\ openIds'   = [c \in Cycles |-> {}]
  /\ closing'   = [c \in Cycles |-> {}]
  /\ session' = "idle" /\ sessionDir' = {} /\ sessionTodo' = {} /\ sessionCur' = {}
  /\ UNCHANGED <<override, from, cfgDir, venue, status, booked, alerted>>

(* Names with Bug are mistakes a change to the code could make; no         *)
(* specification uses them: the properties are tested against them.        *)

(* Forward: a trade on the default account that no open row names gets a   *)
(* row of its own, unless the unique index already holds one for it.       *)
AdoptedBugEveryTrade(open) ==
  { ReconciledRow(t) : t \in { u \in bootOpen : u.broker = Practice } }

AdoptedBugAnyRow(open) ==
  { ReconciledRow(t) : t \in { u \in bootOpen : u.broker = Practice
                                 /\ (\A r \in RowIds : r.trade = u => status[r] = "none") } }

Adopted(open) ==
  { ReconciledRow(t) : t \in { u \in bootOpen : u.broker = Practice
                                 /\ (\A r \in open : r.trade # u)
                                 /\ status[ReconciledRow(u)] = "none" } }

(* Reverse: an open row whose trade has left the account is closed when    *)
(* the venue confirms it.  The rows of MT5 brokers are left alone.         *)
Ghosts(open) ==
  { r \in open : r.trade.broker \notin Mt5 /\ r.trade \notin bootOpen
                   /\ venue[r.trade] = "closed" }

(* A failed read of the log returns no rows; each row is written on its    *)
(* own, and a ghost is first looked up at the venue.                       *)
LogReads     == {OpenRows} \cup (IF "dbRead" \in Faults THEN {{}} ELSE {})
Skips(cause) == SUBSET (IF Faults \cap cause # {} THEN RowIds ELSE {})

Reconcile ==
  /\ up = "boot"
  /\ up' = "up"
  /\ \E open \in LogReads, unsaved \in Skips({"dbWrite"}), unread \in Skips({"dbWrite", "fetch"}) :
       status' = [r \in RowIds |-> IF r \in Adopted(open) \ unsaved THEN "open"
                                   ELSE IF r \in Ghosts(open) \ unread THEN "closed"
                                   ELSE status[r]]
  /\ bootOpen' = {}
  /\ UNCHANGED <<venue, booked, alerted>>
  /\ UNCHANGED <<routerVars, monitorVars, sessionVars>>

Next == Router \/ Monitor \/ Session \/ Venue \/ Crash \/ Restart \/ Reconcile

Spec == Init /\ [][Next]_vars

(***************************************************************************)
(* Fairness.  The event loop runs every handler that can go on; a venue    *)
(* answers every order; Railway restarts a process that exits, and the     *)
(* process does not die for ever.  A monitor cycle that reaches the        *)
(* brokers again and again is answered now and then, and then now and then *)
(* finds a trade older than a minute closed.                               *)
(***************************************************************************)
InRouter(A)  == A /\ UNCHANGED <<monitorVars, sessionVars, bootOpen>>
InMonitor(A) == A /\ UNCHANGED <<routerVars, sessionVars, bootOpen>>

Fairness ==
  /\ \A s \in Signals : WF_vars(InRouter(SignalStep(s)))
  /\ \A t \in Trades :
       /\ WF_vars(InRouter(LegStep(t)))
       /\ WF_vars((VenueFill(t) \/ VenueReject(t)) /\ UNCHANGED <<routerVars, monitorVars, sessionVars, bootOpen>>)
  /\ \A c \in Cycles :
       /\ WF_vars(InMonitor(CycleStep(c)))
       /\ SF_vars(InMonitor(CycleStart(c)))
       /\ SF_vars(InMonitor(CycleIndex(c)))
       /\ \A r \in RowIds : SF_vars(InMonitor(RowSeenClosed(c, r)))
  /\ WF_vars(Restart)
  /\ WF_vars(Reconcile)
  /\ <>[][~Crash]_vars

FairSpec == Spec /\ Fairness

-----------------------------------------------------------------------------
(* The row is written before the order is sent: whatever dies afterwards,  *)
(* no order reaches a venue without a trace in the log.                    *)
OrderHasRow ==
  \A t \in Trades : venue[t] # "none" => status[OmegaRow(t)] # "none"

(* Whichever of the writers closed a row (flip, session close, monitor,    *)
(* trailing stop, startup), the trade was closed at the venue first; and a *)
(* row is open only for an order that was filled.                          *)
LogFollowsVenue ==
  /\ \A r \in RowIds : status[r] = "closed" => venue[r.trade] = "closed"
  /\ \A r \in RowIds : status[r] = "open" => venue[r.trade] \in {"open", "closed"}

(* Startup adopts trades it does not find in the log, while the leg that   *)
(* placed them never confirms twice: a trade has at most one open row.     *)
TrackedOnce ==
  \A t \in Trades : ~ (status[OmegaRow(t)] = "open" /\ status[ReconciledRow(t)] = "open")

(* Overlapping cycles both see a trade closed; one of them sends the alert. *)
AlertedOnce == \A r \in RowIds : alerted[r] <= 1

(* The circuit breaker counts the result of a trade once, whichever paths  *)
(* close it.                                                               *)
BookedOnce == \A t \in Trades : booked[t] <= 1

(* One trade at a time per broker, at the venue and not only in the log.   *)
OneTradePerBroker ==
  \A t, u \in Trades :
    venue[t] = "open" /\ venue[u] = "open" /\ t.broker = u.broker => t = u

(* A row that is closed stays closed: late fill updates, a second cycle    *)
(* and startup never open it again.                                        *)
ClosedIsFinal ==
  [][\A r \in RowIds : status[r] = "closed" => status'[r] = "closed"]_vars

(* When startup ends, every trade it found on the default account has an   *)
(* open row, whatever the process was doing when it died.                  *)
StartupTracksPractice ==
  [][up = "boot" /\ up' = "up" =>
       \A t \in bootOpen : t.broker = Practice =>
         status'[OmegaRow(t)] = "open" \/ status'[ReconciledRow(t)] = "open"]_vars

(* Liveness: a broker is not blocked for ever by a trade that has ended.   *)
EndedTradesLeaveTheGate ==
  \A t \in Trades :
    venue[t] = "closed" /\ status[OmegaRow(t)] = "open" ~> status[OmegaRow(t)] = "closed"

-----------------------------------------------------------------------------
(* What a trade's rows and its venue amount to, for PositionLedger. *)
StageOf(t) ==
  CASE status[OmegaRow(t)] = "none" -> "absent"
    [] \E r \in RowIds : r.trade = t /\ status[r] = "closed" -> "settled"
    [] OTHER -> CASE venue[t] = "open"   -> "live"
                  [] venue[t] = "closed" -> "ended"
                  [] OTHER               -> "intended"

Ledger == INSTANCE PositionLedger WITH Positions <- Trades,
                                       stage <- [t \in Trades |-> StageOf(t)]

(* However the processes interleave, fail and restart, each trade goes     *)
(* through the stages of the ledger in order and none twice.               *)
ImplementsLedger == Ledger!Spec
-----------------------------------------------------------------------------
(* The inductive invariant behind the safety properties.  Honest: no close *)
(* request is answered by a cancellation.                                  *)
Honest == "closeCancel" \notin Faults

(* What a leg has done so far, in the log and at the venue. *)
LegInv ==
  \A t \in Trades :
    /\ pc[t.signal] = "new" => leg[t] = "idle"
    /\ leg[t] \in {"idle", "gate", "insert"} => status[OmegaRow(t)] = "none"
    /\ leg[t] \in {"idle", "gate", "insert", "place"} => venue[t] = "none"
    /\ leg[t] \in {"place", "await", "cancel", "update", "retry"} => status[OmegaRow(t)] = "pending"
    /\ leg[t] \in {"update", "retry"} => venue[t] \in {"open", "closed"}

(* What the closers hold in memory: rows that were once open, and, between *)
(* the close and the write, trades that are closed.                        *)
Once(r) == status[r] \in {"open", "closed"}
Reached(t) == venue[t] \in {"open", "closed"}
CloserInv ==
  /\ \A s \in Signals :
       /\ \A t \in todo[s] : Once(OmegaRow(t))
       /\ \A t \in cur[s] : Once(OmegaRow(t)) /\ (Honest => venue[t] = "closed")
  /\ \A c \in Cycles :
       /\ \A r \in rows[c] : Once(r)
       /\ \A r \in closing[c] : Once(r) /\ (Honest => venue[r.trade] = "closed")
  /\ \A t \in bootOpen : Reached(t)

SessionInv ==
  /\ \A t \in sessionTodo : Once(OmegaRow(t))
  /\ \A t \in sessionCur : Once(OmegaRow(t)) /\ (Honest => venue[t] = "closed")

LogInv ==
  \A r \in RowIds :
    /\ Once(r) => Reached(r.trade)
    /\ Honest /\ status[r] = "closed" => venue[r.trade] = "closed"

IInv == TypeOK /\ OrderHasRow /\ LegInv /\ CloserInv /\ SessionInv /\ LogInv

(* An alert is sent by the writer that closes the row, and no other.       *)
AlertInv == \A r \in RowIds : alerted[r] <= 1 /\ (alerted[r] = 1 => status[r] = "closed")

(* While the process starts no leg is under way.  A row of startup's own   *)
(* begins open, for a trade whose leg is over and whose omega row, unless  *)
(* the read of the log failed, is not open.  What startup found open was   *)
(* not recorded as closed by then.                                         *)
ReadsWork  == "dbRead" \notin Faults
WritesWork == "dbWrite" \notin Faults
StartupInv ==
  /\ up = "boot" => \A t \in Trades : leg[t] \in {"idle", "done"}
  /\ \A t \in Trades :
       /\ status[ReconciledRow(t)] \in {"none", "open", "closed"}
       /\ status[ReconciledRow(t)] # "none" =>
            leg[t] = "done" /\ (ReadsWork => status[OmegaRow(t)] # "open")
  /\ up = "boot" /\ Honest =>
       \A t \in bootOpen : status[OmegaRow(t)] # "closed" /\ status[ReconciledRow(t)] # "closed"

(* A result is counted where a row is closed.  With one cycle at a time    *)
(* the trade is then over and no row of it is open or will be: its leg has *)
(* ended, and startup does not find it open.                               *)
OneCycle == \A c, d \in Cycles : c = d
BookInv ==
  /\ \A t \in Trades :
       /\ booked[t] <= 1
       /\ booked[t] = 1 =>
            /\ leg[t] = "done" /\ venue[t] = "closed"
            /\ status[OmegaRow(t)] # "open" /\ status[ReconciledRow(t)] # "open"
       /\ status[ReconciledRow(t)] # "none" => ~ Once(OmegaRow(t))
  /\ \A c \in Cycles : at[c] = "trailWrite" => \A r \in closing[c] : booked[r.trade] = 0
  /\ up = "boot" => \A t \in bootOpen : booked[t] = 0

(* Calm: signals one at a time, and nothing fails but a close that throws. *)
(* Then a trade that is sent or open has its leg or its open row, and a    *)
(* leg past the gate has the broker to itself.                             *)
Calm ==
  /\ Faults \subseteq {"closeError"}
  /\ ~MaxHold
  /\ MaxInFlight = 1 /\ IsFiniteSet(Signals)

HasBroker(t) ==
  leg[t] \in {"insert", "place", "await", "cancel", "update"} \/ venue[t] \in {"sent", "open"}
CalmInv ==
  /\ up = "up"
  /\ \A s, z \in InFlight : s = z
  /\ \A t \in Trades :
       /\ pc[t.signal] # "routes" => leg[t] \in {"idle", "done"}
       /\ venue[t] = "sent" => leg[t] = "await"
       /\ leg[t] = "cancel" => venue[t] = "rejected"
       /\ leg[t] = "done" /\ venue[t] = "open" => status[OmegaRow(t)] = "open"
       /\ HasBroker(t) =>
            \A u \in Trades : u.broker = t.broker /\ u # t => venue[u] \notin {"sent", "open"}
=============================================================================
