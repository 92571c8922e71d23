----------------------------- MODULE TradeStore -----------------------------
(***************************************************************************)
(* What the bridge process shares with the rest of the world: the venues   *)
(* (OANDA accounts, MT5 terminals) that hold the real trades, and the      *)
(* table bridge_trade_log in which the bridge keeps one row per decision.  *)
(* The router (OmegaExecution) and the 30-second monitor (TradeMonitor)    *)
(* both extend this module; OmegaBridge composes them.                     *)
(*                                                                         *)
(* An omega signal places at most one order per broker, so a trade is      *)
(* named by its signal and its broker.                                     *)
(***************************************************************************)
EXTENDS Naturals, FiniteSets

CONSTANTS Signals,      \* omega signals inserted into the signals table
          Brokers,      \* active omega routes (bridge_links)
          Practice,     \* oanda_practice, the default OANDA account
          LaneB,        \* brokers run by AlphaOmega: phase2 OANDA, VT MT5
          Mt5,          \* brokers that startup reconciliation cannot read
          Directions,   \* {"LONG", "SHORT"}
          DirOf,        \* the direction each signal asks for
          Faults        \* which of FaultKinds the environment may inject

FaultKinds == { "orderTimeout",  \* the client gives up on an order in flight
                "closeCancel",   \* OANDA answers a close by cancelling it
                "closeError",    \* a close request fails, executed or not
                "dbWrite",       \* a write to Supabase fails
                "dbRead",        \* a read from Supabase fails: the code sees no rows
                "fetch",         \* a broker's list of open trades, or one trade, cannot be read
                "crash" }        \* the process dies

ASSUME StoreAssumption ==
  /\ Practice \in Brokers
  /\ LaneB \subseteq Brokers \ {Practice}
  /\ Mt5 \subseteq LaneB
  /\ DirOf \in [Signals -> Directions]
  /\ Faults \subseteq FaultKinds

Trades == [signal : Signals, broker : Brokers]
RowIds == [trade : Trades, engine : {"omega", "reconciled"}]

OmegaRow(t)      == [trade |-> t, engine |-> "omega"]
ReconciledRow(t) == [trade |-> t, engine |-> "reconciled"]

(* Counts stop at Cap: never, once, more than once. *)
Cap == 2
Bump(n) == IF n < Cap THEN n + 1 ELSE n

VARIABLES
  venue,   \* the order and the trade at the broker
  status,  \* bridge_trade_log.status; "blocked" is 'pending' with decision BLOCKED
  booked,  \* how often the circuit breaker counted the trade's result
  alerted, \* how often the close alert of a row was sent
  up       \* the bridge process: "up", "down" or "boot"

storeVars == <<venue, status, booked, alerted, up>>

VenueStates == {"none", "sent", "rejected", "open", "closed"}
RowStates   == {"none", "pending", "blocked", "open", "closed"}

StoreTypeOK ==
  /\ venue   \in [Trades -> VenueStates]
  /\ status  \in [RowIds -> RowStates]
  /\ booked  \in [Trades -> 0..Cap]
  /\ alerted \in [RowIds -> 0..Cap]
  /\ up      \in {"up", "down", "boot"}

StoreInit ==
  /\ venue   = [t \in Trades |-> "none"]
  /\ status  = [r \in RowIds |-> "none"]
  /\ booked  = [t \in Trades |-> 0]
  /\ alerted = [r \in RowIds |-> 0]
  /\ up      = "up"

(***************************************************************************)
(* Reads of the log.  A row is seen by the open-trade gates only when its  *)
(* status is 'open' and its trade id is set; here that is status "open".   *)
(***************************************************************************)
OpenRows  == { r \in RowIds : status[r] = "open" }
OpenOmega == { t \in Trades : status[OmegaRow(t)] = "open" }
BusyBrokers == { t.broker : t \in OpenOmega }

(***************************************************************************)
(* The venue.  A market order in flight is filled or rejected; an open     *)
(* trade may end on its own (stop loss, take profit, manual close).        *)
(***************************************************************************)
VenueFill(t) ==
  /\ venue[t] = "sent"
  /\ venue' = [venue EXCEPT ![t] = "open"]
  /\ UNCHANGED <<status, booked, alerted, up>>

VenueReject(t) ==
  /\ venue[t] = "sent"
  /\ venue' = [venue EXCEPT ![t] = "rejected"]
  /\ UNCHANGED <<status, booked, alerted, up>>

VenueExit(t) ==
  /\ venue[t] = "open"
  /\ venue' = [venue EXCEPT ![t] = "closed"]
  /\ UNCHANGED <<status, booked, alerted, up>>

(***************************************************************************)
(* The answers to a close request, and what each did at the venue.         *)
(* closeTradeViaBroker returns on a fill and also on a close that OANDA    *)
(* cancelled: it never looks at orderCancelTransaction.  Everything else   *)
(* throws, a trade that is no longer open included.                        *)
(***************************************************************************)
CloseReturns(t) ==
  /\ venue[t] = "open"
  /\ \/ venue' = [venue EXCEPT ![t] = "closed"]
     \/ "closeCancel" \in Faults /\ t.broker \notin Mt5 /\ venue' = venue

CloseThrows(t) ==
  \/ venue[t] # "open" /\ venue' = venue
  \/ /\ "closeError" \in Faults
     /\ venue[t] = "open"
     /\ venue' \in {venue, [venue EXCEPT ![t] = "closed"]}

(* UPDATE ... WHERE id = row, without a guard on the status. *)
MarkClosed(r) == status' = [status EXCEPT ![r] = "closed"]

ProcessDies ==
  /\ up' = "down"
  /\ UNCHANGED <<venue, status, booked, alerted>>
=============================================================================
