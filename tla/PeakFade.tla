------------------------------ MODULE PeakFade ------------------------------
(***************************************************************************)
(* The peak-fade engine: trades with a take profit and no stop loss, one   *)
(* at a time on every linked book, followed by a thirty-second tick (gate, *)
(* exit monitor, watch for adverse moves, entry).  No cron closes them.    *)
(***************************************************************************)
EXTENDS Integers, FiniteSets

CONSTANTS Trades,      \* bound: the trades that may be opened
          Books,       \* the brokers of the engine's routes
          FaultSets    \* the fault models to choose from

FaultKinds == { "db",       \* a read or a write of a table throws
                "mirror",   \* the insert of a mirror row fails and is only logged
                "order",    \* an order times out, filled or not
                "quote",    \* no answer for a trade, or the wrong broker is asked
                "crash" }   \* the process dies

ASSUME PeakAssumption == Books # {} /\ FaultSets \subseteq SUBSET FaultKinds

VARIABLES
  faults,   \* the fault model of this behaviour
  up,       \* whether the process is up
  enabled,  \* peak_fade_enabled in bridge_config
  book,     \* where each trade is placed
  venue,    \* the trade there: "none", "open", "closed"
  row,      \* its row in the engine's table: "none", "null", "booked"
  mirrors,  \* the rows each trade has in bridge_trade_log
  alerted,  \* alertedTradeKeys, in memory
  alerts,   \* the alerts sent of each trade by the process that runs
  tick      \* where the tick stands, and what it holds

process == <<faults, up, enabled>>
market  == <<book, venue>>
tables  == <<row, mirrors>>
watch   == <<alerted, alerts>>
vars    == <<process, market, tables, watch, tick>>

Pcs == {"idle", "open", "poll", "row", "sync", "mirror", "watch",
        "needing", "routes", "order", "insert"}

(* todo: the open trades still to handle; cur: the trade in hand; needing: *)
(* the routes it has still to enter on.                                    *)
NoTrade  == "none"
IdleTick == [at |-> "idle", todo |-> {}, cur |-> NoTrade, needing |-> {}]
NoAlerts == [t \in Trades |-> 0]

(* Type invariant; a process alerts at most once of a trade, although it   *)
(* looks at every open trade in every tick.                                *)
TypeOK ==
  /\ faults \in FaultSets /\ up \in BOOLEAN /\ enabled \in BOOLEAN
  /\ book \in [Trades -> Books]
  /\ venue \in [Trades -> {"none", "open", "closed"}]
  /\ row \in [Trades -> {"none", "null", "booked"}]
  /\ mirrors \in [Trades -> 0..1]
  /\ alerted \in SUBSET Trades /\ alerts \in [Trades -> 0..1]
  /\ tick \in [at : Pcs, todo : SUBSET Trades, cur : Trades \cup {NoTrade},
               needing : SUBSET Books]

Init ==
  /\ faults \in FaultSets /\ up = TRUE /\ enabled \in BOOLEAN
  /\ book = [t \in Trades |-> CHOOSE b \in Books : TRUE]
  /\ venue = [t \in Trades |-> "none"] /\ row = [t \in Trades |-> "none"]
  /\ mirrors = [t \in Trades |-> 0] /\ alerted = {} /\ alerts = NoAlerts
  /\ tick = IdleTick

At(label)   == up /\ tick.at = label
Fails(kind) == kind \in faults
Open        == {t \in Trades : row[t] = "null"}

(* What the next steps do not read is dropped. *)
Goto(label) ==
  tick' = IF label \in {"idle", "watch", "needing"} THEN [IdleTick EXCEPT !.at = label]
          ELSE IF label \in {"poll", "routes"}
          THEN [tick EXCEPT !.at = label, !.cur = NoTrade]
          ELSE [tick EXCEPT !.at = label]
-----------------------------------------------------------------------------
(* The take profit is filled, or somebody closes the trade; the operator   *)
(* turns the gate.                                                         *)
VenueEnds(t) ==
  /\ venue[t] = "open"
  /\ venue' = [venue EXCEPT ![t] = "closed"]
  /\ UNCHANGED <<process, book, tables, watch, tick>>

Operator ==
  /\ enabled' = ~enabled
  /\ UNCHANGED <<faults, up, market, tables, watch, tick>>
-----------------------------------------------------------------------------
(* Names with Bug are mistakes a change to the code could make; no         *)
(* specification uses them: the properties are tested against them.        *)

(* A gate that is off, or cannot be read, ends the tick: nothing is        *)
(* followed while it is off.                                               *)
Gate ==
  /\ At("idle") /\ enabled /\ Goto("open")
  /\ UNCHANGED <<process, market, tables, watch>>

(* Reads that throw outside the exit loop end the tick. *)
TickThrows ==
  /\ up /\ tick.at \in {"open", "watch", "needing"} /\ Fails("db")
  /\ Goto("idle")
  /\ UNCHANGED <<process, market, tables, watch>>

LoadOpenBugOne ==
  /\ At("open")
  /\ tick' = [IdleTick EXCEPT !.at = "poll",
                              !.todo = IF Open = {} THEN {} ELSE {CHOOSE t \in Open : TRUE}]
  /\ UNCHANGED <<process, market, tables, watch>>

LoadOpen ==
  /\ At("open")
  /\ tick' = [IdleTick EXCEPT !.at = "poll", !.todo = Open]
  /\ UNCHANGED <<process, market, tables, watch>>

(* processOpenTrade: its errors are caught, trade by trade. *)
PollSkips(t) ==
  /\ At("poll") /\ t \in tick.todo
  /\ Fails("quote") \/ venue[t] = "open"
  /\ tick' = [tick EXCEPT !.todo = @ \ {t}]
  /\ UNCHANGED <<process, market, tables, watch>>

Polled(t) == tick' = [tick EXCEPT !.at = "row", !.todo = @ \ {t}, !.cur = t]

PollFindsBugAny(t) ==
  /\ At("poll") /\ t \in tick.todo /\ Polled(t)
  /\ UNCHANGED <<process, market, tables, watch>>

PollFinds(t) ==
  /\ At("poll") /\ t \in tick.todo /\ venue[t] = "closed" /\ Polled(t)
  /\ UNCHANGED <<process, market, tables, watch>>

PollDone ==
  /\ At("poll") /\ tick.todo = {} /\ Goto("watch")
  /\ UNCHANGED <<process, market, tables, watch>>

PersistClose ==
  /\ At("row")
  /\ \/ row' = [row EXCEPT ![tick.cur] = "booked"] /\ Goto("sync")
     \/ Fails("db") /\ UNCHANGED row /\ Goto("poll")
  /\ UNCHANGED <<process, market, mirrors, watch>>

MirrorExists ==
  /\ At("sync")
  /\ \/ Goto(IF mirrors[tick.cur] = 0 THEN "mirror" ELSE "poll")
     \/ Fails("db") /\ Goto("poll")
  /\ UNCHANGED <<process, market, tables, watch>>

InsertMirror ==
  /\ At("mirror") /\ Goto("poll")
  /\ \/ mirrors' = [mirrors EXCEPT ![tick.cur] = @ + 1]
     \/ Fails("mirror") /\ UNCHANGED mirrors
  /\ UNCHANGED <<process, market, row, watch>>

(* runPeakFadeMaeWatch: one alert for each trade that has gone far against *)
(* us; what is no longer open is forgotten.  No price, no watch.           *)
Alert(them) ==
  alerts' = [t \in Trades |-> IF t \in them THEN alerts[t] + 1 ELSE alerts[t]]

MaeWatch(far) ==
  /\ At("watch") /\ Goto("needing")
  /\ \/ Alert((far \cap Open) \ alerted) /\ alerted' = (alerted \cup far) \cap Open
     \/ Open # {} /\ UNCHANGED watch
  /\ UNCHANGED <<process, market, tables>>
-----------------------------------------------------------------------------
SeatedBugTaken(b) == \E t \in Open : book[t] = b /\ venue[t] = "closed"

Seated(b) == \E t \in Open : book[t] = b

(* routesNeedingEntry; the five-minute guard, the news and the setup may   *)
(* leave fewer routes or none.                                             *)
RoutesNeedingEntry(chosen) ==
  /\ At("needing")
  /\ \A b \in chosen : ~Seated(b)
  /\ tick' = [tick EXCEPT !.at = "routes", !.needing = chosen]
  /\ UNCHANGED <<process, market, tables, watch>>

EntryDone ==
  /\ At("routes") /\ tick.needing = {} /\ Goto("idle")
  /\ UNCHANGED <<process, market, tables, watch>>

(* placeAndRecordPeakFadeOpen: no account or no units is no order.         *)
RoutePassed(b) ==
  /\ At("routes") /\ b \in tick.needing
  /\ tick' = [tick EXCEPT !.needing = @ \ {b}]
  /\ UNCHANGED <<process, market, tables, watch>>

Route(b) ==
  /\ At("routes") /\ b \in tick.needing
  /\ \E t \in Trades : venue[t] = "none"
  /\ LET new == CHOOSE t \in Trades : venue[t] = "none"
     IN  /\ tick' = [tick EXCEPT !.at = "order", !.needing = @ \ {b}, !.cur = new]
         /\ book' = [book EXCEPT ![new] = b]
  /\ UNCHANGED <<process, venue, tables, watch>>

SubmitOrder ==
  /\ At("order")
  /\ \/ venue' = [venue EXCEPT ![tick.cur] = "open"] /\ Goto("insert")
     \/ Fails("order") /\ venue' = [venue EXCEPT ![tick.cur] = "open"] /\ Goto("routes")
     \/ UNCHANGED venue /\ Goto("routes")
  /\ UNCHANGED <<process, book, tables, watch>>

(* A failed insert ends the tick with the other routes. *)
RecordOpen ==
  /\ At("insert")
  /\ \/ row' = [row EXCEPT ![tick.cur] = "null"] /\ Goto("routes")
     \/ Fails("db") /\ UNCHANGED row /\ Goto("idle")
  /\ UNCHANGED <<process, market, mirrors, watch>>
-----------------------------------------------------------------------------
Crash ==
  /\ Fails("crash") /\ up /\ up' = FALSE
  /\ tick' = IdleTick /\ alerted' = {} /\ alerts' = NoAlerts
  /\ UNCHANGED <<faults, enabled, market, tables>>

Restart ==
  /\ ~up /\ up' = TRUE
  /\ UNCHANGED <<faults, enabled, market, tables, watch, tick>>

TickStep ==
  \/ LoadOpen \/ PollDone \/ \E t \in Trades : PollSkips(t) \/ PollFinds(t)
  \/ PersistClose \/ MirrorExists \/ InsertMirror
  \/ \E far \in SUBSET Trades : MaeWatch(far)
  \/ \E chosen \in SUBSET Books : RoutesNeedingEntry(chosen)
  \/ EntryDone \/ SubmitOrder \/ RecordOpen
  \/ \E b \in Books : RoutePassed(b) \/ Route(b)

Next ==
  \/ \E t \in Trades : VenueEnds(t)
  \/ Operator \/ Gate \/ TickThrows \/ TickStep \/ Crash \/ Restart

Spec == Init /\ [][Next]_vars

(* The timer goes on, the operator leaves the gate on in the end, and what *)
(* is asked for again and again works now and then.                        *)
Fairness ==
  /\ WF_vars(TickStep) /\ WF_vars(Gate) /\ <>[]enabled
  /\ SF_vars(LoadOpen)
  /\ \A t \in Trades : SF_vars(PollFinds(t)) /\ SF_vars(PersistClose /\ tick.cur = t /\ row'[t] = "booked")

FairSpec == Spec /\ Fairness
-----------------------------------------------------------------------------
(* One open row for each book, and one open trade unless an order or its   *)
(* row was lost: the seats of all books are read before the orders of the  *)
(* tick are sent, and each row is written after its order.                 *)
Without(kinds) == faults \cap kinds = {}

OnePerBook ==
  \A t, u \in Trades :
    /\ book[t] = book[u]
    /\ \/ row[t] = "null" /\ row[u] = "null"
       \/ Without({"db", "order", "crash"}) /\ venue[t] = "open" /\ venue[u] = "open"
    => t = u

(* A trade that is still open at its broker is never taken for closed, nor *)
(* shown as closed: with no stop loss somebody must go on watching it.     *)
OpenStaysWatched ==
  \A t \in Trades : row[t] = "booked" \/ mirrors[t] > 0 => venue[t] = "closed"

(* The tables in the words of TradeTables: a null result is an open trade, *)
(* and a mirror is only written of a closed one.                           *)
RowSays    == [t \in Trades |-> IF row[t] = "null" THEN "open"
                                ELSE IF row[t] = "booked" THEN "closed" ELSE "none"]
MirrorSays == [t \in Trades |-> IF mirrors[t] > 0 THEN "closed" ELSE "none"]

Tables == INSTANCE TradeTables WITH InOrder <- TRUE, row <- RowSays, mirror <- MirrorSays

(* Whatever the gate, the broker and the crashes do, peak_fade_trades and  *)
(* bridge_trade_log follow each trade, never get ahead of its broker, who  *)
(* alone can tell that a trade has ended, and take nothing back.           *)
ImplementsTables == Tables!Spec

(* Liveness: the end of a recorded trade is booked, whatever questions,    *)
(* reads and writes fail and though the gate was off meanwhile.            *)
EndedTradesAreBooked ==
  \A t \in Trades :
    Without({"crash"}) /\ row[t] = "null" /\ venue[t] = "closed" ~> row[t] = "booked"
=============================================================================
