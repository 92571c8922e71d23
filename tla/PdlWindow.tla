----------------------------- MODULE PdlWindow ------------------------------
(***************************************************************************)
(* The previous-day-low window: a 12:01 cron detects and enters once on    *)
(* every broker, a thirty-second tick follows the trades of the date and   *)
(* closes them from 13:00 on, and a 13:00 cron flattens those of every     *)
(* date.                                                                   *)
(***************************************************************************)
EXTENDS Integers, FiniteSets

CONSTANTS Trades,      \* bound: the trades that may be opened
          Brokers,     \* the brokers of the engine's routes
          Oanda,       \* those of them that are OANDA accounts
          FaultSets    \* the fault models to choose from

FaultKinds == { "db",       \* a read or a write of a table throws
                "mirror",   \* the insert of a mirror row fails and is only logged
                "order",    \* an order times out, filled or not
                "quote",    \* no answer for a trade, or no MT5 client: OANDA is asked instead
                "close",    \* a close request throws, executed or not
                "closeCancel",  \* OANDA cancels a close, and the code takes it for done
                "crash" }   \* the process dies

ASSUME PdlAssumption ==
  Brokers # {} /\ Oanda \subseteq Brokers /\ FaultSets \subseteq SUBSET FaultKinds

VARIABLES
  faults,   \* the fault model of this behaviour
  up,       \* whether the process is up
  clock,    \* "morning" until 12:01, "window" until 13:00, "late" until midnight
  signal,   \* whether pdl_sweep_signals has a row of today evaluated since 12:00
  broker,   \* where each trade is placed
  venue,    \* the trade there: "none", "open", "closed"
  row,      \* its row in pdl_window_trades: "none", "null", "booked"
  today,    \* the trades whose trade_date is the current date
  mirrors,  \* the rows each trade has in bridge_trade_log
  entry,    \* where the 12:01 cron stands, and what it holds
  tick,     \* where the tick stands, and what it holds
  flat      \* where the 13:00 cron stands, and what it holds

tables == <<signal, row, today, mirrors>>
market == <<broker, venue>>
time   == <<faults, up, clock>>
vars   == <<time, tables, market, entry, tick, flat>>

EntryPcs == {"idle", "detect", "signal", "routes", "order", "insert"}
TickPcs  == {"idle", "poll", "close", "row", "sync", "mirror"}
FlatPcs  == {"idle", "load", "each", "close", "row", "sync", "mirror"}

(* routes: those still to take; todo: the trades still to handle; cur: the *)
(* trade in hand; hold: whether it is force-closed, when errors are caught.*)
NoTrade   == "none"
IdleEntry == [at |-> "idle", routes |-> {}, cur |-> NoTrade]
IdleTick  == [at |-> "idle", todo |-> {}, cur |-> NoTrade, hold |-> FALSE]
IdleFlat  == [at |-> "idle", todo |-> {}, cur |-> NoTrade]

Entries == [at : EntryPcs, routes : SUBSET Brokers, cur : Trades \cup {NoTrade}]
Ticks   == [at : TickPcs, todo : SUBSET Trades, cur : Trades \cup {NoTrade}, hold : BOOLEAN]
Flats   == [at : FlatPcs, todo : SUBSET Trades, cur : Trades \cup {NoTrade}]

(* Type invariant. *)
TypeOK ==
  /\ faults \in FaultSets /\ up \in BOOLEAN /\ signal \in BOOLEAN
  /\ clock \in {"morning", "window", "late"}
  /\ broker \in [Trades -> Brokers]
  /\ venue \in [Trades -> {"none", "open", "closed"}]
  /\ row \in [Trades -> {"none", "null", "booked"}]
  /\ today \in SUBSET Trades
  /\ mirrors \in [Trades -> 0..2]
  /\ entry \in Entries /\ tick \in Ticks /\ flat \in Flats

Init ==
  /\ faults \in FaultSets
  /\ up = TRUE /\ clock = "morning" /\ signal = FALSE
  /\ broker = [t \in Trades |-> CHOOSE b \in Brokers : TRUE]
  /\ venue = [t \in Trades |-> "none"] /\ row = [t \in Trades |-> "none"]
  /\ today = {} /\ mirrors = [t \in Trades |-> 0]
  /\ entry = IdleEntry /\ tick = IdleTick /\ flat = IdleFlat

Fails(kind) == kind \in faults
Open        == {t \in Trades : row[t] = "null"}
Taken(b)    == {t \in today : broker[t] = b /\ row[t] # "none"}
-----------------------------------------------------------------------------
VenueEnds(t) ==
  /\ venue[t] = "open"
  /\ venue' = [venue EXCEPT ![t] = "closed"]
  /\ UNCHANGED <<time, tables, broker, entry, tick, flat>>

(* The clock starts the crons if the process is up; each is over by        *)
(* midnight.                                                               *)
Noon ==
  /\ clock = "morning" /\ clock' = "window"
  /\ entry' = IF up THEN [IdleEntry EXCEPT !.at = "detect"] ELSE entry
  /\ UNCHANGED <<faults, up, tables, market, tick, flat>>

OnePm ==
  /\ clock = "window" /\ clock' = "late"
  /\ flat' = IF up THEN [IdleFlat EXCEPT !.at = "load"] ELSE flat
  /\ UNCHANGED <<faults, up, tables, market, entry, tick>>

Midnight ==
  /\ clock = "late" /\ entry.at = "idle" /\ flat.at = "idle"
  /\ clock' = "morning" /\ today' = {} /\ signal' = FALSE
  /\ UNCHANGED <<faults, up, row, mirrors, market, entry, tick, flat>>
-----------------------------------------------------------------------------
(* Names with Bug are mistakes a change to the code could make; no         *)
(* specification uses them: the properties are tested against them.        *)
EntryAt(label) == up /\ entry.at = label
Enter(label) ==
  entry' = IF label = "idle" THEN IdleEntry
           ELSE IF label = "routes" THEN [entry EXCEPT !.at = label, !.cur = NoTrade]
           ELSE [entry EXCEPT !.at = label]

(* runDetectionWithRetries: a row is written, or the attempts run out.     *)
Detect ==
  /\ EntryAt("detect")
  /\ \/ signal' = TRUE /\ Enter("signal")
     \/ UNCHANGED signal /\ Enter("idle")
  /\ UNCHANGED <<time, row, today, mirrors, market, tick, flat>>

(* A paused engine, a row that cannot be read or is not fresh: no entry.   *)
LoadSignal ==
  /\ EntryAt("signal")
  /\ \/ signal /\ entry' = [entry EXCEPT !.at = "routes", !.routes = Brokers]
     \/ Enter("idle")
  /\ UNCHANGED <<time, tables, market, tick, flat>>

EntryDone ==
  /\ EntryAt("routes")
  /\ entry.routes = {} \/ Fails("db")
  /\ Enter("idle")
  /\ UNCHANGED <<time, tables, market, tick, flat>>

(* entryGuardsBlock; an open row of the fade engine on an OANDA account,   *)
(* or one that cannot be read, the account, the price and the size may     *)
(* each end the route as well.                                             *)
Blocked(b) == Taken(b) # {}

Passed(b) ==
  /\ EntryAt("routes") /\ b \in entry.routes
  /\ entry' = [entry EXCEPT !.routes = @ \ {b}]
  /\ UNCHANGED <<time, tables, market, tick, flat>>

Setup(b) ==
  /\ EntryAt("routes") /\ b \in entry.routes /\ ~Blocked(b)
  /\ \E t \in Trades : venue[t] = "none"
  /\ LET new == CHOOSE t \in Trades : venue[t] = "none"
     IN  /\ entry' = [at |-> "order", routes |-> entry.routes \ {b}, cur |-> new]
         /\ broker' = [broker EXCEPT ![new] = b]
  /\ UNCHANGED <<time, tables, venue, tick, flat>>

Order ==
  /\ EntryAt("order")
  /\ \/ venue' = [venue EXCEPT ![entry.cur] = "open"]
        /\ (Enter("insert") \/ (Fails("order") /\ Enter("routes")))
     \/ UNCHANGED venue /\ Enter("routes")
  /\ UNCHANGED <<time, tables, broker, tick, flat>>

(* A failed insert ends the entry with the other routes. *)
Insert ==
  /\ EntryAt("insert")
  /\ \/ /\ row' = [row EXCEPT ![entry.cur] = "null"] /\ today' = today \cup {entry.cur}
        /\ Enter("routes")
     \/ Fails("db") /\ UNCHANGED <<row, today>> /\ Enter("idle")
  /\ UNCHANGED <<time, signal, mirrors, market, tick, flat>>
-----------------------------------------------------------------------------
At(label) == up /\ tick.at = label
Goto(label) ==
  tick' = IF label = "idle" THEN IdleTick
          ELSE IF label = "poll" THEN [tick EXCEPT !.at = label, !.cur = NoTrade, !.hold = FALSE]
          ELSE [tick EXCEPT !.at = label]

TickThrows ==
  /\ up /\ Fails("db")
  /\ tick.at \in {"row", "sync"} /\ ~tick.hold
  /\ Goto("idle")
  /\ UNCHANGED <<time, tables, market, entry, flat>>

LoadOpen ==
  /\ At("idle")
  /\ tick' = [IdleTick EXCEPT !.at = "poll", !.todo = Open \cap today]
  /\ UNCHANGED <<time, tables, market, entry, flat>>

PollDone ==
  /\ At("poll") /\ tick.todo = {} /\ Goto("idle")
  /\ UNCHANGED <<time, tables, market, entry, flat>>

(* processOpenTrade *)
PollSkips(t) ==
  /\ At("poll") /\ t \in tick.todo
  /\ Fails("quote") \/ (venue[t] = "open" /\ clock # "late")
  /\ tick' = [tick EXCEPT !.todo = @ \ {t}]
  /\ UNCHANGED <<time, tables, market, entry, flat>>

Polled(t, label, hold) ==
  tick' = [at |-> label, todo |-> tick.todo \ {t}, cur |-> t, hold |-> hold]

PollFindsBugNoTime(t) ==
  /\ At("poll") /\ t \in tick.todo
  /\ \/ venue[t] = "closed" /\ Polled(t, "row", FALSE)
     \/ venue[t] = "open" /\ clock = "late" /\ tick' = [tick EXCEPT !.todo = @ \ {t}]
  /\ UNCHANGED <<time, tables, market, entry, flat>>

PollFinds(t) ==
  /\ At("poll") /\ t \in tick.todo
  /\ \/ venue[t] = "closed" /\ Polled(t, "row", FALSE)
     \/ venue[t] = "open" /\ clock = "late" /\ Polled(t, "close", TRUE)
  /\ UNCHANGED <<time, tables, market, entry, flat>>

CloseWorks(t) ==
  /\ venue[t] = "open"
  /\ \/ venue' = [venue EXCEPT ![t] = "closed"]
     \/ Fails("closeCancel") /\ broker[t] \in Oanda /\ UNCHANGED venue
CloseThrows(t) ==
  \/ venue[t] = "closed" /\ UNCHANGED venue
  \/ /\ Fails("close") /\ venue[t] = "open"
     /\ UNCHANGED venue \/ venue' = [venue EXCEPT ![t] = "closed"]

ForceCloseTrade ==
  /\ At("close")
  /\ \/ CloseWorks(tick.cur)  /\ Goto("row")
     \/ CloseThrows(tick.cur) /\ Goto("poll")
  /\ UNCHANGED <<time, tables, broker, entry, flat>>

Book(t) == row' = [row EXCEPT ![t] = "booked"]

PersistClose ==
  /\ At("row")
  /\ \/ Book(tick.cur) /\ Goto("sync")
     \/ Fails("db") /\ tick.hold /\ UNCHANGED row /\ Goto("poll")
  /\ UNCHANGED <<time, signal, today, mirrors, market, entry, flat>>

MirrorExists ==
  /\ At("sync")
  /\ \/ Goto(IF mirrors[tick.cur] = 0 THEN "mirror" ELSE "poll")
     \/ Fails("db") /\ tick.hold /\ Goto("poll")
  /\ UNCHANGED <<time, tables, market, entry, flat>>

Mirror(t) ==
  \/ mirrors' = [mirrors EXCEPT ![t] = @ + 1]
  \/ Fails("mirror") /\ UNCHANGED mirrors

InsertMirror ==
  /\ At("mirror") /\ Goto("poll")
  /\ Mirror(tick.cur)
  /\ UNCHANGED <<time, signal, row, today, market, entry, flat>>
-----------------------------------------------------------------------------
(* hardFlattenAllPdlTrades: every open row of every date; the errors of    *)
(* each close are caught.                                                  *)
FlatAt(label) == up /\ flat.at = label
FlatGoto(label) ==
  flat' = IF label = "idle" THEN IdleFlat
          ELSE IF label = "each" THEN [flat EXCEPT !.at = label, !.cur = NoTrade]
          ELSE [flat EXCEPT !.at = label]

FlatLoad ==
  /\ FlatAt("load")
  /\ \/ flat' = [flat EXCEPT !.at = "each", !.todo = Open]
     \/ Fails("db") /\ FlatGoto("idle")
  /\ UNCHANGED <<time, tables, market, entry, tick>>

FlatDone ==
  /\ FlatAt("each") /\ flat.todo = {} /\ FlatGoto("idle")
  /\ UNCHANGED <<time, tables, market, entry, tick>>

FlatEach(t) ==
  /\ FlatAt("each") /\ t \in flat.todo
  /\ flat' = [at |-> "close", todo |-> flat.todo \ {t}, cur |-> t]
  /\ UNCHANGED <<time, tables, market, entry, tick>>

FlatCloseBugBooks ==
  /\ FlatAt("close") /\ FlatGoto("row")
  /\ CloseWorks(flat.cur) \/ CloseThrows(flat.cur)
  /\ UNCHANGED <<time, tables, broker, entry, tick>>

(* On a wrong client the close cannot be found. *)
FlatClose ==
  /\ FlatAt("close")
  /\ \/ CloseWorks(flat.cur)  /\ FlatGoto("row")
     \/ CloseThrows(flat.cur) /\ FlatGoto("each")
     \/ Fails("quote") /\ broker[flat.cur] \notin Oanda /\ UNCHANGED venue /\ FlatGoto("each")
  /\ UNCHANGED <<time, tables, broker, entry, tick>>

FlatRow ==
  /\ FlatAt("row")
  /\ \/ Book(flat.cur) /\ FlatGoto("sync")
     \/ Fails("db") /\ UNCHANGED row /\ FlatGoto("each")
  /\ UNCHANGED <<time, signal, today, mirrors, market, entry, tick>>

FlatSync ==
  /\ FlatAt("sync")
  /\ \/ FlatGoto(IF mirrors[flat.cur] = 0 THEN "mirror" ELSE "each")
     \/ Fails("db") /\ FlatGoto("each")
  /\ UNCHANGED <<time, tables, market, entry, tick>>

FlatMirror ==
  /\ FlatAt("mirror") /\ FlatGoto("each")
  /\ Mirror(flat.cur)
  /\ UNCHANGED <<time, signal, row, today, market, entry, tick>>
-----------------------------------------------------------------------------
Crash ==
  /\ Fails("crash") /\ up /\ up' = FALSE
  /\ entry' = IdleEntry /\ tick' = IdleTick /\ flat' = IdleFlat
  /\ UNCHANGED <<faults, clock, tables, market>>

Restart ==
  /\ ~up /\ up' = TRUE
  /\ UNCHANGED <<faults, clock, tables, market, entry, tick, flat>>

TickStep ==
  \/ LoadOpen \/ PollDone \/ \E t \in Trades : PollSkips(t) \/ PollFinds(t)
  \/ ForceCloseTrade \/ PersistClose \/ MirrorExists \/ InsertMirror

EntryStep ==
  \/ Detect \/ LoadSignal \/ EntryDone \/ Order \/ Insert
  \/ \E b \in Brokers : Passed(b) \/ Setup(b)

FlatStep ==
  \/ FlatLoad \/ FlatDone \/ FlatClose \/ FlatRow \/ FlatSync \/ FlatMirror
  \/ \E t \in Trades : FlatEach(t)

Next ==
  \/ \E t \in Trades : VenueEnds(t)
  \/ Noon \/ OnePm \/ Midnight
  \/ TickThrows \/ TickStep \/ EntryStep \/ FlatStep \/ Crash \/ Restart

Spec == Init /\ [][Next]_vars

(* The timer and the crons go on, and a close that is asked for again and  *)
(* again works in the end.                                                 *)
Fairness ==
  /\ WF_vars(TickStep) /\ WF_vars(FlatStep)
  /\ \A t \in Trades : /\ SF_vars(FlatClose /\ flat.cur = t /\ flat'.at = "row")
                       /\ SF_vars(ForceCloseTrade /\ tick.cur = t /\ tick'.at = "row")

FairSpec == Spec /\ Fairness
-----------------------------------------------------------------------------
(* A trade whose row has a result has ended, and it is shown as closed     *)
(* only then, although tick and cron race for it.                          *)
BookedHasEnded ==
  \A t \in Trades : row[t] = "booked" \/ mirrors[t] > 0 => venue[t] = "closed"

(* The tables in the words of TradeTables: a null result is an open trade, *)
(* and a mirror is only written of a closed one.                           *)
RowSays    == [t \in Trades |-> IF row[t] = "null" THEN "open"
                                ELSE IF row[t] = "booked" THEN "closed" ELSE "none"]
MirrorSays == [t \in Trades |-> IF mirrors[t] > 0 THEN "closed" ELSE "none"]

Tables == INSTANCE TradeTables WITH InOrder <- TRUE, row <- RowSays, mirror <- MirrorSays

(* Whichever of the two crons and the tick places, books or loses a trade, *)
(* and over any number of days, pdl_window_trades and bridge_trade_log     *)
(* follow each trade, never get ahead of its broker and take nothing back. *)
ImplementsTables == Tables!Spec

Without(kinds) == faults \cap kinds = {}

(* Liveness: a trade does not outlive 13:00, unless midnight comes first;  *)
(* also one whose close the cron could not make, and one that the 12:01    *)
(* cron opened late, after the 13:00 cron had loaded the open ones.        *)
TradesEndTheDay ==
  \A t \in Trades :
    Without({"db", "crash", "quote", "closeCancel"}) /\ row[t] = "null" /\ clock = "late"
      ~> venue[t] = "closed" \/ t \notin today
=============================================================================
