-------------------------------- MODULE Fade --------------------------------
(***************************************************************************)
(* The AUD/USD fade engine on several brokers, day after day: a thirty-    *)
(* second tick (exit monitor, then entry monitor) that reads the trades of *)
(* the current date only, and a 22:00 cron that closes the open trades of  *)
(* every date.  Both are modelled an await at a time.                      *)
(***************************************************************************)
EXTENDS Integers, FiniteSets

CONSTANTS Trades,        \* bound: the trades that may be opened
          Brokers,       \* the brokers of the engine's routes
          Mt5,           \* those of them that are MT5 accounts
          MaxTradesDay,
          FaultSets      \* the fault models to choose from

FaultKinds == { "db",       \* a read or a write of a table throws
                "mirror",   \* the insert of a mirror row fails and is only logged
                "broker",   \* an MT5 client cannot be made: the resolver throws
                "order",    \* an order times out, filled or not
                "quote",    \* the broker does not answer for a trade
                "close",    \* a close request throws, executed or not
                "closeCancel",  \* OANDA cancels a close, and the code takes it for done
                "crash" }   \* the process dies

ASSUME FadeAssumption ==
  /\ Brokers # {} /\ Mt5 \subseteq Brokers /\ MaxTradesDay \in Nat
  /\ FaultSets \subseteq SUBSET FaultKinds

VARIABLES
  faults,   \* the fault model of this behaviour
  up,       \* whether the process is up
  clock,    \* "day" until 22:00, "late" until midnight
  broker,   \* where each trade is placed
  venue,    \* the trade there: "none", "open", "closed"
  row,      \* its row in audusd_fade_trades: "none", "null", "booked"
  today,    \* the trades whose trade_date is the current date
  aged,     \* the open trades of maxHoldHours or more
  mirrors,  \* the rows each trade has in bridge_trade_log
  tick,     \* where the tick stands, and what it holds
  cron      \* where the 22:00 cron stands, and what it holds

tables  == <<row, today, mirrors>>
market  == <<broker, venue, aged>>
process == <<faults, up, clock>>
vars    == <<process, tables, market, tick, cron>>

ExitPcs  == {"poll", "close", "row", "sync", "mirror"}
EntryPcs == {"entry", "routes", "order", "insert"}
CronPcs  == {"idle", "load", "each", "close", "row", "sync", "mirror"}

(* todo: the open trades still to handle; routes: those still to be        *)
(* offered an entry; cur: the trade in hand; hold: whether it is force-    *)
(* closed for its age, when errors are caught.                             *)
NoTrade  == "none"
IdleTick == [at |-> "idle", todo |-> {}, routes |-> {}, cur |-> NoTrade, hold |-> FALSE]
IdleCron == [at |-> "idle", todo |-> {}, cur |-> NoTrade]

(* Type invariant. *)
TypeOK ==
  /\ faults \in FaultSets
  /\ up \in BOOLEAN
  /\ clock \in {"day", "late"}
  /\ broker \in [Trades -> Brokers]
  /\ venue \in [Trades -> {"none", "open", "closed"}]
  /\ row \in [Trades -> {"none", "null", "booked"}]
  /\ today \in SUBSET Trades /\ aged \in SUBSET Trades
  /\ mirrors \in [Trades -> 0..2]
  /\ tick \in [at : {"idle"} \cup ExitPcs \cup EntryPcs, todo : SUBSET Trades,
               routes : SUBSET Brokers, cur : Trades \cup {NoTrade}, hold : BOOLEAN]
  /\ cron \in [at : CronPcs, todo : SUBSET Trades, cur : Trades \cup {NoTrade}]

Init ==
  /\ faults \in FaultSets
  /\ up = TRUE /\ clock = "day"
  /\ broker = [t \in Trades |-> CHOOSE b \in Brokers : TRUE]
  /\ venue = [t \in Trades |-> "none"] /\ row = [t \in Trades |-> "none"]
  /\ today = {} /\ aged = {} /\ mirrors = [t \in Trades |-> 0]
  /\ tick = IdleTick /\ cron = IdleCron

-----------------------------------------------------------------------------
(* Names with Bug are mistakes a change to the code could make; no         *)
(* specification uses them: the properties are tested against them.        *)
Fails(kind)   == kind \in faults
At(label)     == up /\ tick.at = label
AtCron(label) == up /\ cron.at = label

(* What the next steps do not read is dropped. *)
Goto(label) ==
  tick' = IF label \in {"idle", "entry"} THEN [IdleTick EXCEPT !.at = label]
          ELSE IF label \in {"poll", "routes"}
          THEN [tick EXCEPT !.at = label, !.cur = NoTrade, !.hold = FALSE]
          ELSE [tick EXCEPT !.at = label]
Cron(label) ==
  cron' = IF label \in {"each", "idle"} THEN [cron EXCEPT !.at = label, !.cur = NoTrade]
          ELSE [cron EXCEPT !.at = label]

Open     == {t \in Trades : row[t] = "null"}
Taken(b) == {t \in today : broker[t] = b /\ row[t] # "none"}
-----------------------------------------------------------------------------
(* The broker fills a stop loss or a take profit; a trade grows old.       *)
Closed(t) ==
  /\ venue' = [venue EXCEPT ![t] = "closed"]
  /\ aged' = aged \ {t} /\ UNCHANGED broker

VenueEnds(t) ==
  /\ venue[t] = "open" /\ Closed(t)
  /\ UNCHANGED <<process, tables, tick, cron>>

Ages(t) ==
  /\ venue[t] = "open" /\ t \notin aged
  /\ aged' = aged \cup {t}
  /\ UNCHANGED <<process, tables, broker, venue, tick, cron>>

(* 22:00 starts the cron if the process is up.  A run of the cron, and an  *)
(* entry, is over by midnight.                                             *)
TenPm ==
  /\ clock = "day" /\ clock' = "late"
  /\ IF up THEN Cron("load") ELSE UNCHANGED cron
  /\ UNCHANGED <<faults, up, tables, market, tick>>

Midnight ==
  /\ clock = "late" /\ cron.at = "idle" /\ tick.at \notin EntryPcs
  /\ clock' = "day" /\ today' = {}
  /\ UNCHANGED <<faults, up, row, mirrors, market, tick, cron>>
-----------------------------------------------------------------------------
(* What throws outside the two force-closes ends the tick. *)
TickThrows ==
  /\ up
  /\ \/ tick.at \in {"entry", "routes"} /\ Fails("db")
     \/ tick.at \in {"sync", "row"} /\ Fails("db") /\ ~tick.hold
     \/ tick.at = "poll" /\ Fails("broker") /\ \E t \in tick.todo : broker[t] \in Mt5
  /\ Goto("idle")
  /\ UNCHANGED <<process, tables, market, cron>>

LoadOpen ==
  /\ At("idle")
  /\ tick' = [IdleTick EXCEPT !.at = "poll", !.todo = Open \cap today]
  /\ UNCHANGED <<process, tables, market, cron>>

(* processOpenTrade *)
PollSkips(t) ==
  /\ At("poll") /\ t \in tick.todo
  /\ Fails("quote") \/ (venue[t] = "open" /\ t \notin aged)
  /\ tick' = [tick EXCEPT !.todo = @ \ {t}]
  /\ UNCHANGED <<process, tables, market, cron>>

Polled(t, label, hold) ==
  tick' = [tick EXCEPT !.at = label, !.todo = @ \ {t}, !.cur = t, !.hold = hold]

PollFinds(t) ==
  /\ At("poll") /\ t \in tick.todo
  /\ \/ venue[t] = "closed" /\ Polled(t, "row", FALSE)
     \/ venue[t] = "open" /\ t \in aged /\ Polled(t, "close", TRUE)
  /\ UNCHANGED <<process, tables, market, cron>>

PollDone ==
  /\ At("poll") /\ tick.todo = {} /\ Goto("entry")
  /\ UNCHANGED <<process, tables, market, cron>>

CloseWorks(t) ==
  /\ venue[t] = "open"
  /\ Closed(t) \/ (Fails("closeCancel") /\ broker[t] \notin Mt5 /\ UNCHANGED market)

CloseThrows(t) ==
  \/ venue[t] = "closed" /\ UNCHANGED market
  \/ Fails("close") /\ venue[t] = "open" /\ (UNCHANGED market \/ Closed(t))

ForceCloseMaxHold ==
  /\ At("close")
  /\ \/ CloseWorks(tick.cur)  /\ Goto("row")
     \/ CloseThrows(tick.cur) /\ Goto("poll")
  /\ UNCHANGED <<process, tables, cron>>

Book(t) == row' = [row EXCEPT ![t] = "booked"]

PersistClose ==
  /\ At("row")
  /\ \/ Book(tick.cur) /\ Goto("sync")
     \/ Fails("db") /\ tick.hold /\ UNCHANGED row /\ Goto("poll")
  /\ UNCHANGED <<process, today, mirrors, market, cron>>

(* syncFadeTradeToBridgeLog: the mirror is looked for, then inserted.      *)
MirrorExists ==
  /\ At("sync")
  /\ \/ Goto(IF mirrors[tick.cur] = 0 THEN "mirror" ELSE "poll")
     \/ Fails("db") /\ tick.hold /\ Goto("poll")
  /\ UNCHANGED <<process, tables, market, cron>>

Mirror(t) ==
  \/ mirrors' = [mirrors EXCEPT ![t] = @ + 1]
  \/ Fails("mirror") /\ UNCHANGED mirrors

InsertMirror ==
  /\ At("mirror") /\ Goto("poll")
  /\ Mirror(tick.cur)
  /\ UNCHANGED <<process, row, today, market, cron>>
-----------------------------------------------------------------------------
(* runFadeEntryForAllBrokers: one route after the other. *)
LoadRoutes ==
  /\ At("entry")
  /\ tick' = [IdleTick EXCEPT !.at = "routes", !.routes = Brokers]
  /\ UNCHANGED <<process, tables, market, cron>>

EntryDone ==
  /\ At("routes") /\ tick.routes = {} /\ Goto("idle")
  /\ UNCHANGED <<process, tables, market, cron>>

(* entryGuardsBlock; the five-minute guard, the setup, the account and the *)
(* size may each end the route as well.                                    *)
BlockedBugCount(b) == Cardinality(Taken(b)) >= MaxTradesDay

Blocked(b) == Taken(b) \cap Open # {} \/ Cardinality(Taken(b)) >= MaxTradesDay

Passed(b) ==
  /\ At("routes") /\ b \in tick.routes
  /\ tick' = [tick EXCEPT !.routes = @ \ {b}]
  /\ UNCHANGED <<process, tables, market, cron>>

Setup(b) ==
  /\ At("routes") /\ b \in tick.routes /\ ~Blocked(b)
  /\ \E t \in Trades : venue[t] = "none"
  /\ LET new == CHOOSE t \in Trades : venue[t] = "none"
     IN  /\ tick' = [tick EXCEPT !.at = "order", !.routes = @ \ {b}, !.cur = new]
         /\ broker' = [broker EXCEPT ![new] = b]
  /\ UNCHANGED <<process, tables, venue, aged, cron>>

Order ==
  /\ At("order")
  /\ \/ venue' = [venue EXCEPT ![tick.cur] = "open"] /\ Goto("insert")
     \/ Fails("order") /\ venue' = [venue EXCEPT ![tick.cur] = "open"] /\ Goto("routes")
     \/ UNCHANGED venue /\ Goto("routes")
  /\ UNCHANGED <<process, tables, broker, aged, cron>>

(* A failed insert ends the tick with the other routes. *)
Insert ==
  /\ At("insert")
  /\ \/ /\ row' = [row EXCEPT ![tick.cur] = "null"] /\ today' = today \cup {tick.cur}
        /\ Goto("routes")
     \/ Fails("db") /\ UNCHANGED <<row, today>> /\ Goto("idle")
  /\ UNCHANGED <<process, mirrors, market, cron>>
-----------------------------------------------------------------------------
(* hardClose: every open row of every date; each trade's errors are caught.*)
CronLoadBugToday ==
  /\ AtCron("load")
  /\ cron' = [cron EXCEPT !.at = "each", !.todo = Open \cap today]
  /\ UNCHANGED <<process, tables, market, tick>>

CronLoad ==
  /\ AtCron("load")
  /\ \/ cron' = [cron EXCEPT !.at = "each", !.todo = Open]
     \/ Fails("db") /\ Cron("idle")
  /\ UNCHANGED <<process, tables, market, tick>>

CronDone ==
  /\ AtCron("each") /\ cron.todo = {} /\ Cron("idle")
  /\ UNCHANGED <<process, tables, market, tick>>

CronEach(t) ==
  /\ AtCron("each") /\ t \in cron.todo
  /\ \/ cron' = [at |-> "close", todo |-> cron.todo \ {t}, cur |-> t]
     \/ Fails("broker") /\ broker[t] \in Mt5 /\ cron' = [cron EXCEPT !.todo = @ \ {t}]
  /\ UNCHANGED <<process, tables, market, tick>>

CronCloseBugBooks ==
  /\ AtCron("close") /\ Cron("row")
  /\ CloseWorks(cron.cur) \/ CloseThrows(cron.cur)
  /\ UNCHANGED <<process, tables, tick>>

CronClose ==
  /\ AtCron("close")
  /\ \/ CloseWorks(cron.cur)  /\ Cron("row")
     \/ CloseThrows(cron.cur) /\ Cron("each")
  /\ UNCHANGED <<process, tables, tick>>

CronRow ==
  /\ AtCron("row")
  /\ \/ Book(cron.cur) /\ Cron("sync")
     \/ Fails("db") /\ UNCHANGED row /\ Cron("each")
  /\ UNCHANGED <<process, today, mirrors, market, tick>>

CronSync ==
  /\ AtCron("sync")
  /\ \/ Cron(IF mirrors[cron.cur] = 0 THEN "mirror" ELSE "each")
     \/ Fails("db") /\ Cron("each")
  /\ UNCHANGED <<process, tables, market, tick>>

CronMirror ==
  /\ AtCron("mirror") /\ Cron("each")
  /\ Mirror(cron.cur)
  /\ UNCHANGED <<process, row, today, market, tick>>
-----------------------------------------------------------------------------
Crash ==
  /\ Fails("crash") /\ up
  /\ up' = FALSE /\ tick' = IdleTick /\ cron' = IdleCron
  /\ UNCHANGED <<faults, clock, tables, market>>

Restart ==
  /\ ~up /\ up' = TRUE
  /\ UNCHANGED <<faults, clock, tables, market, tick, cron>>

TickStep ==
  \/ LoadOpen \/ PollDone \/ \E t \in Trades : PollSkips(t) \/ PollFinds(t)
  \/ ForceCloseMaxHold \/ PersistClose \/ MirrorExists \/ InsertMirror
  \/ LoadRoutes \/ EntryDone \/ Order \/ Insert
  \/ \E b \in Brokers : Passed(b) \/ Setup(b)

CronStep ==
  \/ CronLoad \/ CronDone \/ CronClose \/ CronRow \/ CronSync \/ CronMirror
  \/ \E t \in Trades : CronEach(t)

Next ==
  \/ \E t \in Trades : VenueEnds(t) \/ Ages(t)
  \/ TenPm \/ Midnight \/ TickThrows
  \/ TickStep \/ CronStep \/ Crash \/ Restart

Spec == Init /\ [][Next]_vars

(* The timer and the cron go on, and a close that is asked for again and   *)
(* again works in the end.                                                 *)
Fairness ==
  /\ WF_vars(TickStep) /\ WF_vars(CronStep)
  /\ \A t \in Trades : SF_vars(CronClose /\ cron.cur = t /\ cron'.at = "row")

FairSpec == Spec /\ Fairness
-----------------------------------------------------------------------------
(* A trade whose row has a result has ended, and it is shown as closed     *)
(* only then, although tick and cron race for it.                          *)
BookedHasEnded ==
  \A t \in Trades : row[t] = "booked" \/ mirrors[t] > 0 => venue[t] = "closed"

(* The tables in the words of TradeTables: a null result is an open trade, *)
(* and a mirror is only written of a closed one.                           *)
RowSays    == [t \in Trades |-> IF row[t] = "null" THEN "open"
                                ELSE IF row[t] = "booked" THEN "closed" ELSE "none"]
MirrorSays == [t \in Trades |-> IF mirrors[t] > 0 THEN "closed" ELSE "none"]

Tables == INSTANCE TradeTables WITH InOrder <- TRUE, row <- RowSays, mirror <- MirrorSays

(* Whoever books, mirrors or loses a trade, and whatever tick, cron and    *)
(* midnight do to each other, audusd_fade_trades and bridge_trade_log      *)
(* follow each trade, never get ahead of its broker and take nothing back: *)
(* a trade is filled once, recorded once, and its end is told only when    *)
(* it has ended.                                                           *)
ImplementsTables == Tables!Spec

Without(kinds) == faults \cap kinds = {}

(* "Free the one-trade-at-a-time slot": of the trades of one date a broker *)
(* holds one, recorded as open or filled and about to be recorded, though  *)
(* the guard is read before the order and the row is written after it.     *)
Held(t) ==
  \/ t \in today /\ row[t] = "null"
  \/ venue[t] = "open" /\ (t \in today \/ (tick.at = "insert" /\ tick.cur = t))

OneOfADate ==
  \A t, u \in Trades : broker[t] = broker[u] /\ Held(t) /\ Held(u) => t = u

(* Liveness: if days go by, no recorded trade stays open for ever, also    *)
(* one opened after 22:00 that no tick follows beyond midnight, and        *)
(* although closes fail.                                                   *)
DaysGoBy == []<>(clock = "late") /\ []<>(clock = "day")

RecordedTradesEnd ==
  DaysGoBy => \A t \in Trades :
    Without({"db", "broker", "crash", "closeCancel"}) /\ row[t] = "null" ~> venue[t] = "closed"
=============================================================================
