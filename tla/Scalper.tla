------------------------------ MODULE Scalper ------------------------------
(***************************************************************************)
(* One UTC day of the AUD/USD scalper: a pullback of some pips from the    *)
(* day's reference opens a trade, a win moves the reference (a ratchet), a *)
(* loss ends the day, and at 16:00 everything is closed.  The thirty-      *)
(* second tick (exit monitor, then entry monitor) and the 16:00 cron share *)
(* nothing but the tables, and are modelled an await at a time.            *)
(*                                                                         *)
(* Prices are pips from the first reference in the day's direction.        *)
(***************************************************************************)
EXTENDS TradingDay, Integers

CONSTANTS Orders,       \* bound: the orders of the day
          Gains,        \* what tpPips exceeds pullbackPips by, to choose from
          MaxRatchets

ASSUME ScalperAssumption == Gains \subseteq Int /\ MaxRatchets \in Nat \ {0}

VARIABLES
  gain,     \* tpPips - pullbackPips
  day,      \* the row of scalper_day_state, or NoDay
  venue,    \* each trade at OANDA: "none", "open", or how it ended
  row,      \* its result in scalper_trades; "none" before the insert
  tp,       \* its tp_price
  mirrors,  \* its rows in bridge_trade_log
  tick,     \* where the tick stands, and what it holds
  cron      \* where the 16:00 cron stands, and what it holds

scalperVars == <<gain, day, venue, row, tp, mirrors, tick, cron>>

tables == <<day, row, mirrors>>
broker == <<venue, tp>>

NoDay   == [live |-> FALSE, dir |-> "none", ref |-> 0, ratchets |-> 0, stopped |-> FALSE]
Days    == [live : BOOLEAN, dir : {"none", "long", "short", "neutral"}, ref : Int,
            ratchets : 0..MaxRatchets, stopped : BOOLEAN]
Booked  == {"win", "loss", "force_flat", "timeout_16h"}   \* SYNCABLE_RESULTS
Results == Booked \cup {"none", "null", "force_flat_failed"}

ExitPcs  == {"failed", "open", "poll", "win", "win sync", "win mirror", "win day",
             "ratchet", "loss", "loss sync", "loss mirror", "others", "flat", "flat row",
             "flat sync", "flat mirror", "next", "mark", "stop"}
EntryPcs == {"entry", "check", "order", "insert"}
CronPcs  == {"idle", "day", "open", "stop", "each", "close", "row", "sync", "mirror",
             "mark", "done"}

(* held: the day row as last read; list: the open trades loaded; todo:     *)
(* those still to handle; cur: the one in hand.                            *)
NoTrade  == "none"
IdleTick == [at |-> "idle", held |-> NoDay, list |-> {}, todo |-> {}, cur |-> NoTrade]
IdleCron == [at |-> "idle", todo |-> {}, cur |-> NoTrade]

(* Type invariant: the ratchets stay within SCALPER_MAX_RATCHETS (iron law *)
(* 4), also in the copy the tick holds, and a trade has two mirrors at the *)
(* most, for the tick and the cron each look once before they insert.      *)
ScalperTypeOK ==
  /\ gain \in Gains
  /\ day \in Days
  /\ venue \in [Orders -> {"none", "open", "tp", "sl", "flat"}]
  /\ row \in [Orders -> Results]
  /\ tp \in [Orders -> Int]
  /\ mirrors \in [Orders -> 0..2]
  /\ tick \in [at : {"idle"} \cup ExitPcs \cup EntryPcs, held : Days, list : SUBSET Orders,
               todo : SUBSET Orders, cur : Orders \cup {NoTrade}]
  /\ cron \in [at : CronPcs, todo : SUBSET Orders, cur : Orders \cup {NoTrade}]

ScalperInit ==
  /\ gain \in Gains
  /\ day = NoDay
  /\ venue = [t \in Orders |-> "none"] /\ row = [t \in Orders |-> "none"]
  /\ tp = [t \in Orders |-> 0] /\ mirrors = [t \in Orders |-> 0]
  /\ tick = IdleTick /\ cron = IdleCron

-----------------------------------------------------------------------------
(* OANDA fills the stop loss or the take profit of a trade. *)
VenueEnds(t, how) ==
  /\ venue[t] = "open"
  /\ venue' = [venue EXCEPT ![t] = how]
  /\ UNCHANGED <<dayVars, gain, tables, tp, tick, cron>>

(* One of the init crons (10:32, 10:37, 10:42), with the direction and the *)
(* Asian close signal of amd_state: a row that is there ends it, so does a *)
(* missing candle.  With no decision the day is aborted at once, for 10:32 *)
(* already counts as the last retry.                                       *)
Agree(dir, signal) ==
  \/ dir = "long"  /\ signal \in {"BULLISH", "NEUTRAL"}
  \/ dir = "short" /\ signal \in {"BEARISH", "NEUTRAL"}

InitializeDay(dir, signal) ==
  /\ up /\ clock = "init" /\ day = NoDay
  /\ day' = [NoDay EXCEPT !.live = TRUE, !.dir = dir, !.stopped = ~Agree(dir, signal)]
  /\ UNCHANGED <<dayVars, gain, row, mirrors, broker, tick, cron>>

-----------------------------------------------------------------------------
(* Names with Bug are mistakes a change to the code could make; no         *)
(* specification uses them: the properties are tested against them.        *)
At(label) == up /\ tick.at = label

(* What the next steps do not read is dropped. *)
To(label) ==
  IF label \in {"idle", "entry", "stop"} THEN [IdleTick EXCEPT !.at = label]
  ELSE IF label \in {"poll", "flat", "next"}
  THEN [tick EXCEPT !.at = label, !.cur = NoTrade, !.held = NoDay]
  ELSE [tick EXCEPT !.at = label]

Goto(label)     == tick' = To(label)
Takes(t, label) == tick' = [To(label) EXCEPT !.todo = @ \ {t}, !.cur = t]

AtCron(label) == up /\ cron.at = label
Cron(label) ==
  cron' = IF label = "done" THEN [IdleCron EXCEPT !.at = label]
          ELSE IF label = "each" THEN [cron EXCEPT !.at = label, !.cur = NoTrade]
          ELSE [cron EXCEPT !.at = label]

(* loadTodayDayState, loadOpenTrades and the like: an error throws, and    *)
(* what throws ends the tick, both monitors.                               *)
ReadThrows ==
  /\ up /\ tick.at \in {"failed", "open", "win sync", "win day", "loss sync", "entry", "check"}
  /\ Fails("db")
  /\ Goto("idle")
  /\ UNCHANGED <<dayVars, gain, tables, broker, cron>>

(* updateTrade also refreshes the day's pips, which may throw when the row *)
(* has been written.                                                       *)
UpdateTrade(t, result) == row' = [row EXCEPT ![t] = result]
UpdateThrows(t, result) ==
  Fails("db") /\ (UpdateTrade(t, result) \/ UNCHANGED row)

(* syncScalperTradeToBridgeLog looks for a mirror of the trade, then       *)
(* inserts one; an insert that fails is logged and forgotten.              *)
Mirrored(t) == mirrors[t] > 0
InsertMirror(t) ==
  \/ mirrors' = [mirrors EXCEPT ![t] = @ + 1]
  \/ Fails("mirror") /\ UNCHANGED mirrors

(* The tick begins with the day row. *)
ReadDay ==
  /\ At("idle")
  /\ Goto(IF ~day.live THEN "entry" ELSE IF day.stopped THEN "failed" ELSE "open")
  /\ UNCHANGED <<dayVars, gain, tables, broker, cron>>

Recorded(result) == {t \in Orders : row[t] = result}

(* A stopped day: the retry of the force-closes that failed. *)
LoadFailed ==
  /\ At("failed")
  /\ LET failed == Recorded("force_flat_failed")
     IN  tick' = IF failed = {} THEN To("entry") ELSE [To("flat") EXCEPT !.todo = failed]
  /\ UNCHANGED <<dayVars, gain, tables, broker, cron>>

LoadOpen ==
  /\ At("open")
  /\ tick' = [To("poll") EXCEPT !.list = Recorded("null"), !.todo = Recorded("null")]
  /\ UNCHANGED <<dayVars, gain, tables, broker, cron>>

-----------------------------------------------------------------------------
(* runExitMonitor's loop: a trade that is open, or that OANDA says nothing *)
(* about, is left for the next tick; a close better than the stop loss is  *)
(* a win, whoever closed it.                                               *)
PollDone ==
  /\ At("poll") /\ tick.todo = {}
  /\ Goto("entry")
  /\ UNCHANGED <<dayVars, gain, tables, broker, cron>>

PollSkips(t) ==
  /\ At("poll") /\ t \in tick.todo
  /\ venue[t] = "open" \/ Fails("quote")
  /\ tick' = [tick EXCEPT !.todo = @ \ {t}]
  /\ UNCHANGED <<dayVars, gain, tables, broker, cron>>

PollFinds(t) ==
  /\ At("poll") /\ t \in tick.todo /\ venue[t] # "open"
  /\ Takes(t, IF venue[t] = "sl" THEN "loss" ELSE "win")
  /\ UNCHANGED <<dayVars, gain, tables, broker, cron>>

Win ==
  /\ At("win")
  /\ \/ UpdateTrade(tick.cur, "win") /\ Goto("win sync")
     \/ UpdateThrows(tick.cur, "win") /\ Goto("idle")
  /\ UNCHANGED <<dayVars, gain, day, mirrors, broker, cron>>

(* Who looks for the mirror, and what follows it. *)
AfterMirror == [win |-> "win day", loss |-> "others", flat |-> "next"]
Looks   == [win |-> "win sync",   loss |-> "loss sync",   flat |-> "flat sync"]
Inserts == [win |-> "win mirror", loss |-> "loss mirror", flat |-> "flat mirror"]

Sync(of) ==
  /\ At(Looks[of])
  /\ Goto(IF Mirrored(tick.cur) THEN AfterMirror[of] ELSE Inserts[of])
  /\ UNCHANGED <<dayVars, gain, tables, broker, cron>>

Mirror(of) ==
  /\ At(Inserts[of])
  /\ InsertMirror(tick.cur) /\ Goto(AfterMirror[of])
  /\ UNCHANGED <<dayVars, gain, day, row, broker, cron>>

WinDay ==
  /\ At("win day")
  /\ tick' = [To("ratchet") EXCEPT !.held = day]
  /\ UNCHANGED <<dayVars, gain, tables, broker, cron>>

(* The upsert of a ratchet leaves day_stopped alone unless it is the last. *)
RatchetedBugClears ==
  [day EXCEPT !.ref = tp[tick.cur], !.ratchets = tick.held.ratchets + 1,
              !.stopped = tick.held.ratchets + 1 >= MaxRatchets]

Ratcheted ==
  [day EXCEPT !.ref = tp[tick.cur], !.ratchets = tick.held.ratchets + 1,
              !.stopped = @ \/ tick.held.ratchets + 1 >= MaxRatchets]

Ratchet ==
  /\ At("ratchet")
  /\ \/ tp[tick.cur] > tick.held.ref  /\ day' = Ratcheted /\ Goto("poll")
     \/ tp[tick.cur] <= tick.held.ref /\ UNCHANGED day    /\ Goto("poll")
     \/ Fails("db") /\ UNCHANGED day /\ Goto("idle")
  /\ UNCHANGED <<dayVars, gain, row, mirrors, broker, cron>>

Loss ==
  /\ At("loss")
  /\ \/ UpdateTrade(tick.cur, "loss") /\ Goto("loss sync")
     \/ UpdateThrows(tick.cur, "loss") /\ Goto("idle")
  /\ UNCHANGED <<dayVars, gain, day, mirrors, broker, cron>>

(* Then the other trades the tick had loaded, whatever became of them.     *)
Others ==
  /\ At("others")
  /\ LET others == tick.list \ {tick.cur}
     IN  tick' = IF others = {} THEN To("stop") ELSE [To("flat") EXCEPT !.todo = others]
  /\ UNCHANGED <<dayVars, gain, tables, broker, cron>>

-----------------------------------------------------------------------------
(* forceCloseOne for each trade of todo: whatever goes wrong, a trade that *)
(* has ended included, marks the row.  list is empty in the retry of a     *)
(* stopped day.                                                            *)
NextFlat ==
  /\ At("next")
  /\ Goto(IF tick.todo # {} THEN "flat" ELSE IF tick.list = {} THEN "entry" ELSE "stop")
  /\ UNCHANGED <<dayVars, gain, tables, broker, cron>>

CloseWorks(t) ==
  /\ venue[t] = "open"
  /\ \/ venue' = [venue EXCEPT ![t] = "flat"]
     \/ Fails("closeCancel") /\ UNCHANGED venue
CloseThrows(t) ==
  \/ venue[t] # "open" /\ UNCHANGED venue
  \/ Fails("close") /\ venue[t] = "open"
       /\ (UNCHANGED venue \/ venue' = [venue EXCEPT ![t] = "flat"])

Flat(t) ==
  /\ At("flat") /\ t \in tick.todo
  /\ \/ CloseWorks(t)  /\ Takes(t, "flat row")
     \/ CloseThrows(t) /\ Takes(t, "mark")
  /\ UNCHANGED <<dayVars, gain, tables, tp, cron>>

FlatRow ==
  /\ At("flat row")
  /\ \/ UpdateTrade(tick.cur, "force_flat") /\ Goto("flat sync")
     \/ UpdateThrows(tick.cur, "force_flat") /\ Goto("mark")
  /\ UNCHANGED <<dayVars, gain, day, mirrors, broker, cron>>

FlatSyncThrows ==
  /\ At("flat sync") /\ Fails("db") /\ Goto("mark")
  /\ UNCHANGED <<dayVars, gain, tables, broker, cron>>

Mark ==
  /\ At("mark")
  /\ UpdateTrade(tick.cur, "force_flat_failed") \/ (Fails("db") /\ UNCHANGED row)
  /\ Goto("next")
  /\ UNCHANGED <<dayVars, gain, day, mirrors, broker, cron>>

StopBugLater ==
  /\ At("stop")
  /\ UNCHANGED day /\ Goto("entry")
  /\ UNCHANGED <<dayVars, gain, row, mirrors, broker, cron>>

(* The refresh of the day's pips that follows may throw as well. *)
Stop ==
  /\ At("stop")
  /\ \/ day' = [day EXCEPT !.stopped = TRUE] /\ Goto("entry")
     \/ Fails("db") /\ (UNCHANGED day \/ day' = [day EXCEPT !.stopped = TRUE]) /\ Goto("idle")
  /\ UNCHANGED <<dayVars, gain, row, mirrors, broker, cron>>
-----------------------------------------------------------------------------
(* runEntryMonitor: the day row is read anew.  The five-minute guard, the  *)
(* price, the news and the size may each end it.                           *)
EntryDue == day.live /\ ~day.stopped /\ clock \in {"init", "window"}
              /\ day.ratchets < MaxRatchets

Entry ==
  /\ At("entry")
  /\ Goto("idle") \/ (EntryDue /\ tick' = [To("check") EXCEPT !.held = day])
  /\ UNCHANGED <<dayVars, gain, tables, broker, cron>>

CheckBugSkips ==
  /\ At("check") /\ Goto("order")
  /\ UNCHANGED <<dayVars, gain, tables, broker, cron>>

Check ==
  /\ At("check")
  /\ Goto(IF Recorded("null") = {} THEN "order" ELSE "idle")
  /\ UNCHANGED <<dayVars, gain, tables, broker, cron>>

(* The order carries the levels of the day row read above: the take profit *)
(* is tpPips from a trigger that is pullbackPips behind the reference.     *)
Order(t) ==
  /\ At("order") /\ venue[t] = "none"
  /\ venue' = [venue EXCEPT ![t] = "open"]
  /\ tp' = [tp EXCEPT ![t] = tick.held.ref + gain]
  /\ Takes(t, "insert") \/ (Fails("order") /\ Goto("idle"))
  /\ UNCHANGED <<dayVars, gain, tables, cron>>

NoOrder ==
  /\ At("order") /\ Goto("idle")
  /\ UNCHANGED <<dayVars, gain, tables, broker, cron>>

Insert ==
  /\ At("insert")
  /\ UpdateTrade(tick.cur, "null") \/ (Fails("db") /\ UNCHANGED row)
  /\ Goto("idle")
  /\ UNCHANGED <<dayVars, gain, day, mirrors, broker, cron>>
-----------------------------------------------------------------------------
(* hardClose, which 16:00 has started: a day that is not there or stopped  *)
(* is left alone; a read that throws outside the loop ends it.             *)
CronThrows ==
  /\ up /\ cron.at \in {"day", "open", "stop", "mark"} /\ Fails("db")
  /\ Cron("done")
  /\ UNCHANGED <<dayVars, gain, tables, broker, tick>>

CronDay ==
  /\ AtCron("day")
  /\ Cron(IF day.live /\ ~day.stopped THEN "open" ELSE "done")
  /\ UNCHANGED <<dayVars, gain, tables, broker, tick>>

CronOpen ==
  /\ AtCron("open")
  /\ cron' = [cron EXCEPT !.at = "stop", !.todo = Recorded("null")]
  /\ UNCHANGED <<dayVars, gain, tables, broker, tick>>

CronStop ==
  /\ AtCron("stop")
  /\ day' = [day EXCEPT !.stopped = TRUE]
  /\ Cron(IF cron.todo = {} THEN "done" ELSE "each")
  /\ UNCHANGED <<dayVars, gain, row, mirrors, broker, tick>>

(* The loop: what is booked by now is passed over; every error is caught,  *)
(* and the trade left to the marking that follows.                         *)
CronEach(t) ==
  /\ AtCron("each") /\ t \in cron.todo
  /\ \/ row[t] = "null" /\ cron' = [at |-> "close", todo |-> cron.todo \ {t}, cur |-> t]
     \/ (row[t] # "null" \/ Fails("db")) /\ cron' = [cron EXCEPT !.todo = @ \ {t}]
  /\ UNCHANGED <<dayVars, gain, tables, broker, tick>>

CronCloseBugBooks ==
  /\ AtCron("close")
  /\ CloseWorks(cron.cur) \/ CloseThrows(cron.cur)
  /\ Cron("row")
  /\ UNCHANGED <<dayVars, gain, tables, tp, tick>>

CronClose ==
  /\ AtCron("close")
  /\ \/ CloseWorks(cron.cur)  /\ Cron("row")
     \/ CloseThrows(cron.cur) /\ Cron("each")
  /\ UNCHANGED <<dayVars, gain, tables, tp, tick>>

CronRow ==
  /\ AtCron("row")
  /\ \/ UpdateTrade(cron.cur, "timeout_16h") /\ Cron("sync")
     \/ UpdateThrows(cron.cur, "timeout_16h") /\ Cron("each")
  /\ UNCHANGED <<dayVars, gain, day, mirrors, broker, tick>>

CronSync ==
  /\ AtCron("sync")
  /\ Cron(IF Mirrored(cron.cur) THEN "each" ELSE "mirror") \/ (Fails("db") /\ Cron("each"))
  /\ UNCHANGED <<dayVars, gain, tables, broker, tick>>

CronMirror ==
  /\ AtCron("mirror")
  /\ InsertMirror(cron.cur) /\ Cron("each")
  /\ UNCHANGED <<dayVars, gain, day, row, broker, tick>>

(* What is still open in the table is marked, one row after the other, for *)
(* the tick of a stopped day to retry.                                     *)
CronLeftBugForgets ==
  /\ AtCron("each") /\ cron.todo = {}
  /\ Cron("done")
  /\ UNCHANGED <<dayVars, gain, tables, broker, tick>>

CronLeft ==
  /\ AtCron("each") /\ cron.todo = {}
  /\ \/ Recorded("null") # {} /\ cron' = [cron EXCEPT !.at = "mark", !.todo = Recorded("null")]
     \/ (Recorded("null") = {} \/ Fails("db")) /\ Cron("done")
  /\ UNCHANGED <<dayVars, gain, tables, broker, tick>>

CronMark(t) ==
  /\ AtCron("mark") /\ t \in cron.todo
  /\ UpdateTrade(t, "force_flat_failed")
  /\ \/ (cron.todo = {t} \/ Fails("db")) /\ Cron("done")
     \/ cron.todo # {t} /\ cron' = [cron EXCEPT !.todo = @ \ {t}]
  /\ UNCHANGED <<dayVars, gain, day, mirrors, broker, tick>>
-----------------------------------------------------------------------------
ExitStep ==
  \/ ReadDay \/ LoadFailed \/ LoadOpen \/ PollDone
  \/ \E t \in Orders : PollSkips(t) \/ PollFinds(t) \/ Flat(t)
  \/ \E of \in DOMAIN Looks : Sync(of) \/ Mirror(of)
  \/ Win \/ WinDay \/ Ratchet \/ Loss \/ Others
  \/ FlatRow \/ FlatSyncThrows \/ NextFlat \/ Mark \/ Stop

EntryStep ==
  \/ Entry \/ Check \/ NoOrder \/ Insert \/ \E t \in Orders : Order(t)

CronStep ==
  \/ CronDay \/ CronOpen \/ CronStop \/ CronClose \/ CronRow
  \/ CronSync \/ CronMirror \/ CronLeft \/ \E t \in Orders : CronEach(t) \/ CronMark(t)

ScalperStep ==
  \/ \E t \in Orders, how \in {"tp", "sl"} : VenueEnds(t, how)
  \/ ReadThrows \/ ExitStep \/ EntryStep \/ CronThrows \/ CronStep

(* 16:00 starts hardClose in a process that is up.  What the entry monitor *)
(* began before 15:55 is over by then.                                     *)
ScalperClock ==
  /\ clock = "late" => tick.at \notin EntryPcs
  /\ IF clock = "late" THEN Cron(IF up THEN "day" ELSE "done") ELSE UNCHANGED cron
  /\ UNCHANGED <<gain, tables, broker, tick>>

(* A cron that was under way is not run again. *)
ScalperDies ==
  /\ Goto("idle")
  /\ IF cron.at = "idle" THEN UNCHANGED cron ELSE Cron("done")
  /\ UNCHANGED <<gain, tables, broker>>
=============================================================================
