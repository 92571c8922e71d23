---------------------------- MODULE SignalRouter ----------------------------
(***************************************************************************)
(* processSignal for an engine other than omega: the gates, the circuit    *)
(* breaker, the order and the count of the day, an await at a time; with   *)
(* the start of the bridge, the roster of engines that realtime notices    *)
(* keep up to date, and the reset of the count at midnight and at startup. *)
(* No signal comes before main is ready for it: from the subscription to   *)
(* ready = true there is no await, and its signalQueue is always empty.    *)
(***************************************************************************)
EXTENDS SignalFeed, FiniteSets

CONSTANTS Slots,       \* bound: signals that are handled, or whose trade is open
          Limit,       \* max_daily_trades of the engine
          MaxPerPair,  \* maxPerPairPositions
          MaxTrades,   \* bound: the count of the day
          MaxNotices,  \* bound: the notices on their way
          FaultSets    \* the fault models to choose from

FaultKinds == { "world",    \* the account moves and switches are turned
                "account",  \* the account cannot be read
                "dbRead",   \* nor bridge_active
                "crash",    \* the process dies
                "order",    \* an order throws, filled or not, or its answer names no fill
                "rows",     \* a row is not written, the open trades or the count are not read
                "overlap",  \* signals are handled at the same time
                "roster",   \* the engine is switched, a notice is lost (one also that comes
                            \* before its channel is joined), reloads fail or overlap
                "flip",     \* REBUILD_DIRECTION_FLIP is set
                "closeCancel",  \* OANDA cancels a close, and the code takes it for done
                "feed" }    \* the Realtime channel has problems

ASSUME RouterAssumption ==
  /\ IsFiniteSet(Slots) /\ Limit \in Nat /\ MaxPerPair \in Nat /\ MaxTrades \in Nat
  /\ MaxNotices \in Nat \ {0}
  /\ FaultSets \subseteq SUBSET FaultKinds

VARIABLES
  slot,      \* where the handler of each signal is, and what it holds
  venue,     \* the trade of the signal: "none", "open", "closed"
  log,       \* its row in bridge_trade_log: "none" (or blocked), "open"
  boot,      \* where main is: "starting", "reset", "running"
  active,    \* is_active of the engine in bridge_engines
  trades,    \* its trades_today there
  touched,   \* whether its row was written since midnight
  due,       \* whether the midnight timer has still to reset the count
  roster,    \* trades_today of the engine in memory, or Absent
  notices,   \* changes of the row that are not yet noticed
  reloads,   \* rows a notice has read and not yet put into the roster
  opened     \* the trades filled since the count was last reset

Absent == -1

signals == <<slot, venue, log>>
engine  == <<active, trades, touched, opened>>
sync    == <<roster, notices, reloads>>
rest    == <<signals, engine, sync, boot, due>>
router  == <<rest, feed>>
vars    == <<guards, router>>

Directions == {"LONG", "SHORT"}
Pcs == {"free", "config", "vet", "order", "row", "read", "write", "done"}
InHand == Pcs \ {"free", "done"}

(* dir: norm.direction; seen: the count it has read.  A slot whose signal  *)
(* came to nothing, or whose trade is over and booked, is free for another *)
(* one.                                                                    *)
Handlers == [at : Pcs, dir : Directions, seen : Nat]

Rest == [at |-> "free", dir |-> "LONG", seen |-> 0]

RouterTyped ==
  /\ slot \in [Slots -> Handlers]
  /\ venue \in [Slots -> {"none", "open", "closed"}]
  /\ log \in [Slots -> {"none", "open"}]
  /\ boot \in {"starting", "reset", "running"}
  /\ active \in BOOLEAN /\ touched \in BOOLEAN /\ due \in BOOLEAN
  /\ trades \in Nat /\ opened \in Nat
  /\ roster \in Nat \cup {Absent} /\ reloads \subseteq Nat \cup {Absent}
  /\ notices \in 0..MaxNotices

(* Type invariant of breaker, process, feed, signals and engine.           *)
TypeOK == faults \in FaultSets /\ GuardsTyped /\ FeedTyped /\ RouterTyped

Init ==
  /\ faults \in FaultSets /\ GuardsInit
  /\ slot = [s \in Slots |-> Rest]
  /\ venue = [s \in Slots |-> "none"] /\ log = [s \in Slots |-> "none"]
  /\ boot = "running" /\ active = TRUE /\ trades = 0 /\ touched = TRUE /\ due = FALSE
  /\ roster = 0 /\ notices = 0 /\ reloads = {} /\ opened = 0
  /\ channel = "joined" /\ timer = FALSE /\ attempts = 0
-----------------------------------------------------------------------------
Up         == proc = "up"
At(s, pc)  == Up /\ slot[s].at = pc
Handled    == {s \in Slots : slot[s].at \in InHand}
Listed     == {s \in Slots : log[s] = "open"}
GuardsKept == Quiet /\ UNCHANGED <<world, proc, breaker, account, feed>>
InMemory   == IF active THEN trades ELSE Absent

(* A write to the row of the engine is noticed by a bridge that listens.   *)
Noticed ==
  \/ notices' = IF Up /\ boot # "starting" /\ notices < MaxNotices THEN notices + 1 ELSE notices
  \/ Fails("roster") /\ UNCHANGED notices

Goto(s, pc) == slot' = [slot EXCEPT ![s].at = pc]
Refused(s)  == slot' = [slot EXCEPT ![s] = Rest]
Settled(s)  == slot' = [slot EXCEPT ![s] = [Rest EXCEPT !.at = "done", !.dir = slot[s].dir]]
-----------------------------------------------------------------------------
(* The feed: a signal is handled as soon as it comes.                      *)
Idle == Handled = {}

Receive(s) ==
  /\ channel = "joined" /\ At(s, "free") /\ trades < MaxTrades /\ opened < MaxTrades
  /\ Idle \/ Fails("overlap")
  /\ \E dir \in Directions :
       slot' = [slot EXCEPT ![s] = [Rest EXCEPT !.at = "config", !.dir = dir]]
  /\ GuardsKept /\ UNCHANGED <<venue, log, engine, sync, boot, due>>

(* main has done its work of the start and subscribes to the signals and   *)
(* to the roster; then resetIfNeeded looks at one row of bridge_engines.   *)
Listen ==
  /\ Up /\ boot = "starting" /\ boot' = "reset" /\ FeedStarts
  /\ Quiet /\ UNCHANGED <<world, proc, breaker, account, signals, engine, sync, due>>

ResetCount ==
  /\ trades' = 0 /\ touched' = TRUE /\ opened' = 0
  /\ Noticed
  /\ UNCHANGED <<active, roster, reloads>>

ResetIfNeeded ==
  /\ Up /\ boot = "reset" /\ boot' = "running"
  /\ IF touched THEN UNCHANGED <<engine, sync>> ELSE ResetCount
  /\ GuardsKept /\ UNCHANGED <<signals, due>>

(* The timer of scheduleMidnightReset is set when main has come to its end.*)
Midnight ==
  /\ touched /\ ~due
  /\ touched' = FALSE /\ due' = (Up /\ boot = "running")
  /\ GuardsKept /\ UNCHANGED <<signals, active, trades, opened, sync, boot>>

ResetTradesToday ==
  /\ Up /\ due /\ due' = FALSE
  /\ ResetCount
  /\ GuardsKept /\ UNCHANGED <<signals, boot>>
-----------------------------------------------------------------------------
(* The roster: every notice reads the row again, and puts what it has read *)
(* into memory when the answer comes; a failed read takes the engine out.  *)
(* Answers that overlap may come in any order.                             *)
Toggle ==
  /\ Fails("roster") /\ active' = ~active /\ Noticed
  /\ GuardsKept /\ UNCHANGED <<signals, trades, touched, opened, roster, reloads, boot, due>>

ReloadReadBugDropsBusy ==
  /\ Up /\ notices > 0 /\ notices' = notices - 1
  /\ reloads' = IF reloads = {} THEN {InMemory} ELSE reloads
  /\ GuardsKept /\ UNCHANGED <<signals, engine, roster, boot, due>>

ReloadRead ==
  /\ Up /\ notices > 0 /\ (reloads = {} \/ Fails("roster"))
  /\ notices' = notices - 1
  /\ \/ reloads' = reloads \cup {InMemory}
     \/ Fails("roster") /\ reloads' = reloads \cup {Absent}
  /\ GuardsKept /\ UNCHANGED <<signals, engine, roster, boot, due>>

ReloadApply(row) ==
  /\ Up /\ row \in reloads
  /\ reloads' = reloads \ {row} /\ roster' = row
  /\ GuardsKept /\ UNCHANGED <<signals, engine, notices, boot, due>>
-----------------------------------------------------------------------------
(* Stale, invalid or late; paused, unknown or blocked by the breaker; the  *)
(* session, the risk layers, the news, the size: any may end the signal.   *)
Refuse(s) ==
  /\ \E pc \in {"config", "vet"} : At(s, pc)
  /\ Refused(s)
  /\ GuardsKept /\ UNCHANGED <<venue, log, engine, sync, boot, due>>

(* The roster and the breaker are asked when the configuration has come.   *)
Admit(s) ==
  /\ At(s, "config") /\ roster # Absent
  /\ Signal
  /\ IF verdict' = "admitted"
     THEN slot' = [slot EXCEPT ![s].at = "vet", ![s].seen = roster]
     ELSE Refused(s)
  /\ UNCHANGED <<venue, log, engine, sync, boot, due, feed>>

(* hasOpenOppositePosition and countOpenSamePair, of the trades the log    *)
(* shows open: all signals of the engine are for one pair.                 *)
ConflictBugOpposite(s) ==
  \/ \E o \in Listed : slot[o].dir = slot[s].dir
  \/ Cardinality(Listed) >= MaxPerPair + 1

Conflict(s) ==
  \/ \E o \in Listed : slot[o].dir # slot[s].dir
  \/ Cardinality(Listed) >= MaxPerPair

(* The open trades are read once; if that fails there seem to be none. The *)
(* direction is turned round after the gates, before the order.            *)
Traded(dir) == IF Fails("flip") THEN CHOOSE d \in Directions : d # dir ELSE dir

Vet(s) ==
  /\ At(s, "vet")
  /\ ~Conflict(s) \/ Fails("rows")
  /\ Limit = 0 \/ slot[s].seen < Limit
  /\ slot' = [slot EXCEPT ![s].at = "order", ![s].dir = Traded(slot[s].dir)]
  /\ GuardsKept /\ UNCHANGED <<venue, log, engine, sync, boot, due>>

(* placeMarketOrder: a cancelled order, and one that throws though it may  *)
(* have been filled, end as BLOCKED; an answer with neither a cancellation *)
(* nor a fill goes on to the row, which then names no trade.               *)
Filled(s) == venue' = [venue EXCEPT ![s] = "open"] /\ opened' = opened + 1
NoTrade   == UNCHANGED <<venue, opened>>

Order(s) ==
  /\ At(s, "order")
  /\ \/ Filled(s) /\ Goto(s, "row")
     \/ NoTrade /\ Refused(s)
     \/ Fails("order") /\ Filled(s) /\ Settled(s)
     \/ Fails("order") /\ NoTrade /\ Goto(s, "row")
  /\ GuardsKept /\ UNCHANGED <<log, active, trades, touched, sync, boot, due>>

InsertRow(s) ==
  /\ At(s, "row") /\ Goto(s, "read")
  /\ \/ log' = [log EXCEPT ![s] = "open"]
     \/ Fails("rows") /\ UNCHANGED log
  /\ GuardsKept /\ UNCHANGED <<venue, engine, sync, boot, due>>

(* trades_today is read, and one more is written whatever it is by then;   *)
(* if it cannot be read it is what the roster said when the signal came.   *)
ReadCountBugRoster(s) ==
  /\ At(s, "read") /\ Goto(s, "write")
  /\ GuardsKept /\ UNCHANGED <<venue, log, engine, sync, boot, due>>

ReadCount(s) ==
  /\ At(s, "read")
  /\ \/ slot' = [slot EXCEPT ![s].at = "write", ![s].seen = trades]
     \/ Fails("rows") /\ Goto(s, "write")
  /\ GuardsKept /\ UNCHANGED <<venue, log, engine, sync, boot, due>>

WriteCount(s) ==
  /\ At(s, "write") /\ Settled(s)
  /\ trades' = slot[s].seen + 1 /\ touched' = TRUE /\ Noticed
  /\ GuardsKept /\ UNCHANGED <<venue, log, active, opened, roster, reloads, boot, due>>
-----------------------------------------------------------------------------
(* The broker ends a trade, or the monitor asks it to after the longest    *)
(* hold; the monitor books it and tells the breaker, as it does for the    *)
(* trades of the other engines.  It passes over rows that name no trade.   *)
VenueEnds(s) ==
  /\ venue[s] = "open" /\ venue' = [venue EXCEPT ![s] = "closed"]
  /\ GuardsKept /\ UNCHANGED <<slot, log, engine, sync, boot, due>>

MonitorBooks(s, result) ==
  /\ Up /\ log[s] = "open"
  /\ venue[s] = "closed" \/ (Fails("closeCancel") /\ venue[s] = "open")
  /\ log' = [log EXCEPT ![s] = "none"]
  /\ TradeBooked(result)
  /\ UNCHANGED <<slot, venue, engine, sync, boot, due, feed>>

Release(s) ==
  /\ slot[s].at = "done" /\ venue[s] # "open" /\ log[s] = "none"
  /\ Refused(s) /\ venue' = [venue EXCEPT ![s] = "none"]
  /\ GuardsKept /\ UNCHANGED <<log, engine, sync, boot, due>>

OthersBooked(result) ==
  /\ Up /\ Fails("world") /\ TradeBooked(result)
  /\ UNCHANGED router

(* With the process its handlers end, and what it had in memory is gone.   *)
Lost ==
  /\ slot' = [s \in Slots |-> IF venue[s] = "none" /\ log[s] = "none" THEN Rest
                              ELSE [Rest EXCEPT !.at = "done", !.dir = slot[s].dir]]
  /\ notices' = 0 /\ reloads' = {} /\ roster' = Absent /\ due' = FALSE /\ FeedGone
  /\ UNCHANGED <<venue, log, engine, boot>>

Started ==
  /\ boot' = "starting" /\ roster' = InMemory
  /\ UNCHANGED <<signals, engine, notices, reloads, due, feed>>

World     == ((\E e \in Equities : EquityMoves(e)) \/ Dashboard \/ Tick) /\ UNCHANGED router
Heartbeat == BeatAccount /\ UNCHANGED router
LooksOn   == BeatActive /\ (IF proc' = "up" THEN UNCHANGED router ELSE Lost)
Dies      == Crash /\ Lost
Feed(Step) == Step /\ (IF proc' = "up" THEN UNCHANGED rest ELSE Lost)
Restarts(Begins) == Begins /\ (IF proc' = "up" THEN Started ELSE UNCHANGED router)

SignalStep(s) ==
  \/ Refuse(s) \/ Admit(s) \/ Vet(s) \/ Order(s)
  \/ InsertRow(s) \/ ReadCount(s) \/ WriteCount(s)

Next ==
  \/ World \/ Heartbeat \/ LooksOn \/ Dies
  \/ Restarts(RailwayRestart) \/ Restarts(OperatorStart)
  \/ Feed(Subscribed) \/ Feed(ChannelFails) \/ Feed(Reconnect)
  \/ Listen \/ ResetIfNeeded \/ Midnight \/ ResetTradesToday
  \/ Toggle \/ ReloadRead \/ \E row \in reloads : ReloadApply(row)
  \/ \E s \in Slots : Receive(s) \/ SignalStep(s) \/ VenueEnds(s) \/ Release(s)
  \/ \E result \in {"win", "loss"} :
       OthersBooked(result) \/ \E s \in Slots : MonitorBooks(s, result)

Spec == Init /\ [][Next]_vars

(* The heartbeat runs on and its account request succeeds now and then,    *)
(* time passes, Railway restarts what failed, a channel that is asked for  *)
(* is joined, timers fire, reads are answered and the event loop goes on.  *)
Fairness ==
  /\ WF_vars(Heartbeat) /\ SF_vars(Heartbeat /\ cached' = equity) /\ WF_vars(LooksOn)
  /\ WF_vars(Tick /\ UNCHANGED router) /\ WF_vars(Restarts(RailwayRestart))
  /\ WF_vars(Feed(Subscribed) /\ channel = "joining") /\ WF_vars(Feed(Reconnect))
  /\ WF_vars(Listen) /\ WF_vars(ReloadRead) /\ WF_vars(\E row \in reloads : ReloadApply(row))
  /\ \A s \in Slots : WF_vars(SignalStep(s))

FairSpec == Spec /\ Fairness
-----------------------------------------------------------------------------
(* Liveness: a bridge that is switched off for good comes to rest, whether *)
(* it was up, crashing or being restarted by Railway (heartbeat and main). *)
BridgeOffIsFinal == <>[]~activeDb => <>[](proc = "stopped")

(* Liveness: an account that stays below the drawdown limit ends trading,  *)
(* although heartbeats fail and the account is only known from a cache.    *)
UpAndLow == Up /\ Low(peak, equity)
DrawdownStops == <>[]UpAndLow => <>[](verdict # "admitted")

(* Liveness: while notices arrive and are read one after the other, a      *)
(* bridge that lives always comes to know the count of the day again, also *)
(* when it changes between the read of a row and its place in the roster.  *)
RosterFollows ==
  "roster" \notin faults => (Up /\ roster # InMemory ~> ~Up \/ roster = InMemory)

(* Liveness: when problems and crashes end, the feed is joined again, or   *)
(* else the bridge has been stopped: no problem is left without a timer,   *)
(* and the process that gives up is started again.                         *)
FeedComesBack ==
  <>[][~Feed(ChannelFails) /\ ~Dies]_vars => (channel # "joined" ~> channel = "joined" \/ proc = "stopped")

(* No timer of an earlier problem tears down a channel that works, be it a *)
(* new one or one that the client has joined again: its signals would be   *)
(* lost meanwhile.                                                         *)
WorkingFeedStays == [][channel = "joined" => channel' # "joining"]_vars

(* Where answers name the fills, a row is executed only for an order that  *)
(* was filled.                                                             *)
ExecutedWasFilled ==
  "order" \notin faults => \A s \in Slots : log[s] = "open" => venue[s] # "none"

(* While signals are handled one at a time, orders, rows and closes get    *)
(* through and the process lives, a pair never has more trades than it may *)
(* and they agree in direction: although the log is read long before the   *)
(* order.  With REBUILD_DIRECTION_FLIP it is the other way round, as the   *)
(* gate has looked at the direction before the flip: any two are opposed.  *)
Alone ==
  faults \cap {"order", "rows", "closeCancel", "overlap", "crash", "world", "dbRead", "feed"} = {}

Agree(s, o) == (slot[s].dir = slot[o].dir) <=> ~Fails("flip")

PairIsGuarded ==
  LET open == {s \in Slots : venue[s] = "open"}
  IN  Alone => /\ Cardinality(open) <= MaxPerPair
               /\ \A s, o \in open : s # o => Agree(s, o)

(* Then also the count of the day is never less than the trades filled     *)
(* since its reset: a reset at midnight between the two loses none.        *)
NoneUncounted == Alone /\ Handled = {} => trades >= opened
=============================================================================
