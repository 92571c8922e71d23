# A TLA+ model of SignalForge Bridge

SignalForge Bridge is one Node.js process, run by Railway, that takes trading
signals from a Supabase table, decides whether to trade them, places orders at
several brokers (OANDA practice, OANDA Phase 2, VT Markets as an MT5 account
behind MetaApi), manages the open trades, and writes what it did to
`bridge_trade_log`.  There is no lock and no transaction: every handler is an
`async` function that may be overtaken at each `await`, by another signal, by a
`setInterval` monitor whose previous run has not finished, by a cron, or by the
end of the process.  Three records of one trade exist side by side, the venue's,
the log's and the one in the memory of a handler, and nearly everything that can
go wrong is one of them running ahead of another.  That is what these modules are
about.

Paths below are relative to the repository; the implementation is `src/`.

1. [The system](#1-the-system)
2. [Modules and how they correspond to the code](#2-modules-and-how-they-correspond-to-the-code)
3. [Runs](#3-runs)
4. [Fairness](#4-fairness)
5. [Proofs](#5-proofs)
6. [Where code and documents disagree](#6-where-code-and-documents-disagree)
7. [Plan](#7-plan)
8. [What is not modelled](#8-what-is-not-modelled)

## 1. The system

State that outlives the process is in Supabase and at the brokers; the rest is
module-level variables.  "Hard" names the behaviour a unit test hardly reaches.

| Component | State it keeps | Operations | Talks to | Hard |
|---|---|---|---|---|
| Signal feed (`connectors/supabase.ts`) | Realtime channel, reconnect timer and attempts | subscribe, reconnect after 5 s, give up after 10 attempts | calls `onSignalInsert` once per INSERT | the removal of a channel is reported as one more problem |
| Startup and timers (`index.ts`) | a queue for signals that come before startup is done, which stays empty | subscribe, reset the count, set the midnight timer | router, feed | what is written between the start and the timers |
| Router (`core/signalRouter.ts`) | none of its own | a sequence of gates, each of which may block or skip; then sizing, order, row, count | breaker, risk, news, brokers, log | every gate reads what another signal is about to write |
| Engine roster and daily counts (`index.ts`, `config/bridgeConfig.ts`) | `bridge_engines.trades_today` and `is_active`, their copy in memory | count a trade, midnight reset, reset at startup, reload on a realtime notice | router, cron | increments lost; a reset racing a count; reloads that answer in the other order |
| Circuit breaker, heartbeat (`core/circuitBreaker.ts`, `monitoring/heartbeat.ts`) | `killSwitch`, `peakEquity`, loss streak, cooldown; cached account | trip check, enter cooldown, record a result; refresh account, read `bridge_active` | the router asks; the monitor reports results | state lost at a restart, configuration read once |
| Omega execution (`core/omegaTrailV1Execution.ts`, `services/broker/*`) | one log row per signal and broker | flip close; per-broker one-trade gate; insert row, order, fill update, trail state | brokers, log | an order whose answer is lost; a crash between two writes |
| Trade monitor (`monitoring/tradeMonitor*.ts`, `brokerOpenTradeIndex.ts`) | a failure counter | every 30 s: compare open rows with the brokers, record closes, close what is too old | brokers, log, breaker, alerts | overlapping cycles, stale snapshots, silent brokers |
| Trailing stop and TP2 floor (`monitoring/trailingStop*.ts`, `omegaTp2Floor*.ts`) | `trail_stop_state`: armed, peak, stop | arm, ratchet, fire, clean up | called by the trade monitor | peaks read and written by overlapping cycles; clean-up racing a fill |
| Startup reconciliation (`startupReconciliation.ts`) | none | adopt unknown practice trades; close rows whose trade has ended | OANDA accounts, log | runs against what a dying process left behind |
| AlphaOmega lane (`core/alphaOmega/*`, `monitoring/alphaOmegaHardStopMonitor.ts`) | `alpha_omega_streak_state`, `alpha_omega_position_state` | every omega signal is a "fire": advance the streak, press on open positions, enter on a crack; hard stops | log, brokers, both monitors | read-modify-write of the streak; three writes per close |
| AMD engine (`services/AmdDistributionEngine.ts`, `services/amd/*`, `monitoring/amdTrailingStopMonitor.ts`) | `amd_trail_stop_state`, its rows of the log | every 5 min: enter on the books that have no trade today; every 30 s: time gate, trail, external closes | OANDA, MetaApi, log | two books that fail apart; once-a-day guards; crash between two tables |
| AMD detector (`services/AmdDetectorService.ts`, `services/amdDetector/*`) | `amd_state`, one row per day with a lock and a decision snapshot; `omega_direction` | detect at 10:31 and at startup, snapshot, apply, outcome at 16:30 | cron, startup, scalper | detection rerun after a restart, beside the outcome that frees the lock |
| Scalper (`services/scalper/*`) | `scalper_day_state`, `scalper_trades` | initialise the day, enter on a pullback, ratchet on a win, stop on a loss, close at 16:00 | AMD row, OANDA, log | the 16:00 cron beside a tick that read the day before |
| AUD/USD fade (`services/audusdFade/*`) | `audusd_fade_trades` | enter per broker, follow, close after a holding time, flatten at 22:00 | brokers, log | tick and cron booking the same trade; trades of two dates |
| Previous-day-level window (`services/pdlWindow/*`, `pdlSweepDetector`) | `pdl_sweep_signals`, `pdl_window_trades` | detect and enter at 12:01, follow, flatten at 13:00 | brokers, log | three handlers over the same trades |
| Peak fade (`services/peakFade/*`) | its trades table, alerts sent (in memory) | gate, enter per book, follow, watch adverse moves | brokers, log, alerts | trades without a stop loss while the gate is off |
| Filters and sizing (`core/signalValidation.ts`, `riskManager.ts`, `positionSizer.ts`, ...) | none or caches | refuse a signal, compute units | router | boundaries of the arithmetic |
| Asian direction and session close (`services/AsianDirectionService.ts`) | advisory rows, `omega_direction` | cron writers; close the open omega trades at 08:00 | read by the router; brokers, log | a writer between two reads; a close beside flip, monitor and order |
| Regime, bias, news | advisory rows | cron writers | read by the filters | - |
| Connectors (`connectors/*`) | connections | requests with time limits | brokers | an effect without an answer |
| Alerts, Telegram, shadow and replay tools, dashboard, migrations | - | - | - | - |

What makes each of the parts modelled correct:

* **Feed, roster, router.** A feed with problems comes back, a channel that works
  is not torn down, and the engines in memory follow their rows.  Of signals
  handled one at a time the trades of a pair respect its limit and its direction,
  and the count of the day loses none.
* **Breaker.** What stops trading stops it: drawdown and the switches; a bridge
  that was switched off is not restarted into trading.
* **Omega execution.** A trade has a log row before it has an order; a broker
  never holds two omega trades.
* **Monitor and bookkeeping.** The log says closed only what the venue has
  closed; nothing reopens a row; a close is counted and alerted once however
  many writers find it; an ended trade does not block its broker for ever.
* **Startup.** A trade is tracked exactly once after a restart.
* **Software stops.** A stop that is armed is never lowered or dropped while its
  trade is open; a stop that stays due is executed.
* **AlphaOmega.** A crack is earned by real, close fires; pressure counts each
  fire once; a book holds one trade; a position row is dropped after the log
  row is closed and never before, does not outlive the trade for ever, and the
  reason of a close is not overwritten.  The first three only while what they
  rest on can be read and written: a failure there is logged and passed over.
* **AMD engine.** No second order on a book whose row can be counted; no table forgets an open trade, tells
  more than has happened or takes back what it told; the time gate ends trades;
  ended trades are booked.
* **AMD detector and scalper.** The day is decided once and applied once; a
  stopped day stays stopped; no trade after a loss; nothing is booked that is
  still open; at 16:00 everything ends.
* **Fade, window, peak fade.** Row and mirror follow their trade, in this order, and
  nothing is booked that is still open; a broker holds one recorded trade (of a
  date); recorded trades end; of a peak-fade trade the end is booked.

`PROJECT.json` lists every component with its sources and every hazard at its
line.

## 2. Modules and how they correspond to the code

An action is the code between two awaits of one handler, unless nothing else
looks at what lies between.

### The omega engine

**TradeStore** holds what the router, the monitor, the session close and startup share: `venue`
(order and trade at the broker), `status` (`bridge_trade_log.status`; a row is
named by trade and engine, which is what the unique index of
`migrations/054_bridge_trade_log_broker_aware_dedup.sql` makes of `signal_id`,
`leg` and `broker`), `booked` and `alerted` (results given to the breaker, alerts
sent; counted up to two), `up` (the process).  It also defines what a venue may do
(`VenueFill`, `VenueReject`, `VenueExit`) and the two ways `closeTradeViaBroker`
ends (`CloseReturns`, `CloseThrows`).  The constant `Faults` says what may fail.

**OmegaExecution** extends it with the router's path of one omega signal:
`DetectFlip`, `SelectOpposing`, `FlipClose`, `FlipWrite`, `FlipDone`
(the direction-flip check of `processSignal` and
`closeAllOpenOmegaPositions`), `Sequence`
(`checkOmegaBrokerSequencingBlock`), then per broker `LegGate`, `LegInsert`,
`LegPlace`, `LegReply`, `LegCancel`, `LegUpdate` (`executeOmegaTrailV1Order`).
Every gate that only reads the signal or configuration is the choice `GiveUp`.

**TradeMonitor** is `runTradeMonitor`: `CycleStart` reads the open rows,
`CycleIndex` the brokers, and then each row is skipped (`RowSkip`), found closed
(`RowSeenClosed`), too old (`RowMaxHold`) or stopped (`RowTrailStop`); the log is
written by `Finalize` (guarded by `status = 'open'`) or by `TrailWrite`
(unguarded).  `Cycles` is how many runs may overlap.

**SessionClose** is `runAsianSessionClose`, the 08:00 cron: `SessionStart` reads
`omega_direction`, `SessionSelect` the open trades of that direction outside
AlphaOmega's books, `SessionCloseTrade` and `SessionWrite` close them and write
the log, an await apart and without a guard.  It may come at any time, also in the
middle of a flip of the same trades.

**OmegaBridge** composes the three with `Venue`, `Crash`, `Restart` and
`Reconcile` (`runStartupReconciliation`).  `Restart` loses the memory of every
handler and reads the two OANDA accounts; `Reconcile` compares that older
reading with the log.

**PositionLedger** is the abstract specification: a position goes absent,
intended, live, ended, settled, in that order and never back.  `StageOf` in
OmegaBridge is the refinement mapping, from a trade's two rows and its venue;
AlphaOmega has its own, from a trade's one row and its venue.

**TrailingStop** looks at one trade from the side of its software stop: the
trailing stop (`kind` = "trail") or the floor of a second-target leg ("tp2").
`stop` is its row in `trail_stop_state` or `omega_tp2_floor_state`: the peak, and
whether the trail is active.  Prices are distances from the fill.  `Register` is
`registerTrailState`; the rest is a monitor cycle: `CycleStart`, `Sweep` and
`SweepDelete` (`cleanupOrphanedTrailStates`, `cleanupOrphanedTp2FloorStates`),
`ReadLog`, `ReadIndex`, `Gone`, `Finalize` (`runTradeMonitor`), `Ensure`, `Load`,
`ReadCandle`, then `FloorQuote` (`runTp2FloorCheck`) or `StopLossQuote` and
`TrailQuote` (`runTrailingStopCheck`), and `CloseWorks`, `CloseThrows`, `Persist`,
`Forget` (`closeTrailStop`, `closeTp2FloorLeg`).  Peaks come from the last complete
M5 candle and exits from the live price, so the market has three variables: `mid`,
the bar under way (`bar`) and the last complete one (`candle`).

### From the feed to the order of a one-account engine

**CircuitBreaker** has the breaker (`isTripped`, `enterCooldown`,
`recordClosedTrade`), the account and switches it is told of (`BeatAccount`,
`BeatActive`: the two halves of `runHeartbeat`) and the life of the process
(`Crash`, `RailwayRestart` after exit 1, `OperatorStart` after exit 0).

**SignalFeed** extends it with `subscribeToSignalInserts`: `channel`, `timer`,
`attempts`; `Problem` is the status callback for CHANNEL_ERROR, TIMED_OUT and
CLOSED, and `Reconnect` the timer.  The Supabase client reports CLOSED while a
channel is removed, before the new one is made; that is why `Reconnect` is one
more `Problem`.

**SignalRouter** extends that with `processSignal` for an engine of one OANDA
account: `Listen` (`main` subscribes) and `ResetIfNeeded` (its end), `Receive`
(`onSignalInsert`), then per signal `Admit` (the roster and the breaker), `Vet`
(`hasOpenOppositePosition`, `countOpenSamePair` and the daily limit, over the rows
the log shows open, or seems to show when it cannot be read), `Order`, `InsertRow`,
`ReadCount`, `WriteCount`, and `Refuse` for every filter that only refuses.
`Vet` also turns the direction round, as the code does after these gates, in
behaviours where REBUILD_DIRECTION_FLIP is set (fault model `flip`).  There is no
queue: from the subscription to `ready = true` (`index.ts:472-532`) `main` awaits
nothing, so no signal can come before it is ready.  Around them:
`Midnight` and `ResetTradesToday`, the notices of changes of `bridge_engines`
(`ReloadRead`, `ReloadApply`, `Toggle`), `MonitorBooks` and the venue.  `slot`
holds a signal and what its handler remembers; a slot is used again when its
signal is over (`Release`).

### The second book and the two books of AMD

**AlphaOmegaStreak** has the pure streak rules (`AfterFire`, `Crack`, `Enters`)
and **AlphaOmega** the handlers around them: `ReadStreak` and `SaveStreak`
(`processFireForStreak`), `LoadPositions`, `Press`, `CloseOnCrack`, `CountFire`
(`trackFireAgainstOpenPositions`), `Enter` and per book `Gate`, `Order`, `Fill`,
`Register`, then `Tag` and `Clear`, the two writes after a close that a fire and
the hard-stop monitor share, and `Finalize`, the trade monitor's.  `CloseAt` is
`closeTradeViaBroker` as the lane calls it: it throws, or the trade is closed, or
OANDA cancels the close and the code goes on as if it were.  The code logs a
failed read or write of its tables and goes on, and so do the models: with the
fault `read` a streak looks empty, an open row absent, positions seem to be none,
a trade that cannot be looked up counts as open, and the switch looks on
(`ReadStreak`, `Gate`, `LoadPositions`, `KeptBy`); with `write` the streak, the
counts or the row of a position stay as they were although the handler goes on
with its crack, its fire or its trade (`SaveStreak`, `CountFire`, `Clear`,
`Register`, `LeftBy`).

**AmdBooks** is the AMD engine: a poll (`PollStart`, then per book `LegCheck`,
`LegOrder`, `LegRow`, `LegTrail`, and `PollEnd` for `Promise.allSettled`), a
monitor cycle (`CycleStart`, `Venues`, then per trade `Leave`, `Gone`,
`CloseWorks`, `CloseThrows`, each close followed by `Mark` and `Log`), and
`Clock`, `VenueExit`, `Crash`, `Restart`.  A leg whose count of the rows of its
book fails (fault `count`) takes it for none and goes on: its order is labelled
"blind".  The reads of `Restart` never fail.  One UTC day is modelled.

### The day engines

**TradingDay** has what the crons of one UTC day share: the fault model, the
process and the part of the day.  **AmdDay** is the detector: `DetectionCron` or
`StartupCheck`, `LookAtLock`, `Pull`, `ReadSnapshot`, `Persist` (the upsert that
keeps the decision), `ApplyMode`, `ApplyDirection`, `ApplyExpiry`
(`applyAutoDirectionToBridgeConfig`), `Outcome`.  **Scalper** is one day of the
scalper: `InitializeDay`, the tick (`ReadDay`, `LoadOpen`, `PollFinds`, `Win` to
`Ratchet`, `Loss` to `Stop`, `Flat`, then `Entry`, `Check`, `Order`, `Insert`) and
the 16:00 cron (`CronDay` to `CronMark`).  **ScalperDay** composes the two: the
scalper takes its direction from the row the detector writes.

**Fade** is `runMonitors` and `hardClose` of the fade engine over any number of
days: the tick (`LoadOpen`, `PollFinds`, `ForceCloseMaxHold`, `PersistClose`,
`MirrorExists`, `InsertMirror`, then `LoadRoutes`, `Setup`, `Order`, `Insert`) sees
the trades of the current date only, the cron (`CronLoad` to `CronMirror`) all.

**PdlWindow** has three handlers: the 12:01 cron (`Detect`, `LoadSignal`, `Setup`,
`Order`, `Insert`), the tick (`LoadOpen`, `PollFinds`, `ForceCloseTrade`,
`PersistClose`, ...) and the 13:00 flatten (`FlatLoad` to `FlatDone`).

**PeakFade** has one: `Gate`, `LoadOpen`, `PollFinds`, `PersistClose`,
`InsertMirror`, `MaeWatch`, `RoutesNeedingEntry`, `SubmitOrder`, `RecordOpen`.

### Trades that are recorded after their order

**TradeTables** is the second abstract specification.  PositionLedger is for the two
engines that write a row before they order.  AMD, Fade, PdlWindow and PeakFade order
first: a trade may be live and not recorded, or never be recorded, and each is told of
in two tables, written at different times by different handlers.  What can still be
promised is that a table never gets ahead of the venue and never takes
anything back: `Fill` and `End` move the trade, `WriteRow` and `WriteMirror` write
of some trades a word that is later than the last one of that table and not later
than their trade.  `InOrder` says that the mirror also waits for the row.  The
engines instantiate it as `Tables`: the row of the engine is `row`, the one in
`bridge_trade_log` is `mirror` (`RowSays` and `MirrorSays` put them into the
abstract words), and `InOrder` holds.  In AMD the log is `row` and
`amd_trail_stop_state` is `mirror`, and neither waits for the other: an insert of the
log row may fail while that of the trail state works.

### Instances and proofs

**MCOmegaBridge**, **MCSignalRouter**, **MCAlphaOmega**, **MCAmdBooks**,
**MCTrailingStop** and **MCScalperDay** give the constants their values for model
checking, and some of them confine the behaviours to smaller worlds (section 3);
Fade, PdlWindow and PeakFade are checked as they are.  **OmegaBridgeProofs**,
**SignalRouterProofs**, **AlphaOmegaProofs**, **AmdBooksProofs**,
**TrailingStopProofs**, **FadeProofs**, **PeakFadeProofs** and
**ScalperDayProofs** hold the theorems; those about PdlWindow are the second part
of FadeProofs, which makes an instance `Pdl` of it.

A definition whose name contains `Bug` is a mistake a change to the code could
make (a dropped guard, a swapped order, a stale read).  No specification uses
one; each property is tested by putting such a definition in the place of the
right one and seeing TLC refute the property.

### Abstractions

* Trades are named by what caused them (signal and broker, fire and book, book
  and attempt) or by a number in the order they are opened.  Prices, sizes and
  profit are gone: where a price decides, the model may go either way.  Only
  TrailingStop has prices, as small integers, and Scalper a reference, in steps.
* Time is a bounded counter where a rule compares times (gaps of the streak, the
  hour of the AMD gates, the cooldown) or a part of the day, and absent
  elsewhere: a row younger than a minute, for instance, is `RowSkip`.
* A failed database or broker call is a fault kind.  A read that the code takes
  for "no rows" when it fails is modelled with that effect (`dbRead`, `rows`,
  `read`, `count`, `lookup`); so is a write whose failure is only logged.
* A broker may act and not answer: a timed-out order or a close that throws
  includes both the case in which the venue acted and the one in which it did not.
* What a handler will not read again is dropped from its memory at once, so that
  states that cannot be told apart are one.
* In the modules from SignalRouter on, `FaultSets` is a set of fault models, one
  of which a behaviour keeps from its beginning: one run covers several.

## 3. Runs

| Run | Module and cfg | Bounds | Properties |
|---|---|---|---|
| `omega_sequential` | MCOmegaBridge, OmegaSequential.cfg | two opposing signals, practice and Phase 2, one signal at a time, one cycle, the session close, no faults | OneTradePerBroker, BookedOnce |
| `omega_faults` | MCOmegaBridge, OmegaFaults.cfg | one signal, practice and VT, two overlapping cycles, no session close, all faults but `closeCancel` and `dbRead` | TrackedOnce, AlertedOnce, ImplementsLedger |
| `omega_liveness` | MCOmegaBridge, OmegaLiveness.cfg | one signal, one cycle, the session close, `orderTimeout`, `fetch`, `crash` | StartupTracksPractice, EndedTradesLeaveTheGate |
| `cancelled_close` (violation) | MCOmegaBridge, CancelledClose.cfg | one signal, `closeCancel` | LogFollowsVenue |
| `trailing_stop` | MCTrailingStop, TrailingStop.cfg | one trade of either kind, prices from -1 to 2, one cycle, failed reads, quotes, writes and closes, crashes | StopNeverLoosens, StopFires |
| `signal_router` | MCSignalRouter, SignalRouter.cfg | two slots, limit 1 a day, two trades a pair, two equities, seven fault models | PairIsGuarded, NoneUncounted, BridgeOffIsFinal, DrawdownStops, RosterFollows, FeedComesBack, WorkingFeedStays |
| `alpha_omega` | MCAlphaOmega, AlphaOmega.cfg | six fires without faults, four or five with failed closes and log writes, failed reads, failed writes of streak and positions, crashes and switching; one book; six fault models | CracksAreEarned, OneTradePerBook, PressureIsExact, PositionOutlivesRow, ImplementsLedger, EndedTradesAreForgotten |
| `amd_books` | MCAmdBooks, AmdBooks.cfg | one poll, one cycle, two hours, an OANDA and an MT5 book, a second trade for the OANDA book, refusals, timeouts, failed counts, silent books, failed closes, crashes | ImplementsTables, NoSecondOrder, EndedTradesAreBooked, TimeGateEnds |
| `scalper_day` | MCScalperDay, ScalperDay.cfg | two orders, two ratchets, one restart, five fault models | BookedHasEnded, OneOpenTrade, DecidedOnce, StoppedForGood, NoEntryAfterLoss, HardCloseEnds |
| `fade` | Fade, Fade.cfg | two trades, an OANDA and an MT5 broker, any number of days, four fault models | ImplementsTables, OneOfADate, RecordedTradesEnd |
| `pdl_window` | PdlWindow, PdlWindow.cfg | two trades on one broker, any number of days, four fault models | ImplementsTables, TradesEndTheDay |
| `peak_fade` | PeakFade, PeakFade.cfg | two trades, two books, three fault models | OnePerBook, ImplementsTables, EndedTradesAreBooked |

### What they show

* `omega_sequential`: with one signal at a time and nothing failing, no broker ever
  holds two trades, whatever flip, session close, monitor and venue do with them in
  between, and the breaker counts the result of a trade once although flip, session
  close, monitor and trailing stop meet over it.  With two overlapping cycles it
  would not: see section 5.  OneTradePerBroker does not hold in general: see section 6.
* `omega_faults`: whatever is overtaken, fails or dies, in any order, startup does
  not track a trade twice, two overlapping cycles send one alert, and each trade
  goes through the stages of PositionLedger in order: it has its row before its
  order, the log never runs ahead of the venue and no row is reopened.
* `omega_liveness`: brokers that time out or fall silent and a process that dies
  do not leave a broker blocked by a trade that has ended, and startup adopts the
  trades of the practice account it has no row for.  With its one signal there is
  nothing to flip; session close and monitor are there.
* `cancelled_close` is the finding of section 6.
* `trailing_stop`: no older candle, unanswered read, lost write, sweep or restart
  lowers or drops an armed stop while its trade is open; a stop that stays due
  does not stay unexecuted, although everything it needs fails now and then.
* `signal_router`: a bridge that is switched off comes to rest for good, even
  while it crashes and Railway restarts it; an account that stays below the
  limit ends trading, though the breaker knows it only from a cache; a change of
  the engine row that comes while a reload has already read it is not missed, as
  long as notices arrive and reloads follow one another; the reconnection timer and its double reports never tear down a channel
  that works, and problems that end leave a joined channel.  For signals handled
  one at a time while orders, rows, reads and closes get through (`Alone`), reading
  the log long before the order is safe: a pair is within its limit and its trades
  agree in direction.  With REBUILD_DIRECTION_FLIP the gate has seen the direction
  before the flip, and any two trades of a pair are opposed.  The unguarded count never falls below the trades
  opened, across the midnight reset too.
* `alpha_omega`: cracks are earned, over gaps at, below and above each limit and
  over failed reads of the streak, as long as it can be saved; a book holds one
  trade as long as the log can be read; between fires the counts of an open trade
  are exactly the fires since its entry, and none is left that they should have
  closed, unless a close, a read or a write failed or the process died; each trade goes through the stages of
  PositionLedger in order, whichever of fire, monitors and venue ends it; the three
  writes of a close come in an order that a crash cannot spoil.
* `amd_books`: neither a silent book, nor a snapshot older than the states, nor a
  failed close makes an open trade look closed in the log or in the trail states, and
  no late write of a poll, a cycle or startup takes back what a table said; the five-minute retry for the book
  that is missing never orders again on the book that has its EXECUTED row, unless
  it could not count the rows of that book; the log learns of every OANDA trade that ended; the time gate ends every trade it
  is set for.
* `scalper_day`: the decision of the day is made once although detection runs
  again at every start, and the omega engine is turned once, as decided; a
  stopped day is never reopened by a write of what was read before the stop, and
  gets no order; with answering tables no order follows a booked loss; what is
  booked or mirrored has ended, whoever closed it; two trades are open only if an
  order was filled unseen; after 16:00 every recorded trade is closed.
* `fade`: tick and cron race for the same trades and book none that is open, a
  mirror is written after its row, and no row goes back; a broker holds one
  recorded trade of a date (a lost answer or row hides a trade from the guards); whatever closes fail, no recorded trade stays
  open for ever, those opened after 22:00 included.
* `pdl_window`: the same for the window, and a trade does not outlive 13:00 unless
  midnight comes first, also one that the 12:01 cron opened late.
* `peak_fade`: the wrong broker, a silent one or a missing close price never make
  an open trade look closed, and row and mirror follow each trade, in this order; a
  book holds one trade where no order or row is lost; the end of a trade is booked
  in the end, though the gate was off meanwhile.

### Why the bounds are enough

Every rule modelled relates at most two of a kind: two writers of a row, two
signals at a gate, two cycles, two books of which one answers.  One book in
`alpha_omega` stands for each of several because the lanes share no state but
the streak, which belongs to fires; two fires reach the crack (`ArmLength` 2),
the third cracks, and three more are enough to press, close and enter again.
`SpeedCeiling` 4, `MaxGap` 6 and the gaps 4, 5 and 7 put one gap exactly at the
ceiling, one between the two limits and one beyond both; where nothing fails one
late gap (of either kind) may come anywhere in a run of fires four minutes apart,
and where much fails all are four minutes apart (MCAlphaOmega).  `ShareMinFires`
1 and `OpposingCount` 2 let either rule of pressure close a trade alone.  `Equities` has a
value on each side of the limit.  `Cap` 2 tells once from twice.  `MaxTry` 2
gives the OANDA book a second trade for a poll to place wrongly; `LastSlot` 1
gives the day an hour before and one after the gate.  Behaviours in which rows
cannot be counted keep to the OANDA book, its two trades and a process that lives
(MCAmdBooks): the count is read by one leg of one book.  In `trailing_stop` the
peak can stand at 0, 1 and 2 with the floor, the activation, the trail and the
stop loss at distance 1: below, at and above each of them.

`signal_router` explores seven fault models, each in the small world MCSignalRouter
names: where account and switches move, one signal comes and a later gate ends
it; where the feed has problems only the bridge switch is turned; elsewhere two
slots, each used again and again, trade while date, roster and monitor go on.
`Limit` 1 and `MaxTrades` 2 let the count pass its limit, two directions exist
where PairIsGuarded speaks of them, and `MaxAttempts` 2 stands for 10: a problem,
the report of the removal, and one too many.

`scalper_day` has a win and a loss, or a win and an order lost, in each window,
and settings under which a win moves the reference to either side; two ratchets
reach the limit.  Where the settings of the bridge cannot be read the day is one
without trading, for the scalper reads nothing of it (MCScalperDay).  In the
three day engines two trades meet on one broker, and on two, before and after
midnight; `MaxTradesDay` 2 is never the guard that refuses.

Properties of calm conditions say so in themselves (`Alone`, `Reliable`,
`Without`, `Honest`): what happens otherwise is in section 6.  No run uses
symmetry.  One cycle in `amd_books` and `trailing_stop`: for
AMD the proofs cover overlapping cycles and the faults the run leaves out; for
the stops see `Apart` in section 5.

The type invariants are proved (section 5), so no run checks one.  Deadlock is off in every run whose system may rightly come
to rest: the signals, fires or trades of the run are used up.

## 4. Fairness

* Handlers: weak fairness of each signal, leg, poll, cycle, tick and cron that has
  begun.  The event loop runs whatever can run, and each await has a time limit in
  the connectors.
* Monitors and ticks: weak fairness, because `setInterval` starts them for ever
  (`src/index.ts`).  Crons of the day are not fair: one that the process misses
  is not run again.
* Answers: strong fairness for what is asked again and again: reading a broker,
  the close of an AMD trade at its time gate, of a scalper trade after a stop, of
  fade and window trades by tick or cron (per trade), the answer about a peak-fade
  trade.  A broker that never answers again would refute these properties, and
  rightly so.
* TrailingStop: strong fairness of each answer a check waits for (`Answered`): the
  log, the index, the state, the candle, the quote and the close are asked for
  again in every cycle.  `StopFires` asks only that a stop does not stay due for
  ever: a price that comes back before the next cycle is not acted upon.
* `RowSeenClosed`: strong, because every trade grows older than a minute.
* Restart: weak, and in OmegaBridge crashes stop in the end (`<>[][~Crash]_vars`).
  Railway restarts a failed process (`restartPolicyType` on failure) but at most
  five times in a row; a process that dies for ever satisfies no liveness
  property.
* SignalRouter: weak fairness of both halves of the heartbeat, of the reconnect
  timer, of Railway's restart, of each step of a signal, and of the answer
  SUBSCRIBED of a channel that was asked for; strong fairness of a heartbeat that
  reads the account.  `FeedComesBack` assumes that problems and crashes end.
  Nothing says that an operator starts a stopped bridge.
* PeakFade assumes the gate on in the end (`<>[]enabled`): with the gate off nobody
  follows its trades, which is section 6.  `RecordedTradesEnd` of Fade assumes that
  days go by (`DaysGoBy`).

## 5. Proofs

Everything here holds for any number of signals, brokers, cycles, books, trades,
fires and polls and for every choice of faults, under the ASSUMEs of the modules,
which TLC evaluates in the runs.  Each module proves `TypeCorrect`, its type
invariant, and what follows.

| Module | Theorem | Property | Condition |
|---|---|---|---|
| OmegaBridgeProofs | OrdersAreRecorded, ClosingIsFinal | OrderHasRow, ClosedIsFinal | none |
| | AlertsAreSentOnce | AlertedOnce | none |
| | ClosedMeansClosed, LedgerImplemented | LogFollowsVenue, ImplementsLedger | `Honest` |
| | TradesAreTrackedOnce | TrackedOnce | `ReadsWork` |
| | StartupTracksItsTrades | StartupTracksPractice | `Honest`, `ReadsWork`, `WritesWork` |
| | ResultsAreCountedOnce | BookedOnce | the same and `OneCycle` |
| | OneTradeForABroker | OneTradePerBroker | `Calm` |
| SignalRouterProofs | ExecutedIsFilled | ExecutedWasFilled | answers name their fills (`"order"` not in `faults`), in the property |
| | WorkingFeedIsLeftAlone | WorkingFeedStays | none |
| | PairStaysGuarded, NoTradeUncounted | PairIsGuarded, NoneUncounted | `Alone`, in the property |
| AlphaOmegaProofs | PositionsOutliveRows, ReasonsStay | PositionOutlivesRow, ReasonStays | none |
| | OneTradeForABook | OneTradePerBook | `OneFire`; the log can be read, in the property |
| | CracksHaveBeenEarned | CracksAreEarned | `OneFire`; `StreakKept`, in the property |
| | PressureStaysExact | PressureIsExact | `OneFire`; no failed close, read or write and no crash, in the property |
| | LedgerImplemented | ImplementsLedger | `Honest` |
| AmdBooksProofs | TablesImplemented | ImplementsTables | `Honest` |
| | TradesAreNotLetGo | NeverLetGo | `Honest` |
| | TablesAreTruthful | NeverLetGo and NothingTakenBack, from ImplementsTables | none |
| | OrdersFollowNoRow | NoSecondOrder | `OnePoll`; the leg could count its rows, in the property |
| TrailingStopProofs | StopsHold | StopNeverLoosens | `Apart`, `Honest` |
| FadeProofs | TablesImplemented, OneTradeOfADate | ImplementsTables, OneOfADate | `Honest` |
| | BookedTradesHaveEnded | BookedHasEnded | `Honest` |
| FadeProofs, of PdlWindow | WindowTablesImplemented, WindowBookedTradesHaveEnded | ImplementsTables, BookedHasEnded | `Honest` |
| PeakFadeProofs | TablesImplemented, OneTradePerBook | ImplementsTables, OnePerBook | none |
| | NeverTakenForClosed | OpenStaysWatched | none |
| ScalperDayProofs | BookedTradesHaveEnded | BookedHasEnded | `Honest` |
| | OneTradeIsOpen, NoEntryFollowsLoss | OneOpenTrade, NoEntryAfterLoss | calm faults, in the property |
| | StoppedDaysStay | StoppedForGood | none |
| | DecisionIsMadeOnce | DecidedOnce | readable rows, in the property |

**OmegaBridge.** LogFollowsVenue is not inductive: the write that closes a row
comes an await after the close, and in between only the memory of a handler
knows.  `IInv` adds what handlers hold: `LegInv` says where a leg stands, in terms
of its row and its venue; `CloserInv` that a trade a flip or a cycle is about to
write closed has been closed (if the closes are `Honest`), and that the rows it
still has to visit were open once, `SessionInv` the same of the session close;
`LogInv` that a row that was ever open names a filled order.  ClosedIsFinal and the
refinement then follow step by step.
`Honest` is `"closeCancel" \notin Faults`: a cancelled close settles a live trade
(`cancelled_close`), so without it the theorems are false, and that is a finding
and not a weakness of the proof.  These theorems, and the one about alerts,
also cover the fault `dbRead`, which the passing runs leave out: with it startup may
adopt a trade twice and a broker may get a second one, but what they say holds.

Four more invariants rest on it.  `AlertInv`: the writer that closes a row is the
one that sends its alert.  `StartupInv`: no leg is under way while the process
starts, a row of startup's own stands for a trade whose leg is over and whose
omega row is not open, and what startup found open was not closed in the log;
`ReadsWork` is needed because a failed read of the log looks like an empty log
(`startupReconciliation.ts:210`), `WritesWork` because an adoption that is not written
is lost until the next restart.  `BookInv`: a counted trade is over, its leg has ended and none of
its rows is or will be open; two cycles (hence `OneCycle`) may count a result twice,
since the write after a trailing stop has no guard.  `CalmInv`: a trade that is sent
or open has its leg or its open row, and a leg beyond the gate has its broker to
itself.  `Calm` is: signals one at a time, and no fault but a close that throws.
With two signals in flight, or a fill that is not recorded, the property is false.

**SignalRouter.** PairIsGuarded looks at trades, and the gates only at rows.
`IInv` ties them for signals handled one at a time: a slot tells where its trade
and row are (`SlotsTell`), one handler is at work (`OneHandler`), an open trade has
its row or its handler (`OpenIsKnown`), known trades agree in direction, or oppose
each other where the flip is set (`KnownAgree`), and the count follows the trades opened since its reset
(`CountFollows`), also across a midnight reset between read and write, after which
the count written is too high and never too low.  `FeedInv` is for the feed: while
a channel is joined no timer is set, so none can tear it down.

**AlphaOmega.** A position is dropped an await or two after the log is written,
and a reason is written over whatever row there is.  `IInv` says that the entry of
a trade runs in order (`EntryInOrder`), that no closer knows of a trade before its
fill is in the log (`EarlyIsUnseen`), and that what is about to be dropped is
closed in the log (`ClearedIsClosed`).  With one fire handled at a time (`OneFire`:
`MaxInFlight = 1`) no second trade claims a book between the gate and the fill
(`OneClaim`).

The streak in the table says nothing of how it came about, so `StreakInv` ties it
to the fires, under `StreakKept`: `ArmedIsEarned` that an armed streak has a run of counted fires in its
direction, unbroken to this day, of which `ArmLength` lie within the ceiling, and
`LengthIsCounted` that the length of an unarmed one is the size of such a run.  A
fire adds one element to the set of fires counted since the first
(`RunIsJoined`), which is all the induction over fires the proof needs.
`PressInv` is the same for the counts of an open trade: what a position holds is
what the fires since its entry add up to (`HeldIsCurrent`, `LiveAreExact`), also
while a fire is half-way through the books.  `OneFire` is needed: two concurrent
fires read the same streak, and the later write loses the earlier (section 6).
`StreakKept` is needed because a broken streak that could not be saved stays armed,
and because a fire of a time AlphaOmega was off counts if the switch cannot be read;
a failed read of the streak does no harm, its run begins anew.  The gate of a book
that cannot read the log takes it for empty, so OneTradePerBook asks for a log that
can be read, and the counts of a position ask that nothing about them fails.

The refinement of PositionLedger holds for any number of concurrent fires, and
whatever else fails.  It rests on two more invariants: `KnownIsFilled`, that what a
row, a position, a handler or a closer knows of was filled, and `LoggedHasEnded`,
that what the log shows closed, or a closer is about to write closed, has ended.
With them every step moves one trade by one thing (`OneMoves`), and by one stage at
most (`StagesFollow`).  `Honest`, here for every fault model, is as in OmegaBridge:
after a cancelled close the log runs ahead of the venue.

**AmdBooks.** `IInv` adds `RecordedAfterFill` (tables know only filled trades),
`EndingHasEnded` (what a cycle is recording has ended) and `MissingHasEnded`:
what a cycle finds missing from a snapshot has ended and stays ended.  The last
is where the order of the two reads matters: the states first, the snapshot
second.  `OnePoll` is that polls do not overlap; its invariant says that a book
that a poll has checked has no row of another poll when the order goes out, unless
its rows could not be counted; those orders the property leaves out, as the code
lets them go (section 6).

That the tables take nothing back needs to know who has a trade in hand, for the
writes of a leg and of a cycle are blind: a late insert of an open trail state would
undo a close.  `HandsInv` says that it cannot come late.  A trade a leg has placed is
in the hands of that leg only (`PlacedOnce`), whose row and trail state are still to
be written (`PlacedIsNew`), while a cycle holds nothing but trades that have a trail
state (`HandledIsKnown`).  This does not depend on `OnePoll`.  The other direction is
`TablesAreTruthful`: TradeTables alone gives NeverLetGo and NothingTakenBack, so
the abstract specification is not too weak for what it is there to say.

**TrailingStop.** What a check writes is computed from what it read two awaits
earlier, so `IInv` says that at `candle`, and for a trail at `quote`, the table
still holds what the cycle read (`CycleIsCurrent`), that a sweep which began before
the fill can only meet a stop that is not armed yet, and that whatever drops a stop
at the end of a close does so after the trade has ended.  `Apart` is that cycles do
not overlap.  `setInterval` does not wait for the cycle before, so this is an
assumption about their length: a cycle that takes longer than thirty seconds meets
the next one, and with two cycles an older reading may lower the stored peak.
`Honest` is as in OmegaBridge.

**Fade, PdlWindow, PeakFade.** What a tick or a cron is about to book has ended
(`TickHasEnded`, `CronHasEnded` and their like), each from its own close or from a
broker that said so; two that race for a mirror insert at most two (`MirrorRace`);
and an order goes out while its broker holds no open row (`EntryHasSlot`), which
needs that a row follows its order before the tick takes another route.  `Honest` is
needed where closes go to OANDA; PeakFade never asks for one.

For the refinement of TradeTables every step is shown to be one of five moves of one
trade, or none (`StepIsOneMove`): it is filled or ends, its row is inserted or
booked, its mirror is written; and each move is a step of TradeTables or changes no
word (`MoveIsATablesStep`): a second booking by the slower of tick and cron, or a
second mirror, says nothing new.  That the mirror waits for the row is
`SyncIsBooked`: whoever looks for a mirror has booked the row, and no step takes a
booked row back (`MoveKeepsBooked`), so it stays true while tick and cron overtake
each other.  Fade and PdlWindow share the moves.

**ScalperDay.** Tick and cron share nothing but tables, and each acts on what it
read some awaits ago.  `TradingInv` says what still holds of it.  `RowsAreFilled`,
`TickHolds` and `CronHolds`: what either holds was filled, and has ended where it is
booked (at OANDA an ended trade stays ended, so this outlives any await), or else it
is late and a close was cancelled: closes are asked for after the last entry only, so
of the six theorems only BookedTradesHaveEnded needs `Honest`.
`MirrorRace`: a tick and a cron that both found no mirror make two at most.
`OneRow`: no two rows are open, because nothing but the tick inserts, and it has
just looked; so one tick books one win and ratchets once, and `RatchetsLeft`
keeps the ratchet for it.  `Timely`: entries lie before 16:00 and the cron after it,
so an order never meets a row the cron has stopped.  `LossStops`: while the tables
answer and the process lives, a loss is booked only on a stopped day or by the tick
on its way to `Stop`, which the entry monitor waits for.  `FillsAreSeen`: without
lost orders or rows, a filled order has its row or its insert.  `DetectorInv` says
of a detection under way that the row has no decision yet, or the one it found, and
that the omega engine is not turned before; it needs a readable row, which is why
DecidedOnce says so.

**What stays with TLC.** Every invariant and action property of the passing runs has
its theorem.  The liveness properties (EndedTradesLeaveTheGate, BridgeOffIsFinal,
DrawdownStops, RosterFollows, FeedComesBack, EndedTradesAreForgotten,
EndedTradesAreBooked of two modules, TimeGateEnds, StopFires, RecordedTradesEnd,
TradesEndTheDay, HardCloseEnds) are only model-checked: they need fairness, hence
ENABLED, which the prover does not have.

## 6. Where code and documents disagree

Shown by a run:

* `cancelled_close`: `closeTradeViaBroker` does not look at
  `orderCancelTransaction` (`src/monitoring/brokerTradeLifecycle.ts:19`); the row
  is closed while the trade is open, which is what the header of
  `src/services/omegaClosePositions.ts` says no longer happens.  AlphaOmega closes
  through the same function (`src/core/alphaOmega/alphaOmegaPositionTracking.ts:151`).
  AMD (`src/services/amd/amdVenueOps.ts:42`), the scalper
  (`src/services/scalper/ScalperEngine.ts:216`), the fade engine
  (`src/services/audusdFade/fadeMultiBrokerExit.ts:95`) and the window
  (`src/services/pdlWindow/pdlWindowMultiBrokerExit.ts:91`) ask OANDA themselves and
  do not look either.  The models of all of them let it happen (`closeCancel`); only
  the run `cancelled_close` shows it, and the other runs leave it out, so that what
  they check is what a working close gives.

Seen while modelling, and let happen by the models (the property that would
forbid it is left out or restricted, as said above):

* **Omega.** "One-trade-at-a-time PER BROKER" (`src/core/signalRouter.ts:782`)
  does not hold for two signals in flight: both gates look for rows of status
  `open`, and a row is `open` only after its fill.  An order that is filled after
  the client's time limit leaves a row BLOCKED and an open trade that only a
  restart adopts, and only for practice (`src/core/omegaTrailV1Execution.ts:228`,
  against the comment at 193).  A failed read of the log at startup reads as no rows,
  and practice trades are adopted a second time (`src/startupReconciliation.ts:210`).
* **Breaker.** Turning `kill_switch` on is documented as "Stop all new trading"
  (`docs/veredix/OPERATIONS_AND_RUNBOOK.md:67`); the running process never reads it again
  (`src/core/circuitBreaker.ts:28`).  Consecutive losses are documented as blocking
  (`docs/veredix/ENGINE_AND_SIGNAL_LOGIC.md:63`); they count only during a cooldown, and a
  cooldown is only entered by a breaker that has tripped already
  (`src/core/signalRouter.ts:589`).  `updatePeakEquity` is called in `main` only; a
  failed read of `bridge_active` stops the bridge with exit 0, from which Railway
  does not restart it.
* **Router.** The daily limit (`SIGNALFORGE_BRIDGE_REFERENCE.md:117`) may be
  exceeded even by signals that come one after the other, because it is compared
  with the roster in memory, which a realtime notice updates later; concurrent
  signals also lose increments (`signalRouter.ts:1213`).  Reloads of the roster that
  answer in the other order leave it stale until the next change
  (`index.ts:489-530`), and a reload that fails removes an active engine.  An order
  that throws although it was filled ends as BLOCKED, and an insert that fails
  leaves an executed trade without a row; so does a process that the heartbeat
  stops between the two.  REBUILD_DIRECTION_FLIP reverses the direction
  (`signalRouter.ts:750-779`) after the gate against opposite positions has looked
  at it (608-614), so with the switch set a signal opens the opposite of a trade
  the pair has, and one that agrees with it is refused.  A failed read of the open
  trades seems to show none (`index.ts:57-61`), and the gates over them let
  everything pass.  `resetIfNeeded` (`index.ts:563`) looks at one arbitrary row,
  and its change may come before the roster channel is joined; the midnight reset
  may be followed by yesterday's count.  The comments on the bar-1 multipliers
  (`signalRouter.ts` around 1030) name sizes that the code does not use: all are 1.
* **Feed.** Signals inserted while no channel is joined are never seen (the
  deduplication and catch-up at `signalRouter.ts:602` is disabled).  Each
  reconnection counts as two attempts, since the removed channel reports CLOSED:
  ten attempts are about five reconnections.
* **Software stops.** `fetchLatestM5Candle` returns the last complete bar
  (`src/connectors/oanda.ts:187`), which for the first minutes ends before the
  fill.  Its excursion activates the trail and sets the peak to a price the trade
  has not seen, and the live price may then close it at once; the comment at
  `src/monitoring/trailingStopMonitor.ts:143` ("avoids stale-candle premature
  closes") covers the exit price only.  The same holds for the floor
  (`src/monitoring/omegaTp2FloorMonitor.ts:113`).
* **AlphaOmega.** A gap of exactly the maximum continues a streak; an armed streak
  that a gap breaks stays armed, with a new length; two concurrent fires lose an
  update of the streak (`alphaOmegaStreakTracker.ts:238`; the run takes fires one
  at a time).  A failed save of the streak is only logged and its crack returned
  (`alphaOmegaStreakTracker.ts:194-214`, 250): the broken streak stays armed, and
  the next opposing fire cracks it again.  A failed read of the open rows lets a
  second trade be opened on a book (`alphaOmegaLaneBCrackEntry.ts:77-86`), and a
  failed read or write of the counts loses the fire
  (`alphaOmegaPositionTracking.ts:64`, 299-306).  A fire whose close fails is not counted; a crash between fill and
  register leaves a trade without pressure and hard stop.
* **AMD.** A failed count opens the once-a-day guard
  (`amdVenueExecutedToday.ts:15`); an order that is filled after its timeout, or
  whose row is not inserted, is followed by a second one; polls that overlap on
  a connecting MetaApi session may both order; a crash between trail mark and log
  row is never repaired for MT5; the later of two overlapping cycles overwrites
  the close reason; the time gate compares hours and wraps at midnight.  A process
  that dies between the decision and `bridge_config` leaves it unapplied for the
  day.
* **Scalper.** 10:32 already counts as the last retry (`ScalperEngine.ts:97`,
  against "Three crons provide retries" at `index.ts:322`).  Iron law 3 (no trade
  after a loss) fails when the write that stops the day fails.  The close of a
  trade that has already ended always throws, so it is retried as
  `force_flat_failed` for ever.  A first read that fails, or a crash, loses the
  16:00 close, which nothing repeats.  Ticks that overlap are left out.  The V7
  comment at `ScalperEngine.ts:195` ("Prevents exit monitor from racing on the same
  trades") does not hold for a tick that read the day before the stop: the 16:00 close
  reads once more which trades are open and writes `force_flat_failed` for each of them,
  also over a result such a tick books in between (`ScalperEngine.ts:244`).  So a row of the scalper may
  take back what it said, and the scalper does not implement TradeTables.
* **Fade.** A trade opened after 22:00 and ended by its broker after midnight is
  never booked: the tick looks at the new date (`fadeMultiBrokerExit.ts:145`,
  against `fadeDayState.ts:39`), and the cron's close of it fails every night.
  Across midnight a broker may hold two trades.  One MT5 client that cannot be
  made ends the tick for the OANDA trades too.
* **Window.** The pause guard and the guard against fade trades are read before
  the order (`pdlWindowPauseGuard.ts:11`, open when it fails;
  `pdlWindowFadeOandaGuard.ts:31`); without an MT5 client the trade is asked for at
  OANDA.
* **Peak fade.** A gate that is off or cannot be read also stops the following of
  open trades, which have no stop loss; overlapping ticks may both see an empty
  seat; an order whose answer or row is lost is followed by a second one; a mirror
  that cannot be inserted is not tried again.

## 7. Plan

Done, in this order: TradeStore, OmegaExecution, TradeMonitor, OmegaBridge and
PositionLedger with their proofs, and SessionClose beside them; CircuitBreaker;
AlphaOmegaStreak and AlphaOmega with their proofs; AmdBooks with its proofs; TrailingStop with its proofs;
SignalRouter with its proofs, and SignalFeed below it; TradingDay, AmdDay, Scalper
and ScalperDay with their proofs; Fade, PdlWindow and PeakFade with their proofs;
TradeTables and the proofs that four engines implement it.

Worth doing next, the most important first:

1. The router's pure filters (risk layers, sizing, correlation, hour gates) as
   operators checked against reference definitions.
2. TradeTables for the one-account engines of SignalRouter, whose slots are used again
   and so name no trade for good, and for the scalper once a booked result stays
   (section 6).

The number of runs is kept at a dozen, and that of the checked properties at
forty, so that the whole project can be checked in one go: a new module takes the
place of a property that a theorem has made redundant.

## 8. What is not modelled

* The filters before a signal is traded, sizing, and everything that only reads:
  `GiveUp`, `Refuse` and the like stand for them.
* Prices outside TrailingStop; peak and trough of an AlphaOmega position.
* TrailingStop is not composed with OmegaBridge, where `RowTrailStop` may happen at
  any time: a superset of when TrailingStop lets it.  The engines of section 2
  share the log and the accounts, but each reads its own rows; what one does to
  the margin of another is left out.
* Five failed reads in a row that end the process are part of `CycleFails`, which
  may end it at the first.
* The AMD tag, direction, news and trail rules, the classifiers of the detector
  and the sweep detector: choices of AmdBooks, AmdDay and PdlWindow.
* The inverse and split routers, disabled or variants of the order step.
* The compare-and-set of the omega engine's count, which gives up after three
  lost races.
* The age-out of an unarmed streak is taken to be switched on; `maxDailyTrades` of
  0 (no limit) is modelled and not in the run.
* In PeakFade the fallback to the first route for a broker that is not configured
  any more (`peakFadeBrokerResolver.ts:21`) is a broker without an answer.  OANDA's
  trade numbers are unique per account only, so in the code such a question may be
  answered with another trade of the same number.
* In AmdBooks, reads of the startup that fail.  Failed inserts and updates are
  modelled (`insert`, `update`) and left to the proofs: a close that is not
  recorded is not recorded later, so EndedTradesAreBooked does not hold with them.
* What sets `omega_direction` (`runAsianDirectionSet`, the detection crons): it may
  change at any time.
* The paper books and shadow and replay tools place no order.
* The retired AMD ratchet (`services/amdFailedRatchetSubmit.ts`,
  `monitoring/amdTpLegReconcile.ts`) has no caller.
* Connectors, formatting, Telegram, the dashboard and the SQL migrations are
  I/O; what a caller can see of them is in the faults, the switches (`Dashboard`,
  `Switch`, `SetDirection`, `Operator`) and the unique index.
* Two thirds of the repository's lines are the dashboard and backtest scripts that
  run by hand and share no state with the bridge; most of the rest of `src/` that
  no definition names is computation over candles, formatting and connectors.
