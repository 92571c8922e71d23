----------------------------- MODULE AlphaOmega -----------------------------
(***************************************************************************)
(* AlphaOmega, the second book of the omega engine: every omega signal is  *)
(* a fire.  A fire moves the streak, presses on the open positions, and    *)
(* may open a new one on each of the books when it cracks the streak.      *)
(* Handlers of fires, the hard-stop monitor and the trade monitor share    *)
(* three tables: the streak, alpha_omega_position_state and the trade log. *)
(***************************************************************************)
EXTENDS AlphaOmegaStreak, FiniteSets

CONSTANTS MaxFires,       \* bound: the fires of a run
          Gaps,           \* minutes that may pass between fires
          Books,          \* OMEGA_AO_BROKER_IDS
          OpposingCount,  \* OPPOSING_FIRE_COUNT_THRESHOLD
          ShareMinFires,  \* OPPOSING_SHARE_MIN_FIRES
          MaxInFlight,    \* fires handled at the same time
          FaultSets       \* the fault models to choose from

FaultKinds == { "closeError",   \* a close fails, executed or not
                "closeCancel",  \* OANDA cancels a close, and the code takes it for done
                "tagWrite",     \* the log of a close cannot be written
                "read",         \* a table cannot be read: it looks empty, a trade
                                \* looks open, and the switch looks on
                "write",        \* a change of the streak or of a position is not made
                "crash",        \* the process dies
                "switch" }      \* alpha_omega_enabled is turned off and on

ASSUME AlphaOmegaAssumption ==
  /\ MaxFires \in Nat /\ Gaps \subseteq Nat
  /\ OpposingCount \in Nat \ {0} /\ ShareMinFires \in Nat \ {0}
  /\ MaxInFlight \in Nat \ {0}
  /\ FaultSets \subseteq SUBSET FaultKinds

Fires  == 1..MaxFires
Trades == [fire : Fires, book : Books]

(* Who closes positions or drops their state. *)
HardStopMonitor == MaxFires + 1
TradeMonitor    == MaxFires + 2
Monitors == {HardStopMonitor, TradeMonitor}
Closers  == Fires \cup Monitors

NoPosition == [opposing |-> 0, total |-> -1]

VARIABLES
  faults,     \* the fault model of this behaviour
  enabled,    \* bridge_config alpha_omega_enabled
  streak,     \* alpha_omega_streak_state
  position,   \* alpha_omega_position_state: the counts of a trade, or NoPosition
  log,        \* bridge_trade_log of a trade: "none", "pending", "blocked", "open",
              \* "closed" or "tagged" (closed with a reason of AlphaOmega)
  venue,      \* the trade at its broker: "none", "open", "closed"
  pc,         \* where the handler of a fire is
  fire,       \* the direction and time of a fire
  fate,       \* what the streak made of a fire: "none", "counted", "ignored"
  read,       \* the streak a handler has read
  crack,      \* the crack a fire made
  todo,       \* positions a handler has read and not looked at yet
  other,      \* closedForOtherReason
  step,       \* where the entry of a trade is
  tagging,    \* trades a closer has closed and not written to the log
  clearing    \* trades whose position a closer is about to drop

vars == <<faults, enabled, streak, position, log, venue, pc, fire, fate, read, crack,
          todo, other, step, tagging, clearing>>

setup   == <<faults, enabled>>
tables  == <<setup, streak, position, log, venue>>
handler == <<pc, fire, fate, read, crack, todo, other, step>>
closers == <<tagging, clearing>>

Streaks == [dir : Directions \cup {"none"}, length : Nat, start : Nat, last : Nat,
            armed : Directions \cup {"none"}]
Cracks  == [broken : Directions \cup {"none"}, enter : Directions \cup {"none"},
            length : Nat, speed : Int]
Counts  == [opposing : Nat, total : Nat]
Held    == [trade : Trades, opposing : Nat, total : Nat]

(* Type invariant of the streak, the trades and the handlers of fires.     *)
TypeOK ==
  /\ faults \in FaultSets /\ enabled \in BOOLEAN
  /\ streak \in Streaks
  /\ position \in [Trades -> Counts \cup {NoPosition}]
  /\ log \in [Trades -> {"none", "pending", "blocked", "open", "closed", "tagged"}]
  /\ venue \in [Trades -> {"none", "open", "closed"}]
  /\ pc \in [Fires -> {"new", "observe", "save", "load", "track", "enter", "done"}]
  /\ fire \in [Fires -> [dir : Directions \cup {"none"}, at : Nat]]
  /\ fate \in [Fires -> {"none", "counted", "ignored"}]
  /\ read \in [Fires -> Streaks] /\ crack \in [Fires -> Cracks]
  /\ todo \in [Fires -> SUBSET Held]
  /\ other \in [Fires -> BOOLEAN]
  /\ step \in [Trades -> {"idle", "gate", "order", "fill", "register", "done"}]
  /\ tagging \in [Closers -> SUBSET Trades]
  /\ clearing \in [Closers -> SUBSET Trades]

Init ==
  /\ faults \in FaultSets /\ enabled = TRUE
  /\ streak = NoStreak
  /\ position = [t \in Trades |-> NoPosition]
  /\ log = [t \in Trades |-> "none"]
  /\ venue = [t \in Trades |-> "none"]
  /\ pc = [f \in Fires |-> "new"]
  /\ fire = [f \in Fires |-> [dir |-> "none", at |-> 0]]
  /\ fate = [f \in Fires |-> "none"]
  /\ read = [f \in Fires |-> NoStreak]
  /\ crack = [f \in Fires |-> NoCrack]
  /\ todo = [f \in Fires |-> {}]
  /\ other = [f \in Fires |-> FALSE]
  /\ step = [t \in Trades |-> "idle"]
  /\ tagging = [k \in Closers |-> {}]
  /\ clearing = [k \in Closers |-> {}]

-----------------------------------------------------------------------------
(* Names with Bug are mistakes a change to the code could make; no         *)
(* specification uses them: the properties are tested against them.        *)

(* Fires come in the order of their numbers; a handler that has been given *)
(* one looks at the switch before anything else.                           *)
InFlight == {f \in Fires : pc[f] \notin {"new", "done"}}

Fire(f) ==
  /\ pc[f] = "new"
  /\ \A g \in 1..f-1 : pc[g] # "new"
  /\ Cardinality(InFlight) < MaxInFlight
  /\ \E dir \in Directions, gap \in Gaps :
       fire' = [fire EXCEPT ![f] = [dir |-> dir,
                  at |-> gap + IF f = 1 THEN 0 ELSE fire[f-1].at]]
  /\ pc' = [pc EXCEPT ![f] = "observe"]
  /\ UNCHANGED <<tables, fate, read, crack, todo, other, step, closers>>

(* With AlphaOmega switched off the streak is put to rest, unless it looks *)
(* at rest or the write fails, and the fire does not count.                *)
IdleBugKeepsStreak(f) ==
  /\ pc[f] = "observe" /\ ~enabled
  /\ fate' = [fate EXCEPT ![f] = "ignored"]
  /\ pc' = [pc EXCEPT ![f] = "done"]
  /\ UNCHANGED <<tables, fire, read, crack, todo, other, step, closers>>

Idle(f) ==
  /\ pc[f] = "observe" /\ ~enabled
  /\ \/ streak' = NoStreak
     \/ faults \cap {"read", "write"} # {} /\ UNCHANGED streak
  /\ fate' = [fate EXCEPT ![f] = "ignored"]
  /\ pc' = [pc EXCEPT ![f] = "done"]
  /\ UNCHANGED <<setup, position, log, venue, fire, read, crack, todo, other, step, closers>>

(* recordFireAndDetectCrack: loadStreakState, the streak after the fire,   *)
(* saveStreakState.  The crack is returned whether the save got through or *)
(* not.                                                                    *)
ReadStreak(f) ==
  /\ pc[f] = "observe" /\ (enabled \/ "read" \in faults)
  /\ \/ read' = [read EXCEPT ![f] = streak]
     \/ "read" \in faults /\ read' = [read EXCEPT ![f] = NoStreak]
  /\ pc' = [pc EXCEPT ![f] = "save"]
  /\ UNCHANGED <<tables, fire, fate, crack, todo, other, step, closers>>

SaveStreak(f) ==
  /\ pc[f] = "save"
  /\ \/ streak' = AfterFire(read[f], fire[f].dir, fire[f].at)
     \/ "write" \in faults /\ UNCHANGED streak
  /\ crack' = [crack EXCEPT ![f] = Crack(read[f], fire[f].dir)]
  /\ fate' = [fate EXCEPT ![f] = "counted"]
  /\ read' = [read EXCEPT ![f] = NoStreak]
  /\ pc' = [pc EXCEPT ![f] = "load"]
  /\ UNCHANGED <<setup, position, log, venue, fire, todo, other, step, closers>>

(* filterOpenAlphaOmegaPositions: a position whose trade is not open in    *)
(* the log is dropped before anyone presses on it; those whose trade       *)
(* cannot be looked up are kept, and those whose delete fails are left.    *)
Stored  == {t \in Trades : position[t] # NoPosition}
OrphansBugNone == {}
Orphans == {t \in Stored : log[t] # "open"}
Dropped(left) == [t \in Trades |-> IF t \in Orphans \ left THEN NoPosition ELSE position[t]]
KeptBy == IF "read" \in faults THEN SUBSET Orphans ELSE {{}}
LeftBy == IF "write" \in faults THEN SUBSET Orphans ELSE {{}}

(* loadOpenLaneBPositions; if it fails there seem to be no positions.      *)
Loaded(S) == {[trade |-> t, opposing |-> position[t].opposing, total |-> position[t].total] : t \in S}

LoadPositions(f) ==
  /\ pc[f] = "load"
  /\ \/ \E kept \in KeptBy, left \in LeftBy :
          /\ position' = Dropped(kept \cup left)
          /\ todo' = [todo EXCEPT ![f] = Loaded((Stored \ Orphans) \cup kept)]
     \/ "read" \in faults /\ todo' = [todo EXCEPT ![f] = {}] /\ UNCHANGED position
  /\ pc' = [pc EXCEPT ![f] = "track"]
  /\ UNCHANGED <<setup, streak, log, venue, fire, fate, read, crack, other, step, closers>>

-----------------------------------------------------------------------------
(* trackFireAgainstOpenPositions.  The counts are those that were read.    *)
Busy(k) == tagging[k] # {} \/ clearing[k] # {}

Opposes(f, h)  == fire[f].dir # fire[h.trade.fire].dir
Opposing(f, h) == IF Opposes(f, h) THEN h.opposing + 1 ELSE h.opposing

PressedBugOneLate(f, h) ==
  \/ Opposing(f, h) > OpposingCount
  \/ h.total + 1 >= ShareMinFires /\ Opposing(f, h) = h.total + 1

Pressed(f, h) ==
  \/ Opposing(f, h) >= OpposingCount
  \/ h.total + 1 >= ShareMinFires /\ Opposing(f, h) = h.total + 1

Backstop(f, h) == crack[f].broken = fire[h.trade.fire].dir

(* closeTradeViaBroker, then the log, then the position.  A close of a     *)
(* trade that is no longer open fails; one that fails may have closed it.  *)
CloseAtBugTagsAnyway(k, t) ==
  /\ venue[t] # "none"
  /\ venue' \in {[venue EXCEPT ![t] = "closed"]} \cup (IF "closeError" \in faults THEN {venue} ELSE {})
  /\ tagging' = [tagging EXCEPT ![k] = {t}]

CloseAt(k, t) ==
  \/ /\ venue[t] = "open"
     /\ \/ venue' = [venue EXCEPT ![t] = "closed"]
        \/ "closeCancel" \in faults /\ UNCHANGED venue
     /\ tagging' = [tagging EXCEPT ![k] = {t}]
  \/ /\ venue[t] = "closed" \/ "closeError" \in faults
     /\ venue' \in {venue, [venue EXCEPT ![t] = "closed"]}
     /\ UNCHANGED tagging

Ready(f, h) == pc[f] = "track" /\ h \in todo[f] /\ ~Busy(f)

Press(f, h) ==
  /\ Ready(f, h) /\ Pressed(f, h)
  /\ todo' = [todo EXCEPT ![f] = @ \ {h}]
  /\ other' = [other EXCEPT ![f] = TRUE]
  /\ CloseAt(f, h.trade)
  /\ UNCHANGED <<setup, streak, position, log, pc, fire, fate, read, crack, step, clearing>>

(* The fall-back: the direction of the position confirmed itself and       *)
(* cracked.                                                                *)
CloseOnCrack(f, h) ==
  /\ Ready(f, h) /\ ~Pressed(f, h) /\ Backstop(f, h)
  /\ todo' = [todo EXCEPT ![f] = @ \ {h}]
  /\ CloseAt(f, h.trade)
  /\ UNCHANGED <<setup, streak, position, log, pc, fire, fate, read, crack, other, step, clearing>>

Counted(f, h) == [opposing |-> Opposing(f, h), total |-> h.total + 1]

CountFire(f, h) ==
  /\ Ready(f, h) /\ ~Pressed(f, h) /\ ~Backstop(f, h)
  /\ todo' = [todo EXCEPT ![f] = @ \ {h}]
  /\ \/ position' = IF position[h.trade] = NoPosition THEN position
                    ELSE [position EXCEPT ![h.trade] = Counted(f, h)]
     \/ "write" \in faults /\ UNCHANGED position
  /\ UNCHANGED <<setup, streak, log, venue, pc, fire, fate, read, crack, other, step, closers>>

(* persistAlphaOmegaClosedTradeLog finds the row of the trade whatever its *)
(* status; a row with a reason of AlphaOmega is left as it is.  Without    *)
(* the log the position stays.                                             *)
TagBugClearsAnyway(k, t) ==
  /\ t \in tagging[k]
  /\ tagging' = [tagging EXCEPT ![k] = {}]
  /\ clearing' = [clearing EXCEPT ![k] = {t}]
  /\ \/ log' = [log EXCEPT ![t] = "tagged"]
     \/ "tagWrite" \in faults /\ UNCHANGED log
  /\ UNCHANGED <<setup, streak, position, venue, handler>>

Tag(k, t) ==
  /\ t \in tagging[k]
  /\ tagging' = [tagging EXCEPT ![k] = {}]
  /\ \/ /\ log' = [log EXCEPT ![t] = "tagged"]
        /\ clearing' = [clearing EXCEPT ![k] = {t}]
     \/ /\ "tagWrite" \in faults
        /\ UNCHANGED <<log, clearing>>
  /\ UNCHANGED <<setup, streak, position, venue, handler>>

Clear(k, t) ==
  /\ t \in clearing[k]
  /\ clearing' = [clearing EXCEPT ![k] = {}]
  /\ \/ position' = [position EXCEPT ![t] = NoPosition]
     \/ "write" \in faults /\ UNCHANGED position
  /\ UNCHANGED <<setup, streak, log, venue, handler, tagging>>

-----------------------------------------------------------------------------
(* The entry: a crack that may enter opens one trade on every book, all    *)
(* books at the same time.  The switches, day gates and the router's own   *)
(* gates may still refuse any of them.                                     *)
Tracked(f) == pc[f] = "track" /\ todo[f] = {} /\ ~Busy(f)
MayEnter(f) == ~other[f] /\ Enters(crack[f], fire[f].dir)
TradesOf(f) == {t \in Trades : t.fire = f}

Return(f) ==
  /\ pc' = [pc EXCEPT ![f] = "done"]
  /\ crack' = [crack EXCEPT ![f] = NoCrack]
  /\ other' = [other EXCEPT ![f] = FALSE]
  /\ UNCHANGED <<tables, fire, fate, read, todo, step, closers>>

NoEntry(f) == Tracked(f) /\ ~MayEnter(f) /\ Return(f)

Enter(f) ==
  /\ Tracked(f) /\ MayEnter(f)
  /\ pc' = [pc EXCEPT ![f] = "enter"]
  /\ step' = [t \in Trades |-> IF t.fire = f THEN "gate" ELSE step[t]]
  /\ UNCHANGED <<tables, fire, fate, read, crack, todo, other, closers>>

Entered(f) ==
  /\ pc[f] = "enter" /\ \A t \in TradesOf(f) : step[t] = "done"
  /\ Return(f)

Move(t, to) == step' = [step EXCEPT ![t] = to]

(* hasOpenOmegaOnBroker looks at the log, where nothing seems to be open   *)
(* if it cannot be read; the row of the new trade is written before its    *)
(* order.                                                                  *)
OpenOn(book) == \E u \in Trades : u.book = book /\ log[u] = "open"

GateBugLooksAtPositions(t) ==
  /\ step[t] = "gate"
  /\ ~ \E u \in Stored : u.book = t.book
  /\ log' = [log EXCEPT ![t] = "pending"]
  /\ Move(t, "order")
  /\ UNCHANGED <<setup, streak, position, venue, pc, fire, fate, read, crack, todo, other, closers>>

Gate(t) ==
  /\ step[t] = "gate"
  /\ ~OpenOn(t.book) \/ "read" \in faults
  /\ log' = [log EXCEPT ![t] = "pending"]
  /\ Move(t, "order")
  /\ UNCHANGED <<setup, streak, position, venue, pc, fire, fate, read, crack, todo, other, closers>>

(* A trade that is open already, the day gate, the toxic skip and whatever *)
(* blocks the router: nothing is placed on this book.                      *)
Refuse(t) ==
  /\ step[t] = "gate"
  /\ Move(t, "done")
  /\ UNCHANGED <<tables, pc, fire, fate, read, crack, todo, other, closers>>

Order(t) ==
  /\ step[t] = "order"
  /\ \/ /\ venue' = [venue EXCEPT ![t] = "open"]
        /\ Move(t, "fill")
        /\ UNCHANGED log
     \/ /\ log' = [log EXCEPT ![t] = "blocked"]
        /\ Move(t, "done")
        /\ UNCHANGED venue
  /\ UNCHANGED <<setup, streak, position, pc, fire, fate, read, crack, todo, other, closers>>

Fill(t) ==
  /\ step[t] = "fill"
  /\ log' = [log EXCEPT ![t] = "open"]
  /\ Move(t, "register")
  /\ UNCHANGED <<setup, streak, position, venue, pc, fire, fate, read, crack, todo, other, closers>>

(* registerFillIfPresent reads the row of the trade again.                 *)
Register(t) ==
  /\ step[t] = "register"
  /\ \/ position' = [position EXCEPT ![t] = [opposing |-> 0, total |-> 0]]
     \/ faults \cap {"read", "write"} # {} /\ UNCHANGED position
  /\ Move(t, "done")
  /\ UNCHANGED <<setup, streak, log, venue, pc, fire, fate, read, crack, todo, other, closers>>

-----------------------------------------------------------------------------
(* runAlphaOmegaHardStopMonitor drops orphans and closes what the price    *)
(* has gone against, given back or left dead.                              *)
DropOrphans ==
  /\ Orphans # {}
  /\ \E kept \in KeptBy, left \in LeftBy : position' = Dropped(kept \cup left)
  /\ UNCHANGED <<setup, streak, log, venue, handler, closers>>

HardStop(t) ==
  /\ t \in Stored /\ (t \notin Orphans \/ "read" \in faults)
  /\ ~Busy(HardStopMonitor)
  /\ CloseAt(HardStopMonitor, t)
  /\ UNCHANGED <<setup, streak, position, log, handler, clearing>>

(* The venue ends a trade by its own orders, and the trade monitor closes  *)
(* the row, if it is still open, and drops the position.                   *)
VenueExit(t) ==
  /\ venue[t] = "open"
  /\ venue' = [venue EXCEPT ![t] = "closed"]
  /\ UNCHANGED <<setup, streak, position, log, handler, closers>>

Finalize(t) ==
  /\ venue[t] = "closed" /\ log[t] = "open"
  /\ ~Busy(TradeMonitor)
  /\ log' = [log EXCEPT ![t] = "closed"]
  /\ clearing' = [clearing EXCEPT ![TradeMonitor] = {t}]
  /\ UNCHANGED <<setup, streak, position, venue, handler, tagging>>

Switch ==
  /\ "switch" \in faults
  /\ enabled' = ~enabled
  /\ UNCHANGED <<faults, streak, position, log, venue, handler, closers>>

(* The process dies and comes back: what was in memory is gone, and so are *)
(* the fires that were being handled.                                      *)
Crash ==
  /\ "crash" \in faults
  /\ InFlight # {} \/ \E k \in Closers : Busy(k)
  /\ pc' = [f \in Fires |-> IF pc[f] = "new" THEN "new" ELSE "done"]
  /\ step' = [t \in Trades |-> IF step[t] = "idle" THEN "idle" ELSE "done"]
  /\ read' = [f \in Fires |-> NoStreak]
  /\ crack' = [f \in Fires |-> NoCrack]
  /\ todo' = [f \in Fires |-> {}]
  /\ other' = [f \in Fires |-> FALSE]
  /\ tagging' = [k \in Closers |-> {}]
  /\ clearing' = [k \in Closers |-> {}]
  /\ UNCHANGED <<tables, fire, fate>>

-----------------------------------------------------------------------------
Track(f) ==
  \/ \E h \in todo[f] : Press(f, h) \/ CloseOnCrack(f, h) \/ CountFire(f, h)
  \/ NoEntry(f) \/ Enter(f) \/ Entered(f)

Place(t) == Gate(t) \/ Refuse(t) \/ Order(t) \/ Fill(t) \/ Register(t)

Next ==
  \/ \E f \in Fires : Fire(f) \/ Idle(f) \/ ReadStreak(f) \/ SaveStreak(f) \/ LoadPositions(f) \/ Track(f)
  \/ \E t \in Trades : Place(t) \/ HardStop(t) \/ VenueExit(t) \/ Finalize(t)
  \/ \E k \in Closers, t \in Trades : Tag(k, t) \/ Clear(k, t)
  \/ DropOrphans \/ Switch \/ Crash

Spec == Init /\ [][Next]_vars

(* Both monitors run for ever, and now and then a pass of the first gets   *)
(* all its reads and deletes through.                                      *)
Fairness ==
  /\ WF_vars(DropOrphans /\ position' = Dropped({}))
  /\ \A t \in Trades : WF_vars(Finalize(t))
  /\ \A k \in Monitors, t \in Trades : WF_vars(Tag(k, t)) /\ WF_vars(Clear(k, t))

FairSpec == Spec /\ Fairness
-----------------------------------------------------------------------------
(* A fire cracks a streak that was earned: enough fires in one direction,  *)
(* fast enough and with no gap, not one fire against them before this one, *)
(* and none that came while AlphaOmega was switched off: while the streak  *)
(* is saved, and unless a failed read hides that AlphaOmega is off.  A     *)
(* failed read of the streak alone only makes its run begin anew.          *)
StreakKept == "write" \notin faults /\ ~({"read", "switch"} \subseteq faults)

Earned(i, f) ==
  LET run == {g \in i..f-1 : fate[g] = "counted"}
  IN  /\ \A g \in run : fire[g].dir = crack[f].broken
      /\ \A g \in i..f-1 : fate[g] # "ignored"
      /\ \E j \in run :
           /\ Cardinality({g \in run : g <= j}) = ArmLength
           /\ fire[j].at - fire[i].at <= SpeedCeiling

CracksAreEarned ==
  StreakKept => \A f \in Fires : crack[f] # NoCrack => \E i \in 1..f-1 : fate[i] = "counted" /\ Earned(i, f)

(* A book holds one trade at a time: a close that failed, or one the log   *)
(* does not know of, keeps the next crack from entering, as long as the    *)
(* log can be read.                                                        *)
OneTradePerBook ==
  "read" \notin faults => \A t, u \in Trades :
    /\ t.book = u.book
    /\ venue[t] = "open" /\ log[t] = "open"
    /\ venue[u] = "open" /\ log[u] = "open"
    => t = u

(* The fires that press on a position, and all those it counts.            *)
Against(t) == {f \in Fires : f > t.fire /\ fate[f] = "counted" /\ fire[f].dir # fire[t.fire].dir}
Since(t)   == {f \in Fires : f > t.fire /\ fate[f] = "counted"}

(* Between fires the counts of an open trade are those of the fires since  *)
(* its entry, and no open trade is left that they should have closed,      *)
(* unless a close, a read or a write of the counts failed, a close was     *)
(* cancelled or the process died.                                          *)
PressureIsExact ==
  InFlight = {} /\ faults \cap {"closeError", "closeCancel", "crash", "read", "write"} = {} =>
    \A t \in Stored : venue[t] = "open" /\ log[t] = "open" =>
      LET against == Cardinality(Against(t))
          since   == Cardinality(Since(t))
      IN  /\ position[t] = [opposing |-> against, total |-> since]
          /\ against < OpposingCount
          /\ since >= ShareMinFires => against < since

(* Persist the close first, only then drop the position: a position is     *)
(* never dropped while the log shows its trade open.                       *)
PositionOutlivesRow ==
  [][\A t \in Trades : position[t] # NoPosition /\ position'[t] = NoPosition
                           => log[t] # "open"]_vars

(* The reason AlphaOmega gave for a close survives the trade monitor.      *)
ReasonStays == [][\A t \in Trades : log[t] = "tagged" => log'[t] = "tagged"]_vars

(* Liveness: a trade that ended, by whomever, is forgotten, although the   *)
(* process dies between the close, the log and the position.               *)
EndedTradesAreForgotten ==
  \A t \in Trades : venue[t] = "closed" /\ position[t] # NoPosition ~> position[t] = NoPosition

-----------------------------------------------------------------------------
(* What a trade's row and its venue amount to, for PositionLedger. *)
StageOf(t) ==
  CASE venue[t] = "open" -> "live"
    [] venue[t] = "closed" -> IF log[t] \in {"closed", "tagged"} THEN "settled" ELSE "ended"
    [] venue[t] = "none"   -> IF log[t] = "none" THEN "absent" ELSE "intended"

Ledger == INSTANCE PositionLedger WITH Positions <- Trades,
                                       stage <- [t \in Trades |-> StageOf(t)]

(* Whoever enters, closes, finalises, fails or dies, each trade goes       *)
(* through the stages of the ledger in order and none twice, and a row     *)
(* that shows a close belongs to a trade that has ended; unless a close    *)
(* was cancelled.                                                          *)
ImplementsLedger == Ledger!Spec
=============================================================================
