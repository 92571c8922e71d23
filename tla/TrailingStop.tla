---------------------------- MODULE TrailingStop ----------------------------
(***************************************************************************)
(* The software stops of one trade: the trailing stop of a trail leg (and  *)
(* of a single-leg trade), or the floor of a second-target leg.  Both keep *)
(* the best price of the trade in a table of their own, which the thirty-  *)
(* second monitor reads, raises and acts upon, an await at a time, and     *)
(* which a sweep at the start of every cycle clears of trades that are no  *)
(* longer open.                                                            *)
(*                                                                         *)
(* Prices are distances from the fill in the favour of the trade.          *)
(***************************************************************************)
EXTENDS Integers

CONSTANTS Fall, Rise,     \* bounds: how far the price moves against and for the trade
          SlDistance, TrailDistance, Activation,   \* columns of trail_stop_state
          Floor,          \* floor_pips of omega_tp2_floor_state
          Cycles,         \* bound: runs of the monitor that may overlap
          Faults          \* which of FaultKinds may happen

FaultKinds == { "read",     \* the log, a table or a list of open trades cannot be read
                "quote",    \* no candle, or no live price
                "write",    \* an insert, update or delete fails unseen
                "close",    \* a close request fails, executed or not
                "cancel",   \* OANDA cancels a close, and the code takes it for done
                "crash" }   \* the process dies

ASSUME StopAssumption ==
  /\ Fall \in Nat /\ Rise \in Nat
  /\ SlDistance \in Nat \ {0} /\ TrailDistance \in Nat \ {0}
  /\ Activation \in Nat /\ Floor \in Nat
  /\ Faults \subseteq FaultKinds

Prices == -Fall..Rise
Stops  == [peak : 0..Rise, on : BOOLEAN]
Fresh  == [peak |-> 0, on |-> FALSE]
NoStop == [peak |-> -Fall - 1, on |-> FALSE]   \* below every price

VARIABLES
  kind,     \* "trail" or "tp2"
  up,       \* whether the process is up
  mid,      \* the live price
  bar,      \* the best price of the M5 bar under way
  candle,   \* the best price of the last complete M5 bar
  live,     \* the trade at its venue: "none", "open", "closed"
  row,      \* its row in bridge_trade_log: "none", "open", "closed"
  entry,    \* whether the router has still to register the stop
  stop,     \* its row in trail_stop_state or omega_tp2_floor_state, or NoStop
  at,       \* where each cycle stands
  held,     \* the stop as a cycle read it
  best      \* the candle a cycle read

vars == <<kind, up, mid, bar, candle, live, row, entry, stop, at, held, best>>

market == <<mid, bar, candle>>
cycle  == <<at, held, best>>

CyclePcs == {"idle", "sweep", "delete", "log", "index", "gone", "finalize", "ensure",
             "load", "candle", "quote", "close", "persist", "forget"}

(* Type invariant: a recorded peak is never below the fill.                *)
TypeOK ==
  /\ kind \in {"trail", "tp2"}
  /\ up \in BOOLEAN /\ entry \in BOOLEAN
  /\ mid \in Prices /\ bar \in Prices /\ candle \in Prices
  /\ live \in {"none", "open", "closed"}
  /\ row \in {"none", "open", "closed"}
  /\ stop \in Stops \cup {NoStop}
  /\ at \in [Cycles -> CyclePcs]
  /\ held \in [Cycles -> Stops \cup {NoStop}]
  /\ best \in [Cycles -> Prices]

Init ==
  /\ kind \in {"trail", "tp2"}
  /\ up = TRUE /\ entry = FALSE
  /\ mid = 0 /\ bar \in 0..Rise /\ candle \in Prices
  /\ live = "none" /\ row = "none" /\ stop = NoStop
  /\ at = [c \in Cycles |-> "idle"]
  /\ held = [c \in Cycles |-> NoStop]
  /\ best = [c \in Cycles |-> 0]

-----------------------------------------------------------------------------
(* The market: the price may jump, and a bar ends at some time. *)
Move(price) ==
  /\ mid' = price
  /\ bar' = IF price > bar THEN price ELSE bar
  /\ UNCHANGED <<kind, up, candle, live, row, entry, stop, cycle>>

BarEnds ==
  /\ candle' = bar
  /\ bar' = mid
  /\ UNCHANGED <<kind, up, mid, live, row, entry, stop, cycle>>

(* The venue closes the trade: its own stop or target, a flip, max hold.   *)
VenueExit ==
  /\ live = "open" /\ live' = "closed"
  /\ UNCHANGED <<kind, up, market, row, entry, stop, cycle>>

(* The row of a trade that has ended, closed by the flip or by startup.    *)
ClosedElsewhere ==
  /\ live = "closed" /\ row = "open" /\ row' = "closed"
  /\ UNCHANGED <<kind, up, market, live, entry, stop, cycle>>

-----------------------------------------------------------------------------
(* Names with Bug are mistakes a change to the code could make; no         *)
(* specification uses them: the properties are tested against them.        *)

(* The router: the fill update opens the row, and registerTrailState adds  *)
(* the stop of a trail leg.                                                *)
Fill ==
  /\ up /\ live = "none" /\ mid = 0
  /\ live' = "open" /\ row' = "open"
  /\ entry' = (kind = "trail")
  /\ UNCHANGED <<kind, up, market, stop, cycle>>

(* The table holds one row per trade: a second insert fails. *)
Insert == stop' = IF stop = NoStop THEN Fresh ELSE stop

Register ==
  /\ up /\ entry
  /\ entry' = FALSE
  /\ Insert \/ ("write" \in Faults /\ UNCHANGED stop)
  /\ UNCHANGED <<kind, up, market, live, row, cycle>>

-----------------------------------------------------------------------------
Goto(c, label) == at' = [at EXCEPT ![c] = label]
At(c, label)   == up /\ at[c] = label

(* The sweep: the open rows, then the stops, and then the deletes.  If a   *)
(* read fails nothing is swept.                                            *)
CycleStart(c) ==
  /\ At(c, "idle")
  /\ \/ row # "open" /\ Goto(c, "sweep")
     \/ (row = "open" \/ "read" \in Faults) /\ Goto(c, "log")
  /\ held' = [held EXCEPT ![c] = NoStop]
  /\ best' = [best EXCEPT ![c] = 0]
  /\ UNCHANGED <<kind, up, market, live, row, entry, stop>>

Sweep(c) ==
  /\ At(c, "sweep")
  /\ \/ stop # NoStop /\ Goto(c, "delete")
     \/ (stop = NoStop \/ "read" \in Faults) /\ Goto(c, "log")
  /\ UNCHANGED <<kind, up, market, live, row, entry, stop, held, best>>

DropStop == stop' = NoStop \/ ("write" \in Faults /\ UNCHANGED stop)

SweepDelete(c) ==
  /\ At(c, "delete")
  /\ DropStop
  /\ Goto(c, "log")
  /\ UNCHANGED <<kind, up, market, live, row, entry, held, best>>

ReadLog(c) ==
  /\ At(c, "log")
  /\ \/ row = "open" /\ Goto(c, "index")
     \/ (row # "open" \/ "read" \in Faults) /\ Goto(c, "idle")
  /\ UNCHANGED <<kind, up, market, live, row, entry, stop, held, best>>

(* A broker that does not answer is taken to hold nothing. *)
ReadIndex(c) ==
  /\ At(c, "index")
  /\ \/ live = "open" /\ Goto(c, "ensure")
     \/ (live = "closed" \/ "read" \in Faults) /\ Goto(c, "gone")
  /\ UNCHANGED <<kind, up, market, live, row, entry, stop, held, best>>

(* The trade is not in the index: younger than a minute, or the broker     *)
(* knows of no close, or it has ended; the floor of a tp2 leg goes first.  *)
GoneBugUnconfirmed(c) ==
  /\ At(c, "gone")
  /\ IF kind = "tp2" THEN DropStop ELSE UNCHANGED stop
  /\ IF live = "closed" THEN Goto(c, "finalize") ELSE Goto(c, "idle")
  /\ UNCHANGED <<kind, up, market, live, row, entry, held, best>>

Gone(c) ==
  /\ At(c, "gone")
  /\ \/ /\ live = "closed"
        /\ IF kind = "tp2" THEN DropStop ELSE UNCHANGED stop
        /\ Goto(c, "finalize")
     \/ UNCHANGED stop /\ Goto(c, "idle")
  /\ UNCHANGED <<kind, up, market, live, row, entry, held, best>>

CloseRow == row' = "closed" \/ ("write" \in Faults /\ UNCHANGED row)

Finalize(c) ==
  /\ At(c, "finalize")
  /\ CloseRow
  /\ Goto(c, "idle")
  /\ UNCHANGED <<kind, up, market, live, entry, stop, held, best>>

(* ensureTrailStopState, ensureTp2FloorState: a stop that is there stays.  *)
EnsureBugNone(c) ==
  /\ At(c, "ensure")
  /\ Goto(c, "load")
  /\ UNCHANGED <<kind, up, market, live, row, entry, stop, held, best>>

Ensure(c) ==
  /\ At(c, "ensure")
  /\ Insert \/ ({"read", "write"} \cap Faults # {} /\ UNCHANGED stop)
  /\ Goto(c, "load")
  /\ UNCHANGED <<kind, up, market, live, row, entry, held, best>>

Load(c) ==
  /\ At(c, "load")
  /\ \/ stop # NoStop /\ held' = [held EXCEPT ![c] = stop] /\ Goto(c, "candle")
     \/ (stop = NoStop \/ "read" \in Faults) /\ Goto(c, "idle") /\ UNCHANGED held
  /\ UNCHANGED <<kind, up, market, live, row, entry, stop, best>>

(* An UPDATE of a stop that is not there changes nothing. *)
Raise(new) ==
  \/ stop' = IF stop = NoStop THEN NoStop ELSE new
  \/ "write" \in Faults /\ UNCHANGED stop

(* No candle ends the check.  The floor records the peak of the candle     *)
(* before it asks for the live price.                                      *)
NoCandle(c) ==
  /\ At(c, "candle") /\ "quote" \in Faults
  /\ Goto(c, "idle")
  /\ UNCHANGED <<kind, up, market, live, row, entry, stop, held, best>>

ReadCandle(c) ==
  /\ At(c, "candle")
  /\ best' = [best EXCEPT ![c] = candle]
  /\ IF kind = "tp2" /\ candle > held[c].peak
     THEN /\ held' = [held EXCEPT ![c].peak = candle]
          /\ Raise([peak |-> candle, on |-> FALSE])
     ELSE UNCHANGED <<held, stop>>
  /\ Goto(c, "quote")
  /\ UNCHANGED <<kind, up, market, live, row, entry>>

NoQuote(c) ==
  /\ At(c, "quote") /\ "quote" \in Faults
  /\ Goto(c, "idle")
  /\ UNCHANGED <<kind, up, market, live, row, entry, stop, held, best>>

Then(c, due) == Goto(c, IF due THEN "close" ELSE "idle")

FloorDue(s) == s.peak > Floor /\ mid <= Floor

(* runTp2FloorCheck, from the live price on. *)
FloorQuote(c) ==
  /\ At(c, "quote") /\ kind = "tp2"
  /\ Then(c, FloorDue(held[c]))
  /\ UNCHANGED <<kind, up, market, live, row, entry, stop, held, best>>

(* runTrailingStopCheck: activation and peak come from the candle, exits   *)
(* from the live price; the stop loss of a stop that was not active is     *)
(* looked at before either is recorded.                                    *)
StopLossDue == mid <= -SlDistance
TrailDue(s) == s.peak >= TrailDistance /\ mid <= s.peak - TrailDistance

Activated(c) == held[c].on \/ best[c] >= Activation
Peak(c)      == IF Activated(c) /\ best[c] > held[c].peak THEN best[c] ELSE held[c].peak

StopLossQuote(c) ==
  /\ At(c, "quote") /\ kind = "trail"
  /\ StopLossDue /\ ~held[c].on
  /\ Goto(c, "close")
  /\ UNCHANGED <<kind, up, market, live, row, entry, stop, held, best>>

TrailQuote(c) ==
  /\ At(c, "quote") /\ kind = "trail"
  /\ ~StopLossDue \/ held[c].on
  /\ CASE Peak(c) > held[c].peak        -> Raise([peak |-> Peak(c), on |-> TRUE])
       [] Peak(c) = held[c].peak
            /\ Activated(c) /\ ~held[c].on -> Raise([stop EXCEPT !.on = TRUE])
       [] OTHER                         -> UNCHANGED stop
  /\ Then(c, Activated(c) /\ (TrailDue([peak |-> Peak(c), on |-> TRUE]) \/ StopLossDue))
  /\ UNCHANGED <<kind, up, market, live, row, entry, held, best>>

(* closeTrailStop, closeTp2FloorLeg: a close that throws ends the matter   *)
(* for this cycle.                                                         *)
CloseWorks(c) ==
  /\ At(c, "close") /\ live = "open"
  /\ live' = "closed" \/ ("cancel" \in Faults /\ UNCHANGED live)
  /\ Goto(c, "persist")
  /\ UNCHANGED <<kind, up, market, row, entry, stop, held, best>>

CloseThrows(c) ==
  /\ At(c, "close")
  /\ \/ live = "closed" /\ UNCHANGED live
     \/ "close" \in Faults /\ live' \in {live, "closed"}
  /\ Goto(c, "idle")
  /\ UNCHANGED <<kind, up, market, row, entry, stop, held, best>>

Persist(c) ==
  /\ At(c, "persist")
  /\ CloseRow
  /\ Goto(c, "forget")
  /\ UNCHANGED <<kind, up, market, live, entry, stop, held, best>>

Forget(c) ==
  /\ At(c, "forget")
  /\ DropStop
  /\ Goto(c, "idle")
  /\ UNCHANGED <<kind, up, market, live, row, entry, held, best>>

-----------------------------------------------------------------------------
Crash ==
  /\ "crash" \in Faults
  /\ up /\ up' = FALSE
  /\ entry' = FALSE
  /\ at' = [c \in Cycles |-> "idle"]
  /\ UNCHANGED <<kind, market, live, row, stop, held, best>>

Restart ==
  /\ ~up /\ up' = TRUE
  /\ UNCHANGED <<kind, market, live, row, entry, stop, cycle>>

Check(c) ==
  \/ Ensure(c) \/ Load(c) \/ NoCandle(c) \/ ReadCandle(c)
  \/ NoQuote(c) \/ FloorQuote(c) \/ StopLossQuote(c) \/ TrailQuote(c)

CycleStep(c) ==
  \/ CycleStart(c) \/ Sweep(c) \/ SweepDelete(c) \/ ReadLog(c) \/ ReadIndex(c)
  \/ Gone(c) \/ Finalize(c) \/ Check(c)
  \/ CloseWorks(c) \/ CloseThrows(c) \/ Persist(c) \/ Forget(c)

Next ==
  \/ \E price \in Prices : Move(price)
  \/ BarEnds \/ VenueExit \/ ClosedElsewhere \/ Fill \/ Register
  \/ \E c \in Cycles : CycleStep(c)
  \/ Crash \/ Restart

Spec == Init /\ [][Next]_vars

(* setInterval starts a cycle after the other; whatever a cycle asks for   *)
(* again and again it is given now and then.                               *)
Answered(c) ==
  /\ SF_vars(ReadLog(c) /\ at'[c] = "index") /\ SF_vars(ReadIndex(c) /\ at'[c] = "ensure")
  /\ SF_vars(Ensure(c) /\ stop' # NoStop) /\ SF_vars(Load(c) /\ at'[c] = "candle")
  /\ SF_vars(ReadCandle(c)) /\ SF_vars(FloorQuote(c) \/ TrailQuote(c) \/ StopLossQuote(c))
  /\ SF_vars(CloseWorks(c) /\ live' = "closed")

Fairness ==
  /\ WF_vars(Register) /\ WF_vars(Restart) /\ <>[][~Crash]_vars
  /\ \A c \in Cycles : WF_vars(CycleStep(c)) /\ Answered(c)

FairSpec == Spec /\ Fairness
-----------------------------------------------------------------------------
Armed(s) == IF kind = "trail" THEN s.on ELSE s.peak > Floor

(* A stop that is armed is neither lowered nor dropped while its trade is  *)
(* open: not by an older candle, not by a stop that is read before it is   *)
(* written, not by the sweep or the handlers of a close, and not by a      *)
(* restart (a software stop that loosens gives profit away unseen).        *)
StopNeverLoosens ==
  [][live = "open" /\ Armed(stop) => \/ live' = "closed"
                                     \/ Armed(stop)' /\ stop'.peak >= stop.peak]_vars

(* Liveness: a stop that stays due does not stay unexecuted, although      *)
(* quotes are missing, closes fail and the process dies.                   *)
Due ==
  IF kind = "trail" THEN StopLossDue \/ (stop.on /\ TrailDue(stop)) ELSE FloorDue(stop)

StopFires == []<>~(live = "open" /\ row = "open" /\ Due)
-----------------------------------------------------------------------------
(* What keeps StopNeverLoosens while cycles do not overlap: a cycle that   *)
(* checks has read the stop; nobody else writes an open trade's stop       *)
(* between that read and the cycle's own write; what is swept is at most   *)
(* as old as its trade; and only what has ended is finalized.              *)
CheckedIsRead == \A c \in Cycles : at[c] \in {"candle", "quote"} => held[c] # NoStop

RowFollowsTrade ==
  /\ row = "none" <=> live = "none"
  /\ row = "closed" => live = "closed"
  /\ entry => live # "none"
  /\ live = "none" => stop = NoStop

CycleIsCurrent ==
  \A c \in Cycles :
    /\ at[c] \in {"index", "gone", "ensure", "load", "candle", "quote", "close"} =>
         live # "none"
    /\ at[c] \in {"finalize", "persist", "forget"} => live = "closed"
    /\ live = "open" => /\ at[c] \in {"sweep", "delete"} => stop \in {NoStop, Fresh}
                        /\ at[c] = "candle" => stop = held[c]
                        /\ at[c] = "quote" /\ kind = "trail" => stop = held[c]

(* One monitor cycle at a time, and no close that OANDA cancelled is taken *)
(* for done.                                                               *)
Apart  == \A c, d \in Cycles : c = d
Honest == "cancel" \notin Faults

IInv == TypeOK /\ CheckedIsRead /\ RowFollowsTrade /\ CycleIsCurrent
=============================================================================
