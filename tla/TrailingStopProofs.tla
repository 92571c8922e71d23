------------------------- MODULE TrailingStopProofs -------------------------
(***************************************************************************)
(* Proofs about TrailingStop for any prices, distances and floor, any set  *)
(* of faults, and, for the types, any number of overlapping cycles.        *)
(***************************************************************************)
EXTENDS TrailingStop, TLAPS

LEMMA FreshIsStop == Fresh \in Stops
BY StopAssumption DEF Fresh, Stops

LEMMA NoStopIsNone == NoStop \notin Stops
BY StopAssumption DEF NoStop, Stops

-----------------------------------------------------------------------------
(* Every variable keeps its type: a peak is recorded only by a check that  *)
(* has read the stop it raises.                                            *)
Typed == TypeOK /\ CheckedIsRead

LEMMA TypeInit == Init => Typed
<1> SUFFICES ASSUME Init PROVE Typed
  OBVIOUS
<1>1. 0 \in Prices /\ bar \in Prices /\ candle \in Prices
  BY StopAssumption DEF Init, Prices
<1>2. at \in [Cycles -> CyclePcs] /\ held \in [Cycles -> Stops \cup {NoStop}]
  BY DEF Init, CyclePcs
<1>3. best \in [Cycles -> Prices]
  BY <1>1 DEF Init
<1>4. CheckedIsRead
  BY DEF Init, CheckedIsRead
<1> QED
  BY <1>1, <1>2, <1>3, <1>4 DEF Init, Typed, TypeOK

LEMMA InsertType ==
  ASSUME stop \in Stops \cup {NoStop}, Insert
  PROVE  stop' \in Stops \cup {NoStop}
BY FreshIsStop DEF Insert

LEMMA DropType ==
  ASSUME stop \in Stops \cup {NoStop}, DropStop
  PROVE  stop' \in Stops \cup {NoStop}
BY DEF DropStop

LEMMA RaiseType ==
  ASSUME stop \in Stops \cup {NoStop},
         NEW new, stop # NoStop => new \in Stops, Raise(new)
  PROVE  stop' \in Stops \cup {NoStop}
BY DEF Raise

(* A step of the monitor that leaves the stop read and its candle alone.   *)
LEMMA GotoType ==
  ASSUME Typed, NEW c \in Cycles,
         NEW l \in CyclePcs \ {"candle", "quote"}, Goto(c, l), UNCHANGED held
  PROVE  at' \in [Cycles -> CyclePcs] /\ CheckedIsRead'
BY DEF Typed, TypeOK, CheckedIsRead, Goto, CyclePcs

LEMMA TypeCandle ==
  ASSUME Typed, NEW c \in Cycles, ReadCandle(c)
  PROVE  Typed'
<1> USE StopAssumption DEF Typed, TypeOK, CheckedIsRead, At, Goto, ReadCandle, CyclePcs, Prices, market
<1>1. held[c] \in Stops
  OBVIOUS
<1>2. at' \in [Cycles -> CyclePcs] /\ best' \in [Cycles -> Prices]
  OBVIOUS
<1>3. CASE kind = "tp2" /\ candle > held[c].peak
  <2>1. candle \in 0..Rise
    BY <1>1, <1>3 DEF Stops
  <2>2. [held[c] EXCEPT !.peak = candle] \in Stops
    BY <1>1, <2>1 DEF Stops
  <2>3. [peak |-> candle, on |-> FALSE] \in Stops
    BY <2>1 DEF Stops
  <2>4. stop' \in Stops \cup {NoStop}
    BY <1>3, <2>3, RaiseType
  <2>5. held' = [held EXCEPT ![c] = [held[c] EXCEPT !.peak = candle]]
    BY <1>3
  <2>6. held' \in [Cycles -> Stops \cup {NoStop}]
    BY <2>2, <2>5
  <2>7. CheckedIsRead'
    BY <2>2, <2>5, NoStopIsNone
  <2> QED
    BY <1>2, <2>4, <2>6, <2>7
<1>4. CASE ~(kind = "tp2" /\ candle > held[c].peak)
  <2>1. UNCHANGED <<held, stop>>
    BY <1>4
  <2>2. CheckedIsRead'
    BY <2>1
  <2> QED
    BY <1>2, <2>1, <2>2
<1> QED
  BY <1>3, <1>4

LEMMA PeakType ==
  ASSUME Typed, NEW c \in Cycles, at[c] = "quote"
  PROVE  held[c] \in Stops /\ Peak(c) \in 0..Rise /\ Peak(c) >= held[c].peak
BY StopAssumption DEF Typed, TypeOK, CheckedIsRead, Peak, Activated, Stops, Prices

LEMMA TypeTrailQuote ==
  ASSUME Typed, NEW c \in Cycles, TrailQuote(c)
  PROVE  Typed'
<1> USE DEF TrailQuote, At
<1>1. [peak |-> Peak(c), on |-> TRUE] \in Stops
  BY PeakType DEF Stops
<1>2. stop # NoStop => [stop EXCEPT !.on = TRUE] \in Stops
  BY DEF Typed, TypeOK, Stops
<1>3. stop' \in Stops \cup {NoStop}
  <2>0. stop \in Stops \cup {NoStop}
    BY DEF Typed, TypeOK
  <2>1. CASE Raise([peak |-> Peak(c), on |-> TRUE])
    BY <1>1, <2>0, <2>1, RaiseType
  <2>2. CASE Raise([stop EXCEPT !.on = TRUE])
    BY <1>2, <2>0, <2>2, RaiseType
  <2>3. CASE UNCHANGED stop
    BY <2>0, <2>3
  <2>4. \/ Raise([peak |-> Peak(c), on |-> TRUE])
        \/ Raise([stop EXCEPT !.on = TRUE])
        \/ UNCHANGED stop
    BY PeakType DEF Stops
  <2> QED
    BY <2>1, <2>2, <2>3, <2>4
<1>4. at' \in [Cycles -> CyclePcs] /\ CheckedIsRead'
  BY GotoType DEF Then, CyclePcs
<1> QED
  BY <1>3, <1>4 DEF Typed, TypeOK, market

LEMMA TypeCycle ==
  ASSUME Typed, NEW c \in Cycles, CycleStep(c)
  PROVE  Typed'
<1> USE DEF Typed
<1>a. DEFINE Moves == at' \in [Cycles -> CyclePcs] /\ CheckedIsRead'
<1>1. CASE CycleStart(c)
  BY <1>1, StopAssumption DEF CycleStart, TypeOK, CheckedIsRead, Goto, CyclePcs, Prices, At, market
<1>2. CASE Sweep(c) \/ ReadLog(c) \/ ReadIndex(c)
  <2>1. Moves
    BY <1>2, GotoType DEF Sweep, ReadLog, ReadIndex, CyclePcs
  <2>2. UNCHANGED <<kind, up, market, live, row, entry, stop, held, best>>
    BY <1>2 DEF Sweep, ReadLog, ReadIndex
  <2> QED
    BY <2>1, <2>2 DEF TypeOK, market
<1>3. CASE SweepDelete(c) \/ Gone(c) \/ Forget(c)
  <2>1. Moves
    BY <1>3, GotoType DEF SweepDelete, Gone, Forget, CyclePcs
  <2>2. stop' \in Stops \cup {NoStop}
    BY <1>3, DropType DEF SweepDelete, Gone, Forget, TypeOK
  <2>3. UNCHANGED <<kind, up, market, live, row, entry, held, best>>
    BY <1>3 DEF SweepDelete, Gone, Forget
  <2> QED
    BY <2>1, <2>2, <2>3 DEF TypeOK, market
<1>4. CASE Finalize(c) \/ Persist(c)
  <2>1. Moves
    BY <1>4, GotoType DEF Finalize, Persist, CyclePcs
  <2>2. row' \in {"none", "open", "closed"}
    BY <1>4 DEF Finalize, Persist, CloseRow, TypeOK
  <2>3. UNCHANGED <<kind, up, market, live, entry, stop, held, best>>
    BY <1>4 DEF Finalize, Persist
  <2> QED
    BY <2>1, <2>2, <2>3 DEF TypeOK, market
<1>5. CASE Ensure(c)
  <2>1. Moves
    BY <1>5, GotoType DEF Ensure, CyclePcs
  <2>2. stop' \in Stops \cup {NoStop}
    BY <1>5, InsertType DEF Ensure, TypeOK
  <2> QED
    BY <1>5, <2>1, <2>2 DEF Ensure, TypeOK, market
<1>6. CASE Load(c)
  BY <1>6 DEF Load, TypeOK, CheckedIsRead, Goto, CyclePcs, At, market
<1>7. CASE NoCandle(c) \/ NoQuote(c) \/ FloorQuote(c) \/ StopLossQuote(c)
  <2>1. Moves
    BY <1>7, GotoType DEF NoCandle, NoQuote, FloorQuote, StopLossQuote, Then, CyclePcs
  <2>2. UNCHANGED <<kind, up, market, live, row, entry, stop, held, best>>
    BY <1>7 DEF NoCandle, NoQuote, FloorQuote, StopLossQuote
  <2> QED
    BY <2>1, <2>2 DEF TypeOK, market
<1>8. CASE CloseWorks(c) \/ CloseThrows(c)
  <2>1. Moves
    BY <1>8, GotoType DEF CloseWorks, CloseThrows, CyclePcs
  <2>2. live' \in {"none", "open", "closed"}
    BY <1>8 DEF CloseWorks, CloseThrows, TypeOK
  <2>3. UNCHANGED <<kind, up, market, row, entry, stop, held, best>>
    BY <1>8 DEF CloseWorks, CloseThrows
  <2> QED
    BY <2>1, <2>2, <2>3 DEF TypeOK, market
<1> QED
  BY <1>1, <1>2, <1>3, <1>4, <1>5, <1>6, <1>7, <1>8, TypeCandle, TypeTrailQuote
  DEF CycleStep, Check

LEMMA TypeNext == Typed /\ [Next]_vars => Typed'
<1> SUFFICES ASSUME Typed, [Next]_vars PROVE Typed'
  OBVIOUS
<1> USE DEF Typed, TypeOK, CheckedIsRead
<1>1. ASSUME NEW price \in Prices, Move(price) PROVE Typed'
  BY <1>1 DEF Move, cycle
<1>2. CASE BarEnds \/ VenueExit \/ ClosedElsewhere \/ Fill \/ Restart
  BY <1>2 DEF BarEnds, VenueExit, ClosedElsewhere, Fill, Restart, cycle, market
<1>3. CASE Register
  BY <1>3, InsertType DEF Register, cycle, market
<1>4. CASE Crash
  BY <1>4 DEF Crash, market, CyclePcs
<1>5. ASSUME NEW c \in Cycles, CycleStep(c) PROVE Typed'
  BY <1>5, TypeCycle
<1>6. CASE UNCHANGED vars
  BY <1>6 DEF vars
<1> QED
  BY <1>1, <1>2, <1>3, <1>4, <1>5, <1>6 DEF Next

(* Every variable of the stops keeps its type.                             *)
THEOREM TypeCorrect == Spec => []TypeOK
<1>1. Typed => TypeOK
  BY DEF Typed
<1> QED
  BY TypeInit, TypeNext, <1>1, PTL DEF Spec

-----------------------------------------------------------------------------
(* The invariant of a monitor whose cycles do not overlap.                 *)
LEMMA InvInit == Init => IInv
BY TypeInit DEF Init, Typed, IInv, CheckedIsRead, RowFollowsTrade, CycleIsCurrent

(* Fill, the only step by which a trade opens, finds no stop of it.        *)
LEMMA InvOthers ==
  ASSUME IInv, \/ \E price \in Prices : Move(price)
               \/ BarEnds \/ VenueExit \/ ClosedElsewhere \/ Fill \/ Register
               \/ Crash \/ Restart \/ UNCHANGED vars
  PROVE  RowFollowsTrade' /\ CycleIsCurrent'
<1> USE DEF IInv, TypeOK, RowFollowsTrade, CycleIsCurrent, cycle
<1>1. CASE (\E price \in Prices : Move(price)) \/ BarEnds \/ Restart \/ UNCHANGED vars
  BY <1>1 DEF Move, BarEnds, Restart, vars
<1>2. CASE VenueExit \/ ClosedElsewhere
  BY <1>2 DEF VenueExit, ClosedElsewhere
<1>3. CASE Fill
  BY <1>3 DEF Fill
<1>4. CASE Register
  <2>1. stop # NoStop => stop' = stop
    BY <1>4 DEF Register, Insert
  <2>2. stop' \in {stop, Fresh}
    BY <1>4 DEF Register, Insert
  <2>3. UNCHANGED <<kind, live, row, cycle>> /\ ~entry' /\ live # "none"
    BY <1>4 DEF Register
  <2>4. RowFollowsTrade'
    BY <2>3
  <2>5. CycleIsCurrent'
    BY <2>1, <2>2, <2>3 DEF CheckedIsRead
  <2> QED
    BY <2>4, <2>5
<1>5. CASE Crash
  BY <1>5 DEF Crash
<1> QED
  BY <1>1, <1>2, <1>3, <1>4, <1>5

(* With one cycle, what CycleIsCurrent says of it says it of all.          *)
LEMMA CycleInv ==
  ASSUME Apart, Honest, IInv, NEW c \in Cycles, CycleStep(c)
  PROVE  RowFollowsTrade' /\ CycleIsCurrent'
<1> USE DEF IInv, RowFollowsTrade, CycleIsCurrent
<1>0. /\ \A d \in Cycles : d = c
      /\ at \in [Cycles -> CyclePcs]
      /\ held \in [Cycles -> Stops \cup {NoStop}]
      /\ live \in {"none", "open", "closed"}
      /\ row \in {"none", "open", "closed"}
  BY DEF Apart, TypeOK
<1> USE <1>0 DEF At, Goto
<1>1. CASE CycleStart(c)
  BY <1>1 DEF CycleStart
<1>2. CASE Sweep(c) \/ ReadLog(c) \/ ReadIndex(c)
  BY <1>2 DEF Sweep, ReadLog, ReadIndex
<1>3. CASE SweepDelete(c) \/ Gone(c) \/ Forget(c)
  BY <1>3 DEF SweepDelete, Gone, Forget, DropStop
<1>4. CASE Finalize(c) \/ Persist(c)
  BY <1>4 DEF Finalize, Persist, CloseRow
<1>5. CASE Ensure(c)
  BY <1>5 DEF Ensure, Insert
<1>6. CASE Load(c)
  BY <1>6 DEF Load
<1>7. CASE NoCandle(c) \/ NoQuote(c) \/ FloorQuote(c) \/ StopLossQuote(c)
  BY <1>7 DEF NoCandle, NoQuote, FloorQuote, StopLossQuote, Then
<1>8. CASE CloseWorks(c) \/ CloseThrows(c)
  BY <1>8 DEF CloseWorks, CloseThrows, Honest
<1>9. CASE ReadCandle(c)
  <2>1. kind = "trail" => UNCHANGED <<held, stop>>
    BY <1>9 DEF ReadCandle
  <2>2. /\ at' = [at EXCEPT ![c] = "quote"] /\ live # "none"
        /\ UNCHANGED <<kind, live, row, entry>>
    BY <1>9 DEF ReadCandle
  <2> QED
    BY <1>9, <2>1, <2>2 DEF ReadCandle
<1>10. CASE TrailQuote(c)
  <2>1. at' = [at EXCEPT ![c] = "close"] \/ at' = [at EXCEPT ![c] = "idle"]
    BY <1>10 DEF TrailQuote, Then
  <2>2. live # "none" /\ UNCHANGED <<kind, live, row, entry, held>>
    BY <1>10 DEF TrailQuote
  <2> QED
    BY <2>1, <2>2
<1> QED
  BY <1>1, <1>2, <1>3, <1>4, <1>5, <1>6, <1>7, <1>8, <1>9, <1>10 DEF CycleStep, Check

LEMMA InvNext == Apart /\ Honest /\ IInv /\ [Next]_vars => IInv'
<1> SUFFICES ASSUME Apart, Honest, IInv, [Next]_vars PROVE IInv'
  OBVIOUS
<1>1. TypeOK' /\ CheckedIsRead'
  BY TypeNext DEF IInv, Typed
<1>2. RowFollowsTrade' /\ CycleIsCurrent'
  BY InvOthers, CycleInv DEF Next
<1> QED
  BY <1>1, <1>2 DEF IInv

-----------------------------------------------------------------------------
(* An armed stop is only raised: the floor by the candle a check reads,    *)
(* the trail by the quote after it, both above what the table still holds. *)
Firm == live = "open" /\ Armed(stop) => \/ live' = "closed"
                                        \/ Armed(stop)' /\ stop'.peak >= stop.peak

LEMMA FirmWhenKept ==
  ASSUME TypeOK, UNCHANGED <<kind, stop>>
  PROVE  Firm
<1>1. stop.peak >= stop.peak
  BY StopAssumption DEF TypeOK, Stops, NoStop
<1> QED
  BY <1>1 DEF Firm, Armed

LEMMA NotArmed == ~Armed(NoStop) /\ ~Armed(Fresh)
BY StopAssumption DEF Armed, NoStop, Fresh

LEMMA FirmWhenInserted ==
  ASSUME TypeOK, Insert, UNCHANGED kind
  PROVE  Firm
BY FirmWhenKept, NotArmed DEF Insert, Firm

LEMMA FirmCandle ==
  ASSUME IInv, NEW c \in Cycles, ReadCandle(c)
  PROVE  Firm
<1>1. CASE UNCHANGED stop
  BY <1>1, FirmWhenKept DEF ReadCandle, IInv
<1>2. CASE stop' # stop
  <2>1. kind = "tp2" /\ candle > held[c].peak /\ UNCHANGED <<kind, live>>
    BY <1>2 DEF ReadCandle
  <2>2. stop' = [peak |-> candle, on |-> FALSE]
    BY <1>2, <2>1 DEF ReadCandle, Raise
  <2>3. live = "open" => stop = held[c]
    BY DEF ReadCandle, At, IInv, CycleIsCurrent
  <2>4. live = "open" => stop \in Stops
    BY <2>3 DEF IInv, TypeOK, CheckedIsRead, ReadCandle, At
  <2>5. live = "open" => stop'.peak > stop.peak /\ candle \in Int
    BY <2>1, <2>2, <2>3, StopAssumption DEF IInv, TypeOK, Prices
  <2> QED
    BY <2>1, <2>2, <2>4, <2>5, StopAssumption DEF Firm, Armed, Stops
<1> QED
  BY <1>1, <1>2

LEMMA FirmTrailQuote ==
  ASSUME IInv, NEW c \in Cycles, TrailQuote(c)
  PROVE  Firm
<1>1. CASE UNCHANGED stop
  BY <1>1, FirmWhenKept DEF TrailQuote, IInv
<1>2. CASE stop' # stop /\ live = "open"
  <2>1. kind = "trail" /\ UNCHANGED kind /\ at[c] = "quote"
    BY DEF TrailQuote, At
  <2>2. stop = held[c]
    BY <1>2, <2>1 DEF IInv, CycleIsCurrent
  <2>3. held[c] \in Stops /\ Peak(c) \in 0..Rise /\ Peak(c) >= held[c].peak
    BY <2>1, PeakType DEF IInv, Typed
  <2>4. \/ stop' = [peak |-> Peak(c), on |-> TRUE]
        \/ stop' = [stop EXCEPT !.on = TRUE]
    BY <1>2 DEF TrailQuote, Raise
  <2>5. stop'.on /\ stop'.peak >= stop.peak
    BY <2>2, <2>3, <2>4 DEF Stops
  <2> QED
    BY <2>1, <2>5 DEF Firm, Armed
<1> QED
  BY <1>1, <1>2 DEF Firm

LEMMA FirmCycle ==
  ASSUME IInv, NEW c \in Cycles, CycleStep(c)
  PROVE  Firm
<1>1. CASE \/ CycleStart(c) \/ Sweep(c) \/ ReadLog(c) \/ ReadIndex(c) \/ Finalize(c)
           \/ Load(c) \/ NoCandle(c) \/ NoQuote(c) \/ FloorQuote(c) \/ StopLossQuote(c)
           \/ CloseWorks(c) \/ CloseThrows(c) \/ Persist(c)
  <2>1. UNCHANGED <<kind, stop>>
    BY <1>1 DEF CycleStart, Sweep, ReadLog, ReadIndex, Finalize, Load, NoCandle, NoQuote,
                FloorQuote, StopLossQuote, CloseWorks, CloseThrows, Persist
  <2> QED
    BY <2>1, FirmWhenKept DEF IInv
<1>2. CASE SweepDelete(c)
  BY <1>2, NotArmed DEF SweepDelete, At, Firm, IInv, CycleIsCurrent
<1>3. CASE Gone(c)
  BY <1>3, FirmWhenKept DEF Gone, Firm, IInv
<1>4. CASE Ensure(c)
  BY <1>4, FirmWhenKept, FirmWhenInserted DEF Ensure, IInv
<1>5. CASE Forget(c)
  BY <1>5 DEF Forget, At, Firm, IInv, CycleIsCurrent
<1> QED
  BY <1>1, <1>2, <1>3, <1>4, <1>5, FirmCandle, FirmTrailQuote DEF CycleStep, Check

LEMMA FirmNext == IInv /\ [Next]_vars => [Firm]_vars
<1> SUFFICES ASSUME IInv, Next PROVE Firm
  OBVIOUS
<1>1. CASE (\E price \in Prices : Move(price)) \/ BarEnds \/ VenueExit \/ ClosedElsewhere
           \/ Fill \/ Crash \/ Restart
  <2>1. UNCHANGED <<kind, stop>>
    BY <1>1 DEF Move, BarEnds, VenueExit, ClosedElsewhere, Fill, Crash, Restart
  <2> QED
    BY <2>1, FirmWhenKept DEF IInv
<1>2. CASE Register
  BY <1>2, FirmWhenKept, FirmWhenInserted DEF Register, IInv
<1> QED
  BY <1>1, <1>2, FirmCycle DEF Next

(* While monitor cycles do not overlap and a cancelled close is not taken  *)
(* for done, an armed stop of an open trade is neither lowered nor         *)
(* dropped, whatever else fails.                                           *)
THEOREM StopsHold == ASSUME Apart, Honest PROVE Spec => StopNeverLoosens
<1>1. IInv /\ [Next]_vars =>
        [live = "open" /\ Armed(stop) =>
           live' = "closed" \/ (Armed(stop)' /\ stop'.peak >= stop.peak)]_vars
  BY FirmNext DEF Firm
<1>2. IInv /\ [Next]_vars => IInv'
  BY InvNext
<1> QED
  BY InvInit, <1>1, <1>2, PTL DEF Spec, StopNeverLoosens
=============================================================================
