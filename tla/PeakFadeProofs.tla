--------------------------- MODULE PeakFadeProofs ---------------------------
(***************************************************************************)
(* Proofs about PeakFade for any number of trades and books and any choice *)
(* of faults: the type invariant, one trade for each book, that no open    *)
(* trade is ever taken for closed, and that the tables follow the trades   *)
(* as TradeTables promises.                                                *)
(***************************************************************************)
EXTENDS PeakFade, TLAPS

(* What the tick holds while it closes a trade: one that has ended, and    *)
(* whose row says so before its mirror is looked for.                      *)
ClosingHasEnded ==
  /\ tick.at \in {"row", "sync", "mirror"} => tick.cur \in Trades /\ venue[tick.cur] = "closed"
  /\ tick.at \in {"sync", "mirror"} => row[tick.cur] = "booked"

MirrorIsFirst == tick.at = "mirror" => mirrors[tick.cur] = 0

(* A trade is placed, then recorded, in a seat that is still empty.        *)
EntryHasSeat ==
  /\ tick.at \in {"routes", "order", "insert"} => \A b \in tick.needing : ~Seated(b)
  /\ tick.at \in {"order", "insert"} =>
       /\ tick.cur \in Trades /\ row[tick.cur] = "none"
       /\ ~Seated(book[tick.cur]) /\ book[tick.cur] \notin tick.needing
  /\ tick.at = "order" => venue[tick.cur] = "none"
  /\ tick.at = "insert" => venue[tick.cur] # "none"

RecordedIsFilled == \A t \in Trades : row[t] # "none" => venue[t] # "none"

(* Nothing but a fault leaves an open trade without its row.               *)
OpenIsRecorded ==
  Without({"db", "order", "crash"}) =>
    \A t \in Trades :
      venue[t] = "open" => row[t] # "none" \/ (tick.at = "insert" /\ tick.cur = t)

(* A trade is forgotten by the watch only when its row is booked.          *)
AlertsRemembered ==
  /\ \A t \in alerted : row[t] # "none"
  /\ \A t \in Trades : alerts[t] = 0 \/ t \in alerted \/ row[t] = "booked"

OneRowPerBook ==
  \A t, u \in Trades : book[t] = book[u] /\ row[t] = "null" /\ row[u] = "null" => t = u

IInv ==
  /\ TypeOK /\ ClosingHasEnded /\ MirrorIsFirst /\ EntryHasSeat /\ RecordedIsFilled
  /\ OpenIsRecorded /\ AlertsRemembered /\ OneRowPerBook /\ OpenStaysWatched

-----------------------------------------------------------------------------
Ticks == [at : Pcs, todo : SUBSET Trades, cur : Trades \cup {NoTrade}, needing : SUBSET Books]

LEMMA IdleTyped == IdleTick \in Ticks /\ NoAlerts \in [Trades -> 0..1]
BY DEF Ticks, IdleTick, Pcs, NoAlerts

LEMMA InitInductive == Init => IInv
<1> SUFFICES ASSUME Init PROVE IInv
  OBVIOUS
<1>1. (CHOOSE b \in Books : TRUE) \in Books
  BY PeakAssumption
<1>2. TypeOK
  BY <1>1 DEF Init, TypeOK, IdleTick, NoAlerts, Pcs
<1> QED
  BY <1>2 DEF Init, IInv, ClosingHasEnded, MirrorIsFirst, EntryHasSeat, RecordedIsFilled,
     OpenIsRecorded, AlertsRemembered, OneRowPerBook, OpenStaysWatched, IdleTick, NoAlerts

LEMMA StepInductive == IInv /\ [Next]_vars => IInv'
<1> SUFFICES ASSUME IInv, [Next]_vars PROVE IInv'
  OBVIOUS
<1> USE DEF IInv, TypeOK, ClosingHasEnded, MirrorIsFirst, EntryHasSeat, RecordedIsFilled,
    OpenIsRecorded, AlertsRemembered, OneRowPerBook, OpenStaysWatched,
    Goto, IdleTick, At, Pcs, process, market, tables, watch, Without
<1>1. ASSUME NEW t \in Trades, VenueEnds(t) PROVE IInv'
  BY <1>1 DEF VenueEnds, Seated, Open, Polled, Alert, Fails, NoAlerts
<1>2. CASE Operator
  BY <1>2 DEF Operator, Seated, Open, Polled, Alert, Fails, NoAlerts
<1>3. CASE Gate
  BY <1>3 DEF Gate, Seated, Open, Polled, Alert, Fails, NoAlerts
<1>4. CASE TickThrows
  BY <1>4 DEF TickThrows, Seated, Open, Polled, Alert, Fails, NoAlerts
<1>5. CASE LoadOpen
  BY <1>5 DEF LoadOpen, Seated, Open, Polled, Alert, Fails, NoAlerts
<1>6. ASSUME NEW t \in Trades, PollSkips(t) PROVE IInv'
  BY <1>6 DEF PollSkips, Seated, Open, Polled, Alert, Fails, NoAlerts
<1>7. ASSUME NEW t \in Trades, PollFinds(t) PROVE IInv'
  BY <1>7 DEF PollFinds, Seated, Open, Polled, Alert, Fails, NoAlerts
<1>8. CASE PollDone
  BY <1>8 DEF PollDone, Seated, Open, Polled, Alert, Fails, NoAlerts
<1>9. CASE PersistClose
  <2>f. tick.at = "row" /\ tick.cur \in Trades /\ venue[tick.cur] = "closed"
    BY <1>9 DEF PersistClose
  <2>g. \/ tick' = [tick EXCEPT !.at = "sync"]
        \/ tick' = [tick EXCEPT !.at = "poll", !.cur = NoTrade]
    BY <1>9 DEF PersistClose
  <2>a. /\ tick' \in Ticks
        /\ tick'.at \in {"sync", "poll"}
        /\ tick'.at = "sync" => tick'.cur = tick.cur
    BY <2>f, <2>g, IdleTyped DEF Ticks
  <2>b. \/ row' = [row EXCEPT ![tick.cur] = "booked"]
        \/ row' = row /\ tick'.at = "poll"
    BY <1>9, <2>f DEF PersistClose
  <2>c. UNCHANGED <<faults, up, enabled, book, venue, mirrors, alerted, alerts>>
    BY <1>9 DEF PersistClose
  <2>1. TypeOK'
    BY <2>f, <2>a, <2>b, <2>c DEF Seated, Open, Ticks
  <2>2. ClosingHasEnded'
    BY <2>f, <2>a, <2>b, <2>c DEF Seated, Open
  <2>3. MirrorIsFirst'
    BY <2>f, <2>a, <2>b, <2>c DEF Seated, Open
  <2>4. EntryHasSeat'
    BY <2>f, <2>a, <2>b, <2>c DEF Seated, Open
  <2>5. RecordedIsFilled'
    BY <2>f, <2>a, <2>b, <2>c DEF Seated, Open
  <2>6. OpenIsRecorded'
    BY <2>f, <2>a, <2>b, <2>c DEF Seated, Open
  <2>7. AlertsRemembered'
    BY <2>f, <2>a, <2>b, <2>c DEF Seated, Open
  <2>8. OneRowPerBook'
    BY <2>f, <2>a, <2>b, <2>c DEF Seated, Open
  <2>9. OpenStaysWatched'
    BY <2>f, <2>a, <2>b, <2>c DEF Seated, Open
  <2> QED
    BY <2>1, <2>2, <2>3, <2>4, <2>5, <2>6, <2>7, <2>8, <2>9
<1>10. CASE MirrorExists
  <2>1. TypeOK'
    BY <1>10 DEF MirrorExists, Seated, Open, Polled, Alert, Fails, NoAlerts
  <2>2. ClosingHasEnded'
    BY <1>10 DEF MirrorExists, Seated, Open, Polled, Alert, Fails, NoAlerts
  <2>3. MirrorIsFirst'
    BY <1>10 DEF MirrorExists, Seated, Open, Polled, Alert, Fails, NoAlerts
  <2>4. EntryHasSeat'
    BY <1>10 DEF MirrorExists, Seated, Open, Polled, Alert, Fails, NoAlerts
  <2>5. RecordedIsFilled'
    BY <1>10 DEF MirrorExists, Seated, Open, Polled, Alert, Fails, NoAlerts
  <2>6. OpenIsRecorded'
    BY <1>10 DEF MirrorExists, Seated, Open, Polled, Alert, Fails, NoAlerts
  <2>7. AlertsRemembered'
    BY <1>10 DEF MirrorExists, Seated, Open, Polled, Alert, Fails, NoAlerts
  <2>8. OneRowPerBook'
    BY <1>10 DEF MirrorExists, Seated, Open, Polled, Alert, Fails, NoAlerts
  <2>9. OpenStaysWatched'
    BY <1>10 DEF MirrorExists, Seated, Open, Polled, Alert, Fails, NoAlerts
  <2> QED
    BY <2>1, <2>2, <2>3, <2>4, <2>5, <2>6, <2>7, <2>8, <2>9
<1>11. CASE InsertMirror
  <2>a. /\ tick.cur \in Trades /\ venue[tick.cur] = "closed" /\ mirrors[tick.cur] = 0
        /\ tick' \in Ticks
        /\ tick.at = "mirror" /\ tick'.at = "poll"
    BY <1>11 DEF InsertMirror, Ticks
  <2>b. \/ mirrors' = [mirrors EXCEPT ![tick.cur] = 1]
        \/ mirrors' = mirrors
    BY <1>11, <2>a DEF InsertMirror
  <2>c. UNCHANGED <<faults, up, enabled, book, venue, row, alerted, alerts>>
    BY <1>11 DEF InsertMirror
  <2>1. TypeOK'
    BY <2>a, <2>b, <2>c DEF Seated, Open, Ticks
  <2>2. ClosingHasEnded'
    BY <2>a, <2>b, <2>c DEF Seated, Open
  <2>3. MirrorIsFirst'
    BY <2>a, <2>b, <2>c DEF Seated, Open
  <2>4. EntryHasSeat'
    BY <2>a, <2>b, <2>c DEF Seated, Open
  <2>5. RecordedIsFilled'
    BY <2>a, <2>b, <2>c DEF Seated, Open
  <2>6. OpenIsRecorded'
    BY <2>a, <2>b, <2>c DEF Seated, Open
  <2>7. AlertsRemembered'
    BY <2>a, <2>b, <2>c DEF Seated, Open
  <2>8. OneRowPerBook'
    BY <2>a, <2>b, <2>c DEF Seated, Open
  <2>9. OpenStaysWatched'
    BY <2>a, <2>b, <2>c DEF Seated, Open
  <2> QED
    BY <2>1, <2>2, <2>3, <2>4, <2>5, <2>6, <2>7, <2>8, <2>9
<1>12. ASSUME NEW far \in SUBSET Trades, MaeWatch(far) PROVE IInv'
  BY <1>12 DEF MaeWatch, Seated, Open, Polled, Alert, Fails, NoAlerts
<1>13. ASSUME NEW chosen \in SUBSET Books, RoutesNeedingEntry(chosen) PROVE IInv'
  <2>1. TypeOK'
    BY <1>13 DEF RoutesNeedingEntry, Seated, Open, Polled, Alert, Fails, NoAlerts
  <2>2. ClosingHasEnded'
    BY <1>13 DEF RoutesNeedingEntry, Seated, Open, Polled, Alert, Fails, NoAlerts
  <2>3. MirrorIsFirst'
    BY <1>13 DEF RoutesNeedingEntry, Seated, Open, Polled, Alert, Fails, NoAlerts
  <2>4. EntryHasSeat'
    BY <1>13 DEF RoutesNeedingEntry, Seated, Open, Polled, Alert, Fails, NoAlerts
  <2>5. RecordedIsFilled'
    BY <1>13 DEF RoutesNeedingEntry, Seated, Open, Polled, Alert, Fails, NoAlerts
  <2>6. OpenIsRecorded'
    BY <1>13 DEF RoutesNeedingEntry, Seated, Open, Polled, Alert, Fails, NoAlerts
  <2>7. AlertsRemembered'
    BY <1>13 DEF RoutesNeedingEntry, Seated, Open, Polled, Alert, Fails, NoAlerts
  <2>8. OneRowPerBook'
    BY <1>13 DEF RoutesNeedingEntry, Seated, Open, Polled, Alert, Fails, NoAlerts
  <2>9. OpenStaysWatched'
    BY <1>13 DEF RoutesNeedingEntry, Seated, Open, Polled, Alert, Fails, NoAlerts
  <2> QED
    BY <2>1, <2>2, <2>3, <2>4, <2>5, <2>6, <2>7, <2>8, <2>9
<1>14. CASE EntryDone
  BY <1>14 DEF EntryDone, Seated, Open, Polled, Alert, Fails, NoAlerts
<1>15. ASSUME NEW b \in Books, RoutePassed(b) PROVE IInv'
  BY <1>15 DEF RoutePassed, Seated, Open, Polled, Alert, Fails, NoAlerts
<1>16. ASSUME NEW b \in Books, Route(b) PROVE IInv'
  <2>1. TypeOK'
    BY <1>16 DEF Route, Seated, Open, Polled, Alert, Fails, NoAlerts
  <2>2. ClosingHasEnded'
    BY <1>16 DEF Route, Seated, Open, Polled, Alert, Fails, NoAlerts
  <2>3. MirrorIsFirst'
    BY <1>16 DEF Route, Seated, Open, Polled, Alert, Fails, NoAlerts
  <2>4. EntryHasSeat'
    BY <1>16 DEF Route, Seated, Open, Polled, Alert, Fails, NoAlerts
  <2>5. RecordedIsFilled'
    BY <1>16 DEF Route, Seated, Open, Polled, Alert, Fails, NoAlerts
  <2>6. OpenIsRecorded'
    BY <1>16 DEF Route, Seated, Open, Polled, Alert, Fails, NoAlerts
  <2>7. AlertsRemembered'
    BY <1>16 DEF Route, Seated, Open, Polled, Alert, Fails, NoAlerts
  <2>8. OneRowPerBook'
    BY <1>16 DEF Route, Seated, Open, Polled, Alert, Fails, NoAlerts
  <2>9. OpenStaysWatched'
    BY <1>16 DEF Route, Seated, Open, Polled, Alert, Fails, NoAlerts
  <2> QED
    BY <2>1, <2>2, <2>3, <2>4, <2>5, <2>6, <2>7, <2>8, <2>9
<1>17. CASE SubmitOrder
  <2>f. tick.at = "order" /\ tick.cur \in Trades /\ venue[tick.cur] = "none"
    BY <1>17 DEF SubmitOrder
  <2>g. \/ tick' = [tick EXCEPT !.at = "insert"]
        \/ tick' = [tick EXCEPT !.at = "routes", !.cur = NoTrade]
    BY <1>17 DEF SubmitOrder
  <2>a. /\ tick' \in Ticks
        /\ tick'.at \in {"insert", "routes"} /\ tick'.needing = tick.needing
        /\ tick'.at = "insert" => tick'.cur = tick.cur
    BY <2>f, <2>g, IdleTyped DEF Ticks
  <2>b. \/ venue' = [venue EXCEPT ![tick.cur] = "open"] /\ (tick'.at = "insert" \/ "order" \in faults)
        \/ venue' = venue /\ tick'.at = "routes"
    BY <1>17 DEF SubmitOrder, Fails
  <2>c. UNCHANGED <<faults, up, enabled, book, row, mirrors, alerted, alerts>>
    BY <1>17 DEF SubmitOrder
  <2>1. TypeOK'
    BY <2>f, <2>a, <2>b, <2>c DEF Seated, Open, Ticks
  <2>2. ClosingHasEnded'
    BY <2>f, <2>a, <2>b, <2>c DEF Seated, Open
  <2>3. MirrorIsFirst'
    BY <2>f, <2>a, <2>b, <2>c DEF Seated, Open
  <2>4. EntryHasSeat'
    BY <2>f, <2>a, <2>b, <2>c DEF Seated, Open
  <2>5. RecordedIsFilled'
    BY <2>f, <2>a, <2>b, <2>c DEF Seated, Open
  <2>6. OpenIsRecorded'
    BY <2>f, <2>a, <2>b, <2>c DEF Seated, Open
  <2>7. AlertsRemembered'
    BY <2>f, <2>a, <2>b, <2>c DEF Seated, Open
  <2>8. OneRowPerBook'
    BY <2>f, <2>a, <2>b, <2>c DEF Seated, Open
  <2>9. OpenStaysWatched'
    BY <2>f, <2>a, <2>b, <2>c DEF Seated, Open
  <2> QED
    BY <2>1, <2>2, <2>3, <2>4, <2>5, <2>6, <2>7, <2>8, <2>9
<1>18. CASE RecordOpen
  <2>f. /\ tick.cur \in Trades /\ venue[tick.cur] # "none" /\ tick.at = "insert"
        /\ row[tick.cur] = "none"
    BY <1>18 DEF RecordOpen
  <2>g. \/ tick' = IdleTick
        \/ tick' = [tick EXCEPT !.at = "routes", !.cur = NoTrade]
    BY <1>18 DEF RecordOpen
  <2>a. /\ tick' \in Ticks
        /\ tick'.at \in {"routes", "idle"}
        /\ tick'.at = "routes" => tick'.needing = tick.needing
    BY <2>f, <2>g, IdleTyped DEF Ticks
  <2>b. \/ row' = [row EXCEPT ![tick.cur] = "null"]
        \/ row' = row /\ tick'.at = "idle" /\ "db" \in faults
    BY <1>18 DEF RecordOpen, Fails
  <2>c. UNCHANGED <<faults, up, enabled, book, venue, mirrors, alerted, alerts>>
    BY <1>18 DEF RecordOpen
  <2>d. book[tick.cur] \notin tick.needing
    BY <2>f
  <2>e. \A t \in Trades : row[t] = "null" => book[t] # book[tick.cur]
    BY <2>f DEF Seated, Open
  <2>1. TypeOK'
    BY <2>f, <2>a, <2>b, <2>c, <2>d, <2>e DEF Seated, Open, Ticks
  <2>2. ClosingHasEnded'
    BY <2>f, <2>a, <2>b, <2>c, <2>d, <2>e DEF Seated, Open
  <2>3. MirrorIsFirst'
    BY <2>f, <2>a, <2>b, <2>c, <2>d, <2>e DEF Seated, Open
  <2>4. EntryHasSeat'
    BY <2>f, <2>a, <2>b, <2>c, <2>d, <2>e DEF Seated, Open
  <2>5. RecordedIsFilled'
    BY <2>f, <2>a, <2>b, <2>c, <2>d, <2>e DEF Seated, Open
  <2>6. OpenIsRecorded'
    BY <2>f, <2>a, <2>b, <2>c, <2>d, <2>e DEF Seated, Open
  <2>7. AlertsRemembered'
    BY <2>f, <2>a, <2>b, <2>c, <2>d, <2>e DEF Seated, Open
  <2>8. OneRowPerBook'
    BY <2>f, <2>a, <2>b, <2>c, <2>d, <2>e DEF Seated, Open
  <2>9. OpenStaysWatched'
    BY <2>f, <2>a, <2>b, <2>c, <2>d, <2>e DEF Seated, Open
  <2> QED
    BY <2>1, <2>2, <2>3, <2>4, <2>5, <2>6, <2>7, <2>8, <2>9
<1>19. CASE Crash
  <2>1. TypeOK'
    BY <1>19, IdleTyped DEF Crash, Ticks
  <2>2. ClosingHasEnded'
    BY <1>19 DEF Crash, Seated, Open, Polled, Alert, Fails, NoAlerts
  <2>3. MirrorIsFirst'
    BY <1>19 DEF Crash, Seated, Open, Polled, Alert, Fails, NoAlerts
  <2>4. EntryHasSeat'
    BY <1>19 DEF Crash, Seated, Open, Polled, Alert, Fails, NoAlerts
  <2>5. RecordedIsFilled'
    BY <1>19 DEF Crash, Seated, Open, Polled, Alert, Fails, NoAlerts
  <2>6. OpenIsRecorded'
    BY <1>19 DEF Crash, Seated, Open, Polled, Alert, Fails, NoAlerts
  <2>7. AlertsRemembered'
    BY <1>19 DEF Crash, Seated, Open, Polled, Alert, Fails, NoAlerts
  <2>8. OneRowPerBook'
    BY <1>19 DEF Crash, Seated, Open, Polled, Alert, Fails, NoAlerts
  <2>9. OpenStaysWatched'
    BY <1>19 DEF Crash, Seated, Open, Polled, Alert, Fails, NoAlerts
  <2> QED
    BY <2>1, <2>2, <2>3, <2>4, <2>5, <2>6, <2>7, <2>8, <2>9
<1>20. CASE Restart
  BY <1>20 DEF Restart, Seated, Open, Polled, Alert, Fails, NoAlerts
<1>21. CASE UNCHANGED vars
  BY <1>21 DEF vars, Seated, Open
<1> QED
  BY <1>1, <1>2, <1>3, <1>4, <1>5, <1>6, <1>7, <1>8, <1>9, <1>10, <1>11, <1>12, <1>13, <1>14, <1>15, <1>16, <1>17, <1>18, <1>19, <1>20, <1>21 DEF Next, TickStep

-----------------------------------------------------------------------------
LEMMA AlwaysIInv == Spec => []IInv
BY InitInductive, StepInductive, PTL DEF Spec

(* Every reachable state is well typed: a trade has at most one mirror and *)
(* at most one alert of each process, over any number of ticks.            *)
THEOREM TypeCorrect == Spec => []TypeOK
<1>1. IInv => TypeOK
  BY DEF IInv
<1> QED
  BY AlwaysIInv, <1>1, PTL

(* A trade without a stop loss that is still open at its broker is never   *)
(* booked nor mirrored, whatever fails and whenever the process dies.      *)
THEOREM NeverTakenForClosed == Spec => []OpenStaysWatched
<1>1. IInv => OpenStaysWatched
  BY DEF IInv
<1> QED
  BY AlwaysIInv, <1>1, PTL

(* A book has one open row, and one open trade as long as no order, write  *)
(* or process is lost, though seats are read before all orders of a tick.  *)
THEOREM OneTradePerBook == Spec => []OnePerBook
<1>1. IInv => OnePerBook
  <2> SUFFICES ASSUME IInv, NEW t \in Trades, NEW u \in Trades, book[t] = book[u],
                      Without({"db", "order", "crash"}), venue[t] = "open", venue[u] = "open",
                      t # u
               PROVE  FALSE
    BY DEF OnePerBook, IInv, OneRowPerBook
  <2>1. \A v \in Trades : venue[v] = "open" =>
          row[v] = "null" \/ (tick.at = "insert" /\ tick.cur = v)
    BY DEF IInv, TypeOK, OpenIsRecorded, OpenStaysWatched
  <2>2. tick.at = "insert" => \A v \in Trades : row[v] = "null" => book[v] # book[tick.cur]
    BY DEF IInv, EntryHasSeat, Seated, Open
  <2> QED
    BY <2>1, <2>2 DEF IInv, OneRowPerBook
<1> QED
  BY AlwaysIInv, <1>1, PTL

-----------------------------------------------------------------------------
(* Every step fills or ends one trade, or writes one word in one table, of *)
(* a trade that has come that far; or it leaves all of them as they are.   *)
Fills(t)   == venue[t] = "none" /\ venue' = [venue EXCEPT ![t] = "open"]
Ends(t)    == venue[t] = "open" /\ venue' = [venue EXCEPT ![t] = "closed"]
Records(t) == row[t] = "none" /\ venue[t] # "none" /\ row' = [row EXCEPT ![t] = "null"]
Settles(t) == venue[t] = "closed" /\ row' = [row EXCEPT ![t] = "booked"]
Mirrors(t) ==
  venue[t] = "closed" /\ row[t] = "booked" /\ mirrors' = [mirrors EXCEPT ![t] = @ + 1]

OneMove ==
  \/ UNCHANGED <<venue, row, mirrors>>
  \/ \E t \in Trades :
       \/ (Fills(t) \/ Ends(t)) /\ UNCHANGED <<row, mirrors>>
       \/ (Records(t) \/ Settles(t)) /\ UNCHANGED <<venue, mirrors>>
       \/ Mirrors(t) /\ UNCHANGED <<venue, row>>

LEMMA StepIsOneMove == IInv /\ [Next]_vars => OneMove
<1> SUFFICES ASSUME IInv, [Next]_vars PROVE OneMove
  OBVIOUS
<1> USE DEF OneMove, process, market, tables, watch
<1>1. ASSUME NEW t \in Trades, VenueEnds(t) PROVE OneMove
  BY <1>1 DEF VenueEnds, Ends
<1>2. CASE PersistClose
  BY <1>2 DEF PersistClose, At, IInv, ClosingHasEnded, Settles
<1>3. CASE InsertMirror
  BY <1>3 DEF InsertMirror, At, IInv, ClosingHasEnded, Mirrors
<1>4. CASE SubmitOrder
  BY <1>4 DEF SubmitOrder, At, IInv, EntryHasSeat, Fills
<1>5. CASE RecordOpen
  BY <1>5 DEF RecordOpen, At, IInv, EntryHasSeat, Records
<1>6. CASE Operator \/ Gate \/ TickThrows \/ Crash \/ Restart \/ UNCHANGED vars
  BY <1>6 DEF Operator, Gate, TickThrows, Crash, Restart, vars
<1>7. ASSUME NEW t \in Trades, PollSkips(t) \/ PollFinds(t) PROVE OneMove
  BY <1>7 DEF PollSkips, PollFinds
<1>8. ASSUME NEW far \in SUBSET Trades, MaeWatch(far) PROVE OneMove
  BY <1>8 DEF MaeWatch
<1>9. CASE LoadOpen \/ PollDone \/ MirrorExists \/ EntryDone
  BY <1>9 DEF LoadOpen, PollDone, MirrorExists, EntryDone
<1>10. ASSUME NEW chosen \in SUBSET Books, RoutesNeedingEntry(chosen) PROVE OneMove
  BY <1>10 DEF RoutesNeedingEntry
<1>11. ASSUME NEW b \in Books, RoutePassed(b) \/ Route(b) PROVE OneMove
  BY <1>11 DEF RoutePassed, Route
<1> QED
  BY <1>1, <1>2, <1>3, <1>4, <1>5, <1>6, <1>7, <1>8, <1>9, <1>10, <1>11 DEF Next, TickStep

LEMMA MoveIsATablesStep ==
  ASSUME TypeOK, OneMove
  PROVE  [Tables!TablesNext]_<<venue, RowSays, MirrorSays>>
<1> USE DEF TypeOK, RowSays, MirrorSays
<1>1. CASE UNCHANGED <<venue, row, mirrors>>
  BY <1>1
<1>2. ASSUME NEW t \in Trades, Fills(t) \/ Ends(t), UNCHANGED <<row, mirrors>>
      PROVE  Tables!Fill(t) \/ Tables!End(t)
  BY <1>2 DEF Fills, Ends, Tables!Fill, Tables!End, Tables!Moves
<1>3. ASSUME NEW t \in Trades, Records(t), UNCHANGED <<venue, mirrors>>
      PROVE  Tables!WriteRow({t}, "open")
  BY <1>3 DEF Records, Tables!WriteRow, Tables!Says, Tables!Behind
<1>4. ASSUME NEW t \in Trades, Settles(t), UNCHANGED <<venue, mirrors>>
      PROVE  Tables!WriteRow({t}, "closed") \/ UNCHANGED <<venue, row, mirrors>>
  BY <1>4 DEF Settles, Tables!WriteRow, Tables!Says, Tables!Behind
<1>5. ASSUME NEW t \in Trades, Mirrors(t), UNCHANGED <<venue, row>>
      PROVE  Tables!WriteMirror({t}, "closed") \/ UNCHANGED <<venue, RowSays, MirrorSays>>
  BY <1>5 DEF Mirrors, Tables!WriteMirror, Tables!Says, Tables!Behind
<1>6. \A t \in Trades : {t} \in SUBSET Trades
  OBVIOUS
<1> QED
  BY <1>1, <1>2, <1>3, <1>4, <1>5, <1>6 DEF OneMove, Tables!TablesNext

(* The engine implements TradeTables: over any number of ticks, failures   *)
(* and restarts its two tables follow each trade, tell its end only after  *)
(* its end, and take nothing back.                                         *)
THEOREM TablesImplemented == Spec => ImplementsTables
<1>1. Init => Tables!TablesInit
  BY DEF Init, Tables!TablesInit, RowSays, MirrorSays
<1>2. IInv /\ [Next]_vars => [Tables!TablesNext]_<<venue, RowSays, MirrorSays>>
  BY StepIsOneMove, MoveIsATablesStep DEF IInv
<1> QED
  BY <1>1, <1>2, AlwaysIInv, PTL DEF Spec, ImplementsTables, Tables!Spec
=============================================================================
