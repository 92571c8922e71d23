----------------------------- MODULE FadeProofs -----------------------------
(***************************************************************************)
(* Proofs about Fade for any number of trades and brokers, any daily limit *)
(* and any choice of faults: the type invariant, that what is booked has   *)
(* ended, one trade of a date for each broker, and that the tables follow  *)
(* the trades as TradeTables promises; and the same of PdlWindow.          *)
(***************************************************************************)
EXTENDS Fade, TLAPS

(* No close that OANDA cancelled is taken for done.                        *)
Honest == \A F \in FaultSets : "closeCancel" \notin F

(* What tick and cron hold while they record a close has ended.            *)
TickHasEnded ==
  /\ tick.at \in {"close", "row", "sync", "mirror"} => tick.cur \in Trades /\ row[tick.cur] # "none"
  /\ \A t \in tick.todo : row[t] # "none"
  /\ Honest /\ tick.at \in {"row", "sync", "mirror"} => venue[tick.cur] = "closed"

CronHasEnded ==
  /\ cron.at \in {"close", "row", "sync", "mirror"} => cron.cur \in Trades /\ row[cron.cur] # "none"
  /\ \A t \in cron.todo : row[t] # "none"
  /\ Honest /\ cron.at \in {"row", "sync", "mirror"} => venue[cron.cur] = "closed"

(* Tick and cron may both find no mirror and both insert one.              *)
MirrorRace ==
  /\ tick.at = "mirror" => mirrors[tick.cur] <= 1
  /\ cron.at = "mirror" => mirrors[cron.cur] <= 1
  /\ tick.at = "mirror" /\ cron.at = "mirror" /\ tick.cur = cron.cur => mirrors[tick.cur] = 0

(* An entry places a new trade, while its broker holds none of the date.   *)
EntryHasSlot ==
  /\ tick.at \in {"order", "insert"} =>
       /\ tick.cur \in Trades /\ row[tick.cur] = "none"
       /\ Taken(broker[tick.cur]) \cap Open = {}
  /\ tick.at = "order" => venue[tick.cur] = "none"
  /\ tick.at = "insert" => venue[tick.cur] # "none"

RecordedIsFilled == \A t \in Trades : row[t] # "none" => venue[t] # "none"
TodayIsRecorded  == \A t \in today : row[t] # "none"

OneRowOfADate ==
  \A t, u \in today : broker[t] = broker[u] /\ row[t] = "null" /\ row[u] = "null" => t = u

BookedIsClosed == Honest => BookedHasEnded

IInv ==
  /\ TypeOK /\ TickHasEnded /\ CronHasEnded /\ MirrorRace /\ EntryHasSlot
  /\ RecordedIsFilled /\ TodayIsRecorded /\ OneRowOfADate /\ BookedIsClosed
-----------------------------------------------------------------------------
Ticks == [at : {"idle"} \cup ExitPcs \cup EntryPcs, todo : SUBSET Trades,
          routes : SUBSET Brokers, cur : Trades \cup {NoTrade}, hold : BOOLEAN]
Crons == [at : CronPcs, todo : SUBSET Trades, cur : Trades \cup {NoTrade}]

LEMMA IdleTyped == IdleTick \in Ticks /\ IdleCron \in Crons
BY DEF Ticks, Crons, IdleTick, IdleCron, CronPcs

LEMMA InitInductive == Init => IInv
<1> SUFFICES ASSUME Init PROVE IInv
  OBVIOUS
<1>1. (CHOOSE b \in Brokers : TRUE) \in Brokers
  BY FadeAssumption
<1>2. TypeOK
  BY <1>1, IdleTyped DEF Init, TypeOK, Ticks, Crons
<1> QED
  BY <1>2 DEF Init, IInv, TickHasEnded, CronHasEnded, MirrorRace, EntryHasSlot,
     RecordedIsFilled, TodayIsRecorded, OneRowOfADate, BookedIsClosed, BookedHasEnded, IdleTick, IdleCron

LEMMA GotoTick ==
  ASSUME tick \in Ticks
  PROVE  \A label \in {"idle"} \cup ExitPcs \cup EntryPcs :
           Goto(label) => /\ tick' \in Ticks /\ tick'.at = label
                          /\ tick'.todo \subseteq tick.todo
                          /\ label \in {"close", "row", "sync", "mirror", "order", "insert"} =>
                               tick'.cur = tick.cur
<1> SUFFICES ASSUME NEW label \in {"idle"} \cup ExitPcs \cup EntryPcs, Goto(label)
             PROVE  /\ tick' \in Ticks /\ tick'.at = label
                    /\ tick'.todo \subseteq tick.todo
                    /\ label \in {"close", "row", "sync", "mirror", "order", "insert"} =>
                         tick'.cur = tick.cur
  OBVIOUS
<1>1. CASE label \in {"idle", "entry"}
  BY <1>1 DEF Goto, Ticks, IdleTick, ExitPcs, EntryPcs
<1>2. CASE label \in {"poll", "routes"}
  BY <1>2 DEF Goto, Ticks, ExitPcs, EntryPcs
<1>3. CASE label \notin {"idle", "entry", "poll", "routes"}
  BY <1>3 DEF Goto, Ticks
<1> QED
  BY <1>1, <1>2, <1>3

LEMMA CronTo ==
  ASSUME cron \in Crons
  PROVE  \A label \in CronPcs :
           Cron(label) => /\ cron' \in Crons /\ cron'.at = label /\ cron'.todo = cron.todo
                          /\ label \in {"close", "row", "sync", "mirror"} => cron'.cur = cron.cur
BY DEF Cron, Crons, CronPcs

LEMMA StepInductive == IInv /\ [Next]_vars => IInv'
<1> SUFFICES ASSUME IInv, [Next]_vars PROVE IInv'
  OBVIOUS
<1> USE DEF IInv, TypeOK, TickHasEnded, CronHasEnded, MirrorRace, EntryHasSlot, RecordedIsFilled,
    TodayIsRecorded, OneRowOfADate, BookedIsClosed, BookedHasEnded, ExitPcs, EntryPcs, CronPcs,
    Ticks, Crons, At, AtCron, process, market, tables, Fails
<1>1. ASSUME NEW t \in Trades, VenueEnds(t) PROVE IInv'
  BY <1>1 DEF VenueEnds, Taken, Open, Closed
<1>2. ASSUME NEW t \in Trades, Ages(t) PROVE IInv'
  BY <1>2 DEF Ages, Taken, Open
<1>3. ASSUME NEW t \in Trades, PollSkips(t) PROVE IInv'
  BY <1>3 DEF PollSkips, Taken, Open
<1>4. ASSUME NEW t \in Trades, PollFinds(t) PROVE IInv'
  <2>1. TypeOK'
    <3>1. tick' = [tick EXCEPT !.at = "row", !.todo = @ \ {t}, !.cur = t, !.hold = FALSE]
          \/ tick' = [tick EXCEPT !.at = "close", !.todo = @ \ {t}, !.cur = t, !.hold = TRUE]
      BY <1>4 DEF PollFinds, Polled
    <3>2. CASE tick' = [tick EXCEPT !.at = "row", !.todo = @ \ {t}, !.cur = t, !.hold = FALSE]
      BY <1>4, <3>2 DEF PollFinds
    <3>3. CASE tick' = [tick EXCEPT !.at = "close", !.todo = @ \ {t}, !.cur = t, !.hold = TRUE]
      BY <1>4, <3>3 DEF PollFinds
    <3> QED
      BY <3>1, <3>2, <3>3
  <2>2. TickHasEnded'
    <3>1. /\ tick'.cur = t /\ tick'.todo = tick.todo \ {t} /\ row' = row /\ venue' = venue
          /\ tick'.at = "close" \/ (tick'.at = "row" /\ venue[t] = "closed")
      BY <1>4 DEF PollFinds, Polled
    <3>2. t \in tick.todo
      BY <1>4 DEF PollFinds
    <3> QED
      BY <3>1, <3>2
  <2>3. CronHasEnded'
    BY <1>4 DEF PollFinds, Polled
  <2>4. MirrorRace'
    BY <1>4 DEF PollFinds, Polled
  <2>5. EntryHasSlot'
    BY <1>4 DEF PollFinds, Taken, Open, Polled
  <2>6. RecordedIsFilled'
    BY <1>4 DEF PollFinds, Polled
  <2>7. TodayIsRecorded'
    BY <1>4 DEF PollFinds, Polled
  <2>8. OneRowOfADate'
    BY <1>4 DEF PollFinds, Polled
  <2>9. BookedIsClosed'
    BY <1>4 DEF PollFinds, Polled
  <2> QED
    BY <2>1, <2>2, <2>3, <2>4, <2>5, <2>6, <2>7, <2>8, <2>9
<1>5. ASSUME NEW t \in Trades, CronEach(t) PROVE IInv'
  BY <1>5 DEF CronEach, Taken, Open
<1>6. CASE TenPm
  BY <1>6, CronTo DEF TenPm, Taken, Open
<1>7. CASE Midnight
  BY <1>7 DEF Midnight, Taken, Open
<1>8. CASE TickThrows
  <2>1. TypeOK'
    BY <1>8, GotoTick DEF TickThrows
  <2>2. TickHasEnded'
    BY <1>8, GotoTick DEF TickThrows
  <2>3. CronHasEnded'
    BY <1>8, GotoTick DEF TickThrows
  <2>4. MirrorRace'
    BY <1>8, GotoTick DEF TickThrows
  <2>5. EntryHasSlot'
    BY <1>8, GotoTick DEF TickThrows, Taken, Open
  <2>6. RecordedIsFilled'
    BY <1>8, GotoTick DEF TickThrows
  <2>7. TodayIsRecorded'
    BY <1>8, GotoTick DEF TickThrows
  <2>8. OneRowOfADate'
    BY <1>8, GotoTick DEF TickThrows
  <2>9. BookedIsClosed'
    BY <1>8, GotoTick DEF TickThrows
  <2> QED
    BY <2>1, <2>2, <2>3, <2>4, <2>5, <2>6, <2>7, <2>8, <2>9
<1>9. CASE LoadOpen
  <2>1. TypeOK'
    BY <1>9, IdleTyped DEF LoadOpen, Open, IdleTick
  <2>2. TickHasEnded'
    BY <1>9, IdleTyped DEF LoadOpen, Open, IdleTick
  <2>3. CronHasEnded'
    BY <1>9, IdleTyped DEF LoadOpen, Open, IdleTick
  <2>4. MirrorRace'
    BY <1>9, IdleTyped DEF LoadOpen, Open, IdleTick
  <2>5. EntryHasSlot'
    BY <1>9, IdleTyped DEF LoadOpen, Taken, Open, IdleTick
  <2>6. RecordedIsFilled'
    BY <1>9, IdleTyped DEF LoadOpen, Open, IdleTick
  <2>7. TodayIsRecorded'
    BY <1>9, IdleTyped DEF LoadOpen, Open, IdleTick
  <2>8. OneRowOfADate'
    BY <1>9, IdleTyped DEF LoadOpen, Open, IdleTick
  <2>9. BookedIsClosed'
    BY <1>9, IdleTyped DEF LoadOpen, Open, IdleTick
  <2> QED
    BY <2>1, <2>2, <2>3, <2>4, <2>5, <2>6, <2>7, <2>8, <2>9
<1>10. CASE PollDone
  <2>1. TypeOK'
    BY <1>10, GotoTick DEF PollDone
  <2>2. TickHasEnded'
    BY <1>10, GotoTick DEF PollDone
  <2>3. CronHasEnded'
    BY <1>10, GotoTick DEF PollDone
  <2>4. MirrorRace'
    BY <1>10, GotoTick DEF PollDone
  <2>5. EntryHasSlot'
    BY <1>10, GotoTick DEF PollDone, Taken, Open
  <2>6. RecordedIsFilled'
    BY <1>10, GotoTick DEF PollDone
  <2>7. TodayIsRecorded'
    BY <1>10, GotoTick DEF PollDone
  <2>8. OneRowOfADate'
    BY <1>10, GotoTick DEF PollDone
  <2>9. BookedIsClosed'
    BY <1>10, GotoTick DEF PollDone
  <2> QED
    BY <2>1, <2>2, <2>3, <2>4, <2>5, <2>6, <2>7, <2>8, <2>9
<1>11. CASE ForceCloseMaxHold
  <2>1. TypeOK'
    BY <1>11, GotoTick DEF ForceCloseMaxHold, Closed, CloseWorks, CloseThrows
  <2>2. TickHasEnded'
    BY <1>11, GotoTick DEF ForceCloseMaxHold, Closed, CloseWorks, CloseThrows, Honest
  <2>3. CronHasEnded'
    BY <1>11, GotoTick DEF ForceCloseMaxHold, Closed, CloseWorks, CloseThrows
  <2>4. MirrorRace'
    BY <1>11, GotoTick DEF ForceCloseMaxHold, Closed, CloseWorks, CloseThrows
  <2>5. EntryHasSlot'
    BY <1>11, GotoTick DEF ForceCloseMaxHold, Taken, Open, Closed, CloseWorks, CloseThrows
  <2>6. RecordedIsFilled'
    BY <1>11, GotoTick DEF ForceCloseMaxHold, Closed, CloseWorks, CloseThrows
  <2>7. TodayIsRecorded'
    BY <1>11, GotoTick DEF ForceCloseMaxHold, Closed, CloseWorks, CloseThrows
  <2>8. OneRowOfADate'
    BY <1>11, GotoTick DEF ForceCloseMaxHold, Closed, CloseWorks, CloseThrows
  <2>9. BookedIsClosed'
    BY <1>11, GotoTick DEF ForceCloseMaxHold, Closed, CloseWorks, CloseThrows
  <2> QED
    BY <2>1, <2>2, <2>3, <2>4, <2>5, <2>6, <2>7, <2>8, <2>9
<1>12. CASE PersistClose
  <2>1. TypeOK'
    BY <1>12, GotoTick DEF PersistClose, Book
  <2>2. TickHasEnded'
    BY <1>12, GotoTick DEF PersistClose, Book
  <2>3. CronHasEnded'
    BY <1>12, GotoTick DEF PersistClose, Book
  <2>4. MirrorRace'
    BY <1>12, GotoTick DEF PersistClose, Book
  <2>5. EntryHasSlot'
    BY <1>12, GotoTick DEF PersistClose, Taken, Open, Book
  <2>6. RecordedIsFilled'
    BY <1>12, GotoTick DEF PersistClose, Book
  <2>7. TodayIsRecorded'
    BY <1>12, GotoTick DEF PersistClose, Book
  <2>8. OneRowOfADate'
    BY <1>12, GotoTick DEF PersistClose, Book
  <2>9. BookedIsClosed'
    BY <1>12, GotoTick DEF PersistClose, Book
  <2> QED
    BY <2>1, <2>2, <2>3, <2>4, <2>5, <2>6, <2>7, <2>8, <2>9
<1>13. CASE MirrorExists
  <2>1. TypeOK'
    BY <1>13, GotoTick DEF MirrorExists
  <2>2. TickHasEnded'
    BY <1>13, GotoTick DEF MirrorExists
  <2>3. CronHasEnded'
    BY <1>13, GotoTick DEF MirrorExists
  <2>4. MirrorRace'
    BY <1>13, GotoTick DEF MirrorExists
  <2>5. EntryHasSlot'
    BY <1>13, GotoTick DEF MirrorExists, Taken, Open
  <2>6. RecordedIsFilled'
    BY <1>13, GotoTick DEF MirrorExists
  <2>7. TodayIsRecorded'
    BY <1>13, GotoTick DEF MirrorExists
  <2>8. OneRowOfADate'
    BY <1>13, GotoTick DEF MirrorExists
  <2>9. BookedIsClosed'
    BY <1>13, GotoTick DEF MirrorExists
  <2> QED
    BY <2>1, <2>2, <2>3, <2>4, <2>5, <2>6, <2>7, <2>8, <2>9
<1>14. CASE InsertMirror
  <2>1. TypeOK'
    BY <1>14, GotoTick DEF InsertMirror, Mirror
  <2>2. TickHasEnded'
    BY <1>14, GotoTick DEF InsertMirror, Mirror
  <2>3. CronHasEnded'
    BY <1>14, GotoTick DEF InsertMirror, Mirror
  <2>4. MirrorRace'
    BY <1>14, GotoTick DEF InsertMirror, Mirror
  <2>5. EntryHasSlot'
    BY <1>14, GotoTick DEF InsertMirror, Taken, Open, Mirror
  <2>6. RecordedIsFilled'
    BY <1>14, GotoTick DEF InsertMirror, Mirror
  <2>7. TodayIsRecorded'
    BY <1>14, GotoTick DEF InsertMirror, Mirror
  <2>8. OneRowOfADate'
    BY <1>14, GotoTick DEF InsertMirror, Mirror
  <2>9. BookedIsClosed'
    BY <1>14, GotoTick DEF InsertMirror, Mirror
  <2> QED
    BY <2>1, <2>2, <2>3, <2>4, <2>5, <2>6, <2>7, <2>8, <2>9
<1>15. CASE LoadRoutes
  <2>1. TypeOK'
    BY <1>15, IdleTyped DEF LoadRoutes, IdleTick
  <2>2. TickHasEnded'
    BY <1>15, IdleTyped DEF LoadRoutes, IdleTick
  <2>3. CronHasEnded'
    BY <1>15, IdleTyped DEF LoadRoutes, IdleTick
  <2>4. MirrorRace'
    BY <1>15, IdleTyped DEF LoadRoutes, IdleTick
  <2>5. EntryHasSlot'
    BY <1>15, IdleTyped DEF LoadRoutes, Taken, Open, IdleTick
  <2>6. RecordedIsFilled'
    BY <1>15, IdleTyped DEF LoadRoutes, IdleTick
  <2>7. TodayIsRecorded'
    BY <1>15, IdleTyped DEF LoadRoutes, IdleTick
  <2>8. OneRowOfADate'
    BY <1>15, IdleTyped DEF LoadRoutes, IdleTick
  <2>9. BookedIsClosed'
    BY <1>15, IdleTyped DEF LoadRoutes, IdleTick
  <2> QED
    BY <2>1, <2>2, <2>3, <2>4, <2>5, <2>6, <2>7, <2>8, <2>9
<1>16. CASE EntryDone
  <2>1. TypeOK'
    BY <1>16, GotoTick DEF EntryDone
  <2>2. TickHasEnded'
    BY <1>16, GotoTick DEF EntryDone
  <2>3. CronHasEnded'
    BY <1>16, GotoTick DEF EntryDone
  <2>4. MirrorRace'
    BY <1>16, GotoTick DEF EntryDone
  <2>5. EntryHasSlot'
    BY <1>16, GotoTick DEF EntryDone, Taken, Open
  <2>6. RecordedIsFilled'
    BY <1>16, GotoTick DEF EntryDone
  <2>7. TodayIsRecorded'
    BY <1>16, GotoTick DEF EntryDone
  <2>8. OneRowOfADate'
    BY <1>16, GotoTick DEF EntryDone
  <2>9. BookedIsClosed'
    BY <1>16, GotoTick DEF EntryDone
  <2> QED
    BY <2>1, <2>2, <2>3, <2>4, <2>5, <2>6, <2>7, <2>8, <2>9
<1>17. CASE Order
  <2>1. TypeOK'
    BY <1>17, GotoTick DEF Order
  <2>2. TickHasEnded'
    BY <1>17, GotoTick DEF Order
  <2>3. CronHasEnded'
    BY <1>17, GotoTick DEF Order
  <2>4. MirrorRace'
    BY <1>17, GotoTick DEF Order
  <2>5. EntryHasSlot'
    BY <1>17, GotoTick DEF Order, Taken, Open
  <2>6. RecordedIsFilled'
    BY <1>17, GotoTick DEF Order
  <2>7. TodayIsRecorded'
    BY <1>17, GotoTick DEF Order
  <2>8. OneRowOfADate'
    BY <1>17, GotoTick DEF Order
  <2>9. BookedIsClosed'
    BY <1>17, GotoTick DEF Order
  <2> QED
    BY <2>1, <2>2, <2>3, <2>4, <2>5, <2>6, <2>7, <2>8, <2>9
<1>18. CASE Insert
  <2>1. TypeOK'
    BY <1>18, GotoTick DEF Insert
  <2>2. TickHasEnded'
    BY <1>18, GotoTick DEF Insert
  <2>3. CronHasEnded'
    BY <1>18, GotoTick DEF Insert
  <2>4. MirrorRace'
    BY <1>18, GotoTick DEF Insert
  <2>5. EntryHasSlot'
    BY <1>18, GotoTick DEF Insert, Taken, Open
  <2>6. RecordedIsFilled'
    BY <1>18, GotoTick DEF Insert
  <2>7. TodayIsRecorded'
    BY <1>18, GotoTick DEF Insert
  <2>8. OneRowOfADate'
    BY <1>18, GotoTick DEF Insert, Taken, Open
  <2>9. BookedIsClosed'
    BY <1>18, GotoTick DEF Insert
  <2> QED
    BY <2>1, <2>2, <2>3, <2>4, <2>5, <2>6, <2>7, <2>8, <2>9
<1>19. CASE CronLoad
  <2>1. TypeOK'
    <3>1. Open \in SUBSET Trades
      BY DEF Open
    <3>2. cron' \in Crons
      BY <1>19, <3>1, CronTo DEF CronLoad
    <3> QED
      BY <1>19, <3>2 DEF CronLoad
  <2>2. TickHasEnded'
    BY <1>19, CronTo DEF CronLoad, Open
  <2>3. CronHasEnded'
    <3>1. \A t \in Open : row[t] # "none"
      BY DEF Open
    <3>2. CASE cron' = [cron EXCEPT !.at = "each", !.todo = Open]
      BY <1>19, <3>1, <3>2 DEF CronLoad
    <3>3. CASE Cron("idle")
      BY <1>19, <3>3, CronTo DEF CronLoad
    <3> QED
      BY <1>19, <3>2, <3>3 DEF CronLoad
  <2>4. MirrorRace'
    BY <1>19, CronTo DEF CronLoad, Open
  <2>5. EntryHasSlot'
    BY <1>19, CronTo DEF CronLoad, Taken, Open
  <2>6. RecordedIsFilled'
    BY <1>19, CronTo DEF CronLoad, Open
  <2>7. TodayIsRecorded'
    BY <1>19, CronTo DEF CronLoad, Open
  <2>8. OneRowOfADate'
    BY <1>19, CronTo DEF CronLoad, Open
  <2>9. BookedIsClosed'
    BY <1>19, CronTo DEF CronLoad, Open
  <2> QED
    BY <2>1, <2>2, <2>3, <2>4, <2>5, <2>6, <2>7, <2>8, <2>9
<1>20. CASE CronDone
  <2>1. TypeOK'
    BY <1>20, CronTo DEF CronDone
  <2>2. TickHasEnded'
    BY <1>20, CronTo DEF CronDone
  <2>3. CronHasEnded'
    BY <1>20, CronTo DEF CronDone
  <2>4. MirrorRace'
    BY <1>20, CronTo DEF CronDone
  <2>5. EntryHasSlot'
    BY <1>20, CronTo DEF CronDone, Taken, Open
  <2>6. RecordedIsFilled'
    BY <1>20, CronTo DEF CronDone
  <2>7. TodayIsRecorded'
    BY <1>20, CronTo DEF CronDone
  <2>8. OneRowOfADate'
    BY <1>20, CronTo DEF CronDone
  <2>9. BookedIsClosed'
    BY <1>20, CronTo DEF CronDone
  <2> QED
    BY <2>1, <2>2, <2>3, <2>4, <2>5, <2>6, <2>7, <2>8, <2>9
<1>21. CASE CronClose
  <2>1. TypeOK'
    BY <1>21, CronTo DEF CronClose, Closed, CloseWorks, CloseThrows
  <2>2. TickHasEnded'
    BY <1>21, CronTo DEF CronClose, Closed, CloseWorks, CloseThrows
  <2>3. CronHasEnded'
    BY <1>21, CronTo DEF CronClose, Closed, CloseWorks, CloseThrows, Honest
  <2>4. MirrorRace'
    BY <1>21, CronTo DEF CronClose, Closed, CloseWorks, CloseThrows
  <2>5. EntryHasSlot'
    BY <1>21, CronTo DEF CronClose, Taken, Open, Closed, CloseWorks, CloseThrows
  <2>6. RecordedIsFilled'
    BY <1>21, CronTo DEF CronClose, Closed, CloseWorks, CloseThrows
  <2>7. TodayIsRecorded'
    BY <1>21, CronTo DEF CronClose, Closed, CloseWorks, CloseThrows
  <2>8. OneRowOfADate'
    BY <1>21, CronTo DEF CronClose, Closed, CloseWorks, CloseThrows
  <2>9. BookedIsClosed'
    BY <1>21, CronTo DEF CronClose, Closed, CloseWorks, CloseThrows
  <2> QED
    BY <2>1, <2>2, <2>3, <2>4, <2>5, <2>6, <2>7, <2>8, <2>9
<1>22. CASE CronRow
  <2>1. TypeOK'
    BY <1>22, CronTo DEF CronRow, Book
  <2>2. TickHasEnded'
    BY <1>22, CronTo DEF CronRow, Book
  <2>3. CronHasEnded'
    BY <1>22, CronTo DEF CronRow, Book
  <2>4. MirrorRace'
    BY <1>22, CronTo DEF CronRow, Book
  <2>5. EntryHasSlot'
    <3>1. (row' = [row EXCEPT ![cron.cur] = "booked"] \/ row' = row)
          /\ cron.cur \in Trades /\ row[cron.cur] # "none"
      BY <1>22 DEF CronRow, Book
    <3>2. UNCHANGED <<today, broker, venue, tick>>
      BY <1>22 DEF CronRow
    <3>3. tick.at \in {"order", "insert"} =>
            Taken(broker[tick.cur])' \cap Open' \subseteq Taken(broker[tick.cur]) \cap Open
      BY <3>1, <3>2 DEF Taken, Open
    <3>4. tick.at \in {"order", "insert"} => cron.cur # tick.cur
      BY <3>1, <3>2
    <3> QED
      BY <3>1, <3>2, <3>3, <3>4
  <2>6. RecordedIsFilled'
    BY <1>22, CronTo DEF CronRow, Book
  <2>7. TodayIsRecorded'
    BY <1>22, CronTo DEF CronRow, Book
  <2>8. OneRowOfADate'
    BY <1>22, CronTo DEF CronRow, Book
  <2>9. BookedIsClosed'
    BY <1>22, CronTo DEF CronRow, Book
  <2> QED
    BY <2>1, <2>2, <2>3, <2>4, <2>5, <2>6, <2>7, <2>8, <2>9
<1>23. CASE CronSync
  <2>1. TypeOK'
    BY <1>23, CronTo DEF CronSync
  <2>2. TickHasEnded'
    BY <1>23, CronTo DEF CronSync
  <2>3. CronHasEnded'
    BY <1>23, CronTo DEF CronSync
  <2>4. MirrorRace'
    BY <1>23, CronTo DEF CronSync
  <2>5. EntryHasSlot'
    BY <1>23, CronTo DEF CronSync, Taken, Open
  <2>6. RecordedIsFilled'
    BY <1>23, CronTo DEF CronSync
  <2>7. TodayIsRecorded'
    BY <1>23, CronTo DEF CronSync
  <2>8. OneRowOfADate'
    BY <1>23, CronTo DEF CronSync
  <2>9. BookedIsClosed'
    BY <1>23, CronTo DEF CronSync
  <2> QED
    BY <2>1, <2>2, <2>3, <2>4, <2>5, <2>6, <2>7, <2>8, <2>9
<1>24. CASE CronMirror
  <2>1. TypeOK'
    BY <1>24, CronTo DEF CronMirror, Mirror
  <2>2. TickHasEnded'
    BY <1>24, CronTo DEF CronMirror, Mirror
  <2>3. CronHasEnded'
    BY <1>24, CronTo DEF CronMirror, Mirror
  <2>4. MirrorRace'
    BY <1>24, CronTo DEF CronMirror, Mirror
  <2>5. EntryHasSlot'
    BY <1>24, CronTo DEF CronMirror, Taken, Open, Mirror
  <2>6. RecordedIsFilled'
    BY <1>24, CronTo DEF CronMirror, Mirror
  <2>7. TodayIsRecorded'
    BY <1>24, CronTo DEF CronMirror, Mirror
  <2>8. OneRowOfADate'
    BY <1>24, CronTo DEF CronMirror, Mirror
  <2>9. BookedIsClosed'
    BY <1>24, CronTo DEF CronMirror, Mirror
  <2> QED
    BY <2>1, <2>2, <2>3, <2>4, <2>5, <2>6, <2>7, <2>8, <2>9
<1>25. CASE Crash
  <2>1. TypeOK'
    BY <1>25, IdleTyped DEF Crash, IdleTick, IdleCron
  <2>2. TickHasEnded'
    BY <1>25, IdleTyped DEF Crash, IdleTick, IdleCron
  <2>3. CronHasEnded'
    BY <1>25, IdleTyped DEF Crash, IdleTick, IdleCron
  <2>4. MirrorRace'
    BY <1>25, IdleTyped DEF Crash, IdleTick, IdleCron
  <2>5. EntryHasSlot'
    BY <1>25, IdleTyped DEF Crash, Taken, Open, IdleTick, IdleCron
  <2>6. RecordedIsFilled'
    BY <1>25, IdleTyped DEF Crash, IdleTick, IdleCron
  <2>7. TodayIsRecorded'
    BY <1>25, IdleTyped DEF Crash, IdleTick, IdleCron
  <2>8. OneRowOfADate'
    BY <1>25, IdleTyped DEF Crash, IdleTick, IdleCron
  <2>9. BookedIsClosed'
    BY <1>25, IdleTyped DEF Crash, IdleTick, IdleCron
  <2> QED
    BY <2>1, <2>2, <2>3, <2>4, <2>5, <2>6, <2>7, <2>8, <2>9
<1>26. CASE Restart
  BY <1>26 DEF Restart, Taken, Open
<1>27. ASSUME NEW b \in Brokers, Passed(b) PROVE IInv'
  BY <1>27 DEF Passed, Taken, Open
<1>28. ASSUME NEW b \in Brokers, Setup(b) PROVE IInv'
  <2>1. PICK new \in Trades : /\ venue[new] = "none" /\ row[new] = "none"
                             /\ tick' = [tick EXCEPT !.at = "order", !.routes = @ \ {b}, !.cur = new]
                             /\ broker' = [broker EXCEPT ![new] = b]
    BY <1>28 DEF Setup
  <2>2. /\ tick' \in Ticks /\ tick'.at = "order" /\ tick'.cur = new /\ tick'.todo = tick.todo
        /\ broker' \in [Trades -> Brokers] /\ broker'[new] = b
        /\ \A t \in Trades : t # new => broker'[t] = broker[t]
    BY <2>1
  <2>3. UNCHANGED <<faults, up, clock, venue, row, today, aged, mirrors, cron>>
    BY <1>28 DEF Setup
  <2>4. TypeOK'
    BY <2>2, <2>3
  <2>5. (Taken(b) \cap Open)' = {}
    <3>1. Taken(b) \cap Open = {}
      BY <1>28 DEF Setup, Blocked
    <3> QED
      BY <3>1, <2>1, <2>2, <2>3 DEF Taken, Open
  <2>6. TickHasEnded' /\ CronHasEnded' /\ MirrorRace'
    BY <2>2, <2>3
  <2>7. EntryHasSlot'
    BY <2>1, <2>2, <2>3, <2>5
  <2>8. (RecordedIsFilled /\ TodayIsRecorded /\ BookedIsClosed)'
    BY <2>2, <2>3
  <2>9. OneRowOfADate'
    BY <2>1, <2>2, <2>3
  <2> QED
    BY <2>4, <2>6, <2>7, <2>8, <2>9
<1>29. CASE UNCHANGED vars
  BY <1>29 DEF vars, Taken, Open
<1> QED
  BY <1>1, <1>2, <1>3, <1>4, <1>5, <1>6, <1>7, <1>8, <1>9, <1>10, <1>11, <1>12, <1>13, <1>14, <1>15, <1>16, <1>17, <1>18, <1>19, <1>20, <1>21, <1>22, <1>23, <1>24, <1>25, <1>26, <1>27, <1>28, <1>29 DEF Next, TickStep, CronStep

-----------------------------------------------------------------------------
LEMMA AlwaysIInv == Spec => []IInv
BY InitInductive, StepInductive, PTL DEF Spec

(* Every reachable state is well typed; tick and cron mirror a trade at    *)
(* most twice between them, and only when they race for it.                *)
THEOREM TypeCorrect == Spec => []TypeOK
<1>1. IInv => TypeOK
  BY DEF IInv
<1> QED
  BY AlwaysIInv, <1>1, PTL

(* What is booked or mirrored has ended, whichever of tick and cron closes *)
(* it, over any number of days, and whatever fails but a cancelled close.  *)
THEOREM BookedTradesHaveEnded == ASSUME Honest PROVE Spec => []BookedHasEnded
<1>1. IInv => BookedHasEnded
  BY Honest DEF IInv, BookedIsClosed
<1> QED
  BY AlwaysIInv, <1>1, PTL

(* A broker holds one trade of a date, whatever fails but a cancelled      *)
(* close.                                                                  *)
THEOREM OneTradeOfADate == ASSUME Honest PROVE Spec => []OneOfADate
<1>1. IInv => OneOfADate
  <2> SUFFICES ASSUME IInv, NEW t \in Trades, NEW u \in Trades, broker[t] = broker[u],
                      Held(t), Held(u), t # u
               PROVE  FALSE
    BY DEF OneOfADate
  <2>1. \A v \in Trades : Held(v) => \/ v \in today /\ row[v] = "null"
                                     \/ tick.at = "insert" /\ tick.cur = v
    BY Honest DEF IInv, TypeOK, Held, TodayIsRecorded, BookedIsClosed, BookedHasEnded
  <2>2. tick.at = "insert" =>
          \A v \in today : row[v] = "null" => broker[v] # broker[tick.cur]
    BY DEF IInv, TypeOK, EntryHasSlot, Taken, Open
  <2> QED
    BY <2>1, <2>2 DEF IInv, OneRowOfADate
<1> QED
  BY AlwaysIInv, <1>1, PTL

-----------------------------------------------------------------------------
(* Every step fills or ends one trade, or writes one word in one table, of *)
(* a trade that has come that far; or it leaves all of them as they are.   *)
Fills(t)   == venue[t] = "none" /\ venue' = [venue EXCEPT ![t] = "open"]
Ends(t)    == venue[t] = "open" /\ venue' = [venue EXCEPT ![t] = "closed"]
Records(t) == row[t] = "none" /\ venue[t] # "none" /\ row' = [row EXCEPT ![t] = "null"]
Settles(t) == venue[t] = "closed" /\ row' = [row EXCEPT ![t] = "booked"]
Mirrors(t) ==
  venue[t] = "closed" /\ row[t] = "booked" /\ mirrors' = [mirrors EXCEPT ![t] = @ + 1]

OneMove ==
  \/ UNCHANGED <<venue, row, mirrors>>
  \/ \E t \in Trades :
       \/ (Fills(t) \/ Ends(t)) /\ UNCHANGED <<row, mirrors>>
       \/ (Records(t) \/ Settles(t)) /\ UNCHANGED <<venue, mirrors>>
       \/ Mirrors(t) /\ UNCHANGED <<venue, row>>

TablesTyped ==
  /\ venue \in [Trades -> {"none", "open", "closed"}]
  /\ row \in [Trades -> {"none", "null", "booked"}]
  /\ mirrors \in [Trades -> 0..2]

LEMMA MoveKeepsBooked ==
  ASSUME TablesTyped, OneMove
  PROVE  \A t \in Trades : row[t] = "booked" => row'[t] = "booked"
BY DEF TablesTyped, OneMove, Fills, Ends, Records, Settles, Mirrors

LEMMA MoveIsATablesStep ==
  ASSUME TablesTyped, OneMove
  PROVE  [Tables!TablesNext]_<<venue, RowSays, MirrorSays>>
<1> USE DEF TablesTyped, RowSays, MirrorSays
<1>1. CASE UNCHANGED <<venue, row, mirrors>>
  BY <1>1
<1>2. ASSUME NEW t \in Trades, Fills(t) \/ Ends(t), UNCHANGED <<row, mirrors>>
      PROVE  Tables!Fill(t) \/ Tables!End(t)
  BY <1>2 DEF Fills, Ends, Tables!Fill, Tables!End, Tables!Moves
<1>3. ASSUME NEW t \in Trades, Records(t), UNCHANGED <<venue, mirrors>>
      PROVE  Tables!WriteRow({t}, "open")
  BY <1>3 DEF Records, Tables!WriteRow, Tables!Says, Tables!Behind
<1>4. ASSUME NEW t \in Trades, Settles(t), UNCHANGED <<venue, mirrors>>
      PROVE  Tables!WriteRow({t}, "closed") \/ UNCHANGED <<venue, row, mirrors>>
  BY <1>4 DEF Settles, Tables!WriteRow, Tables!Says, Tables!Behind
<1>5. ASSUME NEW t \in Trades, Mirrors(t), UNCHANGED <<venue, row>>
      PROVE  Tables!WriteMirror({t}, "closed") \/ UNCHANGED <<venue, RowSays, MirrorSays>>
  BY <1>5 DEF Mirrors, Tables!WriteMirror, Tables!Says, Tables!Behind
<1>6. \A t \in Trades : {t} \in SUBSET Trades
  OBVIOUS
<1> QED
  BY <1>1, <1>2, <1>3, <1>4, <1>5, <1>6 DEF OneMove, Tables!TablesNext

(* A mirror is written of a trade whose row is booked already.             *)
SyncIsBooked ==
  /\ tick.at \in {"sync", "mirror"} => row[tick.cur] = "booked"
  /\ cron.at \in {"sync", "mirror"} => row[cron.cur] = "booked"

LEMMA StepIsOneMove ==
  ASSUME Honest, IInv, SyncIsBooked, [Next]_vars
  PROVE  OneMove
<1> USE DEF OneMove, process, market, tables
<1>1. ASSUME NEW t \in Trades, VenueEnds(t) \/ Ages(t) PROVE OneMove
  BY <1>1 DEF VenueEnds, Ages, Closed, Ends
<1>2. CASE ForceCloseMaxHold
  BY <1>2 DEF ForceCloseMaxHold, At, CloseWorks, CloseThrows, Closed, Ends, IInv, TickHasEnded
<1>3. CASE CronClose
  BY <1>3 DEF CronClose, AtCron, CloseWorks, CloseThrows, Closed, Ends, IInv, CronHasEnded
<1>4. CASE PersistClose
  BY <1>4, Honest DEF PersistClose, At, Book, IInv, TickHasEnded, Settles
<1>5. CASE CronRow
  BY <1>5, Honest DEF CronRow, AtCron, Book, IInv, CronHasEnded, Settles
<1>6. CASE InsertMirror
  BY <1>6, Honest DEF InsertMirror, At, Mirror, SyncIsBooked, IInv, TickHasEnded, Mirrors
<1>7. CASE CronMirror
  BY <1>7, Honest DEF CronMirror, AtCron, Mirror, SyncIsBooked, IInv, CronHasEnded, Mirrors
<1>8. CASE Order
  BY <1>8 DEF Order, At, IInv, EntryHasSlot, Fills
<1>9. CASE Insert
  BY <1>9 DEF Insert, At, IInv, EntryHasSlot, Records
<1>10. CASE TenPm \/ Midnight \/ TickThrows \/ Crash \/ Restart \/ UNCHANGED vars
  BY <1>10 DEF TenPm, Midnight, TickThrows, Crash, Restart, vars
<1>11. ASSUME NEW t \in Trades, PollSkips(t) \/ PollFinds(t) \/ CronEach(t) PROVE OneMove
  BY <1>11 DEF PollSkips, PollFinds, CronEach
<1>12. CASE LoadOpen \/ PollDone \/ MirrorExists \/ LoadRoutes \/ EntryDone
  BY <1>12 DEF LoadOpen, PollDone, MirrorExists, LoadRoutes, EntryDone
<1>13. ASSUME NEW b \in Brokers, Passed(b) \/ Setup(b) PROVE OneMove
  BY <1>13 DEF Passed, Setup
<1>14. CASE CronLoad \/ CronDone \/ CronSync
  BY <1>14 DEF CronLoad, CronDone, CronSync
<1> QED
  BY <1>1, <1>2, <1>3, <1>4, <1>5, <1>6, <1>7, <1>8, <1>9, <1>10, <1>11, <1>12, <1>13, <1>14
     DEF Next, TickStep, CronStep

LEMMA SyncStaysBooked ==
  ASSUME Honest, IInv, SyncIsBooked, [Next]_vars
  PROVE  SyncIsBooked'
<1>1. \A t \in Trades : row[t] = "booked" => row'[t] = "booked"
  BY StepIsOneMove, MoveKeepsBooked DEF IInv, TypeOK, TablesTyped
<1>2. tick \in Ticks /\ cron \in Crons
  BY DEF IInv, TypeOK, Ticks, Crons
<1>3. \/ tick'.at \notin {"sync", "mirror"}
      \/ tick' = tick
      \/ tick.at \in {"row", "sync"} /\ tick'.cur = tick.cur
           /\ (tick.at = "row" => Book(tick.cur))
  <2> USE <1>2 DEF At
  <2>1. CASE PersistClose
    BY <2>1, GotoTick DEF PersistClose, ExitPcs
  <2>2. CASE MirrorExists
    BY <2>2, GotoTick DEF MirrorExists, ExitPcs
  <2>3. CASE InsertMirror \/ ForceCloseMaxHold \/ Order \/ Insert
    BY <2>3, GotoTick DEF InsertMirror, ForceCloseMaxHold, Order, Insert, ExitPcs, EntryPcs
  <2>4. CASE PollDone \/ EntryDone \/ TickThrows
    BY <2>4, GotoTick DEF PollDone, EntryDone, TickThrows, ExitPcs, EntryPcs
  <2>5. CASE LoadOpen \/ LoadRoutes \/ Crash
    <3>1. LoadOpen \/ LoadRoutes => tick'.at \in {"poll", "routes"}
      BY IdleTyped DEF LoadOpen, LoadRoutes, Ticks
    <3>2. Crash => tick'.at = "idle"
      BY DEF Crash, IdleTick
    <3> QED
      BY <2>5, <3>1, <3>2
  <2>6. ASSUME NEW t \in Trades, PollSkips(t)
        PROVE  tick'.at \notin {"sync", "mirror"}
    BY <2>6 DEF PollSkips, Ticks
  <2>7. ASSUME NEW t \in Trades, PollFinds(t)
        PROVE  tick'.at \notin {"sync", "mirror"}
    BY <2>7 DEF PollFinds, Polled, Ticks
  <2>8. ASSUME NEW b \in Brokers, Passed(b) \/ Setup(b)
        PROVE  tick'.at \notin {"sync", "mirror"}
    BY <2>8 DEF Passed, Setup, Ticks
  <2>9. ASSUME NEW t \in Trades, VenueEnds(t) \/ Ages(t) PROVE tick' = tick
    BY <2>9 DEF VenueEnds, Ages
  <2>10. CASE TenPm \/ Midnight \/ Restart \/ UNCHANGED vars
    BY <2>10 DEF TenPm, Midnight, Restart, vars
  <2>11. CASE CronStep
    BY <2>11 DEF CronStep, CronLoad, CronDone, CronEach, CronClose, CronRow, CronSync, CronMirror
  <2> QED
    BY <2>1, <2>2, <2>3, <2>4, <2>5, <2>6, <2>7, <2>8, <2>9, <2>10, <2>11 DEF Next, TickStep
<1>4. \/ cron'.at \notin {"sync", "mirror"}
      \/ cron' = cron
      \/ cron.at \in {"row", "sync"} /\ cron'.cur = cron.cur
           /\ (cron.at = "row" => Book(cron.cur))
  <2> USE <1>2 DEF AtCron, CronPcs
  <2>1. CASE CronRow
    BY <2>1, CronTo DEF CronRow
  <2>2. CASE CronSync
    BY <2>2, CronTo DEF CronSync
  <2>3. CASE CronDone \/ CronClose \/ CronMirror
    BY <2>3, CronTo DEF CronDone, CronClose, CronMirror
  <2>4. CASE CronLoad
    BY <2>4, CronTo DEF CronLoad, Crons
  <2>5. ASSUME NEW t \in Trades, CronEach(t) PROVE cron'.at \notin {"sync", "mirror"}
    BY <2>5 DEF CronEach, Crons
  <2>6. CASE TenPm
    BY <2>6, CronTo DEF TenPm
  <2>7. CASE Midnight \/ TickThrows \/ Restart \/ Crash \/ UNCHANGED vars
    BY <2>7 DEF Midnight, TickThrows, Restart, Crash, IdleCron, vars
  <2>8. ASSUME NEW t \in Trades, VenueEnds(t) \/ Ages(t) PROVE cron' = cron
    BY <2>8 DEF VenueEnds, Ages
  <2>9. CASE TickStep
    BY <2>9 DEF TickStep, LoadOpen, PollDone, PollSkips, PollFinds, ForceCloseMaxHold, PersistClose,
       MirrorExists, InsertMirror, LoadRoutes, EntryDone, Order, Insert, Passed, Setup
  <2> QED
    BY <2>1, <2>2, <2>3, <2>4, <2>5, <2>6, <2>7, <2>8, <2>9 DEF Next, CronStep
<1>5. /\ tick.at \in {"row", "sync", "mirror"} => tick.cur \in Trades
      /\ cron.at \in {"row", "sync", "mirror"} => cron.cur \in Trades
  BY DEF IInv, TickHasEnded, CronHasEnded
<1>6. row \in [Trades -> {"none", "null", "booked"}]
  BY DEF IInv, TypeOK
<1> QED
  BY <1>1, <1>3, <1>4, <1>5, <1>6 DEF SyncIsBooked, Book

(* The engine implements TradeTables: whoever books, mirrors or loses a    *)
(* trade, its two tables follow it, tell its end only after its end, and   *)
(* take nothing back, whatever fails but a cancelled close.                *)
THEOREM TablesImplemented == ASSUME Honest PROVE Spec => ImplementsTables
<1>1. Init => Tables!TablesInit
  BY DEF Init, Tables!TablesInit, RowSays, MirrorSays
<1>2. Init => SyncIsBooked
  BY DEF Init, SyncIsBooked, IdleTick, IdleCron
<1>3. IInv /\ SyncIsBooked /\ [Next]_vars => SyncIsBooked'
  BY Honest, SyncStaysBooked
<1>4. IInv /\ SyncIsBooked /\ [Next]_vars => [Tables!TablesNext]_<<venue, RowSays, MirrorSays>>
  BY Honest, StepIsOneMove, MoveIsATablesStep DEF IInv, TypeOK, TablesTyped
<1> QED
  BY <1>1, <1>2, <1>3, <1>4, AlwaysIInv, PTL DEF Spec, ImplementsTables, Tables!Spec

-----------------------------------------------------------------------------
(* The previous-day-low window has the same brokers, tables and faults,    *)
(* and enters by a cron of its own after a signal.  Its definitions are    *)
(* those of PdlWindow, named with Pdl!; a theorem about it assumes what    *)
(* PdlWindow does of its constants.                                        *)
CONSTANT Oanda

VARIABLES signal, entry, flat

Pdl == INSTANCE PdlWindow

(* What tick and cron hold is recorded, and ended while it is booked.      *)
WindowTickHasEnded ==
  /\ \A t \in tick.todo : row[t] # "none"
  /\ tick.at \in {"close", "row", "sync", "mirror"} => tick.cur \in Trades /\ row[tick.cur] # "none"
  /\ Honest /\ tick.at \in {"row", "sync", "mirror"} => venue[tick.cur] = "closed"

FlatHasEnded ==
  /\ \A t \in flat.todo : row[t] # "none"
  /\ flat.at \in {"close", "row", "sync", "mirror"} => flat.cur \in Trades /\ row[flat.cur] # "none"
  /\ Honest /\ flat.at \in {"row", "sync", "mirror"} => venue[flat.cur] = "closed"

(* Tick and cron may both find no mirror and both insert one.              *)
WindowMirrorRace ==
  /\ tick.at = "mirror" => mirrors[tick.cur] <= 1
  /\ flat.at = "mirror" => mirrors[flat.cur] <= 1
  /\ tick.at = "mirror" /\ flat.at = "mirror" /\ tick.cur = flat.cur => mirrors[tick.cur] = 0

EntryIsNew ==
  /\ entry.at \in {"order", "insert"} => entry.cur \in Trades /\ row[entry.cur] = "none"
  /\ entry.at = "order" => venue[entry.cur] = "none"
  /\ entry.at = "insert" => venue[entry.cur] # "none"

WindowRecordedIsFilled == \A t \in Trades : row[t] # "none" => venue[t] # "none"

WindowBookedIsClosed == Honest => Pdl!BookedHasEnded

WindowIInv ==
  /\ Pdl!TypeOK /\ WindowTickHasEnded /\ FlatHasEnded /\ WindowMirrorRace /\ EntryIsNew
  /\ WindowRecordedIsFilled /\ WindowBookedIsClosed
-----------------------------------------------------------------------------
LEMMA WindowIdleTyped ==
  Pdl!IdleEntry \in Pdl!Entries /\ Pdl!IdleTick \in Pdl!Ticks /\ Pdl!IdleFlat \in Pdl!Flats
BY DEF Pdl!Entries, Pdl!Ticks, Pdl!Flats, Pdl!IdleEntry, Pdl!IdleTick, Pdl!IdleFlat,
    Pdl!EntryPcs, Pdl!TickPcs, Pdl!FlatPcs

LEMMA WindowInitInductive == ASSUME Pdl!PdlAssumption PROVE Pdl!Init => WindowIInv
<1> SUFFICES ASSUME Pdl!Init PROVE WindowIInv
  OBVIOUS
<1>1. (CHOOSE b \in Brokers : TRUE) \in Brokers
  BY Pdl!PdlAssumption DEF Pdl!PdlAssumption
<1>2. Pdl!TypeOK
  <2>1. entry \in Pdl!Entries /\ tick \in Pdl!Ticks /\ flat \in Pdl!Flats
    BY WindowIdleTyped DEF Pdl!Init
  <2>2. broker \in [Trades -> Brokers]
    BY <1>1 DEF Pdl!Init
  <2>3. signal \in BOOLEAN
    BY DEF Pdl!Init
  <2> QED
    BY <2>1, <2>2, <2>3 DEF Pdl!Init, Pdl!TypeOK
<1> QED
  BY <1>2 DEF Pdl!Init, WindowIInv, WindowTickHasEnded, FlatHasEnded, WindowMirrorRace, EntryIsNew,
     WindowRecordedIsFilled, WindowBookedIsClosed, Pdl!BookedHasEnded, Pdl!IdleTick, Pdl!IdleFlat, Pdl!IdleEntry

(* What the three ways of going on leave in place. *)
LEMMA EnterEntry ==
  ASSUME entry \in Pdl!Entries
  PROVE  \A label \in Pdl!EntryPcs :
           Pdl!Enter(label) =>
             /\ entry' \in Pdl!Entries
             /\ entry'.at = label
             /\ label \in {"order", "insert"} => entry'.cur = entry.cur
<1> SUFFICES ASSUME NEW label \in Pdl!EntryPcs, Pdl!Enter(label)
             PROVE  /\ entry' \in Pdl!Entries /\ entry'.at = label
                    /\ label \in {"order", "insert"} => entry'.cur = entry.cur
  OBVIOUS
<1>1. CASE label = "idle"
  BY <1>1, WindowIdleTyped DEF Pdl!Enter, Pdl!Entries, Pdl!EntryPcs, Pdl!IdleEntry
<1>2. CASE label # "idle"
  BY <1>2 DEF Pdl!Enter, Pdl!Entries, Pdl!EntryPcs
<1> QED
  BY <1>1, <1>2

LEMMA WindowGotoTick ==
  ASSUME tick \in Pdl!Ticks
  PROVE  \A label \in Pdl!TickPcs :
           Pdl!Goto(label) =>
             /\ tick' \in Pdl!Ticks
             /\ tick'.at = label
             /\ tick'.todo \subseteq tick.todo
             /\ label \in {"close", "row", "sync", "mirror"} => tick'.cur = tick.cur
<1> SUFFICES ASSUME NEW label \in Pdl!TickPcs, Pdl!Goto(label)
             PROVE  /\ tick' \in Pdl!Ticks /\ tick'.at = label /\ tick'.todo \subseteq tick.todo
                    /\ label \in {"close", "row", "sync", "mirror"} => tick'.cur = tick.cur
  OBVIOUS
<1>1. CASE label = "idle"
  BY <1>1, WindowIdleTyped DEF Pdl!Goto, Pdl!Ticks, Pdl!TickPcs, Pdl!IdleTick
<1>2. CASE label # "idle"
  BY <1>2 DEF Pdl!Goto, Pdl!Ticks, Pdl!TickPcs
<1> QED
  BY <1>1, <1>2

LEMMA GotoFlat ==
  ASSUME flat \in Pdl!Flats
  PROVE  \A label \in Pdl!FlatPcs :
           Pdl!FlatGoto(label) =>
             /\ flat' \in Pdl!Flats
             /\ flat'.at = label
             /\ flat'.todo \subseteq flat.todo
             /\ label \in {"close", "row", "sync", "mirror"} => flat'.cur = flat.cur
<1> SUFFICES ASSUME NEW label \in Pdl!FlatPcs, Pdl!FlatGoto(label)
             PROVE  /\ flat' \in Pdl!Flats /\ flat'.at = label /\ flat'.todo \subseteq flat.todo
                    /\ label \in {"close", "row", "sync", "mirror"} => flat'.cur = flat.cur
  OBVIOUS
<1>1. CASE label = "idle"
  BY <1>1, WindowIdleTyped DEF Pdl!FlatGoto, Pdl!Flats, Pdl!FlatPcs, Pdl!IdleFlat
<1>2. CASE label # "idle"
  BY <1>2 DEF Pdl!FlatGoto, Pdl!Flats, Pdl!FlatPcs
<1> QED
  BY <1>1, <1>2

LEMMA WindowStepInductive == WindowIInv /\ [Pdl!Next]_Pdl!vars => WindowIInv'
<1> SUFFICES ASSUME WindowIInv, [Pdl!Next]_Pdl!vars PROVE WindowIInv'
  OBVIOUS
<1> USE DEF WindowIInv, Pdl!TypeOK, WindowTickHasEnded, FlatHasEnded, WindowMirrorRace, EntryIsNew,
    WindowRecordedIsFilled, WindowBookedIsClosed, Pdl!BookedHasEnded, Pdl!EntryPcs, Pdl!TickPcs, Pdl!FlatPcs,
    Pdl!At, Pdl!EntryAt, Pdl!FlatAt, Pdl!time, Pdl!market, Pdl!tables, Pdl!Fails
<1>1. ASSUME NEW t \in Trades, Pdl!VenueEnds(t) PROVE WindowIInv'
  BY <1>1 DEF Pdl!VenueEnds, Pdl!Entries, Pdl!Ticks, Pdl!Flats
<1>2. ASSUME NEW t \in Trades, Pdl!PollSkips(t) PROVE WindowIInv'
  BY <1>2 DEF Pdl!PollSkips, Pdl!Entries, Pdl!Ticks, Pdl!Flats
<1>3. ASSUME NEW t \in Trades, Pdl!PollFinds(t) PROVE WindowIInv'
  <2>1. Pdl!TypeOK'
    <3>1. \/ tick' = [at |-> "row", todo |-> tick.todo \ {t}, cur |-> t, hold |-> FALSE]
          \/ tick' = [at |-> "close", todo |-> tick.todo \ {t}, cur |-> t, hold |-> TRUE]
      BY <1>3 DEF Pdl!PollFinds, Pdl!Polled
    <3>2. CASE tick' = [at |-> "row", todo |-> tick.todo \ {t}, cur |-> t, hold |-> FALSE]
      <4>1. tick' \in Pdl!Ticks
        BY <3>2 DEF Pdl!Ticks
      <4> QED
        BY <1>3, <4>1 DEF Pdl!PollFinds
    <3>3. CASE tick' = [at |-> "close", todo |-> tick.todo \ {t}, cur |-> t, hold |-> TRUE]
      <4>1. tick' \in Pdl!Ticks
        BY <3>3 DEF Pdl!Ticks
      <4> QED
        BY <1>3, <4>1 DEF Pdl!PollFinds
    <3> QED
      BY <3>1, <3>2, <3>3
  <2>2. WindowTickHasEnded'
    BY <1>3 DEF Pdl!PollFinds, Pdl!Ticks, Pdl!Polled
  <2>3. FlatHasEnded'
    BY <1>3 DEF Pdl!PollFinds, Pdl!Flats, Pdl!Polled
  <2>4. WindowMirrorRace'
    BY <1>3 DEF Pdl!PollFinds, Pdl!Ticks, Pdl!Flats, Pdl!Polled
  <2>5. EntryIsNew'
    BY <1>3 DEF Pdl!PollFinds, Pdl!Entries, Pdl!Polled
  <2>6. WindowRecordedIsFilled'
    BY <1>3 DEF Pdl!PollFinds, Pdl!Polled
  <2>7. WindowBookedIsClosed'
    BY <1>3 DEF Pdl!PollFinds, Pdl!Polled
  <2> QED
    BY <2>1, <2>2, <2>3, <2>4, <2>5, <2>6, <2>7
<1>4. ASSUME NEW t \in Trades, Pdl!FlatEach(t) PROVE WindowIInv'
  <2>1. Pdl!TypeOK'
    BY <1>4 DEF Pdl!FlatEach, Pdl!Entries, Pdl!Ticks, Pdl!Flats
  <2>2. WindowTickHasEnded'
    BY <1>4 DEF Pdl!FlatEach, Pdl!Ticks
  <2>3. FlatHasEnded'
    BY <1>4 DEF Pdl!FlatEach, Pdl!Flats
  <2>4. WindowMirrorRace'
    BY <1>4 DEF Pdl!FlatEach, Pdl!Ticks, Pdl!Flats
  <2>5. EntryIsNew'
    BY <1>4 DEF Pdl!FlatEach, Pdl!Entries
  <2>6. WindowRecordedIsFilled'
    BY <1>4 DEF Pdl!FlatEach
  <2>7. WindowBookedIsClosed'
    BY <1>4 DEF Pdl!FlatEach
  <2> QED
    BY <2>1, <2>2, <2>3, <2>4, <2>5, <2>6, <2>7
<1>5. CASE Pdl!Noon
  <2>1. Pdl!TypeOK'
    BY <1>5, WindowIdleTyped DEF Pdl!Noon, Pdl!Entries, Pdl!Ticks, Pdl!Flats, Pdl!IdleEntry
  <2>2. WindowTickHasEnded'
    BY <1>5, WindowIdleTyped DEF Pdl!Noon, Pdl!Ticks, Pdl!IdleEntry
  <2>3. FlatHasEnded'
    BY <1>5, WindowIdleTyped DEF Pdl!Noon, Pdl!Flats, Pdl!IdleEntry
  <2>4. WindowMirrorRace'
    BY <1>5, WindowIdleTyped DEF Pdl!Noon, Pdl!Ticks, Pdl!Flats, Pdl!IdleEntry
  <2>5. EntryIsNew'
    BY <1>5, WindowIdleTyped DEF Pdl!Noon, Pdl!Entries, Pdl!IdleEntry
  <2>6. WindowRecordedIsFilled'
    BY <1>5, WindowIdleTyped DEF Pdl!Noon, Pdl!IdleEntry
  <2>7. WindowBookedIsClosed'
    BY <1>5, WindowIdleTyped DEF Pdl!Noon, Pdl!IdleEntry
  <2> QED
    BY <2>1, <2>2, <2>3, <2>4, <2>5, <2>6, <2>7
<1>6. CASE Pdl!OnePm
  <2>1. Pdl!TypeOK'
    BY <1>6, WindowIdleTyped DEF Pdl!OnePm, Pdl!Entries, Pdl!Ticks, Pdl!Flats, Pdl!IdleFlat
  <2>2. WindowTickHasEnded'
    BY <1>6, WindowIdleTyped DEF Pdl!OnePm, Pdl!Ticks, Pdl!IdleFlat
  <2>3. FlatHasEnded'
    BY <1>6, WindowIdleTyped DEF Pdl!OnePm, Pdl!Flats, Pdl!IdleFlat
  <2>4. WindowMirrorRace'
    BY <1>6, WindowIdleTyped DEF Pdl!OnePm, Pdl!Ticks, Pdl!Flats, Pdl!IdleFlat
  <2>5. EntryIsNew'
    BY <1>6, WindowIdleTyped DEF Pdl!OnePm, Pdl!Entries, Pdl!IdleFlat
  <2>6. WindowRecordedIsFilled'
    BY <1>6, WindowIdleTyped DEF Pdl!OnePm, Pdl!IdleFlat
  <2>7. WindowBookedIsClosed'
    BY <1>6, WindowIdleTyped DEF Pdl!OnePm, Pdl!IdleFlat
  <2> QED
    BY <2>1, <2>2, <2>3, <2>4, <2>5, <2>6, <2>7
<1>7. CASE Pdl!Midnight
  BY <1>7 DEF Pdl!Midnight, Pdl!Entries, Pdl!Ticks, Pdl!Flats
<1>8. CASE Pdl!TickThrows
  <2>1. Pdl!TypeOK'
    BY <1>8, WindowGotoTick DEF Pdl!TickThrows, Pdl!Entries, Pdl!Ticks, Pdl!Flats
  <2>2. WindowTickHasEnded'
    BY <1>8, WindowGotoTick DEF Pdl!TickThrows, Pdl!Ticks
  <2>3. FlatHasEnded'
    BY <1>8, WindowGotoTick DEF Pdl!TickThrows, Pdl!Flats
  <2>4. WindowMirrorRace'
    BY <1>8, WindowGotoTick DEF Pdl!TickThrows, Pdl!Ticks, Pdl!Flats
  <2>5. EntryIsNew'
    BY <1>8, WindowGotoTick DEF Pdl!TickThrows, Pdl!Entries
  <2>6. WindowRecordedIsFilled'
    BY <1>8, WindowGotoTick DEF Pdl!TickThrows
  <2>7. WindowBookedIsClosed'
    BY <1>8, WindowGotoTick DEF Pdl!TickThrows
  <2> QED
    BY <2>1, <2>2, <2>3, <2>4, <2>5, <2>6, <2>7
<1>9. CASE Pdl!LoadOpen
  <2>1. Pdl!TypeOK'
    <3>1. Pdl!Open \cap today \in SUBSET Trades
      OBVIOUS
    <3>2. tick' = [at |-> "poll", todo |-> Pdl!Open \cap today, cur |-> Pdl!NoTrade, hold |-> FALSE]
      BY <1>9 DEF Pdl!LoadOpen, Pdl!IdleTick
    <3>3. tick' \in Pdl!Ticks
      BY <3>1, <3>2 DEF Pdl!Ticks
    <3> QED
      BY <1>9, <3>3 DEF Pdl!LoadOpen
  <2>2. WindowTickHasEnded'
    BY <1>9, WindowIdleTyped DEF Pdl!LoadOpen, Pdl!Ticks, Pdl!Open, Pdl!IdleTick
  <2>3. FlatHasEnded'
    BY <1>9, WindowIdleTyped DEF Pdl!LoadOpen, Pdl!Flats, Pdl!Open, Pdl!IdleTick
  <2>4. WindowMirrorRace'
    BY <1>9, WindowIdleTyped DEF Pdl!LoadOpen, Pdl!Ticks, Pdl!Flats, Pdl!Open, Pdl!IdleTick
  <2>5. EntryIsNew'
    BY <1>9, WindowIdleTyped DEF Pdl!LoadOpen, Pdl!Entries, Pdl!Open, Pdl!IdleTick
  <2>6. WindowRecordedIsFilled'
    BY <1>9, WindowIdleTyped DEF Pdl!LoadOpen, Pdl!Open, Pdl!IdleTick
  <2>7. WindowBookedIsClosed'
    BY <1>9, WindowIdleTyped DEF Pdl!LoadOpen, Pdl!Open, Pdl!IdleTick
  <2> QED
    BY <2>1, <2>2, <2>3, <2>4, <2>5, <2>6, <2>7
<1>10. CASE Pdl!PollDone
  <2>1. Pdl!TypeOK'
    BY <1>10, WindowGotoTick DEF Pdl!PollDone, Pdl!Entries, Pdl!Ticks, Pdl!Flats
  <2>2. WindowTickHasEnded'
    BY <1>10, WindowGotoTick DEF Pdl!PollDone, Pdl!Ticks
  <2>3. FlatHasEnded'
    BY <1>10, WindowGotoTick DEF Pdl!PollDone, Pdl!Flats
  <2>4. WindowMirrorRace'
    BY <1>10, WindowGotoTick DEF Pdl!PollDone, Pdl!Ticks, Pdl!Flats
  <2>5. EntryIsNew'
    BY <1>10, WindowGotoTick DEF Pdl!PollDone, Pdl!Entries
  <2>6. WindowRecordedIsFilled'
    BY <1>10, WindowGotoTick DEF Pdl!PollDone
  <2>7. WindowBookedIsClosed'
    BY <1>10, WindowGotoTick DEF Pdl!PollDone
  <2> QED
    BY <2>1, <2>2, <2>3, <2>4, <2>5, <2>6, <2>7
<1>11. CASE Pdl!ForceCloseTrade
  <2>1. Pdl!TypeOK'
    BY <1>11, WindowGotoTick DEF Pdl!ForceCloseTrade, Pdl!Entries, Pdl!Ticks, Pdl!Flats,
        Pdl!CloseWorks, Pdl!CloseThrows
  <2>2. WindowTickHasEnded'
    BY <1>11, WindowGotoTick DEF Pdl!ForceCloseTrade, Pdl!Ticks, Pdl!CloseWorks, Pdl!CloseThrows,
       Honest
  <2>3. FlatHasEnded'
    BY <1>11, WindowGotoTick DEF Pdl!ForceCloseTrade, Pdl!Flats, Pdl!CloseWorks, Pdl!CloseThrows
  <2>4. WindowMirrorRace'
    BY <1>11, WindowGotoTick DEF Pdl!ForceCloseTrade, Pdl!Ticks, Pdl!Flats, Pdl!CloseWorks,
        Pdl!CloseThrows
  <2>5. EntryIsNew'
    BY <1>11, WindowGotoTick DEF Pdl!ForceCloseTrade, Pdl!Entries, Pdl!CloseWorks, Pdl!CloseThrows
  <2>6. WindowRecordedIsFilled'
    BY <1>11, WindowGotoTick DEF Pdl!ForceCloseTrade, Pdl!CloseWorks, Pdl!CloseThrows
  <2>7. WindowBookedIsClosed'
    BY <1>11, WindowGotoTick DEF Pdl!ForceCloseTrade, Pdl!CloseWorks, Pdl!CloseThrows
  <2> QED
    BY <2>1, <2>2, <2>3, <2>4, <2>5, <2>6, <2>7
<1>12. CASE Pdl!PersistClose
  <2>1. Pdl!TypeOK'
    BY <1>12, WindowGotoTick DEF Pdl!PersistClose, Pdl!Entries, Pdl!Ticks, Pdl!Flats, Pdl!Book
  <2>2. WindowTickHasEnded'
    BY <1>12, WindowGotoTick DEF Pdl!PersistClose, Pdl!Ticks, Pdl!Book
  <2>3. FlatHasEnded'
    BY <1>12, WindowGotoTick DEF Pdl!PersistClose, Pdl!Flats, Pdl!Book
  <2>4. WindowMirrorRace'
    BY <1>12, WindowGotoTick DEF Pdl!PersistClose, Pdl!Ticks, Pdl!Flats, Pdl!Book
  <2>5. EntryIsNew'
    BY <1>12, WindowGotoTick DEF Pdl!PersistClose, Pdl!Entries, Pdl!Book
  <2>6. WindowRecordedIsFilled'
    BY <1>12, WindowGotoTick DEF Pdl!PersistClose, Pdl!Book
  <2>7. WindowBookedIsClosed'
    BY <1>12, WindowGotoTick DEF Pdl!PersistClose, Pdl!Book
  <2> QED
    BY <2>1, <2>2, <2>3, <2>4, <2>5, <2>6, <2>7
<1>13. CASE Pdl!MirrorExists
  <2>1. Pdl!TypeOK'
    BY <1>13, WindowGotoTick DEF Pdl!MirrorExists, Pdl!Entries, Pdl!Ticks, Pdl!Flats
  <2>2. WindowTickHasEnded'
    BY <1>13, WindowGotoTick DEF Pdl!MirrorExists, Pdl!Ticks
  <2>3. FlatHasEnded'
    BY <1>13, WindowGotoTick DEF Pdl!MirrorExists, Pdl!Flats
  <2>4. WindowMirrorRace'
    BY <1>13, WindowGotoTick DEF Pdl!MirrorExists, Pdl!Ticks, Pdl!Flats
  <2>5. EntryIsNew'
    BY <1>13, WindowGotoTick DEF Pdl!MirrorExists, Pdl!Entries
  <2>6. WindowRecordedIsFilled'
    BY <1>13, WindowGotoTick DEF Pdl!MirrorExists
  <2>7. WindowBookedIsClosed'
    BY <1>13, WindowGotoTick DEF Pdl!MirrorExists
  <2> QED
    BY <2>1, <2>2, <2>3, <2>4, <2>5, <2>6, <2>7
<1>14. CASE Pdl!InsertMirror
  <2>1. Pdl!TypeOK'
    BY <1>14, WindowGotoTick DEF Pdl!InsertMirror, Pdl!Entries, Pdl!Ticks, Pdl!Flats, Pdl!Mirror
  <2>2. WindowTickHasEnded'
    BY <1>14, WindowGotoTick DEF Pdl!InsertMirror, Pdl!Ticks, Pdl!Mirror
  <2>3. FlatHasEnded'
    BY <1>14, WindowGotoTick DEF Pdl!InsertMirror, Pdl!Flats, Pdl!Mirror
  <2>4. WindowMirrorRace'
    BY <1>14, WindowGotoTick DEF Pdl!InsertMirror, Pdl!Ticks, Pdl!Flats, Pdl!Mirror
  <2>5. EntryIsNew'
    BY <1>14, WindowGotoTick DEF Pdl!InsertMirror, Pdl!Entries, Pdl!Mirror
  <2>6. WindowRecordedIsFilled'
    BY <1>14, WindowGotoTick DEF Pdl!InsertMirror, Pdl!Mirror
  <2>7. WindowBookedIsClosed'
    BY <1>14, WindowGotoTick DEF Pdl!InsertMirror, Pdl!Mirror
  <2> QED
    BY <2>1, <2>2, <2>3, <2>4, <2>5, <2>6, <2>7
<1>15. CASE Pdl!Detect
  <2>1. Pdl!TypeOK'
    <3>1. signal' \in BOOLEAN
      BY <1>15 DEF Pdl!Detect
    <3>2. entry' \in Pdl!Entries
      BY <1>15, EnterEntry DEF Pdl!Detect
    <3> QED
      BY <1>15, <3>1, <3>2 DEF Pdl!Detect
  <2>2. WindowTickHasEnded'
    BY <1>15, EnterEntry DEF Pdl!Detect, Pdl!Ticks
  <2>3. FlatHasEnded'
    BY <1>15, EnterEntry DEF Pdl!Detect, Pdl!Flats
  <2>4. WindowMirrorRace'
    BY <1>15, EnterEntry DEF Pdl!Detect, Pdl!Ticks, Pdl!Flats
  <2>5. EntryIsNew'
    BY <1>15, EnterEntry DEF Pdl!Detect, Pdl!Entries
  <2>6. WindowRecordedIsFilled'
    BY <1>15, EnterEntry DEF Pdl!Detect
  <2>7. WindowBookedIsClosed'
    BY <1>15, EnterEntry DEF Pdl!Detect
  <2> QED
    BY <2>1, <2>2, <2>3, <2>4, <2>5, <2>6, <2>7
<1>16. CASE Pdl!LoadSignal
  <2>1. Pdl!TypeOK'
    <3>1. entry' \in Pdl!Entries
      <4>1. CASE entry' = [entry EXCEPT !.at = "routes", !.routes = Brokers]
        BY <4>1 DEF Pdl!Entries
      <4>2. CASE Pdl!Enter("idle")
        BY <4>2, EnterEntry
      <4> QED
        BY <1>16, <4>1, <4>2 DEF Pdl!LoadSignal
    <3> QED
      BY <1>16, <3>1 DEF Pdl!LoadSignal
  <2>2. WindowTickHasEnded'
    BY <1>16, EnterEntry DEF Pdl!LoadSignal, Pdl!Ticks
  <2>3. FlatHasEnded'
    BY <1>16, EnterEntry DEF Pdl!LoadSignal, Pdl!Flats
  <2>4. WindowMirrorRace'
    BY <1>16, EnterEntry DEF Pdl!LoadSignal, Pdl!Ticks, Pdl!Flats
  <2>5. EntryIsNew'
    BY <1>16, EnterEntry DEF Pdl!LoadSignal, Pdl!Entries
  <2>6. WindowRecordedIsFilled'
    BY <1>16, EnterEntry DEF Pdl!LoadSignal
  <2>7. WindowBookedIsClosed'
    BY <1>16, EnterEntry DEF Pdl!LoadSignal
  <2> QED
    BY <2>1, <2>2, <2>3, <2>4, <2>5, <2>6, <2>7
<1>17. CASE Pdl!EntryDone
  <2>1. Pdl!TypeOK'
    BY <1>17, EnterEntry DEF Pdl!EntryDone, Pdl!Entries, Pdl!Ticks, Pdl!Flats
  <2>2. WindowTickHasEnded'
    BY <1>17, EnterEntry DEF Pdl!EntryDone, Pdl!Ticks
  <2>3. FlatHasEnded'
    BY <1>17, EnterEntry DEF Pdl!EntryDone, Pdl!Flats
  <2>4. WindowMirrorRace'
    BY <1>17, EnterEntry DEF Pdl!EntryDone, Pdl!Ticks, Pdl!Flats
  <2>5. EntryIsNew'
    BY <1>17, EnterEntry DEF Pdl!EntryDone, Pdl!Entries
  <2>6. WindowRecordedIsFilled'
    BY <1>17, EnterEntry DEF Pdl!EntryDone
  <2>7. WindowBookedIsClosed'
    BY <1>17, EnterEntry DEF Pdl!EntryDone
  <2> QED
    BY <2>1, <2>2, <2>3, <2>4, <2>5, <2>6, <2>7
<1>18. CASE Pdl!Order
  <2>1. Pdl!TypeOK'
    BY <1>18, EnterEntry DEF Pdl!Order, Pdl!Entries, Pdl!Ticks, Pdl!Flats
  <2>2. WindowTickHasEnded'
    BY <1>18, EnterEntry DEF Pdl!Order, Pdl!Ticks
  <2>3. FlatHasEnded'
    BY <1>18, EnterEntry DEF Pdl!Order, Pdl!Flats
  <2>4. WindowMirrorRace'
    BY <1>18, EnterEntry DEF Pdl!Order, Pdl!Ticks, Pdl!Flats
  <2>5. EntryIsNew'
    BY <1>18, EnterEntry DEF Pdl!Order, Pdl!Entries
  <2>6. WindowRecordedIsFilled'
    BY <1>18, EnterEntry DEF Pdl!Order
  <2>7. WindowBookedIsClosed'
    BY <1>18, EnterEntry DEF Pdl!Order
  <2> QED
    BY <2>1, <2>2, <2>3, <2>4, <2>5, <2>6, <2>7
<1>19. CASE Pdl!Insert
  <2>1. Pdl!TypeOK'
    BY <1>19, EnterEntry DEF Pdl!Insert, Pdl!Entries, Pdl!Ticks, Pdl!Flats
  <2>2. WindowTickHasEnded'
    BY <1>19, EnterEntry DEF Pdl!Insert, Pdl!Ticks
  <2>3. FlatHasEnded'
    BY <1>19, EnterEntry DEF Pdl!Insert, Pdl!Flats
  <2>4. WindowMirrorRace'
    BY <1>19, EnterEntry DEF Pdl!Insert, Pdl!Ticks, Pdl!Flats
  <2>5. EntryIsNew'
    BY <1>19, EnterEntry DEF Pdl!Insert, Pdl!Entries
  <2>6. WindowRecordedIsFilled'
    BY <1>19, EnterEntry DEF Pdl!Insert
  <2>7. WindowBookedIsClosed'
    BY <1>19, EnterEntry DEF Pdl!Insert
  <2> QED
    BY <2>1, <2>2, <2>3, <2>4, <2>5, <2>6, <2>7
<1>20. CASE Pdl!FlatLoad
  <2>1. Pdl!TypeOK'
    <3>1. flat' \in Pdl!Flats
      <4>1. CASE flat' = [flat EXCEPT !.at = "each", !.todo = Pdl!Open]
        BY <4>1 DEF Pdl!Flats, Pdl!Open
      <4>2. CASE Pdl!FlatGoto("idle")
        BY <4>2, GotoFlat
      <4> QED
        BY <1>20, <4>1, <4>2 DEF Pdl!FlatLoad
    <3> QED
      BY <1>20, <3>1 DEF Pdl!FlatLoad
  <2>2. WindowTickHasEnded'
    BY <1>20, GotoFlat DEF Pdl!FlatLoad, Pdl!Ticks, Pdl!Open
  <2>3. FlatHasEnded'
    <3>1. \A t \in Pdl!Open : row[t] # "none"
      BY DEF Pdl!Open
    <3>2. CASE flat' = [flat EXCEPT !.at = "each", !.todo = Pdl!Open]
      BY <1>20, <3>1, <3>2 DEF Pdl!FlatLoad, Pdl!Flats
    <3>3. CASE Pdl!FlatGoto("idle")
      BY <1>20, <3>3, GotoFlat DEF Pdl!FlatLoad
    <3> QED
      BY <1>20, <3>2, <3>3 DEF Pdl!FlatLoad
  <2>4. WindowMirrorRace'
    BY <1>20, GotoFlat DEF Pdl!FlatLoad, Pdl!Ticks, Pdl!Flats, Pdl!Open
  <2>5. EntryIsNew'
    BY <1>20, GotoFlat DEF Pdl!FlatLoad, Pdl!Entries, Pdl!Open
  <2>6. WindowRecordedIsFilled'
    BY <1>20, GotoFlat DEF Pdl!FlatLoad, Pdl!Open
  <2>7. WindowBookedIsClosed'
    BY <1>20, GotoFlat DEF Pdl!FlatLoad, Pdl!Open
  <2> QED
    BY <2>1, <2>2, <2>3, <2>4, <2>5, <2>6, <2>7
<1>21. CASE Pdl!FlatDone
  <2>1. Pdl!TypeOK'
    BY <1>21, GotoFlat DEF Pdl!FlatDone, Pdl!Entries, Pdl!Ticks, Pdl!Flats
  <2>2. WindowTickHasEnded'
    BY <1>21, GotoFlat DEF Pdl!FlatDone, Pdl!Ticks
  <2>3. FlatHasEnded'
    BY <1>21, GotoFlat DEF Pdl!FlatDone, Pdl!Flats
  <2>4. WindowMirrorRace'
    BY <1>21, GotoFlat DEF Pdl!FlatDone, Pdl!Ticks, Pdl!Flats
  <2>5. EntryIsNew'
    BY <1>21, GotoFlat DEF Pdl!FlatDone, Pdl!Entries
  <2>6. WindowRecordedIsFilled'
    BY <1>21, GotoFlat DEF Pdl!FlatDone
  <2>7. WindowBookedIsClosed'
    BY <1>21, GotoFlat DEF Pdl!FlatDone
  <2> QED
    BY <2>1, <2>2, <2>3, <2>4, <2>5, <2>6, <2>7
<1>22. CASE Pdl!FlatClose
  <2>1. Pdl!TypeOK'
    BY <1>22, GotoFlat DEF Pdl!FlatClose, Pdl!Entries, Pdl!Ticks, Pdl!Flats, Pdl!CloseWorks,
        Pdl!CloseThrows
  <2>2. WindowTickHasEnded'
    BY <1>22, GotoFlat DEF Pdl!FlatClose, Pdl!Ticks, Pdl!CloseWorks, Pdl!CloseThrows
  <2>3. FlatHasEnded'
    BY <1>22, GotoFlat DEF Pdl!FlatClose, Pdl!Flats, Pdl!CloseWorks, Pdl!CloseThrows, Honest
  <2>4. WindowMirrorRace'
    BY <1>22, GotoFlat DEF Pdl!FlatClose, Pdl!Ticks, Pdl!Flats, Pdl!CloseWorks, Pdl!CloseThrows
  <2>5. EntryIsNew'
    BY <1>22, GotoFlat DEF Pdl!FlatClose, Pdl!Entries, Pdl!CloseWorks, Pdl!CloseThrows
  <2>6. WindowRecordedIsFilled'
    BY <1>22, GotoFlat DEF Pdl!FlatClose, Pdl!CloseWorks, Pdl!CloseThrows
  <2>7. WindowBookedIsClosed'
    BY <1>22, GotoFlat DEF Pdl!FlatClose, Pdl!CloseWorks, Pdl!CloseThrows
  <2> QED
    BY <2>1, <2>2, <2>3, <2>4, <2>5, <2>6, <2>7
<1>23. CASE Pdl!FlatRow
  <2>1. Pdl!TypeOK'
    BY <1>23, GotoFlat DEF Pdl!FlatRow, Pdl!Entries, Pdl!Ticks, Pdl!Flats, Pdl!Book
  <2>2. WindowTickHasEnded'
    BY <1>23, GotoFlat DEF Pdl!FlatRow, Pdl!Ticks, Pdl!Book
  <2>3. FlatHasEnded'
    BY <1>23, GotoFlat DEF Pdl!FlatRow, Pdl!Flats, Pdl!Book
  <2>4. WindowMirrorRace'
    BY <1>23, GotoFlat DEF Pdl!FlatRow, Pdl!Ticks, Pdl!Flats, Pdl!Book
  <2>5. EntryIsNew'
    BY <1>23, GotoFlat DEF Pdl!FlatRow, Pdl!Entries, Pdl!Book
  <2>6. WindowRecordedIsFilled'
    BY <1>23, GotoFlat DEF Pdl!FlatRow, Pdl!Book
  <2>7. WindowBookedIsClosed'
    BY <1>23, GotoFlat DEF Pdl!FlatRow, Pdl!Book
  <2> QED
    BY <2>1, <2>2, <2>3, <2>4, <2>5, <2>6, <2>7
<1>24. CASE Pdl!FlatSync
  <2>1. Pdl!TypeOK'
    BY <1>24, GotoFlat DEF Pdl!FlatSync, Pdl!Entries, Pdl!Ticks, Pdl!Flats
  <2>2. WindowTickHasEnded'
    BY <1>24, GotoFlat DEF Pdl!FlatSync, Pdl!Ticks
  <2>3. FlatHasEnded'
    BY <1>24, GotoFlat DEF Pdl!FlatSync, Pdl!Flats
  <2>4. WindowMirrorRace'
    BY <1>24, GotoFlat DEF Pdl!FlatSync, Pdl!Ticks, Pdl!Flats
  <2>5. EntryIsNew'
    BY <1>24, GotoFlat DEF Pdl!FlatSync, Pdl!Entries
  <2>6. WindowRecordedIsFilled'
    BY <1>24, GotoFlat DEF Pdl!FlatSync
  <2>7. WindowBookedIsClosed'
    BY <1>24, GotoFlat DEF Pdl!FlatSync
  <2> QED
    BY <2>1, <2>2, <2>3, <2>4, <2>5, <2>6, <2>7
<1>25. CASE Pdl!FlatMirror
  <2>1. Pdl!TypeOK'
    BY <1>25, GotoFlat DEF Pdl!FlatMirror, Pdl!Entries, Pdl!Ticks, Pdl!Flats, Pdl!Mirror
  <2>2. WindowTickHasEnded'
    BY <1>25, GotoFlat DEF Pdl!FlatMirror, Pdl!Ticks, Pdl!Mirror
  <2>3. FlatHasEnded'
    BY <1>25, GotoFlat DEF Pdl!FlatMirror, Pdl!Flats, Pdl!Mirror
  <2>4. WindowMirrorRace'
    BY <1>25, GotoFlat DEF Pdl!FlatMirror, Pdl!Ticks, Pdl!Flats, Pdl!Mirror
  <2>5. EntryIsNew'
    BY <1>25, GotoFlat DEF Pdl!FlatMirror, Pdl!Entries, Pdl!Mirror
  <2>6. WindowRecordedIsFilled'
    BY <1>25, GotoFlat DEF Pdl!FlatMirror, Pdl!Mirror
  <2>7. WindowBookedIsClosed'
    BY <1>25, GotoFlat DEF Pdl!FlatMirror, Pdl!Mirror
  <2> QED
    BY <2>1, <2>2, <2>3, <2>4, <2>5, <2>6, <2>7
<1>26. CASE Pdl!Crash
  <2>1. Pdl!TypeOK'
    BY <1>26, WindowIdleTyped DEF Pdl!Crash, Pdl!Entries, Pdl!Ticks, Pdl!Flats,
        Pdl!IdleTick, Pdl!IdleFlat, Pdl!IdleEntry
  <2>2. WindowTickHasEnded'
    BY <1>26, WindowIdleTyped DEF Pdl!Crash, Pdl!Ticks, Pdl!IdleTick, Pdl!IdleFlat, Pdl!IdleEntry
  <2>3. FlatHasEnded'
    BY <1>26, WindowIdleTyped DEF Pdl!Crash, Pdl!Flats, Pdl!IdleTick, Pdl!IdleFlat, Pdl!IdleEntry
  <2>4. WindowMirrorRace'
    BY <1>26, WindowIdleTyped DEF Pdl!Crash, Pdl!Ticks, Pdl!Flats, Pdl!IdleTick,
        Pdl!IdleFlat, Pdl!IdleEntry
  <2>5. EntryIsNew'
    BY <1>26, WindowIdleTyped DEF Pdl!Crash, Pdl!Entries, Pdl!IdleTick, Pdl!IdleFlat, Pdl!IdleEntry
  <2>6. WindowRecordedIsFilled'
    BY <1>26, WindowIdleTyped DEF Pdl!Crash, Pdl!IdleTick, Pdl!IdleFlat, Pdl!IdleEntry
  <2>7. WindowBookedIsClosed'
    BY <1>26, WindowIdleTyped DEF Pdl!Crash, Pdl!IdleTick, Pdl!IdleFlat, Pdl!IdleEntry
  <2> QED
    BY <2>1, <2>2, <2>3, <2>4, <2>5, <2>6, <2>7
<1>27. CASE Pdl!Restart
  BY <1>27 DEF Pdl!Restart, Pdl!Entries, Pdl!Ticks, Pdl!Flats
<1>28. ASSUME NEW b \in Brokers, Pdl!Passed(b) PROVE WindowIInv'
  BY <1>28 DEF Pdl!Passed, Pdl!Entries, Pdl!Ticks, Pdl!Flats
<1>29. ASSUME NEW b \in Brokers, Pdl!Setup(b) PROVE WindowIInv'
  <2>1. Pdl!TypeOK'
    BY <1>29 DEF Pdl!Setup, Pdl!Entries, Pdl!Ticks, Pdl!Flats
  <2>2. WindowTickHasEnded'
    BY <1>29 DEF Pdl!Setup, Pdl!Ticks
  <2>3. FlatHasEnded'
    BY <1>29 DEF Pdl!Setup, Pdl!Flats
  <2>4. WindowMirrorRace'
    BY <1>29 DEF Pdl!Setup, Pdl!Ticks, Pdl!Flats
  <2>5. EntryIsNew'
    BY <1>29 DEF Pdl!Setup, Pdl!Entries
  <2>6. WindowRecordedIsFilled'
    BY <1>29 DEF Pdl!Setup
  <2>7. WindowBookedIsClosed'
    BY <1>29 DEF Pdl!Setup
  <2> QED
    BY <2>1, <2>2, <2>3, <2>4, <2>5, <2>6, <2>7
<1>30. CASE UNCHANGED Pdl!vars
  BY <1>30 DEF Pdl!vars, Pdl!Entries, Pdl!Ticks, Pdl!Flats
<1> QED
  BY <1>1, <1>2, <1>3, <1>4, <1>5, <1>6, <1>7, <1>8, <1>9, <1>10, <1>11, <1>12, <1>13,
      <1>14, <1>15, <1>16, <1>17, <1>18, <1>19, <1>20, <1>21, <1>22, <1>23, <1>24, <1>25,
      <1>26, <1>27, <1>28, <1>29, <1>30 DEF Pdl!Next, Pdl!TickStep, Pdl!EntryStep,
      Pdl!FlatStep

-----------------------------------------------------------------------------
LEMMA WindowAlwaysIInv == ASSUME Pdl!PdlAssumption PROVE Pdl!Spec => []WindowIInv
BY Pdl!PdlAssumption, WindowInitInductive, WindowStepInductive, PTL DEF Pdl!Spec

(* Every reachable state is well typed; tick and cron mirror a trade at    *)
(* most twice between them, and only when they race for it.                *)
THEOREM WindowTypeCorrect == ASSUME Pdl!PdlAssumption PROVE Pdl!Spec => []Pdl!TypeOK
<1>1. WindowIInv => Pdl!TypeOK
  BY DEF WindowIInv
<1> QED
  BY Pdl!PdlAssumption, WindowAlwaysIInv, <1>1, PTL

(* What is booked or mirrored has ended, whether the tick, the 13:00 cron  *)
(* or the broker closed it, over any number of days and whatever fails but *)
(* a cancelled close.                                                      *)
THEOREM WindowBookedTradesHaveEnded ==
  ASSUME Pdl!PdlAssumption, Honest
  PROVE  Pdl!Spec => []Pdl!BookedHasEnded
<1>1. WindowIInv => Pdl!BookedHasEnded
  BY Honest DEF WindowIInv, WindowBookedIsClosed
<1> QED
  BY Pdl!PdlAssumption, WindowAlwaysIInv, <1>1, PTL
-----------------------------------------------------------------------------
(* The window moves its tables the same way.                               *)
WindowSyncIsBooked ==
  /\ tick.at \in {"sync", "mirror"} => row[tick.cur] = "booked"
  /\ flat.at \in {"sync", "mirror"} => row[flat.cur] = "booked"

LEMMA WindowMoveIsATablesStep ==
  ASSUME TablesTyped, OneMove
  PROVE  [Pdl!Tables!TablesNext]_<<venue, Pdl!RowSays, Pdl!MirrorSays>>
<1> USE DEF TablesTyped, Pdl!RowSays, Pdl!MirrorSays
<1>1. CASE UNCHANGED <<venue, row, mirrors>>
  BY <1>1
<1>2. ASSUME NEW t \in Trades, Fills(t) \/ Ends(t), UNCHANGED <<row, mirrors>>
      PROVE  Pdl!Tables!Fill(t) \/ Pdl!Tables!End(t)
  BY <1>2 DEF Fills, Ends, Pdl!Tables!Fill, Pdl!Tables!End, Pdl!Tables!Moves
<1>3. ASSUME NEW t \in Trades, Records(t), UNCHANGED <<venue, mirrors>>
      PROVE  Pdl!Tables!WriteRow({t}, "open")
  BY <1>3 DEF Records, Pdl!Tables!WriteRow, Pdl!Tables!Says, Pdl!Tables!Behind
<1>4. ASSUME NEW t \in Trades, Settles(t), UNCHANGED <<venue, mirrors>>
      PROVE  Pdl!Tables!WriteRow({t}, "closed") \/ UNCHANGED <<venue, row, mirrors>>
  BY <1>4 DEF Settles, Pdl!Tables!WriteRow, Pdl!Tables!Says, Pdl!Tables!Behind
<1>5. ASSUME NEW t \in Trades, Mirrors(t), UNCHANGED <<venue, row>>
      PROVE  Pdl!Tables!WriteMirror({t}, "closed") \/ UNCHANGED <<venue, Pdl!RowSays, Pdl!MirrorSays>>
  BY <1>5 DEF Mirrors, Pdl!Tables!WriteMirror, Pdl!Tables!Says, Pdl!Tables!Behind
<1>6. \A t \in Trades : {t} \in SUBSET Trades
  OBVIOUS
<1> QED
  BY <1>1, <1>2, <1>3, <1>4, <1>5, <1>6 DEF OneMove, Pdl!Tables!TablesNext

LEMMA WindowStepIsOneMove ==
  ASSUME Honest, WindowIInv, WindowSyncIsBooked, [Pdl!Next]_Pdl!vars
  PROVE  OneMove
<1> USE DEF OneMove, Pdl!time, Pdl!market, Pdl!tables
<1>1. ASSUME NEW t \in Trades, Pdl!VenueEnds(t) PROVE OneMove
  BY <1>1 DEF Pdl!VenueEnds, Ends
<1>2. CASE Pdl!ForceCloseTrade
  BY <1>2 DEF Pdl!ForceCloseTrade, Pdl!At, Pdl!CloseWorks, Pdl!CloseThrows, Ends,
     WindowIInv, WindowTickHasEnded
<1>3. CASE Pdl!FlatClose
  BY <1>3 DEF Pdl!FlatClose, Pdl!FlatAt, Pdl!CloseWorks, Pdl!CloseThrows, Ends,
     WindowIInv, FlatHasEnded
<1>4. CASE Pdl!PersistClose
  BY <1>4, Honest DEF Pdl!PersistClose, Pdl!At, Pdl!Book, WindowIInv, WindowTickHasEnded, Settles
<1>5. CASE Pdl!FlatRow
  BY <1>5, Honest DEF Pdl!FlatRow, Pdl!FlatAt, Pdl!Book, WindowIInv, FlatHasEnded, Settles
<1>6. CASE Pdl!InsertMirror
  BY <1>6, Honest DEF Pdl!InsertMirror, Pdl!At, Pdl!Mirror, WindowSyncIsBooked, WindowIInv,
     WindowTickHasEnded, Mirrors
<1>7. CASE Pdl!FlatMirror
  BY <1>7, Honest DEF Pdl!FlatMirror, Pdl!FlatAt, Pdl!Mirror, WindowSyncIsBooked, WindowIInv,
     FlatHasEnded, Mirrors
<1>8. CASE Pdl!Order
  BY <1>8 DEF Pdl!Order, Pdl!EntryAt, WindowIInv, EntryIsNew, Fills
<1>9. CASE Pdl!Insert
  BY <1>9 DEF Pdl!Insert, Pdl!EntryAt, WindowIInv, EntryIsNew, Records
<1>10. CASE Pdl!Noon \/ Pdl!OnePm \/ Pdl!Midnight \/ Pdl!TickThrows \/ Pdl!Crash \/ Pdl!Restart
            \/ UNCHANGED Pdl!vars
  BY <1>10 DEF Pdl!Noon, Pdl!OnePm, Pdl!Midnight, Pdl!TickThrows, Pdl!Crash, Pdl!Restart, Pdl!vars
<1>11. ASSUME NEW t \in Trades, Pdl!PollSkips(t) \/ Pdl!PollFinds(t) \/ Pdl!FlatEach(t)
       PROVE  OneMove
  BY <1>11 DEF Pdl!PollSkips, Pdl!PollFinds, Pdl!FlatEach
<1>12. CASE Pdl!LoadOpen \/ Pdl!PollDone \/ Pdl!MirrorExists
  BY <1>12 DEF Pdl!LoadOpen, Pdl!PollDone, Pdl!MirrorExists
<1>13. CASE Pdl!Detect \/ Pdl!LoadSignal \/ Pdl!EntryDone
  BY <1>13 DEF Pdl!Detect, Pdl!LoadSignal, Pdl!EntryDone
<1>14. ASSUME NEW b \in Brokers, Pdl!Passed(b) \/ Pdl!Setup(b) PROVE OneMove
  BY <1>14 DEF Pdl!Passed, Pdl!Setup
<1>15. CASE Pdl!FlatLoad \/ Pdl!FlatDone \/ Pdl!FlatSync
  BY <1>15 DEF Pdl!FlatLoad, Pdl!FlatDone, Pdl!FlatSync
<1> QED
  BY <1>1, <1>2, <1>3, <1>4, <1>5, <1>6, <1>7, <1>8, <1>9, <1>10, <1>11, <1>12, <1>13, <1>14, <1>15
     DEF Pdl!Next, Pdl!TickStep, Pdl!EntryStep, Pdl!FlatStep

LEMMA WindowSyncStaysBooked ==
  ASSUME Honest, WindowIInv, WindowSyncIsBooked, [Pdl!Next]_Pdl!vars
  PROVE  WindowSyncIsBooked'
<1>1. \A t \in Trades : row[t] = "booked" => row'[t] = "booked"
  BY WindowStepIsOneMove, MoveKeepsBooked DEF WindowIInv, Pdl!TypeOK, TablesTyped
<1>2. tick \in Pdl!Ticks /\ flat \in Pdl!Flats
  BY DEF WindowIInv, Pdl!TypeOK
<1>3. \/ tick'.at \notin {"sync", "mirror"}
      \/ tick' = tick
      \/ tick.at \in {"row", "sync"} /\ tick'.cur = tick.cur
           /\ (tick.at = "row" => Pdl!Book(tick.cur))
  <2> USE <1>2 DEF Pdl!At, Pdl!TickPcs
  <2>1. CASE Pdl!PersistClose
    BY <2>1, WindowGotoTick DEF Pdl!PersistClose
  <2>2. CASE Pdl!MirrorExists
    BY <2>2, WindowGotoTick DEF Pdl!MirrorExists
  <2>3. CASE Pdl!InsertMirror \/ Pdl!ForceCloseTrade \/ Pdl!PollDone \/ Pdl!TickThrows
    BY <2>3, WindowGotoTick DEF Pdl!InsertMirror, Pdl!ForceCloseTrade, Pdl!PollDone, Pdl!TickThrows
  <2>4. CASE Pdl!LoadOpen \/ Pdl!Crash
    <3>1. Pdl!LoadOpen => tick'.at = "poll"
      BY WindowIdleTyped DEF Pdl!LoadOpen, Pdl!Ticks
    <3>2. Pdl!Crash => tick'.at = "idle"
      BY DEF Pdl!Crash, Pdl!IdleTick
    <3> QED
      BY <2>4, <3>1, <3>2
  <2>5. ASSUME NEW t \in Trades, Pdl!PollSkips(t)
        PROVE  tick'.at \notin {"sync", "mirror"}
    BY <2>5 DEF Pdl!PollSkips, Pdl!Ticks
  <2>6. ASSUME NEW t \in Trades, Pdl!PollFinds(t)
        PROVE  tick'.at \notin {"sync", "mirror"}
    BY <2>6 DEF Pdl!PollFinds, Pdl!Polled
  <2>7. ASSUME NEW t \in Trades, Pdl!VenueEnds(t) PROVE tick' = tick
    BY <2>7 DEF Pdl!VenueEnds
  <2>8. CASE Pdl!Noon \/ Pdl!OnePm \/ Pdl!Midnight \/ Pdl!Restart \/ UNCHANGED Pdl!vars
    BY <2>8 DEF Pdl!Noon, Pdl!OnePm, Pdl!Midnight, Pdl!Restart, Pdl!vars
  <2>9. CASE Pdl!EntryStep
    BY <2>9 DEF Pdl!EntryStep, Pdl!Detect, Pdl!LoadSignal, Pdl!EntryDone, Pdl!Order, Pdl!Insert,
       Pdl!Passed, Pdl!Setup
  <2>10. CASE Pdl!FlatStep
    BY <2>10 DEF Pdl!FlatStep, Pdl!FlatLoad, Pdl!FlatDone, Pdl!FlatEach, Pdl!FlatClose, Pdl!FlatRow,
       Pdl!FlatSync, Pdl!FlatMirror
  <2> QED
    BY <2>1, <2>2, <2>3, <2>4, <2>5, <2>6, <2>7, <2>8, <2>9, <2>10 DEF Pdl!Next, Pdl!TickStep
<1>4. \/ flat'.at \notin {"sync", "mirror"}
      \/ flat' = flat
      \/ flat.at \in {"row", "sync"} /\ flat'.cur = flat.cur
           /\ (flat.at = "row" => Pdl!Book(flat.cur))
  <2> USE <1>2 DEF Pdl!FlatAt, Pdl!FlatPcs
  <2>1. CASE Pdl!FlatRow
    BY <2>1, GotoFlat DEF Pdl!FlatRow
  <2>2. CASE Pdl!FlatSync
    BY <2>2, GotoFlat DEF Pdl!FlatSync
  <2>3. CASE Pdl!FlatDone \/ Pdl!FlatClose \/ Pdl!FlatMirror
    BY <2>3, GotoFlat DEF Pdl!FlatDone, Pdl!FlatClose, Pdl!FlatMirror
  <2>4. CASE Pdl!FlatLoad
    BY <2>4, GotoFlat DEF Pdl!FlatLoad, Pdl!Flats
  <2>5. ASSUME NEW t \in Trades, Pdl!FlatEach(t) PROVE flat'.at \notin {"sync", "mirror"}
    BY <2>5 DEF Pdl!FlatEach
  <2>6. CASE Pdl!OnePm
    <3>1. flat' = flat \/ flat'.at = "load"
      BY <2>6, WindowIdleTyped DEF Pdl!OnePm, Pdl!IdleFlat
    <3> QED
      BY <3>1
  <2>7. CASE Pdl!Noon \/ Pdl!Midnight \/ Pdl!TickThrows \/ Pdl!Restart \/ Pdl!Crash \/ UNCHANGED Pdl!vars
    BY <2>7 DEF Pdl!Noon, Pdl!Midnight, Pdl!TickThrows, Pdl!Restart, Pdl!Crash, Pdl!IdleFlat, Pdl!vars
  <2>8. ASSUME NEW t \in Trades, Pdl!VenueEnds(t) PROVE flat' = flat
    BY <2>8 DEF Pdl!VenueEnds
  <2>9. CASE Pdl!TickStep
    BY <2>9 DEF Pdl!TickStep, Pdl!LoadOpen, Pdl!PollDone, Pdl!PollSkips, Pdl!PollFinds,
       Pdl!ForceCloseTrade, Pdl!PersistClose, Pdl!MirrorExists, Pdl!InsertMirror
  <2>10. CASE Pdl!EntryStep
    BY <2>10 DEF Pdl!EntryStep, Pdl!Detect, Pdl!LoadSignal, Pdl!EntryDone, Pdl!Order, Pdl!Insert,
       Pdl!Passed, Pdl!Setup
  <2> QED
    BY <2>1, <2>2, <2>3, <2>4, <2>5, <2>6, <2>7, <2>8, <2>9, <2>10 DEF Pdl!Next, Pdl!FlatStep
<1>5. /\ tick.at \in {"row", "sync", "mirror"} => tick.cur \in Trades
      /\ flat.at \in {"row", "sync", "mirror"} => flat.cur \in Trades
  BY DEF WindowIInv, WindowTickHasEnded, FlatHasEnded
<1>6. row \in [Trades -> {"none", "null", "booked"}]
  BY DEF WindowIInv, Pdl!TypeOK
<1> QED
  BY <1>1, <1>3, <1>4, <1>5, <1>6 DEF WindowSyncIsBooked, Pdl!Book

(* The window implements TradeTables: whichever of its crons and its tick  *)
(* places, books or loses a trade, over any number of days, its two tables *)
(* follow it, tell its end only after its end, and take nothing back.      *)
THEOREM WindowTablesImplemented ==
  ASSUME Pdl!PdlAssumption, Honest
  PROVE  Pdl!Spec => Pdl!ImplementsTables
<1>1. Pdl!Init => Pdl!Tables!TablesInit
  BY DEF Pdl!Init, Pdl!Tables!TablesInit, Pdl!RowSays, Pdl!MirrorSays
<1>2. Pdl!Init => WindowSyncIsBooked
  BY DEF Pdl!Init, WindowSyncIsBooked, Pdl!IdleTick, Pdl!IdleFlat
<1>3. WindowIInv /\ WindowSyncIsBooked /\ [Pdl!Next]_Pdl!vars => WindowSyncIsBooked'
  BY Honest, WindowSyncStaysBooked
<1>4. WindowIInv /\ WindowSyncIsBooked /\ [Pdl!Next]_Pdl!vars
      => [Pdl!Tables!TablesNext]_<<venue, Pdl!RowSays, Pdl!MirrorSays>>
  BY Honest, WindowStepIsOneMove, WindowMoveIsATablesStep DEF WindowIInv, Pdl!TypeOK, TablesTyped
<1> QED
  BY Pdl!PdlAssumption, <1>1, <1>2, <1>3, <1>4, WindowAlwaysIInv, PTL
     DEF Pdl!Spec, Pdl!ImplementsTables, Pdl!Tables!Spec
=============================================================================
