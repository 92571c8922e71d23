--------------------------- MODULE AmdBooksProofs ---------------------------
(***************************************************************************)
(* Proofs about AmdBooks for any number of books, trades, overlapping      *)
(* polls and overlapping cycles, and any set of faults.                    *)
(***************************************************************************)
EXTENDS AmdBooks, TLAPS

LEMMA TradeBook == \A t \in Trades : t.book \in Books
BY DEF Trades

LEMMA NextTryIsUnused ==
  ASSUME NEW b \in Books, Unused(b) # {}
  PROVE  NextTry(b) \in Trades /\ NextTry(b).book = b /\ live[NextTry(b)] = "none"
<1>1. NextTry(b) \in Unused(b)
  BY DEF NextTry
<1> QED
  BY <1>1 DEF Unused

-----------------------------------------------------------------------------
(* Every variable keeps its type. *)
Labels == {"idle", "check", "order", "blind", "row", "trail", "done"}

LEMMA NothingSeen == Nothing \in Snapshots
BY AmdAssumption DEF Nothing, Snapshots

LEMMA LegToType ==
  ASSUME leg \in [Polls -> [Books -> Labels]],
         NEW p \in Polls, NEW b \in Books, NEW l \in Labels, LegTo(p, b, l)
  PROVE  leg' \in [Polls -> [Books -> Labels]]
<1>1. [leg[p] EXCEPT ![b] = l] \in [Books -> Labels]
  OBVIOUS
<1> QED
  BY <1>1 DEF LegTo

LEMMA PlacedType ==
  ASSUME placed \in [Polls -> [Books -> SUBSET Trades]],
         NEW p \in Polls, NEW b \in Books, NEW S \in SUBSET Trades,
         placed' = [placed EXCEPT ![p][b] = S]
  PROVE  placed' \in [Polls -> [Books -> SUBSET Trades]]
<1>1. [placed[p] EXCEPT ![b] = S] \in [Books -> SUBSET Trades]
  OBVIOUS
<1> QED
  BY <1>1

LEMMA TypeInit == Init => TypeOK
BY NothingSeen, AmdAssumption DEF Init, TypeOK

LEMMA TypeNext == TypeOK /\ [Next]_vars => TypeOK'
<1> SUFFICES ASSUME TypeOK, [Next]_vars PROVE TypeOK'
  OBVIOUS
<1> USE AmdAssumption DEF TypeOK, records, pollVars, cycle, Labels
<1>1. CASE Clock
  BY <1>1 DEF Clock
<1>2. CASE Crash
  BY <1>2, NothingSeen DEF Crash
<1>3. CASE Restart
  BY <1>3 DEF Restart
<1>4. ASSUME NEW p \in Polls, PollStart(p) \/ PollEnd(p) PROVE TypeOK'
  <2>1. leg' \in [Polls -> [Books -> Labels]]
    <3>1. \A l \in Labels : [b \in Books |-> l] \in [Books -> Labels]
      OBVIOUS
    <3>2. PICK l \in Labels : leg' = [leg EXCEPT ![p] = [b \in Books |-> l]]
      BY <1>4 DEF PollStart, PollEnd
    <3> QED
      BY <3>1, <3>2
  <2>2. UNCHANGED <<up, slot, records, placed, cycle>>
    BY <1>4 DEF PollStart, PollEnd
  <2> QED
    BY <2>1, <2>2
<1>5. ASSUME NEW p \in Polls, NEW b \in Books, LegStep(p, b) PROVE TypeOK'
  <2>1. CASE LegCheck(p, b)
    BY <2>1, LegToType DEF LegCheck
  <2>2. CASE LegOrder(p, b)
    <3>1. leg' \in [Polls -> [Books -> Labels]]
      BY <2>2, LegToType DEF LegOrder
    <3>2. placed' \in [Polls -> [Books -> SUBSET Trades]]
      <4>1. Unused(b) # {} => {NextTry(b)} \in SUBSET Trades
        BY NextTryIsUnused
      <4> QED
        BY <2>2, <4>1, PlacedType DEF LegOrder
    <3>3. live' \in [Trades -> {"none", "open", "closed"}]
      BY <2>2, NextTryIsUnused DEF LegOrder
    <3>4. UNCHANGED <<up, slot, row, trail, cycle>>
      BY <2>2 DEF LegOrder
    <3> QED
      BY <3>1, <3>2, <3>3, <3>4
  <2>3. CASE LegRow(p, b)
    BY <2>3, LegToType DEF LegRow
  <2>4. CASE LegTrail(p, b)
    BY <2>4, LegToType, PlacedType DEF LegTrail
  <2> QED
    BY <1>5, <2>1, <2>2, <2>3, <2>4 DEF LegStep
<1>6. ASSUME NEW c \in Cycles, CycleStep(c) PROVE TypeOK'
  <2> USE DEF CycleTo, Visits, Visited
  <2>1. CASE CycleStart(c)
    BY <2>1 DEF CycleStart
  <2>2. CASE Venues(c)
    <3>1. PICK answers \in (IF "snapshot" \in Faults THEN SUBSET Books ELSE {Books}) :
            seen' = [seen EXCEPT ![c] =
                      [books |-> answers, hour |-> slot,
                       trades |-> {t \in Trades : t.book \in answers /\ live[t] = "open"}]]
      BY <2>2 DEF Venues
    <3>2. [books |-> answers, hour |-> slot,
           trades |-> {t \in Trades : t.book \in answers /\ live[t] = "open"}] \in Snapshots
      BY DEF Snapshots
    <3>3. seen' \in [Cycles -> Snapshots]
      BY <3>1, <3>2
    <3> QED
      BY <2>2, <3>3 DEF Venues
  <2>3. CASE NoPrice(c)
    BY <2>3 DEF NoPrice
  <2>4. CASE Mark(c)
    BY <2>4 DEF Mark
  <2>5. CASE Log(c)
    BY <2>5 DEF Log
  <2>6. CASE CycleEnd(c)
    BY <2>6, NothingSeen DEF CycleEnd
  <2>7. ASSUME NEW t \in Trades, Visit(c, t) PROVE TypeOK'
    <3>1. CASE Leave(c, t)
      BY <3>1 DEF Leave
    <3>2. CASE Gone(c, t)
      BY <3>2 DEF Gone
    <3>3. CASE CloseWorks(c, t)
      BY <3>3 DEF CloseWorks
    <3>4. CASE CloseThrows(c, t)
      <4>1. live' \in [Trades -> {"none", "open", "closed"}]
        BY <3>4 DEF CloseThrows
      <4> QED
        BY <3>4, <4>1 DEF CloseThrows
    <3> QED
      BY <2>7, <3>1, <3>2, <3>3, <3>4 DEF Visit
  <2> QED
    BY <1>6, <2>1, <2>2, <2>3, <2>4, <2>5, <2>6, <2>7 DEF CycleStep
<1>7. ASSUME NEW t \in Trades, VenueExit(t) PROVE TypeOK'
  BY <1>7 DEF VenueExit
<1>8. CASE UNCHANGED vars
  BY <1>8 DEF vars
<1> QED
  BY <1>1, <1>2, <1>3, <1>4, <1>5, <1>6, <1>7, <1>8 DEF Next

(* Type correctness of every behaviour. *)
THEOREM TypeCorrect == Spec => []TypeOK
BY TypeInit, TypeNext, PTL DEF Spec

-----------------------------------------------------------------------------
(* A trade moves from none to open to closed at its venue, never back. *)
LEMMA LiveMoves ==
  ASSUME TypeOK, [Next]_vars, NEW t \in Trades
  PROVE  /\ live[t] # "none" => live'[t] # "none"
         /\ live[t] = "closed" => live'[t] = "closed"
<1> USE DEF TypeOK, records
<1>1. CASE Clock \/ Crash \/ Restart \/ UNCHANGED vars
  BY <1>1 DEF Clock, Crash, Restart, vars
<1>2. ASSUME NEW p \in Polls, PollStart(p) \/ PollEnd(p)
      PROVE  live' = live
  BY <1>2 DEF PollStart, PollEnd
<1>3. ASSUME NEW p \in Polls, NEW b \in Books, LegStep(p, b)
      PROVE  live' = live \/ \E u \in Trades : live[u] = "none" /\ live' = [live EXCEPT ![u] = "open"]
  BY <1>3, NextTryIsUnused DEF LegStep, LegCheck, LegOrder, LegRow, LegTrail
<1>4. ASSUME NEW c \in Cycles, CycleStep(c)
      PROVE  live' = live \/ \E u \in Trades : live' = [live EXCEPT ![u] = "closed"]
  <2>1. ASSUME NEW u \in Trades, Visit(c, u)
        PROVE  live' \in {live, [live EXCEPT ![u] = "closed"]}
    BY <2>1 DEF Visit, Leave, Gone, CloseWorks, CloseThrows
  <2>2. (CycleStart(c) \/ Venues(c) \/ NoPrice(c) \/ Mark(c) \/ Log(c) \/ CycleEnd(c)) => live' = live
    BY DEF CycleStart, Venues, NoPrice, Mark, Log, CycleEnd
  <2> QED
    BY <1>4, <2>1, <2>2 DEF CycleStep
<1>5. ASSUME NEW u \in Trades, VenueExit(u)
      PROVE  live' = [live EXCEPT ![u] = "closed"]
  BY <1>5 DEF VenueExit
<1> QED
  BY <1>1, <1>2, <1>3, <1>4, <1>5 DEF Next

-----------------------------------------------------------------------------
LEMMA InitInv == Init => IInv
<1> SUFFICES ASSUME Init PROVE IInv
  OBVIOUS
<1>1. TypeOK
  BY TypeInit
<1>2. NeverLetGo /\ RecordedAfterFill /\ EndingHasEnded /\ MissingHasEnded
  BY DEF Init, NeverLetGo, RecordedAfterFill, EndingHasEnded, MissingHasEnded
<1> QED
  BY <1>1, <1>2 DEF IInv

(* A record follows the fill, whoever writes it. *)
LEMMA RecordedNext == IInv /\ [Next]_vars => RecordedAfterFill'
<1> SUFFICES ASSUME IInv, [Next]_vars PROVE RecordedAfterFill'
  OBVIOUS
<1> USE DEF IInv, TypeOK, records, pollVars
<1> DEFINE Kept == \A t \in Trades : live[t] # "none" => live'[t] # "none"
<1>0. Kept
  BY LiveMoves
<1>1. CASE UNCHANGED <<row, trail, placed>>
  BY <1>0, <1>1 DEF RecordedAfterFill
<1>2. CASE Crash
  BY <1>0, <1>2 DEF Crash, RecordedAfterFill
<1>3. CASE Restart
  BY <1>3 DEF Restart, RecordedAfterFill
<1>4. ASSUME NEW p \in Polls, NEW b \in Books, LegStep(p, b) PROVE RecordedAfterFill'
  <2>1. CASE LegCheck(p, b)
    BY <2>1, <1>1 DEF LegCheck
  <2>2. CASE LegOrder(p, b)
    <3>1. CASE UNCHANGED placed
      BY <2>2, <3>1, <1>1 DEF LegOrder
    <3>2. CASE /\ Unused(b) # {}
               /\ live' = [live EXCEPT ![NextTry(b)] = "open"]
               /\ placed' = [placed EXCEPT ![p][b] = {NextTry(b)}]
      <4>1. live'[NextTry(b)] = "open"
        BY <3>2, NextTryIsUnused
      <4>2. \A q \in Polls, d \in Books : placed'[q][d] = {NextTry(b)} \/ placed'[q][d] = placed[q][d]
        BY <3>2
      <4>3. UNCHANGED <<row, trail>>
        BY <2>2 DEF LegOrder
      <4>4. ASSUME NEW q \in Polls, NEW d \in Books, NEW t \in placed'[q][d] PROVE live'[t] # "none"
        <5>0. t \in {NextTry(b)} \/ t \in placed[q][d]
          BY <4>2
        <5>1. CASE t = NextTry(b)
          BY <4>1, <5>1
        <5>2. CASE t \in placed[q][d]
          BY <1>0, <5>2 DEF RecordedAfterFill
        <5> QED
          BY <5>0, <5>1, <5>2
      <4> QED
        BY <1>0, <4>3, <4>4 DEF RecordedAfterFill
    <3> QED
      BY <2>2, <3>1, <3>2 DEF LegOrder
  <2>3. CASE LegRow(p, b)
    BY <2>3 DEF LegRow, RecordedAfterFill
  <2>4. CASE LegTrail(p, b)
    <3>1. \A q \in Polls, d \in Books : placed'[q][d] = {} \/ placed'[q][d] = placed[q][d]
      BY <2>4 DEF LegTrail
    <3> QED
      BY <2>4, <3>1 DEF LegTrail, RecordedAfterFill
  <2> QED
    BY <1>4, <2>1, <2>2, <2>3, <2>4 DEF LegStep
<1>5. ASSUME NEW c \in Cycles, CycleStep(c) PROVE RecordedAfterFill'
  <2>1. CASE Mark(c)
    BY <2>1 DEF Mark, RecordedAfterFill, EndingHasEnded
  <2>2. CASE Log(c)
    BY <2>2 DEF Log, RecordedAfterFill
  <2>3. CASE CycleStart(c) \/ Venues(c) \/ NoPrice(c) \/ CycleEnd(c)
    BY <2>3, <1>1 DEF CycleStart, Venues, NoPrice, CycleEnd
  <2>4. ASSUME NEW t \in Trades, Visit(c, t) PROVE RecordedAfterFill'
    BY <2>4, <1>1 DEF Visit, Leave, Gone, CloseWorks, CloseThrows
  <2> QED
    BY <1>5, <2>1, <2>2, <2>3, <2>4 DEF CycleStep
<1>6. CASE Clock \/ UNCHANGED vars \/ (\E p \in Polls : PollStart(p) \/ PollEnd(p)) \/ (\E t \in Trades : VenueExit(t))
  BY <1>6, <1>1 DEF Clock, vars, PollStart, PollEnd, VenueExit
<1> QED
  BY <1>2, <1>3, <1>4, <1>5, <1>6 DEF Next

(* What a cycle is recording has ended, unless a cancelled close was taken *)
(* for done.                                                               *)
LEMMA EndingNext == ASSUME Honest PROVE IInv /\ [Next]_vars => EndingHasEnded'
<1> SUFFICES ASSUME IInv, [Next]_vars PROVE EndingHasEnded'
  OBVIOUS
<1> USE Honest DEF IInv, TypeOK, records, cycle
<1>0. \A t \in Trades : live[t] = "closed" => live'[t] = "closed"
  BY LiveMoves
<1>1. CASE UNCHANGED ending
  BY <1>0, <1>1 DEF EndingHasEnded
<1>2. CASE Crash
  BY <1>2 DEF Crash, EndingHasEnded
<1>3. ASSUME NEW p \in Polls, PollStart(p) \/ PollEnd(p) \/ (\E b \in Books : LegStep(p, b))
      PROVE  EndingHasEnded'
  BY <1>1, <1>3 DEF PollStart, PollEnd, LegStep, LegCheck, LegOrder, LegRow, LegTrail
<1>4. ASSUME NEW c \in Cycles, CycleStep(c) PROVE EndingHasEnded'
  <2>1. CASE CycleStart(c) \/ Venues(c) \/ NoPrice(c) \/ CycleEnd(c) \/ Mark(c)
    BY <2>1, <1>1 DEF CycleStart, Venues, NoPrice, CycleEnd, Mark
  <2>2. CASE Log(c)
    BY <1>0, <2>2 DEF Log, EndingHasEnded
  <2>3. ASSUME NEW t \in Trades, Visit(c, t) PROVE EndingHasEnded'
    <3>1. CASE Leave(c, t) \/ CloseThrows(c, t)
      BY <3>1, <1>1 DEF Leave, CloseThrows
    <3>2. CASE Gone(c, t)
      <4>1. live[t] = "closed"
        BY <3>2 DEF Gone, Visits, MissingHasEnded
      <4> QED
        BY <1>0, <3>2, <4>1 DEF Gone, EndingHasEnded
    <3>3. CASE CloseWorks(c, t)
      <4>1. live'[t] = "closed"
        BY <3>3 DEF CloseWorks, Honest
      <4> QED
        BY <1>0, <3>3, <4>1 DEF CloseWorks, EndingHasEnded
    <3> QED
      BY <2>3, <3>1, <3>2, <3>3 DEF Visit
  <2> QED
    BY <1>4, <2>1, <2>2, <2>3 DEF CycleStep
<1>5. CASE Clock \/ Restart \/ UNCHANGED vars \/ (\E t \in Trades : VenueExit(t))
  BY <1>5, <1>1 DEF Clock, Restart, vars, VenueExit
<1> QED
  BY <1>2, <1>3, <1>4, <1>5 DEF Next

(* A trade missing from the answer of a book that was asked after the      *)
(* states were read has ended.                                             *)
LEMMA MissingNext == IInv /\ [Next]_vars => MissingHasEnded'
<1> SUFFICES ASSUME IInv, [Next]_vars PROVE MissingHasEnded'
  OBVIOUS
<1> USE DEF IInv, TypeOK, records, cycle
<1>0. \A t \in Trades : /\ live[t] # "none" => live'[t] # "none"
                        /\ live[t] = "closed" => live'[t] = "closed"
  BY LiveMoves
<1> DEFINE Late == {"loop", "mark", "log"}
           Good(c) == /\ \A t \in states'[c] : live'[t] # "none"
                      /\ at'[c] \in Late => \A t \in states'[c] :
                           t.book \in seen'[c].books /\ t \notin seen'[c].trades => live'[t] = "closed"
<1>1. ASSUME NEW c \in Cycles, states'[c] \subseteq states[c],
             at'[c] \in Late => at[c] \in Late /\ seen'[c] = seen[c]
      PROVE  Good(c)
  BY <1>0, <1>1 DEF MissingHasEnded
<1>2. CASE UNCHANGED cycle
  BY <1>1, <1>2 DEF MissingHasEnded
<1>3. CASE Crash
  BY <1>3 DEF Crash, MissingHasEnded
<1>4. ASSUME NEW p \in Polls, PollStart(p) \/ PollEnd(p) \/ (\E b \in Books : LegStep(p, b))
      PROVE  MissingHasEnded'
  BY <1>2, <1>4 DEF PollStart, PollEnd, LegStep, LegCheck, LegOrder, LegRow, LegTrail
<1>5. ASSUME NEW c \in Cycles, CycleStep(c) PROVE MissingHasEnded'
  <2>1. ASSUME NEW d \in Cycles, d # c PROVE Good(d)
    <3>1. states'[d] = states[d] /\ seen'[d] = seen[d] /\ at'[d] = at[d]
      BY <1>5, <2>1 DEF CycleStep, CycleStart, Venues, NoPrice, Mark, Log, CycleEnd, Visit,
         Leave, Gone, CloseWorks, CloseThrows, CycleTo, Visited
    <3> QED
      BY <1>1, <3>1
  <2>2. CASE CycleStart(c)
    <3>1. states'[c] = {t \in Trades : trail[t] = "open"} /\ at'[c] = "venues"
      BY <2>2 DEF CycleStart, CycleTo
    <3>2. Good(c)
      BY <1>0, <3>1 DEF RecordedAfterFill
    <3> QED
      BY <2>1, <3>2 DEF MissingHasEnded
  <2>3. CASE Venues(c)
    <3>1. PICK answers \in (IF "snapshot" \in Faults THEN SUBSET Books ELSE {Books}) :
            seen' = [seen EXCEPT ![c] =
                      [books |-> answers, hour |-> slot,
                       trades |-> {t \in Trades : t.book \in answers /\ live[t] = "open"}]]
      BY <2>3 DEF Venues
    <3>2. /\ seen'[c].books = answers
          /\ seen'[c].trades = {t \in Trades : t.book \in answers /\ live[t] = "open"}
      BY <3>1
    <3>3. states' = states /\ live' = live
      BY <2>3 DEF Venues
    <3>4. Good(c)
      BY <3>2, <3>3 DEF MissingHasEnded
    <3> QED
      BY <2>1, <3>4 DEF MissingHasEnded
  <2>4. CASE NoPrice(c) \/ Mark(c) \/ Log(c) \/ CycleEnd(c) \/ \E t \in Trades : Visit(c, t)
    <3>1. states'[c] \subseteq states[c]
      BY <2>4 DEF NoPrice, Mark, Log, CycleEnd, Visit, Leave, Gone, CloseWorks, CloseThrows, Visited
    <3>2. at'[c] \in Late => at[c] \in Late /\ seen'[c] = seen[c]
      BY <2>4 DEF NoPrice, Mark, Log, CycleEnd, Visit, Visits, Leave, Gone, CloseWorks, CloseThrows, CycleTo
    <3> QED
      BY <1>1, <2>1, <3>1, <3>2 DEF MissingHasEnded
  <2> QED
    BY <1>5, <2>2, <2>3, <2>4 DEF CycleStep
<1>6. CASE Clock \/ Restart \/ UNCHANGED vars \/ (\E t \in Trades : VenueExit(t))
  BY <1>6, <1>2 DEF Clock, Restart, vars, VenueExit
<1> QED
  BY <1>3, <1>4, <1>5, <1>6 DEF Next

LEMMA LetGoNext == IInv /\ [Next]_vars => NeverLetGo'
<1> SUFFICES ASSUME IInv, [Next]_vars PROVE NeverLetGo'
  OBVIOUS
<1> USE DEF IInv, TypeOK, records
<1>0. \A t \in Trades : live[t] = "closed" => live'[t] = "closed"
  BY LiveMoves
<1>1. CASE UNCHANGED <<row, trail>>
  BY <1>0, <1>1 DEF NeverLetGo
<1>2. CASE Restart
  BY <1>2 DEF Restart, NeverLetGo
<1>3. ASSUME NEW p \in Polls, NEW b \in Books, LegStep(p, b) PROVE NeverLetGo'
  <2>1. CASE LegCheck(p, b) \/ LegOrder(p, b)
    BY <2>1, <1>1 DEF LegCheck, LegOrder
  <2>2. CASE LegRow(p, b)
    BY <2>2 DEF LegRow, NeverLetGo
  <2>3. CASE LegTrail(p, b)
    BY <2>3 DEF LegTrail, NeverLetGo
  <2> QED
    BY <1>3, <2>1, <2>2, <2>3 DEF LegStep
<1>4. ASSUME NEW c \in Cycles, CycleStep(c) PROVE NeverLetGo'
  <2>1. CASE Mark(c)
    BY <2>1 DEF Mark, NeverLetGo, EndingHasEnded
  <2>2. CASE Log(c)
    BY <2>2 DEF Log, NeverLetGo, EndingHasEnded
  <2>3. CASE CycleStart(c) \/ Venues(c) \/ NoPrice(c) \/ CycleEnd(c) \/ \E t \in Trades : Visit(c, t)
    BY <2>3, <1>1 DEF CycleStart, Venues, NoPrice, CycleEnd, Visit, Leave, Gone, CloseWorks, CloseThrows
  <2> QED
    BY <1>4, <2>1, <2>2, <2>3 DEF CycleStep
<1>5. CASE \/ Clock \/ Crash \/ UNCHANGED vars
           \/ (\E p \in Polls : PollStart(p) \/ PollEnd(p)) \/ (\E t \in Trades : VenueExit(t))
  BY <1>5, <1>1 DEF Clock, Crash, vars, PollStart, PollEnd, VenueExit
<1> QED
  BY <1>2, <1>3, <1>4, <1>5 DEF Next

LEMMA AlwaysIInv == ASSUME Honest PROVE Spec => []IInv
<1>1. IInv /\ [Next]_vars => TypeOK'
  BY TypeNext DEF IInv
<1>2. IInv /\ [Next]_vars => IInv'
  BY <1>1, Honest, RecordedNext, EndingNext, MissingNext, LetGoNext DEF IInv
<1> QED
  BY <1>2, InitInv, PTL DEF Spec

(* Whatever fails, and however polls, cycles, exits at the venue and       *)
(* crashes interleave, no table lets go of an open trade; the one          *)
(* exception is an OANDA close that was cancelled and taken for done.      *)
THEOREM TradesAreNotLetGo == ASSUME Honest PROVE Spec => []NeverLetGo
<1>1. IInv => NeverLetGo
  BY DEF IInv
<1> QED
  BY Honest, AlwaysIInv, <1>1, PTL

-----------------------------------------------------------------------------
(* A trade is in the hands of one leg, which writes its row and then its   *)
(* trail state for the first time; a cycle only handles trades that have   *)
(* a trail state.  So no late insert meets a trade that is being closed.   *)
PlacedIsNew ==
  \A p \in Polls, b \in Books : \A t \in placed[p][b] :
    /\ leg[p][b] \in {"row", "trail"} /\ trail[t] = "none"
    /\ leg[p][b] = "row" => row[t] = "none"

PlacedOnce ==
  \A p, q \in Polls, b, d \in Books :
    \A t \in placed[p][b] : t \in placed[q][d] => p = q /\ b = d

HandledIsKnown == \A c \in Cycles : \A t \in states[c] \cup ending[c] : trail[t] # "none"

HandsInv == PlacedIsNew /\ PlacedOnce /\ HandledIsKnown

LEMMA HandsInit == Init => HandsInv
BY DEF Init, HandsInv, PlacedIsNew, PlacedOnce, HandledIsKnown

LEMMA LegHands ==
  ASSUME IInv, HandsInv, NEW p \in Polls, NEW b \in Books, LegStep(p, b)
  PROVE  PlacedIsNew' /\ PlacedOnce'
<1> USE DEF IInv, TypeOK, HandsInv, records
<1>1. CASE LegCheck(p, b)
  <2>1. /\ \A q \in Polls, d \in Books : leg'[q][d] = leg[q][d] \/ (q = p /\ d = b)
        /\ UNCHANGED <<row, trail, placed>> /\ leg[p][b] = "check"
    BY <1>1 DEF LegCheck, LegTo
  <2> QED
    BY <2>1 DEF PlacedIsNew, PlacedOnce
<1>2. CASE LegOrder(p, b)
  <2>1. /\ leg[p][b] \in {"order", "blind"} /\ UNCHANGED <<row, trail>>
        /\ \A q \in Polls, d \in Books : leg'[q][d] = leg[q][d] \/ (q = p /\ d = b)
    BY <1>2 DEF LegOrder, LegTo
  <2>2. CASE placed' = placed
    BY <2>1, <2>2 DEF PlacedIsNew, PlacedOnce
  <2>3. CASE /\ Unused(b) # {} /\ leg'[p][b] = "row"
             /\ placed' = [placed EXCEPT ![p][b] = {NextTry(b)}]
    <3>1. /\ trail[NextTry(b)] = "none" /\ row[NextTry(b)] = "none"
          /\ \A q \in Polls, d \in Books : NextTry(b) \notin placed[q][d]
      BY <2>3, NextTryIsUnused DEF RecordedAfterFill
    <3>2. \A q \in Polls, d \in Books :
            placed'[q][d] = IF q = p /\ d = b THEN {NextTry(b)} ELSE placed[q][d]
      BY <2>3
    <3>3. PlacedIsNew'
      BY <2>1, <2>3, <3>1, <3>2 DEF PlacedIsNew
    <3>4. ASSUME NEW q \in Polls, NEW d \in Books, NEW r \in Polls, NEW e \in Books,
                 NEW t, t \in placed'[q][d], t \in placed'[r][e]
          PROVE  q = r /\ d = e
      <4>1. (q = p /\ d = b /\ t = NextTry(b)) \/ t \in placed[q][d]
        BY <3>2, <3>4
      <4>2. (r = p /\ e = b /\ t = NextTry(b)) \/ t \in placed[r][e]
        BY <3>2, <3>4
      <4> QED
        BY <3>1, <4>1, <4>2 DEF PlacedOnce
    <3>5. PlacedOnce'
      BY <3>4 DEF PlacedOnce
    <3> QED
      BY <3>3, <3>5
  <2> QED
    BY <1>2, <2>2, <2>3 DEF LegOrder, LegTo
<1>3. CASE LegRow(p, b)
  <2>1. /\ leg'[p][b] = "trail" /\ UNCHANGED <<trail, placed>>
        /\ \A q \in Polls, d \in Books : leg'[q][d] = leg[q][d] \/ (q = p /\ d = b)
        /\ \A t \in Trades : row'[t] = row[t] \/ t \in placed[p][b]
    BY <1>3 DEF LegRow, LegTo
  <2> QED
    BY <2>1 DEF PlacedIsNew, PlacedOnce
<1>4. CASE LegTrail(p, b)
  <2>1. /\ UNCHANGED row
        /\ \A q \in Polls, d \in Books : leg'[q][d] = leg[q][d] \/ (q = p /\ d = b)
        /\ \A t \in Trades : trail'[t] = trail[t] \/ t \in placed[p][b]
        /\ \A q \in Polls, d \in Books :
             placed'[q][d] = IF q = p /\ d = b THEN {} ELSE placed[q][d]
    BY <1>4 DEF LegTrail, LegTo
  <2>2. ASSUME NEW q \in Polls, NEW d \in Books, NEW t \in placed'[q][d]
        PROVE  t \in placed[q][d] /\ ~(q = p /\ d = b)
    BY <2>1, <2>2
  <2>3. PlacedOnce'
    BY <2>2 DEF PlacedOnce
  <2>4. \A q \in Polls, d \in Books : \A t \in placed'[q][d] : t \in Trades /\ t \notin placed[p][b]
    BY <2>2 DEF PlacedOnce
  <2>5. PlacedIsNew'
    BY <2>1, <2>2, <2>4 DEF PlacedIsNew
  <2> QED
    BY <2>3, <2>5
<1> QED
  BY <1>1, <1>2, <1>3, <1>4 DEF LegStep

LEMMA HandsNext == ASSUME Honest, IInv, HandsInv, [Next]_vars PROVE HandsInv'
<1> USE DEF IInv, TypeOK, HandsInv, records, pollVars, cycle
<1> DEFINE Known == \A t \in Trades : trail[t] # "none" => trail'[t] # "none"
<1>1. CASE UNCHANGED <<row, trail, leg, placed, states, ending>>
  BY <1>1 DEF PlacedIsNew, PlacedOnce, HandledIsKnown
<1>2. CASE Crash
  BY <1>2 DEF Crash, PlacedIsNew, PlacedOnce, HandledIsKnown
<1>3. CASE Restart
  <2>1. /\ UNCHANGED <<trail, leg, placed, states, ending>>
        /\ \A t \in Trades : row[t] = "none" => row'[t] = "none"
    BY <1>3 DEF Restart
  <2>2. PlacedOnce' /\ HandledIsKnown'
    BY <2>1 DEF PlacedOnce, HandledIsKnown
  <2>3. \A q \in Polls, d \in Books : \A t \in placed[q][d] : t \in Trades
    OBVIOUS
  <2>4. PlacedIsNew'
    BY <2>1, <2>3 DEF PlacedIsNew
  <2> QED
    BY <2>2, <2>4
<1>4. ASSUME NEW p \in Polls, PollStart(p) \/ PollEnd(p) PROVE HandsInv'
  <2>1. /\ \A b \in Books : leg[p][b] \in {"idle", "done"}
        /\ \A q \in Polls : q # p => leg'[q] = leg[q]
        /\ UNCHANGED <<row, trail, placed, states, ending>>
    BY <1>4 DEF PollStart, PollEnd, Waiting
  <2>2. PlacedOnce' /\ HandledIsKnown'
    BY <2>1 DEF PlacedOnce, HandledIsKnown
  <2>3. \A q \in Polls, b \in Books : \A t \in placed[q][b] : leg'[q][b] = leg[q][b]
    BY <2>1 DEF PlacedIsNew
  <2>4. PlacedIsNew'
    BY <2>1, <2>3 DEF PlacedIsNew
  <2> QED
    BY <2>2, <2>4
<1>5. ASSUME NEW p \in Polls, NEW b \in Books, LegStep(p, b) PROVE HandsInv'
  <2>1. UNCHANGED <<states, ending>> /\ Known
    BY <1>5 DEF LegStep, LegCheck, LegOrder, LegRow, LegTrail
  <2>2. HandledIsKnown'
    BY <2>1 DEF HandledIsKnown
  <2> QED
    BY <1>5, <2>2, LegHands
<1>6. ASSUME NEW c \in Cycles, CycleStep(c) PROVE HandsInv'
  <2>1. UNCHANGED <<leg, placed>>
    BY <1>6 DEF CycleStep, CycleStart, Venues, NoPrice, Mark, Log, CycleEnd, Visit,
       Leave, Gone, CloseWorks, CloseThrows
  <2>2. \A t \in Trades : /\ row[t] = "none" => row'[t] = "none"
                          /\ trail[t] # "none" => trail'[t] # "none"
                          /\ trail'[t] # trail[t] => t \in ending[c]
    BY <1>6 DEF CycleStep, CycleStart, Venues, NoPrice, Mark, Log, CycleEnd, Visit,
       Leave, Gone, CloseWorks, CloseThrows
  <2>3. PlacedIsNew' /\ PlacedOnce'
    BY <2>1, <2>2 DEF PlacedIsNew, PlacedOnce, HandledIsKnown
  <2>4. \A d \in Cycles : d # c => states'[d] = states[d] /\ ending'[d] = ending[d]
    BY <1>6 DEF CycleStep, CycleStart, Venues, NoPrice, Mark, Log, CycleEnd, Visit,
       Leave, Gone, CloseWorks, CloseThrows, Visited
  <2>5. states'[c] \subseteq states[c] \cup {t \in Trades : trail[t] = "open"}
    BY <1>6 DEF CycleStep, CycleStart, Venues, NoPrice, Mark, Log, CycleEnd, Visit,
       Leave, Gone, CloseWorks, CloseThrows, Visited
  <2>6. ending'[c] \subseteq ending[c] \cup states[c]
    BY <1>6 DEF CycleStep, CycleStart, Venues, NoPrice, Mark, Log, CycleEnd, Visit, Visits,
       Leave, Gone, CloseWorks, CloseThrows
  <2>7. HandledIsKnown'
    BY <2>2, <2>4, <2>5, <2>6 DEF HandledIsKnown
  <2> QED
    BY <2>3, <2>7
<1>7. CASE Clock \/ UNCHANGED vars \/ (\E t \in Trades : VenueExit(t))
  BY <1>1, <1>7 DEF Clock, vars, VenueExit
<1> QED
  BY <1>2, <1>3, <1>4, <1>5, <1>6, <1>7 DEF Next

LEMMA StepIsATablesStep ==
  ASSUME Honest, IInv, HandsInv, [Next]_vars
  PROVE  [Tables!TablesNext]_<<live, row, trail>>
<1> DEFINE Step == [Tables!TablesNext]_<<live, row, trail>>
<1> USE DEF IInv, TypeOK, records, Tables!TablesNext
<1>1. CASE UNCHANGED records
  BY <1>1
<1>2. ASSUME NEW t \in Trades, live[t] = "open", live' = [live EXCEPT ![t] = "closed"],
             UNCHANGED <<row, trail>>
      PROVE  Step
  BY <1>2 DEF Tables!End, Tables!Moves
<1>3. CASE Restart
  <2> DEFINE S == {t \in Trades : t.book \notin Mt5 /\ row[t] = "open" /\ live[t] = "closed"}
  <2>1. row' = [t \in Trades |-> IF t \in S THEN "closed" ELSE row[t]] /\ UNCHANGED <<live, trail>>
    BY <1>3 DEF Restart
  <2>2. \A t \in S : row[t] = "open" /\ live[t] = "closed"
    OBVIOUS
  <2>3. Tables!WriteRow(S, "closed")
    BY <2>1, <2>2 DEF Tables!WriteRow, Tables!Says, Tables!Behind
  <2>4. S \in SUBSET Trades
    OBVIOUS
  <2> QED
    BY <2>3, <2>4
<1>4. ASSUME NEW p \in Polls, NEW b \in Books, LegStep(p, b) PROVE Step
  <2>1. CASE LegCheck(p, b)
    BY <1>1, <2>1 DEF LegCheck
  <2>2. CASE LegOrder(p, b)
    <3>1. /\ UNCHANGED <<row, trail>>
          /\ live' = live \/ (Unused(b) # {} /\ live' = [live EXCEPT ![NextTry(b)] = "open"])
      BY <2>2 DEF LegOrder
    <3>2. ASSUME Unused(b) # {}, live' = [live EXCEPT ![NextTry(b)] = "open"]
          PROVE  NextTry(b) \in Trades /\ Tables!Fill(NextTry(b))
      BY <3>1, <3>2, NextTryIsUnused DEF Tables!Fill, Tables!Moves
    <3> QED
      BY <1>1, <3>1, <3>2
  <2>3. CASE LegRow(p, b)
    <3>1. \A t \in placed[p][b] : row[t] = "none" /\ live[t] # "none"
      BY <2>3 DEF LegRow, HandsInv, PlacedIsNew, RecordedAfterFill
    <3>2. placed[p][b] \in SUBSET Trades /\ UNCHANGED <<live, trail>>
      BY <2>3 DEF LegRow
    <3>3. \/ row' = row
          \/ row' = [t \in Trades |-> IF t \in placed[p][b] THEN "open" ELSE row[t]]
      BY <2>3 DEF LegRow
    <3>4. row' = row \/ Tables!WriteRow(placed[p][b], "open")
      BY <3>1, <3>2, <3>3 DEF Tables!WriteRow, Tables!Says, Tables!Behind
    <3> QED
      BY <1>1, <3>2, <3>4
  <2>4. CASE LegTrail(p, b)
    <3>1. \A t \in placed[p][b] : trail[t] = "none" /\ live[t] # "none"
      BY DEF HandsInv, PlacedIsNew, RecordedAfterFill
    <3>2. placed[p][b] \in SUBSET Trades /\ UNCHANGED <<live, row>>
      BY <2>4 DEF LegTrail
    <3>3. \/ trail' = trail
          \/ trail' = [t \in Trades |-> IF t \in placed[p][b] THEN "open" ELSE trail[t]]
      BY <2>4 DEF LegTrail
    <3>4. trail' = trail \/ Tables!WriteMirror(placed[p][b], "open")
      BY <3>1, <3>2, <3>3 DEF Tables!WriteMirror, Tables!Says, Tables!Behind
    <3> QED
      BY <1>1, <3>2, <3>4
  <2> QED
    BY <1>4, <2>1, <2>2, <2>3, <2>4 DEF LegStep
<1>5. ASSUME NEW c \in Cycles, CycleStep(c) PROVE Step
  <2>0. ending[c] \in SUBSET Trades /\ \A t \in ending[c] : live[t] = "closed"
    BY DEF EndingHasEnded
  <2>1. CASE Mark(c)
    <3> DEFINE S == {t \in ending[c] : trail[t] # "closed"}
    <3>1. UNCHANGED <<live, row>>
      BY <2>1 DEF Mark
    <3>2. \/ trail' = trail
          \/ trail' = [t \in Trades |-> IF t \in S THEN "closed" ELSE trail[t]]
      BY <2>1 DEF Mark
    <3>3. \A t \in S : trail[t] \in {"none", "open"} /\ live[t] = "closed"
      BY <2>0
    <3>4. S \in SUBSET Trades
      BY <2>0
    <3> HIDE DEF S
    <3>5. trail' = trail \/ Tables!WriteMirror(S, "closed")
      BY <3>1, <3>2, <3>3 DEF Tables!WriteMirror, Tables!Says, Tables!Behind
    <3> QED
      BY <1>1, <3>1, <3>4, <3>5
  <2>2. CASE Log(c)
    <3> DEFINE S == {t \in ending[c] : row[t] = "open"}
    <3>1. UNCHANGED <<live, trail>>
      BY <2>2 DEF Log
    <3>2. \/ row' = row
          \/ row' = [t \in Trades |-> IF t \in S THEN "closed" ELSE row[t]]
      BY <2>2 DEF Log
    <3>3. \A t \in S : row[t] = "open" /\ live[t] = "closed"
      BY <2>0
    <3>4. S \in SUBSET Trades
      BY <2>0
    <3> HIDE DEF S
    <3>5. row' = row \/ Tables!WriteRow(S, "closed")
      BY <3>1, <3>2, <3>3 DEF Tables!WriteRow, Tables!Says, Tables!Behind
    <3> QED
      BY <1>1, <3>1, <3>4, <3>5
  <2>3. CASE CycleStart(c) \/ Venues(c) \/ NoPrice(c) \/ CycleEnd(c)
    BY <1>1, <2>3 DEF CycleStart, Venues, NoPrice, CycleEnd
  <2>4. ASSUME NEW t \in Trades, Visit(c, t) PROVE Step
    <3>1. live[t] # "none"
      BY <2>4 DEF Visit, Leave, Gone, CloseWorks, CloseThrows, Visits, MissingHasEnded
    <3>2. UNCHANGED <<row, trail>> /\ live' \in {live, [live EXCEPT ![t] = "closed"]}
      BY <2>4 DEF Visit, Leave, Gone, CloseWorks, CloseThrows
    <3>3. CASE live[t] = "open"
      BY <1>1, <1>2, <3>2, <3>3
    <3>4. CASE live[t] = "closed"
      BY <1>1, <3>2, <3>4
    <3> QED
      BY <3>1, <3>3, <3>4
  <2> QED
    BY <1>5, <2>1, <2>2, <2>3, <2>4 DEF CycleStep
<1>6. ASSUME NEW t \in Trades, VenueExit(t) PROVE Step
  BY <1>2, <1>6 DEF VenueExit
<1>7. CASE \/ Clock \/ Crash \/ UNCHANGED vars
           \/ (\E p \in Polls : PollStart(p) \/ PollEnd(p))
  BY <1>1, <1>7 DEF Clock, Crash, vars, PollStart, PollEnd
<1> QED
  BY <1>3, <1>4, <1>5, <1>6, <1>7 DEF Next

(* The engine implements TradeTables: whatever fails but a cancelled       *)
(* close, and however polls, cycles and startups overlap, the log and the  *)
(* trail states follow each trade, never get ahead of its venue and take   *)
(* nothing back.                                                           *)
THEOREM TablesImplemented == ASSUME Honest PROVE Spec => ImplementsTables
<1>1. Init => Tables!TablesInit
  BY DEF Init, Tables!TablesInit
<1>2. IInv /\ HandsInv /\ [Next]_vars => HandsInv'
  BY Honest, HandsNext
<1>3. IInv /\ HandsInv /\ [Next]_vars => [Tables!TablesNext]_<<live, row, trail>>
  BY Honest, StepIsATablesStep
<1> QED
  BY Honest, <1>1, <1>2, <1>3, HandsInit, AlwaysIInv, PTL DEF Spec, ImplementsTables, Tables!Spec

(* TradeTables promises what it is stated for: under any engine that       *)
(* implements it no table lets go of an open trade, and no word of a table *)
(* is ever taken back.                                                     *)
Truthful ==
  /\ live \in [Trades -> {"none", "open", "closed"}]
  /\ \A t \in Trades : ~Tables!Behind(live[t], row[t]) /\ ~Tables!Behind(live[t], trail[t])

NothingTakenBack ==
  \A t \in Trades : ~Tables!Behind(row'[t], row[t]) /\ ~Tables!Behind(trail'[t], trail[t])

THEOREM TablesAreTruthful ==
  ImplementsTables => []NeverLetGo /\ [][NothingTakenBack]_<<live, row, trail>>
<1> USE DEF Tables!Behind
<1>1. Tables!TablesInit => Truthful
  BY DEF Tables!TablesInit, Truthful
<1>2. Truthful /\ [Tables!TablesNext]_<<live, row, trail>> => Truthful'
  <2> SUFFICES ASSUME Truthful, [Tables!TablesNext]_<<live, row, trail>> PROVE Truthful'
    OBVIOUS
  <2>1. ASSUME NEW t \in Trades, Tables!Fill(t) \/ Tables!End(t) PROVE Truthful'
    BY <2>1 DEF Tables!Fill, Tables!End, Tables!Moves, Truthful
  <2>2. ASSUME NEW S \in SUBSET Trades, NEW word \in {"open", "closed"},
               Tables!WriteRow(S, word) \/ Tables!WriteMirror(S, word)
        PROVE  Truthful'
    BY <2>2 DEF Tables!WriteRow, Tables!WriteMirror, Tables!Says, Truthful
  <2>3. CASE UNCHANGED <<live, row, trail>>
    BY <2>3 DEF Truthful
  <2> QED
    BY <2>1, <2>2, <2>3 DEF Tables!TablesNext
<1>3. [Tables!TablesNext]_<<live, row, trail>> => [NothingTakenBack]_<<live, row, trail>>
  <2>1. ASSUME NEW t \in Trades, Tables!Fill(t) \/ Tables!End(t) PROVE NothingTakenBack
    BY <2>1 DEF Tables!Fill, Tables!End, Tables!Moves, NothingTakenBack
  <2>2. ASSUME NEW S \in SUBSET Trades, NEW word \in {"open", "closed"},
               Tables!WriteRow(S, word) \/ Tables!WriteMirror(S, word)
        PROVE  NothingTakenBack
    BY <2>2 DEF Tables!WriteRow, Tables!WriteMirror, Tables!Says, NothingTakenBack
  <2> QED
    BY <2>1, <2>2 DEF Tables!TablesNext
<1>4. Truthful => NeverLetGo
  BY DEF Truthful, NeverLetGo
<1> QED
  BY <1>1, <1>2, <1>3, <1>4, PTL DEF ImplementsTables, Tables!Spec

-----------------------------------------------------------------------------
(* With one poll at a time, nothing between the check of a leg and its     *)
(* order writes a row of its book: an order of a leg that could count the  *)
(* rows of its book follows none.                                          *)
OnePoll == \A p, q \in Polls : p = q

CheckedIsFresh ==
  \A p \in Polls, b \in Books :
    /\ leg[p][b] = "order" => ~Executed(b)
    /\ \A t \in placed[p][b] : t.book = b
    /\ leg[p][b] \notin {"row", "trail"} => placed[p][b] = {}

LEMMA FreshInit == Init => CheckedIsFresh
BY DEF Init, CheckedIsFresh

LEMMA FreshNext ==
  ASSUME OnePoll, TypeOK, CheckedIsFresh, [Next]_vars PROVE CheckedIsFresh'
<1> USE DEF TypeOK, records, pollVars
<1>1. CASE UNCHANGED <<leg, placed>> /\ \A t \in Trades : row[t] = "none" => row'[t] = "none"
  BY <1>1 DEF CheckedIsFresh, Executed
<1>2. CASE Crash
  BY <1>2 DEF Crash, CheckedIsFresh
<1>3. CASE Restart
  BY <1>1, <1>3 DEF Restart
<1>4. ASSUME NEW p \in Polls, PollStart(p) \/ PollEnd(p) PROVE CheckedIsFresh'
  <2>1. /\ \A b \in Books : leg[p][b] \in {"idle", "done"} /\ leg'[p][b] \in {"idle", "check"}
        /\ UNCHANGED <<row, placed>>
    BY <1>4 DEF PollStart, PollEnd, Waiting
  <2>2. \A q \in Polls : q = p
    BY OnePoll DEF OnePoll
  <2> QED
    BY <2>1, <2>2 DEF CheckedIsFresh
<1>5. ASSUME NEW p \in Polls, NEW b \in Books, LegStep(p, b) PROVE CheckedIsFresh'
  <2>0. \A q \in Polls : q = p
    BY OnePoll DEF OnePoll
  <2>1. \A d \in Books : d # b => leg'[p][d] = leg[p][d] /\ placed'[p][d] = placed[p][d]
    BY <1>5 DEF LegStep, LegCheck, LegOrder, LegRow, LegTrail, LegTo
  <2>2. \A t \in Trades : t.book # b => row'[t] = row[t]
    BY <1>5 DEF LegStep, LegCheck, LegOrder, LegRow, LegTrail, CheckedIsFresh
  <2>3. \A d \in Books : d # b => Executed(d)' = Executed(d)
    BY <2>2 DEF Executed
  <2> DEFINE Fresh == /\ leg'[p][b] = "order" => ~Executed(b)'
                      /\ \A t \in placed'[p][b] : t.book = b
                      /\ leg'[p][b] \notin {"row", "trail"} => placed'[p][b] = {}
  <2>4. ASSUME LegCheck(p, b) PROVE Fresh
    <3>1. row' = row /\ placed' = placed
      BY <2>4 DEF LegCheck
    <3>2. leg[p][b] = "check" /\ leg'[p][b] \in {"order", "blind", "done"} /\ (leg'[p][b] = "order" => ~Executed(b))
      BY <2>4 DEF LegCheck, LegTo
    <3> QED
      BY <3>1, <3>2 DEF CheckedIsFresh, Executed
  <2>5. ASSUME LegOrder(p, b) PROVE Fresh
    <3>1. /\ leg[p][b] \in {"order", "blind"}
          /\ \/ leg'[p][b] = "done" /\ placed' = placed
             \/ leg'[p][b] = "row" /\ Unused(b) # {} /\ placed'[p][b] = {NextTry(b)}
      BY <2>5 DEF LegOrder, LegTo
    <3> QED
      BY <3>1, NextTryIsUnused DEF CheckedIsFresh
  <2>6. ASSUME LegRow(p, b) PROVE Fresh
    <3>1. leg'[p][b] = "trail" /\ placed' = placed
      BY <2>6 DEF LegRow, LegTo
    <3> QED
      BY <3>1 DEF CheckedIsFresh
  <2>7. ASSUME LegTrail(p, b) PROVE Fresh
    <3>1. leg'[p][b] = "done" /\ placed'[p][b] = {}
      BY <2>7 DEF LegTrail, LegTo
    <3> QED
      BY <3>1
  <2>8. Fresh
    BY <1>5, <2>4, <2>5, <2>6, <2>7 DEF LegStep
  <2>9. \A d \in Books : d # b =>
          /\ leg'[p][d] = "order" => ~Executed(d)'
          /\ \A t \in placed'[p][d] : t.book = d
          /\ leg'[p][d] \notin {"row", "trail"} => placed'[p][d] = {}
    BY <2>1, <2>3 DEF CheckedIsFresh
  <2> QED
    BY <2>0, <2>8, <2>9 DEF CheckedIsFresh
<1>6. ASSUME NEW c \in Cycles, CycleStep(c) PROVE CheckedIsFresh'
  <2>1. UNCHANGED <<leg, placed>> /\ \A t \in Trades : row[t] = "none" => row'[t] = "none"
    BY <1>6 DEF CycleStep, CycleStart, Venues, NoPrice, Mark, Log, CycleEnd, Visit,
       Leave, Gone, CloseWorks, CloseThrows
  <2> QED
    BY <1>1, <2>1
<1>7. CASE Clock \/ UNCHANGED vars \/ (\E t \in Trades : VenueExit(t))
  BY <1>1, <1>7 DEF Clock, vars, VenueExit
<1> QED
  BY <1>2, <1>3, <1>4, <1>5, <1>6, <1>7 DEF Next

(* While polls do not overlap, no order is sent to a book that has an      *)
(* EXECUTED row of the day by a leg that could count the rows of its book, *)
(* with any number of books, trades and cycles and whatever else fails.    *)
THEOREM OrdersFollowNoRow == ASSUME OnePoll PROVE Spec => NoSecondOrder
<1> DEFINE Step == \A t \in Trades : live[t] = "none" /\ live'[t] = "open" =>
                     ~Executed(t.book) \/ \E p \in Polls : leg[p][t.book] = "blind"
<1>1. ASSUME TypeOK, CheckedIsFresh, [Next]_vars PROVE [Step]_vars
  <2> USE <1>1 DEF TypeOK, records
  <2>1. ASSUME NEW p \in Polls, NEW b \in Books, LegStep(p, b) PROVE Step
    <3>1. CASE LegOrder(p, b)
      <4>1. ~Executed(b) \/ leg[p][b] = "blind"
        BY <3>1 DEF LegOrder, CheckedIsFresh
      <4>2. live' = live \/ (Unused(b) # {} /\ live' = [live EXCEPT ![NextTry(b)] = "open"])
        BY <3>1 DEF LegOrder
      <4>3. CASE Unused(b) # {} /\ live' = [live EXCEPT ![NextTry(b)] = "open"]
        <5>1. NextTry(b) \in Trades /\ NextTry(b).book = b
          BY <4>3, NextTryIsUnused
        <5>2. \A t \in Trades : live[t] = "none" /\ live'[t] = "open" => t = NextTry(b)
          BY <4>3, <5>1
        <5> QED
          BY <4>1, <5>1, <5>2
      <4> QED
        BY <4>2, <4>3
    <3>2. CASE live' = live
      BY <3>2
    <3> QED
      BY <2>1, <3>1, <3>2 DEF LegStep, LegCheck, LegRow, LegTrail
  <2>2. ASSUME NEW c \in Cycles, CycleStep(c) PROVE Step
    BY <2>2 DEF CycleStep, CycleStart, Venues, NoPrice, Mark, Log, CycleEnd, Visit,
       Leave, Gone, CloseWorks, CloseThrows
  <2>3. CASE Clock \/ Crash \/ Restart \/ (\E p \in Polls : PollStart(p) \/ PollEnd(p))
    BY <2>3 DEF Clock, Crash, Restart, PollStart, PollEnd
  <2>4. ASSUME NEW t \in Trades, VenueExit(t) PROVE Step
    BY <2>4 DEF VenueExit
  <2>5. CASE UNCHANGED vars
    BY <2>5
  <2> QED
    BY <1>1, <2>1, <2>2, <2>3, <2>4, <2>5 DEF Next
<1>2. TypeOK /\ CheckedIsFresh /\ [Next]_vars => (TypeOK /\ CheckedIsFresh)'
  BY TypeNext, FreshNext, OnePoll
<1>3. TypeOK /\ CheckedIsFresh /\ [Next]_vars => [Step]_vars
  BY <1>1
<1> QED
  BY <1>2, <1>3, TypeInit, FreshInit, PTL DEF Spec, NoSecondOrder
=============================================================================
