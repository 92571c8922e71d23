-------------------------- MODULE AlphaOmegaProofs --------------------------
(***************************************************************************)
(* Proofs about AlphaOmega for any number of fires and books and any       *)
(* limits.  Whatever fails: the type invariant, that a position outlives   *)
(* its open row, and that the reason of a close stays.  With one fire      *)
(* handled at a time, each under the faults its property leaves out: one   *)
(* trade for each book, that cracks are earned, and that the pressure on a *)
(* position is exact.  While no close is cancelled: that the lane          *)
(* implements PositionLedger.                                              *)
(***************************************************************************)
EXTENDS AlphaOmega, FiniteSetTheorems, TLAPS

(* A trade is entered by the handler of its fire, and until its order is   *)
(* filled nothing but the entry has touched it.                            *)
EntryInOrder ==
  \A t \in Trades :
    /\ step[t] # "idle" => pc[t.fire] \in {"enter", "done"}
    /\ step[t] \in {"gate", "order", "fill", "register"} => pc[t.fire] = "enter"
    /\ step[t] \in {"idle", "gate"} => log[t] = "none"
    /\ step[t] \in {"idle", "gate", "order"} => venue[t] = "none"
    /\ step[t] \in {"order", "fill"} => log[t] = "pending"

Early(t) == step[t] \in {"idle", "gate", "order", "fill"}

EarlyIsUnseen ==
  \A t \in Trades : Early(t) =>
    /\ position[t] = NoPosition
    /\ \A k \in Closers : t \notin tagging[k] /\ t \notin clearing[k]
    /\ \A f \in Fires : \A h \in todo[f] : h.trade # t

(* A closer drops a position only once the log has its close.              *)
ClearedIsClosed ==
  \A k \in Closers, t \in Trades : t \in clearing[k] => log[t] \in {"closed", "tagged"}

IInv == TypeOK /\ EntryInOrder /\ EarlyIsUnseen /\ ClearedIsClosed
-----------------------------------------------------------------------------
LEMMA PositionTyped == NoPosition \notin Counts
BY DEF NoPosition, Counts

LEMMA TradeTyped == \A t \in Trades : t.fire \in Fires /\ t.book \in Books
BY DEF Trades

LEMMA StreakTyped == NoStreak \in Streaks /\ NoCrack \in Cracks
BY DEF NoStreak, NoCrack, Streaks, Cracks

(* The streak and the crack a fire makes are well typed. *)
LEMMA AfterFireTyped ==
  ASSUME NEW s \in Streaks, NEW dir \in Directions \cup {"none"}, NEW at \in Nat
  PROVE  AfterFire(s, dir, at) \in Streaks /\ Crack(s, dir) \in Cracks
<1>1. Crack(s, dir) \in Cracks
  BY StreakTyped DEF Crack, Streaks, Cracks
<1>2. AfterFire(s, dir, at) \in Streaks
  BY DEF AfterFire, Streaks
<1> QED
  BY <1>1, <1>2

(* A pass over the positions drops orphans only, whatever it fails to do,  *)
(* and hands a fire what is stored.                                        *)
LEMMA DropsMove ==
  ASSUME TypeOK, DropOrphans \/ \E f \in Fires : LoadPositions(f)
  PROVE  /\ position' \in [Trades -> Counts \cup {NoPosition}]
         /\ \A t \in Trades : position'[t] = position[t] \/ (t \in Orphans /\ position'[t] = NoPosition)
<1>1. ASSUME NEW left
      PROVE  /\ Dropped(left) \in [Trades -> Counts \cup {NoPosition}]
             /\ \A t \in Trades : Dropped(left)[t] = position[t] \/ (t \in Orphans /\ Dropped(left)[t] = NoPosition)
  <2>1. position \in [Trades -> Counts \cup {NoPosition}]
    BY DEF TypeOK
  <2>2. \A t \in Trades : Dropped(left)[t] = IF t \in Orphans \ left THEN NoPosition ELSE position[t]
    BY DEF Dropped
  <2>3. Dropped(left) \in [Trades -> Counts \cup {NoPosition}]
    BY <2>1 DEF Dropped
  <2>4. ASSUME NEW t \in Trades
        PROVE  Dropped(left)[t] = position[t] \/ (t \in Orphans /\ Dropped(left)[t] = NoPosition)
    BY <2>2
  <2> QED
    BY <2>3, <2>4
<1>2. position' = position \/ \E left : position' = Dropped(left)
  BY DEF DropOrphans, LoadPositions
<1> QED
  BY <1>1, <1>2 DEF TypeOK

LEMMA LoadsHold ==
  ASSUME TypeOK, NEW f \in Fires, LoadPositions(f)
  PROVE  \E S \in SUBSET Stored : Loaded(S) \subseteq Held /\ todo' = [todo EXCEPT ![f] = Loaded(S)]
<1>1. \A t \in Stored : [trade |-> t, opposing |-> position[t].opposing, total |-> position[t].total] \in Held
  BY DEF TypeOK, Stored, Held, Counts
<1>2. \A S \in SUBSET Stored : Loaded(S) \subseteq Held
  BY <1>1 DEF Loaded
<1>3. ASSUME todo' = [todo EXCEPT ![f] = {}]
      PROVE  \E S \in SUBSET Stored : todo' = [todo EXCEPT ![f] = Loaded(S)]
  <2>1. Loaded({}) = {}
    BY DEF Loaded
  <2> QED
    BY <1>3, <2>1
<1>4. ASSUME NEW kept \in KeptBy, todo' = [todo EXCEPT ![f] = Loaded((Stored \ Orphans) \cup kept)]
      PROVE  \E S \in SUBSET Stored : todo' = [todo EXCEPT ![f] = Loaded(S)]
  <2>1. (Stored \ Orphans) \cup kept \in SUBSET Stored
    BY DEF KeptBy, Orphans
  <2> QED
    BY <1>4, <2>1
<1> QED
  BY <1>2, <1>3, <1>4 DEF LoadPositions

LEMMA InitInductive == Init => IInv
<1> SUFFICES ASSUME Init PROVE IInv
  OBVIOUS
<1>1. TypeOK
  <2>1. position \in [Trades -> Counts \cup {NoPosition}]
    BY DEF Init
  <2>2. other \in [Fires -> BOOLEAN] /\ enabled \in BOOLEAN
    BY DEF Init
  <2>3. read \in [Fires -> Streaks] /\ crack \in [Fires -> Cracks] /\ streak \in Streaks
    BY StreakTyped DEF Init
  <2> QED
    BY <2>1, <2>2, <2>3 DEF Init, TypeOK
<1> QED
  BY <1>1, TradeTyped DEF Init, IInv, EntryInOrder, EarlyIsUnseen, Early, ClearedIsClosed
-----------------------------------------------------------------------------
LEMMA TypeNext == TypeOK /\ [Next]_vars => TypeOK'
<1> SUFFICES ASSUME TypeOK, [Next]_vars PROVE TypeOK'
  OBVIOUS
<1> USE TradeTyped DEF TypeOK, tables, setup, handler, closers
<1>1. ASSUME NEW f \in Fires, Fire(f) PROVE TypeOK'
  <2>1. \A dir \in Directions, gap \in Gaps :
          [dir |-> dir, at |-> gap + IF f = 1 THEN 0 ELSE fire[f-1].at] \in [dir : Directions \cup {"none"}, at : Nat]
    BY AlphaOmegaAssumption DEF Fires
  <2>2. fire' \in [Fires -> [dir : Directions \cup {"none"}, at : Nat]]
    BY <1>1, <2>1 DEF Fire
  <2> QED
    BY <1>1, <2>2 DEF Fire
<1>2. ASSUME NEW f \in Fires, Idle(f) \/ ReadStreak(f) PROVE TypeOK'
  <2>1. CASE Idle(f)
    BY <2>1, StreakTyped DEF Idle
  <2>2. CASE ReadStreak(f)
    <3>1. read' \in [Fires -> Streaks]
      BY <2>2, StreakTyped DEF ReadStreak
    <3> QED
      BY <2>2, <3>1 DEF ReadStreak
  <2> QED
    BY <1>2, <2>1, <2>2
<1>3. ASSUME NEW f \in Fires, SaveStreak(f) PROVE TypeOK'
  <2>1. AfterFire(read[f], fire[f].dir, fire[f].at) \in Streaks /\ Crack(read[f], fire[f].dir) \in Cracks
    BY AfterFireTyped
  <2> QED
    BY <1>3, <2>1, StreakTyped DEF SaveStreak
<1>5. ASSUME NEW f \in Fires, LoadPositions(f) PROVE TypeOK'
  <2>1. position' \in [Trades -> Counts \cup {NoPosition}]
    BY <1>5, DropsMove
  <2>2. todo' \in [Fires -> SUBSET Held]
    BY <1>5, LoadsHold
  <2> QED
    BY <1>5, <2>1, <2>2 DEF LoadPositions
<1>6. ASSUME NEW k \in Closers, NEW t \in Trades, CloseAt(k, t)
      PROVE  venue' \in [Trades -> {"none", "open", "closed"}] /\ tagging' \in [Closers -> SUBSET Trades]
  <2>1. [venue EXCEPT ![t] = "closed"] \in [Trades -> {"none", "open", "closed"}]
    OBVIOUS
  <2>2. [tagging EXCEPT ![k] = {t}] \in [Closers -> SUBSET Trades]
    OBVIOUS
  <2> QED
    BY <1>6, <2>1, <2>2 DEF CloseAt
<1>7. ASSUME NEW f \in Fires, NEW h \in todo[f], Press(f, h) PROVE TypeOK'
  <2>1. f \in Closers /\ h.trade \in Trades
    BY DEF Closers, Held
  <2>2. venue' \in [Trades -> {"none", "open", "closed"}] /\ tagging' \in [Closers -> SUBSET Trades]
    BY <1>6, <1>7, <2>1 DEF Press
  <2>3. other' \in [Fires -> BOOLEAN]
    BY <1>7 DEF Press
  <2> QED
    BY <1>7, <2>2, <2>3 DEF Press
<1>8. ASSUME NEW f \in Fires, NEW h \in todo[f], CloseOnCrack(f, h) PROVE TypeOK'
  <2>1. f \in Closers /\ h.trade \in Trades
    BY DEF Closers, Held
  <2>2. venue' \in [Trades -> {"none", "open", "closed"}] /\ tagging' \in [Closers -> SUBSET Trades]
    BY <1>6, <1>8, <2>1 DEF CloseOnCrack
  <2> QED
    BY <1>8, <2>2 DEF CloseOnCrack
<1>9. ASSUME NEW f \in Fires, NEW h \in todo[f], CountFire(f, h) PROVE TypeOK'
  <2>1. Counted(f, h) \in Counts
    BY DEF Counted, Opposing, Counts, Held
  <2> QED
    BY <1>9, <2>1 DEF CountFire
<1>10. ASSUME NEW k \in Closers, NEW t \in Trades, Tag(k, t) \/ Clear(k, t) PROVE TypeOK'
  <2>1. /\ [tagging EXCEPT ![k] = {}] \in [Closers -> SUBSET Trades]
        /\ [clearing EXCEPT ![k] = {}] \in [Closers -> SUBSET Trades]
        /\ [clearing EXCEPT ![k] = {t}] \in [Closers -> SUBSET Trades]
    OBVIOUS
  <2>2. CASE Tag(k, t)
    <3>1. log' \in [Trades -> {"none", "pending", "blocked", "open", "closed", "tagged"}]
      BY <2>2 DEF Tag
    <3>2. tagging' \in [Closers -> SUBSET Trades] /\ clearing' \in [Closers -> SUBSET Trades]
      BY <2>1, <2>2 DEF Tag
    <3> QED
      BY <2>2, <3>1, <3>2 DEF Tag
  <2>3. CASE Clear(k, t)
    <3>1. position' \in [Trades -> Counts \cup {NoPosition}]
      BY <2>3 DEF Clear
    <3>2. clearing' \in [Closers -> SUBSET Trades]
      BY <2>1, <2>3 DEF Clear
    <3> QED
      BY <2>3, <3>1, <3>2 DEF Clear
  <2> QED
    BY <1>10, <2>2, <2>3
<1>11. ASSUME NEW f \in Fires, NoEntry(f) \/ Enter(f) \/ Entered(f) PROVE TypeOK'
  <2>1. CASE Return(f)
    <3>1. other' \in [Fires -> BOOLEAN]
      BY <2>1 DEF Return
    <3>2. crack' \in [Fires -> Cracks]
      BY <2>1, StreakTyped DEF Return
    <3> QED
      BY <2>1, <3>1, <3>2 DEF Return
  <2>2. CASE Enter(f)
    <3>1. step' \in [Trades -> {"idle", "gate", "order", "fill", "register", "done"}]
      BY <2>2 DEF Enter
    <3> QED
      BY <2>2, <3>1 DEF Enter
  <2> QED
    BY <1>11, <2>1, <2>2 DEF NoEntry, Entered
<1>12. ASSUME NEW t \in Trades, Place(t) PROVE TypeOK'
  <2>1. CASE Register(t)
    <3>1. [opposing |-> 0, total |-> 0] \in Counts
      BY DEF Counts
    <3> QED
      BY <2>1, <3>1 DEF Register, Move
  <2>2. CASE Gate(t) \/ Refuse(t) \/ Fill(t)
    <3>1. log' \in [Trades -> {"none", "pending", "blocked", "open", "closed", "tagged"}]
      BY <2>2 DEF Gate, Refuse, Fill
    <3>2. step' \in [Trades -> {"idle", "gate", "order", "fill", "register", "done"}]
      BY <2>2 DEF Gate, Refuse, Fill, Move
    <3> QED
      BY <2>2, <3>1, <3>2 DEF Gate, Refuse, Fill
  <2>3. CASE Order(t)
    <3>1. log' \in [Trades -> {"none", "pending", "blocked", "open", "closed", "tagged"}]
      BY <2>3 DEF Order
    <3>2. venue' \in [Trades -> {"none", "open", "closed"}]
      BY <2>3 DEF Order
    <3>3. step' \in [Trades -> {"idle", "gate", "order", "fill", "register", "done"}]
      BY <2>3 DEF Order, Move
    <3> QED
      BY <2>3, <3>1, <3>2, <3>3 DEF Order
  <2> QED
    BY <1>12, <2>1, <2>2, <2>3 DEF Place
<1>13. ASSUME NEW t \in Trades, HardStop(t) \/ VenueExit(t) \/ Finalize(t) PROVE TypeOK'
  <2>1. HardStopMonitor \in Closers /\ TradeMonitor \in Closers
    BY DEF Closers, Monitors
  <2>2. CASE HardStop(t)
    BY <1>6, <2>1, <2>2 DEF HardStop
  <2>3. CASE VenueExit(t)
    BY <2>3 DEF VenueExit
  <2>4. CASE Finalize(t)
    BY <2>1, <2>4 DEF Finalize
  <2> QED
    BY <1>13, <2>2, <2>3, <2>4
<1>14. CASE DropOrphans
  BY <1>14, DropsMove DEF DropOrphans
<1>15. CASE Switch
  BY <1>15 DEF Switch
<1>16. CASE Crash
  BY <1>16, StreakTyped DEF Crash
<1>17. CASE UNCHANGED vars
  BY <1>17 DEF vars
<1> QED
  BY <1>1, <1>2, <1>3, <1>5, <1>7, <1>8, <1>9, <1>10, <1>11, <1>12, <1>13, <1>14, <1>15, <1>16, <1>17
     DEF Next, Track

(* Every reachable state of AlphaOmega is well typed. *)
THEOREM TypeCorrect == Spec => []TypeOK
<1>1. Init => TypeOK
  BY InitInductive DEF IInv
<1> QED
  BY <1>1, TypeNext, PTL DEF Spec

-----------------------------------------------------------------------------
(* A close changes its own trade only, and hands no other to the log.      *)
LEMMA CloseIsLocal ==
  ASSUME TypeOK, NEW k \in Closers, NEW t \in Trades, CloseAt(k, t)
  PROVE  /\ \A u \in Trades : u # t => venue'[u] = venue[u]
         /\ \A j \in Closers, u \in Trades : u \in tagging'[j] => u \in tagging[j] \/ u = t
<1> USE DEF TypeOK
<1>1. CASE /\ venue' \in {venue, [venue EXCEPT ![t] = "closed"]}
           /\ tagging' = [tagging EXCEPT ![k] = {t}]
  <2>1. \A j \in Closers, u \in Trades : u \in tagging'[j] => u \in tagging[j] \/ u = t
    BY <1>1
  <2>2. \A u \in Trades : u # t => venue'[u] = venue[u]
    BY <1>1
  <2> QED
    BY <2>1, <2>2
<1>2. CASE venue' \in {venue, [venue EXCEPT ![t] = "closed"]} /\ UNCHANGED tagging
  <2>1. CASE venue' = venue
    BY <1>2, <2>1
  <2>2. CASE venue' = [venue EXCEPT ![t] = "closed"]
    BY <1>2, <2>2
  <2> QED
    BY <1>2, <2>1, <2>2
<1> QED
  BY <1>1, <1>2 DEF CloseAt

(* A handler and the monitor close only what the entry is done with.       *)
LEMMA HeldIsLate ==
  ASSUME TypeOK, EarlyIsUnseen
  PROVE  /\ \A f \in Fires : \A h \in todo[f] : h.trade \in Trades /\ ~Early(h.trade)
         /\ \A t \in Stored : ~Early(t)
BY DEF TypeOK, EarlyIsUnseen, Held, Stored
-----------------------------------------------------------------------------
LEMMA EntryNext == IInv /\ [Next]_vars => EntryInOrder'
<1> SUFFICES ASSUME IInv, [Next]_vars PROVE EntryInOrder'
  OBVIOUS
<1> USE TradeTyped DEF IInv, TypeOK, EntryInOrder, tables, setup, handler, closers
<1>1. ASSUME NEW f \in Fires, Fire(f) PROVE EntryInOrder'
  BY <1>1 DEF Fire
<1>2. ASSUME NEW f \in Fires, Idle(f) PROVE EntryInOrder'
  BY <1>2 DEF Idle
<1>3. ASSUME NEW f \in Fires, ReadStreak(f) PROVE EntryInOrder'
  BY <1>3 DEF ReadStreak
<1>4. ASSUME NEW f \in Fires, SaveStreak(f) PROVE EntryInOrder'
  BY <1>4 DEF SaveStreak
<1>5. ASSUME NEW f \in Fires, LoadPositions(f) PROVE EntryInOrder'
  BY <1>5 DEF LoadPositions
<1>6. ASSUME NEW f \in Fires, NEW h \in todo[f], Press(f, h) \/ CloseOnCrack(f, h) PROVE EntryInOrder'
  <2>1. f \in Closers /\ h.trade \in Trades /\ ~Early(h.trade)
    BY HeldIsLate DEF Closers
  <2>2. \A u \in Trades : u # h.trade => venue'[u] = venue[u]
    BY <1>6, <2>1, CloseIsLocal DEF Press, CloseOnCrack
  <2>3. UNCHANGED <<step, pc, log>>
    BY <1>6 DEF Press, CloseOnCrack
  <2> QED
    BY <2>1, <2>2, <2>3 DEF Early
<1>7. ASSUME NEW f \in Fires, NEW h \in todo[f], CountFire(f, h) PROVE EntryInOrder'
  BY <1>7 DEF CountFire
<1>8. ASSUME NEW k \in Closers, NEW t \in Trades, Tag(k, t) PROVE EntryInOrder'
  <2>1. ~Early(t)
    BY <1>8 DEF Tag, EarlyIsUnseen
  <2>2. \A u \in Trades : u # t => log'[u] = log[u]
    BY <1>8 DEF Tag
  <2>3. UNCHANGED <<step, pc, venue>>
    BY <1>8 DEF Tag
  <2> QED
    BY <2>1, <2>2, <2>3 DEF Early
<1>9. ASSUME NEW k \in Closers, NEW t \in Trades, Clear(k, t) PROVE EntryInOrder'
  BY <1>9 DEF Clear
<1>10. ASSUME NEW f \in Fires, Return(f), pc[f] \in {"track", "enter"},
              \A t \in Trades : t.fire = f => step[t] \in {"idle", "done"}
       PROVE  EntryInOrder'
  BY <1>10 DEF Return
<1>11. ASSUME NEW f \in Fires, NoEntry(f) \/ Entered(f) PROVE EntryInOrder'
  <2>1. Return(f) /\ pc[f] \in {"track", "enter"}
    BY <1>11 DEF NoEntry, Entered, Tracked
  <2>2. \A t \in Trades : t.fire = f => step[t] \in {"idle", "done"}
    BY <1>11 DEF NoEntry, Entered, Tracked, TradesOf
  <2> QED
    BY <1>10, <2>1, <2>2
<1>12. ASSUME NEW f \in Fires, Enter(f) PROVE EntryInOrder'
  BY <1>12 DEF Enter, Tracked
<1>13. ASSUME NEW t \in Trades, Gate(t) \/ Refuse(t) \/ Fill(t) PROVE EntryInOrder'
  BY <1>13 DEF Gate, Refuse, Fill, Move
<1>14. ASSUME NEW t \in Trades, Order(t) PROVE EntryInOrder'
  BY <1>14 DEF Order, Move
<1>15. ASSUME NEW t \in Trades, Register(t) PROVE EntryInOrder'
  BY <1>15 DEF Register, Move
<1>16. ASSUME NEW t \in Trades, HardStop(t) PROVE EntryInOrder'
  <2>1. HardStopMonitor \in Closers /\ ~Early(t)
    BY <1>16, HeldIsLate DEF Closers, Monitors, HardStop
  <2>2. \A u \in Trades : u # t => venue'[u] = venue[u]
    BY <1>16, <2>1, CloseIsLocal DEF HardStop
  <2>3. UNCHANGED <<step, pc, log>>
    BY <1>16 DEF HardStop
  <2> QED
    BY <2>1, <2>2, <2>3 DEF Early
<1>17. ASSUME NEW t \in Trades, VenueExit(t) PROVE EntryInOrder'
  BY <1>17 DEF VenueExit
<1>18. ASSUME NEW t \in Trades, Finalize(t) PROVE EntryInOrder'
  BY <1>18 DEF Finalize
<1>19. CASE DropOrphans \/ Switch
  BY <1>19 DEF DropOrphans, Switch
<1>20. CASE Crash
  BY <1>20 DEF Crash
<1>21. CASE UNCHANGED vars
  BY <1>21 DEF vars
<1> QED
  BY <1>1, <1>2, <1>3, <1>4, <1>5, <1>6, <1>7, <1>8, <1>9, <1>11, <1>12, <1>13, <1>14, <1>15, <1>16,
     <1>17, <1>18, <1>19, <1>20, <1>21 DEF Next, Track, Place

-----------------------------------------------------------------------------
(* What a step does to what a trade that is early must not have: closers   *)
(* take up held trades only, and a position is written for a filled one.   *)
LEMMA EarlyNext == IInv /\ [Next]_vars => EarlyIsUnseen'
<1> SUFFICES ASSUME IInv, [Next]_vars PROVE EarlyIsUnseen'
  OBVIOUS
<1> USE TradeTyped DEF IInv, TypeOK, EarlyIsUnseen, Early, tables, setup, handler, closers
<1>1. ASSUME NEW f \in Fires, Fire(f) \/ Idle(f) PROVE EarlyIsUnseen'
  BY <1>1 DEF Fire, Idle
<1>2. ASSUME NEW f \in Fires, ReadStreak(f) \/ SaveStreak(f) PROVE EarlyIsUnseen'
  BY <1>2 DEF ReadStreak, SaveStreak
<1>3. ASSUME NEW f \in Fires, LoadPositions(f) PROVE EarlyIsUnseen'
  <2>1. \A t \in Trades : position[t] = NoPosition => position'[t] = NoPosition
    BY <1>3, DropsMove
  <2>2. ASSUME NEW g \in Fires, NEW h \in todo'[g] PROVE h \in todo[g] \/ h.trade \in Stored
    <3>1. PICK S \in SUBSET Stored : todo' = [todo EXCEPT ![f] = Loaded(S)]
      BY <1>3, LoadsHold
    <3>2. \A l \in Loaded(S) : l.trade \in S
      BY DEF Loaded
    <3> QED
      BY <2>2, <3>1, <3>2
  <2>3. UNCHANGED <<step, tagging, clearing>>
    BY <1>3 DEF LoadPositions
  <2> QED
    BY <2>1, <2>2, <2>3 DEF Stored
<1>4. ASSUME NEW f \in Fires, NEW h \in todo[f], Press(f, h) \/ CloseOnCrack(f, h) PROVE EarlyIsUnseen'
  <2>1. f \in Closers /\ h.trade \in Trades /\ ~Early(h.trade)
    BY HeldIsLate DEF Closers
  <2>2. \A j \in Closers, u \in Trades : u \in tagging'[j] => u \in tagging[j] \/ u = h.trade
    BY <1>4, <2>1, CloseIsLocal DEF Press, CloseOnCrack
  <2>3. \A g \in Fires : todo'[g] \subseteq todo[g]
    BY <1>4 DEF Press, CloseOnCrack
  <2>4. UNCHANGED <<step, position, clearing>>
    BY <1>4 DEF Press, CloseOnCrack
  <2> QED
    BY <2>1, <2>2, <2>3, <2>4
<1>5. ASSUME NEW f \in Fires, NEW h \in todo[f], CountFire(f, h) PROVE EarlyIsUnseen'
  <2>1. \A u \in Trades : position[u] = NoPosition => position'[u] = NoPosition
    BY <1>5 DEF CountFire
  <2>2. \A g \in Fires : todo'[g] \subseteq todo[g]
    BY <1>5 DEF CountFire
  <2>3. UNCHANGED <<step, tagging, clearing>>
    BY <1>5 DEF CountFire
  <2> QED
    BY <2>1, <2>2, <2>3
<1>6. ASSUME NEW k \in Closers, NEW t \in Trades, Tag(k, t) PROVE EarlyIsUnseen'
  <2>1. \A j \in Closers : tagging'[j] \subseteq tagging[j] /\ clearing'[j] \subseteq clearing[j] \cup {t}
    BY <1>6 DEF Tag
  <2>2. UNCHANGED <<step, position, todo>> /\ ~Early(t)
    BY <1>6 DEF Tag
  <2> QED
    BY <2>1, <2>2
<1>7. ASSUME NEW k \in Closers, NEW t \in Trades, Clear(k, t) PROVE EarlyIsUnseen'
  <2>1. \A j \in Closers : clearing'[j] \subseteq clearing[j]
    BY <1>7 DEF Clear
  <2>2. \A u \in Trades : position[u] = NoPosition => position'[u] = NoPosition
    BY <1>7 DEF Clear
  <2>3. UNCHANGED <<step, tagging, todo>>
    BY <1>7 DEF Clear
  <2> QED
    BY <2>1, <2>2, <2>3
<1>8. ASSUME NEW f \in Fires, Return(f) PROVE EarlyIsUnseen'
  BY <1>8 DEF Return
<1>9. ASSUME NEW f \in Fires, Enter(f) PROVE EarlyIsUnseen'
  <2>1. \A t \in Trades : step'[t] # step[t] => step[t] = "idle"
    BY <1>9 DEF Enter, Tracked, EntryInOrder
  <2>2. UNCHANGED <<position, tagging, clearing, todo>>
    BY <1>9 DEF Enter
  <2> QED
    BY <2>1, <2>2
<1>10. ASSUME NEW t \in Trades, Gate(t) \/ Refuse(t) \/ Order(t) \/ Fill(t) PROVE EarlyIsUnseen'
  <2>1. UNCHANGED <<position, tagging, clearing, todo>>
    BY <1>10 DEF Gate, Refuse, Order, Fill
  <2>2. \A u \in Trades : Early(u)' => Early(u)
    BY <1>10 DEF Gate, Refuse, Order, Fill, Move
  <2> QED
    BY <2>1, <2>2
<1>11. ASSUME NEW t \in Trades, Register(t) PROVE EarlyIsUnseen'
  BY <1>11 DEF Register, Move
<1>12. ASSUME NEW t \in Trades, HardStop(t) PROVE EarlyIsUnseen'
  <2>1. HardStopMonitor \in Closers /\ ~Early(t)
    BY <1>12, HeldIsLate DEF Closers, Monitors, HardStop
  <2>2. \A j \in Closers, u \in Trades : u \in tagging'[j] => u \in tagging[j] \/ u = t
    BY <1>12, <2>1, CloseIsLocal DEF HardStop
  <2>3. UNCHANGED <<step, position, todo, clearing>>
    BY <1>12 DEF HardStop
  <2> QED
    BY <2>1, <2>2, <2>3
<1>13. ASSUME NEW t \in Trades, VenueExit(t) PROVE EarlyIsUnseen'
  BY <1>13 DEF VenueExit
<1>14. ASSUME NEW t \in Trades, Finalize(t) PROVE EarlyIsUnseen'
  <2>1. \A j \in Closers : clearing'[j] \subseteq clearing[j] \cup {t}
    BY <1>14 DEF Finalize
  <2>2. ~Early(t) /\ UNCHANGED <<step, position, todo, tagging>>
    BY <1>14 DEF Finalize, EntryInOrder
  <2> QED
    BY <2>1, <2>2
<1>15. CASE DropOrphans
  BY <1>15, DropsMove DEF DropOrphans
<1>16. CASE Switch
  BY <1>16 DEF Switch
<1>17. CASE Crash
  BY <1>17 DEF Crash
<1>18. CASE UNCHANGED vars
  BY <1>18 DEF vars
<1> QED
  BY <1>1, <1>2, <1>3, <1>4, <1>5, <1>6, <1>7, <1>8, <1>9, <1>10, <1>11, <1>12, <1>13, <1>14, <1>15, <1>16,
     <1>17, <1>18 DEF Next, Track, Place, NoEntry, Entered

(* Only a close is ever written over a row that is not early.              *)
LEMMA LogMoves ==
  ASSUME IInv, [Next]_vars, NEW t \in Trades, log'[t] # log[t]
  PROVE  Early(t) \/ (log'[t] = "closed" /\ log[t] = "open") \/ log'[t] = "tagged"
<1> USE TradeTyped DEF IInv, TypeOK, Early, tables, setup, handler, closers
<1>1. CASE \E f \in Fires : Fire(f) \/ Idle(f) \/ ReadStreak(f) \/ SaveStreak(f) \/ LoadPositions(f)
  BY <1>1 DEF Fire, Idle, ReadStreak, SaveStreak, LoadPositions
<1>2. CASE \E f \in Fires : Track(f)
  BY <1>2 DEF Track, Press, CloseOnCrack, CountFire, NoEntry, Enter, Entered, Return
<1>3. CASE \E u \in Trades : Place(u)
  BY <1>3 DEF Place, Gate, Refuse, Order, Fill, Register
<1>4. CASE \E u \in Trades : HardStop(u) \/ VenueExit(u) \/ Finalize(u)
  BY <1>4 DEF HardStop, VenueExit, Finalize
<1>5. CASE \E k \in Closers, u \in Trades : Tag(k, u) \/ Clear(k, u)
  BY <1>5 DEF Tag, Clear
<1>6. CASE DropOrphans \/ Switch \/ Crash \/ UNCHANGED vars
  BY <1>6 DEF DropOrphans, Switch, Crash, vars
<1> QED
  BY <1>1, <1>2, <1>3, <1>4, <1>5, <1>6 DEF Next

(* What a step may hand to a closer to be dropped.                         *)
LEMMA ClearingGrows ==
  ASSUME IInv, [Next]_vars, NEW k \in Closers, NEW t \in Trades, t \in clearing'[k]
  PROVE  t \in clearing[k] \/ log'[t] \in {"closed", "tagged"}
<1> USE TradeTyped DEF IInv, TypeOK, tables, setup, handler, closers
<1>1. CASE \E f \in Fires : Fire(f) \/ Idle(f) \/ ReadStreak(f) \/ SaveStreak(f) \/ LoadPositions(f)
  BY <1>1 DEF Fire, Idle, ReadStreak, SaveStreak, LoadPositions
<1>2. CASE \E f \in Fires : Track(f)
  BY <1>2 DEF Track, Press, CloseOnCrack, CountFire, NoEntry, Enter, Entered, Return
<1>3. CASE \E u \in Trades : Place(u)
  BY <1>3 DEF Place, Gate, Refuse, Order, Fill, Register
<1>4. CASE \E u \in Trades : HardStop(u) \/ VenueExit(u) \/ Finalize(u)
  BY <1>4 DEF HardStop, VenueExit, Finalize
<1>5. ASSUME NEW j \in Closers, NEW u \in Trades, Tag(j, u)
      PROVE  t \in clearing[k] \/ log'[t] \in {"closed", "tagged"}
  <2>1. clearing' = clearing \/ (clearing' = [clearing EXCEPT ![j] = {u}] /\ log' = [log EXCEPT ![u] = "tagged"])
    BY <1>5 DEF Tag
  <2> QED
    BY <2>1
<1>6. ASSUME NEW j \in Closers, NEW u \in Trades, Clear(j, u)
      PROVE  t \in clearing[k] \/ log'[t] \in {"closed", "tagged"}
  BY <1>6 DEF Clear
<1>7. CASE DropOrphans \/ Switch \/ Crash \/ UNCHANGED vars
  BY <1>7 DEF DropOrphans, Switch, Crash, vars
<1> QED
  BY <1>1, <1>2, <1>3, <1>4, <1>5, <1>6, <1>7 DEF Next

LEMMA ClearedNext == IInv /\ [Next]_vars => ClearedIsClosed'
<1> SUFFICES ASSUME IInv, [Next]_vars, NEW k \in Closers, NEW t \in Trades, t \in clearing'[k]
             PROVE  log'[t] \in {"closed", "tagged"}
  BY DEF ClearedIsClosed
<1>1. t \in clearing[k] => log[t] \in {"closed", "tagged"} /\ ~Early(t)
  BY DEF IInv, ClearedIsClosed, EarlyIsUnseen
<1> QED
  BY <1>1, ClearingGrows, LogMoves

LEMMA StepInductive == IInv /\ [Next]_vars => IInv'
<1>1. IInv => TypeOK
  BY DEF IInv
<1> QED
  BY <1>1, TypeNext, EntryNext, EarlyNext, ClearedNext DEF IInv

LEMMA AlwaysIInv == Spec => []IInv
BY InitInductive, StepInductive, PTL DEF Spec

-----------------------------------------------------------------------------
(* Whatever fails and whoever closes, a position is dropped only when the  *)
(* log no longer shows its trade open.                                     *)
LEMMA DroppedIsNotOpen ==
  ASSUME IInv, [Next]_vars, NEW t \in Trades, position[t] # NoPosition, position'[t] = NoPosition
  PROVE  log[t] # "open"
<1> USE TradeTyped DEF IInv, TypeOK, tables, setup, handler, closers
<1>1. CASE \E f \in Fires : Fire(f) \/ Idle(f) \/ ReadStreak(f) \/ SaveStreak(f)
  BY <1>1 DEF Fire, Idle, ReadStreak, SaveStreak
<1>2. CASE DropOrphans \/ \E f \in Fires : LoadPositions(f)
  BY <1>2, DropsMove DEF Orphans
<1>3. ASSUME NEW f \in Fires, NEW h \in todo[f], CountFire(f, h) PROVE FALSE
  <2>1. Counted(f, h) \in Counts
    BY DEF Counted, Opposing, Counts, Held
  <2> QED
    BY <1>3, <2>1, PositionTyped DEF CountFire
<1>4. ASSUME NEW f \in Fires, Track(f) PROVE FALSE
  BY <1>3, <1>4 DEF Track, Press, CloseOnCrack, NoEntry, Enter, Entered, Return
<1>5. CASE \E u \in Trades : Place(u)
  <2>1. [opposing |-> 0, total |-> 0] # NoPosition
    BY DEF NoPosition
  <2> QED
    BY <1>5, <2>1 DEF Place, Gate, Refuse, Order, Fill, Register
<1>6. CASE \E u \in Trades : HardStop(u) \/ VenueExit(u) \/ Finalize(u)
  BY <1>6 DEF HardStop, VenueExit, Finalize
<1>7. ASSUME NEW k \in Closers, NEW u \in Trades, Tag(k, u) PROVE FALSE
  BY <1>7 DEF Tag
<1>8. ASSUME NEW k \in Closers, NEW u \in Trades, Clear(k, u) PROVE log[t] # "open"
  <2>1. u = t /\ t \in clearing[k]
    BY <1>8 DEF Clear
  <2> QED
    BY <2>1 DEF ClearedIsClosed
<1>9. CASE Switch \/ Crash \/ UNCHANGED vars
  BY <1>9 DEF Switch, Crash, vars
<1> QED
  BY <1>1, <1>2, <1>4, <1>5, <1>6, <1>7, <1>8, <1>9 DEF Next

(* Persist the close first, only then drop the position.                   *)
THEOREM PositionsOutliveRows == Spec => PositionOutlivesRow
<1> DEFINE Kept == \A t \in Trades : position[t] # NoPosition /\ position'[t] = NoPosition => log[t] # "open"
<1>1. ASSUME IInv, [Next]_vars PROVE [Kept]_vars
  BY <1>1, DroppedIsNotOpen
<1> QED
  BY <1>1, AlwaysIInv, PTL DEF Spec, PositionOutlivesRow

(* The reason AlphaOmega gave for a close survives the trade monitor, the  *)
(* other closers and a crash.                                              *)
THEOREM ReasonsStay == Spec => ReasonStays
<1> DEFINE Stays == \A t \in Trades : log[t] = "tagged" => log'[t] = "tagged"
<1>1. ASSUME IInv, [Next]_vars PROVE [Stays]_vars
  <2>1. \A t \in Trades : log[t] = "tagged" => ~Early(t)
    BY <1>1 DEF IInv, EntryInOrder, Early
  <2> QED
    BY <1>1, <2>1, LogMoves
<1> QED
  BY <1>1, AlwaysIInv, PTL DEF Spec, ReasonStays

-----------------------------------------------------------------------------
LEMMA FaultsStay == ASSUME [Next]_vars PROVE faults' = faults
<1> USE DEF tables, setup
<1>1. CASE \E f \in Fires : Fire(f) \/ Idle(f) \/ ReadStreak(f) \/ SaveStreak(f) \/ LoadPositions(f)
  BY <1>1 DEF Fire, Idle, ReadStreak, SaveStreak, LoadPositions
<1>2. CASE \E f \in Fires : Track(f)
  BY <1>2 DEF Track, Press, CloseOnCrack, CountFire, NoEntry, Enter, Entered, Return
<1>3. CASE \E t \in Trades : Place(t)
  BY <1>3 DEF Place, Gate, Refuse, Order, Fill, Register
<1>4. CASE \E t \in Trades : HardStop(t) \/ VenueExit(t) \/ Finalize(t)
  BY <1>4 DEF HardStop, VenueExit, Finalize
<1>5. CASE \E k \in Closers, t \in Trades : Tag(k, t) \/ Clear(k, t)
  BY <1>5 DEF Tag, Clear
<1>6. CASE DropOrphans \/ Switch \/ Crash \/ UNCHANGED vars
  BY <1>6 DEF DropOrphans, Switch, Crash, vars
<1> QED
  BY <1>1, <1>2, <1>3, <1>4, <1>5, <1>6 DEF Next

(* With one fire handled at a time, nothing between the look at the log    *)
(* and the order can give the book another trade.                          *)
OneFire    == MaxInFlight = 1
OneHandled == \A f, g \in InFlight : f = g

Claims(t) == log[t] = "open" \/ step[t] \in {"order", "fill"}
OneClaim  == \A t, u \in Trades : t.book = u.book /\ Claims(t) /\ Claims(u) => t = u

(* A fire is taken up when the one before it is done with.                 *)
LEMMA FireWaits == ASSUME OneFire, TypeOK, NEW f \in Fires, Fire(f) PROVE InFlight = {}
<1>1. IsFiniteSet(Fires)
  BY FS_Interval, AlphaOmegaAssumption DEF Fires
<1>2. IsFiniteSet(InFlight)
  BY <1>1, FS_Subset DEF InFlight
<1>3. Cardinality(InFlight) = 0
  BY <1>2, FS_CardinalityType DEF Fire, OneFire
<1> QED
  BY <1>2, <1>3, FS_EmptySet

LEMMA HandledNext == ASSUME OneFire, TypeOK, OneHandled, [Next]_vars PROVE OneHandled'
<1> USE DEF TypeOK, OneHandled, InFlight, tables, setup, handler, closers
<1>1. ASSUME NEW f \in Fires, Fire(f) PROVE OneHandled'
  <2>1. InFlight = {}
    BY <1>1, FireWaits
  <2> QED
    BY <1>1, <2>1 DEF Fire
<1>2. ASSUME NEW f \in Fires, Idle(f) \/ ReadStreak(f) \/ SaveStreak(f) \/ LoadPositions(f) PROVE OneHandled'
  BY <1>2 DEF Idle, ReadStreak, SaveStreak, LoadPositions
<1>3. ASSUME NEW f \in Fires, NoEntry(f) \/ Enter(f) \/ Entered(f) PROVE OneHandled'
  BY <1>3 DEF NoEntry, Enter, Entered, Return, Tracked
<1>4. ASSUME NEW f \in Fires, NEW h \in todo[f], Press(f, h) \/ CloseOnCrack(f, h) \/ CountFire(f, h)
      PROVE  OneHandled'
  BY <1>4 DEF Press, CloseOnCrack, CountFire
<1>5. CASE \E t \in Trades : Place(t)
  BY <1>5 DEF Place, Gate, Refuse, Order, Fill, Register
<1>6. CASE \E t \in Trades : HardStop(t) \/ VenueExit(t) \/ Finalize(t)
  BY <1>6 DEF HardStop, VenueExit, Finalize
<1>7. CASE \E k \in Closers, t \in Trades : Tag(k, t) \/ Clear(k, t)
  BY <1>7 DEF Tag, Clear
<1>8. CASE DropOrphans \/ Switch \/ UNCHANGED vars
  BY <1>8 DEF DropOrphans, Switch, vars
<1>9. CASE Crash
  BY <1>9 DEF Crash
<1> QED
  BY <1>1, <1>2, <1>3, <1>4, <1>5, <1>6, <1>7, <1>8, <1>9 DEF Next, Track

(* Only the gate lets a trade claim its book. *)
LEMMA ClaimsGrow ==
  ASSUME IInv, [Next]_vars, NEW t \in Trades, Claims(t)'
  PROVE  Claims(t) \/ Gate(t)
<1> USE TradeTyped DEF IInv, TypeOK, Claims, tables, setup, handler, closers
<1>1. CASE \E f \in Fires : Fire(f) \/ Idle(f) \/ ReadStreak(f) \/ SaveStreak(f) \/ LoadPositions(f)
  BY <1>1 DEF Fire, Idle, ReadStreak, SaveStreak, LoadPositions
<1>2. CASE \E f \in Fires : Track(f)
  BY <1>2 DEF Track, Press, CloseOnCrack, CountFire, NoEntry, Enter, Entered, Return
<1>3. ASSUME NEW u \in Trades, Gate(u) PROVE Claims(t) \/ Gate(t)
  BY <1>3 DEF Gate, Move
<1>4. ASSUME NEW u \in Trades, Refuse(u) \/ Order(u) \/ Fill(u) \/ Register(u) PROVE Claims(t)
  BY <1>4 DEF Refuse, Order, Fill, Register, Move
<1>5. CASE \E u \in Trades : HardStop(u) \/ VenueExit(u) \/ Finalize(u)
  BY <1>5 DEF HardStop, VenueExit, Finalize
<1>6. CASE \E k \in Closers, u \in Trades : Tag(k, u) \/ Clear(k, u)
  BY <1>6 DEF Tag, Clear
<1>7. CASE DropOrphans \/ Switch \/ Crash \/ UNCHANGED vars
  BY <1>7 DEF DropOrphans, Switch, Crash, vars
<1> QED
  BY <1>1, <1>2, <1>3, <1>4, <1>5, <1>6, <1>7 DEF Next, Place

LEMMA GateTakesAFreeBook ==
  ASSUME IInv, OneHandled, "read" \notin faults, NEW t \in Trades, NEW u \in Trades, Gate(t), Claims(u), t.book = u.book
  PROVE  t = u
<1>1. log[u] # "open"
  BY DEF Gate, OpenOn
<1>2. pc[u.fire] = "enter" /\ pc[t.fire] = "enter"
  BY <1>1 DEF IInv, EntryInOrder, Claims, Gate
<1>3. t.fire = u.fire
  BY <1>2, TradeTyped DEF OneHandled, InFlight
<1> QED
  BY <1>3 DEF Trades

LEMMA ClaimNext ==
  ASSUME IInv, OneHandled, "read" \notin faults, OneClaim, [Next]_vars
  PROVE  OneClaim'
<1> SUFFICES ASSUME NEW t \in Trades, NEW u \in Trades, t.book = u.book, Claims(t)', Claims(u)', t # u
             PROVE  FALSE
  BY DEF OneClaim
<1>1. (Claims(t) \/ Gate(t)) /\ (Claims(u) \/ Gate(u))
  BY ClaimsGrow
<1>2. ~(Gate(t) /\ Gate(u))
  BY DEF Gate, Move, IInv, TypeOK
<1> QED
  BY <1>1, <1>2, GateTakesAFreeBook DEF OneClaim

(* A book holds one trade at a time, whatever else fails, as long as the   *)
(* log can be read and the handlers of two fires do not overlap.           *)
THEOREM OneTradeForABook == ASSUME OneFire PROVE Spec => []OneTradePerBook
<1> DEFINE LookedFirst == "read" \notin faults => OneClaim
<1>1. Init => OneHandled /\ LookedFirst
  BY DEF Init, OneHandled, InFlight, OneClaim, Claims
<1>2. IInv /\ OneHandled /\ LookedFirst /\ [Next]_vars => OneHandled' /\ LookedFirst'
  BY OneFire, HandledNext, ClaimNext, FaultsStay DEF IInv
<1>3. LookedFirst => OneTradePerBook
  BY DEF OneClaim, OneTradePerBook, Claims
<1> QED
  BY <1>1, <1>2, <1>3, AlwaysIInv, PTL DEF Spec

-----------------------------------------------------------------------------
(* The streak: with one fire handled at a time, an armed streak stands for *)
(* an unbroken run of fires that armed it, and one that is not armed for   *)
(* as many fires as its length says.                                       *)

(* What has been made of the fires so far, one handler after the other.    *)
FiresInOrder ==
  \A f, g \in Fires : f < g /\ pc[g] # "new" => pc[f] = "done" /\ fire[f].at <= fire[g].at

FatesInOrder ==
  \A f \in Fires :
    /\ pc[f] # "new" => fire[f].dir \in Directions
    /\ pc[f] \in {"new", "observe", "save"} => fate[f] = "none"
    /\ pc[f] \in {"load", "track", "enter"} => fate[f] = "counted"
    /\ crack[f] # NoCrack => pc[f] \in {"load", "track", "enter"}
    /\ pc[f] = "save" => read[f] \in {streak, NoStreak}

(* What a step may make of one fire.                                       *)
LEMMA FireMoves ==
  ASSUME TypeOK, [Next]_vars, NEW f \in Fires
  PROVE  \/ Fire(f) \/ Idle(f) \/ ReadStreak(f) \/ SaveStreak(f)
         \/ /\ fire'[f] = fire[f] /\ fate'[f] = fate[f]
            /\ \/ pc'[f] = pc[f] /\ crack'[f] = crack[f] /\ read'[f] = read[f]
               \/ pc[f] = "load" /\ pc'[f] = "track" /\ crack'[f] = crack[f] /\ read'[f] = read[f]
               \/ pc[f] = "track" /\ pc'[f] = "enter" /\ crack'[f] = crack[f] /\ read'[f] = read[f]
               \/ pc[f] # "new" /\ pc'[f] = "done" /\ crack'[f] = NoCrack
               \/ pc[f] = "new" /\ pc'[f] = "new" /\ crack'[f] = NoCrack
<1> USE DEF TypeOK, tables, setup, handler, closers
<1>1. CASE \E g \in Fires : Fire(g) \/ Idle(g) \/ ReadStreak(g) \/ SaveStreak(g)
  BY <1>1 DEF Fire, Idle, ReadStreak, SaveStreak
<1>2. CASE \E g \in Fires : LoadPositions(g)
  BY <1>2 DEF LoadPositions
<1>3. CASE \E g \in Fires : \E h \in todo[g] : Press(g, h) \/ CloseOnCrack(g, h) \/ CountFire(g, h)
  BY <1>3 DEF Press, CloseOnCrack, CountFire
<1>4. CASE \E g \in Fires : NoEntry(g) \/ Enter(g) \/ Entered(g)
  BY <1>4 DEF NoEntry, Enter, Entered, Return, Tracked
<1>5. CASE \E t \in Trades : Place(t)
  BY <1>5 DEF Place, Gate, Refuse, Order, Fill, Register
<1>6. CASE \E t \in Trades : HardStop(t) \/ VenueExit(t) \/ Finalize(t)
  BY <1>6 DEF HardStop, VenueExit, Finalize
<1>7. CASE \E k \in Closers, t \in Trades : Tag(k, t) \/ Clear(k, t)
  BY <1>7 DEF Tag, Clear
<1>8. CASE DropOrphans \/ Switch \/ UNCHANGED vars
  BY <1>8 DEF DropOrphans, Switch, vars
<1>9. CASE Crash
  BY <1>9 DEF Crash
<1> QED
  BY <1>1, <1>2, <1>3, <1>4, <1>5, <1>6, <1>7, <1>8, <1>9 DEF Next, Track

(* Only a fire that is observed moves the streak.                          *)
LEMMA StreakMoves ==
  ASSUME [Next]_vars, streak' # streak
  PROVE  \E f \in Fires : Idle(f) \/ SaveStreak(f)
<1> USE DEF tables, setup, handler, closers
<1>1. CASE \E g \in Fires : Fire(g) \/ ReadStreak(g) \/ LoadPositions(g)
  BY <1>1 DEF Fire, ReadStreak, LoadPositions
<1>2. CASE \E g \in Fires : Track(g)
  BY <1>2 DEF Track, Press, CloseOnCrack, CountFire, NoEntry, Enter, Entered, Return
<1>3. CASE \E t \in Trades : Place(t)
  BY <1>3 DEF Place, Gate, Refuse, Order, Fill, Register
<1>4. CASE \E t \in Trades : HardStop(t) \/ VenueExit(t) \/ Finalize(t)
  BY <1>4 DEF HardStop, VenueExit, Finalize
<1>5. CASE \E k \in Closers, t \in Trades : Tag(k, t) \/ Clear(k, t)
  BY <1>5 DEF Tag, Clear
<1>6. CASE DropOrphans \/ Switch \/ Crash \/ UNCHANGED vars
  BY <1>6 DEF DropOrphans, Switch, Crash, vars
<1> QED
  BY <1>1, <1>2, <1>3, <1>4, <1>5, <1>6 DEF Next

LEMMA OrderNext ==
  ASSUME OneFire, TypeOK, FiresInOrder, [Next]_vars
  PROVE  FiresInOrder'
<1> SUFFICES ASSUME NEW f \in Fires, NEW g \in Fires, f < g, pc'[g] # "new"
             PROVE  pc'[f] = "done" /\ fire'[f].at <= fire'[g].at
  BY DEF FiresInOrder
<1> USE DEF TypeOK, FiresInOrder
<1>1. pc[f] = "done" => pc'[f] = "done" /\ fire'[f] = fire[f]
  BY FireMoves DEF Fire, Idle, ReadStreak, SaveStreak
<1>2. CASE pc[g] # "new"
  <2>1. fire'[g] = fire[g]
    BY <1>2, FireMoves DEF Fire, Idle, ReadStreak, SaveStreak
  <2> QED
    BY <1>1, <1>2, <2>1
<1>3. CASE pc[g] = "new"
  <2>1. Fire(g)
    BY <1>3, FireMoves DEF Idle, ReadStreak, SaveStreak
  <2>2. g-1 \in Fires /\ f <= g-1 /\ pc[g-1] # "new" /\ pc[f] # "new"
    BY <2>1, AlphaOmegaAssumption DEF Fires, Fire
  <2>3. pc[f] = "done"
    BY <2>1, <2>2, FireWaits DEF InFlight
  <2>4. fire[f].at <= fire[g-1].at
    BY <2>2 DEF Fires
  <2>5. PICK dir \in Directions, gap \in Gaps :
          fire' = [fire EXCEPT ![g] = [dir |-> dir, at |-> gap + IF g = 1 THEN 0 ELSE fire[g-1].at]]
    BY <2>1 DEF Fire
  <2>6. fire'[g].at = gap + fire[g-1].at /\ gap \in Nat
    BY <2>2, <2>5, AlphaOmegaAssumption DEF Fires
  <2>7. fire[f].at \in Nat /\ fire[g-1].at \in Nat
    BY <2>2
  <2> QED
    BY <1>1, <2>3, <2>4, <2>6, <2>7
<1> QED
  BY <1>2, <1>3

LEMMA FatesNext ==
  ASSUME TypeOK, OneHandled, FatesInOrder, [Next]_vars
  PROVE  FatesInOrder'
<1> SUFFICES ASSUME NEW f \in Fires
             PROVE  /\ pc'[f] # "new" => fire'[f].dir \in Directions
                    /\ pc'[f] \in {"new", "observe", "save"} => fate'[f] = "none"
                    /\ pc'[f] \in {"load", "track", "enter"} => fate'[f] = "counted"
                    /\ crack'[f] # NoCrack => pc'[f] \in {"load", "track", "enter"}
                    /\ pc'[f] = "save" => read'[f] \in {streak', NoStreak}
  BY DEF FatesInOrder
<1> USE DEF TypeOK, FatesInOrder
<1>1. CASE Fire(f)
  BY <1>1 DEF Fire
<1>2. CASE Idle(f)
  BY <1>2 DEF Idle
<1>3. CASE ReadStreak(f)
  BY <1>3 DEF ReadStreak, tables
<1>4. CASE SaveStreak(f)
  BY <1>4 DEF SaveStreak
<1>5. CASE ~(Fire(f) \/ Idle(f) \/ ReadStreak(f) \/ SaveStreak(f))
  <2>1. pc'[f] = "save" => pc[f] = "save" /\ read'[f] = read[f]
    BY <1>5, FireMoves
  <2>2. pc[f] = "save" => streak' = streak
    <3>1. ASSUME pc[f] = "save", streak' # streak PROVE FALSE
      <4>1. PICK g \in Fires : Idle(g) \/ SaveStreak(g)
        BY <3>1, StreakMoves
      <4>2. g # f
        BY <1>5, <4>1
      <4>3. CASE SaveStreak(g)
        BY <3>1, <4>2, <4>3 DEF OneHandled, InFlight, SaveStreak
      <4>4. CASE Idle(g)
        BY <3>1, <4>2, <4>4 DEF OneHandled, InFlight, Idle
      <4> QED
        BY <4>1, <4>3, <4>4
    <3> QED
      BY <3>1
  <2>3. pc'[f] = "save" => read'[f] \in {streak', NoStreak}
    BY <2>1, <2>2
  <2>4. /\ fire'[f] = fire[f] /\ fate'[f] = fate[f]
        /\ pc'[f] # "new" => pc[f] # "new"
        /\ pc'[f] \in {"new", "observe", "save"} => pc[f] \in {"new", "observe", "save"}
        /\ pc'[f] \in {"load", "track", "enter"} => pc[f] \in {"load", "track", "enter"}
        /\ crack'[f] # NoCrack => crack[f] # NoCrack /\ pc'[f] \in {"load", "track", "enter"}
    BY <1>5, FireMoves
  <2> QED
    BY <2>3, <2>4
<1> QED
  BY <1>1, <1>2, <1>3, <1>4, <1>5

(* The fires of the run a streak stands for.                               *)
CountedSince(i) == {g \in Fires : g >= i /\ fate[g] = "counted"}

Unbroken(i, dir) ==
  /\ fate[i] = "counted"
  /\ \A g \in CountedSince(i) : fire[g].dir = dir
  /\ \A g \in Fires : g >= i => fate[g] # "ignored"

Arms(i) ==
  \E j \in CountedSince(i) :
    /\ Cardinality({g \in CountedSince(i) : g <= j}) = ArmLength
    /\ fire[j].at - fire[i].at <= SpeedCeiling

(* An armed streak has been earned, and one that is not armed is counted.  *)
ArmedIsEarned ==
  streak.armed # "none" =>
    /\ streak.dir = streak.armed
    /\ \E i \in Fires : Unbroken(i, streak.armed) /\ Arms(i)

LengthIsCounted ==
  streak.armed = "none" /\ streak.dir # "none" =>
    /\ streak.length < ArmLength
    /\ \E i \in Fires :
         /\ Unbroken(i, streak.dir) /\ fire[i].at = streak.start
         /\ Cardinality(CountedSince(i)) = streak.length

LEMMA CountedFinite ==
  \A i \in Fires : IsFiniteSet(CountedSince(i)) /\ Cardinality(CountedSince(i)) \in Nat
<1>1. IsFiniteSet(Fires)
  BY FS_Interval, AlphaOmegaAssumption DEF Fires
<1>2. \A i \in Fires : CountedSince(i) \subseteq Fires
  BY DEF CountedSince
<1> QED
  BY <1>1, <1>2, FS_Subset, FS_CardinalityType

(* A run changes with the fate of its fires only.                          *)
LEMMA RunStays ==
  ASSUME TypeOK, FatesInOrder, [Next]_vars, fate' = fate,
         NEW i \in Fires, NEW dir, Unbroken(i, dir)
  PROVE  /\ CountedSince(i)' = CountedSince(i)
         /\ Unbroken(i, dir)'
         /\ Arms(i) => Arms(i)'
         /\ fire'[i] = fire[i]
<1>1. CountedSince(i)' = CountedSince(i)
  BY DEF CountedSince
<1>2. \A g \in Fires : fate[g] = "counted" => fire'[g] = fire[g]
  BY FireMoves DEF FatesInOrder, Fire, Idle, ReadStreak, SaveStreak
<1>3. \A g \in CountedSince(i) : fire'[g] = fire[g]
  BY <1>2 DEF CountedSince
<1>4. Unbroken(i, dir)'
  BY <1>1, <1>3 DEF Unbroken
<1>5. fate[i] = "counted"
  BY DEF Unbroken
<1>6. Arms(i) => Arms(i)'
  BY <1>1, <1>2, <1>3, <1>5 DEF Arms
<1> QED
  BY <1>1, <1>2, <1>4, <1>5, <1>6

(* The fire that is saved is the last of them all, and joins every run.    *)
LEMMA RunGrows ==
  ASSUME TypeOK, FiresInOrder, FatesInOrder, NEW f \in Fires, SaveStreak(f)
  PROVE  /\ \A g \in Fires : fate[g] # "none" => g < f
         /\ CountedSince(f)' = {f}
         /\ \A i \in Fires : fate[i] = "counted" =>
              i < f /\ CountedSince(i)' = CountedSince(i) \cup {f}
<1> USE DEF TypeOK, FatesInOrder
<1>1. pc[f] = "save" /\ fate' = [fate EXCEPT ![f] = "counted"] /\ fate[f] = "none"
  BY DEF SaveStreak
<1>2. ASSUME NEW g \in Fires, fate[g] # "none" PROVE g < f
  <2>1. pc[g] # "new" /\ g # f
    BY <1>1, <1>2
  <2> QED
    BY <1>1, <2>1 DEF FiresInOrder, Fires
<1>3. CountedSince(f)' = {f}
  BY <1>1, <1>2 DEF CountedSince, Fires
<1>4. ASSUME NEW i \in Fires, fate[i] = "counted"
      PROVE  i < f /\ CountedSince(i)' = CountedSince(i) \cup {f}
  <2>1. i < f
    BY <1>2, <1>4
  <2> QED
    BY <1>1, <1>4, <2>1 DEF CountedSince, Fires
<1> QED
  BY <1>2, <1>3, <1>4

(* AlphaOmega is on unless it is switched.                                 *)
OnUnlessSwitched == "switch" \notin faults => enabled

StreakInv ==
  /\ FiresInOrder /\ FatesInOrder /\ OnUnlessSwitched
  /\ StreakKept => ArmedIsEarned /\ LengthIsCounted

(* A fire that starts a run of its own, and one that joins an unbroken one *)
LEMMA RunStarts ==
  ASSUME TypeOK, FiresInOrder, FatesInOrder, NEW f \in Fires, SaveStreak(f)
  PROVE  /\ Unbroken(f, fire[f].dir)'
         /\ Cardinality(CountedSince(f))' = 1
         /\ ArmLength = 1 => Arms(f)'
<1>1. CountedSince(f)' = {f} /\ fate'[f] = "counted" /\ fire' = fire /\ fire[f].dir \in Directions
  BY RunGrows DEF SaveStreak, TypeOK, FatesInOrder
<1>2. Cardinality({f}) = 1
  BY FS_Singleton
<1>3. Unbroken(f, fire[f].dir)'
  <2>1. \A g \in Fires : g >= f => fate'[g] # "ignored"
    <3>1. \A g \in Fires : g > f => fate[g] = "none"
      BY RunGrows DEF Fires
    <3> QED
      BY <3>1 DEF SaveStreak, TypeOK, Fires
  <2> QED
    BY <1>1, <2>1 DEF Unbroken
<1>4. ASSUME ArmLength = 1 PROVE Arms(f)'
  <2>1. {g \in CountedSince(f)' : g <= f} = {f}
    BY <1>1 DEF Fires
  <2>2. fire'[f].at - fire'[f].at <= SpeedCeiling
    BY <1>1, StreakAssumption DEF TypeOK
  <2> QED
    BY <1>1, <1>2, <1>4, <2>1, <2>2 DEF Arms
<1> QED
  BY <1>1, <1>2, <1>3, <1>4

LEMMA RunIsJoined ==
  ASSUME TypeOK, FiresInOrder, FatesInOrder, NEW f \in Fires, SaveStreak(f),
         NEW i \in Fires, Unbroken(i, fire[f].dir)
  PROVE  /\ Unbroken(i, fire[f].dir)'
         /\ Cardinality(CountedSince(i))' = Cardinality(CountedSince(i)) + 1
         /\ fire[i].at <= fire[f].at
         /\ Arms(i) => Arms(i)'
         /\ Cardinality(CountedSince(i)) + 1 = ArmLength /\ fire[f].at - fire[i].at <= SpeedCeiling
              => Arms(i)'
<1>1. fate[i] = "counted" /\ fate' = [fate EXCEPT ![f] = "counted"] /\ fire' = fire /\ fate[f] = "none"
  BY DEF SaveStreak, FatesInOrder, Unbroken
<1>2. i < f /\ CountedSince(i)' = CountedSince(i) \cup {f} /\ \A g \in CountedSince(i) : g < f
  BY <1>1, RunGrows DEF CountedSince
<1>3. Unbroken(i, fire[f].dir)'
  BY <1>1, <1>2 DEF Unbroken, TypeOK
<1>4. Cardinality(CountedSince(i))' = Cardinality(CountedSince(i)) + 1
  BY <1>1, <1>2, CountedFinite, FS_AddElement DEF CountedSince
<1>5. fire[i].at <= fire[f].at
  BY <1>2 DEF FiresInOrder, SaveStreak
<1>6. ASSUME Arms(i) PROVE Arms(i)'
  <2>1. PICK j \in CountedSince(i) :
          /\ Cardinality({g \in CountedSince(i) : g <= j}) = ArmLength
          /\ fire[j].at - fire[i].at <= SpeedCeiling
    BY <1>6 DEF Arms
  <2>2. {g \in CountedSince(i)' : g <= j} = {g \in CountedSince(i) : g <= j}
    BY <1>2 DEF CountedSince, Fires
  <2> QED
    BY <1>1, <1>2, <2>1, <2>2 DEF Arms
<1>7. ASSUME Cardinality(CountedSince(i)) + 1 = ArmLength, fire[f].at - fire[i].at <= SpeedCeiling
      PROVE  Arms(i)'
  <2>1. {g \in CountedSince(i)' : g <= f} = CountedSince(i)'
    BY <1>2 DEF CountedSince, Fires
  <2> QED
    BY <1>1, <1>2, <1>4, <1>7, <2>1 DEF Arms
<1> QED
  BY <1>3, <1>4, <1>5, <1>6, <1>7

(* The four ways a fire moves the streak.                                  *)
LEMMA StreakSaved ==
  ASSUME TypeOK, FatesInOrder, StreakKept, ArmedIsEarned, NEW f \in Fires, SaveStreak(f)
  PROVE  LET dir == fire[f].dir
             at  == fire[f].at
         IN  /\ streak'.dir = dir /\ dir \in Directions /\ dir # "none"
             /\ \/ streak.armed = dir /\ streak'.armed = dir
                \/ /\ Continues(streak, dir, at) /\ streak.armed = "none"
                   /\ streak'.length = streak.length + 1 /\ streak'.start = streak.start
                   /\ streak'.armed = IF streak.length + 1 >= ArmLength /\ at - streak.start \in 0..SpeedCeiling
                                      THEN dir ELSE "none"
                \/ /\ streak'.length = 1 /\ streak'.start = at
                   /\ streak'.armed = IF 1 >= ArmLength /\ at - at \in 0..SpeedCeiling
                                      THEN dir ELSE "none"
<1> DEFINE dir == fire[f].dir
           at  == fire[f].at
<1>1. streak' = AfterFire(read[f], dir, at) /\ read[f] \in {streak, NoStreak} /\ dir \in Directions
  BY DEF SaveStreak, FatesInOrder, StreakKept
<1>2. dir # "none" /\ streak.armed \in Directions \cup {"none"} /\ streak \in Streaks
  BY <1>1, StreakAssumption DEF TypeOK, Streaks
<1>3. CASE read[f] = streak /\ streak.armed = dir
  <2>1. Crack(streak, dir) = NoCrack
    BY <1>3 DEF Crack
  <2> QED
    BY <1>1, <1>2, <1>3, <2>1 DEF AfterFire
<1>4. CASE read[f] = streak /\ streak.armed = "none"
  <2>1. Crack(streak, dir) = NoCrack
    BY <1>4, StreakAssumption DEF Crack
  <2> QED
    BY <1>1, <1>2, <1>4, <2>1 DEF AfterFire
<1>5. CASE read[f] = streak /\ streak.armed \in Directions \ {dir}
  <2>1. Crack(streak, dir) # NoCrack
    BY <1>5, StreakAssumption DEF Crack, NoCrack
  <2>2. ~Continues(streak, dir, at)
    BY <1>5, StreakAssumption DEF Continues, ArmedIsEarned
  <2> QED
    BY <1>1, <1>2, <1>5, <2>1, <2>2 DEF AfterFire
<1>6. CASE read[f] = NoStreak
  <2>1. Crack(NoStreak, dir) = NoCrack
    BY StreakAssumption DEF Crack, NoStreak
  <2>2. ~Continues(NoStreak, dir, at) /\ NoStreak.armed = "none"
    BY <1>2 DEF Continues, NoStreak
  <2> QED
    BY <1>1, <1>2, <1>6, <2>1, <2>2 DEF AfterFire
<1> QED
  BY <1>1, <1>2, <1>3, <1>4, <1>5, <1>6

LEMMA ArmedSaved ==
  ASSUME TypeOK, StreakKept, StreakInv, NEW f \in Fires, SaveStreak(f)
  PROVE  ArmedIsEarned' /\ LengthIsCounted'
<1> DEFINE dir == fire[f].dir
           at  == fire[f].at
<1> USE DEF StreakInv
<1>1. /\ streak'.dir = dir /\ dir \in Directions /\ dir # "none" /\ fire' = fire
      /\ at \in Nat /\ streak.length \in Nat /\ streak.start \in Nat
  BY StreakSaved DEF SaveStreak, TypeOK, Streaks
<1>2. CASE streak.armed = dir /\ streak'.armed = dir
  <2>1. PICK i \in Fires : Unbroken(i, dir) /\ Arms(i)
    BY <1>1, <1>2 DEF ArmedIsEarned
  <2>2. Unbroken(i, dir)' /\ Arms(i)'
    BY <1>1, <2>1, RunIsJoined
  <2> QED
    BY <1>1, <1>2, <2>2 DEF ArmedIsEarned, LengthIsCounted
<1>3. CASE /\ Continues(streak, dir, at) /\ streak.armed = "none"
           /\ streak'.length = streak.length + 1 /\ streak'.start = streak.start
           /\ streak'.armed = IF streak.length + 1 >= ArmLength /\ at - streak.start \in 0..SpeedCeiling
                              THEN dir ELSE "none"
  <2>1. streak.dir = dir /\ at - streak.start <= SpeedCeiling
    BY <1>3 DEF Continues
  <2>2. streak.length < ArmLength
    BY <1>1, <1>3, <2>1 DEF LengthIsCounted
  <2>3. PICK i \in Fires : /\ Unbroken(i, dir) /\ fire[i].at = streak.start
                           /\ Cardinality(CountedSince(i)) = streak.length
    BY <1>1, <1>3, <2>1 DEF LengthIsCounted
  <2>4. /\ Unbroken(i, dir)' /\ Cardinality(CountedSince(i))' = streak.length + 1
        /\ fire[i].at <= at
        /\ Cardinality(CountedSince(i)) + 1 = ArmLength /\ at - fire[i].at <= SpeedCeiling => Arms(i)'
    BY <1>1, <2>3, RunIsJoined
  <2>5. at - streak.start \in 0..SpeedCeiling
    BY <1>1, <2>1, <2>3, <2>4, StreakAssumption
  <2>6. CASE streak.length + 1 = ArmLength
    BY <1>1, <1>3, <2>1, <2>3, <2>4, <2>5, <2>6 DEF ArmedIsEarned, LengthIsCounted
  <2>7. CASE streak.length + 1 < ArmLength
    <3>1. streak'.armed = "none" /\ streak'.length < ArmLength /\ fire'[i].at = streak'.start
      BY <1>1, <1>3, <2>3, <2>7, StreakAssumption
    <3> QED
      BY <1>1, <1>3, <2>4, <3>1 DEF ArmedIsEarned, LengthIsCounted
  <2> QED
    BY <1>1, <2>2, <2>6, <2>7, StreakAssumption
<1>4. CASE /\ streak'.length = 1 /\ streak'.start = at
           /\ streak'.armed = IF 1 >= ArmLength /\ at - at \in 0..SpeedCeiling THEN dir ELSE "none"
  <2>1. Unbroken(f, dir)' /\ Cardinality(CountedSince(f))' = 1 /\ (ArmLength = 1 => Arms(f)')
    BY <1>1, RunStarts
  <2>2. CASE ArmLength = 1
    <3>1. streak'.armed = dir
      BY <1>1, <1>4, <2>2, StreakAssumption
    <3> QED
      BY <1>1, <2>1, <2>2, <3>1 DEF ArmedIsEarned, LengthIsCounted
  <2>3. CASE ArmLength > 1
    <3>1. streak'.armed = "none" /\ streak'.length < ArmLength /\ fire'[f].at = streak'.start
      BY <1>1, <1>4, <2>3, StreakAssumption
    <3> QED
      BY <1>1, <1>4, <2>1, <3>1 DEF ArmedIsEarned, LengthIsCounted
  <2> QED
    BY <2>2, <2>3, StreakAssumption
<1> QED
  BY <1>2, <1>3, <1>4, StreakSaved

LEMMA SwitchNext == ASSUME OnUnlessSwitched, [Next]_vars PROVE OnUnlessSwitched'
<1> USE DEF OnUnlessSwitched, tables, setup
<1>1. CASE \E f \in Fires : Fire(f) \/ Idle(f) \/ ReadStreak(f) \/ SaveStreak(f) \/ LoadPositions(f)
  BY <1>1 DEF Fire, Idle, ReadStreak, SaveStreak, LoadPositions
<1>2. CASE \E f \in Fires : Track(f)
  BY <1>2 DEF Track, Press, CloseOnCrack, CountFire, NoEntry, Enter, Entered, Return
<1>3. CASE \E t \in Trades : Place(t)
  BY <1>3 DEF Place, Gate, Refuse, Order, Fill, Register
<1>4. CASE \E t \in Trades : HardStop(t) \/ VenueExit(t) \/ Finalize(t)
  BY <1>4 DEF HardStop, VenueExit, Finalize
<1>5. CASE \E k \in Closers, t \in Trades : Tag(k, t) \/ Clear(k, t)
  BY <1>5 DEF Tag, Clear
<1>6. CASE DropOrphans \/ Switch \/ Crash \/ UNCHANGED vars
  BY <1>6 DEF DropOrphans, Switch, Crash, vars
<1> QED
  BY <1>1, <1>2, <1>3, <1>4, <1>5, <1>6 DEF Next

LEMMA StreakNext ==
  ASSUME OneFire, TypeOK, OneHandled, StreakInv, [Next]_vars
  PROVE  StreakInv'
<1> USE DEF StreakInv
<1>1. FiresInOrder' /\ FatesInOrder' /\ OnUnlessSwitched'
  BY OrderNext, FatesNext, SwitchNext
<1> SUFFICES ASSUME StreakKept, ArmedIsEarned, LengthIsCounted PROVE ArmedIsEarned' /\ LengthIsCounted'
  BY <1>1, FaultsStay DEF StreakKept
<1>2. ASSUME NEW f \in Fires, Idle(f) PROVE ArmedIsEarned' /\ LengthIsCounted'
  <2>1. faults \cap {"read", "write"} = {}
    BY <1>2 DEF Idle, StreakKept, OnUnlessSwitched
  <2>2. streak'.armed = "none" /\ streak'.dir = "none"
    BY <1>2, <2>1 DEF Idle, NoStreak
  <2> QED
    BY <2>2 DEF ArmedIsEarned, LengthIsCounted
<1>3. ASSUME NEW f \in Fires, SaveStreak(f) PROVE ArmedIsEarned' /\ LengthIsCounted'
  BY <1>3, ArmedSaved
<1>4. CASE ~ \E f \in Fires : Idle(f) \/ SaveStreak(f)
  <2>1. streak' = streak
    BY <1>4, StreakMoves
  <2>2. fate' = fate
    <3>1. \A f \in Fires : fate'[f] = fate[f]
      BY <1>4, FireMoves DEF Fire, ReadStreak
    <3> QED
      BY <3>1, TypeNext DEF TypeOK
  <2>3. ArmedIsEarned'
    BY <2>1, <2>2, RunStays DEF ArmedIsEarned
  <2>4. LengthIsCounted'
    BY <2>1, <2>2, RunStays DEF LengthIsCounted
  <2> QED
    BY <1>1, <2>3, <2>4
<1> QED
  BY <1>1, <1>2, <1>3, <1>4

(* The crack a fire makes is that of the streak it has read.               *)
LEMMA CracksNext ==
  ASSUME OneFire, TypeOK, OneHandled, StreakInv, CracksAreEarned, [Next]_vars
  PROVE  CracksAreEarned'
<1> SUFFICES ASSUME StreakKept, NEW f \in Fires, crack'[f] # NoCrack
             PROVE  (\E i \in 1..f-1 : fate[i] = "counted" /\ Earned(i, f))'
  BY FaultsStay DEF CracksAreEarned, StreakKept
<1> USE DEF StreakInv
<1>1. \A i \in Fires : \A g \in i..f-1 : g \in Fires /\ g < f /\ g >= i /\ g # f
  BY AlphaOmegaAssumption DEF Fires
<1>2. \A g \in 1..f-1 : g \in Fires /\ g < f
  BY AlphaOmegaAssumption DEF Fires
<1>3. CASE SaveStreak(f)
  <2>1. crack'[f] = Crack(streak, fire[f].dir) /\ fire' = fire /\ fate' = [fate EXCEPT ![f] = "counted"]
    <3>1. Crack(NoStreak, fire[f].dir) = NoCrack
      BY StreakAssumption DEF Crack, NoStreak
    <3>2. crack'[f] = Crack(read[f], fire[f].dir) /\ read[f] \in {streak, NoStreak}
      BY <1>3 DEF SaveStreak, FatesInOrder, TypeOK
    <3> QED
      BY <1>3, <3>1, <3>2 DEF SaveStreak
  <2>2. streak.armed # "none" /\ crack'[f].broken = streak.armed
    BY <2>1, StreakAssumption DEF Crack
  <2>3. PICK i \in Fires : Unbroken(i, streak.armed) /\ Arms(i)
    BY <2>2 DEF ArmedIsEarned
  <2>4. i \in 1..f-1 /\ fate'[i] = "counted"
    BY <1>3, <2>1, <2>3, RunGrows DEF Unbroken, Fires, TypeOK
  <2>5. {g \in i..f-1 : fate'[g] = "counted"} = CountedSince(i)
    <3>1. \A g \in i..f-1 : fate'[g] = fate[g]
      BY <1>1, <2>1
    <3>2. \A g \in CountedSince(i) : g \in i..f-1
      BY <1>3, <1>1, <2>4, RunGrows DEF CountedSince, Fires
    <3> QED
      BY <1>1, <2>4, <3>1, <3>2 DEF CountedSince
  <2>6. \A g \in i..f-1 : fate'[g] # "ignored"
    BY <1>1, <2>1, <2>3, <2>4 DEF Unbroken
  <2>7. Earned(i, f)'
    BY <2>1, <2>2, <2>3, <2>5, <2>6 DEF Earned, Unbroken, Arms
  <2> QED
    BY <2>4, <2>7
<1>4. CASE ~SaveStreak(f)
  <2>1. crack'[f] = crack[f]
    BY <1>4, FireMoves DEF Fire, Idle, ReadStreak
  <2>2. PICK i \in 1..f-1 : fate[i] = "counted" /\ Earned(i, f)
    BY <2>1 DEF CracksAreEarned
  <2>3. \A g \in 1..f-1 : g \in Fires /\ pc[g] = "done"
    BY <1>2, <2>1 DEF FiresInOrder, FatesInOrder
  <2>4. \A g \in 1..f-1 : fate'[g] = fate[g] /\ fire'[g] = fire[g]
    BY <2>3, FireMoves DEF Fire, Idle, ReadStreak, SaveStreak
  <2>5. {g \in i..f-1 : fate'[g] = "counted"} = {g \in i..f-1 : fate[g] = "counted"}
    BY <2>4
  <2>6. i \in i..f-1 /\ i..f-1 \subseteq 1..f-1
    BY DEF Fires
  <2>7. Earned(i, f)'
    BY <2>1, <2>2, <2>4, <2>5, <2>6 DEF Earned
  <2> QED
    BY <2>2, <2>4, <2>7
<1> QED
  BY <1>3, <1>4

LEMMA InitStreak == Init => OneHandled /\ StreakInv
<1> SUFFICES ASSUME Init PROVE OneHandled /\ StreakInv
  OBVIOUS
<1>1. OneHandled /\ FiresInOrder /\ FatesInOrder
  BY DEF Init, OneHandled, InFlight, FiresInOrder, FatesInOrder
<1>2. streak.armed = "none" /\ streak.dir = "none"
  BY DEF Init, NoStreak
<1> QED
  BY <1>1, <1>2 DEF Init, StreakInv, OnUnlessSwitched, ArmedIsEarned, LengthIsCounted

(* With one fire handled at a time, while the streak is saved, and unless  *)
(* a failed read hides that AlphaOmega is off, a fire cracks only a streak *)
(* that has been earned: as many fires in one direction as arm it, within  *)
(* the ceiling, and since then none against it and none AlphaOmega missed. *)
THEOREM CracksHaveBeenEarned == ASSUME OneFire PROVE Spec => []CracksAreEarned
<1>1. Init => OneHandled /\ StreakInv /\ CracksAreEarned
  BY InitStreak DEF Init, CracksAreEarned
<1>2. /\ TypeOK /\ OneHandled /\ StreakInv /\ CracksAreEarned /\ [Next]_vars
      => OneHandled' /\ StreakInv' /\ CracksAreEarned'
  BY OneFire, HandledNext, StreakNext, CracksNext
<1> QED
  BY <1>1, <1>2, TypeCorrect, PTL DEF Spec

-----------------------------------------------------------------------------
(* The pressure: the counts of a live position are those of the fires that *)
(* have been counted, but for the one whose handler has not come to it.    *)

Calm    == faults \cap {"closeError", "closeCancel", "crash", "read", "write"} = {}
Live(t) == position[t] # NoPosition /\ venue[t] = "open" /\ log[t] = "open"

(* Fire f has been counted, and its handler has not come to the position   *)
(* of t yet.                                                               *)
Awaits(t, f) == pc[f] = "load" \/ (pc[f] = "track" /\ \E h \in todo[f] : h.trade = t)

CountsOf(against, since) == [opposing |-> Cardinality(against), total |-> Cardinality(since)]

Bearable(t) ==
  /\ Cardinality(Against(t)) < OpposingCount
  /\ Cardinality(Since(t)) >= ShareMinFires => Cardinality(Against(t)) < Cardinality(Since(t))

Exact(t) ==
  /\ \A f \in Fires : Awaits(t, f) =>
       f \in Since(t) /\ position[t] = CountsOf(Against(t) \ {f}, Since(t) \ {f})
  /\ (\A f \in Fires : ~Awaits(t, f)) =>
       position[t] = CountsOf(Against(t), Since(t)) /\ Bearable(t)

LiveAreExact == Calm => \A t \in Trades : Live(t) => Exact(t)

(* What a handler has read of a live position is what is still there.      *)
HeldIsCurrent ==
  \A f \in Fires :
    /\ todo[f] # {} => pc[f] = "track"
    /\ \A h, k \in todo[f] : h.trade = k.trade => h = k
    /\ \A h \in todo[f] :
         Live(h.trade) => position[h.trade] = [opposing |-> h.opposing, total |-> h.total]

LEMMA PressureFinite ==
  \A t \in Trades :
    /\ IsFiniteSet(Since(t)) /\ IsFiniteSet(Against(t))
    /\ Cardinality(Since(t)) \in Nat /\ Cardinality(Against(t)) \in Nat
    /\ Cardinality(Against(t)) <= Cardinality(Since(t))
<1>1. IsFiniteSet(Fires)
  BY FS_Interval, AlphaOmegaAssumption DEF Fires
<1>2. \A t \in Trades : Since(t) \subseteq Fires /\ Against(t) \subseteq Since(t)
  BY DEF Since, Against
<1> QED
  BY <1>1, <1>2, FS_Subset, FS_CardinalityType

(* Where a position is written, and when a trade comes to live.            *)
LEMMA PositionMoves ==
  ASSUME IInv, [Next]_vars, NEW t \in Trades, position'[t] # position[t]
  PROVE  \/ position'[t] = NoPosition \/ Register(t)
         \/ \E f \in Fires : \E h \in todo[f] : CountFire(f, h) /\ h.trade = t
<1> USE TradeTyped DEF IInv, TypeOK, tables, setup, handler, closers
<1>1. CASE \E f \in Fires : Fire(f) \/ Idle(f) \/ ReadStreak(f) \/ SaveStreak(f)
  BY <1>1 DEF Fire, Idle, ReadStreak, SaveStreak
<1>2. CASE DropOrphans \/ \E f \in Fires : LoadPositions(f)
  BY <1>2, DropsMove
<1>3. ASSUME NEW f \in Fires, NEW h \in todo[f], CountFire(f, h) PROVE h.trade = t
  <2>1. h.trade \in Trades
    BY DEF Held
  <2> QED
    BY <1>3, <2>1 DEF CountFire
<1>4. CASE \E f \in Fires : NoEntry(f) \/ Enter(f) \/ Entered(f) \/ \E h \in todo[f] : Press(f, h) \/ CloseOnCrack(f, h)
  BY <1>4 DEF Press, CloseOnCrack, NoEntry, Enter, Entered, Return
<1>5. CASE \E u \in Trades : Gate(u) \/ Refuse(u) \/ Order(u) \/ Fill(u)
  BY <1>5 DEF Gate, Refuse, Order, Fill
<1>6. ASSUME NEW u \in Trades, Register(u) PROVE u = t
  BY <1>6 DEF Register
<1>7. CASE \E u \in Trades : HardStop(u) \/ VenueExit(u) \/ Finalize(u)
  BY <1>7 DEF HardStop, VenueExit, Finalize
<1>8. CASE \E k \in Closers, u \in Trades : Tag(k, u)
  BY <1>8 DEF Tag
<1>9. ASSUME NEW k \in Closers, NEW u \in Trades, Clear(k, u) PROVE position'[t] = NoPosition
  BY <1>9 DEF Clear
<1>10. CASE Switch \/ Crash \/ UNCHANGED vars
  BY <1>10 DEF Switch, Crash, vars
<1> QED
  BY <1>1, <1>2, <1>3, <1>4, <1>5, <1>6, <1>7, <1>8, <1>9, <1>10 DEF Next, Track, Place

LEMMA VenueMoves ==
  ASSUME IInv, [Next]_vars, NEW t \in Trades, venue'[t] = "open", venue[t] # "open"
  PROVE  Early(t)'
<1> USE TradeTyped DEF IInv, TypeOK, tables, setup, handler, closers
<1>1. CASE \E f \in Fires : Fire(f) \/ Idle(f) \/ ReadStreak(f) \/ SaveStreak(f) \/ LoadPositions(f)
  BY <1>1 DEF Fire, Idle, ReadStreak, SaveStreak, LoadPositions
<1>2. CASE \E f \in Fires : NoEntry(f) \/ Enter(f) \/ Entered(f) \/ \E h \in todo[f] : CountFire(f, h)
  BY <1>2 DEF CountFire, NoEntry, Enter, Entered, Return
<1>3. ASSUME NEW f \in Fires, NEW h \in todo[f], Press(f, h) \/ CloseOnCrack(f, h) PROVE FALSE
  <2>1. h.trade \in Trades
    BY DEF Held
  <2> QED
    BY <1>3, <2>1 DEF Press, CloseOnCrack, CloseAt
<1>4. CASE \E u \in Trades : Gate(u) \/ Refuse(u) \/ Fill(u) \/ Register(u)
  BY <1>4 DEF Gate, Refuse, Fill, Register
<1>5. ASSUME NEW u \in Trades, Order(u) PROVE Early(t)'
  BY <1>5 DEF Order, Move, Early
<1>6. CASE \E u \in Trades : HardStop(u) \/ VenueExit(u) \/ Finalize(u)
  BY <1>6 DEF HardStop, VenueExit, Finalize, CloseAt
<1>7. CASE \E k \in Closers, u \in Trades : Tag(k, u) \/ Clear(k, u)
  BY <1>7 DEF Tag, Clear
<1>8. CASE DropOrphans \/ Switch \/ Crash \/ UNCHANGED vars
  BY <1>8 DEF DropOrphans, Switch, Crash, vars
<1> QED
  BY <1>1, <1>2, <1>3, <1>4, <1>5, <1>6, <1>7, <1>8 DEF Next, Track, Place

LEMMA LiveGrows ==
  ASSUME IInv, [Next]_vars, NEW t \in Trades, Live(t)'
  PROVE  \/ Register(t)
         \/ Live(t) /\ position'[t] = position[t]
         \/ Live(t) /\ \E f \in Fires : \E h \in todo[f] : CountFire(f, h) /\ h.trade = t
<1>1. IInv'
  BY StepInductive
<1>2. ~Early(t)'
  BY <1>1 DEF Live, IInv, EarlyIsUnseen
<1>3. venue[t] = "open"
  BY <1>2, VenueMoves DEF Live
<1>4. ~Register(t) => position[t] # NoPosition
  BY PositionMoves DEF Live, CountFire
<1>5. ~Register(t) => ~Early(t)
  BY <1>4 DEF IInv, EarlyIsUnseen
<1>6. ~Register(t) => log[t] = "open"
  BY <1>5, LogMoves DEF Live
<1> QED
  BY <1>3, <1>4, <1>6, PositionMoves DEF Live

PressInv == HeldIsCurrent /\ LiveAreExact

(* Nobody handles a fire with the entry of a trade but its own handler.    *)
LEMMA LiveIsEarlier ==
  ASSUME IInv, NEW t \in Trades, position[t] # NoPosition
  PROVE  t.fire \in Fires /\ pc[t.fire] \in {"enter", "done"}
BY TradeTyped DEF IInv, TypeOK, EntryInOrder, EarlyIsUnseen, Early

LEMMA RegisterIsAlone ==
  ASSUME IInv, OneHandled, NEW t \in Trades, Register(t)
  PROVE  \A f \in Fires : pc[f] \notin {"observe", "save", "load", "track"}
<1>1. pc[t.fire] = "enter" /\ t.fire \in Fires
  BY TradeTyped DEF IInv, EntryInOrder, Register
<1> QED
  BY <1>1 DEF OneHandled, InFlight

(* The fires that press on a trade change only when one is counted.        *)
LEMMA PressureStays ==
  ASSUME TypeOK, FatesInOrder, [Next]_vars, ~ \E f \in Fires : SaveStreak(f),
         NEW t \in Trades, pc[t.fire] # "new"
  PROVE  Since(t)' = Since(t) /\ Against(t)' = Against(t)
<1>1. \A f \in Fires : fate'[f] = "counted" <=> fate[f] = "counted"
  BY FireMoves DEF FatesInOrder, Fire, Idle, ReadStreak, TypeOK
<1>2. \A f \in Fires : pc[f] # "new" => fire'[f] = fire[f]
  BY FireMoves DEF Fire, Idle, ReadStreak, TypeOK
<1>3. fire'[t.fire] = fire[t.fire]
  BY <1>2, TradeTyped
<1>4. \A f \in Fires : fate[f] = "counted" => fire'[f] = fire[f]
  BY <1>2 DEF FatesInOrder
<1> QED
  BY <1>1, <1>3, <1>4 DEF Since, Against

(* A step that neither counts a fire nor moves on past t leaves t exact.   *)
LEMMA ExactStays ==
  ASSUME IInv, FatesInOrder, [Next]_vars, ~ \E f \in Fires : SaveStreak(f),
         NEW t \in Trades, Live(t), position'[t] = position[t], Exact(t),
         \A f \in Fires : Awaits(t, f)' <=> Awaits(t, f)
  PROVE  Exact(t)'
<1>1. Since(t)' = Since(t) /\ Against(t)' = Against(t)
  BY LiveIsEarlier, PressureStays DEF IInv, Live
<1> QED
  BY <1>1 DEF Exact, Bearable, CountsOf

LEMMA ExactRegistered ==
  ASSUME IInv, Calm, OneHandled, FiresInOrder, FatesInOrder, [Next]_vars, NEW t \in Trades, Register(t)
  PROVE  Exact(t)'
<1> USE DEF IInv, TypeOK, handler
<1>1. pc[t.fire] = "enter" /\ t.fire \in Fires /\ UNCHANGED <<pc, fate, fire, todo>>
  BY TradeTyped DEF EntryInOrder, Register
<1>2. \A f \in Fires : f > t.fire => pc[f] = "new" /\ fate[f] = "none"
  BY <1>1 DEF FiresInOrder, FatesInOrder, Fires
<1>3. Since(t)' = {} /\ Against(t)' = {}
  BY <1>1, <1>2 DEF Since, Against
<1>4. \A f \in Fires : ~Awaits(t, f)'
  BY <1>1, RegisterIsAlone DEF Awaits
<1>5. position'[t] = CountsOf({}, {})
  BY FS_EmptySet DEF Register, CountsOf, Calm
<1>6. Bearable(t)'
  BY <1>3, FS_EmptySet, AlphaOmegaAssumption DEF Bearable
<1> QED
  BY <1>3, <1>4, <1>5, <1>6 DEF Exact

LEMMA ExactSaved ==
  ASSUME IInv, OneHandled, FiresInOrder, FatesInOrder, NEW f \in Fires, SaveStreak(f),
         NEW t \in Trades, Live(t), Exact(t)
  PROVE  Exact(t)'
<1> USE DEF IInv, TypeOK
<1>1. /\ pc[f] = "save" /\ pc' = [pc EXCEPT ![f] = "load"] /\ fate' = [fate EXCEPT ![f] = "counted"]
      /\ UNCHANGED <<fire, todo, position>> /\ fate[f] = "none"
  BY DEF SaveStreak, FatesInOrder
<1>2. \A g \in Fires : g # f => pc[g] \in {"new", "done"}
  BY <1>1 DEF OneHandled, InFlight
<1>3. \A g \in Fires : ~Awaits(t, g)
  BY <1>1, <1>2 DEF Awaits
<1>4. \A g \in Fires : Awaits(t, g)' <=> g = f
  BY <1>1, <1>2 DEF Awaits
<1>5. t.fire < f
  BY <1>1, <1>2, LiveIsEarlier DEF Live, FiresInOrder, Fires
<1>6. f \in Since(t)' /\ Since(t)' \ {f} = Since(t)
  BY <1>1, <1>5 DEF Since
<1>7. Against(t)' \ {f} = Against(t)
  BY <1>1, <1>5 DEF Against
<1>8. position'[t] = CountsOf(Against(t)' \ {f}, Since(t)' \ {f})
  BY <1>1, <1>3, <1>6, <1>7 DEF Exact
<1> QED
  BY <1>4, <1>6, <1>8 DEF Exact

LEMMA OneFewer ==
  ASSUME NEW t \in Trades, NEW f \in Fires
  PROVE  /\ f \in Since(t) => Cardinality(Since(t) \ {f}) = Cardinality(Since(t)) - 1
         /\ f \in Against(t) => Cardinality(Against(t) \ {f}) = Cardinality(Against(t)) - 1
<1>1. IsFiniteSet(Since(t)) /\ IsFiniteSet(Against(t))
  BY PressureFinite
<1> QED
  BY <1>1, FS_RemoveElement

LEMMA ExactCounted ==
  ASSUME IInv, Calm, OneHandled, FatesInOrder, HeldIsCurrent, [Next]_vars, NEW f \in Fires, NEW h \in todo[f],
         CountFire(f, h), Live(h.trade), Exact(h.trade)
  PROVE  Exact(h.trade)'
<1> DEFINE t == h.trade
<1> USE DEF IInv, TypeOK
<1>1. /\ t \in Trades /\ pc[f] = "track" /\ todo' = [todo EXCEPT ![f] = @ \ {h}] /\ UNCHANGED <<pc, fate, fire>>
      /\ h.opposing \in Nat /\ h.total \in Nat
  BY DEF CountFire, Ready, Held
<1>2. Awaits(t, f) /\ f \in Since(t) /\ position[t] = CountsOf(Against(t) \ {f}, Since(t) \ {f})
  BY <1>1 DEF Awaits, Exact
<1>3. position[t] = [opposing |-> h.opposing, total |-> h.total]
  BY DEF HeldIsCurrent
<1>4. h.opposing = Cardinality(Against(t) \ {f}) /\ h.total = Cardinality(Since(t) \ {f})
  <2>1. position[t].opposing = Cardinality(Against(t) \ {f}) /\ position[t].total = Cardinality(Since(t) \ {f})
    BY <1>2 DEF CountsOf
  <2>2. position[t].opposing = h.opposing /\ position[t].total = h.total
    BY <1>3
  <2> QED
    BY <2>1, <2>2
<1>5. h.total + 1 = Cardinality(Since(t))
  <2>1. IsFiniteSet(Since(t)) /\ Cardinality(Since(t)) \in Nat
    BY <1>1, PressureFinite
  <2>2. Cardinality(Since(t) \ {f}) = Cardinality(Since(t)) - 1
    BY <1>1, <1>2, OneFewer
  <2> QED
    BY <1>4, <2>1, <2>2
<1>6. Opposing(f, h) = Cardinality(Against(t))
  <2>1. CASE Opposes(f, h)
    <3>1. f \in Against(t)
      BY <1>2, <2>1 DEF Opposes, Since, Against
    <3>2. IsFiniteSet(Against(t)) /\ Cardinality(Against(t)) \in Nat
      BY <1>1, PressureFinite
    <3>3. Cardinality(Against(t) \ {f}) = Cardinality(Against(t)) - 1
      BY <1>1, <3>1, OneFewer
    <3> QED
      BY <1>4, <2>1, <3>2, <3>3 DEF Opposing
  <2>2. CASE ~Opposes(f, h)
    <3>1. Against(t) \ {f} = Against(t)
      BY <2>2 DEF Opposes, Against
    <3> QED
      BY <1>4, <2>2, <3>1 DEF Opposing
  <2> QED
    BY <2>1, <2>2
<1>7. Since(t)' = Since(t) /\ Against(t)' = Against(t)
  BY <1>1 DEF Since, Against
<1>8. position'[t] = CountsOf(Against(t)', Since(t)')
  BY <1>1, <1>5, <1>6, <1>7 DEF CountFire, Counted, CountsOf, Live, Calm
<1>9. Bearable(t)'
  <2>f. /\ Cardinality(Against(t)) \in Nat /\ Cardinality(Since(t)) \in Nat
        /\ Cardinality(Against(t)) <= Cardinality(Since(t))
        /\ OpposingCount \in Nat /\ ShareMinFires \in Nat
    BY <1>1, PressureFinite, AlphaOmegaAssumption
  <2>g. /\ ~(Opposing(f, h) >= OpposingCount)
        /\ ~(h.total + 1 >= ShareMinFires /\ Opposing(f, h) = h.total + 1)
    BY DEF CountFire, Pressed
  <2>1. Cardinality(Against(t)) < OpposingCount
    BY <1>6, <2>f, <2>g
  <2>h. ~(Cardinality(Since(t)) >= ShareMinFires /\ Cardinality(Against(t)) = Cardinality(Since(t)))
    BY <1>5, <1>6, <2>g
  <2>2. Cardinality(Since(t)) >= ShareMinFires => Cardinality(Against(t)) < Cardinality(Since(t))
    <3> HIDE DEF IInv, TypeOK
    <3> QED
      BY <2>f, <2>h
  <2> QED
    BY <1>7, <2>1, <2>2 DEF Bearable
<1>10. \A g \in Fires : ~Awaits(t, g)'
  <2>1. \A g \in Fires : g # f => pc[g] \notin {"load", "track"}
    BY <1>1 DEF OneHandled, InFlight
  <2>2. \A k \in todo'[f] : k.trade # t
    BY <1>1 DEF HeldIsCurrent
  <2> QED
    BY <1>1, <2>1, <2>2 DEF Awaits
<1> QED
  BY <1>8, <1>9, <1>10 DEF Exact

(* How the positions a handler has still to look at change.                *)
LEMMA TodoMoves ==
  ASSUME TypeOK, HeldIsCurrent, [Next]_vars, NEW f \in Fires
  PROVE  \/ LoadPositions(f)
         \/ pc'[f] = pc[f] /\ todo'[f] = todo[f]
         \/ todo[f] = {} /\ todo'[f] = {} /\ pc[f] # "load" /\ (pc'[f] # "load" \/ SaveStreak(f))
         \/ /\ pc[f] = "track" /\ pc'[f] = "track"
            /\ \E h \in todo[f] :
                 /\ todo'[f] = todo[f] \ {h}
                 /\ Press(f, h) \/ CloseOnCrack(f, h) \/ CountFire(f, h)
         \/ Crash /\ todo'[f] = {}
<1> USE DEF TypeOK, HeldIsCurrent, tables, setup, handler, closers
<1>1. CASE \E g \in Fires : Fire(g) \/ Idle(g) \/ ReadStreak(g) \/ SaveStreak(g)
  BY <1>1 DEF Fire, Idle, ReadStreak, SaveStreak
<1>2. ASSUME NEW g \in Fires, LoadPositions(g)
      PROVE  LoadPositions(f) \/ (pc'[f] = pc[f] /\ todo'[f] = todo[f])
  <2>1. CASE g # f
    <3>1. PICK S : todo' = [todo EXCEPT ![g] = S]
      BY <1>2, LoadsHold
    <3> QED
      BY <1>2, <2>1, <3>1 DEF LoadPositions
  <2> QED
    BY <1>2, <2>1
<1>3. ASSUME NEW g \in Fires, NEW h \in todo[g], Press(g, h) \/ CloseOnCrack(g, h) \/ CountFire(g, h)
      PROVE  \/ pc'[f] = pc[f] /\ todo'[f] = todo[f]
             \/ f = g /\ pc[f] = "track" /\ pc'[f] = "track" /\ todo'[f] = todo[f] \ {h}
  BY <1>3 DEF Press, CloseOnCrack, CountFire, Ready
<1>4. CASE \E g \in Fires : NoEntry(g) \/ Enter(g) \/ Entered(g)
  BY <1>4 DEF NoEntry, Enter, Entered, Return, Tracked
<1>5. CASE \E t \in Trades : Place(t)
  BY <1>5 DEF Place, Gate, Refuse, Order, Fill, Register
<1>6. CASE \E t \in Trades : HardStop(t) \/ VenueExit(t) \/ Finalize(t)
  BY <1>6 DEF HardStop, VenueExit, Finalize
<1>7. CASE \E k \in Closers, t \in Trades : Tag(k, t) \/ Clear(k, t)
  BY <1>7 DEF Tag, Clear
<1>8. CASE DropOrphans \/ Switch \/ UNCHANGED vars
  BY <1>8 DEF DropOrphans, Switch, vars
<1>9. CASE Crash
  BY <1>9 DEF Crash
<1> QED
  BY <1>1, <1>2, <1>3, <1>4, <1>5, <1>6, <1>7, <1>8, <1>9 DEF Next, Track

LEMMA LoadedIsCurrent ==
  ASSUME IInv, NEW f \in Fires, LoadPositions(f)
  PROVE  /\ pc'[f] = "track"
         /\ \A h, k \in todo'[f] : h.trade = k.trade => h = k
         /\ \A h \in todo'[f] :
              Live(h.trade)' => position'[h.trade] = [opposing |-> h.opposing, total |-> h.total]
<1> USE DEF IInv, TypeOK
<1>1. pc'[f] = "track" /\ log' = log
  BY DEF LoadPositions
<1>2. PICK S \in SUBSET Stored : todo' = [todo EXCEPT ![f] = Loaded(S)]
  BY LoadsHold
<1>3. todo'[f] = {[trade |-> t, opposing |-> position[t].opposing, total |-> position[t].total] : t \in S}
  BY <1>2 DEF Loaded
<1>4. \A h, k \in todo'[f] : h.trade = k.trade => h = k
  BY <1>3
<1>5. ASSUME NEW h \in todo'[f], Live(h.trade)'
      PROVE  position'[h.trade] = [opposing |-> h.opposing, total |-> h.total]
  <2>1. PICK t \in S : h = [trade |-> t, opposing |-> position[t].opposing, total |-> position[t].total]
    BY <1>3
  <2>2. t \in Stored /\ t \notin Orphans
    BY <1>1, <1>5, <2>1 DEF Live, Orphans
  <2>3. position'[t] = position[t]
    BY <2>2, DropsMove DEF Stored
  <2>4. position[t] \in Counts
    BY <2>2 DEF Stored
  <2> QED
    BY <2>1, <2>3, <2>4 DEF Counts
<1> QED
  BY <1>1, <1>4, <1>5

(* A load that does not fail leaves no live position out.                  *)
LEMMA LiveIsLoaded ==
  ASSUME IInv, Calm, NEW f \in Fires, LoadPositions(f), NEW t \in Trades, Live(t)
  PROVE  \E h \in todo'[f] : h.trade = t
<1>1. PICK kept \in KeptBy : todo' = [todo EXCEPT ![f] = Loaded((Stored \ Orphans) \cup kept)]
  BY DEF LoadPositions, Calm
<1>2. todo'[f] = Loaded((Stored \ Orphans) \cup kept)
  BY <1>1 DEF IInv, TypeOK
<1>3. t \in (Stored \ Orphans) \cup kept
  BY DEF Live, Stored, Orphans
<1> DEFINE h == [trade |-> t, opposing |-> position[t].opposing, total |-> position[t].total]
<1>4. h \in todo'[f] /\ h.trade = t
  BY <1>2, <1>3 DEF Loaded
<1> QED
  BY <1>4

LEMMA HeldNext ==
  ASSUME IInv, OneHandled, HeldIsCurrent, [Next]_vars
  PROVE  HeldIsCurrent'
<1> SUFFICES ASSUME NEW f \in Fires
             PROVE  /\ todo'[f] # {} => pc'[f] = "track"
                    /\ \A h, k \in todo'[f] : h.trade = k.trade => h = k
                    /\ \A h \in todo'[f] : Live(h.trade)' =>
                         position'[h.trade] = [opposing |-> h.opposing, total |-> h.total]
  BY DEF HeldIsCurrent
<1>1. CASE LoadPositions(f)
  BY <1>1, LoadedIsCurrent
<1>2. CASE todo'[f] = {}
  BY <1>2
<1>3. ASSUME ~LoadPositions(f), NEW k \in todo'[f], Live(k.trade)'
      PROVE  position'[k.trade] = [opposing |-> k.opposing, total |-> k.total]
  <2>1. k \in todo[f] /\ pc[f] = "track"
    BY <1>3, TodoMoves DEF IInv, HeldIsCurrent
  <2>2. k.trade \in Trades
    BY <2>1 DEF IInv, TypeOK, Held
  <2>3. ~Register(k.trade)
    BY <2>1, <2>2, RegisterIsAlone
  <2>4. ASSUME NEW g \in Fires, NEW h \in todo[g], CountFire(g, h), h.trade = k.trade PROVE FALSE
    <3>1. g = f
      BY <2>1, <2>4 DEF CountFire, Ready, OneHandled, InFlight
    <3>2. h = k /\ todo'[f] = todo[f] \ {h}
      BY <2>1, <2>4, <3>1 DEF HeldIsCurrent, CountFire, IInv, TypeOK
    <3> QED
      BY <1>3, <3>2
  <2>5. Live(k.trade) /\ position'[k.trade] = position[k.trade]
    BY <1>3, <2>2, <2>3, <2>4, LiveGrows
  <2> QED
    BY <2>1, <2>5 DEF HeldIsCurrent
<1>4. CASE ~LoadPositions(f) /\ todo'[f] # {}
  <2>1. todo'[f] \subseteq todo[f] /\ pc'[f] = "track"
    BY <1>4, TodoMoves DEF IInv, HeldIsCurrent
  <2> QED
    BY <1>3, <1>4, <2>1 DEF HeldIsCurrent
<1> QED
  BY <1>1, <1>2, <1>4

(* While nothing fails, a handler moves on past a live position only by    *)
(* counting its fire.                                                      *)
LEMMA AwaitsStays ==
  ASSUME IInv, HeldIsCurrent, Calm, [Next]_vars, NEW t \in Trades, Live(t), Live(t)',
         NEW f \in Fires, ~SaveStreak(f), ~ \E h \in todo[f] : CountFire(f, h) /\ h.trade = t
  PROVE  Awaits(t, f)' <=> Awaits(t, f)
<1> USE DEF IInv
<1>1. CASE LoadPositions(f)
  BY <1>1, LoadedIsCurrent, LiveIsLoaded DEF Awaits, LoadPositions
<1>2. CASE Crash
  BY <1>2 DEF Crash, Calm
<1>3. ASSUME NEW h \in todo[f], pc[f] = "track", pc'[f] = "track", todo'[f] = todo[f] \ {h},
             Press(f, h) \/ CloseOnCrack(f, h) \/ CountFire(f, h)
      PROVE  Awaits(t, f)' <=> Awaits(t, f)
  <2>1. ASSUME h.trade = t PROVE FALSE
    <3>1. CloseAt(f, t)
      BY <1>3, <2>1 DEF Press, CloseOnCrack
    <3>2. venue'[t] = "closed"
      BY <3>1 DEF CloseAt, Calm, Live, TypeOK
    <3> QED
      BY <3>2 DEF Live
  <2> QED
    BY <1>3, <2>1 DEF Awaits
<1>4. CASE pc'[f] = pc[f] /\ todo'[f] = todo[f]
  BY <1>4 DEF Awaits
<1>5. CASE todo[f] = {} /\ todo'[f] = {} /\ pc[f] # "load" /\ pc'[f] # "load"
  BY <1>5 DEF Awaits
<1> QED
  BY <1>1, <1>2, <1>3, <1>4, <1>5, TodoMoves

LEMMA LiveNext ==
  ASSUME IInv, OneHandled, FiresInOrder, FatesInOrder, PressInv, [Next]_vars
  PROVE  LiveAreExact'
<1> SUFFICES ASSUME Calm, NEW t \in Trades, Live(t)' PROVE Exact(t)'
  BY FaultsStay DEF LiveAreExact, Calm
<1> USE DEF PressInv
<1>1. CASE Register(t)
  BY <1>1, ExactRegistered
<1>2. CASE Live(t) /\ \E f \in Fires : \E h \in todo[f] : CountFire(f, h) /\ h.trade = t
  BY <1>2, ExactCounted DEF LiveAreExact
<1>3. ASSUME Live(t), NEW f \in Fires, SaveStreak(f) PROVE Exact(t)'
  BY <1>3, ExactSaved DEF LiveAreExact
<1>4. CASE /\ Live(t) /\ position'[t] = position[t]
           /\ ~ \E f \in Fires : SaveStreak(f) \/ \E h \in todo[f] : CountFire(f, h) /\ h.trade = t
  <2>1. \A f \in Fires : Awaits(t, f)' <=> Awaits(t, f)
    BY <1>4, AwaitsStays
  <2> QED
    BY <1>4, <2>1, ExactStays DEF LiveAreExact
<1> QED
  BY <1>1, <1>2, <1>3, <1>4, LiveGrows

(* With one fire handled at a time, and while no close, read or write      *)
(* fails, no close is cancelled and the process lives, the counts kept of  *)
(* an open trade are between fires those of all the fires since its entry, *)
(* and short of what closes it.                                            *)
THEOREM PressureStaysExact == ASSUME OneFire PROVE Spec => []PressureIsExact
<1>1. Init => OneHandled /\ StreakInv /\ PressInv
  <2>1. Init => OneHandled /\ StreakInv
    BY InitStreak
  <2>2. Init => PressInv
    BY DEF Init, PressInv, HeldIsCurrent, LiveAreExact, Live
  <2> QED
    BY <2>1, <2>2
<1>2. IInv /\ OneHandled /\ StreakInv /\ PressInv /\ [Next]_vars => OneHandled' /\ StreakInv' /\ PressInv'
  BY OneFire, HandledNext, StreakNext, HeldNext, LiveNext DEF IInv, StreakInv, PressInv
<1>3. PressInv => PressureIsExact
  <2> SUFFICES ASSUME PressInv, InFlight = {}, Calm, NEW t \in Stored, venue[t] = "open", log[t] = "open"
               PROVE  /\ position[t] = [opposing |-> Cardinality(Against(t)), total |-> Cardinality(Since(t))]
                      /\ Cardinality(Against(t)) < OpposingCount
                      /\ Cardinality(Since(t)) >= ShareMinFires
                           => Cardinality(Against(t)) < Cardinality(Since(t))
    BY DEF PressureIsExact, Calm
  <2>1. t \in Trades /\ Live(t)
    BY DEF Stored, Live
  <2>2. \A f \in Fires : ~Awaits(t, f)
    BY DEF Awaits, InFlight
  <2> QED
    BY <2>1, <2>2 DEF PressInv, LiveAreExact, Exact, Bearable, CountsOf
<1> QED
  BY <1>1, <1>2, <1>3, AlwaysIInv, PTL DEF Spec
-----------------------------------------------------------------------------
-----------------------------------------------------------------------------
(* The ledger.  Honest: no close request is answered by a cancellation,    *)
(* for then the close of an open trade is logged.                          *)
Honest == \A F \in FaultSets : "closeCancel" \notin F

(* What a position, a handler or a closer knows of has been filled, and    *)
(* what is closed in the log, or about to be, has ended.                   *)
KnownIsFilled ==
  \A t \in Trades :
    /\ step[t] \in {"fill", "register"} => venue[t] # "none"
    /\ log[t] \in {"open", "closed", "tagged"} => venue[t] # "none"
    /\ position[t] # NoPosition => venue[t] # "none"
    /\ \A f \in Fires : \A h \in todo[f] : h.trade = t => venue[t] # "none"

LoggedHasEnded ==
  \A t \in Trades :
    /\ log[t] \in {"closed", "tagged"} => venue[t] = "closed"
    /\ \A k \in Closers : t \in tagging[k] => venue[t] = "closed"

(* What a step may do to the row and the venue of its one trade.           *)
Places(t)  == log[t] = "none" /\ log'[t] = "pending" /\ venue[t] = "none" /\ venue'[t] = "none"
Orders(t)  == log[t] = "pending" /\ log'[t] = "pending" /\ venue[t] = "none" /\ venue'[t] = "open"
Blocks(t)  == log[t] = "pending" /\ log'[t] = "blocked" /\ venue[t] = "none" /\ venue'[t] = "none"
Records(t) == log[t] = "pending" /\ log'[t] = "open" /\ venue[t] # "none" /\ venue'[t] = venue[t]
Ends(t)    == log'[t] = log[t] /\ venue[t] = "open" /\ venue'[t] = "closed"
Settles(t) == log'[t] \in {"closed", "tagged"} /\ venue[t] = "closed" /\ venue'[t] = "closed"

Moves(t) == Places(t) \/ Orders(t) \/ Blocks(t) \/ Records(t) \/ Ends(t) \/ Settles(t)
Only(t) == \A u \in Trades : u # t => venue'[u] = venue[u] /\ log'[u] = log[u]

LEMMA CloseMoves ==
  ASSUME TypeOK, NEW k \in Closers, NEW t \in Trades, CloseAt(k, t), venue[t] # "none",
         log' = log
  PROVE  UNCHANGED <<venue, log>> \/ (Only(t) /\ Moves(t))
<1>1. venue' = venue \/ venue' = [venue EXCEPT ![t] = "closed"]
  BY DEF CloseAt
<1>2. venue[t] \in {"open", "closed"} /\ venue \in [Trades -> {"none", "open", "closed"}]
  BY DEF TypeOK
<1>3. CASE venue[t] = "closed"
  BY <1>1, <1>2, <1>3
<1>4. CASE venue[t] = "open" /\ venue' = [venue EXCEPT ![t] = "closed"]
  BY <1>2, <1>4 DEF Only, Moves, Ends
<1> QED
  BY <1>1, <1>2, <1>3, <1>4

LEMMA OneMoves ==
  ASSUME IInv, KnownIsFilled, LoggedHasEnded, [Next]_vars
  PROVE  UNCHANGED <<venue, log>> \/ \E t \in Trades : Only(t) /\ Moves(t)
<1> USE DEF tables, setup, handler, closers
<1>1. TypeOK /\ EntryInOrder /\ log \in [Trades -> {"none", "pending", "blocked", "open", "closed", "tagged"}]
      /\ venue \in [Trades -> {"none", "open", "closed"}]
  BY DEF IInv, TypeOK
<1>2. ASSUME NEW f \in Fires, NEW h \in todo[f], Press(f, h) \/ CloseOnCrack(f, h)
      PROVE  UNCHANGED <<venue, log>> \/ \E t \in Trades : Only(t) /\ Moves(t)
  <2>1. f \in Closers /\ h.trade \in Trades
    BY <1>1, HeldIsLate DEF Closers, IInv
  <2>2. venue[h.trade] # "none" /\ CloseAt(f, h.trade) /\ log' = log
    BY <1>2, <2>1 DEF KnownIsFilled, Press, CloseOnCrack
  <2> QED
    BY <1>1, <2>1, <2>2, CloseMoves
<1>3. ASSUME NEW t \in Trades, HardStop(t)
      PROVE  UNCHANGED <<venue, log>> \/ (Only(t) /\ Moves(t))
  <2>1. HardStopMonitor \in Closers
    BY DEF Closers, Monitors
  <2>2. venue[t] # "none" /\ CloseAt(HardStopMonitor, t) /\ log' = log
    BY <1>3 DEF KnownIsFilled, HardStop, Stored
  <2> QED
    BY <1>1, <2>1, <2>2, CloseMoves
<1>4. ASSUME NEW t \in Trades, VenueExit(t) PROVE Only(t) /\ Moves(t)
  BY <1>1, <1>4 DEF VenueExit, Only, Moves, Ends
<1>5. ASSUME NEW t \in Trades, Finalize(t) PROVE Only(t) /\ Moves(t)
  BY <1>1, <1>5 DEF Finalize, Only, Moves, Settles
<1>6. ASSUME NEW t \in Trades, NEW k \in Closers, Tag(k, t)
      PROVE  UNCHANGED <<venue, log>> \/ (Only(t) /\ Moves(t))
  <2>1. venue[t] = "closed" /\ venue' = venue
    BY <1>6 DEF Tag, LoggedHasEnded
  <2>2. log' = log \/ log' = [log EXCEPT ![t] = "tagged"]
    BY <1>6 DEF Tag
  <2> QED
    BY <1>1, <2>1, <2>2 DEF Only, Moves, Settles
<1>7. ASSUME NEW t \in Trades, Gate(t) PROVE Only(t) /\ Moves(t)
  BY <1>1, <1>7 DEF Gate, EntryInOrder, Only, Moves, Places
<1>8. ASSUME NEW t \in Trades, Order(t) PROVE Only(t) /\ Moves(t)
  BY <1>1, <1>8 DEF Order, EntryInOrder, Only, Moves, Orders, Blocks
<1>9. ASSUME NEW t \in Trades, Fill(t) PROVE Only(t) /\ Moves(t)
  BY <1>1, <1>9 DEF Fill, EntryInOrder, KnownIsFilled, Only, Moves, Records
<1>10. CASE \E t \in Trades : Refuse(t) \/ Register(t) \/ \E k \in Closers : Clear(k, t)
  BY <1>10 DEF Refuse, Register, Clear
<1>11. CASE \E f \in Fires : \/ Fire(f) \/ Idle(f) \/ ReadStreak(f) \/ SaveStreak(f)
                             \/ LoadPositions(f) \/ NoEntry(f) \/ Enter(f) \/ Entered(f)
                             \/ \E h \in todo[f] : CountFire(f, h)
  BY <1>11 DEF Fire, Idle, ReadStreak, SaveStreak, LoadPositions, NoEntry, Enter, Entered, Return,
     CountFire
<1>12. CASE DropOrphans \/ Switch \/ Crash \/ UNCHANGED vars
  BY <1>12 DEF DropOrphans, Switch, Crash, vars
<1> QED
  BY <1>2, <1>3, <1>4, <1>5, <1>6, <1>7, <1>8, <1>9, <1>10, <1>11, <1>12 DEF Next, Track, Place

(* So what is filled stays filled, and what has ended stays ended.         *)
LEMMA VenueGoesOn ==
  ASSUME IInv, KnownIsFilled, LoggedHasEnded, [Next]_vars, NEW t \in Trades
  PROVE  /\ venue[t] # "none" => venue'[t] # "none"
         /\ venue[t] = "closed" => venue'[t] = "closed"
BY OneMoves DEF Only, Moves, Places, Orders, Blocks, Records, Ends, Settles

(* Who gets to know of a trade.                                            *)
LEMMA PositionGrows ==
  ASSUME IInv, [Next]_vars, NEW t \in Trades, position'[t] # NoPosition
  PROVE  position[t] # NoPosition \/ step[t] = "register"
<1> USE TradeTyped DEF tables, setup, handler, closers
<1>1. TypeOK
  BY DEF IInv
<1>2. CASE DropOrphans \/ \E f \in Fires : LoadPositions(f)
  BY <1>2 DEF DropOrphans, LoadPositions, Dropped
<1>3. ASSUME NEW f \in Fires, NEW h \in todo[f], CountFire(f, h)
      PROVE  position[t] # NoPosition
  <2>1. CASE position[h.trade] = NoPosition
    BY <1>3, <2>1 DEF CountFire
  <2>2. CASE position[h.trade] # NoPosition
    BY <1>1, <1>3, <2>2 DEF CountFire, TypeOK
  <2> QED
    BY <2>1, <2>2
<1>4. ASSUME NEW k \in Closers, NEW u \in Trades, Tag(k, u) \/ Clear(k, u)
      PROVE  position[t] # NoPosition
  BY <1>1, <1>4 DEF Tag, Clear, TypeOK
<1>5. ASSUME NEW u \in Trades, Register(u) PROVE position[t] # NoPosition \/ step[t] = "register"
  BY <1>1, <1>5 DEF Register, TypeOK
<1>6. CASE \E u \in Trades : \/ Gate(u) \/ Refuse(u) \/ Order(u) \/ Fill(u)
                             \/ HardStop(u) \/ VenueExit(u) \/ Finalize(u)
  BY <1>6 DEF Gate, Refuse, Order, Fill, HardStop, VenueExit, Finalize
<1>7. CASE \E f \in Fires : \/ Fire(f) \/ Idle(f) \/ ReadStreak(f) \/ SaveStreak(f)
                            \/ NoEntry(f) \/ Enter(f) \/ Entered(f)
                            \/ \E h \in todo[f] : Press(f, h) \/ CloseOnCrack(f, h)
  BY <1>7 DEF Fire, Idle, ReadStreak, SaveStreak, NoEntry, Enter, Entered, Return, Press,
     CloseOnCrack
<1>8. CASE Switch \/ Crash \/ UNCHANGED vars
  BY <1>8 DEF Switch, Crash, vars
<1> QED
  BY <1>2, <1>3, <1>4, <1>5, <1>6, <1>7, <1>8 DEF Next, Track, Place

LEMMA HeldGrows ==
  ASSUME IInv, [Next]_vars, NEW f \in Fires, NEW h \in todo'[f]
  PROVE  h \in todo[f] \/ (h.trade \in Trades /\ position[h.trade] # NoPosition)
<1> USE TradeTyped DEF tables, setup, handler, closers
<1>1. TypeOK
  BY DEF IInv
<1>2. ASSUME NEW g \in Fires, LoadPositions(g)
      PROVE  h \in todo[f] \/ (h.trade \in Trades /\ position[h.trade] # NoPosition)
  <2>1. PICK S \in SUBSET Stored : todo' = [todo EXCEPT ![g] = Loaded(S)]
    BY <1>1, <1>2, LoadsHold
  <2>2. \A i \in Loaded(S) : i.trade \in Stored
    BY DEF Loaded
  <2> QED
    BY <1>1, <2>1, <2>2 DEF Stored, TypeOK
<1>3. ASSUME NEW g \in Fires, NEW i \in todo[g], Press(g, i) \/ CloseOnCrack(g, i) \/ CountFire(g, i)
      PROVE  h \in todo[f]
  BY <1>1, <1>3 DEF Press, CloseOnCrack, CountFire, TypeOK
<1>4. CASE todo' = todo
  BY <1>4
<1>5. CASE Crash
  BY <1>5 DEF Crash
<1>6. CASE \E g \in Fires : \/ Fire(g) \/ Idle(g) \/ ReadStreak(g) \/ SaveStreak(g)
                            \/ NoEntry(g) \/ Enter(g) \/ Entered(g)
  BY <1>4, <1>6 DEF Fire, Idle, ReadStreak, SaveStreak, NoEntry, Enter, Entered, Return
<1>7. CASE \E u \in Trades : \/ Gate(u) \/ Refuse(u) \/ Order(u) \/ Fill(u) \/ Register(u)
                             \/ HardStop(u) \/ VenueExit(u) \/ Finalize(u)
                             \/ \E k \in Closers : Tag(k, u) \/ Clear(k, u)
  BY <1>4, <1>7 DEF Gate, Refuse, Order, Fill, Register, HardStop, VenueExit, Finalize, Tag, Clear
<1>8. CASE DropOrphans \/ Switch \/ UNCHANGED vars
  BY <1>4, <1>8 DEF DropOrphans, Switch, vars
<1> QED
  BY <1>2, <1>3, <1>5, <1>6, <1>7, <1>8 DEF Next, Track, Place

LEMMA FillGrows ==
  ASSUME IInv, [Next]_vars, NEW t \in Trades, step'[t] \in {"fill", "register"}
  PROVE  step[t] \in {"fill", "register"} \/ venue'[t] # "none"
<1> USE TradeTyped DEF tables, setup, handler, closers
<1>1. TypeOK
  BY DEF IInv
<1>2. ASSUME NEW u \in Trades, Order(u) PROVE step[t] \in {"fill", "register"} \/ venue'[t] # "none"
  BY <1>1, <1>2 DEF Order, Move, TypeOK
<1>3. ASSUME NEW u \in Trades, Gate(u) \/ Refuse(u) \/ Fill(u) \/ Register(u)
      PROVE  step[t] \in {"fill", "register"}
  BY <1>1, <1>3 DEF Gate, Refuse, Fill, Register, Move, TypeOK
<1>4. ASSUME NEW f \in Fires, Enter(f) PROVE step[t] \in {"fill", "register"}
  BY <1>4 DEF Enter
<1>5. CASE Crash
  BY <1>5 DEF Crash
<1>6. CASE \E f \in Fires : \/ Fire(f) \/ Idle(f) \/ ReadStreak(f) \/ SaveStreak(f)
                            \/ LoadPositions(f) \/ NoEntry(f) \/ Entered(f)
                            \/ \E h \in todo[f] : Press(f, h) \/ CloseOnCrack(f, h) \/ CountFire(f, h)
  BY <1>6 DEF Fire, Idle, ReadStreak, SaveStreak, LoadPositions, NoEntry, Entered, Return, Press,
     CloseOnCrack, CountFire
<1>7. CASE \E u \in Trades : \/ HardStop(u) \/ VenueExit(u) \/ Finalize(u)
                             \/ \E k \in Closers : Tag(k, u) \/ Clear(k, u)
  BY <1>7 DEF HardStop, VenueExit, Finalize, Tag, Clear
<1>8. CASE DropOrphans \/ Switch \/ UNCHANGED vars
  BY <1>8 DEF DropOrphans, Switch, vars
<1> QED
  BY <1>2, <1>3, <1>4, <1>5, <1>6, <1>7, <1>8 DEF Next, Track, Place

LEMMA KnownNext ==
  ASSUME IInv, KnownIsFilled, LoggedHasEnded, [Next]_vars
  PROVE  KnownIsFilled'
<1> SUFFICES ASSUME NEW t \in Trades
             PROVE  /\ step'[t] \in {"fill", "register"} => venue'[t] # "none"
                    /\ log'[t] \in {"open", "closed", "tagged"} => venue'[t] # "none"
                    /\ position'[t] # NoPosition => venue'[t] # "none"
                    /\ \A f \in Fires : \A h \in todo'[f] : h.trade = t => venue'[t] # "none"
  BY DEF KnownIsFilled
<1>1. venue[t] # "none" => venue'[t] # "none"
  BY VenueGoesOn
<1>2. step'[t] \in {"fill", "register"} => venue'[t] # "none"
  BY <1>1, FillGrows DEF KnownIsFilled
<1>3. log'[t] \in {"open", "closed", "tagged"} => venue'[t] # "none"
  BY OneMoves DEF KnownIsFilled, Only, Moves, Places, Orders, Blocks, Records, Ends, Settles
<1>4. position'[t] # NoPosition => venue'[t] # "none"
  BY <1>1, PositionGrows DEF KnownIsFilled
<1>5. ASSUME NEW f \in Fires, NEW h \in todo'[f], h.trade = t PROVE venue'[t] # "none"
  BY <1>1, <1>5, HeldGrows DEF KnownIsFilled
<1> QED
  BY <1>2, <1>3, <1>4, <1>5

LEMMA LoggedNext ==
  ASSUME Honest, IInv, KnownIsFilled, LoggedHasEnded, [Next]_vars
  PROVE  LoggedHasEnded'
<1> USE TradeTyped DEF tables, setup, handler, closers
<1>1. TypeOK /\ "closeCancel" \notin faults
  BY DEF IInv, TypeOK, Honest
<1>2. ASSUME NEW k \in Closers, NEW u \in Trades, CloseAt(k, u), NEW t \in Trades,
             NEW j \in Closers, t \in tagging'[j]
      PROVE  t \in tagging[j] \/ venue'[t] = "closed"
  <2>1. CASE tagging' = tagging
    BY <1>2, <2>1
  <2>2. CASE venue' = [venue EXCEPT ![u] = "closed"] /\ tagging' = [tagging EXCEPT ![k] = {u}]
    BY <1>1, <1>2, <2>2 DEF TypeOK
  <2> QED
    BY <1>1, <1>2, <2>1, <2>2 DEF CloseAt
<1>3. ASSUME NEW t \in Trades, NEW j \in Closers, t \in tagging'[j]
      PROVE  t \in tagging[j] \/ venue'[t] = "closed"
  <2>1. CASE tagging' = tagging
    BY <1>3, <2>1
  <2>2. ASSUME NEW f \in Fires, NEW h \in todo[f], Press(f, h) \/ CloseOnCrack(f, h)
        PROVE  t \in tagging[j] \/ venue'[t] = "closed"
    <3>1. f \in Closers /\ h.trade \in Trades /\ CloseAt(f, h.trade)
      BY <1>1, <2>2, HeldIsLate DEF IInv, Closers, Press, CloseOnCrack
    <3> QED
      BY <1>2, <1>3, <3>1
  <2>3. ASSUME NEW u \in Trades, HardStop(u)
        PROVE  t \in tagging[j] \/ venue'[t] = "closed"
    <3>1. HardStopMonitor \in Closers /\ CloseAt(HardStopMonitor, u)
      BY <2>3 DEF HardStop, Closers, Monitors
    <3> QED
      BY <1>2, <1>3, <3>1
  <2>4. ASSUME NEW k \in Closers, NEW u \in Trades, Tag(k, u) PROVE t \in tagging[j]
    BY <1>1, <1>3, <2>4 DEF Tag, TypeOK
  <2>5. CASE Crash
    BY <1>3, <2>5 DEF Crash
  <2>6. CASE \E f \in Fires : \/ Fire(f) \/ Idle(f) \/ ReadStreak(f) \/ SaveStreak(f)
                              \/ LoadPositions(f) \/ NoEntry(f) \/ Enter(f) \/ Entered(f)
                              \/ \E h \in todo[f] : CountFire(f, h)
    BY <2>1, <2>6 DEF Fire, Idle, ReadStreak, SaveStreak, LoadPositions, NoEntry, Enter, Entered,
       Return, CountFire
  <2>7. CASE \E u \in Trades : \/ Gate(u) \/ Refuse(u) \/ Order(u) \/ Fill(u) \/ Register(u)
                               \/ VenueExit(u) \/ Finalize(u) \/ \E k \in Closers : Clear(k, u)
    BY <2>1, <2>7 DEF Gate, Refuse, Order, Fill, Register, VenueExit, Finalize, Clear
  <2>8. CASE DropOrphans \/ Switch \/ UNCHANGED vars
    BY <2>1, <2>8 DEF DropOrphans, Switch, vars
  <2> QED
    BY <2>2, <2>3, <2>4, <2>5, <2>6, <2>7, <2>8 DEF Next, Track, Place
<1>4. \A t \in Trades : log'[t] \in {"closed", "tagged"} => venue'[t] = "closed"
  BY OneMoves DEF LoggedHasEnded, Only, Moves, Places, Orders, Blocks, Records, Ends, Settles
<1>5. \A t \in Trades : venue[t] = "closed" => venue'[t] = "closed"
  BY VenueGoesOn
<1> QED
  BY <1>3, <1>4, <1>5 DEF LoggedHasEnded

(* The stages a moving trade passes.                                       *)
LEMMA StagesFollow ==
  ASSUME IInv, KnownIsFilled, LoggedHasEnded, NEW t \in Trades, Moves(t)
  PROVE  \/ StageOf(t)' = StageOf(t)
         \/ StageOf(t) = "absent"   /\ StageOf(t)' = "intended"
         \/ StageOf(t) = "intended" /\ StageOf(t)' = "live"
         \/ StageOf(t) = "live"     /\ StageOf(t)' = "ended"
         \/ StageOf(t) = "ended"    /\ StageOf(t)' = "settled"
<1>1. venue[t] \in {"none", "open", "closed"}
  BY DEF IInv, TypeOK
<1>2. log[t] \in {"closed", "tagged"} => venue[t] = "closed"
  BY DEF LoggedHasEnded
<1>3. CASE Places(t) \/ Orders(t) \/ Blocks(t)
  BY <1>3 DEF Places, Orders, Blocks, StageOf
<1>4. CASE Records(t) \/ Ends(t) \/ Settles(t)
  BY <1>1, <1>2, <1>4 DEF Records, Ends, Settles, StageOf
<1> QED
  BY <1>3, <1>4 DEF Moves

(* A step moves its trade to the next stage, or leaves it where it is.     *)
LEMMA LedgerStep ==
  ASSUME IInv, KnownIsFilled, LoggedHasEnded, [Next]_vars
  PROVE  [Ledger!LedgerNext]_[t \in Trades |-> StageOf(t)]
<1> DEFINE stg == [t \in Trades |-> StageOf(t)]
<1>1. CASE UNCHANGED <<venue, log>>
  <2>1. stg' = stg
    BY <1>1 DEF StageOf
  <2> QED
    BY <2>1
<1>2. ASSUME NEW t \in Trades, Only(t), Moves(t)
      PROVE  [Ledger!LedgerNext]_stg
  <2>1. \A u \in Trades : u # t => StageOf(u)' = StageOf(u)
    BY <1>2 DEF Only, StageOf
  <2>2. \/ StageOf(t)' = StageOf(t)
        \/ StageOf(t) = "absent"   /\ StageOf(t)' = "intended"
        \/ StageOf(t) = "intended" /\ StageOf(t)' = "live"
        \/ StageOf(t) = "live"     /\ StageOf(t)' = "ended"
        \/ StageOf(t) = "ended"    /\ StageOf(t)' = "settled"
    BY <1>2, StagesFollow
  <2>3. CASE StageOf(t)' = StageOf(t)
    <3>1. stg' = stg
      BY <2>1, <2>3
    <3> QED
      BY <3>1
  <2>4. CASE StageOf(t)' # StageOf(t)
    <3>1. stg' = [u \in Trades |-> IF u \in {t} THEN StageOf(t)' ELSE stg[u]]
      BY <2>1
    <3>2. \/ Ledger!Intend(t) \/ Ledger!GoLive(t) \/ Ledger!End(t)
          \/ Ledger!Advance({t}, "ended", "settled") /\ stg[t] = "ended"
      BY <2>2, <2>4, <3>1 DEF Ledger!Intend, Ledger!GoLive, Ledger!End, Ledger!Advance
    <3> QED
      BY <3>2 DEF Ledger!LedgerNext, Ledger!Settle
  <2> QED
    BY <2>3, <2>4
<1> QED
  BY <1>1, <1>2, OneMoves

(* The refinement: no close of a fire's handler, of either monitor or of   *)
(* the venue shows in the log before the trade has ended, no trade is      *)
(* placed without its row, and none is taken up twice, for any number of   *)
(* fires at a time and every mixture of faults but a cancelled close.      *)
THEOREM LedgerImplemented == ASSUME Honest PROVE Spec => ImplementsLedger
<1>1. Init => Ledger!LedgerInit /\ KnownIsFilled /\ LoggedHasEnded
  BY DEF Init, StageOf, Ledger!LedgerInit, KnownIsFilled, LoggedHasEnded
<1>2. IInv /\ KnownIsFilled /\ LoggedHasEnded /\ [Next]_vars
      => KnownIsFilled' /\ LoggedHasEnded' /\ [Ledger!LedgerNext]_[t \in Trades |-> StageOf(t)]
  BY Honest, KnownNext, LoggedNext, LedgerStep
<1> QED
  BY <1>1, <1>2, AlwaysIInv, PTL DEF Spec, ImplementsLedger, Ledger!Spec
=============================================================================
