------------------------- MODULE SignalRouterProofs -------------------------
(***************************************************************************)
(* Proofs about SignalRouter for any number of signals, any limits and any *)
(* choice of faults: the type invariant and that a working feed is left    *)
(* alone; that executed rows name filled orders, where answers name the    *)
(* fills; and, for signals handled one at a time under the conditions of   *)
(* Alone, the pair limit and the count of the day.                         *)
(***************************************************************************)
EXTENDS SignalRouter, FiniteSetTheorems, TLAPS

Filling == {"row", "read", "write"}

(* What the place of a handler says of its trade and its row.              *)
SlotsTell ==
  \A s \in Slots :
    /\ slot[s].at \notin Filling \cup {"done"} => venue[s] = "none" /\ log[s] = "none"
    /\ "order" \notin faults /\ slot[s].at \in Filling => venue[s] # "none"
    /\ slot[s].at = "row" => log[s] = "none"

(* A process that is down, or does not yet listen, handles nothing.        *)
NoneBefore == ~Up \/ boot = "starting" => Handled = {}

(* With signals one at a time there is one handler, nothing stops the      *)
(* process, and every open trade is in the log or about to be; a trade and *)
(* an order that is about to go out agree with those before them, or, with *)
(* the flip, oppose them.                                                  *)
OneHandler ==
  Alone => /\ activeDb /\ Up
           /\ \A s, o \in Handled : s = o

Known == {s \in Slots : log[s] = "open" \/ slot[s].at = "row"}

OpenIsKnown == Alone => \A s \in Slots : venue[s] = "open" => s \in Known

KnownAgree ==
  Alone => /\ Cardinality(Known) <= MaxPerPair
           /\ \A s, o \in Known : s # o => Agree(s, o)
           /\ \A s \in Slots : slot[s].at = "order" =>
                /\ Cardinality(Listed) < MaxPerPair
                /\ \A o \in Listed : Agree(o, s)

(* A handler between its order and its count is the one trade that may be  *)
(* missing in the count, and what it has read makes up for it.             *)
CountFollows ==
  Alone => /\ opened <= trades \/ (opened <= trades + 1 /\ \E s \in Slots : slot[s].at \in Filling)
           /\ \A s \in Slots : slot[s].at = "write" => opened <= slot[s].seen + 1

StateTyped == faults \in FaultSets /\ GuardsTyped /\ RouterTyped

IInv ==
  /\ StateTyped /\ ExecutedWasFilled /\ SlotsTell /\ NoneBefore /\ OneHandler
  /\ OpenIsKnown /\ KnownAgree /\ CountFollows
-----------------------------------------------------------------------------
(* The feed: a timer stands only behind a problem that is not over.        *)
FeedInv ==
  /\ FeedTyped
  /\ timer => Fails("feed") /\ channel # "joined"
  /\ ~Up \/ boot = "starting" => channel = "none" /\ ~timer

(* The guards: any of their steps keeps their types and the fault model,   *)
(* and none of them ends the process of an Alone behaviour.                *)
GuardStep ==
  \/ (\E e \in Equities : EquityMoves(e)) \/ Dashboard \/ Tick \/ Crash
  \/ RailwayRestart \/ OperatorStart \/ BeatAccount \/ BeatActive \/ Signal
  \/ (\E result \in {"win", "loss"} : TradeBooked(result)) \/ GuardsKept
  \/ Listen \/ Subscribed \/ (Fails("feed") /\ (ChannelFails \/ Reconnect))

LEMMA GuardsKeepType ==
  ASSUME GuardsTyped, GuardStep
  PROVE  GuardsTyped' /\ faults' = faults
<1> USE BreakerAssumption DEF GuardsTyped, world, breaker, account, Quiet
<1>1. ASSUME NEW e \in Equities, EquityMoves(e) PROVE GuardsTyped' /\ faults' = faults
  BY <1>1 DEF EquityMoves
<1>2. CASE Dashboard
  BY <1>2 DEF Dashboard
<1>3. CASE Tick
  BY <1>3 DEF Tick
<1>4. CASE Crash
  BY <1>4 DEF Crash
<1>5. CASE Start
  BY <1>5 DEF Start, Begin
<1>6. CASE BeatAccount
  BY <1>6 DEF BeatAccount
<1>7. CASE BeatActive
  BY <1>7 DEF BeatActive
<1>8. CASE Signal
  <2>1. verdict' \in {"none", "admitted", "blocked"} /\ cooldown' \in 0..Cooldown
    BY <1>8 DEF Signal
  <2> QED
    BY <1>8, <2>1 DEF Signal
<1>9. ASSUME NEW result \in {"win", "loss"}, TradeBooked(result)
      PROVE  GuardsTyped' /\ faults' = faults
  <2>1. losses' \in 0..MaxLosses
    BY <1>9 DEF TradeBooked
  <2> QED
    BY <1>9, <2>1 DEF TradeBooked
<1>10. CASE GuardsKept
  BY <1>10 DEF GuardsKept
<1>11. CASE Subscribed \/ Listen
  BY <1>11 DEF Subscribed, Others, Listen
<1>12. CASE ChannelFails \/ Reconnect
  <2>1. Others /\ (UNCHANGED <<proc, beat>> \/ (proc' = "failed" /\ beat' = FALSE))
    BY <1>12 DEF ChannelFails, Reconnect, Problem
  <2> QED
    BY <2>1 DEF Others
<1> QED
  BY <1>1, <1>2, <1>3, <1>4, <1>5, <1>6, <1>7, <1>8, <1>9, <1>10, <1>11, <1>12
     DEF GuardStep, RailwayRestart, OperatorStart

LEMMA AloneStaysUp ==
  ASSUME Alone => activeDb /\ Up, GuardStep, Alone
  PROVE  activeDb' /\ Up'
<1> USE DEF Alone, Up, Fails, world
<1>1. proc = "up" /\ activeDb /\ faults \cap {"crash", "world", "dbRead", "feed"} = {}
  OBVIOUS
<1> QED
  BY <1>1 DEF GuardStep, EquityMoves, Dashboard, Tick, Crash, RailwayRestart, OperatorStart,
     BeatAccount, BeatActive, Signal, TradeBooked, GuardsKept, Subscribed, Others,
     Listen
-----------------------------------------------------------------------------
(* Sets of signals are finite, and smaller ones have fewer elements.       *)
LEMMA SmallerSets ==
  \A A, B \in SUBSET Slots :
    A \subseteq B => Cardinality(A) \in Nat /\ Cardinality(B) \in Nat /\ Cardinality(A) <= Cardinality(B)
<1> TAKE A, B \in SUBSET Slots
<1> HAVE A \subseteq B
<1>1. IsFiniteSet(B)
  BY RouterAssumption, FS_Subset
<1>2. IsFiniteSet(A)
  BY <1>1, FS_Subset
<1> QED
  BY <1>1, <1>2, FS_Subset, FS_CardinalityType

LEMMA OneMore ==
  \A A \in SUBSET Slots : \A s \in Slots :
    Cardinality(A) \in Nat /\ Cardinality(A \cup {s}) \in Nat
    /\ Cardinality(A \cup {s}) <= Cardinality(A) + 1
<1> TAKE A \in SUBSET Slots
<1> TAKE s \in Slots
<1>1. IsFiniteSet(A)
  BY RouterAssumption, FS_Subset
<1>2. Cardinality(A) \in Nat
  BY <1>1, FS_CardinalityType
<1>3. Cardinality(A \cup {s}) = IF s \in A THEN Cardinality(A) ELSE Cardinality(A) + 1
  BY <1>1, FS_AddElement
<1> DEFINE more == Cardinality(A \cup {s})
           card == Cardinality(A)
<1>4. card \in Nat /\ more = IF s \in A THEN card ELSE card + 1
  BY <1>2, <1>3
<1> HIDE DEF more, card
<1>5. more \in Nat /\ more <= card + 1
  BY <1>4
<1> QED
  BY <1>2, <1>5 DEF more, card

(* What moving one handler leaves in place. *)
Moved(s, pc) ==
  /\ slot' \in [Slots -> Handlers] /\ slot'[s].at = pc
  /\ \A o \in Slots \ {s} : slot'[o] = slot[o]

LEMMA RestTyped == Rest \in Handlers
BY DEF Rest, Handlers, Pcs, Directions

LEMMA GotoMoves ==
  ASSUME slot \in [Slots -> Handlers], NEW s \in Slots
  PROVE  \A pc \in Pcs : Goto(s, pc) => /\ Moved(s, pc)
                                        /\ slot'[s].dir = slot[s].dir /\ slot'[s].seen = slot[s].seen
BY DEF Goto, Moved, Handlers

LEMMA RefusedMoves ==
  ASSUME slot \in [Slots -> Handlers], NEW s \in Slots, Refused(s)
  PROVE  Moved(s, "free")
BY RestTyped DEF Refused, Moved, Rest

LEMMA SettledMoves ==
  ASSUME slot \in [Slots -> Handlers], NEW s \in Slots, Settled(s)
  PROVE  Moved(s, "done") /\ slot'[s].dir = slot[s].dir
BY DEF Settled, Moved, Rest, Handlers, Pcs
-----------------------------------------------------------------------------
(* Any step of the guards, under the invariant.                            *)
Stays ==
  /\ GuardsTyped' /\ faults' = faults
  /\ (Alone' <=> Alone)
  /\ Alone => activeDb' /\ Up'

LEMMA GuardsStay == ASSUME IInv, GuardStep PROVE Stays
<1>1. GuardsTyped' /\ faults' = faults
  BY GuardsKeepType DEF IInv, StateTyped, RouterTyped
<1>2. Alone' <=> Alone
  BY <1>1 DEF Alone
<1>3. Alone => activeDb' /\ Up'
  BY AloneStaysUp DEF IInv, OneHandler
<1> QED
  BY <1>1, <1>2, <1>3 DEF Stays

LEMMA KeptStays == ASSUME IInv, GuardsKept PROVE Stays /\ proc' = proc
BY GuardsStay DEF GuardStep, GuardsKept

(* The parts of the invariant that a step keeps which fills no order.      *)
LEMMA AgreeKept ==
  ASSUME KnownAgree, Alone' <=> Alone, faults' = faults,
         Known' \subseteq Known, Listed' \subseteq Listed,
         \A o \in Slots : slot'[o].at = "order" => slot[o].at = "order" /\ slot'[o].dir = slot[o].dir,
         \A o \in Known' : slot'[o].dir = slot[o].dir
  PROVE  KnownAgree'
<1> SUFFICES ASSUME Alone PROVE KnownAgree'
  BY DEF KnownAgree
<1>1. Known \in SUBSET Slots /\ Listed \in SUBSET Slots /\ Known' \in SUBSET Slots /\ Listed' \in SUBSET Slots
  BY DEF Known, Listed
<1> DEFINE k == Cardinality(Known)
           k1 == Cardinality(Known')
           l == Cardinality(Listed)
           l1 == Cardinality(Listed')
<1>2. k \in Nat /\ k1 \in Nat /\ k1 <= k
  BY <1>1, SmallerSets
<1>3. l \in Nat /\ l1 \in Nat /\ l1 <= l
  BY <1>1, SmallerSets
<1> HIDE DEF k, k1, l, l1
<1>4. k <= MaxPerPair /\ (\A s \in Slots : slot[s].at = "order" => l < MaxPerPair)
  BY DEF KnownAgree, k, l
<1>5. k1 <= MaxPerPair /\ (\A s \in Slots : slot'[s].at = "order" => l1 < MaxPerPair)
  BY <1>2, <1>3, <1>4, RouterAssumption
<1>6. Cardinality(Known') <= MaxPerPair
      /\ (\A s \in Slots : slot'[s].at = "order" => Cardinality(Listed') < MaxPerPair)
  BY <1>5 DEF k1, l1
<1>7. \A s, o \in Known' : s # o => Agree(s, o)'
  <2> TAKE s, o \in Known'
  <2> HAVE s # o
  <2>1. s \in Known /\ o \in Known /\ slot'[s].dir = slot[s].dir /\ slot'[o].dir = slot[o].dir
    OBVIOUS
  <2>2. Agree(s, o)
    BY <2>1 DEF KnownAgree
  <2> QED
    BY <2>1, <2>2 DEF Agree, Fails
<1>8. \A s \in Slots : slot'[s].at = "order" => \A o \in Listed' : Agree(o, s)'
  <2> TAKE s \in Slots
  <2> HAVE slot'[s].at = "order"
  <2> TAKE o \in Listed'
  <2>1. o \in Listed /\ o \in Known' /\ slot'[o].dir = slot[o].dir
    BY DEF Listed, Known
  <2>2. slot[s].at = "order" /\ slot'[s].dir = slot[s].dir
    OBVIOUS
  <2>3. Agree(o, s)
    BY <2>1, <2>2 DEF KnownAgree
  <2> QED
    BY <2>1, <2>2, <2>3 DEF Agree, Fails
<1> QED
  BY <1>6, <1>7, <1>8 DEF KnownAgree

LEMMA CountKept ==
  ASSUME CountFollows, Alone' <=> Alone, opened' = opened, trades' = trades,
         \A o \in Slots : slot'[o].at = "write" => slot[o].at = "write" /\ slot'[o].seen = slot[o].seen,
         \A o \in Slots : slot[o].at \in Filling => slot'[o].at \in Filling
  PROVE  CountFollows'
BY DEF CountFollows

(* A step that leaves every signal where it is. *)
LEMMA SameSignals ==
  ASSUME IInv, StateTyped', Stays, NoneBefore', UNCHANGED signals,
         UNCHANGED <<trades, opened>> \/ (trades' = 0 /\ opened' = 0)
  PROVE  IInv'
<1> USE DEF signals
<1>1. ExecutedWasFilled' /\ SlotsTell'
  BY DEF IInv, ExecutedWasFilled, SlotsTell, Stays
<1>2. OneHandler'
  BY DEF IInv, OneHandler, Handled, Stays
<1>3. OpenIsKnown'
  BY DEF IInv, OpenIsKnown, Known, Stays
<1>4. KnownAgree'
  BY AgreeKept DEF IInv, Known, Listed, Stays
<1>5. CountFollows'
  <2>1. \A s \in Slots : slot[s].seen \in Nat
    BY DEF IInv, StateTyped, RouterTyped, Handlers
  <2>2. CASE UNCHANGED <<trades, opened>>
    BY <2>2 DEF IInv, CountFollows, Stays
  <2>3. CASE trades' = 0 /\ opened' = 0
    BY <2>1, <2>3 DEF CountFollows
  <2> QED
    BY <2>2, <2>3
<1> QED
  BY <1>1, <1>2, <1>3, <1>4, <1>5 DEF IInv

(* A step of one signal that neither orders nor counts. *)
LEMMA OneSignal ==
  ASSUME IInv, StateTyped', Stays, UNCHANGED <<boot, proc, trades, opened>>,
         NEW s \in Slots, NEW pc \in Pcs, Moved(s, pc),
         pc \notin {"row", "write"} \/ pc = slot[s].at,
         pc = "order" => slot[s].at = "order" /\ slot'[s].dir = slot[s].dir,
         slot[s].at \in Filling => pc \in Filling,
         pc \in Filling => slot[s].at \in Filling /\ slot'[s].seen = slot[s].seen,
         pc \in InHand => slot[s].at \in InHand \/ (Up /\ boot # "starting" /\ (Alone => Handled = {})),
         ExecutedWasFilled', SlotsTell', OpenIsKnown',
         Known' \subseteq Known, Listed' \subseteq Listed,
         s \in Known' => slot'[s].dir = slot[s].dir
  PROVE  IInv'
<1> USE DEF Moved
<1>1. Handled' \subseteq Handled \cup {s} /\ (Handled' \subseteq Handled \/ (Up /\ boot # "starting" /\ (Alone => Handled = {})))
  BY DEF Handled
<1>2. NoneBefore'
  BY <1>1 DEF IInv, NoneBefore, Up
<1>3. OneHandler'
  BY <1>1 DEF IInv, OneHandler, Stays
<1>4. \A o \in Known' : slot'[o].dir = slot[o].dir
  BY DEF Known
<1>5. KnownAgree'
  BY <1>4, AgreeKept DEF IInv, Stays
<1>6. CountFollows'
  <2>1. \A o \in Slots : slot'[o].at = "write" => slot[o].at = "write" /\ slot'[o].seen = slot[o].seen
    BY DEF Filling
  <2>2. \A o \in Slots : slot[o].at \in Filling => slot'[o].at \in Filling
    OBVIOUS
  <2> QED
    BY <2>1, <2>2, CountKept DEF IInv, Stays
<1> QED
  BY <1>2, <1>3, <1>5, <1>6 DEF IInv

-----------------------------------------------------------------------------
LEMMA InitInductive == Init => IInv
<1> SUFFICES ASSUME Init PROVE IInv
  OBVIOUS
<1> USE DEF Init, Rest
<1>1. StateTyped
  <2>1. GuardsTyped
    <3>1. equity \in Equities /\ peak \in Equities /\ losses \in 0..MaxLosses
          /\ cooldown \in 0..Cooldown /\ cached \in Equities \cup {0}
      BY BreakerAssumption DEF GuardsInit
    <3>2. /\ proc \in {"up", "stopped", "failed"} /\ verdict \in {"none", "admitted", "blocked"}
          /\ killDb \in BOOLEAN /\ activeDb \in BOOLEAN /\ killSwitch \in BOOLEAN /\ beat \in BOOLEAN
      BY DEF GuardsInit
    <3> QED
      BY <3>1, <3>2 DEF GuardsTyped
  <2>2. slot \in [Slots -> Handlers]
    BY RestTyped DEF Rest
  <2>3. active \in BOOLEAN /\ touched \in BOOLEAN /\ due \in BOOLEAN
    OBVIOUS
  <2>4. /\ trades \in Nat /\ opened \in Nat /\ roster \in Nat \cup {Absent}
        /\ reloads \subseteq Nat \cup {Absent} /\ notices \in 0..MaxNotices
    BY RouterAssumption
  <2>5. /\ venue \in [Slots -> {"none", "open", "closed"}] /\ log \in [Slots -> {"none", "open"}]
        /\ boot \in {"starting", "reset", "running"} /\ faults \in FaultSets
    OBVIOUS
  <2> QED
    BY <2>1, <2>2, <2>3, <2>4, <2>5 DEF StateTyped, RouterTyped
<1>2. ExecutedWasFilled /\ SlotsTell /\ NoneBefore /\ OneHandler /\ OpenIsKnown
  BY DEF GuardsInit, ExecutedWasFilled, SlotsTell, NoneBefore, Handled, InHand, Pcs, Up, OneHandler,
     OpenIsKnown, Known, Filling
<1>3. Known = {} /\ Listed = {}
  BY DEF Known, Listed
<1>4. KnownAgree
  BY <1>3, FS_EmptySet, RouterAssumption DEF KnownAgree
<1>5. CountFollows
  BY DEF CountFollows
<1> QED
  BY <1>1, <1>2, <1>4, <1>5 DEF IInv

(***************************************************************************)
(* The steps.                                                              *)
(***************************************************************************)
LEMMA GuardsAndWorld ==
  ASSUME IInv, GuardStep, UNCHANGED rest, proc' = "up" \/ ~Up
  PROVE  IInv'
<1> USE DEF rest, signals, engine, sync
<1>1. Stays
  BY GuardsStay
<1>2. StateTyped'
  BY <1>1 DEF IInv, StateTyped, RouterTyped, Stays
<1>3. NoneBefore'
  BY DEF IInv, NoneBefore, Up, Handled
<1> QED
  BY <1>1, <1>2, <1>3, SameSignals

LEMMA LostKeeps ==
  ASSUME IInv, GuardStep, Lost, proc' # "up"
  PROVE  IInv'
<1> USE DEF engine
<1>1. Stays /\ ~Alone /\ ~Alone'
  BY GuardsStay DEF Stays, Up
<1>2. \A s \in Slots : /\ slot'[s] \in Handlers
                       /\ slot'[s].at = IF venue[s] = "none" /\ log[s] = "none" THEN "free" ELSE "done"
  <2> TAKE s \in Slots
  <2>1. slot[s].dir \in Directions
    BY DEF IInv, StateTyped, RouterTyped, Handlers
  <2>2. [Rest EXCEPT !.at = "done", !.dir = slot[s].dir] \in Handlers
    BY <2>1 DEF Rest, Handlers, Pcs
  <2>3. slot'[s] = IF venue[s] = "none" /\ log[s] = "none" THEN Rest ELSE [Rest EXCEPT !.at = "done", !.dir = slot[s].dir]
    BY DEF Lost
  <2> QED
    BY <2>2, <2>3, RestTyped DEF Rest
<1>3. slot' \in [Slots -> Handlers]
  BY <1>2 DEF Lost
<1>4. StateTyped'
  <2>1. due' \in BOOLEAN /\ active' \in BOOLEAN /\ touched' \in BOOLEAN
    BY DEF Lost, IInv, StateTyped, RouterTyped
  <2>2. roster' \in Nat \cup {Absent} /\ reloads' \subseteq Nat \cup {Absent}
    BY DEF Lost
  <2>3. 0 \in 0..MaxNotices
    BY RouterAssumption
  <2> QED
    BY <1>1, <1>3, <2>1, <2>2, <2>3 DEF Lost, IInv, StateTyped, RouterTyped, Stays
<1>5. ExecutedWasFilled' /\ SlotsTell'
  <2>2. venue' = venue /\ log' = log
    BY DEF Lost
  <2>3. ExecutedWasFilled'
    BY <1>1, <2>2 DEF IInv, ExecutedWasFilled, Stays
  <2>4. \A s \in Slots : slot'[s].at = IF venue[s] = "none" /\ log[s] = "none" THEN "free" ELSE "done"
    BY <1>2
  <2>5. SlotsTell'
    BY <2>2, <2>4 DEF SlotsTell, Filling
  <2> QED
    BY <2>3, <2>5
<1>6. NoneBefore'
  BY <1>2 DEF NoneBefore, Handled, InHand
<1> QED
  BY <1>1, <1>4, <1>5, <1>6 DEF IInv, OneHandler, OpenIsKnown, KnownAgree, CountFollows

LEMMA StartedKeeps ==
  ASSUME IInv, GuardStep, Started, ~Up
  PROVE  IInv'
<1> USE DEF signals, engine
<1>1. Stays
  BY GuardsStay
<1>2. roster' \in Nat \cup {Absent}
  BY DEF Started, InMemory, IInv, StateTyped, RouterTyped
<1>3. StateTyped'
  BY <1>1, <1>2 DEF Started, IInv, StateTyped, RouterTyped, Stays
<1>4. NoneBefore'
  BY DEF Started, IInv, NoneBefore, Handled
<1> QED
  BY <1>1, <1>3, <1>4, SameSignals DEF Started

(* main, the timer and the roster: the signals stay where they are. *)
LEMMA EngineKeeps ==
  ASSUME IInv, GuardsKept, UNCHANGED signals,
         ResetIfNeeded \/ Midnight \/ ResetTradesToday \/ Toggle \/ ReloadRead
         \/ \E row \in reloads : ReloadApply(row)
  PROVE  IInv'
<1> USE DEF signals, engine, sync
<1>1. Stays /\ proc' = proc
  BY KeptStays
<1>4. ASSUME boot' = boot \/ (boot = "reset" /\ boot' = "running") PROVE NoneBefore'
  BY <1>1, <1>4 DEF IInv, NoneBefore, Up, Handled
<1>5. ASSUME Noticed PROVE notices' \in 0..MaxNotices
  BY <1>5, RouterAssumption DEF Noticed, IInv, StateTyped, RouterTyped
<1>6. ASSUME ResetCount, boot' \in {boot, "running"}, due' \in BOOLEAN PROVE StateTyped'
  BY <1>1, <1>5, <1>6 DEF ResetCount, IInv, StateTyped, RouterTyped, Stays
<1>7. CASE ResetIfNeeded
  <2>1. due' = due /\ boot = "reset" /\ boot' = "running"
    BY <1>7 DEF ResetIfNeeded
  <2>2. CASE ResetCount
    <3>1. StateTyped'
      BY <1>6, <2>1, <2>2 DEF IInv, StateTyped, RouterTyped
    <3> QED
      BY <1>1, <1>4, <2>1, <2>2, <3>1, SameSignals DEF ResetCount
  <2>3. CASE UNCHANGED <<engine, sync>>
    <3>1. StateTyped'
      BY <1>1, <2>1, <2>3 DEF IInv, StateTyped, RouterTyped, Stays
    <3> QED
      BY <1>1, <1>4, <2>1, <2>3, <3>1, SameSignals
  <2> QED
    BY <1>7, <2>2, <2>3 DEF ResetIfNeeded
<1>8. CASE ResetTradesToday
  <2>1. due' \in BOOLEAN /\ boot' = boot /\ ResetCount
    BY <1>8 DEF ResetTradesToday
  <2>2. StateTyped'
    BY <1>6, <2>1
  <2> QED
    BY <1>1, <1>4, <2>1, <2>2, SameSignals DEF ResetCount
<1>9. CASE Midnight
  <2>1. touched' \in BOOLEAN /\ due' \in BOOLEAN
    BY <1>9 DEF Midnight
  <2>2. StateTyped'
    BY <1>1, <1>9, <2>1 DEF Midnight, IInv, StateTyped, RouterTyped, Stays
  <2> QED
    BY <1>1, <1>4, <1>9, <2>2, SameSignals DEF Midnight
<1>10. CASE Toggle
  <2>1. active' \in BOOLEAN
    BY <1>10 DEF Toggle
  <2>2. StateTyped'
    BY <1>1, <1>5, <1>10, <2>1 DEF Toggle, IInv, StateTyped, RouterTyped, Stays
  <2> QED
    BY <1>1, <1>4, <1>10, <2>2, SameSignals DEF Toggle
<1>11. CASE ReloadRead
  <2>1. reloads' \subseteq Nat \cup {Absent}
    BY <1>11 DEF ReloadRead, InMemory, IInv, StateTyped, RouterTyped
  <2>2. notices' \in 0..MaxNotices
    BY <1>11, RouterAssumption DEF ReloadRead, IInv, StateTyped, RouterTyped
  <2>3. StateTyped'
    BY <1>1, <1>11, <2>1, <2>2 DEF ReloadRead, IInv, StateTyped, RouterTyped, Stays
  <2> QED
    BY <1>1, <1>4, <1>11, <2>3, SameSignals DEF ReloadRead
<1>12. ASSUME NEW row \in reloads, ReloadApply(row) PROVE IInv'
  <2>1. roster' \in Nat \cup {Absent} /\ reloads' \subseteq Nat \cup {Absent}
    BY <1>12 DEF ReloadApply, IInv, StateTyped, RouterTyped
  <2>2. StateTyped'
    BY <1>1, <1>12, <2>1 DEF ReloadApply, IInv, StateTyped, RouterTyped, Stays
  <2> QED
    BY <1>1, <1>4, <1>12, <2>2, SameSignals DEF ReloadApply
<1> QED
  BY <1>7, <1>8, <1>9, <1>10, <1>11, <1>12

(* main begins to listen. *)
LEMMA ListenKeeps == ASSUME IInv, Listen PROVE IInv'
<1> USE DEF signals, engine, sync
<1>1. UNCHANGED <<signals, engine, sync, due, proc>> /\ boot' = "reset"
  BY DEF Listen
<1>2. Stays
  BY GuardsStay DEF GuardStep, Listen
<1>3. StateTyped'
  BY <1>1, <1>2 DEF IInv, StateTyped, RouterTyped, Stays
<1>4. NoneBefore'
  BY <1>1 DEF IInv, NoneBefore, Up, Handled
<1> QED
  BY <1>1, <1>2, <1>3, <1>4, SameSignals

(***************************************************************************)
(* The steps of one signal.                                                *)
(***************************************************************************)
LEMMA SlotsKeepType ==
  ASSUME IInv, GuardStep, slot' \in [Slots -> Handlers],
         UNCHANGED <<active, touched, due, roster, reloads, notices, boot>>,
         venue' \in [Slots -> {"none", "open", "closed"}], log' \in [Slots -> {"none", "open"}],
         trades' \in Nat, opened' \in Nat
  PROVE  Stays /\ StateTyped'
BY GuardsStay DEF Stays, StateTyped, RouterTyped, IInv

LEMMA ReceiveKeeps == ASSUME IInv, FeedInv, NEW s \in Slots, Receive(s) PROVE IInv'
<1> USE DEF engine, sync
<1>1. PICK dir \in Directions :
        slot' = [slot EXCEPT ![s] = [Rest EXCEPT !.at = "config", !.dir = dir]]
  BY DEF Receive
<1>2. /\ [Rest EXCEPT !.at = "config", !.dir = dir] \in Handlers
      /\ [Rest EXCEPT !.at = "config", !.dir = dir].at = "config"
  BY DEF Rest, Handlers, Pcs
<1>3. Moved(s, "config")
  BY <1>1, <1>2 DEF Moved, IInv, StateTyped, RouterTyped
<1>4. GuardsKept /\ UNCHANGED <<venue, log, engine, sync, boot, due>> /\ At(s, "free")
      /\ (Idle \/ Fails("overlap")) /\ channel = "joined"
  BY DEF Receive
<1>5. Stays /\ StateTyped'
  BY <1>3, <1>4, SlotsKeepType DEF Moved, IInv, StateTyped, RouterTyped, GuardStep
<1>6. Up /\ boot # "starting" /\ (Alone => Handled = {})
  BY <1>4 DEF At, Idle, Alone, Fails, FeedInv
<1>7. slot[s].at = "free" /\ venue[s] = "none" /\ log[s] = "none"
  BY <1>4 DEF At, IInv, SlotsTell, Filling
<1>8. ExecutedWasFilled' /\ SlotsTell'
  BY <1>3, <1>4, <1>5, <1>7 DEF Moved, IInv, ExecutedWasFilled, SlotsTell, Filling, Stays
<1>9. Known' \subseteq Known \ {s} /\ Listed' \subseteq Listed /\ Known \ {s} \subseteq Known'
  BY <1>3, <1>4, <1>7 DEF Moved, Known, Listed
<1>10. OpenIsKnown'
  BY <1>3, <1>4, <1>5, <1>7, <1>9 DEF IInv, OpenIsKnown, Stays
<1>11. UNCHANGED <<boot, proc, trades, opened>>
  BY <1>4, KeptStays
<1>12. "config" \in Pcs \ ({"row", "write", "order"} \cup Filling) /\ slot[s].at \notin Filling
  BY <1>7 DEF Pcs, Filling
<1> QED
  BY <1>3, <1>5, <1>6, <1>8, <1>9, <1>10, <1>11, <1>12, OneSignal

(* A signal that ends before its order. *)
LEMMA RefusedKeeps ==
  ASSUME IInv, NEW s \in Slots, Refused(s), GuardStep, proc' = proc,
         slot[s].at \in {"config", "vet", "order"},
         UNCHANGED <<venue, log, engine, sync, boot, due>>
  PROVE  IInv'
<1> USE DEF engine, sync
<1>1. Moved(s, "free")
  BY RefusedMoves DEF IInv, StateTyped, RouterTyped
<1>2. Stays /\ StateTyped'
  BY <1>1, SlotsKeepType DEF Moved, IInv, StateTyped, RouterTyped
<1>3. venue[s] = "none" /\ log[s] = "none"
  BY DEF IInv, SlotsTell, Filling
<1>4. ExecutedWasFilled' /\ SlotsTell'
  BY <1>1, <1>2, <1>3 DEF Moved, IInv, ExecutedWasFilled, SlotsTell, Filling, Stays
<1>5. Known' = Known /\ Listed' = Listed /\ s \notin Known'
  BY <1>1, <1>3 DEF Moved, Known, Listed
<1>6. OpenIsKnown'
  BY <1>2, <1>5 DEF IInv, OpenIsKnown, Stays
<1>7. "free" \in Pcs \ (InHand \cup {"row", "write", "order"} \cup Filling) /\ slot[s].at \notin Filling
  BY DEF Pcs, InHand, Filling
<1> QED
  BY <1>1, <1>2, <1>4, <1>5, <1>6, <1>7, OneSignal

LEMMA RefuseKeeps == ASSUME IInv, NEW s \in Slots, Refuse(s) PROVE IInv'
<1>1. slot[s].at \in {"config", "vet", "order"} /\ Refused(s) /\ GuardsKept
      /\ UNCHANGED <<venue, log, engine, sync, boot, due>>
  BY DEF Refuse, At
<1> QED
  BY <1>1, KeptStays, RefusedKeeps DEF GuardStep

LEMMA AdmitKeeps == ASSUME IInv, NEW s \in Slots, Admit(s) PROVE IInv'
<1> USE DEF engine, sync
<1>1. /\ UNCHANGED <<venue, log, engine, sync, boot, due>>
      /\ Up /\ slot[s].at = "config" /\ roster # Absent /\ Signal
  BY DEF Admit, At
<1>2. GuardStep /\ proc' = proc
  BY <1>1 DEF GuardStep, Signal
<1>3. CASE Refused(s)
  BY <1>1, <1>2, <1>3, RefusedKeeps
<1>4. CASE slot' = [slot EXCEPT ![s].at = "vet", ![s].seen = roster]
  <2>1. roster \in Nat /\ slot \in [Slots -> Handlers]
    BY <1>1 DEF IInv, StateTyped, RouterTyped
  <2>2. Moved(s, "vet") /\ slot'[s].dir = slot[s].dir
    BY <1>4, <2>1 DEF Moved, Handlers, Pcs
  <2>3. Stays /\ StateTyped'
    BY <1>1, <1>2, <2>2, SlotsKeepType DEF Moved, IInv, StateTyped, RouterTyped
  <2>4. venue[s] = "none" /\ log[s] = "none"
    BY <1>1 DEF IInv, SlotsTell, Filling
  <2>5. ExecutedWasFilled' /\ SlotsTell'
    BY <1>1, <2>2, <2>3, <2>4 DEF Moved, IInv, ExecutedWasFilled, SlotsTell, Filling, Stays
  <2>6. Known' = Known /\ Listed' = Listed
    BY <1>1, <2>2 DEF Moved, Known, Listed
  <2>7. OpenIsKnown'
    BY <1>1, <2>3, <2>6 DEF IInv, OpenIsKnown, Stays
  <2>8. "vet" \in Pcs \ ({"row", "write", "order"} \cup Filling) /\ slot[s].at \in InHand \ Filling
    BY <1>1 DEF Pcs, InHand, Filling
  <2> QED
    BY <1>1, <1>2, <2>2, <2>3, <2>5, <2>6, <2>7, <2>8, OneSignal
<1> QED
  BY <1>3, <1>4 DEF Admit

(* The flip turns a direction round, and without it nothing does. *)
LEMMA TradedTurns ==
  \A dir \in Directions : Traded(dir) \in Directions /\ ((dir = Traded(dir)) <=> ~Fails("flip"))
<1> TAKE dir \in Directions
<1>1. \E d \in Directions : d # dir
  BY DEF Directions
<1> QED
  BY <1>1 DEF Traded

LEMMA VetKeeps == ASSUME IInv, NEW s \in Slots, Vet(s) PROVE IInv'
<1> USE DEF engine, sync
<1>1. /\ UNCHANGED <<venue, log, engine, sync, boot, due>> /\ GuardsKept
      /\ Up /\ slot[s].at = "vet" /\ (Alone => ~Conflict(s))
  BY DEF Vet, At, Alone, Fails
<1>2. GuardStep /\ proc' = proc
  BY <1>1 DEF GuardStep, GuardsKept
<1>3. Moved(s, "order") /\ slot'[s].dir = Traded(slot[s].dir) /\ slot'[s].seen = slot[s].seen
  <2>1. slot \in [Slots -> Handlers] /\ Traded(slot[s].dir) \in Directions
    BY TradedTurns DEF IInv, StateTyped, RouterTyped, Handlers
  <2> QED
    BY <2>1 DEF Vet, Moved, Handlers, Pcs
<1>4. Stays /\ StateTyped'
  BY <1>1, <1>2, <1>3, SlotsKeepType DEF Moved, IInv, StateTyped, RouterTyped
<1>5. venue[s] = "none" /\ log[s] = "none"
  BY <1>1 DEF IInv, SlotsTell, Filling
<1>6. ExecutedWasFilled' /\ SlotsTell'
  BY <1>1, <1>3, <1>4, <1>5 DEF Moved, IInv, ExecutedWasFilled, SlotsTell, Filling, Stays
<1>7. Known' = Known /\ Listed' = Listed /\ Handled' = Handled
  BY <1>1, <1>3 DEF Moved, Known, Listed, Handled, InHand, Pcs
<1>8. OpenIsKnown' /\ NoneBefore' /\ OneHandler'
  BY <1>1, <1>2, <1>4, <1>7 DEF IInv, OpenIsKnown, NoneBefore, OneHandler, Stays, Up
<1>9. KnownAgree'
  <2> SUFFICES ASSUME Alone PROVE KnownAgree'
    BY <1>4 DEF KnownAgree, Stays
  <2>1. \A o \in Slots \ {s} : slot'[o].dir = slot[o].dir
    BY <1>3 DEF Moved
  <2>2. Cardinality(Listed) < MaxPerPair
    <3>1. ~(Cardinality(Listed) >= MaxPerPair)
      BY <1>1 DEF Conflict
    <3>2. Cardinality(Listed) \in Nat
      BY SmallerSets DEF Listed
    <3> DEFINE l == Cardinality(Listed)
    <3> HIDE DEF l
    <3>3. ~(l >= MaxPerPair) /\ l \in Nat
      BY <3>1, <3>2 DEF l
    <3>4. l < MaxPerPair
      BY <3>3, RouterAssumption
    <3> QED
      BY <3>4 DEF l
  <2>3. faults' = faults /\ Known \subseteq Slots \ {s} /\ Listed \subseteq Known
    BY <1>1, <1>4, <1>5 DEF Known, Listed, Stays
  <2>4. \A o \in Listed : Agree(o, s)'
    <3> TAKE o \in Listed
    <3>1. slot[o].dir = slot[s].dir /\ slot[s].dir \in Directions
      BY <1>1 DEF Conflict, IInv, StateTyped, RouterTyped, Handlers
    <3>2. slot'[o].dir = slot[s].dir
      BY <2>1, <2>3, <3>1
    <3> QED
      BY <1>3, <2>3, <3>1, <3>2, TradedTurns DEF Agree, Fails
  <2>5. \A q \in Slots : slot'[q].at = "order" =>
          Cardinality(Listed') < MaxPerPair /\ \A o \in Listed' : Agree(o, q)'
    <3> TAKE q \in Slots
    <3> HAVE slot'[q].at = "order"
    <3>1. q = s
      BY <1>1, <1>3 DEF Moved, IInv, OneHandler, Handled, InHand, Pcs
    <3> QED
      BY <1>7, <2>2, <2>4, <3>1
  <2>6. \A q, o \in Known' : q # o => Agree(q, o)'
    <3> TAKE q, o \in Known'
    <3> HAVE q # o
    <3>1. Agree(q, o) /\ slot'[q].dir = slot[q].dir /\ slot'[o].dir = slot[o].dir
      BY <1>7, <2>1, <2>3 DEF IInv, KnownAgree
    <3> QED
      BY <2>3, <3>1 DEF Agree, Fails
  <2> QED
    BY <1>7, <2>5, <2>6 DEF IInv, KnownAgree
<1>10. CountFollows'
  <2>1. /\ \A o \in Slots : slot'[o].at = "write" => slot[o].at = "write" /\ slot'[o].seen = slot[o].seen
        /\ \A o \in Slots : slot[o].at \in Filling => slot'[o].at \in Filling
    BY <1>1, <1>3 DEF Moved, Filling
  <2> QED
    BY <1>1, <1>4, <2>1, CountKept DEF IInv, Stays
<1> QED
  BY <1>4, <1>6, <1>8, <1>9, <1>10 DEF IInv

LEMMA OrderKeeps == ASSUME IInv, NEW s \in Slots, Order(s) PROVE IInv'
<1> USE DEF engine, sync
<1>1. /\ GuardsKept /\ UNCHANGED <<log, active, trades, touched, sync, boot, due>>
      /\ Up /\ slot[s].at = "order"
  BY DEF Order, At
<1>2. GuardStep /\ proc' = proc
  BY <1>1 DEF GuardStep, GuardsKept
<1>3. CASE NoTrade /\ Refused(s)
  BY <1>1, <1>2, <1>3, RefusedKeeps DEF NoTrade
<1>4. ASSUME ~Alone, NoTrade, Goto(s, "row"), Fails("order") PROVE IInv'
  <2>1. Moved(s, "row")
    BY <1>4, GotoMoves DEF IInv, StateTyped, RouterTyped, Pcs
  <2>2. Stays /\ StateTyped'
    BY <1>1, <1>2, <1>4, <2>1, SlotsKeepType DEF NoTrade, Moved, IInv, StateTyped, RouterTyped
  <2>3. ExecutedWasFilled' /\ SlotsTell'
    BY <1>1, <1>4, <2>1, <2>2 DEF NoTrade, Fails, Moved, IInv, ExecutedWasFilled, SlotsTell, Filling, Stays
  <2>4. NoneBefore'
    BY <1>1, <1>2 DEF IInv, NoneBefore, Handled, InHand, Pcs, Up
  <2> QED
    BY <1>4, <2>2, <2>3, <2>4 DEF IInv, OneHandler, OpenIsKnown, KnownAgree, CountFollows, Stays
<1>5. ASSUME Filled(s), NEW pc \in {"row", "done"}, Moved(s, pc), slot'[s].dir = slot[s].dir,
             pc = "done" => ~Alone
      PROVE  IInv'
  <2>1. /\ venue' \in [Slots -> {"none", "open", "closed"}] /\ opened' \in Nat
        /\ venue'[s] = "open" /\ \A o \in Slots \ {s} : venue'[o] = venue[o]
    BY <1>5 DEF Filled, IInv, StateTyped, RouterTyped
  <2>2. Stays /\ StateTyped'
    BY <1>1, <1>2, <1>5, <2>1, SlotsKeepType DEF Moved, IInv, StateTyped, RouterTyped
  <2>3. log[s] = "none"
    BY <1>1 DEF IInv, SlotsTell, Filling
  <2>4. ExecutedWasFilled' /\ SlotsTell'
    BY <1>1, <1>5, <2>1, <2>2, <2>3 DEF Moved, IInv, ExecutedWasFilled, SlotsTell, Filling, Stays
  <2>5. Handled' \subseteq Handled
    BY <1>1, <1>5 DEF Moved, Handled, InHand, Pcs
  <2>6. NoneBefore' /\ OneHandler'
    BY <1>1, <1>2, <2>2, <2>5 DEF IInv, NoneBefore, OneHandler, Stays, Up
  <2>7. CASE ~Alone
    BY <2>2, <2>4, <2>6, <2>7 DEF IInv, OpenIsKnown, KnownAgree, CountFollows, Stays
  <2>8. CASE Alone
    <3>1. pc = "row" /\ \A o \in Slots \ {s} : slot[o].at \notin InHand
      BY <1>1, <1>5, <2>8 DEF IInv, OneHandler, Handled, InHand, Pcs
    <3>2. Known = Listed /\ Listed' = Listed /\ Known' = Listed \cup {s}
      BY <1>1, <1>5, <3>1 DEF Moved, Known, Listed, InHand, Pcs
    <3>3. OpenIsKnown'
      BY <1>5, <2>1, <2>2, <3>2 DEF IInv, OpenIsKnown, Stays
    <3>4. Cardinality(Known') <= MaxPerPair
      <4> DEFINE l == Cardinality(Listed)
                 k == Cardinality(Listed \cup {s})
      <4>1. l \in Nat /\ k \in Nat /\ k <= l + 1
        BY OneMore DEF Listed
      <4>2. l < MaxPerPair
        BY <1>1, <2>8 DEF IInv, KnownAgree
      <4> HIDE DEF l, k
      <4>3. k <= MaxPerPair
        BY <4>1, <4>2, RouterAssumption
      <4> QED
        BY <3>2, <4>3 DEF k
    <3>5. \A q, o \in Known' : q # o => Agree(q, o)'
      <4> TAKE q, o \in Known'
      <4> HAVE q # o
      <4>1. faults' = faults /\ \A a \in Slots : slot'[a].dir = slot[a].dir
        BY <1>5, <2>2 DEF Moved, Stays
      <4>2. q \in Slots /\ o \in Slots /\ (q \in Known \/ q = s) /\ (o \in Known \/ o = s)
        BY <3>2 DEF Known
      <4>3. Agree(q, o)
        <5>1. CASE q \in Known /\ o \in Known
          BY <2>8, <5>1 DEF IInv, KnownAgree
        <5>2. CASE q = s /\ o \in Listed
          <6>1. Agree(o, s)
            BY <1>1, <2>8, <5>2 DEF IInv, KnownAgree
          <6> QED
            BY <5>2, <6>1 DEF Agree
        <5>3. CASE o = s /\ q \in Listed
          BY <1>1, <2>8, <5>3 DEF IInv, KnownAgree
        <5> QED
          BY <3>2, <4>2, <5>1, <5>2, <5>3
      <4> QED
        BY <4>1, <4>2, <4>3 DEF Agree, Fails
    <3>6. \A o \in Slots : slot'[o].at # "order"
      BY <1>5, <3>1 DEF Moved, InHand, Pcs
    <3>7. KnownAgree'
      BY <3>4, <3>5, <3>6 DEF KnownAgree
    <3>8. \A o \in Slots : slot[o].at \notin Filling /\ slot'[o].at # "write"
      BY <1>1, <1>5, <3>1 DEF Moved, Filling, InHand, Pcs
    <3>9. opened <= trades /\ opened' = opened + 1 /\ trades' = trades /\ opened \in Nat /\ trades \in Nat
      BY <1>1, <1>5, <2>8, <3>8 DEF IInv, StateTyped, RouterTyped, CountFollows, Filled
    <3>10. slot'[s].at \in Filling /\ opened' <= trades' + 1
      BY <1>5, <3>1, <3>9 DEF Moved, Filling
    <3>11. CountFollows'
      BY <3>8, <3>10 DEF CountFollows
    <3> QED
      BY <2>2, <2>4, <2>6, <3>3, <3>7, <3>11 DEF IInv
  <2> QED
    BY <2>7, <2>8
<1>6. CASE Filled(s) /\ Goto(s, "row")
  <2>1. Moved(s, "row") /\ slot'[s].dir = slot[s].dir
    BY <1>6, GotoMoves DEF IInv, StateTyped, RouterTyped, Pcs
  <2> QED
    BY <1>5, <1>6, <2>1
<1>7. CASE Fails("order") /\ Filled(s) /\ Settled(s)
  <2>1. Moved(s, "done") /\ slot'[s].dir = slot[s].dir /\ ~Alone
    BY <1>7, SettledMoves DEF IInv, StateTyped, RouterTyped, Alone, Fails
  <2> QED
    BY <1>5, <1>7, <2>1
<1> QED
  <2>1. CASE Fails("order") /\ NoTrade /\ Goto(s, "row")
    BY <1>4, <2>1 DEF Alone, Fails
  <2> QED
    BY <1>3, <1>6, <1>7, <2>1 DEF Order

LEMMA InsertKeeps == ASSUME IInv, NEW s \in Slots, InsertRow(s) PROVE IInv'
<1> USE DEF engine, sync
<1>1. /\ GuardsKept /\ UNCHANGED <<venue, engine, sync, boot, due>>
      /\ Up /\ slot[s].at = "row"
      /\ log' = [log EXCEPT ![s] = "open"] \/ (Fails("rows") /\ log' = log)
  BY DEF InsertRow, At
<1>2. GuardStep /\ proc' = proc
  BY <1>1 DEF GuardStep, GuardsKept
<1>3. Moved(s, "read") /\ slot'[s].dir = slot[s].dir /\ slot'[s].seen = slot[s].seen
  BY GotoMoves DEF InsertRow, IInv, StateTyped, RouterTyped, Pcs
<1>4. /\ log' \in [Slots -> {"none", "open"}] /\ \A o \in Slots \ {s} : log'[o] = log[o]
      /\ Alone => log'[s] = "open"
  BY <1>1 DEF IInv, StateTyped, RouterTyped, Alone, Fails
<1>5. Stays /\ StateTyped'
  BY <1>1, <1>2, <1>3, <1>4, SlotsKeepType DEF Moved, IInv, StateTyped, RouterTyped
<1>6. "order" \notin faults => venue[s] # "none"
  BY <1>1 DEF IInv, SlotsTell, Filling
<1>7. ExecutedWasFilled' /\ SlotsTell'
  BY <1>1, <1>3, <1>4, <1>5, <1>6 DEF Moved, IInv, ExecutedWasFilled, SlotsTell, Filling, Stays
<1>8. Known' \subseteq Known /\ (Alone => Known' = Known) /\ Listed' \subseteq Known
  BY <1>1, <1>3, <1>4 DEF Moved, Known, Listed
<1>9. OpenIsKnown'
  BY <1>1, <1>5, <1>8 DEF IInv, OpenIsKnown, Stays
<1>10. Handled' = Handled
  BY <1>1, <1>3 DEF Moved, Handled, InHand, Pcs
<1>11. NoneBefore' /\ OneHandler'
  BY <1>1, <1>2, <1>5, <1>10 DEF IInv, NoneBefore, OneHandler, Stays, Up
<1>12. KnownAgree'
  <2> SUFFICES ASSUME Alone PROVE KnownAgree'
    BY <1>5 DEF KnownAgree, Stays
  <2>1. \A o \in Slots : slot'[o].dir = slot[o].dir
    BY <1>3 DEF Moved
  <2>2. \A o \in Slots : slot'[o].at # "order"
    BY <1>1, <1>3 DEF Moved, IInv, OneHandler, Handled, InHand, Pcs
  <2>3. \A q, o \in Known' : q # o => Agree(q, o)'
    <3> TAKE q, o \in Known'
    <3> HAVE q # o
    <3>1. Agree(q, o) /\ q \in Slots /\ o \in Slots
      BY <1>8 DEF IInv, KnownAgree, Known
    <3> QED
      BY <1>5, <2>1, <3>1 DEF Agree, Fails, Stays
  <2> QED
    BY <1>8, <2>2, <2>3 DEF IInv, KnownAgree
<1>13. CountFollows'
  <2>1. /\ \A o \in Slots : slot'[o].at = "write" => slot[o].at = "write" /\ slot'[o].seen = slot[o].seen
        /\ \A o \in Slots : slot[o].at \in Filling => slot'[o].at \in Filling
    BY <1>1, <1>3 DEF Moved, Filling
  <2> QED
    BY <1>1, <1>5, <2>1, CountKept DEF IInv, Stays
<1> QED
  BY <1>5, <1>7, <1>9, <1>11, <1>12, <1>13 DEF IInv

(* The two halves of the count: the handler stays, or ends, with its trade.*)
LEMMA CountingKeeps ==
  ASSUME IInv, NEW s \in Slots, slot[s].at \in Filling \ {"row"}, GuardsKept, Up,
         UNCHANGED <<venue, log, boot>>, StateTyped',
         NEW pc \in {"write", "done"}, Moved(s, pc), slot'[s].dir = slot[s].dir,
         CountFollows'
  PROVE  IInv'
<1>1. Stays /\ proc' = proc
  BY KeptStays
<1>2. "order" \notin faults => venue[s] # "none"
  BY DEF IInv, SlotsTell
<1>3. ExecutedWasFilled' /\ SlotsTell'
  BY <1>1, <1>2 DEF Moved, IInv, ExecutedWasFilled, SlotsTell, Filling, Stays
<1>4. Handled' \subseteq Handled
  BY DEF Moved, Handled, InHand, Pcs, Filling
<1>5. NoneBefore' /\ OneHandler'
  BY <1>1, <1>4 DEF IInv, NoneBefore, OneHandler, Stays, Up
<1>6. Known' = Known /\ Listed' = Listed
  BY DEF Moved, Known, Listed, Filling
<1>7. OpenIsKnown'
  BY <1>1, <1>6 DEF IInv, OpenIsKnown, Stays
<1>8. KnownAgree'
  <2>1. \A o \in Slots : slot'[o].dir = slot[o].dir /\ (slot'[o].at = "order" => slot[o].at = "order")
    BY DEF Moved
  <2>2. \A o \in Known' : slot'[o].dir = slot[o].dir
    BY <2>1 DEF Known
  <2> QED
    BY <1>1, <1>6, <2>1, <2>2, AgreeKept DEF IInv, Stays
<1> QED
  BY <1>3, <1>5, <1>7, <1>8 DEF IInv

LEMMA ReadCountKeeps == ASSUME IInv, NEW s \in Slots, ReadCount(s) PROVE IInv'
<1> USE DEF engine, sync
<1>1. /\ GuardsKept /\ UNCHANGED <<venue, log, engine, sync, boot, due>>
      /\ Up /\ slot[s].at = "read"
      /\ slot' = [slot EXCEPT ![s].at = "write", ![s].seen = trades] \/ (Fails("rows") /\ Goto(s, "write"))
  BY DEF ReadCount, At
<1>2. Moved(s, "write") /\ slot'[s].dir = slot[s].dir /\ (Alone => slot'[s].seen = trades)
  <2>1. CASE slot' = [slot EXCEPT ![s].at = "write", ![s].seen = trades]
    <3>1. trades \in Nat /\ slot \in [Slots -> Handlers]
      BY DEF IInv, StateTyped, RouterTyped
    <3> QED
      BY <2>1, <3>1 DEF Moved, Handlers, Pcs
  <2>2. CASE Fails("rows") /\ Goto(s, "write")
    BY <2>2, GotoMoves DEF IInv, StateTyped, RouterTyped, Pcs, Alone, Fails
  <2> QED
    BY <1>1, <2>1, <2>2
<1>3. Stays /\ StateTyped'
  BY <1>1, <1>2, SlotsKeepType DEF Moved, IInv, StateTyped, RouterTyped, GuardStep
<1>4. CountFollows'
  <2> SUFFICES ASSUME Alone PROVE CountFollows'
    BY <1>3 DEF CountFollows, Stays
  <2>1. opened <= trades + 1 /\ opened' = opened /\ trades' = trades
    BY <1>1 DEF IInv, StateTyped, RouterTyped, CountFollows
  <2>2. slot'[s].at \in Filling /\ slot'[s].seen = trades
    BY <1>2 DEF Moved, Filling
  <2>3. \A o \in Slots : slot'[o].at = "write" => o = s
    BY <1>1, <1>2 DEF Moved, IInv, OneHandler, Handled, InHand, Pcs
  <2> QED
    BY <2>1, <2>2, <2>3 DEF CountFollows
<1>5. slot[s].at \in Filling \ {"row"}
  BY <1>1 DEF Filling
<1> QED
  BY <1>1, <1>2, <1>3, <1>4, <1>5, CountingKeeps

LEMMA WriteCountKeeps == ASSUME IInv, NEW s \in Slots, WriteCount(s) PROVE IInv'
<1> USE DEF engine, sync
<1>1. /\ GuardsKept /\ UNCHANGED <<venue, log, active, opened, roster, reloads, boot, due>>
      /\ Up /\ slot[s].at = "write" /\ Noticed
      /\ trades' = slot[s].seen + 1 /\ touched' = TRUE
  BY DEF WriteCount, At
<1>2. Moved(s, "done") /\ slot'[s].dir = slot[s].dir
  BY SettledMoves DEF WriteCount, IInv, StateTyped, RouterTyped
<1>3. Stays
  BY <1>1, KeptStays
<1>4. slot[s].seen \in Nat
  BY DEF IInv, StateTyped, RouterTyped, Handlers
<1>5. StateTyped'
  <2>1. notices' \in 0..MaxNotices
    BY <1>1, RouterAssumption DEF Noticed, IInv, StateTyped, RouterTyped
  <2>2. trades' \in Nat
    BY <1>1, <1>4
  <2>3. touched' \in BOOLEAN
    BY <1>1
  <2> QED
    BY <1>1, <1>2, <1>3, <2>1, <2>2, <2>3 DEF Moved, IInv, StateTyped, RouterTyped, Stays
<1>6. CountFollows'
  <2> SUFFICES ASSUME Alone PROVE CountFollows'
    BY <1>3 DEF CountFollows, Stays
  <2>1. opened' <= trades'
    BY <1>1, <1>4 DEF IInv, CountFollows
  <2>2. \A o \in Slots : slot'[o].at # "write"
    BY <1>1, <1>2 DEF Moved, IInv, OneHandler, Handled, InHand, Pcs
  <2> QED
    BY <2>1, <2>2 DEF CountFollows
<1>7. slot[s].at \in Filling \ {"row"}
  BY <1>1 DEF Filling
<1> QED
  BY <1>1, <1>2, <1>5, <1>6, <1>7, CountingKeeps

(***************************************************************************)
(* The trade ends, is booked, and its slot is free again.                  *)
(***************************************************************************)
(* A step that moves no handler, and fills and opens nothing. *)
LEMMA BookingKeeps ==
  ASSUME IInv, Stays, StateTyped', UNCHANGED <<slot, boot, proc, trades, opened>>,
         ExecutedWasFilled', SlotsTell', OpenIsKnown',
         Known' \subseteq Known, Listed' \subseteq Listed
  PROVE  IInv'
<1>1. NoneBefore' /\ OneHandler'
  BY DEF IInv, NoneBefore, OneHandler, Handled, Stays, Up
<1>2. KnownAgree'
  BY AgreeKept DEF IInv, Stays
<1>3. CountFollows'
  BY CountKept DEF IInv, Stays
<1> QED
  BY <1>1, <1>2, <1>3 DEF IInv

LEMMA VenueEndsKeeps == ASSUME IInv, NEW s \in Slots, VenueEnds(s) PROVE IInv'
<1> USE DEF engine, sync
<1>1. /\ GuardsKept /\ UNCHANGED <<slot, log, engine, sync, boot, due>>
      /\ venue[s] = "open" /\ venue' = [venue EXCEPT ![s] = "closed"]
  BY DEF VenueEnds
<1>2. venue' \in [Slots -> {"none", "open", "closed"}] /\ venue'[s] = "closed"
      /\ \A o \in Slots \ {s} : venue'[o] = venue[o]
  BY <1>1 DEF IInv, StateTyped, RouterTyped
<1>3. Stays /\ StateTyped' /\ proc' = proc
  BY <1>1, <1>2, SlotsKeepType, KeptStays DEF IInv, StateTyped, RouterTyped, GuardStep
<1>4. ExecutedWasFilled' /\ SlotsTell'
  BY <1>1, <1>2, <1>3 DEF IInv, ExecutedWasFilled, SlotsTell, Filling, Stays
<1>5. Known' = Known /\ Listed' = Listed
  BY <1>1 DEF Known, Listed
<1>6. OpenIsKnown'
  BY <1>2, <1>3, <1>5 DEF IInv, OpenIsKnown, Stays
<1> QED
  BY <1>1, <1>3, <1>4, <1>5, <1>6, BookingKeeps

LEMMA MonitorBooksKeeps ==
  ASSUME IInv, NEW s \in Slots, NEW result \in {"win", "loss"}, MonitorBooks(s, result)
  PROVE  IInv'
<1> USE DEF engine, sync
<1>1. /\ TradeBooked(result) /\ UNCHANGED <<slot, venue, engine, sync, boot, due>>
      /\ log[s] = "open" /\ venue[s] # "none" /\ (Alone => venue[s] = "closed")
      /\ log' = [log EXCEPT ![s] = "none"]
  BY DEF MonitorBooks, Alone, Fails
<1>2. log' \in [Slots -> {"none", "open"}] /\ log'[s] = "none"
      /\ \A o \in Slots \ {s} : log'[o] = log[o]
  BY <1>1 DEF IInv, StateTyped, RouterTyped
<1>3. GuardStep /\ proc' = proc
  BY <1>1 DEF GuardStep, TradeBooked
<1>4. Stays /\ StateTyped'
  BY <1>1, <1>2, <1>3, SlotsKeepType DEF IInv, StateTyped, RouterTyped
<1>5. ExecutedWasFilled' /\ SlotsTell'
  BY <1>1, <1>2, <1>4 DEF IInv, ExecutedWasFilled, SlotsTell, Filling, Stays
<1>6. Known' \subseteq Known /\ Listed' \subseteq Listed /\ Known \ {s} \subseteq Known'
  BY <1>1, <1>2 DEF Known, Listed
<1>7. OpenIsKnown'
  BY <1>1, <1>4, <1>6 DEF IInv, OpenIsKnown, Stays
<1> QED
  BY <1>1, <1>3, <1>4, <1>5, <1>6, <1>7, BookingKeeps

LEMMA ReleaseKeeps == ASSUME IInv, NEW s \in Slots, Release(s) PROVE IInv'
<1> USE DEF engine, sync
<1>1. /\ GuardsKept /\ UNCHANGED <<log, engine, sync, boot, due>>
      /\ slot[s].at = "done" /\ venue[s] # "open" /\ log[s] = "none"
      /\ venue' = [venue EXCEPT ![s] = "none"]
  BY DEF Release
<1>2. Moved(s, "free")
  BY RefusedMoves DEF Release, IInv, StateTyped, RouterTyped
<1>3. venue' \in [Slots -> {"none", "open", "closed"}] /\ venue'[s] = "none"
      /\ \A o \in Slots \ {s} : venue'[o] = venue[o]
  BY <1>1 DEF IInv, StateTyped, RouterTyped
<1>4. Stays /\ StateTyped' /\ proc' = proc
  BY <1>1, <1>2, <1>3, SlotsKeepType, KeptStays DEF Moved, IInv, StateTyped, RouterTyped, GuardStep
<1>5. ExecutedWasFilled' /\ SlotsTell'
  BY <1>1, <1>2, <1>3, <1>4 DEF Moved, IInv, ExecutedWasFilled, SlotsTell, Filling, Stays
<1>6. Known' = Known /\ Listed' = Listed /\ s \notin Known'
  BY <1>1, <1>2 DEF Moved, Known, Listed
<1>7. OpenIsKnown'
  BY <1>3, <1>4, <1>6 DEF IInv, OpenIsKnown, Stays
<1>8. "free" \in Pcs \ (InHand \cup {"row", "write", "order"} \cup Filling) /\ slot[s].at \notin Filling
  BY <1>1 DEF Pcs, InHand, Filling
<1> QED
  BY <1>1, <1>2, <1>4, <1>5, <1>6, <1>7, <1>8, OneSignal

-----------------------------------------------------------------------------
LEMMA StepInductive == IInv /\ FeedInv /\ [Next]_vars => IInv'
<1> SUFFICES ASSUME IInv, FeedInv, [Next]_vars PROVE IInv'
  OBVIOUS
<1>1. CASE World
  BY <1>1, GuardsAndWorld DEF World, GuardStep, EquityMoves, Dashboard, Tick, Up, router
<1>2. CASE Heartbeat
  BY <1>2, GuardsAndWorld DEF Heartbeat, GuardStep, BeatAccount, Up, router
<1>3. CASE LooksOn
  <2>1. GuardStep
    BY <1>3 DEF LooksOn, GuardStep
  <2> QED
    BY <1>3, <2>1, GuardsAndWorld, LostKeeps DEF LooksOn, router
<1>4. CASE Dies
  <2>1. GuardStep /\ Lost /\ proc' # "up"
    BY <1>4 DEF Dies, GuardStep, Crash
  <2> QED
    BY <2>1, LostKeeps
<1>5. ASSUME RailwayRestart \/ OperatorStart, IF proc' = "up" THEN Started ELSE UNCHANGED router
      PROVE  IInv'
  <2>1. GuardStep /\ ~Up
    BY <1>5 DEF GuardStep, RailwayRestart, OperatorStart, Up
  <2> QED
    BY <1>5, <2>1, GuardsAndWorld, StartedKeeps DEF router
<1>6. CASE Restarts(RailwayRestart) \/ Restarts(OperatorStart)
  BY <1>5, <1>6 DEF Restarts
<1>7. CASE ResetIfNeeded \/ Midnight \/ ResetTradesToday \/ Toggle \/ ReloadRead
           \/ \E row \in reloads : ReloadApply(row)
  <2>1. GuardsKept /\ UNCHANGED signals
    BY <1>7 DEF ResetIfNeeded, Midnight, ResetTradesToday, Toggle, ReloadRead, ReloadApply
  <2> QED
    BY <1>7, <2>1, EngineKeeps
<1>8. ASSUME NEW s \in Slots, Receive(s) \/ SignalStep(s) \/ VenueEnds(s) \/ Release(s)
      PROVE  IInv'
  BY <1>8, ReceiveKeeps, RefuseKeeps, AdmitKeeps, VetKeeps, OrderKeeps, InsertKeeps,
     ReadCountKeeps, WriteCountKeeps, VenueEndsKeeps, ReleaseKeeps DEF SignalStep
<1>9. ASSUME NEW result \in {"win", "loss"}, OthersBooked(result) PROVE IInv'
  <2>1. GuardStep /\ UNCHANGED rest /\ proc' = "up"
    BY <1>9 DEF OthersBooked, GuardStep, TradeBooked, Up, router
  <2> QED
    BY <2>1, GuardsAndWorld
<1>10. ASSUME NEW result \in {"win", "loss"}, NEW s \in Slots, MonitorBooks(s, result) PROVE IInv'
  BY <1>10, MonitorBooksKeeps
<1>11. CASE UNCHANGED vars
  <2>1. GuardsTyped' /\ faults' = faults /\ UNCHANGED rest /\ proc' = proc /\ activeDb' = activeDb
    BY <1>11 DEF vars, guards, router, world, breaker, account, IInv, StateTyped, RouterTyped, GuardsTyped
  <2>2. Stays /\ StateTyped'
    BY <2>1 DEF Stays, Alone, Up, IInv, StateTyped, RouterTyped, OneHandler, rest, signals, engine, sync
  <2>3. NoneBefore'
    BY <2>1 DEF IInv, NoneBefore, Handled, Up, rest, signals
  <2> QED
    BY <2>1, <2>2, <2>3, SameSignals DEF rest, engine
<1>12. CASE Feed(Subscribed) \/ Feed(ChannelFails) \/ Feed(Reconnect)
  <2>1. GuardStep
    BY <1>12 DEF Feed, GuardStep, FeedInv, ChannelFails, Reconnect
  <2>2. IF proc' = "up" THEN UNCHANGED rest ELSE Lost
    BY <1>12 DEF Feed
  <2> QED
    BY <2>1, <2>2, GuardsAndWorld, LostKeeps
<1>13. CASE Listen
  BY <1>13, ListenKeeps
<1> QED
  BY <1>1, <1>2, <1>3, <1>4, <1>6, <1>7, <1>8, <1>9, <1>10, <1>11, <1>12, <1>13 DEF Next

-----------------------------------------------------------------------------
LEMMA AttemptsStayBounded ==
  /\ 0 \in 0..MaxAttempts
  /\ attempts \in 0..MaxAttempts /\ attempts < MaxAttempts => attempts + 1 \in 0..MaxAttempts
BY FeedAssumption

(* A channel with no timer behind it needs only its types.                 *)
LEMMA IdleFeed ==
  ASSUME timer = FALSE, attempts = 0, channel \in {"none", "joining", "joined", "errored"},
         (Up /\ boot # "starting") \/ channel = "none"
  PROVE  FeedInv
<1>1. attempts \in 0..MaxAttempts
  BY AttemptsStayBounded
<1>2. timer \in BOOLEAN /\ ~timer
  BY Zenon
<1> QED
  BY <1>1, <1>2, Zenon DEF FeedInv, FeedTyped

(* The same of the state a step leads to.                                  *)
LEMMA IdleFeedNext ==
  ASSUME timer' = FALSE, attempts' = 0, channel' \in {"none", "joining", "joined", "errored"},
         (Up' /\ boot' # "starting") \/ channel' = "none"
  PROVE  FeedInv'
<1>1. attempts' \in 0..MaxAttempts
  BY AttemptsStayBounded
<1>2. timer' \in BOOLEAN /\ ~timer'
  BY Zenon
<1> QED
  BY <1>1, <1>2, Zenon DEF FeedInv, FeedTyped

LEMMA FeedStarted == Init => FeedInv
BY IdleFeed DEF Init, GuardsInit, Up

LEMMA FeedKept == FeedInv /\ [Next]_vars => FeedInv'
<1> SUFFICES ASSUME FeedInv, [Next]_vars PROVE FeedInv'
  OBVIOUS
<1> USE FeedAssumption DEF FeedInv, FeedTyped, Fails, Up
<1>1. ASSUME UNCHANGED <<faults, feed>>, proc' = proc, boot' = boot \/ boot' # "starting" PROVE FeedInv'
  BY <1>1 DEF feed
<1>2. ASSUME faults' = faults, Lost PROVE FeedInv'
  BY <1>2, IdleFeedNext DEF Lost, FeedGone
<1>3. CASE World \/ Heartbeat
  BY <1>1, <1>3 DEF World, Heartbeat, EquityMoves, Dashboard, Tick, BeatAccount, world, router, rest
<1>4. CASE LooksOn
  BY <1>1, <1>2, <1>4 DEF LooksOn, BeatActive, world, router, rest
<1>5. CASE Dies
  BY <1>2, <1>5 DEF Dies, Crash, world
<1>6. ASSUME Start, ~Up, IF proc' = "up" THEN Started ELSE UNCHANGED router PROVE FeedInv'
  <2>1. CASE proc' = "up"
    BY <1>6, <2>1 DEF Started, feed, Start, world
  <2>2. CASE proc' # "up"
    <3>1. UNCHANGED <<faults, feed>>
      BY <1>6, <2>2 DEF Start, world, router
    <3> QED
      BY <1>6, <2>2, <3>1, Zenon DEF feed
  <2> QED
    BY <2>1, <2>2
<1>7. CASE Restarts(RailwayRestart) \/ Restarts(OperatorStart)
  BY <1>6, <1>7 DEF Restarts, RailwayRestart, OperatorStart
<1>8. ASSUME GuardsKept, boot' = boot \/ boot' # "starting" PROVE FeedInv'
  BY <1>1, <1>8 DEF GuardsKept, world
<1>9. CASE ResetIfNeeded \/ Midnight \/ ResetTradesToday \/ Toggle \/ ReloadRead
           \/ \E row \in reloads : ReloadApply(row)
  BY <1>8, <1>9 DEF ResetIfNeeded, Midnight, ResetTradesToday, Toggle, ReloadRead, ReloadApply
<1>10. ASSUME NEW s \in Slots, Receive(s) \/ SignalStep(s) \/ VenueEnds(s) \/ Release(s)
       PROVE  FeedInv'
  <2>1. CASE Admit(s)
    BY <1>1, <2>1 DEF Admit, Signal, world
  <2> QED
    BY <1>8, <1>10, <2>1 DEF Receive, SignalStep, VenueEnds, Release, Refuse, Vet, Order,
       InsertRow, ReadCount, WriteCount
<1>11. ASSUME NEW result \in {"win", "loss"}, NEW s \in Slots, MonitorBooks(s, result) PROVE FeedInv'
  BY <1>1, <1>11 DEF MonitorBooks, TradeBooked, world
<1>12. ASSUME NEW result \in {"win", "loss"}, OthersBooked(result) PROVE FeedInv'
  BY <1>1, <1>12 DEF OthersBooked, TradeBooked, world, router, rest
<1>13. CASE Feed(Subscribed)
  BY <1>13, IdleFeedNext DEF Feed, Subscribed, Others, rest, Lost, FeedGone
<1>14. ASSUME NEW next \in {"errored", "joining"}, Problem(next), Fails("feed"), Up,
              boot # "starting", boot' = boot
       PROVE  FeedInv'
  <2>1. CASE attempts < MaxAttempts /\ attempts' = attempts + 1 /\ timer' = TRUE /\ channel' = next
             /\ UNCHANGED <<proc, beat>>
    <3>1. attempts' \in 0..MaxAttempts
      BY <2>1, AttemptsStayBounded
    <3>2. timer' = TRUE /\ proc' = proc /\ faults' = faults /\ Up
      BY <1>14, <2>1 DEF Problem, Others, world
    <3>3. channel' \in {"none", "joining", "joined", "errored"} /\ channel' # "joined"
      BY <2>1
    <3> QED
      BY <1>14, <3>1, <3>2, <3>3, Zenon
  <2>2. CASE FeedGone
    BY <2>2, IdleFeedNext DEF FeedGone
  <2> QED
    BY <1>14, <2>1, <2>2 DEF Problem
<1>15. CASE Feed(ChannelFails) \/ Feed(Reconnect)
  <2>1. boot' = boot
    BY <1>15 DEF Feed, rest, Lost
  <2> QED
    BY <1>14, <1>15, <2>1 DEF Feed, ChannelFails, Reconnect
<1>16. CASE Listen
  BY <1>16, IdleFeedNext DEF Listen, FeedStarts
<1>17. CASE UNCHANGED vars
  BY <1>1, <1>17 DEF vars, guards, world, router, rest
<1> QED
  BY <1>3, <1>4, <1>5, <1>7, <1>9, <1>10, <1>11, <1>12, <1>13, <1>15, <1>16, <1>17 DEF Next

LEMMA InductiveInvariant == Spec => []IInv /\ []FeedInv
<1>1. Init => IInv /\ FeedInv
  BY InitInductive, FeedStarted
<1>2. (IInv /\ FeedInv) /\ [Next]_vars => (IInv /\ FeedInv)'
  BY StepInductive, FeedKept
<1> QED
  BY <1>1, <1>2, PTL DEF Spec

(* processSignal and main keep the state well-formed.                      *)
THEOREM TypeCorrect == Spec => []TypeOK
<1>1. IInv /\ FeedInv => TypeOK
  BY DEF IInv, FeedInv, StateTyped, TypeOK
<1> QED
  BY <1>1, InductiveInvariant, PTL

(* A row of the trade log is executed only for an order that was filled,   *)
(* whatever else fails, unless orders throw or their answers name no fill  *)
(* (the order and the insert of processSignal).                            *)
THEOREM ExecutedIsFilled == Spec => []ExecutedWasFilled
<1>1. IInv => ExecutedWasFilled
  BY DEF IInv
<1> QED
  BY <1>1, InductiveInvariant, PTL

(* The gates read the log, and the order follows several awaits later: for *)
(* signals handled one at a time, whose orders, rows, reads and closes get   *)
(* through while the process lives, that is enough for the number of the   *)
(* open trades of a pair, and for their directions: they agree, or oppose  *)
(* each other when REBUILD_DIRECTION_FLIP turns them round after the gates.*)
THEOREM PairStaysGuarded == Spec => []PairIsGuarded
<1>1. IInv => PairIsGuarded
  <2> SUFFICES ASSUME IInv, Alone PROVE PairIsGuarded
    BY DEF PairIsGuarded
  <2> DEFINE open == {s \in Slots : venue[s] = "open"}
             o1 == Cardinality(open)
             k1 == Cardinality(Known)
  <2>1. open \subseteq Known
    BY DEF IInv, OpenIsKnown
  <2>2. o1 \in Nat /\ k1 \in Nat /\ o1 <= k1
    BY <2>1, SmallerSets DEF Known
  <2>3. k1 <= MaxPerPair /\ \A s, o \in open : s # o => Agree(s, o)
    BY <2>1 DEF IInv, KnownAgree
  <2> HIDE DEF o1, k1
  <2>4. o1 <= MaxPerPair
    BY <2>2, <2>3, RouterAssumption
  <2> QED
    BY <2>3, <2>4 DEF PairIsGuarded, o1
<1> QED
  BY <1>1, InductiveInvariant, PTL

(* Read and write of trades_today lose no trade while signals are handled  *)
(* one at a time, also when the midnight reset comes between the two.      *)
THEOREM NoTradeUncounted == Spec => []NoneUncounted
<1>1. IInv => NoneUncounted
  <2> SUFFICES ASSUME IInv, Alone, Handled = {} PROVE trades >= opened
    BY DEF NoneUncounted
  <2>1. \A s \in Slots : slot[s].at \notin Filling
    BY DEF Handled, InHand, Pcs, Filling
  <2> QED
    BY <2>1 DEF IInv, StateTyped, RouterTyped, CountFollows
<1> QED
  BY <1>1, InductiveInvariant, PTL

(* createAndSubscribe: a channel that works is not torn down, however      *)
(* problems, timers and joins follow each other.                           *)
THEOREM WorkingFeedIsLeftAlone == Spec => WorkingFeedStays
<1>1. FeedInv /\ [Next]_vars => [channel = "joined" => channel' # "joining"]_vars
  <2> SUFFICES ASSUME FeedInv, Next, channel = "joined" PROVE channel' # "joining"
    OBVIOUS
  <2>1. Up /\ ~timer
    BY DEF FeedInv
  <2>2. ASSUME UNCHANGED feed PROVE channel' # "joining"
    BY <2>2 DEF feed
  <2>3. ASSUME Lost PROVE channel' # "joining"
    BY <2>3 DEF Lost, FeedGone
  <2>4. CASE World \/ Heartbeat \/ LooksOn \/ Dies
    BY <2>2, <2>3, <2>4 DEF World, Heartbeat, LooksOn, Dies, router
  <2>5. CASE Restarts(RailwayRestart) \/ Restarts(OperatorStart)
    BY <2>1, <2>5 DEF Restarts, RailwayRestart, OperatorStart, Up
  <2>6. CASE ResetIfNeeded \/ Midnight \/ ResetTradesToday \/ Toggle \/ ReloadRead
             \/ \E row \in reloads : ReloadApply(row)
    BY <2>2, <2>6 DEF ResetIfNeeded, Midnight, ResetTradesToday, Toggle, ReloadRead,
       ReloadApply, GuardsKept
  <2>7. ASSUME NEW s \in Slots, Receive(s) \/ SignalStep(s) \/ VenueEnds(s) \/ Release(s)
        PROVE  channel' # "joining"
    BY <2>2, <2>7 DEF Receive, SignalStep, VenueEnds, Release, Refuse, Admit, Vet, Order,
       InsertRow, ReadCount, WriteCount, GuardsKept
  <2>8. ASSUME NEW result \in {"win", "loss"},
               OthersBooked(result) \/ \E s \in Slots : MonitorBooks(s, result)
        PROVE  channel' # "joining"
    BY <2>2, <2>8 DEF OthersBooked, MonitorBooks, router
  <2>9. CASE Feed(Subscribed) \/ Feed(ChannelFails) \/ Feed(Reconnect)
    BY <2>1, <2>9 DEF Feed, Subscribed, ChannelFails, Reconnect, Problem, FeedGone
  <2>10. CASE Listen
    BY <2>1, <2>10 DEF FeedInv, Listen
  <2> QED
    BY <2>4, <2>5, <2>6, <2>7, <2>8, <2>9, <2>10 DEF Next
<1> QED
  BY <1>1, InductiveInvariant, PTL DEF Spec, WorkingFeedStays

=============================================================================
