--------------------------- MODULE ScalperDayProofs --------------------------
(***************************************************************************)
(* Proofs about ScalperDay for any number of orders, ratchets and lives of *)
(* the process, any gains, findings and signals, and any choice of faults. *)
(***************************************************************************)
EXTENDS ScalperDay, TLAPS

Ticks == [at : {"idle"} \cup ExitPcs \cup EntryPcs, held : Days, list : SUBSET Orders,
          todo : SUBSET Orders, cur : Orders \cup {NoTrade}]
Crons == [at : CronPcs, todo : SUBSET Orders, cur : Orders \cup {NoTrade}]

Late     == clock \in {"after", "evening"}
Filled(t) == venue[t] # "none"

(* No close that OANDA cancelled is taken for done; one that is, is of a   *)
(* force-close or of the cron, both of which come late.                    *)
Honest   == \A F \in FaultSets : "closeCancel" \notin F
Ended(t) == Filled(t) /\ (venue[t] = "open" => Late /\ ~Honest)

(* Where the tick holds a trade: of its own list, one it force-closes, or  *)
(* one it has just opened; and where it is about to mirror it.             *)
InHand     == {"win", "win sync", "win mirror", "win day", "ratchet",
               "loss", "loss sync", "loss mirror", "others"}
FlatPcs    == {"flat", "flat row", "flat sync", "flat mirror", "next", "mark"}
EndedPcs   == {"win", "win sync", "win mirror", "loss", "loss sync", "loss mirror",
               "flat row", "flat sync", "flat mirror"}
MirrorPcs  == {"win mirror", "loss mirror", "flat mirror"}
HoldingPcs == InHand \cup EndedPcs \cup {"mark", "insert"}

(* What tick and cron hold was filled, and has ended while it is booked.   *)
RowsAreFilled == \A t \in Orders : row[t] # "none" => Filled(t)

TickHolds ==
  /\ tick.at \in HoldingPcs => tick.cur \in Orders /\ Filled(tick.cur)
  /\ \A t \in tick.todo \cup tick.list : Filled(t)
  /\ tick.at \in EndedPcs => Ended(tick.cur)

CronHolds ==
  /\ cron.at \in {"close", "row", "sync", "mirror"} => cron.cur \in Orders /\ Filled(cron.cur)
  /\ \A t \in cron.todo : Filled(t)
  /\ cron.at \in {"row", "sync", "mirror"} => Ended(cron.cur)

(* Tick and cron may both find no mirror and both insert one.              *)
MirrorRace ==
  /\ tick.at \in MirrorPcs => mirrors[tick.cur] <= 1
  /\ cron.at = "mirror" => mirrors[cron.cur] <= 1
  /\ tick.at \in MirrorPcs /\ cron.at = "mirror" /\ tick.cur = cron.cur => mirrors[tick.cur] = 0

(* At the most one row is open, so a tick wins, loses and ratchets once.   *)
OneRow ==
  /\ \A t, u \in Orders : row[t] = "null" /\ row[u] = "null" => t = u
  /\ tick.at \in {"order", "insert"} => \A t \in Orders : row[t] # "null"
  /\ \A t, u \in tick.list : t = u
  /\ tick.at = "poll" => tick.todo \subseteq tick.list
  /\ tick.at \in InHand => tick.todo = {} /\ tick.list \subseteq {tick.cur}

(* A day that goes on has a ratchet left, and the tick that found it going *)
(* on keeps that one for the win it may find.                              *)
RatchetsLeft ==
  /\ ~day.stopped => day.ratchets < MaxRatchets
  /\ tick.at \in {"open", "win", "win sync", "win mirror", "win day"} =>
       day.ratchets < MaxRatchets
  /\ tick.at = "poll" /\ tick.todo # {} => day.ratchets < MaxRatchets
  /\ tick.at = "ratchet" => tick.held.ratchets < MaxRatchets

(* Orders are for a day that goes on and sent before 16:00; the cron, the  *)
(* failed closes and their retries are later.                              *)
Timely ==
  /\ tick.at \in {"check", "order"} => day.live /\ ~day.stopped
  /\ tick.at \in {"check", "order", "insert"} => ~Late
  /\ cron.at # "idle" \/ tick.at \in FlatPcs => Late
  /\ \A t \in Orders : row[t] = "force_flat_failed" => Late

(* A booked loss has stopped the day, or the tick is on the way to do so.  *)
LossStops ==
  Reliable => \A t \in Orders : row[t] = "loss" =>
    day.stopped \/ tick.at \in {"loss sync", "loss mirror", "others", "stop"}

(* Without lost orders and rows, what was filled has a row or is about to. *)
FillsAreSeen ==
  faults \cap {"db", "order", "crash"} = {} =>
    \A t \in Orders : Filled(t) => row[t] # "none" \/ (tick.at = "insert" /\ tick.cur = t)

(* What is booked or mirrored has ended.                                   *)
BookedAreEnded == \A t \in Orders : row[t] \in Booked \/ Mirrored(t) => Ended(t)

TradingInv ==
  /\ DayTypeOK /\ ScalperTypeOK /\ RowsAreFilled /\ TickHolds /\ CronHolds /\ MirrorRace
  /\ OneRow /\ RatchetsLeft /\ Timely /\ LossStops /\ FillsAreSeen
  /\ BookedAreEnded /\ OneOpenTrade

(* What a run of the detector has found is the first decision of the day,  *)
(* and what it is about to write of the omega engine is not yet written.   *)
DetectorInv ==
  /\ AmdTypeOK
  /\ ~Fails("db") /\ det = "upsert" => kept = amd.decision
  /\ faults \cap {"db", "lookup"} = {} =>
       /\ det \in {"due", "lock", "pull", "snapshot", "upsert"} => amd.decision = "none"
       /\ amd.decision = "none" => omega = "old" /\ window = "over"
       /\ det \in {"mode", "direction", "expiry"} => amd.decision = found /\ window = "over"
       /\ det \in {"mode", "direction"} => omega = "old"

-----------------------------------------------------------------------------
TickPcs == {"idle"} \cup ExitPcs \cup EntryPcs

LEMMA NoDayTyped == NoDay \in Days
BY ScalperAssumption DEF NoDay, Days

LEMMA IdleTyped == IdleTick \in Ticks /\ IdleCron \in Crons
BY NoDayTyped DEF IdleTick, IdleCron, Ticks, Crons, CronPcs

(* What the tick and the cron keep of what they hold. *)
LEMMA ToTyped ==
  ASSUME tick \in Ticks
  PROVE  \A label \in TickPcs :
           /\ To(label) \in Ticks
           /\ To(label).at = label
           /\ label \in {"idle", "entry", "stop"} => To(label).todo = {} /\ To(label).list = {}
           /\ label \notin {"idle", "entry", "stop"} =>
                To(label).todo = tick.todo /\ To(label).list = tick.list
           /\ label \notin {"idle", "entry", "stop", "poll", "flat", "next"} =>
                To(label).cur = tick.cur /\ To(label).held = tick.held
<1> SUFFICES ASSUME NEW label \in TickPcs
             PROVE  /\ To(label) \in Ticks
                    /\ To(label).at = label
                    /\ label \in {"idle", "entry", "stop"} =>
                         To(label).todo = {} /\ To(label).list = {}
                    /\ label \notin {"idle", "entry", "stop"} =>
                         To(label).todo = tick.todo /\ To(label).list = tick.list
                    /\ label \notin {"idle", "entry", "stop", "poll", "flat", "next"} =>
                         To(label).cur = tick.cur /\ To(label).held = tick.held
  OBVIOUS
<1>1. CASE label \in {"idle", "entry", "stop"}
  BY <1>1, NoDayTyped DEF To, Ticks, TickPcs, IdleTick
<1>2. CASE label \in {"poll", "flat", "next"}
  BY <1>2, NoDayTyped DEF To, Ticks, TickPcs
<1>3. CASE label \notin {"idle", "entry", "stop", "poll", "flat", "next"}
  BY <1>3 DEF To, Ticks, TickPcs
<1> QED
  BY <1>1, <1>2, <1>3

LEMMA TickRests ==
  ASSUME tick \in Ticks
  PROVE  \A label \in {"idle", "entry", "stop"} : Goto(label) =>
           tick' \in Ticks /\ tick'.at = label /\ tick'.todo = {} /\ tick'.list = {}
<1> SUFFICES ASSUME NEW label \in {"idle", "entry", "stop"}, Goto(label)
             PROVE  tick' \in Ticks /\ tick'.at = label /\ tick'.todo = {} /\ tick'.list = {}
  OBVIOUS
<1>1. label \in TickPcs
  BY DEF TickPcs, ExitPcs, EntryPcs
<1> QED
  BY <1>1, ToTyped DEF Goto

LEMMA TickTurns ==
  ASSUME tick \in Ticks
  PROVE  \A label \in {"poll", "flat", "next"} : Goto(label) =>
           /\ tick' \in Ticks /\ tick'.at = label
           /\ tick'.todo = tick.todo /\ tick'.list = tick.list
<1> SUFFICES ASSUME NEW label \in {"poll", "flat", "next"}, Goto(label)
             PROVE  /\ tick' \in Ticks /\ tick'.at = label
                    /\ tick'.todo = tick.todo /\ tick'.list = tick.list
  OBVIOUS
<1>1. label \in TickPcs
  BY DEF TickPcs, ExitPcs, EntryPcs
<1> QED
  BY <1>1, ToTyped DEF Goto

Carrying == TickPcs \ {"idle", "entry", "stop", "poll", "flat", "next"}

LEMMA TickCarries ==
  ASSUME tick \in Ticks
  PROVE  \A label \in Carrying : Goto(label) =>
           /\ tick' \in Ticks /\ tick'.at = label
           /\ tick'.todo = tick.todo /\ tick'.list = tick.list
           /\ tick'.cur = tick.cur /\ tick'.held = tick.held
BY ToTyped DEF Goto, Carrying

LEMMA TickReadsDay ==
  ASSUME tick \in Ticks, day \in Days
  PROVE  \A label \in Carrying : tick' = [To(label) EXCEPT !.held = day] =>
           /\ tick' \in Ticks /\ tick'.at = label /\ tick'.held = day
           /\ tick'.todo = tick.todo /\ tick'.list = tick.list /\ tick'.cur = tick.cur
<1> SUFFICES ASSUME NEW label \in Carrying, tick' = [To(label) EXCEPT !.held = day]
             PROVE  /\ tick' \in Ticks /\ tick'.at = label /\ tick'.held = day
                    /\ tick'.todo = tick.todo /\ tick'.list = tick.list /\ tick'.cur = tick.cur
  OBVIOUS
<1>1. /\ To(label) \in Ticks /\ To(label).at = label
      /\ To(label).todo = tick.todo /\ To(label).list = tick.list /\ To(label).cur = tick.cur
  BY ToTyped DEF Carrying
<1> QED
  BY <1>1 DEF Ticks

LEMMA TickLoads ==
  ASSUME tick \in Ticks
  PROVE  \A trades \in SUBSET Orders :
           /\ tick' = [To("flat") EXCEPT !.todo = trades] =>
                /\ tick' \in Ticks /\ tick'.at = "flat"
                /\ tick'.todo = trades /\ tick'.list = tick.list
           /\ tick' = [To("poll") EXCEPT !.list = trades, !.todo = trades] =>
                /\ tick' \in Ticks /\ tick'.at = "poll"
                /\ tick'.todo = trades /\ tick'.list = trades
<1> SUFFICES ASSUME NEW trades \in SUBSET Orders
             PROVE  /\ tick' = [To("flat") EXCEPT !.todo = trades] =>
                         /\ tick' \in Ticks /\ tick'.at = "flat"
                         /\ tick'.todo = trades /\ tick'.list = tick.list
                    /\ tick' = [To("poll") EXCEPT !.list = trades, !.todo = trades] =>
                         /\ tick' \in Ticks /\ tick'.at = "poll"
                         /\ tick'.todo = trades /\ tick'.list = trades
  OBVIOUS
<1>1. /\ To("flat") \in Ticks /\ To("flat").at = "flat" /\ To("flat").list = tick.list
      /\ To("poll") \in Ticks /\ To("poll").at = "poll"
  BY ToTyped DEF TickPcs, ExitPcs
<1> QED
  BY <1>1 DEF Ticks

LEMMA TickTakes ==
  ASSUME tick \in Ticks, NEW t \in Orders
  PROVE  \A label \in TickPcs \ {"idle", "entry", "stop"} : Takes(t, label) =>
           /\ tick' \in Ticks
           /\ tick'.at = label /\ tick'.cur = t
           /\ tick'.todo = tick.todo \ {t} /\ tick'.list = tick.list
<1> SUFFICES ASSUME NEW label \in TickPcs \ {"idle", "entry", "stop"}, Takes(t, label)
             PROVE  /\ tick' \in Ticks
                    /\ tick'.at = label /\ tick'.cur = t
                    /\ tick'.todo = tick.todo \ {t} /\ tick'.list = tick.list
  OBVIOUS
<1>1. /\ To(label) \in Ticks /\ To(label).at = label
      /\ To(label).todo = tick.todo /\ To(label).list = tick.list
  BY ToTyped
<1>2. tick' = [To(label) EXCEPT !.todo = @ \ {t}, !.cur = t]
  BY DEF Takes
<1> QED
  BY <1>1, <1>2 DEF Ticks

LEMMA CronGoes ==
  ASSUME cron \in Crons
  PROVE  \A label \in CronPcs : Cron(label) =>
           /\ cron' \in Crons
           /\ cron'.at = label
           /\ label = "done" => cron'.todo = {}
           /\ label # "done" => cron'.todo = cron.todo
           /\ label \notin {"done", "each"} => cron'.cur = cron.cur
<1> SUFFICES ASSUME NEW label \in CronPcs, Cron(label)
             PROVE  /\ cron' \in Crons
                    /\ cron'.at = label
                    /\ label = "done" => cron'.todo = {}
                    /\ label # "done" => cron'.todo = cron.todo
                    /\ label \notin {"done", "each"} => cron'.cur = cron.cur
  OBVIOUS
<1>1. CASE label = "done"
  BY <1>1 DEF Cron, Crons, CronPcs, IdleCron
<1>2. CASE label = "each"
  BY <1>2 DEF Cron, Crons, CronPcs
<1>3. CASE label \notin {"done", "each"}
  BY <1>3 DEF Cron, Crons, CronPcs
<1> QED
  BY <1>1, <1>2, <1>3

LEMMA Typed == TradingInv => tick \in Ticks /\ cron \in Crons /\ day \in Days
BY DEF TradingInv, ScalperTypeOK, Ticks, Crons


(* A step of the tick alone disturbs only what is said of it. *)
LEMMA TickOnly ==
  ASSUME TradingInv,
         UNCHANGED <<faults, up, lives, clock, gain, day, row, mirrors, venue, tp, cron>>,
         tick' \in Ticks, TickHolds', MirrorRace', OneRow', RatchetsLeft', Timely',
         LossStops', FillsAreSeen'
  PROVE  TradingInv'
<1>1. DayTypeOK'
  BY DEF TradingInv, DayTypeOK
<1>2. ScalperTypeOK'
  BY DEF TradingInv, ScalperTypeOK, Ticks
<1>3. RowsAreFilled'
  BY DEF TradingInv, RowsAreFilled, Filled
<1>4. CronHolds'
  BY DEF TradingInv, CronHolds, Filled, Ended, Late
<1>5. BookedAreEnded'
  BY DEF TradingInv, BookedAreEnded, Mirrored, Filled, Ended, Late
<1>6. OneOpenTrade'
  BY DEF TradingInv, OneOpenTrade
<1> QED
  BY <1>1, <1>2, <1>3, <1>4, <1>5, <1>6 DEF TradingInv

LEMMA ReadThrowsKeeps ==
  ASSUME TradingInv, ReadThrows
  PROVE  TradingInv'
<1>1. UNCHANGED <<faults, up, lives, clock, gain, day, row, mirrors, venue, tp, cron>>
  BY DEF ReadThrows, dayVars, tables, broker
<1>2. /\ tick.at \in {"failed", "open", "win sync", "win day", "loss sync", "entry", "check"}
      /\ Fails("db")
  BY DEF ReadThrows, At
<1>3. /\ tick' \in Ticks
      /\ tick'.at = "idle"
      /\ tick'.todo = {}
      /\ tick'.list = {}
  BY <1>2, Typed, TickRests, TickTurns, TickCarries
     DEF ReadThrows, Carrying, TickPcs, ExitPcs, EntryPcs
<1>4. TickHolds'
  BY <1>1, <1>2, <1>3 DEF TradingInv, TickHolds, Filled, Ended, HoldingPcs, InHand, EndedPcs
<1>5. MirrorRace'
  BY <1>1, <1>2, <1>3 DEF TradingInv, MirrorRace, MirrorPcs
<1>6. OneRow'
  BY <1>1, <1>2, <1>3 DEF TradingInv, OneRow, InHand
<1>7. RatchetsLeft'
  BY <1>1, <1>2, <1>3 DEF TradingInv, RatchetsLeft
<1>8. Timely'
  BY <1>1, <1>2, <1>3 DEF TradingInv, Timely, Late, FlatPcs
<1>9. LossStops'
  BY <1>1, <1>2, <1>3 DEF TradingInv, LossStops, Reliable, Fails
<1>10. FillsAreSeen'
  BY <1>1, <1>2, <1>3 DEF TradingInv, FillsAreSeen, Filled, Fails
<1> QED
  BY <1>1, <1>3, <1>4, <1>5, <1>6, <1>7, <1>8, <1>9, <1>10, TickOnly

LEMMA ReadDayKeeps ==
  ASSUME TradingInv, ReadDay
  PROVE  TradingInv'
<1>1. UNCHANGED <<faults, up, lives, clock, gain, day, row, mirrors, venue, tp, cron>>
  BY DEF ReadDay, dayVars, tables, broker
<1>2. tick.at = "idle"
  BY DEF ReadDay, At
<1>3. /\ tick' \in Ticks
      /\ \/ ~day.live /\ tick'.at = "entry" /\ tick'.todo = {} /\ tick'.list = {}
         \/ /\ day.stopped /\ tick'.at = "failed" /\ tick'.todo = tick.todo
            /\ tick'.list = tick.list
         \/ /\ ~day.stopped /\ tick'.at = "open" /\ tick'.todo = tick.todo
            /\ tick'.list = tick.list
  BY <1>2, Typed, TickRests, TickTurns, TickCarries
     DEF ReadDay, Carrying, TickPcs, ExitPcs, EntryPcs
<1>4. TickHolds'
  BY <1>1, <1>2, <1>3 DEF TradingInv, TickHolds, Filled, Ended, HoldingPcs, InHand, EndedPcs
<1>5. MirrorRace'
  BY <1>1, <1>2, <1>3 DEF TradingInv, MirrorRace, MirrorPcs
<1>6. OneRow'
  BY <1>1, <1>2, <1>3 DEF TradingInv, OneRow, InHand
<1>7. RatchetsLeft'
  BY <1>1, <1>2, <1>3 DEF TradingInv, RatchetsLeft
<1>8. Timely'
  BY <1>1, <1>2, <1>3 DEF TradingInv, Timely, Late, FlatPcs
<1>9. LossStops'
  BY <1>1, <1>2, <1>3 DEF TradingInv, LossStops, Reliable
<1>10. FillsAreSeen'
  BY <1>1, <1>2, <1>3 DEF TradingInv, FillsAreSeen, Filled
<1> QED
  BY <1>1, <1>3, <1>4, <1>5, <1>6, <1>7, <1>8, <1>9, <1>10, TickOnly

LEMMA PollDoneKeeps ==
  ASSUME TradingInv, PollDone
  PROVE  TradingInv'
<1>1. UNCHANGED <<faults, up, lives, clock, gain, day, row, mirrors, venue, tp, cron>>
  BY DEF PollDone, dayVars, tables, broker
<1>2. tick.at = "poll"
  BY DEF PollDone, At
<1>3. /\ tick' \in Ticks
      /\ tick'.at = "entry"
      /\ tick'.todo = {}
      /\ tick'.list = {}
  BY <1>2, Typed, TickRests, TickTurns, TickCarries
     DEF PollDone, Carrying, TickPcs, ExitPcs, EntryPcs
<1>4. TickHolds'
  BY <1>1, <1>2, <1>3 DEF TradingInv, TickHolds, Filled, Ended, HoldingPcs, InHand, EndedPcs
<1>5. MirrorRace'
  BY <1>1, <1>2, <1>3 DEF TradingInv, MirrorRace, MirrorPcs
<1>6. OneRow'
  BY <1>1, <1>2, <1>3 DEF TradingInv, OneRow, InHand
<1>7. RatchetsLeft'
  BY <1>1, <1>2, <1>3 DEF TradingInv, RatchetsLeft
<1>8. Timely'
  BY <1>1, <1>2, <1>3 DEF TradingInv, Timely, Late, FlatPcs
<1>9. LossStops'
  BY <1>1, <1>2, <1>3 DEF TradingInv, LossStops, Reliable
<1>10. FillsAreSeen'
  BY <1>1, <1>2, <1>3 DEF TradingInv, FillsAreSeen, Filled
<1> QED
  BY <1>1, <1>3, <1>4, <1>5, <1>6, <1>7, <1>8, <1>9, <1>10, TickOnly

LEMMA NextFlatKeeps ==
  ASSUME TradingInv, NextFlat
  PROVE  TradingInv'
<1>1. UNCHANGED <<faults, up, lives, clock, gain, day, row, mirrors, venue, tp, cron>>
  BY DEF NextFlat, dayVars, tables, broker
<1>2. tick.at = "next"
  BY DEF NextFlat, At
<1>3. /\ tick' \in Ticks
      /\ \/ tick'.at = "flat" /\ tick'.todo = tick.todo /\ tick'.list = tick.list
         \/ tick'.at = "entry" /\ tick'.todo = {} /\ tick'.list = {}
         \/ tick'.at = "stop" /\ tick'.todo = {} /\ tick'.list = {}
  BY <1>2, Typed, TickRests, TickTurns, TickCarries
     DEF NextFlat, Carrying, TickPcs, ExitPcs, EntryPcs
<1>4. TickHolds'
  BY <1>1, <1>2, <1>3 DEF TradingInv, TickHolds, Filled, Ended, HoldingPcs, InHand, EndedPcs
<1>5. MirrorRace'
  BY <1>1, <1>2, <1>3 DEF TradingInv, MirrorRace, MirrorPcs
<1>6. OneRow'
  BY <1>1, <1>2, <1>3 DEF TradingInv, OneRow, InHand
<1>7. RatchetsLeft'
  BY <1>1, <1>2, <1>3 DEF TradingInv, RatchetsLeft
<1>8. Timely'
  BY <1>1, <1>2, <1>3 DEF TradingInv, Timely, Late, FlatPcs
<1>9. LossStops'
  BY <1>1, <1>2, <1>3 DEF TradingInv, LossStops, Reliable
<1>10. FillsAreSeen'
  BY <1>1, <1>2, <1>3 DEF TradingInv, FillsAreSeen, Filled
<1> QED
  BY <1>1, <1>3, <1>4, <1>5, <1>6, <1>7, <1>8, <1>9, <1>10, TickOnly

LEMMA FlatSyncThrowsKeeps ==
  ASSUME TradingInv, FlatSyncThrows
  PROVE  TradingInv'
<1>1. UNCHANGED <<faults, up, lives, clock, gain, day, row, mirrors, venue, tp, cron>>
  BY DEF FlatSyncThrows, dayVars, tables, broker
<1>2. tick.at = "flat sync"
  BY DEF FlatSyncThrows, At
<1>3. /\ tick' \in Ticks
      /\ tick'.at = "mark"
      /\ tick'.todo = tick.todo
      /\ tick'.list = tick.list
      /\ tick'.cur = tick.cur
      /\ tick'.held = tick.held
  BY <1>2, Typed, TickRests, TickTurns, TickCarries
     DEF FlatSyncThrows, Carrying, TickPcs, ExitPcs, EntryPcs
<1>4. TickHolds'
  BY <1>1, <1>2, <1>3 DEF TradingInv, TickHolds, Filled, Ended, HoldingPcs, InHand, EndedPcs
<1>5. MirrorRace'
  BY <1>1, <1>2, <1>3 DEF TradingInv, MirrorRace, MirrorPcs
<1>6. OneRow'
  BY <1>1, <1>2, <1>3 DEF TradingInv, OneRow, InHand
<1>7. RatchetsLeft'
  BY <1>1, <1>2, <1>3 DEF TradingInv, RatchetsLeft
<1>8. Timely'
  BY <1>1, <1>2, <1>3 DEF TradingInv, Timely, Late, FlatPcs
<1>9. LossStops'
  BY <1>1, <1>2, <1>3 DEF TradingInv, LossStops, Reliable
<1>10. FillsAreSeen'
  BY <1>1, <1>2, <1>3 DEF TradingInv, FillsAreSeen, Filled
<1> QED
  BY <1>1, <1>3, <1>4, <1>5, <1>6, <1>7, <1>8, <1>9, <1>10, TickOnly

LEMMA CheckKeeps ==
  ASSUME TradingInv, Check
  PROVE  TradingInv'
<1>1. UNCHANGED <<faults, up, lives, clock, gain, day, row, mirrors, venue, tp, cron>>
  BY DEF Check, dayVars, tables, broker
<1>2. tick.at = "check"
  BY DEF Check, At
<1>3. /\ tick' \in Ticks
      /\ \/ /\ (\A t \in Orders : row[t] # "null") /\ tick'.at = "order"
            /\ tick'.todo = tick.todo /\ tick'.list = tick.list /\ tick'.cur = tick.cur
            /\ tick'.held = tick.held
         \/ tick'.at = "idle" /\ tick'.todo = {} /\ tick'.list = {}
  BY <1>2, Typed, TickRests, TickTurns, TickCarries
     DEF Check, Carrying, TickPcs, ExitPcs, EntryPcs, Recorded
<1>4. TickHolds'
  BY <1>1, <1>2, <1>3 DEF TradingInv, TickHolds, Filled, Ended, HoldingPcs, InHand, EndedPcs
<1>5. MirrorRace'
  BY <1>1, <1>2, <1>3 DEF TradingInv, MirrorRace, MirrorPcs
<1>6. OneRow'
  BY <1>1, <1>2, <1>3 DEF TradingInv, OneRow, InHand
<1>7. RatchetsLeft'
  BY <1>1, <1>2, <1>3 DEF TradingInv, RatchetsLeft
<1>8. Timely'
  BY <1>1, <1>2, <1>3 DEF TradingInv, Timely, Late, FlatPcs
<1>9. LossStops'
  BY <1>1, <1>2, <1>3 DEF TradingInv, LossStops, Reliable
<1>10. FillsAreSeen'
  BY <1>1, <1>2, <1>3 DEF TradingInv, FillsAreSeen, Filled
<1> QED
  BY <1>1, <1>3, <1>4, <1>5, <1>6, <1>7, <1>8, <1>9, <1>10, TickOnly

LEMMA NoOrderKeeps ==
  ASSUME TradingInv, NoOrder
  PROVE  TradingInv'
<1>1. UNCHANGED <<faults, up, lives, clock, gain, day, row, mirrors, venue, tp, cron>>
  BY DEF NoOrder, dayVars, tables, broker
<1>2. tick.at = "order"
  BY DEF NoOrder, At
<1>3. /\ tick' \in Ticks
      /\ tick'.at = "idle"
      /\ tick'.todo = {}
      /\ tick'.list = {}
  BY <1>2, Typed, TickRests, TickTurns, TickCarries
     DEF NoOrder, Carrying, TickPcs, ExitPcs, EntryPcs
<1>4. TickHolds'
  BY <1>1, <1>2, <1>3 DEF TradingInv, TickHolds, Filled, Ended, HoldingPcs, InHand, EndedPcs
<1>5. MirrorRace'
  BY <1>1, <1>2, <1>3 DEF TradingInv, MirrorRace, MirrorPcs
<1>6. OneRow'
  BY <1>1, <1>2, <1>3 DEF TradingInv, OneRow, InHand
<1>7. RatchetsLeft'
  BY <1>1, <1>2, <1>3 DEF TradingInv, RatchetsLeft
<1>8. Timely'
  BY <1>1, <1>2, <1>3 DEF TradingInv, Timely, Late, FlatPcs
<1>9. LossStops'
  BY <1>1, <1>2, <1>3 DEF TradingInv, LossStops, Reliable
<1>10. FillsAreSeen'
  BY <1>1, <1>2, <1>3 DEF TradingInv, FillsAreSeen, Filled
<1> QED
  BY <1>1, <1>3, <1>4, <1>5, <1>6, <1>7, <1>8, <1>9, <1>10, TickOnly

LEMMA EntryKeeps ==
  ASSUME TradingInv, Entry
  PROVE  TradingInv'
<1>1. UNCHANGED <<faults, up, lives, clock, gain, day, row, mirrors, venue, tp, cron>>
  BY DEF Entry, dayVars, tables, broker
<1>2. tick.at = "entry"
  BY DEF Entry, At
<1>3. /\ tick' \in Ticks
      /\ \/ tick'.at = "idle" /\ tick'.todo = {} /\ tick'.list = {}
         \/ /\ day.live /\ ~day.stopped /\ clock \in {"init", "window"}
            /\ tick'.at = "check" /\ tick'.todo = tick.todo /\ tick'.list = tick.list
  BY <1>2, Typed, TickRests, TickReadsDay
     DEF Entry, Carrying, TickPcs, ExitPcs, EntryPcs, EntryDue
<1>4. TickHolds'
  BY <1>1, <1>2, <1>3 DEF TradingInv, TickHolds, Filled, Ended, HoldingPcs, InHand, EndedPcs
<1>5. MirrorRace'
  BY <1>1, <1>2, <1>3 DEF TradingInv, MirrorRace, MirrorPcs
<1>6. OneRow'
  BY <1>1, <1>2, <1>3 DEF TradingInv, OneRow, InHand
<1>7. RatchetsLeft'
  BY <1>1, <1>2, <1>3 DEF TradingInv, RatchetsLeft
<1>8. Timely'
  BY <1>1, <1>2, <1>3 DEF TradingInv, Timely, Late, FlatPcs
<1>9. LossStops'
  BY <1>1, <1>2, <1>3 DEF TradingInv, LossStops, Reliable
<1>10. FillsAreSeen'
  BY <1>1, <1>2, <1>3 DEF TradingInv, FillsAreSeen, Filled
<1> QED
  BY <1>1, <1>3, <1>4, <1>5, <1>6, <1>7, <1>8, <1>9, <1>10, TickOnly

LEMMA WinDayKeeps ==
  ASSUME TradingInv, WinDay
  PROVE  TradingInv'
<1>1. UNCHANGED <<faults, up, lives, clock, gain, day, row, mirrors, venue, tp, cron>>
  BY DEF WinDay, dayVars, tables, broker
<1>2. tick.at = "win day"
  BY DEF WinDay, At
<1>3. /\ tick' \in Ticks
      /\ tick'.at = "ratchet"
      /\ tick'.todo = tick.todo
      /\ tick'.list = tick.list
      /\ tick'.cur = tick.cur
      /\ tick'.held = day
  BY <1>2, Typed, TickReadsDay DEF WinDay, Carrying, TickPcs, ExitPcs, EntryPcs
<1>4. TickHolds'
  BY <1>1, <1>2, <1>3 DEF TradingInv, TickHolds, Filled, Ended, HoldingPcs, InHand, EndedPcs
<1>5. MirrorRace'
  BY <1>1, <1>2, <1>3 DEF TradingInv, MirrorRace, MirrorPcs
<1>6. OneRow'
  BY <1>1, <1>2, <1>3 DEF TradingInv, OneRow, InHand
<1>7. RatchetsLeft'
  BY <1>1, <1>2, <1>3 DEF TradingInv, RatchetsLeft
<1>8. Timely'
  BY <1>1, <1>2, <1>3 DEF TradingInv, Timely, Late, FlatPcs
<1>9. LossStops'
  BY <1>1, <1>2, <1>3 DEF TradingInv, LossStops, Reliable
<1>10. FillsAreSeen'
  BY <1>1, <1>2, <1>3 DEF TradingInv, FillsAreSeen, Filled
<1> QED
  BY <1>1, <1>3, <1>4, <1>5, <1>6, <1>7, <1>8, <1>9, <1>10, TickOnly

LEMMA LoadOpenKeeps ==
  ASSUME TradingInv, LoadOpen
  PROVE  TradingInv'
<1>1. UNCHANGED <<faults, up, lives, clock, gain, day, row, mirrors, venue, tp, cron>>
  BY DEF LoadOpen, dayVars, tables, broker
<1>2. tick.at = "open"
  BY DEF LoadOpen, At
<1>3. /\ tick' \in Ticks
      /\ tick'.at = "poll"
      /\ tick'.todo = Recorded("null")
      /\ tick'.list = Recorded("null")
  BY <1>2, Typed, TickLoads DEF LoadOpen, Carrying, TickPcs, ExitPcs, EntryPcs, Recorded
<1>4. TickHolds'
  BY <1>1, <1>2, <1>3
     DEF TradingInv, TickHolds, Filled, Ended, HoldingPcs, InHand, EndedPcs, RowsAreFilled,
         Recorded
<1>5. MirrorRace'
  BY <1>1, <1>2, <1>3 DEF TradingInv, MirrorRace, MirrorPcs
<1>6. OneRow'
  BY <1>1, <1>2, <1>3 DEF TradingInv, OneRow, InHand, Recorded
<1>7. RatchetsLeft'
  BY <1>1, <1>2, <1>3 DEF TradingInv, RatchetsLeft
<1>8. Timely'
  BY <1>1, <1>2, <1>3 DEF TradingInv, Timely, Late, FlatPcs
<1>9. LossStops'
  BY <1>1, <1>2, <1>3 DEF TradingInv, LossStops, Reliable
<1>10. FillsAreSeen'
  BY <1>1, <1>2, <1>3 DEF TradingInv, FillsAreSeen, Filled
<1> QED
  BY <1>1, <1>3, <1>4, <1>5, <1>6, <1>7, <1>8, <1>9, <1>10, TickOnly

LEMMA PollSkipsKeeps ==
  ASSUME TradingInv, NEW t \in Orders, PollSkips(t)
  PROVE  TradingInv'
<1>1. UNCHANGED <<faults, up, lives, clock, gain, day, row, mirrors, venue, tp, cron>>
  BY DEF PollSkips, dayVars, tables, broker
<1>2. tick.at = "poll"
  BY DEF PollSkips, At
<1>3. /\ tick' \in Ticks
      /\ tick'.at = "poll"
      /\ tick'.todo = tick.todo \ {t}
      /\ tick'.list = tick.list
  BY <1>2, Typed DEF PollSkips, Carrying, TickPcs, ExitPcs, EntryPcs, Ticks
<1>4. TickHolds'
  BY <1>1, <1>2, <1>3 DEF TradingInv, TickHolds, Filled, Ended, HoldingPcs, InHand, EndedPcs
<1>5. MirrorRace'
  BY <1>1, <1>2, <1>3 DEF TradingInv, MirrorRace, MirrorPcs
<1>6. OneRow'
  BY <1>1, <1>2, <1>3 DEF TradingInv, OneRow, InHand
<1>7. RatchetsLeft'
  BY <1>1, <1>2, <1>3 DEF TradingInv, RatchetsLeft
<1>8. Timely'
  BY <1>1, <1>2, <1>3 DEF TradingInv, Timely, Late, FlatPcs
<1>9. LossStops'
  BY <1>1, <1>2, <1>3 DEF TradingInv, LossStops, Reliable
<1>10. FillsAreSeen'
  BY <1>1, <1>2, <1>3 DEF TradingInv, FillsAreSeen, Filled
<1> QED
  BY <1>1, <1>3, <1>4, <1>5, <1>6, <1>7, <1>8, <1>9, <1>10, TickOnly

LEMMA PollFindsKeeps ==
  ASSUME TradingInv, NEW t \in Orders, PollFinds(t)
  PROVE  TradingInv'
<1>1. UNCHANGED <<faults, up, lives, clock, gain, day, row, mirrors, venue, tp, cron>>
  BY DEF PollFinds, dayVars, tables, broker
<1>2. tick.at = "poll" /\ t \in tick.todo /\ venue[t] # "open"
  BY DEF PollFinds, At
<1>3. /\ tick' \in Ticks
      /\ tick'.at \in {"loss", "win"}
      /\ tick'.todo = tick.todo \ {t}
      /\ tick'.list = tick.list
      /\ tick'.cur = t
  BY <1>2, Typed, TickTakes DEF PollFinds, Carrying, TickPcs, ExitPcs, EntryPcs
<1>4. TickHolds'
  BY <1>1, <1>2, <1>3 DEF TradingInv, TickHolds, Filled, Ended, HoldingPcs, InHand, EndedPcs
<1>5. MirrorRace'
  BY <1>1, <1>2, <1>3 DEF TradingInv, MirrorRace, MirrorPcs
<1>6. OneRow'
  BY <1>1, <1>2, <1>3 DEF TradingInv, OneRow, InHand
<1>7. RatchetsLeft'
  BY <1>1, <1>2, <1>3 DEF TradingInv, RatchetsLeft
<1>8. Timely'
  BY <1>1, <1>2, <1>3 DEF TradingInv, Timely, Late, FlatPcs
<1>9. LossStops'
  BY <1>1, <1>2, <1>3 DEF TradingInv, LossStops, Reliable
<1>10. FillsAreSeen'
  BY <1>1, <1>2, <1>3 DEF TradingInv, FillsAreSeen, Filled
<1> QED
  BY <1>1, <1>3, <1>4, <1>5, <1>6, <1>7, <1>8, <1>9, <1>10, TickOnly

LEMMA LoadFailedKeeps ==
  ASSUME TradingInv, LoadFailed
  PROVE  TradingInv'
<1>1. UNCHANGED <<faults, up, lives, clock, gain, day, row, mirrors, venue, tp, cron>>
  BY DEF LoadFailed, dayVars, tables, broker
<1>2. tick.at = "failed"
  BY DEF LoadFailed, At
<1>3. /\ tick' \in Ticks
      /\ \/ tick'.at = "entry" /\ tick'.todo = {} /\ tick'.list = {}
         \/ /\ (\E t \in Orders : row[t] = "force_flat_failed") /\ tick'.at = "flat"
            /\ tick'.todo \subseteq Recorded("force_flat_failed")
            /\ tick'.list = tick.list
  <2>1. Recorded("force_flat_failed") \in SUBSET Orders
    BY DEF Recorded
  <2>2. CASE Recorded("force_flat_failed") = {}
    BY <2>2, Typed, TickRests DEF LoadFailed, Goto
  <2>3. CASE Recorded("force_flat_failed") # {}
    <3>1. \E t \in Orders : row[t] = "force_flat_failed"
      BY <2>3 DEF Recorded
    <3>2. tick' = [To("flat") EXCEPT !.todo = Recorded("force_flat_failed")]
      BY <2>3 DEF LoadFailed
    <3> QED
      BY <2>1, <3>1, <3>2, Typed, TickLoads
  <2> QED
    BY <2>2, <2>3
<1>4. TickHolds'
  BY <1>1, <1>2, <1>3
     DEF TradingInv, TickHolds, Filled, Ended, HoldingPcs, InHand, EndedPcs, RowsAreFilled,
         Recorded
<1>5. MirrorRace'
  BY <1>1, <1>2, <1>3 DEF TradingInv, MirrorRace, MirrorPcs
<1>6. OneRow'
  BY <1>1, <1>2, <1>3 DEF TradingInv, OneRow, InHand
<1>7. RatchetsLeft'
  BY <1>1, <1>2, <1>3 DEF TradingInv, RatchetsLeft
<1>8. Timely'
  BY <1>1, <1>2, <1>3 DEF TradingInv, Timely, Late, FlatPcs
<1>9. LossStops'
  BY <1>1, <1>2, <1>3 DEF TradingInv, LossStops, Reliable
<1>10. FillsAreSeen'
  BY <1>1, <1>2, <1>3 DEF TradingInv, FillsAreSeen, Filled
<1> QED
  BY <1>1, <1>3, <1>4, <1>5, <1>6, <1>7, <1>8, <1>9, <1>10, TickOnly

LEMMA OthersKeeps ==
  ASSUME TradingInv, Others
  PROVE  TradingInv'
<1>1. UNCHANGED <<faults, up, lives, clock, gain, day, row, mirrors, venue, tp, cron>>
  BY DEF Others, dayVars, tables, broker
<1>2. tick.at = "others"
  BY DEF Others, At
<1>3. /\ tick' \in Ticks
      /\ tick'.at = "stop"
      /\ tick'.todo = {}
      /\ tick'.list = {}
  <2>1. tick.list \ {tick.cur} = {}
    BY <1>2 DEF TradingInv, OneRow, InHand
  <2>2. Goto("stop")
    BY <2>1 DEF Others, Goto
  <2> QED
    BY <2>2, Typed, TickRests
<1>4. TickHolds'
  BY <1>1, <1>2, <1>3 DEF TradingInv, TickHolds, Filled, Ended, HoldingPcs, InHand, EndedPcs
<1>5. MirrorRace'
  BY <1>1, <1>2, <1>3 DEF TradingInv, MirrorRace, MirrorPcs
<1>6. OneRow'
  BY <1>1, <1>2, <1>3 DEF TradingInv, OneRow, InHand
<1>7. RatchetsLeft'
  BY <1>1, <1>2, <1>3 DEF TradingInv, RatchetsLeft
<1>8. Timely'
  BY <1>1, <1>2, <1>3 DEF TradingInv, Timely, Late, FlatPcs
<1>9. LossStops'
  BY <1>1, <1>2, <1>3 DEF TradingInv, LossStops, Reliable
<1>10. FillsAreSeen'
  BY <1>1, <1>2, <1>3 DEF TradingInv, FillsAreSeen, Filled
<1> QED
  BY <1>1, <1>3, <1>4, <1>5, <1>6, <1>7, <1>8, <1>9, <1>10, TickOnly

LEMMA SyncKeeps ==
  ASSUME TradingInv, NEW of \in DOMAIN Looks, Sync(of)
  PROVE  TradingInv'
<1>1. UNCHANGED <<faults, up, lives, clock, gain, day, row, mirrors, venue, tp, cron>>
  BY DEF Sync, dayVars, tables, broker
<1>2. /\ tick.at \in {"win sync", "loss sync", "flat sync"}
      /\ tick' \in Ticks /\ tick'.todo = tick.todo /\ tick'.list = tick.list
      /\ tick'.at = "next" \/ tick'.cur = tick.cur
  <2>1. CASE of = "win"
    BY <2>1, Typed, TickCarries
       DEF Sync, At, Looks, Inserts, AfterMirror, Carrying, TickPcs, ExitPcs
  <2>2. CASE of = "loss"
    BY <2>2, Typed, TickCarries
       DEF Sync, At, Looks, Inserts, AfterMirror, Carrying, TickPcs, ExitPcs
  <2>3. CASE of = "flat"
    BY <2>3, Typed, TickTurns, TickCarries
       DEF Sync, At, Looks, Inserts, AfterMirror, Carrying, TickPcs, ExitPcs
  <2> QED
    BY <2>1, <2>2, <2>3 DEF Looks
<1>3. \/ tick.at = "win sync" /\ tick'.at \in {"win day", "win mirror"}
      \/ tick.at = "loss sync" /\ tick'.at \in {"others", "loss mirror"}
      \/ tick.at = "flat sync" /\ tick'.at \in {"next", "flat mirror"}
  <2>1. CASE of = "win"
    BY <2>1, Typed, TickCarries
       DEF Sync, At, Looks, Inserts, AfterMirror, Carrying, TickPcs, ExitPcs
  <2>2. CASE of = "loss"
    BY <2>2, Typed, TickCarries
       DEF Sync, At, Looks, Inserts, AfterMirror, Carrying, TickPcs, ExitPcs
  <2>3. CASE of = "flat"
    BY <2>3, Typed, TickTurns, TickCarries
       DEF Sync, At, Looks, Inserts, AfterMirror, Carrying, TickPcs, ExitPcs
  <2> QED
    BY <2>1, <2>2, <2>3 DEF Looks
<1>4. Mirrored(tick.cur) => tick'.at \in {"win day", "others", "next"}
  <2>1. CASE of = "win"
    BY <2>1, Typed, TickCarries
       DEF Sync, At, Looks, Inserts, AfterMirror, Carrying, TickPcs, ExitPcs
  <2>2. CASE of = "loss"
    BY <2>2, Typed, TickCarries
       DEF Sync, At, Looks, Inserts, AfterMirror, Carrying, TickPcs, ExitPcs
  <2>3. CASE of = "flat"
    BY <2>3, Typed, TickTurns, TickCarries
       DEF Sync, At, Looks, Inserts, AfterMirror, Carrying, TickPcs, ExitPcs
  <2> QED
    BY <2>1, <2>2, <2>3 DEF Looks
<1>5. ~Mirrored(tick.cur) => mirrors[tick.cur] = 0
  <2>1. mirrors[tick.cur] \in 0..2
    BY <1>2 DEF TradingInv, ScalperTypeOK, TickHolds, HoldingPcs, InHand, EndedPcs
  <2> QED
    BY <2>1 DEF Mirrored
<1>6. TickHolds'
  BY <1>1, <1>2, <1>3 DEF TradingInv, TickHolds, Filled, Ended, HoldingPcs, InHand, EndedPcs, Late
<1>7. MirrorRace'
  <2>1. tick'.at \in MirrorPcs => mirrors'[tick'.cur] = 0
    BY <1>1, <1>2, <1>3, <1>4, <1>5 DEF MirrorPcs
  <2>2. MirrorRace
    BY DEF TradingInv
  <2> QED
    BY <1>1, <2>1, <2>2 DEF MirrorRace
<1>8. OneRow'
  BY <1>1, <1>2, <1>3 DEF TradingInv, OneRow, InHand
<1>9. RatchetsLeft'
  BY <1>1, <1>2, <1>3 DEF TradingInv, RatchetsLeft
<1>10. Timely'
  BY <1>1, <1>2, <1>3 DEF TradingInv, Timely, Late, FlatPcs
<1>11. LossStops'
  BY <1>1, <1>2, <1>3 DEF TradingInv, LossStops, Reliable
<1>12. FillsAreSeen'
  BY <1>1, <1>2, <1>3 DEF TradingInv, FillsAreSeen, Filled
<1> QED
  BY <1>1, <1>2, <1>6, <1>7, <1>8, <1>9, <1>10, <1>11, <1>12, TickOnly

-----------------------------------------------------------------------------
(* A step of the tick that writes a row. *)
LEMMA TickAndRow ==
  ASSUME TradingInv,
         UNCHANGED <<faults, up, lives, clock, gain, day, mirrors, venue, tp, cron>>,
         tick' \in Ticks, row' \in [Orders -> Results], RowsAreFilled', TickHolds',
         MirrorRace', OneRow', RatchetsLeft', Timely', LossStops', FillsAreSeen',
         BookedAreEnded'
  PROVE  TradingInv'
<1>1. DayTypeOK'
  BY DEF TradingInv, DayTypeOK
<1>2. ScalperTypeOK'
  BY DEF TradingInv, ScalperTypeOK, Ticks
<1>3. CronHolds'
  BY DEF TradingInv, CronHolds, Filled, Ended, Late
<1>4. OneOpenTrade'
  BY DEF TradingInv, OneOpenTrade
<1> QED
  BY <1>1, <1>2, <1>3, <1>4 DEF TradingInv

LEMMA RowWritten ==
  ASSUME row \in [Orders -> Results], NEW t \in Orders, NEW result \in Results
  PROVE  UpdateTrade(t, result) \/ UNCHANGED row =>
           /\ row' \in [Orders -> Results]
           /\ \A u \in Orders : row'[u] = row[u] \/ (u = t /\ row'[u] = result)
BY DEF UpdateTrade

LEMMA WinKeeps ==
  ASSUME TradingInv, Win
  PROVE  TradingInv'
<1>1. UNCHANGED <<faults, up, lives, clock, gain, day, mirrors, venue, tp, cron>>
  BY DEF Win, dayVars, broker
<1>2. tick.at = "win"
  BY DEF Win, At
<1>3. /\ tick.cur \in Orders /\ Filled(tick.cur) /\ Ended(tick.cur)
  BY <1>2 DEF TradingInv, TickHolds, HoldingPcs, InHand, EndedPcs
<1>4. /\ tick' \in Ticks
      /\ tick'.todo \subseteq tick.todo /\ tick'.list \subseteq tick.list
      /\ \/ tick'.at = "win sync" /\ tick'.cur = tick.cur
         \/ Fails("db") /\ tick'.at = "idle"
  <2>1. Goto("win sync") \/ (Fails("db") /\ Goto("idle"))
    BY DEF Win, UpdateThrows
  <2> QED
    BY <2>1, Typed, TickRests, TickCarries DEF Carrying, TickPcs, ExitPcs
<1>5. /\ row' \in [Orders -> Results]
      /\ \A u \in Orders : row'[u] = row[u] \/ (u = tick.cur /\ row'[u] = "win")
  <2>1. row \in [Orders -> Results] /\ "win" \in Results
    BY DEF TradingInv, ScalperTypeOK, Results, Booked
  <2>2. UpdateTrade(tick.cur, "win") \/ UNCHANGED row
    BY DEF Win, UpdateThrows
  <2> QED
    BY <1>3, <2>1, <2>2, RowWritten
<1>6. RowsAreFilled'
  BY <1>1, <1>2, <1>3, <1>4, <1>5 DEF TradingInv, RowsAreFilled, Filled
<1>7. TickHolds'
  BY <1>1, <1>2, <1>3, <1>4, <1>5
     DEF TradingInv, TickHolds, Filled, Ended, HoldingPcs, InHand, EndedPcs, Late
<1>8. MirrorRace'
  BY <1>1, <1>2, <1>3, <1>4, <1>5 DEF TradingInv, MirrorRace, MirrorPcs
<1>9. OneRow'
  BY <1>1, <1>2, <1>3, <1>4, <1>5 DEF TradingInv, OneRow, InHand
<1>10. RatchetsLeft'
  BY <1>1, <1>2, <1>3, <1>4, <1>5 DEF TradingInv, RatchetsLeft
<1>11. Timely'
  BY <1>1, <1>2, <1>3, <1>4, <1>5 DEF TradingInv, Timely, Late, FlatPcs
<1>12. LossStops'
  BY <1>1, <1>2, <1>3, <1>4, <1>5 DEF TradingInv, LossStops, Reliable, Fails
<1>13. FillsAreSeen'
  BY <1>1, <1>2, <1>3, <1>4, <1>5 DEF TradingInv, FillsAreSeen, Filled, Fails
<1>14. BookedAreEnded'
  BY <1>1, <1>2, <1>3, <1>4, <1>5 DEF TradingInv, BookedAreEnded, Booked, Mirrored, Ended,
     Filled, Late
<1> QED
  BY <1>1, <1>4, <1>5, <1>6, <1>7, <1>8, <1>9, <1>10, <1>11, <1>12, <1>13, <1>14, TickAndRow

LEMMA LossKeeps ==
  ASSUME TradingInv, Loss
  PROVE  TradingInv'
<1>1. UNCHANGED <<faults, up, lives, clock, gain, day, mirrors, venue, tp, cron>>
  BY DEF Loss, dayVars, broker
<1>2. tick.at = "loss"
  BY DEF Loss, At
<1>3. /\ tick.cur \in Orders /\ Filled(tick.cur) /\ Ended(tick.cur)
  BY <1>2 DEF TradingInv, TickHolds, HoldingPcs, InHand, EndedPcs
<1>4. /\ tick' \in Ticks
      /\ tick'.todo \subseteq tick.todo /\ tick'.list \subseteq tick.list
      /\ \/ tick'.at = "loss sync" /\ tick'.cur = tick.cur
         \/ Fails("db") /\ tick'.at = "idle"
  <2>1. Goto("loss sync") \/ (Fails("db") /\ Goto("idle"))
    BY DEF Loss, UpdateThrows
  <2> QED
    BY <2>1, Typed, TickRests, TickCarries DEF Carrying, TickPcs, ExitPcs
<1>5. /\ row' \in [Orders -> Results]
      /\ \A u \in Orders : row'[u] = row[u] \/ (u = tick.cur /\ row'[u] = "loss")
  <2>1. row \in [Orders -> Results] /\ "loss" \in Results
    BY DEF TradingInv, ScalperTypeOK, Results, Booked
  <2>2. UpdateTrade(tick.cur, "loss") \/ UNCHANGED row
    BY DEF Loss, UpdateThrows
  <2> QED
    BY <1>3, <2>1, <2>2, RowWritten
<1>6. RowsAreFilled'
  BY <1>1, <1>2, <1>3, <1>4, <1>5 DEF TradingInv, RowsAreFilled, Filled
<1>7. TickHolds'
  BY <1>1, <1>2, <1>3, <1>4, <1>5
     DEF TradingInv, TickHolds, Filled, Ended, HoldingPcs, InHand, EndedPcs, Late
<1>8. MirrorRace'
  BY <1>1, <1>2, <1>3, <1>4, <1>5 DEF TradingInv, MirrorRace, MirrorPcs
<1>9. OneRow'
  BY <1>1, <1>2, <1>3, <1>4, <1>5 DEF TradingInv, OneRow, InHand
<1>10. RatchetsLeft'
  BY <1>1, <1>2, <1>3, <1>4, <1>5 DEF TradingInv, RatchetsLeft
<1>11. Timely'
  BY <1>1, <1>2, <1>3, <1>4, <1>5 DEF TradingInv, Timely, Late, FlatPcs
<1>12. LossStops'
  BY <1>1, <1>2, <1>3, <1>4, <1>5 DEF TradingInv, LossStops, Reliable, Fails
<1>13. FillsAreSeen'
  BY <1>1, <1>2, <1>3, <1>4, <1>5 DEF TradingInv, FillsAreSeen, Filled, Fails
<1>14. BookedAreEnded'
  BY <1>1, <1>2, <1>3, <1>4, <1>5 DEF TradingInv, BookedAreEnded, Booked, Mirrored, Ended,
     Filled, Late
<1> QED
  BY <1>1, <1>4, <1>5, <1>6, <1>7, <1>8, <1>9, <1>10, <1>11, <1>12, <1>13, <1>14, TickAndRow

LEMMA FlatRowKeeps ==
  ASSUME TradingInv, FlatRow
  PROVE  TradingInv'
<1>1. UNCHANGED <<faults, up, lives, clock, gain, day, mirrors, venue, tp, cron>>
  BY DEF FlatRow, dayVars, broker
<1>2. tick.at = "flat row"
  BY DEF FlatRow, At
<1>3. /\ tick.cur \in Orders /\ Filled(tick.cur) /\ Ended(tick.cur)
  BY <1>2 DEF TradingInv, TickHolds, HoldingPcs, InHand, EndedPcs
<1>4. /\ tick' \in Ticks
      /\ tick'.todo \subseteq tick.todo /\ tick'.list \subseteq tick.list
      /\ \/ tick'.at = "flat sync" /\ tick'.cur = tick.cur
         \/ Fails("db") /\ tick'.at = "mark" /\ tick'.cur = tick.cur
  <2>1. Goto("flat sync") \/ (Fails("db") /\ Goto("mark"))
    BY DEF FlatRow, UpdateThrows
  <2> QED
    BY <2>1, Typed, TickCarries DEF Carrying, TickPcs, ExitPcs
<1>5. /\ row' \in [Orders -> Results]
      /\ \A u \in Orders : row'[u] = row[u] \/ (u = tick.cur /\ row'[u] = "force_flat")
  <2>1. row \in [Orders -> Results] /\ "force_flat" \in Results
    BY DEF TradingInv, ScalperTypeOK, Results, Booked
  <2>2. UpdateTrade(tick.cur, "force_flat") \/ UNCHANGED row
    BY DEF FlatRow, UpdateThrows
  <2> QED
    BY <1>3, <2>1, <2>2, RowWritten
<1>6. RowsAreFilled'
  BY <1>1, <1>2, <1>3, <1>4, <1>5 DEF TradingInv, RowsAreFilled, Filled
<1>7. TickHolds'
  BY <1>1, <1>2, <1>3, <1>4, <1>5
     DEF TradingInv, TickHolds, Filled, Ended, HoldingPcs, InHand, EndedPcs, Late
<1>8. MirrorRace'
  BY <1>1, <1>2, <1>3, <1>4, <1>5 DEF TradingInv, MirrorRace, MirrorPcs
<1>9. OneRow'
  BY <1>1, <1>2, <1>3, <1>4, <1>5 DEF TradingInv, OneRow, InHand
<1>10. RatchetsLeft'
  BY <1>1, <1>2, <1>3, <1>4, <1>5 DEF TradingInv, RatchetsLeft
<1>11. Timely'
  BY <1>1, <1>2, <1>3, <1>4, <1>5 DEF TradingInv, Timely, Late, FlatPcs
<1>12. LossStops'
  BY <1>1, <1>2, <1>3, <1>4, <1>5 DEF TradingInv, LossStops, Reliable, Fails
<1>13. FillsAreSeen'
  BY <1>1, <1>2, <1>3, <1>4, <1>5 DEF TradingInv, FillsAreSeen, Filled, Fails
<1>14. BookedAreEnded'
  BY <1>1, <1>2, <1>3, <1>4, <1>5 DEF TradingInv, BookedAreEnded, Booked, Mirrored, Ended,
     Filled, Late
<1> QED
  BY <1>1, <1>4, <1>5, <1>6, <1>7, <1>8, <1>9, <1>10, <1>11, <1>12, <1>13, <1>14, TickAndRow

LEMMA MarkKeeps ==
  ASSUME TradingInv, Mark
  PROVE  TradingInv'
<1>1. UNCHANGED <<faults, up, lives, clock, gain, day, mirrors, venue, tp, cron>>
  BY DEF Mark, dayVars, broker
<1>2. tick.at = "mark"
  BY DEF Mark, At
<1>3. /\ tick.cur \in Orders /\ Filled(tick.cur)
  BY <1>2 DEF TradingInv, TickHolds, HoldingPcs, InHand, EndedPcs
<1>4. /\ tick' \in Ticks
      /\ tick'.todo \subseteq tick.todo /\ tick'.list \subseteq tick.list
      /\ tick'.at = "next"
  BY <1>2, Typed, TickTurns DEF Mark, UpdateTrade
<1>5. /\ row' \in [Orders -> Results]
      /\ \A u \in Orders : row'[u] = row[u] \/ (u = tick.cur /\ row'[u] = "force_flat_failed")
  <2>1. row \in [Orders -> Results] /\ "force_flat_failed" \in Results
    BY DEF TradingInv, ScalperTypeOK, Results, Booked
  <2>2. UpdateTrade(tick.cur, "force_flat_failed") \/ UNCHANGED row
    BY DEF Mark, UpdateThrows
  <2> QED
    BY <1>3, <2>1, <2>2, RowWritten
<1>6. RowsAreFilled'
  BY <1>1, <1>2, <1>3, <1>4, <1>5 DEF TradingInv, RowsAreFilled, Filled
<1>7. TickHolds'
  BY <1>1, <1>2, <1>3, <1>4, <1>5
     DEF TradingInv, TickHolds, Filled, Ended, HoldingPcs, InHand, EndedPcs
<1>8. MirrorRace'
  BY <1>1, <1>2, <1>3, <1>4, <1>5 DEF TradingInv, MirrorRace, MirrorPcs
<1>9. OneRow'
  BY <1>1, <1>2, <1>3, <1>4, <1>5 DEF TradingInv, OneRow, InHand
<1>10. RatchetsLeft'
  BY <1>1, <1>2, <1>3, <1>4, <1>5 DEF TradingInv, RatchetsLeft
<1>11. Timely'
  BY <1>1, <1>2, <1>3, <1>4, <1>5 DEF TradingInv, Timely, Late, FlatPcs
<1>12. LossStops'
  BY <1>1, <1>2, <1>3, <1>4, <1>5 DEF TradingInv, LossStops, Reliable, Fails
<1>13. FillsAreSeen'
  BY <1>1, <1>2, <1>3, <1>4, <1>5 DEF TradingInv, FillsAreSeen, Filled, Fails
<1>14. BookedAreEnded'
  BY <1>1, <1>2, <1>3, <1>4, <1>5 DEF TradingInv, BookedAreEnded, Booked, Mirrored, Ended,
     Filled, Late
<1> QED
  BY <1>1, <1>4, <1>5, <1>6, <1>7, <1>8, <1>9, <1>10, <1>11, <1>12, <1>13, <1>14, TickAndRow

LEMMA InsertKeeps ==
  ASSUME TradingInv, Insert
  PROVE  TradingInv'
<1>1. UNCHANGED <<faults, up, lives, clock, gain, day, mirrors, venue, tp, cron>>
  BY DEF Insert, dayVars, broker
<1>2. tick.at = "insert"
  BY DEF Insert, At
<1>3. /\ tick.cur \in Orders /\ Filled(tick.cur)
  BY <1>2 DEF TradingInv, TickHolds, HoldingPcs, InHand, EndedPcs
<1>4. /\ tick' \in Ticks
      /\ tick'.todo \subseteq tick.todo /\ tick'.list \subseteq tick.list
      /\ \/ tick'.at = "idle" /\ row' = [row EXCEPT ![tick.cur] = "null"]
         \/ Fails("db") /\ tick'.at = "idle" /\ row' = row
  BY <1>2, Typed, TickRests DEF Insert, UpdateTrade
<1>5. /\ row' \in [Orders -> Results]
      /\ \A u \in Orders : row'[u] = row[u] \/ (u = tick.cur /\ row'[u] = "null")
  <2>1. row \in [Orders -> Results] /\ "null" \in Results
    BY DEF TradingInv, ScalperTypeOK, Results, Booked
  <2>2. UpdateTrade(tick.cur, "null") \/ UNCHANGED row
    BY DEF Insert, UpdateThrows
  <2> QED
    BY <1>3, <2>1, <2>2, RowWritten
<1>6. RowsAreFilled'
  BY <1>1, <1>2, <1>3, <1>4, <1>5 DEF TradingInv, RowsAreFilled, Filled
<1>7. TickHolds'
  BY <1>1, <1>2, <1>3, <1>4, <1>5
     DEF TradingInv, TickHolds, Filled, Ended, HoldingPcs, InHand, EndedPcs
<1>8. MirrorRace'
  BY <1>1, <1>2, <1>3, <1>4, <1>5 DEF TradingInv, MirrorRace, MirrorPcs
<1>9. OneRow'
  BY <1>1, <1>2, <1>3, <1>4, <1>5 DEF TradingInv, OneRow, InHand
<1>10. RatchetsLeft'
  BY <1>1, <1>2, <1>3, <1>4, <1>5 DEF TradingInv, RatchetsLeft
<1>11. Timely'
  BY <1>1, <1>2, <1>3, <1>4, <1>5 DEF TradingInv, Timely, Late, FlatPcs
<1>12. LossStops'
  BY <1>1, <1>2, <1>3, <1>4, <1>5 DEF TradingInv, LossStops, Reliable, Fails
<1>13. FillsAreSeen'
  BY <1>1, <1>2, <1>3, <1>4, <1>5 DEF TradingInv, FillsAreSeen, Filled, Fails
<1>14. BookedAreEnded'
  BY <1>1, <1>2, <1>3, <1>4, <1>5 DEF TradingInv, BookedAreEnded, Booked, Mirrored, Ended,
     Filled, Late
<1> QED
  BY <1>1, <1>4, <1>5, <1>6, <1>7, <1>8, <1>9, <1>10, <1>11, <1>12, <1>13, <1>14, TickAndRow

-----------------------------------------------------------------------------
(* What the tick does to a mirror, the day and the venue. *)
LEMMA MirrorKeeps ==
  ASSUME TradingInv, NEW of \in DOMAIN Looks, Mirror(of)
  PROVE  TradingInv'
<1>1. UNCHANGED <<faults, up, lives, clock, gain, day, row, venue, tp, cron>>
  BY DEF Mirror, dayVars, broker
<1>2. /\ tick.at \in MirrorPcs
      /\ tick' \in Ticks /\ tick'.todo = tick.todo /\ tick'.list = tick.list
      /\ \/ tick.at = "win mirror"  /\ tick'.at = "win day" /\ tick'.cur = tick.cur
         \/ tick.at = "loss mirror" /\ tick'.at = "others"  /\ tick'.cur = tick.cur
         \/ tick.at = "flat mirror" /\ tick'.at = "next"
  <2>1. CASE of = "win"
    BY <2>1, Typed, TickCarries
       DEF Mirror, At, Inserts, AfterMirror, Carrying, TickPcs, ExitPcs, MirrorPcs
  <2>2. CASE of = "loss"
    BY <2>2, Typed, TickCarries
       DEF Mirror, At, Inserts, AfterMirror, Carrying, TickPcs, ExitPcs, MirrorPcs
  <2>3. CASE of = "flat"
    BY <2>3, Typed, TickTurns DEF Mirror, At, Inserts, AfterMirror, MirrorPcs
  <2> QED
    BY <2>1, <2>2, <2>3 DEF Looks
<1>3. /\ tick.cur \in Orders /\ Filled(tick.cur) /\ Ended(tick.cur)
  BY <1>2 DEF TradingInv, TickHolds, HoldingPcs, InHand, EndedPcs, MirrorPcs
<1>4. /\ mirrors' \in [Orders -> 0..2]
      /\ \A t \in Orders : mirrors'[t] # mirrors[t] => t = tick.cur
      /\ \A t \in Orders : mirrors'[t] <= mirrors[t] + 1
  <2>1. mirrors \in [Orders -> 0..2] /\ mirrors[tick.cur] <= 1
    BY <1>2 DEF TradingInv, ScalperTypeOK, MirrorRace
  <2> QED
    BY <1>3, <2>1 DEF Mirror, InsertMirror
<1>5. DayTypeOK'
  BY <1>1 DEF TradingInv, DayTypeOK
<1>6. ScalperTypeOK'
  BY <1>1, <1>2, <1>4 DEF TradingInv, ScalperTypeOK, Ticks
<1>7. RowsAreFilled'
  BY <1>1 DEF TradingInv, RowsAreFilled, Filled
<1>8. TickHolds'
  BY <1>1, <1>2, <1>3 DEF TradingInv, TickHolds, Filled, Ended, HoldingPcs, InHand, EndedPcs
<1>9. CronHolds'
  BY <1>1 DEF TradingInv, CronHolds, Filled, Ended, Late
<1>10. MirrorRace'
  <2>1. tick'.at \notin MirrorPcs
    BY <1>2 DEF MirrorPcs
  <2>2. ASSUME cron.at = "mirror" PROVE mirrors'[cron.cur] <= 1
    <3>1. cron.cur \in Orders /\ mirrors[cron.cur] <= 1
      BY <2>2 DEF TradingInv, CronHolds, MirrorRace
    <3>2. CASE cron.cur = tick.cur
      <4>1. mirrors[cron.cur] = 0
        BY <1>2, <2>2, <3>2 DEF TradingInv, MirrorRace
      <4> QED
        BY <1>4, <3>1, <4>1
    <3>3. CASE cron.cur # tick.cur
      BY <1>4, <3>1, <3>3
    <3> QED
      BY <3>2, <3>3
  <2> QED
    BY <1>1, <2>1, <2>2 DEF MirrorRace
<1>11. OneRow'
  BY <1>1, <1>2 DEF TradingInv, OneRow, InHand, MirrorPcs
<1>12. RatchetsLeft'
  BY <1>1, <1>2 DEF TradingInv, RatchetsLeft
<1>13. Timely'
  BY <1>1, <1>2 DEF TradingInv, Timely, Late, FlatPcs
<1>14. LossStops'
  BY <1>1, <1>2 DEF TradingInv, LossStops, Reliable
<1>15. FillsAreSeen'
  BY <1>1, <1>2, <1>3 DEF TradingInv, FillsAreSeen, Filled
<1>16. BookedAreEnded'
  <2>1. \A t \in Orders : Mirrored(t)' => Mirrored(t) \/ t = tick.cur
    BY <1>4 DEF Mirrored
  <2> QED
    BY <1>1, <1>3, <2>1 DEF TradingInv, BookedAreEnded, Ended, Filled, Late
<1>17. OneOpenTrade'
  BY <1>1 DEF TradingInv, OneOpenTrade
<1> QED
  BY <1>5, <1>6, <1>7, <1>8, <1>9, <1>10, <1>11, <1>12, <1>13, <1>14, <1>15, <1>16,
     <1>17 DEF TradingInv

(* A step of the tick that writes the row of the day. *)
LEMMA TickAndDay ==
  ASSUME TradingInv,
         UNCHANGED <<faults, up, lives, clock, gain, row, mirrors, venue, tp, cron>>,
         tick' \in Ticks, day' \in Days, day.stopped => day'.stopped,
         tick'.at \in {"idle", "poll", "entry"}, tick.at # "insert",
         tick'.todo = {}, tick'.list \subseteq tick.list,
         ~day'.stopped => day'.ratchets < MaxRatchets, LossStops'
  PROVE  TradingInv'
<1>1. DayTypeOK'
  BY DEF TradingInv, DayTypeOK
<1>2. ScalperTypeOK'
  BY DEF TradingInv, ScalperTypeOK, Ticks
<1>3. RowsAreFilled'
  BY DEF TradingInv, RowsAreFilled, Filled
<1>4. TickHolds'
  BY DEF TradingInv, TickHolds, Filled, HoldingPcs, InHand, EndedPcs
<1>5. CronHolds'
  BY DEF TradingInv, CronHolds, Filled, Ended, Late
<1>6. MirrorRace'
  BY DEF TradingInv, MirrorRace, MirrorPcs
<1>7. OneRow'
  BY DEF TradingInv, OneRow, InHand
<1>8. RatchetsLeft'
  BY DEF RatchetsLeft
<1>9. Timely'
  BY DEF TradingInv, Timely, Late, FlatPcs
<1>10. FillsAreSeen'
  BY DEF TradingInv, FillsAreSeen, Filled
<1>11. BookedAreEnded'
  BY DEF TradingInv, BookedAreEnded, Mirrored, Filled, Ended, Late
<1>12. OneOpenTrade'
  BY DEF TradingInv, OneOpenTrade
<1> QED
  BY <1>1, <1>2, <1>3, <1>4, <1>5, <1>6, <1>7, <1>8, <1>9, <1>10, <1>11, <1>12
     DEF TradingInv

LEMMA RatchetKeeps ==
  ASSUME TradingInv, Ratchet
  PROVE  TradingInv'
<1>1. UNCHANGED <<faults, up, lives, clock, gain, row, mirrors, venue, tp, cron>>
  BY DEF Ratchet, dayVars, broker
<1>2. /\ tick.at = "ratchet" /\ tick.todo = {} /\ tick.cur \in Orders
      /\ tick.held.ratchets \in 0..MaxRatchets /\ tick.held.ratchets < MaxRatchets
  <2>1. tick.at = "ratchet"
    BY DEF Ratchet, At
  <2>2. tick.held \in Days
    BY Typed DEF Ticks
  <2> QED
    BY <2>1, <2>2 DEF Days, TradingInv, OneRow, InHand, TickHolds, HoldingPcs, RatchetsLeft
<1>3. /\ tick' \in Ticks /\ tick'.at \in {"idle", "poll"}
      /\ tick'.todo = {} /\ tick'.list \subseteq tick.list
  <2>1. Goto("poll") \/ Goto("idle")
    BY DEF Ratchet
  <2> QED
    BY <1>2, <2>1, Typed, TickRests, TickTurns
<1>4. /\ day' \in Days /\ (day.stopped => day'.stopped)
      /\ ~day'.stopped => day'.ratchets < MaxRatchets
  <2>1. CASE day' = Ratcheted
    <3>1. tp[tick.cur] \in Int
      BY <1>2 DEF TradingInv, ScalperTypeOK
    <3> DEFINE n == tick.held.ratchets + 1
    <3>2. n \in 0..MaxRatchets
      BY <1>2, ScalperAssumption
    <3>3. day' = [day EXCEPT !.ref = tp[tick.cur], !.ratchets = n,
                             !.stopped = @ \/ n >= MaxRatchets]
      BY <2>1 DEF Ratcheted
    <3> HIDE DEF n
    <3>4. (day.stopped \/ n >= MaxRatchets) \in BOOLEAN
      OBVIOUS
    <3>5. day' \in Days
      BY <3>1, <3>2, <3>3, <3>4, Typed DEF Days
    <3>6. day'.ratchets = n /\ day'.stopped = (day.stopped \/ n >= MaxRatchets)
      BY <3>3, Typed DEF Days
    <3>7. n >= MaxRatchets \/ n < MaxRatchets
      BY <3>2, ScalperAssumption
    <3> QED
      BY <3>5, <3>6, <3>7, Zenon
  <2>2. CASE UNCHANGED day
    BY <2>2, Typed DEF TradingInv, RatchetsLeft
  <2> QED
    BY <2>1, <2>2 DEF Ratchet
<1>5. LossStops'
  BY <1>1, <1>2, <1>4 DEF TradingInv, LossStops, Reliable
<1> QED
  BY <1>1, <1>2, <1>3, <1>4, <1>5, TickAndDay

LEMMA DayStopped ==
  ASSUME day \in Days, day' = [day EXCEPT !.stopped = TRUE]
  PROVE  day' \in Days /\ day'.stopped /\ day'.ratchets = day.ratchets /\ day'.live = day.live
BY DEF Days

LEMMA StopKeeps ==
  ASSUME TradingInv, Stop
  PROVE  TradingInv'
<1>1. UNCHANGED <<faults, up, lives, clock, gain, row, mirrors, venue, tp, cron>>
  BY DEF Stop, dayVars, broker
<1>2. tick.at = "stop"
  BY DEF Stop, At
<1>3. /\ tick' \in Ticks /\ tick'.at \in {"idle", "entry"}
      /\ tick'.todo = {} /\ tick'.list = {}
  <2>1. Goto("entry") \/ Goto("idle")
    BY DEF Stop
  <2> QED
    BY <2>1, Typed, TickRests
<1>4. /\ day' \in Days /\ (day.stopped => day'.stopped)
      /\ ~day'.stopped => day'.ratchets < MaxRatchets
  <2>1. CASE day' = [day EXCEPT !.stopped = TRUE]
    BY <2>1, Typed, DayStopped
  <2>2. CASE UNCHANGED day
    BY <2>2, Typed DEF TradingInv, RatchetsLeft
  <2> QED
    BY <2>1, <2>2 DEF Stop
<1>5. LossStops'
  <2>1. CASE day' = [day EXCEPT !.stopped = TRUE]
    BY <2>1, Typed, DayStopped DEF LossStops
  <2>2. CASE Fails("db")
    BY <1>1, <2>2 DEF LossStops, Reliable, Fails
  <2> QED
    BY <2>1, <2>2 DEF Stop
<1> QED
  BY <1>1, <1>2, <1>3, <1>4, <1>5, TickAndDay

-----------------------------------------------------------------------------
(* A trade that ends, at the broker or because tick or cron close it, may  *)
(* be the only thing that changes beside what they hold.                   *)
Ends == /\ venue' \in [Orders -> {"none", "open", "tp", "sl", "flat"}]
        /\ \A t \in Orders : venue'[t] # venue[t] =>
             venue[t] = "open" /\ venue'[t] \in {"tp", "sl", "flat"}

LEMMA EndsStay ==
  ASSUME Ends, UNCHANGED clock
  PROVE  \A t \in Orders : /\ Filled(t)' <=> Filled(t)
                           /\ Ended(t) => Ended(t)'
                           /\ venue'[t] = "open" => venue[t] = "open"
BY DEF Ends, Filled, Ended, Late

(* A close that works late in the day, cancelled or not.                   *)
LEMMA ClosedHasEnded ==
  ASSUME TradingInv, NEW t \in Orders, CloseWorks(t), Late, UNCHANGED clock
  PROVE  Filled(t)' /\ (venue'[t] = "open" => Late' /\ ~Honest)
<1>1. venue \in [Orders -> {"none", "open", "tp", "sl", "flat"}] /\ faults \in FaultSets
  BY DEF TradingInv, ScalperTypeOK, DayTypeOK
<1>2. Late'
  BY DEF Late
<1>3. CASE venue' = [venue EXCEPT ![t] = "flat"]
  BY <1>1, <1>3 DEF Filled
<1>4. CASE Fails("closeCancel") /\ venue' = venue
  <2>1. ~Honest
    BY <1>1, <1>4 DEF Honest, Fails
  <2> QED
    BY <1>2, <1>4, <2>1 DEF Filled, CloseWorks
<1> QED
  BY <1>3, <1>4 DEF CloseWorks

LEMMA Closing ==
  ASSUME TradingInv, Ends,
         UNCHANGED <<faults, up, lives, clock, gain, day, row, mirrors, tp>>,
         tick' \in Ticks, cron' \in Crons,
         TickHolds', CronHolds', MirrorRace', OneRow', RatchetsLeft', Timely', LossStops',
         tick.at = "insert" => UNCHANGED tick
  PROVE  TradingInv'
<1>1. DayTypeOK'
  BY DEF TradingInv, DayTypeOK
<1>2. ScalperTypeOK'
  BY DEF TradingInv, ScalperTypeOK, Ticks, Crons, Ends
<1>3. RowsAreFilled'
  BY EndsStay DEF TradingInv, RowsAreFilled
<1>4. FillsAreSeen'
  BY EndsStay DEF TradingInv, FillsAreSeen
<1>5. BookedAreEnded'
  BY DEF TradingInv, BookedAreEnded, Mirrored, Ends, Filled, Ended, Late
<1>6. OneOpenTrade'
  BY EndsStay DEF TradingInv, OneOpenTrade
<1> QED
  BY <1>1, <1>2, <1>3, <1>4, <1>5, <1>6 DEF TradingInv

LEMMA VenueTyped ==
  TradingInv => venue \in [Orders -> {"none", "open", "tp", "sl", "flat"}]
BY DEF TradingInv, ScalperTypeOK

LEMMA VenueEndsKeeps ==
  ASSUME TradingInv, NEW t \in Orders, NEW how \in {"tp", "sl"}, VenueEnds(t, how)
  PROVE  TradingInv'
<1>1. /\ UNCHANGED <<faults, up, lives, clock, gain, day, row, mirrors, tp>>
      /\ tick' = tick /\ cron' = cron
  BY DEF VenueEnds, dayVars, tables
<1>2. Ends
  BY VenueTyped DEF VenueEnds, Ends
<1>3. TickHolds'
  <2>1. tick.todo \subseteq Orders /\ tick.list \subseteq Orders
    BY Typed DEF Ticks
  <2>2. tick.at \in HoldingPcs => tick.cur \in Orders
    BY DEF TradingInv, TickHolds
  <2>3. EndedPcs \subseteq HoldingPcs
    BY DEF HoldingPcs
  <2> QED
    BY <1>1, <1>2, <2>1, <2>2, <2>3, EndsStay DEF TradingInv, TickHolds
<1>4. CronHolds'
  <2>1. cron.todo \subseteq Orders
    BY Typed DEF Crons
  <2> QED
    BY <1>1, <1>2, <2>1, EndsStay DEF TradingInv, CronHolds
<1>5. MirrorRace' /\ OneRow' /\ RatchetsLeft'
  BY <1>1 DEF TradingInv, MirrorRace, OneRow, RatchetsLeft
<1>6. Timely' /\ LossStops'
  BY <1>1 DEF TradingInv, Timely, Late, LossStops, Reliable
<1> QED
  BY <1>1, <1>2, <1>3, <1>4, <1>5, <1>6, Typed, Closing

LEMMA FlatKeeps ==
  ASSUME TradingInv, NEW t \in Orders, Flat(t)
  PROVE  TradingInv'
<1>1. /\ UNCHANGED <<faults, up, lives, clock, gain, day, row, mirrors, tp>>
      /\ cron' = cron
  BY DEF Flat, dayVars, tables
<1>2. tick.at = "flat" /\ t \in tick.todo
  BY DEF Flat, At
<1>3. Ends
  BY VenueTyped DEF Flat, CloseWorks, CloseThrows, Ends
<1>4. /\ tick' \in Ticks /\ tick'.cur = t
      /\ tick'.todo = tick.todo \ {t} /\ tick'.list = tick.list
      /\ tick'.at = "mark" \/ (tick'.at = "flat row" /\ Ended(t)')
  <2>1. Takes(t, "mark") \/ (Takes(t, "flat row") /\ CloseWorks(t))
    BY DEF Flat
  <2>2. CloseWorks(t) => Ended(t)'
    BY <1>1, <1>2, ClosedHasEnded DEF Ended, TradingInv, Timely, FlatPcs
  <2>3. /\ "mark" \in TickPcs \ {"idle", "entry", "stop"}
        /\ "flat row" \in TickPcs \ {"idle", "entry", "stop"}
    BY DEF TickPcs, ExitPcs
  <2> QED
    BY <2>1, <2>2, <2>3, Typed, TickTakes
<1>5. TickHolds'
  <2>1. tick.todo \subseteq Orders /\ tick.list \subseteq Orders
    BY Typed DEF Ticks
  <2>2. Filled(t)' /\ \A u \in tick'.todo \cup tick'.list : Filled(u)'
    BY <1>1, <1>2, <1>3, <1>4, <2>1, EndsStay DEF TradingInv, TickHolds
  <2>3. tick'.at \in EndedPcs => Ended(t)'
    BY <1>4 DEF EndedPcs
  <2> QED
    BY <1>4, <2>2, <2>3 DEF TickHolds
<1>6. CronHolds'
  <2>1. cron.todo \subseteq Orders
    BY Typed DEF Crons
  <2> QED
    BY <1>1, <1>3, <2>1, EndsStay DEF TradingInv, CronHolds
<1>7. MirrorRace'
  BY <1>1, <1>4 DEF TradingInv, MirrorRace, MirrorPcs
<1>8. OneRow'
  BY <1>1, <1>4 DEF TradingInv, OneRow, InHand
<1>9. RatchetsLeft'
  BY <1>1, <1>4 DEF TradingInv, RatchetsLeft
<1>10. Timely'
  BY <1>1, <1>2, <1>4 DEF TradingInv, Timely, Late, FlatPcs
<1>11. LossStops'
  BY <1>1, <1>2, <1>4 DEF TradingInv, LossStops, Reliable
<1> QED
  BY <1>1, <1>2, <1>3, <1>4, <1>5, <1>6, <1>7, <1>8, <1>9, <1>10, <1>11, Typed, Closing

LEMMA CronCloseKeeps ==
  ASSUME TradingInv, CronClose
  PROVE  TradingInv'
<1>1. /\ UNCHANGED <<faults, up, lives, clock, gain, day, row, mirrors, tp>>
      /\ tick' = tick
  BY DEF CronClose, dayVars, tables
<1>2. cron.at = "close" /\ cron.cur \in Orders
  BY DEF CronClose, AtCron, TradingInv, CronHolds
<1>3. Ends
  BY <1>2, VenueTyped DEF CronClose, CloseWorks, CloseThrows, Ends
<1>4. /\ cron' \in Crons /\ cron'.todo = cron.todo
      /\ cron'.at = "each" \/ (/\ cron'.at = "row" /\ cron'.cur = cron.cur
                               /\ Ended(cron.cur)')
  <2>1. Cron("each") \/ (Cron("row") /\ CloseWorks(cron.cur))
    BY DEF CronClose
  <2>2. CloseWorks(cron.cur) /\ cron'.cur = cron.cur => Ended(cron.cur)'
    BY <1>1, <1>2, ClosedHasEnded DEF Ended, Filled, TradingInv, Timely
  <2>3. "each" \in CronPcs /\ "row" \in CronPcs
    BY DEF CronPcs
  <2>4. CASE Cron("each")
    BY <2>3, <2>4, Typed, CronGoes
  <2>5. CASE Cron("row") /\ CloseWorks(cron.cur)
    <3>1. cron' \in Crons /\ cron'.todo = cron.todo /\ cron'.at = "row" /\ cron'.cur = cron.cur
      BY <2>3, <2>5, Typed, CronGoes
    <3> QED
      BY <2>2, <2>5, <3>1
  <2> QED
    BY <2>1, <2>4, <2>5
<1>5. TickHolds'
  <2>1. tick.todo \subseteq Orders /\ tick.list \subseteq Orders
    BY Typed DEF Ticks
  <2>2. tick.at \in HoldingPcs => tick.cur \in Orders
    BY DEF TradingInv, TickHolds
  <2>3. EndedPcs \subseteq HoldingPcs
    BY DEF HoldingPcs
  <2> QED
    BY <1>1, <1>3, <2>1, <2>2, <2>3, EndsStay DEF TradingInv, TickHolds
<1>6. CronHolds'
  <2>1. cron.todo \subseteq Orders
    BY Typed DEF Crons
  <2>2. venue'[cron.cur] # "none" /\ \A u \in cron.todo : Filled(u)'
    BY <1>1, <1>2, <1>3, <2>1, EndsStay DEF TradingInv, CronHolds, Filled
  <2> QED
    BY <1>2, <1>4, <2>2 DEF CronHolds, Filled, Ended
<1>7. MirrorRace'
  BY <1>1, <1>4 DEF TradingInv, MirrorRace
<1>8. OneRow' /\ RatchetsLeft' /\ LossStops'
  BY <1>1 DEF TradingInv, OneRow, RatchetsLeft, LossStops, Reliable
<1>9. Timely'
  BY <1>1, <1>2 DEF TradingInv, Timely, Late
<1> QED
  BY <1>1, <1>3, <1>4, <1>5, <1>6, <1>7, <1>8, <1>9, Typed, Closing

-----------------------------------------------------------------------------
(* An order is filled, recorded next or lost.  At that time no trade is    *)
(* open that was filled and recorded as it should: none is in hand, no row *)
(* is open, none is marked before 16:00, and what is booked has ended.     *)
LEMMA OrderKeeps ==
  ASSUME TradingInv, NEW t \in Orders, Order(t)
  PROVE  TradingInv'
<1>1. /\ UNCHANGED <<faults, up, lives, clock, gain, day, row, mirrors>>
      /\ cron' = cron
  BY DEF Order, dayVars, tables
<1>2. tick.at = "order" /\ ~Filled(t)
  BY DEF Order, At, Filled
<1>3. /\ venue' \in [Orders -> {"none", "open", "tp", "sl", "flat"}]
      /\ venue'[t] = "open" /\ \A u \in Orders : u # t => venue'[u] = venue[u]
  BY VenueTyped DEF Order
<1>4. \A u \in Orders : Filled(u) => u # t /\ Filled(u)' /\ (Ended(u) => Ended(u)')
  BY <1>1, <1>2, <1>3 DEF Filled, Ended, Late
<1>5. tp' \in [Orders -> Int]
  <2>1. tick.held.ref + gain \in Int
    BY Typed, ScalperAssumption DEF TradingInv, ScalperTypeOK, Ticks, Days
  <2> QED
    BY <2>1 DEF Order, TradingInv, ScalperTypeOK
<1>6. /\ tick' \in Ticks
      /\ \/ /\ tick'.at = "insert" /\ tick'.cur = t
            /\ tick'.todo = tick.todo \ {t} /\ tick'.list = tick.list
         \/ /\ Fails("order") /\ tick'.at = "idle" /\ tick'.todo = {} /\ tick'.list = {}
  <2>1. "insert" \in TickPcs \ {"idle", "entry", "stop"}
    BY DEF TickPcs, EntryPcs
  <2>2. Takes(t, "insert") \/ (Fails("order") /\ Goto("idle"))
    BY DEF Order
  <2> QED
    BY <2>1, <2>2, Typed, TickTakes, TickRests
<1>7. DayTypeOK'
  BY <1>1 DEF TradingInv, DayTypeOK
<1>8. ScalperTypeOK'
  BY <1>1, <1>3, <1>5, <1>6 DEF TradingInv, ScalperTypeOK, Ticks
<1>9. RowsAreFilled'
  BY <1>1, <1>4 DEF TradingInv, RowsAreFilled
<1>10. TickHolds'
  <2>1. tick.todo \subseteq Orders /\ tick.list \subseteq Orders
    BY Typed DEF Ticks
  <2>2. \A u \in tick'.todo \cup tick'.list : Filled(u)'
    BY <1>4, <1>6, <2>1 DEF TradingInv, TickHolds
  <2>3. tick'.at \in HoldingPcs => tick'.cur = t
    BY <1>6 DEF HoldingPcs, InHand, EndedPcs
  <2>4. tick'.at \notin EndedPcs
    BY <1>6 DEF EndedPcs
  <2>5. venue'[t] # "none"
    BY <1>3
  <2> QED
    BY <2>2, <2>3, <2>4, <2>5 DEF TickHolds, Filled
<1>11. CronHolds'
  <2>1. cron.todo \subseteq Orders
    BY Typed DEF Crons
  <2>2. \A u \in cron.todo : Filled(u)'
    BY <1>4, <2>1 DEF TradingInv, CronHolds
  <2>3. cron.at \in {"close", "row", "sync", "mirror"} => cron.cur \in Orders /\ Filled(cron.cur)
    BY DEF TradingInv, CronHolds
  <2> QED
    BY <1>1, <1>4, <2>2, <2>3 DEF TradingInv, CronHolds
<1>12. MirrorRace'
  BY <1>1, <1>6 DEF TradingInv, MirrorRace, MirrorPcs
<1>13. OneRow'
  BY <1>1, <1>2, <1>6 DEF TradingInv, OneRow, InHand
<1>14. RatchetsLeft'
  BY <1>1, <1>6 DEF TradingInv, RatchetsLeft
<1>15. Timely'
  BY <1>1, <1>2, <1>6 DEF TradingInv, Timely, Late, FlatPcs
<1>16. LossStops'
  BY <1>1, <1>2, <1>6 DEF TradingInv, LossStops, Reliable
<1>17. FillsAreSeen'
  BY <1>1, <1>2, <1>3, <1>6 DEF TradingInv, FillsAreSeen, Filled, Fails
<1>18. BookedAreEnded'
  BY <1>1, <1>3, <1>2 DEF TradingInv, BookedAreEnded, Mirrored, Filled, Ended, Late
<1>19. OneOpenTrade'
  <2> SUFFICES ASSUME faults \cap {"db", "order", "crash"} = {}, NEW u \in Orders,
                      venue'[u] = "open"
               PROVE  u = t
    BY <1>1 DEF OneOpenTrade
  <2> SUFFICES ASSUME u # t PROVE FALSE
    OBVIOUS
  <2>1. venue[u] = "open"
    BY <1>3
  <2>2. row[u] # "none"
    BY <1>2, <2>1 DEF TradingInv, FillsAreSeen, Filled
  <2>3. row[u] \notin Booked
    BY <1>2, <2>1 DEF TradingInv, BookedAreEnded, Ended, Timely
  <2>4. row[u] # "null"
    BY <1>2 DEF TradingInv, OneRow
  <2>5. row[u] # "force_flat_failed"
    BY <1>2 DEF TradingInv, Timely
  <2> QED
    BY <2>2, <2>3, <2>4, <2>5 DEF TradingInv, ScalperTypeOK, Results
<1> QED
  BY <1>7, <1>8, <1>9, <1>10, <1>11, <1>12, <1>13, <1>14, <1>15, <1>16, <1>17, <1>18,
     <1>19 DEF TradingInv

-----------------------------------------------------------------------------
(* The 16:00 cron.  A step that changes nothing but where it stands:       *)
LEMMA CronOnly ==
  ASSUME TradingInv,
         UNCHANGED <<faults, up, lives, clock, gain, day, row, mirrors, venue, tp, tick>>,
         cron' \in Crons, CronHolds', MirrorRace', cron.at # "idle"
  PROVE  TradingInv'
<1>1. DayTypeOK'
  BY DEF TradingInv, DayTypeOK
<1>2. ScalperTypeOK'
  BY DEF TradingInv, ScalperTypeOK, Crons
<1>3. RowsAreFilled' /\ TickHolds'
  BY DEF TradingInv, RowsAreFilled, TickHolds, Filled, Ended, Late
<1>4. OneRow' /\ RatchetsLeft'
  BY DEF TradingInv, OneRow, RatchetsLeft
<1>5. Timely'
  BY DEF TradingInv, Timely, Late
<1>6. LossStops' /\ FillsAreSeen'
  BY DEF TradingInv, LossStops, Reliable, FillsAreSeen, Filled
<1>7. BookedAreEnded' /\ OneOpenTrade'
  BY DEF TradingInv, BookedAreEnded, Mirrored, OneOpenTrade, Filled, Ended, Late
<1> QED
  BY <1>1, <1>2, <1>3, <1>4, <1>5, <1>6, <1>7 DEF TradingInv

LEMMA CronLabels ==
  \A label \in {"day", "open", "stop", "each", "row", "sync", "mirror", "mark", "done"} :
                      label \in CronPcs
BY DEF CronPcs

LEMMA CronThrowsKeeps ==
  ASSUME TradingInv, CronThrows
  PROVE  TradingInv'
<1>1. UNCHANGED <<faults, up, lives, clock, gain, day, row, mirrors, venue, tp, tick>>
  BY DEF CronThrows, dayVars, tables, broker
<1>2. cron.at # "idle" /\ cron' \in Crons /\ cron'.at = "done" /\ cron'.todo = {}
  BY Typed, CronGoes, CronLabels DEF CronThrows
<1>3. CronHolds' /\ MirrorRace'
  BY <1>1, <1>2 DEF TradingInv, CronHolds, MirrorRace
<1> QED
  BY <1>1, <1>2, <1>3, CronOnly

LEMMA CronDayKeeps ==
  ASSUME TradingInv, CronDay
  PROVE  TradingInv'
<1>1. UNCHANGED <<faults, up, lives, clock, gain, day, row, mirrors, venue, tp, tick>>
  BY DEF CronDay, dayVars, tables, broker
<1>2. /\ cron.at # "idle" /\ cron' \in Crons
      /\ cron'.at \in {"open", "done"} /\ cron'.todo \subseteq cron.todo
  <2>1. cron.at = "day" /\ (Cron("open") \/ Cron("done"))
    BY DEF CronDay, AtCron
  <2> QED
    BY <2>1, Typed, CronGoes, CronLabels
<1>3. CronHolds' /\ MirrorRace'
  BY <1>1, <1>2 DEF TradingInv, CronHolds, MirrorRace, Filled
<1> QED
  BY <1>1, <1>2, <1>3, CronOnly

LEMMA CronOpenKeeps ==
  ASSUME TradingInv, CronOpen
  PROVE  TradingInv'
<1>1. UNCHANGED <<faults, up, lives, clock, gain, day, row, mirrors, venue, tp, tick>>
  BY DEF CronOpen, dayVars, tables, broker
<1>2. /\ cron.at # "idle" /\ cron' \in Crons
      /\ cron'.at = "stop" /\ cron'.todo = Recorded("null")
  <2>1. Recorded("null") \in SUBSET Orders
    BY DEF Recorded
  <2> QED
    BY <2>1, Typed DEF CronOpen, AtCron, Crons, CronPcs
<1>3. CronHolds' /\ MirrorRace'
  BY <1>1, <1>2 DEF TradingInv, CronHolds, MirrorRace, RowsAreFilled, Recorded, Filled
<1> QED
  BY <1>1, <1>2, <1>3, CronOnly

LEMMA CronStopKeeps ==
  ASSUME TradingInv, CronStop
  PROVE  TradingInv'
<1>1. UNCHANGED <<faults, up, lives, clock, gain, row, mirrors, venue, tp, tick>>
  BY DEF CronStop, dayVars, broker
<1>2. /\ cron.at = "stop" /\ cron' \in Crons
      /\ cron'.at \in {"each", "done"} /\ cron'.todo \subseteq cron.todo
  <2>1. cron.at = "stop" /\ (Cron("each") \/ Cron("done"))
    BY DEF CronStop, AtCron
  <2> QED
    BY <2>1, Typed, CronGoes, CronLabels
<1>3. /\ day' \in Days /\ day'.stopped
      /\ day'.ratchets = day.ratchets /\ day'.live = day.live
  BY Typed, DayStopped DEF CronStop
<1>4. DayTypeOK'
  BY <1>1 DEF TradingInv, DayTypeOK
<1>5. ScalperTypeOK'
  BY <1>1, <1>2, <1>3 DEF TradingInv, ScalperTypeOK, Crons
<1>6. RowsAreFilled' /\ TickHolds'
  BY <1>1 DEF TradingInv, RowsAreFilled, TickHolds, Filled, Ended, Late
<1>7. CronHolds' /\ MirrorRace'
  BY <1>1, <1>2 DEF TradingInv, CronHolds, MirrorRace, Filled
<1>8. OneRow' /\ RatchetsLeft'
  BY <1>1, <1>3 DEF TradingInv, OneRow, RatchetsLeft
<1>9. Timely'
  BY <1>1, <1>2 DEF TradingInv, Timely, Late
<1>10. LossStops' /\ FillsAreSeen'
  BY <1>1, <1>3 DEF TradingInv, LossStops, FillsAreSeen, Filled
<1>11. BookedAreEnded' /\ OneOpenTrade'
  BY <1>1 DEF TradingInv, BookedAreEnded, Mirrored, OneOpenTrade, Filled, Ended, Late
<1> QED
  BY <1>4, <1>5, <1>6, <1>7, <1>8, <1>9, <1>10, <1>11 DEF TradingInv

LEMMA CronEachKeeps ==
  ASSUME TradingInv, NEW t \in Orders, CronEach(t)
  PROVE  TradingInv'
<1>1. UNCHANGED <<faults, up, lives, clock, gain, day, row, mirrors, venue, tp, tick>>
  BY DEF CronEach, dayVars, tables, broker
<1>2. /\ cron.at = "each" /\ t \in cron.todo /\ cron' \in Crons
      /\ cron'.todo = cron.todo \ {t}
      /\ cron'.at = "each" \/ (cron'.at = "close" /\ cron'.cur = t)
  <2>1. CASE cron' = [at |-> "close", todo |-> cron.todo \ {t}, cur |-> t]
    BY <2>1, Typed DEF CronEach, AtCron, Crons, CronPcs
  <2>2. CASE cron' = [cron EXCEPT !.todo = @ \ {t}]
    BY <2>2, Typed DEF CronEach, AtCron, Crons
  <2> QED
    BY <2>1, <2>2 DEF CronEach
<1>3. CronHolds'
  BY <1>1, <1>2 DEF TradingInv, CronHolds, Filled
<1>4. MirrorRace'
  BY <1>1, <1>2 DEF TradingInv, MirrorRace
<1> QED
  BY <1>1, <1>2, <1>3, <1>4, CronOnly

LEMMA CronSyncKeeps ==
  ASSUME TradingInv, CronSync
  PROVE  TradingInv'
<1>1. UNCHANGED <<faults, up, lives, clock, gain, day, row, mirrors, venue, tp, tick>>
  BY DEF CronSync, dayVars, tables, broker
<1>2. /\ cron.at = "sync" /\ cron' \in Crons /\ cron'.todo = cron.todo
      /\ \/ cron'.at = "each"
         \/ cron'.at = "mirror" /\ cron'.cur = cron.cur /\ ~Mirrored(cron.cur)
  <2>1. cron.at = "sync" /\ (Cron("each") \/ (Cron("mirror") /\ ~Mirrored(cron.cur)))
    BY DEF CronSync, AtCron
  <2> QED
    BY <2>1, Typed, CronGoes, CronLabels
<1>3. CronHolds'
  BY <1>1, <1>2 DEF TradingInv, CronHolds, Filled, Ended, Late
<1>4. MirrorRace'
  <2>1. cron'.at = "mirror" => mirrors[cron'.cur] = 0
    <3>1. mirrors[cron.cur] \in 0..2
      BY <1>2 DEF TradingInv, ScalperTypeOK, CronHolds
    <3> QED
      BY <1>2, <3>1 DEF Mirrored
  <2>2. MirrorRace
    BY DEF TradingInv
  <2> QED
    BY <1>1, <2>1, <2>2 DEF MirrorRace
<1> QED
  BY <1>1, <1>2, <1>3, <1>4, CronOnly

LEMMA CronLeftKeeps ==
  ASSUME TradingInv, CronLeft
  PROVE  TradingInv'
<1>1. UNCHANGED <<faults, up, lives, clock, gain, day, row, mirrors, venue, tp, tick>>
  BY DEF CronLeft, dayVars, tables, broker
<1>2. /\ cron.at = "each" /\ cron' \in Crons
      /\ cron'.at \in {"mark", "done"} /\ cron'.todo \subseteq Recorded("null")
  <2>1. Recorded("null") \in SUBSET Orders
    BY DEF Recorded
  <2>2. CASE cron' = [cron EXCEPT !.at = "mark", !.todo = Recorded("null")]
    BY <2>1, <2>2, Typed DEF CronLeft, AtCron, Crons, CronPcs
  <2>3. CASE Cron("done")
    BY <2>3, Typed, CronGoes, CronLabels DEF CronLeft, AtCron
  <2> QED
    BY <2>2, <2>3 DEF CronLeft
<1>3. CronHolds' /\ MirrorRace'
  BY <1>1, <1>2 DEF TradingInv, CronHolds, MirrorRace, RowsAreFilled, Recorded, Filled
<1> QED
  BY <1>1, <1>2, <1>3, CronOnly

LEMMA CronMirrorKeeps ==
  ASSUME TradingInv, CronMirror
  PROVE  TradingInv'
<1>1. UNCHANGED <<faults, up, lives, clock, gain, day, row, venue, tp, tick>>
  BY DEF CronMirror, dayVars, broker
<1>2. /\ cron.at = "mirror" /\ cron' \in Crons
      /\ cron'.at = "each" /\ cron'.todo = cron.todo
  BY Typed, CronGoes, CronLabels DEF CronMirror, AtCron
<1>3. /\ cron.cur \in Orders /\ Filled(cron.cur) /\ Ended(cron.cur)
  BY <1>2 DEF TradingInv, CronHolds
<1>4. /\ mirrors' \in [Orders -> 0..2]
      /\ \A t \in Orders : mirrors'[t] # mirrors[t] => t = cron.cur
      /\ \A t \in Orders : mirrors'[t] <= mirrors[t] + 1
  <2>1. mirrors \in [Orders -> 0..2] /\ mirrors[cron.cur] <= 1
    BY <1>2 DEF TradingInv, ScalperTypeOK, MirrorRace
  <2> QED
    BY <1>3, <2>1 DEF CronMirror, InsertMirror
<1>5. DayTypeOK'
  BY <1>1 DEF TradingInv, DayTypeOK
<1>6. ScalperTypeOK'
  BY <1>1, <1>2, <1>4 DEF TradingInv, ScalperTypeOK, Crons
<1>7. RowsAreFilled' /\ TickHolds'
  BY <1>1 DEF TradingInv, RowsAreFilled, TickHolds, Filled, Ended, Late
<1>8. CronHolds'
  BY <1>1, <1>2 DEF TradingInv, CronHolds, Filled
<1>9. MirrorRace'
  <2>1. ASSUME tick.at \in MirrorPcs PROVE mirrors'[tick.cur] <= 1
    <3>1. tick.cur \in Orders /\ mirrors[tick.cur] <= 1
      BY <2>1 DEF TradingInv, TickHolds, MirrorRace, HoldingPcs, InHand, EndedPcs, MirrorPcs
    <3>2. CASE cron.cur = tick.cur
      <4>1. mirrors[tick.cur] = 0
        BY <1>2, <2>1, <3>2 DEF TradingInv, MirrorRace
      <4> QED
        BY <1>4, <3>1, <4>1
    <3>3. CASE cron.cur # tick.cur
      BY <1>4, <3>1, <3>3
    <3> QED
      BY <3>2, <3>3
  <2> QED
    BY <1>1, <1>2, <2>1 DEF MirrorRace
<1>10. OneRow' /\ RatchetsLeft'
  BY <1>1 DEF TradingInv, OneRow, RatchetsLeft
<1>11. Timely'
  BY <1>1, <1>2 DEF TradingInv, Timely, Late
<1>12. LossStops' /\ FillsAreSeen'
  BY <1>1 DEF TradingInv, LossStops, Reliable, FillsAreSeen, Filled
<1>13. BookedAreEnded'
  <2>1. \A t \in Orders : Mirrored(t)' => Mirrored(t) \/ t = cron.cur
    BY <1>4 DEF Mirrored
  <2> QED
    BY <1>1, <1>3, <2>1 DEF TradingInv, BookedAreEnded, Ended, Filled, Late
<1>14. OneOpenTrade'
  BY <1>1 DEF TradingInv, OneOpenTrade
<1> QED
  BY <1>5, <1>6, <1>7, <1>8, <1>9, <1>10, <1>11, <1>12, <1>13, <1>14 DEF TradingInv

(* A step of the cron that writes a row. *)
LEMMA CronAndRow ==
  ASSUME TradingInv,
         UNCHANGED <<faults, up, lives, clock, gain, day, mirrors, venue, tp, tick>>,
         cron' \in Crons, row' \in [Orders -> Results], CronHolds', MirrorRace',
         cron.at # "idle", NEW t \in Orders, Filled(t),
         NEW result \in {"timeout_16h", "force_flat_failed"},
         \A u \in Orders : row'[u] = row[u] \/ (u = t /\ row'[u] = result),
         result \in Booked => Ended(t)
  PROVE  TradingInv'
<1>1. DayTypeOK'
  BY DEF TradingInv, DayTypeOK
<1>2. ScalperTypeOK'
  BY DEF TradingInv, ScalperTypeOK, Crons
<1>3. RowsAreFilled'
  BY DEF TradingInv, RowsAreFilled, Filled
<1>4. TickHolds'
  BY DEF TradingInv, TickHolds, Filled, Ended, Late
<1>5. OneRow'
  BY DEF TradingInv, OneRow
<1>6. RatchetsLeft'
  BY DEF TradingInv, RatchetsLeft
<1>7. Timely'
  BY DEF TradingInv, Timely, Late
<1>8. LossStops'
  BY DEF TradingInv, LossStops, Reliable
<1>9. FillsAreSeen'
  BY DEF TradingInv, FillsAreSeen, Filled
<1>10. BookedAreEnded'
  BY DEF TradingInv, BookedAreEnded, Mirrored, Ended, Filled, Late
<1>11. OneOpenTrade'
  BY DEF TradingInv, OneOpenTrade
<1> QED
  BY <1>1, <1>2, <1>3, <1>4, <1>5, <1>6, <1>7, <1>8, <1>9, <1>10, <1>11 DEF TradingInv

LEMMA CronRowKeeps ==
  ASSUME TradingInv, CronRow
  PROVE  TradingInv'
<1>1. UNCHANGED <<faults, up, lives, clock, gain, day, mirrors, venue, tp, tick>>
  BY DEF CronRow, dayVars, broker
<1>2. /\ cron.at = "row"
      /\ cron.cur \in Orders /\ Filled(cron.cur) /\ Ended(cron.cur)
  BY DEF CronRow, AtCron, TradingInv, CronHolds
<1>3. /\ cron' \in Crons /\ cron'.todo = cron.todo
      /\ cron'.at = "each" \/ (cron'.at = "sync" /\ cron'.cur = cron.cur)
  <2>1. Cron("sync") \/ Cron("each")
    BY DEF CronRow
  <2> QED
    BY <2>1, Typed, CronGoes, CronLabels
<1>4. /\ row' \in [Orders -> Results]
      /\ \A u \in Orders : row'[u] = row[u] \/ (u = cron.cur /\ row'[u] = "timeout_16h")
  <2>1. row \in [Orders -> Results] /\ "timeout_16h" \in Results
    BY DEF TradingInv, ScalperTypeOK, Results, Booked
  <2>2. UpdateTrade(cron.cur, "timeout_16h") \/ UNCHANGED row
    BY DEF CronRow, UpdateThrows
  <2> QED
    BY <1>2, <2>1, <2>2, RowWritten
<1>5. CronHolds'
  BY <1>1, <1>2, <1>3 DEF TradingInv, CronHolds, Filled, Ended, Late
<1>6. MirrorRace'
  BY <1>1, <1>3 DEF TradingInv, MirrorRace
<1> QED
  BY <1>1, <1>2, <1>3, <1>4, <1>5, <1>6, CronAndRow

LEMMA CronMarkKeeps ==
  ASSUME TradingInv, NEW t \in Orders, CronMark(t)
  PROVE  TradingInv'
<1>1. UNCHANGED <<faults, up, lives, clock, gain, day, mirrors, venue, tp, tick>>
  BY DEF CronMark, dayVars, broker
<1>2. cron.at = "mark" /\ t \in cron.todo /\ Filled(t)
  BY DEF CronMark, AtCron, TradingInv, CronHolds
<1>3. /\ cron' \in Crons /\ cron'.todo \subseteq cron.todo
      /\ cron'.at \in {"mark", "done"}
  <2>1. CASE Cron("done")
    BY <2>1, Typed, CronGoes, CronLabels
  <2>2. CASE cron' = [cron EXCEPT !.todo = @ \ {t}]
    BY <1>2, <2>2, Typed DEF Crons
  <2> QED
    BY <2>1, <2>2 DEF CronMark
<1>4. /\ row' \in [Orders -> Results]
      /\ \A u \in Orders : row'[u] = row[u] \/ (u = t /\ row'[u] = "force_flat_failed")
  <2>1. row \in [Orders -> Results] /\ "force_flat_failed" \in Results
    BY DEF TradingInv, ScalperTypeOK, Results
  <2> QED
    BY <2>1, RowWritten DEF CronMark
<1>5. CronHolds'
  BY <1>1, <1>3 DEF TradingInv, CronHolds, Filled
<1>6. MirrorRace'
  BY <1>1, <1>3 DEF TradingInv, MirrorRace
<1>7. "force_flat_failed" \notin Booked
  BY DEF Booked
<1> QED
  BY <1>1, <1>2, <1>3, <1>4, <1>5, <1>6, <1>7, CronAndRow

-----------------------------------------------------------------------------
(* The init crons, the clock and the end of the process. *)
LEMMA InitializeDayKeeps ==
  ASSUME TradingInv, NEW dir \in Directions \cup {"none"}, NEW sign, InitializeDay(dir, sign)
  PROVE  TradingInv'
<1>1. UNCHANGED <<faults, up, lives, clock, gain, row, mirrors, venue, tp, tick, cron>>
  BY DEF InitializeDay, dayVars, broker
<1>2. ~day.live /\ ~day.stopped
  BY DEF InitializeDay, NoDay
<1>3. day' \in Days /\ day'.ratchets < MaxRatchets
  <2>1. PICK b \in BOOLEAN :
          day' = [live |-> TRUE, dir |-> dir, ref |-> 0, ratchets |-> 0, stopped |-> b]
    <3>1. CASE Agree(dir, sign)
      BY <3>1 DEF InitializeDay, NoDay
    <3>2. CASE ~Agree(dir, sign)
      BY <3>2 DEF InitializeDay, NoDay
    <3> QED
      BY <3>1, <3>2
  <2>2. dir \in {"none", "long", "short", "neutral"}
    BY DEF Directions
  <2> QED
    BY <2>1, <2>2, ScalperAssumption DEF Days
<1>4. DayTypeOK'
  BY <1>1 DEF TradingInv, DayTypeOK
<1>5. ScalperTypeOK'
  BY <1>1, <1>3 DEF TradingInv, ScalperTypeOK
<1>6. RowsAreFilled' /\ TickHolds' /\ CronHolds'
  BY <1>1 DEF TradingInv, RowsAreFilled, TickHolds, CronHolds, Filled, Ended, Late
<1>7. MirrorRace' /\ OneRow'
  BY <1>1 DEF TradingInv, MirrorRace, OneRow
<1>8. RatchetsLeft'
  BY <1>1, <1>3 DEF TradingInv, RatchetsLeft
<1>9. Timely'
  BY <1>1, <1>2 DEF TradingInv, Timely, Late
<1>10. LossStops'
  BY <1>1, <1>2 DEF TradingInv, LossStops, Reliable
<1>11. FillsAreSeen'
  BY <1>1 DEF TradingInv, FillsAreSeen, Filled
<1>12. BookedAreEnded' /\ OneOpenTrade'
  BY <1>1 DEF TradingInv, BookedAreEnded, Mirrored, OneOpenTrade, Filled, Ended, Late
<1> QED
  BY <1>4, <1>5, <1>6, <1>7, <1>8, <1>9, <1>10, <1>11, <1>12 DEF TradingInv

(* A step that leaves tables, broker and what the tick holds alone, and    *)
(* the cron but for its start and its end.                                 *)
LEMMA ClockOrProcess ==
  ASSUME TradingInv, DayTypeOK',
         UNCHANGED <<faults, gain, day, row, mirrors, venue, tp>>,
         tick' \in Ticks,
         UNCHANGED tick \/ (tick'.at = "idle" /\ tick'.todo = {} /\ tick'.list = {}),
         cron' \in Crons,
         UNCHANGED cron \/ (cron'.at \in {"day", "done"} /\ cron'.todo \subseteq cron.todo),
         Late => Late', Timely', LossStops', FillsAreSeen'
  PROVE  TradingInv'
<1>1. ScalperTypeOK'
  BY DEF TradingInv, ScalperTypeOK, Ticks, Crons
<1>2. RowsAreFilled'
  BY DEF TradingInv, RowsAreFilled, Filled
<1>3. TickHolds'
  BY DEF TradingInv, TickHolds, Filled, Ended, HoldingPcs, InHand, EndedPcs
<1>4. CronHolds'
  BY DEF TradingInv, CronHolds, Filled, Ended
<1>5. MirrorRace'
  BY DEF TradingInv, MirrorRace, MirrorPcs
<1>6. OneRow'
  BY DEF TradingInv, OneRow, InHand
<1>7. RatchetsLeft'
  BY DEF TradingInv, RatchetsLeft
<1>8. BookedAreEnded' /\ OneOpenTrade'
  BY DEF TradingInv, BookedAreEnded, Mirrored, OneOpenTrade, Filled, Ended
<1> QED
  BY <1>1, <1>2, <1>3, <1>4, <1>5, <1>6, <1>7, <1>8 DEF TradingInv

LEMMA ClockKeeps ==
  ASSUME TradingInv, ClockTicks, ScalperClock
  PROVE  TradingInv'
<1>1. /\ UNCHANGED <<faults, up, lives, gain, day, row, mirrors, venue, tp>>
      /\ tick' = tick
  BY DEF ClockTicks, ScalperClock, tables, broker
<1>2. DayTypeOK' /\ clock' = Later[clock] /\ clock \in Clocks
  BY <1>1 DEF ClockTicks, TradingInv, DayTypeOK, Clocks, Later
<1>3. (Late => Late') /\ (Late' => Late \/ clock = "late") /\ (clock = "late" => Late')
  BY <1>2 DEF Clocks, Later, Late
<1>4. /\ cron' \in Crons
      /\ \/ cron' = cron
         \/ clock = "late" /\ cron'.at \in {"day", "done"} /\ cron'.todo \subseteq cron.todo
  <2>1. cron' = cron \/ (clock = "late" /\ (Cron("day") \/ Cron("done")))
    BY DEF ScalperClock
  <2> QED
    BY <2>1, Typed, CronGoes, CronLabels
<1>5. Timely'
  <2>1. tick.at \in {"check", "order", "insert"} => ~Late'
    BY <1>3 DEF TradingInv, Timely, ScalperClock, EntryPcs
  <2>2. cron'.at # "idle" \/ tick.at \in FlatPcs => Late'
    BY <1>3, <1>4 DEF TradingInv, Timely
  <2>3. \A t \in Orders : row[t] = "force_flat_failed" => Late'
    BY <1>3 DEF TradingInv, Timely
  <2>4. tick.at \in {"check", "order"} => day.live /\ ~day.stopped
    BY DEF TradingInv, Timely
  <2> QED
    BY <1>1, <2>1, <2>2, <2>3, <2>4 DEF Timely
<1>6. LossStops' /\ FillsAreSeen'
  BY <1>1 DEF TradingInv, LossStops, Reliable, FillsAreSeen, Filled
<1> QED
  BY <1>1, <1>2, <1>3, <1>4, <1>5, <1>6, Typed, ClockOrProcess

LEMMA CrashKeeps ==
  ASSUME TradingInv, Dies, ScalperDies
  PROVE  TradingInv'
<1>1. UNCHANGED <<faults, clock, gain, day, row, mirrors, venue, tp>> /\ Fails("crash")
  BY DEF Dies, ScalperDies, tables, broker
<1>2. DayTypeOK'
  <2>1. lives \in 0..Lives /\ lives > 0 /\ lives' = lives - 1 /\ up' = FALSE
    BY DEF Dies, TradingInv, DayTypeOK
  <2>2. lives' \in 0..Lives
    BY <2>1, TradingDayAssumption
  <2> QED
    BY <1>1, <2>1, <2>2 DEF TradingInv, DayTypeOK
<1>3. tick' \in Ticks /\ tick'.at = "idle" /\ tick'.todo = {} /\ tick'.list = {}
  BY Typed, TickRests DEF ScalperDies
<1>4. /\ cron' \in Crons
      /\ \/ cron' = cron
         \/ cron.at # "idle" /\ cron'.at = "done" /\ cron'.todo = {}
  BY Typed, CronGoes, CronLabels DEF ScalperDies
<1>5. Timely'
  BY <1>1, <1>3, <1>4 DEF TradingInv, Timely, Late, FlatPcs
<1>6. LossStops' /\ FillsAreSeen'
  BY <1>1 DEF LossStops, Reliable, FillsAreSeen, Fails
<1> QED
  BY <1>1, <1>2, <1>3, <1>4, <1>5, <1>6, ClockOrProcess DEF Late

LEMMA RestartKeeps ==
  ASSUME TradingInv, Starts, UNCHANGED scalperVars
  PROVE  TradingInv'
<1>1. UNCHANGED <<faults, lives, clock, gain, day, row, mirrors, venue, tp, tick, cron>>
  BY DEF Starts, scalperVars
<1>2. DayTypeOK'
  BY <1>1 DEF Starts, TradingInv, DayTypeOK
<1>3. Timely' /\ LossStops' /\ FillsAreSeen'
  BY <1>1 DEF TradingInv, Timely, Late, LossStops, Reliable, FillsAreSeen, Filled
<1> QED
  BY <1>1, <1>2, <1>3, Typed, ClockOrProcess DEF Late

LEMMA OthersKeep ==
  ASSUME TradingInv, UNCHANGED <<dayVars, scalperVars>>
  PROVE  TradingInv'
<1>1. UNCHANGED <<faults, up, lives, clock, gain, day, row, mirrors, venue, tp, tick, cron>>
  BY DEF dayVars, scalperVars
<1>2. DayTypeOK'
  BY <1>1 DEF TradingInv, DayTypeOK
<1>3. Timely' /\ LossStops' /\ FillsAreSeen'
  BY <1>1 DEF TradingInv, Timely, Late, LossStops, Reliable, FillsAreSeen, Filled
<1> QED
  BY <1>1, <1>2, <1>3, Typed, ClockOrProcess DEF Late

-----------------------------------------------------------------------------
LEMMA TradingInit == Init => TradingInv
<1> SUFFICES ASSUME Init PROVE TradingInv
  OBVIOUS
<1> USE DEF Init, DayInit, ScalperInit
<1>1. DayTypeOK
  BY TradingDayAssumption DEF DayTypeOK, Clocks
<1>2. ScalperTypeOK
  BY IdleTyped, NoDayTyped DEF ScalperTypeOK, Ticks, Crons, Results
<1>3. RowsAreFilled
  BY DEF RowsAreFilled
<1>4. TickHolds /\ OneRow
  BY DEF TickHolds, OneRow, IdleTick, HoldingPcs, InHand, EndedPcs
<1>5. CronHolds /\ MirrorRace
  BY DEF CronHolds, MirrorRace, IdleTick, IdleCron, MirrorPcs
<1>6. RatchetsLeft
  BY ScalperAssumption DEF RatchetsLeft, IdleTick, NoDay
<1>7. Timely
  BY DEF Timely, IdleTick, IdleCron, FlatPcs
<1>8. LossStops /\ FillsAreSeen
  BY DEF LossStops, FillsAreSeen, Filled
<1>9. BookedAreEnded /\ OneOpenTrade
  BY DEF BookedAreEnded, OneOpenTrade, Mirrored, Booked
<1> QED
  BY <1>1, <1>2, <1>3, <1>4, <1>5, <1>6, <1>7, <1>8, <1>9 DEF TradingInv

LEMMA TradingStep ==
  ASSUME TradingInv, AmdTypeOK, [Next]_vars
  PROVE  TradingInv'
<1>1. CASE Detector
  <2>1. UNCHANGED <<dayVars, scalperVars>>
    BY <1>1 DEF Detector, AmdStep, DetectionCron, StartupCheck, LookAtLock, ReadSnapshot,
       Persist, Pull, ApplyMode, ApplyDirection, ApplyExpiry, Outcome
  <2> QED
    BY <2>1, OthersKeep
<1>2. CASE Trading
  <2>1. CASE \E t \in Orders, how \in {"tp", "sl"} : VenueEnds(t, how)
    BY <2>1, VenueEndsKeeps
  <2>2. CASE ReadThrows \/ ReadDay \/ LoadFailed \/ LoadOpen \/ PollDone
    BY <2>2, ReadThrowsKeeps, ReadDayKeeps, LoadFailedKeeps, LoadOpenKeeps, PollDoneKeeps
  <2>3. CASE \E t \in Orders : PollSkips(t) \/ PollFinds(t) \/ Flat(t)
    BY <2>3, PollSkipsKeeps, PollFindsKeeps, FlatKeeps
  <2>4. CASE \E of \in DOMAIN Looks : Sync(of) \/ Mirror(of)
    BY <2>4, SyncKeeps, MirrorKeeps
  <2>5. CASE Win \/ WinDay \/ Ratchet \/ Loss \/ Others
    BY <2>5, WinKeeps, WinDayKeeps, RatchetKeeps, LossKeeps, OthersKeeps
  <2>6. CASE FlatRow \/ FlatSyncThrows \/ NextFlat \/ Mark \/ Stop
    BY <2>6, FlatRowKeeps, FlatSyncThrowsKeeps, NextFlatKeeps, MarkKeeps, StopKeeps
  <2>7. CASE EntryStep
    BY <2>7, EntryKeeps, CheckKeeps, NoOrderKeeps, InsertKeeps, OrderKeeps DEF EntryStep
  <2>8. CASE CronThrows \/ CronDay \/ CronOpen \/ CronStop \/ CronClose \/ CronRow
    BY <2>8, CronThrowsKeeps, CronDayKeeps, CronOpenKeeps, CronStopKeeps, CronCloseKeeps,
       CronRowKeeps
  <2>9. CASE CronSync \/ CronMirror \/ CronLeft \/ \E t \in Orders : CronEach(t) \/ CronMark(t)
    BY <2>9, CronSyncKeeps, CronMirrorKeeps, CronLeftKeeps, CronEachKeeps, CronMarkKeeps
  <2> QED
    BY <1>2, <2>1, <2>2, <2>3, <2>4, <2>5, <2>6, <2>7, <2>8, <2>9
       DEF Trading, ScalperStep, ExitStep, CronStep
<1>3. CASE ScalperInitDay
  <2>1. amd.decision \in Directions \cup {"none"}
    BY DEF AmdTypeOK, Rows
  <2> QED
    BY <1>3, <2>1, InitializeDayKeeps DEF ScalperInitDay
<1>4. CASE Clock
  BY <1>4, ClockKeeps DEF Clock
<1>5. CASE Crash
  BY <1>5, CrashKeeps DEF Crash
<1>6. CASE Restart
  BY <1>6, RestartKeeps DEF Restart
<1>7. CASE UNCHANGED vars
  BY <1>7, OthersKeep DEF vars
<1> QED
  BY <1>1, <1>2, <1>3, <1>4, <1>5, <1>6, <1>7 DEF Next

-----------------------------------------------------------------------------
LEMMA DetectorInit == Init => DetectorInv
<1> SUFFICES ASSUME Init PROVE DetectorInv
  OBVIOUS
<1>1. AmdTypeOK
  BY DEF Init, AmdInit, AmdTypeOK, NoRow, Rows, DetPcs, Directions
<1> QED
  BY <1>1 DEF Init, AmdInit, DetectorInv, NoRow

(* What a read of the row may give. *)
LEMMA ReadTyped ==
  ASSUME AmdTypeOK, NEW kind
  PROVE  /\ \A r \in Read(kind) : r \in Rows
         /\ ~Fails(kind) => \A r \in Read(kind) : r = amd
<1>1. amd \in Rows /\ NoRow \in Rows
  BY DEF AmdTypeOK, NoRow, Rows
<1>2. CASE Fails(kind)
  BY <1>1, <1>2 DEF Read
<1>3. CASE ~Fails(kind)
  BY <1>1, <1>3 DEF Read
<1> QED
  BY <1>2, <1>3

LEMMA DetectorTypeStep ==
  ASSUME AmdTypeOK, [Next]_vars
  PROVE  AmdTypeOK'
<1> USE DEF AmdTypeOK, amdVars, detector, config, DetEnds, Det, Directions, DetPcs
<1>1. CASE DetectionCron
  BY <1>1 DEF DetectionCron
<1>2. CASE StartupCheck
  BY <1>2 DEF StartupCheck
<1>3. CASE LookAtLock
  BY <1>3 DEF LookAtLock
<1>4. ASSUME NEW direction \in Findings, Pull(direction) PROVE AmdTypeOK'
  BY <1>4, AmdDayAssumption DEF Pull
<1>5. CASE ReadSnapshot
  <2>1. kept' \in Directions \cup {"none"}
    BY <1>5, ReadTyped DEF ReadSnapshot, Rows
  <2> QED
    BY <1>5, <2>1 DEF ReadSnapshot
<1>6. CASE Persist
  <2>1. amd' \in Rows
    <3>1. (IF kept = "none" THEN found ELSE kept) \in Directions
      OBVIOUS
    <3> QED
      BY <1>6, <3>1 DEF Persist, Rows
  <2> QED
    BY <1>6, <2>1 DEF Persist
<1>7. CASE ApplyMode
  BY <1>7 DEF ApplyMode
<1>8. CASE ApplyDirection
  BY <1>8 DEF ApplyDirection
<1>9. CASE ApplyExpiry
  BY <1>9 DEF ApplyExpiry
<1>10. CASE Outcome
  <2>1. amd' \in Rows
    BY <1>10 DEF Outcome, Rows
  <2> QED
    BY <1>10, <2>1 DEF Outcome
<1>11. CASE UNCHANGED amdVars
  BY <1>11
<1>12. CASE AmdDies
  BY <1>12 DEF AmdDies
<1>13. CASE AmdStarts
  BY <1>13 DEF AmdStarts
<1> QED
  BY <1>1, <1>2, <1>3, <1>4, <1>5, <1>6, <1>7, <1>8, <1>9, <1>10, <1>11, <1>12, <1>13
     DEF Next, vars, Detector, AmdStep, Trading, ScalperInitDay, Clock, Crash, Restart

-----------------------------------------------------------------------------
(* No step but those of the detector, its death and its start changes what *)
(* the detector knows or writes; none changes the fault model.             *)
LEMMA ScalperStepShared == ScalperStep => UNCHANGED dayVars
<1> USE DEF dayVars
<1>1. ExitStep => UNCHANGED dayVars
  BY DEF ExitStep, ReadDay, LoadFailed, LoadOpen, PollDone, PollSkips, PollFinds, Flat, Sync,
     Mirror, Win, WinDay, Ratchet, Loss, Others, FlatRow, FlatSyncThrows, NextFlat, Mark, Stop
<1>2. EntryStep => UNCHANGED dayVars
  BY DEF EntryStep, Entry, Check, NoOrder, Insert, Order
<1>3. CronStep => UNCHANGED dayVars
  BY DEF CronStep, CronDay, CronOpen, CronStop, CronClose, CronRow, CronSync, CronMirror,
     CronLeft, CronEach, CronMark
<1> QED
  BY <1>1, <1>2, <1>3 DEF ScalperStep, ReadThrows, CronThrows, VenueEnds

LEMMA DetectorAlone ==
  ASSUME [Next]_vars
  PROVE  /\ faults' = faults
         /\ AmdStep \/ AmdDies \/ AmdStarts \/ UNCHANGED amdVars
<1>1. CASE Detector
  BY <1>1 DEF Detector, AmdStep, DetectionCron, StartupCheck, LookAtLock, ReadSnapshot,
     Persist, Pull, ApplyMode, ApplyDirection, ApplyExpiry, Outcome, dayVars
<1>2. CASE Trading
  BY <1>2, ScalperStepShared DEF Trading, dayVars
<1>3. CASE ScalperInitDay \/ Clock \/ Crash \/ Restart \/ UNCHANGED vars
  BY <1>3 DEF ScalperInitDay, InitializeDay, Clock, ClockTicks, Crash, Dies, Restart, Starts,
     vars, dayVars
<1> QED
  BY <1>1, <1>2, <1>3 DEF Next

LEMMA DetectorStep ==
  ASSUME DetectorInv, [Next]_vars
  PROVE  DetectorInv'
<1>1. AmdTypeOK /\ AmdTypeOK'
  BY DetectorTypeStep DEF DetectorInv
<1>2. faults' = faults
  BY DetectorAlone
<1>3. amd \in Rows /\ found \in Directions
  BY <1>1 DEF AmdTypeOK
<1> HIDE DEF DetectorInv
<1> SUFFICES /\ ~Fails("db") /\ det' = "upsert" => kept' = amd'.decision
             /\ faults \cap {"db", "lookup"} = {} =>
                  /\ det' \in {"due", "lock", "pull", "snapshot", "upsert"} =>
                       amd'.decision = "none"
                  /\ amd'.decision = "none" => omega' = "old" /\ window' = "over"
                  /\ det' \in {"mode", "direction", "expiry"} =>
                       amd'.decision = found' /\ window' = "over"
                  /\ det' \in {"mode", "direction"} => omega' = "old"
  BY <1>1, <1>2 DEF DetectorInv, Fails
<1> USE DEF DetectorInv, config, detector, Det, DetEnds, DetAt
<1>4. CASE DetectionCron
  BY <1>4 DEF DetectionCron
<1>5. CASE StartupCheck
  BY <1>5, <1>1, ReadTyped DEF StartupCheck, Fails
<1>6. CASE LookAtLock
  BY <1>6 DEF LookAtLock
<1>7. ASSUME NEW direction \in Findings, Pull(direction)
      PROVE  /\ ~Fails("db") /\ det' = "upsert" => kept' = amd'.decision
             /\ faults \cap {"db", "lookup"} = {} =>
                  /\ det' \in {"due", "lock", "pull", "snapshot", "upsert"} =>
                       amd'.decision = "none"
                  /\ amd'.decision = "none" => omega' = "old" /\ window' = "over"
                  /\ det' \in {"mode", "direction", "expiry"} =>
                       amd'.decision = found' /\ window' = "over"
                  /\ det' \in {"mode", "direction"} => omega' = "old"
  BY <1>7 DEF Pull
<1>8. CASE ReadSnapshot
  BY <1>8, <1>1, ReadTyped DEF ReadSnapshot
<1>9. CASE Persist
  <2>1. CASE UNCHANGED amd /\ DetEnds
    BY <1>9, <2>1 DEF Persist
  <2>2. CASE Det("mode")
    <3>1. amd'.decision = IF kept = "none" THEN found ELSE kept
      BY <1>9, <1>3, <2>2 DEF Persist, Rows
    <3>2. amd'.decision # "none" /\ det' = "mode" /\ UNCHANGED <<omega, window, found>>
      BY <1>9, <1>3, <2>2, <3>1 DEF Persist, Directions
    <3>3. faults \cap {"db", "lookup"} = {} =>
            kept = "none" /\ omega = "old" /\ window = "over"
      BY <1>9 DEF Persist, Fails
    <3> QED
      BY <3>1, <3>2, <3>3
  <2> QED
    BY <1>9, <2>1, <2>2 DEF Persist
<1>10. CASE ApplyMode
  BY <1>10 DEF ApplyMode
<1>11. CASE ApplyDirection
  BY <1>11, <1>3 DEF ApplyDirection, Directions
<1>12. CASE ApplyExpiry
  BY <1>12, <1>3 DEF ApplyExpiry, Directions
<1>13. CASE Outcome
  <2>1. amd'.decision = amd.decision /\ amd.decision # "none" /\ UNCHANGED <<detector, config>>
    BY <1>13, <1>3 DEF Outcome, Rows
  <2> QED
    BY <2>1
<1>14. CASE AmdDies
  BY <1>14 DEF AmdDies
<1>15. CASE AmdStarts
  BY <1>15 DEF AmdStarts
<1>16. CASE UNCHANGED amdVars
  BY <1>16 DEF amdVars
<1> QED
  BY <1>4, <1>5, <1>6, <1>7, <1>8, <1>9, <1>10, <1>11, <1>12, <1>13, <1>14, <1>15, <1>16,
     DetectorAlone DEF AmdStep

-----------------------------------------------------------------------------
LEMMA Always == Spec => [](TradingInv /\ DetectorInv /\ signal \in CloseSignals)
<1>1. Init => TradingInv /\ DetectorInv /\ signal \in CloseSignals
  BY TradingInit, DetectorInit DEF Init
<1>2. ASSUME TradingInv /\ DetectorInv /\ signal \in CloseSignals, [Next]_vars
      PROVE  (TradingInv /\ DetectorInv /\ signal \in CloseSignals)'
  <2>1. TradingInv' /\ DetectorInv'
    BY <1>2, TradingStep, DetectorStep DEF DetectorInv
  <2>2. signal' = signal
    BY <1>2 DEF Next, vars, Detector, Trading, ScalperInitDay, Clock, Crash, Restart
  <2> QED
    BY <1>2, <2>1, <2>2
<1> QED
  BY <1>1, <1>2, PTL DEF Spec

-----------------------------------------------------------------------------
(* The rows and records stay of their types, whatever tick, cron, crash    *)
(* and detector do to each other; that ratchets stay within                *)
(* SCALPER_MAX_RATCHETS and mirrors within two a trade are parts of it.    *)
THEOREM TypeCorrect == Spec => []TypeOK
<1>1. TradingInv /\ DetectorInv /\ signal \in CloseSignals => TypeOK
  BY DEF TradingInv, DetectorInv, TypeOK
<1> QED
  BY <1>1, Always, PTL

(* A trade whose row or mirror says how it ended has ended at OANDA:       *)
(* handleWin, handleLoss, forceCloseOne and hardClose book what has been   *)
(* closed, and what of it failed they only mark.                           *)
THEOREM BookedTradesHaveEnded == ASSUME Honest PROVE Spec => []BookedHasEnded
<1>1. TradingInv => BookedHasEnded
  BY Honest DEF TradingInv, BookedAreEnded, BookedHasEnded, Ended, Filled
<1> QED
  BY <1>1, Always, PTL

(* While orders and tables answer, runEntryMonitor never opens a second    *)
(* trade beside an open one, however many orders the day has.              *)
THEOREM OneTradeIsOpen == Spec => []OneOpenTrade
<1>1. TradingInv => OneOpenTrade
  BY DEF TradingInv
<1> QED
  BY <1>1, Always, PTL

(* The decision snapshot of runAmdDetection outlives every second run, and *)
(* the omega engine is turned once, as decided, in any number of lives.    *)
THEOREM DecisionIsMadeOnce == Spec => DecidedOnce
<1>1. ASSUME DetectorInv, [Next]_vars
      PROVE  [/\ ~Fails("db") /\ amd.decision # "none" => amd'.decision = amd.decision
              /\ faults \cap {"db", "lookup"} = {} =>
                   /\ omega' # omega => omega = "old" /\ omega' = amd.decision
                   /\ window' # window => window = "over"]_<<dayVars, amdVars>>
  <2> SUFFICES /\ ~Fails("db") /\ amd.decision # "none" => amd'.decision = amd.decision
               /\ faults \cap {"db", "lookup"} = {} =>
                    /\ omega' # omega => omega = "old" /\ omega' = amd.decision
                    /\ window' # window => window = "over"
    OBVIOUS
  <2>1. amd \in Rows
    BY <1>1 DEF DetectorInv, AmdTypeOK
  <2>2. \/ UNCHANGED <<amd, omega, window>>
        \/ Persist \/ ApplyMode \/ ApplyDirection \/ ApplyExpiry \/ Outcome
    BY <1>1, DetectorAlone DEF AmdStep, DetectionCron, StartupCheck, LookAtLock, ReadSnapshot,
       Pull, AmdDies, AmdStarts, amdVars, config
  <2>3. CASE Persist
    <3>1. UNCHANGED <<omega, window>>
      BY <2>3 DEF Persist, config
    <3>2. UNCHANGED amd \/ amd'.decision = IF kept = "none" THEN found ELSE kept
      BY <2>1, <2>3 DEF Persist, Rows
    <3>3. ~Fails("db") => kept = amd.decision
      BY <1>1, <2>3 DEF Persist, DetAt, DetectorInv
    <3> QED
      BY <3>1, <3>2, <3>3
  <2>4. CASE ApplyMode
    BY <1>1, <2>4 DEF ApplyMode, DetAt, DetectorInv
  <2>5. CASE ApplyDirection
    BY <1>1, <2>5 DEF ApplyDirection, DetAt, DetectorInv
  <2>6. CASE ApplyExpiry
    BY <1>1, <2>6 DEF ApplyExpiry, DetAt, DetectorInv
  <2>7. CASE Outcome
    <3>1. amd'.decision = amd.decision /\ UNCHANGED <<omega, window>>
      BY <2>1, <2>7 DEF Outcome, Rows, config
    <3> QED
      BY <3>1
  <2> QED
    BY <2>2, <2>3, <2>4, <2>5, <2>6, <2>7
<1> QED
  BY <1>1, Always, PTL DEF Spec, DecidedOnce

-----------------------------------------------------------------------------
(* Only an order sent by the tick fills anything.                          *)
LEMMA FillsAreOrders ==
  ASSUME TradingInv, [Next]_vars, NEW t \in Orders, Fills(t)
  PROVE  Order(t)
<1>1. venue \in [Orders -> {"none", "open", "tp", "sl", "flat"}]
  BY DEF TradingInv, ScalperTypeOK
<1>2. venue' # venue /\ venue[t] = "none" /\ venue'[t] = "open"
  BY DEF Fills
<1>3. CASE ScalperStep
  <2>1. \/ \E u \in Orders : Order(u) \/ Flat(u) \/ \E how \in {"tp", "sl"} : VenueEnds(u, how)
        \/ CronClose
    <3>1. ~ReadThrows /\ ~CronThrows
      BY <1>2 DEF ReadThrows, CronThrows, broker
    <3>2. ExitStep => \E u \in Orders : Flat(u)
      BY <1>2 DEF ExitStep, ReadDay, LoadFailed, LoadOpen, PollDone, PollSkips, PollFinds,
         Sync, Mirror, Win, WinDay, Ratchet, Loss, Others, FlatRow, FlatSyncThrows, NextFlat,
         Mark, Stop, broker
    <3>3. EntryStep => \E u \in Orders : Order(u)
      BY <1>2 DEF EntryStep, Entry, Check, NoOrder, Insert, broker
    <3>4. CronStep => CronClose
      BY <1>2 DEF CronStep, CronDay, CronOpen, CronStop, CronRow, CronSync, CronMirror,
         CronLeft, CronEach, CronMark, broker
    <3> QED
      BY <1>3, <3>1, <3>2, <3>3, <3>4 DEF ScalperStep
  <2>2. ASSUME NEW u \in Orders, Order(u) PROVE Order(t)
    <3>1. venue' = [venue EXCEPT ![u] = "open"]
      BY <2>2 DEF Order
    <3>2. t = u
      BY <1>1, <1>2, <3>1
    <3> QED
      BY <2>2, <3>2
  <2>3. ASSUME NEW u \in Orders, Flat(u) PROVE FALSE
    <3>1. venue' = venue \/ venue' = [venue EXCEPT ![u] = "flat"]
      BY <2>3 DEF Flat, CloseWorks, CloseThrows
    <3> QED
      BY <1>1, <1>2, <3>1
  <2>4. ASSUME NEW u \in Orders, NEW how \in {"tp", "sl"}, VenueEnds(u, how) PROVE FALSE
    BY <1>1, <2>4 DEF Fills, VenueEnds
  <2>5. CASE CronClose
    <3>1. venue' = venue \/ venue' = [venue EXCEPT ![cron.cur] = "flat"]
      BY <2>5 DEF CronClose, CloseWorks, CloseThrows
    <3> QED
      BY <1>1, <1>2, <3>1
  <2> QED
    BY <2>1, <2>2, <2>3, <2>4, <2>5
<1>4. CASE ~ScalperStep
  BY <1>2, <1>4 DEF Next, vars, scalperVars, broker, Detector, Trading, ScalperInitDay,
     InitializeDay, Clock, ScalperClock, Crash, ScalperDies, Restart
<1> QED
  BY <1>3, <1>4

LEMMA StoppedStays ==
  ASSUME TradingInv, [Next]_vars, day.stopped
  PROVE  day'.stopped
<1>1. day \in Days
  BY Typed
<1>2. CASE ScalperStep
  <2>1. ExitStep => Ratchet \/ Stop \/ day' = day
    BY DEF ExitStep, ReadDay, LoadFailed, LoadOpen, PollDone, PollSkips, PollFinds, Flat, Sync,
       Mirror, Win, WinDay, Loss, Others, FlatRow, FlatSyncThrows, NextFlat, Mark, tables
  <2>2. EntryStep => day' = day
    BY DEF EntryStep, Entry, Check, NoOrder, Insert, Order, tables
  <2>3. CronStep => CronStop \/ day' = day
    BY DEF CronStep, CronDay, CronOpen, CronClose, CronRow, CronSync, CronMirror, CronLeft,
       CronEach, CronMark, tables
  <2>4. CASE Ratchet
    <3>1. Ratcheted.stopped
      BY <1>1 DEF Ratcheted, Days
    <3> QED
      BY <2>4, <3>1 DEF Ratchet
  <2>5. CASE Stop \/ CronStop
    BY <1>1, <2>5 DEF Stop, CronStop, Days
  <2>6. CASE day' = day
    BY <2>6
  <2> QED
    BY <1>2, <2>1, <2>2, <2>3, <2>4, <2>5, <2>6
       DEF ScalperStep, ReadThrows, CronThrows, VenueEnds, tables
<1>3. CASE ~ScalperStep
  BY <1>3 DEF Next, vars, scalperVars, tables, Detector, Trading, ScalperInitDay,
     InitializeDay, NoDay, Clock, ScalperClock, Crash, ScalperDies, Restart
<1> QED
  BY <1>2, <1>3

(* Iron law 1, for every step of tick, cron and init crons: what they      *)
(* write to scalper_day_state never reopens a stopped day, and no order is *)
(* filled on it.                                                           *)
THEOREM StoppedDaysStay == Spec => StoppedForGood
<1>1. ASSUME TradingInv, [Next]_vars
      PROVE  [day.stopped => day'.stopped /\ \A t \in Orders : ~Fills(t)]_vars
  <2> SUFFICES ASSUME day.stopped PROVE day'.stopped /\ \A t \in Orders : ~Fills(t)
    OBVIOUS
  <2>1. tick.at # "order"
    BY <1>1 DEF TradingInv, Timely
  <2>2. \A t \in Orders : ~Fills(t)
    BY <1>1, <2>1, FillsAreOrders DEF Order, At
  <2> QED
    BY <1>1, <2>2, StoppedStays
<1> QED
  BY <1>1, Always, PTL DEF Spec, StoppedForGood

(* Iron law 3: handleLoss stops the day before the entry monitor runs      *)
(* again, so no order follows a booked loss.                               *)
THEOREM NoEntryFollowsLoss == Spec => NoEntryAfterLoss
<1>1. ASSUME TradingInv, [Next]_vars
      PROVE  [\A t \in Orders : Fills(t) /\ Reliable => Recorded("loss") = {}]_vars
  <2> SUFFICES ASSUME NEW t \in Orders, Fills(t), Reliable, NEW u \in Orders, row[u] = "loss"
               PROVE  FALSE
    BY DEF Recorded
  <2>1. tick.at = "order"
    BY <1>1, FillsAreOrders DEF Order, At
  <2>2. ~day.stopped
    BY <1>1, <2>1 DEF TradingInv, Timely
  <2> QED
    BY <1>1, <2>1, <2>2 DEF TradingInv, LossStops
<1> QED
  BY <1>1, Always, PTL DEF Spec, NoEntryAfterLoss
=============================================================================
