----------------------------- MODULE ScalperDay -----------------------------
(***************************************************************************)
(* The AMD detector and the scalper in one process and through one day:    *)
(* the scalper takes its direction from the row the detector writes.       *)
(***************************************************************************)
EXTENDS AmdDay, Scalper

CONSTANT CloseSignals   \* asian_close_bias_signal of the day, to choose from

VARIABLE signal         \* that signal, which every detection finds

vars == <<dayVars, amdVars, scalperVars, signal>>

(* Type invariant: the day, the detector, the scalper. *)
TypeOK ==
  /\ DayTypeOK /\ AmdTypeOK /\ ScalperTypeOK
  /\ signal \in CloseSignals

Init == DayInit /\ AmdInit /\ ScalperInit /\ signal \in CloseSignals

-----------------------------------------------------------------------------
Detector == AmdStep /\ UNCHANGED <<scalperVars, signal>>
Trading  == ScalperStep /\ UNCHANGED <<amdVars, signal>>

(* resolveAmdDirection goes by the decision; the row has one as soon as it *)
(* is there.                                                               *)
ScalperInitDay ==
  /\ det # "due"
  /\ InitializeDay(amd.decision, signal)
  /\ UNCHANGED <<amdVars, signal>>

(* The 10:31 cron is started before the part of the day is over. *)
Clock ==
  /\ det # "due"
  /\ ClockTicks /\ ScalperClock
  /\ UNCHANGED <<amdVars, signal>>

Crash   == Dies /\ ScalperDies /\ AmdDies /\ UNCHANGED signal
Restart == Starts /\ AmdStarts /\ UNCHANGED <<scalperVars, signal>>

Next == Detector \/ Trading \/ ScalperInitDay \/ Clock \/ Crash \/ Restart

Spec == Init /\ [][Next]_vars

(* The timer starts a tick after the other, the cron that 16:00 starts     *)
(* runs, and a close that is asked for again and again works in the end.   *)
InScalper(A) == A /\ UNCHANGED <<amdVars, signal>>

Fairness ==
  /\ WF_vars(InScalper(ExitStep \/ EntryStep)) /\ WF_vars(InScalper(CronStep))
  /\ \A t \in Orders : SF_vars(InScalper(Flat(t) /\ tick'.at = "flat row"))

FairSpec == Spec /\ Fairness
-----------------------------------------------------------------------------
Fills(t) == venue[t] = "none" /\ venue'[t] = "open"

(* Iron law 1: a stopped day stays stopped, although ratchets, retried     *)
(* inits and the cron write its row from what they have read before; and   *)
(* no order is filled on it, although the entry monitor asks for prices,   *)
(* news and balance after it has read the row.                             *)
StoppedForGood ==
  [][day.stopped => day'.stopped /\ \A t \in Orders : ~Fills(t)]_vars

(* Iron law 3: after a booked loss no trade is opened; while the tables    *)
(* answer and the process lives, for then the tick gets to stop the day.   *)
Reliable == faults \cap {"db", "crash"} = {}

NoEntryAfterLoss ==
  [][\A t \in Orders : Fills(t) /\ Reliable => Recorded("loss") = {}]_vars

(* A trade whose row says how it ended has ended at OANDA, and so has one  *)
(* the dashboard shows, whichever of tick and cron closed it and whatever  *)
(* requests failed on the way.                                             *)
BookedHasEnded ==
  \A t \in Orders :
    row[t] \in Booked \/ Mirrored(t) => venue[t] \notin {"none", "open"}

(* Two trades are open at a time only if an order was filled unseen.       *)
OneOpenTrade ==
  faults \cap {"db", "order", "crash"} = {} =>
    \A t, u \in Orders : venue[t] = "open" /\ venue[u] = "open" => t = u

(* Liveness (iron law 6): after 16:00 every recorded trade is closed in    *)
(* the end, also when closes fail, unless the cron itself was cut short.   *)
HardCloseEnds ==
  \A t \in Orders :
    Reliable /\ ~Fails("closeCancel") /\ clock \in {"after", "evening"} /\ row[t] # "none"
      ~> venue[t] # "open"
=============================================================================
