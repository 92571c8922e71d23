------------------------------- MODULE AmdDay -------------------------------
(***************************************************************************)
(* The AMD detector: at 10:31 it decides on the direction of the day,      *)
(* locks the decision in amd_state and, in auto mode, points the omega     *)
(* engine the same way until 16:00.  At 16:30 the outcome is written and   *)
(* the lock released; a process started later in the day looks whether it  *)
(* has to catch up.                                                        *)
(***************************************************************************)
EXTENDS TradingDay

CONSTANTS AutoModes,   \* whether direction_mode may be auto, manual, or both
          Findings     \* the directions the candles of the day may give

Directions == {"long", "short", "neutral"}

ASSUME AmdDayAssumption == AutoModes \subseteq BOOLEAN /\ Findings \subseteq Directions

VARIABLES
  auto,     \* bridge_config direction_mode = auto
  amd,      \* today's row of amd_state
  det,      \* where runAmdDetection or the startup check stands
  found,    \* the direction it has computed
  kept,     \* the decision it has read, if any
  omega,    \* bridge_config omega_direction, "old" if of an earlier day
  window    \* omega_direction_valid_until

amdVars == <<auto, amd, det, found, kept, omega, window>>
detector == <<det, found, kept>>
config   == <<omega, window>>

NoRow == [decision |-> "none", direction |-> "none", locked |-> FALSE, outcome |-> FALSE]
Rows  == [decision : Directions \cup {"none"}, direction : Directions \cup {"none"},
          locked : BOOLEAN, outcome : BOOLEAN]

DetPcs == {"due", "check", "lock", "pull", "snapshot", "upsert", "mode", "direction",
           "expiry", "idle"}

(* Type invariant of the detector and of what it writes. *)
AmdTypeOK ==
  /\ auto \in AutoModes
  /\ amd \in Rows
  /\ det \in DetPcs
  /\ found \in Directions /\ kept \in Directions \cup {"none"}
  /\ omega \in Directions \cup {"old"}
  /\ window \in {"over", "today", "tomorrow"}

AmdInit ==
  /\ auto \in AutoModes
  /\ amd = NoRow
  /\ det = "due" /\ found = "neutral" /\ kept = "none"
  /\ omega = "old" /\ window = "over"

-----------------------------------------------------------------------------
(* Names with Bug are mistakes a change to the code could make; no         *)
(* specification uses them: the properties are tested against them.        *)
DetAt(label) == up /\ det = label
Det(label)   == det' = label /\ UNCHANGED <<found, kept>>
DetEnds      == det' = "idle" /\ found' = "neutral" /\ kept' = "none"

(* The reads of the row drop their error: a row that cannot be read is     *)
(* taken for one that is not there.                                        *)
Read(kind) == {amd} \cup (IF Fails(kind) THEN {NoRow} ELSE {})

DetectionCron ==
  /\ DetAt("due") /\ clock = "init"
  /\ Det("lock")
  /\ UNCHANGED <<dayVars, auto, amd, config>>

(* Startup: a decision that is there is protected from a second detection. *)
StartupCheck ==
  /\ DetAt("check")
  /\ \E row \in Read("lookup") : IF row.decision # "none" THEN DetEnds ELSE Det("lock")
  /\ UNCHANGED <<dayVars, auto, amd, config>>

LookAtLock ==
  /\ DetAt("lock")
  /\ \E row \in Read("lookup") : IF row.locked THEN DetEnds ELSE Det("pull")
  /\ UNCHANGED <<dayVars, auto, amd, config>>

(* Candles that cannot be fetched end the run; that there are none counts  *)
(* as a neutral day.                                                       *)
Pull(direction) ==
  /\ DetAt("pull")
  /\ \/ det' = "snapshot" /\ found' = direction /\ UNCHANGED kept
     \/ Fails("candles") /\ DetEnds
  /\ UNCHANGED <<dayVars, auto, amd, config>>

ReadSnapshot ==
  /\ DetAt("snapshot")
  /\ \E row \in Read("db") : kept' = row.decision
  /\ det' = "upsert" /\ UNCHANGED found
  /\ UNCHANGED <<dayVars, auto, amd, config>>

(* The upsert replaces the direction and keeps the decision. *)
PersistBugOverwrites ==
  /\ DetAt("upsert")
  /\ amd' = [amd EXCEPT !.decision = found, !.direction = found, !.locked = TRUE]
  /\ Det("mode")
  /\ UNCHANGED <<dayVars, auto, config>>

Persist ==
  /\ DetAt("upsert")
  /\ \/ amd' = [amd EXCEPT !.decision = IF kept = "none" THEN found ELSE kept,
                           !.direction = found, !.locked = TRUE]
        /\ Det("mode")
     \/ Fails("db") /\ UNCHANGED amd /\ DetEnds
  /\ UNCHANGED <<dayVars, auto, config>>

(* applyAutoDirectionToBridgeConfig: a neutral day ends the window of the  *)
(* omega engine, any other first sets its direction.                       *)
ApplyMode ==
  /\ DetAt("mode")
  /\ \/ auto /\ found # "neutral" /\ Det("direction") /\ UNCHANGED window
     \/ auto /\ found = "neutral" /\ DetEnds
          /\ (window' = "over" \/ (Fails("config") /\ UNCHANGED window))
     \/ (~auto \/ Fails("config")) /\ DetEnds /\ UNCHANGED window
  /\ UNCHANGED <<dayVars, auto, amd, omega>>

ApplyDirection ==
  /\ DetAt("direction")
  /\ \/ omega' = found /\ Det("expiry")
     \/ Fails("config") /\ UNCHANGED omega /\ DetEnds
  /\ UNCHANGED <<dayVars, auto, amd, window>>

(* The next 16:00. *)
ApplyExpiry ==
  /\ DetAt("expiry")
  /\ window' = (IF clock \in {"after", "evening"} THEN "tomorrow" ELSE "today")
       \/ (Fails("config") /\ UNCHANGED window)
  /\ DetEnds
  /\ UNCHANGED <<dayVars, auto, amd, omega>>

(* runAmdOutcomeDetection, by its cron or at startup when it has not been  *)
(* written; a tag that is not eligible never is.                           *)
Outcome ==
  /\ up /\ clock = "evening" /\ amd.decision # "none" /\ ~amd.outcome
  /\ amd' = [amd EXCEPT !.outcome = TRUE, !.locked = FALSE]
  /\ UNCHANGED <<dayVars, auto, detector, config>>

AmdStep ==
  \/ DetectionCron \/ StartupCheck \/ LookAtLock \/ ReadSnapshot \/ Persist
  \/ \E direction \in Findings : Pull(direction)
  \/ ApplyMode \/ ApplyDirection \/ ApplyExpiry \/ Outcome

(* Whatever the detector was doing is gone, the cron included. *)
AmdDies   == DetEnds /\ UNCHANGED <<auto, amd, config>>
AmdStarts == Det("check") /\ UNCHANGED <<auto, amd, config>>
-----------------------------------------------------------------------------
(* "Immutable 10:31 decision snapshot, preserved across detection reruns", *)
(* those included that a failed look at the row lets through: the decision *)
(* of the day is made once, if the snapshot itself can be read.  The omega *)
(* engine is turned once a day at the most and then as decided, and its    *)
(* window opened once, however often the process is started again: also in *)
(* the evening, when the outcome has released the lock.                    *)
DecidedOnce ==
  [][/\ ~Fails("db") /\ amd.decision # "none" => amd'.decision = amd.decision
     /\ faults \cap {"db", "lookup"} = {} =>
          /\ omega' # omega => omega = "old" /\ omega' = amd.decision
          /\ window' # window => window = "over"]_<<dayVars, amdVars>>
=============================================================================
