-------------------------- MODULE AlphaOmegaStreak --------------------------
(***************************************************************************)
(* The streak of AlphaOmega: same-direction fires that come close enough   *)
(* together arm it, and the first fire against an armed streak cracks it.  *)
(* Times are minutes.  A direction that is not there is "none".            *)
(***************************************************************************)
EXTENDS Integers

CONSTANTS Directions,    \* LONG and SHORT
          ArmLength,     \* ENTRY_STREAK_LENGTH
          SpeedCeiling,  \* ENTRY_SPEED_CEILING_MIN
          MaxGap,        \* MAX_INTRA_RUN_GAP_MINUTES
          SpeedFloor,    \* ENTRY_SPEED_FLOOR_MIN
          MidBandMax     \* ENTRY_SPEED_MID_BAND_MAX_MIN

ASSUME StreakAssumption ==
  /\ "none" \notin Directions
  /\ ArmLength \in Nat \ {0}
  /\ {SpeedCeiling, MaxGap, SpeedFloor, MidBandMax} \subseteq Nat
  /\ SpeedFloor <= SpeedCeiling /\ SpeedCeiling <= MidBandMax

(* alpha_omega_streak_state; armed is armed_direction, "none" while the    *)
(* streak is not armed.                                                    *)
NoStreak == [dir |-> "none", length |-> 0, start |-> 0, last |-> 0, armed |-> "none"]

NoCrack == [broken |-> "none", enter |-> "none", length |-> 0, speed |-> 0]

Crack(streak, dir) ==
  IF streak.armed \in Directions \ {dir}
  THEN [broken |-> streak.armed, enter |-> dir,
        length |-> streak.length, speed |-> streak.last - streak.start]
  ELSE NoCrack

(* An unarmed streak older than the ceiling is dropped; an armed one never *)
(* is.                                                                     *)
Continues(streak, dir, at) ==
  /\ streak.dir = dir
  /\ at - streak.last <= MaxGap
  /\ streak.armed = "none" => at - streak.start <= SpeedCeiling

(* processFireForStreak: the streak after a fire.  The form with Bug is a  *)
(* mistake the properties are tested against.                              *)
AfterFireBugStaysArmed(streak, dir, at) ==
  LET on     == Continues(streak, dir, at)
      length == IF on THEN streak.length + 1 ELSE 1
      start  == IF on THEN streak.start ELSE at
      arms   == length >= ArmLength /\ at - start \in 0..SpeedCeiling
  IN  [dir |-> dir, length |-> length, start |-> start, last |-> at,
       armed |-> IF streak.armed = "none" /\ arms THEN dir ELSE streak.armed]

AfterFire(streak, dir, at) ==
  LET on     == Continues(streak, dir, at)
      length == IF on THEN streak.length + 1 ELSE 1
      start  == IF on THEN streak.start ELSE at
      kept   == IF Crack(streak, dir) = NoCrack THEN streak.armed ELSE "none"
      arms   == length >= ArmLength /\ at - start \in 0..SpeedCeiling
  IN  [dir |-> dir, length |-> length, start |-> start, last |-> at,
       armed |-> IF kept = "none" /\ arms THEN dir ELSE kept]

(* evaluateAlphaOmegaEntryGate without the blackout: the crack goes the    *)
(* way of the fire, and the speed of the streak is in a band that is kept. *)
EntrySpeed(speed) == speed > SpeedFloor /\ speed \notin SpeedCeiling+1..MidBandMax

Enters(crack, dir) ==
  crack # NoCrack /\ crack.enter = dir /\ EntrySpeed(crack.speed)
=============================================================================
