----------------------------- MODULE TradingDay -----------------------------
(***************************************************************************)
(* What the crons and timers of one UTC day share: the process they run in *)
(* and the part of the day it is.  What they remember is lost when the     *)
(* process dies; a cron that was missed meanwhile is not run again.        *)
(***************************************************************************)
EXTENDS Naturals

CONSTANTS FaultSets,   \* the fault models to choose from
          Lives        \* bound: how often the process may be started again

FaultKinds == { "db",        \* a read or a write of a table fails
                "lookup",    \* a read that decides whether to run at all fails
                "config",    \* a read or a write of bridge_config fails
                "candles",   \* the broker's candles cannot be fetched
                "mirror",    \* the insert of a mirror row fails and is only logged
                "order",     \* an order times out, filled or not
                "quote",     \* the broker does not answer for a trade
                "close",     \* a close request throws, executed or not
                "closeCancel",  \* OANDA cancels a close, and the code takes it for done
                "crash" }    \* the process dies

ASSUME TradingDayAssumption == FaultSets \subseteq SUBSET FaultKinds /\ Lives \in Nat

VARIABLES
  faults,   \* the fault model of this behaviour
  up,       \* whether the process is up
  lives,    \* how often it may still be started again
  clock     \* the part of the day

dayVars == <<faults, up, lives, clock>>

(* 10:31 to 10:42, to 15:55, to 16:00, to 16:30, and then. *)
Clocks == {"init", "window", "late", "after", "evening"}

DayTypeOK ==
  /\ faults \in FaultSets
  /\ up \in BOOLEAN /\ lives \in 0..Lives
  /\ clock \in Clocks

DayInit == faults \in FaultSets /\ up = TRUE /\ lives = Lives /\ clock = "init"

Fails(kind) == kind \in faults

Later == [init |-> "window", window |-> "late", late |-> "after", after |-> "evening",
          evening |-> "evening"]

ClockTicks == /\ clock' = Later[clock] /\ clock' # clock
              /\ UNCHANGED <<faults, up, lives>>
Dies       == /\ Fails("crash") /\ up /\ lives > 0
              /\ up' = FALSE /\ lives' = lives - 1
              /\ UNCHANGED <<faults, clock>>
Starts     == ~up /\ up' = TRUE /\ UNCHANGED <<faults, lives, clock>>
=============================================================================
