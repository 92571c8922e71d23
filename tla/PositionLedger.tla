--------------------------- MODULE PositionLedger ---------------------------
(***************************************************************************)
(* What the trade log promises about one position, whoever writes it:      *)
(* the intention is recorded before money is at risk, the end is recorded  *)
(* only after the position has ended at the venue, and nothing is undone.  *)
(* An intention may come to nothing, and an end may never be recorded.     *)
(***************************************************************************)
EXTENDS FiniteSets

CONSTANT Positions

VARIABLE stage

Stages == {"absent", "intended", "live", "ended", "settled"}

LedgerTypeOK == stage \in [Positions -> Stages]

LedgerInit == stage = [p \in Positions |-> "absent"]

Advance(S, before, after) ==
  /\ S # {}
  /\ \A p \in S : stage[p] = before
  /\ stage' = [p \in Positions |-> IF p \in S THEN after ELSE stage[p]]

Intend(p) == Advance({p}, "absent", "intended")
GoLive(p) == Advance({p}, "intended", "live")
End(p)    == Advance({p}, "live", "ended")

(* Startup settles all the positions that ended while it was away. *)
Settle == \E S \in SUBSET {p \in Positions : stage[p] = "ended"} : Advance(S, "ended", "settled")

LedgerNext == Settle \/ \E p \in Positions : Intend(p) \/ GoLive(p) \/ End(p)

Spec == LedgerInit /\ [][LedgerNext]_stage
=============================================================================
