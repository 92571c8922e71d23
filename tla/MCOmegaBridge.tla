--------------------------- MODULE MCOmegaBridge ---------------------------
(* OmegaBridge on small instances: practice, the Phase 2 OANDA account and *)
(* an MT5 terminal as brokers, one or two signals, one or two cycles.      *)
EXTENDS OmegaBridge

CONSTANTS s1, s2, practice, phase2, vt, c1, c2

OneSignal  == {s1}
TwoSignals == {s1, s2}
AllLong  == [s \in Signals |-> "LONG"]
Opposite == [s \in Signals |-> IF s = s1 THEN "LONG" ELSE "SHORT"]
BothWays == {"LONG", "SHORT"}
=============================================================================
