---------------------------- MODULE MCAlphaOmega ----------------------------
(* AlphaOmega with short streaks and few fires: where nothing fails one of *)
(* MaxFires gaps may age or break a streak, and where something does       *)
(* ShortRun fires come with gaps that arm one, or one fire less where      *)
(* writes fail or a failed read hides the switch.                          *)
EXTENDS AlphaOmega

CONSTANTS long, short, book, ShortRun

Late(f) == fire'[f].at - 4 * f
Fired   == {f \in Fires : fire'[f].dir # "none"}
Run     == IF faults \in {{"write"}, {"read", "switch"}} THEN ShortRun - 1 ELSE ShortRun
Brief   == \A f \in Fired : f <= Run /\ Late(f) = 0
OneLate == \A f, g \in Fired : Late(f) = 0 \/ Late(g) \in {0, Late(f)}

MCNext     == Next /\ (IF faults = {} THEN OneLate ELSE Brief)
MCFairSpec == Init /\ [][MCNext]_vars /\ Fairness
=============================================================================
