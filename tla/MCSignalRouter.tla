--------------------------- MODULE MCSignalRouter ---------------------------
(* SignalRouter in two kinds of small worlds.  Where the account moves and *)
(* switches are turned one signal at a time comes, and a later gate ends   *)
(* it; where they rest, signals are traded, the account is read once after *)
(* a start and no trade is lost; dates change there unless something else  *)
(* than a crash may happen.  Where the feed has problems only the switch   *)
(* of the bridge is turned.  Trades have two directions where PairIsGuarded*)
(* speaks of them.                                                         *)
EXTENDS SignalRouter

CONSTANTS s1, s2

Guarding ==
  /\ touched' = TRUE
  /\ slot'[s1].at \in {"free", "config", "vet"} /\ slot'[s2].at = "free"

Trading ==
  /\ losses' = 0 /\ (beat' => cached = 0)
  /\ touched' \/ faults \subseteq {"crash"}

Feeding == Guarding /\ equity' = 100 /\ cached' \in {0, 100} /\ losses' = 0 /\ killDb' = FALSE

OneWay == \A s \in Slots : slot'[s].dir = "LONG"

Small  ==
  /\ faults \cap {"crash", "world"} # {} => OneWay
  /\ IF Fails("feed") THEN Feeding ELSE IF Fails("world") THEN Guarding ELSE Trading
MCNext == Next /\ Small

MCFairness ==
  /\ WF_vars(Heartbeat /\ Small) /\ SF_vars(Heartbeat /\ cached' = equity /\ Small)
  /\ WF_vars(LooksOn /\ Small) /\ WF_vars(Tick /\ UNCHANGED router /\ Small)
  /\ WF_vars(Restarts(RailwayRestart) /\ Small)
  /\ WF_vars(Feed(Subscribed) /\ channel = "joining" /\ Small) /\ WF_vars(Feed(Reconnect) /\ Small)
  /\ WF_vars(Listen /\ Small) /\ WF_vars(ReloadRead) /\ WF_vars(\E row \in reloads : ReloadApply(row))
  /\ \A s \in Slots : WF_vars(SignalStep(s) /\ Small)

MCInit     == Init /\ ((Fails("world") /\ ~Fails("feed")) \/ equity = 100)
MCSpec     == MCInit /\ [][MCNext]_vars
MCFairSpec == MCSpec /\ MCFairness
=============================================================================
