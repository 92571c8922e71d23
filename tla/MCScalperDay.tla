---------------------------- MODULE MCScalperDay ----------------------------
(* ScalperDay with settings under which a win moves the reference forward, *)
(* and settings under which it would move it back.                         *)
EXTENDS ScalperDay

CONSTANTS t1, t2

BothGains == {-1, 1}

(* Failures of the broker, of the tables and of the process; and a process *)
(* that dies while the settings of the bridge, and then also the decision  *)
(* of the day, cannot be read.                                             *)
FaultModels ==
  {{"close", "quote", "mirror", "candles"}, {"db", "order"}, {"crash"},
   {"config", "crash"}, {"config", "lookup", "crash"}}

(* The last two are explored on days on which the Asian close has the      *)
(* opposite sign and nothing is traded: the scalper does not read what the *)
(* detector then does to the omega engine, and the detector nothing of it. *)
MCInit ==
  /\ Init
  /\ Fails("config") <=> auto
  /\ auto <=> signal = "BEARISH"
  /\ Fails("crash") \/ Fails("db") => gain = 1

MCSpec     == MCInit /\ [][Next]_vars
MCFairSpec == MCSpec /\ Fairness
=============================================================================
