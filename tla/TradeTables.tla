----------------------------- MODULE TradeTables -----------------------------
(***************************************************************************)
(* What two tables promise of the trades of an engine that orders first    *)
(* and writes afterwards, whoever writes: a table may miss a trade or lag  *)
(* behind it, but never tells more than has happened at the venue, and     *)
(* takes nothing back.  Where PositionLedger holds, money is at risk only  *)
(* after it was written down; here it may be at risk unrecorded.           *)
(***************************************************************************)
CONSTANTS Trades,
          InOrder   \* a boolean: whether the mirror is written after the row

VARIABLES venue,   \* each trade there: "none", "open", "closed"
          row,     \* what the table of the engine says of it, in the same words
          mirror   \* what the other table says

(* The word a is said of a trade before the word b. *)
Behind(a, b) == (a = "none" /\ b # "none") \/ (a = "open" /\ b = "closed")

TablesInit ==
  /\ venue  = [t \in Trades |-> "none"]
  /\ row    = [t \in Trades |-> "none"]
  /\ mirror = [t \in Trades |-> "none"]

Moves(t, before, after) ==
  /\ venue[t] = before /\ venue' = [venue EXCEPT ![t] = after]
  /\ UNCHANGED <<row, mirror>>

Fill(t) == Moves(t, "none", "open")
End(t)  == Moves(t, "open", "closed")

(* Startup writes the ends of all the trades that ended while it was away. *)
Says(table, S, word) ==
  /\ \A t \in S : Behind(table[t], word) /\ ~Behind(venue[t], word)
  /\ table' = [t \in Trades |-> IF t \in S THEN word ELSE table[t]]

WriteRow(S, word)    == Says(row, S, word)    /\ UNCHANGED <<venue, mirror>>
WriteMirror(S, word) ==
  /\ InOrder => \A t \in S : ~Behind(row[t], word)
  /\ Says(mirror, S, word) /\ UNCHANGED <<venue, row>>

TablesNext ==
  \/ \E t \in Trades : Fill(t) \/ End(t)
  \/ \E S \in SUBSET Trades, word \in {"open", "closed"} :
       WriteRow(S, word) \/ WriteMirror(S, word)

Spec == TablesInit /\ [][TablesNext]_<<venue, row, mirror>>
=============================================================================
