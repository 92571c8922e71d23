----------------------------- MODULE MCAmdBooks -----------------------------
(* The AMD engine with an OANDA and an MT5 book, and a second trade for    *)
(* the OANDA book should the first be forgotten or not be counted: rows    *)
(* are not counted in behaviours where the process lives, every book       *)
(* answers and only the OANDA book is used.                                *)
EXTENDS AmdBooks

CONSTANTS oanda, vt, p1, c1

VARIABLE counts    \* whether every EXECUTED row is counted in this behaviour

Tries == [b \in Books |-> IF b = oanda THEN 2 ELSE 1]

Blind(p, b)  == leg[p][b] = "blind"
Starts(p, b) == leg[p][b] # "check" /\ leg'[p][b] = "check"

Counted == \A p \in Polls, b \in Books : ~Blind(p, b)'
Uncounted ==
  /\ up'
  /\ \A c \in Cycles : seen'[c].books \in {{}, Books}
  /\ \A t \in Trades : t.book = vt => live'[t] = "none"
  /\ \A p \in Polls, b \in Books :
       /\ Starts(p, b) => \E t \in Trades : t.book = oanda /\ live[t] = "none"
       /\ Blind(p, b)' => Unused(b) # {} \/ Blind(p, b)

MCInit     == Init /\ counts \in BOOLEAN
MCNext     == Next /\ UNCHANGED counts /\ IF counts THEN Counted ELSE Uncounted
MCFairSpec == MCInit /\ [][MCNext]_<<vars, counts>> /\ Fairness
=============================================================================
