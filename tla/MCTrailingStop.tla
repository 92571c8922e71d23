--------------------------- MODULE MCTrailingStop ---------------------------
(* The stops of one trade, watched by one monitor cycle after the other. *)
EXTENDS TrailingStop

CONSTANT c1
=============================================================================
