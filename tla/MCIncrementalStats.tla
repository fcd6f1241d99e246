------------------------- MODULE MCIncrementalStats -------------------------
(* Instances of IncrementalStats for TLC.                                  *)
EXTENDS IncrementalStats

MCValues == {-1, 0, 3}
=============================================================================
