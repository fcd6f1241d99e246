--------------------------- MODULE MCAggregateWindow ---------------------------
(* Windows of two points filled by three workers; the first two points have no   *)
(* numeric value.                                                               *)
EXTENDS AggregateWindow
=============================================================================
