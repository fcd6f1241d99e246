--------------------------- MODULE SlidingWindow ---------------------------
(***************************************************************************)
(* What a count-window aggregate promises: it remembers the last "size"    *)
(* valid values that were added since it was created or reset, in their    *)
(* order of arrival, and nothing else.                                     *)
(***************************************************************************)
EXTENDS Integers, Sequences

CONSTANT Values        \* the numbers a data point may carry

VARIABLES window,      \* oldest value first
          size         \* length of the window, fixed from the start

\* The last n elements of a sequence (all of them when it is shorter).
LastN(s, n) == IF Len(s) <= n THEN s ELSE SubSeq(s, Len(s) - n + 1, Len(s))

WInit == window = << >> /\ size \in Nat

WAdd == \E v \in Values : window' = LastN(Append(window, v), size) /\ UNCHANGED size

WReset == window' = << >> /\ UNCHANGED size

WSpec == WInit /\ [][WAdd \/ WReset]_<<window, size>>
=============================================================================
