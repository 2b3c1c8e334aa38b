---------------------------- MODULE MCIntervalSet ----------------------------
(* All sets of the ints of a small width, for TLC. *)
EXTENDS IntervalSetSpec

\* Every int but the largest.
Moderate == Int_ \ {MaxInt}
=============================================================================
