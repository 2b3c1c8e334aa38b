--------------------------- MODULE MCNodeService ---------------------------
(* A small node for TLC: the constants are given in the cfg. *)
EXTENDS NodeService, TLC

\* The properties name no handler and no port.
Symmetry == Permutations(Handlers) \cup Permutations(Ports)
=============================================================================
