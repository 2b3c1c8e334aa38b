----------------------------- MODULE MCSessions -----------------------------
\* Sessions for TLC: the runs differ in their constants only.
EXTENDS Sessions, TLC

\* The goroutines of Connect and the ports of a node are interchangeable.
Symmetry == Permutations(Handlers) \cup Permutations(Ports)
=============================================================================
