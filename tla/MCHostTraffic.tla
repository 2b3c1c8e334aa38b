---------------------------- MODULE MCHostTraffic ----------------------------
(* A small host for TLC: the constants are given in the cfg. *)
EXTENDS HostTraffic
=============================================================================
