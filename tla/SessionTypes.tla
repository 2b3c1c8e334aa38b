---------------------------- MODULE SessionTypes ----------------------------
(* What the web service and the node services share. *)

CONSTANTS
  Users,    \* users, named by their uuid
  Nodes     \* node services, named by their IP

ASSUME SessionAssumption == Users # {} /\ Nodes # {}
=============================================================================
