----------------------------- MODULE MCDiscovery -----------------------------
(* Small instances of Discovery for TLC. *)
EXTENDS Discovery

CONSTANTS node, node2, shell, logger

\* Two node services, of the same name.
Nodes == {node, node2}

NodeNames == [s \in Nodes |-> "NodeService"]

\* A shell service and the log service it requires.
Logged == {shell, logger}

LoggedNames == [s \in Logged |-> IF s = shell THEN "ShellService" ELSE "LogService"]
=============================================================================
