----------------------------- MODULE MCNodesOnTime -----------------------------
(* Instances of NodesOnTime for TLC. *)
EXTENDS NodesOnTime

CONSTANTS a, b, o

OneNode == {a}
TwoNodes == {a, b}
OneResource == {o}
NoNodes == {}
OnlyB == {b}

NoFaults == {}
Missed == {"missed"}
================================================================================
