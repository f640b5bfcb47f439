--------------------------- MODULE MCNodesController ---------------------------
(* Instances of NodesController for TLC. *)
EXTENDS NodesController

CONSTANTS a, o

OneNode == {a}
OneResource == {o}
NoNodes == {}

(* Everything but a failing event, after which a mark stands for nothing.        *)
AllButSend == FaultKinds \ {"send"}
================================================================================
