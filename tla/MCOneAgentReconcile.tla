-------------------------- MODULE MCOneAgentReconcile --------------------------
(* Specs of a OneAgent, and the failures of each run of OneAgentReconcile.       *)
EXTENDS OneAgentReconcile

Installer == [immutable |-> FALSE, agentVersion |-> 0, image |-> FALSE,
              customPullSecret |-> FALSE, disabled |-> FALSE, unprivileged |-> FALSE]
Immutable == [Installer EXCEPT !.immutable = TRUE]
Pinned == [Immutable EXCEPT !.agentVersion = 1]
OwnImage == [Immutable EXCEPT !.image = TRUE, !.customPullSecret = TRUE]

Edited == {Immutable, Pinned, Installer, [Installer EXCEPT !.disabled = TRUE]}
Supported == {Installer, Immutable, Pinned, OwnImage, [Installer EXCEPT !.disabled = TRUE]}
Unprivileged == {[Immutable EXCEPT !.unprivileged = TRUE]}

NoFaults == {}
CallsAndEdits == {"api", "edit"}
OlderImages == {"api", "rollback"}
CallsEditsAndMore == CallsAndEdits \cup {"istio", "rollback"}
LostUpdates == {"crash", "save"}
Surroundings == {"tokens", "unready"}
Both == LostUpdates \cup Surroundings

AllFaults == Specs \X {Faults}
EditsOrMore == (Specs \X {CallsAndEdits}) \cup ({Immutable} \X {OlderImages, {"istio"}})
LostOrUnready == (Specs \X {LostUpdates}) \cup ({Immutable} \X {Surroundings})

================================================================================
