----------------------------- MODULE MCPodRollout -----------------------------
(* Values for the bounds of PodRollout and the failures of each run.             *)
EXTENDS PodRollout, TLC

CONSTANTS n1, n2, a, b, c

OneNode == {n1}
TwoNodes == {n1, n2}
TwoNames == {a, b}
ThreeNames == {a, b, c}
Names == Permutations(ThreeNames)

(* 1.9.0, 1.10.0 and a second build of 1.10.0.                                   *)
Releases == <<<< <<1>>, <<9>>, <<0>>, <<3, 1>> >>,
              << <<1>>, <<1, 0>>, <<0>>, <<1, 9>> >>,
              << <<1>>, <<1, 0>>, <<0>>, <<2, 4>> >> >>

NoFaults == {}
Tidy == {"api", "crash", "unready", "rollback"}
Untidy == FaultKinds \ {"early", "unready", "api"}

================================================================================
