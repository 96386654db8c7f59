---------------------------- MODULE MCLifecycle ----------------------------
(* WorkflowLifecycle on small instances.                                   *)
EXTENDS WorkflowLifecycle, TLC

CONSTANTS w1, e1, e2, v1, v2, t1, t2, o1, o2

(* Every executor has every handler, or only e1 has.                       *)
AllRegistered == [e \in Executor |-> Workflow]
OnlyFirstRegistered == [e \in Executor |-> IF e = e1 THEN Workflow ELSE {}]

Symmetry == Permutations({t1, t2}) \cup Permutations({v1, v2})

(* Executors with the same handlers are interchangeable too.               *)
PeerSymmetry == Symmetry \cup Permutations({e1, e2})
=============================================================================
