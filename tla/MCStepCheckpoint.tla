-------------------------- MODULE MCStepCheckpoint --------------------------
(* StepCheckpoint on a function of three positions: a step, and then two   *)
(* calls built together if it succeeded, or another one if it failed.      *)
EXTENDS StepCheckpoint, TLC

CONSTANTS x1, x2, t1, t2

(* Two live results that are written alike, and an error.                  *)
Outcomes == {"out", "outLossy", "err"}
Texts == {"outText", "errText"}
EncodeAs == [o \in Outcomes |-> IF o = "err" THEN "errText" ELSE "outText"]
DecodeAs == [t \in Texts |-> IF t = "errText" THEN "err" ELSE "out"]

Names == {"charge", "ship", "refund", "now"}
Branch(n, h) ==
    CASE n = 0 -> "charge"
      [] n = 1 -> IF h[0] = "out" THEN "ship" ELSE "refund"
      [] n = 2 -> IF h[0] = "out" THEN "now" ELSE Return
      [] OTHER -> Return

Symmetry == Permutations(Execution) \cup Permutations(Instant)
=============================================================================
