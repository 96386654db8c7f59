---------------------------- MODULE DecisionLog ----------------------------
(* What the step checkpoints of one workflow promise, whatever happens to  *)
(* the executions that write them: each position of the workflow function  *)
(* is decided at most once and for good, an execution learns the decision  *)
(* and nothing else, and the workflow's outcome is computed from a fully   *)
(* decided history.  StepCheckpoint is shown to implement it.              *)
EXTENDS Integers

CONSTANTS
    Execution,   \* the executions of the workflow
    Position,    \* the positions of its function, 0 .. some last one
    Outcome,     \* what an operation at a position can come to
    Nothing,     \* no outcome yet
    Length       \* how many positions an ended function may have used

VARIABLES
    decided,     \* [Position -> Outcome or Nothing]
    learned,     \* [Execution -> [Position -> Outcome or Nothing]]
    ended,       \* the workflow has a recorded outcome ...
    outcome      \* ... computed from this history

logVars == <<decided, learned, ended, outcome>>

Unknown == [n \in Position |-> Nothing]

LogInit ==
    /\ decided = Unknown
    /\ learned = [x \in Execution |-> Unknown]
    /\ ended = FALSE
    /\ outcome = Unknown

(* A position is decided; its execution may have stopped meanwhile.        *)
Decide(n, o) ==
    /\ decided[n] = Nothing
    /\ decided' = [decided EXCEPT ![n] = o]
    /\ UNCHANGED <<learned, ended, outcome>>

(* An execution learns what was decided.                                   *)
Learn(x, n) ==
    /\ decided[n] # Nothing
    /\ learned' = [learned EXCEPT ![x][n] = decided[n]]
    /\ UNCHANGED <<decided, ended, outcome>>

(* An execution decides a position and is told so.                         *)
DecideAndLearn(x, n, o) ==
    /\ decided[n] = Nothing
    /\ decided' = [decided EXCEPT ![n] = o]
    /\ learned' = [learned EXCEPT ![x][n] = o]
    /\ UNCHANGED <<ended, outcome>>

(* The workflow ends, once, having consumed the decisions before position  *)
(* k and nothing else: its outcome repeats from the record.                *)
Finish(k) ==
    /\ ~ended
    /\ \A n \in Position : n < k => decided[n] # Nothing
    /\ ended' = TRUE
    /\ outcome' = [n \in Position |-> IF n < k THEN decided[n] ELSE Nothing]
    /\ UNCHANGED <<decided, learned>>

LogNext ==
    \/ \E n \in Position, o \in Outcome : Decide(n, o)
    \/ \E x \in Execution, n \in Position : Learn(x, n)
    \/ \E x \in Execution, n \in Position, o \in Outcome :
          DecideAndLearn(x, n, o)
    \/ \E k \in Length : Finish(k)

LogSpec == LogInit /\ [][LogNext]_logVars
=============================================================================
