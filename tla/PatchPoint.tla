----------------------------- MODULE PatchPoint -----------------------------
(* A workflow whose code is changed while runs of it are in progress:      *)
(* DurableContext::patch and deprecate_patch.  The program has a step      *)
(* before the point, the changed step, and a step after it.  Version       *)
(* "before" has no patch call; "patched" branches on it; "after" calls     *)
(* deprecate_patch and has only the new step.                              *)
(*                                                                         *)
(* Executions of one run follow each other, or overlap.  Overlapping ones  *)
(* have one version unless Rolling.  As the doc of deprecate_patch asks,   *)
(* version "after" meets no run that took the old path.                    *)
EXTENDS Integers, Sequences, Functions

CONSTANTS
    PatchExec,    \* executions of the run
    Rolling,      \* executions of two versions may overlap
    NoName        \* nothing is recorded at a position
(* A position that holds nothing holds no operation's name.               *)
ASSUME PatchAssumption == NoName \notin {"A", "X", "N", "B", "patch"}

Marker == "patch"
Versions == <<"before", "patched", "after">>

VARIABLES
    names,        \* the function_name recorded at each position
    deployed,     \* the version deployed
    pe            \* [PatchExec -> its execution]
patchVars == <<names, deployed, pe>>

PatchInit ==
    /\ names = [n \in 0 .. 4 |-> NoName]
    /\ deployed = 1
    /\ pe = [e \in PatchExec |-> [pc |-> "new", v |-> 1, seq |-> 0, path |-> "old",
                                  ran |-> FALSE, end |-> "none"]]

Running(e) == pe[e].pc \notin {"new", "over"}
Ends(e, how) == pe' = [pe EXCEPT ![e].pc = "over", ![e].end = how]
Beyond(pc) == CASE pc = "first" -> "point" [] pc = "work" -> "last" [] pc = "last" -> "over"
(* The step an execution is at.                                            *)
Op(e) == CASE pe[e].pc = "first" -> "A"
           [] pe[e].pc = "work" -> (IF pe[e].path = "new" THEN "N" ELSE "X")
           [] pe[e].pc = "last" -> "B"
Recorded(e) == names[pe[e].seq]
Moves(e, pc, path, taken) ==
    pe' = [pe EXCEPT ![e].pc = pc, ![e].path = path, ![e].seq = @ + taken,
                   ![e].ran = FALSE]

(* A run is picked up by the version deployed.                             *)
Deploy ==
    /\ deployed < Len(Versions) /\ deployed' = deployed + 1
    /\ UNCHANGED <<names, pe>>
BeginExecution(e) ==
    /\ pe[e].pc = "new"
    /\ Rolling \/ \A f \in PatchExec : Running(f) => pe[f].v = deployed
    /\ Versions[deployed] = "after" => "X" \notin Range(names)
    /\ pe' = [pe EXCEPT ![e].pc = "first", ![e].v = deployed]
    /\ UNCHANGED <<names, deployed>>
ExecutionStops(e) ==
    /\ Running(e) /\ Ends(e, "crashed")
    /\ UNCHANGED <<names, deployed>>

(* An ordinary step: what is recorded is served if it is this step's; or   *)
(* the body runs, and its insert finds that a rival recorded the position. *)
StepServed(e) ==
    /\ pe[e].pc \in {"first", "work", "last"} /\ ~pe[e].ran
    /\ IF Recorded(e) = NoName THEN pe' = [pe EXCEPT ![e].ran = TRUE]
       ELSE IF Recorded(e) = Op(e) THEN Moves(e, Beyond(pe[e].pc), pe[e].path, 1)
       ELSE Ends(e, "UnexpectedStep")
    /\ UNCHANGED <<names, deployed>>
StepRecorded(e) ==
    /\ Running(e) /\ pe[e].ran
    /\ IF Recorded(e) = NoName
       THEN /\ names' = [names EXCEPT ![pe[e].seq] = Op(e)]
            /\ Moves(e, Beyond(pe[e].pc), pe[e].path, 1)
       ELSE Ends(e, "WorkflowConflict") /\ names' = names
    /\ deployed' = deployed

(* The point, for each version of the code.  patch reads the name at the   *)
(* position it would take and claims it only on the new path; record_patch *)
(* leaves a position alone that was recorded since.                        *)
NoPatchCall(e) ==
    /\ pe[e].pc = "point" /\ Versions[pe[e].v] = "before"
    /\ Moves(e, "work", "old", 0)
    /\ UNCHANGED <<names, deployed>>
(* Faulty form, for the mutants: the old path gives up a position too.     *)
PatchClaims(e) ==
    /\ pe[e].pc = "point" /\ Versions[pe[e].v] = "patched"
    /\ IF Recorded(e) = NoName THEN pe' = [pe EXCEPT ![e].pc = "mark"]
       ELSE Moves(e, "work", IF Recorded(e) = Marker THEN "new" ELSE "old", 1)
    /\ UNCHANGED <<names, deployed>>
Patch(e) ==
    /\ pe[e].pc = "point" /\ Versions[pe[e].v] = "patched"
    /\ IF Recorded(e) = NoName THEN pe' = [pe EXCEPT ![e].pc = "mark"]
       ELSE IF Recorded(e) = Marker THEN Moves(e, "work", "new", 1)
       ELSE Moves(e, "work", "old", 0)
    /\ UNCHANGED <<names, deployed>>
RecordMarker(e) ==
    /\ pe[e].pc = "mark"
    /\ names' = IF Recorded(e) = NoName THEN [names EXCEPT ![pe[e].seq] = Marker] ELSE names
    /\ Moves(e, "work", "new", 1)
    /\ deployed' = deployed
DeprecatePatch(e) ==
    /\ pe[e].pc = "point" /\ Versions[pe[e].v] = "after"
    /\ Moves(e, "work", "new", IF Recorded(e) = Marker THEN 1 ELSE 0)
    /\ UNCHANGED <<names, deployed>>

PatchNext ==
    \/ Deploy
    \/ \E e \in PatchExec :
         \/ BeginExecution(e) \/ ExecutionStops(e) \/ StepServed(e) \/ StepRecorded(e)
         \/ NoPatchCall(e) \/ Patch(e) \/ RecordMarker(e) \/ DeprecatePatch(e)
PatchSpec == PatchInit /\ [][PatchNext]_patchVars

(* ---------------------------------------------------------- property *)

(* However often the run is picked up, by whichever version of its code,   *)
(* no execution meets another operation's record at its position, and the  *)
(* run has the steps of one path only.                                     *)
PatchKeepsAligned ==
    /\ \A e \in PatchExec : pe[e].end # "UnexpectedStep"
    /\ ~({"X", "N"} \subseteq Range(names))
=============================================================================
