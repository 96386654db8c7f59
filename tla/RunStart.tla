------------------------------ MODULE RunStart ------------------------------
(* Starting a workflow: top-level callers (DurableEngine::start and the    *)
(* client's enqueue), and the executions of one parent that start a child  *)
(* at one position of its program (start_workflow_impl), against rows that *)
(* end at any time and give their deduplication key back.                  *)
(*                                                                         *)
(* All keyed rows are on one queue with one key; a run without the key is  *)
(* a direct one.  The store is a SQL one: a transaction that holds the     *)
(* parent's row excludes the others that need it, and a statement is one   *)
(* step.                                                                   *)
(*                                                                         *)
(* Left out: refusals before anything is read (arguments, configuration,   *)
(* verification), targets of another name, deleted rows, a custom provider *)
(* without insert_child_workflow.                                          *)
EXTENDS Integers

CONSTANTS
    Caller,       \* top-level calls
    ParentExec,   \* executions of the parent
    RunIds,       \* workflow ids
    CallScenes,   \* what the calls may ask for: [Caller -> Asks]
    ChildCalls,   \* what the parent may ask for
    Seed,         \* the id of a row that holds the key at first
    MaxDedup,     \* MAX_DEDUP_ATTEMPTS, and the child loop's 8
    NoStep,       \* the parent's position is unrecorded
    NoLock        \* the parent's row is not locked

VARIABLES
    runs,         \* [id -> "none", "live" or "done"]
    keyed,        \* the ids of rows that carry the key
    asked,        \* what the top-level calls ask for
    child,        \* what the parent asks for
    step,         \* the parent's checkpoint: NoStep, or [child |-> an id or "refused"]
    plock,        \* the execution in insert_child_workflow
    pcancel,      \* the parent is CANCELLED
    call,         \* [Caller \cup ParentExec -> its call]
    begun         \* [id -> executions started by the call that created it]
runVars == <<runs, keyed, asked, child, step, plock, pcancel, call, begun>>

Asks == [id : RunIds \ {Seed}, keyed : BOOLEAN, adopt : BOOLEAN]
Refused == "QueueDeduplicated"
Stops == {"none", "ObservationFailed", "WorkflowConflict", "Cancelled", "crashed"}
Steps == [child : RunIds \cup {"refused"}]
ASSUME RunAssumption ==
    /\ CallScenes \subseteq [Caller -> Asks] /\ ChildCalls \subseteq Asks
    /\ Seed \in RunIds /\ RunIds \cap (Stops \cup {Refused, "refused"}) = {}
    /\ Caller \cap ParentExec = {}
    /\ NoStep \notin Steps /\ NoLock \notin Caller \cup ParentExec
    /\ MaxDedup \in Nat \ {0}

RunInit ==
    /\ runs = [i \in RunIds |-> IF i = Seed THEN "live" ELSE "none"]
    /\ keyed = {Seed}
    /\ asked \in CallScenes /\ child \in ChildCalls
    /\ step = NoStep /\ plock = NoLock /\ pcancel = FALSE
    /\ call = [c \in Caller \cup ParentExec |->
                 [pc |-> IF c \in Caller THEN "insert" ELSE "check",
                  tries |-> 0, found |-> Seed, got |-> "none"]]
    /\ begun = [i \in RunIds |-> 0]

Goes(c, pc) == call' = [call EXCEPT ![c].pc = pc]
Gets(c, answer) == call' = [call EXCEPT ![c].pc = "over", ![c].got = answer]
(* retry_dedup: the slot was freed between the refusal and the lookup.     *)
Again(c, pc) ==
    IF call[c].tries + 1 = MaxDedup THEN Gets(c, "ObservationFailed")
    ELSE call' = [call EXCEPT ![c].pc = pc, ![c].tries = @ + 1]
Creates(a) ==
    /\ runs' = [runs EXCEPT ![a.id] = "live"]
    /\ keyed' = IF a.keyed THEN keyed \cup {a.id} ELSE keyed
Exists(i) == runs[i] # "none"
SlotTaken(a) == a.keyed /\ keyed # {}

(* --------------------------------------------------- top-level calls *)

(* insert_workflow_status: an existing id is returned as it is; the key's  *)
(* index refuses a second row.  The call that created a direct run is the  *)
(* one that executes it.                                                   *)
InsertRun(c) ==
    LET a == asked[c]
    IN  /\ call[c].pc = "insert" /\ c \in Caller
        /\ \/ Exists(a.id) /\ Gets(c, a.id) /\ UNCHANGED <<runs, keyed, begun>>
           \/ /\ ~Exists(a.id) /\ SlotTaken(a)
              /\ IF a.adopt THEN Goes(c, "find") ELSE Gets(c, Refused)
              /\ UNCHANGED <<runs, keyed, begun>>
           \/ /\ ~Exists(a.id) /\ ~SlotTaken(a)
              /\ Creates(a) /\ Gets(c, a.id)
              /\ begun' = IF a.keyed THEN begun ELSE [begun EXCEPT ![a.id] = @ + 1]
        /\ UNCHANGED <<asked, child, step, plock, pcancel>>
(* find_dedup_target: the holder is looked up, then its row is read.       *)
FindHolder(c) ==
    /\ call[c].pc = "find"
    /\ \/ keyed = {} /\ Again(c, "insert")
       \/ \E i \in keyed : call' = [call EXCEPT ![c].pc = "read", ![c].found = i]
    /\ UNCHANGED <<runs, keyed, asked, child, step, plock, pcancel, begun>>
(* Faulty form, for the mutants: the row found is returned as it is.       *)
ReadStale(c) ==
    /\ call[c].pc = "read" /\ Gets(c, call[c].found)
    /\ UNCHANGED <<runs, keyed, asked, child, step, plock, pcancel, begun>>
ReadHolder(c) ==
    /\ call[c].pc = "read"
    /\ IF runs[call[c].found] = "done" \/ call[c].found \notin keyed
       THEN Again(c, "insert")
       ELSE Gets(c, call[c].found)
    /\ UNCHANGED <<runs, keyed, asked, child, step, plock, pcancel, begun>>

(* ---------------------------------------------- a child's start *)

(* The position is served: check_child_workflow, then get_step_result for  *)
(* a recorded refusal.  A cancelled parent starts nothing new.             *)
CheckChild(e) ==
    /\ call[e].pc = "check"
    /\ IF step # NoStep /\ step.child # "refused" THEN Gets(e, step.child)
       ELSE Goes(e, "result")
    /\ UNCHANGED <<runs, keyed, asked, child, step, plock, pcancel, begun>>
CheckRefusal(e) ==
    /\ call[e].pc = "result"
    /\ IF step # NoStep /\ step.child = "refused" THEN Gets(e, Refused)
       ELSE Goes(e, "guard")
    /\ UNCHANGED <<runs, keyed, asked, child, step, plock, pcancel, begun>>
CheckCancelled(e) ==
    /\ call[e].pc = "guard"
    /\ IF pcancel THEN Gets(e, "Cancelled") ELSE Goes(e, "lock")
    /\ UNCHANGED <<runs, keyed, asked, child, step, plock, pcancel, begun>>

(* insert_child_workflow begins: the parent's row is locked, and what a    *)
(* rival has recorded meanwhile decides.                                   *)
LockParent(e) ==
    /\ call[e].pc = "lock" /\ plock = NoLock
    /\ IF step # NoStep
       THEN /\ plock' = plock
            /\ Gets(e, IF step.child = "refused" THEN "WorkflowConflict" ELSE step.child)
       ELSE IF pcancel THEN plock' = plock /\ Gets(e, "Cancelled")
       ELSE plock' = e /\ Goes(e, "try")
    /\ UNCHANGED <<runs, keyed, asked, child, step, pcancel, begun>>
(* The checkpoint and the child's row commit together.                     *)
(* Faulty form, for the mutants: the row commits by itself.                *)
CommitsRow(e, id, created) ==
    /\ step' = step /\ plock' = NoLock
    /\ IF created /\ ~child.keyed THEN Goes(e, "spawn") ELSE Gets(e, id)
Commits(e, id, created) ==
    /\ step' = [child |-> id] /\ plock' = NoLock
    /\ IF created /\ ~child.keyed THEN Goes(e, "spawn") ELSE Gets(e, id)
TryInsert(e) ==
    /\ call[e].pc = "try"
    /\ \/ Exists(child.id) /\ Commits(e, child.id, FALSE) /\ UNCHANGED <<runs, keyed>>
       \/ /\ ~Exists(child.id) /\ SlotTaken(child)
          /\ IF child.adopt THEN Goes(e, "lookup") /\ plock' = plock
             ELSE Goes(e, "refuse") /\ plock' = NoLock
          /\ UNCHANGED <<runs, keyed, step>>
       \/ /\ ~Exists(child.id) /\ ~SlotTaken(child)
          /\ Creates(child) /\ Commits(e, child.id, TRUE)
    /\ UNCHANGED <<asked, child, pcancel, begun>>
(* The holder's row is locked, so it cannot end before the commit.         *)
Adopt(e) ==
    /\ call[e].pc = "lookup"
    /\ \/ \E i \in keyed : Commits(e, i, FALSE)
       \/ /\ keyed = {} /\ Again(e, "try") /\ step' = step
          /\ plock' = IF call[e].tries + 1 = MaxDedup THEN NoLock ELSE plock
    /\ UNCHANGED <<runs, keyed, asked, child, pcancel, begun>>
(* record_failure of a refused start, which waits for the parent's row.  A *)
(* rival's refusal is the same record, so both are answered with it.       *)
RecordRefusal(e) ==
    /\ call[e].pc = "refuse" /\ plock = NoLock
    /\ \/ step = NoStep /\ step' = [child |-> "refused"] /\ Gets(e, Refused)
       \/ step = [child |-> "refused"] /\ step' = step /\ Gets(e, Refused)
       \/ /\ step \notin {NoStep, [child |-> "refused"]}
          /\ step' = step /\ Gets(e, "WorkflowConflict")
    /\ UNCHANGED <<runs, keyed, asked, child, plock, pcancel, begun>>
(* Only the call that created a direct child executes it.                  *)
SpawnChild(e) ==
    /\ call[e].pc = "spawn"
    /\ begun' = [begun EXCEPT ![child.id] = @ + 1] /\ Gets(e, child.id)
    /\ UNCHANGED <<runs, keyed, asked, child, step, plock, pcancel>>

(* ------------------------------------------------- the surroundings *)

(* A row ends (finishes, is cancelled or parked), which frees its key.     *)
RowEnds(i) ==
    /\ runs[i] = "live"
    /\ runs' = [runs EXCEPT ![i] = "done"] /\ keyed' = keyed \ {i}
    /\ UNCHANGED <<asked, child, step, plock, pcancel, call, begun>>
ParentCancelled ==
    /\ ~pcancel /\ plock = NoLock /\ pcancel' = TRUE
    /\ UNCHANGED <<runs, keyed, asked, child, step, plock, call, begun>>
(* The process dies, or the answer to a commit is lost: an open            *)
(* transaction is rolled back, a committed one stays.                      *)
ExecutionDies(e) ==
    /\ call[e].pc # "over" /\ Gets(e, "crashed")
    /\ plock' = IF plock = e THEN NoLock ELSE plock
    /\ UNCHANGED <<runs, keyed, asked, child, step, pcancel, begun>>

RunNext ==
    \/ \E c \in Caller : InsertRun(c) \/ FindHolder(c) \/ ReadHolder(c)
    \/ \E e \in ParentExec :
         CheckChild(e) \/ CheckRefusal(e) \/ CheckCancelled(e) \/ LockParent(e)
         \/ TryInsert(e) \/ Adopt(e) \/ RecordRefusal(e) \/ SpawnChild(e)
         \/ ExecutionDies(e)
    \/ \E i \in RunIds : RowEnds(i)
    \/ ParentCancelled
RunSpec == RunInit /\ [][RunNext]_runVars

(* --------------------------------------------------------- properties *)

RunPcs == {"insert", "find", "read", "check", "result", "guard", "lock", "try", "lookup",
           "refuse", "spawn", "over"}
RunCalls == [pc : RunPcs, tries : Nat, found : RunIds,
             got : RunIds \cup Stops \cup {Refused}]

(* The state keeps its form.                                               *)
RunTypeOK ==
    /\ runs \in [RunIds -> {"none", "live", "done"}] /\ keyed \subseteq RunIds
    /\ asked \in CallScenes /\ child \in ChildCalls
    /\ step \in Steps \cup {NoStep} /\ plock \in ParentExec \cup {NoLock}
    /\ pcancel \in BOOLEAN /\ begun \in [RunIds -> Nat]
    /\ call \in [Caller \cup ParentExec -> RunCalls]

(* Every execution of the parent that learns what its start came to learns *)
(* the same, and it is what the position records; no child row exists      *)
(* without that record; and no run is executed by two calls.               *)
ChildrenAgree ==
    /\ \A e \in ParentExec :
         call[e].got \notin Stops =>
           /\ step # NoStep
           /\ step.child = IF call[e].got = Refused THEN "refused" ELSE call[e].got
    /\ Exists(child.id) /\ child.id \notin {asked[c].id : c \in Caller} =>
         step = [child |-> child.id]
    /\ \A i \in RunIds : begun[i] <= 1

(* The key has one holder; and a call that is handed another run than the  *)
(* one it named is handed one that was still to end, holding the key, when *)
(* the call decided.                                                       *)
AdoptsLiveRun ==
    [][/\ \A i, j \in keyed' : i = j
       /\ \A c \in Caller :
            LET id == call'[c].got
            IN  call[c].got = "none" /\ id \in RunIds \ {asked[c].id} =>
                  runs[id] = "live" /\ id \in keyed
       /\ step = NoStep /\ step' # NoStep =>
            step'.child \in {"refused", child.id} \cup keyed]_runVars
=============================================================================
