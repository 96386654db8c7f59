-------------------------- MODULE WorkflowLifecycle --------------------------
(***************************************************************************)
(* Who runs a workflow, and how its outcome is recorded.                   *)
(*                                                                         *)
(* The state backend holds one status row per workflow id.  Executors      *)
(* (processes with distinct executor ids) create rows, claim queued rows,  *)
(* run bodies, write terminal statuses, settle interrupted executions and  *)
(* sweep for rows that a stopped executor left PENDING.  Operators cancel, *)
(* resume, delete and recover.  Every provider call is one atomic statement*)
(* of the backend; the caller may lose the reply, the call may never reach *)
(* the backend, and a terminal write, recovery claim or checkpoint may even*)
(* commit after its caller gave up on it (the "late" sets).                *)
(*                                                                         *)
(* Data left out: inputs, timestamps, versions, priorities, deduplication  *)
(* slots.  A row keeps what ownership and the outcome depend on.           *)
(***************************************************************************)
EXTENDS Integers, FiniteSets

CONSTANTS
    Workflow,            \* workflow ids
    Executor,            \* executor ids, one live process each
    Slot,                \* names for spawned tasks
    Operator,            \* callers of resume_workflow
    Value,               \* recorded outputs and errors
    Registered,          \* Registered[e]: the workflows e has a handler for
    MaxRecoveryAttempts, \* EngineConfig.max_recovery_attempts
    MaxClaimFailures,    \* MAX_CLAIM_FAILURES of recover_interrupted_run
    MaxLate,             \* bound: calls in flight after their caller gave up
    Discipline,          \* the operating rules that callers keep
    Moves                \* the environment moves that a model allows

(* Rules for callers.  "recover" and "resume" are the durability guide's:  *)
(* the previous execution has stopped (and, for a resume, so have recovery *)
(* claims); launch asks the same of recover_on_launch, and nothing of a    *)
(* launch without it.  "delete" is this rule for deletion.  "serial" is not*)
(* in the guide: no other resume, no listing of the row and no terminal    *)
(* write still in flight between the two statements of a resume.           *)
Rules == {"recover", "resume", "delete", "serial"}

AllMoves == {"crash", "stop", "cancel", "delete", "recover", "fault", "late",
             "lateCheckpoint", "panic", "deadline", "direct", "queued"}

ASSUME ExecutorAssumption == Registered \in [Executor -> SUBSET Workflow]
ASSUME AttemptsAssumption == MaxRecoveryAttempts \in Nat
ASSUME FailuresAssumption == MaxClaimFailures \in Nat \ {0}
ASSUME LateAssumption == MaxLate \in Nat
ASSUME RulesAssumption == Discipline \subseteq Rules /\ Moves \subseteq AllMoves

NoRow == [status |-> "NONE"]
Idle == [pc |-> "idle"]
Unowned == ""            \* executor_id of a row that no dispatcher claimed
NoValue == "NULL"
NoWorkflow == "none"

ASSUME NameAssumption == /\ Unowned \notin Executor
                         /\ NoValue \notin Value
                         /\ NoWorkflow \notin Workflow

Completed == {"SUCCESS", "ERROR"}
Terminal == Completed \cup {"CANCELLED", "MAX_RECOVERY_ATTEMPTS_EXCEEDED"}
Status == Terminal \cup {"PENDING", "ENQUEUED"}

VARIABLES
    row,        \* workflow_status: row[w] is NoRow or a Row
    task,       \* task[s]: Idle, or one execution and where it stands
    sweep,      \* sweep[e]: listed rows that e's recovery sweep has yet to claim
    resuming,   \* resuming[o]: the workflow whose second resume statement is due
    flags,      \* flags[e]: alive, deactivated, shutdown
    lateWrite,  \* terminal writes that may still commit
    lateClaim,  \* recovery claims that may still commit
    lateCheckpoint, \* checkpoints of stopped executions that may still commit
    reported,   \* reported[w]: completed outcomes that callers have been given
    excused     \* workflows left PENDING for a reason the guide names

vars == <<row, task, sweep, resuming, flags, lateWrite, lateClaim,
          lateCheckpoint, reported, excused>>

Row == [status: Status, exec: Executor \cup {Unowned}, attempts: Nat,
        queued: BOOLEAN, value: Value \cup {NoValue}]

(* The generation an execution was dispatched with, or a sweep listed.     *)
Generation == [w: Workflow, exec: Executor \cup {Unowned}, attempts: Nat,
               queued: BOOLEAN]

(* An old task outlived a shutdown and a new launch of its engine: the     *)
(* token it holds stays cancelled.                                         *)
Task == [pc: {"body", "write", "readback", "adopt", "settle", "release"},
         w: Workflow, e: Executor, attempts: Nat, queued: BOOLEAN,
         target: Terminal, value: Value \cup {NoValue},
         cap: Nat, fails: Nat, old: BOOLEAN]

LateWrite == [w: Workflow, target: Terminal, value: Value \cup {NoValue}]
LateClaim == [g: Generation, cap: Nat, new: Executor]
LateCheckpoint == [w: Workflow, e: Executor]

TypeOK ==
    /\ row \in [Workflow -> Row \cup {NoRow}]
    /\ task \in [Slot -> Task \cup {Idle}]
    /\ sweep \in [Executor -> SUBSET Generation]
    /\ resuming \in [Operator -> Workflow \cup {NoWorkflow}]
    /\ flags \in [Executor -> SUBSET {"alive", "deactivated", "shutdown"}]
    /\ lateWrite \subseteq LateWrite
    /\ lateClaim \subseteq LateClaim
    /\ lateCheckpoint \subseteq LateCheckpoint
    /\ reported \in [Workflow -> SUBSET (Completed \X (Value \cup {NoValue}))]
    /\ excused \subseteq Workflow

Init ==
    /\ row = [w \in Workflow |-> NoRow]
    /\ task = [s \in Slot |-> Idle]
    /\ sweep = [e \in Executor |-> {}]
    /\ resuming = [o \in Operator |-> NoWorkflow]
    /\ flags = [e \in Executor |-> {"alive"}]
    /\ lateWrite = {}
    /\ lateClaim = {}
    /\ lateCheckpoint = {}
    /\ reported = [w \in Workflow |-> {}]
    /\ excused = {}

-----------------------------------------------------------------------------
(* Provider statements, as functions of the row they address.              *)

(* Mutants of the statements below, one slip of the SQL each.              *)
CanSetStatusUnguarded(r, target) == r # NoRow
ClaimIgnoresAttempts(g, r) == r.status = "PENDING" /\ r.exec = g.exec
ClaimCapOffByOne(g, cap) ==
    IF g.attempts > cap THEN "parked"
    ELSE IF g.queued THEN "requeued" ELSE "claimed"
ClaimIgnoresStatus(g, r) == r # NoRow /\ r.exec = g.exec /\ r.attempts = g.attempts

ClaimForgetsIncrement(g, cap, new, r) ==
    IF g.queued THEN [r EXCEPT !.status = "ENQUEUED"] ELSE [r EXCEPT !.exec = new]

(* The rows that set_workflow_status may move to a terminal target.        *)
CanSetStatus(r, target) ==
    /\ r # NoRow
    /\ target \in Completed \cup {"MAX_RECOVERY_ATTEMPTS_EXCEEDED"}
           => r.status = "PENDING"
    /\ target = "CANCELLED" => r.status \notin Completed \cup {"CANCELLED"}

SetStatus(r, target, v) ==
    [r EXCEPT !.status = target, !.value = IF v = NoValue THEN @ ELSE v]

(* What the CAS of claim_for_recovery compares.                            *)
ClaimMatches(g, r) ==
    /\ r.status = "PENDING"
    /\ r.exec = g.exec
    /\ r.attempts = g.attempts

ClaimOutcome(g, cap) ==
    IF g.attempts + 1 > cap THEN "parked"
    ELSE IF g.queued THEN "requeued" ELSE "claimed"

ClaimForRecovery(g, cap, new, r) ==
    IF ClaimOutcome(g, cap) = "parked"
    THEN [r EXCEPT !.status = "MAX_RECOVERY_ATTEMPTS_EXCEEDED",
                   !.attempts = @ + 1]
    ELSE IF ClaimOutcome(g, cap) = "requeued"
    THEN [r EXCEPT !.status = "ENQUEUED", !.attempts = @ + 1]
    ELSE [r EXCEPT !.exec = new, !.attempts = @ + 1]

CancelRow(r) == [r EXCEPT !.status = "CANCELLED", !.queued = FALSE]

ResumeRow(r) == [r EXCEPT !.status = "PENDING", !.attempts = 0]

EnqueueExisting(r) ==
    [r EXCEPT !.status = "ENQUEUED", !.queued = TRUE, !.exec = Unowned]

DequeueRow(r, e) == [r EXCEPT !.status = "PENDING", !.exec = e]

-----------------------------------------------------------------------------
(* Tasks.                                                                  *)

NewBody(w, e, attempts, queued) ==
    [pc |-> "body", w |-> w, e |-> e, attempts |-> attempts,
     queued |-> queued, target |-> "SUCCESS", value |-> NoValue,
     cap |-> MaxRecoveryAttempts, fails |-> 0, old |-> FALSE]

(* Tasks that run a body or act on having run one for workflow w.          *)
Active(s) == task[s].pc \in {"body", "write", "readback", "release"}

ActiveOn(w) == \E s \in Slot : Active(s) /\ task[s].w = w

SettlingOn(w) == \E s \in Slot : task[s].pc = "settle" /\ task[s].w = w

(* Mutant: settlement claims with the generation after the one that ran.   *)
NextGenerationOf(t) ==
    [w |-> t.w, exec |-> t.e, attempts |-> t.attempts + 1, queued |-> t.queued]

GenerationOf(t) ==
    [w |-> t.w, exec |-> t.e, attempts |-> t.attempts, queued |-> t.queued]

(* Recovery claims for w that were decided on and may still be made.       *)
ClaimDue(w) ==
    \/ SettlingOn(w)
    \/ \E e \in Executor : \E g \in sweep[e] : g.w = w
    \/ \E c \in lateClaim : c.g.w = w

Resuming(w) == \E o \in Operator : resuming[o] = w

(* The row is in nobody's hands: what "its previous execution has stopped" *)
(* asks of an operator, and the stricter rule of a serial resume.          *)
Stopped(w) == ~ActiveOn(w)

MayResume(w) ==
    /\ "resume" \in Discipline => Stopped(w) /\ ~ClaimDue(w)
    /\ "serial" \in Discipline =>
           ~Resuming(w) /\ \A l \in lateWrite : l.w # w

MayList(w) ==
    /\ "recover" \in Discipline => Stopped(w)
    /\ "serial" \in Discipline => ~Resuming(w)

MayDelete(w) ==
    "delete" \in Discipline =>
        /\ Stopped(w) /\ ~ClaimDue(w) /\ ~Resuming(w)
        /\ \A l \in lateWrite : l.w # w

Alive(e) == "alive" \in flags[e]
Dispatching(e) == flags[e] = {"alive"}

(* A call's fate: answered, applied with the reply lost, never applied, or *)
(* applied only after the caller stopped waiting.                          *)
Fates == {"ok"} \cup (IF "fault" \in Moves THEN {"lost", "never"} ELSE {})
                \cup (IF /\ "late" \in Moves
                         /\ Cardinality(lateWrite) + Cardinality(lateClaim)
                                < MaxLate
                      THEN {"late"} ELSE {})

-----------------------------------------------------------------------------
(* Creation and dispatch.                                                  *)

(* DurableEngine::start without a queue, on a fresh id: the insert's       *)
(* created flag lets exactly this caller spawn the body.  A lost reply is  *)
(* an ObservationFailed: the row exists and no task runs it.               *)
Start(e, w, s, fate) ==
    /\ "direct" \in Moves
    /\ Alive(e)
    /\ w \in Registered[e]
    /\ row[w] = NoRow
    /\ fate \in Fates \ {"never", "late"}
    /\ row' = [row EXCEPT ![w] = [status |-> "PENDING", exec |-> e,
                                  attempts |-> 0, queued |-> FALSE,
                                  value |-> NoValue]]
    /\ IF fate = "ok"
       THEN /\ task[s] = Idle
            /\ task' = [task EXCEPT ![s] = NewBody(w, e, 0, FALSE)]
            /\ UNCHANGED excused
       ELSE /\ excused' = excused \cup {w}
            /\ UNCHANGED task
    /\ UNCHANGED <<sweep, resuming, flags, lateWrite, lateClaim, reported,
                   lateCheckpoint>>

(* start with a queue: an unowned ENQUEUED row for some dispatcher.        *)
Enqueue(w) ==
    /\ "queued" \in Moves
    /\ row[w] = NoRow
    /\ row' = [row EXCEPT ![w] = [status |-> "ENQUEUED", exec |-> Unowned,
                                  attempts |-> 0, queued |-> TRUE,
                                  value |-> NoValue]]
    /\ UNCHANGED <<task, sweep, resuming, flags, lateWrite, lateClaim,
                   reported, excused, lateCheckpoint>>

(* One claim of queue_dispatch_loop: dequeue_workflows moves the row to    *)
(* PENDING under this executor, then the body is spawned or, when no       *)
(* handler is registered, the claim is to be released.  On a lost reply or *)
(* an aborted dispatcher the row stays claimed and nothing runs it.        *)
Dequeue(e, w, s, fate) ==
    /\ Dispatching(e)
    /\ row[w].status = "ENQUEUED"
    /\ row[w].queued
    /\ fate \in Fates \ {"never", "late"}
    /\ row' = [row EXCEPT ![w] = DequeueRow(@, e)]
    /\ IF fate = "ok"
       THEN /\ task[s] = Idle
            /\ task' = [task EXCEPT ![s] =
                   [NewBody(w, e, row[w].attempts, TRUE) EXCEPT
                       !.pc = IF w \in Registered[e] THEN "body"
                                                     ELSE "release"]]
            /\ excused' = excused \ {w}
       ELSE /\ excused' = excused \cup {w}
            /\ UNCHANGED task
    /\ UNCHANGED <<sweep, resuming, flags, lateWrite, lateClaim, reported,
                   lateCheckpoint>>

(* Mutant: the claim is not given back.                                    *)
ReleaseKeepsClaim(s, fate) ==
    /\ task[s].pc = "release"
    /\ task' = [task EXCEPT ![s] = Idle]
    /\ UNCHANGED <<row, sweep, resuming, flags, lateWrite, lateClaim, reported,
                   excused, lateCheckpoint>>

(* The release: an unguarded status write whose error is ignored, or never *)
(* made because the dispatcher was aborted first.                          *)
Release(s, fate) ==
    LET w == task[s].w IN
    /\ task[s].pc = "release"
    /\ fate = "never" => "fault" \in Moves \/ ~Dispatching(task[s].e) \/ task[s].old
    /\ row' = IF fate = "never" \/ row[w] = NoRow THEN row
              ELSE [row EXCEPT ![w] = [@ EXCEPT !.status = "ENQUEUED"]]
    /\ excused' = IF fate = "never" THEN excused \cup {w} ELSE excused
    /\ task' = [task EXCEPT ![s] = Idle]
    /\ UNCHANGED <<sweep, resuming, flags, lateWrite, lateClaim, reported,
                   lateCheckpoint>>

-----------------------------------------------------------------------------
(* The body of an execution, up to what run_to_completion sees of it.      *)

To(s, pc) == task' = [task EXCEPT ![s] = [@ EXCEPT !.pc = pc]]

ToWrite(s, target, v) ==
    task' = [task EXCEPT ![s] = [@ EXCEPT !.pc = "write", !.target = target,
                                          !.value = v]]

Rest == <<row, sweep, resuming, flags, lateWrite, lateClaim, lateCheckpoint,
          reported, excused>>

(* A won checkpoint refreshes the row's executor_id, whatever its status.  *)
Checkpoint(s) ==
    LET w == task[s].w IN
    /\ task[s].pc = "body"
    /\ row[w] # NoRow
    /\ row' = [row EXCEPT ![w] = [@ EXCEPT !.exec = task[s].e]]
    /\ UNCHANGED <<task, sweep, resuming, flags, lateWrite, lateClaim,
                   reported, excused, lateCheckpoint>>

BodyReturns(s, target, v) ==
    /\ task[s].pc = "body"
    /\ target \in Completed
    /\ v \in Value
    /\ ToWrite(s, target, v)
    /\ UNCHANGED Rest

(* The body saw its own row CANCELLED at a durable call.                   *)
BodyCancelled(s) ==
    /\ task[s].pc = "body"
    /\ row[task[s].w].status = "CANCELLED"
    /\ ToWrite(s, "CANCELLED", NoValue)
    /\ UNCHANGED Rest

(* The deadline elapsed: the body's future is dropped.                     *)
BodyTimedOut(s) ==
    /\ "deadline" \in Moves
    /\ task[s].pc = "body"
    /\ ToWrite(s, "CANCELLED", NoValue)
    /\ UNCHANGED Rest

(* A checkpoint was lost to a rival execution of the same workflow.        *)
BodyConflict(s) ==
    /\ task[s].pc = "body"
    /\ \E t \in Slot \ {s} : Active(t) /\ task[t].w = task[s].w
    /\ To(s, "adopt")
    /\ UNCHANGED Rest

(* A storage failure latched the execution, or the body returned another   *)
(* execution's interruption or a failed observation.                       *)
BodyInterrupted(s) ==
    /\ "fault" \in Moves
    /\ task[s].pc = "body"
    /\ To(s, "settle")
    /\ UNCHANGED Rest

(* A panic is settled too, with the cap lowered so that the claim parks.   *)
BodyPanics(s) ==
    /\ "panic" \in Moves
    /\ task[s].pc = "body"
    /\ task' = [task EXCEPT ![s] = [@ EXCEPT !.pc = "settle",
                                             !.cap = task[s].attempts]]
    /\ UNCHANGED Rest

(* The reply to a checkpoint was lost and the insert may commit later, when*)
(* its execution has stopped (and been settled, or crashed).               *)
CheckpointDelayed(s) ==
    /\ task[s].pc = "body"
    /\ Cardinality(lateCheckpoint) < MaxLate
    /\ lateCheckpoint' = lateCheckpoint \cup {[w |-> task[s].w, e |-> task[s].e]}
    /\ To(s, "settle")
    /\ UNCHANGED <<row, sweep, resuming, flags, lateWrite, lateClaim, reported,
                   excused>>

(* It commits, and refreshes executor_id like any checkpoint.  A body that *)
(* has yet to reach the position replays it; one that has passed it loses  *)
(* its own insert there, as to a rival.                                    *)
LateCheckpointCommits(c) ==
    /\ c \in lateCheckpoint
    /\ lateCheckpoint' = lateCheckpoint \ {c}
    /\ row' = IF row[c.w] = NoRow THEN row
              ELSE [row EXCEPT ![c.w] = [@ EXCEPT !.exec = c.e]]
    /\ \/ UNCHANGED task
       \/ \E s \in Slot : /\ task[s].pc = "body" /\ task[s].w = c.w
                          /\ row[c.w] # NoRow
                          /\ To(s, "adopt")
    /\ UNCHANGED <<sweep, resuming, flags, lateWrite, lateClaim, reported,
                   excused>>

LateCheckpointDropped(c) ==
    /\ c \in lateCheckpoint
    /\ lateCheckpoint' = lateCheckpoint \ {c}
    /\ UNCHANGED <<row, task, sweep, resuming, flags, lateWrite, lateClaim,
                   reported, excused>>

-----------------------------------------------------------------------------
(* The terminal write.                                                     *)

(* What a caller learns of a completed outcome.                            *)
Report(w, target, v) ==
    IF target \in Completed
    THEN [reported EXCEPT ![w] = @ \cup {<<target, v>>}]
    ELSE reported

(* Mutant: a refused write is reported as if it had landed.                *)
WriteReportsOwn(s) ==
    LET t == task[s] IN
    /\ t.pc = "write"
    /\ row' = IF CanSetStatus(row[t.w], t.target)
              THEN [row EXCEPT ![t.w] = SetStatus(@, t.target, t.value)] ELSE row
    /\ task' = [task EXCEPT ![s] = Idle]
    /\ reported' = Report(t.w, t.target, t.value)
    /\ UNCHANGED <<sweep, resuming, flags, lateWrite, lateClaim, excused,
                   lateCheckpoint>>

(* write_terminal_status, answered: it landed, or the guard refused it and *)
(* the recorded outcome is to be adopted.                                  *)
WriteAnswered(s) ==
    LET t == task[s] IN
    /\ t.pc = "write"
    /\ IF CanSetStatus(row[t.w], t.target)
       THEN /\ row' = [row EXCEPT ![t.w] = SetStatus(@, t.target, t.value)]
            /\ task' = [task EXCEPT ![s] = Idle]
            /\ reported' = Report(t.w, t.target, t.value)
       ELSE /\ To(s, "adopt")
            /\ UNCHANGED <<row, reported>>
    /\ UNCHANGED <<sweep, resuming, flags, lateWrite, lateClaim, excused,
                   lateCheckpoint>>

(* The write failed: it may have been applied, may never be, or may be     *)
(* applied later.                                                          *)
WriteFails(s, fate) ==
    LET t == task[s] IN
    /\ t.pc = "write"
    /\ fate \in Fates \ {"ok"}
    /\ To(s, "readback")
    /\ row' = IF fate = "lost" /\ CanSetStatus(row[t.w], t.target)
              THEN [row EXCEPT ![t.w] = SetStatus(@, t.target, t.value)]
              ELSE row
    /\ lateWrite' =
           IF fate = "late"
           THEN lateWrite \cup {[w |-> t.w, target |-> t.target,
                                 value |-> t.value]}
           ELSE lateWrite
    /\ UNCHANGED <<sweep, resuming, flags, lateClaim, reported, excused,
                   lateCheckpoint>>

(* The readback: a terminal row is evidence, anything else is not.         *)
Readback(s, fate) ==
    LET t == task[s] IN
    /\ t.pc = "readback"
    /\ fate \in Fates \ {"lost", "late"}
    /\ IF fate = "ok" /\ row[t.w].status \in Terminal
       THEN To(s, "adopt")
       ELSE To(s, "settle")
    /\ UNCHANGED Rest

(* adopt_recorded_outcome: poll until the row is terminal, or is gone.     *)
Adopt(s) ==
    LET t == task[s] IN
    /\ t.pc = "adopt"
    /\ row[t.w] = NoRow \/ row[t.w].status \in Terminal
    /\ task' = [task EXCEPT ![s] = Idle]
    /\ reported' = IF row[t.w] = NoRow THEN reported
                   ELSE Report(t.w, row[t.w].status, row[t.w].value)
    /\ UNCHANGED <<row, sweep, resuming, flags, lateWrite, lateClaim, excused,
                   lateCheckpoint>>

AdoptFails(s) ==
    /\ "fault" \in Moves
    /\ task[s].pc = "adopt"
    /\ task' = [task EXCEPT ![s] = Idle]
    /\ UNCHANGED Rest

(* A polling WorkflowHandle reads a terminal row.                          *)
HandleResult(w) ==
    /\ row[w].status \in Terminal
    /\ reported' = Report(w, row[w].status, row[w].value)
    /\ UNCHANGED <<row, task, sweep, resuming, flags, lateWrite, lateClaim,
                   excused, lateCheckpoint>>

LateWriteCommits(l) ==
    /\ l \in lateWrite
    /\ lateWrite' = lateWrite \ {l}
    /\ row' = IF CanSetStatus(row[l.w], l.target)
              THEN [row EXCEPT ![l.w] = SetStatus(@, l.target, l.value)]
              ELSE row
    /\ UNCHANGED <<task, sweep, resuming, flags, lateClaim, reported, excused,
                   lateCheckpoint>>

LateWriteDropped(l) ==
    /\ l \in lateWrite
    /\ lateWrite' = lateWrite \ {l}
    /\ UNCHANGED <<row, task, sweep, resuming, flags, lateClaim, reported,
                   excused, lateCheckpoint>>

-----------------------------------------------------------------------------
(* Settlement of an interrupted execution: recover_interrupted_run.        *)

Cap(s) == task[s].cap

(* A direct claim below its cap would have to dispatch a body.             *)
RequiresDispatch(s) == ~task[s].queued /\ task[s].attempts < Cap(s)

SettleStopped(s) ==
    \/ task[s].old \/ "shutdown" \in flags[task[s].e]
    \/ "deactivated" \in flags[task[s].e] /\ RequiresDispatch(s)

(* Settlement gives up before or while claiming.                           *)
SettleStops(s) ==
    /\ task[s].pc = "settle"
    /\ SettleStopped(s)
    /\ task' = [task EXCEPT ![s] = Idle]
    /\ excused' = excused \cup {task[s].w}
    /\ UNCHANGED <<row, sweep, resuming, flags, lateWrite, lateClaim, reported,
                   lateCheckpoint>>

(* The claim is answered.  A won direct claim dispatches the body again    *)
(* under the new generation, unless the executor has been stopped since.   *)
SettleAnswered(s) ==
    LET t == task[s]
        g == GenerationOf(t)
        won == ClaimMatches(g, row[t.w])
        outcome == ClaimOutcome(g, Cap(s))
        stopped == t.old \/ flags[t.e] # {"alive"}
    IN
    /\ t.pc = "settle"
    /\ row' = IF won
              THEN [row EXCEPT ![t.w] = ClaimForRecovery(g, Cap(s), t.e, @)]
              ELSE row
    /\ IF won /\ outcome = "claimed" /\ ~stopped
       THEN task' = [task EXCEPT ![s] = NewBody(t.w, t.e, t.attempts + 1, FALSE)]
       ELSE task' = [task EXCEPT ![s] = Idle]
    /\ excused' = IF won /\ outcome = "claimed"
                  THEN IF stopped THEN excused \cup {t.w} ELSE excused \ {t.w}
                  ELSE excused
    /\ UNCHANGED <<sweep, resuming, flags, lateWrite, lateClaim, reported,
                   lateCheckpoint>>

(* The claim fails: retried with the same generation, a bounded number of  *)
(* times, never running a body.                                            *)
SettleFails(s, fate) ==
    LET t == task[s]
        g == GenerationOf(t)
        claim == [g |-> g, cap |-> Cap(s), new |-> t.e]
    IN
    /\ t.pc = "settle"
    /\ fate \in Fates \ {"ok"}
    /\ row' = IF fate = "lost" /\ ClaimMatches(g, row[t.w])
              THEN [row EXCEPT ![t.w] = ClaimForRecovery(g, Cap(s), t.e, @)]
              ELSE row
    /\ lateClaim' = IF fate = "late" THEN lateClaim \cup {claim} ELSE lateClaim
    /\ task' = [task EXCEPT ![s] = IF t.fails + 1 = MaxClaimFailures THEN Idle
                                   ELSE [t EXCEPT !.fails = @ + 1]]
    /\ excused' = excused \cup {t.w}
    /\ UNCHANGED <<sweep, resuming, flags, lateWrite, reported,
                   lateCheckpoint>>

LateClaimCommits(c) ==
    /\ c \in lateClaim
    /\ lateClaim' = lateClaim \ {c}
    /\ row' = IF ClaimMatches(c.g, row[c.g.w])
              THEN [row EXCEPT ![c.g.w] = ClaimForRecovery(c.g, c.cap, c.new, @)]
              ELSE row
    /\ excused' = IF ClaimMatches(c.g, row[c.g.w])
                  THEN excused \cup {c.g.w} ELSE excused
    /\ UNCHANGED <<task, sweep, resuming, flags, lateWrite, reported,
                   lateCheckpoint>>

LateClaimDropped(c) ==
    /\ c \in lateClaim
    /\ lateClaim' = lateClaim \ {c}
    /\ UNCHANGED <<row, task, sweep, resuming, flags, lateWrite, reported,
                   excused, lateCheckpoint>>

-----------------------------------------------------------------------------
(* Recovery sweeps: list_pending_workflows, then dispatch_pending_workflows*)
(* with one CAS per listed row.  Listing order (by creation) is abstracted.*)

Listed(execs) ==
    {[w |-> w, exec |-> row[w].exec, attempts |-> row[w].attempts,
      queued |-> row[w].queued] :
        w \in {v \in Workflow : /\ row[v].status = "PENDING"
                                /\ row[v].exec \in execs}}

(* recover_pending_for on a set of executor ids that have stopped.         *)
RecoverPendingFor(e, execs) ==
    /\ "recover" \in Moves
    /\ Alive(e)
    /\ "shutdown" \notin flags[e]
    /\ sweep[e] = {}
    /\ Listed(execs) # {}
    /\ \A g \in Listed(execs) : MayList(g.w)
    /\ sweep' = [sweep EXCEPT ![e] = Listed(execs)]
    /\ UNCHANGED <<row, task, resuming, flags, lateWrite, lateClaim, reported,
                   excused, lateCheckpoint>>

(* One listed row.  A direct row without a handler is skipped unclaimed.   *)
SweepAnswered(e, g, s) ==
    LET won == ClaimMatches(g, row[g.w])
        outcome == ClaimOutcome(g, MaxRecoveryAttempts)
        claims == g.queued \/ g.w \in Registered[e]
    IN
    /\ g \in sweep[e]
    /\ "shutdown" \notin flags[e]
    /\ sweep' = [sweep EXCEPT ![e] = @ \ {g}]
    /\ row' = IF claims /\ won
              THEN [row EXCEPT ![g.w] =
                       ClaimForRecovery(g, MaxRecoveryAttempts, e, @)]
              ELSE row
    /\ IF claims /\ won /\ outcome = "claimed"
       THEN /\ task[s] = Idle
            /\ task' = [task EXCEPT ![s] = NewBody(g.w, e, g.attempts + 1, FALSE)]
            /\ excused' = excused \ {g.w}
       ELSE /\ excused' = IF claims THEN excused ELSE excused \cup {g.w}
            /\ UNCHANGED task
    /\ UNCHANGED <<resuming, flags, lateWrite, lateClaim, reported,
                   lateCheckpoint>>

(* A failed claim ends the sweep; what it had not reached stays PENDING.   *)
SweepFails(e, g, fate) ==
    LET claim == [g |-> g, cap |-> MaxRecoveryAttempts, new |-> e] IN
    /\ g \in sweep[e]
    /\ "shutdown" \notin flags[e]
    /\ g.queued \/ g.w \in Registered[e]
    /\ fate \in Fates \ {"ok"}
    /\ row' = IF fate = "lost" /\ ClaimMatches(g, row[g.w])
              THEN [row EXCEPT ![g.w] =
                       ClaimForRecovery(g, MaxRecoveryAttempts, e, @)]
              ELSE row
    /\ lateClaim' = IF fate = "late" THEN lateClaim \cup {claim} ELSE lateClaim
    /\ sweep' = [sweep EXCEPT ![e] = {}]
    /\ excused' = excused \cup {h.w : h \in sweep[e]}
    /\ UNCHANGED <<task, resuming, flags, lateWrite, reported, lateCheckpoint>>

(* Shutdown leaves the rest of the listing for a later recovery.           *)
SweepStops(e) ==
    /\ sweep[e] # {}
    /\ "shutdown" \in flags[e]
    /\ sweep' = [sweep EXCEPT ![e] = {}]
    /\ excused' = excused \cup {h.w : h \in sweep[e]}
    /\ UNCHANGED <<row, task, resuming, flags, lateWrite, lateClaim, reported,
                   lateCheckpoint>>

-----------------------------------------------------------------------------
(* Operators.                                                              *)

(* Mutant: cancellation without its status condition.                      *)
CancelUnguarded(w) ==
    /\ "cancel" \in Moves
    /\ row[w] # NoRow
    /\ row' = [row EXCEPT ![w] = CancelRow(@)]
    /\ UNCHANGED <<task, sweep, resuming, flags, lateWrite, lateClaim,
                   reported, excused, lateCheckpoint>>

Cancel(w) ==
    /\ "cancel" \in Moves
    /\ row[w] # NoRow
    /\ row[w].status \notin Completed \cup {"CANCELLED"}
    /\ row' = [row EXCEPT ![w] = CancelRow(@)]
    /\ UNCHANGED <<task, sweep, resuming, flags, lateWrite, lateClaim,
                   reported, excused, lateCheckpoint>>

(* resume_workflow_on is two statements.  The first reopens the row as     *)
(* PENDING with its old executor and a reset recovery counter ...          *)
ResumeReopens(o, w) ==
    /\ resuming[o] = NoWorkflow
    /\ row[w] # NoRow
    /\ row[w].status \notin Completed
    /\ MayResume(w)
    /\ row' = [row EXCEPT ![w] = ResumeRow(@)]
    /\ resuming' = [resuming EXCEPT ![o] = w]
    /\ UNCHANGED <<task, sweep, flags, lateWrite, lateClaim, reported, excused,
                   lateCheckpoint>>

(* ... and the second puts it on a queue, with no condition on its status. *)
ResumeEnqueues(o) ==
    LET w == resuming[o] IN
    /\ w # NoWorkflow
    /\ row' = IF row[w] = NoRow THEN row
              ELSE [row EXCEPT ![w] = EnqueueExisting(@)]
    /\ resuming' = [resuming EXCEPT ![o] = NoWorkflow]
    /\ UNCHANGED <<task, sweep, flags, lateWrite, lateClaim, reported, excused,
                   lateCheckpoint>>

(* The caller dies, or the second statement fails.                         *)
ResumeBreaksOff(o) ==
    /\ "fault" \in Moves
    /\ resuming[o] # NoWorkflow
    /\ resuming' = [resuming EXCEPT ![o] = NoWorkflow]
    /\ excused' = excused \cup {resuming[o]}
    /\ UNCHANGED <<row, task, sweep, flags, lateWrite, lateClaim, reported,
                   lateCheckpoint>>

(* delete_workflows, regardless of state.                                  *)
Delete(w) ==
    /\ "delete" \in Moves
    /\ row[w] # NoRow
    /\ MayDelete(w)
    /\ row' = [row EXCEPT ![w] = NoRow]
    /\ reported' = [reported EXCEPT ![w] = {}]
    /\ excused' = excused \ {w}
    /\ UNCHANGED <<task, sweep, resuming, flags, lateWrite, lateClaim,
                   lateCheckpoint>>

-----------------------------------------------------------------------------
(* Processes.                                                              *)

TasksOf(e) == {s \in Slot : task[s] # Idle /\ task[s].e = e}

(* The process dies: its tasks, its sweep and its settlements die with it. *)
Crash(e) ==
    /\ "crash" \in Moves
    /\ Alive(e)
    /\ flags' = [flags EXCEPT ![e] = {}]
    /\ task' = [s \in Slot |-> IF s \in TasksOf(e) THEN Idle ELSE task[s]]
    /\ sweep' = [sweep EXCEPT ![e] = {}]
    /\ excused' = excused \cup {task[s].w : s \in TasksOf(e)}
                          \cup {g.w : g \in sweep[e]}
    /\ UNCHANGED <<row, resuming, lateWrite, lateClaim, lateCheckpoint, reported>>

(* launch, in a fresh process or again after a shutdown, which may have    *)
(* timed out on runs that go on, with or without recover_on_launch.  What  *)
(* an earlier recovery had not reached is left.                            *)
Launch(e, recover) ==
    LET left == IF recover THEN Listed({e}) ELSE {} IN
    /\ ~Alive(e) \/ flags[e] = {"alive", "shutdown"}
    /\ "recover" \in Discipline =>
          \A g \in left : \A s \in TasksOf(e) : Active(s) => task[s].w # g.w
    /\ "serial" \in Discipline => \A g \in left : ~Resuming(g.w)
    /\ flags' = [flags EXCEPT ![e] = {"alive"}]
    /\ task' = [s \in Slot |-> IF s \in TasksOf(e) THEN [task[s] EXCEPT !.old = TRUE]
                               ELSE task[s]]
    /\ sweep' = [sweep EXCEPT ![e] = left]
    /\ excused' = excused \cup {g.w : g \in sweep[e]}
    /\ UNCHANGED <<row, resuming, lateWrite, lateClaim, lateCheckpoint, reported>>

Deactivate(e) ==
    /\ "stop" \in Moves
    /\ Alive(e)
    /\ "deactivated" \notin flags[e]
    /\ flags' = [flags EXCEPT ![e] = @ \cup {"deactivated"}]
    /\ UNCHANGED <<row, task, sweep, resuming, lateWrite, lateClaim, reported,
                   excused, lateCheckpoint>>

Shutdown(e) ==
    /\ "stop" \in Moves
    /\ Alive(e)
    /\ "shutdown" \notin flags[e]
    /\ flags' = [flags EXCEPT ![e] = @ \cup {"shutdown"}]
    /\ UNCHANGED <<row, task, sweep, resuming, lateWrite, lateClaim, reported,
                   excused, lateCheckpoint>>

-----------------------------------------------------------------------------

BodyStep(s) ==
    \/ Checkpoint(s)
    \/ \E target \in Completed, v \in Value : BodyReturns(s, target, v)
    \/ BodyCancelled(s)
    \/ BodyTimedOut(s)
    \/ BodyConflict(s)
    \/ BodyInterrupted(s)
    \/ BodyPanics(s)

OutcomeStep(s) ==
    \/ WriteAnswered(s)
    \/ \E fate \in {"lost", "never", "late"} : WriteFails(s, fate)
    \/ \E fate \in {"ok", "never"} : Readback(s, fate)
    \/ Adopt(s)
    \/ AdoptFails(s)

SettleStep(s) ==
    \/ SettleStops(s)
    \/ SettleAnswered(s)
    \/ \E fate \in {"lost", "never", "late"} : SettleFails(s, fate)

DispatchStep(e) ==
    \/ \E w \in Workflow, s \in Slot, fate \in {"ok", "lost"} :
           Start(e, w, s, fate) \/ Dequeue(e, w, s, fate)

SweepStep(e) ==
    \/ \E execs \in SUBSET (Executor \cup {Unowned}) : RecoverPendingFor(e, execs)
    \/ \E g \in sweep[e], s \in Slot : SweepAnswered(e, g, s)
    \/ \E g \in sweep[e], fate \in {"lost", "never", "late"} :
           SweepFails(e, g, fate)
    \/ SweepStops(e)

OperatorStep ==
    \/ \E w \in Workflow : Enqueue(w) \/ Cancel(w) \/ Delete(w)
    \/ \E w \in Workflow : HandleResult(w)
    \/ \E o \in Operator, w \in Workflow : ResumeReopens(o, w)
    \/ \E o \in Operator : ResumeEnqueues(o) \/ ResumeBreaksOff(o)

ProcessStep(e) ==
    \/ Crash(e)
    \/ \E recover \in BOOLEAN : Launch(e, recover)
    \/ Deactivate(e)
    \/ Shutdown(e)

LateStep ==
    \/ \E l \in lateWrite : LateWriteCommits(l) \/ LateWriteDropped(l)
    \/ \E c \in lateClaim : LateClaimCommits(c) \/ LateClaimDropped(c)

LateCheckpointStep ==
    /\ "lateCheckpoint" \in Moves
    /\ \/ \E s \in Slot : CheckpointDelayed(s)
       \/ \E c \in lateCheckpoint :
              LateCheckpointCommits(c) \/ LateCheckpointDropped(c)

Next ==
    \/ \E s \in Slot : BodyStep(s) \/ OutcomeStep(s) \/ SettleStep(s)
    \/ \E s \in Slot, fate \in {"ok", "never"} : Release(s, fate)
    \/ \E e \in Executor : DispatchStep(e) \/ SweepStep(e) \/ ProcessStep(e)
    \/ OperatorStep
    \/ LateStep
    \/ LateCheckpointStep

Spec == Init /\ [][Next]_vars

(* What the runtime keeps doing: bodies return, provider calls are         *)
(* answered, dispatchers poll, settlement and a resume run to their end.   *)
Fairness ==
    /\ \A s \in Slot :
        /\ WF_vars(\E target \in Completed, v \in Value :
                       BodyReturns(s, target, v))
        /\ WF_vars(WriteAnswered(s))
        /\ WF_vars(Readback(s, "ok"))
        /\ WF_vars(Adopt(s))
        /\ WF_vars(SettleAnswered(s))
    /\ \A e \in Executor :
        /\ WF_vars(\E w \in Workflow, s \in Slot : Dequeue(e, w, s, "ok"))
        /\ WF_vars(\E g \in sweep[e], s \in Slot : SweepAnswered(e, g, s))
    /\ \A o \in Operator : WF_vars(ResumeEnqueues(o))

FairSpec == Spec /\ Fairness

-----------------------------------------------------------------------------
(* Properties.                                                             *)

Live(s) == task[s].pc \in {"body", "write", "readback"}

(* At most one live execution per workflow id, across all executors: the   *)
(* created flag, the dequeue and the claim CAS never let two of them in,   *)
(* whatever replies are lost, calls delayed or processes restarted.        *)
OneLiveExecution ==
    \A s, t \in Slot : Live(s) /\ Live(t) /\ task[s].w = task[t].w => s = t

(* Two callers are never given different completed outcomes of one         *)
(* workflow: an execution whose terminal write was refused, or whose reply *)
(* was lost, reports what the row records and never its own result.        *)
ResultsAgree ==
    \A w \in Workflow : \A x, y \in reported[w] : x = y

(* A recorded SUCCESS or ERROR is final: no late terminal write, claim,    *)
(* cancellation or resume changes the row's status or value (deletion      *)
(* aside).                                                                 *)
OutcomeIsFinal ==
    [][\A w \in Workflow :
          row[w].status \in Completed =>
              \/ row'[w] = NoRow
              \/ /\ row'[w].status = row[w].status
                 /\ row'[w].value = row[w].value]_vars

(* Some task, sweep or resume still has row w in hand.                     *)
Owned(w) ==
    \/ ActiveOn(w)
    \/ Resuming(w)
    \/ \E s \in Slot : /\ task[s].pc = "settle" /\ task[s].w = w
                       /\ ClaimMatches(GenerationOf(task[s]), row[w])
    \/ \E e \in Executor : \E g \in sweep[e] :
           g.w = w /\ ClaimMatches(g, row[w])

(* No workflow is silently forgotten: a PENDING row that nothing has in    *)
(* hand got there by a crash, a stop, an ambiguous reply or an exhausted   *)
(* settlement, the cases for which the guide asks for explicit recovery.   *)
NoSilentStrand ==
    \A w \in Workflow :
        row[w].status = "PENDING" => Owned(w) \/ w \in excused

(* The recovery cap holds: between resumes a row is claimed at most        *)
(* MaxRecoveryAttempts times and parked by the claim after that; a row     *)
(* past its cap is never dispatched again without a resume.                *)
RecoveryBudget ==
    \A w \in Workflow :
        row[w] # NoRow =>
            /\ row[w].attempts <= MaxRecoveryAttempts + 1
            /\ row[w].attempts = MaxRecoveryAttempts + 1 =>
                   row[w].status \in {"MAX_RECOVERY_ATTEMPTS_EXCEEDED",
                                      "CANCELLED"}

(* A row that is ENQUEUED is on a queue, so some dispatcher can claim it:  *)
(* neither a recovery claim that requeues nor a release puts back a row    *)
(* that a cancellation has taken off its queue since it was listed or      *)
(* claimed.                                                                *)
EnqueuedIsClaimable ==
    \A w \in Workflow : row[w].status = "ENQUEUED" => row[w].queued

(* Every workflow that was started or enqueued ends: it reaches a terminal *)
(* status, or is left for explicit recovery, however often its executions  *)
(* are interrupted and settled.                                            *)
EventuallySettled ==
    \A w \in Workflow :
        row[w].status \in {"PENDING", "ENQUEUED"}
            ~> row[w] = NoRow \/ row[w].status \in Terminal \/ w \in excused

-----------------------------------------------------------------------------
(* The inductive invariant behind the safety properties, when operators    *)
(* keep all the Rules.                                                     *)

(* An active task holds the row: it carries the row's own generation.      *)
ActiveInv ==
    \A s \in Slot : Active(s) =>
        LET r == row[task[s].w] IN
        /\ r # NoRow
        /\ r.status # "ENQUEUED"
        /\ r.exec = task[s].e
        /\ r.attempts = task[s].attempts

OneActive ==
    \A s, t \in Slot : Active(s) /\ Active(t) /\ task[s].w = task[t].w => s = t

(* A claim on generation n of w, decided on earlier, is not ahead of the   *)
(* row, and is behind it once the row is held or queued: it can no longer  *)
(* win.                                                                    *)
Behind(w, n) ==
    /\ row[w] # NoRow
    /\ n <= row[w].attempts
    /\ ActiveOn(w) \/ row[w].status = "ENQUEUED" => n # row[w].attempts

ClaimInv ==
    /\ \A s \in Slot : task[s].pc = "settle" =>
           Behind(task[s].w, task[s].attempts)
    /\ \A e \in Executor : \A g \in sweep[e] : Behind(g.w, g.attempts)
    /\ \A c \in lateClaim : Behind(c.g.w, c.g.attempts)

(* A dead process has no tasks and no sweep.                               *)
AliveInv ==
    /\ \A s \in Slot : task[s] # Idle => Alive(task[s].e)
    /\ \A e \in Executor : sweep[e] # {} => Alive(e)

(* Between the two statements of a resume nobody else has the row.         *)
ResumeInv ==
    \A w \in Workflow : \A o \in Operator : resuming[o] = w =>
        /\ row[w].status \in {"PENDING", "CANCELLED"}
        /\ row[w].attempts = 0
        /\ ~ActiveOn(w)
        /\ ~ClaimDue(w)
        /\ \A l \in lateWrite : l.w # w
        /\ \A p \in Operator : resuming[p] = w => p = o

(* Every cap in use is at most the configured one, and no task runs past   *)
(* it.                                                                     *)
CapInv ==
    /\ \A s \in Slot : task[s] # Idle =>
           /\ task[s].cap <= MaxRecoveryAttempts
           /\ task[s].attempts <= MaxRecoveryAttempts
    /\ \A c \in lateClaim : c.cap <= MaxRecoveryAttempts

OwnershipInv ==
    /\ TypeOK
    /\ ActiveInv
    /\ OneActive
    /\ ClaimInv
    /\ AliveInv
    /\ ResumeInv
    /\ CapInv
    /\ RecoveryBudget

(* A completed outcome that is about to be written is a value, and every   *)
(* outcome reported so far is the one the row records.                     *)
ReportInv ==
    /\ \A s \in Slot : /\ task[s].pc = "write"
                       /\ task[s].target \in Completed
                       => task[s].value \in Value
    /\ \A l \in lateWrite : l.target \in Completed => l.value \in Value
    /\ \A w \in Workflow : \A x \in reported[w] :
           /\ row[w].status \in Completed
           /\ x = <<row[w].status, row[w].value>>
=============================================================================
