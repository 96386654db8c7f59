--------------------------- MODULE StepCheckpoint ---------------------------
(* The durable calls of one workflow: DurableContext::step, step_with,     *)
(* select, now, uuid, random and sleep, the execution's failure latch, and *)
(* the provider's record_step_result, as several executions of the same    *)
(* workflow go through them.                                               *)
(*                                                                         *)
(* Any number of executions may be live at once, and a new one may start   *)
(* whenever the workflow is PENDING: more than WorkflowLifecycle lets      *)
(* happen, so what holds here holds under every dispatch of that module.   *)
(* The workflow function is deterministic: the operation it performs at a  *)
(* position, or that it returns there, is a function of the results it has *)
(* awaited before (OpName).  Two consecutive calls may be built together   *)
(* and awaited with tokio::join! (Joined).  A checkpoint insert whose      *)
(* reply is lost may have committed, may never, or may commit much later.  *)
(*                                                                         *)
(* Left out: executor_id, which the insert refreshes (WorkflowLifecycle),  *)
(* the deletion of a workflow's rows under a live execution, calls refused *)
(* for their placement, and the wait of a sleep.                           *)
EXTENDS Integers, FiniteSets

CONSTANTS
    Execution,      \* executions of the workflow, by dispatch
    Steps,          \* how many positions its function may use
    Joined,         \* positions built together with the one before
    Instantaneous,  \* positions of durable values: no start, no cancel check
    Name,           \* names of operations
    Outcome,        \* live results and errors of a step body
    Text,           \* what an output or error column can hold
    Encode,         \* [Outcome -> Text], serializer.encode and encode_error
    Decode,         \* [Text -> Outcome], step_outcome_from and recorded_value
    Instant,        \* clock readings, in milliseconds
    MaxLate,        \* inserts that may be unanswered and undecided at once
    Catches,        \* control errors the function handles and goes on from
    OpName(_, _),   \* operation at a position, from the results before it
    Return,         \* the function returns instead
    Nothing,        \* no result yet
    NoRow,          \* no row in operation_outputs
    NoStart         \* started_at_epoch_ms is null

(* Errors that are not the outcome of an operation.                        *)
Control == {"Cancelled", "WorkflowConflict", "RecoveryRequired",
            "UnexpectedStep"}

Position == 0 .. (Steps - 1)

(* A row of operation_outputs.                                             *)
Row == [name: Name, text: Text, start: Instant \cup {NoStart}]

(* What a call has come to, and a durable call of an execution: not built  *)
(* yet, nothing recorded and about to run, its body running, its insert    *)
(* sent, or over.  ran: the body was entered.                              *)
Seen == Outcome \cup Control \cup {Nothing}
Call == [phase: {"none", "guard", "body", "writing", "done"},
         ran: BOOLEAN,
         start: Instant \cup {NoStart},
         text: Text \cup {Nothing},
         seen: Seen]
NewCall == [phase |-> "none", ran |-> FALSE, start |-> NoStart,
            text |-> Nothing, seen |-> Nothing]

(* An execution; known is what was on record when it was dispatched, for   *)
(* as long as it runs.                                                     *)
Execs == [stage: {"unborn", "live", "stopped"}, latched: BOOLEAN,
          known: SUBSET Position]

ASSUME StepsAssumption == Steps \in Nat /\ MaxLate \in Nat
ASSUME JoinedAssumption ==
    /\ Joined \subseteq Position
    /\ \A n \in Joined : n # 0 /\ (n - 1) \notin Joined
    /\ Instantaneous \subseteq Position
ASSUME CodecAssumption ==
    Encode \in [Outcome -> Text] /\ Decode \in [Text -> Outcome]
ASSUME ControlAssumption ==
    Catches \subseteq Control /\ Outcome \cap Control = {}
ASSUME NothingAssumption ==
    /\ Nothing \notin Outcome \cup Control \cup Text
    /\ NoStart \notin Instant
    /\ NoRow \notin Row
    /\ Return \notin Name

(* The positions awaited before n is built.                                *)
Before(n) == {m \in Position : m < (IF n \in Joined THEN n - 1 ELSE n)}

ASSUME OpNameAssumption ==
    \A n \in Position : \A h \in [Before(n) -> Seen] :
        OpName(n, h) \in Name \cup {Return}

VARIABLES
    log,      \* operation_outputs of the workflow, by position
    status,   \* its row's status: PENDING, CANCELLED or Completed
    result,   \* the history that the recorded SUCCESS or ERROR came from
    exec,     \* the executions
    call,     \* their durable calls, by position
    late      \* unanswered inserts that may still commit

vars == <<log, status, result, exec, call, late>>

TypeOK ==
    /\ log \in [Position -> Row \cup {NoRow}]
    /\ status \in {"PENDING", "CANCELLED", "Completed"}
    /\ result \in [Position -> Seen]
    /\ exec \in [Execution -> Execs]
    /\ call \in [Execution -> [Position -> Call]]
    /\ late \subseteq [n: Position, row: Row]

Unknown == [n \in Position |-> Nothing]

Init ==
    /\ log = [n \in Position |-> NoRow]
    /\ status = "PENDING"
    /\ result = Unknown
    /\ exec = [x \in Execution |->
                [stage |-> "unborn", latched |-> FALSE, known |-> {}]]
    /\ call = [x \in Execution |-> [n \in Position |-> NewCall]]
    /\ late = {}

Recorded == {n \in Position : log[n] # NoRow}

----------------------------------------------------------------------------
(* The workflow function.                                                  *)

(* What x knows when it builds position n, and the operation it builds.    *)
History(x, n) == [m \in Before(n) |-> call[x][m].seen]
Op(x, n) == OpName(n, History(x, n))

(* The function is past the calls before n: they are over, and it handled  *)
(* the control errors among them.                                          *)
Awaited(x, n) ==
    \A m \in Before(n) :
        /\ call[x][m].phase = "done"
        /\ call[x][m].seen \in Outcome \cup Catches

(* x is running, and its latch lets a durable call proceed: check_call on  *)
(* construction and on every poll, and check() before a write.             *)
MayProceed(x) == exec[x].stage = "live" /\ ~exec[x].latched

Finished(x, n, s) ==
    call' = [call EXCEPT ![x][n] =
               [@ EXCEPT !.phase = "done", !.text = Nothing, !.seen = s]]

(* Execution::interrupt: the first storage failure is latched.             *)
Interrupt(x) == exec' = [exec EXCEPT ![x].latched = TRUE]

----------------------------------------------------------------------------
(* The calls.                                                              *)

(* Faulty form, for the mutants: a durable value is produced anew on every *)
(* replay.                                                                 *)
ServeStepsOnly(x, n) ==
    IF log[n] # NoRow /\ n \notin Instantaneous
    THEN Finished(x, n, Decode[log[n].text])
    ELSE call' = [call EXCEPT ![x][n] =
           [@ EXCEPT !.phase = "body", !.ran = TRUE]]

(* Position::claim and serve_recorded: the call takes the next position    *)
(* and asks for its record.  A recorded outcome is served if it belongs to *)
(* this operation; otherwise a step goes on to the cancellation check and  *)
(* a durable value is produced at once, without one.                       *)
ServeRecorded(x, n) ==
    IF log[n] # NoRow
    THEN Finished(x, n, IF log[n].name = Op(x, n) THEN Decode[log[n].text]
                        ELSE "UnexpectedStep")
    ELSE call' = [call EXCEPT ![x][n] =
           IF n \in Instantaneous THEN [@ EXCEPT !.phase = "body", !.ran = TRUE]
                                  ELSE [@ EXCEPT !.phase = "guard"]]

Builds(x, n) ==
    /\ MayProceed(x)
    /\ call[x][n].phase = "none"
    /\ \A m \in Position : m < n => call[x][m].phase # "none"
    /\ Awaited(x, n)
    /\ Op(x, n) # Return

Consult(x, n) ==
    /\ Builds(x, n)
    /\ ServeRecorded(x, n)
    /\ UNCHANGED <<log, status, result, exec, late>>

(* The read of the record fails.                                           *)
ConsultFails(x, n) ==
    /\ Builds(x, n)
    /\ Finished(x, n, "RecoveryRequired")
    /\ Interrupt(x)
    /\ UNCHANGED <<log, status, result, late>>

(* replay_or_guard, second half: a CANCELLED workflow starts no new work;  *)
(* otherwise the clock is read and the body begins.                        *)
Guard(x, n) ==
    /\ MayProceed(x)
    /\ call[x][n].phase = "guard"
    /\ IF status = "CANCELLED"
       THEN Finished(x, n, "Cancelled")
       ELSE \E t \in Instant :
                call' = [call EXCEPT ![x][n] =
                    [@ EXCEPT !.phase = "body", !.start = t, !.ran = TRUE]]
    /\ UNCHANGED <<log, status, result, exec, late>>

GuardFails(x, n) ==
    /\ MayProceed(x)
    /\ call[x][n].phase = "guard"
    /\ Finished(x, n, "RecoveryRequired")
    /\ Interrupt(x)
    /\ UNCHANGED <<log, status, result, late>>

(* The body stops on this workflow's own cancellation: no checkpoint.      *)
StepCancelled(x, n) ==
    /\ MayProceed(x)
    /\ call[x][n].phase = "body"
    /\ n \notin Instantaneous
    /\ status = "CANCELLED"
    /\ Finished(x, n, "Cancelled")
    /\ UNCHANGED <<log, status, result, exec, late>>

(* checkpoint and record_failure: the body's result or error, a panic, the *)
(* last retry's error or a result that does not serialize included, is     *)
(* encoded and its insert sent.                                            *)
Write(x, n) ==
    /\ MayProceed(x)
    /\ call[x][n].phase = "body"
    /\ \E o \in Outcome :
          call' = [call EXCEPT ![x][n] =
                     [@ EXCEPT !.phase = "writing", !.text = Encode[o]]]
    /\ UNCHANGED <<log, status, result, exec, late>>

(* The row that the insert of x's call at n carries.                       *)
Insert(x, n) == [name |-> Op(x, n), text |-> call[x][n].text,
                 start |-> call[x][n].start]

(* Faulty forms, for the mutants: the start instant is not compared; the   *)
(* loser of a race goes on with its own result; the insert overwrites.     *)
SameContent(row, mine) == row.text = mine.text

ClassifyOwn(row, mine) == Decode[mine.text]

RecordUpserts(x, n) ==
    /\ log' = [log EXCEPT ![n] = Insert(x, n)]
    /\ Finished(x, n, Decode[call[x][n].text])

(* record_step_result's reply: a first insert is stored, and its caller    *)
(* sees it as a replay would; a later one finds the stored row and either  *)
(* is the same write, or belongs to another operation, or lost the race.   *)
SameWrite(row, mine) == row.text = mine.text /\ row.start = mine.start

Classify(row, mine) ==
    IF row.name # mine.name THEN "UnexpectedStep"
    ELSE IF SameWrite(row, mine) THEN Decode[row.text]
    ELSE "WorkflowConflict"

RecordStepResult(x, n) ==
    LET mine == Insert(x, n)
        row == IF log[n] = NoRow THEN mine ELSE log[n]
    IN  /\ log' = [log EXCEPT ![n] = row]
        /\ Finished(x, n, Classify(row, mine))

Answered(x, n) ==
    /\ MayProceed(x)
    /\ call[x][n].phase = "writing"
    /\ RecordStepResult(x, n)
    /\ UNCHANGED <<status, result, exec, late>>

(* The inserts of x in flight, some of which outlive it.                   *)
InFlight(x) == {n \in Position : call[x][n].phase = "writing"}
Outlive(x, some) ==
    /\ late' = late \cup {[n |-> n, row |-> Insert(x, n)] : n \in some}
    /\ Cardinality(late') <= MaxLate

(* The reply is lost, or the SELECT after a lost race fails: the insert    *)
(* may still be on its way, and the execution is interrupted.              *)
AnswerLost(x, n) ==
    /\ MayProceed(x)
    /\ call[x][n].phase = "writing"
    /\ \E some \in SUBSET {n} : Outlive(x, some)
    /\ Finished(x, n, "RecoveryRequired")
    /\ Interrupt(x)
    /\ UNCHANGED <<log, status, result>>

(* Faulty form, for the mutants: ON CONFLICT DO UPDATE.                    *)
LateOverwrites(i) ==
    /\ i \in late
    /\ late' = late \ {i}
    /\ log' = [log EXCEPT ![i.n] = i.row]
    /\ UNCHANGED <<status, result, exec, call>>

(* ON CONFLICT DO NOTHING, with nobody left to answer.                     *)
LateCommit(i) ==
    /\ i \in late
    /\ late' = late \ {i}
    /\ log' = [log EXCEPT ![i.n] = IF @ = NoRow THEN i.row ELSE @]
    /\ UNCHANGED <<status, result, exec, call>>

LateDrop(i) ==
    /\ i \in late
    /\ late' = late \ {i}
    /\ UNCHANGED <<log, status, result, exec, call>>

----------------------------------------------------------------------------
(* The executions.                                                         *)

Dispatch(x) ==
    /\ exec[x].stage = "unborn"
    /\ status = "PENDING"
    /\ exec' = [exec EXCEPT ![x] = [stage |-> "live", latched |-> FALSE,
                                    known |-> Recorded]]
    /\ UNCHANGED <<log, status, result, call, late>>

(* x ends: what is left of it is what it was told, and each of its inserts *)
(* in flight may still commit.                                             *)
Stop(x) ==
    /\ exec' = [exec EXCEPT ![x] = [stage |-> "stopped", latched |-> FALSE,
                                    known |-> {}]]
    /\ call' = [call EXCEPT ![x] = [n \in Position |->
                   IF call[x][n].seen \in Outcome THEN call[x][n]
                   ELSE NewCall]]
    /\ \E some \in SUBSET InFlight(x) : Outlive(x, some)

(* The function returned, used the positions before k, and wants no more.  *)
ReturnsAt(x, k) ==
    /\ \A m \in Position :
          IF m < k THEN /\ call[x][m].phase = "done"
                        /\ call[x][m].seen \in Outcome \cup Catches
                   ELSE call[x][m].phase = "none"
    /\ k = Steps \/ Op(x, k) = Return

(* It gave up on a control error that it does not handle.                  *)
Uncaught(x, e) ==
    \E n \in Position : call[x][n].seen = e /\ e \notin Catches

(* run_to_completion: an interrupted execution stops without a terminal    *)
(* write, whatever its function made of the error ...                      *)
Interrupted(x) ==
    /\ exec[x].stage = "live"
    /\ exec[x].latched
    /\ Stop(x)
    /\ UNCHANGED <<log, status, result>>

(* ... the loser of a checkpoint race waits for the winner's outcome ...   *)
Adopts(x) ==
    /\ MayProceed(x)
    /\ Uncaught(x, "WorkflowConflict")
    /\ Stop(x)
    /\ UNCHANGED <<log, status, result>>

(* ... a cancelled one records CANCELLED over anything but an outcome ...  *)
Cancels(x) ==
    /\ MayProceed(x)
    /\ Uncaught(x, "Cancelled")
    /\ status' = IF status = "Completed" THEN status ELSE "CANCELLED"
    /\ Stop(x)
    /\ UNCHANGED <<log, result>>

(* ... and one that returned, or failed on a divergent replay, records its *)
(* outcome if the row is still PENDING, and adopts what is there if not.   *)
RecordOutcome(x) ==
    IF status = "PENDING"
    THEN /\ status' = "Completed"
         /\ result' = [n \in Position |-> call[x][n].seen]
    ELSE UNCHANGED <<status, result>>

(* Faulty form, for the mutants: the latch is not checked before the write.*)
CompletesUnchecked(x) ==
    /\ exec[x].stage = "live"
    /\ \E k \in 0 .. Steps : ReturnsAt(x, k)
    /\ RecordOutcome(x)
    /\ Stop(x)
    /\ UNCHANGED log

Completes(x) ==
    /\ MayProceed(x)
    /\ \/ \E k \in 0 .. Steps : ReturnsAt(x, k)
       \/ Uncaught(x, "UnexpectedStep")
    /\ RecordOutcome(x)
    /\ Stop(x)
    /\ UNCHANGED log

Crash(x) ==
    /\ exec[x].stage = "live"
    /\ Stop(x)
    /\ UNCHANGED <<log, status, result>>

(* cancel_workflow and resume_workflow.                                    *)
Cancel ==
    /\ status = "PENDING"
    /\ status' = "CANCELLED"
    /\ UNCHANGED <<log, result, exec, call, late>>

Resume ==
    /\ status = "CANCELLED"
    /\ status' = "PENDING"
    /\ UNCHANGED <<log, result, exec, call, late>>

CallStep(x, n) ==
    \/ Consult(x, n) \/ ConsultFails(x, n)
    \/ Guard(x, n) \/ GuardFails(x, n)
    \/ StepCancelled(x, n)
    \/ Write(x, n) \/ Answered(x, n) \/ AnswerLost(x, n)

ExecutionStep(x) ==
    \/ Dispatch(x) \/ Interrupted(x) \/ Adopts(x) \/ Cancels(x)
    \/ Completes(x) \/ Crash(x)

Next ==
    \/ \E x \in Execution, n \in Position : CallStep(x, n)
    \/ \E x \in Execution : ExecutionStep(x)
    \/ \E i \in late : LateCommit(i) \/ LateDrop(i)
    \/ Cancel \/ Resume

Spec == Init /\ [][Next]_vars

----------------------------------------------------------------------------
(* The promises.                                                           *)

(* What an execution was told at a position is what is on record there,    *)
(* whoever wrote it: every replay, now or after any crash, sees the same   *)
(* (write_step_outcome returns the canonical outcome, decoded as a replay  *)
(* decodes it).                                                            *)
ReplayAgreement ==
    \A x \in Execution, n \in Position :
        call[x][n].seen \in Outcome =>
            log[n] # NoRow /\ call[x][n].seen = Decode[log[n].text]

(* A deterministic function is never told that it is not one: the          *)
(* executions of one workflow, concurrent or not, never disagree on the    *)
(* operation at a position (check_recorded and the name comparison of      *)
(* record_step_result).                                                    *)
NoFalseDivergence ==
    \A x \in Execution, n \in Position : call[x][n].seen # "UnexpectedStep"

(* The recorded outcome repeats from the record: every result that its     *)
(* execution used is on record, as it saw it (the latch stops a function   *)
(* that handled a failed write from recording an outcome).                 *)
OutcomeRepeats ==
    status = "Completed" =>
        \A n \in Position :
            result[n] # Nothing =>
                log[n] # NoRow /\ result[n] = Decode[log[n].text]

(* A step on record when an execution is dispatched is never run by it.    *)
RecordedNotRerun ==
    \A x \in Execution : \A n \in exec[x].known : ~call[x][n].ran

(* Of two executions that ran a step's body from different instants, at    *)
(* most one is told an outcome and goes on.                                *)
OneWinner ==
    \A x, y \in Execution, n \in Position \ Instantaneous :
        /\ call[x][n].ran /\ call[x][n].seen \in Outcome
        /\ call[y][n].ran /\ call[y][n].seen \in Outcome
        => call[x][n].start = call[y][n].start

(* The promise in one formula: the record behaves as a write-once log that *)
(* executions learn from and that the outcome is computed from.            *)
Abstract == INSTANCE DecisionLog WITH
    Length <- 0 .. Steps,
    decided <- [n \in Position |->
                  IF log[n] = NoRow THEN Nothing ELSE Decode[log[n].text]],
    learned <- [x \in Execution |-> [n \in Position |->
                  IF call[x][n].seen \in Outcome THEN call[x][n].seen
                  ELSE Nothing]],
    ended <- (status = "Completed"),
    outcome <- result

ImplementsLog == Abstract!LogSpec
=============================================================================
