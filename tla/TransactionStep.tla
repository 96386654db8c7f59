-------------------------- MODULE TransactionStep --------------------------
(* One transactional step of a workflow, as any number of executions of    *)
(* the workflow go through it: DurableContext::transaction_with over       *)
(* run_transaction_step ("provider"), transaction_on_with over a data      *)
(* source of the system database ("fast"), and over a database of the      *)
(* application ("external": the body commits with a completion row, the    *)
(* checkpoint follows as a second commit).                                 *)
(*                                                                         *)
(* Database statements may fail, and the answer to a commit may be lost    *)
(* with or without the commit.  The body is any SQL: every attempt may     *)
(* come to another value or error.                                         *)
(*                                                                         *)
(* Left out: a body that ends the transaction with raw SQL, outputs that   *)
(* cannot be encoded (a body error), another operation recorded at the     *)
(* position, and the deletion of the rows.                                 *)
EXTENDS Integers, FiniteSets

CONSTANTS
    TxExec,       \* executions of the workflow
    TxModes,      \* how the step runs: [kind, ro] for the read-only option
    TxValue,      \* outputs of the body
    TxInstant,    \* clock readings
    MaxRetries,   \* the option max_retries
    MaxFaults,    \* failures of database statements
    NoTxRow,      \* no row stored
    NoHolder      \* no uncommitted row
BodyError == "error"
Halts == {"Cancelled", "WorkflowConflict", "RecoveryRequired", "crashed", "none"}
TxRows == [res : TxValue \cup {BodyError}, start : TxInstant]
ASSUME TxAssumption ==
    /\ BodyError \notin TxValue /\ TxValue \cap Halts = {}
    /\ NoTxRow \notin TxRows /\ NoHolder \notin TxExec
    /\ MaxRetries \in Nat /\ MaxFaults \in Nat
    /\ TxModes \subseteq [kind : {"provider", "fast", "external"}, ro : BOOLEAN]

VARIABLES
    tmode,        \* the mode of this step
    trow,         \* its row in operation_outputs
    wit,          \* its row in transaction_completion
    wrote,        \* committed runs of the body: set of <<execution, attempt, value>>
    holder,       \* the execution whose insert is not yet committed
    tx,           \* [TxExec -> its call]
    tcancel,      \* the workflow is CANCELLED
    faults        \* failures so far
txVars == <<tmode, trow, wit, wrote, holder, tx, tcancel, faults>>

TxInit ==
    /\ tmode \in TxModes
    /\ trow = NoTxRow /\ wit = NoTxRow /\ wrote = {} /\ holder = NoHolder
    /\ tx = [e \in TxExec |-> [pc |-> "new", val |-> BodyError, start |-> 0, n |-> 0,
                               tries |-> 0, seen |-> "none"]]
    /\ tcancel = FALSE /\ faults = 0

Provider == tmode.kind = "provider"
External == tmode.kind = "external"
To(e, pc) == tx' = [tx EXCEPT ![e].pc = pc]
Answer(e, s) == tx' = [tx EXCEPT ![e].pc = "over", ![e].seen = s]
Fault == faults < MaxFaults /\ faults' = faults + 1
TxRow(e) == [res |-> tx[e].val, start |-> tx[e].start]

(* ------------------------------------------------------------ replay *)

(* The checkpoint is served.  Only the data sources' path has the guard    *)
(* for a cancelled workflow.  A failing read stops the execution.          *)
StartTx(e) ==
    /\ tx[e].pc = "new"
    /\ \E t \in TxInstant : tx' = [tx EXCEPT ![e].pc = "look", ![e].start = t]
    /\ UNCHANGED <<tmode, trow, wit, wrote, holder, tcancel, faults>>
LookUp(e) ==
    /\ tx[e].pc = "look"
    /\ IF trow # NoTxRow THEN Answer(e, trow.res)
       ELSE IF ~Provider /\ tcancel THEN Answer(e, "Cancelled")
       ELSE To(e, IF External THEN "witness" ELSE "body")
    /\ UNCHANGED <<tmode, trow, wit, wrote, holder, tcancel, faults>>
(* A completion row without a checkpoint: replayed, not run again.         *)
Witness(e) ==
    /\ tx[e].pc = "witness"
    /\ tx' = IF wit = NoTxRow THEN [tx EXCEPT ![e].pc = "body"]
             ELSE [tx EXCEPT ![e].pc = "record", ![e].val = wit.res]
    /\ UNCHANGED <<tmode, trow, wit, wrote, holder, tcancel, faults>>
ReadFails(e) ==
    /\ tx[e].pc \in {"look", "witness"} /\ Fault
    /\ Answer(e, "RecoveryRequired")
    /\ UNCHANGED <<tmode, trow, wit, wrote, holder, tcancel>>

(* ------------------------------------------------------- one attempt *)

(* The body runs in a fresh transaction.  A read-only one is committed at  *)
(* once and recorded like a plain step.                                    *)
Body(e) ==
    /\ tx[e].pc = "body"
    /\ \E o \in TxValue \cup {BodyError} :
         tx' = [tx EXCEPT ![e].val = o, ![e].n = @ + 1,
                          ![e].pc = IF o = BodyError THEN "failed"
                                    ELSE IF tmode.ro THEN "record" ELSE "insert"]
    /\ UNCHANGED <<tmode, trow, wit, wrote, holder, tcancel, faults>>

(* The row that must commit with the body's writes: ON CONFLICT DO NOTHING *)
(* waits for an uncommitted row of the same key.                           *)
Slot == IF External THEN wit ELSE trow
(* Faulty form, for the mutants: the insert overwrites the row.            *)
InsertOverwrites(e) ==
    /\ tx[e].pc = "insert" /\ holder = NoHolder
    /\ To(e, "commit") /\ holder' = e
    /\ UNCHANGED <<tmode, trow, wit, wrote, tcancel, faults>>
InsertRow(e) ==
    /\ tx[e].pc = "insert" /\ holder = NoHolder
    /\ IF Slot = NoTxRow THEN To(e, "commit") /\ holder' = e
       ELSE To(e, "classify") /\ UNCHANGED holder
    /\ UNCHANGED <<tmode, trow, wit, wrote, tcancel, faults>>

CommitRow(e) ==
    /\ IF External THEN wit' = TxRow(e) /\ UNCHANGED trow
       ELSE trow' = TxRow(e) /\ UNCHANGED wit
    /\ wrote' = wrote \cup {<<e, tx[e].n, tx[e].val>>}
Commit(e) ==
    /\ tx[e].pc = "commit"
    /\ CommitRow(e) /\ holder' = NoHolder
    /\ IF External THEN To(e, "record") ELSE Answer(e, tx[e].val)
    /\ UNCHANGED <<tmode, tcancel, faults>>
(* The answer is lost: the error is one the loop retries or another one,   *)
(* which transaction_with resolves from the row, or the process died.      *)
Retried(e) ==
    \/ To(e, "wait")
    \/ IF Provider THEN To(e, "resolve") ELSE Answer(e, "RecoveryRequired")
    \/ Answer(e, "crashed")
CommitUnanswered(e) ==
    /\ tx[e].pc = "commit" /\ Fault
    /\ CommitRow(e) \/ UNCHANGED <<trow, wit, wrote>>
    /\ holder' = NoHolder /\ Retried(e)
    /\ UNCHANGED <<tmode, tcancel>>
(* A conflict or a transient error rolls the attempt back.                 *)
Aborted(e) ==
    /\ tx[e].pc \in {"body", "insert"} /\ Fault
    /\ Retried(e)
    /\ UNCHANGED <<tmode, trow, wit, wrote, holder, tcancel>>
(* Back off and try again, unless the workflow is cancelled.               *)
ConflictWait(e) ==
    /\ tx[e].pc = "wait"
    /\ IF tcancel THEN Answer(e, "Cancelled") ELSE To(e, "body")
    /\ UNCHANGED <<tmode, trow, wit, wrote, holder, tcancel, faults>>

(* The row was there: rolled back.  The same write is converged on, any    *)
(* other is taken for a rival's.                                           *)
SameRow(e) == Slot.res = tx[e].val /\ (Provider => Slot.start = tx[e].start)
(* Faulty form, for the mutants: the loser reports its own value.          *)
ClassifyOwnValue(e) ==
    /\ tx[e].pc = "classify"
    /\ IF External THEN To(e, "record") ELSE Answer(e, tx[e].val)
    /\ UNCHANGED <<tmode, trow, wit, wrote, holder, tcancel, faults>>
ClassifyRow(e) ==
    /\ tx[e].pc = "classify"
    /\ IF ~SameRow(e) THEN Answer(e, "WorkflowConflict")
       ELSE IF External THEN To(e, "record") ELSE Answer(e, tx[e].val)
    /\ UNCHANGED <<tmode, trow, wit, wrote, holder, tcancel, faults>>
ClassifyFails(e) ==
    /\ tx[e].pc = "classify" /\ Fault
    /\ IF Provider THEN To(e, "wait") ELSE Answer(e, "RecoveryRequired")
    /\ UNCHANGED <<tmode, trow, wit, wrote, holder, tcancel>>

(* --------------------------------------------- failures and the record *)

(* A body error: retried while the policy allows, or final.  An external   *)
(* one is mirrored into the completion table, if that works.               *)
UserRetry(e) ==
    /\ tx[e].pc = "failed" /\ tx[e].tries < MaxRetries
    /\ tx' = [tx EXCEPT ![e].pc = "body", ![e].tries = @ + 1]
    /\ UNCHANGED <<tmode, trow, wit, wrote, holder, tcancel, faults>>
GiveUp(e) ==
    /\ tx[e].pc = "failed"
    /\ To(e, IF External THEN "mirror" ELSE "record")
    /\ UNCHANGED <<tmode, trow, wit, wrote, holder, tcancel, faults>>
Mirror(e) ==
    /\ tx[e].pc = "mirror" /\ holder = NoHolder
    /\ wit' = IF wit = NoTxRow THEN TxRow(e) ELSE wit
    /\ To(e, "record")
    /\ UNCHANGED <<tmode, trow, wrote, holder, tcancel, faults>>
MirrorFails(e) ==
    /\ tx[e].pc = "mirror" /\ Fault
    /\ To(e, "record")
    /\ UNCHANGED <<tmode, trow, wit, wrote, holder, tcancel>>

(* record_step_result, or the provider's own insert of an error.           *)
Recordable(e) == tx[e].pc = "record" /\ (External \/ holder = NoHolder)
RecordTx(e) ==
    /\ Recordable(e)
    /\ trow' = IF trow = NoTxRow THEN TxRow(e) ELSE trow
    /\ Answer(e, IF trow' = TxRow(e) THEN tx[e].val ELSE "WorkflowConflict")
    /\ UNCHANGED <<tmode, wit, wrote, holder, tcancel, faults>>
RecordUnanswered(e) ==
    /\ Recordable(e) /\ Fault
    /\ trow' \in {trow, IF trow = NoTxRow THEN TxRow(e) ELSE trow}
    /\ \/ Provider /\ tx[e].val # BodyError /\ To(e, "wait")
       \/ IF Provider THEN To(e, "resolve") ELSE Answer(e, "RecoveryRequired")
       \/ Answer(e, "crashed")
    /\ UNCHANGED <<tmode, wit, wrote, holder, tcancel>>

(* A storage failure out of run_transaction_step: only a stored row is an  *)
(* outcome.                                                                *)
Resolve(e) ==
    /\ tx[e].pc = "resolve"
    /\ Answer(e, IF trow # NoTxRow THEN trow.res ELSE "RecoveryRequired")
    /\ UNCHANGED <<tmode, trow, wit, wrote, holder, tcancel, faults>>

CancelTx ==
    /\ ~tcancel /\ tcancel' = TRUE
    /\ UNCHANGED <<tmode, trow, wit, wrote, holder, tx, faults>>

TxStep(e) ==
    \/ LookUp(e) \/ Witness(e) \/ ReadFails(e) \/ Body(e) \/ InsertRow(e) \/ Commit(e)
    \/ CommitUnanswered(e) \/ Aborted(e) \/ ConflictWait(e) \/ ClassifyRow(e) \/ ClassifyFails(e)
    \/ UserRetry(e) \/ GiveUp(e) \/ Mirror(e) \/ MirrorFails(e)
    \/ RecordTx(e) \/ RecordUnanswered(e) \/ Resolve(e)
TxNext == CancelTx \/ \E e \in TxExec : StartTx(e) \/ TxStep(e)
TxSpec == TxInit /\ [][TxNext]_txVars

(* -------------------------------------------------------- properties *)

TxPcs == {"new", "look", "witness", "body", "insert", "commit", "wait", "classify",
          "failed", "mirror", "record", "resolve", "over"}
TxCalls == [pc : TxPcs,
            val : TxValue \cup {BodyError}, start : TxInstant \cup {0}, n : Nat,
            tries : 0 .. MaxRetries, seen : TxValue \cup {BodyError} \cup Halts]

(* The state keeps its form.                                               *)
TxTypeOK ==
    /\ tmode \in TxModes /\ tcancel \in BOOLEAN /\ faults \in 0 .. MaxFaults
    /\ holder \in TxExec \cup {NoHolder}
    /\ trow \in {NoTxRow} \cup TxRows /\ wit \in {NoTxRow} \cup TxRows
    /\ wrote \subseteq TxExec \X Nat \X TxValue
    /\ tx \in [TxExec -> TxCalls]

(* The writes of the body are committed at most once, over all attempts of *)
(* all executions; a recorded success is that of the committed run, and a  *)
(* recorded failure has left no writes when the checkpoint is in their     *)
(* database.  With an external one it may: the answer to a commit is lost, *)
(* the body runs again and fails, and that is recorded.                    *)
StepExactlyOnce ==
    /\ \A a, b \in wrote : a = b
    /\ trow # NoTxRow =>
         /\ ~tmode.ro /\ trow.res # BodyError => \E a \in wrote : a[3] = trow.res
         /\ ~External /\ trow.res = BodyError => wrote = {}

(* Executions that get an outcome of the step get the recorded one.        *)
StepAnswersAgree ==
    \A e \in TxExec :
      tx[e].seen \notin Halts => trow # NoTxRow /\ trow.res = tx[e].seen
=============================================================================
