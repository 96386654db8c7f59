# Verification of durare

durare is a durable-execution library: workflows are ordinary async Rust
functions whose progress is checkpointed in a database, so that an execution
that is interrupted can be continued by another one. Nothing coordinates the
executors but the database. There are no leases and no heartbeats: whether a
workflow runs once, and with one outcome, rests on the conditions of single SQL
statements and on the order in which the engine issues them. That is what the
modules here model.

Line numbers refer to the files under `src/src/`; `PROJECT.json` maps every
definition to its lines.

## The system and its parts

| Part | State | Operations | What makes it hard | Modelled in |
|---|---|---|---|---|
| Workflow ownership and lifecycle (`engine.rs`, `execution.rs`, `handle.rs`, `postgres.rs`) | `workflow_status` row: status, `executor_id`, `recovery_attempts`, `queue_name`, output or error; spawned tasks; lifecycle flags | start, enqueue, dequeue, release, body, terminal write, read-back, adoption, settlement, recovery sweep, cancel, resume, delete, launch, deactivate, shutdown | lost and late replies, crashes, stale listings, two-statement operations, unguarded writes | `WorkflowLifecycle` |
| Durable steps and replay (`context.rs`, `execution.rs`, `postgres.rs`) | `operation_outputs` by position; the failure latch; what each execution was told | step, select, now, uuid, random, sleep; `record_step_result`; end of the execution | rival executions, lossy encoding, a lost reply to the insert, functions that handle control errors | `StepCheckpoint`, `DecisionLog` |
| Transactional steps (`context.rs`, `postgres.rs`, `datasource.rs`) | checkpoint, completion row, uncommitted row | `transaction_with`, `transaction_on_with` | two databases commit separately, lost commit answers, user retries | `TransactionStep` |
| Starting workflows and children (`engine.rs`, `context.rs`, `postgres.rs`) | rows, deduplication key, the parent's position and row lock | `start`, client `enqueue`, `find_dedup_target`, `start_workflow_impl`, `insert_child_workflow` | a key that frees between refusal and lookup, rival and dying parents | `RunStart` |
| Patches (`context.rs`) | names recorded by position | `patch`, `deprecate_patch` | a run crosses three versions of its code | `PatchPoint` |
| Messages and events (`context.rs`, `postgres.rs`) | mailbox, events, deadlines, checkpoints | `send`, `recv`, `set_event`, `get_event` | timeout against late message, rival receivers, two statements of `set_event` | `Messaging` |
| Streams (`context.rs`, `provider.rs`) | stream rows, close marker, the producer's status | `write_stream`, `close_stream`, `drain_stream`, `stream_values` | the last write between a reader's two reads | `StreamReader` |
| Queues and dispatch (`queue.rs`, `engine.rs`, `postgres.rs`) | rows by priority and age, snapshots and locks, worker counters | `queue_dispatch_loop`, `dequeue_workflows` | limits counted in a snapshot, missing handlers, partitions, delays | `QueueDispatch` |
| Schedules (`engine.rs`) | schedule row, `last_fired_at`, tick rows, fire loops | reconciler, fire loop, backfill, edits | several engines fire one tick; downtime; edits under running loops | `Schedules` |
| Debouncing (`debounce.rs`) | collector, its inbox and key, acknowledgements | `run_debounce`, `internal_debouncer` | a call against a closing window | `Debounce` |
| Conductor link (`conductor.rs`) | connection, timers, the request in hand | `connection_loop`, `serve`, shutdown | silent links, a shutdown during a request | `Conductor` |
| State providers (`postgres.rs`, `sqlite.rs`, `memory.rs`) | all tables, three times | every writing operation of `StateProvider`: rows, steps, mail, events, streams, schedules, versions, queues, fork, collection, export and import | three implementations of one contract by different means | `SystemTables`, `SqlTables`, `PostgresTables`, `SqliteTables`, `MemoryTables`, `Backends` |
| Handles, errors, serialization, client, migrations | | | only as far as an outcome, an encoding or a constraint matters | in part, see *Not modelled* |
| Replay verification, admin server, observability, macros, guides | | | input and output, code generation, documentation | not modelled |

The parts meet in the database. A dispatcher or sweep of the lifecycle starts an
execution; the execution goes through its steps; a step's failure to learn its
record latches the execution, which the lifecycle then settles; a step that lost
a race to another execution makes the lifecycle adopt the other's outcome. The
modules split along that line. `WorkflowLifecycle` sees a body only by how it
ends and by its refresh of `executor_id`. The modules of a step, a transaction, a
wait, a child start or a patch see the lifecycle only as "another execution may
begin, or the process may die, at any moment", which allows more executions than
the lifecycle ever dispatches. What those modules take one SQL statement to do is
what `Backends` compares across the stores.

## Modules

### WorkflowLifecycle

One row per workflow id, tasks in named slots, and every provider call as one
atomic statement.

| Variable | In the code |
|---|---|
| `row[w]` | the `workflow_status` row: status, `executor_id`, `recovery_attempts`, whether `queue_name` is set, output or error |
| `task[s]` | a spawned `run_to_completion`: running, writing its terminal status, reading back, adopting, settling; or a dispatcher about to release a claim. `old` marks a task of an earlier launch of its process |
| `sweep[e]` | the rest of the listing that `dispatch_pending_workflows` is walking through |
| `resuming[o]` | a caller between the two statements of `resume_workflow_on` |
| `flags[e]` | the process exists; deactivated; its shutdown token is cancelled |
| `lateWrite`, `lateClaim`, `lateCheckpoint` | calls whose caller gave up and that may still commit |
| `reported[w]` | completed outcomes given to callers (history) |
| `excused` | workflows left PENDING by an event after which the guide asks for explicit recovery (history) |

Row operators translate the SQL (`CanSetStatus`, `ClaimMatches`,
`ClaimForRecovery`, `DequeueRow`, `EnqueueExisting`, ...). Actions translate the
engine: `Start`, `Enqueue`, `Dequeue`, `Release` for creation and dispatch;
`Checkpoint` and the `Body...` actions for the ways a body ends; `WriteAnswered`,
`WriteFails`, `Readback`, `Adopt` for `write_terminal_status`; `SettleAnswered`,
`SettleFails`, `SettleStops` for `recover_interrupted_run`;
`RecoverPendingFor`, `SweepAnswered`, `SweepFails`, `SweepStops` for recovery;
`Cancel`, `ResumeReopens`, `ResumeEnqueues`, `Delete` for operators; `Crash`,
`Launch`, `Deactivate`, `Shutdown` for processes. A call is answered (`ok`),
applied with its reply lost (`lost`), not applied (`never`), or applied later
(`late`).

`launch` does not wait for the runs of an earlier launch of the same process, which
a shutdown that timed out leaves behind. Those tasks go on as `old` ones: their
settlement is stopped, as their shutdown token is cancelled for good, while their
terminal writes are issued as before. A relaunch with `recover_on_launch` lists
their rows as its own.

`Discipline` says which operating rules callers keep. The durability guide states
two: recover only executors that have stopped (`recover`; for a relaunch: no
`recover_on_launch` over a workflow that an earlier launch of the process still
runs), resume only what has
stopped and has no claim in flight (`resume`). `delete` is the same for deletion.
`serial` is not in the guide: nobody else resumes or lists a row, and no terminal
write is still in flight, while a resume is between its two statements. The
theorems need it, and `lifecycle_resume_race` shows one reason. A second is
that a relaunch which lists the row between the two statements claims it while
the resume queues it, so two executions run.

`Moves` selects the environment of a run: which faults, crashes, ways of a body
to fail and calls of operators happen. It never gates the engine's response.

### StepCheckpoint and DecisionLog

One workflow, any number of executions of it, and one durable call per position.

| Variable | In the code |
|---|---|
| `log[n]` | the row of `operation_outputs` at position `n`: name, output or error column, start instant |
| `status`, `result` | the workflow's status, and the history its recorded outcome was computed from |
| `exec[x]` | an execution: its stage, its failure latch, what was on record at its dispatch |
| `call[x][n]` | the call at a position: consulting the record, checking cancellation, in its body, writing, over; and what it came to |
| `late` | unanswered inserts that may still commit |

The workflow function is a constant: `OpName(n, h)` is the operation it performs
at position `n` after the results `h`, or `Return`. Determinism is what the
library asks of its users, so it is an assumption. Encoding and decoding are two
functions that need not be inverse: a replay decodes what was stored, and so must
the execution that stored it. `Catches` lists the control errors that the
function handles.

`DecisionLog` is the abstract promise: a position is decided once and for good,
an execution learns the decision and nothing else, and the outcome comes from a
fully decided prefix. `ImplementsLog` is its specification under the mapping that
reads decisions out of the decoded rows.

### TransactionStep

One transactional step, gone through by any number of executions. `tmode` is how
it runs: in the system database through the provider (`provider`), on a data
source that shares that database (`fast`), or on one in another database
(`external`), where the body commits together with a completion row and the
checkpoint is a second commit. `trow` and `wit` are the checkpoint and the
completion row, `holder` the execution with an uncommitted insert (others wait on
its unique key), `wrote` the committed runs of the body, `faults` the statements
that have failed. A commit may be applied with its answer lost. Each attempt
of a body may come to another value or to an error; errors are retried by the
step's options and then recorded, and mirrored into the system database.

### RunStart

Top-level calls and the executions of one parent start workflows, with or without
a deduplication key, while rows end at any time. `runs` and `keyed` are the rows
and which of them carry the key; `step` the parent's checkpoint, `plock` the lock
on the parent's row that `insert_child_workflow` takes; `begun` counts spawned
executions. A call inserts, and if the key refuses it looks up the holder and
reads its row, or starts over, up to `MaxDedup` times. An execution checks the
recorded child, the recorded refusal and the cancellation, and then inserts child
and checkpoint in one transaction. A refusal is recorded as the position's outcome;
where a rival has recorded the same refusal the two converge, and any other record
ends the execution in `WorkflowConflict`.

### PatchPoint

A program with a step, a patch point, and a step, deployed in three versions:
without the patch, with it, and with `deprecate_patch`. `names` is what is
recorded by position. Executions crash and are picked up by the deployed version.

### Messaging

A workflow that waits `NumWaits` times, by `recv` or `get_event`, executed by
rivals; senders with an idempotency key and from a workflow step; workflows that
set an event. `mail` is the mailbox in order of arrival, each message with its
sender's stamp, `row` and `due` the checkpoints of the waits and of their deadlines,
`rx` the receiving executions, `event` and `wx` the event and the executions that
set it. `created_at` is the sender's clock before its insert, so messages may
arrive in another order than their stamps, or with equal ones; the scene of a
behaviour fixes the stamps. `consume_notification` is three steps: the statement
settles on a message with the least stamp (`ClaimMessage`), waits for a rival that
has that row and finds it consumed or locks it (`LockMessage`), and the checkpoint
decides (`TakeMessage`). Timers and wake-ups may come at any moment that the code
allows.

### StreamReader

A producer writes, closes, finishes, is cancelled or is still delayed, while a
reader alternates between the entries and the producer's status, as
`drain_stream` or as `stream_values` (which buffers a page). The producer's guard
(`prod`) and its write are separate steps.

### QueueDispatch

The loops of several executors on one queue of the PostgreSQL store. `qrow` are
the rows, with the executor that claimed each, `disp` the loops: the transaction's
snapshot, what it counted and what it claimed; `stale` the rows changed since a
snapshot, `local` the running counters. Rows arrive in any order of priority and at
any moment. With a global or rate limit a transaction is REPEATABLE READ and fails on a row that changed since its snapshot; with a global
limit a locked row fails it (NOWAIT), otherwise locked rows are skipped. Claimed
rows are spawned under worker slots, or released if the executor has no handler.

### Schedules

One schedule, engines with a reconciler and fire loops each, and operators who
create, replace, update, pause, resume, delete and backfill it. A cron expression
is the set of seconds it names. `ticks` are the tick workflows created, `starts`
how often each was spawned, `dark` the ticks that came due while no engine ran
the schedule (history), `dropped` those whose backfill failed (history).

### Debounce

Calls of one key, and the collectors they start. A call finds the key free and
starts a collector, or sends its input to the holder and waits for the
acknowledgement, or gives up on it and tries again. A collector takes inputs until
its delay is over and then starts the target with the last one.

### Conductor

The connection loop with its back-off, ping and read deadline in units of ten
seconds, one request in hand at a time, a network that closes or silences the
link, and a shutdown with a grace period.

### The stores and Backends

`SystemTables` has what the stores share: rows, statuses, encodings and the tag of
a serializer. `SqlTables` has the SQL that PostgreSQL and SQLite state alike,
`PostgresTables` and `SqliteTables` what each states in its own way, and
`MemoryTables` the maps under a mutex. Each operation is a function from a store
and arguments to a store and a reply, translated from that backend's own code.
`Backends` issues the same operation to the three stores in each step.

The comparison is of the operations as the engine issues them. Outside that
domain the stores are known to differ (see *Where the stores differ*):

* an id that exists is inserted again only while no other row holds its slot;
* `enqueue_existing` names a row that exists and a slot that no other row holds;
* a collection by `rows_threshold` is issued while no row that ended has been
  released or enqueued again. Such a row is live and keeps its `completed_at`; the
  SQL stores count it among the finished rows they keep, memory does not. All other
  operations are compared on such rows;
* deletion with children starts from rows that exist, a fork has a fresh id, and an
  import brings no slot that a row holds;
* steps, events and streams are written to rows that exist, and no event is
  written after an export.

Not compared are the start times of a fork's copied steps, the two settings of a
queue that are not stored, and the status in aggregates over steps, where memory
takes every step for a success. `RoundTrip` leaves out what an import does not bring
back: attributes, the rate-limit mark, mail, and under the portable serializer
events and streams, which are imported without their format.

## Runs

`CHECK_DEADLOCK FALSE` is set throughout because a workflow that has ended, a
behaviour at its bound, or a link that was shut down has nothing left to do.

| Run | Expect | What it shows |
|---|---|---|
| `lifecycle_late` | pass | Crashes, relaunches, sweeps, resumes and deletions, with terminal writes and recovery claims that are lost or commit after their caller gave up: the inductive invariant of the proofs, which contains `OneLiveExecution` (`OwnershipInv`), one outcome for all callers (`ResultsAgree`) that never changes (`OutcomeIsFinal`), no row forgotten (`NoSilentStrand`). 368,810 states. |
| `lifecycle_stop` | pass | Deactivation, shutdown, crashes, a relaunch over runs that outlived the shutdown, and cancellation against settlement, sweeps and a dispatcher without the handler: `OneLiveExecution`, `NoSilentStrand`, the recovery cap (`RecoveryBudget`). 508,902 states. |
| `lifecycle_overlap` | pass | Two executions do overlap, because an operator recovered a live one or a late checkpoint gave the row back to a stopped executor. `ResultsAgree` and `OutcomeIsFinal` hold all the same, and every ENQUEUED row is on a queue although cancellations clear its name (`EnqueuedIsClaimable`). 223,554 states. |
| `lifecycle_live` | pass | `EventuallySettled`: under fairness a workflow ends or is left for explicit recovery. 93,493 states. |
| `lifecycle_resume_race` | violation | Two overlapping resumes of a workflow that has not completed reopen the SUCCESS it then reaches. In TLC's trace it is ENQUEUED when they begin; a cancelled one goes the same way. |
| `lifecycle_release_cancel` | violation | A cancellation between a dequeue and its release leaves a row ENQUEUED on no queue. |
| `lifecycle_ghost_owner` | violation | A late checkpoint hands the row to an executor that no longer runs it; its relaunch starts a second execution. |
| `steps_replay` | pass | Two executions of a branching function with crashes, cancellations, resumes, failed reads, lost replies and late inserts: `ReplayAgreement`, `NoFalseDivergence`, `OutcomeRepeats`, `RecordedNotRerun`, `OneWinner`, and the refinement `ImplementsLog`. 444,322 states. |
| `services` | pass | The background services, one per behaviour. Queues: no executor on its own exceeds the global or the rate limit, so that together they start at most the limit times the listeners (`StartsBounded`), the worker limit (`WorkerLimit`), every row is eventually taken (`QueueDrains`). Schedules: a tick is spawned once (`TickOnce`), downtime is backfilled (`DowntimeBackfilled`), a paused schedule falls silent (`PausedGoesQuiet`). Debouncing: no superseded input runs (`LatestInputRuns`), a target that was promised starts (`TargetStarts`). Conductor: a request whose handling began is answered or fails, also through a shutdown (`NeverTorn`). 293,101 states. |
| `queue_overcommit` | violation | Two executors exceed a global limit of one (`GlobalLimit`): a row that sorts first arrives between their snapshots, their heads differ, and both claim. |
| `conductor_dead_link` | violation | A silent link is kept beyond `PING_TIMEOUT`, because the ping tick restarts the read deadline. |
| `storage` | pass | What the store promises, one area per behaviour. Backends: same replies and same reads (`BackendsAgree`), a key's slot has one live holder (`SlotFreedWhenDone`), collection takes the oldest finished rows only and honours `rows_threshold` (`CollectsOldest`), streams only grow at their end (`StreamsAppendOnly`), export and import give back what was there (`RoundTrip`). Transactions: `StepExactlyOnce`, `StepAnswersAgree`. Messages: each is received once, and of two the one stamped and arrived first is taken first (`MessageFate`), executions agree on a wait (`WaitsAgree`), an event does not go back (`EventForward`). Streams: `DrainComplete`. Starts: `ChildrenAgree`, `AdoptsLiveRun`. Patches: `PatchKeepsAligned`. 956,303 states. |

Each property of a passing run has a mutant in `PROJECT.json`: a slip of the SQL
or of the engine under which TLC finds the property violated.

`services` and `storage` put modules that do not interact side by side: `service`
and `area` are chosen at the start and never change, so their states add up and
do not multiply.

### Bounds

* Lifecycle: one workflow, two executors, two task slots. No statement reads or
  writes the rows of two workflows together, except listings, which are per row
  afterwards. Two slots are what two rival executions need. One operator; two
  where resumes race, none in the liveness run.
* `MaxRecoveryAttempts = 1`: a row is recovered once, and the next claim parks it.
  Both sides of the boundary happen.
* `MaxClaimFailures = 2`: settlement fails once and retries, and gives up at the
  second failure. The code's bound is 8; the branches are the same.
* `lifecycle_stop` has no recovery by an operator, to make room for the shutdown's
  own steps; the sweep of a relaunch is there.
* `MaxLate = 1`: one call outstanding after its caller gave up. Late calls of two
  kinds at once are left to the theorems.
* Steps: three positions (a step; then a step joined with a durable value, or a
  compensating step), two executions, two clock instants, two results that are
  stored alike.
* Queues: two or three rows, in six settings. With two dispatchers: a global limit
  with a delayed row, a rate limit, a global limit over two versions, an executor
  without a handler. With one: a worker limit with partitions, a global with a rate
  limit. Rows arrive in every order.
* Schedules: six seconds, ticks two seconds apart, two engines, two crashes, two
  edits, in four cases.
* Debouncing: three calls with two rounds each, so that a call can meet a window
  that closes and one that opens. Conductor: two requests, two lost links.
* Backends: two workflows at first, two more that calls create; three to five
  operations in sequence after the rows are inserted, each with one to five
  argument tuples. Any three operations of a family meet, in every order.
* Transactions: two executions, one retry, one fault, two values and instants.
  Messages: two receivers, two waits, two messages, one restart, in four scenes: the
  keyed message stamped before, with and after the other one, two rival senders in
  the first; and an event that is set.
  Starts: two callers and two parents, one key, `MaxDedup = 2`. The code has 8.
  Patches: three executions over three versions.

Slots and values are symmetric, so are executors where all have the same
handlers, and executions and instants in the steps. No symmetry is used in the
runs that check liveness.

### Fairness

`FairSpec` of the lifecycle assumes weak fairness of what the runtime keeps doing:
bodies return, the provider answers a terminal write, a read-back, a claim and a
sweep's claim, adopters poll, every dispatcher polls, and the second statement of
a resume is issued. The tokio runtime polls ready tasks and the dispatch loop
never ends before shutdown. Nothing is assumed of processes (no crash happens in
that run), operators or late calls. Faults may recur: what keeps them from doing
so for ever is the recovery cap, which the mutant of the property removes.

In `services` the dispatch loops, the reconcilers, the fire loops and the
collector take steps (weak fairness), bodies end, and delays and rate periods
elapse. A claim, a poll and a listing of partitions by some dispatcher do not fail
for ever (strong fairness): a serialization failure or a lock that is held sends
the loop back, and only a transaction that commits sends another one back.
Nothing is assumed of producers, operators, the clock of a schedule or the
conductor's network.

## Proofs

TLAPS proves the following for every number of workflows, executors, slots,
operators, positions, executions, calls, messages, rows, partitions and requests,
every setting of a queue, every recovery cap and every bound.

| Theorem | Module | Under |
|---|---|---|
| `TypeCorrect` | `OwnershipProofs` | nothing |
| `OwnershipInvariant`, `OneExecution`, `CapRespected` | `OwnershipProofs` | all operating rules, no late checkpoint |
| `OutcomesAgree`, `OutcomeFinal` | `OutcomeProofs` | resumes and deletions keep the rules and nobody interrupts a resume (`ResumesAlone`); every executor has every handler. Executions may overlap and checkpoints may be late |
| `EnqueuedRowsAreClaimable` | `OutcomeProofs` | resumes and deletions keep the rules (`ResumesWait`); no cancellation, or all handlers (`ReleasesAreSafe`) |
| `NothingForgotten` | `OutcomeProofs` | all operating rules, no late checkpoint |
| `StepsTyped`, `ReplayAgrees`, `StepHasOneWinner`, `RecordedStepsServed` | `StepProofs` | nothing |
| `NoDivergenceReported`, `OutcomeFromRecord`, `StepsImplementLog` | `StepProofs` | the function handles no control error but a storage failure |
| `ExactlyOnce`, `AnswersAgree` | `StepProofs` | nothing |
| `ChildStartsAgree`, `AdoptionIsLive` | `RunProofs` | nothing |
| `PatchedRunsStayAligned` | `RunProofs` | versions of the code do not overlap (`Rolling = FALSE`) |
| `MessagesReceivedOnce`, `WaitersAgree` | `MessagingProofs` | nothing |
| `EventGoesForward` | `MessagingProofs` | executions that set the event follow each other (`OneSetter`) |
| `ReadersDrain` | `MessagingProofs` | nothing |
| `WorkerLimitHolds` | `DispatchProofs` | nothing |
| `StartsBoundedHolds` | `DispatchProofs` | nothing |
| `TicksStartOnce` | `ServicesProofs` | nothing |
| `DowntimeIsBackfilled` | `ServicesProofs` | ticks two seconds or more apart (`Spaced`) |
| `TargetsRunTheLatestInput` | `ServicesProofs` | nothing |
| `RequestsAreNotTorn` | `ServicesProofs` | nothing |
| `SlotsStaySound` | `BackendsProofs` | nothing |
| `CollectionSpares` | `BackendsProofs` | no collection by `rows_threshold` while a row that ended is live again (`NoneReopened`, the guard of the action) |

"Nothing" means no more than the types of the constants, which each module states
in its `ASSUME` and TLC evaluates on every run. The conditions `Spaced`, `OneSetter` and `Rolling = FALSE` are in addition assumed by `MCServices`
and `MCStorage`, so that TLC evaluates them on the instances it checks. None of
them is there for the proof's sake: without each the property fails, as *Where the
code and its documentation differ* describes.

`ServicesProofs`, `MessagingProofs`, `RunProofs` and `StepProofs` each treat two or
three components that share no variable. Zenon is the default
prover of every proof module (`USE Zenon`); a leaf names `SMT`, or `PTL` for a
temporal step, where it needs another.

**Ownership.** `OneLiveExecution` is not inductive: a sweep that listed the row
earlier, a settlement or a late claim could each start a second execution. The
claim is a compare-and-swap on executor and `recovery_attempts`, so the invariant
orders generations. An active task carries the row's own executor and attempts
(`ActiveInv`); every claim that was decided on earlier is not ahead of the row,
and is strictly behind it while the row is held or queued (`Behind`, `ClaimInv`),
so that it cannot match. `ResumeInv` keeps the row out of everybody's hands
between the two statements of a resume, which resets the counter and so could
bring an old generation back. `CapInv` and `RecoveryBudget` bound the counter.
The proof takes the actions one by one. Both assumptions are needed: a relaunch
between the two statements of a resume starts a second execution, and so does the
late checkpoint of `lifecycle_ghost_owner`.

**Outcome.** `ReportInv` says that all outcomes reported so far are the row's. It
is preserved because a terminal write needs a PENDING row, a refused or
unanswered write is followed by a read, and nothing takes a row out of SUCCESS or
ERROR. The release of an unhandled claim is an unconditional status write. With
executors that lack a handler it can overwrite a SUCCESS that committed late
(engine.rs:3670), hence `AllHandled`. Neither theorem needs one execution at a
time: a second one reads or adopts what the first recorded. What they need of
ownership is `ReopenInv`: while a resume is between its two statements one
operator has the row and nobody else does, no task, listing, late claim or late
write, so that the second statement queues a row that has not ended. It is
preserved with no order on generations, and so also when an operator recovers a
live executor or a late checkpoint gives the row away, which is what
`lifecycle_overlap` checks on its instance. `ResumesAlone` cannot be dropped:
`lifecycle_resume_race` reopens a SUCCESS.

**No forgotten row.** `NoSilentStrand` follows from `OwnershipInv` and the
matching of each claim with the row it would recover.

**Enqueued rows.** `EnqueuedIsClaimable` needs to know what those remember who will
put a row back to ENQUEUED: a task that was dequeued and settles or releases, a
sweep that listed the row, a late claim. `QueueInv` says that whoever remembers a
queue finds the row on one, unless the row was cancelled. Cancellation takes the
row off its queue and ends it, so that the conditional requeue of
`claim_for_recovery` no longer matches; the release does not look, which is
`lifecycle_release_cancel` and the reason for `ReleasesAreSafe`. A resume or a
deletion under a live claim would give the id to a row that is on no queue, hence
`ResumesWait`. Late checkpoints are allowed here.

**Steps.** `BaseInv` adds to the type invariant that calls are built in order,
that a call's phase determines its fields, that the winner of a position is the
execution whose instant is on record, and that what was on record at an
execution's dispatch is served to it. `DeterminismInv` then says that every row,
and every insert still on its way, belongs to the operation that the record
before it determines. From it follow the absence of false divergence and the
refinement: each action is simulated by a step of `DecisionLog` or by none.

The proofs about transactions, starts and messages have one shape. The invariant is a type invariant, one
formula about the rows (`RowsSound`), and one about each call (`CallSound`): what
its place in the code implies about the rows. `Keeps` names what a step leaves
alone as the other calls see it, one lemma shows that their `CallSound` survives
such a step, and each action then has its own lemma.

**Transactions.** `Slot` is the row that commits with the body: the completion
row of a database of its own, otherwise the checkpoint. The property is not
inductive, since nothing in it keeps a second body from committing. `RowsSound`
says that the slot is empty until the body has committed and stands for its value
afterwards, and `Fits` that a call about to record a success comes from a
committed body or from a step that only reads.

**Starts.** The holder of the parent's lock has found the position unrecorded; an
execution about to spawn a direct child has recorded it, nobody has executed it,
and it is the only one about to (`OneSpawner`). A key has one holder, and the
holder is live, so whoever is handed the holder is handed a live run.

**Messages.** `MessageFate` becomes inductive with `MailSound`: a message is sent
once, and for every consumed one whatever arrived before it with an earlier stamp is
consumed too (`Pinned`). A receiver pins its message when its statement begins;
nothing that arrives later unpins it, so it need not look again while it waits for
the row. `LocksApart` says that two receivers never have the same row. An appended
message is no checkpoint yet, because every checkpoint of a `recv` is a message
already in the mailbox.

**Events.** `EventInv`: the second value is written after the first has its
checkpoint, and no value is written whose checkpoint exists. A crash between the
write and the checkpoint repeats the write of the same value only.

**Streams.** Entries are numbered. `Stretches` says that what the reader has, and
what it buffers, are adjacent stretches of the stream; `Verdict` that a producer
seen at its end has no write under way and stays ended, so that the read after the
look at the status (`final`) sees everything.

**Patches.** `Laid` is what the record of a run can look like over the three
versions: A X B, A patch N B or A N B. `Fits` places an execution of each version
in that layout. That no old execution meets the new layout follows because
versions replace each other in order and only one of them runs at a time.

**Queues.** For the worker limit, `Slots` says that the counter covers the tasks it
counts and leaves room for everything that the loop has claimed or may claim. For
the limits on starts nothing protects the count a claim is based on, and what
holds is weaker than what the queue's documentation says (`queue_overcommit`): one
executor on its own keeps to them. Only its own claims add to the rows it holds,
and each is sized by a count that included those rows, so that they fit within the
limit, also together with the claim it is about to make (`Fits`, `OwnLimitInv`).
Everything that runs was claimed by a listener (`ListenInv`), and a union of as many
sets as there are listeners has at most the sum of their sizes (`UnionBound`). The
cardinalities are those of the library's theorems on finite sets; `FrontBound`
bounds what the ordered SELECT with LIMIT returns.

**Schedules.** `StartsInv` counts: only the insert of a new tick row spawns.
`DarkInv` says that a tick that passed in the dark exists, or its backfill failed,
or it waits (`Waits`): `last_fired_at` is behind it, no loop runs that is not
stopped, and whoever is about to install a loop has the tick on its list. The range
of a backfill begins one second late, which is why `Spaced` is needed. With a
compiled-in schedule of the same name the property is not claimed: its loop
runs while the row is paused, and stamps the row.

**Debouncing.** A call supersedes those that returned before it began (`before`).
`Safe(c, k)` says that neither the input of collector `k` nor a message it is still
to take is superseded by `c`. It holds once `c` has its acknowledgement, and
nothing that arrives later endangers it, because a message on its way belongs to a
caller that still waits (`Current`).

**Stores.** The rows that a backend starts with, the arguments of the operations
and their number are arbitrary; `StartAssumption` and `ArgsAssumption` say only that
rows are inserted live and without an outcome, as `WorkflowStatus::new` makes them,
and that the first ones hold different slots. `SlotFreedWhenDone` is not inductive:
an operation may keep a slot on a row that another part of the row says has ended,
and an import brings rows back that were exported earlier. `Inv` says of every row
that one with a slot is live (`RowOK`), of
every store that slots are unique and rows finite in number (`RowsOK`), and of
every dump the same (`DumpOK`). Most of the proof is one lemma per operation and
store, in terms of three relations. `Same`: no row changes. `Writes`: no row is
added but one, every row keeps its slot or gives it up, and the one may take a slot
that no other row holds. `Removes`: rows only go. Each relation preserves `RowsOK`,
so the operations never meet the invariant itself. Import is treated apart, since
it adds many rows: the unique index checks them in the SQL stores, and the caller's
precondition `SlotsFree` in memory, where nothing does. For `CollectsOldest`, a
cutoff that is the n-th newest completion time spares the n rows that reached it;
that there is such a time is a fact about cardinalities (`NthNewestReached`).

In `BackendsProofs` a step that the rest of its proof uses throughout has no name
and is in force from there on; a named step is one that is used where it is cited.

**Conductor.** `CondInv`: what is unread was not begun, and what was begun is
settled, but for the request in hand and for those an abort left.

Left to TLC:

* `EventuallySettled`, `QueueDrains`, `PausedGoesQuiet`, `TargetStarts`: they rest
  on fairness and `ENABLED`, which the prover does not treat.
* `BackendsAgree`, `RoundTrip` and `StreamsAppendOnly`. The first two compare what
  three implementations compute, through views that sort and fold over rows, and
  hold for arguments in the domain described above only, so that a proof would be
  an induction over data. The third is not attempted: it adds the stream tables to
  the invariant and a lemma per operation and store.
* Which execution owns a row after a late checkpoint or a recovery of a live
  executor: there the ownership theorems do not hold (`lifecycle_ghost_owner`).

## Where the code and its documentation differ

The five violation runs state what a comment or a guide says; the findings in
`PROJECT.json` quote the lines. The following were met while modelling and are
not runs.

*Lifecycle.*
* The release at engine.rs:3670 can put a row back to ENQUEUED after a terminal
  write of an earlier execution committed late (see *Outcome* above).
* `launch` after a shutdown that timed out, with `recover_on_launch`, recovers rows
  whose earlier run goes on in the same process, so that two executions run. The
  rule `recover` excludes it.
* A relaunch with `recover_on_launch` that lists a row between the two statements
  of a resume claims it, and the resume then queues it: two executions run.
* A checkpoint of a stopped execution that commits after its recovered successor
  passed that position makes the successor lose its own insert. It then waits for
  the outcome of a rival that does not exist, until a further recovery.

*Steps, transactions, starts and patches.*
* A lost checkpoint race is reported to the function as `WorkflowConflict` and is not
  latched as a storage failure is (execution.rs:70). A function that handles the
  error goes on to run steps beside the winner; with `Catches` containing it TLC
  finds the trace. docs/design/execution-layers.md:78 says that the second writer
  "gets `WorkflowConflict` and stops".
* The answer to a commit is lost and the retried body comes to another value: the
  execution meets its own row as a rival's, ends in `WorkflowConflict`, and
  engine.rs:3860 waits for a rival that does not exist.
* On a data source in another database the body commits, the answer is lost, the
  body is retried and fails, and that failure is recorded beside the committed
  writes. transactions.rs:77 says "a failed transactional step never leaves
  partial writes". `StepExactlyOnce` says it for the other two kinds.
* The in-memory store's `get_step_result` returns a null output for a child row
  where the SQL stores return nothing, so that a rival recording the child between
  `check_child_workflow` and `get_step_result` gives a false `UnexpectedStep`
  there. `RunStart` has the SQL stores.
* `record_patch` ignores a row that is there. If executions of two versions of the
  code overlap (`Rolling = TRUE`), one takes the new path over a checkpoint of the
  old one.

*Messages, events, streams.*
* Overlapping executions of a workflow that sets an event twice can put the older
  value back. `EventForward` is about executions that follow each other.
* `drain_stream` ends on a producer that is DELAYED, although its stream has not
  begun; `DrainComplete` excepts it, and a cancelled one.

*Queues.*
* Locks protect the rows that a claim takes, not the count it is based on, and two
  claims exclude each other only if both must lock the same head of the queue. A row
  that sorts first and arrives between two snapshots gives them different heads:
  `queue_overcommit`. The global limit is exceeded as well when the executors run
  different versions, which gives each its own front of the queue.
* The rate limit ("At most `limit` workflows may start within any trailing
  `period` window.", queue.rs:4) is exceeded in the same ways, and when it is used
  without a global one, since claims then skip each other's locked rows. Its query
  does not count starts that were cancelled or released since, so that these can be
  followed by more starts; `Recent` is what the query counts.
* An executor that lacks the handler of the head of the queue claims and releases
  it for ever, and the rows behind it wait. `QueueDrains` is about queues whose
  listeners have all handlers.

*Schedules.* A tick whose insert failed is still stamped as fired. For ticks one
second apart the range of a backfill misses one (engine.rs:4194). Pausing a
persisted schedule brings back a compiled-in one of the same name
(engine.rs:4169), whose loop stamps the paused row's `last_fired_at`, so that the
backfill after the pause begins too late. Ticks that come due between the end of a backfill and the first
aim of the loop, or while the loop is busy, are skipped. `last_fired_at` can go
back. Resuming backfills the pause.

*Debouncing.* An acknowledgement that comes after its call gave up leads to a
second target with the same input.

### Where the stores differ

Outside the domain of `Backends`, or in what it does not compare:

* the in-memory store keeps the events of a deleted workflow, has no foreign keys,
  follows a missing id when it deletes with children, lets a fork overwrite an
  existing id, checks the deduplication slot before the id on insert and not at
  all on import, and counts every step as a success in its aggregates;
* `was_forked_from` is derived in one store and sticky in the others; versions that
  are unset group as NULL or as the empty string;
* `enqueue_existing` may meet the unique index in the SQL stores only; identifier
  prefixes are matched with LIKE there, in which `%` and `_` are wildcards;
* PostgreSQL's export reads in several statements at READ COMMITTED and can miss a
  child; an import drops attributes, the rate-limit mark, mail, and the serializer's
  tag of events and streams;
* collection in memory and in the default method lists and deletes in two steps,
  and its premise that every terminal transition sets `completed_at` does not hold
  for the parking of `claim_for_recovery`; a live row carries an old
  `completed_at` after a release or an `enqueue_existing` that came when it had
  ended, and the SQL stores then count it against `rows_threshold`;
* a queue's limit is cast from 64 to 32 bits in PostgreSQL, and rows are dequeued
  by priority whether or not the queue enables it.

## What is abstracted

Inputs and timestamps, versions, priorities and deduplication keys are not in the
lifecycle's rows.
In the steps the `executor_id` refresh (which the lifecycle has), the deletion of
rows under a live execution, calls refused for their placement, calls that are
built and never awaited, and the wait of a sleep are left out. The modules of the
engine use the SQL of the PostgreSQL backend; the stores have each its own. The
head of every module says what it leaves out.

## Not modelled

* Replay verification (`replay.rs`) runs a function against the checkpoints and
  refuses every write. It changes no state; what the records mean is in
  `StepCheckpoint` and `PatchPoint`.
* The admin server and the conductor's messages map requests to engine operations.
  They are input and output; the operations are modelled where they are made.
* The client's other methods pass one call on to the provider operations of
  `Backends`.
* Handles: wait options and typed decoding. Errors: the fields of the recorded
  envelope. Serialization: the formats themselves, which are pure data.
* Cron expressions, time zones, and the poll interval's adaptation.
* Applying migrations, observability, macros and the guides.
