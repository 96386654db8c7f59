---------------------------- MODULE QueueDispatch ----------------------------
(* The dispatchers of one queue on PostgreSQL: queue_dispatch_loop of      *)
(* several executors, and the statements of dequeue_workflows as they      *)
(* interleave in the database.                                             *)
(*                                                                         *)
(* With a global or a rate limit the transaction is REPEATABLE READ: it    *)
(* counts and scans in the snapshot of its first statement, and fails when *)
(* it locks a row that another transaction has changed since.  Otherwise   *)
(* it sees what is committed.  With a global limit a locked row fails it   *)
(* too (NOWAIT), otherwise locked rows are skipped.                        *)
(*                                                                         *)
(* Workflow bodies, their recovery and lost replies are in                 *)
(* WorkflowLifecycle; here a body just ends.                               *)
EXTENDS Integers, FiniteSets, FiniteSetsExt

CONSTANTS
    Dispatcher,   \* executors, each with a dispatch loop if it listens to the queue
    QRow,         \* workflows enqueued on it
    Rank,         \* [QRow -> Nat]: the order by priority and created_at
    PartOf,       \* [QRow -> partition key]
    Settings,     \* the queue's settings, the executors that listen to it, the
                  \* rows of a version each may claim and those it has a handler
                  \* for, and the rows enqueued, with or without delay
    NoLimit,      \* an unset limit
    AnyPart       \* the single pass over a queue that is not partitioned

VARIABLES
    qrow,         \* [QRow -> [st, on, by]]: status, whether queue_name is set, and
                  \* executor_id
    qdue,         \* delayed rows whose delay is over
    qfresh,       \* rows whose started_at is within the rate limit's period
    disp,         \* [Dispatcher -> the state of its loop]
    local,        \* [Dispatcher -> [partition -> the local_running counter]]
    task,         \* runs spawned by dispatchers: set of <<dispatcher, row>>
    stale,        \* [Dispatcher -> rows changed since its snapshot]
    qset          \* the queue's settings
queueVars == <<qrow, qdue, qfresh, disp, local, task, stale, qset>>

Parts == {PartOf[r] : r \in QRow}
(* Rows differ in priority or created_at; an unset limit is no number, and *)
(* a pass without a key is for no partition.                               *)
ASSUME QueueAssumption ==
    /\ IsFiniteSet(Dispatcher) /\ IsFiniteSet(QRow)
    /\ Rank \in [QRow -> Nat] /\ \A r, s \in QRow : Rank[r] = Rank[s] => r = s
    /\ AnyPart \notin Parts /\ NoLimit \notin Nat
    /\ \A q \in Settings :
          /\ q.batch \in Nat /\ q.partitioned \in BOOLEAN /\ q.listens \subseteq Dispatcher
          /\ {q.global, q.rate, q.worker} \subseteq Nat \cup {NoLimit}
NoOne == ""
Idle(pc) == [pc |-> pc, todo |-> {}, part |-> AnyPart, room |-> 0, snap |-> {}, got |-> {}]

QueueInit ==
    /\ qset \in Settings
    /\ qrow = [r \in QRow |-> [st |-> "NEW", on |-> TRUE, by |-> NoOne]]
    /\ qdue = {} /\ qfresh = {} /\ task = {}
    /\ disp = [d \in Dispatcher |-> Idle("poll")]
    /\ local = [d \in Dispatcher |-> [p \in Parts \cup {AnyPart} |-> 0]]
    /\ stale = [d \in Dispatcher |-> {}]

(* ---------------------------------------------------- the database *)

QRows(st) == {r \in QRow : qrow[r].st = st /\ qrow[r].on}
Scope(p) == {r \in QRow : p = AnyPart \/ PartOf[r] = p}
Locked == UNION {disp[d].got : d \in {e \in Dispatcher : disp[e].pc = "update"}}

(* A committed change of rows: open snapshots do not have it.              *)
Snapshots == qset.global # NoLimit \/ qset.rate # NoLimit
TouchRows(rows) ==
    stale' = [d \in Dispatcher |->
                IF Snapshots /\ disp[d].pc = "select" THEN stale[d] \cup rows ELSE stale[d]]

(* What the rate limit and the global limit leave of n.                    *)
Recent(p) == {r \in qfresh \cap Scope(p) : qrow[r].on /\ qrow[r].st \notin {"ENQUEUED", "DELAYED"}}
(* Faulty form, for the mutants: the running ones are not counted.         *)
RoomUncounted(p, n) ==
    Min({n} \cup (IF qset.rate = NoLimit THEN {}
                  ELSE {Max({0, qset.rate - Cardinality(Recent(p))})})
            \cup (IF qset.global = NoLimit THEN {} ELSE {qset.global}))
QueueRoom(p, n) ==
    Min({n} \cup (IF qset.rate = NoLimit THEN {}
                  ELSE {Max({0, qset.rate - Cardinality(Recent(p))})})
            \cup (IF qset.global = NoLimit THEN {}
                  ELSE {Max({0, qset.global - Cardinality(QRows("PENDING") \cap Scope(p))})}))

(* The first n rows in ORDER BY priority, created_at.                      *)
FrontOf(rows, n) == {r \in rows : Cardinality({s \in rows : Rank[s] < Rank[r]}) < n}

(* --------------------------------------------------- the environment *)

(* A workflow is enqueued: one of a higher priority may come later.        *)
Arrive(r) ==
    /\ qrow[r].st = "NEW" /\ r \in qset.enqueued
    /\ qrow' = [qrow EXCEPT ![r].st = IF r \in qset.delayed THEN "DELAYED" ELSE "ENQUEUED"]
    /\ UNCHANGED <<qdue, qfresh, disp, local, task, stale, qset>>
(* Time passes: a delay ends, a start leaves the rate limit's period.      *)
Elapse(r) ==
    /\ qrow[r].st = "DELAYED" /\ r \notin qdue
    /\ qdue' = qdue \cup {r}
    /\ UNCHANGED <<qrow, qfresh, disp, local, task, stale, qset>>
Period(r) ==
    /\ r \in qfresh
    /\ qfresh' = qfresh \ {r}
    /\ UNCHANGED <<qrow, qdue, disp, local, task, stale, qset>>
(* cancel_workflow: waits for a row lock.                                  *)
CancelQueued(r) ==
    /\ qrow[r].st \in {"DELAYED", "ENQUEUED", "PENDING"} /\ r \notin Locked
    /\ qrow' = [qrow EXCEPT ![r].st = "CANCELLED", ![r].on = FALSE]
    /\ TouchRows({r})
    /\ UNCHANGED <<qdue, qfresh, disp, local, task, qset>>

(* ------------------------------------------------- the dispatch loop *)

(* transition_delayed_workflows; its failure is only logged.               *)
Poll(d) ==
    LET due == {r \in qdue : qrow[r].st = "DELAYED"}
    IN  /\ disp[d].pc = "poll" /\ d \in qset.listens
        /\ qrow' = [r \in QRow |-> IF r \in due THEN [qrow[r] EXCEPT !.st = "ENQUEUED"]
                                   ELSE qrow[r]]
        /\ qdue' = qdue \ due
        /\ TouchRows(due)
        /\ disp' = [disp EXCEPT ![d] = Idle("parts")]
        /\ UNCHANGED <<qfresh, local, task, qset>>
PollFails(d) ==
    /\ disp[d].pc = "poll" /\ d \in qset.listens
    /\ disp' = [disp EXCEPT ![d] = Idle("parts")]
    /\ UNCHANGED <<qrow, qdue, qfresh, local, task, stale, qset>>

(* The active partitions, or one pass without a key.                       *)
ListPartitions(d) ==
    /\ disp[d].pc = "parts"
    /\ disp' = [disp EXCEPT ![d] = [Idle("next") EXCEPT
                  !.todo = IF qset.partitioned THEN {PartOf[r] : r \in QRows("ENQUEUED")}
                           ELSE {AnyPart}]]
    /\ UNCHANGED <<qrow, qdue, qfresh, local, task, stale, qset>>
PartitionsFail(d) ==
    /\ disp[d].pc = "parts" /\ qset.partitioned
    /\ disp' = [disp EXCEPT ![d] = Idle("next")]
    /\ UNCHANGED <<qrow, qdue, qfresh, local, task, stale, qset>>

(* The end of a round: the loop sleeps.                                    *)
Sleep(d) ==
    /\ disp[d].pc = "next" /\ disp[d].todo = {}
    /\ disp' = [disp EXCEPT ![d] = Idle("poll")]
    /\ UNCHANGED <<qrow, qdue, qfresh, local, task, stale, qset>>

(* The next partition: this process's worker limit, then the counts.  The  *)
(* counter can only fall before the transaction begins.                    *)
(* Faulty form, for the mutants: one counter for all partitions.           *)
BeginUnscoped(d) ==
    \E p \in disp[d].todo :
      LET free == IF qset.worker = NoLimit THEN qset.batch
                  ELSE Max({0, qset.worker - local[d][AnyPart]})
          room == QueueRoom(p, Min({free, qset.batch}))
      IN  /\ disp[d].pc = "next"
          /\ disp' = [disp EXCEPT ![d] =
                IF room = 0 THEN [Idle("next") EXCEPT !.todo = disp[d].todo \ {p}]
                ELSE [disp[d] EXCEPT !.pc = "select", !.part = p, !.room = room,
                        !.snap = IF Snapshots THEN QRows("ENQUEUED") ELSE {}]]
          /\ stale' = [stale EXCEPT ![d] = {}]
          /\ UNCHANGED <<qrow, qdue, qfresh, local, task, qset>>
Begin(d) ==
    \E p \in disp[d].todo :
      LET free == IF qset.worker = NoLimit THEN qset.batch
                  ELSE Max({0, qset.worker - local[d][p]})
          room == QueueRoom(p, Min({free, qset.batch}))
      IN  /\ disp[d].pc = "next"
          /\ disp' = [disp EXCEPT ![d] =
                IF room = 0 THEN [Idle("next") EXCEPT !.todo = disp[d].todo \ {p}]
                ELSE [disp[d] EXCEPT !.pc = "select", !.part = p, !.room = room,
                        !.snap = IF Snapshots THEN QRows("ENQUEUED") ELSE {}]]
          /\ stale' = [stale EXCEPT ![d] = {}]
          /\ UNCHANGED <<qrow, qdue, qfresh, local, task, qset>>

(* The candidate scan takes its locks.  Its failure ends the transaction.  *)
Candidates(d) ==
    (IF Snapshots THEN disp[d].snap ELSE QRows("ENQUEUED"))
        \cap qset.runs[d] \cap Scope(disp[d].part)
Chosen(d) ==
    IF qset.global = NoLimit THEN FrontOf(Candidates(d) \ Locked, disp[d].room)
    ELSE FrontOf(Candidates(d), disp[d].room)
Conflict(d) == Chosen(d) \cap (stale[d] \cup Locked) # {}
NextPart(d) == [Idle("next") EXCEPT !.todo = disp[d].todo \ {disp[d].part}]
Select(d) ==
    /\ disp[d].pc = "select"
    /\ disp' = [disp EXCEPT ![d] =
          IF Conflict(d) \/ Chosen(d) = {} THEN NextPart(d)
          ELSE [@ EXCEPT !.pc = "update", !.got = Chosen(d)]]
    /\ stale' = [stale EXCEPT ![d] = {}]
    /\ UNCHANGED <<qrow, qdue, qfresh, local, task, qset>>

(* The update of the rows that are still ENQUEUED, and the commit.         *)
Claim(d) ==
    LET mine == {r \in disp[d].got : qrow[r].st = "ENQUEUED"}
    IN  /\ disp[d].pc = "update"
        /\ qrow' = [r \in QRow |-> IF r \in mine
                                   THEN [qrow[r] EXCEPT !.st = "PENDING", !.by = d]
                                   ELSE qrow[r]]
        /\ qfresh' = IF qset.rate = NoLimit THEN qfresh ELSE qfresh \cup mine
        /\ disp' = [disp EXCEPT ![d].pc = "spawn", ![d].got = mine, ![d].snap = {}]
        /\ TouchRows(mine)
        /\ UNCHANGED <<qdue, local, task, qset>>
ClaimFails(d) ==
    /\ disp[d].pc = "update"
    /\ disp' = [disp EXCEPT ![d] = NextPart(d)]
    /\ UNCHANGED <<qrow, qdue, qfresh, local, task, stale, qset>>

(* Each claimed run is spawned, or its row released if there is no         *)
(* handler: set_workflow_status(ENQUEUED), whatever the row is by then.    *)
Spawn(d) ==
    \E r \in disp[d].got \cap qset.handles[d] :
      /\ disp[d].pc = "spawn"
      /\ local' = [local EXCEPT ![d][disp[d].part] = @ + 1]
      /\ task' = task \cup {<<d, r>>}
      /\ disp' = [disp EXCEPT ![d].got = @ \ {r}]
      /\ UNCHANGED <<qrow, qdue, qfresh, stale, qset>>
Release(d) ==
    \E r \in disp[d].got \ qset.handles[d] :
      /\ disp[d].pc = "spawn"
      /\ qrow' = [qrow EXCEPT ![r].st = "ENQUEUED"]
      /\ TouchRows({r})
      /\ disp' = [disp EXCEPT ![d].got = @ \ {r}]
      /\ UNCHANGED <<qdue, qfresh, local, task, qset>>
Spawned(d) ==
    /\ disp[d].pc = "spawn" /\ disp[d].got = {}
    /\ disp' = [disp EXCEPT ![d] = NextPart(d)]
    /\ UNCHANGED <<qrow, qdue, qfresh, local, task, stale, qset>>

(* A run records its outcome, then its RunningGuard is dropped.            *)
Finish(d, r) ==
    /\ <<d, r>> \in task /\ qrow[r].st = "PENDING"
    /\ qrow' = [qrow EXCEPT ![r].st = "SUCCESS"]
    /\ TouchRows({r})
    /\ UNCHANGED <<qdue, qfresh, disp, local, task, qset>>
(* Faulty form, for the mutants: the guard of a cancelled run leaks.       *)
LeakGuard(d, r) ==
    LET p == IF qset.partitioned THEN PartOf[r] ELSE AnyPart
    IN  /\ <<d, r>> \in task /\ qrow[r].st # "PENDING"
        /\ task' = task \ {<<d, r>>}
        /\ local' = [local EXCEPT ![d][p] = IF qrow[r].on THEN @ - 1 ELSE @]
        /\ UNCHANGED <<qrow, qdue, qfresh, disp, stale, qset>>
DropGuard(d, r) ==
    LET p == IF qset.partitioned THEN PartOf[r] ELSE AnyPart
    IN  /\ <<d, r>> \in task /\ qrow[r].st # "PENDING"
        /\ task' = task \ {<<d, r>>}
        /\ local' = [local EXCEPT ![d][p] = @ - 1]
        /\ UNCHANGED <<qrow, qdue, qfresh, disp, stale, qset>>

LoopStep(d) ==
    \/ Poll(d) \/ PollFails(d) \/ ListPartitions(d) \/ PartitionsFail(d) \/ Sleep(d)
    \/ Begin(d) \/ Select(d) \/ Claim(d) \/ ClaimFails(d)
    \/ Spawn(d) \/ Release(d) \/ Spawned(d)
QueueNext ==
    \/ \E r \in QRow : Arrive(r) \/ Elapse(r) \/ Period(r) \/ CancelQueued(r)
    \/ \E d \in Dispatcher : LoopStep(d) \/ \E r \in QRow : Finish(d, r) \/ DropGuard(d, r)
QueueSpec == QueueInit /\ [][QueueNext]_queueVars

(* Loops and bodies keep running, time passes, and no statement of the     *)
(* loop fails for ever.                                                    *)
QueueFairness ==
    /\ \A d \in Dispatcher : WF_queueVars(LoopStep(d))
    /\ SF_queueVars(\E d \in Dispatcher : Poll(d))
    /\ SF_queueVars(\E d \in Dispatcher : ListPartitions(d))
    /\ SF_queueVars(\E d \in Dispatcher : Claim(d))
    /\ WF_queueVars(\E d \in Dispatcher, r \in QRow : Finish(d, r) \/ DropGuard(d, r))
    /\ WF_queueVars(\E r \in QRow : Elapse(r) \/ Period(r))

(* -------------------------------------------------------- properties *)

(* What global_concurrency and the rate limiter come to, per partition of  *)
(* a partitioned queue: no executor on its own exceeds them, so at most    *)
(* the limit times the listening executors are PENDING, or started within  *)
(* the period as the query counts them: not the cancelled and the released *)
(* ones.  With one executor this is the limit itself.                      *)
MyParts == IF qset.partitioned THEN Parts ELSE {AnyPart}
StartsBounded ==
    \A p \in MyParts :
      /\ qset.global # NoLimit =>
            Cardinality(QRows("PENDING") \cap Scope(p)) <= qset.global * Cardinality(qset.listens)
      /\ qset.rate # NoLimit => Cardinality(Recent(p)) <= qset.rate * Cardinality(qset.listens)

(* "Max workflows running concurrently across all executors" (queue.rs).   *)
(* The code does not keep it: the front rows of two snapshots need not     *)
(* overlap, and then the two transactions that claim them do not conflict. *)
GlobalLimit ==
    qset.global # NoLimit =>
      \A p \in MyParts : Cardinality(QRows("PENDING") \cap Scope(p)) <= qset.global

(* No process runs more than worker_concurrency workflows of a partition   *)
(* at a time, those it is about to spawn included.                         *)
WorkerLimit ==
    qset.worker # NoLimit =>
      \A d \in Dispatcher :
        \A p \in MyParts :
          Cardinality({t \in task : t[1] = d /\ t[2] \in Scope(p)}
                        \cup (IF disp[d].pc = "spawn" /\ disp[d].part = p
                              THEN {<<d, r>> : r \in disp[d].got} ELSE {})) <= qset.worker

(* Queued workflows do not wait for ever: again and again every one of     *)
(* them has ended or was cancelled, if every executor has all the          *)
(* handlers; one without may claim and release the first row again and     *)
(* again while the others look.                                            *)
QueueDrains ==
    []<>((\A d \in qset.listens : qset.handles[d] = QRow /\ qset.runs[d] = QRow) =>
            \A r \in QRow : qrow[r].on => qrow[r].st \in {"NEW", "SUCCESS"})
=============================================================================
