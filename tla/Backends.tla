------------------------------ MODULE Backends ------------------------------
(* The three implementations of StateProvider side by side.  Every step    *)
(* issues one operation, with the same arguments, to a PostgreSQL, a       *)
(* SQLite and an in-memory store that started from the same rows.          *)
(*                                                                         *)
(* A behaviour belongs to one family of operations and the clock counts    *)
(* its operations: sequences are short, and take any order.  Operations    *)
(* are issued as the engine does: a write names a row that exists, a fork  *)
(* a fresh id, and an enqueue a free slot.  A row may be released or       *)
(* enqueued again after it ended; only a collection by number of rows is   *)
(* not issued then, for the stores differ there (NoneReopened).            *)
EXTENDS PostgresTables, SqliteTables, MemoryTables

CONSTANTS
    Family,       \* families of operations
    StartRows,    \* [family -> [id -> the row inserted first]]
    Args,         \* [family -> [operation -> its argument tuples]]
    MaxClock,     \* [family -> the clock at which a behaviour ends]
    Formats,      \* [family -> the SQL providers' serializers]
    Filters,      \* list_workflows filters that are compared
    Ids, Keys     \* workflow ids; event and stream keys

VARIABLES
    pg, sq, mem,  \* the stores
    family,
    clock,        \* operations issued so far, the inserts of StartRows included
    last,         \* the operation issued last and the three replies
    saved         \* what an export wrote, and the stored values then
vars == <<pg, sq, mem, family, clock, last, saved>>

(* What callers pass.  A row is inserted live, with no outcome; the rows   *)
(* inserted first hold different slots.                                    *)
ArgsOf(f, op) == IF op \in DOMAIN Args[f] THEN Args[f][op] ELSE {}
Status == Live \cup Finished \cup {"CANCELLED", "MAX_RECOVERY"}
Fresh(s) == /\ DOMAIN s = DOMAIN NewStatus(None, None, None, None, None, None)
            /\ s.status \in Live /\ s.completed = None
Optional == Int \cup {None}
ASSUME StartAssumption ==
    \A f \in Family :
      /\ IsFiniteSet(DOMAIN StartRows[f])
      /\ \A i \in DOMAIN StartRows[f] :
           /\ Fresh(StartRows[f][i])
           /\ Holders([wf |-> StartRows[f]], StartRows[f][i].queue, StartRows[f][i].dedup)
                \subseteq {i}
ASSUME ArgsAssumption ==
    \A f \in Family :
      /\ \A a \in ArgsOf(f, "insert") \cup ArgsOf(f, "child") : Fresh(a[2])
      /\ \A a \in ArgsOf(f, "set_status") : a[2] \in Status
      /\ \A a \in ArgsOf(f, "collect") : a[1] \in Optional /\ a[2] \in Optional

(* One operation on the three stores, and what was asked of it.            *)
ServeWith(op, arg, p, s, m) ==
    /\ clock < MaxClock[family]
    /\ clock' = clock + 1
    /\ pg' = p.db /\ sq' = s.db /\ mem' = m.db
    /\ last' = [op |-> op, arg |-> arg, replies |-> <<p.reply, s.reply, m.reply>>]
    /\ UNCHANGED <<family, saved>>
Serve(op, p, s, m) == ServeWith(op, None, p, s, m)
now == clock + 1
Has(i) == i \in DOMAIN pg.wf
Arg(op) == ArgsOf(family, op)
SlotFor(db, i, queue) == Holders(db, queue, db.wf[i].dedup) \subseteq {i}

Init ==
    /\ family \in Family
    /\ LET rows == StartRows[family]
       IN  /\ \E ser \in Formats[family] :
                /\ pg = [SqlEmpty(ser) EXCEPT
                           !.wf = [i \in DOMAIN rows |-> PgStored(ser, rows[i])]]
                /\ sq = [SqlEmpty(ser) EXCEPT
                           !.wf = [i \in DOMAIN rows |-> SqStored(ser, rows[i])]]
           /\ mem = [MemEmpty EXCEPT !.wf = rows]
           /\ clock = Cardinality(DOMAIN rows)
    /\ last = [op |-> "none", arg |-> None, replies |-> <<>>]
    /\ saved = None

(* ------------------------------------------------------------- rows *)

(* An id that exists is inserted again only while no other row holds its   *)
(* slot: the backends check the two in different orders.                   *)
InsertWorkflowStatus ==
    \E a \in Arg("insert") :
      LET s == [a[2] EXCEPT !.created = now]
      IN  /\ Has(a[1]) => Holders(pg, s.queue, s.dedup) \subseteq {a[1]}
          /\ Serve("insert", PgInsertWorkflowStatus(pg, a[1], s),
                   SqInsertWorkflowStatus(sq, a[1], s), MemInsertWorkflowStatus(mem, a[1], s))
SetWorkflowStatus ==
    \E a \in Arg("set_status") :
      Serve("set_status", PgSetWorkflowStatus(pg, a[1], a[2], a[3], a[4], now),
            SqSetWorkflowStatus(sq, a[1], a[2], a[3], a[4], now),
            MemSetWorkflowStatus(mem, a[1], a[2], a[3], a[4], now))
DequeueWorkflows ==
    \E a \in Arg("dequeue") :
      Serve("dequeue", PgDequeueWorkflows(pg, a, now), SqDequeueWorkflows(sq, a, now),
            MemDequeueWorkflows(mem, a, now))
TransitionDelayed ==
    \E a \in Arg("transition") :
      Serve("transition", PgTransitionDelayed(pg, now), SqTransitionDelayed(sq, now),
            MemTransitionDelayed(mem, now))
CancelWorkflow ==
    \E i \in Arg("cancel") :
      Serve("cancel", PgCancelWorkflow(pg, i, now), SqCancelWorkflow(sq, i, now),
            MemCancelWorkflows(mem, {i}, FALSE, now))
CancelWorkflows ==
    \E a \in Arg("cancel_many") :
      Serve("cancel", PgCancelWorkflows(pg, a[1], a[2], now),
            SqCancelWorkflows(sq, a[1], a[2], now), MemCancelWorkflows(mem, a[1], a[2], now))
ResumeWorkflow ==
    \E i \in Arg("resume") :
      Serve("resume", PgResumeWorkflow(pg, i), SqResumeWorkflow(sq, i),
            MemResumeWorkflow(mem, i))
ResumeWorkflows ==
    \E ids \in Arg("resume_many") :
      Serve("resume", PgResumeWorkflows(pg, ids), SqResumeWorkflows(sq, ids),
            MemResumeWorkflows(mem, ids))
EnqueueExisting ==
    \E a \in Arg("enqueue") :
      /\ Has(a[1])
      /\ SlotFor(pg, a[1], a[2]) /\ SlotFor(sq, a[1], a[2]) /\ SlotFor(mem, a[1], a[2])
      /\ Serve("enqueue", PgEnqueueExisting(pg, a[1], a[2]), SqEnqueueExisting(sq, a[1], a[2]),
               MemEnqueueExisting(mem, a[1], a[2]))
ClaimForRecovery ==
    \E a \in Arg("claim") :
      Serve("claim", PgClaimForRecovery(pg, a), SqClaimForRecovery(sq, a),
            MemClaimForRecovery(mem, a))
SetWorkflowDelay ==
    \E a \in Arg("delay") :
      Serve("delay", PgSetWorkflowDelay(pg, a[1], now + a[2]),
            SqSetWorkflowDelay(sq, a[1], now + a[2]), MemSetWorkflowDelay(mem, a[1], now + a[2]))
SetWorkflowAttributes ==
    \E a \in Arg("attributes") :
      Serve("attributes", PgSetWorkflowAttributes(pg, a[1], a[2]),
            SqSetWorkflowAttributes(sq, a[1], a[2]), MemSetWorkflowAttributes(mem, a[1], a[2]))
(* Deletion with children starts from rows that exist: the in-memory one   *)
(* also follows the id of a row that is gone.                              *)
DeleteWorkflows ==
    \E a \in Arg("delete") :
      /\ \A i \in a[1] : Has(i)
      /\ Serve("delete", PgDeleteWorkflows(pg, a[1], a[2]), SqDeleteWorkflows(sq, a[1], a[2]),
               MemDeleteWorkflows(mem, a[1], a[2]))
(* A row released after it was cancelled keeps its completed_at.  The SQL  *)
(* stores count it among the finished rows a rows_threshold keeps, memory  *)
(* does not, so collections by number are compared while there is none.    *)
NoneReopened(db) ==
    \A i \in DOMAIN db.wf : db.wf[i].completed # None => IsTerminal(db.wf[i].status)
GarbageCollect ==
    \E a \in Arg("collect") :
      LET cutoff == IF a[1] = None THEN None ELSE now - a[1]
      IN  /\ a[2] # None => NoneReopened(pg) /\ NoneReopened(sq) /\ NoneReopened(mem)
          /\ ServeWith("collect", <<cutoff, a[2]>>, PgGarbageCollect(pg, cutoff, a[2]),
                       SqGarbageCollect(sq, cutoff, a[2]), MemGarbageCollect(mem, cutoff, a[2]))
ForkWorkflow ==
    \E p \in Arg("fork") :
      /\ ~Has(p.new)
      /\ Serve("fork", PgForkWorkflow(pg, p, now), SqForkWorkflow(sq, p, now),
               MemForkWorkflow(mem, p, now))

(* ------------------------------------------------------------ steps *)

RecordStepResult ==
    \E a \in Arg("record") :
      /\ Has(a[1])
      /\ Serve("record", PgRecordStepResult(pg, a[1], a[2], a[3], a[4], a[5], a[6], a[7], now),
               SqRecordStepResult(sq, a[1], a[2], a[3], a[4], a[5], a[6], a[7], now),
               MemRecordStepResult(mem, a[1], a[2], a[3], a[4], a[5], a[6], a[7], now))
InsertChildWorkflow ==
    \E a \in Arg("child") :
      LET child == [a[2] EXCEPT !.created = now, !.parent = a[3]]
      IN  /\ Has(a[3])
          /\ Serve("child", PgInsertChildWorkflow(pg, a[1], child, a[3], a[4], a[5]),
                   SqInsertChildWorkflow(sq, a[1], child, a[3], a[4], a[5]),
                   MemInsertChildWorkflow(mem, a[1], child, a[3], a[4], a[5]))
RecordChildWorkflow ==
    \E a \in Arg("record_child") :
      /\ Has(a[1])
      /\ Serve("record_child", PgRecordChildWorkflow(pg, a[1], a[2], a[3], a[4]),
               SqRecordChildWorkflow(sq, a[1], a[2], a[3], a[4]),
               MemRecordChildWorkflow(mem, a[1], a[2], a[3], a[4]))
RecordPatch ==
    \E a \in Arg("patch") :
      /\ Has(a[1])
      /\ Serve("patch", PgRecordPatch(pg, a[1], a[2], a[3]), SqRecordPatch(sq, a[1], a[2], a[3]),
               MemRecordPatch(mem, a[1], a[2], a[3]))

(* ------------------------------------- messages, events, streams *)

InsertNotification ==
    \E m \in Arg("notify") :
      Serve("notify", PgInsertNotification(pg, m, now), SqInsertNotification(sq, m, now),
            MemInsertNotification(mem, m, now))
InsertNotifications ==
    \E msgs \in Arg("notify_many") :
      Serve("notify", PgInsertNotificationsOn(pg, msgs, now),
            SqInsertNotificationsOn(sq, msgs, now), MemPushNotifications(mem, msgs, now))
SendFromWorkflow ==
    \E a \in Arg("send") :
      /\ Has(a[1])
      /\ Serve("send", PgSendFromWorkflow(pg, a[1], a[2], a[3], a[4], now),
               SqSendFromWorkflow(sq, a[1], a[2], a[3], a[4], now),
               MemSendFromWorkflow(mem, a[1], a[2], a[3], a[4], now))
ConsumeNotification ==
    \E a \in Arg("recv") :
      /\ Has(a[1])
      /\ Serve("recv", PgConsumeNotification(pg, a[1], a[2], a[3], a[4], now),
               SqConsumeNotification(sq, a[1], a[2], a[3], a[4], now),
               MemConsumeNotification(mem, a[1], a[2], a[3], a[4], now))
(* Not after an export: the in-memory store keeps the events of a deleted  *)
(* workflow, and they would mix with the imported ones.                    *)
UpsertEvent ==
    \E a \in Arg("event") :
      /\ Has(a[1]) /\ saved = None
      /\ Serve("event", PgUpsertEvent(pg, a[1], a[2], a[3]), SqUpsertEvent(sq, a[1], a[2], a[3]),
               MemUpsertEvent(mem, a[1], a[2], a[3]))
WriteStream ==
    \E a \in Arg("stream") :
      /\ Has(a[1])
      /\ Serve("stream", PgWriteStream(pg, a[1], a[2], a[3]), SqWriteStream(sq, a[1], a[2], a[3]),
               MemWriteStream(mem, a[1], a[2], a[3]))
WriteStreamFromWorkflow ==
    \E a \in Arg("stream_step") :
      /\ Has(a[1])
      /\ Serve("stream", PgWriteStreamFromWorkflow(pg, a[1], a[2], a[3], a[4], a[5], now),
               SqWriteStreamFromWorkflow(sq, a[1], a[2], a[3], a[4], a[5], now),
               MemWriteStreamFromWorkflow(mem, a[1], a[2], a[3], a[4], a[5], now))

(* ------------------------------------- schedules, versions, queues *)

CreateSchedule ==
    \E a \in Arg("create_schedule") :
      Serve("schedule", PgCreateSchedule(pg, a[1], a[2]), SqCreateSchedule(sq, a[1], a[2]),
            MemCreateSchedule(mem, a[1], a[2]))
UpdateSchedule ==
    \E a \in Arg("update_schedule") :
      Serve("schedule", PgUpdateSchedule(pg, a[1], a[2]), SqUpdateSchedule(sq, a[1], a[2]),
            MemUpdateSchedule(mem, a[1], a[2]))
ApplySchedules ==
    \E new \in Arg("apply_schedules") :
      Serve("schedule", PgApplySchedules(pg, new), SqApplySchedules(sq, new),
            MemApplySchedules(mem, new))
SetScheduleStatus ==
    \E a \in Arg("schedule_status") :
      Serve("schedule", PgSetScheduleStatus(pg, a[1], a[2]), SqSetScheduleStatus(sq, a[1], a[2]),
            MemSetScheduleStatus(mem, a[1], a[2]))
SetScheduleLastFired ==
    \E name \in Arg("fired") :
      Serve("schedule", PgSetScheduleLastFired(pg, name, now),
            SqSetScheduleLastFired(sq, name, now), MemSetScheduleLastFired(mem, name, now))
DeleteSchedule ==
    \E name \in Arg("delete_schedule") :
      Serve("schedule", PgDeleteSchedule(pg, name), SqDeleteSchedule(sq, name),
            MemDeleteSchedule(mem, name))
CreateApplicationVersion ==
    \E v \in Arg("version") :
      Serve("version", PgCreateApplicationVersion(pg, v, now),
            SqCreateApplicationVersion(sq, v, now), MemCreateApplicationVersion(mem, v, now))
SetLatestApplicationVersion ==
    \E v \in Arg("latest") :
      Serve("version", PgSetLatestApplicationVersion(pg, v, now),
            SqSetLatestApplicationVersion(sq, v, now),
            MemSetLatestApplicationVersion(mem, v, now))
UpsertQueue ==
    \E a \in Arg("queue") :
      Serve("queue", PgUpsertQueue(pg, a[1], a[2], a[3]), SqUpsertQueue(sq, a[1], a[2], a[3]),
            MemUpsertQueue(mem, a[1], a[2], a[3]))

(* ------------------------------------------- what a caller can read *)

(* A fork's copied steps keep their times in memory only, and a queue its  *)
(* two unstored settings.                                                  *)
StepView(steps, row) ==
    [n \in DOMAIN steps |->
       IF row # None /\ row.forked # None
       THEN [steps[n] EXCEPT !.started = None, !.completed = None] ELSE steps[n]]
QueueView(queues) == [n \in DOMAIN queues |-> Restrict(queues[n], QueueColumns)]
(* Memory takes every step for a success, so step counts are compared per  *)
(* name only.                                                              *)
StepsPerName(counts) ==
    [n \in {g[1] : g \in DOMAIN counts} |->
       MapThenSumSet(LAMBDA g : counts[g], {g \in DOMAIN counts : g[1] = n})]
(* Recorded outcomes: child and patch rows have none.                      *)
Outcomes(steps) == {n \in DOMAIN steps : steps[n].output # None \/ steps[n].error # None}

PgView(db) ==
    LET steps(i) == PgGetWorkflowSteps(db, i)
        rows == DOMAIN db.wf
    IN  [rows |-> [i \in Ids |-> PgGetWorkflowStatus(db, i)],
         steps |-> [i \in rows |-> StepView(steps(i), PgGetWorkflowStatus(db, i))],
         results |-> [i \in rows |-> [n \in Outcomes(steps(i)) |-> PgGetStepResult(db, i, n)]],
         children |-> [i \in rows |-> [n \in DOMAIN steps(i) |->
                         <<PgGetStepName(db, i, n), PgCheckChildWorkflow(db, i, n)>>]],
         holders |-> {<<r.queue, r.dedup, PgGetDeduplicatedWorkflow(db, r.queue, r.dedup)>> :
                        r \in Range(db.wf)},
         parts |-> {<<r.queue, PgQueuePartitions(db, r.queue)>> : r \in Range(db.wf)},
         lists |-> [f \in Filters |-> PgListWorkflows(db, f)],
         counts |-> <<PgWorkflowAggregates(db), StepsPerName(PgStepAggregates(db))>>,
         mail |-> [i \in rows |-> Range(PgListWorkflowNotifications(db, i))],
         events |-> [i \in rows |-> <<PgListWorkflowEvents(db, i),
                       [k \in Keys |-> PgGetEventValue(db, i, k)]>>],
         streams |-> [i \in rows |-> <<PgListWorkflowStreams(db, i),
                       [k \in Keys |-> <<PgReadStream(db, i, k, 0), PgReadStream(db, i, k, 1)>>]>>],
         sched |-> <<PgListSchedules(db, {}, {}), PgListSchedules(db, {"ACTIVE"}, {})>>,
         versions |-> <<PgListApplicationVersions(db), PgGetLatestApplicationVersion(db)>>,
         queues |-> QueueView(PgListQueues(db))]
SqView(db) ==
    LET steps(i) == SqGetWorkflowSteps(db, i)
        rows == DOMAIN db.wf
    IN  [rows |-> [i \in Ids |-> SqGetWorkflowStatus(db, i)],
         steps |-> [i \in rows |-> StepView(steps(i), SqGetWorkflowStatus(db, i))],
         results |-> [i \in rows |-> [n \in Outcomes(steps(i)) |-> SqGetStepResult(db, i, n)]],
         children |-> [i \in rows |-> [n \in DOMAIN steps(i) |->
                         <<SqGetStepName(db, i, n), SqCheckChildWorkflow(db, i, n)>>]],
         holders |-> {<<r.queue, r.dedup, SqGetDeduplicatedWorkflow(db, r.queue, r.dedup)>> :
                        r \in Range(db.wf)},
         parts |-> {<<r.queue, SqQueuePartitions(db, r.queue)>> : r \in Range(db.wf)},
         lists |-> [f \in Filters |-> SqListWorkflows(db, f)],
         counts |-> <<SqWorkflowAggregates(db), StepsPerName(SqStepAggregates(db))>>,
         mail |-> [i \in rows |-> Range(SqListWorkflowNotifications(db, i))],
         events |-> [i \in rows |-> <<SqListWorkflowEvents(db, i),
                       [k \in Keys |-> SqGetEventValue(db, i, k)]>>],
         streams |-> [i \in rows |-> <<SqListWorkflowStreams(db, i),
                       [k \in Keys |-> <<SqReadStream(db, i, k, 0), SqReadStream(db, i, k, 1)>>]>>],
         sched |-> <<SqListSchedules(db, {}, {}), SqListSchedules(db, {"ACTIVE"}, {})>>,
         versions |-> <<SqListApplicationVersions(db), SqGetLatestApplicationVersion(db)>>,
         queues |-> QueueView(SqListQueues(db))]
MemView(db) ==
    LET steps(i) == MemGetWorkflowSteps(db, i)
        rows == DOMAIN db.wf
    IN  [rows |-> [i \in Ids |-> MemGetWorkflowStatus(db, i)],
         steps |-> [i \in rows |-> StepView(steps(i), MemGetWorkflowStatus(db, i))],
         results |-> [i \in rows |-> [n \in Outcomes(steps(i)) |-> MemGetStepResult(db, i, n)]],
         children |-> [i \in rows |-> [n \in DOMAIN steps(i) |->
                         <<MemGetStepName(db, i, n), MemCheckChildWorkflow(db, i, n)>>]],
         holders |-> {<<r.queue, r.dedup, MemGetDeduplicatedWorkflow(db, r.queue, r.dedup)>> :
                        r \in Range(db.wf)},
         parts |-> {<<r.queue, MemQueuePartitions(db, r.queue)>> : r \in Range(db.wf)},
         lists |-> [f \in Filters |-> MemListWorkflows(db, f)],
         counts |-> <<MemWorkflowAggregates(db), StepsPerName(MemStepAggregates(db))>>,
         mail |-> [i \in rows |-> Range(MemListWorkflowNotifications(db, i))],
         events |-> [i \in rows |-> <<MemListWorkflowEvents(db, i),
                       [k \in Keys |-> MemGetEventValue(db, i, k)]>>],
         streams |-> [i \in rows |-> <<MemListWorkflowStreams(db, i),
                       [k \in Keys |-> <<MemReadStream(db, i, k, 0), MemReadStream(db, i, k, 1)>>]>>],
         sched |-> <<MemListSchedules(db, {}, {}), MemListSchedules(db, {"ACTIVE"}, {})>>,
         versions |-> <<MemListApplicationVersions(db), MemGetLatestApplicationVersion(db)>>,
         queues |-> QueueView(MemListQueues(db))]

(* ------------------------------------------------ export and import *)

(* What an import brings back of a workflow: everything but its            *)
(* attributes, its rate-limit mark and its mail, which no dump holds and a *)
(* delete takes along.  Events and streams come back without their format, *)
(* so under the portable serializer they are not compared.                 *)
Kept(v, ids, ser) ==
    [rows |-> [i \in ids |-> [v.rows[i] EXCEPT !.attrs = None, !.limited = FALSE]],
     steps |-> [i \in ids |-> v.steps[i]],
     results |-> [i \in ids |-> v.results[i]],
     values |-> IF ser = "DBOS_JSON" THEN [i \in ids |-> <<v.events[i], v.streams[i]>>]
                ELSE None]

ExportWorkflow ==
    \E a \in Arg("export") :
      LET dumps == <<PgExportWorkflow(pg, a[1], a[2]), SqExportWorkflow(sq, a[1], a[2]),
                     MemExportWorkflow(mem, a[1], a[2])>>
          ids == DOMAIN dumps[1][2]
      IN  /\ saved = None /\ \A n \in 1..3 : dumps[n][1] = "Ok"
          /\ clock < MaxClock[family] /\ clock' = clock + 1
          /\ saved' = [dumps |-> [n \in 1..3 |-> dumps[n][2]],
                       kept |-> <<Kept(PgView(pg), ids, pg.ser), Kept(SqView(sq), ids, sq.ser),
                                  Kept(MemView(mem), ids, pg.ser)>>]
          /\ last' = [op |-> "export", arg |-> None,
                      replies |-> [n \in 1..3 |-> <<dumps[n][1], DOMAIN dumps[n][2]>>]]
          /\ UNCHANGED <<pg, sq, mem, family>>
(* The SQL stores may each read what the other one wrote.  A slot that a   *)
(* row of the dump holds is free: the in-memory import does not look.      *)
SlotsFree(db, dump) ==
    \A i \in DOMAIN dump : Holders(db, dump[i].row.queue, dump[i].row.dedup) \subseteq {i}
ImportWorkflow ==
    \E swap \in Arg("import") :
      /\ saved # None
      /\ LET d == saved.dumps
         IN  /\ SlotsFree(mem, d[3])
             /\ Serve("import", PgImportWorkflow(pg, IF swap THEN d[2] ELSE d[1]),
                      SqImportWorkflow(sq, IF swap THEN d[1] ELSE d[2]),
                      MemImportWorkflow(mem, d[3]))

Next ==
    \/ InsertWorkflowStatus \/ SetWorkflowStatus \/ DequeueWorkflows \/ TransitionDelayed
    \/ CancelWorkflow \/ CancelWorkflows \/ ResumeWorkflow \/ ResumeWorkflows
    \/ EnqueueExisting \/ ClaimForRecovery \/ SetWorkflowDelay \/ SetWorkflowAttributes
    \/ DeleteWorkflows \/ GarbageCollect \/ ForkWorkflow
    \/ RecordStepResult \/ InsertChildWorkflow \/ RecordChildWorkflow \/ RecordPatch
    \/ InsertNotification \/ InsertNotifications \/ SendFromWorkflow \/ ConsumeNotification
    \/ UpsertEvent \/ WriteStream \/ WriteStreamFromWorkflow
    \/ CreateSchedule \/ UpdateSchedule \/ ApplySchedules \/ SetScheduleStatus
    \/ SetScheduleLastFired \/ DeleteSchedule \/ CreateApplicationVersion
    \/ SetLatestApplicationVersion \/ UpsertQueue \/ ExportWorkflow \/ ImportWorkflow
Spec == Init /\ [][Next]_vars

(* -------------------------------------------------------- properties *)

(* The three backends are one StateProvider: after any sequence of         *)
(* operations they have given the same reply, and every read shows the     *)
(* same.  Events and streams imported under the portable serializer are    *)
(* left out: the SQL stores cannot decode them.                            *)
BackendsAgree ==
    LET readable(v) == IF saved # None /\ pg.ser # "DBOS_JSON"
                       THEN Restrict(v, DOMAIN v \ {"events", "streams"}) ELSE v
    IN  last.op # "none" =>
          /\ \A n \in DOMAIN last.replies : last.replies[n] = last.replies[1]
          /\ readable(PgView(pg)) = readable(SqView(sq))
          /\ readable(PgView(pg)) = readable(MemView(mem))

(* A queue's deduplication slot has one holder, and it has not ended: each *)
(* way a row ends, parking after too many recoveries included, frees it.   *)
SlotsSound(db) ==
    \A i \in DOMAIN db.wf :
      Holders(db, db.wf[i].queue, db.wf[i].dedup) # {} =>
        /\ Holders(db, db.wf[i].queue, db.wf[i].dedup) = {i}
        /\ db.wf[i].status \in Live
SlotFreedWhenDone == SlotsSound(pg) /\ SlotsSound(sq) /\ SlotsSound(mem)

(* Garbage collection removes no workflow that is still to run, removes    *)
(* what finished before all it keeps, and with a rows_threshold keeps that *)
(* many finished ones, or all that the absolute cutoff spares.             *)
Done(db) == {i \in DOMAIN db.wf : IsTerminal(db.wf[i].status) /\ db.wf[i].completed # None}
Spares(old, new, cutoff, threshold) ==
    LET gone == DOMAIN old.wf \ DOMAIN new.wf
    IN  /\ gone \subseteq Done(old)
        /\ \A i \in gone, j \in Done(new) : old.wf[i].completed < new.wf[j].completed
        /\ threshold # None =>
             \/ Cardinality(Done(new)) >= threshold
             \/ \A i \in gone : cutoff # None /\ old.wf[i].completed < cutoff
CollectsOldest ==
    [][last'.op = "collect" => /\ Spares(pg, pg', last'.arg[1], last'.arg[2])
                               /\ Spares(sq, sq', last'.arg[1], last'.arg[2])
                               /\ Spares(mem, mem', last'.arg[1], last'.arg[2])]_vars

(* A stream's entries are only ever added at its end, and none after its   *)
(* close marker.                                                           *)
Extends(before, after, closed) == IsPrefix(before, after) /\ (closed => after = before)
StreamsAppendOnly ==
    [][last'.op = "stream" =>
         \A i \in DOMAIN pg.wf, k \in Keys :
           /\ Extends(StreamOf(pg, i, k), StreamOf(pg', i, k), PgReadStream(pg, i, k, 0)[3])
           /\ Extends(StreamOf(sq, i, k), StreamOf(sq', i, k), SqReadStream(sq, i, k, 0)[3])
           /\ Extends(MemEntries(mem, i, k), MemEntries(mem', i, k),
                      MemReadStream(mem, i, k, 0)[3])]_vars

(* A workflow that is exported, deleted and imported, in the same store or *)
(* from one SQL store to the other, comes back as it was.                  *)
RoundTrip ==
    [][last'.op = "import" /\ last'.replies[1][1] = "Ok" =>
         LET ids == DOMAIN saved.dumps[1]
         IN  saved.kept = <<Kept(PgView(pg'), ids, pg.ser), Kept(SqView(sq'), ids, sq.ser),
                            Kept(MemView(mem'), ids, pg.ser)>>]_vars
=============================================================================
