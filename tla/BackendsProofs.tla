--------------------------- MODULE BackendsProofs ---------------------------
(* Proofs about the three backends: a deduplication slot has one holder    *)
(* and it is live, and garbage collection spares what it should.           *)
EXTENDS Backends, FiniteSetTheorems, NaturalsInduction, TLAPS

(* ---------------------------------------------------- the invariant *)

(* A row that holds a slot is live.                                        *)
RowOK(r) ==
    /\ {"status", "queue", "dedup", "completed"} \subseteq DOMAIN r
    /\ r.status \in Status
    /\ r.dedup # None => r.status \in Live
    /\ r.completed # None => r.completed \in Int
RowsOK(db) ==
    /\ "wf" \in DOMAIN db
    /\ IsFiniteSet(DOMAIN db.wf)
    /\ \A i \in DOMAIN db.wf : RowOK(db.wf[i])
    /\ SlotsUnique(db)

(* What an export wrote is fit to be imported.                             *)
DumpOK(d) ==
    /\ IsFiniteSet(DOMAIN d)
    /\ \A i \in DOMAIN d : RowOK(d[i].row)
    /\ \A i, j \in DOMAIN d :
         /\ d[i].row.queue # None /\ d[i].row.queue = d[j].row.queue
         /\ d[i].row.dedup # None /\ d[i].row.dedup = d[j].row.dedup
         => i = j

Inv ==
    /\ family \in Family /\ clock \in Nat
    /\ RowsOK(pg) /\ RowsOK(sq) /\ RowsOK(mem)
    /\ saved # None => \A n \in 1..3 : DumpOK(saved.dumps[n])

(* ------------------------------------------ what an operation may do *)

(* new is db after an operation that adds no row but id, keeps each row's  *)
(* slot or frees it, and gives id a slot that no other row holds.          *)
Writes(db, new, id) ==
    /\ DOMAIN new = DOMAIN db
    /\ DOMAIN db.wf \subseteq DOMAIN new.wf /\ DOMAIN new.wf \subseteq DOMAIN db.wf \cup {id}
    /\ \A i \in DOMAIN new.wf :
         /\ RowOK(new.wf[i])
         /\ \/ new.wf[i].dedup = None
            \/ /\ i \in DOMAIN db.wf
               /\ new.wf[i].queue = db.wf[i].queue /\ new.wf[i].dedup = db.wf[i].dedup
            \/ i = id /\ Holders(db, new.wf[i].queue, new.wf[i].dedup) \subseteq {i}
Same(db, new) == DOMAIN new = DOMAIN db /\ new.wf = db.wf
(* The rest of the state after an operation other than a collection.       *)
Other == clock' = clock + 1 /\ UNCHANGED <<family, saved>> /\ last'.op # "collect"

(* The prover of a leaf that names none.                                   *)
USE Zenon

LEMMA ServeOther ==
    ASSUME NEW op, op # "collect", NEW arg, NEW p, NEW s, NEW m,
           ServeWith(op, arg, p, s, m)
    PROVE  Other
  BY SMT DEF ServeWith, Other

LEMMA SameWrites ==
    ASSUME NEW db, RowsOK(db), NEW new, Same(db, new), NEW id
    PROVE  Writes(db, new, id)
  BY DEF RowsOK, Same, Writes

LEMMA WritesSound ==
    ASSUME NEW db, RowsOK(db), NEW new, NEW id, Writes(db, new, id)
    PROVE  RowsOK(new)
  <1> IsFiniteSet(DOMAIN new.wf)
    <2> IsFiniteSet(DOMAIN db.wf \cup {id})
      BY FS_AddElement DEF RowsOK
    <2> DOMAIN new.wf \in SUBSET (DOMAIN db.wf \cup {id}) BY DEF Writes
    <2> QED BY FS_Subset
  <1> SlotsUnique(new)
    <2> SUFFICES ASSUME NEW i \in DOMAIN new.wf, NEW j \in DOMAIN new.wf, i # j,
                        new.wf[i].queue = new.wf[j].queue, new.wf[i].dedup = new.wf[j].dedup,
                        new.wf[i].queue # None, new.wf[i].dedup # None
                 PROVE  FALSE
      BY SMT DEF SlotsUnique, Holders
    <2> QED BY SMT DEF Writes, RowsOK, SlotsUnique, Holders
  <1> QED BY DEF Writes, RowsOK

LEMMA FreshRow ==
    ASSUME NEW s, Fresh(s)
    PROVE  RowOK(s) /\ {"input", "version", "attrs", "parent", "created"} \subseteq DOMAIN s
  BY SMT DEF Fresh, RowOK, NewStatus, Status, IsTerminal

(* ------------------------------- steps, messages, registry: no row *)

LEMMA PgSendFromWorkflowSame ==
    ASSUME NEW db, RowsOK(db), NEW id, NEW seq, NEW name, NEW msgs, NEW t,
           NEW new, new = PgSendFromWorkflow(db, id, seq, name, msgs, t).db
    PROVE  Same(db, new)
  BY DEF
     PgSendFromWorkflow, PgCheckpointNullOn, PgCheckpointOn, PgRecordedOutputOn,
     PgInsertNotificationsOn, Ok, Err, RowsOK, Same
LEMMA PgConsumeNotificationSame ==
    ASSUME NEW db, RowsOK(db), NEW id, NEW topic, NEW seq, NEW name, NEW t,
           NEW new, new = PgConsumeNotification(db, id, topic, seq, name, t).db
    PROVE  Same(db, new)
  BY DEF
     PgConsumeNotification, PgCheckpointNullOn, PgCheckpointOn, PgRecordedOutputOn, Ok, Err,
     RowsOK, Same
LEMMA PgWriteStreamFromWorkflowSame ==
    ASSUME NEW db, RowsOK(db), NEW id, NEW seq, NEW name, NEW key, NEW v, NEW t,
           NEW new, new = PgWriteStreamFromWorkflow(db, id, seq, name, key, v, t).db
    PROVE  Same(db, new)
  BY DEF
     PgWriteStreamFromWorkflow, PgWriteStreamOn, PgCheckpointNullOn, PgCheckpointOn,
     PgRecordedOutputOn, Ok, Err, RowsOK, Same
LEMMA SqSendFromWorkflowSame ==
    ASSUME NEW db, RowsOK(db), NEW id, NEW seq, NEW name, NEW msgs, NEW t,
           NEW new, new = SqSendFromWorkflow(db, id, seq, name, msgs, t).db
    PROVE  Same(db, new)
  BY DEF
     SqSendFromWorkflow, SqCheckpointNullOn, SqCheckpointOn, SqRecordedOutputOn,
     SqInsertNotificationsOn, Ok, Err, RowsOK, Same
LEMMA SqConsumeNotificationSame ==
    ASSUME NEW db, RowsOK(db), NEW id, NEW topic, NEW seq, NEW name, NEW t,
           NEW new, new = SqConsumeNotification(db, id, topic, seq, name, t).db
    PROVE  Same(db, new)
  BY DEF
     SqConsumeNotification, SqCheckpointNullOn, SqCheckpointOn, SqRecordedOutputOn, Ok, Err,
     RowsOK, Same
LEMMA SqWriteStreamFromWorkflowSame ==
    ASSUME NEW db, RowsOK(db), NEW id, NEW seq, NEW name, NEW key, NEW v, NEW t,
           NEW new, new = SqWriteStreamFromWorkflow(db, id, seq, name, key, v, t).db
    PROVE  Same(db, new)
  BY DEF
     SqWriteStreamFromWorkflow, SqWriteStreamOn, SqCheckpointNullOn, SqCheckpointOn,
     SqRecordedOutputOn, Ok, Err, RowsOK, Same
LEMMA MemWriteStreamFromWorkflowSame ==
    ASSUME NEW db, RowsOK(db), NEW id, NEW seq, NEW name, NEW key, NEW v, NEW t,
           NEW new, new = MemWriteStreamFromWorkflow(db, id, seq, name, key, v, t).db
    PROVE  Same(db, new)
  BY DEF
     MemWriteStreamFromWorkflow, MemWriteStream, MemCheckpoint, Ok, Err, RowsOK, Same
LEMMA MemSendFromWorkflowSame ==
    ASSUME NEW db, RowsOK(db), NEW id, NEW seq, NEW name, NEW msgs, NEW t,
           NEW new, new = MemSendFromWorkflow(db, id, seq, name, msgs, t).db
    PROVE  Same(db, new)
  BY DEF
     MemSendFromWorkflow, MemCheckpoint, MemPushNotifications, Ok, Err, RowsOK, Same
LEMMA MemConsumeNotificationSame ==
    ASSUME NEW db, RowsOK(db), NEW id, NEW topic, NEW seq, NEW name, NEW t,
           NEW new, new = MemConsumeNotification(db, id, topic, seq, name, t).db
    PROVE  Same(db, new)
  BY DEF
     MemConsumeNotification, MemCheckpoint, MemServe, Ok, Err, RowsOK, Same

(* Operations that leave the rows alone.                                   *)
Quiet == Same(pg, pg') /\ Same(sq, sq') /\ Same(mem, mem')
QuietStep ==
    \/ RecordChildWorkflow \/ RecordPatch \/ InsertNotification
    \/ InsertNotifications \/ SendFromWorkflow \/ ConsumeNotification
    \/ UpsertEvent \/ WriteStream \/ WriteStreamFromWorkflow \/ CreateSchedule
    \/ UpdateSchedule \/ ApplySchedules \/ SetScheduleStatus
    \/ SetScheduleLastFired \/ DeleteSchedule \/ CreateApplicationVersion
    \/ SetLatestApplicationVersion \/ UpsertQueue
LEMMA QuietSteps ==
    ASSUME Inv, QuietStep
    PROVE  Quiet /\ Other
  <1> Other
    BY ServeOther DEF QuietStep, Serve,
           RecordChildWorkflow, RecordPatch, InsertNotification, InsertNotifications,
           SendFromWorkflow, ConsumeNotification, UpsertEvent, WriteStream,
           WriteStreamFromWorkflow, CreateSchedule, UpdateSchedule, ApplySchedules,
           SetScheduleStatus, SetScheduleLastFired, DeleteSchedule, CreateApplicationVersion,
           SetLatestApplicationVersion, UpsertQueue
  <1> CASE RecordChildWorkflow
    BY DEF
       RecordChildWorkflow, Serve, ServeWith, PgRecordChildWorkflow, SqRecordChildWorkflow,
       MemRecordChildWorkflow, Ok, Err, Inv, RowsOK, Same, Quiet
  <1> CASE RecordPatch
    BY DEF
       RecordPatch, Serve, ServeWith, PgRecordPatch, SqRecordPatch, MemRecordPatch, Ok, Err,
       Inv, RowsOK, Same, Quiet
  <1> CASE InsertNotification
    BY DEF
       InsertNotification, Serve, ServeWith, PgInsertNotification, SqInsertNotification,
       MemInsertNotification, Ok, Err, Inv, RowsOK, Same, Quiet
  <1> CASE InsertNotifications
    BY DEF
       InsertNotifications, Serve, ServeWith, PgInsertNotificationsOn, SqInsertNotificationsOn,
       MemPushNotifications, Ok, Err, Inv, RowsOK, Same, Quiet
  <1> CASE SendFromWorkflow
    BY PgSendFromWorkflowSame, SqSendFromWorkflowSame, MemSendFromWorkflowSame
       DEF SendFromWorkflow, Serve, ServeWith, Inv, Quiet
  <1> CASE ConsumeNotification
    BY PgConsumeNotificationSame, SqConsumeNotificationSame, MemConsumeNotificationSame
       DEF ConsumeNotification, Serve, ServeWith, Inv, Quiet
  <1> CASE UpsertEvent
    BY DEF
       UpsertEvent, Serve, ServeWith, PgUpsertEvent, SqUpsertEvent, MemUpsertEvent, Ok, Err,
       Inv, RowsOK, Same, Quiet
  <1> CASE WriteStream
    BY DEF
       WriteStream, Serve, ServeWith, PgWriteStream, SqWriteStream, MemWriteStream,
       PgWriteStreamOn, SqWriteStreamOn, Ok, Err, Inv, RowsOK, Same, Quiet
  <1> CASE WriteStreamFromWorkflow
    BY PgWriteStreamFromWorkflowSame, SqWriteStreamFromWorkflowSame,
       MemWriteStreamFromWorkflowSame
       DEF WriteStreamFromWorkflow, Serve, ServeWith, Inv, Quiet
  <1> CASE CreateSchedule
    BY DEF
       CreateSchedule, Serve, ServeWith, PgCreateSchedule, SqCreateSchedule, MemCreateSchedule,
       Ok, Err, Inv, RowsOK, Same, Quiet
  <1> CASE UpdateSchedule
    BY DEF
       UpdateSchedule, Serve, ServeWith, PgUpdateSchedule, SqUpdateSchedule, MemUpdateSchedule,
       Ok, Err, Inv, RowsOK, Same, Quiet
  <1> CASE ApplySchedules
    BY DEF
       ApplySchedules, Serve, ServeWith, PgApplySchedules, SqApplySchedules, MemApplySchedules,
       Ok, Err, Inv, RowsOK, Same, Quiet
  <1> CASE SetScheduleStatus
    BY DEF
       SetScheduleStatus, Serve, ServeWith, PgSetScheduleStatus, SqSetScheduleStatus,
       MemSetScheduleStatus, Ok, Err, Inv, RowsOK, Same, Quiet
  <1> CASE SetScheduleLastFired
    BY DEF
       SetScheduleLastFired, Serve, ServeWith, PgSetScheduleLastFired, SqSetScheduleLastFired,
       MemSetScheduleLastFired, Ok, Err, Inv, RowsOK, Same, Quiet
  <1> CASE DeleteSchedule
    BY DEF
       DeleteSchedule, Serve, ServeWith, PgDeleteSchedule, SqDeleteSchedule, MemDeleteSchedule,
       Ok, Err, Inv, RowsOK, Same, Quiet
  <1> CASE CreateApplicationVersion
    BY DEF
       CreateApplicationVersion, Serve, ServeWith, PgCreateApplicationVersion,
       SqCreateApplicationVersion, MemCreateApplicationVersion, Ok, Err, Inv, RowsOK, Same,
       Quiet
  <1> CASE SetLatestApplicationVersion
    BY DEF
       SetLatestApplicationVersion, Serve, ServeWith, PgSetLatestApplicationVersion,
       SqSetLatestApplicationVersion, MemSetLatestApplicationVersion, Ok, Err, Inv, RowsOK,
       Same, Quiet
  <1> CASE UpsertQueue
    BY DEF
       UpsertQueue, Serve, ServeWith, PgUpsertQueue, SqUpsertQueue, MemUpsertQueue, Ok, Err,
       Inv, RowsOK, Same, Quiet
  <1> QED BY DEF QuietStep

(* -------------------------------------- operations that update rows *)

LEMMA PgSetWorkflowStatusWrites ==
    ASSUME NEW db, RowsOK(db), NEW id, NEW status \in Status, NEW output, NEW error,
           NEW t \in Int,
           NEW new, new = PgSetWorkflowStatus(db, id, status, output, error, t).db
    PROVE  Writes(db, new, id)
  <1> DOMAIN new = DOMAIN db /\ DOMAIN new.wf = DOMAIN db.wf
    BY DEF PgSetWorkflowStatus, UpdateRows, Ok, Err, RowsOK
  <1> ASSUME NEW i \in DOMAIN db.wf
      PROVE  /\ RowOK(new.wf[i])
             /\ \/ new.wf[i].dedup = None
                \/ new.wf[i].queue = db.wf[i].queue /\ new.wf[i].dedup = db.wf[i].dedup
    BY DEF
       PgSetWorkflowStatus, UpdateRows, Ok, Err, RowsOK, RowOK, IsTerminal, Status,
       Live, Finished
  <1> QED BY DEF Writes
LEMMA SqSetWorkflowStatusWrites ==
    ASSUME NEW db, RowsOK(db), NEW id, NEW status \in Status, NEW output, NEW error,
           NEW t \in Int,
           NEW new, new = SqSetWorkflowStatus(db, id, status, output, error, t).db
    PROVE  Writes(db, new, id)
  <1> DOMAIN new = DOMAIN db /\ DOMAIN new.wf = DOMAIN db.wf
    BY DEF SqSetWorkflowStatus, UpdateRows, Ok, Err, RowsOK
  <1> ASSUME NEW i \in DOMAIN db.wf
      PROVE  /\ RowOK(new.wf[i])
             /\ \/ new.wf[i].dedup = None
                \/ new.wf[i].queue = db.wf[i].queue /\ new.wf[i].dedup = db.wf[i].dedup
    BY DEF
       SqSetWorkflowStatus, UpdateRows, Ok, Err, RowsOK, RowOK, IsTerminal, Status,
       Live, Finished
  <1> QED BY DEF Writes
LEMMA MemSetWorkflowStatusWrites ==
    ASSUME NEW db, RowsOK(db), NEW id, NEW status \in Status, NEW output, NEW error,
           NEW t \in Int,
           NEW new, new = MemSetWorkflowStatus(db, id, status, output, error, t).db
    PROVE  Writes(db, new, id)
  <1> DOMAIN new = DOMAIN db /\ DOMAIN new.wf = DOMAIN db.wf
    BY DEF MemSetWorkflowStatus, UpdateRows, Ok, Err, RowsOK
  <1> ASSUME NEW i \in DOMAIN db.wf
      PROVE  /\ RowOK(new.wf[i])
             /\ \/ new.wf[i].dedup = None
                \/ new.wf[i].queue = db.wf[i].queue /\ new.wf[i].dedup = db.wf[i].dedup
    BY DEF
       MemSetWorkflowStatus, UpdateRows, Ok, Err, RowsOK, RowOK, IsTerminal, Status,
       Live, Finished
  <1> QED BY DEF Writes

LEMMA PgDequeueWorkflowsWrites ==
    ASSUME NEW db, RowsOK(db), NEW req, NEW t \in Int,
           NEW new, new = PgDequeueWorkflows(db, req, t).db
    PROVE  Writes(db, new, None)
  <1> DOMAIN new = DOMAIN db /\ DOMAIN new.wf = DOMAIN db.wf
    BY DEF PgDequeueWorkflows, UpdateRows, Ok, Err, RowsOK
  <1> ASSUME NEW i \in DOMAIN db.wf
      PROVE  /\ RowOK(new.wf[i])
             /\ \/ new.wf[i].dedup = None
                \/ new.wf[i].queue = db.wf[i].queue /\ new.wf[i].dedup = db.wf[i].dedup
    BY DEF
       PgDequeueWorkflows, UpdateRows, Ok, Err, RowsOK, RowOK, IsTerminal, Status, Live,
       Finished
  <1> QED BY DEF Writes
LEMMA SqDequeueWorkflowsWrites ==
    ASSUME NEW db, RowsOK(db), NEW req, NEW t \in Int,
           NEW new, new = SqDequeueWorkflows(db, req, t).db
    PROVE  Writes(db, new, None)
  <1> DOMAIN new = DOMAIN db /\ DOMAIN new.wf = DOMAIN db.wf
    BY DEF SqDequeueWorkflows, UpdateRows, Ok, Err, RowsOK
  <1> ASSUME NEW i \in DOMAIN db.wf
      PROVE  /\ RowOK(new.wf[i])
             /\ \/ new.wf[i].dedup = None
                \/ new.wf[i].queue = db.wf[i].queue /\ new.wf[i].dedup = db.wf[i].dedup
    BY DEF
       SqDequeueWorkflows, UpdateRows, Ok, Err, RowsOK, RowOK, IsTerminal, Status, Live,
       Finished
  <1> QED BY DEF Writes
LEMMA MemDequeueWorkflowsWrites ==
    ASSUME NEW db, RowsOK(db), NEW req, NEW t \in Int,
           NEW new, new = MemDequeueWorkflows(db, req, t).db
    PROVE  Writes(db, new, None)
  <1> DOMAIN new = DOMAIN db /\ DOMAIN new.wf = DOMAIN db.wf
    BY DEF MemDequeueWorkflows, UpdateRows, Ok, Err, RowsOK
  <1> ASSUME NEW i \in DOMAIN db.wf
      PROVE  /\ RowOK(new.wf[i])
             /\ \/ new.wf[i].dedup = None
                \/ new.wf[i].queue = db.wf[i].queue /\ new.wf[i].dedup = db.wf[i].dedup
    BY DEF
       MemDequeueWorkflows, UpdateRows, Ok, Err, RowsOK, RowOK, IsTerminal, Status, Live,
       Finished
  <1> QED BY DEF Writes

LEMMA TransitionDelayedWrites ==
    ASSUME NEW db, RowsOK(db), NEW t \in Int
    PROVE  /\ Writes(db, PgTransitionDelayed(db, t).db, None)
           /\ Writes(db, SqTransitionDelayed(db, t).db, None)
           /\ Writes(db, MemTransitionDelayed(db, t).db, None)
  BY DEF
     PgTransitionDelayed, SqTransitionDelayed, MemTransitionDelayed, UpdateRows, Ok, Err,
     RowsOK, RowOK, IsTerminal, Status, Live, Finished, Writes

LEMMA CancelWorkflowWrites ==
    ASSUME NEW db, RowsOK(db), NEW id, NEW t \in Int
    PROVE  /\ Writes(db, PgCancelWorkflow(db, id, t).db, id)
           /\ Writes(db, SqCancelWorkflow(db, id, t).db, id)
  BY DEF
     PgCancelWorkflow, SqCancelWorkflow, PgCancelled, SqCancelled, UpdateRows, Ok, Err, RowsOK,
     RowOK, IsTerminal, Status, Live, Finished, Writes

LEMMA CancelWorkflowsWrites ==
    ASSUME NEW db, RowsOK(db), NEW ids, NEW children, NEW t \in Int
    PROVE  /\ Writes(db, PgCancelWorkflows(db, ids, children, t).db, None)
           /\ Writes(db, SqCancelWorkflows(db, ids, children, t).db, None)
           /\ Writes(db, MemCancelWorkflows(db, ids, children, t).db, None)
  <1>k1. Writes(db, PgCancelWorkflows(db, ids, children, t).db, None)
    BY DEF
       PgCancelWorkflows, PgCancelled, UpdateRows, Ok, Err, RowsOK, RowOK, IsTerminal, Status,
       Live, Finished, Writes
  <1>k2. Writes(db, SqCancelWorkflows(db, ids, children, t).db, None)
    BY DEF
       SqCancelWorkflows, SqCancelled, UpdateRows, Ok, Err, RowsOK, RowOK, IsTerminal, Status,
       Live, Finished, Writes
  <1>k3. Writes(db, MemCancelWorkflows(db, ids, children, t).db, None)
    BY DEF
       MemCancelWorkflows, UpdateRows, Ok, Err, RowsOK, RowOK, IsTerminal, Status, Live,
       Finished, Writes
  <1> QED BY <1>k1, <1>k2, <1>k3

LEMMA ResumeWorkflowWrites ==
    ASSUME NEW db, RowsOK(db), NEW id
    PROVE  /\ Writes(db, PgResumeWorkflow(db, id).db, id)
           /\ Writes(db, SqResumeWorkflow(db, id).db, id)
           /\ Writes(db, MemResumeWorkflow(db, id).db, id)
  <1>k1. Writes(db, PgResumeWorkflow(db, id).db, id)
    BY DEF
       PgResumeWorkflow, PgResumed, UpdateRows, Ok, Err, RowsOK, RowOK, IsTerminal, Status,
       Live, Finished, Writes
  <1>k2. Writes(db, SqResumeWorkflow(db, id).db, id)
    BY DEF
       SqResumeWorkflow, SqResumed, UpdateRows, Ok, Err, RowsOK, RowOK, IsTerminal, Status,
       Live, Finished, Writes
  <1>k3. Writes(db, MemResumeWorkflow(db, id).db, id)
    BY DEF
       MemResumeWorkflow, MemResumed, UpdateRows, Ok, Err, RowsOK, RowOK, IsTerminal, Status,
       Live, Finished, Writes
  <1> QED BY <1>k1, <1>k2, <1>k3

LEMMA ResumeWorkflowsWrites ==
    ASSUME NEW db, RowsOK(db), NEW ids
    PROVE  /\ Writes(db, PgResumeWorkflows(db, ids).db, None)
           /\ Writes(db, SqResumeWorkflows(db, ids).db, None)
           /\ Writes(db, MemResumeWorkflows(db, ids).db, None)
  BY DEF
     PgResumeWorkflows, SqResumeWorkflows, MemResumeWorkflows, PgResumed, SqResumed,
     MemResumed, UpdateRows, Ok, Err, RowsOK, RowOK, IsTerminal, Status, Live, Finished,
     Writes

LEMMA PgClaimForRecoveryWrites ==
    ASSUME NEW db, RowsOK(db), NEW req,
           NEW new, new = PgClaimForRecovery(db, req).db
    PROVE  Writes(db, new, None)
  <1> DOMAIN new = DOMAIN db /\ DOMAIN new.wf = DOMAIN db.wf
    BY DEF PgClaimForRecovery, UpdateRows, Ok, Err, RowsOK
  <1> ASSUME NEW i \in DOMAIN db.wf
      PROVE  /\ RowOK(new.wf[i])
             /\ \/ new.wf[i].dedup = None
                \/ new.wf[i].queue = db.wf[i].queue /\ new.wf[i].dedup = db.wf[i].dedup
    BY DEF
       PgClaimForRecovery, UpdateRows, Ok, Err, RowsOK, RowOK, IsTerminal, Status, Live,
       Finished
  <1> QED BY DEF Writes
LEMMA SqClaimForRecoveryWrites ==
    ASSUME NEW db, RowsOK(db), NEW req,
           NEW new, new = SqClaimForRecovery(db, req).db
    PROVE  Writes(db, new, None)
  <1> DOMAIN new = DOMAIN db /\ DOMAIN new.wf = DOMAIN db.wf
    BY DEF SqClaimForRecovery, UpdateRows, Ok, Err, RowsOK
  <1> ASSUME NEW i \in DOMAIN db.wf
      PROVE  /\ RowOK(new.wf[i])
             /\ \/ new.wf[i].dedup = None
                \/ new.wf[i].queue = db.wf[i].queue /\ new.wf[i].dedup = db.wf[i].dedup
    BY DEF
       SqClaimForRecovery, UpdateRows, Ok, Err, RowsOK, RowOK, IsTerminal, Status, Live,
       Finished
  <1> QED BY DEF Writes
LEMMA MemClaimForRecoveryWrites ==
    ASSUME NEW db, RowsOK(db), NEW req,
           NEW new, new = MemClaimForRecovery(db, req).db
    PROVE  Writes(db, new, None)
  <1> DOMAIN new = DOMAIN db /\ DOMAIN new.wf = DOMAIN db.wf
    BY DEF MemClaimForRecovery, UpdateRows, Ok, Err, RowsOK
  <1> ASSUME NEW i \in DOMAIN db.wf
      PROVE  /\ RowOK(new.wf[i])
             /\ \/ new.wf[i].dedup = None
                \/ new.wf[i].queue = db.wf[i].queue /\ new.wf[i].dedup = db.wf[i].dedup
    BY DEF
       MemClaimForRecovery, UpdateRows, Ok, Err, RowsOK, RowOK, IsTerminal, Status, Live,
       Finished
  <1> QED BY DEF Writes

LEMMA SetWorkflowDelayWrites ==
    ASSUME NEW db, RowsOK(db), NEW id, NEW until
    PROVE  /\ Writes(db, PgSetWorkflowDelay(db, id, until).db, id)
           /\ Writes(db, SqSetWorkflowDelay(db, id, until).db, id)
           /\ Writes(db, MemSetWorkflowDelay(db, id, until).db, id)
  BY DEF
     PgSetWorkflowDelay, SqSetWorkflowDelay, MemSetWorkflowDelay, UpdateRows, Ok, Err, RowsOK,
     RowOK, IsTerminal, Status, Live, Finished, Writes

LEMMA SetWorkflowAttributesWrites ==
    ASSUME NEW db, RowsOK(db), NEW id, NEW attrs
    PROVE  /\ Writes(db, PgSetWorkflowAttributes(db, id, attrs).db, id)
           /\ Writes(db, SqSetWorkflowAttributes(db, id, attrs).db, id)
           /\ Writes(db, MemSetWorkflowAttributes(db, id, attrs).db, id)
  <1>k1. Writes(db, PgSetWorkflowAttributes(db, id, attrs).db, id)
    BY DEF
       PgSetWorkflowAttributes, UpdateRows, Ok, Err, RowsOK, RowOK, IsTerminal, Status, Live,
       Finished, Writes
  <1>k2. Writes(db, SqSetWorkflowAttributes(db, id, attrs).db, id)
    BY DEF
       SqSetWorkflowAttributes, UpdateRows, Ok, Err, RowsOK, RowOK, IsTerminal, Status, Live,
       Finished, Writes
  <1>k3. Writes(db, MemSetWorkflowAttributes(db, id, attrs).db, id)
    BY DEF
       MemSetWorkflowAttributes, UpdateRows, Ok, Err, RowsOK, RowOK, IsTerminal, Status, Live,
       Finished, Writes
  <1> QED BY <1>k1, <1>k2, <1>k3

LEMMA PgRecordStepResultWrites ==
    ASSUME NEW db, RowsOK(db), NEW id, NEW seq, NEW name, NEW value, NEW error,
           NEW started, NEW executor, NEW t,
           NEW new, new =
             PgRecordStepResult(db, id, seq, name, value, error, started, executor, t).db
    PROVE  Writes(db, new, id)
  <1> DOMAIN new = DOMAIN db /\ DOMAIN new.wf = DOMAIN db.wf
    BY DEF PgRecordStepResult, UpdateRows, Ok, Err, RowsOK
  <1> ASSUME NEW i \in DOMAIN db.wf
      PROVE  /\ RowOK(new.wf[i])
             /\ \/ new.wf[i].dedup = None
                \/ new.wf[i].queue = db.wf[i].queue /\ new.wf[i].dedup = db.wf[i].dedup
    BY DEF
       PgRecordStepResult, UpdateRows, Ok, Err, RowsOK, RowOK, IsTerminal, Status, Live,
       Finished
  <1> QED BY DEF Writes
LEMMA SqRecordStepResultWrites ==
    ASSUME NEW db, RowsOK(db), NEW id, NEW seq, NEW name, NEW value, NEW error,
           NEW started, NEW executor, NEW t,
           NEW new, new =
             SqRecordStepResult(db, id, seq, name, value, error, started, executor, t).db
    PROVE  Writes(db, new, id)
  <1> DOMAIN new = DOMAIN db /\ DOMAIN new.wf = DOMAIN db.wf
    BY DEF SqRecordStepResult, UpdateRows, Ok, Err, RowsOK
  <1> ASSUME NEW i \in DOMAIN db.wf
      PROVE  /\ RowOK(new.wf[i])
             /\ \/ new.wf[i].dedup = None
                \/ new.wf[i].queue = db.wf[i].queue /\ new.wf[i].dedup = db.wf[i].dedup
    BY DEF
       SqRecordStepResult, UpdateRows, Ok, Err, RowsOK, RowOK, IsTerminal, Status, Live,
       Finished
  <1> QED BY DEF Writes
LEMMA MemRecordStepResultWrites ==
    ASSUME NEW db, RowsOK(db), NEW id, NEW seq, NEW name, NEW value, NEW error,
           NEW started, NEW executor, NEW t,
           NEW new, new =
             MemRecordStepResult(db, id, seq, name, value, error, started, executor, t).db
    PROVE  Writes(db, new, id)
  <1> DOMAIN new = DOMAIN db /\ DOMAIN new.wf = DOMAIN db.wf
    BY DEF MemRecordStepResult, UpdateRows, Ok, Err, RowsOK
  <1> ASSUME NEW i \in DOMAIN db.wf
      PROVE  /\ RowOK(new.wf[i])
             /\ \/ new.wf[i].dedup = None
                \/ new.wf[i].queue = db.wf[i].queue /\ new.wf[i].dedup = db.wf[i].dedup
    BY DEF
       MemRecordStepResult, UpdateRows, Ok, Err, RowsOK, RowOK, IsTerminal, Status, Live,
       Finished
  <1> QED BY DEF Writes

(* ----------------------------------------- operations that add a row *)

LEMMA WritesThenSame ==
    ASSUME NEW db, NEW mid, NEW new, NEW id, Writes(db, mid, id), Same(mid, new)
    PROVE  Writes(db, new, id)
  BY DEF Writes, Same

LEMMA Inserted ==
    ASSUME NEW db, RowsOK(db), NEW id, id \notin DOMAIN db.wf, NEW row, RowOK(row),
           row.dedup = None \/ Holders(db, row.queue, row.dedup) \subseteq {id},
           NEW new, DOMAIN new = DOMAIN db,
           DOMAIN new.wf = DOMAIN db.wf \cup {id}, new.wf[id] = row,
           \A i \in DOMAIN db.wf : new.wf[i] = db.wf[i]
    PROVE  Writes(db, new, id)
  BY DEF Writes, RowsOK

LEMMA PgStoredRow ==
    ASSUME NEW ser, NEW s, Fresh(s)
    PROVE  /\ RowOK(PgStored(ser, s))
           /\ PgStored(ser, s).queue = s.queue /\ PgStored(ser, s).dedup = s.dedup
  BY FreshRow, SMT DEF PgStored, RowOK, Fresh
LEMMA PgInsertOnWrites ==
    ASSUME NEW db, RowsOK(db), NEW id, NEW s, Fresh(s), NEW adopt,
           NEW new, new = PgInsertStatusOn(db, id, s, adopt).db
    PROVE  Writes(db, new, id)
  <1> CASE Same(db, new) BY SameWrites
  <1> CASE ~Same(db, new)
    <2> /\ id \notin DOMAIN db.wf /\ Holders(db, s.queue, s.dedup) = {}
        /\ new = [db EXCEPT !.wf = InsertNew(@, id, PgStored(db.ser, s))]
      BY DEF PgInsertStatusOn, Ok, Err, Same
    <2> PICK row : row = PgStored(db.ser, s) OBVIOUS
    <2> RowOK(row) /\ row.queue = s.queue /\ row.dedup = s.dedup
      BY PgStoredRow
    <2> /\ DOMAIN new = DOMAIN db
        /\ DOMAIN new.wf = DOMAIN db.wf \cup {id} /\ new.wf[id] = row
        /\ \A i \in DOMAIN db.wf : new.wf[i] = db.wf[i]
      BY SMT DEF InsertNew, Overlay, RowsOK
    <2> QED BY Inserted
  <1> QED OBVIOUS
LEMMA PgInsertWorkflowStatusWrites ==
    ASSUME NEW db, RowsOK(db), NEW id, NEW s, Fresh(s)
    PROVE  Writes(db, PgInsertWorkflowStatus(db, id, s).db, id)
  BY PgInsertOnWrites DEF PgInsertWorkflowStatus, Ok
LEMMA PgInsertChildWorkflowWrites ==
    ASSUME NEW db, RowsOK(db), NEW id, NEW child, Fresh(child), NEW parent, NEW seq, NEW adopt,
           NEW new, new = PgInsertChildWorkflow(db, id, child, parent, seq, adopt).db
    PROVE  Writes(db, new, id)
  <1> PICK ins : ins = PgInsertStatusOn(db, id, child, adopt) OBVIOUS
  <1> Writes(db, ins.db, id) BY PgInsertOnWrites
  <1> \/ Same(db, new) \/ new = ins.db
      \/ \E ops : new = [ins.db EXCEPT !.ops = ops]
    BY DEF PgInsertChildWorkflow, Ok, Err, Same
  <1> ASSUME NEW ops, new = [ins.db EXCEPT !.ops = ops] PROVE Same(ins.db, new)
    BY DEF Same, Writes, RowsOK
  <1> QED BY SameWrites, WritesThenSame
LEMMA PgEnqueueExistingWrites ==
    ASSUME NEW db, RowsOK(db), NEW id, NEW queue, SlotFor(db, id, queue),
           NEW new, new = PgEnqueueExisting(db, id, queue).db
    PROVE  Writes(db, new, id)
  <1> DOMAIN new = DOMAIN db /\ DOMAIN new.wf = DOMAIN db.wf
    BY DEF PgEnqueueExisting, UpdateRows, Ok, Err, RowsOK
  <1> ASSUME NEW i \in DOMAIN db.wf
      PROVE  /\ RowOK(new.wf[i])
             /\ new.wf[i].dedup = db.wf[i].dedup
             /\ new.wf[i].queue = db.wf[i].queue \/ (i = id /\ new.wf[i].queue = queue)
    BY DEF PgEnqueueExisting, UpdateRows, Ok, Err, RowsOK, RowOK, IsTerminal,
                 Status, Live, Finished
  <1> QED BY DEF Writes, SlotFor
LEMMA PgForkedRow ==
    ASSUME NEW orig, RowOK(orig), NEW p, NEW t
    PROVE  RowOK(PgForked(orig, p, t)) /\ PgForked(orig, p, t).dedup = None
  BY DEF PgForked, RowOK, Status, Live
LEMMA PgForkWorkflowWrites ==
    ASSUME NEW db, RowsOK(db), NEW p, NEW t,
           NEW new, new = PgForkWorkflow(db, p, t).db
    PROVE  Writes(db, new, p.new)
  <1> CASE Same(db, new) BY SameWrites
  <1> CASE ~Same(db, new)
    <2> p.original \in DOMAIN db.wf /\ p.new \notin DOMAIN db.wf
      BY DEF PgForkWorkflow, Ok, Err, Same
    <2> PICK fork : fork = PgForked(db.wf[p.original], p, t) OBVIOUS
    <2> RowOK(fork) /\ fork.dedup = None
      BY PgForkedRow DEF RowsOK
    <2> DOMAIN new = DOMAIN db
      BY DEF PgForkWorkflow, Ok, Err, RowsOK, Same
    <2>k1. PICK mid : /\ mid = [db.wf EXCEPT ![p.original].wasForked = TRUE]
                      /\ new.wf = InsertNew(mid, p.new, fork)
      BY DEF PgForkWorkflow, Ok, RowsOK
    <2>k2. /\ DOMAIN mid = DOMAIN db.wf
           /\ \A i \in DOMAIN db.wf : \/ mid[i] = db.wf[i]
                                      \/ mid[i] = [db.wf[i] EXCEPT !.wasForked = TRUE]
      BY <2>k1
    <2> /\ DOMAIN new.wf = DOMAIN db.wf \cup {p.new} /\ new.wf[p.new] = fork
        /\ \A i \in DOMAIN db.wf : \/ new.wf[i] = db.wf[i]
                                   \/ new.wf[i] = [db.wf[i] EXCEPT !.wasForked = TRUE]
      BY <2>k1, <2>k2 DEF InsertNew, Overlay
    <2> ASSUME NEW i \in DOMAIN db.wf
        PROVE  /\ RowOK(new.wf[i])
               /\ new.wf[i].queue = db.wf[i].queue /\ new.wf[i].dedup = db.wf[i].dedup
      BY DEF RowsOK, RowOK
    <2> QED BY DEF Writes
  <1> QED OBVIOUS
LEMMA SqStoredRow ==
    ASSUME NEW ser, NEW s, Fresh(s)
    PROVE  /\ RowOK(SqStored(ser, s))
           /\ SqStored(ser, s).queue = s.queue /\ SqStored(ser, s).dedup = s.dedup
  BY FreshRow, SMT DEF SqStored, RowOK, Fresh
LEMMA SqInsertOnWrites ==
    ASSUME NEW db, RowsOK(db), NEW id, NEW s, Fresh(s), NEW adopt,
           NEW new, new = SqInsertStatusOn(db, id, s, adopt).db
    PROVE  Writes(db, new, id)
  <1> CASE Same(db, new) BY SameWrites
  <1> CASE ~Same(db, new)
    <2> /\ id \notin DOMAIN db.wf /\ Holders(db, s.queue, s.dedup) = {}
        /\ new = [db EXCEPT !.wf = InsertNew(@, id, SqStored(db.ser, s))]
      BY DEF SqInsertStatusOn, Ok, Err, Same
    <2> PICK row : row = SqStored(db.ser, s) OBVIOUS
    <2> RowOK(row) /\ row.queue = s.queue /\ row.dedup = s.dedup
      BY SqStoredRow
    <2> /\ DOMAIN new = DOMAIN db
        /\ DOMAIN new.wf = DOMAIN db.wf \cup {id} /\ new.wf[id] = row
        /\ \A i \in DOMAIN db.wf : new.wf[i] = db.wf[i]
      BY SMT DEF InsertNew, Overlay, RowsOK
    <2> QED BY Inserted
  <1> QED OBVIOUS
LEMMA SqInsertWorkflowStatusWrites ==
    ASSUME NEW db, RowsOK(db), NEW id, NEW s, Fresh(s)
    PROVE  Writes(db, SqInsertWorkflowStatus(db, id, s).db, id)
  BY SqInsertOnWrites DEF SqInsertWorkflowStatus, Ok
LEMMA SqInsertChildWorkflowWrites ==
    ASSUME NEW db, RowsOK(db), NEW id, NEW child, Fresh(child), NEW parent, NEW seq, NEW adopt,
           NEW new, new = SqInsertChildWorkflow(db, id, child, parent, seq, adopt).db
    PROVE  Writes(db, new, id)
  <1> PICK ins : ins = SqInsertStatusOn(db, id, child, adopt) OBVIOUS
  <1> Writes(db, ins.db, id) BY SqInsertOnWrites
  <1> \/ Same(db, new) \/ new = ins.db
      \/ \E ops : new = [ins.db EXCEPT !.ops = ops]
    BY DEF SqInsertChildWorkflow, Ok, Err, Same
  <1> ASSUME NEW ops, new = [ins.db EXCEPT !.ops = ops] PROVE Same(ins.db, new)
    BY DEF Same, Writes, RowsOK
  <1> QED BY SameWrites, WritesThenSame
LEMMA SqEnqueueExistingWrites ==
    ASSUME NEW db, RowsOK(db), NEW id, NEW queue, SlotFor(db, id, queue),
           NEW new, new = SqEnqueueExisting(db, id, queue).db
    PROVE  Writes(db, new, id)
  <1> DOMAIN new = DOMAIN db /\ DOMAIN new.wf = DOMAIN db.wf
    BY DEF SqEnqueueExisting, UpdateRows, Ok, Err, RowsOK
  <1> ASSUME NEW i \in DOMAIN db.wf
      PROVE  /\ RowOK(new.wf[i])
             /\ new.wf[i].dedup = db.wf[i].dedup
             /\ new.wf[i].queue = db.wf[i].queue \/ (i = id /\ new.wf[i].queue = queue)
    BY DEF SqEnqueueExisting, UpdateRows, Ok, Err, RowsOK, RowOK, IsTerminal,
                 Status, Live, Finished
  <1> QED BY DEF Writes, SlotFor
LEMMA SqForkedRow ==
    ASSUME NEW orig, RowOK(orig), NEW p, NEW t
    PROVE  RowOK(SqForked(orig, p, t)) /\ SqForked(orig, p, t).dedup = None
  BY DEF SqForked, RowOK, Status, Live
LEMMA SqForkWorkflowWrites ==
    ASSUME NEW db, RowsOK(db), NEW p, NEW t,
           NEW new, new = SqForkWorkflow(db, p, t).db
    PROVE  Writes(db, new, p.new)
  <1> CASE Same(db, new) BY SameWrites
  <1> CASE ~Same(db, new)
    <2> p.original \in DOMAIN db.wf /\ p.new \notin DOMAIN db.wf
      BY DEF SqForkWorkflow, Ok, Err, Same
    <2> PICK fork : fork = SqForked(db.wf[p.original], p, t) OBVIOUS
    <2> RowOK(fork) /\ fork.dedup = None
      BY SqForkedRow DEF RowsOK
    <2> DOMAIN new = DOMAIN db
      BY DEF SqForkWorkflow, Ok, Err, RowsOK, Same
    <2>k1. PICK mid : /\ mid = [db.wf EXCEPT ![p.original].wasForked = TRUE]
                      /\ new.wf = InsertNew(mid, p.new, fork)
      BY DEF SqForkWorkflow, Ok, RowsOK
    <2>k2. /\ DOMAIN mid = DOMAIN db.wf
           /\ \A i \in DOMAIN db.wf : \/ mid[i] = db.wf[i]
                                      \/ mid[i] = [db.wf[i] EXCEPT !.wasForked = TRUE]
      BY <2>k1
    <2> /\ DOMAIN new.wf = DOMAIN db.wf \cup {p.new} /\ new.wf[p.new] = fork
        /\ \A i \in DOMAIN db.wf : \/ new.wf[i] = db.wf[i]
                                   \/ new.wf[i] = [db.wf[i] EXCEPT !.wasForked = TRUE]
      BY <2>k1, <2>k2 DEF InsertNew, Overlay
    <2> ASSUME NEW i \in DOMAIN db.wf
        PROVE  /\ RowOK(new.wf[i])
               /\ new.wf[i].queue = db.wf[i].queue /\ new.wf[i].dedup = db.wf[i].dedup
      BY DEF RowsOK, RowOK
    <2> QED BY DEF Writes
  <1> QED OBVIOUS
LEMMA MemInsertWorkflowStatusWrites ==
    ASSUME NEW db, RowsOK(db), NEW id, NEW s, Fresh(s),
           NEW new, new = MemInsertWorkflowStatus(db, id, s).db
    PROVE  Writes(db, new, id)
  <1> CASE Same(db, new) BY SameWrites
  <1> CASE ~Same(db, new)
    <2> /\ id \notin DOMAIN db.wf /\ Holders(db, s.queue, s.dedup) \subseteq {id}
        /\ new = [db EXCEPT !.wf = Upsert(@, id, s)]
      BY DEF MemInsertWorkflowStatus, Ok, Err, Same
    <2> /\ DOMAIN new = DOMAIN db
        /\ DOMAIN new.wf = DOMAIN db.wf \cup {id} /\ new.wf[id] = s
        /\ \A i \in DOMAIN db.wf : new.wf[i] = db.wf[i]
      BY SMT DEF Upsert, Overlay, RowsOK
    <2> QED BY FreshRow, Inserted
  <1> QED OBVIOUS
LEMMA MemInsertChildWorkflowWrites ==
    ASSUME NEW db, RowsOK(db), NEW id, NEW child, Fresh(child), NEW parent, NEW seq, NEW adopt,
           NEW new, new = MemInsertChildWorkflow(db, id, child, parent, seq, adopt).db
    PROVE  Writes(db, new, id)
  <1> CASE Same(db, new) BY SameWrites
  <1> CASE ~Same(db, new)
    <2> /\ id \notin DOMAIN db.wf /\ Holders(db, child.queue, child.dedup) = {}
        /\ new.wf = Upsert(db.wf, id, child)
      BY DEF MemInsertChildWorkflow, Ok, Err, Same, RowsOK
    <2> DOMAIN new = DOMAIN db
      BY DEF MemInsertChildWorkflow, Ok, Err, RowsOK
    <2> /\ DOMAIN new.wf = DOMAIN db.wf \cup {id} /\ new.wf[id] = child
        /\ \A i \in DOMAIN db.wf : new.wf[i] = db.wf[i]
      BY DEF Upsert, Overlay
    <2> QED BY FreshRow, Inserted
  <1> QED OBVIOUS
LEMMA MemEnqueueExistingWrites ==
    ASSUME NEW db, RowsOK(db), NEW id, NEW queue, SlotFor(db, id, queue),
           NEW new, new = MemEnqueueExisting(db, id, queue).db
    PROVE  Writes(db, new, id)
  <1> DOMAIN new = DOMAIN db /\ DOMAIN new.wf = DOMAIN db.wf
    BY DEF MemEnqueueExisting, UpdateRows, Ok, Err, RowsOK
  <1> ASSUME NEW i \in DOMAIN db.wf
      PROVE  /\ RowOK(new.wf[i])
             /\ new.wf[i].dedup = db.wf[i].dedup
             /\ new.wf[i].queue = db.wf[i].queue \/ (i = id /\ new.wf[i].queue = queue)
    BY DEF MemEnqueueExisting, UpdateRows, Ok, Err, RowsOK, RowOK, IsTerminal,
                 Status, Live, Finished
  <1> QED BY DEF Writes, SlotFor
LEMMA MemForkWorkflowWrites ==
    ASSUME NEW db, RowsOK(db), NEW p, NEW t,
           NEW new, new = MemForkWorkflow(db, p, t).db
    PROVE  Writes(db, new, p.new)
  <1> CASE Same(db, new) BY SameWrites
  <1> CASE ~Same(db, new)
    <2> DOMAIN new = DOMAIN db
      BY DEF MemForkWorkflow, Ok, Err, RowsOK, Same
    <2> PICK fork : RowOK(fork) /\ fork.dedup = None /\ new.wf = Upsert(db.wf, p.new, fork)
      <3> PICK name, input, version, timeout, forked, attrs, queue, part :
             new.wf = Upsert(db.wf, p.new,
                             [NewStatus(name, input, "ENQUEUED", "", version, t)
                                EXCEPT !.timeout = timeout, !.forked = forked, !.attrs = attrs,
                                       !.queue = queue, !.part = part])
        BY DEF MemForkWorkflow, Ok, Err, RowsOK, Same
      <3> PICK fork : fork = [NewStatus(name, input, "ENQUEUED", "", version, t)
                                EXCEPT !.timeout = timeout, !.forked = forked, !.attrs = attrs,
                                       !.queue = queue, !.part = part]
        OBVIOUS
      <3> RowOK(fork) /\ fork.dedup = None
        BY SMT DEF NewStatus, RowOK, Status, Live, IsTerminal
      <3> QED OBVIOUS
    <2> /\ DOMAIN new.wf = DOMAIN db.wf \cup {p.new} /\ new.wf[p.new] = fork
        /\ \A i \in DOMAIN db.wf : i # p.new => new.wf[i] = db.wf[i]
      BY SMT DEF Upsert, Overlay
    <2> QED BY DEF Writes, RowsOK
  <1> QED OBVIOUS
(* ---------------------------------------- the operations on the rows *)

LEMMA FreshStamped ==
    ASSUME NEW s, Fresh(s), NEW t, NEW parent
    PROVE  Fresh([s EXCEPT !.created = t]) /\ Fresh([s EXCEPT !.created = t, !.parent = parent])
  BY SMT DEF Fresh, NewStatus

Writing ==
    (\E p : Writes(pg, pg', p)) /\ (\E s : Writes(sq, sq', s)) /\ (\E m : Writes(mem, mem', m))
WriteStep ==
    \/ InsertWorkflowStatus \/ SetWorkflowStatus \/ DequeueWorkflows \/ TransitionDelayed
    \/ CancelWorkflow \/ CancelWorkflows \/ ResumeWorkflow \/ ResumeWorkflows
    \/ EnqueueExisting \/ ClaimForRecovery \/ SetWorkflowDelay \/ SetWorkflowAttributes
    \/ ForkWorkflow \/ RecordStepResult \/ InsertChildWorkflow
LEMMA WritingSteps ==
    ASSUME Inv, WriteStep
    PROVE  Writing /\ Other
  <1> Other
    BY ServeOther DEF WriteStep, Serve,
           InsertWorkflowStatus, SetWorkflowStatus, DequeueWorkflows, TransitionDelayed,
           CancelWorkflow, CancelWorkflows, ResumeWorkflow, ResumeWorkflows, EnqueueExisting,
           ClaimForRecovery, SetWorkflowDelay, SetWorkflowAttributes, ForkWorkflow,
           RecordStepResult, InsertChildWorkflow
  <1> RowsOK(pg) /\ RowsOK(sq) /\ RowsOK(mem)
    BY DEF Inv
  <1> now \in Int BY SMT DEF Inv, now
  <1> /\ \A a \in Arg("insert") \cup Arg("child") : Fresh(a[2])
      /\ \A a \in Arg("set_status") : a[2] \in Status
    BY ArgsAssumption DEF Inv, Arg
  <1> CASE InsertWorkflowStatus
    BY FreshStamped, PgInsertWorkflowStatusWrites,
       SqInsertWorkflowStatusWrites, MemInsertWorkflowStatusWrites
       DEF Writing, InsertWorkflowStatus, Serve, ServeWith
  <1> CASE SetWorkflowStatus
    BY PgSetWorkflowStatusWrites, SqSetWorkflowStatusWrites,
       MemSetWorkflowStatusWrites
       DEF Writing, SetWorkflowStatus, Serve, ServeWith
  <1> CASE DequeueWorkflows
    BY PgDequeueWorkflowsWrites, SqDequeueWorkflowsWrites,
       MemDequeueWorkflowsWrites
       DEF Writing, DequeueWorkflows, Serve, ServeWith
  <1> CASE TransitionDelayed
    BY TransitionDelayedWrites
       DEF Writing, TransitionDelayed, Serve, ServeWith
  <1> CASE CancelWorkflow
    BY CancelWorkflowWrites, CancelWorkflowsWrites
       DEF Writing, CancelWorkflow, Serve, ServeWith
  <1> CASE CancelWorkflows
    BY CancelWorkflowsWrites
       DEF Writing, CancelWorkflows, Serve, ServeWith
  <1> CASE ResumeWorkflow
    BY ResumeWorkflowWrites
       DEF Writing, ResumeWorkflow, Serve, ServeWith
  <1> CASE ResumeWorkflows
    BY ResumeWorkflowsWrites
       DEF Writing, ResumeWorkflows, Serve, ServeWith
  <1> CASE EnqueueExisting
    BY PgEnqueueExistingWrites, SqEnqueueExistingWrites,
       MemEnqueueExistingWrites
       DEF Writing, EnqueueExisting, Serve, ServeWith
  <1> CASE ClaimForRecovery
    BY PgClaimForRecoveryWrites, SqClaimForRecoveryWrites,
       MemClaimForRecoveryWrites
       DEF Writing, ClaimForRecovery, Serve, ServeWith
  <1> CASE SetWorkflowDelay
    BY SetWorkflowDelayWrites
       DEF Writing, SetWorkflowDelay, Serve, ServeWith
  <1> CASE SetWorkflowAttributes
    BY SetWorkflowAttributesWrites
       DEF Writing, SetWorkflowAttributes, Serve, ServeWith
  <1> CASE ForkWorkflow
    BY PgForkWorkflowWrites, SqForkWorkflowWrites,
       MemForkWorkflowWrites
       DEF Writing, ForkWorkflow, Serve, ServeWith
  <1> CASE RecordStepResult
    BY PgRecordStepResultWrites, SqRecordStepResultWrites,
       MemRecordStepResultWrites
       DEF Writing, RecordStepResult, Serve, ServeWith
  <1> CASE InsertChildWorkflow
    BY FreshStamped, PgInsertChildWorkflowWrites,
       SqInsertChildWorkflowWrites, MemInsertChildWorkflowWrites
       DEF Writing, InsertChildWorkflow, Serve, ServeWith
  <1> QED BY DEF WriteStep

(* -------------------------------------- operations that remove rows *)

Removes(db, new) ==
    /\ DOMAIN new = DOMAIN db /\ DOMAIN new.wf \subseteq DOMAIN db.wf
    /\ \A i \in DOMAIN new.wf : new.wf[i] = db.wf[i]
LEMMA RemovesSound ==
    ASSUME NEW db, RowsOK(db), NEW new, Removes(db, new)
    PROVE  RowsOK(new)
  <1> IsFiniteSet(DOMAIN new.wf) BY FS_Subset DEF RowsOK, Removes
  <1> QED BY DEF RowsOK, Removes, SlotsUnique, Holders
LEMMA DeletesRemove ==
    ASSUME NEW db, RowsOK(db), NEW ids, NEW children
    PROVE  /\ Removes(db, PgDeleteWorkflows(db, ids, children).db)
           /\ Removes(db, SqDeleteWorkflows(db, ids, children).db)
           /\ Removes(db, MemDeleteWorkflows(db, ids, children).db)
  BY DEF PgDeleteWorkflows, SqDeleteWorkflows, MemDeleteWorkflows, DeleteRows, Restrict, Ok,
               RowsOK, Removes

(* The bound of a collection by rows_threshold is a completed_at that as   *)
(* many rows have reached.                                                 *)
LEMMA NthNewestReached ==
    ASSUME NEW times, IsFiniteSet(DOMAIN times), \A j \in DOMAIN times : times[j] \in Int,
           NEW n \in Int, NEW nth, nth = NthNewest(times, n), nth # None
    PROVE  nth \in Int /\ Cardinality(Newer(times, nth)) >= n
  <1> DEFINE reached == {t \in Range(times) : Cardinality(Newer(times, t)) >= n}
             Count(t) == Cardinality(Newer(times, t))
             counts == {Count(t) : t \in reached}
  <1> reached # {} /\ nth = Max(reached) BY DEF NthNewest
  <1> ASSUME NEW t PROVE IsFiniteSet(Newer(times, t)) /\ Count(t) \in Nat
    BY FS_Subset, FS_CardinalityType DEF Newer
  <1>k1. PICK c \in counts : \A d \in counts : ~(<<d, c>> \in OpToRel(<, Nat))
    <2> counts \in SUBSET Nat /\ counts # {} OBVIOUS
    <2> HIDE DEF counts
    <2> QED BY NatLessThanWellFounded, WFMin
  <1>k2. PICK x \in reached : \A y \in reached : ~(Count(y) < Count(x))
    BY <1>k1 DEF OpToRel
  <1>k3. ASSUME NEW y \in reached, y > x PROVE FALSE
    <2> PICK j \in DOMAIN times : times[j] = x BY DEF Range
    <2> x \in Int /\ y \in Int BY DEF Range
    <2> Newer(times, y) \subseteq Newer(times, x) /\ j \in Newer(times, x) \ Newer(times, y)
      BY <1>k3, SMT DEF Newer
    <2> Count(y) <= Count(x) /\ Count(y) # Count(x) BY FS_Subset
    <2> QED BY <1>k2, SMT
  <1> \A y \in reached : y \in Int BY DEF Range
  <1> \A y \in reached : x >= y BY <1>k3, SMT
  <1> nth \in reached BY DEF Max
  <1> QED OBVIOUS
(* A collection removes the finished rows that completed before a bound:   *)
(* the absolute cutoff, or the completed_at of the threshold's row.        *)
Times(db) == [i \in Done(db) |-> db.wf[i].completed]
Bound(db, cutoff, rows) ==
    ResolveGcCutoff(cutoff, IF rows = None THEN None ELSE NthNewest(Times(db), rows))
Expired(db, bound) == {i \in Done(db) : db.wf[i].completed < bound}
LEMMA TimesOK ==
    ASSUME NEW db, RowsOK(db)
    PROVE  /\ DOMAIN Times(db) \subseteq DOMAIN db.wf /\ IsFiniteSet(DOMAIN Times(db))
           /\ \A i \in Done(db) : Times(db)[i] \in Int /\ Times(db)[i] = db.wf[i].completed
  <1> DOMAIN Times(db) \subseteq DOMAIN db.wf BY DEF Times, Done
  <1> IsFiniteSet(DOMAIN Times(db)) BY FS_Subset DEF RowsOK
  <1> QED BY DEF Times, Done, RowsOK, RowOK
LEMMA BoundOK ==
    ASSUME NEW db, RowsOK(db), NEW cutoff \in Optional, NEW rows \in Optional,
           NEW bound, bound = Bound(db, cutoff, rows), bound # None
    PROVE  /\ bound \in Int
           /\ rows # None => \/ cutoff # None /\ bound = cutoff
                             \/ Cardinality(Newer(Times(db), bound)) >= rows
  <1> DOMAIN Times(db) = Done(db) BY DEF Times
  <1> QED BY TimesOK, NthNewestReached DEF Bound, ResolveGcCutoff, Optional
LEMMA ExpiredSpares ==
    ASSUME NEW db, RowsOK(db), NEW cutoff \in Optional, NEW rows \in Optional,
           NEW bound, bound = Bound(db, cutoff, rows), bound # None,
           NEW new, Removes(db, new), DOMAIN db.wf \ DOMAIN new.wf = Expired(db, bound)
    PROVE  Spares(db, new, cutoff, rows)
  <1>k1. /\ bound \in Int
         /\ rows # None => \/ cutoff # None /\ bound = cutoff
                           \/ Cardinality(Newer(Times(db), bound)) >= rows
    BY BoundOK
  <1>k2. \A i \in Done(db) : i \in DOMAIN db.wf /\ db.wf[i].completed \in Int
    BY DEF Done, RowsOK, RowOK
  <1>k3. Done(new) = {i \in Done(db) : db.wf[i].completed >= bound}
    BY <1>k1, <1>k2, SMT DEF Removes, Done, Expired
  <1>k4. Newer(Times(db), bound) = Done(new) BY <1>k3 DEF Newer, Times
  <1> QED BY <1>k1, <1>k2, <1>k3, <1>k4, SMT DEF Spares, Removes, Expired
LEMMA CollectSpares ==
    ASSUME NEW db, RowsOK(db), NEW cutoff \in Optional, NEW rows \in Optional,
           rows # None => NoneReopened(db),
           NEW new, new \in {PgGarbageCollect(db, cutoff, rows).db,
                             SqGarbageCollect(db, cutoff, rows).db,
                             MemGarbageCollect(db, cutoff, rows).db}
    PROVE  Removes(db, new) /\ Spares(db, new, cutoff, rows)
  <1> PICK bound, gone : bound = Bound(db, cutoff, rows) /\ gone = Expired(db, bound) OBVIOUS
  <1>k1. \A i \in DOMAIN db.wf : /\ i \in Done(db) => IsTerminal(db.wf[i].status)
                                 /\ IsTerminal(db.wf[i].status) <=> db.wf[i].status \notin Live
    BY DEF RowsOK, RowOK, Done, IsTerminal, Live, Finished, Status
  <1>k2. rows # None =>
         /\ PgNthNewestCompletedAt(db, rows) = NthNewest(Times(db), rows)
         /\ SqNthNewestCompletedAt(db, rows) = NthNewest(Times(db), rows)
         /\ MemNthNewestCompletedAt(db, rows) = NthNewest(Times(db), rows)
    <2> HAVE rows # None
    <2> {j \in DOMAIN db.wf : db.wf[j].completed # None} = Done(db) BY DEF Done, NoneReopened
    <2> QED BY DEF PgNthNewestCompletedAt, SqNthNewestCompletedAt, MemNthNewestCompletedAt,
                         Times, Done
  <1>k3. bound # None =>
           /\ {i \in DOMAIN db.wf : /\ db.wf[i].completed # None /\ db.wf[i].completed < bound
                                    /\ db.wf[i].status \notin Live} = gone
           /\ {i \in DOMAIN db.wf : /\ IsTerminal(db.wf[i].status) /\ db.wf[i].completed # None
                                    /\ db.wf[i].completed <= bound - 1} = gone
    <2> bound # None => bound \in Int BY BoundOK
    <2> \A i \in Done(db) : db.wf[i].completed \in Int BY DEF Done, RowsOK, RowOK
    <2> QED BY <1>k1, SMT DEF Expired, Done
  <1>k4. \/ new = db
         \/ bound # None /\ new = DeleteRows(db, gone)
         \/ bound # None /\ new = MemDeleteWorkflows(db, gone, FALSE).db
    BY <1>k2, <1>k3
       DEF PgGarbageCollect, SqGarbageCollect, MemGarbageCollect, Bound, Ok, Err
  <1>k5. new = db => Removes(db, new) /\ Spares(db, new, cutoff, rows)
    BY DEF Removes, Spares
  <1>k6. ASSUME new # db PROVE Removes(db, new) /\ DOMAIN db.wf \ DOMAIN new.wf = gone
    <2> gone \subseteq DOMAIN db.wf BY DEF Expired, Done
    <2> DOMAIN new = DOMAIN db /\ new.wf = [i \in DOMAIN db.wf \ gone |-> db.wf[i]]
      BY <1>k4, <1>k6 DEF DeleteRows, MemDeleteWorkflows, Restrict, Ok, RowsOK
    <2> QED BY DEF Removes
  <1> QED BY <1>k4, <1>k5, <1>k6, ExpiredSpares

(* ------------------------------------------------ export and import *)

LEMMA BelowExisting ==
    ASSUME NEW db, NEW ids, ids \subseteq DOMAIN db.wf
    PROVE  Below(db, ids) \subseteq DOMAIN db.wf
  BY DEF Below
(* r has what the invariant says of q.                                     *)
Matches(r, q) ==
    /\ {"status", "queue", "dedup", "completed"} \subseteq DOMAIN r
    /\ r.status = q.status /\ r.queue = q.queue /\ r.dedup = q.dedup /\ r.completed = q.completed
LEMMA MatchesOK ==
    ASSUME NEW r, NEW q, RowOK(q), Matches(r, q)
    PROVE  RowOK(r)
  BY DEF Matches, RowOK
LEMMA DumpOfRows ==
    ASSUME NEW db, RowsOK(db), NEW d, DOMAIN d \subseteq DOMAIN db.wf,
           \A i \in DOMAIN d : Matches(d[i].row, db.wf[i])
    PROVE  DumpOK(d)
  <1> IsFiniteSet(DOMAIN d) BY FS_Subset DEF RowsOK
  <1> \A i \in DOMAIN d : RowOK(d[i].row) BY MatchesOK DEF RowsOK
  <1> ASSUME NEW i \in DOMAIN d, NEW j \in DOMAIN d,
             d[i].row.queue # None, d[i].row.queue = d[j].row.queue,
             d[i].row.dedup # None, d[i].row.dedup = d[j].row.dedup
      PROVE  i = j
    BY SMT DEF RowsOK, SlotsUnique, Holders, Matches
  <1> QED BY DEF DumpOK
LEMMA MarkedOK ==
    ASSUME NEW r, RowOK(r) PROVE RowOK([r EXCEPT !.wasForked = TRUE])
  BY DEF RowOK
LEMMA ImportedOK ==
    ASSUME NEW rows, \A i \in DOMAIN rows : RowOK(rows[i]), IsFiniteSet(DOMAIN rows),
           NEW d, DumpOK(d),
           NEW new, new = PgWithImported(rows, d) \/ new = SqWithImported(rows, d)
    PROVE  IsFiniteSet(DOMAIN new) /\ \A i \in DOMAIN new : RowOK(new[i])
  <1> DOMAIN new = DOMAIN rows \cup DOMAIN d BY DEF PgWithImported, SqWithImported
  <1> IsFiniteSet(DOMAIN rows \cup DOMAIN d) BY FS_Union DEF DumpOK
  <1> ASSUME NEW i \in DOMAIN new PROVE RowOK(new[i])
    <2> \A e : RowOK(e.row) => RowOK(PgImportedRow(e)) BY DEF PgImportedRow, Overlay, RowOK
    <2> \A e : RowOK(e.row) => RowOK(SqImportedRow(e)) BY DEF SqImportedRow, Overlay, RowOK
    <2>k1. PICK r : RowOK(r) /\ new[i] \in {r, [r EXCEPT !.wasForked = TRUE]}
      BY DEF PgWithImported, SqWithImported, DumpOK
    <2> QED BY <2>k1, MarkedOK
  <1> QED OBVIOUS
LEMMA ImportedSlots ==
    ASSUME NEW db, SlotsUnique(db), NEW d, DumpOK(d), SlotsFree(db, d), NEW new,
           \A i \in DOMAIN new.wf :
             \/ i \in DOMAIN db.wf /\ new.wf[i] = db.wf[i]
             \/ i \in DOMAIN d /\ Matches(new.wf[i], d[i].row)
    PROVE  SlotsUnique(new)
  <1> SUFFICES ASSUME NEW i \in DOMAIN new.wf, NEW j \in DOMAIN new.wf,
                      new.wf[i].queue = new.wf[j].queue, new.wf[i].dedup = new.wf[j].dedup,
                      new.wf[i].queue # None, new.wf[i].dedup # None
               PROVE  i = j
    BY SMT DEF SlotsUnique, Holders
  <1> QED BY SMT DEF DumpOK, SlotsFree, SlotsUnique, Holders, Matches
LEMMA PgExportOK ==
    ASSUME NEW db, RowsOK(db), NEW id, NEW children,
           NEW out, out = PgExportWorkflow(db, id, children), out[1] = "Ok"
    PROVE  DumpOK(out[2])
  <1> id \in DOMAIN db.wf BY DEF PgExportWorkflow
  <1>k1. /\ DOMAIN out[2] = IF children THEN Below(db, {id}) ELSE {id}
         /\ \A i \in DOMAIN out[2] : out[2][i].row = PgExportedRow(db.wf[i])
    BY DEF PgExportWorkflow
  <1> DOMAIN out[2] \subseteq DOMAIN db.wf BY <1>k1, BelowExisting
  <1> \A i \in DOMAIN db.wf : Matches(PgExportedRow(db.wf[i]), db.wf[i])
    BY DEF PgExportedRow, Restrict, RowsOK, RowOK, Matches
  <1> QED BY <1>k1, DumpOfRows
LEMMA PgImportSound ==
    ASSUME NEW db, RowsOK(db), NEW d, DumpOK(d),
           NEW new, new = PgImportWorkflow(db, d).db
    PROVE  RowsOK(new)
  <1> CASE new = db BY SMT
  <1> CASE new # db
    <2> SlotsUnique(new) /\ DOMAIN new = DOMAIN db /\ new.wf = PgWithImported(db.wf, d)
      BY DEF PgImportWorkflow, Ok, Err, RowsOK
    <2> QED BY ImportedOK DEF RowsOK
  <1> QED OBVIOUS
LEMMA SqExportOK ==
    ASSUME NEW db, RowsOK(db), NEW id, NEW children,
           NEW out, out = SqExportWorkflow(db, id, children), out[1] = "Ok"
    PROVE  DumpOK(out[2])
  <1> id \in DOMAIN db.wf BY DEF SqExportWorkflow
  <1>k1. /\ DOMAIN out[2] = IF children THEN Below(db, {id}) ELSE {id}
         /\ \A i \in DOMAIN out[2] : out[2][i].row = SqExportedRow(db.wf[i])
    BY DEF SqExportWorkflow
  <1> DOMAIN out[2] \subseteq DOMAIN db.wf BY <1>k1, BelowExisting
  <1> \A i \in DOMAIN db.wf : Matches(SqExportedRow(db.wf[i]), db.wf[i])
    BY DEF SqExportedRow, Restrict, RowsOK, RowOK, Matches
  <1> QED BY <1>k1, DumpOfRows
LEMMA SqImportSound ==
    ASSUME NEW db, RowsOK(db), NEW d, DumpOK(d),
           NEW new, new = SqImportWorkflow(db, d).db
    PROVE  RowsOK(new)
  <1> CASE new = db BY SMT
  <1> CASE new # db
    <2> SlotsUnique(new) /\ DOMAIN new = DOMAIN db /\ new.wf = SqWithImported(db.wf, d)
      BY DEF SqImportWorkflow, Ok, Err, RowsOK
    <2> QED BY ImportedOK DEF RowsOK
  <1> QED OBVIOUS
LEMMA MemExportOK ==
    ASSUME NEW db, RowsOK(db), NEW id, NEW children,
           NEW out, out = MemExportWorkflow(db, id, children), out[1] = "Ok"
    PROVE  DumpOK(out[2])
  <1> id \in DOMAIN db.wf BY DEF MemExportWorkflow
  <1>k1. /\ DOMAIN out[2] = IF children THEN Below(db, {id}) ELSE {id}
         /\ \A i \in DOMAIN out[2] : out[2][i].row = MemExportedRow(db.wf[i])
    BY DEF MemExportWorkflow
  <1> DOMAIN out[2] \subseteq DOMAIN db.wf BY <1>k1, BelowExisting
  <1> \A i \in DOMAIN db.wf : Matches(MemExportedRow(db.wf[i]), db.wf[i])
    BY DEF MemExportedRow, RowsOK, RowOK, Matches
  <1> QED BY <1>k1, DumpOfRows
LEMMA MemImportSound ==
    ASSUME NEW db, RowsOK(db), NEW d, DumpOK(d), SlotsFree(db, d),
           NEW new, new = MemImportWorkflow(db, d).db
    PROVE  RowsOK(new)
  <1> CASE new = db BY SMT
  <1> CASE new # db
    <2>k1. /\ DOMAIN new = DOMAIN db
           /\ new.wf = Overlay([i \in DOMAIN d |-> MemImportedRow(d[i].row)], db.wf)
      BY DEF MemImportWorkflow, Ok, Err, RowsOK
    <2> \A i \in DOMAIN d : Matches(MemImportedRow(d[i].row), d[i].row)
      BY DEF MemImportedRow, DumpOK, RowOK, Matches
    <2> /\ DOMAIN new.wf = DOMAIN db.wf \cup DOMAIN d
        /\ \A i \in DOMAIN new.wf : \/ i \in DOMAIN db.wf /\ new.wf[i] = db.wf[i]
                                    \/ i \in DOMAIN d /\ Matches(new.wf[i], d[i].row)
      BY <2>k1 DEF Overlay
    <2> \A i \in DOMAIN new.wf : RowOK(new.wf[i]) BY MatchesOK DEF RowsOK, DumpOK
    <2> SlotsUnique(new) BY ImportedSlots DEF RowsOK
    <2> IsFiniteSet(DOMAIN db.wf \cup DOMAIN d) BY FS_Union DEF RowsOK, DumpOK
    <2> QED BY <2>k1 DEF RowsOK
  <1> QED OBVIOUS
(* -------------------------------------------------------- the theorems *)

LEMMA StartOK ==
    ASSUME NEW f \in Family, NEW db, "wf" \in DOMAIN db,
           DOMAIN db.wf = DOMAIN StartRows[f],
           \A i \in DOMAIN db.wf : /\ RowOK(db.wf[i])
                                   /\ db.wf[i].queue = StartRows[f][i].queue
                                   /\ db.wf[i].dedup = StartRows[f][i].dedup
    PROVE  RowsOK(db)
  <1> IsFiniteSet(DOMAIN db.wf) BY StartAssumption
  <1> SlotsUnique(db)
    <2> SUFFICES ASSUME NEW i \in DOMAIN db.wf,
                        NEW j \in Holders(db, db.wf[i].queue, db.wf[i].dedup)
                 PROVE  j = i
      BY DEF SlotsUnique
    <2>k1. Holders([wf |-> StartRows[f]], StartRows[f][i].queue, StartRows[f][i].dedup)
             \subseteq {i}
      BY StartAssumption
    <2>k2. j \in Holders([wf |-> StartRows[f]], StartRows[f][i].queue, StartRows[f][i].dedup)
      BY DEF Holders
    <2> QED BY <2>k1, <2>k2
  <1> QED BY DEF RowsOK

LEMMA InvStarts ==
    ASSUME Init PROVE Inv
  <1> PICK rows : rows = StartRows[family] OBVIOUS
  <1> family \in Family /\ \A i \in DOMAIN rows : Fresh(rows[i])
    BY StartAssumption DEF Init
  <1> clock \in Nat BY StartAssumption, FS_CardinalityType DEF Init
  <1>k0. PICK ser :
           /\ pg = [SqlEmpty(ser) EXCEPT !.wf = [i \in DOMAIN rows |-> PgStored(ser, rows[i])]]
           /\ sq = [SqlEmpty(ser) EXCEPT !.wf = [i \in DOMAIN rows |-> SqStored(ser, rows[i])]]
    BY DEF Init
  <1>k1. /\ "wf" \in DOMAIN pg
         /\ pg.wf = [i \in DOMAIN rows |-> PgStored(ser, rows[i])]
         /\ "wf" \in DOMAIN sq
         /\ sq.wf = [i \in DOMAIN rows |-> SqStored(ser, rows[i])]
    BY <1>k0 DEF SqlEmpty
  <1>k2. "wf" \in DOMAIN mem /\ mem.wf = rows
    BY DEF Init, MemEmpty
  <1> RowsOK(pg)
    <2>k1. \A i \in DOMAIN rows : /\ RowOK(PgStored(ser, rows[i]))
                                  /\ PgStored(ser, rows[i]).queue = rows[i].queue
                                  /\ PgStored(ser, rows[i]).dedup = rows[i].dedup
      BY PgStoredRow
    <2> DOMAIN pg.wf = DOMAIN rows /\ \A i \in DOMAIN rows : pg.wf[i] = PgStored(ser, rows[i])
      BY <1>k1
    <2> /\ DOMAIN pg.wf = DOMAIN StartRows[family]
        /\ \A i \in DOMAIN pg.wf : /\ RowOK(pg.wf[i])
                                   /\ pg.wf[i].queue = StartRows[family][i].queue
                                   /\ pg.wf[i].dedup = StartRows[family][i].dedup
      BY <2>k1
    <2> QED BY <1>k1, StartOK
  <1> RowsOK(sq)
    <2>k1. \A i \in DOMAIN rows : /\ RowOK(SqStored(ser, rows[i]))
                                  /\ SqStored(ser, rows[i]).queue = rows[i].queue
                                  /\ SqStored(ser, rows[i]).dedup = rows[i].dedup
      BY SqStoredRow
    <2> DOMAIN sq.wf = DOMAIN rows /\ \A i \in DOMAIN rows : sq.wf[i] = SqStored(ser, rows[i])
      BY <1>k1
    <2> /\ DOMAIN sq.wf = DOMAIN StartRows[family]
        /\ \A i \in DOMAIN sq.wf : /\ RowOK(sq.wf[i])
                                   /\ sq.wf[i].queue = StartRows[family][i].queue
                                   /\ sq.wf[i].dedup = StartRows[family][i].dedup
      BY <2>k1
    <2> QED BY <1>k1, StartOK
  <1> RowsOK(mem) BY <1>k2, FreshRow, StartOK
  <1> QED BY DEF Init, Inv

LEMMA Exports ==
    ASSUME Inv, ExportWorkflow
    PROVE  Inv' /\ last'.op # "collect"
  <1>k1. PICK a, dumps :
           /\ dumps = <<PgExportWorkflow(pg, a[1], a[2]), SqExportWorkflow(sq, a[1], a[2]),
                        MemExportWorkflow(mem, a[1], a[2])>>
           /\ \A n \in 1..3 : dumps[n][1] = "Ok"
           /\ \E k : saved' = [dumps |-> [n \in 1..3 |-> dumps[n][2]], kept |-> k]
    BY DEF ExportWorkflow
  <1> PICK x, y, z : /\ x = PgExportWorkflow(pg, a[1], a[2])
                     /\ y = SqExportWorkflow(sq, a[1], a[2])
                     /\ z = MemExportWorkflow(mem, a[1], a[2]) /\ dumps = <<x, y, z>>
    BY <1>k1
  <1> x[1] = "Ok" /\ y[1] = "Ok" /\ z[1] = "Ok" BY <1>k1, SMT
  <1> saved'.dumps = [n \in 1..3 |-> dumps[n][2]] BY <1>k1, SMT
  <1> DumpOK(x[2]) /\ DumpOK(y[2]) /\ DumpOK(z[2])
    BY PgExportOK, SqExportOK, MemExportOK DEF Inv
  <1> \A n \in 1..3 : DumpOK(saved'.dumps[n]) BY SMT
  <1> clock' \in Nat /\ last'.op # "collect" BY SMT DEF ExportWorkflow, Inv
  <1> UNCHANGED <<pg, sq, mem, family>> BY DEF ExportWorkflow
  <1> QED BY DEF Inv

LEMMA ImportSteps ==
    ASSUME Inv, ImportWorkflow
    PROVE  RowsOK(pg') /\ RowsOK(sq') /\ RowsOK(mem') /\ Other
  <1> Other BY ServeOther DEF ImportWorkflow, Serve
  <1> PICK d, swap : /\ saved # None /\ d = saved.dumps /\ SlotsFree(mem, d[3])
                     /\ pg' = PgImportWorkflow(pg, IF swap THEN d[2] ELSE d[1]).db
                     /\ sq' = SqImportWorkflow(sq, IF swap THEN d[1] ELSE d[2]).db
                     /\ mem' = MemImportWorkflow(mem, d[3]).db
    BY DEF ImportWorkflow, Serve, ServeWith
  <1> DumpOK(d[1]) /\ DumpOK(d[2]) /\ DumpOK(d[3]) BY SMT DEF Inv
  <1> QED BY PgImportSound, SqImportSound, MemImportSound DEF Inv

(* Every operation keeps the invariant, and what a collection removes is   *)
(* what it should.                                                         *)
Collects ==
    last'.op = "collect" => /\ Spares(pg, pg', last'.arg[1], last'.arg[2])
                            /\ Spares(sq, sq', last'.arg[1], last'.arg[2])
                            /\ Spares(mem, mem', last'.arg[1], last'.arg[2])
LEMMA CollectionSteps ==
    ASSUME Inv, GarbageCollect
    PROVE  RowsOK(pg') /\ RowsOK(sq') /\ RowsOK(mem') /\ Collects
  <1> PICK a, cutoff :
        /\ a \in Arg("collect") /\ cutoff = (IF a[1] = None THEN None ELSE now - a[1])
        /\ a[2] # None => NoneReopened(pg) /\ NoneReopened(sq) /\ NoneReopened(mem)
        /\ ServeWith("collect", <<cutoff, a[2]>>, PgGarbageCollect(pg, cutoff, a[2]),
                     SqGarbageCollect(sq, cutoff, a[2]), MemGarbageCollect(mem, cutoff, a[2]))
    BY DEF GarbageCollect
  <1> a[1] \in Optional /\ a[2] \in Optional BY ArgsAssumption DEF Inv, Arg
  <1> cutoff \in Optional BY SMT DEF Inv, Optional, now
  <1> last'.arg[1] = cutoff /\ last'.arg[2] = a[2] BY SMT DEF ServeWith
  <1> /\ Removes(pg, pg') /\ Spares(pg, pg', cutoff, a[2])
      /\ Removes(sq, sq') /\ Spares(sq, sq', cutoff, a[2])
      /\ Removes(mem, mem') /\ Spares(mem, mem', cutoff, a[2])
    BY CollectSpares DEF Inv, ServeWith
  <1> QED BY RemovesSound DEF Inv, Collects

LEMMA InvStep ==
    ASSUME Inv, [Next]_vars
    PROVE  Inv' /\ (Collects \/ UNCHANGED vars)
  <1> RowsOK(pg) /\ RowsOK(sq) /\ RowsOK(mem) BY DEF Inv
  <1> DEFINE Kept3 == RowsOK(pg') /\ RowsOK(sq') /\ RowsOK(mem')
  <1> CASE UNCHANGED vars BY DEF vars, Inv
  <1> CASE Next /\ ~ExportWorkflow
    <2> Kept3 /\ Collects /\ clock' = clock + 1 /\ UNCHANGED <<family, saved>>
      <3> CASE QuietStep
        BY QuietSteps, SameWrites, WritesSound DEF Quiet, Other, Collects
      <3> CASE WriteStep
        BY WritingSteps, WritesSound DEF Writing, Other, Collects
      <3> CASE DeleteWorkflows
        BY DeletesRemove, RemovesSound, ServeOther
           DEF DeleteWorkflows, Serve, ServeWith, Other, Collects
      <3> CASE ImportWorkflow
        BY ImportSteps DEF Other, Collects
      <3> CASE GarbageCollect
        BY CollectionSteps DEF GarbageCollect, ServeWith
      <3> \/ QuietStep \/ WriteStep \/ DeleteWorkflows \/ ImportWorkflow \/ GarbageCollect
        BY DEF Next, QuietStep, WriteStep
      <3> QED OBVIOUS
    <2> clock' \in Nat BY SMT DEF Inv
    <2> QED BY DEF Inv
  <1> CASE ExportWorkflow BY Exports DEF Collects
  <1> QED OBVIOUS
(* A queue's deduplication slot has one holder, and it has not ended, in   *)
(* each of the three backends, for any families, rows, arguments and any   *)
(* number of operations.                                                   *)
THEOREM SlotsStaySound == Spec => []SlotFreedWhenDone
  <1>k1. Init => Inv BY InvStarts
  <1>k2. Inv /\ [Next]_vars => Inv' BY InvStep
  <1>k3. Inv => SlotFreedWhenDone
    <2> ASSUME NEW db, RowsOK(db) PROVE SlotsSound(db)
      BY SMT DEF RowsOK, RowOK, SlotsUnique, SlotsSound, Holders
    <2> QED BY DEF Inv, SlotFreedWhenDone
  <1> QED BY <1>k1, <1>k2, <1>k3, PTL DEF Spec

(* Garbage collection removes no workflow that is still to run, removes    *)
(* what finished before all it keeps, and honours rows_threshold, in each  *)
(* of the three backends.                                                  *)
THEOREM CollectionSpares == Spec => CollectsOldest
  <1>k1. Init => Inv BY InvStarts
  <1>k2. Inv /\ [Next]_vars => Inv' BY InvStep
  <1>k3. Inv /\ [Next]_vars => [Collects]_vars BY InvStep
  <1> QED BY <1>k1, <1>k2, <1>k3, PTL DEF Spec, CollectsOldest, Collects
=============================================================================
