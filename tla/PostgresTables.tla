--------------------------- MODULE PostgresTables ---------------------------
(* PostgresProvider, each operation as one committed transaction.  What    *)
(* concurrent transactions see of each other is in the modules of the      *)
(* components that run them concurrently.                                  *)
EXTENDS SqlTables

(* ------------------------------------------------- workflow_status rows *)

(* The columns an insert lists; the others take their defaults.            *)
PgStored(ser, s) ==
    [f \in DOMAIN s \cup {"fmt", "wasForked"} |->
       CASE f = "input" -> Encode(ser, s.input)
         [] f = "version" -> AppVersionOpt(s.version)
         [] f = "fmt" -> ser
         [] f \in {"wasForked", "limited"} -> FALSE
         [] f = "attempts" -> 0
         [] f \in {"output", "error", "started", "completed", "forked"} -> None
         [] OTHER -> s[f]]
PgRowToStatus(r) ==
    [f \in DOMAIN r \ {"fmt", "wasForked"} |->
       CASE f = "input" -> OrDefault(OkOr(DecodeOpt(r.fmt, r.input), None), "null")
         [] f = "output" -> OkOr(DecodeOpt(r.fmt, r.output), None)
         [] f \in {"version", "executor"} -> OrDefault(r[f], "")
         [] OTHER -> r[f]]

(* The row with the id, or none when only the slot conflicts.              *)
PgInsertStatusOn(db, id, s, adopt) ==
    IF id \in DOMAIN db.wf THEN Ok(db, <<id, FALSE>>)
    ELSE IF Holders(db, s.queue, s.dedup) # {}
    THEN IF adopt THEN Ok(db, <<None, FALSE>>) ELSE Err(db, "QueueDeduplicated")
    ELSE Ok([db EXCEPT !.wf = InsertNew(@, id, PgStored(db.ser, s))], <<id, TRUE>>)

PgGetWorkflowStatus(db, id) ==
    IF id \in DOMAIN db.wf THEN PgRowToStatus(db.wf[id]) ELSE None
PgInsertWorkflowStatus(db, id, s) ==
    LET ins == PgInsertStatusOn(db, id, s, FALSE)
    IN  IF ins.reply[1] = "Err" THEN ins
        ELSE Ok(ins.db, <<PgGetWorkflowStatus(ins.db, id), ins.reply[2][2]>>)
PgGetDeduplicatedWorkflow(db, queue, dedup) == Holders(db, queue, dedup)

PgSetWorkflowStatus(db, id, status, output, error, now) ==
    LET guard(r) == CASE status \in {"SUCCESS", "ERROR", "MAX_RECOVERY"} -> r.status = "PENDING"
                      [] status = "CANCELLED" ->
                           r.status \notin {"SUCCESS", "ERROR", "CANCELLED"}
                      [] OTHER -> TRUE
        text == IF output = None THEN None ELSE Encode(db.ser, output)
        hit == {i \in {id} \cap DOMAIN db.wf : guard(db.wf[i])}
    IN  Ok(UpdateRows(db, hit, LAMBDA r :
              [r EXCEPT !.status = status, !.output = OrDefault(text, @),
                        !.error = OrDefault(error, @),
                        !.completed = IF IsTerminal(status) THEN now ELSE @,
                        !.dedup = IF IsTerminal(status) THEN None ELSE @]),
           hit # {})

PgDequeueWorkflows(db, req, now) ==
    LET rows == {i \in DOMAIN db.wf : /\ db.wf[i].queue = req.queue
                                      /\ req.part = None \/ db.wf[i].part = req.part}
        recent == {i \in rows : /\ db.wf[i].limited
                                /\ db.wf[i].status \notin {"ENQUEUED", "DELAYED"}
                                /\ db.wf[i].started # None
                                /\ db.wf[i].started > now - req.period}
        pending == {i \in rows : db.wf[i].status = "PENDING"}
        newest == {v \in DOMAIN db.versions :
                     \A u \in DOMAIN db.versions : db.versions[u] <= db.versions[v]}
        isLatest == newest = {} \/ req.version \in newest
        ready == {i \in rows : /\ db.wf[i].status = "ENQUEUED"
                               /\ \/ db.wf[i].version = req.version
                                  \/ isLatest /\ db.wf[i].version = None}
        ids == FirstOf(db.wf, ready, Room(req, recent, pending))
    IN  Ok(UpdateRows(db, {i \in ready : i \in Range(ids)}, LAMBDA r :
              [r EXCEPT !.status = "PENDING", !.executor = req.executor,
                        !.version = AppVersionOpt(req.version), !.started = now,
                        !.limited = req.rate # None,
                        !.deadline = IF r.timeout # None /\ @ = None
                                     THEN now + r.timeout ELSE @]),
           ids)

PgTransitionDelayed(db, now) ==
    LET due == {i \in DOMAIN db.wf : /\ db.wf[i].status = "DELAYED"
                                     /\ db.wf[i].delay # None /\ db.wf[i].delay <= now}
    IN  Ok(UpdateRows(db, due, LAMBDA r : [r EXCEPT !.status = "ENQUEUED", !.delay = None]),
           Cardinality(due))
PgQueuePartitions(db, queue) ==
    {db.wf[i].part : i \in {j \in DOMAIN db.wf : /\ db.wf[j].queue = queue
                                                 /\ db.wf[j].status = "ENQUEUED"
                                                 /\ db.wf[j].part # None}}

PgCancelled(r, now) ==
    [r EXCEPT !.status = "CANCELLED", !.completed = now, !.started = None,
              !.queue = None, !.dedup = None]
PgCancelWorkflow(db, id, now) ==
    LET hit == {i \in {id} \cap DOMAIN db.wf :
                  db.wf[i].status \notin {"SUCCESS", "ERROR", "CANCELLED"}}
    IN  Ok(UpdateRows(db, hit, LAMBDA r : PgCancelled(r, now)), None)
PgCancelWorkflows(db, ids, children, now) ==
    LET seed == {i \in DOMAIN db.wf : i \in ids \/ db.wf[i].parent \in ids}
        targets == IF children THEN Below(db, seed) ELSE ids \cap DOMAIN db.wf
        hit == {i \in targets : db.wf[i].status \notin {"SUCCESS", "ERROR", "CANCELLED"}}
    IN  Ok(UpdateRows(db, hit, LAMBDA r : PgCancelled(r, now)), None)

PgResumed(r) ==
    [r EXCEPT !.status = "PENDING", !.attempts = 0, !.deadline = None,
              !.dedup = None, !.started = None, !.completed = None]
PgResumeWorkflow(db, id) ==
    LET hit == {i \in {id} \cap DOMAIN db.wf : db.wf[i].status \notin {"SUCCESS", "ERROR"}}
    IN  Ok(UpdateRows(db, hit, PgResumed), hit # {})
PgResumeWorkflows(db, ids) ==
    LET hit == {i \in ids \cap DOMAIN db.wf : db.wf[i].status \notin {"SUCCESS", "ERROR"}}
    IN  Ok(UpdateRows(db, hit, PgResumed), hit)

PgEnqueueExisting(db, id, queue) ==
    LET new == UpdateRows(db, {id}, LAMBDA r :
                   [r EXCEPT !.status = "ENQUEUED", !.queue = queue,
                             !.executor = "", !.started = None])
    IN  IF SlotsUnique(new) THEN Ok(new, None) ELSE Err(db, "UniqueViolation")

PgDeleteWorkflows(db, ids, children) ==
    LET found == ids \cap DOMAIN db.wf
    IN  Ok(DeleteRows(db, IF children THEN Below(db, found) ELSE found), None)

(* The batches of one collection together: rows that finish meanwhile have *)
(* a completed_at past the cutoff.                                         *)
PgNthNewestCompletedAt(db, n) ==
    NthNewest([i \in {j \in DOMAIN db.wf : db.wf[j].completed # None} |->
                 db.wf[i].completed], n)
PgGarbageCollect(db, cutoff, rows) ==
    LET bound == ResolveGcCutoff(cutoff, IF rows = None THEN None
                                         ELSE PgNthNewestCompletedAt(db, rows))
        gone == {i \in DOMAIN db.wf : /\ db.wf[i].completed # None
                                      /\ db.wf[i].completed < bound
                                      /\ db.wf[i].status \notin Live}
    IN  IF rows # None /\ rows <= 0 THEN Err(db, "rows_threshold")
        ELSE IF bound = None THEN Ok(db, 0) ELSE Ok(DeleteRows(db, gone), Cardinality(gone))

PgSetWorkflowDelay(db, id, until) ==
    LET hit == {i \in {id} \cap DOMAIN db.wf : db.wf[i].status = "DELAYED"}
    IN  Ok(UpdateRows(db, hit, LAMBDA r : [r EXCEPT !.delay = until]), hit # {})
PgSetWorkflowAttributes(db, id, attrs) ==
    IF id \in DOMAIN db.wf
    THEN Ok([db EXCEPT !.wf[id].attrs = IF attrs \in {None, {}} THEN None ELSE attrs], None)
    ELSE Err(db, "NonexistentWorkflow")

(* INSERT ... SELECT from the original's row.                              *)
PgForked(orig, p, now) ==
    [orig EXCEPT !.status = "ENQUEUED", !.executor = "",
                 !.version = OrDefault(AppVersionOpt(OrDefault(p.version, "")), @),
                 !.forked = p.original, !.attempts = 0, !.queue = p.queue,
                 !.part = p.part, !.created = now, !.timeout = p.timeout,
                 !.output = None, !.error = None, !.priority = 0, !.dedup = None,
                 !.parent = None, !.deadline = None, !.started = None,
                 !.limited = FALSE, !.delay = None, !.completed = None,
                 !.wasForked = FALSE]
PgForkWorkflow(db, p, now) ==
    LET fork == PgForked(db.wf[p.original], p, now)
        copied == {k \in DOMAIN db.ops : k[1] = p.original /\ k[2] < p.start}
    IN  IF p.original \notin DOMAIN db.wf THEN Err(db, "NonexistentWorkflow")
        ELSE IF p.new \in DOMAIN db.wf THEN Err(db, "UniqueViolation")
        ELSE Ok([db EXCEPT
                   !.wf = InsertNew([@ EXCEPT ![p.original].wasForked = TRUE], p.new, fork),
                   !.ops = @ @@ [k \in {<<p.new, j[2]>> : j \in copied} |->
                                   [db.ops[<<p.original, k[2]>>]
                                      EXCEPT !.started = None, !.completed = None]]],
                None)

PgClaimForRecovery(db, req) ==
    LET n == req.attempts + 1
        hit == {i \in {req.id} \cap DOMAIN db.wf :
                  /\ db.wf[i].status = "PENDING" /\ db.wf[i].executor = req.owner
                  /\ db.wf[i].attempts = req.attempts}
        park(r) == [r EXCEPT !.status = "MAX_RECOVERY", !.attempts = @ + 1, !.dedup = None]
        requeue(r) == [r EXCEPT !.status = "ENQUEUED", !.attempts = @ + 1, !.started = None]
        take(r) == [r EXCEPT !.attempts = @ + 1, !.executor = req.new]
    IN  IF hit = {} THEN Ok(db, <<"Lost">>)
        ELSE IF n > req.max THEN Ok(UpdateRows(db, hit, park), <<"Parked", n>>)
        ELSE IF req.requeue THEN Ok(UpdateRows(db, hit, requeue), <<"Requeued">>)
        ELSE Ok(UpdateRows(db, hit, take), <<"Claimed", n>>)

PgListFilters(r, i, f) ==
    /\ In(i, f.ids) /\ In(r.name, f.names) /\ In(r.status, f.statuses)
    /\ In(r.queue, f.queues) /\ In(r.version, f.versions)
    /\ In(r.executor, f.executors) /\ In(r.forked, f.forked) /\ In(r.parent, f.parents)
    /\ AtLeast(r.created, f.since) /\ AtMost(r.created, f.until)
    /\ AtLeast(r.completed, f.doneSince) /\ AtMost(r.completed, f.doneUntil)
    /\ AtLeast(r.started, f.startSince) /\ AtMost(r.started, f.startUntil)
    /\ f.hasParent = None \/ (r.parent # None) = f.hasParent
    /\ f.queuesOnly => r.queue # None
PgListWorkflows(db, f) ==
    Page(db.wf, {i \in DOMAIN db.wf : PgListFilters(db.wf[i], i, f)}, f)

(* GROUP BY status, queue_name: COUNT, MIN(created_at) and the longest     *)
(* total latency.  MAX passes over NULLs.                                  *)
PgWorkflowAggregates(db) ==
    LET key(i) == <<db.wf[i].status, db.wf[i].queue>>
        group(k) == {i \in DOMAIN db.wf : key(i) = k}
        latency(k) == {db.wf[i].completed - db.wf[i].created :
                         i \in {j \in group(k) : db.wf[j].completed # None}}
    IN  [k \in {key(i) : i \in DOMAIN db.wf} |->
           [count |-> Cardinality(group(k)),
            first |-> Min({db.wf[i].created : i \in group(k)}),
            latency |-> IF latency(k) = {} THEN None ELSE Max(latency(k))]]
PgStepAggregates(db) ==
    LET group(k) == <<db.ops[k].name, IF db.ops[k].error = None THEN "SUCCESS" ELSE "ERROR">>
    IN  [g \in {group(k) : k \in DOMAIN db.ops} |->
           Cardinality({k \in DOMAIN db.ops : group(k) = g})]

(* ------------------------------------------------- operation_outputs *)

PgGetStepResult(db, id, seq) ==
    LET r == db.ops[<<id, seq>>]
        outcome == StepOutcomeFrom(r.fmt, r.output, r.error)
    IN  IF <<id, seq>> \notin DOMAIN db.ops \/ outcome = None THEN None
        ELSE <<r.name, outcome>>

(* One statement inserts and, if it won, refreshes the executor.           *)
PgRecordStepResult(db, id, seq, name, value, error, started, executor, now) ==
    LET k == <<id, seq>>
        output == IF error = None THEN Encode(db.ser, value) ELSE None
        new == [SqlStep(name, db.ser) EXCEPT !.output = output, !.error = error,
                                             !.started = started, !.completed = now]
        outcome(r) == OrDefault(StepOutcomeFrom(r.fmt, r.output, r.error), <<"Output", "null">>)
    IN  IF k \notin DOMAIN db.ops
        THEN IF id \notin DOMAIN db.wf THEN Err(db, "ForeignKey")
             ELSE Ok([db EXCEPT !.ops = InsertNew(@, k, new),
                                !.wf[id].executor = OrDefault(executor, @)], outcome(new))
        ELSE IF db.ops[k].name # name THEN Err(db, "UnexpectedStep")
        ELSE IF \/ db.ops[k].output # output \/ db.ops[k].error # error
                \/ db.ops[k].started # started
        THEN Err(db, "WorkflowConflict")
        ELSE Ok(db, outcome(db.ops[k]))

(* The outcome on record at a position, as the result of the call there.   *)
PgRecordedOutputOn(db, id, seq, name) ==
    LET r == db.ops[<<id, seq>>]
        outcome == OrDefault(StepOutcomeFrom(r.fmt, r.output, r.error), <<"Output", "null">>)
    IN  IF <<id, seq>> \notin DOMAIN db.ops THEN Ok(db, None)
        ELSE IF r.name # name THEN Err(db, "UnexpectedStep")
        ELSE IF outcome[1] = "Output" THEN Ok(db, outcome[2]) ELSE Err(db, outcome[2])
PgCheckpointOn(db, id, seq, name, text, fmt, now) ==
    [db EXCEPT !.ops = InsertNew(@, <<id, seq>>, [SqlStep(name, fmt) EXCEPT
                                                    !.output = text, !.completed = now])]
PgCheckpointNullOn(db, id, seq, name, now) ==
    PgCheckpointOn(db, id, seq, name, Encode(db.ser, "null"), db.ser, now)

(* A slot's holder that ends between the insert and the read is tried      *)
(* again; here nothing comes between them.                                 *)
PgInsertChildWorkflow(db, id, child, parent, seq, adopt) ==
    LET k == <<parent, seq>>
        ins == PgInsertStatusOn(db, id, child, adopt)
        target == IF ins.reply[2][1] # None THEN id
                  ELSE CHOOSE i \in Holders(db, child.queue, child.dedup) : TRUE
        row == PgRowToStatus(ins.db.wf[target])
    IN  IF parent \notin DOMAIN db.wf THEN Err(db, "NonexistentWorkflow")
        ELSE IF k \in DOMAIN db.ops
        THEN IF db.ops[k].name # child.name \/ db.ops[k].child = None
             THEN Err(db, "WorkflowConflict")
             ELSE Ok(db, <<"Replayed", db.ops[k].child>>)
        ELSE IF db.wf[parent].status = "CANCELLED" THEN Err(db, "Cancelled")
        ELSE IF ins.reply[1] = "Err" THEN ins
        ELSE IF ~SameTarget(row, child) THEN Err(db, "TargetMismatch")
        ELSE Ok([ins.db EXCEPT !.ops = InsertNew(@, k, [SqlStep(child.name, None) EXCEPT
                                                          !.child = target])],
                <<"Resolved", target, ins.reply[2][2]>>)
PgRecordChildWorkflow(db, parent, seq, name, child) ==
    IF parent \notin DOMAIN db.wf THEN Err(db, "ForeignKey")
    ELSE Ok([db EXCEPT !.ops = InsertNew(@, <<parent, seq>>,
                                         [SqlStep(name, None) EXCEPT !.child = child])], None)
PgCheckChildWorkflow(db, parent, seq) ==
    IF <<parent, seq>> \in DOMAIN db.ops /\ db.ops[<<parent, seq>>].child # None
    THEN <<db.ops[<<parent, seq>>].child, db.ops[<<parent, seq>>].name>>
    ELSE None

PgRowToStep(r) ==
    [f \in DOMAIN r \ {"fmt"} |->
       IF f = "output" THEN OkOr(DecodeOpt(r.fmt, r.output), "undecodable") ELSE r[f]]
PgGetWorkflowSteps(db, id) ==
    [n \in {k[2] : k \in {j \in DOMAIN db.ops : j[1] = id}} |-> PgRowToStep(db.ops[<<id, n>>])]
PgGetStepName(db, id, seq) ==
    IF <<id, seq>> \in DOMAIN db.ops THEN db.ops[<<id, seq>>].name ELSE None
PgRecordPatch(db, id, seq, name) ==
    IF id \notin DOMAIN db.wf THEN Err(db, "ForeignKey")
    ELSE Ok([db EXCEPT !.ops = InsertNew(@, <<id, seq>>, SqlStep(name, None))], None)

(* ------------------------------------- notifications, events, streams *)

PgNotification(db, m, now) ==
    [dest |-> m.dest, topic |-> m.topic, msg |-> Encode(db.ser, m.msg), fmt |-> db.ser,
     consumed |-> FALSE, created |-> now]
PgInsertNotification(db, m, now) ==
    IF m.dest \notin DOMAIN db.wf THEN Err(db, "NonexistentWorkflow")
    ELSE Ok([db EXCEPT !.notes = InsertNew(@, MessageUuid(m, now, 1),
                                           PgNotification(db, m, now))], None)
(* One statement for the batch: all rows or none.                          *)
PgInsertNotificationsOn(db, msgs, now) ==
    LET uuid(n) == MessageUuid(msgs[n], now, n)
    IN  IF \E m \in Range(msgs) : m.dest \notin DOMAIN db.wf
        THEN Err(db, "NonexistentWorkflow")
        ELSE Ok([db EXCEPT !.notes = @ @@ [u \in {uuid(n) : n \in DOMAIN msgs} |->
                    LET first == Min({n \in DOMAIN msgs : uuid(n) = u})
                    IN  PgNotification(db, msgs[first], now)]], None)
PgSendFromWorkflow(db, id, seq, name, msgs, now) ==
    LET sent == PgInsertNotificationsOn(PgCheckpointNullOn(db, id, seq, name, now), msgs, now)
        recorded == PgRecordedOutputOn(db, id, seq, name)
    IN  IF <<id, seq>> \in DOMAIN db.ops
        THEN IF recorded.reply[1] = "Err" THEN recorded ELSE Ok(db, None)
        ELSE IF id \notin DOMAIN db.wf THEN Err(db, "ForeignKey")
        ELSE IF sent.reply[1] = "Err" THEN Err(db, sent.reply[2])
        ELSE sent

PgConsumeNotification(db, id, topic, seq, name, now) ==
    LET waiting == {u \in DOMAIN db.notes : /\ db.notes[u].dest = id
                                            /\ db.notes[u].topic = topic
                                            /\ ~db.notes[u].consumed}
        oldest == CHOOSE u \in waiting :
                    \A w \in waiting : db.notes[u].created <= db.notes[w].created
        n == db.notes[oldest]
    IN  IF <<id, seq>> \in DOMAIN db.ops THEN PgRecordedOutputOn(db, id, seq, name)
        ELSE IF waiting = {} THEN Ok(db, None)
        ELSE Ok(PgCheckpointOn([db EXCEPT !.notes[oldest].consumed = TRUE],
                               id, seq, name, n.msg, n.fmt, now),
                OkOr(Decode(n.fmt, n.msg), "undecodable"))

PgUpsertEvent(db, id, key, v) ==
    IF id \notin DOMAIN db.wf THEN Err(db, "ForeignKey")
    ELSE Ok([db EXCEPT !.events = Upsert(@, <<id, key>>, <<Encode(db.ser, v), db.ser>>)], None)
PgGetEventValue(db, id, key) ==
    IF <<id, key>> \in DOMAIN db.events
    THEN Decode(db.events[<<id, key>>][2], db.events[<<id, key>>][1])
    ELSE <<"Ok", None>>
PgListWorkflowEvents(db, id) ==
    [key \in {k[2] : k \in {j \in DOMAIN db.events : j[1] = id}} |->
       OkOr(Decode(db.events[<<id, key>>][2], db.events[<<id, key>>][1]), "undecodable")]
PgListWorkflowNotifications(db, id) ==
    LET mine == SetToSortSeq({u \in DOMAIN db.notes : db.notes[u].dest = id},
                    LAMBDA u, w : db.notes[u].created < db.notes[w].created)
    IN  [n \in DOMAIN mine |->
           LET r == db.notes[mine[n]]
           IN  <<r.topic, OkOr(Decode(r.fmt, r.msg), "undecodable"), r.created, r.consumed>>]

(* Faulty form, for the mutants: the close marker is not looked for.       *)
PgWritesOn(db, id, key, v) ==
    LET entries == StreamOf(db, id, key)
    IN  Ok([db EXCEPT !.streams = InsertNew(@, <<id, key, Len(entries)>>,
              IF v = Closed THEN <<ClosedText, None>> ELSE <<Encode(db.ser, v), db.ser>>)],
           None)
(* Entries are <<text, format>>; the close marker is stored verbatim.      *)
PgWriteStreamOn(db, id, key, v) ==
    LET entries == StreamOf(db, id, key)
        stored == IF v = Closed THEN <<ClosedText, None>> ELSE <<Encode(db.ser, v), db.ser>>
    IN  IF \E n \in DOMAIN entries : entries[n][1] = ClosedText THEN Err(db, "StreamClosed")
        ELSE IF id \notin DOMAIN db.wf THEN Err(db, "NonexistentWorkflow")
        ELSE Ok([db EXCEPT !.streams = InsertNew(@, <<id, key, Len(entries)>>, stored)], None)
PgWriteStream(db, id, key, v) == PgWriteStreamOn(db, id, key, v)
PgWriteStreamFromWorkflow(db, id, seq, name, key, v, now) ==
    LET written == PgWriteStreamOn(PgCheckpointNullOn(db, id, seq, name, now), id, key, v)
        recorded == PgRecordedOutputOn(db, id, seq, name)
    IN  IF <<id, seq>> \in DOMAIN db.ops
        THEN IF recorded.reply[1] = "Err" THEN recorded ELSE Ok(db, None)
        ELSE IF id \notin DOMAIN db.wf THEN Err(db, "ForeignKey")
        ELSE IF written.reply[1] = "Err" THEN Err(db, written.reply[2])
        ELSE written
PgDecoded(entries) ==
    [n \in DOMAIN entries |->
       IF entries[n][1] = ClosedText THEN Closed
       ELSE OkOr(Decode(entries[n][2], entries[n][1]), "undecodable")]
PgReadStream(db, id, key, from) ==
    LET all == PgDecoded(StreamOf(db, id, key))
        rest == SubSeq(all, from + 1, Len(all))
    IN  <<"Ok", Values(rest), Closed \in Range(rest)>>
PgListWorkflowStreams(db, id) ==
    [key \in {k[2] : k \in {j \in DOMAIN db.streams : j[1] = id}} |->
       Values(PgDecoded(StreamOf(db, id, key)))]

(* ------------------------------------- schedules, versions, queues *)

PgScheduleRow(s) == [s EXCEPT !.last = Rfc3339(@), !.context = EncodeContext(@)]
PgRowToSchedule(r) == [r EXCEPT !.last = ParseRfc3339(@), !.context = DecodeContext(@)]
PgCreateSchedule(db, name, s) ==
    IF name \in DOMAIN db.sched THEN Err(db, "Exists")
    ELSE Ok([db EXCEPT !.sched = InsertNew(@, name, PgScheduleRow(s))], None)
PgUpdateSchedule(db, name, upd) ==
    LET cols == IF "context" \in DOMAIN upd THEN [upd EXCEPT !.context = EncodeContext(@)]
                ELSE upd
    IN  IF name \notin DOMAIN db.sched THEN Err(db, "NotFound")
        ELSE Ok([db EXCEPT !.sched[name] = cols @@ @], None)
PgApplySchedules(db, new) ==
    Ok([db EXCEPT !.sched = [n \in DOMAIN new |-> PgScheduleRow(new[n])] @@ @], None)
PgListSchedules(db, statuses, workflows) ==
    [n \in {m \in DOMAIN db.sched : /\ In(db.sched[m].status, statuses)
                                    /\ In(db.sched[m].workflow, workflows)} |->
       PgRowToSchedule(db.sched[n])]
PgSetScheduleStatus(db, name, st) ==
    IF name \in DOMAIN db.sched THEN Ok([db EXCEPT !.sched[name].status = st], TRUE)
    ELSE Ok(db, FALSE)
PgSetScheduleLastFired(db, name, t) ==
    IF name \in DOMAIN db.sched THEN Ok([db EXCEPT !.sched[name].last = Rfc3339(t)], None)
    ELSE Ok(db, None)
PgDeleteSchedule(db, name) ==
    Ok([db EXCEPT !.sched = Restrict(@, DOMAIN @ \ {name})], name \in DOMAIN db.sched)

PgCreateApplicationVersion(db, v, now) ==
    Ok([db EXCEPT !.versions = InsertNew(@, v, now)], None)
PgListApplicationVersions(db) ==
    SetToSortSeq(DOMAIN db.versions, LAMBDA u, v : db.versions[u] > db.versions[v])
PgGetLatestApplicationVersion(db) ==
    IF DOMAIN db.versions = {} THEN None ELSE PgListApplicationVersions(db)[1]
PgSetLatestApplicationVersion(db, v, now) ==
    IF v \in DOMAIN db.versions THEN Ok([db EXCEPT !.versions[v] = now], TRUE)
    ELSE Ok(db, FALSE)

PgUpsertQueue(db, name, q, overwrite) ==
    LET row == Restrict(q, QueueColumns)
    IN  Ok([db EXCEPT !.queues = IF overwrite THEN Upsert(@, name, row)
                                 ELSE InsertNew(@, name, row)], None)
PgListQueues(db) == [n \in DOMAIN db.queues |-> db.queues[n] @@ QueueDefaults]

(* ------------------------------------------------ export and import *)

(* Status and step rows go out with their formats, events and streams      *)
(* without.                                                                *)
PgExportedRow(r) == Restrict(r, DOMAIN r \ {"fmt", "wasForked"})
PgExportWorkflow(db, id, children) ==
    LET ids == IF children THEN Below(db, {id}) ELSE {id}
    IN  IF id \notin DOMAIN db.wf THEN <<"Err", "NonexistentWorkflow">>
        ELSE <<"Ok", [i \in ids |->
               [row |-> PgExportedRow(db.wf[i]),
                fmt |-> db.wf[i].fmt, source |-> db.wf[i].wasForked,
                ops |-> [n \in DOMAIN PgGetWorkflowSteps(db, i) |->
                           LET r == db.ops[<<i, n>>]
                           IN  <<Restrict(r, DOMAIN r \ {"fmt"}), r.fmt>>],
                events |-> [k \in DOMAIN PgListWorkflowEvents(db, i) |->
                              db.events[<<i, k>>][1]],
                streams |-> [k \in {<<i, j>> : j \in DOMAIN PgListWorkflowStreams(db, i)} |->
                               [n \in DOMAIN StreamOf(db, i, k[2]) |->
                                  StreamOf(db, i, k[2])[n][1]]]]]>>

PgImportedRow(entry) ==
    Overlay([entry.row EXCEPT !.attrs = None, !.limited = FALSE,
                              !.version = AppVersionOpt(OrDefault(@, ""))],
            [fmt |-> entry.fmt, wasForked |-> entry.source])
(* A row that an imported one was forked from is marked.                   *)
PgWithImported(rows, dump) ==
    LET sources == {dump[i].row.forked : i \in DOMAIN dump}
        row(i) == IF i \in DOMAIN dump THEN PgImportedRow(dump[i]) ELSE rows[i]
    IN  [i \in DOMAIN rows \cup DOMAIN dump |->
           IF i \in sources THEN [row(i) EXCEPT !.wasForked = TRUE] ELSE row(i)]
(* One transaction, plain inserts: an id or a slot that is taken fails it. *)
PgImportWorkflow(db, dump) ==
    LET keys(i, table) == {<<i, n>> : n \in table}
        offsets(i) == UNION {{<<i, k[2], n - 1>> : n \in DOMAIN dump[i].streams[k]} :
                               k \in DOMAIN dump[i].streams}
        new == [db EXCEPT
           !.wf = PgWithImported(@, dump),
           !.ops = @ @@ [k \in UNION {keys(i, DOMAIN dump[i].ops) : i \in DOMAIN dump} |->
                           dump[k[1]].ops[k[2]][1] @@ ("fmt" :> dump[k[1]].ops[k[2]][2])],
           !.events = @ @@ [k \in UNION {keys(i, DOMAIN dump[i].events) : i \in DOMAIN dump} |->
                              <<dump[k[1]].events[k[2]], None>>],
           !.streams = Overlay(@, [k \in UNION {offsets(i) : i \in DOMAIN dump} |->
                               <<dump[k[1]].streams[<<k[1], k[2]>>][k[3] + 1], None>>])]
    IN  IF DOMAIN dump \cap DOMAIN db.wf # {} \/ ~SlotsUnique(new) THEN Err(db, "Exists")
        ELSE Ok(new, None)
=============================================================================
