---------------------------- MODULE MemoryTables ----------------------------
(* InMemoryProvider: every operation under the one mutex of memory.rs.     *)
(* Values are kept as they are, a stream is a vector of entries, there is  *)
(* no foreign key, and an unset application version is the empty string.   *)
EXTENDS SystemTables

MemEmpty ==
    [wf |-> <<>>, steps |-> <<>>, notes |-> <<>>, events |-> <<>>,
     streams |-> <<>>, sched |-> <<>>, versions |-> <<>>, queues |-> <<>>]

(* ------------------------------------------------- workflow_status rows *)

MemInsertWorkflowStatus(db, id, row) ==
    IF Holders(db, row.queue, row.dedup) \ {id} # {}
    THEN Err(db, "QueueDeduplicated")
    ELSE IF id \in DOMAIN db.wf THEN Ok(db, <<db.wf[id], FALSE>>)
    ELSE Ok([db EXCEPT !.wf = Upsert(@, id, row)], <<row, TRUE>>)

MemGetDeduplicatedWorkflow(db, queue, dedup) == Holders(db, queue, dedup)

MemGetWorkflowStatus(db, id) ==
    IF id \in DOMAIN db.wf THEN db.wf[id] ELSE None

MemSetWorkflowStatus(db, id, status, output, error, now) ==
    LET allowed(s) ==
            CASE status \in Finished \cup {"MAX_RECOVERY"} -> s = "PENDING"
              [] status = "CANCELLED" -> s \notin Finished \cup {"CANCELLED"}
              [] OTHER -> TRUE
        write(r) == [r EXCEPT !.status = status,
                              !.output = OrDefault(output, @),
                              !.error = OrDefault(error, @),
                              !.completed = IF IsTerminal(status) THEN now ELSE @,
                              !.dedup = IF IsTerminal(status) THEN None ELSE @]
    IN  IF id \in DOMAIN db.wf /\ allowed(db.wf[id].status)
        THEN Ok(UpdateRows(db, {id}, write), TRUE)
        ELSE Ok(db, FALSE)

MemDequeueWorkflows(db, req, now) ==
    LET mine(i) == /\ db.wf[i].queue = req.queue
                   /\ req.part = None \/ db.wf[i].part = req.part
        recent == {i \in DOMAIN db.wf :
                     /\ mine(i) /\ db.wf[i].limited
                     /\ db.wf[i].status \notin {"ENQUEUED", "DELAYED"}
                     /\ db.wf[i].started # None
                     /\ db.wf[i].started > now - req.period}
        pending == {i \in DOMAIN db.wf : mine(i) /\ db.wf[i].status = "PENDING"}
        latest == \/ DOMAIN db.versions = {}
                  \/ /\ req.version \in DOMAIN db.versions
                     /\ \A v \in DOMAIN db.versions :
                          db.versions[v] <= db.versions[req.version]
        candidate == {i \in DOMAIN db.wf :
                        /\ mine(i) /\ db.wf[i].status = "ENQUEUED"
                        /\ \/ db.wf[i].version = req.version
                           \/ db.wf[i].version = "" /\ latest}
        ids == FirstOf(db.wf, candidate, Room(req, recent, pending))
        claim(r) == [r EXCEPT !.status = "PENDING", !.executor = req.executor,
                              !.version = req.version, !.started = now,
                              !.limited = req.rate # None,
                              !.deadline = IF @ = None /\ r.timeout # None
                                           THEN now + r.timeout ELSE @]
    IN  Ok(UpdateRows(db, {i \in candidate : i \in Range(ids)}, claim), ids)

MemTransitionDelayed(db, now) ==
    LET due == {i \in DOMAIN db.wf : /\ db.wf[i].status = "DELAYED"
                                     /\ db.wf[i].delay # None /\ db.wf[i].delay <= now}
    IN  Ok(UpdateRows(db, due, LAMBDA r : [r EXCEPT !.status = "ENQUEUED", !.delay = None]),
           Cardinality(due))

MemQueuePartitions(db, queue) ==
    {db.wf[i].part : i \in {j \in DOMAIN db.wf : /\ db.wf[j].queue = queue
                                                 /\ db.wf[j].status = "ENQUEUED"}} \ {None}

MemResumed(r) ==
    [r EXCEPT !.status = "PENDING", !.attempts = 0, !.deadline = None,
              !.dedup = None, !.started = None, !.completed = None]
MemResumeWorkflow(db, id) ==
    IF id \in DOMAIN db.wf /\ db.wf[id].status \notin Finished
    THEN Ok(UpdateRows(db, {id}, MemResumed), TRUE)
    ELSE Ok(db, FALSE)
MemResumeWorkflows(db, ids) ==
    LET hit == {i \in ids \cap DOMAIN db.wf : db.wf[i].status \notin Finished}
    IN  Ok(UpdateRows(db, hit, MemResumed), hit)

MemEnqueueExisting(db, id, queue) ==
    Ok(UpdateRows(db, {id}, LAMBDA r : [r EXCEPT !.status = "ENQUEUED", !.queue = queue,
                                                 !.executor = "", !.started = None]),
       None)

MemCancelWorkflows(db, ids, children, now) ==
    LET targets == IF children THEN Below(db, ids) ELSE ids
        hit == {i \in targets \cap DOMAIN db.wf :
                  db.wf[i].status \notin Finished \cup {"CANCELLED"}}
    IN  Ok(UpdateRows(db, hit, LAMBDA r : [r EXCEPT !.status = "CANCELLED", !.completed = now,
                                                    !.started = None, !.queue = None,
                                                    !.dedup = None]),
           None)

(* Rows, steps, streams and messages of a deleted workflow go; its events  *)
(* stay behind.                                                            *)
MemDeleteWorkflows(db, ids, children) ==
    LET gone == IF children THEN Below(db, ids) ELSE ids
    IN  Ok([db EXCEPT !.wf = Restrict(@, DOMAIN @ \ gone),
                      !.steps = Restrict(@, {k \in DOMAIN @ : k[1] \notin gone}),
                      !.streams = Restrict(@, {k \in DOMAIN @ : k[1] \notin gone}),
                      !.notes = SelectSeq(@, LAMBDA n : n.dest \notin gone)],
           None)

(* The provider's default: rank the finished rows, list those that         *)
(* finished before the cutoff, delete what was listed.                     *)
MemNthNewestCompletedAt(db, n) ==
    NthNewest([i \in {j \in DOMAIN db.wf : /\ IsTerminal(db.wf[j].status)
                                           /\ db.wf[j].completed # None}
                 |-> db.wf[i].completed], n)
MemGarbageCollect(db, cutoff, rows) ==
    LET bound == ResolveGcCutoff(cutoff, IF rows = None THEN None
                                         ELSE MemNthNewestCompletedAt(db, rows))
        listed == {i \in DOMAIN db.wf : /\ IsTerminal(db.wf[i].status)
                                        /\ db.wf[i].completed # None
                                        /\ db.wf[i].completed <= bound - 1}
    IN  IF rows # None /\ rows <= 0 THEN Err(db, "rows_threshold")
        ELSE IF bound = None THEN Ok(db, 0)
        ELSE Ok(MemDeleteWorkflows(db, listed, FALSE).db, Cardinality(listed))

MemSetWorkflowDelay(db, id, until) ==
    IF id \in DOMAIN db.wf /\ db.wf[id].status = "DELAYED"
    THEN Ok([db EXCEPT !.wf[id].delay = until], TRUE)
    ELSE Ok(db, FALSE)

(* attrs is a set of pairs; the empty one clears.                          *)
MemSetWorkflowAttributes(db, id, attrs) ==
    IF id \notin DOMAIN db.wf THEN Err(db, "NonexistentWorkflow")
    ELSE Ok([db EXCEPT !.wf[id].attrs = IF attrs \in {None, {}} THEN None ELSE attrs], None)

MemForkWorkflow(db, p, now) ==
    LET orig == db.wf[p.original]
        fork == [NewStatus(orig.name, orig.input, "ENQUEUED", "",
                           OrDefault(p.version, orig.version), now)
                   EXCEPT !.timeout = p.timeout, !.forked = p.original,
                          !.attrs = orig.attrs, !.queue = p.queue, !.part = p.part]
        kept == {k \in DOMAIN db.steps : k[1] = p.original /\ k[2] < p.start}
    IN  IF p.original \notin DOMAIN db.wf THEN Err(db, "NonexistentWorkflow")
        ELSE Ok([db EXCEPT !.wf = Upsert(@, p.new, fork),
                           !.steps = [k \in {<<p.new, j[2]>> : j \in kept} |->
                                        db.steps[<<p.original, k[2]>>]] @@ @], None)

MemClaimForRecovery(db, req) ==
    LET row == db.wf[req.id]
        n == row.attempts + 1
    IN  IF \/ req.id \notin DOMAIN db.wf
           \/ row.status # "PENDING" \/ row.executor # req.owner
           \/ row.attempts # req.attempts
        THEN Ok(db, <<"Lost">>)
        ELSE IF n > req.max
        THEN Ok([db EXCEPT !.wf[req.id] = [@ EXCEPT !.attempts = n, !.status = "MAX_RECOVERY",
                                                    !.dedup = None]], <<"Parked", n>>)
        ELSE IF req.requeue
        THEN Ok([db EXCEPT !.wf[req.id] = [@ EXCEPT !.attempts = n, !.status = "ENQUEUED",
                                                    !.started = None]], <<"Requeued">>)
        ELSE Ok([db EXCEPT !.wf[req.id] = [@ EXCEPT !.attempts = n, !.executor = req.new]],
                <<"Claimed", n>>)

MemMatches(r, i, f) ==
    /\ In(i, f.ids) /\ In(r.name, f.names) /\ In(r.status, f.statuses)
    /\ In(r.queue, f.queues) /\ In(r.version, f.versions)
    /\ In(r.executor, f.executors) /\ In(r.forked, f.forked) /\ In(r.parent, f.parents)
    /\ AtLeast(r.created, f.since) /\ AtMost(r.created, f.until)
    /\ AtLeast(r.completed, f.doneSince) /\ AtMost(r.completed, f.doneUntil)
    /\ AtLeast(r.started, f.startSince) /\ AtMost(r.started, f.startUntil)
    /\ f.hasParent = None \/ (r.parent # None) = f.hasParent
    /\ f.queuesOnly => r.queue # None
MemListWorkflows(db, f) ==
    Page(db.wf, {i \in DOMAIN db.wf : MemMatches(db.wf[i], i, f)}, f)

(* Workflows per status and queue: how many, the first created, and the    *)
(* longest total latency.                                                  *)
MemWorkflowAggregates(db) ==
    LET key(i) == <<db.wf[i].status, db.wf[i].queue>>
        group(k) == {i \in DOMAIN db.wf : key(i) = k}
        latency(k) == {db.wf[i].completed - db.wf[i].created :
                         i \in {j \in group(k) : db.wf[j].completed # None}}
    IN  [k \in {key(i) : i \in DOMAIN db.wf} |->
           [count |-> Cardinality(group(k)),
            first |-> Min({db.wf[i].created : i \in group(k)}),
            latency |-> IF latency(k) = {} THEN None ELSE Max(latency(k))]]
(* Steps per name and status; every step counts as a success.              *)
MemStepAggregates(db) ==
    LET group(k) == <<db.steps[k].name, "SUCCESS">>
    IN  [g \in {group(k) : k \in DOMAIN db.steps} |->
           Cardinality({k \in DOMAIN db.steps : group(k) = g})]

(* ------------------------------------------------- operation_outputs *)

MemStepRowOutcome(r) ==
    IF r.error # None THEN <<"Failure", r.error>> ELSE <<"Output", OrDefault(r.output, "null")>>
(* A recorded outcome as the result of the call that asks for it.          *)
MemServe(db, r) ==
    IF r.error # None THEN Err(db, r.error) ELSE Ok(db, OrDefault(r.output, "null"))
MemGetStepResult(db, id, seq) ==
    IF <<id, seq>> \in DOMAIN db.steps
    THEN <<db.steps[<<id, seq>>].name, MemStepRowOutcome(db.steps[<<id, seq>>])>>
    ELSE None

MemRecordStepResult(db, id, seq, name, value, error, started, executor, now) ==
    LET k == <<id, seq>>
        new == [NewStep(name) EXCEPT !.output = IF error = None THEN value ELSE None,
                                     !.error = error, !.started = started,
                                     !.completed = now]
        old == db.steps[k]
    IN  IF k \notin DOMAIN db.steps
        THEN Ok([db EXCEPT !.steps = Upsert(@, k, new),
                           !.wf = [i \in DOMAIN @ |-> IF i = id /\ executor # None
                                                      THEN [@[i] EXCEPT !.executor = executor]
                                                      ELSE @[i]]],
                MemStepRowOutcome(new))
        ELSE IF old.name # name THEN Err(db, "UnexpectedStep")
        ELSE IF <<old.output, old.error, old.started>> # <<new.output, new.error, started>>
        THEN Err(db, "WorkflowConflict")
        ELSE Ok(db, MemStepRowOutcome(old))

(* Whether a position is taken, and by another operation.                  *)
MemRecordedAt(db, id, seq) == <<id, seq>> \in DOMAIN db.steps
MemDiverges(db, id, seq, name) ==
    MemRecordedAt(db, id, seq) /\ db.steps[<<id, seq>>].name # name
MemCheckpoint(db, id, seq, name, output, now) ==
    [db EXCEPT !.steps = Upsert(@, <<id, seq>>, [NewStep(name) EXCEPT !.output = output,
                                                                      !.completed = now])]

MemInsertChildWorkflow(db, id, child, parent, seq, adopt) ==
    LET k == <<parent, seq>>
        holders == Holders(db, child.queue, child.dedup)
        created == id \notin DOMAIN db.wf /\ holders = {}
        target == IF id \in DOMAIN db.wf \/ created THEN id ELSE CHOOSE i \in holders : TRUE
        row == IF created THEN child ELSE db.wf[target]
    IN  IF k \in DOMAIN db.steps
        THEN IF db.steps[k].name # child.name \/ db.steps[k].child = None
             THEN Err(db, "WorkflowConflict")
             ELSE Ok(db, <<"Replayed", db.steps[k].child>>)
        ELSE IF parent \notin DOMAIN db.wf THEN Err(db, "NonexistentWorkflow")
        ELSE IF db.wf[parent].status = "CANCELLED" THEN Err(db, "Cancelled")
        ELSE IF id \notin DOMAIN db.wf /\ holders # {} /\ ~adopt
        THEN Err(db, "QueueDeduplicated")
        ELSE IF ~SameTarget(row, child) THEN Err(db, "TargetMismatch")
        ELSE Ok([db EXCEPT !.wf = IF created THEN Upsert(@, id, child) ELSE @,
                           !.steps = Upsert(@, k, [NewStep(child.name) EXCEPT !.child = target])],
                <<"Resolved", target, created>>)

MemRecordChildWorkflow(db, parent, seq, name, child) ==
    Ok([db EXCEPT !.steps = InsertNew(@, <<parent, seq>>,
                                      [NewStep(name) EXCEPT !.child = child])],
       None)
MemCheckChildWorkflow(db, parent, seq) ==
    IF <<parent, seq>> \in DOMAIN db.steps /\ db.steps[<<parent, seq>>].child # None
    THEN <<db.steps[<<parent, seq>>].child, db.steps[<<parent, seq>>].name>>
    ELSE None
MemGetWorkflowSteps(db, id) ==
    [n \in {k[2] : k \in {j \in DOMAIN db.steps : j[1] = id}} |-> db.steps[<<id, n>>]]
MemGetStepName(db, id, seq) ==
    IF <<id, seq>> \in DOMAIN db.steps THEN db.steps[<<id, seq>>].name ELSE None
MemRecordPatch(db, id, seq, name) ==
    Ok([db EXCEPT !.steps = InsertNew(@, <<id, seq>>, NewStep(name))], None)

(* ------------------------------------- notifications, events, streams *)

MemPushNotifications(db, msgs, now) ==
    LET uuid(n) == MessageUuid(msgs[n], now, n)
        new == {n \in DOMAIN msgs : /\ \A o \in Range(db.notes) : o.uuid # uuid(n)
                                    /\ \A k \in 1..(n - 1) : uuid(k) # uuid(n)}
        fresh == SetToSortSeq(new, <)
    IN  IF \E x \in Range(msgs) : x.dest \notin DOMAIN db.wf
        THEN Err(db, "NonexistentWorkflow")
        ELSE Ok([db EXCEPT !.notes = @ \o [n \in DOMAIN fresh |->
                    LET x == msgs[fresh[n]]
                    IN  [uuid |-> uuid(fresh[n]), dest |-> x.dest, topic |-> x.topic,
                         msg |-> x.msg, consumed |-> FALSE, created |-> now]]], None)
MemInsertNotification(db, m, now) ==
    LET uuid == MessageUuid(m, now, 1)
    IN  IF m.dest \notin DOMAIN db.wf THEN Err(db, "NonexistentWorkflow")
        ELSE IF \E n \in Range(db.notes) : n.uuid = uuid THEN Ok(db, None)
        ELSE Ok([db EXCEPT !.notes = Append(@, [uuid |-> uuid, dest |-> m.dest,
                    topic |-> m.topic, msg |-> m.msg, consumed |-> FALSE,
                    created |-> now])], None)
MemSendFromWorkflow(db, id, seq, name, msgs, now) ==
    LET pushed == MemPushNotifications(db, msgs, now)
    IN  IF MemDiverges(db, id, seq, name) THEN Err(db, "UnexpectedStep")
        ELSE IF MemRecordedAt(db, id, seq) THEN Ok(db, None)
        ELSE IF pushed.reply[1] = "Err" THEN pushed
        ELSE Ok(MemCheckpoint(pushed.db, id, seq, name, "null", now), None)

MemConsumeNotification(db, id, topic, seq, name, now) ==
    LET waiting == {n \in DOMAIN db.notes : /\ ~db.notes[n].consumed
                                            /\ db.notes[n].dest = id
                                            /\ db.notes[n].topic = topic}
        oldest == Min(waiting)  \* pushed in the order of created_at_ms
        taken == [db EXCEPT !.notes[oldest].consumed = TRUE]
    IN  IF MemDiverges(db, id, seq, name) THEN Err(db, "UnexpectedStep")
        ELSE IF MemRecordedAt(db, id, seq) THEN MemServe(db, db.steps[<<id, seq>>])
        ELSE IF waiting = {} THEN Ok(db, None)
        ELSE Ok(MemCheckpoint(taken, id, seq, name, db.notes[oldest].msg, now),
                db.notes[oldest].msg)

MemUpsertEvent(db, id, key, v) == Ok([db EXCEPT !.events = Upsert(@, <<id, key>>, v)], None)
MemGetEventValue(db, id, key) ==
    IF <<id, key>> \in DOMAIN db.events THEN <<"Ok", db.events[<<id, key>>]>> ELSE <<"Ok", None>>
MemListWorkflowEvents(db, id) ==
    [key \in {k[2] : k \in {j \in DOMAIN db.events : j[1] = id}} |-> db.events[<<id, key>>]]
MemListWorkflowNotifications(db, id) ==
    LET mine == SelectSeq(db.notes, LAMBDA n : n.dest = id)
    IN  [n \in DOMAIN mine |-> <<mine[n].topic, mine[n].msg, mine[n].created, mine[n].consumed>>]

(* A stream is sealed by its close marker.                                 *)
MemEntries(db, id, key) ==
    IF <<id, key>> \in DOMAIN db.streams THEN db.streams[<<id, key>>] ELSE <<>>
MemWriteStream(db, id, key, v) ==
    IF Closed \in Range(MemEntries(db, id, key)) THEN Err(db, "StreamClosed")
    ELSE Ok([db EXCEPT !.streams = Upsert(@, <<id, key>>, Append(MemEntries(db, id, key), v))],
            None)
MemWriteStreamFromWorkflow(db, id, seq, name, key, v, now) ==
    LET written == MemWriteStream(db, id, key, v)
    IN  IF MemDiverges(db, id, seq, name) THEN Err(db, "UnexpectedStep")
        ELSE IF MemRecordedAt(db, id, seq) THEN Ok(db, None)
        ELSE IF written.reply[1] = "Err" THEN written
        ELSE Ok(MemCheckpoint(written.db, id, seq, name, "null", now), None)
MemReadStream(db, id, key, from) ==
    LET rest == SubSeq(MemEntries(db, id, key), from + 1, Len(MemEntries(db, id, key)))
    IN  <<"Ok", Values(rest), Closed \in Range(rest)>>
MemListWorkflowStreams(db, id) ==
    [key \in {k[2] : k \in {j \in DOMAIN db.streams : j[1] = id}} |->
       Values(db.streams[<<id, key>>])]

(* ------------------------------------- schedules, versions, queues *)

MemCreateSchedule(db, name, s) ==
    IF name \in DOMAIN db.sched THEN Err(db, "Exists")
    ELSE Ok([db EXCEPT !.sched = Upsert(@, name, s)], None)
(* upd gives the fields an update replaces.                                *)
MemUpdateSchedule(db, name, upd) ==
    IF name \notin DOMAIN db.sched THEN Err(db, "NotFound")
    ELSE Ok([db EXCEPT !.sched[name] = upd @@ @], None)
MemApplySchedules(db, new) == Ok([db EXCEPT !.sched = new @@ @], None)
MemListSchedules(db, statuses, workflows) ==
    Restrict(db.sched, {n \in DOMAIN db.sched : /\ In(db.sched[n].status, statuses)
                                                /\ In(db.sched[n].workflow, workflows)})
MemSetScheduleStatus(db, name, st) ==
    IF name \in DOMAIN db.sched THEN Ok([db EXCEPT !.sched[name].status = st], TRUE)
    ELSE Ok(db, FALSE)
MemSetScheduleLastFired(db, name, t) ==
    Ok([db EXCEPT !.sched = [n \in DOMAIN @ |-> IF n = name THEN [@[n] EXCEPT !.last = t]
                                                ELSE @[n]]], None)
MemDeleteSchedule(db, name) ==
    Ok([db EXCEPT !.sched = Restrict(@, DOMAIN @ \ {name})], name \in DOMAIN db.sched)

MemCreateApplicationVersion(db, v, now) ==
    Ok([db EXCEPT !.versions = InsertNew(@, v, now)], None)
MemListApplicationVersions(db) ==
    SetToSortSeq(DOMAIN db.versions, LAMBDA u, v : db.versions[u] > db.versions[v])
MemGetLatestApplicationVersion(db) ==
    IF DOMAIN db.versions = {} THEN None
    ELSE CHOOSE v \in DOMAIN db.versions :
           \A u \in DOMAIN db.versions : db.versions[u] <= db.versions[v]
MemSetLatestApplicationVersion(db, v, now) ==
    IF v \in DOMAIN db.versions THEN Ok([db EXCEPT !.versions[v] = now], TRUE)
    ELSE Ok(db, FALSE)

MemUpsertQueue(db, name, q, overwrite) ==
    IF overwrite \/ name \notin DOMAIN db.queues
    THEN Ok([db EXCEPT !.queues = Upsert(@, name, q)], None)
    ELSE Ok(db, None)
(* A queue as registered: also what the SQL tables have no column for.     *)
MemListQueues(db) == db.queues

(* ------------------------------------------------ export and import *)

MemText(v) == IF v = None THEN None ELSE Encode("portable_json", v)
MemExportedRow(r) == [r EXCEPT !.input = MemText(@), !.output = MemText(@)]
MemExportWorkflow(db, id, children) ==
    LET ids == IF children THEN Below(db, {id}) ELSE {id}
        sources == {db.wf[i].forked : i \in DOMAIN db.wf} \ {None}
    IN  IF id \notin DOMAIN db.wf THEN <<"Err", "NonexistentWorkflow">>
        ELSE <<"Ok", [i \in ids |->
               [row |-> MemExportedRow(db.wf[i]),
                fmt |-> None, source |-> i \in sources,
                ops |-> [n \in DOMAIN MemGetWorkflowSteps(db, i) |->
                           <<[db.steps[<<i, n>>] EXCEPT !.output = MemText(@)], None>>],
                events |-> [k \in DOMAIN MemListWorkflowEvents(db, i) |->
                              MemText(db.events[<<i, k>>])],
                streams |-> [k \in {j \in DOMAIN db.streams : j[1] = i} |->
                               [n \in DOMAIN db.streams[k] |->
                                  IF db.streams[k][n] = Closed THEN ClosedText
                                  ELSE MemText(db.streams[k][n])]]]]>>

(* Payloads are read as plain JSON text; anything else is dropped.         *)
MemPlain(t) == IF t # None /\ t[1] = "portable_json" THEN t[2] ELSE None
MemImportedRow(r) ==
    [r EXCEPT !.input = OrDefault(MemPlain(@), "null"), !.output = MemPlain(@), !.attrs = None,
              !.limited = FALSE, !.version = OrDefault(@, "")]
MemImportWorkflow(db, dump) ==
    LET keys(i, table) == {<<i, n>> : n \in table}
    IN  IF DOMAIN dump \cap DOMAIN db.wf # {} THEN Err(db, "Exists")
        ELSE Ok([db EXCEPT
               !.wf = Overlay([i \in DOMAIN dump |-> MemImportedRow(dump[i].row)], @),
               !.steps = [k \in UNION {keys(i, DOMAIN dump[i].ops) : i \in DOMAIN dump} |->
                            [dump[k[1]].ops[k[2]][1] EXCEPT !.output = MemPlain(@)]] @@ @,
               !.events = [k \in UNION {keys(i, DOMAIN dump[i].events) : i \in DOMAIN dump} |->
                             OrDefault(MemPlain(dump[k[1]].events[k[2]]), "null")] @@ @,
               !.streams = Overlay([k \in UNION {DOMAIN dump[i].streams : i \in DOMAIN dump} |->
                              [n \in DOMAIN dump[k[1]].streams[k] |->
                                 LET t == dump[k[1]].streams[k][n]
                                 IN  IF t = ClosedText THEN Closed ELSE MemPlain(t)]], @)], None)
=============================================================================
