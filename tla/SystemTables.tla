---------------------------- MODULE SystemTables ----------------------------
(* What the three backends of StateProvider share: the rows of the system  *)
(* tables, how values are stored, and the helpers of provider.rs that more *)
(* than one backend calls.                                                 *)
(*                                                                         *)
(* A store is a record of tables, each a function from primary keys.  An   *)
(* operation of a backend maps a store and its arguments to the store it   *)
(* leaves and the reply it gives; one that fails leaves its transaction    *)
(* rolled back.  Times are whole numbers; updated_at, the authenticated    *)
(* user and roles and the write-once owner_xid are left out, and a row's   *)
(* name stands for its name, class and configuration.                      *)
EXTENDS Integers, Sequences, FiniteSets, SequencesExt, FiniteSetsExt, Functions

CONSTANT None       \* an absent value: SQL NULL, Option::None

Live == {"PENDING", "ENQUEUED", "DELAYED"}
Finished == {"SUCCESS", "ERROR"}
(* Faulty form, for the mutants: a failure does not count as an end.       *)
ErrorForgotten(s) == s \in {"SUCCESS", "CANCELLED", "MAX_RECOVERY"}
IsTerminal(s) == s \in Finished \cup {"CANCELLED", "MAX_RECOVERY"}

(* A fresh row of workflow_status, WorkflowStatus::new.                    *)
NewStatus(name, input, status, executor, version, now) ==
    [name |-> name, status |-> status, input |-> input, output |-> None,
     error |-> None, executor |-> executor, version |-> version,
     queue |-> None, part |-> None, priority |-> 0, dedup |-> None,
     attempts |-> 0, parent |-> None, timeout |-> None, deadline |-> None,
     started |-> None, limited |-> FALSE, delay |-> None,
     completed |-> None, forked |-> None, created |-> now, attrs |-> None]

(* The version as it is persisted, app_version_opt: NULL when it is empty. *)
AppVersionOpt(v) == IF v = "" THEN None ELSE v
OrDefault(v, d) == IF v = None THEN d ELSE v

(* A row of operation_outputs or of the in-memory step table.              *)
NewStep(name) ==
    [name |-> name, output |-> None, error |-> None, child |-> None,
     started |-> None, completed |-> None]

(* Stored text is a value under an encoding.  The default serializer       *)
(* writes base64 JSON and the portable one plain JSON; a row without a     *)
(* format is read as base64 JSON whatever the provider's own serializer.   *)
Serializer == {"DBOS_JSON", "portable_json"}
Encode(ser, v) == <<ser, v>>
Decode(fmt, text) ==
    IF text[1] = OrDefault(fmt, "DBOS_JSON") THEN <<"Ok", text[2]>>
    ELSE <<"Err", "Serialization">>
DecodeOpt(fmt, text) == IF text = None THEN <<"Ok", None>> ELSE Decode(fmt, text)
OkOr(result, d) == IF result[1] = "Ok" THEN result[2] ELSE d

(* Replies.                                                                *)
Ok(db, v) == [db |-> db, reply |-> <<"Ok", v>>]
Err(db, e) == [db |-> db, reply |-> <<"Err", e>>]

(* Two tables together; the first one's row where both have the key.  Then *)
(* INSERT ... ON CONFLICT DO NOTHING, and ON CONFLICT DO UPDATE.           *)
Overlay(f, g) == [k \in DOMAIN f \cup DOMAIN g |-> IF k \in DOMAIN f THEN f[k] ELSE g[k]]
InsertNew(table, key, row) == Overlay(table, [k \in {key} |-> row])
Upsert(table, key, row) == Overlay([k \in {key} |-> row], table)

(* UPDATE ... SET upd WHERE the primary key is in ids.                     *)
UpdateRows(db, ids, upd(_)) ==
    [db EXCEPT !.wf = [i \in DOMAIN db.wf |->
                        IF i \in ids THEN upd(db.wf[i]) ELSE db.wf[i]]]

(* Rows that hold a queue's deduplication slot.                            *)
Holders(db, queue, dedup) ==
    {i \in DOMAIN db.wf : /\ queue # None /\ db.wf[i].queue = queue
                          /\ dedup # None /\ db.wf[i].dedup = dedup}

(* ids, and all rows below them by parent_workflow_id: the least set with  *)
(* ids that has every row whose parent it has.                             *)
Below(db, ids) ==
    LET all == ids \cup DOMAIN db.wf
        closed(S) == \A i \in DOMAIN db.wf : db.wf[i].parent \in S => i \in S
    IN  {i \in all : \A S \in SUBSET all : ids \subseteq S /\ closed(S) => i \in S}

(* How many rows a dequeue may claim, recent and pending being what the    *)
(* rate and the global limit count.                                        *)
Room(req, recent, pending) ==
    Min({req.max}
        \cup (IF req.rate = None THEN {} ELSE {Max({0, req.rate - Cardinality(recent)})})
        \cup (IF req.global = None THEN {}
              ELSE {Max({0, req.global - Cardinality(pending)})}))
(* The first n of ids, ORDER BY priority, created_at.                      *)
FirstOf(rows, ids, n) ==
    LET order == SetToSortSeq(ids,
                     LAMBDA i, j : \/ rows[i].priority < rows[j].priority
                                   \/ /\ rows[i].priority = rows[j].priority
                                      /\ rows[i].created < rows[j].created)
    IN  IF n <= 0 THEN <<>> ELSE SubSeq(order, 1, Min({n, Len(order)}))

(* A child resolved to a row of another workflow, check_child_target.      *)
SameTarget(row, child) == row.name = child.name

(* What a step's columns replay, step_outcome_from: nothing if neither an  *)
(* output nor an error is recorded.                                        *)
StepOutcomeFrom(fmt, output, error) ==
    IF error # None THEN <<"Failure", error>>
    ELSE IF output # None
         THEN LET d == Decode(fmt, output)
              IN IF d[1] = "Ok" THEN <<"Output", d[2]>> ELSE d
         ELSE None

(* The newer of the two bounds of a garbage collection, nth being the      *)
(* completed_at of the rows_threshold-th newest completed workflow.        *)
ResolveGcCutoff(cutoff, nth) ==
    IF nth # None /\ (cutoff = None \/ nth > cutoff) THEN nth ELSE cutoff

(* The rows of a bag of times, given as [row id -> time], as new as t.     *)
Newer(times, t) == {j \in DOMAIN times : times[j] >= t}
(* Faulty form, for the mutants: off by one.                               *)
OneFewer(times, n) ==
    LET reached == {t \in Range(times) : Cardinality(Newer(times, t)) >= n - 1}
    IN  IF reached = {} THEN None ELSE Max(reached)

(* The n-th largest of a bag of times: the last time that n rows reached.  *)
NthNewest(times, n) ==
    LET reached == {t \in Range(times) : Cardinality(Newer(times, t)) >= n}
    IN  IF reached = {} THEN None ELSE Max(reached)

(* Rows ORDER BY created_at, OFFSET and LIMIT applied.                     *)
Page(rows, ids, filter) ==
    LET asc == SetToSortSeq(ids, LAMBDA i, j : rows[i].created < rows[j].created)
        all == IF filter.desc THEN Reverse(asc) ELSE asc
        upto == IF filter.limit = None THEN Len(all) ELSE filter.offset + filter.limit
    IN  SubSeq(all, filter.offset + 1, Min({upto, Len(all)}))

(* Column IN (values), for a filter that lists any.                        *)
In(col, vals) == vals = {} \/ col \in vals
AtLeast(col, t) == t = None \/ (col # None /\ col >= t)
AtMost(col, t) == t = None \/ (col # None /\ col <= t)

(* A keyed message's identity is its key and destination, so that a retry  *)
(* finds it; an unkeyed one is always new.                                 *)
MessageUuid(m, now, n) ==
    IF m.key = None THEN <<"", m.dest, now, n>> ELSE <<m.key, m.dest, 0, 0>>

(* Values of a stream's stored entries up to the close marker.             *)
Closed == "__DBOS_STREAM_CLOSED__"
ClosedText == <<"verbatim", Closed>>
ClosedAt(entries) == {n \in DOMAIN entries : entries[n] = Closed}
Values(entries) ==
    IF ClosedAt(entries) = {} THEN entries
    ELSE SubSeq(entries, 1, Min(ClosedAt(entries)) - 1)
=============================================================================
