----------------------------- MODULE SqlTables -----------------------------
(* The tables the two SQL backends share, and what their statements and    *)
(* their schema do: the foreign keys of steps, messages, events and        *)
(* streams, the unique index on a queue's deduplication ids, and ON        *)
(* CONFLICT.  Values are stored as text with the format it is in; an unset *)
(* application version is NULL.                                            *)
EXTENDS SystemTables

SqlEmpty(ser) ==
    [ser |-> ser, wf |-> <<>>, ops |-> <<>>, notes |-> <<>>, events |-> <<>>,
     streams |-> <<>>, sched |-> <<>>, versions |-> <<>>, queues |-> <<>>]

(* DELETE FROM workflow_status: the foreign keys cascade.                  *)
DeleteRows(db, gone) ==
    LET kept(t) == Restrict(t, {k \in DOMAIN t : k[1] \notin gone})
    IN  [db EXCEPT !.wf = Restrict(@, DOMAIN @ \ gone),
                   !.ops = kept(@), !.events = kept(@), !.streams = kept(@),
                   !.notes = Restrict(@, {u \in DOMAIN @ : @[u].dest \notin gone})]

(* The unique index on (queue_name, deduplication_id).                     *)
SlotsUnique(db) ==
    \A i \in DOMAIN db.wf : Holders(db, db.wf[i].queue, db.wf[i].dedup) \subseteq {i}

(* A step's columns with the format of its payload.                        *)
SqlStep(name, fmt) == NewStep(name) @@ ("fmt" :> fmt)
(* A stream's stored entries in the order of their offsets.                *)
StreamOf(db, id, key) ==
    LET mine == {k \in DOMAIN db.streams : k[1] = id /\ k[2] = key}
    IN  [n \in 1..Cardinality(mine) |->
           db.streams[CHOOSE k \in mine : Cardinality({j \in mine : j[3] < k[3]}) = n - 1]]

(* A schedule's row: last_fired_at is kept as an RFC 3339 text, context as *)
(* JSON text that is never NULL.                                           *)
Rfc3339(t) == IF t = None THEN None ELSE <<"rfc3339", t>>
ParseRfc3339(text) == IF text = None THEN None ELSE text[2]
EncodeContext(c) == IF c = None THEN <<"json", "null">> ELSE <<"json", c>>
DecodeContext(text) == IF text[2] = "null" THEN None ELSE text[2]

(* The columns a queue is stored in; the two other settings are the        *)
(* defaults again when it is read.                                         *)
QueueColumns == {"global", "worker", "rate", "period", "priority", "partitioned", "base"}
QueueDefaults == [perIteration |-> 100, maxPoll |-> 120]
=============================================================================
