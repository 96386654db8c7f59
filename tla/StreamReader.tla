--------------------------- MODULE StreamReader ----------------------------
(* Reading a workflow's stream while it is written: drain_stream and       *)
(* stream_values against write_stream, close_stream and the changes of the *)
(* producer's status that a reader looks at.                               *)
(*                                                                         *)
(* Left out: reads that fail, values that do not decode, a producer that   *)
(* is deleted, and rival executions of it (a write commits with its        *)
(* checkpoint, and a position writes once).                                *)
EXTENDS Integers, Sequences

CONSTANTS
    MaxWrites,    \* values the producer writes
    StreamStart   \* statuses of the producer when the reader begins

VARIABLES
    pstatus,      \* the producer's status
    stream,       \* committed values: 1, 2, ...
    closed,       \* the close sentinel follows them
    prod,         \* the producer's execution: "idle", "call" past the guard
    rd            \* the reader: kind, pc, values yielded and buffered, and
                  \* what the producer was when it was found inactive
streamVars == <<pstatus, stream, closed, prod, rd>>

(* A reader may begin before its producer runs, or while it does.          *)
ASSUME StreamAssumption == StreamStart \subseteq {"PENDING", "ENQUEUED", "DELAYED"}

Active == {"PENDING", "ENQUEUED"}
Ended == {"SUCCESS", "ERROR"}
StreamInit ==
    /\ pstatus \in StreamStart
    /\ stream = <<>> /\ closed = FALSE /\ prod = "idle"
    /\ rd \in [kind : {"drain", "values"}, pc : {"read"}, got : {<<>>}, buf : {<<>>},
               final : {FALSE}, mark : {0}, saw : {"PENDING"}]

(* ------------------------------------------------------------- producer *)

(* replay_or_guard: a cancelled workflow starts no further step.           *)
GuardWrite ==
    /\ pstatus = "PENDING" /\ prod = "idle" /\ prod' = "call"
    /\ UNCHANGED <<pstatus, stream, closed, rd>>
(* The value and the checkpoint commit, whatever the status is by then;    *)
(* a closed stream refuses it.                                             *)
WriteValue ==
    /\ prod = "call" /\ prod' = "idle" /\ Len(stream) < MaxWrites
    /\ stream' = IF closed THEN stream ELSE Append(stream, Len(stream) + 1)
    /\ UNCHANGED <<pstatus, closed, rd>>
CloseStream ==
    /\ prod = "call" /\ prod' = "idle" /\ closed' = TRUE
    /\ UNCHANGED <<pstatus, stream, rd>>
(* The function returns: all its steps are over.                           *)
FinishProducer(s) ==
    /\ pstatus = "PENDING" /\ prod = "idle" /\ pstatus' = s
    /\ UNCHANGED <<stream, closed, prod, rd>>
CancelProducer ==
    /\ pstatus \notin Ended /\ pstatus' = "CANCELLED"
    /\ UNCHANGED <<stream, closed, prod, rd>>
(* The delay ends; a dispatcher claims the row.                            *)
ReleaseProducer ==
    /\ \/ pstatus = "DELAYED" /\ pstatus' = "ENQUEUED"
       \/ pstatus = "ENQUEUED" /\ pstatus' = "PENDING"
    /\ UNCHANGED <<stream, closed, prod, rd>>

(* --------------------------------------------------------------- reader *)

Seen == Len(rd.got) + Len(rd.buf)
NewEntries == SubSeq(stream, Seen + 1, Len(stream))
(* One query returns the values from the offset on and the sentinel.  The  *)
(* draining reader looks at the sentinel first, the incremental one hands  *)
(* out what it read and queries again.                                     *)
ReadEntries ==
    /\ rd.pc = "read" /\ rd.buf = <<>>
    /\ rd' = IF rd.kind = "values" /\ NewEntries # <<>>
             THEN [rd EXCEPT !.buf = NewEntries]
             ELSE [rd EXCEPT !.got = @ \o NewEntries,
                             !.pc = IF closed \/ rd.final THEN "done" ELSE "status"]
    /\ UNCHANGED <<pstatus, stream, closed, prod>>
Yield ==
    /\ rd.pc = "read" /\ rd.buf # <<>>
    /\ rd' = [rd EXCEPT !.got = Append(@, Head(rd.buf)), !.buf = Tail(@)]
    /\ UNCHANGED <<pstatus, stream, closed, prod>>
(* Faulty form, for the mutants: an inactive producer ends the stream.     *)
EndWhenInactive ==
    /\ rd.pc = "status"
    /\ rd' = IF pstatus \in Active THEN [rd EXCEPT !.pc = "read"]
             ELSE [rd EXCEPT !.pc = "done", !.mark = Len(stream), !.saw = pstatus]
    /\ UNCHANGED <<pstatus, stream, closed, prod>>
(* An inactive producer is read once more, to the end.                     *)
ProducerStatus ==
    /\ rd.pc = "status"
    /\ rd' = IF pstatus \in Active THEN [rd EXCEPT !.pc = "read"]
             ELSE [rd EXCEPT !.pc = "read", !.final = TRUE, !.mark = Len(stream),
                             !.saw = pstatus]
    /\ UNCHANGED <<pstatus, stream, closed, prod>>

StreamNext ==
    \/ GuardWrite \/ WriteValue \/ CloseStream \/ CancelProducer \/ ReleaseProducer
    \/ \E s \in Ended : FinishProducer(s)
    \/ ReadEntries \/ Yield \/ ProducerStatus
StreamSpec == StreamInit /\ [][StreamNext]_streamVars

(* A reader gets the values in order and without gaps.  When it ends it    *)
(* has all that was committed when it found the producer inactive, and the *)
(* whole stream unless the producer was cancelled or had not begun,        *)
(* however the last writes fell between its query and its look at the      *)
(* status.                                                                 *)
DrainComplete ==
    /\ rd.got = SubSeq(stream, 1, Len(rd.got))
    /\ rd.pc = "done" =>
           /\ Len(rd.got) >= rd.mark
           /\ rd.saw \in {"CANCELLED", "DELAYED"} \/ rd.got = stream
=============================================================================
