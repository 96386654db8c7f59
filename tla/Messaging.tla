----------------------------- MODULE Messaging -----------------------------
(* Messages and events between workflows.  A receiving workflow calls recv *)
(* and get_event in the order of its program, in any number of executions  *)
(* at once; keyed sends from outside and the send of another workflow fill *)
(* its mailbox; a third workflow sets the event twice.  Executions crash   *)
(* and start again from their checkpoints.                                 *)
(*                                                                         *)
(* A message carries its sender's clock, read before the insert commits:   *)
(* stamps of two senders may be equal, or in another order than the        *)
(* messages arrive in.                                                     *)
(*                                                                         *)
(* Left out: several topics (a mailbox each), cancellation and values that *)
(* do not decode.                                                          *)
EXTENDS Integers, Sequences

CONSTANTS
    RecvExec,     \* executions of the receiving workflow
    SetExec,      \* executions of the workflow that sets the event
    SendExec,     \* executions of the workflow that sends
    SendKey,      \* idempotency keys of sends from outside
    StepMsg,      \* the message of the workflow's send
    NumWaits,     \* calls of the receiving workflow
    Scenes,       \* what is explored: [program, clock, senders, setters]
    WaitTime,     \* the timeout given to recv and get_event
    LastTick,     \* bound on the clock
    MaxRestarts,  \* bound on crashes
    NoRow, Nothing

VARIABLES
    scene,        \* the scene explored: its program is over {"recv", "event"},
                  \* its clock gives the created_at_epoch_ms of every message
    time,
    mail,         \* notifications of the topic as they arrived: [m, at, consumed]
    row,          \* [Waits -> the checkpoint of the wait], Nothing for a timeout
    due,          \* [Waits -> the checkpoint of its deadline]
    rx,           \* [RecvExec -> pc, position, deadline, what it read, returns]
    sx,           \* [SendExec -> its state at the send]
    sendRow,      \* the checkpoint of the send
    event,        \* the value of the event: 0 while it is not set
    evRow,        \* [1..2 -> the checkpoint of set_event exists]
    wx,           \* [SetExec -> pc, position]
    restarts
msgVars == <<scene, time, mail, row, due, rx, sx, sendRow, event, evRow, wx, restarts>>
recvVars == <<row, due, rx>>
sendVars == <<sx, sendRow>>
setVars == <<event, evRow, wx>>

Waits == 1 .. NumWaits
Messages == SendKey \cup {StepMsg}
ASSUME MessagingAssumption ==
    /\ NumWaits \in Nat \ {0} /\ WaitTime \in Nat /\ StepMsg \notin SendKey
    /\ Scenes \subseteq [program : [Waits -> {"recv", "event"}], clock : [Messages -> Nat],
                         senders : SUBSET SendExec, setters : SUBSET SetExec]
    /\ {NoRow, Nothing} \cap (Messages \cup Nat) = {} /\ NoRow # Nothing

NewWait == [pc |-> "look", pos |-> 1, due |-> NoRow, val |-> 0, got |-> <<>>]
MessagingInit ==
    /\ scene \in Scenes
    /\ time = 0 /\ mail = <<>>
    /\ row = [i \in Waits |-> NoRow] /\ due = [i \in Waits |-> NoRow]
    /\ rx = [e \in RecvExec |-> NewWait]
    /\ sx = [e \in SendExec |-> "look"] /\ sendRow = FALSE
    /\ event = 0 /\ evRow = [i \in 1 .. 2 |-> FALSE]
    /\ wx = [e \in SetExec |-> [pc |-> "look", pos |-> 1]]
    /\ restarts = 0

(* ------------------------------------------------------------- senders *)

Sent(m) == \E i \in DOMAIN mail : mail[i].m = m
Append1(m) == Append(mail, [m |-> m, at |-> scene.clock[m], consumed |-> FALSE])
(* insert_notification under a key: sent again, it changes nothing.        *)
SendKeyed(k) ==
    /\ mail' = IF Sent(k) THEN mail ELSE Append1(k)
    /\ UNCHANGED <<scene, time, recvVars, sendVars, setVars, restarts>>
(* send: the replayed position sends nothing, nor does one that a rival    *)
(* checkpointed since; the checkpoint and the message commit together.     *)
LookSend(e) ==
    /\ sx[e] = "look"
    /\ sx' = [sx EXCEPT ![e] = IF sendRow THEN "done" ELSE "send"]
    /\ UNCHANGED <<scene, time, mail, recvVars, sendRow, setVars, restarts>>
SendStep(e) ==
    /\ sx[e] = "send"
    /\ mail' = IF sendRow THEN mail ELSE Append1(StepMsg)
    /\ sendRow' = TRUE /\ sx' = [sx EXCEPT ![e] = "done"]
    /\ UNCHANGED <<scene, time, recvVars, setVars, restarts>>

(* --------------------------------------------------- recv and get_event *)

Pos(e) == rx[e].pos
AtWait(e, pc) == rx[e].pc = pc
Goto(e, pc) == rx' = [rx EXCEPT ![e].pc = pc]
(* The call returns v, and the function goes on to the next one.           *)
Return(e, v) ==
    rx' = [rx EXCEPT ![e] = [NewWait EXCEPT !.pos = Pos(e) + 1, !.got = Append(rx[e].got, v),
                                 !.pc = IF Pos(e) = NumWaits THEN "over" ELSE "look"]]
Others == UNCHANGED <<scene, time, sendVars, setVars, restarts>>

LookWait(e) ==
    /\ AtWait(e, "look")
    /\ IF row[Pos(e)] # NoRow THEN Return(e, row[Pos(e)]) ELSE Goto(e, "check")
    /\ UNCHANGED <<mail, row, due>> /\ Others

Unread == {i \in DOMAIN mail : ~mail[i].consumed}
Oldest == {i \in Unread : \A j \in Unread : mail[i].at <= mail[j].at}
Locked(i) == \E d \in RecvExec : AtWait(d, "take") /\ rx[d].val = i
(* consume_notification: a settled position is served; an empty mailbox    *)
(* is a miss; the statement settles on an oldest message as it begins.     *)
ClaimMessage(e) ==
    /\ AtWait(e, "check") /\ scene.program[Pos(e)] = "recv"
    /\ IF row[Pos(e)] # NoRow THEN Return(e, row[Pos(e)])
       ELSE IF Unread = {} THEN Goto(e, "deadline")
       ELSE \E i \in Oldest : rx' = [rx EXCEPT ![e].pc = "claim", ![e].val = i]
    /\ UNCHANGED <<mail, row, due>> /\ Others
(* It waits for a rival that has the row; consumed by then, the message is *)
(* not had, and what the rival settled is served.                          *)
LockMessage(e) ==
    /\ AtWait(e, "claim") /\ ~Locked(rx[e].val)
    /\ IF ~mail[rx[e].val].consumed THEN Goto(e, "take")
       ELSE IF row[Pos(e)] # NoRow THEN Return(e, row[Pos(e)])
       ELSE Goto(e, "deadline")
    /\ UNCHANGED <<mail, row, due>> /\ Others
(* Faulty form, for the mutants: the message is taken whoever holds the    *)
(* position.                                                               *)
TakeRegardless(e) ==
    /\ AtWait(e, "take")
    /\ row' = [row EXCEPT ![Pos(e)] = IF @ = NoRow THEN mail[rx[e].val].m ELSE @]
    /\ mail' = [mail EXCEPT ![rx[e].val].consumed = TRUE]
    /\ Return(e, row'[Pos(e)])
    /\ UNCHANGED due /\ Others
(* The checkpoint decides: with the position taken by a rival since, the   *)
(* message goes back and the rival's outcome is served.                    *)
TakeMessage(e) ==
    /\ AtWait(e, "take")
    /\ IF row[Pos(e)] # NoRow
       THEN Return(e, row[Pos(e)]) /\ UNCHANGED <<mail, row>>
       ELSE /\ row' = [row EXCEPT ![Pos(e)] = mail[rx[e].val].m]
            /\ mail' = [mail EXCEPT ![rx[e].val].consumed = TRUE]
            /\ Return(e, mail[rx[e].val].m)
    /\ UNCHANGED due /\ Others

(* get_event: the value is read, then checkpointed in its own statement;   *)
(* a rival's different value is a conflict, which ends the execution.      *)
ReadEvent(e) ==
    /\ AtWait(e, "check") /\ scene.program[Pos(e)] = "event"
    /\ IF event = 0 THEN Goto(e, "deadline")
       ELSE rx' = [rx EXCEPT ![e].pc = "record", ![e].val = event]
    /\ UNCHANGED <<mail, row, due>> /\ Others
(* Faulty form, for the mutants: the loser keeps the value it read.        *)
RecordOwn(e, v) ==
    /\ row' = IF row[Pos(e)] = NoRow THEN [row EXCEPT ![Pos(e)] = v] ELSE row
    /\ Return(e, v)
(* record_step_result.                                                     *)
Record(e, v) ==
    IF row[Pos(e)] = NoRow THEN row' = [row EXCEPT ![Pos(e)] = v] /\ Return(e, v)
    ELSE row' = row /\ IF row[Pos(e)] = v THEN Return(e, v) ELSE Goto(e, "conflict")
RecordEvent(e) ==
    /\ AtWait(e, "record") /\ Record(e, rx[e].val)
    /\ UNCHANGED <<mail, due>> /\ Others

(* The first miss fixes the deadline durably: the recorded one is served,  *)
(* or a new one is checkpointed; losing that checkpoint is a conflict.     *)
LookDeadline(e) ==
    /\ AtWait(e, "deadline")
    /\ rx' = IF rx[e].due = NoRow /\ due[Pos(e)] = NoRow
             THEN [rx EXCEPT ![e].pc = "fix", ![e].due = time + WaitTime]
             ELSE [rx EXCEPT ![e].pc = "timer",
                             ![e].due = IF @ = NoRow THEN due[Pos(e)] ELSE @]
    /\ UNCHANGED <<mail, row, due>> /\ Others
FixDeadline(e) ==
    /\ AtWait(e, "fix")
    /\ due' = IF due[Pos(e)] = NoRow THEN [due EXCEPT ![Pos(e)] = rx[e].due] ELSE due
    /\ Goto(e, IF due'[Pos(e)] = rx[e].due THEN "timer" ELSE "conflict")
    /\ UNCHANGED <<mail, row>> /\ Others
Timer(e) ==
    /\ AtWait(e, "timer")
    /\ Goto(e, IF time >= rx[e].due THEN "expire" ELSE "wait")
    /\ UNCHANGED <<mail, row, due>> /\ Others
(* Woken by the change, or by the poll interval.                           *)
WakeWait(e) ==
    /\ AtWait(e, "wait") /\ Goto(e, "check")
    /\ UNCHANGED <<mail, row, due>> /\ Others
(* Past the deadline the timeout is checkpointed; a message that arrived   *)
(* since the miss stays in the mailbox.                                    *)
Expire(e) ==
    /\ AtWait(e, "expire") /\ Record(e, Nothing)
    /\ UNCHANGED <<mail, due>> /\ Others

(* --------------------------------------------------------- set_event *)

(* Faulty form, for the mutants: no replay, the steps run again.           *)
LookEventSkips(e) ==
    /\ wx[e].pc = "look" /\ wx' = [wx EXCEPT ![e].pc = "upsert"]
    /\ UNCHANGED <<scene, time, mail, recvVars, sendVars, event, evRow, restarts>>
NextSet(e) == [pc |-> IF wx[e].pos = 2 THEN "over" ELSE "look", pos |-> wx[e].pos + 1]
LookEvent(e) ==
    /\ wx[e].pc = "look"
    /\ wx' = [wx EXCEPT ![e] = IF evRow[wx[e].pos] THEN NextSet(e) ELSE [wx[e] EXCEPT !.pc = "upsert"]]
    /\ UNCHANGED <<scene, time, mail, recvVars, sendVars, event, evRow, restarts>>
(* The value is written, then the step is checkpointed.                    *)
WriteEvent(e) ==
    /\ wx[e].pc = "upsert"
    /\ event' = wx[e].pos /\ wx' = [wx EXCEPT ![e].pc = "record"]
    /\ UNCHANGED <<scene, time, mail, recvVars, sendVars, evRow, restarts>>
RecordSet(e) ==
    /\ wx[e].pc = "record"
    /\ evRow' = [evRow EXCEPT ![wx[e].pos] = TRUE] /\ wx' = [wx EXCEPT ![e] = NextSet(e)]
    /\ UNCHANGED <<scene, time, mail, recvVars, sendVars, event, restarts>>

(* -------------------------------------------------------- environment *)

PassTime ==
    /\ time < LastTick /\ time' = time + 1
    /\ UNCHANGED <<scene, mail, recvVars, sendVars, setVars, restarts>>
(* An execution dies, its transaction rolled back, and is started again.   *)
RestartRecv(e) ==
    /\ restarts < MaxRestarts /\ restarts' = restarts + 1
    /\ rx' = [rx EXCEPT ![e] = NewWait]
    /\ UNCHANGED <<scene, time, mail, row, due, sendVars, setVars>>
RestartSet(e) ==
    /\ restarts < MaxRestarts /\ restarts' = restarts + 1
    /\ wx' = [wx EXCEPT ![e] = [pc |-> "look", pos |-> 1]]
    /\ UNCHANGED <<scene, time, mail, recvVars, sendVars, event, evRow>>

RecvStep(e) ==
    \/ LookWait(e) \/ ClaimMessage(e) \/ LockMessage(e) \/ TakeMessage(e) \/ ReadEvent(e)
    \/ RecordEvent(e) \/ LookDeadline(e) \/ FixDeadline(e) \/ Timer(e) \/ WakeWait(e) \/ Expire(e)
MessagingNext ==
    \/ \E k \in SendKey : SendKeyed(k)
    \/ \E e \in scene.senders : LookSend(e) \/ SendStep(e)
    \/ \E e \in RecvExec : RecvStep(e) \/ RestartRecv(e)
    \/ \E e \in scene.setters : LookEvent(e) \/ WriteEvent(e) \/ RecordSet(e) \/ RestartSet(e)
    \/ PassTime
MessagingSpec == MessagingInit /\ [][MessagingNext]_msgVars

(* The recv at w has message i for its checkpoint.                         *)
Took(i, w) == scene.program[w] = "recv" /\ row[w] = mail[i].m
(* Every consumed message is the checkpoint of exactly one recv, every     *)
(* recv's checkpoint is a message or the timeout, and of two messages the  *)
(* one that was stamped earlier and arrived first is taken first: a        *)
(* timeout, a crash or a rival execution neither loses a message nor       *)
(* delivers it twice or out of turn.                                       *)
MessageFate ==
    /\ \A i \in DOMAIN mail : mail[i].consumed <=> \E w \in Waits : Took(i, w)
    /\ \A w \in Waits :
         scene.program[w] = "recv" /\ row[w] \notin {NoRow, Nothing} =>
           \E i \in DOMAIN mail : Took(i, w)
    /\ \A i \in DOMAIN mail, w, x \in Waits : Took(i, w) /\ Took(i, x) => w = x
    /\ \A i, j \in DOMAIN mail, w, x \in Waits :
         i < j /\ mail[i].at < mail[j].at /\ Took(i, w) /\ Took(j, x) => w < x

(* What a wait returned to any execution is its checkpoint, so every       *)
(* replay and every rival see the same message, value or timeout.          *)
WaitsAgree ==
    \A e \in RecvExec : \A i \in DOMAIN rx[e].got : rx[e].got[i] = row[i]

(* One execution at a time sets the event.                                 *)
OneSetter == \A k \in Scenes : \A d, e \in k.setters : d = e

(* While one execution at a time runs the workflow, its event never goes   *)
(* back to a value set earlier, crashes between the write and its          *)
(* checkpoint included.                                                    *)
EventForward == [][event <= event']_event
=============================================================================
