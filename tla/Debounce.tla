----------------------------- MODULE Debounce ------------------------------
(* Debouncing of one key: run_debounce, called by any number of producers  *)
(* of the engine or the client, and internal_debouncer, the collector      *)
(* workflow that starts the target.                                        *)
(*                                                                         *)
(* Time is left out: a collector's delay may be over, and an ACK overdue,  *)
(* at any moment.  The collector is a workflow with durable steps, so its  *)
(* execution is modelled as one that does not fail.                        *)
(*                                                                         *)
(* Left out: the target's options, calls that fail, and the cancellation   *)
(* or deletion of a collector.                                             *)
EXTENDS Integers, Sequences, FiniteSets

CONSTANTS
    Call,         \* calls of debounce for the key, each with its own input
    MaxRounds,    \* bound on the turns of run_debounce's loop
    NoTarget
(* The loop is entered.                                                    *)
ASSUME DebounceAssumption == MaxRounds \in Nat \ {0}

VARIABLES
    calls,        \* [Call -> pc, round, collector found, target returned]
    before,       \* [Call -> calls that had returned when it began]
    held,         \* the collector that holds the deduplication key
    col,          \* collectors, by the round that enqueued them: pc and input
    inbox,        \* [collector -> pushed inputs not taken yet, in order]
    acked,        \* messages whose ACK event is set
    ran           \* [target -> the call whose input it was started with]
debVars == <<calls, before, held, col, inbox, acked, ran>>

(* A collector, its target and a message are named by the round that       *)
(* creates them: each takes fresh ids.                                     *)
Round == Call \X (1 .. MaxRounds)
Me(c) == <<c, calls[c].round>>
DebounceInit ==
    /\ calls = [c \in Call |-> [pc |-> "new", round |-> 0, to |-> NoTarget, target |-> NoTarget]]
    /\ before = [c \in Call |-> {}]
    /\ held = NoTarget
    /\ col = [k \in Round |-> [pc |-> "none", input |-> k[1], msg |-> NoTarget]]
    /\ inbox = [k \in Round |-> <<>>]
    /\ acked = {} /\ ran = [k \in Round |-> NoTarget]

(* ------------------------------------------------------------ producers *)

NextRound(c) == [calls EXCEPT ![c].pc = "enqueue", ![c].round = @ + 1, ![c].to = NoTarget]
Answered(c, t) == [calls EXCEPT ![c].pc = "back", ![c].target = t]
Returned == {c \in Call : calls[c].pc = "back"}
BeginCall(c) ==
    /\ calls[c].pc = "new"
    /\ calls' = NextRound(c) /\ before' = [before EXCEPT ![c] = Returned]
    /\ UNCHANGED <<held, col, inbox, acked, ran>>
(* The key is free: this call's collector holds it.                        *)
EnqueueDebouncer(c) ==
    /\ calls[c].pc = "enqueue"
    /\ IF held = NoTarget
       THEN /\ held' = Me(c) /\ col' = [col EXCEPT ![Me(c)].pc = "collect"]
            /\ calls' = Answered(c, Me(c))
       ELSE /\ calls' = [calls EXCEPT ![c].pc = "find"] /\ UNCHANGED <<held, col>>
    /\ UNCHANGED <<before, inbox, acked, ran>>
(* QueueDeduplicated: the holder is looked up, or has finished meanwhile.  *)
FindHolder(c) ==
    /\ calls[c].pc = "find"
    /\ \/ held # NoTarget /\ calls' = [calls EXCEPT ![c].pc = "send", ![c].to = held]
       \/ held = NoTarget /\ calls[c].round < MaxRounds /\ calls' = NextRound(c)
    /\ UNCHANGED <<before, held, col, inbox, acked, ran>>
SendDebounce(c) ==
    /\ calls[c].pc = "send"
    /\ inbox' = [inbox EXCEPT ![calls[c].to] = Append(@, Me(c))]
    /\ calls' = [calls EXCEPT ![c].pc = "ack"]
    /\ UNCHANGED <<before, held, col, acked, ran>>
(* Faulty form, for the mutants: the send alone counts as taken.           *)
NoAckNeeded(c) ==
    /\ calls[c].pc = "ack" /\ calls' = Answered(c, calls[c].to)
    /\ UNCHANGED <<before, held, col, inbox, acked, ran>>
GetAck(c) ==
    /\ calls[c].pc = "ack" /\ Me(c) \in acked
    /\ calls' = Answered(c, calls[c].to)
    /\ UNCHANGED <<before, held, col, inbox, acked, ran>>
AckTimeout(c) ==
    /\ calls[c].pc = "ack" /\ Me(c) \notin acked /\ calls[c].round < MaxRounds
    /\ calls' = NextRound(c)
    /\ UNCHANGED <<before, held, col, inbox, acked, ran>>

(* ------------------------------------------------------------ collector *)

(* The time is up before the next recv, or recv takes a message, or it     *)
(* finds none, past its deadline, and checkpoints the timeout.             *)
TimeUp(k) ==
    /\ col[k].pc = "collect" /\ col' = [col EXCEPT ![k].pc = "start"]
    /\ UNCHANGED <<calls, before, held, inbox, acked, ran>>
Collect(k) ==
    /\ col[k].pc = "collect" /\ inbox[k] # <<>>
    /\ LET m == Head(inbox[k]) IN
       col' = [col EXCEPT ![k] = [pc |-> "ack", input |-> m[1], msg |-> m]]
    /\ inbox' = [inbox EXCEPT ![k] = Tail(@)]
    /\ UNCHANGED <<calls, before, held, acked, ran>>
RecvMiss(k) ==
    /\ col[k].pc = "collect" /\ inbox[k] = <<>>
    /\ col' = [col EXCEPT ![k].pc = "expire"]
    /\ UNCHANGED <<calls, before, held, inbox, acked, ran>>
RecvExpires(k) ==
    /\ col[k].pc = "expire" /\ col' = [col EXCEPT ![k].pc = "start"]
    /\ UNCHANGED <<calls, before, held, inbox, acked, ran>>
(* set_event under the message's id.                                       *)
SetAck(k) ==
    /\ col[k].pc = "ack"
    /\ acked' = acked \cup {col[k].msg}
    /\ col' = [col EXCEPT ![k].pc = "collect"]
    /\ UNCHANGED <<calls, before, held, inbox, ran>>
(* Faulty form, for the mutants: nothing to start without a pushed input.  *)
StartPushed(k) ==
    /\ col[k].pc = "start"
    /\ ran' = IF col[k].msg = NoTarget THEN ran ELSE [ran EXCEPT ![k] = col[k].input]
    /\ col' = [col EXCEPT ![k].pc = "finish"]
    /\ UNCHANGED <<calls, before, held, inbox, acked>>
(* The target is a child under the id every producer was handed.           *)
StartTarget(k) ==
    /\ col[k].pc = "start"
    /\ ran' = [ran EXCEPT ![k] = col[k].input]
    /\ col' = [col EXCEPT ![k].pc = "finish"]
    /\ UNCHANGED <<calls, before, held, inbox, acked>>
(* The collector's outcome is recorded, which frees the key.               *)
FinishCollector(k) ==
    /\ col[k].pc = "finish"
    /\ col' = [col EXCEPT ![k].pc = "done"] /\ held' = NoTarget
    /\ UNCHANGED <<calls, before, inbox, acked, ran>>

CallStep(c) ==
    BeginCall(c) \/ EnqueueDebouncer(c) \/ FindHolder(c) \/ SendDebounce(c) \/ GetAck(c)
        \/ AckTimeout(c)
CollectorStep(k) ==
    TimeUp(k) \/ Collect(k) \/ RecvMiss(k) \/ RecvExpires(k) \/ SetAck(k)
        \/ StartTarget(k) \/ FinishCollector(k)
DebounceNext ==
    (\E c \in Call : CallStep(c)) \/ (\E k \in Round : CollectorStep(k))
(* An engine runs the collector; nothing is assumed of the producers.      *)
DebounceFairness == WF_debVars(\E k \in Round : CollectorStep(k))
DebounceSpec == DebounceInit /\ [][DebounceNext]_debVars /\ DebounceFairness

(* A target never runs with an input that was superseded: no call that     *)
(* returned this target began after the call it runs for had returned.     *)
LatestInputRuns ==
    \A c \in Returned :
        LET t == calls[c].target IN ran[t] # NoTarget => ran[t] \notin before[c]

(* The target id a call returns is one that is started: whatever calls     *)
(* have returned, a moment comes when all their targets have run.          *)
TargetStarts == []<>(\A c \in Returned : ran[calls[c].target] # NoTarget)
=============================================================================
