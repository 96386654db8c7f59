-------------------------- MODULE MessagingProofs ---------------------------
(***************************************************************************)
(* What Messaging and StreamReader promise to those who wait and read.     *)
(***************************************************************************)
EXTENDS Messaging, StreamReader, SequenceTheorems, TLAPS

-----------------------------------------------------------------------------
(***************************************************************************)
(* Messages are received exactly once and in turn, and all executions of  *)
(* the receiver learn the same, for any number of executions, messages and *)
(* waits.                                                                  *)
(***************************************************************************)

Values == Messages \cup {Nothing} \cup Nat
WaitPcs == {"look", "check", "claim", "take", "record", "deadline", "fix", "timer", "wait", "expire",
            "conflict", "over"}
WaitCalls == [pc : WaitPcs, pos : 1 .. NumWaits + 1, due : Nat \cup {NoRow}, val : Nat,
              got : Seq(Values)]
Mail == [m : Messages, at : Nat, consumed : BOOLEAN]
MsgTypeOK ==
    /\ scene \in Scenes /\ time \in Nat /\ mail \in Seq(Mail)
    /\ row \in [Waits -> Values \cup {NoRow}] /\ due \in [Waits -> Nat \cup {NoRow}]
    /\ rx \in [RecvExec -> WaitCalls]
    /\ sendRow \in BOOLEAN /\ event \in Nat
    /\ wx \in [SetExec -> [pc : {"look", "upsert", "record", "over"}, pos : Nat]]

(* Whatever arrived before message i and is stamped earlier is consumed.   *)
Pinned(i) ==
    /\ i \in DOMAIN mail
    /\ \A j \in DOMAIN mail : j < i /\ mail[j].at < mail[i].at => mail[j].consumed
(* An execution has been told the checkpoints of the waits it has passed;  *)
(* the message it settled on is pinned, and unread while it has the row.   *)
CallSound(e) ==
    /\ Len(rx[e].got) + 1 = rx[e].pos
    /\ rx[e].pc # "over" => rx[e].pos \in Waits
    /\ \A w \in Waits : w < rx[e].pos => row[w] # NoRow /\ rx[e].got[w] = row[w]
    /\ rx[e].pc \in {"claim", "take"} =>
         scene.program[rx[e].pos] = "recv" /\ Pinned(rx[e].val)
    /\ rx[e].pc = "take" => rx[e].val \in Unread
    /\ rx[e].pc = "record" => scene.program[rx[e].pos] = "event"
LocksApart ==
    \A d, e \in RecvExec :
        rx[d].pc = "take" /\ rx[e].pc = "take" /\ rx[d].val = rx[e].val => d = e
(* A message is sent once, and the consumed ones are pinned.               *)
MailSound ==
    /\ \A i, j \in DOMAIN mail : mail[i].m = mail[j].m => i = j
    /\ \A i \in DOMAIN mail : mail[i].consumed => Pinned(i)
    /\ Sent(StepMsg) => sendRow
RowsSound == \A w, x \in Waits : w < x /\ row[x] # NoRow => row[w] # NoRow
MsgInv ==
    /\ MsgTypeOK /\ MailSound /\ RowsSound /\ MessageFate /\ LocksApart
    /\ \A e \in RecvExec : CallSound(e)

----------------------------------------------------------------------------
(* The prover of a leaf that names none.                                   *)
USE Zenon

LEMMA WaitsAre == 1 \in Waits /\ Waits \subseteq Nat \ {0} /\ NumWaits \in Nat
  BY MessagingAssumption, SMT DEF Waits

LEMMA NewWaitIs == NewWait \in WaitCalls
<1>1. <<>> \in Seq(Values) /\ 1 \in 1 .. NumWaits + 1
  BY MessagingAssumption, SMT
<1> QED BY <1>1 DEF NewWait, WaitCalls, WaitPcs

LEMMA InvStarts == MessagingInit => MsgInv
<1> SUFFICES ASSUME MessagingInit PROVE MsgInv
  OBVIOUS
<1>1. NewWait \in WaitCalls
  BY NewWaitIs
<1>2. mail \in Seq(Mail) /\ DOMAIN mail = {}
  BY SMT DEF MessagingInit
<1>3. MsgTypeOK
  <2>1. wx \in [SetExec -> [pc : {"look", "upsert", "record", "over"}, pos : Nat]]
    BY DEF MessagingInit
  <2>2. rx \in [RecvExec -> WaitCalls]
    BY <1>1 DEF MessagingInit
  <2> QED BY <1>2, <2>1, <2>2 DEF MessagingInit, MsgTypeOK
<1>4. MailSound /\ RowsSound
  BY <1>2 DEF MailSound, RowsSound, Sent, MessagingInit
<1>5. MessageFate
  BY <1>2 DEF MessageFate, MessagingInit
<1>6. ASSUME NEW e \in RecvExec PROVE CallSound(e)
  <2>1. rx[e] = NewWait
    BY DEF MessagingInit
  <2> QED BY <2>1, WaitsAre, SMT DEF CallSound, NewWait
<1>7. LocksApart
  <2>1. \A e \in RecvExec : rx[e].pc = "look"
    BY DEF MessagingInit, NewWait
  <2> QED BY <2>1 DEF LocksApart
<1> QED BY <1>3, <1>4, <1>5, <1>6, <1>7 DEF MsgInv

LEMMA InvGives == MsgInv => MessageFate /\ WaitsAgree
<1> SUFFICES ASSUME MsgInv, NEW e \in RecvExec, NEW i \in DOMAIN rx[e].got
             PROVE  rx[e].got[i] = row[i]
  BY DEF MsgInv, WaitsAgree
<1>1. rx[e] \in WaitCalls /\ CallSound(e)
  BY DEF MsgInv, MsgTypeOK
<1>2. rx[e].got \in Seq(Values) /\ rx[e].pos \in 1 .. NumWaits + 1
  BY <1>1 DEF WaitCalls
<1>3. i \in 1 .. Len(rx[e].got) /\ Len(rx[e].got) \in Nat
  BY <1>2, SMT
<1>4. i \in Waits /\ i < rx[e].pos
  BY <1>1, <1>2, <1>3, WaitsAre, SMT DEF CallSound, Waits
<1> QED BY <1>1, <1>4 DEF CallSound

(* What the executions in D see of a step.                                 *)
MailKept(D) ==
    /\ \A i : Pinned(i) => Pinned(i)'
    /\ \A d \in D : rx[d].pc = "take" /\ rx[d].val \in Unread => rx[d].val \in Unread'
Keeps(D) ==
    /\ scene' = scene
    /\ \A w \in Waits : row[w] # NoRow => row'[w] = row[w]
    /\ \A d \in D : rx'[d] = rx[d]
    /\ MailKept(D)

LEMMA SameMail ==
    ASSUME mail' = mail, NEW D
    PROVE  MailKept(D) /\ Unread' = Unread /\ \A i : Pinned(i)' <=> Pinned(i)
  BY DEF MailKept, Pinned, Unread

LEMMA CallsStay ==
    ASSUME MsgInv, NEW D \in SUBSET RecvExec, Keeps(D) PROVE \A d \in D : CallSound(d)'
<1> SUFFICES ASSUME NEW d \in D PROVE CallSound(d)'
  OBVIOUS
<1>1. CallSound(d)
  BY DEF MsgInv
<1>2. /\ scene' = scene /\ \A w \in Waits : row[w] # NoRow => row'[w] = row[w]
      /\ rx'[d] = rx[d] /\ \A i : Pinned(i) => Pinned(i)'
      /\ rx[d].pc = "take" /\ rx[d].val \in Unread => rx[d].val \in Unread'
  BY DEF Keeps, MailKept
<1>3. \A i : i = rx[d].val => (Pinned(rx[d].val)' <=> Pinned(i)')
  BY <1>2 DEF Pinned
<1> HIDE DEF Unread
<1> QED BY <1>1, <1>2, <1>3 DEF CallSound

(* One execution moves, and has a row only if no other has it.             *)
LEMMA LocksStay ==
    ASSUME MsgInv, NEW e \in RecvExec, NEW r, rx'[e] = r,
           \A d \in RecvExec \ {e} : rx'[d] = rx[d],
           r.pc = "take" => ~Locked(r.val)
    PROVE  LocksApart'
  BY DEF MsgInv, LocksApart, Locked, AtWait

LEMMA OwnCall ==
    ASSUME MsgInv, NEW e \in RecvExec
    PROVE  /\ rx \in [RecvExec -> WaitCalls] /\ rx[e] \in WaitCalls /\ CallSound(e)
           /\ rx[e].pos \in Nat /\ rx[e].got \in Seq(Values)
<1>1. rx \in [RecvExec -> WaitCalls] /\ rx[e] \in WaitCalls /\ CallSound(e)
  BY DEF MsgInv, MsgTypeOK
<1> QED BY <1>1, MessagingAssumption, SMT DEF WaitCalls

(* A step of one execution that changes neither the mailbox nor a wait's   *)
(* checkpoint.                                                             *)
LEMMA WaitMove ==
    ASSUME MsgInv, NEW e \in RecvExec, NEW r \in WaitCalls, rx' = [rx EXCEPT ![e] = r],
           UNCHANGED <<scene, time, mail, row, sendRow, event, wx>>,
           due' \in [Waits -> Nat \cup {NoRow}], r.pc = "take" => ~Locked(r.val),
           CallSound(e)'
    PROVE  MsgInv'
<1>1. /\ rx' \in [RecvExec -> WaitCalls] /\ rx'[e] = r
      /\ \A d \in RecvExec \ {e} : rx'[d] = rx[d]
  BY OwnCall
<1>2. MsgTypeOK'
  BY <1>1 DEF MsgInv, MsgTypeOK
<1>3. MailSound' /\ RowsSound' /\ MessageFate'
  BY SMT DEF MsgInv, MailSound, RowsSound, MessageFate, Took, Sent, Pinned
<1>4. Keeps(RecvExec \ {e})
  BY <1>1, SameMail DEF Keeps
<1>5. \A d \in RecvExec \ {e} : CallSound(d)'
  BY <1>4, CallsStay
<1>6. LocksApart'
  BY <1>1, LocksStay
<1> QED BY <1>2, <1>3, <1>5, <1>6 DEF MsgInv

(* It stays at its wait, outside the transaction.                          *)
LEMMA StayMove ==
    ASSUME MsgInv, NEW e \in RecvExec, NEW r \in WaitCalls, rx' = [rx EXCEPT ![e] = r],
           r.pos = rx[e].pos, r.got = rx[e].got, rx[e].pc # "over",
           r.pc \notin {"claim", "take", "over"}, r.pc = "record" => scene.program[r.pos] = "event",
           due' \in [Waits -> Nat \cup {NoRow}],
           UNCHANGED <<scene, time, mail, row, sendRow, event, wx>>
    PROVE  MsgInv'
<1>1. rx'[e] = r
  BY OwnCall
<1>2. CallSound(e)'
  BY <1>1, OwnCall, SMT DEF CallSound
<1> QED BY <1>2, WaitMove

LEMMA GotoMove ==
    ASSUME MsgInv, NEW e \in RecvExec,
           NEW p \in WaitPcs \ {"claim", "take", "over", "record"}, Goto(e, p),
           rx[e].pc # "over",
           due' \in [Waits -> Nat \cup {NoRow}],
           UNCHANGED <<scene, time, mail, row, sendRow, event, wx>>
    PROVE  MsgInv'
<1> DEFINE r == [rx[e] EXCEPT !.pc = p]
<1>1. rx' = [rx EXCEPT ![e] = r]
  BY OwnCall DEF Goto
<1>2. r \in WaitCalls /\ r.pc = p /\ r.pos = rx[e].pos /\ r.got = rx[e].got
  BY OwnCall DEF WaitCalls
<1> HIDE DEF r
<1> QED BY <1>1, <1>2, StayMove

(* What Return leaves.                                                     *)
Passed(e, v, r) ==
    /\ r \in WaitCalls /\ r.pos = rx[e].pos + 1 /\ Len(r.got) + 1 = r.pos
    /\ r.pc \in {"over", "look"} /\ (r.pc = "look" => r.pos \in Waits)
    /\ \A w \in Waits : w < r.pos => r.got[w] = IF w = rx[e].pos THEN v ELSE rx[e].got[w]
LEMMA AfterReturn ==
    ASSUME MsgInv, NEW e \in RecvExec, NEW v \in Values, rx[e].pc # "over", Return(e, v)
    PROVE  \E r \in WaitCalls : rx' = [rx EXCEPT ![e] = r] /\ Passed(e, v, r)
<1> DEFINE n == rx[e].pos
           g == Append(rx[e].got, v)
           p == IF n = NumWaits THEN "over" ELSE "look"
           m == n + 1
           r == [NewWait EXCEPT !.pos = m, !.got = g, !.pc = p]
<1>1. n \in Waits /\ n \in Nat /\ rx[e].got \in Seq(Values) /\ Len(rx[e].got) + 1 = n
  BY OwnCall DEF CallSound
<1>2. /\ g \in Seq(Values) /\ Len(g) = n
      /\ \A w \in 1 .. n : g[w] = IF w = n THEN v ELSE rx[e].got[w]
  BY <1>1, SMT
<1>3. n + 1 \in 1 .. NumWaits + 1 /\ (p = "look" => n + 1 \in Waits) /\ p \in {"over", "look"}
  BY <1>1, WaitsAre, SMT DEF Waits
<1>4. rx' = [rx EXCEPT ![e] = r]
  BY DEF Return, Pos
<1> HIDE DEF g, p
<1>5. m \in 1 .. NumWaits + 1 /\ p \in WaitPcs /\ m = n + 1
  BY <1>3 DEF WaitPcs
<1> HIDE DEF m
<1>6. r \in WaitCalls /\ r.pos = m /\ r.got = g /\ r.pc = p
  BY <1>2, <1>5, NewWaitIs DEF WaitCalls
<1> HIDE DEF r
<1>7. r.pos = n + 1
  BY <1>5, <1>6
<1>8. \A w \in Waits : w < n + 1 => w \in 1 .. n
  <2> HIDE DEF n
  <2> QED BY <1>1, WaitsAre, SMT
<1>9. Passed(e, v, r)
  BY <1>1, <1>2, <1>3, <1>6, <1>7, <1>8 DEF Passed
<1> QED BY <1>4, <1>6, <1>9

(* The recorded outcome is served.                                         *)
LEMMA ServeMove ==
    ASSUME MsgInv, NEW e \in RecvExec, rx[e].pc # "over", row[rx[e].pos] # NoRow,
           Return(e, row[rx[e].pos]),
           UNCHANGED <<scene, time, mail, row, due, sendRow, event, wx>>
    PROVE  MsgInv'
<1>1. rx[e].pos \in Waits /\ CallSound(e)
  BY OwnCall DEF CallSound
<1>2. row[rx[e].pos] \in Values
  BY <1>1 DEF MsgInv, MsgTypeOK
<1>3. PICK r \in WaitCalls : rx' = [rx EXCEPT ![e] = r] /\ Passed(e, row[rx[e].pos], r)
  BY <1>2, AfterReturn
<1>4. rx'[e] = r
  BY <1>3, OwnCall
<1>6. CallSound(e)'
  <2>1. \A w \in Waits : w < r.pos => row[w] # NoRow /\ r.got[w] = row[w]
    <3>0. r.pos = rx[e].pos + 1 /\ rx[e].pos \in Nat
      BY <1>3, OwnCall DEF Passed
    <3>1. \A w \in Waits : w < r.pos => w = rx[e].pos \/ w < rx[e].pos
      BY <3>0, WaitsAre, SMT
    <3> QED BY <1>1, <1>3, <3>1 DEF Passed, CallSound
  <2> QED BY <1>3, <1>4, <2>1 DEF CallSound, Passed
<1>7. due' \in [Waits -> Nat \cup {NoRow}]
  BY DEF MsgInv, MsgTypeOK
<1>8. r.pc # "take"
  BY <1>3 DEF Passed
<1> QED BY <1>3, <1>6, <1>7, <1>8, WaitMove

(* An unrecorded wait is recorded.                                         *)
LEMMA FillMove ==
    ASSUME MsgInv, NEW e \in RecvExec, NEW v \in Values, rx[e].pc # "over",
           row[rx[e].pos] = NoRow, row' = [row EXCEPT ![rx[e].pos] = v], Return(e, v),
           mail' \in Seq(Mail), MailKept(RecvExec \ {e}), MailSound', MessageFate',
           UNCHANGED <<scene, time, due, sendRow, event, wx>>
    PROVE  MsgInv'
<1>1. /\ rx[e].pos \in Waits /\ CallSound(e) /\ v # NoRow
      /\ row \in [Waits -> Values \cup {NoRow}]
  BY OwnCall, MessagingAssumption DEF CallSound, MsgInv, MsgTypeOK, Values
<1>2. /\ row' \in [Waits -> Values \cup {NoRow}] /\ row'[rx[e].pos] = v
      /\ \A w \in Waits : w # rx[e].pos => row'[w] = row[w]
  BY <1>1
<1>3. PICK r \in WaitCalls : rx' = [rx EXCEPT ![e] = r] /\ Passed(e, v, r)
  BY AfterReturn
<1>4. /\ rx' \in [RecvExec -> WaitCalls] /\ rx'[e] = r
      /\ \A d \in RecvExec \ {e} : rx'[d] = rx[d]
  BY <1>3, OwnCall
<1>5. LocksApart'
  <2>1. r.pc # "take"
    BY <1>3 DEF Passed
  <2> QED BY <1>4, <2>1, LocksStay
<1>6. MsgTypeOK'
  BY <1>2, <1>4 DEF MsgInv, MsgTypeOK
<1>7. RowsSound'
  <2> SUFFICES ASSUME NEW w \in Waits, NEW x \in Waits, w < x, row'[x] # NoRow
               PROVE  row'[w] # NoRow
    BY DEF RowsSound
  <2>1. row[w] # NoRow
    BY <1>1, <1>2, SMT DEF MsgInv, RowsSound, CallSound
  <2> QED BY <1>1, <1>2, <2>1
<1>8. Keeps(RecvExec \ {e})
  <2>1. \A w \in Waits : row[w] # NoRow => row'[w] = row[w]
    BY <1>2
  <2> QED BY <1>4, <2>1 DEF Keeps
<1>9. \A d \in RecvExec \ {e} : CallSound(d)'
  BY <1>8, CallsStay
<1>10. CallSound(e)'
  <2>1. \A w \in Waits : w < r.pos => row'[w] # NoRow /\ r.got[w] = row'[w]
    <3>1. \A w \in Waits : w < r.pos => w = rx[e].pos \/ w < rx[e].pos
      BY <1>3, OwnCall, WaitsAre, SMT DEF Passed
    <3>2. \A w \in Waits : w < rx[e].pos => w # rx[e].pos
      BY OwnCall, WaitsAre, SMT
    <3> QED BY <1>1, <1>2, <1>3, <3>1, <3>2, SMT DEF Passed, CallSound
  <2> QED BY <1>3, <1>4, <2>1 DEF CallSound, Passed
<1> QED BY <1>5, <1>6, <1>7, <1>9, <1>10 DEF MsgInv

(* Every message in the mailbox is one.                                    *)
LEMMA MailIs ==
    ASSUME MsgInv
    PROVE  /\ mail \in Seq(Mail) /\ DOMAIN mail = 1 .. Len(mail) /\ Len(mail) \in Nat
           /\ \A i \in DOMAIN mail :
                mail[i] \in Mail /\ mail[i].m \in Messages /\ mail[i].consumed \in BOOLEAN
                /\ mail[i].at \in Nat /\ mail[i].m \notin {NoRow, Nothing}
<1>1. mail \in Seq(Mail)
  BY DEF MsgInv, MsgTypeOK
<1>2. DOMAIN mail = 1 .. Len(mail) /\ Len(mail) \in Nat /\ \A i \in DOMAIN mail : mail[i] \in Mail
  BY <1>1, SMT
<1> QED BY <1>1, <1>2, MessagingAssumption DEF Mail

(* record_step_result of a value or of a timeout.                          *)
LEMMA RecordSound ==
    ASSUME MsgInv, NEW e \in RecvExec, NEW v \in Values, rx[e].pc # "over",
           scene.program[rx[e].pos] = "event" \/ v = Nothing,
           Record(e, v), UNCHANGED <<scene, time, mail, due, sendRow, event, wx>>
    PROVE  MsgInv'
<1>1. rx[e].pos \in Waits /\ row \in [Waits -> Values \cup {NoRow}]
  BY OwnCall DEF CallSound, MsgInv, MsgTypeOK
<1>2. CASE row[rx[e].pos] = NoRow
  <2>1. row' = [row EXCEPT ![rx[e].pos] = v] /\ Return(e, v)
    BY <1>2 DEF Record, Pos
  <2>2. row'[rx[e].pos] = v /\ \A w \in Waits : w # rx[e].pos => row'[w] = row[w]
    BY <1>1, <2>1
  <2>3. MailSound'
    BY DEF MsgInv, MailSound, Sent, Pinned
  <2>4. \A i \in DOMAIN mail, w \in Waits : Took(i, w)' <=> Took(i, w)
    BY <1>1, <1>2, <2>2, MailIs, SMT DEF Took
  <2>5. \A w \in Waits :
          scene.program[w] = "recv" /\ row'[w] \notin {NoRow, Nothing} =>
            row[w] \notin {NoRow, Nothing}
    BY <1>1, <2>2
  <2>6. MessageFate'
    BY <2>4, <2>5, SMT DEF MsgInv, MessageFate
  <2>7. mail' \in Seq(Mail)
    BY MailIs
  <2> QED BY <1>2, <2>1, <2>3, <2>6, <2>7, SameMail, FillMove
<1>3. CASE row[rx[e].pos] # NoRow /\ row[rx[e].pos] = v
  BY <1>3, ServeMove DEF Record, Pos
<1>4. CASE row[rx[e].pos] # NoRow /\ row[rx[e].pos] # v
  <2>1. Goto(e, "conflict") /\ row' = row
    BY <1>4 DEF Record, Pos
  <2>2. due' \in [Waits -> Nat \cup {NoRow}]
    BY DEF MsgInv, MsgTypeOK
  <2> QED BY <2>1, <2>2, GotoMove DEF WaitPcs
<1> QED BY <1>2, <1>3, <1>4

(* What was stamped before an oldest unread message is consumed.           *)
LEMMA OldestIs ==
    ASSUME MsgInv, NEW k \in Oldest PROVE k \in Nat /\ Pinned(k)
<1>1. k \in Unread /\ \A j \in Unread : mail[k].at <= mail[j].at
  BY DEF Oldest
<1>2. k \in DOMAIN mail /\ k \in Nat
  BY <1>1, MailIs, SMT DEF Unread
<1>3. ASSUME NEW j \in DOMAIN mail, mail[j].at < mail[k].at PROVE mail[j].consumed
  <2>1. j \notin Unread
    BY <1>1, <1>2, <1>3, MailIs, SMT
  <2> QED BY <2>1 DEF Unread
<1> QED BY <1>2, <1>3 DEF Pinned

LEMMA TakeSound == ASSUME MsgInv, NEW e \in RecvExec, TakeMessage(e) PROVE MsgInv'
<1>0. PICK n : n = rx[e].pos
  OBVIOUS
<1>1. /\ rx[e].pc = "take" /\ UNCHANGED <<scene, time, due, sendRow, event, wx>>
      /\ n \in Waits /\ scene.program[n] = "recv" /\ rx[e].val \in Unread
      /\ Pinned(rx[e].val) /\ CallSound(e)
      /\ row \in [Waits -> Values \cup {NoRow}]
  <2>1. rx[e].pc = "take" /\ UNCHANGED <<scene, time, due, sendRow, event, wx>>
    BY DEF TakeMessage, AtWait, Others, sendVars, setVars
  <2>2. CallSound(e) /\ row \in [Waits -> Values \cup {NoRow}]
    BY OwnCall DEF MsgInv, MsgTypeOK
  <2> HIDE DEF Unread, Pinned
  <2> QED BY <1>0, <2>1, <2>2 DEF CallSound
<1>2. CASE row[n] # NoRow
  BY <1>0, <1>1, <1>2, ServeMove DEF TakeMessage, Pos
<1>3. CASE row[n] = NoRow
  <2>0. PICK k : k = rx[e].val
    OBVIOUS
  <2>1. /\ row' = [row EXCEPT ![n] = mail[k].m] /\ Return(e, mail[k].m)
        /\ mail' = [mail EXCEPT ![k].consumed = TRUE]
    BY <1>0, <1>3, <2>0 DEF TakeMessage, Pos
  <2>2. /\ k \in DOMAIN mail /\ ~mail[k].consumed /\ mail[k].m \in Values /\ Pinned(k)
    BY <1>1, <2>0, MailIs DEF Values, Unread
  <2>3. /\ mail' \in Seq(Mail) /\ DOMAIN mail' = DOMAIN mail /\ mail'[k].consumed
        /\ \A i \in DOMAIN mail : mail'[i].m = mail[i].m /\ mail'[i].at = mail[i].at
        /\ \A i \in DOMAIN mail : i # k => mail'[i] = mail[i]
    <3> DEFINE r == [mail[k] EXCEPT !.consumed = TRUE]
    <3>1. r \in Mail /\ r.m = mail[k].m /\ r.at = mail[k].at /\ r.consumed
      BY <2>2, MailIs DEF Mail
    <3>2. mail' = [mail EXCEPT ![k] = r]
      BY <2>1
    <3> HIDE DEF r
    <3> QED BY <2>2, <3>1, <3>2, MailIs, SMT
  <2>4. row'[n] = mail[k].m /\ \A w \in Waits : w # n => row'[w] = row[w]
    BY <1>1, <2>1
  <2>5. \A i : Pinned(i) => Pinned(i)'
    BY <2>3 DEF Pinned
  <2>6. MailSound'
    <3>1. Sent(StepMsg)' => Sent(StepMsg)
      BY <2>3 DEF Sent
    <3>2. \A i \in DOMAIN mail : mail'[i].consumed => Pinned(i)'
      BY <2>2, <2>3, <2>5 DEF MsgInv, MailSound
    <3> HIDE DEF Pinned
    <3> QED BY <1>1, <2>3, <3>1, <3>2 DEF MsgInv, MailSound
  <2>k. MailKept(RecvExec \ {e})
    <3>1. \A d \in RecvExec \ {e} : rx[d].pc = "take" => rx[d].val # k
      BY <1>1, <2>0 DEF MsgInv, LocksApart
    <3>2. \A i \in Unread : i # k => i \in Unread'
      BY <2>3 DEF Unread
    <3> QED BY <2>5, <3>1, <3>2 DEF MailKept
  <2>7. /\ \A i \in DOMAIN mail : ~Took(i, n) /\ (Took(i, n)' <=> i = k)
        /\ \A i \in DOMAIN mail, w \in Waits : w # n => (Took(i, w)' <=> Took(i, w))
    <3>1. \A i \in DOMAIN mail : mail[i].m = mail[k].m <=> i = k
      BY <2>2 DEF MsgInv, MailSound
    <3> QED BY <1>1, <1>3, <2>2, <2>3, <2>4, <3>1, MailIs, SMT DEF Took
  <2>8. \A w \in Waits : row[w] # NoRow => w < n
    BY <1>1, <1>3, WaitsAre, SMT DEF MsgInv, RowsSound
  <2>9. \A i \in DOMAIN mail, w \in Waits : Took(i, w) => mail[i].consumed /\ i # k /\ w < n
    <3>1. \A i \in DOMAIN mail, w \in Waits : Took(i, w) => row[w] # NoRow /\ mail[i].consumed
      BY MailIs DEF Took, MsgInv, MessageFate
    <3> QED BY <2>2, <2>8, <3>1
  <2>10. MessageFate'
    <3>1. \A i \in DOMAIN mail : mail'[i].consumed <=> \E w \in Waits : Took(i, w)'
      BY <1>1, <2>2, <2>3, <2>7, SMT DEF MsgInv, MessageFate
    <3>2. \A w \in Waits :
            scene.program[w] = "recv" /\ row'[w] \notin {NoRow, Nothing} =>
              \E i \in DOMAIN mail : Took(i, w)'
      BY <2>2, <2>4, <2>7, SMT DEF MsgInv, MessageFate
    <3>3. \A i \in DOMAIN mail, w, x \in Waits : Took(i, w)' /\ Took(i, x)' => w = x
      BY <2>7, <2>9 DEF MsgInv, MessageFate
    <3>4. \A i, j \in DOMAIN mail, w, x \in Waits :
            i < j /\ mail[i].at < mail[j].at /\ Took(i, w)' /\ Took(j, x)' => w < x
      <4> SUFFICES ASSUME NEW i \in DOMAIN mail, NEW j \in DOMAIN mail, NEW w \in Waits,
                          NEW x \in Waits, i < j, mail[i].at < mail[j].at,
                          Took(i, w)', Took(j, x)'
                   PROVE  w < x
        OBVIOUS
      <4>0. i # j
        BY MailIs, SMT
      <4>1. CASE w = n /\ x = n
        BY <2>7, <4>0, <4>1
      <4>2. CASE w = n /\ x # n
        <5>1. i = k /\ Took(j, x)
          BY <2>7, <4>2
        <5>2. Pinned(j)
          BY <2>9, <5>1 DEF MsgInv, MailSound
        <5> QED BY <2>2, <5>1, <5>2 DEF Pinned
      <4>3. CASE w # n /\ x = n
        BY <2>7, <2>9, <4>3
      <4>4. CASE w # n /\ x # n
        <5>1. Took(i, w) /\ Took(j, x)
          BY <2>7, <4>4
        <5>2. MessageFate
          BY DEF MsgInv
        <5> QED BY <5>1, <5>2 DEF MessageFate
      <4> QED BY <4>1, <4>2, <4>3, <4>4
    <3> QED BY <1>1, <2>3, <3>1, <3>2, <3>3, <3>4 DEF MessageFate
  <2> QED BY <1>0, <1>1, <1>3, <2>1, <2>2, <2>3, <2>6, <2>k, <2>10, FillMove
<1> QED BY <1>2, <1>3

----------------------------------------------------------------------------
(* The calls of the receiver.                                              *)
LEMMA OthersStay == ASSUME Others PROVE UNCHANGED <<scene, time, sendRow, event, wx>>
  BY DEF Others, sendVars, setVars

LEMMA DueStays == ASSUME MsgInv, UNCHANGED due PROVE due' \in [Waits -> Nat \cup {NoRow}]
  BY DEF MsgInv, MsgTypeOK

LEMMA LookSound == ASSUME MsgInv, NEW e \in RecvExec, LookWait(e) PROVE MsgInv'
<1>1. /\ rx[e].pc = "look" /\ UNCHANGED <<scene, time, sendRow, event, wx, mail, row, due>>
      /\ due' \in [Waits -> Nat \cup {NoRow}]
  BY OthersStay, DueStays DEF LookWait, AtWait
<1>2. CASE row[rx[e].pos] # NoRow
  BY <1>1, <1>2, ServeMove DEF LookWait, Pos
<1>3. CASE row[rx[e].pos] = NoRow
  BY <1>1, <1>3, GotoMove DEF LookWait, Pos, WaitPcs
<1> QED BY <1>2, <1>3

(* It settles on a pinned message, or has its row.                         *)
LEMMA HoldMove ==
    ASSUME MsgInv, NEW e \in RecvExec, NEW r \in WaitCalls, rx' = [rx EXCEPT ![e] = r],
           r.pos = rx[e].pos, r.got = rx[e].got, rx[e].pc # "over", r.pc \in {"claim", "take"},
           scene.program[rx[e].pos] = "recv", Pinned(r.val),
           r.pc = "take" => r.val \in Unread /\ ~Locked(r.val),
           due' \in [Waits -> Nat \cup {NoRow}],
           UNCHANGED <<scene, time, mail, row, sendRow, event, wx>>
    PROVE  MsgInv'
<1>1. rx'[e] = r
  BY OwnCall
<1>2. Unread' = Unread /\ \A i : Pinned(i)' <=> Pinned(i)
  BY SameMail
<1>3. Pinned(rx[e].val)'
  <2>1. rx'[e].val = r.val
    BY <1>1
  <2> QED BY <2>1 DEF Pinned
<1>4. CallSound(e)'
  <2>1. CallSound(e)
    BY OwnCall
  <2>2. rx'[e].pc = "take" => rx'[e].val \in Unread'
    <3>1. rx'[e].pc = r.pc /\ rx'[e].val = r.val
      BY <1>1
    <3>2. r.pc = "take" => r.val \in Unread'
      BY <1>2
    <3> QED BY <3>1, <3>2
  <2>3. /\ Len(rx'[e].got) + 1 = rx'[e].pos /\ rx'[e].pos \in Waits
        /\ \A w \in Waits : w < rx'[e].pos => row'[w] # NoRow /\ rx'[e].got[w] = row'[w]
    BY <1>1, <2>1 DEF CallSound
  <2>4. scene'.program[rx'[e].pos] = "recv" /\ rx'[e].pc # "record"
    BY <1>1
  <2> HIDE DEF Unread, Pinned
  <2> QED BY <1>3, <2>2, <2>3, <2>4 DEF CallSound
<1> QED BY <1>4, WaitMove

LEMMA ClaimSound == ASSUME MsgInv, NEW e \in RecvExec, ClaimMessage(e) PROVE MsgInv'
<1>1. /\ rx[e].pc = "check" /\ scene.program[rx[e].pos] = "recv"
      /\ UNCHANGED <<scene, time, sendRow, event, wx, mail, row, due>>
      /\ due' \in [Waits -> Nat \cup {NoRow}]
  BY OthersStay, DueStays DEF ClaimMessage, AtWait, Pos
<1>2. CASE row[rx[e].pos] # NoRow
  BY <1>1, <1>2, ServeMove DEF ClaimMessage, Pos
<1>3. CASE row[rx[e].pos] = NoRow /\ Unread = {}
  BY <1>1, <1>3, GotoMove DEF ClaimMessage, Pos, WaitPcs
<1>4. CASE row[rx[e].pos] = NoRow /\ Unread # {}
  <2>1. PICK k \in Oldest : rx' = [rx EXCEPT ![e].pc = "claim", ![e].val = k]
    BY <1>4 DEF ClaimMessage, Pos
  <2>2. k \in Nat /\ Pinned(k)
    BY OldestIs
  <2> DEFINE r == [rx[e] EXCEPT !.pc = "claim", !.val = k]
  <2>3. rx' = [rx EXCEPT ![e] = r]
    BY <2>1, OwnCall
  <2>4. /\ r \in WaitCalls /\ r.pc = "claim" /\ r.val = k
        /\ r.pos = rx[e].pos /\ r.got = rx[e].got
    <3>1. "claim" \in WaitPcs
      BY DEF WaitPcs
    <3> QED BY <2>2, <3>1, OwnCall DEF WaitCalls
  <2> HIDE DEF r
  <2> QED BY <1>1, <2>2, <2>3, <2>4, HoldMove
<1> QED BY <1>2, <1>3, <1>4

LEMMA LockSound == ASSUME MsgInv, NEW e \in RecvExec, LockMessage(e) PROVE MsgInv'
<1>1. /\ rx[e].pc = "claim" /\ ~Locked(rx[e].val)
      /\ UNCHANGED <<scene, time, sendRow, event, wx, mail, row, due>>
      /\ due' \in [Waits -> Nat \cup {NoRow}]
  BY OthersStay, DueStays DEF LockMessage, AtWait
<1>2. scene.program[rx[e].pos] = "recv" /\ Pinned(rx[e].val)
  BY <1>1, OwnCall DEF CallSound
<1>3. CASE ~mail[rx[e].val].consumed
  <2> DEFINE r == [rx[e] EXCEPT !.pc = "take"]
  <2>1. rx' = [rx EXCEPT ![e] = r]
    BY <1>3, OwnCall DEF LockMessage, Goto
  <2>2. /\ r \in WaitCalls /\ r.pc = "take" /\ r.val = rx[e].val
        /\ r.pos = rx[e].pos /\ r.got = rx[e].got
    <3>1. "take" \in WaitPcs
      BY DEF WaitPcs
    <3> QED BY <3>1, OwnCall DEF WaitCalls
  <2>3. rx[e].val \in Unread
    BY <1>2, <1>3 DEF Unread, Pinned
  <2> HIDE DEF r
  <2> QED BY <1>1, <1>2, <2>1, <2>2, <2>3, HoldMove
<1>4. CASE mail[rx[e].val].consumed /\ row[rx[e].pos] # NoRow
  BY <1>1, <1>4, ServeMove DEF LockMessage, Pos
<1>5. CASE mail[rx[e].val].consumed /\ row[rx[e].pos] = NoRow
  BY <1>1, <1>5, GotoMove DEF LockMessage, Pos, WaitPcs
<1> QED BY <1>3, <1>4, <1>5

LEMMA ReadSound == ASSUME MsgInv, NEW e \in RecvExec, ReadEvent(e) PROVE MsgInv'
<1>1. /\ rx[e].pc = "check" /\ scene.program[rx[e].pos] = "event"
      /\ UNCHANGED <<scene, time, sendRow, event, wx, mail, row, due>>
      /\ due' \in [Waits -> Nat \cup {NoRow}]
  BY OthersStay, DueStays DEF ReadEvent, AtWait, Pos
<1>2. CASE event = 0
  BY <1>1, <1>2, GotoMove DEF ReadEvent, WaitPcs
<1>3. CASE event # 0
  <2> DEFINE r == [rx[e] EXCEPT !.pc = "record", !.val = event]
  <2>1. rx' = [rx EXCEPT ![e] = r]
    BY <1>3, OwnCall DEF ReadEvent
  <2>2. r \in WaitCalls /\ r.pc = "record" /\ r.pos = rx[e].pos /\ r.got = rx[e].got
    <3>1. "record" \in WaitPcs /\ event \in Nat
      BY DEF WaitPcs, MsgInv, MsgTypeOK
    <3> QED BY <3>1, OwnCall DEF WaitCalls
  <2> HIDE DEF r
  <2> QED BY <1>1, <2>1, <2>2, StayMove
<1> QED BY <1>2, <1>3

LEMMA RecordEventSound == ASSUME MsgInv, NEW e \in RecvExec, RecordEvent(e) PROVE MsgInv'
<1>1. /\ rx[e].pc = "record" /\ Record(e, rx[e].val)
      /\ UNCHANGED <<scene, time, sendRow, event, wx, mail, due>>
  BY OthersStay DEF RecordEvent, AtWait
<1>2. rx[e].val \in Values /\ scene.program[rx[e].pos] = "event"
  BY <1>1, OwnCall DEF CallSound, WaitCalls, Values
<1> QED BY <1>1, <1>2, RecordSound

LEMMA ExpireSound == ASSUME MsgInv, NEW e \in RecvExec, Expire(e) PROVE MsgInv'
<1>1. /\ rx[e].pc = "expire" /\ Record(e, Nothing)
      /\ UNCHANGED <<scene, time, sendRow, event, wx, mail, due>>
  BY OthersStay DEF Expire, AtWait
<1> QED BY <1>1, RecordSound DEF Values

LEMMA DeadlineSound == ASSUME MsgInv, NEW e \in RecvExec, LookDeadline(e) PROVE MsgInv'
<1>1. /\ rx[e].pc = "deadline"
      /\ UNCHANGED <<scene, time, sendRow, event, wx, mail, row, due>>
      /\ due' \in [Waits -> Nat \cup {NoRow}]
  BY OthersStay, DueStays DEF LookDeadline, AtWait
<1>2. rx[e].pos \in Waits /\ due[rx[e].pos] \in Nat \cup {NoRow} /\ rx[e].due \in Nat \cup {NoRow}
  BY <1>1, OwnCall DEF CallSound, WaitCalls, MsgInv, MsgTypeOK
<1>3. PICK p \in {"fix", "timer"}, t \in Nat \cup {NoRow} :
        rx' = [rx EXCEPT ![e].pc = p, ![e].due = t]
  <2>1. CASE rx[e].due = NoRow /\ due[rx[e].pos] = NoRow
    <3>1. time + WaitTime \in Nat
      BY MessagingAssumption, SMT DEF MsgInv, MsgTypeOK
    <3>2. rx' = [rx EXCEPT ![e].pc = "fix", ![e].due = time + WaitTime]
      BY <2>1 DEF LookDeadline, Pos
    <3> QED BY <3>1, <3>2
  <2>2. CASE ~(rx[e].due = NoRow /\ due[rx[e].pos] = NoRow)
    <3> DEFINE t == IF rx[e].due = NoRow THEN due[rx[e].pos] ELSE rx[e].due
    <3>1. rx' = [rx EXCEPT ![e].pc = "timer", ![e].due = t]
      BY <2>2, OwnCall DEF LookDeadline, Pos
    <3>2. t \in Nat \cup {NoRow}
      BY <1>2
    <3> HIDE DEF t
    <3> QED BY <3>1, <3>2
  <2> QED BY <2>1, <2>2
<1> DEFINE r == [rx[e] EXCEPT !.pc = p, !.due = t]
<1>4. rx' = [rx EXCEPT ![e] = r]
  BY <1>3, OwnCall
<1>5. r \in WaitCalls /\ r.pc = p /\ r.pos = rx[e].pos /\ r.got = rx[e].got
  <2>1. p \in WaitPcs
    BY DEF WaitPcs
  <2> QED BY <2>1, OwnCall DEF WaitCalls
<1> HIDE DEF r
<1> QED BY <1>1, <1>4, <1>5, StayMove

LEMMA FixSound == ASSUME MsgInv, NEW e \in RecvExec, FixDeadline(e) PROVE MsgInv'
<1>1. /\ rx[e].pc = "fix" /\ UNCHANGED <<scene, time, sendRow, event, wx, mail, row>>
  BY OthersStay DEF FixDeadline, AtWait
<1>2. due' \in [Waits -> Nat \cup {NoRow}]
  <2>1. rx[e].due \in Nat \cup {NoRow} /\ due \in [Waits -> Nat \cup {NoRow}]
    BY OwnCall DEF WaitCalls, MsgInv, MsgTypeOK
  <2> QED BY <2>1 DEF FixDeadline
<1>3. Goto(e, "timer") \/ Goto(e, "conflict")
  BY DEF FixDeadline
<1> QED BY <1>1, <1>2, <1>3, GotoMove DEF WaitPcs

LEMMA TimerSound == ASSUME MsgInv, NEW e \in RecvExec, Timer(e) \/ WakeWait(e) PROVE MsgInv'
<1>1. /\ rx[e].pc \in {"timer", "wait"}
      /\ UNCHANGED <<scene, time, sendRow, event, wx, mail, row, due>>
      /\ due' \in [Waits -> Nat \cup {NoRow}]
  BY OthersStay, DueStays DEF Timer, WakeWait, AtWait
<1>2. Goto(e, "expire") \/ Goto(e, "wait") \/ Goto(e, "check")
  BY DEF Timer, WakeWait
<1> QED BY <1>1, <1>2, GotoMove DEF WaitPcs

LEMMA RestartSound == ASSUME MsgInv, NEW e \in RecvExec, RestartRecv(e) PROVE MsgInv'
<1>1. /\ rx' = [rx EXCEPT ![e] = NewWait]
      /\ UNCHANGED <<scene, time, sendRow, event, wx, mail, row, due>>
      /\ due' \in [Waits -> Nat \cup {NoRow}]
  BY DueStays DEF RestartRecv, sendVars, setVars
<1>2. rx'[e] = NewWait
  BY <1>1, OwnCall
<1>3. CallSound(e)'
  BY <1>1, <1>2, OwnCall, WaitsAre, SMT DEF CallSound, NewWait
<1>4. NewWait.pc # "take"
  BY DEF NewWait
<1> QED BY <1>1, <1>3, <1>4, NewWaitIs, WaitMove

----------------------------------------------------------------------------
(* The senders.                                                            *)
LEMMA AppendSound ==
    ASSUME MsgInv, NEW msg \in Messages, ~Sent(msg), mail' = Append1(msg), sendRow' \in BOOLEAN,
           sendRow => sendRow', msg = StepMsg => sendRow',
           UNCHANGED <<scene, time, row, due, rx, event, wx>>
    PROVE  MsgInv'
<1> DEFINE r == [m |-> msg, at |-> scene.clock[msg], consumed |-> FALSE]
<1>0. scene.clock[msg] \in Nat
  BY MessagingAssumption DEF MsgInv, MsgTypeOK
<1>1. PICK n \in Nat : n = Len(mail) /\ DOMAIN mail = 1 .. n /\ mail \in Seq(Mail)
  BY MailIs
<1>2. r \in Mail /\ mail' = Append(mail, r)
  BY <1>0 DEF Mail, Append1
<1> HIDE DEF r
<1>3. /\ mail' \in Seq(Mail) /\ DOMAIN mail' = 1 .. n + 1 /\ mail'[n + 1] = r
      /\ \A i \in 1 .. n : mail'[i] = mail[i]
  BY <1>1, <1>2, SMT
<1>4. r.m = msg /\ r.consumed = FALSE
  BY DEF r
<1>5. \A i \in 1 .. n + 1 : i \in 1 .. n \/ i = n + 1
  BY <1>1, SMT
<1>6. \A i \in 1 .. n : mail[i].m # msg
  BY <1>1 DEF Sent
<1>7. MsgTypeOK'
  BY <1>3 DEF MsgInv, MsgTypeOK
<1>p. ASSUME NEW i, Pinned(i) PROVE Pinned(i)'
  <2>1. i \in 1 .. n /\ i \in 1 .. n + 1 /\ \A j \in 1 .. n + 1 : j < i => j \in 1 .. n
    BY <1>1, <1>p, SMT DEF Pinned
  <2> QED BY <1>1, <1>3, <1>p, <2>1 DEF Pinned
<1>8. MailSound'
  <2>1. \A i, j \in 1 .. n + 1 : mail'[i].m = mail'[j].m => i = j
    BY <1>1, <1>3, <1>4, <1>5, <1>6, SMT DEF MsgInv, MailSound
  <2>2. \A i \in 1 .. n + 1 : mail'[i].consumed => Pinned(i)'
    <3>1. \A i \in 1 .. n + 1 : mail'[i].consumed => i \in 1 .. n /\ mail[i].consumed
      BY <1>3, <1>4, <1>5
    <3> QED BY <1>1, <1>p, <3>1 DEF MsgInv, MailSound
  <2>3. Sent(StepMsg)' => sendRow'
    <3>1. Sent(StepMsg)' => Sent(StepMsg) \/ msg = StepMsg
      BY <1>1, <1>3, <1>4, <1>5 DEF Sent
    <3> QED BY <3>1 DEF MsgInv, MailSound
  <2> QED BY <1>3, <2>1, <2>2, <2>3 DEF MailSound
<1>9. RowsSound'
  BY DEF MsgInv, RowsSound
<1>10. MessageFate'
  <2>1. \A i \in 1 .. n, w \in Waits : Took(i, w)' <=> Took(i, w)
    BY <1>3 DEF Took
  <2>2. \A w \in Waits : ~Took(n + 1, w)'
    <3>1. \A w \in Waits : scene.program[w] = "recv" => row[w] # msg
      <4> SUFFICES ASSUME NEW w \in Waits, scene.program[w] = "recv", row[w] = msg PROVE FALSE
        OBVIOUS
      <4>1. row[w] \notin {NoRow, Nothing}
        BY MessagingAssumption
      <4>2. PICK i \in DOMAIN mail : Took(i, w)
        BY <4>1 DEF MsgInv, MessageFate
      <4> QED BY <1>1, <1>6, <4>2 DEF Took
    <3> QED BY <1>3, <1>4, <3>1 DEF Took
  <2>3. \A i \in 1 .. n + 1 : mail'[i].consumed <=> \E w \in Waits : Took(i, w)'
    <3> SUFFICES ASSUME NEW i \in 1 .. n + 1
                 PROVE  mail'[i].consumed <=> \E w \in Waits : Took(i, w)'
      OBVIOUS
    <3>1. CASE i \in 1 .. n
      BY <1>1, <1>3, <2>1, <3>1 DEF MsgInv, MessageFate
    <3>2. CASE i = n + 1
      BY <1>3, <1>4, <2>2, <3>2
    <3> QED BY <1>5, <3>1, <3>2
  <2>4. \A w \in Waits :
          scene.program[w] = "recv" /\ row[w] \notin {NoRow, Nothing} =>
            \E i \in 1 .. n + 1 : Took(i, w)'
    <3>1. \A i \in 1 .. n : i \in 1 .. n + 1
      BY <1>1, SMT
    <3> QED BY <1>1, <2>1, <3>1 DEF MsgInv, MessageFate
  <2>5. \A i \in 1 .. n + 1, w \in Waits : Took(i, w)' => i \in 1 .. n /\ Took(i, w)
    BY <1>5, <2>1, <2>2
  <2>6. \A i \in 1 .. n + 1, w, x \in Waits : Took(i, w)' /\ Took(i, x)' => w = x
    BY <1>1, <2>5 DEF MsgInv, MessageFate
  <2>7. \A i, j \in 1 .. n + 1, w, x \in Waits :
          i < j /\ mail'[i].at < mail'[j].at /\ Took(i, w)' /\ Took(j, x)' => w < x
    <3> SUFFICES ASSUME NEW i \in 1 .. n + 1, NEW j \in 1 .. n + 1, NEW w \in Waits,
                        NEW x \in Waits, i < j, mail'[i].at < mail'[j].at,
                        Took(i, w)', Took(j, x)'
                 PROVE  w < x
      OBVIOUS
    <3>1. /\ i \in DOMAIN mail /\ j \in DOMAIN mail /\ Took(i, w) /\ Took(j, x)
          /\ mail[i].at < mail[j].at
      BY <1>1, <1>3, <2>5
    <3>2. MessageFate
      BY DEF MsgInv
    <3> QED BY <3>1, <3>2 DEF MessageFate
  <2> QED BY <1>3, <2>3, <2>4, <2>6, <2>7 DEF MessageFate
<1>11. Unread \subseteq Unread'
  <2>1. \A i \in 1 .. n : i \in 1 .. n + 1
    BY <1>1, SMT
  <2> QED BY <1>1, <1>3, <2>1 DEF Unread
<1>12. Keeps(RecvExec)
  BY <1>p, <1>11 DEF Keeps, MailKept
<1>13. LocksApart'
  BY DEF MsgInv, LocksApart
<1> QED BY <1>7, <1>8, <1>9, <1>10, <1>12, <1>13, CallsStay DEF MsgInv

(* A step that leaves the mailbox and the receiver alone.                  *)
LEMMA AsideSound ==
    ASSUME MsgInv, UNCHANGED <<scene, mail, row, due, rx>>,
           time' \in Nat, sendRow' \in BOOLEAN, sendRow => sendRow', event' \in Nat,
           wx' \in [SetExec -> [pc : {"look", "upsert", "record", "over"}, pos : Nat]]
    PROVE  MsgInv'
<1>1. MsgTypeOK'
  BY DEF MsgInv, MsgTypeOK
<1>2. MailSound' /\ RowsSound' /\ MessageFate'
  <2>1. Sent(StepMsg)' <=> Sent(StepMsg)
    BY DEF Sent
  <2>2. MailSound'
    BY <2>1 DEF MsgInv, MailSound, Pinned
  <2>3. RowsSound'
    BY DEF MsgInv, RowsSound
  <2>4. \A i \in DOMAIN mail, w \in Waits : Took(i, w)' <=> Took(i, w)
    BY DEF Took
  <2>5. MessageFate'
    <3>1. \A i \in DOMAIN mail : mail'[i].consumed <=> \E w \in Waits : Took(i, w)'
      BY <2>4 DEF MsgInv, MessageFate
    <3>2. \A w \in Waits :
            scene.program[w] = "recv" /\ row[w] \notin {NoRow, Nothing} =>
              \E i \in DOMAIN mail : Took(i, w)'
      BY <2>4 DEF MsgInv, MessageFate
    <3>3. \A i \in DOMAIN mail, w, x \in Waits : Took(i, w)' /\ Took(i, x)' => w = x
      BY <2>4 DEF MsgInv, MessageFate
    <3>4. \A i, j \in DOMAIN mail, w, x \in Waits :
            i < j /\ mail[i].at < mail[j].at /\ Took(i, w)' /\ Took(j, x)' => w < x
      BY <2>4 DEF MsgInv, MessageFate
    <3> QED BY <3>1, <3>2, <3>3, <3>4 DEF MessageFate
  <2> QED BY <2>2, <2>3, <2>5
<1>3. LocksApart'
  BY DEF MsgInv, LocksApart
<1>4. Keeps(RecvExec)
  BY SameMail DEF Keeps
<1> QED BY <1>1, <1>2, <1>3, <1>4, CallsStay DEF MsgInv

LEMMA SendsSound ==
    ASSUME MsgInv,
           \/ \E k \in SendKey : SendKeyed(k)
           \/ \E e \in scene.senders : LookSend(e) \/ SendStep(e)
    PROVE  MsgInv'
<1>1. /\ UNCHANGED <<scene, time, row, due, rx, event, wx>>
  BY DEF SendKeyed, LookSend, SendStep, recvVars, setVars, sendVars
<1>2. /\ sendRow \in BOOLEAN /\ time \in Nat /\ event \in Nat
      /\ wx \in [SetExec -> [pc : {"look", "upsert", "record", "over"}, pos : Nat]]
  BY DEF MsgInv, MsgTypeOK
<1>3. ASSUME NEW k \in SendKey, SendKeyed(k) PROVE MsgInv'
  <2>1. sendRow' = sendRow /\ k \in Messages /\ k # StepMsg
    BY <1>3, MessagingAssumption DEF SendKeyed, sendVars, Messages
  <2>2. CASE Sent(k)
    BY <1>1, <1>2, <1>3, <2>1, <2>2, AsideSound DEF SendKeyed
  <2>3. CASE ~Sent(k)
    BY <1>1, <1>2, <1>3, <2>1, <2>3, AppendSound DEF SendKeyed
  <2> QED BY <2>2, <2>3
<1>4. ASSUME NEW e \in scene.senders, LookSend(e) PROVE MsgInv'
  BY <1>1, <1>2, <1>4, AsideSound DEF LookSend
<1>5. ASSUME NEW e \in scene.senders, SendStep(e) PROVE MsgInv'
  <2>1. sendRow' = TRUE /\ StepMsg \in Messages
    BY <1>5 DEF SendStep, Messages
  <2>2. CASE sendRow
    BY <1>1, <1>2, <1>5, <2>1, <2>2, AsideSound DEF SendStep
  <2>3. CASE ~sendRow
    <3>1. ~Sent(StepMsg) /\ mail' = Append1(StepMsg)
      BY <1>5, <2>3 DEF MsgInv, MailSound, SendStep
    <3> QED BY <1>1, <2>1, <2>3, <3>1, AppendSound
  <2> QED BY <2>2, <2>3
<1> QED BY <1>3, <1>4, <1>5

LEMMA SetsSound ==
    ASSUME MsgInv, NEW e \in scene.setters,
           LookEvent(e) \/ WriteEvent(e) \/ RecordSet(e) \/ RestartSet(e)
    PROVE  MsgInv'
<1> DEFINE W == [pc : {"look", "upsert", "record", "over"}, pos : Nat]
<1>1. /\ UNCHANGED <<scene, time, mail, row, due, rx, sendRow>>
      /\ time' \in Nat /\ sendRow' \in BOOLEAN
  BY DEF LookEvent, WriteEvent, RecordSet, RestartSet, recvVars, sendVars, MsgInv, MsgTypeOK
<1>2. wx \in [SetExec -> W] /\ event \in Nat
  BY DEF MsgInv, MsgTypeOK
<1>3. e \in SetExec
  BY MessagingAssumption DEF MsgInv, MsgTypeOK
<1>4. wx[e] \in W /\ wx[e].pos \in Nat
  BY <1>2, <1>3
<1>5. event' \in Nat
  BY <1>2, <1>4 DEF LookEvent, WriteEvent, RecordSet, RestartSet
<1>6. NextSet(e) \in W
  <2>1. wx[e].pos + 1 \in Nat
    BY <1>4, SMT
  <2> QED BY <2>1 DEF NextSet
<1>7. wx' \in [SetExec -> W]
  <2>1. [wx[e] EXCEPT !.pc = "upsert"] \in W /\ [wx[e] EXCEPT !.pc = "record"] \in W
    BY <1>4
  <2>2. [pc |-> "look", pos |-> 1] \in W
    OBVIOUS
  <2>3. \E q \in W : wx' = [wx EXCEPT ![e] = q]
    <3>1. CASE LookEvent(e)
      BY <1>6, <2>1, <3>1 DEF LookEvent
    <3>2. CASE WriteEvent(e)
      BY <2>1, <3>2 DEF WriteEvent
    <3>3. CASE RecordSet(e)
      BY <1>6, <3>3 DEF RecordSet
    <3>4. CASE RestartSet(e)
      BY <2>2, <3>4 DEF RestartSet
    <3> QED BY <3>1, <3>2, <3>3, <3>4
  <2> HIDE DEF W
  <2> QED BY <1>2, <2>3
<1> QED BY <1>1, <1>5, <1>7, AsideSound

LEMMA InvKept == MsgInv /\ [MessagingNext]_msgVars => MsgInv'
<1> SUFFICES ASSUME MsgInv, [MessagingNext]_msgVars PROVE MsgInv'
  OBVIOUS
<1>1. ASSUME NEW e \in RecvExec, RecvStep(e) \/ RestartRecv(e) PROVE MsgInv'
  BY <1>1, LookSound, ClaimSound, LockSound, TakeSound, ReadSound, RecordEventSound, DeadlineSound, FixSound,
     TimerSound, ExpireSound, RestartSound DEF RecvStep
<1>2. CASE PassTime \/ UNCHANGED msgVars
  <2>1. UNCHANGED <<scene, mail, row, due, rx, sendRow, event, wx>>
    BY <1>2 DEF PassTime, msgVars, recvVars, sendVars, setVars
  <2>2. /\ time' \in Nat /\ sendRow \in BOOLEAN /\ event \in Nat
        /\ wx \in [SetExec -> [pc : {"look", "upsert", "record", "over"}, pos : Nat]]
    BY <1>2, SMT DEF PassTime, msgVars, MsgInv, MsgTypeOK
  <2> QED BY <2>1, <2>2, AsideSound
<1> QED BY <1>1, <1>2, SendsSound, SetsSound DEF MessagingNext

----------------------------------------------------------------------------
(* consume_notification: whatever the timeouts, crashes and rivals, a      *)
(* consumed message is the checkpoint of exactly one recv, the others stay *)
(* in the mailbox, and of two the one that was stamped and arrived first   *)
(* is taken first.                                                         *)
THEOREM MessagesReceivedOnce == MessagingSpec => []MessageFate
  BY InvStarts, InvKept, InvGives, PTL DEF MessagingSpec

(* recv and get_event: every execution is told the wait's checkpoint.      *)
THEOREM WaitersAgree == MessagingSpec => []WaitsAgree
  BY InvStarts, InvKept, InvGives, PTL DEF MessagingSpec

----------------------------------------------------------------------------
(* The event.                                                              *)

(* The second value is written after the first is checkpointed, and no     *)
(* value is written whose checkpoint exists.                               *)
SetSound(e) ==
    /\ wx[e].pc # "over" => wx[e].pos \in {1, 2}
    /\ wx[e].pc # "over" /\ wx[e].pos = 2 => evRow[1] = TRUE
    /\ wx[e].pc = "upsert" => evRow[wx[e].pos] = FALSE
EventInv ==
    /\ scene \in Scenes
    /\ event \in {0, 1, 2} /\ evRow \in [{1, 2} -> BOOLEAN]
    /\ wx \in [SetExec -> [pc : {"look", "upsert", "record", "over"}, pos : Nat]]
    /\ event = 2 => evRow[1] = TRUE
    /\ \A e \in scene.setters : SetSound(e)

LEMMA EventStarts == MessagingInit => EventInv
<1>1. 1 .. 2 = {1, 2}
  BY SMT
<1> QED BY <1>1, MessagingAssumption, SMT DEF MessagingInit, EventInv, SetSound

LEMMA SetterGoesTo ==
    ASSUME EventInv, NEW e \in SetExec, scene.setters = {e}, scene' = scene,
           NEW q \in {"look", "upsert", "record", "over"}, NEW m \in Nat,
           wx' = [wx EXCEPT ![e] = [pc |-> q, pos |-> m]],
           event' \in {0, 1, 2}, evRow' \in [{1, 2} -> BOOLEAN],
           event' = 2 => evRow'[1] = TRUE,
           q # "over" => m \in {1, 2},
           q # "over" /\ m = 2 => evRow'[1] = TRUE,
           q = "upsert" => evRow'[m] = FALSE
    PROVE  EventInv'
<1>1. PICK r : r = [pc |-> q, pos |-> m]
  OBVIOUS
<1>2. r.pc = q /\ r.pos = m /\ r \in [pc : {"look", "upsert", "record", "over"}, pos : Nat]
  BY <1>1
<1>3. wx' = [wx EXCEPT ![e] = r]
  BY <1>1
<1>4. wx'[e] = r /\ wx' \in [SetExec -> [pc : {"look", "upsert", "record", "over"}, pos : Nat]]
  BY <1>2, <1>3, SMT DEF EventInv
<1>5. SetSound(e)'
  BY <1>2, <1>4 DEF SetSound
<1>6. scene' \in Scenes /\ \A x \in scene'.setters : SetSound(x)'
  BY <1>5 DEF EventInv
<1> QED BY <1>4, <1>6 DEF EventInv

LEMMA SetterMoves ==
    ASSUME OneSetter, EventInv, NEW e \in scene.setters,
           LookEvent(e) \/ WriteEvent(e) \/ RecordSet(e) \/ RestartSet(e)
    PROVE  EventInv' /\ event <= event'
<1>1. /\ e \in SetExec /\ scene.setters = {e}
      /\ scene' = scene
  BY MessagingAssumption, SMT DEF OneSetter, EventInv, LookEvent, WriteEvent, RecordSet, RestartSet
<1>2. /\ event \in {0, 1, 2} /\ evRow \in [{1, 2} -> BOOLEAN]
      /\ event = 2 => evRow[1] = TRUE
  BY DEF EventInv
<1>3. PICK p, n : p = wx[e].pc /\ n = wx[e].pos
  OBVIOUS
<1>4. /\ n \in Nat /\ p \in {"look", "upsert", "record", "over"}
      /\ p # "over" => n \in {1, 2}
      /\ p # "over" /\ n = 2 => evRow[1] = TRUE
      /\ p = "upsert" => evRow[n] = FALSE
  BY <1>1, <1>3 DEF EventInv, SetSound
<1>5. \A q : [wx[e] EXCEPT !.pc = q] = [pc |-> q, pos |-> n]
  BY <1>1, <1>3, SMT DEF EventInv
<1>6. PICK q : q = IF n = 2 THEN "over" ELSE "look"
  OBVIOUS
<1>7. NextSet(e) = [pc |-> q, pos |-> n + 1]
  BY <1>3, <1>6 DEF NextSet
<1>8. /\ n + 1 \in Nat /\ q \in {"look", "over"}
      /\ n \in {1, 2} /\ q # "over" => n = 1 /\ n + 1 = 2
  BY <1>4, <1>6, SMT
<1>9. CASE LookEvent(e)
  <2>0. event' \in {0, 1, 2} /\ evRow' = evRow /\ evRow' \in [{1, 2} -> BOOLEAN] /\ (event' = 2 => evRow'[1] = TRUE)
    BY <1>2, <1>9 DEF LookEvent
  <2>1. UNCHANGED <<event, evRow>> /\ p = "look" /\ event <= event'
    BY <1>2, <1>3, <1>9, SMT DEF LookEvent
  <2>2. CASE evRow[n] = TRUE
    <3>1. wx' = [wx EXCEPT ![e] = [pc |-> q, pos |-> n + 1]]
      BY <1>3, <1>7, <1>9, <2>2 DEF LookEvent
    <3>2. q # "over" => evRow[1] = TRUE
      BY <1>4, <1>8, <2>1, <2>2
    <3>3. q \in {"look", "upsert", "record", "over"} /\ q # "upsert" /\ (q # "over" => n + 1 \in {1, 2})
      BY <1>4, <1>8, <2>1
    <3> QED BY <1>1, <1>8, <2>0, <2>1, <3>1, <3>2, <3>3, SetterGoesTo
  <2>3. CASE evRow[n] = FALSE
    <3>1. wx' = [wx EXCEPT ![e] = [pc |-> "upsert", pos |-> n]]
      BY <1>3, <1>5, <1>9, <2>3 DEF LookEvent
    <3>2. n \in {1, 2} /\ (n = 2 => evRow[1] = TRUE) /\ "upsert" # "over"
      BY <1>4, <2>1
    <3> QED BY <1>1, <1>4, <2>0, <2>1, <2>3, <3>1, <3>2, SetterGoesTo
  <2>4. evRow[n] = TRUE \/ evRow[n] = FALSE
    BY <1>2, <1>4, <2>1
  <2> QED BY <2>2, <2>3, <2>4
<1>10. CASE WriteEvent(e)
  <2>1. evRow' = evRow /\ event' = n /\ p = "upsert"
    BY <1>3, <1>10 DEF WriteEvent
  <2>2. wx' = [wx EXCEPT ![e] = [pc |-> "record", pos |-> n]]
    BY <1>5, <1>10 DEF WriteEvent
  <2>3. n \in {1, 2} /\ (n = 2 => evRow[1] = TRUE) /\ evRow[n] = FALSE
    BY <1>4, <2>1
  <2>4. n = 1 => event # 2
    BY <1>2, <2>3
  <2>5. event <= event'
    BY <1>2, <2>1, <2>3, <2>4, SMT
  <2>6. event' \in {0, 1, 2} /\ evRow' \in [{1, 2} -> BOOLEAN] /\ (event' = 2 => evRow'[1] = TRUE)
    BY <1>2, <2>1, <2>3
  <2>7. "record" # "over" /\ "record" # "upsert"
    OBVIOUS
  <2> QED BY <1>1, <1>4, <2>1, <2>2, <2>3, <2>5, <2>6, <2>7, SetterGoesTo
<1>11. CASE RecordSet(e)
  <2>1. event' = event /\ p = "record" /\ evRow' = [evRow EXCEPT ![n] = TRUE]
    BY <1>3, <1>11 DEF RecordSet
  <2>2. wx' = [wx EXCEPT ![e] = [pc |-> q, pos |-> n + 1]]
    BY <1>7, <1>11 DEF RecordSet
  <2>3. n \in {1, 2}
    BY <1>4, <2>1
  <2>4. evRow' \in [{1, 2} -> BOOLEAN] /\ evRow'[n] = TRUE /\ (evRow[1] = TRUE => evRow'[1] = TRUE)
    BY <1>2, <2>1, <2>3
  <2>5. event <= event'
    BY <1>2, <2>1, SMT
  <2>6. q # "over" => evRow'[1] = TRUE
    BY <1>8, <2>3, <2>4
  <2>7. event' \in {0, 1, 2} /\ (event' = 2 => evRow'[1] = TRUE)
    BY <1>2, <2>1, <2>4
  <2>8. q \in {"look", "upsert", "record", "over"} /\ q # "upsert" /\ (q # "over" => n + 1 \in {1, 2})
    BY <1>8, <2>3
  <2> QED BY <1>1, <1>8, <2>2, <2>4, <2>5, <2>6, <2>7, <2>8, SetterGoesTo
<1>12. CASE RestartSet(e)
  <2>1. UNCHANGED <<event, evRow>> /\ wx' = [wx EXCEPT ![e] = [pc |-> "look", pos |-> 1]]
    BY <1>12 DEF RestartSet
  <2>2. event <= event'
    BY <1>2, <2>1, SMT
  <2>3. event' \in {0, 1, 2} /\ evRow' \in [{1, 2} -> BOOLEAN] /\ (event' = 2 => evRow'[1] = TRUE)
    BY <1>2, <2>1
  <2>4. 1 \in Nat /\ 1 # 2 /\ "look" # "upsert"
    BY SMT
  <2> QED BY <1>1, <2>1, <2>2, <2>3, <2>4, SetterGoesTo
<1> QED BY <1>9, <1>10, <1>11, <1>12

LEMMA EventKept ==
    ASSUME OneSetter, EventInv, [MessagingNext]_msgVars
    PROVE  EventInv' /\ (event' = event \/ event <= event')
<1>1. CASE \E e \in scene.setters : LookEvent(e) \/ WriteEvent(e) \/ RecordSet(e) \/ RestartSet(e)
  BY <1>1, SetterMoves
<1>2. CASE UNCHANGED <<scene, event, evRow, wx>>
  BY <1>2 DEF EventInv, SetSound
<1>3. CASE UNCHANGED msgVars \/ PassTime \/ \E k \in SendKey : SendKeyed(k)
  BY <1>2, <1>3 DEF msgVars, setVars, SendKeyed, PassTime
<1>4. CASE \E e \in scene.senders : LookSend(e) \/ SendStep(e)
  BY <1>2, <1>4 DEF setVars, LookSend, SendStep
<1>5. ASSUME NEW e \in RecvExec, RecvStep(e) \/ RestartRecv(e)
      PROVE  UNCHANGED <<scene, event, evRow, wx>>
  BY <1>5 DEF setVars, RecvStep, RestartRecv, LookWait, ClaimMessage, LockMessage, TakeMessage,
     ReadEvent, RecordEvent, LookDeadline, FixDeadline, Timer, WakeWait, Expire, Others
<1> QED BY <1>1, <1>2, <1>3, <1>4, <1>5 DEF MessagingNext

(* set_event: crashes between the write and its checkpoint included, the   *)
(* event of a workflow that one execution at a time runs never goes back.  *)
THEOREM EventGoesForward == OneSetter /\ MessagingSpec => EventForward
<1> SUFFICES ASSUME OneSetter PROVE MessagingSpec => EventForward
  OBVIOUS
<1>1. EventInv /\ [MessagingNext]_msgVars => EventInv' /\ [event <= event']_event
  BY EventKept
<1> QED BY <1>1, EventStarts, PTL DEF MessagingSpec, EventForward

-----------------------------------------------------------------------------
(***************************************************************************)
(* A reader of a stream, for any number of values and of events.           *)
(***************************************************************************)

(* The values are numbered, so a stretch of the stream is told by the      *)
(* number before its first.                                                *)
Numbered(s, k) == s \in Seq(Nat) /\ \A i \in 1 .. Len(s) : s[i] = k + i
Readers ==
    [kind : {"drain", "values"}, pc : {"read", "status", "done"}, got : Seq(Nat), buf : Seq(Nat),
     final : BOOLEAN, mark : Nat,
     saw : {"PENDING", "ENQUEUED", "DELAYED", "CANCELLED", "SUCCESS", "ERROR"}]
StreamTypeOK ==
    /\ pstatus \in {"PENDING", "ENQUEUED", "DELAYED", "CANCELLED", "SUCCESS", "ERROR"}
    /\ prod \in {"idle", "call"} /\ closed \in BOOLEAN /\ rd \in Readers
(* What is read is a stretch of the stream.                                *)
Stretches ==
    /\ Numbered(stream, 0) /\ Numbered(rd.got, 0) /\ Numbered(rd.buf, Len(rd.got))
    /\ Len(rd.got) + Len(rd.buf) <= Len(stream)
    /\ rd.mark <= Len(stream)
(* The stream of a producer that ended is complete.                        *)
Verdict ==
    /\ pstatus \in Ended => prod = "idle"
    /\ rd.final = FALSE => rd.mark = 0 /\ rd.saw = "PENDING"
    /\ rd.final = TRUE => rd.saw \notin Active /\ (rd.saw \in Ended => pstatus = rd.saw)
    /\ rd.pc = "done" =>
          /\ Len(rd.got) >= rd.mark
          /\ \/ rd.saw \in {"CANCELLED", "DELAYED"}
             \/ Len(rd.got) = Len(stream) /\ (closed = TRUE \/ pstatus \in Ended)
StreamInv == StreamTypeOK /\ Stretches /\ Verdict

LEMMA NumberedLen == ASSUME NEW s, NEW k, Numbered(s, k) PROVE Len(s) \in Nat /\ s \in Seq(Nat)
  BY LenProperties DEF Numbered

LEMMA NumberedEmpty == ASSUME NEW k PROVE Numbered(<<>>, k) /\ Len(<<>>) = 0
  BY EmptySeq, SMT DEF Numbered

LEMMA NumberedSame ==
    ASSUME NEW s, NEW t, NEW k, Numbered(s, k), Numbered(t, k), Len(s) = Len(t) PROVE s = t
  BY SeqEqual DEF Numbered

LEMMA NumberedConcat ==
    ASSUME NEW s, NEW t, NEW k \in Nat, Numbered(s, k), Numbered(t, k + Len(s))
    PROVE  Numbered(s \o t, k) /\ Len(s \o t) = Len(s) + Len(t)
<1>1. Len(s) \in Nat /\ Len(t) \in Nat /\ s \in Seq(Nat) /\ t \in Seq(Nat)
  BY NumberedLen
<1>2. /\ s \o t \in Seq(Nat) /\ Len(s \o t) = Len(s) + Len(t)
      /\ \A i \in 1 .. Len(s) + Len(t) : (s \o t)[i] = IF i <= Len(s) THEN s[i] ELSE t[i - Len(s)]
  BY <1>1, ConcatProperties
<1>3. ASSUME NEW i \in 1 .. Len(s \o t) PROVE (s \o t)[i] = k + i
  <2>1. CASE i <= Len(s)
    BY <1>1, <1>2, <2>1, SMT DEF Numbered
  <2>2. CASE ~(i <= Len(s))
    <3>1. i - Len(s) \in 1 .. Len(t)
      BY <1>1, <1>2, <2>2, SMT
    <3>2. t[i - Len(s)] = k + Len(s) + (i - Len(s))
      BY <3>1 DEF Numbered
    <3> QED BY <1>1, <1>2, <2>2, <3>1, <3>2, SMT
  <2> QED BY <2>1, <2>2
<1> QED BY <1>2, <1>3 DEF Numbered

LEMMA NumberedAppend ==
    ASSUME NEW s, NEW k \in Nat, Numbered(s, k), NEW n \in Nat, n = k + Len(s) + 1
    PROVE  Numbered(Append(s, n), k) /\ Len(Append(s, n)) = Len(s) + 1
<1>1. Len(s) \in Nat /\ s \in Seq(Nat)
  BY NumberedLen
<1>2. /\ Append(s, n) \in Seq(Nat) /\ Len(Append(s, n)) = Len(s) + 1
      /\ \A i \in 1 .. Len(s) : Append(s, n)[i] = s[i]
  BY <1>1, AppendProperties, SMT
<1>3. Append(s, n)[Len(s) + 1] = n
  BY <1>1, AppendProperties, SMT
<1> QED BY <1>1, <1>2, <1>3, SMT DEF Numbered

LEMMA NumberedTail ==
    ASSUME NEW s, NEW k \in Nat, Numbered(s, k), s # <<>>
    PROVE  /\ Head(s) = k + 1 /\ Numbered(Tail(s), k + 1) /\ Len(Tail(s)) = Len(s) - 1
           /\ Len(s) > 0
<1>1. Len(s) \in Nat /\ s \in Seq(Nat)
  BY NumberedLen
<1>2. Len(s) \in Nat \ {0}
  BY <1>1, EmptySeq
<1>3. /\ Tail(s) \in Seq(Nat) /\ Len(Tail(s)) = Len(s) - 1
      /\ \A i \in 1 .. Len(Tail(s)) : Tail(s)[i] = s[i + 1]
  BY <1>1, HeadTailProperties
<1>4. Head(s) = s[1]
  BY <1>1, <1>2, SMT
<1>5. \A i \in 1 .. Len(Tail(s)) : Tail(s)[i] = k + 1 + i
  BY <1>1, <1>2, <1>3, SMT DEF Numbered
<1> QED BY <1>2, <1>3, <1>4, <1>5, SMT DEF Numbered

LEMMA NumberedRest ==
    ASSUME NEW s, Numbered(s, 0), NEW m \in Nat, m <= Len(s)
    PROVE  /\ Numbered(SubSeq(s, m + 1, Len(s)), m)
           /\ Len(SubSeq(s, m + 1, Len(s))) = Len(s) - m
<1>1. Len(s) \in Nat /\ s \in Seq(Nat)
  BY NumberedLen
<1>2. \A i \in m + 1 .. Len(s) : s[i] \in Nat
  BY <1>1, SMT DEF Numbered
<1>3. /\ SubSeq(s, m + 1, Len(s)) \in Seq(Nat)
      /\ Len(SubSeq(s, m + 1, Len(s))) = Len(s) - m
      /\ \A i \in 1 .. Len(s) - m : SubSeq(s, m + 1, Len(s))[i] = s[m + i]
  <2>1. m + 1 \in Int /\ Len(s) \in Int
    BY <1>1, SMT
  <2>2. /\ SubSeq(s, m + 1, Len(s)) \in Seq(Nat)
        /\ Len(SubSeq(s, m + 1, Len(s))) = IF m + 1 <= Len(s) THEN Len(s) - (m + 1) + 1 ELSE 0
        /\ \A i \in 1 .. Len(s) - (m + 1) + 1 : SubSeq(s, m + 1, Len(s))[i] = s[(m + 1) + i - 1]
    BY <1>2, <2>1, SubSeqProperties, SMT
  <2> QED BY <1>1, <2>2, SMT
<1> QED BY <1>1, <1>3, SMT DEF Numbered

LEMMA NumberedPrefix ==
    ASSUME NEW s, Numbered(s, 0), NEW t, Numbered(t, 0), Len(t) <= Len(s)
    PROVE  t = SubSeq(s, 1, Len(t))
<1>1. Len(s) \in Nat /\ s \in Seq(Nat) /\ Len(t) \in Nat /\ t \in Seq(Nat)
  BY NumberedLen
<1>2. \A i \in 1 .. Len(t) : s[i] \in Nat
  BY <1>1, SMT DEF Numbered
<1>3. /\ SubSeq(s, 1, Len(t)) \in Seq(Nat)
      /\ Len(SubSeq(s, 1, Len(t))) = IF 1 <= Len(t) THEN Len(t) - 1 + 1 ELSE 0
      /\ \A i \in 1 .. Len(t) - 1 + 1 : SubSeq(s, 1, Len(t))[i] = s[1 + i - 1]
  BY <1>1, <1>2, SubSeqProperties, SMT
<1>4. Numbered(SubSeq(s, 1, Len(t)), 0) /\ Len(SubSeq(s, 1, Len(t))) = Len(t)
  BY <1>1, <1>3, SMT DEF Numbered
<1> QED BY <1>4, NumberedSame

LEMMA StreamStarts == StreamInit => StreamInv
<1> SUFFICES ASSUME StreamInit PROVE StreamInv
  OBVIOUS
<1>1. <<>> \in Seq(Nat)
  BY EmptySeq
<1>2. /\ rd.got = <<>> /\ rd.buf = <<>> /\ rd.final = FALSE /\ rd.mark = 0 /\ rd.saw = "PENDING"
      /\ rd.pc = "read" /\ rd \in Readers
  <2>1. PICK k \in {"drain", "values"}, e \in {<<>>} :
            rd = [kind |-> k, pc |-> "read", got |-> e, buf |-> e, final |-> FALSE, mark |-> 0,
                  saw |-> "PENDING"]
    BY DEF StreamInit
  <2>2. rd.got = e /\ rd.buf = e /\ rd.final = FALSE /\ rd.mark = 0 /\ rd.saw = "PENDING" /\ rd.pc = "read"
    BY <2>1
  <2>3. e \in Seq(Nat)
    BY <1>1, <2>1
  <2>4. rd \in Readers
    BY <2>1, <2>3 DEF Readers
  <2> QED BY <2>2, <2>4
<1>3. StreamTypeOK
  BY <1>2, StreamAssumption DEF StreamInit, StreamTypeOK
<1>4. Stretches
  BY <1>2, NumberedEmpty, SMT DEF StreamInit, Stretches
<1>5. Verdict
  BY <1>2 DEF StreamInit, Verdict
<1> QED BY <1>3, <1>4, <1>5 DEF StreamInv

LEMMA Lengths ==
    ASSUME StreamInv
    PROVE  /\ Numbered(stream, 0) /\ Numbered(rd.got, 0) /\ Numbered(rd.buf, Len(rd.got))
           /\ Len(stream) \in Nat /\ Len(rd.got) \in Nat /\ Len(rd.buf) \in Nat
           /\ Len(rd.got) <= Len(stream) /\ Len(rd.got) + Len(rd.buf) <= Len(stream)
           /\ rd \in Readers /\ rd.mark \in Nat /\ rd.mark <= Len(stream)
<1>1. Len(stream) \in Nat /\ Len(rd.got) \in Nat /\ Len(rd.buf) \in Nat
  BY NumberedLen DEF StreamInv, Stretches
<1>2. rd \in Readers /\ rd.mark \in Nat
  BY DEF StreamInv, StreamTypeOK, Readers
<1>3. ASSUME NEW a \in Nat, NEW b \in Nat, NEW c \in Nat, a + b <= c PROVE a <= c
  BY <1>3, SMT
<1>4. Len(rd.got) <= Len(stream)
  BY <1>1, <1>3 DEF StreamInv, Stretches
<1> QED BY <1>1, <1>2, <1>4 DEF StreamInv, Stretches

LEMMA ProducerKeeps ==
    ASSUME StreamInv, GuardWrite \/ WriteValue \/ CloseStream \/ CancelProducer \/ ReleaseProducer
                        \/ \E s \in Ended : FinishProducer(s)
    PROVE  StreamInv'
<1>1. CASE WriteValue
  <2>1. /\ prod = "call" /\ prod' = "idle" /\ UNCHANGED <<pstatus, closed, rd>>
        /\ stream' = IF closed THEN stream ELSE Append(stream, Len(stream) + 1)
    BY <1>1 DEF WriteValue
  <2>2. Numbered(Append(stream, Len(stream) + 1), 0)
        /\ Len(Append(stream, Len(stream) + 1)) = Len(stream) + 1
    BY Lengths, NumberedAppend, SMT
  <2>3. PICK n \in Nat : Len(stream') = n /\ n >= Len(stream) /\ (closed = TRUE => n = Len(stream))
    BY <2>1, <2>2, Lengths, SMT
  <2>4. Numbered(stream', 0) /\ StreamTypeOK'
    BY <2>1, <2>2, Lengths DEF StreamInv, StreamTypeOK
  <2>5. Stretches'
    <3>1. ASSUME NEW a \in Nat, NEW b \in Nat, NEW c \in Nat, NEW d \in Nat, a + b <= c, d >= c
          PROVE  a + b <= d
      BY <3>1, SMT
    <3>2. Len(rd.got) + Len(rd.buf) <= n
      BY <2>3, <3>1, Lengths
    <3>3. rd.mark <= n
      BY <2>3, Lengths, SMT
    <3> QED BY <2>1, <2>3, <2>4, <3>2, <3>3 DEF StreamInv, Stretches
  <2>6. Verdict'
    BY <2>1, <2>3 DEF StreamInv, Verdict
  <2> QED BY <2>4, <2>5, <2>6 DEF StreamInv
<1>2. CASE GuardWrite
  BY <1>2 DEF GuardWrite, StreamInv, StreamTypeOK, Stretches, Verdict, Ended
<1>3. CASE CloseStream
  BY <1>3 DEF CloseStream, StreamInv, StreamTypeOK, Stretches, Verdict, Ended
<1>4. CASE CancelProducer \/ ReleaseProducer \/ \E s \in Ended : FinishProducer(s)
  <2>1. /\ UNCHANGED <<stream, closed, prod, rd>> /\ pstatus \notin Ended
        /\ pstatus' \in {"PENDING", "ENQUEUED", "DELAYED", "CANCELLED", "SUCCESS", "ERROR"}
        /\ pstatus' \in Ended => prod = "idle"
    BY <1>4 DEF CancelProducer, ReleaseProducer, FinishProducer, Ended
  <2>2. StreamTypeOK' /\ Stretches'
    BY <2>1 DEF StreamInv, StreamTypeOK, Stretches
  <2>3. Verdict'
    BY <2>1 DEF StreamInv, StreamTypeOK, Readers, Verdict
  <2> QED BY <2>2, <2>3 DEF StreamInv
<1> QED BY <1>1, <1>2, <1>3, <1>4

LEMMA ReaderKeeps == ASSUME StreamInv, ReadEntries \/ Yield \/ ProducerStatus PROVE StreamInv'
<1>1. CASE ReadEntries
  <2> DEFINE m == Len(rd.got)
             new == SubSeq(stream, m + 1, Len(stream))
  <2>0. /\ rd.pc = "read" /\ rd.buf = <<>> /\ UNCHANGED <<pstatus, stream, closed, prod>>
        /\ Len(rd.buf) = 0
    BY <1>1, NumberedEmpty DEF ReadEntries
  <2>1. Numbered(new, m) /\ Len(new) = Len(stream) - m
    BY Lengths, NumberedRest
  <2>2. NewEntries = new
    BY <2>0, Lengths, SMT DEF NewEntries, Seen
  <2>3. new \in Seq(Nat) /\ Len(new) \in Nat
    BY <2>1, NumberedLen
  <2> HIDE DEF new
  <2>4. Numbered(rd.got \o new, 0) /\ Len(rd.got \o new) = Len(stream) /\ rd.got \o new \in Seq(Nat)
    <3>1. Numbered(new, 0 + Len(rd.got))
      BY <2>1, Lengths, SMT
    <3>2. Numbered(rd.got \o new, 0) /\ Len(rd.got \o new) = Len(rd.got) + Len(new)
      BY <3>1, Lengths, NumberedConcat
    <3>3. Len(rd.got) + Len(new) = Len(stream)
      BY <2>1, <2>3, Lengths, SMT
    <3> QED BY <3>2, <3>3, NumberedLen
  <2>5. CASE rd' = [rd EXCEPT !.buf = new]
    <3>1. /\ rd' \in Readers /\ rd'.buf = new /\ rd'.got = rd.got /\ rd'.pc = "read"
          /\ rd'.final = rd.final /\ rd'.mark = rd.mark /\ rd'.saw = rd.saw
      BY <2>0, <2>3, <2>5, Lengths DEF Readers
    <3>2. StreamTypeOK'
      BY <2>0, <3>1 DEF StreamInv, StreamTypeOK
    <3>3. Stretches'
      <4>1. Len(rd.got) + Len(new) <= Len(stream)
        BY <2>1, <2>3, Lengths, SMT
      <4> QED BY <2>0, <2>1, <3>1, <4>1 DEF StreamInv, Stretches
    <3>4. Verdict'
      BY <2>0, <3>1 DEF StreamInv, Verdict
    <3> QED BY <3>2, <3>3, <3>4 DEF StreamInv
  <2>6. CASE rd' = [rd EXCEPT !.got = @ \o new,
                              !.pc = IF closed \/ rd.final THEN "done" ELSE "status"]
    <3>1. /\ rd' \in Readers /\ rd'.buf = <<>> /\ rd'.got = rd.got \o new
          /\ rd'.pc = (IF closed \/ rd.final THEN "done" ELSE "status")
          /\ rd'.final = rd.final /\ rd'.mark = rd.mark /\ rd'.saw = rd.saw
      BY <2>0, <2>4, <2>6, Lengths DEF Readers
    <3>2. Numbered(rd'.got, 0) /\ Len(rd'.got) = Len(stream) /\ Numbered(rd'.buf, Len(rd'.got))
          /\ Len(rd'.buf) = 0
      BY <2>4, <3>1, NumberedEmpty
    <3>3. StreamTypeOK'
      BY <2>0, <3>1 DEF StreamInv, StreamTypeOK
    <3>4. Stretches'
      <4>1. Len(rd'.got) + Len(rd'.buf) <= Len(stream) /\ rd'.mark <= Len(stream)
        BY <3>1, <3>2, Lengths, SMT
      <4> QED BY <2>0, <3>2, <4>1 DEF StreamInv, Stretches
    <3>5. rd'.pc = "done" => rd.saw \in {"CANCELLED", "DELAYED"} \/ closed = TRUE \/ pstatus \in Ended
      BY <3>1 DEF StreamInv, StreamTypeOK, Verdict, Active, Ended, Readers
    <3>6. Len(rd'.got) >= rd'.mark
      BY <3>1, <3>2, Lengths
    <3>7. Verdict'
      BY <2>0, <3>1, <3>2, <3>5, <3>6 DEF StreamInv, Verdict
    <3> QED BY <3>3, <3>4, <3>7 DEF StreamInv
  <2> QED BY <1>1, <2>2, <2>5, <2>6 DEF ReadEntries
<1>2. CASE Yield
  <2>1. /\ rd.buf # <<>> /\ rd.pc = "read" /\ UNCHANGED <<pstatus, stream, closed, prod>>
        /\ rd' = [rd EXCEPT !.got = Append(@, Head(rd.buf)), !.buf = Tail(@)]
    BY <1>2 DEF Yield
  <2>2. /\ Head(rd.buf) = Len(rd.got) + 1 /\ Numbered(Tail(rd.buf), Len(rd.got) + 1)
        /\ Len(Tail(rd.buf)) = Len(rd.buf) - 1
    BY <2>1, Lengths, NumberedTail
  <2>3. /\ Numbered(Append(rd.got, Head(rd.buf)), 0)
        /\ Len(Append(rd.got, Head(rd.buf))) = Len(rd.got) + 1
    <3>1. Len(rd.got) + 1 \in Nat /\ Head(rd.buf) = 0 + Len(rd.got) + 1
      BY <2>2, Lengths, SMT
    <3> QED BY <3>1, Lengths, NumberedAppend, SMT
  <2>4. Append(rd.got, Head(rd.buf)) \in Seq(Nat) /\ Tail(rd.buf) \in Seq(Nat)
    BY <2>2, <2>3 DEF Numbered
  <2>5. /\ rd' \in Readers /\ rd'.got = Append(rd.got, Head(rd.buf)) /\ rd'.buf = Tail(rd.buf)
        /\ rd'.pc = "read" /\ rd'.final = rd.final /\ rd'.mark = rd.mark /\ rd'.saw = rd.saw
    BY <2>1, <2>4, Lengths DEF Readers
  <2>6. StreamTypeOK'
    BY <2>1, <2>5 DEF StreamInv, StreamTypeOK
  <2>7. Stretches'
    <3>1. Len(rd'.got) = Len(rd.got) + 1 /\ Len(rd'.buf) = Len(rd.buf) - 1
      BY <2>2, <2>3, <2>5
    <3>2. ASSUME NEW a \in Nat, NEW b \in Nat, NEW c \in Nat, a + b <= c PROVE (a + 1) + (b - 1) <= c
      BY <3>2, SMT
    <3>3. Len(rd'.got) + Len(rd'.buf) <= Len(stream)
      BY <3>1, <3>2, Lengths
    <3> QED BY <2>1, <2>2, <2>3, <2>5, <3>1, <3>3 DEF StreamInv, Stretches
  <2>8. Verdict'
    BY <2>1, <2>5 DEF StreamInv, Verdict
  <2> QED BY <2>6, <2>7, <2>8 DEF StreamInv
<1>3. CASE ProducerStatus
  <2>1. /\ rd.pc = "status" /\ UNCHANGED <<pstatus, stream, closed, prod>>
        /\ \/ rd' = [rd EXCEPT !.pc = "read"]
           \/ /\ pstatus \notin Active
              /\ rd' = [rd EXCEPT !.pc = "read", !.final = TRUE, !.mark = Len(stream),
                                  !.saw = pstatus]
    BY <1>3 DEF ProducerStatus
  <2>2. CASE rd' = [rd EXCEPT !.pc = "read"]
    <3>1. /\ rd' \in Readers /\ rd'.got = rd.got /\ rd'.buf = rd.buf
          /\ rd'.pc = "read" /\ rd'.final = rd.final /\ rd'.mark = rd.mark /\ rd'.saw = rd.saw
      BY <2>2, Lengths DEF Readers
    <3> QED BY <2>1, <3>1 DEF StreamInv, StreamTypeOK, Stretches, Verdict
  <2>3. CASE /\ pstatus \notin Active
             /\ rd' = [rd EXCEPT !.pc = "read", !.final = TRUE, !.mark = Len(stream),
                                  !.saw = pstatus]
    <3>1. /\ rd' \in Readers /\ rd'.got = rd.got /\ rd'.buf = rd.buf
          /\ rd'.pc = "read" /\ rd'.final = TRUE /\ rd'.mark = Len(stream) /\ rd'.saw = pstatus
      BY <2>3, Lengths DEF Readers, StreamInv, StreamTypeOK
    <3>2. StreamTypeOK'
      BY <2>1, <3>1 DEF StreamInv, StreamTypeOK
    <3>3. Stretches'
      <4>1. Len(stream) <= Len(stream)
        BY Lengths, SMT
      <4> QED BY <2>1, <3>1, <4>1 DEF StreamInv, Stretches
    <3>4. Verdict'
      BY <2>1, <2>3, <3>1 DEF StreamInv, Verdict
    <3> QED BY <3>2, <3>3, <3>4 DEF StreamInv
  <2> QED BY <2>1, <2>2, <2>3
<1> QED BY <1>1, <1>2, <1>3

(* A reader gets the values in order and without gaps, and ends with the   *)
(* whole stream, for any number of writes and however they fall between    *)
(* its queries and its look at the producer's status.                      *)
THEOREM ReadersDrain == StreamSpec => []DrainComplete
<1>1. StreamInv /\ [StreamNext]_streamVars => StreamInv'
  <2> SUFFICES ASSUME StreamInv, [StreamNext]_streamVars PROVE StreamInv'
    OBVIOUS
  <2>1. CASE UNCHANGED streamVars
    BY <2>1 DEF streamVars, StreamInv, StreamTypeOK, Stretches, Verdict
  <2> QED BY <2>1, ProducerKeeps, ReaderKeeps DEF StreamNext
<1>2. StreamInv => DrainComplete
  <2> SUFFICES ASSUME StreamInv PROVE DrainComplete
    OBVIOUS
  <2>1. rd.got = SubSeq(stream, 1, Len(rd.got))
    BY Lengths, NumberedPrefix
  <2>2. Len(rd.got) = Len(stream) => rd.got = stream
    BY Lengths, NumberedSame
  <2> QED BY <2>1, <2>2 DEF StreamInv, Verdict, DrainComplete
<1> QED BY <1>1, <1>2, StreamStarts, PTL DEF StreamSpec
=============================================================================
