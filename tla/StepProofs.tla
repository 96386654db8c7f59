----------------------------- MODULE StepProofs -----------------------------
(***************************************************************************)
(* Checkpointed steps: what StepCheckpoint promises of plain steps and     *)
(* TransactionStep of transactional ones.                                  *)
(***************************************************************************)
EXTENDS StepCheckpoint, TransactionStep, TLAPS

-----------------------------------------------------------------------------
(***************************************************************************)
(* Plain steps, for any number of executions, positions, values and        *)
(* unanswered inserts and for every deterministic function.                *)
(***************************************************************************)

(* A call that is under way belongs to a live execution that has awaited   *)
(* everything before it, so the operation it performs is settled.          *)
UnderWay == {"guard", "body", "writing"}

BuildingInv ==
    \A x \in Execution, n \in Position :
        call[x][n].phase \in UnderWay =>
            /\ exec[x].stage = "live"
            /\ \A m \in Before(n) : call[x][m].phase = "done"
            /\ Op(x, n) \in Name
            /\ call[x][n].phase = "writing" => call[x][n].text \in Text

(* A call has a result exactly when it is over, and none before it is      *)
(* built or its execution dispatched.                                      *)
PhaseInv ==
    \A x \in Execution, n \in Position :
        /\ call[x][n].phase = "done" <=> call[x][n].seen # Nothing
        /\ call[x][n].phase = "none" => ~call[x][n].ran
        /\ exec[x].stage = "unborn" => call[x][n].phase = "none"

(* A call that ran and was told an outcome is the one on record.           *)
WinnerInv ==
    \A x \in Execution, n \in Position :
        call[x][n].ran /\ call[x][n].seen \in Outcome =>
            log[n].start = call[x][n].start

(* What was on record at an execution's dispatch still is, and it has not  *)
(* run it and is not about to.                                             *)
KnownInv ==
    \A x \in Execution : \A n \in exec[x].known :
        /\ log[n] # NoRow
        /\ ~call[x][n].ran
        /\ call[x][n].phase \notin UnderWay

BaseInv ==
    /\ TypeOK
    /\ BuildingInv
    /\ PhaseInv
    /\ ReplayAgreement
    /\ WinnerInv
    /\ KnownInv

----------------------------------------------------------------------------
(* The effect of one call's step on the shared state: its own call becomes *)
(* c, and the record only grows.                                           *)
Grows == \A m \in Position : log[m] # NoRow => log'[m] = log[m]

CallEffect(x, n, c) ==
    /\ call' = [call EXCEPT ![x][n] = c]
    /\ c \in Call
    /\ call[x][n].phase # "done"
    /\ c.phase \in UnderWay \cup {"done"}
    /\ c.phase = "done" <=> c.seen # Nothing
    /\ c.phase = "writing" => c.text \in Text
    /\ \A m \in Before(n) : call[x][m].phase = "done"
    /\ Op(x, n) \in Name
    /\ exec[x].stage = "live"
    /\ \A y \in Execution : /\ exec'[y].stage = exec[y].stage
                            /\ exec'[y].known = exec[y].known
    /\ Grows
    /\ c.seen \in Outcome => /\ log'[n] # NoRow
                             /\ c.seen = Decode[log'[n].text]
                             /\ c.ran => log'[n].start = c.start
    /\ n \in exec[x].known => c.phase = "done" /\ ~c.ran

(* The prover of a leaf that names none.                                   *)
USE Zenon

(* Controls, outcomes and the absence of either are different things.      *)
LEMMA Distinct ==
    /\ Nothing \notin Outcome /\ Nothing \notin Text
    /\ \A e \in Control : e # Nothing /\ e \notin Outcome
    /\ Control = {"Cancelled", "WorkflowConflict", "RecoveryRequired",
                  "UnexpectedStep"}
  BY NothingAssumption, ControlAssumption DEF Control

(* An operation that a built call performs has a name.                     *)
LEMMA OpTyped ==
    ASSUME TypeOK, NEW x \in Execution, NEW n \in Position
    PROVE  Op(x, n) \in Name \cup {Return}
<1>1. History(x, n) \in [Before(n) -> Seen]
  BY SMT DEF History, Before, TypeOK, Call
<1> QED
  BY <1>1, OpNameAssumption DEF Op

(* The row of an insert under way.                                         *)
LEMMA InsertTyped ==
    ASSUME TypeOK, BuildingInv, NEW x \in Execution, NEW n \in Position,
           call[x][n].phase = "writing"
    PROVE  /\ Insert(x, n) \in Row
           /\ Insert(x, n).text = call[x][n].text
           /\ Insert(x, n).start = call[x][n].start
           /\ Insert(x, n).name = Op(x, n)
<1>1. Op(x, n) \in Name /\ call[x][n].text \in Text
  BY DEF BuildingInv, UnderWay
<1>2. call[x][n].start \in Instant \cup {NoStart}
  BY SMT DEF TypeOK, Call
<1> QED
  BY <1>1, <1>2 DEF Insert, Row

(* One lemma per step of a call.                                           *)
LEMMA ConsultEffect ==
    ASSUME BaseInv, NEW x \in Execution, NEW n \in Position, Consult(x, n)
    PROVE  \E c : CallEffect(x, n, c)
<1> DEFINE t == call[x][n]
<1>0. /\ t \in Call /\ t.phase = "none" /\ ~t.ran /\ t.seen = Nothing
      /\ \A m \in Before(n) : call[x][m].phase = "done"
      /\ exec[x].stage = "live"
      /\ UNCHANGED <<log, exec>>
  BY DEF Consult, Builds, Awaited, MayProceed, BaseInv, TypeOK, PhaseInv
<1>1. Op(x, n) \in Name
  BY OpTyped DEF BaseInv, Consult, Builds
<1>2. CASE log[n] # NoRow
  <2> DEFINE s == IF log[n].name = Op(x, n) THEN Decode[log[n].text]
                  ELSE "UnexpectedStep"
             c == [t EXCEPT !.phase = "done", !.text = Nothing, !.seen = s]
  <2>1. log[n] \in Row
    BY <1>2 DEF BaseInv, TypeOK
  <2>2. Decode[log[n].text] \in Outcome
    BY <2>1, CodecAssumption DEF Row
  <2>3. s \in Seen /\ s # Nothing /\ (s \in Outcome => s = Decode[log[n].text])
    BY <2>2, Distinct DEF Seen
  <2>4. call' = [call EXCEPT ![x][n] = c]
    BY <1>2 DEF Consult, ServeRecorded, Finished
  <2> HIDE DEF s
  <2>5. c \in Call /\ c.phase = "done" /\ c.seen = s /\ ~c.ran
    BY <1>0, <2>3 DEF Call
  <2> HIDE DEF c
  <2>6. CallEffect(x, n, c)
    BY <1>0, <1>1, <1>2, <2>3, <2>4, <2>5 DEF CallEffect, Grows
  <2> QED
    BY <2>6
<1>3. CASE log[n] = NoRow
  <2> DEFINE c == IF n \in Instantaneous
                  THEN [t EXCEPT !.phase = "body", !.ran = TRUE]
                  ELSE [t EXCEPT !.phase = "guard"]
  <2>1. call' = [call EXCEPT ![x][n] = c]
    BY <1>3 DEF Consult, ServeRecorded
  <2>2. c \in Call /\ c.phase \in {"guard", "body"} /\ c.seen = Nothing
    <3>1. CASE n \in Instantaneous
      BY <1>0, <3>1 DEF Call
    <3>2. CASE n \notin Instantaneous
      BY <1>0, <3>2 DEF Call
    <3> QED
      BY <3>1, <3>2
  <2>3. n \notin exec[x].known
    BY <1>3 DEF BaseInv, KnownInv
  <2> HIDE DEF c
  <2>4. CallEffect(x, n, c)
    BY <1>0, <1>1, <2>1, <2>2, <2>3, Distinct DEF CallEffect, Grows, UnderWay
  <2> QED
    BY <2>4
<1> QED
  BY <1>2, <1>3

(* Every call that ends with a control error, the record untouched.        *)
LEMMA ControlEffect ==
    ASSUME BaseInv, NEW x \in Execution, NEW n \in Position,
           NEW e \in Control, Finished(x, n, e), UNCHANGED log,
           exec[x].stage = "live", call[x][n].phase # "done",
           \A m \in Before(n) : call[x][m].phase = "done",
           Op(x, n) \in Name,
           \A y \in Execution : /\ exec'[y].stage = exec[y].stage
                                 /\ exec'[y].known = exec[y].known
    PROVE  \E c : CallEffect(x, n, c)
<1> DEFINE c == [call[x][n] EXCEPT !.phase = "done", !.text = Nothing,
                                   !.seen = e]
<1>1. call' = [call EXCEPT ![x][n] = c]
  BY DEF Finished
<1>2. c \in Call /\ c.phase = "done" /\ c.seen = e /\ c.ran = call[x][n].ran
  <2>1. call[x][n] \in Call /\ e \in Seen
    BY DEF BaseInv, TypeOK, Seen
  <2> QED
    BY <2>1 DEF Call
<1>3. n \in exec[x].known => ~call[x][n].ran
  BY DEF BaseInv, KnownInv
<1> HIDE DEF c
<1>4. CallEffect(x, n, c)
  BY <1>1, <1>2, <1>3, Distinct DEF CallEffect, Grows
<1> QED
  BY <1>4

(* The call at n is under way, and not one of those on record at dispatch. *)
LEMMA UnderWayFacts ==
    ASSUME BaseInv, NEW x \in Execution, NEW n \in Position,
           call[x][n].phase \in UnderWay
    PROVE  /\ call[x][n] \in Call /\ call[x][n].phase # "done"
           /\ call[x][n].seen = Nothing
           /\ \A m \in Before(n) : call[x][m].phase = "done"
           /\ Op(x, n) \in Name
           /\ exec[x].stage = "live"
           /\ n \notin exec[x].known
<1>1. call[x][n] \in Call
  BY DEF BaseInv, TypeOK
<1>2. call[x][n].phase # "done" /\ call[x][n].seen = Nothing
  BY <1>1 DEF BaseInv, PhaseInv, UnderWay
<1> QED
  BY <1>1, <1>2 DEF BaseInv, BuildingInv, KnownInv

(* Execution::interrupt leaves stage and known alone.                      *)
LEMMA InterruptFacts ==
    ASSUME TypeOK, NEW x \in Execution, Interrupt(x)
    PROVE  /\ exec' \in [Execution -> Execs]
           /\ \A y \in Execution : /\ exec'[y].stage = exec[y].stage
                                    /\ exec'[y].known = exec[y].known
                                    /\ exec'[y].latched = IF y = x THEN TRUE
                                                          ELSE exec[y].latched
  BY DEF TypeOK, Execs, Interrupt

LEMMA GuardEffect ==
    ASSUME BaseInv, NEW x \in Execution, NEW n \in Position, Guard(x, n)
    PROVE  \E c : CallEffect(x, n, c)
<1>0. call[x][n].phase = "guard" /\ UNCHANGED <<log, exec>>
  BY DEF Guard
<1>1. CASE status = "CANCELLED"
  <2>1. Finished(x, n, "Cancelled") /\ "Cancelled" \in Control
    BY <1>1 DEF Guard, Control
  <2> QED
    BY <1>0, <2>1, UnderWayFacts, ControlEffect DEF UnderWay
<1>2. CASE status # "CANCELLED"
  <2>1. PICK t \in Instant :
            call' = [call EXCEPT ![x][n] =
                [@ EXCEPT !.phase = "body", !.start = t, !.ran = TRUE]]
    BY <1>2 DEF Guard
  <2> DEFINE c == [call[x][n] EXCEPT !.phase = "body", !.start = t,
                                     !.ran = TRUE]
  <2>2. call' = [call EXCEPT ![x][n] = c]
    BY <2>1
  <2>3. call[x][n] \in Call /\ call[x][n].seen = Nothing
    BY <1>0, UnderWayFacts DEF UnderWay
  <2>4. c \in Call /\ c.phase = "body" /\ c.seen = Nothing
    BY <2>3 DEF Call
  <2> HIDE DEF c
  <2>5. CallEffect(x, n, c)
    BY <1>0, <2>2, <2>4, UnderWayFacts, Distinct
       DEF CallEffect, Grows, UnderWay
  <2> QED
    BY <2>5
<1> QED
  BY <1>1, <1>2

LEMMA WriteEffect ==
    ASSUME BaseInv, NEW x \in Execution, NEW n \in Position, Write(x, n)
    PROVE  \E c : CallEffect(x, n, c)
<1>0. call[x][n].phase = "body" /\ UNCHANGED <<log, exec>>
  BY DEF Write
<1>1. PICK o \in Outcome :
          call' = [call EXCEPT ![x][n] =
                     [@ EXCEPT !.phase = "writing", !.text = Encode[o]]]
  BY DEF Write
<1> DEFINE c == [call[x][n] EXCEPT !.phase = "writing", !.text = Encode[o]]
<1>2. call' = [call EXCEPT ![x][n] = c]
  BY <1>1
<1>3. /\ call[x][n] \in Call /\ call[x][n].seen = Nothing
      /\ Encode[o] \in Text
  BY <1>0, UnderWayFacts, CodecAssumption DEF UnderWay
<1>4. /\ c \in Call /\ c.phase = "writing" /\ c.seen = Nothing
      /\ c.text \in Text
  BY <1>3 DEF Call
<1> HIDE DEF c
<1>5. CallEffect(x, n, c)
  BY <1>0, <1>2, <1>4, UnderWayFacts, Distinct DEF CallEffect, Grows, UnderWay
<1> QED
  BY <1>5

LEMMA AnsweredEffect ==
    ASSUME BaseInv, NEW x \in Execution, NEW n \in Position, Answered(x, n)
    PROVE  \E c : CallEffect(x, n, c)
<1> DEFINE mine == Insert(x, n)
           row == IF log[n] = NoRow THEN mine ELSE log[n]
           s == Classify(row, mine)
           c == [call[x][n] EXCEPT !.phase = "done", !.text = Nothing,
                                   !.seen = s]
<1>0. call[x][n].phase = "writing" /\ UNCHANGED exec
  BY DEF Answered
<1>1. /\ call' = [call EXCEPT ![x][n] = c]
      /\ log' = [log EXCEPT ![n] = row]
  BY DEF Answered, RecordStepResult, Finished
<1>2. mine \in Row /\ mine.start = call[x][n].start
  BY <1>0, InsertTyped DEF BaseInv
<1>3. row \in Row /\ row # NoRow
  BY <1>2, NothingAssumption DEF BaseInv, TypeOK
<1>4. Decode[row.text] \in Outcome
  BY <1>3, CodecAssumption DEF Row
<1> HIDE DEF mine
<1>5. /\ s \in Outcome \cup Control
      /\ s \in Outcome => s = Decode[row.text] /\ row.start = mine.start
  <2> HIDE DEF row
  <2> QED
    BY <1>4, Distinct DEF Classify, SameWrite
<1> HIDE DEF s
<1>6. call[x][n] \in Call /\ s \in Seen /\ s # Nothing
  BY <1>0, <1>5, UnderWayFacts, Distinct DEF UnderWay, Seen
<1>7. /\ c \in Call /\ c.phase = "done" /\ c.seen = s
      /\ c.start = call[x][n].start
  BY <1>6 DEF Call
<1>8. Grows /\ log'[n] = row
  BY <1>1 DEF Grows, BaseInv, TypeOK
<1> HIDE DEF c, row
<1>9. CallEffect(x, n, c)
  BY <1>0, <1>1, <1>2, <1>3, <1>5, <1>6, <1>7, <1>8, UnderWayFacts, SMT
     DEF CallEffect, UnderWay
<1> QED
  BY <1>9

LEMMA CallStepEffect ==
    ASSUME BaseInv, NEW x \in Execution, NEW n \in Position, CallStep(x, n)
    PROVE  \E c : CallEffect(x, n, c)
<1> "RecoveryRequired" \in Control /\ "Cancelled" \in Control
  BY DEF Control
<1>1. CASE Consult(x, n)
  BY <1>1, ConsultEffect
<1>2. CASE ConsultFails(x, n)
  <2>1. /\ Finished(x, n, "RecoveryRequired") /\ Interrupt(x) /\ UNCHANGED log
        /\ exec[x].stage = "live" /\ call[x][n].phase = "none"
        /\ \A m \in Before(n) : call[x][m].phase = "done"
    BY <1>2 DEF ConsultFails, Builds, MayProceed, Awaited
  <2>2. Op(x, n) \in Name
    BY <1>2, OpTyped DEF BaseInv, ConsultFails, Builds
  <2> QED
    BY <2>1, <2>2, InterruptFacts, ControlEffect DEF BaseInv
<1>3. CASE Guard(x, n)
  BY <1>3, GuardEffect
<1>4. CASE GuardFails(x, n)
  <2>1. /\ Finished(x, n, "RecoveryRequired") /\ Interrupt(x) /\ UNCHANGED log
        /\ call[x][n].phase \in UnderWay
    BY <1>4 DEF GuardFails, UnderWay
  <2> QED
    BY <2>1, UnderWayFacts, InterruptFacts, ControlEffect DEF BaseInv
<1>5. CASE StepCancelled(x, n)
  <2>1. /\ Finished(x, n, "Cancelled") /\ UNCHANGED <<log, exec>>
        /\ call[x][n].phase \in UnderWay
    BY <1>5 DEF StepCancelled, UnderWay
  <2> QED
    BY <2>1, UnderWayFacts, ControlEffect
<1>6. CASE Write(x, n)
  BY <1>6, WriteEffect
<1>7. CASE Answered(x, n)
  BY <1>7, AnsweredEffect
<1>8. CASE AnswerLost(x, n)
  <2>1. /\ Finished(x, n, "RecoveryRequired") /\ Interrupt(x) /\ UNCHANGED log
        /\ call[x][n].phase \in UnderWay
    BY <1>8 DEF AnswerLost, UnderWay
  <2> QED
    BY <2>1, UnderWayFacts, InterruptFacts, ControlEffect DEF BaseInv
<1> QED
  BY <1>1, <1>2, <1>3, <1>4, <1>5, <1>6, <1>7, <1>8 DEF CallStep

----------------------------------------------------------------------------
(* Preservation.                                                           *)

(* What op x performs at n depends on x's results before n only.           *)
LEMMA OpStable ==
    ASSUME NEW x \in Execution, NEW n \in Position,
           \A m \in Before(n) : call'[x][m].seen = call[x][m].seen
    PROVE  Op(x, n)' = Op(x, n)
<1>1. History(x, n)' = History(x, n)
  BY DEF History, Before
<1> QED
  BY <1>1 DEF Op

LEMMA BeforeLess ==
    ASSUME NEW n \in Position, NEW m \in Before(n)
    PROVE  m \in Position /\ m < n /\ m # n
  BY StepsAssumption, JoinedAssumption, SMT DEF Before, Position

LEMMA OutliveTyped ==
    ASSUME TypeOK, BuildingInv, NEW x \in Execution,
           NEW some \in SUBSET InFlight(x), Outlive(x, some)
    PROVE  late' \subseteq [n: Position, row: Row]
<1>1. \A n \in some : n \in Position /\ Insert(x, n) \in Row
  BY InsertTyped DEF InFlight
<1> QED
  BY <1>1, SMT DEF Outlive, TypeOK

(* The pointwise reading of an update of one call.                         *)
LEMMA OneCall ==
    ASSUME TypeOK, NEW x \in Execution, NEW n \in Position, NEW c \in Call,
           call' = [call EXCEPT ![x][n] = c]
    PROVE  /\ call' \in [Execution -> [Position -> Call]]
           /\ \A y \in Execution, m \in Position :
                 call'[y][m] = IF y = x /\ m = n THEN c ELSE call[y][m]
  BY DEF TypeOK

LEMMA CallStepTyped ==
    ASSUME BaseInv, NEW x \in Execution, NEW n \in Position, CallStep(x, n)
    PROVE  TypeOK'
<1>1. PICK c : CallEffect(x, n, c)
  BY CallStepEffect
<1>2. call' \in [Execution -> [Position -> Call]]
  BY <1>1, OneCall DEF CallEffect, BaseInv
<1>3. UNCHANGED <<status, result>>
  BY DEF CallStep, Consult, ConsultFails, Guard, GuardFails, StepCancelled,
     Write, Answered, AnswerLost
<1>4. exec' \in [Execution -> Execs]
  <2>1. Interrupt(x) \/ UNCHANGED exec
    BY DEF CallStep, Consult, ConsultFails, Guard, GuardFails, StepCancelled,
       Write, Answered, AnswerLost
  <2> QED
    BY <2>1, InterruptFacts DEF BaseInv, TypeOK
<1>5. log' \in [Position -> Row \cup {NoRow}]
  <2>1. CASE Answered(x, n)
    <3>1. Insert(x, n) \in Row
      BY <2>1, InsertTyped DEF BaseInv, Answered
    <3> QED
      BY <2>1, <3>1 DEF Answered, RecordStepResult, BaseInv, TypeOK
  <2>2. CASE ~Answered(x, n)
    BY <2>2 DEF CallStep, Consult, ConsultFails, Guard, GuardFails,
       StepCancelled, Write, AnswerLost, BaseInv, TypeOK
  <2> QED
    BY <2>1, <2>2
<1>6. late' \subseteq [n: Position, row: Row]
  <2>1. CASE AnswerLost(x, n)
    <3>1. PICK some \in SUBSET {n} : Outlive(x, some)
      BY <2>1 DEF AnswerLost
    <3>2. some \in SUBSET InFlight(x)
      BY <2>1 DEF AnswerLost, InFlight
    <3> QED
      BY <3>1, <3>2, OutliveTyped DEF BaseInv
  <2>2. CASE ~AnswerLost(x, n)
    BY <2>2 DEF CallStep, Consult, ConsultFails, Guard, GuardFails,
       StepCancelled, Write, Answered, BaseInv, TypeOK
  <2> QED
    BY <2>1, <2>2
<1> QED
  BY <1>2, <1>3, <1>4, <1>5, <1>6 DEF BaseInv, TypeOK

LEMMA CallStepBase ==
    ASSUME BaseInv, NEW x \in Execution, NEW n \in Position, CallStep(x, n)
    PROVE  BaseInv'
<1>0. TypeOK'
  BY CallStepTyped
<1>1. PICK c : CallEffect(x, n, c)
  BY CallStepEffect
<1>2. \A y \in Execution, m \in Position :
         call'[y][m] = IF y = x /\ m = n THEN c ELSE call[y][m]
  BY <1>1, OneCall DEF CallEffect, BaseInv
<1>3. /\ \A y \in Execution : /\ exec'[y].stage = exec[y].stage
                               /\ exec'[y].known = exec[y].known
      /\ Grows
  BY <1>1 DEF CallEffect
<1>4. BuildingInv'
  <2> SUFFICES ASSUME NEW y \in Execution, NEW k \in Position,
                      call'[y][k].phase \in UnderWay
               PROVE  /\ exec'[y].stage = "live"
                      /\ \A m \in Before(k) : call'[y][m].phase = "done"
                      /\ Op(y, k)' \in Name
                      /\ call'[y][k].phase = "writing" =>
                            call'[y][k].text \in Text
    BY DEF BuildingInv, UnderWay, Before
  <2>1. /\ exec[y].stage = "live" /\ Op(y, k) \in Name
        /\ \A m \in Before(k) : call[y][m].phase = "done"
        /\ call'[y][k].phase = "writing" => call'[y][k].text \in Text
    <3>1. CASE y = x /\ k = n
      BY <1>1, <1>2, <3>1, SMT DEF CallEffect
    <3>2. CASE ~(y = x /\ k = n)
      BY <1>2, <3>2, SMT DEF BaseInv, BuildingInv
    <3> QED
      BY <3>1, <3>2
  <2>2. \A m \in Before(k) : call'[y][m] = call[y][m]
    BY <1>1, <1>2, <2>1, BeforeLess, SMT DEF CallEffect
  <2>3. Op(y, k)' = Op(y, k)
    BY <2>2, OpStable
  <2> QED
    BY <1>3, <2>1, <2>2, <2>3
<1>5. PhaseInv'
  BY <1>1, <1>2, <1>3, SMT DEF BaseInv, PhaseInv, CallEffect, UnderWay
<1>6. ReplayAgreement'
  BY <1>1, <1>2, <1>3, SMT DEF BaseInv, ReplayAgreement, CallEffect, Grows
<1>7. WinnerInv'
  BY <1>1, <1>2, <1>3, SMT DEF BaseInv, WinnerInv, ReplayAgreement, CallEffect,
     Grows
<1>8. KnownInv'
  <2> SUFFICES ASSUME NEW y \in Execution, NEW k \in exec'[y].known
               PROVE  /\ log'[k] # NoRow /\ ~call'[y][k].ran
                      /\ call'[y][k].phase \notin UnderWay
    BY DEF KnownInv, UnderWay
  <2>1. k \in exec[y].known /\ k \in Position
    BY <1>3 DEF BaseInv, TypeOK, Execs
  <2>2. log[k] # NoRow /\ ~call[y][k].ran /\ call[y][k].phase \notin UnderWay
    BY <2>1 DEF BaseInv, KnownInv
  <2> QED
    BY <1>1, <1>2, <1>3, <2>1, <2>2, SMT DEF CallEffect, Grows, UnderWay
<1> QED
  BY <1>0, <1>4, <1>5, <1>6, <1>7, <1>8 DEF BaseInv

(* What the end of an execution leaves of it.                              *)
LEMMA StopFacts ==
    ASSUME TypeOK, BuildingInv, NEW x \in Execution, Stop(x)
    PROVE  /\ exec' \in [Execution -> Execs]
           /\ call' \in [Execution -> [Position -> Call]]
           /\ late' \subseteq [n: Position, row: Row]
           /\ \A y \in Execution : y # x => exec'[y] = exec[y]
           /\ exec'[x].stage = "stopped" /\ exec'[x].known = {}
           /\ \A y \in Execution, m \in Position :
                 call'[y][m] = IF y # x \/ call[x][m].seen \in Outcome
                               THEN call[y][m] ELSE NewCall
<1>1. NewCall \in Call
  BY DEF NewCall, Call, Seen
<1>2. [stage |-> "stopped", latched |-> FALSE, known |-> {}] \in Execs
  BY DEF Execs
<1>3. PICK some \in SUBSET InFlight(x) : Outlive(x, some)
  BY DEF Stop
<1>4. late' \subseteq [n: Position, row: Row]
  BY <1>3, OutliveTyped
<1>5. /\ exec' \in [Execution -> Execs]
      /\ \A y \in Execution : y # x => exec'[y] = exec[y]
      /\ exec'[x].stage = "stopped" /\ exec'[x].known = {}
  BY <1>2 DEF Stop, TypeOK
<1>6. /\ call' \in [Execution -> [Position -> Call]]
      /\ \A y \in Execution, m \in Position :
            call'[y][m] = IF y # x \/ call[x][m].seen \in Outcome
                          THEN call[y][m] ELSE NewCall
  BY <1>1 DEF Stop, TypeOK
<1> QED
  BY <1>4, <1>5, <1>6

LEMMA StopBase ==
    ASSUME BaseInv, NEW x \in Execution, Stop(x), UNCHANGED log,
           status' \in {"PENDING", "CANCELLED", "Completed"},
           result' \in [Position -> Seen]
    PROVE  BaseInv'
<1>1. /\ exec' \in [Execution -> Execs]
      /\ call' \in [Execution -> [Position -> Call]]
      /\ late' \subseteq [n: Position, row: Row]
      /\ \A y \in Execution : y # x => exec'[y] = exec[y]
      /\ exec'[x].stage = "stopped" /\ exec'[x].known = {}
  BY StopFacts DEF BaseInv
<1>2. \A y \in Execution, m \in Position :
         call'[y][m] = IF y # x \/ call[x][m].seen \in Outcome
                       THEN call[y][m] ELSE NewCall
  BY StopFacts DEF BaseInv
<1>3. TypeOK'
  BY <1>1 DEF BaseInv, TypeOK
<1>4. /\ NewCall.phase = "none" /\ ~NewCall.ran /\ NewCall.seen = Nothing
      /\ Nothing \notin Outcome
  BY Distinct DEF NewCall
<1>5. \A m \in Position : call'[x][m].phase \notin UnderWay
  BY <1>2, <1>4 DEF BaseInv, PhaseInv, UnderWay
<1>6. BuildingInv'
  <2> SUFFICES ASSUME NEW y \in Execution, NEW k \in Position,
                      call'[y][k].phase \in UnderWay
               PROVE  /\ exec'[y].stage = "live"
                      /\ \A m \in Before(k) : call'[y][m].phase = "done"
                      /\ Op(y, k)' \in Name
                      /\ call'[y][k].phase = "writing" =>
                            call'[y][k].text \in Text
    BY DEF BuildingInv, UnderWay, Before
  <2>1. y # x /\ \A m \in Position : call'[y][m] = call[y][m]
    BY <1>2, <1>5
  <2>2. \A m \in Before(k) : m \in Position
    BY DEF Before
  <2>3. Op(y, k)' = Op(y, k)
    BY <2>1, <2>2, OpStable
  <2>4. /\ exec[y].stage = "live"
        /\ \A m \in Before(k) : call[y][m].phase = "done"
        /\ Op(y, k) \in Name
        /\ call[y][k].phase = "writing" => call[y][k].text \in Text
    BY <2>1 DEF BaseInv, BuildingInv
  <2> HIDE DEF Op, Before
  <2> QED
    BY <1>1, <2>1, <2>2, <2>3, <2>4
<1>7. PhaseInv'
  BY <1>1, <1>2, <1>4, SMT DEF BaseInv, PhaseInv
<1>8. ReplayAgreement'
  BY <1>2, <1>4, SMT DEF BaseInv, ReplayAgreement
<1>9. WinnerInv'
  BY <1>2, <1>4, SMT DEF BaseInv, WinnerInv
<1>10. KnownInv'
  BY <1>1, <1>2, <1>3 DEF BaseInv, KnownInv, TypeOK, Execs, UnderWay
<1> QED
  BY <1>3, <1>6, <1>7, <1>8, <1>9, <1>10 DEF BaseInv

(* The end of an execution, whatever the reason.                           *)
LEMMA EndTyped ==
    ASSUME TypeOK, NEW x \in Execution,
           \/ Interrupted(x) \/ Adopts(x) \/ Cancels(x) \/ Completes(x)
           \/ Crash(x)
    PROVE  /\ Stop(x) /\ UNCHANGED log
           /\ status' \in {"PENDING", "CANCELLED", "Completed"}
           /\ result' \in [Position -> Seen]
<1>1. CASE Interrupted(x) \/ Adopts(x) \/ Crash(x)
  BY <1>1 DEF Interrupted, Adopts, Crash, TypeOK
<1>2. CASE Cancels(x)
  BY <1>2 DEF Cancels, TypeOK
<1>3. CASE Completes(x)
  <2>1. [n \in Position |-> call[x][n].seen] \in [Position -> Seen]
    BY DEF TypeOK, Call
  <2> QED
    BY <1>3, <2>1 DEF Completes, RecordOutcome, TypeOK
<1> QED
  BY <1>1, <1>2, <1>3

LEMMA DispatchBase ==
    ASSUME BaseInv, NEW x \in Execution, Dispatch(x)
    PROVE  BaseInv'
<1>1. [stage |-> "live", latched |-> FALSE, known |-> Recorded] \in Execs
  BY DEF Execs, Recorded
<1>2. /\ exec' \in [Execution -> Execs]
      /\ \A y \in Execution : y # x => exec'[y] = exec[y]
      /\ exec'[x].stage = "live" /\ exec'[x].known = Recorded
      /\ exec[x].stage = "unborn"
      /\ UNCHANGED <<log, status, result, call, late>>
  BY <1>1 DEF Dispatch, BaseInv, TypeOK
<1>3. TypeOK'
  BY <1>2 DEF BaseInv, TypeOK
<1>4. \A n \in Position : call[x][n].phase = "none" /\ ~call[x][n].ran
  BY <1>2 DEF BaseInv, PhaseInv
<1>5. BuildingInv'
  <2>1. \A y \in Execution, n \in Position : Op(y, n)' = Op(y, n)
    BY <1>2, OpStable
  <2> QED
    BY <1>2, <1>4, <2>1 DEF BaseInv, BuildingInv, UnderWay
<1>6. PhaseInv'
  BY <1>2, SMT DEF BaseInv, PhaseInv
<1>7. ReplayAgreement' /\ WinnerInv'
  BY <1>2 DEF BaseInv, ReplayAgreement, WinnerInv
<1>8. KnownInv'
  BY <1>2, <1>4 DEF BaseInv, KnownInv, Recorded, UnderWay
<1> QED
  BY <1>3, <1>5, <1>6, <1>7, <1>8 DEF BaseInv

(* A step that leaves the executions and their calls alone and lets the    *)
(* record grow.                                                            *)
LEMMA RecordGrowsBase ==
    ASSUME BaseInv, UNCHANGED <<exec, call>>, Grows, TypeOK'
    PROVE  BaseInv'
<1>1. BuildingInv'
  <2>1. \A y \in Execution, n \in Position : Op(y, n)' = Op(y, n)
    BY OpStable
  <2> QED
    BY <2>1 DEF BaseInv, BuildingInv
<1>2. PhaseInv'
  BY DEF BaseInv, PhaseInv
<1>3. ReplayAgreement'
  BY SMT DEF BaseInv, ReplayAgreement, Grows
<1>4. WinnerInv'
  BY SMT DEF BaseInv, WinnerInv, ReplayAgreement, Grows
<1>5. KnownInv'
  <2>1. \A x \in Execution : exec[x].known \subseteq Position
    BY DEF BaseInv, TypeOK, Execs
  <2> QED
    BY <2>1 DEF BaseInv, KnownInv, Grows
<1> QED
  BY <1>1, <1>2, <1>3, <1>4, <1>5 DEF BaseInv

LEMMA LateFacts ==
    ASSUME TypeOK, NEW i \in late, LateCommit(i) \/ LateDrop(i)
    PROVE  Grows /\ TypeOK' /\ UNCHANGED <<exec, call, status, result>>
<1>1. i.n \in Position /\ i.row \in Row
  BY DEF TypeOK
<1>2. CASE LateCommit(i)
  BY <1>1, <1>2 DEF LateCommit, TypeOK, Grows
<1>3. CASE LateDrop(i)
  BY <1>3 DEF LateDrop, TypeOK, Grows
<1> QED
  BY <1>2, <1>3

(* Cancelling and resuming touch the row's status alone.                   *)
LEMMA StatusOnly ==
    ASSUME TypeOK, Cancel \/ Resume
    PROVE  Grows /\ TypeOK' /\ UNCHANGED <<log, result, exec, call, late>>
BY DEF Cancel, Resume, TypeOK, Grows

(* The invariant is inductive.                                             *)
LEMMA BaseInit == Init => BaseInv
<1> SUFFICES ASSUME Init PROVE BaseInv
  OBVIOUS
<1>1. NewCall \in Call
  BY DEF NewCall, Call, Seen
<1>2. [stage |-> "unborn", latched |-> FALSE, known |-> {}] \in Execs
  BY DEF Execs
<1>3. TypeOK
  BY <1>1, <1>2 DEF Init, TypeOK, Unknown, Seen
<1>4. \A x \in Execution, n \in Position :
         /\ call[x][n].phase = "none" /\ ~call[x][n].ran
         /\ call[x][n].seen = Nothing
         /\ exec[x].known = {}
  BY DEF Init, NewCall
<1>5. BuildingInv /\ PhaseInv
  BY <1>4 DEF BuildingInv, PhaseInv, UnderWay
<1>6. ReplayAgreement /\ WinnerInv
  BY <1>4, Distinct DEF ReplayAgreement, WinnerInv
<1>7. KnownInv
  BY DEF Init, KnownInv
<1> QED
  BY <1>3, <1>5, <1>6, <1>7 DEF BaseInv

LEMMA BaseStep == BaseInv /\ [Next]_vars => BaseInv'
<1> SUFFICES ASSUME BaseInv, [Next]_vars PROVE BaseInv'
  OBVIOUS
<1>1. CASE \E x \in Execution, n \in Position : CallStep(x, n)
  BY <1>1, CallStepBase
<1>2. CASE \E x \in Execution : ExecutionStep(x)
  <2>1. PICK x \in Execution : ExecutionStep(x)
    BY <1>2
  <2>2. CASE Dispatch(x)
    BY <2>2, DispatchBase
  <2>3. CASE ~Dispatch(x)
    <3>1. /\ Stop(x) /\ UNCHANGED log
          /\ status' \in {"PENDING", "CANCELLED", "Completed"}
          /\ result' \in [Position -> Seen]
      BY <2>1, <2>3, EndTyped DEF ExecutionStep, BaseInv
    <3> QED
      BY <3>1, StopBase
  <2> QED
    BY <2>2, <2>3
<1>3. CASE \E i \in late : LateCommit(i) \/ LateDrop(i)
  BY <1>3, LateFacts, RecordGrowsBase DEF BaseInv
<1>4. CASE Cancel \/ Resume
  BY <1>4, StatusOnly, RecordGrowsBase DEF BaseInv
<1>5. CASE UNCHANGED vars
  <2>1. Grows /\ TypeOK' /\ UNCHANGED <<exec, call>>
    BY <1>5 DEF vars, Grows, BaseInv, TypeOK
  <2> QED
    BY <2>1, RecordGrowsBase
<1> QED
  BY <1>1, <1>2, <1>3, <1>4, <1>5 DEF Next

LEMMA BaseAlways == Spec => []BaseInv
<1>1. Init => BaseInv
  BY BaseInit
<1>2. BaseInv /\ [Next]_vars => BaseInv'
  BY BaseStep
<1> QED
  BY <1>1, <1>2, PTL DEF Spec

(* The rows, the executions, their calls and the unanswered inserts keep   *)
(* their shapes (operation_outputs and DurableContext).                    *)
THEOREM StepsTyped == Spec => []TypeOK
<1>1. BaseInv => TypeOK
  BY DEF BaseInv
<1> QED
  BY <1>1, BaseAlways, PTL

(* Every execution is told what is on record and nothing else              *)
(* (serve_recorded and record_step_result), however many run at once,      *)
(* crash, or leave inserts behind.                                         *)
THEOREM ReplayAgrees == Spec => []ReplayAgreement
<1>1. BaseInv => ReplayAgreement
  BY DEF BaseInv
<1> QED
  BY <1>1, BaseAlways, PTL

(* Of the executions that ran a step from different instants, at most one  *)
(* is told an outcome: record_step_result recognises a writer's own row by *)
(* its start.                                                              *)
THEOREM StepHasOneWinner == Spec => []OneWinner
<1>1. BaseInv => OneWinner
  BY SMT DEF BaseInv, WinnerInv, OneWinner
<1> QED
  BY <1>1, BaseAlways, PTL

(* A step on record at an execution's dispatch is served to it, never run  *)
(* again (replay_or_guard and durable_value).                              *)
THEOREM RecordedStepsServed == Spec => []RecordedNotRerun
<1>1. BaseInv => RecordedNotRerun
  BY DEF BaseInv, KnownInv, RecordedNotRerun
<1> QED
  BY <1>1, BaseAlways, PTL

----------------------------------------------------------------------------
(* A function that handles no control error but a storage failure, which   *)
(* the latch makes final, never goes on from a call that came to nothing.  *)
(* Its operations are then determined by the record.                       *)
Disciplined == Catches \subseteq {"RecoveryRequired"}

(* Everything awaited before n is on record, and the operation at n that   *)
(* the record determines.                                                  *)
Rooted(n) == \A m \in Before(n) : log[m] # NoRow
RecordedOp(n) == OpName(n, [m \in Before(n) |-> Decode[log[m].text]])

(* A storage failure that an execution saw is latched.                     *)
LatchInv ==
    \A x \in Execution, n \in Position :
        call[x][n].seen = "RecoveryRequired" => exec[x].latched

(* A call under way follows only calls that came to an outcome.            *)
PrefixInv ==
    \A x \in Execution, n \in Position :
        call[x][n].phase \in UnderWay =>
            \A m \in Before(n) : call[x][m].seen \in Outcome

(* Every row, and every insert still on its way, is of the operation that  *)
(* the record before it determines.                                        *)
NamesInv ==
    \A n \in Position :
        log[n] # NoRow => Rooted(n) /\ log[n].name = RecordedOp(n)

LateInv ==
    \A i \in late : Rooted(i.n) /\ i.row.name = RecordedOp(i.n)

DeterminismInv ==
    /\ LatchInv
    /\ PrefixInv
    /\ NamesInv
    /\ LateInv
    /\ NoFalseDivergence
    /\ OutcomeRepeats

(* What the record determines stays determined as it grows.                *)
LEMMA RootedStable ==
    ASSUME Grows, NEW n \in Position, Rooted(n)
    PROVE  Rooted(n)' /\ RecordedOp(n)' = RecordedOp(n)
<1>1. \A m \in Before(n) : log'[m] = log[m] /\ log'[m] # NoRow
  BY DEF Before, Grows, Rooted
<1>2. [m \in Before(n) |-> Decode[log[m].text]]'
        = [m \in Before(n) |-> Decode[log[m].text]]
  BY <1>1 DEF Before
<1> QED
  BY <1>1, <1>2 DEF Rooted, RecordedOp, Before

(* An execution that knows the outcomes before n performs there what the   *)
(* record determines.                                                      *)
LEMMA OpRecorded ==
    ASSUME ReplayAgreement, NEW x \in Execution, NEW n \in Position,
           \A m \in Before(n) : call[x][m].seen \in Outcome
    PROVE  Rooted(n) /\ Op(x, n) = RecordedOp(n)
<1>1. \A m \in Before(n) : /\ log[m] # NoRow
                            /\ call[x][m].seen = Decode[log[m].text]
  BY DEF Before, ReplayAgreement
<1>2. History(x, n) = [m \in Before(n) |-> Decode[log[m].text]]
  BY <1>1 DEF History
<1> QED
  BY <1>1, <1>2 DEF Rooted, RecordedOp, Op

(* A call whose step is taken follows only outcomes.                       *)
LEMMA StepPrefix ==
    ASSUME Disciplined, BaseInv, LatchInv, PrefixInv,
           NEW x \in Execution, NEW n \in Position, CallStep(x, n)
    PROVE  \A m \in Before(n) : call[x][m].seen \in Outcome
<1>1. CASE Builds(x, n)
  <2>1. /\ \A m \in Before(n) : /\ m \in Position
                                 /\ call[x][m].seen \in Outcome \cup Catches
        /\ ~exec[x].latched
    BY <1>1 DEF Builds, Awaited, MayProceed, Before
  <2> QED
    BY <2>1 DEF Disciplined, LatchInv
<1>2. CASE ~Builds(x, n)
  <2>1. call[x][n].phase \in UnderWay
    BY <1>2 DEF CallStep, Consult, ConsultFails, Guard, GuardFails,
       StepCancelled, Write, Answered, AnswerLost, UnderWay
  <2> QED
    BY <2>1 DEF PrefixInv
<1> QED
  BY <1>1, <1>2

(* What the step of a call writes, and what its caller is told.            *)
LEMMA StepWrites ==
    ASSUME BaseInv, NEW x \in Execution, NEW n \in Position, CallStep(x, n)
    PROVE  /\ \/ log' = log
              \/ log[n] = NoRow /\ log' = [log EXCEPT ![n] = Insert(x, n)]
           /\ late' \subseteq late \cup {[n |-> n, row |-> Insert(x, n)]}
<1>1. CASE Answered(x, n)
  <2>1. log[n] # NoRow => [log EXCEPT ![n] = log[n]] = log
    BY DEF BaseInv, TypeOK
  <2> QED
    BY <1>1, <2>1 DEF Answered, RecordStepResult
<1>2. CASE AnswerLost(x, n)
  BY <1>2 DEF AnswerLost, Outlive
<1>3. CASE ~Answered(x, n) /\ ~AnswerLost(x, n)
  BY <1>3 DEF CallStep, Consult, ConsultFails, Guard, GuardFails,
     StepCancelled, Write
<1> QED
  BY <1>1, <1>2, <1>3

LEMMA Updated ==
    ASSUME TypeOK, NEW x \in Execution, NEW n \in Position, NEW c,
           call' = [call EXCEPT ![x][n] = c]
    PROVE  call'[x][n] = c
  BY DEF TypeOK

LEMMA FinishedSeen ==
    ASSUME TypeOK, NEW x \in Execution, NEW n \in Position, NEW s,
           Finished(x, n, s)
    PROVE  call'[x][n].seen = s
<1> DEFINE t == call[x][n]
           c == [t EXCEPT !.phase = "done", !.text = Nothing, !.seen = s]
<1>1. t \in Call
  BY DEF TypeOK
<1>2. call' = [call EXCEPT ![x][n] = c]
  BY DEF Finished
<1> HIDE DEF t
<1>3. c.seen = s
  BY <1>1 DEF Call
<1> HIDE DEF c
<1> QED
  BY <1>2, <1>3, Updated

(* No call is told that it diverged, and a storage failure is latched.     *)
LEMMA StepTold ==
    ASSUME BaseInv, NEW x \in Execution, NEW n \in Position, CallStep(x, n),
           log[n] # NoRow => log[n].name = Op(x, n)
    PROVE  /\ call'[x][n].seen # "UnexpectedStep"
           /\ call'[x][n].seen = "RecoveryRequired" => exec'[x].latched
           /\ \A y \in Execution : exec[y].latched => exec'[y].latched
<1>0. /\ \A s : Finished(x, n, s) => call'[x][n].seen = s
      /\ \A o \in Outcome : o \notin Control
  BY FinishedSeen, Distinct DEF BaseInv
<1> DEFINE t == call[x][n]
<1>1. CASE Consult(x, n)
  <2>0. UNCHANGED exec
    BY <1>1 DEF Consult
  <2>1. CASE log[n] # NoRow
    <3>1. Decode[log[n].text] \in Outcome
      BY <2>1, CodecAssumption DEF BaseInv, TypeOK, Row
    <3>2. Finished(x, n, Decode[log[n].text])
      BY <1>1, <2>1 DEF Consult, ServeRecorded
    <3> QED
      BY <1>0, <2>0, <3>1, <3>2 DEF Control
  <2>2. CASE log[n] = NoRow
    <3>1. call[x][n].seen = Nothing /\ call[x][n] \in Call
      BY <1>1 DEF Consult, Builds, BaseInv, PhaseInv, TypeOK
    <3>2. call'[x][n].seen = Nothing
      <4> DEFINE c == IF n \in Instantaneous
                      THEN [t EXCEPT !.phase = "body", !.ran = TRUE]
                      ELSE [t EXCEPT !.phase = "guard"]
      <4>1. call' = [call EXCEPT ![x][n] = c]
        BY <1>1, <2>2 DEF Consult, ServeRecorded
      <4>2. c.seen = Nothing
        BY <3>1 DEF Call
      <4> HIDE DEF c
      <4> QED
        BY <4>1, <4>2, Updated DEF BaseInv
    <3> QED
      BY <2>0, <3>2, Distinct DEF Control
  <2> QED
    BY <2>1, <2>2
<1>2. CASE ConsultFails(x, n) \/ GuardFails(x, n) \/ AnswerLost(x, n)
  <2>1. Finished(x, n, "RecoveryRequired") /\ Interrupt(x)
    BY <1>2 DEF ConsultFails, GuardFails, AnswerLost
  <2>2. \A y \in Execution : exec'[y].latched = IF y = x THEN TRUE
                                                 ELSE exec[y].latched
    BY <2>1, InterruptFacts DEF BaseInv
  <2> QED
    BY <1>0, <2>1, <2>2
<1>3. CASE (Guard(x, n) /\ status = "CANCELLED") \/ StepCancelled(x, n)
  BY <1>0, <1>3 DEF Guard, StepCancelled
<1>4. CASE (Guard(x, n) /\ status # "CANCELLED") \/ Write(x, n)
  <2>1. call[x][n].phase \in UnderWay /\ UNCHANGED exec
    BY <1>4 DEF Guard, Write, UnderWay
  <2>2. call[x][n].seen = Nothing /\ call[x][n] \in Call
    BY <2>1, UnderWayFacts
  <2>3. call'[x][n].seen = call[x][n].seen
    <3>1. CASE Guard(x, n) /\ status # "CANCELLED"
      <4>1. PICK i \in Instant : call' = [call EXCEPT ![x][n] =
                [t EXCEPT !.phase = "body", !.start = i, !.ran = TRUE]]
        BY <3>1 DEF Guard
      <4> DEFINE c == [t EXCEPT !.phase = "body", !.start = i, !.ran = TRUE]
      <4>2. c.seen = t.seen
        BY <2>2 DEF Call
      <4> HIDE DEF c
      <4> QED
        BY <4>1, <4>2, Updated DEF BaseInv, c
    <3>2. CASE Write(x, n)
      <4>1. PICK o \in Outcome : call' = [call EXCEPT ![x][n] =
                [t EXCEPT !.phase = "writing", !.text = Encode[o]]]
        BY <3>2 DEF Write
      <4> DEFINE c == [t EXCEPT !.phase = "writing", !.text = Encode[o]]
      <4>2. c.seen = t.seen
        BY <2>2 DEF Call
      <4> QED
        BY <4>1, <4>2, Updated DEF BaseInv
    <3> QED
      BY <1>4, <3>1, <3>2
  <2> QED
    BY <2>1, <2>2, <2>3, Distinct DEF Control
<1>5. CASE Answered(x, n)
  <2> DEFINE mine == Insert(x, n)
             row == IF log[n] = NoRow THEN mine ELSE log[n]
  <2>1. mine \in Row /\ mine.name = Op(x, n)
    BY <1>5, InsertTyped DEF Answered, BaseInv
  <2>2. row \in Row /\ row.name = mine.name
    BY <2>1 DEF BaseInv, TypeOK
  <2>3. Finished(x, n, Classify(row, mine)) /\ UNCHANGED exec
    BY <1>5 DEF Answered, RecordStepResult
  <2> HIDE DEF mine, row
  <2>4. Classify(row, mine) \in Outcome \cup {"WorkflowConflict"}
    <3>1. Decode[row.text] \in Outcome
      BY <2>2, CodecAssumption DEF Row
    <3> QED
      BY <2>2, <3>1 DEF Classify
  <2> QED
    BY <1>0, <2>3, <2>4 DEF Control
<1> QED
  BY <1>1, <1>2, <1>3, <1>4, <1>5 DEF CallStep

(* Rows and inserts of the determined operations keep NamesInv, LateInv    *)
(* and OutcomeRepeats.                                                     *)
LEMMA RecordDetermined ==
    ASSUME TypeOK, Grows, NamesInv, LateInv,
           \A n \in Position : log'[n] # log[n] =>
               Rooted(n) /\ log'[n].name = RecordedOp(n),
           \A i \in late' : i \in late \/
               (i.n \in Position /\ Rooted(i.n) /\ i.row.name = RecordedOp(i.n))
    PROVE  NamesInv' /\ LateInv'
<1>1. NamesInv'
  <2> SUFFICES ASSUME NEW n \in Position, log'[n] # NoRow
               PROVE  Rooted(n)' /\ log'[n].name = RecordedOp(n)'
    BY DEF NamesInv
  <2>1. Rooted(n) /\ log'[n].name = RecordedOp(n)
    BY DEF NamesInv
  <2> QED
    BY <2>1, RootedStable
<1>2. LateInv'
  <2> SUFFICES ASSUME NEW i \in late'
               PROVE  Rooted(i.n)' /\ i.row.name = RecordedOp(i.n)'
    BY DEF LateInv
  <2>1. i.n \in Position /\ Rooted(i.n) /\ i.row.name = RecordedOp(i.n)
    BY DEF LateInv, TypeOK
  <2> QED
    BY <2>1, RootedStable
<1> QED
  BY <1>1, <1>2

LEMMA OutcomeKept ==
    ASSUME TypeOK, OutcomeRepeats, Grows, UNCHANGED result,
           status' = "Completed" => status = "Completed"
    PROVE  OutcomeRepeats'
  BY DEF OutcomeRepeats, Grows, TypeOK

LEMMA CallStepDetermined ==
    ASSUME Disciplined, BaseInv, DeterminismInv,
           NEW x \in Execution, NEW n \in Position, CallStep(x, n)
    PROVE  DeterminismInv'
<1>1. \A m \in Before(n) : call[x][m].seen \in Outcome
  BY StepPrefix DEF DeterminismInv
<1>2. Rooted(n) /\ Op(x, n) = RecordedOp(n)
  BY <1>1, OpRecorded DEF BaseInv
<1>3. log[n] # NoRow => log[n].name = Op(x, n)
  BY <1>2 DEF DeterminismInv, NamesInv
<1>4. PICK c : CallEffect(x, n, c)
  BY CallStepEffect
<1>5. /\ \A y \in Execution, m \in Position :
            call'[y][m] = IF y = x /\ m = n THEN c ELSE call[y][m]
      /\ Grows
  BY <1>4, OneCall DEF CallEffect, BaseInv
<1>6. /\ call'[x][n].seen # "UnexpectedStep"
      /\ call'[x][n].seen = "RecoveryRequired" => exec'[x].latched
      /\ \A y \in Execution : exec[y].latched => exec'[y].latched
  BY <1>3, StepTold
<1>7. LatchInv' /\ NoFalseDivergence'
  BY <1>5, <1>6, SMT DEF DeterminismInv, LatchInv, NoFalseDivergence
<1>8. PrefixInv'
  <2> SUFFICES ASSUME NEW y \in Execution, NEW k \in Position,
                      call'[y][k].phase \in UnderWay, NEW m \in Before(k)
               PROVE  call'[y][m].seen \in Outcome
    BY DEF PrefixInv, UnderWay, Before
  <2>1. m \in Position /\ m # k
    BY BeforeLess
  <2>2. call[y][m].seen \in Outcome
    <3>1. CASE y = x /\ k = n
      BY <1>1, <3>1
    <3>2. CASE ~(y = x /\ k = n)
      BY <1>5, <3>2 DEF DeterminismInv, PrefixInv
    <3> QED
      BY <3>1, <3>2
  <2>3. call[y][m].phase = "done"
    BY <2>1, <2>2, Distinct DEF BaseInv, PhaseInv
  <2> QED
    BY <1>4, <1>5, <2>1, <2>2, <2>3, SMT DEF CallEffect
<1>9. NamesInv' /\ LateInv'
  <2>1. /\ log' = log
           \/ (log[n] = NoRow /\ log' = [log EXCEPT ![n] = Insert(x, n)])
        /\ late' \subseteq late \cup {[n |-> n, row |-> Insert(x, n)]}
    BY StepWrites
  <2>2. Insert(x, n).name = RecordedOp(n)
    BY <1>2 DEF Insert
  <2>3. \A m \in Position : log'[m] # log[m] =>
            Rooted(m) /\ log'[m].name = RecordedOp(m)
    BY <1>2, <2>1, <2>2 DEF BaseInv, TypeOK
  <2>4. \A i \in late' : i \in late \/
            (i.n \in Position /\ Rooted(i.n) /\ i.row.name = RecordedOp(i.n))
    <3> SUFFICES ASSUME NEW i \in late', i \notin late
                 PROVE  i.n \in Position /\ Rooted(i.n)
                        /\ i.row.name = RecordedOp(i.n)
      OBVIOUS
    <3>1. i.n = n /\ i.row = Insert(x, n)
      BY <2>1, SMT
    <3> QED
      BY <1>2, <2>2, <3>1
  <2> QED
    BY <1>5, <2>3, <2>4, RecordDetermined DEF BaseInv, DeterminismInv
<1>10. OutcomeRepeats'
  <2>1. UNCHANGED <<status, result>>
    BY DEF CallStep, Consult, ConsultFails, Guard, GuardFails, StepCancelled,
       Write, Answered, AnswerLost
  <2> QED
    BY <1>5, <2>1, OutcomeKept DEF BaseInv, DeterminismInv
<1> QED
  BY <1>7, <1>8, <1>9, <1>10 DEF DeterminismInv

(* The outcome that an execution records uses outcomes on record only.     *)
LEMMA CompletedFrom ==
    ASSUME Disciplined, BaseInv, DeterminismInv, NEW x \in Execution,
           Completes(x)
    PROVE  \E k \in 0 .. Steps : \A m \in Position :
               IF m < k THEN call[x][m].seen \in Outcome
                        ELSE call[x][m].seen = Nothing
<1>1. ~exec[x].latched /\ ~Uncaught(x, "UnexpectedStep")
  BY DEF Completes, MayProceed, Uncaught, DeterminismInv, NoFalseDivergence
<1>2. PICK k \in 0 .. Steps : ReturnsAt(x, k)
  BY <1>1 DEF Completes
<1>3. \A m \in Position :
         IF m < k THEN call[x][m].seen \in Outcome \cup {"RecoveryRequired"}
                  ELSE call[x][m].phase = "none"
  BY <1>2 DEF ReturnsAt, Disciplined
<1>4. \A m \in Position : /\ call[x][m].seen # "RecoveryRequired"
                          /\ call[x][m].phase = "none" =>
                                call[x][m].seen = Nothing
  BY <1>1 DEF DeterminismInv, LatchInv, BaseInv, PhaseInv
<1>5. \A m \in Position :
         IF m < k THEN call[x][m].seen \in Outcome
                  ELSE call[x][m].seen = Nothing
  BY <1>3, <1>4
<1> QED
  BY <1>5

LEMMA EndDetermined ==
    ASSUME Disciplined, BaseInv, DeterminismInv, NEW x \in Execution,
           \/ Interrupted(x) \/ Adopts(x) \/ Cancels(x) \/ Completes(x)
           \/ Crash(x)
    PROVE  DeterminismInv'
<1>0. Stop(x) /\ UNCHANGED log
  BY EndTyped DEF BaseInv
<1>1. /\ \A y \in Execution : y # x => exec'[y] = exec[y]
      /\ \A y \in Execution, m \in Position :
            call'[y][m] = IF y # x \/ call[x][m].seen \in Outcome
                          THEN call[y][m] ELSE NewCall
  BY <1>0, StopFacts DEF BaseInv
<1>2. /\ NewCall.phase = "none" /\ NewCall.seen = Nothing
      /\ \A m \in Position : call[x][m].seen \in Outcome =>
            call[x][m].phase = "done"
      /\ Nothing \notin Control /\ Control \cap Outcome = {}
  BY Distinct DEF NewCall, BaseInv, PhaseInv
<1>3. Grows
  BY <1>0 DEF Grows
<1>4. LatchInv' /\ NoFalseDivergence'
  BY <1>1, <1>2, SMT DEF DeterminismInv, LatchInv, NoFalseDivergence, Control
<1>5. PrefixInv'
  <2> SUFFICES ASSUME NEW y \in Execution, NEW k \in Position,
                      call'[y][k].phase \in UnderWay, NEW m \in Before(k)
               PROVE  call'[y][m].seen \in Outcome
    BY DEF PrefixInv, UnderWay, Before
  <2>1. y # x
    BY <1>1, <1>2 DEF UnderWay
  <2>2. m \in Position
    BY BeforeLess
  <2> QED
    BY <1>1, <2>1, <2>2, SMT DEF DeterminismInv, PrefixInv
<1>6. NamesInv' /\ LateInv'
  <2>1. PICK some \in SUBSET InFlight(x) : Outlive(x, some)
    BY <1>0 DEF Stop
  <2>2. \A n \in some : /\ n \in Position /\ Rooted(n)
                        /\ Insert(x, n).name = RecordedOp(n)
    <3> SUFFICES ASSUME NEW n \in some
                 PROVE  /\ n \in Position /\ Rooted(n)
                        /\ Insert(x, n).name = RecordedOp(n)
      OBVIOUS
    <3>1. n \in Position /\ call[x][n].phase \in UnderWay
      BY DEF InFlight, UnderWay
    <3>2. \A m \in Before(n) : call[x][m].seen \in Outcome
      BY <3>1 DEF DeterminismInv, PrefixInv
    <3>3. Rooted(n) /\ Op(x, n) = RecordedOp(n)
      BY <3>1, <3>2, OpRecorded DEF BaseInv
    <3> QED
      BY <3>1, <3>3 DEF Insert
  <2>3. \A i \in late' : i \in late \/
            (i.n \in Position /\ Rooted(i.n) /\ i.row.name = RecordedOp(i.n))
    <3> SUFFICES ASSUME NEW i \in late', i \notin late
                 PROVE  i.n \in Position /\ Rooted(i.n)
                        /\ i.row.name = RecordedOp(i.n)
      OBVIOUS
    <3>1. PICK n \in some : i = [n |-> n, row |-> Insert(x, n)]
      BY <2>1 DEF Outlive
    <3> QED
      BY <2>2, <3>1
  <2>4. \A m \in Position : log'[m] # log[m] =>
            Rooted(m) /\ log'[m].name = RecordedOp(m)
    BY <1>0
  <2> QED
    BY <1>3, <2>3, <2>4, RecordDetermined DEF BaseInv, DeterminismInv
<1>7. OutcomeRepeats'
  <2>1. CASE Completes(x) /\ status = "PENDING"
    <3>1. PICK k \in 0 .. Steps : \A m \in Position :
              IF m < k THEN call[x][m].seen \in Outcome
                       ELSE call[x][m].seen = Nothing
      BY <2>1, CompletedFrom
    <3>2. \A m \in Position : result'[m] = call[x][m].seen
      BY <2>1 DEF Completes, RecordOutcome
    <3> QED
      BY <1>0, <3>1, <3>2 DEF OutcomeRepeats, BaseInv, ReplayAgreement
  <2>2. CASE ~(Completes(x) /\ status = "PENDING")
    <3>1. UNCHANGED result /\ (status' = "Completed" => status = "Completed")
      BY <2>2 DEF Interrupted, Adopts, Cancels, Completes, RecordOutcome, Crash
    <3> QED
      BY <1>3, <3>1, OutcomeKept DEF BaseInv, DeterminismInv
  <2> QED
    BY <2>1, <2>2
<1> QED
  BY <1>4, <1>5, <1>6, <1>7 DEF DeterminismInv

LEMMA DispatchDetermined ==
    ASSUME BaseInv, DeterminismInv, NEW x \in Execution, Dispatch(x)
    PROVE  DeterminismInv'
<1>1. /\ \A y \in Execution : y # x => exec'[y] = exec[y]
      /\ exec[x].stage = "unborn"
      /\ UNCHANGED <<log, status, result, call, late>>
  BY DEF Dispatch, BaseInv, TypeOK
<1>2. \A m \in Position : call[x][m].seen # "RecoveryRequired"
  BY <1>1, Distinct DEF BaseInv, PhaseInv, Control
<1>3. LatchInv'
  BY <1>1, <1>2 DEF DeterminismInv, LatchInv
<1>4. NamesInv' /\ LateInv'
  BY <1>1, RecordDetermined DEF Grows, BaseInv, DeterminismInv
<1> QED
  BY <1>1, <1>3, <1>4 DEF DeterminismInv, PrefixInv, NoFalseDivergence,
     OutcomeRepeats

LEMMA LateDetermined ==
    ASSUME BaseInv, DeterminismInv, NEW i \in late, LateCommit(i) \/ LateDrop(i)
    PROVE  DeterminismInv'
<1>1. Grows /\ UNCHANGED <<exec, call, status, result>>
  BY LateFacts DEF BaseInv
<1>2. late' \subseteq late
  BY DEF LateCommit, LateDrop
<1>3. \A m \in Position : log'[m] # log[m] =>
          Rooted(m) /\ log'[m].name = RecordedOp(m)
  <2>1. \A m \in Position : log'[m] # log[m] => m = i.n /\ log'[m] = i.row
    BY DEF LateCommit, LateDrop, BaseInv, TypeOK
  <2> QED
    BY <2>1 DEF DeterminismInv, LateInv
<1>4. NamesInv' /\ LateInv'
  BY <1>1, <1>2, <1>3, RecordDetermined DEF BaseInv, DeterminismInv
<1>5. OutcomeRepeats'
  BY <1>1, OutcomeKept DEF BaseInv, DeterminismInv
<1> QED
  BY <1>1, <1>4, <1>5 DEF DeterminismInv, LatchInv, PrefixInv,
     NoFalseDivergence

(* The record, the executions and their calls untouched, and no outcome    *)
(* recorded.                                                               *)
LEMMA IdleDetermined ==
    ASSUME BaseInv, DeterminismInv, UNCHANGED <<log, result, exec, call, late>>,
           status' = "Completed" => status = "Completed"
    PROVE  DeterminismInv'
<1>1. NamesInv' /\ LateInv'
  BY RecordDetermined DEF Grows, BaseInv, DeterminismInv
<1> QED
  BY <1>1 DEF DeterminismInv, LatchInv, PrefixInv, NoFalseDivergence,
     OutcomeRepeats

LEMMA DeterminismInit == Init => DeterminismInv
<1> SUFFICES ASSUME Init PROVE DeterminismInv
  OBVIOUS
<1>1. \A x \in Execution, n \in Position :
          call[x][n].phase = "none" /\ call[x][n].seen = Nothing
  BY DEF Init, NewCall
<1>2. LatchInv /\ PrefixInv /\ NoFalseDivergence
  BY <1>1, Distinct DEF LatchInv, PrefixInv, NoFalseDivergence, UnderWay,
     Control
<1> QED
  BY <1>2 DEF Init, DeterminismInv, NamesInv, LateInv, OutcomeRepeats

LEMMA DeterminismStep ==
    ASSUME Disciplined, BaseInv, DeterminismInv, [Next]_vars
    PROVE  DeterminismInv'
<1>1. CASE \E x \in Execution, n \in Position : CallStep(x, n)
  BY <1>1, CallStepDetermined
<1>2. CASE \E x \in Execution : ExecutionStep(x)
  BY <1>2, DispatchDetermined, EndDetermined DEF ExecutionStep
<1>3. CASE \E i \in late : LateCommit(i) \/ LateDrop(i)
  BY <1>3, LateDetermined
<1>4. CASE Cancel \/ Resume
  <2>1. /\ UNCHANGED <<log, result, exec, call, late>>
        /\ status' # "Completed"
    BY <1>4 DEF Cancel, Resume
  <2> QED
    BY <2>1, IdleDetermined
<1>5. CASE UNCHANGED vars
  BY <1>5, IdleDetermined DEF vars
<1> QED
  BY <1>1, <1>2, <1>3, <1>4, <1>5 DEF Next

LEMMA DeterminismAlways == Disciplined => (Spec => []DeterminismInv)
<1> SUFFICES ASSUME Disciplined PROVE Spec => []DeterminismInv
  OBVIOUS
<1>1. Init => DeterminismInv
  BY DeterminismInit
<1>2. BaseInv /\ DeterminismInv /\ [Next]_vars => DeterminismInv'
  BY DeterminismStep
<1> QED
  BY <1>1, <1>2, BaseAlways, PTL DEF Spec

(* A deterministic function whose only handled control error is a storage  *)
(* failure is never told that its replay diverged (check_recorded), even   *)
(* by the late insert of an execution that is gone.                        *)
THEOREM NoDivergenceReported ==
    Disciplined => (Spec => []NoFalseDivergence)
<1> SUFFICES ASSUME Disciplined PROVE Spec => []NoFalseDivergence
  OBVIOUS
<1>1. DeterminismInv => NoFalseDivergence
  BY DEF DeterminismInv
<1> QED
  BY <1>1, DeterminismAlways, PTL

(* Its recorded outcome is computed from results on record only            *)
(* (run_to_completion checks the latch before the terminal write).         *)
THEOREM OutcomeFromRecord == Disciplined => (Spec => []OutcomeRepeats)
<1> SUFFICES ASSUME Disciplined PROVE Spec => []OutcomeRepeats
  OBVIOUS
<1>1. DeterminismInv => OutcomeRepeats
  BY DEF DeterminismInv
<1> QED
  BY <1>1, DeterminismAlways, PTL

----------------------------------------------------------------------------
(* The write-once log.  What DecisionLog sees of a state.                  *)
Decision(n) == IF log[n] = NoRow THEN Nothing ELSE Decode[log[n].text]
Lesson(x, n) == IF call[x][n].seen \in Outcome THEN call[x][n].seen
                ELSE Nothing
Decisions == [n \in Position |-> Decision(n)]
Lessons == [x \in Execution |-> [n \in Position |-> Lesson(x, n)]]
Over == status = "Completed"

(* The steps of DecisionLog, in those terms.                               *)
LEMMA AbstractSteps ==
    /\ \A n \in Position, o \in Outcome :
          /\ Decisions[n] = Nothing
          /\ Decisions' = [Decisions EXCEPT ![n] = o]
          /\ UNCHANGED <<Lessons, Over, result>>
          => Abstract!LogNext
    /\ \A x \in Execution, n \in Position :
          /\ Decisions[n] # Nothing
          /\ Lessons' = [Lessons EXCEPT ![x][n] = Decisions[n]]
          /\ UNCHANGED <<Decisions, Over, result>>
          => Abstract!LogNext
    /\ \A x \in Execution, n \in Position, o \in Outcome :
          /\ Decisions[n] = Nothing
          /\ Decisions' = [Decisions EXCEPT ![n] = o]
          /\ Lessons' = [Lessons EXCEPT ![x][n] = o]
          /\ UNCHANGED <<Over, result>>
          => Abstract!LogNext
    /\ \A k \in 0 .. Steps :
          /\ ~Over
          /\ \A n \in Position : n < k => Decisions[n] # Nothing
          /\ Over'
          /\ result' = [n \in Position |->
                          IF n < k THEN Decisions[n] ELSE Nothing]
          /\ UNCHANGED <<Decisions, Lessons>>
          => Abstract!LogNext
    /\ UNCHANGED <<Decisions, Lessons, Over, result>>
          => UNCHANGED Abstract!logVars
<1>1. ASSUME NEW n \in Position, NEW o \in Outcome,
             Decisions[n] = Nothing,
             Decisions' = [Decisions EXCEPT ![n] = o],
             UNCHANGED <<Lessons, Over, result>>
      PROVE  Abstract!LogNext
  <2>1. Abstract!Decide(n, o)
    BY <1>1 DEF Abstract!Decide, Decisions, Lessons, Over, Decision, Lesson
  <2> QED
    BY <2>1 DEF Abstract!LogNext
<1>2. ASSUME NEW x \in Execution, NEW n \in Position,
             Decisions[n] # Nothing,
             Lessons' = [Lessons EXCEPT ![x][n] = Decisions[n]],
             UNCHANGED <<Decisions, Over, result>>
      PROVE  Abstract!LogNext
  <2>1. Abstract!Learn(x, n)
    BY <1>2 DEF Abstract!Learn, Decisions, Lessons, Over, Decision, Lesson
  <2> QED
    BY <2>1 DEF Abstract!LogNext
<1>3. ASSUME NEW x \in Execution, NEW n \in Position, NEW o \in Outcome,
             Decisions[n] = Nothing,
             Decisions' = [Decisions EXCEPT ![n] = o],
             Lessons' = [Lessons EXCEPT ![x][n] = o],
             UNCHANGED <<Over, result>>
      PROVE  Abstract!LogNext
  <2>1. Abstract!DecideAndLearn(x, n, o)
    BY <1>3 DEF Abstract!DecideAndLearn, Decisions, Lessons, Over, Decision,
       Lesson
  <2> QED
    BY <2>1 DEF Abstract!LogNext
<1>4. ASSUME NEW k \in 0 .. Steps, ~Over,
             \A n \in Position : n < k => Decisions[n] # Nothing,
             Over',
             result' = [n \in Position |->
                          IF n < k THEN Decisions[n] ELSE Nothing],
             UNCHANGED <<Decisions, Lessons>>
      PROVE  Abstract!LogNext
  <2>1. Abstract!Finish(k)
    BY <1>4 DEF Abstract!Finish, Decisions, Lessons, Over, Decision, Lesson
  <2> QED
    BY <2>1 DEF Abstract!LogNext
<1>5. ASSUME UNCHANGED <<Decisions, Lessons, Over, result>>
      PROVE  UNCHANGED Abstract!logVars
  BY <1>5 DEF Abstract!logVars, Decisions, Lessons, Over, Decision, Lesson
<1> QED
  BY <1>1, <1>2, <1>3, <1>4, <1>5

(* How they change.                                                        *)
LEMMA DecisionsMove ==
    ASSUME TypeOK, NEW n \in Position, NEW r \in Row, log[n] = NoRow,
           log' = [log EXCEPT ![n] = r]
    PROVE  /\ Decisions[n] = Nothing /\ Decode[r.text] \in Outcome
           /\ Decisions' = [Decisions EXCEPT ![n] = Decode[r.text]]
<1>1. Decode[r.text] \in Outcome /\ r # NoRow
  BY CodecAssumption, NothingAssumption DEF Row
<1>2. \A m \in Position : log'[m] = IF m = n THEN r ELSE log[m]
  BY DEF TypeOK
<1>3. \A m \in Position :
          Decision(m)' = IF m = n THEN Decode[r.text] ELSE Decision(m)
  BY <1>1, <1>2, SMT DEF Decision
<1>4. Decisions[n] = Nothing
  BY DEF Decisions, Decision
<1> HIDE DEF Decision
<1> QED
  BY <1>1, <1>3, <1>4 DEF Decisions

LEMMA LessonsMove ==
    ASSUME BaseInv, NEW x \in Execution, NEW n \in Position, NEW c,
           CallEffect(x, n, c)
    PROVE  Lessons' = IF c.seen \in Outcome
                      THEN [Lessons EXCEPT ![x][n] = c.seen] ELSE Lessons
<1>1. \A y \in Execution, m \in Position :
         call'[y][m] = IF y = x /\ m = n THEN c ELSE call[y][m]
  BY OneCall DEF CallEffect, BaseInv
<1>2. call[x][n].seen \notin Outcome
  BY Distinct DEF CallEffect, BaseInv, PhaseInv
<1>3. \A y \in Execution, m \in Position :
         Lesson(y, m)' = IF y = x /\ m = n /\ c.seen \in Outcome THEN c.seen
                         ELSE Lesson(y, m)
  BY <1>1, <1>2, SMT DEF Lesson
<1> HIDE DEF Lesson
<1>4. CASE c.seen \in Outcome
  BY <1>3, <1>4 DEF Lessons
<1>5. CASE c.seen \notin Outcome
  BY <1>3, <1>5 DEF Lessons
<1> QED
  BY <1>4, <1>5

LEMMA CallStepSimulates ==
    ASSUME BaseInv, NEW x \in Execution, NEW n \in Position, CallStep(x, n)
    PROVE  Abstract!LogNext \/ UNCHANGED Abstract!logVars
<1>1. PICK c : CallEffect(x, n, c)
  BY CallStepEffect
<1>2. UNCHANGED <<Over, result>>
  BY DEF Over, CallStep, Consult, ConsultFails, Guard, GuardFails,
     StepCancelled, Write, Answered, AnswerLost
<1>3. Lessons' = IF c.seen \in Outcome
                 THEN [Lessons EXCEPT ![x][n] = c.seen] ELSE Lessons
  BY <1>1, LessonsMove
<1>4. c.seen \in Outcome => log'[n] # NoRow /\ c.seen = Decode[log'[n].text]
  BY <1>1 DEF CallEffect
<1>5. CASE log' = log
  <2>1. UNCHANGED Decisions
    BY <1>5 DEF Decisions, Decision
  <2>2. CASE c.seen \in Outcome
    <3>1. Decisions[n] = c.seen /\ Decisions[n] # Nothing
      BY <1>4, <1>5, <2>2, Distinct DEF Decisions, Decision
    <3> QED
      BY <1>2, <1>3, <2>1, <2>2, <3>1, AbstractSteps
  <2>3. CASE c.seen \notin Outcome
    BY <1>2, <1>3, <2>1, <2>3, AbstractSteps
  <2> QED
    BY <2>2, <2>3
<1>6. CASE log' # log
  <2>1. log[n] = NoRow /\ log' = [log EXCEPT ![n] = Insert(x, n)]
    BY <1>6, StepWrites
  <2>2. Answered(x, n)
    BY <1>6 DEF CallStep, Consult, ConsultFails, Guard, GuardFails,
       StepCancelled, Write, AnswerLost
  <2>3. Insert(x, n) \in Row
    BY <2>2, InsertTyped DEF Answered, BaseInv
  <2> DEFINE o == Decode[Insert(x, n).text]
  <2>4. /\ Decisions[n] = Nothing /\ o \in Outcome
        /\ Decisions' = [Decisions EXCEPT ![n] = o]
    BY <2>1, <2>3, DecisionsMove DEF BaseInv
  <2>5. log'[n] = Insert(x, n)
    BY <2>1 DEF BaseInv, TypeOK
  <2>6. CASE c.seen \in Outcome
    <3>1. c.seen = o
      BY <1>4, <2>5, <2>6
    <3> HIDE DEF o
    <3> QED
      BY <1>2, <1>3, <2>4, <2>6, <3>1, AbstractSteps
  <2>7. CASE c.seen \notin Outcome
    <3> HIDE DEF o
    <3> QED
      BY <1>2, <1>3, <2>4, <2>7, AbstractSteps
  <2> QED
    BY <2>6, <2>7
<1> QED
  BY <1>5, <1>6

LEMMA EndSimulates ==
    ASSUME Disciplined, BaseInv, DeterminismInv, NEW x \in Execution,
           \/ Interrupted(x) \/ Adopts(x) \/ Cancels(x) \/ Completes(x)
           \/ Crash(x)
    PROVE  Abstract!LogNext \/ UNCHANGED Abstract!logVars
<1>0. Stop(x) /\ UNCHANGED log
  BY EndTyped DEF BaseInv
<1>1. \A y \in Execution, m \in Position :
          call'[y][m] = IF y # x \/ call[x][m].seen \in Outcome
                        THEN call[y][m] ELSE NewCall
  BY <1>0, StopFacts DEF BaseInv
<1>2. \A y \in Execution, m \in Position : Lesson(y, m)' = Lesson(y, m)
  <2>1. NewCall.seen \notin Outcome
    BY Distinct DEF NewCall
  <2> QED
    BY <1>1, <2>1 DEF Lesson
<1>3. UNCHANGED <<Decisions, Lessons>>
  <2>1. UNCHANGED Decisions
    BY <1>0 DEF Decisions, Decision
  <2>2. UNCHANGED Lessons
    <3> HIDE DEF Lesson
    <3> QED
      BY <1>2 DEF Lessons
  <2> QED
    BY <2>1, <2>2
<1>4. CASE Completes(x) /\ status = "PENDING"
  <2>1. PICK k \in 0 .. Steps : \A m \in Position :
            IF m < k THEN call[x][m].seen \in Outcome
                     ELSE call[x][m].seen = Nothing
    BY <1>4, CompletedFrom
  <2>2. ~Over /\ Over' /\ result' = [m \in Position |-> call[x][m].seen]
    BY <1>4 DEF Completes, RecordOutcome, Over
  <2>3. \A m \in Position : m < k =>
            Decisions[m] = call[x][m].seen /\ Decisions[m] # Nothing
    BY <2>1, Distinct DEF BaseInv, ReplayAgreement, Decisions, Decision
  <2>4. result' = [m \in Position |->
                     IF m < k THEN Decisions[m] ELSE Nothing]
    BY <2>1, <2>2, <2>3
  <2> QED
    BY <1>3, <2>2, <2>3, <2>4, AbstractSteps
<1>5. CASE ~(Completes(x) /\ status = "PENDING")
  <2>1. UNCHANGED result /\ (status' = "Completed" <=> status = "Completed")
    BY <1>5 DEF Interrupted, Adopts, Cancels, Completes, RecordOutcome, Crash
  <2>2. UNCHANGED Over
    BY <2>1 DEF Over
  <2> QED
    BY <1>3, <2>1, <2>2, AbstractSteps
<1> QED
  BY <1>4, <1>5

LEMMA LateSimulates ==
    ASSUME BaseInv, NEW i \in late, LateCommit(i) \/ LateDrop(i)
    PROVE  Abstract!LogNext \/ UNCHANGED Abstract!logVars
<1>1. i.n \in Position /\ i.row \in Row
  BY DEF BaseInv, TypeOK
<1>2. UNCHANGED <<Lessons, Over, result>>
  BY DEF LateCommit, LateDrop, Lessons, Lesson, Over
<1>3. CASE LateCommit(i) /\ log[i.n] = NoRow
  <2>1. log' = [log EXCEPT ![i.n] = i.row]
    BY <1>3 DEF LateCommit
  <2> QED
    BY <1>1, <1>2, <1>3, <2>1, DecisionsMove, AbstractSteps DEF BaseInv
<1>4. CASE ~(LateCommit(i) /\ log[i.n] = NoRow)
  <2>1. [log EXCEPT ![i.n] = log[i.n]] = log
    BY DEF BaseInv, TypeOK
  <2>2. log' = log
    BY <1>4, <2>1 DEF LateCommit, LateDrop
  <2>3. UNCHANGED Decisions
    BY <2>2 DEF Decisions, Decision
  <2> QED
    BY <1>2, <2>3, AbstractSteps
<1> QED
  BY <1>3, <1>4

LEMMA StepSimulates ==
    ASSUME Disciplined, BaseInv, DeterminismInv, [Next]_vars
    PROVE  Abstract!LogNext \/ UNCHANGED Abstract!logVars
<1>1. CASE \E x \in Execution, n \in Position : CallStep(x, n)
  BY <1>1, CallStepSimulates
<1>2. CASE \E x \in Execution : Dispatch(x)
  <2>1. UNCHANGED <<log, call, result, status>>
    BY <1>2 DEF Dispatch
  <2>2. UNCHANGED <<Decisions, Lessons, Over, result>>
    BY <2>1 DEF Decisions, Decision, Lessons, Lesson, Over
  <2> QED
    BY <2>2, AbstractSteps
<1>3. CASE \E x \in Execution : ExecutionStep(x) /\ ~Dispatch(x)
  BY <1>3, EndSimulates DEF ExecutionStep
<1>4. CASE \E i \in late : LateCommit(i) \/ LateDrop(i)
  BY <1>4, LateSimulates
<1>5. CASE Cancel \/ Resume \/ UNCHANGED vars
  <2>1. UNCHANGED <<log, call, result>>
    BY <1>5 DEF Cancel, Resume, vars
  <2>2. UNCHANGED Over
    BY <1>5 DEF Cancel, Resume, vars, Over
  <2> QED
    BY <2>1, <2>2, AbstractSteps DEF Decisions, Decision, Lessons, Lesson
<1> QED
  BY <1>1, <1>2, <1>3, <1>4, <1>5 DEF Next, ExecutionStep

LEMMA InitSimulates == Init => Abstract!LogInit
<1> SUFFICES ASSUME Init PROVE Abstract!LogInit
  OBVIOUS
<1>1. \A x \in Execution, n \in Position : call[x][n].seen = Nothing
  BY DEF Init, NewCall
<1> QED
  BY <1>1, Distinct DEF Init, Abstract!LogInit, Abstract!Unknown, Unknown

(* For such a function, the checkpoints implement the write-once log: a    *)
(* position is decided once and for good, executions learn decisions and   *)
(* nothing else, and the outcome is computed from decisions                *)
(* (record_step_result, serve_recorded and run_to_completion together).    *)
THEOREM StepsImplementLog == Disciplined => (Spec => ImplementsLog)
<1> SUFFICES ASSUME Disciplined PROVE Spec => ImplementsLog
  OBVIOUS
<1>1. Init => Abstract!LogInit
  BY InitSimulates
<1>2. BaseInv /\ DeterminismInv /\ [Next]_vars
          => [Abstract!LogNext]_(Abstract!logVars)
  BY StepSimulates
<1> QED
  BY <1>1, <1>2, BaseAlways, DeterminismAlways, PTL
     DEF Spec, ImplementsLog, Abstract!LogSpec

-----------------------------------------------------------------------------
(***************************************************************************)
(* The transactional step, for any number of executions, outputs, retries  *)
(* and failures.                                                           *)
(***************************************************************************)

(* Where a call may be, given the rows.  The one that holds an uncommitted *)
(* row is at its commit; one that met a row can compare with it; and one   *)
(* about to record a success comes from a committed body, unless the step  *)
(* only reads.                                                             *)
Committed(v) == \E a \in wrote : a[3] = v
Fits(c) ==
    /\ c.pc # "new" => c.start \in TxInstant
    /\ c.pc \in {"insert", "commit", "classify"} => c.val \in TxValue /\ ~tmode.ro
    /\ c.pc = "classify" => Slot # NoTxRow
    /\ c.pc \in {"failed", "mirror"} => c.val = BodyError
    /\ c.pc \in {"witness", "mirror"} => External
    /\ c.pc = "record" /\ c.val # BodyError => tmode.ro \/ (External /\ Committed(c.val))
    /\ c.seen \notin Halts => trow # NoTxRow /\ trow.res = c.seen
CallSound(e) == (tx[e].pc = "commit" <=> holder = e) /\ Fits(tx[e])

(* The row that commits with the body stands for the committed writes.     *)
RowsSound ==
    /\ holder # NoHolder => Slot = NoTxRow
    /\ Slot = NoTxRow => wrote = {}
    /\ \A a \in wrote : a[3] \in TxValue /\ a[3] = Slot.res
    /\ \A a, b \in wrote : a = b
    /\ ~tmode.ro /\ Slot # NoTxRow /\ Slot.res # BodyError => Committed(Slot.res)
    /\ ~tmode.ro /\ trow # NoTxRow /\ trow.res # BodyError => Committed(trow.res)
TxInv == TxTypeOK /\ (\A e \in TxExec : CallSound(e)) /\ RowsSound

----------------------------------------------------------------------------
LEMMA InvStarts == TxInit => TxInv
<1> SUFFICES ASSUME TxInit PROVE TxInv
  OBVIOUS
<1>1. TxTypeOK
  <2>1. tx \in [TxExec -> TxCalls]
    BY TxAssumption, SMT DEF TxInit, TxCalls, TxPcs, Halts
  <2>2. faults \in 0 .. MaxFaults
    BY TxAssumption, SMT DEF TxInit
  <2> QED BY <2>1, <2>2 DEF TxInit, TxTypeOK
<1>2. \A e \in TxExec : CallSound(e)
  BY TxAssumption DEF TxInit, CallSound, Fits, Halts
<1>3. RowsSound
  BY DEF TxInit, RowsSound, Slot
<1> QED BY <1>1, <1>2, <1>3 DEF TxInv

LEMMA InvGives == TxInv => StepExactlyOnce /\ StepAnswersAgree
<1> SUFFICES ASSUME TxInv PROVE StepExactlyOnce /\ StepAnswersAgree
  OBVIOUS
<1>1. StepAnswersAgree
  BY DEF TxInv, CallSound, Fits, StepAnswersAgree
<1>2. StepExactlyOnce
  <2>1. ASSUME trow # NoTxRow, ~External, trow.res = BodyError PROVE wrote = {}
    BY <2>1, TxAssumption DEF TxInv, RowsSound, Slot
  <2> QED BY <2>1 DEF TxInv, RowsSound, StepExactlyOnce, Committed
<1> QED BY <1>1, <1>2

(* What a step does to the rows, seen by the other executions: a row that  *)
(* is there stays, the committed writes stay, and the lock of another is   *)
(* neither taken nor released.                                             *)
Keeps(e) ==
    /\ tmode' = tmode
    /\ trow # NoTxRow => trow' = trow
    /\ wit # NoTxRow => wit' = wit
    /\ wrote \subseteq wrote'
    /\ \A f \in TxExec \ {e} : tx'[f] = tx[f] /\ (holder' = f <=> holder = f)

LEMMA CallsStaySound ==
    ASSUME TxInv, NEW e \in TxExec, Keeps(e), CallSound(e)'
    PROVE  \A f \in TxExec : CallSound(f)'
<1> SUFFICES ASSUME NEW f \in TxExec, f # e PROVE CallSound(f)'
  OBVIOUS
<1>1. Fits(tx[f]) /\ (tx[f].pc = "commit" <=> holder = f)
  BY DEF TxInv, CallSound
<1>2. tx'[f] = tx[f] /\ (holder' = f <=> holder = f)
  BY DEF Keeps
<1>3. (tx[f].pc = "commit" <=> holder = f) => (tx'[f].pc = "commit" <=> holder' = f)
  BY <1>2
<1> QED BY <1>1, <1>2, <1>3 DEF CallSound, Fits, Keeps, Committed, Slot, External

----------------------------------------------------------------------------
(* A step that changes its own call and no row.                            *)
Local(e) ==
    /\ UNCHANGED <<tmode, trow, wit, wrote, holder>>
    /\ tcancel' = tcancel /\ faults' \in 0 .. MaxFaults
    /\ tx' \in [TxExec -> TxCalls]
    /\ \A f \in TxExec \ {e} : tx'[f] = tx[f]
    /\ tx[e].pc # "commit" /\ tx'[e].pc # "commit"
    /\ Fits(tx'[e])

LEMMA LocalStep ==
    ASSUME TxInv, NEW e \in TxExec, Local(e)
    PROVE  TxInv'
<1>1. TxTypeOK'
  BY DEF TxInv, TxTypeOK, Local
<1>2. Keeps(e)
  BY DEF Keeps, Local
<1>3. CallSound(e)'
  BY DEF TxInv, CallSound, Local, Fits, Slot, External, Committed
<1>4. RowsSound'
  BY DEF TxInv, RowsSound, Local, Slot, External, Committed
<1> QED BY <1>1, <1>2, <1>3, <1>4, CallsStaySound DEF TxInv

(* The call of an execution is one, and fits.                              *)
LEMMA OwnCall ==
    ASSUME TxInv, NEW e \in TxExec
    PROVE  /\ tx \in [TxExec -> TxCalls] /\ tx[e] \in TxCalls /\ Fits(tx[e])
           /\ tx[e].pc = "commit" <=> holder = e
           /\ faults \in 0 .. MaxFaults
  BY DEF TxInv, TxTypeOK, CallSound

LEMMA FaultCounts ==
    ASSUME faults \in 0 .. MaxFaults, Fault
    PROVE  faults' \in 0 .. MaxFaults
  BY TxAssumption, SMT DEF Fault

LEMMA LocalMove ==
    ASSUME TxInv, NEW e \in TxExec, NEW c \in TxCalls,
           tx' = [tx EXCEPT ![e] = c], tx[e].pc # "commit", c.pc # "commit", Fits(c),
           UNCHANGED <<tmode, trow, wit, wrote, holder, tcancel>>,
           faults' = faults \/ Fault
    PROVE  TxInv'
<1>1. faults' \in 0 .. MaxFaults
  BY OwnCall, FaultCounts
<1>2. tx' \in [TxExec -> TxCalls] /\ tx'[e] = c /\ \A f \in TxExec \ {e} : tx'[f] = tx[f]
  BY OwnCall
<1> QED BY <1>1, <1>2, LocalStep DEF Local

(* Its two common forms: on to another point, and out with an answer.      *)
LEMMA ToMove ==
    ASSUME TxInv, NEW e \in TxExec, NEW p \in TxPcs \ {"new", "commit"}, To(e, p),
           tx[e].pc \notin {"new", "commit"},
           p \in {"insert", "classify"} => tx[e].val \in TxValue /\ ~tmode.ro,
           p = "classify" => Slot # NoTxRow,
           p \in {"failed", "mirror"} => tx[e].val = BodyError,
           p \in {"witness", "mirror"} => External,
           p = "record" /\ tx[e].val # BodyError =>
             tmode.ro \/ (External /\ Committed(tx[e].val)),
           UNCHANGED <<tmode, trow, wit, wrote, holder, tcancel>>,
           faults' = faults \/ Fault
    PROVE  TxInv'
<1> DEFINE c == [tx[e] EXCEPT !.pc = p]
<1>1. c \in TxCalls /\ c.pc = p /\ c.start = tx[e].start /\ c.seen = tx[e].seen /\ c.val = tx[e].val
  BY OwnCall, SMT DEF TxCalls
<1>2. Fits(c)
  BY <1>1, OwnCall DEF Fits
<1>3. tx' = [tx EXCEPT ![e] = c]
  BY OwnCall DEF To
<1> HIDE DEF c
<1> QED BY <1>1, <1>2, <1>3, LocalMove

LEMMA AnswerMove ==
    ASSUME TxInv, NEW e \in TxExec, NEW s \in TxValue \cup {BodyError} \cup Halts, Answer(e, s),
           tx[e].pc \notin {"new", "commit"},
           s \notin Halts => trow # NoTxRow /\ trow.res = s,
           UNCHANGED <<tmode, trow, wit, wrote, holder, tcancel>>,
           faults' = faults \/ Fault
    PROVE  TxInv'
<1> DEFINE c == [tx[e] EXCEPT !.pc = "over", !.seen = s]
<1>1. c \in TxCalls /\ c.pc = "over" /\ c.start = tx[e].start /\ c.seen = s
  BY OwnCall DEF TxCalls, TxPcs
<1>2. Fits(c)
  BY <1>1, OwnCall DEF Fits
<1>3. tx' = [tx EXCEPT ![e] = c]
  BY OwnCall DEF Answer
<1> HIDE DEF c
<1> QED BY <1>1, <1>2, <1>3, LocalMove

(* ------------------------------------------------- one lemma per action *)

LEMMA StartTxSound == ASSUME TxInv, NEW e \in TxExec, StartTx(e) PROVE TxInv'
<1>1. PICK t \in TxInstant : tx' = [tx EXCEPT ![e].pc = "look", ![e].start = t]
  BY DEF StartTx
<1> DEFINE c == [tx[e] EXCEPT !.pc = "look", !.start = t]
<1>2. c \in TxCalls /\ c.pc = "look" /\ c.start = t /\ c.seen = tx[e].seen
  BY OwnCall DEF TxCalls, TxPcs
<1>3. Fits(c)
  BY <1>2, OwnCall DEF Fits
<1>4. tx' = [tx EXCEPT ![e] = c]
  BY <1>1, OwnCall
<1> HIDE DEF c
<1> QED BY <1>2, <1>3, <1>4, LocalMove DEF StartTx

LEMMA LookUpSound == ASSUME TxInv, NEW e \in TxExec, LookUp(e) PROVE TxInv'
<1>1. CASE trow # NoTxRow
  <2>1. trow.res \in TxValue \cup {BodyError}
    BY <1>1 DEF TxInv, TxTypeOK, TxRows
  <2> QED BY <1>1, <2>1, AnswerMove DEF LookUp
<1>2. CASE trow = NoTxRow /\ ~Provider /\ tcancel
  BY <1>2, AnswerMove DEF LookUp, Halts
<1>3. CASE trow = NoTxRow /\ ~(~Provider /\ tcancel) /\ External
  BY <1>3, ToMove DEF LookUp, TxPcs
<1>4. CASE trow = NoTxRow /\ ~(~Provider /\ tcancel) /\ ~External
  BY <1>4, ToMove DEF LookUp, TxPcs
<1> QED BY <1>1, <1>2, <1>3, <1>4

LEMMA ReadFailsSound == ASSUME TxInv, NEW e \in TxExec, ReadFails(e) PROVE TxInv'
  BY AnswerMove DEF ReadFails, Halts

LEMMA WitnessSound == ASSUME TxInv, NEW e \in TxExec, Witness(e) PROVE TxInv'
<1>1. CASE wit = NoTxRow
  <2>1. To(e, "body")
    BY <1>1 DEF Witness, To
  <2> QED BY <2>1, ToMove DEF Witness, TxPcs
<1>2. CASE wit # NoTxRow
  <2> DEFINE c == [tx[e] EXCEPT !.pc = "record", !.val = wit.res]
  <2>1. wit.res \in TxValue \cup {BodyError} /\ External /\ Slot = wit
    BY <1>2, OwnCall DEF Witness, Fits, Slot, TxInv, TxTypeOK, TxRows
  <2>2. c \in TxCalls /\ c.pc = "record" /\ c.start = tx[e].start /\ c.seen = tx[e].seen /\ c.val = wit.res
    BY <2>1, OwnCall DEF TxCalls, TxPcs
  <2>3. wit.res # BodyError => tmode.ro \/ Committed(wit.res)
    BY <2>1, <1>2 DEF TxInv, RowsSound
  <2>4. Fits(c)
    BY <2>1, <2>2, <2>3, OwnCall DEF Fits, Witness
  <2>5. tx' = [tx EXCEPT ![e] = c]
    BY <1>2, OwnCall DEF Witness
  <2> HIDE DEF c
  <2> QED BY <2>2, <2>4, <2>5, LocalMove DEF Witness
<1> QED BY <1>1, <1>2

LEMMA BodySound == ASSUME TxInv, NEW e \in TxExec, Body(e) PROVE TxInv'
<1> DEFINE to(o) == IF o = BodyError THEN "failed" ELSE IF tmode.ro THEN "record" ELSE "insert"
<1>1. PICK o \in TxValue \cup {BodyError} :
        tx' = [tx EXCEPT ![e].val = o, ![e].n = @ + 1, ![e].pc = to(o)]
  BY DEF Body
<1> DEFINE c == [tx[e] EXCEPT !.val = o, !.n = @ + 1, !.pc = to(o)]
<1>0. /\ to(o) = "failed" => o = BodyError
      /\ to(o) = "record" => tmode.ro
      /\ to(o) = "insert" => o # BodyError /\ ~tmode.ro
      /\ to(o) \in {"failed", "record", "insert"}
  OBVIOUS
<1> HIDE DEF to
<1>2. /\ c \in TxCalls /\ c.pc = to(o) /\ c.start = tx[e].start
      /\ c.seen = tx[e].seen /\ c.val = o
  <2> DEFINE p == to(o)
  <2>1. p \in TxPcs
    BY <1>0 DEF TxPcs
  <2> HIDE DEF p
  <2>2. tx[e].n + 1 \in Nat /\ o \in TxValue \cup {BodyError}
    BY OwnCall, SMT DEF TxCalls
  <2> DEFINE d == [tx[e] EXCEPT !.val = o, !.n = tx[e].n + 1, !.pc = p]
  <2>3. d \in TxCalls
    BY <2>1, <2>2, OwnCall DEF TxCalls
  <2>4. d.pc = p /\ d.start = tx[e].start /\ d.seen = tx[e].seen /\ d.val = o
    BY OwnCall DEF TxCalls
  <2> QED BY <2>3, <2>4 DEF p
<1>3. Fits(c)
  BY <1>0, <1>2, OwnCall DEF Fits, Body
<1>4. tx' = [tx EXCEPT ![e] = c]
  BY <1>1, OwnCall
<1>5. tx[e].pc # "commit" /\ to(o) # "commit"
  BY <1>0 DEF Body
<1> HIDE DEF c
<1> QED BY <1>2, <1>3, <1>4, <1>5, LocalMove DEF Body

LEMMA WaitSound == ASSUME TxInv, NEW e \in TxExec, ConflictWait(e) PROVE TxInv'
<1>1. CASE tcancel
  BY <1>1, AnswerMove DEF ConflictWait, Halts
<1>2. CASE ~tcancel
  BY <1>2, ToMove DEF ConflictWait, TxPcs
<1> QED BY <1>1, <1>2

LEMMA AbortedSound == ASSUME TxInv, NEW e \in TxExec, Aborted(e) PROVE TxInv'
<1>1. \/ To(e, "wait") \/ To(e, "resolve") \/ Answer(e, "RecoveryRequired") \/ Answer(e, "crashed")
  BY DEF Aborted, Retried
<1>2. CASE To(e, "wait")
  BY <1>2, ToMove DEF Aborted, TxPcs
<1>3. CASE To(e, "resolve")
  BY <1>3, ToMove DEF Aborted, TxPcs
<1>4. CASE Answer(e, "RecoveryRequired")
  BY <1>4, AnswerMove DEF Aborted, Halts
<1>5. CASE Answer(e, "crashed")
  BY <1>5, AnswerMove DEF Aborted, Halts
<1> QED BY <1>1, <1>2, <1>3, <1>4, <1>5

LEMMA ClassifySound == ASSUME TxInv, NEW e \in TxExec, ClassifyRow(e) PROVE TxInv'
<1>1. tx[e].val \in TxValue /\ ~tmode.ro /\ Slot # NoTxRow
  BY OwnCall DEF ClassifyRow, Fits
<1>2. CASE ~SameRow(e)
  BY <1>2, AnswerMove DEF ClassifyRow, Halts
<1>3. CASE SameRow(e) /\ External
  <2>1. Committed(tx[e].val)
    BY <1>1, <1>3, TxAssumption DEF SameRow, TxInv, RowsSound
  <2> QED BY <1>3, <2>1, ToMove DEF ClassifyRow, TxPcs
<1>4. CASE SameRow(e) /\ ~External
  <2>1. trow # NoTxRow /\ trow.res = tx[e].val
    BY <1>1, <1>4 DEF SameRow, Slot
  <2> QED BY <1>1, <1>4, <2>1, AnswerMove DEF ClassifyRow
<1> QED BY <1>2, <1>3, <1>4

LEMMA ClassifyFailsSound == ASSUME TxInv, NEW e \in TxExec, ClassifyFails(e) PROVE TxInv'
<1>1. CASE Provider
  BY <1>1, ToMove DEF ClassifyFails, TxPcs
<1>2. CASE ~Provider
  BY <1>2, AnswerMove DEF ClassifyFails, Halts
<1> QED BY <1>1, <1>2

LEMMA RetrySound == ASSUME TxInv, NEW e \in TxExec, UserRetry(e) PROVE TxInv'
<1> DEFINE c == [tx[e] EXCEPT !.pc = "body", !.tries = @ + 1]
<1>1. c \in TxCalls /\ c.pc = "body" /\ c.start = tx[e].start /\ c.seen = tx[e].seen
  BY OwnCall, TxAssumption, SMT DEF TxCalls, TxPcs, UserRetry
<1>2. Fits(c)
  BY <1>1, OwnCall DEF Fits, UserRetry
<1>3. tx' = [tx EXCEPT ![e] = c]
  BY OwnCall DEF UserRetry
<1> HIDE DEF c
<1> QED BY <1>1, <1>2, <1>3, LocalMove DEF UserRetry

LEMMA GiveUpSound == ASSUME TxInv, NEW e \in TxExec, GiveUp(e) PROVE TxInv'
<1>1. tx[e].val = BodyError
  BY OwnCall DEF GiveUp, Fits
<1>2. CASE External
  BY <1>1, <1>2, ToMove DEF GiveUp, TxPcs
<1>3. CASE ~External
  BY <1>1, <1>3, ToMove DEF GiveUp, TxPcs
<1> QED BY <1>2, <1>3

LEMMA MirrorFailsSound == ASSUME TxInv, NEW e \in TxExec, MirrorFails(e) PROVE TxInv'
<1>1. tx[e].val = BodyError
  BY OwnCall DEF MirrorFails, Fits
<1> QED BY <1>1, ToMove DEF MirrorFails, TxPcs

LEMMA ResolveSound == ASSUME TxInv, NEW e \in TxExec, Resolve(e) PROVE TxInv'
<1>1. CASE trow # NoTxRow
  <2>1. trow.res \in TxValue \cup {BodyError}
    BY <1>1 DEF TxInv, TxTypeOK, TxRows
  <2> QED BY <1>1, <2>1, AnswerMove DEF Resolve
<1>2. CASE trow = NoTxRow
  BY <1>2, AnswerMove DEF Resolve, Halts
<1> QED BY <1>1, <1>2

(* ---------------------------------------- the steps that change a row *)

(* How a call looks after To and after Answer.                             *)
LEMMA AfterTo ==
    ASSUME TxInv, NEW e \in TxExec, NEW p \in TxPcs, To(e, p)
    PROVE  /\ tx' \in [TxExec -> TxCalls] /\ \A f \in TxExec \ {e} : tx'[f] = tx[f]
           /\ tx'[e].pc = p /\ tx'[e].start = tx[e].start
           /\ tx'[e].seen = tx[e].seen /\ tx'[e].val = tx[e].val
  BY OwnCall, SMT DEF To, TxCalls

LEMMA AfterAnswer ==
    ASSUME TxInv, NEW e \in TxExec, NEW s \in TxValue \cup {BodyError} \cup Halts, Answer(e, s)
    PROVE  /\ tx' \in [TxExec -> TxCalls] /\ \A f \in TxExec \ {e} : tx'[f] = tx[f]
           /\ tx'[e].pc = "over" /\ tx'[e].start = tx[e].start /\ tx'[e].seen = s
  BY OwnCall, SMT DEF Answer, TxCalls, TxPcs

LEMMA InsertSound == ASSUME TxInv, NEW e \in TxExec, InsertRow(e) PROVE TxInv'
<1>1. tx[e].val \in TxValue /\ ~tmode.ro
  BY OwnCall DEF InsertRow, Fits
<1>2. CASE Slot # NoTxRow
  BY <1>1, <1>2, ToMove DEF InsertRow, TxPcs
<1>3. CASE Slot = NoTxRow
  <2>1. To(e, "commit") /\ holder' = e /\ holder = NoHolder /\ tx[e].pc = "insert"
    BY <1>3 DEF InsertRow
  <2>2. UNCHANGED <<tmode, trow, wit, wrote, tcancel, faults>>
    BY DEF InsertRow
  <2>3. /\ tx' \in [TxExec -> TxCalls] /\ \A f \in TxExec \ {e} : tx'[f] = tx[f]
        /\ tx'[e].pc = "commit" /\ tx'[e].start = tx[e].start
        /\ tx'[e].seen = tx[e].seen /\ tx'[e].val = tx[e].val
    BY <2>1, AfterTo DEF TxPcs
  <2>4. TxTypeOK'
    BY <2>1, <2>2, <2>3 DEF TxInv, TxTypeOK
  <2>5. Keeps(e)
    BY <2>1, <2>2, <2>3, TxAssumption DEF Keeps
  <2>6. Fits(tx[e])
    BY OwnCall
  <2>7. CallSound(e)'
    BY <1>1, <2>1, <2>2, <2>3, <2>6 DEF CallSound, Fits, Slot, External, Committed
  <2>8. RowsSound'
    BY <1>3, <2>2 DEF TxInv, RowsSound, Slot, External, Committed
  <2> QED BY <2>4, <2>5, <2>7, <2>8, CallsStaySound DEF TxInv
<1> QED BY <1>2, <1>3

(* A commit is that of the lock's holder, the first for its slot.          *)
LEMMA CommitFacts ==
    ASSUME TxInv, NEW e \in TxExec, tx[e].pc = "commit", CommitRow(e), tmode' = tmode
    PROVE  /\ Slot = NoTxRow /\ wrote = {} /\ holder = e
           /\ Slot' = TxRow(e) /\ TxRow(e) \in TxRows /\ TxRow(e).res = tx[e].val
           /\ tx[e].val \in TxValue /\ ~tmode.ro /\ TxRow(e) # NoTxRow
           /\ wrote' = {<<e, tx[e].n, tx[e].val>>}
           /\ External => trow' = trow
           /\ ~External => wit' = wit
<1>1. holder = e /\ tx[e].val \in TxValue /\ ~tmode.ro /\ tx[e].start \in TxInstant
  BY OwnCall DEF Fits
<1>2. Slot = NoTxRow /\ wrote = {}
  BY <1>1, TxAssumption DEF TxInv, RowsSound
<1>3. TxRow(e) \in TxRows /\ TxRow(e).res = tx[e].val
  BY <1>1 DEF TxRow, TxRows
<1>4. Slot' = TxRow(e)
  BY DEF CommitRow, Slot, External
<1>5. External => trow' = trow
  BY DEF CommitRow
<1>6. ~External => wit' = wit
  BY DEF CommitRow
<1>7. wrote' = {<<e, tx[e].n, tx[e].val>>}
  BY <1>2 DEF CommitRow
<1> QED BY <1>1, <1>2, <1>3, <1>4, <1>5, <1>6, <1>7, TxAssumption

(* The rows after a commit, whatever the caller learns of it.              *)
LEMMA CommitKeeps ==
    ASSUME TxInv, NEW e \in TxExec, tx[e].pc = "commit", CommitRow(e), tmode' = tmode,
           holder' = NoHolder, tcancel' = tcancel, faults' = faults \/ Fault,
           tx' \in [TxExec -> TxCalls], \A f \in TxExec \ {e} : tx'[f] = tx[f]
    PROVE  TxTypeOK' /\ Keeps(e) /\ RowsSound' /\ \E a \in wrote' : a[3] = tx[e].val
<1>1. PICK r : r = TxRow(e)
  OBVIOUS
<1>2. /\ Slot = NoTxRow /\ wrote = {} /\ holder = e /\ Slot' = r /\ r \in TxRows
      /\ r.res = tx[e].val /\ tx[e].val \in TxValue /\ ~tmode.ro /\ r # NoTxRow
      /\ wrote' = {<<e, tx[e].n, tx[e].val>>}
      /\ External => trow' = trow
      /\ ~External => wit' = wit
  BY <1>1, CommitFacts
<1>3. tx[e].n \in Nat
  BY OwnCall DEF TxCalls
<1>4. TxTypeOK'
  <2>1. faults' \in 0 .. MaxFaults
    BY OwnCall, FaultCounts
  <2>2. wrote' \subseteq TxExec \X Nat \X TxValue
    BY <1>2, <1>3, SMT
  <2>3. trow' \in {NoTxRow} \cup TxRows /\ wit' \in {NoTxRow} \cup TxRows
    BY <1>2 DEF TxInv, TxTypeOK, Slot, External
  <2>4. tmode \in TxModes /\ tcancel \in BOOLEAN
    BY DEF TxInv, TxTypeOK
  <2> QED BY <2>1, <2>2, <2>3, <2>4 DEF TxTypeOK
<1>5. Keeps(e)
  <2>1. trow # NoTxRow => trow' = trow
    BY <1>2 DEF Slot
  <2>2. wit # NoTxRow => wit' = wit
    BY <1>2 DEF Slot
  <2> QED BY <1>2, <2>1, <2>2, TxAssumption DEF Keeps
<1>6. \A v : Committed(v)' <=> v = tx[e].val
  BY <1>2, SMT DEF Committed
<1>7. RowsSound'
  <2>1. trow' # NoTxRow /\ trow'.res # BodyError => Committed(trow.res)'
    <3>1. CASE External
      BY <1>2, <3>1 DEF TxInv, RowsSound, Committed
    <3>2. CASE ~External
      BY <1>2, <1>6, <3>2 DEF Slot, External
    <3> QED BY <3>1, <3>2
  <2>2. Slot' # NoTxRow /\ \A a \in wrote' : a[3] \in TxValue /\ a[3] = r.res
    BY <1>2, SMT
  <2>3. Committed(Slot.res)' <=> r.res = tx[e].val
    BY <1>2 DEF Committed
  <2> QED BY <1>2, <2>1, <2>2, <2>3 DEF RowsSound
<1>8. \E a \in wrote' : a[3] = tx[e].val
  BY <1>2
<1> QED BY <1>4, <1>5, <1>7, <1>8

(* A call that is over, or goes on without claims of its own.              *)
LEMMA EndFits ==
    ASSUME TxInv, NEW e \in TxExec, Keeps(e), tx[e].pc # "new",
           tx'[e].start = tx[e].start, holder' # e,
           \/ tx'[e].pc \in {"wait", "resolve"} /\ tx'[e].seen = tx[e].seen
           \/ tx'[e].pc = "over" /\ tx'[e].seen \in Halts
    PROVE  CallSound(e)'
<1>1. Fits(tx[e])
  BY OwnCall
<1> QED BY <1>1 DEF CallSound, Fits, Keeps

LEMMA CommitSound == ASSUME TxInv, NEW e \in TxExec, Commit(e) PROVE TxInv'
<1>1. /\ tx[e].pc = "commit" /\ CommitRow(e) /\ tmode' = tmode /\ tcancel' = tcancel
      /\ holder' = NoHolder /\ faults' = faults
  BY DEF Commit
<1>2. Fits(tx[e]) /\ tx[e].val \in TxValue
  BY <1>1, OwnCall DEF Fits
<1>3. CASE External
  <2>1. /\ tx' \in [TxExec -> TxCalls] /\ \A f \in TxExec \ {e} : tx'[f] = tx[f]
        /\ tx'[e].pc = "record" /\ tx'[e].start = tx[e].start
        /\ tx'[e].seen = tx[e].seen /\ tx'[e].val = tx[e].val
    BY <1>3, AfterTo DEF Commit, TxPcs
  <2>2. TxTypeOK' /\ Keeps(e) /\ RowsSound' /\ \E a \in wrote' : a[3] = tx[e].val
    BY <1>1, <2>1, CommitKeeps
  <2>3. CallSound(e)'
    BY <1>1, <1>2, <1>3, <2>1, <2>2, TxAssumption
       DEF CallSound, Fits, Keeps, External, Committed
  <2> QED BY <2>2, <2>3, CallsStaySound DEF TxInv
<1>4. CASE ~External
  <2>1. /\ tx' \in [TxExec -> TxCalls] /\ \A f \in TxExec \ {e} : tx'[f] = tx[f]
        /\ tx'[e].pc = "over" /\ tx'[e].start = tx[e].start /\ tx'[e].seen = tx[e].val
    BY <1>2, <1>4, AfterAnswer DEF Commit
  <2>2. TxTypeOK' /\ Keeps(e) /\ RowsSound'
    BY <1>1, <2>1, CommitKeeps
  <2>3. trow' # NoTxRow /\ trow'.res = tx[e].val
    BY <1>1, <1>4, CommitFacts DEF Slot, External
  <2>4. CallSound(e)'
    BY <1>1, <1>2, <2>1, <2>3, TxAssumption DEF CallSound, Fits
  <2> QED BY <2>2, <2>4, CallsStaySound DEF TxInv
<1> QED BY <1>3, <1>4

LEMMA UnansweredSound == ASSUME TxInv, NEW e \in TxExec, CommitUnanswered(e) PROVE TxInv'
<1>1. /\ tx[e].pc = "commit" /\ tmode' = tmode /\ tcancel' = tcancel /\ Fault
      /\ holder' = NoHolder /\ (CommitRow(e) \/ UNCHANGED <<trow, wit, wrote>>)
  BY DEF CommitUnanswered
<1>2. /\ tx' \in [TxExec -> TxCalls] /\ \A f \in TxExec \ {e} : tx'[f] = tx[f]
      /\ tx'[e].start = tx[e].start
      /\ \/ tx'[e].pc \in {"wait", "resolve"} /\ tx'[e].seen = tx[e].seen
         \/ tx'[e].pc = "over" /\ tx'[e].seen \in Halts
  <2>1. \/ To(e, "wait") \/ To(e, "resolve") \/ Answer(e, "RecoveryRequired")
        \/ Answer(e, "crashed")
    BY DEF CommitUnanswered, Retried
  <2>2. "RecoveryRequired" \in Halts /\ "crashed" \in Halts
    BY DEF Halts
  <2>3. "wait" \in TxPcs /\ "resolve" \in TxPcs
    BY DEF TxPcs
  <2> QED BY <2>1, <2>2, <2>3, AfterTo, AfterAnswer, SMT
<1>3. TxTypeOK' /\ Keeps(e) /\ RowsSound'
  <2>1. CASE CommitRow(e)
    BY <1>1, <1>2, <2>1, CommitKeeps
  <2>2. CASE UNCHANGED <<trow, wit, wrote>>
    <3>1. faults' \in 0 .. MaxFaults
      BY <1>1, OwnCall, FaultCounts
    <3>2. TxTypeOK'
      BY <1>1, <1>2, <2>2, <3>1 DEF TxInv, TxTypeOK
    <3>3. Keeps(e)
      BY <1>1, <1>2, <2>2, OwnCall, TxAssumption DEF Keeps
    <3>4. RowsSound'
      BY <1>1, <2>2 DEF TxInv, RowsSound, Slot, External, Committed
    <3> QED BY <3>2, <3>3, <3>4
  <2> QED BY <1>1, <2>1, <2>2
<1>4. CallSound(e)'
  BY <1>1, <1>2, <1>3, EndFits, TxAssumption
<1> QED BY <1>3, <1>4, CallsStaySound DEF TxInv

LEMMA MirrorSound == ASSUME TxInv, NEW e \in TxExec, Mirror(e) PROVE TxInv'
<1>1. /\ tx[e].pc = "mirror" /\ holder = NoHolder
      /\ UNCHANGED <<tmode, trow, wrote, holder, tcancel, faults>>
      /\ wit' = IF wit = NoTxRow THEN TxRow(e) ELSE wit
  BY DEF Mirror
<1>2. Fits(tx[e]) /\ tx[e].val = BodyError /\ External /\ tx[e].start \in TxInstant
  BY <1>1, OwnCall DEF Fits
<1>3. TxRow(e) \in TxRows /\ TxRow(e).res = BodyError
  BY <1>2 DEF TxRow, TxRows
<1>4. /\ tx' \in [TxExec -> TxCalls] /\ \A f \in TxExec \ {e} : tx'[f] = tx[f]
      /\ tx'[e].pc = "record" /\ tx'[e].start = tx[e].start
      /\ tx'[e].seen = tx[e].seen /\ tx'[e].val = tx[e].val
  BY AfterTo DEF Mirror, TxPcs
<1>5. TxTypeOK'
  <2>1. wit' \in {NoTxRow} \cup TxRows
    BY <1>1, <1>3 DEF TxInv, TxTypeOK
  <2> QED BY <1>1, <1>4, <2>1 DEF TxInv, TxTypeOK
<1>6. Keeps(e)
  BY <1>1, <1>4 DEF Keeps
<1>7. CallSound(e)'
  BY <1>1, <1>2, <1>4, TxAssumption DEF CallSound, Fits
<1>8. RowsSound'
  <2>1. CASE wit = NoTxRow
    <3>1. wrote' = {} /\ Slot' # NoTxRow /\ Slot'.res = BodyError
      BY <1>1, <1>2, <1>3, <2>1, TxAssumption DEF TxInv, RowsSound, Slot, External
    <3> QED BY <1>1, <3>1 DEF TxInv, RowsSound, Committed
  <2>2. CASE wit # NoTxRow
    BY <1>1, <2>2 DEF TxInv, RowsSound, Slot, External, Committed
  <2> QED BY <2>1, <2>2
<1> QED BY <1>5, <1>6, <1>7, <1>8, CallsStaySound DEF TxInv

(* The checkpoint of a call that is to record, whatever the call learns.   *)
LEMMA RecordKeeps ==
    ASSUME TxInv, NEW e \in TxExec, Recordable(e),
           trow' = trow \/ trow' = IF trow = NoTxRow THEN TxRow(e) ELSE trow,
           UNCHANGED <<tmode, wit, wrote, holder, tcancel>>, faults' = faults \/ Fault,
           tx' \in [TxExec -> TxCalls], \A f \in TxExec \ {e} : tx'[f] = tx[f]
    PROVE  TxTypeOK' /\ Keeps(e) /\ RowsSound' /\ TxRow(e) # NoTxRow
<1>1. PICK r : r = TxRow(e)
  OBVIOUS
<1>2. tx[e].start \in TxInstant /\ tx[e].val \in TxValue \cup {BodyError}
  BY OwnCall DEF Recordable, Fits, TxCalls
<1>3. r \in TxRows /\ r.res = tx[e].val /\ r # NoTxRow
  BY <1>1, <1>2, TxAssumption, SMT DEF TxRow, TxRows
<1>4. TxTypeOK'
  <2>1. trow' \in {NoTxRow} \cup TxRows
    BY <1>1, <1>3 DEF TxInv, TxTypeOK
  <2>2. faults' \in 0 .. MaxFaults
    BY OwnCall, FaultCounts
  <2> QED BY <2>1, <2>2 DEF TxInv, TxTypeOK
<1>5. Keeps(e)
  BY DEF Keeps
<1>6. RowsSound'
  <2>1. CASE trow' = trow
    BY <2>1 DEF TxInv, RowsSound, Slot, External, Committed
  <2>2. CASE trow = NoTxRow /\ trow' = r
    <3>1. r.res # BodyError => tmode.ro \/ (External /\ Committed(r.res))
      BY <1>3, OwnCall DEF Recordable, Fits
    <3>2. CASE External
      BY <2>2, <3>1, <3>2 DEF TxInv, RowsSound, Slot, External, Committed
    <3>3. CASE ~External
      <4>1. wrote' = {} /\ holder' = NoHolder /\ Slot' = r
        BY <2>2, <3>3 DEF TxInv, RowsSound, Slot, External, Recordable
      <4> QED BY <1>3, <2>2, <3>1, <3>3, <4>1 DEF RowsSound, External
    <3> QED BY <3>2, <3>3
  <2> QED BY <1>1, <2>1, <2>2
<1> QED BY <1>1, <1>3, <1>4, <1>5, <1>6

LEMMA RecordSound == ASSUME TxInv, NEW e \in TxExec, RecordTx(e) PROVE TxInv'
<1>1. /\ Recordable(e) /\ UNCHANGED <<tmode, wit, wrote, holder, tcancel, faults>>
      /\ trow' = IF trow = NoTxRow THEN TxRow(e) ELSE trow
      /\ Answer(e, IF trow' = TxRow(e) THEN tx[e].val ELSE "WorkflowConflict")
  BY DEF RecordTx
<1>2. Fits(tx[e]) /\ tx[e].val \in TxValue \cup {BodyError} /\ tx[e].pc = "record"
  BY <1>1, OwnCall DEF TxCalls, Recordable
<1>3. CASE trow' = TxRow(e)
  <2>1. /\ tx' \in [TxExec -> TxCalls] /\ \A f \in TxExec \ {e} : tx'[f] = tx[f]
        /\ tx'[e].pc = "over" /\ tx'[e].start = tx[e].start /\ tx'[e].seen = tx[e].val
    BY <1>1, <1>2, <1>3, AfterAnswer
  <2>2. TxTypeOK' /\ Keeps(e) /\ RowsSound' /\ TxRow(e) # NoTxRow
    BY <1>1, <2>1, RecordKeeps
  <2>3. trow' # NoTxRow /\ trow'.res = tx[e].val
    BY <1>3, <2>2 DEF TxRow
  <2>4. CallSound(e)'
    BY <1>1, <1>2, <2>1, <2>3, OwnCall DEF CallSound, Fits
  <2> QED BY <2>2, <2>4, CallsStaySound DEF TxInv
<1>4. CASE trow' # TxRow(e)
  <2>1. /\ tx' \in [TxExec -> TxCalls] /\ \A f \in TxExec \ {e} : tx'[f] = tx[f]
        /\ tx'[e].pc = "over" /\ tx'[e].start = tx[e].start /\ tx'[e].seen = "WorkflowConflict"
        /\ "WorkflowConflict" \in Halts
    BY <1>1, <1>4, AfterAnswer DEF Halts
  <2>2. TxTypeOK' /\ Keeps(e) /\ RowsSound'
    BY <1>1, <2>1, RecordKeeps
  <2>3. CallSound(e)'
    BY <1>1, <1>2, <2>1, <2>2, OwnCall, EndFits
  <2> QED BY <2>2, <2>3, CallsStaySound DEF TxInv
<1> QED BY <1>3, <1>4

LEMMA RecordUnansweredSound ==
    ASSUME TxInv, NEW e \in TxExec, RecordUnanswered(e) PROVE TxInv'
<1>1. /\ Recordable(e) /\ UNCHANGED <<tmode, wit, wrote, holder, tcancel>> /\ Fault
      /\ trow' = trow \/ trow' = IF trow = NoTxRow THEN TxRow(e) ELSE trow
  BY DEF RecordUnanswered
<1>2. /\ tx' \in [TxExec -> TxCalls] /\ \A f \in TxExec \ {e} : tx'[f] = tx[f]
      /\ tx'[e].start = tx[e].start
      /\ \/ tx'[e].pc \in {"wait", "resolve"} /\ tx'[e].seen = tx[e].seen
         \/ tx'[e].pc = "over" /\ tx'[e].seen \in Halts
  <2>1. \/ To(e, "wait") \/ To(e, "resolve") \/ Answer(e, "RecoveryRequired")
        \/ Answer(e, "crashed")
    BY DEF RecordUnanswered
  <2>2. "RecoveryRequired" \in Halts /\ "crashed" \in Halts
    BY DEF Halts
  <2>3. "wait" \in TxPcs /\ "resolve" \in TxPcs
    BY DEF TxPcs
  <2> QED BY <2>1, <2>2, <2>3, AfterTo, AfterAnswer
<1>3. TxTypeOK' /\ Keeps(e) /\ RowsSound'
  BY <1>1, <1>2, RecordKeeps
<1>4. CallSound(e)'
  BY <1>1, <1>2, <1>3, OwnCall, EndFits DEF Recordable
<1> QED BY <1>3, <1>4, CallsStaySound DEF TxInv

----------------------------------------------------------------------------
LEMMA InvKept == TxInv /\ [TxNext]_txVars => TxInv'
<1> SUFFICES ASSUME TxInv, [TxNext]_txVars PROVE TxInv'
  OBVIOUS
<1>1. ASSUME NEW e \in TxExec, StartTx(e) \/ TxStep(e) PROVE TxInv'
  BY <1>1, StartTxSound, LookUpSound, WitnessSound, ReadFailsSound, BodySound, InsertSound,
     CommitSound, UnansweredSound, AbortedSound, WaitSound, ClassifySound, ClassifyFailsSound,
     RetrySound, GiveUpSound, MirrorSound, MirrorFailsSound, RecordSound, RecordUnansweredSound,
     ResolveSound DEF TxStep
<1>2. ASSUME CancelTx \/ UNCHANGED txVars PROVE TxInv'
  <2>1. UNCHANGED <<tmode, trow, wit, wrote, holder, tx, faults>>
    BY <1>2 DEF CancelTx, txVars
  <2>2. tcancel' \in BOOLEAN
    BY <1>2 DEF CancelTx, txVars, TxInv, TxTypeOK
  <2>3. TxTypeOK'
    BY <2>1, <2>2 DEF TxInv, TxTypeOK
  <2> QED BY <2>1, <2>3, SMT
          DEF TxInv, CallSound, Fits, RowsSound, Slot, External, Committed
<1> QED BY <1>1, <1>2 DEF TxNext

(* The body's writes are committed once and the record tells of them, for  *)
(* any number of executions, attempts and lost answers.                    *)
THEOREM ExactlyOnce == TxSpec => []StepExactlyOnce
<1>1. TxInit => TxInv
  BY InvStarts
<1>2. TxInv /\ [TxNext]_txVars => TxInv'
  BY InvKept
<1>3. TxInv => StepExactlyOnce
  BY InvGives
<1> QED BY <1>1, <1>2, <1>3, PTL DEF TxSpec

(* Every execution that gets an outcome gets the recorded one.             *)
THEOREM AnswersAgree == TxSpec => []StepAnswersAgree
<1>1. TxInit => TxInv
  BY InvStarts
<1>2. TxInv /\ [TxNext]_txVars => TxInv'
  BY InvKept
<1>3. TxInv => StepAnswersAgree
  BY InvGives
<1> QED BY <1>1, <1>2, <1>3, PTL DEF TxSpec
=============================================================================
