--------------------------- MODULE OwnershipProofs ---------------------------
(***************************************************************************)
(* Type correctness of WorkflowLifecycle, and why a workflow has at most   *)
(* one live execution, for every set of workflows, executors, task slots   *)
(* and operators and every recovery cap.                                   *)
(*                                                                         *)
(* The steps fall into a few shapes.  A quiet step takes nothing new in    *)
(* hand: active tasks and claims stay or go, rows keep their generation.   *)
(* A won claim moves a row to its next generation, which outdates every    *)
(* other claim on it.  Creation, dequeue, release, listing, resume and     *)
(* deletion are treated one by one.                                        *)
(***************************************************************************)
EXTENDS WorkflowLifecycle, TLAPS


-----------------------------------------------------------------------------
(* The prover of a leaf that names none.                                   *)
USE Zenon

LEMMA StatusNames ==
    /\ Completed \subseteq Terminal
    /\ Terminal \subseteq Status
    /\ "PENDING" \in Status /\ "ENQUEUED" \in Status
    /\ "PENDING" \notin Terminal /\ "ENQUEUED" \notin Terminal
    /\ "CANCELLED" \in Terminal /\ "CANCELLED" \notin Completed
    /\ "MAX_RECOVERY_ATTEMPTS_EXCEEDED" \in Terminal
    /\ "MAX_RECOVERY_ATTEMPTS_EXCEEDED" \notin Completed
    /\ "SUCCESS" \in Completed
    /\ "NONE" \notin Status
BY DEF Status, Terminal, Completed

(* The provider statements keep a row a row.                               *)
LEMMA SetStatusType ==
    ASSUME NEW r \in Row, NEW target \in Terminal, NEW v \in Value \cup {NoValue}
    PROVE  SetStatus(r, target, v) \in Row
BY StatusNames DEF SetStatus, Row

LEMMA ClaimType ==
    ASSUME NEW r \in Row, NEW e \in Executor, NEW g, NEW cap
    PROVE  ClaimForRecovery(g, cap, e, r) \in Row
<1>0. r.attempts + 1 \in Nat
  BY SMT DEF Row
<1>1. [r EXCEPT !.status = "MAX_RECOVERY_ATTEMPTS_EXCEEDED",
                !.attempts = @ + 1] \in Row
  BY <1>0, StatusNames DEF Row
<1>2. [r EXCEPT !.status = "ENQUEUED", !.attempts = @ + 1] \in Row
  BY <1>0, StatusNames DEF Row
<1>3. [r EXCEPT !.exec = e, !.attempts = @ + 1] \in Row
  BY <1>0 DEF Row
<1> QED
  BY <1>1, <1>2, <1>3 DEF ClaimForRecovery

LEMMA OperatorStatementTypes ==
    ASSUME NEW r \in Row
    PROVE  /\ CancelRow(r) \in Row
           /\ ResumeRow(r) \in Row
           /\ EnqueueExisting(r) \in Row
           /\ [r EXCEPT !.status = "ENQUEUED"] \in Row
BY StatusNames DEF CancelRow, ResumeRow, EnqueueExisting, Row

LEMMA OwnerTypes ==
    ASSUME NEW r \in Row, NEW e \in Executor
    PROVE  /\ DequeueRow(r, e) \in Row
           /\ [r EXCEPT !.exec = e] \in Row
BY StatusNames DEF DequeueRow, Row

(* A row with a proper status is a row; a task that stands somewhere is a  *)
(* task.                                                                   *)
LEMMA Present ==
    ASSUME TypeOK
    PROVE  /\ \A w \in Workflow : row[w] # NoRow <=> row[w] \in Row
           /\ \A w \in Workflow : row[w] # NoRow <=> row[w].status \in Status
           /\ \A s \in Slot : task[s] # Idle <=> task[s] \in Task
           /\ \A s \in Slot : task[s] # Idle <=> task[s].pc # "idle"
BY SMT DEF TypeOK, Row, NoRow, Status, Terminal, Completed, Task, Idle

LEMMA NewBodyType ==
    ASSUME NEW w \in Workflow, NEW e \in Executor, NEW n \in Nat,
           NEW q \in BOOLEAN
    PROVE  /\ NewBody(w, e, n, q) \in Task
           /\ \A pc \in {"body", "release"} :
                  [NewBody(w, e, n, q) EXCEPT !.pc = pc] \in Task
BY AttemptsAssumption, StatusNames DEF NewBody, Task

LEMMA TaskSteps ==
    ASSUME NEW t \in Task,
           NEW pc \in {"body", "write", "readback", "adopt", "settle", "release"},
           NEW target \in Terminal, NEW v \in Value \cup {NoValue}, NEW n \in Nat
    PROVE  /\ [t EXCEPT !.pc = pc] \in Task
           /\ [t EXCEPT !.pc = pc, !.target = target, !.value = v] \in Task
           /\ [t EXCEPT !.pc = pc, !.cap = n] \in Task
           /\ [t EXCEPT !.fails = n] \in Task
BY DEF Task

LEMMA RowUpdate ==
    ASSUME TypeOK, NEW w \in Workflow, NEW r \in Row \cup {NoRow},
           row' = [row EXCEPT ![w] = r]
    PROVE  row' \in [Workflow -> Row \cup {NoRow}]
BY DEF TypeOK

LEMMA TaskUpdate ==
    ASSUME TypeOK, NEW s \in Slot, NEW t \in Task \cup {Idle},
           task' = [task EXCEPT ![s] = t]
    PROVE  task' \in [Slot -> Task \cup {Idle}]
BY DEF TypeOK

(* Body steps move one task; a checkpoint refreshes the row's owner.       *)
LEMMA TypeBodyStep ==
    ASSUME TypeOK, NEW s \in Slot, BodyStep(s)
    PROVE  TypeOK'
<1>0. /\ task[s] \in Task
      /\ task[s].w \in Workflow /\ task[s].e \in Executor
      /\ task[s].attempts \in Nat
  <2>1. task[s].pc = "body"
    BY DEF BodyStep, Checkpoint, BodyReturns, BodyCancelled, BodyTimedOut,
       BodyConflict, BodyInterrupted, BodyPanics
  <2>2. task[s] \in Task
    BY <2>1, Present
  <2> QED
    BY <2>2 DEF Task
<1>1. CASE Checkpoint(s)
  <2>1. [row[task[s].w] EXCEPT !.exec = task[s].e] \in Row
    BY <1>0, <1>1, Present, OwnerTypes DEF Checkpoint
  <2>2. row' \in [Workflow -> Row \cup {NoRow}]
    BY <1>0, <1>1, <2>1, RowUpdate DEF Checkpoint
  <2> QED
    BY <1>1, <2>2 DEF TypeOK, Checkpoint
<1>2. CASE \E target \in Completed, v \in Value : BodyReturns(s, target, v)
  <2> PICK target \in Completed, v \in Value : BodyReturns(s, target, v)
    BY <1>2
  <2>1. [task[s] EXCEPT !.pc = "write", !.target = target, !.value = v] \in Task
    BY <1>0, TaskSteps, StatusNames
  <2>2. task' \in [Slot -> Task \cup {Idle}]
    BY <2>1, TaskUpdate DEF BodyReturns, ToWrite
  <2> QED
    BY <2>2 DEF TypeOK, BodyReturns, Rest
<1>3. CASE BodyCancelled(s) \/ BodyTimedOut(s)
  <2>1. [task[s] EXCEPT !.pc = "write", !.target = "CANCELLED",
                        !.value = NoValue] \in Task
    BY <1>0, TaskSteps, StatusNames
  <2>2. task' \in [Slot -> Task \cup {Idle}]
    BY <1>3, <2>1, TaskUpdate DEF BodyCancelled, BodyTimedOut, ToWrite
  <2> QED
    BY <1>3, <2>2 DEF TypeOK, BodyCancelled, BodyTimedOut, Rest
<1>4. CASE BodyConflict(s) \/ BodyInterrupted(s)
  <2>1. /\ [task[s] EXCEPT !.pc = "adopt"] \in Task
        /\ [task[s] EXCEPT !.pc = "settle"] \in Task
    BY <1>0 DEF Task
  <2>2. task' \in [Slot -> Task \cup {Idle}]
    BY <1>4, <2>1, TaskUpdate DEF BodyConflict, BodyInterrupted, To
  <2> QED
    BY <1>4, <2>2 DEF TypeOK, BodyConflict, BodyInterrupted, Rest
<1>5. CASE BodyPanics(s)
  <2>1. [task[s] EXCEPT !.pc = "settle", !.cap = task[s].attempts] \in Task
    BY <1>0 DEF Task
  <2>2. task' \in [Slot -> Task \cup {Idle}]
    BY <1>5, <2>1, TaskUpdate DEF BodyPanics
  <2> QED
    BY <1>5, <2>2 DEF TypeOK, BodyPanics, Rest
<1> QED
  BY <1>1, <1>2, <1>3, <1>4, <1>5 DEF BodyStep

(* Learning of an outcome keeps the reports outcomes.                      *)
LEMMA ReportType ==
    ASSUME TypeOK, NEW w \in Workflow, NEW target, NEW v \in Value \cup {NoValue},
           reported' = Report(w, target, v)
    PROVE  reported' \in [Workflow -> SUBSET (Completed \X (Value \cup {NoValue}))]
BY SMT DEF TypeOK, Report

(* The terminal write and what follows it.                                 *)
LEMMA TypeOutcomeStep ==
    ASSUME TypeOK, NEW s \in Slot, OutcomeStep(s)
    PROVE  TypeOK'
<1> DEFINE t == task[s]
           written == SetStatus(row[t.w], t.target, t.value)
<1>0. /\ t \in Task
      /\ t.w \in Workflow /\ t.e \in Executor
      /\ t.target \in Terminal /\ t.value \in Value \cup {NoValue}
  <2>1. t.pc \in {"write", "readback", "adopt"}
    BY DEF OutcomeStep, WriteAnswered, WriteFails, Readback, Adopt, AdoptFails
  <2>2. t \in Task
    BY <2>1, Present
  <2> QED
    BY <2>2 DEF Task
<1>a. CanSetStatus(row[t.w], t.target) => written \in Row
  BY <1>0, Present, SetStatusType DEF CanSetStatus
<1>b. \A pc \in {"readback", "adopt", "settle"} : [t EXCEPT !.pc = pc] \in Task
  BY <1>0 DEF Task
<1>1. CASE WriteAnswered(s)
  <2>1. CASE CanSetStatus(row[t.w], t.target)
    <3>1. row' \in [Workflow -> Row \cup {NoRow}]
      BY <1>0, <1>a, <1>1, <2>1, RowUpdate DEF WriteAnswered
    <3>2. reported' \in [Workflow -> SUBSET (Completed \X (Value \cup {NoValue}))]
      BY <1>0, <1>1, <2>1, ReportType DEF WriteAnswered
    <3>3. task' \in [Slot -> Task \cup {Idle}]
      BY <1>1, <2>1, TaskUpdate DEF WriteAnswered
    <3> QED
      BY <1>1, <3>1, <3>2, <3>3 DEF TypeOK, WriteAnswered
  <2>2. CASE ~CanSetStatus(row[t.w], t.target)
    <3>1. task' \in [Slot -> Task \cup {Idle}]
      BY <1>b, <1>1, <2>2, TaskUpdate DEF WriteAnswered, To
    <3> QED
      BY <1>1, <2>2, <3>1 DEF TypeOK, WriteAnswered
  <2> QED
    BY <2>1, <2>2
<1>2. ASSUME NEW fate \in {"lost", "never", "late"}, WriteFails(s, fate)
      PROVE  TypeOK'
  <2>1. task' \in [Slot -> Task \cup {Idle}]
    BY <1>b, <1>2, TaskUpdate DEF WriteFails, To
  <2>2. row' \in [Workflow -> Row \cup {NoRow}]
    <3>1. CASE fate = "lost" /\ CanSetStatus(row[t.w], t.target)
      BY <1>0, <1>a, <1>2, <3>1, RowUpdate DEF WriteFails
    <3>2. CASE ~(fate = "lost" /\ CanSetStatus(row[t.w], t.target))
      BY <1>2, <3>2 DEF TypeOK, WriteFails
    <3> QED
      BY <3>1, <3>2
  <2>3. lateWrite' \subseteq LateWrite
    BY <1>0, <1>2, SMT DEF TypeOK, WriteFails, LateWrite
  <2> QED
    BY <1>2, <2>1, <2>2, <2>3 DEF TypeOK, WriteFails
<1>3. ASSUME NEW fate \in {"ok", "never"}, Readback(s, fate)
      PROVE  TypeOK'
  <2>1. task' \in [Slot -> Task \cup {Idle}]
    BY <1>b, <1>3, TaskUpdate DEF Readback, To
  <2> QED
    BY <1>3, <2>1 DEF TypeOK, Readback, Rest
<1>4. CASE Adopt(s)
  <2>1. task' \in [Slot -> Task \cup {Idle}]
    BY <1>4, TaskUpdate DEF Adopt
  <2>2. reported' \in [Workflow -> SUBSET (Completed \X (Value \cup {NoValue}))]
    <3>1. CASE row[t.w] = NoRow
      BY <1>4, <3>1 DEF TypeOK, Adopt
    <3>2. CASE row[t.w] # NoRow
      <4>1. row[t.w].value \in Value \cup {NoValue}
        BY <1>0, <3>2, Present DEF Row
      <4> QED
        BY <1>0, <1>4, <3>2, <4>1, ReportType DEF Adopt
    <3> QED
      BY <3>1, <3>2
  <2> QED
    BY <1>4, <2>1, <2>2 DEF TypeOK, Adopt
<1>5. CASE AdoptFails(s)
  <2>1. task' \in [Slot -> Task \cup {Idle}]
    BY <1>5, TaskUpdate DEF AdoptFails
  <2> QED
    BY <1>5, <2>1 DEF TypeOK, AdoptFails, Rest
<1> QED
  BY <1>1, <1>2, <1>3, <1>4, <1>5 DEF OutcomeStep

(* Settlement claims for the generation its task carries.                  *)
LEMMA TypeSettleStep ==
    ASSUME TypeOK, NEW s \in Slot, SettleStep(s)
    PROVE  TypeOK'
<1> DEFINE t == task[s]
           g == GenerationOf(t)
<1>0. /\ t \in Task
      /\ t.w \in Workflow /\ t.e \in Executor /\ t.attempts \in Nat
      /\ t.queued \in BOOLEAN /\ t.cap \in Nat /\ t.fails \in Nat
  <2>1. t.pc = "settle"
    BY DEF SettleStep, SettleStops, SettleAnswered, SettleFails
  <2>2. t \in Task
    BY <2>1, Present
  <2> QED
    BY <2>2 DEF Task
<1>a. ClaimMatches(g, row[t.w]) =>
          ClaimForRecovery(g, Cap(s), t.e, row[t.w]) \in Row
  <2>1. ClaimMatches(g, row[t.w]) => row[t.w] \in Row
    BY <1>0, Present, StatusNames DEF ClaimMatches
  <2> QED
    BY <1>0, <2>1, ClaimType
<1>b. NewBody(t.w, t.e, t.attempts + 1, FALSE) \in Task
  <2>1. t.attempts + 1 \in Nat
    BY <1>0, SMT
  <2> QED
    BY <1>0, <2>1, NewBodyType
<1>1. CASE SettleStops(s)
  <2>1. task' \in [Slot -> Task \cup {Idle}]
    BY <1>1, TaskUpdate DEF SettleStops
  <2> QED
    BY <1>0, <1>1, <2>1 DEF TypeOK, SettleStops
<1>2. CASE SettleAnswered(s)
  <2>1. row' \in [Workflow -> Row \cup {NoRow}]
    <3>1. CASE ClaimMatches(g, row[t.w])
      BY <1>0, <1>a, <1>2, <3>1, RowUpdate DEF SettleAnswered
    <3>2. CASE ~ClaimMatches(g, row[t.w])
      BY <1>2, <3>2 DEF TypeOK, SettleAnswered
    <3> QED
      BY <3>1, <3>2
  <2>2. task' \in [Slot -> Task \cup {Idle}]
    BY <1>b, <1>2, TaskUpdate DEF SettleAnswered
  <2>3. excused' \subseteq Workflow
    BY <1>0, <1>2 DEF TypeOK, SettleAnswered
  <2> QED
    BY <1>2, <2>1, <2>2, <2>3 DEF TypeOK, SettleAnswered
<1>3. ASSUME NEW fate \in {"lost", "never", "late"}, SettleFails(s, fate)
      PROVE  TypeOK'
  <2>1. row' \in [Workflow -> Row \cup {NoRow}]
    <3>1. CASE fate = "lost" /\ ClaimMatches(g, row[t.w])
      BY <1>0, <1>a, <1>3, <3>1, RowUpdate DEF SettleFails
    <3>2. CASE ~(fate = "lost" /\ ClaimMatches(g, row[t.w]))
      BY <1>3, <3>2 DEF TypeOK, SettleFails
    <3> QED
      BY <3>1, <3>2
  <2>2. [t EXCEPT !.fails = @ + 1] \in Task
    BY <1>0, SMT DEF Task
  <2>3. task' \in [Slot -> Task \cup {Idle}]
    BY <1>3, <2>2, TaskUpdate DEF SettleFails
  <2>4. [g |-> g, cap |-> Cap(s), new |-> t.e] \in LateClaim
    BY <1>0 DEF LateClaim, Generation, GenerationOf, Cap
  <2>5. lateClaim' \subseteq LateClaim
    BY <1>3, <2>4 DEF TypeOK, SettleFails
  <2> QED
    BY <1>0, <1>3, <2>1, <2>3, <2>5 DEF TypeOK, SettleFails
<1> QED
  BY <1>1, <1>2, <1>3 DEF SettleStep

(* Creation, dequeue and release.                                          *)
LEMMA TypeDispatchStep ==
    ASSUME TypeOK, NEW e \in Executor, DispatchStep(e)
    PROVE  TypeOK'
<1>0. PICK w \in Workflow, s \in Slot, fate \in {"ok", "lost"} :
          Start(e, w, s, fate) \/ Dequeue(e, w, s, fate)
  BY DEF DispatchStep
<1>1. CASE Start(e, w, s, fate)
  <2>1. [status |-> "PENDING", exec |-> e, attempts |-> 0, queued |-> FALSE,
         value |-> NoValue] \in Row
    BY StatusNames DEF Row
  <2>2. row' \in [Workflow -> Row \cup {NoRow}]
    BY <1>1, <2>1, RowUpdate DEF Start
  <2>3. task' \in [Slot -> Task \cup {Idle}]
    <3>1. NewBody(w, e, 0, FALSE) \in Task
      BY NewBodyType
    <3> QED
      BY <1>1, <3>1, TaskUpdate DEF TypeOK, Start
  <2>4. excused' \subseteq Workflow
    BY <1>1 DEF TypeOK, Start
  <2> QED
    BY <1>1, <2>2, <2>3, <2>4 DEF TypeOK, Start
<1>2. CASE Dequeue(e, w, s, fate)
  <2>1. row[w] \in Row
    BY <1>2, Present, StatusNames DEF Dequeue
  <2>2. row' \in [Workflow -> Row \cup {NoRow}]
    BY <1>2, <2>1, OwnerTypes, RowUpdate DEF Dequeue
  <2>3. task' \in [Slot -> Task \cup {Idle}]
    <3> DEFINE pc == IF w \in Registered[e] THEN "body" ELSE "release"
    <3>1. row[w].attempts \in Nat
      BY <2>1 DEF Row
    <3>2. pc \in {"body", "release"}
      OBVIOUS
    <3>3. [NewBody(w, e, row[w].attempts, TRUE) EXCEPT !.pc = pc] \in Task
      BY <3>1, <3>2, NewBodyType
    <3> QED
      BY <1>2, <3>3, TaskUpdate DEF TypeOK, Dequeue
  <2>4. excused' \subseteq Workflow
    BY <1>2 DEF TypeOK, Dequeue
  <2> QED
    BY <1>2, <2>2, <2>3, <2>4 DEF TypeOK, Dequeue
<1> QED
  BY <1>0, <1>1, <1>2

LEMMA TypeRelease ==
    ASSUME TypeOK, NEW s \in Slot, NEW fate, Release(s, fate)
    PROVE  TypeOK'
<1>0. task[s] \in Task /\ task[s].w \in Workflow
  <2>1. task[s] \in Task
    BY Present DEF Release
  <2> QED
    BY <2>1 DEF Task
<1>1. row' \in [Workflow -> Row \cup {NoRow}]
  <2>1. CASE fate = "never" \/ row[task[s].w] = NoRow
    BY <2>1 DEF TypeOK, Release
  <2>2. CASE ~(fate = "never" \/ row[task[s].w] = NoRow)
    <3>1. [row[task[s].w] EXCEPT !.status = "ENQUEUED"] \in Row
      BY <1>0, <2>2, Present, OperatorStatementTypes
    <3> QED
      BY <1>0, <2>2, <3>1, RowUpdate DEF Release
  <2> QED
    BY <2>1, <2>2
<1>2. task' \in [Slot -> Task \cup {Idle}]
  BY TaskUpdate DEF Release
<1>3. excused' \subseteq Workflow
  BY <1>0 DEF TypeOK, Release
<1> QED
  BY <1>1, <1>2, <1>3 DEF TypeOK, Release

(* What a sweep lists are generations of rows.                             *)
LEMMA ListedType ==
    ASSUME TypeOK, NEW execs
    PROVE  Listed(execs) \in SUBSET Generation
<1>1. ASSUME NEW w \in Workflow, row[w].status = "PENDING"
      PROVE  [w |-> w, exec |-> row[w].exec, attempts |-> row[w].attempts,
              queued |-> row[w].queued] \in Generation
  <2>1. row[w] \in Row
    BY <1>1, Present, StatusNames
  <2> QED
    BY <2>1 DEF Row, Generation
<1> QED
  BY <1>1 DEF Listed

LEMMA TypeSweepStep ==
    ASSUME TypeOK, NEW e \in Executor, SweepStep(e)
    PROVE  TypeOK'
<1>0. \A g \in sweep[e] : /\ g \in Generation /\ g.w \in Workflow
                          /\ g.attempts \in Nat
  BY SMT DEF TypeOK, Generation
<1>a. ASSUME NEW g \in sweep[e], ClaimMatches(g, row[g.w])
      PROVE  ClaimForRecovery(g, MaxRecoveryAttempts, e, row[g.w]) \in Row
  <2>1. row[g.w] \in Row
    BY <1>0, <1>a, Present, StatusNames DEF ClaimMatches
  <2> QED
    BY <2>1, ClaimType
<1>b. {h.w : h \in sweep[e]} \subseteq Workflow
  BY <1>0
<1>1. ASSUME NEW execs \in SUBSET (Executor \cup {Unowned}),
             RecoverPendingFor(e, execs)
      PROVE  TypeOK'
  BY <1>1, ListedType DEF TypeOK, RecoverPendingFor
<1>2. ASSUME NEW g \in sweep[e], NEW s \in Slot, SweepAnswered(e, g, s)
      PROVE  TypeOK'
  <2>1. row' \in [Workflow -> Row \cup {NoRow}]
    <3> DEFINE claims == g.queued \/ g.w \in Registered[e]
    <3>1. CASE claims /\ ClaimMatches(g, row[g.w])
      BY <1>0, <1>a, <1>2, <3>1, RowUpdate DEF SweepAnswered
    <3>2. CASE ~(claims /\ ClaimMatches(g, row[g.w]))
      BY <1>2, <3>2 DEF TypeOK, SweepAnswered
    <3> QED
      BY <3>1, <3>2
  <2>2. task' \in [Slot -> Task \cup {Idle}]
    <3>1. NewBody(g.w, e, g.attempts + 1, FALSE) \in Task
      <4>1. g.attempts + 1 \in Nat
        BY <1>0, SMT
      <4> QED
        BY <1>0, <4>1, NewBodyType
    <3> QED
      BY <1>2, <3>1, TaskUpdate DEF TypeOK, SweepAnswered
  <2>3. sweep' \in [Executor -> SUBSET Generation]
    BY <1>2 DEF TypeOK, SweepAnswered
  <2>4. excused' \subseteq Workflow
    BY <1>0, <1>2 DEF TypeOK, SweepAnswered
  <2> QED
    BY <1>2, <2>1, <2>2, <2>3, <2>4 DEF TypeOK, SweepAnswered
<1>3. ASSUME NEW g \in sweep[e], NEW fate \in {"lost", "never", "late"},
             SweepFails(e, g, fate)
      PROVE  TypeOK'
  <2>1. row' \in [Workflow -> Row \cup {NoRow}]
    <3>1. CASE fate = "lost" /\ ClaimMatches(g, row[g.w])
      BY <1>0, <1>a, <1>3, <3>1, RowUpdate DEF SweepFails
    <3>2. CASE ~(fate = "lost" /\ ClaimMatches(g, row[g.w]))
      BY <1>3, <3>2 DEF TypeOK, SweepFails
    <3> QED
      BY <3>1, <3>2
  <2>2. [g |-> g, cap |-> MaxRecoveryAttempts, new |-> e] \in LateClaim
    BY <1>0, AttemptsAssumption DEF LateClaim
  <2>3. lateClaim' \subseteq LateClaim
    BY <1>3, <2>2 DEF TypeOK, SweepFails
  <2>4. sweep' \in [Executor -> SUBSET Generation]
    BY <1>3 DEF TypeOK, SweepFails
  <2>5. excused' \subseteq Workflow
    BY <1>b, <1>3 DEF TypeOK, SweepFails
  <2> QED
    BY <1>3, <2>1, <2>3, <2>4, <2>5 DEF TypeOK, SweepFails
<1>4. CASE SweepStops(e)
  BY <1>b, <1>4 DEF TypeOK, SweepStops
<1> QED
  BY <1>1, <1>2, <1>3, <1>4 DEF SweepStep

LEMMA TypeOperatorStep ==
    ASSUME TypeOK, OperatorStep
    PROVE  TypeOK'
<1>1. ASSUME NEW w \in Workflow, Enqueue(w)
      PROVE  TypeOK'
  <2>1. [status |-> "ENQUEUED", exec |-> Unowned, attempts |-> 0,
         queued |-> TRUE, value |-> NoValue] \in Row
    BY StatusNames DEF Row
  <2>2. row' \in [Workflow -> Row \cup {NoRow}]
    BY <1>1, <2>1, RowUpdate DEF Enqueue
  <2> QED
    BY <1>1, <2>2 DEF TypeOK, Enqueue
<1>2. ASSUME NEW w \in Workflow, Cancel(w)
      PROVE  TypeOK'
  <2>1. CancelRow(row[w]) \in Row
    BY <1>2, Present, OperatorStatementTypes DEF Cancel
  <2>2. row' \in [Workflow -> Row \cup {NoRow}]
    BY <1>2, <2>1, RowUpdate DEF Cancel
  <2> QED
    BY <1>2, <2>2 DEF TypeOK, Cancel
<1>3. ASSUME NEW w \in Workflow, Delete(w)
      PROVE  TypeOK'
  <2>1. row' \in [Workflow -> Row \cup {NoRow}]
    BY <1>3, RowUpdate DEF Delete
  <2>2. reported' \in [Workflow -> SUBSET (Completed \X (Value \cup {NoValue}))]
    BY <1>3 DEF TypeOK, Delete
  <2> QED
    BY <1>3, <2>1, <2>2 DEF TypeOK, Delete
<1>4. ASSUME NEW w \in Workflow, HandleResult(w)
      PROVE  TypeOK'
  <2>1. row[w].value \in Value \cup {NoValue}
    BY <1>4, Present, StatusNames DEF HandleResult, Row
  <2>2. reported' \in [Workflow -> SUBSET (Completed \X (Value \cup {NoValue}))]
    BY <1>4, <2>1, ReportType DEF HandleResult
  <2> QED
    BY <1>4, <2>2 DEF TypeOK, HandleResult
<1>5. ASSUME NEW o \in Operator, NEW w \in Workflow, ResumeReopens(o, w)
      PROVE  TypeOK'
  <2>1. ResumeRow(row[w]) \in Row
    BY <1>5, Present, OperatorStatementTypes DEF ResumeReopens
  <2>2. row' \in [Workflow -> Row \cup {NoRow}]
    BY <1>5, <2>1, RowUpdate DEF ResumeReopens
  <2>3. resuming' \in [Operator -> Workflow \cup {NoWorkflow}]
    BY <1>5 DEF TypeOK, ResumeReopens
  <2> QED
    BY <1>5, <2>2, <2>3 DEF TypeOK, ResumeReopens
<1>6. ASSUME NEW o \in Operator, ResumeEnqueues(o)
      PROVE  TypeOK'
  <2>1. resuming[o] \in Workflow
    BY <1>6 DEF TypeOK, ResumeEnqueues
  <2>2. row' \in [Workflow -> Row \cup {NoRow}]
    <3>1. CASE row[resuming[o]] = NoRow
      BY <1>6, <3>1 DEF TypeOK, ResumeEnqueues
    <3>2. CASE row[resuming[o]] # NoRow
      <4>1. EnqueueExisting(row[resuming[o]]) \in Row
        BY <2>1, <3>2, Present, OperatorStatementTypes
      <4> QED
        BY <1>6, <2>1, <3>2, <4>1, RowUpdate DEF ResumeEnqueues
    <3> QED
      BY <3>1, <3>2
  <2>3. resuming' \in [Operator -> Workflow \cup {NoWorkflow}]
    BY <1>6 DEF TypeOK, ResumeEnqueues
  <2> QED
    BY <1>6, <2>2, <2>3 DEF TypeOK, ResumeEnqueues
<1>7. ASSUME NEW o \in Operator, ResumeBreaksOff(o)
      PROVE  TypeOK'
  <2>1. resuming[o] \in Workflow
    BY <1>7 DEF TypeOK, ResumeBreaksOff
  <2>2. resuming' \in [Operator -> Workflow \cup {NoWorkflow}]
    BY <1>7 DEF TypeOK, ResumeBreaksOff
  <2> QED
    BY <1>7, <2>1, <2>2 DEF TypeOK, ResumeBreaksOff
<1> QED
  BY <1>1, <1>2, <1>3, <1>4, <1>5, <1>6, <1>7 DEF OperatorStep

(* A relaunch marks the tasks that outlived the shutdown, and does nothing *)
(* else to them.                                                           *)
SameTask(s) ==
    /\ task'[s].pc = task[s].pc /\ task'[s].w = task[s].w /\ task'[s].e = task[s].e
    /\ task'[s].attempts = task[s].attempts /\ task'[s].queued = task[s].queued
    /\ task'[s].target = task[s].target /\ task'[s].value = task[s].value
    /\ task'[s].cap = task[s].cap
    /\ task'[s] # Idle <=> task[s] # Idle

LEMMA OldTask ==
    ASSUME NEW t \in Task
    PROVE  [t EXCEPT !.old = TRUE] \in Task
BY DEF Task

LEMMA LaunchTasks ==
    ASSUME TypeOK, NEW e \in Executor, NEW recover, Launch(e, recover)
    PROVE  /\ task' \in [Slot -> Task \cup {Idle}]
           /\ \A s \in Slot : SameTask(s)
<1>1. \A s \in Slot : task'[s] = IF s \in TasksOf(e)
                                 THEN [task[s] EXCEPT !.old = TRUE] ELSE task[s]
  BY DEF Launch
<1>2. ASSUME NEW s \in Slot PROVE task'[s] \in Task \cup {Idle} /\ SameTask(s)
  <2>1. CASE s \notin TasksOf(e)
    <3>1. task'[s] = task[s]
      BY <1>1, <2>1
    <3> QED
      BY <3>1 DEF SameTask, TypeOK
  <2>2. CASE s \in TasksOf(e)
    <3>1. task[s] \in Task /\ task[s] # Idle
      BY <2>2, Present DEF TasksOf
    <3>2. task'[s] = [task[s] EXCEPT !.old = TRUE]
      BY <1>1, <2>2
    <3>3. task'[s] \in Task
      BY <3>1, <3>2, OldTask
    <3>4. task'[s] # Idle
      BY <3>3, SMT DEF Task, Idle
    <3> QED
      BY <3>1, <3>2, <3>3, <3>4, SMT DEF SameTask, Task
  <2> QED
    BY <2>1, <2>2
<1>3. task' = [s \in Slot |-> task'[s]]
  BY DEF Launch
<1> QED
  BY <1>2, <1>3

LEMMA TypeProcessStep ==
    ASSUME TypeOK, NEW e \in Executor, ProcessStep(e)
    PROVE  TypeOK'
<1>1. CASE Crash(e)
  <2>1. \A s \in TasksOf(e) : task[s].w \in Workflow
    BY Present DEF TasksOf, Task
  <2>2. {task[s].w : s \in TasksOf(e)} \subseteq Workflow
    BY <2>1
  <2>3. {g.w : g \in sweep[e]} \subseteq Workflow
    BY SMT DEF TypeOK, Generation
  <2>4. task' \in [Slot -> Task \cup {Idle}]
    BY <1>1 DEF TypeOK, Crash
  <2>5. /\ flags' \in [Executor -> SUBSET {"alive", "deactivated", "shutdown"}]
        /\ sweep' \in [Executor -> SUBSET Generation]
    BY <1>1 DEF TypeOK, Crash
  <2>6. excused' \subseteq Workflow
    BY <1>1, <2>2, <2>3 DEF TypeOK, Crash
  <2> QED
    BY <1>1, <2>4, <2>5, <2>6 DEF TypeOK, Crash
<1>2. ASSUME NEW recover \in BOOLEAN, Launch(e, recover)
      PROVE  TypeOK'
  <2>1. /\ flags' \in [Executor -> SUBSET {"alive", "deactivated", "shutdown"}]
        /\ sweep' \in [Executor -> SUBSET Generation]
    BY <1>2, ListedType DEF TypeOK, Launch
  <2>2. {g.w : g \in sweep[e]} \subseteq Workflow
    BY SMT DEF TypeOK, Generation
  <2>3. excused' \subseteq Workflow
    BY <1>2, <2>2 DEF TypeOK, Launch
  <2>4. task' \in [Slot -> Task \cup {Idle}]
    BY <1>2, LaunchTasks
  <2> QED
    BY <1>2, <2>1, <2>3, <2>4 DEF TypeOK, Launch
<1>3. CASE Deactivate(e)
  BY <1>3 DEF TypeOK, Deactivate
<1>4. CASE Shutdown(e)
  BY <1>4 DEF TypeOK, Shutdown
<1> QED
  BY <1>1, <1>2, <1>3, <1>4 DEF ProcessStep

LEMMA TypeLateStep ==
    ASSUME TypeOK, LateStep
    PROVE  TypeOK'
<1>1. ASSUME NEW l \in lateWrite, LateWriteCommits(l)
      PROVE  TypeOK'
  <2>0. /\ l.w \in Workflow /\ l.target \in Terminal
        /\ l.value \in Value \cup {NoValue}
    BY DEF TypeOK, LateWrite
  <2>1. row' \in [Workflow -> Row \cup {NoRow}]
    <3>1. CASE CanSetStatus(row[l.w], l.target)
      <4>1. SetStatus(row[l.w], l.target, l.value) \in Row
        BY <2>0, <3>1, Present, SetStatusType DEF CanSetStatus
      <4> QED
        BY <1>1, <2>0, <3>1, <4>1, RowUpdate DEF LateWriteCommits
    <3>2. CASE ~CanSetStatus(row[l.w], l.target)
      BY <1>1, <3>2 DEF TypeOK, LateWriteCommits
    <3> QED
      BY <3>1, <3>2
  <2> QED
    BY <1>1, <2>1 DEF TypeOK, LateWriteCommits
<1>2. ASSUME NEW l \in lateWrite, LateWriteDropped(l)
      PROVE  TypeOK'
  BY <1>2 DEF TypeOK, LateWriteDropped
<1>3. ASSUME NEW c \in lateClaim, LateClaimCommits(c)
      PROVE  TypeOK'
  <2>0. c.g.w \in Workflow /\ c.new \in Executor
    BY DEF TypeOK, LateClaim, Generation
  <2>1. row' \in [Workflow -> Row \cup {NoRow}]
    <3>1. CASE ClaimMatches(c.g, row[c.g.w])
      <4>1. row[c.g.w] \in Row
        BY <2>0, <3>1, Present, StatusNames DEF ClaimMatches
      <4>2. ClaimForRecovery(c.g, c.cap, c.new, row[c.g.w]) \in Row
        BY <2>0, <4>1, ClaimType
      <4> QED
        BY <1>3, <2>0, <3>1, <4>2, RowUpdate DEF LateClaimCommits
    <3>2. CASE ~ClaimMatches(c.g, row[c.g.w])
      BY <1>3, <3>2 DEF TypeOK, LateClaimCommits
    <3> QED
      BY <3>1, <3>2
  <2> QED
    BY <1>3, <2>0, <2>1 DEF TypeOK, LateClaimCommits
<1>4. ASSUME NEW c \in lateClaim, LateClaimDropped(c)
      PROVE  TypeOK'
  BY <1>4 DEF TypeOK, LateClaimDropped
<1> QED
  BY <1>1, <1>2, <1>3, <1>4 DEF LateStep

LEMMA TypeLateCheckpointStep ==
    ASSUME TypeOK, LateCheckpointStep
    PROVE  TypeOK'
<1>1. ASSUME NEW s \in Slot, CheckpointDelayed(s)
      PROVE  TypeOK'
  <2>0. task[s] \in Task
    BY <1>1, Present DEF CheckpointDelayed
  <2>1. /\ [task[s] EXCEPT !.pc = "settle"] \in Task
        /\ [w |-> task[s].w, e |-> task[s].e] \in LateCheckpoint
    BY <2>0 DEF Task, LateCheckpoint
  <2>2. task' \in [Slot -> Task \cup {Idle}]
    BY <1>1, <2>1, TaskUpdate DEF CheckpointDelayed, To
  <2> QED
    BY <1>1, <2>1, <2>2 DEF TypeOK, CheckpointDelayed
<1>2. ASSUME NEW c \in lateCheckpoint, LateCheckpointCommits(c)
      PROVE  TypeOK'
  <2>0. c.w \in Workflow /\ c.e \in Executor
    BY DEF TypeOK, LateCheckpoint
  <2>1. row' \in [Workflow -> Row \cup {NoRow}]
    <3>1. CASE row[c.w] = NoRow
      BY <1>2, <3>1 DEF TypeOK, LateCheckpointCommits
    <3>2. CASE row[c.w] # NoRow
      <4>1. [row[c.w] EXCEPT !.exec = c.e] \in Row
        BY <2>0, <3>2, Present, OwnerTypes
      <4> QED
        BY <1>2, <2>0, <3>2, <4>1, RowUpdate DEF LateCheckpointCommits
    <3> QED
      BY <3>1, <3>2
  <2>2. task' \in [Slot -> Task \cup {Idle}]
    <3>1. CASE UNCHANGED task
      BY <3>1 DEF TypeOK
    <3>2. ASSUME NEW s \in Slot, task[s].pc = "body", To(s, "adopt")
          PROVE  task' \in [Slot -> Task \cup {Idle}]
      <4>1. task[s] \in Task
        BY <3>2, Present
      <4>2. [task[s] EXCEPT !.pc = "adopt"] \in Task
        BY <4>1 DEF Task
      <4> QED
        BY <3>2, <4>2, TaskUpdate DEF To
    <3> QED
      BY <1>2, <3>1, <3>2 DEF LateCheckpointCommits
  <2> QED
    BY <1>2, <2>1, <2>2 DEF TypeOK, LateCheckpointCommits
<1>3. ASSUME NEW c \in lateCheckpoint, LateCheckpointDropped(c)
      PROVE  TypeOK'
  BY <1>3 DEF TypeOK, LateCheckpointDropped
<1> QED
  BY <1>1, <1>2, <1>3 DEF LateCheckpointStep

(* Type correctness: every step of every caller, executor and late call    *)
(* leaves the rows, tasks, sweeps and pending calls well formed.           *)
THEOREM TypeCorrect == Spec => []TypeOK
<1>1. Init => TypeOK
  BY SMT DEF Init, TypeOK
<1>2. TypeOK /\ [Next]_vars => TypeOK'
  <2> SUFFICES ASSUME TypeOK, [Next]_vars
               PROVE  TypeOK'
    OBVIOUS
  <2>1. CASE Next
    BY <2>1, TypeBodyStep, TypeOutcomeStep, TypeSettleStep, TypeRelease,
       TypeDispatchStep, TypeSweepStep, TypeProcessStep, TypeOperatorStep,
       TypeLateStep, TypeLateCheckpointStep DEF Next
  <2>2. CASE UNCHANGED vars
    BY <2>2 DEF vars, TypeOK
  <2> QED
    BY <2>1, <2>2
<1> QED
  BY <1>1, <1>2, PTL DEF Spec

-----------------------------------------------------------------------------

(* The whole set of operating rules is kept.                               *)
AllRules == Rules \subseteq Discipline

(* No checkpoint commits after its execution has stopped.  (One that does  *)
(* rewrites the row's executor_id, or makes the next execution stop as if  *)
(* for a live rival: run lifecycle_ghost_owner.)                           *)
NoLateCheckpoint == "lateCheckpoint" \notin Moves

(* A recovery claim on generation n of workflow w is due.                  *)
Claimant(w, n) ==
    \/ \E s \in Slot : /\ task[s].pc = "settle"
                       /\ task[s].w = w /\ task[s].attempts = n
    \/ \E e \in Executor : \E g \in sweep[e] : g.w = w /\ g.attempts = n
    \/ \E c \in lateClaim : c.g.w = w /\ c.g.attempts = n

LEMMA TaskFields ==
    ASSUME TypeOK, NEW s \in Slot, task[s].pc # "idle"
    PROVE  /\ task[s] \in Task /\ task[s] # Idle
           /\ task[s].w \in Workflow /\ task[s].e \in Executor
           /\ task[s].attempts \in Nat /\ task[s].cap \in Nat
           /\ task[s].fails \in Nat /\ task[s].queued \in BOOLEAN
           /\ task[s].target \in Terminal
           /\ task[s].value \in Value \cup {NoValue}
<1>1. task[s] \in Task
  BY Present
<1> QED
  BY <1>1, Present DEF Task

LEMMA ActiveFields ==
    ASSUME TypeOK, NEW s \in Slot, Active(s)
    PROVE  /\ task[s].pc # "idle" /\ task[s] # Idle
           /\ task[s].w \in Workflow /\ task[s].e \in Executor
           /\ task[s].attempts \in Nat
BY TaskFields DEF Active

LEMMA RowFields ==
    ASSUME TypeOK, NEW w \in Workflow, row[w] # NoRow
    PROVE  /\ row[w] \in Row
           /\ row[w].status \in Status /\ row[w].status # "NONE"
           /\ row[w].exec \in Executor \cup {Unowned}
           /\ row[w].attempts \in Nat
           /\ row[w].queued \in BOOLEAN
           /\ row[w].value \in Value \cup {NoValue}
<1>1. row[w] \in Row
  BY Present
<1> QED
  BY <1>1, StatusNames DEF Row

ClaimsTyped == \A x, n : Claimant(x, n) => x \in Workflow /\ n \in Nat

LEMMA ClaimantTypes == TypeOK => ClaimsTyped
<1> SUFFICES ASSUME TypeOK, NEW x, NEW n, Claimant(x, n)
             PROVE  x \in Workflow /\ n \in Nat
  BY DEF ClaimsTyped
<1>1. ASSUME NEW s \in Slot, task[s].pc = "settle"
      PROVE  task[s].w \in Workflow /\ task[s].attempts \in Nat
  BY <1>1, TaskFields
<1>2. ASSUME NEW e \in Executor, NEW g \in sweep[e]
      PROVE  g.w \in Workflow /\ g.attempts \in Nat
  BY SMT DEF TypeOK, Generation
<1>3. ASSUME NEW c \in lateClaim
      PROVE  c.g.w \in Workflow /\ c.g.attempts \in Nat
  BY DEF TypeOK, LateClaim, Generation
<1> QED
  BY <1>1, <1>2, <1>3 DEF Claimant

ClaimsBehind == \A x, n : Claimant(x, n) => Behind(x, n)

LEMMA ClaimInvClaimant == ClaimInv <=> ClaimsBehind
BY DEF ClaimInv, Claimant, ClaimsBehind

LEMMA ClaimDueClaimant ==
    \A w : ClaimDue(w) <=> \E n : Claimant(w, n)
BY DEF ClaimDue, SettlingOn, Claimant

-----------------------------------------------------------------------------
(* Quiet steps.                                                            *)

(* A task keeps its identity and does not become active again.             *)
TaskGoesOn(s) ==
    /\ task[s] # Idle /\ task'[s] # Idle
    /\ task'[s].w = task[s].w
    /\ task'[s].e = task[s].e
    /\ task'[s].attempts = task[s].attempts
    /\ task'[s].cap <= MaxRecoveryAttempts
    /\ Active(s)' => Active(s)
    /\ task'[s].pc = "settle" => Active(s) \/ task[s].pc = "settle"

QuietTask(s) == task'[s] = task[s] \/ task'[s] = Idle \/ TaskGoesOn(s)

QuietTasks == \A s \in Slot : QuietTask(s)

(* A row keeps its generation and does not become queued.                  *)
QuietRows ==
    \A w \in Workflow :
        \/ row'[w] = row[w]
        \/ /\ row[w] # NoRow /\ row'[w] # NoRow
           /\ row'[w].exec = row[w].exec
           /\ row'[w].attempts = row[w].attempts
           /\ row'[w].status # "ENQUEUED"
           /\ \/ row'[w].status = "CANCELLED"
              \/ /\ row[w].status = "PENDING"
                 /\ ActiveOn(w) \/ \E l \in lateWrite : l.w = w

QuietClaims ==
    /\ \A e \in Executor : sweep'[e] \subseteq sweep[e]
    /\ \A c \in lateClaim' :
           \/ c \in lateClaim
           \/ c.cap <= MaxRecoveryAttempts /\ Claimant(c.g.w, c.g.attempts)

QuietRest ==
    /\ \A l \in lateWrite' : l \in lateWrite \/ ActiveOn(l.w)
    /\ \A o \in Operator : resuming'[o] = resuming[o] \/ resuming'[o] = NoWorkflow

Quiet == QuietTasks /\ QuietRows /\ QuietClaims /\ QuietRest

LEMMA QuietActive ==
    ASSUME TypeOK, TypeOK', NEW s \in Slot, QuietTask(s), Active(s)'
    PROVE  /\ Active(s)
           /\ task'[s].w = task[s].w
           /\ task'[s].e = task[s].e
           /\ task'[s].attempts = task[s].attempts
<1>1. Idle.pc = "idle"
  BY DEF Idle
<1> QED
  BY <1>1 DEF QuietTask, TaskGoesOn, Active

(* A claim that is due after a quiet step was due before it, or belonged   *)
(* to a task that was active and is not any more.                          *)
LEMMA QuietClaimant ==
    ASSUME TypeOK, TypeOK', QuietClaims, NEW w, NEW n, Claimant(w, n)',
           \A s \in Slot : QuietTask(s) \/ Active(s)'
    PROVE  \/ Claimant(w, n)
           \/ \E s \in Slot : /\ Active(s) /\ ~Active(s)'
                              /\ task[s].w = w /\ task[s].attempts = n
<1>1. ASSUME NEW s \in Slot, task'[s].pc = "settle",
             task'[s].w = w, task'[s].attempts = n
      PROVE  \/ Claimant(w, n)
             \/ Active(s) /\ ~Active(s)' /\ task[s].w = w /\ task[s].attempts = n
  BY <1>1, SMT DEF QuietTask, TaskGoesOn, Active, Claimant, Idle
<1>2. ASSUME NEW e \in Executor, NEW g \in sweep'[e], g.w = w, g.attempts = n
      PROVE  Claimant(w, n)
  BY <1>2 DEF QuietClaims, Claimant
<1>3. ASSUME NEW c \in lateClaim', c.g.w = w, c.g.attempts = n
      PROVE  Claimant(w, n)
  BY <1>3 DEF QuietClaims, Claimant
<1> QED
  BY <1>1, <1>2, <1>3 DEF Claimant

LEMMA QuietActiveOn ==
    ASSUME TypeOK, TypeOK', QuietTasks, NEW w, ActiveOn(w)'
    PROVE  ActiveOn(w)
BY QuietActive DEF ActiveOn, QuietTasks

LEMMA QuietOwnership ==
    ASSUME OwnershipInv, TypeOK', AliveInv', Quiet
    PROVE  OwnershipInv'
<1> USE DEF OwnershipInv
<1>a. (TypeOK => ClaimsTyped)'
  BY ClaimantTypes, PTL
<1>b. (ClaimInv <=> ClaimsBehind)'
  BY ClaimInvClaimant, PTL
<1>1. ActiveInv'
  <2> SUFFICES ASSUME NEW s \in Slot, Active(s)'
               PROVE  /\ row'[task'[s].w] # NoRow
                      /\ row'[task'[s].w].status # "ENQUEUED"
                      /\ row'[task'[s].w].exec = task'[s].e
                      /\ row'[task'[s].w].attempts = task'[s].attempts
    BY DEF ActiveInv
  <2>1. /\ Active(s) /\ task'[s].w = task[s].w /\ task'[s].e = task[s].e
        /\ task'[s].attempts = task[s].attempts /\ task[s].w \in Workflow
    BY QuietActive, ActiveFields DEF Quiet, QuietTasks
  <2> QED
    BY <2>1, SMT DEF ActiveInv, Quiet, QuietRows
<1>2. OneActive'
  BY QuietActive DEF OneActive, Quiet, QuietTasks
<1>3. ClaimInv'
  <2>1. ASSUME NEW w, NEW n, Claimant(w, n)'
        PROVE  Behind(w, n)'
    <3>0. w \in Workflow /\ n \in Nat
      BY <1>a, <2>1 DEF ClaimsTyped
    <3>1. CASE Claimant(w, n)
      <4>1. Behind(w, n)
        BY <3>1, ClaimInvClaimant DEF ClaimsBehind
      <4> QED
        BY <3>0, <4>1, QuietActiveOn DEF Behind, Quiet, QuietRows
    <3>2. ASSUME NEW s \in Slot, Active(s), ~Active(s)', task[s].w = w,
                 task[s].attempts = n
          PROVE  Behind(w, n)'
      <4>1. ~ActiveOn(w)'
        BY <3>2, QuietActive DEF ActiveOn, OneActive, Quiet, QuietTasks
      <4>2. /\ row[w] # NoRow /\ row[w].status # "ENQUEUED"
            /\ row[w].attempts = n
        BY <3>2 DEF ActiveInv
      <4> QED
        BY <3>0, <4>1, <4>2, SMT DEF Behind, Quiet, QuietRows
    <3> QED
      BY <2>1, <3>1, <3>2, QuietClaimant, SMT DEF Quiet, QuietTasks
  <2> QED
    BY <1>b, <2>1 DEF ClaimsBehind
<1>4. ResumeInv'
  <2> SUFFICES ASSUME NEW w \in Workflow, NEW o \in Operator, resuming'[o] = w
               PROVE  /\ row'[w].status \in {"PENDING", "CANCELLED"}
                      /\ row'[w].attempts = 0
                      /\ ~ActiveOn(w)'
                      /\ ~ClaimDue(w)'
                      /\ \A l \in lateWrite' : l.w # w
                      /\ \A p \in Operator : resuming'[p] = w => p = o
    BY DEF ResumeInv
  <2>0. resuming[o] = w /\ w # NoWorkflow
    BY NameAssumption DEF Quiet, QuietRest
  <2>1. /\ row[w].status \in {"PENDING", "CANCELLED"} /\ row[w].attempts = 0
        /\ ~ActiveOn(w) /\ ~ClaimDue(w)
        /\ \A l \in lateWrite : l.w # w
        /\ \A p \in Operator : resuming[p] = w => p = o
    BY <2>0 DEF ResumeInv
  <2>2. row'[w].status \in {"PENDING", "CANCELLED"} /\ row'[w].attempts = 0
    BY <2>0, <2>1 DEF Quiet, QuietRows
  <2>3. ~ActiveOn(w)'
    BY <2>1, QuietActiveOn DEF Quiet
  <2>4. ~ClaimDue(w)'
    <3>1. ASSUME NEW n, Claimant(w, n)'
          PROVE  FALSE
      BY <2>1, <3>1, QuietClaimant, ClaimDueClaimant
         DEF Quiet, QuietTasks, ActiveOn
    <3>2. ClaimDue(w)' => \E n : Claimant(w, n)'
      BY DEF ClaimDue, SettlingOn, Claimant
    <3> QED
      BY <3>1, <3>2
  <2>5. \A l \in lateWrite' : l.w # w
    BY <2>1 DEF Quiet, QuietRest
  <2>6. \A p \in Operator : resuming'[p] = w => p = o
    BY <2>0, <2>1 DEF Quiet, QuietRest
  <2> QED
    BY <2>2, <2>3, <2>4, <2>5, <2>6
<1>5. CapInv'
  BY DEF CapInv, Quiet, QuietTasks, QuietTask, QuietClaims, TaskGoesOn
<1>6. RecoveryBudget'
  <2> SUFFICES ASSUME NEW w \in Workflow, row'[w] # NoRow
               PROVE  /\ row'[w].attempts <= MaxRecoveryAttempts + 1
                      /\ row'[w].attempts = MaxRecoveryAttempts + 1 =>
                             row'[w].status \in {"MAX_RECOVERY_ATTEMPTS_EXCEEDED",
                                                 "CANCELLED"}
    BY DEF RecoveryBudget
  <2> QED
    BY DEF RecoveryBudget, Quiet, QuietRows
<1> QED
  BY <1>1, <1>2, <1>3, <1>4, <1>5, <1>6

-----------------------------------------------------------------------------
(* Steps that hand row w over: to a new task, to a queue, or to its next   *)
(* generation.                                                             *)

Dispatched(s, w) ==
    /\ task'[s].pc \in {"body", "release"}
    /\ task'[s].w = w
    /\ task'[s].e = row'[w].exec
    /\ task'[s].attempts = row'[w].attempts
    /\ task'[s].attempts <= MaxRecoveryAttempts
    /\ task'[s].cap <= MaxRecoveryAttempts
    /\ row'[w].status # "ENQUEUED"

WithinBudget(r) ==
    /\ r.attempts <= MaxRecoveryAttempts + 1
    /\ r.attempts = MaxRecoveryAttempts + 1 =>
           r.status \in {"MAX_RECOVERY_ATTEMPTS_EXCEEDED", "CANCELLED"}

HandOver(w) ==
    /\ \A x \in Workflow \ {w} : row'[x] = row[x]
    /\ row'[w] # NoRow
    /\ WithinBudget(row'[w])
    /\ \A s \in Slot : Active(s) /\ task[s].w = w => task'[s] = Idle
    /\ \A n : Claimant(w, n) => n < row'[w].attempts
    /\ \A o \in Operator : resuming'[o] # w
    /\ \A s \in Slot : QuietTask(s) \/ Dispatched(s, w)
    /\ \A s, t \in Slot : Dispatched(s, w) /\ Dispatched(t, w) => s = t
    /\ QuietClaims
    /\ QuietRest

LEMMA HandOverActive ==
    ASSUME TypeOK, TypeOK', NEW w \in Workflow, HandOver(w),
           NEW s \in Slot, Active(s)'
    PROVE  \/ Dispatched(s, w)
           \/ /\ Active(s) /\ task[s].w # w
              /\ task'[s].w = task[s].w
              /\ task'[s].e = task[s].e
              /\ task'[s].attempts = task[s].attempts
<1>1. Idle.pc = "idle"
  BY DEF Idle
<1>2. task'[s] # Idle
  BY <1>1 DEF Active
<1> QED
  BY <1>2, QuietActive DEF HandOver

LEMMA HandOverOwnership ==
    ASSUME OwnershipInv, TypeOK', AliveInv', NEW w \in Workflow, HandOver(w)
    PROVE  OwnershipInv'
<1> USE DEF OwnershipInv
<1>a. (TypeOK => ClaimsTyped)'
  BY ClaimantTypes, PTL
<1>b. (ClaimInv <=> ClaimsBehind)'
  BY ClaimInvClaimant, PTL
<1>1. ActiveInv'
  <2> SUFFICES ASSUME NEW s \in Slot, Active(s)'
               PROVE  /\ row'[task'[s].w] # NoRow
                      /\ row'[task'[s].w].status # "ENQUEUED"
                      /\ row'[task'[s].w].exec = task'[s].e
                      /\ row'[task'[s].w].attempts = task'[s].attempts
    BY DEF ActiveInv
  <2>1. CASE Dispatched(s, w)
    BY <2>1 DEF Dispatched, HandOver
  <2>2. CASE /\ Active(s) /\ task[s].w # w
             /\ task'[s].w = task[s].w
             /\ task'[s].e = task[s].e
             /\ task'[s].attempts = task[s].attempts
    BY <2>2, ActiveFields, SMT DEF ActiveInv, HandOver
  <2> QED
    BY <2>1, <2>2, HandOverActive
<1>2. OneActive'
  <2> SUFFICES ASSUME NEW s \in Slot, NEW t \in Slot, Active(s)', Active(t)',
                      task'[s].w = task'[t].w
               PROVE  s = t
    BY DEF OneActive
  <2>1. Dispatched(s, w) => task'[s].w = w
    BY DEF Dispatched
  <2>2. Dispatched(t, w) => task'[t].w = w
    BY DEF Dispatched
  <2>3. CASE Dispatched(s, w) /\ Dispatched(t, w)
    BY <2>3 DEF HandOver
  <2>4. CASE ~Dispatched(s, w) \/ ~Dispatched(t, w)
    BY <2>1, <2>2, <2>4, HandOverActive, SMT DEF OneActive
  <2> QED
    BY <2>3, <2>4
<1>3. \A x : ActiveOn(x)' /\ x # w => ActiveOn(x)
  BY HandOverActive, SMT DEF ActiveOn, Dispatched
<1>4. ASSUME NEW x, NEW n, Claimant(x, n)'
      PROVE  \/ Claimant(x, n)
             \/ /\ x # w
                /\ \E s \in Slot : /\ Active(s) /\ ~Active(s)'
                                   /\ task[s].w = x /\ task[s].attempts = n
  <2>1. \A s \in Slot : QuietTask(s) \/ Active(s)'
    BY DEF HandOver, Dispatched, Active
  <2>2. CASE \E s \in Slot : task'[s].pc = "settle" /\ task'[s].w = x
                             /\ task'[s].attempts = n
    <3> PICK s \in Slot : task'[s].pc = "settle" /\ task'[s].w = x
                          /\ task'[s].attempts = n
      BY <2>2
    <3>1. task'[s] # Idle /\ ~Active(s)'
      BY SMT DEF Idle, Active
    <3>2. QuietTask(s)
      BY <2>1, <3>1
    <3>3. CASE task'[s] = task[s]
      BY <3>3 DEF Claimant
    <3>4. CASE TaskGoesOn(s)
      BY <3>1, <3>4 DEF TaskGoesOn, Claimant, HandOver
    <3> QED
      BY <3>1, <3>2, <3>3, <3>4 DEF QuietTask
  <2>3. CASE ~\E s \in Slot : task'[s].pc = "settle" /\ task'[s].w = x
                              /\ task'[s].attempts = n
    BY <1>4, <2>3, SMT DEF Claimant, HandOver, QuietClaims
  <2> QED
    BY <2>2, <2>3
<1>5. ClaimInv'
  <2>1. ASSUME NEW x, NEW n, Claimant(x, n)'
        PROVE  Behind(x, n)'
    <3>0. x \in Workflow /\ n \in Nat
      BY <1>a, <2>1 DEF ClaimsTyped
    <3>1. CASE x = w
      <4>1. n < row'[w].attempts
        BY <1>4, <2>1, <3>1 DEF HandOver
      <4>2. row'[w] # NoRow
        BY DEF HandOver
      <4>3. row'[w].attempts \in Nat
        <5>1. (TypeOK /\ row[w] # NoRow => row[w].attempts \in Nat)'
          BY RowFields, PTL
        <5> QED
          BY <4>2, <5>1
      <4> QED
        BY <3>0, <3>1, <4>1, <4>2, <4>3, SMT DEF Behind
    <3>2. CASE x # w /\ Claimant(x, n)
      <4>1. Behind(x, n)
        BY <3>2, ClaimInvClaimant DEF ClaimsBehind
      <4> QED
        BY <1>3, <3>0, <3>2, <4>1 DEF Behind, HandOver
    <3>3. ASSUME x # w, NEW s \in Slot, Active(s), ~Active(s)', task[s].w = x,
                 task[s].attempts = n
          PROVE  Behind(x, n)'
      <4>1. ~ActiveOn(x)'
        BY <3>3, HandOverActive DEF ActiveOn, OneActive, Dispatched
      <4>2. /\ row[x] # NoRow /\ row[x].status # "ENQUEUED"
            /\ row[x].attempts = n
        BY <3>3 DEF ActiveInv
      <4> QED
        BY <3>0, <3>3, <4>1, <4>2, SMT DEF Behind, HandOver
    <3> QED
      BY <1>4, <2>1, <3>1, <3>2, <3>3, SMT
  <2> QED
    BY <1>b, <2>1 DEF ClaimsBehind
<1>6. ResumeInv'
  <2> SUFFICES ASSUME NEW x \in Workflow, NEW o \in Operator, resuming'[o] = x
               PROVE  /\ row'[x].status \in {"PENDING", "CANCELLED"}
                      /\ row'[x].attempts = 0
                      /\ ~ActiveOn(x)'
                      /\ ~ClaimDue(x)'
                      /\ \A l \in lateWrite' : l.w # x
                      /\ \A p \in Operator : resuming'[p] = x => p = o
    BY DEF ResumeInv
  <2>0. resuming[o] = x /\ x # w /\ x # NoWorkflow
    BY NameAssumption DEF HandOver, QuietRest
  <2>1. /\ row[x].status \in {"PENDING", "CANCELLED"} /\ row[x].attempts = 0
        /\ ~ActiveOn(x) /\ ~ClaimDue(x)
        /\ \A l \in lateWrite : l.w # x
        /\ \A p \in Operator : resuming[p] = x => p = o
    BY <2>0 DEF ResumeInv
  <2>2. row'[x] = row[x]
    BY <2>0 DEF HandOver
  <2>3. ~ActiveOn(x)'
    BY <1>3, <2>0, <2>1
  <2>4. ~ClaimDue(x)'
    <3>1. ASSUME NEW n, Claimant(x, n)'
          PROVE  FALSE
      BY <1>4, <2>1, <3>1, ClaimDueClaimant DEF ActiveOn
    <3>2. ClaimDue(x)' => \E n : Claimant(x, n)'
      BY DEF ClaimDue, SettlingOn, Claimant
    <3> QED
      BY <3>1, <3>2
  <2>5. \A l \in lateWrite' : l.w # x
    BY <2>1 DEF HandOver, QuietRest
  <2>6. \A p \in Operator : resuming'[p] = x => p = o
    BY <2>0, <2>1 DEF HandOver, QuietRest
  <2> QED
    BY <2>1, <2>2, <2>3, <2>4, <2>5, <2>6
<1>7. CapInv'
  BY DEF CapInv, HandOver, Dispatched, QuietTask, QuietClaims, TaskGoesOn
<1>8. RecoveryBudget'
  BY DEF RecoveryBudget, HandOver, WithinBudget
<1> QED
  BY <1>1, <1>2, <1>5, <1>6, <1>7, <1>8

-----------------------------------------------------------------------------
(* The steps of one task.                                                  *)

(* What one task may become in a quiet step.                               *)
GoesTo(s, u) ==
    \/ u = Idle
    \/ /\ u # Idle
       /\ u.w = task[s].w /\ u.e = task[s].e
       /\ u.attempts = task[s].attempts
       /\ u.cap <= MaxRecoveryAttempts
       /\ u.pc \in {"body", "write", "readback", "release"} => Active(s)
       /\ u.pc = "settle" => Active(s) \/ task[s].pc = "settle"

LEMMA OneTaskMoves ==
    ASSUME OwnershipInv, TypeOK', NEW s \in Slot, task[s].pc # "idle", NEW u,
           GoesTo(s, u), task' = [task EXCEPT ![s] = u],
           flags' = flags, \A e \in Executor : sweep'[e] \subseteq sweep[e]
    PROVE  QuietTasks /\ AliveInv'
<1>0. task[s] # Idle
  BY SMT DEF Idle
<1>1. \A x \in Slot : task'[x] = IF x = s THEN u ELSE task[x]
  BY DEF OwnershipInv, TypeOK
<1>2. QuietTasks
  BY <1>0, <1>1 DEF QuietTasks, QuietTask, TaskGoesOn, GoesTo, Active
<1>3. AliveInv'
  BY <1>0, <1>1, SMT DEF OwnershipInv, AliveInv, Alive, GoesTo
<1> QED
  BY <1>2, <1>3

LEMMA OwnBodyStep ==
    ASSUME OwnershipInv, TypeOK', NEW s \in Slot, BodyStep(s)
    PROVE  OwnershipInv'
<1> USE DEF OwnershipInv
<1> DEFINE t == task[s]
<1>0. /\ t.pc = "body" /\ Active(s) /\ t \in Task
      /\ t.w \in Workflow /\ t.cap <= MaxRecoveryAttempts
      /\ t.attempts <= MaxRecoveryAttempts
  <2>1. t.pc = "body"
    BY DEF BodyStep, Checkpoint, BodyReturns, BodyCancelled, BodyTimedOut,
       BodyConflict, BodyInterrupted, BodyPanics
  <2> QED
    BY <2>1, TaskFields DEF Active, CapInv
<1>1. CASE Checkpoint(s)
  <2>1. row[t.w] # NoRow /\ row[t.w].exec = t.e /\ row[t.w] \in Row
    BY <1>0, RowFields DEF ActiveInv
  <2>2. [row[t.w] EXCEPT !.exec = t.e] = row[t.w]
    BY <2>1 DEF Row
  <2>3. row' = row
    BY <1>0, <1>1, <2>2 DEF Checkpoint, TypeOK
  <2>4. QuietTasks /\ AliveInv'
    BY <1>1 DEF Checkpoint, QuietTasks, QuietTask, AliveInv, Alive
  <2>5. Quiet
    BY <1>1, <2>3, <2>4 DEF Checkpoint, Quiet, QuietRows, QuietClaims, QuietRest
  <2> QED
    BY <2>4, <2>5, QuietOwnership
<1>2. ASSUME NEW u, GoesTo(s, u), task' = [task EXCEPT ![s] = u],
             UNCHANGED <<row, sweep, resuming, flags, lateWrite, lateClaim>>
      PROVE  OwnershipInv'
  <2>1. QuietTasks /\ AliveInv'
    BY <1>0, <1>2, OneTaskMoves
  <2>2. Quiet
    BY <1>2, <2>1 DEF Quiet, QuietRows, QuietClaims, QuietRest
  <2> QED
    BY <2>1, <2>2, QuietOwnership
<1>3. ASSUME NEW target \in Completed, NEW v \in Value, BodyReturns(s, target, v)
      PROVE  OwnershipInv'
  <2> DEFINE u == [t EXCEPT !.pc = "write", !.target = target, !.value = v]
  <2>1. GoesTo(s, u)
    BY <1>0 DEF GoesTo, Task, Idle
  <2>2. /\ task' = [task EXCEPT ![s] = u]
        /\ UNCHANGED <<row, sweep, resuming, flags, lateWrite, lateClaim>>
    BY <1>3 DEF BodyReturns, ToWrite, Rest
  <2> HIDE DEF u
  <2> QED
    BY <1>2, <2>1, <2>2
<1>4. CASE BodyCancelled(s) \/ BodyTimedOut(s)
  <2> DEFINE u == [t EXCEPT !.pc = "write", !.target = "CANCELLED",
                            !.value = NoValue]
  <2>1. GoesTo(s, u)
    BY <1>0 DEF GoesTo, Task, Idle
  <2>2. /\ task' = [task EXCEPT ![s] = u]
        /\ UNCHANGED <<row, sweep, resuming, flags, lateWrite, lateClaim>>
    BY <1>4 DEF BodyCancelled, BodyTimedOut, ToWrite, Rest
  <2> HIDE DEF u
  <2> QED
    BY <1>2, <2>1, <2>2
<1>5. CASE BodyConflict(s)
  <2> DEFINE u == [t EXCEPT !.pc = "adopt"]
  <2>1. GoesTo(s, u)
    BY <1>0 DEF GoesTo, Task, Idle
  <2>2. /\ task' = [task EXCEPT ![s] = u]
        /\ UNCHANGED <<row, sweep, resuming, flags, lateWrite, lateClaim>>
    BY <1>5 DEF BodyConflict, To, Rest
  <2> HIDE DEF u
  <2> QED
    BY <1>2, <2>1, <2>2
<1>6. CASE BodyInterrupted(s)
  <2> DEFINE u == [t EXCEPT !.pc = "settle"]
  <2>1. GoesTo(s, u)
    BY <1>0 DEF GoesTo, Task, Idle
  <2>2. /\ task' = [task EXCEPT ![s] = u]
        /\ UNCHANGED <<row, sweep, resuming, flags, lateWrite, lateClaim>>
    BY <1>6 DEF BodyInterrupted, To, Rest
  <2> HIDE DEF u
  <2> QED
    BY <1>2, <2>1, <2>2
<1>7. CASE BodyPanics(s)
  <2> DEFINE u == [t EXCEPT !.pc = "settle", !.cap = t.attempts]
  <2>1. GoesTo(s, u)
    BY <1>0 DEF GoesTo, Task, Idle
  <2>2. /\ task' = [task EXCEPT ![s] = u]
        /\ UNCHANGED <<row, sweep, resuming, flags, lateWrite, lateClaim>>
    BY <1>7 DEF BodyPanics, Rest
  <2> HIDE DEF u
  <2> QED
    BY <1>2, <2>1, <2>2
<1> QED
  BY <1>1, <1>3, <1>4, <1>5, <1>6, <1>7 DEF BodyStep

LEMMA SetStatusFields ==
    ASSUME NEW r \in Row, NEW target \in Terminal, NEW v
    PROVE  /\ SetStatus(r, target, v).status = target
           /\ SetStatus(r, target, v).exec = r.exec
           /\ SetStatus(r, target, v).attempts = r.attempts
           /\ SetStatus(r, target, v).queued = r.queued
           /\ v # NoValue => SetStatus(r, target, v).value = v
           /\ SetStatus(r, target, v) # NoRow
BY StatusNames DEF SetStatus, Row, NoRow

(* A terminal write by an active task, or a late one, is quiet.            *)
LEMMA TerminalWrite ==
    ASSUME TypeOK, NEW w \in Workflow, NEW target \in Terminal, NEW v,
           ActiveOn(w) \/ \E l \in lateWrite : l.w = w,
           CanSetStatus(row[w], target),
           row' = [row EXCEPT ![w] = SetStatus(@, target, v)]
    PROVE  QuietRows
<1> DEFINE r == SetStatus(row[w], target, v)
<1>1. row[w] # NoRow /\ row[w] \in Row
  BY RowFields DEF CanSetStatus
<1>2. /\ r.status = target /\ r.exec = row[w].exec
      /\ r.attempts = row[w].attempts /\ r # NoRow
  BY <1>1, SetStatusFields, SMT
<1>3. \A x \in Workflow : row'[x] = IF x = w THEN r ELSE row[x]
  BY DEF TypeOK
<1>4. target # "ENQUEUED" /\ (target = "CANCELLED" \/ row[w].status = "PENDING")
  BY StatusNames DEF CanSetStatus, Terminal
<1> HIDE DEF r
<1> QED
  BY <1>1, <1>2, <1>3, <1>4 DEF QuietRows

LEMMA OwnOutcomeStep ==
    ASSUME OwnershipInv, TypeOK', NEW s \in Slot, OutcomeStep(s)
    PROVE  OwnershipInv'
<1> USE DEF OwnershipInv
<1> DEFINE t == task[s]
<1>0. /\ t.pc \in {"write", "readback", "adopt"} /\ t \in Task
      /\ t.w \in Workflow /\ t.target \in Terminal
      /\ t.cap <= MaxRecoveryAttempts
  <2>1. t.pc \in {"write", "readback", "adopt"}
    BY DEF OutcomeStep, WriteAnswered, WriteFails, Readback, Adopt, AdoptFails
  <2> QED
    BY <2>1, TaskFields DEF CapInv
<1>a. t.pc = "write" => ActiveOn(t.w)
  BY DEF Active, ActiveOn
<1>2. ASSUME NEW u, GoesTo(s, u), task' = [task EXCEPT ![s] = u], QuietRows,
             \A l \in lateWrite' : l \in lateWrite \/ ActiveOn(l.w),
             UNCHANGED <<sweep, resuming, flags, lateClaim>>
      PROVE  OwnershipInv'
  <2>1. QuietTasks /\ AliveInv'
    BY <1>0, <1>2, OneTaskMoves
  <2>2. Quiet
    BY <1>2, <2>1 DEF Quiet, QuietClaims, QuietRest
  <2> QED
    BY <2>1, <2>2, QuietOwnership
<1>b. row' = row => QuietRows
  BY DEF QuietRows
<1>c. GoesTo(s, Idle)
  BY DEF GoesTo
<1>3. CASE WriteAnswered(s)
  <2>1. CASE CanSetStatus(row[t.w], t.target)
    <3>1. QuietRows
      BY <1>0, <1>a, <1>3, <2>1, TerminalWrite DEF WriteAnswered
    <3>2. /\ task' = [task EXCEPT ![s] = Idle]
          /\ UNCHANGED <<sweep, resuming, flags, lateWrite, lateClaim>>
      BY <1>3, <2>1 DEF WriteAnswered
    <3> QED
      BY <1>2, <1>c, <3>1, <3>2
  <2>2. CASE ~CanSetStatus(row[t.w], t.target)
    <3> DEFINE u == [t EXCEPT !.pc = "adopt"]
    <3>1. GoesTo(s, u)
      BY <1>0 DEF GoesTo, Task, Idle
    <3>2. /\ task' = [task EXCEPT ![s] = u]
          /\ UNCHANGED <<row, sweep, resuming, flags, lateWrite, lateClaim>>
      BY <1>3, <2>2 DEF WriteAnswered, To
    <3> HIDE DEF u
    <3> QED
      BY <1>2, <1>b, <3>1, <3>2
  <2> QED
    BY <2>1, <2>2
<1>4. ASSUME NEW fate \in {"lost", "never", "late"}, WriteFails(s, fate)
      PROVE  OwnershipInv'
  <2> DEFINE u == [t EXCEPT !.pc = "readback"]
  <2>0. t.pc = "write" /\ Active(s)
    BY <1>4 DEF WriteFails, Active
  <2>1. GoesTo(s, u)
    BY <1>0, <2>0 DEF GoesTo, Task, Idle
  <2>2. /\ task' = [task EXCEPT ![s] = u]
        /\ UNCHANGED <<sweep, resuming, flags, lateClaim>>
    BY <1>4 DEF WriteFails, To
  <2>3. QuietRows
    <3>1. CASE fate = "lost" /\ CanSetStatus(row[t.w], t.target)
      BY <1>0, <1>a, <1>4, <2>0, <3>1, TerminalWrite DEF WriteFails
    <3>2. CASE ~(fate = "lost" /\ CanSetStatus(row[t.w], t.target))
      BY <1>4, <1>b, <3>2 DEF WriteFails
    <3> QED
      BY <3>1, <3>2
  <2>4. \A l \in lateWrite' : l \in lateWrite \/ l.w = t.w
    BY <1>4, SMT DEF WriteFails
  <2> HIDE DEF u
  <2> QED
    BY <1>2, <1>a, <2>0, <2>1, <2>2, <2>3, <2>4
<1>5. ASSUME NEW fate \in {"ok", "never"}, Readback(s, fate)
      PROVE  OwnershipInv'
  <2> DEFINE u == [t EXCEPT !.pc = "adopt"]
             x == [t EXCEPT !.pc = "settle"]
  <2>0. t.pc = "readback" /\ Active(s)
    BY <1>5 DEF Readback, Active
  <2>1. GoesTo(s, u) /\ GoesTo(s, x)
    BY <1>0, <2>0 DEF GoesTo, Task, Idle
  <2>2. /\ task' = [task EXCEPT ![s] = u] \/ task' = [task EXCEPT ![s] = x]
        /\ UNCHANGED <<row, sweep, resuming, flags, lateWrite, lateClaim>>
    BY <1>5 DEF Readback, To, Rest
  <2> HIDE DEF u, x
  <2> QED
    BY <1>2, <1>b, <2>1, <2>2
<1>6. CASE Adopt(s) \/ AdoptFails(s)
  <2>2. /\ task' = [task EXCEPT ![s] = Idle]
        /\ UNCHANGED <<row, sweep, resuming, flags, lateWrite, lateClaim>>
    BY <1>6 DEF Adopt, AdoptFails, Rest
  <2> QED
    BY <1>2, <1>b, <1>c, <2>2
<1> QED
  BY <1>3, <1>4, <1>5, <1>6 DEF OutcomeStep

-----------------------------------------------------------------------------
(* Claims.                                                                 *)

LEMMA ClaimFields ==
    ASSUME NEW r \in Row, r.status = "PENDING", NEW e \in Executor, NEW g, NEW cap
    PROVE  LET c == ClaimForRecovery(g, cap, e, r) IN
           /\ c # NoRow
           /\ c.attempts = r.attempts + 1
           /\ ClaimOutcome(g, cap) = "parked" =>
                  c.status = "MAX_RECOVERY_ATTEMPTS_EXCEEDED"
           /\ ClaimOutcome(g, cap) = "claimed" =>
                  c.status = "PENDING" /\ c.exec = e
<1>0. ClaimOutcome(g, cap) \in {"parked", "requeued", "claimed"}
  BY DEF ClaimOutcome
<1>1. CASE ClaimOutcome(g, cap) = "parked"
  BY <1>1 DEF ClaimForRecovery, Row, NoRow
<1>2. CASE ClaimOutcome(g, cap) = "requeued"
  BY <1>2 DEF ClaimForRecovery, Row, NoRow
<1>3. CASE ClaimOutcome(g, cap) = "claimed"
  BY <1>3 DEF ClaimForRecovery, Row, NoRow
<1> QED
  BY <1>0, <1>1, <1>2, <1>3

(* A new body for w in slot s, and nothing else.                           *)
Spawned(s, w, e, n) ==
    /\ ~Active(s)
    /\ task' = [task EXCEPT ![s] = NewBody(w, e, n, FALSE)]

(* The claim that wins outdates the others and finds nobody at work.       *)
LEMMA ClaimWon ==
    ASSUME OwnershipInv, TypeOK', AliveInv', QuietClaims, QuietRest,
           NEW w \in Workflow, NEW e \in Executor, NEW g, NEW cap \in Nat,
           g.attempts \in Nat, cap <= MaxRecoveryAttempts,
           Claimant(w, g.attempts), ClaimMatches(g, row[w]),
           row' = [row EXCEPT ![w] = ClaimForRecovery(g, cap, e, @)],
           \/ QuietTasks
           \/ /\ ClaimOutcome(g, cap) = "claimed"
              /\ \E s \in Slot : Spawned(s, w, e, g.attempts + 1)
    PROVE  OwnershipInv'
<1> USE DEF OwnershipInv
<1> DEFINE c == ClaimForRecovery(g, cap, e, row[w])
<1>1. /\ row[w].status = "PENDING" /\ row[w] # NoRow /\ row[w] \in Row
      /\ row[w].attempts = g.attempts
  BY Present, RowFields, StatusNames DEF ClaimMatches
<1>2. Behind(w, g.attempts)
  BY ClaimInvClaimant DEF ClaimsBehind
<1>3. ~ActiveOn(w)
  BY <1>1, <1>2 DEF Behind
<1>4. \A o \in Operator : resuming[o] # w
  BY ClaimDueClaimant DEF ResumeInv
<1>5. \A n : Claimant(w, n) => n \in Nat /\ n <= g.attempts
  BY <1>1, ClaimantTypes, ClaimInvClaimant DEF ClaimsTyped, ClaimsBehind, Behind
<1>6. /\ c # NoRow /\ c.attempts = g.attempts + 1
      /\ ClaimOutcome(g, cap) = "parked" =>
             c.status = "MAX_RECOVERY_ATTEMPTS_EXCEEDED"
      /\ ClaimOutcome(g, cap) = "claimed" => c.status = "PENDING" /\ c.exec = e
  BY <1>1, ClaimFields, SMT
<1>7. WithinBudget(c)
  <2>1. g.attempts <= MaxRecoveryAttempts
    BY <1>1, AttemptsAssumption, SMT DEF RecoveryBudget
  <2>2. g.attempts + 1 = MaxRecoveryAttempts + 1 => ClaimOutcome(g, cap) = "parked"
    BY AttemptsAssumption, SMT DEF ClaimOutcome
  <2> QED
    BY <1>6, <2>1, <2>2, AttemptsAssumption, SMT DEF WithinBudget
<1>8. row'[w] = c /\ \A x \in Workflow \ {w} : row'[x] = row[x]
  BY DEF TypeOK
<1> HIDE DEF c
<1>9. \A o \in Operator : resuming'[o] # w
  BY <1>4, NameAssumption DEF QuietRest
<1>10. /\ \A s \in Slot : QuietTask(s) \/ Dispatched(s, w)
       /\ \A s, t \in Slot : Dispatched(s, w) /\ Dispatched(t, w) => s = t
  <2>1. ASSUME NEW s \in Slot, QuietTask(s), Dispatched(s, w)
        PROVE  FALSE
    <3>1. Active(s)'
      BY <2>1 DEF Dispatched, Active
    <3> QED
      BY <1>3, <2>1, <3>1, QuietActive DEF ActiveOn, Dispatched
  <2>2. CASE QuietTasks
    BY <2>1, <2>2 DEF QuietTasks
  <2>3. ASSUME ClaimOutcome(g, cap) = "claimed",
               NEW s \in Slot, Spawned(s, w, e, g.attempts + 1)
        PROVE  /\ \A t \in Slot \ {s} : QuietTask(t)
               /\ Dispatched(s, w)
    <3>1. g.attempts + 1 <= MaxRecoveryAttempts
      BY <2>3, AttemptsAssumption, SMT DEF ClaimOutcome
    <3>2. \A t \in Slot : task'[t] = IF t = s THEN NewBody(w, e, g.attempts + 1, FALSE)
                                     ELSE task[t]
      BY <2>3 DEF Spawned, TypeOK
    <3>3. Dispatched(s, w)
      BY <1>6, <1>8, <2>3, <3>1, <3>2, AttemptsAssumption, SMT
         DEF Dispatched, NewBody
    <3> QED
      BY <3>2, <3>3 DEF QuietTask
  <2> QED
    BY <2>1, <2>2, <2>3
<1>11. HandOver(w)
  BY <1>3, <1>5, <1>6, <1>7, <1>8, <1>9, <1>10, SMT DEF HandOver, ActiveOn
<1> QED
  BY <1>11, HandOverOwnership

(* A new task of a live executor keeps dead processes empty.               *)
LEMMA SpawnAlive ==
    ASSUME OwnershipInv, NEW s \in Slot, NEW u, u.e \in Executor, Alive(u.e),
           task' = [task EXCEPT ![s] = u], flags' = flags,
           \A e \in Executor : sweep'[e] \subseteq sweep[e]
    PROVE  AliveInv'
<1>1. \A x \in Slot : task'[x] = IF x = s THEN u ELSE task[x]
  BY DEF OwnershipInv, TypeOK
<1> QED
  BY <1>1 DEF OwnershipInv, AliveInv, Alive

LEMMA OwnSettleStep ==
    ASSUME OwnershipInv, TypeOK', NEW s \in Slot, SettleStep(s)
    PROVE  OwnershipInv'
<1> USE DEF OwnershipInv
<1> DEFINE t == task[s]
           g == GenerationOf(t)
           won == ClaimMatches(g, row[t.w])
           claim == [g |-> g, cap |-> Cap(s), new |-> t.e]
<1>0. /\ t.pc = "settle" /\ t \in Task /\ ~Active(s) /\ t # Idle
      /\ t.w \in Workflow /\ t.e \in Executor /\ t.attempts \in Nat
      /\ Cap(s) \in Nat /\ Cap(s) <= MaxRecoveryAttempts /\ Cap(s) = t.cap
  <2>1. t.pc = "settle"
    BY DEF SettleStep, SettleStops, SettleAnswered, SettleFails
  <2> QED
    BY <2>1, TaskFields DEF CapInv, Active, Cap
<1>1. g.attempts = t.attempts /\ Claimant(t.w, g.attempts)
  BY <1>0 DEF GenerationOf, Claimant
<1>2. claim.cap = Cap(s) /\ claim.g.w = t.w /\ claim.g.attempts = t.attempts
  BY DEF GenerationOf
<1>a. GoesTo(s, Idle) /\ GoesTo(s, [t EXCEPT !.fails = @ + 1])
  BY <1>0 DEF GoesTo, Task, Idle
<1> HIDE DEF claim
<1>3. ASSUME NEW u, GoesTo(s, u), task' = [task EXCEPT ![s] = u],
             UNCHANGED <<sweep, resuming, flags, lateWrite>>,
             lateClaim' = lateClaim \/ lateClaim' = lateClaim \cup {claim},
             \/ row' = row
             \/ /\ won
                /\ row' = [row EXCEPT ![t.w] = ClaimForRecovery(g, Cap(s), t.e, @)]
      PROVE  OwnershipInv'
  <2>1. QuietTasks /\ AliveInv'
    BY <1>0, <1>3, OneTaskMoves
  <2>2. QuietClaims /\ QuietRest
    BY <1>0, <1>1, <1>2, <1>3 DEF QuietClaims, QuietRest
  <2>3. CASE row' = row
    BY <2>1, <2>2, <2>3, QuietOwnership DEF Quiet, QuietRows
  <2>4. CASE /\ won
             /\ row' = [row EXCEPT ![t.w] = ClaimForRecovery(g, Cap(s), t.e, @)]
    BY <1>0, <1>1, <2>1, <2>2, <2>4, ClaimWon
  <2> QED
    BY <1>3, <2>3, <2>4
<1>4. CASE SettleStops(s)
  BY <1>3, <1>4, <1>a DEF SettleStops
<1>5. CASE SettleAnswered(s)
  <2> DEFINE claimed == /\ won /\ ClaimOutcome(g, Cap(s)) = "claimed"
                        /\ ~t.old /\ flags[t.e] = {"alive"}
  <2>0. /\ UNCHANGED <<sweep, resuming, flags, lateWrite, lateClaim>>
        /\ won => row' = [row EXCEPT ![t.w] = ClaimForRecovery(g, Cap(s), t.e, @)]
        /\ ~won => row' = row
    BY <1>5 DEF SettleAnswered
  <2>1. CASE ~claimed
    <3>1. task' = [task EXCEPT ![s] = Idle]
      BY <1>5, <2>1 DEF SettleAnswered
    <3> QED
      BY <1>3, <1>a, <2>0, <3>1
  <2>2. CASE claimed
    <3> DEFINE u == NewBody(t.w, t.e, t.attempts + 1, FALSE)
    <3>1. task' = [task EXCEPT ![s] = u]
      BY <1>5, <2>2 DEF SettleAnswered
    <3>2. u.e = t.e
      BY DEF NewBody
    <3>3. AliveInv'
      <4> HIDE DEF u
      <4>1. Alive(t.e)
        BY <1>0 DEF AliveInv
      <4> QED
        BY <1>0, <2>0, <3>1, <3>2, <4>1, SpawnAlive
    <3>4. Spawned(s, t.w, t.e, g.attempts + 1)
      BY <1>0, <1>1, <3>1 DEF Spawned
    <3>5. QuietClaims /\ QuietRest
      BY <2>0 DEF QuietClaims, QuietRest
    <3> QED
      BY <1>0, <1>1, <2>0, <2>2, <3>3, <3>4, <3>5, ClaimWon
  <2> QED
    BY <2>1, <2>2
<1>6. ASSUME NEW fate \in {"lost", "never", "late"}, SettleFails(s, fate)
      PROVE  OwnershipInv'
  <2> DEFINE u == [t EXCEPT !.fails = @ + 1]
  <2>1. \/ task' = [task EXCEPT ![s] = Idle]
        \/ task' = [task EXCEPT ![s] = u]
    BY <1>6 DEF SettleFails
  <2>2. UNCHANGED <<sweep, resuming, flags, lateWrite>>
    BY <1>6 DEF SettleFails
  <2>3. lateClaim' = lateClaim \/ lateClaim' = lateClaim \cup {claim}
    BY <1>6 DEF SettleFails, claim
  <2>4. \/ row' = row
        \/ /\ won
           /\ row' = [row EXCEPT ![t.w] = ClaimForRecovery(g, Cap(s), t.e, @)]
    BY <1>6 DEF SettleFails
  <2>5. GoesTo(s, u)
    BY <1>a
  <2> HIDE DEF u, won
  <2> QED
    BY <1>3, <1>a, <2>1, <2>2, <2>3, <2>4, <2>5
<1> QED
  BY <1>4, <1>5, <1>6 DEF SettleStep

LEMMA OwnSweepClaims ==
    ASSUME OwnershipInv, TypeOK', NEW e \in Executor, NEW g \in sweep[e],
           \/ \E s \in Slot : SweepAnswered(e, g, s)
           \/ \E fate \in {"lost", "never", "late"} : SweepFails(e, g, fate)
    PROVE  OwnershipInv'
<1> USE DEF OwnershipInv
<1> DEFINE won == ClaimMatches(g, row[g.w])
           won_row == [row EXCEPT ![g.w] =
                          ClaimForRecovery(g, MaxRecoveryAttempts, e, @)]
           claim == [g |-> g, cap |-> MaxRecoveryAttempts, new |-> e]
<1>0. /\ g.w \in Workflow /\ g.attempts \in Nat
      /\ MaxRecoveryAttempts \in Nat
      /\ MaxRecoveryAttempts <= MaxRecoveryAttempts
  BY AttemptsAssumption, SMT DEF TypeOK, Generation
<1>1. Claimant(g.w, g.attempts)
  BY DEF Claimant
<1>2. Alive(e)
  BY DEF AliveInv
<1>3. ASSUME UNCHANGED <<task, resuming, flags, lateWrite>>,
             QuietClaims,
             row' = row \/ (won /\ row' = won_row)
      PROVE  OwnershipInv'
  <2>1. QuietTasks /\ QuietRest
    BY <1>3 DEF QuietTasks, QuietTask, QuietRest
  <2>2. AliveInv'
    BY <1>3 DEF AliveInv, Alive, QuietClaims
  <2>3. CASE row' = row
    BY <1>3, <2>1, <2>2, <2>3, QuietOwnership DEF Quiet, QuietRows
  <2>4. CASE won /\ row' = won_row
    BY <1>0, <1>1, <1>3, <2>1, <2>2, <2>4, ClaimWon
  <2> QED
    BY <1>3, <2>3, <2>4
<1>4. ASSUME NEW s \in Slot, SweepAnswered(e, g, s)
      PROVE  OwnershipInv'
  <2> DEFINE claims == g.queued \/ g.w \in Registered[e]
             claimed == /\ claims /\ won
                        /\ ClaimOutcome(g, MaxRecoveryAttempts) = "claimed"
  <2>1. /\ UNCHANGED <<resuming, flags, lateWrite, lateClaim>>
        /\ sweep' = [sweep EXCEPT ![e] = @ \ {g}]
        /\ claims /\ won => row' = won_row
        /\ ~(claims /\ won) => row' = row
    BY <1>4 DEF SweepAnswered
  <2>2. \A x \in Executor : sweep'[x] \subseteq sweep[x]
    BY <2>1 DEF TypeOK
  <2>3. QuietClaims /\ QuietRest
    BY <2>1, <2>2 DEF QuietClaims, QuietRest
  <2>4. CASE ~claimed
    <3>1. UNCHANGED task
      BY <1>4, <2>4 DEF SweepAnswered
    <3>2. row' = row \/ (won /\ row' = won_row)
      <4>1. CASE claims /\ won
        BY <2>1, <4>1
      <4>2. CASE ~(claims /\ won)
        <5>1. row' = row
          BY <2>1, <4>2
        <5> QED
          BY <5>1
      <4> QED
        BY <4>1, <4>2
    <3> HIDE DEF won, won_row
    <3> QED
      BY <1>3, <2>1, <2>3, <3>1, <3>2
  <2>5. CASE claimed
    <3> DEFINE u == NewBody(g.w, e, g.attempts + 1, FALSE)
    <3>1. task[s] = Idle /\ task' = [task EXCEPT ![s] = u]
      BY <1>4, <2>5 DEF SweepAnswered
    <3>2. u.e = e
      BY DEF NewBody
    <3>3. AliveInv'
      <4> HIDE DEF u
      <4> QED
        BY <1>2, <2>1, <2>2, <3>1, <3>2, SpawnAlive
    <3>4. Spawned(s, g.w, e, g.attempts + 1)
      BY <3>1, SMT DEF Spawned, Active, Idle
    <3> QED
      BY <1>0, <1>1, <2>1, <2>3, <2>5, <3>3, <3>4, ClaimWon
  <2> QED
    BY <2>4, <2>5
<1>5. ASSUME NEW fate \in {"lost", "never", "late"}, SweepFails(e, g, fate)
      PROVE  OwnershipInv'
  <2>1. /\ UNCHANGED <<task, resuming, flags, lateWrite>>
        /\ sweep' = [sweep EXCEPT ![e] = {}]
    BY <1>5 DEF SweepFails
  <2>a. row' = row \/ (won /\ row' = won_row)
    <3>1. CASE fate = "lost" /\ won
      BY <1>5, <3>1 DEF SweepFails
    <3>2. CASE ~(fate = "lost" /\ won)
      <4>1. row' = row
        BY <1>5, <3>2 DEF SweepFails
      <4> QED
        BY <4>1
    <3> QED
      BY <3>1, <3>2
  <2>2. \A x \in Executor : sweep'[x] \subseteq sweep[x]
    BY <2>1 DEF TypeOK
  <2>3. lateClaim' = lateClaim \/ lateClaim' = lateClaim \cup {claim}
    BY <1>5 DEF SweepFails
  <2>4. QuietClaims
    BY <1>0, <1>1, <2>2, <2>3, SMT DEF QuietClaims
  <2> HIDE DEF won, won_row
  <2> QED
    BY <1>3, <2>1, <2>4, <2>a
<1> QED
  BY <1>4, <1>5

LEMMA OwnLateStep ==
    ASSUME OwnershipInv, TypeOK', LateStep
    PROVE  OwnershipInv'
<1> USE DEF OwnershipInv
<1>0. /\ UNCHANGED <<task, sweep, resuming, flags>>
      /\ lateWrite' \subseteq lateWrite /\ lateClaim' \subseteq lateClaim
  BY DEF LateStep, LateWriteCommits, LateWriteDropped, LateClaimCommits,
         LateClaimDropped
<1>1. QuietTasks /\ QuietClaims /\ QuietRest /\ AliveInv'
  BY <1>0 DEF QuietTasks, QuietTask, QuietClaims, QuietRest, AliveInv, Alive
<1>2. CASE row' = row
  BY <1>1, <1>2, QuietOwnership DEF Quiet, QuietRows
<1>3. ASSUME NEW l \in lateWrite, LateWriteCommits(l), row' # row
      PROVE  OwnershipInv'
  <2>1. l.w \in Workflow /\ l.target \in Terminal
    BY DEF TypeOK, LateWrite
  <2>2. QuietRows
    BY <1>3, <2>1, TerminalWrite DEF LateWriteCommits
  <2> QED
    BY <1>1, <2>2, QuietOwnership DEF Quiet
<1>4. ASSUME NEW c \in lateClaim, LateClaimCommits(c), row' # row
      PROVE  OwnershipInv'
  <2>1. /\ c.g.w \in Workflow /\ c.g.attempts \in Nat /\ c.new \in Executor
        /\ c.cap \in Nat /\ c.cap <= MaxRecoveryAttempts
    BY DEF TypeOK, LateClaim, Generation, CapInv
  <2>2. Claimant(c.g.w, c.g.attempts)
    BY DEF Claimant
  <2>3. /\ ClaimMatches(c.g, row[c.g.w])
        /\ row' = [row EXCEPT ![c.g.w] = ClaimForRecovery(c.g, c.cap, c.new, @)]
    BY <1>4 DEF LateClaimCommits
  <2> QED
    BY <1>1, <2>1, <2>2, <2>3, ClaimWon
<1>5. CASE row' # row
  BY <1>3, <1>4, <1>5 DEF LateStep, LateWriteDropped, LateClaimDropped
<1> QED
  BY <1>2, <1>5

-----------------------------------------------------------------------------
(* Creation, dequeue and release.                                          *)

LEMMA FreshRow ==
    ASSUME OwnershipInv, NEW w \in Workflow, row[w] = NoRow
    PROVE  /\ ~ActiveOn(w)
           /\ \A n : ~Claimant(w, n)
           /\ \A o \in Operator : resuming[o] # w
<1>1. ~ActiveOn(w)
  BY DEF OwnershipInv, ActiveInv, ActiveOn
<1>2. \A n : ~Claimant(w, n)
  BY ClaimInvClaimant DEF OwnershipInv, ClaimsBehind, Behind
<1>3. \A o \in Operator : resuming[o] # w
  BY SMT DEF OwnershipInv, ResumeInv, NoRow
<1> QED
  BY <1>1, <1>2, <1>3

(* One row handed over while the claims, late calls and resumes stay.      *)
LEMMA HandOverOne ==
    ASSUME OwnershipInv, TypeOK', AliveInv', NEW w \in Workflow, NEW r,
           row' = [row EXCEPT ![w] = r], r # NoRow, WithinBudget(r),
           ~ActiveOn(w), \A n : Claimant(w, n) => n < r.attempts,
           \A o \in Operator : resuming[o] # w,
           UNCHANGED <<sweep, resuming, lateWrite, lateClaim>>,
           \/ UNCHANGED task
           \/ \E s \in Slot : /\ \A t \in Slot \ {s} : task'[t] = task[t]
                              /\ Dispatched(s, w)
    PROVE  OwnershipInv'
<1> USE DEF OwnershipInv
<1>1. row'[w] = r /\ \A x \in Workflow \ {w} : row'[x] = row[x]
  BY DEF TypeOK
<1>2. QuietClaims /\ QuietRest
  BY DEF QuietClaims, QuietRest
<1>3. /\ \A s \in Slot : QuietTask(s) \/ Dispatched(s, w)
      /\ \A s, t \in Slot : Dispatched(s, w) /\ Dispatched(t, w) => s = t
  <2>1. ASSUME NEW s \in Slot, task'[s] = task[s], Dispatched(s, w)
        PROVE  FALSE
    BY <2>1 DEF Dispatched, Active, ActiveOn
  <2> QED
    BY <2>1 DEF QuietTask
<1>4. HandOver(w)
  BY <1>1, <1>2, <1>3 DEF HandOver, ActiveOn
<1> QED
  BY <1>4, HandOverOwnership

LEMMA OwnDispatchStep ==
    ASSUME OwnershipInv, TypeOK', NEW e \in Executor, DispatchStep(e)
    PROVE  OwnershipInv'
<1> USE DEF OwnershipInv
<1>0. PICK w \in Workflow, s \in Slot, fate \in {"ok", "lost"} :
          Start(e, w, s, fate) \/ Dequeue(e, w, s, fate)
  BY DEF DispatchStep
<1>1. /\ UNCHANGED <<sweep, resuming, flags, lateWrite, lateClaim>>
      /\ Alive(e)
  BY <1>0 DEF Start, Dequeue, Alive, Dispatching
<1>2. ASSUME UNCHANGED task
      PROVE  AliveInv'
  BY <1>1, <1>2 DEF AliveInv, Alive
<1>3. ASSUME NEW u, u.e = e, task' = [task EXCEPT ![s] = u]
      PROVE  /\ AliveInv'
             /\ task'[s] = u
             /\ \A t \in Slot \ {s} : task'[t] = task[t]
  BY <1>1, <1>3, SpawnAlive DEF TypeOK
<1>4. CASE Start(e, w, s, fate)
  <2> DEFINE r == [status |-> "PENDING", exec |-> e, attempts |-> 0,
                   queued |-> FALSE, value |-> NoValue]
             u == NewBody(w, e, 0, FALSE)
  <2>1. row[w] = NoRow /\ row' = [row EXCEPT ![w] = r]
    BY <1>4 DEF Start
  <2>2. r # NoRow /\ WithinBudget(r) /\ r.attempts = 0
    BY AttemptsAssumption, SMT DEF NoRow, WithinBudget
  <2>3. row'[w] = r
    BY <2>1 DEF TypeOK
  <2>4. CASE fate = "ok"
    <3>1. task' = [task EXCEPT ![s] = u]
      BY <1>4, <2>4 DEF Start
    <3>2. u.e = e
      BY DEF NewBody
    <3>3. /\ AliveInv' /\ task'[s] = u
          /\ \A t \in Slot \ {s} : task'[t] = task[t]
      <4> HIDE DEF u
      <4> QED
        BY <1>3, <3>1, <3>2
    <3>4. Dispatched(s, w)
      BY <2>3, <3>3, AttemptsAssumption, SMT DEF Dispatched, NewBody
    <3> HIDE DEF r, u
    <3> QED
      BY <1>1, <2>1, <2>2, <3>3, <3>4, FreshRow, HandOverOne
  <2>5. CASE fate # "ok"
    <3>1. UNCHANGED task
      BY <1>4, <2>5 DEF Start
    <3> HIDE DEF r
    <3> QED
      BY <1>1, <1>2, <2>1, <2>2, <3>1, FreshRow, HandOverOne
  <2> QED
    BY <2>4, <2>5
<1>5. CASE Dequeue(e, w, s, fate)
  <2> DEFINE r == DequeueRow(row[w], e)
             pc == IF w \in Registered[e] THEN "body" ELSE "release"
             u == [NewBody(w, e, row[w].attempts, TRUE) EXCEPT !.pc = pc]
  <2>1. row[w].status = "ENQUEUED" /\ row' = [row EXCEPT ![w] = r]
    BY <1>5 DEF Dequeue
  <2>2. row[w] # NoRow /\ row[w] \in Row /\ row[w].attempts \in Nat
    BY <2>1, Present, RowFields, StatusNames
  <2>3. /\ r # NoRow /\ r.attempts = row[w].attempts /\ r.exec = e
        /\ r.status = "PENDING"
    BY <2>2 DEF DequeueRow, Row, NoRow
  <2>4. row[w].attempts <= MaxRecoveryAttempts /\ WithinBudget(r)
    BY <2>1, <2>2, <2>3, AttemptsAssumption, SMT DEF RecoveryBudget, WithinBudget
  <2>5. ~ActiveOn(w)
    BY <2>1 DEF ActiveInv, ActiveOn
  <2>6. \A n : Claimant(w, n) => n < r.attempts
    BY <2>1, <2>2, <2>3, ClaimantTypes, ClaimInvClaimant, SMT
       DEF ClaimsTyped, ClaimsBehind, Behind
  <2>7. \A o \in Operator : resuming[o] # w
    BY <2>1 DEF ResumeInv
  <2>8. row'[w] = r
    BY <2>1 DEF TypeOK
  <2>9. CASE fate = "ok"
    <3>1. task' = [task EXCEPT ![s] = u]
      BY <1>5, <2>9 DEF Dequeue
    <3>2. /\ u.e = e /\ u.w = w /\ u.attempts = row[w].attempts
          /\ u.cap = MaxRecoveryAttempts /\ u.pc \in {"body", "release"}
      BY DEF NewBody
    <3> HIDE DEF u, r
    <3>3. /\ AliveInv' /\ task'[s] = u
          /\ \A t \in Slot \ {s} : task'[t] = task[t]
      BY <1>3, <3>1, <3>2
    <3>4. Dispatched(s, w)
      BY <2>3, <2>4, <2>8, <3>2, <3>3, AttemptsAssumption, SMT DEF Dispatched
    <3> QED
      BY <1>1, <2>1, <2>3, <2>4, <2>5, <2>6, <2>7, <3>3, <3>4, HandOverOne
  <2>10. CASE fate # "ok"
    <3>1. UNCHANGED task
      BY <1>5, <2>10 DEF Dequeue
    <3> HIDE DEF r
    <3> QED
      BY <1>1, <1>2, <2>1, <2>3, <2>4, <2>5, <2>6, <2>7, <3>1, HandOverOne
  <2> QED
    BY <2>9, <2>10
<1> QED
  BY <1>0, <1>4, <1>5

LEMMA OwnRelease ==
    ASSUME OwnershipInv, TypeOK', NEW s \in Slot, NEW fate, Release(s, fate)
    PROVE  OwnershipInv'
<1> USE DEF OwnershipInv
<1> DEFINE w == task[s].w
           r == [row[w] EXCEPT !.status = "ENQUEUED"]
<1>0. /\ task[s].pc = "release" /\ Active(s) /\ w \in Workflow
      /\ task[s].attempts <= MaxRecoveryAttempts
      /\ task' = [task EXCEPT ![s] = Idle]
      /\ UNCHANGED <<sweep, resuming, flags, lateWrite, lateClaim>>
  BY TaskFields DEF Release, Active, CapInv
<1>1. QuietTasks /\ AliveInv' /\ QuietClaims /\ QuietRest
  <2>1. GoesTo(s, Idle)
    BY DEF GoesTo
  <2> QED
    BY <1>0, <2>1, OneTaskMoves DEF QuietClaims, QuietRest
<1>2. CASE row' = row
  BY <1>1, <1>2, QuietOwnership DEF Quiet, QuietRows
<1>3. CASE row' # row
  <2>1. row' = [row EXCEPT ![w] = r]
    BY <1>3 DEF Release
  <2>2. /\ row[w] # NoRow /\ row[w] \in Row /\ row[w].attempts = task[s].attempts
        /\ row[w].attempts \in Nat
    BY <1>0, RowFields DEF ActiveInv
  <2>3. r # NoRow /\ r.attempts = row[w].attempts /\ r.status = "ENQUEUED"
    BY <2>2 DEF Row, NoRow
  <2>4. row'[w] = r /\ \A x \in Workflow \ {w} : row'[x] = row[x]
    BY <1>0, <2>1 DEF TypeOK
  <2>5. WithinBudget(r)
    BY <1>0, <2>2, <2>3, AttemptsAssumption, SMT DEF WithinBudget
  <2>6. \A x \in Slot : Active(x) /\ task[x].w = w => x = s
    BY <1>0 DEF OneActive
  <2>7. \A n : Claimant(w, n) => n < row[w].attempts
    BY <1>0, <2>2, ClaimantTypes, ClaimInvClaimant, SMT
       DEF ClaimsTyped, ClaimsBehind, Behind, ActiveOn
  <2>8. \A o \in Operator : resuming'[o] # w
    BY <1>0 DEF ResumeInv, ActiveOn
  <2>9. task'[s] = Idle
    BY <1>0 DEF TypeOK
  <2>10. \A x \in Slot : ~Dispatched(x, w)
    BY <2>3, <2>4 DEF Dispatched
  <2> HIDE DEF r, w
  <2>11. HandOver(w)
    BY <1>1, <2>3, <2>4, <2>5, <2>6, <2>7, <2>8, <2>9, <2>10
       DEF HandOver, QuietTasks
  <2> QED
    BY <1>0, <1>1, <2>11, HandOverOwnership
<1> QED
  BY <1>2, <1>3

-----------------------------------------------------------------------------
(* Operators.                                                              *)

(* A row that nobody has in hand may be rewritten, or removed.             *)
LEMMA UntouchedRow ==
    ASSUME OwnershipInv, TypeOK', NEW w \in Workflow, NEW r,
           row' = [row EXCEPT ![w] = r], r # NoRow => WithinBudget(r),
           ~ActiveOn(w), ~ClaimDue(w),
           UNCHANGED <<task, sweep, flags, lateClaim>>
    PROVE  /\ ActiveInv' /\ OneActive' /\ ClaimInv' /\ AliveInv' /\ CapInv'
           /\ RecoveryBudget'
           /\ \A x : ActiveOn(x)' <=> ActiveOn(x)
           /\ \A x : ClaimDue(x)' <=> ClaimDue(x)
<1> USE DEF OwnershipInv
<1>1. row'[w] = r /\ \A x \in Workflow \ {w} : row'[x] = row[x]
  BY DEF TypeOK
<1>2. \A x : ActiveOn(x)' <=> ActiveOn(x)
  BY DEF ActiveOn, Active
<1>3. \A x, n : Claimant(x, n)' <=> Claimant(x, n)
  BY DEF Claimant
<1>4. ActiveInv' /\ OneActive'
  BY <1>1, ActiveFields, SMT DEF ActiveInv, OneActive, Active, ActiveOn
<1>5. ClaimInv'
  <2>1. ASSUME NEW x, NEW n, Claimant(x, n)
        PROVE  Behind(x, n)'
    <3>1. x \in Workflow /\ x # w /\ Behind(x, n)
      BY <2>1, ClaimantTypes, ClaimInvClaimant, ClaimDueClaimant
         DEF ClaimsTyped, ClaimsBehind
    <3> QED
      BY <1>1, <1>2, <3>1 DEF Behind
  <2>2. (ClaimInv <=> ClaimsBehind)'
    BY ClaimInvClaimant, PTL
  <2> QED
    BY <1>3, <2>1, <2>2 DEF ClaimsBehind
<1>6. AliveInv' /\ CapInv'
  BY DEF AliveInv, Alive, CapInv
<1>7. RecoveryBudget'
  BY <1>1 DEF RecoveryBudget, WithinBudget
<1>8. \A x : ClaimDue(x)' <=> ClaimDue(x)
  BY DEF ClaimDue, SettlingOn
<1> QED
  BY <1>2, <1>4, <1>5, <1>6, <1>7, <1>8

LEMMA OwnOperatorStep ==
    ASSUME AllRules, OwnershipInv, TypeOK', OperatorStep
    PROVE  OwnershipInv'
<1> USE DEF OwnershipInv
<1>1. ASSUME NEW w \in Workflow, Enqueue(w)
      PROVE  OwnershipInv'
  <2> DEFINE r == [status |-> "ENQUEUED", exec |-> Unowned, attempts |-> 0,
                   queued |-> TRUE, value |-> NoValue]
  <2>1. /\ row[w] = NoRow /\ row' = [row EXCEPT ![w] = r]
        /\ UNCHANGED <<task, sweep, resuming, flags, lateWrite, lateClaim>>
    BY <1>1 DEF Enqueue
  <2>2. r # NoRow /\ WithinBudget(r)
    BY AttemptsAssumption, SMT DEF NoRow, WithinBudget
  <2>3. AliveInv'
    BY <2>1 DEF AliveInv, Alive
  <2> HIDE DEF r
  <2> QED
    BY <2>1, <2>2, <2>3, FreshRow, HandOverOne
<1>2. ASSUME NEW w \in Workflow, Cancel(w)
      PROVE  OwnershipInv'
  <2> DEFINE r == CancelRow(row[w])
  <2>1. /\ row[w] # NoRow /\ row' = [row EXCEPT ![w] = r]
        /\ UNCHANGED <<task, sweep, resuming, flags, lateWrite, lateClaim>>
    BY <1>2 DEF Cancel
  <2>2. /\ r # NoRow /\ r.exec = row[w].exec /\ r.attempts = row[w].attempts
        /\ r.status = "CANCELLED"
    BY <2>1, RowFields DEF CancelRow, Row, NoRow
  <2>3. row'[w] = r /\ \A x \in Workflow \ {w} : row'[x] = row[x]
    BY <2>1 DEF TypeOK
  <2> HIDE DEF r
  <2>4. QuietRows
    BY <2>1, <2>2, <2>3 DEF QuietRows
  <2>5. Quiet /\ AliveInv'
    BY <2>1, <2>4 DEF Quiet, QuietTasks, QuietTask, QuietClaims, QuietRest,
       AliveInv, Alive
  <2> QED
    BY <2>5, QuietOwnership
<1>3. ASSUME NEW w \in Workflow, Delete(w)
      PROVE  OwnershipInv'
  <2>1. /\ row' = [row EXCEPT ![w] = NoRow]
        /\ UNCHANGED <<task, sweep, resuming, flags, lateWrite, lateClaim>>
        /\ ~ActiveOn(w) /\ ~ClaimDue(w) /\ ~Resuming(w)
    BY <1>3 DEF Delete, MayDelete, Stopped, AllRules, Rules
  <2>2. \A x \in Workflow \ {w} : row'[x] = row[x]
    BY <2>1 DEF TypeOK
  <2>3. /\ ActiveInv' /\ OneActive' /\ ClaimInv' /\ AliveInv' /\ CapInv'
        /\ RecoveryBudget'
        /\ \A x : ActiveOn(x)' <=> ActiveOn(x)
        /\ \A x : ClaimDue(x)' <=> ClaimDue(x)
    BY <2>1, UntouchedRow
  <2>4. ResumeInv'
    BY <2>1, <2>2, <2>3, SMT DEF ResumeInv, Resuming
  <2> QED
    BY <2>3, <2>4
<1>4. ASSUME NEW w \in Workflow, HandleResult(w)
      PROVE  OwnershipInv'
  BY <1>4, QuietOwnership DEF HandleResult, Quiet, QuietTasks, QuietTask,
     QuietRows, QuietClaims, QuietRest, AliveInv, Alive
<1>5. ASSUME NEW o \in Operator, NEW w \in Workflow, ResumeReopens(o, w)
      PROVE  OwnershipInv'
  <2> DEFINE r == ResumeRow(row[w])
  <2>1. /\ row' = [row EXCEPT ![w] = r] /\ row[w] # NoRow
        /\ UNCHANGED <<task, sweep, flags, lateWrite, lateClaim>>
        /\ resuming' = [resuming EXCEPT ![o] = w]
        /\ ~ActiveOn(w) /\ ~ClaimDue(w) /\ ~Resuming(w)
        /\ \A l \in lateWrite : l.w # w
    BY <1>5 DEF ResumeReopens, MayResume, Stopped, AllRules, Rules
  <2>2. r.status = "PENDING" /\ r.attempts = 0 /\ WithinBudget(r)
    BY <2>1, RowFields, AttemptsAssumption, SMT DEF ResumeRow, Row, WithinBudget
  <2>3. row'[w] = r /\ \A x \in Workflow \ {w} : row'[x] = row[x]
    BY <2>1 DEF TypeOK
  <2>4. \A p \in Operator : resuming'[p] = IF p = o THEN w ELSE resuming[p]
    BY <2>1 DEF TypeOK
  <2> HIDE DEF r
  <2>5. /\ ActiveInv' /\ OneActive' /\ ClaimInv' /\ AliveInv' /\ CapInv'
        /\ RecoveryBudget'
        /\ \A x : ActiveOn(x)' <=> ActiveOn(x)
        /\ \A x : ClaimDue(x)' <=> ClaimDue(x)
    BY <2>1, <2>2, UntouchedRow
  <2>6. ResumeInv'
    BY <2>1, <2>2, <2>3, <2>4, <2>5, SMT DEF ResumeInv, Resuming
  <2> QED
    BY <2>5, <2>6
<1>6. ASSUME NEW o \in Operator, ResumeEnqueues(o)
      PROVE  OwnershipInv'
  <2>0. PICK w \in Workflow : w = resuming[o]
    BY <1>6 DEF ResumeEnqueues, TypeOK
  <2> DEFINE r == EnqueueExisting(row[w])
  <2>1. /\ row[w].status \in {"PENDING", "CANCELLED"} /\ row[w].attempts = 0
        /\ ~ActiveOn(w) /\ ~ClaimDue(w)
        /\ \A p \in Operator : resuming[p] = w => p = o
    BY <2>0 DEF ResumeInv
  <2>2. row[w] # NoRow /\ row[w] \in Row
    BY <2>1, Present, StatusNames DEF Status
  <2>3. /\ row' = [row EXCEPT ![w] = r]
        /\ resuming' = [resuming EXCEPT ![o] = NoWorkflow]
        /\ UNCHANGED <<task, sweep, flags, lateWrite, lateClaim>>
    BY <1>6, <2>0, <2>2 DEF ResumeEnqueues
  <2>4. r # NoRow /\ r.status = "ENQUEUED" /\ r.attempts = 0
    BY <2>1, <2>2 DEF EnqueueExisting, Row, NoRow
  <2>5. WithinBudget(r)
    BY <2>4, AttemptsAssumption, SMT DEF WithinBudget
  <2>6. row'[w] = r /\ \A x \in Workflow \ {w} : row'[x] = row[x]
    BY <2>3 DEF TypeOK
  <2>7. \A p \in Operator : resuming'[p] = IF p = o THEN NoWorkflow ELSE resuming[p]
    BY <2>3 DEF TypeOK
  <2> HIDE DEF r
  <2>8. /\ ActiveInv' /\ OneActive' /\ ClaimInv' /\ AliveInv' /\ CapInv'
        /\ RecoveryBudget'
        /\ \A x : ActiveOn(x)' <=> ActiveOn(x)
        /\ \A x : ClaimDue(x)' <=> ClaimDue(x)
    BY <2>1, <2>3, <2>5, UntouchedRow
  <2>9. ResumeInv'
    BY <2>1, <2>3, <2>6, <2>7, <2>8, NameAssumption, SMT DEF ResumeInv
  <2> QED
    BY <2>8, <2>9
<1>7. ASSUME NEW o \in Operator, ResumeBreaksOff(o)
      PROVE  OwnershipInv'
  <2>1. /\ resuming' = [resuming EXCEPT ![o] = NoWorkflow]
        /\ UNCHANGED <<row, task, sweep, flags, lateWrite, lateClaim>>
    BY <1>7 DEF ResumeBreaksOff
  <2>2. \A p \in Operator : resuming'[p] = resuming[p] \/ resuming'[p] = NoWorkflow
    BY <2>1 DEF TypeOK
  <2>3. Quiet /\ AliveInv'
    BY <2>1, <2>2 DEF Quiet, QuietTasks, QuietTask, QuietRows, QuietClaims,
       QuietRest, AliveInv, Alive
  <2> QED
    BY <2>3, QuietOwnership
<1> QED
  BY <1>1, <1>2, <1>3, <1>4, <1>5, <1>6, <1>7 DEF OperatorStep

-----------------------------------------------------------------------------
(* Listings, and what happens to processes.                                *)

(* A listing reads generations off rows that nobody has in hand, so every  *)
(* claim it leads to starts level with its row.                            *)
LEMMA OwnListing ==
    ASSUME OwnershipInv, TypeOK', AliveInv', NEW e \in Executor, NEW execs,
           NEW L, L \subseteq Listed(execs),
           \A g \in L : ~ActiveOn(g.w) /\ ~Resuming(g.w),
           sweep' = [sweep EXCEPT ![e] = L], \A s \in Slot : SameTask(s),
           UNCHANGED <<row, resuming, lateWrite, lateClaim>>
    PROVE  OwnershipInv'
<1> USE DEF OwnershipInv
<1>0. \A s \in Slot :
          /\ task'[s].pc = task[s].pc /\ task'[s].w = task[s].w
          /\ task'[s].e = task[s].e /\ task'[s].attempts = task[s].attempts
          /\ task'[s].cap = task[s].cap /\ (task'[s] # Idle <=> task[s] # Idle)
  BY DEF SameTask
<1>1. \A f \in Executor : sweep'[f] = IF f = e THEN L ELSE sweep[f]
  BY DEF TypeOK
<1>2. \A x : ActiveOn(x)' <=> ActiveOn(x)
  BY <1>0 DEF ActiveOn, Active
<1>3. \A g \in L : /\ g.w \in Workflow /\ row[g.w].status = "PENDING"
                   /\ g.attempts = row[g.w].attempts
  BY SMT DEF Listed
<1>4. \A g \in L : Behind(g.w, g.attempts)
  <2> SUFFICES ASSUME NEW g \in L PROVE Behind(g.w, g.attempts)
    OBVIOUS
  <2>1. row[g.w] # NoRow /\ row[g.w] \in Row
    BY <1>3, Present, StatusNames DEF Status
  <2> QED
    BY <1>3, <2>1, SMT DEF Behind, Row
<1>5. \A x, n : Behind(x, n)' <=> Behind(x, n)
  BY <1>2 DEF Behind
<1>6. ClaimInv'
  <2>1. \A s \in Slot : task'[s].pc = "settle" =>
            Behind(task[s].w, task[s].attempts)'
    <3> SUFFICES ASSUME NEW s \in Slot, task'[s].pc = "settle"
                 PROVE  Behind(task[s].w, task[s].attempts)'
      OBVIOUS
    <3>1. Behind(task[s].w, task[s].attempts)
      BY <1>0 DEF ClaimInv
    <3> QED
      BY <1>0, <1>2, <3>1 DEF Behind
  <2>2. \A f \in Executor : \A g \in sweep'[f] : Behind(g.w, g.attempts)'
    BY <1>1, <1>4, <1>5 DEF ClaimInv
  <2>3. \A c \in lateClaim' : Behind(c.g.w, c.g.attempts)'
    BY <1>5 DEF ClaimInv
  <2> QED
    BY <2>1, <2>2, <2>3 DEF ClaimInv
<1>a. \A s \in Slot : Active(s)' <=> Active(s)
  BY <1>0 DEF Active
<1>b. ActiveInv'
  <2> SUFFICES ASSUME NEW s \in Slot, Active(s)
               PROVE  LET r == row'[task'[s].w] IN
                      /\ r # NoRow
                      /\ r.status # "ENQUEUED"
                      /\ r.exec = task'[s].e
                      /\ r.attempts = task'[s].attempts
    BY <1>a DEF ActiveInv
  <2>1. /\ row[task[s].w] # NoRow
        /\ row[task[s].w].status # "ENQUEUED"
        /\ row[task[s].w].exec = task[s].e
        /\ row[task[s].w].attempts = task[s].attempts
    BY DEF ActiveInv
  <2> QED
    BY <1>0, <2>1
<1>c. OneActive'
  BY <1>0, <1>a DEF OneActive
<1>d. CapInv'
  BY <1>0 DEF CapInv
<1>7. ActiveInv' /\ OneActive' /\ CapInv' /\ RecoveryBudget'
  BY <1>b, <1>c, <1>d DEF RecoveryBudget
<1>8. ResumeInv'
  <2> SUFFICES ASSUME NEW w \in Workflow, NEW o \in Operator, resuming[o] = w
               PROVE  ~ClaimDue(w)'
    BY <1>2 DEF ResumeInv
  <2>1. ~ClaimDue(w)
    BY DEF ResumeInv
  <2>2. \A g \in L : g.w # w
    BY DEF Resuming
  <2> QED
    <3>1. ~SettlingOn(w)'
      BY <1>0, <2>1 DEF ClaimDue, SettlingOn
    <3>2. \A f \in Executor : \A g \in sweep'[f] : g.w # w
      BY <1>1, <2>1, <2>2 DEF ClaimDue
    <3>3. \A c \in lateClaim' : c.g.w # w
      BY <2>1 DEF ClaimDue
    <3> QED
      BY <3>1, <3>2, <3>3 DEF ClaimDue
<1> QED
  BY <1>6, <1>7, <1>8

LEMMA OwnSweepStep ==
    ASSUME AllRules, OwnershipInv, TypeOK', NEW e \in Executor, SweepStep(e)
    PROVE  OwnershipInv'
<1> USE DEF OwnershipInv
<1>1. ASSUME NEW execs \in SUBSET (Executor \cup {Unowned}),
             RecoverPendingFor(e, execs)
      PROVE  OwnershipInv'
  <2>1. /\ sweep' = [sweep EXCEPT ![e] = Listed(execs)] /\ Alive(e)
        /\ UNCHANGED <<row, task, resuming, flags, lateWrite, lateClaim>>
        /\ \A g \in Listed(execs) : ~ActiveOn(g.w) /\ ~Resuming(g.w)
    BY <1>1 DEF RecoverPendingFor, MayList, Stopped, AllRules, Rules
  <2>2. AliveInv'
    BY <2>1 DEF AliveInv, Alive, TypeOK
  <2> QED
    BY <2>1, <2>2, OwnListing DEF SameTask
<1>2. ASSUME NEW g \in sweep[e], NEW s \in Slot, SweepAnswered(e, g, s)
      PROVE  OwnershipInv'
  BY <1>2, OwnSweepClaims
<1>3. ASSUME NEW g \in sweep[e], NEW fate \in {"lost", "never", "late"},
             SweepFails(e, g, fate)
      PROVE  OwnershipInv'
  BY <1>3, OwnSweepClaims
<1>4. ASSUME SweepStops(e)
      PROVE  OwnershipInv'
  <2>1. /\ sweep' = [sweep EXCEPT ![e] = {}]
        /\ UNCHANGED <<row, task, resuming, flags, lateWrite, lateClaim>>
    BY <1>4 DEF SweepStops
  <2>2. AliveInv'
    BY <2>1 DEF AliveInv, Alive, TypeOK
  <2> QED
    BY <2>1, <2>2, OwnListing DEF SameTask
<1> QED
  BY <1>1, <1>2, <1>3, <1>4 DEF SweepStep

LEMMA OwnProcessStep ==
    ASSUME AllRules, OwnershipInv, TypeOK', NEW e \in Executor, ProcessStep(e)
    PROVE  OwnershipInv'
<1> USE DEF OwnershipInv
<1>0. \A s \in Slot : task[s] # Idle => task[s].e \in Executor
  BY DEF TypeOK, Task
<1>1. ASSUME Crash(e)
      PROVE  OwnershipInv'
  <2>1. /\ task' = [s \in Slot |-> IF s \in TasksOf(e) THEN Idle ELSE task[s]]
        /\ sweep' = [sweep EXCEPT ![e] = {}]
        /\ flags' = [flags EXCEPT ![e] = {}]
        /\ UNCHANGED <<row, resuming, lateWrite, lateClaim>>
    BY <1>1 DEF Crash
  <2>2. \A s \in Slot : task'[s] = Idle \/ (task'[s] = task[s] /\ s \notin TasksOf(e))
    BY <2>1
  <2>3. \A f \in Executor : /\ sweep'[f] = IF f = e THEN {} ELSE sweep[f]
                            /\ f # e => flags'[f] = flags[f]
    BY <2>1 DEF TypeOK
  <2>4. AliveInv'
    BY <1>0, <2>2, <2>3, SMT DEF AliveInv, Alive, TasksOf
  <2>5. Quiet
    BY <2>1, <2>2, <2>3, SMT DEF Quiet, QuietTasks, QuietTask, QuietRows,
       QuietClaims, QuietRest
  <2> QED
    BY <2>4, <2>5, QuietOwnership
<1>2. ASSUME NEW recover \in BOOLEAN, Launch(e, recover)
      PROVE  OwnershipInv'
  <2> DEFINE left == IF recover THEN Listed({e}) ELSE {}
  <2>1. /\ sweep' = [sweep EXCEPT ![e] = left]
        /\ flags' = [flags EXCEPT ![e] = {"alive"}]
        /\ UNCHANGED <<row, resuming, lateWrite, lateClaim>>
        /\ \A g \in left : ~Resuming(g.w)
        /\ \A g \in left : \A s \in TasksOf(e) : Active(s) => task[s].w # g.w
    BY <1>2 DEF Launch, AllRules, Rules
  <2>2. left \subseteq Listed({e})
    OBVIOUS
  <2>s. \A s \in Slot : SameTask(s)
    BY <1>2, LaunchTasks
  <2>a. \A s \in Slot : task'[s].e = task[s].e /\ (task'[s] # Idle <=> task[s] # Idle)
    BY <2>s DEF SameTask
  <2>3. AliveInv'
    BY <2>1, <2>a, SMT DEF AliveInv, Alive, TypeOK
  <2>4. \A g \in left : \A s \in Slot :
            Active(s) /\ task[s].w = g.w => task[s].e # e
    BY <2>1, ActiveFields DEF TasksOf
  <2>5. \A g \in left : row[g.w].exec = e
    BY SMT DEF Listed
  <2>6. \A g \in left : ~ActiveOn(g.w)
    BY <2>4, <2>5 DEF ActiveInv, ActiveOn
  <2> HIDE DEF left
  <2> QED
    BY <2>1, <2>2, <2>3, <2>6, <2>s, OwnListing
<1>3. ASSUME Deactivate(e) \/ Shutdown(e)
      PROVE  OwnershipInv'
  <2>1. /\ \A f \in Executor : flags[f] \subseteq flags'[f]
        /\ UNCHANGED <<row, task, sweep, resuming, lateWrite, lateClaim>>
    BY <1>3, SMT DEF Deactivate, Shutdown, TypeOK
  <2>2. AliveInv'
    BY <1>0, <2>1 DEF AliveInv, Alive
  <2>3. Quiet
    BY <2>1 DEF Quiet, QuietTasks, QuietTask, QuietRows, QuietClaims, QuietRest
  <2> QED
    BY <2>2, <2>3, QuietOwnership
<1> QED
  BY <1>1, <1>2, <1>3 DEF ProcessStep

-----------------------------------------------------------------------------
(* The theorems.                                                           *)

LEMMA OwnInit ==
    ASSUME Init PROVE OwnershipInv
<1>1. TypeOK
  BY DEF Init, TypeOK
<1>2. \A s \in Slot : task[s] = Idle
  BY DEF Init
<1>3. ActiveInv /\ OneActive /\ AliveInv /\ CapInv
  BY <1>2 DEF Init, ActiveInv, OneActive, Active, Idle, AliveInv, CapInv
<1>4. ClaimInv
  BY <1>2 DEF Init, ClaimInv, Idle
<1>5. ResumeInv /\ RecoveryBudget
  BY NameAssumption DEF Init, ResumeInv, RecoveryBudget
<1> QED
  BY <1>1, <1>3, <1>4, <1>5 DEF OwnershipInv

LEMMA OwnStutter ==
    ASSUME OwnershipInv, UNCHANGED vars PROVE OwnershipInv'
<1> USE DEF vars
<1>1. TypeOK' /\ ActiveInv' /\ OneActive'
  BY DEF OwnershipInv, TypeOK, ActiveInv, OneActive, Active
<1>2. ClaimInv' /\ AliveInv'
  BY DEF OwnershipInv, ClaimInv, Behind, Active, ActiveOn, AliveInv, Alive
<1>3. ResumeInv'
  BY SMT DEF OwnershipInv, ResumeInv, Active, ActiveOn, ClaimDue, SettlingOn
<1>4. CapInv' /\ RecoveryBudget'
  BY DEF OwnershipInv, CapInv, RecoveryBudget
<1> QED
  BY <1>1, <1>2, <1>3, <1>4 DEF OwnershipInv

(* Ownership of rows, for any number of workflows, executors, tasks and    *)
(* operators: when callers keep the operating Rules, an execution that is  *)
(* running, writing its outcome or releasing its claim carries the row's   *)
(* own generation, no other does, and every claim still in flight is       *)
(* behind it.                                                              *)
THEOREM OwnershipInvariant ==
    ASSUME AllRules, NoLateCheckpoint PROVE Spec => []OwnershipInv
<1>1. Init => OwnershipInv
  BY OwnInit
<1>2. OwnershipInv /\ TypeOK' /\ [Next]_vars => OwnershipInv'
  <2> SUFFICES ASSUME OwnershipInv, TypeOK', [Next]_vars PROVE OwnershipInv'
    OBVIOUS
  <2>1. ASSUME NEW s \in Slot, BodyStep(s) \/ OutcomeStep(s) \/ SettleStep(s)
        PROVE  OwnershipInv'
    BY <2>1, OwnBodyStep, OwnOutcomeStep, OwnSettleStep
  <2>2. ASSUME NEW s \in Slot, NEW fate \in {"ok", "never"}, Release(s, fate)
        PROVE  OwnershipInv'
    BY <2>2, OwnRelease
  <2>3. ASSUME NEW e \in Executor,
               DispatchStep(e) \/ SweepStep(e) \/ ProcessStep(e)
        PROVE  OwnershipInv'
    BY <2>3, OwnDispatchStep, OwnSweepStep, OwnProcessStep
  <2>4. CASE OperatorStep
    BY <2>4, OwnOperatorStep
  <2>5. CASE LateStep
    BY <2>5, OwnLateStep
  <2>6. CASE UNCHANGED vars
    BY <2>6, OwnStutter
  <2>7. ~LateCheckpointStep
    BY DEF NoLateCheckpoint, LateCheckpointStep
  <2> QED
    BY <2>1, <2>2, <2>3, <2>4, <2>5, <2>6, <2>7 DEF Next
<1> QED
  BY <1>1, <1>2, TypeCorrect, PTL DEF Spec

(* No two executions of one workflow run at once, on any executors: the    *)
(* execution-layers document's first runtime invariant, from the claim CAS *)
(* and the operating Rules.                                                *)
THEOREM OneExecution ==
    ASSUME AllRules, NoLateCheckpoint PROVE Spec => []OneLiveExecution
<1>1. OwnershipInv => OneLiveExecution
  BY DEF OwnershipInv, OneActive, Active, OneLiveExecution, Live
<1> QED
  BY <1>1, OwnershipInvariant, PTL

(* The recovery cap holds for every cap, zero included.                    *)
THEOREM CapRespected ==
    ASSUME AllRules, NoLateCheckpoint PROVE Spec => []RecoveryBudget
<1>1. OwnershipInv => RecoveryBudget
  BY DEF OwnershipInv
<1> QED
  BY <1>1, OwnershipInvariant, PTL

-----------------------------------------------------------------------------
(***************************************************************************)
(* Nobody has a row in hand while a resume is between its two statements,  *)
(* even when executions of the row overlapped before it: the resume waited *)
(* for them, and whatever could take the row up waits for the resume.      *)
(***************************************************************************)

(* The rules this rests on.  "recover" is not among them: listings may     *)
(* overlap a live execution.                                               *)
ResumesAlone == {"resume", "delete", "serial"} \subseteq Discipline

(* Task s runs w, acts on having run it or settles it.                     *)
TaskOn(s, w) ==
    /\ task[s].pc \in {"body", "write", "readback", "release", "settle"}
    /\ task[s].w = w

InHand(w) ==
    \/ \E s \in Slot : TaskOn(s, w)
    \/ \E e \in Executor : \E g \in sweep[e] : g.w = w
    \/ \E c \in lateClaim : c.g.w = w
    \/ \E l \in lateWrite : l.w = w

Reopened(w) == row[w].status \in {"PENDING", "CANCELLED"} /\ ~InHand(w)

ReopenInv ==
    /\ \A w \in Workflow : Resuming(w) => Reopened(w)
    /\ \A w \in Workflow : \A o, p \in Operator : resuming[o] = w /\ resuming[p] = w => o = p

(* Who has the row in hand after a step had it before.                     *)
LEMMA ReopenedKept ==
    ASSUME NEW w, Reopened(w), row'[w].status \in {"PENDING", "CANCELLED"},
           \A s \in Slot : TaskOn(s, w)' => TaskOn(s, w),
           \A e \in Executor : \A g \in sweep'[e] : g.w = w => g \in sweep[e],
           \A c \in lateClaim' : c.g.w = w => c \in lateClaim,
           \A l \in lateWrite' : l.w = w => l \in lateWrite
    PROVE  Reopened(w)'
BY DEF Reopened, InHand

(* One task moves, away from w or on another row.                          *)
LEMMA TaskElsewhere ==
    ASSUME TypeOK, NEW w, NEW s \in Slot, NEW u, task' = [task EXCEPT ![s] = u],
           \/ u.pc \notin {"body", "write", "readback", "release", "settle"}
           \/ u.w # w
    PROVE  \A x \in Slot : TaskOn(x, w)' => TaskOn(x, w)
<1>1. \A x \in Slot : task'[x] = IF x = s THEN u ELSE task[x]
  BY DEF TypeOK
<1> QED
  BY <1>1 DEF TaskOn

LEMMA TasksStay ==
    ASSUME NEW w, \A s \in Slot : task'[s] = task[s] \/ task'[s] = Idle
    PROVE  \A s \in Slot : TaskOn(s, w)' => TaskOn(s, w)
<1>1. Idle.pc = "idle"
  BY DEF Idle
<1> QED
  BY <1>1 DEF TaskOn

(* Another row is rewritten.                                               *)
LEMMA RowElsewhere ==
    ASSUME TypeOK, NEW w \in Workflow, Reopened(w), NEW x, x # w,
           row' = row \/ \E r : row' = [row EXCEPT ![x] = r]
    PROVE  row'[w].status \in {"PENDING", "CANCELLED"}
<1>1. row'[w] = row[w]
  BY DEF TypeOK
<1> QED
  BY <1>1 DEF Reopened

-----------------------------------------------------------------------------
LEMMA BodyReopened ==
    ASSUME TypeOK, NEW w \in Workflow, Reopened(w), NEW s \in Slot, BodyStep(s)
    PROVE  Reopened(w)'
<1>1. task[s].pc = "body" /\ task[s] \in Task
  <2>1. task[s].pc = "body"
    BY DEF BodyStep, Checkpoint, BodyReturns, BodyCancelled, BodyTimedOut,
       BodyConflict, BodyInterrupted, BodyPanics
  <2> QED
    BY <2>1, TaskFields
<1>2. task[s].w # w
  BY <1>1 DEF Reopened, InHand, TaskOn
<1>3. UNCHANGED <<sweep, lateClaim, lateWrite>>
  BY DEF BodyStep, Checkpoint, BodyReturns, BodyCancelled, BodyTimedOut,
     BodyConflict, BodyInterrupted, BodyPanics, Rest
<1>4. row' = row \/ \E r : row' = [row EXCEPT ![task[s].w] = r]
  BY DEF BodyStep, Checkpoint, BodyReturns, BodyCancelled, BodyTimedOut,
     BodyConflict, BodyInterrupted, BodyPanics, Rest
<1>5. row'[w].status \in {"PENDING", "CANCELLED"}
  BY <1>2, <1>4, RowElsewhere
<1>6. task' = task \/ \E u : task' = [task EXCEPT ![s] = u] /\ u.w # w
  <2>1. CASE Checkpoint(s)
    BY <2>1 DEF Checkpoint
  <2>2. ASSUME NEW target, NEW v, ToWrite(s, target, v)
        PROVE  \E u : task' = [task EXCEPT ![s] = u] /\ u.w # w
    <3> DEFINE u == [task[s] EXCEPT !.pc = "write", !.target = target, !.value = v]
    <3>1. u.w = task[s].w
      BY <1>1 DEF Task
    <3> QED
      BY <1>2, <2>2, <3>1 DEF ToWrite
  <2>3. ASSUME NEW pc, To(s, pc)
        PROVE  \E u : task' = [task EXCEPT ![s] = u] /\ u.w # w
    <3> DEFINE u == [task[s] EXCEPT !.pc = pc]
    <3>1. u.w = task[s].w
      BY <1>1 DEF Task
    <3> QED
      BY <1>2, <2>3, <3>1 DEF To
  <2>4. CASE BodyPanics(s)
    <3> DEFINE u == [task[s] EXCEPT !.pc = "settle", !.cap = task[s].attempts]
    <3>1. u.w = task[s].w
      BY <1>1 DEF Task
    <3> QED
      BY <1>2, <2>4, <3>1 DEF BodyPanics
  <2> QED
    BY <2>1, <2>2, <2>3, <2>4 DEF BodyStep, BodyReturns, BodyCancelled,
       BodyTimedOut, BodyConflict, BodyInterrupted
<1>7. \A x \in Slot : TaskOn(x, w)' => TaskOn(x, w)
  BY <1>6, TaskElsewhere, TasksStay
<1> QED
  BY <1>3, <1>5, <1>7, ReopenedKept

LEMMA OutcomeReopened ==
    ASSUME TypeOK, NEW w \in Workflow, Reopened(w), NEW s \in Slot, OutcomeStep(s)
    PROVE  Reopened(w)'
<1>1. task[s].pc \in {"write", "readback", "adopt"} /\ task[s] \in Task
  <2>1. task[s].pc \in {"write", "readback", "adopt"}
    BY DEF OutcomeStep, WriteAnswered, WriteFails, Readback, Adopt, AdoptFails
  <2> QED
    BY <2>1, TaskFields
<1>2. Idle.pc = "idle"
  BY DEF Idle
<1>3. UNCHANGED <<sweep, lateClaim>>
  BY DEF OutcomeStep, WriteAnswered, WriteFails, Readback, Adopt, AdoptFails, Rest
<1>4. CASE Adopt(s) \/ AdoptFails(s)
  <2>1. UNCHANGED <<row, lateWrite>> /\ task' = [task EXCEPT ![s] = Idle]
    BY <1>4 DEF Adopt, AdoptFails, Rest
  <2>2. \A x \in Slot : TaskOn(x, w)' => TaskOn(x, w)
    BY <1>2, <2>1, TaskElsewhere
  <2> QED
    BY <1>3, <2>1, <2>2, ReopenedKept DEF Reopened
<1>5. CASE ~(Adopt(s) \/ AdoptFails(s))
  <2>1. task[s].pc \in {"write", "readback"}
    BY <1>5 DEF OutcomeStep, WriteAnswered, WriteFails, Readback
  <2>2. task[s].w # w
    BY <2>1 DEF Reopened, InHand, TaskOn
  <2>3. row' = row \/ \E r : row' = [row EXCEPT ![task[s].w] = r]
    BY <1>5 DEF OutcomeStep, WriteAnswered, WriteFails, Readback, Rest
  <2>4. row'[w].status \in {"PENDING", "CANCELLED"}
    BY <2>2, <2>3, RowElsewhere
  <2>5. \E u : /\ task' = [task EXCEPT ![s] = u]
               /\ u.w # w \/ u.pc = "idle"
    <3>1. ASSUME NEW pc, To(s, pc)
          PROVE  \E u : task' = [task EXCEPT ![s] = u] /\ u.w # w
      <4> DEFINE u == [task[s] EXCEPT !.pc = pc]
      <4>1. u.w = task[s].w
        BY <1>1 DEF Task
      <4> QED
        BY <2>2, <3>1, <4>1 DEF To
    <3> QED
      BY <1>2, <1>5, <3>1 DEF OutcomeStep, WriteAnswered, WriteFails, Readback
  <2>6. \A x \in Slot : TaskOn(x, w)' => TaskOn(x, w)
    BY <2>5, TaskElsewhere
  <2>7. \A l \in lateWrite' : l.w = w => l \in lateWrite
    <3> DEFINE k == [w |-> task[s].w, target |-> task[s].target, value |-> task[s].value]
    <3>1. lateWrite' \subseteq lateWrite \cup {k}
      BY <1>5 DEF OutcomeStep, WriteAnswered, WriteFails, Readback, Rest
    <3>2. k.w # w
      BY <2>2
    <3> QED
      BY <3>1, <3>2
  <2> QED
    BY <1>3, <2>4, <2>6, <2>7, ReopenedKept
<1> QED
  BY <1>4, <1>5

LEMMA SettleReopened ==
    ASSUME TypeOK, NEW w \in Workflow, Reopened(w), NEW s \in Slot, SettleStep(s)
    PROVE  Reopened(w)'
<1>1. task[s].pc = "settle" /\ task[s] \in Task
  <2>1. task[s].pc = "settle"
    BY DEF SettleStep, SettleStops, SettleAnswered, SettleFails
  <2> QED
    BY <2>1, TaskFields
<1>2. task[s].w # w
  BY <1>1 DEF Reopened, InHand, TaskOn
<1>3. UNCHANGED <<sweep, lateWrite>>
  BY DEF SettleStep, SettleStops, SettleAnswered, SettleFails
<1>4. row' = row \/ \E r : row' = [row EXCEPT ![task[s].w] = r]
  BY DEF SettleStep, SettleStops, SettleAnswered, SettleFails
<1>5. row'[w].status \in {"PENDING", "CANCELLED"}
  BY <1>2, <1>4, RowElsewhere
<1>6. \E u : task' = [task EXCEPT ![s] = u] /\ (u.w # w \/ u.pc = "idle")
  <2>1. Idle.pc = "idle"
    BY DEF Idle
  <2>2. NewBody(task[s].w, task[s].e, task[s].attempts + 1, FALSE).w = task[s].w
    BY DEF NewBody
  <2>3. [task[s] EXCEPT !.fails = @ + 1].w = task[s].w
    BY <1>1 DEF Task
  <2> QED
    BY <1>2, <2>1, <2>2, <2>3 DEF SettleStep, SettleStops, SettleAnswered, SettleFails
<1>7. \A x \in Slot : TaskOn(x, w)' => TaskOn(x, w)
  BY <1>6, TaskElsewhere
<1>8. \A c \in lateClaim' : c.g.w = w => c \in lateClaim
  <2> DEFINE k == [g |-> GenerationOf(task[s]), cap |-> Cap(s), new |-> task[s].e]
  <2>1. lateClaim' \subseteq lateClaim \cup {k}
    BY DEF SettleStep, SettleStops, SettleAnswered, SettleFails
  <2>2. k.g.w = task[s].w
    BY DEF GenerationOf
  <2> QED
    BY <1>2, <2>1, <2>2
<1> QED
  BY <1>3, <1>5, <1>7, <1>8, ReopenedKept

LEMMA ReleaseReopened ==
    ASSUME TypeOK, NEW w \in Workflow, Reopened(w), NEW s \in Slot, NEW fate,
           Release(s, fate)
    PROVE  Reopened(w)'
<1>1. task[s].w # w
  BY DEF Release, Reopened, InHand, TaskOn
<1>2. /\ UNCHANGED <<sweep, lateWrite, lateClaim>> /\ task' = [task EXCEPT ![s] = Idle]
      /\ row' = row \/ \E r : row' = [row EXCEPT ![task[s].w] = r]
  BY DEF Release
<1>3. Idle.pc = "idle"
  BY DEF Idle
<1>4. \A x \in Slot : TaskOn(x, w)' => TaskOn(x, w)
  BY <1>2, <1>3, TaskElsewhere
<1> QED
  BY <1>1, <1>2, <1>4, RowElsewhere, ReopenedKept

LEMMA DispatchReopened ==
    ASSUME TypeOK, NEW w \in Workflow, Reopened(w), NEW e \in Executor, DispatchStep(e)
    PROVE  Reopened(w)'
<1>1. PICK v \in Workflow, s \in Slot, fate \in {"ok", "lost"} :
          Start(e, v, s, fate) \/ Dequeue(e, v, s, fate)
  BY DEF DispatchStep
<1>2. v # w
  <2>1. NoRow.status = "NONE"
    BY DEF NoRow
  <2>2. row[v].status \in {"NONE", "ENQUEUED"}
    BY <1>1, <2>1 DEF Start, Dequeue
  <2> QED
    BY <2>2 DEF Reopened
<1>3. /\ UNCHANGED <<sweep, lateWrite, lateClaim>>
      /\ \E r : row' = [row EXCEPT ![v] = r]
  BY <1>1 DEF Start, Dequeue
<1>4. task' = task \/ \E u : task' = [task EXCEPT ![s] = u] /\ u.w = v
  <2>1. NewBody(v, e, 0, FALSE).w = v
    BY DEF NewBody
  <2>2. [NewBody(v, e, row[v].attempts, TRUE) EXCEPT
            !.pc = IF v \in Registered[e] THEN "body" ELSE "release"].w = v
    BY DEF NewBody
  <2> QED
    BY <1>1, <2>1, <2>2 DEF Start, Dequeue
<1>5. \A x \in Slot : TaskOn(x, w)' => TaskOn(x, w)
  BY <1>2, <1>4, TaskElsewhere, TasksStay
<1> QED
  BY <1>2, <1>3, <1>5, RowElsewhere, ReopenedKept

LEMMA SweepReopened ==
    ASSUME ResumesAlone, TypeOK, NEW w \in Workflow, Reopened(w), Resuming(w),
           NEW e \in Executor, SweepStep(e)
    PROVE  Reopened(w)'
<1>1. ASSUME NEW execs, RecoverPendingFor(e, execs) PROVE Reopened(w)'
  <2>1. \A g \in Listed(execs) : g.w # w
    BY <1>1 DEF RecoverPendingFor, MayList, ResumesAlone
  <2>2. UNCHANGED <<row, task, lateWrite, lateClaim>>
    BY <1>1 DEF RecoverPendingFor
  <2>3. \A x \in Executor : \A g \in sweep'[x] : g \in sweep[x] \/ g \in Listed(execs)
    BY <1>1 DEF RecoverPendingFor, TypeOK
  <2> QED
    BY <2>1, <2>2, <2>3, TasksStay, ReopenedKept DEF Reopened
<1>2. ASSUME NEW g \in sweep[e], NEW s \in Slot, SweepAnswered(e, g, s)
      PROVE  Reopened(w)'
  <2>1. g.w # w
    BY DEF Reopened, InHand
  <2>2. /\ UNCHANGED <<lateWrite, lateClaim>>
        /\ row' = row \/ \E r : row' = [row EXCEPT ![g.w] = r]
    BY <1>2 DEF SweepAnswered
  <2>3. \A x \in Executor : sweep'[x] \subseteq sweep[x]
    BY <1>2 DEF SweepAnswered, TypeOK
  <2>4. task' = task \/ \E u : task' = [task EXCEPT ![s] = u] /\ u.w = g.w
    <3>1. NewBody(g.w, e, g.attempts + 1, FALSE).w = g.w
      BY DEF NewBody
    <3> QED
      BY <1>2, <3>1 DEF SweepAnswered
  <2>5. \A x \in Slot : TaskOn(x, w)' => TaskOn(x, w)
    BY <2>1, <2>4, TaskElsewhere, TasksStay
  <2> QED
    BY <2>1, <2>2, <2>3, <2>5, RowElsewhere, ReopenedKept
<1>3. ASSUME NEW g \in sweep[e], NEW fate, SweepFails(e, g, fate)
      PROVE  Reopened(w)'
  <2> DEFINE k == [g |-> g, cap |-> MaxRecoveryAttempts, new |-> e]
  <2>1. g.w # w /\ k.g = g
    BY DEF Reopened, InHand
  <2>2. /\ UNCHANGED <<task, lateWrite>> /\ lateClaim' \subseteq lateClaim \cup {k}
        /\ row' = row \/ \E r : row' = [row EXCEPT ![g.w] = r]
    BY <1>3 DEF SweepFails
  <2>3. \A x \in Executor : sweep'[x] \subseteq sweep[x]
    BY <1>3 DEF SweepFails, TypeOK
  <2> HIDE DEF k
  <2>4. \A c \in lateClaim' : c.g.w = w => c \in lateClaim
    BY <2>1, <2>2
  <2> QED
    BY <2>1, <2>2, <2>3, <2>4, TasksStay, RowElsewhere, ReopenedKept
<1>4. CASE SweepStops(e)
  <2>1. UNCHANGED <<row, task, lateWrite, lateClaim>>
    BY <1>4 DEF SweepStops
  <2>2. \A x \in Executor : sweep'[x] \subseteq sweep[x]
    BY <1>4 DEF SweepStops, TypeOK
  <2> QED
    BY <2>1, <2>2, TasksStay, ReopenedKept DEF Reopened
<1> QED
  BY <1>1, <1>2, <1>3, <1>4 DEF SweepStep

LEMMA ProcessReopened ==
    ASSUME ResumesAlone, TypeOK, NEW w \in Workflow, Reopened(w), Resuming(w),
           NEW e \in Executor, ProcessStep(e)
    PROVE  Reopened(w)'
<1>1. UNCHANGED <<row, lateWrite, lateClaim>>
  BY DEF ProcessStep, Crash, Launch, Deactivate, Shutdown
<1>2. \A s \in Slot : TaskOn(s, w)' => TaskOn(s, w)
  <2>1. ASSUME NEW recover \in BOOLEAN, Launch(e, recover)
        PROVE  \A s \in Slot : TaskOn(s, w)' => TaskOn(s, w)
    BY <2>1, LaunchTasks DEF SameTask, TaskOn
  <2>2. CASE Crash(e) \/ Deactivate(e) \/ Shutdown(e)
    <3>1. \A s \in Slot : task'[s] = task[s] \/ task'[s] = Idle
      BY <2>2 DEF Crash, Deactivate, Shutdown
    <3> QED
      BY <3>1, TasksStay
  <2> QED
    BY <2>1, <2>2 DEF ProcessStep
<1>3. ASSUME NEW x \in Executor, NEW g \in sweep'[x] PROVE g \in sweep[x] \/ g.w # w
  <2>1. ASSUME NEW recover \in BOOLEAN, Launch(e, recover)
        PROVE  g \in sweep[x] \/ g.w # w
    BY <1>3, <2>1 DEF Launch, TypeOK, ResumesAlone
  <2>2. CASE Crash(e) \/ Deactivate(e) \/ Shutdown(e)
    BY <1>3, <2>2 DEF Crash, Deactivate, Shutdown, TypeOK
  <2> QED
    BY <2>1, <2>2 DEF ProcessStep
<1> QED
  BY <1>1, <1>2, <1>3, ReopenedKept DEF Reopened

LEMMA LateReopened ==
    ASSUME TypeOK, NEW w \in Workflow, Reopened(w), LateStep \/ LateCheckpointStep
    PROVE  Reopened(w)'
<1>1. /\ UNCHANGED sweep /\ lateWrite' \subseteq lateWrite
      /\ lateClaim' \subseteq lateClaim
  BY DEF LateStep, LateWriteCommits, LateWriteDropped, LateClaimCommits,
     LateClaimDropped, LateCheckpointStep, CheckpointDelayed, LateCheckpointCommits,
     LateCheckpointDropped
<1>2. \A s \in Slot : TaskOn(s, w)' => TaskOn(s, w)
  <2>1. CASE task' = task
    BY <2>1, TasksStay
  <2>2. ASSUME NEW s \in Slot, NEW pc, task[s].pc = "body", To(s, pc)
        PROVE  \A x \in Slot : TaskOn(x, w)' => TaskOn(x, w)
    <3> DEFINE u == [task[s] EXCEPT !.pc = pc]
    <3>1. task[s] \in Task /\ task[s].w # w
      BY <2>2, TaskFields DEF Reopened, InHand, TaskOn
    <3>2. task' = [task EXCEPT ![s] = u] /\ u.w = task[s].w
      BY <2>2, <3>1 DEF To, Task
    <3> HIDE DEF u
    <3> QED
      BY <3>1, <3>2, TaskElsewhere
  <2> QED
    BY <2>1, <2>2 DEF LateStep, LateWriteCommits, LateWriteDropped,
       LateClaimCommits, LateClaimDropped, LateCheckpointStep, CheckpointDelayed,
       LateCheckpointCommits, LateCheckpointDropped
<1>3. row'[w].status \in {"PENDING", "CANCELLED"}
  <2>1. CASE row' = row
    BY <2>1 DEF Reopened
  <2>2. ASSUME NEW l \in lateWrite, LateWriteCommits(l)
        PROVE  row'[w].status \in {"PENDING", "CANCELLED"}
    <3>1. l.w # w
      BY DEF Reopened, InHand
    <3> QED
      BY <2>2, <3>1, RowElsewhere DEF LateWriteCommits
  <2>3. ASSUME NEW c \in lateClaim, LateClaimCommits(c)
        PROVE  row'[w].status \in {"PENDING", "CANCELLED"}
    <3>1. c.g.w # w
      BY DEF Reopened, InHand
    <3> QED
      BY <2>3, <3>1, RowElsewhere DEF LateClaimCommits
  <2>4. ASSUME NEW c \in lateCheckpoint, LateCheckpointCommits(c)
        PROVE  row'[w].status \in {"PENDING", "CANCELLED"}
    <3>1. CASE c.w # w
      BY <2>4, <3>1, RowElsewhere DEF LateCheckpointCommits
    <3>2. CASE c.w = w /\ row' # row
      <4>1. /\ row[w] \in Row /\ row' = [row EXCEPT ![w] = [row[w] EXCEPT !.exec = c.e]]
        BY <2>4, <3>2, RowFields DEF LateCheckpointCommits
      <4>2. [row[w] EXCEPT !.exec = c.e].status = row[w].status
        BY <4>1 DEF Row
      <4>3. row'[w] = [row[w] EXCEPT !.exec = c.e]
        BY <4>1 DEF TypeOK
      <4> QED
        BY <4>2, <4>3 DEF Reopened
    <3> QED
      BY <2>1, <3>1, <3>2
  <2> QED
    BY <2>1, <2>2, <2>3, <2>4 DEF LateStep, LateWriteDropped, LateClaimDropped,
       LateCheckpointStep, CheckpointDelayed, LateCheckpointDropped
<1> QED
  BY <1>1, <1>2, <1>3, ReopenedKept

(* The resume itself finds the row free; a deletion or another resume      *)
(* waits for it.                                                           *)
LEMMA OperatorReopened ==
    ASSUME ResumesAlone, TypeOK, ReopenInv, OperatorStep
    PROVE  ReopenInv'
<1>1. UNCHANGED <<task, sweep, lateWrite, lateClaim>>
  BY DEF OperatorStep, Enqueue, Cancel, Delete, HandleResult, ResumeReopens,
     ResumeEnqueues, ResumeBreaksOff
<1>2. ASSUME NEW w, Reopened(w), row'[w].status \in {"PENDING", "CANCELLED"}
      PROVE  Reopened(w)'
  BY <1>1, <1>2, TasksStay, ReopenedKept
<1>3. ASSUME NEW w \in Workflow, Reopened(w), NEW v, v # w,
             row' = row \/ \E r : row' = [row EXCEPT ![v] = r]
      PROVE  Reopened(w)'
  BY <1>2, <1>3, RowElsewhere
<1>4. ASSUME NEW v \in Workflow, Enqueue(v) \/ Cancel(v) \/ Delete(v) \/ HandleResult(v)
      PROVE  ReopenInv'
  <2>1. resuming' = resuming
    BY <1>4 DEF Enqueue, Cancel, Delete, HandleResult
  <2>2. ASSUME NEW w \in Workflow, Resuming(w) PROVE Reopened(w)'
    <3>1. Reopened(w)
      BY <2>2 DEF ReopenInv
    <3>2. CASE v # w
      <4>1. row' = row \/ \E r : row' = [row EXCEPT ![v] = r]
        BY <1>4 DEF Enqueue, Cancel, Delete, HandleResult
      <4> QED
        BY <1>3, <3>1, <3>2, <4>1
    <3>3. CASE v = w
      <4>1. ~Enqueue(v)
        <5>1. NoRow.status = "NONE"
          BY DEF NoRow
        <5> QED
          BY <3>1, <3>3, <5>1 DEF Enqueue, Reopened
      <4>2. ~Delete(v)
        BY <2>2, <3>3 DEF Delete, MayDelete, ResumesAlone
      <4>3. CASE HandleResult(v)
        <5>1. row' = row
          BY <4>3 DEF HandleResult
        <5> QED
          BY <1>2, <3>1, <5>1 DEF Reopened
      <4>4. CASE Cancel(v)
        <5>1. row[w] \in Row /\ row' = [row EXCEPT ![w] = CancelRow(row[w])]
          BY <3>3, <4>4, RowFields DEF Cancel
        <5>2. CancelRow(row[w]).status = "CANCELLED"
          BY <5>1 DEF CancelRow, Row
        <5>3. row'[w] = CancelRow(row[w])
          BY <5>1 DEF TypeOK
        <5> QED
          BY <1>2, <3>1, <5>2, <5>3
      <4> QED
        BY <1>4, <4>1, <4>2, <4>3, <4>4
    <3> QED
      BY <3>2, <3>3
  <2> QED
    BY <2>1, <2>2 DEF ReopenInv, Resuming
<1>5. ASSUME NEW p \in Operator, NEW v \in Workflow, ResumeReopens(p, v)
      PROVE  ReopenInv'
  <2>1. /\ row' = [row EXCEPT ![v] = ResumeRow(row[v])] /\ row[v] \in Row
        /\ ~Resuming(v) /\ ~ActiveOn(v) /\ ~ClaimDue(v) /\ \A l \in lateWrite : l.w # v
    BY <1>5, RowFields DEF ResumeReopens, MayResume, Stopped, ResumesAlone
  <2>2. ~InHand(v)
    BY <2>1 DEF InHand, TaskOn, ActiveOn, Active, ClaimDue, SettlingOn
  <2>3. row'[v] = ResumeRow(row[v]) /\ ResumeRow(row[v]).status = "PENDING"
    BY <2>1 DEF ResumeRow, Row, TypeOK
  <2>4. Reopened(v)'
    BY <1>1, <2>2, <2>3 DEF Reopened, InHand, TaskOn
  <2>5. \A o \in Operator : resuming'[o] = IF o = p THEN v ELSE resuming[o]
    BY <1>5 DEF ResumeReopens, TypeOK
  <2>6. ASSUME NEW w \in Workflow, Resuming(w)' PROVE Reopened(w)'
    <3>1. CASE w = v
      BY <2>4, <3>1
    <3>2. CASE w # v
      <4>1. Reopened(w)
        BY <2>5, <2>6, <3>2 DEF ReopenInv, Resuming
      <4> QED
        BY <1>3, <2>1, <3>2, <4>1
    <3> QED
      BY <3>1, <3>2
  <2>7. ASSUME NEW w \in Workflow, NEW o \in Operator, NEW q \in Operator,
               resuming'[o] = w, resuming'[q] = w
        PROVE  o = q
    BY <2>1, <2>5, <2>7 DEF ReopenInv, Resuming
  <2> QED
    BY <2>6, <2>7 DEF ReopenInv
<1>6. ASSUME NEW p \in Operator, ResumeEnqueues(p) \/ ResumeBreaksOff(p)
      PROVE  ReopenInv'
  <2> PICK v : v = resuming[p]
    OBVIOUS
  <2>1. /\ row' = row \/ \E r : row' = [row EXCEPT ![v] = r]
        /\ resuming' = [resuming EXCEPT ![p] = NoWorkflow]
    BY <1>6 DEF ResumeEnqueues, ResumeBreaksOff
  <2>2. \A o \in Operator : resuming'[o] = IF o = p THEN NoWorkflow ELSE resuming[o]
    BY <2>1 DEF TypeOK
  <2>3. ASSUME NEW w \in Workflow, NEW o \in Operator, resuming'[o] = w
        PROVE  o # p /\ resuming[o] = w
    BY <2>2, <2>3, NameAssumption
  <2>4. ASSUME NEW w \in Workflow, Resuming(w)' PROVE Reopened(w)'
    <3>1. Reopened(w) /\ v # w
      BY <2>3, <2>4 DEF ReopenInv, Resuming
    <3> QED
      BY <1>3, <2>1, <3>1
  <2> QED
    BY <2>3, <2>4 DEF ReopenInv
<1> QED
  BY <1>4, <1>5, <1>6 DEF OperatorStep

LEMMA StepReopened ==
    ASSUME ResumesAlone, TypeOK, ReopenInv, [Next]_vars
    PROVE  ReopenInv'
<1>1. CASE OperatorStep
  BY <1>1, OperatorReopened
<1>2. CASE ~OperatorStep
  <2>1. resuming' = resuming
    <3>1. ASSUME NEW s \in Slot, BodyStep(s) \/ OutcomeStep(s) \/ SettleStep(s)
          PROVE  resuming' = resuming
      <4>1. CASE BodyStep(s)
        BY <4>1 DEF BodyStep, Checkpoint, BodyReturns, BodyCancelled, BodyTimedOut,
           BodyConflict, BodyInterrupted, BodyPanics, Rest
      <4>2. CASE OutcomeStep(s)
        BY <4>2 DEF OutcomeStep, WriteAnswered, WriteFails, Readback, Adopt,
           AdoptFails, Rest
      <4>3. CASE SettleStep(s)
        BY <4>3 DEF SettleStep, SettleStops, SettleAnswered, SettleFails
      <4> QED
        BY <3>1, <4>1, <4>2, <4>3
    <3>2. ASSUME NEW s \in Slot, NEW fate, Release(s, fate) PROVE resuming' = resuming
      BY <3>2 DEF Release
    <3>3. ASSUME NEW e \in Executor, DispatchStep(e) \/ SweepStep(e) \/ ProcessStep(e)
          PROVE  resuming' = resuming
      BY <3>3 DEF DispatchStep, Start, Dequeue, SweepStep, RecoverPendingFor,
         SweepAnswered, SweepFails, SweepStops, ProcessStep, Crash, Launch, Deactivate,
         Shutdown
    <3>4. CASE LateStep \/ LateCheckpointStep
      BY <3>4 DEF LateStep, LateWriteCommits, LateWriteDropped, LateClaimCommits,
         LateClaimDropped, LateCheckpointStep, CheckpointDelayed, LateCheckpointCommits,
         LateCheckpointDropped
    <3>5. CASE UNCHANGED vars
      BY <3>5 DEF vars
    <3> QED
      BY <1>2, <3>1, <3>2, <3>3, <3>4, <3>5 DEF Next
  <2>2. ASSUME NEW w \in Workflow, Resuming(w) PROVE Reopened(w)'
    <3>1. Reopened(w)
      BY <2>2 DEF ReopenInv
    <3>2. CASE UNCHANGED vars
      <4>1. UNCHANGED <<row, task, sweep, lateClaim, lateWrite>>
        BY <3>2 DEF vars
      <4>2. row'[w].status \in {"PENDING", "CANCELLED"}
        BY <3>1, <4>1 DEF Reopened
      <4> QED
        BY <3>1, <4>1, <4>2, TasksStay, ReopenedKept
    <3> QED
      BY <1>2, <2>2, <3>1, <3>2, BodyReopened, OutcomeReopened, SettleReopened,
         ReleaseReopened, DispatchReopened, SweepReopened, ProcessReopened, LateReopened DEF Next
  <2> QED
    BY <2>1, <2>2 DEF ReopenInv, Resuming
<1> QED
  BY <1>1, <1>2

LEMMA ReopenInvariant ==
    ASSUME ResumesAlone PROVE Spec => []ReopenInv
<1>1. Init => ReopenInv
  BY NameAssumption DEF Init, ReopenInv, Resuming
<1>2. TypeOK /\ ReopenInv /\ [Next]_vars => ReopenInv'
  BY StepReopened
<1> QED
  BY <1>1, <1>2, TypeCorrect, PTL DEF Spec
=============================================================================
