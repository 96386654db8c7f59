--------------------------- MODULE OutcomeProofs ----------------------------
(***************************************************************************)
(* What becomes of a row under the operating rules: one outcome is         *)
(* recorded and told, an ENQUEUED row is on a queue, and no PENDING row is *)
(* forgotten.                                                              *)
(***************************************************************************)
EXTENDS OwnershipProofs

-----------------------------------------------------------------------------
(***************************************************************************)
(* One recorded outcome: a completed row is never rewritten, and every     *)
(* caller that is told a completed outcome is told that one, even when     *)
(* executions overlap and checkpoints commit late.  Beyond resumes that    *)
(* run alone this needs every executor to have every handler: the release  *)
(* of a claim without a handler is an unguarded status write, and it can   *)
(* overwrite an outcome that committed late.                               *)
(***************************************************************************)

AllHandled == \A e \in Executor : Registered[e] = Workflow

NoRelease == \A s \in Slot : task[s].pc # "release"

(* What a caller of w may be told.                                         *)
Recorded(w) == IF row[w].status \in Completed
               THEN {<<row[w].status, row[w].value>>} ELSE {}

(* A step leaves completed rows alone, or deletes them with their reports. *)
KeepsOutcome(w) ==
    row[w].status \in Completed =>
        \/ row'[w] = NoRow /\ reported'[w] = {}
        \/ row'[w].status = row[w].status /\ row'[w].value = row[w].value

Tells(w) == reported'[w] \subseteq reported[w] \cup Recorded(w)'

ValuesInv ==
    /\ \A s \in Slot : /\ task[s].pc = "write"
                       /\ task[s].target \in Completed
                       => task[s].value \in Value
    /\ \A l \in lateWrite : l.target \in Completed => l.value \in Value

Honest == /\ \A w \in Workflow : KeepsOutcome(w) /\ Tells(w)
          /\ ValuesInv' /\ NoRelease'

(* The prover of a leaf that names none.                                   *)
USE Zenon

LEMMA HonestStep ==
    ASSUME ReportInv, Honest
    PROVE  ReportInv'
<1>1. ASSUME NEW w \in Workflow, NEW x \in reported'[w]
      PROVE  /\ row'[w].status \in Completed
             /\ x = <<row'[w].status, row'[w].value>>
  <2>1. KeepsOutcome(w) /\ Tells(w)
    BY DEF Honest
  <2>2. CASE x \in reported[w]
    BY <1>1, <2>1, <2>2 DEF KeepsOutcome, ReportInv
  <2>3. CASE x \notin reported[w]
    BY <1>1, <2>1, <2>3 DEF Tells, Recorded
  <2> QED
    BY <2>2, <2>3
<1> QED
  BY <1>1 DEF ReportInv, Honest, ValuesInv

(* The guard of a terminal write protects completed rows.                  *)
LEMMA GuardHolds ==
    ASSUME NEW r, NEW target \in Terminal, CanSetStatus(r, target)
    PROVE  r # NoRow /\ r.status \notin Completed
BY DEF CanSetStatus, Terminal, Completed

LEMMA NotCompleted ==
    /\ NoRow.status \notin Completed
    /\ "ENQUEUED" \notin Completed /\ "PENDING" \notin Completed
    /\ "CANCELLED" \notin Completed
BY DEF NoRow, Completed

(* Rewriting a row that is not completed, and telling nobody.              *)
LEMMA RewriteHonest ==
    ASSUME TypeOK, NEW w \in Workflow, row[w].status \notin Completed, NEW r,
           row' = [row EXCEPT ![w] = r], reported' = reported
    PROVE  \A x \in Workflow : KeepsOutcome(x) /\ Tells(x)
<1>1. \A x \in Workflow \ {w} : row'[x] = row[x]
  BY DEF TypeOK
<1> QED
  BY <1>1 DEF KeepsOutcome, Tells

LEMMA SameHonest ==
    ASSUME row' = row, reported' = reported
    PROVE  \A x \in Workflow : KeepsOutcome(x) /\ Tells(x)
BY DEF KeepsOutcome, Tells

(* A task that moves, but neither to a write nor to a release.             *)
LEMMA MoveHonest ==
    ASSUME TypeOK, ValuesInv, NoRelease, NEW s \in Slot, NEW u,
           task' = [task EXCEPT ![s] = u],
           u.pc \notin {"write", "release"}, lateWrite' \subseteq lateWrite
    PROVE  ValuesInv' /\ NoRelease'
<1>1. \A x \in Slot : task'[x] = IF x = s THEN u ELSE task[x]
  BY DEF TypeOK
<1> QED
  BY <1>1 DEF ValuesInv, NoRelease

LEMMA StayHonest ==
    ASSUME ValuesInv, NoRelease, task' = task, lateWrite' \subseteq lateWrite
    PROVE  ValuesInv' /\ NoRelease'
BY DEF ValuesInv, NoRelease

-----------------------------------------------------------------------------
(* Every action is honest.                                                 *)

LEMMA BodyHonest ==
    ASSUME TypeOK, ValuesInv, NoRelease, NEW s \in Slot, BodyStep(s)
    PROVE  Honest
<1> USE DEF Honest
<1>0. /\ task[s].pc = "body" /\ task[s] \in Task /\ task[s].w \in Workflow
  <2>1. task[s].pc = "body"
    BY DEF BodyStep, Checkpoint, BodyReturns, BodyCancelled, BodyTimedOut,
       BodyConflict, BodyInterrupted, BodyPanics
  <2> QED
    BY <2>1, TaskFields
<1>1. CASE Checkpoint(s)
  <2> DEFINE w == task[s].w
             r == [row[w] EXCEPT !.exec = task[s].e]
  <2>1. row[w] \in Row /\ row' = [row EXCEPT ![w] = r]
        /\ UNCHANGED <<task, lateWrite, reported>>
    BY <1>0, <1>1, RowFields DEF Checkpoint
  <2>2. r.status = row[w].status /\ r.value = row[w].value
    BY <2>1 DEF Row
  <2>3. row'[w] = r /\ \A x \in Workflow \ {w} : row'[x] = row[x]
    BY <1>0, <2>1 DEF TypeOK
  <2>4. \A x \in Workflow : KeepsOutcome(x) /\ Tells(x)
    BY <2>1, <2>2, <2>3 DEF KeepsOutcome, Tells
  <2> QED
    BY <2>1, <2>4, StayHonest
<1>2. CASE ~Checkpoint(s)
  <2>1. UNCHANGED <<row, reported, lateWrite>>
    BY <1>2 DEF BodyStep, BodyReturns, BodyCancelled, BodyTimedOut,
       BodyConflict, BodyInterrupted, BodyPanics, Rest
  <2>2. PICK u : /\ task' = [task EXCEPT ![s] = u] /\ u.pc # "release"
                 /\ u.pc = "write" /\ u.target \in Completed => u.value \in Value
    <3>1. ASSUME NEW target \in Completed, NEW v \in Value,
                 BodyReturns(s, target, v)
          PROVE  \E u : /\ task' = [task EXCEPT ![s] = u] /\ u.pc # "release"
                        /\ u.pc = "write" /\ u.target \in Completed
                               => u.value \in Value
      <4> DEFINE u == [task[s] EXCEPT !.pc = "write", !.target = target,
                                      !.value = v]
      <4>1. task' = [task EXCEPT ![s] = u]
        BY <3>1 DEF BodyReturns, ToWrite
      <4>2. u.pc = "write" /\ u.value = v
        BY <1>0 DEF Task
      <4> QED
        BY <4>1, <4>2
    <3>2. CASE BodyCancelled(s) \/ BodyTimedOut(s)
      <4> DEFINE u == [task[s] EXCEPT !.pc = "write", !.target = "CANCELLED",
                                      !.value = NoValue]
      <4>1. task' = [task EXCEPT ![s] = u]
        BY <3>2 DEF BodyCancelled, BodyTimedOut, ToWrite
      <4>2. u.pc = "write" /\ u.target = "CANCELLED"
        BY <1>0 DEF Task
      <4> QED
        BY <4>1, <4>2, NotCompleted
    <3>3. CASE BodyConflict(s)
      <4> DEFINE u == [task[s] EXCEPT !.pc = "adopt"]
      <4>1. task' = [task EXCEPT ![s] = u] /\ u.pc = "adopt"
        BY <1>0, <3>3 DEF BodyConflict, To, Task
      <4> QED
        BY <4>1
    <3>4. CASE BodyInterrupted(s)
      <4> DEFINE u == [task[s] EXCEPT !.pc = "settle"]
      <4>1. task' = [task EXCEPT ![s] = u] /\ u.pc = "settle"
        BY <1>0, <3>4 DEF BodyInterrupted, To, Task
      <4> QED
        BY <4>1
    <3>5. CASE BodyPanics(s)
      <4> DEFINE u == [task[s] EXCEPT !.pc = "settle", !.cap = task[s].attempts]
      <4>1. task' = [task EXCEPT ![s] = u] /\ u.pc = "settle"
        BY <1>0, <3>5 DEF BodyPanics, Task
      <4> QED
        BY <4>1
    <3> QED
      BY <1>2, <3>1, <3>2, <3>3, <3>4, <3>5 DEF BodyStep
  <2>3. \A x \in Slot : task'[x] = IF x = s THEN u ELSE task[x]
    BY <2>2 DEF TypeOK
  <2>4. ValuesInv' /\ NoRelease'
    BY <2>1, <2>2, <2>3 DEF ValuesInv, NoRelease
  <2> QED
    BY <2>1, <2>4, SameHonest
<1> QED
  BY <1>1, <1>2

LEMMA OutcomeHonest ==
    ASSUME TypeOK, ValuesInv, NoRelease, NEW s \in Slot, OutcomeStep(s)
    PROVE  Honest
<1> USE DEF Honest
<1> DEFINE t == task[s]
<1>0. /\ t \in Task /\ t.w \in Workflow /\ t.target \in Terminal
      /\ t.value \in Value \cup {NoValue}
  <2>1. t.pc \in {"write", "readback", "adopt"}
    BY DEF OutcomeStep, WriteAnswered, WriteFails, Readback, Adopt, AdoptFails
  <2> QED
    BY <2>1, TaskFields
<1>1. CASE WriteAnswered(s)
  <2>1. CASE CanSetStatus(row[t.w], t.target)
    <3> DEFINE r == SetStatus(row[t.w], t.target, t.value)
    <3>1. /\ row' = [row EXCEPT ![t.w] = r] /\ lateWrite' = lateWrite
          /\ task' = [task EXCEPT ![s] = Idle]
          /\ reported' = Report(t.w, t.target, t.value) /\ t.pc = "write"
      BY <1>1, <2>1 DEF WriteAnswered
    <3>2. row[t.w] # NoRow /\ row[t.w].status \notin Completed
      BY <1>0, <2>1, GuardHolds
    <3>3. row[t.w] \in Row
      BY <1>0, <3>2, RowFields
    <3>4. r.status = t.target /\ (t.value # NoValue => r.value = t.value)
      BY <3>3 DEF SetStatus, Row
    <3>5. t.target \in Completed => t.value \in Value /\ t.value # NoValue
      BY <3>1, NameAssumption DEF ValuesInv
    <3>6. row'[t.w] = r /\ \A x \in Workflow \ {t.w} : row'[x] = row[x]
      BY <1>0, <3>1 DEF TypeOK
    <3>7. /\ \A x \in Workflow \ {t.w} : reported'[x] = reported[x]
          /\ t.target \in Completed =>
                 reported'[t.w] = reported[t.w] \cup {<<t.target, t.value>>}
          /\ t.target \notin Completed => reported'[t.w] = reported[t.w]
      BY <1>0, <3>1 DEF TypeOK, Report
    <3>8. \A x \in Workflow : KeepsOutcome(x)
      BY <3>2, <3>6 DEF KeepsOutcome
    <3>9. \A x \in Workflow : Tells(x)
      BY <1>0, <3>4, <3>5, <3>6, <3>7 DEF Tells, Recorded
    <3>10. ValuesInv' /\ NoRelease'
      <4>1. Idle.pc = "idle"
        BY DEF Idle
      <4> QED
        BY <3>1, <4>1, MoveHonest
    <3> QED
      BY <3>8, <3>9, <3>10
  <2>2. CASE ~CanSetStatus(row[t.w], t.target)
    <3> DEFINE u == [t EXCEPT !.pc = "adopt"]
    <3>1. /\ task' = [task EXCEPT ![s] = u] /\ u.pc = "adopt"
          /\ UNCHANGED <<row, reported, lateWrite>>
      BY <1>0, <1>1, <2>2 DEF WriteAnswered, To, Task
    <3> HIDE DEF u
    <3> QED
      BY <3>1, MoveHonest, SameHonest
  <2> QED
    BY <2>1, <2>2
<1>2. ASSUME NEW fate \in {"lost", "never", "late"}, WriteFails(s, fate)
      PROVE  Honest
  <2> DEFINE r == SetStatus(row[t.w], t.target, t.value)
             u == [t EXCEPT !.pc = "readback"]
             l == [w |-> t.w, target |-> t.target, value |-> t.value]
  <2>1. /\ task' = [task EXCEPT ![s] = u] /\ u.pc = "readback"
        /\ reported' = reported /\ t.pc = "write"
        /\ lateWrite' = lateWrite \/ lateWrite' = lateWrite \cup {l}
    BY <1>0, <1>2 DEF WriteFails, To, Task
  <2>2. \A x \in Workflow : KeepsOutcome(x) /\ Tells(x)
    <3>1. CASE row' = row
      BY <2>1, <3>1, SameHonest
    <3>2. CASE row' # row
      <4>1. row' = [row EXCEPT ![t.w] = r] /\ CanSetStatus(row[t.w], t.target)
        BY <1>2, <3>2 DEF WriteFails
      <4>2. row[t.w].status \notin Completed
        BY <1>0, <4>1, GuardHolds
      <4> HIDE DEF r
      <4> QED
        BY <1>0, <2>1, <4>1, <4>2, RewriteHonest
    <3> QED
      BY <3>1, <3>2
  <2>3. l.target \in Completed => l.value \in Value
    BY <2>1 DEF ValuesInv
  <2>4. \A x \in Slot : task'[x] = IF x = s THEN u ELSE task[x]
    BY <2>1 DEF TypeOK
  <2> HIDE DEF u, l
  <2>5. ValuesInv' /\ NoRelease'
    BY <2>1, <2>3, <2>4 DEF ValuesInv, NoRelease
  <2> QED
    BY <2>2, <2>5
<1>3. ASSUME NEW fate \in {"ok", "never"}, Readback(s, fate)
      PROVE  Honest
  <2>1. PICK pc \in {"adopt", "settle"} :
            task' = [task EXCEPT ![s] = [task[s] EXCEPT !.pc = pc]]
    BY <1>3 DEF Readback, To
  <2> DEFINE u == [t EXCEPT !.pc = pc]
  <2>2. u.pc = pc
    BY <1>0 DEF Task
  <2>3. UNCHANGED <<row, reported, lateWrite>>
    BY <1>3 DEF Readback, Rest
  <2> HIDE DEF u
  <2> QED
    BY <2>1, <2>2, <2>3, MoveHonest, SameHonest DEF u
<1>4. CASE Adopt(s)
  <2>1. /\ task' = [task EXCEPT ![s] = Idle] /\ UNCHANGED <<row, lateWrite>>
        /\ reported' = IF row[t.w] = NoRow THEN reported
                       ELSE Report(t.w, row[t.w].status, row[t.w].value)
    BY <1>4 DEF Adopt
  <2>2. \A x \in Workflow : KeepsOutcome(x) /\ Tells(x)
    BY <1>0, <2>1, NotCompleted DEF KeepsOutcome, Tells, Recorded, Report, TypeOK
  <2>3. Idle.pc = "idle"
    BY DEF Idle
  <2> QED
    BY <2>1, <2>2, <2>3, MoveHonest
<1>5. CASE AdoptFails(s)
  <2>1. /\ task' = [task EXCEPT ![s] = Idle]
        /\ UNCHANGED <<row, reported, lateWrite>>
    BY <1>5 DEF AdoptFails, Rest
  <2>2. Idle.pc = "idle"
    BY DEF Idle
  <2> QED
    BY <2>1, <2>2, MoveHonest, SameHonest
<1> QED
  BY <1>1, <1>2, <1>3, <1>4, <1>5 DEF OutcomeStep

(* A claim that matches finds its row PENDING.                             *)
LEMMA ClaimHonest ==
    ASSUME TypeOK, NEW g, g.w \in Workflow, NEW cap, NEW new,
           \/ row' = row
           \/ /\ ClaimMatches(g, row[g.w])
              /\ row' = [row EXCEPT ![g.w] = ClaimForRecovery(g, cap, new, @)],
           reported' = reported
    PROVE  \A x \in Workflow : KeepsOutcome(x) /\ Tells(x)
<1> DEFINE r == ClaimForRecovery(g, cap, new, row[g.w])
<1>1. CASE row' = row
  BY <1>1, SameHonest
<1>2. CASE row' # row
  <2>1. row' = [row EXCEPT ![g.w] = r] /\ row[g.w].status \notin Completed
    BY <1>2, NotCompleted DEF ClaimMatches
  <2> HIDE DEF r
  <2> QED
    BY <2>1, RewriteHonest
<1> QED
  BY <1>1, <1>2

LEMMA SettleHonest ==
    ASSUME TypeOK, ValuesInv, NoRelease, NEW s \in Slot, SettleStep(s)
    PROVE  Honest
<1> USE DEF Honest
<1> DEFINE t == task[s]
           g == GenerationOf(t)
<1>0. t.pc = "settle" /\ t \in Task /\ t.w \in Workflow
  <2>1. t.pc = "settle"
    BY DEF SettleStep, SettleStops, SettleAnswered, SettleFails
  <2> QED
    BY <2>1, TaskFields
<1>1. g.w = t.w
  BY DEF GenerationOf
<1>2. Idle.pc = "idle"
  BY DEF Idle
<1>3. UNCHANGED <<lateWrite, reported>>
  BY DEF SettleStep, SettleStops, SettleAnswered, SettleFails
<1>4. CASE SettleStops(s)
  <2>1. task' = [task EXCEPT ![s] = Idle] /\ row' = row
    BY <1>4 DEF SettleStops
  <2> QED
    BY <1>2, <1>3, <2>1, MoveHonest, SameHonest
<1>5. CASE SettleAnswered(s)
  <2> DEFINE u == NewBody(t.w, t.e, t.attempts + 1, FALSE)
  <2>1. \/ row' = row
        \/ /\ ClaimMatches(g, row[g.w])
           /\ row' = [row EXCEPT ![g.w] = ClaimForRecovery(g, Cap(s), t.e, @)]
    BY <1>1, <1>5 DEF SettleAnswered
  <2>2. task' = [task EXCEPT ![s] = u] \/ task' = [task EXCEPT ![s] = Idle]
    BY <1>5 DEF SettleAnswered
  <2>3. u.pc = "body"
    BY DEF NewBody
  <2> HIDE DEF u, g
  <2>4. \A x \in Workflow : KeepsOutcome(x) /\ Tells(x)
    BY <1>0, <1>1, <1>3, <2>1, ClaimHonest
  <2>5. ValuesInv' /\ NoRelease'
    BY <1>2, <1>3, <2>2, <2>3, MoveHonest
  <2> QED
    BY <2>4, <2>5
<1>6. ASSUME NEW fate \in {"lost", "never", "late"}, SettleFails(s, fate)
      PROVE  Honest
  <2> DEFINE u == [t EXCEPT !.fails = @ + 1]
  <2>1. \/ row' = row
        \/ /\ ClaimMatches(g, row[g.w])
           /\ row' = [row EXCEPT ![g.w] = ClaimForRecovery(g, Cap(s), t.e, @)]
    BY <1>1, <1>6 DEF SettleFails
  <2>2. task' = [task EXCEPT ![s] = u] \/ task' = [task EXCEPT ![s] = Idle]
    BY <1>6 DEF SettleFails
  <2>3. u.pc = "settle"
    BY <1>0 DEF Task
  <2> HIDE DEF u, g
  <2>4. \A x \in Workflow : KeepsOutcome(x) /\ Tells(x)
    BY <1>0, <1>1, <1>3, <2>1, ClaimHonest
  <2>5. ValuesInv' /\ NoRelease'
    BY <1>2, <1>3, <2>2, <2>3, MoveHonest
  <2> QED
    BY <2>4, <2>5
<1> QED
  BY <1>4, <1>5, <1>6 DEF SettleStep

LEMMA SweepHonest ==
    ASSUME TypeOK, ValuesInv, NoRelease, NEW e \in Executor, SweepStep(e)
    PROVE  Honest
<1> USE DEF Honest
<1>1. UNCHANGED <<lateWrite, reported>>
  BY DEF SweepStep, RecoverPendingFor, SweepAnswered, SweepFails, SweepStops
<1>2. ASSUME row' = row, task' = task
      PROVE  Honest
  BY <1>1, <1>2, SameHonest, StayHonest
<1>3. ASSUME NEW g \in sweep[e], NEW s \in Slot, SweepAnswered(e, g, s)
      PROVE  Honest
  <2> DEFINE u == NewBody(g.w, e, g.attempts + 1, FALSE)
  <2>1. \/ row' = row
        \/ /\ ClaimMatches(g, row[g.w])
           /\ row' = [row EXCEPT ![g.w] =
                         ClaimForRecovery(g, MaxRecoveryAttempts, e, @)]
    BY <1>3 DEF SweepAnswered
  <2>2. task' = [task EXCEPT ![s] = u] \/ task' = task
    BY <1>3 DEF SweepAnswered
  <2>3. u.pc = "body"
    BY DEF NewBody
  <2>4. g.w \in Workflow
    BY SMT DEF TypeOK, Generation
  <2> HIDE DEF u
  <2>5. \A x \in Workflow : KeepsOutcome(x) /\ Tells(x)
    BY <1>1, <2>1, <2>4, ClaimHonest
  <2>6. ValuesInv' /\ NoRelease'
    BY <1>1, <2>2, <2>3, MoveHonest, StayHonest
  <2> QED
    BY <2>5, <2>6
<1>4. ASSUME NEW g \in sweep[e], NEW fate \in {"lost", "never", "late"},
             SweepFails(e, g, fate)
      PROVE  Honest
  <2>1. \/ row' = row
        \/ /\ ClaimMatches(g, row[g.w])
           /\ row' = [row EXCEPT ![g.w] =
                         ClaimForRecovery(g, MaxRecoveryAttempts, e, @)]
    BY <1>4 DEF SweepFails
  <2>2. task' = task
    BY <1>4 DEF SweepFails
  <2>3. g.w \in Workflow
    BY SMT DEF TypeOK, Generation
  <2>4. \A x \in Workflow : KeepsOutcome(x) /\ Tells(x)
    BY <1>1, <2>1, <2>3, ClaimHonest
  <2> QED
    BY <1>1, <2>2, <2>4, StayHonest
<1> QED
  BY <1>2, <1>3, <1>4 DEF SweepStep, RecoverPendingFor, SweepStops

LEMMA LateHonest ==
    ASSUME TypeOK, ValuesInv, NoRelease, LateStep
    PROVE  Honest
<1> USE DEF Honest
<1>1. UNCHANGED <<task, reported>> /\ lateWrite' \subseteq lateWrite
  BY DEF LateStep, LateWriteCommits, LateWriteDropped, LateClaimCommits,
     LateClaimDropped
<1>2. ValuesInv' /\ NoRelease'
  BY <1>1, StayHonest
<1>3. CASE row' = row
  BY <1>1, <1>2, <1>3, SameHonest
<1>4. ASSUME NEW l \in lateWrite, LateWriteCommits(l), row' # row
      PROVE  Honest
  <2> DEFINE r == SetStatus(row[l.w], l.target, l.value)
  <2>1. row' = [row EXCEPT ![l.w] = r] /\ CanSetStatus(row[l.w], l.target)
    BY <1>4 DEF LateWriteCommits
  <2>2. l.w \in Workflow /\ l.target \in Terminal
    BY DEF TypeOK, LateWrite
  <2>3. row[l.w].status \notin Completed
    BY <2>1, <2>2, GuardHolds
  <2> HIDE DEF r
  <2> QED
    BY <1>1, <1>2, <2>1, <2>2, <2>3, RewriteHonest
<1>5. ASSUME NEW c \in lateClaim, LateClaimCommits(c)
      PROVE  Honest
  <2>1. c.g.w \in Workflow
    BY DEF TypeOK, LateClaim, Generation
  <2>2. \/ row' = row
        \/ /\ ClaimMatches(c.g, row[c.g.w])
           /\ row' = [row EXCEPT ![c.g.w] =
                         ClaimForRecovery(c.g, c.cap, c.new, @)]
    BY <1>5 DEF LateClaimCommits
  <2>3. \A x \in Workflow : KeepsOutcome(x) /\ Tells(x)
    BY <1>1, <2>1, <2>2, ClaimHonest
  <2> QED
    BY <1>2, <2>3
<1> QED
  BY <1>3, <1>4, <1>5 DEF LateStep, LateWriteDropped, LateClaimDropped

LEMMA DispatchHonest ==
    ASSUME AllHandled, TypeOK, ValuesInv, NoRelease, NEW e \in Executor,
           DispatchStep(e)
    PROVE  Honest
<1> USE DEF Honest
<1>0. PICK w \in Workflow, s \in Slot, fate \in {"ok", "lost"} :
          Start(e, w, s, fate) \/ Dequeue(e, w, s, fate)
  BY DEF DispatchStep
<1>1. UNCHANGED <<lateWrite, reported>>
  BY <1>0 DEF Start, Dequeue
<1>2. row[w].status \notin Completed
  BY <1>0, NotCompleted DEF Start, Dequeue
<1>3. PICK r : row' = [row EXCEPT ![w] = r]
  BY <1>0 DEF Start, Dequeue
<1>4. \A x \in Workflow : KeepsOutcome(x) /\ Tells(x)
  BY <1>1, <1>2, <1>3, RewriteHonest
<1>5. CASE task' = task
  BY <1>1, <1>4, <1>5, StayHonest
<1>6. CASE Start(e, w, s, fate) /\ task' # task
  <2> DEFINE u == NewBody(w, e, 0, FALSE)
  <2>1. task' = [task EXCEPT ![s] = u] /\ u.pc = "body"
    BY <1>6 DEF Start, NewBody
  <2> HIDE DEF u
  <2> QED
    BY <1>1, <1>4, <2>1, MoveHonest
<1>7. CASE Dequeue(e, w, s, fate) /\ task' # task
  <2> DEFINE u == [NewBody(w, e, row[w].attempts, TRUE) EXCEPT
                      !.pc = IF w \in Registered[e] THEN "body" ELSE "release"]
  <2>1. task' = [task EXCEPT ![s] = u]
    BY <1>7 DEF Dequeue
  <2>2. u.pc = "body"
    BY DEF AllHandled, NewBody
  <2> HIDE DEF u
  <2> QED
    BY <1>1, <1>4, <2>1, <2>2, MoveHonest
<1> QED
  BY <1>0, <1>5, <1>6, <1>7

LEMMA OperatorHonest ==
    ASSUME TypeOK, ReopenInv, ValuesInv, NoRelease, OperatorStep
    PROVE  Honest
<1> USE DEF Honest
<1>1. UNCHANGED <<task, lateWrite>>
  BY DEF OperatorStep, Enqueue, Cancel, Delete, HandleResult, ResumeReopens,
     ResumeEnqueues, ResumeBreaksOff
<1>2. ValuesInv' /\ NoRelease'
  BY <1>1, StayHonest
<1>3. ASSUME NEW w \in Workflow, row[w].status \notin Completed,
             NEW r, row' = [row EXCEPT ![w] = r], reported' = reported
      PROVE  Honest
  BY <1>2, <1>3, RewriteHonest
<1>4. ASSUME NEW w \in Workflow, Enqueue(w) \/ Cancel(w)
      PROVE  Honest
  <2>1. PICK r : row' = [row EXCEPT ![w] = r]
    BY <1>4 DEF Enqueue, Cancel
  <2>2. row[w].status \notin Completed /\ reported' = reported
    BY <1>4, NotCompleted DEF Enqueue, Cancel
  <2> QED
    BY <1>3, <2>1, <2>2
<1>5. ASSUME NEW w \in Workflow, Delete(w)
      PROVE  Honest
  <2>1. /\ row' = [row EXCEPT ![w] = NoRow]
        /\ reported' = [reported EXCEPT ![w] = {}]
    BY <1>5 DEF Delete
  <2>2. \A x \in Workflow : KeepsOutcome(x) /\ Tells(x)
    BY <2>1, SMT DEF KeepsOutcome, Tells, TypeOK
  <2> QED
    BY <1>2, <2>2
<1>6. ASSUME NEW w \in Workflow, HandleResult(w)
      PROVE  Honest
  <2>1. row' = row /\ reported' = Report(w, row[w].status, row[w].value)
    BY <1>6 DEF HandleResult
  <2>2. \A x \in Workflow : KeepsOutcome(x) /\ Tells(x)
    BY <2>1 DEF KeepsOutcome, Tells, Recorded, Report, TypeOK
  <2> QED
    BY <1>2, <2>2
<1>7. ASSUME NEW o \in Operator, NEW w \in Workflow, ResumeReopens(o, w)
      PROVE  Honest
  <2>1. PICK r : row' = [row EXCEPT ![w] = r]
    BY <1>7 DEF ResumeReopens
  <2>2. row[w].status \notin Completed /\ reported' = reported
    BY <1>7 DEF ResumeReopens
  <2> QED
    BY <1>3, <2>1, <2>2
<1>8. ASSUME NEW o \in Operator, ResumeEnqueues(o) \/ ResumeBreaksOff(o)
      PROVE  Honest
  <2>1. PICK w \in Workflow : w = resuming[o]
    BY <1>8 DEF ResumeEnqueues, ResumeBreaksOff, TypeOK
  <2>2. row[w].status \notin Completed /\ reported' = reported
    BY <1>8, <2>1, NotCompleted DEF ReopenInv, Reopened, Resuming, ResumeEnqueues,
       ResumeBreaksOff
  <2>3. row' = row \/ \E r : row' = [row EXCEPT ![w] = r]
    BY <1>8, <2>1 DEF ResumeEnqueues, ResumeBreaksOff
  <2> QED
    BY <1>2, <1>3, <2>2, <2>3, SameHonest
<1> QED
  BY <1>4, <1>5, <1>6, <1>7, <1>8 DEF OperatorStep

LEMMA ProcessHonest ==
    ASSUME TypeOK, ValuesInv, NoRelease, NEW e \in Executor, ProcessStep(e)
    PROVE  Honest
<1>1. UNCHANGED <<row, lateWrite, reported>>
  BY DEF ProcessStep, Crash, Launch, Deactivate, Shutdown
<1>2. \A s \in Slot : \/ task'[s] = task[s] \/ task'[s] = Idle
                      \/ SameTask(s)
  BY LaunchTasks DEF ProcessStep, Crash, Deactivate, Shutdown
<1>3. Idle.pc = "idle"
  BY DEF Idle
<1>4. ValuesInv' /\ NoRelease'
  BY <1>1, <1>2, <1>3 DEF ValuesInv, NoRelease, SameTask
<1> QED
  BY <1>1, <1>4, SameHonest DEF Honest

(* A late checkpoint rewrites the row's executor, or turns a body into one *)
(* that adopts the recorded outcome.                                       *)
LEMMA LateCheckpointHonest ==
    ASSUME TypeOK, ValuesInv, NoRelease, LateCheckpointStep
    PROVE  Honest
<1> USE DEF Honest
<1>1. UNCHANGED <<lateWrite, reported>>
  BY DEF LateCheckpointStep, CheckpointDelayed, LateCheckpointCommits,
     LateCheckpointDropped
<1>2. ValuesInv' /\ NoRelease'
  <2>1. CASE task' = task
    BY <1>1, <2>1, StayHonest
  <2>2. ASSUME NEW s \in Slot, NEW pc \in {"adopt", "settle"}, task[s].pc = "body", To(s, pc)
        PROVE  ValuesInv' /\ NoRelease'
    <3> DEFINE u == [task[s] EXCEPT !.pc = pc]
    <3>1. task' = [task EXCEPT ![s] = u] /\ task[s] \in Task
      BY <2>2, TaskFields DEF To
    <3>2. u.pc = pc
      BY <3>1 DEF Task
    <3> HIDE DEF u
    <3> QED
      BY <1>1, <3>1, <3>2, MoveHonest
  <2> QED
    BY <2>1, <2>2 DEF LateCheckpointStep, CheckpointDelayed, LateCheckpointCommits,
       LateCheckpointDropped
<1>3. \A x \in Workflow : KeepsOutcome(x) /\ Tells(x)
  <2>1. CASE row' = row
    BY <1>1, <2>1, SameHonest
  <2>2. CASE row' # row
    <3>1. PICK c \in lateCheckpoint :
              row[c.w] # NoRow /\ row' = [row EXCEPT ![c.w] = [@ EXCEPT !.exec = c.e]]
      BY <2>2 DEF LateCheckpointStep, CheckpointDelayed, LateCheckpointCommits,
         LateCheckpointDropped
    <3>2. PICK w \in Workflow : w = c.w
      BY DEF TypeOK, LateCheckpoint
    <3> DEFINE r == [row[w] EXCEPT !.exec = c.e]
    <3>3. row[w] \in Row
      BY <3>1, <3>2, RowFields
    <3>4. r.status = row[w].status /\ r.value = row[w].value
      BY <3>3 DEF Row
    <3>5. row'[w] = r /\ \A x \in Workflow \ {w} : row'[x] = row[x]
      BY <3>1, <3>2 DEF TypeOK
    <3> QED
      BY <1>1, <3>4, <3>5 DEF KeepsOutcome, Tells
  <2> QED
    BY <2>1, <2>2
<1> QED
  BY <1>2, <1>3

LEMMA StepHonest ==
    ASSUME AllHandled, TypeOK, ReopenInv, ValuesInv, NoRelease, [Next]_vars
    PROVE  Honest
<1>1. ASSUME NEW s \in Slot, BodyStep(s) \/ OutcomeStep(s) \/ SettleStep(s)
      PROVE  Honest
  BY <1>1, BodyHonest, OutcomeHonest, SettleHonest
<1>2. ASSUME NEW s \in Slot, NEW fate, Release(s, fate)
      PROVE  Honest
  BY <1>2 DEF Release, NoRelease
<1>3. ASSUME NEW e \in Executor, DispatchStep(e) \/ SweepStep(e) \/ ProcessStep(e)
      PROVE  Honest
  BY <1>3, DispatchHonest, SweepHonest, ProcessHonest
<1>4. CASE UNCHANGED vars
  BY <1>4, SameHonest, StayHonest DEF vars, Honest
<1> QED
  BY <1>1, <1>2, <1>3, <1>4, OperatorHonest, LateHonest, LateCheckpointHonest DEF Next

-----------------------------------------------------------------------------
(* The theorems.                                                           *)

LEMMA ReportInvariant ==
    ASSUME ResumesAlone, AllHandled PROVE Spec => [](ReportInv /\ NoRelease)
<1>1. Init => ReportInv /\ NoRelease
  BY SMT DEF Init, ReportInv, NoRelease, Idle
<1>2. ReportInv => ValuesInv
  BY DEF ReportInv, ValuesInv
<1>3. TypeOK /\ ReopenInv /\ ReportInv /\ NoRelease /\ [Next]_vars
          => ReportInv' /\ NoRelease'
  <2> SUFFICES ASSUME TypeOK, ReopenInv, ReportInv, NoRelease, [Next]_vars
               PROVE  ReportInv' /\ NoRelease'
    OBVIOUS
  <2>1. Honest
    BY <1>2, StepHonest
  <2> QED
    BY <2>1, HonestStep DEF Honest
<1> QED
  BY <1>1, <1>3, TypeCorrect, ReopenInvariant, PTL DEF Spec

(* Every caller that learns a completed outcome of a workflow learns the   *)
(* same one, whichever execution, readback, adoption or handle told it.    *)
THEOREM OutcomesAgree ==
    ASSUME ResumesAlone, AllHandled PROVE Spec => []ResultsAgree
<1>1. ReportInv => ResultsAgree
  BY DEF ReportInv, ResultsAgree
<1> QED
  BY <1>1, ReportInvariant, PTL

(* A recorded SUCCESS or ERROR is never changed: the guard of              *)
(* set_workflow_status, the claim CAS, cancel and resume all refuse it.    *)
THEOREM OutcomeFinal ==
    ASSUME ResumesAlone, AllHandled PROVE Spec => OutcomeIsFinal
<1> DEFINE Kept == \A w \in Workflow :
                       row[w].status \in Completed =>
                           \/ row'[w] = NoRow
                           \/ /\ row'[w].status = row[w].status
                              /\ row'[w].value = row[w].value
<1>1. ReportInv => ValuesInv
  BY DEF ReportInv, ValuesInv
<1>2. TypeOK /\ ReopenInv /\ ReportInv /\ NoRelease /\ [Next]_vars => [Kept]_vars
  <2> SUFFICES ASSUME TypeOK, ReopenInv, ReportInv, NoRelease, [Next]_vars
               PROVE  Kept
    OBVIOUS
  <2>1. Honest
    BY <1>1, StepHonest
  <2> QED
    BY <2>1 DEF Honest, KeepsOutcome
<1> QED
  BY <1>2, TypeCorrect, ReopenInvariant, ReportInvariant, PTL DEF Spec, OutcomeIsFinal

-----------------------------------------------------------------------------
(***************************************************************************)
(* An ENQUEUED row is on a queue: whoever puts a row back to ENQUEUED took *)
(* it, or listed it, while it was on one, and finds the row still there.   *)
(***************************************************************************)

(* Resumes and deletions wait for the previous execution and its claims;   *)
(* and no release of a claim without a handler meets a cancellation, which *)
(* takes the row off its queue (run lifecycle_release_cancel).             *)
ResumesWait == {"resume", "delete"} \subseteq Discipline
ReleasesAreSafe == AllHandled \/ "cancel" \notin Moves

(* Whoever dequeued w, or listed it while it was on a queue, and will put  *)
(* it back there.                                                          *)
Returns(s, w) ==
    /\ task[s].pc \in {"body", "write", "readback", "release", "settle"}
    /\ task[s].w = w /\ task[s].queued = TRUE
QueueHolder(w) ==
    \/ \E s \in Slot : Returns(s, w)
    \/ \E e \in Executor : \E g \in sweep[e] : g.w = w /\ g.queued = TRUE
    \/ \E c \in lateClaim : c.g.w = w /\ c.g.queued = TRUE
(* They find its queue in the row, unless it was cancelled.                *)
OnQueue(w) ==
    /\ row[w] # NoRow
    /\ row[w].status = "PENDING" \/ "cancel" \notin Moves => row[w].queued = TRUE
Claimable(w) == row[w].status = "ENQUEUED" => row[w].queued = TRUE
ReleaseInv == \A s \in Slot : task[s].pc = "release" => task[s].queued = TRUE /\ ~AllHandled
QueueInv ==
    /\ \A w \in Workflow : Claimable(w) /\ (QueueHolder(w) => OnQueue(w))
    /\ ReleaseInv

(* A step may hand w to no one new, unless its row shows the queue.        *)
HolderKept(w) == QueueHolder(w)' => QueueHolder(w) \/ OnQueue(w)'
RowKept(w) == Claimable(w)' /\ (OnQueue(w) => OnQueue(w)')
LEMMA QueueKept ==
    ASSUME QueueInv, \A w \in Workflow : HolderKept(w) /\ RowKept(w), ReleaseInv'
    PROVE  QueueInv'
BY DEF QueueInv, HolderKept, RowKept

(* The row keeps its mark, and its status unless it ends.                  *)
Mild(w) ==
    \/ row'[w] = row[w]
    \/ /\ row'[w] # NoRow /\ row'[w].queued = row[w].queued
       /\ row'[w].status = row[w].status \/ row'[w].status \in Terminal
LEMMA MildKept ==
    ASSUME NEW w \in Workflow, Claimable(w), Mild(w)
    PROVE  RowKept(w)
BY StatusNames DEF Mild, RowKept, Claimable, OnQueue, Terminal, Completed

(* Tasks, listings and late claims stay or go.                             *)
TaskMild(s) ==
    /\ \A w : Returns(s, w)' => Returns(s, w)
    /\ task'[s].pc = "release" => task[s].pc = "release" /\ task'[s].queued = task[s].queued
LEMMA HoldersKept ==
    ASSUME QueueInv, \A s \in Slot : TaskMild(s),
           \A e \in Executor : sweep'[e] \subseteq sweep[e], lateClaim' \subseteq lateClaim
    PROVE  ReleaseInv' /\ \A w \in Workflow : HolderKept(w)
<1>1. ReleaseInv'
  BY DEF QueueInv, ReleaseInv, TaskMild
<1>2. \A w \in Workflow : QueueHolder(w)' => QueueHolder(w)
  BY DEF QueueHolder, TaskMild
<1> QED
  BY <1>1, <1>2 DEF HolderKept

(* One task moves on.                                                      *)
LEMMA TaskMoves ==
    ASSUME TypeOK, NEW s \in Slot, NEW u, task' = [task EXCEPT ![s] = u], u.pc # "release",
           \/ u.pc \notin {"body", "write", "readback", "settle"}
           \/ u.queued # TRUE
           \/ /\ task[s].pc \in {"body", "write", "readback", "settle"}
              /\ u.w = task[s].w /\ u.queued = task[s].queued
    PROVE  \A x \in Slot : TaskMild(x)
<1>1. \A x \in Slot : task'[x] = IF x = s THEN u ELSE task[x]
  BY DEF TypeOK
<1>2. task'[s] = u
  BY <1>1
<1>3. TaskMild(s)
  BY <1>2 DEF TaskMild, Returns
<1>4. ASSUME NEW x \in Slot, x # s PROVE TaskMild(x)
  <2>1. task'[x] = task[x]
    BY <1>1, <1>4
  <2> QED
    BY <2>1 DEF TaskMild, Returns
<1> QED
  BY <1>3, <1>4
LEMMA TasksRest ==
    ASSUME \A s \in Slot : task'[s] = task[s] \/ task'[s] = Idle
    PROVE  \A s \in Slot : TaskMild(s)
<1>1. Idle.pc = "idle"
  BY DEF Idle
<1> QED
  BY <1>1 DEF TaskMild, Returns

(* One row is rewritten.                                                   *)
LEMMA OneRow ==
    ASSUME TypeOK, QueueInv, NEW w \in Workflow, NEW r, row' = [row EXCEPT ![w] = r], RowKept(w)
    PROVE  \A x \in Workflow : RowKept(x)
<1>1. \A x \in Workflow \ {w} : row'[x] = row[x]
  BY DEF TypeOK
<1> QED
  BY <1>1, MildKept DEF Mild, QueueInv
LEMMA RowsRest ==
    ASSUME QueueInv, row' = row
    PROVE  \A x \in Workflow : RowKept(x)
BY MildKept DEF Mild, QueueInv

(* A claim puts back on a queue what its holder took from there.           *)
LEMMA ClaimKept ==
    ASSUME TypeOK, QueueInv, NEW g, g.w \in Workflow, g.queued \in BOOLEAN,
           g.queued = TRUE => QueueHolder(g.w), NEW cap, NEW new,
           \/ row' = row
           \/ /\ ClaimMatches(g, row[g.w])
              /\ row' = [row EXCEPT ![g.w] = ClaimForRecovery(g, cap, new, @)]
    PROVE  \A x \in Workflow : RowKept(x)
<1> DEFINE w == g.w
           r == ClaimForRecovery(g, cap, new, row[w])
<1>1. CASE row' = row
  BY <1>1, RowsRest
<1>2. CASE row' # row
  <2>1. row' = [row EXCEPT ![w] = r] /\ row[w].status = "PENDING"
    BY <1>2 DEF ClaimMatches
  <2>2. row[w] \in Row
    BY <2>1, Present, StatusNames
  <2>3. row'[w] = r
    BY <2>1 DEF TypeOK
  <2>4. CASE ClaimOutcome(g, cap) = "requeued"
    <3>1. g.queued = TRUE
      BY <2>4 DEF ClaimOutcome
    <3>2. row[w].queued = TRUE
      BY <2>1, <3>1 DEF QueueInv, OnQueue
    <3>3. r # NoRow /\ r.status = "ENQUEUED" /\ r.queued = row[w].queued
      BY <2>2, <2>4 DEF ClaimForRecovery, Row, NoRow
    <3> HIDE DEF r
    <3>4. RowKept(w)
      BY <2>3, <3>2, <3>3 DEF RowKept, Claimable, OnQueue
    <3> QED
      BY <2>1, <3>4, OneRow
  <2>5. CASE ClaimOutcome(g, cap) # "requeued"
    <3>1. /\ r # NoRow /\ r.queued = row[w].queued
          /\ r.status = row[w].status \/ r.status = "MAX_RECOVERY_ATTEMPTS_EXCEEDED"
      BY <2>2, <2>5 DEF ClaimForRecovery, Row, NoRow
    <3> HIDE DEF r
    <3>2. Mild(w)
      BY <2>3, <3>1 DEF Mild, Terminal
    <3> QED
      BY <2>1, <3>2, MildKept, OneRow DEF QueueInv
  <2> QED
    BY <2>4, <2>5
<1> QED
  BY <1>1, <1>2

(* A terminal write that its guard lets through.                           *)
LEMMA WriteKept ==
    ASSUME TypeOK, QueueInv, NEW w \in Workflow, NEW target \in Terminal, NEW v,
           \/ row' = row
           \/ /\ CanSetStatus(row[w], target)
              /\ row' = [row EXCEPT ![w] = SetStatus(@, target, v)]
    PROVE  \A x \in Workflow : RowKept(x)
<1> DEFINE r == SetStatus(row[w], target, v)
<1>1. CASE row' = row
  BY <1>1, RowsRest
<1>2. CASE row' # row
  <2>1. row' = [row EXCEPT ![w] = r] /\ row[w] \in Row
    BY <1>2, RowFields DEF CanSetStatus
  <2>2. r.status \in Terminal /\ r.queued = row[w].queued /\ r # NoRow
    BY <2>1, SetStatusFields, SMT
  <2>3. row'[w] = r
    BY <2>1 DEF TypeOK
  <2> HIDE DEF r
  <2>4. Mild(w)
    BY <2>2, <2>3 DEF Mild
  <2> QED
    BY <2>1, <2>4, MildKept, OneRow DEF QueueInv
<1> QED
  BY <1>1, <1>2

(* A checkpoint refreshes executor_id alone.                               *)
LEMMA OwnerKept ==
    ASSUME TypeOK, QueueInv, NEW w \in Workflow, NEW e,
           \/ row' = row
           \/ row[w] # NoRow /\ row' = [row EXCEPT ![w] = [@ EXCEPT !.exec = e]]
    PROVE  \A x \in Workflow : RowKept(x)
<1> DEFINE r == [row[w] EXCEPT !.exec = e]
<1>1. CASE row' = row
  BY <1>1, RowsRest
<1>2. CASE row' # row
  <2>1. row' = [row EXCEPT ![w] = r] /\ row[w] \in Row
    BY <1>2, RowFields
  <2>2. r.status = row[w].status /\ r.queued = row[w].queued /\ r # NoRow
    BY <2>1 DEF Row, NoRow
  <2>3. row'[w] = r
    BY <2>1 DEF TypeOK
  <2> HIDE DEF r
  <2>4. Mild(w)
    BY <2>2, <2>3 DEF Mild
  <2> QED
    BY <2>1, <2>4, MildKept, OneRow DEF QueueInv
<1> QED
  BY <1>1, <1>2

-----------------------------------------------------------------------------
(* Every action keeps it.                                                  *)

LEMMA BodyQueue ==
    ASSUME TypeOK, QueueInv, NEW s \in Slot, BodyStep(s)
    PROVE  QueueInv'
<1>0. /\ task[s].pc = "body" /\ task[s] \in Task /\ task[s].w \in Workflow
  <2>1. task[s].pc = "body"
    BY DEF BodyStep, Checkpoint, BodyReturns, BodyCancelled, BodyTimedOut,
       BodyConflict, BodyInterrupted, BodyPanics
  <2> QED
    BY <2>1, TaskFields
<1>1. UNCHANGED <<sweep, lateClaim>>
  BY DEF BodyStep, Checkpoint, BodyReturns, BodyCancelled, BodyTimedOut,
     BodyConflict, BodyInterrupted, BodyPanics, Rest
<1>2. \A x \in Workflow : RowKept(x)
  <2>1. row' = row \/ (row[task[s].w] # NoRow
                       /\ row' = [row EXCEPT ![task[s].w] = [@ EXCEPT !.exec = task[s].e]])
    BY DEF BodyStep, Checkpoint, BodyReturns, BodyCancelled, BodyTimedOut,
       BodyConflict, BodyInterrupted, BodyPanics, Rest
  <2> QED
    BY <1>0, <2>1, OwnerKept
<1>3. \A x \in Slot : TaskMild(x)
  <2>1. CASE Checkpoint(s)
    BY <2>1, TasksRest DEF Checkpoint
  <2>2. ASSUME NEW p \in {"write", "adopt", "settle"}, NEW u,
               task' = [task EXCEPT ![s] = u],
               u.pc = p /\ u.w = task[s].w /\ u.queued = task[s].queued
        PROVE  \A x \in Slot : TaskMild(x)
    BY <1>0, <2>2, TaskMoves
  <2>3. ASSUME NEW target, NEW v,
               \/ BodyReturns(s, target, v)
               \/ ToWrite(s, target, v)
        PROVE  \A x \in Slot : TaskMild(x)
    <3> DEFINE u == [task[s] EXCEPT !.pc = "write", !.target = target, !.value = v]
    <3>1. task' = [task EXCEPT ![s] = u]
      BY <2>3 DEF BodyReturns, ToWrite
    <3>2. u.pc = "write" /\ u.w = task[s].w /\ u.queued = task[s].queued
      BY <1>0 DEF Task
    <3> HIDE DEF u
    <3> QED
      BY <2>2, <3>1, <3>2
  <2>4. CASE BodyCancelled(s) \/ BodyTimedOut(s)
    BY <2>3, <2>4 DEF BodyCancelled, BodyTimedOut
  <2>5. ASSUME NEW p \in {"adopt", "settle"}, To(s, p)
        PROVE  \A x \in Slot : TaskMild(x)
    <3> DEFINE u == [task[s] EXCEPT !.pc = p]
    <3>1. task' = [task EXCEPT ![s] = u]
      BY <2>5 DEF To
    <3>2. u.pc = p /\ u.w = task[s].w /\ u.queued = task[s].queued
      BY <1>0 DEF Task
    <3> HIDE DEF u
    <3> QED
      BY <2>2, <3>1, <3>2
  <2>6. CASE BodyPanics(s)
    <3> DEFINE u == [task[s] EXCEPT !.pc = "settle", !.cap = task[s].attempts]
    <3>1. task' = [task EXCEPT ![s] = u]
      BY <2>6 DEF BodyPanics
    <3>2. u.pc = "settle" /\ u.w = task[s].w /\ u.queued = task[s].queued
      BY <1>0 DEF Task
    <3> HIDE DEF u
    <3> QED
      BY <2>2, <3>1, <3>2
  <2> QED
    BY <2>1, <2>3, <2>4, <2>5, <2>6 DEF BodyStep, BodyConflict, BodyInterrupted
<1> QED
  BY <1>1, <1>2, <1>3, HoldersKept, QueueKept

LEMMA OutcomeQueue ==
    ASSUME TypeOK, QueueInv, NEW s \in Slot, OutcomeStep(s)
    PROVE  QueueInv'
<1> DEFINE t == task[s]
<1>0. t.pc \in {"write", "readback", "adopt"} /\ t \in Task /\ t.w \in Workflow /\ t.target \in Terminal
  <2>1. t.pc \in {"write", "readback", "adopt"}
    BY DEF OutcomeStep, WriteAnswered, WriteFails, Readback, Adopt, AdoptFails
  <2> QED
    BY <2>1, TaskFields
<1>1. UNCHANGED <<sweep, lateClaim>>
  BY DEF OutcomeStep, WriteAnswered, WriteFails, Readback, Adopt, AdoptFails, Rest
<1>2. \A x \in Workflow : RowKept(x)
  <2>1. \/ row' = row
        \/ /\ CanSetStatus(row[t.w], t.target)
           /\ row' = [row EXCEPT ![t.w] = SetStatus(@, t.target, t.value)]
    BY DEF OutcomeStep, WriteAnswered, WriteFails, Readback, Adopt, AdoptFails, Rest
  <2> QED
    BY <1>0, <2>1, WriteKept
<1>3. \/ task' = [task EXCEPT ![s] = Idle]
      \/ To(s, "adopt")
      \/ t.pc = "write" /\ To(s, "readback")
      \/ t.pc = "readback" /\ To(s, "settle")
  BY DEF OutcomeStep, WriteAnswered, WriteFails, Readback, Adopt, AdoptFails
<1>4. \A x \in Slot : TaskMild(x)
  <2>1. CASE task' = [task EXCEPT ![s] = Idle]
    <3>1. \A x \in Slot : task'[x] = task[x] \/ task'[x] = Idle
      BY <2>1 DEF TypeOK
    <3> QED
      BY <3>1, TasksRest
  <2>2. ASSUME NEW p \in {"adopt", "readback", "settle"}, To(s, p),
               p # "adopt" => t.pc \in {"write", "readback"}
        PROVE  \A x \in Slot : TaskMild(x)
    <3> DEFINE u == [task[s] EXCEPT !.pc = p]
    <3>1. task' = [task EXCEPT ![s] = u]
      BY <2>2 DEF To
    <3>2. u.pc = p /\ u.w = task[s].w /\ u.queued = task[s].queued
      BY <1>0 DEF Task
    <3> HIDE DEF u
    <3> QED
      BY <2>2, <3>1, <3>2, TaskMoves
  <2> QED
    BY <1>3, <2>1, <2>2
<1> QED
  BY <1>1, <1>2, <1>4, HoldersKept, QueueKept

(* A late claim of a holder is the holder's.                               *)
LEMMA LateClaimHolder ==
    ASSUME QueueInv, \A s \in Slot : TaskMild(s),
           \A e \in Executor : sweep'[e] \subseteq sweep[e],
           NEW c, lateClaim' \subseteq lateClaim \cup {c},
           c.g.w \in Workflow, c.g.queued = TRUE => QueueHolder(c.g.w)
    PROVE  ReleaseInv' /\ \A w \in Workflow : HolderKept(w)
<1>1. ReleaseInv'
  BY DEF QueueInv, ReleaseInv, TaskMild
<1>2. ASSUME NEW w \in Workflow, QueueHolder(w)'
      PROVE  QueueHolder(w)
  <2>1. CASE \E s \in Slot : Returns(s, w)'
    BY <2>1 DEF QueueHolder, TaskMild
  <2>2. CASE \E e \in Executor : \E g \in sweep'[e] : g.w = w /\ g.queued = TRUE
    BY <2>2 DEF QueueHolder
  <2>3. CASE \E d \in lateClaim' : d.g.w = w /\ d.g.queued = TRUE
    <3>1. PICK d \in lateClaim' : d.g.w = w /\ d.g.queued = TRUE
      BY <2>3
    <3>2. CASE d \in lateClaim
      BY <3>1, <3>2 DEF QueueHolder
    <3>3. CASE d = c
      BY <3>1, <3>3
    <3> QED
      BY <3>1, <3>2, <3>3
  <2> QED
    BY <1>2, <2>1, <2>2, <2>3 DEF QueueHolder
<1> QED
  BY <1>1, <1>2 DEF HolderKept

LEMMA SettleQueue ==
    ASSUME TypeOK, QueueInv, NEW s \in Slot, SettleStep(s)
    PROVE  QueueInv'
<1> DEFINE t == task[s]
           g == GenerationOf(t)
<1>0. t.pc = "settle" /\ t \in Task /\ t.w \in Workflow /\ t.queued \in BOOLEAN
  <2>1. t.pc = "settle"
    BY DEF SettleStep, SettleStops, SettleAnswered, SettleFails
  <2> QED
    BY <2>1, TaskFields
<1>1. g.w = t.w /\ g.queued = t.queued
  BY DEF GenerationOf
<1>2. g.queued = TRUE => QueueHolder(g.w)
  BY <1>0, <1>1 DEF QueueHolder, Returns
<1>3. sweep' = sweep
  BY DEF SettleStep, SettleStops, SettleAnswered, SettleFails
<1>4. CASE SettleStops(s)
  <2>1. task' = [task EXCEPT ![s] = Idle] /\ row' = row /\ lateClaim' = lateClaim
    BY <1>4 DEF SettleStops
  <2>2. \A x \in Slot : task'[x] = task[x] \/ task'[x] = Idle
    BY <2>1 DEF TypeOK
  <2> QED
    BY <1>3, <2>1, <2>2, TasksRest, RowsRest, HoldersKept, QueueKept
<1>5. CASE SettleAnswered(s)
  <2> DEFINE u == NewBody(t.w, t.e, t.attempts + 1, FALSE)
  <2>1. \/ row' = row
        \/ /\ ClaimMatches(g, row[g.w])
           /\ row' = [row EXCEPT ![g.w] = ClaimForRecovery(g, Cap(s), t.e, @)]
    BY <1>1, <1>5 DEF SettleAnswered
  <2>2. lateClaim' = lateClaim
        /\ (task' = [task EXCEPT ![s] = u] \/ task' = [task EXCEPT ![s] = Idle])
    BY <1>5 DEF SettleAnswered
  <2>3. u.pc = "body" /\ u.queued = FALSE /\ Idle.pc = "idle"
    BY DEF NewBody, Idle
  <2> HIDE DEF u, g
  <2>4. \A x \in Workflow : RowKept(x)
    BY <1>0, <1>1, <1>2, <2>1, ClaimKept
  <2>5. \A x \in Slot : TaskMild(x)
    BY <2>2, <2>3, TaskMoves
  <2> QED
    BY <1>3, <2>2, <2>4, <2>5, HoldersKept, QueueKept
<1>6. ASSUME NEW fate \in {"lost", "never", "late"}, SettleFails(s, fate)
      PROVE  QueueInv'
  <2> DEFINE u == [t EXCEPT !.fails = @ + 1]
             c == [g |-> g, cap |-> Cap(s), new |-> t.e]
  <2>1. \/ row' = row
        \/ /\ ClaimMatches(g, row[g.w])
           /\ row' = [row EXCEPT ![g.w] = ClaimForRecovery(g, Cap(s), t.e, @)]
    BY <1>1, <1>6 DEF SettleFails
  <2>2. /\ task' = [task EXCEPT ![s] = u] \/ task' = [task EXCEPT ![s] = Idle]
        /\ lateClaim' \subseteq lateClaim \cup {c}
    BY <1>6 DEF SettleFails
  <2>3. u.pc = "settle" /\ u.w = t.w /\ u.queued = t.queued /\ Idle.pc = "idle"
    BY <1>0 DEF Task, Idle
  <2>4. c.g = g
    OBVIOUS
  <2> HIDE DEF u, g, c
  <2>5. \A x \in Workflow : RowKept(x)
    BY <1>0, <1>1, <1>2, <2>1, ClaimKept
  <2>6. \A x \in Slot : TaskMild(x)
    BY <1>0, <2>2, <2>3, TaskMoves
  <2> QED
    BY <1>0, <1>1, <1>2, <1>3, <2>2, <2>4, <2>5, <2>6, LateClaimHolder, QueueKept
<1> QED
  BY <1>4, <1>5, <1>6 DEF SettleStep

LEMMA ReleaseQueue ==
    ASSUME ReleasesAreSafe, TypeOK, QueueInv, NEW s \in Slot, NEW fate, Release(s, fate)
    PROVE  QueueInv'
<1>0. PICK w : w = task[s].w
  OBVIOUS
<1> DEFINE r == [row[w] EXCEPT !.status = "ENQUEUED"]
<1>1. task[s].pc = "release" /\ w \in Workflow
  BY <1>0, TaskFields DEF Release
<1>2. QueueHolder(w) /\ "cancel" \notin Moves
  BY <1>0, <1>1 DEF QueueInv, ReleaseInv, ReleasesAreSafe, QueueHolder, Returns
<1>3. row[w] # NoRow /\ row[w] \in Row /\ row[w].queued = TRUE
  BY <1>1, <1>2, RowFields DEF QueueInv, OnQueue
<1>4. /\ row' = row \/ row' = [row EXCEPT ![w] = r]
      /\ task' = [task EXCEPT ![s] = Idle] /\ UNCHANGED <<sweep, lateClaim>>
  BY <1>0 DEF Release
<1>5. r.status = "ENQUEUED" /\ r.queued = row[w].queued /\ r # NoRow
  BY <1>3 DEF Row, NoRow
<1> HIDE DEF r
<1>6. \A x \in Workflow : RowKept(x)
  <2>1. CASE row' = row
    BY <2>1, RowsRest
  <2>2. CASE row' = [row EXCEPT ![w] = r]
    <3>1. row'[w] = r
      BY <1>1, <2>2 DEF TypeOK
    <3>2. RowKept(w)
      BY <1>3, <1>5, <3>1 DEF RowKept, Claimable, OnQueue
    <3> QED
      BY <1>1, <2>2, <3>2, OneRow
  <2> QED
    BY <1>4, <2>1, <2>2
<1>7. \A x \in Slot : task'[x] = task[x] \/ task'[x] = Idle
  BY <1>4 DEF TypeOK
<1> QED
  BY <1>4, <1>6, <1>7, TasksRest, HoldersKept, QueueKept

(* A listing takes the mark of a PENDING row.                              *)
LEMMA ListingHolder ==
    ASSUME QueueInv, UNCHANGED <<row, lateClaim>>, NEW execs,
           \A s \in Slot : SameTask(s),
           \A e \in Executor : sweep'[e] \subseteq sweep[e] \cup Listed(execs)
    PROVE  ReleaseInv' /\ \A w \in Workflow : HolderKept(w)
<1>1. ReleaseInv'
  BY DEF QueueInv, ReleaseInv, SameTask
<1>2. ASSUME NEW w \in Workflow, QueueHolder(w)'
      PROVE  QueueHolder(w) \/ OnQueue(w)'
  <2>1. CASE \E s \in Slot : Returns(s, w)'
    BY <2>1 DEF QueueHolder, Returns, SameTask
  <2>2. CASE \E d \in lateClaim' : d.g.w = w /\ d.g.queued = TRUE
    BY <2>2 DEF QueueHolder
  <2>3. CASE \E e \in Executor : \E g \in sweep'[e] : g.w = w /\ g.queued = TRUE
    <3>0. PICK e \in Executor : \E g \in sweep'[e] : g.w = w /\ g.queued = TRUE
      BY <2>3
    <3>1. PICK g \in sweep'[e] : g.w = w /\ g.queued = TRUE
      BY <3>0
    <3>2. CASE g \in sweep[e]
      BY <3>1, <3>2 DEF QueueHolder
    <3>3. CASE g \in Listed(execs)
      <4>1. row[w].status = "PENDING" /\ row[w].queued = TRUE
        BY <3>1, <3>3, SMT DEF Listed
      <4>2. row[w] # NoRow
        BY <4>1, SMT DEF NoRow
      <4> QED
        BY <4>1, <4>2 DEF OnQueue
    <3> QED
      BY <3>1, <3>2, <3>3
  <2> QED
    BY <1>2, <2>1, <2>2, <2>3 DEF QueueHolder
<1> QED
  BY <1>1, <1>2 DEF HolderKept

LEMMA SweepQueue ==
    ASSUME TypeOK, QueueInv, NEW e \in Executor, SweepStep(e)
    PROVE  QueueInv'
<1>0. ASSUME NEW g \in sweep[e]
      PROVE  /\ g.w \in Workflow /\ g.queued \in BOOLEAN
             /\ g.queued = TRUE => QueueHolder(g.w)
  <2>1. g.w \in Workflow /\ g.queued \in BOOLEAN
    BY SMT DEF TypeOK, Generation
  <2>2. g.queued = TRUE => QueueHolder(g.w)
    BY DEF QueueHolder
  <2> QED
    BY <2>1, <2>2
<1>1. ASSUME NEW execs, RecoverPendingFor(e, execs)
      PROVE  QueueInv'
  <2>1. UNCHANGED <<row, task, lateClaim>> /\ sweep' = [sweep EXCEPT ![e] = Listed(execs)]
    BY <1>1 DEF RecoverPendingFor
  <2>2. \A x \in Executor : sweep'[x] \subseteq sweep[x] \cup Listed(execs)
    BY <2>1 DEF TypeOK
  <2> QED
    BY <2>1, <2>2, ListingHolder, RowsRest, QueueKept DEF SameTask
<1>2. ASSUME NEW g \in sweep[e], NEW s \in Slot, SweepAnswered(e, g, s)
      PROVE  QueueInv'
  <2> DEFINE u == NewBody(g.w, e, g.attempts + 1, FALSE)
  <2>1. \/ row' = row
        \/ /\ ClaimMatches(g, row[g.w])
           /\ row' = [row EXCEPT ![g.w] =
                         ClaimForRecovery(g, MaxRecoveryAttempts, e, @)]
    BY <1>2 DEF SweepAnswered
  <2>2. /\ task' = [task EXCEPT ![s] = u] \/ task' = task
        /\ lateClaim' = lateClaim /\ sweep' = [sweep EXCEPT ![e] = @ \ {g}]
    BY <1>2 DEF SweepAnswered
  <2>3. u.pc = "body" /\ u.queued = FALSE
    BY DEF NewBody
  <2>4. \A x \in Executor : sweep'[x] \subseteq sweep[x]
    BY <2>2 DEF TypeOK
  <2> HIDE DEF u
  <2>5. \A x \in Workflow : RowKept(x)
    BY <1>0, <2>1, ClaimKept
  <2>6. \A x \in Slot : TaskMild(x)
    BY <2>2, <2>3, TaskMoves, TasksRest
  <2> QED
    BY <2>2, <2>4, <2>5, <2>6, HoldersKept, QueueKept
<1>3. ASSUME NEW g \in sweep[e], NEW fate \in {"lost", "never", "late"},
             SweepFails(e, g, fate)
      PROVE  QueueInv'
  <2> DEFINE c == [g |-> g, cap |-> MaxRecoveryAttempts, new |-> e]
  <2>1. \/ row' = row
        \/ /\ ClaimMatches(g, row[g.w])
           /\ row' = [row EXCEPT ![g.w] =
                         ClaimForRecovery(g, MaxRecoveryAttempts, e, @)]
    BY <1>3 DEF SweepFails
  <2>2. /\ task' = task /\ lateClaim' \subseteq lateClaim \cup {c}
        /\ sweep' = [sweep EXCEPT ![e] = {}]
    BY <1>3 DEF SweepFails
  <2>3. c.g = g
    OBVIOUS
  <2>4. \A x \in Executor : sweep'[x] \subseteq sweep[x]
    BY <2>2 DEF TypeOK
  <2> HIDE DEF c
  <2>5. \A x \in Workflow : RowKept(x)
    BY <1>0, <2>1, ClaimKept
  <2>6. \A x \in Slot : TaskMild(x)
    BY <2>2, TasksRest
  <2> QED
    BY <1>0, <2>2, <2>3, <2>4, <2>5, <2>6, LateClaimHolder, QueueKept
<1>4. CASE SweepStops(e)
  <2>1. UNCHANGED <<row, task, lateClaim>> /\ sweep' = [sweep EXCEPT ![e] = {}]
    BY <1>4 DEF SweepStops
  <2>2. \A x \in Executor : sweep'[x] \subseteq sweep[x]
    BY <2>1 DEF TypeOK
  <2> QED
    BY <2>1, <2>2, TasksRest, RowsRest, HoldersKept, QueueKept
<1> QED
  BY <1>1, <1>2, <1>3, <1>4 DEF SweepStep

LEMMA StartQueue ==
    ASSUME TypeOK, QueueInv, NEW e \in Executor, NEW w \in Workflow, NEW s \in Slot,
           NEW fate, Start(e, w, s, fate)
    PROVE  QueueInv'
<1> DEFINE u == NewBody(w, e, 0, FALSE)
           r == [status |-> "PENDING", exec |-> e, attempts |-> 0, queued |-> FALSE,
                 value |-> NoValue]
<1>1. /\ row[w] = NoRow /\ row' = [row EXCEPT ![w] = r]
      /\ task' = [task EXCEPT ![s] = u] \/ task' = task
      /\ UNCHANGED <<sweep, lateClaim>>
  BY DEF Start
<1>2. u.pc = "body" /\ u.queued = FALSE /\ r.status = "PENDING"
  BY DEF NewBody
<1> HIDE DEF u, r
<1>3. row'[w] = r
  BY <1>1 DEF TypeOK
<1>4. RowKept(w)
  BY <1>1, <1>2, <1>3 DEF RowKept, Claimable, OnQueue
<1>5. \A x \in Workflow : RowKept(x)
  BY <1>1, <1>4, OneRow
<1>6. \A x \in Slot : TaskMild(x)
  BY <1>1, <1>2, TaskMoves, TasksRest
<1> QED
  BY <1>1, <1>5, <1>6, HoldersKept, QueueKept

LEMMA DequeueQueue ==
    ASSUME TypeOK, QueueInv, NEW e \in Executor, NEW w \in Workflow, NEW s \in Slot,
           NEW fate, Dequeue(e, w, s, fate)
    PROVE  QueueInv'
<1> DEFINE b == NewBody(w, e, row[w].attempts, TRUE)
           p == IF w \in Registered[e] THEN "body" ELSE "release"
           u == [b EXCEPT !.pc = p]
           r == DequeueRow(row[w], e)
<1>1. /\ row' = [row EXCEPT ![w] = r]
      /\ task' = [task EXCEPT ![s] = u] \/ task' = task
      /\ UNCHANGED <<sweep, lateClaim>>
  BY DEF Dequeue
<1>2. row[w].status = "ENQUEUED" /\ row[w].queued = TRUE /\ row[w] \in Row
  BY Present DEF Dequeue, QueueInv, Claimable, Status
<1>3. u.pc = p /\ u.queued = TRUE /\ u.w = w
  BY DEF NewBody
<1>4. p = "release" => ~AllHandled
  BY DEF AllHandled
<1>5. r.status = "PENDING" /\ r.queued = TRUE /\ r # NoRow
  BY <1>2 DEF DequeueRow, Row, NoRow
<1> HIDE DEF u, r, p
<1>6. row'[w] = r
  BY <1>1 DEF TypeOK
<1>7. RowKept(w) /\ OnQueue(w)'
  BY <1>5, <1>6 DEF RowKept, Claimable, OnQueue
<1>8. \A x \in Workflow : RowKept(x)
  BY <1>1, <1>7, OneRow
<1>9. CASE task' = task
  BY <1>1, <1>8, <1>9, TasksRest, HoldersKept, QueueKept
<1>10. CASE task' = [task EXCEPT ![s] = u]
  <2>1. \A x \in Slot : task'[x] = IF x = s THEN u ELSE task[x]
    BY <1>10 DEF TypeOK
  <2>2. task'[s] = u /\ \A x \in Slot \ {s} : task'[x] = task[x]
    BY <2>1
  <2>3. ReleaseInv'
    BY <1>3, <1>4, <2>2 DEF QueueInv, ReleaseInv
  <2>4. ASSUME NEW x \in Workflow, QueueHolder(x)' PROVE QueueHolder(x) \/ OnQueue(x)'
    <3>1. CASE x = w
      BY <1>7, <3>1
    <3>2. CASE x # w
      <4>1. \A z \in Slot : Returns(z, x)' => Returns(z, x)
        BY <1>3, <2>2, <3>2 DEF Returns
      <4> QED
        BY <1>1, <2>4, <4>1 DEF QueueHolder
    <3> QED
      BY <3>1, <3>2
  <2> QED
    BY <1>8, <2>3, <2>4, QueueKept DEF HolderKept
<1> QED
  BY <1>1, <1>9, <1>10

(* Nobody holds a row that was resumed or deleted.                         *)
LEMMA FreeKept ==
    ASSUME TypeOK, QueueInv, NEW w \in Workflow, NEW r, row' = [row EXCEPT ![w] = r],
           UNCHANGED <<task, sweep, lateClaim>>, r.status # "ENQUEUED",
           Stopped(w), ~ClaimDue(w)
    PROVE  QueueInv'
<1>1. ~QueueHolder(w)
  BY DEF QueueHolder, Returns, Stopped, ActiveOn, Active, ClaimDue, SettlingOn
<1>2. row'[w] = r /\ \A x \in Workflow \ {w} : row'[x] = row[x]
  BY DEF TypeOK
<1>3. \A x \in Workflow : HolderKept(x) /\ (QueueHolder(x)' => QueueHolder(x))
  BY DEF HolderKept, QueueHolder, Returns
<1>4. ReleaseInv'
  BY DEF QueueInv, ReleaseInv
<1>5. ASSUME NEW x \in Workflow PROVE Claimable(x)' /\ (QueueHolder(x)' => OnQueue(x)')
  <2>1. CASE x = w
    BY <1>1, <1>2, <1>3, <2>1 DEF Claimable
  <2>2. CASE x # w
    BY <1>2, <1>3, <2>2, MildKept DEF Mild, QueueInv, RowKept
  <2> QED
    BY <2>1, <2>2
<1> QED
  BY <1>4, <1>5 DEF QueueInv

LEMMA OperatorQueue ==
    ASSUME ResumesWait, TypeOK, QueueInv, OperatorStep
    PROVE  QueueInv'
<1>1. UNCHANGED <<task, sweep, lateClaim>>
  BY DEF OperatorStep, Enqueue, Cancel, Delete, HandleResult, ResumeReopens,
     ResumeEnqueues, ResumeBreaksOff
<1>2. ReleaseInv' /\ \A x \in Workflow : HolderKept(x)
  BY <1>1, TasksRest, HoldersKept
<1>3. ASSUME row' = row PROVE QueueInv'
  BY <1>2, <1>3, RowsRest, QueueKept
<1>4. ASSUME NEW w \in Workflow, NEW r, row' = [row EXCEPT ![w] = r], RowKept(w)
      PROVE  QueueInv'
  BY <1>2, <1>4, OneRow, QueueKept
<1>5. ASSUME NEW w \in Workflow, NEW r, row' = [row EXCEPT ![w] = r],
             r.status = "ENQUEUED", r.queued = TRUE, r # NoRow
      PROVE  QueueInv'
  <2>1. row'[w] = r
    BY <1>5 DEF TypeOK
  <2>2. RowKept(w)
    BY <1>5, <2>1 DEF RowKept, Claimable, OnQueue
  <2> QED
    BY <1>4, <1>5, <2>2
<1>6. ASSUME NEW w \in Workflow, Enqueue(w) PROVE QueueInv'
  <2> DEFINE r == [status |-> "ENQUEUED", exec |-> Unowned, attempts |-> 0,
                   queued |-> TRUE, value |-> NoValue]
  <2>1. row' = [row EXCEPT ![w] = r]
    BY <1>6 DEF Enqueue
  <2>2. r.status = "ENQUEUED" /\ r.queued = TRUE
    OBVIOUS
  <2>3. r # NoRow
    BY <2>2 DEF NoRow
  <2> HIDE DEF r
  <2> QED
    BY <1>5, <2>1, <2>2, <2>3
<1>7. ASSUME NEW w \in Workflow, Cancel(w) PROVE QueueInv'
  <2> DEFINE r == CancelRow(row[w])
  <2>1. /\ row' = [row EXCEPT ![w] = r] /\ row[w] \in Row /\ "cancel" \in Moves
    BY <1>7, RowFields DEF Cancel
  <2>2. r.status = "CANCELLED"
    BY <2>1 DEF CancelRow, Row
  <2> HIDE DEF r
  <2>3. row'[w] = r /\ r # NoRow
    BY <2>1, <2>2, SMT DEF TypeOK, NoRow
  <2>4. RowKept(w)
    BY <2>1, <2>2, <2>3 DEF RowKept, Claimable, OnQueue
  <2> QED
    BY <1>4, <2>1, <2>4
<1>8. ASSUME NEW w \in Workflow, Delete(w) PROVE QueueInv'
  <2>1. row' = [row EXCEPT ![w] = NoRow] /\ Stopped(w) /\ ~ClaimDue(w)
    BY <1>8 DEF Delete, MayDelete, ResumesWait
  <2>2. NoRow.status # "ENQUEUED"
    BY DEF NoRow
  <2> QED
    BY <1>1, <2>1, <2>2, FreeKept
<1>9. ASSUME NEW o \in Operator, NEW w \in Workflow, ResumeReopens(o, w) PROVE QueueInv'
  <2> DEFINE r == ResumeRow(row[w])
  <2>1. /\ row' = [row EXCEPT ![w] = r] /\ row[w] \in Row
        /\ Stopped(w) /\ ~ClaimDue(w)
    BY <1>9, RowFields DEF ResumeReopens, MayResume, ResumesWait
  <2>2. r.status = "PENDING"
    BY <2>1 DEF ResumeRow, Row
  <2> HIDE DEF r
  <2>3. r.status # "ENQUEUED"
    BY <2>2
  <2> QED
    BY <1>1, <2>1, <2>3, FreeKept
<1>10. ASSUME NEW o \in Operator, ResumeEnqueues(o) PROVE QueueInv'
  <2>1. PICK w \in Workflow : w = resuming[o]
    BY <1>10 DEF ResumeEnqueues, TypeOK
  <2>2. CASE row' = row
    BY <1>3, <2>2
  <2>3. CASE row' # row
    <3> DEFINE r == EnqueueExisting(row[w])
    <3>1. row' = [row EXCEPT ![w] = r] /\ row[w] \in Row
      BY <1>10, <2>1, <2>3, RowFields DEF ResumeEnqueues
    <3>2. r.status = "ENQUEUED" /\ r.queued = TRUE
      BY <3>1 DEF EnqueueExisting, Row
    <3>3. r # NoRow
      BY <3>2, SMT DEF NoRow
    <3> HIDE DEF r
    <3> QED
      BY <1>5, <3>1, <3>2, <3>3
  <2> QED
    BY <2>2, <2>3
<1> QED
  BY <1>3, <1>6, <1>7, <1>8, <1>9, <1>10 DEF OperatorStep, HandleResult, ResumeBreaksOff

LEMMA ProcessQueue ==
    ASSUME TypeOK, QueueInv, NEW e \in Executor, ProcessStep(e)
    PROVE  QueueInv'
<1>1. UNCHANGED <<row, lateClaim>>
  BY DEF ProcessStep, Crash, Launch, Deactivate, Shutdown
<1>2. ASSUME NEW recover \in BOOLEAN, Launch(e, recover) PROVE QueueInv'
  <2>1. \A x \in Executor : sweep'[x] \subseteq sweep[x] \cup Listed({e})
    BY <1>2 DEF Launch, TypeOK
  <2>2. \A s \in Slot : SameTask(s)
    BY <1>2, LaunchTasks
  <2> QED
    BY <1>1, <2>1, <2>2, ListingHolder, RowsRest, QueueKept
<1>3. CASE Crash(e) \/ Deactivate(e) \/ Shutdown(e)
  <2>1. \A s \in Slot : task'[s] = task[s] \/ task'[s] = Idle
    BY <1>3 DEF Crash, Deactivate, Shutdown
  <2>2. \A x \in Executor : sweep'[x] \subseteq sweep[x]
    BY <1>3 DEF Crash, Deactivate, Shutdown, TypeOK
  <2> QED
    BY <1>1, <2>1, <2>2, TasksRest, RowsRest, HoldersKept, QueueKept
<1> QED
  BY <1>2, <1>3 DEF ProcessStep

LEMMA LateQueue ==
    ASSUME TypeOK, QueueInv, LateStep
    PROVE  QueueInv'
<1>1. UNCHANGED <<task, sweep>> /\ lateClaim' \subseteq lateClaim
  BY DEF LateStep, LateWriteCommits, LateWriteDropped, LateClaimCommits,
     LateClaimDropped
<1>2. ReleaseInv' /\ \A x \in Workflow : HolderKept(x)
  BY <1>1, TasksRest, HoldersKept
<1>3. CASE row' = row
  BY <1>2, <1>3, RowsRest, QueueKept
<1>4. ASSUME NEW l \in lateWrite, LateWriteCommits(l) PROVE QueueInv'
  <2>1. l.w \in Workflow /\ l.target \in Terminal
    BY DEF TypeOK, LateWrite
  <2>2. \/ row' = row
        \/ /\ CanSetStatus(row[l.w], l.target)
           /\ row' = [row EXCEPT ![l.w] = SetStatus(@, l.target, l.value)]
    BY <1>4 DEF LateWriteCommits
  <2> QED
    BY <1>2, <2>1, <2>2, WriteKept, QueueKept
<1>5. ASSUME NEW c \in lateClaim, LateClaimCommits(c) PROVE QueueInv'
  <2>1. c.g.w \in Workflow /\ c.g.queued \in BOOLEAN
    BY DEF TypeOK, LateClaim, Generation
  <2>2. c.g.queued = TRUE => QueueHolder(c.g.w)
    BY DEF QueueHolder
  <2>3. \/ row' = row
        \/ /\ ClaimMatches(c.g, row[c.g.w])
           /\ row' = [row EXCEPT ![c.g.w] =
                         ClaimForRecovery(c.g, c.cap, c.new, @)]
    BY <1>5 DEF LateClaimCommits
  <2>4. \A x \in Workflow : RowKept(x)
    BY <2>1, <2>2, <2>3, ClaimKept
  <2> QED
    BY <1>2, <2>4, QueueKept
<1> QED
  BY <1>3, <1>4, <1>5 DEF LateStep, LateWriteDropped, LateClaimDropped

LEMMA LateCheckpointQueue ==
    ASSUME TypeOK, QueueInv, LateCheckpointStep
    PROVE  QueueInv'
<1>1. UNCHANGED <<sweep, lateClaim>>
  BY DEF LateCheckpointStep, CheckpointDelayed, LateCheckpointCommits,
     LateCheckpointDropped
<1>2. ASSUME NEW s \in Slot, NEW p \in {"adopt", "settle"}, task[s].pc = "body", To(s, p)
      PROVE  \A x \in Slot : TaskMild(x)
  <2> DEFINE u == [task[s] EXCEPT !.pc = p]
  <2>1. task' = [task EXCEPT ![s] = u] /\ task[s] \in Task
    BY <1>2, TaskFields DEF To
  <2>2. u.pc = p /\ u.w = task[s].w /\ u.queued = task[s].queued
    BY <2>1 DEF Task
  <2> HIDE DEF u
  <2> QED
    BY <1>2, <2>1, <2>2, TaskMoves
<1>3. ASSUME NEW s \in Slot, CheckpointDelayed(s) PROVE QueueInv'
  <2>1. row' = row /\ \A x \in Slot : TaskMild(x)
    BY <1>2, <1>3 DEF CheckpointDelayed
  <2> QED
    BY <1>1, <2>1, RowsRest, HoldersKept, QueueKept
<1>4. ASSUME NEW c \in lateCheckpoint, LateCheckpointCommits(c) PROVE QueueInv'
  <2>1. c.w \in Workflow
    BY DEF TypeOK, LateCheckpoint
  <2>2. \/ row' = row
        \/ row[c.w] # NoRow /\ row' = [row EXCEPT ![c.w] = [@ EXCEPT !.exec = c.e]]
    BY <1>4 DEF LateCheckpointCommits
  <2>3. \A x \in Workflow : RowKept(x)
    BY <2>1, <2>2, OwnerKept
  <2>4. \A x \in Slot : TaskMild(x)
    BY <1>2, <1>4, TasksRest DEF LateCheckpointCommits
  <2> QED
    BY <1>1, <2>3, <2>4, HoldersKept, QueueKept
<1>5. ASSUME NEW c \in lateCheckpoint, LateCheckpointDropped(c) PROVE QueueInv'
  BY <1>1, <1>5, TasksRest, RowsRest, HoldersKept, QueueKept DEF LateCheckpointDropped
<1> QED
  BY <1>3, <1>4, <1>5 DEF LateCheckpointStep

LEMMA StepQueue ==
    ASSUME ResumesWait, ReleasesAreSafe, TypeOK, QueueInv, [Next]_vars
    PROVE  QueueInv'
<1>1. ASSUME NEW s \in Slot, BodyStep(s) \/ OutcomeStep(s) \/ SettleStep(s)
      PROVE  QueueInv'
  BY <1>1, BodyQueue, OutcomeQueue, SettleQueue
<1>2. ASSUME NEW s \in Slot, NEW fate, Release(s, fate)
      PROVE  QueueInv'
  BY <1>2, ReleaseQueue
<1>3. ASSUME NEW e \in Executor, DispatchStep(e) \/ SweepStep(e) \/ ProcessStep(e)
      PROVE  QueueInv'
  BY <1>3, StartQueue, DequeueQueue, SweepQueue, ProcessQueue DEF DispatchStep
<1>4. CASE UNCHANGED vars
  BY <1>4, TasksRest, RowsRest, HoldersKept, QueueKept DEF vars
<1> QED
  BY <1>1, <1>2, <1>3, <1>4, OperatorQueue, LateQueue, LateCheckpointQueue DEF Next

(* An ENQUEUED row names a queue, so that some dispatcher polls it, through *)
(* every requeue by a settlement or a sweep, every late claim, resume and   *)
(* release of a claim: enqueue, enqueue_existing and the requeueing branch  *)
(* of claim_for_recovery are the only writers of the status.                *)
THEOREM EnqueuedRowsAreClaimable ==
    ASSUME ResumesWait, ReleasesAreSafe PROVE Spec => []EnqueuedIsClaimable
<1>1. Init => QueueInv
  <2> SUFFICES ASSUME Init PROVE QueueInv
    OBVIOUS
  <2>1. Idle.pc = "idle" /\ NoRow.status # "ENQUEUED"
    BY DEF Idle, NoRow
  <2>2. \A w \in Workflow : Claimable(w)
    BY <2>1 DEF Init, Claimable
  <2>3. \A s \in Slot : task[s].pc = "idle"
    BY <2>1 DEF Init
  <2>4. \A w \in Workflow : ~QueueHolder(w)
    BY <2>3 DEF Init, QueueHolder, Returns
  <2>5. ReleaseInv
    BY <2>3 DEF ReleaseInv
  <2> QED
    BY <2>2, <2>4, <2>5 DEF QueueInv
<1>2. TypeOK /\ QueueInv /\ [Next]_vars => QueueInv'
  BY StepQueue
<1>3. QueueInv => EnqueuedIsClaimable
  BY DEF QueueInv, Claimable, EnqueuedIsClaimable
<1> QED
  BY <1>1, <1>2, <1>3, TypeCorrect, PTL DEF Spec

-----------------------------------------------------------------------------
(***************************************************************************)
(* No workflow is silently forgotten: a PENDING row that no task, sweep or *)
(* resume has in hand was left by one of the events for which the          *)
(* durability guide asks for explicit recovery.                            *)
(***************************************************************************)

(* Task s has row x in hand.                                               *)
Holds(s, x) ==
    /\ task[s].w = x
    /\ \/ Active(s)
       \/ /\ task[s].pc = "settle"
          /\ ClaimMatches(GenerationOf(task[s]), row[x])

SweepHolds(e, g, x) == g \in sweep[e] /\ g.w = x /\ ClaimMatches(g, row[x])

(* Row x is not stranded, before or after a step.                          *)
Kept(x) == row[x].status = "PENDING" => Owned(x) \/ x \in excused

LEMMA OwnedHolds ==
    \A x : Owned(x) <=> \/ \E s \in Slot : Holds(s, x)
                        \/ Resuming(x)
                        \/ \E e \in Executor : \E g : SweepHolds(e, g, x)
BY DEF Owned, Holds, SweepHolds, ActiveOn

(* A step that leaves row x and everyone who has it in hand alone.         *)
Steady(x) ==
    /\ row'[x] = row[x]
    /\ \A s \in Slot : Holds(s, x) => task'[s] = task[s] \/ SameTask(s)
    /\ \A e \in Executor : \A g : SweepHolds(e, g, x) => g \in sweep'[e]
    /\ \A o \in Operator : resuming[o] = x => resuming'[o] = x
    /\ x \in excused => x \in excused'

LEMMA SteadyKept ==
    ASSUME NEW x \in Workflow, Steady(x), Kept(x)
    PROVE  Kept(x)'
<1> SUFFICES ASSUME row'[x].status = "PENDING", x \notin excused'
             PROVE  Owned(x)'
  BY DEF Kept
<1>1. row'[x] = row[x] /\ Owned(x)
  BY DEF Steady, Kept
<1>2. CASE \E s \in Slot : Holds(s, x)
  <2>1. PICK s \in Slot : Holds(s, x)
    BY <1>2
  <2>2. Holds(s, x)'
    BY <1>1, <2>1 DEF Steady, Holds, Active, SameTask, GenerationOf
  <2>3. Owned(x)' <=> \/ \E y \in Slot : Holds(y, x)'
                      \/ Resuming(x)'
                      \/ \E e \in Executor : \E g : SweepHolds(e, g, x)'
    BY DEF Owned, Holds, SweepHolds, ActiveOn
  <2> QED
    BY <2>2, <2>3
<1>3. CASE Resuming(x)
  BY <1>3 DEF Steady, Resuming, Owned
<1>4. CASE \E e \in Executor : \E g : SweepHolds(e, g, x)
  BY <1>1, <1>4 DEF Steady, SweepHolds, Owned
<1> QED
  BY <1>1, <1>2, <1>3, <1>4, OwnedHolds

(* Ways to have row x in hand after a step.                                *)
LEMMA KeptByTask ==
    ASSUME NEW x \in Workflow, NEW s \in Slot, task'[s].w = x,
           \/ task'[s].pc \in {"body", "write", "readback", "release"}
           \/ /\ task'[s].pc = "settle"
              /\ row'[x].status = "PENDING" =>
                     /\ row'[x].exec = task'[s].e
                     /\ row'[x].attempts = task'[s].attempts
    PROVE  Kept(x)'
<1>1. CASE task'[s].pc # "settle"
  BY <1>1 DEF Kept, Owned, ActiveOn, Active
<1>2. CASE task'[s].pc = "settle" /\ row'[x].status = "PENDING"
  <2>1. ClaimMatches(GenerationOf(task[s]), row[x])'
    BY <1>2 DEF ClaimMatches, GenerationOf
  <2> QED
    BY <1>2, <2>1 DEF Kept, Owned
<1>3. CASE row'[x].status # "PENDING"
  BY <1>3 DEF Kept
<1> QED
  BY <1>1, <1>2, <1>3

LEMMA KeptOtherwise ==
    ASSUME NEW x \in Workflow, x \in excused' \/ row'[x].status # "PENDING"
    PROVE  Kept(x)'
BY DEF Kept

(* One task moves and its row may be rewritten: other rows are untouched.  *)
LEMMA OthersSteady ==
    ASSUME TypeOK, NEW s \in Slot, NEW w \in Workflow,
           \A y \in Slot \ {s} : task'[y] = task[y],
           task[s].pc \in {"idle", "adopt"} \/ task[s].w = w,
           \A y \in Workflow \ {w} : row'[y] = row[y],
           UNCHANGED <<sweep, resuming>>,
           excused \ {w} \subseteq excused'
    PROVE  \A x \in Workflow \ {w} : Steady(x)
<1> SUFFICES ASSUME NEW x \in Workflow \ {w} PROVE Steady(x)
  OBVIOUS
<1>1. ~Holds(s, x)
  BY DEF Holds, Active
<1> QED
  BY <1>1 DEF Steady, SweepHolds

AllKept == \A x \in Workflow : Kept(x)

(* It is enough to look at the one row that a task's step touches.         *)
LEMMA OneRowAtRisk ==
    ASSUME TypeOK, AllKept, NEW s \in Slot, NEW w \in Workflow,
           \A y \in Slot \ {s} : task'[y] = task[y],
           task[s].pc \in {"idle", "adopt"} \/ task[s].w = w,
           \A y \in Workflow \ {w} : row'[y] = row[y],
           UNCHANGED <<sweep, resuming>>,
           excused \ {w} \subseteq excused',
           Kept(w)'
    PROVE  AllKept'
<1>1. \A x \in Workflow \ {w} : Kept(x)'
  BY OthersSteady, SteadyKept DEF AllKept
<1> QED
  BY <1>1 DEF AllKept

-----------------------------------------------------------------------------
(* Every action keeps every row.                                           *)

LEMMA BodyKept ==
    ASSUME OwnershipInv, AllKept, NEW s \in Slot, BodyStep(s)
    PROVE  AllKept'
<1> USE DEF OwnershipInv
<1> DEFINE t == task[s]
<1>0. t.pc = "body"
  BY DEF BodyStep, Checkpoint, BodyReturns, BodyCancelled, BodyTimedOut,
     BodyConflict, BodyInterrupted, BodyPanics
<1>w. PICK w \in Workflow : w = t.w
  BY <1>0, TaskFields
<1>t. t \in Task /\ row[w].exec = t.e /\ row[w].attempts = t.attempts
  BY <1>0, <1>w, TaskFields DEF ActiveInv, Active
<1>1. UNCHANGED <<sweep, resuming, excused>>
  BY DEF BodyStep, Checkpoint, BodyReturns, BodyCancelled, BodyTimedOut,
     BodyConflict, BodyInterrupted, BodyPanics, Rest
<1>2. /\ \A y \in Slot \ {s} : task'[y] = task[y]
      /\ \A y \in Workflow \ {w} : row'[y] = row[y]
  BY <1>w DEF BodyStep, Checkpoint, BodyReturns, BodyCancelled, BodyTimedOut,
     BodyConflict, BodyInterrupted, BodyPanics, Rest, To, ToWrite, TypeOK
<1>3. Kept(w)'
  <2>1. CASE Checkpoint(s)
    <3>1. task'[s] = t
      BY <2>1 DEF Checkpoint
    <3> QED
      BY <1>0, <1>w, <3>1, KeptByTask
  <2>2. ASSUME NEW target, NEW v, ToWrite(s, target, v)
        PROVE  Kept(w)'
    <3>1. task'[s].pc = "write" /\ task'[s].w = w
      BY <1>w, <1>t, <2>2 DEF ToWrite, TypeOK, Task
    <3> QED
      BY <3>1, KeptByTask
  <2>3. CASE BodyConflict(s)
    BY <1>0, <2>3 DEF BodyConflict, OneActive, Active
  <2>4. CASE BodyInterrupted(s)
    <3>1. /\ task'[s].pc = "settle" /\ task'[s].w = w
          /\ task'[s].e = t.e /\ task'[s].attempts = t.attempts /\ row' = row
      BY <1>w, <1>t, <2>4, SMT DEF BodyInterrupted, To, TypeOK, Task, Rest
    <3> QED
      BY <1>t, <3>1, KeptByTask
  <2>5. CASE BodyPanics(s)
    <3>1. task'[s] = [t EXCEPT !.pc = "settle", !.cap = t.attempts] /\ row' = row
      BY <2>5 DEF BodyPanics, TypeOK, Rest
    <3>2. /\ task'[s].pc = "settle" /\ task'[s].w = w
          /\ task'[s].e = t.e /\ task'[s].attempts = t.attempts
      BY <1>w, <1>t, <3>1 DEF Task
    <3> QED
      BY <1>t, <3>1, <3>2, KeptByTask
  <2> QED
    BY <2>1, <2>2, <2>3, <2>4, <2>5 DEF BodyStep, BodyReturns, BodyCancelled,
       BodyTimedOut
<1> QED
  BY <1>0, <1>w, <1>1, <1>2, <1>3, OneRowAtRisk

LEMMA OutcomeKept ==
    ASSUME OwnershipInv, AllKept, NEW s \in Slot, OutcomeStep(s)
    PROVE  AllKept'
<1> USE DEF OwnershipInv
<1> DEFINE t == task[s]
<1>0. t.pc \in {"write", "readback", "adopt"}
  BY DEF OutcomeStep, WriteAnswered, WriteFails, Readback, Adopt, AdoptFails
<1>w. PICK w \in Workflow : w = t.w
  BY <1>0, TaskFields
<1>t. t \in Task /\ t.target \in Terminal
  BY <1>0, TaskFields
<1>1. UNCHANGED <<sweep, resuming, excused>>
  BY DEF OutcomeStep, WriteAnswered, WriteFails, Readback, Adopt, AdoptFails, Rest
<1>2. /\ \A y \in Slot \ {s} : task'[y] = task[y]
      /\ \A y \in Workflow \ {w} : row'[y] = row[y]
  BY <1>w, SMT DEF OutcomeStep, WriteAnswered, WriteFails, Readback, Adopt,
     AdoptFails, Rest, To, TypeOK
<1>3. Kept(w)'
  <2>1. CASE WriteAnswered(s)
    <3>1. row[w] # NoRow /\ row[w] \in Row
      BY <1>w, <2>1, RowFields DEF WriteAnswered, ActiveInv, Active
    <3>2. CASE CanSetStatus(row[w], t.target)
      <4>1. row'[w] = SetStatus(row[w], t.target, t.value)
        BY <1>w, <2>1, <3>2 DEF WriteAnswered, TypeOK
      <4>2. row'[w].status = t.target /\ t.target # "PENDING"
        BY <1>t, <3>1, <4>1 DEF SetStatus, Row, Terminal, Completed
      <4> QED
        BY <4>2, KeptOtherwise
    <3>3. CASE ~CanSetStatus(row[w], t.target)
      <4>1. row[w].status # "PENDING" /\ row' = row
        BY <1>w, <2>1, <3>1, <3>3 DEF WriteAnswered, CanSetStatus, Completed
      <4> QED
        BY <4>1, KeptOtherwise
    <3> QED
      BY <3>2, <3>3
  <2>2. ASSUME NEW fate, WriteFails(s, fate)
        PROVE  Kept(w)'
    <3>1. task'[s].pc = "readback" /\ task'[s].w = w
      BY <1>w, <1>t, <2>2 DEF WriteFails, To, TypeOK, Task
    <3> QED
      BY <3>1, KeptByTask
  <2>3. ASSUME NEW fate, Readback(s, fate)
        PROVE  Kept(w)'
    <3>1. row' = row /\ t.pc = "readback"
      BY <2>3 DEF Readback, Rest
    <3>2. CASE row[w].status \in Terminal
      <4>1. row[w].status # "PENDING"
        BY <3>2 DEF Terminal, Completed
      <4> QED
        BY <3>1, <4>1, KeptOtherwise
    <3>3. CASE row[w].status \notin Terminal
      <4>1. row[w].exec = t.e /\ row[w].attempts = t.attempts
        BY <1>w, <3>1 DEF ActiveInv, Active
      <4>2. /\ task'[s].pc = "settle" /\ task'[s].w = w
            /\ task'[s].e = t.e /\ task'[s].attempts = t.attempts
        BY <1>w, <1>t, <2>3, <3>3, SMT DEF Readback, To, TypeOK, Task
      <4> QED
        BY <3>1, <4>1, <4>2, KeptByTask
    <3> QED
      BY <3>2, <3>3
  <2>4. CASE Adopt(s) \/ AdoptFails(s)
    <3>1. row' = row /\ t.pc = "adopt"
      BY <2>4 DEF Adopt, AdoptFails, Rest
    <3>2. ~Holds(s, w)
      BY <3>1 DEF Holds, Active
    <3>3. Steady(w)
      BY <1>1, <1>2, <3>1, <3>2 DEF Steady, SweepHolds
    <3> QED
      BY <3>3, SteadyKept DEF AllKept
  <2> QED
    BY <2>1, <2>2, <2>3, <2>4 DEF OutcomeStep
<1> QED
  BY <1>0, <1>w, <1>1, <1>2, <1>3, OneRowAtRisk

(* A claim that is not for direct dispatch takes its row out of PENDING.   *)
LEMMA ClaimLeavesPending ==
    ASSUME NEW r \in Row, NEW g, NEW cap, NEW new,
           ClaimOutcome(g, cap) # "claimed"
    PROVE  ClaimForRecovery(g, cap, new, r).status # "PENDING"
BY DEF ClaimForRecovery, ClaimOutcome, Row

LEMMA NewBodyHolds ==
    ASSUME NEW x \in Workflow, NEW s \in Slot, NEW e, NEW n, NEW q,
           task'[s] = NewBody(x, e, n, q)
    PROVE  Kept(x)'
<1>1. task'[s].pc = "body" /\ task'[s].w = x
  BY SMT DEF NewBody
<1> QED
  BY <1>1, KeptByTask

LEMMA SettleKept ==
    ASSUME OwnershipInv, AllKept, NEW s \in Slot, SettleStep(s)
    PROVE  AllKept'
<1> USE DEF OwnershipInv
<1> DEFINE t == task[s]
           g == GenerationOf(t)
<1>0. t.pc = "settle"
  BY DEF SettleStep, SettleStops, SettleAnswered, SettleFails
<1>w. PICK w \in Workflow : w = t.w
  BY <1>0, TaskFields
<1>1. UNCHANGED <<sweep, resuming>> /\ excused \ {w} \subseteq excused'
  BY <1>w DEF SettleStep, SettleStops, SettleAnswered, SettleFails
<1>2. /\ \A y \in Slot \ {s} : task'[y] = task[y]
      /\ \A y \in Workflow \ {w} : row'[y] = row[y]
  BY <1>w DEF SettleStep, SettleStops, SettleAnswered, SettleFails, TypeOK
<1>3. Kept(w)'
  <2>1. CASE SettleStops(s)
    BY <1>w, <2>1, KeptOtherwise DEF SettleStops
  <2>2. ASSUME NEW fate, SettleFails(s, fate)
        PROVE  Kept(w)'
    BY <1>w, <2>2, KeptOtherwise DEF SettleFails
  <2>3. CASE SettleAnswered(s) /\ ~ClaimMatches(g, row[w])
    <3>1. ~Holds(s, w)
      BY <1>0, <2>3 DEF Holds, Active
    <3>2. row' = row /\ excused' = excused
      BY <1>w, <2>3 DEF SettleAnswered
    <3>3. Steady(w)
      BY <1>1, <1>2, <3>1, <3>2 DEF Steady, SweepHolds
    <3> QED
      BY <3>3, SteadyKept DEF AllKept
  <2>4. CASE SettleAnswered(s) /\ ClaimMatches(g, row[w])
    <3>1. row[w] \in Row
      BY <1>w, <2>4, Present, StatusNames DEF ClaimMatches, Status
    <3>2. row'[w] = ClaimForRecovery(g, Cap(s), t.e, row[w])
      BY <1>w, <2>4 DEF SettleAnswered, TypeOK
    <3>3. CASE ClaimOutcome(g, Cap(s)) # "claimed"
      <4> HIDE DEF g
      <4> QED
        BY <3>1, <3>2, <3>3, ClaimLeavesPending, KeptOtherwise
    <3>4. CASE ClaimOutcome(g, Cap(s)) = "claimed" /\ (t.old \/ flags[t.e] # {"alive"})
      <4>1. w \in excused'
        BY <1>w, <2>4, <3>4 DEF SettleAnswered
      <4> QED
        BY <4>1, KeptOtherwise
    <3>5. CASE ClaimOutcome(g, Cap(s)) = "claimed" /\ ~t.old /\ flags[t.e] = {"alive"}
      <4>1. task'[s] = NewBody(w, t.e, t.attempts + 1, FALSE)
        BY <1>w, <2>4, <3>5 DEF SettleAnswered, TypeOK
      <4> QED
        BY <4>1, NewBodyHolds
    <3> QED
      BY <3>3, <3>4, <3>5
  <2> QED
    BY <2>1, <2>2, <2>3, <2>4 DEF SettleStep
<1> QED
  BY <1>0, <1>w, <1>1, <1>2, <1>3, OneRowAtRisk

LEMMA DispatchKept ==
    ASSUME OwnershipInv, AllKept, NEW e \in Executor, DispatchStep(e)
    PROVE  AllKept'
<1> USE DEF OwnershipInv
<1>0. PICK w \in Workflow, s \in Slot, fate \in {"ok", "lost"} :
          Start(e, w, s, fate) \/ Dequeue(e, w, s, fate)
  BY DEF DispatchStep
<1>1. /\ UNCHANGED <<sweep, resuming>> /\ excused \ {w} \subseteq excused'
      /\ \A y \in Workflow \ {w} : row'[y] = row[y]
  BY <1>0 DEF Start, Dequeue, TypeOK
<1>2. CASE fate = "lost"
  <2>1. task' = task /\ w \in excused'
    BY <1>0, <1>2 DEF Start, Dequeue
  <2>2. \A x \in Workflow \ {w} : Steady(x)
    BY <1>1, <2>1 DEF Steady, SweepHolds
  <2> QED
    BY <2>1, <2>2, SteadyKept, KeptOtherwise DEF AllKept
<1>3. CASE fate = "ok"
  <2>1. task[s].pc = "idle" /\ \A y \in Slot \ {s} : task'[y] = task[y]
    <3>1. task[s] = Idle /\ \E u : task' = [task EXCEPT ![s] = u]
      BY <1>0, <1>3 DEF Start, Dequeue
    <3> QED
      BY <3>1, SMT DEF Idle, TypeOK
  <2>2. /\ task'[s].pc \in {"body", "release"} /\ task'[s].w = w
    <3>1. CASE Start(e, w, s, fate)
      <4>1. task'[s] = NewBody(w, e, 0, FALSE)
        BY <1>3, <3>1 DEF Start, TypeOK
      <4> QED
        BY <4>1, SMT DEF NewBody
    <3>2. CASE Dequeue(e, w, s, fate)
      <4>1. task'[s] = [NewBody(w, e, row[w].attempts, TRUE) EXCEPT
                !.pc = IF w \in Registered[e] THEN "body" ELSE "release"]
        BY <1>3, <3>2 DEF Dequeue, TypeOK
      <4> QED
        BY <4>1 DEF NewBody
    <3> QED
      BY <1>0, <3>1, <3>2
  <2>3. Kept(w)'
    BY <2>2, KeptByTask
  <2> QED
    BY <1>1, <2>1, <2>3, OneRowAtRisk
<1> QED
  BY <1>2, <1>3

LEMMA ReleaseKept ==
    ASSUME OwnershipInv, AllKept, NEW s \in Slot, NEW fate, Release(s, fate)
    PROVE  AllKept'
<1> USE DEF OwnershipInv
<1>0. task[s].pc = "release"
  BY DEF Release
<1>w. PICK w \in Workflow : w = task[s].w
  BY <1>0, TaskFields
<1>1. /\ UNCHANGED <<sweep, resuming>> /\ excused \ {w} \subseteq excused'
      /\ \A y \in Slot \ {s} : task'[y] = task[y]
      /\ \A y \in Workflow \ {w} : row'[y] = row[y]
  BY <1>w DEF Release, TypeOK
<1>2. row[w] # NoRow /\ row[w] \in Row
  BY <1>0, <1>w, RowFields DEF ActiveInv, Active
<1>3. Kept(w)'
  <2>1. CASE fate = "never"
    BY <1>w, <2>1, KeptOtherwise DEF Release
  <2>2. CASE fate # "never"
    <3>1. row'[w] = [row[w] EXCEPT !.status = "ENQUEUED"]
      BY <1>w, <1>2, <2>2 DEF Release, TypeOK
    <3>2. row'[w].status = "ENQUEUED"
      BY <1>2, <3>1 DEF Row
    <3> QED
      BY <3>2, KeptOtherwise
  <2> QED
    BY <2>1, <2>2
<1> QED
  BY <1>0, <1>w, <1>1, <1>3, OneRowAtRisk

LEMMA SweepKept ==
    ASSUME OwnershipInv, AllKept, NEW e \in Executor, SweepStep(e)
    PROVE  AllKept'
<1> USE DEF OwnershipInv
<1>1. ASSUME NEW execs, RecoverPendingFor(e, execs)
      PROVE  AllKept'
  <2>1. \A f \in Executor : sweep[f] \subseteq sweep'[f]
    BY <1>1 DEF RecoverPendingFor, TypeOK
  <2>2. \A x \in Workflow : Steady(x)
    BY <1>1, <2>1 DEF RecoverPendingFor, Steady, SweepHolds
  <2> QED
    BY <2>2, SteadyKept DEF AllKept
<1>2. ASSUME NEW g \in sweep[e], NEW s \in Slot, SweepAnswered(e, g, s)
      PROVE  AllKept'
  <2>0. PICK w \in Workflow : w = g.w
    BY SMT DEF TypeOK, Generation
  <2>1. /\ resuming' = resuming /\ excused \ {w} \subseteq excused'
        /\ \A y \in Workflow \ {w} : row'[y] = row[y]
        /\ \A y \in Slot : task[y] # Idle => task'[y] = task[y]
    BY <1>2, <2>0 DEF SweepAnswered, TypeOK
  <2>2. \A f \in Executor : \A h \in sweep[f] :
            h \in sweep'[f] \/ (f = e /\ h = g)
    BY <1>2 DEF SweepAnswered, TypeOK
  <2>3. \A y \in Slot, x \in Workflow : Holds(y, x) => task[y] # Idle
    BY SMT DEF Holds, Active, Idle
  <2>4. \A x \in Workflow \ {w} : Steady(x)
    BY <2>0, <2>1, <2>2, <2>3 DEF Steady, SweepHolds
  <2>5. Kept(w)'
    <3>1. CASE ~ClaimMatches(g, row[w]) /\ (g.queued \/ g.w \in Registered[e])
      <4>1. row' = row /\ excused' = excused
        BY <1>2, <2>0, <3>1 DEF SweepAnswered
      <4>2. Steady(w)
        BY <2>1, <2>2, <2>3, <3>1, <4>1 DEF Steady, SweepHolds
      <4> QED
        BY <4>2, SteadyKept DEF AllKept
    <3>2. CASE ~(g.queued \/ g.w \in Registered[e])
      BY <1>2, <2>0, <3>2, KeptOtherwise DEF SweepAnswered
    <3>3. CASE ClaimMatches(g, row[w]) /\ (g.queued \/ g.w \in Registered[e])
      <4>1. row[w] \in Row
        BY <3>3, Present, StatusNames DEF ClaimMatches, Status
      <4>2. row'[w] = ClaimForRecovery(g, MaxRecoveryAttempts, e, row[w])
        BY <1>2, <2>0, <3>3 DEF SweepAnswered, TypeOK
      <4>3. CASE ClaimOutcome(g, MaxRecoveryAttempts) # "claimed"
        BY <4>1, <4>2, <4>3, ClaimLeavesPending, KeptOtherwise
      <4>4. CASE ClaimOutcome(g, MaxRecoveryAttempts) = "claimed"
        <5>1. task'[s] = NewBody(w, e, g.attempts + 1, FALSE)
          BY <1>2, <2>0, <3>3, <4>4 DEF SweepAnswered, TypeOK
        <5> QED
          BY <5>1, NewBodyHolds
      <4> QED
        BY <4>3, <4>4
    <3> QED
      BY <3>1, <3>2, <3>3
  <2> QED
    BY <2>4, <2>5, SteadyKept DEF AllKept
<1>3. ASSUME \/ SweepStops(e)
             \/ \E g \in sweep[e], fate \in {"lost", "never", "late"} :
                    SweepFails(e, g, fate)
      PROVE  AllKept'
  <2>1. /\ UNCHANGED <<task, resuming>>
        /\ sweep' = [sweep EXCEPT ![e] = {}]
        /\ excused' = excused \cup {h.w : h \in sweep[e]}
        /\ \A y \in Workflow : row'[y] = row[y] \/ \E h \in sweep[e] : h.w = y
    BY <1>3, SMT DEF SweepStops, SweepFails, TypeOK
  <2>2. ASSUME NEW x \in Workflow, ~\E h \in sweep[e] : h.w = x
        PROVE  Steady(x)
    <3>1. \A f \in Executor : \A h : SweepHolds(f, h, x) => h \in sweep'[f]
      BY <2>1, <2>2 DEF SweepHolds, TypeOK
    <3> QED
      BY <2>1, <2>2, <3>1 DEF Steady
  <2>3. ASSUME NEW x \in Workflow, \E h \in sweep[e] : h.w = x
        PROVE  x \in excused'
    BY <2>1, <2>3
  <2> QED
    BY <2>2, <2>3, SteadyKept, KeptOtherwise DEF AllKept
<1> QED
  BY <1>1, <1>2, <1>3 DEF SweepStep

LEMMA LateKept ==
    ASSUME OwnershipInv, AllKept, LateStep
    PROVE  AllKept'
<1> USE DEF OwnershipInv
<1>1. UNCHANGED <<task, sweep, resuming>> /\ excused \subseteq excused'
  BY DEF LateStep, LateWriteCommits, LateWriteDropped, LateClaimCommits,
     LateClaimDropped
<1>2. ASSUME NEW x \in Workflow, row'[x] = row[x]
      PROVE  Kept(x)'
  BY <1>1, <1>2, SteadyKept DEF Steady, SweepHolds, AllKept
<1>3. ASSUME NEW x \in Workflow, row'[x] # row[x]
      PROVE  Kept(x)'
  <2>1. ASSUME NEW l \in lateWrite, LateWriteCommits(l)
        PROVE  Kept(x)'
    <3>1. /\ l.w = x /\ CanSetStatus(row[x], l.target)
          /\ row'[x] = SetStatus(row[x], l.target, l.value)
      BY <1>3, <2>1 DEF LateWriteCommits, TypeOK
    <3>2. row[x] \in Row /\ l.target \in Terminal
      BY <3>1, RowFields DEF CanSetStatus, TypeOK, LateWrite
    <3>3. row'[x].status # "PENDING"
      BY <3>1, <3>2 DEF SetStatus, Row, Terminal, Completed
    <3> QED
      BY <3>3, KeptOtherwise
  <2>2. ASSUME NEW c \in lateClaim, LateClaimCommits(c)
        PROVE  Kept(x)'
    <3>1. x \in excused'
      BY <1>3, <2>2 DEF LateClaimCommits, TypeOK
    <3> QED
      BY <3>1, KeptOtherwise
  <2> QED
    BY <1>3, <2>1, <2>2 DEF LateStep, LateWriteDropped, LateClaimDropped
<1> QED
  BY <1>2, <1>3 DEF AllKept

LEMMA OperatorKept ==
    ASSUME OwnershipInv, AllKept, OperatorStep
    PROVE  AllKept'
<1> USE DEF OwnershipInv
<1>1. UNCHANGED <<task, sweep>>
  BY DEF OperatorStep, Enqueue, Cancel, Delete, HandleResult, ResumeReopens,
     ResumeEnqueues, ResumeBreaksOff
<1>2. ASSUME NEW w \in Workflow, \A y \in Workflow \ {w} : row'[y] = row[y],
             \A o \in Operator : resuming[o] # w => resuming[o] = NoWorkflow
                                     \/ resuming'[o] = resuming[o],
             excused \ {w} \subseteq excused', Kept(w)'
      PROVE  AllKept'
  <2>1. \A x \in Workflow \ {w} : Steady(x)
    BY <1>1, <1>2, NameAssumption DEF Steady, SweepHolds
  <2> QED
    BY <1>2, <2>1, SteadyKept DEF AllKept
<1>3. ASSUME NEW w \in Workflow, Enqueue(w) \/ Cancel(w) \/ Delete(w)
      PROVE  AllKept'
  <2>1. row'[w].status # "PENDING"
    <3>1. CASE Enqueue(w)
      <4>1. row'[w] = [status |-> "ENQUEUED", exec |-> Unowned, attempts |-> 0,
                       queued |-> TRUE, value |-> NoValue]
        BY <3>1 DEF Enqueue, TypeOK
      <4> QED
        BY <4>1, SMT
    <3>2. CASE Cancel(w)
      <4>1. row'[w] = CancelRow(row[w]) /\ row[w] \in Row
        BY <3>2, RowFields DEF Cancel, TypeOK
      <4> QED
        BY <4>1 DEF CancelRow, Row
    <3>3. CASE Delete(w)
      <4>1. row'[w] = NoRow
        BY <3>3 DEF Delete, TypeOK
      <4> QED
        BY <4>1, SMT DEF NoRow
    <3> QED
      BY <1>3, <3>1, <3>2, <3>3
  <2>2. /\ \A y \in Workflow \ {w} : row'[y] = row[y]
        /\ resuming' = resuming /\ excused \ {w} \subseteq excused'
    BY <1>3 DEF Enqueue, Cancel, Delete, TypeOK
  <2> QED
    BY <1>2, <2>1, <2>2, KeptOtherwise
<1>4. ASSUME NEW w \in Workflow, HandleResult(w)
      PROVE  AllKept'
  <2>1. \A x \in Workflow : Steady(x)
    BY <1>4 DEF HandleResult, Steady, SweepHolds
  <2> QED
    BY <2>1, SteadyKept DEF AllKept
<1>5. ASSUME NEW o \in Operator, NEW w \in Workflow, ResumeReopens(o, w)
      PROVE  AllKept'
  <2>1. /\ \A y \in Workflow \ {w} : row'[y] = row[y] /\ excused' = excused
        /\ resuming[o] = NoWorkflow /\ resuming'[o] = w
        /\ \A p \in Operator \ {o} : resuming'[p] = resuming[p]
    BY <1>5 DEF ResumeReopens, TypeOK
  <2>2. Kept(w)'
    BY <2>1 DEF Kept, Owned, Resuming
  <2>3. \A p \in Operator : resuming[p] = NoWorkflow \/ resuming'[p] = resuming[p]
    BY <2>1
  <2> QED
    BY <1>2, <1>5, <2>1, <2>2, <2>3 DEF ResumeReopens
<1>6. ASSUME NEW o \in Operator, ResumeEnqueues(o) \/ ResumeBreaksOff(o)
      PROVE  AllKept'
  <2>1. PICK w \in Workflow : w = resuming[o]
    BY <1>6 DEF ResumeEnqueues, ResumeBreaksOff, TypeOK
  <2>2. /\ \A y \in Workflow \ {w} : row'[y] = row[y]
        /\ \A p \in Operator : resuming[p] # w => resuming'[p] = resuming[p]
        /\ excused \subseteq excused'
    BY <1>6, <2>1 DEF ResumeEnqueues, ResumeBreaksOff, TypeOK
  <2>3. row[w].status \in {"PENDING", "CANCELLED"}
    BY <2>1 DEF ResumeInv
  <2>4. row[w] # NoRow /\ row[w] \in Row
    BY <2>3, Present, StatusNames DEF Status
  <2>5. Kept(w)'
    <3>1. CASE ResumeEnqueues(o)
      <4>1. row'[w] = EnqueueExisting(row[w])
        BY <2>1, <2>4, <3>1 DEF ResumeEnqueues, TypeOK
      <4>2. row'[w].status # "PENDING"
        BY <2>4, <4>1 DEF EnqueueExisting, Row
      <4> QED
        BY <4>2, KeptOtherwise
    <3>2. CASE ResumeBreaksOff(o)
      BY <2>1, <3>2, KeptOtherwise DEF ResumeBreaksOff
    <3> QED
      BY <1>6, <3>1, <3>2
  <2> QED
    BY <1>2, <2>2, <2>5
<1> QED
  BY <1>3, <1>4, <1>5, <1>6 DEF OperatorStep

LEMMA ProcessKept ==
    ASSUME OwnershipInv, AllKept, NEW e \in Executor, ProcessStep(e)
    PROVE  AllKept'
<1> USE DEF OwnershipInv
<1>1. UNCHANGED <<row, resuming>> /\ excused \subseteq excused'
  BY DEF ProcessStep, Crash, Launch, Deactivate, Shutdown
<1>2. CASE Crash(e)
  <2> DEFINE gone == {task[s].w : s \in TasksOf(e)} \cup {g.w : g \in sweep[e]}
  <2>1. \A x \in Workflow \cap gone : x \in excused'
    BY <1>2 DEF Crash
  <2>2. ASSUME NEW x \in Workflow \ gone PROVE Steady(x)
    <3>1. \A s \in Slot : Holds(s, x) => task'[s] = task[s]
      BY <1>2, <2>2 DEF Crash, Holds
    <3>2. \A f \in Executor : \A h : SweepHolds(f, h, x) => h \in sweep'[f]
      BY <1>2, <2>2 DEF Crash, SweepHolds, TypeOK
    <3> QED
      BY <1>1, <3>1, <3>2 DEF Steady
  <2> QED
    BY <2>1, <2>2, SteadyKept, KeptOtherwise DEF AllKept
<1>l. ASSUME NEW recover \in BOOLEAN, Launch(e, recover) PROVE AllKept'
  <2> DEFINE gone == {g.w : g \in sweep[e]}
  <2>1. \A x \in Workflow \cap gone : x \in excused'
    BY <1>l DEF Launch
  <2>2. \A s \in Slot : SameTask(s)
    BY <1>l, LaunchTasks
  <2>3. ASSUME NEW x \in Workflow \ gone PROVE Steady(x)
    <3>1. \A f \in Executor : \A h : SweepHolds(f, h, x) => h \in sweep'[f]
      BY <1>l, <2>3 DEF Launch, SweepHolds, TypeOK
    <3> QED
      BY <1>1, <2>2, <3>1 DEF Steady
  <2> QED
    BY <2>1, <2>3, SteadyKept, KeptOtherwise DEF AllKept
<1>3. CASE Deactivate(e) \/ Shutdown(e)
  <2>1. task' = task /\ \A f \in Executor : sweep[f] \subseteq sweep'[f]
    BY <1>3 DEF Deactivate, Shutdown, TypeOK
  <2>2. \A x \in Workflow : Steady(x)
    BY <1>1, <2>1 DEF Steady, SweepHolds
  <2> QED
    BY <2>2, SteadyKept DEF AllKept
<1> QED
  BY <1>2, <1>l, <1>3 DEF ProcessStep

-----------------------------------------------------------------------------

(* Whatever call is lost or delayed (checkpoints aside), whatever body is  *)
(* interrupted and whichever executor stops or dies, a PENDING row is in   *)
(* somebody's hands or is one of the rows that the durability guide leaves *)
(* to explicit recovery.                                                   *)
THEOREM NothingForgotten ==
    ASSUME AllRules, NoLateCheckpoint PROVE Spec => []NoSilentStrand
<1>1. Init => NoSilentStrand
  BY SMT DEF Init, NoSilentStrand, NoRow
<1>2. NoSilentStrand <=> AllKept
  BY DEF NoSilentStrand, AllKept, Kept
<1>3. OwnershipInv /\ AllKept /\ [Next]_vars => AllKept'
  <2> SUFFICES ASSUME OwnershipInv, AllKept, [Next]_vars PROVE AllKept'
    OBVIOUS
  <2>1. CASE UNCHANGED vars
    BY <2>1, SteadyKept DEF vars, AllKept, Steady, SweepHolds
  <2>2. ~LateCheckpointStep
    BY DEF NoLateCheckpoint, LateCheckpointStep
  <2> QED
    BY <2>1, <2>2, BodyKept, OutcomeKept, SettleKept, ReleaseKept, DispatchKept,
       SweepKept, ProcessKept, OperatorKept, LateKept DEF Next
<1> QED
  BY <1>1, <1>2, <1>3, OwnershipInvariant, PTL DEF Spec
=============================================================================
