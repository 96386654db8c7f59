--------------------------- MODULE DispatchProofs ---------------------------
(* The limits of a queue hold for any number of executors, rows,           *)
(* partitions and settings.                                                *)
EXTENDS QueueDispatch, FiniteSetTheorems, TLAPS

Owner == Dispatcher \cup {NoOne}
QueueStatus == {"NEW", "DELAYED", "ENQUEUED", "PENDING", "CANCELLED", "SUCCESS"}
LoopStates ==
    [pc : {"poll", "parts", "next", "select", "update", "spawn"},
     todo : SUBSET (Parts \cup {AnyPart}), part : Parts \cup {AnyPart}, room : Nat,
     snap : SUBSET QRow, got : SUBSET QRow]
QueueTypeOK ==
    /\ qset \in Settings
    /\ qrow \in [QRow -> [st : QueueStatus, on : BOOLEAN, by : Owner]]
    /\ qdue \subseteq QRow /\ qfresh \subseteq QRow
    /\ task \subseteq Dispatcher \X QRow
    /\ disp \in [Dispatcher -> LoopStates]
    /\ local \in [Dispatcher -> [Parts \cup {AnyPart} -> Int]]

(* A loop is at a partition of the queue, and claims rows of it.           *)
Placed(d) ==
    /\ disp[d].todo \subseteq MyParts
    /\ disp[d].pc \in {"select", "update", "spawn"} => disp[d].part \in MyParts
    /\ disp[d].pc \in {"update", "spawn"} => disp[d].got \subseteq Scope(disp[d].part)

(* The counter covers the tasks it counts, and leaves room for those that  *)
(* the loop may still spawn.                                               *)
Tasks(d, p) == {t \in task : t[1] = d /\ t[2] \in Scope(p)}
Slots(d, p) ==
    /\ Cardinality(Tasks(d, p)) <= local[d][p]
    /\ local[d][p] <= qset.worker
    /\ disp[d].part = p =>
          /\ disp[d].pc = "select" => local[d][p] + disp[d].room <= qset.worker
          /\ disp[d].pc \in {"update", "spawn"} =>
                local[d][p] + Cardinality(disp[d].got) <= qset.worker
WorkerInv == qset.worker # NoLimit => \A d \in Dispatcher, p \in MyParts : Slots(d, p)

LoopInv == QueueTypeOK /\ (\A d \in Dispatcher : Placed(d)) /\ WorkerInv

(* What one executor has running, or started within the period.            *)
Busy(p) == QRows("PENDING") \cap Scope(p)
BusyOf(d, p) == {r \in Busy(p) : qrow[r].by = d}
RecentOf(d, p) == {r \in Recent(p) : qrow[r].by = d}

(* With the rows B of its own, a loop at x keeps to a limit n, also after  *)
(* the claim it may be about to make.                                      *)
Fits(x, B, p, n) ==
    /\ Cardinality(B) <= n
    /\ x.part = p =>
          /\ x.pc = "select" => Cardinality(B) + x.room <= n
          /\ x.pc = "update" => Cardinality(B) + Cardinality(x.got) <= n

(* Whoever is past its first poll, and whoever claimed a row, listens; and *)
(* no executor on its own exceeds a limit.                                 *)
ListenInv ==
    /\ \A d \in Dispatcher : disp[d].pc # "poll" => d \in qset.listens
    /\ \A r \in QRow : qrow[r].st = "PENDING" \/ r \in qfresh => qrow[r].by \in qset.listens
OwnLimitInv ==
    \A d \in Dispatcher, p \in MyParts :
      /\ qset.global # NoLimit => Fits(disp[d], BusyOf(d, p), p, qset.global)
      /\ qset.rate # NoLimit => Fits(disp[d], RecentOf(d, p), p, qset.rate)
StartInv == ListenInv /\ OwnLimitInv

(* ------------------------------------------------ numbers and sets *)

(* The prover of a leaf that names none.                                   *)
USE Zenon

LEMMA MinIs ==
    ASSUME NEW S, S \subseteq Nat, S # {}
    PROVE  Min(S) \in S /\ \A y \in S : Min(S) <= y
<1> DEFINE P(z) == z \in S /\ \A y \in S : z <= y
<1>1. \E z : P(z)
  <2> DEFINE R == OpToRel(<, Nat)
  <2>1. PICK i \in S : \A j \in S : ~(<<j, i>> \in R)
    BY NatLessThanWellFounded, WFMin
  <2>2. \A j \in S : j < i => <<j, i>> \in R
    BY DEF OpToRel
  <2> HIDE DEF R
  <2>3. \A j \in S : ~(j < i)
    BY <2>1, <2>2
  <2>4. i \in Nat /\ \A j \in S : i <= j
    BY <2>3, SMT
  <2> QED BY <2>4
<1> HIDE DEF P
<1>2. P(CHOOSE z : P(z))
  BY <1>1
<1> USE DEF P
<1>3. P(CHOOSE z \in S : \A y \in S : z <= y)
  BY <1>2
<1> QED BY <1>3 DEF Min

LEMMA MaxZero == ASSUME NEW a \in Int PROVE Max({0, a}) = IF a > 0 THEN a ELSE 0
<1> DEFINE m == IF a > 0 THEN a ELSE 0
           P(z) == z \in {0, a} /\ \A y \in {0, a} : z >= y
<1>1. P(m)
  BY SMT
<1>2. ASSUME NEW z, P(z) PROVE z = m
  BY <1>2, SMT
<1>3. P(CHOOSE z : P(z))
  <2> HIDE DEF P
  <2> QED BY <1>1
<1>4. P(CHOOSE z \in {0, a} : \A y \in {0, a} : z >= y)
  BY <1>3
<1>5. P(Max({0, a}))
  BY <1>4 DEF Max
<1> HIDE DEF P
<1> QED BY <1>2, <1>5

(* LIMIT n: ranks differ, so the rows before a row number it.              *)
LEMMA FrontBound ==
    ASSUME NEW S \in SUBSET QRow, NEW n \in Nat
    PROVE  /\ FrontOf(S, n) \subseteq S /\ IsFiniteSet(FrontOf(S, n))
           /\ Cardinality(FrontOf(S, n)) <= n
<1> DEFINE Lower(r) == {s \in S : Rank[s] < Rank[r]}
           F == FrontOf(S, n)
           f == [r \in F |-> Cardinality(Lower(r))]
           T == 0 .. n - 1
<1>1. IsFiniteSet(S) /\ F \subseteq S /\ IsFiniteSet(F)
  BY QueueAssumption, FS_Subset DEF FrontOf
<1>2. \A r \in S : IsFiniteSet(Lower(r)) /\ Cardinality(Lower(r)) \in Nat
  BY <1>1, FS_Subset, FS_CardinalityType
<1>3. f \in [F -> T]
  <2>1. \A r \in F : Cardinality(Lower(r)) < n
    BY DEF FrontOf
  <2> HIDE DEF Lower, F
  <2>2. \A r \in F : Cardinality(Lower(r)) \in T
    BY <1>1, <1>2, <2>1, SMT
  <2> QED BY <2>2
<1>4. ASSUME NEW r \in F, NEW s \in F, Rank[r] < Rank[s] PROVE f[r] < f[s]
  <2>1. Lower(r) \subseteq Lower(s) /\ r \in Lower(s) /\ r \notin Lower(r)
    BY <1>1, <1>4, QueueAssumption, SMT
  <2>2. Cardinality(Lower(r)) <= Cardinality(Lower(s)) /\ Cardinality(Lower(r)) # Cardinality(Lower(s))
    BY <1>1, <1>2, <2>1, FS_Subset
  <2> HIDE DEF Lower
  <2> QED BY <1>1, <1>2, <2>2, SMT
<1>5. \A r, s \in F : f[r] = f[s] => r = s
  <2> SUFFICES ASSUME NEW r \in F, NEW s \in F, f[r] = f[s], r # s PROVE FALSE
    OBVIOUS
  <2>1. Rank[r] \in Nat /\ Rank[s] \in Nat /\ Rank[r] # Rank[s]
    BY <1>1, QueueAssumption
  <2>2. f[r] \in Int /\ f[s] \in Int
    BY <1>3, SMT
  <2>3. ~(Rank[r] < Rank[s]) /\ ~(Rank[s] < Rank[r])
    BY <1>4, <2>2, SMT
  <2> QED BY <2>1, <2>3, SMT
<1>6. f \in Injection(F, T)
  BY <1>3, <1>5 DEF Injection, IsInjective
<1>7. IsFiniteSet(T) /\ Cardinality(T) = n
  BY FS_Interval, SMT
<1>8. Cardinality(F) <= Cardinality(T)
  BY <1>6, <1>7, FS_Injection, SMT
<1> QED BY <1>1, <1>7, <1>8

LEMMA Smaller ==
    ASSUME NEW T \in SUBSET QRow, NEW S \in SUBSET T
    PROVE  /\ IsFiniteSet(S) /\ IsFiniteSet(T) /\ Cardinality(S) <= Cardinality(T)
           /\ Cardinality(S) \in Nat /\ Cardinality(T) \in Nat
<1>1. IsFiniteSet(T)
  BY QueueAssumption, FS_Subset
<1> QED BY <1>1, FS_Subset, FS_CardinalityType

(* What the limits leave of n.                                             *)
LEMMA RoomIs ==
    ASSUME QueueTypeOK, NEW p, NEW n \in Nat
    PROVE  /\ QueueRoom(p, n) \in Nat /\ QueueRoom(p, n) <= n
           /\ qset.rate # NoLimit /\ QueueRoom(p, n) # 0 =>
                Cardinality(Recent(p)) + QueueRoom(p, n) <= qset.rate
           /\ qset.global # NoLimit /\ QueueRoom(p, n) # 0 =>
                Cardinality(Busy(p)) + QueueRoom(p, n) <= qset.global
<1> DEFINE a == qset.rate - Cardinality(Recent(p))
           b == qset.global - Cardinality(Busy(p))
           A == IF qset.rate = NoLimit THEN {} ELSE {Max({0, a})}
           B == IF qset.global = NoLimit THEN {} ELSE {Max({0, b})}
           S == {n} \cup A \cup B
<1>1. Cardinality(Recent(p)) \in Nat /\ Cardinality(Busy(p)) \in Nat
  <2>1. Recent(p) \subseteq QRow /\ Busy(p) \subseteq QRow
    BY DEF Recent, Busy, QRows, Scope
  <2> QED BY <2>1, Smaller
<1>2. qset \in Settings /\ {qset.global, qset.rate} \subseteq Nat \cup {NoLimit}
  BY QueueAssumption DEF QueueTypeOK
<1>3. qset.rate # NoLimit => a \in Int /\ Max({0, a}) = IF a > 0 THEN a ELSE 0
  BY <1>1, <1>2, MaxZero, SMT
<1>4. qset.global # NoLimit => b \in Int /\ Max({0, b}) = IF b > 0 THEN b ELSE 0
  BY <1>1, <1>2, MaxZero, SMT
<1>5. A \subseteq Nat
  BY <1>3, SMT
<1>6. B \subseteq Nat
  BY <1>4, SMT
<1>7. S \subseteq Nat /\ S # {} /\ n \in S
  BY <1>5, <1>6
<1>8. QueueRoom(p, n) = Min(S)
  BY DEF QueueRoom, Busy
<1>9. Min(S) \in S /\ \A y \in S : Min(S) <= y
  BY <1>7, MinIs
<1>10. Min(S) \in Nat /\ Min(S) <= n
  BY <1>7, <1>9
<1>11. qset.rate # NoLimit /\ Min(S) # 0 => Cardinality(Recent(p)) + Min(S) <= qset.rate
  <2>1. qset.rate # NoLimit => Max({0, a}) \in S
    OBVIOUS
  <2>2. qset.rate # NoLimit => Min(S) <= Max({0, a})
    BY <1>9, <2>1
  <2> HIDE DEF S
  <2> QED BY <1>1, <1>2, <1>3, <1>10, <2>2, SMT
<1>12. qset.global # NoLimit /\ Min(S) # 0 => Cardinality(Busy(p)) + Min(S) <= qset.global
  <2>1. qset.global # NoLimit => Max({0, b}) \in S
    OBVIOUS
  <2>2. qset.global # NoLimit => Min(S) <= Max({0, b})
    BY <1>9, <2>1
  <2> HIDE DEF S
  <2> QED BY <1>1, <1>2, <1>4, <1>10, <2>2, SMT
<1> HIDE DEF S
<1> QED BY <1>8, <1>10, <1>11, <1>12

(* -------------------------------------------------- the worker limit *)

LEMMA PartsAre ==
    ASSUME QueueTypeOK
    PROVE  /\ MyParts \subseteq Parts \cup {AnyPart} /\ qset \in Settings /\ qset.batch \in Nat
           /\ {qset.global, qset.rate, qset.worker} \subseteq Nat \cup {NoLimit}
           /\ qset.partitioned \in BOOLEAN
  BY QueueAssumption DEF QueueTypeOK, MyParts

LEMMA OwnLoop ==
    ASSUME LoopInv, NEW d \in Dispatcher
    PROVE  /\ disp[d] \in LoopStates /\ disp[d].todo \subseteq MyParts /\ Placed(d)
           /\ disp[d].part \in Parts \cup {AnyPart} /\ disp[d].room \in Nat
           /\ disp[d].snap \subseteq QRow /\ disp[d].got \subseteq QRow
           /\ IsFiniteSet(disp[d].got) /\ Cardinality(disp[d].got) \in Nat
           /\ \A p \in MyParts : local[d][p] \in Int
<1>1. disp[d] \in LoopStates /\ Placed(d)
  BY DEF LoopInv, QueueTypeOK
<1>2. /\ disp[d].part \in Parts \cup {AnyPart} /\ disp[d].room \in Nat
      /\ disp[d].snap \subseteq QRow /\ disp[d].got \subseteq QRow
  BY <1>1 DEF LoopStates
<1>3. IsFiniteSet(disp[d].got) /\ Cardinality(disp[d].got) \in Nat
  BY <1>2, Smaller
<1>4. local \in [Dispatcher -> [Parts \cup {AnyPart} -> Int]]
  BY DEF LoopInv, QueueTypeOK
<1>5. MyParts \subseteq Parts \cup {AnyPart}
  BY PartsAre DEF LoopInv
<1>6. \A p \in MyParts : local[d][p] \in Int
  BY <1>4, <1>5
<1> QED BY <1>1, <1>2, <1>3, <1>6 DEF Placed

LEMMA LoopMove ==
    ASSUME QueueTypeOK, NEW d \in Dispatcher, NEW x \in LoopStates, disp' = [disp EXCEPT ![d] = x]
    PROVE  /\ disp' \in [Dispatcher -> LoopStates] /\ disp'[d] = x
           /\ \A e \in Dispatcher \ {d} : disp'[e] = disp[e]
  BY DEF QueueTypeOK

(* The loops that a step leaves alone.                                     *)
LEMMA OthersStay ==
    ASSUME LoopInv, NEW D \in SUBSET Dispatcher, qset' = qset,
           \A e \in D : disp'[e] = disp[e] /\ local'[e] = local[e],
           \A e \in D : \A p \in MyParts : Tasks(e, p)' = Tasks(e, p)
    PROVE  /\ MyParts' = MyParts
           /\ \A e \in D : Placed(e)' /\ (qset.worker # NoLimit => \A p \in MyParts : Slots(e, p)')
<1>1. MyParts' = MyParts
  BY DEF MyParts
<1>2. ASSUME NEW e \in D PROVE Placed(e)'
  BY <1>1, <1>2 DEF LoopInv, Placed, Scope
<1>3. ASSUME NEW e \in D, qset.worker # NoLimit, NEW p \in MyParts PROVE Slots(e, p)'
  <2>1. Slots(e, p)
    BY <1>3 DEF LoopInv, WorkerInv
  <2>2. Tasks(e, p)' = Tasks(e, p) /\ disp'[e] = disp[e] /\ local'[e] = local[e]
    BY <1>3
  <2>3. Cardinality(Tasks(e, p)') = Cardinality(Tasks(e, p))
    BY <2>2
  <2> QED BY <2>1, <2>2, <2>3 DEF Slots
<1> QED BY <1>1, <1>2, <1>3

LEMMA TasksSame ==
    ASSUME task' = task, NEW e, NEW p PROVE Tasks(e, p)' = Tasks(e, p)
  BY DEF Tasks, Scope

LEMMA EnvMove ==
    ASSUME LoopInv, UNCHANGED <<disp, local, task, qset>>,
           qrow' \in [QRow -> [st : QueueStatus, on : BOOLEAN, by : Owner]],
           qdue' \subseteq QRow, qfresh' \subseteq QRow
    PROVE  LoopInv'
<1>1. QueueTypeOK'
  BY DEF LoopInv, QueueTypeOK
<1>2. /\ MyParts' = MyParts
      /\ \A e \in Dispatcher :
           Placed(e)' /\ (qset.worker # NoLimit => \A p \in MyParts : Slots(e, p)')
  BY TasksSame, OthersStay
<1>3. qset' = qset
  OBVIOUS
<1> QED BY <1>1, <1>2, <1>3 DEF LoopInv, WorkerInv

(* A loop gets to a state of its own: the rest is as before.               *)
LEMMA StateMove ==
    ASSUME LoopInv, NEW d \in Dispatcher, NEW x \in LoopStates, disp' = [disp EXCEPT ![d] = x],
           qrow' \in [QRow -> [st : QueueStatus, on : BOOLEAN, by : Owner]],
           qdue' \subseteq QRow, qfresh' \subseteq QRow, UNCHANGED <<local, task, qset>>,
           x.todo \subseteq MyParts,
           x.pc \in {"select", "update", "spawn"} => x.part \in MyParts,
           x.pc \in {"update", "spawn"} => x.got \subseteq Scope(x.part),
           qset.worker # NoLimit =>
             \A p \in MyParts : x.part = p =>
               /\ x.pc = "select" => local[d][p] + x.room <= qset.worker
               /\ x.pc \in {"update", "spawn"} =>
                    local[d][p] + Cardinality(x.got) <= qset.worker
    PROVE  LoopInv'
<1>1. /\ disp' \in [Dispatcher -> LoopStates] /\ disp'[d] = x
      /\ \A e \in Dispatcher \ {d} : disp'[e] = disp[e]
  BY LoopMove DEF LoopInv
<1>2. QueueTypeOK'
  BY <1>1 DEF LoopInv, QueueTypeOK
<1>3. /\ MyParts' = MyParts
      /\ \A e \in Dispatcher \ {d} :
           Placed(e)' /\ (qset.worker # NoLimit => \A p \in MyParts : Slots(e, p)')
  <2>1. \A e \in Dispatcher \ {d} : disp'[e] = disp[e] /\ local'[e] = local[e]
    BY <1>1
  <2> QED BY <2>1, TasksSame, OthersStay
<1>4. Placed(d)'
  BY <1>1, <1>3 DEF Placed, Scope
<1>5. ASSUME qset.worker # NoLimit, NEW p \in MyParts PROVE Slots(d, p)'
  <2>1. Slots(d, p)
    BY <1>5 DEF LoopInv, WorkerInv
  <2>2. Cardinality(Tasks(d, p)') = Cardinality(Tasks(d, p))
    BY TasksSame
  <2> QED BY <1>1, <1>5, <2>1, <2>2 DEF Slots
<1>6. \A e \in Dispatcher : Placed(e)'
  BY <1>3, <1>4
<1>7. qset'.worker # NoLimit => \A e \in Dispatcher, p \in MyParts' : Slots(e, p)'
  BY <1>3, <1>5
<1> QED BY <1>2, <1>6, <1>7 DEF LoopInv, WorkerInv

LEMMA IdleIs ==
    ASSUME NEW c \in {"poll", "parts", "next"}, NEW T \in SUBSET (Parts \cup {AnyPart})
    PROVE  /\ Idle(c) \in LoopStates /\ Idle(c).pc = c /\ Idle(c).todo = {}
           /\ Idle(c).snap = {} /\ Idle(c).got = {}
           /\ [Idle(c) EXCEPT !.todo = T].snap = {} /\ [Idle(c) EXCEPT !.todo = T].got = {}
           /\ [Idle(c) EXCEPT !.todo = T] \in LoopStates
           /\ [Idle(c) EXCEPT !.todo = T].pc = c /\ [Idle(c) EXCEPT !.todo = T].todo = T
  BY DEF Idle, LoopStates

LEMMA QuietMove ==
    ASSUME LoopInv, NEW d \in Dispatcher, NEW x \in LoopStates, disp' = [disp EXCEPT ![d] = x],
           qrow' \in [QRow -> [st : QueueStatus, on : BOOLEAN, by : Owner]],
           qdue' \subseteq QRow, qfresh' \subseteq QRow, UNCHANGED <<local, task, qset>>,
           x.todo \subseteq MyParts, x.pc \in {"poll", "parts", "next"}
    PROVE  LoopInv'
  BY StateMove

LEMMA NextPartIs ==
    ASSUME LoopInv, NEW d \in Dispatcher
    PROVE  /\ NextPart(d) \in LoopStates /\ NextPart(d).pc = "next"
           /\ NextPart(d).todo \subseteq MyParts /\ NextPart(d).snap = {} /\ NextPart(d).got = {}
<1>1. disp[d].todo \ {disp[d].part} \subseteq MyParts
  BY OwnLoop
<1>2. disp[d].todo \ {disp[d].part} \subseteq Parts \cup {AnyPart}
  BY <1>1, PartsAre DEF LoopInv
<1> QED BY <1>1, <1>2, IdleIs, SMT DEF NextPart

LEMMA RowsTyped ==
    ASSUME LoopInv
    PROVE  /\ qrow \in [QRow -> [st : QueueStatus, on : BOOLEAN, by : Owner]]
           /\ qdue \subseteq QRow /\ qfresh \subseteq QRow
  BY DEF LoopInv, QueueTypeOK

LEMMA RowMove ==
    ASSUME LoopInv, NEW R \in SUBSET QRow, NEW s \in QueueStatus
    PROVE  [r \in QRow |-> IF r \in R THEN [qrow[r] EXCEPT !.st = s] ELSE qrow[r]]
               \in [QRow -> [st : QueueStatus, on : BOOLEAN, by : Owner]]
  BY RowsTyped
LEMMA ClaimMove ==
    ASSUME LoopInv, NEW R \in SUBSET QRow, NEW d \in Dispatcher
    PROVE  [r \in QRow |-> IF r \in R THEN [qrow[r] EXCEPT !.st = "PENDING", !.by = d] ELSE qrow[r]]
               \in [QRow -> [st : QueueStatus, on : BOOLEAN, by : Owner]]
<1>1. \A r \in QRow : [qrow[r] EXCEPT !.st = "PENDING", !.by = d]
                        \in [st : QueueStatus, on : BOOLEAN, by : Owner]
  <2>1. "PENDING" \in QueueStatus /\ d \in Owner
    BY DEF QueueStatus, Owner
  <2> QED BY <2>1, RowsTyped
<1> QED BY <1>1, RowsTyped

LEMMA EnvKeeps ==
    ASSUME LoopInv, NEW r \in QRow,
           Arrive(r) \/ Elapse(r) \/ Period(r) \/ CancelQueued(r)
             \/ \E d \in Dispatcher : Finish(d, r)
    PROVE  LoopInv'
<1>1. qrow' \in [QRow -> [st : QueueStatus, on : BOOLEAN, by : Owner]]
  <2>1. CASE Arrive(r)
    BY <2>1, RowsTyped, SMT DEF Arrive, QueueStatus
  <2>2. CASE Elapse(r) \/ Period(r)
    BY <2>2, RowsTyped DEF Elapse, Period
  <2>3. CASE CancelQueued(r)
    BY <2>3, RowsTyped DEF CancelQueued, QueueStatus
  <2>4. CASE \E d \in Dispatcher : Finish(d, r)
    BY <2>4, RowsTyped, SMT DEF Finish, QueueStatus
  <2> QED BY <2>1, <2>2, <2>3, <2>4
<1>2. qdue' \subseteq QRow /\ qfresh' \subseteq QRow /\ UNCHANGED <<disp, local, task, qset>>
  BY RowsTyped DEF Arrive, Elapse, Period, CancelQueued, Finish
<1> QED BY <1>1, <1>2, EnvMove

LEMMA QuietKeeps ==
    ASSUME LoopInv, NEW d \in Dispatcher,
           Poll(d) \/ PollFails(d) \/ ListPartitions(d) \/ PartitionsFail(d) \/ Sleep(d)
             \/ ClaimFails(d) \/ Spawned(d)
    PROVE  LoopInv'
<1>0. {} \subseteq MyParts /\ {} \subseteq Parts \cup {AnyPart}
  OBVIOUS
<1>1. CASE Poll(d)
  <2>1. PICK R \in SUBSET QRow :
          qrow' = [r \in QRow |-> IF r \in R THEN [qrow[r] EXCEPT !.st = "ENQUEUED"] ELSE qrow[r]]
    BY <1>1, RowsTyped DEF Poll
  <2>2. qrow' \in [QRow -> [st : QueueStatus, on : BOOLEAN, by : Owner]]
    BY <2>1, RowMove DEF QueueStatus
  <2>3. /\ disp' = [disp EXCEPT ![d] = Idle("parts")] /\ qdue' \subseteq QRow
        /\ UNCHANGED <<qfresh, local, task, qset>>
    BY <1>1, RowsTyped DEF Poll
  <2> QED BY <2>2, <2>3, <1>0, IdleIs, QuietMove, RowsTyped
<1>2. CASE PollFails(d)
  BY <1>2, <1>0, IdleIs, QuietMove, RowsTyped DEF PollFails
<1>3. CASE ListPartitions(d)
  <2> DEFINE T == IF qset.partitioned THEN {PartOf[r] : r \in QRows("ENQUEUED")} ELSE {AnyPart}
  <2>1. T \subseteq MyParts /\ T \subseteq Parts \cup {AnyPart}
    BY DEF MyParts, Parts, QRows
  <2>2. /\ disp' = [disp EXCEPT ![d] = [Idle("next") EXCEPT !.todo = T]]
        /\ UNCHANGED <<qrow, qdue, qfresh, local, task, qset>>
    BY <1>3 DEF ListPartitions
  <2> DEFINE x == [Idle("next") EXCEPT !.todo = T]
  <2> HIDE DEF T
  <2>3. x \in LoopStates /\ x.pc = "next" /\ x.todo = T
    BY <2>1, IdleIs
  <2> HIDE DEF x
  <2>4. disp' = [disp EXCEPT ![d] = x]
    BY <2>2 DEF x
  <2> QED BY <2>1, <2>2, <2>3, <2>4, QuietMove, RowsTyped
<1>4. CASE PartitionsFail(d)
  BY <1>4, <1>0, IdleIs, QuietMove, RowsTyped DEF PartitionsFail
<1>5. CASE Sleep(d)
  BY <1>5, <1>0, IdleIs, QuietMove, RowsTyped DEF Sleep
<1>6. CASE ClaimFails(d)
  BY <1>6, NextPartIs, QuietMove, RowsTyped DEF ClaimFails
<1>7. CASE Spawned(d)
  BY <1>7, NextPartIs, QuietMove, RowsTyped DEF Spawned
<1> QED BY <1>1, <1>2, <1>3, <1>4, <1>5, <1>6, <1>7

(* The room a transaction starts with fits the worker limit.               *)
LEMMA BeginIs ==
    ASSUME LoopInv, NEW d \in Dispatcher, Begin(d)
    PROVE  /\ disp[d].pc = "next" /\ UNCHANGED <<qrow, qdue, qfresh, local, task, qset>>
           /\ \E p \in disp[d].todo, x \in LoopStates :
                /\ disp' = [disp EXCEPT ![d] = x] /\ x.todo \subseteq MyParts
                /\ \/ x.pc = "next" /\ x.snap = {} /\ x.got = {}
                   \/ /\ x.pc = "select" /\ x.part = p /\ x.room # 0
                      /\ x.snap = (IF Snapshots THEN QRows("ENQUEUED") ELSE {}) /\ x.got = disp[d].got
                      /\ \E n \in Nat : x.room = QueueRoom(p, n)
                      /\ qset.worker # NoLimit => local[d][p] + x.room <= qset.worker
<1>1. PICK p \in disp[d].todo :
        LET free == IF qset.worker = NoLimit THEN qset.batch
                    ELSE Max({0, qset.worker - local[d][p]})
            room == QueueRoom(p, Min({free, qset.batch}))
        IN  /\ disp[d].pc = "next"
            /\ disp' = [disp EXCEPT ![d] =
                  IF room = 0 THEN [Idle("next") EXCEPT !.todo = disp[d].todo \ {p}]
                  ELSE [disp[d] EXCEPT !.pc = "select", !.part = p, !.room = room,
                          !.snap = IF Snapshots THEN QRows("ENQUEUED") ELSE {}]]
            /\ stale' = [stale EXCEPT ![d] = {}]
            /\ UNCHANGED <<qrow, qdue, qfresh, local, task, qset>>
  BY DEF Begin
<1> DEFINE free == IF qset.worker = NoLimit THEN qset.batch
                   ELSE Max({0, qset.worker - local[d][p]})
           n == Min({free, qset.batch})
           room == QueueRoom(p, n)
           S == IF Snapshots THEN QRows("ENQUEUED") ELSE {}
           x == IF room = 0 THEN [Idle("next") EXCEPT !.todo = disp[d].todo \ {p}]
                ELSE [disp[d] EXCEPT !.pc = "select", !.part = p, !.room = room, !.snap = S]
<1>2. p \in MyParts /\ p \in Parts \cup {AnyPart} /\ local[d][p] \in Int /\ qset.batch \in Nat
      /\ qset.worker \in Nat \cup {NoLimit}
  BY OwnLoop, PartsAre DEF LoopInv
<1>3. free \in Nat /\ (qset.worker # NoLimit => free = 0 \/ local[d][p] + free <= qset.worker)
  BY <1>2, MaxZero, SMT
<1>4. n \in Nat /\ n <= free
  <2> HIDE DEF free
  <2>1. {free, qset.batch} \subseteq Nat /\ {free, qset.batch} # {} /\ free \in {free, qset.batch}
    BY <1>2, <1>3
  <2> QED BY <2>1, MinIs
<1>5. room \in Nat /\ room <= n
  <2> HIDE DEF n
  <2> QED BY <1>4, RoomIs DEF LoopInv
<1>6. room # 0 => (qset.worker # NoLimit => local[d][p] + room <= qset.worker)
  <2> HIDE DEF free, room, n
  <2> QED BY <1>2, <1>3, <1>4, <1>5, SMT
<1>7. disp' = [disp EXCEPT ![d] = x] /\ disp[d].pc = "next"
      /\ UNCHANGED <<qrow, qdue, qfresh, local, task, qset>>
  BY <1>1
<1>8. S \subseteq QRow
  BY DEF QRows
<1> HIDE DEF room, S, n
<1>9. /\ x \in LoopStates /\ x.todo \subseteq MyParts
      /\ \/ x.pc = "next" /\ x.snap = {} /\ x.got = {}
         \/ x.pc = "select" /\ x.part = p /\ x.room = room /\ room # 0 /\ x.snap = S /\ x.got = disp[d].got
  <2>1. CASE room = 0
    <3>1. disp[d].todo \ {p} \subseteq Parts \cup {AnyPart} /\ disp[d].todo \ {p} \subseteq MyParts
      BY OwnLoop, PartsAre DEF LoopInv
    <3> DEFINE T == disp[d].todo \ {p}
               y == [Idle("next") EXCEPT !.todo = T]
    <3>2. T \in SUBSET (Parts \cup {AnyPart})
      BY <3>1
    <3> HIDE DEF T
    <3>3. y \in LoopStates /\ y.pc = "next" /\ y.todo = T /\ y.snap = {} /\ y.got = {}
      BY <3>2, IdleIs
    <3> HIDE DEF y
    <3>4. x = y
      BY <2>1 DEF y, T
    <3>5. T \subseteq MyParts
      BY <3>1 DEF T
    <3> QED BY <3>3, <3>4, <3>5
  <2>2. CASE room # 0
    <3>1. disp[d] \in LoopStates /\ disp[d].todo \subseteq MyParts
      BY OwnLoop
    <3> QED BY <2>2, <3>1, <1>2, <1>5, <1>8 DEF LoopStates
  <2> QED BY <2>1, <2>2
<1> HIDE DEF x
<1>10. room = QueueRoom(p, n)
  BY DEF room
<1>11. S = IF Snapshots THEN QRows("ENQUEUED") ELSE {}
  BY DEF S
<1> QED BY <1>4, <1>6, <1>7, <1>9, <1>10, <1>11

LEMMA BeginKeeps == ASSUME LoopInv, NEW d \in Dispatcher, Begin(d) PROVE LoopInv'
<1>1. PICK p \in disp[d].todo, x \in LoopStates :
        /\ disp' = [disp EXCEPT ![d] = x] /\ x.todo \subseteq MyParts
        /\ \/ x.pc = "next"
           \/ /\ x.pc = "select" /\ x.part = p
              /\ qset.worker # NoLimit => local[d][p] + x.room <= qset.worker
  BY BeginIs
<1>2. UNCHANGED <<qrow, qdue, qfresh, local, task, qset>> /\ p \in MyParts
  BY BeginIs, OwnLoop
<1>3. qset.worker # NoLimit =>
        \A q \in MyParts : x.part = q /\ x.pc = "select" => local[d][q] + x.room <= qset.worker
  BY <1>1
<1> QED BY <1>1, <1>2, <1>3, RowsTyped, StateMove

LEMMA CandidatesAre ==
    ASSUME LoopInv, NEW d \in Dispatcher
    PROVE  /\ Candidates(d) \subseteq QRow \cap Scope(disp[d].part)
           /\ Chosen(d) \subseteq Candidates(d) /\ Chosen(d) \subseteq QRow
           /\ Cardinality(Chosen(d)) \in Nat /\ Cardinality(Chosen(d)) <= disp[d].room
<1>1. Candidates(d) \subseteq QRow \cap Scope(disp[d].part)
  BY OwnLoop DEF Candidates, QRows
<1>2. disp[d].room \in Nat
  BY OwnLoop
<1>3. PICK S \in SUBSET Candidates(d) : Chosen(d) = FrontOf(S, disp[d].room)
  BY DEF Chosen
<1>4. S \in SUBSET QRow
  BY <1>1
<1>5. Chosen(d) \subseteq S /\ IsFiniteSet(Chosen(d)) /\ Cardinality(Chosen(d)) <= disp[d].room
  BY <1>2, <1>3, <1>4, FrontBound
<1> QED BY <1>1, <1>4, <1>5, FS_CardinalityType

LEMMA SelectIs ==
    ASSUME LoopInv, NEW d \in Dispatcher, Select(d)
    PROVE  /\ disp[d].pc = "select" /\ UNCHANGED <<qrow, qdue, qfresh, local, task, qset>>
           /\ \E x \in LoopStates :
                /\ disp' = [disp EXCEPT ![d] = x] /\ x.todo \subseteq MyParts
                /\ \/ x.pc = "next" /\ x.snap = {} /\ x.got = {}
                   \/ /\ x.pc = "update" /\ x.part = disp[d].part /\ x.got = Chosen(d)
                      /\ x.snap = disp[d].snap
<1> DEFINE y == [disp[d] EXCEPT !.pc = "update", !.got = Chosen(d)]
           x == IF Conflict(d) \/ Chosen(d) = {} THEN NextPart(d) ELSE y
<1>1. disp' = [disp EXCEPT ![d] = x] /\ disp[d].pc = "select"
      /\ UNCHANGED <<qrow, qdue, qfresh, local, task, qset>>
  BY DEF Select
<1>2. y \in LoopStates /\ y.todo = disp[d].todo /\ y.pc = "update" /\ y.part = disp[d].part
      /\ y.got = Chosen(d) /\ y.snap = disp[d].snap
  BY OwnLoop, CandidatesAre DEF LoopStates
<1> HIDE DEF y
<1>3. /\ x \in LoopStates /\ x.todo \subseteq MyParts
      /\ \/ x.pc = "next" /\ x.snap = {} /\ x.got = {}
         \/ /\ x.pc = "update" /\ x.part = disp[d].part /\ x.got = Chosen(d)
            /\ x.snap = disp[d].snap
  BY <1>2, NextPartIs, OwnLoop
<1> HIDE DEF x
<1> QED BY <1>1, <1>3

LEMMA SelectKeeps == ASSUME LoopInv, NEW d \in Dispatcher, Select(d) PROVE LoopInv'
<1>1. PICK x \in LoopStates :
        /\ disp' = [disp EXCEPT ![d] = x] /\ x.todo \subseteq MyParts
        /\ \/ x.pc = "next"
           \/ x.pc = "update" /\ x.part = disp[d].part /\ x.got = Chosen(d)
  BY SelectIs
<1>2. UNCHANGED <<qrow, qdue, qfresh, local, task, qset>> /\ disp[d].pc = "select"
  BY SelectIs
<1>3. disp[d].part \in MyParts
  BY <1>2, OwnLoop DEF Placed
<1>4. Chosen(d) \subseteq Scope(disp[d].part)
  BY CandidatesAre
<1>5. ASSUME qset.worker # NoLimit, NEW p \in MyParts, x.part = p, x.pc \in {"update", "spawn"}
      PROVE  local[d][p] + Cardinality(x.got) <= qset.worker
  <2>1. x.part = disp[d].part /\ x.got = Chosen(d)
    BY <1>1, <1>5
  <2>2. local[d][p] + disp[d].room <= qset.worker
    BY <1>2, <1>5, <2>1 DEF LoopInv, WorkerInv, Slots
  <2>3. local[d][p] \in Int /\ disp[d].room \in Nat /\ qset.worker \in Nat
    BY <1>5, OwnLoop, PartsAre DEF LoopInv
  <2> QED BY <2>1, <2>2, <2>3, CandidatesAre, SMT
<1>6. x.pc # "select"
  BY <1>1
<1> QED BY <1>1, <1>2, <1>3, <1>4, <1>5, <1>6, RowsTyped, StateMove

LEMMA ClaimKeeps == ASSUME LoopInv, NEW d \in Dispatcher, Claim(d) PROVE LoopInv'
<1> DEFINE mine == {r \in disp[d].got : qrow[r].st = "ENQUEUED"}
           x == [disp[d] EXCEPT !.pc = "spawn", !.got = mine, !.snap = {}]
<1>1. /\ disp[d].pc = "update" /\ UNCHANGED <<qdue, local, task, qset>>
      /\ qrow' = [r \in QRow |-> IF r \in mine THEN [qrow[r] EXCEPT !.st = "PENDING", !.by = d]
                                 ELSE qrow[r]]
      /\ qfresh' = IF qset.rate = NoLimit THEN qfresh ELSE qfresh \cup mine
  BY DEF Claim
<1>2. disp' = [disp EXCEPT ![d] = x]
  BY DEF Claim
<1>3. disp[d] \in LoopStates /\ Placed(d) /\ disp[d].got \subseteq QRow
  BY OwnLoop
<1>4. mine \subseteq disp[d].got /\ mine \in SUBSET QRow
  BY <1>3
<1>5. Cardinality(mine) <= Cardinality(disp[d].got) /\ Cardinality(mine) \in Nat
      /\ Cardinality(disp[d].got) \in Nat
  BY <1>3, <1>4, Smaller
<1> HIDE DEF mine
<1>6. x \in LoopStates /\ x.todo = disp[d].todo /\ x.pc = "spawn" /\ x.part = disp[d].part
      /\ x.got = mine
  BY <1>3, <1>4 DEF LoopStates
<1> HIDE DEF x
<1>7. qrow' \in [QRow -> [st : QueueStatus, on : BOOLEAN, by : Owner]] /\ qdue' \subseteq QRow /\ qfresh' \subseteq QRow
  BY <1>1, <1>4, ClaimMove, RowsTyped
<1>8. x.todo \subseteq MyParts /\ x.part \in MyParts /\ x.got \subseteq Scope(x.part)
  BY <1>1, <1>3, <1>4, <1>6 DEF Placed
<1>9. ASSUME qset.worker # NoLimit, NEW p \in MyParts, x.part = p
      PROVE  local[d][p] + Cardinality(x.got) <= qset.worker
  <2>1. local[d][p] + Cardinality(disp[d].got) <= qset.worker
    BY <1>1, <1>6, <1>9 DEF LoopInv, WorkerInv, Slots
  <2>2. local[d][p] \in Int /\ qset.worker \in Nat
    BY <1>9, OwnLoop, PartsAre DEF LoopInv
  <2> QED BY <1>5, <1>6, <2>1, <2>2, SMT
<1>10. UNCHANGED <<local, task, qset>>
  BY <1>1
<1> QED BY <1>2, <1>6, <1>7, <1>8, <1>9, <1>10, StateMove

LEMMA ReleaseKeeps == ASSUME LoopInv, NEW d \in Dispatcher, Release(d) PROVE LoopInv'
<1>1. PICK r \in disp[d].got :
        /\ disp[d].pc = "spawn" /\ UNCHANGED <<qdue, qfresh, local, task, qset>>
        /\ qrow' = [qrow EXCEPT ![r].st = "ENQUEUED"]
        /\ disp' = [disp EXCEPT ![d].got = @ \ {r}]
  BY DEF Release
<1> DEFINE x == [disp[d] EXCEPT !.got = @ \ {r}]
<1>2. /\ disp[d].pc = "spawn" /\ UNCHANGED <<qdue, qfresh, local, task, qset>>
      /\ qrow' = [qrow EXCEPT ![r].st = "ENQUEUED"] /\ disp' = [disp EXCEPT ![d] = x]
  BY <1>1
<1>3. disp[d] \in LoopStates /\ Placed(d) /\ disp[d].got \subseteq QRow
  BY OwnLoop
<1>4. disp[d].got \ {r} \subseteq disp[d].got
  OBVIOUS
<1>5. Cardinality(disp[d].got \ {r}) <= Cardinality(disp[d].got)
      /\ Cardinality(disp[d].got \ {r}) \in Nat /\ Cardinality(disp[d].got) \in Nat
  BY <1>3, <1>4, Smaller
<1>6. x \in LoopStates /\ x.todo = disp[d].todo /\ x.pc = "spawn" /\ x.part = disp[d].part
      /\ x.got = disp[d].got \ {r}
  BY <1>2, <1>3 DEF LoopStates
<1> HIDE DEF x
<1>7. qrow' \in [QRow -> [st : QueueStatus, on : BOOLEAN, by : Owner]] /\ qdue' \subseteq QRow /\ qfresh' \subseteq QRow
  BY <1>2, <1>3, RowsTyped DEF QueueStatus
<1>8. x.todo \subseteq MyParts /\ x.part \in MyParts /\ x.got \subseteq Scope(x.part)
  BY <1>2, <1>3, <1>4, <1>6 DEF Placed
<1>9. ASSUME qset.worker # NoLimit, NEW p \in MyParts, x.part = p
      PROVE  local[d][p] + Cardinality(x.got) <= qset.worker
  <2>1. local[d][p] + Cardinality(disp[d].got) <= qset.worker
    BY <1>2, <1>6, <1>9 DEF LoopInv, WorkerInv, Slots
  <2>2. local[d][p] \in Int /\ qset.worker \in Nat
    BY <1>9, OwnLoop, PartsAre DEF LoopInv
  <2> QED BY <1>5, <1>6, <2>1, <2>2, SMT
<1>10. UNCHANGED <<local, task, qset>>
  BY <1>2
<1> QED BY <1>2, <1>6, <1>7, <1>8, <1>9, <1>10, StateMove

(* Its own partition, of a task.                                           *)
LEMMA TaskPart ==
    ASSUME LoopInv, NEW p \in MyParts, NEW r \in QRow, r \in Scope(p)
    PROVE  /\ p = IF qset.partitioned THEN PartOf[r] ELSE AnyPart
           /\ \A q \in MyParts : r \in Scope(q) => q = p
  BY PartsAre, QueueAssumption DEF LoopInv, MyParts, Scope, Parts

LEMMA TasksFinite ==
    ASSUME LoopInv, NEW d \in Dispatcher, NEW p
    PROVE  IsFiniteSet(task) /\ IsFiniteSet(Tasks(d, p)) /\ Cardinality(Tasks(d, p)) \in Nat
<1>1. IsFiniteSet(Dispatcher \X QRow)
  BY QueueAssumption, FS_Product
<1>2. IsFiniteSet(task) /\ Tasks(d, p) \subseteq task
  BY <1>1, FS_Subset DEF LoopInv, QueueTypeOK, Tasks
<1>3. IsFiniteSet(Tasks(d, p))
  BY <1>2, FS_Subset
<1> QED BY <1>2, <1>3, FS_CardinalityType

LEMMA Counted ==
    ASSUME NEW D, NEW P, NEW f \in [D -> [P -> Int]], NEW d \in D, NEW p \in P, NEW n \in Int,
           NEW g, g = [f EXCEPT ![d][p] = n]
    PROVE  /\ g \in [D -> [P -> Int]] /\ g[d][p] = n
           /\ \A q \in P : q # p => g[d][q] = f[d][q]
           /\ \A e \in D : e # d => g[e] = f[e]
<1> DEFINE h == [f[d] EXCEPT ![p] = n]
<1>1. f[d] \in [P -> Int]
  OBVIOUS
<1>2. h \in [P -> Int] /\ h[p] = n /\ \A q \in P : q # p => h[q] = f[d][q]
  BY <1>1
<1>3. g = [f EXCEPT ![d] = h]
  OBVIOUS
<1> HIDE DEF h
<1> QED BY <1>2, <1>3

LEMMA SpawnKeeps == ASSUME LoopInv, NEW d \in Dispatcher, Spawn(d) PROVE LoopInv'
<1>1. PICK r \in disp[d].got :
        /\ disp[d].pc = "spawn" /\ UNCHANGED <<qrow, qdue, qfresh, qset>>
        /\ local' = [local EXCEPT ![d][disp[d].part] = @ + 1] /\ task' = task \cup {<<d, r>>}
        /\ disp' = [disp EXCEPT ![d].got = @ \ {r}]
  BY DEF Spawn
<1>0. PICK p : p = disp[d].part
  OBVIOUS
<1> DEFINE x == [disp[d] EXCEPT !.got = @ \ {r}]
<1>2. /\ disp[d].pc = "spawn" /\ UNCHANGED <<qrow, qdue, qfresh, qset>>
      /\ local' = [local EXCEPT ![d][p] = @ + 1] /\ task' = task \cup {<<d, r>>}
      /\ disp' = [disp EXCEPT ![d] = x]
  BY <1>0, <1>1
<1>3. disp[d] \in LoopStates /\ Placed(d) /\ disp[d].got \subseteq QRow /\ r \in QRow
      /\ IsFiniteSet(disp[d].got)
  BY OwnLoop
<1>4. p \in MyParts /\ r \in Scope(p) /\ p \in Parts \cup {AnyPart}
  BY <1>0, <1>2, <1>3, PartsAre DEF Placed, LoopInv
<1>5. Cardinality(disp[d].got \ {r}) = Cardinality(disp[d].got) - 1 /\ Cardinality(disp[d].got) \in Nat
  BY <1>3, FS_RemoveElement, FS_CardinalityType
<1>6. x \in LoopStates /\ x.todo = disp[d].todo /\ x.pc = "spawn" /\ x.part = p
      /\ x.got = disp[d].got \ {r}
  BY <1>0, <1>2, <1>3 DEF LoopStates
<1> HIDE DEF x
<1>7. /\ disp' \in [Dispatcher -> LoopStates] /\ disp'[d] = x
      /\ \A e \in Dispatcher \ {d} : disp'[e] = disp[e]
  BY <1>2, <1>6, LoopMove DEF LoopInv
<1>8. local \in [Dispatcher -> [Parts \cup {AnyPart} -> Int]]
  BY DEF LoopInv, QueueTypeOK
<1>9. /\ local' \in [Dispatcher -> [Parts \cup {AnyPart} -> Int]] /\ local'[d][p] = local[d][p] + 1
      /\ \A q \in MyParts \ {p} : local'[d][q] = local[d][q]
      /\ \A e \in Dispatcher \ {d} : local'[e] = local[e]
  <2>1. \A q \in MyParts : q \in Parts \cup {AnyPart}
    BY PartsAre DEF LoopInv
  <2> DEFINE P == Parts \cup {AnyPart}
             n == local[d][p] + 1
  <2>0. local[d][p] \in Int
    BY <1>4, OwnLoop
  <2>2. n \in Int
    BY <2>0, SMT
  <2>3. local' = [local EXCEPT ![d][p] = n]
    BY <1>2
  <2> HIDE DEF n
  <2>5. p \in P /\ local \in [Dispatcher -> [P -> Int]]
    BY <1>4, <1>8
  <2> HIDE DEF P
  <2>4. /\ local' \in [Dispatcher -> [P -> Int]] /\ local'[d][p] = n
        /\ \A q \in P : q # p => local'[d][q] = local[d][q]
        /\ \A e \in Dispatcher : e # d => local'[e] = local[e]
    BY <2>2, <2>3, <2>5, Counted, SMT
  <2> QED BY <2>1, <2>4 DEF n, P
<1>10. QueueTypeOK'
  <2>1. task' \subseteq Dispatcher \X QRow
    BY <1>2, <1>3, SMT DEF LoopInv, QueueTypeOK
  <2> QED BY <1>2, <1>7, <1>9, <2>1 DEF LoopInv, QueueTypeOK
<1>11. /\ MyParts' = MyParts
       /\ \A e \in Dispatcher \ {d} :
            Placed(e)' /\ (qset.worker # NoLimit => \A q \in MyParts : Slots(e, q)')
  <2>1. \A e \in Dispatcher \ {d} : \A q \in MyParts : Tasks(e, q)' = Tasks(e, q)
    BY <1>2, SMT DEF Tasks, Scope
  <2> QED BY <1>2, <1>7, <1>9, <2>1, OthersStay
<1>12. Placed(d)'
  BY <1>0, <1>2, <1>3, <1>6, <1>7, <1>11, SMT DEF Placed, Scope
<1>13. ASSUME qset.worker # NoLimit, NEW q \in MyParts PROVE Slots(d, q)'
  <2>1. Slots(d, q) /\ qset.worker \in Nat /\ local[d][q] \in Int
    BY <1>13, PartsAre, OwnLoop DEF LoopInv, WorkerInv
  <2>2. CASE q = p
    <3>1. Tasks(d, p)' = Tasks(d, p) \cup {<<d, r>>}
      BY <1>2, <1>4, SMT DEF Tasks, Scope
    <3>2. IsFiniteSet(Tasks(d, p)) /\ Cardinality(Tasks(d, p)) \in Nat
      BY TasksFinite
    <3>3. Cardinality(Tasks(d, p)') <= Cardinality(Tasks(d, p)) + 1
          /\ Cardinality(Tasks(d, p)') \in Nat
      <4>1. /\ IsFiniteSet(Tasks(d, p) \cup {<<d, r>>})
            /\ \/ Cardinality(Tasks(d, p) \cup {<<d, r>>}) = Cardinality(Tasks(d, p))
               \/ Cardinality(Tasks(d, p) \cup {<<d, r>>}) = Cardinality(Tasks(d, p)) + 1
        BY <3>2, FS_AddElement
      <4> QED BY <3>1, <3>2, <4>1, SMT
    <3>4. /\ Cardinality(Tasks(d, q)) <= local[d][q]
          /\ local[d][q] + Cardinality(disp[d].got) <= qset.worker
      BY <1>0, <1>2, <2>1, <2>2 DEF Slots
    <3>5. /\ Cardinality(Tasks(d, q)') <= local'[d][q]
          /\ local'[d][q] + Cardinality(x.got) <= qset.worker
          /\ local'[d][q] <= qset.worker
      <4>1. Cardinality(x.got) \in Nat /\ Cardinality(x.got) = Cardinality(disp[d].got) - 1
        BY <1>3, <1>5, <1>6, FS_RemoveElement, FS_CardinalityType
      <4> QED BY <1>5, <1>9, <2>1, <2>2, <3>2, <3>3, <3>4, <4>1, SMT
    <3> QED BY <1>2, <1>6, <1>7, <3>5 DEF Slots
  <2>3. CASE q # p
    <3>1. r \notin Scope(q)
      BY <1>3, <1>4, <2>3, TaskPart
    <3>2. Tasks(d, q)' = Tasks(d, q)
      BY <1>2, <3>1, SMT DEF Tasks, Scope
    <3>3. Cardinality(Tasks(d, q)') = Cardinality(Tasks(d, q))
      BY <3>2
    <3>4. disp'[d].part # q /\ local'[d][q] = local[d][q]
      BY <1>6, <1>7, <1>9, <2>3
    <3> QED BY <1>2, <2>1, <3>3, <3>4 DEF Slots
  <2> QED BY <2>2, <2>3
<1>14. \A e \in Dispatcher : Placed(e)'
  BY <1>11, <1>12
<1>15. qset'.worker # NoLimit => \A e \in Dispatcher, q \in MyParts' : Slots(e, q)'
  BY <1>2, <1>11, <1>13
<1> QED BY <1>10, <1>14, <1>15 DEF LoopInv, WorkerInv

LEMMA DropKeeps ==
    ASSUME LoopInv, NEW d \in Dispatcher, NEW r \in QRow, DropGuard(d, r) PROVE LoopInv'
<1>1. PICK p : p = IF qset.partitioned THEN PartOf[r] ELSE AnyPart
  OBVIOUS
<1>2. /\ UNCHANGED <<qrow, qdue, qfresh, disp, qset>> /\ <<d, r>> \in task
      /\ local' = [local EXCEPT ![d][p] = @ - 1] /\ task' = task \ {<<d, r>>}
  BY <1>1 DEF DropGuard
<1>4. p \in MyParts /\ r \in Scope(p) /\ p \in Parts \cup {AnyPart}
  BY <1>1 DEF MyParts, Parts, Scope
<1>8. local \in [Dispatcher -> [Parts \cup {AnyPart} -> Int]]
  BY DEF LoopInv, QueueTypeOK
<1>9. /\ local' \in [Dispatcher -> [Parts \cup {AnyPart} -> Int]] /\ local'[d][p] = local[d][p] - 1
      /\ \A q \in MyParts \ {p} : local'[d][q] = local[d][q]
      /\ \A e \in Dispatcher \ {d} : local'[e] = local[e]
  <2>1. \A q \in MyParts : q \in Parts \cup {AnyPart}
    BY PartsAre DEF LoopInv
  <2> DEFINE P == Parts \cup {AnyPart}
             n == local[d][p] - 1
  <2>0. local[d][p] \in Int
    BY <1>4, OwnLoop
  <2>2. n \in Int
    BY <2>0, SMT
  <2>3. local' = [local EXCEPT ![d][p] = n]
    BY <1>2
  <2> HIDE DEF n
  <2>5. p \in P /\ local \in [Dispatcher -> [P -> Int]]
    BY <1>4, <1>8
  <2> HIDE DEF P
  <2>4. /\ local' \in [Dispatcher -> [P -> Int]] /\ local'[d][p] = n
        /\ \A q \in P : q # p => local'[d][q] = local[d][q]
        /\ \A e \in Dispatcher : e # d => local'[e] = local[e]
    BY <2>2, <2>3, <2>5, Counted, SMT
  <2> QED BY <2>1, <2>4 DEF n, P
<1>10. QueueTypeOK'
  BY <1>2, <1>9 DEF LoopInv, QueueTypeOK
<1>11. /\ MyParts' = MyParts
       /\ \A e \in Dispatcher \ {d} :
            Placed(e)' /\ (qset.worker # NoLimit => \A q \in MyParts : Slots(e, q)')
  <2>1. \A e \in Dispatcher \ {d} : \A q \in MyParts : Tasks(e, q)' = Tasks(e, q)
    BY <1>2, SMT DEF Tasks, Scope
  <2> QED BY <1>2, <1>9, <2>1, OthersStay
<1>12. Placed(d)'
  BY <1>2, <1>11, OwnLoop DEF Placed, Scope
<1>13. ASSUME qset.worker # NoLimit, NEW q \in MyParts PROVE Slots(d, q)'
  <2>1. Slots(d, q) /\ qset.worker \in Nat /\ local[d][q] \in Int
    BY <1>13, PartsAre, OwnLoop DEF LoopInv, WorkerInv
  <2>0. disp[d].room \in Nat /\ Cardinality(disp[d].got) \in Nat
    BY OwnLoop
  <2>2. CASE q = p
    <3>1. Tasks(d, p)' = Tasks(d, p) \ {<<d, r>>} /\ <<d, r>> \in Tasks(d, p)
      BY <1>2, <1>4 DEF Tasks, Scope
    <3>2. IsFiniteSet(Tasks(d, p)) /\ Cardinality(Tasks(d, p)) \in Nat
      BY TasksFinite
    <3>3. Cardinality(Tasks(d, p)') = Cardinality(Tasks(d, p)) - 1
      BY <3>1, <3>2, FS_RemoveElement
    <3>4. Cardinality(Tasks(d, q)') <= local'[d][q] /\ local'[d][q] = local[d][q] - 1
      BY <1>9, <2>1, <2>2, <3>2, <3>3, SMT DEF Slots
    <3> QED BY <1>2, <2>0, <2>1, <3>4, SMT DEF Slots
  <2>3. CASE q # p
    <3>1. r \notin Scope(q)
      BY <1>4, <2>3, TaskPart
    <3>2. Tasks(d, q)' = Tasks(d, q)
      BY <1>2, <3>1, SMT DEF Tasks, Scope
    <3>3. Cardinality(Tasks(d, q)') = Cardinality(Tasks(d, q))
      BY <3>2
    <3>4. local'[d][q] = local[d][q]
      BY <1>9, <2>3
    <3> QED BY <1>2, <2>1, <3>3, <3>4 DEF Slots
  <2> QED BY <2>2, <2>3
<1>14. \A e \in Dispatcher : Placed(e)'
  BY <1>11, <1>12
<1>15. qset'.worker # NoLimit => \A e \in Dispatcher, q \in MyParts' : Slots(e, q)'
  BY <1>2, <1>11, <1>13
<1> QED BY <1>10, <1>14, <1>15 DEF LoopInv, WorkerInv

LEMMA LoopInit == QueueInit => LoopInv
<1> SUFFICES ASSUME QueueInit PROVE LoopInv
  OBVIOUS
<1>1. {} \in SUBSET (Parts \cup {AnyPart})
  OBVIOUS
<1>2. Idle("poll") \in LoopStates /\ Idle("poll").pc = "poll" /\ Idle("poll").todo = {}
  BY <1>1, IdleIs
<1>3. QueueTypeOK
  BY <1>2, SMT DEF QueueInit, QueueTypeOK, QueueStatus, Owner
<1>4. \A d \in Dispatcher : disp[d] = Idle("poll")
  BY DEF QueueInit
<1>5. \A d \in Dispatcher : Placed(d)
  BY <1>2, <1>4 DEF Placed
<1>6. WorkerInv
  <2> SUFFICES ASSUME qset.worker # NoLimit, NEW d \in Dispatcher, NEW p \in MyParts
               PROVE  Slots(d, p)
    BY DEF WorkerInv
  <2>1. qset.worker \in Nat /\ p \in Parts \cup {AnyPart}
    BY <1>3, PartsAre
  <2>2. local[d][p] = 0
    BY <2>1 DEF QueueInit
  <2>3. Tasks(d, p) = {} /\ Cardinality({}) = 0
    BY FS_EmptySet DEF QueueInit, Tasks
  <2> QED BY <1>2, <1>4, <2>1, <2>2, <2>3, SMT DEF Slots
<1> QED BY <1>3, <1>5, <1>6 DEF LoopInv

LEMMA LoopKeeps == LoopInv /\ [QueueNext]_queueVars => LoopInv'
<1> SUFFICES ASSUME LoopInv, [QueueNext]_queueVars PROVE LoopInv'
  OBVIOUS
<1>1. CASE \E r \in QRow : Arrive(r) \/ Elapse(r) \/ Period(r) \/ CancelQueued(r)
  BY <1>1, EnvKeeps
<1>2. CASE \E d \in Dispatcher : LoopStep(d)
  BY <1>2, QuietKeeps, BeginKeeps, SelectKeeps, ClaimKeeps, SpawnKeeps, ReleaseKeeps DEF LoopStep
<1>3. CASE \E d \in Dispatcher : \E r \in QRow : Finish(d, r) \/ DropGuard(d, r)
  BY <1>3, EnvKeeps, DropKeeps
<1>4. CASE UNCHANGED queueVars
  BY <1>4, EnvMove, RowsTyped DEF queueVars
<1> QED BY <1>1, <1>2, <1>3, <1>4 DEF QueueNext

LEMMA SlotsSuffice == LoopInv => WorkerLimit
<1> SUFFICES ASSUME LoopInv, qset.worker # NoLimit, NEW d \in Dispatcher, NEW p \in MyParts
             PROVE  Cardinality({t \in task : t[1] = d /\ t[2] \in Scope(p)}
                        \cup (IF disp[d].pc = "spawn" /\ disp[d].part = p
                              THEN {<<d, r>> : r \in disp[d].got} ELSE {})) <= qset.worker
  BY DEF WorkerLimit, MyParts
<1> DEFINE T == Tasks(d, p)
           G == {<<d, r>> : r \in disp[d].got}
<1>1. Slots(d, p) /\ qset.worker \in Nat /\ local[d][p] \in Int
  BY PartsAre, OwnLoop DEF LoopInv, WorkerInv
<1>2. IsFiniteSet(T) /\ Cardinality(T) \in Nat
  BY TasksFinite
<1>3. IsFiniteSet(disp[d].got) /\ Cardinality(disp[d].got) \in Nat
  BY OwnLoop
<1>4. IsFiniteSet(G) /\ Cardinality(G) <= Cardinality(disp[d].got) /\ Cardinality(G) \in Nat
  <2> DEFINE S == disp[d].got
             f == [r \in S |-> <<d, r>>]
  <2>1. G = {f[r] : r \in S} /\ f \in Surjection(S, G)
    BY DEF Surjection
  <2>2. IsFiniteSet(G) /\ Cardinality(G) <= Cardinality(S)
    BY <1>3, <2>1, FS_Surjection, SMT
  <2> QED BY <2>2, FS_CardinalityType
<1>5. Cardinality(T \cup G) <= Cardinality(T) + Cardinality(G)
  <2> HIDE DEF T, G
  <2>1. Cardinality(T \cup G) = Cardinality(T) + Cardinality(G) - Cardinality(T \cap G)
    BY <1>2, <1>4, FS_Union
  <2>2. Cardinality(T \cap G) \in Nat
    BY <1>2, FS_Intersection, FS_CardinalityType
  <2> QED BY <1>2, <1>4, <2>1, <2>2, SMT
<1>6. CASE disp[d].pc = "spawn" /\ disp[d].part = p
  <2>1. Cardinality(T) + Cardinality(G) <= qset.worker
    <3> HIDE DEF G
    <3> QED BY <1>1, <1>2, <1>3, <1>4, <1>6, SMT DEF Slots
  <2>2. Cardinality(T \cup G) \in Nat
    <3> HIDE DEF T, G
    <3> QED BY <1>2, <1>4, FS_Union, FS_CardinalityType
  <2>3. Cardinality(T \cup G) <= qset.worker
    <3> HIDE DEF T, G
    <3> QED BY <1>1, <1>2, <1>4, <1>5, <2>1, <2>2, SMT
  <2> QED BY <1>6, <2>3 DEF Tasks
<1>7. CASE ~(disp[d].pc = "spawn" /\ disp[d].part = p)
  <2>1. Cardinality(T) <= qset.worker
    <3> HIDE DEF T
    <3> QED BY <1>1, <1>2, SMT DEF Slots, T
  <2>2. {t \in task : t[1] = d /\ t[2] \in Scope(p)} \cup {} = T
    BY DEF Tasks
  <2> QED BY <1>7, <2>1, <2>2
<1> QED BY <1>6, <1>7

(* No process runs more than worker_concurrency workflows of a partition,  *)
(* whatever the other limits, the handlers and the failures: a loop leaves *)
(* room in local_running for every row it may still spawn, and only the    *)
(* guard of a run gives a place back.                                      *)
THEOREM WorkerLimitHolds == QueueSpec => []WorkerLimit
<1>1. LoopInv /\ [QueueNext]_queueVars => LoopInv'
  BY LoopKeeps
<1> QED BY <1>1, LoopInit, SlotsSuffice, PTL DEF QueueSpec

(* ----------------------------------------------- the limits on starts *)

(* Sets of rows of which each member of L has at most n.  Numbering each   *)
(* one's rows by rank puts them into L \X 0 .. n - 1.                      *)
LEMMA UnionBound ==
    ASSUME NEW S \in SUBSET QRow, NEW L, IsFiniteSet(L), NEW n \in Nat, NEW g,
           \A r \in S : g[r] \in L,
           \A d \in L : Cardinality({r \in S : g[r] = d}) <= n
    PROVE  Cardinality(S) <= n * Cardinality(L)
<1> DEFINE Lower(r) == {s \in S : g[s] = g[r] /\ Rank[s] < Rank[r]}
           f == [r \in S |-> <<g[r], Cardinality(Lower(r))>>]
           T == 0 .. n - 1
<1>1. IsFiniteSet(S)
  BY QueueAssumption, FS_Subset
<1>2. \A r \in S : IsFiniteSet(Lower(r)) /\ Cardinality(Lower(r)) \in Nat
  BY <1>1, FS_Subset, FS_CardinalityType
<1>3. ASSUME NEW r \in S PROVE Cardinality(Lower(r)) \in T
  <2> DEFINE Mine == {s \in S : g[s] = g[r]}
  <2>1. Lower(r) \subseteq Mine /\ r \in Mine /\ r \notin Lower(r)
    BY QueueAssumption, SMT
  <2>2. IsFiniteSet(Mine) /\ Cardinality(Mine) \in Nat /\ Cardinality(Mine) <= n
    BY <1>1, FS_Subset, FS_CardinalityType
  <2>3. Cardinality(Lower(r)) <= Cardinality(Mine) /\ Cardinality(Lower(r)) # Cardinality(Mine)
    BY <2>1, <2>2, FS_Subset
  <2> HIDE DEF Lower, Mine
  <2> QED BY <1>2, <2>2, <2>3, SMT
<1>4. f \in [S -> L \X T]
  <2> HIDE DEF Lower, T
  <2> QED BY <1>3
<1>5. ASSUME NEW r \in S, NEW s \in S, g[r] = g[s], Rank[r] < Rank[s]
      PROVE  Cardinality(Lower(r)) # Cardinality(Lower(s))
  <2>1. Lower(r) \subseteq Lower(s) /\ r \in Lower(s) /\ r \notin Lower(r)
    BY <1>5, QueueAssumption, SMT
  <2> QED BY <1>1, <1>2, <2>1, FS_Subset
<1>6. \A r, s \in S : f[r] = f[s] => r = s
  <2> SUFFICES ASSUME NEW r \in S, NEW s \in S, f[r] = f[s], r # s PROVE FALSE
    OBVIOUS
  <2>1. g[r] = g[s] /\ Cardinality(Lower(r)) = Cardinality(Lower(s))
    <3> HIDE DEF Lower
    <3> QED BY SMT
  <2>2. Rank[r] \in Nat /\ Rank[s] \in Nat /\ Rank[r] # Rank[s]
    BY QueueAssumption
  <2>3. Rank[r] < Rank[s] \/ Rank[s] < Rank[r]
    BY <2>2, SMT
  <2> QED BY <1>5, <2>1, <2>3
<1>7. f \in Injection(S, L \X T)
  BY <1>4, <1>6 DEF Injection, IsInjective
<1>8. IsFiniteSet(T) /\ Cardinality(T) = n
  BY FS_Interval, SMT
<1>9. IsFiniteSet(L \X T) /\ Cardinality(L \X T) = Cardinality(L) * Cardinality(T)
  BY <1>8, FS_Product
<1>10. Cardinality(S) <= Cardinality(L \X T)
  BY <1>7, <1>9, FS_Injection
<1>11. Cardinality(L) \in Nat
  BY FS_CardinalityType
<1>12. Cardinality(L) * n = n * Cardinality(L)
  BY <1>11, SMT
<1> QED BY <1>8, <1>9, <1>10, <1>12

LEMMA RowsOf ==
    ASSUME NEW d, NEW p
    PROVE  /\ Busy(p) \subseteq QRow /\ Recent(p) \subseteq QRow
           /\ BusyOf(d, p) \subseteq Busy(p) /\ RecentOf(d, p) \subseteq Recent(p)
           /\ BusyOf(d, p) \subseteq QRow /\ RecentOf(d, p) \subseteq QRow
  BY DEF Busy, BusyOf, Recent, RecentOf, QRows, Scope

(* A loop that claims nothing, or goes on with no more rows, keeps to its  *)
(* limit.                                                                  *)
LEMMA FitsLess ==
    ASSUME NEW x, NEW y, NEW p, NEW n \in Nat, NEW B \in SUBSET QRow, NEW C \in SUBSET B,
           Fits(x, B, p, n), x.room \in Nat, Cardinality(x.got) \in Nat,
           y = x \/ y.pc \notin {"select", "update"}
    PROVE  Fits(y, C, p, n)
<1>1. Cardinality(C) <= Cardinality(B) /\ Cardinality(C) \in Nat /\ Cardinality(B) \in Nat
  BY Smaller
<1>2. Cardinality(C) <= n
  BY <1>1, SMT DEF Fits
<1>3. CASE y = x
  BY <1>1, <1>2, <1>3, SMT DEF Fits
<1>4. CASE y.pc \notin {"select", "update"}
  BY <1>2, <1>4 DEF Fits
<1> QED BY <1>3, <1>4

(* The steps that claim no row: none becomes PENDING, or counts as started *)
(* again, and a loop that they move is outside of a transaction.           *)
Calm ==
    /\ qset' = qset /\ qfresh' \subseteq qfresh
    /\ \A r \in QRow :
          /\ qrow'[r].by = qrow[r].by
          /\ qrow'[r].st = "PENDING" => qrow[r].st = "PENDING"
          /\ qrow'[r].on => /\ qrow[r].on
                            /\ qrow[r].st \in {"ENQUEUED", "DELAYED"} =>
                                  qrow'[r].st \in {"ENQUEUED", "DELAYED"}
    /\ \A d \in Dispatcher :
          \/ disp'[d] = disp[d]
          \/ /\ disp'[d].pc \notin {"select", "update"}
             /\ disp'[d].pc # "poll" => d \in qset.listens

LEMMA CalmStarts ==
    ASSUME LoopInv, StartInv, Calm PROVE StartInv'
<1>1. MyParts' = MyParts /\ qset' = qset
  BY DEF Calm, MyParts
<1>2. ListenInv'
  BY DEF Calm, StartInv, ListenInv
<1>3. ASSUME NEW d \in Dispatcher, NEW p \in MyParts
      PROVE  BusyOf(d, p)' \subseteq BusyOf(d, p) /\ RecentOf(d, p)' \subseteq RecentOf(d, p)
  <2>1. BusyOf(d, p)' \subseteq BusyOf(d, p)
    BY DEF Calm, BusyOf, Busy, QRows, Scope
  <2>2. RecentOf(d, p)' \subseteq RecentOf(d, p)
    BY DEF Calm, RecentOf, Recent, Scope
  <2> QED BY <2>1, <2>2
<1>4. ASSUME NEW d \in Dispatcher, NEW p \in MyParts
      PROVE  /\ qset.global # NoLimit => Fits(disp'[d], BusyOf(d, p)', p, qset.global)
             /\ qset.rate # NoLimit => Fits(disp'[d], RecentOf(d, p)', p, qset.rate)
  <2>1. disp'[d] = disp[d] \/ disp'[d].pc \notin {"select", "update"}
    BY DEF Calm
  <2>2. disp[d].room \in Nat /\ Cardinality(disp[d].got) \in Nat
    BY OwnLoop
  <2>3. {qset.global, qset.rate} \subseteq Nat \cup {NoLimit}
    BY PartsAre DEF LoopInv
  <2>4. /\ qset.global # NoLimit => Fits(disp[d], BusyOf(d, p), p, qset.global)
        /\ qset.rate # NoLimit => Fits(disp[d], RecentOf(d, p), p, qset.rate)
    BY DEF StartInv, OwnLimitInv
  <2>5. BusyOf(d, p) \in SUBSET QRow /\ RecentOf(d, p) \in SUBSET QRow
    BY RowsOf
  <2>6. qset.global # NoLimit => Fits(disp'[d], BusyOf(d, p)', p, qset.global)
    BY <1>3, <2>1, <2>2, <2>3, <2>4, <2>5, FitsLess
  <2>7. qset.rate # NoLimit => Fits(disp'[d], RecentOf(d, p)', p, qset.rate)
    BY <1>3, <2>1, <2>2, <2>3, <2>4, <2>5, FitsLess
  <2> QED BY <2>6, <2>7
<1>5. OwnLimitInv'
  <2>1. \A d \in Dispatcher, p \in MyParts' :
          /\ qset'.global # NoLimit => Fits(disp'[d], BusyOf(d, p)', p, qset'.global)
          /\ qset'.rate # NoLimit => Fits(disp'[d], RecentOf(d, p)', p, qset'.rate)
    BY <1>1, <1>4
  <2> QED BY <2>1 DEF OwnLimitInv
<1> QED BY <1>2, <1>5 DEF StartInv

LEMMA StayCalm ==
    ASSUME LoopInv, StartInv, NEW d \in Dispatcher, NEW x \in LoopStates,
           disp' = [disp EXCEPT ![d] = x], x.pc \notin {"select", "update"},
           x.pc # "poll" => d \in qset.listens, UNCHANGED <<qrow, qfresh, qset>>
    PROVE  StartInv'
<1>1. disp'[d] = x /\ \A e \in Dispatcher \ {d} : disp'[e] = disp[e]
  BY LoopMove DEF LoopInv
<1>2. Calm
  BY <1>1 DEF Calm
<1> QED BY <1>2, CalmStarts

LEMMA EnvStarts ==
    ASSUME LoopInv, StartInv, NEW r \in QRow,
           Arrive(r) \/ Elapse(r) \/ Period(r) \/ CancelQueued(r)
             \/ \E d \in Dispatcher : Finish(d, r) \/ DropGuard(d, r)
    PROVE  StartInv'
<1>0. qrow \in [QRow -> [st : QueueStatus, on : BOOLEAN, by : Owner]]
  BY RowsTyped
<1>1. CASE Arrive(r)
  <2>1. PICK c \in {"DELAYED", "ENQUEUED"} : qrow' = [qrow EXCEPT ![r].st = c]
    BY <1>1 DEF Arrive
  <2>2. UNCHANGED <<qfresh, disp, qset>>
    BY <1>1 DEF Arrive
  <2>3. Calm
    BY <1>0, <2>1, <2>2, SMT DEF Calm
  <2> QED BY <2>3, CalmStarts
<1>2. CASE Elapse(r) \/ Period(r) \/ \E d \in Dispatcher : DropGuard(d, r)
  <2>1. UNCHANGED <<qrow, disp, qset>> /\ qfresh' \subseteq qfresh
    BY <1>2 DEF Elapse, Period, DropGuard
  <2>2. Calm
    BY <2>1 DEF Calm
  <2> QED BY <2>2, CalmStarts
<1>3. CASE CancelQueued(r)
  <2>1. qrow' = [qrow EXCEPT ![r].st = "CANCELLED", ![r].on = FALSE] /\ UNCHANGED <<qfresh, disp, qset>>
    BY <1>3 DEF CancelQueued
  <2>2. Calm
    BY <1>0, <2>1, SMT DEF Calm
  <2> QED BY <2>2, CalmStarts
<1>4. CASE \E d \in Dispatcher : Finish(d, r)
  <2>1. /\ qrow' = [qrow EXCEPT ![r].st = "SUCCESS"] /\ qrow[r].st = "PENDING"
        /\ UNCHANGED <<qfresh, disp, qset>>
    BY <1>4 DEF Finish
  <2>2. Calm
    BY <1>0, <2>1, SMT DEF Calm
  <2> QED BY <2>2, CalmStarts
<1> QED BY <1>1, <1>2, <1>3, <1>4

LEMMA QuietStarts ==
    ASSUME LoopInv, StartInv, NEW d \in Dispatcher,
           PollFails(d) \/ ListPartitions(d) \/ PartitionsFail(d) \/ Sleep(d)
             \/ ClaimFails(d) \/ Spawn(d) \/ Spawned(d)
    PROVE  StartInv'
<1>0. {} \in SUBSET (Parts \cup {AnyPart})
  OBVIOUS
<1>1. CASE PollFails(d)
  BY <1>1, <1>0, IdleIs, StayCalm DEF PollFails
<1>2. CASE ListPartitions(d)
  <2> DEFINE T == IF qset.partitioned THEN {PartOf[r] : r \in QRows("ENQUEUED")} ELSE {AnyPart}
             x == [Idle("next") EXCEPT !.todo = T]
  <2>1. T \in SUBSET (Parts \cup {AnyPart})
    BY DEF Parts, QRows
  <2>2. disp' = [disp EXCEPT ![d] = x] /\ UNCHANGED <<qrow, qfresh, qset>> /\ disp[d].pc = "parts"
    BY <1>2 DEF ListPartitions
  <2> HIDE DEF T
  <2>3. x \in LoopStates /\ x.pc = "next"
    BY <2>1, IdleIs
  <2> HIDE DEF x
  <2>4. d \in qset.listens
    BY <2>2 DEF StartInv, ListenInv
  <2> QED BY <2>2, <2>3, <2>4, StayCalm
<1>3. CASE PartitionsFail(d)
  <2>1. d \in qset.listens
    BY <1>3 DEF PartitionsFail, StartInv, ListenInv
  <2> QED BY <1>3, <2>1, <1>0, IdleIs, StayCalm DEF PartitionsFail
<1>4. CASE Sleep(d)
  BY <1>4, <1>0, IdleIs, StayCalm DEF Sleep
<1>5. CASE ClaimFails(d) \/ Spawned(d)
  <2>1. /\ disp' = [disp EXCEPT ![d] = NextPart(d)] /\ UNCHANGED <<qrow, qfresh, qset>>
        /\ disp[d].pc # "poll"
    BY <1>5 DEF ClaimFails, Spawned
  <2>2. d \in qset.listens
    BY <2>1 DEF StartInv, ListenInv
  <2> QED BY <2>1, <2>2, NextPartIs, StayCalm
<1>6. CASE Spawn(d)
  <2>1. PICK r \in disp[d].got : /\ disp[d].pc = "spawn" /\ UNCHANGED <<qrow, qfresh, qset>>
                                 /\ disp' = [disp EXCEPT ![d].got = @ \ {r}]
    BY <1>6 DEF Spawn
  <2> DEFINE x == [disp[d] EXCEPT !.got = @ \ {r}]
  <2>2. x \in LoopStates /\ x.pc = "spawn"
    BY <2>1, OwnLoop DEF LoopStates
  <2>3. disp' = [disp EXCEPT ![d] = x]
    BY <2>1
  <2> HIDE DEF x
  <2>4. d \in qset.listens
    BY <2>1 DEF StartInv, ListenInv
  <2> QED BY <2>1, <2>2, <2>3, <2>4, StayCalm
<1> QED BY <1>1, <1>2, <1>3, <1>4, <1>5, <1>6

LEMMA PollStarts ==
    ASSUME LoopInv, StartInv, NEW d \in Dispatcher, Poll(d) PROVE StartInv'
<1> DEFINE due == {r \in qdue : qrow[r].st = "DELAYED"}
<1>1. /\ qrow' = [r \in QRow |-> IF r \in due THEN [qrow[r] EXCEPT !.st = "ENQUEUED"] ELSE qrow[r]]
      /\ disp' = [disp EXCEPT ![d] = Idle("parts")] /\ UNCHANGED <<qfresh, qset>> /\ d \in qset.listens
  BY DEF Poll
<1>2. qrow \in [QRow -> [st : QueueStatus, on : BOOLEAN, by : Owner]]
  BY RowsTyped
<1>3. /\ qset' = qset /\ qfresh' \subseteq qfresh
      /\ \A r \in QRow :
          /\ qrow'[r].by = qrow[r].by
          /\ qrow'[r].st = "PENDING" => qrow[r].st = "PENDING"
          /\ qrow'[r].on => /\ qrow[r].on
                            /\ qrow[r].st \in {"ENQUEUED", "DELAYED"} =>
                                  qrow'[r].st \in {"ENQUEUED", "DELAYED"}
  <2> HIDE DEF due
  <2> QED BY <1>1, <1>2, SMT
<1>4. {} \in SUBSET (Parts \cup {AnyPart})
  OBVIOUS
<1>5. Idle("parts") \in LoopStates /\ Idle("parts").pc = "parts"
  BY <1>4, IdleIs
<1>6. disp'[d] = Idle("parts") /\ \A e \in Dispatcher \ {d} : disp'[e] = disp[e]
  BY <1>1, <1>5, LoopMove DEF LoopInv
<1>7. Calm
  BY <1>1, <1>3, <1>5, <1>6 DEF Calm
<1> QED BY <1>7, CalmStarts

LEMMA ReleaseStarts ==
    ASSUME LoopInv, StartInv, NEW d \in Dispatcher, Release(d) PROVE StartInv'
<1>1. PICK r \in disp[d].got :
        /\ disp[d].pc = "spawn" /\ UNCHANGED <<qfresh, qset>>
        /\ qrow' = [qrow EXCEPT ![r].st = "ENQUEUED"]
        /\ disp' = [disp EXCEPT ![d].got = @ \ {r}]
  BY DEF Release
<1> DEFINE x == [disp[d] EXCEPT !.got = @ \ {r}]
<1>2. x \in LoopStates /\ x.pc = "spawn" /\ r \in QRow
  BY <1>1, OwnLoop DEF LoopStates
<1>3. disp' = [disp EXCEPT ![d] = x]
  BY <1>1
<1> HIDE DEF x
<1>4. disp'[d] = x /\ \A e \in Dispatcher \ {d} : disp'[e] = disp[e]
  BY <1>2, <1>3, LoopMove DEF LoopInv
<1>5. d \in qset.listens
  BY <1>1 DEF StartInv, ListenInv
<1>6. qrow \in [QRow -> [st : QueueStatus, on : BOOLEAN, by : Owner]]
  BY RowsTyped
<1>7. \A s \in QRow :
          /\ qrow'[s].by = qrow[s].by
          /\ qrow'[s].st = "PENDING" => qrow[s].st = "PENDING"
          /\ qrow'[s].on => /\ qrow[s].on
                            /\ qrow[s].st \in {"ENQUEUED", "DELAYED"} =>
                                  qrow'[s].st \in {"ENQUEUED", "DELAYED"}
  BY <1>1, <1>2, <1>6, SMT
<1>8. Calm
  BY <1>1, <1>2, <1>4, <1>5, <1>7 DEF Calm
<1> QED BY <1>8, CalmStarts

(* The steps within a transaction move one loop: the others keep to their  *)
(* limits with the rows they had.                                          *)
LEMMA OneMoves ==
    ASSUME LoopInv, StartInv, NEW d \in Dispatcher, NEW x \in LoopStates,
           disp' = [disp EXCEPT ![d] = x], qset' = qset, d \in qset.listens,
           \A r \in QRow : qrow'[r].st = "PENDING" \/ r \in qfresh' =>
              \/ qrow'[r].by = d
              \/ qrow'[r].by = qrow[r].by /\ (qrow[r].st = "PENDING" \/ r \in qfresh),
           \A e \in Dispatcher \ {d} : \A p \in MyParts :
              BusyOf(e, p)' \subseteq BusyOf(e, p) /\ RecentOf(e, p)' \subseteq RecentOf(e, p),
           \A p \in MyParts :
              /\ qset.global # NoLimit => Fits(x, BusyOf(d, p)', p, qset.global)
              /\ qset.rate # NoLimit => Fits(x, RecentOf(d, p)', p, qset.rate)
    PROVE  StartInv'
<1>1. disp'[d] = x /\ \A e \in Dispatcher \ {d} : disp'[e] = disp[e]
  BY LoopMove DEF LoopInv
<1>2. MyParts' = MyParts
  BY DEF MyParts
<1>3. ListenInv'
  <2>1. \A e \in Dispatcher : disp'[e].pc # "poll" => e \in qset'.listens
    BY <1>1 DEF StartInv, ListenInv
  <2>2. \A r \in QRow : qrow'[r].st = "PENDING" \/ r \in qfresh' => qrow'[r].by \in qset'.listens
    BY DEF StartInv, ListenInv
  <2> QED BY <2>1, <2>2 DEF ListenInv
<1>4. ASSUME NEW e \in Dispatcher \ {d}, NEW p \in MyParts
      PROVE  /\ qset.global # NoLimit => Fits(disp'[e], BusyOf(e, p)', p, qset.global)
             /\ qset.rate # NoLimit => Fits(disp'[e], RecentOf(e, p)', p, qset.rate)
  <2>1. disp'[e] = disp[e]
    BY <1>1
  <2>2. disp[e].room \in Nat /\ Cardinality(disp[e].got) \in Nat
    BY OwnLoop
  <2>3. {qset.global, qset.rate} \subseteq Nat \cup {NoLimit}
    BY PartsAre DEF LoopInv
  <2>4. /\ qset.global # NoLimit => Fits(disp[e], BusyOf(e, p), p, qset.global)
        /\ qset.rate # NoLimit => Fits(disp[e], RecentOf(e, p), p, qset.rate)
    BY DEF StartInv, OwnLimitInv
  <2>5. BusyOf(e, p) \in SUBSET QRow /\ RecentOf(e, p) \in SUBSET QRow
    BY RowsOf
  <2>6. BusyOf(e, p)' \subseteq BusyOf(e, p) /\ RecentOf(e, p)' \subseteq RecentOf(e, p)
    OBVIOUS
  <2>7. qset.global # NoLimit => Fits(disp'[e], BusyOf(e, p)', p, qset.global)
    BY <2>1, <2>2, <2>3, <2>4, <2>5, <2>6, FitsLess
  <2>8. qset.rate # NoLimit => Fits(disp'[e], RecentOf(e, p)', p, qset.rate)
    BY <2>1, <2>2, <2>3, <2>4, <2>5, <2>6, FitsLess
  <2> QED BY <2>7, <2>8
<1>5. \A e \in Dispatcher, p \in MyParts' :
        /\ qset'.global # NoLimit => Fits(disp'[e], BusyOf(e, p)', p, qset'.global)
        /\ qset'.rate # NoLimit => Fits(disp'[e], RecentOf(e, p)', p, qset'.rate)
  BY <1>1, <1>2, <1>4
<1>6. OwnLimitInv'
  BY <1>5 DEF OwnLimitInv
<1> QED BY <1>3, <1>6 DEF StartInv

LEMMA RowsStay ==
    ASSUME UNCHANGED <<qrow, qfresh>>, NEW d, NEW p
    PROVE  BusyOf(d, p)' = BusyOf(d, p) /\ RecentOf(d, p)' = RecentOf(d, p)
  BY DEF BusyOf, Busy, RecentOf, Recent, QRows, Scope

(* The counts include the executor's own rows.                             *)
LEMMA BeginStarts ==
    ASSUME LoopInv, StartInv, NEW d \in Dispatcher, Begin(d) PROVE StartInv'
<1>1. PICK p \in disp[d].todo, x \in LoopStates :
        /\ disp' = [disp EXCEPT ![d] = x]
        /\ \/ x.pc = "next"
           \/ /\ x.pc = "select" /\ x.part = p /\ x.room # 0
              /\ \E n \in Nat : x.room = QueueRoom(p, n)
  BY BeginIs
<1>2. UNCHANGED <<qrow, qfresh, qset>> /\ disp[d].pc = "next"
  BY BeginIs
<1>3. d \in qset.listens
  BY <1>2 DEF StartInv, ListenInv
<1>4. CASE x.pc = "next"
  BY <1>1, <1>2, <1>3, <1>4, StayCalm
<1>5. CASE x.pc = "select"
  <2>1. PICK n \in Nat : x.room = QueueRoom(p, n)
    BY <1>1, <1>5
  <2>2. /\ x.part = p /\ x.room # 0 /\ x.room \in Nat
        /\ qset.rate # NoLimit => Cardinality(Recent(p)) + x.room <= qset.rate
        /\ qset.global # NoLimit => Cardinality(Busy(p)) + x.room <= qset.global
    BY <1>1, <1>5, <2>1, RoomIs DEF LoopInv
  <2>3. {qset.global, qset.rate} \subseteq Nat \cup {NoLimit}
    BY PartsAre DEF LoopInv
  <2>4. ASSUME NEW q \in MyParts, qset.global # NoLimit PROVE Fits(x, BusyOf(d, q), q, qset.global)
    <3>1. Cardinality(BusyOf(d, q)) <= qset.global
      BY <2>4 DEF StartInv, OwnLimitInv, Fits
    <3>2. q = p => Cardinality(BusyOf(d, q)) + x.room <= qset.global
      <4>1. /\ Cardinality(BusyOf(d, p)) <= Cardinality(Busy(p))
            /\ Cardinality(BusyOf(d, p)) \in Nat /\ Cardinality(Busy(p)) \in Nat
        BY RowsOf, Smaller
      <4> QED BY <2>2, <2>3, <2>4, <4>1, SMT
    <3> QED BY <1>5, <2>2, <3>1, <3>2 DEF Fits
  <2>5. ASSUME NEW q \in MyParts, qset.rate # NoLimit PROVE Fits(x, RecentOf(d, q), q, qset.rate)
    <3>1. Cardinality(RecentOf(d, q)) <= qset.rate
      BY <2>5 DEF StartInv, OwnLimitInv, Fits
    <3>2. q = p => Cardinality(RecentOf(d, q)) + x.room <= qset.rate
      <4>1. /\ Cardinality(RecentOf(d, p)) <= Cardinality(Recent(p))
            /\ Cardinality(RecentOf(d, p)) \in Nat /\ Cardinality(Recent(p)) \in Nat
        BY RowsOf, Smaller
      <4> QED BY <2>2, <2>3, <2>5, <4>1, SMT
    <3> QED BY <1>5, <2>2, <3>1, <3>2 DEF Fits
  <2>6. \A r \in QRow : qrow'[r].st = "PENDING" \/ r \in qfresh' =>
          qrow'[r].by = qrow[r].by /\ (qrow[r].st = "PENDING" \/ r \in qfresh)
    BY <1>2
  <2>7. \A e, q : BusyOf(e, q)' = BusyOf(e, q) /\ RecentOf(e, q)' = RecentOf(e, q)
    BY <1>2, RowsStay
  <2>8. \A q \in MyParts :
          /\ qset.global # NoLimit => Fits(x, BusyOf(d, q)', q, qset.global)
          /\ qset.rate # NoLimit => Fits(x, RecentOf(d, q)', q, qset.rate)
    BY <2>4, <2>5, <2>7
  <2>9. \A e \in Dispatcher \ {d} : \A q \in MyParts :
          BusyOf(e, q)' \subseteq BusyOf(e, q) /\ RecentOf(e, q)' \subseteq RecentOf(e, q)
    BY <2>7
  <2> QED BY <1>1, <1>2, <1>3, <2>6, <2>8, <2>9, OneMoves
<1> QED BY <1>1, <1>4, <1>5

(* It locks no more rows than it had room for.                             *)
LEMMA SelectStarts ==
    ASSUME LoopInv, StartInv, NEW d \in Dispatcher, Select(d) PROVE StartInv'
<1>1. PICK x \in LoopStates :
        /\ disp' = [disp EXCEPT ![d] = x]
        /\ \/ x.pc = "next"
           \/ x.pc = "update" /\ x.part = disp[d].part /\ x.got = Chosen(d)
  BY SelectIs
<1>2. UNCHANGED <<qrow, qfresh, qset>> /\ disp[d].pc = "select"
  BY SelectIs
<1>3. d \in qset.listens
  BY <1>2 DEF StartInv, ListenInv
<1>4. CASE x.pc = "next"
  BY <1>1, <1>2, <1>3, <1>4, StayCalm
<1>5. CASE x.pc = "update"
  <2>1. x.part = disp[d].part /\ x.got = Chosen(d)
    BY <1>1, <1>5
  <2>2. /\ Cardinality(x.got) \in Nat /\ Cardinality(x.got) <= disp[d].room /\ disp[d].room \in Nat
        /\ {qset.global, qset.rate} \subseteq Nat \cup {NoLimit}
    BY <2>1, CandidatesAre, OwnLoop, PartsAre DEF LoopInv
  <2>3. ASSUME NEW q, NEW B \in SUBSET QRow, NEW n \in Nat, Fits(disp[d], B, q, n)
        PROVE  Fits(x, B, q, n)
    <3>1. Cardinality(B) \in Nat
      BY Smaller
    <3> QED BY <1>2, <1>5, <2>1, <2>2, <2>3, <3>1, SMT DEF Fits
  <2>4. \A q \in MyParts :
          /\ qset.global # NoLimit => Fits(disp[d], BusyOf(d, q), q, qset.global)
          /\ qset.rate # NoLimit => Fits(disp[d], RecentOf(d, q), q, qset.rate)
          /\ BusyOf(d, q) \in SUBSET QRow /\ RecentOf(d, q) \in SUBSET QRow
    BY RowsOf DEF StartInv, OwnLimitInv
  <2>5. \A q \in MyParts :
          /\ qset.global # NoLimit => Fits(x, BusyOf(d, q), q, qset.global)
          /\ qset.rate # NoLimit => Fits(x, RecentOf(d, q), q, qset.rate)
    BY <2>2, <2>3, <2>4
  <2>6. \A r \in QRow : qrow'[r].st = "PENDING" \/ r \in qfresh' =>
          qrow'[r].by = qrow[r].by /\ (qrow[r].st = "PENDING" \/ r \in qfresh)
    BY <1>2
  <2>7. \A e, q : BusyOf(e, q)' = BusyOf(e, q) /\ RecentOf(e, q)' = RecentOf(e, q)
    BY <1>2, RowsStay
  <2>8. \A q \in MyParts :
          /\ qset.global # NoLimit => Fits(x, BusyOf(d, q)', q, qset.global)
          /\ qset.rate # NoLimit => Fits(x, RecentOf(d, q)', q, qset.rate)
    BY <2>5, <2>7
  <2>9. \A e \in Dispatcher \ {d} : \A q \in MyParts :
          BusyOf(e, q)' \subseteq BusyOf(e, q) /\ RecentOf(e, q)' \subseteq RecentOf(e, q)
    BY <2>7
  <2> QED BY <1>1, <1>2, <1>3, <2>6, <2>8, <2>9, OneMoves
<1> QED BY <1>1, <1>4, <1>5

(* It claims the rows it locked for itself, all of its partition.          *)
LEMMA ClaimStarts ==
    ASSUME LoopInv, StartInv, NEW d \in Dispatcher, Claim(d) PROVE StartInv'
<1> DEFINE mine == {r \in disp[d].got : qrow[r].st = "ENQUEUED"}
           x == [disp[d] EXCEPT !.pc = "spawn", !.got = mine, !.snap = {}]
<1>1. /\ disp[d].pc = "update" /\ qset' = qset
      /\ qrow' = [r \in QRow |-> IF r \in mine THEN [qrow[r] EXCEPT !.st = "PENDING", !.by = d]
                                 ELSE qrow[r]]
      /\ qfresh' = IF qset.rate = NoLimit THEN qfresh ELSE qfresh \cup mine
  BY DEF Claim
<1>2. disp' = [disp EXCEPT ![d] = x]
  BY DEF Claim
<1>3. /\ disp[d] \in LoopStates /\ disp[d].got \subseteq QRow /\ disp[d].part \in MyParts
      /\ disp[d].got \subseteq Scope(disp[d].part)
      /\ IsFiniteSet(disp[d].got) /\ Cardinality(disp[d].got) \in Nat
  BY <1>1, OwnLoop DEF Placed
<1>4. mine \subseteq disp[d].got /\ mine \in SUBSET QRow /\ \A r \in mine : qrow[r].st = "ENQUEUED"
  BY <1>3
<1> HIDE DEF mine
<1>5. x \in LoopStates /\ x.pc = "spawn"
  BY <1>3, <1>4 DEF LoopStates
<1> HIDE DEF x
<1>6. d \in qset.listens
  BY <1>1 DEF StartInv, ListenInv
<1>7. qrow \in [QRow -> [st : QueueStatus, on : BOOLEAN, by : Owner]]
  BY RowsTyped
<1>8. \A r \in QRow :
        /\ r \in mine => qrow'[r].st = "PENDING" /\ qrow'[r].by = d
        /\ r \notin mine => qrow'[r] = qrow[r]
  BY <1>1, <1>7
<1>9. \A r \in qfresh' : r \in mine \/ r \in qfresh
  BY <1>1
<1>10. \A r \in QRow : qrow'[r].st = "PENDING" \/ r \in qfresh' =>
          \/ qrow'[r].by = d
          \/ qrow'[r].by = qrow[r].by /\ (qrow[r].st = "PENDING" \/ r \in qfresh)
  BY <1>8, <1>9
<1>11. ASSUME NEW e \in Dispatcher, NEW q \in MyParts
       PROVE  /\ e # d => BusyOf(e, q)' \subseteq BusyOf(e, q) /\ RecentOf(e, q)' \subseteq RecentOf(e, q)
              /\ BusyOf(e, q)' \subseteq BusyOf(e, q) \cup (mine \cap Scope(q))
              /\ RecentOf(e, q)' \subseteq RecentOf(e, q) \cup (mine \cap Scope(q))
  <2>1. /\ e # d => BusyOf(e, q)' \subseteq BusyOf(e, q)
        /\ BusyOf(e, q)' \subseteq BusyOf(e, q) \cup (mine \cap Scope(q))
    BY <1>8 DEF BusyOf, Busy, QRows, Scope
  <2>2. /\ e # d => RecentOf(e, q)' \subseteq RecentOf(e, q)
        /\ RecentOf(e, q)' \subseteq RecentOf(e, q) \cup (mine \cap Scope(q))
    <3> SUFFICES ASSUME NEW r \in RecentOf(e, q)'
                 PROVE  /\ e # d => r \in RecentOf(e, q)
                        /\ r \in RecentOf(e, q) \/ (r \in mine /\ r \in Scope(q))
      OBVIOUS
    <3>1. r \in QRow /\ r \in Scope(q) /\ r \in qfresh' /\ qrow'[r].by = e /\ qrow'[r].on
          /\ qrow'[r].st \notin {"ENQUEUED", "DELAYED"}
      BY DEF RecentOf, Recent, Scope
    <3>2. CASE r \in mine
      BY <1>8, <3>1, <3>2
    <3>3. CASE r \notin mine
      BY <1>8, <1>9, <3>1, <3>3 DEF RecentOf, Recent
    <3> QED BY <3>2, <3>3
  <2> QED BY <2>1, <2>2
<1>12. ASSUME NEW q \in MyParts, NEW B \in SUBSET QRow, NEW C \in SUBSET QRow, NEW n \in Nat,
              C \subseteq B \cup (mine \cap Scope(q)), Fits(disp[d], B, q, n)
       PROVE  Fits(x, C, q, n)
  <2>1. Cardinality(C) <= n
    <3>1. CASE q = disp[d].part
      <4>1. C \subseteq B \cup disp[d].got /\ B \cup disp[d].got \in SUBSET QRow
        BY <1>3, <1>4, <1>12
      <4>2. Cardinality(C) <= Cardinality(B \cup disp[d].got) /\ Cardinality(C) \in Nat
        BY <4>1, Smaller
      <4>3. IsFiniteSet(B) /\ Cardinality(B) \in Nat
        BY Smaller
      <4>4. /\ Cardinality(B \cup disp[d].got) =
                 Cardinality(B) + Cardinality(disp[d].got) - Cardinality(B \cap disp[d].got)
            /\ Cardinality(B \cap disp[d].got) \in Nat
        BY <1>3, <4>3, FS_Union, FS_Intersection, FS_CardinalityType
      <4>5. Cardinality(B) + Cardinality(disp[d].got) <= n
        BY <1>1, <1>12, <3>1 DEF Fits
      <4> QED BY <1>3, <4>2, <4>3, <4>4, <4>5, SMT
    <3>2. CASE q # disp[d].part
      <4>1. mine \cap Scope(q) = {}
        BY <1>3, <1>4, <3>2, TaskPart
      <4>2. C \subseteq B
        BY <1>12, <4>1
      <4>3. Cardinality(C) <= Cardinality(B) /\ Cardinality(C) \in Nat /\ Cardinality(B) \in Nat
        BY <4>2, Smaller
      <4>4. Cardinality(B) <= n
        BY <1>12 DEF Fits
      <4> QED BY <4>3, <4>4, SMT
    <3> QED BY <3>1, <3>2
  <2> QED BY <1>5, <2>1 DEF Fits
<1>13. ASSUME NEW q \in MyParts
       PROVE  /\ qset.global # NoLimit => Fits(x, BusyOf(d, q)', q, qset.global)
              /\ qset.rate # NoLimit => Fits(x, RecentOf(d, q)', q, qset.rate)
  <2>1. /\ BusyOf(d, q) \in SUBSET QRow /\ RecentOf(d, q) \in SUBSET QRow
    BY RowsOf
  <2>2. BusyOf(d, q)' \in SUBSET QRow /\ RecentOf(d, q)' \in SUBSET QRow
    BY <1>4, <1>11, <2>1
  <2>3. /\ qset.global # NoLimit => Fits(disp[d], BusyOf(d, q), q, qset.global)
        /\ qset.rate # NoLimit => Fits(disp[d], RecentOf(d, q), q, qset.rate)
    BY DEF StartInv, OwnLimitInv
  <2>4. {qset.global, qset.rate} \subseteq Nat \cup {NoLimit}
    BY PartsAre DEF LoopInv
  <2>5. qset.global # NoLimit => Fits(x, BusyOf(d, q)', q, qset.global)
    BY <1>11, <1>12, <2>1, <2>2, <2>3, <2>4
  <2>6. qset.rate # NoLimit => Fits(x, RecentOf(d, q)', q, qset.rate)
    BY <1>11, <1>12, <2>1, <2>2, <2>3, <2>4
  <2> QED BY <2>5, <2>6
<1>14. \A e \in Dispatcher \ {d} : \A q \in MyParts :
         BusyOf(e, q)' \subseteq BusyOf(e, q) /\ RecentOf(e, q)' \subseteq RecentOf(e, q)
  BY <1>11
<1> QED BY <1>1, <1>2, <1>5, <1>6, <1>10, <1>13, <1>14, OneMoves

LEMMA StartInit == QueueInit => StartInv
<1> SUFFICES ASSUME QueueInit PROVE StartInv
  OBVIOUS
<1>1. LoopInv
  BY LoopInit
<1>2. {} \in SUBSET (Parts \cup {AnyPart})
  OBVIOUS
<1>3. \A d \in Dispatcher : disp[d].pc = "poll"
  BY <1>2, IdleIs DEF QueueInit
<1>4. \A r \in QRow : qrow[r].st = "NEW"
  BY SMT DEF QueueInit
<1>5. qfresh = {}
  BY DEF QueueInit
<1>6. ListenInv
  BY <1>3, <1>4, <1>5 DEF ListenInv
<1>7. \A d \in Dispatcher, p \in MyParts : BusyOf(d, p) = {} /\ RecentOf(d, p) = {}
  BY <1>4, <1>5 DEF BusyOf, Busy, QRows, RecentOf, Recent
<1>8. Cardinality({}) = 0
  BY FS_EmptySet
<1>9. \A n \in Nat : 0 <= n
  BY SMT
<1>10. {qset.global, qset.rate} \subseteq Nat \cup {NoLimit}
  BY <1>1, PartsAre DEF LoopInv
<1>11. OwnLimitInv
  BY <1>3, <1>7, <1>8, <1>9, <1>10 DEF OwnLimitInv, Fits
<1> QED BY <1>6, <1>11 DEF StartInv

LEMMA StartKeeps == LoopInv /\ StartInv /\ [QueueNext]_queueVars => StartInv'
<1> SUFFICES ASSUME LoopInv, StartInv, [QueueNext]_queueVars PROVE StartInv'
  OBVIOUS
<1>1. CASE \E r \in QRow : Arrive(r) \/ Elapse(r) \/ Period(r) \/ CancelQueued(r)
  BY <1>1, EnvStarts
<1>2. CASE \E d \in Dispatcher : LoopStep(d)
  BY <1>2, QuietStarts, PollStarts, BeginStarts, SelectStarts, ClaimStarts, ReleaseStarts DEF LoopStep
<1>3. CASE \E d \in Dispatcher : \E r \in QRow : Finish(d, r) \/ DropGuard(d, r)
  BY <1>3, EnvStarts
<1>4. CASE UNCHANGED queueVars
  <2>1. Calm
    BY <1>4 DEF queueVars, Calm
  <2> QED BY <2>1, CalmStarts
<1> QED BY <1>1, <1>2, <1>3, <1>4 DEF QueueNext

LEMMA StartsSuffice == LoopInv /\ StartInv => StartsBounded
<1> SUFFICES ASSUME LoopInv, StartInv, NEW p \in MyParts
             PROVE  /\ qset.global # NoLimit =>
                         Cardinality(Busy(p)) <= qset.global * Cardinality(qset.listens)
                    /\ qset.rate # NoLimit =>
                         Cardinality(Recent(p)) <= qset.rate * Cardinality(qset.listens)
  BY DEF StartsBounded, Busy
<1> DEFINE L == qset.listens
           g == [r \in QRow |-> qrow[r].by]
<1>1. L \subseteq Dispatcher /\ IsFiniteSet(L) /\ {qset.global, qset.rate} \subseteq Nat \cup {NoLimit}
  BY QueueAssumption, PartsAre, FS_Subset DEF LoopInv
<1>2. Busy(p) \in SUBSET QRow /\ Recent(p) \in SUBSET QRow
  BY RowsOf
<1>3. (\A r \in Busy(p) : g[r] \in L) /\ (\A r \in Recent(p) : g[r] \in L)
  BY <1>2 DEF StartInv, ListenInv, Busy, QRows, Recent
<1>4. ASSUME NEW d \in L
      PROVE  /\ {r \in Busy(p) : g[r] = d} = BusyOf(d, p)
             /\ {r \in Recent(p) : g[r] = d} = RecentOf(d, p)
  BY <1>2 DEF BusyOf, RecentOf
<1> HIDE DEF g
<1>5. ASSUME NEW d \in L
      PROVE  /\ qset.global # NoLimit => Cardinality({r \in Busy(p) : g[r] = d}) <= qset.global
             /\ qset.rate # NoLimit => Cardinality({r \in Recent(p) : g[r] = d}) <= qset.rate
  <2>1. d \in Dispatcher
    BY <1>1
  <2>2. /\ qset.global # NoLimit => Cardinality(BusyOf(d, p)) <= qset.global
        /\ qset.rate # NoLimit => Cardinality(RecentOf(d, p)) <= qset.rate
    BY <2>1 DEF StartInv, OwnLimitInv, Fits
  <2> QED BY <1>4, <2>2
<1> HIDE DEF L
<1>6. qset.global # NoLimit => Cardinality(Busy(p)) <= qset.global * Cardinality(L)
  BY <1>1, <1>2, <1>3, <1>5, UnionBound
<1>7. qset.rate # NoLimit => Cardinality(Recent(p)) <= qset.rate * Cardinality(L)
  BY <1>1, <1>2, <1>3, <1>5, UnionBound
<1> QED BY <1>6, <1>7 DEF L

(* At most global_concurrency workflows per listening executor run at a    *)
(* time, and at most the rate limiter's number per executor start within a *)
(* period, whatever interleaving of arrivals, snapshots, commits, failures *)
(* and versions: an executor counts its own rows before it claims, and     *)
(* only its own claims add to them.                                        *)
THEOREM StartsBoundedHolds == QueueSpec => []StartsBounded
<1>1. LoopInv /\ [QueueNext]_queueVars => LoopInv'
  BY LoopKeeps
<1>2. LoopInv /\ StartInv /\ [QueueNext]_queueVars => StartInv'
  BY StartKeeps
<1> QED BY <1>1, <1>2, LoopInit, StartInit, StartsSuffice, PTL DEF QueueSpec
=============================================================================
