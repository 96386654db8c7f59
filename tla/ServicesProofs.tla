--------------------------- MODULE ServicesProofs ---------------------------
(***************************************************************************)
(* The services beside the executor: schedules, debouncing and the         *)
(* conductor's connection.                                                 *)
(***************************************************************************)
EXTENDS Schedules, Debounce, Conductor, WellFoundedInduction, TLAPS

-----------------------------------------------------------------------------
(***************************************************************************)
(* Schedules, for any definitions, hosts and horizon.                      *)
(***************************************************************************)

(* ----------------------------------------------- a tick is spawned once *)

StartsInv ==
    /\ starts \in [Seconds -> Nat]
    /\ \A t \in Seconds : starts[t] <= 1 /\ (t \notin ticks => starts[t] = 0)

(* The prover of a leaf that names none.                                   *)
USE Zenon

LEMMA PersistStartsOnce ==
    ASSUME NEW t, NEW b, StartsInv, PersistTick(t, b)
    PROVE  StartsInv'
  <1>1. Seconds \subseteq Int BY SMT DEF Seconds
  <1>2. CASE t \in Seconds /\ t \notin ticks
    <2>1. starts[t] = 0 BY <1>2 DEF StartsInv
    <2>2. starts' = starts \/ starts' = [starts EXCEPT ![t] = 1]
      BY <2>1, SMT DEF PersistTick
    <2> QED BY <2>1, <2>2, <1>2, SMT DEF StartsInv, PersistTick
  <1>3. CASE t \notin Seconds
    <2>1. starts' = starts
      <3>1. [starts EXCEPT ![t] = @ + 1] = starts BY <1>3 DEF StartsInv
      <3> QED BY <3>1 DEF PersistTick
    <2> QED BY <2>1 DEF StartsInv, PersistTick
  <1>4. CASE t \in ticks
    BY <1>4 DEF StartsInv, PersistTick
  <1> QED BY <1>2, <1>3, <1>4

LEMMA StartsStep ==
    ASSUME StartsInv, [ScheduleNext]_schedVars
    PROVE  StartsInv'
  <1> SUFFICES ASSUME ~ UNCHANGED <<starts, ticks>> PROVE StartsInv'
    BY DEF StartsInv
  <1>1. CASE BackfillNext BY <1>1, PersistStartsOnce DEF BackfillNext
  <1>2. CASE \E h \in case.hosts : FillTick(h)
    BY <1>2, PersistStartsOnce DEF FillTick
  <1>3. CASE \E l \in FireLoop : Fire(l)
    BY <1>3, PersistStartsOnce DEF Fire
  <1>4. CASE \E h \in case.hosts : Die(h)
    <2>1. ticks \subseteq ticks' /\ starts' = starts BY <1>4, SMT DEF Die
    <2> QED BY <2>1 DEF StartsInv
  <1> QED
    BY <1>1, <1>2, <1>3, <1>4
    DEF ScheduleNext, schedVars, runVars, hostVars, ghostVars, RecAction, LoopAction, CreateSchedule,
        ApplySchedules, UpdateSchedule, SetScheduleStatus, DeleteSchedule, BackfillSchedule,
        Reconcile, FillFails, InstallLoop, Aim, StopLoop, Wake, FireFails, Stamp, PassSecond

(* Engines, the loops of replaced definitions and backfills may all reach  *)
(* an instant: its workflow is spawned at most once.                       *)
THEOREM TicksStartOnce == ScheduleSpec => []TickOnce
  <1>1. ScheduleInit => StartsInv BY SMT DEF ScheduleInit, StartsInv
  <1>2. StartsInv /\ [ScheduleNext]_schedVars => StartsInv' BY StartsStep
  <1>3. StartsInv => TickOnce BY DEF StartsInv, TickOnce
  <1> QED BY <1>1, <1>2, <1>3, PTL DEF ScheduleSpec

(* ------------------------------------------------- nothing is passed over *)

(* What fires is an instant of some definition, and is due.                *)
RowOK ==
    /\ case \in Cases /\ clock \in Nat
    /\ sched # NoSched =>
          /\ sched = [d |-> sched.d, status |-> sched.status, last |-> sched.last]
          /\ sched.d.ticks \subseteq Instants
          /\ sched.last # Never => sched.last \in Instants /\ sched.last <= clock
RecsOK ==
    /\ DOMAIN rec = Host
    /\ \A h \in Host :
          /\ rec[h] = [pc |-> rec[h].pc, seen |-> rec[h].seen, todo |-> rec[h].todo]
          /\ rec[h].pc = "fill" => rec[h].seen.d.ticks \subseteq Instants
LoopOK(r) ==
    /\ r = [pc |-> r.pc, d |-> r.d, next |-> r.next, stop |-> r.stop]
    /\ r.stop \in BOOLEAN
    /\ r.pc # "off" => r.d.ticks \subseteq Instants
    /\ r.pc \in {"sleep", "fire", "stamp"} => r.next \in Instants
    /\ r.pc \in {"fire", "stamp"} => r.next <= clock
LoopsOK == loop = [l \in FireLoop |-> loop[l]] /\ \A l \in FireLoop : LoopOK(loop[l])
(* A tick that passed in the dark waits for the next installation: the row *)
(* is behind it, no loop that is not stopped runs, and whoever installs    *)
(* one has the tick on its list.                                           *)
RowWaits(t) ==
    /\ sched.d.auto /\ sched.last # Never
    /\ t \in sched.d.ticks /\ sched.last + 1 < t /\ t <= clock
LoopsWait(t) ==
    \A l \in FireLoop : /\ loop[l].pc # "off" => loop[l].stop = TRUE
                        /\ loop[l].pc \in {"fire", "stamp"} => loop[l].next + 1 < t
FillsWait(t) == \A h \in Host : rec[h].pc = "fill" => t \in rec[h].todo
Waits(t) == RowWaits(t) /\ LoopsWait(t) /\ FillsWait(t)
DarkInv ==
    case.macro = NoSched =>
        \A t \in dark : t \in Instants /\ (t \in ticks \/ t \in dropped \/ Waits(t))
SchedInv == RowOK /\ RecsOK /\ LoopsOK /\ DarkInv

LEMMA InstantsOf ==
    /\ \A d \in Cron : d.ticks \subseteq Instants
    /\ \A c \in Cases : c.row # NoSched => c.row.ticks \subseteq Instants
    /\ \A c \in Cases : c.macro # NoSched => c.macro.ticks \subseteq Instants
    /\ Instants \subseteq Nat
  BY ScheduleAssumption DEF Instants, Definitions

LEMMA InstantsAreNat == Instants \subseteq Nat
  BY InstantsOf

(* Updates of a record whose fields are known, not their types.            *)
LEMMA SetTodo ==
    ASSUME NEW r, NEW x, r = [pc |-> r.pc, seen |-> r.seen, todo |-> r.todo]
    PROVE  [r EXCEPT !.todo = x] = [pc |-> r.pc, seen |-> r.seen, todo |-> x]
  <1>1. PICK a, b, c : a = r.pc /\ b = r.seen /\ c = r.todo OBVIOUS
  <1>2. r \in [pc : {a}, seen : {b}, todo : {c}] BY <1>1
  <1> QED BY <1>1, <1>2, SMT
LEMMA SetLoop ==
    ASSUME NEW r, NEW x, NEW y, r = [pc |-> r.pc, d |-> r.d, next |-> r.next, stop |-> r.stop]
    PROVE  /\ [r EXCEPT !.pc = x] = [pc |-> x, d |-> r.d, next |-> r.next, stop |-> r.stop]
           /\ [r EXCEPT !.stop = x] = [pc |-> r.pc, d |-> r.d, next |-> r.next, stop |-> x]
           /\ [r EXCEPT !.pc = x, !.next = y] = [pc |-> x, d |-> r.d, next |-> y, stop |-> r.stop]
  <1>1. PICK a, b, c, e : a = r.pc /\ b = r.d /\ c = r.next /\ e = r.stop OBVIOUS
  <1>2. r \in [pc : {a}, d : {b}, next : {c}, stop : {e}] BY <1>1
  <1>3. [r EXCEPT !.pc = x] = [pc |-> x, d |-> b, next |-> c, stop |-> e] BY <1>2, SMT
  <1>4. [r EXCEPT !.stop = x] = [pc |-> a, d |-> b, next |-> c, stop |-> x] BY <1>2, SMT
  <1>5. PICK q : q = [pc |-> x, d |-> b, next |-> c, stop |-> e] OBVIOUS
  <1>6. q \in [pc : {x}, d : {b}, next : {c}, stop : {e}] BY <1>5
  <1>7. [r EXCEPT !.pc = x, !.next = y] = [q EXCEPT !.next = y] BY <1>3, <1>5
  <1>8. [q EXCEPT !.next = y] = [pc |-> x, d |-> b, next |-> y, stop |-> e] BY <1>6, SMT
  <1> QED BY <1>1, <1>3, <1>4, <1>7, <1>8

LEMMA FreshLoop ==
    ASSUME NEW b
    PROVE  [Off EXCEPT !.pc = "aim", !.d = b] = [pc |-> "aim", d |-> b, next |-> Never, stop |-> FALSE]
  <1>1. PICK e, n, q : e = FALSE /\ n = Never /\ q = [Off EXCEPT !.pc = "aim"] OBVIOUS
  <1>2. Off \in [pc : {"off"}, d : {NoSched}, next : {n}, stop : {e}] BY <1>1 DEF Off
  <1>3. q \in [pc : {"aim"}, d : {NoSched}, next : {n}, stop : {e}] BY <1>1, <1>2
  <1>4. ASSUME NEW f, NEW k, NEW r \in [pc : {"aim"}, d : {NoSched}, next : {k}, stop : {f}]
        PROVE  [r EXCEPT !.d = b] = [pc |-> "aim", d |-> b, next |-> k, stop |-> f]
    BY SMT
  <1>5. [q EXCEPT !.d = b] = [pc |-> "aim", d |-> b, next |-> n, stop |-> e] BY <1>3, <1>4
  <1> QED BY <1>1, <1>5

(* The least instant after now is one of them.                             *)
LEMMA MinOfLater ==
    ASSUME NEW S, S \subseteq Nat, S # {}
    PROVE  Min(S) \in S
  <1> DEFINE P(x) == x \in S /\ \A y \in S : x <= y
  <1>1. PICK x \in S : \A y \in S : ~ (<<y, x>> \in OpToRel(<, Nat))
    BY NatLessThanWellFounded, WFMin
  <1>2. \A y \in S : ~ (y < x) BY <1>1 DEF OpToRel
  <1>3. \E z : P(z) BY <1>2, SMT
  <1>4. Min(S) = CHOOSE z : P(z) BY DEF Min
  <1> HIDE DEF P
  <1>5. P(Min(S)) BY <1>3, <1>4
  <1> QED BY <1>5 DEF P

LEMMA SchedInitially == ScheduleInit => SchedInv
  <1> SUFFICES ASSUME ScheduleInit PROVE SchedInv OBVIOUS
  <1>1. RowOK BY InstantsOf DEF ScheduleInit, RowOK, NewRow, WithId, Never
  <1>2. RecsOK BY DEF ScheduleInit, RecsOK, Resting
  <1>3. LoopsOK BY DEF ScheduleInit, LoopsOK, LoopOK, Off
  <1>4. DarkInv BY DEF ScheduleInit, DarkInv
  <1> QED BY <1>1, <1>2, <1>3, <1>4 DEF SchedInv

LEMMA OneLoop ==
    ASSUME LoopsOK, NEW l \in FireLoop, NEW r, LoopOK(r), loop' = [loop EXCEPT ![l] = r],
           clock' = clock
    PROVE  LoopsOK'
  BY DEF LoopsOK, LoopOK
LEMMA OneRec ==
    ASSUME RecsOK, NEW h \in Host, NEW p, NEW s, NEW q, p = "fill" => s.d.ticks \subseteq Instants,
           rec' = [rec EXCEPT ![h] = [pc |-> p, seen |-> s, todo |-> q]]
    PROVE  RecsOK'
  BY DEF RecsOK
(* Ticks that wait go on waiting, are created or are given up.             *)
LEMMA DarkStays ==
    ASSUME DarkInv, UNCHANGED <<case, dark>>, ticks \subseteq ticks', dropped \subseteq dropped',
           case.macro = NoSched =>
              \A t \in dark : Waits(t) => Waits(t)' \/ t \in ticks' \/ t \in dropped'
    PROVE  DarkInv'
  BY DEF DarkInv

(* ------------------------------------------------- administrative calls *)

LEMMA EditKeeps ==
    ASSUME SchedInv, \E d \in Cron : CreateSchedule(d) \/ ApplySchedules(d) \/ UpdateSchedule(d)
    PROVE  SchedInv'
  <1> USE DEF SchedInv
  <1>1. PICK d \in Cron : CreateSchedule(d) \/ ApplySchedules(d) \/ UpdateSchedule(d) OBVIOUS
  <1>2. UNCHANGED <<clock, case, rec, loop>> /\ dark' = {}
    BY <1>1 DEF CreateSchedule, ApplySchedules, UpdateSchedule, hostVars
  <1>3. RowOK'
    <2>1. d.ticks \subseteq Instants BY InstantsOf
    <2>2. CASE CreateSchedule(d) \/ ApplySchedules(d)
      BY <2>1, <2>2, <1>2, SMT DEF CreateSchedule, ApplySchedules, Fresh, NewRow, WithId, RowOK
    <2>3. CASE UpdateSchedule(d)
      BY <2>1, <2>3, <1>2 DEF UpdateSchedule, WithId, RowOK
    <2> QED BY <1>1, <2>2, <2>3
  <1>4. RecsOK' /\ LoopsOK' BY <1>2 DEF RecsOK, LoopsOK, LoopOK
  <1>5. DarkInv' BY <1>2 DEF DarkInv
  <1> QED BY <1>3, <1>4, <1>5

LEMMA StatusKeeps ==
    ASSUME SchedInv, NEW s, SetScheduleStatus(s)
    PROVE  SchedInv'
  <1> USE DEF SchedInv
  <1>1. UNCHANGED <<clock, case, rec, loop, dark, dropped, ticks>>
    BY DEF SetScheduleStatus, hostVars, runVars, ghostVars
  <1>2. /\ sched # NoSched
        /\ sched' = [d |-> sched.d, status |-> s, last |-> sched.last]
    BY DEF SetScheduleStatus, RowOK
  <1>3. RowOK' BY <1>1, <1>2 DEF RowOK
  <1>4. RecsOK' /\ LoopsOK' BY <1>1 DEF RecsOK, LoopsOK, LoopOK
  <1>5. \A t : Waits(t) => Waits(t)'
    BY <1>1, <1>2 DEF Waits, RowWaits, LoopsWait, FillsWait
  <1>6. DarkInv' BY <1>1, <1>5, DarkStays
  <1> QED BY <1>3, <1>4, <1>6

LEMMA DeleteKeeps ==
    ASSUME SchedInv, DeleteSchedule
    PROVE  SchedInv'
  BY DEF SchedInv, DeleteSchedule, hostVars, RowOK, RecsOK, LoopsOK, LoopOK, DarkInv

(* Ticks are created, and the schedule and the engines stay as they are.   *)
LEMMA BackfillKeeps ==
    ASSUME SchedInv, UNCHANGED <<clock, case, sched, rec, loop, dark, dropped>>, ticks \subseteq ticks'
    PROVE  SchedInv'
  <1> USE DEF SchedInv
  <1>1. RowOK' /\ RecsOK' /\ LoopsOK' BY DEF RowOK, RecsOK, LoopsOK, LoopOK
  <1>2. \A t : Waits(t) => Waits(t)' BY DEF Waits, RowWaits, LoopsWait, FillsWait
  <1>3. DarkInv' BY <1>2, DarkStays
  <1> QED BY <1>1, <1>3

(* ----------------------------------------------------------- reconciler *)

LEMMA ReconcileKeeps ==
    ASSUME SchedInv, NEW h \in Host, Reconcile(h)
    PROVE  SchedInv'
  <1> USE DEF SchedInv
  <1>1. UNCHANGED <<clock, case, sched, ticks, dark, dropped>>
    BY DEF Reconcile, runVars, ghostVars
  <1>2. RowOK' BY <1>1 DEF RowOK
  <1>3. PICK n : n = installed[h].n OBVIOUS
  <1>4. \/ loop' = loop
        \/ /\ loop[<<h, n>>].pc # "off"
           /\ loop' = [loop EXCEPT ![<<h, n>>].stop = TRUE]
    BY <1>3 DEF Reconcile
  <1>5. \/ loop' = loop
        \/ \E l \in FireLoop :
              loop' = [loop EXCEPT ![l] = [pc |-> loop[l].pc, d |-> loop[l].d,
                                           next |-> loop[l].next, stop |-> TRUE]]
    <2>1. CASE <<h, n>> \in FireLoop
      <3>1. PICK l \in FireLoop : l = <<h, n>> BY <2>1
      <3>2. loop[l] = [pc |-> loop[l].pc, d |-> loop[l].d, next |-> loop[l].next, stop |-> loop[l].stop]
        BY DEF LoopsOK, LoopOK
      <3>3. [loop[l] EXCEPT !.stop = TRUE] = [pc |-> loop[l].pc, d |-> loop[l].d, next |-> loop[l].next, stop |-> TRUE]
        BY <3>2, SetLoop
      <3>4. \/ loop' = loop
            \/ loop' = [loop EXCEPT ![l] = [loop[l] EXCEPT !.stop = TRUE]]
        BY <1>4, <3>1
      <3> QED BY <3>3, <3>4
    <2>2. CASE <<h, n>> \notin FireLoop
      <3>1. PICK l : l = <<h, n>> OBVIOUS
      <3> QED BY <1>4, <2>2, <3>1 DEF LoopsOK
    <2> QED BY <2>1, <2>2
  <1>6. LoopsOK'
    <2>1. CASE loop' = loop BY <2>1, <1>1 DEF LoopsOK, LoopOK
    <2>2. ASSUME NEW l \in FireLoop,
                 loop' = [loop EXCEPT ![l] = [pc |-> loop[l].pc, d |-> loop[l].d,
                                              next |-> loop[l].next, stop |-> TRUE]]
          PROVE  LoopsOK'
      <3>1. PICK r : r = [pc |-> loop[l].pc, d |-> loop[l].d, next |-> loop[l].next, stop |-> TRUE]
        OBVIOUS
      <3>2. LoopOK(r) BY <3>1 DEF LoopsOK, LoopOK
      <3> QED BY <2>2, <3>1, <3>2, <1>1, OneLoop
    <2> QED BY <1>5, <2>1, <2>2
  <1>7. PICK s : s = Desired OBVIOUS
  <1>8. \/ rec' = rec
        \/ s # NoSched /\ rec' = [rec EXCEPT ![h] = [pc |-> "fill", seen |-> s, todo |-> CatchUp(s)]]
    BY <1>7 DEF Reconcile
  <1>9. s # NoSched => s.d.ticks \subseteq Instants
    BY <1>7, InstantsOf DEF Desired, RowOK, NewRow, WithId
  <1>10. RecsOK'
    <2>1. CASE rec' = rec BY <2>1 DEF RecsOK
    <2>2. PICK q : q = CatchUp(s) OBVIOUS
    <2> QED BY <2>1, <2>2, <1>8, <1>9, OneRec
  <1>11. ASSUME case.macro = NoSched, NEW t \in dark, Waits(t)
         PROVE  Waits(t)'
    <2>1. RowWaits(t)' BY <1>1, <1>11 DEF Waits, RowWaits
    <2>2. LoopsWait(t)' BY <1>5, <1>11, SMT DEF Waits, LoopsWait, LoopsOK
    <2>3. s # NoSched => t \in CatchUp(s)
      <3> SUFFICES ASSUME s # NoSched PROVE t \in CatchUp(s) OBVIOUS
      <3>1. s = sched BY <1>7, <1>11 DEF Desired
      <3>2. clock \in Nat /\ sched.d.ticks \subseteq Nat BY <3>1, InstantsOf DEF RowOK
      <3>3. t < clock + 1 BY <3>2, <1>11, SMT DEF Waits, RowWaits
      <3> QED BY <3>1, <3>3, <1>11 DEF CatchUp, TicksBetween, Waits, RowWaits
    <2>4. FillsWait(t)' BY <2>3, <1>8, <1>11, SMT DEF Waits, FillsWait, RecsOK
    <2> QED BY <2>1, <2>2, <2>4 DEF Waits
  <1>12. DarkInv' BY <1>1, <1>11, DarkStays
  <1> QED BY <1>2, <1>6, <1>10, <1>12

LEMMA FillTickKeeps ==
    ASSUME SchedInv, NEW h \in Host, FillTick(h)
    PROVE  SchedInv'
  <1> USE DEF SchedInv
  <1>1. UNCHANGED <<clock, case, sched, loop, dark, dropped>> BY DEF FillTick, ghostVars
  <1>2. PICK m : m = Min(rec[h].todo) OBVIOUS
  <1>3. ticks' = ticks \cup {m} BY <1>2 DEF FillTick, PersistTick
  <1>4. rec' = [rec EXCEPT ![h] = [pc |-> rec[h].pc, seen |-> rec[h].seen, todo |-> rec[h].todo \ {m}]]
    <2>1. rec[h] = [pc |-> rec[h].pc, seen |-> rec[h].seen, todo |-> rec[h].todo] BY DEF RecsOK
    <2>2. rec' = [rec EXCEPT ![h] = [rec[h] EXCEPT !.todo = rec[h].todo \ {m}]]
      BY <1>2 DEF FillTick, RecsOK
    <2> QED BY <2>1, <2>2, SetTodo
  <1>5. RowOK' /\ LoopsOK' BY <1>1 DEF RowOK, LoopsOK, LoopOK
  <1>6. RecsOK' BY <1>4 DEF RecsOK
  <1>7. ASSUME NEW t \in dark, Waits(t)
        PROVE  Waits(t)' \/ t \in ticks'
    <2>1. RowWaits(t)' /\ LoopsWait(t)' BY <1>1, <1>7 DEF Waits, RowWaits, LoopsWait
    <2>2. t # m => FillsWait(t)' BY <1>4, <1>7 DEF Waits, FillsWait, RecsOK
    <2> QED BY <2>1, <2>2, <1>3 DEF Waits
  <1>8. DarkInv' BY <1>1, <1>3, <1>7, DarkStays
  <1> QED BY <1>5, <1>6, <1>8

LEMMA FillFailsKeeps ==
    ASSUME SchedInv, NEW h \in Host, FillFails(h)
    PROVE  SchedInv'
  <1> USE DEF SchedInv
  <1>1. UNCHANGED <<clock, case, sched, ticks, loop, dark>> /\ dropped' = dropped \cup rec[h].todo
    BY DEF FillFails
  <1>2. rec[h].pc = "fill"
        /\ rec' = [rec EXCEPT ![h] = [pc |-> rec[h].pc, seen |-> rec[h].seen, todo |-> {}]]
    <2>1. rec[h] = [pc |-> rec[h].pc, seen |-> rec[h].seen, todo |-> rec[h].todo] BY DEF RecsOK
    <2>2. rec[h].pc = "fill" /\ rec' = [rec EXCEPT ![h] = [rec[h] EXCEPT !.todo = {}]]
      BY DEF FillFails, RecsOK
    <2> QED BY <2>1, <2>2, SetTodo
  <1>3. RowOK' /\ LoopsOK' BY <1>1 DEF RowOK, LoopsOK, LoopOK
  <1>4. RecsOK' BY <1>2 DEF RecsOK
  <1>5. \A t : Waits(t) => t \in dropped' BY <1>1, <1>2 DEF Waits, FillsWait
  <1>6. DarkInv' BY <1>1, <1>5, DarkStays
  <1> QED BY <1>3, <1>4, <1>6

(* Nothing that waits is left when a loop is installed.                    *)
LEMMA InstallKeeps ==
    ASSUME SchedInv, NEW h \in Host, NEW n \in {1, 2}, InstallLoop(h, n)
    PROVE  SchedInv'
  <1> USE DEF SchedInv
  <1>1. UNCHANGED <<clock, case, sched, ticks, dark, dropped>>
    BY DEF InstallLoop, runVars, ghostVars
  <1>2. RowOK' BY <1>1 DEF RowOK
  <1>3. PICK l \in FireLoop : l = <<h, n>> BY DEF FireLoop
  <1>4. PICK r : r = [pc |-> "aim", d |-> rec[h].seen.d, next |-> Never, stop |-> FALSE] OBVIOUS
  <1>5. loop' = [loop EXCEPT ![l] = r]
    <2>1. [Off EXCEPT !.pc = "aim", !.d = rec[h].seen.d] = r BY <1>4, FreshLoop
    <2> QED BY <2>1, <1>3 DEF InstallLoop
  <1>6. LoopOK(r) BY <1>4 DEF LoopOK, RecsOK, InstallLoop
  <1>7. LoopsOK' BY <1>1, <1>5, <1>6, OneLoop
  <1>8. RecsOK'
    <2>1. rec' = [rec EXCEPT ![h] = [pc |-> "idle", seen |-> NoSched, todo |-> {}]]
      BY DEF InstallLoop, Resting
    <2> QED BY <2>1 DEF RecsOK
  <1>9. \A t : ~ Waits(t) BY DEF InstallLoop, Waits, FillsWait
  <1>10. DarkInv' BY <1>1, <1>9, DarkStays
  <1> QED BY <1>2, <1>7, <1>8, <1>10

(* ------------------------------------------------------------ fire loop *)

(* A stopped loop goes through no more than its last stamp.                *)
LEMMA LoopKeeps ==
    ASSUME SchedInv, NEW l \in FireLoop, LoopAction(l)
    PROVE  SchedInv'
  <1> USE DEF SchedInv
  <1>0. LoopOK(loop[l]) BY DEF LoopsOK
  <1>1. UNCHANGED <<clock, case, rec, dark, dropped>> /\ ticks \subseteq ticks'
    BY DEF LoopAction, Aim, StopLoop, Wake, Fire, FireFails, Stamp, PersistTick, runVars, ghostVars
  <1>2. RecsOK' BY <1>1 DEF RecsOK
  <1>3. \A t : FillsWait(t) => FillsWait(t)' BY <1>1 DEF FillsWait
  <1>4. \/ sched' = sched
        \/ /\ loop[l].pc = "stamp" /\ sched # NoSched
           /\ sched' = [d |-> sched.d, status |-> sched.status, last |-> loop[l].next]
    BY DEF LoopAction, Aim, StopLoop, Wake, Fire, FireFails, Stamp, RowOK
  <1>5. RowOK' BY <1>0, <1>1, <1>4, SMT DEF RowOK, LoopOK
  <1>6. \A t : LoopsWait(t) /\ RowWaits(t) => RowWaits(t)'
    <2> SUFFICES ASSUME NEW t, LoopsWait(t), RowWaits(t) PROVE RowWaits(t)' OBVIOUS
    <2>1. CASE sched' = sched BY <2>1, <1>1 DEF RowWaits
    <2>2. CASE /\ loop[l].pc = "stamp" /\ sched # NoSched
               /\ sched' = [d |-> sched.d, status |-> sched.status, last |-> loop[l].next]
      <3>1. loop[l].next \in Nat /\ loop[l].next + 1 < t
        BY <2>2, <1>0, InstantsOf DEF LoopOK, LoopsWait
      <3> QED BY <2>2, <3>1, <1>1, SMT DEF RowWaits, Never
    <2> QED BY <1>4, <2>1, <2>2
  <1>7. \E r : /\ loop' = [loop EXCEPT ![l] = r] /\ LoopOK(r)
               /\ loop[l].stop = TRUE => r.pc = "off" \/ r.stop = TRUE
               /\ loop[l].stop = TRUE /\ r.pc \in {"fire", "stamp"} =>
                     loop[l].pc \in {"fire", "stamp"} /\ r.next = loop[l].next
    <2> DEFINE Goes(r) == /\ loop' = [loop EXCEPT ![l] = r] /\ LoopOK(r)
                          /\ loop[l].stop = TRUE => r.pc = "off" \/ r.stop = TRUE
                          /\ loop[l].stop = TRUE /\ r.pc \in {"fire", "stamp"} =>
                                loop[l].pc \in {"fire", "stamp"} /\ r.next = loop[l].next
    <2>1. CASE loop' = [loop EXCEPT ![l] = Off]
      <3>1. Goes(Off) BY <2>1 DEF Off, LoopOK
      <3> QED BY <3>1
    <2>2. ASSUME NEW p \in {"fire", "stamp", "aim"}, loop' = [loop EXCEPT ![l].pc = p],
                 p = "fire" => loop[l].pc = "sleep" /\ loop[l].stop # TRUE /\ loop[l].next <= clock,
                 p = "stamp" => loop[l].pc = "fire", p = "aim" => loop[l].pc = "stamp"
          PROVE  \E r : Goes(r)
      <3>1. PICK r : r = [pc |-> p, d |-> loop[l].d, next |-> loop[l].next, stop |-> loop[l].stop]
        OBVIOUS
      <3>2. loop' = [loop EXCEPT ![l] = r]
        <4>1. loop' = [loop EXCEPT ![l] = [loop[l] EXCEPT !.pc = p]] BY <2>2
        <4>2. [loop[l] EXCEPT !.pc = p] = r BY <3>1, <1>0, SetLoop DEF LoopOK
        <4> QED BY <4>1, <4>2
      <3>3. LoopOK(r) BY <2>2, <3>1, <1>0 DEF LoopOK
      <3>4. Goes(r) BY <2>2, <3>1, <3>2, <3>3
      <3> QED BY <3>4
    <2>3. ASSUME Aim(l), loop[l].stop # TRUE, Later(loop[l].d) # {}
          PROVE  \E r : Goes(r)
      <3>1. PICK m : m = Min(Later(loop[l].d)) OBVIOUS
      <3>2. loop[l].d.ticks \subseteq Instants BY <2>3, <1>0 DEF Aim, LoopOK
      <3>3. m \in Later(loop[l].d)
        <4>1. Later(loop[l].d) \subseteq Nat BY <3>2, InstantsOf DEF Later
        <4> QED BY <4>1, <2>3, <3>1, MinOfLater
      <3>4. m \in Instants BY <3>2, <3>3 DEF Later
      <3>5. PICK r : r = [pc |-> "sleep", d |-> loop[l].d, next |-> m, stop |-> loop[l].stop] OBVIOUS
      <3>6. loop[l].stop = FALSE BY <2>3, <1>0 DEF LoopOK
      <3>7. loop' = [loop EXCEPT ![l].pc = "sleep", ![l].next = m] BY <2>3, <3>1, <3>6 DEF Aim
      <3>8. loop' = [loop EXCEPT ![l] = r]
        <4>1. loop' = [loop EXCEPT ![l] = [loop[l] EXCEPT !.pc = "sleep", !.next = m]]
          BY <3>7 DEF LoopsOK
        <4>2. [loop[l] EXCEPT !.pc = "sleep", !.next = m] = r BY <3>5, <1>0, SetLoop DEF LoopOK
        <4> QED BY <4>1, <4>2
      <3>9. LoopOK(r) BY <3>4, <3>5, <3>2, <1>0 DEF LoopOK
      <3>10. Goes(r) BY <3>5, <3>8, <3>9, <2>3
      <3> QED BY <3>10
    <2>4. CASE Aim(l) BY <2>4, <2>1, <2>3, <1>0 DEF Aim, LoopOK
    <2>5. CASE StopLoop(l) BY <2>5, <2>1 DEF StopLoop
    <2>6. CASE Wake(l) BY <2>6, <2>2, <1>0 DEF Wake, LoopOK
    <2>7. CASE Fire(l) BY <2>7, <2>2 DEF Fire
    <2>8. CASE FireFails(l) BY <2>8, <2>2 DEF FireFails
    <2>9. CASE Stamp(l) BY <2>9, <2>2 DEF Stamp
    <2> QED BY <2>4, <2>5, <2>6, <2>7, <2>8, <2>9 DEF LoopAction
  <1>8. LoopsOK' BY <1>1, <1>7, OneLoop
  <1>9. \A t : LoopsWait(t) => LoopsWait(t)'
    <2> SUFFICES ASSUME NEW t, LoopsWait(t) PROVE LoopsWait(t)' OBVIOUS
    <2>1. PICK r : /\ loop' = [loop EXCEPT ![l] = r]
                   /\ loop[l].stop = TRUE => r.pc = "off" \/ r.stop = TRUE
                   /\ loop[l].stop = TRUE /\ r.pc \in {"fire", "stamp"} =>
                         loop[l].pc \in {"fire", "stamp"} /\ r.next = loop[l].next
      BY <1>7
    <2>2. loop[l].pc # "off" BY DEF LoopAction, Aim, StopLoop, Wake, Fire, FireFails, Stamp
    <2>3. loop[l].stop = TRUE BY <2>2 DEF LoopsWait
    <2> QED BY <2>1, <2>3 DEF LoopsWait, LoopsOK
  <1>10. DarkInv' BY <1>1, <1>3, <1>6, <1>9, DarkStays DEF Waits
  <1> QED BY <1>2, <1>5, <1>8, <1>10

(* ---------------------------------------------------------- environment *)

(* The only step that darkens a tick: it is the clock's, and every instant *)
(* fired before it is two seconds or more behind.                          *)
LEMMA PassKeeps ==
    ASSUME SchedInv, Spaced, PassSecond
    PROVE  SchedInv'
  <1> USE DEF SchedInv
  <1>1. /\ UNCHANGED <<case, sched, ticks, rec, loop, dropped>>
        /\ clock \in Nat /\ clock' = clock + 1
    BY DEF PassSecond, runVars, hostVars, RowOK
  <1>2. \A u \in Instants : u <= clock => u <= clock'
    BY <1>1, InstantsAreNat, SMT
  <1>3. RowOK' BY <1>1, <1>2, SMT DEF RowOK
  <1>4. RecsOK' BY <1>1 DEF RecsOK
  <1>5. LoopsOK'
    <2> SUFFICES ASSUME NEW l \in FireLoop PROVE LoopOK(loop[l])' BY <1>1 DEF LoopsOK
    <2>1. LoopOK(loop[l]) BY DEF LoopsOK
    <2> QED BY <1>1, <1>2, <2>1 DEF LoopOK
  <1>6. ASSUME NEW t \in Instants, Waits(t)
        PROVE  Waits(t)'
    <2>1. RowWaits(t)' BY <1>1, <1>2, <1>6 DEF Waits, RowWaits
    <2>2. LoopsWait(t)' /\ FillsWait(t)' BY <1>1, <1>6 DEF Waits, LoopsWait, FillsWait
    <2> QED BY <2>1, <2>2 DEF Waits
  <1>7. ASSUME NEW t, t = clock + 1, t \in dark', t \notin dark
        PROVE  t \in Instants /\ Waits(t)'
    <2>1. /\ ~ Watched /\ sched # NoSched /\ sched.d.auto
          /\ sched.last # Never /\ t \in sched.d.ticks
      BY <1>7 DEF PassSecond
    <2>2. t \in Instants BY <2>1 DEF RowOK
    <2>3. \A u \in Instants : u <= clock => u + 1 < t
      BY <1>1, <1>7, <2>2, InstantsAreNat, SMT DEF Spaced
    <2>4. t <= clock' BY <1>1, <1>7, SMT
    <2>5. RowWaits(t)'
      <3>1. sched.last + 1 < t BY <2>1, <2>3 DEF RowOK
      <3> QED BY <1>1, <2>1, <2>4, <3>1 DEF RowWaits
    <2>6. LoopsWait(t)'
      <3> SUFFICES ASSUME NEW l \in FireLoop
                   PROVE  /\ loop[l].pc # "off" => loop[l].stop = TRUE
                          /\ loop[l].pc \in {"fire", "stamp"} => loop[l].next + 1 < t
        BY <1>1 DEF LoopsWait
      <3>1. LoopOK(loop[l]) BY DEF LoopsOK
      <3>2. loop[l].pc # "off" => loop[l].stop = TRUE BY <2>1, <3>1 DEF Watched, Alive, LoopOK
      <3>3. loop[l].pc \in {"fire", "stamp"} => loop[l].next + 1 < t BY <2>3, <3>1 DEF LoopOK
      <3> QED BY <3>2, <3>3
    <2>7. FillsWait(t)' BY <1>1, <2>1 DEF FillsWait, Watched
    <2> QED BY <2>2, <2>5, <2>6, <2>7 DEF Waits
  <1>8. DarkInv'
    <2> SUFFICES ASSUME case.macro = NoSched, NEW t \in dark'
                 PROVE  t \in Instants /\ (t \in ticks \/ t \in dropped \/ Waits(t)')
      BY <1>1 DEF DarkInv
    <2>1. CASE t \in dark BY <2>1, <1>6 DEF DarkInv
    <2>2. CASE t \notin dark
      <3>1. t = clock + 1 BY <2>2 DEF PassSecond
      <3> QED BY <2>2, <3>1, <1>7
    <2> QED BY <2>1, <2>2
  <1> QED BY <1>3, <1>4, <1>5, <1>8

LEMMA DieKeeps ==
    ASSUME SchedInv, NEW h \in Host, Die(h)
    PROVE  SchedInv'
  <1> USE DEF SchedInv
  <1>1. UNCHANGED <<clock, case, sched, dark, dropped>> /\ ticks \subseteq ticks'
    BY DEF Die, ghostVars
  <1>2. RowOK' BY <1>1 DEF RowOK
  <1>3. RecsOK'
    <2>1. rec' = [rec EXCEPT ![h] = [pc |-> "idle", seen |-> NoSched, todo |-> {}]]
      BY DEF Die, Resting
    <2> QED BY <2>1 DEF RecsOK
  <1>4. LoopsOK' BY <1>1 DEF Die, LoopsOK, LoopOK, Off
  <1>5. \A t : Waits(t) => Waits(t)'
    <2> SUFFICES ASSUME NEW t, Waits(t) PROVE Waits(t)' OBVIOUS
    <2>1. RowWaits(t)' BY <1>1 DEF Waits, RowWaits
    <2>2. LoopsWait(t)' BY DEF Die, Off, Waits, LoopsWait
    <2>3. FillsWait(t)' BY DEF Die, Resting, Waits, FillsWait, RecsOK
    <2> QED BY <2>1, <2>2, <2>3 DEF Waits
  <1>6. DarkInv' BY <1>1, <1>5, DarkStays
  <1> QED BY <1>2, <1>3, <1>4, <1>6

LEMMA SchedStep ==
    ASSUME SchedInv, Spaced, [ScheduleNext]_schedVars
    PROVE  SchedInv'
  <1>0. case.hosts \subseteq Host BY ScheduleAssumption DEF SchedInv, RowOK
  <1>1. CASE UNCHANGED schedVars BY <1>1, BackfillKeeps DEF schedVars
  <1>2. CASE \E d \in Cron : CreateSchedule(d) \/ ApplySchedules(d) \/ UpdateSchedule(d)
    BY <1>2, EditKeeps
  <1>3. CASE \E s \in {"ACTIVE", "PAUSED"} : SetScheduleStatus(s) BY <1>3, StatusKeeps
  <1>4. CASE DeleteSchedule BY <1>4, DeleteKeeps
  <1>5. CASE (\E c \in BOOLEAN : BackfillSchedule(0, clock + 1, c)) \/ BackfillNext
    BY <1>5, BackfillKeeps
    DEF BackfillSchedule, BackfillNext, PersistTick, runVars, hostVars, ghostVars
  <1>6. CASE \E h \in case.hosts : RecAction(h) \/ Die(h)
    BY <1>6, <1>0, ReconcileKeeps, FillTickKeeps, FillFailsKeeps, InstallKeeps, DieKeeps
    DEF RecAction
  <1>7. CASE \E l \in FireLoop : LoopAction(l) BY <1>7, LoopKeeps
  <1>8. CASE PassSecond BY <1>8, PassKeeps
  <1> QED
    BY <1>1, <1>2, <1>3, <1>4, <1>5, <1>6, <1>7, <1>8 DEF ScheduleNext

(* When the ticks of a schedule are two seconds or more apart, no tick     *)
(* that came due while no engine ran it is passed over by last_fired_at.   *)
THEOREM DowntimeIsBackfilled == Spaced /\ ScheduleSpec => []DowntimeBackfilled
  <1> SUFFICES ASSUME Spaced PROVE ScheduleSpec => []DowntimeBackfilled OBVIOUS
  <1>1. SchedInv /\ [ScheduleNext]_schedVars => SchedInv' BY SchedStep
  <1>2. SchedInv => DowntimeBackfilled
    <2> SUFFICES ASSUME SchedInv, sched # NoSched, case.macro = NoSched,
                        NEW t \in dark, t \notin dropped, t < sched.last
                 PROVE  t \in ticks
      BY DEF DowntimeBackfilled
    <2>1. t \in Nat BY InstantsOf DEF SchedInv, DarkInv
    <2>2. sched.last \in Int BY InstantsOf, SMT DEF SchedInv, RowOK, Never
    <2>3. ~ (sched.last + 1 < t) BY <2>1, <2>2, SMT
    <2> QED BY <2>3 DEF SchedInv, DarkInv, Waits, RowWaits
  <1> QED BY <1>1, <1>2, SchedInitially, PTL DEF ScheduleSpec

-----------------------------------------------------------------------------
(***************************************************************************)
(* Debouncing, for any number of calls and rounds.                         *)
(***************************************************************************)

Calls == [pc : {"new", "enqueue", "find", "send", "ack", "back"}, round : 0 .. MaxRounds,
          to : Round \cup {NoTarget}, target : Round \cup {NoTarget}]
Collectors == [pc : {"none", "collect", "expire", "ack", "start", "finish", "done"},
               input : Call, msg : Round \cup {NoTarget}]
DebTypeOK ==
    /\ calls \in [Call -> Calls] /\ before \in [Call -> SUBSET Call]
    /\ held \in Round \cup {NoTarget} /\ col \in [Round -> Collectors]
    /\ inbox \in [Round -> Seq(Round)] /\ acked \subseteq Round
    /\ ran \in [Round -> Call \cup {NoTarget}]

(* Neither the input a collector has, nor one it is still to take, is      *)
(* superseded by this call.                                                *)
Safe(c, k) ==
    /\ col[k].input \notin before[c]
    /\ \A i \in 1 .. Len(inbox[k]) : inbox[k][i][1] \notin before[c]
(* A message is on its way: it is this round's only while its caller waits. *)
Current(m, k) ==
    /\ m[2] <= calls[m[1]].round
    /\ m[2] = calls[m[1]].round => calls[m[1]].pc \in {"ack", "back"} /\ calls[m[1]].to = k
CallInv(c) ==
    /\ calls[c].pc = "new" <=> calls[c].round = 0
    /\ \A x \in before[c] : calls[x].pc = "back" /\ x # c
    /\ calls[c].pc \in {"send", "ack"} => calls[c].to \in Round /\ col[calls[c].to].pc # "none"
    /\ calls[c].pc = "ack" /\ Me(c) \in acked => Safe(c, calls[c].to)
    /\ calls[c].pc = "back" => calls[c].target \in Round /\ Safe(c, calls[c].target)
ColInv(k) ==
    /\ col[k].pc = "none" => col[k].input = k[1] /\ inbox[k] = <<>>
    /\ col[k].pc # "none" => /\ k[2] <= calls[k[1]].round
                             /\ k[2] = calls[k[1]].round => calls[k[1]].pc = "back"
    /\ ran[k] # NoTarget => ran[k] = col[k].input /\ col[k].pc \in {"finish", "done"}
    /\ col[k].pc = "ack" => /\ col[k].msg \in Round /\ Safe(col[k].msg[1], k)
                            /\ Current(col[k].msg, k)
InboxInv(k) ==
    /\ \A i \in 1 .. Len(inbox[k]) : Current(inbox[k][i], k)
    /\ \A i, j \in 1 .. Len(inbox[k]) : i < j => inbox[k][j][1] \notin before[inbox[k][i][1]]
DebInv ==
    /\ DebTypeOK
    /\ held # NoTarget => col[held].pc # "none"
    /\ \A c \in Call : CallInv(c)
    /\ \A k \in Round : ColInv(k) /\ InboxInv(k)
    /\ \A m \in acked : Current(m, calls[m[1]].to)

LEMMA RoundParts == \A m \in Round : m[1] \in Call /\ m[2] \in Nat /\ m[2] >= 1 /\ m = <<m[1], m[2]>>
BY DebounceAssumption, SMT DEF Round

LEMMA MyRound ==
    ASSUME DebTypeOK, NEW c \in Call, calls[c].round # 0
    PROVE  Me(c) \in Round /\ Me(c)[1] = c /\ Me(c)[2] = calls[c].round
<1>1. calls[c].round \in 1 .. MaxRounds
  BY DebounceAssumption, SMT DEF DebTypeOK, Calls
<1> QED BY <1>1 DEF Me, Round

LEMMA DebStarts == DebounceInit => DebInv
<1> SUFFICES ASSUME DebounceInit PROVE DebInv
  OBVIOUS
<1>1. /\ \A c \in Call : calls[c].pc = "new" /\ calls[c].round = 0 /\ before[c] = {}
      /\ \A k \in Round : /\ col[k].pc = "none" /\ col[k].input = k[1] /\ inbox[k] = <<>>
                          /\ ran[k] = NoTarget
      /\ acked = {} /\ held = NoTarget
  BY DEF DebounceInit
<1>2. DebTypeOK
  <2>1. calls \in [Call -> Calls]
    <3>1. 0 \in 0 .. MaxRounds
      BY DebounceAssumption, SMT
    <3> QED BY <3>1 DEF DebounceInit, Calls
  <2>2. col \in [Round -> Collectors]
    BY RoundParts DEF DebounceInit, Collectors
  <2>3. inbox \in [Round -> Seq(Round)]
    <3>1. <<>> \in Seq(Round)
      BY SMT
    <3> QED BY <3>1 DEF DebounceInit
  <2> QED BY <2>1, <2>2, <2>3 DEF DebounceInit, DebTypeOK
<1>3. ASSUME NEW c \in Call PROVE CallInv(c)
  BY <1>1 DEF CallInv
<1>4. ASSUME NEW k \in Round PROVE ColInv(k) /\ InboxInv(k)
  <2>1. 1 .. Len(inbox[k]) = {}
    BY <1>1, SMT
  <2> QED BY <1>1, <2>1 DEF ColInv, InboxInv
<1> QED BY <1>1, <1>2, <1>3, <1>4 DEF DebInv

(* Facts of a reachable state, for the steps below.                        *)
LEMMA SenderKnown ==
    ASSUME DebInv, NEW m \in Round, NEW k, Current(m, k)
    PROVE  calls[m[1]].round # 0 /\ calls[m[1]].pc # "new" /\ calls[m[1]].round \in Nat
<1>1. m[1] \in Call /\ m[2] \in Nat /\ m[2] >= 1 /\ m[2] <= calls[m[1]].round
  BY RoundParts DEF Current
<1>2. calls[m[1]].round \in Nat /\ CallInv(m[1])
  BY <1>1, DebounceAssumption, SMT DEF DebInv, DebTypeOK, Calls
<1>3. calls[m[1]].round # 0
  BY <1>1, <1>2, SMT
<1> QED BY <1>2, <1>3 DEF CallInv

LEMMA SafeStays ==
    ASSUME NEW y, NEW k, Safe(y, k), before'[y] = before[y], col'[k].input = col[k].input,
           inbox'[k] = inbox[k]
    PROVE  Safe(y, k)'
BY DEF Safe

(* A step of a call that has not returned, which changes that call alone.  *)
CallGoes(c, r) ==
    /\ r.pc # "new" /\ r.round # 0 /\ r.round >= calls[c].round
    /\ r.round = calls[c].round /\ calls[c].pc = "ack" => r.pc = "back" /\ r.to = calls[c].to
LEMMA CallKeepsCurrent ==
    ASSUME DebInv, NEW c \in Call, NEW r \in Calls, calls' = [calls EXCEPT ![c] = r],
           calls[c].pc # "back", CallGoes(c, r), NEW m \in Round, NEW k, Current(m, k)
    PROVE  Current(m, k)'
<1>1. m[1] \in Call /\ m[2] \in Nat /\ calls[c].round \in Nat /\ r.round \in Nat
  BY RoundParts, DebounceAssumption, SMT DEF DebInv, DebTypeOK, Calls
<1>2. CASE m[1] # c
  <2>1. calls'[m[1]] = calls[m[1]]
    BY <1>1, <1>2 DEF DebInv, DebTypeOK
  <2> QED BY <2>1 DEF Current
<1>3. CASE m[1] = c
  <2>1. calls'[m[1]] = r
    BY <1>1, <1>3 DEF DebInv, DebTypeOK
  <2>2. /\ m[2] <= calls[c].round /\ calls[c].round <= r.round
        /\ m[2] = calls[c].round => calls[c].pc = "ack" /\ calls[c].to = k
        /\ r.round = calls[c].round /\ calls[c].pc = "ack" => r.pc = "back" /\ r.to = calls[c].to
    BY <1>3 DEF Current, CallGoes
  <2>3. m[2] <= r.round /\ (m[2] = r.round => m[2] = calls[c].round /\ r.round = calls[c].round)
    BY <1>1, <2>2, SMT
  <2> QED BY <2>1, <2>2, <2>3 DEF Current
<1> QED BY <1>2, <1>3

(* It may enqueue its own collector, under which nothing was sent yet.     *)
ColEnqueued(c, r) ==
    \A k \in Round :
        \/ col'[k] = col[k]
        \/ /\ k = <<c, r.round>> /\ r.pc = "back" /\ col[k].pc = "none"
           /\ col'[k].pc = "collect" /\ col'[k].input = col[k].input
LEMMA CallKeeps ==
    ASSUME DebInv, NEW c \in Call, NEW r \in Calls, calls' = [calls EXCEPT ![c] = r],
           UNCHANGED <<inbox, acked, ran>>, col' \in [Round -> Collectors], ColEnqueued(c, r),
           held' \in Round \cup {NoTarget}, held' # NoTarget => col'[held'].pc # "none",
           calls[c].pc # "back", CallGoes(c, r),
           before' \in [Call -> SUBSET Call], \A y \in Call \ {c} : before'[y] = before[y],
           calls[c].round # 0 => before'[c] = before[c],
           \A x \in before'[c] : calls[x].pc = "back" /\ x # c,
           r.pc = "send" => r.to \in Round /\ col[r.to].pc # "none",
           r.pc # "ack", r.pc = "back" => r.target \in Round /\ Safe(c, r.target)'
    PROVE  DebInv'
<1>0. DebTypeOK /\ calls \in [Call -> Calls] /\ calls'[c] = r
      /\ \A y \in Call \ {c} : calls'[y] = calls[y]
  BY DEF DebInv, DebTypeOK
<1>1. DebTypeOK'
  BY <1>0 DEF DebTypeOK
<1>2. \A x \in Call : calls[x].pc = "back" => calls'[x].pc = "back"
  BY <1>0
<1>3. ASSUME NEW y \in Call, NEW k \in Round, Safe(y, k), calls[y].round # 0 PROVE Safe(y, k)'
  <2>1. before'[y] = before[y]
    BY <1>3
  <2>2. col'[k].input = col[k].input
    BY DEF ColEnqueued
  <2> QED BY <1>3, <2>1, <2>2, SafeStays
<1>4. ASSUME NEW y \in Call PROVE CallInv(y)'
  <2>1. CASE y = c
    <3>1. (calls[y].pc = "new" <=> calls[y].round = 0)'
      BY <1>0, <2>1 DEF CallGoes
    <3>2. \A x \in before'[y] : calls'[x].pc = "back" /\ x # y
      <4>1. \A x \in before'[c] : x \in Call
        OBVIOUS
      <4> QED BY <1>2, <2>1, <4>1
    <3>3. calls'[y] = r
      BY <1>0, <2>1
    <3>4. (calls[y].pc = "back" => calls[y].target \in Round /\ Safe(y, calls[y].target))'
      <4>1. PICK t : t = r.target
        OBVIOUS
      <4>2. r.pc = "back" => t \in Round /\ Safe(c, t)'
        BY <4>1 DEF Safe
      <4> QED BY <2>1, <3>3, <4>1, <4>2 DEF Safe
    <3>5. r.pc = "send" => r.to \in Round /\ col'[r.to].pc # "none"
      BY DEF ColEnqueued
    <3> QED BY <3>1, <3>2, <3>3, <3>4, <3>5 DEF CallInv
  <2>2. CASE y # c
    <3>1. calls'[y] = calls[y] /\ before'[y] = before[y] /\ CallInv(y) /\ before[y] \subseteq Call
      BY <1>0, <2>2 DEF DebInv, DebTypeOK
    <3>2. \A x \in before[y] : calls'[x].pc = "back" /\ x # y
      BY <1>2, <3>1 DEF CallInv
    <3>3. Me(y)' = Me(y)
      BY <3>1 DEF Me
    <3>4. PICK k, t : k = calls[y].to /\ t = calls[y].target
      OBVIOUS
    <3>5. /\ calls[y].pc = "ack" /\ Me(y) \in acked => Safe(y, k)'
          /\ calls[y].pc = "back" => t \in Round /\ Safe(y, t)'
      <4>1. calls[y].pc \in {"ack", "back"} => calls[y].round # 0
        BY <3>1 DEF CallInv
      <4> QED BY <1>3, <3>1, <3>4, <4>1 DEF CallInv
    <3>7. calls[y].pc \in {"send", "ack"} => k \in Round /\ col'[k].pc # "none"
      BY <3>1, <3>4 DEF CallInv, ColEnqueued
    <3>6. /\ (calls[y].pc = "ack" /\ Me(y) \in acked => Safe(y, calls[y].to))'
          /\ (calls[y].pc = "back" => calls[y].target \in Round /\ Safe(y, calls[y].target))'
      BY <3>1, <3>3, <3>4, <3>5, SMT DEF Safe
    <3> QED BY <3>1, <3>2, <3>4, <3>6, <3>7 DEF CallInv
  <2> QED BY <2>1, <2>2
<1>5. ASSUME NEW k \in Round PROVE ColInv(k)' /\ InboxInv(k)'
  <2>0. ColInv(k) /\ InboxInv(k) /\ k[1] \in Call /\ k[2] \in Nat
    BY RoundParts DEF DebInv
  <2>1. ASSUME col'[k] = col[k] PROVE ColInv(k)'
    <3>1. (col[k].pc # "none" => /\ k[2] <= calls[k[1]].round
                                 /\ k[2] = calls[k[1]].round => calls[k[1]].pc = "back")'
      <4>1. CASE k[1] = c
        <5>1. calls[c].round \in Nat /\ r.round \in Nat /\ calls[c].round <= r.round
          BY <1>0, DebounceAssumption, SMT DEF Calls, CallGoes
        <5>2. col[k].pc # "none" => k[2] <= calls[c].round /\ k[2] # calls[c].round
          BY <2>0, <4>1 DEF ColInv
        <5>3. col[k].pc # "none" => k[2] <= r.round /\ k[2] # r.round
          BY <2>0, <5>1, <5>2, SMT
        <5> QED BY <1>0, <2>1, <4>1, <5>3
      <4>2. CASE k[1] # c
        BY <1>0, <2>0, <2>1, <4>2 DEF ColInv
      <4> QED BY <4>1, <4>2
    <3>2. (col[k].pc = "ack" => col[k].msg \in Round /\ Safe(col[k].msg[1], k) /\ Current(col[k].msg, k))'
      <4> SUFFICES ASSUME col[k].pc = "ack"
                   PROVE  (col[k].msg \in Round /\ Safe(col[k].msg[1], k) /\ Current(col[k].msg, k))'
        BY <2>1
      <4>1. PICK m \in Round : m = col[k].msg /\ Safe(m[1], k) /\ Current(m, k)
        BY <2>0 DEF ColInv
      <4>2. PICK y \in Call : y = m[1]
        BY RoundParts
      <4>3. Safe(y, k)'
        BY <1>3, <4>1, <4>2, SenderKnown
      <4>4. Current(m, k)'
        BY <4>1, CallKeepsCurrent
      <4> QED BY <2>1, <4>1, <4>2, <4>3, <4>4 DEF Safe, Current
    <3> QED BY <2>0, <2>1, <3>1, <3>2 DEF ColInv
  <2>2. ASSUME k = <<c, r.round>>, r.pc = "back", col[k].pc = "none",
               col'[k].pc = "collect", col'[k].input = col[k].input
        PROVE  ColInv(k)'
    <3>1. k[1] = c /\ k[2] = r.round /\ r.round \in Nat
      BY <2>2, DebounceAssumption, SMT DEF Calls
    <3>2. ran[k] = NoTarget
      BY <2>0, <2>2 DEF ColInv
    <3>3. k[2] <= calls'[k[1]].round /\ calls'[k[1]].pc = "back"
      BY <1>0, <2>2, <3>1, SMT
    <3> QED BY <2>2, <3>2, <3>3 DEF ColInv
  <2>3. ColInv(k)'
    BY <2>1, <2>2 DEF ColEnqueued
  <2>4. \A i \in 1 .. Len(inbox[k]) : inbox[k][i] \in Round
    BY <1>0, SMT DEF DebTypeOK
  <2>5. ASSUME NEW i \in 1 .. Len(inbox[k]) PROVE Current(inbox[k][i], k)'
    <3>1. PICK m \in Round : m = inbox[k][i] /\ Current(m, k)
      BY <2>0, <2>4 DEF InboxInv
    <3>2. Current(m, k)'
      BY <3>1, CallKeepsCurrent
    <3> QED BY <3>1, <3>2 DEF Current
  <2>6. ASSUME NEW i \in 1 .. Len(inbox[k]), NEW j \in 1 .. Len(inbox[k]), i < j
        PROVE  inbox[k][j][1] \notin before'[inbox[k][i][1]]
    <3>1. PICK m \in Round : m = inbox[k][i] /\ Current(m, k)
      BY <2>0, <2>4 DEF InboxInv
    <3>2. before'[m[1]] = before[m[1]]
      BY <3>1, RoundParts, SenderKnown
    <3> QED BY <2>0, <2>6, <3>1, <3>2 DEF InboxInv
  <2>7. InboxInv(k)'
    BY <2>5, <2>6 DEF InboxInv
  <2> QED BY <2>3, <2>7
<1>6. ASSUME NEW m \in acked PROVE Current(m, calls[m[1]].to)'
  <2>1. m \in Round /\ m[1] \in Call /\ Current(m, calls[m[1]].to)
    BY <1>0, RoundParts DEF DebInv, DebTypeOK
  <2>2. PICK k : k = calls[m[1]].to
    OBVIOUS
  <2>3. Current(m, k)'
    BY <2>1, <2>2, CallKeepsCurrent
  <2> QED BY <2>3 DEF Current
<1>7. (held # NoTarget => col[held].pc # "none")'
  OBVIOUS
<1> QED BY <1>1, <1>4, <1>5, <1>6, <1>7 DEF DebInv

LEMMA ColsStay ==
    ASSUME DebInv, UNCHANGED <<held, col>>, NEW c, NEW r
    PROVE  /\ col' \in [Round -> Collectors] /\ ColEnqueued(c, r) /\ held' \in Round \cup {NoTarget}
           /\ held' # NoTarget => col'[held'].pc # "none"
BY DEF DebInv, DebTypeOK, ColEnqueued

LEMMA NextRoundKeeps ==
    ASSUME DebInv, NEW c \in Call, calls' = NextRound(c), UNCHANGED <<held, col, inbox, acked, ran>>,
           calls[c].pc # "back", calls[c].round < MaxRounds,
           before' \in [Call -> SUBSET Call], \A y \in Call \ {c} : before'[y] = before[y],
           calls[c].round # 0 => before'[c] = before[c],
           \A x \in before'[c] : calls[x].pc = "back" /\ x # c
    PROVE  DebInv'
<1>1. calls \in [Call -> Calls] /\ calls[c] \in Calls
  BY DEF DebInv, DebTypeOK
<1>2. PICK n \in 0 .. MaxRounds : n = calls[c].round + 1 /\ n # 0 /\ n >= calls[c].round /\ n # calls[c].round
  BY <1>1, DebounceAssumption, SMT DEF Calls
<1>3. PICK r : r = [calls[c] EXCEPT !.pc = "enqueue", !.round = n, !.to = NoTarget]
  OBVIOUS
<1>4. r \in Calls /\ r.pc = "enqueue" /\ r.round = n
  BY <1>1, <1>3 DEF Calls
<1>5. calls' = [calls EXCEPT ![c] = r]
  BY <1>1, <1>2, <1>3 DEF NextRound, Calls
<1>6. CallGoes(c, r)
  BY <1>2, <1>4 DEF CallGoes
<1> QED BY <1>4, <1>5, <1>6, ColsStay, CallKeeps

LEMMA BeginKeeps == ASSUME DebInv, NEW c \in Call, BeginCall(c) PROVE DebInv'
<1>1. /\ calls[c].pc = "new" /\ calls' = NextRound(c) /\ before' = [before EXCEPT ![c] = Returned]
      /\ UNCHANGED <<held, col, inbox, acked, ran>> /\ before \in [Call -> SUBSET Call]
  BY DEF BeginCall, DebInv, DebTypeOK
<1>2. calls[c].round = 0 /\ 0 < MaxRounds
  BY <1>1, DebounceAssumption, SMT DEF DebInv, CallInv
<1>3. before' \in [Call -> SUBSET Call] /\ before'[c] = Returned /\ \A y \in Call \ {c} : before'[y] = before[y]
  BY <1>1 DEF Returned
<1>4. \A x \in before'[c] : calls[x].pc = "back" /\ x # c
  BY <1>1, <1>3 DEF Returned
<1> QED BY <1>1, <1>2, <1>3, <1>4, NextRoundKeeps

LEMMA BeforeStays ==
    ASSUME DebInv, before' = before, NEW c \in Call
    PROVE  /\ before' \in [Call -> SUBSET Call] /\ \A y \in Call \ {c} : before'[y] = before[y]
           /\ before'[c] = before[c] /\ \A x \in before'[c] : calls[x].pc = "back" /\ x # c
BY DEF DebInv, DebTypeOK, CallInv

LEMMA RetryKeeps ==
    ASSUME DebInv, NEW c \in Call, AckTimeout(c) \/ FindHolder(c)
    PROVE  DebInv'
<1>0. calls \in [Call -> Calls] /\ calls[c] \in Calls /\ before' = before
      /\ UNCHANGED <<held, col, inbox, acked, ran>> /\ calls[c].pc \in {"find", "ack"}
  BY DEF DebInv, DebTypeOK, AckTimeout, FindHolder
<1>1. CASE calls' = NextRound(c) /\ calls[c].round < MaxRounds
  BY <1>0, <1>1, BeforeStays, NextRoundKeeps
<1>2. CASE calls[c].pc = "find" /\ held # NoTarget /\ calls' = [calls EXCEPT ![c].pc = "send", ![c].to = held]
  <2>1. PICK r : r = [calls[c] EXCEPT !.pc = "send", !.to = held]
    OBVIOUS
  <2>2. held \in Round /\ col[held].pc # "none"
    BY <1>2 DEF DebInv, DebTypeOK
  <2>3. r \in Calls /\ r.pc = "send" /\ r.round = calls[c].round /\ r.to = held
    BY <1>0, <2>1, <2>2 DEF Calls
  <2>4. calls' = [calls EXCEPT ![c] = r]
    BY <1>0, <1>2, <2>1 DEF Calls
  <2>5. calls[c].round # 0 /\ calls[c].round \in Nat
    BY <1>0, <1>2, DebounceAssumption, SMT DEF DebInv, CallInv, Calls
  <2>6. CallGoes(c, r)
    BY <1>2, <2>3, <2>5, SMT DEF CallGoes
  <2> QED BY <1>0, <2>2, <2>3, <2>4, <2>6, BeforeStays, ColsStay, CallKeeps
<1> QED BY <1>1, <1>2 DEF AckTimeout, FindHolder

LEMMA AckKeeps == ASSUME DebInv, NEW c \in Call, GetAck(c) PROVE DebInv'
<1>0. calls \in [Call -> Calls] /\ calls[c] \in Calls /\ before' = before
      /\ UNCHANGED <<held, col, inbox, acked, ran>> /\ calls[c].pc = "ack" /\ Me(c) \in acked
      /\ calls' = [calls EXCEPT ![c].pc = "back", ![c].target = calls[c].to]
  BY DEF DebInv, DebTypeOK, GetAck, Answered
<1>1. PICK k : k = calls[c].to
  OBVIOUS
<1>2. k \in Round /\ Safe(c, k)
  BY <1>0, <1>1 DEF DebInv, CallInv
<1>3. Safe(c, k)'
  BY <1>0, <1>2, SafeStays
<1>4. PICK r : r = [calls[c] EXCEPT !.pc = "back", !.target = k]
  OBVIOUS
<1>5. r \in Calls /\ r.pc = "back" /\ r.round = calls[c].round /\ r.to = calls[c].to /\ r.target = k
  BY <1>0, <1>2, <1>4 DEF Calls
<1>6. calls' = [calls EXCEPT ![c] = r]
  BY <1>0, <1>1, <1>4 DEF Calls
<1>7. calls[c].round # 0 /\ calls[c].round \in Nat
  BY <1>0, DebounceAssumption, SMT DEF DebInv, CallInv, Calls
<1>8. CallGoes(c, r)
  BY <1>0, <1>5, <1>7, SMT DEF CallGoes
<1>9. Safe(c, r.target)'
  BY <1>3, <1>5 DEF Safe
<1> QED BY <1>0, <1>2, <1>5, <1>6, <1>8, <1>9, BeforeStays, ColsStay, CallKeeps

LEMMA EnqueueKeeps == ASSUME DebInv, NEW c \in Call, EnqueueDebouncer(c) PROVE DebInv'
<1>0. calls \in [Call -> Calls] /\ calls[c] \in Calls /\ before' = before /\ DebTypeOK
      /\ UNCHANGED <<inbox, acked, ran>> /\ calls[c].pc = "enqueue"
  BY DEF DebInv, DebTypeOK, EnqueueDebouncer
<1>1. calls[c].round # 0 /\ calls[c].round \in Nat /\ CallInv(c)
  BY <1>0, DebounceAssumption, SMT DEF DebInv, CallInv, Calls
<1>2. CASE calls' = [calls EXCEPT ![c].pc = "find"] /\ UNCHANGED <<held, col>>
  <2>1. PICK r : r = [calls[c] EXCEPT !.pc = "find"]
    OBVIOUS
  <2>2. r \in Calls /\ r.pc = "find" /\ r.round = calls[c].round
    BY <1>0, <2>1 DEF Calls
  <2>3. calls' = [calls EXCEPT ![c] = r]
    BY <1>0, <1>2, <2>1 DEF Calls
  <2>4. CallGoes(c, r)
    BY <1>0, <1>1, <2>2, SMT DEF CallGoes
  <2> QED BY <1>0, <1>2, <2>2, <2>3, <2>4, BeforeStays, ColsStay, CallKeeps
<1>3. CASE /\ held' = Me(c) /\ col' = [col EXCEPT ![Me(c)].pc = "collect"]
           /\ calls' = Answered(c, Me(c))
  <2>1. PICK k \in Round : k = Me(c) /\ k[1] = c /\ k[2] = calls[c].round /\ k = <<c, calls[c].round>>
    BY <1>0, <1>1, MyRound DEF Me
  <2>2. ColInv(k) /\ col[k] \in Collectors /\ col \in [Round -> Collectors]
    BY <1>0 DEF DebInv, DebTypeOK
  <2>3. col[k].pc = "none" /\ col[k].input = c /\ inbox[k] = <<>>
    BY <1>0, <2>1, <2>2 DEF ColInv
  <2>4. PICK q : q = [col[k] EXCEPT !.pc = "collect"]
    OBVIOUS
  <2>5. q \in Collectors /\ q.pc = "collect" /\ q.input = c
    BY <2>2, <2>3, <2>4 DEF Collectors
  <2>6. col' = [col EXCEPT ![k] = q]
    BY <1>3, <2>1, <2>2, <2>4 DEF Collectors
  <2>7. col' \in [Round -> Collectors] /\ col'[k] = q /\ \A j \in Round \ {k} : col'[j] = col[j]
    BY <2>2, <2>5, <2>6
  <2>8. PICK r : r = [calls[c] EXCEPT !.pc = "back", !.target = k]
    OBVIOUS
  <2>9. r \in Calls /\ r.pc = "back" /\ r.round = calls[c].round /\ r.target = k
    BY <1>0, <2>1, <2>8 DEF Calls
  <2>10. calls' = [calls EXCEPT ![c] = r]
    BY <1>0, <1>3, <2>1, <2>8 DEF Answered, Calls
  <2>11. CallGoes(c, r)
    BY <1>0, <1>1, <2>9, SMT DEF CallGoes
  <2>12. ColEnqueued(c, r)
    <3> SUFFICES ASSUME NEW j \in Round
                 PROVE  \/ col'[j] = col[j]
                        \/ /\ j = <<c, r.round>> /\ r.pc = "back" /\ col[j].pc = "none"
                           /\ col'[j].pc = "collect" /\ col'[j].input = col[j].input
      BY DEF ColEnqueued
    <3> QED BY <2>1, <2>3, <2>5, <2>7, <2>9
  <2>13. Safe(c, r.target)'
    <3>1. c \notin before'[c]
      BY <1>0, <1>1 DEF CallInv
    <3>2. 1 .. Len(inbox'[k]) = {}
      BY <1>0, <2>3, SMT
    <3> QED BY <2>5, <2>7, <2>9, <3>1, <3>2 DEF Safe
  <2>14. held' \in Round \cup {NoTarget} /\ col'[held'].pc # "none"
    BY <1>3, <2>1, <2>5, <2>7
  <2> QED BY <1>0, <2>7, <2>9, <2>10, <2>11, <2>12, <2>13, <2>14, BeforeStays, CallKeeps
<1> QED BY <1>2, <1>3 DEF EnqueueDebouncer

(* The collector's own steps: the callers' state is as before.             *)
LEMMA CurrentStays == ASSUME calls' = calls, NEW m, NEW k, Current(m, k) PROVE Current(m, k)'
BY DEF Current

LEMMA CallsWait ==
    ASSUME DebInv, UNCHANGED <<calls, before>>, acked' \subseteq Round, NEW k \in Round,
           \A m \in acked' \ acked : Current(m, k) /\ Safe(m[1], k)',
           \A j \in Round : col[j].pc # "none" => col'[j].pc # "none",
           \A y \in Call, j \in Round : Safe(y, j) => Safe(y, j)'
    PROVE  /\ \A y \in Call : CallInv(y)'
           /\ \A m \in acked' : Current(m, calls[m[1]].to)'
<1>1. ASSUME NEW y \in Call PROVE CallInv(y)'
  <2>0. CallInv(y) /\ DebTypeOK /\ Me(y)' = Me(y)
    BY DEF DebInv, Me
  <2>1. PICK j, t : j = calls[y].to /\ t = calls[y].target
    OBVIOUS
  <2>2. calls[y].pc = "back" => t \in Round /\ Safe(y, t)'
    BY <2>0, <2>1 DEF CallInv
  <2>3. calls[y].pc \in {"send", "ack"} => j \in Round /\ col'[j].pc # "none"
    BY <2>0, <2>1 DEF CallInv
  <2>4. calls[y].pc = "ack" /\ Me(y) \in acked' => Safe(y, j)'
    <3>1. CASE Me(y) \in acked
      BY <2>0, <2>1, <2>3, <3>1 DEF CallInv
    <3>2. ASSUME calls[y].pc = "ack", Me(y) \in acked', Me(y) \notin acked PROVE Safe(y, j)'
      <4>1. calls[y].round # 0
        BY <2>0, <3>2 DEF CallInv
      <4>2. PICK m \in Round : m = Me(y) /\ m[1] = y /\ m[2] = calls[y].round
        BY <2>0, <4>1, MyRound
      <4>3. Current(m, k) /\ Safe(m[1], k)'
        BY <3>2, <4>2
      <4>4. j = k
        BY <2>1, <4>2, <4>3 DEF Current
      <4> QED BY <4>2, <4>3, <4>4 DEF Safe
    <3> QED BY <3>1, <3>2
  <2>5. /\ (calls[y].pc = "ack" /\ Me(y) \in acked => Safe(y, calls[y].to))'
        /\ (calls[y].pc = "back" => calls[y].target \in Round /\ Safe(y, calls[y].target))'
    BY <2>0, <2>1, <2>2, <2>4 DEF Safe
  <2> QED BY <2>0, <2>1, <2>3, <2>5 DEF CallInv
<1>2. ASSUME NEW m \in acked' PROVE Current(m, calls[m[1]].to)'
  <2>1. CASE m \in acked
    BY <2>1 DEF DebInv, Current
  <2>2. CASE m \notin acked
    BY <2>2 DEF Current
  <2> QED BY <2>1, <2>2
<1> QED BY <1>1, <1>2

LEMMA ColKeeps ==
    ASSUME DebInv, NEW k \in Round, NEW q \in Collectors, col' = [col EXCEPT ![k] = q],
           q.input = col[k].input, q.pc \notin {"none", "ack"}, col[k].pc # "none",
           UNCHANGED <<calls, before, inbox>>, held' \in {held, NoTarget},
           ran' \in [Round -> Call \cup {NoTarget}], \A j \in Round \ {k} : ran'[j] = ran[j],
           ran'[k] # NoTarget => ran'[k] = q.input /\ q.pc \in {"finish", "done"},
           acked' \subseteq Round, \A m \in acked' \ acked : Current(m, k) /\ Safe(m[1], k)
    PROVE  DebInv'
<1>0. DebTypeOK /\ col' \in [Round -> Collectors] /\ col'[k] = q
      /\ \A j \in Round \ {k} : col'[j] = col[j]
  BY DEF DebInv, DebTypeOK
<1>1. DebTypeOK'
  BY <1>0 DEF DebTypeOK
<1>2. \A j \in Round : col'[j].input = col[j].input /\ (col[j].pc # "none" => col'[j].pc # "none")
  BY <1>0
<1>3. \A y \in Call, j \in Round : Safe(y, j) => Safe(y, j)'
  BY <1>2, SafeStays
<1>4. \A m \in acked' \ acked : Current(m, k) /\ Safe(m[1], k)'
  BY <1>3, RoundParts
<1>5. /\ \A y \in Call : CallInv(y)'
      /\ \A m \in acked' : Current(m, calls[m[1]].to)'
  BY <1>2, <1>3, <1>4, CallsWait
<1>6. ASSUME NEW j \in Round PROVE ColInv(j)' /\ InboxInv(j)'
  <2>0. ColInv(j) /\ InboxInv(j)
    BY DEF DebInv
  <2>1. ColInv(j)'
    <3>1. CASE j = k
      BY <1>0, <2>0, <3>1 DEF ColInv
    <3>2. CASE j # k
      <4>1. col'[j] = col[j] /\ ran'[j] = ran[j]
        BY <1>0, <3>2
      <4>2. (col[j].pc = "ack" => Safe(col[j].msg[1], j) /\ Current(col[j].msg, j))'
        BY <2>0, <4>1 DEF ColInv, Safe, Current
      <4> QED BY <2>0, <4>1, <4>2 DEF ColInv
    <3> QED BY <3>1, <3>2
  <2>2. InboxInv(j)'
    BY <2>0 DEF InboxInv, Current
  <2> QED BY <2>1, <2>2
<1>7. (held # NoTarget => col[held].pc # "none")'
  BY <1>0, <1>2, SMT DEF DebInv, DebTypeOK
<1> QED BY <1>1, <1>5, <1>6, <1>7 DEF DebInv

LEMMA CollectorKeeps ==
    ASSUME DebInv, NEW k \in Round, TimeUp(k) \/ RecvMiss(k) \/ RecvExpires(k) \/ SetAck(k)
                                      \/ StartTarget(k) \/ FinishCollector(k)
    PROVE  DebInv'
<1>0. col \in [Round -> Collectors] /\ col[k] \in Collectors /\ ran \in [Round -> Call \cup {NoTarget}]
      /\ acked \subseteq Round /\ ColInv(k)
  BY DEF DebInv, DebTypeOK
<1>1. PICK p \in {"collect", "expire", "start", "finish", "done"} : col' = [col EXCEPT ![k].pc = p]
  BY DEF TimeUp, RecvMiss, RecvExpires, SetAck, StartTarget, FinishCollector
<1>2. PICK q : q = [col[k] EXCEPT !.pc = p]
  OBVIOUS
<1>3. q \in Collectors /\ q.pc = p /\ q.input = col[k].input
  BY <1>0, <1>2 DEF Collectors
<1>4. col' = [col EXCEPT ![k] = q]
  BY <1>0, <1>1, <1>2 DEF Collectors
<1>5. col'[k].pc = p
  BY <1>0, <1>3, <1>4
<1>6. /\ UNCHANGED <<calls, before, inbox>> /\ held' \in {held, NoTarget}
      /\ col[k].pc \in {"collect", "expire", "ack", "start", "finish"}
  BY DEF TimeUp, RecvMiss, RecvExpires, SetAck, StartTarget, FinishCollector
<1>7. acked' \subseteq Round /\ \A m \in acked' \ acked : Current(m, k) /\ Safe(m[1], k)
  BY <1>0 DEF ColInv, TimeUp, RecvMiss, RecvExpires, SetAck, StartTarget, FinishCollector
<1>8. /\ ran' \in [Round -> Call \cup {NoTarget}] /\ \A j \in Round \ {k} : ran'[j] = ran[j]
      /\ ran'[k] # NoTarget => ran'[k] = col[k].input /\ col'[k].pc \in {"finish", "done"}
  <2>1. CASE StartTarget(k)
    <3>1. ran' = [ran EXCEPT ![k] = col[k].input] /\ col' = [col EXCEPT ![k].pc = "finish"]
          /\ col[k].input \in Call
      BY <1>0, <2>1 DEF StartTarget, Collectors
    <3> QED BY <1>0, <3>1 DEF Collectors
  <2>2. CASE FinishCollector(k)
    <3>1. ran' = ran /\ col' = [col EXCEPT ![k].pc = "done"]
      BY <2>2 DEF FinishCollector
    <3> QED BY <1>0, <3>1 DEF Collectors, ColInv
  <2>3. CASE ~StartTarget(k) /\ ~FinishCollector(k)
    BY <1>0, <2>3 DEF ColInv, TimeUp, RecvMiss, RecvExpires, SetAck
  <2> QED BY <2>1, <2>2, <2>3
<1> QED BY <1>3, <1>4, <1>5, <1>6, <1>7, <1>8, ColKeeps

(* recv takes the first message: whom its caller supersedes is not behind. *)
LEMMA CollectKeeps == ASSUME DebInv, NEW k \in Round, Collect(k) PROVE DebInv'
<1>0. /\ DebTypeOK /\ col \in [Round -> Collectors] /\ inbox \in [Round -> Seq(Round)]
      /\ ColInv(k) /\ InboxInv(k) /\ col[k].pc = "collect" /\ inbox[k] # <<>>
      /\ UNCHANGED <<calls, before, held, acked, ran>>
  BY DEF DebInv, DebTypeOK, Collect
<1>1. PICK s \in Seq(Round) : s = inbox[k] /\ s # <<>>
  BY <1>0
<1>2. /\ Len(s) \in Nat /\ 1 \in 1 .. Len(s) /\ Tail(s) \in Seq(Round) /\ Head(s) = s[1]
      /\ \A i \in 1 .. Len(Tail(s)) : i + 1 \in 1 .. Len(s) /\ Tail(s)[i] = s[i + 1]
      /\ \A i \in 1 .. Len(s) : s[i] \in Round
  BY <1>1, SMT
<1>3. PICK m \in Round : m = s[1]
  BY <1>2
<1>4. PICK x \in Call : x = m[1]
  BY RoundParts
<1>5. PICK q : q = [pc |-> "ack", input |-> x, msg |-> m]
  OBVIOUS
<1>6. q \in Collectors /\ q.pc = "ack" /\ q.input = x /\ q.msg = m
  BY <1>5 DEF Collectors
<1>7. col' = [col EXCEPT ![k] = q] /\ inbox' = [inbox EXCEPT ![k] = Tail(s)]
  BY <1>1, <1>2, <1>3, <1>4, <1>5 DEF Collect
<1>8. /\ col' \in [Round -> Collectors] /\ inbox' \in [Round -> Seq(Round)]
      /\ col'[k] = q /\ inbox'[k] = Tail(s)
      /\ \A j \in Round \ {k} : col'[j] = col[j] /\ inbox'[j] = inbox[j]
  BY <1>0, <1>2, <1>6, <1>7
<1>9. DebTypeOK'
  BY <1>0, <1>8 DEF DebTypeOK
<1>10. Current(m, k) /\ \A i \in 1 .. Len(Tail(s)) : Current(Tail(s)[i], k)
  BY <1>0, <1>1, <1>2, <1>3 DEF InboxInv
<1>11. x \notin before[x]
  BY DEF DebInv, CallInv
<1>12. Safe(x, k)'
  <2>1. \A i \in 1 .. Len(Tail(s)) : Tail(s)[i][1] \notin before[x]
    <3> TAKE i \in 1 .. Len(Tail(s))
    <3>1. i + 1 \in 1 .. Len(s) /\ Tail(s)[i] = s[i + 1] /\ 1 < i + 1
      BY <1>2, SMT
    <3> QED BY <1>0, <1>1, <1>2, <1>3, <1>4, <3>1 DEF InboxInv
  <2> QED BY <1>0, <1>6, <1>8, <1>11, <2>1 DEF Safe
<1>13. ASSUME NEW y \in Call, NEW j \in Round, Safe(y, j) PROVE Safe(y, j)'
  <2>1. CASE j = k
    <3>1. \A i \in 1 .. Len(s) : s[i][1] \notin before[y]
      BY <1>1, <1>13, <2>1 DEF Safe
    <3>2. x \notin before[y] /\ \A i \in 1 .. Len(Tail(s)) : Tail(s)[i][1] \notin before[y]
      BY <1>2, <1>3, <1>4, <3>1
    <3> QED BY <1>0, <1>6, <1>8, <2>1, <3>2 DEF Safe
  <2>2. CASE j # k
    <3>1. before'[y] = before[y] /\ col'[j].input = col[j].input /\ inbox'[j] = inbox[j]
      BY <1>0, <1>8, <2>2
    <3> QED BY <1>13, <3>1, SafeStays
  <2> QED BY <2>1, <2>2
<1>14. \A j \in Round : col[j].pc # "none" => col'[j].pc # "none"
  BY <1>6, <1>8
<1>15. /\ \A y \in Call : CallInv(y)'
       /\ \A n \in acked' : Current(n, calls[n[1]].to)'
  <2>1. acked' \subseteq Round /\ acked' \ acked = {}
    BY <1>0 DEF DebTypeOK
  <2> QED BY <1>0, <1>13, <1>14, <2>1, CallsWait
<1>16. ASSUME NEW j \in Round PROVE ColInv(j)' /\ InboxInv(j)'
  <2>1. CASE j # k
    <3>0. ColInv(j) /\ InboxInv(j) /\ col'[j] = col[j] /\ inbox'[j] = inbox[j]
      BY <1>8, <2>1 DEF DebInv
    <3>1. (col[j].pc = "ack" => Safe(col[j].msg[1], j) /\ Current(col[j].msg, j))'
      BY <1>0, <3>0 DEF ColInv, Safe, Current
    <3>2. ColInv(j)'
      BY <1>0, <3>0, <3>1 DEF ColInv
    <3>3. InboxInv(j)'
      BY <1>0, <3>0 DEF InboxInv, Current
    <3> QED BY <3>2, <3>3
  <2>2. CASE j = k
    <3>1. Current(m, k)'
      BY <1>0, <1>10, CurrentStays
    <3>2. ran'[k] = NoTarget
      BY <1>0 DEF ColInv
    <3>3. /\ k[2] <= calls[k[1]].round
          /\ k[2] = calls[k[1]].round => calls[k[1]].pc = "back"
      BY <1>0 DEF ColInv
    <3>4. (col[k].msg \in Round /\ Safe(col[k].msg[1], k) /\ Current(col[k].msg, k))'
      BY <1>4, <1>6, <1>8, <1>12, <3>1 DEF Safe, Current
    <3>5. ColInv(k)'
      BY <1>0, <1>6, <1>8, <3>2, <3>3, <3>4 DEF ColInv
    <3>6. \A i \in 1 .. Len(Tail(s)) : Current(Tail(s)[i], k)'
      BY <1>0, <1>10, CurrentStays
    <3>7. \A i, g \in 1 .. Len(Tail(s)) : i < g => Tail(s)[g][1] \notin before[Tail(s)[i][1]]
      <4> TAKE i, g \in 1 .. Len(Tail(s))
      <4> HAVE i < g
      <4>1. /\ i + 1 \in 1 .. Len(s) /\ Tail(s)[i] = s[i + 1] /\ i + 1 < g + 1
            /\ g + 1 \in 1 .. Len(s) /\ Tail(s)[g] = s[g + 1]
        BY <1>2, SMT
      <4> QED BY <1>0, <1>1, <4>1 DEF InboxInv
    <3>8. InboxInv(k)'
      BY <1>0, <1>8, <3>6, <3>7 DEF InboxInv, Current
    <3> QED BY <2>2, <3>5, <3>8
  <2> QED BY <2>1, <2>2
<1>17. (held # NoTarget => col[held].pc # "none")'
  BY <1>0, <1>14 DEF DebInv, DebTypeOK
<1> QED BY <1>9, <1>15, <1>16, <1>17 DEF DebInv

(* A caller that sends has not returned: it supersedes nobody yet.         *)
LEMMA SendKeeps == ASSUME DebInv, NEW c \in Call, SendDebounce(c) PROVE DebInv'
<1>0. /\ DebTypeOK /\ calls \in [Call -> Calls] /\ calls[c] \in Calls /\ inbox \in [Round -> Seq(Round)]
      /\ calls[c].pc = "send" /\ UNCHANGED <<before, held, col, acked, ran>> /\ CallInv(c)
  BY DEF DebInv, DebTypeOK, SendDebounce
<1>1. calls[c].round # 0 /\ calls[c].round \in Nat
  BY <1>0, DebounceAssumption, SMT DEF CallInv, Calls
<1>2. PICK k \in Round : k = calls[c].to /\ col[k].pc # "none"
  BY <1>0 DEF CallInv
<1>3. PICK m \in Round : m = Me(c) /\ m[1] = c /\ m[2] = calls[c].round
  BY <1>0, <1>1, MyRound
<1>4. PICK s \in Seq(Round) : s = inbox[k]
  BY <1>0
<1>5. PICK t : t = Append(s, m)
  OBVIOUS
<1>6. /\ t \in Seq(Round) /\ Len(s) \in Nat /\ Len(t) = Len(s) + 1 /\ t[Len(s) + 1] = m
      /\ \A i \in 1 .. Len(t) : i # Len(s) + 1 => i \in 1 .. Len(s) /\ t[i] = s[i]
  BY <1>5, SMT
<1>7. PICK r : r = [calls[c] EXCEPT !.pc = "ack"]
  OBVIOUS
<1>8. r \in Calls /\ r.pc = "ack" /\ r.round = calls[c].round /\ r.to = k
  BY <1>0, <1>2, <1>7 DEF Calls
<1>9. calls' = [calls EXCEPT ![c] = r] /\ inbox' = [inbox EXCEPT ![k] = t]
  BY <1>0, <1>2, <1>3, <1>4, <1>5, <1>7 DEF SendDebounce, Calls
<1>10. /\ calls' \in [Call -> Calls] /\ calls'[c] = r /\ \A y \in Call \ {c} : calls'[y] = calls[y]
       /\ inbox' \in [Round -> Seq(Round)] /\ inbox'[k] = t
       /\ \A j \in Round \ {k} : inbox'[j] = inbox[j]
  BY <1>0, <1>6, <1>8, <1>9
<1>11. DebTypeOK'
  BY <1>0, <1>10 DEF DebTypeOK
<1>12. CallGoes(c, r)
  BY <1>0, <1>1, <1>8, SMT DEF CallGoes
<1>13. \A n \in Round : \A j : Current(n, j) => Current(n, j)'
  BY <1>0, <1>8, <1>9, <1>12, CallKeepsCurrent
<1>14. Current(m, k)'
  BY <1>1, <1>3, <1>8, <1>10, SMT DEF Current
<1>15. \A y \in Call : c \notin before[y]
  BY <1>0 DEF DebInv, CallInv
<1>16. ASSUME NEW y \in Call, NEW j \in Round, Safe(y, j) PROVE Safe(y, j)'
  <2>1. CASE j = k
    <3>1. \A i \in 1 .. Len(s) : s[i][1] \notin before[y]
      BY <1>4, <1>16, <2>1 DEF Safe
    <3>2. \A i \in 1 .. Len(t) : t[i][1] \notin before[y]
      BY <1>3, <1>6, <1>15, <3>1, SMT
    <3>3. col[k].input \notin before[y]
      BY <1>16, <2>1 DEF Safe
    <3> QED BY <1>0, <1>10, <2>1, <3>2, <3>3 DEF Safe
  <2>2. CASE j # k
    <3>1. before'[y] = before[y] /\ col'[j].input = col[j].input /\ inbox'[j] = inbox[j]
      BY <1>0, <1>10, <2>2
    <3> QED BY <1>16, <3>1, SafeStays
  <2> QED BY <2>1, <2>2
<1>17. ASSUME NEW y \in Call PROVE CallInv(y)'
  <2>0. CallInv(y) /\ before[y] \subseteq Call
    BY <1>0 DEF DebInv, DebTypeOK
  <2>1. \A x \in before[y] : calls'[x].pc = "back" /\ x # y
    <3>1. \A x \in before[y] : calls[x].pc = "back" /\ x # y /\ x # c
      BY <1>15, <2>0 DEF CallInv
    <3> QED BY <1>10, <2>0, <3>1, SMT
  <2>2. CASE y = c
    <3>1. Me(c)' = m
      BY <1>3, <1>8, <1>10 DEF Me
    <3>2. m \notin acked
      <4>1. ASSUME m \in acked PROVE FALSE
        <5>1. Current(m, calls[c].to)
          BY <1>3, <4>1 DEF DebInv
        <5> QED BY <1>0, <1>3, <5>1 DEF Current
      <4> QED BY <4>1
    <3> QED BY <1>0, <1>1, <1>2, <1>8, <1>10, <2>1, <2>2, <3>1, <3>2 DEF CallInv
  <2>3. CASE y # c
    <3>1. calls'[y] = calls[y] /\ Me(y)' = Me(y)
      BY <1>10, <2>3 DEF Me
    <3>2. PICK j, g : j = calls[y].to /\ g = calls[y].target
      OBVIOUS
    <3>3. /\ calls[y].pc = "ack" /\ Me(y) \in acked => Safe(y, j)'
          /\ calls[y].pc = "back" => g \in Round /\ Safe(y, g)'
      BY <1>16, <2>0, <3>2 DEF CallInv
    <3>4. /\ (calls[y].pc = "ack" /\ Me(y) \in acked => Safe(y, calls[y].to))'
          /\ (calls[y].pc = "back" => calls[y].target \in Round /\ Safe(y, calls[y].target))'
      BY <1>0, <3>1, <3>2, <3>3 DEF Safe
    <3> QED BY <1>0, <2>0, <2>1, <3>1, <3>4 DEF CallInv
  <2> QED BY <2>2, <2>3
<1>18. ASSUME NEW j \in Round PROVE ColInv(j)'
  <2>0. ColInv(j) /\ j[1] \in Call
    BY RoundParts DEF DebInv
  <2>1. (col[j].pc # "none" => /\ j[2] <= calls[j[1]].round
                               /\ j[2] = calls[j[1]].round => calls[j[1]].pc = "back")'
    <3>1. CASE j[1] = c
      BY <1>0, <1>8, <1>10, <2>0, <3>1 DEF ColInv
    <3>2. CASE j[1] # c
      BY <1>0, <1>10, <2>0, <3>2 DEF ColInv
    <3> QED BY <3>1, <3>2
  <2>2. (col[j].pc = "none" => col[j].input = j[1] /\ inbox[j] = <<>>)'
    BY <1>0, <1>2, <1>10, <2>0 DEF ColInv
  <2>3. (col[j].pc = "ack" => col[j].msg \in Round /\ Safe(col[j].msg[1], j) /\ Current(col[j].msg, j))'
    <3> SUFFICES ASSUME col[j].pc = "ack"
                 PROVE  (col[j].msg \in Round /\ Safe(col[j].msg[1], j) /\ Current(col[j].msg, j))'
      BY <1>0
    <3>1. PICK n \in Round : n = col[j].msg /\ Safe(n[1], j) /\ Current(n, j)
      BY <2>0 DEF ColInv
    <3>2. PICK y \in Call : y = n[1]
      BY RoundParts
    <3>3. Safe(y, j)' /\ Current(n, j)'
      BY <1>13, <1>16, <3>1, <3>2
    <3> QED BY <1>0, <3>1, <3>2, <3>3 DEF Safe, Current
  <2> QED BY <1>0, <2>0, <2>1, <2>2, <2>3 DEF ColInv
<1>19. ASSUME NEW j \in Round PROVE InboxInv(j)'
  <2>0. InboxInv(j) /\ \A i \in 1 .. Len(inbox[j]) : inbox[j][i] \in Round
    BY <1>0, SMT DEF DebInv
  <2>1. CASE j # k
    <3>1. inbox'[j] = inbox[j]
      BY <1>10, <2>1
    <3>2. ASSUME NEW i \in 1 .. Len(inbox[j]) PROVE Current(inbox[j][i], j)'
      <4>1. PICK n \in Round : n = inbox[j][i] /\ Current(n, j)
        BY <2>0 DEF InboxInv
      <4>2. Current(n, j)'
        BY <1>13, <4>1
      <4> QED BY <3>1, <4>1, <4>2 DEF Current
    <3> QED BY <1>0, <2>0, <3>1, <3>2 DEF InboxInv
  <2>2. CASE j = k
    <3>1. ASSUME NEW i \in 1 .. Len(t) PROVE Current(t[i], k)'
      <4>1. CASE i = Len(s) + 1
        BY <1>6, <1>14, <4>1
      <4>2. CASE i # Len(s) + 1
        <5>1. PICK n \in Round : n = t[i] /\ Current(n, k)
          BY <1>4, <1>6, <2>0, <2>2, <4>2 DEF InboxInv
        <5> QED BY <1>13, <5>1
      <4> QED BY <4>1, <4>2
    <3>2. ASSUME NEW i \in 1 .. Len(t), NEW g \in 1 .. Len(t), i < g
          PROVE  t[g][1] \notin before[t[i][1]]
      <4>1. i # Len(s) + 1 /\ i \in 1 .. Len(s) /\ t[i] = s[i] /\ s[i][1] \in Call
        <5>1. i # Len(s) + 1
          BY <1>6, <3>2, SMT
        <5>2. i \in 1 .. Len(s) /\ t[i] = s[i]
          BY <1>6, <5>1
        <5> QED BY <1>4, <2>0, <2>2, <5>1, <5>2, RoundParts
      <4>2. CASE g = Len(s) + 1
        BY <1>3, <1>6, <1>15, <4>1, <4>2
      <4>3. CASE g # Len(s) + 1
        BY <1>4, <1>6, <2>0, <2>2, <3>2, <4>1, <4>3 DEF InboxInv
      <4> QED BY <4>2, <4>3
    <3>3. InboxInv(k)'
      BY <1>0, <1>10, <3>1, <3>2 DEF InboxInv, Current
    <3> QED BY <2>2, <3>3
  <2> QED BY <2>1, <2>2
<1>20. ASSUME NEW n \in acked PROVE Current(n, calls[n[1]].to)'
  <2>1. n \in Round /\ n[1] \in Call
    BY <1>0, RoundParts DEF DebTypeOK
  <2>2. PICK j : j = calls[n[1]].to /\ Current(n, j)
    BY DEF DebInv
  <2>3. Current(n, j)'
    BY <1>13, <2>1, <2>2
  <2> QED BY <2>3 DEF Current
<1>21. (held # NoTarget => col[held].pc # "none")'
  BY <1>0 DEF DebInv
<1> QED BY <1>0, <1>11, <1>17, <1>18, <1>19, <1>20, <1>21 DEF DebInv

(* A target never runs with an input that was superseded, however the      *)
(* callers of run_debounce, their retries and the collectors interleave.   *)
THEOREM TargetsRunTheLatestInput == DebounceSpec => []LatestInputRuns
<1>1. ASSUME DebInv, [DebounceNext]_debVars PROVE DebInv'
  <2>1. CASE UNCHANGED debVars
    <3>1. DebTypeOK' /\ (held' # NoTarget => col'[held'].pc # "none")
      BY <1>1, <2>1 DEF debVars, DebInv, DebTypeOK
    <3>2. \A c \in Call : CallInv(c)'
      BY <1>1, <2>1 DEF debVars, DebInv, CallInv, Safe, Me
    <3>3. \A k \in Round : ColInv(k)' /\ InboxInv(k)'
      <4>1. \A k \in Round : ColInv(k)'
        BY <1>1, <2>1 DEF debVars, DebInv, ColInv, Safe, Current
      <4>2. \A k \in Round : InboxInv(k)'
        BY <1>1, <2>1, SMT DEF debVars, DebInv, InboxInv, Current
      <4> QED
        BY <4>1, <4>2
    <3>4. \A m \in acked' : Current(m, calls[m[1]].to)'
      BY <1>1, <2>1 DEF debVars, DebInv, Current
    <3> QED
      BY <3>1, <3>2, <3>3, <3>4 DEF DebInv
  <2>2. CASE \E c \in Call : CallStep(c)
    BY <1>1, <2>2, BeginKeeps, EnqueueKeeps, RetryKeeps, SendKeeps, AckKeeps DEF CallStep
  <2>3. CASE \E k \in Round : CollectorStep(k)
    BY <1>1, <2>3, CollectKeeps, CollectorKeeps DEF CollectorStep
  <2> QED BY <1>1, <2>1, <2>2, <2>3 DEF DebounceNext
<1>2. DebInv => LatestInputRuns
  BY SMT DEF DebInv, CallInv, ColInv, Safe, LatestInputRuns, Returned
<1> QED BY <1>1, <1>2, DebStarts, PTL DEF DebounceSpec

-----------------------------------------------------------------------------
(***************************************************************************)
(* The conductor, for any set of requests.                                 *)
(***************************************************************************)

(* What is unread was not begun, and what was begun is settled, but for    *)
(* the request being handled and for those an abort left.                  *)
CondInv ==
    /\ wire \subseteq Request /\ begun \subseteq Request
    /\ answers \in [Request -> 0 .. 1]
    /\ wire \cap begun = {}
    /\ \A r \in Request \ begun : answers[r] = 0
    /\ cpc = "handle" => current \in begun /\ answers[current] = 0
    /\ aborted \/ \A r \in begun :
          answers[r] = 1 \/ r \in failed \/ (cpc = "handle" /\ r = current)

LEMMA CondInit == ConductorInit => CondInv
  BY SMT DEF ConductorInit, CondInv

LEMMA CondKeeps == CondInv /\ [ConductorNext]_condVars => CondInv'
<1> SUFFICES ASSUME CondInv, [ConductorNext]_condVars PROVE CondInv'
  BY SMT
<1>1. ASSUME UNCHANGED <<wire, current, begun, answers, failed, aborted>>,
             cpc # "handle", cpc' # "handle"
      PROVE  CondInv'
  BY <1>1, SMT DEF CondInv
<1>2. CASE Dial \/ ConnectFails \/ BackoffOver \/ PingTick \/ ReadDeadline \/ ReadEnd
             \/ ReadControl \/ TokenSeen \/ CloseGracefully \/ TenSeconds
  BY <1>1, <1>2, SMT DEF Dial, ConnectFails, BackoffOver, PingTick, ReadDeadline, ReadEnd, ReadControl,
     TokenSeen, CloseGracefully, TenSeconds, Drop, NextTurn, reqVars
<1>3. CASE ConnectOk
  BY <1>3, SMT DEF ConnectOk, CondInv, reqVars
<1>4. CASE \E r \in Request : ReadRequest(r)
  BY <1>4, SMT DEF ReadRequest, CondInv
<1>5. CASE HandleMessage
  <2>1. CASE answers' = [answers EXCEPT ![current] = @ + 1] /\ failed' = failed
    BY <1>5, <2>1, SMT DEF HandleMessage, CondInv
  <2>2. CASE failed' = failed \cup {current} /\ answers' = answers
    BY <1>5, <2>2, SMT DEF HandleMessage, CondInv
  <2> QED BY <1>5, <2>1, <2>2, SMT DEF HandleMessage
<1>6. CASE Shutdown \/ (\E how \in {"silent", "closed"} : LoseLink(how)) \/ UNCHANGED condVars
  BY <1>6, SMT DEF Shutdown, LoseLink, CondInv, condVars, reqVars
<1>7. CASE AbortTask
  BY <1>7, SMT DEF AbortTask, CondInv, reqVars
<1>8. CASE \E r \in Request : ServerSends(r)
  BY <1>8, SMT DEF ServerSends, CondInv, reqVars
<1> QED BY <1>2, <1>3, <1>4, <1>5, <1>6, <1>7, <1>8, SMT DEF ConductorNext, LinkStep

(* A request whose handling began is answered or fails before the          *)
(* loop stops, however the connection is lost and whenever the shutdown is *)
(* asked for, unless its grace period lapses.                              *)
THEOREM RequestsAreNotTorn == ConductorSpec => []NeverTorn
<1>1. CondInv => NeverTorn
  BY SMT DEF CondInv, NeverTorn
<1> QED BY <1>1, CondInit, CondKeeps, PTL DEF ConductorSpec
=============================================================================
