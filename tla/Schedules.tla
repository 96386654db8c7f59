----------------------------- MODULE Schedules -----------------------------
(* One cron schedule and the engines that fire it: schedule_reconciler,    *)
(* schedule_fire_loop, persist_scheduled_tick, launch_scheduled_tick,      *)
(* backfill_ticks, and the calls that create, replace, update, pause,      *)
(* resume and delete a schedule, of the engine and of the client.          *)
(*                                                                         *)
(* Time is counted in seconds and a cron specification is the set of its   *)
(* instants: at clock = t the instant t has just passed.  A tick's row is  *)
(* its workflow, named after the schedule and the instant.                 *)
(*                                                                         *)
(* Left out: time zones and the parser, workflows the engine does not      *)
(* know, and trigger_schedule, whose run has a name of its own.            *)
EXTENDS Integers, FiniteSets, FiniteSetsExt

CONSTANTS
    Host,         \* engines
    Cron,         \* definitions: [ticks, auto, queue], queue for queue_name
    Cases,        \* what is explored: see below
    Horizon,      \* bound on the clock
    NoSched
(* A case: the engines running, the definition compiled in by #[scheduled] *)
(* (or NoSched), the definition already created (or NoSched), when the     *)
(* clock stops, and how many calls change the schedule, engines die and    *)
(* writes of a tick fail.                                                  *)

(* The definitions a case can install, and the seconds they fire at.       *)
Definitions == (Cron \cup {c.row : c \in Cases} \cup {c.macro : c \in Cases}) \ {NoSched}
Instants == UNION {d.ticks : d \in Definitions}
ASSUME ScheduleAssumption ==
    NoSched \notin Cron /\ Instants \subseteq Nat /\ \A c \in Cases : c.hosts \subseteq Host

Seconds == 0 .. Horizon
Never == -1
FireLoop == Host \X {1, 2}        \* fire loops; an engine has at most two alive

VARIABLES
    clock,
    case,         \* the case explored
    sched,        \* its row: [d, status, last], d with the schedule_id
    ticks,        \* ticks whose workflow exists
    starts,       \* [Seconds -> times the tick's workflow was spawned]
    rec,          \* [Host -> the reconciler: pc, the row it read, ticks to fill]
    installed,    \* [Host -> the definition it runs a loop for, and which]
    loop,         \* [FireLoop -> pc, definition, next tick, stop flag]
    asked,        \* ticks left of a backfill_schedule call, and who serves it
    left,         \* calls, deaths and failures still to come
    dark,         \* ticks that passed while no loop was alive
    dropped       \* ticks a backfill gave up on
schedVars == <<clock, case, sched, ticks, starts, rec, installed, loop, asked, left,
               dark, dropped>>
runVars == <<ticks, starts>>
hostVars == <<rec, installed, loop>>
ghostVars == <<dark, dropped>>

Off == [pc |-> "off", d |-> NoSched, next |-> Never, stop |-> FALSE]
Resting == [pc |-> "idle", seen |-> NoSched, todo |-> {}]
NotInstalled == [d |-> NoSched, n |-> 1]
NoCall == [todo |-> {}, direct |-> FALSE]
WithId(d, n) == [id |-> n, ticks |-> d.ticks, auto |-> d.auto, queue |-> d.queue]
NewRow(d, n) == [d |-> WithId(d, n), status |-> "ACTIVE", last |-> Never]

ScheduleInit ==
    /\ clock = 0
    /\ case \in Cases
    /\ left = [edits |-> case.edits, crashes |-> case.crashes, fails |-> case.fails]
    /\ sched = IF case.row = NoSched THEN NoSched ELSE NewRow(case.row, case.edits + 1)
    /\ ticks = {} /\ starts = [t \in Seconds |-> 0]
    /\ rec = [h \in Host |-> Resting]
    /\ installed = [h \in Host |-> NotInstalled]
    /\ loop = [l \in FireLoop |-> Off]
    /\ asked = NoCall
    /\ dark = {} /\ dropped = {}

(* ------------------------------------------------ administrative calls *)

Spend(kind) == left[kind] > 0 /\ left' = [left EXCEPT ![kind] = @ - 1]
Edit == Spend("edits")
Fresh(d) == NewRow(d, left.edits)

(* A new name, or create-or-replace of a batch in one transaction.         *)
CreateSchedule(d) ==
    /\ Edit /\ sched = NoSched
    /\ sched' = Fresh(d) /\ dark' = {}
    /\ UNCHANGED <<clock, case, runVars, hostVars, asked, dropped>>
ApplySchedules(d) ==
    /\ Edit
    /\ sched' = Fresh(d) /\ dark' = {}
    /\ UNCHANGED <<clock, case, runVars, hostVars, asked, dropped>>
(* The definition changes; id, status and last_fired_at stay.              *)
UpdateSchedule(d) ==
    /\ Edit /\ sched # NoSched
    /\ sched' = [sched EXCEPT !.d = WithId(d, sched.d.id)] /\ dark' = {}
    /\ UNCHANGED <<clock, case, runVars, hostVars, asked, dropped>>
SetScheduleStatus(s) ==
    /\ Edit /\ sched # NoSched /\ sched.status # s
    /\ sched' = [sched EXCEPT !.status = s]
    /\ UNCHANGED <<clock, case, runVars, hostVars, asked, ghostVars>>
DeleteSchedule ==
    /\ Edit /\ sched # NoSched
    /\ sched' = NoSched /\ dark' = {}
    /\ UNCHANGED <<clock, case, runVars, hostVars, asked, dropped>>

(* -------------------------------------------------------------- ticks *)

(* cron_ticks_between(start, end): both bounds are excluded.               *)
TicksBetween(d, from, to) == {t \in d.ticks : from < t /\ t < to}

(* Faulty form, for the mutants: whoever finds the tick unfinished runs it. *)
PersistAnyLaunch(t, direct) ==
    /\ ticks' = ticks \cup {t}
    /\ starts' = IF direct THEN [starts EXCEPT ![t] = @ + 1] ELSE starts
(* persist_scheduled_tick and launch_scheduled_tick: the insert decides    *)
(* which engine spawns the run; a queued tick is left to a dispatcher.     *)
PersistTick(t, direct) ==
    /\ ticks' = ticks \cup {t}
    /\ starts' = IF direct /\ t \notin ticks THEN [starts EXCEPT ![t] = @ + 1] ELSE starts

(* backfill_schedule(start, end): the ticks of the range, one insert       *)
(* after the other; the client enqueues them instead of running them.      *)
BackfillSchedule(from, to, client) ==
    /\ Edit /\ sched # NoSched /\ asked.todo = {}
    /\ asked' = [todo |-> TicksBetween(sched.d, from, to),
                 direct |-> ~client /\ ~sched.d.queue]
    /\ UNCHANGED <<clock, case, sched, runVars, hostVars, ghostVars>>
BackfillNext ==
    /\ asked.todo # {}
    /\ LET t == Min(asked.todo) IN
       /\ PersistTick(t, asked.direct)
       /\ asked' = IF asked.todo = {t} THEN NoCall ELSE [asked EXCEPT !.todo = @ \ {t}]
    /\ UNCHANGED <<clock, case, sched, hostVars, left, ghostVars>>

(* --------------------------------------------------------- reconciler *)

(* The ACTIVE row, else the compiled-in definition.                        *)
Desired ==
    IF sched # NoSched /\ sched.status = "ACTIVE" THEN sched
    ELSE IF case.macro # NoSched THEN NewRow(case.macro, 0)
    ELSE NoSched
(* Faulty form, for the mutants: the range starts where the engine did.    *)
CatchUpNothing(s) ==
    IF s.d.auto /\ s.last # Never THEN TicksBetween(s.d, clock, clock + 1) ELSE {}
(* Missed ticks: from just after the last one fired until now.             *)
CatchUp(s) ==
    IF s.d.auto /\ s.last # Never THEN TicksBetween(s.d, s.last + 1, clock + 1) ELSE {}

(* Faulty form, for the mutants: the loop is forgotten, not stopped.       *)
ReconcileForgets(h) ==
    /\ rec[h].pc = "idle"
    /\ LET kept == Desired # NoSched /\ installed[h].d = Desired.d IN
       /\ installed' = IF kept THEN installed
                       ELSE [installed EXCEPT ![h].d = NoSched]
       /\ rec' = IF kept \/ Desired = NoSched THEN rec
                 ELSE [rec EXCEPT ![h] = [pc |-> "fill", seen |-> Desired, todo |-> CatchUp(Desired)]]
    /\ UNCHANGED <<clock, case, sched, runVars, loop, asked, left, ghostVars>>
(* One pass: the stop flag of a loop whose definition is gone is set; a    *)
(* desired schedule without a loop is backfilled, then installed.          *)
Reconcile(h) ==
    /\ rec[h].pc = "idle"
    /\ LET kept == Desired # NoSched /\ installed[h].d = Desired.d
           n == installed[h].n IN
       /\ loop' = IF kept \/ loop[<<h, n>>].pc = "off" THEN loop
                  ELSE [loop EXCEPT ![<<h, n>>].stop = TRUE]
       /\ installed' = IF kept THEN installed
                       ELSE [installed EXCEPT ![h].d = NoSched]
       /\ rec' = IF kept \/ Desired = NoSched THEN rec
                 ELSE [rec EXCEPT ![h] = [pc |-> "fill", seen |-> Desired, todo |-> CatchUp(Desired)]]
    /\ UNCHANGED <<clock, case, sched, runVars, asked, left, ghostVars>>
FillTick(h) ==
    /\ rec[h].pc = "fill" /\ rec[h].todo # {}
    /\ PersistTick(Min(rec[h].todo), ~rec[h].seen.d.queue)
    /\ rec' = [rec EXCEPT ![h].todo = @ \ {Min(@)}]
    /\ UNCHANGED <<clock, case, sched, installed, loop, asked, left, ghostVars>>
(* A failing insert ends the backfill; the loop is installed all the same. *)
FillFails(h) ==
    /\ rec[h].pc = "fill" /\ rec[h].todo # {} /\ Spend("fails")
    /\ rec' = [rec EXCEPT ![h].todo = {}]
    /\ dropped' = dropped \cup rec[h].todo
    /\ UNCHANGED <<clock, case, sched, ticks, starts, installed, loop, asked, dark>>
InstallLoop(h, n) ==
    /\ rec[h].pc = "fill" /\ rec[h].todo = {}
    /\ loop[<<h, n>>].pc = "off"
    /\ loop' = [loop EXCEPT ![<<h, n>>] = [Off EXCEPT !.pc = "aim", !.d = rec[h].seen.d]]
    /\ installed' = [installed EXCEPT ![h] = [d |-> rec[h].seen.d, n |-> n]]
    /\ rec' = [rec EXCEPT ![h] = Resting]
    /\ UNCHANGED <<clock, case, sched, runVars, asked, left, ghostVars>>

(* ---------------------------------------------------------- fire loop *)

Later(d) == {t \in d.ticks : clock < t}
Aim(l) ==
    /\ loop[l].pc = "aim"
    /\ loop' = IF loop[l].stop \/ Later(loop[l].d) = {} THEN [loop EXCEPT ![l] = Off]
               ELSE [loop EXCEPT ![l].pc = "sleep", ![l].next = Min(Later(loop[l].d))]
    /\ UNCHANGED <<clock, case, sched, runVars, rec, installed, asked, left, ghostVars>>
(* The flag is looked at before the deadline.                              *)
StopLoop(l) ==
    /\ loop[l].pc = "sleep" /\ loop[l].stop
    /\ loop' = [loop EXCEPT ![l] = Off]
    /\ UNCHANGED <<clock, case, sched, runVars, rec, installed, asked, left, ghostVars>>
Wake(l) ==
    /\ loop[l].pc = "sleep" /\ ~loop[l].stop /\ loop[l].next <= clock
    /\ loop' = [loop EXCEPT ![l].pc = "fire"]
    /\ UNCHANGED <<clock, case, sched, runVars, rec, installed, asked, left, ghostVars>>
Fire(l) ==
    /\ loop[l].pc = "fire"
    /\ PersistTick(loop[l].next, ~loop[l].d.queue)
    /\ loop' = [loop EXCEPT ![l].pc = "stamp"]
    /\ UNCHANGED <<clock, case, sched, rec, installed, asked, left, ghostVars>>
(* Only logged: the tick is stamped as fired all the same.                 *)
FireFails(l) ==
    /\ loop[l].pc = "fire" /\ Spend("fails")
    /\ loop' = [loop EXCEPT ![l].pc = "stamp"]
    /\ UNCHANGED <<clock, case, sched, ticks, starts, rec, installed, asked, ghostVars>>
(* By name, whatever became of the row; a failing write is ignored.        *)
Stamp(l) ==
    /\ loop[l].pc = "stamp"
    /\ loop' = [loop EXCEPT ![l].pc = "aim"]
    /\ \/ sched' = sched
       \/ sched # NoSched /\ sched' = [sched EXCEPT !.last = loop[l].next]
    /\ UNCHANGED <<clock, case, runVars, rec, installed, asked, left, ghostVars>>

(* -------------------------------------------------------- environment *)

Alive(l) == loop[l].pc # "off" /\ ~loop[l].stop
Watched == (\E l \in FireLoop : Alive(l)) \/ (\E h \in Host : rec[h].pc = "fill")
PassSecond ==
    /\ clock < case.until /\ clock' = clock + 1
    /\ dark' = IF ~Watched /\ sched # NoSched /\ sched.status = "ACTIVE" /\ sched.d.auto
                  /\ sched.last # Never /\ clock + 1 \in sched.d.ticks
               THEN dark \cup {clock + 1} ELSE dark
    /\ UNCHANGED <<case, sched, runVars, hostVars, asked, left, dropped>>
(* An engine dies with its reconciler and loops, perhaps after an insert   *)
(* and before the launch: recovery runs such a tick.                       *)
Die(h) ==
    /\ Spend("crashes")
    /\ rec' = [rec EXCEPT ![h] = Resting]
    /\ installed' = [installed EXCEPT ![h] = NotInstalled]
    /\ loop' = [l \in FireLoop |-> IF l[1] = h THEN Off ELSE loop[l]]
    /\ ticks' \in {ticks} \cup {ticks \cup {loop[l].next} : l \in {k \in FireLoop : k[1] = h /\ loop[k].pc = "fire"}}
    /\ UNCHANGED <<clock, case, sched, starts, asked, ghostVars>>

LoopAction(l) ==
    Aim(l) \/ StopLoop(l) \/ Wake(l) \/ Fire(l) \/ FireFails(l) \/ Stamp(l)
RecAction(h) ==
    Reconcile(h) \/ FillTick(h) \/ FillFails(h) \/ \E n \in {1, 2} : InstallLoop(h, n)
ScheduleNext ==
    \/ \E d \in Cron : CreateSchedule(d) \/ ApplySchedules(d) \/ UpdateSchedule(d)
    \/ \E s \in {"ACTIVE", "PAUSED"} : SetScheduleStatus(s)
    \/ DeleteSchedule
    \/ \E c \in BOOLEAN : BackfillSchedule(0, clock + 1, c)
    \/ BackfillNext
    \/ \E h \in case.hosts : RecAction(h) \/ Die(h)
    \/ \E l \in FireLoop : LoopAction(l)
    \/ PassSecond

(* Engines keep being scheduled; nothing is assumed of the operator, of    *)
(* failures, or of the clock.                                              *)
ScheduleFairness ==
    /\ \A h \in Host : WF_schedVars(RecAction(h))
    /\ WF_schedVars(\E l \in FireLoop : LoopAction(l))
ScheduleSpec == ScheduleInit /\ [][ScheduleNext]_schedVars /\ ScheduleFairness

(* However many engines, loops of a replaced definition and backfills      *)
(* reach the same instant, its workflow is spawned at most once: the       *)
(* insert is the arbiter (launch_scheduled_tick).                          *)
TickOnce == \A t \in Seconds : starts[t] <= 1

(* Ticks are two seconds or more apart.                                    *)
Spaced == \A t, u \in Instants : t < u => t + 1 < u

(* With automatic_backfill, last_fired_at never passes over a tick that    *)
(* came due while no engine ran the schedule, unless the backfill of that  *)
(* tick failed: the next engine to install the schedule creates it first.  *)
(* For schedules whose ticks are two seconds or more apart, and with no    *)
(* compiled-in schedule of the name: its loop runs while the row is        *)
(* paused, and stamps the row.                                             *)
DowntimeBackfilled ==
    sched # NoSched /\ case.macro = NoSched =>
        \A t \in dark \ dropped : t < sched.last => t \in ticks

(* A schedule that stays paused or deleted, with no compiled-in schedule   *)
(* of its name, has in the end no loop left on any engine: again and       *)
(* again it is active or has none.                                         *)
PausedGoesQuiet ==
    []<>(\/ sched # NoSched /\ sched.status = "ACTIVE"
         \/ case.macro # NoSched
         \/ \A l \in FireLoop : loop[l].pc = "off")
=============================================================================
