----------------------------- MODULE MCServices -----------------------------
(* One run for the engine's background services: queue dispatchers, cron   *)
(* schedules, debouncing and the conductor link.  A behaviour explores one *)
(* of them; the others stay as they began.                                 *)
EXTENDS QueueDispatch, Schedules, Debounce, Conductor

CONSTANTS d1, d2, h1, h2, c1, c2, c3
VARIABLE service
serviceVars == <<service, queueVars, schedVars, debVars, condVars>>

(* Queues of two executors: a global limit with a delayed row; a rate      *)
(* limiter; a global limit on executors of two versions; one that lacks a  *)
(* handler.  Of one executor: a worker limit per partition, and a global   *)
(* limit with a rate limiter.                                              *)
Rows == 1 .. 3
MCRank == [r \in Rows |-> r]
MCPart == [r \in Rows |-> IF r = 3 THEN "p2" ELSE "p1"]
All == [d \in {d1, d2} |-> Rows]
OneLacks == [d \in {d1, d2} |-> IF d = d1 THEN {2, 3} ELSE Rows]
Versions == [d \in {d1, d2} |-> IF d = d1 THEN {1} ELSE {2, 3}]
Unlimited ==
    [global |-> NoLimit, worker |-> NoLimit, rate |-> NoLimit, batch |-> 2,
     partitioned |-> FALSE, listens |-> Dispatcher, runs |-> All, handles |-> All,
     enqueued |-> {1, 2}, delayed |-> {}]
Lone == [Unlimited EXCEPT !.listens = {d1}]
MCSettings ==
    {[Unlimited EXCEPT !.global = 1, !.delayed = {2}],
     [Unlimited EXCEPT !.rate = 1],
     [Unlimited EXCEPT !.global = 1, !.enqueued = Rows, !.runs = Versions],
     [Unlimited EXCEPT !.handles = OneLacks, !.delayed = {2}],
     [Lone EXCEPT !.worker = 1, !.partitioned = TRUE, !.enqueued = Rows],
     [Lone EXCEPT !.global = 1, !.rate = 1]}
Racing == {[Unlimited EXCEPT !.global = 1]}

(* Schedules: two engines on one tick and an edit; downtime of one engine; *)
(* a persisted schedule beside a compiled-in one; downtime and an edit.    *)
Every(ts, auto, queue) == [ticks |-> ts, auto |-> auto, queue |-> queue]
MCCron == {Every({2, 4}, TRUE, FALSE), Every({4}, FALSE, TRUE)}
Alone == [hosts |-> {h1}, macro |-> NoSched, row |-> Every({2, 4, 6}, TRUE, FALSE),
          until |-> 6, edits |-> 0, crashes |-> 2, fails |-> 1]
MCCases ==
    {[Alone EXCEPT !.hosts = {h1, h2}, !.row = Every({2}, TRUE, FALSE), !.until = 2,
                   !.edits = 1, !.crashes = 0, !.fails = 0],
     Alone,
     [Alone EXCEPT !.macro = Every({2}, FALSE, FALSE), !.row = NoSched, !.until = 4,
                   !.edits = 2, !.crashes = 0],
     [Alone EXCEPT !.row = Every({2, 4}, TRUE, FALSE), !.until = 4, !.edits = 1, !.crashes = 1,
                   !.fails = 0]}

(* They meet the condition of the backfill.                                *)
ASSUME ServiceConditions == Spaced

Unless(s, choice) == service = s \/ choice
ServiceInit ==
    /\ service \in {"queues", "schedules", "debounce", "conductor"}
    /\ QueueInit /\ Unless("queues", qset.partitioned)
    /\ ScheduleInit /\ Unless("schedules", case = Alone)
    /\ DebounceInit /\ ConductorInit
OfQueues(A) == service = "queues" /\ A /\ UNCHANGED <<service, schedVars, debVars, condVars>>
OfSchedules(A) ==
    service = "schedules" /\ A /\ UNCHANGED <<service, queueVars, debVars, condVars>>
OfDebounce(A) ==
    service = "debounce" /\ A /\ UNCHANGED <<service, queueVars, schedVars, condVars>>
OfConductor(A) ==
    service = "conductor" /\ A /\ UNCHANGED <<service, queueVars, schedVars, debVars>>
ServiceNext ==
    \/ OfQueues(QueueNext) \/ OfSchedules(ScheduleNext) \/ OfDebounce(DebounceNext)
    \/ OfConductor(ConductorNext)

(* QueueFairness, ScheduleFairness and DebounceFairness.  The service      *)
(* explored never changes, so conjuncts of different services are joined.  *)
Finishes == \E d \in Dispatcher, r \in QRow : Finish(d, r) \/ DropGuard(d, r)
ServiceFairness ==
    /\ WF_serviceVars(OfQueues(LoopStep(d1)) \/ OfSchedules(RecAction(h1))
                      \/ OfDebounce(\E k \in Round : CollectorStep(k)))
    /\ WF_serviceVars(OfQueues(LoopStep(d2)) \/ OfSchedules(RecAction(h2)))
    /\ WF_serviceVars(OfQueues(Finishes) \/ OfSchedules(\E l \in FireLoop : LoopAction(l)))
    /\ WF_serviceVars(OfQueues(\E r \in QRow : Elapse(r) \/ Period(r)))
    /\ SF_serviceVars(OfQueues(\E d \in Dispatcher : Poll(d)))
    /\ SF_serviceVars(OfQueues(\E d \in Dispatcher : ListPartitions(d)))
    /\ SF_serviceVars(OfQueues(\E d \in Dispatcher : Claim(d)))
ServiceSpec == ServiceInit /\ [][ServiceNext]_serviceVars /\ ServiceFairness
=============================================================================
