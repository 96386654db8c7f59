----------------------------- MODULE MCBackends -----------------------------
(* Backends on small argument sets, one per family of operations.          *)
EXTENDS Backends

Row(name, status) == NewStatus(name, "in", status, "e1", "v1", 0)
Plain == Row("w", "PENDING")
OnQueue == [Row("w", "ENQUEUED") EXCEPT !.queue = "q", !.dedup = "d", !.timeout = 5]
Unversioned == [Row("w", "ENQUEUED") EXCEPT !.queue = "q", !.version = "", !.priority = 1,
                                            !.part = "p"]
Delayed == [Row("w", "DELAYED") EXCEPT !.queue = "q", !.delay = 4, !.dedup = "d2"]

Both == [a |-> [Plain EXCEPT !.created = 1],
         b |-> [OnQueue EXCEPT !.created = 2, !.parent = "a"]]
MCStartRows ==
    [rows |-> Both, steps |-> Both, mail |-> Both, move |-> Both, registry |-> <<>>]
MCFormats ==
    [f \in {"rows", "steps", "mail", "registry"} |-> {"DBOS_JSON"}]
    @@ ("move" :> {"DBOS_JSON", "portable_json"})

Take(max, rate, global, version) ==
    [queue |-> "q", part |-> None, max |-> max, rate |-> rate, period |-> 2,
     global |-> global, version |-> version, executor |-> "e2"]
Claim(i, n, max, requeue) ==
    [id |-> i, owner |-> "e1", attempts |-> n, max |-> max, requeue |-> requeue, new |-> "e2"]
RowArgs ==
    [insert |-> {<<"c", OnQueue>>, <<"c", Unversioned>>, <<"c", Delayed>>, <<"b", OnQueue>>},
     set_status |-> {<<"a", "SUCCESS", "out", None>>, <<"b", "ERROR", None, "e">>,
                     <<"b", "ENQUEUED", None, None>>, <<"c", "CANCELLED", None, None>>},
     dequeue |-> {Take(2, None, None, "v1"), Take(2, 1, None, "v1"), Take(2, None, 1, "v2")},
     transition |-> {None},
     cancel |-> {"b"}, cancel_many |-> {<<{"a", "c"}, TRUE>>},
     resume |-> {"a"}, resume_many |-> {{"b", "c"}},
     enqueue |-> {<<"a", "q">>, <<"b", "q2">>},
     claim |-> {Claim("a", 0, 0, FALSE), Claim("a", 0, 1, FALSE), Claim("b", 0, 1, TRUE)},
     delay |-> {<<"c", 0>>},
     attributes |-> {<<"a", {"k"}>>, <<"a", {}>>, <<"z", {"k"}>>},
     delete |-> {<<{"a"}, TRUE>>, <<{"b"}, FALSE>>},
     collect |-> {<<0, None>>, <<None, 1>>, <<2, 2>>, <<0, 0>>},
     fork |-> {[original |-> "a", new |-> "f", start |-> 1, version |-> None, queue |-> "q",
                part |-> None, timeout |-> None]}]

ForkAt(n) == [original |-> "a", new |-> "f", start |-> n, version |-> "v2", queue |-> None,
              part |-> None, timeout |-> 3]
StepArgs ==
    [record |-> {<<"a", 0, "s", "out", None, 1, "e1">>, <<"a", 0, "s", "out", None, 2, "e2">>,
                 <<"a", 1, "s", None, "err", 1, "e2">>, <<"a", 0, "t", "out", None, 1, None>>,
                 <<"b", 0, "s", "out", None, 1, "e2">>},
     child |-> {<<"c", OnQueue, "a", 1, FALSE>>, <<"c", OnQueue, "a", 1, TRUE>>,
                <<"c", Plain, "a", 0, FALSE>>, <<"b", OnQueue, "a", 1, FALSE>>,
                <<"b", Row("x", "PENDING"), "a", 1, FALSE>>},
     record_child |-> {<<"a", 0, "w", "b">>},
     patch |-> {<<"a", 1, "patch">>, <<"b", 0, "patch">>},
     cancel |-> {"a", "b"},
     fork |-> {ForkAt(0), ForkAt(2)},
     delete |-> {<<{"b"}, FALSE>>, <<{"a"}, TRUE>>}]

Msg(key, dest, topic, msg) == [key |-> key, dest |-> dest, topic |-> topic, msg |-> msg]
MailArgs ==
    [notify |-> {Msg(None, "a", "t", "m1"), Msg("k", "a", "t", "m2"), Msg(None, "z", "t", "m1")},
     notify_many |-> {<<Msg("k", "a", "t", "m3"), Msg(None, "b", "t", "m3")>>},
     send |-> {<<"b", 0, "send", <<Msg(None, "a", "u", "m4"), Msg(None, "b", "t", "m4")>>>>,
               <<"a", 0, "send", <<Msg(None, "z", "t", "m5")>>>>},
     recv |-> {<<"a", "t", 0, "recv">>, <<"a", "t", 1, "recv">>, <<"b", "t", 0, "recv">>},
     event |-> {<<"a", "k", "v1">>, <<"a", "k", "v2">>},
     stream |-> {<<"a", "k", "v1">>, <<"a", "k", Closed>>},
     stream_step |-> {<<"b", 0, "write", "k", "v3">>, <<"a", 1, "write", "k", Closed>>}]

MoveArgs ==
    [record |-> {<<"b", 0, "s", "out", None, 1, None>>},
     set_status |-> {<<"a", "SUCCESS", "out", None>>},
     attributes |-> {<<"a", {"k"}>>},
     event |-> {<<"a", "k", "v1">>},
     stream |-> {<<"a", "k", "v1">>},
     export |-> {<<"a", TRUE>>, <<"b", FALSE>>},
     delete |-> {<<{"a"}, TRUE>>, <<{"b"}, FALSE>>},
     import |-> BOOLEAN]

Sched(status, context) ==
    [workflow |-> "w", cron |-> "c1", status |-> status, last |-> None, context |-> context]
Queue(limit, priority) ==
    [global |-> limit, worker |-> None, rate |-> None, period |-> None, priority |-> priority,
     partitioned |-> FALSE, base |-> 1, perIteration |-> 10, maxPoll |-> 60]
RegistryArgs ==
    [create_schedule |-> {<<"s1", Sched("ACTIVE", None)>>, <<"s2", Sched("PAUSED", "ctx")>>},
     update_schedule |-> {<<"s1", ("cron" :> "c2")>>, <<"s1", ("context" :> "ctx")>>},
     apply_schedules |-> {("s1" :> Sched("ACTIVE", "ctx"))},
     schedule_status |-> {<<"s1", "PAUSED">>, <<"s2", "ACTIVE">>},
     fired |-> {"s1"}, delete_schedule |-> {"s1"},
     version |-> {"v1", "v2"}, latest |-> {"v1", "v2"},
     queue |-> {<<"q", Queue(1, FALSE), TRUE>>, <<"q", Queue(2, TRUE), FALSE>>}]

MCArgs == [rows |-> RowArgs, steps |-> StepArgs, mail |-> MailArgs, move |-> MoveArgs,
           registry |-> RegistryArgs]
MCMaxClock == [rows |-> 5, steps |-> 6, mail |-> 6, move |-> 7, registry |-> 4]

AnyRow == [ids |-> {}, names |-> {}, statuses |-> {}, queues |-> {}, versions |-> {},
           executors |-> {}, forked |-> {}, parents |-> {}, since |-> None, until |-> None,
           doneSince |-> None, doneUntil |-> None, startSince |-> None, startUntil |-> None,
           hasParent |-> None, queuesOnly |-> FALSE, desc |-> FALSE, limit |-> None,
           offset |-> 0]
MCFilters == {[AnyRow EXCEPT !.desc = TRUE, !.limit = 2, !.offset = 1],
              [AnyRow EXCEPT !.statuses = Live, !.versions = {"v1"}, !.since = 2],
              [AnyRow EXCEPT !.doneUntil = 4, !.executors = {"e1"}],
              [AnyRow EXCEPT !.hasParent = TRUE, !.queuesOnly = TRUE, !.startSince = 3],
              [AnyRow EXCEPT !.hasParent = FALSE, !.forked = {"a", None}]}
=============================================================================
