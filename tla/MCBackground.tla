--------------------------- MODULE MCBackground ----------------------------
(* Two services around the two modules, two messages of which one is       *)
(* listened to by both and one by nobody, jobs of every kind, and two cron *)
(* jobs of one name.                                                       *)
EXTENDS Background

CONSTANTS s1, s2, t1, t2, m1, m2, run, tick

MCListens == [s \in Services |-> {t1}]
MCTypeOf == [m \in Messages |-> IF m = m1 THEN t1 ELSE t2]
Job(s, k, m) == [service |-> s, kind |-> k, method |-> m]
Pair(a, b) == [m \in Messages |-> IF m = m1 THEN a ELSE b]
MCSetups ==
    {[order |-> <<Queue, QueueModule, ScheduleModule, s1, s2>>,
      jobs |-> {Job(s1, "cron", run), Job(s2, "timeout", tick)},
      sender |-> Pair(s2, s2), by |-> Pair("booting", "closing")],
     [order |-> <<s1, ScheduleModule, Queue, s2, QueueModule>>,
      jobs |-> {Job(s1, "timeout", tick), Job(s2, "interval", tick)},
      sender |-> Pair(s2, None), by |-> Pair("job", "request")],
     [order |-> <<Queue, s1, ScheduleModule, s2, QueueModule>>,
      jobs |-> {Job(s1, "cron", run), Job(s2, "cron", run)},
      sender |-> Pair(s1, s1), by |-> Pair("booting", "job")]}
MCJobs == UNION {setup.jobs : setup \in MCSetups}
MCRejecting == {<<s2, "booting">>, <<s1, "closing">>}

=============================================================================
