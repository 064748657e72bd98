----------------------------- MODULE Scheduler -----------------------------
(***************************************************************************)
(* ScheduleModule (src/schedule/module.ts): the methods of the injectables *)
(* that are cron jobs, intervals and timeouts, registered by the bootstrap *)
(* hook and cleared by the close hook.  The timers and the cron table are  *)
(* Deno's.  Background runs these actions.                                 *)
(***************************************************************************)
EXTENDS Naturals, Sequences, FiniteSets

CONSTANT ScheduledJobs   \* the decorated methods of the applications considered

ASSUME JobsAssumption ==
    \A j \in ScheduledJobs : j.kind \in {"cron", "interval", "timeout"}

VARIABLES
    jobs,   \* the decorated methods of this one, fixed from the start
    live,   \* the jobs that Deno has
    held    \* those that the module can clear: its sets and its controller

scheduleVars == <<jobs, live, held>>

ScheduleInit == jobs \subseteq ScheduledJobs /\ live = {} /\ held = {}

(* A job in the cron table has the name of its method.                     *)
Clash(some) ==
    {j \in some : j.kind = "cron" /\ \E k \in live \cup (some \ {j}) :
        k.kind = "cron" /\ k.method = j.method}

JobsOf(s) == {j \in jobs : j.service = s}

(* onAppBootstrap, when all names differ.                                  *)
RegisterJobs(injectables) ==
    LET all == UNION {JobsOf(injectables[i]) : i \in DOMAIN injectables} IN
    /\ Clash(all) = {}
    /\ live' = live \cup all
    /\ held' = held \cup all
    /\ UNCHANGED jobs

(* The second job of a name throws: what comes before it is registered.    *)
RegisterSomeJobs(injectables) ==
    LET before(n) == UNION {JobsOf(injectables[i]) : i \in 1 .. n - 1} IN
    \E n \in DOMAIN injectables :
        /\ Clash(before(n)) = {} /\ Clash(before(n + 1)) # {}
        /\ \E some \in SUBSET JobsOf(injectables[n]) :
             /\ Clash(before(n) \cup some) = {}
             /\ live' = live \cup before(n) \cup some
             /\ held' = held \cup before(n) \cup some
    /\ UNCHANGED jobs

(* Mutant: the timeouts are forgotten.                                     *)
ClearIntervals ==
    /\ live' = live \ {j \in held : j.kind # "timeout"}
    /\ UNCHANGED <<jobs, held>>

(* onAppClose: the controller of the cron jobs and both sets.              *)
ClearJobs ==
    /\ live' = live \ held
    /\ UNCHANGED <<jobs, held>>

(* A job comes due; a timeout only once.                                   *)
Due(j) ==
    /\ j \in live
    /\ live' = IF j.kind = "timeout" THEN live \ {j} ELSE live
    /\ UNCHANGED <<jobs, held>>

(* A bootstrap makes a new module, with empty sets.                        *)
NewModule == held' = {} /\ UNCHANGED <<jobs, live>>

ScheduleCrash == live' = {} /\ held' = {} /\ UNCHANGED jobs

-----------------------------------------------------------------------------
ScheduleTypeOK ==
    jobs \subseteq ScheduledJobs /\ live \subseteq jobs /\ held \subseteq jobs

=============================================================================
