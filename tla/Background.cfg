\* One application with a queue and jobs, closed, crashed and started again.
SPECIFICATION FairSpec
CONSTANTS
    s1 = s1  s2 = s2  t1 = t1  t2 = t2  m1 = m1  m2 = m2
    run = run  tick = tick
    Queue = Queue  QueueModule = QueueModule  ScheduleModule = ScheduleModule
    None = None
    Services = {s1, s2}
    Types = {t1, t2}
    Messages = {m1, m2}
    Listens <- MCListens
    TypeOf <- MCTypeOf
    UsesThis = {}
    Failing = {s2}
    MaxAttempts = 2
    ScheduledJobs <- MCJobs
    Setups <- MCSetups
    Rejecting <- MCRejecting
    MaxLives = 2
INVARIANTS
    DoneWhenHandled
    NeverUnheard
    StoppedBehind
    JobsMeetServices
PROPERTIES
    MessagesSettle
