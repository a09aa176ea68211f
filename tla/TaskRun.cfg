\* Two threads that send mail, two that run the tasks, and the exit.
CONSTANTS
    Launchers = {l1, l2}
    Runners = {r1, r2}
    MaxTasks = 3
    None = None
SPECIFICATION FairSpec
CHECK_DEADLOCK FALSE
INVARIANTS TypeOK OnePool TaskOnce SomebodyComes
PROPERTIES TasksRun ImplementsWorkQueue
