\* The worker pool, the audit thread and shutdown.
CONSTANTS
    Workers = {w1, w2}
    Auditor = Auditor
    MaxTasks = 2
    None = None
SPECIFICATION FairSpec
CHECK_DEADLOCK FALSE
INVARIANTS TypeOK PopsSomething SomebodyAwake AuditStopsLast
PROPERTIES TasksTaken WorkersJoined
