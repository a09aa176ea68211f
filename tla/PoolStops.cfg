\* The join of the audit thread.
CONSTANTS
    Workers = {w1}
    Auditor = Auditor
    MaxTasks = 1
    None = None
SPECIFICATION FairSpec
CHECK_DEADLOCK FALSE
PROPERTIES ShutdownReturns
