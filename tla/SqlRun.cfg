\* A thread that uses one database more than it may connect to.
CONSTANTS
    Threads = {t1}
    Names = {A, B, C}
    Addresses = {h1, h2}
    MaxConns = 2
    MaxRetries = 1
    None = None
SPECIFICATION FairSpec
CHECK_DEADLOCK FALSE
INVARIANTS TypeOK NoStatementLeak RunsAsReported WrongDatabaseOnlyAfterFailedReset
PROPERTIES CallsEnd
