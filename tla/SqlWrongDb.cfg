\* The database a statement runs on: two threads, two databases.
CONSTANTS
    Threads = {t1, t2}
    Names = {A, B}
    Addresses = {h1, h2, h3, h4}
    MaxConns = 2
    MaxRetries = 1
    None = None
SPECIFICATION Spec
SYMMETRY Symmetry
CHECK_DEADLOCK FALSE
INVARIANT RunsOnItsDatabase
