\* The destruction of the pool at the exit of the process.
CONSTANTS
    Launchers = {l1}
    Runners = {r1}
    MaxTasks = 1
    None = None
SPECIFICATION Spec
SYMMETRY Symmetry
CHECK_DEADLOCK FALSE
INVARIANT NoUseAfterDestruction
