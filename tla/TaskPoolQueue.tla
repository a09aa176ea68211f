---------------------------- MODULE TaskPoolQueue ----------------------------
(* TaskPool implements WorkQueue: what has left m_tasks has been begun, and *)
(* what the runners have taken is being run.                               *)
EXTENDS TaskPool

Held == {r \in Runners : working[r] # None}

Promise == INSTANCE WorkQueue WITH
    Width     <- Cardinality(Runners),
    submitted <- launched,
    begun     <- launched - Len(tasks),
    running   <- {working[r] : r \in Held},
    done      <- finished

(* Each step of a launcher, a runner or the exit of the process submits a  *)
(* task, begins the oldest one, ends one that was begun, or none of these: *)
(* mails are taken up in the order they were sent, whatever the threads    *)
(* and their wake-ups do, also while the pool is destroyed.                *)
ImplementsWorkQueue == Promise!WorkSpec
=============================================================================
