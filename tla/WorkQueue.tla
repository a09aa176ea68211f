------------------------------ MODULE WorkQueue ------------------------------
(***************************************************************************)
(* What the task pool promises its launchers, however many threads it has: *)
(* tasks are begun in the order in which they were launched, each of them  *)
(* once, no more of them at a time than there are threads, and a task that *)
(* was begun is run to its end.  TaskPool implements this specification.   *)
(***************************************************************************)
EXTENDS Naturals, FiniteSets

CONSTANT Width   \* how many tasks may run at a time

VARIABLES submitted,  \* tasks launched; task n is the n-th
          begun,      \* tasks begun
          running,    \* the tasks that are being run
          done        \* the tasks run to their end

workVars == <<submitted, begun, running, done>>

WorkInit == submitted = 0 /\ begun = 0 /\ running = {} /\ done = {}

Submit == /\ submitted' = submitted + 1
          /\ UNCHANGED <<begun, running, done>>

Begin == /\ begun < submitted /\ Cardinality(running) < Width
         /\ begun' = begun + 1
         /\ running' = running \cup {begun + 1}
         /\ UNCHANGED <<submitted, done>>

Finish == \E n \in running :
            /\ running' = running \ {n}
            /\ done' = done \cup {n}
            /\ UNCHANGED <<submitted, begun>>

WorkNext == Submit \/ Begin \/ Finish

WorkSpec == WorkInit /\ [][WorkNext]_workVars
=============================================================================
