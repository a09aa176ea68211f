------------------------- MODULE PoolShutdownProofs -------------------------
(***************************************************************************)
(* Safety of the worker pool and of shutdown(), for any number of workers  *)
(* and of tasks.  The inductive invariant adds to the properties what      *)
(* makes them hold: a thread between locking and unlocking is the owner of *)
(* its mutex, and the main thread is past the join of the workers when it  *)
(* touches the audit thread.                                               *)
(***************************************************************************)
EXTENDS PoolShutdown, TLAPS

(* Critical sections exclude each other.                                   *)
Inside(t) == at[t] \in {"test", "park", "woke"}

OwnersInside == \A t \in Threads : Inside(t) => owner[MonitorOf(t)] = t

JoinedBefore ==
    /\ main \in {"auditRequest", "auditNotify", "auditJoin", "done"} =>
          \A w \in Workers : at[w] = "exit"
    /\ Auditor \in asked => main \in {"auditNotify", "auditJoin", "done"}

(* A thread that is about to sleep has seen an empty queue, and the queue  *)
(* stays empty as long as the thread owns the mutex.                       *)
ParksOnNothing ==
    /\ \A t \in Threads : at[t] = "park" /\ t \notin asked => items[MonitorOf(t)] = 0
    /\ main = "serve" => asked = {}

IInv == /\ TypeOK /\ OwnersInside /\ PopsSomething /\ JoinedBefore
        /\ ParksOnNothing /\ SomebodyAwake

LEMMA MonitorType == \A t \in Threads : MonitorOf(t) \in Monitors
BY DEF MonitorOf, Monitors

LEMMA MonitorHasThread == \A m \in Monitors : \E t \in Threads : MonitorOf(t) = m
BY ThreadsAssumption DEF MonitorOf, Monitors, Threads

(* Waking up moves a sleeping thread to the mutex and no other thread.     *)
LEMMA WakingUp ==
    ASSUME TypeOK, NEW m \in Monitors, NotifyOne(m) \/ NotifyAll(m)
    PROVE  /\ at' \in [Threads -> Places]
           /\ \A t \in Threads : at'[t] = at[t] \/ (at[t] = "asleep" /\ at'[t] = "lock")
           /\ \E t \in Threads : MonitorOf(t) = m /\ at'[t] # "asleep"
<1>0. PICK u \in Threads : MonitorOf(u) = m
  BY MonitorHasThread
<1>1. CASE NotifyAll(m)
  <2>1. \A t \in Threads : at'[t] = IF t \in Asleep(m) THEN "lock" ELSE at[t]
    BY <1>1 DEF NotifyAll
  <2>2. at'[u] # "asleep"
    BY <1>0, <2>1 DEF Asleep
  <2>3. at' \in [Threads -> Places]
    BY <1>1 DEF NotifyAll, TypeOK, Places
  <2>4. QED
    BY <1>0, <2>1, <2>2, <2>3 DEF Asleep
<1>2. CASE NotifyOne(m)
  <2>1. CASE Asleep(m) = {}
    <3>1. UNCHANGED at /\ at[u] # "asleep"
      BY <1>0, <1>2, <2>1 DEF NotifyOne, Asleep
    <3>2. QED
      BY <1>0, <3>1 DEF TypeOK
  <2>2. CASE Asleep(m) # {}
    <3>1. PICK t \in Asleep(m) : Goto(t, "lock")
      BY <1>2, <2>2 DEF NotifyOne
    <3>2. t \in Threads /\ MonitorOf(t) = m /\ at[t] = "asleep"
      BY DEF Asleep
    <3>3. at' \in [Threads -> Places] /\ at'[t] = "lock"
      BY <3>1, <3>2 DEF Goto, TypeOK, Places
    <3>4. \A v \in Threads : v # t => at'[v] = at[v]
      BY <3>1 DEF Goto, TypeOK
    <3>5. QED
      BY <3>2, <3>3, <3>4
  <2>3. QED
    BY <2>1, <2>2
<1>3. QED
  BY <1>1, <1>2

LEMMA InitHolds == Init => IInv
BY ThreadsAssumption
   DEF Init, IInv, TypeOK, OwnersInside, Inside, PopsSomething, JoinedBefore,
       ParksOnNothing, SomebodyAwake, Threads, Monitors, Places, Stages

LEMMA StepHolds == IInv /\ [Next]_vars => IInv'
<1> SUFFICES ASSUME IInv, [Next]_vars PROVE IInv'
  OBVIOUS
<1> USE MonitorType, ThreadsAssumption
       DEF IInv, TypeOK, OwnersInside, Inside, PopsSomething, JoinedBefore,
           ParksOnNothing, SomebodyAwake
<1>1. ASSUME NEW t \in Threads, LoopTest(t) PROVE IInv'
  BY <1>1 DEF LoopTest, Goto, Threads, Places
<1>2. ASSUME NEW t \in Threads, Lock(t) PROVE IInv'
  BY <1>2 DEF Lock, Goto, Threads, Places
<1>3. ASSUME NEW t \in Threads, Test(t) PROVE IInv'
  BY <1>3 DEF Test, Predicate, Goto, Threads, Places
<1>4. ASSUME NEW t \in Threads, Park(t) PROVE IInv'
  BY <1>4 DEF Park, Goto, Threads, Places
<1>5. ASSUME NEW t \in Threads, Leave(t) PROVE IInv'
  BY <1>5 DEF Leave, Goto, Threads, Places
<1>6. ASSUME NEW t \in Threads, Pop(t) PROVE IInv'
  BY <1>6 DEF Pop, Goto, Threads, Places
<1>7. ASSUME NEW t \in Threads, Run(t) PROVE IInv'
  BY <1>7 DEF Run, Goto, Threads, Places
<1>8. ASSUME NEW t \in Threads, Record(t) PROVE IInv'
  <2>1. /\ items' = [items EXCEPT !["audit"] = @ + 1]
        /\ UNCHANGED <<owner, asked, main, made>>
        /\ at[t] = "record" /\ owner["audit"] = None
    BY <1>8 DEF Record
  <2>2. \A v \in Threads : \/ at'[v] = at[v] /\ v \notin Asleep("audit")
                           \/ at'[v] \in {"loop", "lock"} /\ at[v] \in {"record", "asleep"}
    BY <1>8 DEF Record, Asleep
  <2>3. at' \in [Threads -> Places]
    BY <1>8 DEF Record, Places
  <2>4. TypeOK' /\ OwnersInside' /\ JoinedBefore'
    BY <2>1, <2>2, <2>3 DEF Monitors, Threads
  <2>5. PopsSomething' /\ ParksOnNothing'
    BY <2>1, <2>2, <2>3 DEF Monitors, Threads
  <2>6. \A v \in Threads : at[v] # "asleep" => at'[v] # "asleep"
    BY <2>2
  <2>7. SomebodyAwake'
    <3>1. MonitorOf(Auditor) = "audit" /\ Auditor \in Threads
      BY DEF MonitorOf, Threads
    <3>2. at'[Auditor] # "asleep"
      BY <2>2, <3>1 DEF Asleep
    <3>3. items'["pool"] = items["pool"]
      BY <2>1 DEF Monitors
    <3>4. QED
      BY <2>1, <2>6, <3>1, <3>2, <3>3 DEF Monitors
  <2>8. QED
    BY <2>4, <2>5, <2>7
<1>9. ASSUME NEW t \in Threads, SpuriousWakeup(t) PROVE IInv'
  BY <1>9 DEF SpuriousWakeup, Goto, Threads, Places
<1>10. CASE Produce
  BY <1>10, WakingUp DEF Produce, Monitors, Stages, Threads
<1>11. CASE StopSignal
  BY <1>11 DEF StopSignal, Stages
<1>12. CASE RequestStop
  BY <1>12 DEF RequestStop, Stages, Threads
<1>13. CASE NotifyWorkers
  BY <1>13, WakingUp DEF NotifyWorkers, Monitors, Stages, Threads
<1>14. CASE JoinWorkers
  BY <1>14 DEF JoinWorkers, Stages
<1>15. CASE RequestAuditStop
  BY <1>15 DEF RequestAuditStop, Stages, Threads
<1>16. CASE NotifyAudit
  BY <1>16, WakingUp DEF NotifyAudit, Monitors, Stages, Threads
<1>17. CASE JoinAudit
  BY <1>17 DEF JoinAudit, Stages
<1>18. CASE UNCHANGED vars
  BY <1>18 DEF vars
<1>19. QED
  BY <1>1, <1>2, <1>3, <1>4, <1>5, <1>6, <1>7, <1>8, <1>9, <1>10, <1>11, <1>12,
     <1>13, <1>14, <1>15, <1>16, <1>17, <1>18
     DEF Next, Main, Thread

LEMMA Invariance == Spec => []IInv
BY InitHolds, StepHolds, PTL DEF Spec

(* The threads keep to their types, and a queue is never shorter than      *)
(* empty.                                                                  *)
THEOREM PoolTypeOK == Spec => []TypeOK
BY Invariance, PTL DEF IInv

(* No thread calls front() on an empty queue, whichever of the workers a   *)
(* notification woke and whichever got the mutex first.                    *)
THEOREM PoolPopsSomething == Spec => []PopsSomething
BY Invariance, PTL DEF IInv

(* While the server runs, no task and no audit record waits for a thread   *)
(* that sleeps.                                                            *)
THEOREM PoolSomebodyAwake == Spec => []SomebodyAwake
BY Invariance, PTL DEF IInv

(* When the audit thread is asked to stop, all workers have ended.         *)
THEOREM PoolAuditStopsLast == Spec => []AuditStopsLast
<1>1. IInv => AuditStopsLast
  BY DEF IInv, JoinedBefore, AuditStopsLast
<1>2. QED
  BY Invariance, <1>1, PTL
=============================================================================
