---------------------------- MODULE PoolShutdown ----------------------------
(***************************************************************************)
(* The threads of the server and how they are told to stop: the workers    *)
(* (consumer) around m_mutex, m_cond and m_queue, the audit thread (audit) *)
(* around m_audit_mutex, m_audit_cond and m_audit_queue, and the main      *)
(* thread, which is the epoll thread until a signal makes it shutdown().   *)
(*                                                                         *)
(* Both monitors are condition variables waited on with a predicate:       *)
(* cond.wait(lock, pred) is  while (!pred()) wait(lock), and wait releases *)
(* the mutex and goes to sleep in one step, after the predicate was read.  *)
(***************************************************************************)
EXTENDS Integers, FiniteSets

CONSTANTS
    Workers,    \* threads of m_pool
    Auditor,    \* the thread of m_audit_engine
    MaxTasks,   \* bound: requests dispatched before the signal
    None

ASSUME ThreadsAssumption == /\ Auditor \notin Workers
                            /\ None \notin Workers \cup {Auditor}
                            /\ IsFiniteSet(Workers) /\ Workers # {}
                            /\ MaxTasks \in Nat

Threads  == Workers \cup {Auditor}
Monitors == {"pool", "audit"}

MonitorOf(t) == IF t = Auditor THEN "audit" ELSE "pool"

VARIABLES
    at,      \* at[t]: where thread t is in its loop
    owner,   \* owner[m]: the thread that holds the mutex of monitor m
    items,   \* items[m]: length of the queue of m
    asked,   \* threads whose stop was requested
    main,    \* where the main thread is
    made     \* requests dispatched so far

vars == <<at, owner, items, asked, main, made>>

Places == {"loop", "lock", "test", "park", "asleep", "woke", "run", "record", "exit"}
Stages == {"serve", "request", "notify", "join",
           "auditRequest", "auditNotify", "auditJoin", "done"}

Goto(t, place) == at' = [at EXCEPT ![t] = place]

Asleep(m) == {t \in Threads : MonitorOf(t) = m /\ at[t] = "asleep"}

(* notify_one and notify_all: the woken threads contend for the mutex.     *)
\* Mutant of NotifyOne: a push that wakes nobody.
NotifyNobody(m) == UNCHANGED at

NotifyOne(m) ==
    IF Asleep(m) = {} THEN UNCHANGED at
    ELSE \E t \in Asleep(m) : Goto(t, "lock")

\* Mutant of NotifyAll: shutdown() notifies one waiter per stop.
NotifyOneOnly(m) ==
    IF Asleep(m) = {} THEN UNCHANGED at
    ELSE \E t \in Asleep(m) : Goto(t, "lock")

NotifyAll(m) == at' = [t \in Threads |-> IF t \in Asleep(m) THEN "lock" ELSE at[t]]

-----------------------------------------------------------------------------
(* consumer() and audit().                                                 *)

LoopTest(t) ==
    /\ at[t] = "loop"
    /\ Goto(t, IF t \in asked THEN "exit" ELSE "lock")
    /\ UNCHANGED <<owner, items, asked, main, made>>

Lock(t) ==
    /\ at[t] = "lock" /\ owner[MonitorOf(t)] = None
    /\ owner' = [owner EXCEPT ![MonitorOf(t)] = t]
    /\ Goto(t, "test")
    /\ UNCHANGED <<items, asked, main, made>>

(* The predicate of wait().                                                *)
Predicate(t) == items[MonitorOf(t)] > 0 \/ t \in asked

\* Mutant of Test: wait() without a predicate to test again.
TestOnce(t) ==
    /\ at[t] = "test"
    /\ Goto(t, "woke")
    /\ UNCHANGED <<owner, items, asked, main, made>>

Test(t) ==
    /\ at[t] = "test"
    /\ Goto(t, IF Predicate(t) THEN "woke" ELSE "park")
    /\ UNCHANGED <<owner, items, asked, main, made>>

Park(t) ==
    /\ at[t] = "park"
    /\ owner' = [owner EXCEPT ![MonitorOf(t)] = None]
    /\ Goto(t, "asleep")
    /\ UNCHANGED <<items, asked, main, made>>

SpuriousWakeup(t) ==
    /\ at[t] = "asleep"
    /\ Goto(t, "lock")
    /\ UNCHANGED <<owner, items, asked, main, made>>

(* A stop requested meanwhile wins over what is queued.                    *)
Leave(t) ==
    /\ at[t] = "woke" /\ t \in asked
    /\ owner' = [owner EXCEPT ![MonitorOf(t)] = None]
    /\ Goto(t, "exit")
    /\ UNCHANGED <<items, asked, main, made>>

Pop(t) ==
    /\ at[t] = "woke" /\ t \notin asked
    /\ items' = [items EXCEPT ![MonitorOf(t)] = @ - 1]
    /\ owner' = [owner EXCEPT ![MonitorOf(t)] = None]
    /\ Goto(t, "run")
    /\ UNCHANGED <<asked, main, made>>

(* A service may leave an audit record; the audit thread writes one.       *)
Run(t) ==
    /\ at[t] = "run"
    /\ \E next \in IF t = Auditor THEN {"loop"} ELSE {"loop", "record"} : Goto(t, next)
    /\ UNCHANGED <<owner, items, asked, main, made>>

\* Mutant of Record: the record is pushed without notify_one.
RecordQuietly(t) ==
    /\ at[t] = "record" /\ owner["audit"] = None
    /\ items' = [items EXCEPT !["audit"] = @ + 1]
    /\ Goto(t, "loop")
    /\ UNCHANGED <<owner, asked, main, made>>

(* save_audit_trail, within m_audit_mutex: push, then notify_one.          *)
Record(t) ==
    /\ at[t] = "record" /\ owner["audit"] = None
    /\ items' = [items EXCEPT !["audit"] = @ + 1]
    /\ at' = [u \in Threads |-> IF u = t THEN "loop"
                                ELSE IF u \in Asleep("audit") THEN "lock" ELSE at[u]]
    /\ UNCHANGED <<owner, asked, main, made>>

-----------------------------------------------------------------------------
(* The main thread.                                                        *)

(* producer(), within m_mutex: push, then notify_one.                      *)
Produce ==
    /\ main = "serve" /\ made < MaxTasks /\ owner["pool"] = None
    /\ made' = made + 1
    /\ items' = [items EXCEPT !["pool"] = @ + 1]
    /\ NotifyOne("pool")
    /\ UNCHANGED <<owner, asked, main>>

StopSignal ==
    /\ main = "serve"
    /\ main' = "request"
    /\ UNCHANGED <<at, owner, items, asked, made>>

(* shutdown(): for each worker request_stop, then notify_all within        *)
(* m_mutex.                                                                *)
RequestStop ==
    /\ main = "request"
    /\ \E w \in Workers \ asked : asked' = asked \cup {w}
    /\ main' = "notify"
    /\ UNCHANGED <<at, owner, items, made>>

NotifyWorkers ==
    /\ main = "notify" /\ owner["pool"] = None
    /\ NotifyAll("pool")
    /\ main' = IF Workers \subseteq asked THEN "join" ELSE "request"
    /\ UNCHANGED <<owner, items, asked, made>>

\* Mutant of JoinWorkers: the audit thread is stopped before the workers end.
JoinNobody ==
    /\ main = "join"
    /\ main' = "auditRequest"
    /\ UNCHANGED <<at, owner, items, asked, made>>

JoinWorkers ==
    /\ main = "join" /\ \A w \in Workers : at[w] = "exit"
    /\ main' = "auditRequest"
    /\ UNCHANGED <<at, owner, items, asked, made>>

RequestAuditStop ==
    /\ main = "auditRequest"
    /\ asked' = asked \cup {Auditor}
    /\ main' = "auditNotify"
    /\ UNCHANGED <<at, owner, items, made>>

(* notify_all without m_audit_mutex: it may come between the predicate of  *)
(* the audit thread and its going to sleep.                                *)
NotifyAudit ==
    /\ main = "auditNotify"
    /\ NotifyAll("audit")
    /\ main' = "auditJoin"
    /\ UNCHANGED <<owner, items, asked, made>>

JoinAudit ==
    /\ main = "auditJoin" /\ at[Auditor] = "exit"
    /\ main' = "done"
    /\ UNCHANGED <<at, owner, items, asked, made>>

-----------------------------------------------------------------------------
Init == /\ at = [t \in Threads |-> "loop"]
        /\ owner = [m \in Monitors |-> None]
        /\ items = [m \in Monitors |-> 0]
        /\ asked = {}
        /\ main = "serve"
        /\ made = 0

Thread(t) == \/ LoopTest(t) \/ Lock(t) \/ Test(t) \/ Park(t) \/ Leave(t)
             \/ Pop(t) \/ Run(t) \/ Record(t)

Main == \/ Produce \/ StopSignal \/ RequestStop \/ NotifyWorkers \/ JoinWorkers
        \/ RequestAuditStop \/ NotifyAudit \/ JoinAudit

Next == Main \/ \E t \in Threads : Thread(t) \/ SpuriousWakeup(t)

Spec == Init /\ [][Next]_vars

(* Threads are scheduled, and a mutex that is released again and again is  *)
(* obtained in the end.  The signal need not come, a sleeping thread need  *)
(* not wake by itself.                                                     *)
Fairness ==
    /\ \A t \in Threads : WF_vars(Thread(t)) /\ SF_vars(Lock(t)) /\ SF_vars(Record(t))
    /\ WF_vars(RequestStop \/ JoinWorkers \/ RequestAuditStop \/ NotifyAudit \/ JoinAudit)
    /\ SF_vars(NotifyWorkers)

FairSpec == Spec /\ Fairness

-----------------------------------------------------------------------------
(* Properties.                                                             *)

(* Every variable has its type; a queue has no negative length.            *)
TypeOK == /\ at \in [Threads -> Places]
          /\ owner \in [Monitors -> Threads \cup {None}]
          /\ items \in [Monitors -> Nat]
          /\ asked \subseteq Threads
          /\ main \in Stages
          /\ made \in Nat

(* front() and pop() of consumer() and audit() are never called on an      *)
(* empty queue, whoever was woken and whoever came first.                  *)
PopsSomething ==
    \A t \in Threads : at[t] = "woke" /\ t \notin asked => items[MonitorOf(t)] > 0

(* While the server runs, a task or an audit record that is queued has a   *)
(* thread awake to take it: no notification of a push is lost.             *)
SomebodyAwake ==
    main = "serve" => \A m \in Monitors : items[m] > 0 =>
        \E t \in Threads : MonitorOf(t) = m /\ at[t] # "asleep"

(* The audit thread is asked to stop only when no worker is left that      *)
(* could still leave a record for it.                                      *)
AuditStopsLast ==
    Auditor \in asked => \A w \in Workers : at[w] = "exit"

(* Every request that is dispatched, and every audit record, is taken,     *)
(* unless the server is stopped first.                                     *)
TasksTaken ==
    \A m \in Monitors : items[m] > 0 ~> items[m] = 0 \/ main # "serve"

(* shutdown() gets past the join of the workers, wherever each of them was *)
(* when it was asked to stop.                                              *)
WorkersJoined == main = "request" ~> main = "auditRequest"

(* start() logs "all resources were released, server stopped" after        *)
(* shutdown() (server.cpp:775-776): shutdown() returns.  False: the        *)
(* notification of the audit thread can be lost, and its join then blocks. *)
ShutdownReturns == main = "request" ~> main = "done"
=============================================================================
