------------------------------ MODULE TaskPool ------------------------------
(***************************************************************************)
(* Fire-and-forget tasks (async.hpp, async.cpp), through which send_mail   *)
(* hands its work over: a process-wide pool created by the first launch,   *)
(* whose threads take tasks from one queue, and which the exit of the      *)
(* process destroys.                                                       *)
(*                                                                         *)
(* Launchers are the worker threads of the server; all of them have ended  *)
(* before the process exits (PoolShutdown).  What an object that has been  *)
(* destroyed does to the thread that still uses it is what libstdc++ and   *)
(* glibc make of it.                                                       *)
(***************************************************************************)
EXTENDS Integers, Sequences, FiniteSets, SequencesExt

CONSTANTS
    Launchers,   \* threads that call async_launch
    Runners,     \* m_workers
    MaxTasks,    \* bound: no launch begins once so many tasks are queued
    None

ASSUME TaskPoolAssumption == /\ Launchers \cap Runners = {} /\ Runners # {}
                             /\ IsFiniteSet(Runners)
                             /\ None \notin Launchers \cup Runners \cup Nat
                             /\ MaxTasks \in Nat

VARIABLES
    at,         \* at[l]: where launcher l is in async_launch
    initOwner,  \* the launcher that holds pool_init_mutex
    pools,      \* pools constructed
    pool,       \* global_thread_pool_ptr is set
    launched,   \* tasks launched; task n is the n-th
    run,        \* run[r]: where runner r is in worker_loop
    owner,      \* the runner that holds m_queue_mutex
    tasks,      \* m_tasks
    working,    \* working[r]: the task runner r has taken
    finished,   \* tasks run to their end
    main,       \* where the exit of the process is
    stop,       \* a stop was requested
    alive       \* members of the pool that are not destroyed

launch == <<at, initOwner, pools, pool, launched>>
queue  == <<owner, tasks, working, finished>>
exit   == <<main, stop, alive>>
vars   == <<launch, run, queue, exit>>

Steps   == {"idle", "check", "lock", "recheck", "construct", "publish", "enqueue", "notify"}
Places  == {"absent", "loop", "lock", "test", "park", "asleep", "woke", "work",
            "exit", "undefined"}
Stages  == {"serve", "request", "notify", "condition", "queue", "join", "done"}
Members == {"condition", "queue"}

Asleep == {r \in Runners : run[r] = "asleep"}

-----------------------------------------------------------------------------
(* async_launch and get_thread_pool_instance.                              *)

Step(l, place) == at' = [at EXCEPT ![l] = place]

Launch(l) ==
    /\ at[l] = "idle" /\ main = "serve" /\ launched < MaxTasks
    /\ Step(l, "check")
    /\ UNCHANGED <<initOwner, pools, pool, launched, run, queue, exit>>

(* The first look at the pointer, without the lock.                        *)
Check(l) ==
    /\ at[l] = "check"
    /\ Step(l, IF pool THEN "enqueue" ELSE "lock")
    /\ UNCHANGED <<initOwner, pools, pool, launched, run, queue, exit>>

LockInit(l) ==
    /\ at[l] = "lock" /\ initOwner = None
    /\ initOwner' = l
    /\ Step(l, "recheck")
    /\ UNCHANGED <<pools, pool, launched, run, queue, exit>>

\* Mutant of Recheck: the pointer is not looked at again under the lock.
NoRecheck(l) ==
    /\ at[l] = "recheck"
    /\ Step(l, "construct")
    /\ UNCHANGED <<initOwner, pools, pool, launched, run, queue, exit>>

Recheck(l) ==
    /\ at[l] = "recheck"
    /\ IF pool THEN Step(l, "enqueue") /\ initOwner' = None
               ELSE Step(l, "construct") /\ UNCHANGED initOwner
    /\ UNCHANGED <<pools, pool, launched, run, queue, exit>>

(* The constructor starts the threads before the pointer is set.           *)
Construct(l) ==
    /\ at[l] = "construct"
    /\ pools' = pools + 1
    /\ run' = [r \in Runners |-> "loop"]
    /\ Step(l, "publish")
    /\ UNCHANGED <<initOwner, pool, launched, queue, exit>>

Publish(l) ==
    /\ at[l] = "publish"
    /\ pool' = TRUE /\ initOwner' = None
    /\ Step(l, "enqueue")
    /\ UNCHANGED <<pools, launched, run, queue, exit>>

Enqueue(l) ==
    /\ at[l] = "enqueue" /\ owner = None
    /\ launched' = launched + 1
    /\ tasks' = Append(tasks, launched')
    /\ Step(l, "notify")
    /\ UNCHANGED <<initOwner, pools, pool, run, owner, working, finished, exit>>

\* Mutant of Notify: the task is queued without a notification.
NotifyNobody(l) ==
    /\ at[l] = "notify"
    /\ Step(l, "idle")
    /\ UNCHANGED <<initOwner, pools, pool, launched, run, queue, exit>>

(* notify_one, after the mutex was released.                               *)
Notify(l) ==
    /\ at[l] = "notify"
    /\ IF Asleep = {} THEN UNCHANGED run
       ELSE \E r \in Asleep : run' = [run EXCEPT ![r] = "lock"]
    /\ Step(l, "idle")
    /\ UNCHANGED <<initOwner, pools, pool, launched, queue, exit>>

-----------------------------------------------------------------------------
(* worker_loop.                                                            *)

Goto(r, place) == run' = [run EXCEPT ![r] = place]

(* A stop ends the loop here, whatever is queued.                          *)
LoopTest(r) ==
    /\ run[r] = "loop"
    /\ Goto(r, IF stop THEN "exit" ELSE "lock")
    /\ UNCHANGED <<launch, queue, exit>>

Lock(r) ==
    /\ run[r] = "lock" /\ owner = None
    /\ owner' = r
    /\ Goto(r, "test")
    /\ UNCHANGED <<launch, tasks, working, finished, exit>>

Test(r) ==
    /\ run[r] = "test"
    /\ Goto(r, IF stop \/ tasks # <<>> THEN "woke" ELSE "park")
    /\ UNCHANGED <<launch, queue, exit>>

\* Mutant of Park: the runner sleeps with the mutex.
ParkHolding(r) ==
    /\ run[r] = "park"
    /\ Goto(r, "asleep")
    /\ UNCHANGED <<launch, queue, exit>>

Park(r) ==
    /\ run[r] = "park"
    /\ owner' = None
    /\ Goto(r, "asleep")
    /\ UNCHANGED <<launch, tasks, working, finished, exit>>

SpuriousWakeup(r) ==
    /\ run[r] = "asleep"
    /\ Goto(r, "lock")
    /\ UNCHANGED <<launch, queue, exit>>

Leave(r) ==
    /\ run[r] = "woke" /\ stop /\ tasks = <<>>
    /\ owner' = None
    /\ Goto(r, "exit")
    /\ UNCHANGED <<launch, tasks, working, finished, exit>>

\* Mutant of Take: front() without pop().
TakeLeavesFront(r) ==
    /\ run[r] = "woke" /\ ~(stop /\ tasks = <<>>) /\ "queue" \in alive
    /\ working' = [working EXCEPT ![r] = Head(tasks)]
    /\ owner' = None
    /\ Goto(r, "work")
    /\ UNCHANGED <<launch, tasks, finished, exit>>

\* Mutant of Take: the task launched last is taken.
TakeNewest(r) ==
    /\ run[r] = "woke" /\ ~(stop /\ tasks = <<>>) /\ "queue" \in alive
    /\ working' = [working EXCEPT ![r] = Last(tasks)]
    /\ tasks' = Front(tasks)
    /\ owner' = None
    /\ Goto(r, "work")
    /\ UNCHANGED <<launch, finished, exit>>

Take(r) ==
    /\ run[r] = "woke" /\ ~(stop /\ tasks = <<>>) /\ "queue" \in alive
    /\ working' = [working EXCEPT ![r] = Head(tasks)]
    /\ tasks' = Tail(tasks)
    /\ owner' = None
    /\ Goto(r, "work")
    /\ UNCHANGED <<launch, finished, exit>>

(* The destroyed queue still says it is not empty: its front is freed.     *)
TakeFreed(r) ==
    /\ run[r] = "woke" /\ ~(stop /\ tasks = <<>>) /\ "queue" \notin alive
    /\ Goto(r, "undefined")
    /\ UNCHANGED <<launch, queue, exit>>

(* The task catches everything it throws.                                  *)
Work(r) ==
    /\ run[r] = "work"
    /\ finished' = finished \cup {working[r]}
    /\ working' = [working EXCEPT ![r] = None]
    /\ Goto(r, "loop")
    /\ UNCHANGED <<launch, owner, tasks, exit>>

-----------------------------------------------------------------------------
(* The exit of the process: ~ThreadPool, then its members in the reverse   *)
(* order of their declaration, m_workers, which joins, last.               *)

Advance(from, to) == main = from /\ main' = to

MainExit ==
    /\ Advance("serve", IF pool THEN "request" ELSE "done")
    /\ \A l \in Launchers : at[l] = "idle"
    /\ UNCHANGED <<launch, run, queue, stop, alive>>

RequestStop ==
    /\ Advance("request", "notify")
    /\ stop' = TRUE
    /\ UNCHANGED <<launch, run, queue, alive>>

(* notify_all, without the mutex.                                          *)
NotifyAll ==
    /\ Advance("notify", "condition")
    /\ run' = [r \in Runners |-> IF r \in Asleep THEN "lock" ELSE run[r]]
    /\ UNCHANGED <<launch, queue, stop, alive>>

(* ~condition_variable waits for the threads that sleep on it.             *)
DestroyCondition ==
    /\ Advance("condition", "queue") /\ Asleep = {}
    /\ alive' = alive \ {"condition"}
    /\ UNCHANGED <<launch, run, queue, stop>>

(* ~mutex does nothing, ~queue frees the tasks that are left.              *)
DestroyQueue ==
    /\ Advance("queue", "join")
    /\ alive' = alive \ {"queue"}
    /\ UNCHANGED <<launch, run, queue, stop>>

JoinRunners ==
    /\ Advance("join", "done")
    /\ \A r \in Runners : run[r] = "exit"
    /\ UNCHANGED <<launch, run, queue, stop, alive>>

-----------------------------------------------------------------------------
Init == /\ at = [l \in Launchers |-> "idle"]
        /\ initOwner = None /\ pools = 0 /\ pool = FALSE /\ launched = 0
        /\ run = [r \in Runners |-> "absent"]
        /\ owner = None
        /\ tasks = <<>>
        /\ working = [r \in Runners |-> None]
        /\ finished = {}
        /\ main = "serve" /\ stop = FALSE /\ alive = Members

Launching(l) == \/ Check(l) \/ LockInit(l) \/ Recheck(l) \/ Construct(l)
                \/ Publish(l) \/ Enqueue(l) \/ Notify(l)

Runner(r) == \/ LoopTest(r) \/ Lock(r) \/ Test(r) \/ Park(r) \/ Leave(r)
             \/ Take(r) \/ TakeFreed(r) \/ Work(r)

Main == \/ MainExit \/ RequestStop \/ NotifyAll
        \/ DestroyCondition \/ DestroyQueue \/ JoinRunners

Next == \/ \E l \in Launchers : Launch(l) \/ Launching(l)
        \/ \E r \in Runners : Runner(r) \/ SpuriousWakeup(r)
        \/ Main

Spec == Init /\ [][Next]_vars

(* Threads are scheduled and a mutex released again and again is obtained  *)
(* in the end; nobody has to launch, the process need not exit.            *)
Fairness ==
    /\ \A l \in Launchers : WF_vars(Launching(l)) /\ SF_vars(LockInit(l)) /\ SF_vars(Enqueue(l))
    /\ \A r \in Runners : WF_vars(Runner(r)) /\ SF_vars(Lock(r))

FairSpec == Spec /\ Fairness

-----------------------------------------------------------------------------
(* Properties.                                                             *)

(* Every variable has its type, and m_queue_mutex is held by the runner    *)
(* that looks at the queue, not by one that sleeps or works.               *)
TypeOK == /\ at \in [Launchers -> Steps]
          /\ initOwner \in Launchers \cup {None}
          /\ pools \in Nat /\ pool \in BOOLEAN
          /\ launched \in Nat
          /\ run \in [Runners -> Places]
          /\ owner \in Runners \cup {None}
          /\ tasks \in Seq(Nat)
          /\ working \in [Runners -> Nat \cup {None}]
          /\ finished \subseteq Nat
          /\ main \in Stages /\ stop \in BOOLEAN /\ alive \subseteq Members
          /\ \A r \in Runners :
                owner = r <=> run[r] \in {"test", "park", "woke", "undefined"}

(* The double-checked first launches construct one pool, however they      *)
(* interleave, and no task is put in a queue before there is one.          *)
OnePool == pools <= 1 /\ (tasks # <<>> => pools = 1)

(* A task that was launched is in the queue, with one runner, or finished, *)
(* and in one of these places only: no mail is sent twice, none is lost    *)
(* while the process runs.                                                 *)
TaskOnce ==
    LET Held == {r \in Runners : working[r] # None} IN
    /\ 1 .. launched = ToSet(tasks) \cup {working[r] : r \in Held} \cup finished
    /\ IsInjective(tasks)
    /\ \A r, q \in Held : working[r] = working[q] => r = q
    /\ \A r \in Held : working[r] \notin ToSet(tasks) \cup finished
    /\ ToSet(tasks) \cap finished = {}

(* While the process runs, a queued task has a runner awake or a launcher  *)
(* about to wake one, although enqueue notifies after releasing the mutex. *)
SomebodyComes ==
    main = "serve" /\ tasks # <<>> =>
        \/ \E r \in Runners : run[r] # "asleep"
        \/ \E l \in Launchers : at[l] = "notify"

(* A task that is launched is run, unless the process exits first.         *)
TasksRun == \A n \in 1 .. MaxTasks : launched >= n ~> n \in finished \/ main # "serve"

(* No runner uses the queue once it is destroyed: the destructor of the    *)
(* pool "will now handle the shutdown automatically and safely at the      *)
(* correct time" (async.cpp:26).  False: the queue is destroyed before the *)
(* runners are joined, and one that was just woken takes its front.        *)
NoUseAfterDestruction == \A r \in Runners : run[r] # "undefined"
=============================================================================
