---------------------------- MODULE TaskPoolProofs ----------------------------
(***************************************************************************)
(* Proofs about TaskPool, for any number of launchers and runners: one     *)
(* pool is constructed, a task is in one place at a time, and the pool     *)
(* implements the abstract WorkQueue.                                      *)
(***************************************************************************)
EXTENDS TaskPoolQueue, FiniteSetTheorems, TLAPS

InInit == {"recheck", "construct", "publish"}

(* The creation of the pool: under pool_init_mutex it is looked for again, *)
(* constructed and published, and nobody goes on without it.               *)
Creation ==
    /\ \A l \in Launchers : initOwner = l <=> at[l] \in InInit
    /\ \A l \in Launchers : at[l] = "construct" => pools = 0
    /\ \A l \in Launchers : at[l] = "publish" => ~pool /\ pools = 1
    /\ \A l \in Launchers : at[l] \in {"enqueue", "notify"} => pool
    /\ pools \in {0, 1} /\ (pool => pools = 1)
    /\ pools = 1 => pool \/ \E l \in Launchers : at[l] = "publish"
    /\ \A r \in Runners : run[r] = "absent" <=> pools = 0
    /\ tasks # <<>> => pools = 1

(* Runners hold a task while they work, and take one when there is one.    *)
Runs ==
    /\ \A r \in Runners : working[r] # None <=> run[r] = "work"
    /\ \A r \in Runners : run[r] = "woke" => stop \/ tasks # <<>>

Begun == launched - Len(tasks)

(* The queue holds the tasks launched last, in their order; those before   *)
(* them are with one runner each, or finished.                             *)
Counted ==
    /\ Begun \in Nat
    /\ \A i \in 1 .. Len(tasks) : tasks[i] = Begun + i
    /\ \A r \in Held : working[r] \in (1 .. Begun) \ finished
    /\ \A r, q \in Held : working[r] = working[q] => r = q
    /\ finished \subseteq 1 .. Begun
    /\ \A n \in 1 .. Begun : n \in finished \/ \E r \in Held : working[r] = n

Inv == TypeOK /\ Creation /\ Runs /\ Counted

-----------------------------------------------------------------------------
LEMMA InitInv == Init => Inv
  <1> SUFFICES ASSUME Init PROVE Inv
    OBVIOUS
  <1> USE TaskPoolAssumption
  <1>1. TypeOK
    <2>1. tasks \in Seq(Nat) /\ finished \subseteq Nat
      BY DEF Init
    <2> QED
      BY <2>1 DEF Init, TypeOK, Steps, Places, Stages, Members
  <1>2. Creation
    BY DEF Init, Creation, InInit
  <1>3. Runs
    BY DEF Init, Runs
  <1>4. launched = 0 /\ Len(tasks) = 0 /\ finished = {}
    BY DEF Init
  <1>5. Begun = 0
    BY <1>4, SMT DEF Begun
  <1>6. Held = {}
    BY DEF Init, Held
  <1>7. Counted
    BY <1>4, <1>5, <1>6 DEF Counted
  <1> QED
    BY <1>1, <1>2, <1>3, <1>7 DEF Inv

(* What only depends on the queue and the runners.                         *)
LEMMA QueueUnchanged ==
    ASSUME Inv, UNCHANGED <<launched, tasks, working, finished>>
    PROVE  /\ Counted'
           /\ Begun' = Begun /\ Held' = Held
  BY DEF Inv, Counted, Begun, Held

-----------------------------------------------------------------------------
(* The launchers.                                                          *)

LEMMA LauncherInv ==
    ASSUME Inv, NEW l \in Launchers,
           Launch(l) \/ Check(l) \/ LockInit(l) \/ Recheck(l) \/ Publish(l)
    PROVE  Inv' /\ UNCHANGED <<launched, tasks, working, finished>>
  <1> USE TaskPoolAssumption DEF Inv
  <1>1. /\ UNCHANGED <<launched, run, owner, tasks, working, finished, main, stop, alive, pools>>
        /\ \A k \in Launchers : k # l => at'[k] = at[k]
    BY DEF Launch, Check, LockInit, Recheck, Publish, Step, queue, exit, TypeOK
  <1>2. TypeOK'
    <2>1. at' \in [Launchers -> Steps] /\ initOwner' \in Launchers \cup {None} /\ pool' \in BOOLEAN
      BY DEF Launch, Check, LockInit, Recheck, Publish, Step, TypeOK, Steps
    <2> QED
      BY <1>1, <2>1 DEF TypeOK
  <1>3. Creation'
    <2>1. CASE Launch(l) \/ Check(l)
      <3>1. /\ UNCHANGED <<initOwner, pool>>
            /\ at[l] \in {"idle", "check"} /\ at'[l] \in {"check", "lock", "enqueue"}
            /\ at'[l] = "enqueue" => pool
        BY <2>1 DEF Launch, Check, Step, TypeOK
      <3> QED
        BY <1>1, <3>1 DEF Creation, InInit
    <2>2. CASE LockInit(l)
      <3>1. /\ UNCHANGED pool /\ initOwner = None /\ initOwner' = l
            /\ at[l] = "lock" /\ at'[l] = "recheck"
        BY <2>2 DEF LockInit, Step, TypeOK
      <3> QED
        BY <1>1, <3>1 DEF Creation, InInit
    <2>3. CASE Recheck(l)
      <3>1. /\ UNCHANGED pool /\ at[l] = "recheck" /\ initOwner = l
            /\ \/ pool /\ at'[l] = "enqueue" /\ initOwner' = None
               \/ ~pool /\ at'[l] = "construct" /\ initOwner' = l
        BY <2>3 DEF Recheck, Step, TypeOK, Creation, InInit
      <3>2. ~pool => pools = 0
        BY <3>1 DEF Creation, InInit
      <3> QED
        BY <1>1, <3>1, <3>2 DEF Creation, InInit
    <2>4. CASE Publish(l)
      <3>1. /\ pool' /\ initOwner' = None /\ initOwner = l /\ pools = 1
            /\ at[l] = "publish" /\ at'[l] = "enqueue"
        BY <2>4 DEF Publish, Step, TypeOK, Creation, InInit
      <3> QED
        BY <1>1, <3>1 DEF Creation, InInit
    <2> QED
      BY <2>1, <2>2, <2>3, <2>4
  <1>4. Runs'
    BY <1>1 DEF Runs
  <1> QED
    BY <1>1, <1>2, <1>3, <1>4, QueueUnchanged

LEMMA ConstructInv ==
    ASSUME Inv, NEW l \in Launchers, Construct(l)
    PROVE  Inv' /\ UNCHANGED <<launched, tasks, working, finished>>
  <1> USE TaskPoolAssumption DEF Inv
  <1>1. /\ UNCHANGED <<initOwner, pool, launched, owner, tasks, working, finished, main, stop, alive>>
        /\ at[l] = "construct" /\ at' = [at EXCEPT ![l] = "publish"]
        /\ pools' = pools + 1 /\ run' = [r \in Runners |-> "loop"]
    BY DEF Construct, Step, queue, exit
  <1>2. pools = 0 /\ initOwner = l /\ \A r \in Runners : run[r] = "absent"
    BY <1>1 DEF Creation, InInit
  <1>3. TypeOK'
    <2>1. at' \in [Launchers -> Steps] /\ run' \in [Runners -> Places] /\ pools' \in Nat
      BY <1>1 DEF TypeOK, Steps, Places
    <2>2. \A r \in Runners : owner # r
      BY <1>2 DEF TypeOK
    <2> QED
      BY <1>1, <2>1, <2>2 DEF TypeOK
  <1>4. Creation'
    <2>1. at'[l] = "publish" /\ \A k \in Launchers : k # l => at'[k] = at[k] /\ at[k] \notin InInit
      BY <1>1, <1>2 DEF TypeOK, Creation
    <2>2. ~pool /\ pools' = 1
      BY <1>1, <1>2 DEF Creation
    <2> QED
      BY <1>1, <1>2, <2>1, <2>2 DEF Creation, InInit
  <1>5. Runs'
    BY <1>1, <1>2 DEF Runs
  <1> QED
    BY <1>1, <1>3, <1>4, <1>5, QueueUnchanged

LEMMA NotifyInv ==
    ASSUME Inv, NEW l \in Launchers, Notify(l)
    PROVE  Inv' /\ UNCHANGED <<launched, tasks, working, finished>>
  <1> USE TaskPoolAssumption DEF Inv
  <1>1. /\ UNCHANGED <<initOwner, pools, pool, launched, owner, tasks, working, finished, main, stop, alive>>
        /\ at[l] = "notify" /\ at' = [at EXCEPT ![l] = "idle"]
    BY DEF Notify, Step, queue, exit
  <1>2. /\ run' \in [Runners -> Places]
        /\ \A r \in Runners : run'[r] = run[r] \/ (run[r] = "asleep" /\ run'[r] = "lock")
    BY DEF Notify, Asleep, TypeOK, Places
  <1>3. TypeOK'
    BY <1>1, <1>2 DEF TypeOK, Steps
  <1>4. Creation'
    BY <1>1, <1>2 DEF Creation, InInit, TypeOK
  <1>5. Runs'
    BY <1>1, <1>2 DEF Runs
  <1> QED
    BY <1>1, <1>3, <1>4, <1>5, QueueUnchanged

(* A task is queued after all those launched before it.                    *)
LEMMA EnqueueInv ==
    ASSUME Inv, NEW l \in Launchers, Enqueue(l)
    PROVE  Inv' /\ Promise!Submit
  <1> USE TaskPoolAssumption DEF Inv
  <1>1. /\ UNCHANGED <<initOwner, pools, pool, run, owner, working, finished, main, stop, alive>>
        /\ at[l] = "enqueue" /\ at' = [at EXCEPT ![l] = "notify"]
        /\ launched' = launched + 1 /\ tasks' = Append(tasks, launched + 1)
    BY DEF Enqueue, Step, exit
  <1>2. /\ tasks \in Seq(Nat) /\ launched \in Nat /\ Len(tasks) \in Nat
        /\ tasks' \in Seq(Nat) /\ Len(tasks') = Len(tasks) + 1 /\ tasks' # <<>>
        /\ tasks'[Len(tasks) + 1] = launched + 1
        /\ \A i \in 1 .. Len(tasks) : tasks'[i] = tasks[i]
    BY <1>1 DEF TypeOK
  <1>3. Begun' = Begun /\ Held' = Held /\ Begun + Len(tasks) = launched
    BY <1>1, <1>2 DEF Begun, Held
  <1>4. TypeOK'
    BY <1>1, <1>2 DEF TypeOK, Steps
  <1>5. Creation'
    <2>1. pool /\ pools = 1
      BY <1>1 DEF Creation
    <2> QED
      BY <1>1, <2>1 DEF Creation, InInit, TypeOK
  <1>6. Runs'
    BY <1>1, <1>2 DEF Runs
  <1>7. Counted'
    <2>1. ASSUME NEW i \in 1 .. Len(tasks') PROVE tasks'[i] = Begun + i
      <3>1. CASE i \in 1 .. Len(tasks)
        BY <3>1, <1>2 DEF Counted
      <3>2. CASE i = Len(tasks) + 1
        <4>1. tasks'[i] = launched + 1 /\ launched = Begun + Len(tasks)
          BY <3>2, <1>2, <1>3
        <4>2. Begun \in Nat
          BY DEF Counted
        <4> QED
          BY <3>2, <4>1, <4>2, <1>2
      <3> QED
        BY <3>1, <3>2, <1>2
    <2> QED
      BY <1>1, <1>3, <2>1 DEF Counted
  <1>8. Promise!Submit
    BY <1>1, <1>2, <1>3 DEF Promise!Submit, Begun, Held
  <1> QED
    BY <1>4, <1>5, <1>6, <1>7, <1>8

-----------------------------------------------------------------------------
(* The runners.                                                            *)

LEMMA RunnerInv ==
    ASSUME Inv, NEW r \in Runners,
           \/ LoopTest(r) \/ Lock(r) \/ Test(r) \/ Park(r)
           \/ SpuriousWakeup(r) \/ Leave(r) \/ TakeFreed(r)
    PROVE  Inv' /\ UNCHANGED <<launched, tasks, working, finished>>
  <1> USE TaskPoolAssumption DEF Inv
  <1>1. UNCHANGED <<at, initOwner, pools, pool, launched, tasks, working, finished, main, stop, alive>>
    BY DEF LoopTest, Lock, Test, Park, SpuriousWakeup, Leave, TakeFreed, launch, queue, exit
  <1>2. /\ run' \in [Runners -> Places]
        /\ \A q \in Runners : q # r => run'[q] = run[q]
        /\ run[r] \notin {"absent", "work"} /\ run'[r] \notin {"absent", "work"}
        /\ run'[r] = "woke" => stop \/ tasks # <<>>
    BY SMTT(30) DEF LoopTest, Lock, Test, Park, SpuriousWakeup, Leave, TakeFreed, Goto, TypeOK, Places
  <1>3. /\ owner' \in Runners \cup {None}
        /\ \A q \in Runners : owner' = q <=> run'[q] \in {"test", "park", "woke", "undefined"}
    <2>1. CASE LoopTest(r) \/ Test(r) \/ SpuriousWakeup(r) \/ TakeFreed(r)
      <3>1. UNCHANGED owner
        BY <2>1 DEF LoopTest, Test, SpuriousWakeup, TakeFreed, queue
      <3>2. run[r] \in {"test", "park", "woke", "undefined"}
              <=> run'[r] \in {"test", "park", "woke", "undefined"}
        BY <2>1 DEF LoopTest, Test, SpuriousWakeup, TakeFreed, Goto, TypeOK
      <3> QED
        BY <3>1, <3>2, <1>2 DEF TypeOK
    <2>2. CASE Lock(r)
      <3>1. owner = None /\ owner' = r /\ run'[r] = "test"
        BY <2>2 DEF Lock, Goto, TypeOK
      <3> QED
        BY <3>1, <1>2 DEF TypeOK
    <2>3. CASE Park(r) \/ Leave(r)
      <3>1. owner' = None /\ owner = r /\ run'[r] \in {"asleep", "exit"}
        BY <2>3 DEF Park, Leave, Goto, TypeOK
      <3> QED
        BY <3>1, <1>2 DEF TypeOK
    <2> QED
      BY <2>1, <2>2, <2>3
  <1>4. TypeOK'
    BY <1>1, <1>2, <1>3 DEF TypeOK
  <1>5. Creation'
    BY <1>1, <1>2 DEF Creation, TypeOK
  <1>6. Runs'
    BY <1>1, <1>2 DEF Runs
  <1> QED
    BY <1>1, <1>4, <1>5, <1>6, QueueUnchanged

(* No more tasks are running than there are runners that hold one.         *)
LEMMA RunningFits ==
    ASSUME NEW r \in Runners, r \notin Held
    PROVE  Cardinality({working[q] : q \in Held}) < Cardinality(Runners)
  <1> DEFINE T == {working[q] : q \in Held}
             f == [q \in Held |-> working[q]]
  <1>1. IsFiniteSet(Runners) /\ Held \in SUBSET (Runners \ {r})
    BY TaskPoolAssumption DEF Held
  <1>2. /\ IsFiniteSet(Runners \ {r})
        /\ Cardinality(Runners \ {r}) = Cardinality(Runners) - 1
        /\ Cardinality(Runners) \in Nat
    BY <1>1, FS_RemoveElement, FS_CardinalityType
  <1>3. IsFiniteSet(Held) /\ Cardinality(Held) <= Cardinality(Runners \ {r})
    BY <1>1, <1>2, FS_Subset
  <1>4. f \in Surjection(Held, T)
    BY DEF Surjection
  <1>5. IsFiniteSet(T) /\ Cardinality(T) <= Cardinality(Held)
    BY <1>3, <1>4, FS_Surjection
  <1>6. Cardinality(T) \in Nat /\ Cardinality(Held) \in Nat
    BY <1>3, <1>5, FS_CardinalityType
  <1> QED
    BY <1>2, <1>3, <1>5, <1>6

(* The runner takes the oldest task that has not begun.                    *)
LEMMA TakeInv ==
    ASSUME Inv, NEW r \in Runners, Take(r)
    PROVE  Inv' /\ Promise!Begin
  <1> USE TaskPoolAssumption DEF Inv
  <1>1. /\ UNCHANGED <<at, initOwner, pools, pool, launched, finished, main, stop, alive>>
        /\ run[r] = "woke" /\ run' = [run EXCEPT ![r] = "work"]
        /\ owner' = None
        /\ working' = [working EXCEPT ![r] = Head(tasks)] /\ tasks' = Tail(tasks)
        /\ ~(stop /\ tasks = <<>>)
    BY DEF Take, Goto, launch, exit
  <1>2. /\ tasks \in Seq(Nat) /\ tasks # <<>> /\ launched \in Nat
        /\ tasks' \in Seq(Nat) /\ Len(tasks') = Len(tasks) - 1 /\ Len(tasks) \in Nat
        /\ \A i \in 1 .. Len(tasks') : tasks'[i] = tasks[i + 1]
        /\ Head(tasks) = tasks[1] /\ Len(tasks) >= 1
    BY <1>1 DEF TypeOK, Runs
  <1>3. /\ Begun' = Begun + 1 /\ Begun \in Nat /\ Begun < launched
        /\ Head(tasks) = Begun + 1
    BY <1>1, <1>2 DEF Begun, Counted
  <1>4. r \notin Held /\ owner = r
    BY <1>1 DEF Held, Runs, TypeOK
  <1>5. /\ working' \in [Runners -> Nat \cup {None}]
        /\ working'[r] = Begun + 1 /\ \A q \in Runners : q # r => working'[q] = working[q]
    BY <1>1, <1>3 DEF TypeOK
  <1>6. Held' = Held \cup {r}
    BY <1>3, <1>5 DEF Held
  <1>7. TypeOK'
    <2>1. run' \in [Runners -> Places] /\ run'[r] = "work" /\ \A q \in Runners : q # r => run'[q] = run[q]
      BY <1>1 DEF TypeOK, Places
    <2>2. \A q \in Runners : ~(run'[q] \in {"test", "park", "woke", "undefined"})
      BY <1>4, <2>1 DEF TypeOK
    <2> QED
      BY <1>1, <1>2, <1>5, <2>1, <2>2 DEF TypeOK
  <1>8. Creation'
    BY <1>1, <1>2 DEF Creation, TypeOK
  <1>9. Runs'
    <2>1. \A q \in Runners : q # r => run[q] # "woke"
      BY <1>4 DEF TypeOK
    <2> QED
      BY <1>1, <1>3, <1>5, <2>1 DEF Runs, TypeOK
  <1>10. Counted'
    <2>1. \A i \in 1 .. Len(tasks') : tasks'[i] = Begun' + i
      BY <1>2, <1>3 DEF Counted
    <2>2. \A q \in Held' : working'[q] \in (1 .. Begun') \ finished'
      BY <1>1, <1>3, <1>5, <1>6 DEF Counted, Held
    <2>3. \A p, q \in Held' : working'[p] = working'[q] => p = q
      BY <1>3, <1>5, <1>6 DEF Counted, Held
    <2>4. finished' \subseteq 1 .. Begun'
      BY <1>1, <1>3 DEF Counted
    <2>5. ASSUME NEW n \in 1 .. Begun' PROVE n \in finished' \/ \E q \in Held' : working'[q] = n
      <3>1. CASE n = Begun + 1
        BY <3>1, <1>5, <1>6
      <3>2. CASE n # Begun + 1
        <4>1. n \in 1 .. Begun
          BY <3>2, <1>3
        <4>2. CASE n \in finished
          BY <4>2, <1>1
        <4>3. CASE n \notin finished
          <5>1. PICK q \in Held : working[q] = n
            BY <4>1, <4>3 DEF Counted
          <5>2. q \in Held' /\ working'[q] = n
            BY <5>1, <1>4, <1>5, <1>6 DEF Held
          <5> QED
            BY <5>2
        <4> QED
          BY <4>2, <4>3
      <3> QED
        BY <3>1, <3>2
    <2> QED
      BY <1>3, <2>1, <2>2, <2>3, <2>4, <2>5 DEF Counted
  <1>11. Promise!Begin
    <2>1. {working'[q] : q \in Held'} = {working[q] : q \in Held} \cup {Begun + 1}
      BY <1>4, <1>5, <1>6 DEF Held
    <2>2. Cardinality({working[q] : q \in Held}) < Cardinality(Runners)
      BY <1>4, RunningFits
    <2> QED
      <3>1. launched - Len(tasks) = Begun /\ (launched - Len(tasks))' = Begun + 1
        BY <1>3 DEF Begun
      <3> QED
        BY <1>1, <1>3, <3>1, <2>1, <2>2 DEF Promise!Begin, Promise!Cardinality, Cardinality
  <1> QED
    BY <1>7, <1>8, <1>9, <1>10, <1>11

LEMMA WorkInv ==
    ASSUME Inv, NEW r \in Runners, Work(r)
    PROVE  Inv' /\ Promise!Finish
  <1> USE TaskPoolAssumption DEF Inv
  <1>1. /\ UNCHANGED <<at, initOwner, pools, pool, launched, owner, tasks, main, stop, alive>>
        /\ run[r] = "work" /\ run' = [run EXCEPT ![r] = "loop"]
        /\ working' = [working EXCEPT ![r] = None]
        /\ finished' = finished \cup {working[r]}
    BY DEF Work, Goto, launch, exit
  <1>2. r \in Held /\ working[r] \in 1 .. Begun /\ Begun \in Nat
    BY <1>1 DEF Runs, Held, Counted
  <1>3. /\ Begun' = Begun
        /\ working'[r] = None /\ \A q \in Runners : q # r => working'[q] = working[q]
        /\ Held' = Held \ {r}
    BY <1>1 DEF Begun, Held, TypeOK
  <1>4. TypeOK'
    <2>1. /\ run' \in [Runners -> Places] /\ working' \in [Runners -> Nat \cup {None}]
          /\ finished' \subseteq Nat
      <3>1. working[r] \in Nat
        BY <1>2
      <3> QED
        BY <1>1, <3>1 DEF TypeOK, Places
    <2>2. \A q \in Runners : run'[q] = run[q] \/ (q = r /\ run'[q] = "loop" /\ run[q] = "work")
      BY <1>1 DEF TypeOK
    <2> QED
      BY <1>1, <2>1, <2>2 DEF TypeOK
  <1>5. Creation'
    BY <1>1 DEF Creation, TypeOK
  <1>6. Runs'
    BY <1>1, <1>3 DEF Runs, TypeOK
  <1>7. Counted'
    <2>1. \A q \in Held' : working'[q] = working[q] /\ q \in Held /\ working[q] # working[r]
      BY <1>2, <1>3 DEF Counted, Held
    <2>2. \A n \in 1 .. Begun : n \in finished' \/ \E q \in Held' : working'[q] = n
      BY <1>1, <1>3 DEF Counted, Held
    <2>3. /\ \A q \in Held' : working'[q] \in (1 .. Begun) \ finished'
          /\ \A p, q \in Held' : working'[p] = working'[q] => p = q
          /\ finished' \subseteq 1 .. Begun
      <3>1. \A q \in Held' : working'[q] \in (1 .. Begun) \ finished'
        BY <1>1, <2>1 DEF Counted
      <3>2. \A p, q \in Held' : working'[p] = working'[q] => p = q
        BY <2>1 DEF Counted
      <3>3. finished' \subseteq 1 .. Begun
        BY <1>1, <1>2 DEF Counted
      <3> QED
        BY <3>1, <3>2, <3>3
    <2> QED
      BY <1>1, <1>2, <1>3, <2>2, <2>3 DEF Counted
  <1>8. Promise!Finish
    <2>1. {working'[q] : q \in Held'} = {working[q] : q \in Held} \ {working[r]}
      BY <1>2, <1>3 DEF Counted, Held
    <2> QED
      BY <1>1, <1>2, <1>3, <2>1 DEF Promise!Finish, Begun
  <1> QED
    BY <1>4, <1>5, <1>6, <1>7, <1>8

-----------------------------------------------------------------------------
(* The exit of the process.                                                *)
LEMMA MainInv ==
    ASSUME Inv, Main
    PROVE  Inv' /\ UNCHANGED <<launched, tasks, working, finished>>
  <1> USE TaskPoolAssumption DEF Inv
  <1>1. /\ UNCHANGED <<at, initOwner, pools, pool, launched, owner, tasks, working, finished>>
        /\ run' \in [Runners -> Places]
        /\ \A r \in Runners : run'[r] = run[r] \/ (run[r] = "asleep" /\ run'[r] = "lock")
        /\ stop => stop'
    BY DEF Main, MainExit, RequestStop, NotifyAll, DestroyCondition, DestroyQueue, JoinRunners,
           launch, queue, Asleep, TypeOK, Places
  <1>2. main' \in Stages /\ stop' \in BOOLEAN /\ alive' \subseteq Members
    BY DEF Main, MainExit, RequestStop, NotifyAll, DestroyCondition, DestroyQueue, JoinRunners,
           Advance, TypeOK, Stages, Members
  <1>3. TypeOK'
    BY <1>1, <1>2 DEF TypeOK
  <1>4. Creation' /\ Runs'
    BY <1>1 DEF Creation, Runs
  <1> QED
    BY <1>1, <1>3, <1>4, QueueUnchanged

-----------------------------------------------------------------------------
LEMMA NextInv ==
    ASSUME Inv, [Next]_vars
    PROVE  Inv' /\ [Promise!WorkNext]_(Promise!workVars)
  <1>1. CASE Inv' /\ UNCHANGED <<launched, tasks, working, finished>>
    BY <1>1, QueueUnchanged DEF Promise!workVars, Begun, Held
  <1>2. ASSUME NEW l \in Launchers, Launch(l) \/ Launching(l)
        PROVE  Inv' /\ [Promise!WorkNext]_(Promise!workVars)
    <2>1. CASE Enqueue(l)
      BY <2>1, EnqueueInv DEF Promise!WorkNext
    <2>2. CASE ~Enqueue(l)
      BY <1>1, <1>2, <2>2, LauncherInv, ConstructInv, NotifyInv DEF Launching
    <2> QED
      BY <2>1, <2>2
  <1>3. ASSUME NEW r \in Runners, Runner(r) \/ SpuriousWakeup(r)
        PROVE  Inv' /\ [Promise!WorkNext]_(Promise!workVars)
    <2>1. CASE Take(r)
      BY <2>1, TakeInv DEF Promise!WorkNext
    <2>2. CASE Work(r)
      BY <2>2, WorkInv DEF Promise!WorkNext
    <2>3. CASE ~Take(r) /\ ~Work(r)
      BY <1>1, <1>3, <2>3, RunnerInv DEF Runner
    <2> QED
      BY <2>1, <2>2, <2>3
  <1>4. CASE Main
    BY <1>1, <1>4, MainInv
  <1>5. CASE UNCHANGED vars
    <2>1. UNCHANGED <<launched, tasks, working, finished>>
      BY <1>5 DEF vars, launch, queue
    <2>2. Inv'
      BY <1>5, QueueUnchanged, <2>1
         DEF Inv, TypeOK, Creation, Runs, vars, launch, queue, exit
    <2> QED
      BY <1>1, <2>1, <2>2
  <1> QED
    BY <1>2, <1>3, <1>4, <1>5 DEF Next

LEMMA Invariance == Spec => []Inv
  <1>1. Inv /\ [Next]_vars => Inv'
    BY NextInv
  <1> QED
    BY <1>1, InitInv, PTL DEF Spec

(* Every variable keeps its type, and the queue's mutex its holder.        *)
THEOREM TaskTypeOK == Spec => []TypeOK
  <1>1. Inv => TypeOK
    BY DEF Inv
  <1> QED
    BY <1>1, Invariance, PTL

(* However many threads launch their first task at once, one pool is       *)
(* constructed, and tasks are only put into the queue of that one.         *)
THEOREM TaskOnePool == Spec => []OnePool
  <1>1. Inv => OnePool
    BY DEF Inv, Creation, OnePool
  <1> QED
    BY <1>1, Invariance, PTL

(* A task is queued, held by one runner, or finished, and only one of      *)
(* these.                                                                  *)
THEOREM TaskInOnePlace == Spec => []TaskOnce
  <1>1. Inv => TaskOnce
    <2> SUFFICES ASSUME Inv PROVE TaskOnce
      OBVIOUS
    <2> USE DEF Inv
    <2>1. /\ tasks \in Seq(Nat) /\ Len(tasks) \in Nat /\ Begun \in Nat
          /\ launched = Begun + Len(tasks)
      BY DEF TypeOK, Counted, Begun
    <2>2. ToSet(tasks) = Begun + 1 .. launched
      <3>1. ToSet(tasks) = {tasks[i] : i \in 1 .. Len(tasks)}
        BY <2>1 DEF ToSet
      <3>2. \A n \in Begun + 1 .. launched : n - Begun \in 1 .. Len(tasks) /\ tasks[n - Begun] = n
        BY <2>1 DEF Counted
      <3> QED
        BY <2>1, <3>1, <3>2 DEF Counted
    <2>3. IsInjective(tasks)
      <3>1. \A i, j \in 1 .. Len(tasks) : tasks[i] = tasks[j] => i = j
        BY <2>1 DEF Counted
      <3> QED
        BY <2>1, <3>1 DEF IsInjective
    <2>4. 1 .. launched = ToSet(tasks) \cup {working[r] : r \in Held} \cup finished
      <3>1. finished \subseteq 1 .. Begun /\ {working[r] : r \in Held} \subseteq 1 .. Begun
        BY DEF Counted
      <3>2. 1 .. Begun \subseteq {working[r] : r \in Held} \cup finished
        BY DEF Counted
      <3>3. 1 .. launched = (Begun + 1 .. launched) \cup (1 .. Begun)
        BY <2>1
      <3> QED
        BY <2>2, <3>1, <3>2, <3>3
    <2>5. /\ \A r \in Held : working[r] \notin ToSet(tasks) \cup finished
          /\ ToSet(tasks) \cap finished = {}
      BY <2>1, <2>2 DEF Counted
    <2> QED
      BY <2>3, <2>4, <2>5 DEF Counted, TaskOnce, Held
  <1> QED
    BY <1>1, Invariance, PTL

(* A task in the queue has a runner that is not asleep, or a launcher that *)
(* is about to notify: a runner goes to sleep on an empty queue only, and  *)
(* holds the mutex from looking at it to sleeping.                         *)
Awake ==
    /\ \A r \in Runners : run[r] = "park" => tasks = <<>>
    /\ tasks # <<>> => \/ \E r \in Runners : run[r] # "asleep"
                      \/ \E l \in Launchers : at[l] = "notify"

LEMMA AwakeNext ==
    ASSUME Inv, Awake, [Next]_vars
    PROVE  Awake'
  <1> USE TaskPoolAssumption DEF Inv, Awake
  <1>1. ASSUME NEW l \in Launchers, Launch(l) \/ Launching(l)
        PROVE  Awake'
    <2>1. CASE Enqueue(l)
      <3>1. UNCHANGED run /\ owner = None /\ at'[l] = "notify"
        BY <2>1 DEF Enqueue, Step, TypeOK
      <3>2. \A r \in Runners : run[r] # "park"
        BY <3>1 DEF TypeOK
      <3> QED
        BY <3>1, <3>2
    <2>2. CASE Notify(l)
      <3>1. UNCHANGED tasks
        BY <2>2 DEF Notify, queue
      <3>2. \A r \in Runners : run'[r] = "park" => run[r] = "park"
        BY <2>2 DEF Notify, Asleep, TypeOK
      <3>3. \E r \in Runners : run'[r] # "asleep"
        <4>1. CASE Asleep = {}
          BY <4>1, <2>2 DEF Notify, Asleep
        <4>2. CASE Asleep # {}
          <5>1. PICK r \in Asleep : run' = [run EXCEPT ![r] = "lock"]
            BY <4>2, <2>2 DEF Notify
          <5> QED
            BY <5>1 DEF Asleep, TypeOK
        <4> QED
          BY <4>1, <4>2
      <3> QED
        BY <3>1, <3>2, <3>3
    <2>3. CASE Construct(l)
      <3>1. UNCHANGED tasks /\ \A r \in Runners : run'[r] = "loop"
        BY <2>3 DEF Construct, queue
      <3> QED
        BY <3>1
    <2>4. CASE Launch(l) \/ Check(l) \/ LockInit(l) \/ Recheck(l) \/ Publish(l)
      <3>1. UNCHANGED <<run, tasks>>
        BY <2>4 DEF Launch, Check, LockInit, Recheck, Publish, queue
      <3>2. at[l] # "notify" /\ \A k \in Launchers : k # l => at'[k] = at[k]
        BY <2>4 DEF Launch, Check, LockInit, Recheck, Publish, Step, TypeOK
      <3> QED
        BY <3>1, <3>2
    <2> QED
      BY <1>1, <2>1, <2>2, <2>3, <2>4 DEF Launching
  <1>2. ASSUME NEW r \in Runners, Runner(r) \/ SpuriousWakeup(r)
        PROVE  Awake'
    <2>1. CASE Take(r)
      <3>1. /\ owner = r /\ run'[r] = "work" /\ \A q \in Runners : q # r => run'[q] = run[q]
        BY <2>1 DEF Take, Goto, TypeOK
      <3>2. \A q \in Runners : run'[q] # "park"
        BY <3>1 DEF TypeOK
      <3> QED
        BY <3>1, <3>2
    <2>2. CASE Test(r)
      <3>1. UNCHANGED tasks /\ run'[r] \in {"woke", "park"} /\ (run'[r] = "park" => tasks = <<>>)
            /\ \A q \in Runners : q # r => run'[q] = run[q]
        BY <2>2 DEF Test, Goto, TypeOK, queue
      <3> QED
        BY <3>1
    <2>3. CASE Park(r)
      <3>1. UNCHANGED tasks /\ tasks = <<>> /\ \A q \in Runners : run'[q] = "park" => run[q] = "park"
        BY <2>3 DEF Park, Goto, TypeOK
      <3> QED
        BY <3>1
    <2>4. CASE LoopTest(r) \/ Lock(r) \/ SpuriousWakeup(r) \/ Leave(r) \/ TakeFreed(r) \/ Work(r)
      <3>1. /\ UNCHANGED tasks /\ run'[r] \notin {"park", "asleep"}
            /\ \A q \in Runners : q # r => run'[q] = run[q]
        BY <2>4 DEF LoopTest, Lock, SpuriousWakeup, Leave, TakeFreed, Work, Goto, TypeOK, queue
      <3> QED
        BY <3>1
    <2> QED
      BY <1>2, <2>1, <2>2, <2>3, <2>4 DEF Runner
  <1>3. CASE Main
    <2>1. UNCHANGED <<at, tasks>>
          /\ \A r \in Runners : run'[r] = run[r] \/ (run[r] = "asleep" /\ run'[r] = "lock")
      BY <1>3 DEF Main, MainExit, RequestStop, NotifyAll, DestroyCondition, DestroyQueue,
                  JoinRunners, launch, queue, Asleep, TypeOK
    <2> QED
      BY <2>1
  <1>4. CASE UNCHANGED vars
    BY <1>4 DEF vars, launch, queue
  <1> QED
    BY <1>1, <1>2, <1>3, <1>4 DEF Next

(* While the process runs, a queued task never waits for a notification    *)
(* that was given already.                                                 *)
THEOREM TaskSomebodyComes == Spec => []SomebodyComes
  <1>1. Init => Awake
    BY TaskPoolAssumption DEF Init, Awake
  <1>2. Inv /\ Awake /\ [Next]_vars => Awake'
    BY AwakeNext
  <1>3. Awake => SomebodyComes
    BY DEF Awake, SomebodyComes
  <1> QED
    BY <1>1, <1>2, <1>3, Invariance, PTL DEF Spec

(* The pool implements the abstract queue: its first state and every step  *)
(* of it are the queue's, or leave the queue as it is.                     *)
THEOREM TaskPoolImplements == Spec => ImplementsWorkQueue
  <1>1. Init => Promise!WorkInit
    <2> SUFFICES ASSUME Init PROVE Promise!WorkInit
      OBVIOUS
    <2>1. launched = 0 /\ Len(tasks) = 0 /\ finished = {}
      BY DEF Init
    <2>2. Held = {}
      BY DEF Init, Held
    <2>3. {working[r] : r \in Held} = {}
      BY <2>2
    <2>4. launched - Len(tasks) = 0
      BY <2>1, SMT
    <2> QED
      BY <2>1, <2>3, <2>4 DEF Promise!WorkInit
  <1>2. Inv /\ [Next]_vars => [Promise!WorkNext]_(Promise!workVars)
    BY NextInv
  <1> QED
    BY <1>1, <1>2, Invariance, PTL DEF Spec, ImplementsWorkQueue, Promise!WorkSpec
=============================================================================
