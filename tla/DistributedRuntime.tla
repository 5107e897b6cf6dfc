-------------------------- MODULE DistributedRuntime --------------------------
(***************************************************************************)
(* LocalDistributedRuntime: the task scheduler, the workers it runs tasks   *)
(* on, their resource managers and the fault recovery between them, with    *)
(* the default options (cache, resource management, fault recovery on).     *)
(*                                                                          *)
(* One JavaScript thread: an action is the code between two awaits, except  *)
(* that the loops of scheduleTasks and checkWorkerHeartbeats, whose events  *)
(* are handled inside them, take one action per iteration and let nothing   *)
(* else happen meanwhile (Idle).  The strategies of selectWorker pick some  *)
(* suitable worker.  The order of the queue is abstracted: an iteration may *)
(* take any entry.  Resources are one number, for three alike.              *)
(***************************************************************************)
EXTENDS Integers, FiniteSets, FiniteSetsExt

CONSTANTS
  Tasks, Workers,
  None,         \* no worker
  Cap,          \* what a worker has
  Size,         \* what a task asks for when it is submitted
  MaxRetries,   \* maxRetries of every task
  MaxStops,     \* bound: workers stopped
  Worlds        \* what may happen: sets of "offline", "put", "cancel", "stop"

ASSUME TasksAssumption ==
  /\ None \notin Workers
  /\ Cap \in [Workers -> Nat]
  /\ Size \in [Tasks -> Nat]
  /\ MaxRetries \in Nat /\ MaxStops \in Nat
  /\ Worlds \subseteq SUBSET {"offline", "put", "cancel", "stop"}

VARIABLES
  world,        \* what may happen in this behaviour
  status, at, tries, need,   \* DistributedTask: status, workerId, retryCount, resourceRequirements
  queued,       \* taskQueue: how often it holds each task
  reg,          \* workers: "new", "up" (idle or busy), "offline", "gone" (deleted)
  load, runs,   \* WorkerInfo: currentLoad, runningTasks
  todo,         \* scheduleTasks: entries of its copy of the queue still to be visited
  dying,        \* checkWorkerHeartbeats: tasks of the silent worker still to be failed
  jobs,         \* handlers of task:assigned, by task, worker and the await they are at
  beating,      \* workers whose heartbeat timer is set
  started,      \* WorkerManager.isRunning
  alloc,        \* taskAllocations with the ResourceManager entry
  fails,        \* FaultRecoveryManager: failures recorded per task
  cached        \* keys in the distributed cache: a task with its requirements

tasks == <<status, at, tries, queued>>
fleet == <<reg, load, runs>>
vars == <<world, tasks, need, fleet, todo, dying, jobs, beating, started, alloc, fails, cached>>

Final == {"completed", "failed", "cancelled"}
Awaits == {"lookup", "run", "put", "delay"}
Nobody == [t \in Tasks |-> 0]
NoAlloc == [w |-> None, n |-> 0]

(* scheduler.workers has the worker. *)
Known(w) == reg[w] \in {"up", "offline"}

(* WorkerManager.runningTasks, and what they take: getCurrentLoad *)
Running(w) == {t \in Tasks : jobs[<<t, w, "run">>] > 0}
ActualLoad(w) == MapThenSumSet(LAMBDA t : need[t], Running(w))

(* ResourceManager.getUsedResources *)
Allocated(w) == MapThenSumSet(LAMBDA t : alloc[t].n, {t \in Tasks : alloc[t].w = w})

Init ==
  /\ world \in Worlds
  /\ status = [t \in Tasks |-> "new"]
  /\ at = [t \in Tasks |-> None]
  /\ tries = Nobody /\ fails = Nobody
  /\ need = Size
  /\ queued = Nobody
  /\ reg = [w \in Workers |-> "new"]
  /\ load = [w \in Workers |-> 0]
  /\ runs = [w \in Workers |-> {}]
  /\ todo = Nobody /\ dying = {}
  /\ jobs = [j \in Tasks \X Workers \X Awaits |-> 0]
  /\ beating = {} /\ started = {}
  /\ alloc = [t \in Tasks |-> NoAlloc]
  /\ cached \in {{}, {<<t, Size[t]>> : t \in Tasks}}   \* an empty cache, or one of an earlier run

Idle == todo = Nobody /\ dying = {}
-----------------------------------------------------------------------------
(* The scheduler's operations *)

(* scheduleTasks visits a copy of the queue, if there is a worker to give tasks to. *)
ScheduleNow == todo' = IF \E w \in Workers : reg'[w] = "up" THEN queued' ELSE Nobody

(* selectWorker: the workers with enough left of what the task asks for *)
Suitable(t) == {w \in Workers : reg[w] = "up" /\ Cap[w] - load[w] >= need[t]}

(* releaseWorkerResources, and the worker's status: idle or busy again *)
Release(t) ==
  LET w == at[t] IN
  IF w # None /\ Known(w)
  THEN /\ load' = [load EXCEPT ![w] = IF @ > need[t] THEN @ - need[t] ELSE 0]
       /\ runs' = [runs EXCEPT ![w] = @ \ {t}]
       /\ reg' = [reg EXCEPT ![w] = "up"]
  ELSE UNCHANGED fleet

TaskCompleted(t) ==
  /\ Release(t)
  /\ status' = [status EXCEPT ![t] = "completed"]
  /\ UNCHANGED <<at, tries, queued>>

MayRetry(t) == tries[t] + 1 < MaxRetries

\* Mutant: the retry is recorded and the task is not queued.
TaskFailedForgets(t) ==
  /\ Release(t)
  /\ tries' = [tries EXCEPT ![t] = @ + 1]
  /\ status' = [status EXCEPT ![t] = IF MayRetry(t) THEN "pending" ELSE "failed"]
  /\ at' = [at EXCEPT ![t] = IF MayRetry(t) THEN None ELSE @]
  /\ UNCHANGED queued

TaskFailed(t) ==
  /\ Release(t)
  /\ tries' = [tries EXCEPT ![t] = @ + 1]
  /\ IF MayRetry(t)
     THEN /\ status' = [status EXCEPT ![t] = "pending"]
          /\ at' = [at EXCEPT ![t] = None]
          /\ queued' = [queued EXCEPT ![t] = @ + 1]
     ELSE /\ status' = [status EXCEPT ![t] = "failed"]
          /\ UNCHANGED <<at, queued>>

(* unregisterWorker queues what the worker was given, without counting a retry. *)
UnregisterWorker(w) ==
  IF Known(w)
  THEN /\ status' = [t \in Tasks |-> IF t \in runs[w] THEN "pending" ELSE status[t]]
       /\ at' = [t \in Tasks |-> IF t \in runs[w] THEN None ELSE at[t]]
       /\ queued' = [t \in Tasks |-> IF t \in runs[w] THEN queued[t] + 1 ELSE queued[t]]
       /\ reg' = [reg EXCEPT ![w] = "gone"]
       /\ load' = [load EXCEPT ![w] = 0]
       /\ runs' = [runs EXCEPT ![w] = {}]
       /\ UNCHANGED tries
  ELSE UNCHANGED <<tasks, fleet>>

Submit(t) ==
  /\ Idle
  /\ status[t] = "new"
  /\ status' = [status EXCEPT ![t] = "pending"]
  /\ queued' = [queued EXCEPT ![t] = @ + 1]
  /\ UNCHANGED <<world, at, tries, need, fleet, dying, jobs, beating, started, alloc, fails, cached>>
  /\ ScheduleNow

(* addWorker: an id is registered once, whatever became of it. *)
AddWorker(w) ==
  /\ Idle
  /\ reg[w] = "new"
  /\ reg' = [reg EXCEPT ![w] = "up"]
  /\ beating' = beating \cup {w} /\ started' = started \cup {w}
  /\ UNCHANGED <<world, tasks, need, load, runs, dying, jobs, alloc, fails, cached>>
  /\ ScheduleNow

(* The scheduling interval; a round that can give nothing away changes nothing. *)
Tick ==
  /\ Idle
  /\ \E t \in Tasks : queued[t] > 0 /\ Suitable(t) # {}
  /\ UNCHANGED <<world, tasks, need, fleet, dying, jobs, beating, started, alloc, fails, cached>>
  /\ ScheduleNow

\* Mutant: the entry stays in the queue.
AssignKeepsEntry(t, w) ==
  /\ todo[t] > 0
  /\ w \in Suitable(t)
  /\ status' = [status EXCEPT ![t] = "assigned"]
  /\ at' = [at EXCEPT ![t] = w]
  /\ runs' = [runs EXCEPT ![w] = @ \cup {t}]
  /\ load' = [load EXCEPT ![w] = @ + need[t]]
  /\ jobs' = [jobs EXCEPT ![<<t, w, "lookup">>] = @ + 1]
  /\ todo' = [todo EXCEPT ![t] = @ - 1]
  /\ UNCHANGED <<world, tries, need, queued, reg, dying, beating, started, alloc, fails, cached>>

(* assignTask; its event starts a handler, which first awaits the cache. *)
AssignTask(t, w) ==
  /\ todo[t] > 0
  /\ w \in Suitable(t)
  /\ status' = [status EXCEPT ![t] = "assigned"]
  /\ at' = [at EXCEPT ![t] = w]
  /\ runs' = [runs EXCEPT ![w] = @ \cup {t}]
  /\ load' = [load EXCEPT ![w] = @ + need[t]]
  /\ queued' = [queued EXCEPT ![t] = 0]
  /\ jobs' = [jobs EXCEPT ![<<t, w, "lookup">>] = @ + 1]
  /\ todo' = [todo EXCEPT ![t] = @ - 1]
  /\ UNCHANGED <<world, tries, need, reg, dying, beating, started, alloc, fails, cached>>

SkipTask(t) ==
  /\ todo[t] > 0
  /\ Suitable(t) = {}
  /\ todo' = [todo EXCEPT ![t] = @ - 1]
  /\ UNCHANGED <<world, tasks, need, fleet, dying, jobs, beating, started, alloc, fails, cached>>

Heartbeat(w) ==
  /\ Idle
  /\ w \in beating /\ Known(w)
  /\ load' = [load EXCEPT ![w] = ActualLoad(w)]
  /\ reg' = [reg EXCEPT ![w] = "up"]
  /\ UNCHANGED <<world, tasks, need, runs, todo, dying, jobs, beating, started, alloc, fails, cached>>

CancelTask(t) ==
  /\ Idle
  /\ "cancel" \in world
  /\ status[t] # "new"
  /\ Release(t)
  /\ status' = [status EXCEPT ![t] = "cancelled"]
  /\ queued' = [queued EXCEPT ![t] = 0]
  /\ UNCHANGED <<world, at, tries, need, todo, dying, jobs, beating, started, alloc, fails, cached>>
-----------------------------------------------------------------------------
(* Failures *)

(* releaseWorkerResources of the runtime, with its ResourceManager *)
FreedOf(w) == [t \in Tasks |-> IF alloc[t].w = w THEN NoAlloc ELSE alloc[t]]

Degraded(n) == IF n \div 2 > 1 THEN n \div 2 ELSE 1

Move(t, w, from, to) ==
  jobs' = IF to \in Awaits
          THEN [jobs EXCEPT ![<<t, w, from>>] = @ - 1, ![<<t, w, to>>] = @ + 1]
          ELSE [jobs EXCEPT ![<<t, w, from>>] = @ - 1]

(* handleTaskFailure up to its delay, by a handler that is at `from', blaming
   the worker `blamed': selectRecoveryStrategy, recoverTask, quarantineWorker.  *)
HandleTaskFailure(t, w, from, blamed, type) ==
  /\ fails' = [fails EXCEPT ![t] = @ + 1]
  /\ IF fails[t] >= MaxRetries
     THEN /\ TaskFailed(t)
          /\ Move(t, w, from, "end")
          /\ alloc' = [alloc EXCEPT ![t] = NoAlloc]
          /\ UNCHANGED need
          /\ ScheduleNow
     ELSE /\ Move(t, w, from, "delay")
          /\ need' = IF type = "exhausted" THEN [need EXCEPT ![t] = Degraded(@)] ELSE need
          /\ IF type = "offline" /\ blamed # None
             THEN /\ UnregisterWorker(blamed)
                  /\ alloc' = [FreedOf(blamed) EXCEPT ![t] = NoAlloc]
             ELSE /\ alloc' = [alloc EXCEPT ![t] = NoAlloc]
                  /\ UNCHANGED <<tasks, fleet>>
          /\ UNCHANGED todo

(* After the delay the failure reaches the scheduler. *)
FailAfterDelay(t, w) ==
  /\ Idle
  /\ jobs[<<t, w, "delay">>] > 0
  /\ TaskFailed(t)
  /\ Move(t, w, "delay", "end")
  /\ UNCHANGED <<world, need, dying, beating, started, alloc, fails, cached>>
  /\ ScheduleNow
-----------------------------------------------------------------------------
(* A handler of task:assigned *)

LookupHit(t, w) ==
  /\ Idle
  /\ jobs[<<t, w, "lookup">>] > 0
  /\ <<t, need[t]>> \in cached
  /\ TaskCompleted(t)
  /\ Move(t, w, "lookup", "end")
  /\ UNCHANGED <<world, need, todo, dying, beating, started, alloc, fails, cached>>

(* allocateTaskResources: what the task has already is kept. *)
CanAllocate(t, w) == alloc[t] # NoAlloc \/ need[t] <= Cap[w] - Allocated(w)
HasEnough(t, w) == ActualLoad(w) + need[t] <= Cap[w]

(* The lookup misses: resources are allocated and the worker starts the task. *)
ExecuteTask(t, w) ==
  /\ Idle
  /\ jobs[<<t, w, "lookup">>] > 0
  /\ <<t, need[t]>> \notin cached
  /\ CanAllocate(t, w) /\ t \notin Running(w) /\ HasEnough(t, w)
  /\ status' = [status EXCEPT ![t] = "running"]
  /\ alloc' = IF alloc[t] # NoAlloc THEN alloc
              ELSE [alloc EXCEPT ![t] = [w |-> w, n |-> need[t]]]
  /\ Move(t, w, "lookup", "run")
  /\ UNCHANGED <<world, at, tries, queued, need, fleet, todo, dying, beating, started, fails, cached>>

(* ... or one of the two refuses, and the handler's catch takes over. *)
ExecuteRefused(t, w) ==
  /\ Idle
  /\ jobs[<<t, w, "lookup">>] > 0
  /\ <<t, need[t]>> \notin cached
  /\ ~(CanAllocate(t, w) /\ t \notin Running(w) /\ HasEnough(t, w))
  /\ HandleTaskFailure(t, w, "lookup", w,
        IF CanAllocate(t, w) /\ t \in Running(w) THEN "error" ELSE "exhausted")
  /\ UNCHANGED <<world, dying, beating, started, cached>>

(* The executor returns; its result is put into the cache first. *)
Finish(t, w) ==
  /\ Idle
  /\ jobs[<<t, w, "run">>] > 0
  /\ Move(t, w, "run", "put")
  /\ UNCHANGED <<world, tasks, need, fleet, todo, dying, beating, started, alloc, fails, cached>>

(* The executor throws or times out, or its error speaks of a worker that is
   offline: reportTaskFailed blames the worker the task is assigned to. *)
ExecutorFails(t, w) ==
  /\ Idle
  /\ jobs[<<t, w, "run">>] > 0
  /\ \E type \in {"error"} \cup (world \cap {"offline"}) :
       HandleTaskFailure(t, w, "run", at[t], type)
  /\ UNCHANGED <<world, dying, beating, started, cached>>

\* Mutant: the allocation is not released.
ReportKeepsAlloc(t, w) ==
  /\ Idle
  /\ jobs[<<t, w, "put">>] > 0
  /\ cached' = cached \cup {<<t, need[t]>>}
  /\ TaskCompleted(t)
  /\ Move(t, w, "put", "end")
  /\ UNCHANGED <<world, need, dying, beating, started, alloc, fails>>
  /\ ScheduleNow

ReportCompleted(t, w) ==
  /\ Idle
  /\ jobs[<<t, w, "put">>] > 0
  /\ cached' = cached \cup {<<t, need[t]>>}
  /\ alloc' = [alloc EXCEPT ![t] = NoAlloc]
  /\ TaskCompleted(t)
  /\ Move(t, w, "put", "end")
  /\ UNCHANGED <<world, need, dying, beating, started, fails>>
  /\ ScheduleNow

(* The cache cannot be written: executeTask reports the task failed. *)
PutFails(t, w) ==
  /\ Idle
  /\ "put" \in world
  /\ jobs[<<t, w, "put">>] > 0
  /\ HandleTaskFailure(t, w, "put", at[t], "error")
  /\ UNCHANGED <<world, dying, beating, started, cached>>
-----------------------------------------------------------------------------
(* A worker stops: its heartbeat first, then it waits up to a minute for its
   tasks and unregisters.  The scheduler notices the silence after half of it. *)
StopWorker(w) ==
  /\ Idle
  /\ "stop" \in world
  /\ w \in beating
  /\ Cardinality({v \in Workers : reg[v] # "new"} \ beating) < MaxStops
  /\ beating' = beating \ {w}
  /\ UNCHANGED <<world, tasks, need, fleet, todo, dying, jobs, started, alloc, fails, cached>>

StoppedWorker(w) ==
  /\ Idle
  /\ w \in started \ beating
  /\ started' = started \ {w}
  /\ UnregisterWorker(w)
  /\ alloc' = FreedOf(w)
  /\ UNCHANGED <<world, need, todo, dying, jobs, beating, fails, cached>>

(* checkWorkerHeartbeats: the worker goes offline and its tasks are failed ... *)
WorkerSilent(w) ==
  /\ Idle
  /\ reg[w] = "up" /\ w \notin beating
  /\ reg' = [reg EXCEPT ![w] = "offline"]
  /\ dying' = runs[w]
  /\ UNCHANGED <<world, tasks, need, load, runs, todo, jobs, beating, started, alloc, fails, cached>>

(* ... one after the other, with the scheduling their retries trigger. *)
FailNext(t) ==
  /\ todo = Nobody
  /\ t \in dying
  /\ dying' = dying \ {t}
  /\ TaskFailed(t)
  /\ UNCHANGED <<world, need, jobs, beating, started, alloc, fails, cached>>
  /\ IF MayRetry(t) THEN ScheduleNow ELSE UNCHANGED todo
-----------------------------------------------------------------------------
Handler(t, w) ==
  \/ AssignTask(t, w)
  \/ LookupHit(t, w) \/ ExecuteTask(t, w) \/ ExecuteRefused(t, w)
  \/ Finish(t, w) \/ ExecutorFails(t, w)
  \/ ReportCompleted(t, w) \/ PutFails(t, w)
  \/ FailAfterDelay(t, w)

(* What timers and promises bring about by themselves *)
Step ==
  \/ Tick
  \/ \E t \in Tasks : SkipTask(t) \/ FailNext(t)
  \/ \E t \in Tasks, w \in Workers : Handler(t, w)
  \/ \E w \in Workers : Heartbeat(w)

Next ==
  \/ Step
  \/ \E t \in Tasks : Submit(t) \/ CancelTask(t)
  \/ \E w \in Workers : AddWorker(w) \/ StopWorker(w) \/ StoppedWorker(w) \/ WorkerSilent(w)

Spec == Init /\ [][Next]_vars

(* Timers fire and promises are resumed (an executor is raced against a timeout);
   nobody has to submit, cancel or stop anything. *)
FairSpec == Spec /\ WF_vars(Step)
-----------------------------------------------------------------------------
(* The tables have their types (DistributedTask, WorkerInfo); loads,
   which a heartbeat replaces by a sum, are left out. *)
TypeOK ==
  /\ world \in Worlds
  /\ status \in [Tasks -> {"new", "pending", "assigned", "running"} \cup Final]
  /\ at \in [Tasks -> Workers \cup {None}]
  /\ tries \in [Tasks -> Nat] /\ fails \in [Tasks -> Nat]
  /\ need \in [Tasks -> Nat]
  /\ queued \in [Tasks -> Nat] /\ todo \in [Tasks -> Nat]
  /\ reg \in [Workers -> {"new", "up", "offline", "gone"}]
  /\ runs \in [Workers -> SUBSET Tasks]
  /\ dying \subseteq Tasks
  /\ jobs \in [Tasks \X Workers \X Awaits -> Nat]
  /\ beating \subseteq Workers /\ started \subseteq Workers
  /\ alloc \in [Tasks -> [w : Workers \cup {None}, n : Nat]]
  /\ cached \subseteq Tasks \X Nat

(* Whatever fails, is cancelled, goes offline or unregisters, and however often
   a task is queued and run: a task that waits for a worker is in the queue, so
   no task is lost between the operations of the scheduler. *)
PendingIsQueued == \A t \in Tasks : status[t] = "pending" => queued[t] > 0

(* Resources are held only for a task some handler still runs: completions,
   failures, refusals, quarantines and a second run of the same task leave
   nothing behind in the resource managers. *)
NoLeak ==
  \A t \in Tasks : alloc[t].w # None =>
     \E w \in Workers : jobs[<<t, w, "run">>] + jobs[<<t, w, "put">>] > 0

(* A completed task has its result in the cache, under some of the requirements
   it was given: completion is told only after the cache was written or hit. *)
CompletedIsCached ==
  \A t \in Tasks : status[t] = "completed" => \E c \in cached : c[1] = t

\* No worker is quarantined, cancelled or stopped: executors and the cache may fail.
Steady == world \subseteq {"put"}

OnlyJob(t, w, await) ==
  \A v \in Workers, a \in Awaits : jobs[<<t, v, a>>] = IF v = w /\ a = await THEN 1 ELSE 0
NoJob(t) == \A v \in Workers, a \in Awaits : jobs[<<t, v, a>>] = 0

(* In a steady world a task is in one place: once in the queue, or with one
   worker, where one handler works for it, or done for good; it is not tried
   more often than allowed, and the scheduler's two tables agree about it. *)
InOnePlace(t) ==
  /\ \A w \in Workers : t \in runs[w] <=> at[t] = w /\ status[t] \in {"assigned", "running"}
  /\ \/ /\ status[t] \in {"new", "pending"}
        /\ queued[t] = IF status[t] = "new" THEN 0 ELSE 1
        /\ at[t] = None
        /\ NoJob(t)
     \/ /\ status[t] \in {"assigned", "running"}
        /\ queued[t] = 0
        /\ at[t] \in Workers
        /\ \E await \in Awaits : OnlyJob(t, at[t], await)
     \/ /\ status[t] \in {"completed", "failed"}
        /\ queued[t] = 0
        /\ NoJob(t)
OnePlace == Steady => \A t \in Tasks : InOnePlace(t)

(* Retries are counted exactly: a task fails for good when it has been tried as
   often as allowed, and never after that. *)
RetriesBounded ==
  Steady => \A t \in Tasks :
     /\ tries[t] <= MaxRetries \/ MaxRetries = 0
     /\ status[t] \notin Final => tries[t] < MaxRetries \/ tries[t] = 0

(* A worker is never asked to run a task it is running (worker-manager.ts: the
   local run is released first so that a retry does not meet the old task). *)
NeverTwice ==
  \A t \in Tasks, w \in Workers : jobs[<<t, w, "lookup">>] > 0 => t \notin Running(w)

(* In a steady world with a worker that can hold every task, all that was
   submitted is completed or failed in the end. *)
TasksEnd ==
  (Steady /\ \E w \in Workers : reg[w] = "up" /\ \A t \in Tasks : need[t] <= Cap[w])
     ~> \A t \in Tasks : status[t] \in Final \cup {"new"}
=============================================================================
