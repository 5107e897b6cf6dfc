----------------------- MODULE DistributedRuntimeProofs -----------------------
(* Safety of DistributedRuntime for every number of tasks and workers, every   *)
(* capacity and every retry bound.                                             *)
EXTENDS DistributedRuntime, TLAPS

USE TasksAssumption

Jobs == Tasks \X Workers \X Awaits
Statuses == {"new", "pending", "assigned", "running"} \cup Final
Regs == {"new", "up", "offline", "gone"}

(* Moving a handler from one await to another changes the counts of its task    *)
(* at its worker and no others.                                                *)
LEMMA MoveCounts ==
  ASSUME jobs \in [Jobs -> Nat], NEW t \in Tasks, NEW w \in Workers,
         NEW from \in Awaits, NEW to \in Awaits \cup {"end"}, from # to,
         jobs[<<t, w, from>>] > 0, Move(t, w, from, to)
  PROVE  /\ jobs' \in [Jobs -> Nat]
         /\ \A j \in Jobs : jobs'[j] = IF j = <<t, w, from>> THEN jobs[j] - 1
                                       ELSE IF j = <<t, w, to>> THEN jobs[j] + 1
                                       ELSE jobs[j]
<1>1. <<t, w, from>> \in Jobs
  BY DEF Jobs
<1>2. CASE to \in Awaits
  <2>1. <<t, w, to>> \in Jobs /\ <<t, w, to>> # <<t, w, from>>
    BY <1>2 DEF Jobs
  <2>2. jobs' = [jobs EXCEPT ![<<t, w, from>>] = @ - 1, ![<<t, w, to>>] = @ + 1]
    BY <1>2 DEF Move
  <2>3. \A j \in Jobs : jobs[j] \in Nat
    OBVIOUS
  <2> QED  BY <1>1, <2>1, <2>2, <2>3
<1>3. CASE to \notin Awaits
  <2>1. jobs' = [jobs EXCEPT ![<<t, w, from>>] = @ - 1]
    BY <1>3 DEF Move
  <2>2. \A j \in Jobs : j # <<t, w, to>>
    BY <1>3 DEF Jobs
  <2> QED  BY <1>1, <2>1, <2>2
<1> QED  BY <1>2, <1>3

(* The tables of the scheduler that operations on one task change               *)
TablesTyped ==
  /\ status \in [Tasks -> Statuses]
  /\ at \in [Tasks -> Workers \cup {None}]
  /\ tries \in [Tasks -> Nat]
  /\ queued \in [Tasks -> Nat]
FleetTyped ==
  /\ reg \in [Workers -> Regs]
  /\ runs \in [Workers -> SUBSET Tasks]

(* A task that fails is pending and queued once more, or failed for good; no    *)
(* other task is touched.                                                      *)
LEMMA FailedTask ==
  ASSUME TablesTyped, NEW t \in Tasks, TaskFailed(t)
  PROVE  /\ TablesTyped'
         /\ \A u \in Tasks \ {t} : /\ status'[u] = status[u] /\ at'[u] = at[u]
                                   /\ tries'[u] = tries[u] /\ queued'[u] = queued[u]
         /\ tries'[t] = tries[t] + 1
         /\ IF MayRetry(t)
            THEN status'[t] = "pending" /\ at'[t] = None /\ queued'[t] = queued[t] + 1
            ELSE status'[t] = "failed" /\ at'[t] = at[t] /\ queued'[t] = queued[t]
<1>1. tries' = [tries EXCEPT ![t] = @ + 1]
  BY DEF TaskFailed
<1>2. CASE MayRetry(t)
  <2>1. /\ status' = [status EXCEPT ![t] = "pending"]
        /\ at' = [at EXCEPT ![t] = None]
        /\ queued' = [queued EXCEPT ![t] = @ + 1]
    BY <1>2 DEF TaskFailed
  <2> QED  BY <1>1, <1>2, <2>1 DEF TablesTyped, Statuses
<1>3. CASE ~MayRetry(t)
  <2>1. /\ status' = [status EXCEPT ![t] = "failed"]
        /\ at' = at /\ queued' = queued
    BY <1>3 DEF TaskFailed
  <2> QED  BY <1>1, <1>3, <2>1 DEF TablesTyped, Statuses, Final
<1> QED  BY <1>2, <1>3

LEMMA CompletedTask ==
  ASSUME TablesTyped, NEW t \in Tasks, TaskCompleted(t)
  PROVE  /\ TablesTyped'
         /\ status'[t] = "completed"
         /\ \A u \in Tasks \ {t} : status'[u] = status[u]
         /\ UNCHANGED <<at, tries, queued>>
<1>1. status' = [status EXCEPT ![t] = "completed"] /\ UNCHANGED <<at, tries, queued>>
  BY DEF TaskCompleted
<1> QED  BY <1>1 DEF TablesTyped, Statuses, Final

(* Releasing what a task holds takes it from the worker it was assigned to.      *)
LEMMA ReleasedFleet ==
  ASSUME TablesTyped, FleetTyped, NEW t \in Tasks, Release(t)
  PROVE  /\ FleetTyped'
         /\ \A w \in Workers : w = at[t] /\ Known(w) => runs'[w] = runs[w] \ {t} /\ reg'[w] = "up"
         /\ \A w \in Workers : ~(w = at[t] /\ Known(w)) => runs'[w] = runs[w] /\ reg'[w] = reg[w]
<1>1. CASE at[t] # None /\ Known(at[t])
  <2>1. /\ runs' = [runs EXCEPT ![at[t]] = @ \ {t}]
        /\ reg' = [reg EXCEPT ![at[t]] = "up"]
    BY <1>1 DEF Release
  <2>2. at[t] \in Workers
    BY <1>1 DEF TablesTyped
  <2> QED  BY <1>1, <2>1, <2>2 DEF FleetTyped, Regs
<1>2. CASE ~(at[t] # None /\ Known(at[t]))
  <2>1. UNCHANGED <<reg, runs>>
    BY <1>2 DEF Release, fleet
  <2>2. \A w \in Workers : ~(w = at[t] /\ Known(w))
    BY <1>2
  <2> QED  BY <2>1, <2>2 DEF FleetTyped
<1> QED  BY <1>1, <1>2

(* Unregistering a worker queues the tasks it was given, and no others.          *)
LEMMA Unregistered ==
  ASSUME TablesTyped, FleetTyped, NEW w \in Workers, UnregisterWorker(w)
  PROVE  /\ TablesTyped' /\ FleetTyped'
         /\ \A u \in Tasks : \/ status'[u] = status[u] /\ queued'[u] = queued[u]
                             \/ status'[u] = "pending" /\ queued'[u] > 0
<1>1. CASE Known(w)
  <2>1. /\ status' = [t \in Tasks |-> IF t \in runs[w] THEN "pending" ELSE status[t]]
        /\ at' = [t \in Tasks |-> IF t \in runs[w] THEN None ELSE at[t]]
        /\ queued' = [t \in Tasks |-> IF t \in runs[w] THEN queued[t] + 1 ELSE queued[t]]
        /\ tries' = tries
        /\ reg' = [reg EXCEPT ![w] = "gone"]
        /\ runs' = [runs EXCEPT ![w] = {}]
    BY <1>1 DEF UnregisterWorker
  <2>2. TablesTyped'
    BY <2>1 DEF TablesTyped, Statuses
  <2>3. FleetTyped'
    BY <2>1 DEF FleetTyped, Regs
  <2>4. ASSUME NEW u \in Tasks
        PROVE  \/ status'[u] = status[u] /\ queued'[u] = queued[u]
               \/ status'[u] = "pending" /\ queued'[u] > 0
    BY <2>1 DEF TablesTyped
  <2> QED  BY <2>2, <2>3, <2>4
<1>2. CASE ~Known(w)
  <2>1. UNCHANGED <<status, at, tries, queued, reg, runs>>
    BY <1>2 DEF UnregisterWorker, tasks, fleet
  <2> QED  BY <2>1 DEF TablesTyped, FleetTyped
<1> QED  BY <1>1, <1>2

LEMMA Scheduled ==
  ASSUME queued' \in [Tasks -> Nat], ScheduleNow
  PROVE  /\ todo' \in [Tasks -> Nat]
         /\ \A t \in Tasks : todo'[t] <= queued'[t]
BY DEF ScheduleNow, Nobody

Allocs == [w : Workers \cup {None}, n : Nat]

LEMMA Parts ==
  ASSUME TypeOK
  PROVE  TablesTyped /\ FleetTyped /\ jobs \in [Jobs -> Nat] /\ alloc \in [Tasks -> Allocs]
BY DEF TypeOK, TablesTyped, FleetTyped, Jobs, Statuses, Regs, Allocs

LEMMA Whole ==
  ASSUME TablesTyped, FleetTyped, jobs \in [Jobs -> Nat], alloc \in [Tasks -> Allocs],
         world \in Worlds, fails \in [Tasks -> Nat], need \in [Tasks -> Nat], todo \in [Tasks -> Nat],
         dying \subseteq Tasks, beating \subseteq Workers, started \subseteq Workers,
         cached \subseteq Tasks \X Nat
  PROVE  TypeOK
BY DEF TypeOK, TablesTyped, FleetTyped, Jobs, Statuses, Regs, Allocs

(* Only the counts of the task that moves change.                                *)
LEMMA OthersStay ==
  ASSUME jobs \in [Jobs -> Nat], NEW t \in Tasks, NEW w \in Workers,
         NEW from \in Awaits, NEW to \in Awaits \cup {"end"}, from # to,
         jobs[<<t, w, from>>] > 0, Move(t, w, from, to)
  PROVE  \A u \in Tasks \ {t}, v \in Workers, a \in Awaits : jobs'[<<u, v, a>>] = jobs[<<u, v, a>>]
<1> TAKE u \in Tasks \ {t}, v \in Workers, a \in Awaits
<1>1. <<u, v, a>> \in Jobs /\ <<u, v, a>> # <<t, w, from>> /\ <<u, v, a>> # <<t, w, to>>
  BY DEF Jobs
<1> QED  BY <1>1, MoveCounts

(* What a handler's failure does: the task gives back what it holds, tasks are     *)
(* queued again or failed for good, and nobody else's handler moves.             *)
LEMMA HandledFailure ==
  ASSUME TypeOK, NEW t \in Tasks, NEW w \in Workers, NEW from \in Awaits, from # "delay",
         jobs[<<t, w, from>>] > 0, NEW blamed \in Workers \cup {None}, NEW type,
         HandleTaskFailure(t, w, from, blamed, type)
  PROVE  /\ TablesTyped' /\ FleetTyped'
         /\ jobs' \in [Jobs -> Nat] /\ alloc' \in [Tasks -> Allocs]
         /\ need' \in [Tasks -> Nat] /\ todo' \in [Tasks -> Nat] /\ fails' \in [Tasks -> Nat]
         /\ \A u \in Tasks : \/ status'[u] = status[u] /\ queued'[u] = queued[u]
                             \/ status'[u] = "pending" /\ queued'[u] > 0
                             \/ status'[u] = "failed"
         /\ alloc'[t].w = None
         /\ \A u \in Tasks : alloc'[u] = alloc[u] \/ alloc'[u].w = None
         /\ \A u \in Tasks \ {t}, v \in Workers, a \in Awaits :
              jobs'[<<u, v, a>>] = jobs[<<u, v, a>>]
<1>1. TablesTyped /\ FleetTyped /\ jobs \in [Jobs -> Nat] /\ alloc \in [Tasks -> Allocs]
  BY Parts
<1>2. fails' \in [Tasks -> Nat]
  BY DEF HandleTaskFailure, TypeOK
<1>3. need \in [Tasks -> Nat] /\ todo \in [Tasks -> Nat]
  BY DEF TypeOK
<1>4. NoAlloc \in Allocs /\ NoAlloc.w = None
  BY DEF NoAlloc, Allocs
<1>0. from # "end" /\ "delay" \in Awaits
  BY DEF Awaits
<1>5. CASE fails[t] >= MaxRetries
  <2>1. /\ TaskFailed(t) /\ Move(t, w, from, "end")
        /\ alloc' = [alloc EXCEPT ![t] = NoAlloc]
        /\ need' = need /\ ScheduleNow
    BY <1>5 DEF HandleTaskFailure
  <2>2. /\ TablesTyped'
        /\ \A u \in Tasks : \/ status'[u] = status[u] /\ queued'[u] = queued[u]
                            \/ status'[u] = "pending" /\ queued'[u] > 0
                            \/ status'[u] = "failed"
    BY <1>1, <2>1, FailedTask DEF TablesTyped
  <2>3. FleetTyped'
    BY <1>1, <2>1, ReleasedFleet DEF TaskFailed
  <2>4. jobs' \in [Jobs -> Nat]
    BY <1>0, <1>1, <2>1, MoveCounts
  <2>5. \A u \in Tasks \ {t}, v \in Workers, a \in Awaits : jobs'[<<u, v, a>>] = jobs[<<u, v, a>>]
    BY <1>0, <1>1, <2>1, OthersStay
  <2>6. /\ alloc' \in [Tasks -> Allocs] /\ alloc'[t].w = None
        /\ \A u \in Tasks : alloc'[u] = alloc[u] \/ alloc'[u].w = None
    BY <1>1, <1>4, <2>1
  <2>7. todo' \in [Tasks -> Nat]
    BY <2>1, <2>2, Scheduled DEF TablesTyped
  <2> QED  BY <1>2, <1>3, <2>1, <2>2, <2>3, <2>4, <2>5, <2>6, <2>7
<1>6. CASE ~(fails[t] >= MaxRetries)
  <2>1. /\ Move(t, w, from, "delay") /\ todo' = todo
        /\ need' = IF type = "exhausted" THEN [need EXCEPT ![t] = Degraded(@)] ELSE need
    BY <1>6 DEF HandleTaskFailure
  <2>2. need' \in [Tasks -> Nat]
    <3>1. \A n \in Nat : Degraded(n) \in Nat
      BY DEF Degraded
    <3> QED  BY <1>3, <2>1, <3>1
  <2>3. jobs' \in [Jobs -> Nat]
    BY <1>0, <1>1, <2>1, MoveCounts
  <2>4. \A u \in Tasks \ {t}, v \in Workers, a \in Awaits : jobs'[<<u, v, a>>] = jobs[<<u, v, a>>]
    BY <1>0, <1>1, <2>1, OthersStay
  <2>5. CASE type = "offline" /\ blamed # None
    <3>1. UnregisterWorker(blamed) /\ alloc' = [FreedOf(blamed) EXCEPT ![t] = NoAlloc]
      BY <1>6, <2>5 DEF HandleTaskFailure
    <3>2. /\ alloc' \in [Tasks -> Allocs] /\ alloc'[t].w = None
          /\ \A u \in Tasks : alloc'[u] = alloc[u] \/ alloc'[u].w = None
      BY <1>1, <1>4, <3>1 DEF FreedOf
    <3>3. blamed \in Workers
      BY <2>5
    <3>4. /\ TablesTyped' /\ FleetTyped'
          /\ \A u \in Tasks : \/ status'[u] = status[u] /\ queued'[u] = queued[u]
                              \/ status'[u] = "pending" /\ queued'[u] > 0
      BY <1>1, <3>1, <3>3, Unregistered
    <3> QED  BY <1>2, <1>3, <2>1, <2>2, <2>3, <2>4, <3>2, <3>4
  <2>6. CASE ~(type = "offline" /\ blamed # None)
    <3>1. alloc' = [alloc EXCEPT ![t] = NoAlloc] /\ UNCHANGED <<tasks, fleet>>
      BY <1>6, <2>6 DEF HandleTaskFailure
    <3>2. /\ alloc' \in [Tasks -> Allocs] /\ alloc'[t].w = None
          /\ \A u \in Tasks : alloc'[u] = alloc[u] \/ alloc'[u].w = None
      BY <1>1, <1>4, <3>1
    <3>3. TablesTyped' /\ FleetTyped' /\ UNCHANGED <<status, queued>>
      BY <1>1, <3>1 DEF tasks, fleet, TablesTyped, FleetTyped
    <3> QED  BY <1>2, <1>3, <2>1, <2>2, <2>3, <2>4, <3>2, <3>3
  <2> QED  BY <2>5, <2>6
<1> QED  BY <1>5, <1>6
-----------------------------------------------------------------------------
(* How a step keeps each of the three invariants                                *)

LEMMA StillQueued ==
  ASSUME PendingIsQueued,
         \A u \in Tasks : \/ status'[u] = status[u] /\ queued'[u] = queued[u]
                         \/ queued'[u] > 0
                         \/ status'[u] # "pending"
  PROVE  PendingIsQueued'
BY DEF PendingIsQueued

Busy(t, w) == jobs[<<t, w, "run">>] + jobs[<<t, w, "put">>] > 0

LEMMA StillCached ==
  ASSUME CompletedIsCached, cached \subseteq cached',
         \A u \in Tasks : \/ status'[u] = status[u]
                         \/ status'[u] # "completed"
                         \/ \E c \in cached' : c[1] = u
  PROVE  CompletedIsCached'
BY DEF CompletedIsCached

(* A handler that is not at `run' or `put' moves without making anyone less busy. *)
LEMMA BusyStay ==
  ASSUME jobs \in [Jobs -> Nat], NEW t \in Tasks, NEW w \in Workers,
         NEW from \in {"lookup", "delay"}, NEW to \in {"run", "delay", "end"}, from # to,
         jobs[<<t, w, from>>] > 0, Move(t, w, from, to)
  PROVE  \A u \in Tasks, v \in Workers : Busy(u, v) => Busy(u, v)'
<1>1. jobs' \in [Jobs -> Nat]
      /\ \A j \in Jobs : jobs'[j] = IF j = <<t, w, from>> THEN jobs[j] - 1
                                    ELSE IF j = <<t, w, to>> THEN jobs[j] + 1 ELSE jobs[j]
  <2>1. from \in Awaits /\ to \in Awaits \cup {"end"}
    BY DEF Awaits
  <2>2. ASSUME NEW f \in Awaits, NEW g \in Awaits \cup {"end"}, f # g,
               jobs[<<t, w, f>>] > 0, Move(t, w, f, g)
        PROVE  /\ jobs' \in [Jobs -> Nat]
               /\ \A j \in Jobs : jobs'[j] = IF j = <<t, w, f>> THEN jobs[j] - 1
                                    ELSE IF j = <<t, w, g>> THEN jobs[j] + 1 ELSE jobs[j]
    BY <2>2, MoveCounts
  <2> QED  BY <2>1, <2>2
<1> TAKE u \in Tasks, v \in Workers
<1>2. <<u, v, "run">> \in Jobs /\ <<u, v, "put">> \in Jobs
  BY DEF Jobs, Awaits
<1>3. <<u, v, "run">> # <<t, w, from>> /\ <<u, v, "put">> # <<t, w, from>>
  OBVIOUS
<1>4. jobs'[<<u, v, "run">>] >= jobs[<<u, v, "run">>] /\ jobs'[<<u, v, "put">>] >= jobs[<<u, v, "put">>]
  BY <1>1, <1>2, <1>3
<1> QED  BY <1>1, <1>2, <1>4 DEF Busy

(* Handlers of other tasks stay as busy as they were.                            *)
LEMMA OthersBusy ==
  ASSUME NEW t \in Tasks,
         \A u \in Tasks \ {t}, v \in Workers, a \in Awaits : jobs'[<<u, v, a>>] = jobs[<<u, v, a>>]
  PROVE  \A u \in Tasks \ {t}, v \in Workers : Busy(u, v) => Busy(u, v)'
BY DEF Busy, Awaits

IInv == TypeOK /\ PendingIsQueued /\ NoLeak /\ CompletedIsCached

LEMMA InitIInv ==
  ASSUME Init
  PROVE  IInv
<1>1. TypeOK
  <2>1. TablesTyped /\ FleetTyped
    BY DEF Init, TablesTyped, FleetTyped, Statuses, Regs, Nobody
  <2>2. jobs \in [Jobs -> Nat] /\ alloc \in [Tasks -> Allocs]
    BY DEF Init, Jobs, Allocs, NoAlloc
  <2>3. cached \subseteq Tasks \X Nat
    BY DEF Init
  <2>4. /\ world \in Worlds /\ dying \subseteq Tasks
        /\ beating \subseteq Workers /\ started \subseteq Workers
        /\ need \in [Tasks -> Nat] /\ todo \in [Tasks -> Nat] /\ fails \in [Tasks -> Nat]
    BY DEF Init, Nobody
  <2> QED  BY <2>1, <2>2, <2>3, <2>4, Whole
<1> QED  BY <1>1 DEF Init, IInv, PendingIsQueued, NoLeak, CompletedIsCached, NoAlloc

(* A step that fails a handler's task, whatever it was at, keeps the invariant.    *)
LEMMA FailureKeeps ==
  ASSUME IInv, NEW t \in Tasks, NEW w \in Workers, NEW from \in Awaits, from # "delay",
         jobs[<<t, w, from>>] > 0, NEW blamed \in Workers \cup {None}, NEW type,
         HandleTaskFailure(t, w, from, blamed, type),
         UNCHANGED <<world, dying, beating, started, cached>>
  PROVE  IInv'
<1>0. TypeOK
  BY DEF IInv
<1>1. /\ TablesTyped' /\ FleetTyped'
      /\ jobs' \in [Jobs -> Nat] /\ alloc' \in [Tasks -> Allocs]
      /\ need' \in [Tasks -> Nat] /\ todo' \in [Tasks -> Nat] /\ fails' \in [Tasks -> Nat]
  BY <1>0, HandledFailure
<1>2. \A u \in Tasks : \/ status'[u] = status[u] /\ queued'[u] = queued[u]
                       \/ status'[u] = "pending" /\ queued'[u] > 0
                       \/ status'[u] = "failed"
  BY <1>0, HandledFailure
<1>3. alloc'[t].w = None /\ \A u \in Tasks : alloc'[u] = alloc[u] \/ alloc'[u].w = None
  BY <1>0, HandledFailure
<1>4. \A u \in Tasks \ {t}, v \in Workers, a \in Awaits : jobs'[<<u, v, a>>] = jobs[<<u, v, a>>]
  BY <1>0, HandledFailure
<1>5. TypeOK'
  <2>1. /\ world' \in Worlds /\ dying' \subseteq Tasks /\ beating' \subseteq Workers
        /\ started' \subseteq Workers /\ cached' \subseteq Tasks \X Nat
    BY <1>0 DEF TypeOK
  <2> QED  BY <1>1, <2>1 DEF TypeOK, TablesTyped, FleetTyped, Jobs, Statuses, Regs, Allocs
<1>6. PendingIsQueued'
  BY <1>2, StillQueued DEF IInv
<1>7. NoLeak'
  <2>1. \A u \in Tasks \ {t}, v \in Workers : Busy(u, v) => Busy(u, v)'
    BY <1>4, OthersBusy
  <2>2. ASSUME NEW u \in Tasks
        PROVE  \/ alloc'[u].w = None
               \/ alloc'[u] = alloc[u] /\ \A v \in Workers : Busy(u, v) => Busy(u, v)'
    BY <1>3, <2>1, Zenon
  <2>4. NoLeak
    BY DEF IInv
  <2> QED  BY <2>2, <2>4 DEF Busy, NoLeak
<1>8. CompletedIsCached'
  BY <1>2, StillCached DEF IInv
<1> QED  BY <1>5, <1>6, <1>7, <1>8 DEF IInv

(* Every step keeps the invariant: one step of the proof per action.             *)
LEMMA StepIInv ==
  ASSUME IInv, [Next]_vars
  PROVE  IInv'
<1>0. TypeOK /\ PendingIsQueued /\ NoLeak /\ CompletedIsCached
  BY DEF IInv
<1>1. TablesTyped /\ FleetTyped /\ jobs \in [Jobs -> Nat] /\ alloc \in [Tasks -> Allocs]
  BY <1>0, Parts
<1>2. /\ world \in Worlds /\ dying \subseteq Tasks
      /\ beating \subseteq Workers /\ started \subseteq Workers
      /\ need \in [Tasks -> Nat] /\ todo \in [Tasks -> Nat] /\ fails \in [Tasks -> Nat]
      /\ cached \subseteq Tasks \X Nat
  BY <1>0 DEF TypeOK
<1>3. ASSUME NEW t \in Tasks, Submit(t)
      PROVE  IInv'
  <2>1. /\ status' = [status EXCEPT ![t] = "pending"]
        /\ queued' = [queued EXCEPT ![t] = @ + 1]
        /\ UNCHANGED <<world, at, tries, need, fleet, dying, jobs, beating, started, alloc, fails, cached>>
        /\ ScheduleNow
    BY <1>3 DEF Submit
  <2>2. TablesTyped' /\ FleetTyped'
    BY <1>1, <2>1 DEF TablesTyped, FleetTyped, Statuses, fleet
  <2>3. todo' \in [Tasks -> Nat]
    BY <2>1, <2>2, Scheduled DEF TablesTyped
  <2>4. TypeOK'
    BY <1>1, <1>2, <2>1, <2>2, <2>3 DEF TypeOK, TablesTyped, FleetTyped, Jobs, Statuses, Regs, Allocs
  <2>5. PendingIsQueued'
    BY <1>0, <1>1, <2>1 DEF PendingIsQueued, TablesTyped
  <2>6. NoLeak'
    BY <1>0, <2>1 DEF NoLeak
  <2>7. CompletedIsCached'
    BY <1>0, <1>1, <2>1 DEF CompletedIsCached, TablesTyped
  <2> QED  BY <2>4, <2>5, <2>6, <2>7 DEF IInv
<1>4. ASSUME NEW w \in Workers, AddWorker(w)
      PROVE  IInv'
  <2>1. /\ reg' = [reg EXCEPT ![w] = "up"]
        /\ beating' = beating \cup {w} /\ started' = started \cup {w}
        /\ UNCHANGED <<world, tasks, need, load, runs, dying, jobs, alloc, fails, cached>>
        /\ ScheduleNow
    BY <1>4 DEF AddWorker
  <2>2. TablesTyped' /\ FleetTyped'
    BY <1>1, <2>1 DEF TablesTyped, FleetTyped, Regs, tasks
  <2>3. todo' \in [Tasks -> Nat]
    BY <2>1, <2>2, Scheduled DEF TablesTyped
  <2>4. TypeOK'
    BY <1>1, <1>2, <2>1, <2>2, <2>3 DEF TypeOK, TablesTyped, FleetTyped, Jobs, Statuses, Regs, Allocs
  <2> QED  BY <1>0, <2>1, <2>4 DEF IInv, PendingIsQueued, NoLeak, CompletedIsCached, tasks
<1>5. CASE Tick
  <2>1. /\ UNCHANGED <<world, tasks, need, fleet, dying, jobs, beating, started, alloc, fails, cached>>
        /\ ScheduleNow
    BY <1>5 DEF Tick
  <2>2. TablesTyped' /\ FleetTyped'
    BY <1>1, <2>1 DEF TablesTyped, FleetTyped, tasks, fleet
  <2>3. todo' \in [Tasks -> Nat]
    BY <2>1, <2>2, Scheduled DEF TablesTyped
  <2>4. TypeOK'
    BY <1>1, <1>2, <2>1, <2>2, <2>3 DEF TypeOK, TablesTyped, FleetTyped, Jobs, Statuses, Regs, Allocs
  <2> QED  BY <1>0, <2>1, <2>4 DEF IInv, PendingIsQueued, NoLeak, CompletedIsCached, tasks
<1>6. ASSUME NEW t \in Tasks, NEW w \in Workers, AssignTask(t, w)
      PROVE  IInv'
  <2>1. /\ status' = [status EXCEPT ![t] = "assigned"]
        /\ at' = [at EXCEPT ![t] = w]
        /\ runs' = [runs EXCEPT ![w] = @ \cup {t}]
        /\ queued' = [queued EXCEPT ![t] = 0]
        /\ jobs' = [jobs EXCEPT ![<<t, w, "lookup">>] = @ + 1]
        /\ todo[t] > 0
        /\ todo' = [todo EXCEPT ![t] = @ - 1]
        /\ UNCHANGED <<world, tries, need, reg, dying, beating, started, alloc, fails, cached>>
    BY <1>6 DEF AssignTask
  <2>2. TablesTyped' /\ FleetTyped'
    BY <1>1, <2>1 DEF TablesTyped, FleetTyped, Statuses
  <2>3. jobs' \in [Jobs -> Nat]
    <3>1. <<t, w, "lookup">> \in Jobs
      BY DEF Jobs, Awaits
    <3> QED  BY <1>1, <2>1, <3>1
  <2>4. todo' \in [Tasks -> Nat]
    BY <1>2, <2>1
  <2>5. TypeOK'
    BY <1>1, <1>2, <2>1, <2>2, <2>3, <2>4 DEF TypeOK, TablesTyped, FleetTyped, Jobs, Statuses, Regs, Allocs
  <2>6. PendingIsQueued'
    BY <1>0, <1>1, <2>1 DEF PendingIsQueued, TablesTyped
  <2>7. \A u \in Tasks, v \in Workers :
           jobs'[<<u, v, "run">>] = jobs[<<u, v, "run">>] /\ jobs'[<<u, v, "put">>] = jobs[<<u, v, "put">>]
    <3> TAKE u \in Tasks, v \in Workers
    <3>1. /\ <<u, v, "run">> \in Jobs /\ <<u, v, "run">> # <<t, w, "lookup">>
          /\ <<u, v, "put">> \in Jobs /\ <<u, v, "put">> # <<t, w, "lookup">>
      BY DEF Jobs, Awaits
    <3> QED  BY <1>1, <2>1, <3>1
  <2>8. NoLeak'
    BY <1>0, <2>1, <2>7 DEF NoLeak
  <2>9. CompletedIsCached'
    BY <1>0, <1>1, <2>1 DEF CompletedIsCached, TablesTyped
  <2> QED  BY <2>5, <2>6, <2>8, <2>9 DEF IInv
<1>7. ASSUME NEW t \in Tasks, SkipTask(t)
      PROVE  IInv'
  <2>1. /\ todo[t] > 0 /\ todo' = [todo EXCEPT ![t] = @ - 1]
        /\ UNCHANGED <<world, tasks, need, fleet, dying, jobs, beating, started, alloc, fails, cached>>
    BY <1>7 DEF SkipTask
  <2>2. TablesTyped' /\ FleetTyped'
    BY <1>1, <2>1 DEF TablesTyped, FleetTyped, tasks, fleet
  <2>3. todo' \in [Tasks -> Nat]
    BY <1>2, <2>1
  <2>4. TypeOK'
    BY <1>1, <1>2, <2>1, <2>2, <2>3 DEF TypeOK, TablesTyped, FleetTyped, Jobs, Statuses, Regs, Allocs
  <2> QED  BY <1>0, <2>1, <2>4 DEF IInv, PendingIsQueued, NoLeak, CompletedIsCached, tasks
<1>8. ASSUME NEW w \in Workers, Heartbeat(w)
      PROVE  IInv'
  <2>1. /\ reg' = [reg EXCEPT ![w] = "up"]
        /\ UNCHANGED <<world, tasks, need, runs, todo, dying, jobs, beating, started, alloc, fails, cached>>
    BY <1>8 DEF Heartbeat
  <2>2. TablesTyped' /\ FleetTyped'
    BY <1>1, <2>1 DEF TablesTyped, FleetTyped, Regs, tasks
  <2>3. TypeOK'
    BY <1>1, <1>2, <2>1, <2>2 DEF TypeOK, TablesTyped, FleetTyped, Jobs, Statuses, Regs, Allocs
  <2> QED  BY <1>0, <2>1, <2>3 DEF IInv, PendingIsQueued, NoLeak, CompletedIsCached, tasks
<1>9. ASSUME NEW t \in Tasks, CancelTask(t)
      PROVE  IInv'
  <2>1. /\ Release(t)
        /\ status' = [status EXCEPT ![t] = "cancelled"]
        /\ queued' = [queued EXCEPT ![t] = 0]
        /\ UNCHANGED <<world, at, tries, need, todo, dying, jobs, beating, started, alloc, fails, cached>>
    BY <1>9 DEF CancelTask
  <2>2. FleetTyped'
    BY <1>1, <2>1, ReleasedFleet
  <2>3. TablesTyped'
    BY <1>1, <2>1 DEF TablesTyped, Statuses, Final
  <2>4. TypeOK'
    BY <1>1, <1>2, <2>1, <2>2, <2>3 DEF TypeOK, TablesTyped, FleetTyped, Jobs, Statuses, Regs, Allocs
  <2>5. PendingIsQueued'
    BY <1>0, <1>1, <2>1 DEF PendingIsQueued, TablesTyped
  <2>6. NoLeak'
    BY <1>0, <2>1 DEF NoLeak
  <2>7. CompletedIsCached'
    BY <1>0, <1>1, <2>1 DEF CompletedIsCached, TablesTyped
  <2> QED  BY <2>4, <2>5, <2>6, <2>7 DEF IInv
<1>10. ASSUME NEW t \in Tasks, NEW w \in Workers, LookupHit(t, w)
       PROVE  IInv'
  <2>1. /\ TaskCompleted(t) /\ Move(t, w, "lookup", "end")
        /\ jobs[<<t, w, "lookup">>] > 0
        /\ <<t, need[t]>> \in cached
        /\ UNCHANGED <<world, need, todo, dying, beating, started, alloc, fails, cached>>
    BY <1>10 DEF LookupHit
  <2>2. /\ TablesTyped' /\ status'[t] = "completed" /\ queued' = queued
        /\ \A u \in Tasks \ {t} : status'[u] = status[u]
    BY <1>1, <2>1, CompletedTask
  <2>3. FleetTyped'
    BY <1>1, <2>1, ReleasedFleet DEF TaskCompleted
  <2>4. "lookup" \in Awaits
    BY DEF Awaits
  <2>5. jobs' \in [Jobs -> Nat]
    BY <1>1, <2>1, <2>4, MoveCounts
  <2>6. TypeOK'
    BY <1>1, <1>2, <2>1, <2>2, <2>3, <2>5 DEF TypeOK, TablesTyped, FleetTyped, Jobs, Statuses, Regs, Allocs
  <2>7. \A u \in Tasks, v \in Workers : Busy(u, v) => Busy(u, v)'
    BY <1>1, <2>1, BusyStay
  <2>8. NoLeak'
    BY <1>0, <2>1, <2>7 DEF NoLeak, Busy
  <2>9. PendingIsQueued'
    BY <1>0, <2>2 DEF PendingIsQueued
  <2>10. \E c \in cached' : c[1] = t
    BY <2>1
  <2>11. CompletedIsCached'
    BY <1>0, <2>1, <2>2, <2>10 DEF CompletedIsCached
  <2> QED  BY <2>6, <2>8, <2>9, <2>11 DEF IInv
<1>11. ASSUME NEW t \in Tasks, NEW w \in Workers, ExecuteTask(t, w)
       PROVE  IInv'
  <2>1. /\ status' = [status EXCEPT ![t] = "running"]
        /\ alloc' = IF alloc[t] # NoAlloc THEN alloc
                    ELSE [alloc EXCEPT ![t] = [w |-> w, n |-> need[t]]]
        /\ jobs[<<t, w, "lookup">>] > 0
        /\ Move(t, w, "lookup", "run")
        /\ UNCHANGED <<world, at, tries, queued, need, fleet, todo, dying, beating, started, fails, cached>>
    BY <1>11 DEF ExecuteTask
  <2>2. TablesTyped' /\ FleetTyped'
    BY <1>1, <2>1 DEF TablesTyped, FleetTyped, Statuses, fleet
  <2>3. "lookup" \in Awaits /\ "run" \in Awaits
    BY DEF Awaits
  <2>4. /\ jobs' \in [Jobs -> Nat]
        /\ \A j \in Jobs : jobs'[j] = IF j = <<t, w, "lookup">> THEN jobs[j] - 1
                                      ELSE IF j = <<t, w, "run">> THEN jobs[j] + 1 ELSE jobs[j]
    BY <1>1, <2>1, <2>3, MoveCounts
  <2>5. [w |-> w, n |-> need[t]] \in Allocs
    BY <1>2 DEF Allocs
  <2>6. alloc' \in [Tasks -> Allocs] /\ \A u \in Tasks \ {t} : alloc'[u] = alloc[u]
    BY <1>1, <2>1, <2>5
  <2>7. TypeOK'
    BY <1>1, <1>2, <2>1, <2>2, <2>4, <2>6 DEF TypeOK, TablesTyped, FleetTyped, Jobs, Statuses, Regs, Allocs
  <2>8. \A u \in Tasks, v \in Workers : Busy(u, v) => Busy(u, v)'
    BY <1>1, <2>1, BusyStay
  <2>9. Busy(t, w)'
    <3>1. <<t, w, "run">> \in Jobs /\ <<t, w, "put">> \in Jobs
      BY DEF Jobs, Awaits
    <3>2. jobs[<<t, w, "run">>] \in Nat /\ jobs'[<<t, w, "put">>] \in Nat
      BY <1>1, <2>4, <3>1
    <3>3. jobs'[<<t, w, "run">>] = jobs[<<t, w, "run">>] + 1
      BY <2>4, <3>1
    <3> QED  BY <3>2, <3>3 DEF Busy
  <2>10. NoLeak'
    BY <1>0, <2>6, <2>8, <2>9 DEF NoLeak, Busy
  <2>11. PendingIsQueued'
    BY <1>0, <1>1, <2>1 DEF PendingIsQueued, TablesTyped
  <2>12. CompletedIsCached'
    BY <1>0, <1>1, <2>1 DEF CompletedIsCached, TablesTyped
  <2> QED  BY <2>7, <2>10, <2>11, <2>12 DEF IInv
<1>12. ASSUME NEW t \in Tasks, NEW w \in Workers, ExecuteRefused(t, w)
       PROVE  IInv'
  <2>1. "lookup" \in Awaits
    BY DEF Awaits
  <2>2. PICK type : HandleTaskFailure(t, w, "lookup", w, type)
    BY <1>12 DEF ExecuteRefused
  <2>3. jobs[<<t, w, "lookup">>] > 0 /\ UNCHANGED <<world, dying, beating, started, cached>>
    BY <1>12 DEF ExecuteRefused
  <2> QED  BY <2>1, <2>2, <2>3, FailureKeeps
<1>13. ASSUME NEW t \in Tasks, NEW w \in Workers, Finish(t, w)
       PROVE  IInv'
  <2>1. /\ jobs[<<t, w, "run">>] > 0
        /\ Move(t, w, "run", "put")
        /\ UNCHANGED <<world, tasks, need, fleet, todo, dying, beating, started, alloc, fails, cached>>
    BY <1>13 DEF Finish
  <2>2. TablesTyped' /\ FleetTyped'
    BY <1>1, <2>1 DEF TablesTyped, FleetTyped, tasks, fleet
  <2>3. "run" \in Awaits /\ "put" \in Awaits
    BY DEF Awaits
  <2>4. /\ jobs' \in [Jobs -> Nat]
        /\ \A j \in Jobs : jobs'[j] = IF j = <<t, w, "run">> THEN jobs[j] - 1
                                      ELSE IF j = <<t, w, "put">> THEN jobs[j] + 1 ELSE jobs[j]
    BY <1>1, <2>1, <2>3, MoveCounts
  <2>5. TypeOK'
    BY <1>1, <1>2, <2>1, <2>2, <2>4 DEF TypeOK, TablesTyped, FleetTyped, Jobs, Statuses, Regs, Allocs
  <2>6. ASSUME NEW u \in Tasks, NEW v \in Workers
        PROVE  jobs'[<<u, v, "run">>] + jobs'[<<u, v, "put">>] = jobs[<<u, v, "run">>] + jobs[<<u, v, "put">>]
    <3>1. <<u, v, "run">> \in Jobs /\ <<u, v, "put">> \in Jobs /\ <<u, v, "run">> # <<u, v, "put">>
      BY DEF Jobs, Awaits
    <3>2. jobs[<<u, v, "run">>] \in Nat /\ jobs[<<u, v, "put">>] \in Nat
      BY <1>1, <3>1
    <3>3. CASE u = t /\ v = w
      BY <2>4, <3>1, <3>2, <3>3
    <3>4. CASE ~(u = t /\ v = w)
      <4>1. jobs'[<<u, v, "run">>] = jobs[<<u, v, "run">>] /\ jobs'[<<u, v, "put">>] = jobs[<<u, v, "put">>]
        BY <2>4, <3>1, <3>4
      <4> QED  BY <4>1
    <3> QED  BY <3>3, <3>4
  <2> QED  BY <1>0, <2>1, <2>5, <2>6 DEF IInv, PendingIsQueued, NoLeak, CompletedIsCached, tasks
<1>14. ASSUME NEW t \in Tasks, NEW w \in Workers, ExecutorFails(t, w)
       PROVE  IInv'
  <2>1. "run" \in Awaits
    BY DEF Awaits
  <2>2. PICK type : HandleTaskFailure(t, w, "run", at[t], type)
    BY <1>14 DEF ExecutorFails
  <2>3. jobs[<<t, w, "run">>] > 0 /\ UNCHANGED <<world, dying, beating, started, cached>>
    BY <1>14 DEF ExecutorFails
  <2>4. at[t] \in Workers \cup {None}
    BY <1>1 DEF TablesTyped
  <2> QED  BY <2>1, <2>2, <2>3, <2>4, FailureKeeps
<1>15. ASSUME NEW t \in Tasks, NEW w \in Workers, PutFails(t, w)
       PROVE  IInv'
  <2>1. "put" \in Awaits
    BY DEF Awaits
  <2>2. HandleTaskFailure(t, w, "put", at[t], "error")
    BY <1>15 DEF PutFails
  <2>3. jobs[<<t, w, "put">>] > 0 /\ UNCHANGED <<world, dying, beating, started, cached>>
    BY <1>15 DEF PutFails
  <2>4. at[t] \in Workers \cup {None}
    BY <1>1 DEF TablesTyped
  <2> QED  BY <2>1, <2>2, <2>3, <2>4, FailureKeeps
<1>16. ASSUME NEW t \in Tasks, NEW w \in Workers, ReportCompleted(t, w)
       PROVE  IInv'
  <2>1. /\ jobs[<<t, w, "put">>] > 0
        /\ cached' = cached \cup {<<t, need[t]>>}
        /\ alloc' = [alloc EXCEPT ![t] = NoAlloc]
        /\ TaskCompleted(t)
        /\ Move(t, w, "put", "end")
        /\ UNCHANGED <<world, need, dying, beating, started, fails>>
        /\ ScheduleNow
    BY <1>16 DEF ReportCompleted
  <2>2. /\ TablesTyped' /\ status'[t] = "completed" /\ queued' = queued
        /\ \A u \in Tasks \ {t} : status'[u] = status[u]
    BY <1>1, <2>1, CompletedTask
  <2>3. FleetTyped'
    BY <1>1, <2>1, ReleasedFleet DEF TaskCompleted
  <2>4. "put" \in Awaits
    BY DEF Awaits
  <2>5. jobs' \in [Jobs -> Nat]
    BY <1>1, <2>1, <2>4, MoveCounts
  <2>6. todo' \in [Tasks -> Nat]
    BY <2>1, <2>2, Scheduled DEF TablesTyped
  <2>7. NoAlloc \in Allocs /\ NoAlloc.w = None
    BY DEF NoAlloc, Allocs
  <2>8. /\ alloc' \in [Tasks -> Allocs] /\ alloc'[t].w = None
        /\ \A u \in Tasks \ {t} : alloc'[u] = alloc[u]
    BY <1>1, <2>1, <2>7
  <2>9. cached' \subseteq Tasks \X Nat /\ cached \subseteq cached' /\ \E c \in cached' : c[1] = t
    <3>1. <<t, need[t]>> \in Tasks \X Nat /\ <<t, need[t]>>[1] = t
      BY <1>2
    <3>2. <<t, need[t]>> \in cached' /\ cached \subseteq cached' /\ cached' \subseteq Tasks \X Nat
      BY <1>2, <2>1, <3>1
    <3> QED  BY <3>1, <3>2
  <2>10. TypeOK'
    BY <1>2, <2>1, <2>2, <2>3, <2>5, <2>6, <2>8, <2>9
       DEF TypeOK, TablesTyped, FleetTyped, Jobs, Statuses, Regs, Allocs
  <2>11. \A u \in Tasks \ {t}, v \in Workers : Busy(u, v) => Busy(u, v)'
    <3>1. \A u \in Tasks \ {t}, v \in Workers, a \in Awaits : jobs'[<<u, v, a>>] = jobs[<<u, v, a>>]
      BY <1>1, <2>1, <2>4, OthersStay
    <3> QED  BY <3>1, OthersBusy
  <2>12. NoLeak'
    BY <1>0, <2>8, <2>11 DEF NoLeak, Busy
  <2>13. PendingIsQueued'
    BY <1>0, <2>2 DEF PendingIsQueued
  <2>14. CompletedIsCached'
    BY <1>0, <2>2, <2>9 DEF CompletedIsCached
  <2> QED  BY <2>10, <2>12, <2>13, <2>14 DEF IInv
<1>17. ASSUME NEW t \in Tasks, NEW w \in Workers, FailAfterDelay(t, w)
       PROVE  IInv'
  <2>1. /\ jobs[<<t, w, "delay">>] > 0
        /\ TaskFailed(t)
        /\ Move(t, w, "delay", "end")
        /\ UNCHANGED <<world, need, dying, beating, started, alloc, fails, cached>>
        /\ ScheduleNow
    BY <1>17 DEF FailAfterDelay
  <2>2. /\ TablesTyped' /\ status'[t] \in {"pending", "failed"}
        /\ status'[t] = "pending" => queued'[t] > 0
        /\ \A u \in Tasks \ {t} : status'[u] = status[u] /\ queued'[u] = queued[u]
    BY <1>1, <2>1, FailedTask DEF TablesTyped
  <2>3. FleetTyped'
    BY <1>1, <2>1, ReleasedFleet DEF TaskFailed
  <2>4. "delay" \in Awaits
    BY DEF Awaits
  <2>5. jobs' \in [Jobs -> Nat]
    BY <1>1, <2>1, <2>4, MoveCounts
  <2>6. todo' \in [Tasks -> Nat]
    BY <2>1, <2>2, Scheduled DEF TablesTyped
  <2>7. TypeOK'
    BY <1>1, <1>2, <2>1, <2>2, <2>3, <2>5, <2>6
       DEF TypeOK, TablesTyped, FleetTyped, Jobs, Statuses, Regs, Allocs
  <2>8. \A u \in Tasks, v \in Workers : Busy(u, v) => Busy(u, v)'
    BY <1>1, <2>1, BusyStay
  <2>9. NoLeak'
    BY <1>0, <2>1, <2>8 DEF NoLeak, Busy
  <2>10. PendingIsQueued'
    BY <1>0, <2>2 DEF PendingIsQueued
  <2>11. CompletedIsCached'
    BY <1>0, <2>1, <2>2 DEF CompletedIsCached
  <2> QED  BY <2>7, <2>9, <2>10, <2>11 DEF IInv
<1>18. ASSUME NEW w \in Workers, StopWorker(w)
       PROVE  IInv'
  <2>1. /\ beating' = beating \ {w}
        /\ UNCHANGED <<world, tasks, need, fleet, todo, dying, jobs, started, alloc, fails, cached>>
    BY <1>18 DEF StopWorker
  <2>2. TypeOK'
    BY <1>0, <2>1 DEF TypeOK, tasks, fleet
  <2> QED  BY <1>0, <2>1, <2>2 DEF IInv, PendingIsQueued, NoLeak, CompletedIsCached, tasks
<1>19. ASSUME NEW w \in Workers, StoppedWorker(w)
       PROVE  IInv'
  <2>1. /\ started' = started \ {w}
        /\ UnregisterWorker(w)
        /\ alloc' = FreedOf(w)
        /\ UNCHANGED <<world, need, todo, dying, jobs, beating, fails, cached>>
    BY <1>19 DEF StoppedWorker
  <2>2. /\ TablesTyped' /\ FleetTyped'
        /\ \A u \in Tasks : (status'[u] = status[u] /\ queued'[u] = queued[u])
                            \/ (status'[u] = "pending" /\ queued'[u] > 0)
    BY <1>1, <2>1, Unregistered
  <2>3. NoAlloc \in Allocs /\ NoAlloc.w = None
    BY DEF NoAlloc, Allocs
  <2>4. /\ alloc' \in [Tasks -> Allocs]
        /\ \A u \in Tasks : alloc'[u] = alloc[u] \/ alloc'[u].w = None
    BY <1>1, <2>1, <2>3 DEF FreedOf
  <2>5. TypeOK'
    BY <1>1, <1>2, <2>1, <2>2, <2>4 DEF TypeOK, TablesTyped, FleetTyped, Jobs, Statuses, Regs, Allocs
  <2>6. NoLeak'
    BY <1>0, <2>1, <2>4 DEF NoLeak
  <2>7. PendingIsQueued'
    BY <1>0, <2>2 DEF PendingIsQueued
  <2>8. CompletedIsCached'
    BY <1>0, <2>1, <2>2 DEF CompletedIsCached
  <2> QED  BY <2>5, <2>6, <2>7, <2>8 DEF IInv
<1>20. ASSUME NEW w \in Workers, WorkerSilent(w)
       PROVE  IInv'
  <2>1. /\ reg' = [reg EXCEPT ![w] = "offline"]
        /\ dying' = runs[w]
        /\ UNCHANGED <<world, tasks, need, load, runs, todo, jobs, beating, started, alloc, fails, cached>>
    BY <1>20 DEF WorkerSilent
  <2>2. TablesTyped' /\ FleetTyped' /\ dying' \subseteq Tasks
    BY <1>1, <2>1 DEF TablesTyped, FleetTyped, Regs, tasks
  <2>3. TypeOK'
    BY <1>1, <1>2, <2>1, <2>2 DEF TypeOK, TablesTyped, FleetTyped, Jobs, Statuses, Regs, Allocs
  <2> QED  BY <1>0, <2>1, <2>3 DEF IInv, PendingIsQueued, NoLeak, CompletedIsCached, tasks
<1>21. ASSUME NEW t \in Tasks, FailNext(t)
       PROVE  IInv'
  <2>1. /\ dying' = dying \ {t}
        /\ TaskFailed(t)
        /\ UNCHANGED <<world, need, jobs, beating, started, alloc, fails, cached>>
        /\ ScheduleNow \/ UNCHANGED todo
    BY <1>21 DEF FailNext
  <2>2. /\ TablesTyped' /\ status'[t] \in {"pending", "failed"}
        /\ status'[t] = "pending" => queued'[t] > 0
        /\ \A u \in Tasks \ {t} : status'[u] = status[u] /\ queued'[u] = queued[u]
    BY <1>1, <2>1, FailedTask DEF TablesTyped
  <2>3. FleetTyped'
    BY <1>1, <2>1, ReleasedFleet DEF TaskFailed
  <2>4. todo' \in [Tasks -> Nat]
    BY <1>2, <2>1, <2>2, Scheduled DEF TablesTyped
  <2>5. TypeOK'
    BY <1>1, <1>2, <2>1, <2>2, <2>3, <2>4 DEF TypeOK, TablesTyped, FleetTyped, Jobs, Statuses, Regs, Allocs
  <2>6. NoLeak'
    BY <1>0, <2>1 DEF NoLeak
  <2>7. PendingIsQueued'
    BY <1>0, <2>2 DEF PendingIsQueued
  <2>8. CompletedIsCached'
    BY <1>0, <2>1, <2>2 DEF CompletedIsCached
  <2> QED  BY <2>5, <2>6, <2>7, <2>8 DEF IInv
<1>22. CASE UNCHANGED vars
  BY <1>0, <1>22 DEF vars, IInv, TypeOK, PendingIsQueued, NoLeak, CompletedIsCached, tasks, fleet
<1> QED
  BY <1>3, <1>4, <1>5, <1>6, <1>7, <1>8, <1>9, <1>10, <1>11, <1>12, <1>13, <1>14, <1>15, <1>16,
     <1>17, <1>18, <1>19, <1>20, <1>21, <1>22
     DEF Next, Step, Handler

LEMMA Invariance == Spec => []IInv
<1>1. Init => IInv
  BY InitIInv
<1>2. IInv /\ [Next]_vars => IInv'
  BY StepIInv
<1> QED  BY <1>1, <1>2, PTL DEF Spec

(* The tables of the scheduler, the handlers, the allocations and the cache have  *)
(* their types.                                                                 *)
THEOREM RuntimeTypeCorrect == Spec => []TypeOK
<1>1. IInv => TypeOK
  BY DEF IInv
<1> QED  BY <1>1, Invariance, PTL

(* A waiting task is in the queue, whatever happens to workers and handlers:     *)
(* the scheduler's operations lose no task.                                     *)
THEOREM WaitingTasksAreQueued == Spec => []PendingIsQueued
<1>1. IInv => PendingIsQueued
  BY DEF IInv
<1> QED  BY <1>1, Invariance, PTL

(* Resources are held only for tasks that some handler runs.                     *)
THEOREM NothingLeaks == Spec => []NoLeak
<1>1. IInv => NoLeak
  BY DEF IInv
<1> QED  BY <1>1, Invariance, PTL

(* What is completed is in the cache.                                           *)
THEOREM CompletionsAreCached == Spec => []CompletedIsCached
<1>1. IInv => CompletedIsCached
  BY DEF IInv
<1> QED  BY <1>1, Invariance, PTL
-----------------------------------------------------------------------------
(* Steady worlds.  The invariant adds what the scheduler relies on there: every  *)
(* worker that registered beats and is up, no task is visited more often than   *)
(* it is queued, and an assigned task's worker is one that is up.               *)
Active == {"assigned", "running"}

Calm ==
  /\ dying = {} /\ started \subseteq beating
  /\ \A w \in Workers : reg[w] \in {"new", "up"} /\ (reg[w] = "up" => w \in beating)
  /\ \A t \in Tasks : todo[t] <= queued[t]
  /\ \A t \in Tasks : status[t] \in Active => reg[at[t]] = "up"

Tried(t) ==
  /\ tries[t] <= MaxRetries \/ MaxRetries = 0
  /\ status[t] \notin Final => tries[t] < MaxRetries \/ tries[t] = 0

SInv == Calm /\ \A t \in Tasks : InOnePlace(t) /\ Tried(t)

(* A task nothing happens to                                                   *)
Same(u) ==
  /\ status'[u] = status[u] /\ at'[u] = at[u]
  /\ queued'[u] = queued[u] /\ tries'[u] = tries[u]
  /\ \A v \in Workers : u \in runs'[v] <=> u \in runs[v]
  /\ \A v \in Workers, a \in Awaits : jobs'[<<u, v, a>>] = jobs[<<u, v, a>>]

LEMMA SamePlace ==
  ASSUME NEW u \in Tasks, InOnePlace(u), Tried(u), Same(u)
  PROVE  InOnePlace(u)' /\ Tried(u)'
<1>1. Tried(u)'
  BY DEF Same, Tried
<1>2. \A w \in Workers, await \in Awaits : OnlyJob(u, w, await) => OnlyJob(u, w, await)'
  BY DEF OnlyJob, Same
<1>3. NoJob(u) => NoJob(u)'
  BY DEF NoJob, Same
<1>4. \A w \in Workers : u \in runs'[w] <=> at'[u] = w /\ status'[u] \in {"assigned", "running"}
  BY DEF InOnePlace, Same
<1>5. CASE status[u] \in {"assigned", "running"}
  <2>1. queued[u] = 0 /\ at[u] \in Workers /\ \E await \in Awaits : OnlyJob(u, at[u], await)
    BY <1>5 DEF InOnePlace
  <2>2. PICK await \in Awaits : OnlyJob(u, at[u], await)
    BY <2>1
  <2>3. OnlyJob(u, at[u], await)'
    BY <2>1, <2>2 DEF OnlyJob, Same
  <2> QED  BY <1>1, <1>4, <1>5, <2>1, <2>3 DEF InOnePlace, Same, OnlyJob
<1>6. CASE status[u] \notin {"assigned", "running"}
  BY <1>1, <1>3, <1>4, <1>6 DEF InOnePlace, Same, NoJob
<1> QED  BY <1>5, <1>6

(* The task of a handler is assigned to the handler's worker and to no other,   *)
(* and this is its only handler.                                               *)
LEMMA HandlersTask ==
  ASSUME TypeOK, SInv, NEW t \in Tasks, NEW w \in Workers, NEW a \in Awaits,
         jobs[<<t, w, a>>] > 0
  PROVE  /\ status[t] \in Active /\ at[t] = w /\ queued[t] = 0 /\ todo[t] = 0
         /\ reg[w] = "up" /\ OnlyJob(t, w, a)
         /\ \A v \in Workers : t \in runs[v] <=> v = w
<1>1. InOnePlace(t) /\ Calm
  BY DEF SInv
<1>2. ~NoJob(t)
  BY DEF NoJob
<1>3. /\ status[t] \in Active /\ queued[t] = 0
      /\ \E await \in Awaits : OnlyJob(t, at[t], await)
  BY <1>1, <1>2 DEF InOnePlace, Active
<1>4. PICK await \in Awaits : OnlyJob(t, at[t], await)
  BY <1>3
<1>5. at[t] = w /\ await = a
  BY <1>4 DEF OnlyJob
<1>6. todo[t] = 0
  BY <1>1, <1>3 DEF Calm, TypeOK
<1>7. \A v \in Workers : t \in runs[v] <=> v = w
  BY <1>1, <1>3, <1>5 DEF InOnePlace, Active
<1> QED  BY <1>1, <1>3, <1>4, <1>5, <1>6, <1>7 DEF Calm

LEMMA OnlyJobMoves ==
  ASSUME jobs \in [Jobs -> Nat], NEW t \in Tasks, NEW w \in Workers,
         NEW from \in Awaits, NEW to \in Awaits \cup {"end"}, from # to,
         OnlyJob(t, w, from), Move(t, w, from, to)
  PROVE  /\ to \in Awaits => OnlyJob(t, w, to)'
         /\ to = "end" => NoJob(t)'
<1>1. jobs[<<t, w, from>>] = 1
  BY DEF OnlyJob
<1>2. \A j \in Jobs : jobs'[j] = IF j = <<t, w, from>> THEN jobs[j] - 1
                                 ELSE IF j = <<t, w, to>> THEN jobs[j] + 1 ELSE jobs[j]
  BY <1>1, MoveCounts
<1>3. ASSUME NEW v \in Workers, NEW a \in Awaits
      PROVE  jobs'[<<t, v, a>>] = IF v = w /\ a = to THEN 1 ELSE 0
  <2>1. <<t, v, a>> \in Jobs
    BY DEF Jobs
  <2>2. jobs[<<t, v, a>>] = IF v = w /\ a = from THEN 1 ELSE 0
    BY DEF OnlyJob
  <2>3. <<t, v, a>> = <<t, w, from>> <=> v = w /\ a = from
    OBVIOUS
  <2>4. <<t, v, a>> = <<t, w, to>> <=> v = w /\ a = to
    OBVIOUS
  <2> QED  BY <1>2, <2>1, <2>2, <2>3, <2>4
<1>4. to \in Awaits => OnlyJob(t, w, to)'
  BY <1>3 DEF OnlyJob
<1>5. to = "end" => NoJob(t)'
  <2>1. "end" \notin Awaits
    BY DEF Awaits
  <2> QED  BY <1>3, <2>1 DEF NoJob
<1> QED  BY <1>4, <1>5

(* Releasing the task of a handler takes it from its worker's list, no other    *)
(* from any, and leaves the workers as they were.                              *)
LEMMA ReleasedOnly ==
  ASSUME TypeOK, SInv, NEW t \in Tasks, NEW w \in Workers, NEW a \in Awaits,
         jobs[<<t, w, a>>] > 0, Release(t)
  PROVE  /\ reg' = reg
         /\ \A v \in Workers : t \notin runs'[v]
         /\ \A u \in Tasks \ {t}, v \in Workers : u \in runs'[v] <=> u \in runs[v]
<1>1. at[t] = w /\ reg[w] = "up" /\ \A v \in Workers : t \in runs[v] <=> v = w
  BY HandlersTask
<1>2. Known(w) /\ w # None
  BY <1>1, TasksAssumption DEF Known
<1>3. runs' = [runs EXCEPT ![w] = @ \ {t}] /\ reg' = [reg EXCEPT ![w] = "up"]
  BY <1>1, <1>2 DEF Release
<1>4. reg \in [Workers -> Regs] /\ runs \in [Workers -> SUBSET Tasks]
  BY Parts DEF FleetTyped
<1>5. reg' = reg
  BY <1>1, <1>3, <1>4
<1> QED  BY <1>1, <1>3, <1>4, <1>5

(* What a step has to show: about the workers, and about the tasks it is for.     *)
Settled(u) ==
  /\ InOnePlace(u)' /\ Tried(u)'
  /\ status'[u] \in Active => reg'[at'[u]] = "up"

LEMMA SteadyKept ==
  ASSUME SInv, dying' = dying, started' \subseteq beating',
         \A w \in Workers : reg'[w] = reg[w] \/ reg'[w] = "up",
         \A w \in Workers : reg'[w] = "up" => w \in beating',
         \A t \in Tasks : todo'[t] <= queued'[t],
         \A u \in Tasks : Same(u) \/ Settled(u)
  PROVE  SInv'
<1>1. ASSUME NEW u \in Tasks
      PROVE  InOnePlace(u)' /\ Tried(u)' /\ (status'[u] \in Active => reg'[at'[u]] = "up")
  <2>1. CASE Same(u)
    <3>1. InOnePlace(u) /\ Tried(u) /\ Calm
      BY DEF SInv
    <3>2. InOnePlace(u)' /\ Tried(u)'
      BY <2>1, <3>1, SamePlace
    <3>3. ASSUME status'[u] \in Active
          PROVE  reg'[at'[u]] = "up"
      <4>1. status[u] \in Active /\ at'[u] = at[u]
        BY <2>1, <3>3 DEF Same
      <4>2. reg[at[u]] = "up" /\ at[u] \in Workers
        BY <3>1, <4>1 DEF Calm, InOnePlace, Active
      <4> QED  BY <4>1, <4>2
    <3> QED  BY <3>2, <3>3
  <2>2. CASE Settled(u)
    BY <2>2 DEF Settled
  <2> QED  BY <2>1, <2>2
<1>2. Calm'
  <2>1. Calm
    BY DEF SInv
  <2>2. \A w \in Workers : reg'[w] \in {"new", "up"}
    BY <2>1 DEF Calm
  <2>3. dying' = {}
    BY <2>1 DEF Calm
  <2> QED  BY <1>1, <2>2, <2>3 DEF Calm
<1> QED  BY <1>1, <1>2 DEF SInv

(* A handler's task that goes back to the queue, is failed or completed          *)
LEMMA Ended ==
  ASSUME TypeOK, SInv, NEW t \in Tasks, NEW w \in Workers, NEW a \in Awaits,
         jobs[<<t, w, a>>] > 0, Move(t, w, a, "end"), TaskFailed(t) \/ TaskCompleted(t)
  PROVE  /\ Settled(t) /\ \A u \in Tasks \ {t} : Same(u)
         /\ reg' = reg /\ queued' \in [Tasks -> Nat]
         /\ \A u \in Tasks : queued'[u] >= queued[u]
<1>1. /\ TablesTyped /\ jobs \in [Jobs -> Nat] /\ Tried(t)
  BY Parts DEF SInv
<1>2. /\ status[t] \in Active /\ at[t] = w /\ queued[t] = 0 /\ OnlyJob(t, w, a)
  BY HandlersTask
<1>3. /\ reg' = reg
      /\ \A v \in Workers : t \notin runs'[v]
      /\ \A u \in Tasks \ {t}, v \in Workers : u \in runs'[v] <=> u \in runs[v]
  BY ReleasedOnly DEF TaskFailed, TaskCompleted
<1>4. a # "end" /\ "end" \in Awaits \cup {"end"}
  BY DEF Awaits
<1>5. NoJob(t)'
  BY <1>1, <1>2, <1>4, OnlyJobMoves
<1>6. \A u \in Tasks \ {t}, v \in Workers, b \in Awaits : jobs'[<<u, v, b>>] = jobs[<<u, v, b>>]
  BY <1>1, <1>4, OthersStay
<1>7. CASE TaskFailed(t)
  <2>1. /\ TablesTyped'
        /\ \A u \in Tasks \ {t} : /\ status'[u] = status[u] /\ at'[u] = at[u]
                                  /\ tries'[u] = tries[u] /\ queued'[u] = queued[u]
        /\ tries'[t] = tries[t] + 1
        /\ IF MayRetry(t)
           THEN status'[t] = "pending" /\ at'[t] = None /\ queued'[t] = queued[t] + 1
           ELSE status'[t] = "failed" /\ at'[t] = at[t] /\ queued'[t] = queued[t]
    BY <1>1, <1>7, FailedTask
  <2>2. \A u \in Tasks \ {t} : Same(u)
    BY <1>3, <1>6, <2>1 DEF Same
  <2>3. tries[t] \in Nat /\ MaxRetries \in Nat
    BY <1>1, TasksAssumption DEF TablesTyped
  <2>4. Tried(t)'
    BY <1>1, <1>2, <2>1, <2>3 DEF Tried, MayRetry, Active, Final
  <2>5. InOnePlace(t)'
    <3>1. \A v \in Workers : v # None
      BY TasksAssumption
    <3>2. CASE MayRetry(t)
      BY <1>2, <1>3, <1>5, <2>1, <3>2 DEF InOnePlace
    <3>3. CASE ~MayRetry(t)
      BY <1>2, <1>3, <1>5, <2>1, <3>3 DEF InOnePlace
    <3> QED  BY <3>2, <3>3
  <2>6. Settled(t)
    BY <2>1, <2>4, <2>5 DEF Settled, Active
  <2>7. \A u \in Tasks : queued'[u] >= queued[u]
    BY <1>1, <2>1 DEF TablesTyped
  <2> QED  BY <1>3, <2>1, <2>2, <2>6, <2>7 DEF TablesTyped
<1>8. CASE TaskCompleted(t)
  <2>1. /\ TablesTyped' /\ status'[t] = "completed"
        /\ \A u \in Tasks \ {t} : status'[u] = status[u]
        /\ UNCHANGED <<at, tries, queued>>
    BY <1>1, <1>8, CompletedTask
  <2>2. \A u \in Tasks \ {t} : Same(u)
    BY <1>3, <1>6, <2>1 DEF Same
  <2>3. Tried(t)'
    BY <1>1, <2>1 DEF Tried, Final
  <2>4. InOnePlace(t)'
    BY <1>2, <1>3, <1>5, <2>1 DEF InOnePlace
  <2>5. Settled(t)
    BY <2>1, <2>3, <2>4 DEF Settled, Active
  <2>6. \A u \in Tasks : queued'[u] >= queued[u]
    BY <1>1, <2>1 DEF TablesTyped
  <2> QED  BY <1>1, <1>3, <2>1, <2>2, <2>5, <2>6 DEF TablesTyped
<1> QED  BY <1>7, <1>8

(* A handler's task that goes on                                               *)
LEMMA Moved ==
  ASSUME TypeOK, SInv, NEW t \in Tasks, NEW w \in Workers, NEW a \in Awaits, NEW b \in Awaits,
         a # b, jobs[<<t, w, a>>] > 0, Move(t, w, a, b),
         UNCHANGED <<at, tries, queued, fleet>>,
         status' = status \/ status' = [status EXCEPT ![t] = "running"]
  PROVE  Settled(t) /\ \A u \in Tasks \ {t} : Same(u)
<1>1. TablesTyped /\ jobs \in [Jobs -> Nat] /\ Tried(t) /\ InOnePlace(t)
  BY Parts DEF SInv
<1>2. /\ status[t] \in Active /\ at[t] = w /\ queued[t] = 0 /\ OnlyJob(t, w, a) /\ reg[w] = "up"
      /\ \A v \in Workers : t \in runs[v] <=> v = w
  BY HandlersTask
<1>3. OnlyJob(t, w, b)'
  BY <1>1, <1>2, OnlyJobMoves
<1>4. \A u \in Tasks \ {t}, v \in Workers, c \in Awaits : jobs'[<<u, v, c>>] = jobs[<<u, v, c>>]
  BY <1>1, OthersStay
<1>5. status'[t] \in Active /\ \A u \in Tasks \ {t} : status'[u] = status[u]
  BY <1>1, <1>2 DEF TablesTyped, Active
<1>6. \A u \in Tasks \ {t} : Same(u)
  BY <1>4, <1>5 DEF Same, fleet
<1>7. Tried(t)'
  BY <1>1, <1>2, <1>5 DEF Tried, Active, Final
<1>8. InOnePlace(t)'
  <2>1. at'[t] = w /\ queued'[t] = 0 /\ status'[t] \in {"assigned", "running"}
        /\ \A v \in Workers : t \in runs'[v] <=> v = w
    BY <1>2, <1>5 DEF fleet, Active
  <2>2. \E await \in Awaits : OnlyJob(t, w, await)'
    BY <1>3
  <2> QED  BY <2>1, <2>2 DEF InOnePlace, OnlyJob
<1>9. status'[t] \in Active => reg'[at'[t]] = "up"
  BY <1>2 DEF fleet
<1> QED  BY <1>6, <1>7, <1>8, <1>9 DEF Settled

(* A failure in a steady world: nobody is quarantined.                           *)
LEMMA SteadyFailure ==
  ASSUME TypeOK, SInv, NEW t \in Tasks, NEW w \in Workers, NEW a \in Awaits, a # "delay",
         jobs[<<t, w, a>>] > 0, NEW blamed, NEW type, type # "offline",
         HandleTaskFailure(t, w, a, blamed, type), UNCHANGED <<dying, beating, started>>
  PROVE  SInv'
<1>0. Calm
  BY DEF SInv
<1>1. CASE fails[t] >= MaxRetries
  <2>1. TaskFailed(t) /\ Move(t, w, a, "end") /\ ScheduleNow
    BY <1>1 DEF HandleTaskFailure
  <2>2. /\ Settled(t) /\ \A u \in Tasks \ {t} : Same(u)
        /\ reg' = reg /\ queued' \in [Tasks -> Nat]
    BY <2>1, Ended
  <2>3. \A u \in Tasks : todo'[u] <= queued'[u]
    BY <2>1, <2>2, Scheduled
  <2>4. started' \subseteq beating' /\ \A v \in Workers : reg'[v] = "up" => v \in beating'
    BY <1>0, <2>2 DEF Calm
  <2> QED  BY <2>2, <2>3, <2>4, SteadyKept
<1>2. CASE ~(fails[t] >= MaxRetries)
  <2>1. Move(t, w, a, "delay") /\ UNCHANGED <<tasks, fleet, todo>>
    BY <1>2 DEF HandleTaskFailure
  <2>2. "delay" \in Awaits
    BY DEF Awaits
  <2>3. UNCHANGED <<at, tries, queued, fleet>> /\ status' = status /\ todo' = todo
    BY <2>1 DEF tasks
  <2>4. Settled(t) /\ \A u \in Tasks \ {t} : Same(u)
    BY <2>1, <2>2, <2>3, Moved
  <2>5. /\ \A u \in Tasks : todo'[u] <= queued'[u]
        /\ started' \subseteq beating' /\ reg' = reg
        /\ \A v \in Workers : reg'[v] = "up" => v \in beating'
    BY <1>0, <2>3 DEF Calm, fleet
  <2> QED  BY <2>4, <2>5, SteadyKept
<1> QED  BY <1>1, <1>2

LEMMA SteadyStep ==
  ASSUME TypeOK, Steady, SInv, [Next]_vars
  PROVE  SInv'
<1>0. Calm /\ \A t \in Tasks : InOnePlace(t) /\ Tried(t)
  BY DEF SInv
<1>1. TablesTyped /\ FleetTyped /\ jobs \in [Jobs -> Nat] /\ todo \in [Tasks -> Nat]
  BY Parts DEF TypeOK
<1>2. "offline" \notin world /\ "cancel" \notin world /\ "stop" \notin world
  BY DEF Steady
<1>3. ASSUME NEW t \in Tasks, Submit(t)
      PROVE  SInv'
  <2>1. /\ status[t] = "new"
        /\ status' = [status EXCEPT ![t] = "pending"]
        /\ queued' = [queued EXCEPT ![t] = @ + 1]
        /\ UNCHANGED <<world, at, tries, need, fleet, dying, jobs, beating, started, alloc, fails, cached>>
        /\ ScheduleNow
    BY <1>3 DEF Submit
  <2>2. queued' \in [Tasks -> Nat]
    BY <1>1, <2>1 DEF TablesTyped
  <2>3. \A u \in Tasks : todo'[u] <= queued'[u]
    BY <2>1, <2>2, Scheduled
  <2>4. ASSUME NEW u \in Tasks \ {t}
        PROVE  Same(u)
    BY <1>1, <2>1 DEF Same, TablesTyped, fleet
  <2>5. Settled(t)
    <3>1. queued[t] = 0 /\ at[t] = None /\ NoJob(t) /\ \A w \in Workers : t \notin runs[w]
      BY <1>0, <2>1 DEF InOnePlace
    <3>2. status'[t] = "pending" /\ queued'[t] = 1 /\ at'[t] = None /\ NoJob(t)'
          /\ \A w \in Workers : t \notin runs'[w]
      BY <1>1, <2>1, <3>1 DEF TablesTyped, NoJob, fleet
    <3>3. Tried(t)'
      BY <1>0, <2>1, <3>2 DEF Tried, Final
    <3> QED  BY <3>2, <3>3, TasksAssumption DEF Settled, InOnePlace, Active
  <2>6. /\ reg' = reg /\ dying' = dying /\ started' \subseteq beating'
        /\ \A v \in Workers : reg'[v] = "up" => v \in beating'
    BY <1>0, <2>1 DEF Calm, fleet
  <2> QED  BY <2>3, <2>4, <2>5, <2>6, SteadyKept
<1>4. ASSUME NEW w \in Workers, AddWorker(w)
      PROVE  SInv'
  <2>1. /\ reg' = [reg EXCEPT ![w] = "up"]
        /\ beating' = beating \cup {w} /\ started' = started \cup {w}
        /\ UNCHANGED <<world, tasks, need, load, runs, dying, jobs, alloc, fails, cached>>
        /\ ScheduleNow
    BY <1>4 DEF AddWorker
  <2>2. \A u \in Tasks : todo'[u] <= queued'[u]
    BY <1>1, <2>1, Scheduled DEF TablesTyped, tasks
  <2>3. ASSUME NEW u \in Tasks
        PROVE  Same(u)
    BY <2>1 DEF Same, tasks
  <2>4. /\ \A v \in Workers : reg'[v] = reg[v] \/ reg'[v] = "up"
        /\ dying' = dying /\ started' \subseteq beating'
        /\ \A v \in Workers : reg'[v] = "up" => v \in beating'
    BY <1>0, <1>1, <2>1 DEF Calm, FleetTyped
  <2> QED  BY <2>2, <2>3, <2>4, SteadyKept
<1>5. CASE Tick
  <2>1. /\ UNCHANGED <<world, tasks, need, fleet, dying, jobs, beating, started, alloc, fails, cached>>
        /\ ScheduleNow
    BY <1>5 DEF Tick
  <2>2. \A u \in Tasks : todo'[u] <= queued'[u]
    BY <1>1, <2>1, Scheduled DEF TablesTyped, tasks
  <2>3. ASSUME NEW u \in Tasks
        PROVE  Same(u)
    BY <2>1 DEF Same, tasks, fleet
  <2>4. /\ reg' = reg /\ dying' = dying /\ started' \subseteq beating'
        /\ \A v \in Workers : reg'[v] = "up" => v \in beating'
    BY <1>0, <2>1 DEF Calm, fleet
  <2> QED  BY <2>2, <2>3, <2>4, SteadyKept
<1>6. ASSUME NEW t \in Tasks, NEW w \in Workers, AssignTask(t, w)
      PROVE  SInv'
  <2>1. /\ todo[t] > 0 /\ reg[w] = "up"
        /\ status' = [status EXCEPT ![t] = "assigned"]
        /\ at' = [at EXCEPT ![t] = w]
        /\ runs' = [runs EXCEPT ![w] = @ \cup {t}]
        /\ queued' = [queued EXCEPT ![t] = 0]
        /\ jobs' = [jobs EXCEPT ![<<t, w, "lookup">>] = @ + 1]
        /\ todo' = [todo EXCEPT ![t] = @ - 1]
        /\ UNCHANGED <<world, tries, need, reg, dying, beating, started, alloc, fails, cached>>
    BY <1>6 DEF AssignTask, Suitable
  <2>2. /\ status[t] = "pending" /\ queued[t] = 1 /\ todo[t] = 1 /\ NoJob(t) /\ at[t] = None
        /\ \A v \in Workers : t \notin runs[v]
    <3>1. todo[t] <= queued[t] /\ queued[t] > 0
      BY <1>0, <1>1, <2>1 DEF Calm, TablesTyped
    <3> QED  BY <1>0, <1>1, <2>1, <3>1 DEF InOnePlace, TablesTyped
  <2>3. \A u \in Tasks : todo'[u] <= queued'[u]
    BY <1>0, <1>1, <2>1, <2>2 DEF Calm, TablesTyped
  <2>4. <<t, w, "lookup">> \in Jobs /\ "lookup" \in Awaits
    BY DEF Jobs, Awaits
  <2>5. ASSUME NEW u \in Tasks \ {t}
        PROVE  Same(u)
    <3>1. \A v \in Workers, a \in Awaits : jobs'[<<u, v, a>>] = jobs[<<u, v, a>>]
      <4> TAKE v \in Workers, a \in Awaits
      <4>1. <<u, v, a>> \in Jobs /\ <<u, v, a>> # <<t, w, "lookup">>
        BY DEF Jobs
      <4> QED  BY <1>1, <2>1, <4>1
    <3>2. \A v \in Workers : u \in runs'[v] <=> u \in runs[v]
      BY <1>1, <2>1 DEF FleetTyped
    <3> QED  BY <1>1, <2>1, <3>1, <3>2 DEF Same, TablesTyped
  <2>6. OnlyJob(t, w, "lookup")'
    <3>1. ASSUME NEW v \in Workers, NEW a \in Awaits
          PROVE  jobs'[<<t, v, a>>] = IF v = w /\ a = "lookup" THEN 1 ELSE 0
      <4>1. <<t, v, a>> \in Jobs /\ jobs[<<t, v, a>>] = 0
        BY <2>2 DEF Jobs, NoJob
      <4>2. <<t, v, a>> = <<t, w, "lookup">> <=> v = w /\ a = "lookup"
        OBVIOUS
      <4> QED  BY <1>1, <2>1, <4>1, <4>2
    <3> QED  BY <3>1 DEF OnlyJob
  <2>7. InOnePlace(t)'
    <3>1. /\ status'[t] = "assigned" /\ queued'[t] = 0 /\ at'[t] = w
          /\ \A v \in Workers : t \in runs'[v] <=> v = w
      BY <1>1, <2>1, <2>2 DEF TablesTyped, FleetTyped
    <3>2. \E await \in Awaits : OnlyJob(t, w, await)'
      BY <2>4, <2>6
    <3> QED  BY <3>1, <3>2 DEF InOnePlace, OnlyJob
  <2>8. Settled(t)
    BY <1>0, <1>1, <2>1, <2>2, <2>7 DEF Settled, Tried, TablesTyped, Final
  <2>9. /\ started' \subseteq beating'
        /\ \A v \in Workers : reg'[v] = "up" => v \in beating'
    BY <1>0, <2>1 DEF Calm
  <2> QED  BY <2>1, <2>3, <2>5, <2>8, <2>9, SteadyKept
<1>7. ASSUME NEW t \in Tasks, SkipTask(t)
      PROVE  SInv'
  <2>1. /\ todo[t] > 0 /\ todo' = [todo EXCEPT ![t] = @ - 1]
        /\ UNCHANGED <<world, tasks, need, fleet, dying, jobs, beating, started, alloc, fails, cached>>
    BY <1>7 DEF SkipTask
  <2>2. \A u \in Tasks : todo'[u] <= queued'[u]
    BY <1>0, <1>1, <2>1 DEF Calm, TablesTyped, tasks
  <2>3. ASSUME NEW u \in Tasks
        PROVE  Same(u)
    BY <2>1 DEF Same, tasks, fleet
  <2>4. /\ reg' = reg /\ dying' = dying /\ started' \subseteq beating'
        /\ \A v \in Workers : reg'[v] = "up" => v \in beating'
    BY <1>0, <2>1 DEF Calm, fleet
  <2> QED  BY <2>2, <2>3, <2>4, SteadyKept
<1>8. ASSUME NEW w \in Workers, Heartbeat(w)
      PROVE  SInv'
  <2>1. /\ w \in beating /\ reg' = [reg EXCEPT ![w] = "up"]
        /\ UNCHANGED <<world, tasks, need, runs, todo, dying, jobs, beating, started, alloc, fails, cached>>
    BY <1>8 DEF Heartbeat
  <2>2. ASSUME NEW u \in Tasks
        PROVE  Same(u)
    BY <2>1 DEF Same, tasks
  <2>3. /\ \A v \in Workers : reg'[v] = reg[v] \/ reg'[v] = "up"
        /\ dying' = dying /\ started' \subseteq beating'
        /\ \A v \in Workers : reg'[v] = "up" => v \in beating'
        /\ \A u \in Tasks : todo'[u] <= queued'[u]
    BY <1>0, <1>1, <2>1 DEF Calm, FleetTyped, tasks
  <2> QED  BY <2>2, <2>3, SteadyKept
<1>9. ASSUME NEW t \in Tasks, NEW w \in Workers, LookupHit(t, w)
      PROVE  SInv'
  <2>1. /\ TaskCompleted(t) /\ Move(t, w, "lookup", "end") /\ jobs[<<t, w, "lookup">>] > 0
        /\ UNCHANGED <<dying, beating, started, todo>>
    BY <1>9 DEF LookupHit
  <2>2. "lookup" \in Awaits
    BY DEF Awaits
  <2>3. /\ Settled(t) /\ \A u \in Tasks \ {t} : Same(u)
        /\ reg' = reg
    BY <2>1, <2>2, Ended
  <2>4. /\ started' \subseteq beating'
        /\ \A v \in Workers : reg'[v] = "up" => v \in beating'
        /\ \A u \in Tasks : todo'[u] <= queued'[u]
    BY <1>0, <2>1, <2>3 DEF Calm, TaskCompleted
  <2> QED  BY <2>1, <2>3, <2>4, SteadyKept
<1>10. ASSUME NEW t \in Tasks, NEW w \in Workers, ExecuteTask(t, w)
       PROVE  SInv'
  <2>1. /\ status' = [status EXCEPT ![t] = "running"]
        /\ jobs[<<t, w, "lookup">>] > 0 /\ Move(t, w, "lookup", "run")
        /\ UNCHANGED <<at, tries, queued, fleet>> /\ UNCHANGED <<todo, dying, beating, started>>
    BY <1>10 DEF ExecuteTask
  <2>2. "lookup" \in Awaits /\ "run" \in Awaits
    BY DEF Awaits
  <2>3. Settled(t) /\ \A u \in Tasks \ {t} : Same(u)
    BY <2>1, <2>2, Moved
  <2>4. /\ reg' = reg /\ started' \subseteq beating'
        /\ \A v \in Workers : reg'[v] = "up" => v \in beating'
        /\ \A u \in Tasks : todo'[u] <= queued'[u]
    BY <1>0, <2>1 DEF Calm, fleet
  <2> QED  BY <2>1, <2>3, <2>4, SteadyKept
<1>11. ASSUME NEW t \in Tasks, NEW w \in Workers, ExecuteRefused(t, w)
       PROVE  SInv'
  <2>1. PICK type \in {"error", "exhausted"} : HandleTaskFailure(t, w, "lookup", w, type)
    BY <1>11 DEF ExecuteRefused
  <2>2. jobs[<<t, w, "lookup">>] > 0 /\ UNCHANGED <<dying, beating, started>>
    BY <1>11 DEF ExecuteRefused
  <2>3. "lookup" \in Awaits
    BY DEF Awaits
  <2> QED  BY <2>1, <2>2, <2>3, SteadyFailure
<1>12. ASSUME NEW t \in Tasks, NEW w \in Workers, Finish(t, w)
       PROVE  SInv'
  <2>1. /\ jobs[<<t, w, "run">>] > 0 /\ Move(t, w, "run", "put")
        /\ UNCHANGED <<tasks, fleet>> /\ UNCHANGED <<todo, dying, beating, started>>
    BY <1>12 DEF Finish
  <2>2. "run" \in Awaits /\ "put" \in Awaits
    BY DEF Awaits
  <2>3. Settled(t) /\ \A u \in Tasks \ {t} : Same(u)
    BY <2>1, <2>2, Moved DEF tasks
  <2>4. /\ reg' = reg /\ started' \subseteq beating'
        /\ \A v \in Workers : reg'[v] = "up" => v \in beating'
        /\ \A u \in Tasks : todo'[u] <= queued'[u]
    BY <1>0, <2>1 DEF Calm, fleet, tasks
  <2> QED  BY <2>1, <2>3, <2>4, SteadyKept
<1>13. ASSUME NEW t \in Tasks, NEW w \in Workers, ExecutorFails(t, w)
       PROVE  SInv'
  <2>1. HandleTaskFailure(t, w, "run", at[t], "error")
    BY <1>2, <1>13 DEF ExecutorFails
  <2>2. jobs[<<t, w, "run">>] > 0 /\ UNCHANGED <<dying, beating, started>>
    BY <1>13 DEF ExecutorFails
  <2>3. "run" \in Awaits
    BY DEF Awaits
  <2> QED  BY <2>1, <2>2, <2>3, SteadyFailure
<1>14. ASSUME NEW t \in Tasks, NEW w \in Workers, PutFails(t, w)
       PROVE  SInv'
  <2>1. HandleTaskFailure(t, w, "put", at[t], "error")
    BY <1>14 DEF PutFails
  <2>2. jobs[<<t, w, "put">>] > 0 /\ UNCHANGED <<dying, beating, started>>
    BY <1>14 DEF PutFails
  <2>3. "put" \in Awaits
    BY DEF Awaits
  <2> QED  BY <2>1, <2>2, <2>3, SteadyFailure
<1>15. ASSUME NEW t \in Tasks, NEW w \in Workers, NEW a \in {"put", "delay"},
              jobs[<<t, w, a>>] > 0, Move(t, w, a, "end"), TaskFailed(t) \/ TaskCompleted(t),
              UNCHANGED <<dying, beating, started>>, ScheduleNow
       PROVE  SInv'
  <2>1. a \in Awaits
    BY DEF Awaits
  <2>2. /\ Settled(t) /\ \A u \in Tasks \ {t} : Same(u)
        /\ reg' = reg /\ queued' \in [Tasks -> Nat]
    BY <1>15, <2>1, Ended
  <2>3. \A u \in Tasks : todo'[u] <= queued'[u]
    BY <1>15, <2>2, Scheduled
  <2>4. /\ started' \subseteq beating'
        /\ \A v \in Workers : reg'[v] = "up" => v \in beating'
    BY <1>0, <1>15, <2>2 DEF Calm
  <2> QED  BY <1>15, <2>2, <2>3, <2>4, SteadyKept
<1>16. ASSUME NEW t \in Tasks, NEW w \in Workers, ReportCompleted(t, w)
       PROVE  SInv'
  BY <1>15, <1>16 DEF ReportCompleted
<1>17. ASSUME NEW t \in Tasks, NEW w \in Workers, FailAfterDelay(t, w)
       PROVE  SInv'
  BY <1>15, <1>17 DEF FailAfterDelay
<1>18. /\ \A t \in Tasks : ~CancelTask(t) /\ ~FailNext(t)
       /\ \A w \in Workers : ~StopWorker(w) /\ ~StoppedWorker(w) /\ ~WorkerSilent(w)
  BY <1>0, <1>2 DEF Calm, CancelTask, FailNext, StopWorker, StoppedWorker, WorkerSilent
<1>19. CASE UNCHANGED vars
  <2>1. \A u \in Tasks : Same(u)
    BY <1>19 DEF vars, Same, tasks, fleet
  <2>2. /\ reg' = reg /\ dying' = dying /\ started' \subseteq beating'
        /\ \A v \in Workers : reg'[v] = "up" => v \in beating'
        /\ \A u \in Tasks : todo'[u] <= queued'[u]
    BY <1>0, <1>19 DEF Calm, vars, fleet, tasks
  <2> QED  BY <2>1, <2>2, SteadyKept
<1> QED
  BY <1>3, <1>4, <1>5, <1>6, <1>7, <1>8, <1>9, <1>10, <1>11, <1>12, <1>13, <1>14, <1>16, <1>17,
     <1>18, <1>19
     DEF Next, Step, Handler

LEMMA SteadyInit ==
  ASSUME Init
  PROVE  SInv
<1>1. Calm
  BY DEF Init, Calm, Nobody, Active
<1>2. ASSUME NEW t \in Tasks
      PROVE  InOnePlace(t) /\ Tried(t)
  <2>1. NoJob(t)
    BY DEF Init, NoJob
  <2>2. InOnePlace(t)
    BY <2>1, TasksAssumption DEF Init, InOnePlace, Nobody
  <2>3. Tried(t)
    BY TasksAssumption DEF Init, Tried, Nobody
  <2> QED  BY <2>2, <2>3
<1> QED  BY <1>1, <1>2 DEF SInv

LEMMA SteadyInvariance == Spec => [](Steady => SInv)
<1>1. Init => (Steady => SInv)
  BY SteadyInit
<1>2. IInv /\ (Steady => SInv) /\ [Next]_vars => (Steady => SInv)'
  <2> SUFFICES ASSUME IInv, Steady => SInv, [Next]_vars, Steady'
               PROVE  SInv'
    OBVIOUS
  <2>1. TypeOK
    BY DEF IInv
  <2>2. Steady
    <3>1. ASSUME NEW t \in Tasks, Submit(t) \/ CancelTask(t) \/ SkipTask(t) \/ FailNext(t)
          PROVE  world' = world
      BY <3>1 DEF Submit, CancelTask, SkipTask, FailNext
    <3>2. ASSUME NEW w \in Workers, \/ AddWorker(w) \/ StopWorker(w) \/ StoppedWorker(w)
                                   \/ WorkerSilent(w) \/ Heartbeat(w)
          PROVE  world' = world
      BY <3>2 DEF AddWorker, StopWorker, StoppedWorker, WorkerSilent, Heartbeat
    <3>3. ASSUME NEW t \in Tasks, NEW w \in Workers, Handler(t, w)
          PROVE  world' = world
      BY <3>3 DEF Handler, AssignTask, LookupHit, ExecuteTask, ExecuteRefused, Finish,
                  ExecutorFails, ReportCompleted, PutFails, FailAfterDelay
    <3>4. Tick \/ UNCHANGED vars => world' = world
      BY DEF Tick, vars
    <3>5. world' = world
      BY <3>1, <3>2, <3>3, <3>4 DEF Next, Step
    <3> QED  BY <3>5 DEF Steady
  <2> QED  BY <2>1, <2>2, SteadyStep
<1> QED  BY <1>1, <1>2, Invariance, PTL DEF Spec

(* In a steady world a task is in one place only: queued once, with the one       *)
(* handler of the worker it is assigned to, or done.                             *)
THEOREM TasksInOnePlace == Spec => []OnePlace
<1>1. (Steady => SInv) => OnePlace
  BY DEF SInv, OnePlace
<1> QED  BY <1>1, SteadyInvariance, PTL

(* In a steady world no task is tried more often than it may be.                 *)
THEOREM TriesAreCounted == Spec => []RetriesBounded
<1>1. (Steady => SInv) => RetriesBounded
  BY DEF SInv, RetriesBounded, Tried
<1> QED  BY <1>1, SteadyInvariance, PTL
-----------------------------------------------------------------------------
(* Steady tasks move on: how far a task is within one try.                       *)
HandledAt(t, a) == \E w \in Workers : jobs[<<t, w, a>>] > 0

Phase(t) ==
  CASE status[t] = "new"      -> 0
    [] status[t] = "pending"  -> 1
    [] status[t] \in Final    -> 6
    [] status[t] \in Active /\ HandledAt(t, "lookup") -> 2
    [] status[t] \in Active /\ HandledAt(t, "run")    -> 3
    [] status[t] \in Active /\ HandledAt(t, "put")    -> 4
    [] OTHER -> 5

Turn(a) == CASE a = "lookup" -> 2 [] a = "run" -> 3 [] a = "put" -> 4 [] OTHER -> 5

Stays(t)   == UNCHANGED <<status[t], tries[t], Phase(t)>>
MovesOn(t) == \/ status[t] \in Active /\ tries'[t] = tries[t] + 1
              \/ tries'[t] = tries[t] /\ Phase(t) < Phase(t)'
Onward(t)  == Stays(t) \/ MovesOn(t)

LEMMA SameStays == ASSUME NEW u \in Tasks, Same(u) PROVE Onward(u)
<1>1. \A a \in Awaits : HandledAt(u, a)' <=> HandledAt(u, a)
  BY DEF Same, HandledAt
<1>2. "lookup" \in Awaits /\ "run" \in Awaits /\ "put" \in Awaits
  BY DEF Awaits
<1>3. status'[u] = status[u] /\ tries'[u] = tries[u]
  BY DEF Same
<1>4. Phase(u)' = Phase(u)
  BY <1>1, <1>2, <1>3 DEF Phase
<1> QED  BY <1>3, <1>4 DEF Onward, Stays

(* A task with a handler is as far as its handler.                              *)
LEMMA HandledPhase ==
  ASSUME NEW t \in Tasks, NEW w \in Workers, NEW a \in Awaits, status[t] \in Active, OnlyJob(t, w, a)
  PROVE  Phase(t) = Turn(a)
<1>1. ASSUME NEW b \in Awaits PROVE HandledAt(t, b) <=> b = a
  <2>1. \A v \in Workers : jobs[<<t, v, b>>] > 0 <=> v = w /\ b = a
    BY DEF OnlyJob
  <2> QED  BY <2>1 DEF HandledAt
<1>2. Awaits = {"lookup", "run", "put", "delay"}
  BY DEF Awaits
<1>3. status[t] \notin {"new", "pending"} \cup Final
  BY DEF Active, Final
<1> QED  BY <1>1, <1>2, <1>3 DEF Phase, Turn

(* A handler that goes on, and one that is done.                                *)
LEMMA MovedOnward ==
  ASSUME TypeOK, SInv, NEW t \in Tasks, NEW w \in Workers, NEW a \in Awaits, NEW b \in Awaits,
         Turn(a) < Turn(b), jobs[<<t, w, a>>] > 0, Move(t, w, a, b),
         UNCHANGED <<at, tries, queued, fleet>>,
         status' = status \/ status' = [status EXCEPT ![t] = "running"]
  PROVE  \A u \in Tasks : Onward(u)
<1>1. TablesTyped /\ jobs \in [Jobs -> Nat]
  BY Parts
<1>2. a # b
  BY DEF Turn, Awaits
<1>3. status[t] \in Active /\ OnlyJob(t, w, a)
  BY HandlersTask
<1>4. OnlyJob(t, w, b)' /\ status'[t] \in Active
  BY <1>1, <1>2, <1>3, OnlyJobMoves DEF TablesTyped, Active
<1>5. Phase(t) = Turn(a)
  BY <1>3, HandledPhase
<1>6. Phase(t)' = Turn(b)
  <2>1. ASSUME NEW c \in Awaits PROVE HandledAt(t, c)' <=> c = b
    <3>1. \A v \in Workers : jobs'[<<t, v, c>>] > 0 <=> v = w /\ c = b
      BY <1>4 DEF OnlyJob
    <3> QED  BY <3>1 DEF HandledAt
  <2>2. Awaits = {"lookup", "run", "put", "delay"}
    BY DEF Awaits
  <2>3. status'[t] \notin {"new", "pending"} \cup Final
    BY <1>4 DEF Active, Final
  <2> QED  BY <1>4, <2>1, <2>2, <2>3 DEF Phase, Turn
<1>7. \A u \in Tasks \ {t} : Same(u)
  BY <1>2, Moved
<1> QED  BY <1>5, <1>6, <1>7, SameStays DEF Onward, MovesOn

LEMMA EndedOnward ==
  ASSUME TypeOK, SInv, NEW t \in Tasks, NEW w \in Workers, NEW a \in Awaits,
         jobs[<<t, w, a>>] > 0, Move(t, w, a, "end"), TaskFailed(t) \/ TaskCompleted(t)
  PROVE  \A u \in Tasks : Onward(u)
<1>1. TablesTyped /\ status[t] \in Active
  BY Parts, HandlersTask
<1>2. ASSUME TaskFailed(t) PROVE Onward(t)
  BY <1>1, <1>2, FailedTask DEF Onward, MovesOn
<1>3. ASSUME TaskCompleted(t) PROVE Onward(t)
  <2>1. status'[t] = "completed" /\ tries'[t] = tries[t]
    BY <1>1, <1>3, CompletedTask
  <2>2. OnlyJob(t, w, a)
    BY HandlersTask
  <2>3. Phase(t) = Turn(a)
    BY <1>1, <2>2, HandledPhase
  <2>4. Phase(t)' = 6
    BY <2>1 DEF Phase, Final, Active
  <2>5. Turn(a) < 6
    BY DEF Turn
  <2> QED  BY <2>1, <2>3, <2>4, <2>5 DEF Onward, MovesOn
<1>4. \A u \in Tasks \ {t} : Same(u)
  BY Ended
<1> QED  BY <1>2, <1>3, <1>4, SameStays

LEMMA FailureOnward ==
  ASSUME TypeOK, SInv, NEW t \in Tasks, NEW w \in Workers, NEW a \in Awaits, a # "delay",
         jobs[<<t, w, a>>] > 0, NEW blamed, NEW type, type # "offline",
         HandleTaskFailure(t, w, a, blamed, type)
  PROVE  \A u \in Tasks : Onward(u)
<1>1. CASE fails[t] >= MaxRetries
  <2>1. TaskFailed(t) /\ Move(t, w, a, "end")
    BY <1>1 DEF HandleTaskFailure
  <2> QED  BY <2>1, EndedOnward
<1>2. CASE ~(fails[t] >= MaxRetries)
  <2>1. Move(t, w, a, "delay") /\ UNCHANGED <<at, tries, queued, fleet>> /\ status' = status
    BY <1>2 DEF HandleTaskFailure, tasks
  <2>2. "delay" \in Awaits /\ Turn(a) < Turn("delay")
    BY DEF Turn, Awaits
  <2> QED  BY <2>1, <2>2, MovedOnward
<1> QED  BY <1>1, <1>2

LEMMA StepOnward ==
  ASSUME TypeOK, Steady, SInv, [Next]_vars
  PROVE  \A u \in Tasks : Onward(u)
<1>0. Calm /\ \A t \in Tasks : InOnePlace(t)
  BY DEF SInv
<1>1. TablesTyped
  BY Parts
<1>2. "offline" \notin world /\ "cancel" \notin world /\ "stop" \notin world
  BY DEF Steady
<1>3. \A a \in {"lookup", "run", "put", "delay"} : a \in Awaits
  BY DEF Awaits
<1>4. ASSUME UNCHANGED <<tasks, jobs>> PROVE \A u \in Tasks : Onward(u)
  <2>1. \A u \in Tasks : UNCHANGED <<status[u], tries[u], Phase(u)>>
    BY <1>4 DEF tasks, Phase, HandledAt
  <2> QED  BY <2>1 DEF Onward, Stays
<1>5. ASSUME NEW t \in Tasks, NEW from \in {"new", "pending"}, NEW to \in {"pending", "assigned"},
             status[t] = from, from # to, tries' = tries, status' = [status EXCEPT ![t] = to],
             \A u \in Tasks \ {t}, v \in Workers, a \in Awaits : jobs'[<<u, v, a>>] = jobs[<<u, v, a>>]
      PROVE  \A u \in Tasks : Onward(u)
  <2>1. status'[t] = to
    BY <1>1, <1>5 DEF TablesTyped
  <2>2. Phase(t) < Phase(t)'
    <3>1. CASE to = "pending"
      <4>1. status[t] = "new" /\ status'[t] = "pending"
        BY <1>5, <2>1, <3>1
      <4>2. Phase(t) = 0
        BY <4>1 DEF Phase, Final, Active
      <4>3. Phase(t)' = 1
        BY <4>1 DEF Phase, Final, Active
      <4> QED  BY <4>2, <4>3
    <3>2. CASE to = "assigned"
      <4>1. Phase(t) \in {0, 1}
        BY <1>5 DEF Phase, Final, Active
      <4>2. Phase(t)' \in {2, 3, 4, 5}
        BY <2>1, <3>2 DEF Phase, Final, Active
      <4> QED  BY <4>1, <4>2
    <3> QED  BY <1>5, <3>1, <3>2
  <2>3. ASSUME NEW u \in Tasks \ {t} PROVE Onward(u)
    <3>1. status'[u] = status[u] /\ tries'[u] = tries[u]
      BY <1>1, <1>5 DEF TablesTyped
    <3>2. \A a \in Awaits : HandledAt(u, a)' <=> HandledAt(u, a)
      BY <1>5 DEF HandledAt
    <3>3. Phase(u)' = Phase(u)
      BY <1>3, <3>1, <3>2 DEF Phase
    <3> QED  BY <3>1, <3>3 DEF Onward, Stays
  <2> QED  BY <1>5, <2>2, <2>3 DEF Onward, MovesOn
<1>6. ASSUME NEW t \in Tasks, Submit(t) PROVE \A u \in Tasks : Onward(u)
  <2>1. status[t] = "new" /\ status' = [status EXCEPT ![t] = "pending"] /\ tries' = tries /\ jobs' = jobs
    BY <1>6 DEF Submit
  <2> QED  BY <1>5, <2>1
<1>7. ASSUME NEW t \in Tasks, NEW w \in Workers, AssignTask(t, w) PROVE \A u \in Tasks : Onward(u)
  <2>1. /\ todo[t] > 0 /\ tries' = tries /\ status' = [status EXCEPT ![t] = "assigned"]
        /\ jobs' = [jobs EXCEPT ![<<t, w, "lookup">>] = @ + 1]
    BY <1>7 DEF AssignTask
  <2>2. status[t] = "pending"
    <3>1. queued[t] > 0
      BY <1>0, <1>1, <2>1, Parts DEF Calm, TablesTyped, TypeOK
    <3> QED  BY <1>0, <3>1 DEF InOnePlace
  <2>3. ASSUME NEW u \in Tasks \ {t}, NEW v \in Workers, NEW a \in Awaits
        PROVE  jobs'[<<u, v, a>>] = jobs[<<u, v, a>>]
    <3>1. jobs \in [Jobs -> Nat] /\ <<u, v, a>> \in Jobs /\ <<u, v, a>> # <<t, w, "lookup">>
      BY Parts DEF Jobs
    <3> QED  BY <2>1, <3>1
  <2> QED  BY <1>5, <2>1, <2>2, <2>3
<1>8. ASSUME NEW t \in Tasks, NEW w \in Workers,
             LookupHit(t, w) \/ ReportCompleted(t, w) \/ FailAfterDelay(t, w)
      PROVE  \A u \in Tasks : Onward(u)
  <2>1. PICK a \in Awaits : /\ jobs[<<t, w, a>>] > 0 /\ Move(t, w, a, "end")
                            /\ TaskFailed(t) \/ TaskCompleted(t)
    BY <1>3, <1>8 DEF LookupHit, ReportCompleted, FailAfterDelay
  <2> QED  BY <2>1, EndedOnward
<1>9. ASSUME NEW t \in Tasks, NEW w \in Workers, ExecuteTask(t, w) PROVE \A u \in Tasks : Onward(u)
  <2>1. /\ jobs[<<t, w, "lookup">>] > 0 /\ Move(t, w, "lookup", "run")
        /\ UNCHANGED <<at, tries, queued, fleet>> /\ status' = [status EXCEPT ![t] = "running"]
    BY <1>9 DEF ExecuteTask
  <2>2. Turn("lookup") < Turn("run")
    BY DEF Turn
  <2> QED  BY <1>3, <2>1, <2>2, MovedOnward
<1>10. ASSUME NEW t \in Tasks, NEW w \in Workers, Finish(t, w) PROVE \A u \in Tasks : Onward(u)
  <2>1. /\ jobs[<<t, w, "run">>] > 0 /\ Move(t, w, "run", "put")
        /\ UNCHANGED <<at, tries, queued, fleet>> /\ status' = status
    BY <1>10 DEF Finish, tasks
  <2>2. Turn("run") < Turn("put")
    BY DEF Turn
  <2> QED  BY <1>3, <2>1, <2>2, MovedOnward
<1>11. ASSUME NEW t \in Tasks, NEW w \in Workers,
              ExecuteRefused(t, w) \/ ExecutorFails(t, w) \/ PutFails(t, w)
       PROVE  \A u \in Tasks : Onward(u)
  <2>1. PICK a \in {"lookup", "run", "put"}, blamed \in {w, at[t]}, type \in {"error", "exhausted"} :
             jobs[<<t, w, a>>] > 0 /\ HandleTaskFailure(t, w, a, blamed, type)
    BY <1>2, <1>11 DEF ExecuteRefused, ExecutorFails, PutFails
  <2>2. a \in Awaits /\ a # "delay" /\ type # "offline"
    BY <2>1 DEF Awaits
  <2> QED  BY <2>1, <2>2, FailureOnward
<1>12. ASSUME \/ Tick \/ UNCHANGED vars
              \/ \E t \in Tasks : SkipTask(t)
              \/ \E w \in Workers : AddWorker(w) \/ Heartbeat(w)
       PROVE  UNCHANGED <<tasks, jobs>>
  BY <1>12 DEF Tick, SkipTask, AddWorker, Heartbeat, vars
<1>13. /\ \A t \in Tasks : ~CancelTask(t) /\ ~FailNext(t)
       /\ \A w \in Workers : ~StopWorker(w) /\ ~StoppedWorker(w) /\ ~WorkerSilent(w)
  BY <1>0, <1>2 DEF Calm, CancelTask, FailNext, StopWorker, StoppedWorker, WorkerSilent
<1> QED
  BY <1>4, <1>6, <1>7, <1>8, <1>9, <1>10, <1>11, <1>12, <1>13 DEF Next, Step, Handler

(* In a steady world a step leaves a task alone or moves it on: to its next try,   *)
(* or to a later phase of the same. No late report takes a task back, and none    *)
(* that is completed or failed is ever touched again.                             *)
THEOREM TasksMoveOn == Spec => [][Steady => \A t \in Tasks : Stays(t) \/ MovesOn(t)]_vars
<1>1. IInv /\ (Steady => SInv) /\ [Next]_vars
        => [Steady => \A t \in Tasks : Stays(t) \/ MovesOn(t)]_vars
  BY StepOnward DEF IInv, Onward
<1> QED  BY <1>1, Invariance, SteadyInvariance, PTL DEF Spec
=============================================================================
