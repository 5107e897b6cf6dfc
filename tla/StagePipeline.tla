--------------------------- MODULE StagePipeline ---------------------------
(***************************************************************************)
(* The stage pipeline of one slice: PipelineExecutor.run (serial mode)      *)
(* walks the stages, StageRunner.run performs one, StageTransaction gives   *)
(* the apply step a snapshot and an undo, FailureHandler keeps snapshots,   *)
(* retries and rolls back.  Transactional chooses between the two paths of  *)
(* StageRunner.run (environment variable JISPEC_USE_TRANSACTION_MANAGER).   *)
(*                                                                          *)
(* The disk is `slice' (slice.yaml, lifecycle and gates, with the files of  *)
(* the slice directory), `aside' (files an agent writes outside that        *)
(* directory), `evidence', the snapshot directory and the result cache.     *)
(* Lifecycle k means the state stage k advances to; a file's content is the *)
(* number of the pipeline run that produced it, 0 when it is absent.        *)
(* Snapshots are kept in the order of the timestamps in their names; an     *)
(* evidence file carries the number of snapshots older than it.             *)
(***************************************************************************)
EXTENDS Integers, Sequences, FiniteSets

CONSTANTS
  Modes,     \* the projects and surroundings to consider, see ModeAssumption
  MaxRuns,   \* bound: pipeline runs
  MaxEdits   \* bound: edits by the user between runs

VARIABLES
  mode,                                      \* what this project configures, and what may happen to it
  slice, aside, evidence, snaps, cache,      \* on disk
  pc, stage, attempt, key, result, hit,      \* the StageRunner.run in progress
  target,                                    \* nextSliceState: slice.yaml as read before the apply
  tx,                                        \* TransactionRecord: snapshot and appliedWrites
  told,                                      \* what the last stage reported
  before, evidenceBefore, asideBefore,       \* history: the disk when the stage began
  runs, edits

AllReplies == {"full", "silent", "refuse", "empty", "wide"}
AllFaults == {"agent", "validate", "begin", "write", "aside", "gates", "check", "evidence",
              "commit", "snapshot", "lifecycle", "cache", "lost", "crash"}

ASSUME BoundsAssumption == MaxRuns \in Nat /\ MaxEdits \in Nat

\* transactional: transactions on, or the legacy path; keepSnapshots, fullRollback,
\* prompt, maxAttempts: the failure_handling section; replies: what agents may answer;
\* faults: the steps that may throw, "lost" snapshots and "crash"; anywhere: the user
\* may pass --from; edited: the user may edit generated files.
ASSUME ModeAssumption ==
  \A m \in Modes :
    /\ m.stages \in Nat \ {0} /\ m.maxAttempts \in Nat \ {0}
    /\ {m.transactional, m.keepSnapshots, m.fullRollback, m.prompt, m.anywhere, m.edited} \subseteq BOOLEAN
    /\ m.replies \subseteq AllReplies /\ m.faults \subseteq AllFaults

Last == mode.stages
Transactional == mode.transactional

Stages == 1 .. Last
Contents == 0 .. (MaxRuns + MaxEdits)
Slices == [life : 0 .. Last, gates : SUBSET Stages, files : [Stages -> Contents]]
Snapshots == [stage : Stages, slice : Slices]
Results == [reply : AllReplies, content : Contents]
Blank == [life |-> 0, gates |-> {}, files |-> [k \in Stages |-> 0]]

disk == <<slice, aside, evidence, snaps, cache>>
work == <<stage, attempt, key, result, hit, target, tx>>
history == <<before, evidenceBefore, asideBefore, runs, edits>>
vars == <<mode, disk, pc, work, told, history>>

NoResult == [reply |-> "none", content |-> 0]
NoTx == [snap |-> 0, recorded |-> FALSE]

(* buildCacheKeyInputs: the contents of the stage's inputs, the gates and the
   lifecycle state.  Inputs of a stage are outputs of earlier ones. *)
CacheKey(k, s) == [stage |-> k, life |-> s.life, gates |-> s.gates, inputs |-> [i \in 1 .. (k - 1) |-> s.files[i]]]

(* buildNextLifecycleState: a copy of slice.yaml with the state advanced *)
NextLifecycle(k) == [life |-> k, gates |-> slice.gates]

(* getNextStage: the stage after the one whose state the slice is in; none in the last *)
NextStages == IF mode.anywhere THEN Stages ELSE {k \in Stages : k = slice.life + 1}

Fault(step) == step \in mode.faults

Init ==
  /\ mode \in Modes
  /\ slice = Blank
  /\ aside = [k \in Stages |-> 0]
  /\ evidence = {}
  /\ snaps = <<>>
  /\ cache = {}
  /\ pc = "idle"
  /\ stage = 1 /\ attempt = 1
  /\ key = CacheKey(1, Blank)
  /\ result = NoResult /\ hit = FALSE
  /\ target = [life |-> 0, gates |-> {}]
  /\ tx = NoTx
  /\ told = "none"
  /\ before = Blank /\ evidenceBefore = {} /\ asideBefore = aside
  /\ runs = 0 /\ edits = 0

(* What an iteration of StageRunner.run declares is gone when it ends. *)
Fresh ==
  /\ key' = CacheKey(1, Blank) /\ result' = NoResult /\ hit' = FALSE
  /\ target' = [life |-> 0, gates |-> {}]
  /\ tx' = NoTx

(* A stage begins: its first attempt, with the disk as the stage finds it. *)
BeginStage(k) ==
  /\ pc' = "look" /\ stage' = k /\ attempt' = 1
  /\ before' = slice /\ evidenceBefore' = evidence /\ asideBefore' = aside
  /\ Fresh
  /\ UNCHANGED disk

StartPipeline ==
  /\ pc = "idle" /\ runs < MaxRuns
  /\ \E k \in NextStages : BeginStage(k)
  /\ runs' = runs + 1
  /\ told' = "none"
  /\ UNCHANGED edits

(* Cache lookup under the key of the current state; a hit skips the agent. *)
Look ==
  /\ pc = "look"
  /\ key' = CacheKey(stage, slice)
  /\ LET entries == {c \in cache : c.key = key'}
     IN IF entries # {}
        THEN /\ hit' = TRUE
             /\ \E c \in entries : result' = c.result
             /\ target' = NextLifecycle(stage)
             /\ pc' = IF Transactional THEN "validate" ELSE "write"
        ELSE /\ hit' = FALSE /\ pc' = "agent"
             /\ UNCHANGED <<result, target>>
  /\ UNCHANGED <<disk, stage, attempt, tx, told, history>>

(* runAgent answers; slice.yaml is read for its next state right after. *)
Agent ==
  /\ pc = "agent"
  /\ \E r \in mode.replies : result' = [reply |-> r, content |-> IF r = "empty" THEN 0 ELSE runs]
  /\ target' = NextLifecycle(stage)
  /\ pc' = IF Transactional THEN "validate" ELSE "write"
  /\ UNCHANGED <<disk, stage, attempt, key, hit, tx, told, history>>

(* validateExecutionResult, before the transaction begins *)
Validate ==
  /\ pc = "validate"
  /\ pc' = "begin"
  /\ UNCHANGED <<disk, work, told, history>>

(* Mutant: the snapshot holds the target state. *)
BeginWithTarget ==
  /\ pc = "begin"
  /\ snaps' = Append(snaps, [stage |-> stage, slice |-> [slice EXCEPT !.life = target.life]])
  /\ tx' = [snap |-> Len(snaps'), recorded |-> FALSE]
  /\ pc' = "write"
  /\ UNCHANGED <<slice, aside, evidence, cache, stage, attempt, key, result, hit, target, told, history>>

(* TransactionManager.begin and prepareSnapshot: the CURRENT slice is saved. *)
Begin ==
  /\ pc = "begin"
  /\ snaps' = Append(snaps, [stage |-> stage, slice |-> slice])
  /\ tx' = [snap |-> Len(snaps'), recorded |-> FALSE]
  /\ pc' = "write"
  /\ UNCHANGED <<slice, aside, evidence, cache, stage, attempt, key, result, hit, target, told, history>>

(* result.writes: the stage's output in the slice directory ... *)
Write ==
  /\ pc = "write"
  /\ slice' = IF result.content = 0 THEN slice ELSE [slice EXCEPT !.files[stage] = result.content]
  /\ pc' = IF result.reply = "wide" THEN "aside" ELSE "gates"
  /\ UNCHANGED <<aside, evidence, snaps, cache, work, told, history>>

(* ... and whatever the agent writes elsewhere in the repository. *)
WriteAside ==
  /\ pc = "aside"
  /\ aside' = [aside EXCEPT ![stage] = result.content]
  /\ pc' = "gates"
  /\ UNCHANGED <<slice, evidence, snaps, cache, work, told, history>>

(* Gate updates.  applyExecutionResult falls back to the gates of the stage's
   configuration when the result names none; StageTransaction.apply does not. *)
GatesAfter(gates) ==
  CASE result.reply = "refuse" -> gates \ {stage}
    [] result.reply = "silent" /\ Transactional -> gates
    [] OTHER -> gates \cup {stage}

Gates ==
  /\ pc = "gates"
  /\ slice' = [slice EXCEPT !.gates = GatesAfter(@)]
  /\ pc' = IF Transactional THEN "evidence" ELSE "check"
  /\ UNCHANGED <<aside, evidence, snaps, cache, work, told, history>>

(* Legacy only: output validation, the gate check, validateSlice. *)
Check ==
  /\ pc = "check"
  /\ pc' = IF slice.files[stage] # 0 /\ stage \in slice.gates THEN "evidence" ELSE "fail"
  /\ UNCHANGED <<disk, work, told, history>>

(* Evidence is saved; the transaction records what it applied only now. *)
Evidence ==
  /\ pc = "evidence"
  /\ evidence' = evidence \cup {[stage |-> stage, newerThan |-> Len(snaps)]}
  /\ tx' = [tx EXCEPT !.recorded = Transactional]
  /\ pc' = IF Transactional THEN "commit" ELSE "snapshot"
  /\ UNCHANGED <<slice, aside, snaps, cache, stage, attempt, key, result, hit, target, told, history>>

(* StageTransaction.commit advances the lifecycle in the slice on disk. *)
Commit ==
  /\ pc = "commit"
  /\ slice' = [slice EXCEPT !.life = target.life]
  /\ tx' = NoTx
  /\ pc' = IF hit THEN "return" ELSE "snapshot"
  /\ UNCHANGED <<aside, evidence, snaps, cache, stage, attempt, key, result, hit, target, told, history>>

(* Mutant: the stable snapshot keeps the slice as it was read before the apply. *)
StaleStableSlice == [slice EXCEPT !.life = target.life, !.gates = target.gates]

(* createSnapshot: of the committed slice, or (legacy) of nextSliceState with
   the files on disk.  A snapshot that cannot be saved stays in memory, where
   rollbackToLatest does not look. *)
StableSlice ==
  IF Transactional THEN slice ELSE [slice EXCEPT !.life = target.life, !.gates = target.gates]

Snapshot ==
  /\ pc = "snapshot"
  /\ \/ snaps' = IF mode.keepSnapshots THEN Append(snaps, [stage |-> stage, slice |-> StableSlice]) ELSE snaps
     \/ Fault("lost") /\ snaps' = snaps
  /\ pc' = IF Transactional THEN "cache" ELSE "lifecycle"
  /\ UNCHANGED <<slice, aside, evidence, cache, work, told, history>>

(* Legacy: writeSlice(nextSliceState), the copy read before the apply. *)
Lifecycle ==
  /\ pc = "lifecycle"
  /\ slice' = [slice EXCEPT !.life = target.life, !.gates = target.gates]
  /\ pc' = IF hit THEN "return" ELSE "cache"
  /\ UNCHANGED <<aside, evidence, snaps, cache, work, told, history>>

CachePut ==
  /\ pc = "cache"
  /\ cache' = {c \in cache : c.key # key} \cup {[key |-> key, result |-> result]}
  /\ pc' = "return"
  /\ UNCHANGED <<slice, aside, evidence, snaps, work, told, history>>

(* A step throws.  Inside the transaction the undo runs first; after the commit
   tx.rollback throws in turn and the error reaches the same handler. *)
StepFails ==
  /\ Fault(pc)
  /\ pc \in {"agent", "validate", "begin", "write", "aside", "gates", "check", "evidence",
             "commit", "snapshot", "lifecycle", "cache"}
  /\ pc' = IF Transactional /\ pc \in {"begin", "write", "aside", "gates", "evidence", "commit"}
           THEN "undo" ELSE "fail"
  /\ UNCHANGED <<disk, work, told, history>>

(* Mutant: slice.yaml is put back, the recorded write is deleted for good. *)
UndoWithoutBackups ==
  /\ pc = "undo"
  /\ aside' = IF tx.recorded /\ result.reply = "wide" THEN [aside EXCEPT ![stage] = 0] ELSE aside
  /\ evidence' = {e \in evidence : e.stage # stage}
  /\ slice' = IF tx.snap = 0 THEN slice
              ELSE [snaps[tx.snap].slice EXCEPT !.files[stage] = IF tx.recorded THEN 0 ELSE @]
  /\ tx' = NoTx
  /\ pc' = "fail"
  /\ UNCHANGED <<snaps, cache, stage, attempt, key, result, hit, target, told, history>>

(* Mutant: the evidence of the failed stage is left behind. *)
UndoKeepsEvidence ==
  /\ pc = "undo"
  /\ aside' = IF tx.recorded /\ result.reply = "wide" THEN [aside EXCEPT ![stage] = 0] ELSE aside
  /\ slice' = IF tx.snap = 0 THEN slice ELSE snaps[tx.snap].slice
  /\ tx' = NoTx
  /\ pc' = "fail"
  /\ UNCHANGED <<evidence, snaps, cache, stage, attempt, key, result, hit, target, told, history>>

(* StageTransaction.rollback: recorded writes are deleted, evidence named after
   the stage too, then the slice directory is put back from the snapshot. *)
Undo ==
  /\ pc = "undo"
  /\ aside' = IF tx.recorded /\ result.reply = "wide" THEN [aside EXCEPT ![stage] = 0] ELSE aside
  /\ evidence' = {e \in evidence : e.stage # stage}
  /\ slice' = IF tx.snap = 0 THEN slice ELSE snaps[tx.snap].slice
  /\ tx' = NoTx
  /\ pc' = "fail"
  /\ UNCHANGED <<snaps, cache, stage, attempt, key, result, hit, target, told, history>>

(* FailureHandler.rollbackToLatest: the newest snapshot that is not of the
   failed stage.  Only the names the transaction gives evidence are recognised. *)
Candidates == {i \in DOMAIN snaps : snaps[i].stage # stage}
\* Mutant: the names are sorted the other way round.
Oldest == CHOOSE i \in Candidates : \A j \in Candidates : i <= j
Latest == CHOOSE i \in Candidates : \A j \in Candidates : j <= i

RollbackToLatest ==
  IF Candidates = {}
  THEN UNCHANGED <<slice, evidence>>
  ELSE LET saved == snaps[Latest].slice
       IN /\ slice' = [saved EXCEPT !.files = IF mode.fullRollback THEN @ ELSE slice.files]
          /\ evidence' = IF Transactional THEN {e \in evidence : e.newerThan < Latest} ELSE evidence

(* handleFailure, then the stage fails for good: the pipeline stops. *)
ShouldRetry == ~Transactional /\ attempt < mode.maxAttempts
ShouldRollback == Transactional \/ mode.prompt \/ mode.keepSnapshots

(* Mutant: the attempt is not counted. *)
RetryUncounted ==
  /\ pc = "fail" /\ ShouldRetry
  /\ pc' = "look"
  /\ Fresh
  /\ UNCHANGED <<disk, stage, attempt, told, history>>

Retry ==
  /\ pc = "fail" /\ ShouldRetry
  /\ attempt' = attempt + 1
  /\ pc' = "look"
  /\ Fresh
  /\ UNCHANGED <<disk, stage, told, history>>

GiveUp ==
  /\ pc = "fail" /\ ~ShouldRetry
  /\ IF ShouldRollback THEN RollbackToLatest ELSE UNCHANGED <<slice, evidence>>
  /\ told' = "failed"
  /\ pc' = "idle"
  /\ Fresh
  /\ UNCHANGED <<aside, snaps, cache, stage, attempt, history>>

(* The stage reports success; the next one begins, or the pipeline is done. *)
Return ==
  /\ pc = "return"
  /\ told' = "ok"
  /\ IF stage = Last
     THEN pc' = "idle" /\ Fresh /\ UNCHANGED <<disk, stage, attempt, before, evidenceBefore, asideBefore>>
     ELSE BeginStage(stage + 1)
  /\ UNCHANGED <<runs, edits>>

(* The process dies: what it knew is gone, the disk stays. *)
Crash ==
  /\ Fault("crash")
  /\ pc # "idle"
  /\ pc' = "idle" /\ told' = "crashed"
  /\ Fresh
  /\ UNCHANGED <<disk, stage, attempt, history>>

(* The user edits a generated file between two runs. *)
Edit ==
  /\ pc = "idle" /\ mode.edited /\ edits < MaxEdits
  /\ \E k \in Stages :
       /\ slice.files[k] # 0
       /\ slice' = [slice EXCEPT !.files[k] = MaxRuns + edits + 1]
  /\ edits' = edits + 1
  /\ told' = "none"
  /\ UNCHANGED <<aside, evidence, snaps, cache, pc, work, before, evidenceBefore, asideBefore, runs>>

Step ==
  \/ Look \/ Agent \/ Validate \/ Begin \/ Write \/ WriteAside \/ Gates \/ Check \/ Evidence
  \/ Commit \/ Snapshot \/ Lifecycle \/ CachePut \/ Undo \/ Retry \/ GiveUp \/ Return

Next == (StartPipeline \/ Step \/ StepFails \/ Crash \/ Edit) /\ UNCHANGED mode

Spec == Init /\ [][Next]_vars

(* The process goes on with the step it is at; nothing forces a fault, a run or an edit. *)
FairSpec == Spec /\ WF_vars(Step /\ UNCHANGED mode)

-----------------------------------------------------------------------------
(* Every variable has its type (StageRunner.run, TransactionRecord). *)
TypeOK ==
  /\ mode \in Modes
  /\ slice \in Slices
  /\ aside \in [Stages -> Contents]
  /\ evidence \subseteq [stage : Stages, newerThan : 0 .. Len(snaps)]
  /\ snaps \in Seq(Snapshots)
  /\ \A c \in cache : c.key.stage \in Stages /\ c.result \in Results
  /\ pc \in {"idle", "look", "agent", "validate", "begin", "write", "aside", "gates", "check", "evidence",
             "commit", "snapshot", "lifecycle", "cache", "undo", "fail", "return"}
  /\ stage \in Stages /\ attempt \in 1 .. mode.maxAttempts
  /\ result \in Results \cup {NoResult} /\ hit \in BOOLEAN
  /\ target \in [life : 0 .. Last, gates : SUBSET Stages]
  /\ tx \in [snap : 0 .. Len(snaps), recorded : BOOLEAN]
  /\ told \in {"none", "ok", "failed", "crashed"}
  /\ before \in Slices
  /\ runs \in 0 .. MaxRuns /\ edits \in 0 .. MaxEdits

(* A slice never claims a lifecycle state whose gate is not set: updateGates runs
   before the lifecycle is written and no rollback, crash or cached result takes
   the gate away afterwards. *)
GateBeforeLife == slice.life # 0 => slice.life \in slice.gates

(* With transactions it never does, when agents name their gates and report them
   passed: commit itself looks at no gate. *)
TxGateBeforeLife == Transactional /\ mode.replies \cap {"silent", "refuse"} = {} => GateBeforeLife

(* Nor a state whose output is missing: files are written before the lifecycle
   advances, and what a rollback deletes or restores fits the state it restores,
   whatever throws.  The legacy path checks the output; with transactions it is
   the agents that must write it. *)
OutputBeforeLife ==
  (Transactional => "empty" \notin mode.replies) =>
    (slice.life # 0 => slice.files[slice.life] # 0)

(* StageTransaction.rollback puts the slice directory back as the stage found
   it, whatever step of the transaction failed and whatever had been written. *)
UndoIsExact == [][pc = "undo" /\ pc' = "fail" => slice' = before]_vars

\* Nothing but throwing steps disturbs the pipeline's snapshots.
Undisturbed ==
  /\ mode.keepSnapshots
  /\ mode.faults \cap {"lost", "snapshot"} = {}
  /\ ~mode.anywhere /\ ~mode.edited

(* A stage that reports failure left the slice alone or completed it: gates,
   files and lifecycle go together, as the agent answered (transaction-manager.ts,
   "atomicity between snapshot creation, result application, and state updates").
   Only a rollback strategy that restores the state alone may leave the files of
   the stage.  Unless it is complete, it has no evidence it did not have before. *)
Completed ==
  [life |-> stage, gates |-> GatesAfter(before.gates),
   files |-> [before.files EXCEPT ![stage] = IF result.content = 0 THEN @ ELSE result.content]]
AllOrNothing ==
  [][Transactional /\ Undisturbed /\ "crash" \notin mode.faults
       /\ pc = "fail" /\ pc' = "idle" /\ told' = "failed" =>
       /\ \/ slice' \in {before, Completed}
          \/ ~mode.fullRollback /\ slice' = [before EXCEPT !.files = Completed.files]
       /\ slice' # Completed => evidence' \subseteq evidenceBefore]_vars

(* A failed stage costs no earlier stage its lifecycle state or its output,
   whatever the retries of the stage wrote and whatever crashed before.  With
   transactions nothing may have crashed: between a commit and its stable snapshot
   a crash leaves the newest snapshot of another stage older than the commit. *)
NoLostProgress ==
  [][Undisturbed /\ (Transactional => "crash" \notin mode.faults)
       /\ pc = "fail" /\ pc' = "idle" /\ told' = "failed" =>
       /\ slice'.life >= before.life
       /\ \A k \in 1 .. before.life : before.files[k] # 0 => slice'.files[k] # 0]_vars

(* Retries are bounded: a run that began ends, whatever steps throw. *)
RunEnds == pc # "idle" ~> pc = "idle"
=============================================================================
