# JiSpec: verification project

JiSpec (`src/tools/jispec`, TypeScript) is a command-line tool that turns an existing repository into one with
reviewed contracts and then guards every change against them. This directory holds TLA+ modules translated from
that code, the TLC configurations that check them on small instances, and TLAPS proofs of what matters most.
File names below are relative to `src/tools/jispec/` unless they begin with `src/`.

## 1. The system

### 1.1 The mainline

`bootstrap discover` scans a repository and writes an evidence graph; `bootstrap draft` writes a draft session
(artifacts of three kinds: domain, api, feature); `bootstrap adopt` turns the draft into live contracts, spec-debt
records and hand-off files; `verify` computes a verdict; `change` records an intent and a spec delta; `implement`
runs a budgeted fix loop or mediates an external patch. Beside them `waiver` and `policy approval` govern what `verify`
lets pass, and in a greenfield project `review`, `spec-debt` and `source` govern how requirements become contracts. Every
command is a process of its own; what they share is the directory tree under `.spec/` and `.jispec/`, read and written
without locks.

| component | state it keeps | operations | what makes it hard | what makes it correct |
| --- | --- | --- | --- | --- |
| bootstrap adopt (`bootstrap/adopt.ts`) | session manifest, shadow directory with backups, live contracts, spec debt, five hand-off files, audit events | open, stage, seven renames with backups, undo, save manifest, audit | any call may throw after others took effect; a crash between two renames; adopting a session again; two sessions at once | all files of a batch appear or none; a failed adoption restores what it found; hand-offs describe the contracts on disk |
| bootstrap discover, draft, takeover (`bootstrap/*.ts`) | evidence graph, draft manifest, brief | scan, rank, draft, summarise | mostly data shaping over one repository snapshot | a draft is complete and names its evidence |
| verify (`verify/*.ts`) | waiver files, baseline, report | collect issues; write the baseline; apply waivers, baseline, policy, observe mode; `waiver create`, `revoke`, `renew` | the order of the reclassification steps, files that change under a run, expiry, an audit append that throws after the file is written | a passing verdict rests on acceptance that was in force; a revoked waiver stays revoked; the ledger says what the files say |
| change (`change/*.ts`) | active change session, archive, spec delta, debt register | classify, open, hand to implement | a session replaced or archived while `implement` works on it | `implement` acts on the session the user opened |
| implement (`implement/*.ts`) | iteration budget, stall detector, episode memory, handoff packet, patch mediation record | iterate, test, stop, hand off; intake of an external patch; replay | stop conditions racing a pass, replays of old handoffs, out-of-scope patches | the loop stops, an out-of-scope patch never counts as done |
| source evolution (`greenfield/source-refresh.ts`, `source-governance.ts`, `source-lifecycle.ts`, `provenance-drift.ts`) | active and compatibility snapshot, registry of requirements, baseline; per change: proposed snapshot, differences, decisions, adoption record | `source refresh`, `review`, `adopt` | six files written one after the other; decisions found by an id that does not say the text; a registry folded over differences | what is promoted was decided; the files agree; the registry names the requirements of the active snapshot |
| greenfield review and spec debt (`greenfield/review-workflow.ts`, `spec-debt-ledger.ts`, `review-pack.ts`) | review record with its gate, spec-debt ledger, two lists of open decisions, correction files and spec deltas | `review adopt`, `reject`, `defer`, `waive`; `spec-debt repay`, `cancel`, `owner-review` | side files written before the record, whole files rewritten from an older copy, decisions decided again | a waiver leaves a debt, a rejection a correction, a deferral a listed question; the gate says what was decided |
| policy, approvals (`policy/*.ts`) | approval records, policy file | record, check quorum, expire | stale approvals of changed subjects | an approval never outlives its subject |
| audit ledger (`audit/event-ledger.ts`) | append-only hash chain | inspect, append, summarise | two commands that inspect the same ledger, a line cut short | every event links to the one before it; after damage nobody goes on appending |

### 1.2 The stage pipeline

`pipeline-executor.ts` drives a slice through the stages of `agents.yaml` (design, behavior, test, implementing,
verifying), `stage-runner.ts` runs one stage: it checks the cache, calls the agent, applies the result (files, gates,
traces, evidence) and advances the slice's lifecycle state. `transaction-manager.ts` gives the apply step a snapshot
and an undo; `failure-handler.ts` keeps snapshots, retries with backoff and rolls back; `cache-manager.ts` stores
results under a content key; `parallel-executor.ts`, `dependency-graph.ts` and `cross-slice-scheduler.ts` order
stages and slices. Nothing imports the cross-slice scheduler, and the parallel mode, on by default, finds in the default
`agents/pipeline.yaml` a chain of stages and runs them one after the other.

| component | state it keeps | operations | what makes it hard | what makes it correct |
| --- | --- | --- | --- | --- |
| stage transaction (`transaction-manager.ts`, `stage-runner.ts`, `failure-handler.ts`) | `slice.yaml` (lifecycle state, gates), slice files, evidence, snapshots, transaction record | begin, snapshot, apply, commit, roll back, retry | failure after some writes, failure after the commit, two different undo mechanisms | a failed stage leaves the slice as it was; a successful one keeps its gates |
| cross-slice and parallel scheduling (`cross-slice-scheduler.ts`, `parallel-executor.ts`, `dependency-graph.ts`) | batches, task states | schedule, execute, propagate failures | cycles, failures in the middle of a batch | no slice starts before what it depends on succeeded |
| cache (`cache-manager.ts`, `cache-key.ts`, `cache-manifest.ts`) | manifests and results on disk, an in-memory first level | get, put, invalidate (also by slice or stage), warm up, prune, clear | manifest and result are two files behind two maps in memory; a lookup writes too, and races an invalidation; a write cut short | a result is served until it is replaced or invalidated, and not afterwards |
| gates, constraints, validators, trace (`gate-checker.ts`, `constraint-checker.ts`, `output-validator.ts`, `trace-manager.ts`, ...) | none of their own | pure checks over files | wording | not modelled: data validation |

### 1.3 Distributed execution and collaboration

These surfaces are in the repository, compiled and tested, and declared deferred in the release contract.

| component | state it keeps | operations | what makes it hard | what makes it correct |
| --- | --- | --- | --- | --- |
| distributed scheduler (`distributed-scheduler.ts`) | tasks, workers, priority queue, running map | submit, register, unregister, heartbeat, schedule, complete, fail, cancel, health check | late, duplicated and reordered reports; worker loss while a task runs; retry limits | a task is in one place at a time and reaches one final state; the load counters match the tasks |
| runtime, workers, recovery (`distributed-runtime.ts`, `worker-manager.ts`, `fault-recovery.ts`, `resource-manager.ts`, `remote-*.ts`) | executing tasks, allocations, checkpoints, quarantine | assign, execute, time out, recover | callbacks between awaits | resources are released once |
| collaboration (`collaboration-server.ts`, `presence-manager.ts`, `permission-manager.ts`, `notification-service.ts`, `advanced-conflict-resolver.ts`, ...) | documents, sessions, presence, permissions, notifications | edit, merge, join, leave, notify | concurrent edits, disconnects | edits are neither lost nor applied twice |

### 1.4 Reporting surfaces

Release, console, integrations, north-star, operations, metrics, privacy, provenance, doctor, kernel, providers,
pilot, onboarding and the CLI itself read files and render reports. They keep little state and are listed in
`PROJECT.json` as not modelled.

## 2. Modules

| module | models | proofs |
| --- | --- | --- |
| `AdoptTree`, `AtomicAdoption`, `BootstrapAdopt` | `bootstrap/adopt.ts` | `BootstrapAdoptProofs` |
| `StagePipeline` | `pipeline-executor.ts`, `stage-runner.ts`, `transaction-manager.ts`, `failure-handler.ts` | `StagePipelineProofs` |
| `CacheMap`, `StageCache` | `cache-manager.ts`, `cache-manifest.ts`, the files of `filesystem-storage.ts` | `StageCacheProofs` |
| `DistributedRuntime` | `distributed-scheduler.ts`, `distributed-runtime.ts`, `worker-manager.ts`, `fault-recovery.ts`, `resource-manager.ts`, `distributed-task-cache.ts` | `DistributedRuntimeProofs` |
| `AuditLedger`, `VerifyGovernance` | `audit/event-ledger.ts`; `verify/waiver-store.ts`, `verify/baseline-store.ts`, `verify/verify-runner.ts`, `verify/observe-mode.ts`, `policy/approval.ts`, `policy/policy-engine.ts` | `VerifyGovernanceProofs` |
| `SourceEvolution` | `greenfield/source-refresh.ts`, `source-governance.ts`, `source-lifecycle.ts`, `provenance-drift.ts` | `SourceEvolutionProofs` |
| `GreenfieldReview` | `greenfield/review-workflow.ts`, `spec-debt-ledger.ts`, the list in `review-pack.ts` | `GreenfieldReviewProofs` |
| `ImplementMainline` | `change/change-command.ts`, `change/change-session.ts`, `change/mainline-flow.ts`, `implement/implement-runner.ts`, `implement/patch-mediation.ts`, `implement/budget-controller.ts`, `implement/stall-detector.ts`, `implement/handoff-packet.ts` | `ImplementMainlineProofs` |

The `MC...` modules give the constants their values for TLC. Three conventions run through all of them. An action is
what the program does between two points where something else can come in: an await (the runtime), a write to disk (the
command-line tools). What may go wrong is data: a variable `world` (`mode` for the pipeline) that the
initial state chooses and nothing changes, so that one run covers several kinds of trouble and each property says under
which of them it holds. A definition commented *Mutant* is not part of the model: it is one of its definitions with a
plausible bug in it, kept to show that a property notices.

### 2.1 Adoption

`AdoptTree` says which final paths a batch of decisions touches and what each will hold. The text of a file is
abstracted to the draft session it came from. `BootstrapAdopt` is one process per draft session; its steps are the
durable changes of `runBootstrapAdopt`:

| code | actions |
| --- | --- |
| loadDraftSession, manifest "adopting" | `Start` |
| prepareShadowBatch | `Prepare`, `PrepareFails` |
| commitShadowBatch: mkdir, rename to the backup, rename into place | `Look`, `Backup`, `Install`, and each of them failing |
| its inner catch (adopt.ts:783) | `Repair` |
| the outer catch, in reverse order | `Rollback`, `RollbackFails` |
| deleting the backups | `Cleanup`, `CleanupFails` |
| manifest, audit events, the catch of the whole | `Save`, `Audit`, `Return`, `Abandon` |

`AtomicAdoption` promises that the files of a session appear together in one step or not at all. The refinement maps the
live tree to what undoing the renames made so far would give, so that the abstract step is the deletion of the backups.

### 2.2 Stage pipeline

`StagePipeline` is one slice and one `PipelineExecutor.run` after another. Variables are what is on disk (`slice.yaml`
with the slice's files, files an agent writes elsewhere, evidence, snapshots, cache) and what `StageRunner.run` holds in
memory, of which `target`, the copy of `slice.yaml` read before the apply step, matters most. A step that throws goes to
`undo` inside a transaction and to `fail` otherwise; `Retry` and `GiveUp` are `FailureHandler.handleFailure`. A mode says
which of the two apply paths is on, how many stages and attempts there are, what agents may answer and which steps throw.

### 2.3 Distributed runtime

`DistributedRuntime` is one JavaScript process: the scheduler's tables (`status`, `at`, `tries`, `queued`, `reg`, `load`,
`runs`), the handlers of `task:assigned`, counted by the await they are at (`jobs`), the resource managers (`alloc`), the
recovery manager's count of failures and the cache. The loops of `scheduleTasks` and `checkWorkerHeartbeats` run without
an await but emit events inside, so they take a step per iteration and nothing else comes in between (`Idle`). The order
of the queue and the choice among suitable workers are left open.

### 2.4 Change mainline

`ImplementMainline` is one command per terminal: `change`, `implement` with or without a patch, `--from-handoff` and
`--session-id`. Its steps end at a write to disk or to the working tree, or at a run of the tests or of verify. The code
is red or green for the test command; what verify answers is left open. Diagnosis (`mainline-flow.ts`) is the operator
`Diagnosed`.

A patch is its header lines, each with the name as it is written, split at the slashes; a session has the paths it
allows. The lines are read twice. `ChangedPaths` and `Touched` are the parser of patch-mediation.ts, with its own
treatment of prefixes and its normalisation (`Prefixed`, `Normalized`): they decide the scope. `GitNames`, `Changes` and
`Applicable` are what `git apply` makes of the same lines, which is not under `src/`: it takes one component off every
prefixed name (`-p1`) and refuses names that are not ordinary paths. The two are separate steps, `Accept` and
`Apply`, because git reads the file again.

### 2.5 Verify, waivers, approvals and the audit ledger

`AuditLedger` is the file `events.jsonl` and what a command may do with it: inspect all of it, append one event that
names the length it has seen, give up, or die in the middle of the line. A hash is abstracted to the number of the line
it is the hash of. `VerifyGovernance` is the commands over it, one process per terminal:

| code | actions |
| --- | --- |
| createWaiver, revokeWaiver, renewWaiver: read, write the file | `Read`, `Write` |
| recordPolicyApproval: hash the subject, write the approval | `Read`, `Write` |
| appendAuditEvent | `CheckLedger`, `Record`, `RecordFails`; `Crash` includes the torn line |
| runFullVerify: collectors | `Collect` |
| writeVerifyBaseline, applyWaivers, applyVerifyBaseline | `WriteBaseline`, `Waive`, `Ratchet` |
| applyPolicyHook, applyObserveMode, exit code | `ApplyPolicy`, `Fails`, `Conclude` |
| evaluateApprovalSubject | `Current`, `Enough`, `Satisfied` |

`AuditLedger` is also the abstract specification: whatever the commands do, they use the file as it allows. Issues that do
not block never fail a verdict and are left out; the matcher of a waiver is the set of issues it covers. The policy has
one `fail_blocking` rule, on `verify.issue_count` or on `verify.blocking_issue_count`, or none (`RuleMatches`). Both facts
are taken from the result after baseline and waivers: the first still counts what these accept, the second does not.

### 2.6 Source evolution

`SourceEvolution` keeps for each requirement of a document its text and its line, which is what the code compares, and
the family its id belongs to. `Evolution` and `Applied` are the two pure functions the commands rest on: the differences
between two documents, and what they do to the registry.

| code | actions |
| --- | --- |
| runGreenfieldSourceRefresh: proposed snapshot, then the differences | `Refresh`, `Compare` |
| runGreenfieldSourceReviewTransition: read, write the record, append the event | `Review`, `Decide`, `Tell` |
| runGreenfieldSourceAdopt: check the decisions | `Adopt` |
| active snapshot, compatibility snapshot, registry, baseline, review record, adoption record, event | `WriteActive`, `WriteCompat`, `WriteLifecycle`, `WriteBaseline`, `WriteReview`, `WriteRecord`, `TellAdoption` |
| the process dies or a write throws | `Cut` |

A change has an adoption record if `change` drafted it (spec-delta.ts), and none if `source refresh --change` made its
directory; adopting it then writes no record (source-governance.ts:923). The initial state says which changes are
drafted, and that their first list of differences is empty, since nobody has edited the documents yet.

Four history variables (`torn`, `sound`, `overwritten`, `truth`) say under which circumstances a property is claimed and
what the last promotion rested on.

### 2.7 Greenfield review

`GreenfieldReview` has an entry of the review record, a debt and two lists per decision.

| code | actions |
| --- | --- |
| runGreenfieldReviewTransition: load the record | `Review` |
| rejectDecision: spec delta, correction file | `DraftDelta`, `Correct` |
| deferDecision: the project's list, the pack's list | `ReadList`, `WriteList` |
| waiveDecision: the spec-debt ledger | `ReadLedger`, `Owe` |
| record and gate written back, audit event | `WriteRecord`, `Tell` |
| spec-debt repay, cancel, owner-review | `Manage`, `Settle`, `TellDebt` |

### 2.8 Stage cache

`StageCache` is one process after another over the directory `.jispec-cache`: per key a manifest and a result on disk, and
the same two in the maps of `CacheManager`. A result is the number of the put that stored it, a manifest its status. Every
call is cut at each of its awaits, where calls of other callers come in:

| code | actions |
| --- | --- |
| getManifest: memory, exists, read | `Seek`, `Ask`, `ReadManifest` |
| what get, warmup, invalidate do with it | `Found`, `Missed`, `NothingToInvalidate` |
| storeManifest, storeValue: the file is opened and emptied, written, then remembered | `Open`, `Write`, `Remember`; `OpenResult`, `WriteResult`, `RememberResult` |
| getStoredValue and the answer | `SeekValue`, `AskValue`, `ReadResult`, `Tell` |
| listManifests, and the loops over what it found | `List`, `Scan`, `Listed`, `NextKey` |
| invalidate's last line; prune; clear | `Drop`; `Unlink`, `AskResult`, `UnlinkResult`, `Forget`; `Remove`, `Cleared` |
| a read of a file that is gone or does not parse; a write that fails; the end of the process | `Throw`, `Catch`; `WriteFails`; `Exit` |

`CacheMap` is what the stage runner and the workers may believe of it, and what `StagePipeline` and
`DistributedRuntime` assume: one result or none per key, the one stored last. The refinement maps an entry to what a
lookup would find now, and while a put is under way to what it found before.

## 3. Runs

| run | bounds | states | checks |
| --- | --- | --- | --- |
| `adopt` | 2 sessions, 2 kinds, 2 adoptions, 4 worlds | 1.7 million | `HandoffConsistent`, `CommittedIsAudited`, `AbandonRestores`, `SavedIsComplete`, `OwnDebtAtomic`, `ImplementsAtomic`, `OnlyRerunDiscards` |
| `adopt_backup_throws` | 1 session | | `RollbackRestores` is violated |
| `stage_pipeline` | 7 modes, 2 or 3 stages, 3 runs, 1 edit | 1.2 million | `TxGateBeforeLife`, `OutputBeforeLife`, `UndoIsExact`, `AllOrNothing`, `NoLostProgress`, `RunEnds` |
| `stage_legacy_gates` | 1 mode, no faults | | `GateBeforeLife` is violated |
| `runtime_worlds` | 2 tasks of sizes 1 and 2, 2 workers of capacities 1 and 2, 2 tries, 4 worlds | 0.9 million | `PendingIsQueued`, `NoLeak`, `OnePlace`, `TasksEnd` |
| `runtime_twice` | the same, one world | | `NeverTwice` is violated |
| `mainline` | 2 terminals, 2 sessions, 3 patches, 4 worlds | 4.4 million | `MediationHolds`, `RecoveryRuns`, `StallBound`, `FinishedGreen`, `SessionsStay` |
| `governance` | 2 terminals, 2 waivers, 2 issues, 2 reviewers, 1 day, 3 policies, 6 worlds, 3 or 4 commands | 1.1 million | `OneLinePerTerminal`, `PassIsAccepted`, `PolicyActsOnItsFact`, `RevokedNeverPasses`, `LedgerTells`, `PostureIsAudited` |
| `sources` | 4 requirements, 5 versions of the documents, 2 changes, 2 terminals, 5 worlds, 4 to 6 commands, 2 edits | 4.9 million | `FilesAgree`, `AdoptionWasDecided`, `RegistryFollows`, `DecisionStands` |
| `sources_stale_review` | 1 change, 3 versions, 4 commands, nothing goes wrong | | `TruthIsReviewed` is violated |
| `review` | 2 decisions, one of them serious, 2 terminals, 4 worlds, 3 to 6 commands | 3.3 million | `WaivedIsOwed`, `DeferredIsListed`, `RejectedIsCorrected`, `LastWordStands`, `ReadyWasSaid` |
| `cache` | 2 callers, 2 keys, 4 worlds, 3 to 5 calls | 1.7 million | `RevokedIsGone`, `OnlyCutsThrow`, `ImplementsMap` |

The type invariants are proved (section 4) and not run again by
TLC, and so are `CompletedIsCached`, `RetriesBounded` and `DebtIsNamed`, which the modules state.

**Adoption.** Two sessions are the least with which one can clobber the other's hand-offs and debt. Two kinds give every
combination of the seven renames (contracts only, debt only, both, none). Two adoptions are enough for "adopt again after
a failure", the step that deletes the backups of the first. The worlds are: calls that throw and are caught; the same
with crashes; everything that can throw; two processes at once. With two at once the shared files cannot be consistent
(both copy the same contracts directory and rename over each other); what remains true is checked. Sessions and kinds are
interchangeable, which the run uses as symmetry; all its properties are safety properties.

**Pipeline.** Transactions are checked with every step throwing and nothing else going on over three stages, and with
lost snapshots, crashes, user edits and `--from` on top over two; a third mode has agents of every sort on the
transaction path (no gates named, gates failed, nothing written) with commits and cache writes that throw. The legacy path is checked with every step throwing and
crashes, and with agents that write outside the slice, name no gates or write nothing. Two more modes have a rollback that
restores the state and not the files (`state_only`, as the basic template has it), one on each path. Three runs of the pipeline leave
room for failure, rollback to the snapshot of an earlier run and a later cache hit.

**Runtime.** The smaller worker cannot hold the larger task, so that tasks wait, are refused and are degraded. Two tries
distinguish "may be retried", "is being retried" and "has failed". The worlds are: executors fail; cache writes fail too;
tasks are cancelled and workers go offline too; a worker stops. Retries bound everything but the quarantined tasks, and
these are bounded by the workers, whose ids cannot be added again.

**Mainline.** The scopes nest (`src/a` in `src`), so that a path may be below, above, beside or equal to what a session
allows. One patch mends the code; one breaks it and deletes a file beside the first session's directory; one has no
prefixes, so that its two readings name different files. With one terminal commands are not counted:
ids of sessions bound the behaviours. With two terminals three commands are given, which is what the overwriting of a
session by another terminal takes. Limits 2 and 7 lie on both sides of the stall bounds 3 and 5.

**Governance.** One waiver covers one issue, the other both, so that revoking one may leave an issue covered. The worlds
are: waivers changed at two terminals with crashes; at one with crashes; waivers, verify and appends that throw; waivers
and approvals; waivers and verify with every set of options at two terminals; verify with options while the code changes.
Create, revoke, renew, verify is the shortest history in which a revoked waiver could come back, and has four commands;
the others need three. One day separates what has expired from what has not.

**Sources.** The five versions make one adoption after another add, reword, move, split, merge back, drop and state again
a requirement. Two changes are the least with which the differences of one are stale after the other was adopted. Two
edits and six commands allow refresh, review, adopt and all three again for the other change. The worlds are: nothing goes
wrong; commands are cut; two at once; a project without active snapshot and registry, with cuts and
with changes that were not drafted; reviewers who name another successor.

**Review.** One decision is serious, and its id is part of the other's: the lists are searched for an id as text. The four
worlds are all combinations of two terminals and cuts; six commands when one runs after another, five with cuts, four with
two at once, three with both: an older copy is written back after two.

**Cache.** Two keys tell an operation on one entry from one on all of them (sweeps, prune, clear, a listing that fails
over another key's file). Calls one after the other: five (put, invalidate, put, prune or warm-up, get, with the process
ending anywhere between them) when nothing fails, four with crashes and failing writes. Three that overlap are a
put, its invalidation and a lookup, or a listing between two of them; two run at the same time.

**Fairness.** `RunEnds` assumes that a stage that can go on does (`WF_vars(Step)`): agents are called with a timeout and
everything else is synchronous. Faults, crashes, edits and new runs are never forced. `TasksEnd` assumes that timers fire
and promises resume (`WF_vars(Step)`: the scheduling interval, heartbeats, handlers); an executor is raced against the
task's timeout, so it ends. Nobody has to submit, add a worker, cancel or stop. No other property needs fairness.

**Deadlock** is checked for the cache, where no call may get stuck and a process may always end. Elsewhere it is not: a
program whose commands were all given stops.

**Mutants.** Each property of a passing run has a definition with a bug in it that violates the property: a swapped order
(`BeginWithTarget`, `RecordFirst`), a missing reset (`ReportKeepsAlloc`), a write that skips one of two levels (`FoundInMemory`, `PutOnDisk`), a dropped guard
(`AlwaysRestorable`, `MayChangeAny`, `Undecided`, `AskNothing`), a wrong direction (`Oldest`), a lost line
(`NewNames`, `OperationsWithoutDebt`, `TaskFailedForgets`, `AppliedToPieces`), a wrong operand (`MatchesWhatIsFound`, `OwnVersion`).

## 4. What is proved

All for any sets of sessions, kinds, tasks, workers, terminals and patches, any capacities, scopes and limits, and
behaviours of any length, from the assumptions the modules name (`DistinctOrigins`, `SomeSession`, `WorldsAssumption`,
`BoundsAssumption`, `ModeAssumption`, `TasksAssumption`, `MainlineAssumption`, `LedgerAssumption`, `GovernanceAssumption`, `SubjectsAssumption`,
`SourceAssumption`, `NoneAssumption`, `ReviewAssumption`, `CacheAssumption`: types, and that `None` is not one of the things it stands
beside).

**Adoption** (`BootstrapAdoptProofs`). `TypeCorrect` needs that the operation counter stays inside the batch (`Cursor`).
`AbandonAlwaysRestores` speaks of `Restorable` worlds: one process at a time, and no fault among those that throw
inside the commit's own undo (`backup_rename`, `cleanup`, `rollback`) or after it (`manifest`, `audit`); the run
`adopt_backup_throws` shows why the first is excluded. Two inductive invariants carry the rest.

- `AtomicInv` looks back, in `Reversible` worlds (all but the first three faults, one process): at every point of the
  commit, undoing the renames made so far (`Undone`) gives the tree the process started from, and at most one process is
  busy. Steps of the commit change `live` and `backup` but not `Undone`; the lemmas `UndoneMove`, `UndonePutBack`,
  `UndoneInstall`, `UndoneNothing` and `UndoneAbsent` say so for each kind of step.
- `ForwardInv` looks ahead, for any faults with one process: what the operations done so far have put in place is what the
  decisions ask (`Target`), what is not yet moved is staged, and every other path is as it was. At the last operation
  the tree is `Applied` (`CompleteBatch`), from which `SavedAdoptionsAreComplete` follows.

`AdoptionIsAtomic` is the refinement: the abstract tree is `Undone` while a process commits and `live` otherwise, so
that by `AtomicInv` no step but `Cleanup` changes it, and by `ForwardInv` that one applies the batch (`StepRefines`).
`HandoffsAgree` is an induction over the abstract steps (`AppliedIsConsistent`); it needs that there is a session at all
(`SomeSession`). `ContractsAreKept` takes both invariants: before the clean-up a contract is where `Undone` finds it,
after it the batch has kept or replaced it. `CommittedSessionsAreAudited` has an invariant of its own (`Auditing`).
`OwnDebtIsAtomic` holds with any number of processes: `OwnDebt` speaks only of what one session's process does to one
path, and `OthersDebt` says that no other process writes it.

**Runtime** (`DistributedRuntimeProofs`). `IInv` is typing, `PendingIsQueued`, `NoLeak` and `CompletedIsCached` together,
and is inductive once the counts of `jobs` are tracked through `Move` (`MoveCounts`). For steady worlds (no quarantine,
cancel or stop) `SInv` adds `Calm` (no worker ever leaves or goes offline, a task is queued at least as often as it is
due for assignment, and the worker of an assigned or running task is up) and, for each task, `InOnePlace` and `Tried`
(tries stay within `MaxRetries`, and a task that is not final has one left); `OnePlace` and `RetriesBounded` follow. From
the same invariant `TasksMoveOn` orders what can happen to a task: new, queued, at its worker's four awaits, final, and
after a failure the same again with one try more.

**Mainline** (`ImplementMainlineProofs`). `IInv` says for each command what it must have come to at each point
(`Sound`: what is set, which counters are where), what it has left on disk (`Left`), and that a session whose patch failed
has its packet or a command that still owes it one (`Packeted`). `StallBound` and `RecoveryRuns` follow. For `MediationHolds` it says
that a patch about to be applied was found in scope (`Accept`), and that one to be recorded as accepted is in the tree (`ClaimsHold`) until
its record is written; `ParserSeesChanges` is the lemma that in git's own format the parser finds every path git
changes, and `ScopeIsAbove` that its test of a prefix is what the property says.
With one terminal `Solo` adds that the command's session is still the active one and the tests still say what they
said, from which `FinishedGreen` and `SessionsStay` follow.

**Audit ledger and governance** (`VerifyGovernanceProofs`). `LedgerInv` adds to the
property that a terminal whose command is about to append has no line that is damaged or follows damage
(`ReadersAreClean`): its command found the ledger intact, so whatever broke it since is by others. Damage can be neither prevented (two terminals) nor repaired; `DamageIsBounded` says
that it stops. `KeepsTheLedger` is the refinement `Spec => LSpec` for every step of the commands, and carries the bound
over to them. For `PassIsAccepted` the invariant tracks through a run of verify which of the collected issues
blocking, waivers and baseline account for (`Explained`). For `PolicyActsOnItsFact`, `Flagged` says what the rule on the
number of issues came to, and `Cleared` that after their steps nothing blocks that waivers and baseline still accept. With one terminal no other command is under way (`Solo`): a command that has
written finds its own text in the file, and the files of retired waivers say so (`Revocations`), which gives
`RevokedNeverPasses`; what a command inspected is still the whole ledger, and intact (`Inspected`), so that its event
is appended as the last on its waiver (`AppendTells`), which gives `LedgerTells`. `PostureIsAudited` adds that each stored
approval is on the ledger or pending (`Heeded`), so that the two sets of current approvals are equal (`HeardIsStored`).

**Sources** (`SourceEvolutionProofs`). `RegistryMovesOn` is a lemma about the two functions for any pair of documents: if
the live requirements of a registry are those of the first, then after applying the differences they are those of the
second. It needs what each kind of difference takes away and names (`SplitClasses`, `MergedClasses`, `OtherClasses`) and
the nine layers of `Applied` one by one (`AppliedIs`). `ChangesHaveItems` says that whatever is added, dropped or
reworded has a difference that must be decided. `RegistryAlwaysFollows` and `PromotionsWereDecided` follow by induction.
`DecisionsAlwaysStand` needs that a decision written and not yet told is in the record (`DecisionsWritten`), and
that records nobody overwrote only grow (`ReviewGrows`). `FilesAlwaysAgree` needs what an adoption that is alone has left
on disk at each of its steps (`WrittenBy`).

**Review** (`GreenfieldReviewProofs`). Each property has its own strengthening, which speaks of the copies commands
hold as well as of the file: a decision that is not owed is waived in no copy (`OwedOrNever`); a debt is named or adrift
(`NamedOrAdrift`, with `Found`); the corrections of every copy are on disk (`CorrectionsBacked`); an entry of any copy with
a status other than proposed has a history (`GateHonest`); a decision deferred in any copy is on the lists, and a command
past a list has put its own there (`DeferralsListed`).

**Stage pipeline** (`StagePipelineProofs`). `UndoAlwaysExact` needs that while a transaction applies, the snapshot it
took holds the slice as it was when the stage began (`Backed`). What the slice promises (a stage that is reached has its
output, `Filled`; its gates passed, `Gated`) cannot be inductive for the slice alone, since a rollback writes a snapshot
back: every snapshot promises it too (`Full`, `Passed`), and the one a rollback chooses is among them
(`LatestIsACandidate`). With transactions no check comes between the agent and the commit, so that the answer, and every
answer in the cache, must have the output already (`Written`). `Retained` covers the rollback that restores the life but
not the files. `OutputAlwaysBeforeLife` and `GateAlwaysBeforeLife` follow.

`FailuresAreAtomic` needs, for transactions, what a stage has made of the slice at each step (`Progress`), that the
agent is really asked (`Uncached`), and where a rollback will lead (`Anchors`): the newest snapshot that is not of the
stage at work is the state and files the stage began with, and evidence the rollback must remove is newer than it. One
form of this (`AnchoredIn`) has to survive every snapshot taken, by the transaction and after it, and every rollback.
`ProgressIsNeverLost` follows from the same on the transaction path. On the legacy path nothing pins the snapshot's
files: a crashed or retried stage may have written some, and `Rooted` says only that the newest snapshot of an earlier
stage has its life and every output the slice has, which is enough.

`RunsMoveOn` needs only the types: stages, attempts and the steps of an attempt are ordered, and every step, a
retry and a failure included, goes forward in that order.

**Stage cache** (`StageCacheProofs`). A call's record says at each step what it is about, and a result is filed under the
key of its put (`Typed`, from which `CacheTypeCorrect`). A call that nobody overlaps is the only one under way (`Company`),
and what it has read of files and memory is still so when it uses it (`Sees`). `Revocation` says that where a file or memory
still keeps a revoked result, no file, no memory and no call says valid of its key, with the exceptions `RevokedIsGone`
names; the property follows at once. `Whole` adds that a torn file is recorded as cut or has its write under
way, so that what a lone call throws on is torn by a cut (`CutsThrow`). For the refinement `Undisturbed` says that where
calls neither overlap nor fail, memory agrees with the files but for the entry the call under way is about, and that
prune and a lookup have seen what is there. `MapStep` then takes each action to a step of `CacheMap` or to none: a put
changes the map only when its result is remembered, a lookup serves when it answers, an
invalidation, prune and clear with the steps that hide entries, and a restart changes nothing.

`CallsMoveOn` orders the steps of a call by what is left of its list, of its scan and of the entry it is at, and says that
no step goes back.

**Model-checked only.** `TasksEnd` and `RunEnds`, which are liveness properties and out of the prover's reach. The part of
them that is about single steps is proved: no step of a run or of a task goes back (`RunsMoveOn`, `TasksMoveOn`), and
stages, attempts, tries and phases are bounded. What remains to TLC is that there is always a step, and fairness. That
the violations of the other four runs are real is TLC's to show: each comes with a behaviour.

## 5. What the checks found

Four runs end in a violation; `PROJECT.json` quotes the line each of them contradicts.

- `adopt_backup_throws`: when the rename of the live path to its backup throws, the inner catch deletes the live path (`RollbackRestores`).
- `stage_legacy_gates`: on the legacy path, which is the default, `slice.yaml` is written back from a copy read before the
  gates were set, so a successful stage loses its gates.
- `runtime_twice`: after an offline error a task is queued twice and can be handed to a worker that is running it.
- `sources_stale_review`: a decision is found by an id that does not say the text it was taken about, so that a
  requirement reworded after its review, and refreshed, is promoted on the strength of the earlier decision.

Some properties are restricted because TLC violates them otherwise:

- `SessionsStay` and `FinishedGreen` hold for one terminal. With two, `change` during `implement` is overwritten when
  `implement` writes its session back (implement-runner.ts:383), and a `change` between the check and the rename
  (change-session.ts:137) archives a session nobody verified.
- `MediationHolds` speaks of patches in git's own format. Where `---` and `+++` come without `a/` and `b/` (as with
  `diff.noprefix`), the scope is decided for one path (`src/a/x`) and git changes another (`a/x`): patch-mediation.ts:364
  strips a prefix that is there, git always one component. TLC finds it when the premise is dropped. Names in quotes
  on a `diff --git` line are not read (the `---` and `+++` lines of the file are). Names that leave the root
  are not counted as violations (patch-mediation.ts:374), which is harmless in git's format because git refuses them. And
  while files are edited, git may apply another patch than the one that was read (135, 163). The repository's tests have
  patches in git's format only.
- `PolicyActsOnItsFact` claims the half about blocking issues for one terminal: with two, a waiver or a
  baseline that comes after the run has looked accepts at the verdict what still blocks it.
- `RecoveryRuns` excludes crashes: one after the rejection record and before the packet leaves a recovery command that
  names a missing file.
- `TxGateBeforeLife` excludes agents that name no gates or report them failed: the transaction path has no fallback to
  the stage's configured gates, and its commit looks at none (transaction-manager.ts:205). `OutputBeforeLife` excludes,
  on that path only, an agent that writes nothing.
- `AllOrNothing` and `NoLostProgress` exclude `--from`, edits and lost snapshots: a re-run that fails rolls back to the
  newest snapshot of another stage, which may be older than the stage's own success (failure-handler.ts:245), and takes
  the user's edits with it (stage-runner.ts:292), also with `rollback.enabled: false`. A failure after the commit
  (stage-runner.ts:265) is reported as failed with the slice advanced, hence `Completed`. With `strategy: state_only`
  (template-manager.ts:379) the rollback of such a failure takes the state back and leaves the stage's files, so that a
  failed stage is neither undone nor complete. `NoLostProgress` with transactions excludes crashes too: one between the
  commit and the stable snapshot (stage-runner.ts:231) leaves the stage's pre-transaction snapshot the newest of its name,
  and the next stage that fails rolls back to it and undoes the stage that succeeded.
- `OnePlace` and `RetriesBounded` are stated for steady worlds: quarantine queues a task again while its failure is still
  on the way (distributed-runtime.ts:397); a silent worker is made idle again by the failures of its own tasks
  (distributed-scheduler.ts:480).
- `RevokedNeverPasses` and `LedgerTells` hold for one terminal. With two, a renewal that read the waiver before the
  revocation writes it back active (waiver-store.ts:174), and a command that inspected the ledger before another one
  damaged it appends to the damaged ledger, though `docs/audit-ledger.md:38` has it refuse.
- `AdoptionWasDecided` excludes differences that are not those between what was replaced and what is promoted: adopting a
  change refreshed before another was adopted takes the other one back, and a refresh cut before its differences lets
  `source adopt` promote text nobody compared.
- `RegistryFollows` excludes the same, and successors a reviewer names: a merge activates only the first of several
  (source-governance.ts:786, 795), so the model lets `--maps-to` name one. After an adoption cut before the registry, a
  new refresh finds no differences, and the registry never learns of the change.
- `FilesAgree` asks for the adoption record of a drafted change only. The adoption of a change that `source refresh` alone
  knows is audited and in the baseline, and no adoption record says so (source-governance.ts:923).
- `FilesAgree` excludes adoptions that were cut or overlapped: the truth contract (:48) asks for an atomic update of
  what the code writes one file after the other.
- `DeferredIsListed` says that a deferred decision is *named*. It is not appended when its id, or one that contains it,
  is on the list already, and the generated list has every serious decision: the block with the reason is then missing
  from the file that `open_decision_path` names. The repository's test of it reads the generated text.
- `WaivedIsOwed` speaks of decisions that are waived now: adopting a waived decision leaves its debt open and its waiver
  record in place (review-workflow.ts:233).
- `LastWordStands` and the others of `GreenfieldReview` except entries an older copy replaced: two reviews at a time lose one
  of the decisions, and its side files stay.
- `RevokedIsGone` speaks of invalidations no other call overlapped: a lookup that read the manifest before one writes it
  back valid after it (cache-manager.ts:205). It excludes keys whose last put was cut, failed or overlapped: the new
  manifest then vouches for the old result (cache-manager.ts:214), an invalidated one included.
  TLC reaches three overlapping calls, an invalidation among them; longer histories of overlaps after one rest on
  `RevokedStaysGone`.
- `OnlyCutsThrow` says how far a file cut short reaches: every lookup of its key throws, and every listing, so that a
  sweep by slice invalidates nothing until the cache is cleared (cache-manager.ts:321).
- `NoLeak` speaks of a handler, not of the worker: a second run of a task shares the first one's allocation.

Read in the code, and visible in the models without a property of their own: `implement` without `--max-iterations`, or
with only some of the three limits, iterates not at all, because the limits that are undefined replace the defaults
(budget-controller.ts:29), though `cli.ts:1583` promises ten; a heartbeat forgets what was assigned and
not started, so the scheduler assigns tasks the worker then refuses (distributed-scheduler.ts:223); an audit append that
throws abandons an adoption whose files are live (adopt.ts:189); a transaction that fails half-way through its writes does
not remove files written outside the slice (transaction-manager.ts:263); `--from-handoff` restores the packet's session
before the mismatch with `--session-id` refuses the command (implement-runner.ts:185-188); a packet outlives its session's
archive, so a finished session can be resumed (mainline-flow.ts:195).

## 6. What is not modelled, and why

The program is large, and most of it is not the kind of code a state machine says anything about: of its 96 000 lines,
more than four fifths turn files into documents or reports in one pass (doctor, releases, console, drafts and assets of
greenfield projects, discovery, metrics, integrations, the CLI), keep no state between calls and decide nothing that
another command acts on. Their correctness is that of wording, layout and heuristics. The modules cover the code that
changes shared state in more than one step, or whose order of steps decides something; a map of the rest would name
lines that no definition translates. `PROJECT.json` lists every component with its reason.

In the modelled components:

- everywhere: prompts, wording and layout of files, contents of audit events beyond what the properties compare, dry runs;
- pipeline: failures inside an undo, `parallel-executor.ts` (the configured stages are a chain), keys other
  than by what they depend on;
- runtime: statistics, stopping the whole runtime, `waitForTask`, checkpoint files, remote transport;
- mainline: contents of packets, how a diff is classified into a lane;
- verify: the fast lane, collectors, how the fields of a waiver's matcher are compared, issues that do not block, the
  gap ledger and the reconciliation with a takeover, `recordExpiredWaiverAuditEvents` (only a test calls it), events from
  before the hash chain;
- policy: rejected approvals, subjects other than waivers, rules on other facts, the language of conditions, migration;
- sources: headings and excerpts, owners and expiry dates of decisions;
- review: owners, reasons and expiry dates; the debt report and its export; a ledger of debts that was cut short while
  it was written, which reads as empty (spec-debt-ledger.ts:260): the model writes whole files;
- cache: times to live, statistics, two processes at the same time over one directory (each has a first level of its own
  that the other's invalidations do not reach).

Components left out that do keep state: the cross-slice scheduler (nothing imports it), collaboration and the remote
runtime (deferred by the release contract, reached only from their own tests).

## 7. Plan

What remains, the most consequential first:

1. Two processes over one cache directory.
2. Collaboration: concurrent edits with position transforms, locks and presence, once it is no longer deferred.
