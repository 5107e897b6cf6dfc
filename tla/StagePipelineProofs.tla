-------------------------- MODULE StagePipelineProofs --------------------------
(***************************************************************************)
(* The stage pipeline for every project it is run in: the type of its       *)
(* state, the exact undo of a transaction, a lifecycle state that runs      *)
(* ahead neither of the stage's output nor of its gate, a failure that      *)
(* leaves all of a transactional stage or nothing of it, and earlier stages *)
(* that no failure costs their progress.  Each promise about the slice is   *)
(* strengthened to the snapshots, because a rollback writes one of them     *)
(* back.                                                                    *)
(***************************************************************************)
EXTENDS StagePipeline, TLAPS, FiniteSetTheorems

-----------------------------------------------------------------------------
(* What does not depend on the step. *)

LEMMA SameMode ==
  ASSUME mode' = mode
  PROVE  /\ Last' = Last /\ Stages' = Stages /\ Transactional' = Transactional
         /\ Slices' = Slices /\ Snapshots' = Snapshots
         /\ Results' = Results /\ Contents' = Contents
  BY DEF Last, Stages, Transactional, Slices, Snapshots, Results, Contents

LEMMA ModeFacts ==
  ASSUME mode \in Modes
  PROVE  /\ Last \in Nat \ {0} /\ 1 \in Stages
         /\ mode.maxAttempts \in Nat \ {0}
         /\ mode.replies \subseteq AllReplies
         /\ Transactional \in BOOLEAN /\ mode.fullRollback \in BOOLEAN
         /\ \A k \in Stages : k \in 0 .. Last /\ k # 0
<1>1. mode.stages \in Nat \ {0} /\ mode.maxAttempts \in Nat \ {0} /\ mode.replies \subseteq AllReplies
  BY ModeAssumption
<1>2. {mode.transactional, mode.keepSnapshots, mode.fullRollback, mode.prompt, mode.anywhere, mode.edited} \subseteq BOOLEAN
  BY ModeAssumption
<1>3. mode.transactional \in BOOLEAN /\ mode.fullRollback \in BOOLEAN
  BY <1>2
<1> QED
  BY <1>1, <1>3 DEF Last, Stages, Transactional

LEMMA SliceFields ==
  ASSUME NEW s \in Slices
  PROVE  s.life \in 0 .. Last /\ s.gates \in SUBSET Stages /\ s.files \in [Stages -> Contents]
  BY DEF Slices

LEMMA SliceUpdates ==
  ASSUME NEW s \in Slices
  PROVE  /\ \A l \in 0 .. Last : [s EXCEPT !.life = l] \in Slices
         /\ \A g \in SUBSET Stages : [s EXCEPT !.gates = g] \in Slices
         /\ \A l \in 0 .. Last, g \in SUBSET Stages : [s EXCEPT !.life = l, !.gates = g] \in Slices
         /\ \A f \in [Stages -> Contents] : [s EXCEPT !.files = f] \in Slices
         /\ \A k \in Stages, c \in Contents : [s EXCEPT !.files[k] = c] \in Slices
  BY DEF Slices

LEMMA SnapshotType ==
  ASSUME snaps \in Seq(Snapshots), NEW i \in DOMAIN snaps
  PROVE  snaps[i].slice \in Slices
<1>1. snaps[i] \in Snapshots
  OBVIOUS
<1> QED
  BY <1>1 DEF Snapshots

LEMMA BlankIsASlice == mode \in Modes => Blank \in Slices
  BY ModeFacts, BoundsAssumption DEF Blank, Slices, Contents

(* RollbackToLatest finds what it looks for: among the numbers i of the candidates
   the interval above i is smallest for the greatest i. *)
LEMMA LatestIsACandidate ==
  ASSUME snaps \in Seq(Snapshots), Candidates # {}
  PROVE  Latest \in Candidates
<1> DEFINE n == Len(snaps)
           Above(i) == {j \in 1 .. n : i < j}
           T == {Above(i) : i \in Candidates}
<1>1. n \in Nat /\ Candidates \subseteq 1 .. n
  BY DEF Candidates
<1>2. IsFiniteSet(1 .. n)
  BY <1>1, FS_Interval
<1>3. IsWellFoundedOn(StrictSubsetOrdering(1 .. n), SUBSET (1 .. n))
  BY <1>2, FS_FiniteSubsetsOfFinite, FS_StrictSubsetOrderingWellFounded
<1>4. T \subseteq SUBSET (1 .. n) /\ T # {}
  OBVIOUS
<1> HIDE DEF n
<1>5. \E x \in T : \A y \in T : <<y, x>> \notin StrictSubsetOrdering(1 .. n)
  <2> HIDE DEF T
  <2> QED
    BY <1>3, <1>4, WFMin
<1>6. PICK i \in Candidates : \A y \in T : <<y, Above(i)>> \notin StrictSubsetOrdering(1 .. n)
  BY <1>5
<1>7. ASSUME NEW j \in Candidates PROVE j <= i
  <2> SUFFICES ASSUME i < j PROVE FALSE
    BY <1>1
  <2>1. Above(j) \subseteq Above(i) /\ j \in Above(i) /\ j \notin Above(j)
    BY <1>1
  <2>2. <<Above(j), Above(i)>> \in StrictSubsetOrdering(1 .. n)
    BY <2>1 DEF StrictSubsetOrdering
  <2> QED
    BY <2>2, <1>6
<1> QED
  BY <1>7 DEF Latest

-----------------------------------------------------------------------------
(* Types.  From the agent's answer to the end of the stage there is a result
   and a target, of the stage; a pipeline at work is one of the runs. *)
Working == {"validate", "begin", "write", "aside", "gates", "check", "evidence",
            "commit", "snapshot", "lifecycle", "cache"}

AtWork ==
  /\ key.stage \in Stages
  /\ pc \in Working => result \in Results /\ target.life = stage
  /\ pc # "idle" => runs # 0

Typed == TypeOK /\ AtWork

LEMMA KeyStage == ASSUME NEW k, NEW s PROVE CacheKey(k, s).stage = k
  BY DEF CacheKey

LEMMA TypedInit == Init => Typed
<1> SUFFICES ASSUME Init PROVE Typed
  OBVIOUS
<1>1. mode \in Modes
  BY DEF Init
<1>2. Blank \in Slices /\ Last \in Nat \ {0} /\ 1 \in Stages /\ mode.maxAttempts \in Nat \ {0}
  BY <1>1, BlankIsASlice, ModeFacts
<1>3. key.stage = 1
  BY KeyStage DEF Init
<1>4. aside \in [Stages -> Contents]
  BY BoundsAssumption DEF Init, Contents
<1>5. snaps \in Seq(Snapshots) /\ evidence \subseteq [stage : Stages, newerThan : 0 .. Len(snaps)]
  BY DEF Init
<1>6. target \in [life : 0 .. Last, gates : SUBSET Stages]
  BY <1>2 DEF Init
<1>7. tx \in [snap : 0 .. Len(snaps), recorded : BOOLEAN]
  BY DEF Init, NoTx
<1>10. slice \in Slices /\ before \in Slices /\ stage \in Stages /\ attempt \in 1 .. mode.maxAttempts
  BY <1>2 DEF Init
<1>11. runs \in 0 .. MaxRuns /\ edits \in 0 .. MaxEdits /\ cache = {}
  BY BoundsAssumption DEF Init
<1>12. /\ result \in Results \cup {NoResult} /\ hit \in BOOLEAN
       /\ pc = "idle" /\ told = "none"
  BY DEF Init
<1>8. TypeOK
  BY <1>1, <1>4, <1>5, <1>6, <1>7, <1>10, <1>11, <1>12 DEF TypeOK
<1>9. AtWork
  BY <1>2, <1>3 DEF Init, AtWork, Working
<1> QED
  BY <1>8, <1>9 DEF Typed

\* What Fresh leaves has its type, whatever else the step does.
LEMMA FreshType ==
  ASSUME mode \in Modes, Fresh
  PROVE  /\ key'.stage \in Stages
         /\ result' = NoResult /\ hit' \in BOOLEAN
         /\ target' \in [life : 0 .. Last, gates : SUBSET Stages]
         /\ tx' = NoTx /\ \A n \in Nat : tx' \in [snap : 0 .. n, recorded : BOOLEAN]
<1>1. 1 \in Stages /\ Last \in Nat
  BY ModeFacts
<1>2. key'.stage = 1
  BY KeyStage DEF Fresh
<1>3. \A n \in Nat : NoTx \in [snap : 0 .. n, recorded : BOOLEAN]
  BY DEF NoTx
<1>4. [life |-> 0, gates |-> {}] \in [life : 0 .. Last, gates : SUBSET Stages]
  BY <1>1
<1> QED
  BY <1>1, <1>2, <1>3, <1>4 DEF Fresh

LEMMA TypedBeginStage ==
  ASSUME Typed, mode' = mode, NEW k \in Stages, BeginStage(k),
         runs' \in 0 .. MaxRuns, runs' # 0, edits' = edits,
         told' \in {"none", "ok", "failed", "crashed"}
  PROVE  Typed'
<1>1. mode \in Modes /\ snaps \in Seq(Snapshots) /\ Len(snaps) \in Nat
  BY DEF Typed, TypeOK
<1>2. 1 \in 1 .. mode.maxAttempts
  BY <1>1, ModeFacts
<1>3. Fresh /\ UNCHANGED disk
  BY DEF BeginStage
<1>4. /\ key'.stage \in Stages /\ result' = NoResult /\ hit' \in BOOLEAN
      /\ target' \in [life : 0 .. Last, gates : SUBSET Stages]
      /\ tx' \in [snap : 0 .. Len(snaps), recorded : BOOLEAN]
  BY <1>1, <1>3, FreshType
<1>5. pc' = "look" /\ stage' = k /\ attempt' = 1 /\ before' = slice
  BY DEF BeginStage
<1> QED
  BY <1>2, <1>3, <1>4, <1>5, SameMode DEF Typed, TypeOK, AtWork, Working, disk

\* A step that changes no data: the place changes, and the result stays.
LEMMA TypedGoto ==
  ASSUME Typed, mode' = mode, UNCHANGED <<disk, work, history>>,
         told' \in {"none", "ok", "failed", "crashed"},
         pc \in Working, pc' \in Working \cup {"undo", "fail", "return"}
  PROVE  Typed'
  BY SameMode DEF Typed, TypeOK, AtWork, Working, disk, work, history

\* A step inside a stage that rewrites the slice, and nothing the types relate to it.
LEMMA TypedSlice ==
  ASSUME Typed, mode' = mode, pc \in Working, pc' \in Working \cup {"return"}, slice' \in Slices,
         aside' \in [Stages -> Contents],
         UNCHANGED <<evidence, snaps, cache, told, history>>,
         UNCHANGED <<stage, attempt, key, result, hit, target>>,
         tx' \in [snap : 0 .. Len(snaps), recorded : BOOLEAN]
  PROVE  Typed'
  BY SameMode DEF Typed, TypeOK, AtWork, Working, history

\* A step inside a stage that may add a snapshot or a piece of evidence.
LEMMA TypedKeep ==
  ASSUME Typed, mode' = mode, pc \in Working, pc' \in Working,
         \/ snaps' = snaps
         \/ \E s \in Snapshots : snaps' = Append(snaps, s),
         \/ evidence' = evidence
         \/ evidence' = evidence \cup {[stage |-> stage, newerThan |-> Len(snaps)]},
         UNCHANGED <<slice, aside, cache, told, history>>,
         UNCHANGED <<stage, attempt, key, result, hit, target>>,
         tx' \in [snap : 0 .. Len(snaps'), recorded : BOOLEAN]
  PROVE  Typed'
<1>1. snaps \in Seq(Snapshots) /\ Len(snaps) \in Nat /\ stage \in Stages
  BY DEF Typed, TypeOK
<1>2. snaps' \in Seq(Snapshots) /\ Len(snaps') \in Nat /\ Len(snaps) <= Len(snaps')
  <2>1. CASE snaps' = snaps
    BY <1>1, <2>1
  <2>2. CASE \E s \in Snapshots : snaps' = Append(snaps, s)
    BY <1>1, <2>2
  <2> QED
    BY <2>1, <2>2
<1>3. evidence' \subseteq [stage : Stages, newerThan : 0 .. Len(snaps')]
  BY <1>1, <1>2 DEF Typed, TypeOK
<1>4. TypeOK'
  BY <1>2, <1>3, SameMode DEF Typed, TypeOK, Working, history
<1>5. AtWork'
  BY SameMode DEF Typed, AtWork, Working, history
<1> QED
  BY <1>4, <1>5 DEF Typed

LEMMA NextLifecycleType ==
  ASSUME Typed
  PROVE  /\ NextLifecycle(stage) \in [life : 0 .. Last, gates : SUBSET Stages]
         /\ NextLifecycle(stage).life = stage
<1>1. slice.gates \in SUBSET Stages
  BY SliceFields DEF Typed, TypeOK
<1>2. stage \in 0 .. Last
  BY ModeFacts DEF Typed, TypeOK
<1> QED
  BY <1>1, <1>2 DEF NextLifecycle

LEMMA TypedAnswer == Typed /\ mode' = mode /\ (Look \/ Agent) => Typed'
<1> SUFFICES ASSUME Typed, mode' = mode PROVE Look \/ Agent => Typed'
  OBVIOUS
<1>1. /\ NextLifecycle(stage) \in [life : 0 .. Last, gates : SUBSET Stages]
      /\ NextLifecycle(stage).life = stage
  BY NextLifecycleType
<1>2. ASSUME Look PROVE Typed'
  <2>1. key'.stage = stage
    BY <1>2, KeyStage DEF Look
  <2>2. /\ pc = "look" /\ pc' \in {"agent", "validate", "write"}
        /\ UNCHANGED <<disk, stage, attempt, tx, told, history>>
        /\ hit' \in BOOLEAN
    BY <1>2 DEF Look
  <2>3. \/ pc' = "agent" /\ UNCHANGED <<result, target>>
        \/ \E c \in cache : result' = c.result /\ target' = NextLifecycle(stage)
    BY <1>2 DEF Look
  <2>4. CASE pc' = "agent" /\ UNCHANGED <<result, target>>
    BY <2>1, <2>2, <2>4, SameMode DEF Typed, TypeOK, AtWork, Working, disk, history
  <2>5. CASE \E c \in cache : result' = c.result /\ target' = NextLifecycle(stage)
    <3>1. result' \in Results
      BY <2>5 DEF Typed, TypeOK
    <3> QED
      BY <1>1, <2>1, <2>2, <2>5, <3>1, SameMode DEF Typed, TypeOK, AtWork, Working, disk, history
  <2> QED
    BY <2>3, <2>4, <2>5
<1>3. ASSUME Agent PROVE Typed'
  <2>1. /\ pc = "agent" /\ pc' \in {"validate", "write"} /\ target' = NextLifecycle(stage)
        /\ UNCHANGED <<disk, stage, attempt, key, hit, tx, told, history>>
    BY <1>3 DEF Agent
  <2>2. result' \in Results
    <3>1. PICK r \in mode.replies : result' = [reply |-> r, content |-> IF r = "empty" THEN 0 ELSE runs]
      BY <1>3 DEF Agent
    <3>2. r \in AllReplies
      BY <3>1, ModeFacts DEF Typed, TypeOK
    <3>3. (IF r = "empty" THEN 0 ELSE runs) \in Contents
      BY BoundsAssumption DEF Typed, TypeOK, Contents
    <3> QED
      BY <3>1, <3>2, <3>3 DEF Results
  <2> QED
    BY <1>1, <2>1, <2>2, SameMode DEF Typed, TypeOK, AtWork, Working, disk, history
<1> QED
  BY <1>2, <1>3

\* What a rollback writes back is a slice.
LEMMA RollbackType ==
  ASSUME Typed, RollbackToLatest
  PROVE  slice' \in Slices /\ evidence' \subseteq evidence
<1>1. CASE Candidates = {}
  BY <1>1 DEF RollbackToLatest, Typed, TypeOK
<1>2. CASE Candidates # {}
  <2>1. snaps \in Seq(Snapshots) /\ Latest \in DOMAIN snaps
    BY <1>2, LatestIsACandidate DEF Typed, TypeOK, Candidates
  <2>2. snaps[Latest].slice \in Slices
    BY <2>1, SnapshotType
  <2>3. slice' = [snaps[Latest].slice EXCEPT
                    !.files = IF mode.fullRollback THEN snaps[Latest].slice.files ELSE slice.files]
    BY <1>2 DEF RollbackToLatest
  <2>4. slice.files \in [Stages -> Contents] /\ snaps[Latest].slice.files \in [Stages -> Contents]
    BY <2>2, SliceFields DEF Typed, TypeOK
  <2>5. slice' \in Slices
    BY <2>2, <2>3, <2>4, SliceUpdates
  <2>6. evidence' \subseteq evidence
    BY <1>2 DEF RollbackToLatest
  <2> QED
    BY <2>5, <2>6
<1> QED
  BY <1>1, <1>2

LEMMA TypedEnd == Typed /\ mode' = mode /\ (Undo \/ Retry \/ GiveUp \/ Return \/ Crash) => Typed'
<1> SUFFICES ASSUME Typed, mode' = mode PROVE Undo \/ Retry \/ GiveUp \/ Return \/ Crash => Typed'
  OBVIOUS
<1>1. mode \in Modes /\ snaps \in Seq(Snapshots) /\ Len(snaps) \in Nat
  BY DEF Typed, TypeOK
<1>2. Fresh =>
        /\ key'.stage \in Stages /\ result' = NoResult /\ hit' \in BOOLEAN
        /\ target' \in [life : 0 .. Last, gates : SUBSET Stages]
        /\ tx' \in [snap : 0 .. Len(snaps), recorded : BOOLEAN]
  BY <1>1, FreshType
<1>3. ASSUME Undo PROVE Typed'
  <2>1. slice' \in Slices
    <3>1. CASE tx.snap = 0
      BY <1>3, <3>1 DEF Undo, Typed, TypeOK
    <3>2. CASE tx.snap # 0
      <4>1. tx.snap \in DOMAIN snaps
        BY <1>1, <3>2 DEF Typed, TypeOK
      <4>2. slice' = snaps[tx.snap].slice
        BY <1>3, <3>2 DEF Undo
      <4> QED
        BY <1>1, <4>1, <4>2, SnapshotType
    <3> QED
      BY <3>1, <3>2
  <2>2. aside' \in [Stages -> Contents]
    BY <1>3, BoundsAssumption DEF Undo, Typed, TypeOK, Contents
  <2>3. tx' \in [snap : 0 .. Len(snaps), recorded : BOOLEAN]
    BY <1>1, <1>3 DEF Undo, NoTx
  <2>4. /\ pc = "undo" /\ pc' = "fail" /\ evidence' \subseteq evidence
        /\ UNCHANGED <<snaps, cache, stage, attempt, key, result, hit, target, told, history>>
    BY <1>3 DEF Undo
  <2> QED
    BY <2>1, <2>2, <2>3, <2>4, SameMode DEF Typed, TypeOK, AtWork, Working, history
<1>4. ASSUME Retry PROVE Typed'
  <2>1. /\ Fresh /\ attempt < mode.maxAttempts /\ attempt' = attempt + 1
        /\ pc = "fail" /\ pc' = "look" /\ UNCHANGED <<disk, stage, told, history>>
    BY <1>4 DEF Retry, ShouldRetry
  <2>2. attempt' \in 1 .. mode.maxAttempts
    BY <1>1, <2>1, ModeFacts DEF Typed, TypeOK
  <2> QED
    BY <1>2, <2>1, <2>2, SameMode DEF Typed, TypeOK, AtWork, Working, disk, history
<1>5. ASSUME GiveUp PROVE Typed'
  <2>1. /\ Fresh /\ pc = "fail" /\ pc' = "idle" /\ told' = "failed"
        /\ UNCHANGED <<aside, snaps, cache, stage, attempt, history>>
        /\ RollbackToLatest \/ UNCHANGED <<slice, evidence>>
    BY <1>5 DEF GiveUp
  <2>2. slice' \in Slices /\ evidence' \subseteq evidence
    BY <2>1, RollbackType DEF Typed, TypeOK
  <2> QED
    BY <1>2, <2>1, <2>2, SameMode DEF Typed, TypeOK, AtWork, Working, history
<1>6. ASSUME Return PROVE Typed'
  <2>1. /\ pc = "return" /\ told' = "ok" /\ UNCHANGED <<runs, edits>>
        /\ \/ /\ pc' = "idle" /\ Fresh
              /\ UNCHANGED <<disk, stage, attempt, before, evidenceBefore, asideBefore>>
           \/ stage # Last /\ BeginStage(stage + 1)
    BY <1>6 DEF Return
  <2>2. runs' \in 0 .. MaxRuns /\ runs' # 0
    BY <2>1 DEF Typed, TypeOK, AtWork
  <2>3. CASE pc' = "idle" /\ Fresh /\ UNCHANGED <<disk, stage, attempt, before, evidenceBefore, asideBefore>>
    BY <1>2, <2>1, <2>3, SameMode DEF Typed, TypeOK, AtWork, Working, disk
  <2>4. CASE stage # Last /\ BeginStage(stage + 1)
    <3>1. stage + 1 \in Stages
      BY <1>1, <2>4, ModeFacts DEF Typed, TypeOK, Stages
    <3> QED
      BY <2>1, <2>2, <2>4, <3>1, TypedBeginStage
  <2> QED
    BY <2>1, <2>3, <2>4
<1>7. ASSUME Crash PROVE Typed'
  <2>1. Fresh /\ pc' = "idle" /\ told' = "crashed" /\ UNCHANGED <<disk, stage, attempt, history>>
    BY <1>7 DEF Crash
  <2> QED
    BY <1>2, <2>1, SameMode DEF Typed, TypeOK, AtWork, Working, disk, history
<1> QED
  BY <1>3, <1>4, <1>5, <1>6, <1>7

LEMMA TypedStage ==
  Typed /\ mode' = mode /\ (Validate \/ Begin \/ Write \/ WriteAside \/ Gates \/ Check \/ Evidence
                            \/ Commit \/ Snapshot \/ Lifecycle \/ CachePut \/ StepFails)
    => Typed'
<1> SUFFICES ASSUME Typed, mode' = mode
             PROVE  Validate \/ Begin \/ Write \/ WriteAside \/ Gates \/ Check \/ Evidence
                      \/ Commit \/ Snapshot \/ Lifecycle \/ CachePut \/ StepFails => Typed'
  OBVIOUS
<1>1. /\ mode \in Modes /\ snaps \in Seq(Snapshots) /\ Len(snaps) \in Nat
      /\ slice \in Slices /\ stage \in Stages /\ aside \in [Stages -> Contents]
      /\ tx \in [snap : 0 .. Len(snaps), recorded : BOOLEAN]
      /\ target.life \in 0 .. Last /\ target.gates \in SUBSET Stages
      /\ told \in {"none", "ok", "failed", "crashed"}
      /\ Transactional \in BOOLEAN
  BY ModeFacts DEF Typed, TypeOK
<1>2. pc \in Working => result.content \in Contents
  BY DEF Typed, AtWork, Results
<1>3. NoTx \in [snap : 0 .. Len(snaps), recorded : BOOLEAN]
  BY <1>1 DEF NoTx
<1>4. ASSUME Validate \/ Check \/ StepFails PROVE Typed'
  <2>1. /\ UNCHANGED <<disk, work, told, history>>
        /\ \/ pc \in Working /\ pc' \in Working \cup {"undo", "fail", "return"}
           \/ pc = "agent" /\ pc' = "fail"
    BY <1>4 DEF Validate, Check, StepFails, Working
  <2>2. CASE pc = "agent" /\ pc' = "fail"
    BY <2>1, <2>2, SameMode DEF Typed, TypeOK, AtWork, Working, disk, work, history
  <2>3. CASE pc \in Working /\ pc' \in Working \cup {"undo", "fail", "return"}
    BY <1>1, <2>1, <2>3, TypedGoto
  <2> QED
    BY <2>1, <2>2, <2>3
<1>5. ASSUME Begin PROVE Typed'
  <2>1. [stage |-> stage, slice |-> slice] \in Snapshots
    BY <1>1 DEF Snapshots
  <2>2. snaps' = Append(snaps, [stage |-> stage, slice |-> slice])
    BY <1>5 DEF Begin
  <2>3. Len(snaps') \in Nat
    BY <1>1, <2>1, <2>2
  <2>4. tx' \in [snap : 0 .. Len(snaps'), recorded : BOOLEAN]
    BY <1>5, <2>3 DEF Begin
  <2> QED
    BY <1>5, <2>1, <2>2, <2>4, TypedKeep DEF Begin, Working
<1>6. ASSUME Write PROVE Typed'
  <2>1. slice' \in Slices
    BY <1>1, <1>2, <1>6, SliceUpdates DEF Write, Working
  <2> QED
    BY <1>1, <1>6, <2>1, TypedSlice DEF Write, Working, work
<1>7. ASSUME WriteAside PROVE Typed'
  <2>1. aside' \in [Stages -> Contents]
    BY <1>1, <1>2, <1>7 DEF WriteAside, Working
  <2> QED
    BY <1>1, <1>7, <2>1, TypedSlice DEF WriteAside, Working, work
<1>8. ASSUME Gates PROVE Typed'
  <2>1. GatesAfter(slice.gates) \in SUBSET Stages
    BY <1>1, SliceFields DEF GatesAfter
  <2>2. slice' \in Slices
    BY <1>1, <1>8, <2>1, SliceUpdates DEF Gates
  <2> QED
    BY <1>1, <1>8, <2>2, TypedSlice DEF Gates, Working, work
<1>9. ASSUME Evidence PROVE Typed'
  <2>1. tx' \in [snap : 0 .. Len(snaps'), recorded : BOOLEAN]
    BY <1>1, <1>9 DEF Evidence
  <2> QED
    BY <1>9, <2>1, TypedKeep DEF Evidence, Working
<1>10. ASSUME Commit PROVE Typed'
  <2>1. slice' \in Slices
    BY <1>1, <1>10, SliceUpdates DEF Commit
  <2> QED
    BY <1>1, <1>3, <1>10, <2>1, TypedSlice DEF Commit, Working
<1>11. ASSUME Snapshot PROVE Typed'
  <2>1. StableSlice \in Slices
    BY <1>1, SliceUpdates DEF StableSlice
  <2>2. [stage |-> stage, slice |-> StableSlice] \in Snapshots
    BY <1>1, <2>1 DEF Snapshots
  <2>3. snaps' = snaps \/ snaps' = Append(snaps, [stage |-> stage, slice |-> StableSlice])
    BY <1>11 DEF Snapshot
  <2>4. tx' = tx
    BY <1>11 DEF Snapshot, work
  <2>5. tx' \in [snap : 0 .. Len(snaps'), recorded : BOOLEAN]
    <3>1. Len(snaps') \in Nat /\ Len(snaps) <= Len(snaps')
      BY <1>1, <2>2, <2>3
    <3> QED
      BY <1>1, <2>4, <3>1
  <2> QED
    BY <1>11, <2>2, <2>3, <2>5, TypedKeep DEF Snapshot, Working, work
<1>12. ASSUME Lifecycle PROVE Typed'
  <2>1. slice' \in Slices
    BY <1>1, <1>12, SliceUpdates DEF Lifecycle
  <2> QED
    BY <1>1, <1>12, <2>1, TypedSlice DEF Lifecycle, Working, work
<1>13. ASSUME CachePut PROVE Typed'
  <2>1. key.stage \in Stages /\ result \in Results
    BY <1>13 DEF CachePut, Typed, AtWork, Working
  <2>2. \A c \in cache' : c.key.stage \in Stages /\ c.result \in Results
    BY <1>13, <2>1 DEF CachePut, Typed, TypeOK
  <2>3. /\ pc = "cache" /\ pc' = "return"
        /\ UNCHANGED <<slice, aside, evidence, snaps, work, told, history>>
    BY <1>13 DEF CachePut
  <2> QED
    BY <2>2, <2>3, SameMode DEF Typed, TypeOK, AtWork, Working, work, history
<1> QED
  BY <1>4, <1>5, <1>6, <1>7, <1>8, <1>9, <1>10, <1>11, <1>12, <1>13

LEMMA TypedStep == Typed /\ [Next]_vars => Typed'
<1> SUFFICES ASSUME Typed, [Next]_vars PROVE Typed'
  OBVIOUS
<1>1. CASE UNCHANGED vars
  BY <1>1, SameMode DEF vars, disk, work, history, Typed, TypeOK, AtWork, Working
<1>2. CASE Next
  <2>1. mode' = mode
    BY <1>2 DEF Next
  <2>2. ASSUME StartPipeline PROVE Typed'
    <3>1. PICK k \in NextStages : BeginStage(k)
      BY <2>2 DEF StartPipeline
    <3>2. k \in Stages
      BY <3>1 DEF NextStages
    <3>3. /\ runs < MaxRuns /\ runs' = runs + 1 /\ told' = "none" /\ edits' = edits
      BY <2>2 DEF StartPipeline
    <3>4. runs' \in 0 .. MaxRuns /\ runs' # 0
      BY <3>3, BoundsAssumption DEF Typed, TypeOK
    <3> QED
      BY <2>1, <3>1, <3>2, <3>3, <3>4, TypedBeginStage
  <2>3. ASSUME Edit PROVE Typed'
    <3>1. PICK k \in Stages : slice' = [slice EXCEPT !.files[k] = MaxRuns + edits + 1]
      BY <2>3 DEF Edit
    <3>2. MaxRuns + edits + 1 \in Contents /\ edits' \in 0 .. MaxEdits
      BY <2>3, BoundsAssumption DEF Edit, Contents, Typed, TypeOK
    <3>3. slice' \in Slices
      BY <3>1, <3>2, SliceUpdates DEF Typed, TypeOK
    <3>4. /\ pc = "idle" /\ told' = "none"
          /\ UNCHANGED <<aside, evidence, snaps, cache, pc, work, before, evidenceBefore, asideBefore, runs>>
      BY <2>3 DEF Edit
    <3> QED
      BY <2>1, <3>2, <3>3, <3>4, SameMode DEF Typed, TypeOK, AtWork, Working, work
  <2> QED
    BY <1>2, <2>1, <2>2, <2>3, TypedAnswer, TypedStage, TypedEnd DEF Next, Step
<1> QED
  BY <1>1, <1>2

(* The variables of StageRunner.run and of the files it writes have their types:
   no attempt beyond max_attempts, no transaction without its snapshot, no
   evidence from a snapshot yet to come. *)
THEOREM PipelineTypeCorrect == Spec => []TypeOK
<1>1. Spec => []Typed
  BY TypedInit, TypedStep, PTL DEF Spec
<1>2. Typed => TypeOK
  BY DEF Typed
<1> QED
  BY <1>1, <1>2, PTL

-----------------------------------------------------------------------------
(* The undo of a transaction is exact: from the snapshot on, what is saved under
   the transaction's number is the slice the stage began with. *)
Applying == {"write", "aside", "gates", "evidence", "commit"}

Backed ==
  /\ Transactional => pc \notin {"check", "lifecycle"}
  /\ Transactional /\ pc \in {"look", "agent", "validate", "begin"} => slice = before /\ tx = NoTx
  /\ Transactional /\ pc \in Applying => tx.snap # 0 /\ snaps[tx.snap].slice = before
  /\ pc = "undo" => IF tx.snap = 0 THEN slice = before ELSE snaps[tx.snap].slice = before

LEMMA BackedInit == Init => Backed
  BY DEF Init, Backed, Applying

LEMMA BackedStep == Typed /\ Backed /\ [Next]_vars => Backed'
<1> SUFFICES ASSUME Typed, Backed, [Next]_vars PROVE Backed'
  OBVIOUS
<1>1. CASE UNCHANGED vars
  BY <1>1, SameMode DEF vars, disk, work, history, Backed
<1>2. CASE Next
  <2>1. Transactional' = Transactional /\ Transactional \in BOOLEAN
    BY <1>2, SameMode, ModeFacts DEF Next, Typed, TypeOK
  <2>2. \A k : BeginStage(k) => Backed'
    BY <2>1 DEF BeginStage, Fresh, disk, Backed, Applying
  <2>3. StartPipeline \/ Return => Backed'
    BY <2>1, <2>2 DEF StartPipeline, Return, Backed, Applying
  <2>4. Look \/ Agent \/ Validate => Backed'
    BY <2>1 DEF Look, Agent, Validate, disk, work, history, Backed, Applying
  <2>5. ASSUME Begin PROVE Backed'
    <3>1. /\ snaps' = Append(snaps, [stage |-> stage, slice |-> slice])
          /\ tx' = [snap |-> Len(snaps'), recorded |-> FALSE]
          /\ pc = "begin" /\ pc' = "write" /\ before' = before
      BY <2>5 DEF Begin, history
    <3>2. snaps \in Seq(Snapshots) /\ [stage |-> stage, slice |-> slice] \in Snapshots
      BY DEF Typed, TypeOK, Snapshots
    <3>3. tx'.snap # 0 /\ snaps'[tx'.snap].slice = slice
      BY <3>1, <3>2
    <3> QED
      BY <2>1, <3>1, <3>3 DEF Backed, Applying
  <2>6. Write \/ WriteAside \/ Gates \/ Check \/ Lifecycle => Backed'
    BY <2>1 DEF Write, WriteAside, Gates, Check, Lifecycle, disk, work, history, Backed, Applying
  <2>10. ASSUME Evidence PROVE Backed'
    <3>1. tx'.snap = tx.snap
      BY <2>10 DEF Evidence, Typed, TypeOK
    <3> QED
      BY <2>1, <2>10, <3>1 DEF Evidence, history, Backed, Applying
  <2>7. Commit \/ Snapshot \/ CachePut \/ Undo => Backed'
    BY <2>1 DEF Commit, Snapshot, CachePut, Undo, Backed, Applying
  <2>8. StepFails => Backed'
    BY <2>1 DEF StepFails, disk, work, history, Backed, Applying, NoTx
  <2>9. Retry \/ GiveUp \/ Crash \/ Edit => Backed'
    BY <2>1 DEF Retry, ShouldRetry, GiveUp, Crash, Edit, Backed, Applying
  <2> QED
    BY <1>2, <2>3, <2>4, <2>5, <2>6, <2>7, <2>8, <2>9, <2>10 DEF Next, Step
<1> QED
  BY <1>1, <1>2

(* StageTransaction.rollback puts the slice directory back as the stage found it,
   whatever step of the transaction failed, and whatever other snapshots there are. *)
THEOREM UndoAlwaysExact == Spec => UndoIsExact
<1>1. Typed /\ Backed /\ [Next]_vars => [pc = "undo" /\ pc' = "fail" => slice' = before]_vars
  <2> SUFFICES ASSUME Backed, Next, pc = "undo", pc' = "fail" PROVE slice' = before
    BY DEF vars
  <2>1. Undo
    BY DEF Next, Step, StartPipeline, BeginStage, StepFails, Crash, Edit, Look, Agent, Validate, Begin, Write,
           WriteAside, Gates, Check, Evidence, Commit, Snapshot, Lifecycle, CachePut, Retry, GiveUp, Return
  <2> QED
    BY <2>1 DEF Undo, Backed
<1>2. Spec => [](Typed /\ Backed)
  BY TypedInit, TypedStep, BackedInit, BackedStep, PTL DEF Spec
<1> QED
  BY <1>1, <1>2, PTL DEF Spec, UndoIsExact

-----------------------------------------------------------------------------
(* The output of a state the slice claims is there: in the slice, and in every
   snapshot a rollback may write back. *)
WritesOutput == Transactional => "empty" \notin mode.replies

Filled(s) == s.life # 0 => s.files[s.life] # 0

\* From its writes to the end of its apply step a stage's output is there; with
\* transactions no check comes between, so the answer itself must have written it.
Written ==
  /\ Transactional => /\ \A c \in cache : c.result.content # 0
                      /\ pc \in Working => result.content # 0
                      /\ pc \in {"aside", "gates"} => slice.files[stage] # 0
  /\ pc \in {"evidence", "commit", "snapshot", "lifecycle"} => slice.files[stage] # 0

\* Where a rollback leaves the files alone: no file of a snapshot is missing from
\* the slice, nor from the slice a transaction would undo to.
Kept(s) == \A i \in DOMAIN snaps : \A k \in Stages : snaps[i].slice.files[k] # 0 => s.files[k] # 0

Retained ==
  ~mode.fullRollback =>
    /\ Kept(slice)
    /\ (Transactional /\ pc \in Applying) \/ pc = "undo" => Kept(before)

Full == Filled(slice) /\ \A i \in DOMAIN snaps : Filled(snaps[i].slice)

LEMMA Appended ==
  ASSUME snaps \in Seq(Snapshots), NEW s \in Snapshots, snaps' = Append(snaps, s),
         NEW i \in DOMAIN snaps'
  PROVE  (i \in DOMAIN snaps /\ snaps'[i] = snaps[i]) \/ snaps'[i] = s
  OBVIOUS

\* What the actions that touch the slice make of it, field by field.
LEMMA ChangedSlice ==
  ASSUME Typed
  PROVE  /\ Write => /\ slice'.life = slice.life /\ slice'.gates = slice.gates
                     /\ \A k \in Stages : slice.files[k] # 0 => slice'.files[k] # 0
                     /\ result.content # 0 => slice'.files[stage] # 0
         /\ Gates => /\ slice'.life = slice.life /\ slice'.files = slice.files
                     /\ slice'.gates = GatesAfter(slice.gates)
         /\ Commit => slice'.life = stage /\ slice'.gates = slice.gates /\ slice'.files = slice.files
         /\ Lifecycle => slice'.life = stage /\ slice'.files = slice.files
         /\ Edit => /\ slice'.life = slice.life /\ slice'.gates = slice.gates
                    /\ \A k \in Stages : slice.files[k] # 0 => slice'.files[k] # 0
<1>1. slice \in Slices /\ stage \in Stages /\ slice.files \in [Stages -> Contents]
  BY SliceFields DEF Typed, TypeOK
<1>2. ASSUME Write PROVE /\ slice'.life = slice.life /\ slice'.gates = slice.gates
                         /\ \A k \in Stages : slice.files[k] # 0 => slice'.files[k] # 0
                         /\ result.content # 0 => slice'.files[stage] # 0
  BY <1>1, <1>2 DEF Write, Slices
<1>3. Gates => /\ slice'.life = slice.life /\ slice'.files = slice.files
               /\ slice'.gates = GatesAfter(slice.gates)
  BY <1>1 DEF Gates, Slices
<1>4. Commit => slice'.life = stage /\ slice'.gates = slice.gates /\ slice'.files = slice.files
  BY <1>1 DEF Commit, Slices, Typed, AtWork, Working
<1>5. Lifecycle => slice'.life = stage /\ slice'.files = slice.files
  BY <1>1 DEF Lifecycle, Slices, Typed, AtWork, Working
<1>6. ASSUME Edit PROVE /\ slice'.life = slice.life /\ slice'.gates = slice.gates
                        /\ \A k \in Stages : slice.files[k] # 0 => slice'.files[k] # 0
  <2>1. PICK j \in Stages : slice' = [slice EXCEPT !.files[j] = MaxRuns + edits + 1]
    BY <1>6 DEF Edit
  <2>2. MaxRuns + edits + 1 # 0
    BY BoundsAssumption DEF Typed, TypeOK
  <2> QED
    BY <1>1, <2>1, <2>2 DEF Slices
<1> QED
  BY <1>2, <1>3, <1>4, <1>5, <1>6

LEMMA WrittenInit == Init => Written
  BY DEF Init, Written, Working

LEMMA WrittenStep == Typed /\ Backed /\ WritesOutput /\ Written /\ [Next]_vars => Written'
<1> SUFFICES ASSUME Typed, Backed, WritesOutput, Written, [Next]_vars PROVE Written'
  OBVIOUS
<1>1. CASE UNCHANGED vars
  BY <1>1, SameMode DEF vars, disk, work, history, Written, Working
<1>2. CASE Next
  <2>1. Transactional' = Transactional /\ Transactional \in BOOLEAN
    BY <1>2, SameMode, ModeFacts DEF Next, Typed, TypeOK
  <2>2. \A k : BeginStage(k) => Written'
    BY <2>1 DEF BeginStage, disk, Written, Working
  <2>3. StartPipeline \/ Return => Written'
    BY <2>1, <2>2 DEF StartPipeline, Return, disk, Written, Working
  <2>4. Look => Written'
    BY <2>1 DEF Look, disk, Written, Working
  <2>5. ASSUME Agent PROVE Written'
    <3>1. PICK r \in mode.replies : result' = [reply |-> r, content |-> IF r = "empty" THEN 0 ELSE runs]
      BY <2>5 DEF Agent
    <3>2. Transactional => result'.content # 0
      BY <2>5, <3>1 DEF WritesOutput, Typed, AtWork, Agent
    <3> QED
      BY <2>1, <2>5, <3>2 DEF Agent, disk, Written, Working
  <2>6. ASSUME Write PROVE Written'
    BY <2>1, <2>6, ChangedSlice DEF Write, work, Written, Working
  <2>7. ASSUME Gates PROVE Written'
    BY <2>1, <2>7, ChangedSlice DEF Gates, work, Written, Working
  <2>8. Validate \/ Begin \/ WriteAside \/ Check \/ Evidence \/ StepFails => Written'
    BY <2>1 DEF Validate, Begin, WriteAside, Check, Evidence, StepFails, disk, work, Written, Working
  <2>9. ASSUME Commit PROVE Written'
    BY <2>1, <2>9, ChangedSlice DEF Commit, Written, Working
  <2>10. ASSUME Lifecycle PROVE Written'
    BY <2>1, <2>10, ChangedSlice DEF Lifecycle, work, Written, Working
  <2>11. Snapshot \/ CachePut => Written'
    BY <2>1 DEF Snapshot, CachePut, work, Written, Working
  <2>12. Undo \/ Retry \/ GiveUp \/ Crash \/ Edit => Written'
    BY <2>1 DEF Undo, Retry, GiveUp, Crash, Edit, disk, work, Written, Working
  <2> QED
    BY <1>2, <2>3, <2>4, <2>5, <2>6, <2>7, <2>8, <2>9, <2>10, <2>11, <2>12 DEF Next, Step
<1> QED
  BY <1>1, <1>2

LEMMA RetainedInit == Init => Retained
  BY DEF Init, Retained, Kept

LEMMA RetainedStep == Typed /\ Backed /\ Retained /\ [Next]_vars => Retained'
<1> SUFFICES ASSUME Typed, Backed, Retained, [Next]_vars, ~mode.fullRollback, mode' = mode
             PROVE  /\ Kept(slice)'
                    /\ ((Transactional /\ pc \in Applying) \/ pc = "undo" => Kept(before))'
  BY DEF Retained, vars, Next
<1>1. CASE UNCHANGED vars
  BY <1>1, SameMode DEF vars, disk, work, history, Retained, Kept
<1>2. CASE Next
  <2>1. Transactional' = Transactional /\ Stages' = Stages /\ Transactional \in BOOLEAN
    BY SameMode, ModeFacts DEF Typed, TypeOK
  <2>2. Kept(slice)
    BY DEF Retained
  <2>3. snaps \in Seq(Snapshots) /\ slice \in Slices /\ stage \in Stages
    BY DEF Typed, TypeOK
  <2> DEFINE Kept1 == Kept(slice)'
             Kept2 == ((Transactional /\ pc \in Applying) \/ pc = "undo" => Kept(before))'
             Outside == pc' # "undo" /\ (Transactional => pc' \notin Applying)
  <2>4. snaps' = snaps /\ (\A k \in Stages : slice.files[k] # 0 => slice'.files[k] # 0) => Kept1
    BY <2>1, <2>2 DEF Kept
  <2>5. ASSUME UNCHANGED <<snaps, before>>, (Transactional /\ pc \in Applying) \/ pc = "undo" PROVE Kept2
    BY <2>1, <2>5 DEF Retained, Kept
  <2>6. Outside => Kept2
    BY <2>1
  <2>7. \A k : BeginStage(k) => Kept1 /\ Kept2
    BY <2>4, <2>6 DEF BeginStage, disk, Applying
  <2>8. StartPipeline \/ Return => Kept1 /\ Kept2
    BY <2>4, <2>6, <2>7 DEF StartPipeline, Return, disk, Applying
  <2>9. Look \/ Agent \/ Validate \/ Check => Kept1 /\ Kept2
    BY <2>1, <2>4, <2>6 DEF Look, Agent, Validate, Check, Backed, disk, Applying
  <2>10. ASSUME Begin PROVE Kept1 /\ Kept2
    <3>1. /\ snaps' = Append(snaps, [stage |-> stage, slice |-> slice]) /\ slice' = slice
          /\ before' = before /\ pc' = "write" /\ pc = "begin"
      BY <2>10 DEF Begin, history
    <3>2. [stage |-> stage, slice |-> slice] \in Snapshots
      BY <2>3 DEF Snapshots
    <3>3. \A i \in DOMAIN snaps' : \A k \in Stages : snaps'[i].slice.files[k] # 0 => slice.files[k] # 0
      BY <2>2, <2>3, <3>1, <3>2, Appended DEF Kept
    <3>4. Transactional => before = slice
      BY <3>1 DEF Backed
    <3> QED
      BY <2>1, <3>1, <3>3, <3>4 DEF Kept
  <2>11. Write \/ Gates \/ Lifecycle => Kept1
    BY <2>4, ChangedSlice DEF Write, Gates, Lifecycle
  <2>12. ASSUME WriteAside \/ Evidence \/ CachePut \/ Crash \/ Retry \/ StepFails PROVE Kept1
    BY <2>4, <2>12 DEF WriteAside, Evidence, CachePut, Crash, Retry, StepFails, disk
  <2>13. Write \/ WriteAside \/ Gates \/ Evidence => Kept2
    BY <2>1, <2>5, <2>6 DEF Write, WriteAside, Gates, Evidence, history, Applying
  <2>14. ASSUME StepFails PROVE Kept2
    <3>1. CASE Transactional /\ pc \in Applying
      BY <2>5, <2>14, <3>1 DEF StepFails, disk, history
    <3>2. CASE Transactional /\ pc = "begin"
      <4>1. slice = before /\ UNCHANGED <<snaps, before>>
        BY <2>14, <3>2 DEF Backed, StepFails, disk, history
      <4> QED
        BY <2>1, <2>2, <4>1 DEF Kept
    <3>3. CASE ~Transactional \/ pc \notin Applying \cup {"begin"}
      BY <2>6, <2>14, <3>3 DEF StepFails, Applying
    <3> QED
      BY <2>1, <3>1, <3>2, <3>3
  <2>15. Lifecycle \/ CachePut \/ Crash \/ Retry \/ Commit \/ Snapshot \/ Undo \/ GiveUp \/ Edit => Kept2
    BY <2>6 DEF Lifecycle, CachePut, Crash, Retry, Commit, Snapshot, Undo, GiveUp, Edit, Applying
  <2>16. Commit \/ Edit => Kept1
    BY <2>4, ChangedSlice DEF Commit, Edit
  <2>17. ASSUME Snapshot PROVE Kept1
    <3>1. /\ snaps' = snaps \/ snaps' = Append(snaps, [stage |-> stage, slice |-> StableSlice])
          /\ slice' = slice
      BY <2>17 DEF Snapshot
    <3>2. StableSlice \in Slices /\ StableSlice.files = slice.files
      BY <2>3, SliceUpdates DEF StableSlice, Slices, Typed, TypeOK
    <3>3. [stage |-> stage, slice |-> StableSlice] \in Snapshots
      BY <2>3, <3>2 DEF Snapshots
    <3>4. \A i \in DOMAIN snaps' : \A k \in Stages : snaps'[i].slice.files[k] # 0 => slice.files[k] # 0
      BY <2>2, <2>3, <3>1, <3>2, <3>3, Appended DEF Kept
    <3> QED
      BY <2>1, <3>1, <3>4 DEF Kept
  <2>18. ASSUME Undo PROVE Kept1
    <3>1. snaps' = snaps /\ pc = "undo" /\ (slice' = slice \/ slice' = snaps[tx.snap].slice)
      BY <2>18 DEF Undo
    <3>2. slice' = slice \/ slice' = before
      BY <2>18, <3>1 DEF Undo, Backed
    <3>3. Kept(before)
      BY <3>1 DEF Retained
    <3> QED
      BY <2>1, <2>2, <3>1, <3>2, <3>3 DEF Kept
  <2>19. ASSUME GiveUp PROVE Kept1
    <3>1. snaps' = snaps /\ (RollbackToLatest \/ slice' = slice)
      BY <2>19 DEF GiveUp
    <3>2. ASSUME RollbackToLatest PROVE slice'.files = slice.files
      <4>1. CASE Candidates = {}
        BY <3>2, <4>1 DEF RollbackToLatest
      <4>2. CASE Candidates # {}
        <5>1. Latest \in DOMAIN snaps
          BY <2>3, <4>2, LatestIsACandidate DEF Candidates
        <5>2. snaps[Latest].slice \in Slices
          BY <2>3, <5>1, SnapshotType
        <5>3. slice' = [snaps[Latest].slice EXCEPT !.files = slice.files]
          BY <3>2, <4>2 DEF RollbackToLatest
        <5> QED
          BY <5>2, <5>3 DEF Slices
      <4> QED
        BY <4>1, <4>2
    <3> QED
      BY <2>4, <3>1, <3>2
  <2> QED
    BY <1>2, <2>8, <2>9, <2>10, <2>11, <2>12, <2>13, <2>14, <2>15, <2>16, <2>17, <2>18, <2>19 DEF Next, Step
<1> QED
  BY <1>1, <1>2

LEMMA FullInit == Init => Full
  BY DEF Init, Full, Filled, Blank

\* A rollback, and an undo, put back the life of a snapshot; with it come its files
\* and gates, or files among which those of the snapshot are kept.
LEMMA PutBack ==
  ASSUME Typed, Retained, Undo \/ GiveUp
  PROVE  \/ slice' = slice
         \/ \E i \in DOMAIN snaps :
              /\ slice'.life = snaps[i].slice.life /\ slice'.gates = snaps[i].slice.gates
              /\ \A k \in Stages : snaps[i].slice.files[k] # 0 => slice'.files[k] # 0
<1>1. snaps \in Seq(Snapshots) /\ slice \in Slices /\ mode.fullRollback \in BOOLEAN
  BY ModeFacts DEF Typed, TypeOK
<1>2. CASE Undo
  <2>1. CASE tx.snap = 0
    BY <1>2, <2>1 DEF Undo
  <2>2. CASE tx.snap # 0
    <3>1. tx.snap \in DOMAIN snaps
      BY <1>1, <2>2 DEF Typed, TypeOK
    <3>2. slice' = snaps[tx.snap].slice
      BY <1>2, <2>2 DEF Undo
    <3> QED
      BY <3>1, <3>2
  <2> QED
    BY <2>1, <2>2
<1>3. CASE GiveUp /\ Candidates # {} /\ RollbackToLatest
  <2>1. Latest \in DOMAIN snaps
    BY <1>1, <1>3, LatestIsACandidate DEF Candidates
  <2>2. snaps[Latest].slice \in Slices
    BY <1>1, <2>1, SnapshotType
  <2>3. slice' = [snaps[Latest].slice EXCEPT
                    !.files = IF mode.fullRollback THEN snaps[Latest].slice.files ELSE slice.files]
    BY <1>3 DEF RollbackToLatest
  <2>4. /\ slice'.life = snaps[Latest].slice.life /\ slice'.gates = snaps[Latest].slice.gates
        /\ slice'.files = IF mode.fullRollback THEN snaps[Latest].slice.files ELSE slice.files
    BY <2>2, <2>3 DEF Slices
  <2>5. ~mode.fullRollback => Kept(slice)
    BY DEF Retained
  <2>6. \A k \in Stages : snaps[Latest].slice.files[k] # 0 => slice'.files[k] # 0
    BY <2>1, <2>4, <2>5 DEF Kept
  <2> QED
    BY <2>1, <2>4, <2>6
<1>4. CASE GiveUp /\ ~(Candidates # {} /\ RollbackToLatest)
  BY <1>4 DEF GiveUp, RollbackToLatest
<1> QED
  BY <1>2, <1>3, <1>4

\* What a step that saves snapshots adds to them.
LEMMA Saved ==
  ASSUME Typed, Begin \/ Snapshot, NEW i \in DOMAIN snaps'
  PROVE  \/ i \in DOMAIN snaps /\ snaps'[i] = snaps[i]
         \/ snaps'[i].slice = slice
         \/ Snapshot /\ ~Transactional /\ snaps'[i].slice.life = stage /\ snaps'[i].slice.files = slice.files
<1>1. snaps \in Seq(Snapshots) /\ slice \in Slices /\ stage \in Stages
  BY DEF Typed, TypeOK
<1>2. CASE Begin
  <2>1. [stage |-> stage, slice |-> slice] \in Snapshots
    BY <1>1 DEF Snapshots
  <2> QED
    BY <1>1, <1>2, <2>1, Appended DEF Begin
<1>3. CASE Snapshot
  <2>1. StableSlice \in Slices
    BY <1>1, SliceUpdates DEF StableSlice, Typed, TypeOK
  <2>2. \/ StableSlice = slice
        \/ ~Transactional /\ StableSlice.life = stage /\ StableSlice.files = slice.files
    BY <1>1, <1>3 DEF StableSlice, Slices, Snapshot, Typed, AtWork, Working
  <2>3. [stage |-> stage, slice |-> StableSlice] \in Snapshots
    BY <1>1, <2>1 DEF Snapshots
  <2>4. snaps' = snaps \/ snaps' = Append(snaps, [stage |-> stage, slice |-> StableSlice])
    BY <1>3 DEF Snapshot
  <2>5. (i \in DOMAIN snaps /\ snaps'[i] = snaps[i]) \/ snaps'[i] = [stage |-> stage, slice |-> StableSlice]
    BY <1>1, <2>3, <2>4, Appended
  <2> QED
    BY <1>3, <2>2, <2>5
<1> QED
  BY <1>2, <1>3

\* The steps that leave both the slice and the snapshots alone.
LEMMA Untouched ==
  ASSUME StartPipeline \/ Look \/ Agent \/ Validate \/ WriteAside \/ Check \/ Evidence \/ CachePut
           \/ StepFails \/ Retry \/ Return \/ Crash
  PROVE  slice' = slice /\ snaps' = snaps
<1>1. \A k : BeginStage(k) => slice' = slice /\ snaps' = snaps
  BY DEF BeginStage, disk
<1> QED
  BY <1>1 DEF StartPipeline, Look, Agent, Validate, WriteAside, Check, Evidence, CachePut,
              StepFails, Retry, Return, Crash, disk

LEMMA FullStep ==
  Typed /\ Written /\ Retained /\ Full /\ [Next]_vars => Full'
<1> SUFFICES ASSUME Typed, Written, Retained, Full, [Next]_vars PROVE Full'
  OBVIOUS
<1>1. CASE UNCHANGED vars
  BY <1>1 DEF vars, disk, Full, Filled
<1>2. slice \in Slices /\ stage \in Stages /\ slice.life \in 0 .. Last
  BY SliceFields DEF Typed, TypeOK
<1>3. slice.life # 0 => slice.life \in Stages /\ slice.files[slice.life] # 0
  BY <1>2, ModeFacts DEF Full, Filled, Stages, Typed, TypeOK
<1>4. ASSUME Write \/ Gates \/ Edit PROVE Full'
  <2>1. snaps' = snaps
    BY <1>4 DEF Write, Gates, Edit
  <2> QED
    BY <1>3, <1>4, <2>1, ChangedSlice DEF Full, Filled
<1>5. ASSUME Commit \/ Lifecycle PROVE Full'
  <2>1. snaps' = snaps /\ slice.files[stage] # 0
    BY <1>5 DEF Commit, Lifecycle, Written
  <2> QED
    BY <1>5, <2>1, ChangedSlice DEF Full, Filled
<1>6. ASSUME Begin \/ Snapshot PROVE Full'
  <2>1. slice' = slice /\ (Snapshot => slice.files[stage] # 0)
    BY <1>6 DEF Begin, Snapshot, Written
  <2> QED
    BY <1>6, <2>1, Saved DEF Full, Filled
<1>7. ASSUME Undo \/ GiveUp PROVE Full'
  <2>1. snaps' = snaps
    BY <1>7 DEF Undo, GiveUp
  <2>2. ASSUME NEW i \in DOMAIN snaps,
               slice'.life = snaps[i].slice.life,
               \A k \in Stages : snaps[i].slice.files[k] # 0 => slice'.files[k] # 0
        PROVE  Filled(slice)'
    <3>1. snaps[i].slice.life \in 0 .. Last
      BY SnapshotType, SliceFields DEF Typed, TypeOK
    <3>2. snaps[i].slice.life # 0 => snaps[i].slice.life \in Stages
      BY <3>1, ModeFacts DEF Stages, Typed, TypeOK
    <3> QED
      BY <2>2, <3>2 DEF Full, Filled
  <2>3. Filled(slice)'
    BY <1>7, <2>2, PutBack DEF Full, Filled
  <2> QED
    BY <2>1, <2>3 DEF Full, Filled
<1>8. UNCHANGED <<slice, snaps>> => Full'
  BY DEF Full, Filled
<1> QED
  BY <1>1, <1>4, <1>5, <1>6, <1>7, <1>8, Untouched DEF Next, Step

(* OutputBeforeLife for every project: with agents that write their output, or on
   the legacy path, which checks it, no slice ever claims a state without its output. *)
THEOREM OutputAlwaysBeforeLife == Spec => []OutputBeforeLife
<1> DEFINE Inv == /\ Typed /\ Backed /\ Retained
                  /\ WritesOutput => Written /\ Full
<1>1. Init => Inv
  BY TypedInit, BackedInit, RetainedInit, WrittenInit, FullInit
<1>2. Inv /\ [Next]_vars => Inv'
  <2> SUFFICES ASSUME Inv, [Next]_vars PROVE Inv'
    OBVIOUS
  <2>1. mode' = mode
    BY DEF Next, vars
  <2>2. WritesOutput' = WritesOutput
    BY <2>1, SameMode DEF WritesOutput
  <2> QED
    BY <2>2, TypedStep, BackedStep, RetainedStep, WrittenStep, FullStep
<1>3. Inv => OutputBeforeLife
  BY DEF OutputBeforeLife, WritesOutput, Full, Filled
<1> QED
  BY <1>1, <1>2, <1>3, PTL DEF Spec

-----------------------------------------------------------------------------
(* The gate of a state the slice claims is set, with transactions and agents that
   report their gates passed. *)
GatesNamed == Transactional /\ mode.replies \cap {"silent", "refuse"} = {}

Gated(s) == s.life # 0 => s.life \in s.gates

Passed ==
  /\ \A c \in cache : c.result.reply \notin {"silent", "refuse"}
  /\ pc \in Working => result.reply \notin {"silent", "refuse"}
  /\ pc \in {"evidence", "commit"} => stage \in slice.gates
  /\ Gated(slice) /\ \A i \in DOMAIN snaps : Gated(snaps[i].slice)

LEMMA PassedInit == Init => Passed
  BY DEF Init, Passed, Gated, Blank, Working

LEMMA PassedStep ==
  Typed /\ Backed /\ Retained /\ GatesNamed /\ Passed /\ [Next]_vars => Passed'
<1> SUFFICES ASSUME Typed, Backed, Retained, GatesNamed, Passed, [Next]_vars PROVE Passed'
  OBVIOUS
<1>1. CASE UNCHANGED vars
  BY <1>1 DEF vars, disk, work, Passed, Gated
<1>2. Transactional /\ pc # "check" /\ pc # "lifecycle"
  BY DEF GatesNamed, Backed
<1>3. \A k : BeginStage(k) => Passed'
  BY DEF BeginStage, disk, Passed, Gated, Working
<1>4. StartPipeline \/ Return => Passed'
  BY <1>3 DEF StartPipeline, Return, disk, Passed, Gated, Working
<1>5. Look => Passed'
  BY DEF Look, disk, Passed, Gated, Working
<1>6. ASSUME Agent PROVE Passed'
  <2>1. result'.reply \in mode.replies
    BY <1>6 DEF Agent
  <2>2. result'.reply \notin {"silent", "refuse"}
    BY <2>1 DEF GatesNamed
  <2> QED
    BY <1>2, <1>6, <2>2 DEF Agent, disk, Passed, Gated, Working
<1>7. Validate \/ WriteAside \/ StepFails \/ Retry \/ Crash \/ Check \/ Lifecycle => Passed'
  BY <1>2 DEF Validate, WriteAside, StepFails, Retry, Crash, Check, Lifecycle, disk, work, Passed, Gated, Working
<1>8. Evidence \/ CachePut => Passed'
  BY <1>2 DEF Evidence, CachePut, work, Passed, Gated, Working
<1>9. ASSUME Write PROVE Passed'
  BY <1>9, ChangedSlice DEF Write, work, Passed, Gated, Working
<1>10. ASSUME Gates PROVE Passed'
  <2>1. slice'.gates = slice.gates \cup {stage}
    BY <1>10, ChangedSlice DEF GatesAfter, Gates, Passed, Working
  <2> QED
    BY <1>10, <2>1, ChangedSlice DEF Gates, work, Passed, Gated, Working
<1>11. ASSUME Commit PROVE Passed'
  BY <1>11, ChangedSlice DEF Commit, Passed, Gated, Working
<1>12. ASSUME Edit PROVE Passed'
  BY <1>12, ChangedSlice DEF Edit, work, Passed, Gated, Working
<1>13. ASSUME Begin \/ Snapshot PROVE Passed'
  <2>1. slice' = slice /\ cache' = cache /\ result' = result /\ pc \in Working
        /\ pc' \notin {"evidence", "commit"}
    BY <1>2, <1>13 DEF Begin, Snapshot, work, Working
  <2>2. \A i \in DOMAIN snaps' : Gated(snaps'[i].slice)
    BY <1>2, <1>13, Saved DEF Passed
  <2> QED
    BY <2>1, <2>2 DEF Passed, Gated
<1>14. ASSUME Undo \/ GiveUp PROVE Passed'
  <2>1. snaps' = snaps /\ cache' = cache /\ pc' \notin Working \cup {"evidence", "commit"}
    BY <1>14 DEF Undo, GiveUp, Working
  <2>2. Gated(slice)'
    BY <1>14, PutBack DEF Passed, Gated
  <2> QED
    BY <2>1, <2>2 DEF Passed, Gated
<1> QED
  BY <1>1, <1>4, <1>5, <1>6, <1>7, <1>8, <1>9, <1>10, <1>11, <1>12, <1>13, <1>14 DEF Next, Step

(* TxGateBeforeLife for every project: the commit advances the lifecycle of the
   slice on disk, gates included, and every slice a rollback finds was one. *)
THEOREM GateAlwaysBeforeLife == Spec => []TxGateBeforeLife
<1> DEFINE Inv == Typed /\ Backed /\ Retained /\ (GatesNamed => Passed)
<1>1. Init => Inv
  BY TypedInit, BackedInit, RetainedInit, PassedInit
<1>2. Inv /\ [Next]_vars => Inv'
  <2> SUFFICES ASSUME Inv, [Next]_vars PROVE Inv'
    OBVIOUS
  <2>1. mode' = mode
    BY DEF Next, vars
  <2>2. GatesNamed' = GatesNamed
    BY <2>1, SameMode DEF GatesNamed
  <2> QED
    BY <2>2, TypedStep, BackedStep, RetainedStep, PassedStep
<1>3. Inv => TxGateBeforeLife
  BY DEF TxGateBeforeLife, GateBeforeLife, GatesNamed, Passed, Gated
<1> QED
  BY <1>1, <1>2, <1>3, PTL DEF Spec

-----------------------------------------------------------------------------
(* All or nothing.  Where nothing but steps that throw disturbs a pipeline with
   transactions, the newest snapshot of another stage is the slice this one began
   with, or as much of it as the rollback strategy restores. *)
Steady == Transactional /\ Undisturbed /\ "crash" \notin mode.faults

Alike(full, s, t) == s.life = t.life /\ s.gates = t.gates /\ (full => s.files = t.files)

\* In the snapshots q, s is the newest that is not of the stage after it.
AnchoredIn(full, q, s) ==
  IF s.life = 0
  THEN \A i \in DOMAIN q : q[i].stage = 1
  ELSE \E i \in DOMAIN q :
         /\ q[i].stage = s.life /\ Alike(full, q[i].slice, s)
         /\ \A j \in DOMAIN q : i < j => q[j].stage = s.life + 1

Anchored(s) == AnchoredIn(mode.fullRollback, snaps, s)

Is(s, l, g, f) == s.life = l /\ s.gates = g /\ s.files = f

IsComplete(s) == Is(s, stage, GatesAfter(before.gates), Completed.files)

\* What a stage has made of the slice at each step.
Progress ==
  /\ pc \in {"look", "agent", "validate", "begin", "write"} => slice = before
  /\ pc \in {"look", "agent", "validate", "begin"} => evidence = evidenceBefore
  /\ pc \in {"aside", "gates"} => Is(slice, before.life, before.gates, Completed.files)
  /\ pc \in {"evidence", "commit"} =>
       Is(slice, before.life, GatesAfter(before.gates), Completed.files)
  /\ pc \in {"snapshot", "cache", "return"} => IsComplete(slice)
  /\ pc = "fail" => \/ slice = before /\ evidence \subseteq evidenceBefore
                    \/ IsComplete(slice) /\ Anchored(slice)

\* Where the snapshots are anchored, and what the stage adds to the evidence.
Anchors ==
  /\ pc \in {"idle", "cache", "return"} => Anchored(slice)
  /\ pc # "idle" =>
       /\ stage = before.life + 1 /\ Anchored(before)
       /\ \A e \in evidence : \/ e \in evidenceBefore
                              \/ e.stage = stage /\ \A i \in Candidates : i <= e.newerThan

\* No result is cached for a stage that is yet to come: the agent is asked.
Uncached ==
  /\ hit = FALSE
  /\ pc \notin {"idle", "look"} => key.stage = stage
  /\ \A c \in cache : c.key.stage <= IF pc \in {"idle", "return"} THEN slice.life ELSE before.life

Whole == Progress /\ Anchors /\ Uncached

LEMMA SteadyFacts ==
  ASSUME Steady
  PROVE  /\ Transactional /\ mode.keepSnapshots /\ ~mode.anywhere /\ ~mode.edited
         /\ ~Fault("lost") /\ ~Fault("snapshot") /\ ~Fault("crash")
  BY DEF Steady, Undisturbed, Fault

LEMMA SameFields ==
  ASSUME NEW s \in Slices, NEW t \in Slices, s.life = t.life, s.gates = t.gates, s.files = t.files
  PROVE  s = t
  BY DEF Slices

LEMMA AnchorKeeps ==
  ASSUME NEW full, NEW q \in Seq(Snapshots), NEW s \in Slices, AnchoredIn(full, q, s),
         NEW t \in Snapshots, t.stage = s.life + 1
  PROVE  AnchoredIn(full, Append(q, t), s)
<1> DEFINE r == Append(q, t)
<1>1. /\ Len(q) \in Nat /\ DOMAIN q = 1 .. Len(q) /\ DOMAIN r = 1 .. (Len(q) + 1)
      /\ \A i \in DOMAIN q : r[i] = q[i]
      /\ r[Len(q) + 1] = t
  OBVIOUS
<1>2. \A i \in DOMAIN r : i \in DOMAIN q \/ r[i] = t
  BY <1>1
<1>3. DOMAIN q \subseteq DOMAIN r
  BY <1>1
<1> HIDE DEF r
<1>4. ASSUME s.life = 0 PROVE AnchoredIn(full, r, s)
  BY <1>1, <1>2, <1>4 DEF AnchoredIn
<1>5. ASSUME s.life # 0 PROVE AnchoredIn(full, r, s)
  <2>1. PICK i \in DOMAIN q : /\ q[i].stage = s.life /\ Alike(full, q[i].slice, s)
                              /\ \A j \in DOMAIN q : i < j => q[j].stage = s.life + 1
    BY <1>5 DEF AnchoredIn
  <2>2. \A j \in DOMAIN r : i < j => r[j].stage = s.life + 1
    BY <1>1, <1>2, <2>1
  <2>3. i \in DOMAIN r /\ r[i] = q[i]
    BY <1>1, <1>3
  <2> QED
    BY <1>5, <2>1, <2>2, <2>3 DEF AnchoredIn
<1> QED
  BY <1>4, <1>5 DEF r

LEMMA AnchorMoves ==
  ASSUME NEW full, NEW q \in Seq(Snapshots), NEW t \in Snapshots,
         t.stage = t.slice.life, t.slice.life # 0
  PROVE  AnchoredIn(full, Append(q, t), t.slice)
<1> DEFINE r == Append(q, t)
           n == Len(q) + 1
<1>1. n \in DOMAIN r /\ r[n] = t /\ \A j \in DOMAIN r : ~(n < j)
  OBVIOUS
<1>2. Alike(full, t.slice, t.slice)
  BY DEF Alike
<1> HIDE DEF r, n
<1>3. \E i \in DOMAIN r :
         /\ r[i].stage = t.slice.life /\ Alike(full, r[i].slice, t.slice)
         /\ \A j \in DOMAIN r : i < j => r[j].stage = t.slice.life + 1
  BY <1>1, <1>2
<1>4. AnchoredIn(full, r, t.slice)
  BY <1>3 DEF AnchoredIn
<1> QED
  BY <1>4 DEF r

LEMMA AnchorAlike ==
  ASSUME NEW full, NEW q, NEW s, NEW t, AnchoredIn(full, q, s), Alike(full, s, t)
  PROVE  AnchoredIn(full, q, t)
  BY DEF AnchoredIn, Alike

\* What the rollback of a steady pipeline finds.
LEMMA LatestIsAnchor ==
  ASSUME Typed, Anchored(before), stage = before.life + 1
  PROVE  /\ before.life = 0 => Candidates = {}
         /\ before.life # 0 => /\ Candidates # {} /\ Latest \in DOMAIN snaps
                               /\ Alike(mode.fullRollback, snaps[Latest].slice, before)
                               /\ Latest \in Candidates
<1>1. DOMAIN snaps = 1 .. Len(snaps) /\ Len(snaps) \in Nat /\ before.life \in Nat
  BY ModeFacts, SliceFields DEF Typed, TypeOK
<1>2. CASE before.life = 0
  BY <1>2 DEF Anchored, AnchoredIn, Candidates
<1>3. CASE before.life # 0
  <2>1. PICK i \in DOMAIN snaps :
           /\ snaps[i].stage = before.life /\ Alike(mode.fullRollback, snaps[i].slice, before)
           /\ \A j \in DOMAIN snaps : i < j => snaps[j].stage = before.life + 1
    BY <1>3 DEF Anchored, AnchoredIn
  <2>2. i \in Candidates /\ \A j \in Candidates : j <= i
    BY <1>1, <2>1 DEF Candidates
  <2>3. Latest \in Candidates /\ i <= Latest
    BY <2>2 DEF Latest
  <2>4. Latest = i
    BY <1>1, <2>2, <2>3 DEF Candidates
  <2> QED
    BY <1>3, <2>1, <2>2, <2>4
<1> QED
  BY <1>2, <1>3

LEMMA WholeInit == Init => Whole
  BY DEF Init, Whole, Progress, Anchors, Uncached, Anchored, AnchoredIn, Blank

LEMMA WholeBegins ==
  ASSUME Typed, Steady, Anchored(slice), \A c \in cache : c.key.stage <= slice.life,
         BeginStage(slice.life + 1), mode' = mode
  PROVE  Whole'
<1>1. /\ pc' = "look" /\ stage' = slice.life + 1 /\ before' = slice /\ slice' = slice
      /\ evidence' = evidence /\ evidenceBefore' = evidence /\ cache' = cache /\ snaps' = snaps
      /\ hit' = FALSE
  BY DEF BeginStage, Fresh, disk
<1>2. Anchored(before)'
  BY <1>1 DEF Anchored
<1> QED
  BY <1>1, <1>2 DEF Whole, Progress, Anchors, Uncached

LEMMA WholeAsks ==
  ASSUME Typed, Backed, Steady, Whole, mode' = mode, Look \/ Agent \/ Validate
  PROVE  Whole'
<1>1. Transactional
  BY SteadyFacts
<1>2. /\ UNCHANGED <<slice, evidence, snaps, cache, stage, before, evidenceBefore>>
      /\ pc \in {"look", "agent", "validate"} /\ pc' \in {"agent", "validate", "begin"}
  BY <1>1 DEF Look, Agent, Validate, disk, work, history
<1>3. hit' = FALSE /\ key'.stage = stage
  <2>1. CASE Look
    <3>1. key' = CacheKey(stage, slice)
      BY <2>1 DEF Look
    <3>2. key'.stage = stage
      BY <3>1, KeyStage
    <3>3. stage = before.life + 1 /\ before.life \in Nat
      BY <1>2, SliceFields, ModeFacts DEF Whole, Anchors, Typed, TypeOK
    <3>4. \A c \in cache : c.key.stage <= before.life
      BY <1>2 DEF Whole, Uncached
    <3>5. \A c \in cache : c.key # key'
      BY <3>2, <3>3, <3>4
    <3>6. {c \in cache : c.key = key'} = {}
      BY <3>5
    <3>7. hit' = FALSE
      BY <2>1, <3>6 DEF Look
    <3> QED
      BY <3>2, <3>7
  <2>2. CASE Agent \/ Validate
    BY <2>2 DEF Agent, Validate, work, Whole, Uncached
  <2> QED
    BY <2>1, <2>2
<1>4. slice = before /\ evidence = evidenceBefore
  BY <1>2 DEF Whole, Progress
<1>5. Anchored(before)' /\ Candidates' = Candidates
  BY <1>2 DEF Whole, Anchors, Anchored, Candidates
<1> QED
  BY <1>2, <1>3, <1>4, <1>5 DEF Whole, Progress, Anchors, Uncached

LEMMA WholeSaves ==
  ASSUME Typed, Backed, Steady, Whole, mode' = mode, Begin
  PROVE  Whole'
<1>1. /\ pc = "begin" /\ pc' = "write" /\ snaps' = Append(snaps, [stage |-> stage, slice |-> slice])
      /\ UNCHANGED <<slice, evidence, cache, stage, key, hit, before, evidenceBefore>>
  BY DEF Begin, history
<1>2. /\ snaps \in Seq(Snapshots) /\ before \in Slices /\ stage = before.life + 1 /\ slice = before
      /\ [stage |-> stage, slice |-> slice] \in Snapshots
  BY <1>1 DEF Typed, TypeOK, Snapshots, Whole, Anchors, Progress
<1>3. Anchored(before)'
  <2>1. AnchoredIn(mode.fullRollback, snaps, before)
    BY <1>1 DEF Whole, Anchors, Anchored
  <2> QED
    BY <1>1, <1>2, <2>1, AnchorKeeps DEF Anchored
<1>4. \A e \in evidence : e \in evidenceBefore
  BY <1>1 DEF Whole, Progress
<1> QED
  BY <1>1, <1>2, <1>3, <1>4 DEF Whole, Progress, Anchors, Uncached

\* The steps of the apply that leave snapshots, cache and evidence alone.
LEMMA WholeApplies ==
  ASSUME Typed, Backed, Steady, Whole, mode' = mode, Write \/ WriteAside \/ Gates \/ Commit
  PROVE  Whole'
<1>1. Transactional /\ hit = FALSE
  BY SteadyFacts DEF Whole, Uncached
<1>2. /\ UNCHANGED <<evidence, snaps, cache, stage, key, hit, result, before, evidenceBefore>>
      /\ pc \in Applying
      /\ pc' \in {"aside", "gates", "evidence", "snapshot"}
  BY <1>1 DEF Write, WriteAside, Gates, Commit, work, history, Applying
<1>3. Anchored(before)' /\ Candidates' = Candidates /\ Completed' = Completed
      /\ GatesAfter(before.gates)' = GatesAfter(before.gates) /\ stage = before.life + 1
  BY <1>2, SameMode DEF Whole, Anchors, Anchored, Candidates, Completed, GatesAfter, Applying
<1>4. slice \in Slices /\ before \in Slices /\ stage \in Stages
  BY DEF Typed, TypeOK
<1>5. /\ pc' \in {"aside", "gates"} => Is(slice', before.life, before.gates, Completed.files)
      /\ pc' = "evidence" => Is(slice', before.life, GatesAfter(before.gates), Completed.files)
      /\ pc' = "snapshot" => Is(slice', stage, GatesAfter(before.gates), Completed.files)
  <2>1. CASE Write
    <3>1. slice = before /\ pc' \in {"aside", "gates"}
      BY <2>1 DEF Write, Whole, Progress
    <3>2. Is(slice', before.life, before.gates, Completed.files)
      <4>1. before.files \in [Stages -> Contents]
        BY <1>4, SliceFields
      <4>2. CASE result.content = 0
        <5>1. Completed.files = before.files
          BY <1>4, <4>1, <4>2 DEF Completed
        <5> QED
          BY <2>1, <3>1, <4>2, <5>1 DEF Write, Is
      <4>3. CASE result.content # 0
        <5>1. Completed.files = [before.files EXCEPT ![stage] = result.content]
          BY <4>3 DEF Completed
        <5>2. slice' = [before EXCEPT !.files[stage] = result.content]
          BY <2>1, <3>1, <4>3 DEF Write
        <5> QED
          BY <1>4, <4>1, <5>1, <5>2 DEF Is, Slices
      <4> QED
        BY <4>2, <4>3
    <3> QED
      BY <3>1, <3>2
  <2>2. CASE WriteAside
    BY <2>2 DEF WriteAside, Whole, Progress
  <2>3. CASE Gates
    <3>1. pc' = "evidence" /\ Is(slice, before.life, before.gates, Completed.files)
      BY <1>1, <2>3 DEF Gates, Whole, Progress
    <3>2. /\ slice'.life = slice.life /\ slice'.files = slice.files
          /\ slice'.gates = GatesAfter(slice.gates)
      BY <2>3, ChangedSlice
    <3> QED
      BY <3>1, <3>2 DEF Is
  <2>4. CASE Commit
    <3>1. pc' = "snapshot" /\ Is(slice, before.life, GatesAfter(before.gates), Completed.files)
      BY <1>1, <2>4 DEF Commit, Whole, Progress
    <3>2. slice'.life = stage /\ slice'.gates = slice.gates /\ slice'.files = slice.files
      BY <2>4, ChangedSlice
    <3> QED
      BY <3>1, <3>2 DEF Is
  <2> QED
    BY <2>1, <2>2, <2>3, <2>4
<1>6. Progress'
  BY <1>2, <1>3, <1>5 DEF Progress, IsComplete
<1>7. Anchors'
  BY <1>2, <1>3 DEF Whole, Anchors, Applying
<1>8. Uncached'
  BY <1>1, <1>2 DEF Whole, Uncached, Applying
<1> QED
  BY <1>6, <1>7, <1>8 DEF Whole

\* A step of the apply that leaves the slice and what the stage was asked alone.
LEMMA SameProgress ==
  ASSUME mode' = mode, UNCHANGED <<slice, stage, result, before>>
  PROVE  /\ Completed' = Completed /\ GatesAfter(before.gates)' = GatesAfter(before.gates)
         /\ IsComplete(slice)' <=> IsComplete(slice)
  BY SameMode DEF Completed, GatesAfter, IsComplete

LEMMA WholeRecords ==
  ASSUME Typed, Backed, Steady, Whole, mode' = mode, Evidence
  PROVE  Whole'
<1>1. /\ UNCHANGED <<slice, snaps, cache, stage, key, hit, result, before, evidenceBefore>>
      /\ pc = "evidence" /\ pc' = "commit"
      /\ evidence' = evidence \cup {[stage |-> stage, newerThan |-> Len(snaps)]}
  BY SteadyFacts DEF Evidence, history
<1>2. Candidates' = Candidates /\ \A i \in Candidates : i <= Len(snaps)
  BY <1>1 DEF Candidates, Typed, TypeOK
<1>3. \A e \in evidence' : \/ e \in evidenceBefore
                           \/ e.stage = stage /\ \A i \in Candidates : i <= e.newerThan
  BY <1>1, <1>2 DEF Whole, Anchors
<1>4. Anchored(before)' /\ stage = before.life + 1
  BY <1>1 DEF Whole, Anchors, Anchored
<1>5. Anchors'
  BY <1>1, <1>2, <1>3, <1>4 DEF Anchors
<1>6. Progress'
  BY <1>1, SameProgress DEF Whole, Progress
<1>7. Uncached'
  BY <1>1 DEF Whole, Uncached
<1> QED
  BY <1>5, <1>6, <1>7 DEF Whole

LEMMA WholeKeeps ==
  ASSUME Typed, Backed, Steady, Whole, mode' = mode, Snapshot
  PROVE  Whole'
<1> DEFINE t == [stage |-> stage, slice |-> slice]
<1>1. /\ UNCHANGED <<slice, evidence, cache, stage, key, hit, result, before, evidenceBefore>>
      /\ pc = "snapshot" /\ pc' = "cache" /\ snaps' = Append(snaps, t)
  BY SteadyFacts DEF Snapshot, StableSlice, work, history
<1>2. /\ snaps \in Seq(Snapshots) /\ before \in Slices /\ stage = before.life + 1
      /\ t \in Snapshots /\ stage # 0
  BY <1>1, ModeFacts DEF Typed, TypeOK, Snapshots, Whole, Anchors
<1>3. slice.life = stage
  BY <1>1 DEF Whole, Progress, IsComplete, Is
<1>4. Anchored(before)'
  <2>1. AnchoredIn(mode.fullRollback, snaps, before)
    BY <1>1 DEF Whole, Anchors, Anchored
  <2> QED
    BY <1>1, <1>2, <2>1, AnchorKeeps DEF Anchored
<1>5. Anchored(slice)'
  BY <1>1, <1>2, <1>3, AnchorMoves DEF Anchored
<1>6. \A i \in Candidates' : i \in Candidates
  <2>1. \A i \in DOMAIN snaps' : (i \in DOMAIN snaps /\ snaps'[i] = snaps[i]) \/ snaps'[i] = t
    BY <1>1, <1>2, Appended
  <2> QED
    BY <1>1, <2>1 DEF Candidates
<1>7. Anchors'
  BY <1>1, <1>2, <1>4, <1>5, <1>6 DEF Whole, Anchors
<1>8. Progress'
  BY <1>1, SameProgress DEF Whole, Progress
<1>9. Uncached'
  BY <1>1 DEF Whole, Uncached
<1> QED
  BY <1>7, <1>8, <1>9 DEF Whole

LEMMA WholeCaches ==
  ASSUME Typed, Backed, Steady, Whole, mode' = mode, CachePut
  PROVE  Whole'
<1>1. /\ UNCHANGED <<slice, evidence, snaps, stage, key, hit, result, before, evidenceBefore>>
      /\ pc = "cache" /\ pc' = "return"
      /\ cache' \subseteq cache \cup {[key |-> key, result |-> result]}
  BY DEF CachePut, work, history
<1>2. Candidates' = Candidates /\ Anchored(before)' /\ Anchored(slice)'
  BY <1>1 DEF Whole, Anchors, Anchored, Candidates
<1>3. Anchors'
  BY <1>1, <1>2 DEF Whole, Anchors
<1>4. Progress'
  BY <1>1, SameProgress DEF Whole, Progress
<1>5. Uncached'
  <2>1. slice.life = stage /\ stage = before.life + 1 /\ before.life \in Nat /\ key.stage = stage
    BY <1>1, SliceFields, ModeFacts
       DEF Whole, Progress, IsComplete, Is, Anchors, Uncached, Typed, TypeOK
  <2>2. \A c \in cache : c.key.stage \in Nat /\ c.key.stage <= before.life
    BY <1>1, ModeFacts DEF Whole, Uncached, Typed, TypeOK, Stages
  <2>3. \A c \in cache' : c.key.stage <= slice.life
    <3> SUFFICES ASSUME NEW c \in cache' PROVE c.key.stage <= slice.life
      OBVIOUS
    <3>1. CASE c \in cache
      BY <2>1, <2>2, <3>1
    <3>2. CASE c = [key |-> key, result |-> result]
      BY <2>1, <3>2
    <3> QED
      BY <1>1, <3>1, <3>2
  <2> QED
    BY <1>1, <2>3 DEF Whole, Uncached
<1> QED
  BY <1>3, <1>4, <1>5 DEF Whole

LEMMA WholeFails ==
  ASSUME Typed, Backed, Steady, Whole, mode' = mode, StepFails \/ Undo
  PROVE  Whole'
<1>1. /\ UNCHANGED <<snaps, cache, stage, key, hit, result, before, evidenceBefore>>
      /\ pc \notin {"idle", "look", "return"} /\ pc' \in {"undo", "fail"}
  BY DEF StepFails, Undo, disk, work, history
<1>2. Candidates' = Candidates /\ Anchored(before)' /\ stage = before.life + 1
  BY <1>1 DEF Whole, Anchors, Anchored, Candidates
<1>3. evidence' \subseteq evidence
  BY DEF StepFails, Undo, disk
<1>4. Anchors'
  BY <1>1, <1>2, <1>3 DEF Whole, Anchors
<1>5. Uncached'
  BY <1>1 DEF Whole, Uncached
<1>6. Progress'
  <2>1. CASE Undo
    <3>1. pc' = "fail" /\ slice' = before /\ evidence' = {e \in evidence : e.stage # stage}
      BY <2>1 DEF Undo, Backed
    <3>2. evidence' \subseteq evidenceBefore
      BY <1>1, <2>1, <3>1 DEF Undo, Whole, Anchors
    <3> QED
      BY <1>1, <3>1, <3>2 DEF Progress
  <2>2. CASE StepFails
    <3>1. slice' = slice /\ evidence' = evidence
      BY <2>2 DEF StepFails, disk
    <3>2. pc' = "undo" \/ pc \in {"agent", "validate"} \/ pc = "cache"
      BY <2>2, SteadyFacts DEF StepFails, Fault, Backed
    <3>3. pc' = "undo" => Progress'
      BY DEF Progress
    <3>4. ASSUME pc \in {"agent", "validate"}, pc' = "fail" PROVE Progress'
      BY <1>1, <3>1, <3>4 DEF Whole, Progress
    <3>5. ASSUME pc = "cache", pc' = "fail" PROVE Progress'
      <4>1. IsComplete(slice)' /\ Anchored(slice)'
        BY <1>1, <3>1, <3>5, SameProgress DEF Whole, Progress, Anchors, Anchored
      <4> QED
        BY <3>5, <4>1 DEF Progress
    <3> QED
      BY <1>1, <3>2, <3>3, <3>4, <3>5
  <2> QED
    BY <2>1, <2>2
<1> QED
  BY <1>4, <1>5, <1>6 DEF Whole

\* How a stage of a steady pipeline ends in failure.
LEMMA Ending ==
  ASSUME Typed, Typed', Steady, Whole, mode' = mode, GiveUp
  PROVE  \/ slice' = slice /\ evidence' = evidence
         \/ /\ Alike(mode.fullRollback, slice', before)
            /\ slice'.files \in {before.files, Completed.files}
            /\ evidence' \subseteq evidenceBefore
<1>1. pc = "fail" /\ RollbackToLatest
  BY SteadyFacts DEF GiveUp, ShouldRollback
<1>2. CASE Candidates = {}
  BY <1>1, <1>2 DEF RollbackToLatest
<1>3. CASE Candidates # {}
  <2> DEFINE saved == snaps[Latest].slice
  <2>1. /\ Latest \in Candidates /\ Latest \in DOMAIN snaps
        /\ Alike(mode.fullRollback, saved, before)
    BY <1>1, <1>3, LatestIsAnchor DEF Whole, Anchors
  <2>2. /\ slice' = [saved EXCEPT !.files = IF mode.fullRollback THEN saved.files ELSE slice.files]
        /\ evidence' = {e \in evidence : e.newerThan < Latest}
    BY <1>1, <1>3, SteadyFacts DEF RollbackToLatest
  <2>3. saved \in Slices
    BY <2>1, SnapshotType DEF Typed, TypeOK
  <2> HIDE DEF saved
  <2>4. /\ slice'.life = saved.life /\ slice'.gates = saved.gates
        /\ slice'.files = IF mode.fullRollback THEN saved.files ELSE slice.files
    BY <2>2, <2>3 DEF Slices
  <2>5. slice.files \in {before.files, Completed.files}
    BY <1>1 DEF Whole, Progress, IsComplete, Is
  <2>6. mode.fullRollback \in BOOLEAN
    BY ModeFacts DEF Typed, TypeOK
  <2>7. Alike(mode.fullRollback, slice', before)
    BY <2>1, <2>4, <2>6 DEF Alike
  <2>8. slice'.files \in {before.files, Completed.files}
    BY <2>1, <2>4, <2>5, <2>6 DEF Alike
  <2>9. evidence' \subseteq evidenceBefore
    <3> SUFFICES ASSUME NEW e \in evidence' PROVE e \in evidenceBefore
      OBVIOUS
    <3>1. e \in evidence /\ e.newerThan < Latest /\ e.newerThan \in Nat /\ Latest \in Nat
      BY <2>1, <2>2 DEF Typed, TypeOK
    <3> QED
      BY <1>1, <2>1, <3>1 DEF Whole, Anchors
  <2> QED
    BY <2>7, <2>8, <2>9
<1> QED
  BY <1>2, <1>3

LEMMA WholeEnds ==
  ASSUME Typed, Typed', Steady, Whole, mode' = mode, GiveUp
  PROVE  Whole'
<1>1. /\ UNCHANGED <<snaps, cache>> /\ pc = "fail" /\ pc' = "idle" /\ hit' = FALSE
  BY DEF GiveUp, Fresh
<1>2. stage = before.life + 1 /\ Anchored(before) /\ before.life \in Nat
  BY <1>1, SliceFields, ModeFacts DEF Whole, Anchors, Typed, TypeOK
<1>3. \A c \in cache : c.key.stage <= before.life /\ c.key.stage \in Nat
  <2>1. \A c \in cache : c.key.stage <= before.life
    BY <1>1 DEF Whole, Uncached
  <2>2. mode \in Modes /\ \A c \in cache : c.key.stage \in Stages
    BY DEF Typed, TypeOK
  <2> QED
    BY <2>1, <2>2, ModeFacts
<1>4. Anchored(slice)' /\ slice'.life \in Nat /\ before.life <= slice'.life
  <2>1. ASSUME Alike(mode.fullRollback, slice', before) PROVE Anchored(slice)' /\ slice'.life = before.life
    <3>1. Alike(mode.fullRollback, before, slice')
      BY <2>1 DEF Alike
    <3>2. AnchoredIn(mode.fullRollback, snaps, slice')
      BY <1>2, <3>1, AnchorAlike DEF Anchored
    <3> QED
      BY <1>1, <2>1, <3>2 DEF Anchored, Alike
  <2>2. ASSUME slice' = slice PROVE Alike(mode.fullRollback, slice', before) \/ IsComplete(slice)
    BY <1>1, <2>2 DEF Whole, Progress, Alike
  <2>3. ASSUME slice' = slice, IsComplete(slice), ~Alike(mode.fullRollback, slice, before)
        PROVE  Anchored(slice)' /\ slice'.life = before.life + 1
    <3>1. Anchored(slice)
      BY <1>1, <2>3 DEF Whole, Progress, Alike
    <3> QED
      BY <1>1, <1>2, <2>3, <3>1 DEF Anchored, IsComplete, Is
  <2>4. Alike(mode.fullRollback, slice', before) \/ slice' = slice
    BY Ending
  <2> QED
    BY <1>2, <2>1, <2>2, <2>3, <2>4
<1>5. \A c \in cache : c.key.stage <= slice'.life
  BY <1>2, <1>3, <1>4
<1> QED
  BY <1>1, <1>4, <1>5 DEF Whole, Progress, Anchors, Uncached

LEMMA WholeStep ==
  Typed /\ Typed' /\ Backed /\ Steady /\ Whole /\ [Next]_vars => Whole'
<1> SUFFICES ASSUME Typed, Typed', Backed, Steady, Whole, [Next]_vars PROVE Whole'
  OBVIOUS
<1>1. CASE UNCHANGED vars
  <2>1. /\ UNCHANGED <<mode, slice, evidence, snaps, cache, pc, stage, key, result, hit, before, evidenceBefore>>
    BY <1>1 DEF vars, disk, work, history
  <2>2. Candidates' = Candidates
    BY <2>1 DEF Candidates
  <2> QED
    BY <2>1, <2>2, SameProgress DEF Whole, Progress, Anchors, Anchored, Uncached
<1>2. CASE Next
  <2>1. mode' = mode
    BY <1>2 DEF Next
  <2>2. CASE StartPipeline
    <3>1. PICK k \in NextStages : BeginStage(k)
      BY <2>2 DEF StartPipeline
    <3>2. k = slice.life + 1
      BY <3>1, SteadyFacts DEF NextStages
    <3> QED
      BY <2>1, <2>2, <3>1, <3>2, WholeBegins DEF StartPipeline, Whole, Anchors, Uncached
  <2>3. CASE Return
    <3>1. pc = "return" /\ slice.life = stage
      BY <2>3 DEF Return, Whole, Progress, IsComplete, Is
    <3>2. Anchored(slice) /\ \A c \in cache : c.key.stage <= slice.life
      BY <3>1 DEF Whole, Anchors, Uncached
    <3>3. CASE stage = Last
      <4>1. pc' = "idle" /\ hit' = FALSE /\ slice' = slice /\ snaps' = snaps /\ cache' = cache
        BY <2>3, <3>3 DEF Return, Fresh, disk
      <4>2. Anchored(slice)'
        BY <2>1, <3>2, <4>1 DEF Anchored
      <4> QED
        BY <3>2, <4>1, <4>2 DEF Whole, Progress, Anchors, Uncached
    <3>4. CASE stage # Last
      BY <2>1, <2>3, <3>1, <3>2, <3>4, WholeBegins DEF Return
    <3> QED
      BY <3>3, <3>4
  <2>4. ~Check /\ ~Lifecycle /\ ~Retry /\ ~Crash /\ ~Edit
    BY SteadyFacts DEF Check, Lifecycle, Retry, ShouldRetry, Crash, Edit, Backed
  <2> QED
    BY <1>2, <2>1, <2>2, <2>3, <2>4, WholeAsks, WholeSaves, WholeApplies, WholeRecords, WholeKeeps,
       WholeCaches, WholeFails, WholeEnds DEF Next, Step
<1> QED
  BY <1>1, <1>2

\* Only giving up ends a stage in failure.
LEMMA OnlyGivesUp ==
  ASSUME Next, pc = "fail", pc' = "idle", told' = "failed"
  PROVE  GiveUp /\ mode' = mode
  BY DEF Next, Step, StartPipeline, BeginStage, StepFails, Crash, Edit, Look, Agent, Validate, Begin, Write,
         WriteAside, Gates, Check, Evidence, Commit, Snapshot, Lifecycle, CachePut, Undo, Retry, GiveUp, Return

LEMMA FailureLeavesAllOrNothing ==
  ASSUME Typed, Typed', Steady, Whole, GiveUp, mode' = mode
  PROVE  /\ \/ slice' \in {before, Completed}
            \/ ~mode.fullRollback /\ slice' = [before EXCEPT !.files = Completed.files]
         /\ slice' # Completed => evidence' \subseteq evidenceBefore
<1>1. slice' \in Slices /\ before \in Slices /\ mode.fullRollback \in BOOLEAN
  BY ModeFacts, SameMode DEF Typed, TypeOK
<1>2. pc = "fail"
  BY DEF GiveUp
<1>3. Completed = [life |-> stage, gates |-> GatesAfter(before.gates), files |-> Completed.files]
  BY DEF Completed
<1>4. IsComplete(slice') => slice' = Completed
  BY <1>1, <1>3 DEF IsComplete, Is, Slices
<1>5. CASE slice' = slice /\ evidence' = evidence
  BY <1>2, <1>4, <1>5 DEF Whole, Progress
<1>6. CASE /\ Alike(mode.fullRollback, slice', before)
           /\ slice'.files \in {before.files, Completed.files}
           /\ evidence' \subseteq evidenceBefore
  <2>1. slice'.files = before.files => slice' = before
    BY <1>1, <1>6, SameFields DEF Alike
  <2>2. ASSUME slice'.files = Completed.files PROVE slice' = [before EXCEPT !.files = Completed.files]
    BY <1>1, <1>6, <2>2 DEF Alike, Slices
  <2>3. mode.fullRollback => slice' = before
    BY <1>6, <2>1 DEF Alike
  <2> QED
    BY <1>1, <1>6, <2>1, <2>2, <2>3
<1> QED
  BY <1>5, <1>6, Ending

\* Everything a steady pipeline keeps.
LEMMA SteadyInv == Spec => [](Typed /\ Backed /\ (Steady => Whole))
<1>1. Init => Typed /\ Backed /\ (Steady => Whole)
  BY TypedInit, BackedInit, WholeInit
<1>2. /\ Typed /\ Typed' /\ Backed /\ Backed' /\ (Steady => Whole) /\ [Next]_vars
      => (Steady => Whole)'
  <2>1. [Next]_vars => Steady' = Steady
    <3>1. mode' = mode => Steady' = Steady
      BY SameMode DEF Steady, Undisturbed
    <3> QED
      BY <3>1 DEF Next, vars
  <2> QED
    BY <2>1, WholeStep
<1> QED
  BY <1>1, <1>2, TypedStep, BackedStep, PTL DEF Spec

(* Atomicity of a stage: a stage that reports failure has left the slice as it was,
   without new evidence, or has completed it, whatever steps throw; the rollback
   strategy that restores the state alone may leave the stage's files. *)
THEOREM FailuresAreAtomic == Spec => AllOrNothing
<1> DEFINE Atomic ==
      Transactional /\ Undisturbed /\ "crash" \notin mode.faults
        /\ pc = "fail" /\ pc' = "idle" /\ told' = "failed" =>
        /\ \/ slice' \in {before, Completed}
           \/ ~mode.fullRollback /\ slice' = [before EXCEPT !.files = Completed.files]
        /\ slice' # Completed => evidence' \subseteq evidenceBefore
<1>1. /\ Typed /\ Typed' /\ (Steady => Whole) /\ [Next]_vars => [Atomic]_vars
  <2> SUFFICES ASSUME Typed, Typed', Steady => Whole, Next, Steady,
                      pc = "fail", pc' = "idle", told' = "failed"
               PROVE  /\ \/ slice' \in {before, Completed}
                         \/ ~mode.fullRollback /\ slice' = [before EXCEPT !.files = Completed.files]
                      /\ slice' # Completed => evidence' \subseteq evidenceBefore
    BY DEF Steady
  <2> QED
    BY OnlyGivesUp, FailureLeavesAllOrNothing
<1> QED
  BY <1>1, SteadyInv, PTL DEF Spec, AllOrNothing

-----------------------------------------------------------------------------
(* No lost progress.  On the legacy path nothing is undone between attempts and
   a crash may come anywhere, but no snapshot is older than the state it is for:
   the newest of another stage is of the state this one began with. *)
Legacy == ~Transactional /\ Undisturbed

\* In the snapshots q there is one of the state of s with every output s has, and
\* after it none but those of the next stage.
RootedIn(q, s) ==
  IF s.life = 0
  THEN \A i \in DOMAIN q : q[i].stage = 1
  ELSE \E i \in DOMAIN q :
         /\ q[i].stage = s.life /\ q[i].slice.life = s.life
         /\ \A k \in 1 .. s.life : s.files[k] # 0 => q[i].slice.files[k] # 0
         /\ \A j \in DOMAIN q : i < j => q[j].stage = s.life + 1

\* What a stage leaves of the outputs of the earlier ones.
Grown ==
  /\ slice.life \in {before.life, stage}
  /\ \A k \in 1 .. before.life : slice.files[k] = before.files[k]

Rooted ==
  /\ pc \notin {"validate", "begin", "commit", "undo"}
  /\ pc = "idle" => RootedIn(snaps, slice)
  /\ pc # "idle" => /\ stage = before.life + 1 /\ RootedIn(snaps, before) /\ Grown
                    /\ slice.life = stage => RootedIn(snaps, slice)
  /\ pc = "lifecycle" => RootedIn(snaps, [slice EXCEPT !.life = stage])
  /\ pc \in {"cache", "return"} => slice.life = stage

LEMMA LegacyFacts ==
  ASSUME Legacy
  PROVE  /\ ~Transactional /\ mode.keepSnapshots /\ ~mode.anywhere /\ ~mode.edited
         /\ ~Fault("lost") /\ ~Fault("snapshot")
  BY DEF Legacy, Undisturbed, Fault

LEMMA RootKeeps ==
  ASSUME NEW q \in Seq(Snapshots), NEW s, RootedIn(q, s), NEW t \in Snapshots, t.stage = s.life + 1
  PROVE  RootedIn(Append(q, t), s)
<1> DEFINE r == Append(q, t)
<1>1. /\ Len(q) \in Nat /\ DOMAIN q = 1 .. Len(q) /\ DOMAIN r = 1 .. (Len(q) + 1)
      /\ \A i \in DOMAIN q : r[i] = q[i]
      /\ r[Len(q) + 1] = t
  OBVIOUS
<1>2. \A i \in DOMAIN r : i \in DOMAIN q \/ r[i] = t
  BY <1>1
<1>3. DOMAIN q \subseteq DOMAIN r
  BY <1>1
<1> HIDE DEF r
<1>4. ASSUME s.life = 0 PROVE RootedIn(r, s)
  BY <1>1, <1>2, <1>4 DEF RootedIn
<1>5. ASSUME s.life # 0 PROVE RootedIn(r, s)
  <2>1. PICK i \in DOMAIN q :
           /\ q[i].stage = s.life /\ q[i].slice.life = s.life
           /\ \A k \in 1 .. s.life : s.files[k] # 0 => q[i].slice.files[k] # 0
           /\ \A j \in DOMAIN q : i < j => q[j].stage = s.life + 1
    BY <1>5 DEF RootedIn
  <2>2. \A j \in DOMAIN r : i < j => r[j].stage = s.life + 1
    BY <1>1, <1>2, <2>1
  <2>3. i \in DOMAIN r /\ r[i] = q[i]
    BY <1>1, <1>3
  <2> QED
    BY <1>5, <2>1, <2>2, <2>3 DEF RootedIn
<1> QED
  BY <1>4, <1>5 DEF r

LEMMA RootMoves ==
  ASSUME NEW q \in Seq(Snapshots), NEW t \in Snapshots, NEW s,
         t.stage = s.life, t.slice.life = s.life, s.life # 0, t.slice.files = s.files
  PROVE  RootedIn(Append(q, t), s)
<1> DEFINE r == Append(q, t)
           n == Len(q) + 1
<1>1. n \in DOMAIN r /\ r[n] = t /\ \A j \in DOMAIN r : ~(n < j)
  OBVIOUS
<1> HIDE DEF r, n
<1>2. RootedIn(r, s)
  BY <1>1 DEF RootedIn
<1> QED
  BY <1>2 DEF r

\* It is enough that what is there is there.
LEMMA RootAlike ==
  ASSUME NEW q, NEW s, NEW t, RootedIn(q, s), t.life = s.life,
         \A k \in 1 .. s.life : t.files[k] # 0 => s.files[k] # 0
  PROVE  RootedIn(q, t)
  BY DEF RootedIn

LEMMA RootedBegins ==
  ASSUME RootedIn(snaps, slice), BeginStage(slice.life + 1)
  PROVE  Rooted'
<1>1. /\ pc' = "look" /\ stage' = slice.life + 1 /\ before' = slice /\ slice' = slice /\ snaps' = snaps
  BY DEF BeginStage, disk
<1> QED
  BY <1>1 DEF Rooted, Grown

\* A stage that ends leaves the slice rooted.
LEMMA SliceIsRooted ==
  ASSUME Typed, Rooted
  PROVE  RootedIn(snaps, slice)
<1>1. CASE pc # "idle" /\ slice.life # stage
  BY <1>1, RootAlike DEF Rooted, Grown
<1>2. CASE pc = "idle" \/ slice.life = stage
  BY <1>2 DEF Rooted
<1> QED
  BY <1>1, <1>2

\* The steps of a stage that leave the slice and the snapshots alone.
LEMMA RootedWaits ==
  ASSUME Rooted, Legacy, mode' = mode,
         Look \/ Agent \/ WriteAside \/ Check \/ Evidence \/ CachePut \/ StepFails \/ Retry
  PROVE  Rooted'
<1>1. UNCHANGED <<slice, snaps, before, stage>> /\ pc # "idle"
  BY DEF Look, Agent, WriteAside, Check, Evidence, CachePut, StepFails, Retry, disk, work, history
<1>2. /\ pc' \in {"agent", "write", "gates", "evidence", "fail", "snapshot", "return", "look"}
      /\ pc' = "return" => pc = "cache"
  BY LegacyFacts DEF Look, Agent, WriteAside, Check, Evidence, CachePut, StepFails, Retry
<1> QED
  BY <1>1, <1>2 DEF Rooted, Grown

LEMMA RootedWrites ==
  ASSUME Typed, Full, Rooted, Legacy, mode' = mode, Write \/ Gates
  PROVE  Rooted'
<1>1. /\ UNCHANGED <<snaps, before, stage>> /\ pc \in {"write", "gates"}
      /\ pc' \in {"aside", "gates", "check"}
  BY LegacyFacts DEF Write, Gates, work, history
<1>2. slice \in Slices /\ slice.files \in [Stages -> Contents] /\ stage \in Stages
      /\ stage = before.life + 1 /\ before.life \in Nat /\ before.life <= Last
  BY <1>1, SliceFields, ModeFacts DEF Typed, TypeOK, Rooted
<1>3. slice'.life = slice.life /\ \A k \in Stages : k # stage => slice'.files[k] = slice.files[k]
  <2>1. CASE Write
    BY <1>2, <2>1 DEF Write, Slices
  <2>2. CASE Gates
    BY <2>2, ChangedSlice
  <2> QED
    BY <2>1, <2>2
<1>4. 1 .. before.life \subseteq Stages \ {stage}
  BY <1>2, ModeFacts DEF Stages, Typed, TypeOK
<1>5. Grown'
  BY <1>1, <1>3, <1>4 DEF Rooted, Grown
<1>6. slice'.life = stage => RootedIn(snaps, slice')
  <2> SUFFICES ASSUME slice.life = stage PROVE RootedIn(snaps, slice')
    BY <1>3
  <2>1. RootedIn(snaps, slice) /\ slice.files[stage] # 0
    BY <1>1, <1>2, ModeFacts DEF Rooted, Full, Filled, Typed, TypeOK
  <2>2. slice.life \in 1 .. Last /\ Last \in Nat
    BY <1>2, ModeFacts DEF Stages, Typed, TypeOK
  <2>3. \A k \in 1 .. slice.life : k \in Stages
    BY <2>2 DEF Stages
  <2>4. \A k \in 1 .. slice.life : slice'.files[k] # 0 => slice.files[k] # 0
    BY <1>3, <2>1, <2>3
  <2> QED
    BY <1>3, <2>1, <2>4, RootAlike
<1> QED
  BY <1>1, <1>5, <1>6 DEF Rooted

LEMMA RootedKeeps ==
  ASSUME Typed, Rooted, Legacy, mode' = mode, Snapshot
  PROVE  Rooted'
<1> DEFINE t == [stage |-> stage, slice |-> StableSlice]
           s == [slice EXCEPT !.life = stage]
<1>1. /\ UNCHANGED <<slice, before, stage>> /\ pc = "snapshot" /\ pc' = "lifecycle"
      /\ snaps' = Append(snaps, t)
  BY LegacyFacts DEF Snapshot, work, history
<1>2. /\ snaps \in Seq(Snapshots) /\ slice \in Slices /\ stage \in Stages /\ stage # 0
      /\ stage = before.life + 1
  BY <1>1, ModeFacts DEF Typed, TypeOK, Rooted
<1>3. StableSlice \in Slices /\ StableSlice.life = stage /\ StableSlice.files = slice.files
  <2>1. StableSlice = [slice EXCEPT !.life = target.life, !.gates = target.gates]
    BY LegacyFacts DEF StableSlice
  <2>2. target.life = stage /\ target.life \in 0 .. Last /\ target.gates \in SUBSET Stages
    BY <1>1 DEF Typed, TypeOK, AtWork, Working
  <2> QED
    BY <1>2, <2>1, <2>2, SliceUpdates DEF Slices
<1>4. t \in Snapshots /\ t.stage = stage /\ t.slice = StableSlice
  BY <1>2, <1>3 DEF Snapshots
<1>5. RootedIn(snaps', before)
  BY <1>1, <1>2, <1>4, RootKeeps DEF Rooted
<1>6. s.life = stage /\ s.files = slice.files
  BY <1>2 DEF Slices
<1>7. RootedIn(snaps', s)
  BY <1>1, <1>2, <1>3, <1>4, <1>6, RootMoves
<1>8. slice.life = stage => RootedIn(snaps', slice)
  BY <1>1, <1>2, <1>3, <1>4, RootMoves
<1>9. Grown'
  BY <1>1 DEF Rooted, Grown
<1> QED
  BY <1>1, <1>2, <1>5, <1>7, <1>8, <1>9 DEF Rooted

LEMMA RootedAdvances ==
  ASSUME Typed, Rooted, Legacy, mode' = mode, Lifecycle
  PROVE  Rooted'
<1>1. /\ UNCHANGED <<snaps, before, stage>> /\ pc = "lifecycle" /\ pc' \in {"cache", "return"}
  BY DEF Lifecycle, work, history
<1>2. slice'.life = stage /\ slice'.files = slice.files
  BY ChangedSlice
<1>3. RootedIn(snaps, slice')
  <2> DEFINE s == [slice EXCEPT !.life = stage]
  <2>1. s.life = stage /\ s.files = slice.files
    BY DEF Typed, TypeOK, Slices
  <2>2. RootedIn(snaps, s)
    BY <1>1 DEF Rooted
  <2> HIDE DEF s
  <2> QED
    BY <1>2, <2>1, <2>2, RootAlike
<1> QED
  BY <1>1, <1>2, <1>3 DEF Rooted, Grown

\* What giving up leaves of the stages before.
LEMMA LegacyEnding ==
  ASSUME Typed, Typed', Rooted, Legacy, mode' = mode, GiveUp
  PROVE  /\ slice'.life >= before.life
         /\ \A k \in 1 .. before.life : before.files[k] # 0 => slice'.files[k] # 0
         /\ RootedIn(snaps', slice')
<1>1. /\ pc = "fail" /\ RollbackToLatest /\ snaps' = snaps
      /\ stage = before.life + 1 /\ before.life \in Nat /\ RootedIn(snaps, before) /\ Grown
  BY LegacyFacts, SliceFields, ModeFacts DEF GiveUp, ShouldRollback, Rooted, Typed, TypeOK
<1>2. CASE slice' = slice
  BY <1>1, <1>2, SliceIsRooted DEF Grown
<1>3. CASE Candidates # {} /\ slice' # slice
  <2>1. before.life # 0
    BY <1>1, <1>3 DEF RootedIn, Candidates
  <2>2. PICK i \in DOMAIN snaps :
           /\ snaps[i].stage = before.life /\ snaps[i].slice.life = before.life
           /\ \A k \in 1 .. before.life : before.files[k] # 0 => snaps[i].slice.files[k] # 0
           /\ \A j \in DOMAIN snaps : i < j => snaps[j].stage = before.life + 1
    BY <1>1, <2>1 DEF RootedIn
  <2>3. DOMAIN snaps = 1 .. Len(snaps) /\ Len(snaps) \in Nat
    BY DEF Typed, TypeOK
  <2>4. i \in Candidates /\ \A j \in Candidates : j <= i
    BY <1>1, <2>2, <2>3 DEF Candidates
  <2>5. Latest \in Candidates /\ i <= Latest
    BY <2>4 DEF Latest
  <2>6. Latest = i
    BY <2>3, <2>4, <2>5 DEF Candidates
  <2> DEFINE saved == snaps[i].slice
  <2>7. slice' = [saved EXCEPT !.files = IF mode.fullRollback THEN saved.files ELSE slice.files]
    BY <1>1, <1>3, <2>6 DEF RollbackToLatest
  <2>8. saved \in Slices /\ mode.fullRollback \in BOOLEAN
    BY SnapshotType, ModeFacts DEF Typed, TypeOK
  <2>9. saved.life = before.life /\ \A k \in 1 .. before.life : before.files[k] # 0 => saved.files[k] # 0
    BY <2>2
  <2> HIDE DEF saved
  <2>10. slice'.life = before.life /\ (slice'.files = saved.files \/ slice'.files = slice.files)
    BY <2>7, <2>8, <2>9 DEF Slices
  <2>11. \A k \in 1 .. before.life : before.files[k] # 0 => slice'.files[k] # 0
    BY <1>1, <2>9, <2>10 DEF Grown
  <2>12. RootedIn(snaps, slice')
    <3>1. CASE slice'.files = saved.files
      BY <2>1, <2>2, <2>10, <3>1 DEF RootedIn, saved
    <3>2. CASE slice'.files = slice.files
      <4>1. \A k \in 1 .. before.life : slice'.files[k] # 0 => before.files[k] # 0
        BY <1>1, <3>2 DEF Grown
      <4> QED
        BY <1>1, <2>10, <4>1, RootAlike
    <3> QED
      BY <2>10, <3>1, <3>2
  <2> QED
    BY <1>1, <2>10, <2>11, <2>12
<1> QED
  BY <1>1, <1>2, <1>3 DEF RollbackToLatest

LEMMA RootedInit == Init => Rooted
  BY DEF Init, Rooted, RootedIn, Blank

LEMMA RootedStep ==
  Typed /\ Typed' /\ Full /\ Legacy /\ Rooted /\ [Next]_vars => Rooted'
<1> SUFFICES ASSUME Typed, Typed', Full, Legacy, Rooted, [Next]_vars PROVE Rooted'
  OBVIOUS
<1>1. CASE UNCHANGED vars
  BY <1>1 DEF vars, disk, work, history, Rooted, Grown
<1>2. CASE Next
  <2>1. mode' = mode
    BY <1>2 DEF Next
  <2>2. CASE StartPipeline
    <3>1. PICK k \in NextStages : BeginStage(k)
      BY <2>2 DEF StartPipeline
    <3>2. k = slice.life + 1
      BY <3>1, LegacyFacts DEF NextStages
    <3>3. RootedIn(snaps, slice)
      BY <2>2 DEF StartPipeline, Rooted
    <3> QED
      BY <3>1, <3>2, <3>3, RootedBegins
  <2>3. CASE Return
    <3>1. slice.life = stage /\ RootedIn(snaps, slice)
      BY <2>3 DEF Return, Rooted
    <3>2. CASE stage = Last
      <4>1. pc' = "idle" /\ slice' = slice /\ snaps' = snaps
        BY <2>3, <3>2 DEF Return, disk
      <4> QED
        BY <3>1, <4>1 DEF Rooted
    <3>3. CASE stage # Last
      BY <2>3, <3>1, <3>3, RootedBegins DEF Return
    <3> QED
      BY <3>2, <3>3
  <2>4. CASE Crash
    <3>1. pc' = "idle" /\ slice' = slice /\ snaps' = snaps
      BY <2>4 DEF Crash, disk
    <3> QED
      BY <3>1, SliceIsRooted DEF Rooted
  <2>5. CASE GiveUp
    <3>1. pc' = "idle" /\ RootedIn(snaps', slice')
      BY <2>1, <2>5, LegacyEnding DEF GiveUp
    <3> QED
      BY <3>1 DEF Rooted
  <2>6. ~Validate /\ ~Begin /\ ~Commit /\ ~Undo /\ ~Edit
    BY LegacyFacts DEF Validate, Begin, Commit, Undo, Edit, Rooted
  <2> QED
    BY <1>2, <2>1, <2>2, <2>3, <2>4, <2>5, <2>6, RootedWaits, RootedWrites, RootedKeeps, RootedAdvances
       DEF Next, Step
<1> QED
  BY <1>1, <1>2

(* Everything the legacy path keeps: its checks make agents' answers immaterial. *)
LEMMA LegacyInv == Spec => [](Typed /\ (Legacy => Rooted))
<1> DEFINE Inv == /\ Typed /\ Backed /\ Retained
                  /\ WritesOutput => Written /\ Full
                  /\ Legacy => Rooted
<1>1. Init => Inv
  BY TypedInit, BackedInit, RetainedInit, WrittenInit, FullInit, RootedInit
<1>2. Inv /\ [Next]_vars => Inv'
  <2> SUFFICES ASSUME Inv, [Next]_vars PROVE Inv'
    OBVIOUS
  <2>1. mode' = mode
    BY DEF Next, vars
  <2>2. WritesOutput' = WritesOutput /\ (Legacy' <=> Legacy)
    BY <2>1, SameMode DEF WritesOutput, Legacy, Undisturbed
  <2>3. Legacy => WritesOutput
    BY DEF Legacy, WritesOutput
  <2> QED
    BY <2>2, <2>3, TypedStep, BackedStep, RetainedStep, WrittenStep, FullStep, RootedStep
<1> QED
  BY <1>1, <1>2, PTL DEF Spec

LEMMA SteadyKeepsProgress ==
  ASSUME Typed, Typed', Steady, Whole, GiveUp, mode' = mode
  PROVE  /\ slice'.life >= before.life
         /\ \A k \in 1 .. before.life : before.files[k] # 0 => slice'.files[k] # 0
<1>1. /\ stage = before.life + 1 /\ before.life \in Nat /\ before \in Slices
      /\ before.files \in [Stages -> Contents]
  BY SliceFields, ModeFacts DEF GiveUp, Whole, Anchors, Typed, TypeOK
<1>2. \A k \in 1 .. before.life : k # stage
  BY <1>1
<1>3. \A k \in 1 .. before.life : k \in Stages
  <2>1. before.life \in 0 .. Last
    BY <1>1, SliceFields
  <2>2. mode \in Modes
    BY DEF Typed, TypeOK
  <2>3. Last \in Nat
    BY <2>2, ModeFacts
  <2> QED
    BY <2>1, <2>3 DEF Stages
<1>4. \A k \in 1 .. before.life : Completed.files[k] = before.files[k]
  BY <1>1, <1>2, <1>3 DEF Completed
<1>5. slice'.life \in {before.life, stage} /\ slice'.files \in {before.files, Completed.files}
  <2>1. Completed.life = stage
    BY DEF Completed
  <2>2. /\ [before EXCEPT !.files = Completed.files].life = before.life
        /\ [before EXCEPT !.files = Completed.files].files = Completed.files
    BY <1>1 DEF Slices
  <2>3. \/ slice' = before \/ slice' = Completed
        \/ slice' = [before EXCEPT !.files = Completed.files]
    BY FailureLeavesAllOrNothing
  <2> QED
    BY <2>1, <2>2, <2>3
<1> QED
  BY <1>1, <1>4, <1>5

(* A failed stage costs no earlier stage its state or its output: with transactions
   because it leaves all or nothing, on the legacy path, retried and crashed as often
   as may be, because of where the snapshots are taken. *)
THEOREM ProgressIsNeverLost == Spec => NoLostProgress
<1> DEFINE Kept1 ==
      Undisturbed /\ (Transactional => "crash" \notin mode.faults)
        /\ pc = "fail" /\ pc' = "idle" /\ told' = "failed" =>
        /\ slice'.life >= before.life
        /\ \A k \in 1 .. before.life : before.files[k] # 0 => slice'.files[k] # 0
<1>1. /\ Typed /\ Typed' /\ (Steady => Whole) /\ (Legacy => Rooted) /\ [Next]_vars => [Kept1]_vars
  <2> SUFFICES ASSUME Typed, Typed', Steady => Whole, Legacy => Rooted, Next, Steady \/ Legacy,
                      pc = "fail", pc' = "idle", told' = "failed"
               PROVE  /\ slice'.life >= before.life
                      /\ \A k \in 1 .. before.life : before.files[k] # 0 => slice'.files[k] # 0
    BY DEF Steady, Legacy
  <2> QED
    BY OnlyGivesUp, SteadyKeepsProgress, LegacyEnding
<1> QED
  BY <1>1, SteadyInv, LegacyInv, PTL DEF Spec, NoLostProgress
-----------------------------------------------------------------------------
(* What a run of the pipeline still has to do: the stages to come, the attempts
   left of this one, the steps left of this attempt. *)
Left(p) ==
  CASE p = "look" -> 16 [] p = "agent" -> 15 [] p = "validate" -> 14 [] p = "begin" -> 13
    [] p = "write" -> 12 [] p = "aside" -> 11 [] p = "gates" -> 10 [] p = "check" -> 9
    [] p = "evidence" -> 8 [] p = "commit" -> 7 [] p = "snapshot" -> 6 [] p = "lifecycle" -> 5
    [] p = "cache" -> 4 [] p = "return" -> 3 [] p = "undo" -> 2 [] p = "fail" -> 1 [] OTHER -> 0

Closer ==
  \/ pc' = "idle"
  \/ stage < stage' /\ stage' <= Last
  \/ stage' = stage /\ attempt < attempt' /\ attempt' <= mode.maxAttempts
  \/ stage' = stage /\ attempt' = attempt /\ Left(pc') < Left(pc)

(* No step of a run takes it back, whatever throws, is retried or undone: each goes
   to a later stage, a later attempt of the same or a later step of the attempt, of
   all of which there is a bound, or ends the run. *)
THEOREM RunsMoveOn == Spec => [][pc # "idle" => Closer]_vars
<1>1. Typed /\ Typed' /\ [Next]_vars => [pc # "idle" => Closer]_vars
  <2> SUFFICES ASSUME Typed, Typed', Next, pc # "idle" PROVE Closer
    BY DEF vars
  <2>1. stage \in 1 .. Last /\ attempt \in Nat /\ stage' \in 1 .. Last /\ attempt' \in 1 .. mode.maxAttempts
    BY SameMode DEF Next, Typed, TypeOK, Stages
  <2>2. CASE Look \/ Agent \/ Validate
    BY <2>2 DEF Look, Agent, Validate, Closer, Left, work
  <2>3. CASE Begin \/ Write \/ WriteAside \/ Gates
    BY <2>3 DEF Begin, Write, WriteAside, Gates, Closer, Left, work
  <2>4. CASE Check \/ Evidence \/ Commit
    BY <2>4 DEF Check, Evidence, Commit, Closer, Left, work
  <2>5. CASE Snapshot \/ Lifecycle \/ CachePut \/ Undo
    BY <2>5 DEF Snapshot, Lifecycle, CachePut, Undo, Closer, Left, work
  <2>6. CASE StepFails
    BY <2>6 DEF StepFails, Closer, Left, work
  <2>7. CASE Retry
    <3>1. attempt' = attempt + 1 /\ stage' = stage
      BY <2>7 DEF Retry
    <3> QED
      BY <2>1, <3>1 DEF Closer
  <2>8. CASE Return
    <3>1. pc' = "idle" \/ stage' = stage + 1
      BY <2>8 DEF Return, BeginStage
    <3> QED
      BY <2>1, <3>1 DEF Closer
  <2>9. CASE GiveUp \/ Crash
    BY <2>9 DEF GiveUp, Crash, Closer
  <2> QED
    BY <2>2, <2>3, <2>4, <2>5, <2>6, <2>7, <2>8, <2>9 DEF Next, Step, StartPipeline, Edit
<1>2. Spec => []Typed
  BY TypedInit, TypedStep, PTL DEF Spec
<1> QED
  BY <1>1, <1>2, PTL DEF Spec
=============================================================================
