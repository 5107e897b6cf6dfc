------------------------- MODULE BootstrapAdoptProofs -------------------------
(***************************************************************************)
(* Proofs about BootstrapAdopt, for any sessions, kinds and number of      *)
(* adoptions.                                                              *)
(***************************************************************************)
EXTENDS BootstrapAdopt, TLAPS

LEMMA OperationsAreLabels ==
    ASSUME NEW d \in [Kinds -> AdoptDecisions]
    PROVE  /\ Operations(d) \in Seq(Labels)
           /\ \A i, j \in 1..Len(Operations(d)) :
                  Operations(d)[i] = Operations(d)[j] => i = j
<1> DEFINE O == Operations(d)
<1>1. CASE Adopted(d) # {} /\ Deferred(d) # {}
  <2>1. O = <<"contracts">> \o <<"spec-debt">> \o Handoffs
    BY <1>1 DEF Operations, FinalStatus
  <2> HIDE DEF O
  <2>2. /\ O \in Seq(Labels)
        /\ Len(O) = 7
        /\ O[1] = "contracts" /\ O[2] = "spec-debt" /\ O[3] = "takeover-report"
        /\ O[4] = "current-baseline" /\ O[5] = "contract-graph"
        /\ O[6] = "adopt-summary" /\ O[7] = "takeover-brief"
    BY <2>1 DEF Handoffs, Labels, DirLabels, HandoffLabels
  <2> QED  BY <2>2 DEF O
<1>2. CASE Adopted(d) # {} /\ Deferred(d) = {}
  <2>1. O = <<"contracts">> \o <<>> \o Handoffs
    BY <1>2 DEF Operations, FinalStatus
  <2> HIDE DEF O
  <2>2. /\ O \in Seq(Labels)
        /\ Len(O) = 6
        /\ O[1] = "contracts" /\ O[2] = "takeover-report"
        /\ O[3] = "current-baseline" /\ O[4] = "contract-graph"
        /\ O[5] = "adopt-summary" /\ O[6] = "takeover-brief"
    BY <2>1 DEF Handoffs, Labels, DirLabels, HandoffLabels
  <2> QED  BY <2>2 DEF O
<1>3. CASE Adopted(d) = {} /\ Deferred(d) # {}
  <2>1. O = <<>> \o <<"spec-debt">> \o Handoffs
    BY <1>3 DEF Operations, FinalStatus
  <2> HIDE DEF O
  <2>2. /\ O \in Seq(Labels)
        /\ Len(O) = 6
        /\ O[1] = "spec-debt" /\ O[2] = "takeover-report"
        /\ O[3] = "current-baseline" /\ O[4] = "contract-graph"
        /\ O[5] = "adopt-summary" /\ O[6] = "takeover-brief"
    BY <2>1 DEF Handoffs, Labels, DirLabels, HandoffLabels
  <2> QED  BY <2>2 DEF O
<1>4. CASE Adopted(d) = {} /\ Deferred(d) = {}
  <2>1. O = <<>> \o <<>> \o <<>>
    BY <1>4 DEF Operations, FinalStatus
  <2>2. O \in Seq(Labels) /\ Len(O) = 0
    BY <2>1
  <2> QED  BY <2>2
<1> QED  BY <1>1, <1>2, <1>3, <1>4

LEMMA PathsAreLabelled ==
    ASSUME NEW s \in Sessions, NEW l \in Labels
    PROVE  /\ FinalPath(s, l) \in Paths
           /\ FinalPath(s, l)[1] = l
BY DEF FinalPath, Paths

LEMMA LabelOfPath ==
    ASSUME NEW p \in Paths
    PROVE  p[1] \in Labels
<1>1. PICK s \in Sessions, l \in Labels : p = FinalPath(s, l)
  BY DEF Paths
<1> QED  BY <1>1, PathsAreLabelled

LEMMA TreeUpdate ==
    ASSUME NEW t \in Trees, NEW s \in Sessions, NEW l \in Labels, NEW c \in ContentOf(l)
    PROVE  [t EXCEPT ![FinalPath(s, l)] = c] \in Trees
<1>1. c \in Content
  BY DEF ContentOf, Content
<1> QED  BY <1>1, PathsAreLabelled DEF Trees

LEMMA ShelfUpdate ==
    ASSUME NEW f \in Shelves, NEW l \in Labels, NEW c \in ContentOf(l)
    PROVE  [f EXCEPT ![l] = c] \in Shelves
BY DEF Shelves, ContentOf, Content

LEMMA EmptyShelf == Nothing \in Shelves
BY DEF Nothing, Shelves, ContentOf, Content

LEMMA StagedIsTyped ==
    ASSUME NEW s \in Sessions, NEW d \in [Kinds -> AdoptDecisions],
           NEW t \in Trees, NEW l \in Labels
    PROVE  StagedContent(s, d, l, t[FinalPath(s, "contracts")]) \in ContentOf(l)
<1> DEFINE c == t[FinalPath(s, "contracts")]
<1>1. c \in Directory \cup {Missing}
  BY PathsAreLabelled DEF Trees, ContentOf, Labels, DirLabels
<1>2. Adopted(d) \in SUBSET Kinds /\ Deferred(d) \in SUBSET Kinds
  BY DEF Adopted, Deferred
<1>3. CASE l = "contracts"
  <2>1. [k \in Kinds |-> IF k \in Adopted(d) THEN s
                         ELSE IF c = Missing THEN NoFile ELSE c[k]] \in Directory
    BY <1>1 DEF Directory
  <2> QED  BY <1>3, <2>1 DEF StagedContent, ContentOf, DirLabels
<1>4. CASE l = "spec-debt"
  BY <1>4 DEF StagedContent, ContentOf, DirLabels, Directory
<1>5. CASE l \in HandoffLabels
  <2>1. StagedContent(s, d, l, c) = [by |-> s, adopted |-> Adopted(d), deferred |-> Deferred(d)]
    BY <1>5 DEF StagedContent, HandoffLabels
  <2>2. l \notin DirLabels
    BY <1>5 DEF HandoffLabels, DirLabels
  <2> QED  BY <1>2, <2>1, <2>2 DEF ContentOf, Handoff
<1> QED  BY <1>3, <1>4, <1>5 DEF Labels, DirLabels
-----------------------------------------------------------------------------
(* Typing needs the operation counter to stay inside the batch. *)

Cursor ==
    \A s \in Sessions :
        /\ done[s] \in 0..Len(Ops(s))
        /\ pc[s] \in {"look", "backup", "install", "repair"} => done[s] < Len(Ops(s))
        /\ pc[s] \in {"idle", "prepare"} => done[s] = 0

LEMMA CurrentIsLabel ==
    ASSUME TypeOK, Cursor, NEW s \in Sessions,
           pc[s] \in {"look", "backup", "install", "repair"}
    PROVE  /\ Current(s) \in Labels
           /\ CurrentPath(s) = FinalPath(s, Current(s))
           /\ CurrentPath(s) \in Paths
           /\ CurrentPath(s)[1] = Current(s)
<1>1. done[s] + 1 \in 1..Len(Ops(s)) /\ Ops(s) \in Seq(Labels)
  BY OperationsAreLabels DEF TypeOK, Cursor, Ops
<1>2. Current(s) \in Labels
  BY <1>1 DEF Current
<1> QED  BY <1>2, PathsAreLabelled DEF CurrentPath

LEMMA InitTyped == Init => TypeOK /\ Cursor
<1> SUFFICES ASSUME Init PROVE TypeOK /\ Cursor
  OBVIOUS
<1>1. PICK contracts \in {Missing, [k \in Kinds |-> Base]} :
          live = [p \in Paths |-> IF p[1] = "contracts" THEN contracts ELSE Missing]
  BY DEF Init
<1>2. live \in Trees
  BY <1>1 DEF Trees, Content, ContentOf, Directory, DirLabels
<1>3. NoTree \in Trees
  BY DEF NoTree, Trees, Content, ContentOf
<1>4. NoDecisions \in [Kinds -> AdoptDecisions]
  BY DEF NoDecisions, AdoptDecisions
<1>5. TypeOK
  BY <1>2, <1>3, <1>4, EmptyShelf DEF Init, TypeOK, Steps
<1>6. Len(Operations(NoDecisions)) \in Nat
  BY <1>4, OperationsAreLabels
<1> QED  BY <1>5, <1>6 DEF Init, Cursor, Ops

LEMMA StepTyped == TypeOK /\ Cursor /\ [Next]_vars => TypeOK' /\ Cursor'
<1> SUFFICES ASSUME TypeOK, Cursor, [Next]_vars
             PROVE  TypeOK' /\ Cursor'
  OBVIOUS
<1>w. world' = world
  BY DEF Next, vars
<1> USE <1>w DEF Goto, disk, Steps
<1>e. NoTree \in Trees /\ Nothing \in Shelves /\ NoDecisions \in [Kinds -> AdoptDecisions]
  BY EmptyShelf DEF NoTree, NoDecisions, AdoptDecisions, Trees, Content, ContentOf
<1>n. Len(Operations(NoDecisions)) \in Nat
  BY <1>e, OperationsAreLabels
<1>o. \A s \in Sessions : Ops(s) \in Seq(Labels)
  BY OperationsAreLabels DEF Ops, TypeOK
<1>1. ASSUME NEW s \in Sessions, Start(s)
      PROVE  TypeOK' /\ Cursor'
  <2>1. PICK d \in [Kinds -> AdoptDecisions] : decisions' = [decisions EXCEPT ![s] = d]
    BY <1>1, WorldsAssumption DEF Start
  <2>2. Len(Operations(d)) \in Nat
    BY OperationsAreLabels
  <2>a. /\ runs' = runs + 1
        /\ manifest' = [manifest EXCEPT ![s] = "adopting"]
        /\ audited' = [audited EXCEPT ![s] = {}]
        /\ before' = [before EXCEPT ![s] = live]
        /\ pc' = [pc EXCEPT ![s] = "prepare"]
        /\ UNCHANGED <<live, staged, backup, done>>
    BY <1>1 DEF Start
  <2>3. TypeOK'
    BY <2>1, <2>a DEF TypeOK
  <2>4. Cursor'
    BY <1>1, <2>1, <2>2 DEF Start, TypeOK, Cursor, Ops
  <2> QED  BY <2>3, <2>4
<1>2. ASSUME NEW s \in Sessions, Prepare(s)
      PROVE  TypeOK' /\ Cursor'
  <2> DEFINE shelf == [l \in Labels |->
               IF InBatch(decisions[s], l)
               THEN StagedContent(s, decisions[s], l, live[FinalPath(s, "contracts")])
               ELSE Missing]
  <2>1. \A l \in Labels : shelf[l] \in ContentOf(l)
    BY StagedIsTyped DEF TypeOK, ContentOf
  <2>2. shelf \in Shelves
    BY <2>1 DEF Shelves, ContentOf, Content
  <2>3. staged' = [staged EXCEPT ![s] = shelf]
    BY <1>2 DEF Prepare
  <2> HIDE DEF shelf
  <2>4. TypeOK'
    <3>1. staged' \in [Sessions -> Shelves]
      BY <2>2, <2>3 DEF TypeOK
    <3>2. backup' \in [Sessions -> Shelves]
      BY <1>2, <1>e DEF Prepare, TypeOK
    <3> QED  BY <1>2, <3>1, <3>2 DEF Prepare, TypeOK
  <2>5. Ops(s) # <<>> => 0 < Len(Ops(s))
    BY <1>o
  <2>6. Cursor'
    <3>1. pc \in [Sessions -> Steps] /\ UNCHANGED <<decisions, done>> /\ pc[s] = "prepare"
          /\ pc' = [pc EXCEPT ![s] = IF Ops(s) = <<>> THEN "save" ELSE "look"]
      BY <1>2 DEF Prepare, TypeOK
    <3> QED  BY <2>5, <3>1 DEF Cursor, Ops
  <2> QED  BY <2>4, <2>6
<1>3. ASSUME NEW s \in Sessions, PrepareFails(s)
      PROVE  TypeOK' /\ Cursor'
  <2>1. staged' \in [Sessions -> Shelves] /\ backup' \in [Sessions -> Shelves]
    <3>1. staged \in [Sessions -> Shelves] /\ backup \in [Sessions -> Shelves]
      BY DEF TypeOK
    <3>2. \/ UNCHANGED <<staged, backup>>
          \/ /\ backup' = [backup EXCEPT ![s] = Nothing]
             /\ staged' = [staged EXCEPT ![s] = Nothing]
      BY <1>3 DEF PrepareFails
    <3> QED  BY <1>e, <3>1, <3>2
  <2>2. TypeOK'
    BY <1>3, <2>1 DEF PrepareFails, TypeOK
  <2>3. Cursor'
    BY <1>3 DEF PrepareFails, TypeOK, Cursor, Ops
  <2> QED  BY <2>2, <2>3
<1>4. ASSUME NEW s \in Sessions, Look(s) \/ MkdirFails(s) \/ BackupFails(s) \/ InstallFails(s)
      PROVE  TypeOK' /\ Cursor'
  BY <1>4 DEF Look, MkdirFails, BackupFails, InstallFails, TypeOK, Cursor, Ops
<1>5. ASSUME NEW s \in Sessions, Advance(s) \/ InjectedFailure(s) \/ SaveFails(s) \/ AuditFails(s)
      PROVE  TypeOK' /\ Cursor'
  <2>1. TypeOK'
    BY <1>5 DEF Advance, InjectedFailure, SaveFails, AuditFails, TypeOK
  <2>2. CASE Advance(s)
    <3>1. Len(Ops(s)) \in Nat /\ done[s] \in Nat /\ done[s] <= Len(Ops(s))
      BY <1>o DEF TypeOK, Cursor
    <3> QED  BY <2>1, <2>2, <3>1 DEF Advance, TypeOK, Cursor, Ops
  <2>3. CASE InjectedFailure(s) \/ SaveFails(s) \/ AuditFails(s)
    BY <2>1, <2>3 DEF InjectedFailure, SaveFails, AuditFails, TypeOK, Cursor, Ops
  <2> QED  BY <1>5, <2>2, <2>3
<1>6. ASSUME NEW s \in Sessions, Backup(s)
      PROVE  TypeOK' /\ Cursor'
  <2>1. Current(s) \in Labels /\ CurrentPath(s) = FinalPath(s, Current(s))
    BY <1>6, CurrentIsLabel DEF Backup
  <2>2. live[CurrentPath(s)] \in ContentOf(Current(s)) /\ Missing \in ContentOf(Current(s))
    BY <2>1, PathsAreLabelled DEF TypeOK, Trees, ContentOf
  <2>3. live' \in Trees
    BY <1>6, <2>1, <2>2, TreeUpdate DEF Backup, TypeOK
  <2>4. backup'[s] \in Shelves
    BY <1>6, <2>1, <2>2, ShelfUpdate DEF Backup, TypeOK
  <2>5. TypeOK'
    BY <1>6, <2>3, <2>4 DEF Backup, TypeOK
  <2>6. Cursor'
    BY <1>6 DEF Backup, TypeOK, Cursor, Ops
  <2> QED  BY <2>5, <2>6
<1>7. ASSUME NEW s \in Sessions, Install(s)
      PROVE  TypeOK' /\ Cursor'
  <2>1. Current(s) \in Labels /\ CurrentPath(s) = FinalPath(s, Current(s))
    BY <1>7, CurrentIsLabel DEF Install
  <2>2. staged[s][Current(s)] \in ContentOf(Current(s)) /\ Missing \in ContentOf(Current(s))
    BY <2>1 DEF TypeOK, Shelves, ContentOf
  <2>3. live' \in Trees
    BY <1>7, <2>1, <2>2, TreeUpdate DEF Install, TypeOK
  <2>4. staged'[s] \in Shelves
    BY <1>7, <2>1, <2>2, ShelfUpdate DEF Install, TypeOK
  <2>5. TypeOK'
    BY <1>7, <2>3, <2>4 DEF Install, TypeOK
  <2>6. Cursor'
    BY <1>7, <1>o DEF Install, TypeOK, Cursor, Ops
  <2> QED  BY <2>5, <2>6
<1>8. ASSUME NEW s \in Sessions, Repair(s)
      PROVE  TypeOK' /\ Cursor'
  <2>1. Current(s) \in Labels /\ CurrentPath(s) = FinalPath(s, Current(s))
    BY <1>8, CurrentIsLabel DEF Repair
  <2>2. backup[s][Current(s)] \in ContentOf(Current(s)) /\ Missing \in ContentOf(Current(s))
    BY <2>1 DEF TypeOK, Shelves, ContentOf
  <2>3. live' \in Trees
    BY <1>8, <2>1, <2>2, TreeUpdate DEF Repair, TypeOK
  <2>4. backup'[s] \in Shelves
    BY <1>8, <2>1, <2>2, ShelfUpdate DEF Repair, TypeOK
  <2>5. TypeOK'
    BY <1>8, <2>3, <2>4 DEF Repair, TypeOK
  <2>6. Cursor'
    BY <1>8 DEF Repair, TypeOK, Cursor, Ops
  <2> QED  BY <2>5, <2>6
<1>9. ASSUME NEW s \in Sessions, Cleanup(s)
      PROVE  TypeOK' /\ Cursor'
  BY <1>9, <1>e DEF Cleanup, TypeOK, Cursor, Ops
<1>10. ASSUME NEW s \in Sessions, CleanupFails(s)
       PROVE  TypeOK' /\ Cursor'
  <2>1. PICK gone \in SUBSET Labels :
            backup' = [backup EXCEPT ![s] =
                          [l \in Labels |-> IF l \in gone THEN Missing ELSE backup[s][l]]]
    BY <1>10 DEF CleanupFails
  <2>2. [l \in Labels |-> IF l \in gone THEN Missing ELSE backup[s][l]] \in Shelves
    BY DEF TypeOK, Shelves, Content, ContentOf
  <2>3. TypeOK'
    BY <1>10, <2>1, <2>2 DEF CleanupFails, TypeOK
  <2>4. Cursor'
    BY <1>10 DEF CleanupFails, TypeOK, Cursor, Ops
  <2> QED  BY <2>3, <2>4
<1>11. ASSUME NEW s \in Sessions, Rollback(s)
       PROVE  TypeOK' /\ Cursor'
  <2> DEFINE l == Ops(s)[done[s]]
  <2>1. CASE done[s] = 0
    BY <1>11, <2>1 DEF Rollback, TypeOK, Cursor, Ops
  <2>2. CASE done[s] # 0
    <3>1. l \in Labels
      BY <2>2, <1>o DEF TypeOK, Cursor
    <3>2. backup[s][l] \in ContentOf(l) /\ Missing \in ContentOf(l)
      BY <3>1 DEF TypeOK, Shelves, ContentOf
    <3>3. live' = [live EXCEPT ![FinalPath(s, l)] = backup[s][l]]
      BY <1>11, <2>2 DEF Rollback
    <3>4. backup' = [backup EXCEPT ![s][l] = Missing]
      BY <1>11, <2>2 DEF Rollback
    <3> HIDE DEF l
    <3>5. live' \in Trees
      BY <3>1, <3>2, <3>3, TreeUpdate DEF TypeOK
    <3>6. backup' \in [Sessions -> Shelves]
      BY <3>1, <3>2, <3>4, ShelfUpdate DEF TypeOK
    <3>7. TypeOK'
      BY <1>11, <2>2, <3>5, <3>6 DEF Rollback, TypeOK, Cursor
    <3>8. Cursor'
      BY <1>11, <2>2 DEF Rollback, TypeOK, Cursor, Ops
    <3> QED  BY <3>7, <3>8
  <2> QED  BY <2>1, <2>2
<1>12. ASSUME NEW s \in Sessions, RollbackFails(s)
       PROVE  TypeOK' /\ Cursor'
  <2> DEFINE l == Ops(s)[done[s]]
  <2>1. l \in Labels
    BY <1>12, <1>o DEF RollbackFails, TypeOK, Cursor
  <2>2. live' = [live EXCEPT ![FinalPath(s, l)] = Missing]
    BY <1>12 DEF RollbackFails
  <2> HIDE DEF l
  <2>3. live' \in Trees
    BY <2>1, <2>2, TreeUpdate DEF TypeOK, ContentOf
  <2>4. TypeOK'
    BY <1>12, <2>3 DEF RollbackFails, TypeOK
  <2>5. Cursor'
    BY <1>12 DEF RollbackFails, TypeOK, Cursor, Ops
  <2> QED  BY <2>4, <2>5
<1>13. ASSUME NEW s \in Sessions, Save(s)
       PROVE  TypeOK' /\ Cursor'
  <2>1. FinalStatus(decisions[s]) \in {"committed", "abandoned"}
    BY DEF FinalStatus
  <2> QED  BY <1>13, <2>1 DEF Save, TypeOK, Cursor, Ops
<1>14. ASSUME NEW s \in Sessions, Audit(s)
       PROVE  TypeOK' /\ Cursor'
  <2>1. audited' \in [Sessions -> SUBSET Kinds]
    BY <1>14 DEF Audit, TypeOK
  <2> QED  BY <1>14, <2>1 DEF Audit, TypeOK, Cursor, Ops
<1>15. ASSUME NEW s \in Sessions, Return(s) \/ Abandon(s) \/ Crash(s)
       PROVE  TypeOK' /\ Cursor'
  <2>1. Exit(s) /\ UNCHANGED <<live, backup, audited, runs>>
    BY <1>15 DEF Return, Abandon, Crash
  <2>2. manifest' \in [Sessions -> {"drafted", "adopting", "committed", "abandoned"}]
    BY <1>15 DEF Return, Abandon, Crash, TypeOK
  <2>3. TypeOK'
    BY <1>e, <2>1, <2>2 DEF Exit, TypeOK
  <2>4. ASSUME NEW t \in Sessions
        PROVE  /\ done'[t] \in 0..Len(Ops(t)')
               /\ pc'[t] \in {"look", "backup", "install", "repair"} => done'[t] < Len(Ops(t)')
               /\ pc'[t] \in {"idle", "prepare"} => done'[t] = 0
    <3>1. CASE t = s
      BY <1>n, <2>1, <3>1 DEF Exit, TypeOK, Ops
    <3>2. CASE t # s
      BY <2>1, <3>2 DEF Exit, TypeOK, Cursor, Ops
    <3> QED  BY <3>1, <3>2
  <2> QED  BY <2>3, <2>4 DEF Cursor
<1>16. CASE UNCHANGED vars
  BY <1>16 DEF vars, TypeOK, Cursor, Ops
<1> QED
  BY <1>1, <1>2, <1>3, <1>4, <1>5, <1>6, <1>7, <1>8, <1>9, <1>10, <1>11, <1>12, <1>13,
     <1>14, <1>15, <1>16 DEF Next, Commit, Close

(* Every file stays of its kind: directories hold artifacts, hand-offs     *)
(* hold summaries, and the process never leaves its batch.                 *)
THEOREM TypeCorrect == Spec => []TypeOK
<1>1. TypeOK /\ Cursor /\ [Next]_vars => (TypeOK /\ Cursor)'
  BY StepTyped
<1> QED  BY <1>1, InitTyped, PTL DEF Spec
-----------------------------------------------------------------------------
(* Atomicity, in the worlds in which a commit can be undone: one process at *)
(* a time, whose undo does not itself fail.                                *)

Reversible == world \cap {"parallel", "backup_rename", "cleanup", "rollback"} = {}

LEMMA UndoReverses == (Restorable => Reversible) /\ (Caught => Reversible)
BY DEF Restorable, Undoable, Caught, Reversible

Alone == \A s, t \in Sessions : pc[s] # "idle" /\ pc[t] # "idle" => s = t

\* The backups and the untouched part of the tree always make up the tree the
\* adoption began with.
Journal(s) ==
    /\ pc[s] = "prepare" => live = before[s]
    /\ pc[s] = "abandon" /\ world \cap {"manifest", "audit"} = {} => live = before[s]
    /\ Committing(s) =>
           /\ Undone(s) = before[s]
           /\ \A l \in Labels \ Moved(s) : backup[s][l] = Missing

AtomicInv == Alone /\ \A s \in Sessions : Journal(s)

LEMMA OneMore ==
    ASSUME NEW d \in [Kinds -> AdoptDecisions], NEW n \in Nat, n < Len(Operations(d))
    PROVE  LET O == Operations(d) IN
           /\ O[n + 1] \in Labels
           /\ O[n + 1] \notin {O[i] : i \in 1..n}
           /\ {O[i] : i \in 1..(n + 1)} = {O[i] : i \in 1..n} \cup {O[n + 1]}
<1> DEFINE O == Operations(d)
<1>1. O \in Seq(Labels) /\ \A i, j \in 1..Len(O) : O[i] = O[j] => i = j
  BY OperationsAreLabels
<1> HIDE DEF O
<1>2. O[n + 1] \in Labels
  BY <1>1 DEF O
<1>3. O[n + 1] \notin {O[i] : i \in 1..n}
  BY <1>1 DEF O
<1>4. 1..(n + 1) = 1..n \cup {n + 1}
  OBVIOUS
<1>5. {O[i] : i \in 1..(n + 1)} = {O[i] : i \in 1..n} \cup {O[n + 1]}
  BY <1>4
<1> QED  BY <1>2, <1>3, <1>5 DEF O

LEMMA MovedSets ==
    ASSUME TypeOK, NEW s \in Sessions
    PROVE  /\ pc[s] \in {"install", "repair"} =>
                  Moved(s) = {Ops(s)[i] : i \in 1..(done[s] + 1)}
           /\ pc[s] \notin {"install", "repair"} =>
                  Moved(s) = {Ops(s)[i] : i \in 1..done[s]}
BY DEF Moved, TypeOK

LEMMA MovedBefore ==
    ASSUME TypeOK, Cursor, NEW s \in Sessions, pc[s] \in {"look", "backup"}
    PROVE  /\ Current(s) \in Labels
           /\ Current(s) \notin Moved(s)
           /\ {Ops(s)[i] : i \in 1..(done[s] + 1)} = Moved(s) \cup {Current(s)}
<1>1. done[s] \in Nat /\ done[s] < Len(Ops(s))
  BY DEF TypeOK, Cursor
<1>2. Moved(s) = {Ops(s)[i] : i \in 1..done[s]}
  BY MovedSets
<1>3. decisions[s] \in [Kinds -> AdoptDecisions]
  BY DEF TypeOK
<1> QED  BY <1>1, <1>2, <1>3, OneMore DEF Ops, Current

LEMMA MovedDuring ==
    ASSUME TypeOK, Cursor, NEW s \in Sessions, pc[s] \in {"install", "repair"}
    PROVE  /\ Current(s) \in Labels
           /\ Current(s) \notin {Ops(s)[i] : i \in 1..done[s]}
           /\ Moved(s) = {Ops(s)[i] : i \in 1..done[s]} \cup {Current(s)}
<1>1. done[s] \in Nat /\ done[s] < Len(Ops(s))
  BY DEF TypeOK, Cursor
<1>2. Moved(s) = {Ops(s)[i] : i \in 1..(done[s] + 1)}
  BY MovedSets
<1>3. decisions[s] \in [Kinds -> AdoptDecisions]
  BY DEF TypeOK
<1> QED  BY <1>1, <1>2, <1>3, OneMore DEF Ops, Current

LEMMA MovedAreLabels ==
    ASSUME TypeOK, Cursor, NEW s \in Sessions
    PROVE  Moved(s) \in SUBSET Labels
<1>1. Ops(s) \in Seq(Labels)
  BY OperationsAreLabels DEF Ops, TypeOK
<1>2. done[s] \in Nat /\ done[s] <= Len(Ops(s))
  BY DEF TypeOK, Cursor
<1>3. \A i \in 1..done[s] : Ops(s)[i] \in Labels
  BY <1>1, <1>2
<1>4. CASE pc[s] \in {"install", "repair"}
  BY <1>3, <1>4, MovedDuring
<1>5. CASE pc[s] \notin {"install", "repair"}
  BY <1>3, <1>5, MovedSets
<1> QED  BY <1>4, <1>5

\* A step of s leaves the other processes where they are: idle.
LEMMA OnlyOneMoves ==
    ASSUME TypeOK, AtomicInv, NEW s \in Sessions, pc[s] # "idle",
           NEW step, pc' = [pc EXCEPT ![s] = step], Journal(s)'
    PROVE  AtomicInv'
<1>1. \A t \in Sessions : t # s => pc'[t] = "idle"
  BY DEF AtomicInv, Alone, TypeOK
<1>2. Alone'
  BY <1>1 DEF Alone
<1>3. \A t \in Sessions : t # s => Journal(t)'
  BY <1>1 DEF Journal, Committing
<1> QED  BY <1>2, <1>3 DEF AtomicInv

LEMMA UndoneMove ==
    ASSUME NEW s \in Sessions, NEW l \in Labels, NEW M \in SUBSET Labels, l \notin M,
           NEW shelf, NEW t, NEW shelf2, NEW t2,
           shelf2[l] = t[FinalPath(s, l)],
           \A m \in Labels \ {l} : shelf2[m] = shelf[m],
           \A p \in Paths \ {FinalPath(s, l)} : t2[p] = t[p]
    PROVE  UndoneBy(s, M \cup {l}, shelf2, t2) = UndoneBy(s, M, shelf, t)
<1> DEFINE f == FinalPath(s, l)
<1>1. f \in Paths /\ f[1] = l
  BY PathsAreLabelled
<1>2. ASSUME NEW p \in Paths
      PROVE  (IF p[1] \in M \cup {l} /\ p = FinalPath(s, p[1]) THEN shelf2[p[1]] ELSE t2[p])
             = (IF p[1] \in M /\ p = FinalPath(s, p[1]) THEN shelf[p[1]] ELSE t[p])
  <2>1. CASE p[1] = l
    BY <1>1, <2>1 DEF Shelves, Trees
  <2>2. CASE p[1] # l
    BY <1>1, <2>2, LabelOfPath DEF Shelves, Trees
  <2> QED  BY <2>1, <2>2
<1> QED  BY <1>2 DEF UndoneBy

LEMMA UndonePutBack ==
    ASSUME NEW s \in Sessions, NEW l \in Labels, NEW M \in SUBSET Labels, l \notin M,
           NEW shelf, NEW t, NEW shelf2, NEW t2,
           t2[FinalPath(s, l)] = shelf[l],
           \A m \in Labels \ {l} : shelf2[m] = shelf[m],
           \A p \in Paths \ {FinalPath(s, l)} : t2[p] = t[p]
    PROVE  UndoneBy(s, M, shelf2, t2) = UndoneBy(s, M \cup {l}, shelf, t)
<1> DEFINE f == FinalPath(s, l)
<1>1. f \in Paths /\ f[1] = l
  BY PathsAreLabelled
<1>2. ASSUME NEW p \in Paths
      PROVE  (IF p[1] \in M /\ p = FinalPath(s, p[1]) THEN shelf2[p[1]] ELSE t2[p])
             = (IF p[1] \in M \cup {l} /\ p = FinalPath(s, p[1]) THEN shelf[p[1]] ELSE t[p])
  <2>1. CASE p[1] = l
    BY <1>1, <2>1 DEF Shelves, Trees
  <2>2. CASE p[1] # l
    BY <1>1, <2>2, LabelOfPath DEF Shelves, Trees
  <2> QED  BY <2>1, <2>2
<1> QED  BY <1>2 DEF UndoneBy

LEMMA UndoneInstall ==
    ASSUME NEW s \in Sessions, NEW l \in Labels, NEW M \in SUBSET Labels, l \in M,
           NEW shelf \in Shelves, NEW t \in Trees, NEW x
    PROVE  UndoneBy(s, M, shelf, [t EXCEPT ![FinalPath(s, l)] = x]) = UndoneBy(s, M, shelf, t)
BY PathsAreLabelled DEF UndoneBy, Trees

LEMMA UndoneNothing ==
    ASSUME NEW s \in Sessions, NEW shelf, NEW t \in Trees
    PROVE  UndoneBy(s, {}, shelf, t) = t
BY DEF UndoneBy, Trees

\* A look at a path that holds nothing: no backup is as good as one.
LEMMA UndoneAbsent ==
    ASSUME NEW s \in Sessions, NEW l \in Labels, NEW M \in SUBSET Labels,
           NEW shelf \in Shelves, NEW t \in Trees,
           shelf[l] = Missing, t[FinalPath(s, l)] = Missing
    PROVE  UndoneBy(s, M \cup {l}, shelf, t) = UndoneBy(s, M, shelf, t)
BY PathsAreLabelled DEF UndoneBy

LEMMA StepAtomic ==
    Reversible /\ TypeOK /\ Cursor /\ AtomicInv /\ [Next]_vars => AtomicInv'
<1> SUFFICES ASSUME Reversible, TypeOK, Cursor, AtomicInv, [Next]_vars
             PROVE  AtomicInv'
  OBVIOUS
<1> USE DEF Goto, disk
<1>w. world' = world
  BY DEF Next, vars
<1>t. TypeOK'
  BY StepTyped
<1>s. \A s \in Sessions : backup[s] \in Shelves /\ live \in Trees /\ before[s] \in Trees
  BY DEF TypeOK
<1>m. \A s \in Sessions : Moved(s) \in SUBSET Labels
  BY MovedAreLabels
<1>1. ASSUME NEW s \in Sessions, Start(s)
      PROVE  AtomicInv'
  <2>1. \A t \in Sessions : t # s => pc'[t] = "idle"
    BY <1>1 DEF Start, Reversible, TypeOK
  <2>2. pc'[s] = "prepare" /\ live' = before'[s]
    BY <1>1 DEF Start, TypeOK
  <2> QED  BY <2>1, <2>2 DEF AtomicInv, Alone, Journal, Committing
<1>2. ASSUME NEW s \in Sessions, Prepare(s)
      PROVE  AtomicInv'
  <2>1. Moved(s)' = {} /\ backup'[s] = Nothing /\ live' = live /\ before'[s] = live
    BY <1>2 DEF Prepare, Moved, Cursor, TypeOK, AtomicInv, Journal, Ops
  <2>2. Undone(s)' = before'[s]
    BY <1>s, <2>1, UndoneNothing DEF Undone
  <2>3. pc'[s] \in {"look", "save"}
    BY <1>2 DEF Prepare, TypeOK
  <2>4. Journal(s)'
    BY <2>1, <2>2, <2>3 DEF Journal, Nothing, Committing
  <2> QED  BY <1>2, <2>4, OnlyOneMoves DEF Prepare
<1>3. ASSUME NEW s \in Sessions, PrepareFails(s)
      PROVE  AtomicInv'
  <2>1. Journal(s)'
    BY <1>3, <1>w DEF PrepareFails, TypeOK, AtomicInv, Journal, Committing
  <2> QED  BY <1>3, <2>1, OnlyOneMoves DEF PrepareFails
<1>4. ASSUME NEW s \in Sessions, Look(s)
      PROVE  AtomicInv'
  <2>1. /\ Undone(s) = before[s]
        /\ \A l \in Labels \ Moved(s) : backup[s][l] = Missing
    BY <1>4 DEF Look, AtomicInv, Journal, Committing
  <2>2. CASE live[CurrentPath(s)] # Missing
    <3>1. Moved(s)' = Moved(s) /\ pc'[s] = "backup"
      BY <1>4, <2>2 DEF Look, Moved, Ops, TypeOK
    <3>2. Journal(s)'
      BY <1>4, <2>1, <3>1 DEF Look, Journal, Committing, Undone
    <3> QED  BY <1>4, <3>2, OnlyOneMoves DEF Look
  <2>3. CASE live[CurrentPath(s)] = Missing
    <3>1. pc'[s] = "install" /\ Moved(s)' = Moved(s) \cup {Current(s)}
          /\ Current(s) \notin Moved(s) /\ Current(s) \in Labels
      <4>1. pc'[s] = "install" /\ done'[s] = done[s] /\ Ops(s)' = Ops(s)
        BY <1>4, <2>3 DEF Look, Ops, TypeOK
      <4>2. Moved(s)' = {Ops(s)[i] : i \in 1..(done[s] + 1)}
        BY <4>1 DEF Moved
      <4> QED  BY <1>4, <4>1, <4>2, MovedBefore DEF Look
    <3>2. backup[s][Current(s)] = Missing
      BY <2>1, <3>1
    <3>3. UndoneBy(s, Moved(s) \cup {Current(s)}, backup[s], live) = Undone(s)
      BY <1>s, <1>m, <2>3, <3>1, <3>2, UndoneAbsent DEF Undone, CurrentPath
    <3>4. Journal(s)'
      BY <1>4, <2>1, <3>1, <3>3 DEF Look, Journal, Committing, Undone
    <3> QED  BY <1>4, <3>4, OnlyOneMoves DEF Look
  <2> QED  BY <2>2, <2>3
<1>5. ASSUME NEW s \in Sessions, MkdirFails(s) \/ Advance(s) \/ InjectedFailure(s)
      PROVE  AtomicInv'
  <2>1. Moved(s)' = Moved(s) /\ pc'[s] \in {"look", "cleanup", "rollback"}
    BY <1>5 DEF MkdirFails, Advance, InjectedFailure, Moved, Ops, TypeOK
  <2>2. Journal(s)'
    BY <1>5, <2>1 DEF MkdirFails, Advance, InjectedFailure, AtomicInv, Journal, Committing, Undone
  <2> QED  BY <1>5, <2>2, OnlyOneMoves DEF MkdirFails, Advance, InjectedFailure
<1>6. ASSUME NEW s \in Sessions, Backup(s)
      PROVE  AtomicInv'
  <2>1. /\ Undone(s) = before[s]
        /\ \A l \in Labels \ Moved(s) : backup[s][l] = Missing
    BY <1>6 DEF Backup, AtomicInv, Journal, Committing
  <2>2. pc'[s] = "install" /\ Moved(s)' = Moved(s) \cup {Current(s)}
        /\ Current(s) \notin Moved(s) /\ Current(s) \in Labels
    <3>1. pc'[s] = "install" /\ done'[s] = done[s] /\ Ops(s)' = Ops(s)
      BY <1>6 DEF Backup, Ops, TypeOK
    <3>2. Moved(s)' = {Ops(s)[i] : i \in 1..(done[s] + 1)}
      BY <3>1 DEF Moved
    <3> QED  BY <1>6, <3>1, <3>2, MovedBefore DEF Backup
  <2>3. backup'[s] = [backup[s] EXCEPT ![Current(s)] = live[FinalPath(s, Current(s))]]
        /\ live' = [live EXCEPT ![FinalPath(s, Current(s))] = Missing]
    BY <1>6 DEF Backup, CurrentPath, TypeOK
  <2>4. Undone(s)' = Undone(s)
    <3>a. \A m \in Labels \ {Current(s)} : backup'[s][m] = backup[s][m]
      BY <1>s, <2>3 DEF Shelves
    <3>b. \A p \in Paths \ {FinalPath(s, Current(s))} : live'[p] = live[p]
      BY <1>s, <2>3 DEF Trees
    <3>c. backup'[s][Current(s)] = live[FinalPath(s, Current(s))]
      BY <1>s, <2>2, <2>3 DEF Shelves
    <3>1. UndoneBy(s, Moved(s) \cup {Current(s)}, backup'[s], live')
              = UndoneBy(s, Moved(s), backup[s], live)
      BY <1>m, <2>2, <3>a, <3>b, <3>c, UndoneMove
    <3> QED  BY <2>2, <3>1 DEF Undone
  <2>5. \A l \in Labels \ Moved(s)' : backup'[s][l] = Missing
    BY <1>s, <2>1, <2>2, <2>3 DEF Shelves
  <2>6. Journal(s)'
    BY <1>6, <2>1, <2>2, <2>4, <2>5 DEF Backup, Journal, Committing
  <2> QED  BY <1>6, <2>6, OnlyOneMoves DEF Backup
<1>7. ASSUME NEW s \in Sessions, BackupFails(s)
      PROVE  AtomicInv'
  <2>1. /\ Undone(s) = before[s]
        /\ \A l \in Labels \ Moved(s) : backup[s][l] = Missing
    BY <1>7 DEF BackupFails, AtomicInv, Journal, Committing
  <2>2. pc'[s] = "repair" /\ Moved(s)' = Moved(s) \cup {Current(s)}
        /\ Current(s) \notin Moved(s) /\ Current(s) \in Labels
    <3>1. pc'[s] = "repair" /\ done'[s] = done[s] /\ Ops(s)' = Ops(s)
      BY <1>7 DEF BackupFails, Ops, TypeOK
    <3>2. Moved(s)' = {Ops(s)[i] : i \in 1..(done[s] + 1)}
      BY <3>1 DEF Moved
    <3> QED  BY <1>7, <3>1, <3>2, MovedBefore DEF BackupFails
  <2>3. live[FinalPath(s, Current(s))] = Missing /\ backup[s][Current(s)] = Missing
    BY <1>7, <2>1, <2>2 DEF BackupFails, CurrentPath, Reversible
  <2>4. UndoneBy(s, Moved(s) \cup {Current(s)}, backup[s], live) = Undone(s)
    BY <1>s, <1>m, <2>2, <2>3, UndoneAbsent DEF Undone
  <2>5. Journal(s)'
    BY <1>7, <2>1, <2>2, <2>4 DEF BackupFails, Journal, Committing, Undone
  <2> QED  BY <1>7, <2>5, OnlyOneMoves DEF BackupFails
<1>8. ASSUME NEW s \in Sessions, Install(s) \/ InstallFails(s)
      PROVE  AtomicInv'
  <2>1. /\ Undone(s) = before[s]
        /\ \A l \in Labels \ Moved(s) : backup[s][l] = Missing
    BY <1>8 DEF Install, InstallFails, AtomicInv, Journal, Committing
  <2>2. pc'[s] \in {"installed", "repair"} /\ Moved(s)' = Moved(s)
        /\ Current(s) \in Moved(s) /\ Current(s) \in Labels
    <3>1. CASE Install(s)
      <4>1. pc'[s] = "installed" /\ done'[s] = done[s] + 1 /\ done[s] \in Nat
            /\ Ops(s)' = Ops(s)
        BY <3>1 DEF Install, Ops, TypeOK
      <4>2. Moved(s)' = {Ops(s)[i] : i \in 1..(done[s] + 1)}
        BY <4>1 DEF Moved
      <4>3. Moved(s) = {Ops(s)[i] : i \in 1..(done[s] + 1)}
        BY <3>1, MovedSets DEF Install
      <4> QED  BY <3>1, <4>1, <4>2, <4>3, MovedDuring DEF Install
    <3>2. CASE InstallFails(s)
      <4>1. pc'[s] = "repair" /\ done'[s] = done[s] /\ Ops(s)' = Ops(s)
        BY <3>2 DEF InstallFails, Ops, TypeOK
      <4>2. Moved(s)' = Moved(s)
        BY <3>2, <4>1 DEF Moved, InstallFails
      <4> QED  BY <3>2, <4>1, <4>2, MovedDuring DEF InstallFails
    <3> QED  BY <1>8, <3>1, <3>2
  <2>3. \/ live' = live
        \/ live' = [live EXCEPT ![FinalPath(s, Current(s))] = staged[s][Current(s)]]
    BY <1>8 DEF Install, InstallFails, CurrentPath
  <2>4. UndoneBy(s, Moved(s), backup[s], live') = Undone(s)
    BY <1>s, <1>m, <2>2, <2>3, UndoneInstall DEF Undone
  <2>5. Journal(s)'
    BY <1>8, <2>1, <2>2, <2>4 DEF Install, InstallFails, Journal, Committing, Undone
  <2> QED  BY <1>8, <2>5, OnlyOneMoves DEF Install, InstallFails
<1>9. ASSUME NEW s \in Sessions, Repair(s)
      PROVE  AtomicInv'
  <2>1. /\ Undone(s) = before[s]
        /\ \A l \in Labels \ Moved(s) : backup[s][l] = Missing
    BY <1>9 DEF Repair, AtomicInv, Journal, Committing
  <2>2. pc'[s] = "rollback" /\ Moved(s) = Moved(s)' \cup {Current(s)}
        /\ Current(s) \notin Moved(s)' /\ Current(s) \in Labels
    <3>1. pc'[s] = "rollback" /\ done'[s] = done[s] /\ Ops(s)' = Ops(s)
      BY <1>9 DEF Repair, Ops, TypeOK
    <3>2. Moved(s)' = {Ops(s)[i] : i \in 1..done[s]}
      BY <3>1 DEF Moved, TypeOK
    <3> QED  BY <1>9, <3>1, <3>2, MovedDuring DEF Repair
  <2>3. backup'[s] = [backup[s] EXCEPT ![Current(s)] = Missing]
        /\ live' = [live EXCEPT ![FinalPath(s, Current(s))] = backup[s][Current(s)]]
    BY <1>9 DEF Repair, CurrentPath, TypeOK
  <2>4. Undone(s)' = Undone(s)
    <3>a. \A m \in Labels \ {Current(s)} : backup'[s][m] = backup[s][m]
      BY <1>s, <2>3 DEF Shelves
    <3>b. \A p \in Paths \ {FinalPath(s, Current(s))} : live'[p] = live[p]
      BY <1>s, <2>3 DEF Trees
    <3>c. live'[FinalPath(s, Current(s))] = backup[s][Current(s)]
      BY <1>s, <2>2, <2>3, PathsAreLabelled DEF Trees
    <3>1. Moved(s)' \in SUBSET Labels
      BY <1>m, <2>2
    <3>2. UndoneBy(s, Moved(s)', backup'[s], live')
              = UndoneBy(s, Moved(s)' \cup {Current(s)}, backup[s], live)
      BY <2>2, <3>1, <3>a, <3>b, <3>c, UndonePutBack
    <3> QED  BY <2>2, <3>2 DEF Undone
  <2>5. \A l \in Labels \ Moved(s)' : backup'[s][l] = Missing
    BY <1>s, <2>1, <2>2, <2>3 DEF Shelves
  <2>6. Journal(s)'
    BY <1>9, <2>1, <2>2, <2>4, <2>5 DEF Repair, Journal, Committing
  <2> QED  BY <1>9, <2>6, OnlyOneMoves DEF Repair
<1>10. ASSUME NEW s \in Sessions, Rollback(s)
       PROVE  AtomicInv'
  <2>1. /\ Undone(s) = before[s]
        /\ \A l \in Labels \ Moved(s) : backup[s][l] = Missing
    BY <1>10 DEF Rollback, AtomicInv, Journal, Committing
  <2>2. CASE done[s] = 0
    <3>1. Moved(s) = {}
      BY <1>10, <2>2 DEF Rollback, Moved
    <3>2. live' = before'[s] /\ pc'[s] = "abandon"
      BY <1>10, <1>s, <2>1, <2>2, <3>1, UndoneNothing DEF Rollback, Undone, TypeOK
    <3>3. Journal(s)'
      BY <3>2 DEF Journal, Committing
    <3> QED  BY <1>10, <2>2, <3>3, OnlyOneMoves DEF Rollback
  <2>3. CASE done[s] # 0
    <3> DEFINE l == Ops(s)[done[s]]
    <3>1. done[s] - 1 \in Nat /\ done[s] - 1 < Len(Ops(s)) /\ (done[s] - 1) + 1 = done[s]
      BY <2>3, OperationsAreLabels DEF TypeOK, Cursor, Ops
    <3>2. /\ l \in Labels
          /\ l \notin {Ops(s)[i] : i \in 1..(done[s] - 1)}
          /\ {Ops(s)[i] : i \in 1..done[s]} = {Ops(s)[i] : i \in 1..(done[s] - 1)} \cup {l}
      <4>1. decisions[s] \in [Kinds -> AdoptDecisions]
        BY DEF TypeOK
      <4> QED  BY <3>1, <4>1, OneMore DEF Ops
    <3>3. /\ Moved(s) = {Ops(s)[i] : i \in 1..done[s]}
          /\ Moved(s)' = {Ops(s)[i] : i \in 1..(done[s] - 1)}
          /\ pc'[s] = "rollback"
      BY <1>10, <2>3, MovedSets DEF Rollback, Moved, Ops, TypeOK
    <3>4. backup'[s] = [backup[s] EXCEPT ![l] = Missing]
          /\ live' = [live EXCEPT ![FinalPath(s, l)] = backup[s][l]]
      BY <1>10, <2>3 DEF Rollback, TypeOK
    <3> HIDE DEF l
    <3>5. Undone(s)' = Undone(s)
      <4>1. Moved(s)' \in SUBSET Labels /\ l \notin Moved(s)'
            /\ Moved(s) = Moved(s)' \cup {l}
        BY <1>m, <3>2, <3>3
      <4>a. \A m \in Labels \ {l} : backup'[s][m] = backup[s][m]
        BY <1>s, <3>4 DEF Shelves
      <4>b. \A p \in Paths \ {FinalPath(s, l)} : live'[p] = live[p]
        BY <1>s, <3>4 DEF Trees
      <4>c. live'[FinalPath(s, l)] = backup[s][l]
        BY <1>s, <3>2, <3>4, PathsAreLabelled DEF Trees
      <4>2. UndoneBy(s, Moved(s)', backup'[s], live')
                = UndoneBy(s, Moved(s)' \cup {l}, backup[s], live)
        BY <3>2, <4>1, <4>a, <4>b, <4>c, UndonePutBack
      <4> QED  BY <4>1, <4>2 DEF Undone
    <3>6. \A m \in Labels \ Moved(s)' : backup'[s][m] = Missing
      BY <1>s, <2>1, <3>2, <3>3, <3>4 DEF Shelves
    <3>7. Journal(s)'
      BY <1>10, <2>1, <3>3, <3>5, <3>6 DEF Rollback, Journal, Committing
    <3>8. pc' = [pc EXCEPT ![s] = "rollback"]
      BY <1>10, <2>3 DEF Rollback, TypeOK
    <3> QED  BY <1>10, <3>7, <3>8, OnlyOneMoves DEF Rollback
  <2> QED  BY <2>2, <2>3
<1>11. ASSUME NEW s \in Sessions, Cleanup(s) \/ Save(s)
       PROVE  AtomicInv'
  <2>1. Journal(s)'
    BY <1>11 DEF Cleanup, Save, TypeOK, Journal, Committing
  <2> QED  BY <1>11, <2>1, OnlyOneMoves DEF Cleanup, Save
<1>12. ASSUME NEW s \in Sessions, Audit(s)
       PROVE  AtomicInv'
  BY <1>12 DEF Audit, AtomicInv, Alone, Journal, Committing, Undone, Moved, Ops
<1>13. ASSUME NEW s \in Sessions, Return(s) \/ Abandon(s) \/ Crash(s)
       PROVE  AtomicInv'
  <2>1. pc' = [pc EXCEPT ![s] = "idle"] /\ pc[s] # "idle"
    BY <1>13 DEF Return, Abandon, Crash, Exit
  <2>2. Journal(s)'
    BY <2>1 DEF TypeOK, Journal, Committing
  <2> QED  BY <2>1, <2>2, OnlyOneMoves
<1>14. ASSUME NEW s \in Sessions, CleanupFails(s) \/ RollbackFails(s)
       PROVE  FALSE
  BY <1>14 DEF CleanupFails, RollbackFails, Reversible
<1>16. ASSUME NEW s \in Sessions, SaveFails(s) \/ AuditFails(s)
       PROVE  AtomicInv'
  <2>1. pc' = [pc EXCEPT ![s] = "abandon"] /\ pc[s] # "idle"
        /\ world' \cap {"manifest", "audit"} # {}
    BY <1>16, <1>w DEF SaveFails, AuditFails
  <2>2. Journal(s)'
    BY <2>1 DEF TypeOK, Journal, Committing
  <2> QED  BY <2>1, <2>2, OnlyOneMoves
<1>15. CASE UNCHANGED vars
  <2>1. Alone'
    BY <1>15 DEF vars, AtomicInv, Alone
  <2>2. \A s \in Sessions : Journal(s)'
    BY <1>15 DEF vars, AtomicInv, Journal, Committing, Undone, Moved, Ops
  <2> QED  BY <2>1, <2>2 DEF AtomicInv
<1> QED
  BY <1>1, <1>2, <1>3, <1>4, <1>5, <1>6, <1>7, <1>8, <1>9, <1>10, <1>11, <1>12, <1>13,
     <1>14, <1>15, <1>16 DEF Next, Commit, Close

LEMMA AtomicInvariance == Spec => [](TypeOK /\ Cursor /\ (Reversible => AtomicInv))
<1> DEFINE Inv == TypeOK /\ Cursor /\ (Reversible => AtomicInv)
<1>1. Init => Inv
  <2>1. Init => AtomicInv
    BY DEF Init, AtomicInv, Alone, Journal, Committing
  <2> QED  BY <2>1, InitTyped
<1>2. Inv /\ [Next]_vars => Inv'
  <2>1. [Next]_vars /\ Reversible' => Reversible
    BY DEF Next, vars, Reversible
  <2> QED  BY <2>1, StepTyped, StepAtomic
<1> QED  BY <1>1, <1>2, PTL DEF Spec

(* An adoption that gives up leaves the tree as it found it: for any       *)
(* sessions and kinds, any number of adoptions and any crash in between,   *)
(* as long as one process adopts at a time and only restorable calls fail. *)
THEOREM AbandonAlwaysRestores == Spec => []AbandonRestores
<1>1. (Reversible => AtomicInv) => AbandonRestores
  BY UndoReverses DEF AtomicInv, Journal, AbandonRestores, RollbackRestores, Restorable, Undoable
<1> QED  BY <1>1, AtomicInvariance, PTL
-----------------------------------------------------------------------------
(* Committed sessions are audited: a manifest that says so is followed by  *)
(* all events or by the catch that overwrites it.                          *)

Auditing ==
    \A s \in Sessions : manifest[s] = "committed" =>
        \/ pc[s] = "idle" /\ audited[s] = Kinds
        \/ pc[s] \in {"audit", "abandon"}

LEMMA StepAuditing ==
    Caught /\ TypeOK /\ Auditing /\ [Next]_vars => Auditing'
<1> SUFFICES ASSUME Caught, TypeOK, Auditing, [Next]_vars,
                    NEW t \in Sessions, manifest'[t] = "committed"
             PROVE  \/ pc'[t] = "idle" /\ audited'[t] = Kinds
                    \/ pc'[t] \in {"audit", "abandon"}
  BY DEF Auditing
<1> USE DEF Goto, disk
<1>1. CASE UNCHANGED vars
  BY <1>1 DEF vars, Auditing
<1>2. ASSUME NEW s \in Sessions, Start(s)
      PROVE  t # s /\ manifest[t] = "committed" /\ pc'[t] = pc[t] /\ audited'[t] = audited[t]
  BY <1>2 DEF Start, TypeOK
<1>3. ASSUME NEW s \in Sessions, Prepare(s) \/ PrepareFails(s) \/ Commit(s)
      PROVE  t # s /\ manifest[t] = "committed" /\ pc'[t] = pc[t] /\ audited'[t] = audited[t]
  <2>1. pc[s] \notin {"idle", "audit", "abandon"} /\ manifest' = manifest /\ audited' = audited
    BY <1>3 DEF Prepare, PrepareFails, Commit, Look, MkdirFails, Backup, BackupFails, Install,
                InstallFails, Repair, Advance, InjectedFailure, Cleanup, CleanupFails, Rollback,
                RollbackFails
  <2>2. pc' = pc \/ \E step : pc' = [pc EXCEPT ![s] = step]
    BY <1>3 DEF Prepare, PrepareFails, Commit, Look, MkdirFails, Backup, BackupFails, Install,
                InstallFails, Repair, Advance, InjectedFailure, Cleanup, CleanupFails, Rollback,
                RollbackFails
  <2> QED  BY <2>1, <2>2 DEF Auditing, TypeOK
<1>4. ASSUME NEW s \in Sessions, Save(s) \/ SaveFails(s) \/ Audit(s) \/ AuditFails(s), t = s
      PROVE  pc'[t] \in {"audit", "abandon"}
  BY <1>4 DEF Save, SaveFails, Audit, AuditFails, TypeOK
<1>5. ASSUME NEW s \in Sessions, Return(s), t = s
      PROVE  pc'[t] = "idle" /\ audited'[t] = Kinds
  BY <1>5 DEF Return, Exit, TypeOK
<1>6. ASSUME NEW s \in Sessions, Abandon(s) \/ Crash(s), t = s
      PROVE  FALSE
  BY <1>6 DEF Abandon, Crash, Caught, TypeOK
<1>7. ASSUME NEW s \in Sessions, Close(s) \/ Crash(s), t # s
      PROVE  manifest[t] = "committed" /\ pc'[t] = pc[t] /\ audited'[t] = audited[t]
  BY <1>7 DEF Close, Save, SaveFails, Audit, AuditFails, Return, Abandon, Crash, Exit, TypeOK
<1>8. (manifest[t] = "committed" /\ pc'[t] = pc[t] /\ audited'[t] = audited[t]) =>
          \/ pc'[t] = "idle" /\ audited'[t] = Kinds
          \/ pc'[t] \in {"audit", "abandon"}
  BY DEF Auditing
<1> QED
  BY <1>1, <1>2, <1>3, <1>4, <1>5, <1>6, <1>7, <1>8 DEF Next, Close

(* A session whose manifest says committed has an audit event for every    *)
(* decision, for any calls that throw and are caught.                      *)
THEOREM CommittedSessionsAreAudited == Spec => []CommittedIsAudited
<1> DEFINE Inv == TypeOK /\ Cursor /\ (Caught => Auditing)
<1>1. Init => Inv
  BY InitTyped DEF Init, Auditing
<1>2. Inv /\ [Next]_vars => Inv'
  <2>1. [Next]_vars /\ Caught' => Caught
    BY DEF Next, vars, Caught
  <2> QED  BY <2>1, StepTyped, StepAuditing
<1>3. Inv => CommittedIsAudited
  BY DEF Auditing, CommittedIsAudited
<1> QED  BY <1>1, <1>2, <1>3, PTL DEF Spec
-----------------------------------------------------------------------------
(* What an adoption that gets to its manifest has put in place, whatever   *)
(* throws or crashes elsewhere, with one process at a time.                *)

LEMMA BatchIs ==
    ASSUME NEW d \in [Kinds -> AdoptDecisions]
    PROVE  /\ InBatch(d, "contracts") <=> Adopted(d) # {}
           /\ InBatch(d, "spec-debt") <=> Deferred(d) # {}
           /\ \A l \in HandoffLabels : InBatch(d, l) <=> FinalStatus(d) = "committed"
<1> DEFINE O == Operations(d)
<1>1. CASE Adopted(d) # {} /\ Deferred(d) # {}
  <2>1. O = <<"contracts">> \o <<"spec-debt">> \o Handoffs /\ FinalStatus(d) = "committed"
    BY <1>1 DEF Operations, FinalStatus
  <2> HIDE DEF O
  <2>2. /\ Len(O) = 7
        /\ O[1] = "contracts" /\ O[2] = "spec-debt" /\ O[3] = "takeover-report"
        /\ O[4] = "current-baseline" /\ O[5] = "contract-graph"
        /\ O[6] = "adopt-summary" /\ O[7] = "takeover-brief"
    BY <2>1 DEF Handoffs
  <2>3. \A l : (\E i \in 1..Len(O) : O[i] = l) <=> l \in {"contracts", "spec-debt"} \cup HandoffLabels
    BY <2>2 DEF HandoffLabels
  <2> QED  BY <1>1, <2>1, <2>3 DEF InBatch, O, HandoffLabels
<1>2. CASE Adopted(d) # {} /\ Deferred(d) = {}
  <2>1. O = <<"contracts">> \o <<>> \o Handoffs /\ FinalStatus(d) = "committed"
    BY <1>2 DEF Operations, FinalStatus
  <2> HIDE DEF O
  <2>2. /\ Len(O) = 6
        /\ O[1] = "contracts" /\ O[2] = "takeover-report"
        /\ O[3] = "current-baseline" /\ O[4] = "contract-graph"
        /\ O[5] = "adopt-summary" /\ O[6] = "takeover-brief"
    BY <2>1 DEF Handoffs
  <2>3. \A l : (\E i \in 1..Len(O) : O[i] = l) <=> l \in {"contracts"} \cup HandoffLabels
    BY <2>2 DEF HandoffLabels
  <2> QED  BY <1>2, <2>1, <2>3 DEF InBatch, O, HandoffLabels
<1>3. CASE Adopted(d) = {} /\ Deferred(d) # {}
  <2>1. O = <<>> \o <<"spec-debt">> \o Handoffs /\ FinalStatus(d) = "committed"
    BY <1>3 DEF Operations, FinalStatus
  <2> HIDE DEF O
  <2>2. /\ Len(O) = 6
        /\ O[1] = "spec-debt" /\ O[2] = "takeover-report"
        /\ O[3] = "current-baseline" /\ O[4] = "contract-graph"
        /\ O[5] = "adopt-summary" /\ O[6] = "takeover-brief"
    BY <2>1 DEF Handoffs
  <2>3. \A l : (\E i \in 1..Len(O) : O[i] = l) <=> l \in {"spec-debt"} \cup HandoffLabels
    BY <2>2 DEF HandoffLabels
  <2> QED  BY <1>3, <2>1, <2>3 DEF InBatch, O, HandoffLabels
<1>4. CASE Adopted(d) = {} /\ Deferred(d) = {}
  <2>1. O = <<>> \o <<>> \o <<>> /\ FinalStatus(d) # "committed"
    BY <1>4 DEF Operations, FinalStatus
  <2>2. Len(O) = 0
    BY <2>1
  <2> QED  BY <1>4, <2>1, <2>2 DEF InBatch
<1> QED  BY <1>1, <1>2, <1>3, <1>4

\* What the operations of s have put in place so far, and what they must put.
Installed(s) == {Ops(s)[i] : i \in 1..done[s]}
Target(s, l) == StagedContent(s, decisions[s], l, before[s][FinalPath(s, "contracts")])

Onward == {"look", "backup", "install", "installed", "cleanup"}

Forward(s) ==
    /\ pc[s] = "prepare" => live = before[s]
    /\ pc[s] = "cleanup" => done[s] = Len(Ops(s))
    /\ pc[s] \in Onward =>
           /\ \A l \in Labels \ Installed(s) :
                  InBatch(decisions[s], l) => staged[s][l] = Target(s, l)
           /\ \A l \in Installed(s) : live[FinalPath(s, l)] = Target(s, l)
           /\ \A p \in Paths :
                  (\A l \in Moved(s) : p # FinalPath(s, l)) => live[p] = before[s][p]
    /\ pc[s] \in {"save", "audit"} => live = Applied(s, decisions[s], before[s])

Serial == "parallel" \notin world

ForwardInv == Alone /\ \A s \in Sessions : Forward(s)

LEMMA OnlyOneForward ==
    ASSUME TypeOK, ForwardInv, NEW s \in Sessions, pc[s] # "idle",
           NEW step, pc' = [pc EXCEPT ![s] = step], Forward(s)'
    PROVE  ForwardInv'
<1>1. \A t \in Sessions : t # s => pc'[t] = "idle"
  BY DEF ForwardInv, Alone, TypeOK
<1>2. Alone'
  BY <1>1 DEF Alone
<1>3. \A t \in Sessions : t # s => Forward(t)'
  BY <1>1 DEF Forward, Onward
<1> QED  BY <1>2, <1>3 DEF ForwardInv

LEMMA DistinctPaths ==
    ASSUME NEW s \in Sessions, NEW l, NEW m, FinalPath(s, l) = FinalPath(s, m)
    PROVE  l = m
BY DEF FinalPath

\* A batch that is in place is the applied batch.
LEMMA CompleteBatch ==
    ASSUME TypeOK, Cursor, NEW s \in Sessions, pc[s] = "cleanup", Forward(s)
    PROVE  live = Applied(s, decisions[s], before[s])
<1> DEFINE d == decisions[s]
<1>1. done[s] = Len(Ops(s)) /\ Moved(s) = Installed(s)
  BY MovedSets DEF Forward, Installed
<1>2. \A l : InBatch(d, l) <=> l \in Installed(s)
  BY <1>1 DEF InBatch, Installed, Ops
<1>3. ASSUME NEW p \in Paths
      PROVE  live[p] = IF InBatch(d, p[1]) /\ p = FinalPath(s, p[1])
                       THEN Target(s, p[1]) ELSE before[s][p]
  <2>1. CASE InBatch(d, p[1]) /\ p = FinalPath(s, p[1])
    BY <1>2, <2>1 DEF Forward, Onward
  <2>2. CASE ~(InBatch(d, p[1]) /\ p = FinalPath(s, p[1]))
    <3>1. ASSUME NEW l \in Moved(s), p = FinalPath(s, l)
          PROVE  FALSE
      <4>1. l \in Labels
        BY MovedAreLabels
      <4>2. p[1] = l
        BY <3>1, <4>1, PathsAreLabelled
      <4> QED  BY <1>1, <1>2, <2>2, <3>1, <4>2
    <3> QED  BY <2>2, <3>1 DEF Forward, Onward
  <2> QED  BY <2>1, <2>2
<1>4. live = [p \in Paths |-> live[p]]
  BY DEF TypeOK, Trees
<1> QED  BY <1>3, <1>4 DEF Applied, Target
LEMMA StepForward ==
    Serial /\ TypeOK /\ Cursor /\ ForwardInv /\ [Next]_vars => ForwardInv'
<1> SUFFICES ASSUME Serial, TypeOK, Cursor, ForwardInv, [Next]_vars
             PROVE  ForwardInv'
  OBVIOUS
<1> USE DEF Goto, disk
<1>t. TypeOK' /\ Cursor'
  BY StepTyped
<1>s. \A s \in Sessions : /\ decisions[s] \in [Kinds -> AdoptDecisions]
                          /\ staged[s] \in Shelves /\ before[s] \in Trees /\ live \in Trees
                          /\ Forward(s)
  BY DEF TypeOK, ForwardInv
\* Where no operation is left or none succeeds, nothing is promised.
<1>b. ASSUME NEW s \in Sessions, pc[s] # "idle",
             NEW step \in {"idle", "repair", "rollback", "abandon"},
             pc' = [pc EXCEPT ![s] = step]
      PROVE  ForwardInv'
  <2>1. Forward(s)'
    BY <1>b DEF Forward, Onward, TypeOK
  <2> QED  BY <1>b, <2>1, OnlyOneForward
<1>1. ASSUME NEW s \in Sessions, Start(s)
      PROVE  ForwardInv'
  <2>1. \A t \in Sessions : t # s => pc'[t] = "idle"
    BY <1>1 DEF Start, Serial, TypeOK
  <2>2. pc'[s] = "prepare" /\ live' = before'[s]
    BY <1>1 DEF Start, TypeOK
  <2> QED  BY <2>1, <2>2 DEF ForwardInv, Alone, Forward, Onward
<1>2. ASSUME NEW s \in Sessions, Prepare(s)
      PROVE  ForwardInv'
  <2>1. /\ live' = before'[s] /\ before'[s] = before[s] /\ decisions' = decisions
        /\ done'[s] = 0
        /\ pc'[s] = IF Ops(s) = <<>> THEN "save" ELSE "look"
    BY <1>2, <1>s DEF Prepare, Forward, Cursor, TypeOK
  <2>2. Installed(s)' = {} /\ Moved(s)' = {}
    BY <2>1, <1>t, MovedSets DEF Installed, Moved
  <2>3. \A l \in Labels : InBatch(decisions[s], l) => staged'[s][l] = Target(s, l)
    BY <1>2, <1>s DEF Prepare, Forward, Target, TypeOK
  <2>4. CASE Ops(s) = <<>>
    <3>1. \A l : ~InBatch(decisions[s], l)
      BY <2>4 DEF InBatch, Ops
    <3>2. Applied(s, decisions[s], before[s]) = before[s]
      BY <1>s, <3>1 DEF Applied, Trees
    <3>3. Forward(s)'
      BY <2>1, <2>4, <3>2 DEF Forward, Onward
    <3> QED  BY <1>2, <3>3, OnlyOneForward DEF Prepare
  <2>5. CASE Ops(s) # <<>>
    <3>1. Forward(s)'
      BY <2>1, <2>2, <2>3, <2>5 DEF Forward, Onward, Target
    <3> QED  BY <1>2, <3>1, OnlyOneForward DEF Prepare
  <2> QED  BY <2>4, <2>5
<1>3. ASSUME NEW s \in Sessions, Look(s)
      PROVE  ForwardInv'
  <2>1. /\ UNCHANGED <<live, staged, before, decisions, done>>
        /\ pc'[s] \in {"install", "backup"} /\ pc[s] = "look"
    BY <1>3 DEF Look, TypeOK
  <2>2. Installed(s)' = Installed(s) /\ Moved(s) \subseteq Moved(s)'
    <3>1. Moved(s) = {Ops(s)[i] : i \in 1..done[s]}
      BY <2>1, MovedSets
    <3>2. \/ Moved(s)' = {Ops(s)[i] : i \in 1..done[s]}
          \/ Moved(s)' = {Ops(s)[i] : i \in 1..(done[s] + 1)}
      BY <2>1 DEF Moved, Ops, TypeOK
    <3>3. 1..done[s] \subseteq 1..(done[s] + 1)
      BY DEF TypeOK
    <3> QED  BY <2>1, <3>1, <3>2, <3>3 DEF Installed, Ops
  <2>3. Forward(s)'
    BY <1>s, <2>1, <2>2 DEF Forward, Onward, Target
  <2> QED  BY <1>3, <2>3, OnlyOneForward DEF Look
<1>4. ASSUME NEW s \in Sessions, Backup(s)
      PROVE  ForwardInv'
  <2> DEFINE c == Current(s)
  <2>1. /\ UNCHANGED <<staged, before, decisions, done>>
        /\ pc'[s] = "install" /\ pc[s] = "backup"
        /\ live' = [live EXCEPT ![FinalPath(s, c)] = Missing]
    BY <1>4 DEF Backup, CurrentPath, TypeOK
  <2>2. c \in Labels /\ c \notin Moved(s) /\ Moved(s) = Installed(s)
        /\ {Ops(s)[i] : i \in 1..(done[s] + 1)} = Moved(s) \cup {c}
    BY <2>1, MovedBefore, MovedSets DEF Installed
  <2>3. Installed(s)' = Installed(s) /\ Moved(s)' = Moved(s) \cup {c}
    BY <2>1, <2>2 DEF Installed, Moved, Ops
  <2> HIDE DEF c
  <2>4. \A p \in Paths : p # FinalPath(s, c) => live'[p] = live[p]
    BY <1>s, <2>1 DEF Trees
  <2>5. Installed(s) \in SUBSET Labels
    BY <2>2, MovedAreLabels
  <2>6. \A l \in Installed(s) : live'[FinalPath(s, l)] = live[FinalPath(s, l)]
    BY <2>2, <2>4, <2>5, DistinctPaths, PathsAreLabelled
  <2>7. Forward(s)'
    BY <1>s, <2>1, <2>2, <2>3, <2>4, <2>6 DEF Forward, Onward, Target
  <2> QED  BY <1>4, <2>7, OnlyOneForward DEF Backup
<1>5. ASSUME NEW s \in Sessions, Install(s)
      PROVE  ForwardInv'
  <2> DEFINE c == Current(s)
  <2>1. /\ UNCHANGED <<before, decisions>> /\ done'[s] = done[s] + 1 /\ done[s] \in Nat
        /\ pc'[s] = "installed" /\ pc[s] = "install"
        /\ live' = [live EXCEPT ![FinalPath(s, c)] = staged[s][c]]
        /\ staged'[s] = [staged[s] EXCEPT ![c] = Missing]
    BY <1>5 DEF Install, CurrentPath, TypeOK
  <2>2. c \in Labels /\ c \notin Installed(s) /\ Moved(s) = Installed(s) \cup {c}
    BY <2>1, MovedDuring DEF Installed
  <2>3. Installed(s)' = Moved(s) /\ Moved(s)' = Moved(s)
    <3>1. Moved(s) = {Ops(s)[i] : i \in 1..(done[s] + 1)}
      BY <2>1, MovedSets
    <3>2. Moved(s)' = {Ops(s)[i] : i \in 1..(done[s] + 1)}
      BY <2>1 DEF Moved, Ops
    <3> QED  BY <2>1, <3>1, <3>2 DEF Installed, Ops
  <2>4. InBatch(decisions[s], c)
    <3>1. done[s] + 1 \in 1..Len(Ops(s))
      BY <2>1, OperationsAreLabels DEF Cursor, Ops, TypeOK
    <3> QED  BY <3>1 DEF InBatch, Ops, Current
  <2> HIDE DEF c
  <2>5. staged[s][c] = Target(s, c)
    BY <1>s, <2>1, <2>2, <2>4 DEF Forward, Onward
  <2>6. \A p \in Paths : p # FinalPath(s, c) => live'[p] = live[p]
    BY <1>s, <2>1 DEF Trees
  <2>7. live'[FinalPath(s, c)] = Target(s, c)
    BY <1>s, <2>1, <2>2, <2>5, PathsAreLabelled DEF Trees
  <2>8. Moved(s) \in SUBSET Labels
    BY MovedAreLabels
  <2>9. \A l \in Installed(s) : live'[FinalPath(s, l)] = live[FinalPath(s, l)]
    BY <2>2, <2>6, <2>8, DistinctPaths, PathsAreLabelled
  <2>10. \A l \in Labels \ {c} : staged'[s][l] = staged[s][l]
    BY <1>s, <2>1 DEF Shelves
  <2>11. \A l : Target(s, l)' = Target(s, l)
    BY <2>1 DEF Target
  <2>12. /\ \A l \in Labels \ Installed(s)' :
                InBatch(decisions'[s], l) => staged'[s][l] = Target(s, l)'
         /\ \A l \in Installed(s)' : live'[FinalPath(s, l)] = Target(s, l)'
    BY <1>s, <2>1, <2>2, <2>3, <2>7, <2>9, <2>10, <2>11 DEF Forward, Onward
  <2>13. \A p \in Paths :
             (\A l \in Moved(s)' : p # FinalPath(s, l)) => live'[p] = before'[s][p]
    BY <1>s, <2>1, <2>2, <2>3, <2>6 DEF Forward, Onward
  <2>14. Forward(s)'
    BY <2>1, <2>12, <2>13 DEF Forward, Onward
  <2> QED  BY <1>5, <2>14, OnlyOneForward DEF Install
<1>6. ASSUME NEW s \in Sessions, Advance(s)
      PROVE  ForwardInv'
  <2>1. /\ UNCHANGED <<live, staged, before, decisions, done>>
        /\ pc[s] = "installed"
        /\ pc'[s] = IF done[s] = Len(Ops(s)) THEN "cleanup" ELSE "look"
    BY <1>6 DEF Advance, TypeOK
  <2>2. Installed(s)' = Installed(s) /\ Moved(s)' = Moved(s)
    BY <2>1 DEF Installed, Moved, Ops
  <2>3. Forward(s)'
    BY <1>s, <2>1, <2>2 DEF Forward, Onward, Target, Ops
  <2> QED  BY <1>6, <2>3, OnlyOneForward DEF Advance
<1>7. ASSUME NEW s \in Sessions, Cleanup(s)
      PROVE  ForwardInv'
  <2>1. live = Applied(s, decisions[s], before[s])
    BY <1>7, <1>s, CompleteBatch DEF Cleanup
  <2>2. Forward(s)'
    BY <1>7, <2>1 DEF Cleanup, Forward, Onward, TypeOK
  <2> QED  BY <1>7, <2>2, OnlyOneForward DEF Cleanup
<1>8. ASSUME NEW s \in Sessions, Save(s)
      PROVE  ForwardInv'
  <2>1. Forward(s)'
    BY <1>8, <1>s DEF Save, Forward, Onward, TypeOK
  <2> QED  BY <1>8, <2>1, OnlyOneForward DEF Save
<1>9. CASE UNCHANGED vars \/ \E s \in Sessions : Audit(s)
  <2>1. UNCHANGED <<live, staged, before, decisions, done, pc>>
    BY <1>9 DEF vars, Audit
  <2> QED  BY <2>1 DEF ForwardInv, Alone, Forward, Installed, Moved, Target, Ops
<1>10. ASSUME NEW s \in Sessions,
              \/ PrepareFails(s) \/ MkdirFails(s) \/ BackupFails(s) \/ InstallFails(s)
              \/ Repair(s) \/ InjectedFailure(s) \/ CleanupFails(s) \/ RollbackFails(s)
              \/ SaveFails(s) \/ AuditFails(s) \/ Return(s) \/ Abandon(s) \/ Crash(s)
       PROVE  ForwardInv'
  <2>1. pc[s] # "idle" /\ \E step \in {"idle", "repair", "rollback", "abandon"} :
            pc' = [pc EXCEPT ![s] = step]
    BY <1>10 DEF PrepareFails, MkdirFails, BackupFails, InstallFails, Repair, InjectedFailure,
                 CleanupFails, RollbackFails, SaveFails, AuditFails, Return, Abandon, Crash, Exit
  <2> QED  BY <1>b, <2>1
<1>11. ASSUME NEW s \in Sessions, Rollback(s)
       PROVE  ForwardInv'
  <2>1. pc[s] # "idle" /\ \E step \in {"rollback", "abandon"} : pc' = [pc EXCEPT ![s] = step]
    BY <1>11 DEF Rollback, TypeOK
  <2> QED  BY <1>b, <2>1
<1> QED
  BY <1>1, <1>2, <1>3, <1>4, <1>5, <1>6, <1>7, <1>8, <1>9, <1>10, <1>11 DEF Next, Commit, Close

LEMMA ForwardInvariance == Spec => [](TypeOK /\ Cursor /\ (Serial => ForwardInv))
<1> DEFINE Inv == TypeOK /\ Cursor /\ (Serial => ForwardInv)
<1>1. Init => Inv
  <2>1. Init => ForwardInv
    BY DEF Init, ForwardInv, Alone, Forward, Onward
  <2> QED  BY <2>1, InitTyped
<1>2. Inv /\ [Next]_vars => Inv'
  <2>1. [Next]_vars /\ Serial' => Serial
    BY DEF Next, vars, Serial
  <2> QED  BY <2>1, StepTyped, StepForward
<1> QED  BY <1>1, <1>2, PTL DEF Spec
\* An applied batch holds exactly its decisions: the contracts, ...
LEMMA AppliedContracts ==
    ASSUME NEW s \in Sessions, NEW d \in [Kinds -> AdoptDecisions], NEW t \in Trees,
           NEW k \in Kinds
    PROVE  FileIn(Applied(s, d, t)[FinalPath(s, "contracts")], k) =
               IF k \in Adopted(d) THEN s ELSE FileIn(t[FinalPath(s, "contracts")], k)
<1> DEFINE a == Applied(s, d, t)
           c == FinalPath(s, "contracts")
<1>1. "contracts" \in Labels /\ c \in Paths /\ c[1] = "contracts"
  BY PathsAreLabelled DEF Labels, DirLabels
<1>2. CASE Adopted(d) = {}
  <2>1. a[c] = t[c]
    BY <1>1, <1>2, BatchIs DEF Applied
  <2> QED  BY <1>2, <2>1
<1>3. CASE Adopted(d) # {}
  <2> DEFINE dir == [j \in Kinds |-> IF j \in Adopted(d) THEN s
                                     ELSE IF t[c] = Missing THEN NoFile ELSE t[c][j]]
  <2>1. a[c] = dir
    BY <1>1, <1>3, BatchIs DEF Applied, StagedContent
  <2>2. dir \in Directory
    <3>1. t[c] \in Directory \cup {Missing}
      BY <1>1 DEF Trees, ContentOf, DirLabels
    <3> QED  BY <3>1 DEF Directory
  <2>3. dir # Missing
    BY <2>2, DistinctOrigins
  <2> QED  BY <2>1, <2>3 DEF FileIn
<1> QED  BY <1>2, <1>3

\* ... the session's own debt, and nobody else's, ...
LEMMA AppliedDebt ==
    ASSUME NEW s \in Sessions, NEW d \in [Kinds -> AdoptDecisions], NEW t \in Trees,
           NEW u \in Sessions
    PROVE  IF u = s /\ Deferred(d) # {}
           THEN Applied(s, d, t)[FinalPath(u, "spec-debt")]
                    = [k \in Kinds |-> IF k \in Deferred(d) THEN s ELSE NoFile]
           ELSE Applied(s, d, t)[FinalPath(u, "spec-debt")] = t[FinalPath(u, "spec-debt")]
<1> DEFINE debt == FinalPath(u, "spec-debt")
<1>1. "spec-debt" \in Labels /\ debt \in Paths /\ debt[1] = "spec-debt"
  BY PathsAreLabelled DEF Labels, DirLabels
<1>2. CASE u = s /\ Deferred(d) # {}
  BY <1>1, <1>2, BatchIs DEF Applied, StagedContent
<1>3. CASE ~(u = s /\ Deferred(d) # {})
  <2>1. InBatch(d, "spec-debt") => debt # FinalPath(s, "spec-debt")
    BY <1>3, BatchIs DEF FinalPath
  <2>2. Applied(s, d, t)[debt] = t[debt]
    BY <1>1, <2>1 DEF Applied
  <2> QED  BY <1>3, <2>2
<1> QED  BY <1>2, <1>3

\* A directory of debt records names exactly the deferred kinds.
LEMMA DebtNamesDeferred ==
    ASSUME NEW s \in Sessions, NEW d \in [Kinds -> AdoptDecisions], NEW k \in Kinds
    PROVE  FileIn([j \in Kinds |-> IF j \in Deferred(d) THEN s ELSE NoFile], k) = s
               <=> k \in Deferred(d)
<1> DEFINE dir == [j \in Kinds |-> IF j \in Deferred(d) THEN s ELSE NoFile]
<1>1. dir \in Directory /\ NoFile # s
  BY DistinctOrigins DEF Directory
<1>2. dir # Missing
  BY <1>1, DistinctOrigins
<1> QED  BY <1>1, <1>2 DEF FileIn

\* ... and one set of hand-off files.
LEMMA AppliedHandoffs ==
    ASSUME NEW s \in Sessions, NEW d \in [Kinds -> AdoptDecisions], NEW t \in Trees,
           NEW l \in HandoffLabels
    PROVE  /\ FinalStatus(d) = "committed" =>
                  Applied(s, d, t)[FinalPath(s, l)]
                      = [by |-> s, adopted |-> Adopted(d), deferred |-> Deferred(d)]
           /\ FinalStatus(d) # "committed" =>
                  Applied(s, d, t)[FinalPath(s, l)] = t[FinalPath(s, l)]
<1>1. l \in Labels /\ l # "contracts" /\ l # "spec-debt"
  BY DEF HandoffLabels, Labels
<1>2. FinalPath(s, l) \in Paths /\ FinalPath(s, l)[1] = l
  BY <1>1, PathsAreLabelled
<1>3. StagedContent(s, d, l, t[FinalPath(s, "contracts")])
          = [by |-> s, adopted |-> Adopted(d), deferred |-> Deferred(d)]
  BY <1>1 DEF StagedContent
<1>4. InBatch(d, l) <=> FinalStatus(d) = "committed"
  BY BatchIs
<1> QED  BY <1>2, <1>3, <1>4 DEF Applied

(* An adoption that reaches its manifest has put in place exactly its      *)
(* decisions, for any sessions, kinds, failures and crashes, as long as    *)
(* one process adopts at a time.                                           *)
THEOREM SavedAdoptionsAreComplete == Spec => []SavedIsComplete
<1>1. ASSUME TypeOK, Serial, ForwardInv, NEW s \in Sessions, pc[s] \in {"save", "audit"}
      PROVE  LET d == decisions[s]
                 contracts == FinalPath(s, "contracts") IN
             /\ \A k \in Kinds :
                    FileIn(live[contracts], k) =
                        IF k \in Adopted(d) THEN s ELSE FileIn(before[s][contracts], k)
             /\ \A u \in Sessions : LET debt == FinalPath(u, "spec-debt") IN
                    IF u = s /\ Deferred(d) # {}
                    THEN {k \in Kinds : FileIn(live[debt], k) = s} = Deferred(d)
                    ELSE live[debt] = before[s][debt]
             /\ FinalStatus(d) = "committed" =>
                    \A l \in HandoffLabels : live[FinalPath(s, l)].by = s
  <2> DEFINE d == decisions[s]
             t == before[s]
  <2>1. /\ live = Applied(s, d, t)
        /\ d \in [Kinds -> AdoptDecisions] /\ t \in Trees
    BY <1>1 DEF TypeOK, ForwardInv, Forward
  <2> HIDE DEF d, t
  <2>2. ASSUME FinalStatus(d) = "committed", NEW l \in HandoffLabels
        PROVE  live[FinalPath(s, l)].by = s
    <3>1. live[FinalPath(s, l)] = [by |-> s, adopted |-> Adopted(d), deferred |-> Deferred(d)]
      BY <2>1, <2>2, AppliedHandoffs
    <3> QED  BY <3>1
  <2>3. ASSUME NEW k \in Kinds
        PROVE  FileIn(live[FinalPath(s, "contracts")], k) =
                   IF k \in Adopted(d) THEN s ELSE FileIn(t[FinalPath(s, "contracts")], k)
    BY <2>1, AppliedContracts
  <2>4. ASSUME NEW u \in Sessions
        PROVE  IF u = s /\ Deferred(d) # {}
               THEN {k \in Kinds : FileIn(live[FinalPath(u, "spec-debt")], k) = s} = Deferred(d)
               ELSE live[FinalPath(u, "spec-debt")] = t[FinalPath(u, "spec-debt")]
    <3>1. CASE u = s /\ Deferred(d) # {}
      <4>1. live[FinalPath(u, "spec-debt")]
                = [k \in Kinds |-> IF k \in Deferred(d) THEN s ELSE NoFile]
        BY <2>1, <3>1, AppliedDebt
      <4>2. \A k \in Kinds : FileIn(live[FinalPath(u, "spec-debt")], k) = s <=> k \in Deferred(d)
        BY <2>1, <4>1, DebtNamesDeferred
      <4>3. Deferred(d) \subseteq Kinds
        BY DEF Deferred
      <4> QED  BY <3>1, <4>2, <4>3
    <3>2. CASE ~(u = s /\ Deferred(d) # {})
      BY <2>1, <3>2, AppliedDebt
    <3> QED  BY <3>1, <3>2
  <2> QED  BY <2>2, <2>3, <2>4 DEF d, t
<1>2. TypeOK /\ Cursor /\ (Serial => ForwardInv) => SavedIsComplete
  BY <1>1, Zenon DEF SavedIsComplete, Serial
<1> QED  BY <1>2, ForwardInvariance, PTL
-----------------------------------------------------------------------------
(* The adoption is atomic: rename by rename it implements AtomicAdoption.  *)

\* What the abstract specification sees while s adopts, ...
SeenDuring ==
    Caught /\ Alone => \A s \in Sessions : pc[s] # "idle" =>
        /\ AbstractTree = IF Committing(s) THEN Undone(s) ELSE live
        /\ AbstractChosen =
               [x \in Sessions |-> IF x = s /\ (pc[s] = "prepare" \/ Committing(s))
                                   THEN decisions[s] ELSE Missing]

\* ... and between adoptions.
SeenIdle ==
    Caught /\ (\A s \in Sessions : pc[s] = "idle") =>
        AbstractTree = live /\ AbstractChosen = [x \in Sessions |-> Missing]

LEMMA View == SeenDuring /\ SeenIdle
<1>1. ASSUME Caught, Alone, NEW s \in Sessions, pc[s] # "idle"
      PROVE  /\ AbstractTree = IF Committing(s) THEN Undone(s) ELSE live
             /\ AbstractChosen =
                    [x \in Sessions |-> IF x = s /\ (pc[s] = "prepare" \/ Committing(s))
                                        THEN decisions[s] ELSE Missing]
  <2>1. \A t \in Sessions : t # s => ~Committing(t) /\ pc[t] # "prepare"
    BY <1>1 DEF Alone, Committing
  <2>2. AbstractTree = IF Committing(s) THEN Undone(s) ELSE live
    <3>1. CASE Committing(s)
      <4>1. (CHOOSE t \in Sessions : Committing(t)) = s
        BY <2>1, <3>1
      <4> QED  BY <1>1, <3>1, <4>1, Zenon DEF AbstractTree
    <3>2. CASE ~Committing(s)
      BY <1>1, <2>1, <3>2, Zenon DEF AbstractTree
    <3> QED  BY <3>1, <3>2
  <2>3. AbstractChosen =
            [x \in Sessions |-> IF x = s /\ (pc[s] = "prepare" \/ Committing(s))
                                THEN decisions[s] ELSE Missing]
    BY <1>1, <2>1 DEF AbstractChosen
  <2> QED  BY <2>2, <2>3
<1>2. SeenDuring
  BY <1>1, Zenon DEF SeenDuring
<1>3. SeenIdle
  BY DEF SeenIdle, AbstractTree, AbstractChosen, Committing
<1> QED  BY <1>2, <1>3

LEMMA ViewAfter == SeenDuring' /\ SeenIdle'
BY View, PTL

\* The abstract specification speaks of the same files.
LEMMA SamePaths ==
    /\ \A u, l : Atomic!FinalPath(u, l) = FinalPath(u, l)
    /\ Atomic!Paths = Paths
<1>1. \A u, l : Atomic!FinalPath(u, l) = FinalPath(u, l)
  BY DEF Atomic!FinalPath, FinalPath
<1>2. Atomic!Paths = Paths
  BY <1>1 DEF Atomic!Paths, Paths, Atomic!Labels, Labels, Atomic!DirLabels, DirLabels,
              Atomic!HandoffLabels, HandoffLabels
<1> QED  BY <1>1, <1>2

LEMMA SameApplied ==
    ASSUME NEW s, NEW d, NEW t
    PROVE  Atomic!Applied(s, d, t) = Applied(s, d, t)
<1>1. Atomic!Adopted(d) = Adopted(d) /\ Atomic!Deferred(d) = Deferred(d)
  BY DEF Atomic!Adopted, Adopted, Atomic!Deferred, Deferred
<1>2. Atomic!Operations(d) = Operations(d)
  BY <1>1 DEF Atomic!Operations, Operations, Atomic!FinalStatus, FinalStatus,
              Atomic!Handoffs, Handoffs
<1>3. \A l : Atomic!InBatch(d, l) <=> InBatch(d, l)
  BY <1>2 DEF Atomic!InBatch, InBatch
<1>4. \A l, c : Atomic!StagedContent(s, d, l, c) = StagedContent(s, d, l, c)
  BY <1>1 DEF Atomic!StagedContent, StagedContent
<1> QED  BY <1>3, <1>4, SamePaths DEF Atomic!Applied, Applied

\* Every step of an adoption is a step of the abstract one, or none.
LEMMA StepRefines ==
    /\ TypeOK /\ Cursor /\ (Reversible => AtomicInv) /\ (Serial => ForwardInv)
    /\ TypeOK' /\ (Reversible' => AtomicInv')
    /\ [Next]_vars
    => [Atomic!ANext]_(Atomic!aVars)
<1> SUFFICES ASSUME TypeOK, Cursor, Reversible => AtomicInv, Serial => ForwardInv,
                    TypeOK', Reversible' => AtomicInv', [Next]_vars
             PROVE  [Atomic!ANext]_(Atomic!aVars)
  OBVIOUS
<1> USE DEF Goto, disk
<1>w. world' = world
  BY DEF Next, vars
<1>1. CASE ~Caught
  <2>1. ~Caught'
    BY <1>1, <1>w DEF Caught
  <2>2. AbstractTree' = AbstractTree /\ AbstractChosen' = AbstractChosen
    BY <1>1, <2>1 DEF AbstractTree, AbstractChosen, NoTree
  <2> QED  BY <2>2 DEF Atomic!aVars
<1>2. CASE UNCHANGED vars
  <2>1. AbstractTree' = AbstractTree /\ AbstractChosen' = AbstractChosen
    BY <1>2 DEF vars, AbstractTree, AbstractChosen, Caught, Committing, Undone, Moved, Ops
  <2> QED  BY <2>1 DEF Atomic!aVars
<1>3. ASSUME Caught, NEW s \in Sessions,
             \/ Start(s) \/ Prepare(s) \/ PrepareFails(s) \/ Commit(s) \/ Close(s) \/ Crash(s)
      PROVE  [Atomic!ANext]_(Atomic!aVars)
  <2> DEFINE in == pc[s] = "prepare" \/ Committing(s)
             after == pc'[s] = "prepare" \/ Committing(s)'
  <2>1. /\ Caught' /\ Reversible' /\ Reversible /\ Serial
        /\ AtomicInv /\ AtomicInv' /\ ForwardInv /\ Alone /\ Alone'
    BY <1>3, <1>w DEF Caught, Reversible, Serial, AtomicInv
  <2>2. /\ decisions[s] \in [Kinds -> AdoptDecisions] /\ decisions[s] # Missing
        /\ pc \in [Sessions -> Steps] /\ live \in Trees
    BY DistinctOrigins DEF TypeOK
  <2>3. pc[s] # "idle" =>
            /\ AbstractTree = IF Committing(s) THEN Undone(s) ELSE live
            /\ AbstractChosen =
                   [x \in Sessions |-> IF x = s /\ in THEN decisions[s] ELSE Missing]
    BY <1>3, <2>1, View DEF SeenDuring
  <2>4. pc'[s] # "idle" =>
            /\ AbstractTree' = IF Committing(s)' THEN Undone(s)' ELSE live'
            /\ AbstractChosen' =
                   [x \in Sessions |-> IF x = s /\ after THEN decisions'[s] ELSE Missing]
    BY <1>3, <2>1, ViewAfter DEF SeenDuring
  <2> HIDE DEF in, after
  <2>5. ASSUME AbstractTree' = AbstractTree, AbstractChosen' = AbstractChosen
        PROVE  [Atomic!ANext]_(Atomic!aVars)
    BY <2>5 DEF Atomic!aVars
  <2>6. ASSUME pc[s] # "idle", in, pc'[s] # "idle", ~after, AbstractTree' = AbstractTree
        PROVE  [Atomic!ANext]_(Atomic!aVars)
    <3>1. AbstractChosen[s] # Missing
          /\ AbstractChosen' = [AbstractChosen EXCEPT ![s] = Missing]
      BY <2>2, <2>3, <2>4, <2>6
    <3>2. Atomic!GiveUp(s)
      BY <2>6, <3>1 DEF Atomic!GiveUp
    <3> QED  BY <3>2 DEF Atomic!ANext
  <2>7. CASE Start(s)
    <3>1. /\ live' = live /\ pc'[s] = "prepare" /\ decisions'[s] \in [Kinds -> AdoptDecisions]
          /\ \A t \in Sessions : pc[t] = "idle"
      BY <2>1, <2>7 DEF Start, Serial, TypeOK
    <3>2. AbstractTree = live /\ AbstractChosen = [x \in Sessions |-> Missing]
      BY <1>3, <3>1, View DEF SeenIdle
    <3>3. /\ AbstractTree' = AbstractTree
          /\ AbstractChosen' = [AbstractChosen EXCEPT ![s] = decisions'[s]]
          /\ AbstractChosen[s] = Missing
      BY <2>4, <3>1, <3>2 DEF Committing, after
    <3>4. Atomic!Choose(s, decisions'[s])
      BY <3>3 DEF Atomic!Choose
    <3>5. Atomic!AdoptDecisions = AdoptDecisions
      BY DEF Atomic!AdoptDecisions, AdoptDecisions
    <3> QED  BY <3>1, <3>4, <3>5 DEF Atomic!ANext
  <2>8. CASE Prepare(s) /\ Ops(s) # <<>>
    <3>1. /\ pc[s] = "prepare" /\ pc'[s] = "look" /\ live' = live /\ UNCHANGED <<decisions, before>>
      BY <2>2, <2>8 DEF Prepare
    <3>2. live = before[s] /\ Undone(s)' = before'[s]
      BY <2>1, <3>1 DEF AtomicInv, Journal, Committing
    <3>3. in /\ after /\ ~Committing(s) /\ Committing(s)'
      BY <3>1 DEF in, after, Committing
    <3>4. AbstractTree' = AbstractTree /\ AbstractChosen' = AbstractChosen
      BY <2>3, <2>4, <3>1, <3>2, <3>3
    <3> QED  BY <2>5, <3>4
  <2>9. CASE (Prepare(s) /\ Ops(s) = <<>>) \/ PrepareFails(s)
    <3>1. pc[s] = "prepare" /\ pc'[s] \in {"save", "abandon"} /\ live' = live
      BY <2>2, <2>9 DEF Prepare, PrepareFails
    <3>2. in /\ ~after /\ ~Committing(s) /\ ~Committing(s)'
      BY <3>1 DEF in, after, Committing
    <3>3. AbstractTree' = AbstractTree
      BY <2>3, <2>4, <3>1, <3>2
    <3> QED  BY <2>6, <3>1, <3>2, <3>3
  <2>10. ASSUME Committing(s), Committing(s)', UNCHANGED <<decisions, before>>
         PROVE  [Atomic!ANext]_(Atomic!aVars)
    <3>1. Undone(s) = before[s] /\ Undone(s)' = before'[s]
      BY <2>1, <2>10 DEF AtomicInv, Journal
    <3>2. in /\ after /\ pc[s] # "idle" /\ pc'[s] # "idle"
      BY <2>10 DEF in, after, Committing
    <3>3. AbstractTree' = AbstractTree /\ AbstractChosen' = AbstractChosen
      BY <2>3, <2>4, <2>10, <3>1, <3>2
    <3> QED  BY <2>5, <3>3
  <2>11. CASE \/ Look(s) \/ MkdirFails(s) \/ Backup(s) \/ BackupFails(s) \/ Install(s)
              \/ InstallFails(s) \/ Repair(s) \/ Advance(s) \/ InjectedFailure(s)
    <3>1. pc[s] \in {"look", "backup", "install", "installed", "repair"}
          /\ UNCHANGED <<decisions, before>>
          /\ \E step \in {"look", "backup", "install", "installed", "repair", "rollback",
                          "cleanup"} : pc' = [pc EXCEPT ![s] = step]
      BY <2>11 DEF Look, MkdirFails, Backup, BackupFails, Install, InstallFails, Repair, Advance,
                   InjectedFailure
    <3>2. Committing(s) /\ Committing(s)'
      BY <2>2, <3>1 DEF Committing
    <3> QED  BY <2>10, <3>1, <3>2
  <2>12. CASE Rollback(s) /\ done[s] # 0
    <3>1. pc[s] = "rollback" /\ UNCHANGED <<pc, decisions, before>>
      BY <2>12 DEF Rollback
    <3>2. Committing(s) /\ Committing(s)'
      BY <3>1 DEF Committing
    <3> QED  BY <2>10, <3>1, <3>2
  <2>13. CASE Rollback(s) /\ done[s] = 0
    <3>1. pc[s] = "rollback" /\ pc'[s] = "abandon" /\ live' = live
      BY <2>2, <2>13 DEF Rollback
    <3>2. Moved(s) = {}
      BY <2>13, <3>1 DEF Moved
    <3>3. Undone(s) = live
      BY <2>2, <3>2, UndoneNothing DEF Undone
    <3>4. in /\ ~after /\ Committing(s) /\ ~Committing(s)'
      BY <3>1 DEF in, after, Committing
    <3>5. AbstractTree' = AbstractTree
      BY <2>3, <2>4, <3>1, <3>3, <3>4
    <3> QED  BY <2>6, <3>1, <3>4, <3>5
  <2>14. CASE Cleanup(s)
    <3>1. pc[s] = "cleanup" /\ pc'[s] = "save" /\ live' = live
      BY <2>2, <2>14 DEF Cleanup
    <3>2. in /\ ~after /\ Committing(s) /\ ~Committing(s)'
      BY <3>1 DEF in, after, Committing
    <3>3. Undone(s) = before[s] /\ live = Applied(s, decisions[s], before[s])
      BY <2>1, <3>1, <3>2, CompleteBatch DEF AtomicInv, Journal, ForwardInv
    <3>4. AbstractTree = before[s] /\ AbstractTree' = Applied(s, decisions[s], before[s])
      BY <2>3, <2>4, <3>1, <3>2, <3>3
    <3>5. AbstractChosen[s] = decisions[s]
          /\ AbstractChosen' = [AbstractChosen EXCEPT ![s] = Missing]
      BY <2>3, <2>4, <3>1, <3>2
    <3>6. AbstractTree' = Atomic!Applied(s, AbstractChosen[s], AbstractTree)
      BY <3>4, <3>5, SameApplied
    <3>7. Atomic!ApplyBatch(s)
      BY <2>2, <3>5, <3>6 DEF Atomic!ApplyBatch
    <3> QED  BY <3>7 DEF Atomic!ANext
  <2>15. CASE Save(s) \/ SaveFails(s) \/ Audit(s) \/ AuditFails(s)
    <3>1. pc[s] \in {"save", "audit"} /\ pc'[s] \in {"audit", "abandon"} /\ live' = live
      BY <2>2, <2>15 DEF Save, SaveFails, Audit, AuditFails
    <3>2. ~in /\ ~after /\ ~Committing(s) /\ ~Committing(s)'
      BY <3>1 DEF in, after, Committing
    <3>3. AbstractTree' = AbstractTree /\ AbstractChosen' = AbstractChosen
      BY <2>3, <2>4, <3>1, <3>2
    <3> QED  BY <2>5, <3>3
  <2>16. CASE Return(s) \/ Abandon(s)
    <3>1. pc[s] \in {"audit", "abandon"} /\ pc' = [pc EXCEPT ![s] = "idle"] /\ live' = live
      BY <2>2, <2>16 DEF Return, Abandon, Exit
    <3>2. \A t \in Sessions : pc'[t] = "idle"
      BY <2>1, <2>2, <3>1 DEF Alone
    <3>3. AbstractTree' = live' /\ AbstractChosen' = [x \in Sessions |-> Missing]
      BY <2>1, <3>2, ViewAfter DEF SeenIdle
    <3>4. ~in /\ ~Committing(s)
      BY <3>1 DEF in, Committing
    <3>5. AbstractTree' = AbstractTree /\ AbstractChosen' = AbstractChosen
      BY <2>3, <3>1, <3>3, <3>4
    <3> QED  BY <2>5, <3>5
  <2>17. CASE CleanupFails(s) \/ RollbackFails(s) \/ Crash(s)
    BY <1>3, <2>17 DEF CleanupFails, RollbackFails, Crash, Caught
  <2> QED
    BY <1>3, <2>7, <2>8, <2>9, <2>11, <2>12, <2>13, <2>14, <2>15, <2>16, <2>17 DEF Commit, Close
<1> QED  BY <1>1, <1>2, <1>3 DEF Next

LEMMA InitRefines == Init => Atomic!AInit
<1> SUFFICES ASSUME Init PROVE Atomic!AInit
  OBVIOUS
<1>1. live \in Trees /\ NoTree \in Trees
  BY InitTyped DEF TypeOK, NoTree, Trees, Content, ContentOf
<1>2. Atomic!Trees = Trees
  BY SamePaths DEF Atomic!Trees, Trees, Atomic!Content, Content, Atomic!ContentOf, ContentOf,
     Atomic!DirLabels, DirLabels, Atomic!Directory, Directory, Atomic!Handoff, Handoff
<1>3. \A s \in Sessions : pc[s] = "idle"
  BY DEF Init
<1>4. CASE Caught
  BY <1>1, <1>2, <1>3, <1>4, View DEF SeenIdle, Atomic!AInit
<1>5. CASE ~Caught
  BY <1>1, <1>2, <1>5 DEF AbstractTree, AbstractChosen, Atomic!AInit
<1> QED  BY <1>4, <1>5

(* Every behaviour of the rename-by-rename adoption in which only calls    *)
(* throw is a behaviour of the one-step adoption.                          *)
THEOREM AdoptionIsAtomic == Spec => ImplementsAtomic
<1>1. Init => Atomic!AInit
  BY InitRefines
<1>2. Spec => [](TypeOK /\ Cursor /\ (Reversible => AtomicInv) /\ (Serial => ForwardInv))
  BY AtomicInvariance, ForwardInvariance, PTL
<1> QED  BY <1>1, <1>2, StepRefines, PTL DEF Spec, ImplementsAtomic, Atomic!ASpec
-----------------------------------------------------------------------------
(* Between adoptions the hand-off files agree: a batch replaces all of     *)
(* them together with what they describe, or nothing.                      *)

Consistent(t) ==
    \A l \in HandoffLabels :
        LET h == t[<<l, Base>>] IN
        /\ \A m \in HandoffLabels : t[<<m, Base>>] = h
        /\ h # Missing =>
             /\ \A k \in h.adopted : FileIn(t[<<"contracts", Base>>], k) = h.by
             /\ \A k \in h.deferred : FileIn(t[<<"spec-debt", h.by>>], k) = h.by

LEMMA AppliedIsConsistent ==
    ASSUME NEW s \in Sessions, NEW d \in [Kinds -> AdoptDecisions], NEW t \in Trees,
           Consistent(t)
    PROVE  Consistent(Applied(s, d, t))
<1> DEFINE a == Applied(s, d, t)
           h == [by |-> s, adopted |-> Adopted(d), deferred |-> Deferred(d)]
<1>p. /\ \A l \in HandoffLabels : FinalPath(s, l) = <<l, Base>>
      /\ FinalPath(s, "contracts") = <<"contracts", Base>>
      /\ FinalPath(s, "spec-debt") = <<"spec-debt", s>>
  BY DEF FinalPath, HandoffLabels
<1>1. CASE FinalStatus(d) = "committed"
  <2>1. \A l \in HandoffLabels : a[<<l, Base>>] = h
    BY <1>1, <1>p, AppliedHandoffs
  <2>2. ASSUME NEW k \in h.adopted
        PROVE  FileIn(a[<<"contracts", Base>>], k) = h.by
    <3>1. k \in Kinds /\ k \in Adopted(d)
      BY <2>2 DEF Adopted
    <3> QED  BY <1>p, <3>1, AppliedContracts
  <2>3. ASSUME NEW k \in h.deferred
        PROVE  FileIn(a[<<"spec-debt", h.by>>], k) = h.by
    <3>1. k \in Kinds /\ k \in Deferred(d)
      BY <2>3 DEF Deferred
    <3>2. a[<<"spec-debt", s>>] = [j \in Kinds |-> IF j \in Deferred(d) THEN s ELSE NoFile]
      BY <1>p, <3>1, AppliedDebt
    <3>3. FileIn(a[<<"spec-debt", s>>], k) = s
      BY <3>1, <3>2, DebtNamesDeferred
    <3> QED  BY <3>3
  <2> HIDE DEF a, h
  <2>4. Consistent(a)
    BY <2>1, <2>2, <2>3 DEF Consistent
  <2> QED  BY <2>4 DEF a
<1>2. CASE FinalStatus(d) # "committed"
  <2>1. Adopted(d) = {} /\ Deferred(d) = {}
    BY <1>2 DEF FinalStatus
  <2>2. Operations(d) = <<>> \o <<>> \o <<>>
    BY <1>2, <2>1 DEF Operations
  <2>3. \A l : ~InBatch(d, l)
    BY <2>2 DEF InBatch
  <2>4. a = t
    BY <2>3 DEF Applied, Trees
  <2> QED  BY <2>4
<1> QED  BY <1>1, <1>2

LEMMA StepConsistent ==
    /\ TypeOK /\ (Reversible => AtomicInv)
    /\ [Atomic!ANext]_(Atomic!aVars)
    /\ Caught /\ Consistent(AbstractTree)
    => Consistent(AbstractTree')
<1> SUFFICES ASSUME TypeOK, Reversible => AtomicInv, [Atomic!ANext]_(Atomic!aVars),
                    Caught, Consistent(AbstractTree)
             PROVE  Consistent(AbstractTree')
  OBVIOUS
<1>1. CASE AbstractTree' = AbstractTree
  BY <1>1
<1>2. ASSUME NEW s \in Sessions, Atomic!ApplyBatch(s)
      PROVE  Consistent(AbstractTree')
  <2>1. AbstractChosen[s] # Missing
        /\ AbstractTree' = Applied(s, AbstractChosen[s], AbstractTree)
    BY <1>2, SameApplied DEF Atomic!ApplyBatch
  <2>2. (pc[s] = "prepare" \/ Committing(s)) /\ AbstractChosen[s] = decisions[s]
    BY <2>1 DEF AbstractChosen
  <2>3. pc[s] # "idle" /\ AtomicInv /\ Alone
    BY <2>2, UndoReverses DEF Committing, AtomicInv
  <2>4. AbstractTree = IF Committing(s) THEN Undone(s) ELSE live
    BY <2>3, View DEF SeenDuring
  <2>5. AbstractTree \in Trees /\ decisions[s] \in [Kinds -> AdoptDecisions]
    BY <2>3, <2>4 DEF AtomicInv, Journal, TypeOK
  <2> QED  BY <2>1, <2>2, <2>5, AppliedIsConsistent
<1> QED  BY <1>1, <1>2 DEF Atomic!ANext, Atomic!aVars, Atomic!Choose, Atomic!GiveUp

(* Whatever calls throw, the hand-off files on disk between two adoptions  *)
(* agree with each other, the contracts and the debt records.              *)
THEOREM HandoffsAgree == Spec => []HandoffConsistent
<1> DEFINE Base0 == /\ TypeOK /\ Cursor
                    /\ (Reversible => AtomicInv) /\ (Serial => ForwardInv)
           Inv == Caught => Consistent(AbstractTree)
<1>1. Spec => []Base0
  BY AtomicInvariance, ForwardInvariance, PTL
<1>2. Init => Inv
  <2> SUFFICES ASSUME Init, Caught PROVE Consistent(AbstractTree)
    OBVIOUS
  <2>1. AbstractTree = live
    BY View DEF Init, SeenIdle
  <2>2. PICK contracts : live = [p \in Paths |-> IF p[1] = "contracts" THEN contracts ELSE Missing]
    BY DEF Init
  <2>3. ASSUME NEW l \in HandoffLabels
        PROVE  live[<<l, Base>>] = Missing
    <3>1. PICK s \in Sessions : TRUE
      BY SomeSession
    <3>2. <<l, Base>> = FinalPath(s, l) /\ l \in Labels /\ l # "contracts"
      BY DEF FinalPath, HandoffLabels, Labels
    <3> QED  BY <2>2, <3>1, <3>2, PathsAreLabelled
  <2> QED  BY <2>1, <2>3 DEF Consistent
<1>3. Base0 /\ Base0' /\ Inv /\ [Next]_vars => Inv'
  <2>1. [Next]_vars /\ Caught' => Caught
    BY DEF Next, vars, Caught
  <2> QED  BY <2>1, StepRefines, StepConsistent DEF Consistent, FileIn
<1>4. Base0 /\ Inv => HandoffConsistent
  <2>1. Caught /\ (\A s \in Sessions : pc[s] = "idle") => AbstractTree = live
    BY View DEF SeenIdle
  <2> QED  BY <2>1 DEF HandoffConsistent, Consistent
<1> QED  BY <1>1, <1>2, <1>3, <1>4, PTL DEF Spec
-----------------------------------------------------------------------------
(* At every instant a contract is live or in a backup, except when a       *)
(* crashed session is adopted again.                                       *)

LEMMA StepKeeps ==
    ASSUME TypeOK, Cursor, AtomicInv, ForwardInv, AtomicInv', [Next]_vars, Restorable,
           NEW k \in Kinds, Kept(k),
           \A s \in Sessions :
               pc[s] # "idle" => FileIn(before[s][<<"contracts", Base>>], k) # NoFile
    PROVE  Kept(k)' \/ \E s \in Sessions : pc[s] = "prepare" /\ pc'[s] # "prepare"
<1> DEFINE C == <<"contracts", Base>>
<1> USE DEF Goto, disk
<1>p. \A s \in Sessions : /\ FinalPath(s, "contracts") = C
                          /\ C \in Paths /\ C[1] = "contracts" /\ "contracts" \in Labels
  BY PathsAreLabelled DEF FinalPath, Labels, DirLabels
<1> HIDE DEF C
<1>1. ASSUME live' = live, backup' = backup
      PROVE  Kept(k)'
  BY <1>1 DEF Kept
<1>2. ASSUME NEW s \in Sessions, pc[s] # "idle", Committing(s)', before' = before
      PROVE  Kept(k)'
  <2>1. Undone(s)' = before[s]
    BY <1>2 DEF AtomicInv, Journal
  <2>2. Undone(s)'[C] = backup'[s]["contracts"] \/ Undone(s)'[C] = live'[C]
    BY <1>p DEF Undone, UndoneBy
  <2>3. FileIn(before[s][C], k) # NoFile
    BY <1>2 DEF C
  <2>4. CASE Undone(s)'[C] = backup'[s]["contracts"]
    <3>1. FileIn(backup'[s]["contracts"], k) # NoFile
      BY <2>1, <2>3, <2>4
    <3> QED  BY <3>1 DEF Kept
  <2>5. CASE Undone(s)'[C] = live'[C]
    <3>1. FileIn(live'[C], k) # NoFile
      BY <2>1, <2>3, <2>5
    <3> QED  BY <3>1 DEF Kept, C
  <2> QED  BY <2>2, <2>4, <2>5
<1>3. ASSUME NEW s \in Sessions, Prepare(s) \/ PrepareFails(s)
      PROVE  pc[s] = "prepare" /\ pc'[s] # "prepare"
  BY <1>3 DEF Prepare, PrepareFails, TypeOK
<1>4. ASSUME NEW s \in Sessions,
             \/ Look(s) \/ MkdirFails(s) \/ Backup(s) \/ BackupFails(s) \/ Install(s)
             \/ InstallFails(s) \/ Repair(s) \/ Advance(s) \/ InjectedFailure(s)
             \/ (Rollback(s) /\ done[s] # 0)
      PROVE  Kept(k)'
  <2>1. pc[s] # "idle" /\ before' = before
        /\ \E step \in {"look", "backup", "install", "installed", "repair", "rollback",
                        "cleanup"} : pc' = [pc EXCEPT ![s] = step]
    BY <1>4 DEF Look, MkdirFails, Backup, BackupFails, Install, InstallFails, Repair, Advance,
                InjectedFailure, Rollback, TypeOK
  <2>2. Committing(s)'
    BY <2>1 DEF Committing, TypeOK
  <2> QED  BY <1>2, <2>1, <2>2
<1>5. ASSUME NEW s \in Sessions, Cleanup(s)
      PROVE  Kept(k)'
  <2>1. live' = live /\ live = Applied(s, decisions[s], before[s]) /\ pc[s] = "cleanup"
        /\ decisions[s] \in [Kinds -> AdoptDecisions] /\ before[s] \in Trees
    BY <1>5, CompleteBatch DEF Cleanup, ForwardInv, TypeOK
  <2>2. FileIn(live[C], k) = IF k \in Adopted(decisions[s]) THEN s ELSE FileIn(before[s][C], k)
    BY <1>p, <2>1, AppliedContracts
  <2>3. FileIn(live'[C], k) # NoFile
    BY <2>1, <2>2, DistinctOrigins DEF C
  <2> QED  BY <2>3 DEF Kept, C
<1>6. ASSUME NEW s \in Sessions,
             \/ Start(s)
             \/ (Rollback(s) /\ done[s] = 0)
             \/ Save(s) \/ SaveFails(s) \/ Audit(s) \/ AuditFails(s) \/ Return(s) \/ Abandon(s)
             \/ Crash(s)
      PROVE  Kept(k)'
  BY <1>1, <1>6 DEF Start, Rollback, Save, SaveFails, Audit, AuditFails, Return, Abandon, Crash
<1>7. ASSUME NEW s \in Sessions, CleanupFails(s) \/ RollbackFails(s)
      PROVE  FALSE
  BY <1>7 DEF CleanupFails, RollbackFails, Restorable, Undoable
<1>8. CASE UNCHANGED vars
  BY <1>1, <1>8 DEF vars
<1>9. ASSUME NEW s \in Sessions, Commit(s)
      PROVE  Kept(k)'
  BY <1>4, <1>5, <1>6, <1>7, <1>9 DEF Commit
<1>10. ASSUME NEW s \in Sessions, Start(s) \/ Close(s) \/ Crash(s)
       PROVE  Kept(k)'
  BY <1>6, <1>10 DEF Close
<1> QED  BY <1>3, <1>8, <1>9, <1>10 DEF Next

(* A contract that was there when the adoptions in progress began stays on *)
(* disk, live or as a backup, at every instant: for any kinds, crashes and *)
(* failures the undo is written for, only a re-run can discard it.         *)
THEOREM ContractsAreKept == Spec => OnlyRerunDiscards
<1> DEFINE Inv == /\ TypeOK /\ Cursor
                  /\ (Reversible => AtomicInv) /\ (Serial => ForwardInv)
<1>1. Spec => []Inv
  BY AtomicInvariance, ForwardInvariance, PTL
<1>2. Inv /\ Inv' /\ [Next]_vars =>
          [Restorable => \A k \in Kinds :
              (/\ Kept(k)
               /\ \A s \in Sessions :
                      pc[s] # "idle" => FileIn(before[s][<<"contracts", Base>>], k) # NoFile)
              => Kept(k)' \/ \E s \in Sessions : pc[s] = "prepare" /\ pc'[s] # "prepare"]_vars
  <2>1. [Next]_vars /\ Restorable => /\ Reversible /\ Serial /\ Reversible'
    BY UndoReverses DEF Next, vars, Restorable, Reversible, Serial
  <2> QED  BY <2>1, StepKeeps
<1> QED  BY <1>1, <1>2, PTL DEF Spec, OnlyRerunDiscards
-----------------------------------------------------------------------------
(* Several processes at once: what each does to its own spec-debt          *)
(* directory, which no other process writes.                               *)

Debt == "spec-debt"
DebtPath(s) == <<Debt, s>>
DebtRecord(s) == [k \in Kinds |-> IF k \in Deferred(decisions[s]) THEN s ELSE NoFile]

OwnDebt(s) ==
    /\ pc[s] \in {"prepare", "abandon"} => live[DebtPath(s)] = before[s][DebtPath(s)]
    /\ Committing(s) =>
           (IF Debt \in Moved(s) THEN backup[s][Debt] ELSE live[DebtPath(s)])
               = before[s][DebtPath(s)]
    /\ Committing(s) /\ Debt \notin Moved(s) => backup[s][Debt] = Missing
    /\ pc[s] = "backup" /\ Current(s) = Debt => live[DebtPath(s)] # Missing
    /\ pc[s] = "cleanup" => done[s] = Len(Ops(s))
    /\ pc[s] \in Onward =>
           /\ InBatch(decisions[s], Debt) /\ Debt \notin Installed(s) =>
                  staged[s][Debt] = DebtRecord(s)
           /\ Debt \in Installed(s) => live[DebtPath(s)] = DebtRecord(s)
    /\ pc[s] \in {"save", "audit"} =>
           live[DebtPath(s)] = IF InBatch(decisions[s], Debt) THEN DebtRecord(s)
                               ELSE before[s][DebtPath(s)]

LEMMA DebtPaths ==
    /\ Debt \in Labels
    /\ \A s \in Sessions : DebtPath(s) \in Paths /\ FinalPath(s, Debt) = DebtPath(s)
    /\ \A s, t \in Sessions, l \in Labels :
           FinalPath(t, l) = DebtPath(s) <=> t = s /\ l = Debt
BY PathsAreLabelled DEF Debt, DebtPath, FinalPath, Labels, DirLabels

\* A process writes no other session's debt.
LEMMA OthersDebt ==
    ASSUME TypeOK, Cursor, NEW s \in Sessions, NEW t \in Sessions, t # s,
           \/ Start(t) \/ Prepare(t) \/ PrepareFails(t) \/ Commit(t) \/ Close(t) \/ Crash(t),
           OwnDebt(s)
    PROVE  OwnDebt(s)'
<1> USE DEF Goto, disk
<1>1. /\ pc'[s] = pc[s] /\ done'[s] = done[s] /\ decisions'[s] = decisions[s]
      /\ before'[s] = before[s] /\ staged'[s] = staged[s] /\ backup'[s] = backup[s]
  <2>1. CASE Start(t) \/ Prepare(t) \/ PrepareFails(t)
    BY <2>1 DEF Start, Prepare, PrepareFails, TypeOK
  <2>2. CASE Commit(t)
    <3>1. CASE Rollback(t) \/ RollbackFails(t) \/ CleanupFails(t) \/ Cleanup(t) \/ Repair(t)
      BY <3>1 DEF Rollback, RollbackFails, CleanupFails, Cleanup, Repair, TypeOK
    <3>2. CASE \/ Look(t) \/ MkdirFails(t) \/ Backup(t) \/ BackupFails(t) \/ Install(t)
               \/ InstallFails(t) \/ Advance(t) \/ InjectedFailure(t)
      BY <3>2 DEF Look, MkdirFails, Backup, BackupFails, Install, InstallFails, Advance,
                  InjectedFailure, TypeOK
    <3> QED  BY <2>2, <3>1, <3>2 DEF Commit
  <2>3. CASE Close(t) \/ Crash(t)
    BY <2>3 DEF Close, Save, SaveFails, Audit, AuditFails, Return, Abandon, Crash, Exit, TypeOK
  <2> QED  BY <2>1, <2>2, <2>3
<1>2. live'[DebtPath(s)] = live[DebtPath(s)]
  <2>1. \/ live' = live
        \/ \E l \in Labels : \E c : live' = [live EXCEPT ![FinalPath(t, l)] = c]
    <3>1. CASE Backup(t) \/ Install(t) \/ Repair(t)
      <4>1. CurrentPath(t) = FinalPath(t, Current(t)) /\ Current(t) \in Labels
        BY <3>1, CurrentIsLabel DEF Backup, Install, Repair
      <4> QED  BY <3>1, <4>1 DEF Backup, Install, Repair
    <3>2. CASE (Rollback(t) /\ done[t] # 0) \/ RollbackFails(t)
      <4>1. Ops(t)[done[t]] \in Labels
        <5>1. Ops(t) \in Seq(Labels)
          BY OperationsAreLabels DEF Ops, TypeOK
        <5>2. done[t] \in 0..Len(Ops(t)) /\ done[t] # 0
          BY <3>2 DEF Cursor, RollbackFails
        <5> QED  BY <5>1, <5>2
      <4> QED  BY <3>2, <4>1 DEF Rollback, RollbackFails
    <3>3. CASE ~(\/ Backup(t) \/ Install(t) \/ Repair(t)
                 \/ (Rollback(t) /\ done[t] # 0) \/ RollbackFails(t))
      BY <3>3 DEF Start, Prepare, PrepareFails, Commit, Close, Crash, Look, MkdirFails,
                  BackupFails, InstallFails, Advance, InjectedFailure, Cleanup, CleanupFails,
                  Rollback, Save, SaveFails, Audit, AuditFails, Return, Abandon
    <3> QED  BY <3>1, <3>2, <3>3
  <2>2. \A l \in Labels : FinalPath(t, l) # DebtPath(s)
    BY DebtPaths
  <2> QED  BY <2>1, <2>2, DebtPaths DEF TypeOK, Trees
<1>3. /\ Moved(s)' = Moved(s) /\ Installed(s)' = Installed(s) /\ Ops(s)' = Ops(s)
      /\ Current(s)' = Current(s) /\ DebtRecord(s)' = DebtRecord(s)
  BY <1>1 DEF Moved, Installed, Ops, Current, DebtRecord
<1> QED  BY <1>1, <1>2, <1>3 DEF OwnDebt, Committing, Onward

\* What a process does to its own debt.
LEMMA StepOwnDebt ==
    ASSUME Undoable, TypeOK, Cursor, TypeOK', Cursor', NEW s \in Sessions,
           \/ Start(s) \/ Prepare(s) \/ PrepareFails(s) \/ Commit(s) \/ Close(s) \/ Crash(s),
           OwnDebt(s)
    PROVE  OwnDebt(s)'
<1> USE DEF Goto, disk
<1>s. /\ decisions[s] \in [Kinds -> AdoptDecisions] /\ done[s] \in Nat /\ pc[s] \in Steps
      /\ staged[s] \in Shelves /\ backup[s] \in Shelves /\ live \in Trees /\ before[s] \in Trees
  BY DEF TypeOK
<1>d. /\ Debt \in Labels /\ DebtPath(s) \in Paths /\ FinalPath(s, Debt) = DebtPath(s)
      /\ \A l \in Labels : FinalPath(s, l) = DebtPath(s) <=> l = Debt
  BY DebtPaths
<1>b. InBatch(decisions[s], Debt) <=> \E i \in 1..Len(Ops(s)) : Ops(s)[i] = Debt
  BY DEF InBatch, Ops
\* A step of the commit that leaves the tree, the backups and what was moved.
<1>q. ASSUME UNCHANGED <<live, staged, backup, decisions, done, before>>,
             Committing(s), Committing(s)', Moved(s)' = Moved(s),
             pc'[s] \in Onward => pc[s] \in Onward,
             pc'[s] = "backup" => live[CurrentPath(s)] # Missing /\ pc[s] = "look",
             pc'[s] = "cleanup" => done[s] = Len(Ops(s))
      PROVE  OwnDebt(s)'
  <2>1. /\ Installed(s)' = Installed(s) /\ DebtRecord(s)' = DebtRecord(s) /\ Ops(s)' = Ops(s)
        /\ Current(s)' = Current(s)
    BY <1>q DEF Installed, DebtRecord, Ops, Current
  <2>2. pc'[s] = "backup" /\ Current(s) = Debt => live[DebtPath(s)] # Missing
    BY <1>q, <1>d DEF CurrentPath
  <2>3. pc'[s] \notin {"prepare", "abandon", "save", "audit"}
    BY <1>q DEF Committing
  <2> QED  BY <1>q, <2>1, <2>2, <2>3 DEF OwnDebt
<1>1. CASE Start(s)
  <2>1. pc'[s] = "prepare" /\ live' = before'[s]
    BY <1>1 DEF Start, TypeOK
  <2> QED  BY <2>1 DEF OwnDebt, Committing, Onward
<1>2. CASE Prepare(s)
  <2>1. /\ live' = live /\ UNCHANGED <<before, decisions, done>> /\ done[s] = 0
        /\ pc[s] = "prepare" /\ pc'[s] = IF Ops(s) = <<>> THEN "save" ELSE "look"
        /\ backup'[s] = Nothing
    BY <1>2 DEF Prepare, Cursor, TypeOK
  <2>2. live[DebtPath(s)] = before[s][DebtPath(s)]
    BY <2>1 DEF OwnDebt
  <2>3. InBatch(decisions[s], Debt) => staged'[s][Debt] = DebtRecord(s)
    <3>1. \A c : StagedContent(s, decisions[s], Debt, c) = DebtRecord(s)
      BY DEF StagedContent, Debt, DebtRecord
    <3> QED  BY <1>2, <1>d, <3>1 DEF Prepare, TypeOK
  <2>4. /\ DebtRecord(s)' = DebtRecord(s)
        /\ pc'[s] = "look" => Installed(s)' = {} /\ Moved(s)' = {}
    BY <2>1 DEF DebtRecord, Installed, Moved
  <2>5. CASE Ops(s) = <<>>
    BY <1>b, <2>1, <2>2, <2>5 DEF OwnDebt, Committing, Onward
  <2>6. CASE Ops(s) # <<>>
    BY <1>d, <2>1, <2>2, <2>3, <2>4, <2>6 DEF OwnDebt, Committing, Onward, Nothing
  <2> QED  BY <2>5, <2>6
<1>3. CASE PrepareFails(s)
  BY <1>3 DEF PrepareFails, TypeOK, OwnDebt, Committing, Onward
<1>4. CASE MkdirFails(s) \/ InjectedFailure(s) \/ Advance(s)
  <2>1. /\ UNCHANGED <<live, staged, backup, decisions, done, before>>
        /\ pc[s] \in {"look", "installed"} /\ pc'[s] \in {"rollback", "cleanup", "look"}
        /\ pc'[s] = "cleanup" => done[s] = Len(Ops(s))
    BY <1>4 DEF MkdirFails, InjectedFailure, Advance, TypeOK
  <2>2. Moved(s)' = Moved(s)
    BY <2>1 DEF Moved, Ops
  <2> QED  BY <1>q, <2>1, <2>2 DEF Committing, Onward
<1>5. CASE InstallFails(s)
  <2>1. /\ UNCHANGED <<live, staged, backup, decisions, done, before>>
        /\ pc[s] = "install" /\ pc'[s] = "repair"
    BY <1>5 DEF InstallFails, TypeOK
  <2>2. Moved(s)' = Moved(s)
    BY <2>1 DEF Moved, Ops
  <2> QED  BY <1>q, <2>1, <2>2 DEF Committing, Onward
<1>6. CASE Look(s) /\ live[CurrentPath(s)] # Missing
  <2>1. /\ UNCHANGED <<live, staged, backup, decisions, done, before>>
        /\ pc[s] = "look" /\ pc'[s] = "backup"
    BY <1>6 DEF Look, TypeOK
  <2>2. Moved(s)' = Moved(s)
    BY <2>1 DEF Moved, Ops
  <2> QED  BY <1>6, <1>q, <2>1, <2>2 DEF Committing, Onward
<1>7. CASE (Look(s) /\ live[CurrentPath(s)] = Missing) \/ BackupFails(s)
  <2>1. /\ UNCHANGED <<live, staged, backup, decisions, done, before>>
        /\ pc[s] \in {"look", "backup"} /\ pc'[s] \in {"install", "repair"}
        /\ pc[s] = "look" => live[CurrentPath(s)] = Missing
        /\ pc[s] = "backup" => live[CurrentPath(s)] = Missing
    BY <1>7 DEF Look, BackupFails, Undoable, TypeOK
  <2>2. /\ Moved(s)' = Moved(s) \cup {Current(s)} /\ Installed(s)' = Installed(s)
        /\ Current(s) \notin Moved(s) /\ Current(s) \in Labels
        /\ DebtRecord(s)' = DebtRecord(s)
    <3>1. Moved(s)' = {Ops(s)[i] : i \in 1..(done[s] + 1)}
      BY <2>1 DEF Moved, Ops
    <3> QED  BY <2>1, <3>1, MovedBefore DEF Installed, DebtRecord, Ops
  <2>3. Current(s) = Debt => live[DebtPath(s)] = Missing /\ backup[s][Debt] = Missing
    BY <1>d, <2>1, <2>2 DEF OwnDebt, Committing, CurrentPath
  <2>4. /\ Committing(s) /\ Committing(s)' /\ pc[s] \in Onward
        /\ pc'[s] \notin {"prepare", "abandon", "backup", "cleanup", "save", "audit"}
    BY <2>1 DEF Committing, Onward
  <2>5. (IF Debt \in Moved(s)' THEN backup'[s][Debt] ELSE live'[DebtPath(s)])
            = before'[s][DebtPath(s)]
    BY <2>1, <2>2, <2>3, <2>4 DEF OwnDebt
  <2> QED  BY <2>1, <2>2, <2>4, <2>5 DEF OwnDebt
<1>8. CASE Backup(s)
  <2> DEFINE c == Current(s)
  <2>1. /\ UNCHANGED <<staged, decisions, done, before>>
        /\ pc[s] = "backup" /\ pc'[s] = "install"
        /\ live' = [live EXCEPT ![FinalPath(s, c)] = Missing]
        /\ backup'[s] = [backup[s] EXCEPT ![c] = live[FinalPath(s, c)]]
    BY <1>8 DEF Backup, CurrentPath, TypeOK
  <2>2. /\ Moved(s)' = Moved(s) \cup {c} /\ Installed(s)' = Installed(s)
        /\ c \notin Moved(s) /\ c \in Labels /\ Moved(s) = Installed(s)
        /\ DebtRecord(s)' = DebtRecord(s)
    <3>1. Moved(s)' = {Ops(s)[i] : i \in 1..(done[s] + 1)}
      BY <2>1 DEF Moved, Ops
    <3> QED  BY <2>1, <3>1, MovedBefore, MovedSets DEF Installed, DebtRecord, Ops
  <2> HIDE DEF c
  <2>3. /\ c = Debt => backup'[s][Debt] = live[DebtPath(s)]
        /\ c # Debt => backup'[s][Debt] = backup[s][Debt]
                       /\ live'[DebtPath(s)] = live[DebtPath(s)]
    BY <1>s, <1>d, <2>1, <2>2 DEF Shelves, Trees
  <2>4. /\ Committing(s) /\ Committing(s)' /\ pc[s] \in Onward
        /\ pc'[s] \notin {"prepare", "abandon", "backup", "cleanup", "save", "audit"}
    BY <2>1 DEF Committing, Onward
  <2>5. (IF Debt \in Moved(s)' THEN backup'[s][Debt] ELSE live'[DebtPath(s)])
            = before'[s][DebtPath(s)]
    BY <2>1, <2>2, <2>3, <2>4 DEF OwnDebt
  <2> QED  BY <2>1, <2>2, <2>3, <2>4, <2>5 DEF OwnDebt
<1>9. CASE Install(s)
  <2> DEFINE c == Current(s)
  <2>1. /\ UNCHANGED <<backup, decisions, before>> /\ done'[s] = done[s] + 1
        /\ pc[s] = "install" /\ pc'[s] = "installed"
        /\ live' = [live EXCEPT ![FinalPath(s, c)] = staged[s][c]]
        /\ staged'[s] = [staged[s] EXCEPT ![c] = Missing]
    BY <1>9 DEF Install, CurrentPath, TypeOK
  <2>2. /\ Moved(s)' = Moved(s) /\ Installed(s)' = Moved(s)
        /\ c \notin Installed(s) /\ c \in Labels /\ Moved(s) = Installed(s) \cup {c}
        /\ DebtRecord(s)' = DebtRecord(s)
    <3>1. Moved(s) = {Ops(s)[i] : i \in 1..(done[s] + 1)}
      BY <2>1, MovedSets
    <3>2. Moved(s)' = {Ops(s)[i] : i \in 1..(done[s] + 1)}
      BY <1>s, <2>1 DEF Moved, Ops
    <3>3. Installed(s)' = {Ops(s)[i] : i \in 1..(done[s] + 1)}
      BY <2>1 DEF Installed, Ops
    <3> QED  BY <2>1, <3>1, <3>2, <3>3, MovedDuring DEF Installed, DebtRecord
  <2>b. InBatch(decisions[s], c)
    <3>1. done[s] + 1 \in 1..Len(Ops(s))
      BY <2>1, OperationsAreLabels DEF Cursor, Ops, TypeOK
    <3> QED  BY <3>1 DEF InBatch, Ops, Current
  <2> HIDE DEF c
  <2>3. /\ c = Debt => live'[DebtPath(s)] = staged[s][Debt]
        /\ c # Debt => staged'[s][Debt] = staged[s][Debt]
                       /\ live'[DebtPath(s)] = live[DebtPath(s)]
    BY <1>s, <1>d, <2>1, <2>2 DEF Shelves, Trees
  <2>4. /\ Committing(s) /\ Committing(s)' /\ pc[s] \in Onward
        /\ pc'[s] \notin {"prepare", "abandon", "backup", "cleanup", "save", "audit"}
    BY <2>1 DEF Committing, Onward
  <2>5. (IF Debt \in Moved(s)' THEN backup'[s][Debt] ELSE live'[DebtPath(s)])
            = before'[s][DebtPath(s)]
    BY <2>1, <2>2, <2>3, <2>4 DEF OwnDebt
  <2>6. Debt \in Installed(s)' => live'[DebtPath(s)] = DebtRecord(s)
    BY <2>b, <2>2, <2>3, <2>4 DEF OwnDebt
  <2>7. InBatch(decisions[s], Debt) /\ Debt \notin Installed(s)' => staged'[s][Debt] = DebtRecord(s)
    BY <2>2, <2>3, <2>4 DEF OwnDebt
  <2>8. Committing(s) /\ Debt \notin Moved(s) => backup'[s][Debt] = Missing
    BY <2>1 DEF OwnDebt
  <2> QED  BY <2>1, <2>2, <2>4, <2>5, <2>6, <2>7, <2>8 DEF OwnDebt
<1>10. CASE Repair(s)
  <2> DEFINE c == Current(s)
  <2>1. /\ UNCHANGED <<staged, decisions, done, before>>
        /\ pc[s] = "repair" /\ pc'[s] = "rollback"
        /\ live' = [live EXCEPT ![FinalPath(s, c)] = backup[s][c]]
        /\ backup'[s] = [backup[s] EXCEPT ![c] = Missing]
    BY <1>10 DEF Repair, CurrentPath, TypeOK
  <2>2. Moved(s) = Moved(s)' \cup {c} /\ c \notin Moved(s)' /\ c \in Labels
    <3>1. Moved(s)' = {Ops(s)[i] : i \in 1..done[s]}
      BY <1>s, <2>1 DEF Moved, Ops
    <3> QED  BY <2>1, <3>1, MovedDuring
  <2> HIDE DEF c
  <2>3. /\ c = Debt => live'[DebtPath(s)] = backup[s][Debt] /\ backup'[s][Debt] = Missing
        /\ c # Debt => backup'[s][Debt] = backup[s][Debt]
                       /\ live'[DebtPath(s)] = live[DebtPath(s)]
    BY <1>s, <1>d, <2>1, <2>2 DEF Shelves, Trees
  <2>4. Committing(s) /\ Committing(s)' /\ pc'[s] \notin Onward
    BY <2>1 DEF Committing, Onward
  <2>5. /\ (IF Debt \in Moved(s)' THEN backup'[s][Debt] ELSE live'[DebtPath(s)])
                = before'[s][DebtPath(s)]
        /\ Debt \notin Moved(s)' => backup'[s][Debt] = Missing
    BY <2>1, <2>2, <2>3, <2>4 DEF OwnDebt
  <2> QED  BY <2>1, <2>4, <2>5 DEF OwnDebt
<1>11. CASE Rollback(s) /\ done[s] # 0
  <2> DEFINE c == Ops(s)[done[s]]
  <2>1. /\ UNCHANGED <<staged, decisions, before, pc>> /\ done'[s] = done[s] - 1
        /\ pc[s] = "rollback"
        /\ live' = [live EXCEPT ![FinalPath(s, c)] = backup[s][c]]
        /\ backup'[s] = [backup[s] EXCEPT ![c] = Missing]
    BY <1>11 DEF Rollback, TypeOK
  <2>2. Moved(s) = Moved(s)' \cup {c} /\ c \notin Moved(s)' /\ c \in Labels
    <3>1. done[s] - 1 \in Nat /\ done[s] - 1 < Len(Ops(s)) /\ (done[s] - 1) + 1 = done[s]
      BY <1>11, OperationsAreLabels DEF TypeOK, Cursor, Ops
    <3>2. /\ c \in Labels
          /\ c \notin {Ops(s)[i] : i \in 1..(done[s] - 1)}
          /\ {Ops(s)[i] : i \in 1..done[s]} = {Ops(s)[i] : i \in 1..(done[s] - 1)} \cup {c}
      BY <1>s, <3>1, OneMore DEF Ops
    <3>3. /\ Moved(s) = {Ops(s)[i] : i \in 1..done[s]}
          /\ Moved(s)' = {Ops(s)[i] : i \in 1..(done[s] - 1)}
      BY <2>1, MovedSets DEF Moved, Ops, TypeOK
    <3> QED  BY <3>2, <3>3
  <2> HIDE DEF c
  <2>3. /\ c = Debt => live'[DebtPath(s)] = backup[s][Debt] /\ backup'[s][Debt] = Missing
        /\ c # Debt => backup'[s][Debt] = backup[s][Debt]
                       /\ live'[DebtPath(s)] = live[DebtPath(s)]
    BY <1>s, <1>d, <2>1, <2>2 DEF Shelves, Trees
  <2>4. Committing(s) /\ Committing(s)' /\ pc'[s] \notin Onward /\ pc'[s] = "rollback"
    BY <2>1 DEF Committing, Onward
  <2>5. /\ (IF Debt \in Moved(s)' THEN backup'[s][Debt] ELSE live'[DebtPath(s)])
                = before'[s][DebtPath(s)]
        /\ Debt \notin Moved(s)' => backup'[s][Debt] = Missing
    BY <2>1, <2>2, <2>3, <2>4 DEF OwnDebt
  <2> QED  BY <2>4, <2>5 DEF OwnDebt
<1>12. CASE Rollback(s) /\ done[s] = 0
  <2>1. pc[s] = "rollback" /\ pc'[s] = "abandon" /\ live' = live /\ before' = before
    BY <1>12 DEF Rollback, TypeOK
  <2>2. Moved(s) = {}
    BY <1>12, <2>1 DEF Moved
  <2> QED  BY <2>1, <2>2 DEF OwnDebt, Committing, Onward
<1>13. CASE Cleanup(s)
  <2>1. pc[s] = "cleanup" /\ pc'[s] = "save" /\ UNCHANGED <<live, before, decisions, done>>
    BY <1>13 DEF Cleanup, TypeOK
  <2>2. done[s] = Len(Ops(s)) /\ Moved(s) = Installed(s)
    BY <2>1, MovedSets DEF OwnDebt, Installed
  <2>3. InBatch(decisions[s], Debt) <=> Debt \in Installed(s)
    BY <1>b, <2>2 DEF Installed
  <2>4. live[DebtPath(s)] = IF InBatch(decisions[s], Debt) THEN DebtRecord(s)
                            ELSE before[s][DebtPath(s)]
    BY <2>1, <2>2, <2>3 DEF OwnDebt, Committing, Onward
  <2>5. DebtRecord(s)' = DebtRecord(s)
    BY <2>1 DEF DebtRecord
  <2> QED  BY <2>1, <2>4, <2>5 DEF OwnDebt, Committing, Onward
<1>14. CASE Save(s) \/ Audit(s)
  <2>1. /\ UNCHANGED <<live, before, decisions, done>>
        /\ pc[s] \in {"save", "audit"} /\ pc'[s] = "audit"
    BY <1>14 DEF Save, Audit, TypeOK
  <2>2. DebtRecord(s)' = DebtRecord(s)
    BY <2>1 DEF DebtRecord
  <2> QED  BY <2>1, <2>2 DEF OwnDebt, Committing, Onward
<1>15. CASE Return(s) \/ Abandon(s) \/ Crash(s)
  BY <1>15 DEF Return, Abandon, Crash, Exit, TypeOK, OwnDebt, Committing, Onward
<1>16. CASE CleanupFails(s) \/ RollbackFails(s) \/ SaveFails(s) \/ AuditFails(s)
  BY <1>16 DEF CleanupFails, RollbackFails, SaveFails, AuditFails, Undoable
<1>17. CASE Commit(s)
  BY <1>4, <1>5, <1>6, <1>7, <1>8, <1>9, <1>10, <1>11, <1>12, <1>13, <1>16, <1>17 DEF Commit
<1>18. CASE Close(s)
  BY <1>14, <1>15, <1>16, <1>18 DEF Close
<1> QED  BY <1>1, <1>2, <1>3, <1>15, <1>17, <1>18

(* However many processes adopt at once and whatever they do to the shared *)
(* files, a session's own spec-debt directory is restored or completely    *)
(* replaced.                                                               *)
THEOREM OwnDebtIsAtomic == Spec => []OwnDebtAtomic
<1> DEFINE Inv == TypeOK /\ Cursor /\ (Undoable => \A s \in Sessions : OwnDebt(s))
<1>1. Init => Inv
  BY InitTyped DEF Init, OwnDebt, Committing, Onward
<1>2. Inv /\ [Next]_vars => Inv'
  <2> SUFFICES ASSUME Inv, [Next]_vars, TypeOK', Cursor', Undoable', NEW s \in Sessions
               PROVE  OwnDebt(s)'
    BY StepTyped
  <2>1. Undoable /\ OwnDebt(s)
    BY DEF Next, vars, Undoable
  <2>2. CASE UNCHANGED vars
    BY <2>1, <2>2 DEF vars, OwnDebt, Committing, Moved, Installed, Ops, Current, DebtRecord
  <2>3. ASSUME NEW t \in Sessions,
               \/ Start(t) \/ Prepare(t) \/ PrepareFails(t) \/ Commit(t) \/ Close(t) \/ Crash(t)
        PROVE  OwnDebt(s)'
    <3>1. CASE t = s
      BY <2>1, <2>3, <3>1, StepOwnDebt
    <3>2. CASE t # s
      BY <2>1, <2>3, <3>2, OthersDebt
    <3> QED  BY <3>1, <3>2
  <2> QED  BY <2>2, <2>3 DEF Next
<1>3. Inv => OwnDebtAtomic
  <2> SUFFICES ASSUME Inv, Undoable, NEW s \in Sessions
               PROVE  /\ pc[s] = "abandon" =>
                             live[<<"spec-debt", s>>] = before[s][<<"spec-debt", s>>]
                      /\ pc[s] \in {"save", "audit"} =>
                             live[<<"spec-debt", s>>]
                                 = Applied(s, decisions[s], before[s])[<<"spec-debt", s>>]
    BY Zenon DEF OwnDebtAtomic
  <2>1. OwnDebt(s) /\ decisions[s] \in [Kinds -> AdoptDecisions] /\ before[s] \in Trees
    BY DEF TypeOK
  <2>2. InBatch(decisions[s], "spec-debt") <=> Deferred(decisions[s]) # {}
    BY <2>1, BatchIs
  <2>3. IF Deferred(decisions[s]) # {}
        THEN Applied(s, decisions[s], before[s])[FinalPath(s, "spec-debt")]
                 = [k \in Kinds |-> IF k \in Deferred(decisions[s]) THEN s ELSE NoFile]
        ELSE Applied(s, decisions[s], before[s])[FinalPath(s, "spec-debt")]
                 = before[s][FinalPath(s, "spec-debt")]
    BY <2>1, AppliedDebt
  <2>4. FinalPath(s, "spec-debt") = <<"spec-debt", s>>
    BY DEF FinalPath
  <2> QED  BY <2>1, <2>2, <2>3, <2>4 DEF OwnDebt, Debt, DebtPath, DebtRecord
<1> QED  BY <1>1, <1>2, <1>3, PTL DEF Spec
=============================================================================
