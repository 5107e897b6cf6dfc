---------------------------- MODULE BootstrapAdopt ----------------------------
(***************************************************************************)
(* runBootstrapAdopt (tools/jispec/bootstrap/adopt.ts): one process per    *)
(* draft session stages a shadow copy of the files, renames them into      *)
(* place one at a time with a backup of what was there, and undoes the     *)
(* renames in reverse when one of them throws.                             *)
(*                                                                         *)
(* One action per durable file-system change, so that a crash or another   *)
(* process can fall between any two of them.                               *)
(***************************************************************************)
EXTENDS AdoptTree

CONSTANTS
    Worlds,     \* what may go wrong: one of these sets per behaviour
    MaxRuns,    \* bound: adoptions started in a behaviour
    BothChoose  \* bound: the decisions two processes at once are tried with

\* The calls that may throw, a crash, and a second process at the same time.
AllTrouble == {"prepare", "mkdir", "backup_rename", "install_rename", "injected",
               "cleanup", "rollback", "manifest", "audit", "abandon", "crash",
               "parallel"}

ASSUME WorldsAssumption ==
    /\ Worlds \subseteq SUBSET AllTrouble
    /\ MaxRuns \in Nat
    /\ BothChoose \subseteq [Kinds -> AdoptDecisions]

VARIABLES
    world,      \* chosen by the initial state, never changed
    live,       \* the tree under .spec: contracts, spec debt, hand-offs
    manifest,   \* status in .spec/sessions/<s>/manifest.json
    staged,     \* files in the session's shadow directory
    backup,     \* files in shadow/backups
    audited,    \* kinds whose audit event the latest adoption has appended
    pc, decisions, done,    \* of the process that adopts session s
    runs,       \* adoptions started so far
    before      \* history: the live tree when that process began

vars == <<world, live, manifest, staged, backup, audited, pc, decisions, done,
          runs, before>>

disk == <<live, manifest, staged, backup, audited>>

NoDecisions == [k \in Kinds |-> "reject"]
NoTree  == [p \in Paths |-> Missing]
Nothing == [l \in Labels |-> Missing]
Ops(s)  == Operations(decisions[s])
Steps   == {"idle", "prepare", "look", "backup", "install", "installed", "repair",
            "rollback", "cleanup", "save", "audit", "abandon"}

TypeOK ==
    /\ world \in Worlds
    /\ live \in Trees
    /\ manifest \in [Sessions -> {"drafted", "adopting", "committed", "abandoned"}]
    /\ staged \in [Sessions -> Shelves]
    /\ backup \in [Sessions -> Shelves]
    /\ audited \in [Sessions -> SUBSET Kinds]
    /\ pc \in [Sessions -> Steps]
    /\ decisions \in [Sessions -> [Kinds -> AdoptDecisions]]
    /\ done \in [Sessions -> Nat]
    /\ runs \in Nat
    /\ before \in [Sessions -> Trees]

\* A repository that may already hold contracts, and freshly drafted sessions.
Init ==
    /\ world \in Worlds
    /\ \E contracts \in {Missing, [k \in Kinds |-> Base]} :
           live = [p \in Paths |->
                      IF p[1] = "contracts" THEN contracts ELSE Missing]
    /\ manifest  = [s \in Sessions |-> "drafted"]
    /\ staged    = [s \in Sessions |-> Nothing]
    /\ backup    = [s \in Sessions |-> Nothing]
    /\ audited   = [s \in Sessions |-> {}]
    /\ pc        = [s \in Sessions |-> "idle"]
    /\ decisions = [s \in Sessions |-> NoDecisions]
    /\ done      = [s \in Sessions |-> 0]
    /\ runs      = 0
    /\ before    = [s \in Sessions |-> NoTree]

\* The process ends and its memory is gone.  What it left in the shadow
\* directory besides the backups is dropped here too: no later process reads it.
Exit(s) ==
    /\ pc' = [pc EXCEPT ![s] = "idle"]
    /\ decisions' = [decisions EXCEPT ![s] = NoDecisions]
    /\ done' = [done EXCEPT ![s] = 0]
    /\ staged' = [staged EXCEPT ![s] = Nothing]
    /\ before' = [before EXCEPT ![s] = NoTree]

Goto(s, step) == pc' = [pc EXCEPT ![s] = step]

\* The path and label of the operation the process has reached.
Current(s)     == Ops(s)[done[s] + 1]
CurrentPath(s) == FinalPath(s, Current(s))
-----------------------------------------------------------------------------
(* Opening the session.  loadDraftSession accepts any status, so a session *)
(* may be adopted again, whatever became of it the last time.              *)
Start(s) ==
    /\ pc[s] = "idle"
    /\ runs < MaxRuns
    /\ runs' = runs + 1
    /\ "parallel" \in world \/ \A t \in Sessions : pc[t] = "idle"
    /\ \E d \in IF "parallel" \in world THEN BothChoose ELSE [Kinds -> AdoptDecisions] :
           decisions' = [decisions EXCEPT ![s] = d]
    /\ manifest' = [manifest EXCEPT ![s] = "adopting"]
    /\ audited' = [audited EXCEPT ![s] = {}]
    /\ before' = [before EXCEPT ![s] = live]
    /\ Goto(s, "prepare")
    /\ UNCHANGED <<live, staged, backup, done>>

\* The shadow directory, backups of an earlier adoption included, is deleted
\* and filled again.
Prepare(s) ==
    /\ pc[s] = "prepare"
    /\ backup' = [backup EXCEPT ![s] = Nothing]
    /\ staged' = [staged EXCEPT ![s] =
           [l \in Labels |->
               IF InBatch(decisions[s], l)
               THEN StagedContent(s, decisions[s], l, live[FinalPath(s, "contracts")])
               ELSE Missing]]
    /\ Goto(s, IF Ops(s) = <<>> THEN "save" ELSE "look")
    /\ UNCHANGED <<live, manifest, audited, decisions, done, runs, before>>

\* No decisions were given (nothing is deleted yet), or staging throws.
PrepareFails(s) ==
    /\ "prepare" \in world
    /\ pc[s] = "prepare"
    /\ \/ UNCHANGED <<staged, backup>>
       \/ /\ backup' = [backup EXCEPT ![s] = Nothing]
          /\ staged' = [staged EXCEPT ![s] = Nothing]
    /\ Goto(s, "abandon")
    /\ UNCHANGED <<live, manifest, audited, decisions, done, runs, before>>
-----------------------------------------------------------------------------
(* commitShadowBatch *)

Look(s) ==
    /\ pc[s] = "look"
    /\ Goto(s, IF live[CurrentPath(s)] = Missing THEN "install" ELSE "backup")
    /\ UNCHANGED <<disk, decisions, done, runs, before>>

MkdirFails(s) ==
    /\ "mkdir" \in world
    /\ pc[s] = "look"
    /\ Goto(s, "rollback")
    /\ UNCHANGED <<disk, decisions, done, runs, before>>

Backup(s) ==
    /\ pc[s] = "backup"
    /\ live[CurrentPath(s)] # Missing
    /\ backup' = [backup EXCEPT ![s][Current(s)] = live[CurrentPath(s)]]
    /\ live' = [live EXCEPT ![CurrentPath(s)] = Missing]
    /\ Goto(s, "install")
    /\ UNCHANGED <<manifest, staged, audited, decisions, done, runs, before>>

BackupFails(s) ==
    /\ pc[s] = "backup"
    /\ "backup_rename" \in world \/ live[CurrentPath(s)] = Missing
    /\ Goto(s, "repair")
    /\ UNCHANGED <<disk, decisions, done, runs, before>>

\* A rename replaces a file but not a directory that has files in it.
Occupied(s) == Current(s) \in DirLabels /\ live[CurrentPath(s)] # Missing

Install(s) ==
    /\ pc[s] = "install"
    /\ ~Occupied(s)
    /\ live' = [live EXCEPT ![CurrentPath(s)] = staged[s][Current(s)]]
    /\ staged' = [staged EXCEPT ![s][Current(s)] = Missing]
    /\ done' = [done EXCEPT ![s] = @ + 1]
    /\ Goto(s, "installed")
    /\ UNCHANGED <<manifest, backup, audited, decisions, runs, before>>

InstallFails(s) ==
    /\ pc[s] = "install"
    /\ "install_rename" \in world \/ Occupied(s)
    /\ Goto(s, "repair")
    /\ UNCHANGED <<disk, decisions, done, runs, before>>

\* Mutant: the inner catch deletes the shadow directory before it restores.
RepairDropsBackup(s) ==
    /\ pc[s] = "repair"
    /\ live' = [live EXCEPT ![CurrentPath(s)] = Missing]
    /\ backup' = [backup EXCEPT ![s][Current(s)] = Missing]
    /\ Goto(s, "rollback")
    /\ UNCHANGED <<manifest, staged, audited, decisions, done, runs, before>>

\* The inner catch: delete whatever is at the final path, then put the backup
\* back if there is one.  (A crash between the two leaves what a crash before
\* the first leaves after a failed install.)
Repair(s) ==
    /\ pc[s] = "repair"
    /\ live' = [live EXCEPT ![CurrentPath(s)] = backup[s][Current(s)]]
    /\ backup' = [backup EXCEPT ![s][Current(s)] = Missing]
    /\ Goto(s, "rollback")
    /\ UNCHANGED <<manifest, staged, audited, decisions, done, runs, before>>

\* After an operation: listing the written files, and the failure the tests
\* inject here, may throw.
Advance(s) ==
    /\ pc[s] = "installed"
    /\ Goto(s, IF done[s] = Len(Ops(s)) THEN "cleanup" ELSE "look")
    /\ UNCHANGED <<disk, decisions, done, runs, before>>

InjectedFailure(s) ==
    /\ "injected" \in world
    /\ pc[s] = "installed"
    /\ Goto(s, "rollback")
    /\ UNCHANGED <<disk, decisions, done, runs, before>>

Cleanup(s) ==
    /\ pc[s] = "cleanup"
    /\ backup' = [backup EXCEPT ![s] = Nothing]
    /\ Goto(s, "save")
    /\ UNCHANGED <<live, manifest, staged, audited, decisions, done, runs, before>>

\* Deleting the backup directory throws after it has deleted part of it.
CleanupFails(s) ==
    /\ "cleanup" \in world
    /\ pc[s] = "cleanup"
    /\ \E gone \in SUBSET Labels :
           backup' = [backup EXCEPT ![s] =
                         [l \in Labels |-> IF l \in gone THEN Missing ELSE @[l]]]
    /\ Goto(s, "rollback")
    /\ UNCHANGED <<live, manifest, staged, audited, decisions, done, runs, before>>

\* Mutant: the outer catch restores what has a backup, and forgets to delete
\* what the batch created.
RollbackKeepsCreated(s) ==
    /\ pc[s] = "rollback"
    /\ IF done[s] = 0
       THEN /\ Goto(s, "abandon")
            /\ UNCHANGED <<live, backup, done>>
       ELSE LET l == Ops(s)[done[s]] IN
            /\ live' = IF backup[s][l] = Missing THEN live
                       ELSE [live EXCEPT ![FinalPath(s, l)] = backup[s][l]]
            /\ backup' = [backup EXCEPT ![s][l] = Missing]
            /\ done' = [done EXCEPT ![s] = @ - 1]
            /\ UNCHANGED pc
    /\ UNCHANGED <<manifest, staged, audited, decisions, runs, before>>

\* Mutant: the operations are undone starting at the one before the last.
RollbackSkipsLast(s) ==
    /\ pc[s] = "rollback"
    /\ IF done[s] < 2
       THEN /\ Goto(s, "abandon")
            /\ UNCHANGED <<live, backup, done>>
       ELSE LET l == Ops(s)[done[s] - 1] IN
            /\ live' = [live EXCEPT ![FinalPath(s, l)] = backup[s][l]]
            /\ backup' = [backup EXCEPT ![s][l] = Missing]
            /\ done' = [done EXCEPT ![s] = @ - 1]
            /\ UNCHANGED pc
    /\ UNCHANGED <<manifest, staged, audited, decisions, runs, before>>

\* The outer catch undoes the committed operations, the last one first.
Rollback(s) ==
    /\ pc[s] = "rollback"
    /\ IF done[s] = 0
       THEN /\ Goto(s, "abandon")
            /\ UNCHANGED <<live, backup, done>>
       ELSE LET l == Ops(s)[done[s]] IN
            /\ live' = [live EXCEPT ![FinalPath(s, l)] = backup[s][l]]
            /\ backup' = [backup EXCEPT ![s][l] = Missing]
            /\ done' = [done EXCEPT ![s] = @ - 1]
            /\ UNCHANGED pc
    /\ UNCHANGED <<manifest, staged, audited, decisions, runs, before>>

\* The rename back throws out of the outer catch: the rest stays in place.
RollbackFails(s) ==
    /\ "rollback" \in world
    /\ pc[s] = "rollback"
    /\ done[s] > 0
    /\ backup[s][Ops(s)[done[s]]] # Missing
    /\ live' = [live EXCEPT ![FinalPath(s, Ops(s)[done[s]])] = Missing]
    /\ Goto(s, "abandon")
    /\ UNCHANGED <<manifest, staged, backup, audited, decisions, done, runs, before>>
-----------------------------------------------------------------------------
(* Closing the session *)

Save(s) ==
    /\ pc[s] = "save"
    /\ manifest' = [manifest EXCEPT ![s] = FinalStatus(decisions[s])]
    /\ Goto(s, "audit")
    /\ UNCHANGED <<live, staged, backup, audited, decisions, done, runs, before>>

SaveFails(s) ==
    /\ "manifest" \in world
    /\ pc[s] = "save"
    /\ Goto(s, "abandon")
    /\ UNCHANGED <<disk, decisions, done, runs, before>>

\* One audit event per decision; the order of the kinds is abstracted.
Audit(s) ==
    /\ pc[s] = "audit"
    /\ \E k \in Kinds \ audited[s] : audited' = [audited EXCEPT ![s] = @ \cup {k}]
    /\ UNCHANGED <<live, manifest, staged, backup, pc, decisions, done, runs, before>>

\* Mutant: a failed append ends the process without abandoning the session.
AuditFailsSilently(s) ==
    /\ "audit" \in world
    /\ pc[s] = "audit"
    /\ audited[s] # Kinds
    /\ Exit(s)
    /\ UNCHANGED <<live, manifest, backup, audited, runs>>

AuditFails(s) ==
    /\ "audit" \in world
    /\ pc[s] = "audit"
    /\ audited[s] # Kinds
    /\ Goto(s, "abandon")
    /\ UNCHANGED <<disk, decisions, done, runs, before>>

Return(s) ==
    /\ pc[s] = "audit"
    /\ audited[s] = Kinds
    /\ Exit(s)
    /\ UNCHANGED <<live, manifest, backup, audited, runs>>

\* The catch of runBootstrapAdopt writes the abandoned manifest (which may
\* itself fail) and rethrows.
Abandon(s) ==
    /\ pc[s] = "abandon"
    /\ \/ manifest' = [manifest EXCEPT ![s] = "abandoned"]
       \/ "abandon" \in world /\ UNCHANGED manifest
    /\ Exit(s)
    /\ UNCHANGED <<live, backup, audited, runs>>

Crash(s) ==
    /\ "crash" \in world
    /\ pc[s] # "idle"
    /\ Exit(s)
    /\ UNCHANGED <<live, manifest, backup, audited, runs>>
-----------------------------------------------------------------------------
Commit(s) ==
    \/ Look(s) \/ MkdirFails(s)
    \/ Backup(s) \/ BackupFails(s)
    \/ Install(s) \/ InstallFails(s)
    \/ Repair(s)
    \/ Advance(s) \/ InjectedFailure(s)
    \/ Cleanup(s) \/ CleanupFails(s)
    \/ Rollback(s) \/ RollbackFails(s)

Close(s) ==
    \/ Save(s) \/ SaveFails(s)
    \/ Audit(s) \/ AuditFails(s)
    \/ Return(s) \/ Abandon(s)

Next ==
    /\ \E s \in Sessions :
           \/ Start(s)
           \/ Prepare(s) \/ PrepareFails(s)
           \/ Commit(s)
           \/ Close(s)
           \/ Crash(s)
    /\ UNCHANGED world

Spec == Init /\ [][Next]_vars
-----------------------------------------------------------------------------
(* What undoing the renames now would give: the backups of the operations  *)
(* already moved, the live tree elsewhere.                                 *)
Moved(s) ==
    {Ops(s)[i] : i \in 1..(done[s] + IF pc[s] \in {"install", "repair"} THEN 1 ELSE 0)}

UndoneBy(s, moved, shelf, t) ==
    [p \in Paths |-> IF p[1] \in moved /\ p = FinalPath(s, p[1])
                     THEN shelf[p[1]] ELSE t[p]]

Undone(s) == UndoneBy(s, Moved(s), backup[s], live)

Committing(s) == pc[s] \in {"look", "backup", "install", "installed", "repair",
                            "rollback", "cleanup"}

\* The failures the undo is written for: every call but the rename that makes
\* a backup, the deletion of the backups, the renames of the undo itself and
\* the writes that follow the commit.
Undoable ==
    world \subseteq {"prepare", "mkdir", "install_rename", "injected", "abandon",
                     "crash", "parallel"}

Restorable == Undoable /\ "parallel" \notin world

\* Nothing but calls that throw, caught by the process itself.
Caught ==
    world \subseteq {"prepare", "mkdir", "install_rename", "injected", "manifest", "audit"}

(* When a failed adoption gives up, every contract, spec-debt record and   *)
(* hand-off file is what it was when the adoption began: a commit that     *)
(* fails half-way leaves no half-write, whatever threw.                    *)
RollbackRestores == \A s \in Sessions : pc[s] = "abandon" => live = before[s]

(* The same, for one process at a time and the failures it can undo.       *)
AbandonRestores == Restorable => RollbackRestores

\* The file of kind k in a directory that may not exist.
FileIn(c, k) == IF c = Missing THEN NoFile ELSE c[k]

(* An adoption that reaches its manifest has put in place exactly its      *)
(* decisions: adopted kinds replaced and the other contracts kept, its     *)
(* deferred kinds recorded, the hand-offs its own, and the spec debt of    *)
(* other sessions untouched.                                               *)
SavedIsComplete ==
    "parallel" \notin world => \A s \in Sessions : pc[s] \in {"save", "audit"} =>
        LET d == decisions[s]
            contracts == FinalPath(s, "contracts") IN
        /\ \A k \in Kinds :
               FileIn(live[contracts], k) =
                   IF k \in Adopted(d) THEN s ELSE FileIn(before[s][contracts], k)
        /\ \A t \in Sessions : LET debt == FinalPath(t, "spec-debt") IN
               IF t = s /\ Deferred(d) # {}
               THEN {k \in Kinds : FileIn(live[debt], k) = s} = Deferred(d)
               ELSE live[debt] = before[s][debt]
        /\ FinalStatus(d) = "committed" =>
               \A l \in HandoffLabels : live[FinalPath(s, l)].by = s

(* Between adoptions the hand-off files agree with each other and with the *)
(* contracts and spec debt on disk: `verify` and `change` read them.       *)
HandoffConsistent ==
    Caught /\ (\A s \in Sessions : pc[s] = "idle") =>
        \A l \in HandoffLabels :
            LET h == live[<<l, Base>>] IN
            /\ \A m \in HandoffLabels : live[<<m, Base>>] = h
            /\ h # Missing =>
                 /\ \A k \in h.adopted : FileIn(live[<<"contracts", Base>>], k) = h.by
                 /\ \A k \in h.deferred : FileIn(live[<<"spec-debt", h.by>>], k) = h.by

(* A session whose manifest says committed has an audit event for every    *)
(* decision of its latest adoption: an append that throws abandons it.     *)
CommittedIsAudited ==
    Caught => \A s \in Sessions :
        manifest[s] = "committed" /\ pc[s] = "idle" => audited[s] = Kinds

\* A contract of kind k exists somewhere on disk.
Kept(k) ==
    \/ FileIn(live[<<"contracts", Base>>], k) # NoFile
    \/ \E s \in Sessions : FileIn(backup[s]["contracts"], k) # NoFile

(* A contract that was there when the adoptions in progress began stays on *)
(* disk, live or as a backup, at every instant, crashes included; only     *)
(* adopting a crashed session again, which deletes its shadow directory,   *)
(* can discard the last copy.                                              *)
OnlyRerunDiscards ==
    [][Restorable => \A k \in Kinds :
          (/\ Kept(k)
           /\ \A s \in Sessions :
                  pc[s] # "idle" => FileIn(before[s][<<"contracts", Base>>], k) # NoFile)
          => Kept(k)' \/ \E s \in Sessions : pc[s] = "prepare" /\ pc'[s] # "prepare"]_vars

(* Two adoptions at once: whatever they do to the shared files, a          *)
(* session's own spec-debt directory is restored or completely replaced.   *)
OwnDebtAtomic ==
    Undoable => \A s \in Sessions :
        LET p == <<"spec-debt", s>> IN
        /\ pc[s] = "abandon" => live[p] = before[s][p]
        /\ pc[s] \in {"save", "audit"} => live[p] = Applied(s, decisions[s], before[s])[p]
-----------------------------------------------------------------------------
(* The adoption is atomic: the tree a reader of the abstract specification *)
(* sees changes in the one step that deletes the backups.                  *)
\* Where something else goes wrong there is nothing to refine: the abstract
\* tree stands still.
AbstractTree ==
    IF ~Caught THEN NoTree
    ELSE IF \E s \in Sessions : Committing(s)
         THEN Undone(CHOOSE s \in Sessions : Committing(s))
         ELSE live

AbstractChosen ==
    [s \in Sessions |->
        IF Caught /\ (pc[s] = "prepare" \/ Committing(s)) THEN decisions[s] ELSE Missing]

Atomic == INSTANCE AtomicAdoption WITH tree <- AbstractTree, chosen <- AbstractChosen

(* Every behaviour of the rename-by-rename adoption in which only calls    *)
(* throw is a behaviour of the one-step adoption.                          *)
ImplementsAtomic == Atomic!ASpec
=============================================================================
