--------------------------- MODULE ImplementMainline ---------------------------
(***************************************************************************)
(* The change mainline: `change` opens a session, `implement` mediates an   *)
(* external patch or asks for one, runs the tests and verify, archives the  *)
(* session or leaves a handoff packet to resume from, and the diagnosis     *)
(* names the command that continues.                                        *)
(*                                                                          *)
(* A process is a command in a terminal; a step ends at a write to disk or  *)
(* to the working tree, or at a run of the tests or of verify, so that a    *)
(* crash, the user's editor or a second terminal comes in between.  The     *)
(* code under change is red or green for the test command.  What verify     *)
(* answers is left open.                                                    *)
(***************************************************************************)
EXTENDS Integers, SequencesExt, FiniteSets

CONSTANTS
  Terminals, Sessions, Patches,
  Segments,  \* names of directories and files, the prefixes "a" and "b", "." and ".."
  Main,      \* the terminal that is used when there is only one
  None,
  Scope,     \* changedPaths of a session: paths, as sequences of segments
  Diff,      \* header lines of a patch: their kind and the name as it is written
  Effect,    \* what the tests say once a patch is in: "red" or "green"
  Limits,    \* --max-iterations given with the other two limits
  MaxCommands,  \* bound: commands when there are two terminals
  Worlds     \* what may happen: sets of "edit", "crash", "two"

(* A name is split at its slashes: an absolute one begins with "".          *)
Lines == [kind : {"diff", "old", "new", "rename"}, name : Seq(Segments) \ {<<>>}]
Nowhere == <<"", "dev", "null">>

ASSUME MainlineAssumption ==
  /\ Main \in Terminals
  /\ None \notin Sessions \cup Patches
  /\ Scope \in [Sessions -> SUBSET (Seq(Segments) \ {<<>>})]
  /\ Diff \in [Patches -> SUBSET Lines]
  /\ Limits \subseteq Nat /\ None \notin Limits
  /\ MaxCommands \in Nat
  /\ Effect \in [Patches -> {"red", "green"}]
  /\ Worlds \subseteq SUBSET {"edit", "crash", "two"}

VARIABLES
  world,     \* what may happen in this behaviour
  active,    \* .jispec/change-session.json
  archive,   \* .jispec/change-sessions/<id>.json
  packets,   \* .jispec/handoff/<id>.json
  media,     \* .jispec/implement/<id>/patch-mediation.json: its status
  tree,      \* what the test command says of the working tree
  applied,   \* patches in the working tree, each with the session it came under
  created,   \* sessions `change` has made (ids are fresh)
  verified,  \* history: sessions verify accepted after passing tests
  run,       \* the command in each terminal, or what its last one came to
  commands   \* commands given so far, counted when there are two terminals

disk == <<active, archive, packets, media>>
code == <<tree, applied>>
vars == <<world, disk, code, created, verified, run, commands>>

Rejections == {"rejected_out_of_scope", "apply_failed"}
Outcomes == {"preflight_passed", "budget_exhausted", "stall_detected", "verify_blocked",
             "patch_rejected_out_of_scope", "external_patch_received", "patch_verified"}
Busy == {"load", "mediate", "apply", "record", "test", "preflight", "loop",
         "verify", "settle", "archive", "rename", "handoff"}

Runs ==
  [pc : Busy \cup {"idle"}, from : Sessions \cup {None}, id : Sessions \cup {None},
   patch : Patches \cup {None}, limit : Limits \cup {None},
   source : {"active", "archived"}, outcome : Outcomes \cup {None},
   passed : BOOLEAN, ok : BOOLEAN, status : {"none", "accepted", "apply_failed"},
   iterations : 0..5, streak : 0..3]

Quiet == [pc |-> "idle", from |-> None, id |-> None, patch |-> None, limit |-> None,
          source |-> "active", outcome |-> None, passed |-> FALSE, ok |-> FALSE,
          status |-> "none", iterations |-> 0, streak |-> 0]

----------------------------------------------------------------------------
(* Patch scope *)

(* isPathWithinAllowedScope: the path itself or one below it *)
Within(touched, allowed) == IsPrefix(allowed, touched)

(* normalizeRepoPath: null, so not looked at, when the name leaves the root  *)
StepInto(path, seg) ==
  IF seg \in {"", "."} THEN path
  ELSE IF seg = ".." /\ path # <<>> /\ Last(path) # ".." THEN Front(path)
  ELSE Append(path, seg)

Ordinary(name) == name # <<>> /\ \A i \in 1..Len(name) : name[i] \notin {"", ".", ".."}

Normalized(name) ==
  IF Ordinary(name) THEN {name}
  ELSE {path \in {FoldLeft(StepInto, <<>>, name)} :
          path # <<>> /\ path[1] # ".." /\ name[1] # ""}

(* The prefix goes only if there is one; a `diff --git` line is read only if *)
(* it has them, unquoted; `rename from` and `rename to` name paths.          *)
Prefixed(name) == Len(name) > 1 /\ name[1] \in {"a", "b"}

\* Mutant: what a patch deletes or moves away is not looked at.
NewNames(line) ==
  IF line.kind # "new" THEN {}
  ELSE IF Prefixed(line.name) THEN Normalized(Tail(line.name))
  ELSE Normalized(line.name)

ChangedPaths(line) ==
  IF line.kind # "rename" /\ Prefixed(line.name) THEN Normalized(Tail(line.name))
  ELSE IF line.kind # "diff" THEN Normalized(line.name)
  ELSE {}

(* validatePatchScope of parseUnifiedDiffChangedPaths                        *)
Touched(p) == UNION {ChangedPaths(line) : line \in Diff[p]}

InScope(p, s) ==
  /\ Touched(p) # {}
  /\ \A touched \in Touched(p) : \E allowed \in Scope[s] : Within(touched, allowed)

(* What git apply makes of the same lines: it always takes one component off *)
(* (-p1), and refuses a patch with a name that is not an ordinary path.      *)
GitNames(line) ==
  IF line.name = Nowhere THEN {}
  ELSE IF line.kind = "rename" THEN {line.name} ELSE {Tail(line.name)}

Changes(p) == UNION {GitNames(line) : line \in Diff[p]}
Applicable(p) == \A path \in Changes(p) : Ordinary(path)

(* Budget and stalls *)

(* The three limits are spread over the defaults, undefined ones too, and    *)
(* nothing is less than undefined.                                           *)
CanContinue(r) == r.limit # None /\ r.iterations < r.limit

\* Mutant: repeated failures are not looked at.
StalledByProgress(r) == r.iterations >= 5

(* The fifth iteration in which no file changed, and none changes any; or    *)
(* the third in a row with the same error.                                   *)
Stalled(r) == r.iterations >= 5 \/ r.streak >= 3

(* What is left behind *)

\* Mutant: a rejected patch is left to its mediation record.
NoPacketForRejection(r) ==
  \/ r.outcome \in {"budget_exhausted", "stall_detected", "verify_blocked"}
  \/ r.outcome = "external_patch_received" /\ ~r.passed

ShouldWriteHandoffPacket(r) ==
  \/ r.outcome \in {"budget_exhausted", "stall_detected",
                    "patch_rejected_out_of_scope", "verify_blocked"}
  \/ r.outcome = "external_patch_received" /\ ~r.passed

\* Mutant: tests that pass are enough.
ArchiveOnTests(r) == r.passed /\ r.source = "active" /\ active = r.id

ShouldArchive(r) == r.ok /\ r.source = "active" /\ active = r.id

----------------------------------------------------------------------------
(* Commands *)

Command(p) ==
  /\ run[p].pc = "idle"
  /\ IF "two" \in world THEN commands < MaxCommands /\ commands' = commands + 1
     ELSE p = Main /\ UNCHANGED commands

Go(p, r) == run' = [run EXCEPT ![p] = r]
To(p, pc) == Go(p, [run[p] EXCEPT !.pc = pc])

(* `change`: overwrites whatever session is active.  In execute mode, unless *)
(* a strict lane waits for an open draft, implement follows.                 *)
Change(p, s) ==
  /\ Command(p)
  /\ s \notin created
  /\ created' = created \cup {s}
  /\ active' = s
  /\ \/ Go(p, Quiet)
     \/ \E limit \in Limits \cup {None} :
          Go(p, [Quiet EXCEPT !.pc = "load", !.id = s, !.limit = limit])
  /\ UNCHANGED <<world, archive, packets, media, code, verified>>

\* Mutant: the packet's session replaces any other.
AlwaysRestorable(s) == s \in packets

(* restoreReplayState: the packet's session becomes active if none is        *)
Restorable(s) == s \in packets /\ active \in {None, s}

Implement(p) ==
  /\ Command(p)
  /\ \E from \in {s \in Sessions : Restorable(s)} \cup {None}, id \in created \cup {None},
        patch \in Patches \cup {None}, limit \in Limits \cup {None} :
       /\ patch # None => limit = None
       /\ active' = IF from # None THEN from ELSE active
       /\ Go(p, [Quiet EXCEPT !.pc = "load", !.from = from, !.id = id,
                              !.patch = patch, !.limit = limit])
  /\ UNCHANGED <<world, archive, packets, media, code, created, verified>>

(* diagnoseMainlineFlow: sessions whose packet its next command may name, the *)
(* active one when its patch failed or it has a packet, else the latest.      *)
Diagnosed ==
  IF active = None THEN packets
  ELSE {s \in {active} : media[s] \in Rejections \/ s \in packets}

(* The session is looked up, after the restore; the command is refused when  *)
(* the ids differ, when there is no such session or for its test command.    *)
Wanted(r) == IF r.id # None THEN r.id ELSE IF r.from # None THEN r.from ELSE active

Load(p) ==
  LET r == run[p] s == Wanted(r) IN
  /\ r.pc = "load"
  /\ \/ Go(p, Quiet)
     \/ /\ r.from # None => s = r.from
        /\ s # None /\ (active = s \/ s \in archive)
        /\ Go(p, [r EXCEPT !.pc = IF r.patch # None THEN "mediate" ELSE "preflight",
                           !.id = s, !.from = None,
                           !.source = IF active = s THEN "active" ELSE "archived"])
  /\ UNCHANGED <<world, disk, code, created, verified, commands>>

----------------------------------------------------------------------------
(* mediatePatchIntake *)

Reject(p) ==
  LET r == run[p] IN
  /\ r.pc = "mediate"
  /\ ~InScope(r.patch, r.id)
  /\ media' = [media EXCEPT ![r.id] = "rejected_out_of_scope"]
  /\ Go(p, [r EXCEPT !.pc = "settle", !.outcome = "patch_rejected_out_of_scope"])
  /\ UNCHANGED <<world, active, archive, packets, code, created, verified, commands>>

Accept(p) ==
  /\ run[p].pc = "mediate"
  /\ InScope(run[p].patch, run[p].id)
  /\ To(p, "apply")
  /\ UNCHANGED <<world, disk, code, created, verified, commands>>

(* git apply reads the file again, which the user may have saved meanwhile.  *)
(* It fails on a patch that is in already, or that does not fit.             *)
Apply(p) ==
  LET r == run[p] IN
  /\ r.pc = "apply"
  /\ \/ \E q \in IF "edit" \in world THEN Patches ELSE {r.patch} :
           /\ applied[q] = None /\ Applicable(q)
           /\ applied' = [applied EXCEPT ![q] = r.id]
           /\ tree' = Effect[q]
           /\ Go(p, [r EXCEPT !.pc = "record", !.status = "accepted"])
     \/ /\ Go(p, [r EXCEPT !.pc = "record", !.status = "apply_failed"])
        /\ UNCHANGED code
  /\ UNCHANGED <<world, disk, created, verified, commands>>

Record(p) ==
  LET r == run[p] IN
  /\ r.pc = "record"
  /\ media' = [media EXCEPT ![r.id] = r.status]
  /\ Go(p, [r EXCEPT !.pc = IF r.status = "accepted" THEN "test" ELSE "settle",
                     !.outcome = "external_patch_received"])
  /\ UNCHANGED <<world, active, archive, packets, code, created, verified, commands>>

Test(p) ==
  LET r == run[p] IN
  /\ r.pc = "test"
  /\ media' = [media EXCEPT ![r.id] = r.status]
  /\ Go(p, [r EXCEPT !.pc = IF tree = "green" THEN "verify" ELSE "settle",
                     !.passed = tree = "green"])
  /\ UNCHANGED <<world, active, archive, packets, code, created, verified, commands>>

(* Without a patch: preflight, then iterations that only ask for one *)

TestsPass(p) ==
  Go(p, [run[p] EXCEPT !.pc = "verify", !.outcome = "preflight_passed", !.passed = TRUE])

Preflight(p) ==
  /\ run[p].pc = "preflight"
  /\ IF tree = "green" THEN TestsPass(p) ELSE To(p, "loop")
  /\ UNCHANGED <<world, disk, code, created, verified, commands>>

Counted(r, alike) ==
  [r EXCEPT !.iterations = @ + 1, !.streak = IF alike THEN @ + 1 ELSE 1]

Iterate(p) ==
  LET r == run[p] IN
  /\ r.pc = "loop"
  /\ CanContinue(r)
  /\ IF tree = "green" THEN TestsPass(p)
     ELSE \E alike \in BOOLEAN :
            LET c == Counted(r, alike) IN
            Go(p, IF Stalled(c)
                  THEN [c EXCEPT !.pc = "settle", !.outcome = "stall_detected"]
                  ELSE c)
  /\ UNCHANGED <<world, disk, code, created, verified, commands>>

Exhaust(p) ==
  /\ run[p].pc = "loop"
  /\ ~CanContinue(run[p])
  /\ Go(p, [run[p] EXCEPT !.pc = "settle", !.outcome = "budget_exhausted"])
  /\ UNCHANGED <<world, disk, code, created, verified, commands>>

----------------------------------------------------------------------------
(* The end of runImplement *)

Verify(p) ==
  LET r == run[p] IN
  /\ r.pc = "verify"
  /\ media' = IF r.patch # None THEN [media EXCEPT ![r.id] = r.status] ELSE media
  /\ \E ok \in BOOLEAN :
       /\ Go(p, [r EXCEPT !.pc = "settle", !.ok = ok,
                          !.outcome = IF ~ok THEN "verify_blocked"
                                      ELSE IF r.patch # None THEN "patch_verified" ELSE @])
       /\ verified' = IF ok THEN verified \cup {r.id} ELSE verified
  /\ UNCHANGED <<world, active, archive, packets, code, created, commands>>

(* The session, read at the start, is written back. *)
Settle(p) ==
  /\ run[p].pc = "settle"
  /\ active' = IF run[p].source = "active" THEN run[p].id ELSE active
  /\ To(p, "archive")
  /\ UNCHANGED <<world, archive, packets, media, code, created, verified, commands>>

Archive(p) ==
  /\ run[p].pc = "archive"
  /\ To(p, IF ShouldArchive(run[p]) THEN "rename" ELSE "handoff")
  /\ UNCHANGED <<world, disk, code, created, verified, commands>>

(* archiveChangeSession moves the session that is active by now. *)
Rename(p) ==
  /\ run[p].pc = "rename"
  /\ active' = None
  /\ archive' = IF active # None THEN archive \cup {active} ELSE archive
  /\ To(p, "handoff")
  /\ UNCHANGED <<world, packets, media, code, created, verified, commands>>

Handoff(p) ==
  LET r == run[p] IN
  /\ r.pc = "handoff"
  /\ packets' = IF ShouldWriteHandoffPacket(r) THEN packets \cup {r.id} ELSE packets
  /\ Go(p, [Quiet EXCEPT !.id = r.id, !.outcome = r.outcome, !.passed = r.passed, !.ok = r.ok])
  /\ UNCHANGED <<world, active, archive, media, code, created, verified, commands>>

Crash(p) ==
  /\ "crash" \in world
  /\ run[p].pc # "idle"
  /\ Go(p, Quiet)
  /\ UNCHANGED <<world, disk, code, created, verified, commands>>

(* The user mends or breaks the code, or takes a patch out. *)
Edit ==
  /\ "edit" \in world
  /\ tree' \in {"red", "green"}
  /\ applied' \in {applied} \cup {[applied EXCEPT ![q] = None] : q \in Patches}
  /\ UNCHANGED <<world, disk, created, verified, run, commands>>

----------------------------------------------------------------------------
Init ==
  /\ world \in Worlds
  /\ active = None /\ archive = {} /\ packets = {}
  /\ media = [s \in Sessions |-> "none"]
  /\ tree \in {"red", "green"}
  /\ applied = [q \in Patches |-> None]
  /\ created = {} /\ verified = {}
  /\ run = [p \in Terminals |-> Quiet]
  /\ commands = 0

Mediate(p) == Reject(p) \/ Accept(p) \/ Apply(p) \/ Record(p) \/ Test(p)
Loop(p) == Preflight(p) \/ Iterate(p) \/ Exhaust(p)
Finish(p) == Verify(p) \/ Settle(p) \/ Archive(p) \/ Rename(p) \/ Handoff(p)

Next ==
  \/ \E p \in Terminals :
       \/ \E s \in Sessions : Change(p, s)
       \/ Implement(p) \/ Load(p)
       \/ Mediate(p) \/ Loop(p) \/ Finish(p) \/ Crash(p)
  \/ Edit

Spec == Init /\ [][Next]_vars

----------------------------------------------------------------------------
(* Properties *)

TypeOK ==
  /\ world \in Worlds
  /\ active \in Sessions \cup {None}
  /\ archive \subseteq Sessions /\ packets \subseteq Sessions
  /\ media \in [Sessions -> {"none", "accepted"} \cup Rejections]
  /\ tree \in {"red", "green"}
  /\ applied \in [Patches -> Sessions \cup {None}]
  /\ created \subseteq Sessions /\ verified \subseteq Sessions
  /\ commands \in 0..MaxCommands
  /\ run \in [Terminals -> Runs]

Alone == "two" \notin world
AllIdle == \A p \in Terminals : run[p].pc = "idle"

(* git's own format: every name has its prefix                               *)
GitFormat(p) ==
  \A line \in Diff[p] : line.kind = "rename" \/ line.name = Nowhere \/ Prefixed(line.name)

(* While nobody edits files: what git changed for a patch in its own format  *)
(* is below a path the session it came under allows, though the scope was    *)
(* decided by another reading of the diff; and a session whose record says   *)
(* accepted has a patch in the tree, whatever crashed or came in between.    *)
MediationHolds ==
  "edit" \notin world =>
    /\ \A q \in Patches : applied[q] # None /\ GitFormat(q) =>
         \A path \in Changes(q) :
           \E n \in 1..Len(path) : SubSeq(path, 1, n) \in Scope[applied[q]]
    /\ \A s \in Sessions : media[s] = "accepted" => \E q \in Patches : applied[q] = s

(* The command the diagnosis (mainline-flow.ts) names for an interrupted     *)
(* session can run: its packet is there and no other session is in the way.  *)
(* And whoever saw implement fail finds a packet to resume from.             *)
RecoveryRuns ==
  "crash" \notin world /\ AllIdle =>
    /\ \A s \in Diagnosed : s \in packets /\ active \in {None, s}
    /\ \A p \in Terminals :
         run[p].outcome # None /\ ~(run[p].passed /\ run[p].ok) => run[p].id \in packets

(* A run without a patch gives up after at most five iterations, or the      *)
(* third time in a row the tests fail alike, whatever its limits.            *)
StallBound ==
  \A p \in Terminals : run[p].iterations <= 5 /\ run[p].streak <= 3

(* With one terminal, a session is archived only once verify accepted it, on *)
(* green tests unless somebody edits the code meanwhile.                     *)
FinishedGreen ==
  [][\A s \in archive' \ archive :
       Alone => /\ s \in verified
                /\ "edit" \notin world => tree = "green"]_vars

(* With one terminal, the active session leaves only for the archive or      *)
(* because `change` opened another.                                          *)
SessionsStay ==
  [][Alone /\ active # None /\ active' # active
       => active \in archive' \/ created' # created]_vars
=============================================================================
