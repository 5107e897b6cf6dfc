------------------------ MODULE ImplementMainlineProofs ------------------------
(* Safety of ImplementMainline for any number of terminals, sessions and       *)
(* patches, any scopes and any limits.                                         *)
EXTENDS ImplementMainline, TLAPS

USE MainlineAssumption

Open == {"load", "mediate", "apply", "record", "test", "preflight", "loop"}
Ending == {"settle", "archive", "rename", "handoff"}

(* What a command has come to at each point of it                              *)
Sound(r) ==
  /\ r.pc \notin {"idle", "load"} => r.id \in Sessions
  /\ r.pc \in Open => ~r.passed /\ ~r.ok
  /\ r.pc \in Open \ {"loop"} => r.iterations = 0 /\ r.streak = 0
  /\ r.pc = "loop" => r.iterations <= 4 /\ r.streak <= 2
  /\ r.pc \in {"mediate", "apply", "record", "test"} => r.patch \in Patches
  /\ r.pc = "apply" => InScope(r.patch, r.id)
  /\ r.pc \in {"preflight", "loop"} => r.patch = None
  /\ r.pc = "record" => r.status \in {"accepted", "apply_failed"}
  /\ r.pc = "test" => r.status = "accepted" /\ r.outcome = "external_patch_received"
  /\ r.pc = "verify" => r.passed /\ ~r.ok /\ (r.patch # None => r.status = "accepted")
  /\ r.pc \in Ending => (r.passed /\ r.ok) \/ ShouldWriteHandoffPacket(r)
  /\ r.ok => r.passed

(* What it has left on disk, and which ending still owes a packet              *)
Left(r, accepted, written) ==
  /\ r.ok => r.id \in accepted
  /\ r.pc = "idle" /\ r.outcome # None /\ ~(r.passed /\ r.ok) => r.id \in written

Owed(s) == \E p \in Terminals :
  run[p].pc \in Ending /\ run[p].id = s /\ ShouldWriteHandoffPacket(run[p])

Packeted ==
  "crash" \notin world =>
    \A s \in Sessions : media[s] \in Rejections => s \in packets \/ Owed(s)

(* A command that is going to record an accepted patch                          *)
Claims(r) == r.pc \in {"record", "test", "verify"} /\ r.patch # None /\ r.status = "accepted"

InTree(s, patches) == \E q \in Patches : patches[q] = s

ClaimsHold ==
  "edit" \notin world => \A p \in Terminals : Claims(run[p]) => InTree(run[p].id, applied)

IInv ==
  /\ TypeOK
  /\ \A p \in Terminals : Sound(run[p]) /\ Left(run[p], verified, packets)
  /\ MediationHolds
  /\ ClaimsHold
  /\ Packeted

----------------------------------------------------------------------------
(* One command moves and the others keep what they have.                       *)
LEMMA Moved ==
  ASSUME TypeOK, NEW p \in Terminals, NEW r \in Runs, Go(p, r)
  PROVE  /\ run' \in [Terminals -> Runs]
         /\ run'[p] = r
         /\ \A q \in Terminals \ {p} : run'[q] = run[q]
BY DEF TypeOK, Go

(* The invariant of commands is kept when the one that moves is sound and      *)
(* nothing disappears from the history or the packets.                         *)
LEMMA RunsKept ==
  ASSUME IInv, NEW p \in Terminals, NEW r \in Runs, Go(p, r), Sound(r), Left(r, verified', packets'),
         verified \subseteq verified', packets \subseteq packets'
  PROVE  \A q \in Terminals : Sound(run'[q]) /\ Left(run'[q], verified', packets')
<1> SUFFICES ASSUME NEW q \in Terminals
             PROVE  Sound(run'[q]) /\ Left(run'[q], verified', packets')
  OBVIOUS
<1>1. CASE q = p
  <2>1. run'[q] = r
    BY <1>1, Moved DEF IInv
  <2> QED  BY <2>1 DEF Left
<1>2. CASE q # p
  <2>1. run'[q] = run[q] /\ Sound(run[q]) /\ Left(run[q], verified, packets)
    BY <1>2, Moved DEF IInv
  <2> QED  BY <2>1 DEF Left
<1> QED  BY <1>1, <1>2

(* A failed patch has its packet, or a command that still owes it: one that    *)
(* moves towards the packet, or the one that has just recorded the failure.    *)
LEMMA PacketsKept ==
  ASSUME IInv, NEW p \in Terminals, NEW r \in Runs, Go(p, r), UNCHANGED world,
         packets \subseteq packets',
         \A s \in Sessions : media'[s] \in Rejections =>
           \/ media[s] \in Rejections
           \/ r.pc \in Ending /\ r.id = s /\ ShouldWriteHandoffPacket(r),
         run[p].pc \in Ending /\ ShouldWriteHandoffPacket(run[p]) =>
           \/ run[p].id \in packets'
           \/ r.pc \in Ending /\ r.id = run[p].id /\ ShouldWriteHandoffPacket(r)
  PROVE  Packeted'
<1> SUFFICES ASSUME "crash" \notin world, NEW s \in Sessions, media'[s] \in Rejections,
                    s \notin packets'
             PROVE  Owed(s)'
  BY DEF Packeted, Rejections
<1>1. run'[p] = r /\ \A q \in Terminals \ {p} : run'[q] = run[q]
  BY Moved DEF IInv
<1>2. CASE r.pc \in Ending /\ r.id = s /\ ShouldWriteHandoffPacket(r)
  BY <1>1, <1>2 DEF Owed, ShouldWriteHandoffPacket
<1>3. CASE media[s] \in Rejections
  <2>1. PICK q \in Terminals :
          run[q].pc \in Ending /\ run[q].id = s /\ ShouldWriteHandoffPacket(run[q])
    BY <1>3 DEF IInv, Packeted, Owed
  <2>2. run'[q].pc \in Ending /\ run'[q].id = s /\ ShouldWriteHandoffPacket(run'[q])
    BY <1>1, <2>1
  <2> QED  BY <2>2 DEF Owed, ShouldWriteHandoffPacket
<1> QED  BY <1>2, <1>3

(* What a step that leaves the tree alone may write into mediation records      *)
LEMMA MediationKept ==
  ASSUME IInv, UNCHANGED <<world, applied>>, NEW p \in Terminals,
         \A s \in Sessions : media'[s] = "accepted" =>
           media[s] = "accepted" \/ (Claims(run[p]) /\ run[p].id = s)
  PROVE  MediationHolds'
<1> SUFFICES ASSUME "edit" \notin world
             PROVE  MediationHolds'
  BY DEF MediationHolds
<1>1. \A q \in Patches : applied'[q] # None /\ GitFormat(q) =>
        \A path \in Changes(q) :
          \E n \in 1..Len(path) : SubSeq(path, 1, n) \in Scope[applied'[q]]
  BY DEF IInv, MediationHolds
<1>2. \A s \in Sessions : media'[s] = "accepted" => \E q \in Patches : applied'[q] = s
  BY DEF IInv, MediationHolds, ClaimsHold, InTree
<1> QED  BY <1>1, <1>2 DEF MediationHolds

(* What a step of a command has to show                                        *)
LEMMA Steps ==
  ASSUME IInv, NEW p \in Terminals, NEW r \in Runs, Go(p, r), Sound(r), Left(r, verified', packets'),
         UNCHANGED world,
         active' \in Sessions \cup {None}, archive' \subseteq Sessions,
         packets \subseteq packets', packets' \subseteq Sessions,
         verified \subseteq verified', verified' \subseteq Sessions,
         media' \in [Sessions -> {"none", "accepted"} \cup Rejections],
         tree' \in {"red", "green"}, applied' \in [Patches -> Sessions \cup {None}],
         created' \subseteq Sessions, commands' \in 0..MaxCommands,
         MediationHolds',
         "edit" \notin world => \A q \in Patches : applied[q] # None => applied'[q] = applied[q],
         "edit" \notin world /\ Claims(r) => InTree(r.id, applied'),
         \A s \in Sessions : media'[s] \in Rejections =>
           \/ media[s] \in Rejections
           \/ r.pc \in Ending /\ r.id = s /\ ShouldWriteHandoffPacket(r),
         run[p].pc \in Ending /\ ShouldWriteHandoffPacket(run[p]) =>
           \/ run[p].id \in packets'
           \/ r.pc \in Ending /\ r.id = run[p].id /\ ShouldWriteHandoffPacket(r)
  PROVE  IInv'
<1>1. TypeOK'
  <2>1. world' \in Worlds
    BY DEF IInv, TypeOK
  <2>2. run' \in [Terminals -> Runs]
    BY Moved DEF IInv
  <2>3. Rejections' = Rejections /\ Runs' = Runs
    BY DEF Rejections, Runs, Busy, Outcomes
  <2> QED  BY <2>1, <2>2, <2>3 DEF TypeOK
<1>2. \A q \in Terminals : Sound(run'[q]) /\ Left(run'[q], verified', packets')
  BY RunsKept
<1>3. \A q \in Terminals : Sound(run[q])'
  BY <1>2 DEF Sound, ShouldWriteHandoffPacket
<1>4. Packeted'
  BY PacketsKept
<1>5. ClaimsHold'
  <2> SUFFICES ASSUME "edit" \notin world, NEW q \in Terminals, Claims(run'[q])
               PROVE  InTree(run'[q].id, applied')
    BY DEF ClaimsHold, Claims
  <2>1. CASE q = p
    <3>1. run'[q] = r
      BY <2>1, Moved DEF IInv
    <3> QED  BY <3>1 DEF InTree
  <2>2. CASE q # p
    <3>1. run'[q] = run[q]
      BY <2>2, Moved DEF IInv
    <3>2. PICK t \in Patches : applied[t] = run[q].id
      BY <3>1 DEF IInv, ClaimsHold, InTree
    <3>3. run[q].id \in Sessions
      BY <3>1 DEF IInv, Sound, Claims
    <3>4. applied'[t] = run'[q].id
      BY <3>1, <3>2, <3>3
    <3> QED  BY <3>4 DEF InTree
  <2> QED  BY <2>1, <2>2
<1> QED  BY <1>1, <1>2, <1>3, <1>4, <1>5 DEF IInv

(* A step that leaves disk and code alone                                      *)
LEMMA OnlyMoves ==
  ASSUME IInv, NEW p \in Terminals, NEW r \in Runs, Go(p, r), Sound(r), Left(r, verified', packets'),
         UNCHANGED <<world, disk, code, created, verified, commands>>, ~Claims(r),
         run[p].pc \in Ending /\ ShouldWriteHandoffPacket(run[p]) =>
           r.pc \in Ending /\ r.id = run[p].id /\ ShouldWriteHandoffPacket(r)
  PROVE  IInv'
<1>1. UNCHANGED <<world, active, archive, packets, media, tree, applied, created,
                  verified, commands>>
  BY DEF disk, code
<1>2. MediationHolds'
  BY <1>1, MediationKept
<1>3. TypeOK
  BY DEF IInv
<1> QED  BY <1>1, <1>2, <1>3, Steps DEF TypeOK

(* In git's own format the parser finds every path git changes, or git refuses *)
(* the patch: a name it would drop or rewrite is not an ordinary path.         *)
LEMMA ParserSeesChanges ==
  ASSUME NEW q \in Patches, GitFormat(q), Applicable(q), NEW path \in Changes(q)
  PROVE  path \in Touched(q) /\ path \in Seq(Segments) /\ path # <<>>
<1>1. PICK line \in Diff[q] : path \in GitNames(line)
  BY DEF Changes
<1>2. line \in Lines
  OBVIOUS
<1>3. Ordinary(path)
  BY DEF Applicable
<1>4. line.name # Nowhere /\ path = IF line.kind = "rename" THEN line.name ELSE Tail(line.name)
  BY <1>1 DEF GitNames
<1>5. line.kind # "rename" => Prefixed(line.name)
  BY <1>4 DEF GitFormat
<1>6. path \in ChangedPaths(line)
  BY <1>3, <1>4, <1>5 DEF ChangedPaths, Normalized
<1>7. line.name \in Seq(Segments) /\ line.name # <<>>
  BY <1>2 DEF Lines
<1>8. path # <<>>
  BY <1>3 DEF Ordinary
<1>9. path \in Touched(q)
  BY <1>6 DEF Touched
<1>10. path \in Seq(Segments)
  BY <1>4, <1>7
<1> QED  BY <1>8, <1>9, <1>10

(* What validatePatchScope lets through changes nothing but what has an allowed *)
(* path above it.                                                               *)
LEMMA ScopeIsAbove ==
  ASSUME NEW q \in Patches, NEW s \in Sessions, InScope(q, s), GitFormat(q), Applicable(q),
         NEW path \in Changes(q)
  PROVE  \E n \in 1..Len(path) : SubSeq(path, 1, n) \in Scope[s]
<1>0. path \in Touched(q) /\ path \in Seq(Segments)
  BY ParserSeesChanges
<1>1. PICK allowed \in Scope[s] : IsPrefix(allowed, path)
  BY <1>0 DEF InScope, Within
<1>2. allowed \in Seq(Segments) /\ allowed # <<>>
  OBVIOUS
<1>3. Len(allowed) \in 1..Len(path)
  BY <1>0, <1>1, <1>2 DEF IsPrefix
<1>4. SubSeq(allowed, 1, Len(allowed)) = allowed
  BY <1>2
<1>5. SubSeq(path, 1, Len(allowed)) = allowed
  BY <1>1, <1>4 DEF IsPrefix
<1> QED  BY <1>3, <1>5

(* The state after a command is given                                          *)
LEMMA Commanded ==
  ASSUME IInv, NEW p \in Terminals, Command(p)
  PROVE  commands' \in 0..MaxCommands /\ run[p].pc = "idle"
BY DEF IInv, TypeOK, Command

LEMMA QuietSound == Quiet \in Runs /\ Sound(Quiet)
BY DEF Quiet, Runs, Sound, Open, Ending

----------------------------------------------------------------------------
(* Giving a command, looking the session up                                    *)
LEMMA CommandsKeep ==
  ASSUME IInv, NEW p \in Terminals,
         Implement(p) \/ \E s \in Sessions : Change(p, s)
  PROVE  IInv'
<1> USE DEF disk, code
<1>0. TypeOK /\ Quiet \in Runs
  BY QuietSound DEF IInv
<1>1. CASE Implement(p)
  <2>1. PICK from \in {s \in Sessions : Restorable(s)} \cup {None}, id \in created \cup {None},
             patch \in Patches \cup {None}, limit \in Limits \cup {None} :
          /\ active' = IF from # None THEN from ELSE active
          /\ Go(p, [Quiet EXCEPT !.pc = "load", !.from = from, !.id = id,
                                 !.patch = patch, !.limit = limit])
    BY <1>1 DEF Implement
  <2> DEFINE r == [Quiet EXCEPT !.pc = "load", !.from = from, !.id = id,
                                !.patch = patch, !.limit = limit]
  <2>2. r \in Runs /\ Sound(r) /\ Left(r, verified', packets')
    <3>1. /\ r.pc = "load" /\ ~r.passed /\ ~r.ok /\ r.iterations = 0 /\ r.streak = 0
          /\ r.outcome = None
      BY DEF Quiet
    <3>2. id \in Sessions \cup {None}
      BY <1>0 DEF TypeOK
    <3>3. r \in Runs
      BY <1>0, <3>2 DEF Quiet, Runs, Busy
    <3> QED  BY <3>1, <3>3 DEF Sound, Left, Open, Ending
  <2>3. commands' \in 0..MaxCommands /\ run[p].pc = "idle"
    BY <1>1, Commanded DEF Implement
  <2>4. MediationHolds' /\ ~Claims(r)
    <3>1. r.pc = "load"
      BY DEF Quiet
    <3>2. UNCHANGED <<world, applied, media>>
      BY <1>1 DEF Implement
    <3> QED  BY <3>1, <3>2, MediationKept DEF Claims
  <2>5. UNCHANGED <<world, archive, packets, media, tree, applied, created, verified>>
    BY <1>1 DEF Implement
  <2>6. run[p].pc \notin Ending
    BY <2>3 DEF Ending
  <2>7. active' \in Sessions \cup {None}
    BY <1>0, <2>1 DEF TypeOK
  <2>8. Go(p, r)
    BY <2>1
  <2> HIDE DEF r
  <2> QED  BY <1>0, <2>2, <2>3, <2>4, <2>5, <2>6, <2>7, <2>8, Steps DEF TypeOK
<1>2. ASSUME NEW s \in Sessions, Change(p, s)
      PROVE  IInv'
  <2>1. PICK r : /\ Go(p, r)
                 /\ \/ r = Quiet
                    \/ \E limit \in Limits \cup {None} :
                         r = [Quiet EXCEPT !.pc = "load", !.id = s, !.limit = limit]
    BY <1>2 DEF Change
  <2>2. /\ r \in Runs /\ r.pc \in {"idle", "load"} /\ r.outcome = None /\ ~r.passed /\ ~r.ok
        /\ r.iterations = 0 /\ r.streak = 0
    <3>1. CASE r = Quiet
      BY <1>0, <3>1 DEF Quiet
    <3>2. ASSUME NEW limit \in Limits \cup {None},
                 r = [Quiet EXCEPT !.pc = "load", !.id = s, !.limit = limit]
          PROVE  /\ r \in Runs /\ r.pc \in {"idle", "load"} /\ r.outcome = None
                 /\ ~r.passed /\ ~r.ok /\ r.iterations = 0 /\ r.streak = 0
      <4>1. r = [pc |-> "load", from |-> None, id |-> s, patch |-> None, limit |-> limit,
                 source |-> "active", outcome |-> None, passed |-> FALSE, ok |-> FALSE,
                 status |-> "none", iterations |-> 0, streak |-> 0]
        BY <3>2 DEF Quiet
      <4> QED  BY <4>1 DEF Runs, Busy
    <3> QED  BY <2>1, <3>1, <3>2
  <2>3. Sound(r) /\ Left(r, verified', packets')
    BY <2>2 DEF Sound, Left, Open, Ending
  <2>4. commands' \in 0..MaxCommands /\ run[p].pc = "idle"
    BY <1>2, Commanded DEF Change
  <2>5. MediationHolds' /\ ~Claims(r)
    <3>1. UNCHANGED <<world, applied, media>>
      BY <1>2 DEF Change
    <3> QED  BY <2>2, <3>1, MediationKept DEF Claims
  <2>6. /\ UNCHANGED <<world, archive, packets, media, tree, applied, verified>>
        /\ active' = s /\ created' = created \cup {s}
    BY <1>2 DEF Change
  <2>7. run[p].pc \notin Ending
    BY <2>4 DEF Ending
  <2>8. Go(p, r)
    BY <2>1
  <2>9. active' \in Sessions \cup {None} /\ created' \subseteq Sessions
    BY <1>0, <2>6 DEF TypeOK
  <2> QED  BY <1>0, <2>2, <2>3, <2>4, <2>5, <2>6, <2>7, <2>8, <2>9, Steps DEF TypeOK
<1> QED  BY <1>1, <1>2

LEMMA LoadKeeps ==
  ASSUME IInv, NEW p \in Terminals, Load(p)
  PROVE  IInv'
<1>0. run[p] \in Runs /\ Sound(run[p]) /\ run[p].pc = "load"
  BY DEF IInv, TypeOK, Load
<1>1. CASE Go(p, Quiet)
  <2>1. Left(Quiet, verified', packets') /\ ~Claims(Quiet)
    BY DEF Left, Quiet, Claims
  <2> QED  BY <1>0, <1>1, <2>1, QuietSound, OnlyMoves DEF Load, Ending
<1>2. CASE ~Go(p, Quiet)
  <2> DEFINE s == Wanted(run[p])
             r == [run[p] EXCEPT !.pc = IF run[p].patch # None THEN "mediate" ELSE "preflight",
                                 !.id = s, !.from = None,
                                 !.source = IF active = s THEN "active" ELSE "archived"]
  <2>1. Go(p, r) /\ s # None /\ (active = s \/ s \in archive)
    BY <1>2 DEF Load
  <2>2. s \in Sessions
    BY <2>1 DEF IInv, TypeOK
  <2>3. /\ ~run[p].passed /\ ~run[p].ok /\ run[p].iterations = 0 /\ run[p].streak = 0
        /\ run[p].patch # None => run[p].patch \in Patches
    BY <1>0 DEF Sound, Open, Runs
  <2>4. /\ r \in Runs /\ ~r.passed /\ ~r.ok /\ r.iterations = 0 /\ r.streak = 0
        /\ r.pc = IF run[p].patch # None THEN "mediate" ELSE "preflight"
        /\ r.id = s /\ r.patch = run[p].patch
    <3>1. r \in Runs
      <4>1. PICK pc \in Busy, source \in {"active", "archived"} :
              r = [run[p] EXCEPT !.pc = pc, !.id = s, !.from = None, !.source = source]
        BY DEF Busy
      <4> HIDE DEF r
      <4> QED  BY <1>0, <2>2, <4>1 DEF Runs
    <3> QED  BY <1>0, <2>2, <2>3, <3>1 DEF Runs
  <2>5. Sound(r) /\ Left(r, verified', packets') /\ ~Claims(r)
    BY <2>2, <2>3, <2>4 DEF Sound, Left, Open, Ending, Claims
  <2> HIDE DEF r
  <2> QED  BY <1>0, <2>1, <2>4, <2>5, OnlyMoves DEF Load, Ending
<1> QED  BY <1>1, <1>2

(* Mediation                                                                   *)
LEMMA RejectKeeps ==
  ASSUME IInv, NEW p \in Terminals, Reject(p)
  PROVE  IInv'
<1> USE DEF code
<1> DEFINE r == [run[p] EXCEPT !.pc = "settle", !.outcome = "patch_rejected_out_of_scope"]
<1>0. TypeOK /\ run[p] \in Runs /\ Sound(run[p]) /\ run[p].pc = "mediate"
  BY DEF IInv, TypeOK, Reject
<1>1. run[p].id \in Sessions /\ ~run[p].ok
  BY <1>0 DEF Sound, Open
<1>2. /\ r \in Runs /\ Sound(r) /\ Left(r, verified', packets') /\ r.pc \in Ending /\ r.id = run[p].id
      /\ ShouldWriteHandoffPacket(r)
  <2>1. r \in Runs
    BY <1>0 DEF Runs, Busy, Outcomes
  <2>2. /\ r.pc = "settle" /\ r.outcome = "patch_rejected_out_of_scope" /\ ~r.ok
        /\ r.id = run[p].id
    BY <1>0, <1>1 DEF Runs
  <2> QED  BY <1>1, <2>1, <2>2 DEF Sound, Left, Open, Ending, ShouldWriteHandoffPacket
<1>4. Go(p, r) /\ media' = [media EXCEPT ![run[p].id] = "rejected_out_of_scope"]
  BY DEF Reject
<1>5. UNCHANGED <<world, active, archive, packets, tree, applied, created, verified, commands>>
  BY DEF Reject
<1>6. /\ media' \in [Sessions -> {"none", "accepted"} \cup Rejections]
      /\ \A s \in Sessions \ {run[p].id} : media'[s] = media[s]
  BY <1>0, <1>1, <1>4 DEF TypeOK, Rejections
<1>7. run[p].pc \notin Ending
  BY <1>0 DEF Ending
<1>3. MediationHolds' /\ ~Claims(r)
  <2>1. media'[run[p].id] # "accepted"
    BY <1>0, <1>1, <1>4 DEF TypeOK
  <2> QED  BY <1>2, <1>5, <1>6, <2>1, MediationKept DEF Claims, Ending
<1> HIDE DEF r
<1> QED  BY <1>0, <1>1, <1>2, <1>3, <1>4, <1>5, <1>6, <1>7, Steps DEF TypeOK

LEMMA AcceptKeeps ==
  ASSUME IInv, NEW p \in Terminals, Accept(p)
  PROVE  IInv'
<1>0. run[p] \in Runs /\ Sound(run[p]) /\ run[p].pc = "mediate"
  BY DEF IInv, TypeOK, Accept
<1>1. PICK r : Go(p, r) /\ r = [run[p] EXCEPT !.pc = "apply"]
  BY DEF Accept, To
<1>2. /\ r \in Runs /\ r.pc = "apply" /\ r.id = run[p].id /\ r.patch = run[p].patch
      /\ r.passed = run[p].passed /\ r.ok = run[p].ok
      /\ r.iterations = run[p].iterations /\ r.streak = run[p].streak
  BY <1>0, <1>1 DEF Runs, Busy
<1>3. Sound(r) /\ Left(r, verified', packets') /\ ~Claims(r)
  BY <1>0, <1>2 DEF Accept, Sound, Left, Open, Ending, Claims
<1> QED  BY <1>0, <1>1, <1>2, <1>3, OnlyMoves DEF Accept, Ending

LEMMA ApplyKeeps ==
  ASSUME IInv, NEW p \in Terminals, Apply(p)
  PROVE  IInv'
<1> USE DEF disk, code
<1>0. TypeOK /\ run[p] \in Runs /\ Sound(run[p]) /\ run[p].pc = "apply"
  BY DEF IInv, TypeOK, Apply
<1>1. /\ run[p].id \in Sessions /\ run[p].patch \in Patches /\ ~run[p].ok /\ ~run[p].passed
      /\ InScope(run[p].patch, run[p].id)
  BY <1>0 DEF Sound, Open
<1>2. PICK status \in {"accepted", "apply_failed"}, t \in Patches :
        /\ Go(p, [run[p] EXCEPT !.pc = "record", !.status = status])
        /\ IF status = "accepted"
           THEN /\ applied[t] = None /\ Applicable(t)
                /\ applied' = [applied EXCEPT ![t] = run[p].id] /\ tree' = Effect[t]
                /\ "edit" \notin world => t = run[p].patch
           ELSE UNCHANGED <<applied, tree>>
  BY <1>1 DEF Apply
<1> DEFINE r == [run[p] EXCEPT !.pc = "record", !.status = status]
<1>3. r \in Runs /\ Sound(r) /\ Left(r, verified', packets')
  BY <1>0, <1>1 DEF Runs, Sound, Left, Open, Ending, Busy
<1>4. UNCHANGED <<world, active, archive, packets, media, created, verified, commands>>
  BY DEF Apply
<1>5. tree' \in {"red", "green"} /\ applied' \in [Patches -> Sessions \cup {None}]
  BY <1>0, <1>1, <1>2 DEF TypeOK
<1>6. \A q \in Patches : applied[q] # None => applied'[q] = applied[q]
  BY <1>0, <1>2 DEF TypeOK
<1>7. \A q \in Patches : applied'[q] # applied[q] => q = t /\ applied'[q] = run[p].id
  BY <1>0, <1>2 DEF TypeOK
<1>8. MediationHolds'
  <2> SUFFICES ASSUME "edit" \notin world
               PROVE  MediationHolds'
    BY <1>4 DEF MediationHolds
  <2>1. ASSUME NEW q \in Patches, applied'[q] # None, GitFormat(q), NEW path \in Changes(q)
        PROVE  \E n \in 1..Len(path) : SubSeq(path, 1, n) \in Scope[applied'[q]]
    <3>1. CASE applied'[q] = applied[q]
      BY <2>1, <3>1 DEF IInv, MediationHolds
    <3>2. CASE applied'[q] # applied[q]
      <4>1. q = run[p].patch /\ applied'[q] = run[p].id /\ Applicable(q)
        BY <1>2, <1>7, <3>2
      <4> QED  BY <1>1, <2>1, <4>1, ScopeIsAbove
    <3> QED  BY <3>1, <3>2
  <2>2. ASSUME NEW s \in Sessions, media'[s] = "accepted"
        PROVE  \E q \in Patches : applied'[q] = s
    <3>1. PICK q \in Patches : applied[q] = s
      BY <1>4, <2>2 DEF IInv, MediationHolds
    <3> QED  BY <1>6, <3>1
  <2> QED  BY <2>1, <2>2 DEF MediationHolds
<1>9. Claims(r) => InTree(r.id, applied')
  <2>1. r.id = run[p].id /\ r.status = status
    BY <1>0 DEF Runs
  <2>2. status = "accepted" => applied'[t] = run[p].id
    BY <1>0, <1>2 DEF TypeOK
  <2> QED  BY <2>1, <2>2 DEF Claims, InTree
<1>10. run[p].pc \notin Ending
  BY <1>0 DEF Ending
<1>11. Go(p, r)
  BY <1>2
<1> HIDE DEF r
<1> QED  BY <1>0, <1>3, <1>4, <1>5, <1>6, <1>8, <1>9, <1>10, <1>11, Steps DEF TypeOK

\* What the later steps of a command change of it.
LEMMA RunChanged ==
  ASSUME NEW q \in Runs, NEW pc \in Busy \cup {"idle"}, NEW outcome \in Outcomes \cup {None},
         NEW ok \in BOOLEAN
  PROVE  [q EXCEPT !.pc = pc, !.ok = ok, !.outcome = outcome] \in Runs
  BY DEF Runs

LEMMA RecordKeeps ==
  ASSUME IInv, NEW p \in Terminals, Record(p)
  PROVE  IInv'
<1> USE DEF code
<1> DEFINE r == [run[p] EXCEPT !.pc = IF run[p].status = "accepted" THEN "test" ELSE "settle",
                               !.outcome = "external_patch_received"]
<1>0. TypeOK /\ run[p] \in Runs /\ Sound(run[p]) /\ run[p].pc = "record"
  BY DEF IInv, TypeOK, Record
<1>1. /\ run[p].id \in Sessions /\ run[p].patch \in Patches /\ ~run[p].ok /\ ~run[p].passed
      /\ run[p].status \in {"accepted", "apply_failed"}
  BY <1>0 DEF Sound, Open
<1>2. r \in Runs /\ Sound(r) /\ Left(r, verified', packets') /\ r.id = run[p].id
  <2>1. r \in Runs
    <3>1. PICK pc \in Busy : pc = IF run[p].status = "accepted" THEN "test" ELSE "settle"
      BY DEF Busy
    <3> QED
      BY <1>0, <3>1 DEF Runs, Outcomes
  <2>2. /\ r.pc = IF run[p].status = "accepted" THEN "test" ELSE "settle"
        /\ r.outcome = "external_patch_received" /\ r.id = run[p].id /\ r.patch = run[p].patch
        /\ r.status = run[p].status /\ r.passed = run[p].passed /\ r.ok = run[p].ok
        /\ r.iterations = run[p].iterations /\ r.streak = run[p].streak
    BY <1>0 DEF Runs
  <2>3. run[p].iterations = 0 /\ run[p].streak = 0
    BY <1>0 DEF Sound, Open
  <2> QED
    BY <1>1, <2>1, <2>2, <2>3 DEF Sound, Left, Open, Ending, ShouldWriteHandoffPacket
<1>3. run[p].status = "apply_failed" => r.pc \in Ending /\ ShouldWriteHandoffPacket(r)
  BY <1>0, <1>1 DEF Runs, Ending, ShouldWriteHandoffPacket
<1>5. Go(p, r) /\ media' = [media EXCEPT ![run[p].id] = run[p].status]
  BY DEF Record
<1>6. UNCHANGED <<world, active, archive, packets, tree, applied, created, verified, commands>>
  BY DEF Record
<1>7. /\ media' \in [Sessions -> {"none", "accepted"} \cup Rejections]
      /\ \A s \in Sessions \ {run[p].id} : media'[s] = media[s]
      /\ media'[run[p].id] = run[p].status
  BY <1>0, <1>1, <1>5 DEF TypeOK, Rejections
<1>8. run[p].pc \notin Ending /\ "accepted" \notin Rejections
  BY <1>0 DEF Ending, Rejections
<1>4. MediationHolds' /\ ("edit" \notin world /\ Claims(r) => InTree(r.id, applied'))
  <2>1. run[p].status = "accepted" => Claims(run[p])
    BY <1>0, <1>1 DEF Claims
  <2>2. MediationHolds'
    BY <1>6, <1>7, <2>1, MediationKept
  <2>3. Claims(r) => Claims(run[p])
    BY <1>0, <1>1, <2>1 DEF Claims, Runs
  <2> QED  BY <1>2, <1>6, <2>2, <2>3 DEF IInv, ClaimsHold, InTree
<1> HIDE DEF r
<1> QED  BY <1>0, <1>1, <1>2, <1>3, <1>4, <1>5, <1>6, <1>7, <1>8, Steps DEF TypeOK

(* The mediation record is written again, as accepted.                         *)
LEMMA AcceptedAgain ==
  ASSUME TypeOK, NEW s \in Sessions,
         media' = [media EXCEPT ![s] = "accepted"] \/ media' = media
  PROVE  /\ media' \in [Sessions -> {"none", "accepted"} \cup Rejections]
         /\ \A t \in Sessions \ {s} : media'[t] = media[t]
         /\ \A t \in Sessions : media'[t] \in Rejections => media[t] \in Rejections
BY DEF TypeOK, Rejections

LEMMA TestKeeps ==
  ASSUME IInv, NEW p \in Terminals, Test(p)
  PROVE  IInv'
<1> USE DEF code
<1> DEFINE r == [run[p] EXCEPT !.pc = IF tree = "green" THEN "verify" ELSE "settle",
                               !.passed = tree = "green"]
<1>0. TypeOK /\ run[p] \in Runs /\ Sound(run[p]) /\ run[p].pc = "test"
  BY DEF IInv, TypeOK, Test
<1>1. /\ run[p].id \in Sessions /\ ~run[p].ok
      /\ run[p].status = "accepted" /\ run[p].outcome = "external_patch_received"
  BY <1>0 DEF Sound, Open
<1>2. r \in Runs /\ Sound(r) /\ Left(r, verified', packets')
  BY <1>0, <1>1 DEF Runs, Sound, Left, Open, Ending, Busy, ShouldWriteHandoffPacket
<1>4. Go(p, r) /\ media' = [media EXCEPT ![run[p].id] = "accepted"]
  BY <1>1 DEF Test
<1>5. UNCHANGED <<world, active, archive, packets, tree, applied, created, verified, commands>>
  BY DEF Test
<1>6. run[p].pc \notin Ending
  BY <1>0 DEF Ending
<1>7. /\ media' \in [Sessions -> {"none", "accepted"} \cup Rejections]
      /\ \A t \in Sessions : media'[t] \in Rejections => media[t] \in Rejections
      /\ \A t \in Sessions \ {run[p].id} : media'[t] = media[t]
  BY <1>0, <1>1, <1>4, AcceptedAgain
<1>3. MediationHolds' /\ ("edit" \notin world /\ Claims(r) => InTree(r.id, applied'))
  <2>1. Claims(run[p])
    BY <1>0, <1>1 DEF Claims, Sound
  <2>2. MediationHolds'
    BY <1>5, <1>7, <2>1, MediationKept
  <2>3. r.id = run[p].id
    BY <1>0 DEF Runs
  <2> QED  BY <1>5, <2>1, <2>2, <2>3 DEF IInv, ClaimsHold, InTree
<1> HIDE DEF r
<1> QED  BY <1>0, <1>2, <1>3, <1>4, <1>5, <1>6, <1>7, Steps DEF TypeOK

(* Without a patch                                                             *)
LEMMA PreflightKeeps ==
  ASSUME IInv, NEW p \in Terminals, Preflight(p)
  PROVE  IInv'
<1>0. run[p] \in Runs /\ Sound(run[p]) /\ run[p].pc = "preflight"
  BY DEF IInv, TypeOK, Preflight
<1>1. /\ run[p].id \in Sessions /\ ~run[p].ok /\ ~run[p].passed /\ run[p].patch = None
      /\ run[p].iterations = 0 /\ run[p].streak = 0
  BY <1>0 DEF Sound, Open
<1>2. PICK r : /\ Go(p, r)
               /\ \/ r = [run[p] EXCEPT !.pc = "verify", !.outcome = "preflight_passed",
                                         !.passed = TRUE]
                  \/ r = [run[p] EXCEPT !.pc = "loop"]
  BY DEF Preflight, TestsPass, To
<1>3. r \in Runs /\ Sound(r) /\ Left(r, verified', packets') /\ ~Claims(r)
  <2>1. CASE r = [run[p] EXCEPT !.pc = "loop"]
    <3>1. /\ r \in Runs /\ r.pc = "loop" /\ r.id = run[p].id /\ ~r.passed /\ ~r.ok
          /\ r.patch = None /\ r.iterations = 0 /\ r.streak = 0
      BY <1>0, <1>1, <2>1 DEF Runs, Busy
    <3> QED  BY <1>1, <3>1 DEF Sound, Left, Open, Ending, Claims
  <2>2. CASE r # [run[p] EXCEPT !.pc = "loop"]
    <3>1. r = [run[p] EXCEPT !.pc = "verify", !.outcome = "preflight_passed", !.passed = TRUE]
      BY <1>2, <2>2
    <3>2. r \in Runs
      BY <1>0, <3>1 DEF Runs, Busy, Outcomes
    <3>3. /\ r.pc = "verify" /\ r.id = run[p].id /\ r.passed /\ ~r.ok
          /\ r.patch = None
      BY <1>0, <1>1, <3>1 DEF Runs
    <3> QED  BY <1>1, <3>2, <3>3 DEF Sound, Left, Open, Ending, Claims
  <2> QED  BY <2>1, <2>2
<1> QED  BY <1>0, <1>2, <1>3, OnlyMoves DEF Preflight, Ending

LEMMA IterateKeeps ==
  ASSUME IInv, NEW p \in Terminals, Iterate(p)
  PROVE  IInv'
<1>0. run[p] \in Runs /\ Sound(run[p]) /\ run[p].pc = "loop"
  BY DEF IInv, TypeOK, Iterate
<1>1. /\ run[p].id \in Sessions /\ ~run[p].ok /\ ~run[p].passed /\ run[p].patch = None
      /\ run[p].iterations \in 0..4 /\ run[p].streak \in 0..2
  BY <1>0 DEF Sound, Open, Runs
<1>2. CASE tree = "green"
  <2>1. PICK r : Go(p, r) /\ r = [run[p] EXCEPT !.pc = "verify", !.passed = TRUE,
                                                !.outcome = "preflight_passed"]
    BY <1>2 DEF Iterate, TestsPass
  <2>2. r \in Runs
    BY <1>0, <2>1 DEF Runs, Busy, Outcomes
  <2>3. /\ r.pc = "verify" /\ r.passed /\ ~r.ok /\ r.id \in Sessions /\ r.patch = None
        /\ r.iterations \in 0..4 /\ r.streak \in 0..2
    BY <1>0, <1>1, <2>1 DEF Runs
  <2>4. Sound(r) /\ Left(r, verified', packets') /\ ~Claims(r)
    BY <2>3 DEF Sound, Left, Open, Ending, Claims
  <2>5. UNCHANGED <<world, disk, code, created, verified, commands>>
    BY DEF Iterate
  <2>6. run[p].pc \notin Ending
    BY <1>0 DEF Ending
  <2> QED  BY <2>1, <2>2, <2>4, <2>5, <2>6, OnlyMoves
<1>3. CASE tree # "green"
  <2>1. PICK alike \in BOOLEAN :
          Go(p, IF Stalled(Counted(run[p], alike))
                THEN [Counted(run[p], alike) EXCEPT !.pc = "settle", !.outcome = "stall_detected"]
                ELSE Counted(run[p], alike))
    BY <1>3 DEF Iterate
  <2>2. PICK c : c = Counted(run[p], alike)
    OBVIOUS
  <2>3. /\ c \in Runs /\ c.pc = "loop" /\ c.id \in Sessions /\ ~c.ok /\ ~c.passed /\ c.patch = None
        /\ c.iterations \in 1..5 /\ c.streak \in 1..3
    <3>1. PICK n \in 1..5 : n = run[p].iterations + 1
      BY <1>1
    <3>2. PICK k \in 1..3 : k = IF alike THEN run[p].streak + 1 ELSE 1
      BY <1>1
    <3>3. c = [run[p] EXCEPT !.iterations = n, !.streak = k]
      BY <2>2, <3>1, <3>2 DEF Counted
    <3>4. n \in 0..5 /\ k \in 0..3
      OBVIOUS
    <3>5. c \in Runs
      BY <1>0, <3>3, <3>4 DEF Runs
    <3>6. /\ c.pc = run[p].pc /\ c.id = run[p].id /\ c.ok = run[p].ok
          /\ c.passed = run[p].passed /\ c.patch = run[p].patch
          /\ c.iterations = n /\ c.streak = k
      BY <1>0, <3>3 DEF Runs
    <3> QED  BY <1>0, <1>1, <3>5, <3>6
  <2>4. CASE Stalled(c)
    <3>1. PICK r : r = [c EXCEPT !.pc = "settle", !.outcome = "stall_detected"]
      OBVIOUS
    <3>2. r \in Runs /\ Sound(r) /\ Left(r, verified', packets') /\ ~Claims(r)
      <4>1. r \in Runs
        <5>1. "settle" \in Busy /\ "stall_detected" \in Outcomes
          BY DEF Busy, Outcomes
        <5> QED  BY <2>3, <3>1, <5>1 DEF Runs
      <4>2. r.pc = "settle" /\ r.outcome = "stall_detected" /\ ~r.ok /\ r.id \in Sessions
        BY <2>3, <3>1 DEF Runs
      <4> QED  BY <4>1, <4>2 DEF Sound, Left, Open, Ending, ShouldWriteHandoffPacket, Claims
    <3>3. Go(p, r)
      BY <2>1, <2>2, <2>4, <3>1
    <3> QED  BY <1>0, <3>2, <3>3, OnlyMoves DEF Iterate, Ending
  <2>5. CASE ~Stalled(c)
    <3>1. c.iterations <= 4 /\ c.streak <= 2
      BY <2>3, <2>5 DEF Stalled
    <3>2. Sound(c) /\ Left(c, verified', packets') /\ ~Claims(c)
      BY <2>3, <3>1 DEF Sound, Left, Open, Ending, Claims
    <3>3. Go(p, c)
      BY <2>1, <2>2, <2>5
    <3> QED  BY <1>0, <2>3, <3>2, <3>3, OnlyMoves DEF Iterate, Ending
  <2> QED  BY <2>4, <2>5
<1> QED  BY <1>2, <1>3

LEMMA ExhaustKeeps ==
  ASSUME IInv, NEW p \in Terminals, Exhaust(p)
  PROVE  IInv'
<1>0. run[p] \in Runs /\ Sound(run[p]) /\ run[p].pc = "loop"
  BY DEF IInv, TypeOK, Exhaust
<1>1. run[p].id \in Sessions /\ ~run[p].ok /\ ~run[p].passed
  BY <1>0 DEF Sound, Open
<1>2. PICK r : Go(p, r) /\ r = [run[p] EXCEPT !.pc = "settle", !.outcome = "budget_exhausted"]
  BY DEF Exhaust
<1>3. r \in Runs /\ Sound(r) /\ Left(r, verified', packets') /\ ~Claims(r)
  BY <1>0, <1>1, <1>2 DEF Runs, Sound, Left, Open, Ending, Busy, Outcomes, ShouldWriteHandoffPacket,
                          Claims
<1> QED  BY <1>0, <1>2, <1>3, OnlyMoves DEF Exhaust, Ending

(* The end of the command                                                      *)
LEMMA VerifyKeeps ==
  ASSUME IInv, NEW p \in Terminals, Verify(p)
  PROVE  IInv'
<1> USE DEF code
<1>0. TypeOK /\ run[p] \in Runs /\ Sound(run[p]) /\ run[p].pc = "verify"
  BY DEF IInv, TypeOK, Verify
<1>1. /\ run[p].id \in Sessions /\ run[p].passed
      /\ run[p].patch # None => run[p].status = "accepted"
  BY <1>0 DEF Sound, Open
<1>2. PICK ok \in BOOLEAN :
        /\ Go(p, [run[p] EXCEPT !.pc = "settle", !.ok = ok,
                      !.outcome = IF ~ok THEN "verify_blocked"
                                  ELSE IF run[p].patch # None THEN "patch_verified" ELSE @])
        /\ verified' = IF ok THEN verified \cup {run[p].id} ELSE verified
  BY DEF Verify
<1>3. PICK r : r = [run[p] EXCEPT !.pc = "settle", !.ok = ok,
                      !.outcome = IF ~ok THEN "verify_blocked"
                                  ELSE IF run[p].patch # None THEN "patch_verified" ELSE @]
  OBVIOUS
<1>4. /\ r \in Runs /\ r.pc = "settle" /\ r.id = run[p].id /\ r.ok = ok /\ r.passed
      /\ ~ok => r.outcome = "verify_blocked"
  <2>1. PICK outcome \in Outcomes \cup {None} :
          /\ r = [run[p] EXCEPT !.pc = "settle", !.ok = ok, !.outcome = outcome]
          /\ ~ok => outcome = "verify_blocked"
    <3>1. run[p].outcome \in Outcomes \cup {None}
      BY <1>0 DEF Runs
    <3> QED  BY <1>3, <3>1 DEF Outcomes
  <2>2. r \in Runs
    BY <1>0, <2>1, RunChanged DEF Busy
  <2> QED  BY <1>0, <1>1, <2>1, <2>2 DEF Runs
<1>5. Sound(r) /\ Left(r, verified', packets')
  BY <1>1, <1>2, <1>4 DEF Sound, Left, Open, Ending, ShouldWriteHandoffPacket
<1>6. Go(p, r)
  BY <1>2, <1>3
<1>7. media' = [media EXCEPT ![run[p].id] = "accepted"] \/ media' = media
  BY <1>1 DEF Verify
<1>8. UNCHANGED <<world, active, archive, packets, tree, applied, created, commands>>
  BY DEF Verify
<1>10. run[p].pc \notin Ending
  BY <1>0 DEF Ending
<1>11. /\ media' \in [Sessions -> {"none", "accepted"} \cup Rejections]
       /\ \A t \in Sessions \ {run[p].id} : media'[t] = media[t]
       /\ \A t \in Sessions : media'[t] \in Rejections => media[t] \in Rejections
  BY <1>0, <1>1, <1>7, AcceptedAgain
<1>9. MediationHolds' /\ ~Claims(r)
  <2>1. run[p].patch # None => Claims(run[p])
    BY <1>0, <1>1 DEF Claims
  <2>2. run[p].patch = None => media' = media
    BY DEF Verify
  <2> QED  BY <1>4, <1>8, <1>11, <2>1, <2>2, MediationKept DEF Claims
<1>12. verified \subseteq verified' /\ verified' \subseteq Sessions
  BY <1>0, <1>1, <1>2 DEF TypeOK
<1> QED  BY <1>0, <1>4, <1>5, <1>6, <1>8, <1>9, <1>10, <1>11, <1>12, Steps DEF TypeOK

(* A command on its way to the packet: only its place changes.                 *)
LEMMA Onward ==
  ASSUME NEW r \in Runs, Sound(r), r.pc \in Ending, NEW pc \in Ending,
         NEW accepted, NEW written, Left(r, accepted, written)
  PROVE  LET s == [r EXCEPT !.pc = pc] IN
         /\ s \in Runs /\ Sound(s) /\ Left(s, accepted, written)
         /\ s.pc \in Ending /\ s.id = r.id
         /\ ShouldWriteHandoffPacket(r) => ShouldWriteHandoffPacket(s)
BY DEF Runs, Sound, Left, Open, Ending, Busy, ShouldWriteHandoffPacket

LEMMA EndingKeeps ==
  ASSUME IInv, NEW p \in Terminals, Settle(p) \/ Archive(p) \/ Rename(p)
  PROVE  IInv'
<1> USE DEF code, disk
<1>0. /\ TypeOK /\ run[p] \in Runs /\ Sound(run[p]) /\ Left(run[p], verified, packets)
      /\ run[p].pc \in {"settle", "archive", "rename"}
  BY DEF IInv, TypeOK, Settle, Archive, Rename
<1>1. run[p].pc \in Ending /\ run[p].id \in Sessions
  BY <1>0 DEF Sound, Ending
<1>2. PICK pc \in Ending : Go(p, [run[p] EXCEPT !.pc = pc])
  BY DEF Settle, Archive, Rename, To, Ending
<1>3. UNCHANGED <<world, packets, media, tree, applied, created, verified, commands>>
  BY DEF Settle, Archive, Rename
<1>4. PICK r : r = [run[p] EXCEPT !.pc = pc]
  OBVIOUS
<1>5. /\ r \in Runs /\ Sound(r) /\ Left(r, verified', packets')
      /\ r.pc \in Ending /\ r.id = run[p].id
      /\ ShouldWriteHandoffPacket(run[p]) => ShouldWriteHandoffPacket(r)
  BY <1>0, <1>1, <1>3, <1>4, Onward
<1>6. active' \in Sessions \cup {None} /\ archive' \subseteq Sessions
  BY <1>0, <1>1 DEF TypeOK, Settle, Archive, Rename
<1>7. MediationHolds' /\ ~Claims(r)
  BY <1>3, <1>5, MediationKept DEF Claims, Ending
<1>8. Go(p, r)
  BY <1>2, <1>4
<1> QED  BY <1>0, <1>3, <1>5, <1>6, <1>7, <1>8, Steps DEF TypeOK

LEMMA HandoffKeeps ==
  ASSUME IInv, NEW p \in Terminals, Handoff(p)
  PROVE  IInv'
<1> USE DEF code
<1>0. /\ TypeOK /\ run[p] \in Runs /\ Sound(run[p]) /\ Left(run[p], verified, packets)
      /\ run[p].pc = "handoff"
  BY DEF IInv, TypeOK, Handoff
<1>1. run[p].id \in Sessions
  BY <1>0 DEF Sound
<1>2. PICK r : Go(p, r) /\ r = [Quiet EXCEPT !.id = run[p].id, !.outcome = run[p].outcome,
                                             !.passed = run[p].passed, !.ok = run[p].ok]
  BY DEF Handoff
<1>3. packets' = IF ShouldWriteHandoffPacket(run[p]) THEN packets \cup {run[p].id} ELSE packets
  BY DEF Handoff
<1>4. UNCHANGED <<world, active, archive, media, tree, applied, created, verified, commands>>
  BY DEF Handoff
<1>5. /\ r \in Runs /\ r.pc = "idle" /\ r.id = run[p].id /\ r.passed = run[p].passed
      /\ r.ok = run[p].ok
  <2>1. r = [pc |-> "idle", from |-> None, id |-> run[p].id, patch |-> None, limit |-> None,
             source |-> "active", outcome |-> run[p].outcome, passed |-> run[p].passed,
             ok |-> run[p].ok, status |-> "none", iterations |-> 0, streak |-> 0]
    BY <1>2 DEF Quiet
  <2>2. /\ run[p].outcome \in Outcomes \cup {None} /\ run[p].passed \in BOOLEAN
        /\ run[p].ok \in BOOLEAN
    BY <1>0 DEF Runs
  <2> QED  BY <1>1, <2>1, <2>2 DEF Runs
<1>6. (run[p].passed /\ run[p].ok) \/ ShouldWriteHandoffPacket(run[p])
  BY <1>0 DEF Sound, Ending
<1>7. Left(r, verified', packets')
  BY <1>0, <1>3, <1>4, <1>5, <1>6 DEF Left
<1>8. Sound(r)
  <2>1. run[p].ok => run[p].passed
    BY <1>0 DEF Sound
  <2>2. r.pc = "idle"
    BY <1>5
  <2> QED  BY <1>5, <2>1, <2>2 DEF Sound, Open, Ending
<1>9. MediationHolds' /\ ~Claims(r)
  BY <1>4, <1>5, MediationKept DEF Claims
<1>10. packets \subseteq packets' /\ packets' \subseteq Sessions
  BY <1>0, <1>1, <1>3 DEF TypeOK
<1>11. ShouldWriteHandoffPacket(run[p]) => run[p].id \in packets'
  BY <1>3
<1> QED  BY <1>0, <1>2, <1>4, <1>5, <1>7, <1>8, <1>9, <1>10, <1>11, Steps DEF TypeOK

LEMMA CrashKeeps ==
  ASSUME IInv, NEW p \in Terminals, Crash(p)
  PROVE  IInv'
<1> USE DEF disk, code
<1>1. UNCHANGED <<world, active, archive, packets, media, tree, applied, created,
                  verified, commands>>
  BY DEF Crash
<1>2. Go(p, Quiet) /\ "crash" \in world
  BY DEF Crash
<1>3. Left(Quiet, verified', packets')
  BY DEF Left, Quiet
<1>4. \A q \in Terminals : Sound(run'[q]) /\ Left(run'[q], verified', packets')
  BY <1>1, <1>2, <1>3, QuietSound, RunsKept
<1>5. TypeOK'
  BY <1>1, <1>2, QuietSound, Moved DEF IInv, TypeOK
<1>6. MediationHolds' /\ Packeted'
  BY <1>1, <1>2, MediationKept DEF Packeted
<1>7. ClaimsHold'
  <2> SUFFICES ASSUME "edit" \notin world, NEW q \in Terminals, Claims(run'[q])
               PROVE  InTree(run'[q].id, applied')
    BY <1>1 DEF ClaimsHold, Claims
  <2>1. run'[q] = run[q]
    BY <1>2, QuietSound, Moved DEF IInv, Claims, Quiet
  <2> QED  BY <1>1, <2>1 DEF IInv, ClaimsHold, InTree
<1> QED  BY <1>4, <1>5, <1>6, <1>7 DEF IInv

LEMMA EditKeeps ==
  ASSUME IInv, Edit
  PROVE  IInv'
<1> USE DEF disk
<1>1. UNCHANGED <<world, active, archive, packets, media, created, verified, run, commands>>
  BY DEF Edit
<1>2. applied' = applied \/ \E q \in Patches : applied' = [applied EXCEPT ![q] = None]
  BY DEF Edit
<1>3. TypeOK'
  BY <1>1, <1>2 DEF IInv, TypeOK, Edit
<1>4. MediationHolds' /\ ClaimsHold'
  BY <1>1 DEF Edit, MediationHolds, ClaimsHold
<1>5. Packeted'
  BY <1>1 DEF IInv, Packeted, Owed
<1> QED  BY <1>1, <1>3, <1>4, <1>5 DEF IInv

----------------------------------------------------------------------------
LEMMA InitIInv == Init => IInv
<1> SUFFICES ASSUME Init PROVE IInv
  OBVIOUS
<1>1. TypeOK
  BY QuietSound DEF Init, TypeOK, Rejections
<1>2. \A p \in Terminals : Sound(run[p]) /\ Left(run[p], verified, packets)
  BY QuietSound DEF Init, Left, Quiet
<1>3. MediationHolds /\ Packeted /\ ClaimsHold
  BY DEF Init, MediationHolds, Packeted, Rejections, ClaimsHold, Claims, Quiet
<1> QED  BY <1>1, <1>2, <1>3 DEF IInv

LEMMA StepIInv == IInv /\ [Next]_vars => IInv'
<1> SUFFICES ASSUME IInv, [Next]_vars PROVE IInv'
  OBVIOUS
<1>1. ASSUME NEW p \in Terminals, NEW s \in Sessions, Change(p, s) PROVE IInv'
  BY <1>1, CommandsKeep
<1>2. ASSUME NEW p \in Terminals, Implement(p) PROVE IInv'
  BY <1>2, CommandsKeep
<1>3. ASSUME NEW p \in Terminals, Load(p) PROVE IInv'
  BY <1>3, LoadKeeps
<1>4. ASSUME NEW p \in Terminals, Mediate(p) PROVE IInv'
  BY <1>4, RejectKeeps, AcceptKeeps, ApplyKeeps, RecordKeeps, TestKeeps DEF Mediate
<1>5. ASSUME NEW p \in Terminals, Loop(p) PROVE IInv'
  BY <1>5, PreflightKeeps, IterateKeeps, ExhaustKeeps DEF Loop
<1>6. ASSUME NEW p \in Terminals, Finish(p) PROVE IInv'
  BY <1>6, VerifyKeeps, EndingKeeps, HandoffKeeps DEF Finish
<1>7. ASSUME NEW p \in Terminals, Crash(p) PROVE IInv'
  BY <1>7, CrashKeeps
<1>8. CASE Edit
  BY <1>8, EditKeeps
<1>9. CASE UNCHANGED vars
  <2>1. UNCHANGED <<world, active, archive, packets, media, tree, applied, created,
                    verified, run, commands>>
    BY <1>9 DEF vars, disk, code
  <2>2. TypeOK' /\ Packeted'
    BY <2>1 DEF IInv, TypeOK, Packeted, Owed
  <2>4. MediationHolds' /\ ClaimsHold'
    BY <2>1 DEF IInv, MediationHolds, ClaimsHold, InTree
  <2>3. \A p \in Terminals : Sound(run'[p]) /\ Left(run'[p], verified', packets')
    BY <2>1 DEF IInv
  <2> QED  BY <2>2, <2>3, <2>4 DEF IInv
<1> QED  BY <1>1, <1>2, <1>3, <1>4, <1>5, <1>6, <1>7, <1>8, <1>9 DEF Next

LEMMA Invariance == Spec => []IInv
<1>1. Init => IInv
  BY InitIInv
<1>2. IInv /\ [Next]_vars => IInv'
  BY StepIInv
<1> QED  BY <1>1, <1>2, PTL DEF Spec

(* Every variable keeps its type; in particular no run passes five iterations. *)
THEOREM TypeCorrect == Spec => []TypeOK
<1>1. IInv => TypeOK
  BY DEF IInv
<1> QED  BY <1>1, Invariance, PTL

(* Whatever its limits and whatever the tests say, a run without a patch gives *)
(* up by the fifth iteration or the third like failure in a row.               *)
THEOREM RunsGiveUp == Spec => []StallBound
<1>1. IInv => StallBound
  BY DEF IInv, TypeOK, Runs, StallBound
<1> QED  BY <1>1, Invariance, PTL

(* With any number of terminals and crashes, while nobody edits files: what    *)
(* git changed for a patch in its own format is below a path its session       *)
(* allows, whatever the names, and a session recorded as accepted has a patch  *)
(* in the tree.                                                                *)
THEOREM MediationAlwaysHolds == Spec => []MediationHolds
<1>1. IInv => MediationHolds
  BY DEF IInv
<1> QED  BY <1>1, Invariance, PTL

(* With any number of terminals and without crashes, when no command runs, the *)
(* recovery command the diagnosis names finds its packet, and every failed     *)
(* run has left one.                                                           *)
THEOREM RecoveryAlwaysRuns == Spec => []RecoveryRuns
<1>1. IInv => RecoveryRuns
  <2> SUFFICES ASSUME IInv, "crash" \notin world, AllIdle
               PROVE  /\ \A s \in Diagnosed : s \in packets /\ active \in {None, s}
                      /\ \A p \in Terminals :
                           run[p].outcome # None /\ ~(run[p].passed /\ run[p].ok)
                             => run[p].id \in packets
    BY DEF RecoveryRuns
  <2>1. ASSUME NEW s \in Sessions, media[s] \in Rejections PROVE s \in packets
    <3>1. ~Owed(s)
      BY DEF AllIdle, Owed, Ending
    <3> QED  BY <2>1, <3>1 DEF IInv, Packeted
  <2>2. \A s \in Diagnosed : s \in packets /\ active \in {None, s}
    <3>1. CASE active = None
      BY <3>1 DEF Diagnosed
    <3>2. CASE active # None
      <4>1. active \in Sessions
        BY <3>2 DEF IInv, TypeOK
      <4> QED  BY <2>1, <3>2, <4>1 DEF Diagnosed
    <3> QED  BY <3>1, <3>2
  <2>3. \A p \in Terminals :
          run[p].outcome # None /\ ~(run[p].passed /\ run[p].ok) => run[p].id \in packets
    BY DEF IInv, Left, AllIdle
  <2> QED  BY <2>2, <2>3
<1> QED  BY <1>1, Invariance, PTL

----------------------------------------------------------------------------
(* One terminal                                                                *)

(* Once the session is looked up it stays the active one if it was, up to the  *)
(* archive; and tests that passed still would, unless somebody edits.          *)
Steady(r, session, tests) ==
  /\ r.pc \notin {"idle", "load", "handoff"} /\ r.source = "active" => session = r.id
  /\ r.pc = "rename" => r.ok /\ r.source = "active"
  /\ "edit" \notin world /\ r.pc # "idle" /\ r.passed => tests = "green"

Solo ==
  Alone => /\ \A p \in Terminals : run[p].pc # "idle" => p = Main
           /\ Steady(run[Main], active, tree)

LEMMA SoloSteps ==
  ASSUME IInv, Solo, Alone, NEW p \in Terminals, NEW r, Go(p, r), UNCHANGED world,
         p = Main, Steady(r, active', tree')
  PROVE  Solo'
<1>1. run'[Main] = r /\ \A q \in Terminals \ {Main} : run'[q] = run[q]
  BY DEF IInv, TypeOK, Go
<1>2. \A q \in Terminals : run'[q].pc # "idle" => q = Main
  BY <1>1 DEF Solo
<1>3. Steady(run[Main], active, tree)'
  BY <1>1 DEF Steady
<1> QED  BY <1>2, <1>3 DEF Solo

(* With one terminal a command runs in it.                                     *)
LEMMA InMain ==
  ASSUME Solo, Alone, NEW p \in Terminals,
         run[p].pc # "idle" \/ Command(p)
  PROVE  p = Main
BY DEF Solo, Command, Alone

LEMMA SoloCommands ==
  ASSUME IInv, Solo, Alone, NEW p \in Terminals,
         Implement(p) \/ \E s \in Sessions : Change(p, s)
  PROVE  Solo'
<1>1. p = Main /\ UNCHANGED <<world, tree>>
  BY InMain DEF Implement, Change, code
<1>2. PICK r : Go(p, r) /\ r.pc \in {"idle", "load"} /\ ~r.passed
  <2>1. CASE Implement(p)
    <3>1. PICK from \in {s \in Sessions : Restorable(s)} \cup {None}, id \in created \cup {None},
               patch \in Patches \cup {None}, limit \in Limits \cup {None} :
            Go(p, [Quiet EXCEPT !.pc = "load", !.from = from, !.id = id,
                                !.patch = patch, !.limit = limit])
      BY <2>1 DEF Implement
    <3> DEFINE r == [Quiet EXCEPT !.pc = "load", !.from = from, !.id = id,
                                  !.patch = patch, !.limit = limit]
    <3>2. r.pc = "load" /\ ~r.passed
      BY DEF Quiet
    <3> QED  BY <3>1, <3>2
  <2>2. ASSUME NEW s \in Sessions, Change(p, s)
        PROVE  \E r : Go(p, r) /\ r.pc \in {"idle", "load"} /\ ~r.passed
    <3>1. CASE Go(p, Quiet)
      BY <3>1 DEF Quiet
    <3>2. ASSUME NEW limit \in Limits \cup {None},
                 Go(p, [Quiet EXCEPT !.pc = "load", !.id = s, !.limit = limit])
          PROVE  \E r : Go(p, r) /\ r.pc \in {"idle", "load"} /\ ~r.passed
      <4> DEFINE r == [Quiet EXCEPT !.pc = "load", !.id = s, !.limit = limit]
      <4>1. r.pc = "load" /\ ~r.passed
        BY DEF Quiet
      <4> QED  BY <3>2, <4>1
    <3> QED  BY <2>2, <3>1, <3>2 DEF Change
  <2> QED  BY <2>1, <2>2
<1>3. Steady(r, active', tree')
  BY <1>2 DEF Steady
<1> QED  BY <1>1, <1>2, <1>3, SoloSteps

(* A step that leaves the active session and the tests as they are             *)
LEMMA SoloMoves ==
  ASSUME IInv, Solo, Alone, NEW p \in Terminals, NEW r, Go(p, r),
         UNCHANGED <<world, active, tree>>,
         run[p].pc \notin {"idle", "load", "handoff"},
         r.id = run[p].id, r.source = run[p].source, r.pc # "rename",
         r.passed => run[p].passed \/ tree = "green"
  PROVE  Solo'
<1>1. p = Main
  BY InMain
<1>2. Steady(run[p], active, tree)
  BY <1>1 DEF Solo
<1>3. Steady(r, active', tree')
  BY <1>2 DEF Steady
<1> QED  BY <1>1, <1>3, SoloSteps

LEMMA SoloLoad ==
  ASSUME IInv, Solo, Alone, NEW p \in Terminals, Load(p)
  PROVE  Solo'
<1>0. run[p] \in Runs /\ Sound(run[p]) /\ run[p].pc = "load"
  BY DEF IInv, TypeOK, Load
<1>1. p = Main /\ UNCHANGED <<world, active, tree>>
  BY <1>0, InMain DEF Load, disk, code
<1>2. CASE Go(p, Quiet)
  <2>1. Steady(Quiet, active', tree')
    BY DEF Steady, Quiet
  <2> QED  BY <1>1, <1>2, <2>1, SoloSteps
<1>3. CASE ~Go(p, Quiet)
  <2> DEFINE s == Wanted(run[p])
  <2>1. PICK r : /\ r = [run[p] EXCEPT !.pc = IF run[p].patch # None THEN "mediate" ELSE "preflight",
                                       !.id = s, !.from = None,
                                       !.source = IF active = s THEN "active" ELSE "archived"]
                 /\ Go(p, r)
                 /\ s # None /\ (active = s \/ s \in archive)
    BY <1>3 DEF Load
  <2>2. s \in Sessions
    BY <2>1 DEF IInv, TypeOK
  <2>3. ~run[p].passed
    BY <1>0 DEF Sound, Open
  <2>4. /\ ~r.passed /\ r.id = s /\ r.pc # "rename"
        /\ r.source = "active" => active = s
    BY <1>0, <2>1, <2>3 DEF Runs
  <2>5. Steady(r, active', tree')
    BY <1>1, <2>4 DEF Steady
  <2> QED  BY <1>1, <2>1, <2>4, <2>5, SoloSteps
<1> QED  BY <1>2, <1>3

LEMMA SoloMediate ==
  ASSUME IInv, Solo, Alone, NEW p \in Terminals, Mediate(p)
  PROVE  Solo'
<1>0. run[p] \in Runs /\ Sound(run[p])
  BY DEF IInv, TypeOK
<1>1. CASE Reject(p)
  <2>1. PICK r : Go(p, r) /\ r = [run[p] EXCEPT !.pc = "settle",
                                               !.outcome = "patch_rejected_out_of_scope"]
    BY <1>1 DEF Reject
  <2>2. /\ r.id = run[p].id /\ r.source = run[p].source /\ r.pc = "settle"
        /\ r.passed = run[p].passed
    BY <1>0, <2>1 DEF Runs
  <2>3. run[p].pc = "mediate" /\ UNCHANGED <<world, active, tree>>
    BY <1>1 DEF Reject, code
  <2>4. Go(p, r)
    BY <2>1
  <2>5. r.pc # "rename" /\ (r.passed => run[p].passed \/ tree = "green")
    BY <2>2
  <2>6. run[p].pc \notin {"idle", "load", "handoff"}
    BY <2>3
  <2> QED  BY <2>2, <2>3, <2>4, <2>5, <2>6, SoloMoves
<1>5. CASE Accept(p)
  <2>1. PICK r : Go(p, r) /\ r = [run[p] EXCEPT !.pc = "apply"]
    BY <1>5 DEF Accept, To
  <2>2. /\ r.id = run[p].id /\ r.source = run[p].source /\ r.pc = "apply"
        /\ r.passed = run[p].passed
    BY <1>0, <2>1 DEF Runs
  <2>3. run[p].pc = "mediate" /\ UNCHANGED <<world, active, tree>>
    BY <1>5 DEF Accept, code, disk
  <2>4. Go(p, r)
    BY <2>1
  <2>5. r.pc # "rename" /\ (r.passed => run[p].passed \/ tree = "green")
    BY <2>2
  <2>6. run[p].pc \notin {"idle", "load", "handoff"}
    BY <2>3
  <2> QED  BY <2>2, <2>3, <2>4, <2>5, <2>6, SoloMoves
<1>2. CASE Apply(p)
  <2>1. PICK st \in {"accepted", "apply_failed"} :
          \E r : Go(p, r) /\ r = [run[p] EXCEPT !.pc = "record", !.status = st]
    BY <1>2 DEF Apply
  <2>0. PICK r : Go(p, r) /\ r = [run[p] EXCEPT !.pc = "record", !.status = st]
    BY <2>1
  <2>2. /\ r.id = run[p].id /\ r.source = run[p].source /\ r.pc = "record"
        /\ r.passed = run[p].passed
    BY <1>0, <2>0 DEF Runs
  <2>3. run[p].pc = "apply" /\ ~run[p].passed
    BY <1>0, <1>2 DEF Apply, Sound, Open
  <2>4. p = Main /\ UNCHANGED <<world, active>>
    BY <1>2, <2>3, InMain DEF Apply, disk
  <2>5. Steady(r, active', tree')
    BY <2>2, <2>3, <2>4 DEF Solo, Steady
  <2> QED  BY <2>0, <2>2, <2>4, <2>5, SoloSteps
<1>3. CASE Record(p)
  <2>1. PICK r : Go(p, r) /\ r = [run[p] EXCEPT
                   !.pc = IF run[p].status = "accepted" THEN "test" ELSE "settle",
                   !.outcome = "external_patch_received"]
    BY <1>3 DEF Record
  <2>2. PICK pc \in {"test", "settle"} :
          r = [run[p] EXCEPT !.pc = pc, !.outcome = "external_patch_received"]
    BY <2>1
  <2>3. /\ r.id = run[p].id /\ r.source = run[p].source /\ r.pc # "rename"
        /\ r.passed = run[p].passed
    BY <1>0, <2>2 DEF Runs
  <2>4. run[p].pc = "record" /\ UNCHANGED <<world, active, tree>>
    BY <1>3 DEF Record, code
  <2>5. Go(p, r)
    BY <2>1
  <2>6. r.passed => run[p].passed \/ tree = "green"
    BY <2>3
  <2>7. run[p].pc \notin {"idle", "load", "handoff"}
    BY <2>4
  <2> QED  BY <2>3, <2>4, <2>5, <2>6, <2>7, SoloMoves
<1>4. CASE Test(p)
  <2>1. PICK r : Go(p, r) /\ r = [run[p] EXCEPT
                   !.pc = IF tree = "green" THEN "verify" ELSE "settle", !.passed = tree = "green"]
    BY <1>4 DEF Test
  <2>2. PICK pc \in {"verify", "settle"}, passed \in BOOLEAN :
          /\ r = [run[p] EXCEPT !.pc = pc, !.passed = passed]
          /\ passed => tree = "green"
    BY <2>1
  <2>3. /\ r.id = run[p].id /\ r.source = run[p].source /\ r.pc # "rename"
        /\ r.passed => tree = "green"
    BY <1>0, <2>2 DEF Runs
  <2>4. run[p].pc = "test" /\ UNCHANGED <<world, active, tree>>
    BY <1>4 DEF Test, code
  <2>5. Go(p, r)
    BY <2>1
  <2>6. r.passed => run[p].passed \/ tree = "green"
    BY <2>3
  <2>7. run[p].pc \notin {"idle", "load", "handoff"}
    BY <2>4
  <2> QED  BY <2>3, <2>4, <2>5, <2>6, <2>7, SoloMoves
<1> QED  BY <1>1, <1>2, <1>3, <1>4, <1>5 DEF Mediate

LEMMA SoloLoop ==
  ASSUME IInv, Solo, Alone, NEW p \in Terminals, Loop(p)
  PROVE  Solo'
<1>0. /\ run[p] \in Runs /\ UNCHANGED <<world, active, tree>>
      /\ run[p].pc \in {"preflight", "loop"}
  BY DEF IInv, TypeOK, Loop, Preflight, Iterate, Exhaust, disk, code
<1>1. run[p].pc \notin {"idle", "load", "handoff"}
  BY <1>0
<1>2. CASE TestsPass(p) /\ tree = "green"
  <2>1. PICK r : Go(p, r) /\ r = [run[p] EXCEPT !.pc = "verify", !.outcome = "preflight_passed",
                                               !.passed = TRUE]
    BY <1>2 DEF TestsPass
  <2>2. r.id = run[p].id /\ r.source = run[p].source /\ r.pc # "rename"
    BY <1>0, <2>1 DEF Runs
  <2>3. r.passed => run[p].passed \/ tree = "green"
    BY <1>2
  <2>4. Go(p, r)
    BY <2>1
  <2> QED  BY <1>0, <1>1, <2>2, <2>3, <2>4, SoloMoves
<1>3. CASE Preflight(p) /\ tree # "green"
  <2>1. PICK r : Go(p, r) /\ r = [run[p] EXCEPT !.pc = "loop"]
    BY <1>3 DEF Preflight, To
  <2>2. /\ r.id = run[p].id /\ r.source = run[p].source /\ r.pc # "rename"
        /\ r.passed = run[p].passed
    BY <1>0, <2>1 DEF Runs
  <2>3. r.passed => run[p].passed \/ tree = "green"
    BY <2>2
  <2>4. Go(p, r)
    BY <2>1
  <2> QED  BY <1>0, <1>1, <2>2, <2>3, <2>4, SoloMoves
<1>4. CASE Exhaust(p)
  <2>1. PICK r : Go(p, r) /\ r = [run[p] EXCEPT !.pc = "settle", !.outcome = "budget_exhausted"]
    BY <1>4 DEF Exhaust
  <2>2. /\ r.id = run[p].id /\ r.source = run[p].source /\ r.pc # "rename"
        /\ r.passed = run[p].passed
    BY <1>0, <2>1 DEF Runs
  <2>3. r.passed => run[p].passed \/ tree = "green"
    BY <2>2
  <2>4. Go(p, r)
    BY <2>1
  <2> QED  BY <1>0, <1>1, <2>2, <2>3, <2>4, SoloMoves
<1>5. CASE Iterate(p) /\ tree # "green"
  <2>1. PICK alike \in BOOLEAN :
          Go(p, IF Stalled(Counted(run[p], alike))
                THEN [Counted(run[p], alike) EXCEPT !.pc = "settle", !.outcome = "stall_detected"]
                ELSE Counted(run[p], alike))
    BY <1>5 DEF Iterate
  <2>2. PICK c : c = Counted(run[p], alike)
    OBVIOUS
  <2>3. PICK n, k : c = [run[p] EXCEPT !.iterations = n, !.streak = k]
    BY <2>2 DEF Counted
  <2>4. PICK r : r = IF Stalled(c)
                     THEN [c EXCEPT !.pc = "settle", !.outcome = "stall_detected"] ELSE c
    OBVIOUS
  <2>5. Go(p, r)
    BY <2>1, <2>2, <2>4
  <2>6. run[p].pc = "loop"
    BY <1>5 DEF Iterate
  <2>7. /\ r.id = run[p].id /\ r.source = run[p].source /\ r.pc # "rename"
        /\ r.passed = run[p].passed
    <3>1. CASE Stalled(c)
      BY <1>0, <2>3, <2>4, <3>1 DEF Runs
    <3>2. CASE ~Stalled(c)
      BY <1>0, <2>3, <2>4, <2>6, <3>2 DEF Runs
    <3> QED  BY <3>1, <3>2
  <2>8. r.passed => run[p].passed \/ tree = "green"
    BY <2>7
  <2> QED  BY <1>0, <1>1, <2>5, <2>7, <2>8, SoloMoves
<1>6. \/ TestsPass(p) /\ tree = "green"
      \/ Preflight(p) /\ tree # "green"
      \/ Exhaust(p)
      \/ Iterate(p) /\ tree # "green"
  BY DEF Loop, Preflight, Iterate
<1> QED  BY <1>2, <1>3, <1>4, <1>5, <1>6

LEMMA SoloFinish ==
  ASSUME IInv, Solo, Alone, NEW p \in Terminals, Finish(p)
  PROVE  Solo'
<1>0. /\ run[p] \in Runs /\ Sound(run[p]) /\ UNCHANGED <<world, tree>>
      /\ run[p].pc \in {"verify", "settle", "archive", "rename", "handoff"}
  BY DEF IInv, TypeOK, Finish, Verify, Settle, Archive, Rename, Handoff, disk, code
<1>1. p = Main
  BY <1>0, InMain
<1>2. Steady(run[p], active, tree)
  BY <1>1 DEF Solo
<1>3. "edit" \notin world /\ run[p].passed => tree = "green"
  BY <1>0, <1>2 DEF Steady
<1>4. CASE Verify(p)
  <2>0. PICK ok \in BOOLEAN :
          Go(p, [run[p] EXCEPT !.pc = "settle", !.ok = ok,
                    !.outcome = IF ~ok THEN "verify_blocked"
                                ELSE IF run[p].patch # None THEN "patch_verified" ELSE @])
    BY <1>4 DEF Verify
  <2>1. PICK r : /\ Go(p, r)
                 /\ r = [run[p] EXCEPT !.pc = "settle", !.ok = ok,
                            !.outcome = IF ~ok THEN "verify_blocked"
                                        ELSE IF run[p].patch # None THEN "patch_verified" ELSE @]
    BY <2>0
  <2>2. /\ r.id = run[p].id /\ r.source = run[p].source /\ r.pc # "rename"
        /\ r.passed = run[p].passed
    BY <1>0, <2>1 DEF Runs
  <2>3. r.passed => run[p].passed \/ tree = "green"
    BY <2>2
  <2>4. Go(p, r)
    BY <2>1
  <2>5. UNCHANGED <<world, active, tree>> /\ run[p].pc \notin {"idle", "load", "handoff"}
    BY <1>4 DEF Verify, code
  <2> QED  BY <2>2, <2>3, <2>4, <2>5, SoloMoves
<1>5. CASE Settle(p)
  <2>1. PICK r : Go(p, r) /\ r = [run[p] EXCEPT !.pc = "archive"]
    BY <1>5 DEF Settle, To
  <2>2. /\ r.id = run[p].id /\ r.source = run[p].source /\ r.pc = "archive"
        /\ r.passed = run[p].passed
    BY <1>0, <2>1 DEF Runs
  <2>3. r.source = "active" => active' = r.id
    BY <1>5, <2>2 DEF Settle
  <2>4. Steady(r, active', tree')
    BY <1>0, <1>3, <2>2, <2>3 DEF Steady
  <2>5. Go(p, r)
    BY <2>1
  <2> QED  BY <1>0, <1>1, <2>4, <2>5, SoloSteps
<1>6. CASE Archive(p)
  <2>1. PICK pc, r : /\ Go(p, r) /\ r = [run[p] EXCEPT !.pc = pc]
                     /\ pc = "handoff" \/ (pc = "rename" /\ ShouldArchive(run[p]))
    BY <1>6 DEF Archive, To
  <2>2. /\ r.id = run[p].id /\ r.source = run[p].source /\ r.pc = pc
        /\ r.passed = run[p].passed /\ r.ok = run[p].ok
    BY <1>0, <2>1 DEF Runs
  <2>3. active' = active /\ run[p].pc = "archive"
    BY <1>6 DEF Archive, disk
  <2>4. Steady(r, active', tree')
    <3>1. r.source = "active" => active' = r.id
      BY <1>2, <2>2, <2>3 DEF Steady
    <3>2. r.pc = "rename" => r.ok /\ r.source = "active"
      BY <2>1, <2>2 DEF ShouldArchive
    <3>3. "edit" \notin world /\ r.passed => tree' = "green"
      BY <1>0, <1>3, <2>2
    <3> QED  BY <3>1, <3>2, <3>3 DEF Steady
  <2>5. Go(p, r)
    BY <2>1
  <2> QED  BY <1>0, <1>1, <2>4, <2>5, SoloSteps
<1>7. CASE Rename(p)
  <2>1. PICK r : Go(p, r) /\ r = [run[p] EXCEPT !.pc = "handoff"]
    BY <1>7 DEF Rename, To
  <2>2. r.pc = "handoff" /\ r.passed = run[p].passed
    BY <1>0, <2>1 DEF Runs
  <2>3. Steady(r, active', tree')
    BY <1>0, <1>3, <2>2 DEF Steady
  <2>4. Go(p, r)
    BY <2>1
  <2> QED  BY <1>0, <1>1, <2>3, <2>4, SoloSteps
<1>8. CASE Handoff(p)
  <2>1. PICK r : /\ Go(p, r)
                 /\ r = [Quiet EXCEPT !.id = run[p].id, !.outcome = run[p].outcome,
                                      !.passed = run[p].passed, !.ok = run[p].ok]
    BY <1>8 DEF Handoff
  <2>2. r.pc = "idle"
    BY <2>1 DEF Quiet
  <2>3. Steady(r, active', tree')
    BY <2>2 DEF Steady
  <2>4. Go(p, r)
    BY <2>1
  <2> QED  BY <1>0, <1>1, <2>3, <2>4, SoloSteps
<1> QED  BY <1>4, <1>5, <1>6, <1>7, <1>8 DEF Finish

LEMMA StepSolo == IInv /\ Solo /\ [Next]_vars => Solo'
<1> SUFFICES ASSUME IInv, Solo, [Next]_vars PROVE Solo'
  OBVIOUS
<1>0. world' = world
  BY DEF Next, Change, Implement, Load, Mediate, Reject, Accept, Apply, Record, Test, Loop, Preflight,
         Iterate, Exhaust, Finish, Verify, Settle, Archive, Rename, Handoff, Crash, Edit, vars
<1>1. CASE ~Alone
  BY <1>0, <1>1 DEF Solo, Alone
<1>2. CASE Alone
  <2>1. ASSUME NEW p \in Terminals, NEW s \in Sessions, Change(p, s) PROVE Solo'
    BY <1>2, <2>1, SoloCommands
  <2>2. ASSUME NEW p \in Terminals, Implement(p) PROVE Solo'
    BY <1>2, <2>2, SoloCommands
  <2>3. ASSUME NEW p \in Terminals, Load(p) PROVE Solo'
    BY <1>2, <2>3, SoloLoad
  <2>4. ASSUME NEW p \in Terminals, Mediate(p) PROVE Solo'
    BY <1>2, <2>4, SoloMediate
  <2>5. ASSUME NEW p \in Terminals, Loop(p) PROVE Solo'
    BY <1>2, <2>5, SoloLoop
  <2>6. ASSUME NEW p \in Terminals, Finish(p) PROVE Solo'
    BY <1>2, <2>6, SoloFinish
  <2>7. ASSUME NEW p \in Terminals, Crash(p) PROVE Solo'
    <3>1. p = Main /\ Go(p, Quiet)
      BY <1>2, <2>7, InMain DEF Crash
    <3>2. Steady(Quiet, active', tree')
      BY DEF Steady, Quiet
    <3> QED  BY <1>0, <1>2, <3>1, <3>2, SoloSteps
  <2>8. CASE Edit
    <3>1. "edit" \in world /\ UNCHANGED <<run, active>>
      BY <2>8 DEF Edit, disk
    <3> QED  BY <1>0, <3>1 DEF Solo, Steady, Alone
  <2>9. CASE UNCHANGED vars
    BY <2>9 DEF vars, disk, code, Solo, Steady, Alone
  <2> QED  BY <2>1, <2>2, <2>3, <2>4, <2>5, <2>6, <2>7, <2>8, <2>9 DEF Next
<1> QED  BY <1>1, <1>2

LEMMA SoloInvariance == Spec => [](IInv /\ Solo)
<1>1. Init => IInv /\ Solo
  BY InitIInv DEF Init, Solo, Steady, Quiet
<1>2. IInv /\ Solo /\ [Next]_vars => IInv' /\ Solo'
  BY StepIInv, StepSolo
<1> QED  BY <1>1, <1>2, PTL DEF Spec

(* With one terminal, whatever crashes: a session is archived only after       *)
(* verify accepted it, on a green tree unless somebody edits meanwhile.        *)
THEOREM FinishedIsGreen == Spec => FinishedGreen
<1>1. IInv /\ Solo /\ [Next]_vars =>
        [\A s \in archive' \ archive :
           Alone => /\ s \in verified
                    /\ "edit" \notin world => tree = "green"]_vars
  <2> SUFFICES ASSUME IInv, Solo, [Next]_vars, Alone, NEW s \in archive' \ archive
               PROVE  s \in verified /\ ("edit" \notin world => tree = "green")
    OBVIOUS
  <2>1. PICK p \in Terminals : Rename(p)
    BY DEF Next, Change, Implement, Load, Mediate, Reject, Accept, Apply, Record, Test, Loop, Preflight,
           Iterate, Exhaust, Finish, Verify, Settle, Archive, Handoff, Crash, Edit, vars, disk
  <2>2. run[p].pc = "rename" /\ s = active
    BY <2>1 DEF Rename
  <2>3. p = Main
    BY <2>2, InMain
  <2>4. Steady(run[p], active, tree) /\ Sound(run[p]) /\ Left(run[p], verified, packets)
    BY <2>3 DEF Solo, IInv
  <2>5. run[p].ok /\ run[p].passed /\ s = run[p].id
    BY <2>2, <2>4 DEF Steady, Sound
  <2> QED  BY <2>2, <2>4, <2>5 DEF Steady, Left
<1> QED  BY <1>1, SoloInvariance, PTL DEF Spec, FinishedGreen

(* With one terminal, whatever crashes or is edited: the active session leaves *)
(* only for the archive or for a new one.                                      *)
THEOREM SessionsStayActive == Spec => SessionsStay
<1>1. IInv /\ Solo /\ [Next]_vars =>
        [Alone /\ active # None /\ active' # active
           => active \in archive' \/ created' # created]_vars
  <2> SUFFICES ASSUME IInv, Solo, [Next]_vars, Alone, active # None, active' # active
               PROVE  active \in archive' \/ created' # created
    OBVIOUS
  <2>1. PICK p \in Terminals : \/ \E s \in Sessions : Change(p, s)
                               \/ Implement(p) \/ Settle(p) \/ Rename(p)
    BY DEF Next, Load, Mediate, Reject, Accept, Apply, Record, Test, Loop, Preflight,
           Iterate, Exhaust, Finish, Verify, Archive, Handoff, Crash, Edit, vars, disk
  <2>2. ASSUME NEW s \in Sessions, Change(p, s) PROVE created' # created
    BY <2>2 DEF Change
  <2>3. ~Implement(p)
    BY DEF Implement, Restorable
  <2>4. ~Settle(p)
    <3> SUFFICES ASSUME Settle(p) PROVE FALSE
      OBVIOUS
    <3>1. run[p].pc = "settle" /\ p = Main
      BY InMain DEF Settle
    <3>2. run[p].source = "active" => active = run[p].id
      BY <3>1 DEF Solo, Steady
    <3> QED  BY <3>2 DEF Settle
  <2>5. CASE Rename(p)
    BY <2>5 DEF Rename
  <2> QED  BY <2>1, <2>2, <2>3, <2>4, <2>5
<1> QED  BY <1>1, SoloInvariance, PTL DEF Spec, SessionsStay
=============================================================================
