--------------------------- MODULE SourceEvolution ---------------------------
(***************************************************************************)
(* How a change of the requirements becomes truth: `source refresh`        *)
(* compares the edited documents with the active snapshot, `source review  *)
(* adopt|reject|defer|waive` decides the differences one by one, `source   *)
(* adopt` promotes the proposal (tools/jispec/greenfield/source-refresh.ts,*)
(* provenance-drift.ts, source-governance.ts, source-lifecycle.ts).        *)
(*                                                                         *)
(* Every command is a process of its own.  One action per file written:    *)
(* what a command reads just before a write belongs to it, what it keeps   *)
(* from its start is in held.  A command that is refused changes nothing   *)
(* and has no action.  A manifest is the document it was taken from.       *)
(***************************************************************************)
EXTENDS Naturals, FiniteSets

CONSTANTS
    Requirements,
    Family,         \* Family[r]: what the id of r starts with
    Missing,        \* where a document does not state a requirement
    Drafts,         \* what the documents may say
    FirstDraft,     \* what they say when the project is initialised
    Changes,        \* change ids
    Terminals,
    Answers,        \* bound: what reviewers decide
    Mappings,       \* bound: what --maps-to may name: one requirement at most (of
                    \* several a merge takes the first), and none a draft drops
    None,
    Worlds,         \* what may go on: one of these sets per behaviour
    MaxCommands,    \* bound: commands given in a behaviour, by its world
    MaxEdits        \* bound: times the documents are edited

\* Two terminals, commands that are cut, a project older than the active
\* snapshot and the registry, reviewers that name successors, changes that only
\* `source refresh` ever heard of.
Trouble == {"two", "cut", "legacy", "maps", "adhoc"}

Actions == {"adopted", "rejected", "deferred", "waived"}
Resolved == {"adopted", "deferred", "waived"}

ASSUME SourceAssumption ==
    /\ Answers \subseteq Actions
    /\ FirstDraft \in Drafts
    /\ \A d \in Drafts : DOMAIN d = Requirements
    /\ \A d \in Drafts : Mappings \subseteq SUBSET {r \in Requirements : d[r] # Missing}
    /\ \A m \in Mappings : \A r, s \in m : r = s
    /\ None \notin Drafts \cup Changes
    /\ Worlds \subseteq SUBSET Trouble
    /\ MaxCommands \in [Worlds -> Nat]
    /\ MaxEdits \in Nat

-----------------------------------------------------------------------------
(* What a document says, and how two documents differ.                     *)

Ids(d) == {r \in Requirements : d[r] # Missing}

Kinds == {"added", "deprecated", "modified", "reanchored", "split", "merged"}

\* The id of an item is a hash of its kind and of the requirements it is about.
Items == [kind : Kinds, from : SUBSET Requirements, to : SUBSET Requirements]

Item(k, from, to) == [kind |-> k, from |-> from, to |-> to]

Blocking(i) == i.kind # "reanchored"

Kin(r, S) == {s \in S : Family[s] = Family[r]}

Several(S) == \E r, s \in S : r # s

Evolution(old, new) ==
    LET added   == Ids(new) \ Ids(old)
        removed == Ids(old) \ Ids(new)
        kept    == Ids(old) \cap Ids(new)
        splits  == {r \in removed : Several(Kin(r, added))}
        pieces  == UNION {Kin(r, added) : r \in splits}
        merges  == {r \in added \ pieces : Several(Kin(r, removed))}
        parts   == UNION {Kin(r, removed) : r \in merges}
        reworded == {r \in kept : old[r].text # new[r].text}
        moved   == {r \in kept \ reworded : old[r].line # new[r].line}
    IN  {Item("split", {r}, Kin(r, added)) : r \in splits}
        \cup {Item("merged", Kin(r, removed), {r}) : r \in merges}
        \cup {Item("added", {}, {r}) : r \in added \ (pieces \cup merges)}
        \cup {Item("deprecated", {r}, {}) : r \in removed \ (splits \cup parts)}
        \cup {Item("modified", {r}, {r}) : r \in reworded}
        \cup {Item("reanchored", {r}, {r}) : r \in moved}

-----------------------------------------------------------------------------
(* The registry of requirements.                                           *)

Live == {"active", "modified"}
Status == Live \cup {"unknown", "deprecated", "replaced", "split", "merged"}

InitialRegistry(d) ==
    [version |-> 1, snapshot |-> d, last |-> None,
     status |-> [r \in Requirements |-> IF r \in Ids(d) THEN "active" ELSE "unknown"]]

Over(f, g) == [x \in DOMAIN f \cup DOMAIN g |-> IF x \in DOMAIN f THEN f[x] ELSE g[x]]
Mark(S, s) == [r \in S |-> s]

\* A reviewer's own successors replace those of the item.
Successors(i, record) ==
    IF i \in DOMAIN record /\ record[i].maps # {} THEN record[i].maps ELSE i.to

\* Mutant: a requirement that was split keeps its status.
AppliedToPieces(status, items, record) ==
    LET of(k)      == {i \in items : i.kind = k}
        retired(k) == UNION {i.from : i \in of(k)}
        named(k)   == UNION {Successors(i, record) : i \in of(k)}
        mentioned  == UNION {i.from \cup i.to : i \in items}
        stated     == UNION {i.to : i \in of("added")}
        fresh      == {r \in mentioned : status[r] = "unknown"}
    IN  Over(Mark(named("split"), "active"),
        Over(Mark(retired("modified"), "modified"),
        Over(Mark(named("merged"), "active"),
        Over(Mark(retired("merged"), "merged"),
        Over(Mark(retired("deprecated"), "deprecated"),
        Over(Mark(fresh \cup stated, "active"), status))))))

\* The items are applied in the order of their kinds' names, whatever was
\* decided about them: a later line overrides the ones below it.
Applied(status, items, record) ==
    LET of(k)      == {i \in items : i.kind = k}
        retired(k) == UNION {i.from : i \in of(k)}
        named(k)   == UNION {Successors(i, record) : i \in of(k)}
        replaced   == UNION {i.from : i \in {j \in of("deprecated") : Successors(j, record) # {}}}
        stated     == UNION {i.to : i \in of("added")}
        mentioned  == UNION {i.from \cup i.to : i \in items}
        fresh      == {r \in mentioned : status[r] = "unknown"}
    IN  Over(Mark(named("split"), "active"),
        Over(Mark(retired("split"), "split"),
        Over(Mark(retired("modified"), "modified"),
        Over(Mark(named("merged"), "active"),
        Over(Mark(retired("merged"), "merged"),
        Over(Mark(named("deprecated"), "active"),
        Over(Mark(replaced, "replaced"),
        Over(Mark(retired("deprecated"), "deprecated"),
        Over(Mark(fresh \cup stated, "active"), status)))))))))

Registry(prior, items, record, d, c) ==
    [version |-> prior.version + 1, snapshot |-> d, last |-> c,
     status |-> Applied(prior.status, items, record)]

-----------------------------------------------------------------------------
VARIABLES
    world,          \* chosen by the initial state, never changed
    docs,           \* the documents people edit
    active, compat, \* the two manifests, None while there is no file
    lifecycle,      \* the registry, None while there is no file
    baseline,
    proposed,       \* of a change: its proposed snapshot,
    diff,           \* its differences and the two documents they are of,
    review,         \* its decisions, by item
    adoption,       \* of a change: what its adoption record says, if it has one
    pc, held,       \* of a terminal: its next step, and what its command holds
    given,          \* commands and edits so far
    told,           \* audit events of decisions
    toldLast,       \* change of the last audit event of an adoption
    torn,           \* history: the last adoption was cut or overlapped
    sound,          \* history: the registry only ever applied differences to
                    \* the snapshot it was for
    overwritten,    \* history: changes whose decisions were written from a
                    \* copy older than the file
    truth           \* history: what the last promotion replaced and rested on

truthFiles == <<active, compat, lifecycle, baseline, adoption>>
deltaFiles == <<proposed, diff, review>>
past == <<torn, sound, overwritten, truth>>
vars == <<world, docs, truthFiles, deltaFiles, pc, held, given, told, toldLast, past>>

Decision == [status : Actions, maps : Mappings, history : SUBSET Actions, about : Drafts]
NoRecord == <<>>

Compared(old, new) == [items |-> Evolution(old, new), base |-> old, shown |-> new]

\* `change` drafts a delta with an adoption record and with what the documents
\* say that the active snapshot does not; `source refresh` makes a directory.
Drafted(record) ==
    [c \in Changes |-> IF record[c] = "draft" THEN Compared(FirstDraft, FirstDraft) ELSE None]

\* The manifest a command finds: the active one, else the compatibility one.
Resolve == IF active # None THEN active ELSE compat

Idle == [op |-> "none"]

Init ==
    /\ world \in Worlds
    /\ docs = FirstDraft
    /\ active = IF "legacy" \in world THEN None ELSE FirstDraft
    /\ compat = FirstDraft
    /\ lifecycle = IF "legacy" \in world THEN None ELSE InitialRegistry(FirstDraft)
    /\ baseline = [snapshot |-> FirstDraft, version |-> 1, last |-> None, applied |-> {}]
    /\ proposed = [c \in Changes |-> None]
    /\ adoption \in [Changes -> IF "adhoc" \in world THEN {"none", "draft"} ELSE {"draft"}]
    /\ diff = Drafted(adoption)
    /\ review = [c \in Changes |-> NoRecord]
    /\ pc = [t \in Terminals |-> "idle"]
    /\ held = [t \in Terminals |-> Idle]
    /\ given = [commands |-> 0, edits |-> 0]
    /\ told = [c \in Changes |-> {}]
    /\ toldLast = None
    /\ torn = ("legacy" \in world)
    /\ sound = TRUE
    /\ overwritten = {}
    /\ truth = None

-----------------------------------------------------------------------------
Goto(t, step) == pc' = [pc EXCEPT ![t] = step]
Hold(t, h) == held' = [held EXCEPT ![t] = h]
Return(t) == Goto(t, "idle") /\ Hold(t, Idle)

\* A command starts: another may be under way at the other terminal only.
Start(t) ==
    /\ pc[t] = "idle"
    /\ "two" \in world \/ \A u \in Terminals : pc[u] = "idle"
    /\ given.commands < MaxCommands[world]
    /\ given' = [given EXCEPT !.commands = @ + 1]

Edit(d) ==
    /\ given.edits < MaxEdits
    /\ d # docs
    /\ docs' = d
    /\ given' = [given EXCEPT !.edits = @ + 1]
    /\ UNCHANGED <<world, truthFiles, deltaFiles, pc, held, told, toldLast, past>>

\* source refresh: the proposed snapshot is written first, ...
Refresh(t, c) ==
    /\ Start(t)
    /\ proposed' = [proposed EXCEPT ![c] = docs]
    /\ Goto(t, "compare")
    /\ Hold(t, [op |-> "refresh", on |-> c])
    /\ UNCHANGED <<world, docs, truthFiles, diff, review, told, toldLast, past>>

\* ... then what differs between the active snapshot and the proposed one.
\* Decisions taken before stay: an item's id does not say its text.
Compare(t) ==
    /\ pc[t] = "compare"
    /\ LET c == held[t].on
       IN  diff' = [diff EXCEPT ![c] = Compared(Resolve, proposed[c])]
    /\ Return(t)
    /\ UNCHANGED <<world, docs, truthFiles, proposed, review, given, told, toldLast, past>>

\* source review: an item is picked and the record read, ...
Review(t, c, i, s, m) ==
    /\ Start(t)
    /\ proposed[c] # None /\ diff[c] # None
    /\ i \in diff[c].items
    /\ m # {} => "maps" \in world
    /\ Goto(t, "decide")
    /\ Hold(t, [op |-> "review", on |-> c, item |-> i, status |-> s, maps |-> m,
                about |-> diff[c].shown, record |-> review[c]])
    /\ UNCHANGED <<world, docs, truthFiles, deltaFiles, told, toldLast, past>>

\* Mutant: the latest action only.
DecidedAnew(record, i, s, m, d) ==
    [status |-> s, maps |-> m, history |-> {s}, about |-> d]

\* The decision on i with one more action: an empty --maps-to keeps the old one.
Decided(record, i, s, m, d) ==
    LET known == i \in DOMAIN record
    IN  [status  |-> s,
         maps    |-> IF m = {} /\ known THEN record[i].maps ELSE m,
         history |-> {s} \cup (IF known THEN record[i].history ELSE {}),
         about   |-> d]

Upsert(record, i, decision) == Over([j \in {i} |-> decision], record)

Overwrites(t) ==
    overwritten' = IF review[held[t].on] = held[t].record
                   THEN overwritten ELSE overwritten \cup {held[t].on}

\* ... the whole record is written back, ...
Decide(t) ==
    /\ pc[t] = "decide"
    /\ LET h == held[t]
       IN  review' = [review EXCEPT ![h.on] =
               Upsert(h.record, h.item, Decided(h.record, h.item, h.status, h.maps, h.about))]
    /\ Overwrites(t)
    /\ Goto(t, "tell")
    /\ UNCHANGED <<world, docs, truthFiles, proposed, diff, held, given, told, toldLast,
                   torn, sound, truth>>

\* ... and the audit event appended.
Tell(t) ==
    /\ pc[t] = "tell"
    /\ LET h == held[t]
       IN  told' = [told EXCEPT ![h.on] = @ \cup {<<h.item, h.status>>}]
    /\ Return(t)
    /\ UNCHANGED <<world, docs, truthFiles, deltaFiles, given, toldLast, past>>

-----------------------------------------------------------------------------
(* source adopt.                                                           *)

\* Mutant: any decision will do.
Undecided(items, record) == {i \in items : Blocking(i) /\ i \notin DOMAIN record}

Unresolved(items, record) ==
    {i \in items : Blocking(i) /\ ~(i \in DOMAIN record /\ record[i].status \in Resolved)}

Adopting(t) == held[t].op = "adopt"

Adopt(t, c) ==
    /\ Start(t)
    /\ proposed[c] # None /\ diff[c] # None
    /\ Unresolved(diff[c].items, review[c]) = {}
    /\ Goto(t, "active")
    /\ Hold(t, [op |-> "adopt", on |-> c, from |-> Resolve, to |-> proposed[c],
                diff |-> diff[c], record |-> review[c], version |-> 0, alone |-> TRUE])
    /\ UNCHANGED <<world, docs, truthFiles, deltaFiles, told, toldLast, past>>

\* A file of t's adoption is written: no other adoption under way is alone.
Writing(t, step, next, version) ==
    /\ pc[t] = step
    /\ Goto(t, next)
    /\ held' = [u \in Terminals |->
                   IF u = t THEN [held[t] EXCEPT !.version = version]
                   ELSE IF Adopting(u) THEN [held[u] EXCEPT !.alone = FALSE]
                   ELSE held[u]]
    /\ torn' = TRUE
    /\ UNCHANGED <<world, docs, proposed, diff, given, told, toldLast>>

WriteActive(t) ==
    /\ Writing(t, "active", "compat", 0)
    /\ active' = held[t].to
    /\ truth' = [from |-> Resolve, to |-> held[t].to,
                 base |-> held[t].diff.base, shown |-> held[t].diff.shown,
                 record |-> held[t].record]
    /\ UNCHANGED <<compat, lifecycle, baseline, adoption, review, sound, overwritten>>

WriteCompat(t) ==
    /\ Writing(t, "compat", "lifecycle", 0)
    /\ compat' = held[t].to
    /\ UNCHANGED <<active, lifecycle, baseline, adoption, review, sound, overwritten, truth>>

\* Without a registry one is made of the manifest the command found.
Prior(from) == IF lifecycle # None THEN lifecycle ELSE InitialRegistry(from)

Renamed(items, record) == \E i \in items : i.kind \in {"split", "merged"} /\ Successors(i, record) # i.to

WriteLifecycle(t) ==
    LET h == held[t]
        prior == Prior(h.from)
    IN  /\ Writing(t, "lifecycle", "baseline", prior.version + 1)
        /\ lifecycle' = Registry(prior, h.diff.items, h.record, h.to, h.on)
        /\ sound' = (/\ sound
                     /\ h.diff.base = prior.snapshot
                     /\ h.diff.shown = h.to
                     /\ ~Renamed(h.diff.items, h.record))
        /\ UNCHANGED <<active, compat, baseline, adoption, review, overwritten, truth>>

\* Mutant: the baseline counts its own versions.
OwnVersion(h) ==
    [snapshot |-> h.to, version |-> baseline.version + 1, last |-> h.on,
     applied |-> baseline.applied \cup {h.on}]

NewBaseline(h) ==
    [snapshot |-> h.to, version |-> h.version, last |-> h.on,
     applied |-> baseline.applied \cup {h.on}]

WriteBaseline(t) ==
    /\ Writing(t, "baseline", "review", held[t].version)
    /\ baseline' = NewBaseline(held[t])
    /\ UNCHANGED <<active, compat, lifecycle, adoption, review, sound, overwritten, truth>>

\* The decisions are written back as they were when the command started.
WriteReview(t) ==
    /\ Writing(t, "review", "record", held[t].version)
    /\ review' = [review EXCEPT ![held[t].on] = held[t].record]
    /\ Overwrites(t)
    /\ UNCHANGED <<truthFiles, sound, truth>>

\* A change without an adoption record gets none.
RecordAdopted(c) == IF adoption[c] = "none" THEN adoption ELSE [adoption EXCEPT ![c] = "adopted"]

WriteRecord(t) ==
    /\ Writing(t, "record", "announce", held[t].version)
    /\ adoption' = RecordAdopted(held[t].on)
    /\ UNCHANGED <<active, compat, lifecycle, baseline, review, sound, overwritten, truth>>

TellAdoption(t) ==
    /\ pc[t] = "announce"
    /\ toldLast' = held[t].on
    /\ torn' = ~held[t].alone
    /\ Return(t)
    /\ UNCHANGED <<world, docs, truthFiles, deltaFiles, given, told, sound, overwritten, truth>>

\* The process dies, or a write or the append of the event throws.
Cut(t) ==
    /\ "cut" \in world
    /\ pc[t] # "idle"
    /\ Return(t)
    /\ UNCHANGED <<world, docs, truthFiles, deltaFiles, given, told, toldLast, past>>

AdoptStep(t) ==
    \/ WriteActive(t) \/ WriteCompat(t) \/ WriteLifecycle(t) \/ WriteBaseline(t)
    \/ WriteReview(t) \/ WriteRecord(t) \/ TellAdoption(t)

Next ==
    \/ \E d \in Drafts : Edit(d)
    \/ \E t \in Terminals :
        \/ \E c \in Changes : Refresh(t, c) \/ Adopt(t, c)
        \/ \E c \in Changes, s \in Answers, m \in Mappings :
              diff[c] # None /\ \E i \in diff[c].items : Review(t, c, i, s, m)
        \/ Compare(t) \/ Decide(t) \/ Tell(t) \/ AdoptStep(t) \/ Cut(t)

Spec == Init /\ [][Next]_vars

-----------------------------------------------------------------------------
Says(d, r) == IF d[r] = Missing THEN Missing ELSE d[r].text

Registries ==
    [version : Nat, snapshot : Drafts, last : Changes \cup {None},
     status : [Requirements -> Status]]

Records(S) == UNION {[I -> Decision] : I \in SUBSET S}

ASSUME NoneAssumption == None \notin Registries

\* Every file and every command is one the program can have.
TypeOK ==
    /\ world \in Worlds
    /\ docs \in Drafts /\ compat \in Drafts
    /\ active \in Drafts \cup {None}
    /\ lifecycle = None \/ lifecycle \in Registries
    /\ baseline \in [snapshot : Drafts, version : Nat, last : Changes \cup {None},
                     applied : SUBSET Changes]
    /\ proposed \in [Changes -> Drafts \cup {None}]
    /\ \A c \in Changes :
        /\ diff[c] # None =>
            /\ {diff[c].base, diff[c].shown} \subseteq Drafts
            /\ diff[c].items = Evolution(diff[c].base, diff[c].shown)
        /\ \A i \in DOMAIN review[c] : i \in Items /\ review[c][i] \in Decision
        /\ told[c] \subseteq Items \X Actions
    /\ adoption \in [Changes -> {"none", "draft", "adopted"}]
    /\ overwritten \subseteq Changes
    /\ toldLast \in Changes \cup {None}
    /\ given \in [commands : Nat, edits : Nat]
    /\ torn \in BOOLEAN /\ sound \in BOOLEAN

\* The active and the compatibility snapshot, the registry, the baseline, the
\* change's adoption record if it has one and the last audit event agree on what
\* was adopted last, in a project adopted into by this program, unless the last
\* adoption to write was cut, overlapped another one, or is still writing; one
\* that runs alone to its end repairs what those left behind.
FilesAgree ==
    ~torn => /\ lifecycle # None
             /\ {compat, lifecycle.snapshot, baseline.snapshot} = {active}
             /\ lifecycle.version = baseline.version
             /\ {lifecycle.last, baseline.last} = {toldLast}
             /\ toldLast # None => /\ toldLast \in baseline.applied
                                   /\ adoption[toldLast] # "draft"

\* A requirement that an adoption adds to, takes from or rewords in the active
\* snapshot is named by a decision to adopt, defer or waive, as far as the
\* differences the command read are those between what it replaced and what
\* it promoted: nobody adopted another change since the refresh, and the
\* refresh was not cut.
AdoptionWasDecided ==
    truth # None /\ truth.base = truth.from /\ truth.shown = truth.to
        => \A r \in Ids(truth.from) \cup Ids(truth.to) :
               Says(truth.from, r) # Says(truth.to, r) =>
                   \E i \in DOMAIN truth.record :
                       r \in i.from \cup i.to /\ truth.record[i].status # "rejected"

\* The registry calls active or modified exactly the requirements of the
\* snapshot it is for, through any sequence of additions, splits, merges and
\* removals, cut adoptions and adoptions run again, as long as it applied only
\* differences to the snapshot it was for and nobody renamed the successors.
RegistryFollows ==
    sound /\ lifecycle # None
        => {r \in Requirements : lifecycle.status[r] \in Live} = Ids(lifecycle.snapshot)

\* A decision with an audit event stays in the record's history, through later
\* decisions, refreshes and adoptions, unless a command wrote the record from
\* a copy older than the file.
DecisionStands ==
    \A c \in Changes \ overwritten : \A e \in told[c] :
        e[1] \in DOMAIN review[c] /\ e[2] \in review[c][e[1]].history

\* What docs/reference/truth-contract-and-canonical-encoding.md says of truth:
\* a requirement's text becomes truth only after that text was reviewed.
TruthIsReviewed ==
    truth # None =>
        \A r \in Ids(truth.from) \cap Ids(truth.to) :
            Says(truth.from, r) # Says(truth.to, r) =>
                \E i \in DOMAIN truth.record :
                    /\ r \in i.to /\ truth.record[i].status \in Resolved
                    /\ truth.record[i].about[r].text = truth.to[r].text
=============================================================================
