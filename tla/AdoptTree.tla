------------------------------ MODULE AdoptTree ------------------------------
(***************************************************************************)
(* The files a bootstrap adoption moves (tools/jispec/bootstrap/adopt.ts): *)
(* which final paths a batch of decisions touches, in which order, and     *)
(* what each of them holds once the batch is in place.                     *)
(*                                                                         *)
(* The text of a file is abstracted to where it came from: the draft       *)
(* session whose artifact was written, or Base for a file the repository   *)
(* had before.  A directory is a function from artifact kinds to such      *)
(* origins, NoFile for a kind that has no file in it.                      *)
(***************************************************************************)
EXTENDS Naturals, FiniteSets, Sequences

CONSTANTS
    Sessions,   \* draft sessions under .spec/sessions
    Kinds,      \* artifact kinds of a draft (domain, api, feature)
    Base,       \* origin of the files that precede every adoption
    NoFile,     \* no file of that kind in a directory
    Missing     \* no file or directory at that path

\* An edit differs from an accept in the text it writes, which is abstracted:
\* "accept" stands for both.
AdoptDecisions == {"accept", "skip_as_spec_debt", "reject"}

Adopted(d)  == {k \in Kinds : d[k] = "accept"}
Deferred(d) == {k \in Kinds : d[k] = "skip_as_spec_debt"}

\* The status runBootstrapAdopt gives the session when nothing throws.
FinalStatus(d) ==
    IF Adopted(d) # {} \/ Deferred(d) # {} THEN "committed" ELSE "abandoned"

\* Labels of the commit operations; the last five are the hand-off files that
\* stageBootstrapTakeoverReport and stageBootstrapMainlineBaseline append.
Handoffs == <<"takeover-report", "current-baseline", "contract-graph",
              "adopt-summary", "takeover-brief">>
HandoffLabels == {"takeover-report", "current-baseline", "contract-graph",
                  "adopt-summary", "takeover-brief"}
DirLabels == {"contracts", "spec-debt"}
Labels == DirLabels \cup HandoffLabels

\* Mutant: a batch that adopts contracts leaves the spec debt in the shadow.
OperationsWithoutDebt(d) ==
       (IF Adopted(d) # {} THEN <<"contracts">>
        ELSE IF Deferred(d) # {} THEN <<"spec-debt">> ELSE <<>>)
    \o (IF FinalStatus(d) = "committed" THEN Handoffs ELSE <<>>)

Operations(d) ==
       (IF Adopted(d) # {} THEN <<"contracts">> ELSE <<>>)
    \o (IF Deferred(d) # {} THEN <<"spec-debt">> ELSE <<>>)
    \o (IF FinalStatus(d) = "committed" THEN Handoffs ELSE <<>>)

\* Every session has a spec-debt directory of its own; the other final paths
\* are the same file for all sessions.
FinalPath(s, l) == IF l = "spec-debt" THEN <<l, s>> ELSE <<l, Base>>
Paths == {FinalPath(s, l) : s \in Sessions, l \in Labels}

Directory == [Kinds -> Sessions \cup {Base, NoFile}]
Handoff   == [by : Sessions, adopted : SUBSET Kinds, deferred : SUBSET Kinds]
Content   == Directory \cup Handoff \cup {Missing}
ContentOf(l) == (IF l \in DirLabels THEN Directory ELSE Handoff) \cup {Missing}
Trees   == {t \in [Paths -> Content] : \A p \in Paths : t[p] \in ContentOf(p[1])}
Shelves == {f \in [Labels -> Content] : \A l \in Labels : f[l] \in ContentOf(l)}

ASSUME DistinctOrigins ==
    /\ Base \notin Sessions
    /\ NoFile \notin Sessions \cup {Base}
    /\ Missing \notin Directory \cup Handoff \cup [Kinds -> AdoptDecisions]

\* There is a draft session to adopt.
ASSUME SomeSession == Sessions # {}

\* Mutant: the contracts directory is staged without a copy of the live one.
StagedFromScratch(s, d, l, liveContracts) ==
    CASE l = "contracts" -> [k \in Kinds |-> IF k \in Adopted(d) THEN s ELSE NoFile]
      [] l = "spec-debt" -> [k \in Kinds |-> IF k \in Deferred(d) THEN s ELSE NoFile]
      [] OTHER -> [by |-> s, adopted |-> Adopted(d), deferred |-> Deferred(d)]

\* What prepareShadowBatch stages for session s: the contracts directory is a
\* copy of the live one with the adopted kinds overwritten, the others are
\* written from the decisions alone.
StagedContent(s, d, l, liveContracts) ==
    CASE l = "contracts" ->
             [k \in Kinds |-> IF k \in Adopted(d) THEN s
                              ELSE IF liveContracts = Missing THEN NoFile
                              ELSE liveContracts[k]]
      [] l = "spec-debt" ->
             [k \in Kinds |-> IF k \in Deferred(d) THEN s ELSE NoFile]
      [] OTHER ->
             [by |-> s, adopted |-> Adopted(d), deferred |-> Deferred(d)]

InBatch(d, l) == \E i \in 1..Len(Operations(d)) : Operations(d)[i] = l

\* The tree a complete batch of session s makes out of the tree t.
Applied(s, d, t) ==
    [p \in Paths |->
        IF InBatch(d, p[1]) /\ p = FinalPath(s, p[1])
        THEN StagedContent(s, d, p[1], t[FinalPath(s, "contracts")])
        ELSE t[p]]
=============================================================================
