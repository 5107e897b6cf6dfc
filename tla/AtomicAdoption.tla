---------------------------- MODULE AtomicAdoption ----------------------------
(***************************************************************************)
(* What an adoption promises: the accepted contracts, the spec-debt        *)
(* records and the hand-off files of a session appear together, in one     *)
(* step, or none of them does.                                             *)
(***************************************************************************)
EXTENDS AdoptTree

VARIABLES
    tree,     \* what is at every final path
    chosen    \* chosen[s]: the decisions of the adoption in progress, or Missing

aVars == <<tree, chosen>>

AInit ==
    /\ tree \in Trees
    /\ chosen = [s \in Sessions |-> Missing]

Choose(s, d) ==
    /\ chosen[s] = Missing
    /\ chosen' = [chosen EXCEPT ![s] = d]
    /\ UNCHANGED tree

ApplyBatch(s) ==
    /\ chosen[s] # Missing
    /\ tree' = Applied(s, chosen[s], tree)
    /\ chosen' = [chosen EXCEPT ![s] = Missing]

GiveUp(s) ==
    /\ chosen[s] # Missing
    /\ chosen' = [chosen EXCEPT ![s] = Missing]
    /\ UNCHANGED tree

ANext ==
    \E s \in Sessions :
        \/ \E d \in [Kinds -> AdoptDecisions] : Choose(s, d)
        \/ ApplyBatch(s)
        \/ GiveUp(s)

ASpec == AInit /\ [][ANext]_aVars
=============================================================================
