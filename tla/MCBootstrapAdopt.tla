--------------------------- MODULE MCBootstrapAdopt ---------------------------
(* Instances of BootstrapAdopt for TLC. *)
EXTENDS BootstrapAdopt, TLC

\* Calls that throw and are caught; crashes; everything that can throw; two
\* processes at once
AdoptWorlds == {
    {"prepare", "mkdir", "install_rename", "injected", "manifest", "audit"},
    {"prepare", "mkdir", "install_rename", "injected", "abandon", "crash"},
    AllTrouble \ {"parallel"},
    {"parallel"}}

\* Something is accepted and something deferred: the longest batch.
Mixed == {d \in [Kinds -> AdoptDecisions] : Adopted(d) # {} /\ Deferred(d) # {}}

BackupWorld == {{"backup_rename"}}

\* Nothing orders sessions or kinds, and no property tells them apart.
Symmetric == Permutations(Sessions) \cup Permutations(Kinds)
=============================================================================
