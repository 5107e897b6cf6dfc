-------------------------- MODULE MCVerifyGovernance --------------------------
(* VerifyGovernance with a narrow and a wide waiver. *)
EXTENDS VerifyGovernance, TLC

CONSTANTS w1, w2, i1, i2

Matchers == [w \in Waivers |-> IF w = w1 THEN {i1} ELSE {i1, i2}]

GovernanceWorlds == {
    {"two", "govern", "crash"},
    {"govern", "crash"},
    {"govern", "verify", "append"},
    {"govern", "approve"},
    {"two", "govern", "verify", "options"},
    {"verify", "options", "edit"}}

\* Create, revoke, renew and verify in one world; three commands in the others.
Limits == [v \in GovernanceWorlds |-> IF v = {"govern", "verify", "append"}
                                      THEN 4 ELSE 3]

Symmetric == Permutations(Terminals)

Events == [on : Waivers, text : Text] \cup Approval
=============================================================================
