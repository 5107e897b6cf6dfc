-------------------------- MODULE MCGreenfieldReview --------------------------
(* GreenfieldReview with a serious decision whose id is part of another's. *)
EXTENDS GreenfieldReview, TLC

CONSTANTS d1, d2

Nested == {<<d, d>> : d \in Decisions} \cup {<<d1, d2>>}

ReviewWorlds == SUBSET {"two", "cut"}
Limits == [v \in ReviewWorlds |-> 
    CASE v = {} -> 6 [] v = {"cut"} -> 5 [] v = {"two"} -> 4 [] OTHER -> 3]

Symmetric == Permutations(Terminals)
=============================================================================
