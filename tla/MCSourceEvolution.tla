-------------------------- MODULE MCSourceEvolution --------------------------
(* SourceEvolution with requirements that split, merge, move and go.       *)
EXTENDS SourceEvolution, TLC

CONSTANTS a1, a2, a3, b, A, B

Families == [r \in Requirements |-> IF r = b THEN B ELSE A]

At(t, l) == [text |-> t, line |-> l]
Text(w, x, y, z) == (a1 :> w) @@ (a2 :> x) @@ (a3 :> y) @@ (b :> z)

\* At first a1 and b; b moved; a1 reworded and b moved; a1 split; a1 dropped.
First    == Text(At(1, 1), Missing, Missing, At(1, 2))
Moved    == Text(At(1, 1), Missing, Missing, At(1, 3))
Reworded == Text(At(2, 1), Missing, Missing, At(1, 3))
Split    == Text(Missing, At(1, 1), At(1, 2), At(1, 3))
Dropped  == Text(Missing, Missing, Missing, At(1, 1))

Versions == {First, Moved, Reworded, Split, Dropped}
Successor == {{}, {b}}

SourceWorlds == {{}, {"cut"}, {"two"}, {"legacy", "cut", "adhoc"}, {"maps"}}
Limits == [v \in SourceWorlds |-> CASE v = {} -> 6 [] v = {"cut"} -> 5 [] OTHER -> 4]

\* One change whose requirement is reworded twice, one command at a time.
Again == Text(At(3, 1), Missing, Missing, At(1, 3))

Rewordings == {First, Reworded, Again}
Unmapped == {{}}
CalmWorlds == {{}}
CalmLimit == [v \in CalmWorlds |-> 4]

Symmetric == Permutations(Terminals) \cup Permutations(Changes)
=============================================================================
