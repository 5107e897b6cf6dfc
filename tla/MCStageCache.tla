----------------------------- MODULE MCStageCache -----------------------------
(* StageCache with two calls at a time and two keys.                       *)
EXTENDS StageCache

CacheWorlds == {{}, {"crash", "write"}, {"overlap"}, {"overlap", "crash"}}
Limits == [v \in CacheWorlds |-> CASE v = {} -> 5
                                   [] v = {"crash", "write"} -> 4
                                   [] OTHER -> 3]

=============================================================================
