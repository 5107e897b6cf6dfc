-------------------------- MODULE MCImplementMainline --------------------------
(* ImplementMainline on two sessions with nested and look-alike paths. *)
EXTENDS ImplementMainline

CONSTANTS p1, p2, s1, s2, good, bad, bare

Scopes == [s \in Sessions |-> IF s = s1 THEN {<<"src", "a">>} ELSE {<<"src">>, <<"doc">>}]

Line(kind, name) == [kind |-> kind, name |-> name]
Edited(path) ==
  {Line("diff", <<"a">> \o path), Line("diff", <<"b">> \o path),
   Line("old", <<"a">> \o path), Line("new", <<"b">> \o path)}
Deleted(path) ==
  {Line("diff", <<"a">> \o path), Line("diff", <<"b">> \o path),
   Line("old", <<"a">> \o path), Line("new", Nowhere)}

\* good mends a file below the first session's directory; bad breaks it and
\* deletes a file beside the directory; bare comes without prefixes, so that the
\* scope is decided for src/a/x and git changes a/x
Diffs == [q \in Patches |->
  CASE q = good -> Edited(<<"src", "a", "x">>)
    [] q = bad -> Edited(<<"src", "a", "x">>) \cup Deleted(<<"doc">>)
    [] OTHER -> {Line(kind, <<"src", "a", "x">>) : kind \in {"diff", "old", "new"}}]
Effects == [q \in Patches |-> IF q = good THEN "green" ELSE "red"]

AllWorlds == {{}, {"edit"}, {"crash"}, {"two"}}
=============================================================================
