------------------------------- MODULE CacheMap -------------------------------
(***************************************************************************)
(* What the stage cache promises to the stage runner and the workers: one  *)
(* result or none under every key, the one stored last or, from the moment *)
(* it is removed, none.                                                    *)
(***************************************************************************)
EXTENDS Naturals

CONSTANTS
    Keys,   \* hashes of everything a result depends on
    None    \* no value

VARIABLES
    entries,    \* the result a lookup finds
    stored,     \* the number of the result stored last
    told        \* the latest lookup and its answer

mvars == <<entries, stored, told>>

MInit ==
    /\ entries = [k \in Keys |-> None]
    /\ stored = 0
    /\ told = None

\* The next result is there.
Store(k) ==
    /\ stored' = stored + 1
    /\ entries' = [entries EXCEPT ![k] = stored']
    /\ UNCHANGED told

Serve(k) ==
    /\ told' = [key |-> k, value |-> entries[k]]
    /\ UNCHANGED <<entries, stored>>

Remove(gone) ==
    /\ entries' = [k \in Keys |-> IF k \in gone THEN None ELSE entries[k]]
    /\ UNCHANGED <<stored, told>>

MNext ==
    \/ \E k \in Keys : Store(k) \/ Serve(k)
    \/ \E gone \in SUBSET Keys : Remove(gone)

MSpec == MInit /\ [][MNext]_mvars
=============================================================================
