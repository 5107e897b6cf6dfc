------------------------ MODULE MCDistributedRuntime ------------------------
(* DistributedRuntime with two workers of different size. *)
EXTENDS DistributedRuntime

CONSTANTS a, b, w1, w2

Capacities == [w \in Workers |-> IF w = w1 THEN 1 ELSE 2]
Sizes == [t \in Tasks |-> IF t = a THEN 1 ELSE 2]

\* Nothing but failing executors and cache writes; offline errors and cancelled
\* tasks too; a worker that stops
AllWorlds == {{}, {"put"}, {"offline", "put", "cancel"}, {"stop"}}
OfflineWorld == {{"offline"}}
=============================================================================
