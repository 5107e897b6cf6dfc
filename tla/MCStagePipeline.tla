--------------------------- MODULE MCStagePipeline ---------------------------
(* StagePipeline on small instances: the projects it is run in. *)
EXTENDS StagePipeline

\* The steps of each path that may throw
TxFaults == {"agent", "validate", "begin", "write", "aside", "gates", "evidence", "commit", "cache"}
LegacyFaults == {"agent", "write", "aside", "gates", "check", "evidence", "snapshot", "lifecycle", "cache"}

Project(transactional, stages, attempts, replies, faults, anywhere, edited) ==
  [transactional |-> transactional, stages |-> stages, maxAttempts |-> attempts,
   keepSnapshots |-> TRUE, fullRollback |-> TRUE, prompt |-> TRUE,
   replies |-> replies, faults |-> faults, anywhere |-> anywhere, edited |-> edited]

\* Transactions on: every step throws and nothing else; or anything goes
TxPlain == Project(TRUE, 3, 1, {"full", "wide"}, TxFaults, FALSE, FALSE)
TxRough == Project(TRUE, 2, 1, {"full"}, TxFaults \cup {"snapshot", "lost", "crash"}, TRUE, TRUE)
\* Transactions on, and agents whose gates or output are not what the stage asks for
TxOdd == Project(TRUE, 2, 1, AllReplies, {"commit", "cache"}, FALSE, FALSE)
\* The legacy path: every step throws and crashes; or agents of every other sort
Legacy == Project(FALSE, 2, 2, {"full", "refuse"}, LegacyFaults \cup {"crash"}, FALSE, FALSE)
LegacyWide == Project(FALSE, 2, 3, {"wide", "silent", "empty"}, {"agent", "aside", "check"}, FALSE, FALSE)
\* rollback.strategy: state_only, as the basic template has it
StateOnly(project) == [project EXCEPT !.fullRollback = FALSE]
TxStateOnly == StateOnly(Project(TRUE, 2, 1, {"full"}, {"evidence", "commit", "cache"}, FALSE, FALSE))
LegacyStateOnly == StateOnly(Project(FALSE, 2, 2, {"full"}, {"check", "lifecycle", "cache", "crash"}, FALSE, FALSE))

AllModes == {TxPlain, TxRough, TxOdd, Legacy, LegacyWide, TxStateOnly, LegacyStateOnly}
LegacyModes == {Project(FALSE, 3, 1, {"full"}, {}, FALSE, FALSE)}
=============================================================================
