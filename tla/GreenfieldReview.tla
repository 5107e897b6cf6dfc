--------------------------- MODULE GreenfieldReview ---------------------------
(***************************************************************************)
(* The review of a generated project: `review adopt|reject|defer|waive`    *)
(* decides the entries of the review record one by one, and `spec-debt     *)
(* repay|cancel|owner-review` works on the debts that waivers leave        *)
(* (tools/jispec/greenfield/review-workflow.ts, spec-debt-ledger.ts).      *)
(*                                                                         *)
(* Every command is a process that reads a file whole and writes it back   *)
(* whole: the review record is read first and written last, the spec-debt  *)
(* ledger and the two lists of open decisions are read just before they    *)
(* are written.  Each read and each write is an action.  A command that is *)
(* refused changes nothing and has no action.                              *)
(***************************************************************************)
EXTENDS Naturals, Sequences

CONSTANTS
    Decisions,
    Serious,        \* decisions that block while they are proposed: blocking,
                    \* in conflict or of low confidence
    Inside,         \* <<d, e>>: the id of d is part of the id of e
    Terminals,
    Worlds,         \* what may go on: one of these sets per behaviour
    MaxCommands     \* bound: commands given in a behaviour

\* Commands at two terminals, commands that are cut.
Trouble == {"two", "cut"}

ASSUME ReviewAssumption ==
    /\ Serious \subseteq Decisions
    /\ Inside \subseteq Decisions \X Decisions
    /\ \A d \in Decisions : <<d, d>> \in Inside
    /\ Worlds \subseteq SUBSET Trouble
    /\ MaxCommands \in [Worlds -> Nat]

Lists == {"project", "pack"}
Reviews == {"adopt", "reject", "defer", "waive"}
Closings == {"repaid", "cancelled"}
Managing == Closings \cup {"owner-review"}
Statuses == {"proposed", "adopted", "rejected", "deferred", "waived"}

statusForAction ==
    [a \in Reviews |-> CASE a = "adopt" -> "adopted" [] a = "reject" -> "rejected"
                         [] a = "defer" -> "deferred" [] a = "waive" -> "waived"]

\* An entry of the review record: its history, and whether it has a waiver
\* record, a defer record and a correction.
Entries == [status : Statuses, history : Seq(Reviews),
            waiver_record : BOOLEAN, defer_record : BOOLEAN, correction : BOOLEAN]

Proposed == [status |-> "proposed", history |-> <<>>,
             waiver_record |-> FALSE, defer_record |-> FALSE, correction |-> FALSE]

\* The debt debt-review-<decision>; asked: its owner was asked to review it.
Debts == [status : {"none", "open"} \cup Closings, asked : BOOLEAN]
NoDebt == [status |-> "none", asked |-> FALSE]

VARIABLES
    world,          \* chosen by the initial state, never changed
    record,         \* the review record: an entry for each decision
    gate,           \* and the gate it was last written with
    debts,          \* the spec-debt ledger: a debt for each decision
    lists,          \* decisions named in each list of open decisions
    deltas,         \* decisions a rejection drafted a delta for
    corrections,    \* decisions with a correction file
    pc, held,       \* of a terminal: its next step, and what its command read
    given,          \* commands so far
    toldLast,       \* of a decision: the action of its last audit event
    loose,          \* history: decisions whose entry was written and not yet
                    \* told, or written by another command since
    adrift,         \* history: decisions with a debt that no waiver record
                    \* followed, or whose entry an older copy replaced
    settled,        \* history: decisions whose debt was closed since it was
                    \* last opened, or replaced by an older copy
    dropped         \* history: decisions that an older copy took off a list

files == <<record, gate, debts, lists, deltas, corrections>>
past == <<loose, adrift, settled, dropped>>
vars == <<world, files, pc, held, given, toldLast, past>>

\* What a command knows; page is the list it has read.
Command(op, d, copy, ledger) ==
    [op |-> op, on |-> d, record |-> copy, debts |-> ledger, page |-> {}]

NoRecord == [d \in Decisions |-> Proposed]
NoDebts == [d \in Decisions |-> NoDebt]
Idle == Command("none", "none", NoRecord, NoDebts)

\* The pack's list is generated with the serious decisions in it.
Init ==
    /\ world \in Worlds
    /\ record = NoRecord
    /\ gate = "pending_human_review"
    /\ debts = NoDebts
    /\ lists = [f \in Lists |-> IF f = "pack" THEN Serious ELSE {}]
    /\ deltas = {} /\ corrections = {}
    /\ pc = [t \in Terminals |-> "idle"]
    /\ held = [t \in Terminals |-> Idle]
    /\ given = 0
    /\ toldLast = [d \in Decisions |-> "none"]
    /\ loose = {} /\ adrift = {} /\ settled = {} /\ dropped = {}

-----------------------------------------------------------------------------
Goto(t, step) == pc' = [pc EXCEPT ![t] = step]
Return(t) == Goto(t, "idle") /\ held' = [held EXCEPT ![t] = Idle]

\* A command starts: another may be under way at the other terminal only.
Start(t) ==
    /\ pc[t] = "idle"
    /\ "two" \in world \/ \A u \in Terminals : pc[u] = "idle"
    /\ given < MaxCommands[world]
    /\ given' = given + 1

\* Mutant: the record is written without what it refers to.
RecordFirst(op) == "record"

\* Where a command goes once it has read the review record.
FirstStep(op) ==
    CASE op = "reject" -> "draft" [] op = "defer" -> "project"
      [] op = "waive" -> "ledger" [] op = "adopt" -> "record"

Review(t, op, d) ==
    /\ Start(t)
    /\ Goto(t, FirstStep(op))
    /\ held' = [held EXCEPT ![t] = Command(op, d, record, NoDebts)]
    /\ UNCHANGED <<world, files, toldLast, past>>

\* A rejection drafts a spec delta, then writes the correction that names it.
DraftDelta(t) ==
    /\ pc[t] = "draft"
    /\ deltas' = deltas \cup {held[t].on}
    /\ Goto(t, "correct")
    /\ UNCHANGED <<world, record, gate, debts, lists, corrections, held, given, toldLast, past>>

Correct(t) ==
    /\ pc[t] = "correct"
    /\ corrections' = corrections \cup {held[t].on}
    /\ Goto(t, "record")
    /\ UNCHANGED <<world, record, gate, debts, lists, deltas, held, given, toldLast, past>>

\* A deferral goes on the project's list, then on the pack's.
Named(page, d) == \E e \in page : <<d, e>> \in Inside

\* Mutant: the pack's list is left alone.
OneList(f) == "record"

AfterList(f) == IF f = "project" THEN "pack" ELSE "record"
Writing(f) == IF f = "project" THEN "write project" ELSE "write pack"

\* A list that already has the id somewhere in its text is left as it is.
ReadList(t, f) ==
    /\ pc[t] = f
    /\ IF Named(lists[f], held[t].on)
       THEN Goto(t, AfterList(f)) /\ UNCHANGED held
       ELSE Goto(t, Writing(f)) /\ held' = [held EXCEPT ![t].page = lists[f]]
    /\ UNCHANGED <<world, files, given, toldLast, past>>

WriteList(t, f) ==
    /\ pc[t] = Writing(f)
    /\ lists' = [lists EXCEPT ![f] = held[t].page \cup {held[t].on}]
    /\ dropped' = dropped \cup (lists[f] \ lists'[f])
    /\ Goto(t, AfterList(f))
    /\ UNCHANGED <<world, record, gate, debts, deltas, corrections, held, given, toldLast,
                   loose, adrift, settled>>

-----------------------------------------------------------------------------
(* The spec-debt ledger.                                                   *)

ReadLedger(t) ==
    /\ pc[t] = "ledger"
    /\ held' = [held EXCEPT ![t].debts = debts]
    /\ Goto(t, "owe")
    /\ UNCHANGED <<world, files, given, toldLast, past>>

\* Entries that changed since the command read the ledger.
StaleDebts(t) == {d \in Decisions : debts[d] # held[t].debts[d]}

\* Mutant: a debt the ledger has is kept.
OwedOnce(ledger, d) ==
    IF ledger[d] = NoDebt THEN [ledger EXCEPT ![d] = [status |-> "open", asked |-> FALSE]]
    ELSE ledger

\* A new open debt replaces the one of the same id.
Owed(ledger, d) == [ledger EXCEPT ![d] = [status |-> "open", asked |-> FALSE]]

Owe(t) ==
    LET d == held[t].on
    IN  /\ pc[t] = "owe"
        /\ debts' = Owed(held[t].debts, d)
        /\ settled' = (settled \cup StaleDebts(t)) \ {d}
        /\ adrift' = adrift \cup {d}
        /\ Goto(t, "record")
        /\ UNCHANGED <<world, record, gate, lists, deltas, corrections, held, given, toldLast,
                       loose, dropped>>

\* spec-debt repay, cancel and owner-review read the ledger, ...
Manage(t, op, d) ==
    /\ Start(t)
    /\ debts[d] # NoDebt
    /\ Goto(t, "manage")
    /\ held' = [held EXCEPT ![t] = Command(op, d, NoRecord, debts)]
    /\ UNCHANGED <<world, files, toldLast, past>>

Managed(debt, op) ==
    IF op = "owner-review" THEN [debt EXCEPT !.asked = TRUE] ELSE [debt EXCEPT !.status = op]

\* ... write it back whole, and append an audit event.
Settle(t) ==
    LET d == held[t].on
        op == held[t].op
        closed == IF op \in Closings THEN {d} ELSE {}
    IN  /\ pc[t] = "manage"
        /\ debts' = [held[t].debts EXCEPT ![d] = Managed(@, op)]
        /\ settled' = settled \cup StaleDebts(t) \cup closed
        /\ Goto(t, "tell debt")
        /\ UNCHANGED <<world, record, gate, lists, deltas, corrections, held, given, toldLast,
                       loose, adrift, dropped>>

TellDebt(t) ==
    /\ pc[t] = "tell debt"
    /\ Return(t)
    /\ UNCHANGED <<world, files, given, toldLast, past>>

-----------------------------------------------------------------------------
(* The review record.                                                      *)

\* Mutant: a decision that was decided before keeps its status.
FirstWord(entry, op) ==
    [entry EXCEPT !.history = Append(@, op),
                  !.status = IF @ = "proposed" THEN statusForAction[op] ELSE @]

\* The entry after op: what earlier actions attached to it stays.
Decided(entry, op) ==
    [status        |-> statusForAction[op],
     history       |-> Append(entry.history, op),
     waiver_record |-> op = "waive" \/ entry.waiver_record,
     defer_record  |-> op = "defer" \/ entry.defer_record,
     correction    |-> op = "reject" \/ entry.correction]

\* Mutant: a rejected decision no longer blocks.
StillProposed(copy) == \E d \in Serious : copy[d].status = "proposed"

Blocked(copy) ==
    \/ \E d \in Decisions : copy[d].status = "rejected"
    \/ \E d \in Serious : copy[d].status = "proposed"

\* What t's command writes: its own copy with its own decision in it.
Revised(t) ==
    [held[t].record EXCEPT ![held[t].on] = Decided(@, held[t].op)]

StaleEntries(t) == {d \in Decisions : record[d] # held[t].record[d]}

WriteRecord(t) ==
    LET d == held[t].on
        waived == IF held[t].op = "waive" THEN {d} ELSE {}
    IN  /\ pc[t] = "record"
        /\ record' = Revised(t)
        /\ gate' = IF Blocked(Revised(t)) THEN "blocked_on_human_review" ELSE "review_ready"
        /\ loose' = loose \cup StaleEntries(t) \cup {d}
        /\ adrift' = (adrift \cup StaleEntries(t)) \ waived
        /\ Goto(t, "tell")
        /\ UNCHANGED <<world, debts, lists, deltas, corrections, held, given, toldLast,
                       settled, dropped>>

\* The audit event names the decision and its status.
Tell(t) ==
    LET d == held[t].on
    IN  /\ pc[t] = "tell"
        /\ toldLast' = [toldLast EXCEPT ![d] = held[t].op]
        /\ loose' = IF record[d] = Revised(t)[d] THEN loose \ {d} ELSE loose \cup {d}
        /\ Return(t)
        /\ UNCHANGED <<world, files, given, adrift, settled, dropped>>

\* The process dies, or a write or the append of the event throws.
Cut(t) ==
    /\ "cut" \in world
    /\ pc[t] # "idle"
    /\ Return(t)
    /\ UNCHANGED <<world, files, given, toldLast, past>>

Next ==
    \E t \in Terminals :
        \/ \E d \in Decisions :
            \/ \E op \in Reviews : Review(t, op, d)
            \/ \E op \in Managing : Manage(t, op, d)
        \/ DraftDelta(t) \/ Correct(t)
        \/ \E f \in Lists : ReadList(t, f) \/ WriteList(t, f)
        \/ ReadLedger(t) \/ Owe(t) \/ Settle(t) \/ TellDebt(t)
        \/ WriteRecord(t) \/ Tell(t) \/ Cut(t)

Spec == Init /\ [][Next]_vars

-----------------------------------------------------------------------------
Steps == {"idle", "draft", "correct", "project", "write project", "pack", "write pack",
          "ledger", "owe", "manage", "tell debt", "record", "tell"}

Records == [Decisions -> Entries]
Ledgers == [Decisions -> Debts]

Holds ==
    [op : Reviews \cup Managing \cup {"none"}, on : Decisions \cup {"none"},
     record : Records, debts : Ledgers, page : SUBSET Decisions]

\* Every file and every command is one the program can have.
TypeOK ==
    /\ world \in Worlds
    /\ record \in Records
    /\ gate \in {"pending_human_review", "blocked_on_human_review", "review_ready"}
    /\ debts \in Ledgers
    /\ lists \in [Lists -> SUBSET Decisions]
    /\ deltas \subseteq Decisions /\ corrections \subseteq Decisions
    /\ pc \in [Terminals -> Steps]
    /\ held \in [Terminals -> Holds]
    /\ given \in Nat
    /\ toldLast \in [Decisions -> Reviews \cup {"none"}]
    /\ {loose, adrift, settled, dropped} \subseteq SUBSET Decisions

\* A waived decision has an open debt in the ledger, through cuts, waivers
\* given again and commands that overlap, until a spec-debt command closes it
\* or an older copy of the ledger replaces it.
WaivedIsOwed ==
    \A d \in Decisions : record[d].status = "waived" /\ d \notin settled
        => debts[d].status = "open"

\* The other way round: a decision with a debt has the waiver record that
\* leads to it, whatever was decided afterwards, unless the waiver was cut
\* before its record or an older copy of the record replaced the entry.
DebtIsNamed ==
    \A d \in Decisions : debts[d] # NoDebt /\ d \notin adrift => record[d].waiver_record

\* A deferred decision is named on both lists of open decisions, unless an
\* older copy of a list took its name off.
DeferredIsListed ==
    \A d \in Decisions : record[d].status = "deferred" /\ ~Named(dropped, d)
        => \A f \in Lists : Named(lists[f], d)

\* A rejected decision has a correction file and the delta it names, whatever
\* was cut or overlapped.
RejectedIsCorrected ==
    \A d \in Decisions : record[d].status = "rejected"
        => record[d].correction /\ d \in corrections \cap deltas

\* A decision's status is that of its last audit event, unless a command is
\* between its write and its event, was cut there, or overlapped another one.
LastWordStands ==
    \A d \in Decisions \ loose :
        record[d].status = IF toldLast[d] = "none" THEN "proposed"
                           ELSE statusForAction[toldLast[d]]

\* The gate is ready only if every serious decision was decided on and no
\* decision's last audit event is a rejection, with the same exceptions.
ReadyWasSaid ==
    gate = "review_ready" =>
        /\ \A d \in Serious : record[d].history # <<>>
        /\ \A d \in Decisions \ loose : toldLast[d] # "reject"
=============================================================================
