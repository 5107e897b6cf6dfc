------------------------------ MODULE AuditLedger ------------------------------
(***************************************************************************)
(* The audit ledger .spec/audit/events.jsonl (tools/jispec/audit/          *)
(* event-ledger.ts): a file of events to which every command appends, each *)
(* carrying the sequence number and the hash of the line it was appended   *)
(* after.                                                                  *)
(*                                                                         *)
(* Lines are never rewritten, so the hash of a line is abstracted to its   *)
(* number: an event names the length of the ledger its command inspected.  *)
(* appendAuditEvent is two steps, because another command may append       *)
(* between the inspection and the write.                                   *)
(***************************************************************************)
EXTENDS Naturals, Sequences

CONSTANTS
    Terminals,  \* where commands are run, one at a time in each
    Subjects,   \* what an event may say
    None        \* no value

ASSUME LedgerAssumption == None \notin Nat

VARIABLES
    ledger,     \* the lines of the file
    reading     \* reading[p]: the length p's command has found intact, or None

lvars == <<ledger, reading>>

\* A line that a crash has cut short does not parse and follows nothing.
Event(p, n, about) == [by |-> p, after |-> n, about |-> about]
TornLine(p) == Event(p, None, None)

\* The integrity check: sequence numbers and previous hashes follow the lines.
Follows(l, i) == l[i].after = i - 1
Valid(l) == \A i \in 1..Len(l) : Follows(l, i)

\* A cut line has no line end: what is appended to it is part of it.
Extended(l, line) ==
    IF l # <<>> /\ l[Len(l)].after = None THEN l ELSE Append(l, line)

LInit ==
    /\ ledger = <<>>
    /\ reading = [p \in Terminals |-> None]

\* appendAuditEvent inspects the whole file and throws if it is damaged.
Inspect(p) ==
    /\ reading[p] = None
    /\ Valid(ledger)
    /\ reading' = [reading EXCEPT ![p] = Len(ledger)]
    /\ UNCHANGED ledger

AppendEvent(p, about) ==
    /\ reading[p] # None
    /\ reading' = [reading EXCEPT ![p] = None]
    /\ ledger' = Extended(ledger, Event(p, reading[p], about))

\* The write throws, or the process is killed before it.
GiveUp(p) ==
    /\ reading' = [reading EXCEPT ![p] = None]
    /\ UNCHANGED ledger

\* The process is killed in the middle of the write.
Tear(p) ==
    /\ reading[p] # None
    /\ ledger' = Extended(ledger, TornLine(p))
    /\ reading' = [reading EXCEPT ![p] = None]

LNext ==
    \E p \in Terminals :
        \/ Inspect(p)
        \/ \E about \in Subjects : AppendEvent(p, about)
        \/ GiveUp(p)
        \/ Tear(p)

LSpec == LInit /\ [][LNext]_lvars
-----------------------------------------------------------------------------
Lines == [by : Terminals, after : Nat \cup {None}, about : Subjects \cup {None}]

LTypeOK ==
    /\ ledger \in Seq(Lines)
    /\ reading \in [Terminals -> Nat \cup {None}]

\* The first n lines are not a chain.
Broken(l, n) == \E i \in 1..n : ~Follows(l, i)

(* Two commands that inspect the same ledger break the chain, and a crash  *)
(* may tear a line.  The damage is bounded: from the first damaged line on *)
(* no terminal has two lines, because its next command refuses to append.  *)
OneLinePerTerminal ==
    \A i, j \in 1..Len(ledger) :
        i < j /\ Broken(ledger, i) => ledger[i].by # ledger[j].by
=============================================================================
