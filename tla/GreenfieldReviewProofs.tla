------------------------ MODULE GreenfieldReviewProofs ------------------------
(***************************************************************************)
(* What a review leaves behind, for every set of decisions, terminals and  *)
(* worlds.  Each promise is strengthened to the copies that commands hold, *)
(* because a copy is what is written back.                                 *)
(***************************************************************************)
EXTENDS GreenfieldReview, TLAPS

\* A command is at the steps of its kind, on a decision; one that works on a
\* debt has read it.
Doing ==
    \A t \in Terminals :
        /\ pc[t] # "idle" => held[t].on \in Decisions
        /\ pc[t] \in {"draft", "correct"} => held[t].op = "reject"
        /\ pc[t] \in {"project", "write project", "pack", "write pack"} => held[t].op = "defer"
        /\ pc[t] \in {"ledger", "owe"} => held[t].op = "waive"
        /\ pc[t] \in {"record", "tell"} => held[t].op \in Reviews
        /\ pc[t] \in {"manage", "tell debt"} => held[t].op \in Managing

Typed == TypeOK /\ Doing

LEMMA DecidedType ==
    ASSUME NEW entry \in Entries, NEW op \in Reviews
    PROVE  /\ Decided(entry, op) \in Entries
           /\ Decided(entry, op).status = statusForAction[op]
           /\ Decided(entry, op).history # <<>>
           /\ op = "waive" \/ entry.waiver_record => Decided(entry, op).waiver_record
           /\ op = "reject" \/ entry.correction => Decided(entry, op).correction
<1>1. statusForAction[op] \in Statuses
  BY DEF statusForAction, Statuses, Reviews
<1>2. Append(entry.history, op) \in Seq(Reviews) /\ Append(entry.history, op) # <<>>
  BY DEF Entries
<1>3. /\ (op = "waive" \/ entry.waiver_record) \in BOOLEAN
      /\ (op = "defer" \/ entry.defer_record) \in BOOLEAN
      /\ (op = "reject" \/ entry.correction) \in BOOLEAN
  OBVIOUS
<1>4. Decided(entry, op) \in Entries
  BY <1>1, <1>2, <1>3 DEF Decided, Entries
<1>5. /\ Decided(entry, op).status = statusForAction[op]
      /\ Decided(entry, op).history = Append(entry.history, op)
      /\ Decided(entry, op).waiver_record = (op = "waive" \/ entry.waiver_record)
      /\ Decided(entry, op).correction = (op = "reject" \/ entry.correction)
  BY ONLY DEF Decided
<1> QED
  BY <1>2, <1>4, <1>5, Zenon

LEMMA StatusTable ==
    /\ statusForAction["adopt"] = "adopted"
    /\ statusForAction["reject"] = "rejected"
    /\ statusForAction["defer"] = "deferred"
    /\ statusForAction["waive"] = "waived"
  BY DEF statusForAction, Reviews

LEMMA InitialEntries ==
    /\ NoRecord \in Records
    /\ NoDebts \in Ledgers
    /\ Idle \in Holds
<1>1. Proposed \in Entries
  BY DEF Proposed, Entries, Statuses
<1>2. NoDebt \in Debts
  BY DEF NoDebt, Debts
<1> QED
  BY <1>1, <1>2 DEF NoRecord, NoDebts, Records, Ledgers, Idle, Command, Holds

LEMMA HoldsFields ==
    ASSUME NEW h \in Holds
    PROVE  /\ h.record \in Records /\ h.debts \in Ledgers
           /\ h.page \subseteq Decisions
           /\ h.op \in Reviews \cup Managing \cup {"none"}
  BY DEF Holds

\* What WriteRecord puts in place of each entry.
LEMMA RevisedIs ==
    ASSUME Typed, NEW t \in Terminals, pc[t] \in {"record", "tell"}
    PROVE  /\ held[t].on \in Decisions /\ held[t].op \in Reviews
           /\ Revised(t) \in Records
           /\ Revised(t)[held[t].on] = Decided(held[t].record[held[t].on], held[t].op)
           /\ \A d \in Decisions : d # held[t].on => Revised(t)[d] = held[t].record[d]
<1>1. held[t].on \in Decisions /\ held[t].op \in Reviews
  BY DEF Typed, Doing
<1>2. held[t].record \in [Decisions -> Entries]
  BY HoldsFields DEF Typed, TypeOK, Records
<1>3. Decided(held[t].record[held[t].on], held[t].op) \in Entries
  BY <1>1, <1>2, DecidedType
<1> QED
  BY <1>1, <1>2, <1>3 DEF Revised, Records

LEMMA CommandType ==
    ASSUME NEW op \in Reviews \cup Managing, NEW d \in Decisions,
           NEW copy \in Records, NEW ledger \in Ledgers
    PROVE  Command(op, d, copy, ledger) \in Holds
  BY DEF Command, Holds

LEMMA TypedInit == Init => Typed
  BY InitialEntries, ReviewAssumption
     DEF Init, Typed, TypeOK, Doing, Lists, Steps

LEMMA TypedStep == Typed /\ [Next]_vars => Typed'
<1> SUFFICES ASSUME Typed, [Next]_vars PROVE Typed'
  OBVIOUS
<1>1. CASE UNCHANGED vars
  BY <1>1 DEF vars, files, past, Typed, TypeOK, Doing
<1>2. ASSUME NEW t \in Terminals, NEW d \in Decisions, NEW op \in Reviews, Review(t, op, d)
      PROVE  Typed'
  <2>1. Command(op, d, record, NoDebts) \in Holds
    BY CommandType, InitialEntries DEF Typed, TypeOK
  <2>2. FirstStep(op) \in Steps
    BY DEF FirstStep, Steps, Reviews
  <2>3. given' \in Nat
    BY <1>2 DEF Typed, TypeOK, Review, Start
  <2>5. held' \in [Terminals -> Holds]
    BY <1>2, <2>1 DEF Typed, TypeOK, Review
  <2>6. pc' \in [Terminals -> Steps]
    BY <1>2, <2>2 DEF Typed, TypeOK, Review, Goto
  <2>7. TypeOK'
    BY <1>2, <2>3, <2>5, <2>6 DEF Typed, TypeOK, Review, files, past
  <2>4. Doing'
    BY <1>2, <2>1 DEF Typed, TypeOK, Doing, Review, Start, Goto, FirstStep, Command, Reviews
  <2> QED
    BY <2>7, <2>4 DEF Typed
<1>3. ASSUME NEW t \in Terminals, NEW d \in Decisions, NEW op \in Managing, Manage(t, op, d)
      PROVE  Typed'
  <2>1. Command(op, d, NoRecord, debts) \in Holds
    BY CommandType, InitialEntries DEF Typed, TypeOK
  <2>4. given' \in Nat
    BY <1>3 DEF Typed, TypeOK, Manage, Start
  <2>5. held' \in [Terminals -> Holds]
    BY <1>3, <2>1 DEF Typed, TypeOK, Manage
  <2>6. pc' \in [Terminals -> Steps]
    BY <1>3 DEF Typed, TypeOK, Manage, Goto, Steps
  <2>7. UNCHANGED <<world, files, toldLast, past>>
    BY <1>3 DEF Manage
  <2>2. TypeOK'
    BY <2>4, <2>5, <2>6, <2>7 DEF Typed, TypeOK, files, past
  <2>3. Doing'
    BY <1>3, <2>1 DEF Typed, TypeOK, Doing, Manage, Start, Goto, Command
  <2> QED
    BY <2>2, <2>3 DEF Typed
<1>4. ASSUME NEW t \in Terminals, DraftDelta(t) PROVE Typed'
  BY <1>4 DEF Typed, TypeOK, Doing, DraftDelta, Goto, past, Steps
<1>5. ASSUME NEW t \in Terminals, Correct(t) PROVE Typed'
  BY <1>5 DEF Typed, TypeOK, Doing, Correct, Goto, past, Steps, Reviews
<1>6. ASSUME NEW t \in Terminals, NEW f \in Lists, ReadList(t, f) PROVE Typed'
  <2>1. lists[f] \subseteq Decisions
    BY DEF Typed, TypeOK
  <2>2. [held[t] EXCEPT !.page = lists[f]] \in Holds
    BY <2>1 DEF Typed, TypeOK, Holds
  <2>3. TypeOK'
    BY <1>6, <2>2 DEF Typed, TypeOK, ReadList, Goto, AfterList, Writing, files, past, Steps, Lists
  <2>5. \A u \in Terminals : held'[u].op = held[u].op /\ held'[u].on = held[u].on
    BY <1>6 DEF Typed, TypeOK, ReadList, Holds
  <2>6. /\ held[t].on \in Decisions /\ held[t].op = "defer"
        /\ pc'[t] \in {"write project", "write pack", "pack", "record"}
        /\ \A u \in Terminals : u # t => pc'[u] = pc[u]
    BY <1>6 DEF Typed, TypeOK, Doing, ReadList, Goto, AfterList, Writing, Lists
  <2>4. Doing'
    BY <2>5, <2>6 DEF Typed, Doing, Reviews
  <2> QED
    BY <2>3, <2>4 DEF Typed
<1>7. ASSUME NEW t \in Terminals, NEW f \in Lists, WriteList(t, f) PROVE Typed'
  <2>1. held[t].page \cup {held[t].on} \subseteq Decisions
    BY <1>7, HoldsFields DEF Typed, TypeOK, Doing, WriteList, Writing
  <2>2. TypeOK'
    BY <1>7, <2>1 DEF Typed, TypeOK, WriteList, Goto, AfterList, Steps, Lists
  <2>3. Doing'
    BY <1>7 DEF Typed, TypeOK, Doing, WriteList, Goto, AfterList, Writing, Lists, Reviews
  <2> QED
    BY <2>2, <2>3 DEF Typed
<1>8. ASSUME NEW t \in Terminals, ReadLedger(t) PROVE Typed'
  <2>1. [held[t] EXCEPT !.debts = debts] \in Holds
    BY DEF Typed, TypeOK, Holds
  <2>2. TypeOK'
    BY <1>8, <2>1 DEF Typed, TypeOK, ReadLedger, Goto, files, past, Steps
  <2>3. Doing'
    <3>1. /\ pc' = [pc EXCEPT ![t] = "owe"]
          /\ held' = [held EXCEPT ![t].debts = debts]
      BY <1>8 DEF ReadLedger, Goto
    <3>2. held'[t].on = held[t].on /\ held'[t].op = held[t].op
      BY <3>1 DEF Typed, TypeOK, Holds
    <3> QED
      BY <1>8, <3>1, <3>2 DEF Typed, TypeOK, Doing, ReadLedger
  <2> QED
    BY <2>2, <2>3 DEF Typed
<1>9. ASSUME NEW t \in Terminals, Owe(t) PROVE Typed'
  <2>1. held[t].on \in Decisions /\ held[t].debts \in Ledgers
    BY <1>9, HoldsFields DEF Typed, TypeOK, Doing, Owe
  <2>2. debts' \in Ledgers
    BY <1>9, <2>1 DEF Owe, Owed, Ledgers, Debts
  <2>3. TypeOK'
    BY <1>9, <2>1, <2>2 DEF Typed, TypeOK, Owe, Goto, StaleDebts, Steps
  <2>4. Doing'
    BY <1>9 DEF Typed, TypeOK, Doing, Owe, Goto, Reviews
  <2> QED
    BY <2>3, <2>4 DEF Typed
<1>10. ASSUME NEW t \in Terminals, Settle(t) PROVE Typed'
  <2>1. held[t].on \in Decisions /\ held[t].debts \in Ledgers /\ held[t].op \in Managing
    BY <1>10, HoldsFields DEF Typed, TypeOK, Doing, Settle
  <2>2. Managed(held[t].debts[held[t].on], held[t].op) \in Debts
    BY <2>1 DEF Managed, Ledgers, Debts, Managing
  <2>3. debts' \in Ledgers
    BY <1>10, <2>1, <2>2 DEF Settle, Ledgers
  <2>4. TypeOK'
    BY <1>10, <2>1, <2>3 DEF Typed, TypeOK, Settle, Goto, StaleDebts, Steps
  <2>5. Doing'
    BY <1>10 DEF Typed, TypeOK, Doing, Settle, Goto
  <2> QED
    BY <2>4, <2>5 DEF Typed
<1>11. ASSUME NEW t \in Terminals, WriteRecord(t) PROVE Typed'
  <2>1. held[t].on \in Decisions /\ Revised(t) \in Records
    BY <1>11, RevisedIs DEF WriteRecord
  <2>2. TypeOK'
    BY <1>11, <2>1 DEF Typed, TypeOK, WriteRecord, Goto, StaleEntries, Steps
  <2>3. Doing'
    BY <1>11 DEF Typed, TypeOK, Doing, WriteRecord, Goto
  <2> QED
    BY <2>2, <2>3 DEF Typed
<1>12. ASSUME NEW t \in Terminals, Tell(t) PROVE Typed'
  <2>1. held[t].on \in Decisions /\ held[t].op \in Reviews
    BY <1>12 DEF Typed, Doing, Tell
  <2> QED
    BY <1>12, <2>1, InitialEntries DEF Typed, TypeOK, Doing, Tell, Return, Goto, files, Steps
<1>13. ASSUME NEW t \in Terminals, TellDebt(t) \/ Cut(t) PROVE Typed'
  <2>1. /\ pc' = [pc EXCEPT ![t] = "idle"] /\ held' = [held EXCEPT ![t] = Idle]
        /\ UNCHANGED <<world, files, given, past>>
    BY <1>13 DEF TellDebt, Cut, Return, Goto
  <2>2. toldLast' \in [Decisions -> Reviews \cup {"none"}] \/ UNCHANGED toldLast
    BY <1>13 DEF TellDebt, Cut
  <2>3. TypeOK'
    BY <2>1, <2>2, InitialEntries DEF Typed, TypeOK, files, past, Steps
  <2>4. Doing'
    BY <2>1 DEF Typed, TypeOK, Doing
  <2> QED
    BY <2>3, <2>4 DEF Typed
<1> QED
  BY <1>1, <1>2, <1>3, <1>4, <1>5, <1>6, <1>7, <1>8, <1>9, <1>10, <1>11, <1>12, <1>13 DEF Next

(* Every file and every command is one the program can have.               *)
THEOREM ReviewTypeCorrect == Spec => []TypeOK
<1>1. Typed => TypeOK
  BY DEF Typed
<1> QED
  BY <1>1, TypedInit, TypedStep, PTL DEF Spec

-----------------------------------------------------------------------------
(* What a step does to the review record and the ledger, and to the copies *)
(* of them.                                                                *)

\* Actions that write neither file.
Quiet(t) ==
    \/ \E d \in Decisions :
        \/ \E op \in Reviews : Review(t, op, d)
        \/ \E op \in Managing : Manage(t, op, d)
    \/ DraftDelta(t) \/ Correct(t)
    \/ \E f \in Lists : ReadList(t, f) \/ WriteList(t, f)
    \/ ReadLedger(t) \/ TellDebt(t) \/ Tell(t) \/ Cut(t)

LEMMA Split ==
    ASSUME [Next]_vars
    PROVE  \/ UNCHANGED vars
           \/ \E t \in Terminals : Quiet(t) \/ Owe(t) \/ Settle(t) \/ WriteRecord(t)
  BY DEF Next, Quiet

LEMMA QuietFiles ==
    ASSUME NEW t \in Terminals, Quiet(t)
    PROVE  UNCHANGED <<record, gate, debts, adrift, settled>>
  BY DEF Quiet, Review, Manage, DraftDelta, Correct, ReadList, WriteList, ReadLedger,
         TellDebt, Tell, Cut, files, past

\* A terminal keeps its copies, or takes the files', or clears them; a waiver
\* comes to its last write through the ledger only.
Keeps(u) ==
    /\ held'[u].record \in {held[u].record, record, NoRecord}
    /\ held'[u].debts \in {held[u].debts, debts, NoDebts}
    /\ pc'[u] = "record" /\ held'[u].op = "waive" =>
           pc[u] = "record" /\ held'[u].op = held[u].op /\ held'[u].on = held[u].on

LEMMA QuietCopies ==
    ASSUME Typed, NEW t \in Terminals, Quiet(t), NEW u \in Terminals
    PROVE  Keeps(u)
<1>1. held \in [Terminals -> Holds] /\ pc \in [Terminals -> Steps]
  BY DEF Typed, TypeOK
<1>2. ASSUME NEW d \in Decisions, NEW op \in Reviews, Review(t, op, d) PROVE Keeps(u)
  BY <1>1, <1>2 DEF Review, Start, Command, Goto, FirstStep, Reviews, Keeps
<1>3. ASSUME NEW d \in Decisions, NEW op \in Managing, Manage(t, op, d) PROVE Keeps(u)
  BY <1>1, <1>3 DEF Manage, Start, Command, Goto, Keeps
<1>4. CASE DraftDelta(t) \/ Correct(t)
  <2>1. held[t].op = "reject"
    BY <1>4 DEF DraftDelta, Correct, Typed, Doing
  <2> QED
    BY <1>1, <1>4, <2>1 DEF DraftDelta, Correct, Goto, Keeps
<1>5. ASSUME NEW f \in Lists, ReadList(t, f) \/ WriteList(t, f) PROVE Keeps(u)
  <2>1. held[t].op = "defer"
    BY <1>5 DEF ReadList, WriteList, Typed, Doing, Writing, Lists
  <2>2. /\ held'[u].record = held[u].record /\ held'[u].debts = held[u].debts
        /\ held'[u].op = held[u].op /\ held'[u].on = held[u].on
    BY <1>1, <1>5 DEF ReadList, WriteList, Holds
  <2>3. u # t => pc'[u] = pc[u]
    BY <1>1, <1>5 DEF ReadList, WriteList, Goto
  <2> QED
    BY <2>1, <2>2, <2>3 DEF Keeps
<1>6. CASE ReadLedger(t)
  <2>1. /\ held'[u].record = held[u].record /\ held'[u].debts \in {held[u].debts, debts}
        /\ held'[u].op = held[u].op /\ held'[u].on = held[u].on
    BY <1>1, <1>6 DEF ReadLedger, Holds
  <2>2. pc'[u] = "record" => pc[u] = "record"
    BY <1>1, <1>6 DEF ReadLedger, Goto
  <2> QED
    BY <2>1, <2>2 DEF Keeps
<1>7. CASE TellDebt(t) \/ Tell(t) \/ Cut(t)
  <2>1. held' = [held EXCEPT ![t] = Idle] /\ pc' = [pc EXCEPT ![t] = "idle"]
    BY <1>7 DEF TellDebt, Tell, Cut, Return, Goto
  <2>2. CASE u = t
    BY <1>1, <2>1, <2>2 DEF Idle, Command, Keeps
  <2>3. CASE u # t
    BY <1>1, <2>1, <2>3 DEF Keeps
  <2> QED
    BY <2>2, <2>3
<1> QED
  BY <1>2, <1>3, <1>4, <1>5, <1>6, <1>7 DEF Quiet

-----------------------------------------------------------------------------
(* Waivers and debts.                                                      *)

\* Nobody has the decision for waived, nor is about to write that it is.
NotWaived(d) ==
    /\ record[d].status # "waived"
    /\ \A t \in Terminals :
        /\ held[t].record[d].status # "waived"
        /\ ~(pc[t] = "record" /\ held[t].op = "waive" /\ held[t].on = d)

OwedOrNever ==
    \A d \in Decisions : d \notin settled /\ debts[d].status # "open" => NotWaived(d)

LEMMA OwedInit == Init => OwedOrNever
  BY DEF Init, OwedOrNever, NotWaived, NoRecord, Proposed, Idle, Command

LEMMA OwedStep == Typed /\ OwedOrNever /\ [Next]_vars => OwedOrNever'
<1> SUFFICES ASSUME Typed, OwedOrNever, [Next]_vars,
                    NEW d \in Decisions, d \notin settled', debts'[d].status # "open"
             PROVE  NotWaived(d)'
  BY DEF OwedOrNever
<1>1. CASE UNCHANGED vars
  BY <1>1 DEF vars, files, past, OwedOrNever, NotWaived
<1>2. ASSUME NEW t \in Terminals, Quiet(t) PROVE NotWaived(d)'
  <2>1. NotWaived(d) /\ record' = record
    BY <1>2, QuietFiles DEF OwedOrNever
  <2>2. NoRecord[d].status # "waived"
    BY DEF NoRecord, Proposed
  <2> QED
    BY <1>2, <2>1, <2>2, QuietCopies DEF Keeps, NotWaived
<1>3. ASSUME NEW t \in Terminals, Owe(t) PROVE NotWaived(d)'
  <2>1. /\ held[t].on \in Decisions /\ held[t].debts \in Ledgers
        /\ debts' = Owed(held[t].debts, held[t].on)
    BY <1>3, HoldsFields DEF Owe, Typed, TypeOK, Doing
  <2>2. d # held[t].on
    BY <2>1 DEF Owed, Ledgers
  <2>3. debts'[d] = held[t].debts[d]
    BY <2>1, <2>2 DEF Owed, Ledgers
  <2>4. d \notin settled /\ d \notin StaleDebts(t)
    BY <1>3, <2>2 DEF Owe
  <2>5. debts'[d] = debts[d]
    BY <2>3, <2>4 DEF StaleDebts
  <2>6. NotWaived(d)
    BY <2>4, <2>5 DEF OwedOrNever
  <2> QED
    BY <1>3, <2>2, <2>6 DEF Owe, Goto, NotWaived, Typed, TypeOK
<1>4. ASSUME NEW t \in Terminals, Settle(t) PROVE NotWaived(d)'
  <2>1. /\ held[t].on \in Decisions /\ held[t].debts \in Ledgers
        /\ held[t].op \in Managing
    BY <1>4, HoldsFields DEF Settle, Typed, TypeOK, Doing
  <2>2. d \notin settled /\ d \notin StaleDebts(t)
    BY <1>4 DEF Settle
  <2>3. d = held[t].on => held[t].op = "owner-review"
    BY <1>4, <2>1 DEF Settle, Managing
  <2>4. debts'[d].status = held[t].debts[d].status
    BY <1>4, <2>1, <2>3 DEF Settle, Managed, Ledgers, Debts
  <2>5. NotWaived(d)
    BY <2>2, <2>4 DEF OwedOrNever, StaleDebts
  <2> QED
    BY <1>4, <2>5 DEF Settle, Goto, NotWaived, Typed, TypeOK
<1>5. ASSUME NEW t \in Terminals, WriteRecord(t) PROVE NotWaived(d)'
  <2>1. NotWaived(d)
    BY <1>5 DEF OwedOrNever, WriteRecord
  <2>2. record'[d].status # "waived"
    <3>1. CASE d = held[t].on
      <4>1. held[t].record[d] \in Entries
        BY HoldsFields DEF Typed, TypeOK, Records
      <4>2. /\ held[t].op \in Reviews /\ held[t].op # "waive"
            /\ record'[d].status = statusForAction[held[t].op]
        BY <1>5, <2>1, <3>1, <4>1, RevisedIs, DecidedType DEF WriteRecord, NotWaived
      <4> QED
        BY <4>2, StatusTable DEF Reviews
    <3>2. CASE d # held[t].on
      BY <1>5, <2>1, <3>2, RevisedIs DEF WriteRecord, NotWaived
    <3> QED
      BY <3>1, <3>2
  <2> QED
    BY <1>5, <2>1, <2>2 DEF WriteRecord, Goto, NotWaived, Typed, TypeOK
<1> QED
  BY <1>1, <1>2, <1>3, <1>4, <1>5, Split

(* A waived decision has an open debt, unless a spec-debt command closed   *)
(* it or an older copy of the ledger replaced it, for any decisions and    *)
(* any number of commands at once.                                         *)
THEOREM WaiversAreOwed == Spec => []WaivedIsOwed
<1>1. OwedOrNever => WaivedIsOwed
  BY DEF OwedOrNever, NotWaived, WaivedIsOwed
<1> QED
  BY <1>1, TypedInit, TypedStep, OwedInit, OwedStep, PTL DEF Spec

\* A decision with a debt in the ledger or in a copy of it.
HasDebt(d) == debts[d] # NoDebt \/ \E t \in Terminals : held[t].debts[d] # NoDebt

NamedOrAdrift == \A d \in Decisions : HasDebt(d) /\ d \notin adrift => record[d].waiver_record

\* A command that works on a debt has found it.
Found ==
    \A t \in Terminals : pc[t] = "manage" =>
        held[t].on \in Decisions /\ held[t].debts[held[t].on] # NoDebt

LEMMA FoundStep == Typed /\ Found /\ [Next]_vars => Found'
<1> SUFFICES ASSUME Typed, Found, [Next]_vars, NEW u \in Terminals, pc'[u] = "manage"
             PROVE  held'[u].on \in Decisions /\ held'[u].debts[held'[u].on] # NoDebt
  BY DEF Found
<1> USE DEF Typed, TypeOK, Found, Goto
<1>1. CASE UNCHANGED vars
  BY <1>1 DEF vars
<1>2. ASSUME NEW t \in Terminals, NEW d \in Decisions, NEW op \in Reviews, Review(t, op, d)
      PROVE  held'[u].on \in Decisions /\ held'[u].debts[held'[u].on] # NoDebt
  BY <1>2 DEF Review, FirstStep, Reviews
<1>3. ASSUME NEW t \in Terminals, NEW d \in Decisions, NEW op \in Managing, Manage(t, op, d)
      PROVE  held'[u].on \in Decisions /\ held'[u].debts[held'[u].on] # NoDebt
  BY <1>3 DEF Manage, Command
<1>4. ASSUME NEW t \in Terminals,
             \/ DraftDelta(t) \/ Correct(t) \/ \E f \in Lists : ReadList(t, f) \/ WriteList(t, f)
             \/ ReadLedger(t) \/ Owe(t) \/ Settle(t) \/ TellDebt(t)
             \/ WriteRecord(t) \/ Tell(t) \/ Cut(t)
      PROVE  u # t /\ held'[u] = held[u] /\ pc'[u] = pc[u]
  BY <1>4 DEF DraftDelta, Correct, ReadList, WriteList, AfterList, Writing, ReadLedger, Owe,
              Settle, TellDebt, WriteRecord, Tell, Cut, Return
<1> QED
  BY <1>1, <1>2, <1>3, <1>4 DEF Next

LEMMA NamedStep == Typed /\ Found /\ NamedOrAdrift /\ [Next]_vars => NamedOrAdrift'
<1> SUFFICES ASSUME Typed, Found, NamedOrAdrift, [Next]_vars,
                    NEW d \in Decisions, HasDebt(d)', d \notin adrift'
             PROVE  record'[d].waiver_record
  BY DEF NamedOrAdrift
<1>1. CASE UNCHANGED vars
  BY <1>1 DEF vars, files, past, NamedOrAdrift, HasDebt
<1>2. ASSUME NEW t \in Terminals, Quiet(t) PROVE record'[d].waiver_record
  <2>1. NoDebts[d] = NoDebt
    BY DEF NoDebts
  <2>2. HasDebt(d)
    BY <1>2, <2>1, QuietFiles, QuietCopies DEF HasDebt, Keeps
  <2> QED
    BY <1>2, <2>2, QuietFiles DEF NamedOrAdrift
<1>3. ASSUME NEW t \in Terminals, Owe(t) \/ Settle(t) PROVE record'[d].waiver_record
  <2>1. held[t].on \in Decisions /\ held[t].debts \in Ledgers
    BY <1>3, HoldsFields DEF Owe, Settle, Typed, TypeOK, Doing
  <2>2. CASE Owe(t)
    <3>1. d # held[t].on
      BY <2>2 DEF Owe
    <3>2. debts'[d] = held[t].debts[d]
      BY <2>1, <2>2, <3>1 DEF Owe, Owed, Ledgers
    <3>3. HasDebt(d)
      BY <2>2, <3>2 DEF HasDebt, Owe
    <3> QED
      BY <2>2, <3>3 DEF NamedOrAdrift, Owe
  <2>3. CASE Settle(t)
    <3>1. d # held[t].on => debts'[d] = held[t].debts[d]
      BY <2>1, <2>3 DEF Settle, Ledgers
    <3>2. d = held[t].on => held[t].debts[d] # NoDebt
      BY <2>3 DEF Settle, Found
    <3>3. HasDebt(d)
      BY <2>3, <3>1, <3>2 DEF HasDebt, Settle
    <3> QED
      BY <2>3, <3>3 DEF NamedOrAdrift, Settle
  <2> QED
    BY <1>3, <2>2, <2>3
<1>4. ASSUME NEW t \in Terminals, WriteRecord(t) PROVE record'[d].waiver_record
  <2>1. HasDebt(d)
    BY <1>4 DEF HasDebt, WriteRecord
  <2>2. held[t].record[d] \in Entries
    BY HoldsFields DEF Typed, TypeOK, Records
  <2>3. CASE d = held[t].on /\ held[t].op = "waive"
    <3>1. record'[d] = Decided(held[t].record[d], "waive")
      BY <1>4, <2>3, RevisedIs DEF WriteRecord
    <3> QED
      BY <2>2, <3>1, DecidedType DEF Reviews
  <2>4. CASE ~(d = held[t].on /\ held[t].op = "waive")
    <3>1. d \notin adrift /\ record[d] = held[t].record[d]
      BY <1>4, <2>4 DEF WriteRecord, StaleEntries
    <3>2. record[d].waiver_record
      BY <2>1, <3>1 DEF NamedOrAdrift
    <3>3. CASE d = held[t].on
      <4>1. held[t].op \in Reviews /\ record'[d] = Decided(held[t].record[d], held[t].op)
        BY <1>4, <3>3, RevisedIs DEF WriteRecord
      <4> QED
        BY <2>2, <3>1, <3>2, <4>1, DecidedType
    <3>4. CASE d # held[t].on
      BY <1>4, <3>1, <3>2, <3>4, RevisedIs DEF WriteRecord
    <3> QED
      BY <3>3, <3>4
  <2> QED
    BY <2>3, <2>4
<1> QED
  BY <1>1, <1>2, <1>3, <1>4, Split

(* A decision with a debt has the waiver record that leads to it, whatever *)
(* was decided after the waiver, for any decisions and any commands.       *)
THEOREM DebtsAreNamed == Spec => []DebtIsNamed
<1>1. Init => Found /\ NamedOrAdrift
  BY DEF Init, Found, NamedOrAdrift, HasDebt, NoDebts, Idle, Command
<1>2. NamedOrAdrift => DebtIsNamed
  BY DEF NamedOrAdrift, HasDebt, DebtIsNamed
<1> QED
  BY <1>1, <1>2, TypedInit, TypedStep, FoundStep, NamedStep, PTL DEF Spec

-----------------------------------------------------------------------------
(* Every step: the record is as it was, or one command has written it.     *)

LEMMA AllCopies ==
    ASSUME Typed, [Next]_vars, NEW u \in Terminals
    PROVE  held'[u].record \in {held[u].record, record, NoRecord}
<1>1. CASE UNCHANGED vars
  BY <1>1 DEF vars
<1>2. ASSUME NEW t \in Terminals, Quiet(t)
      PROVE  held'[u].record \in {held[u].record, record, NoRecord}
  BY <1>2, QuietCopies DEF Keeps
<1>3. ASSUME NEW t \in Terminals, Owe(t) \/ Settle(t) \/ WriteRecord(t) PROVE held' = held
  BY <1>3 DEF Owe, Settle, WriteRecord
<1> QED
  BY <1>1, <1>2, <1>3, Split

LEMMA RecordSteps ==
    ASSUME [Next]_vars
    PROVE  \/ UNCHANGED <<record, gate>>
           \/ \E t \in Terminals : WriteRecord(t)
<1>1. CASE UNCHANGED vars
  BY <1>1 DEF vars, files
<1>2. ASSUME NEW t \in Terminals, Owe(t) \/ Settle(t) PROVE UNCHANGED <<record, gate>>
  BY <1>2 DEF Owe, Settle
<1> QED
  BY <1>1, <1>2, Split, QuietFiles

\* What is written about a decision is what the command's copy has of it, or
\* that entry with the command's action.
LEMMA WrittenEntry ==
    ASSUME Typed, NEW t \in Terminals, WriteRecord(t), NEW d \in Decisions
    PROVE  /\ held[t].op \in Reviews /\ held[t].record[d] \in Entries
           /\ d # held[t].on => record'[d] = held[t].record[d]
           /\ d = held[t].on => record'[d] = Decided(held[t].record[d], held[t].op)
  BY RevisedIs, HoldsFields DEF WriteRecord, Typed, TypeOK, Records

-----------------------------------------------------------------------------
(* Rejections.                                                             *)

\* What an entry says of a rejection is on disk.
Backed(d, entry) ==
    entry.status = "rejected" => entry.correction /\ d \in corrections \cap deltas

\* A rejection under way has written what comes before its next step.
BackedCommand(t) ==
    /\ pc[t] = "correct" => held[t].on \in deltas
    /\ pc[t] = "record" /\ held[t].op = "reject" => held[t].on \in corrections \cap deltas

CorrectionsBacked ==
    /\ \A d \in Decisions : Backed(d, record[d])
    /\ \A t \in Terminals, d \in Decisions : Backed(d, held[t].record[d])
    /\ \A t \in Terminals : BackedCommand(t)

\* Neither the deltas nor the corrections lose anything.
LEMMA RejectionFilesGrow ==
    ASSUME [Next]_vars
    PROVE  deltas \subseteq deltas' /\ corrections \subseteq corrections'
  BY DEF Next, Review, Manage, DraftDelta, Correct, ReadList, WriteList, ReadLedger, Owe,
         Settle, TellDebt, WriteRecord, Tell, Cut, vars, files, past

LEMMA BackedInit == Init => CorrectionsBacked
  BY DEF Init, CorrectionsBacked, Backed, NoRecord, Proposed, Idle, Command, BackedCommand

\* The steps of a rejection.
LEMMA RejectionSteps ==
    ASSUME Typed, CorrectionsBacked, [Next]_vars, NEW u \in Terminals
    PROVE  BackedCommand(u)'
<1>1. held \in [Terminals -> Holds] /\ pc \in [Terminals -> Steps]
  BY DEF Typed, TypeOK
<1>2. ASSUME pc'[u] = pc[u], held'[u].on = held[u].on, held'[u].op = held[u].op
      PROVE  BackedCommand(u)'
  BY <1>2, RejectionFilesGrow DEF CorrectionsBacked, BackedCommand
<1>3. CASE UNCHANGED vars
  BY <1>2, <1>3 DEF vars
<1>4. ASSUME NEW t \in Terminals, NEW d \in Decisions, NEW op \in Reviews, Review(t, op, d)
      PROVE  BackedCommand(u)'
  <2>1. CASE u = t
    BY <1>1, <1>4, <2>1 DEF Review, FirstStep, Reviews, Command, Goto, BackedCommand
  <2>2. CASE u # t
    BY <1>1, <1>2, <1>4, <2>2 DEF Review, Goto
  <2> QED
    BY <2>1, <2>2
<1>5. ASSUME NEW t \in Terminals, NEW d \in Decisions, NEW op \in Managing, Manage(t, op, d)
      PROVE  BackedCommand(u)'
  <2>1. CASE u = t
    BY <1>1, <1>5, <2>1 DEF Manage, Goto, BackedCommand
  <2>2. CASE u # t
    BY <1>1, <1>2, <1>5, <2>2 DEF Manage, Goto
  <2> QED
    BY <2>1, <2>2
<1>6. ASSUME NEW t \in Terminals, DraftDelta(t) PROVE BackedCommand(u)'
  <2>1. CASE u = t
    BY <1>1, <1>6, <2>1 DEF DraftDelta, Goto, BackedCommand
  <2>2. CASE u # t
    BY <1>1, <1>2, <1>6, <2>2 DEF DraftDelta, Goto
  <2> QED
    BY <2>1, <2>2
<1>7. ASSUME NEW t \in Terminals, Correct(t) PROVE BackedCommand(u)'
  <2>1. CASE u = t
    BY <1>1, <1>7, <2>1 DEF Correct, Goto, CorrectionsBacked, BackedCommand
  <2>2. CASE u # t
    BY <1>1, <1>2, <1>7, <2>2 DEF Correct, Goto
  <2> QED
    BY <2>1, <2>2
<1>8. ASSUME NEW t \in Terminals, NEW f \in Lists, ReadList(t, f) \/ WriteList(t, f)
      PROVE  BackedCommand(u)'
  <2>1. held'[u].on = held[u].on /\ held'[u].op = held[u].op
    BY <1>1, <1>8 DEF ReadList, WriteList, Holds
  <2>2. held[t].op = "defer"
    BY <1>8 DEF ReadList, WriteList, Typed, Doing, Writing, Lists
  <2>3. CASE u = t
    <3>1. pc'[t] \in {"pack", "record", "write project", "write pack"}
      BY <1>1, <1>8 DEF ReadList, WriteList, Goto, AfterList, Writing, Lists
    <3> QED
      BY <2>1, <2>2, <2>3, <3>1 DEF BackedCommand
  <2>4. CASE u # t
    <3>1. pc'[u] = pc[u]
      BY <1>1, <1>8, <2>4 DEF ReadList, WriteList, Goto
    <3> QED
      BY <1>2, <2>1, <3>1
  <2> QED
    BY <2>3, <2>4
<1>9. ASSUME NEW t \in Terminals, ReadLedger(t) \/ Owe(t) PROVE BackedCommand(u)'
  <2>1. held'[u].on = held[u].on /\ held'[u].op = held[u].op
    BY <1>1, <1>9 DEF ReadLedger, Owe, Holds
  <2>2. held[t].op = "waive" /\ pc'[t] # "correct"
    BY <1>1, <1>9 DEF ReadLedger, Owe, Typed, Doing, Goto
  <2>3. u # t => pc'[u] = pc[u]
    BY <1>1, <1>9 DEF ReadLedger, Owe, Goto
  <2> QED
    BY <1>2, <2>1, <2>2, <2>3 DEF BackedCommand
<1>10. ASSUME NEW t \in Terminals, Settle(t) \/ WriteRecord(t) PROVE BackedCommand(u)'
  <2>1. held'[u].on = held[u].on /\ held'[u].op = held[u].op
    BY <1>10 DEF Settle, WriteRecord
  <2>2. pc'[t] \notin {"correct", "record"} /\ (u # t => pc'[u] = pc[u])
    BY <1>1, <1>10 DEF Settle, WriteRecord, Goto
  <2> QED
    BY <1>2, <2>1, <2>2 DEF BackedCommand
<1>11. ASSUME NEW t \in Terminals, TellDebt(t) \/ Tell(t) \/ Cut(t) PROVE BackedCommand(u)'
  <2>1. pc'[t] = "idle" /\ (u # t => pc'[u] = pc[u] /\ held'[u] = held[u])
    BY <1>1, <1>11 DEF TellDebt, Tell, Cut, Return, Goto
  <2> QED
    BY <1>2, <2>1 DEF BackedCommand
<1> QED
  BY <1>3, <1>4, <1>5, <1>6, <1>7, <1>8, <1>9, <1>10, <1>11 DEF Next

LEMMA BackedStep == Typed /\ CorrectionsBacked /\ [Next]_vars => CorrectionsBacked'
<1> SUFFICES ASSUME Typed, CorrectionsBacked, [Next]_vars PROVE CorrectionsBacked'
  OBVIOUS
<1> DEFINE BackedNow(d, entry) ==
      entry.status = "rejected" => entry.correction /\ d \in corrections' \cap deltas'
<1>1. \A d \in Decisions : BackedNow(d, record[d]) /\ BackedNow(d, NoRecord[d])
  BY RejectionFilesGrow DEF CorrectionsBacked, Backed, NoRecord, Proposed
<1>2. \A u \in Terminals, d \in Decisions : BackedNow(d, held[u].record[d])
  BY RejectionFilesGrow DEF CorrectionsBacked, Backed
<1>3. \A u \in Terminals, d \in Decisions : BackedNow(d, held'[u].record[d])
  BY <1>1, <1>2, AllCopies
<1>4. ASSUME NEW d \in Decisions PROVE BackedNow(d, record'[d])
  <2>1. ASSUME NEW t \in Terminals, WriteRecord(t) PROVE BackedNow(d, record'[d])
    <3>1. CASE d # held[t].on
      BY <1>2, <2>1, <3>1, WrittenEntry
    <3>2. CASE d = held[t].on /\ held[t].op = "reject"
      <4>1. record'[d] = Decided(held[t].record[d], "reject") /\ held[t].record[d] \in Entries
        BY <2>1, <3>2, WrittenEntry
      <4>2. d \in corrections \cap deltas
        BY <2>1, <3>2 DEF CorrectionsBacked, WriteRecord, BackedCommand
      <4> QED
        BY <4>1, <4>2, DecidedType, RejectionFilesGrow DEF Reviews
    <3>3. CASE d = held[t].on /\ held[t].op # "reject"
      <4>1. /\ record'[d] = Decided(held[t].record[d], held[t].op)
            /\ held[t].record[d] \in Entries /\ held[t].op \in Reviews
        BY <2>1, <3>3, WrittenEntry
      <4>2. record'[d].status = statusForAction[held[t].op]
        BY <4>1, DecidedType
      <4> QED
        BY <3>3, <4>1, <4>2, StatusTable DEF Reviews
    <3> QED
      BY <3>1, <3>2, <3>3
  <2> QED
    BY <1>1, <2>1, RecordSteps
<1>5. /\ \A d \in Decisions : Backed(d, record[d])'
      /\ \A u \in Terminals, d \in Decisions : Backed(d, held[u].record[d])'
  BY <1>3, <1>4, Zenon DEF Backed
<1>6. \A u \in Terminals : BackedCommand(u)'
  BY RejectionSteps
<1> QED
  BY <1>5, <1>6, Zenon DEF CorrectionsBacked

(* A rejected decision has a correction file and the delta it names, for   *)
(* any commands that are cut or overlap.                                   *)
THEOREM RejectionsAreCorrected == Spec => []RejectedIsCorrected
<1>1. CorrectionsBacked => RejectedIsCorrected
  BY DEF CorrectionsBacked, Backed, RejectedIsCorrected
<1> QED
  BY <1>1, TypedInit, TypedStep, BackedInit, BackedStep, PTL DEF Spec

-----------------------------------------------------------------------------
(* The last word on a decision, and the gate.                              *)

LEMMA LastWordStep == Typed /\ LastWordStands /\ [Next]_vars => LastWordStands'
<1> SUFFICES ASSUME Typed, LastWordStands, [Next]_vars, NEW d \in Decisions, d \notin loose'
             PROVE  record'[d].status = IF toldLast'[d] = "none" THEN "proposed"
                                        ELSE statusForAction[toldLast'[d]]
  BY DEF LastWordStands
<1>1. ASSUME UNCHANGED <<record, loose, toldLast>>
      PROVE  record'[d].status = IF toldLast'[d] = "none" THEN "proposed"
                                 ELSE statusForAction[toldLast'[d]]
  BY <1>1 DEF LastWordStands
<1>2. ASSUME NEW t \in Terminals, WriteRecord(t)
      PROVE  record'[d].status = IF toldLast'[d] = "none" THEN "proposed"
                                 ELSE statusForAction[toldLast'[d]]
  <2>1. d # held[t].on /\ d \notin loose /\ record[d] = held[t].record[d] /\ toldLast' = toldLast
    BY <1>2 DEF WriteRecord, StaleEntries
  <2>2. record'[d] = record[d]
    BY <1>2, <2>1, WrittenEntry
  <2> QED
    BY <2>1, <2>2 DEF LastWordStands
<1>3. ASSUME NEW t \in Terminals, Tell(t)
      PROVE  record'[d].status = IF toldLast'[d] = "none" THEN "proposed"
                                 ELSE statusForAction[toldLast'[d]]
  <2>1. /\ pc[t] = "tell" /\ record' = record
        /\ toldLast' = [toldLast EXCEPT ![held[t].on] = held[t].op]
    BY <1>3 DEF Tell, files
  <2>2. toldLast \in [Decisions -> Reviews \cup {"none"}]
    BY DEF Typed, TypeOK
  <2>3. CASE d = held[t].on
    <3>1. record[d] = Revised(t)[d]
      BY <1>3, <2>3 DEF Tell
    <3>2. held[t].op \in Reviews /\ held[t].record[d] \in Entries
      BY <2>1, RevisedIs, HoldsFields DEF Typed, TypeOK, Records
    <3>3. Revised(t)[d] = Decided(held[t].record[d], held[t].op)
      BY <2>1, <2>3, RevisedIs
    <3>4. record[d].status = statusForAction[held[t].op]
      BY <3>1, <3>2, <3>3, DecidedType
    <3>5. toldLast'[d] = held[t].op /\ held[t].op # "none"
      BY <2>1, <2>2, <2>3, <3>2 DEF Reviews
    <3> QED
      BY <2>1, <3>4, <3>5
  <2>4. CASE d # held[t].on
    <3>1. d \notin loose
      BY <1>3, <2>4 DEF Tell
    <3>2. toldLast'[d] = toldLast[d]
      BY <2>1, <2>2, <2>4
    <3> QED
      BY <2>1, <3>1, <3>2 DEF LastWordStands
  <2> QED
    BY <2>3, <2>4
<1>4. \/ UNCHANGED <<record, loose, toldLast>>
      \/ \E t \in Terminals : WriteRecord(t) \/ Tell(t)
  <2>1. ASSUME NEW t \in Terminals,
               DraftDelta(t) \/ Correct(t) \/ ReadLedger(t) \/ Owe(t) \/ Settle(t)
                 \/ TellDebt(t) \/ Cut(t)
        PROVE  UNCHANGED <<record, loose, toldLast>>
    BY <2>1 DEF DraftDelta, Correct, ReadLedger, Owe, Settle, TellDebt, Cut, files, past
  <2>2. ASSUME NEW t \in Terminals, NEW e \in Decisions, NEW op, Review(t, op, e) \/ Manage(t, op, e)
        PROVE  UNCHANGED <<record, loose, toldLast>>
    BY <2>2 DEF Review, Manage, files, past
  <2>3. ASSUME NEW t \in Terminals, NEW f \in Lists, ReadList(t, f) \/ WriteList(t, f)
        PROVE  UNCHANGED <<record, loose, toldLast>>
    BY <2>3 DEF ReadList, WriteList, files, past
  <2>4. CASE UNCHANGED vars
    BY <2>4 DEF vars, files, past
  <2> QED
    BY <2>1, <2>2, <2>3, <2>4 DEF Next
<1> QED
  BY <1>1, <1>2, <1>3, <1>4

LEMMA LastWordInit == Init => LastWordStands
<1> SUFFICES ASSUME Init, NEW d \in Decisions
             PROVE  record[d].status = "proposed" /\ toldLast[d] = "none"
  BY DEF LastWordStands
<1> QED
  BY DEF Init, NoRecord, Proposed

(* A decision's status is that of its last audit event, outside the        *)
(* exceptions that loose names, for any commands and any decisions.        *)
THEOREM LastWordsStand == Spec => []LastWordStands
  BY TypedInit, TypedStep, LastWordInit, LastWordStep, PTL DEF Spec

\* An entry without a history is as it was generated.
Dated(entry) == entry.history = <<>> => entry.status = "proposed"

GateHonest ==
    /\ gate = "review_ready" => ~Blocked(record)
    /\ \A d \in Decisions : Dated(record[d])
    /\ \A t \in Terminals, d \in Decisions : Dated(held[t].record[d])

LEMMA GateInit == Init => GateHonest
  BY DEF Init, GateHonest, Dated, NoRecord, Proposed, Idle, Command

LEMMA GateStep == Typed /\ GateHonest /\ [Next]_vars => GateHonest'
<1> SUFFICES ASSUME Typed, GateHonest, [Next]_vars PROVE GateHonest'
  OBVIOUS
<1>1. \A u \in Terminals, d \in Decisions : Dated(held'[u].record[d])
  <2>1. \A d \in Decisions : Dated(NoRecord[d])
    BY DEF Dated, NoRecord, Proposed
  <2> QED
    BY <2>1, AllCopies DEF GateHonest
<1>2. \A d \in Decisions : Dated(record'[d])
  <2>1. ASSUME NEW t \in Terminals, WriteRecord(t), NEW d \in Decisions PROVE Dated(record'[d])
    <3>1. CASE d # held[t].on
      BY <2>1, <3>1, WrittenEntry DEF GateHonest
    <3>2. CASE d = held[t].on
      <4>1. record'[d].history # <<>>
        BY <2>1, <3>2, WrittenEntry, DecidedType
      <4> QED
        BY <4>1 DEF Dated
    <3> QED
      BY <3>1, <3>2
  <2> QED
    BY <2>1, RecordSteps DEF GateHonest
<1>3. gate' = "review_ready" => ~Blocked(record')
  <2>1. ASSUME NEW t \in Terminals, WriteRecord(t), gate' = "review_ready"
        PROVE  ~Blocked(record')
    BY <2>1 DEF WriteRecord
  <2> QED
    BY <2>1, RecordSteps DEF GateHonest
<1> QED
  BY <1>1, <1>2, <1>3 DEF GateHonest, Dated, Blocked

(* The gate is ready only if every serious decision was decided on and no  *)
(* decision's last audit event is a rejection, for any set of decisions.   *)
THEOREM ReadyGateWasSaid == Spec => []ReadyWasSaid
<1>1. Typed /\ LastWordStands /\ GateHonest => ReadyWasSaid
  <2> SUFFICES ASSUME Typed, LastWordStands, GateHonest, gate = "review_ready"
               PROVE  /\ \A d \in Serious : record[d].history # <<>>
                      /\ \A d \in Decisions \ loose : toldLast[d] # "reject"
    BY DEF ReadyWasSaid
  <2>1. ASSUME NEW d \in Serious PROVE record[d].history # <<>>
    BY ReviewAssumption DEF GateHonest, Dated, Blocked
  <2>2. ASSUME NEW d \in Decisions \ loose, toldLast[d] = "reject" PROVE FALSE
    <3>1. record[d].status = "rejected"
      BY <2>2, StatusTable DEF LastWordStands
    <3> QED
      BY <3>1 DEF GateHonest, Blocked
  <2> QED
    BY <2>1, <2>2
<1> QED
  BY <1>1, TypedInit, TypedStep, LastWordInit, LastWordStep, GateInit, GateStep, PTL DEF Spec

-----------------------------------------------------------------------------
(* Deferrals.                                                              *)

\* A decision that an entry calls deferred is on both lists, ...
OnLists(d) == \A f \in Lists : Named(lists[f], d)

\* ... and a deferral under way has put it on those it is past.
PastLists(t, d) ==
    held[t].on = d =>
        /\ pc[t] \in {"pack", "write pack"} => Named(lists["project"], d)
        /\ pc[t] = "record" /\ held[t].op = "defer" => OnLists(d)

DeferralsListed ==
    \A d \in Decisions : ~Named(dropped, d) =>
        /\ record[d].status = "deferred" => OnLists(d)
        /\ \A t \in Terminals :
            /\ held[t].record[d].status = "deferred" => OnLists(d)
            /\ PastLists(t, d)

\* A name leaves a list only by being dropped.
LEMMA NamesStay ==
    ASSUME Typed, [Next]_vars, NEW d \in Decisions, ~Named(dropped', d)
    PROVE  /\ ~Named(dropped, d)
           /\ \A f \in Lists : Named(lists[f], d) => Named(lists'[f], d)
<1>1. ASSUME NEW t \in Terminals, NEW f \in Lists, WriteList(t, f)
      PROVE  /\ ~Named(dropped, d)
             /\ \A g \in Lists : Named(lists[g], d) => Named(lists'[g], d)
  <2>1. dropped \subseteq dropped' /\ lists[f] \ lists'[f] \subseteq dropped'
    BY <1>1 DEF WriteList
  <2>2. \A g \in Lists : g # f => lists'[g] = lists[g]
    BY <1>1 DEF WriteList, Typed, TypeOK
  <2> QED
    BY <2>1, <2>2 DEF Named
<1>2. \/ UNCHANGED <<lists, dropped>>
      \/ \E t \in Terminals, f \in Lists : WriteList(t, f)
  <2>1. ASSUME NEW t \in Terminals,
               DraftDelta(t) \/ Correct(t) \/ ReadLedger(t) \/ Owe(t) \/ Settle(t)
                 \/ TellDebt(t) \/ WriteRecord(t) \/ Tell(t) \/ Cut(t)
        PROVE  UNCHANGED <<lists, dropped>>
    BY <2>1 DEF DraftDelta, Correct, ReadLedger, Owe, Settle, TellDebt, WriteRecord, Tell, Cut,
                files, past
  <2>2. ASSUME NEW t \in Terminals, NEW e \in Decisions, NEW op, Review(t, op, e) \/ Manage(t, op, e)
        PROVE  UNCHANGED <<lists, dropped>>
    BY <2>2 DEF Review, Manage, files, past
  <2>3. ASSUME NEW t \in Terminals, NEW f \in Lists, ReadList(t, f)
        PROVE  UNCHANGED <<lists, dropped>>
    BY <2>3 DEF ReadList, files, past
  <2>4. CASE UNCHANGED vars
    BY <2>4 DEF vars, files, past
  <2> QED
    BY <2>1, <2>2, <2>3, <2>4 DEF Next
<1> QED
  BY <1>1, <1>2

LEMMA ListSteps ==
    ASSUME Typed, DeferralsListed, [Next]_vars, NEW u \in Terminals,
           NEW d \in Decisions, ~Named(dropped', d)
    PROVE  PastLists(u, d)'
<1>1. held \in [Terminals -> Holds] /\ pc \in [Terminals -> Steps]
  BY DEF Typed, TypeOK
<1>2. PastLists(u, d) /\ (OnLists(d) => OnLists(d)')
        /\ (Named(lists["project"], d) => Named(lists'["project"], d))
  BY NamesStay DEF DeferralsListed, OnLists, Lists
<1>3. ASSUME pc'[u] = pc[u], held'[u].on = held[u].on, held'[u].op = held[u].op
      PROVE  PastLists(u, d)'
  BY <1>2, <1>3 DEF PastLists
<1>4. ASSUME pc'[u] \notin {"pack", "write pack"}, pc'[u] = "record" => held'[u].op # "defer"
      PROVE  PastLists(u, d)'
  BY <1>4 DEF PastLists
<1>5. CASE UNCHANGED vars
  BY <1>3, <1>5 DEF vars
<1>6. ASSUME NEW t \in Terminals, NEW e \in Decisions,
             \/ \E op \in Reviews : Review(t, op, e)
             \/ \E op \in Managing : Manage(t, op, e)
      PROVE  PastLists(u, d)'
  <2>1. CASE u = t
    <3>1. \A op \in Reviews : FirstStep(op) \notin {"pack", "write pack"}
                              /\ (FirstStep(op) = "record" => op # "defer")
      BY DEF FirstStep, Reviews
    <3>2. ASSUME NEW op \in Reviews, Review(t, op, e)
          PROVE  pc'[t] = FirstStep(op) /\ held'[t].op = op
      BY <1>1, <3>2 DEF Review, Goto, Command
    <3>3. ASSUME NEW op \in Managing, Manage(t, op, e) PROVE pc'[t] = "manage"
      BY <1>1, <3>3 DEF Manage, Goto
    <3> QED
      BY <1>4, <1>6, <2>1, <3>1, <3>2, <3>3
  <2>2. CASE u # t
    BY <1>1, <1>3, <1>6, <2>2 DEF Review, Manage, Goto
  <2> QED
    BY <2>1, <2>2
<1>7. ASSUME NEW t \in Terminals, NEW f \in Lists, ReadList(t, f) PROVE PastLists(u, d)'
  <2>1. held'[u].on = held[u].on /\ held'[u].op = held[u].op /\ lists' = lists
    BY <1>1, <1>7 DEF ReadList, Holds, files
  <2>2. CASE u = t /\ held[t].on = d
    <3>1. CASE f = "project"
      BY <1>1, <1>7, <2>1, <2>2, <3>1 DEF ReadList, Goto, AfterList, Writing, PastLists
    <3>2. CASE f = "pack"
      <4>1. Named(lists["project"], d)
        BY <1>2, <1>7, <2>2, <3>2 DEF ReadList, PastLists
      <4>2. pc'[t] = "record" => Named(lists["pack"], d)
        BY <1>1, <1>7, <2>2, <3>2 DEF ReadList, Goto, AfterList, Writing
      <4> QED
        BY <2>1, <2>2, <4>1, <4>2 DEF PastLists, OnLists, Lists
    <3> QED
      BY <3>1, <3>2 DEF Lists
  <2>3. CASE u = t /\ held[t].on # d
    BY <2>1, <2>3 DEF PastLists
  <2>4. CASE u # t
    BY <1>1, <1>3, <1>7, <2>1, <2>4 DEF ReadList, Goto
  <2> QED
    BY <2>2, <2>3, <2>4
<1>8. ASSUME NEW t \in Terminals, NEW f \in Lists, WriteList(t, f) PROVE PastLists(u, d)'
  <2>1. held' = held
    BY <1>8 DEF WriteList
  <2>2. CASE u = t /\ held[t].on = d
    <3>1. pc[t] = Writing(f) /\ pc'[t] = AfterList(f)
      BY <1>1, <1>8 DEF WriteList, Goto
    <3>2. Named(lists'[f], d)
      BY <1>8, <2>2, ReviewAssumption DEF WriteList, Named, Typed, TypeOK
    <3>3. CASE f = "project"
      BY <2>1, <2>2, <3>1, <3>2, <3>3 DEF AfterList, PastLists
    <3>4. CASE f = "pack"
      <4>1. Named(lists'["project"], d)
        BY <1>2, <2>2, <3>1, <3>4 DEF Writing, PastLists
      <4> QED
        BY <2>1, <3>1, <3>2, <3>4, <4>1 DEF AfterList, PastLists, OnLists, Lists
    <3> QED
      BY <3>3, <3>4 DEF Lists
  <2>3. CASE u = t /\ held[t].on # d
    BY <2>1, <2>3 DEF PastLists
  <2>4. CASE u # t
    BY <1>1, <1>3, <1>8, <2>1, <2>4 DEF WriteList, Goto
  <2> QED
    BY <2>2, <2>3, <2>4
<1>9. ASSUME NEW t \in Terminals,
             DraftDelta(t) \/ Correct(t) \/ ReadLedger(t) \/ Owe(t) \/ Settle(t) \/ WriteRecord(t)
      PROVE  PastLists(u, d)'
  <2>1. held'[u].on = held[u].on /\ held'[u].op = held[u].op
    <3>1. CASE ReadLedger(t)
      BY <1>1, <3>1 DEF ReadLedger, Holds
    <3>2. CASE ~ReadLedger(t)
      BY <1>9, <3>2 DEF DraftDelta, Correct, Owe, Settle, WriteRecord
    <3> QED
      BY <3>1, <3>2
  <2>2. /\ pc'[t] \notin {"pack", "write pack"}
        /\ pc'[t] = "record" => held[t].op # "defer"
        /\ u # t => pc'[u] = pc[u]
    BY <1>1, <1>9 DEF DraftDelta, Correct, ReadLedger, Owe, Settle, WriteRecord, Goto, Typed, Doing
  <2> QED
    BY <1>3, <1>4, <2>1, <2>2
<1>10. ASSUME NEW t \in Terminals, TellDebt(t) \/ Tell(t) \/ Cut(t) PROVE PastLists(u, d)'
  <2>1. pc'[t] = "idle" /\ (u # t => pc'[u] = pc[u] /\ held'[u] = held[u])
    BY <1>1, <1>10 DEF TellDebt, Tell, Cut, Return, Goto
  <2> QED
    BY <1>3, <1>4, <2>1
<1> QED
  BY <1>5, <1>6, <1>7, <1>8, <1>9, <1>10 DEF Next

LEMMA DeferralsInit == Init => DeferralsListed
  BY DEF Init, DeferralsListed, PastLists, NoRecord, Proposed, Idle, Command

LEMMA DeferralsStep == Typed /\ DeferralsListed /\ [Next]_vars => DeferralsListed'
<1> SUFFICES ASSUME Typed, DeferralsListed, [Next]_vars, NEW d \in Decisions,
                    ~Named(dropped', d)
             PROVE  /\ record'[d].status = "deferred" => OnLists(d)'
                    /\ \A t \in Terminals :
                        /\ held'[t].record[d].status = "deferred" => OnLists(d)'
                        /\ PastLists(t, d)'
  BY DEF DeferralsListed
<1>1. ~Named(dropped, d) /\ (OnLists(d) => OnLists(d)')
  BY NamesStay DEF OnLists
<1>2. record[d].status = "deferred" => OnLists(d)
  BY <1>1 DEF DeferralsListed
<1>3. ASSUME NEW t \in Terminals, held'[t].record[d].status = "deferred" PROVE OnLists(d)'
  <2>1. NoRecord[d].status # "deferred"
    BY DEF NoRecord, Proposed
  <2>2. \/ held[t].record[d].status = "deferred"
        \/ record[d].status = "deferred"
    BY <1>3, <2>1, AllCopies
  <2> QED
    BY <1>1, <2>2 DEF DeferralsListed
<1>4. ASSUME record'[d].status = "deferred" PROVE OnLists(d)'
  <2>1. ASSUME NEW t \in Terminals, WriteRecord(t) PROVE OnLists(d)
    <3>1. CASE d # held[t].on
      <4>1. held[t].record[d].status = "deferred"
        BY <1>4, <2>1, <3>1, WrittenEntry
      <4> QED
        BY <1>1, <4>1 DEF DeferralsListed
    <3>2. CASE d = held[t].on
      <4>1. /\ held[t].op \in Reviews /\ held[t].record[d] \in Entries
            /\ record'[d] = Decided(held[t].record[d], held[t].op)
        BY <2>1, <3>2, WrittenEntry
      <4>2. statusForAction[held[t].op] = "deferred"
        BY <1>4, <4>1, DecidedType
      <4>3. held[t].op = "defer"
        BY <4>1, <4>2, StatusTable DEF Reviews
      <4> QED
        BY <1>1, <2>1, <3>2, <4>3 DEF DeferralsListed, PastLists, WriteRecord
    <3> QED
      BY <3>1, <3>2
  <2> QED
    BY <1>1, <1>2, <1>4, <2>1, RecordSteps
<1> QED
  BY <1>3, <1>4, ListSteps

(* A deferred decision is named on both lists of open decisions, unless an *)
(* older copy of a list took its name off, for any decisions and commands. *)
THEOREM DeferralsAreListed == Spec => []DeferredIsListed
<1>1. DeferralsListed => DeferredIsListed
  BY DEF DeferralsListed, OnLists, DeferredIsListed
<1> QED
  BY <1>1, TypedInit, TypedStep, DeferralsInit, DeferralsStep, PTL DEF Spec
=============================================================================
