------------------------ MODULE VerifyGovernanceProofs ------------------------
(***************************************************************************)
(* What a verdict rests on, for every set of issues, waivers, terminals    *)
(* and worlds; and that the commands keep to the protocol of the ledger.   *)
(***************************************************************************)
EXTENDS VerifyGovernance, TLAPS

-----------------------------------------------------------------------------
(* The ledger alone, whoever uses it.  The damage two racing commands or a *)
(* torn line can do to it is bounded, for any number of terminals.         *)

\* A command that is about to append has seen a sound prefix of the ledger, and
\* its terminal has written nothing that is damaged or follows damage.
ReadersAreClean ==
    \A p \in Terminals : reading[p] # None =>
        \A i \in 1..Len(ledger) : Broken(ledger, i) => ledger[i].by # p

LedgerInv == LTypeOK /\ OneLinePerTerminal /\ ReadersAreClean

\* Appending a line leaves what was said of the lines before it.
LEMMA AppendKeeps ==
    ASSUME NEW S, NEW l \in Seq(S), NEW e \in S
    PROVE  /\ Append(l, e) \in Seq(S)
           /\ Len(Append(l, e)) = Len(l) + 1
           /\ \A i \in 1..Len(l) : Append(l, e)[i] = l[i]
           /\ Append(l, e)[Len(l) + 1] = e
           /\ \A i \in 1..Len(l) : Broken(Append(l, e), i) <=> Broken(l, i)
<1>1. /\ Append(l, e) \in Seq(S)
      /\ Len(Append(l, e)) = Len(l) + 1
      /\ \A i \in 1..Len(l) : Append(l, e)[i] = l[i]
      /\ Append(l, e)[Len(l) + 1] = e
  OBVIOUS
<1>2. ASSUME NEW i \in 1..Len(l)
      PROVE  Broken(Append(l, e), i) <=> Broken(l, i)
  BY <1>1 DEF Broken, Follows
<1> QED
  BY <1>1, <1>2

\* A line of p, torn or whole, keeps the invariant: p had written nothing that
\* is damaged, and forgets what it has read.
LEMMA LineKeeps ==
    ASSUME LedgerInv, NEW p \in Terminals, reading[p] # None,
           NEW e \in Lines, e.by = p,
           ledger' = Extended(ledger, e),
           reading' = [reading EXCEPT ![p] = None]
    PROVE  LedgerInv'
<1> USE DEF LedgerInv, LTypeOK
<1>1. CASE ledger' = ledger
  BY <1>1 DEF OneLinePerTerminal, ReadersAreClean, Broken, Follows
<1>2. CASE ledger' = Append(ledger, e)
  <2>1. LTypeOK'
    BY <1>2, AppendKeeps
  <2>2. /\ Len(ledger') = Len(ledger) + 1
        /\ \A i \in 1..Len(ledger) : /\ ledger'[i] = ledger[i]
                                     /\ Broken(ledger', i) <=> Broken(ledger, i)
        /\ ledger'[Len(ledger) + 1] = e
        /\ Len(ledger) \in Nat
    BY <1>2, AppendKeeps
  <2>3. OneLinePerTerminal'
    <3> SUFFICES ASSUME NEW i \in 1..Len(ledger'), NEW j \in 1..Len(ledger'),
                        i < j, Broken(ledger', i)
                 PROVE  ledger'[i].by # ledger'[j].by
      BY DEF OneLinePerTerminal
    <3>1. i \in 1..Len(ledger) /\ Broken(ledger, i)
      BY <2>2
    <3>2. CASE j \in 1..Len(ledger)
      BY <2>2, <3>1, <3>2 DEF OneLinePerTerminal
    <3>3. CASE j = Len(ledger) + 1
      BY <2>2, <3>1, <3>3 DEF ReadersAreClean
    <3> QED
      BY <2>2, <3>2, <3>3
  <2>4. ReadersAreClean'
    <3> SUFFICES ASSUME NEW q \in Terminals, reading'[q] # None,
                        NEW i \in 1..Len(ledger'), Broken(ledger', i)
                 PROVE  ledger'[i].by # q
      BY DEF ReadersAreClean
    <3>1. q # p /\ reading[q] # None
      OBVIOUS
    <3>2. CASE i \in 1..Len(ledger)
      BY <2>2, <3>1, <3>2 DEF ReadersAreClean
    <3>3. CASE i = Len(ledger) + 1
      BY <2>2, <3>1, <3>3
    <3> QED
      BY <2>2, <3>2, <3>3
  <2> QED
    BY <2>1, <2>3, <2>4
<1> QED
  BY <1>1, <1>2 DEF Extended

LEMMA LedgerInvInit == LInit => LedgerInv
  BY DEF LInit, LedgerInv, LTypeOK, OneLinePerTerminal, ReadersAreClean

LEMMA LedgerInvStep == LedgerInv /\ [LNext]_lvars => LedgerInv'
<1> SUFFICES ASSUME LedgerInv, [LNext]_lvars PROVE LedgerInv'
  OBVIOUS
<1>1. ASSUME NEW p \in Terminals, Inspect(p) PROVE LedgerInv'
  <2>1. LTypeOK'
    BY <1>1 DEF Inspect, LedgerInv, LTypeOK
  <2>2. \A i \in 1..Len(ledger) : ~Broken(ledger, i)
    BY <1>1 DEF Inspect, Valid, Broken, Follows, LedgerInv, LTypeOK
  <2> QED
    BY <1>1, <2>1, <2>2 DEF Inspect, LedgerInv, OneLinePerTerminal, ReadersAreClean, Broken, Follows
<1>2. ASSUME NEW p \in Terminals, NEW about \in Subjects, AppendEvent(p, about)
      PROVE  LedgerInv'
  <2>1. Event(p, reading[p], about) \in Lines
    BY DEF Event, Lines, LedgerInv, LTypeOK
  <2>2. Event(p, reading[p], about).by = p
    BY DEF Event
  <2> QED
    BY <1>2, <2>1, <2>2, LineKeeps DEF AppendEvent
<1>3. ASSUME NEW p \in Terminals, GiveUp(p) PROVE LedgerInv'
  BY <1>3 DEF GiveUp, LedgerInv, LTypeOK, OneLinePerTerminal, ReadersAreClean, Broken, Follows
<1>4. ASSUME NEW p \in Terminals, Tear(p) PROVE LedgerInv'
  <2>1. TornLine(p) \in Lines /\ TornLine(p).by = p
    BY DEF TornLine, Event, Lines
  <2> QED
    BY <1>4, <2>1, LineKeeps DEF Tear
<1>5. CASE UNCHANGED lvars
  BY <1>5 DEF lvars, LedgerInv, LTypeOK, OneLinePerTerminal, ReadersAreClean, Broken, Follows
<1> QED
  BY <1>1, <1>2, <1>3, <1>4, <1>5 DEF LNext

(* However many terminals race and however many writes are cut short, no   *)
(* terminal adds to the ledger after a damaged line of its own or any line *)
(* after the damage: the damage is at most one line of each terminal.      *)
THEOREM DamageIsBounded == LSpec => []OneLinePerTerminal
<1>1. LedgerInv => OneLinePerTerminal
  BY DEF LedgerInv
<1> QED
  BY <1>1, LedgerInvInit, LedgerInvStep, PTL DEF LSpec

-----------------------------------------------------------------------------
(* The commands.                                                           *)

\* A process has the command it is at a step of, and the text it will change.
Equipped ==
    \A p \in Terminals :
        /\ pc[p] \in {"read", "write", "inspect", "append"}
               => cmd[p] \in Commands /\ cmd[p].op # "verify"
        /\ pc[p] = "read" => cmd[p].op # "create"
        /\ pc[p] \in {"write", "inspect", "append"} /\ cmd[p].op \in {"revoke", "renew"}
               => held[p] \in Text
        /\ pc[p] \in InVerify => cmd[p] \in Commands /\ cmd[p].op = "verify"

\* What no longer blocks has been accepted since verify began.
Explained ==
    \A p \in Terminals : pc[p] \in InVerify \ {"collect"} =>
        collected[p] \subseteq blocking[p] \cup covered[p]

\* The policy's issue is there when the rule matches.
Flagged ==
    \A p \in Terminals : pc[p] = "verdict" =>
        flagged[p] <=> RuleMatches(p)

Typed == TypeOK /\ Equipped

LEMMA NewTextType ==
    ASSUME NEW c \in Commands, c.op \in {"create", "revoke", "renew"},
           NEW old, c.op # "create" => old \in Text
    PROVE  NewText(c, old) \in Text
<1>1. CASE c.op = "create"
  BY <1>1 DEF NewText, Text, Commands
<1>2. CASE c.op = "revoke"
  BY <1>2 DEF NewText, Text
<1>3. CASE c.op = "renew"
  BY <1>3 DEF NewText, Text, Commands
<1> QED
  BY <1>1, <1>2, <1>3

LEMMA ToldIsSubject ==
    ASSUME Typed, NEW p \in Terminals, pc[p] \in {"write", "inspect", "append"}
    PROVE  /\ cmd[p].op = "approve" => NewApproval(p) \in Approval
           /\ cmd[p].op # "approve" => NewText(cmd[p], held[p]) \in Text
           /\ cmd[p].on \in Waivers
           /\ Told(p) \in Subjects
<1>1. cmd[p] \in Commands /\ cmd[p].op # "verify"
  BY DEF Typed, Equipped
<1>2. cmd[p].on \in Waivers
  BY <1>1 DEF Commands
<1>3. CASE cmd[p].op = "approve"
  <2>1. held[p] \in Text \cup {None} /\ cmd[p].role \in {"owner", "reviewer"}
          /\ cmd[p].until \in Days
    BY <1>1, <1>3 DEF Typed, TypeOK, Commands
  <2>2. NewApproval(p) \in Approval
    BY <1>2, <2>1 DEF NewApproval, Approval
  <2> QED
    BY <1>2, <1>3, <2>2, SubjectsAssumption DEF Told
<1>4. CASE cmd[p].op # "approve"
  <2>1. cmd[p].op \in {"create", "revoke", "renew"}
    BY <1>1, <1>4 DEF Commands
  <2>2. NewText(cmd[p], held[p]) \in Text
    BY <1>1, <2>1, NewTextType DEF Typed, Equipped
  <2> QED
    BY <1>2, <1>4, <2>2, SubjectsAssumption DEF Told, Change
<1> QED
  BY <1>3, <1>4

LEMMA TypedInit == Init => Typed
  BY GovernanceAssumption, LedgerAssumption
     DEF Init, Typed, TypeOK, Equipped, LInit, LTypeOK, Steps, InVerify, Days

\* What a terminal does to its own variables.
LEMMA ExitTypes ==
    ASSUME Typed, NEW p \in Terminals, Exit(p)
    PROVE  /\ pc' \in [Terminals -> Steps]
           /\ cmd' \in [Terminals -> Commands \cup {NoCommand}]
           /\ held' \in [Terminals -> Text \cup {None}]
           /\ collected' \in [Terminals -> SUBSET Issues]
           /\ blocking' \in [Terminals -> SUBSET Issues]
           /\ used' \in [Terminals -> SUBSET Waivers]
           /\ flagged' \in [Terminals -> BOOLEAN]
           /\ Equipped'
  BY DEF Exit, Goto, Typed, TypeOK, Equipped, Steps, InVerify

\* What has been accepted is a set of issues.
LEMMA CoveredType ==
    ASSUME Typed, Next
    PROVE  covered' \in [Terminals -> SUBSET Issues]
<1>1. baseline' \in (SUBSET Issues) \cup {None}
  BY DEF Typed, TypeOK, Next, Step, files, Begin, Govern, Read, Write, CheckLedger, Record,
         RecordFails, Verify, Collect, WriteBaseline, Waive, Ratchet, ApplyPolicy,
         Conclude, Crash, Tick, Edit
<1>2. ASSUME NEW p \in Terminals PROVE Accepted(p)' \subseteq Issues
  <2>1. Waived' \subseteq Issues
    BY GovernanceAssumption DEF Waived
  <2>2. Baselined' \subseteq Issues
    BY <1>1 DEF Baselined
  <2> QED
    BY <2>1, <2>2 DEF Accepted
<1> QED
  BY <1>2 DEF Next, Typed, TypeOK

LEMMA TypedStep == Typed /\ [Next]_vars => Typed'
<1> SUFFICES ASSUME Typed, [Next]_vars PROVE Typed'
  OBVIOUS
<1>1. CASE UNCHANGED vars
  BY <1>1 DEF vars, files, run, past, Typed, TypeOK, LTypeOK, Equipped
<1>2. CASE Next
  <2>1. covered' \in [Terminals -> SUBSET Issues] /\ UNCHANGED <<world, policy>>
    BY <1>2, CoveredType DEF Next
  <2>2. ASSUME NEW p \in Terminals, NEW c \in Commands, Begin(p, c) PROVE Typed'
    <3>1. FirstStep(c.op) \in Steps
      BY DEF FirstStep, Steps
    <3>2. /\ FirstStep(c.op) = "read" => c.op \in {"revoke", "renew", "approve"}
          /\ FirstStep(c.op) = "write" => c.op = "create"
          /\ FirstStep(c.op) \notin {"inspect", "append"}
          /\ FirstStep(c.op) \in InVerify => c.op = "verify"
      BY DEF FirstStep, Commands, InVerify
    <3>3. TypeOK'
      BY <2>1, <2>2, <3>1 DEF Begin, Goto, Typed, TypeOK, LTypeOK, files, run, past
    <3>4. Equipped'
      BY <2>2, <3>2 DEF Begin, Goto, Typed, TypeOK, Equipped, Commands, Steps, InVerify
    <3> QED
      BY <3>3, <3>4 DEF Typed
  <2>3. ASSUME NEW p \in Terminals, Read(p) PROVE Typed'
    <3>1. cmd[p] \in Commands /\ cmd[p].op \in {"revoke", "renew", "approve"}
             /\ cmd[p].on \in Waivers
      BY <2>3 DEF Read, Typed, Equipped, Commands
    <3>2. CASE cmd[p].op = "approve" \/ MayChange(cmd[p].on)
      <4>1. cmd[p].op \in {"revoke", "renew"} => waiver[cmd[p].on] \in Text
        BY <3>1, <3>2 DEF MayChange, Typed, TypeOK
      <4>2. TypeOK'
        BY <2>1, <2>3, <3>1, <3>2 DEF Read, Goto, Typed, TypeOK, LTypeOK, files, run, past, Steps
      <4>3. Equipped'
        BY <2>3, <3>1, <3>2, <4>1 DEF Read, Goto, Typed, TypeOK, Equipped, Steps, InVerify
      <4> QED
        BY <4>2, <4>3 DEF Typed
    <3>3. CASE Exit(p)
      BY <2>1, <2>3, <3>3, ExitTypes DEF Read, Typed, TypeOK, LTypeOK, files, past
    <3> QED
      BY <2>3, <3>2, <3>3 DEF Read
  <2>4. ASSUME NEW p \in Terminals, Write(p) PROVE Typed'
    <3>1. /\ cmd[p].op = "approve" => NewApproval(p) \in Approval
          /\ cmd[p].op # "approve" => NewText(cmd[p], held[p]) \in Text
          /\ cmd[p].on \in Waivers
      BY <2>4, ToldIsSubject DEF Write
    <3>2. TypeOK'
      BY <2>1, <2>4, <3>1 DEF Write, Goto, Typed, TypeOK, LTypeOK, run, past, Steps
    <3>3. Equipped'
      BY <2>4 DEF Write, Goto, Typed, TypeOK, Equipped, run, Steps, InVerify
    <3> QED
      BY <3>2, <3>3 DEF Typed
  <2>5. ASSUME NEW p \in Terminals, CheckLedger(p) PROVE Typed'
    <3>1. cmd[p].on \in Waivers
      BY <2>5, ToldIsSubject DEF CheckLedger, Typed, Equipped, Commands
    <3>2. CASE Valid(ledger)
      <4>1. LTypeOK'
        BY <2>5, <3>2 DEF CheckLedger, Inspect, Typed, TypeOK, LTypeOK
      <4>2. TypeOK'
        BY <2>1, <2>5, <3>2, <4>1 DEF CheckLedger, Goto, Typed, TypeOK, files, run, past, Steps
      <4>3. Equipped'
        BY <2>5, <3>2 DEF CheckLedger, Goto, Typed, TypeOK, Equipped, Steps, InVerify
      <4> QED
        BY <4>2, <4>3 DEF Typed
    <3>3. CASE ~Valid(ledger)
      BY <2>1, <2>5, <3>1, <3>3, ExitTypes DEF CheckLedger, EndUnlogged, Typed, TypeOK, LTypeOK,
                                               files
    <3> QED
      BY <3>2, <3>3
  <2>6. ASSUME NEW p \in Terminals, Record(p) PROVE Typed'
    <3>1. Told(p) \in Subjects /\ cmd[p].on \in Waivers
      BY <2>6, ToldIsSubject DEF Record
    <3>2. LTypeOK'
      <4>1. Event(p, reading[p], Told(p)) \in Lines
        BY <3>1 DEF Event, Lines, Typed, TypeOK, LTypeOK
      <4> QED
        BY <2>6, <4>1, AppendKeeps DEF Record, AppendEvent, Extended, Typed, TypeOK, LTypeOK
    <3> QED
      BY <2>1, <2>6, <3>1, <3>2, ExitTypes DEF Record, Typed, TypeOK, files
  <2>7. ASSUME NEW p \in Terminals, RecordFails(p) PROVE Typed'
    <3>1. cmd[p].on \in Waivers
      BY <2>7, ToldIsSubject DEF RecordFails
    <3> QED
      BY <2>1, <2>7, <3>1, ExitTypes DEF RecordFails, GiveUp, EndUnlogged, Typed, TypeOK,
                                         LTypeOK, files
  <2>8. ASSUME NEW p \in Terminals, Collect(p) PROVE Typed'
    <3>1. TypeOK'
      BY <2>1, <2>8 DEF Collect, Goto, Typed, TypeOK, LTypeOK, files, past, Steps
    <3>2. Equipped'
      BY <2>8 DEF Collect, Goto, Typed, TypeOK, Equipped, Steps, InVerify
    <3> QED
      BY <3>1, <3>2 DEF Typed
  <2>9. ASSUME NEW p \in Terminals, WriteBaseline(p) PROVE Typed'
    <3>1. TypeOK'
      BY <2>1, <2>9 DEF WriteBaseline, Goto, Typed, TypeOK, LTypeOK, run, past, Steps
    <3>2. Equipped'
      BY <2>9 DEF WriteBaseline, Goto, Typed, TypeOK, Equipped, run, Steps, InVerify
    <3> QED
      BY <3>1, <3>2 DEF Typed
  <2>10. ASSUME NEW p \in Terminals, Waive(p) PROVE Typed'
    <3>1. /\ blocking' \in [Terminals -> SUBSET Issues]
          /\ used' \in [Terminals -> SUBSET Waivers]
      BY <2>10 DEF Waive, Typed, TypeOK
    <3>2. TypeOK'
      BY <2>1, <2>10, <3>1 DEF Waive, Goto, Typed, TypeOK, LTypeOK, files, past, Steps
    <3>3. Equipped'
      BY <2>10 DEF Waive, Goto, Typed, TypeOK, Equipped, Steps, InVerify
    <3> QED
      BY <3>2, <3>3 DEF Typed
  <2>11. ASSUME NEW p \in Terminals, Ratchet(p) PROVE Typed'
    <3>1. TypeOK'
      BY <2>1, <2>11 DEF Ratchet, Goto, Typed, TypeOK, LTypeOK, files, past, Steps
    <3>2. Equipped'
      BY <2>11 DEF Ratchet, Goto, Typed, TypeOK, Equipped, Steps, InVerify
    <3> QED
      BY <3>1, <3>2 DEF Typed
  <2>12. ASSUME NEW p \in Terminals, ApplyPolicy(p) PROVE Typed'
    <3>0. flagged' \in [Terminals -> BOOLEAN]
      BY <2>12 DEF ApplyPolicy, RuleMatches, Typed, TypeOK
    <3>1. TypeOK'
      <4>1. pc' \in [Terminals -> Steps]
        BY <2>12 DEF ApplyPolicy, Goto, Typed, TypeOK, Steps
      <4>2. UNCHANGED <<files, past>>
        BY <2>12 DEF ApplyPolicy
      <4> QED
        BY <2>1, <2>12, <3>0, <4>1, <4>2
           DEF ApplyPolicy, Typed, TypeOK, LTypeOK, files, past
    <3>2. Equipped'
      BY <2>12 DEF ApplyPolicy, Goto, Typed, TypeOK, Equipped, Steps, InVerify
    <3> QED
      BY <3>1, <3>2 DEF Typed
  <2>13. ASSUME NEW p \in Terminals, Conclude(p) PROVE Typed'
    BY <2>1, <2>13, ExitTypes DEF Conclude, Typed, TypeOK, LTypeOK, files, past
  <2>14. ASSUME NEW p \in Terminals, Crash(p) PROVE Typed'
    <3>1. pc[p] \in {"inspect", "append"} => cmd[p].on \in Waivers
      BY ToldIsSubject
    <3>2. LTypeOK'
      <4>1. TornLine(p) \in Lines
        BY DEF TornLine, Event, Lines
      <4>2. CASE GiveUp(p)
        BY <4>2 DEF GiveUp, Typed, TypeOK, LTypeOK
      <4>3. CASE Tear(p)
        BY <4>1, <4>3, AppendKeeps DEF Tear, Extended, Typed, TypeOK, LTypeOK
      <4> QED
        BY <2>14, <4>2, <4>3 DEF Crash
    <3>3. unlogged' \subseteq Waivers
      BY <2>14, <3>1 DEF Crash, EndUnlogged, Typed, TypeOK
    <3> QED
      BY <2>1, <2>14, <3>2, <3>3, ExitTypes DEF Crash, Typed, TypeOK, files
  <2>15. CASE Tick
    BY <2>1, <2>15, GovernanceAssumption
       DEF Tick, Typed, TypeOK, LTypeOK, Equipped, files, run, past, Days
  <2>16. CASE Edit
    BY <2>1, <2>16 DEF Edit, Typed, TypeOK, LTypeOK, Equipped, run, past
  <2> QED
    BY <1>2, <2>2, <2>3, <2>4, <2>5, <2>6, <2>7, <2>8, <2>9, <2>10, <2>11, <2>12, <2>13,
       <2>14, <2>15, <2>16 DEF Next, Step, Govern, Verify
<1> QED
  BY <1>1, <1>2

(* Every reachable state of the governance commands is typed: a revoked    *)
(* waiver is never the missing one, and only days that exist are written.  *)
THEOREM TypeCorrect == Spec => []TypeOK
<1>1. Typed => TypeOK
  BY DEF Typed
<1> QED
  BY <1>1, TypedInit, TypedStep, PTL DEF Spec

(* Every command appends by the protocol of the ledger: it inspects, then  *)
(* appends one line, whatever else the commands do in between.             *)
THEOREM KeepsTheLedger == Spec => LSpec
<1>1. Init => LInit
  BY DEF Init
<1>2. Typed /\ [Next]_vars => [LNext]_lvars
  <2> SUFFICES ASSUME Typed, [Next]_vars PROVE [LNext]_lvars
    OBVIOUS
  <2>1. ASSUME NEW p \in Terminals, CheckLedger(p) PROVE [LNext]_lvars
    BY <2>1 DEF CheckLedger, LNext, lvars
  <2>2. ASSUME NEW p \in Terminals, Record(p) PROVE [LNext]_lvars
    <3>1. Told(p) \in Subjects
      BY <2>2, ToldIsSubject DEF Record
    <3> QED
      BY <2>2, <3>1 DEF Record, LNext
  <2>3. ASSUME NEW p \in Terminals, RecordFails(p) PROVE [LNext]_lvars
    BY <2>3 DEF RecordFails, LNext
  <2>4. ASSUME NEW p \in Terminals, Crash(p) PROVE [LNext]_lvars
    BY <2>4 DEF Crash, LNext
  <2>5. ASSUME NEW p \in Terminals, Read(p) \/ Write(p) \/ Verify(p) PROVE [LNext]_lvars
    BY <2>5 DEF Read, Write, Verify, Collect, WriteBaseline, Waive, Ratchet, ApplyPolicy,
                Conclude, lvars
  <2>6. ASSUME NEW p \in Terminals, NEW c \in Commands, Begin(p, c) PROVE [LNext]_lvars
    BY <2>6 DEF Begin, lvars
  <2>7. CASE Tick \/ Edit \/ UNCHANGED vars
    BY <2>7 DEF Tick, Edit, vars, lvars
  <2> QED
    BY <2>1, <2>2, <2>3, <2>4, <2>5, <2>6, <2>7 DEF Next, Step, Govern
<1> QED
  BY <1>1, <1>2, TypedInit, TypedStep, PTL DEF Spec, LSpec

(* With any number of terminals that give governance commands, crash and   *)
(* race, the damage to the ledger is at most one line of each.             *)
THEOREM LedgerDamageIsBounded == Spec => []OneLinePerTerminal
  BY KeepsTheLedger, DamageIsBounded

\* A step of verify only ever takes from what blocks what is accepted then.
LEMMA ExplainedStep == Typed /\ Explained /\ [Next]_vars => Explained'
<1> SUFFICES ASSUME Typed, Explained, [Next]_vars, NEW p \in Terminals,
                    pc'[p] \in InVerify \ {"collect"}
             PROVE  collected'[p] \subseteq blocking'[p] \cup covered'[p]
  BY DEF Explained
<1>1. CASE UNCHANGED vars
  BY <1>1 DEF vars, run, Explained
<1>2. CASE Next
  <2>1. /\ Accepted(p)' \subseteq covered'[p]
        /\ pc[p] \in InVerify => covered[p] \subseteq covered'[p]
    BY <1>2 DEF Next
  <2> DEFINE Same == /\ pc[p] = pc'[p]
                     /\ collected'[p] = collected[p]
                     /\ blocking'[p] = blocking[p]
  <2>2. CASE Same
    BY <2>1, <2>2 DEF Explained
  <2>3. ASSUME NEW q \in Terminals, q # p, Govern(q) \/ Verify(q) \/ Crash(q) PROVE Same
    BY <2>3 DEF Govern, Read, Write, CheckLedger, Record, RecordFails, Verify, Collect,
                WriteBaseline, Waive, Ratchet, ApplyPolicy, Conclude, Crash, Exit, Goto, run,
                Typed, TypeOK
  <2>4. ASSUME NEW q \in Terminals, NEW c \in Commands, Begin(q, c) PROVE Same
    BY <2>4 DEF Begin, FirstStep, Goto, run, Typed, TypeOK, InVerify
  <2>5. ASSUME Tick \/ Edit PROVE Same
    BY <2>5 DEF Tick, Edit, run
  <2>6. ASSUME Govern(p) \/ Conclude(p) \/ Crash(p) PROVE FALSE
    <3>1. pc'[p] \in {"idle", "write", "inspect", "append"}
      BY <2>6 DEF Govern, Read, Write, CheckLedger, Record, RecordFails, Conclude, Crash, Exit,
                  Goto, Typed, TypeOK
    <3> QED
      BY <3>1 DEF InVerify
  <2>7. CASE Collect(p)
    BY <2>7 DEF Collect, Typed, TypeOK
  <2>8. CASE WriteBaseline(p) \/ ApplyPolicy(p)
    BY <2>1, <2>8 DEF WriteBaseline, ApplyPolicy, run, Explained, InVerify
  <2>9. CASE Waive(p)
    <3>1. collected'[p] = collected[p] /\ pc[p] \in InVerify \ {"collect"}
      BY <2>9 DEF Waive, InVerify
    <3>2. blocking[p] \subseteq blocking'[p] \cup Accepted(p)'
      <4>1. CASE "no_waivers" \in Options(p)
        BY <2>9, <4>1 DEF Waive
      <4>2. CASE "no_waivers" \notin Options(p)
        <5>1. Waived' = Waived /\ Options(p)' = Options(p)
          BY <2>9 DEF Waive, Waived, Active, Options, files
        <5>2. Waived \subseteq Accepted(p)'
          BY <4>2, <5>1 DEF Accepted
        <5>3. blocking'[p] = blocking[p] \ Waived
          BY <2>9, <4>2 DEF Waive, Typed, TypeOK
        <5> QED
          BY <5>2, <5>3
      <4> QED
        BY <4>1, <4>2
    <3> QED
      BY <2>1, <3>1, <3>2 DEF Explained, InVerify
  <2>10. CASE Ratchet(p)
    <3>1. collected'[p] = collected[p] /\ pc[p] \in InVerify \ {"collect"}
      BY <2>10 DEF Ratchet, InVerify
    <3>2. blocking[p] \subseteq blocking'[p] \cup Accepted(p)'
      <4>1. Baselined' = Baselined /\ Options(p)' = Options(p)
        BY <2>10 DEF Ratchet, Baselined, Options, files
      <4>2. "use_baseline" \in Options(p) => Baselined \subseteq Accepted(p)'
        BY <4>1 DEF Accepted
      <4>3. blocking'[p] = IF "use_baseline" \in Options(p) THEN blocking[p] \ Baselined
                                                            ELSE blocking[p]
        BY <2>10 DEF Ratchet, Typed, TypeOK
      <4> QED
        BY <4>2, <4>3
    <3> QED
      BY <2>1, <3>1, <3>2 DEF Explained, InVerify
  <2>11. CASE Step
    BY <2>11, <2>2, <2>3, <2>4, <2>5, <2>6, <2>7, <2>8, <2>9, <2>10 DEF Step, Verify
  <2> QED
    BY <1>2, <2>11 DEF Next
<1> QED
  BY <1>1, <1>2

(* A verdict that passes without observe mode rests on each blocking issue *)
(* having been accepted during the run, for any waivers, options and       *)
(* terminals, whatever the other commands did to the files meanwhile.      *)
THEOREM PassesRestOnAcceptance == Spec => []PassIsAccepted
<1>1. Init => Explained
  BY DEF Init, Explained, InVerify
<1>2. Typed /\ Explained => PassIsAccepted
  BY DEF PassIsAccepted, Fails, Blocks, Explained, InVerify, Typed, TypeOK
<1> QED
  BY <1>1, <1>2, TypedInit, TypedStep, ExplainedStep, PTL DEF Spec

LEMMA FlaggedStep == Typed /\ Flagged /\ [Next]_vars => Flagged'
<1> SUFFICES ASSUME Typed, Flagged, [Next]_vars, NEW p \in Terminals, pc'[p] = "verdict"
             PROVE  flagged'[p] <=> RuleMatches(p)'
  BY DEF Flagged
<1>1. CASE UNCHANGED vars
  BY <1>1 DEF vars, run, Flagged, RuleMatches
<1>2. CASE Next
  <2> DEFINE Same == /\ pc[p] = pc'[p]
                     /\ collected'[p] = collected[p]
                     /\ blocking'[p] = blocking[p]
                     /\ flagged'[p] = flagged[p]
  <2>1. policy' = policy
    BY <1>2 DEF Next
  <2>2. CASE Same
    BY <2>1, <2>2 DEF Flagged, RuleMatches
  <2>3. ASSUME NEW q \in Terminals, q # p, Govern(q) \/ Verify(q) \/ Crash(q) PROVE Same
    BY <2>3 DEF Govern, Read, Write, CheckLedger, Record, RecordFails, Verify, Collect,
                WriteBaseline, Waive, Ratchet, ApplyPolicy, Conclude, Crash, Exit, Goto, run,
                Typed, TypeOK
  <2>4. ASSUME NEW q \in Terminals, NEW c \in Commands, Begin(q, c) PROVE Same
    BY <2>4 DEF Begin, FirstStep, Goto, run, Typed, TypeOK
  <2>5. ASSUME Tick \/ Edit PROVE Same
    BY <2>5 DEF Tick, Edit, run
  <2>6. ASSUME \/ Govern(p) \/ Conclude(p) \/ Crash(p)
               \/ Collect(p) \/ WriteBaseline(p) \/ Waive(p) \/ Ratchet(p)
        PROVE  FALSE
    BY <2>6 DEF Govern, Read, Write, CheckLedger, Record, RecordFails, Conclude, Crash, Exit,
                Collect, WriteBaseline, Waive, Ratchet, Goto, Typed, TypeOK
  <2>7. CASE ApplyPolicy(p)
    <3>1. /\ flagged'[p] = RuleMatches(p)
          /\ collected'[p] = collected[p] /\ blocking'[p] = blocking[p]
      BY <2>7 DEF ApplyPolicy, Typed, TypeOK
    <3> QED
      BY <2>1, <3>1 DEF RuleMatches
  <2>8. CASE Step
    BY <2>8, <2>2, <2>3, <2>4, <2>5, <2>6, <2>7 DEF Step, Verify
  <2> QED
    BY <1>2, <2>8 DEF Next
<1> QED
  BY <1>1, <1>2

-----------------------------------------------------------------------------
(* One terminal: commands follow each other. *)

Single == "two" \notin world
Solo == \A p, q \in Terminals : pc[p] # "idle" /\ pc[q] # "idle" => p = q

\* A step of one process leaves the others as they were.
LEMMA OnlyOneActs ==
    ASSUME Typed, NEW p \in Terminals, Govern(p) \/ Verify(p) \/ Crash(p)
    PROVE  /\ pc[p] # "idle"
           /\ \A q \in Terminals : q # p =>
                  /\ pc'[q] = pc[q] /\ cmd'[q] = cmd[q] /\ held'[q] = held[q]
                  /\ used'[q] = used[q] /\ reading'[q] = reading[q]
<1>1. CASE Read(p) \/ Write(p)
  BY <1>1 DEF Read, Write, Exit, Goto, run, Typed, TypeOK
<1>2. CASE CheckLedger(p) \/ Record(p) \/ RecordFails(p)
  BY <1>2 DEF CheckLedger, Record, RecordFails, Inspect, AppendEvent, GiveUp, Exit, Goto, run,
              Typed, TypeOK, LTypeOK
<1>3. CASE Verify(p)
  BY <1>3 DEF Verify, Collect, WriteBaseline, Waive, Ratchet, ApplyPolicy, Conclude, Exit, Goto,
              run, Typed, TypeOK
<1>4. CASE Crash(p)
  BY <1>4 DEF Crash, GiveUp, Tear, Exit, Goto, Typed, TypeOK, LTypeOK
<1> QED
  BY <1>1, <1>2, <1>3, <1>4 DEF Govern

LEMMA SoloStep == Typed /\ Single /\ Solo /\ [Next]_vars => Solo'
<1> SUFFICES ASSUME Typed, Single, Solo, [Next]_vars PROVE Solo'
  OBVIOUS
<1>1. CASE UNCHANGED vars \/ Tick \/ Edit
  BY <1>1 DEF vars, Tick, Edit, Solo
<1>2. ASSUME NEW p \in Terminals, NEW c \in Commands, Begin(p, c) PROVE Solo'
  BY <1>2 DEF Begin, Single, Goto, Solo, Typed, TypeOK
<1>3. ASSUME NEW p \in Terminals, Govern(p) \/ Verify(p) \/ Crash(p) PROVE Solo'
  BY <1>3, OnlyOneActs DEF Solo
<1> QED
  BY <1>1, <1>2, <1>3 DEF Next, Step

\* After waivers and baseline are applied, nothing blocks that they still accept.
Cleared ==
    \A p \in Terminals :
        /\ pc[p] \in InVerify \ {"collect"} => blocking[p] \subseteq collected[p]
        /\ pc[p] \in {"ratchet", "policy", "verdict"} /\ "no_waivers" \notin Options(p)
               => blocking[p] \cap Waived = {}
        /\ pc[p] \in {"policy", "verdict"} /\ "use_baseline" \in Options(p)
               => blocking[p] \cap Baselined = {}

LEMMA ClearedStep == Typed /\ Single /\ Solo /\ Cleared /\ [Next]_vars => Cleared'
<1> SUFFICES ASSUME Typed, Single, Solo, Cleared, [Next]_vars,
                    NEW p \in Terminals, pc'[p] \in InVerify \ {"collect"}
             PROVE  /\ blocking'[p] \subseteq collected'[p]
                    /\ (pc'[p] \in {"ratchet", "policy", "verdict"}
                            /\ "no_waivers" \notin Options(p)')
                           => blocking'[p] \cap Waived' = {}
                    /\ pc'[p] \in {"policy", "verdict"} /\ "use_baseline" \in Options(p)'
                           => blocking'[p] \cap Baselined' = {}
  BY DEF Cleared, InVerify
<1>1. ASSUME UNCHANGED <<waiver, baseline, pc, cmd, blocking, collected>>, Waived' \subseteq Waived
      PROVE  /\ blocking'[p] \subseteq collected'[p]
             /\ pc'[p] \in {"ratchet", "policy", "verdict"} /\ "no_waivers" \notin Options(p)'
                    => blocking'[p] \cap Waived' = {}
             /\ pc'[p] \in {"policy", "verdict"} /\ "use_baseline" \in Options(p)'
                    => blocking'[p] \cap Baselined' = {}
  BY <1>1 DEF Cleared, Options, Baselined
<1>2. CASE UNCHANGED vars \/ Edit
  <2>1. UNCHANGED <<waiver, baseline, pc, cmd, blocking, collected, now>>
    BY <1>2 DEF vars, files, run, Edit
  <2>2. Waived' = Waived
    BY <2>1 DEF Waived, Active
  <2> QED
    BY <1>1, <2>1, <2>2
<1>3. CASE Tick
  <2>1. UNCHANGED <<waiver, baseline, pc, cmd, blocking, collected>> /\ now' = now + 1
    BY <1>3 DEF Tick, files, run
  <2>2. ASSUME NEW w \in Waivers, Active(w)' PROVE Active(w)
    <3>1. waiver[w] \in Text
      BY <2>1, <2>2 DEF Active, Typed, TypeOK
    <3>2. waiver[w].until \in Nat /\ now \in Nat
      BY <3>1, GovernanceAssumption DEF Text, Days, Typed, TypeOK
    <3> QED
      BY <2>1, <2>2, <3>2 DEF Active
  <2>3. Waived' \subseteq Waived
    BY <2>2 DEF Waived
  <2> QED
    BY <1>1, <2>1, <2>3
<1>4. ASSUME NEW q \in Terminals, NEW c \in Commands, Begin(q, c) PROVE FALSE
  <2>1. pc[p] = "idle"
    BY <1>4 DEF Begin, Single
  <2>2. pc'[p] \in {"idle", "collect", "read", "write"}
    BY <1>4, <2>1 DEF Begin, FirstStep, Goto, Typed, TypeOK
  <2> QED
    BY <2>2 DEF InVerify
<1>5. ASSUME NEW q \in Terminals, q # p, Govern(q) \/ Verify(q) \/ Crash(q) PROVE FALSE
  BY <1>5, OnlyOneActs DEF Solo, InVerify
<1>6. ASSUME Govern(p) \/ Conclude(p) \/ Crash(p) PROVE FALSE
  <2>1. pc'[p] \in {"idle", "write", "inspect", "append"}
    BY <1>6 DEF Govern, Read, Write, CheckLedger, Record, RecordFails, Conclude, Crash, Exit,
                Goto, Typed, TypeOK
  <2> QED
    BY <2>1 DEF InVerify
<1>7. CASE Collect(p)
  BY <1>7 DEF Collect, Goto, Typed, TypeOK
<1>8. CASE WriteBaseline(p)
  BY <1>8 DEF WriteBaseline, Goto, run, Cleared, InVerify, Typed, TypeOK
<1>9. CASE Waive(p)
  <2>1. /\ pc'[p] = "ratchet" /\ collected'[p] = collected[p]
        /\ blocking[p] \subseteq collected[p]
    BY <1>9 DEF Waive, Goto, Cleared, InVerify, Typed, TypeOK
  <2>2. Waived' = Waived /\ Options(p)' = Options(p)
    BY <1>9 DEF Waive, Waived, Active, Options, files
  <2>3. blocking'[p] = IF "no_waivers" \in Options(p) THEN blocking[p] ELSE blocking[p] \ Waived
    BY <1>9 DEF Waive, Typed, TypeOK
  <2> QED
    BY <2>1, <2>2, <2>3
<1>10. CASE Ratchet(p)
  <2>1. /\ pc[p] = "ratchet" /\ pc'[p] = "policy" /\ collected'[p] = collected[p]
        /\ blocking[p] \subseteq collected[p]
    BY <1>10 DEF Ratchet, Goto, Cleared, InVerify, Typed, TypeOK
  <2>2. Waived' = Waived /\ Baselined' = Baselined /\ Options(p)' = Options(p)
    BY <1>10 DEF Ratchet, Waived, Baselined, Active, Options, files
  <2>3. blocking'[p] = IF "use_baseline" \in Options(p) THEN blocking[p] \ Baselined
                                                        ELSE blocking[p]
    BY <1>10 DEF Ratchet, Typed, TypeOK
  <2> QED
    BY <2>1, <2>2, <2>3 DEF Cleared
<1>11. CASE ApplyPolicy(p)
  <2>1. pc[p] = "policy" /\ UNCHANGED <<collected, blocking>>
    BY <1>11 DEF ApplyPolicy
  <2>2. Waived' = Waived /\ Baselined' = Baselined /\ Options(p)' = Options(p)
    BY <1>11 DEF ApplyPolicy, Waived, Baselined, Active, Options, files
  <2> QED
    BY <2>1, <2>2 DEF Cleared, InVerify
<1> QED
  BY <1>2, <1>3, <1>4, <1>5, <1>6, <1>7, <1>8, <1>9, <1>10, <1>11 DEF Next, Step, Verify

(* Whatever waivers, baselines, options and terminals there are: a rule on *)
(* the number of issues is silenced by none of them, and, with one         *)
(* terminal, a rule on blocking issues fails no run all of whose issues    *)
(* are accepted at its verdict.                                            *)
THEOREM PolicyIsExact == Spec => []PolicyActsOnItsFact
<1>1. Init => Flagged /\ (Single => Solo /\ Cleared)
  BY DEF Init, Flagged, Solo, Cleared, InVerify
<1>2. Typed /\ (Single => Solo /\ Cleared) /\ [Next]_vars => (Single => Solo /\ Cleared)'
  <2>1. [Next]_vars => world' = world
    BY DEF Next, vars
  <2> QED
    BY <2>1, SoloStep, ClearedStep DEF Single
<1>3. Typed /\ Flagged /\ (Single => Solo /\ Cleared) => PolicyActsOnItsFact
  <2> SUFFICES ASSUME Typed, Flagged, Single => Solo /\ Cleared,
                      NEW p \in Terminals, pc[p] = "verdict"
               PROVE  /\ policy = "issues" /\ collected[p] # {}
                              => Fails(p) \/ "observe" \in Options(p)
                      /\ "two" \notin world /\ policy # "issues"
                             /\ collected[p] \subseteq Accepted(p) => ~Fails(p)
    BY DEF PolicyActsOnItsFact
  <2>1. flagged[p] <=> RuleMatches(p)
    BY DEF Flagged
  <2>2. ASSUME policy = "issues", collected[p] # {} PROVE Fails(p) \/ "observe" \in Options(p)
    BY <2>1, <2>2 DEF RuleMatches, Fails, Blocks
  <2>3. ASSUME "two" \notin world, policy # "issues", collected[p] \subseteq Accepted(p)
        PROVE  ~Fails(p)
    <3>1. /\ blocking[p] \subseteq Accepted(p)
          /\ "no_waivers" \notin Options(p) => blocking[p] \cap Waived = {}
          /\ "use_baseline" \in Options(p) => blocking[p] \cap Baselined = {}
      BY <2>3 DEF Single, Cleared, InVerify
    <3>2. blocking[p] = {}
      BY <3>1 DEF Accepted
    <3> QED
      BY <2>1, <2>3, <3>2 DEF RuleMatches, Fails, Blocks
  <2> QED
    BY <2>2, <2>3
<1> QED
  BY <1>1, <1>2, <1>3, TypedInit, TypedStep, FlaggedStep, PTL DEF Spec

\* What revocations need: the files of retired waivers say so, no command is
\* about to rewrite one, and a command that has written finds what it wrote.
Revocations ==
    /\ \A w \in retired : waiver[w] \in Text /\ waiver[w].status = "revoked"
    /\ \A p \in Terminals :
           /\ pc[p] \notin InVerify => used[p] = {}
           /\ used[p] \cap retired = {}
           /\ pc[p] = "write" /\ cmd[p].op # "approve" => cmd[p].on \notin retired
           /\ pc[p] \in {"inspect", "append"} /\ cmd[p].op # "approve" =>
                  waiver[cmd[p].on] = NewText(cmd[p], held[p])

\* A command that does not append leaves what is retired alone.
LEMMA OthersIdle ==
    ASSUME Typed, Solo, NEW p \in Terminals, Govern(p) \/ Verify(p) \/ Crash(p),
           NEW q \in Terminals, q # p
    PROVE  /\ pc[q] = "idle" /\ pc'[q] = "idle"
           /\ used'[q] = used[q]
  BY OnlyOneActs DEF Solo

\* Revocations holds after p's step if it holds of p and of the files.
LEMMA RevocationsOfOne ==
    ASSUME Typed, Solo, Revocations, NEW p \in Terminals, Govern(p) \/ Verify(p) \/ Crash(p),
           \A w \in retired' : waiver'[w] \in Text /\ waiver'[w].status = "revoked",
           pc'[p] \notin InVerify => used'[p] = {},
           used'[p] \cap retired' = {},
           pc'[p] = "write" /\ cmd'[p].op # "approve" => cmd'[p].on \notin retired',
           pc'[p] \in {"inspect", "append"} /\ cmd'[p].op # "approve" =>
               waiver'[cmd'[p].on] = NewText(cmd'[p], held'[p])
    PROVE  Revocations'
<1>1. ASSUME NEW q \in Terminals, q # p
      PROVE  pc[q] = "idle" /\ pc'[q] = "idle" /\ used'[q] = {}
  BY <1>1, OthersIdle DEF Revocations, InVerify
<1>2. \A q \in Terminals : q = p \/ (pc'[q] = "idle" /\ used'[q] = {})
  BY <1>1
<1> QED
  BY <1>2 DEF Revocations

LEMMA ReadKeepsRevocations ==
    ASSUME Typed, Solo, Revocations, NEW p \in Terminals, Read(p)
    PROVE  Revocations'
<1>1. retired' = retired /\ waiver' = waiver /\ used[p] = {}
  BY DEF Read, past, files, Revocations, InVerify
<1>2. CASE cmd[p].op = "approve" \/ MayChange(cmd[p].on)
  <2>1. pc'[p] = "write" /\ cmd' = cmd /\ used' = used
    BY <1>2 DEF Read, run, Goto, Typed, TypeOK
  <2>2. cmd[p].op # "approve" => cmd[p].on \notin retired
    BY <1>2 DEF MayChange, Revocations
  <2> QED
    BY <1>1, <2>1, <2>2, RevocationsOfOne DEF Govern, Revocations, InVerify
<1>3. CASE ~(cmd[p].op = "approve" \/ MayChange(cmd[p].on))
  <2>1. pc'[p] = "idle" /\ used'[p] = {}
    BY <1>3 DEF Read, Exit, Goto, Typed, TypeOK
  <2> QED
    BY <1>1, <2>1, RevocationsOfOne DEF Govern, Revocations
<1> QED
  BY <1>2, <1>3

LEMMA WriteKeepsRevocations ==
    ASSUME Typed, Solo, Revocations, NEW p \in Terminals, Write(p)
    PROVE  Revocations'
<1>1. retired' = retired /\ used' = used /\ cmd' = cmd /\ held' = held
  BY DEF Write, past, run
<1>2. pc'[p] = "inspect" /\ used[p] = {}
  BY DEF Write, Goto, Typed, TypeOK, Revocations, InVerify
<1>3. CASE cmd[p].op = "approve"
  BY <1>1, <1>2, <1>3, RevocationsOfOne DEF Govern, Write, Revocations
<1>4. CASE cmd[p].op # "approve"
  <2>1. cmd[p].on \in Waivers /\ cmd[p].on \notin retired
    BY <1>4, ToldIsSubject DEF Write, Revocations
  <2>2. waiver' = [waiver EXCEPT ![cmd[p].on] = NewText(cmd[p], held[p])]
    BY <1>4 DEF Write
  <2>3. waiver'[cmd[p].on] = NewText(cmd[p], held[p])
    BY <2>1, <2>2 DEF Typed, TypeOK
  <2>4. \A w \in retired' : waiver'[w] = waiver[w]
    BY <1>1, <2>1, <2>2 DEF Typed, TypeOK
  <2>5. \A w \in retired' : waiver'[w] \in Text /\ waiver'[w].status = "revoked"
    BY <1>1, <2>4 DEF Revocations
  <2> QED
    BY <1>1, <1>2, <2>3, <2>5, RevocationsOfOne DEF Govern
<1> QED
  BY <1>3, <1>4

LEMMA RecordKeepsRevocations ==
    ASSUME Typed, Solo, Revocations, NEW p \in Terminals, Record(p)
    PROVE  Revocations'
<1>1. waiver' = waiver /\ pc[p] = "append"
  BY DEF Record, files
<1>2. pc'[p] = "idle" /\ used'[p] = {}
  BY DEF Record, Exit, Goto, Typed, TypeOK
<1>3. \A w \in retired' : waiver[w] \in Text /\ waiver[w].status = "revoked"
  <2>1. CASE cmd[p].op = "revoke"
    <3>1. held[p] \in Text /\ NewText(cmd[p], held[p]) = [held[p] EXCEPT !.status = "revoked"]
      BY <1>1, <2>1 DEF NewText, Typed, Equipped
    <3>2. waiver[cmd[p].on] = [held[p] EXCEPT !.status = "revoked"]
      BY <1>1, <2>1, <3>1 DEF Revocations
    <3>3. waiver[cmd[p].on] \in Text /\ waiver[cmd[p].on].status = "revoked"
      BY <3>1, <3>2 DEF Text
    <3>4. retired' = retired \cup {cmd[p].on}
      BY <2>1 DEF Record
    <3> QED
      BY <3>3, <3>4 DEF Revocations
  <2>2. CASE cmd[p].op # "revoke"
    BY <2>2 DEF Record, Revocations
  <2> QED
    BY <2>1, <2>2
<1> QED
  BY <1>1, <1>2, <1>3, RevocationsOfOne DEF Govern, InVerify

LEMMA ChecksKeepRevocations ==
    ASSUME Typed, Solo, Revocations, NEW p \in Terminals,
           CheckLedger(p) \/ RecordFails(p) \/ Crash(p) \/ Conclude(p)
    PROVE  Revocations'
<1>1. retired' = retired /\ waiver' = waiver
  BY DEF CheckLedger, RecordFails, Crash, Conclude, past, files
<1>2. CASE Exit(p)
  <2>1. pc'[p] = "idle" /\ used'[p] = {}
    BY <1>2 DEF Exit, Goto, Typed, TypeOK
  <2> QED
    BY <1>1, <2>1, RevocationsOfOne DEF Govern, Verify, Revocations
<1>3. CASE CheckLedger(p) /\ Valid(ledger)
  <2>1. pc[p] = "inspect" /\ pc'[p] = "append" /\ cmd' = cmd /\ held' = held /\ used' = used
    BY <1>3 DEF CheckLedger, Goto, run, Typed, TypeOK
  <2>2. used[p] = {}
    BY <2>1 DEF Revocations, InVerify
  <2> QED
    BY <1>1, <1>3, <2>1, <2>2, RevocationsOfOne DEF Govern, Revocations
<1> QED
  BY <1>2, <1>3 DEF CheckLedger, RecordFails, Crash, Conclude

LEMMA RunKeepsRevocations ==
    ASSUME Typed, Solo, Revocations, NEW p \in Terminals,
           Collect(p) \/ WriteBaseline(p) \/ Waive(p) \/ Ratchet(p) \/ ApplyPolicy(p)
    PROVE  Revocations'
<1>1. retired' = retired /\ waiver' = waiver
  BY DEF Collect, WriteBaseline, Waive, Ratchet, ApplyPolicy, past, files
<1>2. pc'[p] \in InVerify /\ pc'[p] \notin {"write", "inspect", "append"}
  BY DEF Collect, WriteBaseline, Waive, Ratchet, ApplyPolicy, Goto, InVerify, Typed, TypeOK
<1>3. used'[p] = used[p] \/ \A w \in used'[p] : w \in Waivers /\ Active(w)
  BY DEF Collect, WriteBaseline, Waive, Ratchet, ApplyPolicy, run, Typed, TypeOK
<1>4. \A w \in retired : ~Active(w)
  BY DEF Revocations, Active
<1>5. used'[p] \cap retired' = {}
  BY <1>1, <1>3, <1>4 DEF Revocations
<1>6. Verify(p)
  BY DEF Verify
<1> QED
  BY <1>1, <1>2, <1>5, <1>6, RevocationsOfOne DEF Revocations

LEMMA BeginKeepsRevocations ==
    ASSUME Typed, Solo, Revocations, NEW p \in Terminals, NEW c \in Commands, Begin(p, c)
    PROVE  Revocations'
<1>1. /\ retired' = retired /\ waiver' = waiver /\ used' = used /\ held' = held
      /\ used[p] = {}
  BY DEF Begin, past, files, run, Revocations, InVerify
<1>2. /\ pc'[p] = FirstStep(c.op) /\ cmd'[p] = c
      /\ \A q \in Terminals : q # p => pc'[q] = pc[q] /\ cmd'[q] = cmd[q]
  BY DEF Begin, Goto, Typed, TypeOK
<1>3. pc'[p] \notin {"inspect", "append"} /\ (pc'[p] = "write" => c.op = "create")
  BY <1>2 DEF FirstStep
<1>4. c.op = "create" => c.on \notin retired
  BY SubjectsAssumption DEF Begin, Offered, Revocations
<1> QED
  BY <1>1, <1>2, <1>3, <1>4 DEF Revocations

LEMMA RevocationsStep ==
    Typed /\ Single /\ Solo /\ Revocations /\ [Next]_vars => Revocations'
<1> SUFFICES ASSUME Typed, Single, Solo, Revocations, [Next]_vars PROVE Revocations'
  OBVIOUS
<1>1. CASE UNCHANGED vars \/ Tick \/ Edit
  BY <1>1 DEF vars, Tick, Edit, files, run, past, Revocations
<1>2. CASE Next
  BY <1>1, <1>2, BeginKeepsRevocations, ReadKeepsRevocations, WriteKeepsRevocations,
     RecordKeepsRevocations, ChecksKeepRevocations, RunKeepsRevocations
     DEF Next, Step, Govern, Verify
<1> QED
  BY <1>1, <1>2

(* With one terminal no verdict rests on a waiver whose revocation has     *)
(* returned, whatever was renewed, crashed or failed since, for any number *)
(* of waivers, commands and days.                                          *)
THEOREM RevocationIsFinal == Spec => []RevokedNeverPasses
<1> DEFINE Inv == Single => Solo /\ Revocations
<1>1. Init => Inv
  BY DEF Init, Solo, Revocations, InVerify
<1>2. Typed /\ Inv /\ [Next]_vars => Inv'
  <2>1. [Next]_vars => Single' = Single
    BY DEF Single, Next, vars
  <2> QED
    BY <2>1, SoloStep, RevocationsStep
<1>3. Inv => RevokedNeverPasses
  BY DEF Single, Revocations, RevokedNeverPasses
<1> QED
  BY <1>1, <1>2, <1>3, TypedInit, TypedStep, PTL DEF Spec
-----------------------------------------------------------------------------
(* One terminal: the ledger tells what the files say. *)

\* What a command has inspected is still what is there.
Inspected ==
    \A p \in Terminals :
        IF pc[p] = "append" THEN Valid(ledger) /\ reading[p] = Len(ledger)
                            ELSE reading[p] = None

LEMMA InspectedStep == Typed /\ Single /\ Solo /\ Inspected /\ [Next]_vars => Inspected'
<1> SUFFICES ASSUME Typed, Single, Solo, Inspected, [Next]_vars PROVE Inspected'
  OBVIOUS
<1>1. CASE UNCHANGED vars \/ Tick \/ Edit
  BY <1>1 DEF vars, Tick, Edit, Inspected, Valid
<1>2. ASSUME NEW p \in Terminals, NEW c \in Commands, Begin(p, c) PROVE Inspected'
  <2>1. FirstStep(c.op) # "append"
    BY DEF FirstStep
  <2> QED
    BY <1>2, <2>1 DEF Begin, Goto, Inspected, Typed, TypeOK, Valid
<1>3. ASSUME NEW p \in Terminals, Govern(p) \/ Verify(p) \/ Crash(p) PROVE Inspected'
  <2>1. \A q \in Terminals : q # p => pc'[q] = "idle" /\ reading'[q] = None
    BY <1>3, OnlyOneActs DEF Solo, Inspected
  <2>2. CASE CheckLedger(p) /\ Valid(ledger)
    <3>1. pc'[p] = "append" /\ reading'[p] = Len(ledger) /\ ledger' = ledger
      BY <2>2 DEF CheckLedger, Inspect, Goto, Typed, TypeOK, LTypeOK
    <3> QED
      BY <2>1, <2>2, <3>1 DEF Inspected, Valid
  <2>3. ASSUME ~(CheckLedger(p) /\ Valid(ledger)) PROVE pc'[p] # "append" /\ reading'[p] = None
    <3>1. CASE Record(p) \/ RecordFails(p) \/ Crash(p)
      BY <3>1 DEF Record, RecordFails, Crash, AppendEvent, GiveUp, Tear, Exit, Goto,
                  Typed, TypeOK, LTypeOK
    <3>2. CASE Read(p) \/ Write(p) \/ (CheckLedger(p) /\ ~Valid(ledger))
      BY <3>2 DEF Read, Write, CheckLedger, Exit, Goto, Inspected, Typed, TypeOK
    <3>3. CASE Verify(p)
      BY <3>3 DEF Verify, Collect, WriteBaseline, Waive, Ratchet, ApplyPolicy, Conclude, Exit,
                  Goto, Inspected, Typed, TypeOK
    <3> QED
      BY <1>3, <2>3, <3>1, <3>2, <3>3 DEF Govern
  <2> QED
    BY <2>1, <2>2, <2>3 DEF Inspected
<1> QED
  BY <1>1, <1>2, <1>3 DEF Next, Step

\* The last telling is well defined.
Latest ==
    \A w \in Waivers :
        Tellings(w) = {} \/ \E i \in Tellings(w) : \A j \in Tellings(w) : j <= i

Tells(line, w) == /\ line.about # None
                  /\ line.about.on = w
                  /\ DOMAIN line.about = {"on", "text"}

LEMMA AppendTells ==
    ASSUME ledger \in Seq(Lines), NEW line \in Lines, ledger' = Append(ledger, line),
           NEW w, Tells(line, w)
    PROVE  /\ \E i \in Tellings(w)' : \A j \in Tellings(w)' : j <= i
           /\ LastTold(w)' = line.about.text
<1> DEFINE n == Len(ledger) + 1
<1>1. n \in Nat /\ Len(ledger') = n /\ ledger'[n] = line
  OBVIOUS
<1>2. Tellings(w)' = {i \in 1..n : Tells(ledger'[i], w)}
  BY <1>1 DEF Tellings, Tells
<1>3. n \in Tellings(w)' /\ \A j \in Tellings(w)' : j \in Nat /\ j <= n
  BY <1>1, <1>2
<1>4. (CHOOSE i \in Tellings(w)' : \A j \in Tellings(w)' : j <= i) = n
  <2> DEFINE T == Tellings(w)'
             m == CHOOSE i \in T : \A j \in T : j <= i
  <2> HIDE DEF n, T
  <2>1. n \in T /\ \A j \in T : j \in Nat /\ j <= n
    BY <1>3 DEF T
  <2>2. m \in T /\ \A j \in T : j <= m
    BY <2>1
  <2>3. m = n
    <3> HIDE DEF m
    <3> QED
      BY <2>1, <2>2
  <2> QED
    BY <2>3 DEF T
<1>5. LastTold(w)' = ledger'[CHOOSE i \in Tellings(w)' : \A j \in Tellings(w)' : j <= i].about.text
  BY <1>3 DEF LastTold
<1> QED
  BY <1>1, <1>3, <1>4, <1>5

LEMMA AppendTellsNothing ==
    ASSUME ledger \in Seq(Lines), NEW line \in Lines, ledger' = Append(ledger, line),
           NEW w, ~Tells(line, w),
           Tellings(w) = {} \/ \E i \in Tellings(w) : \A j \in Tellings(w) : j <= i
    PROVE  /\ Tellings(w)' = Tellings(w)
           /\ LastTold(w)' = LastTold(w)
<1> DEFINE n == Len(ledger) + 1
<1>1. n \in Nat /\ Len(ledger) \in Nat /\ Len(ledger') = n /\ ledger'[n] = line
  OBVIOUS
<1>2. \A i \in 1..Len(ledger) : ledger'[i] = ledger[i]
  OBVIOUS
<1>3. Tellings(w)' = {i \in 1..n : Tells(ledger'[i], w)}
  BY <1>1 DEF Tellings, Tells
<1>4. Tellings(w) = {i \in 1..Len(ledger) : Tells(ledger[i], w)}
  BY DEF Tellings, Tells
<1>5. \A i : i \in Tellings(w)' <=> i \in Tellings(w)
  BY <1>1, <1>2, <1>3, <1>4
<1>6. Tellings(w)' = Tellings(w)
  BY <1>5
<1>7. CASE Tellings(w) = {}
  BY <1>6, <1>7 DEF LastTold
<1>8. CASE Tellings(w) # {}
  <2> DEFINE m == CHOOSE i \in Tellings(w) : \A j \in Tellings(w) : j <= i
  <2>1. m \in Tellings(w)
    BY <1>8
  <2>2. ledger'[m] = ledger[m]
    BY <1>2, <1>4, <2>1
  <2>3. LastTold(w) = ledger[m].about.text
    BY <1>8 DEF LastTold
  <2>4. LastTold(w)' = ledger'[m].about.text
    BY <1>6, <1>8 DEF LastTold
  <2> QED
    BY <1>6, <2>2, <2>3, <2>4
<1> QED
  BY <1>7, <1>8

\* An intact ledger has no torn line at its end.
LEMMA IntactGrows ==
    ASSUME ledger \in Seq(Lines), Valid(ledger), NEW line
    PROVE  Extended(ledger, line) = Append(ledger, line)
<1>1. CASE ledger # <<>>
  <2>1. Len(ledger) \in 1..Len(ledger) /\ Len(ledger) - 1 \in Nat
    BY <1>1
  <2>2. ledger[Len(ledger)].after \in Nat
    BY <2>1 DEF Valid, Follows
  <2> QED
    BY <2>2, LedgerAssumption DEF Extended
<1>2. CASE ledger = <<>>
  BY <1>2 DEF Extended
<1> QED
  BY <1>1, <1>2

\* What a step of p writes to the ledger.
LEMMA LedgerGrows ==
    ASSUME Typed, Inspected, NEW p \in Terminals, Govern(p) \/ Verify(p) \/ Crash(p)
    PROVE  \/ ledger' = ledger /\ ~Record(p)
           \/ /\ Record(p)
              /\ Event(p, reading[p], Told(p)) \in Lines
              /\ ledger' = Append(ledger, Event(p, reading[p], Told(p)))
           \/ Crash(p) /\ TornLine(p) \in Lines /\ ledger' = Append(ledger, TornLine(p))
<1>1. ledger \in Seq(Lines) /\ reading \in [Terminals -> Nat \cup {None}]
  BY DEF Typed, TypeOK, LTypeOK
<1>2. CASE Record(p)
  <2>1. pc[p] = "append"
    BY <1>2 DEF Record
  <2>2. Valid(ledger) /\ ledger' = Extended(ledger, Event(p, reading[p], Told(p)))
    BY <1>2, <2>1 DEF Record, AppendEvent, Inspected
  <2>3. Told(p) \in Subjects
    BY <2>1, ToldIsSubject
  <2>4. Event(p, reading[p], Told(p)) \in Lines
    BY <1>1, <2>3 DEF Event, Lines
  <2> QED
    BY <1>1, <1>2, <2>2, <2>4, IntactGrows
<1>3. CASE Crash(p) /\ ledger' # ledger
  <2>1. pc[p] = "append" /\ ledger' = Extended(ledger, TornLine(p))
    BY <1>3 DEF Crash, GiveUp, Tear
  <2>2. TornLine(p) \in Lines
    BY DEF TornLine, Event, Lines
  <2> QED
    BY <1>1, <1>3, <2>1, <2>2, IntactGrows DEF Inspected
<1>4. CASE ~Record(p) /\ ~(Crash(p) /\ ledger' # ledger)
  BY <1>4 DEF Govern, Read, Write, CheckLedger, Inspect, RecordFails, GiveUp, Verify, Collect,
              WriteBaseline, Waive, Ratchet, ApplyPolicy, Conclude
<1> QED
  BY <1>2, <1>3, <1>4

\* Only the event of a change of a waiver tells something of it.
LEMMA WhatIsTold ==
    ASSUME Typed, NEW p \in Terminals, pc[p] = "append", NEW n, NEW w
    PROVE  /\ ~Tells(TornLine(p), w)
           /\ Tells(Event(p, n, Told(p)), w) <=> Writes(p, w)
           /\ Writes(p, w) => Told(p).text = NewText(cmd[p], held[p])
<1>1. ~Tells(TornLine(p), w)
  BY DEF Tells, TornLine, Event
<1>2. /\ cmd[p].op \in {"create", "revoke", "renew", "approve"}
      /\ Told(p) # None
  BY ToldIsSubject, SubjectsAssumption DEF Typed, Equipped, Commands
<1>3. CASE cmd[p].op = "approve"
  <2>1. DOMAIN Told(p) # {"on", "text"}
    <3>1. "by" \in DOMAIN Told(p)
      BY <1>3 DEF Told, NewApproval
    <3> QED
      BY <3>1
  <2> QED
    BY <1>1, <1>3, <2>1 DEF Tells, Event, Writes
<1>4. CASE cmd[p].op # "approve"
  <2>1. Told(p) = [on |-> cmd[p].on, text |-> NewText(cmd[p], held[p])]
    BY <1>4 DEF Told, Change
  <2> QED
    BY <1>1, <1>2, <1>4, <2>1 DEF Tells, Event, Writes
<1> QED
  BY <1>3, <1>4

LEMMA LatestStep == Typed /\ Inspected /\ Latest /\ [Next]_vars => Latest'
<1> SUFFICES ASSUME Typed, Inspected, Latest, [Next]_vars PROVE Latest'
  OBVIOUS
<1>1. ASSUME ledger' = ledger PROVE Latest'
  BY <1>1 DEF Latest, Tellings
<1>2. ASSUME NEW line \in Lines, ledger' = Append(ledger, line) PROVE Latest'
  <2>1. ledger \in Seq(Lines)
    BY DEF Typed, TypeOK, LTypeOK
  <2> SUFFICES ASSUME NEW w \in Waivers
               PROVE  \/ Tellings(w)' = {}
                      \/ \E i \in Tellings(w)' : \A j \in Tellings(w)' : j <= i
    BY DEF Latest
  <2>2. CASE Tells(line, w)
    BY <1>2, <2>1, <2>2, AppendTells
  <2>3. CASE ~Tells(line, w)
    <3>1. Tellings(w) = {} \/ \E i \in Tellings(w) : \A j \in Tellings(w) : j <= i
      BY DEF Latest
    <3>2. Tellings(w)' = Tellings(w)
      BY <1>2, <2>1, <2>3, <3>1, AppendTellsNothing
    <3> QED
      BY <3>1, <3>2
  <2> QED
    BY <2>2, <2>3
<1>3. CASE UNCHANGED vars \/ Tick \/ Edit \/ \E p \in Terminals : \E c \in Commands : Begin(p, c)
  BY <1>1, <1>3 DEF vars, Tick, Edit, Begin
<1>4. ASSUME NEW p \in Terminals, Govern(p) \/ Verify(p) \/ Crash(p) PROVE Latest'
  BY <1>1, <1>2, <1>4, LedgerGrows
<1> QED
  BY <1>3, <1>4 DEF Next, Step

\* What a step that leaves ledger and files alone must keep.
LEMMA SameTexts ==
    ASSUME ledger' = ledger, waiver' = waiver, NEW w \in Waivers
    PROVE  LastTold(w)' = LastTold(w) /\ waiver'[w] = waiver[w]
  BY DEF LastTold, Tellings

\* The waiver a process is between writing and recording.
Engaged(p, w) == Writes(p, w) /\ pc[p] \in {"inspect", "append"}

LEMMA BusyIsEngaged ==
    ASSUME Typed, Solo, NEW p \in Terminals, Govern(p) \/ Verify(p) \/ Crash(p),
           NEW w \in Waivers
    PROVE  (Busy(w) <=> Engaged(p, w)) /\ (Busy(w)' <=> Engaged(p, w)')
<1>1. \A q \in Terminals : q # p => pc[q] = "idle" /\ pc'[q] = "idle"
  BY OthersIdle
<1> QED
  BY <1>1 DEF Busy, Engaged

LEMMA TellsStep ==
    Typed /\ Single /\ Solo /\ Revocations /\ Inspected /\ Latest /\ LedgerTells /\ [Next]_vars
        => LedgerTells'
<1> SUFFICES ASSUME Typed, Single, Solo, Revocations, Inspected, Latest, LedgerTells, [Next]_vars,
                    NEW w \in Waivers
             PROVE  Busy(w)' \/ w \in unlogged' \/ LastTold(w)' = waiver'[w]
  BY DEF LedgerTells
<1> DEFINE Fine == w \in unlogged \/ LastTold(w) = waiver[w]
<1>1. Busy(w) \/ Fine
  BY DEF LedgerTells, Single
<1>2. CASE UNCHANGED vars \/ Tick \/ Edit
  <2>1. ledger' = ledger /\ waiver' = waiver /\ unlogged' = unlogged /\ pc' = pc /\ cmd' = cmd
    BY <1>2 DEF vars, files, past, Tick, Edit
  <2> QED
    BY <1>1, <2>1, SameTexts DEF Busy, Writes
<1>3. ASSUME NEW p \in Terminals, NEW c \in Commands, Begin(p, c)
      PROVE  Busy(w)' \/ w \in unlogged' \/ LastTold(w)' = waiver'[w]
  <2>1. ledger' = ledger /\ waiver' = waiver /\ unlogged' = unlogged
    BY <1>3 DEF Begin, files, past
  <2>2. \A q \in Terminals : pc[q] = "idle"
    BY <1>3 DEF Begin, Single
  <2> QED
    BY <1>1, <2>1, <2>2, SameTexts DEF Busy
<1>4. ASSUME NEW p \in Terminals, Govern(p) \/ Verify(p) \/ Crash(p)
      PROVE  Busy(w)' \/ w \in unlogged' \/ LastTold(w)' = waiver'[w]
  <2>1. Engaged(p, w) \/ Fine
    BY <1>1, <1>4, BusyIsEngaged
  <2> SUFFICES Engaged(p, w)' \/ w \in unlogged' \/ LastTold(w)' = waiver'[w]
    BY <1>4, BusyIsEngaged
  <2>2. CASE Write(p)
    <3>1. pc[p] = "write" /\ pc'[p] = "inspect" /\ cmd' = cmd /\ ledger' = ledger
              /\ unlogged' = unlogged
      BY <2>2 DEF Write, Goto, past, Typed, TypeOK
    <3>2. cmd[p] \in Commands /\ cmd[p].op # "verify"
      BY <3>1 DEF Typed, Equipped
    <3>3. CASE Writes(p, w)
      BY <3>1, <3>3 DEF Engaged, Writes
    <3>4. CASE ~Writes(p, w)
      <4>1. waiver'[w] = waiver[w]
        BY <2>2, <3>2, <3>4 DEF Write, Writes, Commands, Typed, TypeOK
      <4>2. LastTold(w)' = LastTold(w)
        BY <3>1 DEF LastTold, Tellings
      <4>3. Fine
        BY <2>1, <3>1 DEF Engaged
      <4> QED
        BY <3>1, <4>1, <4>2, <4>3
    <3> QED
      BY <3>3, <3>4
  <2>3. CASE Record(p)
    <3> DEFINE line == Event(p, reading[p], Told(p))
    <3>1. pc[p] = "append" /\ waiver' = waiver
      BY <2>3 DEF Record, files
    <3>2. line \in Lines /\ ledger' = Append(ledger, line) /\ ledger \in Seq(Lines)
      <4>1. ledger \in Seq(Lines) /\ reading[p] \in Nat \cup {None}
        BY DEF Typed, TypeOK, LTypeOK
      <4>2. Told(p) \in Subjects
        BY <3>1, ToldIsSubject
      <4>3. line \in Lines
        BY <4>1, <4>2 DEF Event, Lines
      <4>4. ledger' = Append(ledger, line)
        BY <2>3, <3>1, <4>1, IntactGrows DEF Record, AppendEvent, Inspected
      <4> QED
        BY <4>1, <4>3, <4>4
    <3>3. CASE Writes(p, w)
      <4>1. Tells(line, w) /\ line.about.text = NewText(cmd[p], held[p])
        BY <3>1, <3>3, WhatIsTold DEF Event
      <4>2. LastTold(w)' = NewText(cmd[p], held[p])
        BY <3>2, <4>1, AppendTells
      <4>3. waiver[w] = NewText(cmd[p], held[p])
        BY <3>1, <3>3 DEF Writes, Revocations
      <4> QED
        BY <3>1, <4>2, <4>3
    <3>4. CASE ~Writes(p, w)
      <4>1. ~Tells(line, w)
        BY <3>1, <3>4, WhatIsTold
      <4>2. LastTold(w)' = LastTold(w)
        BY <3>2, <4>1, AppendTellsNothing DEF Latest
      <4>3. Fine
        BY <2>1, <3>4 DEF Engaged
      <4>4. cmd[p].op # "approve" => cmd[p].op \in {"create", "revoke", "renew"}
        BY <3>1 DEF Typed, Equipped, Commands
      <4>5. w \in unlogged => w \in unlogged'
        BY <2>3, <3>4, <4>4 DEF Record, Writes
      <4> QED
        BY <3>1, <4>2, <4>3, <4>5
    <3> QED
      BY <3>3, <3>4
  <2>4. CASE CheckLedger(p) /\ Valid(ledger)
    <3>1. /\ pc[p] = "inspect" /\ pc'[p] = "append" /\ cmd' = cmd
          /\ ledger' = ledger /\ waiver' = waiver /\ unlogged' = unlogged
      BY <2>4 DEF CheckLedger, Inspect, Goto, files, past, Typed, TypeOK
    <3> QED
      BY <2>1, <3>1, SameTexts DEF Engaged, Writes
  <2>5. CASE (CheckLedger(p) /\ ~Valid(ledger)) \/ RecordFails(p) \/ Crash(p)
    <3>1. waiver' = waiver
      BY <2>5 DEF CheckLedger, RecordFails, Crash, files
    <3>2. CASE Engaged(p, w)
      <4>1. EndUnlogged(p)
        BY <2>5, <3>2 DEF CheckLedger, RecordFails, Crash, Engaged
      <4> QED
        BY <3>2, <4>1 DEF EndUnlogged, Engaged, Writes
    <3>3. CASE ~Engaged(p, w)
      <4>1. w \in unlogged => w \in unlogged'
        BY <2>5 DEF CheckLedger, RecordFails, Crash, EndUnlogged
      <4>2. LastTold(w)' = LastTold(w)
        <5>1. CASE ledger' = ledger
          BY <3>1, <5>1, SameTexts
        <5>2. CASE ledger' # ledger
          <6>1. pc[p] = "append" /\ ledger' = Extended(ledger, TornLine(p))
            BY <2>5, <5>2 DEF CheckLedger, RecordFails, Crash, GiveUp, Tear
          <6>2. ledger \in Seq(Lines) /\ TornLine(p) \in Lines
            BY DEF Typed, TypeOK, LTypeOK, TornLine, Event, Lines
          <6>3. ledger' = Append(ledger, TornLine(p))
            BY <6>1, <6>2, IntactGrows DEF Inspected
          <6>4. ~Tells(TornLine(p), w)
            BY <6>1, WhatIsTold
          <6> QED
            BY <6>2, <6>3, <6>4, AppendTellsNothing DEF Latest
        <5> QED
          BY <5>1, <5>2
      <4> QED
        BY <2>1, <3>1, <3>3, <4>1, <4>2
    <3> QED
      BY <3>2, <3>3
  <2>6. CASE Read(p) \/ Verify(p)
    <3>1. /\ pc[p] \notin {"inspect", "append"}
          /\ ledger' = ledger /\ waiver' = waiver /\ unlogged' = unlogged
      BY <2>6 DEF Read, Verify, Collect, WriteBaseline, Waive, Ratchet, ApplyPolicy, Conclude,
                  files, past
    <3> QED
      BY <2>1, <3>1, SameTexts DEF Engaged
  <2> QED
    BY <1>4, <2>2, <2>3, <2>4, <2>5, <2>6 DEF Govern
<1> QED
  BY <1>2, <1>3, <1>4 DEF Next, Step

(* With one terminal the last event on a waiver is what its file says,     *)
(* unless a command on it is under way or ended between file and event,    *)
(* for any number of waivers and commands.                                 *)
THEOREM LedgerSpeaksForFiles == Spec => []LedgerTells
<1> DEFINE Inv == Single => Solo /\ Revocations /\ Inspected /\ Latest /\ LedgerTells
<1>1. Init => Inv
  BY DEF Init, LInit, Solo, Revocations, InVerify, Inspected, Latest, Tellings, LastTold,
         LedgerTells
<1>2. Typed /\ Inv /\ [Next]_vars => Inv'
  <2>1. [Next]_vars => Single' = Single
    BY DEF Single, Next, vars
  <2> QED
    BY <2>1, SoloStep, RevocationsStep, InspectedStep, LatestStep, TellsStep
<1>3. Inv => LedgerTells
  BY DEF Single, LedgerTells
<1> QED
  BY <1>1, <1>2, <1>3, TypedInit, TypedStep, PTL DEF Spec
-----------------------------------------------------------------------------
(* Nothing fails and commands follow each other: every approval is heard. *)

Calm == world \cap {"two", "crash", "append"} = {}

Says(a) == \E i \in 1..Len(ledger) : ledger[i].about = a

\* The approval that a command has stored and not yet recorded.
Pending(p, a) ==
    pc[p] \in {"inspect", "append"} /\ cmd[p].op = "approve" /\ a = NewApproval(p)

Heeded ==
    /\ Valid(ledger)
    /\ unlogged = {}
    /\ \A a \in Approval : a \in approvals <=> Says(a) \/ \E p \in Terminals : Pending(p, a)

\* An intact ledger stays intact when its whole length has been inspected.
LEMMA ChainGrows ==
    ASSUME ledger \in Seq(Lines), Valid(ledger), NEW line \in Lines, line.after = Len(ledger),
           ledger' = Append(ledger, line)
    PROVE  /\ Valid(ledger)'
           /\ \A a : Says(a)' <=> Says(a) \/ a = line.about
<1> DEFINE n == Len(ledger) + 1
<1>1. n \in Nat /\ Len(ledger) \in Nat /\ Len(ledger') = n /\ ledger'[n] = line
  OBVIOUS
<1>2. \A i \in 1..Len(ledger) : ledger'[i] = ledger[i]
  OBVIOUS
<1>3. \A i \in 1..n : i = n \/ i \in 1..Len(ledger)
  BY <1>1
<1>4. ASSUME NEW i \in 1..n PROVE ledger'[i].after = i - 1
  <2>1. CASE i = n
    BY <1>1, <2>1
  <2>2. CASE i \in 1..Len(ledger)
    BY <1>2, <2>2 DEF Valid, Follows
  <2> QED
    BY <1>3, <2>1, <2>2
<1>5. ASSUME NEW a PROVE Says(a)' <=> Says(a) \/ a = line.about
  <2>1. 1..Len(ledger) \subseteq 1..n /\ n \in 1..n
    BY <1>1
  <2> QED
    BY <1>1, <1>2, <1>3, <2>1 DEF Says
<1> QED
  BY <1>1, <1>4, <1>5 DEF Valid, Follows

LEMMA HeededStep == Typed /\ Calm /\ Solo /\ Inspected /\ Heeded /\ [Next]_vars => Heeded'
<1> SUFFICES ASSUME Typed, Calm, Solo, Inspected, Heeded, [Next]_vars PROVE Heeded'
  OBVIOUS
<1>1. CASE UNCHANGED vars \/ Tick \/ Edit
  <2>1. /\ ledger' = ledger /\ unlogged' = unlogged /\ approvals' = approvals
        /\ pc' = pc /\ cmd' = cmd /\ held' = held
    BY <1>1 DEF vars, files, past, Tick, Edit
  <2> QED
    BY <2>1 DEF Heeded, Valid, Says, Pending, NewApproval
<1>2. ASSUME NEW p \in Terminals, NEW c \in Commands, Begin(p, c) PROVE Heeded'
  <2>1. ledger' = ledger /\ unlogged' = unlogged /\ approvals' = approvals /\ held' = held
    BY <1>2 DEF Begin, files, past
  <2>2. \A a : \A q \in Terminals : ~Pending(q, a) /\ ~Pending(q, a)'
    BY <1>2 DEF Begin, Calm, Pending, FirstStep, Goto, Typed, TypeOK
  <2> QED
    BY <2>1, <2>2 DEF Heeded, Valid, Says
<1>3. ASSUME NEW p \in Terminals, Govern(p) \/ Verify(p) \/ Crash(p) PROVE Heeded'
  <2>1. \A a : /\ (\E q \in Terminals : Pending(q, a)) <=> Pending(p, a)
               /\ (\E q \in Terminals : Pending(q, a)') <=> Pending(p, a)'
    <3>1. \A q \in Terminals : q # p => pc[q] = "idle" /\ pc'[q] = "idle"
      BY <1>3, OthersIdle
    <3> QED
      BY <3>1 DEF Pending
  <2>2. \A a \in Approval : a \in approvals <=> Says(a) \/ Pending(p, a)
    BY <2>1 DEF Heeded
  <2> SUFFICES /\ Valid(ledger)'
               /\ unlogged' = {}
               /\ \A a \in Approval : a \in approvals' <=> Says(a)' \/ Pending(p, a)'
    BY <2>1 DEF Heeded
  <2>3. CASE Write(p)
    <3>1. /\ pc[p] = "write" /\ pc'[p] = "inspect" /\ cmd' = cmd /\ held' = held
          /\ ledger' = ledger /\ unlogged' = unlogged
      BY <2>3 DEF Write, Goto, past, Typed, TypeOK
    <3>2. \A a : ~Pending(p, a) /\ (Says(a)' <=> Says(a))
                 /\ (Pending(p, a)' <=> cmd[p].op = "approve" /\ a = NewApproval(p))
      BY <3>1 DEF Pending, Says, NewApproval
    <3>3. approvals' = IF cmd[p].op = "approve" THEN approvals \cup {NewApproval(p)}
                                                ELSE approvals
      BY <2>3 DEF Write
    <3> QED
      BY <2>2, <3>1, <3>2, <3>3 DEF Heeded, Valid
  <2>4. CASE Record(p)
    <3> DEFINE line == Event(p, reading[p], Told(p))
    <3>1. pc[p] = "append" /\ pc'[p] = "idle" /\ approvals' = approvals
      BY <2>4 DEF Record, Exit, Goto, files, Typed, TypeOK
    <3>2. ledger \in Seq(Lines) /\ reading[p] = Len(ledger)
      BY <3>1 DEF Typed, TypeOK, LTypeOK, Inspected
    <3>3. Told(p) \in Subjects
      BY <3>1, ToldIsSubject
    <3>4. line \in Lines /\ line.after = Len(ledger) /\ line.about = Told(p)
      BY <3>2, <3>3 DEF Event, Lines
    <3>5. ledger' = Append(ledger, line)
      BY <2>4, <3>2, IntactGrows DEF Record, AppendEvent, Heeded
    <3>6. Valid(ledger)' /\ \A a : Says(a)' <=> Says(a) \/ a = Told(p)
      BY <3>2, <3>4, <3>5, ChainGrows DEF Heeded
    <3>7. unlogged' = {}
      BY <2>4 DEF Record, Heeded
    <3>8. \A a \in Approval : Pending(p, a) <=> a = Told(p)
      <4>1. CASE cmd[p].op = "approve"
        BY <3>1, <4>1 DEF Pending, Told
      <4>2. CASE cmd[p].op # "approve"
        <5>1. Told(p) = [on |-> cmd[p].on, text |-> NewText(cmd[p], held[p])]
          BY <4>2 DEF Told, Change
        <5>2. Told(p) \notin Approval
          BY <5>1 DEF Approval
        <5> QED
          BY <4>2, <5>2 DEF Pending
      <4> QED
        BY <4>1, <4>2
    <3> QED
      BY <2>2, <3>1, <3>6, <3>7, <3>8 DEF Pending
  <2>5. CASE CheckLedger(p)
    <3>1. /\ pc[p] = "inspect" /\ pc'[p] = "append" /\ cmd' = cmd /\ held' = held
          /\ ledger' = ledger /\ unlogged' = unlogged /\ approvals' = approvals
      BY <2>5 DEF CheckLedger, Inspect, Goto, files, past, Heeded, Typed, TypeOK
    <3>2. \A a : (Pending(p, a)' <=> Pending(p, a)) /\ (Says(a)' <=> Says(a))
      BY <3>1 DEF Pending, NewApproval, Says
    <3> QED
      BY <2>2, <3>1, <3>2 DEF Heeded, Valid
  <2>6. CASE Read(p) \/ Verify(p)
    <3>1. /\ pc[p] \notin {"inspect", "append"} /\ pc'[p] \notin {"inspect", "append"}
          /\ ledger' = ledger /\ approvals' = approvals /\ unlogged' = unlogged
      BY <2>6 DEF Read, Verify, Collect, WriteBaseline, Waive, Ratchet, ApplyPolicy, Conclude,
                  Exit, Goto, files, past, Typed, TypeOK
    <3> QED
      BY <2>2, <3>1 DEF Heeded, Valid, Says, Pending
  <2>7. CASE RecordFails(p) \/ Crash(p)
    BY <2>7 DEF RecordFails, Crash, Calm
  <2> QED
    BY <1>3, <2>3, <2>4, <2>5, <2>6, <2>7 DEF Govern
<1> QED
  BY <1>1, <1>2, <1>3 DEF Next, Step

LEMMA HeardIsStored ==
    ASSUME Typed, Single, LedgerTells, Heeded, \A p \in Terminals : pc[p] = "idle",
           NEW w \in Waivers, waiver[w] # None
    PROVE  Heard(w) = {a \in approvals : a.on = w /\ Current(a)}
<1>1. LastTold(w) = waiver[w]
  BY DEF LedgerTells, Single, Heeded, Busy
<1>2. \A a \in Approval : a \in approvals <=> Says(a)
  BY DEF Heeded, Pending
<1>3. approvals \subseteq Approval /\ \A a \in Approval : "by" \in DOMAIN a /\ a # None
  BY SubjectsAssumption DEF Typed, TypeOK, Approval
<1>4. ASSUME NEW a, Says(a), a # None, "by" \in DOMAIN a PROVE a \in Approval
  <2>1. a \in Subjects
    <3>1. PICK i \in 1..Len(ledger) : ledger[i].about = a
      BY <1>4 DEF Says
    <3>2. ledger[i] \in Lines
      BY <3>1 DEF Typed, TypeOK, LTypeOK
    <3> QED
      BY <1>4, <3>1, <3>2 DEF Lines
  <2>2. \A b \in [on : Waivers, text : Text] : "by" \notin DOMAIN b
    OBVIOUS
  <2> QED
    BY <1>4, <2>1, <2>2, SubjectsAssumption
<1>5. \A a : a \in {ledger[i].about : i \in 1..Len(ledger)} <=> Says(a)
  BY DEF Says
<1>6. \A a : a \in Heard(w) <=> /\ Says(a) /\ a # None /\ a.on = w /\ "by" \in DOMAIN a
                                /\ a.text = waiver[w] /\ now <= a.until
  BY <1>1, <1>5 DEF Heard
<1>7. \A a : a \in Heard(w) <=> a \in {b \in approvals : b.on = w /\ Current(b)}
  BY <1>2, <1>3, <1>4, <1>6 DEF Current
<1> QED
  BY <1>7

(* Where commands follow each other and none fails, the approval posture   *)
(* of every waiver can be read off the ledger, for any approvals, texts    *)
(* and expiry dates and whatever number of reviewers is required.          *)
THEOREM PostureCanBeAudited == Spec => []PostureIsAudited
<1> DEFINE Inv == Single => Solo /\ Revocations /\ Inspected /\ Latest /\ LedgerTells
           Kept == Calm => Heeded
<1>1. Init => Inv /\ Kept
  BY DEF Init, LInit, Solo, Revocations, InVerify, Inspected, Latest, Tellings, LastTold,
         LedgerTells, Heeded, Valid, Says, Pending
<1>2. Typed /\ Inv /\ Kept /\ [Next]_vars => (Inv /\ Kept)'
  <2>1. [Next]_vars => Single' = Single /\ Calm' = Calm /\ (Calm => Single)
    BY DEF Single, Calm, Next, vars
  <2> QED
    BY <2>1, SoloStep, RevocationsStep, InspectedStep, LatestStep, TellsStep, HeededStep
<1>3. Typed /\ Inv /\ Kept => PostureIsAudited
  <2> SUFFICES ASSUME Typed, Inv, Kept, Calm, \A p \in Terminals : pc[p] = "idle",
                      NEW w \in Waivers, waiver[w] # None
               PROVE  Satisfied(w) <=> Enough(Heard(w))
    BY DEF PostureIsAudited, Calm
  <2>1. Single
    BY DEF Calm, Single
  <2>2. Heard(w) = {a \in approvals : a.on = w /\ Current(a)}
    BY <2>1, HeardIsStored
  <2> QED
    BY <2>2 DEF Satisfied
<1> QED
  BY <1>1, <1>2, <1>3, TypedInit, TypedStep, PTL DEF Spec
=============================================================================
