--------------------------- MODULE VerifyGovernance ---------------------------
(***************************************************************************)
(* What a verdict rests on: `waiver create|revoke|renew`, `policy approval *)
(* record` and `verify`, each a process of its own over the same files,    *)
(* with an audit event for every decision (tools/jispec/verify/            *)
(* waiver-store.ts, baseline-store.ts, verify-runner.ts and policy/        *)
(* approval.ts, over audit/event-ledger.ts).                               *)
(*                                                                         *)
(* One action per read or write of a file, because another process may run *)
(* between any two.  Only blocking issues are kept: the others never fail  *)
(* a verdict.                                                              *)
(***************************************************************************)
EXTENDS AuditLedger, FiniteSets

CONSTANTS
    Issues,         \* fingerprints of blocking issues
    Waivers,        \* ids of waiver files
    Covers,         \* Covers[w]: the issues the matcher of w matches
    RequiredReviewers,
    MaxTime,        \* bound: days that pass
    Worlds,         \* what may go on: one of these sets per behaviour
    MaxCommands     \* bound: commands given in a behaviour, by its world

\* Two terminals, a crash, an append that throws, findings that change, the
\* kinds of command given, and whether verify is given options.
Trouble == {"two", "crash", "append", "edit", "govern", "approve", "verify", "options"}

ASSUME GovernanceAssumption ==
    /\ Covers \in [Waivers -> SUBSET Issues]
    /\ RequiredReviewers \in Nat
    /\ MaxTime \in Nat
    /\ Worlds \subseteq SUBSET Trouble
    /\ MaxCommands \in [Worlds -> Nat]
    /\ None \notin Waivers

\* The last day is never past: it also stands for having no expiry date.
Days == 0..MaxTime

VARIABLES
    world,
    policy,     \* the fact its rule is on; like world, never changed
    now,
    found,      \* what the collectors would find in the working tree
    waiver,     \* the waiver files
    baseline,   \* the fingerprints in the baseline file, or None
    approvals,  \* the approval files
    pc, cmd, held,      \* of a terminal: its command, and the file it has read
    collected, blocking, used, flagged,     \* of its run of verify
    commands,   \* commands given so far
    covered,    \* history: what was accepted at some time during p's verify
    retired,    \* history: waivers whose revocation has returned
    unlogged    \* history: waivers whose last change ended without its event

files == <<found, waiver, baseline, approvals>>
run   == <<collected, blocking, used, flagged>>
past  == <<retired, unlogged>>
vars  == <<world, policy, now, files, ledger, reading, pc, cmd, held, run,
           commands, covered, past>>

Flags == {"no_waivers", "use_baseline", "write_baseline", "observe"}

\* The text of a waiver file, which is also what an approval hashes.
Text == [status : {"active", "revoked"}, until : Days]

Commands ==
         [op : {"create", "renew"}, on : Waivers, until : Days]
    \cup [op : {"revoke"}, on : Waivers]
    \cup [op : {"approve"}, on : Waivers, role : {"owner", "reviewer"}, until : Days]
    \cup [op : {"verify"}, flags : SUBSET Flags]

Approval == [by : Terminals, role : {"owner", "reviewer"}, on : Waivers,
             text : Text \cup {None}, until : Days]

\* What events say: of a waiver its text, of an approval all of it.
ASSUME SubjectsAssumption ==
    /\ Subjects = [on : Waivers, text : Text] \cup Approval
    /\ None \notin Text \cup Subjects

\* What the audit event of a command says.
Change(w, text) == [on |-> w, text |-> text]

NoCommand == [op |-> "none"]

Steps == {"idle", "read", "write", "inspect", "append",
          "collect", "baseline", "waive", "ratchet", "policy", "verdict"}
InVerify == {"collect", "baseline", "waive", "ratchet", "policy", "verdict"}

TypeOK ==
    /\ world \in Worlds
    /\ policy \in {"none", "issues", "blocking"}
    /\ now \in Days
    /\ found \subseteq Issues
    /\ waiver \in [Waivers -> Text \cup {None}]
    /\ baseline \in (SUBSET Issues) \cup {None}
    /\ approvals \subseteq Approval
    /\ LTypeOK
    /\ pc \in [Terminals -> Steps]
    /\ cmd \in [Terminals -> Commands \cup {NoCommand}]
    /\ held \in [Terminals -> Text \cup {None}]
    /\ collected \in [Terminals -> SUBSET Issues]
    /\ blocking \in [Terminals -> SUBSET Issues]
    /\ used \in [Terminals -> SUBSET Waivers]
    /\ flagged \in [Terminals -> BOOLEAN]
    /\ commands \in Nat
    /\ covered \in [Terminals -> SUBSET Issues]
    /\ retired \subseteq Waivers
    /\ unlogged \subseteq Waivers

Init ==
    /\ world \in Worlds
    /\ policy \in {"none"} \cup (IF "verify" \in world THEN {"issues", "blocking"} ELSE {})
    /\ now = 0
    /\ found \in {Issues} \cup (IF "edit" \in world THEN {{}} ELSE {})
    /\ waiver = [w \in Waivers |-> None]
    /\ baseline = None
    /\ approvals = {}
    /\ LInit
    /\ pc = [p \in Terminals |-> "idle"]
    /\ cmd = [p \in Terminals |-> NoCommand]
    /\ held = [p \in Terminals |-> None]
    /\ collected = [p \in Terminals |-> {}]
    /\ blocking = [p \in Terminals |-> {}]
    /\ used = [p \in Terminals |-> {}]
    /\ flagged = [p \in Terminals |-> FALSE]
    /\ commands = 0
    /\ covered = [p \in Terminals |-> {}]
    /\ retired = {}
    /\ unlogged = {}

Goto(p, step) == pc' = [pc EXCEPT ![p] = step]

\* The process ends and its memory is gone.
Exit(p) ==
    /\ Goto(p, "idle")
    /\ cmd' = [cmd EXCEPT ![p] = NoCommand]
    /\ held' = [held EXCEPT ![p] = None]
    /\ collected' = [collected EXCEPT ![p] = {}]
    /\ blocking' = [blocking EXCEPT ![p] = {}]
    /\ used' = [used EXCEPT ![p] = {}]
    /\ flagged' = [flagged EXCEPT ![p] = FALSE]

Writes(p, w) == cmd[p].op \in {"create", "revoke", "renew"} /\ cmd[p].on = w

\* Which command a terminal is given.  A new waiver takes a new id.
Offered(c) ==
    CASE c.op = "create"  -> /\ "govern" \in world
                             /\ waiver[c.on] = None
                             /\ \A p \in Terminals : ~Writes(p, c.on)
      [] c.op = "revoke"  -> "govern" \in world /\ waiver[c.on] # None
      [] c.op = "renew"   -> "govern" \in world /\ waiver[c.on] # None
      [] c.op = "approve" -> "approve" \in world /\ waiver[c.on] # None
      [] c.op = "verify"  -> "verify" \in world /\ (c.flags = {} \/ "options" \in world)

FirstStep(op) ==
    CASE op = "create" -> "write"
      [] op = "verify" -> "collect"
      [] OTHER -> "read"

Begin(p, c) ==
    /\ pc[p] = "idle"
    /\ "two" \in world \/ \A q \in Terminals : pc[q] = "idle"
    /\ commands < MaxCommands[world]
    /\ Offered(c)
    /\ commands' = commands + 1
    /\ cmd' = [cmd EXCEPT ![p] = c]
    /\ Goto(p, FirstStep(c.op))
    /\ UNCHANGED <<now, files, ledger, reading, held, run, past>>
-----------------------------------------------------------------------------
(* waiver create, revoke and renew; policy approval record                 *)

\* Mutant: renewing does not look at the status.
MayChangeAny(w) == waiver[w] # None

\* A waiver that does not exist or is revoked is neither renewed nor revoked.
MayChange(w) == waiver[w] # None /\ waiver[w].status # "revoked"

Read(p) ==
    /\ pc[p] = "read"
    /\ IF cmd[p].op = "approve" \/ MayChange(cmd[p].on)
       THEN /\ held' = [held EXCEPT ![p] = waiver[cmd[p].on]]
            /\ Goto(p, "write")
            /\ UNCHANGED <<cmd, run>>
       ELSE Exit(p)
    /\ UNCHANGED <<now, files, ledger, reading, commands, past>>

NewText(c, old) ==
    CASE c.op = "revoke" -> [old EXCEPT !.status = "revoked"]
      [] c.op = "renew"  -> [old EXCEPT !.status = "active", !.until = c.until]
      [] c.op = "create" -> [status |-> "active", until |-> c.until]

\* An approval is bound to the text its command has hashed.
NewApproval(p) ==
    [by |-> p, role |-> cmd[p].role, on |-> cmd[p].on, text |-> held[p],
     until |-> cmd[p].until]

Write(p) ==
    /\ pc[p] = "write"
    /\ IF cmd[p].op = "approve"
       THEN /\ approvals' = approvals \cup {NewApproval(p)}
            /\ UNCHANGED waiver
       ELSE /\ waiver' = [waiver EXCEPT ![cmd[p].on] = NewText(cmd[p], held[p])]
            /\ UNCHANGED approvals
    /\ Goto(p, "inspect")
    /\ UNCHANGED <<now, found, baseline, ledger, reading, cmd, held, run, commands, past>>

\* Mutant: the event describes the file that was read.
ToldOld(p) ==
    IF cmd[p].op = "approve" THEN NewApproval(p)
    ELSE Change(cmd[p].on, held[p])

\* What the command's event says.
Told(p) ==
    IF cmd[p].op = "approve" THEN NewApproval(p)
    ELSE Change(cmd[p].on, NewText(cmd[p], held[p]))

\* The file is written and the event will not be.
EndUnlogged(p) ==
    unlogged' = IF cmd[p].op = "approve" THEN unlogged ELSE unlogged \cup {cmd[p].on}

\* Mutant: the command appends to whatever ledger there is.
CheckNothing(p) ==
    /\ pc[p] = "inspect"
    /\ reading' = [reading EXCEPT ![p] = Len(ledger)]
    /\ Goto(p, "append")
    /\ UNCHANGED <<now, files, ledger, cmd, held, run, commands, past>>

CheckLedger(p) ==
    /\ pc[p] = "inspect"
    /\ IF Valid(ledger)
       THEN /\ Inspect(p)
            /\ Goto(p, "append")
            /\ UNCHANGED <<cmd, held, run, past>>
       ELSE /\ Exit(p)
            /\ EndUnlogged(p)
            /\ UNCHANGED <<ledger, reading, retired>>
    /\ UNCHANGED <<now, files, commands>>

Record(p) ==
    /\ pc[p] = "append"
    /\ AppendEvent(p, Told(p))
    /\ retired' = IF cmd[p].op = "revoke" THEN retired \cup {cmd[p].on} ELSE retired
    /\ unlogged' = IF cmd[p].op = "approve" THEN unlogged ELSE unlogged \ {cmd[p].on}
    /\ Exit(p)
    /\ UNCHANGED <<now, files, commands>>

RecordFails(p) ==
    /\ "append" \in world
    /\ pc[p] = "append"
    /\ GiveUp(p)
    /\ Exit(p)
    /\ EndUnlogged(p)
    /\ UNCHANGED <<now, files, commands, retired>>
-----------------------------------------------------------------------------
(* runFullVerify *)

Options(p) == cmd[p].flags

Collect(p) ==
    /\ pc[p] = "collect"
    /\ collected' = [collected EXCEPT ![p] = found]
    /\ blocking' = [blocking EXCEPT ![p] = found]
    /\ Goto(p, IF "write_baseline" \in Options(p) THEN "baseline" ELSE "waive")
    /\ UNCHANGED <<now, files, ledger, reading, cmd, held, used, flagged, commands, past>>

\* The baseline is written before anything is mitigated: waived issues are in it.
WriteBaseline(p) ==
    /\ pc[p] = "baseline"
    /\ baseline' = blocking[p]
    /\ Goto(p, "waive")
    /\ UNCHANGED <<now, found, waiver, approvals, ledger, reading, cmd, held, run,
                   commands, past>>

Active(w) ==
    /\ waiver[w] # None
    /\ waiver[w].status # "revoked"
    /\ now <= waiver[w].until

\* What waivers cover now.
Waived == UNION {Covers[w] : w \in {v \in Waivers : Active(v)}}

Waive(p) ==
    /\ pc[p] = "waive"
    /\ IF "no_waivers" \in Options(p)
       THEN UNCHANGED <<blocking, used>>
       ELSE /\ used' = [used EXCEPT ![p] = {w \in Waivers : Active(w)}]
            /\ blocking' = [blocking EXCEPT ![p] = @ \ Waived]
    /\ Goto(p, "ratchet")
    /\ UNCHANGED <<now, files, ledger, reading, cmd, held, collected, flagged,
                   commands, past>>

Baselined == IF baseline = None THEN {} ELSE baseline

\* Mutant: the baseline is applied whether or not it is asked for.
RatchetAlways(p) ==
    /\ pc[p] = "ratchet"
    /\ blocking' = [blocking EXCEPT ![p] = @ \ Baselined]
    /\ Goto(p, "policy")
    /\ UNCHANGED <<now, files, ledger, reading, cmd, held, collected, used, flagged,
                   commands, past>>

Ratchet(p) ==
    /\ pc[p] = "ratchet"
    /\ blocking' = [blocking EXCEPT ![p] =
           IF "use_baseline" \in Options(p) THEN @ \ Baselined ELSE @]
    /\ Goto(p, "policy")
    /\ UNCHANGED <<now, files, ledger, reading, cmd, held, collected, used, flagged,
                   commands, past>>

\* Mutant: the facts are taken before the waivers and the baseline.
MatchesWhatIsFound(p) == policy # "none" /\ collected[p] # {}

\* The policy has one fail_blocking rule: that there are issues, or that there
\* are blocking ones.  The facts are those of the mitigated result, in which an
\* accepted issue still is an issue and no longer blocks.
RuleMatches(p) ==
    \/ policy = "issues" /\ collected[p] # {}
    \/ policy = "blocking" /\ blocking[p] # {}

\* A policy that does not load, or names unknown facts, only adds issues that
\* do not block: it is policy "none".
ApplyPolicy(p) ==
    /\ pc[p] = "policy"
    /\ flagged' = [flagged EXCEPT ![p] = RuleMatches(p)]
    /\ Goto(p, "verdict")
    /\ UNCHANGED <<now, files, ledger, reading, cmd, held, collected, blocking, used,
                   commands, past>>

Blocks(p) == blocking[p] # {} \/ flagged[p]

\* Observe mode downgrades whatever still blocks, the policy's issue included.
Fails(p) == Blocks(p) /\ "observe" \notin Options(p)

Conclude(p) ==
    /\ pc[p] = "verdict"
    /\ Exit(p)
    /\ UNCHANGED <<now, files, ledger, reading, commands, past>>
-----------------------------------------------------------------------------
\* The process is killed; a write to the ledger may be cut short.
Crash(p) ==
    /\ "crash" \in world
    /\ pc[p] # "idle"
    /\ GiveUp(p) \/ (pc[p] = "append" /\ Tear(p))
    /\ IF pc[p] \in {"inspect", "append"} THEN EndUnlogged(p) ELSE UNCHANGED unlogged
    /\ Exit(p)
    /\ UNCHANGED <<now, files, commands, retired>>

Tick ==
    /\ now < MaxTime
    /\ now' = now + 1
    /\ UNCHANGED <<files, ledger, reading, pc, cmd, held, run, commands, past>>

\* Someone changes the working tree.
Edit ==
    /\ "edit" \in world
    /\ \E i \in Issues : found' = IF i \in found THEN found \ {i} ELSE found \cup {i}
    /\ UNCHANGED <<now, waiver, baseline, approvals, ledger, reading, pc, cmd, held,
                   run, commands, past>>

Govern(p) == Read(p) \/ Write(p) \/ CheckLedger(p) \/ Record(p) \/ RecordFails(p)

Verify(p) ==
    \/ Collect(p) \/ WriteBaseline(p)
    \/ Waive(p) \/ Ratchet(p) \/ ApplyPolicy(p)
    \/ Conclude(p)

Step ==
    \/ \E p \in Terminals :
           \/ \E c \in Commands : Begin(p, c)
           \/ Govern(p) \/ Verify(p) \/ Crash(p)
    \/ Tick
    \/ Edit

\* What the options of p's run accept at this moment.
Accepted(p) ==
    (IF "no_waivers" \in Options(p) THEN {} ELSE Waived)
        \cup (IF "use_baseline" \in Options(p) THEN Baselined ELSE {})

Next ==
    /\ Step
    /\ UNCHANGED <<world, policy>>
    /\ covered' = [p \in Terminals |->
           IF pc'[p] \notin InVerify THEN {}
           ELSE Accepted(p)' \cup (IF pc[p] \in InVerify THEN covered[p] ELSE {})]

Spec == Init /\ [][Next]_vars
-----------------------------------------------------------------------------
(* A verdict that lets blocking issues through without observe mode rests  *)
(* on each of them having been accepted, by a waiver that was neither      *)
(* revoked nor expired or by the baseline, at some time during the run:    *)
(* whatever other commands did to the files meanwhile.                     *)
PassIsAccepted ==
    \A p \in Terminals :
        pc[p] = "verdict" /\ ~Fails(p) /\ "observe" \notin Options(p)
            => collected[p] \subseteq covered[p]

(* A rule on the number of issues fails the verdict although each of them  *)
(* is accepted.  A rule on blocking issues does not: with one terminal, a  *)
(* run fails only if it has found an issue that nothing it may use accepts *)
(* at the time of the verdict.                                             *)
PolicyActsOnItsFact ==
    \A p \in Terminals : pc[p] = "verdict" =>
        /\ policy = "issues" /\ collected[p] # {} => Fails(p) \/ "observe" \in Options(p)
        /\ "two" \notin world /\ policy # "issues" /\ collected[p] \subseteq Accepted(p)
               => ~Fails(p)

(* With one terminal, a waiver whose revocation has returned counts in no  *)
(* later verdict, whatever was renewed, crashed or failed since.           *)
RevokedNeverPasses ==
    "two" \notin world => \A p \in Terminals : used[p] \cap retired = {}

\* The number of the last line that says something of the file of w.
Tellings(w) == {i \in 1..Len(ledger) : ledger[i].about # None /\ ledger[i].about.on = w
                                       /\ DOMAIN ledger[i].about = {"on", "text"}}
LastTold(w) ==
    IF Tellings(w) = {} THEN None
    ELSE ledger[CHOOSE i \in Tellings(w) : \A j \in Tellings(w) : j <= i].about.text

Busy(w) == \E p \in Terminals : Writes(p, w) /\ pc[p] \in {"inspect", "append"}

(* With one terminal the ledger tells the truth: its last event on a       *)
(* waiver is what the waiver file says, unless a command on that waiver    *)
(* is under way, or has failed or crashed between file and event.          *)
LedgerTells ==
    "two" \notin world =>
        \A w \in Waivers : Busy(w) \/ w \in unlogged \/ LastTold(w) = waiver[w]

\* Mutant: the hash of the subject is not compared.
CurrentAnyText(a) == now <= a.until

Current(a) == a.text = waiver[a.on] /\ now <= a.until

Enough(given) ==
    \/ \E a \in given : a.role = "owner"
    \/ Cardinality({a.by : a \in {b \in given : b.role = "reviewer"}}) >= RequiredReviewers

\* evaluateApprovalSubject
Satisfied(w) == Enough({a \in approvals : a.on = w /\ Current(a)})

\* The same, by the ledger alone.
Heard(w) ==
    {a \in {ledger[i].about : i \in 1..Len(ledger)} :
        a # None /\ a.on = w /\ "by" \in DOMAIN a /\ a.text = LastTold(w) /\ now <= a.until}

(* Where commands run one at a time and none fails, the approval posture   *)
(* of every waiver can be read off the ledger: an approval of an earlier   *)
(* text, or one that has expired, adds to no quorum, and none that counts  *)
(* is missing from the ledger.                                             *)
PostureIsAudited ==
    world \cap {"two", "crash", "append"} = {}
        /\ (\A p \in Terminals : pc[p] = "idle") =>
        \A w \in Waivers : waiver[w] # None => (Satisfied(w) <=> Enough(Heard(w)))
=============================================================================
