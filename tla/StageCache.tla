------------------------------ MODULE StageCache ------------------------------
(***************************************************************************)
(* The cache of stage and task results (tools/jispec/cache-manager.ts):    *)
(* two files per key, a manifest that says whether the entry is valid and  *)
(* the result itself, and in front of them two maps in memory.             *)
(*                                                                         *)
(* One action per await, so that other calls of the process run between    *)
(* any two of them and the process may die there.  A result is abstracted  *)
(* to the number of the put that stored it, a manifest to its status; how  *)
(* a key is computed is left out, and so are times to live, which no       *)
(* caller sets.                                                            *)
(***************************************************************************)
EXTENDS Naturals, Sequences

CONSTANTS
    Callers,    \* calls that may be under way at the same time
    Keys,       \* cache keys
    None,       \* no value, no file
    Torn,       \* a file that was opened for writing and is not written
    Worlds,     \* what may happen: one of these sets per behaviour
    MaxCalls    \* bound: calls in a behaviour of each world

\* Calls overlap; the process is killed; a write fails.
AllTrouble == {"overlap", "crash", "write"}

ASSUME CacheAssumption ==
    /\ Worlds \subseteq SUBSET AllTrouble
    /\ MaxCalls \in [Worlds -> Nat]
    /\ None \notin Nat /\ Torn \notin Nat \cup {None, "valid", "invalidated"}
    /\ None \notin {"valid", "invalidated"}

VARIABLES
    world,              \* chosen by the initial state, never changed
    manifests, results, \* the files
    manifestMemory, resultMemory,
    call,               \* the call each caller is in
    made,               \* the keys of the puts so far
    calls,              \* calls so far
    told,               \* the latest lookup and its answer
    loud,               \* history: callers whose latest call overlapped another
    revoked,            \* history: results invalidated by a call that ran alone
    disturbed,          \* history: keys whose last put was cut or overlapped
    hurt                \* history: keys of which a write was cut or failed

memory  == <<manifestMemory, resultMemory>>
files   == <<manifests, results>>
history == <<loud, revoked, disturbed, hurt>>
vars == <<world, files, memory, call, made, calls, told, history>>

Statuses == {"valid", "invalidated"}
Results  == 1..Len(made)
Listing  == {"sweep", "warmup", "prune"}

Idle == [op |-> "none", at |-> "idle", key |-> None, status |-> None, value |-> None,
         todo |-> {}, rest |-> {}, was |-> None]

Busy == {c \in Callers : call[c].at # "idle"}
Key(c) == call[c].key
At(c, step) == call[c].at = step
Goto(c, step) == call' = [call EXCEPT ![c].at = step]
Finish(c) == call' = [call EXCEPT ![c] = Idle]

Empty == [k \in Keys |-> None]

Init ==
    /\ world \in Worlds
    /\ manifests = Empty /\ results = Empty
    /\ manifestMemory = Empty /\ resultMemory = Empty
    /\ call = [c \in Callers |-> Idle]
    /\ made = <<>>
    /\ calls = 0
    /\ told = None
    /\ loud = {} /\ revoked = {} /\ disturbed = {} /\ hurt = {}

\* What a lookup by key k would find now.
View(k) ==
    LET status == IF manifestMemory[k] # None THEN manifestMemory[k] ELSE manifests[k]
    IN IF status # "valid" THEN None
       ELSE IF resultMemory[k] # None THEN resultMemory[k] ELSE results[k]
-----------------------------------------------------------------------------
(* The beginning of a call.                                                *)
Begin(c, new) ==
    /\ At(c, "idle")
    /\ calls < MaxCalls[world]
    /\ calls' = calls + 1
    /\ "overlap" \in world \/ Busy = {}
    /\ loud' = IF Busy = {} THEN loud \ {c} ELSE loud \cup Busy \cup {c}
    /\ call' = [call EXCEPT ![c] = new]
    /\ UNCHANGED <<world, files, memory, told, revoked, disturbed, hurt>>

\* get: a lookup before a stage or a task is executed.
Get(c, k) ==
    /\ Begin(c, [Idle EXCEPT !.op = "get", !.at = "seek", !.key = k])
    /\ UNCHANGED made

\* put: the manifest first, then the result of an execution.
Put(c, k) ==
    /\ made' = Append(made, k)
    /\ Begin(c, [Idle EXCEPT !.op = "put", !.at = "open", !.key = k, !.status = "valid",
                             !.value = Len(made'), !.was = View(k)])

Invalidate(c, k) ==
    /\ Begin(c, [Idle EXCEPT !.op = "invalidate", !.at = "seek", !.key = k])
    /\ UNCHANGED made

\* invalidateBySlice and invalidateByStage, warmupSlice and warmupStage, prune:
\* they list the manifests on disk and go through those they want.
Through(c, op, wanted) ==
    /\ Begin(c, [Idle EXCEPT !.op = op, !.at = "list", !.rest = wanted])
    /\ UNCHANGED made

Clear(c) ==
    /\ Begin(c, [Idle EXCEPT !.op = "clear", !.at = "clear"])
    /\ UNCHANGED made

Start(c) ==
    \/ \E k \in Keys : Get(c, k) \/ Put(c, k) \/ Invalidate(c, k)
    \/ \E wanted \in SUBSET Keys \ {{}} : Through(c, "sweep", wanted) \/ Through(c, "warmup", wanted)
    \/ Through(c, "prune", Keys)
    \/ Clear(c)

calm == <<world, made, calls, told>>
-----------------------------------------------------------------------------
(* listManifests: the names, then one file after the other.                *)
List(c) ==
    /\ At(c, "list")
    /\ LET names == {k \in Keys : manifests[k] # None} IN
       call' = [call EXCEPT ![c].at = "scan", ![c].todo = names, ![c].rest = @ \cap names]
    /\ UNCHANGED <<calm, files, memory, history>>

\* prune keeps the entries it finds valid.
Scan(c) ==
    /\ At(c, "scan")
    /\ \E k \in call[c].todo :
          /\ manifests[k] \in Statuses
          /\ call' = [call EXCEPT ![c].todo = @ \ {k},
                         ![c].rest = IF call[c].op = "prune" /\ manifests[k] = "valid"
                                     THEN @ \ {k} ELSE @]
    /\ UNCHANGED <<calm, files, memory, history>>

Listed(c) ==
    /\ At(c, "scan") /\ call[c].todo = {}
    /\ Goto(c, "next")
    /\ UNCHANGED <<calm, files, memory, history>>

NextKey(c) ==
    /\ At(c, "next")
    /\ IF call[c].rest = {} THEN Finish(c)
       ELSE \E k \in call[c].rest :
              call' = [call EXCEPT ![c].key = k, ![c].rest = @ \ {k},
                          ![c].at = IF call[c].op = "prune" THEN "unlink" ELSE "seek"]
    /\ UNCHANGED <<calm, files, memory, history>>
-----------------------------------------------------------------------------
(* getManifest: memory, then the file, if it is there.                     *)
Seek(c) ==
    /\ At(c, "seek")
    /\ call' = [call EXCEPT ![c].status = manifestMemory[Key(c)],
                   ![c].at = IF manifestMemory[Key(c)] = None THEN "ask" ELSE "decide"]
    /\ UNCHANGED <<calm, files, memory, history>>

\* Mutant: the file is read without asking whether it is there.
AskNothing(c) ==
    /\ At(c, "ask")
    /\ Goto(c, "readManifest")
    /\ UNCHANGED <<calm, files, memory, history>>

Ask(c) ==
    /\ At(c, "ask")
    /\ Goto(c, IF manifests[Key(c)] = None THEN "decide" ELSE "readManifest")
    /\ UNCHANGED <<calm, files, memory, history>>

ReadManifest(c) ==
    /\ At(c, "readManifest")
    /\ manifests[Key(c)] \in Statuses
    /\ manifestMemory' = [manifestMemory EXCEPT ![Key(c)] = manifests[Key(c)]]
    /\ call' = [call EXCEPT ![c].status = manifests[Key(c)], ![c].at = "decide"]
    /\ UNCHANGED <<calm, files, resultMemory, history>>

\* An invalidation that ran alone takes back every result put under the key.
Revoke(c, gone) ==
    /\ revoked' = IF c \in loud THEN revoked ELSE revoked \cup {n \in Results : made[n] \in gone}
    /\ disturbed' = IF c \in loud THEN disturbed ELSE disturbed \ gone
    /\ UNCHANGED <<loud, hurt>>

\* Mutant: an invalidation in memory alone.
FoundInMemory(c) ==
    /\ At(c, "decide")
    /\ call[c].status = "valid" \/ (call[c].status = "invalidated" /\ call[c].op \in {"invalidate", "sweep"})
    /\ call' = [call EXCEPT
                   ![c].status = IF call[c].op \in {"invalidate", "sweep"} THEN "invalidated" ELSE @,
                   ![c].at = CASE call[c].op = "warmup" -> "seekValue"
                               [] call[c].op \in {"invalidate", "sweep"} -> "remember"
                               [] OTHER -> "open"]
    /\ UNCHANGED <<calm, files, memory, history>>

\* What the caller does with the manifest.
Found(c) ==
    /\ At(c, "decide")
    /\ call[c].status = "valid" \/ (call[c].status = "invalidated" /\ call[c].op \in {"invalidate", "sweep"})
    /\ call' = [call EXCEPT
                   ![c].status = IF call[c].op \in {"invalidate", "sweep"} THEN "invalidated" ELSE @,
                   ![c].at = IF call[c].op = "warmup" THEN "seekValue" ELSE "open"]
    /\ UNCHANGED <<calm, files, memory, history>>

\* Nothing there, or an invalid entry: the lookup fails, and drops the entry
\* from memory.
Missed(c) ==
    /\ At(c, "decide")
    /\ call[c].status # "valid" /\ call[c].op \in {"get", "warmup"}
    /\ IF call[c].status = "invalidated" /\ call[c].op = "get"
       THEN /\ manifestMemory' = [manifestMemory EXCEPT ![Key(c)] = None]
            /\ resultMemory' = [resultMemory EXCEPT ![Key(c)] = None]
       ELSE UNCHANGED memory
    /\ Goto(c, IF call[c].op = "get" THEN "tell" ELSE "next")
    /\ UNCHANGED <<calm, files, history>>

NothingToInvalidate(c) ==
    /\ At(c, "decide")
    /\ call[c].status = None /\ call[c].op \in {"invalidate", "sweep"}
    /\ Revoke(c, {Key(c)})
    /\ Goto(c, "next")
    /\ UNCHANGED <<calm, files, memory>>
-----------------------------------------------------------------------------
(* storeManifest and storeValue: writeFile truncates, then writes; memory  *)
(* follows when the write is done.                                         *)

\* What a write leaves: nothing of a file that was removed meanwhile; over
\* what another call wrote since, perhaps a mixture of both.
Over(old, new) ==
    CASE old = None -> {None}
      [] old = Torn -> {new}
      [] OTHER -> {new, Torn}

Open(c) ==
    /\ At(c, "open")
    /\ manifests' = [manifests EXCEPT ![Key(c)] = Torn]
    /\ Goto(c, "write")
    /\ UNCHANGED <<calm, results, memory, history>>

Write(c) ==
    /\ At(c, "write")
    /\ \E new \in Over(manifests[Key(c)], call[c].status) :
           manifests' = [manifests EXCEPT ![Key(c)] = new]
    /\ Goto(c, "remember")
    /\ UNCHANGED <<calm, results, memory, history>>

Remember(c) ==
    /\ At(c, "remember")
    /\ manifestMemory' = [manifestMemory EXCEPT ![Key(c)] = call[c].status]
    /\ Goto(c, CASE call[c].op = "put" -> "openResult"
                 [] call[c].op = "get" -> "seekValue"
                 [] OTHER -> "drop")
    /\ UNCHANGED <<calm, files, resultMemory, history>>

\* An invalidation drops the result from memory; its file stays.
Drop(c) ==
    /\ At(c, "drop")
    /\ resultMemory' = [resultMemory EXCEPT ![Key(c)] = None]
    /\ Revoke(c, {Key(c)})
    /\ Goto(c, "next")
    /\ UNCHANGED <<calm, files, manifestMemory>>

OpenResult(c) ==
    /\ At(c, "openResult")
    /\ results' = [results EXCEPT ![Key(c)] = Torn]
    /\ Goto(c, "writeResult")
    /\ UNCHANGED <<calm, manifests, memory, history>>

WriteResult(c) ==
    /\ At(c, "writeResult")
    /\ \E new \in Over(results[Key(c)], call[c].value) :
           results' = [results EXCEPT ![Key(c)] = new]
    /\ Goto(c, "rememberResult")
    /\ UNCHANGED <<calm, manifests, memory, history>>

\* Mutant: a put that leaves the first level alone.
PutOnDisk(c) ==
    /\ At(c, "rememberResult")
    /\ disturbed' = IF c \in loud THEN disturbed \cup {Key(c)} ELSE disturbed \ {Key(c)}
    /\ Finish(c)
    /\ UNCHANGED <<calm, files, memory, loud, revoked, hurt>>

\* The put is done.
RememberResult(c) ==
    /\ At(c, "rememberResult")
    /\ resultMemory' = [resultMemory EXCEPT ![Key(c)] = call[c].value]
    /\ disturbed' = IF c \in loud THEN disturbed \cup {Key(c)} ELSE disturbed \ {Key(c)}
    /\ Finish(c)
    /\ UNCHANGED <<calm, files, manifestMemory, loud, revoked, hurt>>
-----------------------------------------------------------------------------
(* getStoredValue: memory, then the file.                                  *)
HaveValue(c, v) ==
    call' = [call EXCEPT ![c].value = IF call[c].op = "get" THEN v ELSE None,
                         ![c].at = IF call[c].op = "get" THEN "tell" ELSE "next"]

SeekValue(c) ==
    /\ At(c, "seekValue")
    /\ IF resultMemory[Key(c)] = None
       THEN Goto(c, "askValue")
       ELSE HaveValue(c, resultMemory[Key(c)])
    /\ UNCHANGED <<calm, files, memory, history>>

AskValue(c) ==
    /\ At(c, "askValue")
    /\ IF results[Key(c)] = None THEN HaveValue(c, None) ELSE Goto(c, "readResult")
    /\ UNCHANGED <<calm, files, memory, history>>

ReadResult(c) ==
    /\ At(c, "readResult")
    /\ results[Key(c)] \in Results
    /\ resultMemory' = [resultMemory EXCEPT ![Key(c)] = results[Key(c)]]
    /\ HaveValue(c, results[Key(c)])
    /\ UNCHANGED <<calm, files, manifestMemory, history>>

Tell(c) ==
    /\ At(c, "tell")
    /\ told' = [key |-> Key(c), value |-> call[c].value]
    /\ Finish(c)
    /\ UNCHANGED <<world, made, calls, files, memory, history>>
-----------------------------------------------------------------------------
(* prune and clear                                                         *)
Unlink(c) ==
    /\ At(c, "unlink")
    /\ manifests[Key(c)] # None
    /\ manifests' = [manifests EXCEPT ![Key(c)] = None]
    /\ Goto(c, "askResult")
    /\ UNCHANGED <<calm, results, memory, history>>

AskResult(c) ==
    /\ At(c, "askResult")
    /\ Goto(c, IF results[Key(c)] = None THEN "forget" ELSE "unlinkResult")
    /\ UNCHANGED <<calm, files, memory, history>>

UnlinkResult(c) ==
    /\ At(c, "unlinkResult")
    /\ results[Key(c)] # None
    /\ results' = [results EXCEPT ![Key(c)] = None]
    /\ Goto(c, "forget")
    /\ UNCHANGED <<calm, manifests, memory, history>>

Forget(c) ==
    /\ At(c, "forget")
    /\ manifestMemory' = [manifestMemory EXCEPT ![Key(c)] = None]
    /\ resultMemory' = [resultMemory EXCEPT ![Key(c)] = None]
    /\ Goto(c, "next")
    /\ UNCHANGED <<calm, files, history>>

\* The directory is removed file by file.
Remove(c) ==
    /\ At(c, "clear")
    /\ \E k \in Keys :
          \/ /\ manifests[k] # None
             /\ manifests' = [manifests EXCEPT ![k] = None]
             /\ UNCHANGED results
          \/ /\ results[k] # None
             /\ results' = [results EXCEPT ![k] = None]
             /\ UNCHANGED manifests
    /\ UNCHANGED <<calm, memory, call, history>>

Cleared(c) ==
    /\ At(c, "clear")
    /\ manifests = Empty /\ results = Empty
    /\ manifestMemory' = Empty /\ resultMemory' = Empty
    /\ Revoke(c, Keys)
    /\ Finish(c)
    /\ UNCHANGED <<calm, files>>
-----------------------------------------------------------------------------
(* What goes wrong                                                         *)

\* A put that ends early leaves a manifest without its result.
Broken(c) == IF call[c].op = "put" THEN {Key(c)} ELSE {}

\* A file that is gone or does not parse, a directory in which another call
\* creates files while it is removed: the call throws.
Throw(c) ==
    /\ \/ At(c, "scan") /\ \E k \in call[c].todo : manifests[k] \notin Statuses
       \/ At(c, "readManifest") /\ manifests[Key(c)] \notin Statuses
       \/ At(c, "readResult") /\ results[Key(c)] \notin Results
       \/ At(c, "unlink") /\ manifests[Key(c)] = None
       \/ At(c, "unlinkResult") /\ results[Key(c)] = None
       \/ At(c, "clear") /\ Busy # {c}
    /\ Goto(c, "thrown")
    /\ UNCHANGED <<calm, files, memory, history>>

WriteFails(c) ==
    /\ "write" \in world
    /\ call[c].at \in {"open", "write", "openResult", "writeResult"}
    /\ disturbed' = disturbed \cup Broken(c)
    /\ hurt' = hurt \cup {Key(c)}
    /\ Goto(c, "thrown")
    /\ UNCHANGED <<calm, files, memory, loud, revoked>>

Catch(c) ==
    /\ At(c, "thrown")
    /\ Finish(c)
    /\ UNCHANGED <<calm, files, memory, history>>

\* The process ends, or is killed in the middle of its calls; the next one
\* starts with nothing in memory.
Exit ==
    /\ Busy = {} \/ "crash" \in world
    /\ manifestMemory' = Empty /\ resultMemory' = Empty
    /\ call' = [c \in Callers |-> Idle]
    /\ disturbed' = disturbed \cup UNION {Broken(c) : c \in Busy}
    /\ hurt' = hurt \cup {Key(c) : c \in {d \in Busy : call[d].at \in {"write", "writeResult"}}}
    /\ UNCHANGED <<calm, files, loud, revoked>>

Lookup(c) == Seek(c) \/ Ask(c) \/ ReadManifest(c) \/ Found(c) \/ Missed(c) \/ NothingToInvalidate(c)

Fetch(c) == SeekValue(c) \/ AskValue(c) \/ ReadResult(c) \/ Tell(c)

Keep(c) ==
    \/ Open(c) \/ Write(c) \/ Remember(c) \/ Drop(c)
    \/ OpenResult(c) \/ WriteResult(c) \/ RememberResult(c)

Walk(c) == List(c) \/ Scan(c) \/ Listed(c) \/ NextKey(c)

Discard(c) ==
    \/ Unlink(c) \/ AskResult(c) \/ UnlinkResult(c) \/ Forget(c)
    \/ Remove(c) \/ Cleared(c)

Next ==
    \/ \E c \in Callers :
          \/ Start(c)
          \/ Walk(c) \/ Lookup(c) \/ Keep(c) \/ Fetch(c) \/ Discard(c)
          \/ Throw(c) \/ WriteFails(c) \/ Catch(c)
    \/ Exit

Spec == Init /\ [][Next]_vars
-----------------------------------------------------------------------------
Ops == Listing \cup {"none", "get", "put", "invalidate", "clear"}

Steps == {"idle", "list", "scan", "next", "seek", "ask", "readManifest", "decide",
          "open", "write", "remember", "drop", "openResult", "writeResult", "rememberResult",
          "seekValue", "askValue", "readResult", "tell",
          "unlink", "askResult", "unlinkResult", "forget", "clear", "thrown"}

Calls == [op : Ops, at : Steps, key : Keys \cup {None}, status : Statuses \cup {None},
          value : Results \cup {None}, todo : SUBSET Keys, rest : SUBSET Keys,
          was : Results \cup {None, Torn}]

\* Only files may be torn, and a result is the number of a put.
TypeOK ==
    /\ world \in Worlds
    /\ manifests \in [Keys -> Statuses \cup {None, Torn}]
    /\ results \in [Keys -> Results \cup {None, Torn}]
    /\ manifestMemory \in [Keys -> Statuses \cup {None}]
    /\ resultMemory \in [Keys -> Results \cup {None}]
    /\ call \in [Callers -> Calls]
    /\ made \in Seq(Keys) /\ calls \in Nat
    /\ told = None \/ told \in [key : Keys, value : Results \cup {None}]
    /\ loud \subseteq Callers /\ revoked \subseteq Results
    /\ disturbed \subseteq Keys /\ hurt \subseteq Keys

\* A put of k is under way.
Storing(k) == \E c \in Busy : call[c].op = "put" /\ Key(c) = k

(* A result that was invalidated, by a call no other call overlapped, is   *)
(* not served again, by this process or a later one, whatever lookups,     *)
(* warm-ups and prunings overlap, crash or fail in between: unless a new   *)
(* put of the key overlaps them, was cut short or failed, which leaves a   *)
(* valid manifest over the old result.                                     *)
RevokedIsGone ==
    \A c \in Callers : At(c, "tell") /\ call[c].value \in revoked =>
        Key(c) \in disturbed \/ Storing(Key(c))

(* When calls do not overlap, one throws only if a write of the key it is  *)
(* about was cut or failed; a call that goes through the directory, of any *)
(* key.                                                                    *)
OnlyCutsThrow ==
    "overlap" \notin world =>
        \A c \in Callers : At(c, "thrown") =>
            IF call[c].op \in Listing THEN hurt # {} ELSE Key(c) \in hurt

Calm == world = {}

Entry(k) ==
    IF ~Calm THEN None
    ELSE IF Storing(k)
         THEN call[CHOOSE c \in Busy : call[c].op = "put" /\ Key(c) = k].was
         ELSE View(k)

Map == INSTANCE CacheMap WITH
           entries <- [k \in Keys |-> Entry(k)],
           stored <- IF ~Calm THEN 0
                     ELSE IF \E k \in Keys : Storing(k) THEN Len(made) - 1 ELSE Len(made),
           told <- IF Calm THEN told ELSE None

(* While calls neither overlap nor fail, two files and two maps per key,   *)
(* over any number of processes one after another, are one entry per key.  *)
ImplementsMap == Map!MSpec
=============================================================================
