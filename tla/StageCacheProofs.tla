---------------------------- MODULE StageCacheProofs ----------------------------
(***************************************************************************)
(* The stage cache for any keys, callers and worlds: what a lone           *)
(* invalidation took back stays gone, only writes cut short make a call    *)
(* throw when calls do not overlap, and undisturbed calls, each of many    *)
(* steps over four places, are steps of a map.                             *)
(***************************************************************************)
EXTENDS StageCache, TLAPS

-----------------------------------------------------------------------------
(* What a call is at each of its steps.                                    *)
Looking    == {"seek", "ask", "readManifest", "decide"}
Storage    == {"open", "write", "remember"}
Keeping    == {"openResult", "writeResult", "rememberResult"}
Fetching   == {"seekValue", "askValue", "readResult"}
Discarding == {"unlink", "askResult", "unlinkResult", "forget"}

Invalidating == {"invalidate", "sweep"}

Fits(op, at) ==
    \/ op = "none" /\ at = "idle"
    \/ op = "get" /\ at \in Looking \cup Storage \cup Fetching \cup {"tell"}
    \/ op = "put" /\ at \in Storage \cup Keeping
    \/ op \in Invalidating /\ at \in Looking \cup Storage \cup {"drop", "next"}
    \/ op = "warmup" /\ at \in Looking \cup Fetching \cup {"next"}
    \/ op = "prune" /\ at \in Discarding \cup {"next"}
    \/ op \in Listing /\ at \in {"list", "scan"}
    \/ op = "clear" /\ at = "clear"
    \/ op # "none" /\ at = "thrown"

Shaped(r) ==
    /\ Fits(r.op, r.at)
    /\ r.op \in {"get", "put", "invalidate"} => r.key \in Keys
    /\ r.at \in Looking \cup Storage \cup Fetching \cup Discarding \cup {"drop"} => r.key \in Keys
    /\ r.at = "ask" => r.status = None
    /\ r.at \in Storage \cup Fetching =>
           r.status = IF r.op \in Invalidating THEN "invalidated" ELSE "valid"
    /\ IF r.op = "put" THEN r.status = "valid" /\ r.value \in Results
       ELSE r.at # "tell" => r.value = None
    /\ r.value # None => made[r.value] = r.key

\* A result is kept under the key it was put under.
Filed ==
    \A k \in Keys : /\ results[k] \in Results => made[results[k]] = k
                    /\ resultMemory[k] \in Results => made[resultMemory[k]] = k

Typed == TypeOK /\ Filed /\ \A c \in Callers : Shaped(call[c])

Values == Results \cup {None}

LEMMA Constants ==
    /\ None \notin Nat /\ Torn \notin Nat /\ Torn # None /\ Torn \notin Statuses
    /\ None \notin Statuses /\ MaxCalls \in [Worlds -> Nat]
  BY CacheAssumption DEF Statuses

LEMMA ResultsAre ==
    ASSUME made \in Seq(Keys)
    PROVE  /\ Results \subseteq Nat \ {0} /\ Len(made) \in Nat
           /\ None \notin Results /\ Torn \notin Results
           /\ \A n \in Results : made[n] \in Keys
  BY Constants DEF Results

\* c's call goes on.
Moved(c, at, key, status, value, todo, rest) ==
    /\ call' \in [Callers -> Calls]
    /\ call'[c].at = at /\ call'[c].op = call[c].op /\ call'[c].key = key
    /\ call'[c].status = status /\ call'[c].value = value
    /\ call'[c].todo = todo /\ call'[c].rest = rest /\ call'[c].was = call[c].was
    /\ \A d \in Callers : d # c => call'[d] = call[d]

LEMMA MovedIs ==
    ASSUME TypeOK, NEW c \in Callers, NEW at \in Steps, NEW key \in Keys \cup {None},
           NEW status \in Statuses \cup {None}, NEW value \in Results \cup {None},
           NEW todo \in SUBSET Keys, NEW rest \in SUBSET Keys,
           call' = [call EXCEPT ![c] = [@ EXCEPT !.at = at, !.key = key, !.status = status,
                                           !.value = value, !.todo = todo, !.rest = rest]]
    PROVE  Moved(c, at, key, status, value, todo, rest)
<1>1. call[c] \in Calls /\ call \in [Callers -> Calls]
  BY DEF TypeOK
<1>2. PICK r : r = [call[c] EXCEPT !.at = at, !.key = key, !.status = status,
                                   !.value = value, !.todo = todo, !.rest = rest]
  OBVIOUS
<1>3. /\ r \in Calls
      /\ r.at = at /\ r.op = call[c].op /\ r.key = key /\ r.status = status /\ r.value = value
      /\ r.todo = todo /\ r.rest = rest /\ r.was = call[c].was
  BY <1>1, <1>2 DEF Calls
<1>4. call' = [call EXCEPT ![c] = r]
  BY <1>2
<1>5. call' \in [Callers -> Calls] /\ call'[c] = r /\ \A d \in Callers : d # c => call'[d] = call[d]
  BY <1>1, <1>3, <1>4
<1> QED
  BY <1>3, <1>5 DEF Moved

LEMMA CallIs ==
    ASSUME TypeOK, NEW c \in Callers
    PROVE  /\ Key(c) \in Keys \cup {None} /\ call[c].status \in Statuses \cup {None}
           /\ call[c].value \in Results \cup {None} /\ call[c].at \in Steps /\ call[c].op \in Ops
           /\ call[c].todo \in SUBSET Keys /\ call[c].rest \in SUBSET Keys
           /\ call[c] = [op |-> call[c].op, at |-> call[c].at, key |-> Key(c),
                          status |-> call[c].status, value |-> call[c].value,
                          todo |-> call[c].todo, rest |-> call[c].rest, was |-> call[c].was]
  BY DEF TypeOK, Calls, Key

LEMMA GotoIs ==
    ASSUME TypeOK, NEW c \in Callers, NEW step \in Steps, Goto(c, step)
    PROVE  Moved(c, step, Key(c), call[c].status, call[c].value, call[c].todo, call[c].rest)
<1>1. call[c] \in Calls
  BY DEF TypeOK
<1>2. call' = [call EXCEPT ![c] = [@ EXCEPT !.at = step, !.key = Key(c), !.status = call[c].status,
                   !.value = call[c].value, !.todo = call[c].todo, !.rest = call[c].rest]]
  <2>1. [call[c] EXCEPT !.at = step]
          = [call[c] EXCEPT !.at = step, !.key = Key(c), !.status = call[c].status,
                   !.value = call[c].value, !.todo = call[c].todo, !.rest = call[c].rest]
    BY <1>1 DEF Calls, Key
  <2> QED
    BY <2>1 DEF Goto
<1> QED
  BY <1>2, CallIs, MovedIs

LEMMA IdleCall ==
    /\ Idle \in Calls /\ Idle.op = "none" /\ Idle.at = "idle" /\ Idle.value = None
    /\ Idle.todo = {} /\ Idle.rest = {} /\ Idle.key = None
  BY DEF Idle, Calls, Ops, Steps

LEMMA IdleShaped == Shaped(Idle)
  BY IdleCall DEF Shaped, Fits, Looking, Storage, Fetching, Discarding

\* c's call ends.
LEMMA FinishIs ==
    ASSUME TypeOK, NEW c \in Callers, Finish(c)
    PROVE  /\ call' \in [Callers -> Calls] /\ call'[c] = Idle
           /\ \A d \in Callers : d # c => call'[d] = call[d]
  BY IdleCall DEF Finish, TypeOK

-----------------------------------------------------------------------------
(* Types.                                                                  *)

\* A step of c that stores no new result.
LEMMA TypedTurn ==
    ASSUME Typed, NEW c \in Callers, UNCHANGED <<world, made>>,
           call' \in [Callers -> Calls], Shaped(call'[c]),
           \A d \in Callers : d # c => call'[d] = call[d],
           manifests' \in [Keys -> Statuses \cup {None, Torn}],
           results' \in [Keys -> Results \cup {None, Torn}],
           manifestMemory' \in [Keys -> Statuses \cup {None}],
           resultMemory' \in [Keys -> Results \cup {None}],
           \A k \in Keys : /\ results'[k] \in Results => made[results'[k]] = k
                           /\ resultMemory'[k] \in Results => made[resultMemory'[k]] = k,
           calls' \in Nat, told' = None \/ told' \in [key : Keys, value : Results \cup {None}],
           loud' \subseteq Callers, revoked' \subseteq Results,
           disturbed' \subseteq Keys, hurt' \subseteq Keys
    PROVE  Typed'
<1>1. Results' = Results /\ Calls' = Calls
  BY DEF Results, Calls
<1>2. \A r : Shaped(r)' = Shaped(r)
  BY <1>1 DEF Shaped
<1>3. \A d \in Callers : Shaped(call'[d])
  BY DEF Typed
<1>4. TypeOK'
  BY <1>1 DEF Typed, TypeOK
<1>5. Filed'
  BY <1>1 DEF Filed
<1>6. \A d \in Callers : Shaped(call[d])'
  BY <1>1, <1>3 DEF Shaped
<1> QED
  BY <1>4, <1>5, <1>6 DEF Typed

LEMMA TypedInit == Init => Typed
<1> SUFFICES ASSUME Init PROVE Typed
  OBVIOUS
<1>1. made = <<>> /\ Results = {}
  BY DEF Init, Results
<1>2. Empty \in [Keys -> {None}]
  BY DEF Empty
<1>3. \A c \in Callers : call[c] = Idle
  BY DEF Init
<1>4. TypeOK
  BY <1>1, <1>2, IdleCall DEF Init, TypeOK
<1>5. Filed
  BY <1>1 DEF Filed
<1> QED
  BY <1>3, <1>4, <1>5, IdleShaped DEF Typed

\* A call starts.
LEMMA BeginIs ==
    ASSUME Typed, NEW c \in Callers, NEW new, Begin(c, new)
    PROVE  /\ call[c].at = "idle" /\ call[c].op = "none"
           /\ call' = [call EXCEPT ![c] = new]
           /\ loud' \subseteq Callers /\ calls' \in Nat
           /\ UNCHANGED <<world, manifests, results, manifestMemory, resultMemory, told, revoked,
                          disturbed, hurt>>
<1>1. Shaped(call[c]) /\ call[c].at = "idle"
  BY DEF Typed, Begin, At
<1>2. call[c].op = "none"
  BY <1>1 DEF Shaped, Fits, Looking, Storage, Keeping, Fetching, Discarding
<1> QED
  BY <1>1, <1>2 DEF Begin, Typed, TypeOK, files, memory, Busy

\* The calls that store nothing.
Readers(new) ==
    \/ \E k \in Keys, op \in {"get", "invalidate"} :
          new = [Idle EXCEPT !.op = op, !.at = "seek", !.key = k]
    \/ \E wanted \in SUBSET Keys, op \in Listing :
          new = [Idle EXCEPT !.op = op, !.at = "list", !.rest = wanted]
    \/ new = [Idle EXCEPT !.op = "clear", !.at = "clear"]

LEMMA ReadersAre ==
    ASSUME NEW new, Readers(new)
    PROVE  new \in Calls /\ Shaped(new) /\ new.op # "put" /\ new.op # "none"
           /\ new.at \in {"seek", "list", "clear"}
<1>1. ASSUME NEW k \in Keys, NEW op \in {"get", "invalidate"},
             new = [Idle EXCEPT !.op = op, !.at = "seek", !.key = k]
      PROVE  new \in Calls /\ Shaped(new) /\ new.op # "put" /\ new.op # "none" /\ new.at = "seek"
  BY <1>1 DEF Idle, Calls, Ops, Steps, Shaped, Fits, Looking, Storage, Fetching, Discarding,
              Invalidating
<1>2. ASSUME NEW wanted \in SUBSET Keys, NEW op \in Listing,
             new = [Idle EXCEPT !.op = op, !.at = "list", !.rest = wanted]
      PROVE  new \in Calls /\ Shaped(new) /\ new.op # "put" /\ new.op # "none" /\ new.at = "list"
  BY <1>2 DEF Idle, Calls, Ops, Steps, Shaped, Fits, Looking, Storage, Fetching, Discarding,
              Invalidating, Listing
<1>3. ASSUME new = [Idle EXCEPT !.op = "clear", !.at = "clear"]
      PROVE  new \in Calls /\ Shaped(new) /\ new.op # "put" /\ new.op # "none" /\ new.at = "clear"
  BY <1>3 DEF Idle, Calls, Ops, Steps, Shaped, Fits, Looking, Storage, Fetching, Discarding,
              Invalidating
<1> QED
  BY <1>1, <1>2, <1>3 DEF Readers

LEMMA StartsAre ==
    ASSUME NEW c \in Callers, Start(c)
    PROVE  \/ \E k \in Keys : Put(c, k)
           \/ \E new : Readers(new) /\ Begin(c, new) /\ UNCHANGED made
  BY DEF Start, Get, Invalidate, Through, Clear, Readers, Listing

LEMMA ViewIs ==
    ASSUME Typed, NEW k \in Keys
    PROVE  View(k) \in Results \cup {None, Torn}
  BY DEF Typed, TypeOK, View

LEMMA PutIs ==
    ASSUME Typed, NEW c \in Callers, NEW k \in Keys, Put(c, k)
    PROVE  /\ Typed'
           /\ made' = Append(made, k) /\ Len(made') = Len(made) + 1
           /\ call' \in [Callers -> Calls'] /\ \A d \in Callers : d # c => call'[d] = call[d]
           /\ call'[c].op = "put" /\ call'[c].at = "open" /\ call'[c].key = k
           /\ call'[c].value = Len(made') /\ call'[c].was = View(k)
<1>0. PICK new : new = [Idle EXCEPT !.op = "put", !.at = "open", !.key = k, !.status = "valid",
                                    !.value = Len(made'), !.was = View(k)]
  OBVIOUS
<1>1. made' = Append(made, k) /\ Begin(c, new)
  BY <1>0 DEF Put
<1>2. /\ Len(made') = Len(made) + 1 /\ made' \in Seq(Keys) /\ made'[Len(made')] = k
      /\ \A n \in 1..Len(made) : made'[n] = made[n]
      /\ Len(made) \in Nat
  BY <1>1 DEF Typed, TypeOK
<1>3. Results \subseteq Results' /\ Len(made') \in Results'
      /\ Results = 1..Len(made) /\ Results' = 1..Len(made')
  BY <1>2 DEF Results
<1>4. /\ new.op = "put" /\ new.at = "open" /\ new.key = k /\ new.status = "valid"
      /\ new.value = Len(made') /\ new.was = View(k)
  BY <1>0 DEF Idle
<1>5. View(k) \in (Results \cup {None, Torn})'
  BY <1>3, ViewIs
<1>6. new \in Calls'
  BY <1>0, <1>3, <1>5 DEF Calls, Idle, Ops, Steps, Statuses
<1>7. Shaped(new)'
  BY <1>2, <1>3, <1>4 DEF Shaped, Fits, Looking, Storage, Fetching, Discarding, Invalidating
<1>8. Calls \subseteq Calls'
  BY <1>3 DEF Calls
<1>9. /\ call' = [call EXCEPT ![c] = new] /\ loud' \subseteq Callers /\ calls' \in Nat
      /\ UNCHANGED <<world, manifests, results, manifestMemory, resultMemory, told, revoked,
                     disturbed, hurt>>
  BY <1>1, BeginIs
<1>10. /\ call' \in [Callers -> Calls'] /\ call'[c] = new
       /\ \A d \in Callers : d # c => call'[d] = call[d]
  BY <1>6, <1>8, <1>9 DEF Typed, TypeOK
<1>11. TypeOK'
  BY <1>2, <1>3, <1>9, <1>10 DEF Typed, TypeOK
<1>12. Filed'
  <2> SUFFICES ASSUME NEW j \in Keys
               PROVE  /\ results[j] \in Results' => made'[results[j]] = j
                      /\ resultMemory[j] \in Results' => made'[resultMemory[j]] = j
    BY <1>9 DEF Filed
  <2>1. results[j] \in Results \cup {None, Torn} /\ resultMemory[j] \in Results \cup {None}
    BY DEF Typed, TypeOK
  <2>2. None \notin Results' /\ Torn \notin Results'
    BY <1>3, Constants
  <2> QED
    BY <1>2, <1>3, <2>1, <2>2 DEF Typed, Filed
<1>13. ASSUME NEW d \in Callers, d # c PROVE Shaped(call[d])'
  <2>1. Shaped(call[d]) /\ call[d] \in Calls /\ call'[d] = call[d]
    BY <1>10, <1>13 DEF Typed, TypeOK
  <2>2. call[d].value # None => call[d].value \in Results
    BY <2>1 DEF Calls
  <2> QED
    BY <1>2, <1>3, <2>1, <2>2 DEF Shaped
<1> QED
  BY <1>1, <1>2, <1>4, <1>7, <1>10, <1>11, <1>12, <1>13 DEF Typed


LEMMA NextKeyIs ==
    ASSUME TypeOK, NEW c \in Callers, NextKey(c)
    PROVE  \/ call[c].rest = {} /\ Finish(c)
           \/ \E k \in call[c].rest :
                Moved(c, IF call[c].op = "prune" THEN "unlink" ELSE "seek", k, call[c].status,
                      call[c].value, call[c].todo, call[c].rest \ {k})
<1>0. call[c] \in Calls
  BY DEF TypeOK
<1>1. CASE call[c].rest = {}
  BY <1>1 DEF NextKey
<1>2. CASE call[c].rest # {}
  <2>1. PICK k \in call[c].rest :
            call' = [call EXCEPT ![c].key = k, ![c].rest = @ \ {k},
                        ![c].at = IF call[c].op = "prune" THEN "unlink" ELSE "seek"]
    BY <1>2 DEF NextKey
  <2>2. PICK at \in {"unlink", "seek"} : at = IF call[c].op = "prune" THEN "unlink" ELSE "seek"
    OBVIOUS
  <2>3. PICK rest \in SUBSET Keys : rest = call[c].rest \ {k}
    BY CallIs
  <2>4. call' = [call EXCEPT ![c].key = k, ![c].rest = rest, ![c].at = at]
    BY <2>1, <2>2, <2>3
  <2>5. [[[call[c] EXCEPT !.key = k] EXCEPT !.rest = rest] EXCEPT !.at = at]
          = [call[c] EXCEPT !.at = at, !.key = k, !.status = call[c].status,
                !.value = call[c].value, !.todo = call[c].todo, !.rest = rest]
    BY <1>0 DEF Calls
  <2>6. call' = [call EXCEPT ![c] = [@ EXCEPT !.at = at, !.key = k, !.status = call[c].status,
                    !.value = call[c].value, !.todo = call[c].todo, !.rest = rest]]
    BY <2>4, <2>5
  <2>7. k \in Keys /\ at \in Steps
    BY CallIs DEF Steps
  <2>8. Moved(c, at, k, call[c].status, call[c].value, call[c].todo, rest)
    BY <2>6, <2>7, CallIs, MovedIs
  <2> QED
    BY <2>2, <2>3, <2>8
<1> QED
  BY <1>1, <1>2

LEMMA ListIs ==
    ASSUME TypeOK, NEW c \in Callers, List(c)
    PROVE  Moved(c, "scan", Key(c), call[c].status, call[c].value,
                 {k \in Keys : manifests[k] # None},
                 call[c].rest \cap {k \in Keys : manifests[k] # None})
<1>0. call[c] \in Calls
  BY DEF TypeOK
<1>1. PICK todo \in SUBSET Keys : todo = {k \in Keys : manifests[k] # None}
  OBVIOUS
<1>2. PICK rest \in SUBSET Keys : rest = call[c].rest \cap todo
  BY CallIs
<1>3. call' = [call EXCEPT ![c].at = "scan", ![c].todo = todo, ![c].rest = rest]
  BY <1>1, <1>2 DEF List
<1>4. [[[call[c] EXCEPT !.at = "scan"] EXCEPT !.todo = todo] EXCEPT !.rest = rest]
        = [call[c] EXCEPT !.at = "scan", !.key = Key(c), !.status = call[c].status,
              !.value = call[c].value, !.todo = todo, !.rest = rest]
  BY <1>0 DEF Calls, Key
<1>5. call' = [call EXCEPT ![c] = [@ EXCEPT !.at = "scan", !.key = Key(c), !.status = call[c].status,
                  !.value = call[c].value, !.todo = todo, !.rest = rest]]
  BY <1>3, <1>4
<1>6. "scan" \in Steps
  BY DEF Steps
<1> QED
  BY <1>1, <1>2, <1>5, <1>6, CallIs, MovedIs

LEMMA ScanIs ==
    ASSUME TypeOK, NEW c \in Callers, Scan(c)
    PROVE  \E k \in call[c].todo :
             /\ manifests[k] \in Statuses
             /\ Moved(c, "scan", Key(c), call[c].status, call[c].value, call[c].todo \ {k},
                      IF call[c].op = "prune" /\ manifests[k] = "valid"
                      THEN call[c].rest \ {k} ELSE call[c].rest)
<1>0. call[c] \in Calls
  BY DEF TypeOK
<1>1. PICK k \in call[c].todo :
         /\ manifests[k] \in Statuses
         /\ call' = [call EXCEPT ![c].todo = @ \ {k},
                       ![c].rest = IF call[c].op = "prune" /\ manifests[k] = "valid"
                                   THEN @ \ {k} ELSE @]
  BY DEF Scan
<1>2. PICK todo \in SUBSET Keys : todo = call[c].todo \ {k}
  BY CallIs
<1>3. PICK rest \in SUBSET Keys :
         rest = IF call[c].op = "prune" /\ manifests[k] = "valid"
                THEN call[c].rest \ {k} ELSE call[c].rest
  BY CallIs
<1>4. call' = [call EXCEPT ![c].todo = todo, ![c].rest = rest]
  BY <1>1, <1>2, <1>3
<1>5. call[c].at = "scan" /\ "scan" \in Steps
  BY DEF Scan, At, Steps
<1>6. [[call[c] EXCEPT !.todo = todo] EXCEPT !.rest = rest]
        = [call[c] EXCEPT !.at = "scan", !.key = Key(c), !.status = call[c].status,
              !.value = call[c].value, !.todo = todo, !.rest = rest]
  BY <1>0, <1>5 DEF Calls, Key
<1>7. call' = [call EXCEPT ![c] = [@ EXCEPT !.at = "scan", !.key = Key(c), !.status = call[c].status,
                  !.value = call[c].value, !.todo = todo, !.rest = rest]]
  BY <1>4, <1>6
<1>8. Moved(c, "scan", Key(c), call[c].status, call[c].value, todo, rest)
  BY <1>5, <1>7, CallIs, MovedIs
<1> QED
  BY <1>1, <1>2, <1>3, <1>8

\* A lookup that learns the status of its entry.
LEMMA LookedIs ==
    ASSUME TypeOK, NEW c \in Callers, NEW status \in Statuses \cup {None}, NEW step \in Steps,
           call' = [call EXCEPT ![c].status = status, ![c].at = step]
    PROVE  Moved(c, step, Key(c), status, call[c].value, call[c].todo, call[c].rest)
<1>0. call[c] \in Calls
  BY DEF TypeOK
<1>1. [[call[c] EXCEPT !.status = status] EXCEPT !.at = step]
        = [call[c] EXCEPT !.at = step, !.key = Key(c), !.status = status,
              !.value = call[c].value, !.todo = call[c].todo, !.rest = call[c].rest]
  BY <1>0 DEF Calls, Key
<1>2. call' = [call EXCEPT ![c] = [@ EXCEPT !.at = step, !.key = Key(c), !.status = status,
                  !.value = call[c].value, !.todo = call[c].todo, !.rest = call[c].rest]]
  BY <1>1
<1> QED
  BY <1>2, CallIs, MovedIs

LEMMA SeekIs ==
    ASSUME Typed, NEW c \in Callers, Seek(c)
    PROVE  Moved(c, IF manifestMemory[Key(c)] = None THEN "ask" ELSE "decide", Key(c),
                 manifestMemory[Key(c)], call[c].value, call[c].todo, call[c].rest)
<1>1. Key(c) \in Keys
  BY DEF Seek, At, Typed, Shaped, Key, Looking
<1>2. PICK status \in Statuses \cup {None} : status = manifestMemory[Key(c)]
  BY <1>1 DEF Typed, TypeOK
<1>3. PICK step \in Steps : step = IF manifestMemory[Key(c)] = None THEN "ask" ELSE "decide"
  BY DEF Steps
<1>4. call' = [call EXCEPT ![c].status = status, ![c].at = step]
  BY <1>2, <1>3 DEF Seek
<1> QED
  BY <1>2, <1>3, <1>4, LookedIs DEF Typed

LEMMA ReadManifestIs ==
    ASSUME TypeOK, NEW c \in Callers, ReadManifest(c)
    PROVE  Moved(c, "decide", Key(c), manifests[Key(c)], call[c].value, call[c].todo, call[c].rest)
<1>1. PICK status \in Statuses \cup {None} : status = manifests[Key(c)]
  BY DEF ReadManifest
<1>2. call' = [call EXCEPT ![c].status = status, ![c].at = "decide"] /\ "decide" \in Steps
  BY <1>1 DEF ReadManifest, Steps
<1> QED
  BY <1>1, <1>2, LookedIs

LEMMA FoundIs ==
    ASSUME TypeOK, NEW c \in Callers, Found(c)
    PROVE  Moved(c, IF call[c].op = "warmup" THEN "seekValue" ELSE "open", Key(c),
                 IF call[c].op \in Invalidating THEN "invalidated" ELSE call[c].status,
                 call[c].value, call[c].todo, call[c].rest)
<1>1. PICK status \in Statuses \cup {None} :
          status = IF call[c].op \in Invalidating THEN "invalidated" ELSE call[c].status
  BY CallIs DEF Statuses
<1>2. PICK step \in Steps : step = IF call[c].op = "warmup" THEN "seekValue" ELSE "open"
  BY DEF Steps
<1>3. call' = [call EXCEPT ![c].status = status, ![c].at = step]
  BY <1>1, <1>2 DEF Found, Invalidating
<1> QED
  BY <1>1, <1>2, <1>3, LookedIs

LEMMA HaveValueIs ==
    ASSUME TypeOK, NEW c \in Callers, NEW v \in Results \cup {None}, HaveValue(c, v)
    PROVE  Moved(c, IF call[c].op = "get" THEN "tell" ELSE "next", Key(c), call[c].status,
                 IF call[c].op = "get" THEN v ELSE None, call[c].todo, call[c].rest)
<1>0. call[c] \in Calls
  BY DEF TypeOK
<1>1. PICK value \in Results \cup {None} : value = IF call[c].op = "get" THEN v ELSE None
  OBVIOUS
<1>2. PICK step \in Steps : step = IF call[c].op = "get" THEN "tell" ELSE "next"
  BY DEF Steps
<1>3. call' = [call EXCEPT ![c].value = value, ![c].at = step]
  BY <1>1, <1>2 DEF HaveValue
<1>4. [[call[c] EXCEPT !.value = value] EXCEPT !.at = step]
        = [call[c] EXCEPT !.at = step, !.key = Key(c), !.status = call[c].status,
              !.value = value, !.todo = call[c].todo, !.rest = call[c].rest]
  BY <1>0 DEF Calls, Key
<1>5. call' = [call EXCEPT ![c] = [@ EXCEPT !.at = step, !.key = Key(c), !.status = call[c].status,
                  !.value = value, !.todo = call[c].todo, !.rest = call[c].rest]]
  BY <1>3, <1>4
<1> QED
  BY <1>1, <1>2, <1>5, CallIs, MovedIs

\* The kinds of call that are at a step.
LEMMA OpAt ==
    ASSUME Typed, NEW c \in Callers
    PROVE  /\ call[c].at \in {"list", "scan"} => call[c].op \in Listing
           /\ At(c, "next") => call[c].op \in Invalidating \cup {"warmup", "prune"}
           /\ call[c].at \in Looking =>
                  call[c].op \in Invalidating \cup {"get", "warmup"} /\ Key(c) \in Keys
           /\ call[c].at \in Storage => call[c].op \in Invalidating \cup {"get", "put"} /\ Key(c) \in Keys
           /\ At(c, "drop") => call[c].op \in Invalidating /\ Key(c) \in Keys
           /\ call[c].at \in Keeping => call[c].op = "put" /\ Key(c) \in Keys
           /\ call[c].at \in Fetching => call[c].op \in {"get", "warmup"} /\ Key(c) \in Keys
           /\ At(c, "tell") => call[c].op = "get" /\ Key(c) \in Keys
           /\ call[c].at \in Discarding => call[c].op = "prune" /\ Key(c) \in Keys
           /\ At(c, "clear") => call[c].op = "clear"
           /\ ~At(c, "idle") => call[c].op # "none"
           /\ call[c].op = "put" => /\ Key(c) \in Keys /\ call[c].value \in Results
                                    /\ made[call[c].value] = Key(c)
<1>1. Shaped(call[c])
  BY DEF Typed
<1>2. Fits(call[c].op, call[c].at)
  BY <1>1 DEF Shaped
<1>3. call[c].op = "put" => /\ Key(c) \in Keys /\ call[c].value \in Results
                            /\ made[call[c].value] = Key(c)
  <2>1. None \notin Results
    BY ResultsAre DEF Typed, TypeOK
  <2> QED
    BY <1>1, <2>1 DEF Shaped, Key
<1>4. /\ call[c].at \in Looking \cup Storage \cup Fetching \cup Discarding \cup {"drop"} => Key(c) \in Keys
      /\ call[c].op \in {"get", "put"} => Key(c) \in Keys
  BY <1>1 DEF Shaped, Key
<1> QED
  BY <1>2, <1>3, <1>4
     DEF Fits, At, Looking, Storage, Keeping, Fetching, Discarding, Listing, Invalidating

\* What a call needs to be shaped for its next step.
LEMMA ShapedMoved ==
    ASSUME Typed, NEW c \in Callers, NEW at \in Steps, NEW key, NEW status, NEW value, NEW todo, NEW rest,
           Moved(c, at, key, status, value, todo, rest),
           Fits(call[c].op, at), key = Key(c) \/ key \in Keys,
           at \in Looking \cup Storage \cup Fetching \cup Discarding \cup {"drop"} => key \in Keys,
           at = "ask" => status = None,
           at \in Storage \cup Fetching =>
               status = IF call[c].op \in Invalidating THEN "invalidated" ELSE "valid",
           call[c].op = "put" => status = call[c].status /\ value = call[c].value /\ key = Key(c),
           call[c].op # "put" /\ at # "tell" => value = None,
           call[c].op # "put" /\ at = "tell" /\ value # None => made[value] = key
    PROVE  Shaped(call'[c])
<1>1. Shaped(call[c])
  BY DEF Typed
<1>2. /\ call'[c].at = at /\ call'[c].op = call[c].op /\ call'[c].key = key
      /\ call'[c].status = status /\ call'[c].value = value
  BY DEF Moved
<1>3. call[c].op \in {"get", "put", "invalidate"} => key \in Keys
  BY <1>1 DEF Shaped, Key
<1>4. call[c].op = "put" => status = "valid" /\ value \in Results /\ (value # None => made[value] = key)
  BY <1>1 DEF Shaped, Key
<1> QED
  BY <1>2, <1>3, <1>4 DEF Shaped

\* The same when the call keeps what it knows.
LEMMA ShapedGoto ==
    ASSUME Typed, NEW c \in Callers, NEW step \in Steps, Goto(c, step),
           Fits(call[c].op, step), ~At(c, "tell"),
           step \in Looking \cup Storage \cup Fetching \cup Discarding \cup {"drop"} => Key(c) \in Keys,
           step = "ask" => call[c].status = None,
           step \in Storage \cup Fetching =>
               call[c].status = IF call[c].op \in Invalidating THEN "invalidated" ELSE "valid"
    PROVE  Shaped(call'[c])
<1>1. Moved(c, step, Key(c), call[c].status, call[c].value, call[c].todo, call[c].rest)
  BY GotoIs DEF Typed
<1>2. call[c].op # "put" => call[c].value = None
  BY DEF Typed, Shaped, At
<1> QED
  BY <1>1, <1>2, ShapedMoved

LEMMA TypedWalk == ASSUME Typed, NEW c \in Callers, Walk(c) PROVE Typed'
<1>0. UNCHANGED <<calm, files, memory, history>> /\ TypeOK
  BY DEF Walk, List, Scan, Listed, NextKey, Typed
<1>1. call[c].op # "put" /\ call[c].value = None
  BY OpAt DEF Walk, List, Scan, Listed, NextKey, Typed, Shaped, At, Listing, Invalidating
<1>2. /\ call' \in [Callers -> Calls] /\ Shaped(call'[c])
      /\ \A d \in Callers : d # c => call'[d] = call[d]
  <2>1. CASE List(c) \/ Scan(c)
    <3>1. \E todo, rest : Moved(c, "scan", Key(c), call[c].status, call[c].value, todo, rest)
      BY <1>0, <2>1, ListIs, ScanIs
    <3>2. Fits(call[c].op, "scan") /\ "scan" \in Steps
      BY <2>1, OpAt DEF List, Scan, At, Fits, Steps
    <3>3. Shaped(call'[c])
      BY <1>1, <3>1, <3>2, ShapedMoved DEF Looking, Storage, Fetching, Discarding
    <3> QED
      BY <3>1, <3>3 DEF Moved
  <2>2. CASE Listed(c)
    <3>1. Goto(c, "next") /\ "next" \in Steps /\ ~At(c, "tell")
      BY <2>2 DEF Listed, Steps, At
    <3>2. Fits(call[c].op, "next")
      BY <2>2, OpAt DEF Listed, At, Fits, Listing, Invalidating
    <3>3. Shaped(call'[c])
      BY <3>1, <3>2, ShapedGoto DEF Looking, Storage, Fetching, Discarding
    <3> QED
      BY <1>0, <3>1, <3>3, GotoIs DEF Moved
  <2>3. CASE NextKey(c)
    <3>1. CASE Finish(c)
      BY <1>0, <3>1, FinishIs, IdleShaped
    <3>2. ASSUME NEW k \in call[c].rest,
                 Moved(c, IF call[c].op = "prune" THEN "unlink" ELSE "seek", k, call[c].status,
                       call[c].value, call[c].todo, call[c].rest \ {k})
          PROVE  Shaped(call'[c]) /\ call' \in [Callers -> Calls]
                 /\ \A d \in Callers : d # c => call'[d] = call[d]
      <4>1. PICK at \in {"unlink", "seek"} : at = IF call[c].op = "prune" THEN "unlink" ELSE "seek"
        OBVIOUS
      <4>2. PICK rest : rest = call[c].rest \ {k}
        OBVIOUS
      <4>3. Moved(c, at, k, call[c].status, call[c].value, call[c].todo, rest)
        BY <3>2, <4>1, <4>2
      <4>4. k \in Keys /\ at \in Steps
        BY <1>0, CallIs DEF Steps
      <4>5. Fits(call[c].op, at)
        BY <2>3, <4>1, OpAt DEF NextKey, At, Fits, Invalidating, Looking, Discarding
      <4>6. Shaped(call'[c])
        BY <1>1, <4>1, <4>3, <4>4, <4>5, ShapedMoved DEF Storage, Fetching
      <4> QED
        BY <4>3, <4>6 DEF Moved
    <3> QED
      BY <1>0, <2>3, <3>1, <3>2, NextKeyIs
  <2> QED
    BY <2>1, <2>2, <2>3 DEF Walk
<1> QED
  BY <1>0, <1>2, TypedTurn DEF calm, files, memory, history, Typed, TypeOK, Filed

LEMMA TypedLookup == ASSUME Typed, NEW c \in Callers, Lookup(c) PROVE Typed'
<1>0. /\ UNCHANGED <<calm, files>> /\ TypeOK /\ Key(c) \in Keys
      /\ call[c].at \in Looking /\ call[c].op \in Invalidating \cup {"get", "warmup"}
  <2>1. call[c].at \in Looking
    BY DEF Lookup, Seek, Ask, ReadManifest, Found, Missed, NothingToInvalidate, At, Looking
  <2>2. UNCHANGED <<calm, files>>
    BY DEF Lookup, Seek, Ask, ReadManifest, Found, Missed, NothingToInvalidate, files
  <2> QED
    BY <2>1, <2>2, OpAt DEF Typed
<1>1. call[c].op # "put" /\ call[c].value = None
  BY <1>0 DEF Typed, Shaped, Invalidating, Looking
<1>2. /\ call' \in [Callers -> Calls] /\ Shaped(call'[c])
      /\ \A d \in Callers : d # c => call'[d] = call[d]
  <2>1. CASE Seek(c)
    <3>1. PICK at \in {"ask", "decide"} : at = IF manifestMemory[Key(c)] = None THEN "ask" ELSE "decide"
      OBVIOUS
    <3>2. PICK status : status = manifestMemory[Key(c)]
      OBVIOUS
    <3>3. Moved(c, at, Key(c), status, call[c].value, call[c].todo, call[c].rest)
      BY <2>1, <3>1, <3>2, SeekIs
    <3>4. Fits(call[c].op, at) /\ at \in Steps
      BY <1>0, <3>1 DEF Fits, Looking, Steps
    <3>5. Shaped(call'[c])
      BY <1>0, <1>1, <3>1, <3>2, <3>3, <3>4, ShapedMoved DEF Storage, Fetching, Looking
    <3> QED
      BY <3>3, <3>5 DEF Moved
  <2>2. CASE Ask(c)
    <3>1. PICK at \in {"decide", "readManifest"} :
              at = IF manifests[Key(c)] = None THEN "decide" ELSE "readManifest"
      OBVIOUS
    <3>2. Goto(c, at) /\ at \in Steps /\ ~At(c, "tell")
      BY <2>2, <3>1 DEF Ask, Steps, At
    <3>3. Fits(call[c].op, at)
      BY <1>0, <3>1 DEF Fits, Looking
    <3>4. Shaped(call'[c])
      BY <1>0, <3>1, <3>2, <3>3, ShapedGoto DEF Storage, Fetching
    <3> QED
      BY <1>0, <3>2, <3>4, GotoIs DEF Moved
  <2>3. CASE ReadManifest(c)
    <3>1. Fits(call[c].op, "decide") /\ "decide" \in Steps
      BY <1>0 DEF Fits, Looking, Steps
    <3>2. Moved(c, "decide", Key(c), manifests[Key(c)], call[c].value, call[c].todo, call[c].rest)
      BY <1>0, <2>3, ReadManifestIs
    <3>3. Shaped(call'[c])
      BY <1>0, <1>1, <3>1, <3>2, ShapedMoved DEF Storage, Fetching, Looking
    <3> QED
      BY <3>2, <3>3 DEF Moved
  <2>4. CASE Found(c)
    <3>1. PICK at \in {"seekValue", "open"} : at = IF call[c].op = "warmup" THEN "seekValue" ELSE "open"
      OBVIOUS
    <3>2. PICK status : status = IF call[c].op \in Invalidating THEN "invalidated" ELSE call[c].status
      OBVIOUS
    <3>3. Moved(c, at, Key(c), status, call[c].value, call[c].todo, call[c].rest)
      BY <1>0, <2>4, <3>1, <3>2, FoundIs
    <3>4. Fits(call[c].op, at) /\ at \in Steps
      BY <1>0, <3>1 DEF Fits, Steps, Storage, Fetching
    <3>5. status = IF call[c].op \in Invalidating THEN "invalidated" ELSE "valid"
      BY <2>4, <3>2 DEF Found, Invalidating
    <3>6. Shaped(call'[c])
      BY <1>0, <1>1, <3>1, <3>3, <3>4, <3>5, ShapedMoved
    <3> QED
      BY <3>3, <3>6 DEF Moved
  <2>5. CASE Missed(c)
    <3>1. PICK at \in {"tell", "next"} : at = IF call[c].op = "get" THEN "tell" ELSE "next"
      OBVIOUS
    <3>2. Goto(c, at) /\ at \in Steps /\ ~At(c, "tell") /\ call[c].op \in {"get", "warmup"}
      BY <2>5, <3>1 DEF Missed, Steps, At
    <3>3. Fits(call[c].op, at)
      BY <3>1, <3>2 DEF Fits
    <3>4. Shaped(call'[c])
      BY <1>0, <3>1, <3>2, <3>3, ShapedGoto DEF Storage, Fetching
    <3> QED
      BY <1>0, <3>2, <3>4, GotoIs DEF Moved
  <2>6. CASE NothingToInvalidate(c)
    <3>1. Goto(c, "next") /\ "next" \in Steps /\ ~At(c, "tell") /\ call[c].op \in Invalidating
      BY <2>6 DEF NothingToInvalidate, Steps, At, Invalidating
    <3>2. Fits(call[c].op, "next")
      BY <3>1 DEF Fits
    <3>3. Shaped(call'[c])
      BY <1>0, <3>1, <3>2, ShapedGoto DEF Storage, Fetching
    <3> QED
      BY <1>0, <3>1, <3>3, GotoIs DEF Moved
  <2> QED
    BY <2>1, <2>2, <2>3, <2>4, <2>5, <2>6 DEF Lookup
<1>3. /\ manifestMemory' \in [Keys -> Statuses \cup {None}]
      /\ resultMemory' \in [Keys -> Results \cup {None}]
      /\ \A k \in Keys : resultMemory'[k] \in {resultMemory[k], None}
      /\ loud' = loud /\ hurt' = hurt /\ revoked' \subseteq Results /\ disturbed' \subseteq Keys
  <2>1. CASE Seek(c) \/ Ask(c) \/ Found(c)
    BY <2>1 DEF Seek, Ask, Found, memory, history, Typed, TypeOK
  <2>2. CASE ReadManifest(c)
    BY <1>0, <2>2 DEF ReadManifest, history, TypeOK
  <2>3. CASE Missed(c)
    BY <1>0, <2>3 DEF Missed, memory, history, TypeOK
  <2>4. CASE NothingToInvalidate(c)
    BY <1>0, <2>4 DEF NothingToInvalidate, Revoke, memory, TypeOK
  <2> QED
    BY <2>1, <2>2, <2>3, <2>4 DEF Lookup
<1>4. None \notin Results
  BY <1>0, ResultsAre DEF TypeOK
<1>5. \A k \in Keys : /\ results'[k] \in Results => made[results'[k]] = k
                      /\ resultMemory'[k] \in Results => made[resultMemory'[k]] = k
  BY <1>0, <1>3, <1>4 DEF Typed, Filed, files
<1> QED
  BY <1>0, <1>2, <1>3, <1>5, TypedTurn DEF calm, files, TypeOK

\* A write that finds its file empty writes it; one that finds none leaves none.
LEMMA OverIs ==
    ASSUME NEW old, NEW new, NEW left \in Over(old, new)
    PROVE  /\ left \in {new, None, Torn}
           /\ old = Torn => left = new
           /\ left = None /\ new # None => old = None
           /\ left = Torn /\ new # Torn => old \notin {None, Torn}
  BY Constants DEF Over

LEMMA TypedKeep == ASSUME Typed, NEW c \in Callers, Keep(c) PROVE Typed'
<1>0. UNCHANGED calm /\ TypeOK /\ Key(c) \in Keys /\ call[c].at \in Storage \cup Keeping \cup {"drop"}
  <2>1. call[c].at \in Storage \cup Keeping \cup {"drop"}
    BY DEF Keep, Open, Write, Remember, Drop, OpenResult, WriteResult, RememberResult, At, Storage,
           Keeping
  <2>2. UNCHANGED calm
    BY DEF Keep, Open, Write, Remember, Drop, OpenResult, WriteResult, RememberResult
  <2> QED
    BY <2>1, <2>2, OpAt DEF Typed, Storage, Keeping, At
<1>1. /\ call[c].at \in Storage => call[c].op \in Invalidating \cup {"get", "put"}
      /\ call[c].at \in Keeping => call[c].op = "put" /\ call[c].value \in Results
                                   /\ made[call[c].value] = Key(c)
      /\ At(c, "drop") => call[c].op \in Invalidating
      /\ call[c].status \in Statuses \cup {None}
  BY <1>0, OpAt, CallIs
<1>2. call[c].at \in Storage =>
          call[c].status = IF call[c].op \in Invalidating THEN "invalidated" ELSE "valid"
  BY DEF Typed, Shaped
<1>3. /\ call' \in [Callers -> Calls] /\ Shaped(call'[c])
      /\ \A d \in Callers : d # c => call'[d] = call[d]
  <2>1. CASE RememberResult(c)
    BY <1>0, <2>1, FinishIs, IdleShaped DEF RememberResult
  <2>2. CASE Drop(c)
    <3>1. Goto(c, "next") /\ "next" \in Steps /\ ~At(c, "tell") /\ Fits(call[c].op, "next")
      BY <1>1, <2>2 DEF Drop, At, Steps, Fits
    <3>2. Shaped(call'[c])
      BY <3>1, ShapedGoto DEF Looking, Storage, Fetching, Discarding
    <3> QED
      BY <1>0, <3>1, <3>2, GotoIs DEF Moved
  <2>3. CASE Open(c) \/ Write(c)
    <3>1. PICK at \in {"write", "remember"} : Goto(c, at)
      BY <2>3 DEF Open, Write
    <3>2. at \in Steps /\ at \in Storage /\ ~At(c, "tell") /\ call[c].at \in Storage
      BY <2>3, <3>1 DEF Open, Write, At, Steps, Storage
    <3>3. Fits(call[c].op, at)
      BY <1>1, <3>2 DEF Fits
    <3>4. Shaped(call'[c])
      BY <1>0, <1>2, <3>1, <3>2, <3>3, ShapedGoto DEF Storage
    <3> QED
      BY <1>0, <3>1, <3>2, <3>4, GotoIs DEF Moved
  <2>4. CASE Remember(c)
    <3>1. PICK at \in {"openResult", "seekValue", "drop"} :
              /\ Goto(c, at)
              /\ call[c].op = "put" => at = "openResult"
              /\ call[c].op = "get" => at = "seekValue"
              /\ call[c].op \notin {"put", "get"} => at = "drop"
      BY <2>4 DEF Remember
    <3>2. at \in Steps /\ ~At(c, "tell") /\ call[c].at \in Storage
      BY <2>4, <3>1 DEF Remember, At, Steps, Storage
    <3>3. Fits(call[c].op, at)
      BY <1>1, <3>1, <3>2 DEF Fits, Keeping, Fetching
    <3>4. at \in Storage \cup Fetching => call[c].op = "get"
      BY <1>1, <3>1, <3>2 DEF Storage, Fetching
    <3>5. Shaped(call'[c])
      BY <1>0, <1>2, <3>1, <3>2, <3>3, <3>4, ShapedGoto
    <3> QED
      BY <1>0, <3>1, <3>2, <3>5, GotoIs DEF Moved
  <2>5. CASE OpenResult(c) \/ WriteResult(c)
    <3>1. PICK at \in {"writeResult", "rememberResult"} : Goto(c, at)
      BY <2>5 DEF OpenResult, WriteResult
    <3>2. at \in Steps /\ at \in Keeping /\ ~At(c, "tell") /\ call[c].at \in Keeping
      BY <2>5, <3>1 DEF OpenResult, WriteResult, At, Steps, Keeping
    <3>3. Fits(call[c].op, at)
      BY <1>1, <3>2 DEF Fits
    <3>4. Shaped(call'[c])
      BY <3>1, <3>2, <3>3, ShapedGoto DEF Looking, Storage, Fetching, Discarding
    <3> QED
      BY <1>0, <3>1, <3>2, <3>4, GotoIs DEF Moved
  <2> QED
    BY <2>1, <2>2, <2>3, <2>4, <2>5 DEF Keep
<1>4. None \notin Results /\ Torn \notin Results
  BY <1>0, ResultsAre DEF TypeOK
<1>5. /\ manifests' \in [Keys -> Statuses \cup {None, Torn}]
      /\ manifestMemory' \in [Keys -> Statuses \cup {None}]
  <2>1. CASE Open(c)
    BY <1>0, <2>1 DEF Open, memory, TypeOK
  <2>2. CASE Write(c)
    <3>1. PICK left : left \in Over(manifests[Key(c)], call[c].status)
                      /\ manifests' = [manifests EXCEPT ![Key(c)] = left]
      BY <2>2 DEF Write
    <3>2. left \in {call[c].status, None, Torn}
      BY <3>1 DEF Over
    <3> QED
      BY <1>0, <1>1, <2>2, <3>1, <3>2 DEF Write, memory, TypeOK
  <2>3. CASE Remember(c)
    BY <1>0, <1>1, <2>3 DEF Remember, files, TypeOK
  <2>4. CASE Drop(c)
    BY <1>0, <2>4 DEF Drop, files, TypeOK
  <2>5. CASE OpenResult(c) \/ WriteResult(c)
    BY <1>0, <2>5 DEF OpenResult, WriteResult, memory, TypeOK
  <2>6. CASE RememberResult(c)
    BY <1>0, <2>6 DEF RememberResult, files, TypeOK
  <2> QED
    BY <2>1, <2>2, <2>3, <2>4, <2>5, <2>6 DEF Keep
<1>6. /\ results' \in [Keys -> Results \cup {None, Torn}]
      /\ resultMemory' \in [Keys -> Results \cup {None}]
      /\ \A k \in Keys : /\ results'[k] \in {results[k], None, Torn}
                            \/ (k = Key(c) /\ results'[k] = call[c].value /\ call[c].at \in Keeping)
                         /\ resultMemory'[k] \in {resultMemory[k], None}
                            \/ (k = Key(c) /\ resultMemory'[k] = call[c].value /\ call[c].at \in Keeping)
  <2>1. CASE Open(c) \/ Write(c) \/ Remember(c)
    BY <1>0, <2>1 DEF Open, Write, Remember, files, memory, TypeOK
  <2>2. CASE Drop(c)
    BY <1>0, <2>2 DEF Drop, files, TypeOK
  <2>3. CASE OpenResult(c)
    BY <1>0, <2>3 DEF OpenResult, memory, TypeOK
  <2>4. CASE WriteResult(c)
    <3>0. call[c].at \in Keeping
      BY <2>4 DEF WriteResult, At, Keeping
    <3>1. PICK left : left \in Over(results[Key(c)], call[c].value)
                      /\ results' = [results EXCEPT ![Key(c)] = left]
      BY <2>4 DEF WriteResult
    <3>2. left \in {call[c].value, None, Torn}
      BY <3>1 DEF Over
    <3> QED
      BY <1>0, <1>1, <2>4, <3>0, <3>1, <3>2 DEF WriteResult, memory, TypeOK
  <2>5. CASE RememberResult(c)
    <3>0. call[c].at \in Keeping
      BY <2>5 DEF RememberResult, At, Keeping
    <3> QED
      BY <1>0, <1>1, <2>5, <3>0 DEF RememberResult, files, TypeOK
  <2> QED
    BY <2>1, <2>2, <2>3, <2>4, <2>5 DEF Keep
<1>7. \A k \in Keys : /\ results'[k] \in Results => made[results'[k]] = k
                      /\ resultMemory'[k] \in Results => made[resultMemory'[k]] = k
  BY <1>0, <1>1, <1>4, <1>6 DEF Typed, Filed
<1>8. loud' = loud /\ hurt' = hurt /\ revoked' \subseteq Results /\ disturbed' \subseteq Keys
  <2>1. CASE Drop(c)
    BY <1>0, <2>1 DEF Drop, Revoke, TypeOK
  <2>2. CASE RememberResult(c)
    BY <1>0, <2>2 DEF RememberResult, TypeOK
  <2>3. CASE Open(c) \/ Write(c) \/ Remember(c) \/ OpenResult(c) \/ WriteResult(c)
    BY <1>0, <2>3 DEF Open, Write, Remember, OpenResult, WriteResult, history, TypeOK
  <2> QED
    BY <2>1, <2>2, <2>3 DEF Keep
<1> QED
  BY <1>0, <1>3, <1>5, <1>6, <1>7, <1>8, TypedTurn DEF calm, TypeOK

LEMMA TypedFetch == ASSUME Typed, NEW c \in Callers, Fetch(c) PROVE Typed'
<1>0. /\ UNCHANGED <<world, made, calls, files, manifestMemory, history>> /\ TypeOK /\ Key(c) \in Keys
      /\ call[c].at \in Fetching \cup {"tell"}
  <2>1. call[c].at \in Fetching \cup {"tell"}
    BY DEF Fetch, SeekValue, AskValue, ReadResult, Tell, At, Fetching
  <2>2. UNCHANGED <<world, made, calls, files, manifestMemory, history>>
    BY DEF Fetch, SeekValue, AskValue, ReadResult, Tell, calm, memory
  <2> QED
    BY <2>1, <2>2, OpAt DEF Typed, At
<1>1. None \notin Results /\ Torn \notin Results
  BY <1>0, ResultsAre DEF TypeOK
<1>2. ASSUME NEW v \in Results \cup {None}, v # None => made[v] = Key(c), HaveValue(c, v),
             call[c].at \in Fetching
      PROVE  /\ call' \in [Callers -> Calls] /\ Shaped(call'[c])
             /\ \A d \in Callers : d # c => call'[d] = call[d]
  <2>1. PICK at \in {"tell", "next"} : at = IF call[c].op = "get" THEN "tell" ELSE "next"
    OBVIOUS
  <2>2. PICK value : value = IF call[c].op = "get" THEN v ELSE None
    OBVIOUS
  <2>3. Moved(c, at, Key(c), call[c].status, value, call[c].todo, call[c].rest)
    BY <1>0, <1>2, <2>1, <2>2, HaveValueIs
  <2>4. at \in Steps /\ call[c].op \in {"get", "warmup"} /\ Fits(call[c].op, at)
    BY <1>2, <2>1, OpAt DEF Steps, Fits
  <2>5. Shaped(call'[c])
    BY <1>0, <1>2, <2>1, <2>2, <2>3, <2>4, ShapedMoved DEF Looking, Storage, Fetching, Discarding
  <2> QED
    BY <2>3, <2>5 DEF Moved
<1>3. ASSUME NEW step \in {"askValue", "readResult"}, Goto(c, step), call[c].at \in Fetching
      PROVE  /\ call' \in [Callers -> Calls] /\ Shaped(call'[c])
             /\ \A d \in Callers : d # c => call'[d] = call[d]
  <2>1. step \in Steps /\ call[c].op \in {"get", "warmup"} /\ Fits(call[c].op, step)
    BY <1>3, OpAt DEF Steps, Fits, Fetching
  <2>2. call[c].status = "valid" /\ ~At(c, "tell")
    BY <1>3, <2>1 DEF Typed, Shaped, Invalidating, Fetching, At
  <2>3. Shaped(call'[c])
    BY <1>0, <1>3, <2>1, <2>2, ShapedGoto DEF Looking, Storage, Fetching, Discarding, Invalidating
  <2> QED
    BY <1>0, <1>3, <2>1, <2>3, GotoIs DEF Moved
<1>4. /\ call' \in [Callers -> Calls] /\ Shaped(call'[c])
      /\ \A d \in Callers : d # c => call'[d] = call[d]
  <2>1. CASE SeekValue(c)
    <3>1. call[c].at \in Fetching
      BY <2>1 DEF SeekValue, At, Fetching
    <3>2. CASE resultMemory[Key(c)] = None
      BY <1>3, <2>1, <3>1, <3>2 DEF SeekValue
    <3>3. CASE resultMemory[Key(c)] # None
      <4>1. resultMemory[Key(c)] \in Results /\ made[resultMemory[Key(c)]] = Key(c)
        BY <1>0, <3>3 DEF TypeOK, Typed, Filed
      <4> QED
        BY <1>2, <2>1, <3>1, <3>3, <4>1 DEF SeekValue
    <3> QED
      BY <3>2, <3>3
  <2>2. CASE AskValue(c)
    <3>1. call[c].at \in Fetching
      BY <2>2 DEF AskValue, At, Fetching
    <3> QED
      BY <1>2, <1>3, <2>2, <3>1 DEF AskValue
  <2>3. CASE ReadResult(c)
    <3>1. call[c].at \in Fetching
      BY <2>3 DEF ReadResult, At, Fetching
    <3>2. results[Key(c)] \in Results /\ made[results[Key(c)]] = Key(c) /\ HaveValue(c, results[Key(c)])
      BY <1>0, <2>3 DEF ReadResult, Typed, Filed
    <3> QED
      BY <1>2, <3>1, <3>2
  <2>4. CASE Tell(c)
    BY <1>0, <2>4, FinishIs, IdleShaped DEF Tell
  <2> QED
    BY <2>1, <2>2, <2>3, <2>4 DEF Fetch
<1>5. /\ resultMemory' \in [Keys -> Results \cup {None}]
      /\ \A k \in Keys : resultMemory'[k] \in {resultMemory[k], results[k]}
  <2>1. CASE ReadResult(c)
    BY <1>0, <2>1 DEF ReadResult, TypeOK
  <2>2. CASE SeekValue(c) \/ AskValue(c) \/ Tell(c)
    BY <1>0, <2>2 DEF SeekValue, AskValue, Tell, memory, TypeOK
  <2> QED
    BY <2>1, <2>2 DEF Fetch
<1>6. told' = None \/ told' \in [key : Keys, value : Results \cup {None}]
  <2>1. CASE Tell(c)
    BY <1>0, <2>1, CallIs DEF Tell
  <2>2. CASE ~Tell(c)
    BY <1>0, <2>2 DEF Fetch, SeekValue, AskValue, ReadResult, calm, TypeOK
  <2> QED
    BY <2>1, <2>2
<1>7. \A k \in Keys : /\ results'[k] \in Results => made[results'[k]] = k
                      /\ resultMemory'[k] \in Results => made[resultMemory'[k]] = k
  BY <1>0, <1>5 DEF Typed, Filed, files
<1> QED
  BY <1>0, <1>4, <1>5, <1>6, <1>7, TypedTurn DEF files, history, TypeOK

LEMMA EmptyIs == Empty \in [Keys -> {None}] /\ \A k \in Keys : Empty[k] = None
  BY DEF Empty

LEMMA TypedDiscard == ASSUME Typed, NEW c \in Callers, Discard(c) PROVE Typed'
<1>0. UNCHANGED calm /\ TypeOK /\ call[c].at \in Discarding \cup {"clear"}
  <2>1. call[c].at \in Discarding \cup {"clear"}
    BY DEF Discard, Unlink, AskResult, UnlinkResult, Forget, Remove, Cleared, At, Discarding
  <2>2. UNCHANGED calm
    BY DEF Discard, Unlink, AskResult, UnlinkResult, Forget, Remove, Cleared
  <2> QED
    BY <2>1, <2>2 DEF Typed
<1>1. None \notin Results /\ Torn \notin Results
  BY <1>0, ResultsAre DEF TypeOK
<1>2. /\ call' \in [Callers -> Calls] /\ Shaped(call'[c])
      /\ \A d \in Callers : d # c => call'[d] = call[d]
  <2>1. CASE Unlink(c) \/ AskResult(c) \/ UnlinkResult(c) \/ Forget(c)
    <3>1. call[c].at \in Discarding /\ call[c].op = "prune" /\ Key(c) \in Keys
      BY <2>1, OpAt DEF Unlink, AskResult, UnlinkResult, Forget, At, Discarding
    <3>2. PICK at \in {"askResult", "forget", "unlinkResult", "next"} : Goto(c, at)
      BY <2>1 DEF Unlink, AskResult, UnlinkResult, Forget
    <3>3. at \in Steps /\ Fits(call[c].op, at) /\ ~At(c, "tell")
      BY <3>1, <3>2 DEF Steps, Fits, Discarding, At
    <3>4. Shaped(call'[c])
      BY <3>1, <3>2, <3>3, ShapedGoto DEF Looking, Storage, Fetching, Discarding
    <3> QED
      BY <1>0, <3>2, <3>3, <3>4, GotoIs DEF Moved
  <2>2. CASE Remove(c)
    BY <1>0, <2>2 DEF Remove, Typed, TypeOK
  <2>3. CASE Cleared(c)
    BY <1>0, <2>3, FinishIs, IdleShaped DEF Cleared
  <2> QED
    BY <2>1, <2>2, <2>3 DEF Discard
<1>3. /\ manifests' \in [Keys -> Statuses \cup {None, Torn}]
      /\ results' \in [Keys -> Results \cup {None, Torn}]
      /\ manifestMemory' \in [Keys -> Statuses \cup {None}]
      /\ resultMemory' \in [Keys -> Results \cup {None}]
      /\ \A k \in Keys : results'[k] \in {results[k], None} /\ resultMemory'[k] \in {resultMemory[k], None}
  <2>1. CASE Unlink(c)
    BY <1>0, <2>1 DEF Unlink, memory, TypeOK
  <2>2. CASE AskResult(c)
    BY <1>0, <2>2 DEF AskResult, memory, files, TypeOK
  <2>3. CASE UnlinkResult(c)
    BY <1>0, <2>3 DEF UnlinkResult, memory, TypeOK
  <2>4. CASE Forget(c)
    BY <1>0, <2>4 DEF Forget, files, TypeOK
  <2>5. CASE Remove(c)
    BY <1>0, <2>5 DEF Remove, memory, TypeOK
  <2>6. CASE Cleared(c)
    BY <1>0, <2>6, EmptyIs DEF Cleared, files, TypeOK
  <2> QED
    BY <2>1, <2>2, <2>3, <2>4, <2>5, <2>6 DEF Discard
<1>4. loud' = loud /\ hurt' = hurt /\ revoked' \subseteq Results /\ disturbed' \subseteq Keys
  <2>1. CASE Cleared(c)
    BY <1>0, <2>1 DEF Cleared, Revoke, TypeOK
  <2>2. CASE ~Cleared(c)
    BY <1>0, <2>2 DEF Discard, Unlink, AskResult, UnlinkResult, Forget, Remove, history, TypeOK
  <2> QED
    BY <2>1, <2>2
<1>5. \A k \in Keys : /\ results'[k] \in Results => made[results'[k]] = k
                      /\ resultMemory'[k] \in Results => made[resultMemory'[k]] = k
  BY <1>1, <1>3 DEF Typed, Filed
<1> QED
  BY <1>0, <1>2, <1>3, <1>4, <1>5, TypedTurn DEF calm, TypeOK

LEMMA TroubleIs ==
    ASSUME Typed, NEW c \in Callers, Throw(c) \/ WriteFails(c) \/ Catch(c)
    PROVE  /\ UNCHANGED <<world, made, calls, told, manifests, results, manifestMemory, resultMemory,
                          loud, revoked>>
           /\ disturbed' = disturbed \/ (WriteFails(c) /\ disturbed' = disturbed \cup Broken(c))
           /\ hurt' = hurt \/ (WriteFails(c) /\ hurt' = hurt \cup {Key(c)})
           /\ ~At(c, "idle")
           /\ WriteFails(c) => Key(c) \in Keys
<1>1. WriteFails(c) => call[c].at \in Storage \cup Keeping
  BY DEF WriteFails, Storage, Keeping
<1> QED
  BY <1>1, OpAt DEF Throw, WriteFails, Catch, At, calm, files, memory, history

LEMMA TypedTrouble ==
    ASSUME Typed, NEW c \in Callers, Throw(c) \/ WriteFails(c) \/ Catch(c) PROVE Typed'
<1>0. TypeOK
  BY DEF Typed
<1>1. /\ call' \in [Callers -> Calls] /\ Shaped(call'[c])
      /\ \A d \in Callers : d # c => call'[d] = call[d]
  <2>1. CASE Throw(c) \/ WriteFails(c)
    <3>1. Goto(c, "thrown") /\ "thrown" \in Steps /\ ~At(c, "tell") /\ ~At(c, "idle")
      BY <2>1 DEF Throw, WriteFails, At, Steps
    <3>2. Fits(call[c].op, "thrown")
      BY <3>1, OpAt DEF Fits
    <3>3. Shaped(call'[c])
      BY <3>1, <3>2, ShapedGoto DEF Looking, Storage, Fetching, Discarding
    <3> QED
      BY <1>0, <3>1, <3>3, GotoIs DEF Moved
  <2>2. CASE Catch(c)
    BY <1>0, <2>2, FinishIs, IdleShaped DEF Catch
  <2> QED
    BY <2>1, <2>2
<1>2. disturbed' \subseteq Keys /\ hurt' \subseteq Keys
  BY <1>0, TroubleIs DEF TypeOK, Broken
<1> QED
  BY <1>0, <1>1, <1>2, TroubleIs, TypedTurn DEF TypeOK, Typed, Filed

LEMMA TypedExit == ASSUME Typed, Exit PROVE Typed'
<1>1. TypeOK /\ UNCHANGED <<world, made, calls, told, manifests, results, loud, revoked>>
      /\ manifestMemory' = Empty /\ resultMemory' = Empty /\ call' = [c \in Callers |-> Idle]
  BY DEF Exit, Typed, calm, files
<1>2. Results' = Results /\ Calls' = Calls /\ None \notin Results
  BY <1>1, ResultsAre DEF Results, Calls, TypeOK
<1>3. disturbed' \subseteq Keys
  <2>1. \A c \in Busy : Broken(c) \subseteq Keys
    BY OpAt DEF Broken, Busy
  <2> QED
    BY <1>1, <2>1 DEF Exit, TypeOK
<1>4. hurt' \subseteq Keys
  <2>1. \A c \in Busy : call[c].at \in {"write", "writeResult"} => Key(c) \in Keys
    BY OpAt DEF Busy, Storage, Keeping
  <2> QED
    BY <1>1, <2>1 DEF Exit, TypeOK
<1>5. TypeOK'
  BY <1>1, <1>2, <1>3, <1>4, EmptyIs, IdleCall DEF TypeOK
<1>6. Filed'
  BY <1>1, <1>2, EmptyIs DEF Typed, Filed
<1>7. \A c \in Callers : Shaped(call[c])'
  BY <1>1, <1>2, IdleShaped DEF Shaped
<1> QED
  BY <1>5, <1>6, <1>7 DEF Typed

LEMMA TypedStart == ASSUME Typed, NEW c \in Callers, Start(c) PROVE Typed'
<1>1. CASE \E k \in Keys : Put(c, k)
  BY <1>1, PutIs
<1>2. ASSUME NEW new, Readers(new), Begin(c, new), UNCHANGED made
      PROVE  Typed'
  <2>1. new \in Calls /\ Shaped(new)
    BY <1>2, ReadersAre
  <2>2. /\ call' \in [Callers -> Calls] /\ Shaped(call'[c])
        /\ \A d \in Callers : d # c => call'[d] = call[d]
    BY <1>2, <2>1, BeginIs DEF Typed, TypeOK
  <2> QED
    BY <1>2, <2>2, BeginIs, TypedTurn DEF Typed, TypeOK, Filed
<1> QED
  BY <1>1, <1>2, StartsAre

LEMMA TypedStep == Typed /\ [Next]_vars => Typed'
<1> SUFFICES ASSUME Typed, [Next]_vars PROVE Typed'
  OBVIOUS
<1>1. CASE UNCHANGED vars
  BY <1>1
     DEF vars, files, memory, history, Typed, TypeOK, Filed, Shaped, Calls, Results
<1>2. CASE Exit
  BY <1>2, TypedExit
<1>3. ASSUME NEW c \in Callers,
             \/ Start(c)
             \/ Walk(c) \/ Lookup(c) \/ Keep(c) \/ Fetch(c) \/ Discard(c)
             \/ Throw(c) \/ WriteFails(c) \/ Catch(c)
      PROVE  Typed'
  BY <1>3, TypedStart, TypedWalk, TypedLookup, TypedKeep, TypedFetch, TypedDiscard, TypedTrouble
<1> QED
  BY <1>1, <1>2, <1>3 DEF Next

LEMMA AlwaysTyped == Spec => []Typed
  BY TypedInit, TypedStep, PTL DEF Spec

(* What the cache keeps stays of its kind: a file may be torn, memory never *)
(* is, and a result is the number of a put.                                 *)
THEOREM CacheTypeCorrect == Spec => []TypeOK
<1>1. Typed => TypeOK
  BY DEF Typed
<1> QED
  BY <1>1, AlwaysTyped, PTL

-----------------------------------------------------------------------------
(* Company: who is under way with whom.                                    *)

\* A step of a call that is under way.
Goes(c) ==
    \/ Walk(c) \/ Lookup(c) \/ Keep(c) \/ Fetch(c) \/ Discard(c)
    \/ Throw(c) \/ WriteFails(c) \/ Catch(c)

LEMMA StepsAre ==
    ASSUME [Next]_vars
    PROVE  \/ \E c \in Callers : Start(c) \/ Goes(c)
           \/ Exit \/ UNCHANGED vars
  BY DEF Next, Goes

LEMMA GoesIs ==
    ASSUME Typed, NEW c \in Callers, Goes(c)
    PROVE  /\ ~At(c, "idle") /\ UNCHANGED <<world, made, calls, loud>>
           /\ \A d \in Callers : d # c => call'[d] = call[d]
<1>1. CASE Walk(c)
  <2>1. ~At(c, "idle") /\ UNCHANGED <<calm, history>>
    BY <1>1 DEF Walk, List, Scan, Listed, NextKey, At
  <2>2. \A d \in Callers : d # c => call'[d] = call[d]
    <3>0. TypeOK
      BY DEF Typed
    <3>1. CASE List(c)
      BY <3>0, <3>1, ListIs DEF Moved
    <3>2. CASE Scan(c)
      BY <3>0, <3>2, ScanIs DEF Moved
    <3>3. CASE Listed(c)
      BY <3>3 DEF Listed, Goto
    <3>4. CASE NextKey(c)
      BY <3>0, <3>4, NextKeyIs, FinishIs DEF Moved
    <3> QED
      BY <1>1, <3>1, <3>2, <3>3, <3>4 DEF Walk
  <2> QED
    BY <2>1, <2>2 DEF calm, history
<1>2. CASE Lookup(c)
  <2>1. ~At(c, "idle") /\ UNCHANGED calm /\ loud' = loud
    BY <1>2
       DEF Lookup, Seek, Ask, ReadManifest, Found, Missed, NothingToInvalidate, Revoke, At, history
  <2>2. \A d \in Callers : d # c => call'[d] = call[d]
    BY <1>2 DEF Lookup, Seek, Ask, ReadManifest, Found, Missed, NothingToInvalidate, Goto, Typed, TypeOK
  <2> QED
    BY <2>1, <2>2 DEF calm
<1>3. CASE Keep(c)
  <2>1. ~At(c, "idle") /\ UNCHANGED calm /\ loud' = loud
    BY <1>3 DEF Keep, Open, Write, Remember, Drop, OpenResult, WriteResult, RememberResult, Revoke, At,
                history
  <2>2. \A d \in Callers : d # c => call'[d] = call[d]
    BY <1>3 DEF Keep, Open, Write, Remember, Drop, OpenResult, WriteResult, RememberResult, Goto, Finish,
                Typed, TypeOK
  <2> QED
    BY <2>1, <2>2 DEF calm
<1>4. CASE Fetch(c)
  BY <1>4 DEF Fetch, SeekValue, AskValue, ReadResult, Tell, HaveValue, Goto, Finish, At, calm, history,
              Typed, TypeOK
<1>5. CASE Discard(c)
  <2>1. ~At(c, "idle") /\ UNCHANGED calm /\ loud' = loud
    BY <1>5 DEF Discard, Unlink, AskResult, UnlinkResult, Forget, Remove, Cleared, Revoke, At, history
  <2>2. \A d \in Callers : d # c => call'[d] = call[d]
    BY <1>5 DEF Discard, Unlink, AskResult, UnlinkResult, Forget, Remove, Cleared, Goto, Finish,
                Typed, TypeOK
  <2> QED
    BY <2>1, <2>2 DEF calm
<1>6. CASE Throw(c) \/ WriteFails(c) \/ Catch(c)
  <2>1. \A d \in Callers : d # c => call'[d] = call[d]
    BY <1>6 DEF Throw, WriteFails, Catch, Goto, Finish, Typed, TypeOK
  <2> QED
    BY <1>6, <2>1, TroubleIs
<1> QED
  BY <1>1, <1>2, <1>3, <1>4, <1>5, <1>6 DEF Goes

\* A call no other has overlapped so far.
Alone(c) == c \in Busy /\ c \notin loud

\* Such a call is the only one, and where calls do not overlap each is such.
Company ==
    /\ \A c \in Callers : Alone(c) => Busy = {c}
    /\ "overlap" \notin world => loud = {}

LEMMA BusyAfter ==
    ASSUME Typed, NEW c \in Callers, Goes(c)
    PROVE  c \in Busy /\ Busy' \subseteq Busy /\ \A d \in Callers : Alone(d)' => Alone(d)
  BY GoesIs DEF Busy, At, Alone

LEMMA StartLoud ==
    ASSUME Typed, NEW c \in Callers, Start(c)
    PROVE  /\ call[c].at = "idle" /\ Busy' = Busy \cup {c} /\ world' = world
           /\ \A d \in Callers : d # c => call'[d] = call[d]
           /\ call'[c].at \in {"open", "seek", "list", "clear"} /\ call'[c].op # "none"
           /\ \/ Busy = {} /\ loud' = loud \ {c}
              \/ "overlap" \in world /\ Busy # {} /\ loud' = loud \cup Busy \cup {c}
<1>1. PICK new : Begin(c, new)
  BY DEF Start, Get, Put, Invalidate, Through, Clear
<1>2. /\ call[c].at = "idle" /\ world' = world /\ call' = [call EXCEPT ![c] = new]
      /\ \/ Busy = {} /\ loud' = loud \ {c}
         \/ "overlap" \in world /\ Busy # {} /\ loud' = loud \cup Busy \cup {c}
  BY <1>1 DEF Begin, At
<1>3. call'[c].at \in {"open", "seek", "list", "clear"} /\ call'[c].op # "none"
  <2>1. CASE \E k \in Keys : Put(c, k)
    BY <2>1, PutIs
  <2>2. ASSUME NEW r, Readers(r), Begin(c, r)
        PROVE  call'[c].at \in {"seek", "list", "clear"} /\ call'[c].op # "none"
    BY <2>2, ReadersAre DEF Begin, Typed, TypeOK
  <2> QED
    BY <2>1, <2>2, StartsAre
<1>4. \A d \in Callers : d # c => call'[d] = call[d]
  BY <1>2 DEF Typed, TypeOK
<1>5. Busy' = Busy \cup {c}
  BY <1>2, <1>3, <1>4 DEF Busy
<1> QED
  BY <1>2, <1>3, <1>4, <1>5

LEMMA ExitIdle ==
    ASSUME Exit
    PROVE  Busy' = {} /\ UNCHANGED <<world, loud>>
  BY IdleCall DEF Exit, Busy, calm

LEMMA CompanyInit == Init => Company
  BY IdleCall DEF Init, Company, Alone, Busy

LEMMA CompanyStep == Typed /\ Company /\ [Next]_vars => Company'
<1> SUFFICES ASSUME Typed, Company, [Next]_vars PROVE Company'
  OBVIOUS
<1>1. CASE UNCHANGED vars
  BY <1>1 DEF vars, history, Company, Alone, Busy
<1>2. CASE Exit
  BY <1>2, ExitIdle DEF Company, Alone
<1>3. ASSUME NEW c \in Callers, Start(c) PROVE Company'
  <2>1. CASE Busy = {}
    BY <1>3, <2>1, StartLoud DEF Company, Alone
  <2>2. CASE Busy # {}
    BY <1>3, <2>2, StartLoud DEF Company, Alone
  <2> QED
    BY <2>1, <2>2
<1>4. ASSUME NEW c \in Callers, Goes(c) PROVE Company'
  <2>1. c \in Busy /\ Busy' \subseteq Busy /\ \A d \in Callers : Alone(d)' => Alone(d)
    BY <1>4, BusyAfter
  <2>2. UNCHANGED <<world, loud>>
    BY <1>4, GoesIs
  <2>3. ASSUME NEW d \in Callers, Alone(d)' PROVE Busy' = {d}
    <3>1. Busy = {d}
      BY <2>1, <2>3 DEF Company
    <3>2. d \in Busy'
      BY <2>3 DEF Alone
    <3> QED
      BY <2>1, <3>1, <3>2
  <2> QED
    BY <2>2, <2>3 DEF Company
<1> QED
  BY <1>1, <1>2, <1>3, <1>4, StepsAre

-----------------------------------------------------------------------------
(* What a lone call knows of the files and of the memory, at each step.    *)
LooksRight(c) ==
    /\ At(c, "ask") => manifestMemory[Key(c)] = None
    /\ At(c, "readManifest") => manifests[Key(c)] # None /\ manifestMemory[Key(c)] = None
    /\ At(c, "decide") => /\ manifestMemory[Key(c)] = call[c].status
                          /\ call[c].status = None => manifests[Key(c)] = None

StoresRight(c) ==
    /\ call[c].at \in Storage /\ call[c].op # "put" => manifestMemory[Key(c)] # None
    /\ call[c].at \in Storage /\ call[c].op = "get" => manifestMemory[Key(c)] = "valid"
    /\ At(c, "write") => manifests[Key(c)] = Torn
    /\ At(c, "remember") => manifests[Key(c)] = call[c].status
    /\ At(c, "drop") => manifests[Key(c)] = "invalidated" /\ manifestMemory[Key(c)] = "invalidated"
    /\ call[c].at \in Keeping => manifests[Key(c)] = "valid" /\ manifestMemory[Key(c)] = "valid"
    /\ At(c, "writeResult") => results[Key(c)] = Torn
    /\ At(c, "rememberResult") => results[Key(c)] = call[c].value
    /\ call[c].op = "put" => call[c].value = Len(made) /\ call[c].value \notin revoked

FetchesRight(c) ==
    /\ call[c].at \in Fetching => manifestMemory[Key(c)] = "valid"
    /\ call[c].at \in {"askValue", "readResult"} => resultMemory[Key(c)] = None
    /\ At(c, "readResult") => results[Key(c)] # None

WalksRight(c) ==
    /\ At(c, "scan") => \A k \in call[c].todo : manifests[k] # None
    /\ call[c].op = "prune" /\ ~At(c, "list") /\ ~At(c, "thrown") =>
           \A k \in call[c].rest : manifests[k] # None
    /\ call[c].at \in Discarding => Key(c) \notin call[c].rest
    /\ At(c, "unlink") => manifests[Key(c)] # None
    /\ At(c, "unlinkResult") => results[Key(c)] # None

SeesRight(c) == LooksRight(c) /\ StoresRight(c) /\ FetchesRight(c) /\ WalksRight(c)

Sees == \A c \in Callers : Alone(c) => SeesRight(c)

LEMMA StartSees ==
    ASSUME Typed, NEW c \in Callers, Start(c) PROVE SeesRight(c)'
<1>1. CASE \E k \in Keys : Put(c, k)
  <2>1. PICK k \in Keys : Put(c, k)
    BY <1>1
  <2>2. /\ call'[c].op = "put" /\ call'[c].at = "open" /\ call'[c].key = k
        /\ call'[c].value = Len(made') /\ Len(made') = Len(made) + 1
    BY <2>1, PutIs
  <2>3. revoked' = revoked /\ revoked \subseteq 1..Len(made) /\ Len(made) \in Nat
    BY <2>1 DEF Put, Begin, Typed, TypeOK, Results
  <2>4. Len(made') \notin revoked'
    BY <2>2, <2>3
  <2> QED
    BY <2>2, <2>4
       DEF SeesRight, LooksRight, StoresRight, FetchesRight, WalksRight, At, Key, Storage, Keeping, Fetching,
           Discarding
<1>2. ASSUME NEW new, Readers(new), Begin(c, new)
      PROVE  SeesRight(c)'
  <2>1. new.op # "put" /\ new.at \in {"seek", "list", "clear"} /\ Shaped(new) /\ new \in Calls
    BY <1>2, ReadersAre
  <2>2. call'[c] = new
    BY <1>2 DEF Begin, Typed, TypeOK
  <2>3. new.op = "prune" => new.at = "list"
    BY <2>1 DEF Shaped, Fits, Looking, Storage, Keeping, Fetching, Discarding, Invalidating
  <2> QED
    BY <2>1, <2>2, <2>3
       DEF SeesRight, LooksRight, StoresRight, FetchesRight, WalksRight, At, Key, Storage, Keeping, Fetching,
           Discarding
<1> QED
  BY <1>1, <1>2, StartsAre

LEMMA WalkSees ==
    ASSUME Typed, NEW c \in Callers, Walk(c), SeesRight(c) PROVE SeesRight(c)'
<1>0. TypeOK /\ UNCHANGED <<manifests, results, manifestMemory, resultMemory, made, revoked>>
  BY DEF Typed, Walk, List, Scan, Listed, NextKey, calm, files, memory, history
<1>1. call[c].op # "put"
  BY OpAt DEF Walk, List, Scan, Listed, NextKey, At, Listing, Invalidating
<1>2. CASE List(c)
  <2>1. /\ call'[c].at = "scan" /\ call'[c].op = call[c].op
        /\ call'[c].todo = {k \in Keys : manifests[k] # None}
        /\ call'[c].rest = call[c].rest \cap {k \in Keys : manifests[k] # None}
    BY <1>0, <1>2, ListIs DEF Moved
  <2> QED
    BY <1>0, <1>1, <2>1
       DEF SeesRight, LooksRight, StoresRight, FetchesRight, WalksRight, At, Storage, Keeping, Fetching,
           Discarding
<1>3. CASE Scan(c)
  <2>1. /\ call'[c].at = "scan" /\ call'[c].op = call[c].op /\ call[c].at = "scan"
        /\ call'[c].todo \subseteq call[c].todo /\ call'[c].rest \subseteq call[c].rest
    BY <1>0, <1>3, ScanIs DEF Moved, Scan, At
  <2> QED
    BY <1>0, <1>1, <2>1
       DEF SeesRight, LooksRight, StoresRight, FetchesRight, WalksRight, At, Storage, Keeping, Fetching,
           Discarding
<1>4. CASE Listed(c)
  <2>1. /\ call'[c].at = "next" /\ call'[c].op = call[c].op /\ call[c].at = "scan"
        /\ call'[c].rest = call[c].rest
    BY <1>0, <1>4, GotoIs DEF Listed, Moved, At, Steps
  <2> QED
    BY <1>0, <1>1, <2>1
       DEF SeesRight, LooksRight, StoresRight, FetchesRight, WalksRight, At, Storage, Keeping, Fetching,
           Discarding
<1>5. CASE NextKey(c)
  <2>1. CASE Finish(c)
    <3>1. call'[c] = Idle
      BY <1>0, <2>1, FinishIs
    <3> QED
      BY <3>1, IdleCall DEF SeesRight, LooksRight, StoresRight, FetchesRight, WalksRight, At, Storage,
                            Keeping, Fetching
  <2>2. ASSUME NEW k \in call[c].rest,
               Moved(c, IF call[c].op = "prune" THEN "unlink" ELSE "seek", k, call[c].status,
                     call[c].value, call[c].todo, call[c].rest \ {k})
        PROVE  SeesRight(c)'
    <3>1. /\ call'[c].at = IF call[c].op = "prune" THEN "unlink" ELSE "seek"
          /\ call'[c].op = call[c].op /\ call'[c].key = k /\ call'[c].rest = call[c].rest \ {k}
          /\ call[c].at = "next"
      BY <1>5, <2>2 DEF Moved, NextKey, At
    <3>2. call[c].op = "prune" => \A j \in call[c].rest : manifests[j] # None
      BY <3>1 DEF SeesRight, WalksRight, At
    <3> QED
      BY <1>0, <1>1, <2>2, <3>1, <3>2
         DEF SeesRight, LooksRight, StoresRight, FetchesRight, WalksRight, At, Key, Storage, Keeping,
             Fetching, Discarding
  <2> QED
    BY <1>0, <1>5, <2>1, <2>2, NextKeyIs
<1> QED
  BY <1>2, <1>3, <1>4, <1>5 DEF Walk

LEMMA LookupSees ==
    ASSUME Typed, NEW c \in Callers, Lookup(c), SeesRight(c) PROVE SeesRight(c)'
<1>0. TypeOK /\ UNCHANGED <<manifests, results, made>>
  BY DEF Typed, Lookup, Seek, Ask, ReadManifest, Found, Missed, NothingToInvalidate, calm, files
<1>1. call[c].op \in Invalidating \cup {"get", "warmup"} /\ Key(c) \in Keys
  BY OpAt DEF Lookup, Seek, Ask, ReadManifest, Found, Missed, NothingToInvalidate, At, Looking
<1> USE DEF SeesRight, LooksRight, StoresRight, FetchesRight, WalksRight, At, Key, Storage, Keeping,
            Fetching, Discarding, Invalidating
<1>2. CASE Seek(c)
  <2>1. /\ call'[c].at = IF manifestMemory[Key(c)] = None THEN "ask" ELSE "decide"
        /\ call'[c].op = call[c].op /\ call'[c].key = call[c].key
        /\ call'[c].status = manifestMemory[Key(c)]
    BY <1>2, SeekIs DEF Moved
  <2>2. manifestMemory' = manifestMemory
    BY <1>2 DEF Seek, memory
  <2> QED
    BY <1>0, <1>1, <2>1, <2>2
<1>3. CASE Ask(c)
  <2>1. /\ call'[c].at = IF manifests[Key(c)] = None THEN "decide" ELSE "readManifest"
        /\ call'[c].op = call[c].op /\ call'[c].key = call[c].key
        /\ call'[c].status = call[c].status
    <3>1. PICK at \in {"decide", "readManifest"} :
              at = IF manifests[Key(c)] = None THEN "decide" ELSE "readManifest"
      OBVIOUS
    <3>2. Goto(c, at) /\ at \in Steps
      BY <1>3, <3>1 DEF Ask, Steps
    <3> QED
      BY <1>0, <3>1, <3>2, GotoIs DEF Moved
  <2>2. manifestMemory' = manifestMemory /\ call[c].at = "ask"
    BY <1>3 DEF Ask, memory
  <2>3. call[c].status = None
    BY <2>2 DEF Typed, Shaped
  <2> QED
    BY <1>0, <1>1, <2>1, <2>2, <2>3
<1>4. CASE ReadManifest(c)
  <2>1. /\ call'[c].at = "decide" /\ call'[c].op = call[c].op /\ call'[c].key = call[c].key
        /\ call'[c].status = manifests[Key(c)]
    BY <1>0, <1>4, ReadManifestIs DEF Moved
  <2>2. manifestMemory'[Key(c)] = manifests[Key(c)] /\ manifests[Key(c)] # None
    BY <1>0, <1>1, <1>4, Constants DEF ReadManifest, TypeOK
  <2> QED
    BY <1>0, <1>1, <2>1, <2>2
<1>5. CASE Found(c)
  <2>1. /\ call'[c].at = IF call[c].op = "warmup" THEN "seekValue" ELSE "open"
        /\ call'[c].op = call[c].op /\ call'[c].key = call[c].key
    BY <1>0, <1>5, FoundIs DEF Moved
  <2>2. manifestMemory' = manifestMemory /\ call[c].at = "decide"
        /\ call[c].status \in Statuses
        /\ (call[c].op \in {"get", "warmup"} => call[c].status = "valid")
    BY <1>1, <1>5 DEF Found, memory, Statuses
  <2>3. call[c].status # None
    BY <2>2, Constants
  <2> QED
    BY <1>0, <1>1, <2>1, <2>2, <2>3
<1>6. CASE Missed(c)
  <2>1. call'[c].at \in {"tell", "next"} /\ call'[c].op = call[c].op
    <3>1. PICK at \in {"tell", "next"} : Goto(c, at)
      BY <1>6 DEF Missed
    <3>2. at \in Steps
      BY <3>1 DEF Steps
    <3> QED
      BY <1>0, <3>1, <3>2, GotoIs DEF Moved
  <2> QED
    BY <1>1, <2>1
<1>7. CASE NothingToInvalidate(c)
  <2>1. call'[c].at = "next" /\ call'[c].op = call[c].op
    BY <1>0, <1>7, GotoIs DEF NothingToInvalidate, Moved, Steps
  <2> QED
    BY <1>1, <2>1
<1> QED
  BY <1>2, <1>3, <1>4, <1>5, <1>6, <1>7 DEF Lookup

LEMMA KeepSees ==
    ASSUME Typed, NEW c \in Callers, Keep(c), SeesRight(c) PROVE SeesRight(c)'
<1>0. TypeOK /\ made' = made
  BY DEF Typed, Keep, Open, Write, Remember, Drop, OpenResult, WriteResult, RememberResult, calm
<1>1. call[c].at \in Storage \cup Keeping \cup {"drop"}
  BY DEF Keep, Open, Write, Remember, Drop, OpenResult, WriteResult, RememberResult, At, Storage, Keeping
<1>2. /\ Key(c) \in Keys
      /\ call[c].at \in Storage => call[c].op \in Invalidating \cup {"get", "put"}
      /\ call[c].at \in Keeping => call[c].op = "put"
      /\ At(c, "drop") => call[c].op \in Invalidating
      /\ call[c].at \in Storage => /\ call[c].status \in Statuses
                                   /\ call[c].status =
                                         IF call[c].op \in Invalidating THEN "invalidated" ELSE "valid"
      /\ call[c].op = "put" => call[c].value \in Results
  <2>1. Shaped(call[c])
    BY DEF Typed
  <2>2. call[c].at \in Storage =>
            call[c].status = IF call[c].op \in Invalidating THEN "invalidated" ELSE "valid"
    BY <2>1 DEF Shaped
  <2> QED
    BY <1>1, <2>2, OpAt DEF Keeping, Statuses, At
<1>3. None \notin Results /\ Torn \notin Results /\ Torn \notin Statuses
  BY <1>0, ResultsAre, Constants DEF TypeOK
<1> USE DEF SeesRight, LooksRight, StoresRight, FetchesRight, WalksRight, At, Key, Storage, Keeping,
            Fetching, Discarding, Invalidating
<1>4. ASSUME NEW step \in Steps, Goto(c, step)
      PROVE  /\ call'[c].at = step /\ call'[c].op = call[c].op /\ call'[c].key = call[c].key
             /\ call'[c].status = call[c].status /\ call'[c].value = call[c].value
  BY <1>0, <1>4, GotoIs DEF Moved
<1>5. CASE Open(c)
  <2>1. /\ call'[c].at = "write" /\ call'[c].op = call[c].op /\ call'[c].key = call[c].key
        /\ call'[c].status = call[c].status /\ call'[c].value = call[c].value
    BY <1>4, <1>5 DEF Open, Steps
  <2>2. manifests'[Key(c)] = Torn /\ manifestMemory' = manifestMemory /\ revoked' = revoked
        /\ call[c].at = "open"
    BY <1>0, <1>2, <1>5 DEF Open, TypeOK, memory, history
  <2> QED
    BY <1>0, <1>2, <2>1, <2>2
<1>6. CASE Write(c)
  <2>1. /\ call'[c].at = "remember" /\ call'[c].op = call[c].op /\ call'[c].key = call[c].key
        /\ call'[c].status = call[c].status /\ call'[c].value = call[c].value
    BY <1>4, <1>6 DEF Write, Steps
  <2>2. manifestMemory' = manifestMemory /\ revoked' = revoked /\ call[c].at = "write"
        /\ manifests[Key(c)] = Torn
    BY <1>6 DEF Write, memory, history
  <2>3. manifests'[Key(c)] = call[c].status
    <3>1. PICK left \in Over(manifests[Key(c)], call[c].status) :
              manifests' = [manifests EXCEPT ![Key(c)] = left]
      BY <1>6 DEF Write
    <3>2. left = call[c].status
      BY <2>2, <3>1, OverIs
    <3> QED
      BY <1>0, <1>2, <3>1, <3>2 DEF TypeOK
  <2> QED
    BY <1>0, <1>2, <2>1, <2>2, <2>3
<1>7. CASE Remember(c)
  <2>1. PICK at \in {"openResult", "seekValue", "drop"} :
              /\ Goto(c, at)
              /\ call[c].op = "put" => at = "openResult"
              /\ call[c].op = "get" => at = "seekValue"
              /\ call[c].op \notin {"put", "get"} => at = "drop"
    BY <1>7 DEF Remember
  <2>2. /\ call'[c].at = at /\ call'[c].op = call[c].op /\ call'[c].key = call[c].key
        /\ call'[c].status = call[c].status /\ call'[c].value = call[c].value
    BY <1>4, <2>1 DEF Steps
  <2>3. manifestMemory'[Key(c)] = call[c].status /\ manifests' = manifests /\ revoked' = revoked
        /\ call[c].at = "remember" /\ manifests[Key(c)] = call[c].status
    BY <1>0, <1>2, <1>7 DEF Remember, files, history, TypeOK
  <2> QED
    BY <1>0, <1>2, <2>1, <2>2, <2>3
<1>8. CASE Drop(c)
  <2>1. call'[c].at = "next" /\ call'[c].op = call[c].op /\ call[c].op \in Invalidating
    BY <1>2, <1>4, <1>8 DEF Drop, Steps
  <2> QED
    BY <2>1
<1>9. CASE OpenResult(c)
  <2>1. /\ call'[c].at = "writeResult" /\ call'[c].op = call[c].op /\ call'[c].key = call[c].key
        /\ call'[c].status = call[c].status /\ call'[c].value = call[c].value
    BY <1>4, <1>9 DEF OpenResult, Steps
  <2>2. results'[Key(c)] = Torn /\ manifestMemory' = manifestMemory /\ manifests' = manifests
        /\ revoked' = revoked /\ call[c].at = "openResult"
    BY <1>0, <1>2, <1>9 DEF OpenResult, TypeOK, memory, history
  <2> QED
    BY <1>0, <1>2, <2>1, <2>2
<1>10. CASE WriteResult(c)
  <2>1. /\ call'[c].at = "rememberResult" /\ call'[c].op = call[c].op /\ call'[c].key = call[c].key
        /\ call'[c].status = call[c].status /\ call'[c].value = call[c].value
    BY <1>4, <1>10 DEF WriteResult, Steps
  <2>2. manifestMemory' = manifestMemory /\ manifests' = manifests /\ revoked' = revoked
        /\ call[c].at = "writeResult" /\ results[Key(c)] = Torn
    BY <1>10 DEF WriteResult, memory, history
  <2>3. results'[Key(c)] = call[c].value
    <3>1. PICK left \in Over(results[Key(c)], call[c].value) :
              results' = [results EXCEPT ![Key(c)] = left]
      BY <1>10 DEF WriteResult
    <3>2. left = call[c].value
      BY <2>2, <3>1, OverIs
    <3> QED
      BY <1>0, <1>2, <3>1, <3>2 DEF TypeOK
  <2> QED
    BY <1>0, <1>2, <2>1, <2>2, <2>3
<1>11. CASE RememberResult(c)
  <2>1. call'[c] = Idle
    BY <1>0, <1>11, FinishIs DEF RememberResult
  <2> QED
    BY <2>1, IdleCall
<1> QED
  BY <1>5, <1>6, <1>7, <1>8, <1>9, <1>10, <1>11 DEF Keep

LEMMA FetchSees ==
    ASSUME Typed, NEW c \in Callers, Fetch(c), SeesRight(c) PROVE SeesRight(c)'
<1>0. TypeOK /\ UNCHANGED <<made, files, manifestMemory, history>>
  BY DEF Typed, Fetch, SeekValue, AskValue, ReadResult, Tell, calm, memory
<1> USE DEF SeesRight, LooksRight, StoresRight, FetchesRight, WalksRight, At, Key, Storage, Keeping,
            Fetching, Discarding
<1>1. ASSUME NEW v \in Results \cup {None}, HaveValue(c, v), call[c].at \in Fetching
      PROVE  SeesRight(c)'
  <2>1. call[c].op \in {"get", "warmup"}
    BY <1>1, OpAt
  <2>2. call'[c].at = (IF call[c].op = "get" THEN "tell" ELSE "next") /\ call'[c].op = call[c].op
    BY <1>0, <1>1, HaveValueIs DEF Moved
  <2> QED
    BY <2>1, <2>2
<1>2. CASE SeekValue(c)
  <2>1. call[c].at = "seekValue" /\ resultMemory' = resultMemory
    BY <1>2 DEF SeekValue, memory
  <2>2. Key(c) \in Keys /\ call[c].op \in {"get", "warmup"}
    BY <2>1, OpAt
  <2>3. CASE resultMemory[Key(c)] = None
    <3>1. call'[c].at = "askValue" /\ call'[c].op = call[c].op /\ call'[c].key = call[c].key
      BY <1>0, <1>2, <2>3, GotoIs DEF SeekValue, Moved, Steps
    <3> QED
      BY <1>0, <2>1, <2>2, <2>3, <3>1
  <2>4. CASE resultMemory[Key(c)] # None
    <3>1. resultMemory[Key(c)] \in Results \cup {None}
      BY <1>0, <2>2 DEF TypeOK
    <3> QED
      BY <1>1, <1>2, <2>1, <2>4, <3>1 DEF SeekValue
  <2> QED
    BY <2>3, <2>4
<1>3. CASE AskValue(c)
  <2>1. call[c].at = "askValue" /\ resultMemory' = resultMemory
    BY <1>3 DEF AskValue, memory
  <2>2. Key(c) \in Keys /\ call[c].op \in {"get", "warmup"}
    BY <2>1, OpAt
  <2>3. CASE results[Key(c)] = None
    BY <1>1, <1>3, <2>1, <2>3 DEF AskValue
  <2>4. CASE results[Key(c)] # None
    <3>1. call'[c].at = "readResult" /\ call'[c].op = call[c].op /\ call'[c].key = call[c].key
      BY <1>0, <1>3, <2>4, GotoIs DEF AskValue, Moved, Steps
    <3> QED
      BY <1>0, <2>1, <2>2, <2>4, <3>1 DEF files
  <2> QED
    BY <2>3, <2>4
<1>4. CASE ReadResult(c)
  BY <1>1, <1>4 DEF ReadResult
<1>5. CASE Tell(c)
  <2>1. call'[c] = Idle
    BY <1>0, <1>5, FinishIs DEF Tell
  <2> QED
    BY <2>1, IdleCall
<1> QED
  BY <1>2, <1>3, <1>4, <1>5 DEF Fetch

LEMMA DiscardSees ==
    ASSUME Typed, NEW c \in Callers, Discard(c), SeesRight(c) PROVE SeesRight(c)'
<1>0. TypeOK
  BY DEF Typed
<1> USE DEF SeesRight, LooksRight, StoresRight, FetchesRight, WalksRight, At, Key, Storage, Keeping,
            Fetching, Discarding
<1>1. ASSUME NEW step \in Steps, Goto(c, step)
      PROVE  /\ call'[c].at = step /\ call'[c].op = call[c].op /\ call'[c].key = call[c].key
             /\ call'[c].rest = call[c].rest
  BY <1>0, <1>1, GotoIs DEF Moved
<1>2. CASE Unlink(c)
  <2>1. call[c].at = "unlink" /\ call[c].op = "prune" /\ Key(c) \in Keys
    BY <1>2, OpAt DEF Unlink, Discarding
  <2>2. call'[c].at = "askResult" /\ call'[c].op = "prune" /\ call'[c].rest = call[c].rest
        /\ call'[c].key = call[c].key
    BY <1>1, <1>2, <2>1 DEF Unlink, Steps
  <2> QED
    BY <1>0, <1>2, <2>1, <2>2 DEF Unlink, TypeOK
<1>3. CASE AskResult(c)
  <2>1. call[c].at = "askResult" /\ call[c].op = "prune" /\ UNCHANGED files
    BY <1>3, OpAt DEF AskResult, Discarding
  <2>2. PICK at \in {"forget", "unlinkResult"} : Goto(c, at) /\ (results[Key(c)] = None <=> at = "forget")
    BY <1>3 DEF AskResult
  <2>3. call'[c].at = at /\ call'[c].op = "prune" /\ call'[c].rest = call[c].rest /\ call'[c].key = call[c].key
    BY <1>1, <2>1, <2>2 DEF Steps
  <2> QED
    BY <2>1, <2>2, <2>3 DEF files
<1>4. CASE UnlinkResult(c)
  <2>1. call[c].at = "unlinkResult" /\ call[c].op = "prune" /\ manifests' = manifests
    BY <1>4, OpAt DEF UnlinkResult, Discarding
  <2>2. call'[c].at = "forget" /\ call'[c].op = "prune" /\ call'[c].rest = call[c].rest
        /\ call'[c].key = call[c].key
    BY <1>1, <1>4, <2>1 DEF UnlinkResult, Steps
  <2> QED
    BY <2>1, <2>2
<1>5. CASE Forget(c)
  <2>1. call[c].at = "forget" /\ call[c].op = "prune" /\ UNCHANGED files
    BY <1>5, OpAt DEF Forget, Discarding
  <2>2. call'[c].at = "next" /\ call'[c].op = "prune" /\ call'[c].rest = call[c].rest
    BY <1>1, <1>5, <2>1 DEF Forget, Steps
  <2> QED
    BY <2>1, <2>2 DEF files
<1>6. CASE Remove(c)
  <2>1. call'[c] = call[c] /\ call[c].at = "clear" /\ call[c].op = "clear"
    BY <1>6, OpAt DEF Remove
  <2> QED
    BY <2>1
<1>7. CASE Cleared(c)
  <2>1. call'[c] = Idle
    BY <1>0, <1>7, FinishIs DEF Cleared
  <2> QED
    BY <2>1, IdleCall
<1> QED
  BY <1>2, <1>3, <1>4, <1>5, <1>6, <1>7 DEF Discard

LEMMA TroubleSees ==
    ASSUME Typed, NEW c \in Callers, Throw(c) \/ WriteFails(c) \/ Catch(c), SeesRight(c)
    PROVE  SeesRight(c)'
<1>0. TypeOK /\ made' = made /\ revoked' = revoked
  BY TroubleIs DEF Typed
<1>1. CASE Throw(c) \/ WriteFails(c)
  <2>1. call'[c].at = "thrown" /\ call'[c].op = call[c].op /\ call'[c].value = call[c].value
    BY <1>0, <1>1, GotoIs DEF Throw, WriteFails, Moved, Steps
  <2> QED
    BY <1>0, <2>1
       DEF SeesRight, LooksRight, StoresRight, FetchesRight, WalksRight, At, Storage, Keeping, Fetching,
           Discarding
<1>2. CASE Catch(c)
  <2>1. call'[c] = Idle
    BY <1>0, <1>2, FinishIs DEF Catch
  <2> QED
    BY <2>1, IdleCall
       DEF SeesRight, LooksRight, StoresRight, FetchesRight, WalksRight, At, Storage, Keeping, Fetching,
           Discarding
<1> QED
  BY <1>1, <1>2

LEMMA SeesInit == Init => Sees
  BY IdleCall DEF Init, Sees, Alone, Busy

LEMMA SeesStep == Typed /\ Company /\ Sees /\ [Next]_vars => Sees'
<1> SUFFICES ASSUME Typed, Company, Sees, [Next]_vars PROVE Sees'
  OBVIOUS
<1>1. CASE UNCHANGED vars
  BY <1>1 DEF vars, files, memory, history, Sees, Alone, Busy, SeesRight, LooksRight, StoresRight,
              FetchesRight, WalksRight, At, Key
<1>2. CASE Exit
  BY <1>2, ExitIdle DEF Sees, Alone
<1>3. ASSUME NEW c \in Callers, Start(c) PROVE Sees'
  <2> SUFFICES ASSUME NEW d \in Callers, Alone(d)' PROVE SeesRight(d)'
    BY DEF Sees
  <2>1. Busy' = Busy \cup {c} /\ (Busy = {} \/ loud' = loud \cup Busy \cup {c})
    BY <1>3, StartLoud
  <2>2. d = c
    BY <2>1 DEF Alone
  <2> QED
    BY <1>3, <2>2, StartSees
<1>4. ASSUME NEW c \in Callers, Goes(c) PROVE Sees'
  <2> SUFFICES ASSUME NEW d \in Callers, Alone(d)' PROVE SeesRight(d)'
    BY DEF Sees
  <2>1. c \in Busy /\ Alone(d)
    BY <1>4, BusyAfter
  <2>2. d = c
    BY <2>1 DEF Company
  <2>3. SeesRight(c)
    BY <2>1, <2>2 DEF Sees
  <2>4. SeesRight(c)'
    BY <1>4, <2>3, WalkSees, LookupSees, KeepSees, FetchSees, DiscardSees, TroubleSees DEF Goes
  <2> QED
    BY <2>2, <2>4
<1> QED
  BY <1>1, <1>2, <1>3, <1>4, StepsAre

-----------------------------------------------------------------------------
(* Where a step takes a call.                                              *)

\* c's call goes on, about the same key.
Advances(c) ==
    call'[c].op = call[c].op /\ call'[c].key = call[c].key /\ call'[c].at \notin {"idle", "thrown"}

LEMMA GotoAdvances ==
    ASSUME Typed, NEW c \in Callers, NEW step \in Steps \ {"idle", "thrown"}, Goto(c, step)
    PROVE  /\ Advances(c) /\ call'[c].at = step
           /\ call'[c].status = call[c].status /\ call'[c].value = call[c].value
  BY GotoIs DEF Typed, Moved, Advances, Key

LEMMA LookupAdvances ==
    ASSUME Typed, NEW c \in Callers, Lookup(c)
    PROVE  /\ Advances(c) /\ call'[c].value = call[c].value
           /\ Seek(c) => call'[c].status = manifestMemory[Key(c)]
           /\ Ask(c) => call'[c].status = call[c].status
           /\ ReadManifest(c) => call'[c].status = manifests[Key(c)]
           /\ Found(c) => call'[c].at \in {"seekValue", "open"}
           /\ Found(c) /\ call[c].op \notin Invalidating => call'[c].status = call[c].status
           /\ Missed(c) => call'[c].at \in {"tell", "next"}
           /\ NothingToInvalidate(c) => call'[c].at = "next"
<1> USE DEF Typed
<1>0. /\ Seek(c) => At(c, "seek")
      /\ Ask(c) => At(c, "ask")
      /\ ReadManifest(c) => At(c, "readManifest")
      /\ Found(c) \/ Missed(c) \/ NothingToInvalidate(c) => At(c, "decide")
      /\ Found(c) => call[c].status \in Statuses /\ (call[c].status = "valid" \/ call[c].op \in Invalidating)
      /\ Missed(c) => call[c].status # "valid" /\ call[c].op \in {"get", "warmup"}
      /\ NothingToInvalidate(c) => call[c].status = None
  BY DEF Seek, Ask, ReadManifest, Found, Missed, NothingToInvalidate, Invalidating, Statuses
<1>1. CASE Seek(c)
  <2>1. /\ call'[c].at = (IF manifestMemory[Key(c)] = None THEN "ask" ELSE "decide")
        /\ call'[c].op = call[c].op /\ call'[c].key = call[c].key
        /\ call'[c].status = manifestMemory[Key(c)] /\ call'[c].value = call[c].value
    BY <1>1, SeekIs DEF Moved, Key
  <2> QED
    BY <1>0, <1>1, <2>1 DEF Advances, At
<1>2. CASE Ask(c)
  <2>1. PICK at \in {"decide", "readManifest"} : Goto(c, at)
    BY <1>2 DEF Ask
  <2>2. at \in Steps \ {"idle", "thrown"}
    BY <2>1 DEF Steps
  <2> QED
    BY <1>0, <1>2, <2>1, <2>2, GotoAdvances DEF At
<1>3. CASE ReadManifest(c)
  <2>1. /\ call'[c].at = "decide" /\ call'[c].op = call[c].op /\ call'[c].key = call[c].key
        /\ call'[c].status = manifests[Key(c)] /\ call'[c].value = call[c].value
    BY <1>3, ReadManifestIs DEF Moved, Key
  <2> QED
    BY <1>0, <1>3, <2>1 DEF Advances, At
<1>4. CASE Found(c)
  <2>1. /\ call'[c].at = (IF call[c].op = "warmup" THEN "seekValue" ELSE "open")
        /\ call'[c].op = call[c].op /\ call'[c].key = call[c].key
        /\ call'[c].status = (IF call[c].op \in Invalidating THEN "invalidated" ELSE call[c].status)
        /\ call'[c].value = call[c].value
    BY <1>4, FoundIs DEF Moved, Key
  <2>2. ~Missed(c) /\ ~NothingToInvalidate(c)
    BY <1>0, <1>4, Constants DEF Statuses, Invalidating
  <2> QED
    BY <1>0, <1>4, <2>1, <2>2 DEF Advances, At
<1>5. CASE Missed(c)
  <2>1. PICK at \in {"tell", "next"} : Goto(c, at)
    BY <1>5 DEF Missed
  <2>2. at \in Steps \ {"idle", "thrown"}
    BY <2>1 DEF Steps
  <2>3. ~Found(c) /\ ~NothingToInvalidate(c)
    BY <1>0, <1>5 DEF Statuses, Invalidating, NothingToInvalidate
  <2> QED
    BY <1>0, <1>5, <2>1, <2>2, <2>3, GotoAdvances DEF At
<1>6. CASE NothingToInvalidate(c)
  <2>1. Goto(c, "next") /\ "next" \in Steps \ {"idle", "thrown"}
    BY <1>6 DEF NothingToInvalidate, Steps
  <2>2. ~Found(c) /\ ~Missed(c)
    BY <1>0, <1>6, Constants DEF Invalidating, NothingToInvalidate
  <2> QED
    BY <1>0, <1>6, <2>1, <2>2, GotoAdvances DEF At
<1> QED
  BY <1>1, <1>2, <1>3, <1>4, <1>5, <1>6 DEF Lookup

LEMMA KeepAdvances ==
    ASSUME Typed, NEW c \in Callers, Keep(c)
    PROVE  \/ RememberResult(c) /\ call'[c] = Idle
           \/ /\ Advances(c) /\ call'[c].status = call[c].status /\ call'[c].value = call[c].value
              /\ call'[c].at # "tell"
              /\ call'[c].at \in Storage \cup Fetching => call[c].at \in Storage
<1>1. CASE RememberResult(c)
  BY <1>1, FinishIs DEF RememberResult, Typed
<1>2. CASE Open(c) \/ Write(c) \/ Remember(c)
  <2>1. PICK at \in {"write", "remember", "openResult", "seekValue", "drop"} : Goto(c, at)
    BY <1>2 DEF Open, Write, Remember
  <2>2. at \in Steps \ {"idle", "thrown"} /\ call[c].at \in Storage
    BY <1>2, <2>1 DEF Steps, Open, Write, Remember, At, Storage
  <2> QED
    BY <2>1, <2>2, GotoAdvances
<1>3. CASE Drop(c) \/ OpenResult(c) \/ WriteResult(c)
  <2>1. PICK at \in {"next", "writeResult", "rememberResult"} : Goto(c, at)
    BY <1>3 DEF Drop, OpenResult, WriteResult
  <2>2. at \in Steps \ {"idle", "thrown"}
    BY <2>1 DEF Steps
  <2> QED
    BY <2>1, <2>2, GotoAdvances DEF Storage, Fetching
<1> QED
  BY <1>1, <1>2, <1>3 DEF Keep

LEMMA FetchAdvances ==
    ASSUME Typed, NEW c \in Callers, Fetch(c)
    PROVE  \/ Tell(c) /\ call'[c] = Idle
           \/ /\ Advances(c) /\ call[c].at \in Fetching /\ ~Tell(c)
              /\ call'[c].at \in Fetching => call'[c].status = call[c].status
              /\ call'[c].at \in {"tell"} =>
                     call'[c].value \in {None, resultMemory[Key(c)], results[Key(c)]}
              /\ call'[c].at \in {"askValue", "readResult", "tell", "next"}
<1>0. TypeOK
  BY DEF Typed
<1>1. ASSUME NEW v \in Results \cup {None}, HaveValue(c, v), call[c].at \in Fetching
      PROVE  Advances(c) /\ call'[c].at \in {"tell", "next"} /\ call'[c].value \in {None, v}
  BY <1>0, <1>1, HaveValueIs DEF Moved, Advances, Key
<1>2. ASSUME NEW step \in {"askValue", "readResult"}, Goto(c, step)
      PROVE  Advances(c) /\ call'[c].at = step /\ call'[c].status = call[c].status
  BY <1>2, GotoAdvances DEF Steps
<1>3. CASE SeekValue(c)
  <2>1. call[c].at = "seekValue" /\ call[c].at \in Fetching
    BY <1>3 DEF SeekValue, At, Fetching
  <2>2. Key(c) \in Keys
    BY <2>1, OpAt
  <2>3. resultMemory[Key(c)] \in Results \cup {None}
    BY <1>0, <2>2 DEF TypeOK
  <2>4. CASE resultMemory[Key(c)] = None
    BY <1>2, <1>3, <2>1, <2>4 DEF SeekValue, Tell, At
  <2>5. CASE resultMemory[Key(c)] # None
    BY <1>1, <1>3, <2>1, <2>3, <2>5 DEF SeekValue, Tell, At, Fetching
  <2> QED
    BY <2>4, <2>5
<1>4. CASE AskValue(c)
  <2>1. call[c].at = "askValue" /\ call[c].at \in Fetching
    BY <1>4 DEF AskValue, At, Fetching
  <2>2. CASE results[Key(c)] = None
    BY <1>1, <1>4, <2>1, <2>2 DEF AskValue, Tell, At, Fetching
  <2>3. CASE results[Key(c)] # None
    BY <1>2, <1>4, <2>1, <2>3 DEF AskValue, Tell, At
  <2> QED
    BY <2>2, <2>3
<1>5. CASE ReadResult(c)
  <2>1. call[c].at = "readResult" /\ call[c].at \in Fetching /\ HaveValue(c, results[Key(c)])
        /\ results[Key(c)] \in Results
    BY <1>5 DEF ReadResult, At, Fetching
  <2> QED
    BY <1>1, <2>1 DEF Tell, At, Fetching
<1>6. CASE Tell(c)
  BY <1>0, <1>6, FinishIs DEF Tell
<1> QED
  BY <1>3, <1>4, <1>5, <1>6 DEF Fetch

LEMMA DiscardAdvances ==
    ASSUME Typed, NEW c \in Callers, Discard(c)
    PROVE  /\ call[c].op \in {"prune", "clear"}
           /\ \/ Cleared(c) /\ call'[c] = Idle
              \/ Advances(c) /\ call'[c].at # "tell"
<1>1. CASE Unlink(c) \/ AskResult(c) \/ UnlinkResult(c) \/ Forget(c)
  <2>1. PICK at \in {"askResult", "forget", "unlinkResult", "next"} : Goto(c, at)
    BY <1>1 DEF Unlink, AskResult, UnlinkResult, Forget
  <2>2. at \in Steps \ {"idle", "thrown"}
    BY <2>1 DEF Steps
  <2>3. call[c].at \in Discarding
    BY <1>1 DEF Unlink, AskResult, UnlinkResult, Forget, At, Discarding
  <2> QED
    BY <2>1, <2>2, <2>3, OpAt, GotoAdvances
<1>2. CASE Remove(c) \/ Cleared(c)
  <2>1. At(c, "clear") /\ call[c].op = "clear"
    BY <1>2, OpAt DEF Remove, Cleared
  <2>2. CASE Remove(c)
    BY <2>1, <2>2 DEF Remove, Advances, At
  <2>3. CASE Cleared(c)
    BY <2>1, <2>3, FinishIs DEF Cleared, Typed
  <2> QED
    BY <1>2, <2>1, <2>2, <2>3
<1> QED
  BY <1>1, <1>2 DEF Discard

LEMMA WalkAdvances ==
    ASSUME Typed, NEW c \in Callers, Walk(c)
    PROVE  /\ call[c].op \in Listing \cup {"invalidate"}
           /\ \/ call'[c] = Idle
              \/ call'[c].op = call[c].op /\ call'[c].at \in {"scan", "next", "unlink", "seek"}
<1>0. TypeOK
  BY DEF Typed
<1>1. call[c].op \in Listing \cup {"invalidate"}
  BY OpAt DEF Walk, List, Scan, Listed, NextKey, At, Listing, Invalidating
<1>2. CASE List(c) \/ Scan(c)
  BY <1>0, <1>1, <1>2, ListIs, ScanIs DEF Moved
<1>3. CASE Listed(c)
  BY <1>0, <1>1, <1>3, GotoIs DEF Listed, Moved, Steps
<1>4. CASE NextKey(c)
  BY <1>0, <1>1, <1>4, NextKeyIs, FinishIs DEF Moved
<1> QED
  BY <1>1, <1>2, <1>3, <1>4 DEF Walk

LEMMA TroubleAdvances ==
    ASSUME Typed, NEW c \in Callers, Throw(c) \/ WriteFails(c) \/ Catch(c)
    PROVE  \/ At(c, "thrown") /\ Catch(c) /\ call'[c] = Idle
           \/ /\ Throw(c) \/ WriteFails(c)
              /\ call'[c].at = "thrown" /\ call'[c].op = call[c].op /\ call'[c].key = call[c].key
<1>0. TypeOK
  BY DEF Typed
<1>1. CASE Catch(c)
  BY <1>0, <1>1, FinishIs DEF Catch
<1>2. CASE Throw(c) \/ WriteFails(c)
  BY <1>0, <1>2, GotoIs DEF Throw, WriteFails, Moved, Key, Steps
<1> QED
  BY <1>1, <1>2

-----------------------------------------------------------------------------
(* Revocation.                                                             *)

\* The last put of k was cut or overlapped, or one is under way.
Excused(k) == k \in disturbed \/ Storing(k)

\* A revoked result is still kept under k, in a file or in memory.
Stale(k) == results[k] \in revoked \/ resultMemory[k] \in revoked

\* A lookup by k that found the entry valid and has not told it yet.
Trusts(c, k) ==
    /\ Key(c) = k /\ call[c].op \in {"get", "warmup"}
    /\ call[c].at \in {"decide"} \cup Storage \cup Fetching
    /\ call[c].status = "valid"

Serves(c, k) == At(c, "tell") /\ Key(c) = k /\ call[c].value \in revoked

\* No place says that the entry is valid.
Invalid(k) ==
    manifests[k] # "valid" /\ manifestMemory[k] # "valid" /\ \A c \in Callers : ~Trusts(c, k)

Safe(k) == (Stale(k) => Invalid(k)) /\ \A c \in Callers : ~Serves(c, k)

(* An invalidation leaves the result where it is: what makes it harmless is *)
(* that from then on no file, no memory and no call says valid of it.       *)
Revocation ==
    /\ \A k \in Keys : Excused(k) \/ Safe(k)
    /\ \A c \in Callers : call[c].op = "put" /\ At(c, "thrown") => Key(c) \in disturbed

\* A step of c that neither revokes nor keeps a revoked result of k.
LEMMA SafeTurn ==
    ASSUME Typed, NEW c \in Callers, \A d \in Callers : d # c => call'[d] = call[d],
           revoked' = revoked, NEW k \in Keys, Safe(k),
           results'[k] \in revoked => Stale(k), resultMemory'[k] \in revoked => Stale(k),
           Stale(k) => manifests'[k] # "valid" /\ manifestMemory'[k] # "valid" /\ ~Trusts(c, k)',
           ~Serves(c, k)'
    PROVE  Safe(k)'
<1>1. \A d \in Callers : d # c => (Trusts(d, k)' <=> Trusts(d, k)) /\ (Serves(d, k)' <=> Serves(d, k))
  BY DEF Trusts, Serves, Key, At
<1>2. Stale(k)' => Stale(k)
  BY DEF Stale
<1> QED
  BY <1>1, <1>2 DEF Safe, Invalid

\* None is not a result, and so not a revoked one.
LEMMA NoneKept == ASSUME TypeOK PROVE None \notin revoked /\ Torn \notin revoked
  BY ResultsAre DEF TypeOK

LEMMA SafeWalk ==
    ASSUME Typed, NEW c \in Callers, Walk(c), NEW k \in Keys, Safe(k) PROVE Safe(k)'
<1>1. UNCHANGED <<manifests, results, manifestMemory, resultMemory, revoked>>
  BY DEF Walk, List, Scan, Listed, NextKey, files, memory, history
<1>2. call'[c].at \in {"scan", "next", "unlink", "seek", "idle"}
  BY WalkAdvances, IdleCall
<1>3. ~Trusts(c, k)' /\ ~Serves(c, k)'
  BY <1>2 DEF Trusts, Serves, At, Storage, Fetching
<1>4. \A d \in Callers : d # c => call'[d] = call[d]
  BY GoesIs DEF Goes
<1> QED
  BY <1>1, <1>3, <1>4, SafeTurn DEF Stale, Safe, Invalid

LEMMA SafeLookup ==
    ASSUME Typed, NEW c \in Callers, Lookup(c), revoked' = revoked, NEW k \in Keys, Safe(k)
    PROVE  Safe(k)'
<1>0. TypeOK /\ None \notin revoked /\ results' = results /\ manifests' = manifests /\ Key(c) \in Keys
  <2>1. UNCHANGED files /\ call[c].at \in Looking
    BY DEF Lookup, Seek, Ask, ReadManifest, Found, Missed, NothingToInvalidate, At, Looking
  <2> QED
    BY <2>1, NoneKept, OpAt DEF Typed, files
<1>1. \A d \in Callers : d # c => call'[d] = call[d]
  BY GoesIs DEF Goes
<1>2. /\ manifestMemory'[k] \in {manifestMemory[k], manifests[k], None}
      /\ resultMemory'[k] \in {resultMemory[k], None}
  <2>1. CASE ReadManifest(c)
    BY <1>0, <2>1 DEF ReadManifest, TypeOK
  <2>2. CASE Missed(c)
    BY <1>0, <2>2 DEF Missed, memory, TypeOK
  <2>3. CASE Seek(c) \/ Ask(c) \/ Found(c) \/ NothingToInvalidate(c)
    BY <2>3 DEF Seek, Ask, Found, NothingToInvalidate, memory
  <2> QED
    BY <2>1, <2>2, <2>3 DEF Lookup
<1>3. Stale(k) => ~Trusts(c, k)'
  <2> SUFFICES ASSUME Stale(k), Trusts(c, k)' PROVE FALSE
    OBVIOUS
  <2>1. /\ Key(c) = k /\ call'[c].op = call[c].op /\ call[c].op \in {"get", "warmup"}
        /\ call'[c].status = "valid" /\ call'[c].at \in {"decide"} \cup Storage \cup Fetching
    BY LookupAdvances DEF Trusts, Advances, Key
  <2>2. manifests[k] # "valid" /\ manifestMemory[k] # "valid" /\ ~Trusts(c, k)
    BY DEF Safe, Invalid
  <2>3. CASE Seek(c)
    BY <2>1, <2>2, <2>3, LookupAdvances
  <2>4. CASE Ask(c)
    <3>1. call[c].status = None
      BY <2>4 DEF Ask, At, Typed, Shaped
    <3> QED
      BY <2>1, <2>4, <3>1, LookupAdvances, Constants DEF Statuses
  <2>5. CASE ReadManifest(c)
    BY <2>1, <2>2, <2>5, LookupAdvances
  <2>6. CASE Found(c)
    <3>1. call[c].at = "decide" /\ call'[c].status = call[c].status
      BY <2>1, <2>6, LookupAdvances DEF Found, At, Invalidating
    <3> QED
      BY <2>1, <2>2, <3>1 DEF Trusts
  <2>7. CASE Missed(c) \/ NothingToInvalidate(c)
    BY <2>1, <2>7, LookupAdvances DEF Storage, Fetching
  <2> QED
    BY <2>3, <2>4, <2>5, <2>6, <2>7 DEF Lookup
<1>4. ~Serves(c, k)'
  <2>1. call[c].value = None
    <3>1. call[c].at \in Looking
      BY DEF Lookup, Seek, Ask, ReadManifest, Found, Missed, NothingToInvalidate, At, Looking
    <3>2. call[c].op # "put" /\ call[c].at # "tell"
      BY <3>1, OpAt DEF Invalidating, Looking
    <3> QED
      BY <3>2 DEF Typed, Shaped
  <2> QED
    BY <1>0, <2>1, LookupAdvances DEF Serves
<1>5. "valid" # None
  BY Constants DEF Statuses
<1> QED
  BY <1>0, <1>1, <1>2, <1>3, <1>4, <1>5, SafeTurn DEF Stale, Safe, Invalid

LEMMA SafeKeep ==
    ASSUME Typed, NEW c \in Callers, Keep(c), revoked' = revoked, NEW k \in Keys, Safe(k),
           ~(call[c].op = "put" /\ Key(c) = k)
    PROVE  Safe(k)'
<1>0. TypeOK /\ None \notin revoked /\ Torn \notin revoked
  BY NoneKept DEF Typed
<1>1. \A d \in Callers : d # c => call'[d] = call[d]
  BY GoesIs DEF Goes
<1>2. /\ RememberResult(c) \/ OpenResult(c) \/ WriteResult(c) => call[c].op = "put"
      /\ Open(c) \/ Write(c) \/ Remember(c) => call[c].at \in Storage
      /\ Key(c) \in Keys
  <2>1. RememberResult(c) \/ OpenResult(c) \/ WriteResult(c) => call[c].at \in Keeping
    BY DEF RememberResult, OpenResult, WriteResult, At, Keeping
  <2>2. Open(c) \/ Write(c) \/ Remember(c) => call[c].at \in Storage
    BY DEF Open, Write, Remember, At, Storage
  <2>3. Drop(c) => At(c, "drop")
    BY DEF Drop
  <2> QED
    BY <2>1, <2>2, <2>3, OpAt DEF Keep
<1>3. results'[k] \in {results[k], None, Torn} /\ resultMemory'[k] \in {resultMemory[k], None}
  <2>1. CASE Open(c) \/ Write(c) \/ Remember(c)
    BY <2>1 DEF Open, Write, Remember, files, memory
  <2>2. CASE Drop(c)
    BY <1>0, <1>2, <2>2 DEF Drop, files, TypeOK
  <2>3. CASE OpenResult(c) \/ WriteResult(c) \/ RememberResult(c)
    <3>1. Key(c) # k
      BY <1>2, <2>3
    <3> QED
      BY <1>0, <1>2, <2>3, <3>1 DEF OpenResult, WriteResult, RememberResult, files, memory, TypeOK
  <2> QED
    BY <2>1, <2>2, <2>3 DEF Keep
<1>4. ASSUME Stale(k)
      PROVE  manifests'[k] # "valid" /\ manifestMemory'[k] # "valid" /\ ~Trusts(c, k)'
  <2>1. manifests[k] # "valid" /\ manifestMemory[k] # "valid" /\ ~Trusts(c, k)
    BY <1>4 DEF Safe, Invalid
  <2>2. Key(c) = k /\ call[c].at \in Storage => call[c].status # "valid"
    <3> SUFFICES ASSUME Key(c) = k, call[c].at \in Storage, call[c].status = "valid" PROVE FALSE
      OBVIOUS
    <3>1. call[c].op \in Invalidating \cup {"get"}
      BY OpAt
    <3>2. call[c].op = "get"
      BY <3>1 DEF Typed, Shaped, Invalidating
    <3> QED
      BY <2>1, <3>2 DEF Trusts
  <2>3. manifests'[k] # "valid"
    <3>1. CASE Open(c)
      BY <1>0, <1>2, <2>1, <3>1, Constants DEF Open, TypeOK, Statuses
    <3>2. CASE Write(c)
      <4>1. PICK left \in Over(manifests[Key(c)], call[c].status) :
                manifests' = [manifests EXCEPT ![Key(c)] = left]
        BY <3>2 DEF Write
      <4>2. left \in {call[c].status, None, Torn}
        BY <4>1, OverIs
      <4>3. Key(c) = k => left # "valid"
        BY <1>2, <2>2, <3>2, <4>2, Constants DEF Statuses
      <4> QED
        BY <1>0, <1>2, <2>1, <4>1, <4>3 DEF TypeOK
    <3>3. CASE Remember(c) \/ Drop(c) \/ OpenResult(c) \/ WriteResult(c) \/ RememberResult(c)
      BY <2>1, <3>3 DEF Remember, Drop, OpenResult, WriteResult, RememberResult, files
    <3> QED
      BY <3>1, <3>2, <3>3 DEF Keep
  <2>4. manifestMemory'[k] # "valid"
    <3>1. CASE Remember(c)
      BY <1>0, <1>2, <2>1, <2>2, <3>1 DEF Remember, TypeOK
    <3>2. CASE ~Remember(c)
      BY <2>1, <3>2 DEF Keep, Open, Write, Drop, OpenResult, WriteResult, RememberResult, memory
    <3> QED
      BY <3>1, <3>2
  <2>5. ~Trusts(c, k)'
    <3> SUFFICES ASSUME Trusts(c, k)' PROVE FALSE
      OBVIOUS
    <3>1. call'[c] # Idle
      BY IdleCall DEF Trusts, Storage, Fetching
    <3>2. Advances(c) /\ call'[c].status = call[c].status
          /\ (call'[c].at \in Storage \cup Fetching => call[c].at \in Storage)
      BY <3>1, KeepAdvances
    <3>3. call'[c].at \in Storage \cup Fetching
      <4>1. call'[c].at # "decide"
        <5>1. CASE Drop(c) \/ OpenResult(c) \/ WriteResult(c)
          BY <5>1, GotoIs, <1>0 DEF Drop, OpenResult, WriteResult, Moved, Steps
        <5>2. CASE Open(c) \/ Write(c) \/ Remember(c)
          <6>1. PICK at \in {"write", "remember", "openResult", "seekValue", "drop"} : Goto(c, at)
            BY <5>2 DEF Open, Write, Remember
          <6> QED
            BY <1>0, <6>1, GotoIs DEF Moved, Steps
        <5>3. CASE RememberResult(c)
          BY <1>0, <3>1, <5>3, FinishIs DEF RememberResult
        <5> QED
          BY <5>1, <5>2, <5>3 DEF Keep
      <4> QED
        BY <4>1 DEF Trusts
    <3>4. Key(c) = k /\ call[c].at \in Storage /\ call[c].status = "valid"
      BY <3>2, <3>3 DEF Trusts, Advances, Key
    <3> QED
      BY <2>2, <3>4
  <2> QED
    BY <2>3, <2>4, <2>5
<1>5. ~Serves(c, k)'
  BY KeepAdvances, IdleCall DEF Serves, At
<1> QED
  BY <1>0, <1>1, <1>3, <1>4, <1>5, SafeTurn DEF Stale

LEMMA SafeFetch ==
    ASSUME Typed, NEW c \in Callers, Fetch(c), NEW k \in Keys, Safe(k) PROVE Safe(k)'
<1>0. /\ TypeOK /\ None \notin revoked
      /\ manifests' = manifests /\ results' = results /\ manifestMemory' = manifestMemory
      /\ revoked' = revoked
  BY NoneKept DEF Typed, Fetch, SeekValue, AskValue, ReadResult, Tell, files, memory, history
<1>1. \A d \in Callers : d # c => call'[d] = call[d]
  BY GoesIs DEF Goes
<1>2. CASE Tell(c)
  <2>1. resultMemory' = resultMemory /\ call'[c] = Idle
    BY <1>0, <1>2, FinishIs DEF Tell, memory
  <2>2. ~Trusts(c, k)' /\ ~Serves(c, k)'
    BY <2>1, IdleCall DEF Trusts, Serves, At, Storage, Fetching
  <2> QED
    BY <1>0, <1>1, <2>1, <2>2, SafeTurn DEF Stale, Safe, Invalid
<1>3. CASE ~Tell(c)
  <2>1. /\ Advances(c) /\ call[c].at \in Fetching
        /\ call'[c].at \in Fetching => call'[c].status = call[c].status
        /\ call'[c].at = "tell" => call'[c].value \in {None, resultMemory[Key(c)], results[Key(c)]}
        /\ call'[c].at \in {"askValue", "readResult", "tell", "next"}
    BY <1>3, FetchAdvances
  <2>2. Key(c) \in Keys /\ call[c].op \in {"get", "warmup"} /\ call[c].status = "valid"
    BY <2>1, OpAt DEF Typed, Shaped, Invalidating
  <2>3. resultMemory'[k] \in {resultMemory[k], results[k]}
    <3>1. CASE ReadResult(c)
      BY <1>0, <2>2, <3>1 DEF ReadResult, TypeOK
    <3>2. CASE SeekValue(c) \/ AskValue(c)
      BY <3>2 DEF SeekValue, AskValue, memory
    <3> QED
      BY <1>3, <3>1, <3>2 DEF Fetch
  <2>4. Key(c) = k => ~Stale(k)
    BY <2>1, <2>2 DEF Safe, Invalid, Trusts
  <2>5. Stale(k) => ~Trusts(c, k)'
    BY <2>1, <2>4 DEF Trusts, Advances, Key
  <2>6. ~Serves(c, k)'
    BY <1>0, <2>1, <2>4 DEF Serves, Stale, Advances, Key, At
  <2> QED
    BY <1>0, <1>1, <2>3, <2>5, <2>6, SafeTurn DEF Stale, Safe, Invalid
<1> QED
  BY <1>2, <1>3

LEMMA SafeDiscard ==
    ASSUME Typed, NEW c \in Callers, Discard(c), revoked' = revoked, NEW k \in Keys, Safe(k)
    PROVE  Safe(k)'
<1>0. TypeOK /\ None \notin revoked
  BY NoneKept DEF Typed
<1>1. \A d \in Callers : d # c => call'[d] = call[d]
  BY GoesIs DEF Goes
<1>2. ~Trusts(c, k)' /\ ~Serves(c, k)'
  BY DiscardAdvances, IdleCall DEF Trusts, Serves, Advances, At
<1>3. /\ manifests'[k] \in {manifests[k], None} /\ results'[k] \in {results[k], None}
      /\ manifestMemory'[k] \in {manifestMemory[k], None}
      /\ resultMemory'[k] \in {resultMemory[k], None}
  <2>1. CASE Unlink(c)
    BY <1>0, <2>1 DEF Unlink, memory, TypeOK
  <2>2. CASE AskResult(c)
    BY <1>0, <2>2 DEF AskResult, memory, files, TypeOK
  <2>3. CASE UnlinkResult(c)
    BY <1>0, <2>3 DEF UnlinkResult, memory, TypeOK
  <2>4. CASE Forget(c)
    BY <1>0, <2>4 DEF Forget, files, TypeOK
  <2>5. CASE Remove(c)
    BY <1>0, <2>5 DEF Remove, memory, TypeOK
  <2>6. CASE Cleared(c)
    BY <1>0, <2>6, EmptyIs DEF Cleared, files, TypeOK
  <2> QED
    BY <2>1, <2>2, <2>3, <2>4, <2>5, <2>6 DEF Discard
<1>4. "valid" # None
  BY Constants DEF Statuses
<1> QED
  BY <1>0, <1>1, <1>2, <1>3, <1>4, SafeTurn DEF Stale, Safe, Invalid

LEMMA SafeTrouble ==
    ASSUME Typed, NEW c \in Callers, Throw(c) \/ WriteFails(c) \/ Catch(c), NEW k \in Keys, Safe(k)
    PROVE  Safe(k)'
<1>1. \A d \in Callers : d # c => call'[d] = call[d]
  BY GoesIs DEF Goes
<1>2. call'[c].at \in {"thrown", "idle"}
  BY TroubleAdvances, IdleCall
<1>3. ~Trusts(c, k)' /\ ~Serves(c, k)'
  BY <1>2 DEF Trusts, Serves, At, Storage, Fetching
<1> QED
  BY <1>1, <1>3, TroubleIs, SafeTurn DEF Stale, Safe, Invalid

LEMMA SafeStart ==
    ASSUME Typed, NEW c \in Callers, Start(c), NEW k \in Keys, Safe(k), ~Storing(k)' PROVE Safe(k)'
<1>1. /\ \A d \in Callers : d # c => call'[d] = call[d]
      /\ call'[c].at \in {"open", "seek", "list", "clear"} /\ Busy' = Busy \cup {c}
  BY StartLoud
<1>2. UNCHANGED <<manifests, results, manifestMemory, resultMemory, revoked>>
  BY DEF Start, Get, Put, Invalidate, Through, Clear, Begin, files, memory
<1>3. ~Serves(c, k)'
  BY <1>1 DEF Serves, At
<1>4. ~Trusts(c, k)'
  <2>1. CASE \E j \in Keys : Put(c, j)
    BY <2>1, PutIs DEF Trusts
  <2>2. ASSUME NEW new, Readers(new), Begin(c, new) PROVE ~Trusts(c, k)'
    <3>1. call'[c] = new /\ new.at \in {"seek", "list", "clear"}
      BY <2>2, ReadersAre DEF Begin, Typed, TypeOK
    <3> QED
      BY <3>1 DEF Trusts, Storage, Fetching
  <2> QED
    BY <2>1, <2>2, StartsAre
<1> QED
  BY <1>1, <1>2, <1>3, <1>4, SafeTurn DEF Stale, Safe, Invalid

\* A lone invalidation or clearing, which takes results back.
Revokes(c) == (Drop(c) \/ NothingToInvalidate(c) \/ Cleared(c)) /\ Alone(c)

\* A lone put, which makes up for the one before.
MakesGood(c) == RememberResult(c) /\ Alone(c)

LEMMA LoneStep ==
    ASSUME Typed, Company, NEW c \in Callers, Goes(c), Alone(c)
    PROVE  /\ Busy = {c} /\ \A d \in Callers : d # c => call'[d].at = "idle" /\ call[d].at = "idle"
           /\ \A k \in Keys : Storing(k) => call[c].op = "put" /\ Key(c) = k
  BY GoesIs DEF Company, Busy, Storing

LEMMA RevokesSafe ==
    ASSUME Typed, Company, Sees, Revocation, NEW c \in Callers, Revokes(c) PROVE Revocation'
<1>0. TypeOK /\ Goes(c) /\ Alone(c) /\ c \notin loud /\ SeesRight(c)
  BY DEF Revokes, Goes, Keep, Lookup, Discard, Typed, Alone, Sees
<1>1. Busy = {c} /\ \A d \in Callers : d # c => call'[d].at = "idle" /\ call[d].at = "idle"
  BY <1>0, LoneStep
<1>2. PICK gone \in SUBSET Keys :
          /\ gone = IF Cleared(c) THEN Keys ELSE {Key(c)}
          /\ revoked' = revoked \cup {n \in Results : made[n] \in gone}
          /\ disturbed' = disturbed \ gone
  <2>1. Cleared(c) => At(c, "clear")
    BY DEF Cleared
  <2>2. Drop(c) => At(c, "drop") /\ Key(c) \in Keys
    BY OpAt DEF Drop
  <2>3. NothingToInvalidate(c) => At(c, "decide") /\ Key(c) \in Keys
    BY OpAt DEF NothingToInvalidate, At, Looking
  <2> QED
    BY <1>0, <2>1, <2>2, <2>3 DEF Revokes, Cleared, Drop, NothingToInvalidate, Revoke, At
<1>3. /\ call'[c].at \in {"next", "idle"} /\ call[c].op # "put" /\ results' = results
      /\ manifests' = manifests
  <2>1. CASE Cleared(c)
    BY <1>0, <2>1, OpAt, FinishIs, IdleCall DEF Cleared, files
  <2>2. CASE Drop(c)
    BY <1>0, <2>2, OpAt, GotoIs DEF Drop, Moved, Steps, files, Invalidating
  <2>3. CASE NothingToInvalidate(c)
    BY <1>0, <2>3, GotoIs DEF NothingToInvalidate, Moved, Steps, files
  <2> QED
    BY <2>1, <2>2, <2>3 DEF Revokes
<1>4. ASSUME NEW k \in Keys
      PROVE  (\A d \in Callers : ~Trusts(d, k)' /\ ~Serves(d, k)') /\ ~Storing(k)
  BY <1>1, <1>3 DEF Trusts, Serves, At, Storage, Fetching, Storing
<1>5. ASSUME NEW k \in gone PROVE Safe(k)'
  <2>1. manifests[k] # "valid" /\ manifestMemory'[k] # "valid"
    <3>1. CASE Cleared(c)
      BY <1>2, <3>1, EmptyIs, Constants DEF Cleared, Statuses
    <3>2. CASE Drop(c)
      <4>1. ~Cleared(c) /\ k = Key(c)
        BY <1>2, <3>2 DEF Drop, Cleared, At
      <4> QED
        BY <1>0, <3>2, <4>1 DEF Drop, SeesRight, StoresRight
    <3>3. CASE NothingToInvalidate(c)
      <4>1. ~Cleared(c) /\ k = Key(c)
        BY <1>2, <3>3 DEF NothingToInvalidate, Cleared, At
      <4> QED
        BY <1>0, <3>3, <4>1, Constants DEF NothingToInvalidate, SeesRight, LooksRight, memory, Statuses
    <3> QED
      BY <3>1, <3>2, <3>3 DEF Revokes
  <2> QED
    BY <1>2, <1>3, <1>4, <2>1 DEF Safe, Invalid
<1>6. ASSUME NEW k \in Keys, k \notin gone, Safe(k) PROVE Safe(k)'
  <2>1. ~Cleared(c)
    BY <1>2, <1>6
  <2>2. resultMemory'[k] = resultMemory[k] /\ manifestMemory' = manifestMemory
    <3>1. CASE Drop(c)
      BY <1>0, <1>2, <1>6, <2>1, <3>1 DEF Drop, TypeOK
    <3>2. CASE NothingToInvalidate(c)
      BY <3>2 DEF NothingToInvalidate, memory
    <3> QED
      BY <2>1, <3>1, <3>2 DEF Revokes
  <2>3. ASSUME NEW n, n \in revoked', n \notin revoked PROVE n \in Results /\ made[n] \in gone
    BY <1>2, <2>3
  <2>4. (results[k] \in revoked' => results[k] \in revoked)
        /\ (resultMemory[k] \in revoked' => resultMemory[k] \in revoked)
    BY <1>6, <2>3 DEF Typed, Filed
  <2> QED
    BY <1>3, <1>4, <1>6, <2>2, <2>4 DEF Safe, Invalid, Stale
<1>7. \A k \in Keys : Excused(k)' \/ Safe(k)'
  <2> SUFFICES ASSUME NEW k \in Keys, k \notin disturbed', k \notin gone PROVE Safe(k)'
    BY <1>5 DEF Excused
  <2>1. k \notin disturbed
    BY <1>2
  <2>2. Safe(k)
    BY <1>4, <2>1 DEF Revocation, Excused
  <2> QED
    BY <1>6, <2>2
<1>8. \A d \in Callers : ~At(d, "thrown")'
  BY <1>1, <1>3 DEF At
<1> QED
  BY <1>7, <1>8 DEF Revocation

LEMMA MakesGoodSafe ==
    ASSUME Typed, Company, Sees, Revocation, NEW c \in Callers, MakesGood(c) PROVE Revocation'
<1>0. TypeOK /\ Goes(c) /\ Alone(c) /\ c \notin loud /\ SeesRight(c) /\ None \notin revoked
  BY NoneKept DEF MakesGood, Goes, Keep, Typed, Alone, Sees
<1>1. Busy = {c} /\ \A d \in Callers : d # c => call'[d].at = "idle" /\ call[d].at = "idle"
  BY <1>0, LoneStep
<1>2. At(c, "rememberResult") /\ call[c].op = "put" /\ Key(c) \in Keys
  BY OpAt DEF MakesGood, RememberResult, At, Keeping
<1>3. /\ call'[c] = Idle /\ UNCHANGED <<manifests, results, manifestMemory, revoked>>
      /\ resultMemory' = [resultMemory EXCEPT ![Key(c)] = call[c].value]
      /\ disturbed' = disturbed \ {Key(c)}
  BY <1>0, FinishIs DEF MakesGood, RememberResult, files
<1>4. ASSUME NEW k \in Keys
      PROVE  \A d \in Callers : ~Trusts(d, k)' /\ ~Serves(d, k)'
  BY <1>1, <1>3, IdleCall DEF Trusts, Serves, At, Storage, Fetching
<1> PICK j \in Keys : j = Key(c)
  BY <1>2
<1>5. Safe(j)'
  <2>1. results[j] = call[c].value /\ call[c].value \notin revoked
    BY <1>0, <1>2 DEF SeesRight, StoresRight
  <2>2. resultMemory'[j] = call[c].value
    BY <1>0, <1>3 DEF TypeOK
  <2>3. ~Stale(j)'
    BY <1>3, <2>1, <2>2 DEF Stale
  <2> QED
    BY <1>4, <2>3 DEF Safe
<1>6. ASSUME NEW k \in Keys, k # j, Safe(k) PROVE Safe(k)'
  <2>1. resultMemory'[k] = resultMemory[k]
    BY <1>0, <1>2, <1>3, <1>6 DEF TypeOK
  <2> QED
    BY <1>3, <1>4, <1>6, <2>1 DEF Safe, Invalid, Stale
<1>7. \A k \in Keys : Excused(k)' \/ Safe(k)'
  <2> SUFFICES ASSUME NEW k \in Keys, k \notin disturbed', k # j PROVE Safe(k)'
    BY <1>5 DEF Excused
  <2>1. k \notin disturbed
    BY <1>3
  <2>2. ~Storing(k)
    BY <1>0, LoneStep
  <2>3. Safe(k)
    BY <2>1, <2>2 DEF Revocation, Excused
  <2> QED
    BY <1>6, <2>3
<1>8. \A d \in Callers : ~At(d, "thrown")'
  BY <1>1, <1>3, IdleCall DEF At
<1> QED
  BY <1>7, <1>8 DEF Revocation

\* Any other step of a call leaves the results revoked so far, and a put that
\* ends leaves its key disturbed.
LEMMA OthersRevokeNone ==
    ASSUME Typed, Revocation, NEW c \in Callers, Goes(c), ~Revokes(c), ~MakesGood(c)
    PROVE  /\ revoked' = revoked /\ disturbed \subseteq disturbed'
           /\ call[c].op = "put" =>
                \/ call'[c].op = "put" /\ call'[c].key = call[c].key /\ call'[c].at # "idle"
                \/ Key(c) \in disturbed'
           /\ call'[c].op = "put" /\ call'[c].at = "thrown" =>
                call'[c].key \in disturbed'
<1>0. c \in Busy /\ c \in Callers
  BY BusyAfter
<1>1. CASE Walk(c)
  <2>1. UNCHANGED <<revoked, disturbed>>
    BY <1>1 DEF Walk, List, Scan, Listed, NextKey, history
  <2>2. call[c].op # "put" /\ call'[c].op # "put"
    BY <1>1, WalkAdvances, IdleCall DEF Listing
  <2> QED
    BY <2>1, <2>2
<1>2. CASE Lookup(c)
  <2>1. revoked' = revoked /\ disturbed' = disturbed
    <3>1. CASE NothingToInvalidate(c)
      BY <1>0, <3>1 DEF NothingToInvalidate, Revoke, Revokes, Alone
    <3>2. CASE ~NothingToInvalidate(c)
      BY <1>2, <3>2 DEF Lookup, Seek, Ask, ReadManifest, Found, Missed, history
    <3> QED
      BY <3>1, <3>2
  <2>2. Advances(c)
    BY <1>2, LookupAdvances
  <2> QED
    BY <2>1, <2>2 DEF Advances
<1>3. CASE Keep(c)
  <2>1. CASE RememberResult(c)
    <3>1. revoked' = revoked /\ disturbed' = disturbed \cup {Key(c)} /\ call'[c] = Idle
      BY <1>0, <2>1, FinishIs DEF RememberResult, MakesGood, Alone, Typed
    <3> QED
      BY <3>1, IdleCall
  <2>2. CASE ~RememberResult(c)
    <3>1. revoked' = revoked /\ disturbed' = disturbed
      <4>1. CASE Drop(c)
        BY <1>0, <4>1 DEF Drop, Revoke, Revokes, Alone
      <4>2. CASE ~Drop(c)
        BY <1>3, <2>2, <4>2 DEF Keep, Open, Write, Remember, OpenResult, WriteResult, history
      <4> QED
        BY <4>1, <4>2
    <3>2. Advances(c)
      BY <1>3, <2>2, KeepAdvances
    <3> QED
      BY <3>1, <3>2 DEF Advances
  <2> QED
    BY <2>1, <2>2
<1>4. CASE Fetch(c)
  <2>1. UNCHANGED <<revoked, disturbed>>
    BY <1>4 DEF Fetch, SeekValue, AskValue, ReadResult, Tell, history
  <2>2. call[c].op # "put"
    <3>1. call[c].at \in Fetching \cup {"tell"}
      BY <1>4 DEF Fetch, SeekValue, AskValue, ReadResult, Tell, At, Fetching
    <3> QED
      BY <3>1, OpAt DEF At
  <2>3. call'[c] = Idle \/ Advances(c)
    BY <1>4, FetchAdvances
  <2> QED
    BY <2>1, <2>2, <2>3, IdleCall DEF Advances
<1>5. CASE Discard(c)
  <2>1. UNCHANGED <<revoked, disturbed>>
    <3>1. CASE Cleared(c)
      BY <1>0, <3>1 DEF Cleared, Revoke, Revokes, Alone
    <3>2. CASE ~Cleared(c)
      BY <1>5, <3>2 DEF Discard, Unlink, AskResult, UnlinkResult, Forget, Remove, history
    <3> QED
      BY <3>1, <3>2
  <2>2. call[c].op # "put" /\ (call'[c] = Idle \/ Advances(c))
    BY <1>5, DiscardAdvances
  <2> QED
    BY <2>1, <2>2, IdleCall DEF Advances
<1>6. CASE Catch(c)
  <2>1. UNCHANGED <<revoked, disturbed>> /\ call'[c] = Idle /\ At(c, "thrown")
    BY <1>6, FinishIs DEF Catch, history, Typed
  <2>2. call[c].op = "put" => Key(c) \in disturbed
    BY <2>1 DEF Revocation
  <2> QED
    BY <2>1, <2>2, IdleCall
<1>7. CASE WriteFails(c)
  <2>1. /\ revoked' = revoked /\ disturbed' = disturbed \cup Broken(c)
        /\ call'[c].op = call[c].op /\ call'[c].key = call[c].key /\ call'[c].at = "thrown"
    <3>1. Goto(c, "thrown") /\ "thrown" \in Steps
      BY <1>7 DEF WriteFails, Steps
    <3> QED
      BY <1>7, <3>1, GotoIs DEF WriteFails, Typed, Moved, Key
  <2> QED
    BY <2>1 DEF Broken, Key
<1>8. CASE Throw(c)
  <2>1. /\ UNCHANGED <<revoked, disturbed>>
        /\ call'[c].op = call[c].op /\ call'[c].key = call[c].key /\ call'[c].at = "thrown"
    <3>1. Goto(c, "thrown") /\ "thrown" \in Steps
      BY <1>8 DEF Throw, Steps
    <3> QED
      BY <1>8, <3>1, GotoIs DEF Throw, history, Typed, Moved, Key
  <2>2. call[c].op # "put"
    <3>1. call[c].at \in {"scan", "readManifest", "readResult", "unlink", "unlinkResult", "clear"}
      BY <1>8 DEF Throw, At
    <3> QED
      BY <3>1, OpAt DEF Looking, Fetching, Discarding, Listing, Invalidating, At
  <2> QED
    BY <2>1, <2>2
<1> QED
  BY <1>1, <1>2, <1>3, <1>4, <1>5, <1>6, <1>7, <1>8 DEF Goes

LEMMA GoesSafe ==
    ASSUME Typed, Revocation, NEW c \in Callers, Goes(c), ~Revokes(c), ~MakesGood(c)
    PROVE  Revocation'
<1>1. /\ revoked' = revoked /\ disturbed \subseteq disturbed'
      /\ call[c].op = "put" =>
           \/ call'[c].op = "put" /\ call'[c].key = call[c].key /\ call'[c].at # "idle"
           \/ Key(c) \in disturbed'
      /\ call'[c].op = "put" /\ call'[c].at = "thrown" => call'[c].key \in disturbed'
  BY OthersRevokeNone
<1>2. \A d \in Callers : d # c => call'[d] = call[d]
  BY GoesIs
<1>3. ASSUME NEW k \in Keys PROVE Excused(k) => Excused(k)'
  <2>1. CASE k \in disturbed
    BY <1>1, <2>1 DEF Excused
  <2>2. CASE Storing(k)
    <3>1. PICK d \in Busy : call[d].op = "put" /\ Key(d) = k
      BY <2>2 DEF Storing
    <3>2. CASE d # c
      BY <1>2, <3>1, <3>2 DEF Storing, Excused, Busy, Key
    <3>3. CASE d = c
      BY <1>1, <3>1, <3>3 DEF Storing, Excused, Busy, Key
    <3> QED
      BY <3>2, <3>3
  <2> QED
    BY <2>1, <2>2 DEF Excused
<1>4. ASSUME NEW k \in Keys, ~Excused(k) PROVE Safe(k)'
  <2>1. Safe(k)
    BY <1>4 DEF Revocation
  <2>2. ~(call[c].op = "put" /\ Key(c) = k)
    <3>1. c \in Busy
      BY BusyAfter
    <3> QED
      BY <1>4, <3>1 DEF Excused, Storing
  <2> QED
    BY <1>1, <2>1, <2>2, SafeWalk, SafeLookup, SafeKeep, SafeFetch, SafeDiscard, SafeTrouble DEF Goes
<1>5. \A d \in Callers : call'[d].op = "put" /\ call'[d].at = "thrown" => call'[d].key \in disturbed'
  <2> SUFFICES ASSUME NEW d \in Callers, call'[d].op = "put", call'[d].at = "thrown", d # c
               PROVE  call'[d].key \in disturbed'
    BY <1>1
  <2> QED
    BY <1>1, <1>2 DEF Revocation, At, Key
<1> QED
  BY <1>3, <1>4, <1>5 DEF Revocation, At, Key

LEMMA ExitSafe == ASSUME Typed, Revocation, Exit PROVE Revocation'
<1>1. /\ UNCHANGED <<manifests, results, revoked>> /\ manifestMemory' = Empty /\ resultMemory' = Empty
      /\ call' = [c \in Callers |-> Idle]
      /\ disturbed' = disturbed \cup UNION {Broken(c) : c \in Busy}
  BY DEF Exit, files
<1>2. \A c \in Callers : call'[c] = Idle
  BY <1>1
<1>3. None \notin revoked /\ "valid" # None
  BY NoneKept, Constants DEF Typed, Statuses
<1>4. ASSUME NEW k \in Keys, k \notin disturbed' PROVE Safe(k)'
  <2>1. k \notin disturbed /\ \A c \in Busy : k \notin Broken(c)
    BY <1>1, <1>4
  <2>2. ~Storing(k)
    BY <2>1 DEF Storing, Broken
  <2>3. Safe(k)
    BY <2>1, <2>2 DEF Revocation, Excused
  <2>4. \A c \in Callers : ~Trusts(c, k)' /\ ~Serves(c, k)'
    BY <1>2, IdleCall DEF Trusts, Serves, At, Storage, Fetching
  <2>5. manifestMemory'[k] = None /\ resultMemory'[k] = None
    BY <1>1, EmptyIs
  <2> QED
    BY <1>1, <1>3, <2>3, <2>4, <2>5 DEF Safe, Invalid, Stale
<1>5. \A c \in Callers : ~(call'[c].at = "thrown")
  BY <1>2, IdleCall
<1> QED
  BY <1>4, <1>5 DEF Revocation, Excused, At

LEMMA StartSafe == ASSUME Typed, Revocation, NEW c \in Callers, Start(c) PROVE Revocation'
<1>1. /\ Busy' = Busy \cup {c} /\ call[c].at = "idle"
      /\ \A d \in Callers : d # c => call'[d] = call[d]
      /\ call'[c].at \in {"open", "seek", "list", "clear"}
  BY StartLoud
<1>2. disturbed' = disturbed
  BY DEF Start, Get, Put, Invalidate, Through, Clear, Begin
<1>3. ASSUME NEW k \in Keys PROVE Excused(k) => Excused(k)'
  BY <1>1, <1>2 DEF Excused, Storing, Busy, Key
<1>4. ASSUME NEW k \in Keys, ~Excused(k)' PROVE Safe(k)'
  <2>1. Safe(k) /\ ~Storing(k)'
    BY <1>3, <1>4 DEF Revocation, Excused
  <2> QED
    BY <2>1, SafeStart
<1>5. \A d \in Callers : call'[d].op = "put" /\ call'[d].at = "thrown" => call'[d].key \in disturbed'
  BY <1>1, <1>2 DEF Revocation, At, Key
<1> QED
  BY <1>4, <1>5 DEF Revocation, At, Key

LEMMA RevocationInit == Init => Revocation
<1> SUFFICES ASSUME Init PROVE Revocation
  OBVIOUS
<1>1. \A c \in Callers : call[c] = Idle
  BY DEF Init
<1>2. revoked = {}
  BY DEF Init
<1> QED
  BY <1>1, <1>2, IdleCall DEF Revocation, Safe, Stale, Serves, At

LEMMA RevocationStep == Typed /\ Company /\ Sees /\ Revocation /\ [Next]_vars => Revocation'
<1> SUFFICES ASSUME Typed, Company, Sees, Revocation, [Next]_vars PROVE Revocation'
  OBVIOUS
<1>1. CASE UNCHANGED vars
  BY <1>1 DEF vars, files, memory, history, Revocation, Excused, Storing, Busy, Safe, Stale, Invalid,
              Trusts, Serves, At, Key
<1>2. CASE Exit
  BY <1>2, ExitSafe
<1>3. ASSUME NEW c \in Callers, Start(c) PROVE Revocation'
  BY <1>3, StartSafe
<1>4. ASSUME NEW c \in Callers, Goes(c) PROVE Revocation'
  BY <1>4, RevokesSafe, MakesGoodSafe, GoesSafe
<1> QED
  BY <1>1, <1>2, <1>3, <1>4, StepsAre

Kept == Typed /\ Company /\ Sees /\ Revocation

LEMMA AlwaysKept == Spec => []Kept
<1>1. Init => Kept
  BY TypedInit, CompanyInit, SeesInit, RevocationInit DEF Kept
<1>2. Kept /\ [Next]_vars => Kept'
  BY TypedStep, CompanyStep, SeesStep, RevocationStep DEF Kept
<1> QED
  BY <1>1, <1>2, PTL DEF Spec

(* What a lone invalidation or clearing took back is not told again, over  *)
(* any interleaving, crash or failed write after it, unless a put of the   *)
(* key overlaps them or was cut short.                                     *)
THEOREM RevokedStaysGone == Spec => []RevokedIsGone
<1>1. Kept => RevokedIsGone
  <2> SUFFICES ASSUME Kept, NEW c \in Callers, At(c, "tell"), call[c].value \in revoked
               PROVE  Excused(Key(c))
    BY DEF RevokedIsGone, Excused
  <2>1. Key(c) \in Keys
    BY OpAt DEF Kept
  <2>2. ~Safe(Key(c))
    BY DEF Safe, Serves
  <2> QED
    BY <2>1, <2>2 DEF Kept, Revocation
<1> QED
  BY <1>1, AlwaysKept, PTL

-----------------------------------------------------------------------------
(* What throws, where calls do not overlap.                                *)

\* A torn file is one of which a write was cut or failed, or is under way.
Whole ==
    "overlap" \notin world =>
        \A k \in Keys :
          /\ manifests[k] = Torn => k \in hurt \/ \E c \in Busy : At(c, "write") /\ Key(c) = k
          /\ results[k] = Torn => k \in hurt \/ \E c \in Busy : At(c, "writeResult") /\ Key(c) = k

\* Which step tears a file.
LEMMA Tears ==
    ASSUME Typed, NEW c \in Callers, Goes(c), SeesRight(c), NEW k \in Keys
    PROVE  /\ manifests'[k] = Torn => \/ Open(c) /\ k = Key(c)
                                      \/ manifests[k] = Torn /\ ~(Write(c) /\ k = Key(c))
           /\ results'[k] = Torn => \/ OpenResult(c) /\ k = Key(c)
                                    \/ results[k] = Torn /\ ~(WriteResult(c) /\ k = Key(c))
<1>0. TypeOK /\ Torn # None /\ Torn \notin Statuses /\ Torn \notin Results
  BY Constants, ResultsAre DEF Typed, TypeOK
<1> USE DEF At
<1>1. CASE ~Keep(c)
  <2>1. manifests'[k] \in {manifests[k], None} /\ results'[k] \in {results[k], None}
    <3>1. CASE Walk(c) \/ Lookup(c) \/ Fetch(c)
      BY <3>1 DEF Walk, List, Scan, Listed, NextKey, Lookup, Seek, Ask, ReadManifest, Found, Missed,
                  NothingToInvalidate, Fetch, SeekValue, AskValue, ReadResult, Tell, files
    <3>2. CASE Throw(c) \/ WriteFails(c) \/ Catch(c)
      BY <3>2, TroubleIs
    <3>3. CASE Discard(c)
      BY <1>0, <3>3 DEF Discard, Unlink, AskResult, UnlinkResult, Forget, Remove, Cleared, files, TypeOK
    <3> QED
      BY <1>1, <3>1, <3>2, <3>3 DEF Goes
  <2> QED
    BY <1>0, <1>1, <2>1 DEF Keep
<1>2. CASE Open(c)
  <2>1. call[c].at = "open" /\ Key(c) \in Keys
    BY <1>2, OpAt DEF Open, Storage
  <2>2. results' = results /\ ~Write(c) /\ ~WriteResult(c)
    BY <1>2, <2>1 DEF Open, Write, WriteResult
  <2>3. k # Key(c) => manifests'[k] = manifests[k]
    BY <1>0, <1>2, <2>1 DEF Open, TypeOK
  <2> QED
    BY <1>2, <2>2, <2>3
<1>3. CASE Write(c)
  <2>1. call[c].at = "write" /\ Key(c) \in Keys
    BY <1>3, OpAt DEF Write, Storage
  <2>2. results' = results /\ ~WriteResult(c) /\ manifests[Key(c)] = Torn
    BY <1>3, <2>1 DEF Write, WriteResult, SeesRight, StoresRight
  <2>3. PICK left \in Over(manifests[Key(c)], call[c].status) :
            manifests' = [manifests EXCEPT ![Key(c)] = left]
    BY <1>3 DEF Write
  <2>4. left = call[c].status
    BY <2>2, <2>3, OverIs
  <2>5. left \in Statuses
    BY <2>1, <2>4 DEF Typed, Shaped, Storage, Statuses
  <2> QED
    BY <1>0, <2>1, <2>2, <2>3, <2>5 DEF TypeOK
<1>4. CASE OpenResult(c)
  <2>1. call[c].at = "openResult" /\ Key(c) \in Keys
    BY <1>4, OpAt DEF OpenResult, Keeping
  <2>2. manifests' = manifests /\ ~Write(c) /\ ~WriteResult(c)
    BY <1>4, <2>1 DEF OpenResult, Write, WriteResult
  <2>3. k # Key(c) => results'[k] = results[k]
    BY <1>0, <1>4, <2>1 DEF OpenResult, TypeOK
  <2> QED
    BY <1>4, <2>2, <2>3
<1>5. CASE WriteResult(c)
  <2>1. call[c].at = "writeResult" /\ Key(c) \in Keys /\ call[c].value \in Results
    BY <1>5, OpAt DEF WriteResult, Keeping
  <2>2. manifests' = manifests /\ ~Write(c) /\ results[Key(c)] = Torn
    BY <1>5, <2>1 DEF Write, WriteResult, SeesRight, StoresRight
  <2>3. PICK left \in Over(results[Key(c)], call[c].value) :
            results' = [results EXCEPT ![Key(c)] = left]
    BY <1>5 DEF WriteResult
  <2>4. left = call[c].value
    BY <2>2, <2>3, OverIs
  <2> QED
    BY <1>0, <2>1, <2>2, <2>3, <2>4 DEF TypeOK
<1>6. CASE Remember(c) \/ Drop(c) \/ RememberResult(c)
  <2>1. UNCHANGED <<manifests, results>> /\ ~Write(c) /\ ~WriteResult(c)
    BY <1>6 DEF Remember, Drop, RememberResult, Write, WriteResult, files
  <2> QED
    BY <2>1
<1> QED
  BY <1>1, <1>2, <1>3, <1>4, <1>5, <1>6 DEF Keep

LEMMA HurtGrows ==
    ASSUME Typed, NEW c \in Callers, Goes(c)
    PROVE  /\ hurt \subseteq hurt'
           /\ hurt' = hurt \/ (WriteFails(c) /\ hurt' = hurt \cup {Key(c)})
<1>1. CASE Throw(c) \/ WriteFails(c) \/ Catch(c)
  BY <1>1, TroubleIs
<1>2. CASE Walk(c) \/ Fetch(c)
  BY <1>2 DEF Walk, List, Scan, Listed, NextKey, Fetch, SeekValue, AskValue, ReadResult, Tell, history
<1>3. CASE Lookup(c)
  BY <1>3 DEF Lookup, Seek, Ask, ReadManifest, Found, Missed, NothingToInvalidate, Revoke, history
<1>4. CASE Keep(c)
  BY <1>4 DEF Keep, Open, Write, Remember, Drop, OpenResult, WriteResult, RememberResult, Revoke, history
<1>5. CASE Discard(c)
  BY <1>5 DEF Discard, Unlink, AskResult, UnlinkResult, Forget, Remove, Cleared, Revoke, history
<1> QED
  BY <1>1, <1>2, <1>3, <1>4, <1>5 DEF Goes

\* Only the write itself, or its failure, leaves the step "write".
LEMMA AtWrite ==
    ASSUME NEW c \in Callers, Goes(c)
    PROVE  /\ At(c, "write") => Write(c) \/ WriteFails(c)
           /\ At(c, "writeResult") => WriteResult(c) \/ WriteFails(c)
<1> USE DEF At
<1>1. CASE Walk(c) \/ Lookup(c)
  BY <1>1 DEF Walk, List, Scan, Listed, NextKey, Lookup, Seek, Ask, ReadManifest, Found, Missed,
              NothingToInvalidate
<1>2. CASE Fetch(c) \/ Discard(c)
  BY <1>2 DEF Fetch, SeekValue, AskValue, ReadResult, Tell, Discard, Unlink, AskResult, UnlinkResult,
              Forget, Remove, Cleared
<1>3. CASE Keep(c)
  BY <1>3 DEF Keep, Open, Remember, Drop, OpenResult, RememberResult, Write, WriteResult
<1>4. CASE Throw(c) \/ Catch(c)
  BY <1>4 DEF Throw, Catch
<1> QED
  BY <1>1, <1>2, <1>3, <1>4 DEF Goes

LEMMA WholeInit == Init => Whole
<1>1. Init => \A k \in Keys : manifests[k] # Torn /\ results[k] # Torn
  BY EmptyIs, Constants DEF Init
<1> QED
  BY <1>1 DEF Whole

LEMMA WholeStep == Typed /\ Company /\ Sees /\ Whole /\ [Next]_vars => Whole'
<1> SUFFICES ASSUME Typed, Company, Sees, Whole, [Next]_vars PROVE Whole'
  OBVIOUS
<1>1. CASE UNCHANGED vars
  BY <1>1 DEF vars, files, history, Whole, Busy, At, Key
<1>2. CASE Exit
  <2>1. UNCHANGED <<world, manifests, results>>
    BY <1>2 DEF Exit, calm, files
  <2>2. \A c \in Busy : call[c].at \in {"write", "writeResult"} => Key(c) \in hurt'
    BY <1>2 DEF Exit
  <2>3. hurt \subseteq hurt'
    BY <1>2 DEF Exit
  <2> QED
    BY <2>1, <2>2, <2>3 DEF Whole, At
<1>3. ASSUME NEW c \in Callers, Start(c) PROVE Whole'
  <2>1. UNCHANGED <<world, manifests, results, hurt>>
    BY <1>3 DEF Start, Get, Put, Invalidate, Through, Clear, Begin, files
  <2>2. Busy \subseteq Busy' /\ c \notin Busy /\ \A d \in Callers : d # c => call'[d] = call[d]
    BY <1>3, StartLoud DEF Busy
  <2>3. \A d \in Busy : call'[d] = call[d] /\ d \in Busy'
    BY <2>2 DEF Busy
  <2> QED
    BY <2>1, <2>3 DEF Whole, At, Key
<1>4. ASSUME NEW c \in Callers, Goes(c) PROVE Whole'
  <2> SUFFICES ASSUME "overlap" \notin world, NEW k \in Keys
               PROVE  /\ manifests'[k] = Torn =>
                           k \in hurt' \/ \E d \in Busy' : At(d, "write")' /\ call'[d].key = k
                      /\ results'[k] = Torn =>
                           k \in hurt' \/ \E d \in Busy' : At(d, "writeResult")' /\ call'[d].key = k
    BY <1>4, GoesIs DEF Whole, Key
  <2>1. c \in Busy /\ Alone(c) /\ Busy = {c} /\ SeesRight(c)
    BY <1>4, BusyAfter DEF Company, Sees, Alone
  <2>2. hurt \subseteq hurt' /\ (WriteFails(c) => Key(c) \in hurt')
    BY <1>4, HurtGrows DEF WriteFails
  <2>3. /\ Open(c) => c \in Busy' /\ At(c, "write")' /\ call'[c].key = Key(c)
        /\ OpenResult(c) => c \in Busy' /\ At(c, "writeResult")' /\ call'[c].key = Key(c)
    BY GotoIs DEF Open, OpenResult, Typed, Moved, Steps, Busy, At
  <2>4. ASSUME manifests'[k] = Torn, k \notin hurt'
        PROVE  \E d \in Busy' : At(d, "write")' /\ call'[d].key = k
    <3>1. CASE Open(c) /\ k = Key(c)
      BY <2>3, <3>1
    <3>2. CASE manifests[k] = Torn /\ ~(Write(c) /\ k = Key(c))
      <4>1. At(c, "write") /\ Key(c) = k
        BY <2>1, <2>2, <2>4, <3>2 DEF Whole
      <4> QED
        BY <1>4, <2>2, <2>4, <3>2, <4>1, AtWrite
    <3> QED
      BY <1>4, <2>1, <2>4, <3>1, <3>2, Tears
  <2>5. ASSUME results'[k] = Torn, k \notin hurt'
        PROVE  \E d \in Busy' : At(d, "writeResult")' /\ call'[d].key = k
    <3>1. CASE OpenResult(c) /\ k = Key(c)
      BY <2>3, <3>1
    <3>2. CASE results[k] = Torn /\ ~(WriteResult(c) /\ k = Key(c))
      <4>1. At(c, "writeResult") /\ Key(c) = k
        BY <2>1, <2>2, <2>5, <3>2 DEF Whole
      <4> QED
        BY <1>4, <2>2, <2>5, <3>2, <4>1, AtWrite
    <3> QED
      BY <1>4, <2>1, <2>5, <3>1, <3>2, Tears
  <2> QED
    BY <2>4, <2>5
<1> QED
  BY <1>1, <1>2, <1>3, <1>4, StepsAre

LEMMA CutsThrowStep ==
    Typed /\ Company /\ Sees /\ Whole /\ OnlyCutsThrow /\ [Next]_vars => OnlyCutsThrow'
<1> SUFFICES ASSUME Typed, Company, Sees, Whole, OnlyCutsThrow, [Next]_vars PROVE OnlyCutsThrow'
  OBVIOUS
<1>1. CASE UNCHANGED vars
  BY <1>1 DEF vars, history, OnlyCutsThrow, At, Key
<1>2. CASE Exit
  <2>1. \A c \in Callers : call'[c] = Idle
    BY <1>2 DEF Exit
  <2> QED
    BY <2>1, IdleCall DEF OnlyCutsThrow, At
<1>3. ASSUME NEW c \in Callers, Start(c) PROVE OnlyCutsThrow'
  <2>1. UNCHANGED <<world, hurt>>
    BY <1>3 DEF Start, Get, Put, Invalidate, Through, Clear, Begin
  <2> QED
    BY <1>3, <2>1, StartLoud DEF OnlyCutsThrow, At, Key
<1>4. ASSUME NEW c \in Callers, Goes(c) PROVE OnlyCutsThrow'
  <2> SUFFICES ASSUME "overlap" \notin world, NEW d \in Callers, At(d, "thrown")'
               PROVE  IF call'[d].op \in Listing THEN hurt' # {} ELSE call'[d].key \in hurt'
    BY <1>4, GoesIs DEF OnlyCutsThrow, Key
  <2>1. c \in Busy /\ Busy = {c} /\ SeesRight(c)
    BY <1>4, BusyAfter DEF Company, Sees, Alone
  <2>2. hurt \subseteq hurt'
    BY <1>4, HurtGrows
  <2>3. CASE d # c
    <3>1. call'[d] = call[d]
      BY <1>4, <2>3, GoesIs
    <3> QED
      BY <2>2, <3>1 DEF OnlyCutsThrow, At, Key
  <2>4. CASE d = c
    <3>1. Throw(c) \/ WriteFails(c)
      <4>1. call'[c].at = "thrown"
        BY <2>4 DEF At
      <4>2. ~(Walk(c) \/ Lookup(c) \/ Keep(c) \/ Fetch(c) \/ Discard(c) \/ Catch(c))
        <5>1. ~Walk(c)
          BY <4>1, WalkAdvances, IdleCall
        <5>2. ~Lookup(c)
          BY <4>1, LookupAdvances DEF Advances
        <5>3. ~Keep(c)
          BY <4>1, KeepAdvances, IdleCall DEF Advances
        <5>4. ~Fetch(c)
          BY <4>1, FetchAdvances, IdleCall DEF Advances
        <5>5. ~Discard(c)
          BY <4>1, DiscardAdvances, IdleCall DEF Advances
        <5>6. ~Catch(c)
          BY <4>1, FinishIs, IdleCall DEF Catch, Typed
        <5> QED
          BY <5>1, <5>2, <5>3, <5>4, <5>5, <5>6
      <4> QED
        BY <1>4, <4>2 DEF Goes
    <3>2. call'[c].op = call[c].op /\ call'[c].key = Key(c)
      BY <3>1, GotoIs DEF Throw, WriteFails, Typed, Moved, Steps
    <3>3. CASE WriteFails(c)
      BY <2>4, <3>2, <3>3 DEF WriteFails
    <3>4. CASE Throw(c)
      <4>1. hurt' = hurt
        BY <3>4 DEF Throw, history
      <4>2. ~At(c, "write") /\ ~At(c, "writeResult")
        BY <3>4 DEF Throw, At
      <4>3. \A k \in Keys : (manifests[k] = Torn => k \in hurt) /\ (results[k] = Torn => k \in hurt)
        BY <2>1, <4>2 DEF Whole
      <4>4. /\ \A k \in Keys : manifests[k] \in Statuses \cup {None, Torn}
            /\ \A k \in Keys : results[k] \in Results \cup {None, Torn}
        BY DEF Typed, TypeOK
      <4>5. CASE At(c, "scan") /\ \E k \in call[c].todo : manifests[k] \notin Statuses
        <5>1. PICK k \in call[c].todo : manifests[k] \notin Statuses
          BY <4>5
        <5>2. k \in Keys /\ manifests[k] # None
          BY <2>1, <4>5, CallIs DEF SeesRight, WalksRight, Typed
        <5>3. call[c].op \in Listing
          BY <4>5, OpAt DEF At
        <5> QED
          BY <2>4, <3>2, <4>1, <4>3, <4>4, <5>1, <5>2, <5>3
      <4>6. CASE At(c, "readManifest") /\ manifests[Key(c)] \notin Statuses
        <5>1. manifests[Key(c)] # None /\ Key(c) \in Keys
          BY <2>1, <4>6, OpAt DEF SeesRight, LooksRight, At, Looking
        <5> QED
          BY <2>4, <3>2, <4>1, <4>3, <4>4, <4>6, <5>1
      <4>7. CASE At(c, "readResult") /\ results[Key(c)] \notin Results
        <5>1. results[Key(c)] # None /\ Key(c) \in Keys
          BY <2>1, <4>7, OpAt DEF SeesRight, FetchesRight, At, Fetching
        <5> QED
          BY <2>4, <3>2, <4>1, <4>3, <4>4, <4>7, <5>1
      <4>8. CASE (At(c, "unlink") /\ manifests[Key(c)] = None)
                 \/ (At(c, "unlinkResult") /\ results[Key(c)] = None)
        BY <2>1, <4>8 DEF SeesRight, WalksRight
      <4>9. CASE At(c, "clear") /\ Busy # {c}
        BY <2>1, <4>9
      <4> QED
        BY <3>4, <4>5, <4>6, <4>7, <4>8, <4>9 DEF Throw
    <3> QED
      BY <3>1, <3>3, <3>4
  <2> QED
    BY <2>3, <2>4
<1> QED
  BY <1>1, <1>2, <1>3, <1>4, StepsAre

LEMMA AlwaysWhole == Spec => []Whole
<1>1. Kept /\ Whole /\ [Next]_vars => Whole'
  BY WholeStep DEF Kept
<1> QED
  BY <1>1, WholeInit, AlwaysKept, PTL DEF Spec

(* Where calls do not overlap, a call throws only after a write was cut or *)
(* failed: what it throws on is a torn file, never one that went away.     *)
THEOREM CutsThrow == Spec => []OnlyCutsThrow
<1>1. Init => OnlyCutsThrow
  BY IdleCall DEF Init, OnlyCutsThrow, At
<1>2. Kept /\ Whole /\ OnlyCutsThrow /\ [Next]_vars => OnlyCutsThrow'
  BY CutsThrowStep DEF Kept
<1> QED
  BY <1>1, <1>2, AlwaysKept, AlwaysWhole, PTL DEF Spec

-----------------------------------------------------------------------------
(* The cache as a map, where calls neither overlap nor fail.               *)

\* While c writes or removes a file, memory and file may differ.
Apart(c, k) ==
    \/ At(c, "clear")
    \/ Key(c) = k /\ call[c].at \in {"write", "remember", "askResult", "unlinkResult", "forget"}

ResultsApart(c, k) ==
    At(c, "clear") \/ (Key(c) = k /\ call[c].at \in {"writeResult", "rememberResult", "forget"})

SyncedBut(c, k) ==
    /\ manifestMemory[k] \in {None, manifests[k]} \/ Apart(c, k)
    /\ resultMemory[k] \in {None, results[k]} \/ ResultsApart(c, k)

Synced(k) == manifestMemory[k] \in {None, manifests[k]} /\ resultMemory[k] \in {None, results[k]}

\* What prune goes through is not valid.
PrunesRight(c) ==
    call[c].op = "prune" =>
        /\ At(c, "scan") => \A k \in call[c].rest \ call[c].todo : manifests[k] # "valid"
        /\ call[c].at \notin {"list", "scan", "thrown"} => \A k \in call[c].rest : manifests[k] # "valid"
        /\ call[c].at \in Discarding => manifests[Key(c)] # "valid"
        /\ call[c].at \in {"askResult", "unlinkResult", "forget"} => manifestMemory[Key(c)] # "valid"

\* A lookup tells what the map holds.
TellsRight(c) == At(c, "tell") => call[c].value = View(Key(c))

\* A step of c changes no entry, or takes it away; the entry a put replaces is
\* the one from before, until the put is done.
Leaves(c) == \A k \in Keys : (call[c].op = "put" /\ k = Key(c)) \/ View(k)' \in {View(k), None}

Follows(c) == (\A k \in Keys : SyncedBut(c, k)) /\ PrunesRight(c) /\ TellsRight(c)

LEMMA ViewStays ==
    ASSUME NEW k \in Keys, manifestMemory'[k] = manifestMemory[k], resultMemory'[k] = resultMemory[k],
           manifestMemory[k] # None \/ manifests'[k] = manifests[k], results'[k] = results[k]
    PROVE  View(k)' = View(k)
  BY DEF View

LEMMA WalkFollows ==
    ASSUME Typed, NEW c \in Callers, Walk(c), Follows(c) PROVE Follows(c)' /\ Leaves(c)
<1>0. TypeOK /\ UNCHANGED <<manifests, results, manifestMemory, resultMemory>>
  BY DEF Typed, Walk, List, Scan, Listed, NextKey, files, memory
<1>1. call[c].at \in {"list", "scan", "next"}
  BY DEF Walk, List, Scan, Listed, NextKey, At
<1>2. \A k \in Keys : SyncedBut(c, k)'
  BY <1>0, <1>1 DEF Follows, SyncedBut, Apart, ResultsApart, At
<1>3. Leaves(c)
  BY <1>0, ViewStays DEF Leaves
<1>4. call'[c].at \in {"scan", "next", "unlink", "seek", "idle"}
  BY WalkAdvances, IdleCall
<1>5. TellsRight(c)'
  BY <1>4 DEF TellsRight, At
<1>6. PrunesRight(c)'
  <2>1. CASE List(c)
    <3>1. call'[c].at = "scan" /\ call'[c].rest \subseteq call'[c].todo
      BY <1>0, <2>1, ListIs DEF Moved
    <3> QED
      BY <3>1 DEF PrunesRight, At, Discarding
  <2>2. CASE Scan(c)
    <3>1. PICK k \in call[c].todo :
             /\ manifests[k] \in Statuses
             /\ Moved(c, "scan", Key(c), call[c].status, call[c].value, call[c].todo \ {k},
                      IF call[c].op = "prune" /\ manifests[k] = "valid"
                      THEN call[c].rest \ {k} ELSE call[c].rest)
      BY <1>0, <2>2, ScanIs
    <3>2. /\ call'[c].at = "scan" /\ call'[c].op = call[c].op /\ call'[c].todo = call[c].todo \ {k}
          /\ call'[c].rest = (IF call[c].op = "prune" /\ manifests[k] = "valid"
                              THEN call[c].rest \ {k} ELSE call[c].rest)
          /\ call[c].at = "scan"
      BY <2>2, <3>1 DEF Moved, Scan, At
    <3>3. ASSUME call[c].op = "prune", NEW j \in call'[c].rest \ call'[c].todo
          PROVE  manifests[j] # "valid"
      <4>1. CASE j = k
        BY <3>2, <3>3, <4>1
      <4>2. CASE j # k
        BY <3>2, <3>3, <4>2 DEF Follows, PrunesRight, At
      <4> QED
        BY <4>1, <4>2
    <3> QED
      BY <1>0, <3>2, <3>3 DEF PrunesRight, At, Discarding
  <2>3. CASE Listed(c)
    <3>1. /\ call'[c].at = "next" /\ call'[c].op = call[c].op /\ call'[c].rest = call[c].rest
          /\ call[c].at = "scan" /\ call[c].todo = {}
      BY <1>0, <2>3, GotoIs DEF Listed, Moved, Steps, At
    <3> QED
      BY <1>0, <3>1 DEF Follows, PrunesRight, At, Discarding
  <2>4. CASE NextKey(c)
    <3>1. CASE Finish(c)
      BY <1>0, <3>1, FinishIs, IdleCall DEF PrunesRight
    <3>2. ASSUME NEW k \in call[c].rest,
                 Moved(c, IF call[c].op = "prune" THEN "unlink" ELSE "seek", k, call[c].status,
                       call[c].value, call[c].todo, call[c].rest \ {k})
          PROVE  PrunesRight(c)'
      <4>1. /\ call'[c].op = call[c].op /\ call'[c].key = k /\ call'[c].rest \subseteq call[c].rest
            /\ call'[c].at = IF call[c].op = "prune" THEN "unlink" ELSE "seek"
            /\ call[c].at = "next"
        BY <2>4, <3>2 DEF Moved, NextKey, At
      <4> QED
        BY <1>0, <3>2, <4>1 DEF Follows, PrunesRight, At, Key, Discarding
    <3> QED
      BY <1>0, <2>4, <3>1, <3>2, NextKeyIs
  <2> QED
    BY <2>1, <2>2, <2>3, <2>4 DEF Walk
<1> QED
  BY <1>2, <1>3, <1>5, <1>6 DEF Follows

LEMMA LookupFollows ==
    ASSUME Typed, NEW c \in Callers, Lookup(c), SeesRight(c), Follows(c)
    PROVE  Follows(c)' /\ Leaves(c)
<1>0. /\ TypeOK /\ manifests' = manifests /\ results' = results /\ call[c].at \in Looking
      /\ Key(c) \in Keys /\ call[c].op # "prune" /\ call[c].op # "put" /\ call[c].value = None
  <2>1. call[c].at \in Looking
    BY DEF Lookup, Seek, Ask, ReadManifest, Found, Missed, NothingToInvalidate, At, Looking
  <2>2. UNCHANGED files
    BY DEF Lookup, Seek, Ask, ReadManifest, Found, Missed, NothingToInvalidate
  <2>3. call[c].op \notin {"put", "prune"} /\ Key(c) \in Keys /\ call[c].at # "tell"
    BY <2>1, OpAt DEF Invalidating, Looking
  <2>4. call[c].value = None
    BY <2>3 DEF Typed, Shaped
  <2> QED
    BY <2>1, <2>2, <2>3, <2>4 DEF files, Typed
<1>1. Advances(c) /\ call'[c].value = call[c].value
  BY LookupAdvances
<1>2. \A k \in Keys : Synced(k)
  BY <1>0 DEF Follows, SyncedBut, Apart, ResultsApart, At, Looking, Synced
<1>3. PrunesRight(c)'
  BY <1>0, <1>1 DEF PrunesRight, Advances
<1>4. CASE Seek(c) \/ Ask(c) \/ Found(c) \/ NothingToInvalidate(c)
  <2>1. UNCHANGED <<manifestMemory, resultMemory>>
    BY <1>4 DEF Seek, Ask, Found, NothingToInvalidate, memory
  <2>2. call'[c].at # "tell"
    <3>1. CASE Seek(c)
      BY <3>1, SeekIs DEF Moved
    <3>2. CASE Ask(c)
      <4>1. PICK at \in {"decide", "readManifest"} : Goto(c, at)
        BY <3>2 DEF Ask
      <4> QED
        BY <1>0, <4>1, GotoIs DEF Moved, Steps
    <3>3. CASE Found(c) \/ NothingToInvalidate(c)
      BY <3>3, LookupAdvances
    <3> QED
      BY <1>4, <3>1, <3>2, <3>3
  <2> QED
    BY <1>0, <1>2, <1>3, <2>1, <2>2, ViewStays
       DEF Follows, SyncedBut, Synced, TellsRight, Leaves, At
<1>5. CASE ReadManifest(c)
  <2>1. /\ resultMemory' = resultMemory
        /\ manifestMemory' = [manifestMemory EXCEPT ![Key(c)] = manifests[Key(c)]]
        /\ manifestMemory[Key(c)] = None
    BY <1>5 DEF ReadManifest, SeesRight, LooksRight
  <2>2. \A k \in Keys : Synced(k)' /\ View(k)' = View(k)
    BY <1>0, <1>2, <2>1 DEF Synced, View, TypeOK
  <2>3. call'[c].at = "decide"
    BY <1>0, <1>5, ReadManifestIs DEF Moved
  <2> QED
    BY <1>3, <2>2, <2>3 DEF Follows, SyncedBut, Synced, TellsRight, Leaves, At
<1>6. CASE Missed(c)
  <2>1. /\ \A k \in Keys : manifestMemory'[k] \in {manifestMemory[k], None}
                           /\ resultMemory'[k] \in {resultMemory[k], None}
    BY <1>0, <1>6 DEF Missed, memory, TypeOK
  <2>2. \A k \in Keys : Synced(k)'
    BY <1>0, <1>2, <2>1 DEF Synced
  <2>3. /\ call[c].status # "valid" /\ manifestMemory[Key(c)] = call[c].status
        /\ call[c].status = None => manifests[Key(c)] = None
    BY <1>6 DEF Missed, SeesRight, LooksRight
  <2>4. manifests[Key(c)] # "valid" /\ manifestMemory[Key(c)] # "valid" /\ "valid" # None
    <3>1. "valid" # None
      BY Constants DEF Statuses
    <3> QED
      BY <1>0, <1>2, <2>3, <3>1 DEF Synced
  <2>5. View(Key(c)) = None
    BY <2>4 DEF View
  <2>6. ASSUME NEW k \in Keys PROVE View(k)' \in {View(k), None}
    <3>1. CASE k = Key(c)
      BY <1>0, <2>1, <2>4, <3>1 DEF View
    <3>2. CASE k # Key(c)
      BY <1>0, <1>6, <3>2, ViewStays DEF Missed, memory, TypeOK
    <3> QED
      BY <3>1, <3>2
  <2>7. TellsRight(c)'
    <3>1. PICK k \in Keys : k = Key(c)
      BY <1>0
    <3>2. View(k)' = None
      BY <2>5, <2>6, <3>1
    <3> QED
      BY <1>0, <1>1, <3>1, <3>2 DEF TellsRight, Advances, Key
  <2> QED
    BY <1>3, <2>2, <2>6, <2>7 DEF Follows, SyncedBut, Synced, Leaves
<1> QED
  BY <1>4, <1>5, <1>6 DEF Lookup

\* Before the result is written, an entry only loses what it had.
LEMMA StorageFollows ==
    ASSUME Typed, NEW c \in Callers, Open(c) \/ Write(c) \/ Remember(c), SeesRight(c), Follows(c)
    PROVE  Follows(c)' /\ Leaves(c)
<1>0. /\ TypeOK /\ results' = results /\ resultMemory' = resultMemory /\ call[c].at \in Storage
      /\ Key(c) \in Keys /\ call[c].op \in Invalidating \cup {"get", "put"}
      /\ "valid" # None
  <2>1. call[c].at \in Storage /\ results' = results /\ resultMemory' = resultMemory
    BY DEF Open, Write, Remember, At, Storage, memory, files
  <2> QED
    BY <2>1, OpAt, Constants DEF Typed, Statuses
<1>1. PICK at \in {"write", "remember", "openResult", "seekValue", "drop"} :
          Goto(c, at) /\ (Open(c) => at = "write") /\ (Write(c) => at = "remember")
  BY DEF Open, Write, Remember, At
<1>2. call'[c].at = at /\ call'[c].op = call[c].op /\ call'[c].key = call[c].key
      /\ call'[c].status = call[c].status
  BY <1>1, GotoAdvances DEF Steps, Advances
<1>3. PrunesRight(c)' /\ TellsRight(c)'
  BY <1>0, <1>2 DEF PrunesRight, TellsRight, At, Invalidating
<1>4. \A k \in Keys : resultMemory[k] \in {None, results[k]}
  BY <1>0 DEF Follows, SyncedBut, ResultsApart, At, Storage
<1>5. CASE Open(c) \/ Write(c)
  <2>1. PICK new : manifests' = [manifests EXCEPT ![Key(c)] = new]
    BY <1>5 DEF Open, Write
  <2>2. manifestMemory' = manifestMemory
    BY <1>5 DEF Open, Write, memory
  <2>3. ASSUME NEW k \in Keys PROVE SyncedBut(c, k)'
    <3>1. CASE k = Key(c)
      <4>1. Apart(c, k)'
        BY <1>1, <1>2, <1>5, <3>1 DEF Apart, Key
      <4> QED
        BY <1>0, <1>4, <4>1 DEF SyncedBut
    <3>2. CASE k # Key(c)
      <4>1. ~Apart(c, k)
        BY <1>0, <3>2 DEF Apart, At, Storage
      <4> QED
        BY <1>0, <1>4, <2>1, <2>2, <3>2, <4>1 DEF Follows, SyncedBut, TypeOK
    <3> QED
      BY <3>1, <3>2
  <2>4. ASSUME NEW k \in Keys PROVE (call[c].op = "put" /\ k = Key(c)) \/ View(k)' = View(k)
    <3>1. CASE k = Key(c) /\ call[c].op # "put"
      <4>1. manifestMemory[k] # None
        BY <1>0, <3>1 DEF SeesRight, StoresRight
      <4> QED
        BY <1>0, <2>2, <4>1, ViewStays
    <3>2. CASE k # Key(c)
      BY <1>0, <2>1, <2>2, <3>2, ViewStays DEF TypeOK
    <3> QED
      BY <3>1, <3>2
  <2> QED
    BY <1>3, <2>3, <2>4 DEF Follows, Leaves
<1>6. CASE Remember(c)
  <2>1. /\ manifests' = manifests /\ call[c].at = "remember"
        /\ manifestMemory' = [manifestMemory EXCEPT ![Key(c)] = call[c].status]
    BY <1>6 DEF Remember, files, At
  <2>2. manifests[Key(c)] = call[c].status
    BY <2>1 DEF SeesRight, StoresRight, At
  <2>3. ASSUME NEW k \in Keys PROVE SyncedBut(c, k)'
    <3>1. CASE k = Key(c)
      BY <1>0, <1>4, <2>1, <2>2, <3>1 DEF SyncedBut, TypeOK
    <3>2. CASE k # Key(c)
      <4>1. ~Apart(c, k)
        BY <2>1, <3>2 DEF Apart, At
      <4> QED
        BY <1>0, <1>4, <2>1, <3>2, <4>1 DEF Follows, SyncedBut, TypeOK
    <3> QED
      BY <3>1, <3>2
  <2>4. ASSUME NEW k \in Keys PROVE (call[c].op = "put" /\ k = Key(c)) \/ View(k)' \in {View(k), None}
    <3>1. CASE k # Key(c)
      BY <1>0, <2>1, <3>1, ViewStays DEF TypeOK
    <3>2. CASE k = Key(c) /\ call[c].op = "get"
      <4>1. manifestMemory[k] = "valid" /\ call[c].status = "valid"
        BY <1>0, <3>2 DEF SeesRight, StoresRight, Typed, Shaped, Invalidating
      <4> QED
        BY <1>0, <2>1, <3>2, <4>1, ViewStays DEF TypeOK
    <3>3. CASE k = Key(c) /\ call[c].op \in Invalidating
      <4>1. call[c].status = "invalidated"
        BY <1>0, <3>3 DEF Typed, Shaped
      <4>2. manifestMemory'[k] = "invalidated" /\ "invalidated" # None
        BY <1>0, <2>1, <3>3, <4>1, Constants DEF TypeOK, Statuses
      <4> QED
        BY <4>2 DEF View
    <3> QED
      BY <1>0, <3>1, <3>2, <3>3
  <2> QED
    BY <1>3, <2>3, <2>4 DEF Follows, Leaves
<1> QED
  BY <1>5, <1>6

LEMMA KeepFollows ==
    ASSUME Typed, NEW c \in Callers, Keep(c), SeesRight(c), Follows(c)
    PROVE  Follows(c)' /\ Leaves(c)
<1>0. TypeOK /\ "valid" # None
  BY Constants DEF Typed, Statuses
<1>1. CASE Open(c) \/ Write(c) \/ Remember(c)
  BY <1>1, StorageFollows
<1>2. CASE Drop(c)
  <2>1. /\ call[c].at = "drop" /\ call[c].op \in Invalidating /\ Key(c) \in Keys
        /\ manifests' = manifests /\ results' = results /\ manifestMemory' = manifestMemory
        /\ resultMemory' = [resultMemory EXCEPT ![Key(c)] = None]
        /\ manifestMemory[Key(c)] = "invalidated"
    BY <1>2, OpAt DEF Drop, At, files, SeesRight, StoresRight
  <2>2. call'[c].at = "next" /\ call'[c].op = call[c].op
    BY <1>2, GotoAdvances DEF Drop, Steps, Advances
  <2>3. PrunesRight(c)' /\ TellsRight(c)'
    BY <2>1, <2>2 DEF PrunesRight, TellsRight, At, Invalidating
  <2>4. ASSUME NEW k \in Keys PROVE SyncedBut(c, k)'
    <3>1. ~Apart(c, k) /\ ~ResultsApart(c, k)
      BY <2>1 DEF Apart, ResultsApart, At
    <3> QED
      BY <1>0, <2>1, <3>1 DEF Follows, SyncedBut, TypeOK
  <2>5. ASSUME NEW k \in Keys PROVE View(k)' \in {View(k), None}
    <3>1. "invalidated" # None
      BY Constants DEF Statuses
    <3> QED
      BY <1>0, <2>1, <3>1 DEF View, TypeOK
  <2> QED
    BY <2>3, <2>4, <2>5 DEF Follows, Leaves
<1>3. CASE OpenResult(c) \/ WriteResult(c) \/ RememberResult(c)
  <2>1. call[c].at \in Keeping /\ call[c].op = "put" /\ Key(c) \in Keys
    <3>1. call[c].at \in Keeping
      BY <1>3 DEF OpenResult, WriteResult, RememberResult, At, Keeping
    <3> QED
      BY <3>1, OpAt
  <2>2. UNCHANGED <<manifests, manifestMemory>>
    BY <1>3 DEF OpenResult, WriteResult, RememberResult, files, memory
  <2>3. \/ /\ call'[c].at \in {"writeResult", "rememberResult"} /\ call'[c].key = call[c].key
           /\ call'[c].op = call[c].op /\ ~RememberResult(c)
        \/ RememberResult(c) /\ call'[c] = Idle
    <3>1. CASE RememberResult(c)
      BY <1>0, <3>1, FinishIs DEF RememberResult
    <3>2. CASE OpenResult(c) \/ WriteResult(c)
      <4>1. PICK at \in {"writeResult", "rememberResult"} : Goto(c, at)
        BY <3>2 DEF OpenResult, WriteResult
      <4>2. ~RememberResult(c)
        BY <3>2 DEF OpenResult, WriteResult, RememberResult, At
      <4>3. at \in Steps \ {"idle", "thrown"}
        BY <4>1 DEF Steps
      <4> QED
        BY <4>1, <4>2, <4>3, GotoAdvances DEF Advances
    <3> QED
      BY <1>3, <3>1, <3>2
  <2>4. PrunesRight(c)' /\ TellsRight(c)'
    BY <2>1, <2>3, IdleCall DEF PrunesRight, TellsRight, At
  <2>5. ASSUME NEW k \in Keys, k # Key(c) PROVE SyncedBut(c, k)' /\ View(k)' = View(k)
    <3>1. results'[k] = results[k] /\ resultMemory'[k] = resultMemory[k]
      BY <1>0, <1>3, <2>1, <2>5 DEF OpenResult, WriteResult, RememberResult, files, memory, TypeOK
    <3>2. ~Apart(c, k) /\ ~ResultsApart(c, k)
      BY <2>1, <2>5 DEF Apart, ResultsApart, At, Keeping
    <3> QED
      BY <2>2, <3>1, <3>2, ViewStays DEF Follows, SyncedBut
  <2>6. ASSUME NEW k \in Keys, k = Key(c) PROVE SyncedBut(c, k)'
    <3>1. ~Apart(c, k)
      BY <2>1, <2>6 DEF Apart, At, Keeping
    <3>2. manifestMemory'[k] \in {None, manifests'[k]}
      BY <2>2, <3>1 DEF Follows, SyncedBut
    <3>3. CASE ~RememberResult(c)
      BY <2>3, <2>6, <3>2, <3>3 DEF SyncedBut, ResultsApart, Key
    <3>4. CASE RememberResult(c)
      <4>1. results[k] = call[c].value /\ results' = results /\ resultMemory'[k] = call[c].value
        BY <1>0, <2>1, <2>6, <3>4 DEF RememberResult, SeesRight, StoresRight, At, files, TypeOK
      <4> QED
        BY <3>2, <4>1 DEF SyncedBut
    <3> QED
      BY <3>3, <3>4
  <2> QED
    BY <2>1, <2>4, <2>5, <2>6 DEF Follows, Leaves
<1> QED
  BY <1>1, <1>2, <1>3 DEF Keep

LEMMA FetchFollows ==
    ASSUME Typed, NEW c \in Callers, Fetch(c), SeesRight(c), Follows(c)
    PROVE  Follows(c)' /\ Leaves(c)
<1>0. /\ TypeOK /\ "valid" # None
      /\ UNCHANGED <<manifests, results, manifestMemory>>
  BY Constants DEF Typed, Statuses, Fetch, SeekValue, AskValue, ReadResult, Tell, files, memory
<1>1. CASE Tell(c)
  <2>1. resultMemory' = resultMemory /\ call'[c] = Idle /\ call[c].at = "tell"
    BY <1>0, <1>1, FinishIs DEF Tell, memory, At
  <2>2. \A k \in Keys : ~Apart(c, k) /\ ~ResultsApart(c, k)
    BY <2>1 DEF Apart, ResultsApart, At
  <2> QED
    BY <1>0, <2>1, <2>2, ViewStays, IdleCall DEF Follows, SyncedBut, PrunesRight, TellsRight, Leaves, At
<1>2. CASE ~Tell(c)
  <2>1. Advances(c) /\ call[c].at \in Fetching /\ call'[c].at \in {"askValue", "readResult", "tell", "next"}
    BY <1>2, FetchAdvances
  <2>2. call[c].op \in {"get", "warmup"} /\ Key(c) \in Keys /\ manifestMemory[Key(c)] = "valid"
    BY <2>1, OpAt DEF SeesRight, FetchesRight
  <2>3. \A k \in Keys : Synced(k)
    BY <2>1 DEF Follows, SyncedBut, Apart, ResultsApart, At, Fetching, Synced
  <2>4. View(Key(c)) = IF resultMemory[Key(c)] # None THEN resultMemory[Key(c)] ELSE results[Key(c)]
    BY <1>0, <2>2 DEF View
  <2>5. PrunesRight(c)'
    BY <2>1, <2>2 DEF PrunesRight, Advances
  <2>6. /\ \A k \in Keys : Synced(k)' /\ View(k)' = View(k)
        /\ call'[c].at = "tell" => call'[c].value = View(Key(c))
    <3>1. CASE ReadResult(c)
      <4>1. /\ resultMemory' = [resultMemory EXCEPT ![Key(c)] = results[Key(c)]]
            /\ resultMemory[Key(c)] = None /\ results[Key(c)] \in Results
            /\ HaveValue(c, results[Key(c)])
        BY <3>1 DEF ReadResult, SeesRight, FetchesRight, At
      <4>2. ASSUME NEW k \in Keys PROVE Synced(k)' /\ View(k)' = View(k)
        BY <1>0, <2>2, <2>3, <4>1 DEF Synced, View, TypeOK
      <4>3. call'[c].at = "tell" => call'[c].value = results[Key(c)]
        BY <1>0, <4>1, HaveValueIs DEF Moved
      <4> QED
        BY <2>4, <4>1, <4>2, <4>3
    <3>2. CASE SeekValue(c) \/ AskValue(c)
      <4>1. resultMemory' = resultMemory
        BY <3>2 DEF SeekValue, AskValue, memory
      <4>2. ASSUME NEW v \in Results \cup {None}, HaveValue(c, v)
            PROVE  call'[c].at = "tell" => call'[c].value = v
        BY <1>0, <4>2, HaveValueIs DEF Moved
      <4>3. ASSUME NEW step \in {"askValue", "readResult"}, Goto(c, step) PROVE call'[c].at # "tell"
        BY <4>3, GotoAdvances DEF Steps
      <4>4. call'[c].at = "tell" => call'[c].value = View(Key(c))
        <5>1. CASE SeekValue(c)
          <6>1. resultMemory[Key(c)] \in Results \cup {None}
            BY <1>0, <2>2 DEF TypeOK
          <6> QED
            BY <2>4, <4>2, <4>3, <5>1, <6>1 DEF SeekValue
        <5>2. CASE AskValue(c)
          <6>1. resultMemory[Key(c)] = None
            BY <5>2 DEF AskValue, At, SeesRight, FetchesRight
          <6> QED
            BY <2>4, <4>2, <4>3, <5>2, <6>1 DEF AskValue
        <5> QED
          BY <3>2, <5>1, <5>2
      <4> QED
        BY <1>0, <2>3, <4>1, <4>4, ViewStays DEF Synced
    <3> QED
      BY <1>2, <3>1, <3>2 DEF Fetch
  <2>7. TellsRight(c)'
    <3>1. PICK k \in Keys : k = Key(c)
      BY <2>2
    <3> QED
      BY <2>1, <2>6, <3>1 DEF TellsRight, Advances, Key, At
  <2> QED
    BY <2>5, <2>6, <2>7 DEF Follows, SyncedBut, Synced, Leaves
<1> QED
  BY <1>1, <1>2

LEMMA DiscardFollows ==
    ASSUME Typed, NEW c \in Callers, Discard(c), SeesRight(c), Follows(c)
    PROVE  Follows(c)' /\ Leaves(c)
<1>0. TypeOK /\ "valid" # None
  BY Constants DEF Typed, Statuses
<1>1. CASE Unlink(c) \/ AskResult(c) \/ UnlinkResult(c) \/ Forget(c)
  <2>1. call[c].at \in Discarding /\ call[c].op = "prune" /\ Key(c) \in Keys
    <3>1. call[c].at \in Discarding
      BY <1>1 DEF Unlink, AskResult, UnlinkResult, Forget, At, Discarding
    <3> QED
      BY <3>1, OpAt
  <2>2. PICK at \in {"askResult", "forget", "unlinkResult", "next"} :
            /\ Goto(c, at)
            /\ Unlink(c) => at = "askResult"
            /\ AskResult(c) => at \in {"forget", "unlinkResult"} /\ (at = "forget" => results[Key(c)] = None)
            /\ UnlinkResult(c) => at = "forget"
            /\ Forget(c) => at = "next"
    BY <1>1 DEF Unlink, AskResult, UnlinkResult, Forget, At
  <2>3. /\ call'[c].at = at /\ call'[c].op = call[c].op /\ call'[c].key = call[c].key
        /\ call'[c].rest = call[c].rest
    BY <1>0, <2>2, GotoIs DEF Steps, Moved, Key
  <2>4. manifests[Key(c)] # "valid" /\ manifestMemory[Key(c)] # "valid"
    <3>1. CASE call[c].at = "unlink"
      <4>1. manifestMemory[Key(c)] \in {None, manifests[Key(c)]}
        BY <2>1, <3>1 DEF Follows, SyncedBut, Apart, At
      <4> QED
        BY <1>0, <2>1, <4>1 DEF Follows, PrunesRight
    <3>2. CASE call[c].at # "unlink"
      BY <2>1, <3>2 DEF Follows, PrunesRight, Discarding
    <3> QED
      BY <3>1, <3>2
  <2>5. ASSUME NEW k \in Keys
        PROVE  /\ manifests'[k] \in {manifests[k], None} /\ results'[k] \in {results[k], None}
               /\ manifestMemory'[k] \in {manifestMemory[k], None}
               /\ resultMemory'[k] \in {resultMemory[k], None}
               /\ k # Key(c) => /\ manifests'[k] = manifests[k] /\ results'[k] = results[k]
                                /\ manifestMemory'[k] = manifestMemory[k]
                                /\ resultMemory'[k] = resultMemory[k]
    BY <1>0, <1>1, <2>1 DEF Unlink, AskResult, UnlinkResult, Forget, memory, files, TypeOK
  <2>6. ASSUME NEW k \in Keys PROVE View(k)' \in {View(k), None}
    <3>1. CASE k = Key(c)
      <4>1. manifests'[k] # "valid" /\ manifestMemory'[k] # "valid"
        BY <1>0, <2>4, <2>5, <3>1
      <4> QED
        BY <4>1 DEF View
    <3>2. CASE k # Key(c)
      BY <2>5, <3>2, ViewStays
    <3> QED
      BY <3>1, <3>2
  <2>7. PrunesRight(c)'
    <3>1. \A k \in call[c].rest : manifests[k] # "valid"
      BY <2>1 DEF Follows, PrunesRight, Discarding
    <3>2. \A k \in call[c].rest : manifests'[k] # "valid"
      BY <1>0, <2>5, <3>1, CallIs
    <3>3. PICK k \in Keys : k = Key(c)
      BY <2>1
    <3>4. manifests'[k] # "valid" /\ manifestMemory'[k] # "valid"
      BY <1>0, <2>4, <2>5, <3>3
    <3> QED
      BY <2>2, <2>3, <3>2, <3>3, <3>4 DEF PrunesRight, Key, At, Discarding
  <2>8. TellsRight(c)'
    BY <2>2, <2>3 DEF TellsRight, At
  <2>9. ASSUME NEW k \in Keys, k # Key(c) PROVE SyncedBut(c, k)'
    <3>1. ~Apart(c, k) /\ ~ResultsApart(c, k)
      BY <2>1, <2>9 DEF Apart, ResultsApart, At, Discarding
    <3> QED
      BY <2>5, <2>9, <3>1 DEF Follows, SyncedBut
  <2>10. ASSUME NEW k \in Keys, k = Key(c) PROVE SyncedBut(c, k)'
    <3>1. CASE Forget(c)
      <4>1. manifestMemory'[k] = None /\ resultMemory'[k] = None
        BY <1>0, <2>1, <2>10, <3>1, EmptyIs DEF Forget, TypeOK
      <4> QED
        BY <4>1 DEF SyncedBut
    <3>2. CASE ~Forget(c)
      <4>1. Apart(c, k)'
        BY <1>1, <2>2, <2>3, <2>10, <3>2 DEF Apart, Key
      <4>2. CASE UnlinkResult(c)
        BY <2>2, <2>3, <2>10, <4>1, <4>2 DEF SyncedBut, ResultsApart, Key
      <4>3. CASE Unlink(c) \/ AskResult(c)
        <5>1. resultMemory' = resultMemory /\ results' = results /\ call[c].at # "forget"
          BY <4>3 DEF Unlink, AskResult, memory, files, At
        <5>2. resultMemory[k] \in {None, results[k]}
          BY <2>1, <5>1 DEF Follows, SyncedBut, ResultsApart, At, Discarding
        <5> QED
          BY <4>1, <5>1, <5>2 DEF SyncedBut
      <4> QED
        BY <1>1, <3>2, <4>2, <4>3
    <3> QED
      BY <3>1, <3>2
  <2> QED
    BY <2>6, <2>7, <2>8, <2>9, <2>10 DEF Follows, Leaves
<1>2. CASE Remove(c)
  <2>1. /\ call' = call /\ At(c, "clear") /\ UNCHANGED <<manifestMemory, resultMemory>>
        /\ call[c].op = "clear"
    BY <1>2, OpAt DEF Remove, memory
  <2>2. ASSUME NEW k \in Keys
        PROVE  manifests'[k] \in {manifests[k], None} /\ results'[k] \in {results[k], None}
    BY <1>0, <1>2 DEF Remove, TypeOK
  <2>3. ASSUME NEW k \in Keys PROVE View(k)' \in {View(k), None}
    BY <1>0, <2>1, <2>2 DEF View
  <2>4. \A k \in Keys : SyncedBut(c, k)'
    BY <2>1 DEF SyncedBut, Apart, ResultsApart, At
  <2>5. PrunesRight(c)' /\ TellsRight(c)'
    BY <2>1 DEF PrunesRight, TellsRight, At
  <2> QED
    BY <2>3, <2>4, <2>5 DEF Follows, Leaves
<1>3. CASE Cleared(c)
  <2>1. /\ call'[c] = Idle
        /\ \A k \in Keys : manifests'[k] = None /\ manifestMemory'[k] = None /\ resultMemory'[k] = None
    BY <1>0, <1>3, FinishIs, EmptyIs DEF Cleared, files
  <2>2. \A k \in Keys : View(k)' = None
    BY <1>0, <2>1 DEF View
  <2>3. \A k \in Keys : SyncedBut(c, k)'
    BY <2>1 DEF SyncedBut
  <2>4. PrunesRight(c)' /\ TellsRight(c)'
    BY <2>1, IdleCall DEF PrunesRight, TellsRight, At
  <2> QED
    BY <2>2, <2>3, <2>4 DEF Follows, Leaves
<1> QED
  BY <1>1, <1>2, <1>3 DEF Discard

(* Where calls neither overlap nor fail: memory holds what the files hold, *)
(* but for what the call under way is about.                               *)
Undisturbed ==
    Calm =>
      /\ hurt = {}
      /\ Busy = {} => \A k \in Keys : Synced(k)
      /\ \A c \in Busy : Busy = {c} /\ SeesRight(c) /\ Follows(c) /\ ~At(c, "thrown")

\* A call alone in the calm.
LEMMA CalmGoes ==
    ASSUME Typed, Undisturbed, Calm, NEW c \in Callers, Goes(c)
    PROVE  /\ c \in Busy /\ Busy = {c} /\ SeesRight(c) /\ Follows(c)
           /\ hurt' = {} /\ ~WriteFails(c) /\ ~Catch(c) /\ world' = world
  BY BusyAfter, GoesIs, HurtGrows DEF Undisturbed, Calm, WriteFails, Catch

LEMMA CalmFollows ==
    ASSUME Typed, Undisturbed, Calm, NEW c \in Callers, Goes(c), ~Throw(c)
    PROVE  Follows(c)' /\ Leaves(c)
  BY CalmGoes, WalkFollows, LookupFollows, KeepFollows, FetchFollows, DiscardFollows DEF Goes

\* In the calm nothing is torn and nothing goes away under a call.
LEMMA CalmThrowsNot ==
    ASSUME Typed, Undisturbed, OnlyCutsThrow', Calm, NEW c \in Callers, Goes(c)
    PROVE  ~At(c, "thrown")' /\ ~Throw(c)
<1>1. hurt' = {} /\ world' = world /\ world = {}
  BY CalmGoes DEF Calm
<1>2. ~At(c, "thrown")'
  BY <1>1 DEF OnlyCutsThrow
<1>3. Throw(c) => At(c, "thrown")'
  BY GotoIs DEF Throw, Typed, Moved, Steps, At
<1> QED
  BY <1>2, <1>3

LEMMA StartFollows ==
    ASSUME Typed, NEW c \in Callers, Start(c), Busy = {}, \A k \in Keys : Synced(k)
    PROVE  /\ Busy' = {c} /\ SeesRight(c)' /\ Follows(c)' /\ ~At(c, "thrown")'
           /\ hurt' = hurt /\ world' = world
<1>1. Busy' = {c} /\ world' = world /\ call'[c].at \in {"open", "seek", "list", "clear"}
  BY StartLoud
<1>2. UNCHANGED <<manifests, results, manifestMemory, resultMemory, hurt>>
  BY DEF Start, Get, Put, Invalidate, Through, Clear, Begin, files, memory
<1>3. \A k \in Keys : SyncedBut(c, k)'
  BY <1>2 DEF SyncedBut, Synced
<1>4. TellsRight(c)' /\ ~At(c, "thrown")'
  BY <1>1 DEF TellsRight, At
<1>5. PrunesRight(c)'
  <2>1. CASE \E k \in Keys : Put(c, k)
    BY <2>1, PutIs DEF PrunesRight
  <2>2. ASSUME NEW new, Readers(new), Begin(c, new) PROVE PrunesRight(c)'
    <3>1. call'[c] = new /\ Shaped(new) /\ new.at \in {"seek", "list", "clear"}
      BY <2>2, ReadersAre DEF Begin, Typed, TypeOK
    <3>2. new.op = "prune" => new.at = "list"
      BY <3>1 DEF Shaped, Fits, Looking, Storage, Keeping, Fetching, Discarding, Invalidating
    <3> QED
      BY <3>1, <3>2 DEF PrunesRight, At, Discarding
  <2> QED
    BY <2>1, <2>2, StartsAre
<1> QED
  BY <1>1, <1>2, <1>3, <1>4, <1>5, StartSees DEF Follows

LEMMA UndisturbedInit == Init => Undisturbed
<1> SUFFICES ASSUME Init PROVE Undisturbed
  OBVIOUS
<1>1. Busy = {} /\ hurt = {}
  BY IdleCall DEF Init, Busy
<1>2. \A k \in Keys : Synced(k)
  BY EmptyIs DEF Init, Synced
<1> QED
  BY <1>1, <1>2 DEF Undisturbed

LEMMA UndisturbedStep ==
    Typed /\ Company /\ Undisturbed /\ OnlyCutsThrow' /\ [Next]_vars => Undisturbed'
<1> SUFFICES ASSUME Typed, Company, Undisturbed, OnlyCutsThrow', [Next]_vars, Calm' PROVE Undisturbed'
  BY DEF Undisturbed
<1>1. CASE UNCHANGED vars
  BY <1>1 DEF vars, files, memory, history, Undisturbed, Calm, Busy, Synced, SeesRight, LooksRight,
              StoresRight, FetchesRight, WalksRight, Follows, SyncedBut, Apart, ResultsApart,
              PrunesRight, TellsRight, View, At, Key
<1>2. CASE Exit
  <2>1. Calm /\ Busy = {} /\ Busy' = {}
    BY <1>2, ExitIdle DEF Exit, Calm
  <2>2. hurt' = {}
    BY <1>2, <2>1 DEF Exit, Undisturbed
  <2>3. \A k \in Keys : Synced(k)'
    BY <1>2, EmptyIs DEF Exit, Synced
  <2> QED
    BY <2>1, <2>2, <2>3 DEF Undisturbed
<1>3. ASSUME NEW c \in Callers, Start(c) PROVE Undisturbed'
  <2>1. Calm /\ Busy = {}
    BY <1>3, StartLoud DEF Calm
  <2> QED
    BY <1>3, <2>1, StartFollows DEF Undisturbed
<1>4. ASSUME NEW c \in Callers, Goes(c) PROVE Undisturbed'
  <2>1. Calm
    BY <1>4, GoesIs DEF Calm
  <2>2. Busy = {c} /\ SeesRight(c) /\ hurt' = {} /\ ~WriteFails(c) /\ ~Catch(c)
    BY <1>4, <2>1, CalmGoes
  <2>3. ~At(c, "thrown")' /\ ~Throw(c)
    BY <1>4, <2>1, CalmThrowsNot
  <2>4. Follows(c)'
    BY <1>4, <2>1, <2>3, CalmFollows
  <2>5. SeesRight(c)'
    BY <1>4, <2>2, WalkSees, LookupSees, KeepSees, FetchSees, DiscardSees, TroubleSees DEF Goes
  <2>6. Busy' \subseteq {c}
    BY <1>4, <2>2, BusyAfter
  <2>7. CASE Busy' = {}
    <3>1. call'[c].at = "idle"
      BY <2>7 DEF Busy
    <3>2. \A k \in Keys : Synced(k)'
      BY <2>4, <3>1 DEF Follows, SyncedBut, Apart, ResultsApart, Synced, At
    <3> QED
      BY <2>2, <2>7, <3>2 DEF Undisturbed
  <2>8. CASE Busy' = {c}
    BY <2>2, <2>3, <2>4, <2>5, <2>8 DEF Undisturbed
  <2> QED
    BY <2>6, <2>7, <2>8
<1> QED
  BY <1>1, <1>2, <1>3, <1>4, StepsAre

LEMMA AlwaysUndisturbed == Spec => []Undisturbed
<1>1. Kept /\ Undisturbed /\ OnlyCutsThrow' /\ [Next]_vars => Undisturbed'
  BY UndisturbedStep DEF Kept
<1> QED
  BY <1>1, UndisturbedInit, AlwaysKept, CutsThrow, PTL DEF Spec

-----------------------------------------------------------------------------
(* The refinement.                                                         *)

\* What the map holds while c is the only call under way.
Held(c, k) == IF call[c].op = "put" /\ Key(c) = k THEN call[c].was ELSE View(k)

LEMMA EntryIdle ==
    (Calm /\ Busy = {}) => \A k \in Keys : Entry(k) = View(k) /\ ~Storing(k)
  BY DEF Entry, Storing

LEMMA EntryIdleNext ==
    (Calm /\ Busy = {})' => \A k \in Keys : Entry(k)' = View(k)' /\ ~Storing(k)'
<1>1. ((Calm /\ Busy = {}) => \A k \in Keys : Entry(k) = View(k) /\ ~Storing(k))'
  BY EntryIdle, PTL
<1> QED
  BY <1>1

LEMMA EntryHeld ==
    \A c \in Callers : Calm /\ Busy = {c} =>
        \A k \in Keys : /\ Entry(k) = Held(c, k)
                        /\ Storing(k) <=> call[c].op = "put" /\ Key(c) = k
<1> SUFFICES ASSUME NEW c \in Callers, Calm, Busy = {c}, NEW k \in Keys
             PROVE  /\ Entry(k) = Held(c, k)
                    /\ Storing(k) <=> call[c].op = "put" /\ Key(c) = k
  OBVIOUS
<1>1. Storing(k) <=> call[c].op = "put" /\ Key(c) = k
  BY DEF Storing
<1>2. CASE Storing(k)
  <2>1. (CHOOSE d \in Busy : call[d].op = "put" /\ Key(d) = k) = c
    BY <1>2 DEF Storing
  <2> QED
    BY <1>1, <1>2, <2>1 DEF Entry, Held
<1>3. CASE ~Storing(k)
  BY <1>1, <1>3 DEF Entry, Held
<1> QED
  BY <1>1, <1>2, <1>3

LEMMA EntryHeldNext ==
    \A c \in Callers : (Calm /\ Busy = {c})' =>
        \A k \in Keys : /\ Entry(k)' = Held(c, k)'
                        /\ Storing(k)' <=> call'[c].op = "put" /\ call'[c].key = k
<1>1. (\A c \in Callers : Calm /\ Busy = {c} =>
          \A k \in Keys : /\ Entry(k) = Held(c, k)
                          /\ Storing(k) <=> call[c].op = "put" /\ Key(c) = k)'
  BY EntryHeld, PTL
<1> QED
  BY <1>1 DEF Key

Entries == [k \in Keys |-> Entry(k)]

Stored ==
    IF ~Calm THEN 0
    ELSE IF \E k \in Keys : Storing(k) THEN Len(made) - 1 ELSE Len(made)

Told == IF Calm THEN told ELSE None

\* A step that leaves every entry, or takes it away, removes some from the map.
LEMMA Removes ==
    ASSUME \A k \in Keys : Entry(k)' \in {Entry(k), None}, Stored' = Stored, Told' = Told
    PROVE  Map!MNext
<1> DEFINE gone == {k \in Keys : Entry(k)' # Entry(k)}
<1>1. Entries' = [k \in Keys |-> IF k \in gone THEN None ELSE Entries[k]]
  BY DEF Entries
<1>2. gone \in SUBSET Keys
  OBVIOUS
<1>3. Map!Remove(gone)
  BY <1>1 DEF Map!Remove, Entries, Stored, Told
<1> QED
  BY <1>2, <1>3 DEF Map!MNext

LEMMA StoredIs ==
    ASSUME NEW c \in Callers, Calm, Busy = {c}, Typed
    PROVE  Stored = IF call[c].op = "put" THEN Len(made) - 1 ELSE Len(made)
<1>1. call[c].op = "put" => Key(c) \in Keys
  BY OpAt
<1> QED
  BY <1>1, EntryHeld DEF Stored

LEMMA StoredIsNext ==
    ASSUME NEW c \in Callers, Calm', Busy' = {c}, Typed'
    PROVE  Stored' = IF call'[c].op = "put" THEN Len(made') - 1 ELSE Len(made')
<1>1. call'[c].op = "put" => call'[c].key \in Keys
  BY DEF Typed, Shaped
<1> QED
  BY <1>1, EntryHeldNext DEF Stored

LEMMA StoredIdle ==
    /\ Calm /\ Busy = {} => Stored = Len(made)
    /\ (Calm /\ Busy = {})' => Stored' = Len(made')
  BY EntryIdle, EntryIdleNext DEF Stored

\* The step that makes a new result the one a lookup finds.
LEMMA RememberStores ==
    ASSUME Typed, Undisturbed, Calm, NEW c \in Callers, RememberResult(c)
    PROVE  Map!MNext
<1>0. Goes(c) /\ TypeOK
  BY DEF Goes, Keep, Typed
<1>1. Busy = {c} /\ SeesRight(c) /\ world' = world
  BY <1>0, CalmGoes
<1>2. /\ call[c].at = "rememberResult" /\ call[c].op = "put" /\ Key(c) \in Keys
      /\ UNCHANGED <<manifests, results, manifestMemory, made, told>>
      /\ resultMemory' = [resultMemory EXCEPT ![Key(c)] = call[c].value]
      /\ call'[c] = Idle
  BY <1>0, OpAt, FinishIs DEF RememberResult, At, Keeping, calm, files
<1>3. Calm' /\ Busy' = {}
  <2>1. Busy' \subseteq {c} /\ c \notin Busy'
    BY <1>0, <1>1, <1>2, BusyAfter, IdleCall DEF Busy
  <2> QED
    BY <1>1, <2>1 DEF Calm
<1>4. Stored = Len(made) - 1 /\ Stored' = Len(made) /\ Stored' = Stored + 1
  <2>1. Stored = Len(made) - 1 /\ Stored' = Len(made)
    BY <1>1, <1>2, <1>3, StoredIs, StoredIdle
  <2>2. Len(made) \in Nat
    BY <1>0, ResultsAre DEF TypeOK
  <2> QED
    BY <2>1, <2>2
<1>5. manifestMemory[Key(c)] = "valid" /\ call[c].value = Len(made)
  BY <1>1, <1>2 DEF SeesRight, StoresRight, Keeping
<1>6. PICK j \in Keys : j = Key(c)
  BY <1>2
<1>7. Entry(j)' = Stored'
  <2>1. manifestMemory'[j] = "valid" /\ resultMemory'[j] = Len(made) /\ "valid" # None
    BY <1>0, <1>2, <1>5, <1>6, Constants DEF TypeOK, Statuses
  <2>2. Len(made) # None
    BY <1>0, ResultsAre, Constants DEF TypeOK
  <2>3. View(j)' = Len(made)
    BY <2>1, <2>2 DEF View
  <2> QED
    BY <1>3, <1>4, <2>3, EntryIdleNext
<1>8. ASSUME NEW k \in Keys, k # j PROVE Entry(k)' = Entry(k)
  <2>1. View(k)' = View(k)
    BY <1>0, <1>2, <1>6, <1>8, ViewStays DEF TypeOK
  <2> QED
    BY <1>1, <1>3, <1>6, <1>8, <2>1, EntryHeld, EntryIdleNext DEF Held
<1>9. Entries' = [Entries EXCEPT ![j] = Stored']
  BY <1>7, <1>8 DEF Entries
<1>10. Map!Store(j)
  <2>1. Told' = Told
    BY <1>2, <1>3 DEF Told
  <2> QED
    BY <1>4, <1>9, <2>1 DEF Map!Store, Entries, Stored, Told
<1> QED
  BY <1>10 DEF Map!MNext

\* The step that answers a lookup.
LEMMA TellServes ==
    ASSUME Typed, Undisturbed, Calm, NEW c \in Callers, Tell(c)
    PROVE  Map!MNext
<1>0. Goes(c) /\ TypeOK
  BY DEF Goes, Fetch, Typed
<1>1. Busy = {c} /\ Follows(c) /\ world' = world
  BY <1>0, CalmGoes
<1>2. /\ At(c, "tell") /\ call[c].op = "get" /\ Key(c) \in Keys
      /\ UNCHANGED <<manifests, results, manifestMemory, resultMemory, made>>
      /\ told' = [key |-> Key(c), value |-> call[c].value]
      /\ call'[c] = Idle
  BY <1>0, OpAt, FinishIs DEF Tell, files, memory
<1>3. Calm' /\ Busy' = {}
  <2>1. Busy' \subseteq {c} /\ c \notin Busy'
    BY <1>0, <1>1, <1>2, BusyAfter, IdleCall DEF Busy
  <2> QED
    BY <1>1, <2>1 DEF Calm
<1>4. Stored' = Stored
  BY <1>1, <1>2, <1>3, StoredIs, StoredIdle
<1>5. \A k \in Keys : Entry(k) = View(k) /\ Entry(k)' = View(k)
  <2>1. \A k \in Keys : View(k)' = View(k)
    BY <1>2, ViewStays
  <2>2. \A k \in Keys : Entry(k) = View(k)
    BY <1>1, <1>2, EntryHeld DEF Held
  <2> QED
    BY <1>3, <2>1, <2>2, EntryIdleNext
<1>6. Entries' = Entries
  BY <1>5 DEF Entries
<1>7. Told' = [key |-> Key(c), value |-> Entries[Key(c)]]
  BY <1>1, <1>2, <1>3, <1>5 DEF Told, Entries, Follows, TellsRight
<1>8. Map!Serve(Key(c))
  BY <1>4, <1>6, <1>7 DEF Map!Serve, Entries, Stored, Told
<1> QED
  BY <1>2, <1>8 DEF Map!MNext

\* Any other step of a call leaves the answers given so far, and its put.
LEMMA OthersLeave ==
    ASSUME Typed, NEW c \in Callers, Goes(c), ~RememberResult(c), ~Tell(c), ~WriteFails(c), ~Throw(c),
           ~Catch(c)
    PROVE  /\ told' = told
           /\ call[c].op # "put" => call'[c].op # "put"
           /\ call[c].op = "put" => /\ call'[c].op = "put" /\ call'[c].key = call[c].key
                                    /\ call'[c].was = call[c].was /\ call'[c].at # "idle"
<1>0. TypeOK
  BY DEF Typed
<1>1. told' = told
  <2>1. CASE Walk(c) \/ Lookup(c)
    BY <2>1 DEF Walk, List, Scan, Listed, NextKey, Lookup, Seek, Ask, ReadManifest, Found, Missed,
                NothingToInvalidate, calm
  <2>2. CASE Keep(c)
    BY <2>2 DEF Keep, Open, Write, Remember, Drop, OpenResult, WriteResult, RememberResult, calm
  <2>3. CASE Fetch(c) \/ Discard(c)
    BY <2>3 DEF Fetch, SeekValue, AskValue, ReadResult, Discard, Unlink, AskResult, UnlinkResult,
                Forget, Remove, Cleared, calm
  <2> QED
    BY <2>1, <2>2, <2>3 DEF Goes
<1>2. CASE Walk(c) \/ Lookup(c) \/ Fetch(c) \/ Discard(c)
  <2>1. call[c].op # "put"
    <3>1. CASE Walk(c)
      BY <3>1, WalkAdvances DEF Listing
    <3>2. CASE Lookup(c)
      <4>1. call[c].at \in Looking
        BY <3>2 DEF Lookup, Seek, Ask, ReadManifest, Found, Missed, NothingToInvalidate, At, Looking
      <4> QED
        BY <4>1, OpAt DEF Invalidating
    <3>3. CASE Fetch(c)
      <4>1. call[c].at \in Fetching \cup {"tell"}
        BY <3>3 DEF Fetch, SeekValue, AskValue, ReadResult, Tell, At, Fetching
      <4> QED
        BY <4>1, OpAt DEF At
    <3>4. CASE Discard(c)
      BY <3>4, DiscardAdvances
    <3> QED
      BY <1>2, <3>1, <3>2, <3>3, <3>4
  <2>2. call'[c] = Idle \/ call'[c].op = call[c].op
    BY <1>2, WalkAdvances, LookupAdvances, FetchAdvances, DiscardAdvances DEF Advances
  <2> QED
    BY <1>1, <2>1, <2>2, IdleCall
<1>3. CASE Keep(c)
  <2>1. Advances(c)
    BY <1>3, KeepAdvances
  <2>2. call'[c].was = call[c].was
    <3>1. PICK at \in {"write", "remember", "openResult", "seekValue", "drop", "next", "writeResult",
                       "rememberResult"} : Goto(c, at)
      BY <1>3 DEF Keep, Open, Write, Remember, Drop, OpenResult, WriteResult
    <3>2. at \in Steps
      BY <3>1 DEF Steps
    <3> QED
      BY <1>0, <3>1, <3>2, GotoIs DEF Moved
  <2> QED
    BY <1>1, <2>1, <2>2 DEF Advances
<1> QED
  BY <1>2, <1>3 DEF Goes

LEMMA GoesRemoves ==
    ASSUME Typed, Typed', Undisturbed, Undisturbed', OnlyCutsThrow', Calm, NEW c \in Callers, Goes(c),
           ~RememberResult(c), ~Tell(c)
    PROVE  Map!MNext
<1>1. /\ Busy = {c} /\ world' = world /\ ~WriteFails(c) /\ ~Catch(c) /\ ~Throw(c)
      /\ Leaves(c) /\ made' = made
  BY CalmGoes, CalmThrowsNot, CalmFollows, GoesIs
<1>2. /\ told' = told
      /\ call[c].op # "put" => call'[c].op # "put"
      /\ call[c].op = "put" => /\ call'[c].op = "put" /\ call'[c].key = call[c].key
                               /\ call'[c].was = call[c].was /\ call'[c].at # "idle"
  BY <1>1, OthersLeave
<1>3. Calm' /\ Busy' \in {{}, {c}} /\ (call[c].op = "put" => Busy' = {c})
  <2>1. Busy' \subseteq {c}
    BY <1>1, BusyAfter
  <2>2. call[c].op = "put" => c \in Busy'
    BY <1>2 DEF Busy
  <2> QED
    BY <1>1, <2>1, <2>2 DEF Calm
<1>4. ASSUME NEW k \in Keys PROVE Entry(k)' \in {Entry(k), None}
  <2>1. Entry(k) = Held(c, k)
    BY <1>1, EntryHeld
  <2>2. Entry(k)' = IF call'[c].op = "put" /\ call'[c].key = k THEN call'[c].was ELSE View(k)'
    <3>1. CASE Busy' = {c}
      BY <1>3, <3>1, EntryHeldNext DEF Held, Key
    <3>2. CASE Busy' = {}
      BY <1>2, <1>3, <3>2, EntryIdleNext
    <3> QED
      BY <1>3, <3>1, <3>2
  <2> QED
    BY <1>1, <1>2, <2>1, <2>2 DEF Held, Leaves, Key
<1>5. Stored' = Stored
  <2>1. Stored = IF call[c].op = "put" THEN Len(made) - 1 ELSE Len(made)
    BY <1>1, StoredIs
  <2>2. CASE Busy' = {c}
    BY <1>1, <1>2, <1>3, <2>1, <2>2, StoredIsNext
  <2>3. CASE Busy' = {}
    BY <1>1, <1>3, <2>1, <2>3, StoredIdle
  <2> QED
    BY <1>3, <2>2, <2>3
<1>6. Told' = Told
  BY <1>2, <1>3 DEF Told
<1> QED
  BY <1>4, <1>5, <1>6, Removes

\* A call that starts changes nothing: a put keeps the entry it will replace.
LEMMA StartStutters ==
    ASSUME Typed, Typed', Undisturbed, Calm, NEW c \in Callers, Start(c)
    PROVE  Entries' = Entries /\ Stored' = Stored /\ Told' = Told
<1>1. Busy = {} /\ Busy' = {c} /\ world' = world /\ Calm'
  BY StartLoud DEF Calm
<1>2. UNCHANGED <<manifests, results, manifestMemory, resultMemory, told>>
  BY DEF Start, Get, Put, Invalidate, Through, Clear, Begin, files, memory
<1>3. \A k \in Keys : View(k)' = View(k)
  BY <1>2, ViewStays
<1>4. \A k \in Keys : Entry(k) = View(k) /\ Entry(k)' = Held(c, k)'
  BY <1>1, EntryIdle, EntryHeldNext
<1>5. Stored = Len(made)
  BY <1>1, StoredIdle
<1>6. Stored' = IF call'[c].op = "put" THEN Len(made') - 1 ELSE Len(made')
  BY <1>1, StoredIsNext
<1>7. (\A k \in Keys : Held(c, k)' = View(k)) /\ Stored' = Len(made)
  <2>1. ASSUME NEW j \in Keys, Put(c, j)
        PROVE  (\A k \in Keys : Held(c, k)' = View(k)) /\ Stored' = Len(made)
    <3>1. /\ call'[c].op = "put" /\ call'[c].key = j /\ call'[c].was = View(j)
          /\ Len(made') = Len(made) + 1
      BY <2>1, PutIs
    <3>2. Len(made) \in Nat
      BY ResultsAre DEF Typed, TypeOK
    <3> QED
      BY <1>3, <1>6, <3>1, <3>2 DEF Held, Key
  <2>2. ASSUME NEW new, Readers(new), Begin(c, new), UNCHANGED made
        PROVE  (\A k \in Keys : Held(c, k)' = View(k)) /\ Stored' = Len(made)
    <3>1. call'[c].op # "put"
      BY <2>2, ReadersAre DEF Begin, Typed, TypeOK
    <3> QED
      BY <1>3, <1>6, <2>2, <3>1 DEF Held
  <2> QED
    BY <2>1, <2>2, StartsAre
<1>8. Entries' = Entries
  BY <1>4, <1>7 DEF Entries
<1>9. Told' = Told
  BY <1>1, <1>2 DEF Told
<1> QED
  BY <1>5, <1>7, <1>8, <1>9

\* The next process finds in the files what this one knew.
LEMMA ExitStutters ==
    ASSUME Typed, Undisturbed, Calm, Exit
    PROVE  Entries' = Entries /\ Stored' = Stored /\ Told' = Told
<1>1. /\ Busy = {} /\ Busy' = {} /\ world' = world /\ Calm'
      /\ UNCHANGED <<manifests, results, made, told>>
      /\ manifestMemory' = Empty /\ resultMemory' = Empty
  BY ExitIdle DEF Exit, Calm, calm, files
<1>2. ASSUME NEW k \in Keys PROVE View(k)' = View(k)
  <2>1. manifestMemory[k] \in {None, manifests[k]} /\ resultMemory[k] \in {None, results[k]}
    BY <1>1 DEF Undisturbed, Synced
  <2>2. manifestMemory'[k] = None /\ resultMemory'[k] = None
    BY <1>1, EmptyIs
  <2> QED
    BY <1>1, <2>1, <2>2 DEF View
<1>3. Entries' = Entries
  BY <1>1, <1>2, EntryIdle, EntryIdleNext DEF Entries
<1> QED
  BY <1>1, <1>3, StoredIdle DEF Told

LEMMA MapStep ==
    /\ Typed /\ Undisturbed /\ [Next]_vars
    /\ Typed' /\ Undisturbed' /\ OnlyCutsThrow'
    => [Map!MNext]_(Map!mvars)
<1> SUFFICES ASSUME Typed, Undisturbed, [Next]_vars, Typed', Undisturbed', OnlyCutsThrow'
             PROVE  Map!MNext \/ (Entries' = Entries /\ Stored' = Stored /\ Told' = Told)
  BY DEF Map!mvars, Entries, Stored, Told
<1>1. CASE UNCHANGED vars
  <2>1. \A k \in Keys : Entry(k)' = Entry(k) /\ (Storing(k)' <=> Storing(k))
    BY <1>1 DEF vars, files, memory, Entry, Storing, View, Busy, Calm, Key
  <2> QED
    BY <1>1, <2>1 DEF vars, Entries, Stored, Told, Calm
<1>2. CASE ~Calm
  <2>1. world' = world
    <3>1. ASSUME NEW c \in Callers, Start(c) \/ Goes(c) PROVE world' = world
      BY <3>1, StartLoud, GoesIs
    <3> QED
      BY <1>1, <3>1, StepsAre DEF Exit, calm, vars
  <2>2. ~Calm'
    BY <1>2, <2>1 DEF Calm
  <2> QED
    BY <1>2, <2>2 DEF Entries, Entry, Stored, Told
<1>3. CASE Calm /\ Exit
  BY <1>3, ExitStutters
<1>4. ASSUME NEW c \in Callers, Start(c), Calm
      PROVE  Entries' = Entries /\ Stored' = Stored /\ Told' = Told
  BY <1>4, StartStutters
<1>5. ASSUME NEW c \in Callers, Goes(c), Calm PROVE Map!MNext
  BY <1>5, RememberStores, TellServes, GoesRemoves
<1> QED
  BY <1>1, <1>2, <1>3, <1>4, <1>5, StepsAre

LEMMA MapInit == Init => Map!MInit
<1> SUFFICES ASSUME Init PROVE Entries = [k \in Keys |-> None] /\ Stored = 0 /\ Told = None
  BY DEF Map!MInit, Entries, Stored, Told
<1>1. Busy = {} /\ Len(made) = 0 /\ told = None
  BY IdleCall DEF Init, Busy
<1>2. \A k \in Keys : Entry(k) = None
  <2>1. \A k \in Keys : View(k) = None
    BY EmptyIs DEF Init, View
  <2> QED
    BY <1>1, <2>1, EntryIdle DEF Entry
<1>3. Stored = 0
  BY <1>1, StoredIdle DEF Stored
<1> QED
  BY <1>1, <1>2, <1>3 DEF Entries, Told

(* While calls neither overlap nor fail, two files and two maps per key,   *)
(* written, read and removed one await after another over any number of    *)
(* processes, are one entry per key.                                       *)
THEOREM CacheImplementsMap == Spec => ImplementsMap
<1>1. Kept => Typed
  BY DEF Kept
<1> QED
  BY <1>1, MapInit, MapStep, AlwaysKept, AlwaysUndisturbed, CutsThrow, PTL
     DEF Spec, ImplementsMap, Map!MSpec
-----------------------------------------------------------------------------
(* Every call ends.                                                        *)

\* The steps a call has before it at most, for the entry it is about.
Ahead(at) ==
    CASE at = "list" -> 22 [] at = "scan" -> 21 [] at = "seek" -> 20 [] at = "ask" -> 19
      [] at = "readManifest" -> 18 [] at = "decide" -> 17 [] at = "open" -> 16 [] at = "write" -> 15
      [] at = "remember" -> 14 [] at = "drop" -> 13 [] at = "openResult" -> 12
      [] at = "writeResult" -> 11 [] at = "rememberResult" -> 10 [] at = "seekValue" -> 9
      [] at = "askValue" -> 8 [] at = "readResult" -> 7 [] at = "tell" -> 6 [] at = "unlink" -> 5
      [] at = "askResult" -> 4 [] at = "unlinkResult" -> 3 [] at = "forget" -> 2
      [] at \in {"next", "clear"} -> 1 [] OTHER -> 0

LEMMA AheadIs ==
    /\ Ahead("list") = 22 /\ Ahead("scan") = 21 /\ Ahead("seek") = 20
    /\ Ahead("ask") = 19 /\ Ahead("readManifest") = 18 /\ Ahead("decide") = 17
    /\ Ahead("open") = 16 /\ Ahead("write") = 15 /\ Ahead("remember") = 14
    /\ Ahead("drop") = 13 /\ Ahead("openResult") = 12 /\ Ahead("writeResult") = 11
    /\ Ahead("rememberResult") = 10 /\ Ahead("seekValue") = 9 /\ Ahead("askValue") = 8
    /\ Ahead("readResult") = 7 /\ Ahead("tell") = 6 /\ Ahead("unlink") = 5
    /\ Ahead("askResult") = 4 /\ Ahead("unlinkResult") = 3 /\ Ahead("forget") = 2
    /\ Ahead("next") = 1 /\ Ahead("clear") = 1 /\ Ahead("thrown") = 0
  BY DEF Ahead

\* c's call is over, or closer to its end: it scans one file less, or goes on
\* with an entry that it takes off its list, or its list does not grow.
Closer(c) ==
    \/ call'[c] = Idle
    \/ /\ call'[c].rest \subseteq call[c].rest
       /\ \/ Ahead(call'[c].at) < Ahead(call[c].at)
          \/ /\ At(c, "scan") /\ call'[c].at = "scan"
             /\ call'[c].todo \subseteq call[c].todo /\ call'[c].todo # call[c].todo
          \/ At(c, "next") /\ call'[c].rest # call[c].rest

LEMMA MovedCloser ==
    ASSUME NEW c \in Callers, NEW at, NEW key, NEW status, NEW value,
           Moved(c, at, key, status, value, call[c].todo, call[c].rest),
           Ahead(at) < Ahead(call[c].at)
    PROVE  Closer(c)
  BY DEF Moved, Closer

LEMMA GotoCloser ==
    ASSUME TypeOK, NEW c \in Callers, NEW at \in Steps, Goto(c, at), Ahead(at) < Ahead(call[c].at)
    PROVE  Closer(c)
  BY GotoIs, MovedCloser

LEMMA WalkCloser == ASSUME Typed, NEW c \in Callers, Walk(c) PROVE Closer(c)
<1>0. TypeOK
  BY DEF Typed
<1>1. CASE List(c)
  <2>1. At(c, "list")
    BY <1>1 DEF List
  <2>2. call'[c].at = "scan" /\ call'[c].rest \subseteq call[c].rest
    BY <1>0, <1>1, ListIs DEF Moved
  <2> QED
    BY <2>1, <2>2, AheadIs DEF Closer, At
<1>2. CASE Scan(c)
  <2>1. At(c, "scan")
    BY <1>2 DEF Scan
  <2>2. PICK k \in call[c].todo :
          Moved(c, "scan", Key(c), call[c].status, call[c].value, call[c].todo \ {k},
                IF call[c].op = "prune" /\ manifests[k] = "valid" THEN call[c].rest \ {k} ELSE call[c].rest)
    BY <1>0, <1>2, ScanIs
  <2>3. /\ call'[c].at = "scan" /\ call'[c].todo = call[c].todo \ {k}
        /\ call'[c].rest \subseteq call[c].rest
    BY <2>2 DEF Moved
  <2> QED
    BY <2>1, <2>2, <2>3 DEF Closer
<1>3. CASE Listed(c)
  BY <1>0, <1>3, GotoCloser, AheadIs DEF Listed, At, Steps
<1>4. CASE NextKey(c)
  <2>1. At(c, "next")
    BY <1>4 DEF NextKey
  <2>2. Finish(c) => Closer(c)
    BY <1>0, FinishIs DEF Closer
  <2>3. ASSUME NEW k \in call[c].rest, NEW at,
               Moved(c, at, k, call[c].status, call[c].value, call[c].todo, call[c].rest \ {k})
        PROVE  Closer(c)
    BY <2>1, <2>3 DEF Moved, Closer
  <2>4. CASE \E k \in call[c].rest :
               Moved(c, IF call[c].op = "prune" THEN "unlink" ELSE "seek", k, call[c].status,
                     call[c].value, call[c].todo, call[c].rest \ {k})
    BY <2>3, <2>4
  <2> QED
    BY <1>0, <1>4, <2>2, <2>4, NextKeyIs
<1> QED
  BY <1>1, <1>2, <1>3, <1>4 DEF Walk

LEMMA LookupCloser == ASSUME Typed, NEW c \in Callers, Lookup(c) PROVE Closer(c)
<1>0. TypeOK
  BY DEF Typed
<1>1. CASE Seek(c)
  <2>1. At(c, "seek")
    BY <1>1 DEF Seek
  <2>2. (call'[c].at = "ask" \/ call'[c].at = "decide") /\ call'[c].rest = call[c].rest
    BY <1>1, SeekIs DEF Moved
  <2> QED
    BY <2>1, <2>2, AheadIs DEF Closer, At
<1>2. CASE Ask(c)
  BY <1>0, <1>2, GotoCloser, AheadIs DEF Ask, At, Steps
<1>3. CASE ReadManifest(c)
  <2>1. At(c, "readManifest") /\ call'[c].at = "decide" /\ call'[c].rest = call[c].rest
    BY <1>0, <1>3, ReadManifestIs DEF ReadManifest, Moved
  <2> QED
    BY <2>1, AheadIs DEF Closer, At
<1>4. CASE Found(c)
  <2>1. At(c, "decide")
    BY <1>4 DEF Found
  <2>2. (call'[c].at = "seekValue" \/ call'[c].at = "open") /\ call'[c].rest = call[c].rest
    BY <1>0, <1>4, FoundIs DEF Moved
  <2> QED
    BY <2>1, <2>2, AheadIs DEF Closer, At
<1>5. CASE Missed(c)
  <2>1. At(c, "decide") /\ (Goto(c, "tell") \/ Goto(c, "next"))
    BY <1>5 DEF Missed
  <2> QED
    BY <1>0, <2>1, GotoCloser, AheadIs DEF At, Steps
<1>6. CASE NothingToInvalidate(c)
  BY <1>0, <1>6, GotoCloser, AheadIs DEF NothingToInvalidate, At, Steps
<1> QED
  BY <1>1, <1>2, <1>3, <1>4, <1>5, <1>6 DEF Lookup

LEMMA KeepCloser == ASSUME Typed, NEW c \in Callers, Keep(c) PROVE Closer(c)
<1>0. TypeOK
  BY DEF Typed
<1>1. CASE Open(c) \/ Write(c)
  BY <1>0, <1>1, GotoCloser, AheadIs DEF Open, Write, At, Steps
<1>2. CASE Remember(c)
  <2>1. At(c, "remember") /\ (Goto(c, "openResult") \/ Goto(c, "seekValue") \/ Goto(c, "drop"))
    BY <1>2 DEF Remember
  <2> QED
    BY <1>0, <2>1, GotoCloser, AheadIs DEF At, Steps
<1>3. CASE Drop(c) \/ OpenResult(c) \/ WriteResult(c)
  BY <1>0, <1>3, GotoCloser, AheadIs DEF Drop, OpenResult, WriteResult, At, Steps
<1>4. CASE RememberResult(c)
  BY <1>0, <1>4, FinishIs DEF RememberResult, Closer
<1> QED
  BY <1>1, <1>2, <1>3, <1>4 DEF Keep

LEMMA FetchCloser == ASSUME Typed, NEW c \in Callers, Fetch(c) PROVE Closer(c)
<1>0. TypeOK
  BY DEF Typed
<1>1. ASSUME NEW v \in Results \cup {None}, HaveValue(c, v), call[c].at \in Fetching PROVE Closer(c)
  <2>1. (call'[c].at = "tell" \/ call'[c].at = "next") /\ call'[c].rest = call[c].rest
    BY <1>0, <1>1, HaveValueIs DEF Moved
  <2> QED
    BY <1>1, <2>1, AheadIs DEF Closer, Fetching
<1>2. call[c].at \in Fetching => Key(c) \in Keys
  BY OpAt
<1>3. CASE SeekValue(c)
  <2>1. At(c, "seekValue") /\ call[c].at \in Fetching
    BY <1>3 DEF SeekValue, At, Fetching
  <2>2. resultMemory[Key(c)] \in Results \cup {None}
    BY <1>0, <1>2, <2>1 DEF TypeOK
  <2>3. Goto(c, "askValue") \/ HaveValue(c, resultMemory[Key(c)])
    BY <1>3 DEF SeekValue
  <2> QED
    BY <1>0, <1>1, <2>1, <2>2, <2>3, GotoCloser, AheadIs DEF At, Steps
<1>4. CASE AskValue(c)
  <2>1. At(c, "askValue") /\ call[c].at \in Fetching
    BY <1>4 DEF AskValue, At, Fetching
  <2>2. Goto(c, "readResult") \/ HaveValue(c, None)
    BY <1>4 DEF AskValue
  <2> QED
    BY <1>0, <1>1, <2>1, <2>2, GotoCloser, AheadIs DEF At, Steps
<1>5. CASE ReadResult(c)
  BY <1>1, <1>5 DEF ReadResult, At, Fetching
<1>6. CASE Tell(c)
  BY <1>0, <1>6, FinishIs DEF Tell, Closer
<1> QED
  BY <1>3, <1>4, <1>5, <1>6 DEF Fetch

LEMMA DiscardCloser == ASSUME Typed, NEW c \in Callers, Discard(c), ~Remove(c) PROVE Closer(c)
<1>0. TypeOK
  BY DEF Typed
<1>1. CASE Unlink(c) \/ UnlinkResult(c) \/ Forget(c)
  BY <1>0, <1>1, GotoCloser, AheadIs DEF Unlink, UnlinkResult, Forget, At, Steps
<1>2. CASE AskResult(c)
  <2>1. At(c, "askResult") /\ (Goto(c, "forget") \/ Goto(c, "unlinkResult"))
    BY <1>2 DEF AskResult
  <2> QED
    BY <1>0, <2>1, GotoCloser, AheadIs DEF At, Steps
<1>3. CASE Cleared(c)
  BY <1>0, <1>3, FinishIs DEF Cleared, Closer
<1> QED
  BY <1>1, <1>2, <1>3 DEF Discard

LEMMA TroubleCloser ==
    ASSUME Typed, NEW c \in Callers, Throw(c) \/ WriteFails(c) \/ Catch(c) PROVE Closer(c)
<1>0. TypeOK
  BY DEF Typed
<1>1. CASE Throw(c)
  BY <1>0, <1>1, GotoCloser, AheadIs DEF Throw, At, Steps
<1>2. CASE WriteFails(c)
  BY <1>0, <1>2, GotoCloser, AheadIs DEF WriteFails, Steps
<1>3. CASE Catch(c)
  BY <1>0, <1>3, FinishIs DEF Catch, Closer
<1> QED
  BY <1>1, <1>2, <1>3

(* No call loops, whatever other calls do to the files between its awaits: *)
(* each step brings it closer to its end, a listing reads no file twice    *)
(* and a sweep, a warm-up or prune takes up no entry twice.  Only clear    *)
(* removes for as long as others store.                                    *)
THEOREM CallsMoveOn == Spec => [][\A c \in Callers : Goes(c) /\ ~Remove(c) => Closer(c)]_vars
<1>1. Typed => \A c \in Callers : Goes(c) /\ ~Remove(c) => Closer(c)
  BY WalkCloser, LookupCloser, KeepCloser, FetchCloser, DiscardCloser, TroubleCloser DEF Goes
<1> QED
  BY <1>1, AlwaysTyped, PTL DEF Spec
=============================================================================
