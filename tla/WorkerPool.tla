----------------------------- MODULE WorkerPool -----------------------------
(***************************************************************************)
(* The worker processes of one repository: the part of AgentSupervisor     *)
(* (src/src/supervisor/agentSupervisor.ts) that acts on dispatch plans and *)
(* WorkerRunner (workerRunner.ts), the object around one worker process.   *)
(*                                                                         *)
(* The planner and the host are the surroundings.  A pass asks which keys  *)
(* are live when it starts and writes a plan for other keys when it ends;  *)
(* the host reads the plan file on every write below .status-pipe/ and     *)
(* feeds what it read, and reads may overlap, so an older one may be fed   *)
(* after a newer one.                                                      *)
(*                                                                         *)
(* Abstractions.  A pass count is a member of Passes that is not in use:   *)
(* the code compares counts for equality only.  The items of a plan are a  *)
(* set, and reconciling takes them in any order.  A worker runner and its  *)
(* process are one member of Workers, fresh when spawned.                  *)
(*                                                                         *)
(* A definition named Mut... is the one after it with a plausible bug: it  *)
(* is no part of the specification and shows that a property notices.      *)
(***************************************************************************)
EXTENDS Naturals, FiniteSets, Functions

CONSTANTS
    Keys,      \* dispatch item keys
    Workers,   \* worker runners and their processes
    NoWorker,  \* no entry in the workers map
    NoKey,     \* the key of a worker that does not exist
    Passes,    \* pass counts in use at one time
    NoPass,    \* nothing reconciled yet; no pass under way
    Caps,      \* the maxConcurrent values plans carry
    MaxLoads   \* bound: reads of the plan file under way at one time

ASSUME PoolAssumption ==
    /\ NoWorker \notin Workers
    /\ NoKey \notin Keys
    /\ NoPass \notin Passes
    /\ Caps \subseteq Nat
    /\ IsFiniteSet(Keys)

Plans == [pass : Passes, items : SUBSET Keys, cap : Caps]
NoPlan == [pass |-> NoPass, items |-> {}, cap |-> 0]

VARIABLES
    enabled,    \* settings.enabled
    template,   \* an approved launch entry with the id `worker' is installed
    disk,       \* the plan in orchestrator.json, NoPlan when it has none
    loads,      \* plans read by the host and not fed yet
    reconciled, \* reconciledDispatchPass, NoPass while nothing was reconciled
    asked,      \* the live keys the running pass was given, or NoPass
    slot,       \* repo.workers: the worker entered for a key, or NoWorker
    keyOf,      \* the key of each worker whose process is executing, or NoKey
    killed,     \* those told to stop
    armed       \* workers whose wall-clock timeout is armed

pool  == <<slot, keyOf, killed, armed>>
feed  == <<disk, loads, reconciled, asked>>
vars  == <<enabled, template, feed, pool>>

alive   == {w \in Workers : keyOf[w] # NoKey}
Tracked == {k \in Keys : slot[k] # NoWorker}    \* liveWorkerKeys()
Entered == {slot[k] : k \in Tracked}

TypeOK ==
    /\ enabled \in BOOLEAN
    /\ template \in BOOLEAN
    /\ disk \in Plans \cup {NoPlan}
    /\ loads \subseteq Plans
    /\ reconciled \in Passes \cup {NoPass}
    /\ asked \in (SUBSET Keys) \cup {NoPass}
    /\ slot \in [Keys -> Workers \cup {NoWorker}]
    /\ keyOf \in [Workers -> Keys \cup {NoKey}]
    /\ killed \subseteq alive
    /\ armed \subseteq alive

Init ==
    /\ enabled = TRUE
    /\ template \in BOOLEAN
    /\ disk = NoPlan
    /\ loads = {}
    /\ reconciled = NoPass
    /\ asked = NoPass
    /\ slot = [k \in Keys |-> NoWorker]
    /\ keyOf = [w \in Workers |-> NoKey]
    /\ killed = {}
    /\ armed = {}

-----------------------------------------------------------------------------
(* The planner and the host's reads.                                       *)

PassStarts ==
    /\ asked = NoPass
    /\ asked' = Tracked
    /\ UNCHANGED <<enabled, template, disk, loads, reconciled, pool>>

\* The pass plans keys that were not live when it started, as many as were free,
\* or writes no plan.
PassEnds ==
    /\ asked # NoPass
    /\ asked' = NoPass
    /\ \/ disk' = NoPlan
       \/ \E p \in Passes \ ({disk.pass, reconciled} \cup {q.pass : q \in loads}),
             cap \in Caps, items \in (SUBSET (Keys \ asked)) \ {{}} :
             /\ Cardinality(items) + Cardinality(asked) <= cap
             /\ disk' = [pass |-> p, items |-> items, cap |-> cap]
    /\ UNCHANGED <<enabled, template, loads, reconciled, pool>>

\* reloadRepo() has read the file; the feed is still to come.
Load ==
    /\ disk # NoPlan
    /\ Cardinality(loads) < MaxLoads
    /\ loads' = loads \cup {disk}
    /\ UNCHANGED <<enabled, template, disk, reconciled, asked, pool>>

-----------------------------------------------------------------------------
(* Spawning.                                                               *)

\* spawnWorker() for each key of S, with one fresh runner per key whose process
\* is up and whose timeout is armed.  A worker whose spawn throws has left the
\* map again before spawnWorker() returns.
SpawnWorkers(S) ==
    \E w \in [S -> Workers \ alive] :
        LET new == {w[k] : k \in S}
        IN  /\ \A j, k \in S : w[j] = w[k] => j = k
            /\ slot' = [k \in Keys |-> IF k \in S THEN w[k] ELSE slot[k]]
            /\ keyOf' = [v \in Workers |->
                            IF v \in new THEN CHOOSE k \in S : w[k] = v ELSE keyOf[v]]
            /\ armed' = armed \cup new
            /\ killed' = killed

\* reconcileWorkers(): the planned keys in their order in the plan; each that has
\* no entry is spawned while the map, with those spawned before it, holds fewer
\* than cap entries.  The keys outside `up' fail to spawn.  The map does not
\* shrink in the loop, so breaking off at the cap is finding it full every time.
ReconcileWorkers(p) ==
    \E turn \in Bijection(p.items, 1 .. Cardinality(p.items)), up \in SUBSET p.items :
        \E S \in SUBSET up :
            /\ \A k \in up :
                   k \in S <=>
                       /\ slot[k] = NoWorker
                       /\ Cardinality(Tracked)
                            + Cardinality({j \in S : turn[j] < turn[k]}) < p.cap
            /\ SpawnWorkers(S)

\* The guard of maybeReconcileDispatch(): not the pass that was acted on last; and a
\* plan that arrives while the supervisor is disabled or has no approved worker
\* entry is left for a later feed.
MayReconcile(p) ==
    /\ enabled
    /\ template
    /\ p.pass # reconciled

\* noteOrchestrator() with a plan.
Feed ==
    \E p \in loads :
        /\ loads' = loads \ {p}
        /\ \/ /\ MayReconcile(p)
              /\ reconciled' = p.pass
              /\ ReconcileWorkers(p)
           \/ /\ ~MayReconcile(p)
              /\ UNCHANGED <<reconciled, pool>>
        /\ UNCHANGED <<enabled, template, disk, asked>>

-----------------------------------------------------------------------------
(* Stopping, timing out, exiting.                                          *)

MutStopWorkers ==                         \* timers are cancelled, nothing is killed
    /\ armed' = armed \ Entered
    /\ slot' = [k \in Keys |-> NoWorker]
    /\ UNCHANGED <<keyOf, killed>>

\* stopWorkers(): every entered worker's timeout is cancelled and its process
\* killed; the map is cleared without waiting for the exits.
StopWorkers ==
    /\ killed' = killed \cup (Entered \cap alive)
    /\ armed' = armed \ Entered
    /\ slot' = [k \in Keys |-> NoWorker]
    /\ UNCHANGED keyOf

\* The operator's stop-all, which leaves the supervisor enabled.
StopAll ==
    /\ StopWorkers
    /\ UNCHANGED <<enabled, template, feed>>

\* updateSettings().
UpdateSettings ==
    /\ enabled' = ~enabled
    /\ \/ enabled' /\ UNCHANGED pool
       \/ ~enabled' /\ StopWorkers
    /\ UNCHANGED <<template, feed>>

\* setAgents(): the approved entries are replaced.
SetAgents ==
    /\ template' \in BOOLEAN
    /\ \/ enabled /\ UNCHANGED pool
       \/ ~enabled /\ StopWorkers
    /\ UNCHANGED <<enabled, feed>>

\* A worker exceeded timeoutMinutes: killed, its entry stays until the exit.
TimeoutFires(w) ==
    /\ w \in armed
    /\ armed' = armed \ {w}
    /\ killed' = killed \cup {w}
    /\ UNCHANGED <<enabled, template, feed, slot, keyOf>>

MutExitLeavesTimer(w) ==                  \* the timeout stays armed
    /\ w \in alive
    /\ keyOf' = [keyOf EXCEPT ![w] = NoKey]
    /\ killed' = killed \ {w}
    /\ slot' = [slot EXCEPT ![keyOf[w]] = NoWorker]
    /\ UNCHANGED <<enabled, template, feed, armed>>

MutExit(w) ==                             \* onDone forgets the entry
    /\ w \in alive
    /\ keyOf' = [keyOf EXCEPT ![w] = NoKey]
    /\ killed' = killed \ {w}
    /\ armed' = armed \ {w}
    /\ UNCHANGED <<enabled, template, feed, slot>>

\* onExit() and onDone(): the entry of the worker's key is deleted, whichever
\* worker it holds by then.
Exit(w) ==
    /\ w \in alive
    /\ keyOf' = [keyOf EXCEPT ![w] = NoKey]
    /\ killed' = killed \ {w}
    /\ armed' = armed \ {w}
    /\ slot' = [slot EXCEPT ![keyOf[w]] = NoWorker]
    /\ UNCHANGED <<enabled, template, feed>>

-----------------------------------------------------------------------------
Next ==
    \/ PassStarts \/ PassEnds \/ Load \/ Feed
    \/ StopAll \/ UpdateSettings \/ SetAgents
    \/ \E w \in Workers : TimeoutFires(w) \/ Exit(w)

Spec == Init /\ [][Next]_vars

-----------------------------------------------------------------------------
\* An entry of the map is a live worker of that key, entered once: no exit, kill
\* or failed spawn leaves an entry behind that would block its key and use up a
\* place under the cap for good.
EntriesAreLive ==
    \A k \in Tracked : slot[k] \in alive /\ keyOf[slot[k]] = k

\* No worker can run for ever: its timeout is armed until it is told to stop,
\* even when the map has lost it.
WorkersAreBounded == alive \ killed \subseteq armed

PoolInv == EntriesAreLive /\ WorkersAreBounded

\* "Live worker processes, keyed by dispatch item key (<= 1 per key)": the
\* workers that were not told to stop are those in the map.
NoWorkerLost == alive \ killed \subseteq Entered

\* "Reconcile a dispatch plan at most once per planner pass": once the plan
\* on disk was acted on no older one is.  Reads of A, B and A again, fed in that
\* order, break it: the guard remembers the last count only.
StaleReadsAreInert ==
    [][ reconciled' # reconciled => (reconciled' = disk.pass \/ reconciled # disk.pass) ]_vars

=============================================================================
