-------------------------- MODULE WorkerPoolProofs --------------------------
(***************************************************************************)
(* Proofs about WorkerPool for any number of keys, workers and plans.      *)
(*                                                                         *)
(* TypeOK /\ PoolInv is inductive.  An exit deletes whatever its key holds *)
(* (the entry may be another worker's by then), which is why the entries   *)
(* stay live; no step leaves a process without either a kill or a timeout, *)
(* because the only step that disarms a timeout of a live worker kills it. *)
(***************************************************************************)
EXTENDS WorkerPool, TLAPS

\* Spawning fresh workers for untracked keys keeps the pool's types: the new
\* workers run and have their timeout armed.
LEMMA SpawnTypes ==
    ASSUME TypeOK, NEW S \in SUBSET (Keys \ Tracked), SpawnWorkers(S)
    PROVE  /\ slot' \in [Keys -> Workers \cup {NoWorker}]
           /\ keyOf' \in [Workers -> Keys \cup {NoKey}]
           /\ alive \subseteq alive'
           /\ killed' = killed
           /\ armed' \subseteq alive'
           /\ alive' \ alive \subseteq armed'
           /\ armed \subseteq armed'
<1>1. PICK w \in [S -> Workers \ alive] :
        LET new == {w[k] : k \in S}
        IN  /\ \A j, k \in S : w[j] = w[k] => j = k
            /\ slot' = [k \in Keys |-> IF k \in S THEN w[k] ELSE slot[k]]
            /\ keyOf' = [v \in Workers |->
                            IF v \in new THEN CHOOSE k \in S : w[k] = v ELSE keyOf[v]]
            /\ armed' = armed \cup new
            /\ killed' = killed
  BY DEF SpawnWorkers
<1> DEFINE new == {w[k] : k \in S}
<1>2. new \subseteq Workers \ alive
  OBVIOUS
<1>3. \A v \in new : (CHOOSE k \in S : w[k] = v) \in S
  OBVIOUS
<1>4. slot' \in [Keys -> Workers \cup {NoWorker}]
  BY <1>1 DEF TypeOK
<1>5. keyOf' \in [Workers -> Keys \cup {NoKey}]
  BY <1>1, <1>3 DEF TypeOK
<1>6. \A v \in new : keyOf'[v] \in Keys
  BY <1>1, <1>2, <1>3
<1>7. new \subseteq alive'
  BY <1>2, <1>6, PoolAssumption DEF alive
<1>8. \A v \in Workers \ new : keyOf'[v] = keyOf[v]
  BY <1>1
<1>9. alive' = alive \cup new
  BY <1>2, <1>7, <1>8 DEF alive
<1> QED
  BY <1>1, <1>4, <1>5, <1>9 DEF TypeOK

\* The entries of the keys that were not spawned are untouched, and so are the
\* keys of their workers; a spawned key is entered with a worker of that key.
LEMMA SpawnEntries ==
    ASSUME TypeOK, EntriesAreLive, NEW S \in SUBSET (Keys \ Tracked), SpawnWorkers(S)
    PROVE  /\ EntriesAreLive'
           /\ Tracked' = Tracked \cup S
<1>1. PICK w \in [S -> Workers \ alive] :
        LET new == {w[k] : k \in S}
        IN  /\ \A j, k \in S : w[j] = w[k] => j = k
            /\ slot' = [k \in Keys |-> IF k \in S THEN w[k] ELSE slot[k]]
            /\ keyOf' = [v \in Workers |->
                            IF v \in new THEN CHOOSE k \in S : w[k] = v ELSE keyOf[v]]
            /\ armed' = armed \cup new
            /\ killed' = killed
  BY DEF SpawnWorkers
<1> DEFINE new == {w[k] : k \in S}
<1>2. alive \subseteq alive'
  BY SpawnTypes
<1>3. ASSUME NEW k \in S
      PROVE  slot'[k] # NoWorker /\ slot'[k] \in alive' /\ keyOf'[slot'[k]] = k
  <2>1. slot'[k] = w[k] /\ w[k] \in Workers \ alive /\ w[k] \in new
    BY <1>1, <1>3
  <2>2. keyOf'[w[k]] = CHOOSE j \in S : w[j] = w[k]
    BY <1>1, <2>1
  <2>3. (CHOOSE j \in S : w[j] = w[k]) = k
    BY <1>1, <1>3
  <2> QED
    BY <2>1, <2>2, <2>3, <1>3, PoolAssumption DEF alive
<1>4. ASSUME NEW k \in Keys \ S
      PROVE  /\ slot'[k] = slot[k]
             /\ slot[k] # NoWorker => slot[k] \in alive' /\ keyOf'[slot[k]] = k
  <2>1. slot'[k] = slot[k]
    BY <1>1, <1>4
  <2>2. CASE slot[k] # NoWorker
    <3>1. slot[k] \in alive /\ keyOf[slot[k]] = k
      BY <2>2 DEF EntriesAreLive, Tracked
    <3>2. slot[k] \in Workers \ new
      BY <3>1 DEF alive
    <3>3. keyOf'[slot[k]] = keyOf[slot[k]]
      BY <1>1, <3>2
    <3> QED
      BY <2>1, <3>1, <3>3, <1>2
  <2> QED
    BY <2>1, <2>2
<1>5. EntriesAreLive'
  BY <1>3, <1>4 DEF EntriesAreLive, Tracked
<1>6. Tracked' = Tracked \cup S
  BY <1>3, <1>4 DEF Tracked
<1> QED
  BY <1>5, <1>6

\* stopWorkers() leaves nothing entered and nothing without a kill or a timeout.
LEMMA StopPreserves ==
    ASSUME TypeOK, PoolInv, StopWorkers
    PROVE  /\ slot' \in [Keys -> Workers \cup {NoWorker}]
           /\ keyOf' = keyOf
           /\ killed' \subseteq alive'
           /\ armed' \subseteq alive'
           /\ PoolInv'
<1>1. keyOf' = keyOf /\ alive' = alive
  BY DEF StopWorkers, alive
<1>2. Tracked' = {}
  BY DEF StopWorkers, Tracked
<1>3. slot' \in [Keys -> Workers \cup {NoWorker}]
  BY DEF StopWorkers
<1>4. killed' \subseteq alive' /\ armed' \subseteq alive'
  BY <1>1 DEF StopWorkers, TypeOK
<1>5. WorkersAreBounded'
  <2>1. alive \ killed \subseteq armed
    BY DEF PoolInv, WorkersAreBounded
  <2> QED
    BY <1>1, <2>1 DEF StopWorkers, WorkersAreBounded
<1>6. EntriesAreLive'
  BY <1>2 DEF EntriesAreLive
<1> QED
  BY <1>1, <1>3, <1>4, <1>5, <1>6 DEF PoolInv

\* A feed either leaves the pool alone or spawns for untracked keys of one plan.
LEMMA FeedPreserves ==
    ASSUME TypeOK, PoolInv, Feed
    PROVE  TypeOK' /\ PoolInv'
<1>1. PICK p \in loads :
        /\ loads' = loads \ {p}
        /\ \/ /\ MayReconcile(p)
              /\ reconciled' = p.pass
              /\ ReconcileWorkers(p)
           \/ /\ ~MayReconcile(p)
              /\ UNCHANGED <<reconciled, pool>>
        /\ UNCHANGED <<enabled, template, disk, asked>>
  BY DEF Feed
<1>2. p \in Plans
  BY DEF TypeOK
<1>3. CASE MayReconcile(p) /\ reconciled' = p.pass /\ ReconcileWorkers(p)
  <2>1. PICK S \in SUBSET (p.items \ Tracked) : SpawnWorkers(S)
    <3>1. PICK up \in SUBSET p.items :
            \E S \in SUBSET up : (\A k \in up : k \in S => slot[k] = NoWorker) /\ SpawnWorkers(S)
      BY <1>3 DEF ReconcileWorkers
    <3>2. PICK S \in SUBSET up : (\A k \in up : k \in S => slot[k] = NoWorker) /\ SpawnWorkers(S)
      BY <3>1
    <3>3. S \subseteq p.items \ Tracked
      BY <3>2 DEF Tracked
    <3> QED
      BY <3>2, <3>3
  <2>2. S \in SUBSET (Keys \ Tracked)
    BY <1>2, <2>1 DEF Plans
  <2>3. /\ slot' \in [Keys -> Workers \cup {NoWorker}]
        /\ keyOf' \in [Workers -> Keys \cup {NoKey}]
        /\ alive \subseteq alive'
        /\ killed' = killed
        /\ armed' \subseteq alive'
        /\ alive' \ alive \subseteq armed'
        /\ armed \subseteq armed'
    BY <2>1, <2>2, SpawnTypes
  <2>4. EntriesAreLive'
    BY <2>1, <2>2, SpawnEntries DEF PoolInv
  <2>5. WorkersAreBounded'
    BY <2>3 DEF PoolInv, WorkersAreBounded
  <2>6. reconciled' \in Passes \cup {NoPass}
    BY <1>2, <1>3 DEF Plans
  <2>7. killed' \subseteq alive'
    BY <2>3 DEF TypeOK
  <2>8. TypeOK'
    BY <1>1, <2>3, <2>6, <2>7 DEF TypeOK
  <2> QED
    BY <2>4, <2>5, <2>8 DEF PoolInv
<1>4. CASE UNCHANGED <<reconciled, pool>>
  <2>1. TypeOK'
    BY <1>1, <1>4 DEF TypeOK, pool, alive
  <2>2. PoolInv'
    BY <1>4 DEF PoolInv, EntriesAreLive, WorkersAreBounded, pool, alive, Tracked
  <2> QED
    BY <2>1, <2>2
<1> QED
  BY <1>1, <1>3, <1>4

\* An exit takes the worker's process, kill and timeout away, and no entry of
\* another key can have been its own.
LEMMA ExitPreserves ==
    ASSUME TypeOK, PoolInv, NEW w \in Workers, Exit(w)
    PROVE  TypeOK' /\ PoolInv'
<1>1. alive' = alive \ {w}
  BY PoolAssumption DEF Exit, TypeOK, alive
<1>2. keyOf[w] \in Keys
  BY DEF Exit, TypeOK, alive
<1>3. slot' = [slot EXCEPT ![keyOf[w]] = NoWorker]
  BY DEF Exit
<1>4. TypeOK'
  <2>1. slot' \in [Keys -> Workers \cup {NoWorker}]
    BY <1>3 DEF TypeOK
  <2>2. keyOf' \in [Workers -> Keys \cup {NoKey}]
    BY DEF Exit, TypeOK
  <2>3. killed' \subseteq alive' /\ armed' \subseteq alive'
    BY <1>1 DEF Exit, TypeOK
  <2> QED
    BY <2>1, <2>2, <2>3 DEF Exit, TypeOK, feed
<1>5. EntriesAreLive'
  <2> SUFFICES ASSUME NEW k \in Keys, slot'[k] # NoWorker
               PROVE  slot'[k] \in alive' /\ keyOf'[slot'[k]] = k
    BY DEF EntriesAreLive, Tracked
  <2>1. k # keyOf[w] /\ slot'[k] = slot[k]
    BY <1>2, <1>3 DEF TypeOK
  <2>2. slot[k] \in alive /\ keyOf[slot[k]] = k
    BY <2>1 DEF PoolInv, EntriesAreLive, Tracked
  <2>3. slot[k] # w
    BY <2>1, <2>2
  <2> QED
    BY <1>1, <2>1, <2>2, <2>3 DEF Exit, TypeOK, alive
<1>6. WorkersAreBounded'
  BY <1>1 DEF Exit, PoolInv, WorkersAreBounded
<1> QED
  BY <1>4, <1>5, <1>6 DEF PoolInv

LEMMA InitEstablishes == Init => TypeOK /\ PoolInv
<1> SUFFICES ASSUME Init PROVE TypeOK /\ PoolInv
  OBVIOUS
<1>1. alive = {} /\ Tracked = {}
  BY DEF Init, alive, Tracked
<1>2. TypeOK
  <2>1. slot \in [Keys -> Workers \cup {NoWorker}] /\ keyOf \in [Workers -> Keys \cup {NoKey}]
    BY DEF Init
  <2> QED
    BY <1>1, <2>1 DEF Init, TypeOK
<1> QED
  BY <1>1, <1>2 DEF PoolInv, EntriesAreLive, WorkersAreBounded

LEMMA NextPreserves == TypeOK /\ PoolInv /\ [Next]_vars => (TypeOK /\ PoolInv)'
<1> SUFFICES ASSUME TypeOK, PoolInv, [Next]_vars
             PROVE  TypeOK' /\ PoolInv'
  OBVIOUS
<1>1. ASSUME UNCHANGED pool
      PROVE  PoolInv' /\ alive' = alive
  BY <1>1 DEF PoolInv, EntriesAreLive, WorkersAreBounded, pool, alive, Tracked
<1>2. CASE PassStarts
  <2>1. asked' \subseteq Keys
    BY <1>2 DEF PassStarts, Tracked
  <2> QED
    BY <1>1, <1>2, <2>1 DEF PassStarts, TypeOK, pool
<1>3. CASE PassEnds
  <2>1. disk' \in Plans \cup {NoPlan}
    BY <1>3 DEF PassEnds, Plans
  <2>2. asked' = NoPass /\ UNCHANGED <<enabled, template, loads, reconciled, pool>>
    BY <1>3 DEF PassEnds
  <2> QED
    BY <1>1, <2>1, <2>2 DEF TypeOK, pool
<1>4. CASE Load
  <2>1. loads' \subseteq Plans
    BY <1>4 DEF Load, TypeOK
  <2> QED
    BY <1>1, <1>4, <2>1 DEF Load, TypeOK, pool
<1>5. CASE Feed
  BY <1>5, FeedPreserves
<1>6. CASE StopAll
  <2>1. StopWorkers /\ UNCHANGED <<enabled, template, feed>>
    BY <1>6 DEF StopAll
  <2> QED
    BY <2>1, StopPreserves DEF TypeOK, feed
<1>7. CASE UpdateSettings
  <2>1. /\ enabled' \in BOOLEAN
        /\ UNCHANGED pool \/ StopWorkers
        /\ UNCHANGED <<template, feed>>
    BY <1>7 DEF UpdateSettings, TypeOK
  <2>2. CASE UNCHANGED pool
    BY <1>1, <2>1, <2>2 DEF TypeOK, pool, feed
  <2>3. CASE StopWorkers
    BY <2>1, <2>3, StopPreserves DEF TypeOK, feed
  <2> QED
    BY <2>1, <2>2, <2>3
<1>8. CASE SetAgents
  <2>1. /\ template' \in BOOLEAN
        /\ UNCHANGED pool \/ StopWorkers
        /\ UNCHANGED <<enabled, feed>>
    BY <1>8 DEF SetAgents
  <2>2. CASE UNCHANGED pool
    BY <1>1, <2>1, <2>2 DEF TypeOK, pool, feed
  <2>3. CASE StopWorkers
    BY <2>1, <2>3, StopPreserves DEF TypeOK, feed
  <2> QED
    BY <2>1, <2>2, <2>3
<1>9. ASSUME NEW w \in Workers, TimeoutFires(w)
      PROVE  TypeOK' /\ PoolInv'
  <2>1. alive' = alive /\ Tracked' = Tracked
    BY <1>9 DEF TimeoutFires, alive, Tracked
  <2>2. TypeOK'
    BY <1>9, <2>1 DEF TimeoutFires, TypeOK, feed
  <2>3. EntriesAreLive'
    BY <1>9, <2>1 DEF TimeoutFires, PoolInv, EntriesAreLive
  <2>4. WorkersAreBounded'
    BY <1>9, <2>1 DEF TimeoutFires, PoolInv, WorkersAreBounded
  <2> QED
    BY <2>2, <2>3, <2>4 DEF PoolInv
<1>10. ASSUME NEW w \in Workers, Exit(w)
       PROVE  TypeOK' /\ PoolInv'
  BY <1>10, ExitPreserves
<1>11. CASE UNCHANGED vars
  BY <1>1, <1>11 DEF TypeOK, vars, pool, feed
<1> QED
  BY <1>2, <1>3, <1>4, <1>5, <1>6, <1>7, <1>8, <1>9, <1>10, <1>11 DEF Next

-----------------------------------------------------------------------------
\* In every reachable state of a pool of any size the map holds live workers
\* only, each under its own key, and every worker that was not told to stop is
\* still bounded by its timeout, the ones the map has lost included.
THEOREM PoolSafe == Spec => [](TypeOK /\ EntriesAreLive /\ WorkersAreBounded)
<1>1. Init => TypeOK /\ PoolInv
  BY InitEstablishes
<1>2. TypeOK /\ PoolInv /\ [Next]_vars => (TypeOK /\ PoolInv)'
  BY NextPreserves
<1>3. TypeOK /\ PoolInv => TypeOK /\ EntriesAreLive /\ WorkersAreBounded
  BY DEF PoolInv
<1> QED
  BY <1>1, <1>2, <1>3, PTL DEF Spec

\* The map, the workers and the plans on their way are well typed for any keys,
\* workers and plans.
COROLLARY PoolTypes == Spec => []TypeOK
  BY PoolSafe, PTL

\* No worker can run for ever, those the map has lost included: each has its timeout
\* armed or was told to stop.
COROLLARY WorkersStayBounded == Spec => []WorkersAreBounded
  BY PoolSafe, PTL

=============================================================================
