----------------------- MODULE SupervisedRunnerProofs -----------------------
(* Theorems about SupervisedRunner for every set of launch entries, every  *)
(* number of restarts and every supply of spawn numbers.                   *)
EXTENDS SupervisedRunner, TLAPS

\* The inductive invariant.  RunnerInv is inductive relative to the types: each
\* of its parts needs another.  A launch is safe only because no process is
\* unkilled when it happens, which is StrayRunsCondemned with no handle held,
\* which HandleIsCurrentRun gives for every state but running.
IInv == TypeOK /\ RunnerInv

-----------------------------------------------------------------------------
\* A failed run leaves the machine waiting in backoff with the backoff timer
\* armed, or failed with no timer: recordFailure() never strands the loop.
LEMMA RecordFailureSettles ==
    ASSUME NEW f \in 0..MaxRestarts, RecordFailure("none", f)
    PROVE  /\ failures' \in 1..MaxRestarts
           /\ \/ state' = "failed" /\ timer' = "none" /\ failures' = MaxRestarts
              \/ state' = "backoff" /\ timer' = "backoff" /\ failures' < MaxRestarts
BY RunnerAssumption DEF RecordFailure, ScheduleNext

\* One spawn, whatever its outcome, establishes the invariant when no timer is
\* armed and every process that is left was told to die.
LEMMA SpawnEstablishes ==
    ASSUME TypeOK,
           NEW f \in 0..MaxRestarts, NEW wake \in BOOLEAN, NEW live \in SUBSET Runs,
           Spawn("none", f, wake, live),
           killed' = live,
           entry' = entry, parked' \in BOOLEAN, idle' \in BOOLEAN
    PROVE  IInv'
<1>1. PICK r \in Runs \ (live \cup {seq}) :
        /\ seq' = r
        /\ \/ /\ state' = "running"
              /\ handle' = r
              /\ alive' = live \cup {r}
              /\ timeout' = (Lifetime = "scheduled")
              /\ timer' = "none"
              /\ failures' = f
           \/ /\ RecordFailure("none", f)
              /\ handle' = NoRun
              /\ alive' = live
              /\ timeout' = FALSE
           \/ /\ Rest
              /\ handle' = NoRun
              /\ alive' = live
              /\ timeout' = FALSE
  BY DEF Spawn
<1>2. timedOut' = FALSE /\ pendingWake' = wake
  BY DEF Spawn
<1>3. entry \in Entries /\ r # NoRun /\ r \in Runs /\ r \notin live /\ MaxRestarts \in Nat \ {0}
  BY <1>1, RunnerAssumption DEF TypeOK
<1>4. CASE /\ state' = "running"
           /\ handle' = r
           /\ alive' = live \cup {r}
           /\ timeout' = (Lifetime = "scheduled")
           /\ timer' = "none"
           /\ failures' = f
  <2>1. TypeOK'
    BY <1>1, <1>2, <1>3, <1>4 DEF TypeOK, States, Waiting, Timers
  <2>2. RunnerInv'
    BY <1>1, <1>2, <1>3, <1>4 DEF RunnerInv, NeverStranded, HandleIsCurrentRun,
         StrayRunsCondemned, FailureBudget, Waiting, Lifetime, BuiltIn
  <2>3. QED BY <2>1, <2>2 DEF IInv
<1>5. CASE /\ RecordFailure("none", f)
           /\ handle' = NoRun
           /\ alive' = live
           /\ timeout' = FALSE
  <2>1. /\ failures' \in 1..MaxRestarts
        /\ \/ state' = "failed" /\ timer' = "none" /\ failures' = MaxRestarts
           \/ state' = "backoff" /\ timer' = "backoff" /\ failures' < MaxRestarts
    BY <1>5, RecordFailureSettles
  <2>2. TypeOK'
    <3>1. state' \in States /\ timer' \in Timers /\ failures' \in 0..MaxRestarts
      BY <1>3, <2>1 DEF States, Waiting, Timers
    <3>2. QED BY <1>1, <1>2, <1>3, <1>5, <3>1 DEF TypeOK
  <2>3. RunnerInv'
    BY <1>1, <1>2, <1>3, <1>5, <2>1 DEF RunnerInv, NeverStranded, HandleIsCurrentRun,
         StrayRunsCondemned, FailureBudget, Waiting, Lifetime, BuiltIn
  <2>4. QED BY <2>2, <2>3 DEF IInv
<1>6. CASE /\ Rest
           /\ handle' = NoRun
           /\ alive' = live
           /\ timeout' = FALSE
  <2>1. failures' = 0 /\ state' = "scheduled" /\ timer' = "tick"
    BY <1>6 DEF Rest, ScheduleNext
  <2>2. TypeOK'
    <3>1. state' \in States /\ timer' \in Timers /\ failures' \in 0..MaxRestarts
      BY <1>3, <2>1 DEF States, Waiting, Timers
    <3>2. QED BY <1>1, <1>2, <1>3, <1>6, <3>1 DEF TypeOK
  <2>3. RunnerInv'
    BY <1>1, <1>2, <1>3, <1>6, <2>1 DEF RunnerInv, NeverStranded, HandleIsCurrentRun,
         StrayRunsCondemned, FailureBudget, Waiting, Lifetime, BuiltIn
  <2>4. QED BY <2>2, <2>3 DEF IInv
<1>7. QED BY <1>1, <1>4, <1>5, <1>6

\* The same of launch(), which may spawn a second time for a pending wake.
LEMMA LaunchEstablishes ==
    ASSUME TypeOK,
           NEW f \in 0..MaxRestarts, NEW wake \in BOOLEAN, NEW live \in SUBSET Runs,
           Launch("none", f, wake, live),
           killed' = live,
           entry' = entry, parked' \in BOOLEAN, idle' \in BOOLEAN
    PROVE  IInv'
<1>1. CASE Spawn("none", f, wake, live)
  BY <1>1, SpawnEstablishes
<1>2. CASE Spawn("none", 0, FALSE, live)
  <2>1. 0 \in 0..MaxRestarts
    BY RunnerAssumption
  <2>2. QED BY <1>2, <2>1, SpawnEstablishes
<1>3. QED BY <1>1, <1>2 DEF Launch

\* What the invariant says of a machine that is not running.
LEMMA NotRunning ==
    ASSUME IInv, state # "running"
    PROVE  handle = NoRun /\ killed = alive /\ ~timeout
<1>1. handle = NoRun /\ ~timeout
  BY Zenon DEF IInv, RunnerInv, HandleIsCurrentRun
<1>2. NoRun \notin alive
  BY RunnerAssumption DEF IInv, TypeOK
<1>3. killed = alive
  BY <1>1, <1>2 DEF IInv, TypeOK, RunnerInv, StrayRunsCondemned
<1>4. QED BY <1>1, <1>3

\* What it says of one that is.
LEMMA Running ==
    ASSUME IInv, state = "running"
    PROVE  /\ timer = "none"
           /\ handle = seq /\ handle \in alive /\ handle # NoRun
           /\ Condemned = alive
           /\ killed \ {handle} = alive \ {handle}
BY DEF IInv, TypeOK, RunnerInv, NeverStranded, HandleIsCurrentRun, StrayRunsCondemned,
       Waiting, Condemned

-----------------------------------------------------------------------------
LEMMA InitEstablishes == Init => IInv
<1> SUFFICES ASSUME Init PROVE IInv
  OBVIOUS
<1>1. TypeOK
  <2>1. failures \in 0..MaxRestarts
    BY RunnerAssumption DEF Init
  <2>2. QED BY <2>1, Zenon DEF Init, TypeOK, States, Timers, Waiting
<1>2. RunnerInv
  BY DEF Init, RunnerInv, NeverStranded, HandleIsCurrentRun, StrayRunsCondemned,
         FailureBudget, Waiting
<1>3. QED BY <1>1, <1>2 DEF IInv

LEMMA NextPreserves == IInv /\ [Next]_vars => IInv'
<1> SUFFICES ASSUME IInv, [Next]_vars PROVE IInv'
  OBVIOUS
<1>t. TypeOK
  BY DEF IInv
<1>m. MaxRestarts \in Nat \ {0} /\ NoRun \notin Runs
  BY RunnerAssumption
<1>l. alive \in SUBSET Runs /\ failures \in 0..MaxRestarts /\ pendingWake \in BOOLEAN
      /\ parked \in BOOLEAN /\ idle \in BOOLEAN
  BY <1>t DEF TypeOK
<1> USE DEF world, machine
<1>1. CASE Start
  <2>1. Launch("none", failures, pendingWake, alive) /\ killed' = alive
    BY <1>1, NotRunning DEF Start
  <2>2. QED BY <1>1, <1>t, <1>l, <2>1, LaunchEstablishes DEF Start
<1>2. CASE TickNow
  BY <1>2, <1>m DEF TickNow, IInv, TypeOK, RunnerInv, NeverStranded, HandleIsCurrentRun,
       StrayRunsCondemned, FailureBudget, Lifetime, BuiltIn
<1>3. CASE Stop
  <2>1. Condemned \in SUBSET alive /\ alive \subseteq Condemned
    <3>1. CASE state = "running"
      BY <3>1, Running
    <3>2. CASE state # "running"
      BY <3>2, NotRunning DEF Condemned
    <3>3. QED BY <3>1, <3>2
  <2>2. TypeOK'
    BY <1>3, <1>t, <2>1 DEF Stop, TypeOK, States, Timers
  <2>3. RunnerInv'
    BY <1>3, <2>1 DEF Stop, RunnerInv, NeverStranded, HandleIsCurrentRun,
         StrayRunsCondemned, FailureBudget, Waiting
  <2>4. QED BY <2>2, <2>3 DEF IInv
<1>4. CASE Retry
  <2>1. timer = "none"
    BY <1>4, <1>t DEF Retry, IInv, RunnerInv, NeverStranded, Waiting, TypeOK
  <2>2. Launch("none", 0, pendingWake, alive) /\ killed' = alive
    BY <1>4, <2>1, NotRunning DEF Retry
  <2>3. 0 \in 0..MaxRestarts
    BY <1>m
  <2>4. QED BY <1>4, <1>t, <1>l, <2>2, <2>3, LaunchEstablishes DEF Retry
<1>5. CASE Wake
  <2>1. parked' \in BOOLEAN /\ idle' \in BOOLEAN /\ entry' = entry
    BY <1>5, <1>l DEF Wake
  <2>2. CASE state \in Waiting /\ Launch("none", failures, pendingWake, alive)
    <3>1. killed' = alive
      BY <1>5, <2>2, NotRunning DEF Wake, Waiting
    <3>2. QED BY <2>1, <2>2, <3>1, <1>t, <1>l, LaunchEstablishes
  <2>3. CASE ~(state \in Waiting /\ Launch("none", failures, pendingWake, alive))
    <3>1. /\ UNCHANGED <<state, timer, timeout, failures, timedOut, seq, handle, alive, killed>>
          /\ \/ pendingWake' = TRUE /\ state # "stopped"
             \/ pendingWake' = pendingWake
      BY <1>5, <2>3 DEF Wake
    <3>2. TypeOK'
      BY <2>1, <3>1, <1>t, <1>l DEF TypeOK
    <3>3. RunnerInv'
      BY <2>1, <3>1 DEF IInv, RunnerInv, NeverStranded, HandleIsCurrentRun,
           StrayRunsCondemned, FailureBudget, Lifetime, BuiltIn
    <3>4. QED BY <3>2, <3>3 DEF IInv
  <2>4. QED BY <2>2, <2>3
<1>6. CASE NoteParked
  <2>1. CASE /\ Lifetime = "daemon" /\ state = "running"
             /\ timeout' = FALSE /\ pendingWake' = FALSE /\ handle' = NoRun
             /\ ScheduleNext(failures, "recheck")
             /\ killed' = Condemned
             /\ UNCHANGED <<failures, timedOut, seq>>
    <3>1. /\ killed' = alive /\ alive' = alive /\ entry' = entry
          /\ parked' = TRUE /\ idle' = idle
      BY <1>6, <2>1, Running DEF NoteParked
    <3>2. /\ state' \in Waiting /\ timer' = "recheck" /\ failures' = failures
          /\ state' = "scheduled" => failures' = 0
          /\ state' = "backoff" => failures' > 0
      BY <2>1, <1>l, <1>m DEF ScheduleNext, Waiting
    <3>3. TypeOK'
      BY <2>1, <3>1, <3>2, <1>t DEF TypeOK, States, Timers
    <3>4. RunnerInv'
      BY <2>1, <3>1, <3>2 DEF RunnerInv, NeverStranded, HandleIsCurrentRun,
           StrayRunsCondemned, FailureBudget, Waiting, Lifetime
    <3>5. QED BY <3>3, <3>4 DEF IInv
  <2>2. CASE UNCHANGED <<machine, killed>>
    BY <1>6, <1>m, <2>2 DEF NoteParked, IInv, TypeOK, RunnerInv, NeverStranded,
         HandleIsCurrentRun, StrayRunsCondemned, FailureBudget, Lifetime, BuiltIn
  <2>3. QED BY <1>6, <2>1, <2>2 DEF NoteParked
<1>7. CASE NoteUnparked \/ IdleChange \/ UNCHANGED vars
  <2>1. /\ UNCHANGED <<machine, alive, killed>>
        /\ entry' = entry /\ parked' \in BOOLEAN /\ idle' \in BOOLEAN
    BY <1>7, <1>l DEF NoteUnparked, IdleChange, vars
  <2>2. TypeOK'
    BY <2>1, <1>t DEF TypeOK
  <2>3. RunnerInv'
    BY <2>1 DEF IInv, RunnerInv, NeverStranded, HandleIsCurrentRun,
         StrayRunsCondemned, FailureBudget, Lifetime, BuiltIn
  <2>4. QED BY <2>2, <2>3 DEF IInv
<1>8. CASE FailCurrentRun /\ state = "running"
  <2>1. killed' = alive /\ alive' = alive /\ UNCHANGED <<pendingWake, seq, world>>
        /\ timedOut' = TRUE /\ timeout' = FALSE
    BY <1>8, Running DEF FailCurrentRun
  <2>2. CASE BuiltIn /\ handle' = NoRun /\ RecordFailure(timer, failures)
    <3>1. /\ failures' \in 1..MaxRestarts
          /\ \/ state' = "failed" /\ timer' = "none" /\ failures' = MaxRestarts
             \/ state' = "backoff" /\ timer' = "backoff" /\ failures' < MaxRestarts
      BY <1>8, <2>2, <1>l, Running, RecordFailureSettles
    <3>2. state' \in States /\ timer' \in Timers /\ failures' \in 0..MaxRestarts
      BY <3>1, <1>m DEF States, Waiting, Timers
    <3>3. TypeOK'
      BY <2>1, <2>2, <3>2, <1>t DEF TypeOK
    <3>4. RunnerInv'
      BY <2>1, <2>2, <3>1, <1>m DEF RunnerInv, NeverStranded, HandleIsCurrentRun,
           StrayRunsCondemned, FailureBudget, Waiting
    <3>5. QED BY <3>3, <3>4 DEF IInv
  <2>3. CASE ~BuiltIn /\ UNCHANGED <<state, timer, failures, handle>>
    <3>1. TypeOK'
      BY <2>1, <2>3, <1>t DEF TypeOK
    <3>2. RunnerInv'
      BY <2>1, <2>3, <1>8 DEF IInv, RunnerInv, NeverStranded, HandleIsCurrentRun,
           StrayRunsCondemned, FailureBudget, Waiting, Lifetime, BuiltIn
    <3>3. QED BY <3>1, <3>2 DEF IInv
  <2>4. QED BY <1>8, <2>2, <2>3 DEF FailCurrentRun
<1>9. CASE Wedged
  BY <1>9, <1>8 DEF Wedged
<1>10. CASE TimeoutFires
  BY <1>10, <1>8 DEF TimeoutFires, IInv, RunnerInv, HandleIsCurrentRun
<1>11. CASE TimerFires
  <2>1. state # "running" /\ killed = alive /\ handle = NoRun /\ state \in Waiting
    BY <1>11, NotRunning DEF TimerFires, IInv, RunnerInv, NeverStranded, Waiting
  <2>2. CASE Launch("none", failures, pendingWake, alive)
    BY <1>11, <1>t, <1>l, <2>1, <2>2, LaunchEstablishes DEF TimerFires
  <2>3. CASE /\ ScheduleNext(failures, "recheck")
             /\ timeout' = FALSE
             /\ UNCHANGED <<failures, pendingWake, timedOut, seq, handle, alive>>
    <3>1. UNCHANGED <<killed, world>>
      BY <1>11 DEF TimerFires
    <3>2. /\ state' \in Waiting /\ timer' = "recheck"
          /\ state' = "scheduled" => failures = 0
          /\ state' = "backoff" => failures > 0
      BY <2>3, <1>l, <1>m DEF ScheduleNext, Waiting
    <3>3. state' = state
      BY <2>1, <3>2, <1>l DEF IInv, RunnerInv, FailureBudget, Waiting
    <3>4. TypeOK'
      BY <2>3, <3>1, <3>2, <1>t DEF TypeOK, States, Timers
    <3>5. RunnerInv'
      BY <2>1, <2>3, <3>1, <3>2, <3>3 DEF IInv, RunnerInv, NeverStranded,
           HandleIsCurrentRun, StrayRunsCondemned, FailureBudget, Waiting, Lifetime, BuiltIn
    <3>6. QED BY <3>4, <3>5 DEF IInv
  <2>4. QED BY <1>11, <2>2, <2>3 DEF TimerFires
<1>12. ASSUME NEW r \in Runs, NEW ok \in BOOLEAN, NEW healthy \in BOOLEAN, Exit(r, ok, healthy)
       PROVE  IInv'
  <2>1. CASE Inert(r) /\ alive' = alive \ {r} /\ UNCHANGED machine
    <3>1. killed' = killed \ {r} /\ UNCHANGED world
      BY <1>12 DEF Exit
    <3>2. r # handle
      BY <2>1, <1>m, <1>t DEF Inert, IInv, RunnerInv, HandleIsCurrentRun
    <3>3. QED
      BY <2>1, <3>1, <3>2, <1>m DEF IInv, TypeOK, RunnerInv, NeverStranded,
           HandleIsCurrentRun, StrayRunsCondemned, FailureBudget, Lifetime, BuiltIn
  <2>2. CASE ~Inert(r) /\ RouteExit(Clean(ok, healthy), alive \ {r})
    <3>1. r = handle /\ r = seq /\ state = "running" /\ timer = "none"
      BY <2>2, Running DEF Inert
    <3>2. killed' = alive \ {r} /\ UNCHANGED world /\ alive \ {r} \in SUBSET Runs
      BY <1>12, <1>l, <3>1, Running DEF Exit
    <3>3. 0 \in 0..MaxRestarts
      BY <1>m
    <3>4. CASE Launch(timer, 0, FALSE, alive \ {r})
      BY <1>t, <1>l, <3>1, <3>2, <3>3, <3>4, LaunchEstablishes
    <3>5. CASE /\ Rest \/ RecordFailure(timer, failures)
               /\ alive' = alive \ {r} /\ handle' = NoRun /\ timeout' = FALSE
               /\ UNCHANGED <<pendingWake, timedOut, seq>>
      <4>1. \/ failures' = 0 /\ state' = "scheduled" /\ timer' = "tick"
            \/ /\ failures' \in 1..MaxRestarts
               /\ \/ state' = "failed" /\ timer' = "none" /\ failures' = MaxRestarts
                  \/ state' = "backoff" /\ timer' = "backoff" /\ failures' < MaxRestarts
        BY <3>1, <3>5, <1>l, RecordFailureSettles DEF Rest, ScheduleNext
      <4>2. state' \in States /\ timer' \in Timers /\ failures' \in 0..MaxRestarts
        BY <4>1, <1>m DEF States, Waiting, Timers
      <4>3. TypeOK'
        BY <3>2, <3>5, <4>2, <1>t DEF TypeOK
      <4>4. RunnerInv'
        BY <3>2, <3>5, <4>1, <1>m DEF RunnerInv, NeverStranded, HandleIsCurrentRun,
             StrayRunsCondemned, FailureBudget, Waiting
      <4>5. QED BY <4>3, <4>4 DEF IInv
    <3>6. QED BY <2>2, <3>4, <3>5 DEF RouteExit
  <2>3. QED BY <1>12, <2>1, <2>2 DEF Exit
<1>13. QED
  BY <1>1, <1>2, <1>3, <1>4, <1>5, <1>6, <1>7, <1>9, <1>10, <1>11, <1>12 DEF Next, Ends

-----------------------------------------------------------------------------
\* Every reachable state of the machine is well typed, and the machine never
\* strands a waiting loop, never loses the handle of its run, never leaves a
\* process behind that it has not told to die, and never relaunches past its
\* restart budget.
THEOREM RunnerSafe ==
    Spec => [](/\ TypeOK
               /\ NeverStranded
               /\ HandleIsCurrentRun
               /\ StrayRunsCondemned
               /\ FailureBudget)
<1>1. IInv => TypeOK /\ NeverStranded /\ HandleIsCurrentRun /\ StrayRunsCondemned /\ FailureBudget
  BY DEF IInv, RunnerInv
<1>2. QED BY <1>1, InitEstablishes, NextPreserves, PTL DEF Spec

\* The state, the strikes and the armed timer are always among those the scheduler
\* knows, and every handle and process is a run that was spawned.
COROLLARY RunnerTypes == Spec => []TypeOK
  BY RunnerSafe, PTL

\* The handle is that of the current run while one is up, and none otherwise: a
\* stop, a timeout or the wedge check reaches the run it is meant for.
COROLLARY HandlesTrackRuns == Spec => []HandleIsCurrentRun
  BY RunnerSafe, PTL

\* Every process that outlives its place in the machine was told to die.
COROLLARY StraysAreCondemned == Spec => []StrayRunsCondemned
  BY RunnerSafe, PTL

\* The strikes agree with the state: no relaunch goes past the restart budget.
COROLLARY BudgetIsKept == Spec => []FailureBudget
  BY RunnerSafe, PTL

\* One launch entry never has two processes that nobody has told to die, in
\* whatever order it is stopped, restarted, parked and reported exited.
OneRunAtWork == \A p, q \in alive \ killed : p = q

THEOREM OneRunPerEntry == Spec => []OneRunAtWork
<1>1. StrayRunsCondemned => OneRunAtWork
  BY DEF StrayRunsCondemned, OneRunAtWork
<1>2. QED BY <1>1, StraysAreCondemned, PTL

-----------------------------------------------------------------------------
\* A process leaves the set of live ones only by its own exit event: no launch
\* and no kill drops one.
LEMMA OnlyExitEnds ==
    ASSUME [Next]_vars, NEW r \in alive, r \notin alive'
    PROVE  \E q \in Runs, ok, healthy \in BOOLEAN : r = q /\ Exit(q, ok, healthy)
<1>1. ASSUME NEW t, NEW f, NEW wake, NEW live, Launch(t, f, wake, live)
      PROVE  live \subseteq alive'
  BY <1>1 DEF Launch, Spawn
<1>2. ASSUME NEW q \in Runs, NEW ok \in BOOLEAN, NEW healthy \in BOOLEAN, Exit(q, ok, healthy)
      PROVE  r = q
  BY <1>1, <1>2 DEF Exit, RouteExit
<1>3. CASE Start \/ Retry \/ Wake \/ TimerFires
  BY <1>1, <1>3 DEF Start, Retry, Wake, TimerFires
<1>4. CASE TickNow \/ Stop \/ NoteParked \/ NoteUnparked \/ IdleChange \/ Wedged
           \/ TimeoutFires \/ UNCHANGED vars
  BY <1>4 DEF TickNow, Stop, NoteParked, NoteUnparked, IdleChange, Wedged, TimeoutFires,
       FailCurrentRun, vars
<1>5. CASE \E q \in Runs : Ends(q)
  BY <1>2, <1>5 DEF Ends
<1>6. QED BY <1>3, <1>4, <1>5 DEF Next

\* The late exit of a run that the machine has let go changes nothing in it, in
\* every behaviour.
THEOREM StrayExitsAreInert == Spec => StrayExitInert
<1>1. ASSUME IInv, [Next]_vars, NEW r \in alive \ {handle}, r \notin alive'
      PROVE  UNCHANGED machine
  <2>1. PICK ok \in BOOLEAN, healthy \in BOOLEAN : Exit(r, ok, healthy)
    BY <1>1, OnlyExitEnds
  <2>2. Inert(r)
    BY <1>1, Running DEF Inert
  <2>3. QED BY <2>1, <2>2 DEF Exit
<1>2. IInv /\ [Next]_vars => [\A r \in alive \ {handle} : r \notin alive' => UNCHANGED machine]_vars
  BY <1>1
<1>3. QED BY <1>2, InitEstablishes, NextPreserves, PTL DEF Spec, StrayExitInert

\* A run that was killed for its timeout or as wedged is recorded as a failure
\* when it ends, in every behaviour: it cannot reset the strikes by exiting zero
\* on SIGTERM or by having been up for long.
THEOREM KilledRunsFail == Spec => KilledRunIsAFailure
<1> DEFINE Fails == failures' > 0 /\ failures' >= failures /\ state' \in {"backoff", "failed"}
<1>1. ASSUME IInv, [Next]_vars, timedOut, handle # NoRun, handle \notin alive'
      PROVE  Fails
  <2>1. state = "running" /\ handle \in alive /\ handle = seq /\ (BuiltIn => handle \notin killed)
    BY <1>1 DEF IInv, RunnerInv, HandleIsCurrentRun
  <2>2. PICK ok \in BOOLEAN, healthy \in BOOLEAN : Exit(handle, ok, healthy)
    BY <1>1, <2>1, OnlyExitEnds
  <2>3. ~Inert(handle) /\ ~Clean(ok, healthy)
    BY <1>1, <2>1 DEF Inert, Clean
  <2>4. RecordFailure(timer, failures)
    BY <2>2, <2>3 DEF Exit, RouteExit
  <2>5. timer = "none" /\ failures \in 0..MaxRestarts
    BY <1>1, <2>1, Running DEF IInv, TypeOK
  <2>6. QED
    BY <2>4, <2>5, RunnerAssumption DEF RecordFailure, ScheduleNext
<1>2. IInv /\ [Next]_vars =>
        [ (timedOut /\ handle # NoRun /\ handle \notin alive') => Fails ]_vars
  BY <1>1
<1>3. QED BY <1>2, InitEstablishes, NextPreserves, PTL DEF Spec, KilledRunIsAFailure

=============================================================================
