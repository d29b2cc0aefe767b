-------------------------- MODULE SupervisedRunner --------------------------
(***************************************************************************)
(* One (repository, launch entry) supervision machine,                     *)
(* src/src/supervisor/supervisedRunner.ts, together with the processes it  *)
(* starts and the two facts about its surroundings it reads (parked, idle).*)
(*                                                                         *)
(* Every event of the extension host runs to completion, so one handler is *)
(* one action.  `launching' lives only inside launch(): the handler leaves *)
(* it before it returns, and it is not a value of `state'.                 *)
(*                                                                         *)
(* Abstractions.  A spawn sequence number is a member of Runs that no live *)
(* process holds and that differs from the current one: the code only      *)
(* compares numbers for equality, so reusing the number of a process that  *)
(* can send no more events is invisible to it.  A delay is named by the    *)
(* reason it was armed for.  `failures' saturates at MaxRestarts: the code *)
(* only asks whether it is positive and whether it reached that limit.     *)
(*                                                                         *)
(* A definition named Mut... is the one after it with a plausible bug: it  *)
(* is no part of the specification and shows that a property notices.      *)
(***************************************************************************)
EXTENDS Naturals, FiniteSets

CONSTANTS
    Entries,     \* the launch entries this machine may be supervising
    MaxRestarts, \* consecutive failures after which the agent is `failed'
    Runs,        \* names for the spawn sequence numbers in use at one time
    NoRun        \* the null process handle

ASSUME RunnerAssumption ==
    /\ Entries \subseteq [lifetime : {"scheduled", "daemon"}, builtIn : BOOLEAN]
    /\ MaxRestarts \in Nat \ {0}
    /\ NoRun \notin Runs

VARIABLES
    entry,       \* the launch entry: it never changes
    state,       \* the run state
    timer,       \* what cancelTimer is armed for, "none" when it is not
    timeout,     \* the wall-clock kill timer of the current run is armed
    failures,    \* consecutiveFailures
    pendingWake, \* a wake arrived while a pass was running
    timedOut,    \* the current run was killed for its timeout or as wedged
    seq,         \* spawnSeq of the latest launch
    handle,      \* the process the runner would kill, or NoRun
    alive,       \* runs whose process (or pass) is still executing
    killed,      \* the members of alive that were told to stop
    parked,      \* the repository's orchestrator is parked
    idle         \* scheduling is paused because the window is idle

machine == <<state, timer, timeout, failures, pendingWake, timedOut, seq, handle>>
world   == <<entry, parked, idle>>
vars    == <<machine, alive, killed, world>>

Lifetime == entry.lifetime
BuiltIn  == entry.builtIn   \* the in-process planner pass, not a process

Waiting == {"scheduled", "backoff"}
States  == Waiting \cup {"stopped", "running", "failed"}
Timers  == {"none", "tick", "backoff", "recheck"}

TypeOK ==
    /\ entry \in Entries
    /\ state \in States
    /\ timer \in Timers
    /\ timeout \in BOOLEAN
    /\ failures \in 0..MaxRestarts
    /\ pendingWake \in BOOLEAN
    /\ timedOut \in BOOLEAN
    /\ seq \in Runs \cup {NoRun}
    /\ handle \in Runs \cup {NoRun}
    /\ alive \subseteq Runs
    /\ killed \subseteq alive
    /\ parked \in BOOLEAN
    /\ idle \in BOOLEAN

Init ==
    /\ entry \in Entries
    /\ state = "stopped"
    /\ timer = "none"
    /\ timeout = FALSE
    /\ failures = 0
    /\ pendingWake = FALSE
    /\ timedOut = FALSE
    /\ seq = NoRun
    /\ handle = NoRun
    /\ alive = {}
    /\ killed = {}
    /\ parked = FALSE
    /\ idle = FALSE

-----------------------------------------------------------------------------
(* The private methods.  Each names the variables it assigns; its caller   *)
(* says what happens to the others.                                        *)

MutCondemned == killed \cup {handle}     \* kill() on a null handle

\* The runs condemned by handle?.kill().
Condemned == killed \cup ({handle} \ {NoRun})

\* scheduleNext(delay) after a run that left `f' consecutive failures.
ScheduleNext(f, delay) ==
    /\ state' = IF f > 0 THEN "backoff" ELSE "scheduled"
    /\ timer' = delay

MutRecordFailure(t, f) ==                 \* > instead of >= maxRestarts
    /\ failures' = IF f < MaxRestarts THEN f + 1 ELSE f
    /\ IF f = MaxRestarts THEN state' = "failed" /\ timer' = t
                          ELSE ScheduleNext(f + 1, "backoff")

\* recordFailure(code): one more strike, then failed or backoff(n).
RecordFailure(t, f) ==
    LET n == IF f < MaxRestarts THEN f + 1 ELSE f
    IN  /\ failures' = n
        /\ \/ /\ n = MaxRestarts
              /\ state' = "failed"
              /\ timer' = t
           \/ /\ n < MaxRestarts
              /\ ScheduleNext(n, "backoff")

\* The clean branch of routeExit() when no wake is pending.
Rest ==
    /\ failures' = 0
    /\ ScheduleNext(0, "tick")

\* One spawn of launch(), given the timer, the failures, the pending wake and
\* the live processes at that point.  It ends with the process up, with the
\* synchronous failure of a spawner that throws or reports a non-zero exit at
\* once, or with the synchronous clean exit of a built-in pass that has no
\* forge connection yet.
Spawn(t, f, wake, live) ==
    /\ \E r \in Runs \ (live \cup {seq}) :
        /\ seq' = r
        /\ \/ /\ state' = "running"
              /\ handle' = r
              /\ alive' = live \cup {r}
              /\ timeout' = (Lifetime = "scheduled")
              /\ timer' = t
              /\ failures' = f
           \/ /\ RecordFailure(t, f)
              /\ handle' = NoRun
              /\ alive' = live
              /\ timeout' = FALSE
           \/ /\ BuiltIn
              /\ Lifetime = "scheduled"
              /\ ~wake
              /\ Rest
              /\ handle' = NoRun
              /\ alive' = live
              /\ timeout' = FALSE
    /\ timedOut' = FALSE
    /\ pendingWake' = wake

\* launch(): a synchronous clean exit consumes a pending wake by launching
\* again at once.
Launch(t, f, wake, live) ==
    \/ Spawn(t, f, wake, live)
    \/ /\ BuiltIn
       /\ Lifetime = "scheduled"
       /\ wake
       /\ Spawn(t, 0, FALSE, live)

\* Kill the current run and have its end count as a failure.  A built-in pass
\* reports exit 1 from inside kill(); a process reports when it is dead.
FailCurrentRun ==
    /\ timedOut' = TRUE
    /\ killed' = Condemned
    /\ timeout' = FALSE
    /\ \/ /\ BuiltIn
          /\ handle' = NoRun
          /\ RecordFailure(timer, failures)
       \/ /\ ~BuiltIn
          /\ UNCHANGED <<state, timer, failures, handle>>
    /\ UNCHANGED <<pendingWake, seq, alive, world>>

-----------------------------------------------------------------------------
(* Commands of the operator.                                               *)

\* start(): an immediate launch regardless of parking.
Start ==
    /\ state # "running"
    /\ Launch("none", failures, pendingWake, alive)
    /\ UNCHANGED <<killed, world>>

\* tickNow() while a pass runs: a follow-up pass on exit.  In every other
\* state it is Start.
TickNow ==
    /\ state = "running"
    /\ pendingWake' = TRUE
    /\ UNCHANGED <<state, timer, timeout, failures, timedOut, seq, handle,
                   alive, killed, world>>

MutStopLeavesTimer ==                     \* no clearTimers()
    /\ state' = "stopped"
    /\ handle' = NoRun
    /\ killed' = Condemned
    /\ timeout' = FALSE
    /\ pendingWake' = FALSE
    /\ UNCHANGED <<timer, failures, timedOut, seq, alive, world>>

MutStopWithoutKill ==                     \* the handle is nulled, then killed
    /\ state' = "stopped"
    /\ timer' = "none"
    /\ timeout' = FALSE
    /\ pendingWake' = FALSE
    /\ handle' = NoRun
    /\ UNCHANGED <<failures, timedOut, seq, alive, killed, world>>

\* stop(): settle first, kill last, so that the exit a synchronous kill
\* reports finds the machine stopped.
Stop ==
    /\ state' = "stopped"
    /\ timer' = "none"
    /\ timeout' = FALSE
    /\ pendingWake' = FALSE
    /\ handle' = NoRun
    /\ killed' = Condemned
    /\ UNCHANGED <<failures, timedOut, seq, alive, world>>

\* retry(): from failed only, with a clean slate.
Retry ==
    /\ state = "failed"
    /\ Launch(timer, 0, pendingWake, alive)
    /\ UNCHANGED <<killed, world>>

-----------------------------------------------------------------------------
(* Events the supervisor passes on.                                        *)

\* wakeRepo(): the pause is cleared and the runner woken.
Wake ==
    /\ parked' = FALSE
    /\ \/ /\ state \in Waiting
          /\ Launch("none", failures, pendingWake, alive)
       \/ /\ state = "running"
          /\ pendingWake' = TRUE
          /\ UNCHANGED <<state, timer, timeout, failures, timedOut, seq, handle, alive>>
       \/ /\ state \in {"stopped", "failed"}
          /\ UNCHANGED <<machine, alive>>
    /\ UNCHANGED <<killed, entry, idle>>

MutNoteParked ==                          \* the daemon's handle is kept
    /\ parked' = TRUE
    /\ IF Lifetime = "daemon" /\ state = "running"
       THEN /\ ScheduleNext(failures, "recheck")
            /\ killed' = Condemned
            /\ UNCHANGED <<timeout, failures, pendingWake, timedOut, seq, handle>>
       ELSE UNCHANGED <<machine, killed>>
    /\ UNCHANGED <<alive, entry, idle>>

\* noteOrchestrator() with a parked state: a running daemon is suspended and
\* killed, every other agent parks itself when its timer fires.
NoteParked ==
    /\ parked' = TRUE
    /\ \/ /\ Lifetime = "daemon"
          /\ state = "running"
          /\ timeout' = FALSE
          /\ pendingWake' = FALSE
          /\ handle' = NoRun
          /\ ScheduleNext(failures, "recheck")
          /\ killed' = Condemned
          /\ UNCHANGED <<failures, timedOut, seq>>
       \/ /\ ~(Lifetime = "daemon" /\ state = "running")
          /\ UNCHANGED <<machine, killed>>
    /\ UNCHANGED <<alive, entry, idle>>

\* noteOrchestrator() without one.
NoteUnparked ==
    /\ parked
    /\ parked' = FALSE
    /\ UNCHANGED <<machine, alive, killed, entry, idle>>

\* The window went idle, or came back.
IdleChange ==
    /\ idle' = ~idle
    /\ UNCHANGED <<machine, alive, killed, entry, parked>>

\* checkDaemonWedged(): no pass progress for twice the interval.  When that is
\* so is the environment's choice.
Wedged ==
    /\ Lifetime = "daemon"
    /\ state = "running"
    /\ FailCurrentRun

-----------------------------------------------------------------------------
(* Timers and processes.                                                   *)

\* onTimerFired(): parked and idle-paused agents only re-arm.
TimerFires ==
    /\ timer # "none"
    /\ \/ /\ parked \/ idle
          /\ ScheduleNext(failures, "recheck")
          /\ timeout' = FALSE
          /\ UNCHANGED <<failures, pendingWake, timedOut, seq, handle, alive>>
       \/ /\ ~parked /\ ~idle
          /\ Launch("none", failures, pendingWake, alive)
    /\ UNCHANGED <<killed, world>>

MutTimeoutFires ==                        \* the hung pass is only marked
    /\ timeout
    /\ timeout' = FALSE
    /\ timedOut' = TRUE
    /\ UNCHANGED <<state, timer, failures, pendingWake, seq, handle, alive, killed, world>>

\* The wall-clock timeout of armTimeout(): it kills once and never again.
TimeoutFires ==
    /\ timeout
    /\ FailCurrentRun

MutInert(r) == state # "running" \/ (BuiltIn /\ r \in killed)   \* no spawn guard

\* Is the exit of run r inert: from an earlier spawn, after the machine has
\* settled, or from a built-in pass that already reported when it was killed?
Inert(r) ==
    \/ r # seq
    \/ state # "running"
    \/ BuiltIn /\ r \in killed

MutClean(ok, healthy) ==                  \* the timeout flag is not consulted
    IF Lifetime = "scheduled" THEN ok ELSE healthy

\* Did the current run end well: a tick that exited zero, or a daemon that had
\* been up for a minute, and that was not killed for a timeout or as wedged?
Clean(ok, healthy) ==
    /\ ~timedOut
    /\ IF Lifetime = "scheduled" THEN ok ELSE healthy

MutRouteExit(clean, live) ==              \* the pending wake is forgotten
    /\ IF clean THEN Rest ELSE RecordFailure(timer, failures)
    /\ alive' = live
    /\ handle' = NoRun
    /\ timeout' = FALSE
    /\ UNCHANGED <<pendingWake, timedOut, seq>>

\* routeExit(): a clean tick or a daemon that stayed up long enough resets the
\* failures; then a pending wake launches at once, else the next tick is armed.
RouteExit(clean, live) ==
    \/ /\ clean
       /\ pendingWake
       /\ Launch(timer, 0, FALSE, live)
    \/ /\ \/ clean /\ ~pendingWake /\ Rest
          \/ ~clean /\ RecordFailure(timer, failures)
       /\ alive' = live
       /\ handle' = NoRun
       /\ timeout' = FALSE
       /\ UNCHANGED <<pendingWake, timedOut, seq>>

\* Run r ends with exit code zero (ok) or not, after a minute or more of
\* uptime (healthy) or less: onExit().
Exit(r, ok, healthy) ==
    /\ r \in alive
    /\ killed' = killed \ {r}
    /\ \/ /\ Inert(r)
          /\ alive' = alive \ {r}
          /\ UNCHANGED machine
       \/ /\ ~Inert(r)
          /\ RouteExit(Clean(ok, healthy), alive \ {r})
    /\ UNCHANGED world

Ends(r) == \E ok, healthy \in BOOLEAN : Exit(r, ok, healthy)

-----------------------------------------------------------------------------
Next ==
    \/ Start \/ TickNow \/ Stop \/ Retry
    \/ Wake \/ NoteParked \/ NoteUnparked \/ IdleChange \/ Wedged
    \/ TimerFires \/ TimeoutFires
    \/ \E r \in Runs : Ends(r)

Spec == Init /\ [][Next]_vars

\* Timers fire, and a run that was told to stop does stop: a process honours
\* SIGTERM, a built-in pass runs to its end.  Nothing else is promised.
Fairness ==
    /\ WF_vars(TimerFires)
    /\ WF_vars(TimeoutFires)
    /\ \A r \in Runs : WF_vars(r \in killed /\ Ends(r))

FairSpec == Spec /\ Fairness

-----------------------------------------------------------------------------
(* Safety.                                                                 *)

\* A loop waits for its next launch exactly while a timer is armed for it: a
\* waiting loop without one is stranded for good, and a timer left behind by
\* stop(), retry() or a launch starts a pass nobody asked for.  Nor does a
\* stopped loop keep a wake that would add a phantom pass to its next start.
NeverStranded ==
    /\ state \in Waiting <=> timer # "none"
    /\ state = "stopped" => ~pendingWake

\* While a run is up the runner holds the handle of that very run, which can
\* still report, and otherwise holds none: stop(), the timeout and the wedge
\* check kill the current run and nothing else.
HandleIsCurrentRun ==
    /\ state = "running" <=> handle # NoRun
    /\ handle # NoRun =>
         /\ handle = seq
         /\ handle \in alive
         /\ BuiltIn => handle \notin killed
    /\ timeout => state = "running" /\ Lifetime = "scheduled"

\* Every process that outlives its place in the machine was told to die: no
\* order of stops, restarts, parks and late exits leaks an unkilled process.
StrayRunsCondemned == alive \ {handle} \subseteq killed

\* The strikes agree with the state: a loop that still relaunches by itself has
\* restarts left, and failed means they are used up.  The one exception is a
\* daemon the operator started by hand after it failed: parking it suspends it
\* in backoff with its strikes, and it relaunches from there.
FailureBudget ==
    /\ state = "scheduled" => failures = 0
    /\ state = "backoff" => failures > 0 /\ (failures < MaxRestarts \/ Lifetime = "daemon")
    /\ state = "failed" => failures = MaxRestarts

RunnerInv ==
    /\ NeverStranded
    /\ HandleIsCurrentRun
    /\ StrayRunsCondemned
    /\ FailureBudget

(* Action properties.                                                      *)

\* The late exit of a run the machine no longer tracks changes nothing in it:
\* it is not routed as the failure, or the success, of the run that followed.
StrayExitInert ==
    [][\A r \in alive \ {handle} : r \notin alive' => UNCHANGED machine]_vars

\* A tracked process killed for its timeout or as wedged counts as a failure
\* when it ends, whatever exit code it manages to return and however long it
\* had been up, so a hung pass can never reset the strikes.
KilledRunIsAFailure ==
    [][ (timedOut /\ handle # NoRun /\ handle \notin alive')
            => failures' > 0 /\ failures' >= failures /\ state' \in {"backoff", "failed"} ]_vars

(* Liveness.                                                               *)

Settled   == state \in {"stopped", "failed"}
Suspended == parked \/ idle

\* A scheduled agent that from some point on is neither stopped, failed nor
\* suspended runs pass after pass: no hung pass, lost timer or swallowed exit
\* stops the cadence.
KeepsTicking ==
    Lifetime = "scheduled" /\ <>[](~Settled /\ ~Suspended) => []<><<seq' # seq>>_vars

\* A wake that found a pass running is answered by another pass, unless the loop
\* is stopped, fails for good or is suspended first.
WakeIsServed ==
    Lifetime = "scheduled" /\ pendingWake ~> ~pendingWake \/ Settled \/ Suspended

(* What the documentation and the comments promise and the code does not   *)
(* keep.                                                                   *)

\* "no overlap, ever -- at most one planner process per repo".
NoOverlap == Cardinality(alive) <= 1

=============================================================================
