------------------------------- MODULE Fleet -------------------------------
(***************************************************************************)
(* The launch entries of one repository in the extension host: loading and *)
(* approving launch.json (controller.ts, launchApproval.ts), installing    *)
(* the loops, parking and waking them (agentSupervisor.ts), and what the   *)
(* operator commands.  Each loop is the state machine of SupervisedRunner, *)
(* reduced to what this level tells apart.                                 *)
(*                                                                         *)
(* Abstractions.  An entry is its id and its content, which is what an     *)
(* approval is given for; an id missing from a file has no entry or an     *)
(* invalid one, and a file that does not parse has none.  `waiting' is     *)
(* scheduled or backoff, `running' launching or running.  Reading the      *)
(* directory is one step with feeding the supervisor, but for the first    *)
(* load, which connects to the forge in between; late and overlapping      *)
(* feeds are WorkerPool's.  A modal dialog blocks the window, so one       *)
(* approval flow runs at a time.  The idle pause and the killed processes  *)
(* that still exit are SupervisedRunner's.                                 *)
(*                                                                         *)
(* A definition named Mut... is the one after it with a plausible bug.     *)
(***************************************************************************)
EXTENDS Naturals, FiniteSets

CONSTANTS
    Agents,   \* ids of launch entries other than the worker template
    Daemons,  \* those with lifetime daemon
    Contents, \* contents of an entry (what launchEntryHash covers)
    NoEntry,  \* no valid entry of that id
    Files,    \* the launch files that may be on disk
    Parkings, \* what passes declare: "no" parking, one with recheckAfter ("until")
              \* or one without ("open")
    NoFile,   \* installedLaunchRaw, and state.launch, before the first load
    NoHeld,   \* no first load waits for its connection
    NoAsk     \* no approval flow is under way

ASSUME FleetAssumption ==
    /\ Daemons \subseteq Agents
    /\ NoEntry \notin Contents
    /\ Files \subseteq [Agents -> Contents \cup {NoEntry}]
    /\ "no" \in Parkings /\ Parkings \subseteq {"no", "until", "open"}

\* The entries some file declares.
Entries == {e \in Agents \X Contents : \E f \in Files : f[e[1]] = e[2]}

Loops == [st : {"none", "stopped", "waiting", "running", "failed"},
          follow : BOOLEAN, content : Contents \cup {NoEntry}]
Held  == [parking : Parkings, fresh : BOOLEAN]
Acts  == [kind : {"start", "tickNow"}, agent : Agents] \cup [kind : {"all"}]
Asks  == [file : Files, todo : SUBSET Agents, ok : SUBSET Agents, act : Acts]

ASSUME FleetNulls == NoFile \notin Files /\ NoHeld \notin Held /\ NoAsk \notin Asks

VARIABLES
    file,      \* launch.json
    parking,   \* what orchestrator.json says of parking
    ack,       \* an ack on disk: "none", "new" to the host, or "known" (knownAckIds)
    dirty,     \* reloadTimer is armed
    tried,     \* connectionTried
    held,      \* what the first load saw, while connectRepo() is awaited
    loaded,    \* repo.state.launch
    installed, \* installedLaunchRaw
    allowed,   \* the entries recorded as approved
    ask,       \* the approval flow under way
    enabled,   \* settings.enabled
    autoStart, \* statusPipe.launch.autoStart
    fleet,     \* RepoSupervision.runners
    parked,    \* RepoSupervision.parked
    recheck    \* cancelRecheck is armed

disk == <<file, parking, ack>>
host == <<dirty, tried, held, loaded, installed>>
user == <<allowed, ask, enabled, autoStart>>
sup  == <<fleet, parked, recheck>>
vars == <<disk, host, user, sup>>

TypeOK ==
    /\ file \in Files /\ parking \in Parkings /\ ack \in {"none", "new", "known"}
    /\ dirty \in BOOLEAN /\ tried \in BOOLEAN /\ held \in Held \cup {NoHeld}
    /\ loaded \in Files \cup {NoFile} /\ installed \in Files \cup {NoFile}
    /\ allowed \subseteq Entries /\ ask \in Asks \cup {NoAsk}
    /\ enabled \in BOOLEAN /\ autoStart \in BOOLEAN
    /\ fleet \in [Agents -> Loops]
    /\ \A a \in Agents : fleet[a].st = "none" <=> fleet[a].content = NoEntry
    /\ parked \in Parkings /\ recheck \in BOOLEAN

NoLoop == [st |-> "none", follow |-> FALSE, content |-> NoEntry]

\* A window opens: the directory is there, some entries were approved before.
Init ==
    /\ file \in Files /\ parking \in Parkings /\ ack \in {"none", "new"}
    /\ dirty = TRUE /\ tried = FALSE /\ held = NoHeld
    /\ loaded = NoFile /\ installed = NoFile
    /\ allowed \in SUBSET Entries /\ ask = NoAsk
    /\ enabled = TRUE /\ autoStart \in BOOLEAN
    /\ fleet = [a \in Agents |-> NoLoop] /\ parked = "no" /\ recheck = FALSE

-----------------------------------------------------------------------------
(* The supervisor, as functions of the loops.                              *)

Running(F) == {a \in Agents : F[a].st = "running"}

MutWoken(F) ==
    [a \in Agents |->
        IF F[a].st \in {"waiting", "stopped"} THEN [F[a] EXCEPT !.st = "running"]
        ELSE [F[a] EXCEPT !.follow = @ \/ F[a].st = "running"]]

\* wake(): a pass now, or one more after the pass that runs.
Woken(F) ==
    [a \in Agents |->
        IF F[a].st = "waiting" THEN [F[a] EXCEPT !.st = "running"]
        ELSE [F[a] EXCEPT !.follow = @ \/ F[a].st = "running"]]

Started(F, a) ==
    IF F[a].st = "none" THEN F ELSE [F EXCEPT ![a].st = "running"]

\* tickNow(): start, or wake what runs.
Ticked(F, S) ==
    [a \in Agents |->
        IF a \notin S \/ F[a].st = "none" THEN F[a]
        ELSE IF F[a].st = "running" THEN [F[a] EXCEPT !.follow = TRUE]
        ELSE [F[a] EXCEPT !.st = "running"]]

Stopped(F, S) ==
    [a \in Agents |->
        IF a \in S /\ F[a].st # "none" THEN [F[a] EXCEPT !.st = "stopped", !.follow = FALSE]
        ELSE F[a]]

\* parkDaemon() of every runner.
DaemonsParked(F) ==
    [a \in Agents |->
        IF a \in Daemons /\ F[a].st = "running"
        THEN [F[a] EXCEPT !.st = "waiting", !.follow = FALSE]
        ELSE F[a]]

\* setAgents(): the runners there are make room for stopped ones.
SetAgents(f, S) ==
    [a \in Agents |->
        IF enabled /\ a \in S THEN [st |-> "stopped", follow |-> FALSE, content |-> f[a]]
        ELSE NoLoop]

MutDeclared(f) == Agents

Declared(f) == {a \in Agents : f[a] # NoEntry}
MutApproved(f) == Declared(f)

Approved(f) == {a \in Declared(f) : <<a, f[a]>> \in allowed}

\* installApprovedAgents() without a prompt, as a changed launch file asks for.
InstallApproved(f) ==
    IF autoStart THEN Ticked(SetAgents(f, Approved(f)), Agents)
    ELSE SetAgents(f, Approved(f))

MutArmRecheck(p) == recheck' = (p = "until" /\ parked # "until")

\* recheckAfter is an absolute time: a later feed of the same file arms the
\* same end.
ArmRecheck(p) == recheck' = (p = "until")

\* feedSupervisor() and detectNewAcks(), with the loops of F and the parking of
\* orchestrator.json: the wake comes last, or parking would undo it.
MutFeed(F, p, fresh) ==
    LET wk == IF fresh THEN Woken(F) ELSE F IN
    /\ fleet' = IF p # "no" THEN DaemonsParked(wk) ELSE wk
    /\ parked' = IF fresh THEN "no" ELSE p
    /\ ArmRecheck(p)
    /\ ack' = IF fresh /\ ack = "new" THEN "known" ELSE ack

Feed(F, p, fresh) ==
    LET pk == IF p # "no" THEN DaemonsParked(F) ELSE F IN
    /\ fleet' = IF fresh THEN Woken(pk) ELSE pk
    /\ parked' = IF fresh THEN "no" ELSE p
    /\ ArmRecheck(p)
    /\ ack' = IF fresh /\ ack = "new" THEN "known" ELSE ack

WakeRepo == parked' = "no" /\ fleet' = Woken(fleet)

-----------------------------------------------------------------------------
(* The host's reload pipeline.                                             *)

\* reloadRepo() reads the directory; the first one goes on to connectRepo().
FirstLoad ==
    /\ dirty /\ ~tried
    /\ dirty' = FALSE /\ tried' = TRUE
    /\ loaded' = file
    /\ held' = [parking |-> parking, fresh |-> ack = "new"]
    /\ UNCHANGED <<disk, installed, user, sup>>

\* A later reload feeds at once.  While the first still connects, it also
\* replaces the state that one will feed.
Reload ==
    /\ dirty /\ tried
    /\ dirty' = FALSE
    /\ loaded' = file /\ installed' = file
    /\ Feed(IF file # installed THEN InstallApproved(file) ELSE fleet, parking, ack = "new")
    /\ held' = IF held = NoHeld THEN NoHeld ELSE [parking |-> parking, fresh |-> FALSE]
    /\ UNCHANGED <<file, parking, tried, user>>

\* The first load has its connection, or none, and feeds repo.state as it is now.
Connected ==
    /\ held # NoHeld
    /\ installed' = loaded
    /\ Feed(IF loaded # installed THEN InstallApproved(loaded) ELSE fleet,
            held.parking, held.fresh)
    /\ held' = NoHeld
    /\ UNCHANGED <<file, parking, dirty, tried, loaded, user>>

-----------------------------------------------------------------------------
(* The operator.                                                           *)

\* What an approval flow ends in: the approved entries of the file it began
\* with are installed, and the command is given.
Perform(f, S, act) ==
    LET F == SetAgents(f, S) IN
    fleet' = CASE act.kind = "start"   -> Started(F, act.agent)
               [] act.kind = "tickNow" -> Ticked(F, {act.agent})
               [] act.kind = "all"     -> Ticked(F, Agents)

\* agentControl(start, tickNow), restartWorker(), startAll(): prompts for every
\* entry that is not approved, one after the other.
Press(act) ==
    /\ loaded # NoFile /\ ask = NoAsk
    /\ LET todo == Declared(loaded) \ Approved(loaded) IN
       IF todo = {}
       THEN Perform(loaded, Approved(loaded), act) /\ UNCHANGED ask
       ELSE /\ ask' = [file |-> loaded, todo |-> todo, ok |-> Approved(loaded), act |-> act]
            /\ UNCHANGED fleet
    /\ UNCHANGED <<disk, host, allowed, enabled, autoStart, parked, recheck>>

\* The operator answers the dialog for entry a: Allow, or anything else.
Answer(a, allow) ==
    /\ ask # NoAsk /\ a \in ask.todo
    /\ LET ok == IF allow THEN ask.ok \cup {a} ELSE ask.ok IN
       /\ allowed' = IF allow THEN allowed \cup {<<a, ask.file[a]>>} ELSE allowed
       /\ IF ask.todo = {a}
          THEN Perform(ask.file, ok, ask.act) /\ ask' = NoAsk
          ELSE ask' = [ask EXCEPT !.todo = @ \ {a}, !.ok = ok] /\ UNCHANGED fleet
    /\ UNCHANGED <<disk, host, enabled, autoStart, parked, recheck>>

Stop(S) ==
    /\ fleet' = Stopped(fleet, S)
    /\ UNCHANGED <<disk, host, user, parked, recheck>>

Retry(a) ==
    /\ fleet[a].st = "failed"
    /\ fleet' = [fleet EXCEPT ![a].st = "running"]
    /\ UNCHANGED <<disk, host, user, parked, recheck>>

\* The command Tick Now: the loops there are, without approval or the switch.
TickAll ==
    /\ fleet' = Ticked(fleet, Agents)
    /\ UNCHANGED <<disk, host, user, parked, recheck>>

\* updateSettings(): switching off stops everything, switching on does nothing.
Switch ==
    /\ enabled' = ~enabled
    /\ fleet' = IF enabled THEN Stopped(fleet, Agents) ELSE fleet
    /\ UNCHANGED <<disk, host, allowed, ask, autoStart, parked, recheck>>

\* ack(): the file is written, the loops woken, a reload scheduled.  The bound:
\* no second ack while the first load holds one the host has not noted.
SendAck ==
    /\ ack # "new" /\ tried
    /\ held # NoHeld => ~held.fresh
    /\ ack' = "new" /\ dirty' = TRUE
    /\ WakeRepo
    /\ UNCHANGED <<file, parking, tried, held, loaded, installed, user, recheck>>

\* An epic file changed: its watcher exists once a reload has finished.
BacklogChanges ==
    /\ installed # NoFile
    /\ WakeRepo
    /\ UNCHANGED <<disk, host, user, recheck>>

EditLaunch(f) ==
    /\ f # file
    /\ file' = f /\ dirty' = TRUE
    /\ UNCHANGED <<parking, ack, tried, held, loaded, installed, user, sup>>

-----------------------------------------------------------------------------
(* The loops.                                                              *)

\* A pass consumes the ack and wraps with a declaration of its own; a daemon
\* does so again and again.
PassWrites(a, p) ==
    /\ fleet[a].st = "running"
    /\ ack' \in {ack, "none"} /\ (ack' = ack => p # parking)
    /\ parking' = p /\ dirty' = TRUE
    /\ UNCHANGED <<file, tried, held, loaded, installed, user, sup>>

PassEnds(a) ==
    /\ fleet[a].st = "running"
    /\ fleet' = [fleet EXCEPT ![a] =
          IF @.follow THEN [@ EXCEPT !.follow = FALSE] ELSE [@ EXCEPT !.st = "waiting"]]
    /\ UNCHANGED <<disk, host, user, parked, recheck>>

\* A strike leads to backoff or, with the last one, to `failed'.  A recorded
\* wake stays.
PassFails(a) ==
    /\ fleet[a].st = "running"
    /\ \E s \in {"waiting", "failed"} : fleet' = [fleet EXCEPT ![a].st = s]
    /\ UNCHANGED <<disk, host, user, parked, recheck>>

TimerFires(a) ==
    /\ fleet[a].st = "waiting" /\ parked = "no"
    /\ fleet' = [fleet EXCEPT ![a].st = "running"]
    /\ UNCHANGED <<disk, host, user, parked, recheck>>

MutRecheckFires ==
    /\ recheck
    /\ recheck' = FALSE
    /\ fleet' = Woken(fleet)
    /\ UNCHANGED <<disk, host, user, parked>>

RecheckFires ==
    /\ recheck
    /\ recheck' = FALSE
    /\ WakeRepo
    /\ UNCHANGED <<disk, host, user>>

-----------------------------------------------------------------------------
Operator ==
    \/ \E act \in Acts : Press(act)
    \/ \E a \in Agents, b \in BOOLEAN : Answer(a, b)
    \/ \E a \in Agents : Stop({a}) \/ Retry(a)
    \/ Stop(Agents)
    \/ TickAll

Surroundings ==
    \/ Switch \/ SendAck \/ BacklogChanges
    \/ \E f \in Files : EditLaunch(f)

Host == FirstLoad \/ Reload \/ Connected

LoopStep ==
    \/ RecheckFires
    \/ \E a \in Agents : PassEnds(a) \/ PassFails(a) \/ TimerFires(a)
    \/ \E a \in Agents, p \in Parkings : PassWrites(a, p)

Next == Operator \/ Surroundings \/ Host \/ LoopStep

Spec == Init /\ [][Next]_vars

FairSpec == Spec /\ WF_vars(RecheckFires)

-----------------------------------------------------------------------------
(* Properties.                                                             *)

\* No loop runs an entry whose exact content the operator never allowed, in
\* whatever order files change, dialogs are answered and loops are installed.
OnlyAllowedRun ==
    \A a \in Running(fleet) : <<a, fleet[a].content>> \in allowed

\* Nothing starts by itself: a loop that is not installed, stopped or failed
\* comes to run by a command of the operator, or because autoStart is set, the
\* supervisor is enabled and its entry is approved (design/09, trust gating).
NothingStartsItself ==
    [][\A a \in Agents :
          fleet[a].st \notin {"waiting", "running"} /\ fleet'[a].st = "running" =>
             Operator \/ (autoStart /\ enabled /\ <<a, fleet'[a].content>> \in allowed)]_vars

\* When the host first sees an ack, no loop of the repository is left waiting:
\* neither a stale declaration of parking nor the stop of a parked daemon that
\* comes with the same file can undo the wake.
SeenAckWakesAll ==
    [][ack = "new" /\ ack' = "known" =>
          parked' = "no" /\ \A a \in Agents : fleet'[a].st # "waiting"]_vars

\* While the host honours a parking with recheckAfter, the timer that ends it is
\* armed: every feed replaces both, every wake ends the parking.
ParkingHasItsEnd == parked = "until" => recheck

\* Parking can never strand the loop (agentSupervisor.ts, armParkedRecheck): a
\* waiting loop under a parking with recheckAfter gets its pass, or the parking
\* is lifted or declared anew without one, although the same file is fed again
\* and again.
ParkingNeverStrands ==
    \A a \in Agents :
        (fleet[a].st = "waiting" /\ parked = "until")
            ~> (fleet[a].st # "waiting" \/ parked # "until")

\* What the operator starts kills no pass: a running agent is left to run, and
\* gets a follow-up pass when it is ticked itself (supervisedRunner.ts, tickNow;
\* design/09, Restart worker).
ManualKillsNothing ==
    [][\A act \in Acts : Press(act) =>
          \A a \in Running(fleet) :
              /\ fleet'[a].st = "running"
              /\ act = [kind |-> "all"] \/ act = [kind |-> "tickNow", agent |-> a]
                    => fleet'[a].follow]_vars
=============================================================================
