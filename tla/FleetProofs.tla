---------------------------- MODULE FleetProofs ----------------------------
(***************************************************************************)
(* For any launch entries, contents and files: no loop runs what was not   *)
(* allowed, nothing starts by itself, the wake of an ack is never undone   *)
(* and every parking with recheckAfter has its timer.                      *)
(***************************************************************************)
EXTENDS Fleet, TLAPS

\* The loops of F are well formed, and what they were built from is in A.
Built(F, A) ==
    /\ F \in [Agents -> Loops]
    /\ \A a \in Agents :
          /\ F[a].st = "none" <=> F[a].content = NoEntry
          /\ F[a].st # "none" => <<a, F[a].content>> \in A

\* Not only what runs is allowed: every installed loop can come to run.
InstalledIsAllowed == Built(fleet, allowed)

\* S are entries of f that were allowed.
AllowedOf(f, S, A) == S \subseteq Declared(f) /\ \A a \in S : <<a, f[a]>> \in A

\* What a flow has collected stays allowed while the dialogs go on, and what it
\* still asks for are entries of the file it began with.
AskIsSound ==
    ask # NoAsk => ask.todo \subseteq Declared(ask.file) /\ AllowedOf(ask.file, ask.ok, allowed)

\* The first load feeds what some load has read.
HeldIsLoaded == held # NoHeld => loaded \in Files

IInv == TypeOK /\ InstalledIsAllowed /\ AskIsSound /\ HeldIsLoaded /\ ParkingHasItsEnd

-----------------------------------------------------------------------------
(* What the supervisor does to its loops.                                  *)

\* The loops of G are those of F, each in whatever state, none come or gone.
SameLoops(F, G) ==
    /\ G \in [Agents -> Loops]
    /\ \A a \in Agents : /\ G[a].content = F[a].content
                         /\ G[a].st = "none" <=> F[a].st = "none"

\* Waking, ticking, stopping, starting and parking neither make a loop nor
\* change what it runs.
LEMMA CommandsKeepLoops ==
    ASSUME NEW F \in [Agents -> Loops]
    PROVE  /\ SameLoops(F, Woken(F))
           /\ SameLoops(F, DaemonsParked(F))
           /\ \A S : SameLoops(F, Ticked(F, S)) /\ SameLoops(F, Stopped(F, S))
           /\ \A a : SameLoops(F, Started(F, a))
  <1>1. \A a \in Agents : F[a] \in Loops
    OBVIOUS
  <1>2. SameLoops(F, Woken(F))
    BY <1>1 DEF SameLoops, Woken, Loops
  <1>3. SameLoops(F, DaemonsParked(F))
    BY <1>1 DEF SameLoops, DaemonsParked, Loops
  <1>4. ASSUME NEW S PROVE SameLoops(F, Ticked(F, S))
    BY <1>1 DEF SameLoops, Ticked, Loops
  <1>5. ASSUME NEW S PROVE SameLoops(F, Stopped(F, S))
    BY <1>1 DEF SameLoops, Stopped, Loops
  <1>6. ASSUME NEW a PROVE SameLoops(F, Started(F, a))
    BY <1>1 DEF SameLoops, Started, Loops
  <1> QED BY <1>2, <1>3, <1>4, <1>5, <1>6

\* Whatever only moves loops keeps them well formed and allowed, also when more
\* has been allowed meanwhile.
LEMMA SameLoopsStayBuilt ==
    ASSUME NEW F, NEW G, NEW A, NEW B, Built(F, A), SameLoops(F, G), A \subseteq B
    PROVE  Built(G, B)
  BY DEF Built, SameLoops

\* setAgents() with allowed entries of a file installs allowed entries, and none
\* of them runs.
LEMMA SetAgentsBuilds ==
    ASSUME NEW f \in Files, NEW S, NEW A, AllowedOf(f, S, A)
    PROVE  /\ Built(SetAgents(f, S), A)
           /\ \A a \in Agents : SetAgents(f, S)[a].st \in {"none", "stopped"}
  <1>1. \A a \in S : a \in Agents /\ f[a] # NoEntry /\ f[a] \in Contents /\ <<a, f[a]>> \in A
    BY FleetAssumption DEF AllowedOf, Declared
  <1> QED BY <1>1 DEF SetAgents, NoLoop, Built, Loops

\* What approval lets through is allowed.
LEMMA ApprovedIsAllowed ==
    ASSUME NEW f PROVE AllowedOf(f, Approved(f), allowed)
  BY DEF AllowedOf, Approved

\* A changed launch file installs approved entries.
LEMMA InstallApprovedBuilds ==
    ASSUME NEW f \in Files PROVE Built(InstallApproved(f), allowed)
  <1>1. Built(SetAgents(f, Approved(f)), allowed)
    BY SetAgentsBuilds, ApprovedIsAllowed
  <1>2. SameLoops(SetAgents(f, Approved(f)), Ticked(SetAgents(f, Approved(f)), Agents))
    BY <1>1, CommandsKeepLoops DEF Built
  <1> QED BY <1>1, <1>2, SameLoopsStayBuilt DEF InstallApproved

\* A feed parks and wakes the loops it is given and installs none.
LEMMA FeedKeepsBuilt ==
    ASSUME NEW F, Built(F, allowed), NEW p, NEW fresh, Feed(F, p, fresh)
    PROVE  Built(fleet', allowed)
  <1> DEFINE pk == IF p # "no" THEN DaemonsParked(F) ELSE F
  <1>1. Built(DaemonsParked(F), allowed)
    BY CommandsKeepLoops, SameLoopsStayBuilt DEF Built
  <1>2. Built(pk, allowed)
    BY <1>1
  <1>3. Built(Woken(pk), allowed)
    <2>1. SameLoops(pk, Woken(pk))
      BY <1>2, CommandsKeepLoops DEF Built
    <2> QED BY <1>2, <2>1, SameLoopsStayBuilt
  <1> QED BY <1>2, <1>3 DEF Feed

\* The end of an approval flow installs what was allowed.
LEMMA PerformBuilds ==
    ASSUME NEW f \in Files, NEW S, NEW A, AllowedOf(f, S, A), NEW act \in Acts, Perform(f, S, act)
    PROVE  Built(fleet', A)
  <1> DEFINE F == SetAgents(f, S)
  <1>1. Built(F, A)
    BY SetAgentsBuilds
  <1>2. \E G : SameLoops(F, G) /\ fleet' = G
    <2> HIDE DEF F
    <2>1. F \in [Agents -> Loops]
      BY <1>1 DEF Built
    <2>2. act.kind \in {"start", "tickNow", "all"}
      BY DEF Acts
    <2>3. \/ fleet' = Started(F, act.agent)
          \/ fleet' = Ticked(F, {act.agent})
          \/ fleet' = Ticked(F, Agents)
      BY <2>2 DEF Perform, F
    <2> QED BY <2>1, <2>3, CommandsKeepLoops
  <1> QED BY <1>1, <1>2, SameLoopsStayBuilt

-----------------------------------------------------------------------------
(* The inductive invariant.                                                *)

\* A window opens with no loop, no flow and no parking.
LEMMA InitIInv == Init => IInv
  <1> SUFFICES ASSUME Init PROVE IInv
    OBVIOUS
  <1>1. Built(fleet, allowed)
    BY DEF Init, Built, NoLoop, Loops
  <1>2. TypeOK
    BY <1>1, FleetAssumption DEF Init, TypeOK, Built
  <1> QED BY <1>1, <1>2 DEF Init, IInv, InstalledIsAllowed, AskIsSound, HeldIsLoaded, ParkingHasItsEnd

\* What a feed writes besides the loops is well typed, and a parking it honours
\* has its timer.
LEMMA FeedTypes ==
    ASSUME TypeOK, NEW F, NEW p \in Parkings, NEW fresh, Feed(F, p, fresh)
    PROVE  /\ parked' \in Parkings /\ recheck' \in BOOLEAN
           /\ ack' \in {"none", "new", "known"}
           /\ ParkingHasItsEnd'
  BY FleetAssumption DEF TypeOK, Feed, ArmRecheck, ParkingHasItsEnd

\* A step that lets the loops be, or only moves them, keeps what is known of
\* them, as nothing is ever disallowed.
LEMMA MovingKeepsBuilt ==
    ASSUME IInv, SameLoops(fleet, fleet') \/ fleet' = fleet, allowed \subseteq allowed'
    PROVE  Built(fleet', allowed')
  <1>1. SameLoops(fleet, fleet)
    BY DEF IInv, InstalledIsAllowed, Built, SameLoops
  <1>2. SameLoops(fleet, fleet')
    BY <1>1
  <1> QED BY <1>2, SameLoopsStayBuilt DEF IInv, InstalledIsAllowed

\* The steps that install loops keep what is known of them.
LEMMA InstallingKeepsBuilt ==
    ASSUME IInv, Reload \/ Connected \/ \E act \in Acts : Press(act)
    PROVE  Built(fleet', allowed')
  <1> USE DEF IInv, InstalledIsAllowed
  <1>1. CASE Reload
    <2> DEFINE F == IF file # installed THEN InstallApproved(file) ELSE fleet
    <2>1. Built(F, allowed)
      BY InstallApprovedBuilds DEF TypeOK
    <2> QED BY <1>1, <2>1, FeedKeepsBuilt DEF Reload, user
  <1>2. CASE Connected
    <2> DEFINE F == IF loaded # installed THEN InstallApproved(loaded) ELSE fleet
    <2>1. loaded \in Files
      BY <1>2 DEF HeldIsLoaded, Connected
    <2>2. Built(F, allowed)
      BY <2>1, InstallApprovedBuilds
    <2> QED BY <1>2, <2>2, FeedKeepsBuilt DEF Connected, user
  <1>3. ASSUME NEW act \in Acts, Press(act) PROVE Built(fleet', allowed')
    <2>1. loaded \in Files /\ UNCHANGED allowed
      BY <1>3 DEF TypeOK, Press
    <2>2. CASE UNCHANGED fleet
      BY <2>1, <2>2
    <2>3. CASE Perform(loaded, Approved(loaded), act)
      BY <2>1, <2>3, ApprovedIsAllowed, PerformBuilds
    <2> QED BY <1>3, <2>2, <2>3 DEF Press
  <1> QED BY <1>1, <1>2, <1>3

\* An answer installs what was allowed, this answer included, or goes on asking.
LEMMA AnswerKeeps ==
    ASSUME IInv, NEW a \in Agents, NEW allow \in BOOLEAN, Answer(a, allow)
    PROVE  /\ Built(fleet', allowed') /\ allowed' \subseteq Entries /\ ask' \in Asks \cup {NoAsk}
           /\ AskIsSound'
  <1> DEFINE ok == IF allow THEN ask.ok \cup {a} ELSE ask.ok
  <1>1. ask \in Asks /\ ask.file \in Files /\ a \in ask.todo /\ ask.act \in Acts
    BY DEF IInv, TypeOK, Answer, Asks
  <1>2. ask.todo \subseteq Declared(ask.file) /\ AllowedOf(ask.file, ask.ok, allowed)
    BY DEF IInv, AskIsSound, Answer
  <1>3. ask.file[a] \in Contents
    BY <1>1, <1>2, FleetAssumption DEF Declared
  <1>4. allowed \subseteq allowed' /\ allowed' \subseteq Entries
    BY <1>1, <1>3 DEF Answer, IInv, TypeOK, Entries
  <1>5. AllowedOf(ask.file, ok, allowed')
    BY <1>1, <1>2 DEF AllowedOf, Answer
  <1>6. CASE ask.todo = {a}
    <2>1. Perform(ask.file, ok, ask.act) /\ ask' = NoAsk
      BY <1>6 DEF Answer
    <2>2. Built(fleet', allowed')
      BY <1>1, <1>5, <2>1, PerformBuilds
    <2> QED BY <1>4, <2>1, <2>2 DEF AskIsSound
  <1>7. CASE ask.todo # {a}
    <2>1. ask' = [ask EXCEPT !.todo = @ \ {a}, !.ok = ok] /\ UNCHANGED fleet
      BY <1>7 DEF Answer
    <2>2. ask' \in Asks /\ ask'.file = ask.file /\ ask'.ok = ok /\ ask'.todo = ask.todo \ {a}
      BY <1>1, <1>2, <2>1 DEF Asks
    <2>3. Built(fleet', allowed')
      BY <1>4, <2>1, MovingKeepsBuilt
    <2> QED BY <1>2, <1>4, <1>5, <2>2, <2>3 DEF AskIsSound
  <1> QED BY <1>6, <1>7

\* Every step keeps the invariant.
LEMMA NextIInv == IInv /\ [Next]_vars => IInv'
  <1> SUFFICES ASSUME IInv, [Next]_vars PROVE IInv'
    OBVIOUS
  <1>0. fleet \in [Agents -> Loops] /\ TypeOK
    BY DEF IInv, TypeOK
  <1>1. ASSUME UNCHANGED <<disk, host, user, parked, recheck>>,
               SameLoops(fleet, fleet') \/ fleet' = fleet
        PROVE  IInv'
    <2>1. Built(fleet', allowed')
      BY <1>1, MovingKeepsBuilt DEF user
    <2>2. TypeOK'
      <3>1. /\ fleet' \in [Agents -> Loops]
            /\ \A a \in Agents : fleet'[a].st = "none" <=> fleet'[a].content = NoEntry
        BY <2>1 DEF Built
      <3>2. UNCHANGED <<disk, host, user, parked, recheck>>
        BY <1>1
      <3> QED BY <1>0, <3>1, <3>2 DEF TypeOK, disk, host, user
    <2> QED BY <1>1, <2>1, <2>2
          DEF IInv, InstalledIsAllowed, AskIsSound, HeldIsLoaded, ParkingHasItsEnd, host, user
  <1>2. ASSUME NEW act \in Acts, Press(act) PROVE IInv'
    <2>1. Built(fleet', allowed') /\ loaded \in Files
      BY <1>0, <1>2, InstallingKeepsBuilt DEF TypeOK, Press
    <2>2. ask' \in Asks \cup {NoAsk} /\ AskIsSound'
      <3> DEFINE todo == Declared(loaded) \ Approved(loaded)
      <3>1. CASE todo = {}
        BY <1>0, <1>2, <3>1 DEF Press, IInv, AskIsSound, TypeOK
      <3>2. CASE todo # {}
        <4>1. ask' = [file |-> loaded, todo |-> todo, ok |-> Approved(loaded), act |-> act]
          BY <1>2, <3>2 DEF Press
        <4>2. allowed' = allowed /\ AllowedOf(loaded, Approved(loaded), allowed)
          BY <1>2, ApprovedIsAllowed DEF Press
        <4> QED BY <2>1, <4>1, <4>2 DEF AskIsSound, Asks, AllowedOf, Declared
      <3> QED BY <3>1, <3>2
    <2>3. TypeOK'
      BY <1>0, <1>2, <2>1, <2>2 DEF TypeOK, Press, Built, disk, host
    <2> QED BY <1>2, <2>1, <2>2, <2>3
          DEF IInv, Press, InstalledIsAllowed, HeldIsLoaded, ParkingHasItsEnd, host
  <1>3. ASSUME NEW a \in Agents, NEW b \in BOOLEAN, Answer(a, b) PROVE IInv'
    <2>1. /\ Built(fleet', allowed') /\ allowed' \subseteq Entries /\ ask' \in Asks \cup {NoAsk}
          /\ AskIsSound'
      BY <1>3, AnswerKeeps
    <2>2. TypeOK'
      BY <1>0, <1>3, <2>1 DEF TypeOK, Answer, Built, disk, host
    <2> QED BY <1>3, <2>1, <2>2
          DEF IInv, Answer, InstalledIsAllowed, HeldIsLoaded, ParkingHasItsEnd, host
  <1>4. ASSUME NEW a \in Agents, Stop({a}) \/ Retry(a) PROVE IInv'
    <2>1. CASE Stop({a})
      BY <1>0, <1>1, <2>1, CommandsKeepLoops DEF Stop
    <2>2. CASE Retry(a)
      <3>1. SameLoops(fleet, fleet')
        BY <1>0, <2>2 DEF Retry, SameLoops, Loops
      <3> QED BY <1>1, <2>2, <3>1 DEF Retry
    <2> QED BY <1>4, <2>1, <2>2
  <1>5. CASE Stop(Agents) \/ TickAll
    BY <1>0, <1>1, <1>5, CommandsKeepLoops DEF Stop, TickAll
  <1>6. CASE Switch
    <2>1. SameLoops(fleet, fleet') \/ fleet' = fleet
      BY <1>0, <1>6, CommandsKeepLoops DEF Switch
    <2>2. Built(fleet', allowed')
      BY <1>6, <2>1, MovingKeepsBuilt DEF Switch
    <2>3. TypeOK'
      BY <1>0, <1>6, <2>2 DEF TypeOK, Switch, Built, disk, host
    <2> QED BY <1>6, <2>2, <2>3
          DEF IInv, Switch, InstalledIsAllowed, AskIsSound, HeldIsLoaded, ParkingHasItsEnd, host
  <1>7. CASE SendAck \/ BacklogChanges
    <2>1. SameLoops(fleet, fleet') /\ parked' = "no" /\ recheck' = recheck /\ UNCHANGED user
      BY <1>0, <1>7, CommandsKeepLoops DEF SendAck, BacklogChanges, WakeRepo
    <2>2. Built(fleet', allowed')
      BY <2>1, MovingKeepsBuilt DEF user
    <2>3. TypeOK'
      BY <1>0, <1>7, <2>1, <2>2, FleetAssumption
         DEF TypeOK, SendAck, BacklogChanges, Built, disk, host, user
    <2>4. UNCHANGED <<held, loaded>>
      BY <1>7 DEF SendAck, BacklogChanges, host
    <2> QED BY <2>1, <2>2, <2>3, <2>4
          DEF IInv, InstalledIsAllowed, AskIsSound, HeldIsLoaded, ParkingHasItsEnd, user
  <1>8. ASSUME NEW f \in Files, EditLaunch(f) PROVE IInv'
    <2>1. UNCHANGED <<user, sup, held, loaded>> /\ TypeOK'
      BY <1>0, <1>8 DEF EditLaunch, TypeOK, user, sup
    <2> QED BY <2>1
          DEF IInv, InstalledIsAllowed, AskIsSound, HeldIsLoaded, ParkingHasItsEnd, user, sup
  <1>9. CASE FirstLoad
    <2>1. UNCHANGED <<user, sup>> /\ loaded' \in Files /\ TypeOK'
      BY <1>0, <1>9 DEF FirstLoad, TypeOK, Held, user, sup, disk
    <2> QED BY <2>1
          DEF IInv, InstalledIsAllowed, AskIsSound, HeldIsLoaded, ParkingHasItsEnd, user, sup
  <1>10. CASE Reload \/ Connected
    <2>1. Built(fleet', allowed') /\ UNCHANGED user
      BY <1>10, InstallingKeepsBuilt DEF Reload, Connected
    <2>2. \E p \in Parkings : \E F, fresh : Feed(F, p, fresh)
      <3>1. CASE Reload
        BY <1>0, <3>1 DEF Reload, TypeOK
      <3>2. CASE Connected
        <4>1. held.parking \in Parkings
          BY <1>0, <3>2 DEF Connected, TypeOK, Held
        <4> QED BY <3>2, <4>1 DEF Connected
      <3> QED BY <1>10, <3>1, <3>2
    <2>3. /\ parked' \in Parkings /\ recheck' \in BOOLEAN
          /\ ack' \in {"none", "new", "known"} /\ ParkingHasItsEnd'
      BY <1>0, <2>2, FeedTypes
    <2>4. /\ UNCHANGED <<file, parking, tried>> /\ dirty' \in BOOLEAN
          /\ loaded' \in Files /\ installed' \in Files /\ held' \in Held \cup {NoHeld}
      <3>1. CASE Reload
        BY <1>0, <3>1 DEF Reload, TypeOK, Held
      <3>2. CASE Connected
        BY <1>0, <3>2 DEF Connected, TypeOK, IInv, HeldIsLoaded
      <3> QED BY <1>10, <3>1, <3>2
    <2>5. TypeOK'
      BY <1>0, <2>1, <2>3, <2>4 DEF TypeOK, Built, user
    <2> QED BY <2>1, <2>3, <2>4, <2>5 DEF IInv, InstalledIsAllowed, AskIsSound, HeldIsLoaded, user
  <1>11. CASE RecheckFires
    <2>1. SameLoops(fleet, fleet') /\ parked' = "no" /\ recheck' = FALSE /\ UNCHANGED <<disk, host, user>>
      BY <1>0, <1>11, CommandsKeepLoops DEF RecheckFires, WakeRepo
    <2>2. Built(fleet', allowed')
      BY <2>1, MovingKeepsBuilt DEF user
    <2>3. TypeOK'
      BY <1>0, <2>1, <2>2, FleetAssumption DEF TypeOK, Built, disk, host, user
    <2> QED BY <2>1, <2>2, <2>3
          DEF IInv, InstalledIsAllowed, AskIsSound, HeldIsLoaded, ParkingHasItsEnd, host, user
  <1>12. ASSUME NEW a \in Agents, PassEnds(a) \/ PassFails(a) \/ TimerFires(a) PROVE IInv'
    <2>1. SameLoops(fleet, fleet')
      <3>1. CASE PassEnds(a)
        <4>1. /\ [fleet[a] EXCEPT !.follow = FALSE] \in Loops
              /\ [fleet[a] EXCEPT !.st = "waiting"] \in Loops
          BY <1>0 DEF Loops
        <4> QED BY <1>0, <3>1, <4>1 DEF PassEnds, SameLoops, Loops
      <3>2. CASE PassFails(a) \/ TimerFires(a)
        <4>1. PICK s \in {"waiting", "failed", "running"} : fleet' = [fleet EXCEPT ![a].st = s]
          BY <3>2 DEF PassFails, TimerFires
        <4> QED BY <1>0, <3>2, <4>1 DEF PassFails, TimerFires, SameLoops, Loops
      <3> QED BY <1>12, <3>1, <3>2
    <2> QED BY <1>1, <1>12, <2>1 DEF PassEnds, PassFails, TimerFires
  <1>13. ASSUME NEW a \in Agents, NEW p \in Parkings, PassWrites(a, p) PROVE IInv'
    <2>1. UNCHANGED <<user, sup, held, loaded>> /\ TypeOK'
      BY <1>0, <1>13 DEF PassWrites, TypeOK, user, sup
    <2> QED BY <2>1
          DEF IInv, InstalledIsAllowed, AskIsSound, HeldIsLoaded, ParkingHasItsEnd, user, sup
  <1>14. CASE UNCHANGED vars
    BY <1>1, <1>14 DEF vars, sup
  <1> QED
    BY <1>2, <1>3, <1>4, <1>5, <1>6, <1>7, <1>8, <1>9, <1>10, <1>11, <1>12, <1>13, <1>14
       DEF Next, Operator, Surroundings, Host, LoopStep

-----------------------------------------------------------------------------
\* The host, the operator and the loops only ever take the types they are
\* declared with; a loop without content is one that is not installed.
THEOREM FleetTypes == Spec => []TypeOK
  <1>1. IInv => TypeOK
    BY DEF IInv
  <1> QED BY InitIInv, NextIInv, <1>1, PTL DEF Spec

\* However files change, dialogs are answered and loops are installed: a loop that
\* runs runs an entry whose exact content the operator has allowed.
THEOREM OnlyAllowedContentRuns == Spec => []OnlyAllowedRun
  <1>1. IInv => OnlyAllowedRun
    BY DEF IInv, InstalledIsAllowed, Built, OnlyAllowedRun, Running
  <1> QED BY InitIInv, NextIInv, <1>1, PTL DEF Spec

\* A parking with recheckAfter that the host honours has its timer armed.
THEOREM ParkingsEnd == Spec => []ParkingHasItsEnd
  <1>1. IInv => ParkingHasItsEnd
    BY DEF IInv
  <1> QED BY InitIInv, NextIInv, <1>1, PTL DEF Spec

-----------------------------------------------------------------------------
(* What a step may never do.                                               *)

\* A wake leaves no loop waiting and starts only loops that wait; parking and
\* stopping start none.
LEMMA WakingStartsWaiting ==
    ASSUME NEW F \in [Agents -> Loops], NEW a \in Agents
    PROVE  /\ Woken(F)[a].st # "waiting"
           /\ Woken(F)[a].st = "running" => F[a].st \in {"waiting", "running"}
           /\ DaemonsParked(F)[a].st \in {"waiting", "running"} => F[a].st \in {"waiting", "running"}
           /\ \A S : Stopped(F, S)[a].st = "running" => F[a].st = "running"
  <1>1. F[a] \in Loops
    OBVIOUS
  <1>2. /\ Woken(F)[a].st # "waiting"
        /\ Woken(F)[a].st = "running" => F[a].st \in {"waiting", "running"}
    BY <1>1 DEF Woken, Loops
  <1>3. DaemonsParked(F)[a].st \in {"waiting", "running"} => F[a].st \in {"waiting", "running"}
    BY <1>1 DEF DaemonsParked, Loops
  <1>4. ASSUME NEW S PROVE Stopped(F, S)[a].st = "running" => F[a].st = "running"
    BY <1>1 DEF Stopped, Loops
  <1> QED BY <1>2, <1>3, <1>4

\* A feed runs no loop that neither waited nor ran in what it is given, and its
\* wake comes last.
LEMMA FeedStartsWaiting ==
    ASSUME NEW F \in [Agents -> Loops], NEW p, NEW fresh, Feed(F, p, fresh), NEW a \in Agents
    PROVE  /\ fleet'[a].st = "running" => F[a].st \in {"waiting", "running"}
           /\ ack = "new" /\ ack' = "known" => parked' = "no" /\ fleet'[a].st # "waiting"
  <1> DEFINE pk == IF p # "no" THEN DaemonsParked(F) ELSE F
  <1>1. pk \in [Agents -> Loops]
    BY CommandsKeepLoops DEF SameLoops
  <1>2. pk[a].st \in {"waiting", "running"} => F[a].st \in {"waiting", "running"}
    BY WakingStartsWaiting
  <1>3. fleet' = IF fresh THEN Woken(pk) ELSE pk
    BY DEF Feed
  <1>4. ack = "new" /\ ack' = "known" => fresh
    BY DEF Feed
  <1>5. fresh => parked' = "no"
    BY DEF Feed
  <1> HIDE DEF pk
  <1>6. Woken(pk)[a].st # "waiting" /\ (Woken(pk)[a].st = "running" => pk[a].st \in {"waiting", "running"})
    BY <1>1, WakingStartsWaiting
  <1> QED BY <1>2, <1>3, <1>4, <1>5, <1>6

\* A changed launch file gets a loop to wait or to run only if autoStart is set,
\* the supervisor is enabled and the entry is approved.
LEMMA InstallApprovedStarts ==
    ASSUME NEW f \in Files, NEW a \in Agents, autoStart \in BOOLEAN,
           InstallApproved(f)[a].st \in {"waiting", "running"}
    PROVE  autoStart /\ enabled /\ <<a, InstallApproved(f)[a].content>> \in allowed
  <1> DEFINE F == SetAgents(f, Approved(f))
  <1>1. Built(F, allowed) /\ F[a].st \in {"none", "stopped"}
    BY SetAgentsBuilds, ApprovedIsAllowed
  <1>2. autoStart
    BY <1>1 DEF InstallApproved
  <1>3. F[a].st = "none" => InstallApproved(f)[a] = F[a]
    BY <1>2 DEF InstallApproved, Ticked
  <1>4. F[a].st # "none"
    BY <1>1, <1>3
  <1>5. enabled
    BY <1>4 DEF SetAgents, NoLoop
  <1>6. Built(InstallApproved(f), allowed)
    BY InstallApprovedBuilds
  <1>7. InstallApproved(f)[a].st # "none"
    OBVIOUS
  <1> QED BY <1>2, <1>5, <1>6, <1>7 DEF Built

\* What Reload and Connected feed: the loops there are, or those of a changed file.
LEMMA HostFeeds ==
    ASSUME IInv, Reload \/ Connected
    PROVE  \E F \in [Agents -> Loops] :
              /\ \E p, fresh : Feed(F, p, fresh)
              /\ F = fleet \/ \E f \in Files : F = InstallApproved(f)
  <1>1. fleet \in [Agents -> Loops] /\ file \in Files
    BY DEF IInv, TypeOK
  <1>2. \A f \in Files : InstallApproved(f) \in [Agents -> Loops]
    BY InstallApprovedBuilds DEF Built
  <1>3. CASE Reload
    <2> DEFINE F == IF file # installed THEN InstallApproved(file) ELSE fleet
    <2>1. F \in [Agents -> Loops] /\ (F = fleet \/ \E f \in Files : F = InstallApproved(f))
      BY <1>1, <1>2
    <2>2. Feed(F, parking, ack = "new")
      BY <1>3 DEF Reload
    <2> QED BY <2>1, <2>2
  <1>4. CASE Connected
    <2> DEFINE F == IF loaded # installed THEN InstallApproved(loaded) ELSE fleet
    <2>1. loaded \in Files
      BY <1>4 DEF IInv, HeldIsLoaded, Connected
    <2>2. F \in [Agents -> Loops] /\ (F = fleet \/ \E f \in Files : F = InstallApproved(f))
      BY <1>1, <1>2, <2>1
    <2>3. Feed(F, held.parking, held.fresh)
      BY <1>4 DEF Connected
    <2> QED BY <2>2, <2>3
  <1> QED BY <1>3, <1>4

\* A loop starts by a command, by its own timer or wake, or as an approved entry
\* under autoStart, and in no other way.
THEOREM StartsAreCommanded == Spec => NothingStartsItself
  <1> DEFINE Cause(a) == Operator \/ (autoStart /\ enabled /\ <<a, fleet'[a].content>> \in allowed)
  <1> DEFINE Starts(a) == fleet[a].st \notin {"waiting", "running"} /\ fleet'[a].st = "running"
  <1>1. ASSUME IInv, [Next]_vars, NEW a \in Agents, Starts(a), ~Operator PROVE Cause(a)
    <2>0. fleet \in [Agents -> Loops] /\ autoStart \in BOOLEAN
      BY <1>1 DEF IInv, TypeOK
    <2>1. CASE Surroundings
      <3>1. fleet' \in {fleet, Woken(fleet), Stopped(fleet, Agents)}
        BY <2>1 DEF Surroundings, Switch, SendAck, BacklogChanges, EditLaunch, WakeRepo, sup
      <3> QED BY <1>1, <2>0, <3>1, WakingStartsWaiting
    <2>2. CASE FirstLoad
      BY <1>1, <2>2 DEF FirstLoad, sup
    <2>3. CASE Reload \/ Connected
      <3>1. PICK F \in [Agents -> Loops] :
               /\ \E p, fresh : Feed(F, p, fresh)
               /\ F = fleet \/ \E f \in Files : F = InstallApproved(f)
        BY <1>1, <2>3, HostFeeds
      <3>2. F[a].st \in {"waiting", "running"}
        BY <1>1, <3>1, FeedStartsWaiting
      <3>3. PICK f \in Files : F = InstallApproved(f)
        BY <1>1, <3>1, <3>2
      <3>4. autoStart /\ enabled /\ <<a, F[a].content>> \in allowed
        BY <2>0, <3>2, <3>3, InstallApprovedStarts
      <3>5. fleet'[a].content = F[a].content
        <4>1. PICK p, fresh : Feed(F, p, fresh)
          BY <3>1
        <4> DEFINE pk == IF p # "no" THEN DaemonsParked(F) ELSE F
        <4>2. pk \in [Agents -> Loops] /\ pk[a].content = F[a].content
          BY CommandsKeepLoops DEF SameLoops
        <4>3. fleet' = IF fresh THEN Woken(pk) ELSE pk
          BY <4>1 DEF Feed
        <4> HIDE DEF pk
        <4>4. Woken(pk)[a].content = pk[a].content
          BY <4>2, CommandsKeepLoops DEF SameLoops
        <4> QED BY <4>2, <4>3, <4>4
      <3> QED BY <3>4, <3>5
    <2>4. CASE RecheckFires
      BY <1>1, <2>0, <2>4, WakingStartsWaiting DEF RecheckFires, WakeRepo
    <2>5. ASSUME NEW b \in Agents, PassEnds(b) \/ PassFails(b) \/ TimerFires(b) PROVE Cause(a)
      <3>1. fleet[b].st \in {"waiting", "running"} /\ (a # b => fleet'[a] = fleet[a])
        BY <2>0, <2>5 DEF PassEnds, PassFails, TimerFires
      <3> QED BY <1>1, <3>1
    <2>6. ASSUME NEW b \in Agents, NEW p \in Parkings, PassWrites(b, p) PROVE Cause(a)
      BY <1>1, <2>6 DEF PassWrites, sup
    <2>7. CASE UNCHANGED vars
      BY <1>1, <2>7 DEF vars, sup
    <2> QED BY <1>1, <2>1, <2>2, <2>3, <2>4, <2>5, <2>6, <2>7 DEF Next, Host, LoopStep
  <1>2. IInv /\ [Next]_vars => [\A a \in Agents : Starts(a) => Cause(a)]_vars
    BY <1>1
  <1> QED BY InitIInv, NextIInv, <1>2, PTL DEF Spec, NothingStartsItself

\* The wake of an ack is the last word of the reload that sees the ack: neither
\* parking nor the stop of a daemon undoes it.
THEOREM AcksWakeAll == Spec => SeenAckWakesAll
  <1> DEFINE Sees == ack = "new" /\ ack' = "known"
  <1> DEFINE Woke == parked' = "no" /\ \A a \in Agents : fleet'[a].st # "waiting"
  <1>1. ASSUME IInv, [Next]_vars, Sees PROVE Woke
    <2>1. Reload \/ Connected
      BY <1>1 DEF Next, Operator, Press, Answer, Stop, Retry, TickAll, Surroundings, Switch,
            SendAck, BacklogChanges, EditLaunch, Host, FirstLoad, LoopStep, RecheckFires,
            PassEnds, PassFails, TimerFires, PassWrites, disk, vars
    <2>2. PICK F \in [Agents -> Loops] : \E p, fresh : Feed(F, p, fresh)
      BY <1>1, <2>1, HostFeeds
    <2>3. parked' = "no"
      BY <1>1, <2>2 DEF Feed
    <2>4. \A a \in Agents : fleet'[a].st # "waiting"
      BY <1>1, <2>2, FeedStartsWaiting
    <2> QED BY <2>3, <2>4
  <1>2. IInv /\ [Next]_vars => [Sees => Woke]_vars
    BY <1>1
  <1> QED BY InitIInv, NextIInv, <1>2, PTL DEF Spec, SeenAckWakesAll

=============================================================================
