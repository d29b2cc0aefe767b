---------------------------- MODULE PlannerProofs ----------------------------
(***************************************************************************)
(* For any tickets, requests and cap on the workers: what a pass writes is *)
(* typed, and but for the keys it cannot know of (unseen) no pass          *)
(* overwrites what it did not read, plans more than fits or what is not    *)
(* provisioned, or parks over work.                                        *)
(*                                                                         *)
(* The argument is LiveAreSeen: a process that runs during a pass was live *)
(* when it started, or belongs to an unseen key.  So no worker writes a    *)
(* ticket that the pass may write (SnapIsCurrent, HeldIsCurrent), and what *)
(* is chosen fits beside the workers (ChosenFit).                          *)
(***************************************************************************)
EXTENDS Planner, FiniteSetTheorems, TLAPS

-----------------------------------------------------------------------------
(* Ticket files and their ranks.                                           *)

\* Files are finitely many.
LEMMA RankedIsNat ==
    ASSUME NEW r PROVE Ranked(r) \in Nat
  <1>1. {j \in Keys : r[j] > 0} \subseteq Keys
    OBVIOUS
  <1> QED BY <1>1, PlannerAssumption, FS_Subset, FS_CardinalityType DEF Ranked

\* Ranks stay ranks, whichever file goes, is written or comes back.
LEMMA RanksStayRanks ==
    ASSUME NEW r \in [Keys -> Nat], NEW k \in Keys
    PROVE  /\ Forget(r, k) \in [Keys -> Nat]
           /\ Touch(r, k) \in [Keys -> Nat]
           /\ \A p \in 1..Ranked(r) + 1 : Revive(r, k, p) \in [Keys -> Nat]
  <1>1. ASSUME NEW s \in [Keys -> Nat] PROVE Forget(s, k) \in [Keys -> Nat]
    BY DEF Forget
  <1>2. Touch(r, k) \in [Keys -> Nat]
    <2> DEFINE others == Forget(r, k)
    <2>1. others \in [Keys -> Nat] /\ Ranked(others) + 1 \in Nat
      BY <1>1, RankedIsNat
    <2> HIDE DEF others
    <2>2. [others EXCEPT ![k] = Ranked(others) + 1] \in [Keys -> Nat]
      BY <2>1
    <2>3. Touch(r, k) = IF Dated THEN [others EXCEPT ![k] = Ranked(others) + 1] ELSE others
      BY DEF Touch, others
    <2> QED BY <2>1, <2>2, <2>3
  <1>3. \A p \in 1..Ranked(r) + 1 : Revive(r, k, p) \in [Keys -> Nat]
    BY RankedIsNat DEF Revive
  <1> QED BY <1>1, <1>2, <1>3

\* A reconciled ticket is a ticket, and a live key's changes by its issue only.
LEMMA ReconciledIsTicket ==
    ASSUME NEW k, NEW t \in Tickets, NEW stale \in BOOLEAN, NEW answered \in BOOLEAN
    PROVE  /\ Reconciled(k, t, stale, answered) \in Tickets
           /\ (k \in liveSeen /\ ~Closed(k, t) /\ ~Reopened(k, t))
                => Reconciled(k, t, stale, answered) = t
  <1> DEFINE running == t.running /\ ~PresumedCrashed(k, t, stale)
  <1> DEFINE open == IF answered /\ Reopened(k, t) THEN TRUE ELSE t.open /\ ~(answered /\ Closed(k, t))
  <1> DEFINE idle == t.idle /\ ~(answered /\ (Reopened(k, t) \/ Closed(k, t)))
  <1>1. running \in BOOLEAN /\ open \in BOOLEAN /\ idle \in BOOLEAN
    BY DEF Tickets
  <1>2. Reconciled(k, t, stale, answered)
          = [t EXCEPT !.running = running, !.open = open, !.idle = idle]
    BY DEF Reconciled
  <1>3. (k \in liveSeen /\ ~Closed(k, t) /\ ~Reopened(k, t))
          => running = t.running /\ open = t.open /\ idle = t.idle
    BY DEF PresumedCrashed, Tickets
  <1> HIDE DEF running, open, idle
  <1>4. Reconciled(k, t, stale, answered) \in Tickets
    BY <1>1, <1>2 DEF Tickets
  <1>5. (running = t.running /\ open = t.open /\ idle = t.idle)
          => Reconciled(k, t, stale, answered) = t
    BY <1>2 DEF Tickets
  <1> QED BY <1>3, <1>4, <1>5

\* A stamped ticket is running, and open unless it was settled.
LEMMA StampedIsRunning ==
    ASSUME NEW t \in Tickets \cup {NoTicket}
    PROVE  /\ Stamped(t) \in Tickets /\ Stamped(t).running
           /\ ~Terminal(t) => Stamped(t).open
  BY DEF Stamped, Fresh, Tickets, Terminal

\* What a worker writes is a ticket.
LEMMA WorkersWriteTickets ==
    ASSUME NEW k, NEW t \in WorkerTickets(k) PROVE t \in Tickets
  <1>1. FreshRequests(k) \subseteq Requests
    BY DEF FreshRequests
  <1> QED BY <1>1 DEF WorkerTickets, Tickets, Fresh

-----------------------------------------------------------------------------
(* Types.                                                                  *)

WorldTyped ==
    /\ issue \in [Keys -> {"open", "closed", "reopened"}]
    /\ ticket \in [Keys -> Tickets \cup {NoTicket}] /\ rank \in [Keys -> Nat]
    /\ inbox \subseteq Acks /\ trees \subseteq Keys
    /\ plan \subseteq Keys /\ parked \in BOOLEAN /\ live \subseteq Keys
    /\ stray \subseteq Keys /\ unseen \subseteq Keys

PassTyped ==
    /\ pc \in Steps /\ liveSeen \subseteq Keys /\ candidates \subseteq Keys
    /\ listed \subseteq Acks /\ held \in Held \cup {NoAck} /\ consumed \subseteq Keys
    /\ snap \in [Keys -> Tickets \cup {NoTicket}] /\ snapRank \in [Keys -> Nat]
    /\ left \subseteq Keys /\ dispatched \subseteq Keys /\ deferred \subseteq Keys

\* A key to be reconciled has a file among those loaded.
LeftAreLoaded == pc = "reconcile" => \A k \in left : snap[k] # NoTicket

TInv == WorldTyped /\ PassTyped /\ LeftAreLoaded

\* The two groups of types are the type invariant.
LEMMA TypeParts == TypeOK <=> WorldTyped /\ PassTyped
  BY DEF TypeOK, WorldTyped, PassTyped

\* No file, no plan and no pass to begin with.
LEMMA InitTInv == Init => TInv
  <1> SUFFICES ASSUME Init PROVE TInv
    OBVIOUS
  <1>1. WorldTyped
    BY DEF Init, WorldTyped, NoTickets, NoRanks
  <1>2. PassTyped /\ LeftAreLoaded
    BY DEF Init, PassTyped, LeftAreLoaded, NoTickets, NoRanks, Steps
  <1> QED BY <1>1, <1>2 DEF TInv

\* A pass that is over leaves nothing behind.
LEMMA OverIsTyped == Over => PassTyped' /\ LeftAreLoaded'
  BY DEF Over, PassTyped, LeftAreLoaded, NoTickets, NoRanks, Steps

\* The steps of a pass keep the types.
LEMMA PassStepTypes == TInv /\ PassStep => TInv'
  <1> SUFFICES ASSUME TInv, PassStep PROVE TInv'
    OBVIOUS
  <1> USE DEF TInv
  <1>1. CASE Begin
    BY <1>1 DEF Begin, files, loop, WorldTyped, PassTyped, LeftAreLoaded, Steps
  <1>2. CASE Discover
    BY <1>2 DEF Discover, files, loop, WorldTyped, PassTyped, LeftAreLoaded, Steps
  <1>3. CASE ReadAck
    <2>1. PICK a \in listed :
            /\ listed' = listed \ {a}
            /\ \/ /\ ticket[a.key] = NoTicket
                  /\ inbox' = inbox \ {a}
                  /\ UNCHANGED held
               \/ /\ ticket[a.key] # NoTicket
                  /\ held' = [ack |-> a, ticket |-> ticket[a.key], noted |-> FALSE]
                  /\ UNCHANGED inbox
      BY <1>3 DEF ReadAck
    <2>2. a \in Acks /\ a.key \in Keys
      BY DEF PassTyped, Acks
    <2>3. inbox' \subseteq Acks /\ listed' \subseteq Acks
      BY <2>1 DEF WorldTyped, PassTyped
    <2>4. ticket[a.key] # NoTicket =>
            [ack |-> a, ticket |-> ticket[a.key], noted |-> FALSE] \in Held
      BY <2>2 DEF WorldTyped, Held
    <2>5. held' \in Held \cup {NoAck}
      BY <2>1, <2>4 DEF PassTyped
    <2> QED BY <1>3, <2>3, <2>5 DEF ReadAck, loop, WorldTyped, PassTyped, LeftAreLoaded
  <1>4. CASE NoteAck
    <2>1. held \in Held /\ held.ack.key \in Keys /\ held.ticket \in Tickets
      BY <1>4 DEF NoteAck, PassTyped, Held, Acks
    <2>2. ticket' \in [Keys -> Tickets \cup {NoTicket}]
      BY <1>4, <2>1 DEF NoteAck, WorldTyped
    <2>3. rank' \in [Keys -> Nat]
      BY <1>4, <2>1, RanksStayRanks DEF NoteAck, WorldTyped
    <2>4. held' \in Held
      BY <1>4, <2>1 DEF NoteAck, Held
    <2> QED BY <1>4, <2>2, <2>3, <2>4 DEF NoteAck, loop, WorldTyped, PassTyped, LeftAreLoaded
  <1>5. CASE DeleteAck
    <2>1. held.ack.key \in Keys
      BY <1>5 DEF DeleteAck, PassTyped, Held, Acks
    <2> QED BY <1>5, <2>1 DEF DeleteAck, loop, WorldTyped, PassTyped, LeftAreLoaded
  <1>6. CASE LoadTickets
    BY <1>6 DEF LoadTickets, files, loop, WorldTyped, PassTyped, LeftAreLoaded, Steps
  <1>7. CASE Reconcile
    <2>1. PICK k \in left, stale \in BOOLEAN, answered \in BOOLEAN :
            LET t == Reconciled(k, snap[k], stale, answered)
            IN  /\ left' = left \ {k}
                /\ \/ /\ t = snap[k]
                      /\ UNCHANGED <<ticket, rank, snap, snapRank>>
                   \/ /\ t # snap[k]
                      /\ ticket' = [ticket EXCEPT ![k] = t]
                      /\ rank' = Touch(rank, k)
                      /\ snap' = [snap EXCEPT ![k] = t]
                      /\ snapRank' = Touch(snapRank, k)
      BY <1>7 DEF Reconcile
    <2> DEFINE t == Reconciled(k, snap[k], stale, answered)
    <2>2. k \in Keys /\ snap[k] \in Tickets /\ pc = "reconcile" /\ pc' = pc
      BY <1>7 DEF Reconcile, PassTyped, LeftAreLoaded
    <2>3. t \in Tickets /\ NoTicket \notin Tickets
      BY <2>2, ReconciledIsTicket, NullAssumption
    <2> HIDE DEF t
    <2>4. /\ ticket' \in [Keys -> Tickets \cup {NoTicket}] /\ rank' \in [Keys -> Nat]
          /\ snap' \in [Keys -> Tickets \cup {NoTicket}] /\ snapRank' \in [Keys -> Nat]
      <3>1. CASE t = snap[k] /\ UNCHANGED <<ticket, rank, snap, snapRank>>
        BY <3>1 DEF WorldTyped, PassTyped
      <3>2. CASE /\ ticket' = [ticket EXCEPT ![k] = t] /\ rank' = Touch(rank, k)
                 /\ snap' = [snap EXCEPT ![k] = t] /\ snapRank' = Touch(snapRank, k)
        <4>1. rank' \in [Keys -> Nat] /\ snapRank' \in [Keys -> Nat]
          BY <2>2, <3>2, RanksStayRanks DEF WorldTyped, PassTyped
        <4> QED BY <2>2, <2>3, <3>2, <4>1 DEF WorldTyped, PassTyped
      <3> QED BY <2>1, <3>1, <3>2 DEF t
    <2>5. LeftAreLoaded'
      BY <2>1, <2>2, <2>3 DEF PassTyped, LeftAreLoaded, t
    <2> QED BY <1>7, <2>1, <2>4, <2>5 DEF Reconcile, loop, WorldTyped, PassTyped
  <1>8. CASE Select
    <2>1. Selectable \subseteq Keys
      BY DEF Selectable, PassTyped
    <2> QED BY <1>8, <2>1 DEF Select, files, loop, WorldTyped, PassTyped, LeftAreLoaded, Steps
  <1>9. ASSUME NEW k \in Keys, Dispatch(k) PROVE TInv'
    <2>1. Stamped(snap[k]) \in Tickets
      BY StampedIsRunning DEF PassTyped
    <2>2. rank' \in [Keys -> Nat]
      BY <1>9, RanksStayRanks DEF Dispatch, WorldTyped
    <2> QED BY <1>9, <2>1, <2>2 DEF Dispatch, loop, WorldTyped, PassTyped, LeftAreLoaded
  <1>10. ASSUME NEW k \in Keys, DispatchFails(k) PROVE TInv'
    BY <1>10 DEF DispatchFails, loop, WorldTyped, PassTyped, LeftAreLoaded
  <1>11. CASE Reclaim
    BY <1>11 DEF Reclaim, loop, WorldTyped, PassTyped, LeftAreLoaded, Steps
  <1>12. CASE Wrap
    <2>1. WorldTyped'
      BY <1>12 DEF Wrap, files, WorldTyped, PassTyped, Parks
    <2> QED BY <1>12, <2>1, OverIsTyped DEF Wrap
  <1> QED
    BY <1>1, <1>2, <1>3, <1>4, <1>5, <1>6, <1>7, <1>8, <1>9, <1>10, <1>11, <1>12 DEF PassStep

\* So do a pass that dies, the workers, the operator and the forge.
LEMMA SurroundingsTypes == TInv /\ (PassDies \/ Surroundings \/ UNCHANGED vars) => TInv'
  <1> SUFFICES ASSUME TInv, PassDies \/ Surroundings \/ UNCHANGED vars PROVE TInv'
    OBVIOUS
  <1> USE DEF TInv
  <1>1. CASE PassDies
    BY <1>1, OverIsTyped DEF PassDies, files, loop, WorldTyped
  <1>2. ASSUME UNCHANGED pass PROVE PassTyped' /\ LeftAreLoaded'
    BY <1>2 DEF pass, PassTyped, LeftAreLoaded
  <1>3. CASE Feed \/ StopWorkers \/ WithdrawAck
    <2>1. WorldTyped'
      BY <1>3 DEF Feed, StopWorkers, WithdrawAck, files, loop, WorldTyped
    <2> QED BY <1>2, <1>3, <2>1 DEF Feed, StopWorkers, WithdrawAck
  <1>4. ASSUME NEW k \in Keys, WorkerWrites(k) PROVE TInv'
    <2>1. ticket' \in [Keys -> Tickets \cup {NoTicket}]
      BY <1>4, WorkersWriteTickets DEF WorkerWrites, WorldTyped
    <2>2. rank' \in [Keys -> Nat]
      BY <1>4, RanksStayRanks DEF WorkerWrites, WorldTyped
    <2>3. WorldTyped'
      BY <1>4, <2>1, <2>2 DEF WorkerWrites, loop, WorldTyped
    <2> QED BY <1>2, <1>4, <2>3 DEF WorkerWrites
  <1>5. ASSUME NEW k \in Keys, WorkerExits(k) \/ StrayExits(k) PROVE TInv'
    <2>1. WorldTyped'
      BY <1>5 DEF WorkerExits, StrayExits, files, loop, WorldTyped
    <2> QED BY <1>2, <1>5, <2>1 DEF WorkerExits, StrayExits
  <1>6. ASSUME NEW k \in Keys, SendAck(k) PROVE TInv'
    <2>1. ticket[k].request \in Requests
      BY <1>6 DEF SendAck, WorldTyped, Tickets
    <2>2. [key |-> k, request |-> ticket[k].request] \in Acks
      BY <2>1 DEF Acks
    <2>3. WorldTyped'
      BY <1>6, <2>2 DEF SendAck, loop, WorldTyped
    <2> QED BY <1>2, <1>6, <2>3 DEF SendAck
  <1>7. ASSUME NEW k \in Keys, RemoveTicket(k) PROVE TInv'
    <2>1. rank' \in [Keys -> Nat]
      BY <1>7, RanksStayRanks DEF RemoveTicket, WorldTyped
    <2>2. WorldTyped'
      BY <1>7, <2>1 DEF RemoveTicket, loop, WorldTyped
    <2> QED BY <1>2, <1>7, <2>2 DEF RemoveTicket
  <1>8. ASSUME NEW k \in Keys, IssueChanges(k) PROVE TInv'
    <2>1. WorldTyped'
      BY <1>8 DEF IssueChanges, files, loop, WorldTyped
    <2> QED BY <1>2, <1>8, <2>1 DEF IssueChanges
  <1>9. CASE UNCHANGED vars
    <2>1. WorldTyped'
      BY <1>9 DEF vars, files, loop, WorldTyped
    <2> QED BY <1>2, <1>9, <2>1 DEF vars
  <1> QED BY <1>1, <1>3, <1>4, <1>5, <1>6, <1>7, <1>8, <1>9 DEF Surroundings

\* Every step keeps the types.
LEMMA NextTInv == TInv /\ [Next]_vars => TInv'
  BY PassStepTypes, SurroundingsTypes DEF Next

-----------------------------------------------------------------------------
(* The course of a pass.                                                   *)

HeldIsListed == held # NoAck => pc = "acks"

Unplanned == pc \in {"rest", "inventory", "acks", "reconcile"} => dispatched = {} /\ deferred = {}

\* During a pass the last plan is left over in unseen keys only, and whatever runs
\* was live when the pass started or belongs to one of them.
LiveAreSeen ==
    pc # "rest" => plan \subseteq unseen /\ live \cup stray \subseteq liveSeen \cup unseen

\* Spawning stops at the cap.
LiveFit == Cardinality(live) <= MaxConcurrent /\ Cardinality(liveSeen) <= MaxConcurrent

\* What is, was or will be dispatched was selected and fits beside the workers; what
\* was selected is none of the three only when it was deferred.
ChosenFit ==
    pc \in {"dispatch", "wrap"} =>
        /\ left \cup dispatched \subseteq Selectable
        /\ left \cap dispatched = {}
        /\ Selectable \subseteq left \cup dispatched \cup deferred
        /\ Cardinality(left \cup dispatched) <= Free
        /\ pc = "wrap" => left = {}

\* The ticket read for an ack is on disk still, or a settled one and removed.
HeldIsCurrent ==
    held # NoAck =>
        \/ held.ack.key \in liveSeen \cup unseen
        \/ ticket[held.ack.key] = held.ticket
        \/ ticket[held.ack.key] = NoTicket /\ Terminal(held.ticket)

\* So are those loaded, where the pass has not written itself.
SnapIsCurrent ==
    pc \in {"reconcile", "dispatch", "wrap"} =>
        \A k \in Keys \ (liveSeen \cup unseen \cup dispatched) :
            ticket[k] = snap[k] \/ (ticket[k] = NoTicket /\ Terminal(snap[k]))

Course == HeldIsListed /\ Unplanned /\ LiveAreSeen /\ LiveFit /\ ChosenFit

PInv == Course /\ HeldIsCurrent /\ SnapIsCurrent /\ PlanIsProvisioned /\ PlanFits

\* Nothing is planned to begin with.
LEMMA InitPInv == Init => PInv
  <1> SUFFICES ASSUME Init PROVE PInv
    OBVIOUS
  <1>1. Cardinality({}) = 0 /\ MaxConcurrent \in Nat
    BY FS_EmptySet, PlannerAssumption
  <1>2. Course /\ HeldIsCurrent /\ SnapIsCurrent /\ PlanIsProvisioned
    BY <1>1 DEF Init, Course, HeldIsListed, Unplanned, LiveAreSeen, LiveFit, ChosenFit,
       HeldIsCurrent, SnapIsCurrent, PlanIsProvisioned
  <1>3. (dispatched \cup plan \cup live) \ unseen = {}
    BY DEF Init
  <1>4. PlanFits
    BY <1>1, <1>3 DEF Init, PlanFits
  <1> QED BY <1>2, <1>4 DEF PInv

\* What can be selected depends on what the pass has loaded and heard only.
LEMMA SameSelectable ==
    ASSUME UNCHANGED <<candidates, liveSeen, consumed, snap>>
    PROVE  Selectable' = Selectable /\ Free' = Free
  BY DEF Selectable, Eligible, Free

\* A part of a set of keys that fits somewhere fits there.
LEMMA PartFits ==
    ASSUME NEW U \in SUBSET Keys, NEW V \in SUBSET U, NEW n \in Nat, Cardinality(U) <= n
    PROVE  Cardinality(V) <= n
  <1>1. /\ Cardinality(V) <= Cardinality(U)
        /\ Cardinality(U) \in Nat /\ Cardinality(V) \in Nat
    BY PlannerAssumption, FS_Subset, FS_CardinalityType
  <1> QED BY <1>1

\* There are no fewer than no free slots.
LEMMA FreeIsNat == ASSUME TInv PROVE Free \in Nat
  <1>1. liveSeen \in SUBSET Keys
    BY DEF TInv, PassTyped
  <1>2. Cardinality(liveSeen) \in Nat
    BY <1>1, PlannerAssumption, FS_Subset, FS_CardinalityType
  <1> QED BY <1>2, PlannerAssumption DEF Free

\* The steps of a pass keep its course.
LEMMA PassKeepsCourse ==
    ASSUME TInv, PInv, PassStep
    PROVE  Course'
  <1> USE DEF PInv, Course
  <1>1. CASE Begin
    <2>1. LiveAreSeen' /\ LiveFit'
      BY <1>1 DEF Begin, LiveAreSeen, LiveFit
    <2> QED BY <1>1, <2>1 DEF Begin, HeldIsListed, Unplanned, ChosenFit
  <1>2. CASE Discover \/ ReadAck \/ NoteAck \/ DeleteAck \/ LoadTickets
    BY <1>2 DEF Discover, ReadAck, NoteAck, DeleteAck, LoadTickets, loop, HeldIsListed, Unplanned,
       LiveAreSeen, LiveFit, ChosenFit
  <1>3. CASE Reconcile
    BY <1>3 DEF Reconcile, loop, HeldIsListed, Unplanned, LiveAreSeen, LiveFit, ChosenFit
  <1>4. CASE Select
    <2>1. PICK chosen \in SUBSET Selectable :
            /\ Cardinality(chosen) <= Free
            /\ left' = chosen /\ deferred' = Selectable \ chosen
      BY <1>4 DEF Select
    <2>2. Selectable' = Selectable /\ Free' = Free
      BY <1>4, SameSelectable DEF Select
    <2>3. pc = "reconcile" /\ pc' = "dispatch" /\ dispatched = {} /\ dispatched' = {}
      BY <1>4 DEF Select, Unplanned
    <2>4. left' \cup dispatched' = chosen
      BY <2>1, <2>3
    <2>5. ChosenFit'
      BY <2>1, <2>2, <2>3, <2>4 DEF ChosenFit
    <2> QED BY <1>4, <2>3, <2>5 DEF Select, loop, HeldIsListed, Unplanned, LiveAreSeen, LiveFit
  <1>5. ASSUME NEW k \in Keys, Dispatch(k) \/ DispatchFails(k) PROVE Course'
    <2>1. Selectable' = Selectable /\ Free' = Free /\ pc = "dispatch" /\ pc' = "dispatch"
      BY <1>5, SameSelectable DEF Dispatch, DispatchFails
    <2>2. left' \cup dispatched' \subseteq left \cup dispatched
      BY <1>5 DEF Dispatch, DispatchFails
    <2>3. left \cup dispatched \cup deferred \subseteq left' \cup dispatched' \cup deferred'
      BY <1>5 DEF Dispatch, DispatchFails
    <2>4. Cardinality(left' \cup dispatched') <= Free
      <3>1. left \cup dispatched \in SUBSET Keys /\ left' \cup dispatched' \in SUBSET (left \cup dispatched)
        BY <2>2 DEF TInv, PassTyped
      <3> QED BY <2>1, <3>1, PartFits, FreeIsNat DEF ChosenFit
    <2>5. left' \cap dispatched' = {}
      BY <1>5, <2>1 DEF Dispatch, DispatchFails, ChosenFit
    <2>6. ChosenFit'
      BY <2>1, <2>2, <2>3, <2>4, <2>5 DEF ChosenFit
    <2> QED BY <1>5, <2>6 DEF Dispatch, DispatchFails, loop, HeldIsListed, Unplanned, LiveAreSeen, LiveFit
  <1>6. CASE Reclaim
    <2>1. Selectable' = Selectable /\ Free' = Free
      BY <1>6, SameSelectable DEF Reclaim
    <2> QED BY <1>6, <2>1 DEF Reclaim, loop, HeldIsListed, Unplanned, LiveAreSeen, LiveFit, ChosenFit
  <1>7. CASE Wrap
    <2>1. LiveFit'
      BY <1>7, FS_EmptySet, PlannerAssumption DEF Wrap, Over, LiveFit
    <2> QED BY <1>7, <2>1 DEF Wrap, Over, HeldIsListed, Unplanned, LiveAreSeen, ChosenFit
  <1> QED BY <1>1, <1>2, <1>3, <1>4, <1>5, <1>6, <1>7 DEF PassStep

\* What the surroundings do to the loop: a planned key may become live, and what
\* runs may leave the map or exit.
LEMMA SurroundingsLoop ==
    ASSUME Surroundings
    PROVE  /\ UNCHANGED <<pass, unseen>>
           /\ plan' \subseteq plan
           /\ live' \cup stray' \subseteq live \cup stray \cup plan
           /\ live' \cup plan' \subseteq live \cup plan
           /\ live' \subseteq live \/ Cardinality(live') <= MaxConcurrent
           /\ live' \cup stray' \subseteq live \cup stray \/ plan' = {}
  <1>1. CASE Feed
    BY <1>1 DEF Feed
  <1>2. CASE StopWorkers \/ \E k \in Keys : WorkerExits(k) \/ StrayExits(k)
    BY <1>2 DEF StopWorkers, WorkerExits, StrayExits
  <1>3. CASE WithdrawAck \/ \E k \in Keys : \/ WorkerWrites(k) \/ SendAck(k) \/ RemoveTicket(k)
                                            \/ IssueChanges(k)
    BY <1>3 DEF WithdrawAck, WorkerWrites, SendAck, RemoveTicket, IssueChanges, loop
  <1> QED BY <1>1, <1>2, <1>3 DEF Surroundings

\* Everything else keeps the course, too.
LEMMA OthersKeepCourse ==
    ASSUME TInv, PInv, PassDies \/ Surroundings \/ UNCHANGED vars
    PROVE  Course'
  <1> USE DEF PInv, Course
  <1>1. CASE PassDies
    <2>1. LiveFit'
      BY <1>1, FS_EmptySet, PlannerAssumption DEF PassDies, Over, loop, LiveFit
    <2> QED BY <1>1, <2>1 DEF PassDies, Over, HeldIsListed, Unplanned, LiveAreSeen, ChosenFit
  <1>2. ASSUME UNCHANGED pass PROVE (HeldIsListed /\ Unplanned /\ ChosenFit)'
    <2>1. UNCHANGED <<pc, left, dispatched, deferred, held, liveSeen>>
          /\ Selectable' = Selectable /\ Free' = Free
      BY <1>2, SameSelectable DEF pass
    <2> QED BY <2>1 DEF HeldIsListed, Unplanned, ChosenFit
  <1>3. CASE Surroundings
    <2>1. UNCHANGED <<pc, liveSeen, unseen>>
      BY <1>3, SurroundingsLoop DEF pass
    <2>2. LiveAreSeen'
      BY <1>3, <2>1, SurroundingsLoop DEF LiveAreSeen
    <2>3. LiveFit'
      <3>1. live \in SUBSET Keys
        BY DEF TInv, WorldTyped
      <3>2. CASE live' \subseteq live
        BY <2>1, <3>1, <3>2, PartFits, PlannerAssumption DEF LiveFit
      <3> QED BY <1>3, <2>1, <3>2, SurroundingsLoop DEF LiveFit
    <2> QED BY <1>2, <1>3, <2>2, <2>3, SurroundingsLoop
  <1>4. CASE UNCHANGED vars
    BY <1>2, <1>4 DEF vars, pass, loop, LiveAreSeen, LiveFit
  <1> QED BY <1>1, <1>3, <1>4

-----------------------------------------------------------------------------
(* What the pass has read.                                                 *)

\* The pass writes tickets in three steps: those it dispatches, and those of which it
\* holds a copy while it reconciles or consumes.
LEMMA WritersOfThePass ==
    ASSUME [Next]_vars, ticket' # ticket
    PROVE  \/ NoteAck
           \/ Reconcile
           \/ \E k \in Keys : Dispatch(k)
           \/ \E k \in Keys : UNCHANGED pass /\ (WorkerWrites(k) \/ RemoveTicket(k))
  BY DEF Next, PassStep, PassDies, Surroundings, Begin, Discover, ReadAck, DeleteAck, LoadTickets,
     Select, Reclaim, Wrap, DispatchFails, Feed, StopWorkers, WithdrawAck, WorkerWrites, WorkerExits,
     StrayExits, SendAck, RemoveTicket, IssueChanges, files, vars

\* A worker writes the ticket of a live or unseen key only, and nobody's else.
LEMMA WorkersKeepOff ==
    ASSUME TInv, PInv, NEW k \in Keys, WorkerWrites(k)
    PROVE  /\ UNCHANGED <<pass, unseen>>
           /\ pc # "rest" => k \in liveSeen \cup unseen
           /\ \A j \in Keys \ {k} : ticket'[j] = ticket[j]
  BY DEF WorkerWrites, PInv, Course, LiveAreSeen, loop, TInv, WorldTyped

\* The operator removes settled tickets only.
LEMMA OnlySettledGo ==
    ASSUME TInv, NEW k \in Keys, RemoveTicket(k)
    PROVE  /\ UNCHANGED <<pass, unseen>>
           /\ Terminal(ticket[k]) /\ ticket[k] # NoTicket /\ ticket'[k] = NoTicket
           /\ \A j \in Keys \ {k} : ticket'[j] = ticket[j]
  BY DEF RemoveTicket, Terminal, loop, TInv, WorldTyped

\* The ticket that was read for an ack stays what is on disk.
LEMMA HeldStaysCurrent ==
    ASSUME TInv, PInv, [Next]_vars
    PROVE  HeldIsCurrent'
  <1> SUFFICES ASSUME held' # NoAck
               PROVE  \/ held'.ack.key \in liveSeen' \cup unseen'
                      \/ ticket'[held'.ack.key] = held'.ticket
                      \/ ticket'[held'.ack.key] = NoTicket /\ Terminal(held'.ticket)
    BY DEF HeldIsCurrent, Terminal
  <1> USE DEF PInv
  <1>1. CASE ReadAck
    BY <1>1, NullAssumption DEF ReadAck, HeldIsCurrent, loop
  <1>2. CASE NoteAck
    <2>1. held \in Held /\ held.ack.key \in Keys
      BY <1>2 DEF NoteAck, TInv, PassTyped, Held, Acks
    <2>2. held'.ack = held.ack /\ held'.ticket = held.ticket
      BY <1>2, <2>1 DEF NoteAck, Held
    <2> QED BY <1>2, <2>1, <2>2 DEF NoteAck, TInv, WorldTyped
  <1>3. CASE UNCHANGED <<held, ticket, liveSeen, unseen>>
    BY <1>3 DEF HeldIsCurrent
  <1>4. ASSUME NEW k \in Keys, WorkerWrites(k) \/ RemoveTicket(k)
        PROVE  \/ held'.ack.key \in liveSeen' \cup unseen'
               \/ ticket'[held'.ack.key] = held'.ticket
               \/ ticket'[held'.ack.key] = NoTicket /\ Terminal(held'.ticket)
    <2>1. /\ UNCHANGED <<held, liveSeen, unseen>> /\ pc # "rest"
          /\ held.ack.key \in Keys
      <3>1. UNCHANGED <<held, liveSeen, unseen>>
        BY <1>4, WorkersKeepOff, OnlySettledGo DEF pass
      <3>2. held \in Held /\ pc = "acks"
        BY <3>1 DEF Course, HeldIsListed, TInv, PassTyped
      <3> QED BY <3>1, <3>2 DEF Held, Acks
    <2>2. CASE held.ack.key # k
      <3>1. ticket'[held.ack.key] = ticket[held.ack.key]
        BY <1>4, <2>1, <2>2, WorkersKeepOff, OnlySettledGo
      <3> QED BY <2>1, <3>1 DEF HeldIsCurrent
    <2>3. CASE held.ack.key = k /\ WorkerWrites(k)
      BY <2>1, <2>3, WorkersKeepOff
    <2>4. CASE held.ack.key = k /\ RemoveTicket(k)
      <3>1. Terminal(ticket[k]) /\ ticket[k] # NoTicket /\ ticket'[k] = NoTicket
        BY <2>4, OnlySettledGo
      <3> QED BY <2>1, <2>4, <3>1 DEF HeldIsCurrent
    <2> QED BY <1>4, <2>2, <2>3, <2>4
  <1>5. ~(Begin \/ LoadTickets \/ Reconcile \/ \E k \in Keys : Dispatch(k))
    <2>1. pc = "acks" \/ held = NoAck
      BY DEF Course, HeldIsListed
    <2> QED BY <2>1 DEF Begin, LoadTickets, Reconcile, Dispatch, Course, HeldIsListed
  <1>6. UNCHANGED <<held, ticket, liveSeen, unseen>> \/ ReadAck \/ NoteAck
          \/ \E k \in Keys : WorkerWrites(k) \/ RemoveTicket(k)
    BY <1>5 DEF Next, PassStep, PassDies, Surroundings, Over, Discover, DeleteAck, Select, Reclaim,
       Wrap, DispatchFails, Feed, StopWorkers, WithdrawAck, WorkerExits, StrayExits, SendAck,
       IssueChanges, files, loop, pass, vars
  <1> QED BY <1>1, <1>2, <1>3, <1>4, <1>6

\* Nobody but the pass itself changes a ticket that it may write, and the operator
\* only by removing a settled one.
LEMMA SnapStaysCurrent ==
    ASSUME TInv, PInv, [Next]_vars
    PROVE  SnapIsCurrent'
  <1> USE DEF PInv
  <1>1. CASE Begin \/ Discover \/ ReadAck \/ NoteAck \/ DeleteAck \/ Wrap \/ PassDies
    BY <1>1 DEF Begin, Discover, ReadAck, NoteAck, DeleteAck, Wrap, PassDies, Over, Course,
       HeldIsListed, SnapIsCurrent
  <1>2. CASE LoadTickets
    BY <1>2 DEF LoadTickets, files, loop, SnapIsCurrent
  <1>3. CASE Reconcile
    <2>1. PICK k \in left :
            \/ UNCHANGED <<ticket, snap>>
            \/ \E t : ticket' = [ticket EXCEPT ![k] = t] /\ snap' = [snap EXCEPT ![k] = t]
      BY <1>3 DEF Reconcile
    <2>2. /\ UNCHANGED <<pc, liveSeen, unseen, dispatched>> /\ pc = "reconcile"
          /\ DOMAIN ticket = Keys /\ DOMAIN snap = Keys
      BY <1>3 DEF Reconcile, loop, TInv, WorldTyped, PassTyped
    <2> QED BY <2>1, <2>2 DEF SnapIsCurrent, Terminal
  <1>4. CASE Select \/ Reclaim
    BY <1>4 DEF Select, Reclaim, files, loop, SnapIsCurrent, Terminal
  <1>5. ASSUME NEW k \in Keys, Dispatch(k) PROVE SnapIsCurrent'
    BY <1>5 DEF Dispatch, loop, SnapIsCurrent, Terminal, TInv, WorldTyped
  <1>6. ASSUME NEW k \in Keys, DispatchFails(k) PROVE SnapIsCurrent'
    BY <1>6 DEF DispatchFails, loop, SnapIsCurrent, Terminal
  <1>7. ASSUME NEW k \in Keys, WorkerWrites(k) PROVE SnapIsCurrent'
    <2>1. /\ UNCHANGED <<pc, liveSeen, unseen, dispatched, snap>>
          /\ pc # "rest" => k \in liveSeen \cup unseen
          /\ \A j \in Keys \ {k} : ticket'[j] = ticket[j]
      BY <1>7, WorkersKeepOff DEF pass
    <2> QED BY <2>1 DEF SnapIsCurrent, Terminal
  <1>8. ASSUME NEW k \in Keys, RemoveTicket(k) PROVE SnapIsCurrent'
    <2>1. /\ UNCHANGED <<pc, liveSeen, unseen, dispatched, snap>>
          /\ \A j \in Keys \ {k} : ticket'[j] = ticket[j]
          /\ Terminal(ticket[k]) /\ ticket[k] # NoTicket /\ ticket'[k] = NoTicket
      BY <1>8, OnlySettledGo DEF pass
    <2> QED BY <2>1 DEF SnapIsCurrent, Terminal
  <1>9. ASSUME UNCHANGED <<ticket, unseen, pass>> PROVE SnapIsCurrent'
    BY <1>9 DEF pass, SnapIsCurrent, Terminal
  <1>10. CASE \/ Feed \/ StopWorkers \/ WithdrawAck \/ UNCHANGED vars
              \/ \E k \in Keys : WorkerExits(k) \/ StrayExits(k) \/ SendAck(k) \/ IssueChanges(k)
    BY <1>9, <1>10 DEF Feed, StopWorkers, WithdrawAck, vars, files, loop, WorkerExits, StrayExits,
       SendAck, IssueChanges
  <1> QED
    BY <1>1, <1>2, <1>3, <1>4, <1>5, <1>6, <1>7, <1>8, <1>10 DEF Next, PassStep, Surroundings

-----------------------------------------------------------------------------
(* Plans.                                                                  *)

\* What was selected has room beside the workers that were live.
LEMMA ChosenHaveRoom ==
    ASSUME TInv, PInv, pc = "dispatch", left \cup dispatched # {}
    PROVE  Cardinality(left \cup dispatched \cup liveSeen) <= MaxConcurrent
  <1> DEFINE C == left \cup dispatched
  <1>1. /\ C \in SUBSET Keys /\ liveSeen \in SUBSET Keys /\ C # {}
        /\ C \subseteq Selectable /\ Cardinality(C) <= Free
    BY DEF TInv, PassTyped, PInv, Course, ChosenFit
  <1> HIDE DEF C
  <1>2. C \cap liveSeen = {}
    BY <1>1 DEF Selectable
  <1>3. /\ IsFiniteSet(liveSeen) /\ IsFiniteSet(C)
        /\ Cardinality(liveSeen) \in Nat /\ Cardinality(C) \in Nat /\ MaxConcurrent \in Nat
    BY <1>1, PlannerAssumption, FS_Subset, FS_CardinalityType
  <1>4. Cardinality(C \cup liveSeen) = Cardinality(C) + Cardinality(liveSeen)
    <2>1. Cardinality(C \cap liveSeen) = 0
      BY <1>2, FS_EmptySet
    <2>2. Cardinality(C \cup liveSeen)
            = Cardinality(C) + Cardinality(liveSeen) - Cardinality(C \cap liveSeen)
      BY <1>3, FS_Union
    <2> QED BY <1>3, <2>1, <2>2
  <1>5. Cardinality(C) # 0
    BY <1>1, <1>3, FS_EmptySet
  <1>6. Cardinality(C) + Cardinality(liveSeen) <= MaxConcurrent
    BY <1>1, <1>3, <1>5 DEF Free
  <1> QED BY <1>4, <1>6 DEF C

\* A plan keeps fitting while it and the workers only shrink or change places.
LEMMA ShrinkingFits ==
    ASSUME TInv, PInv,
           dispatched' \cup plan' \cup live' \subseteq dispatched \cup plan \cup live,
           (dispatched' \cup plan') \cap (live' \cup stray') \subseteq unseen,
           unseen' = unseen
    PROVE  PlanFits'
  <1> DEFINE U == (dispatched \cup plan \cup live) \ unseen
  <1> DEFINE V == (dispatched' \cup plan' \cup live') \ unseen'
  <1>1. U \in SUBSET Keys /\ V \in SUBSET U /\ Cardinality(U) <= MaxConcurrent
    BY DEF TInv, WorldTyped, PassTyped, PInv, PlanFits
  <1> HIDE DEF U, V
  <1>2. Cardinality(V) <= MaxConcurrent
    BY <1>1, PartFits, PlannerAssumption
  <1> QED BY <1>2 DEF PlanFits, V

\* No step plans a key that works, or more keys than fit.
LEMMA PlansKeepFitting ==
    ASSUME TInv, PInv, [Next]_vars PROVE PlanFits'
  <1> USE DEF PInv
  <1>1. CASE Begin
    <2>1. plan' \subseteq unseen' /\ dispatched' = {} /\ live' = live
      BY <1>1 DEF Begin, Course, Unplanned
    <2>2. live \in SUBSET Keys /\ live \ unseen' \in SUBSET live
      BY DEF TInv, WorldTyped
    <2>3. Cardinality(live \ unseen') <= MaxConcurrent
      BY <2>2, PartFits, PlannerAssumption DEF Course, LiveFit
    <2>4. (dispatched' \cup plan' \cup live') \ unseen' = live \ unseen'
      BY <2>1
    <2> QED BY <2>1, <2>3, <2>4 DEF PlanFits
  <1>2. ASSUME NEW k \in Keys, Dispatch(k) PROVE PlanFits'
    <2>1. /\ pc = "dispatch" /\ dispatched' = dispatched \cup {k} /\ k \in left
          /\ UNCHANGED <<plan, live, stray, unseen>>
          /\ plan \subseteq unseen /\ live \cup stray \subseteq liveSeen \cup unseen
      BY <1>2 DEF Dispatch, loop, Course, LiveAreSeen
    <2>2. k \notin liveSeen
      BY <2>1 DEF Course, ChosenFit, Selectable
    <2> DEFINE U == left \cup dispatched \cup liveSeen
    <2> DEFINE V == (dispatched' \cup plan' \cup live') \ unseen'
    <2>3. Cardinality(U) <= MaxConcurrent
      BY <2>1, ChosenHaveRoom
    <2>4. U \in SUBSET Keys /\ V \in SUBSET U
      BY <2>1 DEF TInv, PassTyped
    <2> HIDE DEF U, V
    <2>5. Cardinality(V) <= MaxConcurrent
      BY <2>3, <2>4, PartFits, PlannerAssumption
    <2>6. (dispatched' \cup plan') \cap (live' \cup stray') \subseteq unseen'
      BY <2>1, <2>2 DEF PlanFits
    <2> QED BY <2>5, <2>6 DEF PlanFits, V
  <1>3. CASE Wrap
    BY <1>3, ShrinkingFits DEF Wrap, Over, PlanFits
  <1>4. CASE PassDies
    BY <1>4, ShrinkingFits DEF PassDies, Over, loop, PlanFits
  <1>5. CASE Surroundings
    <2>1. /\ UNCHANGED <<dispatched, unseen>> /\ plan' \subseteq plan
          /\ live' \cup plan' \subseteq live \cup plan
          /\ live' \cup stray' \subseteq live \cup stray \cup plan
          /\ live' \cup stray' \subseteq live \cup stray \/ plan' = {}
      BY <1>5, SurroundingsLoop DEF pass
    <2>2. dispatched = {} \/ plan \subseteq unseen
      BY DEF Course, Unplanned, LiveAreSeen
    <2>3. (dispatched' \cup plan') \cap (live' \cup stray') \subseteq unseen
      BY <2>1, <2>2 DEF PlanFits
    <2> QED BY <2>1, <2>3, ShrinkingFits
  <1>6. CASE \/ Discover \/ ReadAck \/ NoteAck \/ DeleteAck \/ LoadTickets \/ Reconcile \/ Select
             \/ Reclaim \/ UNCHANGED vars \/ \E k \in Keys : DispatchFails(k)
    <2>1. UNCHANGED <<dispatched, loop>>
      BY <1>6 DEF Discover, ReadAck, NoteAck, DeleteAck, LoadTickets, Reconcile, Select, Reclaim,
         DispatchFails, pass, vars
    <2> QED BY <2>1 DEF loop, PlanFits
  <1> QED
    BY <1>1, <1>2, <1>3, <1>4, <1>5, <1>6 DEF Next, PassStep

\* No step takes its worktree or its stamped open ticket from a planned key.
LEMMA PlansStayProvisioned ==
    ASSUME TInv, PInv, [Next]_vars PROVE PlanIsProvisioned'
  <1> USE DEF PInv
  <1>1. pc # "rest" => plan \subseteq unseen
    BY DEF Course, LiveAreSeen
  <1>2. pc \in {"rest", "inventory", "acks", "reconcile"} => dispatched = {}
    BY DEF Course, Unplanned
  <1>3. CASE Begin
    BY <1>2, <1>3 DEF Begin, PlanIsProvisioned
  <1>4. CASE Discover \/ ReadAck \/ NoteAck \/ DeleteAck \/ LoadTickets \/ Reconcile
    <2>1. /\ UNCHANGED <<dispatched, plan, unseen>> /\ dispatched = {}
          /\ pc # "rest"
      BY <1>2, <1>4 DEF Discover, ReadAck, NoteAck, DeleteAck, LoadTickets, Reconcile, loop, Course,
         HeldIsListed
    <2> QED BY <1>1, <2>1 DEF PlanIsProvisioned
  <1>5. CASE Select \/ \E k \in Keys : DispatchFails(k)
    BY <1>5 DEF Select, DispatchFails, loop, files, PlanIsProvisioned
  <1>6. ASSUME NEW k \in Keys, Dispatch(k) PROVE PlanIsProvisioned'
    <2>1. /\ k \in Selectable /\ snap[k] \in Tickets \cup {NoTicket}
          /\ ~Terminal(snap[k])
      BY <1>6 DEF Dispatch, Course, ChosenFit, Selectable, Eligible, Terminal, TInv, PassTyped
    <2>2. Stamped(snap[k]) \in Tickets /\ Stamped(snap[k]).running /\ Stamped(snap[k]).open
      BY <2>1, StampedIsRunning
    <2>3. Stamped(snap[k]) # NoTicket
      BY <2>2, NullAssumption
    <2> QED BY <1>6, <2>2, <2>3 DEF Dispatch, loop, PlanIsProvisioned, TInv, WorldTyped
  <1>7. CASE Reclaim
    <2>1. plan \subseteq unseen /\ dispatched \subseteq Active
      BY <1>1, <1>7 DEF Reclaim, Course, ChosenFit, Selectable, Eligible, Active, Terminal
    <2> QED BY <1>7, <2>1 DEF Reclaim, loop, PlanIsProvisioned
  <1>8. CASE Wrap \/ PassDies
    BY <1>8 DEF Wrap, PassDies, Over, loop, files, PlanIsProvisioned
  <1>9. CASE Feed \/ StopWorkers
    BY <1>9 DEF Feed, StopWorkers, files, pass, PlanIsProvisioned
  <1>10. ASSUME NEW k \in Keys, WorkerWrites(k) PROVE PlanIsProvisioned'
    <2>1. k \notin (dispatched \cup plan) \ unseen
      BY <1>10 DEF WorkerWrites, PlanFits
    <2> QED BY <1>10, <2>1 DEF WorkerWrites, loop, pass, PlanIsProvisioned, TInv, WorldTyped
  <1>11. ASSUME NEW k \in Keys, RemoveTicket(k) PROVE PlanIsProvisioned'
    <2>1. k \notin (dispatched \cup plan) \ unseen
      BY <1>11 DEF RemoveTicket, Terminal, PlanIsProvisioned
    <2> QED BY <1>11, <2>1 DEF RemoveTicket, loop, pass, PlanIsProvisioned, TInv, WorldTyped
  <1>12. CASE WithdrawAck \/ UNCHANGED vars
    BY <1>12 DEF WithdrawAck, vars, files, loop, pass, PlanIsProvisioned
  <1>13. ASSUME NEW k \in Keys, WorkerExits(k) \/ StrayExits(k) \/ SendAck(k) \/ IssueChanges(k)
         PROVE  PlanIsProvisioned'
    BY <1>13 DEF WorkerExits, StrayExits, SendAck, IssueChanges, files, loop, pass, PlanIsProvisioned
  <1> QED
    BY <1>3, <1>4, <1>5, <1>6, <1>7, <1>8, <1>9, <1>10, <1>11, <1>12, <1>13
       DEF Next, PassStep, Surroundings

\* Every step keeps the invariant.
LEMMA NextPInv == TInv /\ PInv /\ [Next]_vars => PInv'
  <1> SUFFICES ASSUME TInv, PInv, [Next]_vars PROVE PInv'
    OBVIOUS
  <1>1. Course'
    BY PassKeepsCourse, OthersKeepCourse DEF Next
  <1> QED BY <1>1, HeldStaysCurrent, SnapStaysCurrent, PlansStayProvisioned, PlansKeepFitting DEF PInv

-----------------------------------------------------------------------------
(* The theorems.                                                           *)

\* Whoever dies where, and whatever plan is acted on when: the files of a repository
\* and what a pass has loaded of them are well typed (planner/runPass.ts).
THEOREM PlannerTypes == Spec => []TypeOK
  <1>1. TInv => TypeOK
    BY TypeParts DEF TInv
  <1> QED BY <1>1, InitTInv, NextTInv, PTL DEF Spec

\* The invariant of the planner.
LEMMA PlannerInvariant == Spec => [](TInv /\ PInv)
  <1>1. TInv /\ PInv /\ [Next]_vars => (TInv /\ PInv)'
    BY NextTInv, NextPInv
  <1> QED BY <1>1, InitTInv, InitPInv, PTL DEF Spec

\* No write of a pass undoes another's: whenever plans are acted on and workers are
\* stopped, what it writes back is what it read, but for unseen keys, a note on
\* an ack, and a live key whose issue was closed or reopened.
THEOREM NothingIsOverwritten == Spec => NothingOverwritten
  <1> DEFINE Kept(k) == \/ ticket[k] = Base(k)
                        \/ ticket[k] = NoTicket /\ Terminal(Base(k))
                        \/ k \in unseen \ liveSeen
                        \/ k \in liveSeen /\ (pc = "acks" \/ Closed(k, snap[k]) \/ Reopened(k, snap[k]))
  <1>1. ASSUME TInv, PInv, [Next]_vars, NEW k \in Keys, ticket'[k] # ticket[k], pass' # pass
        PROVE  Kept(k)
    <2> USE <1>1 DEF PInv
    <2>1. NoteAck \/ Reconcile \/ \E j \in Keys : Dispatch(j)
      BY WritersOfThePass
    <2>2. CASE NoteAck
      <3>1. /\ held # NoAck /\ held.ack.key = k /\ pc = "acks"
        BY <2>2 DEF NoteAck, Course, HeldIsListed, TInv, WorldTyped
      <3> QED BY <3>1 DEF HeldIsCurrent, Base
    <2>3. pc # "acks" => Base(k) = snap[k]
      BY DEF Course, HeldIsListed, Base
    <2>4. CASE Reconcile
      <3>1. PICK j \in left, stale \in BOOLEAN, answered \in BOOLEAN :
              LET t == Reconciled(j, snap[j], stale, answered)
              IN  \/ UNCHANGED ticket
                  \/ t # snap[j] /\ ticket' = [ticket EXCEPT ![j] = t]
        BY <2>4 DEF Reconcile
      <3>2. /\ j = k /\ Reconciled(k, snap[k], stale, answered) # snap[k]
            /\ pc = "reconcile" /\ dispatched = {}
        BY <2>4, <3>1 DEF Reconcile, Course, Unplanned, TInv, WorldTyped
      <3>3. snap[k] \in Tickets
        BY <3>1, <3>2 DEF TInv, PassTyped, LeftAreLoaded
      <3>4. k \in liveSeen => Closed(k, snap[k]) \/ Reopened(k, snap[k])
        BY <3>2, <3>3, ReconciledIsTicket
      <3> QED BY <2>3, <3>2, <3>4 DEF SnapIsCurrent
    <2>5. ASSUME NEW j \in Keys, Dispatch(j) PROVE Kept(k)
      <3>1. j = k /\ pc = "dispatch" /\ k \in left
        BY <2>5 DEF Dispatch, TInv, WorldTyped
      <3>2. k \notin liveSeen /\ k \notin dispatched
        BY <3>1 DEF Course, ChosenFit, Selectable
      <3> QED BY <2>3, <3>1, <3>2 DEF SnapIsCurrent
    <2> QED BY <2>1, <2>2, <2>4, <2>5
  <1>2. TInv /\ PInv /\ [Next]_vars =>
          [\A k \in Keys : (ticket'[k] # ticket[k] /\ pass' # pass) => Kept(k)]_vars
    BY <1>1
  <1> QED BY <1>2, PlannerInvariant, PTL DEF Spec, NothingOverwritten

\* From the dispatch of a key to its spawn its worktree stands and its ticket is
\* open and stamped, for any number of tickets, acks and closed issues, unless
\* it was unseen.
THEOREM PlansAreProvisioned == Spec => []PlanIsProvisioned
  <1>1. PInv => PlanIsProvisioned
    BY DEF PInv
  <1> QED BY <1>1, PlannerInvariant, PTL

\* A plan names a key that works, or more keys than there are places, for unseen
\* keys only, for any cap and however passes and feeds follow on each other.
THEOREM PlansAlwaysFit == Spec => []PlanFits
  <1>1. PInv => PlanFits
    BY DEF PInv
  <1> QED BY <1>1, PlannerInvariant, PTL

\* A pass that parks the repository leaves no candidate but unseen ones that could
\* be dispatched: what it loaded is still on disk, and nothing selectable was
\* dropped silently.
THEOREM ParksOverNoWork == Spec => NeverParksOverWork
  <1> DEFINE Idle(k) == \/ ~Eligible(ticket[k], FALSE)
                        \/ ticket[k] = NoTicket /\ Terminal(snap[k])
  <1>1. ASSUME TInv, PInv, Wrap, Parks, NEW k \in candidates \ unseen PROVE Idle(k)
    <2>1. /\ dispatched = {} /\ deferred = {} /\ consumed = {} /\ liveSeen = {} /\ left = {}
          /\ pc = "wrap" /\ k \in Keys
      BY <1>1 DEF Parks, Wrap, PInv, Course, ChosenFit, TInv, PassTyped
    <2>2. k \notin Selectable
      BY <1>1, <2>1 DEF PInv, Course, ChosenFit
    <2>3. ~Eligible(snap[k], FALSE)
      BY <1>1, <2>1, <2>2 DEF Selectable, Eligible
    <2>4. ticket[k] = snap[k] \/ (ticket[k] = NoTicket /\ Terminal(snap[k]))
      BY <1>1, <2>1 DEF PInv, SnapIsCurrent
    <2> QED BY <2>3, <2>4
  <1>2. ASSUME [Next]_vars, parked' # parked PROVE Wrap /\ parked' = Parks
    BY <1>2 DEF Next, PassStep, PassDies, Surroundings, Begin, Discover, ReadAck, NoteAck, DeleteAck,
       LoadTickets, Reconcile, Select, Reclaim, Wrap, Dispatch, DispatchFails, Feed, StopWorkers,
       WithdrawAck, WorkerWrites, WorkerExits, StrayExits, SendAck, RemoveTicket, IssueChanges, loop, vars
  <1>3. TInv /\ PInv /\ [Next]_vars =>
          [(pc = "wrap" /\ parked' # parked /\ parked') => \A k \in candidates \ unseen : Idle(k)]_vars
    BY <1>1, <1>2
  <1> QED BY <1>3, PlannerInvariant, PTL DEF Spec, NeverParksOverWork

=============================================================================
