------------------------------ MODULE Planner ------------------------------
(***************************************************************************)
(* The planner pass of one repository (src/src/planner): trust gate and    *)
(* inventory, ack consumption, staleness and lifecycle reconcile, fair     *)
(* scheduling with stamp and worktree, worktree reclaim, orchestrator wrap.*)
(* A pass awaits the file system, git and the forge between its steps;     *)
(* the workers, the operator, the forge and the supervisor go on meanwhile.*)
(*                                                                         *)
(* Abstractions.  A ticket file keeps what the pass decides by: whether    *)
(* its phase is terminal, whether its health is waiting or blocked, the    *)
(* request it waits on (waitingOn and its `since'; a ticket that only has  *)
(* blockers makes a new request whenever its file is rewritten, and is     *)
(* left out), and whether its worker is stamped running.  updatedAt is a   *)
(* rank.  A ticket, its branch slug and its worktree have one key.  The    *)
(* reads and the write of one step on one key are atomic, except where a   *)
(* value read in an earlier step is written back: ack consumption and      *)
(* everything after the tickets are loaded.                                *)
(*                                                                         *)
(* Two things the code does not rule out are left out: a built-in pass     *)
(* that was killed and runs on beside the next (SupervisedRunner shows     *)
(* it), and a feed of an older plan (WorkerPool has those).                *)
(*                                                                         *)
(* A definition named Mut... is the one after it with a plausible bug: it  *)
(* is no part of the specification and shows that a property notices.      *)
(***************************************************************************)
EXTENDS Naturals, FiniteSets

CONSTANTS
    Keys,          \* ticket keys
    MaxConcurrent, \* the cap on live workers
    Requests,      \* identities of requests to the operator in use at one time
    NoRequest,     \* the ticket waits on nothing
    NoTicket,      \* there is no ticket file
    NoAck,         \* no ack is being consumed
    Asking,        \* keys whose worker may stop to wait on the operator
    Closable,      \* keys whose forge issue may be closed and reopened
    Broken,        \* keys for which git can never provide a worktree
    Lingering,     \* keys whose killed worker may take its time to die
    Dated          \* updatedAt is kept; when it is not, any file may be the oldest

ASSUME PlannerAssumption ==
    /\ IsFiniteSet(Keys)
    /\ MaxConcurrent \in Nat
    /\ NoRequest \notin Requests
    /\ Asking \subseteq Keys
    /\ Closable \subseteq Keys
    /\ Broken \subseteq Keys
    /\ Lingering \subseteq Keys
    /\ Dated \in BOOLEAN

Tickets == [open : BOOLEAN, idle : BOOLEAN,
            request : Requests \cup {NoRequest}, running : BOOLEAN]

Acks == [key : Keys, request : Requests]
Held == [ack : Acks, ticket : Tickets, noted : BOOLEAN]

ASSUME NullAssumption == NoTicket \notin Tickets /\ NoAck \notin Held

VARIABLES
    issue,      \* the forge: "open", "closed" or "reopened" (open again)
    ticket,     \* tickets/<key>.json
    rank,       \* the order of the files by updatedAt, 0 without a file or a date
    inbox,      \* the ack files
    trees,      \* keys with a linked worktree
    plan,       \* keys in orchestrator.json that were not acted on yet
    parked,     \* the last wrapped pass declared the repository parked
    live,       \* keys in the supervisor's map of live workers
    stray,      \* keys with a worker process that the map does not hold
    unseen,     \* history: keys that had a worker still to be spawned, or one
                \* outside the map, when the pass asked which keys are live
    pc,         \* the step the pass is at, "rest" between passes
    liveSeen,   \* input.liveWorkerKeys
    candidates, \* the candidate keys
    listed,     \* acks of this pass that were not consumed yet
    held,       \* the ack being consumed and the ticket read for it
    consumed,   \* state.consumed
    snap,       \* state.tickets
    snapRank,   \* their order by updatedAt
    left,       \* keys still to be reconciled, then items still to be dispatched
    dispatched, \* keys of this pass's plan
    deferred    \* report.deferred

files  == <<ticket, rank, inbox, trees>>
loop   == <<plan, parked, live, stray, unseen>>
pass   == <<pc, liveSeen, candidates, listed, held, consumed, snap, snapRank, left,
            dispatched, deferred>>
vars   == <<issue, files, loop, pass>>

Steps == {"rest", "inventory", "acks", "reconcile", "dispatch", "wrap"}

TypeOK ==
    /\ issue \in [Keys -> {"open", "closed", "reopened"}]
    /\ ticket \in [Keys -> Tickets \cup {NoTicket}]
    /\ rank \in [Keys -> Nat]
    /\ inbox \subseteq Acks
    /\ trees \subseteq Keys
    /\ plan \subseteq Keys
    /\ parked \in BOOLEAN
    /\ live \subseteq Keys
    /\ stray \subseteq Keys
    /\ unseen \subseteq Keys
    /\ pc \in Steps
    /\ liveSeen \subseteq Keys
    /\ candidates \subseteq Keys
    /\ listed \subseteq Acks
    /\ held \in Held \cup {NoAck}
    /\ consumed \subseteq Keys
    /\ snap \in [Keys -> Tickets \cup {NoTicket}]
    /\ snapRank \in [Keys -> Nat]
    /\ left \subseteq Keys
    /\ dispatched \subseteq Keys
    /\ deferred \subseteq Keys

NoTickets == [k \in Keys |-> NoTicket]
NoRanks   == [k \in Keys |-> 0]

Init ==
    /\ issue \in [Keys -> {"open", "closed"}]
    /\ ticket = NoTickets
    /\ rank = NoRanks
    /\ inbox = {}
    /\ trees = {}
    /\ plan = {}
    /\ parked = FALSE
    /\ live = {}
    /\ stray = {}
    /\ unseen = {}
    /\ pc = "rest"
    /\ liveSeen = {}
    /\ candidates = {}
    /\ listed = {}
    /\ held = NoAck
    /\ consumed = {}
    /\ snap = NoTickets
    /\ snapRank = NoRanks
    /\ left = {}
    /\ dispatched = {}
    /\ deferred = {}

-----------------------------------------------------------------------------
(* Ticket files.                                                           *)

\* k has no file any more.
Forget(r, k) ==
    [j \in Keys |-> IF j = k THEN 0
                    ELSE IF 0 < r[k] /\ r[k] < r[j] THEN r[j] - 1
                    ELSE r[j]]

\* The number of files ranked by r.
Ranked(r) == Cardinality({j \in Keys : r[j] > 0})

\* updatedAt = now: k becomes the newest of the files ranked by r.
Touch(r, k) ==
    LET others == Forget(r, k)
    IN  IF Dated THEN [others EXCEPT ![k] = Ranked(others) + 1] ELSE others

\* A file that was gone is back with an old updatedAt, in place p.
Revive(r, k, p) ==
    IF Dated THEN [j \in Keys |-> IF j = k THEN p ELSE IF r[j] >= p THEN r[j] + 1 ELSE r[j]]
             ELSE r

Terminal(t) == t # NoTicket /\ ~t.open

\* newTicket(): phase planning, health ok, no worker.
Fresh == [open |-> TRUE, idle |-> FALSE, request |-> NoRequest, running |-> FALSE]

\* stamped(): running as of now; the health stays what it was.
Stamped(t) == [(IF t = NoTicket THEN Fresh ELSE t) EXCEPT !.running = TRUE]

\* ackMatchesTicket(): the ack answers the request the ticket still makes.
Matches(a, t) == t.request # NoRequest /\ t.request = a.request

-----------------------------------------------------------------------------
(* Inventory and acks.                                                     *)

\* The host asks the supervisor which keys are live and starts the pass.  The
\* last plan may not have been acted on: a follow-up pass starts as soon as the
\* last one ended, and without an approved worker entry a plan is never taken.
Begin ==
    /\ pc = "rest"
    /\ pc' = "inventory"
    /\ liveSeen' = live
    /\ unseen' = plan \cup stray
    /\ UNCHANGED <<issue, files, plan, parked, live, stray, candidates, listed, held,
                   consumed, snap, snapRank, left, dispatched, deferred>>

\* The labelled open issues and the epics' tracking tickets; then the inbox.
Discover ==
    /\ pc = "inventory"
    /\ pc' = "acks"
    /\ candidates' = {k \in Keys : issue[k] # "closed"}
    /\ listed' = inbox
    /\ UNCHANGED <<issue, files, loop, liveSeen, held, consumed, snap, snapRank, left,
                   dispatched, deferred>>

MutReadAck ==                             \* no test for the missing ticket
    /\ pc = "acks"
    /\ held = NoAck
    /\ \E a \in listed :
        /\ listed' = listed \ {a}
        /\ held' = [ack |-> a, ticket |-> ticket[a.key], noted |-> FALSE]
    /\ UNCHANGED <<issue, files, loop, pc, liveSeen, candidates, consumed, snap, snapRank,
                   left, dispatched, deferred>>

\* consumeOne(), the read: an ack without a ticket file is an orphan.
ReadAck ==
    /\ pc = "acks"
    /\ held = NoAck
    /\ \E a \in listed :
        /\ listed' = listed \ {a}
        /\ \/ /\ ticket[a.key] = NoTicket
              /\ inbox' = inbox \ {a}
              /\ UNCHANGED held
           \/ /\ ticket[a.key] # NoTicket
              /\ held' = [ack |-> a, ticket |-> ticket[a.key], noted |-> FALSE]
              /\ UNCHANGED inbox
    /\ UNCHANGED <<issue, ticket, rank, trees, loop, pc, liveSeen, candidates,
                   consumed, snap, snapRank, left, dispatched, deferred>>

\* appendHistory(): the ticket as it was read is written back with one more
\* history entry, which leaves updatedAt alone.
NoteAck ==
    /\ held # NoAck
    /\ ~held.noted
    /\ ticket' = [ticket EXCEPT ![held.ack.key] = held.ticket]
    /\ \/ /\ ticket[held.ack.key] # NoTicket
          /\ UNCHANGED rank
       \/ /\ ticket[held.ack.key] = NoTicket
          /\ \E p \in 1..Ranked(rank) + 1 : rank' = Revive(rank, held.ack.key, p)
    /\ held' = [held EXCEPT !.noted = TRUE]
    /\ UNCHANGED <<issue, inbox, trees, loop, pc, liveSeen, candidates, listed,
                   consumed, snap, snapRank, left, dispatched, deferred>>

\* The history is on disk: the ack file goes, and a match is consumed.
DeleteAck ==
    /\ held # NoAck
    /\ held.noted
    /\ inbox' = inbox \ {held.ack}
    /\ consumed' = IF Matches(held.ack, held.ticket) THEN consumed \cup {held.ack.key}
                                                      ELSE consumed
    /\ held' = NoAck
    /\ UNCHANGED <<issue, ticket, rank, trees, loop, pc, liveSeen, candidates, listed,
                   snap, snapRank, left, dispatched, deferred>>

LoadTickets ==
    /\ pc = "acks"
    /\ listed = {}
    /\ held = NoAck
    /\ pc' = "reconcile"
    /\ snap' = ticket
    /\ snapRank' = rank
    /\ left' = {k \in Keys : ticket[k] # NoTicket}
    /\ UNCHANGED <<issue, files, loop, liveSeen, candidates, listed, held, consumed,
                   dispatched, deferred>>

-----------------------------------------------------------------------------
(* Staleness and lifecycle reconcile.                                      *)

MutPresumedCrashed(k, t, stale) ==        \* the supervisor is not asked
    t.running /\ stale

\* reconcileStaleness(): presumed crashed, unless the supervisor runs it.
PresumedCrashed(k, t, stale) == k \notin liveSeen /\ t.running /\ stale

\* reconcileReopened() and reconcileClosed(), from the forge's answer.
Reopened(k, t) == k \in candidates /\ ~t.open /\ issue[k] = "reopened"
Closed(k, t)   == k \notin candidates /\ t.open /\ issue[k] = "closed"

\* The file after the three tests.  `stale' is whether its heartbeat is older than
\* staleWorkerMinutes, which time may have made of any; `answered' is false when
\* the forge lookup failed, which closes and reopens nothing.
Reconciled(k, t, stale, answered) ==
    [t EXCEPT !.running = t.running /\ ~PresumedCrashed(k, t, stale),
              !.open = IF answered /\ Reopened(k, t) THEN TRUE
                       ELSE t.open /\ ~(answered /\ Closed(k, t)),
              !.idle = t.idle /\ ~(answered /\ (Reopened(k, t) \/ Closed(k, t)))]

\* One key is reconciled; a changed ticket is written from the loaded copy.
Reconcile ==
    /\ pc = "reconcile"
    /\ \E k \in left, stale \in BOOLEAN, answered \in BOOLEAN :
        LET t == Reconciled(k, snap[k], stale, answered)
        IN  /\ left' = left \ {k}
            /\ \/ /\ t = snap[k]
                  /\ UNCHANGED <<ticket, rank, snap, snapRank>>
               \/ /\ t # snap[k]
                  /\ ticket' = [ticket EXCEPT ![k] = t]
                  /\ rank' = Touch(rank, k)
                  /\ snap' = [snap EXCEPT ![k] = t]
                  /\ snapRank' = Touch(snapRank, k)
    /\ UNCHANGED <<issue, inbox, trees, loop, pc, liveSeen, candidates, listed, held,
                   consumed, dispatched, deferred>>

-----------------------------------------------------------------------------
(* Fair scheduling.                                                        *)

\* eligible(): the operator gate.
Eligible(t, acked) ==
    \/ t = NoTicket
    \/ t.open /\ (t.idle => acked)

Selectable == {k \in candidates \ liveSeen : Eligible(snap[k], k \in consumed)}

MutBefore(j, k) ==                        \* updatedAt is not compared
    j \in consumed /\ k \notin consumed

\* ordered(): ack-consumers first, then the oldest; ties are broken either way.
Before(j, k) ==
    \/ j \in consumed /\ k \notin consumed
    \/ /\ j \in consumed <=> k \in consumed
       /\ snapRank[j] < snapRank[k]

MutFree == MaxConcurrent                  \* the live workers are not counted

\* Free worker slots.
Free == IF Cardinality(liveSeen) < MaxConcurrent
        THEN MaxConcurrent - Cardinality(liveSeen) ELSE 0

\* The first `Free' selectable keys are taken, the others deferred.
Select ==
    /\ pc = "reconcile"
    /\ left = {}
    /\ \E chosen \in SUBSET Selectable :
        /\ Cardinality(chosen) <= Free
        /\ chosen # Selectable => Cardinality(chosen) = Free
        /\ \A j \in Selectable \ chosen, k \in chosen : ~Before(j, k)
        /\ left' = chosen
        /\ deferred' = Selectable \ chosen
    /\ pc' = "dispatch"
    /\ UNCHANGED <<issue, files, loop, liveSeen, candidates, listed, held, consumed, snap,
                   snapRank, dispatched>>

\* dispatchOne() succeeds: worktree first, then the stamp, from the loaded copy.
Dispatch(k) ==
    /\ pc = "dispatch"
    /\ k \in left \ Broken
    /\ \A j \in left : ~Before(j, k)
    /\ left' = left \ {k}
    /\ trees' = trees \cup {k}
    /\ ticket' = [ticket EXCEPT ![k] = Stamped(snap[k])]
    /\ rank' = Touch(rank, k)
    /\ dispatched' = dispatched \cup {k}
    /\ UNCHANGED <<issue, inbox, loop, pc, liveSeen, candidates, listed, held, consumed,
                   snap, snapRank, deferred>>

\* It fails, without a worktree or after it was made, and is deferred.
DispatchFails(k) ==
    /\ pc = "dispatch"
    /\ k \in left
    /\ \A j \in left : ~Before(j, k)
    /\ left' = left \ {k}
    /\ \/ UNCHANGED trees
       \/ k \notin Broken /\ trees' = trees \cup {k}
    /\ deferred' = deferred \cup {k}
    /\ UNCHANGED <<issue, ticket, rank, inbox, loop, pc, liveSeen, candidates, listed,
                   held, consumed, snap, snapRank, dispatched>>

-----------------------------------------------------------------------------
(* Reclaim and wrap.                                                       *)

MutActive ==                              \* a candidate without a file is not active
    {k \in Keys : snap[k] # NoTicket /\ snap[k].open}

\* activeSlugs().
Active ==
    {k \in candidates : ~Terminal(snap[k])}
        \cup {k \in Keys : snap[k] # NoTicket /\ snap[k].open}

\* Worktrees that back no active work are removed; a removal may fail.
Reclaim ==
    /\ pc = "dispatch"
    /\ left = {}
    /\ pc' = "wrap"
    /\ \E gone \in SUBSET (trees \ Active) : trees' = trees \ gone
    /\ UNCHANGED <<issue, ticket, rank, inbox, loop, liveSeen, candidates, listed,
                   held, consumed, snap, snapRank, left, dispatched, deferred>>

\* operatorWaiting().
OperatorWaiting(t) == t # NoTicket /\ t.request # NoRequest

MutParks ==                               \* deferred items do not count
    /\ dispatched = {} /\ consumed = {}
    /\ liveSeen = {}

\* computeParked(): nothing ran, nothing is queued, nothing is in flight, and
\* every active candidate waits on the operator.
Parks ==
    /\ dispatched = {} /\ deferred = {} /\ consumed = {}
    /\ liveSeen = {}
    /\ \A k \in candidates : Terminal(snap[k]) \/ OperatorWaiting(snap[k])

\* The variables of a pass that is over.
Over ==
    /\ pc' = "rest"
    /\ liveSeen' = {}
    /\ candidates' = {}
    /\ listed' = {}
    /\ held' = NoAck
    /\ consumed' = {}
    /\ snap' = NoTickets
    /\ snapRank' = NoRanks
    /\ left' = {}
    /\ dispatched' = {}
    /\ deferred' = {}

\* wrapPass(): orchestrator.json is replaced.
Wrap ==
    /\ pc = "wrap"
    /\ plan' = dispatched
    /\ parked' = Parks
    /\ Over
    /\ UNCHANGED <<issue, files, live, stray, unseen>>

\* The trust gate refuses, a port throws, or the planner process dies: the
\* pass ends where it is, and what it wrote stays.
PassDies ==
    /\ pc # "rest"
    /\ Over
    /\ UNCHANGED <<issue, files, loop>>

-----------------------------------------------------------------------------
(* The supervisor and its workers (WorkerPool has the detail).             *)

\* The plan reaches the supervisor, which spawns what fits under the cap.
Feed ==
    /\ plan # {}
    /\ plan' = {}
    /\ \E S \in SUBSET (plan \ live) :
        /\ S # {} => Cardinality(live \cup S) <= MaxConcurrent
        /\ live' = live \cup S
    /\ UNCHANGED <<issue, files, parked, stray, unseen, pass>>

\* Requests that no ticket, ack or pass still refers to for key k.
FreshRequests(k) ==
    Requests \ ({t.request : t \in {ticket[k], snap[k]} \ {NoTicket}}
                  \cup {a.request : a \in {b \in inbox \cup listed : b.key = k}}
                  \cup {h.ack.request : h \in {held} \ {NoAck}})

\* What a worker may write: it works on, ends its run with or without a request
\* to the operator, or finishes the ticket.
WorkerTickets(k) ==
    [open : {TRUE}, idle : {FALSE}, request : {NoRequest}, running : BOOLEAN]
      \cup {t \in [open : {TRUE}, idle : {TRUE}, request : FreshRequests(k), running : {FALSE}] :
               k \in Asking}
      \cup {t \in {[Fresh EXCEPT !.open = FALSE]} : k \in Closable}

\* A worker writes until its process is gone, told to stop or not.
WorkerWrites(k) ==
    /\ k \in live \cup stray
    /\ ticket[k] # NoTicket
    /\ \E t \in WorkerTickets(k) : ticket' = [ticket EXCEPT ![k] = t]
    /\ rank' = Touch(rank, k)
    /\ UNCHANGED <<issue, inbox, trees, loop, pass>>

\* It exits, is killed or crashes, with whatever it last wrote.
WorkerExits(k) ==
    /\ k \in live
    /\ live' = live \ {k}
    /\ UNCHANGED <<issue, files, plan, parked, stray, unseen, pass>>

\* stopWorkers(): the workers are killed and leave the map before they die.
StopWorkers ==
    /\ live # {}
    /\ live' = {}
    /\ stray' = stray \cup (live \cap Lingering)
    /\ UNCHANGED <<issue, files, plan, parked, unseen, pass>>

\* A worker outside the map exits (a step that changes nothing when it was not the
\* last one of its key).  onDone() deletes by key: an entry that a newer worker
\* has by then goes, and the newer worker is outside the map in its turn.
StrayExits(k) ==
    /\ k \in stray
    /\ live' = live \ {k}
    /\ stray' = IF k \in live THEN stray ELSE stray \ {k}
    /\ UNCHANGED <<issue, files, plan, parked, unseen, pass>>

-----------------------------------------------------------------------------
(* The operator and the forge.                                             *)

\* "Ready for another look", and taking it back.
SendAck(k) ==
    /\ ticket[k] # NoTicket
    /\ ticket[k].request # NoRequest
    /\ inbox' = inbox \cup {[key |-> k, request |-> ticket[k].request]}
    /\ inbox' # inbox
    /\ UNCHANGED <<issue, ticket, rank, trees, loop, pass>>

WithdrawAck ==
    /\ \E a \in inbox : inbox' = inbox \ {a}
    /\ UNCHANGED <<issue, ticket, rank, trees, loop, pass>>

\* Remove on a settled card: a terminal phase (a worker writes the health `done'
\* only together with one).
RemoveTicket(k) ==
    /\ Terminal(ticket[k])
    /\ ticket' = [ticket EXCEPT ![k] = NoTicket]
    /\ rank' = Forget(rank, k)
    /\ UNCHANGED <<issue, inbox, trees, loop, pass>>

IssueChanges(k) ==
    /\ k \in Closable
    /\ issue' = [issue EXCEPT ![k] = IF @ = "closed" THEN "reopened" ELSE "closed"]
    /\ UNCHANGED <<files, loop, pass>>

-----------------------------------------------------------------------------
PassStep ==
    \/ Begin \/ Discover \/ ReadAck \/ NoteAck \/ DeleteAck \/ LoadTickets
    \/ Reconcile \/ Select \/ Reclaim \/ Wrap
    \/ \E k \in Keys : Dispatch(k) \/ DispatchFails(k)

Surroundings ==
    \/ Feed \/ StopWorkers \/ WithdrawAck
    \/ \E k \in Keys : \/ WorkerWrites(k) \/ WorkerExits(k) \/ StrayExits(k)
                       \/ SendAck(k) \/ RemoveTicket(k) \/ IssueChanges(k)

Next == PassStep \/ PassDies \/ Surroundings

Spec == Init /\ [][Next]_vars

\* Passes keep running, from some point on none dies before it wrapped, and a
\* worktree that git can provide is provided in the end; the supervisor is fed;
\* its timeout ends every worker.
Fairness ==
    /\ WF_vars(PassStep)
    /\ WF_vars(Feed)
    /\ <>[][PassDies => Wrap]_vars
    /\ \A k \in Keys : /\ WF_vars(WorkerExits(k)) /\ WF_vars(StrayExits(k))
                      /\ SF_vars(Dispatch(k))

FairSpec == Spec /\ Fairness

-----------------------------------------------------------------------------
(* Safety.  A pass cannot know of the unseen keys: their workers are still *)
(* to be spawned, or run outside the map it asks.                          *)

\* The copy of k's ticket that the pass writes back.
Base(k) == IF held # NoAck THEN held.ticket ELSE snap[k]

\* No write of a pass undoes what another wrote since the pass read the file, the
\* operator's removal of a settled one excepted: reading the live keys before
\* the tickets keeps every stale copy of a live key from being written, but for
\* the note on an ack and for the closure or reopening of its issue, which
\* rewrite the ticket of a working worker from the copy that was loaded.
NothingOverwritten ==
    [][ \A k \in Keys :
          (ticket'[k] # ticket[k] /\ pass' # pass) =>
              \/ ticket[k] = Base(k)
              \/ ticket[k] = NoTicket /\ Terminal(Base(k))
              \/ k \in unseen \ liveSeen
              \/ k \in liveSeen /\ (pc = "acks" \/ Closed(k, snap[k]) \/ Reopened(k, snap[k])) ]_vars

\* Until the supervisor takes a planned key over, its worktree stands and its
\* ticket is open and stamped: no reclaim, closure or removal takes them away
\* between the dispatch and the spawn.
PlanIsProvisioned ==
    \A k \in (dispatched \cup plan) \ unseen :
        /\ k \in trees
        /\ ticket[k] # NoTicket
        /\ ticket[k].open
        /\ ticket[k].running

\* A planned key has no worker yet, and there is a place for each: only a key the
\* pass could not know of is planned while it works or stamped running beyond
\* the cap.
PlanFits ==
    /\ (dispatched \cup plan) \cap (live \cup stray) \subseteq unseen
    /\ Cardinality((dispatched \cup plan \cup live) \ unseen) <= MaxConcurrent

\* Parking never hides work: when a pass declares the repository parked, none of
\* its candidates could be dispatched, except one whose settled file the
\* operator removed under way and the ones it could not know of.
NeverParksOverWork ==
    [][ (pc = "wrap" /\ parked' # parked /\ parked') =>
          \A k \in candidates \ unseen :
              \/ ~Eligible(ticket[k], FALSE)
              \/ ticket[k] = NoTicket /\ Terminal(snap[k]) ]_vars

(* Liveness.                                                               *)

Ready(k) == issue[k] # "closed" /\ Eligible(ticket[k], FALSE) /\ k \notin live

\* "... oldest updatedAt first so nothing starves": a key that could be
\* dispatched is, sooner or later, unless git never provides its worktree.
NoStarvation == \A k \in Keys \ Broken : Ready(k) ~> k \in plan \/ ~Ready(k)

(* What the documentation and the comments promise and the code does not   *)
(* keep.                                                                   *)

\* "Defer the failed key (it stays a candidate, retried next pass)": a deferred
\* key could be dispatched by the next pass.
DeferredIsRetried ==
    pc = "wrap" =>
        \A k \in deferred :
            Eligible(ticket[k], \E a \in inbox : a.key = k /\ Matches(a, ticket[k]))

\* "a ticket file has at most one writing process tree at a time -- planner then
\* worker, never both at once".
OneWriterPerTicket ==
    [][ pass' # pass => \A k \in live \cup stray : ticket'[k] = ticket[k] ]_vars

\* "the planner only re-lists a key once its worker has exited": a pass that starts
\* before the last plan was acted on does not see its workers as live, and finds
\* their stamped tickets eligible again.
ListedHasExited == plan \cap live = {}

=============================================================================
