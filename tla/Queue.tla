------------------------------- MODULE Queue -------------------------------
(***************************************************************************)
(* The queue of one repository in the extension host: what a reload and a  *)
(* push make of the ticket files (controller.ts, queueModel.ts, lane.ts,   *)
(* prRows.ts) and which toasts a push raises (notifications.ts).           *)
(*                                                                         *)
(* Abstractions.  A ticket is what lanes, ranks and buttons depend on.     *)
(* Phase "merged" stands for merged and abandoned, "work" for the phases   *)
(* but fixing; `blocked' is health blocked or a blocker; a ticket has at   *)
(* most one pull request, the one a review is asked for.  A file that does *)
(* not parse and one of a newer schema are Corrupt.  The acks of a ticket  *)
(* are summarised by the newest: pending, picked up and still matching the *)
(* request, left over by a pass (stale), or spent; AckLifecycle has their  *)
(* detail.  Time is `late': the ticket was written longer ago than a        *)
(* heartbeat, or a settled ticket, is given, or the ack longer ago than    *)
(* two ticks.  Toasts are all switched on.  A reload reads the directory in    *)
(* one step; WorkerPool has reads that overlap.                            *)
(*                                                                         *)
(* A definition named Mut... is the one after it with a plausible bug.     *)
(***************************************************************************)
EXTENDS Naturals, FiniteSets

CONSTANTS
    Keys,    \* ticket keys, as numbers in the order of the last tie-break
    Tickets, \* the tickets that may be on disk
    Acks,    \* the acks that may be on disk: subset of AckKinds
    Forge,   \* what the forge may say of a ticket's pull request
    Late,    \* what may get late: subset of {"ticket", "ack"}
    Failures, \* {TRUE} if the loop may use up its restarts, {} if not
    Absent,  \* no such file
    Corrupt, \* a file that cannot be read as a ticket
    NoInfo,  \* the pull request is not enriched, or deleted on the forge
    NoLoad,  \* repo.state before the first reload
    NoCards  \* lastState before the first push

Waiting  == {"none", "build", "comment", "owner", "review", "merge"}
Pr       == [state : {"none", "open", "merged"}, ci : {"none", "passing", "failing"}]
Ticket   == [phase : {"work", "fixing", "merged"}, health : {"ok", "done"},
             blocked : BOOLEAN, waiting : Waiting, since : Nat,
             worker : {"none", "idle", "running", "error"}, pr : Pr]
\* Pull request, requested reviewers, and whether the forge knows who "me" is.
Info     == [pr : Pr, asked : SUBSET {"me", "other"}, viewer : BOOLEAN]
AckKinds == {"none", "pending", "picked-up", "stale", "spent"}
Honored  == {"pending", "picked-up"}

ASSUME QueueAssumption ==
    /\ Keys \subseteq Nat \ {0} /\ IsFiniteSet(Keys)
    /\ Tickets \subseteq Ticket /\ {"none", "pending"} \subseteq Acks /\ Acks \subseteq AckKinds
    /\ Forge \subseteq Info /\ NoInfo \notin Forge
    /\ Late \subseteq {"ticket", "ack"} /\ Failures \subseteq {TRUE}
    /\ Absent \notin Tickets /\ Corrupt \notin Tickets /\ Absent # Corrupt

\* The ticket file and the inbox of one key, and which of them is late.
Files == [ticket : Tickets \cup {Absent, Corrupt}, ack : Acks, late : SUBSET Late]
Disks == [Keys -> Files]

\* The one card that is no ticket: the loop that used up its restarts.
Launcher == 0
Ids == Keys \cup {Launcher}

Reasons == {"launcher-failed", "worker-crashed", "stale-ack", "blocked", "owner",
            "review", "merge", "orphaned-ci", "degraded"}
Lanes   == {"needs-you", "waiting", "quiet"}

\* REASON_RANK, and the ranks of the lanes without a reason.
Rank == [r \in Reasons \cup {"waiting", "acked", "quiet"} |->
    CASE r = "launcher-failed" -> 0 [] r = "worker-crashed" -> 1 [] r = "stale-ack" -> 2
      [] r = "blocked" -> 3 [] r = "owner" -> 4 [] r = "review" -> 5 [] r = "merge" -> 6
      [] r = "orphaned-ci" -> 7 [] r = "degraded" -> 8
      [] r = "waiting" -> 50 [] r = "acked" -> 60 [] r = "quiet" -> 90]

Card == [lane : Lanes, reason : Reasons \cup {"none"}, rank : {Rank[r] : r \in DOMAIN Rank},
         age : Nat, chip : AckKinds, ackable : BOOLEAN, hidden : BOOLEAN]

ASSUME QueueNulls == \A S \in SUBSET Ids : NoCards \notin [S -> Card]

VARIABLES
    disk,    \* tickets/ and inbox/
    overlay, \* the enricher's cache, by ticket
    failed,  \* the supervisor reports a loop as failed
    loaded,  \* repo.state
    dirty,   \* reloadTimer is armed
    armed,   \* pushTimer is armed
    last,    \* lastState.cards
    told     \* history: the reason the last toast of a card gave, while it lasts

host == <<disk, overlay, failed, loaded, dirty, armed, last, told>>

TypeOK ==
    /\ disk \in Disks /\ failed \in BOOLEAN
    /\ overlay \in [Keys -> Forge \cup {NoInfo}]
    /\ loaded \in Disks \cup {NoLoad} /\ dirty \in BOOLEAN /\ armed \in BOOLEAN
    /\ last = NoCards \/ (DOMAIN last \subseteq Ids /\ \A i \in DOMAIN last : last[i] \in Card)
    /\ told \in [Ids -> Reasons \cup {"none"}]

-----------------------------------------------------------------------------
(* Lanes.                                                                  *)

IsQuiet(t) == t.phase = "merged" \/ t.health = "done"

WorkerCrashed(f) ==
    \/ f.ticket.worker = "error"
    \/ f.ticket.worker = "running" /\ "ticket" \in f.late

\* An ack that nobody took for too long is stale without any pass.
AckState(f) == IF f.ack = "pending" /\ "ack" \in f.late THEN "stale" ELSE f.ack

MutReviewIsSomeoneElses(k) ==
    overlay[k] # NoInfo /\ overlay[k].viewer /\ "me" \notin overlay[k].asked

\* The review is asked of others, and of me as well if that cannot be told.
ReviewIsSomeoneElses(k) ==
    /\ overlay[k] # NoInfo /\ overlay[k].viewer
    /\ overlay[k].asked # {} /\ "me" \notin overlay[k].asked

\* The row of the pull request: the forge's view where there is one.
PrRow(k, t) == IF t.pr.state # "none" /\ overlay[k] # NoInfo THEN overlay[k].pr ELSE t.pr

OrphanedFailingCi(k, t) ==
    /\ t.worker \in {"none", "idle"} /\ t.phase # "fixing"
    /\ PrRow(k, t).state = "open" /\ PrRow(k, t).ci = "failing"

\* What the operator is asked and could answer with an ack.
Asked(k, t) ==
    IF t.blocked THEN {"blocked"}
    ELSE IF t.waiting \in {"owner", "comment"} THEN {"owner"}
    ELSE IF t.waiting = "review" /\ ~(t.pr.state # "none" /\ ReviewIsSomeoneElses(k)) THEN {"review"}
    ELSE IF t.waiting = "merge" THEN {"merge"}
    ELSE {}

\* Every reason there is; needsYouReason() looks for them in the order of rank.
NeedsYou(k, f) ==
    (IF WorkerCrashed(f) THEN {"worker-crashed"} ELSE {})
        \cup (IF AckState(f) = "stale" THEN {"stale-ack"} ELSE {})
        \cup (IF AckState(f) \notin Honored THEN Asked(k, f.ticket) ELSE {})
        \cup (IF OrphanedFailingCi(k, f.ticket) THEN {"orphaned-ci"} ELSE {})

First(R) == CHOOSE r \in R : \A s \in R : Rank[r] <= Rank[s]

-----------------------------------------------------------------------------
(* Cards.                                                                  *)

\* deriveAckControl(): something to answer, and no ack that answers it or waits.
Ackable(f) ==
    /\ f.ticket.waiting # "none" \/ f.ticket.blocked
    /\ AckState(f) \notin Honored \cup {"stale"}

SettledCard(f) ==
    [lane |-> "quiet", reason |-> "none", rank |-> Rank["quiet"], age |-> f.ticket.since,
     chip |-> AckState(f), ackable |-> Ackable(f), hidden |-> "ticket" \in f.late]

TicketCard(k, f) ==
    LET R == NeedsYou(k, f)
        acked == AckState(f) \in Honored
    IN IF IsQuiet(f.ticket) THEN SettledCard(f)
       ELSE [lane    |-> IF R # {} THEN "needs-you" ELSE "waiting",
             reason  |-> IF R # {} THEN First(R) ELSE "none",
             rank    |-> IF R # {} THEN Rank[First(R)] ELSE Rank[IF acked THEN "acked" ELSE "waiting"],
             age     |-> f.ticket.since,
             chip    |-> AckState(f),
             ackable |-> Ackable(f), hidden |-> FALSE]

\* A card without a ticket: degraded, or the failed loop.
Alarm(r) == [lane |-> "needs-you", reason |-> r, rank |-> Rank[r], age |-> 0,
             chip |-> "none", ackable |-> FALSE, hidden |-> FALSE]

CardOf(k, f) == IF f.ticket = Corrupt THEN Alarm("degraded") ELSE TicketCard(k, f)

Present(d) == {k \in Keys : d[k].ticket # Absent}

\* buildDisplayState(): a repository that is not loaded yet has no cards.
Cards ==
    LET D == IF loaded = NoLoad THEN {} ELSE Present(loaded)
        L == IF failed THEN {Launcher} ELSE {}
    IN [i \in D \cup L |-> IF i = Launcher THEN Alarm("launcher-failed") ELSE CardOf(i, loaded[i])]

LaneOrder == [l \in Lanes |-> CASE l = "needs-you" -> 0 [] l = "waiting" -> 1 [] l = "quiet" -> 2]

\* sortCards(): lane, rank, then oldest first (of settled tickets newest), then key.
Before(C, i, j) ==
    LET c == C[i]
        d == C[j]
        age == IF c.lane = "quiet" THEN d.age < c.age ELSE c.age < d.age
    IN \/ LaneOrder[c.lane] < LaneOrder[d.lane]
       \/ c.lane = d.lane /\ c.rank < d.rank
       \/ c.lane = d.lane /\ c.rank = d.rank /\ age
       \/ c.lane = d.lane /\ c.rank = d.rank /\ c.age = d.age /\ i < j

\* The card that stands first among those in S.
Top(C, S) == CHOOSE i \in S : \A j \in S : i = j \/ Before(C, i, j)

-----------------------------------------------------------------------------
(* Toasts.                                                                 *)

\* REASON_RULES: the others only count in the badge.
Ringing == Reasons \ {"review", "merge", "degraded"}

MutRings(prev, next, i) ==
    /\ next[i].lane = "needs-you" /\ next[i].reason \in Ringing
    /\ i \in DOMAIN prev => prev[i].lane # next[i].lane

\* A card rings when it asks for the operator for a reason it did not give before.
Rings(prev, next, i) ==
    /\ next[i].lane = "needs-you" /\ next[i].reason \in Ringing
    /\ i \in DOMAIN prev => prev[i].reason # next[i].reason

NoCard == [i \in {} |-> Alarm("degraded")]
Previous == IF last = NoCards THEN NoCard ELSE last

\* computeToasts(): who rings in a push of next; what has rung stays told while it lasts.
Told(next) ==
    [i \in Ids |->
        IF i \notin DOMAIN next THEN "none"
        ELSE IF Rings(Previous, next, i) THEN next[i].reason
        ELSE IF next[i].reason = told[i] THEN told[i] ELSE "none"]

-----------------------------------------------------------------------------
(* Steps.                                                                  *)

Init ==
    /\ disk \in {d \in Disks : \A k \in Keys : d[k].late = {}} /\ overlay \in [Keys -> Forge \cup {NoInfo}]
    /\ failed = FALSE /\ loaded = NoLoad /\ dirty = TRUE /\ armed = TRUE
    /\ last = NoCards /\ told = [i \in Ids |-> "none"]

\* A pass, a worker or the operator writes or removes one file of k: the watcher fires.
Write(k, t, a) ==
    /\ <<t, a>> # <<disk[k].ticket, disk[k].ack>>
    /\ t = disk[k].ticket \/ a = disk[k].ack
    /\ disk' = [disk EXCEPT ![k] =
           [ticket |-> t, ack |-> a,
            late |-> @.late \ ((IF t # @.ticket THEN {"ticket"} ELSE {})
                               \cup (IF a # @.ack THEN {"ack"} ELSE {}))]]
    /\ dirty' = TRUE

Edit(k, t, a) == Write(k, t, a) /\ UNCHANGED <<overlay, failed, loaded, armed, last, told>>

\* What getting older makes a difference to.
Ages(f) ==
    (IF f.ticket \in Tickets /\ (f.ticket.worker = "running" \/ IsQuiet(f.ticket)) THEN {"ticket"} ELSE {})
        \cup (IF f.ack = "pending" THEN {"ack"} ELSE {})

\* A heartbeat or an ack gets stale, a settled ticket old; no timer runs for it.
TimePasses(k, w) ==
    LET aged(d) == [d EXCEPT ![k].late = @ \cup {w}] IN
    /\ w \in Ages(disk[k]) \ disk[k].late
    /\ disk' = aged(disk) /\ loaded' = IF loaded = NoLoad THEN NoLoad ELSE aged(loaded)
    /\ UNCHANGED <<overlay, failed, dirty, armed, last, told>>

\* reloadRepo().
Reload ==
    /\ dirty /\ dirty' = FALSE /\ loaded' = disk /\ armed' = TRUE
    /\ UNCHANGED <<disk, overlay, failed, last, told>>

\* The enricher refreshes k's pull request, with news of it or not: onUpdate().
ForgeNews(k, o) ==
    /\ overlay' = [overlay EXCEPT ![k] = o] /\ armed' = TRUE
    /\ UNCHANGED <<disk, failed, loaded, dirty, last, told>>

\* onStateChange(): a loop fails or is retried, or just goes on to its next tick.
LoopChanges ==
    /\ failed' \in {FALSE} \cup Failures /\ armed' = TRUE
    /\ UNCHANGED <<disk, overlay, loaded, dirty, last, told>>

\* push(): derive, raise the toasts, remember.
Push ==
    /\ armed /\ armed' = FALSE /\ last' = Cards /\ told' = Told(Cards)
    /\ UNCHANGED <<disk, overlay, failed, loaded, dirty>>

Next ==
    \/ Reload \/ Push \/ LoopChanges
    \/ \E k \in Keys :
          \/ \E t \in Tickets \cup {Absent, Corrupt}, a \in Acks : Edit(k, t, a)
          \/ \E w \in Late : TimePasses(k, w)
          \/ \E o \in Forge \cup {NoInfo} : ForgeNews(k, o)

Spec == Init /\ [][Next]_host

\* The two timers fire when they are armed.  Nothing else has to happen: a push is
\* asked for by events only, and loops that are stopped, failed, parked or not
\* installed report none, nor does the forge with the view out of sight.
FairSpec == Spec /\ WF_host(Reload) /\ WF_host(Push)

-----------------------------------------------------------------------------
(* Properties.                                                             *)

\* Somebody other than the operator is to move: the loop that took or will take
\* an answer, a live worker, the build, another reviewer; or nobody is waited on.
OthersTurn(k, f) ==
    LET t == f.ticket IN
    \/ AckState(f) \in Honored
    \/ t.worker = "running" /\ "ticket" \notin f.late
    \/ t.waiting = "build" /\ ~t.blocked
    \/ t.waiting = "review" /\ overlay[k] # NoInfo /\ "other" \in overlay[k].asked
    \/ t.waiting = "none" /\ ~t.blocked

Unattended(t, row) ==
    row.state = "open" /\ row.ci = "failing" /\ t.worker \in {"none", "idle"} /\ t.phase # "fixing"

\* Nothing that waits on the operator rests in another lane (lane.ts:89-107,
\* "false positives beat silent starvation"): a card outside NEEDS YOU is
\* settled, or it is someone else's turn and no red CI is left alone; a file
\* that cannot be read is the operator's, too.
NobodyStarves ==
    loaded # NoLoad => \A k \in Present(loaded) : Cards[k].lane # "needs-you" =>
        /\ loaded[k].ticket # Corrupt
        /\ \/ IsQuiet(loaded[k].ticket)
           \/ /\ OthersTurn(k, loaded[k])
              /\ ~Unattended(loaded[k].ticket, PrRow(k, loaded[k].ticket))

\* Whatever the pushes between, the operator has been told of every alarm that
\* is up, for the reason it is up now, and of none that is not (computeToasts,
\* notifications.ts:42-63): a diff of two pushes, yet right over any number.
AlarmsAreTold ==
    LET up == {i \in DOMAIN Previous : Previous[i].reason \in Ringing}
    IN \A i \in Ids : told[i] = IF i \in up THEN Previous[i].reason ELSE "none"

\* The ack of an open ticket that nobody has taken for too long.
Overdue(k) ==
    /\ disk[k].ticket \in Tickets /\ ~IsQuiet(disk[k].ticket)
    /\ disk[k].ack = "pending" /\ "ack" \in disk[k].late

\* "Either way the card re-enters NEEDS YOU near the top ... this failure mode
\* (ack written, loop never runs) is the one most likely to silently eat a
\* workday" (design/02-protocol.md:326-329): an ack that stays overdue is shown
\* to the operator in the end (controller.ts:270-287, lane.ts:91-100).
OverdueAckReachesOperator ==
    \A k \in Keys :
        Overdue(k) ~> ~Overdue(k) \/ (k \in DOMAIN Previous /\ Previous[k].lane = "needs-you")
=============================================================================
