------------------------------ MODULE Enricher ------------------------------
(***************************************************************************)
(* What the host knows of the pull requests of one repository from its     *)
(* forge (forge/enricher.ts, budget.ts), over a client that asks for every *)
(* pull request on its own through a small pool (http.ts, bitbucket.ts).   *)
(*                                                                         *)
(* Abstractions.  A pull request is open, final (merged or closed) or gone *)
(* (the forge answers 404: deleted, or out of the token's sight), so an    *)
(* answer from the ETag cache, which stands for no change, is an answer;   *)
(* the pages of a list, the comments, tasks and statuses are one request.  *)
(* The viewer's login is known.  Times are states: a full refresh is due   *)
(* or not, after the interval as it is stretched now, and a backoff is on  *)
(* or over.  The poll timer is armed exactly while a view is visible.  A   *)
(* ticket change is one step with the reload that feeds it.                *)
(*                                                                         *)
(* A definition named Mut... is the one after it with a plausible bug.     *)
(***************************************************************************)
EXTENDS Naturals, SequencesExt

CONSTANTS
    Prs,     \* the numbers of the pull requests tickets may name
    Limit,   \* the width of the request pool
    States,  \* what a ticket may say of a pull request
    MaxLeft, \* bound: requests that failed fetches may leave behind at a time
    NoEntry, \* nothing is cached
    Left     \* a queued request whose fetch has failed

ASSUME EnricherAssumption ==
    /\ Prs \subseteq Nat /\ IsFiniteSet(Prs) /\ Left \notin Prs
    /\ "none" \in States /\ States \subseteq {"none", "open", "final"}
    /\ Limit \in Nat \ {0} /\ MaxLeft \in Nat
    /\ NoEntry \notin {"open", "final", "gone"}

Views == {"open", "final", "gone"}

VARIABLES
    forge,   \* the pull requests themselves
    tracked, \* how the tickets see them, "none" if no ticket names it
    prs,     \* the cache: entry.prs
    changed, \* pendingChanged; its timer is armed while there are some
    visible, \* a view is visible and the poll timer armed
    due,     \* lastRefreshAt is as long ago as the interval
    backoff, \* backoffActive()
    fetching, \* entry.fetching
    fetch    \* the fetch: its numbers, their infos, those not stored yet, its scope

VARIABLES
    active, \* pull requests with a request on its way
    left,   \* requests on their way whose fetch has failed
    queue   \* requests that wait for a slot, in order

pool   == <<active, left, queue>>
timers == <<changed, visible, due>>
vars   == <<forge, tracked, prs, backoff, fetching, fetch, timers, pool>>

Fetches == [numbers : SUBSET Prs, infos : [Prs -> Views \cup {NoEntry}], todo : SUBSET Prs, all : BOOLEAN]
NoFetch == [numbers |-> {}, infos |-> [n \in Prs |-> NoEntry], todo |-> {}, all |-> FALSE]

TypeOK ==
    /\ forge \in [Prs -> Views] /\ tracked \in [Prs -> States]
    /\ prs \in [Prs -> Views \cup {NoEntry}] /\ changed \subseteq Prs
    /\ visible \in BOOLEAN /\ due \in BOOLEAN /\ backoff \in BOOLEAN
    /\ fetching \in BOOLEAN /\ fetch \in Fetches /\ (~fetching => fetch = NoFetch)
    /\ active \subseteq Prs /\ left \in 0..Limit /\ queue \in Seq(Prs \cup {Left})

Init ==
    /\ forge \in [Prs -> Views] /\ tracked = [n \in Prs |-> "none"]
    /\ prs = [n \in Prs |-> NoEntry] /\ changed = {} /\ visible = FALSE /\ due = TRUE
    /\ backoff = FALSE /\ fetching = FALSE /\ fetch = NoFetch
    /\ active = {} /\ left = 0 /\ queue = <<>>

-----------------------------------------------------------------------------
(* RequestPool.                                                            *)

\* The pool when a and l are on their way, q waits, and free slots are taken.
Fill(a, l, q) ==
    LET free == Limit - Cardinality(a) - l
        k == IF Len(q) < free THEN Len(q) ELSE free
        taken == SubSeq(q, 1, k)
    IN /\ active' = a \cup (ToSet(taken) \ {Left})
       /\ left' = l + Cardinality({i \in DOMAIN taken : taken[i] = Left})
       /\ queue' = SubSeq(q, k + 1, Len(q))

MutRelease(a, l) == active' = a /\ left' = l /\ UNCHANGED queue

\* The slots but those of a and l are given back: who waited longest is next.
Release(a, l) == Fill(a, l, queue)

-----------------------------------------------------------------------------
(* refreshRepo().                                                          *)

MutFrozen(n) == prs[n] \in {"final", "gone"} \/ (tracked[n] = "final" /\ prs[n] # NoEntry)

\* Never asked for again.
Frozen(n) == prs[n] = "final" \/ (tracked[n] = "final" /\ prs[n] # NoEntry)

Numbers(all, C) ==
    LET live == {n \in Prs : tracked[n] # "none" /\ ~Frozen(n)} IN
    IF all THEN live ELSE {n \in C : ~Frozen(n)} \cup {n \in live : prs[n] = NoEntry}

\* The numbers of S, one after the other.  The code has them in the order in which
\* the tickets named them (enricher.ts:199); the pool treats them all alike.
InOrder(S) == [i \in 1..Cardinality(S) |-> CHOOSE n \in S : Cardinality({m \in S : m <= n}) = i]

\* The requests for S are put to the pool one after the other.
Request(S) == Fill(active, left, queue \o InOrder(S))

\* Nothing is fetched while a fetch is under way or backed off, or for no number.
Refresh(all, C) ==
    LET N == Numbers(all, C) IN
    IF fetching \/ backoff \/ N = {} THEN UNCHANGED <<fetching, fetch, pool>>
    ELSE /\ fetching' = TRUE
         /\ fetch' = [numbers |-> N, infos |-> [n \in Prs |-> NoEntry], todo |-> N, all |-> all]
         /\ Request(N)

\* Of T, in order, the pull requests the forge did not know: they need no checks.
Unknown(T, infos) == {n \in T : \A m \in T : m <= n => infos[m] = "gone"}

MutDone == fetching' = FALSE /\ fetch' = [fetch EXCEPT !.todo = {}]

Done == fetching' = FALSE /\ fetch' = NoFetch

\* An answer for n: its info while some are missing, then its checks.  With all
\* infos in, the entries are stored one after the other.
Answer(n) ==
    LET listing == fetch.infos[n] = NoEntry
        infos == IF listing THEN [fetch.infos EXCEPT ![n] = forge[n]] ELSE fetch.infos
        todo  == IF listing THEN fetch.todo ELSE fetch.todo \ {n}
        ready == \A m \in fetch.numbers : infos[m] # NoEntry
        gone  == IF ready THEN Unknown(todo, infos) ELSE {}
        rest  == todo \ gone
    IN /\ n \in active
       /\ prs' = [m \in Prs |-> IF m \in gone THEN "gone"
                                ELSE IF m = n /\ ~listing THEN infos[n] ELSE prs[m]]
       /\ IF rest = {}
          THEN /\ Done /\ Release(active \ {n}, left)
               /\ backoff' = FALSE /\ due' = (due /\ ~fetch.all)
          ELSE /\ fetch' = [fetch EXCEPT !.infos = infos, !.todo = rest]
               /\ IF ready THEN Fill(active \ {n}, left, Append(queue, Min(rest)))
                  ELSE Release(active \ {n}, left)
               /\ UNCHANGED <<fetching, backoff, due>>
       /\ UNCHANGED <<forge, tracked, changed, visible>>

\* A request fails: so does the fetch; what it stored stays, its other requests
\* go on for nobody, those that wait as well.
Reject(n) ==
    /\ n \in active /\ Done /\ backoff' = TRUE
    /\ Fill({}, left + Cardinality(active) - 1, [i \in DOMAIN queue |-> Left])
    /\ UNCHANGED <<forge, tracked, prs, timers>>

LeftEnds ==
    /\ left > 0 /\ Release(active, left - 1)
    /\ UNCHANGED <<forge, tracked, prs, backoff, fetching, fetch, timers>>

\* Bound: not before most of what failed fetches left behind has ended.
BackoffEnds ==
    /\ backoff /\ left + Len(queue) <= MaxLeft /\ backoff' = FALSE
    /\ UNCHANGED <<forge, tracked, prs, fetching, fetch, timers, pool>>

-----------------------------------------------------------------------------
(* What asks for a refresh.                                                *)

\* The periodic poll, where the refresh is due.
PollTick ==
    /\ visible /\ due /\ Refresh(TRUE, {})
    /\ UNCHANGED <<forge, tracked, prs, backoff, timers>>

FocusRegained ==
    /\ due /\ Refresh(TRUE, {})
    /\ UNCHANGED <<forge, tracked, prs, backoff, timers>>

ForceRefresh == Refresh(TRUE, {}) /\ UNCHANGED <<forge, tracked, prs, backoff, timers>>

\* The changes of the last seconds: forgotten, whether a fetch comes of it or not.
Coalesced ==
    /\ changed # {} /\ changed' = {} /\ Refresh(FALSE, changed)
    /\ UNCHANGED <<forge, tracked, prs, backoff, visible, due>>

\* A ticket names n, for the first time or in a new state, or no ticket does now.
TicketChanges(n, s) ==
    /\ s = "final" => forge[n] = "final"
    /\ tracked' = [tracked EXCEPT ![n] = s]
    /\ changed' = IF s = "none" THEN changed ELSE changed \cup {n}
    /\ UNCHANGED <<forge, prs, visible, due, backoff, fetching, fetch, pool>>

SetVisible ==
    /\ visible' = ~visible
    /\ UNCHANGED <<forge, tracked, prs, changed, due, backoff, fetching, fetch, pool>>

\* The interval is over, however far the rate budget stretched it.
TimePasses ==
    /\ ~due /\ due' = TRUE
    /\ UNCHANGED <<forge, tracked, prs, changed, visible, backoff, fetching, fetch, pool>>

\* Bound: a closed pull request is not opened again; it stays frozen if it is.
ForgeChanges(n, v) ==
    /\ forge[n] # "final" /\ forge' = [forge EXCEPT ![n] = v]
    /\ UNCHANGED <<tracked, prs, backoff, fetching, fetch, timers, pool>>

\* The window is reloaded: the cache comes back from workspaceState.
Reloaded ==
    /\ tracked' = [n \in Prs |-> "none"] /\ changed' = {} /\ visible' = FALSE
    /\ due' = TRUE /\ backoff' = FALSE /\ Done
    /\ active' = {} /\ left' = 0 /\ queue' = <<>>
    /\ UNCHANGED <<forge, prs>>

Next ==
    \/ LeftEnds \/ BackoffEnds \/ PollTick \/ FocusRegained \/ ForceRefresh \/ Coalesced
    \/ SetVisible \/ TimePasses \/ Reloaded
    \/ \E n \in Prs :
          \/ Answer(n) \/ Reject(n)
          \/ \E s \in States : TicketChanges(n, s)
          \/ \E v \in Views : ForgeChanges(n, v)

Spec == Init /\ [][Next]_vars

\* Timers fire and time passes, and every request ends, with an answer or not.
FairSpec ==
    /\ Spec
    /\ WF_vars(LeftEnds) /\ WF_vars(BackoffEnds) /\ WF_vars(PollTick) /\ WF_vars(TimePasses)
    /\ \A n \in Prs : WF_vars(Answer(n) \/ Reject(n))

-----------------------------------------------------------------------------
(* Properties.                                                             *)

\* The pool never has more requests on their way than slots, and no request waits
\* while a slot is free, though fetches fail with others of theirs on the way and
\* in the queue (http.ts:82-115).
PoolIsServed ==
    /\ Cardinality(active) + left <= Limit
    /\ queue # <<>> => Cardinality(active) + left = Limit

Calm == [][forge' = forge /\ tracked' = tracked /\ changed' \subseteq changed /\ (backoff' => backoff)]_vars

\* Once the forge stays as it is and answers, and no ticket is written, an open or
\* vanished pull request of a ticket is shown as it is, as long as a view is
\* visible, whatever was half stored, dropped or backed off before
\* (enricher.ts:107-127, 182-224).
ViewCatchesUp ==
    <>Calm => \A n \in Prs :
        []<>(visible /\ tracked[n] = "open" => prs[n] \in {"final", forge[n]})

\* A pull request that is not asked for again is not shown as open: merged and
\* closed ones are "fetched once, then never re-fetched" (design/03-forge.md:264-265).
FrozenIsFinal == \A n \in Prs : Frozen(n) => prs[n] # "open"
=============================================================================
