---------------------------- MODULE AckLifecycle ----------------------------
(***************************************************************************)
(* One ticket and the operator's answers to it: the card and its ack       *)
(* button (queue/ackState.ts, AckControl.tsx), sending and withdrawing an  *)
(* ack (host/controller.ts, protocol/ackWriter.ts), the host's memory of   *)
(* sent acks (host/recentAcks.ts), and the planner pass that consumes the  *)
(* inbox (planner/acks.ts).  The host looks at what it loaded last; passes *)
(* and the worker change the files under it.                               *)
(*                                                                         *)
(* Abstractions.  Requests are numbered in the order they are raised, and  *)
(* an ack is named by the request it answers, as the ackId is a hash of    *)
(* it.  All requests wait on the operator; a ticket with blockers only, a  *)
(* settled ticket and its removal are left out.  Of the history the notes  *)
(* naming an ack are kept, per ack the first one, which is what the card   *)
(* looks for.  The reads of one load of the directory are one step with    *)
(* what follows, and so are the time stamp and the write of an ack.  From  *)
(* the end of ack consumption to the spawned worker is one step: Planner   *)
(* and WorkerPool have its detail.  A worker that rewrites its ticket      *)
(* keeps the history it finds.                                             *)
(*                                                                         *)
(* A definition named Mut... is the one after it with a plausible bug: it  *)
(* is no part of the specification and shows that a property notices.      *)
(***************************************************************************)
EXTENDS Naturals, SequencesExt

CONSTANTS
    MaxRequests, \* bound: requests the worker raises
    Wordy        \* requests whose ack carries a note containing "supersed"

ASSUME AckAssumption == MaxRequests \in Nat

Requests == 1..MaxRequests
Maybe    == 0..MaxRequests     \* a request or none

VARIABLES
    request,    \* the ticket's waitingOn, 0 for none
    raised,     \* the last request raised
    noted,      \* the first history note naming each ack
    inbox,      \* the ack files
    live,       \* the ticket's worker is live
    pc,         \* the step the pass is at, "rest" between passes
    listed,     \* acks of this pass that were not consumed yet
    held,       \* the ack being consumed, 0 for none
    heldTicket, \* the request of the ticket read for it
    heldNoted,  \* whether its history note is written
    answered,   \* the request this pass consumed an ack for, 0 for none
    older,      \* acks created before this pass started, while they are on disk
    passedOver, \* acks on disk created before the last completed pass started
    aged,       \* acks older than two tick intervals
    view,       \* what the host loaded last
    remembered, \* RecentAcks
    clicked,    \* acks by createdAt
    doing,      \* what the operator or the host is in the middle of
    asked,      \* the request shown when the operator began to answer
    target,     \* the ack being sent or withdrawn, 0 for none
    withdrawn,  \* history: acks whose file the operator took back, without a note
    told        \* history: acks the operator was told, during this pass, are withdrawn

ticket == <<request, raised, noted>>
pass   == <<pc, listed, held, heldTicket, heldNoted, answered, older>>
host   == <<view, remembered, clicked, doing, asked, target, withdrawn>>
vars   == <<ticket, inbox, live, pass, passedOver, aged, host, told>>

Notes == {"none", "taken", "superseded"}
Views == [request : Maybe, noted : [Requests -> Notes],
          inbox : SUBSET Requests, passedOver : SUBSET Requests]

MutStamp(s, r) == Append(s, r)            \* remember() without its filter

\* The acks in the order of s, r's time stamp being the latest.
Stamp(s, r) ==
    LET places == {i \in DOMAIN s : s[i] = r}
    IN  Append(IF places = {} THEN s ELSE RemoveAt(s, CHOOSE i \in places : TRUE), r)

TypeOK ==
    /\ request \in Maybe /\ raised \in Maybe
    /\ noted \in [Requests -> Notes]
    /\ inbox \subseteq Requests
    /\ live \in BOOLEAN
    /\ pc \in {"rest", "inventory", "acks"}
    /\ listed \subseteq Requests
    /\ held \in Maybe /\ heldTicket \in Maybe /\ heldNoted \in BOOLEAN
    /\ answered \in Maybe
    /\ older \subseteq Requests /\ passedOver \subseteq Requests /\ aged \subseteq Requests
    /\ view \in Views
    /\ remembered \subseteq Requests
    /\ clicked \in Seq(Requests)
    /\ \A i, j \in DOMAIN clicked : clicked[i] = clicked[j] => i = j
    /\ doing \in {"nothing", "typing", "sending", "withdrawing"}
    /\ asked \in Maybe /\ target \in Maybe
    /\ withdrawn \subseteq Requests /\ told \subseteq Requests

Loaded == [request |-> request, noted |-> noted, inbox |-> inbox,
           passedOver |-> passedOver]

\* The host loads the directory; an ack that is gone has no age.
Load ==
    /\ view' = Loaded
    /\ aged' = aged \cap inbox

Init ==
    /\ request = 0 /\ raised = 0
    /\ noted = [r \in Requests |-> "none"]
    /\ inbox = {}
    /\ live = FALSE
    /\ pc = "rest"
    /\ listed = {}
    /\ held = 0 /\ heldTicket = 0 /\ heldNoted = FALSE
    /\ answered = 0
    /\ older = {} /\ passedOver = {} /\ aged = {}
    /\ view = Loaded
    /\ remembered = {}
    /\ clicked = <<>>
    /\ doing = "nothing"
    /\ asked = 0 /\ target = 0
    /\ withdrawn = {} /\ told = {}

-----------------------------------------------------------------------------
(* The card.                                                               *)

\* knownAcks().
Known == view.inbox \cup remembered

\* isAckStale(), for an ack on disk.
Stale(r) == r \in view.passedOver \cup aged

\* chipStateFor(): a note is read as superseded when it contains the word, the
\* operator's own words included.
Chip(r) ==
    CASE view.noted[r] = "superseded" -> "superseded"
      [] view.noted[r] = "taken"      -> IF r \in Wordy THEN "superseded" ELSE "picked-up"
      [] view.noted[r] = "none" /\ r \in view.inbox ->
            IF view.request # r THEN "moved-on" ELSE IF Stale(r) THEN "stale" ELSE "pending"
      [] OTHER -> "pickup-unconfirmed"

MutHonored(r) == Chip(r) \in {"pending", "picked-up"}   \* whatever it answers

\* honorsCurrentRequest().
Honored(r) == Chip(r) = "pending" \/ (Chip(r) = "picked-up" /\ view.request = r)

\* assignLane() for a ticket that waits on the operator.
NeedsYou ==
    \/ \E r \in Known : Chip(r) = "stale"
    \/ view.request # 0 /\ \A r \in Known : ~Honored(r)

\* The ack whose chip the card shows.
Newest(r) ==
    /\ r \in Known
    /\ \A i, j \in DOMAIN clicked : clicked[i] = r /\ i < j => clicked[j] \notin Known

\* deriveAckControl(): the button is there.
Actionable ==
    /\ view.request # 0
    /\ \A r \in Known : Newest(r) => ~Honored(r) /\ Chip(r) # "stale"

-----------------------------------------------------------------------------
(* The operator and the host.                                              *)

\* The button opens the field for the note; escape closes it.
OpenNote ==
    /\ doing = "nothing"
    /\ Actionable
    /\ doing' = "typing"
    /\ asked' = view.request
    /\ UNCHANGED <<ticket, inbox, live, pass, passedOver, aged, view, remembered, clicked,
                   target, withdrawn, told>>

Escape ==
    /\ doing = "typing"
    /\ doing' = "nothing"
    /\ asked' = 0
    /\ UNCHANGED <<ticket, inbox, live, pass, passedOver, aged, view, remembered, clicked,
                   target, withdrawn, told>>

\* The file of r appears with a new time stamp; older passes and views predate it.
Create(r) ==
    /\ inbox' = inbox \cup {r}
    /\ clicked' = Stamp(clicked, r)
    /\ older' = older \ {r}
    /\ passedOver' = passedOver \ {r}
    /\ aged' = aged \ {r}
    /\ view' = [view EXCEPT !.passedOver = @ \ {r}]
    /\ withdrawn' = withdrawn \ {r}
    /\ told' = told \ {r}

\* controller.ack(), to the end of writeAckFile(): the ack is for the request the
\* host has loaded by now.
Send ==
    /\ doing = "typing"
    /\ view.request # 0
    /\ doing' = "sending"
    /\ target' = view.request
    /\ \/ view.request \notin inbox /\ Create(view.request)
       \/ /\ view.request \in inbox                    \* already-sent
          /\ UNCHANGED <<inbox, clicked, older, passedOver, aged, view, withdrawn, told>>
    /\ UNCHANGED <<ticket, live, pc, listed, held, heldTicket, heldNoted, answered,
                   remembered, asked>>

\* There is nothing to ack any more.
SendFails ==
    /\ doing = "typing"
    /\ view.request = 0
    /\ doing' = "nothing"
    /\ asked' = 0
    /\ UNCHANGED <<ticket, inbox, live, pass, passedOver, aged, view, remembered, clicked,
                   target, withdrawn, told>>

\* remember(), which drops what is older than a week.
Remember ==
    /\ doing = "sending"
    /\ \E kept \in SUBSET remembered : remembered' = kept \cup {target}
    /\ doing' = "nothing"
    /\ asked' = 0
    /\ target' = 0
    /\ UNCHANGED <<ticket, inbox, live, pass, passedOver, aged, view, clicked, withdrawn,
                   told>>

\* Withdraw on the chip, to the end of withdrawAckFile().
Withdraw(r) ==
    /\ doing = "nothing"
    /\ Newest(r)
    /\ Chip(r) \in {"pending", "stale"}
    /\ doing' = "withdrawing"
    /\ target' = r
    /\ inbox' = inbox \ {r}
    /\ withdrawn' = IF r \in inbox /\ noted[r] = "none" THEN withdrawn \cup {r} ELSE withdrawn
    /\ UNCHANGED <<ticket, live, pass, passedOver, aged, view, remembered, clicked, asked,
                   told>>

\* The rest of withdrawAck(): what was not picked up is forgotten.
Recheck ==
    /\ doing = "withdrawing"
    /\ Load
    /\ \/ /\ noted[target] = "none"                    \* 'withdrawn'
          /\ remembered' = remembered \ {target}
          /\ told' = told \cup {target}
       \/ /\ noted[target] # "none"                    \* 'picked-up-first'
          /\ UNCHANGED <<remembered, told>>
    /\ doing' = "nothing"
    /\ target' = 0
    /\ UNCHANGED <<ticket, inbox, live, pass, passedOver, clicked, asked, withdrawn>>

\* reloadRepo().
Reload ==
    /\ Load
    /\ UNCHANGED <<ticket, inbox, live, pass, passedOver, remembered, clicked, doing,
                   asked, target, withdrawn, told>>

\* The window closes and opens again: what was under way is dropped, the memory
\* of acks is kept.
HostRestarts ==
    /\ doing' = "nothing"
    /\ asked' = 0
    /\ target' = 0
    /\ Load
    /\ UNCHANGED <<ticket, inbox, live, pass, passedOver, remembered, clicked,
                   withdrawn, told>>

\* Two tick intervals go by.
AckAges(r) ==
    /\ r \in inbox \ aged
    /\ aged' = aged \cup {r}
    /\ UNCHANGED <<ticket, inbox, live, pass, passedOver, host, told>>

-----------------------------------------------------------------------------
(* The planner pass and the worker.                                        *)

Begin ==
    /\ pc = "rest"
    /\ pc' = "inventory"
    /\ older' = inbox
    /\ UNCHANGED <<ticket, inbox, live, listed, held, heldTicket, heldNoted, answered,
                   passedOver, aged, host, told>>

ListAcks ==
    /\ pc = "inventory"
    /\ pc' = "acks"
    /\ listed' = inbox
    /\ UNCHANGED <<ticket, inbox, live, held, heldTicket, heldNoted, answered, older,
                   passedOver, aged, host, told>>

MutReadAck(r) ==                          \* the file goes before the history is written
    /\ pc = "acks"
    /\ held = 0
    /\ r \in listed
    /\ listed' = listed \ {r}
    /\ held' = r
    /\ heldTicket' = request
    /\ inbox' = inbox \ {r}
    /\ UNCHANGED <<ticket, live, pc, heldNoted, answered, older, passedOver, aged, host, told>>

\* consumeOne() reads the ticket.
ReadAck(r) ==
    /\ pc = "acks"
    /\ held = 0
    /\ r \in listed
    /\ listed' = listed \ {r}
    /\ held' = r
    /\ heldTicket' = request
    /\ UNCHANGED <<ticket, inbox, live, pc, heldNoted, answered, older, passedOver, aged,
                   host, told>>

\* appendHistory(): the ticket as it was read, with one more note.
NoteAck ==
    /\ held # 0
    /\ ~heldNoted
    /\ request' = heldTicket
    /\ noted' = [noted EXCEPT ![held] = IF @ # "none" THEN @
                                        ELSE IF heldTicket = held THEN "taken"
                                        ELSE "superseded"]
    /\ heldNoted' = TRUE
    /\ withdrawn' = withdrawn \ {held}
    /\ UNCHANGED <<raised, inbox, live, pc, listed, held, heldTicket, answered, older,
                   passedOver, aged, view, remembered, clicked, doing, asked, target, told>>

MutDeleteAck ==                           \* the file stays
    /\ heldNoted
    /\ answered' = IF heldTicket = held THEN held ELSE answered
    /\ held' = 0
    /\ heldTicket' = 0
    /\ heldNoted' = FALSE
    /\ UNCHANGED <<ticket, inbox, live, pc, listed, older, passedOver, aged, host, told>>

\* deleteAck(), and a match is consumed.
DeleteAck ==
    /\ heldNoted
    /\ inbox' = inbox \ {held}
    /\ older' = older \ {held}
    /\ answered' = IF heldTicket = held THEN held ELSE answered
    /\ held' = 0
    /\ heldTicket' = 0
    /\ heldNoted' = FALSE
    /\ UNCHANGED <<ticket, live, pc, listed, passedOver, aged, host, told>>

Over ==
    /\ pc' = "rest"
    /\ listed' = {}
    /\ held' = 0
    /\ heldTicket' = 0
    /\ heldNoted' = FALSE
    /\ answered' = 0
    /\ older' = {}
    /\ told' = {}

MutCreatedBefore == inbox                 \* compared with the end of the pass

\* passCompletedSince(): the acks created before this pass started.
CreatedBefore == older

\* The pass completes.  The ticket is dispatched when it does not wait or its
\* answer was consumed, unless it is deferred or has a worker.
Wrap ==
    /\ pc = "acks"
    /\ listed = {}
    /\ held = 0
    /\ \/ (request = 0 \/ answered # 0) /\ live' = TRUE
       \/ UNCHANGED live
    /\ passedOver' = CreatedBefore \cap inbox
    /\ Over
    /\ UNCHANGED <<ticket, inbox, aged, host>>

\* A port throws or the process dies: what it wrote stays.
PassDies ==
    /\ pc # "rest"
    /\ Over
    /\ UNCHANGED <<ticket, inbox, live, passedOver, aged, host>>

\* The worker goes on, or asks something new.
WorkerWrites ==
    /\ live
    /\ \/ request' = 0 /\ UNCHANGED raised
       \/ /\ raised < MaxRequests
          /\ raised' = raised + 1
          /\ request' = raised + 1
    /\ UNCHANGED <<noted, inbox, live, pass, passedOver, aged, host, told>>

WorkerExits ==
    /\ live
    /\ live' = FALSE
    /\ UNCHANGED <<ticket, inbox, pass, passedOver, aged, host, told>>

-----------------------------------------------------------------------------
PassStep ==
    \/ Begin \/ ListAcks \/ NoteAck \/ DeleteAck \/ Wrap
    \/ \E r \in Requests : ReadAck(r)

HostStep ==
    \/ OpenNote \/ Escape \/ Send \/ SendFails \/ Remember
    \/ Recheck \/ Reload \/ HostRestarts
    \/ \E r \in Requests : Withdraw(r) \/ AckAges(r)

Next == PassStep \/ PassDies \/ HostStep \/ WorkerWrites \/ WorkerExits

Spec == Init /\ [][Next]_vars

\* Passes keep running and from some point on none dies before its wrap.
FairSpec ==
    /\ Spec
    /\ WF_vars(PassStep)
    /\ <>[][PassDies => Wrap]_vars

-----------------------------------------------------------------------------
(* What became of an answer: what the history says; else it is sent while  *)
(* its file stands or the pass has it in hand.                             *)
Fate(r) ==
    IF noted[r] # "none" THEN noted[r]
    ELSE IF r \in inbox \cup listed \/ (r = held /\ ~heldNoted) THEN "sent"
    ELSE IF r \in withdrawn THEN "withdrawn" ELSE "idle"

Outcome == [r \in Requests |-> Fate(r)]

Signal == INSTANCE AckSignal WITH signal <- Outcome

\* The files keep the promise of the inbox, whoever dies between any two steps:
\* no answer disappears but by the operator's withdrawal, none is recorded that
\* was not sent, and no record is ever revised.  The order "history, then
\* unlink" is what this hangs on.
SignalIsKept == Signal!Spec

\* "A slow-but-healthy tick cadence must not page the operator on every ack": no
\* ack is shown as passed over by a pass that completed, since a completed pass
\* has consumed what was created before it started.
NoFalseAlarm ==
    /\ inbox \cap passedOver = {}
    /\ view.inbox \cap view.passedOver = {}

\* A card that shows a request and lies calm in WAITING has an answer to that
\* very request, in the inbox or taken, unless the host is about to load
\* something newer: no question is hidden behind the answer to another, a lost
\* one or one taken back.
CalmMeansAnswered ==
    (view = Loaded /\ view.request # 0 /\ ~NeedsYou)
        => Outcome[view.request] \in {"sent", "taken"}

\* An ack file does not stay: it is consumed, superseded or withdrawn in the end.
AckIsSettled == \A r \in Requests : []<>(r \notin inbox)

(* What the documentation promises and the code does not keep.             *)

\* "the chip shows `picked up before withdrawal' instead of pretending the
\* withdrawal won": an ack the operator was told is withdrawn is never taken.
WithdrawalIsFinal == \A r \in told : noted[r] # "taken"

\* "target snapshots the waitingOn being answered": the ack goes to the request
\* that was on the card when the operator began to answer it.
AnswersWhatWasAsked == doing = "sending" => target = asked

=============================================================================
