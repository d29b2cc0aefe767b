----------------------------- MODULE QueueView -----------------------------
(***************************************************************************)
(* A view of the queue and what the operator does in it (queueView/ and    *)
(* queueViewProvider.ts, messageRouter.ts), over the host of module Queue. *)
(* The view is an editor tab; the tray is the same without the right pane. *)
(*                                                                         *)
(* Abstractions.  The page has to load before it hears messages; those     *)
(* posted earlier are lost, the others arrive in order and at once.  What  *)
(* is typed into the filter is the set of cards that match it.  A          *)
(* collapsed lane is one whose cards are not clicked on.  One note is      *)
(* open or one message is on its way to the host at a time: what a message *)
(* could do to an open note, the writes of others do.  Links and logs that *)
(* are opened change nothing.                                              *)
(***************************************************************************)
EXTENDS Queue

CONSTANTS
    Filters, \* what a filter may let through: sets of cards
    Eye,     \* what showDone may be set to: FALSE, and TRUE where a card may be hidden
    Picked,  \* the cards that may be clicked on to select them
    Nobody,  \* no card is selected
    NoNote,  \* no note field is open
    NoMsg    \* nothing is on its way to the host

ASSUME ViewAssumption ==
    /\ Filters \subseteq SUBSET Ids /\ Ids \in Filters
    /\ FALSE \in Eye /\ Eye \subseteq BOOLEAN /\ Picked \subseteq Ids /\ "spent" \in Acks

\* A note field: in the list or the pane, and the card it was opened on.
Notes    == [at : {"card", "pane"}, on : Ids]
Messages == [kind : {"ack", "withdrawAck", "removeTicket", "retry"}, to : Ids]

VARIABLES
    page,   \* the webview: "closed", "loading", or "ready" after its first message
    shown,  \* the cards it renders
    chosen, \* selectedId
    filter, \* the cards that match the text and the repository
    done,   \* showDone
    note,   \* the open note field
    msg     \* posted to the host

view == <<page, shown, chosen, filter, done, note, msg>>
vars == <<host, view>>

ViewTypeOK ==
    /\ TypeOK
    /\ page \in {"closed", "loading", "ready"}
    /\ shown = NoCards \/ (DOMAIN shown \subseteq Ids /\ \A i \in DOMAIN shown : shown[i] \in Card)
    /\ shown # NoCards => page = "ready"
    /\ chosen \in Ids \cup {Nobody} /\ filter \in Filters /\ done \in Eye
    /\ note \in Notes \cup {NoNote} /\ msg \in Messages \cup {NoMsg}

-----------------------------------------------------------------------------
(* Rendering.                                                              *)

\* filterCards().
Rendered(C, F, d) == {i \in DOMAIN C \cap F : d \/ ~C[i].hidden}

\* EditorBody: the selected card, or else the first.
Pane(C, F, d, sel) ==
    LET R == Rendered(C, F, d) IN
    IF sel \in R THEN sel ELSE IF R # {} THEN Top(C, R) ELSE Nobody

\* An AckControl keeps its state while React keeps the component: in the list
\* while its card is rendered in the same lane, in the pane while there is one.
Kept(C, C2, F2, d2) ==
    IF note = NoNote THEN NoNote
    ELSE IF note.at = "pane" THEN (IF Rendered(C2, F2, d2) # {} THEN note ELSE NoNote)
    ELSE IF note.on \in Rendered(C2, F2, d2) /\ C2[note.on].lane = C[note.on].lane THEN note
    ELSE NoNote

MutFresh == /\ shown' = shown /\ chosen' = chosen /\ filter' = filter /\ done' = done
            /\ note' = note

\* What a page starts from: nothing is kept while it is out of sight.
Fresh == /\ shown' = NoCards /\ chosen' = Nobody /\ filter' = Ids /\ done' = FALSE
         /\ note' = NoNote

ViewInit ==
    /\ Init /\ page = "closed" /\ shown = NoCards /\ chosen = Nobody /\ filter = Ids
    /\ done = FALSE /\ note = NoNote /\ msg = NoMsg

-----------------------------------------------------------------------------
(* The page.                                                               *)

\* The panel is created, or the tray shown: the first state is posted too early.
Open == page = "closed" /\ page' = "loading" /\ Fresh /\ UNCHANGED <<host, msg>>

MutReady ==
    /\ page = "loading" /\ page' = "ready" /\ shown' = NoCard
    /\ UNCHANGED <<host, chosen, filter, done, note, msg>>

\* The `ready' message is answered with currentState().
Ready ==
    /\ page = "loading" /\ page' = "ready"
    /\ shown' = IF last = NoCards THEN Cards ELSE last
    /\ UNCHANGED <<host, chosen, filter, done, note, msg>>

\* Disposed, or a tray out of sight: the page and all it holds are gone.
Close == page # "closed" /\ page' = "closed" /\ Fresh /\ UNCHANGED <<host, msg>>

\* Every page that listens renders what is pushed.
PushToView ==
    /\ Push
    /\ IF page = "ready" THEN shown' = Cards /\ note' = Kept(shown, Cards, filter, done)
       ELSE UNCHANGED <<shown, note>>
    /\ UNCHANGED <<page, chosen, filter, done, msg>>

\* Everything else the host does leaves the page alone.
HostStep ==
    /\ \/ Reload \/ LoopChanges
       \/ \E k \in Keys :
             \/ \E t \in Tickets \cup {Absent, Corrupt}, a \in Acks : Edit(k, t, a)
             \/ \E w \in Late : TimePasses(k, w)
             \/ \E o \in Forge \cup {NoInfo} : ForgeNews(k, o)
    /\ UNCHANGED view

-----------------------------------------------------------------------------
(* The operator.                                                           *)

Visible == IF shown = NoCards THEN {} ELSE Rendered(shown, filter, done)

Choose(i) ==
    /\ i \in Visible \cap Picked /\ chosen' = i
    /\ UNCHANGED <<host, page, shown, filter, done, note, msg>>

\* The filter box, a repository badge, or the eye.
SetFilter(F, d) ==
    /\ page = "ready" /\ filter' = F /\ done' = d
    /\ note' = Kept(shown, shown, F, d)
    /\ UNCHANGED <<host, page, shown, chosen, msg>>

\* The card an AckControl stands on: its own, or whatever the pane shows.
Target(at, i) == IF at = "card" THEN i ELSE Pane(shown, filter, done, chosen)

OpenNote(at, i) ==
    /\ note = NoNote /\ msg = NoMsg /\ i \in Visible /\ Target(at, i) = i /\ shown[i].ackable
    /\ note' = [at |-> at, on |-> i]
    /\ UNCHANGED <<host, page, shown, chosen, filter, done, msg>>

Escape == note # NoNote /\ note' = NoNote
          /\ UNCHANGED <<host, page, shown, chosen, filter, done, msg>>

\* AckControl.send(): the message names the ticket of the card, as it is now.
Send ==
    /\ note # NoNote /\ msg = NoMsg /\ note' = NoNote
    /\ msg' = [kind |-> "ack", to |-> Target(note.at, note.on)]
    /\ UNCHANGED <<host, page, shown, chosen, filter, done>>

\* The other buttons of a card that reach the queue.
Click(kind, i) ==
    /\ i \in Visible /\ note = NoNote /\ msg = NoMsg
    /\ CASE kind = "retry" -> i = Launcher
         [] kind = "removeTicket" -> shown[i].lane = "quiet"
         [] kind = "withdrawAck" -> shown[i].chip \in {"pending", "stale"}
    /\ msg' = [kind |-> kind, to |-> i]
    /\ UNCHANGED <<host, page, shown, chosen, filter, done, note>>

-----------------------------------------------------------------------------
(* The host answers, from what it has loaded or from the directory.        *)

Good(d, k) == k \in Keys /\ d[k].ticket \in Tickets

\* ackMatchesTicket() of an ack made for t with ticket u.
SameRequest(t, u) ==
    /\ t.waiting = u.waiting
    /\ IF t.waiting = "none" THEN t = u ELSE t.since = u.since

\* The inbox once an ack for the loaded ticket is in it: it may be there already,
\* be taken already, or answer a request that the file no longer makes.
Acked(k) ==
    IF ~(Good(disk, k) /\ SameRequest(loaded[k].ticket, disk[k].ticket)) THEN "spent"
    ELSE IF disk[k].ack \in {"pending", "picked-up", "stale"} THEN disk[k].ack ELSE "pending"

PutAck(k, a) ==
    disk' = [disk EXCEPT ![k].ack = a, ![k].late = IF a = disk[k].ack THEN @ ELSE @ \ {"ack"}]

\* controller.ack(): an error is not shown to anybody.
HandleAck(k) ==
    /\ IF /\ loaded # NoLoad /\ Good(loaded, k)
          /\ loaded[k].ticket.waiting # "none" \/ loaded[k].ticket.blocked
       THEN PutAck(k, Acked(k)) /\ dirty' = TRUE
       ELSE UNCHANGED <<disk, dirty>>
    /\ UNCHANGED <<overlay, failed, loaded, armed>>

\* controller.withdrawAck(): unlink, re-read, push; the watcher reloads as well.
HandleWithdraw(k) ==
    /\ PutAck(k, IF disk[k].ack \in {"pending", "stale"} THEN "none" ELSE disk[k].ack)
    /\ loaded' = disk' /\ dirty' = TRUE /\ armed' = TRUE
    /\ UNCHANGED <<overlay, failed>>

MutHandleRemove(k) ==
    /\ IF loaded # NoLoad /\ Good(loaded, k) /\ IsQuiet(loaded[k].ticket)
       THEN disk' = [disk EXCEPT ![k].ticket = Absent] /\ dirty' = TRUE
       ELSE UNCHANGED <<disk, dirty>>
    /\ UNCHANGED <<overlay, failed, loaded, armed>>

\* removeSettledTicket(): decided on a fresh read.
HandleRemove(k) ==
    /\ IF Good(disk, k) /\ IsQuiet(disk[k].ticket)
       THEN disk' = [disk EXCEPT ![k].ticket = Absent] /\ dirty' = TRUE
       ELSE UNCHANGED <<disk, dirty>>
    /\ UNCHANGED <<overlay, failed, loaded, armed>>

HandleRetry == failed' = FALSE /\ armed' = TRUE /\ UNCHANGED <<disk, overlay, loaded, dirty>>

\* routeWebviewMessage().
Deliver ==
    /\ msg # NoMsg /\ msg' = NoMsg
    /\ \/ msg.kind = "ack" /\ HandleAck(msg.to)
       \/ msg.kind = "withdrawAck" /\ HandleWithdraw(msg.to)
       \/ msg.kind = "removeTicket" /\ HandleRemove(msg.to)
       \/ msg.kind = "retry" /\ HandleRetry
    /\ UNCHANGED <<last, told, page, shown, chosen, filter, done, note>>

Operator ==
    \/ Open \/ Close \/ Escape \/ Send
    \/ \E F \in Filters, d \in Eye : SetFilter(F, d)
    \/ \E i \in Ids :
          \/ Choose(i)
          \/ \E at \in {"card", "pane"} : OpenNote(at, i)
          \/ \E kind \in {"retry", "removeTicket", "withdrawAck"} : Click(kind, i)

ViewNext == HostStep \/ PushToView \/ Ready \/ Operator \/ Deliver

ViewSpec == ViewInit /\ [][ViewNext]_vars

-----------------------------------------------------------------------------
(* Properties.                                                             *)

\* A page that came up shows what was pushed last, although it heard nothing of
\* what was pushed while it was loading or away (queueViewProvider.ts:20-27, 35-38).
ViewIsCurrent == page = "ready" /\ last # NoCards => shown = last

\* A click on Remove takes no file of a ticket that came back to life since the
\* card was drawn (controllerHelpers.ts:20-21, "closing the revive race the
\* debounced cache leaves open"), and no write of a worker or a pass is undone.
RevivedIsNotRemoved ==
    [][\A k \in Keys :
          msg # NoMsg /\ msg.kind = "removeTicket" /\ msg' = NoMsg /\ disk'[k] # disk[k] =>
              disk[k].ticket \in Tickets /\ IsQuiet(disk[k].ticket)]_vars

\* The note that is sent with an ack was written for its ticket: the operator
\* acks with the "button on the card, optional note" (design/02-protocol.md:287).
NoteStaysOnItsCard == [][Send => msg'.to = note.on]_vars
=============================================================================
