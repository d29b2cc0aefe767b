-------------------------- MODULE QueueViewProofs --------------------------
(***************************************************************************)
(* For any tickets, filters and clicks: a page that is up shows what was   *)
(* pushed last, the pane always has a card to show while there is one, and *)
(* a click removes only what is settled on disk.                           *)
(***************************************************************************)
EXTENDS QueueView, QueueProofs, FiniteSetTheorems

-----------------------------------------------------------------------------
(* The order of the cards.                                                 *)

\* A strict order has a least element in every finite set that is not empty.
LEMMA LeastOf ==
    ASSUME NEW S, IsFiniteSet(S), S # {}, NEW R,
           \A x \in S : <<x, x>> \notin R,
           IsTransitivelyClosedOn(R, S)
    PROVE  \E x \in S : \A y \in S : <<y, x>> \notin R
  <1> DEFINE below(x) == {y \in S : <<y, x>> \in R}
  <1> DEFINE T == {below(x) : x \in S}
  <1>1. T # {} /\ T \subseteq FiniteSubsetsOf(S)
    <2>1. \A x \in S : below(x) \in SUBSET S
      OBVIOUS
    <2>2. \A A \in SUBSET S : A \in FiniteSubsetsOf(S)
      BY FS_Subset DEF FiniteSubsetsOf
    <2> HIDE DEF below
    <2>3. \A x \in S : below(x) \in FiniteSubsetsOf(S)
      BY <2>1, <2>2
    <2> QED BY <2>3
  <1>2. PICK B \in T : \A A \in T : <<A, B>> \notin StrictSubsetOrdering(S)
    <2> HIDE DEF T
    <2> QED BY <1>1, FS_StrictSubsetOrderingWellFounded, WFMin
  <1>3. PICK x \in S : B = below(x)
    BY <1>2
  <1>4. ASSUME NEW y \in S, <<y, x>> \in R PROVE FALSE
    <2>1. below(y) \subseteq below(x)
      BY <1>4 DEF IsTransitivelyClosedOn
    <2>2. y \in below(x) /\ y \notin below(y)
      BY <1>4
    <2>3. <<below(y), below(x)>> \in StrictSubsetOrdering(S)
      BY <2>1, <2>2 DEF StrictSubsetOrdering
    <2> QED BY <1>2, <1>3, <2>3
  <1> QED BY <1>4

\* The keys sortCards() compares by, in this order; the last is the id.
LaneKey(C, i) == LaneOrder[C[i].lane]
AgeKey(C, i) == IF C[i].lane = "quiet" THEN 0 - C[i].age ELSE C[i].age

\* Cards are sorted by their keys.
LEMMA BeforeByKeys ==
    ASSUME NEW C, WellDerived(C), NEW i \in DOMAIN C, NEW j \in DOMAIN C
    PROVE  /\ LaneKey(C, i) \in Int /\ C[i].rank \in Int /\ AgeKey(C, i) \in Int /\ i \in Int
           /\ Before(C, i, j) <=>
                 \/ LaneKey(C, i) < LaneKey(C, j)
                 \/ /\ LaneKey(C, i) = LaneKey(C, j)
                    /\ \/ C[i].rank < C[j].rank
                       \/ /\ C[i].rank = C[j].rank
                          /\ \/ AgeKey(C, i) < AgeKey(C, j)
                             \/ AgeKey(C, i) = AgeKey(C, j) /\ i < j
  <1>1. /\ LaneOrder["needs-you"] = 0 /\ LaneOrder["waiting"] = 1 /\ LaneOrder["quiet"] = 2
        /\ C[i].lane \in {"needs-you", "waiting", "quiet"}
        /\ C[j].lane \in {"needs-you", "waiting", "quiet"}
    BY DEF LaneOrder, Lanes, WellDerived, Card
  <1>2. \A r \in DOMAIN Rank : Rank[r] \in Nat
    BY RankOf DEF Reasons
  <1>3. /\ C[i].rank \in Nat /\ C[i].age \in Nat /\ i \in Nat
        /\ C[j].rank \in Nat /\ C[j].age \in Nat /\ j \in Nat
    <2>1. C[i] \in Card /\ C[j] \in Card /\ i \in Ids /\ j \in Ids
      BY DEF WellDerived
    <2>2. Ids \subseteq Nat
      BY QueueAssumption DEF Ids, Launcher
    <2> QED BY <1>2, <2>1, <2>2 DEF Card
  <1>4. /\ LaneKey(C, i) \in Int /\ AgeKey(C, i) \in Int
        /\ C[i].lane = C[j].lane <=> LaneKey(C, i) = LaneKey(C, j)
    BY <1>1, <1>3 DEF LaneKey, AgeKey
  <1>5. C[i].lane = C[j].lane =>
          /\ (IF C[i].lane = "quiet" THEN C[j].age < C[i].age ELSE C[i].age < C[j].age)
                <=> AgeKey(C, i) < AgeKey(C, j)
          /\ C[i].age = C[j].age <=> AgeKey(C, i) = AgeKey(C, j)
    BY <1>3 DEF AgeKey
  <1>6. Before(C, i, j) <=>
          \/ LaneKey(C, i) < LaneKey(C, j)
          \/ C[i].lane = C[j].lane /\ C[i].rank < C[j].rank
          \/ /\ C[i].lane = C[j].lane /\ C[i].rank = C[j].rank
             /\ IF C[i].lane = "quiet" THEN C[j].age < C[i].age ELSE C[i].age < C[j].age
          \/ C[i].lane = C[j].lane /\ C[i].rank = C[j].rank /\ C[i].age = C[j].age /\ i < j
    BY DEF Before, LaneKey
  <1>7. Before(C, i, j) <=>
                 \/ LaneKey(C, i) < LaneKey(C, j)
                 \/ /\ LaneKey(C, i) = LaneKey(C, j)
                    /\ \/ C[i].rank < C[j].rank
                       \/ /\ C[i].rank = C[j].rank
                          /\ \/ AgeKey(C, i) < AgeKey(C, j)
                             \/ AgeKey(C, i) = AgeKey(C, j) /\ i < j
    BY <1>4, <1>5, <1>6
  <1> QED BY <1>3, <1>4, <1>7

\* So any cards have a first one: the sort is total, and there are finitely many.
LEMMA TopIsOneOf ==
    ASSUME NEW C, WellDerived(C), NEW S \in SUBSET DOMAIN C, S # {}
    PROVE  Top(C, S) \in S
  <1> DEFINE R == {p \in S \X S : Before(C, p[1], p[2])}
  <1>1. \A i, j \in S : <<i, j>> \in R <=> Before(C, i, j)
    OBVIOUS
  <1>2. ASSUME NEW i \in S PROVE <<i, i>> \notin R
    BY <1>1, BeforeByKeys
  <1>3. IsTransitivelyClosedOn(R, S)
    <2> SUFFICES ASSUME NEW i \in S, NEW j \in S, NEW k \in S, Before(C, i, j), Before(C, j, k)
                 PROVE  Before(C, i, k)
      BY <1>1 DEF IsTransitivelyClosedOn
    <2> DEFINE K(x) == /\ LaneKey(C, x) \in Int /\ C[x].rank \in Int
                       /\ AgeKey(C, x) \in Int /\ x \in Int
    <2>1. K(i) /\ K(j) /\ K(k)
      BY BeforeByKeys
    <2> QED BY <2>1, BeforeByKeys
  <1>4. ASSUME NEW i \in S, NEW j \in S, i # j, ~Before(C, j, i) PROVE Before(C, i, j)
    BY <1>4, BeforeByKeys
  <1>5. IsFiniteSet(S)
    <2>1. IsFiniteSet(Ids)
      BY QueueAssumption, FS_AddElement DEF Ids
    <2> QED BY <2>1, FS_Subset DEF WellDerived
  <1>6. PICK x \in S : \A y \in S : <<y, x>> \notin R
    <2> HIDE DEF R
    <2> QED BY <1>2, <1>3, <1>5, LeastOf
  <1>7. \A y \in S : x = y \/ Before(C, x, y)
    BY <1>1, <1>4, <1>6
  <1> QED BY <1>7 DEF Top

-----------------------------------------------------------------------------
(* The inductive invariant.                                                *)

\* What a page shows was derived by the host, and a page shows nothing until its
\* first message.
ShownIsDerived ==
    /\ shown # NoCards => WellDerived(shown)
    /\ page = "ready" <=> shown # NoCards

\* A note in the pane has a card to be sent with.
PaneHasACard ==
    note # NoNote /\ note.at = "pane" => shown # NoCards /\ Rendered(shown, filter, done) # {}

VInv == ViewTypeOK /\ QInv /\ ShownIsDerived /\ PaneHasACard /\ ViewIsCurrent

\* What the type of the page and of the operator's own state is.
PageTyped ==
    /\ page \in {"closed", "loading", "ready"} /\ chosen \in Ids \cup {Nobody}
    /\ filter \in Filters /\ done \in Eye
    /\ note \in Notes \cup {NoNote} /\ msg \in Messages \cup {NoMsg}

\* With what is shown derived, the rest of the view is typed one by one.
LEMMA ViewIsTyped ==
    /\ VInv <=> QInv /\ PageTyped /\ ShownIsDerived /\ PaneHasACard /\ ViewIsCurrent
    /\ VInv' <=> (QInv /\ PageTyped /\ ShownIsDerived /\ PaneHasACard /\ ViewIsCurrent)'
  BY DEF VInv, ViewTypeOK, PageTyped, ShownIsDerived, WellDerived, QInv

\* No view is open.
LEMMA InitVInv == ViewInit => VInv
  <1> SUFFICES ASSUME ViewInit PROVE VInv
    OBVIOUS
  <1>1. PageTyped
    BY ViewAssumption DEF ViewInit, PageTyped
  <1>2. ShownIsDerived /\ PaneHasACard /\ ViewIsCurrent
    BY DEF ViewInit, ShownIsDerived, PaneHasACard, ViewIsCurrent
  <1> QED BY <1>1, <1>2, InitQInv, ViewIsTyped DEF ViewInit

\* A note survives a rendering as it is or not at all, and in the pane only while
\* there is a card.
LEMMA KeptNote ==
    ASSUME NEW C, NEW D, NEW F, NEW d
    PROVE  /\ Kept(C, D, F, d) \in {note, NoNote}
           /\ note # NoNote /\ Kept(C, D, F, d) = note /\ note.at = "pane" => Rendered(D, F, d) # {}
  BY DEF Kept

\* What is rendered are cards there are.
LEMMA RenderedAreCards ==
    ASSUME NEW C, NEW F, NEW d PROVE Rendered(C, F, d) \in SUBSET DOMAIN C
  BY DEF Rendered

\* An AckControl acks a card: its own, or the one the pane shows.
LEMMA TargetIsACard ==
    ASSUME VInv, note # NoNote PROVE Target(note.at, note.on) \in Ids
  <1>1. note \in Notes /\ note.at \in {"card", "pane"} /\ note.on \in Ids
    BY DEF VInv, ViewTypeOK, Notes
  <1>2. CASE note.at = "pane"
    <2> DEFINE S == Rendered(shown, filter, done)
    <2>1. WellDerived(shown) /\ S # {} /\ S \in SUBSET DOMAIN shown
      BY <1>2, RenderedAreCards DEF VInv, ShownIsDerived, PaneHasACard
    <2>2. Top(shown, S) \in S
      BY <2>1, TopIsOneOf
    <2>3. S \subseteq Ids
      BY <2>1 DEF WellDerived
    <2>4. Target(note.at, note.on) \in S
      BY <1>2, <2>1, <2>2 DEF Target, Pane
    <2> QED BY <2>3, <2>4
  <1> QED BY <1>1, <1>2 DEF Target

\* Steps of the operator that leave the host and what is shown alone.
LEMMA OperatorTypes ==
    ASSUME VInv,
           \/ Escape \/ Send
           \/ \E F \in Filters, d \in Eye : SetFilter(F, d)
           \/ \E i \in Ids :
                 \/ Choose(i)
                 \/ \E at \in {"card", "pane"} : OpenNote(at, i)
                 \/ \E kind \in {"retry", "removeTicket", "withdrawAck"} : Click(kind, i)
    PROVE  PageTyped' /\ PaneHasACard' /\ UNCHANGED <<host, page, shown>>
  <1> USE DEF VInv, ViewTypeOK, PageTyped, PaneHasACard
  <1>1. CASE Escape
    BY <1>1 DEF Escape
  <1>2. CASE Send
    <2>1. note \in Notes /\ Target(note.at, note.on) \in Ids
      BY <1>2, TargetIsACard DEF Send
    <2>2. msg' \in Messages
      BY <1>2, <2>1 DEF Send, Messages, Notes
    <2> QED BY <1>2, <2>2 DEF Send
  <1>3. ASSUME NEW F \in Filters, NEW d \in Eye, SetFilter(F, d)
        PROVE  PageTyped' /\ PaneHasACard' /\ UNCHANGED <<host, page, shown>>
    <2>1. note' = Kept(shown, shown, F, d) /\ filter' = F /\ done' = d
      BY <1>3 DEF SetFilter
    <2>2. shown # NoCards
      BY <1>3 DEF SetFilter, ShownIsDerived
    <2> QED BY <1>3, <2>1, <2>2, KeptNote DEF SetFilter
  <1>4. ASSUME NEW i \in Ids, Choose(i)
        PROVE  PageTyped' /\ PaneHasACard' /\ UNCHANGED <<host, page, shown>>
    BY <1>4 DEF Choose
  <1>5. ASSUME NEW i \in Ids, NEW at \in {"card", "pane"}, OpenNote(at, i)
        PROVE  PageTyped' /\ PaneHasACard' /\ UNCHANGED <<host, page, shown>>
    <2>1. shown # NoCards /\ Rendered(shown, filter, done) # {}
      BY <1>5 DEF OpenNote, Visible
    <2> QED BY <1>5, <2>1 DEF OpenNote, Notes
  <1>6. ASSUME NEW i \in Ids, NEW kind \in {"retry", "removeTicket", "withdrawAck"}, Click(kind, i)
        PROVE  PageTyped' /\ PaneHasACard' /\ UNCHANGED <<host, page, shown>>
    BY <1>6 DEF Click, Messages
  <1> QED BY <1>1, <1>2, <1>3, <1>4, <1>5, <1>6

\* What the host does with a message leaves its own state typed, and what it has
\* pushed and told alone.
LEMMA DeliverTypes ==
    ASSUME VInv, Deliver
    PROVE  TypeOK' /\ UNCHANGED <<last, told>>
  <1> USE DEF VInv, QInv
  <1>1. {"none", "pending", "spent"} \subseteq Acks
    BY QueueAssumption, ViewAssumption
  <1>2. ASSUME NEW k, NEW a \in Acks, PutAck(k, a) PROVE disk' \in Disks
    <2>1. CASE k \in Keys
      <3>1. disk[k] \in Files
        BY <2>1 DEF TypeOK, Disks
      <3>2. [disk[k] EXCEPT !.ack = a,
                            !.late = IF a = disk[k].ack THEN @ ELSE @ \ {"ack"}] \in Files
        BY <3>1 DEF Files
      <3> QED BY <1>2, <2>1, <3>1 DEF PutAck, TypeOK, Disks, Files
    <2>2. CASE k \notin Keys
      BY <1>2, <2>2 DEF PutAck, TypeOK, Disks
    <2> QED BY <2>1, <2>2
  <1>3. ASSUME NEW k, HandleAck(k) PROVE TypeOK' \/ last' # last \/ told' # told
    <2>1. CASE UNCHANGED <<disk, dirty>>
      BY <1>3, <2>1 DEF HandleAck, TypeOK
    <2>2. CASE ~UNCHANGED <<disk, dirty>>
      <3>1. k \in Keys /\ PutAck(k, Acked(k)) /\ dirty' = TRUE
        BY <1>3, <2>2 DEF HandleAck, Good
      <3>2. disk[k].ack \in Acks
        BY <3>1 DEF TypeOK, Disks, Files
      <3>3. Acked(k) \in Acks
        BY <1>1, <3>2 DEF Acked
      <3> QED BY <1>2, <1>3, <3>1, <3>3 DEF HandleAck, TypeOK
    <2> QED BY <2>1, <2>2
  <1>4. ASSUME NEW k \in Ids, HandleWithdraw(k) PROVE TypeOK' \/ last' # last \/ told' # told
    <2> DEFINE a == IF disk[k].ack \in {"pending", "stale"} THEN "none" ELSE disk[k].ack
    <2>1. k \in Keys => a \in Acks
      BY <1>1 DEF TypeOK, Disks, Files
    <2>2. disk' \in Disks
      <3>1. CASE k \in Keys
        BY <1>2, <1>4, <2>1, <3>1 DEF HandleWithdraw
      <3>2. CASE k \notin Keys
        BY <1>4, <3>2 DEF HandleWithdraw, PutAck, TypeOK, Disks
      <3> QED BY <3>1, <3>2
    <2> QED BY <1>4, <2>2 DEF HandleWithdraw, TypeOK
  <1>5. ASSUME NEW k, HandleRemove(k) PROVE TypeOK' \/ last' # last \/ told' # told
    <2>1. CASE UNCHANGED <<disk, dirty>>
      BY <1>5, <2>1 DEF HandleRemove, TypeOK
    <2>2. CASE ~UNCHANGED <<disk, dirty>>
      <3>1. k \in Keys /\ disk' = [disk EXCEPT ![k].ticket = Absent] /\ dirty' = TRUE
        BY <1>5, <2>2 DEF HandleRemove, Good
      <3>2. disk' \in Disks
        BY <3>1 DEF TypeOK, Disks, Files
      <3> QED BY <1>5, <3>1, <3>2 DEF HandleRemove, TypeOK
    <2> QED BY <2>1, <2>2
  <1>6. HandleRetry => TypeOK' \/ last' # last \/ told' # told
    BY DEF HandleRetry, TypeOK
  <1>7. msg \in Messages /\ msg.to \in Ids
    BY DEF Deliver, ViewTypeOK, Messages
  <1> QED BY <1>3, <1>4, <1>5, <1>6, <1>7 DEF Deliver

\* Every step of the page, the operator and the host keeps the invariant.
LEMMA NextVInv == VInv /\ [ViewNext]_vars => VInv'
  <1> SUFFICES ASSUME VInv, [ViewNext]_vars PROVE VInv'
    OBVIOUS
  <1>0. QInv /\ PageTyped /\ ShownIsDerived /\ PaneHasACard /\ ViewIsCurrent
    BY ViewIsTyped
  <1>1. ASSUME UNCHANGED host PROVE QInv'
    <2>1. TypeOK' /\ UNCHANGED <<last, told>>
      BY <1>0, <1>1 DEF QInv, TypeOK, host
    <2> QED BY <1>0, <2>1, UntoldKeeps
  <1>2. CASE Open \/ Close
    <2>1. /\ UNCHANGED <<host, msg>> /\ page' \in {"loading", "closed"}
          /\ shown' = NoCards /\ chosen' = Nobody /\ filter' = Ids /\ done' = FALSE /\ note' = NoNote
      BY <1>2 DEF Open, Close, Fresh
    <2>2. PageTyped'
      BY <1>0, <2>1, ViewAssumption DEF PageTyped
    <2>3. (ShownIsDerived /\ PaneHasACard /\ ViewIsCurrent)'
      BY <2>1 DEF ShownIsDerived, PaneHasACard, ViewIsCurrent
    <2> QED BY <1>1, <2>1, <2>2, <2>3, ViewIsTyped
  <1>3. CASE Ready
    <2>1. UNCHANGED <<host, chosen, filter, done, note, msg>> /\ page' = "ready"
      BY <1>3 DEF Ready
    <2>2. shown = NoCards /\ shown' = IF last = NoCards THEN Cards ELSE last
      BY <1>0, <1>3 DEF Ready, ShownIsDerived
    <2>3. WellDerived(shown')
      BY <1>0, <2>2, CardsAreDerived DEF QInv, TypeOK, LastIsDerived
    <2>4. shown' # NoCards
      BY <2>3 DEF WellDerived
    <2>5. PageTyped'
      BY <1>0, <2>1 DEF PageTyped
    <2>6. (ShownIsDerived /\ PaneHasACard /\ ViewIsCurrent)'
      BY <1>0, <2>1, <2>2, <2>3, <2>4 DEF ShownIsDerived, PaneHasACard, ViewIsCurrent, host
    <2> QED BY <1>1, <2>1, <2>5, <2>6, ViewIsTyped
  <1>4. CASE PushToView
    <2>1. QInv' /\ last' = Cards /\ WellDerived(Cards)
      BY <1>0, <1>4, PushKeeps DEF PushToView
    <2>2. UNCHANGED <<page, chosen, filter, done, msg>>
      BY <1>4 DEF PushToView
    <2>3. Cards # NoCards
      BY <2>1 DEF WellDerived
    <2>4. CASE page = "ready"
      <3>1. shown' = Cards /\ note' = Kept(shown, Cards, filter, done)
        BY <1>4, <2>4 DEF PushToView
      <3>2. PageTyped' /\ PaneHasACard'
        BY <1>0, <2>2, <2>3, <3>1, KeptNote DEF PageTyped, PaneHasACard
      <3>3. (ShownIsDerived /\ ViewIsCurrent)'
        BY <2>1, <2>2, <2>3, <2>4, <3>1 DEF ShownIsDerived, ViewIsCurrent
      <3> QED BY <2>1, <3>2, <3>3, ViewIsTyped
    <2>5. CASE page # "ready"
      <3>1. UNCHANGED <<shown, note>>
        BY <1>4, <2>5 DEF PushToView
      <3>2. PageTyped' /\ (ShownIsDerived /\ PaneHasACard /\ ViewIsCurrent)'
        BY <1>0, <2>2, <2>5, <3>1 DEF PageTyped, ShownIsDerived, PaneHasACard, ViewIsCurrent
      <3> QED BY <2>1, <3>2, ViewIsTyped
    <2> QED BY <2>4, <2>5
  <1>5. ASSUME TypeOK', UNCHANGED <<last, told, page, shown, chosen, filter, done, note>>,
               msg' \in Messages \cup {NoMsg}
        PROVE  VInv'
    <2>1. QInv'
      BY <1>0, <1>5, UntoldKeeps
    <2>2. PageTyped' /\ (ShownIsDerived /\ PaneHasACard /\ ViewIsCurrent)'
      BY <1>0, <1>5 DEF PageTyped, ShownIsDerived, PaneHasACard, ViewIsCurrent
    <2> QED BY <2>1, <2>2, ViewIsTyped
  <1>6. CASE HostStep
    <2>1. Otherwise /\ UNCHANGED view
      BY <1>6 DEF HostStep, Otherwise
    <2>2. TypeOK' /\ UNCHANGED <<last, told>>
      BY <1>0, <2>1, OtherwiseKeeps DEF QInv
    <2> QED BY <1>0, <1>5, <2>1, <2>2 DEF view, PageTyped
  <1>7. CASE Deliver
    BY <1>5, <1>7, DeliverTypes DEF Deliver
  <1>8. CASE UNCHANGED vars
    BY <1>0, <1>5, <1>8 DEF vars, host, view, QInv, TypeOK, PageTyped
  <1>9. CASE Operator /\ ~Open /\ ~Close
    <2>1. PageTyped' /\ PaneHasACard' /\ UNCHANGED <<host, page, shown>>
      BY <1>9, OperatorTypes DEF Operator
    <2>2. (ShownIsDerived /\ ViewIsCurrent)'
      BY <1>0, <2>1 DEF ShownIsDerived, ViewIsCurrent, host
    <2> QED BY <1>1, <2>1, <2>2, ViewIsTyped
  <1> QED BY <1>2, <1>3, <1>4, <1>6, <1>7, <1>8, <1>9 DEF ViewNext

-----------------------------------------------------------------------------
\* A view, its messages and the host behind it only take the types declared.
THEOREM ViewTypes == ViewSpec => []ViewTypeOK
  <1>1. VInv => ViewTypeOK
    BY DEF VInv
  <1> QED BY InitVInv, NextVInv, <1>1, PTL DEF ViewSpec

\* A page that came up shows what was pushed last, whenever it was opened.
THEOREM PagesAreCurrent == ViewSpec => []ViewIsCurrent
  <1>1. VInv => ViewIsCurrent
    BY DEF VInv
  <1> QED BY InitVInv, NextVInv, <1>1, PTL DEF ViewSpec

\* Whatever is clicked and delivered in between, the toasts stay exact and nobody
\* starves.
THEOREM ViewsDisturbNothing == ViewSpec => [](NobodyStarves /\ AlarmsAreTold)
  <1>1. VInv => NobodyStarves /\ AlarmsAreTold
    BY TypedNeverStarves DEF VInv, QInv
  <1> QED BY InitVInv, NextVInv, <1>1, PTL DEF ViewSpec

\* An ack is only ever sent for a card: the pane has one to offer as long as a note
\* is open in it.
THEOREM AcksNameACard ==
    ViewSpec => [](note # NoNote => Target(note.at, note.on) \in Ids)
  <1>1. VInv => (note # NoNote => Target(note.at, note.on) \in Ids)
    BY TargetIsACard
  <1> QED BY InitVInv, NextVInv, <1>1, PTL DEF ViewSpec

\* A click on Remove, however late it is delivered, takes only a ticket that is
\* settled on disk.
THEOREM RemovesOnlySettled == ViewSpec => RevivedIsNotRemoved
  <1> DEFINE Gone(k) == msg # NoMsg /\ msg.kind = "removeTicket" /\ msg' = NoMsg /\ disk'[k] # disk[k]
  <1> DEFINE Settled(k) == disk[k].ticket \in Tickets /\ IsQuiet(disk[k].ticket)
  <1>1. ASSUME VInv, [ViewNext]_vars, NEW k \in Keys, Gone(k) PROVE Settled(k)
    <2>1. Deliver
      BY <1>1 DEF ViewNext, HostStep, PushToView, Ready, Operator, Open, Close, Escape, Send,
            SetFilter, Choose, OpenNote, Click, view, vars
    <2>2. HandleRemove(msg.to)
      BY <1>1, <2>1 DEF Deliver
    <2>3. Good(disk, msg.to) /\ IsQuiet(disk[msg.to].ticket)
            /\ disk' = [disk EXCEPT ![msg.to].ticket = Absent]
      BY <1>1, <2>2 DEF HandleRemove
    <2>4. k = msg.to
      BY <1>1, <2>3 DEF VInv, ViewTypeOK, TypeOK, Disks
    <2> QED BY <2>3, <2>4 DEF Good
  <1>2. VInv /\ [ViewNext]_vars => [\A k \in Keys : Gone(k) => Settled(k)]_vars
    BY <1>1
  <1> QED BY InitVInv, NextVInv, <1>2, PTL DEF ViewSpec, RevivedIsNotRemoved

=============================================================================
