---------------------------- MODULE QueueProofs ----------------------------
(***************************************************************************)
(* For any tickets, files and histories of pushes: nothing that waits on   *)
(* the operator rests in another lane, and the toasts told the operator of *)
(* exactly the alarms that are up.                                         *)
(***************************************************************************)
EXTENDS Queue, WellFoundedInduction, TLAPS

-----------------------------------------------------------------------------
(* Ranks and cards.                                                        *)

\* The reasons for the operator rank from 0 to 8, each with a rank of its own,
\* below everything else.
LEMMA RankOf ==
    /\ Rank["launcher-failed"] = 0 /\ Rank["worker-crashed"] = 1 /\ Rank["stale-ack"] = 2
    /\ Rank["blocked"] = 3 /\ Rank["owner"] = 4 /\ Rank["review"] = 5 /\ Rank["merge"] = 6
    /\ Rank["orphaned-ci"] = 7 /\ Rank["degraded"] = 8
    /\ Rank["waiting"] = 50 /\ Rank["acked"] = 60 /\ Rank["quiet"] = 90
    /\ DOMAIN Rank = Reasons \cup {"waiting", "acked", "quiet"}
  BY DEF Rank, Reasons

\* Of any reasons that hold, one comes first.
LEMMA FirstIsOneOf ==
    ASSUME NEW R \in SUBSET Reasons, R # {}
    PROVE  First(R) \in R /\ \A s \in R : Rank[First(R)] <= Rank[s]
  <1>1. \A r \in Reasons : Rank[r] \in Nat /\ Rank[r] < 9
    BY RankOf DEF Reasons
  <1> DEFINE T == {Rank[r] : r \in R}
  <1>2. T \subseteq Nat /\ T # {}
    BY <1>1
  <1>3. PICK x \in T : \A y \in T : <<y, x>> \notin OpToRel(<, Nat)
    <2> HIDE DEF T
    <2> QED BY <1>2, NatLessThanWellFounded, WFMin
  <1>4. \A y \in T : x <= y
    <2> SUFFICES ASSUME NEW y \in T, y < x PROVE FALSE
      BY <1>2
    <2> HIDE DEF T
    <2>1. <<y, x>> \in OpToRel(<, Nat)
      BY <1>2 DEF OpToRel
    <2> QED BY <1>3, <2>1
  <1>5. \E r \in R : \A s \in R : Rank[r] <= Rank[s]
    BY <1>4
  <1> QED BY <1>5 DEF First

\* What a key may ask for are reasons.
LEMMA NeedsYouAreReasons ==
    ASSUME NEW k, NEW f PROVE NeedsYou(k, f) \in SUBSET Reasons
  BY DEF NeedsYou, Asked, Reasons

\* Derived cards that are shown: well typed, and a card gives a reason only to
\* the operator.
WellDerived(C) ==
    /\ C # NoCards
    /\ DOMAIN C \subseteq Ids
    /\ \A i \in DOMAIN C : C[i] \in Card /\ (C[i].reason # "none" => C[i].lane = "needs-you")

\* The card of a file that is there.
LEMMA CardIsDerived ==
    ASSUME NEW k, NEW f \in Files, f.ticket # Absent
    PROVE  CardOf(k, f) \in Card /\ (CardOf(k, f).reason # "none" => CardOf(k, f).lane = "needs-you")
  <1> DEFINE R == NeedsYou(k, f)
  <1>1. CASE f.ticket = Corrupt
    BY <1>1, RankOf DEF CardOf, Alarm, Card, Reasons, Lanes, AckKinds
  <1>2. CASE f.ticket # Corrupt
    <2>1. f.ticket \in Ticket /\ AckState(f) \in AckKinds /\ f.ticket.since \in Nat
      BY <1>2, QueueAssumption DEF Files, Ticket, AckState, AckKinds
    <2>2. Ackable(f) \in BOOLEAN /\ ("ticket" \in f.late) \in BOOLEAN
      BY <2>1 DEF Ackable
    <2>3. CASE IsQuiet(f.ticket)
      <3>1. CardOf(k, f) = SettledCard(f)
        BY <1>2, <2>3 DEF CardOf, TicketCard
      <3> QED BY <2>1, <2>2, <3>1, RankOf DEF SettledCard, Card, Lanes
    <2>4. CASE ~IsQuiet(f.ticket)
      <3> DEFINE lane   == IF R # {} THEN "needs-you" ELSE "waiting"
      <3> DEFINE reason == IF R # {} THEN First(R) ELSE "none"
      <3> DEFINE rank   == IF R # {} THEN Rank[First(R)]
                           ELSE Rank[IF AckState(f) \in Honored THEN "acked" ELSE "waiting"]
      <3>1. CardOf(k, f) = [lane |-> lane, reason |-> reason, rank |-> rank,
                            age |-> f.ticket.since, chip |-> AckState(f),
                            ackable |-> Ackable(f), hidden |-> FALSE]
        BY <1>2, <2>4 DEF CardOf, TicketCard
      <3>2. R # {} => First(R) \in Reasons
        BY NeedsYouAreReasons, FirstIsOneOf
      <3>3. lane \in Lanes /\ reason \in Reasons \cup {"none"} /\ (reason # "none" => lane = "needs-you")
        BY <3>2 DEF Lanes
      <3>4. rank \in {Rank[r] : r \in DOMAIN Rank}
        BY <3>2, RankOf
      <3> HIDE DEF lane, reason, rank
      <3> QED BY <2>1, <2>2, <3>1, <3>3, <3>4 DEF Card
    <2> QED BY <2>3, <2>4
  <1> QED BY <1>1, <1>2

\* What buildDisplayState() makes of a directory.
LEMMA CardsAreDerived ==
    ASSUME loaded \in Disks \cup {NoLoad}
    PROVE  WellDerived(Cards)
  <1> DEFINE D == IF loaded = NoLoad THEN {} ELSE Present(loaded)
  <1> DEFINE L == IF failed THEN {Launcher} ELSE {}
  <1>1. D \cup L \subseteq Ids /\ DOMAIN Cards = D \cup L
    BY DEF Cards, Present, Ids
  <1>2. ASSUME NEW i \in D \cup L
        PROVE  Cards[i] \in Card /\ (Cards[i].reason # "none" => Cards[i].lane = "needs-you")
    <2>1. CASE i = Launcher
      <3>1. Cards[i] = Alarm("launcher-failed")
        BY <1>2, <2>1 DEF Cards
      <3> QED BY <3>1, RankOf DEF Alarm, Card, Reasons, Lanes, AckKinds
    <2>2. CASE i # Launcher
      <3>1. i \in Keys /\ loaded \in Disks /\ loaded[i].ticket # Absent
        BY <1>2, <2>2 DEF Present
      <3>2. loaded[i] \in Files
        BY <3>1 DEF Disks
      <3>3. Cards[i] = CardOf(i, loaded[i])
        BY <1>2, <2>2 DEF Cards
      <3> QED BY <3>1, <3>2, <3>3, CardIsDerived
    <2> QED BY <2>1, <2>2
  <1>3. Cards \in [D \cup L -> Card]
    <2>1. Cards = [i \in DOMAIN Cards |-> Cards[i]]
      BY DEF Cards
    <2> QED BY <1>1, <1>2, <2>1
  <1>4. Cards # NoCards
    BY <1>1, <1>3, QueueNulls
  <1> QED BY <1>1, <1>2, <1>4 DEF WellDerived

-----------------------------------------------------------------------------
(* The inductive invariant.                                                *)

\* What was pushed last was derived by the rules above, so that a reason in it is
\* one for the operator.
LastIsDerived == last # NoCards => WellDerived(last)

QInv == TypeOK /\ LastIsDerived /\ AlarmsAreTold

\* A reload has been asked for, nothing was pushed, nobody was told.
LEMMA InitQInv == Init => QInv
  <1> SUFFICES ASSUME Init PROVE QInv
    OBVIOUS
  <1>1. TypeOK
    BY DEF Init, TypeOK
  <1>2. AlarmsAreTold
    <2>1. Previous = NoCard /\ DOMAIN NoCard = {}
      BY DEF Init, Previous, NoCard
    <2> QED BY <2>1 DEF Init, AlarmsAreTold
  <1> QED BY <1>1, <1>2 DEF Init, QInv, LastIsDerived

\* A push remembers what it derived and tells the operator of it.
LEMMA PushKeeps ==
    ASSUME QInv, Push
    PROVE  QInv' /\ last' = Cards /\ WellDerived(Cards)
  <1> DEFINE next == Cards
  <1>1. WellDerived(next) /\ last' = next /\ told' = Told(next)
    BY CardsAreDerived DEF QInv, TypeOK, Push
  <1>2. Previous' = next
    BY <1>1 DEF Previous, WellDerived
  <1>3. told \in [Ids -> Reasons \cup {"none"}] /\ "none" \notin Ringing
    BY DEF QInv, TypeOK, Ringing, Reasons
  <1>4. ASSUME NEW i \in DOMAIN next PROVE next[i].reason \in Reasons \cup {"none"}
    BY <1>1, <1>4 DEF WellDerived, Card
  <1>5. told' \in [Ids -> Reasons \cup {"none"}]
    BY <1>1, <1>3, <1>4 DEF Told
  <1>6. ASSUME NEW i \in Ids
        PROVE  told'[i] = IF i \in DOMAIN next /\ next[i].reason \in Ringing
                          THEN next[i].reason ELSE "none"
    <2> DEFINE up == {j \in DOMAIN Previous : Previous[j].reason \in Ringing}
    <2>1. told[i] = IF i \in up THEN Previous[i].reason ELSE "none"
      BY DEF QInv, AlarmsAreTold
    <2>2. told'[i] = IF i \notin DOMAIN next THEN "none"
                     ELSE IF Rings(Previous, next, i) THEN next[i].reason
                     ELSE IF next[i].reason = told[i] THEN told[i] ELSE "none"
      BY <1>1 DEF Told
    <2>3. CASE i \in DOMAIN next /\ next[i].reason \in Ringing
      <3>1. next[i].lane = "needs-you"
        BY <1>1, <1>3, <2>3 DEF WellDerived
      <3>2. ~Rings(Previous, next, i) => i \in DOMAIN Previous /\ Previous[i].reason = next[i].reason
        BY <2>3, <3>1 DEF Rings
      <3> QED BY <2>1, <2>2, <2>3, <3>2
    <2>4. CASE i \in DOMAIN next /\ next[i].reason \notin Ringing
      BY <1>3, <2>1, <2>2, <2>4 DEF Rings
    <2> QED BY <2>2, <2>3, <2>4
  <1>7. AlarmsAreTold'
    BY <1>2, <1>6 DEF AlarmsAreTold
  <1>8. TypeOK'
    BY <1>1, <1>5 DEF QInv, TypeOK, Push, WellDerived
  <1> QED BY <1>1, <1>7, <1>8 DEF QInv, LastIsDerived

\* Everything else the host sees or does.
Otherwise ==
    \/ Reload \/ LoopChanges
    \/ \E k \in Keys :
          \/ \E t \in Tickets \cup {Absent, Corrupt}, a \in Acks : Edit(k, t, a)
          \/ \E w \in Late : TimePasses(k, w)
          \/ \E o \in Forge \cup {NoInfo} : ForgeNews(k, o)

\* Only a push changes what the operator sees and was told.
LEMMA OtherwiseKeeps ==
    ASSUME TypeOK, Otherwise
    PROVE  TypeOK' /\ UNCHANGED <<last, told>>
  <1>1. CASE Reload
    BY <1>1 DEF Reload, TypeOK
  <1>2. CASE LoopChanges
    BY <1>2, QueueAssumption DEF LoopChanges, TypeOK
  <1>3. ASSUME NEW k \in Keys, NEW t \in Tickets \cup {Absent, Corrupt}, NEW a \in Acks, Edit(k, t, a)
        PROVE  TypeOK' /\ UNCHANGED <<last, told>>
    <2>1. disk' \in Disks /\ dirty' = TRUE
      <3> DEFINE f == [ticket |-> t, ack |-> a,
                       late |-> disk[k].late \ ((IF t # disk[k].ticket THEN {"ticket"} ELSE {})
                                                \cup (IF a # disk[k].ack THEN {"ack"} ELSE {}))]
      <3>1. disk' = [disk EXCEPT ![k] = f] /\ dirty' = TRUE
        BY <1>3 DEF Edit, Write
      <3>2. disk \in Disks /\ disk[k].late \subseteq Late
        BY DEF TypeOK, Disks, Files
      <3>3. f \in Files
        BY <3>2 DEF Files
      <3> HIDE DEF f
      <3> QED BY <3>1, <3>2, <3>3 DEF Disks
    <2> QED BY <1>3, <2>1 DEF Edit, TypeOK
  <1>4. ASSUME NEW k \in Keys, NEW w \in Late, TimePasses(k, w)
        PROVE  TypeOK' /\ UNCHANGED <<last, told>>
    <2> DEFINE aged(d) == [d EXCEPT ![k].late = @ \cup {w}]
    <2>1. ASSUME NEW d \in Disks PROVE aged(d) \in Disks
      <3>1. d[k] \in Files
        BY DEF Disks
      <3> QED BY <3>1 DEF Disks, Files
    <2>2. disk' = aged(disk) /\ loaded' = IF loaded = NoLoad THEN NoLoad ELSE aged(loaded)
      BY <1>4 DEF TimePasses
    <2> HIDE DEF aged
    <2> QED BY <1>4, <2>1, <2>2 DEF TimePasses, TypeOK
  <1>5. ASSUME NEW k \in Keys, NEW o \in Forge \cup {NoInfo}, ForgeNews(k, o)
        PROVE  TypeOK' /\ UNCHANGED <<last, told>>
    BY <1>5 DEF ForgeNews, TypeOK
  <1> QED BY <1>1, <1>2, <1>3, <1>4, <1>5 DEF Otherwise

\* As long as nothing is pushed, nothing is told.
LEMMA UntoldKeeps ==
    ASSUME QInv, TypeOK', UNCHANGED <<last, told>> PROVE QInv'
  BY DEF QInv, LastIsDerived, AlarmsAreTold, Previous

\* Every step keeps the invariant.
LEMMA NextQInv == QInv /\ [Next]_host => QInv'
  <1>1. ASSUME QInv, Otherwise PROVE QInv'
    BY <1>1, OtherwiseKeeps, UntoldKeeps DEF QInv
  <1>2. ASSUME QInv, UNCHANGED host PROVE QInv'
    <2>1. TypeOK'
      BY <1>2 DEF QInv, TypeOK, host
    <2> QED BY <1>2, <2>1, UntoldKeeps DEF host
  <1> QED BY <1>1, <1>2, PushKeeps DEF Next, Otherwise

-----------------------------------------------------------------------------
\* The host only ever holds files, cards and toasts of their types.
THEOREM QueueTypes == Spec => []TypeOK
  <1>1. QInv => TypeOK
    BY DEF QInv
  <1> QED BY InitQInv, NextQInv, <1>1, PTL DEF Spec

\* After any number of pushes, the toasts that rang are those of the alarms that
\* are up, although each push compares itself with the one before only.
THEOREM ToastsAreExact == Spec => []AlarmsAreTold
  <1>1. QInv => AlarmsAreTold
    BY DEF QInv
  <1> QED BY InitQInv, NextQInv, <1>1, PTL DEF Spec

\* The rules of the lanes leave nothing out: with any file and any word of the
\* forge, what rests in another lane is settled or another's to move.
LEMMA OthersMoveWhatRests ==
    ASSUME NEW k \in Keys, NEW f \in Files, f.ticket # Absent, CardOf(k, f).lane # "needs-you",
           overlay \in [Keys -> Forge \cup {NoInfo}]
    PROVE  /\ f.ticket # Corrupt
           /\ \/ IsQuiet(f.ticket)
              \/ OthersTurn(k, f) /\ ~Unattended(f.ticket, PrRow(k, f.ticket))
  <1>1. f.ticket # Corrupt
    BY DEF CardOf, Alarm
  <1>2. f.ticket \in Ticket
    BY <1>1, QueueAssumption DEF Files
  <1>3. CASE ~IsQuiet(f.ticket)
    <2>1. NeedsYou(k, f) = {}
      BY <1>1, <1>3 DEF CardOf, TicketCard
    <2>2. ~OrphanedFailingCi(k, f.ticket) /\ (AckState(f) \in Honored \/ Asked(k, f.ticket) = {})
      BY <2>1 DEF NeedsYou
    <2>3. ~Unattended(f.ticket, PrRow(k, f.ticket))
      BY <2>2 DEF OrphanedFailingCi, Unattended
    <2>4. CASE Asked(k, f.ticket) = {}
      <3>1. ~f.ticket.blocked /\ f.ticket.waiting \notin {"owner", "comment", "merge"}
        BY <2>4 DEF Asked
      <3>2. f.ticket.waiting \in {"none", "build", "review"}
        BY <1>2, <3>1 DEF Ticket, Waiting
      <3>3. CASE f.ticket.waiting = "review"
        <4>1. ReviewIsSomeoneElses(k)
          BY <2>4, <3>1, <3>3 DEF Asked
        <4>2. overlay[k].asked \subseteq {"me", "other"}
          BY <4>1, QueueAssumption DEF ReviewIsSomeoneElses, Info
        <4>3. "other" \in overlay[k].asked
          BY <4>1, <4>2 DEF ReviewIsSomeoneElses
        <4> QED BY <1>1, <2>3, <3>3, <4>1, <4>3 DEF OthersTurn, ReviewIsSomeoneElses
      <3> QED BY <1>1, <2>3, <3>1, <3>2, <3>3 DEF OthersTurn
    <2> QED BY <1>1, <2>2, <2>3, <2>4 DEF OthersTurn
  <1> QED BY <1>1, <1>3

\* Nothing that waits on the operator rests in another lane.
LEMMA TypedNeverStarves == TypeOK => NobodyStarves
  <1> SUFFICES ASSUME TypeOK, loaded # NoLoad, NEW k \in Present(loaded), Cards[k].lane # "needs-you"
               PROVE  /\ loaded[k].ticket # Corrupt
                      /\ \/ IsQuiet(loaded[k].ticket)
                         \/ /\ OthersTurn(k, loaded[k])
                            /\ ~Unattended(loaded[k].ticket, PrRow(k, loaded[k].ticket))
    BY DEF NobodyStarves
  <1>1. k \in Keys /\ loaded[k] \in Files /\ loaded[k].ticket # Absent
    BY DEF Present, TypeOK, Disks
  <1>2. k # Launcher
    BY <1>1, QueueAssumption DEF Launcher
  <1>3. Cards[k] = CardOf(k, loaded[k])
    BY <1>2 DEF Cards
  <1> QED BY <1>1, <1>3, OthersMoveWhatRests DEF TypeOK

\* In every reachable state of the queue, nobody who waits on the operator starves.
THEOREM NobodyEverStarves == Spec => []NobodyStarves
  <1>1. QInv => NobodyStarves
    BY TypedNeverStarves DEF QInv
  <1> QED BY InitQInv, NextQInv, <1>1, PTL DEF Spec

=============================================================================
