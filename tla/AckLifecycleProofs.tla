-------------------------- MODULE AckLifecycleProofs --------------------------
(***************************************************************************)
(* For any number of requests: the files keep the promise of the inbox     *)
(* (AckSignal), and no completed pass leaves an ack it could have seen.    *)
(***************************************************************************)
EXTENDS AckLifecycle, SequenceTheorems, TLAPS

\* The types the argument needs; the order of the time stamps is no part of it.
Typed ==
    /\ request \in Maybe /\ raised \in Maybe
    /\ noted \in [Requests -> Notes]
    /\ inbox \subseteq Requests
    /\ listed \subseteq Requests
    /\ held \in Maybe
    /\ heldTicket \in Maybe
    /\ heldNoted \in BOOLEAN
    /\ view \in Views
    /\ target \in Maybe
    /\ older \subseteq Requests
    /\ passedOver \subseteq Requests

\* Between passes nothing is in hand.
Idle == pc # "acks" => listed = {} /\ held = 0 /\ ~heldNoted

\* Only an ack whose note is on disk is about to be deleted.
NotedFirst == heldNoted => held # 0 /\ noted[held] # "none"

\* An ack in hand whose file is gone was withdrawn, or is recorded.
InHand(r) == r \in listed \/ (r = held /\ ~heldNoted)
Traced == \A r \in Requests : InHand(r) => r \in inbox \cup withdrawn \/ noted[r] # "none"

\* What was created before this pass started is in its hand while it is on disk.
Seen == pc = "acks" => older \cap inbox \subseteq listed \cup {held}

IInv == Typed /\ Idle /\ NotedFirst /\ Traced /\ Seen /\ NoFalseAlarm

\* Nothing is sent, read or shown to begin with.
LEMMA InitIInv == Init => IInv
  <1> SUFFICES ASSUME Init PROVE IInv
    OBVIOUS
  <1>1. 0 \in Maybe /\ noted \in [Requests -> Notes]
    BY AckAssumption DEF Init, Maybe, Notes
  <1>2. view \in Views
    BY <1>1 DEF Init, Views, Loaded
  <1>3. Typed
    BY <1>1, <1>2 DEF Init, Typed
  <1>4. Idle /\ NotedFirst /\ Traced /\ Seen /\ NoFalseAlarm
    BY DEF Init, Idle, NotedFirst, Traced, InHand, Seen, NoFalseAlarm, Loaded, Requests
  <1> QED BY <1>3, <1>4 DEF IInv

\* Loading what is on disk shows what is on disk.
LEMMA LoadedIsTyped == IInv => Loaded \in Views
  BY DEF IInv, Typed, Views, Loaded

\* Every step of the host and of the pass keeps the invariant.
LEMMA NextIInv == IInv /\ [Next]_vars => IInv'
  <1> SUFFICES ASSUME IInv, [Next]_vars PROVE IInv'
    OBVIOUS
  <1> USE AckAssumption DEF Requests, Maybe
  <1> USE DEF IInv, Typed, Idle, NotedFirst, Traced, InHand, Seen, NoFalseAlarm
  <1>0. 0 \in Maybe
    OBVIOUS
  <1>1. CASE Create(view.request) /\ Send
    <2>1. view' \in Views /\ view'.inbox = view.inbox
            /\ view'.passedOver = view.passedOver \ {view.request}
      BY <1>1 DEF Create, Views
    <2>2. view.request \in Requests
      BY <1>1 DEF Send, Views
    <2>3. Typed'
      BY <1>1, <2>1, <2>2 DEF Create, Send, ticket
    <2>4. (Idle /\ NotedFirst)'
      BY <1>1 DEF Create, Send, ticket
    <2>5. Traced'
      BY <1>1 DEF Create, Send, ticket
    <2>6. (Seen /\ NoFalseAlarm)'
      BY <1>1, <2>1 DEF Create, Send, ticket
    <2> QED BY <2>3, <2>4, <2>5, <2>6
  <1>2. CASE Send /\ view.request \in inbox
    BY <1>2 DEF Send, Create, Views, ticket
  <1>3. CASE OpenNote \/ Escape \/ SendFails \/ Remember
    <2>1. target' \in Maybe /\ UNCHANGED <<ticket, inbox, pass, passedOver, view, withdrawn>>
      BY <1>3 DEF OpenNote, Escape, SendFails, Remember
    <2> QED BY <2>1 DEF ticket, pass
  <1>4. ASSUME NEW r \in Requests, Withdraw(r) PROVE IInv'
    <2>1. UNCHANGED <<ticket, pass, passedOver, view>> /\ target' = r /\ inbox' = inbox \ {r}
      BY <1>4 DEF Withdraw
    <2>2. (Typed /\ Idle /\ NotedFirst /\ Seen /\ NoFalseAlarm)'
      BY <2>1 DEF ticket, pass
    <2>3. Traced'
      BY <1>4, <2>1 DEF Withdraw, ticket, pass
    <2> QED BY <2>2, <2>3
  <1>5. CASE Recheck \/ Reload \/ HostRestarts
    <2>1. view' = Loaded /\ target' \in Maybe /\ UNCHANGED <<ticket, inbox, pass, passedOver, withdrawn>>
      BY <1>5 DEF Recheck, Reload, HostRestarts, Load
    <2>2. view'.inbox = inbox /\ view'.passedOver = passedOver /\ view' \in Views
      BY <2>1, LoadedIsTyped DEF Loaded
    <2> QED BY <2>1, <2>2 DEF ticket, pass
  <1>6. ASSUME NEW r \in Requests, AckAges(r) PROVE IInv'
    BY <1>6 DEF AckAges, ticket, pass, host
  <1>7. CASE Begin
    BY <1>7 DEF Begin, ticket, host
  <1>8. CASE ListAcks
    BY <1>8 DEF ListAcks, ticket, host
  <1>9. ASSUME NEW r \in Requests, ReadAck(r) PROVE IInv'
    BY <1>9 DEF ReadAck, ticket, host
  <1>10. CASE NoteAck
    <2>1. noted' \in [Requests -> Notes]
      BY <1>10 DEF NoteAck, Notes
    <2>2. noted'[held] # "none" /\ \A r \in Requests \ {held} : noted'[r] = noted[r]
      BY <1>10 DEF NoteAck
    <2> QED BY <1>10, <2>1, <2>2 DEF NoteAck
  <1>11. CASE DeleteAck
    <2> HIDE DEF Maybe, Requests, Idle, NotedFirst, Traced, Seen, NoFalseAlarm
    <2>1. Typed'
      BY <1>0, <1>11 DEF DeleteAck, ticket, host
    <2> USE DEF Maybe, Requests, Idle, NotedFirst, Traced, Seen, NoFalseAlarm
    <2>2. (Idle /\ NotedFirst)'
      BY <1>11 DEF DeleteAck, ticket, host
    <2>3. (Traced /\ Seen /\ NoFalseAlarm)'
      BY <1>11 DEF DeleteAck, ticket, host
    <2> QED BY <2>1, <2>2, <2>3
  <1>12. CASE Wrap
    <2>1. Typed'
      BY <1>12 DEF Wrap, Over, CreatedBefore, ticket, host
    <2>2. (Idle /\ NotedFirst /\ Traced)'
      BY <1>12 DEF Wrap, Over, CreatedBefore, ticket, host
    <2>3. (Seen /\ NoFalseAlarm)'
      BY <1>12 DEF Wrap, Over, CreatedBefore, ticket, host
    <2> QED BY <2>1, <2>2, <2>3
  <1>13. CASE PassDies
    <2> HIDE DEF Maybe, Requests, Idle, NotedFirst, Traced, Seen, NoFalseAlarm
    <2>1. Typed'
      BY <1>0, <1>13 DEF PassDies, Over, ticket, host
    <2> USE DEF Maybe, Requests, Idle, NotedFirst, Traced, Seen, NoFalseAlarm
    <2>2. (Idle /\ NotedFirst /\ Traced)'
      BY <1>13 DEF PassDies, Over, ticket, host
    <2>3. (Seen /\ NoFalseAlarm)'
      BY <1>13 DEF PassDies, Over, ticket, host
    <2> QED BY <2>1, <2>2, <2>3
  <1>14. CASE WorkerWrites
    <2>1. request' \in Maybe /\ raised' \in Maybe
      BY <1>14 DEF WorkerWrites
    <2> QED BY <1>14, <2>1 DEF WorkerWrites, pass, host
  <1>15. CASE WorkerExits
    BY <1>15 DEF WorkerExits, ticket, pass, host
  <1>16. CASE UNCHANGED vars
    BY <1>16 DEF vars, ticket, pass, host
  <1>17. Send => Create(view.request) \/ view.request \in inbox
    BY DEF Send
  <1> QED
    BY <1>1, <1>2, <1>3, <1>4, <1>5, <1>6, <1>7, <1>8, <1>9, <1>10, <1>11, <1>12, <1>13,
       <1>14, <1>15, <1>16, <1>17
       DEF Next, PassStep, HostStep

-----------------------------------------------------------------------------
(* Each step is a step of the promise, or none.                            *)

\* What the fates say, the outcome says.
LEMMA SameFates ==
  ASSUME \A q \in Requests : Fate(q)' = Fate(q)
  PROVE  Outcome' = Outcome
  BY DEF Outcome, Requests

LEMMA NextSignal == IInv /\ [Next]_vars => [Signal!Next]_Outcome
  <1> SUFFICES ASSUME IInv, [Next]_vars PROVE [Signal!Next]_Outcome
    OBVIOUS
  <1> DEFINE Unmoved == \A q \in Requests : Fate(q)' = Fate(q)
  <1>1. SUFFICES ASSUME ~Unmoved PROVE Signal!Next
    BY SameFates
  <1>2. CASE Send /\ Create(view.request) /\ view.request \notin inbox
    <2>1. PICK r \in Requests : r = view.request
      BY <1>2 DEF Send, IInv, Typed, Views, Maybe, Requests
    <2>2. \A q \in Requests \ {r} : Fate(q)' = Fate(q)
      BY <1>2, <2>1 DEF Send, Create, Fate, ticket
    <2>3. noted[r] = "none" /\ ~InHand(r) /\ Fate(r)' = "sent"
      BY <1>1, <1>2, <2>1, <2>2 DEF Send, Create, Fate, ticket, InHand
    <2>4. Fate(r) \in {"idle", "withdrawn"}
      BY <1>2, <2>1, <2>3 DEF Fate, InHand
    <2>5. Outcome' = [Outcome EXCEPT ![r] = "sent"]
      BY <2>2, <2>3 DEF Outcome, Requests
    <2>6. Signal!Send(r)
      BY <2>4, <2>5 DEF Signal!Send, Outcome
    <2> QED BY <2>6 DEF Signal!Next
  <1>3. ASSUME NEW r \in Requests, Withdraw(r) PROVE Signal!Next
    <2>1. \A q \in Requests \ {r} : Fate(q)' = Fate(q)
      BY <1>3 DEF Withdraw, Fate, ticket, pass
    <2>2. Fate(r) = "sent" /\ Fate(r)' = "withdrawn"
      BY <1>1, <1>3, <2>1 DEF Withdraw, Fate, ticket, pass
    <2>3. Signal!Withdraw({r})
      BY <2>1, <2>2 DEF Signal!Withdraw, Outcome
    <2> QED BY <2>3 DEF Signal!Next
  <1>4. CASE NoteAck
    <2>1. PICK r \in Requests : r = held
      BY <1>4 DEF NoteAck, IInv, Typed, Maybe, Requests
    <2>2. noted' = [noted EXCEPT ![r] = noted'[r]] /\ noted \in [Requests -> Notes]
      BY <1>4, <2>1 DEF NoteAck, IInv, Typed
    <2>3. \A q \in Requests \ {r} : Fate(q)' = Fate(q)
      BY <1>4, <2>1, <2>2 DEF NoteAck, Fate
    <2>4. noted[r] = "none"
      BY <1>1, <1>4, <2>1, <2>2, <2>3 DEF NoteAck, Fate
    <2>5. Fate(r) = "sent"
      BY <1>4, <2>1, <2>4 DEF NoteAck, Fate
    <2>6. Fate(r)' \in {"taken", "superseded"}
      BY <1>4, <2>1, <2>2, <2>4 DEF NoteAck, Fate
    <2>7. Outcome' = [Outcome EXCEPT ![r] = Fate(r)']
      BY <2>3 DEF Outcome, Requests
    <2>8. Signal!Settle(r)
      BY <2>5, <2>6, <2>7 DEF Signal!Settle, Outcome
    <2> QED BY <2>8 DEF Signal!Next
  <1>5. CASE PassDies
    <2> DEFINE R == {q \in Requests : Fate(q)' # Fate(q)}
    <2>1. ASSUME NEW q \in R PROVE Fate(q) = "sent" /\ Fate(q)' = "withdrawn"
      BY <1>5 DEF PassDies, Over, Fate, ticket, host, IInv, Traced, InHand, Requests
    <2>2. Signal!Withdraw(R)
      BY <2>1 DEF Signal!Withdraw, Outcome
    <2> QED BY <2>2 DEF Signal!Next
  <1>6. CASE DeleteAck
    <2>1. Unmoved
      BY <1>6 DEF DeleteAck, Fate, ticket, host, IInv, NotedFirst, Requests
    <2> QED BY <1>1, <2>1
  <1>7. CASE ListAcks \/ Wrap
    BY <1>1, <1>7 DEF ListAcks, Wrap, Over, Fate, ticket, host, IInv, Idle, Requests
  <1>8. ASSUME NEW r \in Requests, ReadAck(r) PROVE Signal!Next
    BY <1>1, <1>8 DEF ReadAck, Fate, ticket, host, IInv, NotedFirst, Requests
  <1>9. ASSUME UNCHANGED <<noted, inbox, listed, held, heldNoted, withdrawn>>
        PROVE Signal!Next
    BY <1>1, <1>9 DEF Fate
  <1>10. CASE Send /\ view.request \in inbox
    BY <1>9, <1>10 DEF Send, Create, ticket
  <1>11. CASE OpenNote \/ Escape \/ SendFails \/ Remember
    BY <1>9, <1>11 DEF OpenNote, Escape, SendFails, Remember, ticket, pass
  <1>12. CASE Recheck \/ Reload \/ HostRestarts
    BY <1>9, <1>12 DEF Recheck, Reload, HostRestarts, ticket, pass
  <1>13. ASSUME NEW r \in Requests, AckAges(r) PROVE Signal!Next
    BY <1>9, <1>13 DEF AckAges, ticket, pass, host
  <1>14. CASE Begin
    BY <1>9, <1>14 DEF Begin, ticket, host
  <1>15. CASE WorkerWrites \/ WorkerExits
    BY <1>9, <1>15 DEF WorkerWrites, WorkerExits, ticket, pass, host
  <1>16. CASE UNCHANGED vars
    BY <1>9, <1>16 DEF vars, ticket, pass, host
  <1>17. Send => (Create(view.request) /\ view.request \notin inbox) \/ view.request \in inbox
    BY DEF Send
  <1> QED
    BY <1>2, <1>3, <1>4, <1>5, <1>6, <1>7, <1>8, <1>10, <1>11, <1>12, <1>13, <1>14, <1>15,
       <1>16, <1>17
       DEF Next, PassStep, HostStep

-----------------------------------------------------------------------------
(* The types, the order of the time stamps included.                       *)

Distinct(s) == \A i, j \in DOMAIN s : s[i] = s[j] => i = j

\* Appending what is not there yet keeps a sequence free of repetitions.
LEMMA AppendDistinct ==
    ASSUME NEW S, NEW s \in Seq(S), NEW r \in S, Distinct(s), \A i \in DOMAIN s : s[i] # r
    PROVE  Append(s, r) \in Seq(S) /\ Distinct(Append(s, r))
  <1> DEFINE n == Len(s)
  <1> DEFINE t == Append(s, r)
  <1>1. /\ n \in Nat /\ DOMAIN s = 1..n /\ t \in Seq(S) /\ DOMAIN t = 1..(n + 1)
        /\ \A i \in 1..n : t[i] = s[i] /\ s[i] # r
        /\ t[n + 1] = r
    BY AppendProperties
  <1> HIDE DEF n, t
  <1>2. \A i \in 1..(n + 1) : i \in 1..n \/ i = n + 1
    BY <1>1
  <1>3. Distinct(t)
    BY <1>1, <1>2 DEF Distinct
  <1> QED BY <1>1, <1>3 DEF t

\* What is left of a sequence without repetitions when place p is taken out.
LEMMA RemoveDistinct ==
    ASSUME NEW S, NEW s \in Seq(S), Distinct(s), NEW p \in DOMAIN s
    PROVE  /\ RemoveAt(s, p) \in Seq(S) /\ Distinct(RemoveAt(s, p))
           /\ \A i \in DOMAIN RemoveAt(s, p) : RemoveAt(s, p)[i] # s[p]
  <1> DEFINE n == Len(s)
  <1> DEFINE a == SubSeq(s, 1, p - 1)
  <1> DEFINE b == SubSeq(s, p + 1, n)
  <1>1. n \in Nat /\ DOMAIN s = 1..n /\ p \in 1..n /\ \A i \in 1..n : s[i] \in S
    OBVIOUS
  <1>2. a \in Seq(S) /\ Len(a) = p - 1 /\ \A i \in 1..(p - 1) : a[i] = s[i]
    <2>1. \A i \in 1..(p - 1) : s[i] \in S
      BY <1>1
    <2>2. 1 \in Int /\ p - 1 \in Int
      BY <1>1
    <2>3. /\ a \in Seq(S) /\ Len(a) = IF 1 <= p - 1 THEN (p - 1) - 1 + 1 ELSE 0
          /\ \A i \in 1..((p - 1) - 1 + 1) : a[i] = s[1 + i - 1]
      BY <2>1, <2>2, SubSeqProperties
    <2> HIDE DEF a, n
    <2>4. Len(a) = p - 1 /\ (p - 1) - 1 + 1 = p - 1 /\ \A i \in 1..(p - 1) : 1 + i - 1 = i
      BY <1>1, <2>3
    <2> QED BY <2>3, <2>4
  <1>3. b \in Seq(S) /\ Len(b) = n - p /\ \A i \in 1..(n - p) : b[i] = s[p + i]
    <2>1. \A i \in (p + 1)..n : s[i] \in S
      BY <1>1
    <2>2. p + 1 \in Int /\ n \in Int
      BY <1>1
    <2>3. /\ b \in Seq(S) /\ Len(b) = IF p + 1 <= n THEN n - (p + 1) + 1 ELSE 0
          /\ \A i \in 1..(n - (p + 1) + 1) : b[i] = s[p + 1 + i - 1]
      BY <2>1, <2>2, SubSeqProperties
    <2> HIDE DEF b, n
    <2>4. Len(b) = n - p /\ n - (p + 1) + 1 = n - p /\ \A i \in 1..(n - p) : p + 1 + i - 1 = p + i
      BY <1>1, <2>3
    <2> QED BY <2>3, <2>4
  <1> DEFINE t == a \o b
  <1> HIDE DEF a, b, n
  <1>4. /\ t \in Seq(S) /\ Len(t) = (p - 1) + (n - p)
        /\ \A i \in 1..((p - 1) + (n - p)) : t[i] = IF i <= p - 1 THEN a[i] ELSE b[i - (p - 1)]
    <2>1. /\ t \in Seq(S) /\ Len(t) = Len(a) + Len(b)
          /\ \A i \in 1..(Len(a) + Len(b)) : t[i] = IF i <= Len(a) THEN a[i] ELSE b[i - Len(a)]
      BY <1>2, <1>3, ConcatProperties
    <2> HIDE DEF t
    <2> QED BY <1>2, <1>3, <2>1
  <1> DEFINE place(i) == IF i <= p - 1 THEN i ELSE i + 1
  <1>5. DOMAIN t = 1..(n - 1)
    <2> HIDE DEF t
    <2> QED BY <1>1, <1>4
  <1>6. ASSUME NEW i \in 1..(n - 1)
        PROVE  place(i) \in 1..n /\ place(i) # p /\ t[i] = s[place(i)]
    <2> HIDE DEF t
    <2>1. i \in 1..((p - 1) + (n - p))
      BY <1>1
    <2>2. CASE i <= p - 1
      BY <1>1, <1>2, <1>4, <2>1, <2>2
    <2>3. CASE ~(i <= p - 1)
      <3>1. i - (p - 1) \in 1..(n - p) /\ p + (i - (p - 1)) = i + 1 /\ i + 1 \in 1..n /\ i + 1 # p
        BY <1>1, <2>3
      <3> QED BY <1>3, <1>4, <2>1, <2>3, <3>1
    <2> QED BY <2>2, <2>3
  <1>7. \A i, j \in 1..(n - 1) : place(i) = place(j) => i = j
    BY <1>1
  <1> HIDE DEF t, place
  <1>8. Distinct(t)
    BY <1>1, <1>5, <1>6, <1>7 DEF Distinct
  <1>9. \A i \in DOMAIN t : t[i] # s[p]
    BY <1>1, <1>5, <1>6 DEF Distinct
  <1> QED BY <1>4, <1>8, <1>9 DEF t, a, b, n, RemoveAt

\* A new time stamp puts an ack last, once.
LEMMA StampDistinct ==
    ASSUME NEW S, NEW s \in Seq(S), NEW r \in S, Distinct(s)
    PROVE  Stamp(s, r) \in Seq(S) /\ Distinct(Stamp(s, r))
  <1> DEFINE places == {i \in DOMAIN s : s[i] = r}
  <1>1. CASE places = {}
    BY <1>1, AppendDistinct DEF Stamp
  <1>2. CASE places # {}
    <2> DEFINE p == CHOOSE i \in places : TRUE
    <2>1. p \in DOMAIN s /\ s[p] = r
      BY <1>2
    <2>2. Stamp(s, r) = Append(RemoveAt(s, p), r)
      BY <1>2 DEF Stamp
    <2> HIDE DEF p
    <2> QED BY <2>1, <2>2, RemoveDistinct, AppendDistinct
  <1> QED BY <1>1, <1>2

\* Whoever sends or withdraws has an ack for it.
TargetKnown == doing \in {"sending", "withdrawing"} => target \in Requests

TInv == TypeOK /\ TargetKnown

\* Nothing is under way to begin with.
LEMMA InitTInv == Init => TInv
  <1> SUFFICES ASSUME Init PROVE TInv
    OBVIOUS
  <1>1. Typed /\ 0 \in Maybe
    BY InitIInv, AckAssumption DEF IInv, Maybe
  <1>2. <<>> \in Seq(Requests) /\ Distinct(<<>>)
    BY DEF Distinct
  <1> QED BY <1>1, <1>2 DEF Init, TInv, TypeOK, Typed, TargetKnown, Distinct

\* The types that the first invariant leaves out.
Others ==
    /\ live \in BOOLEAN /\ pc \in {"rest", "inventory", "acks"}
    /\ answered \in Maybe /\ aged \subseteq Requests
    /\ remembered \subseteq Requests /\ clicked \in Seq(Requests) /\ Distinct(clicked)
    /\ doing \in {"nothing", "typing", "sending", "withdrawing"}
    /\ asked \in Maybe /\ withdrawn \subseteq Requests /\ told \subseteq Requests

\* The two parts are the invariant.
LEMMA TypeParts ==
    /\ TypeOK <=> Typed /\ Others
    /\ TypeOK' <=> (Typed /\ Others)'
  <1>1. TypeOK <=> Typed /\ Others
    BY DEF TypeOK, Typed, Others, Distinct
  <1>2. TypeOK' <=> (Typed /\ Others)'
    BY DEF TypeOK, Typed, Others, Distinct
  <1> QED BY <1>1, <1>2

\* Every step keeps the types.
LEMMA NextTInv == IInv /\ TInv /\ [Next]_vars => TInv'
  <1> SUFFICES ASSUME IInv, TInv, [Next]_vars PROVE (Others /\ TargetKnown)'
    BY NextIInv, TypeParts DEF IInv, TInv
  <1>1. Typed /\ Others /\ TargetKnown /\ 0 \in Maybe /\ Requests \subseteq Maybe
    BY TypeParts, AckAssumption DEF TInv, Maybe, Requests
  <1>2. view.request \in Maybe /\ (view.request # 0 => view.request \in Requests)
    BY <1>1 DEF Typed, Views, Maybe, Requests
  <1> HIDE DEF Maybe, Requests
  <1>3. CASE Send
    <2>1. view.request \in Requests /\ target' = view.request
      BY <1>2, <1>3 DEF Send
    <2>2. CASE Create(view.request)
      <3>1. clicked' \in Seq(Requests) /\ Distinct(clicked')
        BY <1>1, <2>1, <2>2, StampDistinct DEF Create, Others
      <3> QED BY <1>1, <1>3, <2>1, <2>2, <3>1 DEF Send, Create, Others, TargetKnown
    <2>3. CASE UNCHANGED <<inbox, clicked, older, passedOver, aged, view, withdrawn, told>>
      BY <1>1, <1>3, <2>1, <2>3 DEF Send, Others, TargetKnown, Distinct
    <2> QED BY <1>3, <2>2, <2>3 DEF Send
  <1>4. CASE OpenNote \/ Escape \/ SendFails
    BY <1>1, <1>2, <1>4 DEF OpenNote, Escape, SendFails, pass, Others, TargetKnown, Distinct
  <1>5. CASE Remember
    BY <1>1, <1>5 DEF Remember, pass, Others, TargetKnown, Distinct
  <1>6. ASSUME NEW r \in Requests, Withdraw(r) PROVE (Others /\ TargetKnown)'
    BY <1>1, <1>6 DEF Withdraw, pass, Others, TargetKnown, Distinct
  <1>7. CASE Recheck
    BY <1>1, <1>7 DEF Recheck, Load, pass, Others, TargetKnown, Distinct
  <1>8. CASE Reload \/ HostRestarts
    BY <1>1, <1>8 DEF Reload, HostRestarts, Load, pass, Others, TargetKnown, Distinct
  <1>9. ASSUME NEW r \in Requests, AckAges(r) PROVE (Others /\ TargetKnown)'
    BY <1>1, <1>9 DEF AckAges, pass, host, Others, TargetKnown, Distinct
  <1>10. CASE Begin \/ ListAcks \/ \E r \in Requests : ReadAck(r)
    BY <1>1, <1>10 DEF Begin, ListAcks, ReadAck, host, Others, TargetKnown, Distinct
  <1>11. CASE NoteAck
    BY <1>1, <1>11 DEF NoteAck, Others, TargetKnown, Distinct
  <1>12. CASE DeleteAck
    BY <1>1, <1>12 DEF DeleteAck, host, Typed, Others, TargetKnown, Distinct
  <1>13. CASE Wrap \/ PassDies
    BY <1>1, <1>13 DEF Wrap, PassDies, Over, host, Others, TargetKnown, Distinct
  <1>14. CASE WorkerWrites \/ WorkerExits
    BY <1>1, <1>14 DEF WorkerWrites, WorkerExits, pass, host, Others, TargetKnown, Distinct
  <1>15. CASE UNCHANGED vars
    BY <1>1, <1>15 DEF vars, pass, host, Others, TargetKnown, Distinct
  <1> QED
    BY <1>3, <1>4, <1>5, <1>6, <1>7, <1>8, <1>9, <1>10, <1>11, <1>12, <1>13, <1>14, <1>15
       DEF Next, PassStep, HostStep

-----------------------------------------------------------------------------
\* A completed pass has consumed every ack that was there when it started: no
\* card shows one of them as passed over.
THEOREM NoFalseAlarms == Spec => []NoFalseAlarm
  <1>1. IInv => NoFalseAlarm
    BY DEF IInv
  <1> QED BY InitIInv, NextIInv, <1>1, PTL DEF Spec

\* The files implement the promise of the inbox.
THEOREM SignalKept == Spec => SignalIsKept
  <1>1. Init => Signal!Init
    BY DEF Init, Signal!Init, Outcome, Fate
  <1>2. Spec => []IInv
    BY InitIInv, NextIInv, PTL DEF Spec
  <1> QED BY <1>1, <1>2, NextSignal, PTL DEF Spec, SignalIsKept, Signal!Spec

\* No question lies calm behind the answer to another one, a lost one or one that
\* was taken back.
THEOREM CalmIsAnswered == Spec => []CalmMeansAnswered
  <1>1. ASSUME IInv, view = Loaded, view.request # 0, ~NeedsYou
        PROVE  Outcome[view.request] \in {"sent", "taken"}
    <2>1. PICK r \in Known : Honored(r)
      BY <1>1 DEF NeedsYou
    <2>2. view.noted = noted /\ view.inbox = inbox /\ noted \in [Requests -> Notes]
      BY <1>1 DEF Loaded, IInv, Typed
    <2>3. view.request \in Requests
      BY <1>1 DEF IInv, Typed, Views, Maybe, Requests
    <2>4. CASE Chip(r) = "pending"
      <3>1. view.noted[r] = "none" /\ r \in view.inbox /\ view.request = r
        BY <2>4 DEF Chip
      <3> QED BY <2>2, <2>3, <3>1 DEF Outcome, Fate
    <2>5. CASE Chip(r) = "picked-up" /\ view.request = r
      <3>1. view.noted[r] = "taken"
        BY <2>5 DEF Chip
      <3> QED BY <2>2, <2>3, <2>5, <3>1 DEF Outcome, Fate
    <2> QED BY <2>1, <2>4, <2>5 DEF Honored
  <1>2. IInv => CalmMeansAnswered
    BY <1>1 DEF CalmMeansAnswered
  <1> QED BY InitIInv, NextIInv, <1>2, PTL DEF Spec

\* Every file, note and memory of an ack is one of a request that was raised, each
\* ack has one time stamp, and no answer is sent or taken back without its request.
THEOREM AckTypes == Spec => [](TypeOK /\ TargetKnown)
  <1>1. TInv => TypeOK /\ TargetKnown
    BY DEF TInv
  <1> QED BY <1>1, InitIInv, InitTInv, NextIInv, NextTInv, PTL DEF Spec

=============================================================================
