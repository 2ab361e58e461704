---------------------------- MODULE Content_proofs ----------------------------
(* Documents and their events.  For any documents, requests and batches: once  *)
(* calls are done, the last event of a document shows it and the meter counts  *)
(* the writes.  For any clients, collections and capacities of channels: a     *)
(* subscriber sees events in order, and misses one only to a full channel.     *)
(* For any files, entries and settings: what was saved is kept.  Content is    *)
(* all of these, and a step of one leaves the others alone.                    *)
EXTENDS Content, TLAPS, FiniteSetTheorems, SequenceTheorems, WellFoundedInduction

------------------------------------------------------------------------------
\* What is assumed of the constants.
LEMMA HubParameters == QueueSize \in Nat /\ InboxSize \in Nat /\ MaxEvents \in Nat
  BY HubAssumption DEF HubBounds

LEMMA DocumentParameters ==
  /\ BatchOps \subseteq {"insert", "update", "delete", "noData"} \X {"insert", "update", "delete", "noData"}
  /\ MaxVersion \in Nat
  BY DocumentAssumption DEF DocumentBounds

------------------------------------------------------------------------------
\* Realtime events.

EventMsg == [type : {"event"}, n : Nat, coll : Collections, fits : BOOLEAN]
Message == EventMsg \cup [type : {"subscribed"}, coll : Collections]
Filters == {"none", "all", "filter"}

HubTypes ==
  /\ published \in 0..MaxEvents
  /\ queue \in Seq(EventMsg) /\ Len(queue) <= QueueSize
  /\ conn \in [Clients -> {"none", "open", "lost", "gone"}]
  /\ subs \in [Clients -> [Collections -> Filters]]
  /\ inbox \in [Clients -> Seq(EventMsg)] /\ \A c \in Clients : Len(inbox[c]) <= InboxSize
  /\ asked \in [Clients -> Seq([coll : Collections, filter : Filters])]
  /\ reply \in [Clients -> Collections \cup {"none"}]
  /\ wire \in [Clients -> Seq(Message)]
  /\ waiting \in [Clients -> Collections \cup {"none"}]
  /\ held \in [Clients -> SUBSET ((Collections \cup {""}) \X Collections)]
  /\ seen \in [Clients -> Seq(Nat)]
  /\ due \in [Clients -> SUBSET (1..published)]
  /\ dropped \in [Clients -> SUBSET (1..published)]

Increasing(s) ==
  \A i, j \in DOMAIN s : i < j /\ s[i].type = "event" /\ s[j].type = "event" => s[i].n < s[j].n
Ascending(s) == \A i, j \in DOMAIN s : i < j => s[i] < s[j]
Before(A, B) == \A a \in A, b \in B : a < b
Read(c) == {seen[c][i] : i \in DOMAIN seen[c]}

\* Events are in order in each channel, and those further on their way come first.
QueueOrder == Increasing(queue) /\ Numbers(queue) \subseteq 1..published
ClientOrder(c) ==
  /\ Increasing(inbox[c]) /\ Increasing(wire[c]) /\ Ascending(seen[c])
  /\ Before(Numbers(inbox[c]), Numbers(queue))
  /\ Before(Numbers(wire[c]), Numbers(inbox[c]) \cup Numbers(queue))
  /\ Before(Read(c), Numbers(wire[c]) \cup Numbers(inbox[c]) \cup Numbers(queue))
  /\ Read(c) \cup Numbers(wire[c]) \cup Numbers(inbox[c]) \subseteq 1..published
Order == QueueOrder /\ \A c \in Clients : ClientOrder(c)

\* An event that is due is somewhere on its way, and in the queue it will match.
OnItsWay(c) == dropped[c] \cup Numbers(queue) \cup Numbers(inbox[c]) \cup Numbers(wire[c]) \cup Read(c)
ClientServed(c) ==
  /\ conn[c] = "none" => due[c] = {}
  /\ conn[c] = "open" =>
       /\ due[c] \subseteq OnItsWay(c)
       /\ \A i \in DOMAIN queue : queue[i].n \in due[c] => Matches(subs[c][queue[i].coll], queue[i])
Served == \A c \in Clients : ClientServed(c)

IInv == HubTypes /\ Order /\ Served
LEMMA TakeHead ==
  ASSUME NEW M, NEW s \in Seq(M), s # <<>>
  PROVE  /\ Head(s) \in M /\ Tail(s) \in Seq(M) /\ Len(Tail(s)) = Len(s) - 1
         /\ \A i \in DOMAIN Tail(s) : i + 1 \in DOMAIN s /\ Tail(s)[i] = s[i + 1]
         /\ 1 \in DOMAIN s /\ s[1] = Head(s)
         /\ \A i \in DOMAIN s : i # 1 => i - 1 \in DOMAIN Tail(s) /\ Tail(s)[i - 1] = s[i]
         /\ \A i \in DOMAIN Tail(s) : i \in 1..Len(s)
  OBVIOUS

LEMMA TakeNumbers ==
  ASSUME NEW M, NEW s \in Seq(M), s # <<>>
  PROVE  /\ Increasing(s) => Increasing(Tail(s))
         /\ Head(s).type = "event" =>
              /\ Numbers(s) = Numbers(Tail(s)) \cup {Head(s).n}
              /\ Increasing(s) => \A b \in Numbers(Tail(s)) : Head(s).n < b
         /\ Head(s).type # "event" => Numbers(Tail(s)) = Numbers(s)
  <1>1. Increasing(s) => Increasing(Tail(s))
    BY TakeHead DEF Increasing
  <1>2. Numbers(Tail(s)) \subseteq Numbers(s)
    BY TakeHead DEF Numbers
  <1>3. ASSUME NEW a \in Numbers(s), a \notin Numbers(Tail(s)) PROVE Head(s).type = "event" /\ a = Head(s).n
    <2>1. PICK i \in DOMAIN s : s[i].type = "event" /\ a = s[i].n
      BY DEF Numbers
    <2>2. CASE i = 1
      BY <2>1, <2>2, TakeHead
    <2>3. CASE i # 1
      <3>1. i - 1 \in DOMAIN Tail(s) /\ Tail(s)[i - 1] = s[i]
        BY <2>3, TakeHead
      <3> QED BY <1>3, <2>1, <3>1 DEF Numbers
    <2> QED BY <2>2, <2>3
  <1>4. Head(s).type = "event" => Head(s).n \in Numbers(s)
    BY TakeHead DEF Numbers
  <1>5. Head(s).type = "event" /\ Increasing(s) => \A b \in Numbers(Tail(s)) : Head(s).n < b
    BY TakeHead DEF Numbers, Increasing
  <1> QED BY <1>1, <1>2, <1>3, <1>4, <1>5

LEMMA PutLast ==
  ASSUME NEW M, NEW s \in Seq(M), NEW e \in M
  PROVE  /\ Append(s, e) \in Seq(M) /\ Len(Append(s, e)) = Len(s) + 1
         /\ \A i \in DOMAIN s : i \in DOMAIN Append(s, e) /\ Append(s, e)[i] = s[i]
         /\ Len(s) + 1 \in DOMAIN Append(s, e) /\ Append(s, e)[Len(s) + 1] = e
         /\ \A i \in DOMAIN Append(s, e) : i \in DOMAIN s \/ i = Len(s) + 1
         /\ \A i \in DOMAIN s : i \in 1..Len(s)
  OBVIOUS

LEMMA PutNumbers ==
  ASSUME NEW M, NEW s \in Seq(M), NEW e \in M
  PROVE  /\ e.type = "event" =>
              /\ Numbers(Append(s, e)) = Numbers(s) \cup {e.n}
              /\ Increasing(s) /\ (\A a \in Numbers(s) : a < e.n) => Increasing(Append(s, e))
         /\ e.type # "event" =>
              /\ Numbers(Append(s, e)) = Numbers(s)
              /\ Increasing(s) => Increasing(Append(s, e))
  <1>1. Numbers(s) \subseteq Numbers(Append(s, e))
    BY PutLast DEF Numbers
  <1>2. Numbers(Append(s, e)) \subseteq Numbers(s) \cup {e.n}
    BY PutLast DEF Numbers
  <1>3. e.type = "event" => e.n \in Numbers(Append(s, e))
    BY PutLast DEF Numbers
  <1>4. e.type # "event" => Numbers(Append(s, e)) \subseteq Numbers(s)
    BY PutLast DEF Numbers
  <1>5. ASSUME Increasing(s), e.type = "event" => \A a \in Numbers(s) : a < e.n
        PROVE  Increasing(Append(s, e))
    <2> SUFFICES ASSUME NEW i \in DOMAIN Append(s, e), NEW j \in DOMAIN Append(s, e), i < j,
                        Append(s, e)[i].type = "event", Append(s, e)[j].type = "event"
                 PROVE  Append(s, e)[i].n < Append(s, e)[j].n
      BY DEF Increasing
    <2>1. i \in DOMAIN s
      BY PutLast
    <2>2. CASE j \in DOMAIN s
      BY <1>5, <2>1, <2>2, PutLast DEF Increasing
    <2>3. CASE j = Len(s) + 1
      <3>1. s[i].n \in Numbers(s)
        BY <2>1, PutLast DEF Numbers
      <3> QED BY <1>5, <2>1, <2>3, <3>1, PutLast
    <2> QED BY <2>2, <2>3, PutLast
  <1> QED BY <1>1, <1>2, <1>3, <1>4, <1>5

LEMMA PutRead ==
  ASSUME NEW s \in Seq(Nat), NEW n \in Nat
  PROVE  /\ {Append(s, n)[i] : i \in DOMAIN Append(s, n)} = {s[i] : i \in DOMAIN s} \cup {n}
         /\ Ascending(s) /\ (\A a \in {s[i] : i \in DOMAIN s} : a < n) => Ascending(Append(s, n))
  <1>1. {Append(s, n)[i] : i \in DOMAIN Append(s, n)} = {s[i] : i \in DOMAIN s} \cup {n}
    BY PutLast
  <1>2. Ascending(s) /\ (\A a \in {s[i] : i \in DOMAIN s} : a < n) => Ascending(Append(s, n))
    BY PutLast DEF Ascending
  <1> QED BY <1>1, <1>2

LEMMA EmptyChannel ==
  Increasing(<<>>) /\ Numbers(<<>>) = {} /\ Ascending(<<>>)
  BY DEF Increasing, Numbers, Ascending

LEMMA NumbersAreNat ==
  ASSUME HubTypes, NEW c \in Clients
  PROVE  /\ Numbers(queue) \subseteq Nat /\ Numbers(inbox[c]) \subseteq Nat
         /\ Numbers(wire[c]) \subseteq Nat /\ Read(c) \subseteq Nat
  <1>1. ASSUME NEW s \in Seq(EventMsg) PROVE Numbers(s) \subseteq Nat
    <2>1. \A i \in DOMAIN s : s[i] \in EventMsg
      OBVIOUS
    <2>2. \A i \in DOMAIN s : s[i].n \in Nat
      BY <2>1 DEF EventMsg
    <2> QED BY <2>2 DEF Numbers
  <1>2. ASSUME NEW s \in Seq(Message) PROVE Numbers(s) \subseteq Nat
    BY DEF Numbers, Message, EventMsg
  <1>3. seen[c] \in Seq(Nat) /\ wire[c] \in Seq(Message) /\ inbox[c] \in Seq(EventMsg) /\ queue \in Seq(EventMsg)
    BY DEF HubTypes
  <1>4. Read(c) \subseteq Nat
    BY <1>3 DEF Read
  <1> QED BY <1>1, <1>2, <1>3, <1>4

------------------------------------------------------------------------------
(* The hub.                                                                    *)
LEMMA PublishKeeps ==
  ASSUME IInv, NEW k \in Collections, NEW fits \in BOOLEAN, Publish(k, fits)
  PROVE  IInv'
  <1> DEFINE e == Event(published + 1, k, fits)
             full == Len(queue) = QueueSize
             wanted == {c \in Clients : conn[c] = "open" /\ Matches(subs[c][k], e)}
  <1>1. /\ published < MaxEvents /\ published' = published + 1
        /\ queue' = IF full THEN queue ELSE Append(queue, e)
        /\ due' = [c \in Clients |-> IF c \in wanted THEN due[c] \cup {e.n} ELSE due[c]]
        /\ dropped' = [c \in Clients |-> IF full THEN dropped[c] \cup {e.n} ELSE dropped[c]]
        /\ UNCHANGED <<conn, subs, inbox, asked, reply, wire, waiting, held, seen>>
    BY DEF Publish, ClientSide
  <1>2. /\ published \in Nat /\ queue \in Seq(EventMsg) /\ Len(queue) \in Nat /\ Len(queue) <= QueueSize
        /\ due \in [Clients -> SUBSET (1..published)] /\ dropped \in [Clients -> SUBSET (1..published)]
    <2>1. /\ queue \in Seq(EventMsg) /\ Len(queue) <= QueueSize /\ published \in 0..MaxEvents
          /\ due \in [Clients -> SUBSET (1..published)] /\ dropped \in [Clients -> SUBSET (1..published)]
      BY DEF IInv, HubTypes
    <2> QED BY <2>1, HubParameters
  <1>3. e \in EventMsg /\ e.n = published + 1 /\ e.type = "event" /\ e.coll = k
    BY <1>2 DEF Event, EventMsg
  <1> HIDE DEF e, full, wanted
  <1>4. queue' \in Seq(EventMsg) /\ Len(queue') <= QueueSize
    BY <1>1, <1>2, <1>3, PutLast, HubParameters DEF full
  <1>5. 1..published \subseteq 1..published' /\ e.n \in 1..published' /\ published' \in 0..MaxEvents
    BY <1>1, <1>2, <1>3, HubParameters
  <1>6. due' \in [Clients -> SUBSET (1..published')] /\ dropped' \in [Clients -> SUBSET (1..published')]
    BY <1>1, <1>2, <1>5
  <1>7. HubTypes'
    BY <1>1, <1>4, <1>5, <1>6 DEF IInv, HubTypes
  <1>8. /\ Numbers(queue') = IF full THEN Numbers(queue) ELSE Numbers(queue) \cup {e.n}
        /\ Increasing(queue')
    <2>1. Increasing(queue) /\ \A a \in Numbers(queue) : a \in 1..published
      BY DEF IInv, Order, QueueOrder
    <2>2. \A a \in Numbers(queue) : a < e.n
      BY <1>2, <1>3, <2>1
    <2>3. /\ Numbers(Append(queue, e)) = Numbers(queue) \cup {e.n}
          /\ Increasing(Append(queue, e))
      BY <1>2, <1>3, <2>1, <2>2, PutNumbers
    <2> QED BY <1>1, <2>1, <2>3
  <1>9. Order'
    <2>1. QueueOrder'
      BY <1>5, <1>8 DEF IInv, Order, QueueOrder
    <2>2. ASSUME NEW c \in Clients PROVE ClientOrder(c)'
      <3>1. ClientOrder(c) /\ inbox'[c] = inbox[c] /\ wire'[c] = wire[c] /\ seen'[c] = seen[c]
        BY <1>1 DEF IInv, Order
      <3>2. \A a \in Read(c) \cup Numbers(wire[c]) \cup Numbers(inbox[c]) : a < e.n
        BY <1>2, <1>3, <3>1 DEF ClientOrder
      <3> QED BY <1>5, <1>8, <3>1, <3>2 DEF ClientOrder, Before, Read
    <2> QED BY <2>1, <2>2 DEF Order
  <1>10. ASSUME NEW c \in Clients PROVE ClientServed(c)'
    <2>1. ClientServed(c) /\ conn'[c] = conn[c] /\ subs'[c] = subs[c]
      BY <1>1 DEF IInv, Served
    <2>2. /\ due'[c] = IF c \in wanted THEN due[c] \cup {e.n} ELSE due[c]
          /\ dropped'[c] = IF full THEN dropped[c] \cup {e.n} ELSE dropped[c]
      BY <1>1
    <2>3. conn'[c] = "none" => due'[c] = {}
      BY <2>1, <2>2 DEF ClientServed, wanted
    <2>4. ASSUME conn'[c] = "open" PROVE due'[c] \subseteq OnItsWay(c)'
      BY <1>1, <1>8, <2>1, <2>2, <2>4 DEF ClientServed, OnItsWay, Read
    <2>5. ASSUME conn'[c] = "open", NEW i \in DOMAIN queue', queue'[i].n \in due'[c]
          PROVE  Matches(subs'[c][queue'[i].coll], queue'[i])
      <3>1. CASE i \in DOMAIN queue /\ queue'[i] = queue[i]
        <4>1. queue[i].n \in Numbers(queue)
          <5>1. queue[i] \in EventMsg
            BY <1>2, <3>1
          <5> QED BY <3>1, <5>1 DEF Numbers, EventMsg
        <4>2. queue[i].n # e.n
          BY <1>2, <1>3, <4>1 DEF IInv, Order, QueueOrder
        <4> QED BY <2>1, <2>2, <2>5, <3>1, <4>2 DEF ClientServed
      <3>2. CASE queue'[i] = e
        <4>1. e.n \notin due[c]
          BY <1>2, <1>3
        <4>2. c \in wanted
          BY <2>2, <2>5, <3>2, <4>1
        <4> QED BY <1>3, <2>1, <3>2, <4>2 DEF wanted
      <3> QED BY <1>1, <1>2, <1>3, <3>1, <3>2, PutLast
    <2> QED BY <2>3, <2>4, <2>5 DEF ClientServed
  <1> QED BY <1>7, <1>9, <1>10 DEF IInv, Served
LEMMA BroadcastKeeps ==
  ASSUME IInv, broadcast
  PROVE  IInv'
  <1> DEFINE e == Head(queue)
             matched == {c \in Clients : conn[c] \in {"open", "lost"} /\ Matches(subs[c][e.coll], e)}
             room == {c \in matched : HasRoom(c)}
  <1>1. /\ queue # <<>> /\ queue' = Tail(queue)
        /\ inbox' = [c \in Clients |-> IF c \in room THEN Append(inbox[c], e) ELSE inbox[c]]
        /\ dropped' = [c \in Clients |-> IF c \in matched \ room THEN dropped[c] \cup {e.n} ELSE dropped[c]]
        /\ UNCHANGED <<published, conn, subs, asked, reply, wire, waiting, held, seen, due>>
    BY DEF broadcast, ClientSide
  <1>2. /\ queue \in Seq(EventMsg) /\ Len(queue) <= QueueSize /\ published \in 0..MaxEvents
        /\ inbox \in [Clients -> Seq(EventMsg)]
        /\ \A c \in Clients : Len(inbox[c]) <= InboxSize
        /\ dropped \in [Clients -> SUBSET (1..published)]
    BY DEF IInv, HubTypes
  <1>3. e \in EventMsg /\ e.n \in Nat /\ e.type = "event"
    <2>1. e \in EventMsg
      BY <1>1, <1>2, TakeHead
    <2> QED BY <2>1 DEF EventMsg
  <1>4. /\ Numbers(queue) = Numbers(queue') \cup {e.n} /\ Increasing(queue')
        /\ \A b \in Numbers(queue') : e.n < b
    BY <1>1, <1>2, <1>3, TakeNumbers DEF IInv, Order, QueueOrder
  <1>5. e.n \in 1..published
    BY <1>4 DEF IInv, Order, QueueOrder
  <1>6. /\ queue' \in Seq(EventMsg) /\ Len(queue') <= QueueSize
        /\ \A i \in DOMAIN queue' : i + 1 \in DOMAIN queue /\ queue'[i] = queue[i + 1]
        /\ 1 \in DOMAIN queue /\ queue[1] = e
    <2>1. Len(queue) \in Nat
      BY <1>2
    <2> QED BY <1>1, <1>2, <2>1, TakeHead, HubParameters
  <1>7. \A c \in room : c \in Clients /\ Len(inbox[c]) < InboxSize
    BY DEF HasRoom
  <1>8. \A c \in Clients : /\ inbox'[c] = IF c \in room THEN Append(inbox[c], e) ELSE inbox[c]
                           /\ dropped'[c] = IF c \in matched \ room THEN dropped[c] \cup {e.n} ELSE dropped[c]
    BY <1>1
  <1>9. \A c \in Clients : conn[c] = "open" /\ Matches(subs[c][e.coll], e) => c \in matched
    OBVIOUS
  <1> HIDE DEF e, matched, room
  <1>10. HubTypes'
    <2>1. inbox' \in [Clients -> Seq(EventMsg)]
      BY <1>1, <1>2, <1>3, PutLast
    <2>2. ASSUME NEW c \in Clients PROVE Len(inbox'[c]) <= InboxSize
      <3>1. inbox[c] \in Seq(EventMsg) /\ Len(inbox[c]) \in Nat /\ Len(inbox[c]) <= InboxSize
        BY <1>2
      <3>2. Len(Append(inbox[c], e)) = Len(inbox[c]) + 1
        BY <1>3, <3>1, PutLast
      <3>3. CASE c \in room
        <4>1. Len(inbox[c]) < InboxSize /\ Len(inbox'[c]) = Len(inbox[c]) + 1
          BY <1>7, <1>8, <3>2, <3>3
        <4> QED BY <3>1, <4>1, HubParameters
      <3>4. CASE c \notin room
        BY <1>8, <3>1, <3>4
      <3> QED BY <3>3, <3>4
    <2>3. dropped' \in [Clients -> SUBSET (1..published')]
      BY <1>1, <1>2, <1>5
    <2> QED BY <1>1, <1>6, <2>1, <2>2, <2>3 DEF IInv, HubTypes
  <1>11. ASSUME NEW c \in Clients
         PROVE  /\ Numbers(inbox'[c]) = IF c \in room THEN Numbers(inbox[c]) \cup {e.n} ELSE Numbers(inbox[c])
                /\ Increasing(inbox'[c])
    <2>1. inbox[c] \in Seq(EventMsg) /\ Increasing(inbox[c]) /\ Before(Numbers(inbox[c]), Numbers(queue))
      BY <1>2 DEF IInv, Order, ClientOrder
    <2>2. \A a \in Numbers(inbox[c]) : a < e.n
      BY <1>4, <2>1 DEF Before
    <2>3. /\ Numbers(Append(inbox[c], e)) = Numbers(inbox[c]) \cup {e.n}
          /\ Increasing(Append(inbox[c], e))
      BY <1>3, <2>1, <2>2, PutNumbers
    <2> QED BY <1>8, <2>1, <2>3
  <1>12. Order'
    <2>1. QueueOrder'
      BY <1>1, <1>4 DEF IInv, Order, QueueOrder
    <2>2. ASSUME NEW c \in Clients PROVE ClientOrder(c)'
      <3>1. ClientOrder(c) /\ wire'[c] = wire[c] /\ seen'[c] = seen[c] /\ published' = published
        BY <1>1 DEF IInv, Order
      <3>2. Read(c)' = Read(c)
        BY <3>1 DEF Read
      <3>3. Numbers(inbox'[c]) \subseteq Numbers(inbox[c]) \cup {e.n} /\ Increasing(inbox'[c])
        BY <1>11
      <3>4. Before(Numbers(inbox'[c]), Numbers(queue'))
        BY <1>4, <3>1, <3>3 DEF ClientOrder, Before
      <3>5. Before(Numbers(wire'[c]), Numbers(inbox'[c]) \cup Numbers(queue'))
        BY <1>4, <3>1, <3>3 DEF ClientOrder, Before
      <3>6. Before(Read(c)', Numbers(wire'[c]) \cup Numbers(inbox'[c]) \cup Numbers(queue'))
        BY <1>4, <3>1, <3>2, <3>3 DEF ClientOrder, Before
      <3> QED BY <1>5, <3>1, <3>2, <3>3, <3>4, <3>5, <3>6 DEF ClientOrder
    <2> QED BY <2>1, <2>2 DEF Order
  <1>13. ASSUME NEW c \in Clients PROVE ClientServed(c)'
    <2>1. ClientServed(c) /\ conn'[c] = conn[c] /\ subs'[c] = subs[c] /\ due'[c] = due[c]
      BY <1>1 DEF IInv, Served
    <2>2. conn'[c] = "none" => due'[c] = {}
      BY <2>1 DEF ClientServed
    <2>3. ASSUME conn'[c] = "open" PROVE due'[c] \subseteq OnItsWay(c)'
      <3>1. e.n \in due[c] => c \in matched
        <4>1. \A i \in DOMAIN queue : queue[i].n \in due[c] => Matches(subs[c][queue[i].coll], queue[i])
          BY <2>1, <2>3 DEF ClientServed
        <4>2. e.n \in due[c] => Matches(subs[c][e.coll], e)
          <5>1. 1 \in DOMAIN queue /\ queue[1] = e
            BY <1>6
          <5>2. queue[1].n \in due[c] => Matches(subs[c][queue[1].coll], queue[1])
            BY <4>1, <5>1
          <5> QED BY <5>1, <5>2
        <4> QED BY <1>9, <2>1, <2>3, <4>2
      <3>2. due[c] \subseteq OnItsWay(c)
        BY <2>1, <2>3 DEF ClientServed
      <3>3. e.n \in due[c] => e.n \in dropped'[c] \cup Numbers(inbox'[c])
        BY <1>8, <1>11, <3>1
      <3>4. dropped[c] \subseteq dropped'[c] /\ Numbers(inbox[c]) \subseteq Numbers(inbox'[c])
            /\ wire'[c] = wire[c] /\ Read(c)' = Read(c)
        BY <1>1, <1>8, <1>11 DEF Read
      <3> QED BY <1>4, <2>1, <3>2, <3>3, <3>4 DEF OnItsWay
    <2>4. ASSUME conn'[c] = "open", NEW i \in DOMAIN queue', queue'[i].n \in due'[c]
          PROVE  Matches(subs'[c][queue'[i].coll], queue'[i])
      BY <1>6, <2>1, <2>4 DEF ClientServed
    <2> QED BY <2>2, <2>3, <2>4 DEF ClientServed
  <1> QED BY <1>10, <1>12, <1>13 DEF IInv, Served

------------------------------------------------------------------------------
(* A connection and its client: one client's channels change, the queue stays. *)
SameClient(d) ==
  UNCHANGED <<conn[d], subs[d], inbox[d], wire[d], seen[d], due[d], dropped[d]>>

LEMMA OneClient ==
  ASSUME IInv, NEW c \in Clients, UNCHANGED <<published, queue>>, HubTypes',
         \A d \in Clients : d # c => SameClient(d),
         ClientOrder(c)', ClientServed(c)'
  PROVE  IInv'
  <1>1. ASSUME NEW d \in Clients, d # c PROVE ClientOrder(d)' /\ ClientServed(d)'
    <2>1. ClientOrder(d) /\ ClientServed(d) /\ SameClient(d)
      BY <1>1 DEF IInv, Order, Served
    <2>2. ClientOrder(d)'
      BY <2>1 DEF SameClient, ClientOrder, Read, Before
    <2>3. ClientServed(d)'
      BY <2>1 DEF SameClient, ClientServed, OnItsWay, Read
    <2> QED BY <2>2, <2>3
  <1>2. QueueOrder'
    BY DEF IInv, Order, QueueOrder
  <1> QED BY <1>1, <1>2 DEF IInv, Order, Served

LEMMA RegisterKeeps ==
  ASSUME IInv, NEW c \in Clients, Register(c)
  PROVE  IInv'
  <1>1. /\ conn[c] = "none" /\ conn' = [conn EXCEPT ![c] = "open"]
        /\ UNCHANGED <<published, queue, subs, inbox, asked, reply, wire, waiting, held, seen, due, dropped>>
    BY DEF Register, ClientSide, Histories
  <1>2. HubTypes'
    BY <1>1 DEF IInv, HubTypes
  <1>3. ClientOrder(c)'
    BY <1>1 DEF IInv, Order, ClientOrder, Read, Before
  <1>4. ClientServed(c)'
    BY <1>1 DEF IInv, HubTypes, Served, ClientServed
  <1>5. \A d \in Clients : d # c => SameClient(d)
    BY <1>1 DEF IInv, HubTypes, SameClient
  <1> QED BY <1>1, <1>2, <1>3, <1>4, <1>5, OneClient

LEMMA ServeHTTPKeeps ==
  ASSUME IInv, NEW c \in Clients, ServeHTTP(c)
  PROVE  IInv'
  <1> DEFINE m == Head(asked[c])
  <1>1. /\ conn[c] = "open" /\ asked[c] # <<>>
        /\ asked' = [asked EXCEPT ![c] = Tail(@)]
        /\ subs' = [subs EXCEPT ![c][m.coll] = m.filter]
        /\ reply' = [reply EXCEPT ![c] = IF m.filter = "none" THEN "none" ELSE m.coll]
        /\ due' = [due EXCEPT ![c] = Without(@, m.coll)]
        /\ UNCHANGED <<published, queue, conn, inbox, wire, waiting, held, seen, dropped>>
    BY DEF ServeHTTP, Subscription, ClientSide
  <1>2. asked[c] \in Seq([coll : Collections, filter : Filters])
    BY DEF IInv, HubTypes
  <1>3. m.coll \in Collections /\ m.filter \in Filters /\ Tail(asked[c]) \in Seq([coll : Collections, filter : Filters])
    <2>1. m \in [coll : Collections, filter : Filters] /\ Tail(asked[c]) \in Seq([coll : Collections, filter : Filters])
      BY <1>1, <1>2, TakeHead
    <2> QED BY <2>1
  <1>4. due'[c] = Without(due[c], m.coll) /\ due'[c] \subseteq due[c]
    BY <1>1 DEF IInv, HubTypes, Without
  <1> HIDE DEF m
  <1>5. subs' \in [Clients -> [Collections -> Filters]] /\ subs'[c] = [subs[c] EXCEPT ![m.coll] = m.filter]
        /\ \A k \in Collections : k # m.coll => subs'[c][k] = subs[c][k]
    BY <1>1, <1>3 DEF IInv, HubTypes
  <1>6. HubTypes'
    <2>1. due' \in [Clients -> SUBSET (1..published)]
      BY <1>1, <1>4 DEF IInv, HubTypes
    <2>2. asked' \in [Clients -> Seq([coll : Collections, filter : Filters])]
      BY <1>1, <1>3 DEF IInv, HubTypes
    <2>3. reply' \in [Clients -> Collections \cup {"none"}]
      BY <1>1, <1>3 DEF IInv, HubTypes
    <2> QED BY <1>1, <1>5, <2>1, <2>2, <2>3 DEF IInv, HubTypes
  <1>7. ClientOrder(c)'
    BY <1>1 DEF IInv, Order, ClientOrder, Read, Before
  <1>8. ClientServed(c)'
    <2>1. ClientServed(c) /\ conn'[c] = "open" /\ conn[c] = "open"
      BY <1>1 DEF IInv, Served
    <2>2. due'[c] \subseteq OnItsWay(c)'
      BY <1>1, <1>4, <2>1 DEF ClientServed, OnItsWay, Read
    <2>3. ASSUME NEW i \in DOMAIN queue', queue'[i].n \in due'[c]
          PROVE  Matches(subs'[c][queue'[i].coll], queue'[i])
      <3>1. i \in DOMAIN queue /\ queue[i].n \in due[c] /\ queue'[i] = queue[i]
        BY <1>1, <1>4, <2>3
      <3>2. queue[i].coll # m.coll
        BY <1>1, <1>4, <2>3, <3>1 DEF Without
      <3>3. queue[i].coll \in Collections
        <4>1. queue[i] \in EventMsg
          <5>1. queue \in Seq(EventMsg)
            BY DEF IInv, HubTypes
          <5> QED BY <3>1, <5>1
        <4> QED BY <4>1 DEF EventMsg
      <3> QED BY <1>5, <2>1, <3>1, <3>2, <3>3 DEF ClientServed
    <2> QED BY <2>1, <2>2, <2>3 DEF ClientServed
  <1>9. \A d \in Clients : d # c => SameClient(d)
    BY <1>1 DEF IInv, HubTypes, SameClient
  <1> QED BY <1>1, <1>6, <1>7, <1>8, <1>9, OneClient
LEMMA AnswerKeeps ==
  ASSUME IInv, NEW c \in Clients, Answer(c)
  PROVE  IInv'
  <1> DEFINE a == [type |-> "subscribed", coll |-> reply[c]]
  <1>1. /\ wire' = [wire EXCEPT ![c] = Append(@, a)]
        /\ reply' = [reply EXCEPT ![c] = "none"]
        /\ UNCHANGED <<published, queue, conn, subs, inbox, asked, waiting, held, seen, due, dropped>>
    BY DEF Answer, ClientSide, Histories
  <1>2. a \in Message /\ a.type # "event"
    BY DEF Answer, IInv, HubTypes, Message
  <1>3. wire \in [Clients -> Seq(Message)] /\ wire[c] \in Seq(Message)
    BY DEF IInv, HubTypes
  <1> HIDE DEF a
  <1>4. wire' \in [Clients -> Seq(Message)] /\ wire'[c] = Append(wire[c], a)
    BY <1>1, <1>2, <1>3, PutLast
  <1>5. HubTypes'
    BY <1>1, <1>4 DEF IInv, HubTypes
  <1>6. Numbers(wire'[c]) = Numbers(wire[c]) /\ (Increasing(wire[c]) => Increasing(wire'[c]))
    BY <1>2, <1>3, <1>4, PutNumbers
  <1>7. ClientOrder(c)'
    BY <1>1, <1>6 DEF IInv, Order, ClientOrder, Read, Before
  <1>8. ClientServed(c)'
    BY <1>1, <1>6 DEF IInv, Served, ClientServed, OnItsWay, Read
  <1>9. \A d \in Clients : d # c => SameClient(d)
    BY <1>1, <1>3 DEF SameClient
  <1> QED BY <1>1, <1>5, <1>7, <1>8, <1>9, OneClient

LEMMA WriteLoopKeeps ==
  ASSUME IInv, NEW c \in Clients, writeLoop(c)
  PROVE  IInv'
  <1> DEFINE e == Head(inbox[c])
  <1>1. /\ inbox[c] # <<>>
        /\ wire' = [wire EXCEPT ![c] = Append(@, e)]
        /\ inbox' = [inbox EXCEPT ![c] = Tail(@)]
        /\ UNCHANGED <<published, queue, conn, subs, asked, reply, waiting, held, seen, due, dropped>>
    BY DEF writeLoop, ClientSide, Histories
  <1>2. /\ wire \in [Clients -> Seq(Message)] /\ wire[c] \in Seq(Message)
        /\ inbox \in [Clients -> Seq(EventMsg)] /\ inbox[c] \in Seq(EventMsg)
        /\ Len(inbox[c]) \in Nat /\ Len(inbox[c]) <= InboxSize
    <2>1. /\ wire \in [Clients -> Seq(Message)] /\ inbox \in [Clients -> Seq(EventMsg)]
          /\ Len(inbox[c]) <= InboxSize
      BY DEF IInv, HubTypes
    <2>2. wire[c] \in Seq(Message) /\ inbox[c] \in Seq(EventMsg)
      BY <2>1
    <2>3. Len(inbox[c]) \in Nat
      BY <2>2
    <2> QED BY <2>1, <2>2, <2>3
  <1>3. e \in EventMsg /\ Tail(inbox[c]) \in Seq(EventMsg) /\ Len(Tail(inbox[c])) = Len(inbox[c]) - 1
    BY <1>1, <1>2, TakeHead
  <1>4. e \in Message /\ e.type = "event" /\ e.n \in Nat
    BY <1>3 DEF Message, EventMsg
  <1>5. /\ Numbers(inbox[c]) = Numbers(Tail(inbox[c])) \cup {e.n}
        /\ Increasing(Tail(inbox[c])) /\ \A b \in Numbers(Tail(inbox[c])) : e.n < b
    BY <1>1, <1>2, <1>4, TakeNumbers DEF IInv, Order, ClientOrder
  <1> HIDE DEF e
  <1>6. /\ wire' \in [Clients -> Seq(Message)] /\ wire'[c] = Append(wire[c], e)
        /\ inbox' \in [Clients -> Seq(EventMsg)] /\ inbox'[c] = Tail(inbox[c])
    BY <1>1, <1>2, <1>3, <1>4, PutLast
  <1>7. \A d \in Clients : d # c => SameClient(d)
    BY <1>1, <1>2 DEF SameClient
  <1>8. HubTypes'
    <2>1. ASSUME NEW d \in Clients PROVE Len(inbox'[d]) <= InboxSize
      <3>1. Len(inbox'[c]) <= InboxSize
        BY <1>2, <1>3, <1>6, HubParameters
      <3>2. d # c => inbox'[d] = inbox[d]
        BY <1>7 DEF SameClient
      <3>3. Len(inbox[d]) <= InboxSize
        BY DEF IInv, HubTypes
      <3> QED BY <3>1, <3>2, <3>3
    <2> QED BY <1>1, <1>6, <2>1 DEF IInv, HubTypes
  <1>9. ClientOrder(c)
    BY DEF IInv, Order
  <1>10. /\ Numbers(wire'[c]) = Numbers(wire[c]) \cup {e.n}
         /\ Increasing(wire'[c])
    <2>1. \A a \in Numbers(wire[c]) : a < e.n
      BY <1>5, <1>9 DEF ClientOrder, Before
    <2>2. Increasing(wire[c])
      BY <1>9 DEF ClientOrder
    <2> QED BY <1>2, <1>4, <1>6, <2>1, <2>2, PutNumbers
  <1>11. ClientOrder(c)'
    <2>1. Read(c)' = Read(c) /\ Ascending(seen'[c])
      BY <1>1, <1>9 DEF Read, ClientOrder
    <2>2. Before(Numbers(inbox'[c]), Numbers(queue'))
      BY <1>1, <1>5, <1>6, <1>9 DEF ClientOrder, Before
    <2>3. Before(Numbers(wire'[c]), Numbers(inbox'[c]) \cup Numbers(queue'))
      BY <1>1, <1>5, <1>6, <1>9, <1>10 DEF ClientOrder, Before
    <2>4. Before(Read(c)', Numbers(wire'[c]) \cup Numbers(inbox'[c]) \cup Numbers(queue'))
      BY <1>1, <1>5, <1>6, <1>9, <1>10, <2>1 DEF ClientOrder, Before
    <2> QED BY <1>1, <1>5, <1>6, <1>9, <1>10, <2>1, <2>2, <2>3, <2>4 DEF ClientOrder
  <1>12. ClientServed(c)'
    BY <1>1, <1>5, <1>6, <1>10 DEF IInv, Served, ClientServed, OnItsWay, Read
  <1> QED BY <1>1, <1>7, <1>8, <1>11, <1>12, OneClient

LEMMA BreakKeeps ==
  ASSUME IInv, NEW c \in Clients, ConnectionBreaks(c)
  PROVE  IInv'
  <1>1. /\ conn[c] = "open" /\ conn' = [conn EXCEPT ![c] = "lost"]
        /\ asked' = [asked EXCEPT ![c] = <<>>] /\ wire' = [wire EXCEPT ![c] = <<>>]
        /\ reply' = [reply EXCEPT ![c] = "none"]
        /\ waiting' = [waiting EXCEPT ![c] = "none"] /\ held' = [held EXCEPT ![c] = {}]
        /\ UNCHANGED <<published, queue, subs, inbox, seen, due, dropped>>
    BY DEF ConnectionBreaks, Histories
  <1>2. /\ conn \in [Clients -> {"none", "open", "lost", "gone"}]
        /\ asked \in [Clients -> Seq([coll : Collections, filter : Filters])]
        /\ wire \in [Clients -> Seq(Message)] /\ reply \in [Clients -> Collections \cup {"none"}]
        /\ waiting \in [Clients -> Collections \cup {"none"}]
        /\ held \in [Clients -> SUBSET ((Collections \cup {""}) \X Collections)]
    BY DEF IInv, HubTypes
  <1>3. /\ conn' \in [Clients -> {"none", "open", "lost", "gone"}] /\ conn'[c] = "lost"
        /\ wire' \in [Clients -> Seq(Message)] /\ wire'[c] = <<>>
        /\ asked' \in [Clients -> Seq([coll : Collections, filter : Filters])]
    <2>1. <<>> \in Seq(Message) /\ <<>> \in Seq([coll : Collections, filter : Filters])
      OBVIOUS
    <2>2. asked' \in [Clients -> Seq([coll : Collections, filter : Filters])]
      BY <1>1, <1>2, <2>1
    <2>3. wire' \in [Clients -> Seq(Message)] /\ wire'[c] = <<>>
      BY <1>1, <1>2, <2>1
    <2> QED BY <1>1, <1>2, <2>2, <2>3
  <1>4. /\ reply' \in [Clients -> Collections \cup {"none"}]
        /\ waiting' \in [Clients -> Collections \cup {"none"}]
        /\ held' \in [Clients -> SUBSET ((Collections \cup {""}) \X Collections)]
    BY <1>1, <1>2
  <1>5. HubTypes'
    BY <1>1, <1>3, <1>4 DEF IInv, HubTypes
  <1>6. ClientOrder(c)'
    <2>1. ClientOrder(c)
      BY DEF IInv, Order
    <2>2. Numbers(wire'[c]) = {} /\ Increasing(wire'[c])
      BY <1>3, EmptyChannel
    <2>3. inbox'[c] = inbox[c] /\ seen'[c] = seen[c] /\ queue' = queue /\ published' = published
      BY <1>1
    <2>4. Read(c)' = Read(c)
      BY <2>3 DEF Read
    <2> QED BY <2>1, <2>2, <2>3, <2>4 DEF ClientOrder, Before
  <1>7. ClientServed(c)'
    BY <1>3 DEF ClientServed
  <1>8. \A d \in Clients : d # c => SameClient(d)
    BY <1>1, <1>2 DEF SameClient
  <1> QED BY <1>1, <1>5, <1>6, <1>7, <1>8, OneClient

LEMMA UnregisterKeeps ==
  ASSUME IInv, NEW c \in Clients, Unregister(c)
  PROVE  IInv'
  <1>1. /\ conn[c] = "lost" /\ conn' = [conn EXCEPT ![c] = "gone"]
        /\ subs' = [subs EXCEPT ![c] = NoSubs] /\ inbox' = [inbox EXCEPT ![c] = <<>>]
        /\ due' = [due EXCEPT ![c] = {}]
        /\ UNCHANGED <<published, queue, reply, asked, wire, waiting, held, seen, dropped>>
    BY DEF Unregister, ClientSide
  <1>2. /\ conn \in [Clients -> {"none", "open", "lost", "gone"}]
        /\ subs \in [Clients -> [Collections -> Filters]] /\ inbox \in [Clients -> Seq(EventMsg)]
        /\ due \in [Clients -> SUBSET (1..published)]
        /\ \A d \in Clients : Len(inbox[d]) <= InboxSize
    BY DEF IInv, HubTypes
  <1>3. NoSubs \in [Collections -> Filters]
    BY DEF NoSubs, Filters
  <1>4. /\ conn' \in [Clients -> {"none", "open", "lost", "gone"}] /\ conn'[c] = "gone"
        /\ subs' \in [Clients -> [Collections -> Filters]]
        /\ due' \in [Clients -> SUBSET (1..published)]
    BY <1>1, <1>2, <1>3
  <1>5. /\ inbox' \in [Clients -> Seq(EventMsg)] /\ inbox'[c] = <<>>
        /\ \A d \in Clients : d # c => inbox'[d] = inbox[d]
    BY <1>1, <1>2
  <1>6. ASSUME NEW d \in Clients PROVE Len(inbox'[d]) <= InboxSize
    <2>1. Len(<<>>) = 0 /\ 0 <= InboxSize
      BY HubParameters
    <2> QED BY <1>2, <1>5, <2>1
  <1>7. HubTypes'
    BY <1>1, <1>4, <1>5, <1>6 DEF IInv, HubTypes
  <1>8. ClientOrder(c)'
    <2>1. ClientOrder(c)
      BY DEF IInv, Order
    <2>2. Numbers(inbox'[c]) = {} /\ Increasing(inbox'[c])
      BY <1>5, EmptyChannel
    <2>3. wire'[c] = wire[c] /\ seen'[c] = seen[c] /\ queue' = queue /\ published' = published
      BY <1>1
    <2>4. Read(c)' = Read(c)
      BY <2>3 DEF Read
    <2> QED BY <2>1, <2>2, <2>3, <2>4 DEF ClientOrder, Before
  <1>9. ClientServed(c)'
    BY <1>4 DEF ClientServed
  <1>10. \A d \in Clients : d # c => SameClient(d)
    BY <1>1, <1>2 DEF SameClient
  <1> QED BY <1>1, <1>7, <1>8, <1>9, <1>10, OneClient

\* What the client asks for is no matter for the order of its events.
LEMMA AskKeeps ==
  ASSUME IInv, NEW c \in Clients, HubTypes',
         UNCHANGED <<published, queue, conn, subs, inbox, wire, seen, due, dropped>>
  PROVE  IInv'
  <1>1. ClientOrder(c)' /\ ClientServed(c)'
    BY DEF IInv, Order, Served, ClientOrder, ClientServed, OnItsWay, Read, Before
  <1>2. \A d \in Clients : SameClient(d)
    BY DEF SameClient
  <1> QED BY <1>1, <1>2, OneClient

LEMMA AskedType ==
  ASSUME IInv, NEW c \in Clients, NEW m \in [coll : Collections, filter : Filters]
  PROVE  [asked EXCEPT ![c] = Append(@, m)] \in [Clients -> Seq([coll : Collections, filter : Filters])]
  <1> DEFINE Requests == [coll : Collections, filter : Filters]
  <1>1. asked \in [Clients -> Seq(Requests)]
    BY DEF IInv, HubTypes
  <1>2. m \in Requests
    OBVIOUS
  <1> HIDE DEF Requests
  <1>3. asked[c] \in Seq(Requests)
    BY <1>1
  <1>4. Append(asked[c], m) \in Seq(Requests)
    BY <1>2, <1>3
  <1>5. [asked EXCEPT ![c] = Append(@, m)] \in [Clients -> Seq(Requests)]
    BY <1>1, <1>4
  <1> QED BY <1>5 DEF Requests

LEMMA SubscribeKeeps ==
  ASSUME IInv, NEW c \in Clients, NEW k \in Collections, NEW filter \in {"all", "filter"},
         Subscribe(c, k, filter)
  PROVE  IInv'
  <1>1. /\ asked' = [asked EXCEPT ![c] = Append(@, [coll |-> k, filter |-> filter])]
        /\ waiting' = [waiting EXCEPT ![c] = k]
        /\ UNCHANGED <<published, queue, conn, subs, inbox, reply, wire, held, seen, due, dropped>>
    BY DEF Subscribe, Ask, ServerSide, Histories
  <1>2. [coll |-> k, filter |-> filter] \in [coll : Collections, filter : Filters]
    BY DEF Filters
  <1>3. asked' \in [Clients -> Seq([coll : Collections, filter : Filters])]
    BY <1>1, <1>2, AskedType
  <1>4. HubTypes'
    BY <1>1, <1>3 DEF IInv, HubTypes
  <1> QED BY <1>1, <1>4, AskKeeps

LEMMA UnsubscribeKeeps ==
  ASSUME IInv, NEW c \in Clients, NEW s \in held[c], Unsubscribe(c, s)
  PROVE  IInv'
  <1>1. /\ \/ asked' = asked
           \/ asked' = [asked EXCEPT ![c] = Append(@, [coll |-> s[2], filter |-> "none"])]
        /\ held' = [held EXCEPT ![c] = @ \ {s}]
        /\ UNCHANGED <<published, queue, conn, subs, inbox, reply, wire, waiting, seen, due, dropped>>
    BY DEF Unsubscribe, Ask, ServerSide, Histories
  <1>2. s \in (Collections \cup {""}) \X Collections
    BY DEF IInv, HubTypes
  <1>3. [coll |-> s[2], filter |-> "none"] \in [coll : Collections, filter : Filters]
    BY <1>2 DEF Filters
  <1>4. asked' \in [Clients -> Seq([coll : Collections, filter : Filters])]
    <2>1. [asked EXCEPT ![c] = Append(@, [coll |-> s[2], filter |-> "none"])]
            \in [Clients -> Seq([coll : Collections, filter : Filters])]
      BY <1>3, AskedType
    <2>2. asked \in [Clients -> Seq([coll : Collections, filter : Filters])]
      BY DEF IInv, HubTypes
    <2> QED BY <1>1, <2>1, <2>2
  <1>5. held' \in [Clients -> SUBSET ((Collections \cup {""}) \X Collections)]
    BY <1>1 DEF IInv, HubTypes
  <1>6. HubTypes'
    BY <1>1, <1>4, <1>5 DEF IInv, HubTypes
  <1> QED BY <1>1, <1>6, AskKeeps

\* The client reads a message: SubscribeReads and the read loop.
LEMMA ReadingKeeps ==
  ASSUME IInv, NEW c \in Clients, NEW m, m = Head(wire[c]), wire[c] # <<>>,
         wire' = [wire EXCEPT ![c] = Tail(@)],
         seen' = IF m.type = "event" THEN [seen EXCEPT ![c] = Append(@, m.n)] ELSE seen,
         waiting' \in [Clients -> Collections \cup {"none"}],
         held' \in [Clients -> SUBSET ((Collections \cup {""}) \X Collections)],
         UNCHANGED <<published, queue, conn, subs, inbox, reply, asked, due, dropped>>
  PROVE  IInv'
  <1>1. /\ wire \in [Clients -> Seq(Message)] /\ wire[c] \in Seq(Message)
        /\ seen \in [Clients -> Seq(Nat)] /\ seen[c] \in Seq(Nat)
    BY DEF IInv, HubTypes
  <1>2. m \in Message /\ Tail(wire[c]) \in Seq(Message)
    BY <1>1, TakeHead
  <1>3. m.type = "event" => m.n \in Nat
    BY <1>2 DEF Message, EventMsg
  <1>4. wire' \in [Clients -> Seq(Message)] /\ wire'[c] = Tail(wire[c])
    BY <1>1, <1>2
  <1>5. /\ seen' \in [Clients -> Seq(Nat)]
        /\ seen'[c] = IF m.type = "event" THEN Append(seen[c], m.n) ELSE seen[c]
    BY <1>1, <1>3, PutLast
  <1>6. HubTypes'
    BY <1>4, <1>5 DEF IInv, HubTypes
  <1>7. ClientOrder(c)
    BY DEF IInv, Order
  <1>8. /\ Increasing(wire'[c])
        /\ m.type = "event" => /\ Numbers(wire[c]) = Numbers(wire'[c]) \cup {m.n}
                               /\ \A b \in Numbers(wire'[c]) : m.n < b
        /\ m.type # "event" => Numbers(wire'[c]) = Numbers(wire[c])
    BY <1>1, <1>4, <1>7, TakeNumbers DEF ClientOrder
  <1>9. /\ Read(c)' = IF m.type = "event" THEN Read(c) \cup {m.n} ELSE Read(c)
        /\ Ascending(seen'[c])
    <2>1. CASE m.type = "event"
      <3>1. \A a \in Read(c) : a < m.n
        BY <1>7, <1>8, <2>1 DEF ClientOrder, Before
      <3>2. Ascending(seen[c])
        BY <1>7 DEF ClientOrder
      <3>3. /\ {Append(seen[c], m.n)[i] : i \in DOMAIN Append(seen[c], m.n)}
                = {seen[c][i] : i \in DOMAIN seen[c]} \cup {m.n}
            /\ Ascending(seen[c]) /\ (\A a \in {seen[c][i] : i \in DOMAIN seen[c]} : a < m.n)
                 => Ascending(Append(seen[c], m.n))
        BY <1>1, <1>3, <2>1, PutRead
      <3>4. seen'[c] = Append(seen[c], m.n)
        BY <1>5, <2>1
      <3>5. Read(c) = {seen[c][i] : i \in DOMAIN seen[c]} /\ Read(c)' = {seen'[c][i] : i \in DOMAIN seen'[c]}
        BY DEF Read
      <3>6. Read(c)' = Read(c) \cup {m.n}
        <4>1. {seen'[c][i] : i \in DOMAIN seen'[c]} = {Append(seen[c], m.n)[i] : i \in DOMAIN Append(seen[c], m.n)}
          BY <3>4, ZenonT(60)
        <4> QED BY <3>3, <3>5, <4>1
      <3>7. Ascending(seen'[c])
        BY <3>1, <3>2, <3>3, <3>4, <3>5
      <3> QED BY <2>1, <3>6, <3>7
    <2>2. CASE m.type # "event"
      BY <1>5, <1>7, <2>2 DEF Read, ClientOrder
    <2> QED BY <2>1, <2>2
  <1>10. ClientOrder(c)'
    <2>1. Before(Numbers(inbox'[c]), Numbers(queue')) /\ Increasing(inbox'[c])
      BY <1>7 DEF ClientOrder, Before
    <2>2. Before(Numbers(wire'[c]), Numbers(inbox'[c]) \cup Numbers(queue'))
      BY <1>7, <1>8 DEF ClientOrder, Before
    <2>3. Before(Read(c)', Numbers(wire'[c]) \cup Numbers(inbox'[c]) \cup Numbers(queue'))
      BY <1>7, <1>8, <1>9 DEF ClientOrder, Before
    <2> QED BY <1>7, <1>8, <1>9, <2>1, <2>2, <2>3 DEF ClientOrder
  <1>11. ClientServed(c)'
    BY <1>8, <1>9 DEF IInv, Served, ClientServed, OnItsWay
  <1>12. \A d \in Clients : d # c => SameClient(d)
    BY <1>1 DEF SameClient
  <1> QED BY <1>6, <1>10, <1>11, <1>12, OneClient

LEMMA SubscribeReadsKeeps ==
  ASSUME IInv, NEW c \in Clients, SubscribeReads(c)
  PROVE  IInv'
  <1> SUFFICES ASSUME NEW m, m = Head(wire[c]) PROVE IInv'
    OBVIOUS
  <1> DEFINE id == IF m.type = "subscribed" THEN m.coll ELSE ""
  <1>1. /\ wire[c] # <<>> /\ wire' = [wire EXCEPT ![c] = Tail(@)]
        /\ seen' = IF m.type = "event" THEN [seen EXCEPT ![c] = Append(@, m.n)] ELSE seen
        /\ held' = [held EXCEPT ![c] = {s \in @ : s[1] # id} \cup {<<id, m.coll>>}]
        /\ waiting' = [waiting EXCEPT ![c] = "none"]
        /\ UNCHANGED <<published, queue, conn, subs, inbox, reply, asked, due, dropped>>
    BY DEF SubscribeReads, ServerSide, Histories
  <1>2. m \in Message
    BY <1>1, TakeHead DEF IInv, HubTypes
  <1>3. <<id, m.coll>> \in (Collections \cup {""}) \X Collections
    BY <1>2 DEF Message, EventMsg
  <1> HIDE DEF id
  <1>4. held' \in [Clients -> SUBSET ((Collections \cup {""}) \X Collections)]
    BY <1>1, <1>3 DEF IInv, HubTypes
  <1>5. waiting' \in [Clients -> Collections \cup {"none"}]
    BY <1>1 DEF IInv, HubTypes
  <1> QED BY <1>1, <1>4, <1>5, ReadingKeeps

LEMMA ReadLoopKeeps ==
  ASSUME IInv, NEW c \in Clients, readLoop(c)
  PROVE  IInv'
  <1> SUFFICES ASSUME NEW m, m = Head(wire[c]) PROVE IInv'
    OBVIOUS
  <1>1. /\ wire[c] # <<>> /\ wire' = [wire EXCEPT ![c] = Tail(@)]
        /\ seen' = IF m.type = "event" THEN [seen EXCEPT ![c] = Append(@, m.n)] ELSE seen
        /\ UNCHANGED <<published, queue, conn, subs, inbox, reply, asked, waiting, held, due, dropped>>
    BY DEF readLoop, ServerSide, Histories
  <1>2. /\ waiting' \in [Clients -> Collections \cup {"none"}]
        /\ held' \in [Clients -> SUBSET ((Collections \cup {""}) \X Collections)]
    BY <1>1 DEF IInv, HubTypes
  <1> QED BY <1>1, <1>2, ReadingKeeps

------------------------------------------------------------------------------
LEMMA InitInv == HubInit => IInv
  <1> SUFFICES ASSUME HubInit PROVE IInv
    OBVIOUS
  <1>1. NoSubs \in [Collections -> Filters]
    BY DEF NoSubs, Filters
  <1>2. published = 0 /\ published \in 0..MaxEvents
    BY HubParameters DEF HubInit
  <1>3. <<>> \in Seq(EventMsg) /\ Len(<<>>) = 0
    OBVIOUS
  <1>4. queue \in Seq(EventMsg) /\ Len(queue) <= QueueSize /\ \A c \in Clients : Len(inbox[c]) <= InboxSize
    BY <1>3, HubParameters DEF HubInit
  <1>5. HubTypes
    BY <1>1, <1>2, <1>4 DEF HubInit, HubTypes
  <1>6. Order
    BY EmptyChannel DEF HubInit, Order, QueueOrder, ClientOrder, Before, Read
  <1>7. Served
    BY DEF HubInit, Served, ClientServed
  <1> QED BY <1>5, <1>6, <1>7 DEF IInv

LEMMA NextInv == IInv /\ [HubNext]_hubVars => IInv'
  <1> SUFFICES ASSUME IInv, [HubNext]_hubVars PROVE IInv'
    OBVIOUS
  <1>1. ASSUME NEW k \in Collections, NEW fits \in BOOLEAN, NEW op \in {"insert", "delete", "create_index"},
               NEW project \in BOOLEAN, setupReplicationRealtime(op, project, k, fits)
        PROVE  IInv'
    <2>1. (fits /\ op # "delete") \in BOOLEAN
      OBVIOUS
    <2> QED BY <1>1, <2>1, PublishKeeps DEF setupReplicationRealtime
  <1>2. CASE UNCHANGED hubVars
    <2>1. HubTypes'
      BY <1>2 DEF hubVars, IInv, HubTypes
    <2>2. Order'
      BY <1>2 DEF hubVars, IInv, Order, QueueOrder, ClientOrder, Read, Before
    <2>3. Served'
      BY <1>2 DEF hubVars, IInv, Served, ClientServed, OnItsWay, Read
    <2> QED BY <2>1, <2>2, <2>3 DEF IInv
  <1> QED BY <1>1, <1>2, PublishKeeps, BroadcastKeeps, RegisterKeeps, ServeHTTPKeeps, AnswerKeeps,
             WriteLoopKeeps, BreakKeeps, UnregisterKeeps, SubscribeKeeps, SubscribeReadsKeeps,
             ReadLoopKeeps, UnsubscribeKeeps DEF HubNext

(* The strengthening that the properties of the hub rest on: the numbers in    *)
(* the channels between a write and its subscriber are in order, and an event  *)
(* that is due is in one of them and matches as long as it is in the first.    *)
THEOREM HubInductive == HubSpec => []IInv
  BY InitInv, NextInv, PTL DEF HubSpec

(* Channels stay within their capacity. *)
THEOREM HubTypeCorrect == HubSpec => []HubTypeOK
  <1>1. IInv => HubTypeOK
    BY DEF IInv, HubTypes, HubTypeOK
  <1> QED BY <1>1, HubInductive, PTL

(* A subscriber sees events in the order they were published, none twice, and  *)
(* misses one only to a full channel, for any capacities and any order of the  *)
(* steps of the hub, the connection and the readers of the client. *)
THEOREM Subscribers == HubSpec => []SubscribersAreServed
  <1>1. IInv => EventsComeInOrder
    BY DEF IInv, Order, ClientOrder, Ascending, EventsComeInOrder
  <1>2. IInv => OnlyFullChannelsLose
    BY DEF IInv, Served, ClientServed, OnItsWay, Read, OnlyFullChannelsLose
  <1> QED BY <1>1, <1>2, HubInductive, PTL DEF SubscribersAreServed

------------------------------------------------------------------------------
\* Document requests.  A step of a handler:
DocOps == {"insert", "update", "delete", "get", "list", "batch", "noData"}
Stages == {"rls", "hook", "write", "count", "read", "announce", "filter", "batchWrite",
           "adminWrite", "next", "panic", "totals"}
Work == [do : Stages, op : DocOps, d : Docs]

\* Where a request, or the next operation of a batch, may begin.
Begins(w) ==
  \/ w.do = "rls" /\ w.op \in {"insert", "update", "get"}
  \/ w.do = "read" /\ w.op \in {"delete", "list"}
  \/ w.do \in {"adminWrite", "panic", "totals"}

\* What may come after a step of a request, and for which document.
Follows(v, w) ==
  LET Same(stages) == w.op = v.op /\ w.d = v.d /\ w.do \in stages IN
  /\ v.do = "rls" => Same(IF v.op = "get" THEN {"read"} ELSE {"hook", "batchWrite"})
  /\ v.do = "hook" => Same({"write"})
  /\ v.do = "write" => Same({"count"})
  /\ v.do \in {"count", "batchWrite"} => Same(IF v.op = "delete" THEN {"announce"} ELSE {"read"})
  /\ v.do = "read" => Same(IF v.op = "delete" THEN {"rls"} ELSE IF v.op = "list" THEN {"filter"} ELSE {"announce"})
  /\ v.do = "announce" => w.do = "next"
  /\ v.do \notin {"filter", "totals"}
  /\ v.do \in {"adminWrite", "next", "panic"} => Begins(w)

IsBatch(s) == s # <<>> /\ s[Len(s)].do = "totals"

\* The steps of a request, or what is left of them: a write is followed by what
\* counts and announces it, and a refusal in a batch leads to what follows.
Chained(s) == \A i \in 1..Len(s) - 1 : Follows(s[i], s[i + 1])
Fits(s, i) ==
  /\ s[i].do \in {"rls", "batchWrite"} /\ IsBatch(s) => \E j \in i + 1..Len(s) : s[j].do = "next"
  /\ s[i].do \in {"write", "batchWrite", "count"} \/ (s[i].do = "read" /\ s[i].op \in {"insert", "update"}) => i < Len(s)
  /\ s[i].do \in {"write", "batchWrite", "count", "announce"} => s[i].op \in {"insert", "update", "delete"}
  /\ s[i].do = "batchWrite" => IsBatch(s)
  /\ s[i].do \in {"hook", "write", "count", "adminWrite"} => ~IsBatch(s)
Linked(s) == Chained(s) /\ \A i \in 1..Len(s) : Fits(s, i)

LEMMA OnSteps ==
  ASSUME NEW d \in Docs, NEW op \in DocOps, NEW todo \in Seq(Stages)
  PROVE  LET p == On(d, op, todo) IN
         /\ p \in Seq(Work) /\ Len(p) = Len(todo)
         /\ \A i \in 1..Len(todo) : p[i] = [do |-> todo[i], op |-> op, d |-> d]
  <1> DEFINE p == On(d, op, todo)
  <1>1. DOMAIN todo = 1..Len(todo) /\ Len(todo) \in Nat /\ \A i \in 1..Len(todo) : todo[i] \in Stages
    OBVIOUS
  <1>2. \A i \in 1..Len(todo) : p[i] = [do |-> todo[i], op |-> op, d |-> d] /\ p[i] \in Work
    BY <1>1 DEF On, Work
  <1>3. p \in [1..Len(todo) -> Work]
    BY <1>1, <1>2 DEF On
  <1>4. p \in Seq(Work) /\ Len(p) = Len(todo)
    BY <1>1, <1>3
  <1> QED BY <1>2, <1>4

LEMMA Smallest ==
  ASSUME NEW S, S \subseteq Nat, S # {}
  PROVE  \E i \in S : \A j \in S : i <= j
  <1> DEFINE R == OpToRel(<, Nat)
  <1>1. IsWellFoundedOn(R, Nat)
    BY NatLessThanWellFounded
  <1>2. \A x, y \in Nat : <<x, y>> \in R <=> x < y
    BY DEF OpToRel
  <1> HIDE DEF R
  <1>3. PICK i \in S : \A j \in S : ~(<<j, i>> \in R)
    BY <1>1, WFMin
  <1>4. \A j \in S : ~(j < i)
    BY <1>2, <1>3
  <1> QED BY <1>4

\* What is left of a request.
LEMMA Rests ==
  ASSUME NEW s \in Seq(Work), Linked(s), NEW k \in 1..Len(s) + 1
  PROVE  LET t == SubSeq(s, k, Len(s)) IN
         /\ t \in Seq(Work) /\ Len(t) = Len(s) - k + 1 /\ (t = <<>> <=> k > Len(s))
         /\ \A i \in 1..Len(t) : t[i] = s[k - 1 + i]
         /\ Linked(t) /\ (IsBatch(t) <=> IsBatch(s) /\ t # <<>>)
  <1> DEFINE t == SubSeq(s, k, Len(s))
  <1>1. Len(s) \in Nat
    OBVIOUS
  <1>2. Len(t) = Len(s) - k + 1 /\ t \in Seq(Work)
    BY <1>1
  <1>3. \A i \in 1..Len(t) : t[i] = s[k - 1 + i]
    BY <1>1, <1>2
  <1> HIDE DEF t
  <1>4. t = <<>> <=> k > Len(s)
    BY <1>1, <1>2
  <1>5. IsBatch(t) <=> IsBatch(s) /\ t # <<>>
    BY <1>1, <1>2, <1>3, <1>4 DEF IsBatch
  <1>6. Chained(t)
    <2> SUFFICES ASSUME NEW i \in 1..Len(t) - 1 PROVE Follows(t[i], t[i + 1])
      BY DEF Chained
    <2>1. i \in 1..Len(t) /\ i + 1 \in 1..Len(t) /\ k - 1 + i \in 1..Len(s) - 1
      BY <1>1, <1>2
    <2>2. t[i] = s[k - 1 + i]
      BY <1>3, <2>1
    <2>3. t[i + 1] = s[k - 1 + (i + 1)]
      BY <1>3, <2>1
    <2>4. k - 1 + (i + 1) = (k - 1 + i) + 1
      BY <1>1
    <2> QED BY <2>1, <2>2, <2>3, <2>4 DEF Linked, Chained
  <1>7. ASSUME NEW i \in 1..Len(t) PROVE Fits(t, i)
    <2> DEFINE h == k - 1 + i
    <2>1. h \in 1..Len(s) /\ t[i] = s[h] /\ t # <<>> /\ (i < Len(t) <=> h < Len(s))
      BY <1>1, <1>2, <1>3, <1>4
    <2>2. ASSUME NEW j \in h + 1..Len(s) PROVE j - (k - 1) \in i + 1..Len(t) /\ t[j - (k - 1)] = s[j]
      BY <1>1, <1>2, <1>3
    <2>3. Fits(s, h)
      BY <2>1 DEF Linked
    <2> HIDE DEF h
    <2>4. t[i].do \in {"rls", "batchWrite"} /\ IsBatch(t) => \E j \in i + 1..Len(t) : t[j].do = "next"
      BY <1>5, <2>1, <2>2, <2>3 DEF Fits
    <2> QED BY <1>5, <2>1, <2>3, <2>4 DEF Fits
  <1>8. Linked(t)
    BY <1>6, <1>7 DEF Linked
  <1> QED BY <1>2, <1>3, <1>4, <1>5, <1>8 DEF t

\* What is left after a step.
LEMMA Goes ==
  ASSUME NEW s \in Seq(Work), Linked(s), s # <<>>
  PROVE  LET t == After(s) IN
         /\ t \in Seq(Work) /\ Linked(t)
         /\ \A i \in 1..Len(t) : \E j \in 1..Len(s) : t[i] = s[j]
         /\ IsBatch(t) => IsBatch(s)
         /\ IsBatch(s) /\ s[1].do # "totals" => IsBatch(t)
         /\ t # <<>> => (IF s[1].do = "announce" THEN Begins(t[1]) ELSE Follows(s[1], t[1]))
         /\ s[1].do \in {"write", "batchWrite", "count"} \/ (s[1].do = "read" /\ s[1].op \in {"insert", "update"}) => t # <<>>
  <1> DEFINE t == After(s)
  <1>0. Len(s) \in Nat /\ Len(s) >= 1
    OBVIOUS
  <1>1. Len(s) \in Nat /\ Len(s) >= 1 /\ \A i \in 1..Len(s) : s[i] \in Work
    BY <1>0
  <1>2. /\ Tail(s) = SubSeq(s, 2, Len(s)) /\ (Tail(s) = <<>> <=> Len(s) <= 1)
        /\ Len(s) > 1 => Tail(s)[1] = s[2]
    <2>1. Tail(s) = SubSeq(s, 2, Len(s)) /\ 2 \in 1..Len(s) + 1
      BY <1>0
    <2>2. /\ Len(Tail(s)) = Len(s) - 2 + 1 /\ (Tail(s) = <<>> <=> 2 > Len(s))
          /\ \A i \in 1..Len(Tail(s)) : Tail(s)[i] = s[1 + i]
      BY <2>1, Rests
    <2>3. Len(s) > 1 => Tail(s)[1] = s[1 + 1]
      BY <1>0, <2>2
    <2>4. (Len(s) <= 1 => 2 > Len(s)) /\ (2 > Len(s) => Len(s) <= 1)
      BY <1>0
    <2> QED BY <2>1, <2>2, <2>3, <2>4
  <1>6. \A i \in 1..Len(s) - 1 : Follows(s[i], s[i + 1])
    BY DEF Linked, Chained
  <1> DEFINE goesOn == s[1].do \in {"write", "batchWrite", "count"} \/ (s[1].do = "read" /\ s[1].op \in {"insert", "update"})
  <1>10. goesOn => Len(s) > 1 /\ s[2].do # "next"
    <2>1. 1 \in 1..Len(s)
      BY <1>0
    <2>2. Fits(s, 1)
      BY <2>1 DEF Linked
    <2>3. goesOn => Len(s) > 1
      BY <1>0, <2>2 DEF Fits
    <2>4. Len(s) > 1 => Follows(s[1], s[2])
      BY <1>0, <1>6
    <2> QED BY <2>3, <2>4 DEF Follows
  <1>3. PICK k \in {2, 3} : /\ t = SubSeq(s, k, Len(s)) /\ k <= Len(s) + 1
                            /\ k = 2 => Len(s) <= 1 \/ s[2].do # "next"
                            /\ k = 3 => Len(s) > 1 /\ s[2].do = "next"
    <2>1. CASE Tail(s) # <<>> /\ Tail(s)[1].do = "next"
      <3>1. Len(s) > 1 /\ Tail(s)[1] = s[2]
        BY <1>1, <2>1
      <3>2. Tail(Tail(s)) = SubSeq(s, 3, Len(s))
        BY <1>1, <3>1
      <3> QED BY <1>1, <2>1, <3>1, <3>2 DEF After
    <2>2. CASE ~(Tail(s) # <<>> /\ Tail(s)[1].do = "next")
      <3>1. ASSUME Len(s) > 1 PROVE s[2].do # "next"
        <4>1. Tail(s)[1] = s[2]
          BY <1>1, <3>1
        <4>2. Tail(s) # <<>>
          BY <1>0, <1>2, <3>1
        <4> QED BY <2>2, <4>1, <4>2
      <3>2. t = Tail(s)
        BY <2>2 DEF After
      <3>3. Tail(s) = SubSeq(s, 2, Len(s)) /\ Len(s) >= 1 /\ Len(s) \in Nat
        BY <1>1
      <3> QED BY <3>1, <3>2, <3>3
    <2> QED BY <2>1, <2>2
  <1> HIDE DEF t
  <1>4. /\ t \in Seq(Work) /\ Len(t) = Len(s) - k + 1 /\ (t = <<>> <=> k > Len(s))
        /\ \A i \in 1..Len(t) : t[i] = s[k - 1 + i]
        /\ Linked(t) /\ (IsBatch(t) <=> IsBatch(s) /\ t # <<>>)
    <2>1. k \in 1..Len(s) + 1 /\ t = SubSeq(s, k, Len(s)) /\ s \in Seq(Work) /\ Linked(s)
      BY <1>1, <1>3
    <2> QED BY <2>1, Rests
  <1>5. \A i \in 1..Len(t) : \E j \in 1..Len(s) : t[i] = s[j]
    <2> TAKE i \in 1..Len(t)
    <2>1. t[i] = s[k - 1 + i]
      BY <1>4
    <2>2. Len(t) = Len(s) - k + 1
      BY <1>4
    <2>3. k - 1 + i \in 1..Len(s)
      BY <1>0, <1>3, <2>2
    <2> QED BY <2>1, <2>3
  <1>7. IsBatch(s) /\ s[1].do # "totals" => t # <<>>
    BY <1>1, <1>3, <1>4 DEF IsBatch
  <1>8. t # <<>> => (IF s[1].do = "announce" THEN Begins(t[1]) ELSE Follows(s[1], t[1]))
    <2> SUFFICES ASSUME t # <<>> PROVE IF s[1].do = "announce" THEN Begins(t[1]) ELSE Follows(s[1], t[1])
      OBVIOUS
    <2>1. t[1] = s[k] /\ Len(s) >= k
      BY <1>1, <1>3, <1>4
    <2>2. Follows(s[1], s[2])
      BY <1>1, <1>3, <1>6, <2>1
    <2>3. CASE k = 2
      <3>1. s[2].do # "next"
        BY <1>1, <1>3, <2>1, <2>3
      <3>2. s[1].do # "announce"
        BY <2>2, <3>1 DEF Follows
      <3> QED BY <2>1, <2>2, <2>3, <3>2
    <2>4. CASE k = 3
      <3>4. s[2].do = "next"
        BY <1>3, <2>4
      <3>5. 2 \in 1..Len(s) - 1
        BY <1>0, <2>1, <2>4
      <3>6. Follows(s[2], s[2 + 1])
        BY <1>6, <3>5
      <3>1. Follows(s[2], s[3]) /\ s[2].do = "next"
        BY <3>4, <3>6
      <3>2. s[1].do = "announce"
        <4>1. s[1].do \in Stages
          BY <1>1 DEF Work
        <4> QED BY <2>2, <3>1, <4>1 DEF Follows, Begins, Stages
      <3>3. Begins(s[3])
        BY <3>1 DEF Follows
      <3> QED BY <2>1, <2>4, <3>2, <3>3
    <2> QED BY <2>3, <2>4
  <1>9. goesOn => t # <<>>
    <2> SUFFICES ASSUME goesOn PROVE t # <<>>
      OBVIOUS
    <2> HIDE DEF goesOn
    <2>1. k # 3
      BY <1>3, <1>10
    <2>2. k = 2 /\ Len(s) > 1
      BY <1>10, <2>1
    <2>3. ~(k > Len(s))
      BY <1>0, <2>2
    <2> QED BY <1>4, <2>3
  <1> QED BY <1>4, <1>5, <1>7, <1>8, <1>9 DEF t

\* What is left after a refusal.
Refused(s) ==
  LET later == {i \in DOMAIN s : s[i].do = "next"}
      first == CHOOSE i \in later : \A j \in later : i <= j
  IN IF later = {} THEN <<>> ELSE SubSeq(s, first + 1, Len(s))

LEMMA NothingLeft == Linked(<<>>) /\ ~IsBatch(<<>>) /\ <<>> \in Seq(Work)
  BY DEF Linked, Chained, IsBatch

LEMMA Ends ==
  ASSUME NEW s \in Seq(Work), Linked(s), s # <<>>
  PROVE  LET t == Refused(s) IN
         /\ t \in Seq(Work) /\ Linked(t)
         /\ \A i \in 1..Len(t) : \E j \in 1..Len(s) : t[i] = s[j]
         /\ IsBatch(t) => IsBatch(s)
         /\ IsBatch(s) /\ s[1].do \in {"rls", "hook", "write", "batchWrite", "adminWrite"} => IsBatch(t)
         /\ t # <<>> => Begins(t[1])
  <1> DEFINE t == Refused(s)
             later == {i \in DOMAIN s : s[i].do = "next"}
             first == CHOOSE i \in later : \A j \in later : i <= j
  <1>1. Len(s) \in Nat /\ Len(s) >= 1 /\ DOMAIN s = 1..Len(s)
    OBVIOUS
  <1>2. t = IF later = {} THEN <<>> ELSE SubSeq(s, first + 1, Len(s))
    BY DEF Refused
  <1>3. \A i : i \in later <=> i \in 1..Len(s) /\ s[i].do = "next"
    BY <1>1
  <1>4. ASSUME IsBatch(s), s[1].do \in {"rls", "hook", "write", "batchWrite", "adminWrite"} PROVE later # {}
    <2>1. Fits(s, 1)
      BY <1>1 DEF Linked
    <2>2. \E j \in 2..Len(s) : s[j].do = "next"
      BY <1>1, <1>4, <2>1 DEF Fits
    <2> QED BY <1>1, <1>3, <2>2
  <1>5. CASE later = {}
    <2>1. t = <<>> /\ Len(t) = 0
      BY <1>2, <1>5
    <2> QED BY <1>4, <1>5, <2>1, NothingLeft DEF t
  <1>6. CASE later # {}
    <2>1. later \subseteq Nat
      BY <1>1, <1>3
    <2>2. first \in later
      <3>1. \E i \in later : \A j \in later : i <= j
        BY <1>6, <2>1, Smallest
      <3> QED BY <3>1
    <2>3. first \in 1..Len(s) /\ s[first].do = "next"
      BY <1>3, <2>2
    <2>4. t = SubSeq(s, first + 1, Len(s))
      BY <1>2, <1>6
    <2> HIDE DEF t, first, later
    <2>5. first + 1 \in 1..Len(s) + 1
      BY <1>1, <2>3
    <2>6. /\ t \in Seq(Work) /\ Len(t) = Len(s) - (first + 1) + 1 /\ (t = <<>> <=> first + 1 > Len(s))
          /\ \A i \in 1..Len(t) : t[i] = s[(first + 1) - 1 + i]
          /\ Linked(t) /\ (IsBatch(t) <=> IsBatch(s) /\ t # <<>>)
      BY <2>4, <2>5, Rests
    <2>7. \A i \in 1..Len(t) : \E j \in 1..Len(s) : t[i] = s[j]
      <3> TAKE i \in 1..Len(t)
      <3>1. (first + 1) - 1 + i \in 1..Len(s) /\ t[i] = s[(first + 1) - 1 + i]
        BY <1>1, <2>3, <2>6
      <3> QED BY <3>1
    <2>8. IsBatch(s) => t # <<>>
      BY <1>1, <2>3, <2>6 DEF IsBatch
    <2>9. t # <<>> => Begins(t[1])
      <3> SUFFICES ASSUME t # <<>> PROVE Begins(t[1])
        OBVIOUS
      <3>1. Len(t) >= 1 /\ first \in 1..Len(s) - 1 /\ 1 \in 1..Len(t)
        BY <1>1, <2>3, <2>6
      <3>2. t[1] = s[(first + 1) - 1 + 1] /\ (first + 1) - 1 + 1 = first + 1
        BY <2>3, <2>6, <3>1
      <3>3. Follows(s[first], s[first + 1])
        BY <3>1 DEF Linked, Chained
      <3> QED BY <2>3, <3>2, <3>3 DEF Follows
    <2> QED BY <2>6, <2>7, <2>8, <2>9 DEF t
  <1> QED BY <1>5, <1>6

\* A request that arrives.
Fresh(p) == p \in Seq(Work) /\ Linked(p) /\ p # <<>> /\ Begins(p[1])

LEMMA NonEmpty == ASSUME NEW s \in Seq(Work), Len(s) >= 1 PROVE s # <<>>
  <1>1. Len(<<>>) = 0
    OBVIOUS
  <1> QED BY <1>1

LEMMA Single ==
  ASSUME NEW d \in Docs, NEW op \in DocOps, NEW stage \in Stages
  PROVE  LET p == On(d, op, <<stage>>) IN
         p \in Seq(Work) /\ Len(p) = 1 /\ p[1] = [do |-> stage, op |-> op, d |-> d]
  <1> DEFINE todo == <<stage>>
  <1>1. todo \in Seq(Stages) /\ Len(todo) = 1 /\ todo[1] = stage
    OBVIOUS
  <1> HIDE DEF todo
  <1>2. LET p == On(d, op, todo) IN p \in Seq(Work) /\ Len(p) = 1 /\ p[1] = [do |-> stage, op |-> op, d |-> d]
    BY <1>1, OnSteps
  <1> QED BY <1>2 DEF todo

LEMMA Changes ==
  ASSUME NEW d \in Docs, NEW op \in {"insert", "update"}
  PROVE  Fresh(On(d, op, <<"rls", "hook", "write", "count", "read", "announce">>))
  <1> DEFINE todo == <<"rls", "hook", "write", "count", "read", "announce">>
             p == On(d, op, todo)
             w(stage) == [do |-> stage, op |-> op, d |-> d]
  <1>1. todo \in Seq(Stages) /\ Len(todo) = 6 /\ op \in DocOps
    BY DEF Stages, DocOps
  <1>2. p \in Seq(Work) /\ Len(p) = 6 /\ \A i \in 1..6 : p[i] = w(todo[i])
    <2> HIDE DEF todo
    <2> QED BY <1>1, OnSteps
  <1>3. /\ p[1] = w("rls") /\ p[2] = w("hook") /\ p[3] = w("write")
        /\ p[4] = w("count") /\ p[5] = w("read") /\ p[6] = w("announce")
    BY <1>2
  <1> HIDE DEF p
  <1>4. /\ Follows(p[1], p[2]) /\ Follows(p[2], p[3]) /\ Follows(p[3], p[4])
        /\ Follows(p[4], p[5]) /\ Follows(p[5], p[6])
    BY <1>3 DEF Follows
  <1>5. Chained(p)
    <2>1. \A i \in 1..Len(p) - 1 : i \in {1, 2, 3, 4, 5}
      BY <1>2
    <2> QED BY <1>4, <2>1 DEF Chained
  <1>6. ~IsBatch(p)
    BY <1>2, <1>3 DEF IsBatch
  <1>7. \A i \in 1..6 : Fits(p, i)
    BY <1>2, <1>3, <1>6 DEF Fits
  <1>8. p # <<>>
    <2>1. Len(p) >= 1
      BY <1>2
    <2> QED BY <1>2, <2>1, NonEmpty
  <1>10. Begins(p[1])
    BY <1>3 DEF Begins
  <1>9. Fresh(p)
    BY <1>2, <1>5, <1>7, <1>8, <1>10 DEF Fresh, Linked
  <1> QED BY <1>9 DEF p

LEMMA Deletion ==
  ASSUME NEW d \in Docs
  PROVE  Fresh(On(d, "delete", <<"read", "rls", "hook", "write", "count", "announce">>))
  <1> DEFINE todo == <<"read", "rls", "hook", "write", "count", "announce">>
             p == On(d, "delete", todo)
             w(stage) == [do |-> stage, op |-> "delete", d |-> d]
  <1>1. todo \in Seq(Stages) /\ Len(todo) = 6 /\ "delete" \in DocOps
    BY DEF Stages, DocOps
  <1>2. p \in Seq(Work) /\ Len(p) = 6 /\ \A i \in 1..6 : p[i] = w(todo[i])
    <2> HIDE DEF todo
    <2> QED BY <1>1, OnSteps
  <1>3. /\ p[1] = w("read") /\ p[2] = w("rls") /\ p[3] = w("hook")
        /\ p[4] = w("write") /\ p[5] = w("count") /\ p[6] = w("announce")
    BY <1>2
  <1> HIDE DEF p
  <1>4. /\ Follows(p[1], p[2]) /\ Follows(p[2], p[3]) /\ Follows(p[3], p[4])
        /\ Follows(p[4], p[5]) /\ Follows(p[5], p[6])
    BY <1>3 DEF Follows
  <1>5. Chained(p)
    <2>1. \A i \in 1..Len(p) - 1 : i \in {1, 2, 3, 4, 5}
      BY <1>2
    <2> QED BY <1>4, <2>1 DEF Chained
  <1>6. ~IsBatch(p)
    BY <1>2, <1>3 DEF IsBatch
  <1>7. \A i \in 1..6 : Fits(p, i)
    BY <1>2, <1>3, <1>6 DEF Fits
  <1>8. p # <<>> /\ Begins(p[1])
    <2>1. Len(p) >= 1
      BY <1>2
    <2>2. p # <<>>
      BY <1>2, <2>1, NonEmpty
    <2> QED BY <1>3, <2>2 DEF Begins
  <1>9. Fresh(p)
    BY <1>2, <1>5, <1>7, <1>8 DEF Fresh, Linked
  <1> QED BY <1>9 DEF p

\* The short requests.
LEMMA Brief ==
  ASSUME NEW p \in Seq(Work), Len(p) \in {1, 2}, Begins(p[1]), Len(p) = 2 => Follows(p[1], p[2]),
         \A i \in 1..Len(p) : /\ p[i].do \in {"rls", "read", "filter", "adminWrite"}
                              /\ p[i].do = "read" => p[i].op \in {"get", "list"}
  PROVE  Fresh(p)
  <1>1. Chained(p)
    BY DEF Chained
  <1>2. p # <<>>
    BY NonEmpty
  <1>3. ~IsBatch(p)
    BY DEF IsBatch
  <1>4. \A i \in 1..Len(p) : Fits(p, i)
    BY <1>3 DEF Fits
  <1> QED BY <1>1, <1>2, <1>4 DEF Fresh, Linked

LEMMA Reads ==
  ASSUME NEW d \in Docs
  PROVE  Fresh(On(d, "get", <<"rls", "read">>)) /\ Fresh(On(d, "list", <<"read", "filter">>))
  <1>1. ASSUME NEW op \in {"get", "list"}, NEW a \in {"rls", "read"}, NEW b \in {"read", "filter"},
               Begins([do |-> a, op |-> op, d |-> d]),
               Follows([do |-> a, op |-> op, d |-> d], [do |-> b, op |-> op, d |-> d])
        PROVE  Fresh(On(d, op, <<a, b>>))
    <2> DEFINE todo == <<a, b>>
               p == On(d, op, todo)
    <2>1. todo \in Seq(Stages) /\ Len(todo) = 2 /\ todo[1] = a /\ todo[2] = b /\ op \in DocOps
      BY DEF Stages, DocOps
    <2> HIDE DEF todo
    <2>2. p \in Seq(Work) /\ Len(p) = 2 /\ \A i \in 1..2 : p[i] = [do |-> todo[i], op |-> op, d |-> d]
      BY <2>1, OnSteps
    <2>3. p[1] = [do |-> a, op |-> op, d |-> d] /\ p[2] = [do |-> b, op |-> op, d |-> d]
      BY <2>1, <2>2
    <2> HIDE DEF p
    <2>4. \A i \in 1..Len(p) : p[i].do \in {"rls", "read", "filter", "adminWrite"} /\ p[i].op \in {"get", "list"}
      BY <2>2, <2>3
    <2>5. Fresh(p)
      BY <1>1, <2>2, <2>3, <2>4, Brief
    <2> QED BY <2>5 DEF p, todo
  <1>2. /\ Begins([do |-> "rls", op |-> "get", d |-> d]) /\ Begins([do |-> "read", op |-> "list", d |-> d])
        /\ Follows([do |-> "rls", op |-> "get", d |-> d], [do |-> "read", op |-> "get", d |-> d])
        /\ Follows([do |-> "read", op |-> "list", d |-> d], [do |-> "filter", op |-> "list", d |-> d])
    BY DEF Begins, Follows
  <1> QED BY <1>1, <1>2

LEMMA AdminWrites ==
  ASSUME NEW d \in Docs, NEW op \in DocOps
  PROVE  Fresh(Admin(d, op)) /\ \A e \in Docs : Fresh(Admin(d, op) \o Admin(e, op))
  <1> DEFINE w(e) == [do |-> "adminWrite", op |-> op, d |-> e]
  <1>1. \A e \in Docs : Admin(e, op) \in Seq(Work) /\ Len(Admin(e, op)) = 1 /\ Admin(e, op)[1] = w(e)
    BY Single DEF Admin, Stages
  <1>2. \A e \in Docs : Begins(w(e)) /\ Follows(w(d), w(e))
    BY DEF Begins, Follows
  <1>3. Fresh(Admin(d, op))
    BY <1>1, <1>2, Brief
  <1>4. ASSUME NEW e \in Docs PROVE Fresh(Admin(d, op) \o Admin(e, op))
    <2> DEFINE p == Admin(d, op) \o Admin(e, op)
    <2>1. p \in Seq(Work) /\ Len(p) = 2 /\ p[1] = w(d) /\ p[2] = w(e)
      BY <1>1
    <2> HIDE DEF p
    <2>2. Fresh(p)
      BY <1>2, <2>1, Brief
    <2> QED BY <2>2 DEF p
  <1> QED BY <1>3, <1>4

\* An operation of a batch, or several.
Part(a) ==
  /\ a \in Seq(Work) /\ Len(a) >= 1 /\ Begins(a[1]) /\ a[Len(a)].do \in {"next", "panic"}
  /\ Chained(a)
  /\ \A i \in 1..Len(a) :
       /\ a[i].do \notin {"hook", "write", "count", "adminWrite"}
       /\ a[i].do \in {"rls", "batchWrite"} => \E j \in i + 1..Len(a) : a[j].do = "next"
       /\ a[i].do = "read" /\ a[i].op \in {"insert", "update"} => i < Len(a)
       /\ a[i].do \in {"batchWrite", "announce"} => a[i].op \in {"insert", "update", "delete"}

LEMMA BatchChanges ==
  ASSUME NEW d \in Docs, NEW op \in {"insert", "update", "delete"}, NEW todo \in Seq(Stages), Len(todo) = 5,
         todo[1] = IF op = "delete" THEN "read" ELSE "rls",
         todo[2] = IF op = "delete" THEN "rls" ELSE "batchWrite",
         todo[3] = IF op = "delete" THEN "batchWrite" ELSE "read",
         todo[4] = "announce", todo[5] = "next"
  PROVE  Part(On(d, op, todo))
  <1> DEFINE p == On(d, op, todo)
             w(stage) == [do |-> stage, op |-> op, d |-> d]
  <1>1. op \in DocOps
    BY DEF DocOps
  <1>2. p \in Seq(Work) /\ Len(p) = 5 /\ \A i \in 1..5 : p[i] = w(todo[i])
    BY <1>1, OnSteps
  <1>3. /\ p[1] = IF op = "delete" THEN w("read") ELSE w("rls")
        /\ p[2] = IF op = "delete" THEN w("rls") ELSE w("batchWrite")
        /\ p[3] = IF op = "delete" THEN w("batchWrite") ELSE w("read")
        /\ p[4] = w("announce") /\ p[5] = w("next")
    BY <1>2
  <1> HIDE DEF p
  <1>4. Follows(p[1], p[2]) /\ Follows(p[2], p[3]) /\ Follows(p[3], p[4]) /\ Follows(p[4], p[5])
    BY <1>3 DEF Follows
  <1>5. Chained(p)
    <2>1. \A i \in 1..Len(p) - 1 : i \in {1, 2, 3, 4}
      BY <1>2
    <2> QED BY <1>4, <2>1 DEF Chained
  <1>6. ASSUME NEW i \in 1..Len(p)
        PROVE  /\ p[i].do \notin {"hook", "write", "count", "adminWrite"}
               /\ p[i].do \in {"rls", "batchWrite"} => \E j \in i + 1..Len(p) : p[j].do = "next"
               /\ p[i].do = "read" /\ p[i].op \in {"insert", "update"} => i < Len(p)
               /\ p[i].do \in {"batchWrite", "announce"} => p[i].op \in {"insert", "update", "delete"}
    <2>1. i \in {1, 2, 3, 4, 5}
      BY <1>2
    <2>2. p[i].do \notin {"hook", "write", "count", "adminWrite"} /\ p[i].op \in {"insert", "update", "delete"}
      BY <1>3, <2>1
    <2>3. i \in {1, 2, 3, 4} => 5 \in i + 1..Len(p) /\ p[5].do = "next" /\ i < Len(p)
      BY <1>2, <1>3
    <2>4. i = 5 => p[i].do = "next"
      BY <1>3
    <2> QED BY <2>1, <2>2, <2>3, <2>4
  <1>7. Begins(p[1])
    BY <1>3 DEF Begins
  <1>8. Len(p) >= 1 /\ p[Len(p)].do = "next"
    BY <1>2, <1>3
  <1>9. Part(p)
    BY <1>2, <1>5, <1>6, <1>7, <1>8 DEF Part
  <1> QED BY <1>9 DEF p

LEMMA BatchPanic == ASSUME NEW d \in Docs PROVE Part(On(d, "noData", <<"panic">>))
  <1> DEFINE p == On(d, "noData", <<"panic">>)
  <1>1. p \in Seq(Work) /\ Len(p) = 1 /\ p[1] = [do |-> "panic", op |-> "noData", d |-> d]
    BY Single DEF Stages, DocOps
  <1> HIDE DEF p
  <1>2. Chained(p) /\ Begins(p[1])
    BY <1>1 DEF Chained, Begins
  <1>3. \A i \in 1..Len(p) : i = 1
    BY <1>1
  <1>4. Part(p)
    BY <1>1, <1>2, <1>3 DEF Part
  <1> QED BY <1>4 DEF p

\* Two sequences, one after the other.
LEMMA Joined ==
  ASSUME NEW a \in Seq(Work), NEW b \in Seq(Work), Len(a) >= 1, Len(b) >= 1,
         Chained(a), Chained(b), Follows(a[Len(a)], b[1])
  PROVE  LET p == a \o b IN
         /\ p \in Seq(Work) /\ Len(p) = Len(a) + Len(b) /\ Chained(p)
         /\ \A i \in 1..Len(a) : p[i] = a[i]
         /\ \A i \in 1..Len(b) : p[Len(a) + i] = b[i]
         /\ \A i \in 1..Len(p) : i \in 1..Len(a) \/ (i - Len(a) \in 1..Len(b) /\ i = Len(a) + (i - Len(a)))
  <1> DEFINE p == a \o b
  <1>1. Len(a) \in Nat /\ Len(b) \in Nat
    OBVIOUS
  <1>2. p \in Seq(Work) /\ Len(p) = Len(a) + Len(b)
    BY <1>1
  <1>3. (\A i \in 1..Len(a) : p[i] = a[i]) /\ \A i \in 1..Len(b) : p[Len(a) + i] = b[i]
    BY <1>1
  <1> HIDE DEF p
  <1>4. \A i \in 1..Len(p) : i \in 1..Len(a) \/ (i - Len(a) \in 1..Len(b) /\ i = Len(a) + (i - Len(a)))
    BY <1>1, <1>2
  <1>5. ASSUME NEW i \in 1..Len(p) - 1 PROVE Follows(p[i], p[i + 1])
    <2>1. CASE i < Len(a)
      <3>1. i \in 1..Len(a) - 1 /\ i \in 1..Len(a) /\ i + 1 \in 1..Len(a)
        BY <1>1, <1>2, <2>1
      <3> QED BY <1>3, <3>1 DEF Chained
    <2>2. CASE i >= Len(a) /\ i <= Len(a)
      <3>1. i = Len(a) /\ i \in 1..Len(a) /\ 1 \in 1..Len(b)
        BY <1>1, <1>2, <2>2
      <3> QED BY <1>3, <3>1
    <2>3. CASE i > Len(a)
      <3> DEFINE h == i - Len(a)
      <3>1. /\ h \in 1..Len(b) - 1 /\ h \in 1..Len(b) /\ h + 1 \in 1..Len(b)
            /\ i = Len(a) + h /\ i + 1 = Len(a) + (h + 1)
        BY <1>1, <1>2, <2>3
      <3> HIDE DEF h
      <3> QED BY <1>3, <3>1 DEF Chained
    <2> QED BY <1>1, <1>2, <2>1, <2>2, <2>3
  <1>6. Chained(p)
    BY <1>5 DEF Chained
  <1> QED BY <1>2, <1>3, <1>4, <1>6 DEF p

LEMMA PartsJoin == ASSUME NEW a, NEW b, Part(a), Part(b) PROVE Part(a \o b)
  <1> DEFINE p == a \o b
  <1>1. /\ a \in Seq(Work) /\ Len(a) >= 1 /\ Begins(a[1]) /\ a[Len(a)].do \in {"next", "panic"} /\ Chained(a)
        /\ b \in Seq(Work) /\ Len(b) >= 1 /\ Begins(b[1]) /\ b[Len(b)].do \in {"next", "panic"} /\ Chained(b)
    BY DEF Part
  <1>2. Len(a) \in Nat /\ Len(b) \in Nat
    BY <1>1
  <1>3. Follows(a[Len(a)], b[1])
    BY <1>1 DEF Follows
  <1>4. /\ p \in Seq(Work) /\ Len(p) = Len(a) + Len(b) /\ Chained(p)
        /\ \A i \in 1..Len(a) : p[i] = a[i]
        /\ \A i \in 1..Len(b) : p[Len(a) + i] = b[i]
        /\ \A i \in 1..Len(p) : i \in 1..Len(a) \/ (i - Len(a) \in 1..Len(b) /\ i = Len(a) + (i - Len(a)))
    BY <1>1, <1>3, Joined
  <1> HIDE DEF p
  <1>5. ASSUME NEW i \in 1..Len(p)
        PROVE  /\ p[i].do \notin {"hook", "write", "count", "adminWrite"}
               /\ p[i].do \in {"rls", "batchWrite"} => \E j \in i + 1..Len(p) : p[j].do = "next"
               /\ p[i].do = "read" /\ p[i].op \in {"insert", "update"} => i < Len(p)
               /\ p[i].do \in {"batchWrite", "announce"} => p[i].op \in {"insert", "update", "delete"}
    <2>1. CASE i \in 1..Len(a)
      <3>1. p[i] = a[i]
        BY <1>4, <2>1
      <3>2. /\ a[i].do \notin {"hook", "write", "count", "adminWrite"}
            /\ a[i].do \in {"rls", "batchWrite"} => \E j \in i + 1..Len(a) : a[j].do = "next"
            /\ a[i].do = "read" /\ a[i].op \in {"insert", "update"} => i < Len(a)
            /\ a[i].do \in {"batchWrite", "announce"} => a[i].op \in {"insert", "update", "delete"}
        BY <2>1 DEF Part
      <3>3. i < Len(p) /\ \A j \in i + 1..Len(a) : j \in i + 1..Len(p) /\ p[j] = a[j]
        BY <1>1, <1>2, <1>4, <2>1
      <3> QED BY <3>1, <3>2, <3>3
    <2>2. ASSUME NEW h \in 1..Len(b), i = Len(a) + h
          PROVE  /\ p[i].do \notin {"hook", "write", "count", "adminWrite"}
                 /\ p[i].do \in {"rls", "batchWrite"} => \E j \in i + 1..Len(p) : p[j].do = "next"
                 /\ p[i].do = "read" /\ p[i].op \in {"insert", "update"} => i < Len(p)
                 /\ p[i].do \in {"batchWrite", "announce"} => p[i].op \in {"insert", "update", "delete"}
      <3>1. p[i] = b[h]
        BY <1>4, <2>2
      <3>2. /\ b[h].do \notin {"hook", "write", "count", "adminWrite"}
            /\ b[h].do \in {"rls", "batchWrite"} => \E j \in h + 1..Len(b) : b[j].do = "next"
            /\ b[h].do = "read" /\ b[h].op \in {"insert", "update"} => h < Len(b)
            /\ b[h].do \in {"batchWrite", "announce"} => b[h].op \in {"insert", "update", "delete"}
        BY DEF Part
      <3>3. /\ h < Len(b) => i < Len(p)
            /\ \A j \in h + 1..Len(b) : Len(a) + j \in i + 1..Len(p) /\ p[Len(a) + j] = b[j]
        BY <1>2, <1>4, <2>2
      <3> QED BY <3>1, <3>2, <3>3
    <2> QED BY <1>4, <2>1, <2>2
  <1>6. p[1] = a[1]
    <2>1. 1 \in 1..Len(a)
      BY <1>1, <1>2
    <2> QED BY <1>4, <2>1
  <1>7. p[Len(p)] = b[Len(b)]
    <2>1. Len(b) \in 1..Len(b)
      BY <1>1, <1>2
    <2> QED BY <1>4, <2>1
  <1>8. Len(p) >= 1
    BY <1>1, <1>2, <1>4
  <1>9. Part(p)
    BY <1>1, <1>4, <1>5, <1>6, <1>7, <1>8 DEF Part
  <1> QED BY <1>9 DEF p

LEMMA WholeBatch ==
  ASSUME NEW a, Part(a), NEW d \in Docs
  PROVE  Fresh(a \o On(d, "batch", <<"totals">>))
  <1> DEFINE b == On(d, "batch", <<"totals">>)
             p == a \o b
  <1>1. /\ a \in Seq(Work) /\ Len(a) >= 1 /\ Begins(a[1]) /\ a[Len(a)].do \in {"next", "panic"} /\ Chained(a)
        /\ Len(a) \in Nat
    BY DEF Part
  <1>2. b \in Seq(Work) /\ Len(b) = 1 /\ b[1] = [do |-> "totals", op |-> "batch", d |-> d]
    BY Single DEF Stages, DocOps
  <1> HIDE DEF b
  <1>3. Follows(a[Len(a)], b[1]) /\ Chained(b) /\ Len(b) >= 1
    BY <1>1, <1>2 DEF Follows, Begins, Chained
  <1>4. /\ p \in Seq(Work) /\ Len(p) = Len(a) + Len(b) /\ Chained(p)
        /\ \A i \in 1..Len(a) : p[i] = a[i]
        /\ \A i \in 1..Len(b) : p[Len(a) + i] = b[i]
        /\ \A i \in 1..Len(p) : i \in 1..Len(a) \/ (i - Len(a) \in 1..Len(b) /\ i = Len(a) + (i - Len(a)))
    BY <1>1, <1>2, <1>3, Joined
  <1> HIDE DEF p
  <1>5. p[Len(p)].do = "totals" /\ Len(p) >= 1
    <2>1. 1 \in 1..Len(b) /\ Len(p) = Len(a) + 1
      BY <1>2, <1>4
    <2>2. p[Len(a) + 1] = b[1]
      BY <1>4, <2>1
    <2> QED BY <1>1, <1>2, <2>1, <2>2
  <1>6. IsBatch(p) /\ p # <<>>
    <2>1. p # <<>>
      BY <1>4, <1>5, NonEmpty
    <2> QED BY <1>5, <2>1 DEF IsBatch
  <1>7. ASSUME NEW i \in 1..Len(p) PROVE Fits(p, i)
    <2>1. CASE i \in 1..Len(a)
      <3>1. p[i] = a[i]
        BY <1>4, <2>1
      <3>2. /\ a[i].do \notin {"hook", "write", "count", "adminWrite"}
            /\ a[i].do \in {"rls", "batchWrite"} => \E j \in i + 1..Len(a) : a[j].do = "next"
            /\ a[i].do = "read" /\ a[i].op \in {"insert", "update"} => i < Len(a)
            /\ a[i].do \in {"batchWrite", "announce"} => a[i].op \in {"insert", "update", "delete"}
        BY <2>1 DEF Part
      <3>3. \A j \in i + 1..Len(a) : j \in i + 1..Len(p) /\ p[j] = a[j]
        BY <1>1, <1>2, <1>4, <2>1
      <3>4. i < Len(p)
        BY <1>1, <1>2, <1>4, <2>1
      <3> QED BY <1>6, <3>1, <3>2, <3>3, <3>4 DEF Fits
    <2>2. ASSUME NEW h \in 1..Len(b), i = Len(a) + h PROVE Fits(p, i)
      <3>1. h = 1
        BY <1>2
      <3>2. p[i] = b[1]
        BY <1>4, <2>2, <3>1
      <3>3. p[i].do = "totals"
        BY <1>2, <3>2
      <3> QED BY <3>3 DEF Fits
    <2> QED BY <1>4, <2>1, <2>2
  <1>8. Begins(p[1])
    <2>1. 1 \in 1..Len(a)
      BY <1>1
    <2> QED BY <1>1, <1>4, <2>1
  <1>9. Fresh(p)
    BY <1>4, <1>6, <1>7, <1>8 DEF Fresh, Linked
  <1> QED BY <1>9 DEF p, b

LEMMA BatchParts ==
  ASSUME NEW d \in Docs, NEW op \in {"insert", "update", "delete", "noData"}
  PROVE  Part(BatchOperation(d, op))
  <1>1. CASE op \in {"insert", "update"}
    <2> DEFINE todo == <<"rls", "batchWrite", "read", "announce", "next">>
    <2>1. /\ todo \in Seq(Stages) /\ Len(todo) = 5 /\ todo[1] = "rls" /\ todo[2] = "batchWrite"
          /\ todo[3] = "read" /\ todo[4] = "announce" /\ todo[5] = "next"
      BY DEF Stages
    <2> HIDE DEF todo
    <2>2. Part(On(d, op, todo))
      BY <1>1, <2>1, BatchChanges
    <2>3. BatchOperation(d, op) = On(d, op, todo)
      BY <1>1 DEF BatchOperation, todo
    <2> QED BY <2>2, <2>3
  <1>2. CASE op = "delete"
    <2> DEFINE todo == <<"read", "rls", "batchWrite", "announce", "next">>
    <2>1. /\ todo \in Seq(Stages) /\ Len(todo) = 5 /\ todo[1] = "read" /\ todo[2] = "rls"
          /\ todo[3] = "batchWrite" /\ todo[4] = "announce" /\ todo[5] = "next"
      BY DEF Stages
    <2> HIDE DEF todo
    <2>2. Part(On(d, op, todo))
      BY <1>2, <2>1, BatchChanges
    <2>3. BatchOperation(d, op) = On(d, op, todo)
      BY <1>2 DEF BatchOperation, todo
    <2> QED BY <2>2, <2>3
  <1>3. CASE op = "noData"
    BY <1>3, BatchPanic DEF BatchOperation
  <1> QED BY <1>1, <1>2, <1>3

\* Every request that the handlers serve is well formed.
LEMMA Requests == ASSUME NEW p \in Programs PROVE Fresh(p)
  <1>1. \A d \in Docs :
          /\ Fresh(handleInsert(d)) /\ Fresh(handleGet(d)) /\ Fresh(handleUpdate(d)) /\ Fresh(handleDelete(d))
          /\ Fresh(handleQuery(d)) /\ Fresh(handleSearch(d)) /\ Fresh(handleList(d))
    BY Changes, Deletion, Reads
       DEF handleInsert, handleGet, handleUpdate, handleDelete, handleQuery, handleSearch, handleList
  <1>2. \A d \in Docs :
          /\ Fresh(handleInsertDocument(d)) /\ Fresh(handleUpdateDocument(d)) /\ Fresh(handleDeleteDocument(d))
          /\ \A e \in Docs : Fresh(handleImportCollection(d, e))
    BY AdminWrites DEF handleInsertDocument, handleUpdateDocument, handleDeleteDocument, handleImportCollection, DocOps
  <1>3. \A d, e \in Docs, ops \in BatchOps : Fresh(handleBatch(d, ops[1], e, ops[2]))
    <2> TAKE d, e \in Docs, ops \in BatchOps
    <2>1. ops[1] \in {"insert", "update", "delete", "noData"} /\ ops[2] \in {"insert", "update", "delete", "noData"}
      BY DocumentParameters
    <2>2. Part(BatchOperation(d, ops[1])) /\ Part(BatchOperation(e, ops[2]))
      BY <2>1, BatchParts
    <2>3. Part(BatchOperation(d, ops[1]) \o BatchOperation(e, ops[2]))
      BY <2>2, PartsJoin
    <2> QED BY <2>3, WholeBatch DEF handleBatch
  <1>4. \A d \in Docs : \A q \in OnOne(d) : Fresh(q)
    BY <1>1, <1>2 DEF OnOne
  <1>5. \A q \in Imports : Fresh(q)
    BY <1>2 DEF Imports
  <1>6. \A q \in Batches : Fresh(q)
    BY <1>3 DEF Batches
  <1>7. (\E d \in Docs : p \in OnOne(d)) \/ p \in Imports \/ p \in Batches
    BY DEF Programs
  <1> QED BY <1>4, <1>5, <1>6, <1>7

------------------------------------------------------------------------------
Call == [steps : Seq(Work), seen : Nat, tally : Nat]

DocTypes ==
  /\ DocTypeOK
  /\ calls \in [Calls -> Call] /\ \A c \in Calls : calls[c].seen <= version

\* A call has the rest of a request to do, and only a batch has a tally.
CallOK(call) ==
  /\ Linked(call.steps)
  /\ call.tally > 0 => IsBatch(call.steps)
CallsOK == \A c \in Calls : CallOK(calls[c])

\* What a call has still to put on the meter.
Due(call) == call.tally + (IF call.steps # <<>> /\ call.steps[1].do = "count" THEN 1 ELSE 0)
Dues == [c \in Calls |-> Due(calls[c])]
Owed(f) == {p \in Calls \X Nat : p[2] < f[p[1]]}
MeterOK == IsFiniteSet(Owed(Dues)) /\ metered + Cardinality(Owed(Dues)) = written

\* A call about to delete a document, one that has, and one that read what it
\* wrote.
Stands(call, d, ops, stages) ==
  LET s == call.steps IN s # <<>> /\ s[1].d = d /\ s[1].op \in ops /\ s[1].do \in stages
Changing == {"insert", "update"}
Keeps(call, d, v, sure) ==
  /\ Stands(call, d, {"delete"}, {"rls", "hook", "write", "batchWrite"}) /\ v # 0 => call.seen # 0
  /\ Stands(call, d, {"delete"}, {"count", "announce"}) => v = 0 /\ call.seen # 0
  /\ Stands(call, d, Changing, {"announce"}) /\ sure => call.seen = v
\* A call that has written a document and not announced it.
Tells(call, d) ==
  \/ Stands(call, d, Changing, {"count", "read", "announce"})
  \/ Stands(call, d, {"delete"}, {"count", "announce"})

Alone(d) == \A b, c \in Busy(d) : b = c
Told(d) ==
  /\ \A c \in Calls : Keeps(calls[c], d, docs[d], d \notin untold)
  /\ d \notin untold => shown[d] = docs[d] \/ \E c \in Calls : Tells(calls[c], d)

DocInv == DocTypes /\ CallsOK /\ MeterOK /\ \A d \in Docs \ contested : Alone(d) /\ Told(d)

------------------------------------------------------------------------------
\* What is owed, when a call owes one more or nothing more.
LEMMA OneMore ==
  ASSUME NEW f \in [Calls -> Nat], NEW c \in Calls, IsFiniteSet(Owed(f)),
         NEW g, g = [f EXCEPT ![c] = f[c] + 1]
  PROVE  IsFiniteSet(Owed(g)) /\ Cardinality(Owed(g)) = Cardinality(Owed(f)) + 1
  <1>1. Owed(g) = Owed(f) \cup {<<c, f[c]>>}
    <2>1. ASSUME NEW p \in Calls \X Nat PROVE p \in Owed(g) <=> p \in Owed(f) \cup {<<c, f[c]>>}
      <3>1. CASE p[1] = c
        <4>1. p \in Owed(g) <=> p[2] < f[c] + 1
          BY <3>1 DEF Owed
        <4>2. p \in Owed(f) <=> p[2] < f[c]
          BY <3>1 DEF Owed
        <4>3. p = <<c, f[c]>> <=> p[2] = f[c]
          BY <3>1
        <4>4. p[2] < f[c] + 1 <=> (p[2] < f[c] \/ p[2] = f[c])
          OBVIOUS
        <4> QED BY <4>1, <4>2, <4>3, <4>4
      <3>2. CASE p[1] # c
        <4>1. g[p[1]] = f[p[1]] /\ p # <<c, f[c]>>
          BY <3>2
        <4> QED BY <4>1 DEF Owed
      <3> QED BY <3>1, <3>2
    <2>2. Owed(g) \subseteq Calls \X Nat /\ Owed(f) \cup {<<c, f[c]>>} \subseteq Calls \X Nat
      BY DEF Owed
    <2> QED BY <2>1, <2>2
  <1>2. <<c, f[c]>> \notin Owed(f)
    BY DEF Owed
  <1> DEFINE S == Owed(f)
             x == <<c, f[c]>>
  <1>3. IsFiniteSet(S) /\ x \notin S
    BY <1>2
  <1> HIDE DEF S, x
  <1>4. IsFiniteSet(S \cup {x}) /\ Cardinality(S \cup {x}) = Cardinality(S) + 1
    BY <1>3, FS_AddElement
  <1> QED BY <1>1, <1>4 DEF S, x

LEMMA FirstOnes == ASSUME NEW n \in Nat PROVE IsFiniteSet(0..n - 1) /\ Cardinality(0..n - 1) = n
  <1>1. 0 \in Int /\ n - 1 \in Int
    OBVIOUS
  <1>2. IsFiniteSet(0..n - 1) /\ Cardinality(0..n - 1) = IF 0 > n - 1 THEN 0 ELSE (n - 1) - 0 + 1
    BY <1>1, FS_Interval
  <1> QED BY <1>2

LEMMA NoMore ==
  ASSUME NEW f \in [Calls -> Nat], NEW c \in Calls, IsFiniteSet(Owed(f)),
         NEW g, g = [f EXCEPT ![c] = 0]
  PROVE  IsFiniteSet(Owed(g)) /\ Cardinality(Owed(f)) = Cardinality(Owed(g)) + f[c]
  <1> DEFINE own == {c} \X (0..f[c] - 1)
  <1>1. Owed(f) = Owed(g) \cup own
    <2>1. ASSUME NEW p \in Calls \X Nat PROVE p \in Owed(f) <=> p \in Owed(g) \cup own
      <3>1. CASE p[1] = c
        <4>1. p \notin Owed(g)
          BY <3>1 DEF Owed
        <4>2. p \in Owed(f) <=> p[2] < f[c]
          BY <3>1 DEF Owed
        <4>3. p \in own <=> p[2] \in 0..f[c] - 1
          BY <3>1
        <4> QED BY <4>1, <4>2, <4>3
      <3>2. CASE p[1] # c
        <4>1. g[p[1]] = f[p[1]] /\ p \notin own
          BY <3>2
        <4> QED BY <4>1 DEF Owed
      <3> QED BY <3>1, <3>2
    <2>2. Owed(f) \subseteq Calls \X Nat /\ Owed(g) \cup own \subseteq Calls \X Nat
      BY DEF Owed
    <2> QED BY <2>1, <2>2
  <1>2. Owed(g) \cap own = {}
    <2> SUFFICES ASSUME NEW p \in Owed(g), p \in own PROVE FALSE
      OBVIOUS
    <2>1. p[1] = c /\ p[2] \in Nat
      OBVIOUS
    <2> QED BY <2>1 DEF Owed
  <1>3. IsFiniteSet(Owed(g))
    BY <1>1, FS_Subset
  <1>4. IsFiniteSet(own) /\ Cardinality(own) = f[c]
    <2>0. f[c] \in Nat
      OBVIOUS
    <2>1. IsFiniteSet(0..f[c] - 1) /\ Cardinality(0..f[c] - 1) = f[c]
      BY <2>0, FirstOnes
    <2>2. IsFiniteSet({c}) /\ Cardinality({c}) = 1
      BY FS_Singleton
    <2>3. IsFiniteSet(own) /\ Cardinality(own) = Cardinality({c}) * Cardinality(0..f[c] - 1)
      BY <2>1, <2>2, FS_Product
    <2> QED BY <2>1, <2>2, <2>3
  <1> HIDE DEF own
  <1>5. Cardinality(Owed(f)) = Cardinality(Owed(g)) + Cardinality(own) - Cardinality(Owed(g) \cap own)
    BY <1>1, <1>3, <1>4, FS_Union
  <1>6. Cardinality({}) = 0 /\ Cardinality(Owed(g)) \in Nat
    BY <1>3, FS_EmptySet, FS_CardinalityType
  <1>7. f[c] \in Nat
    OBVIOUS
  <1>8. Cardinality(Owed(f)) = Cardinality(Owed(g)) + f[c] - 0
    BY <1>2, <1>4, <1>5, <1>6
  <1> QED BY <1>3, <1>6, <1>7, <1>8

------------------------------------------------------------------------------
\* A call that takes up a request, goes on, or is refused.  It becomes what
\* Becomes says, keeps its tally within a batch, and the step it stands at next
\* begins an operation or follows the last one.
Becomes(call) == IF call.steps = <<>> THEN Rest ELSE call
Fewer(new, old) == \A i \in 1..Len(new.steps) : \E j \in 1..Len(old.steps) : new.steps[i] = old.steps[j]

LEMMA RestIsFine ==
  /\ Rest \in Call /\ CallOK(Rest) /\ Due(Rest) = 0
  /\ \A d, v, sure : Keeps(Rest, d, v, sure) /\ ~Tells(Rest, d)
  /\ \A old : Fewer(Rest, old)
  <1>1. Rest \in Call
    BY NothingLeft DEF Rest, Call
  <1>2. CallOK(Rest)
    BY NothingLeft DEF Rest, CallOK
  <1>3. Due(Rest) = 0
    BY DEF Rest, Due
  <1>4. \A d, v, sure : Keeps(Rest, d, v, sure) /\ ~Tells(Rest, d)
    BY DEF Rest, Keeps, Tells, Stands
  <1>5. \A old : Fewer(Rest, old)
    BY DEF Rest, Fewer
  <1> QED BY <1>1, <1>2, <1>3, <1>4, <1>5

\* A call at the beginning of an operation owes its tally and has told all.
LEMMA AtBeginning ==
  ASSUME NEW call \in Call, call.steps # <<>> => Begins(call.steps[1])
  PROVE  Due(call) = call.tally /\ \A d, v, sure : Keeps(call, d, v, sure) /\ ~Tells(call, d)
  <1>1. Due(call) = call.tally
    BY DEF Due, Begins, Call
  <1>2. \A d, v, sure : Keeps(call, d, v, sure) /\ ~Tells(call, d)
    BY DEF Keeps, Tells, Stands, Begins, Changing
  <1> QED BY <1>1, <1>2

\* A refusal.
LEMMA Refusal ==
  ASSUME NEW old \in Call, CallOK(old), old.steps # <<>>,
         old.steps[1].do \in {"rls", "hook", "write", "batchWrite", "adminWrite"},
         NEW new, new = Becomes([old EXCEPT !.steps = Refused(old.steps)])
  PROVE  /\ new \in Call /\ CallOK(new) /\ Fewer(new, old) /\ new.seen <= old.seen
         /\ Due(new) = Due(old)
         /\ \A d, v, sure : Keeps(new, d, v, sure) /\ ~Tells(old, d)
  <1> DEFINE s == old.steps
             t == Refused(s)
  <1>1. s \in Seq(Work) /\ Linked(s) /\ old.tally \in Nat /\ old.seen \in Nat
    BY DEF Call, CallOK
  <1>2. /\ t \in Seq(Work) /\ Linked(t)
        /\ \A i \in 1..Len(t) : \E j \in 1..Len(s) : t[i] = s[j]
        /\ IsBatch(s) => IsBatch(t)
        /\ t # <<>> => Begins(t[1])
    BY <1>1, Ends
  <1>3. Due(old) = old.tally /\ \A d : ~Tells(old, d)
    BY <1>1 DEF Due, Tells, Stands
  <1> HIDE DEF t
  <1>4. CASE t = <<>>
    <2>1. new = Rest
      BY <1>4 DEF Becomes, t
    <2>2. ~IsBatch(s)
      BY <1>2, <1>4, NothingLeft
    <2>3. old.tally = 0
      BY <1>1, <2>2 DEF CallOK
    <2>4. new.seen = 0
      BY <2>1 DEF Rest
    <2>5. new \in Call /\ CallOK(new) /\ Fewer(new, old) /\ Due(new) = 0
      BY <2>1, RestIsFine
    <2>6. \A d, v, sure : Keeps(new, d, v, sure)
      BY <2>1, RestIsFine
    <2> QED BY <1>1, <1>3, <2>3, <2>4, <2>5, <2>6
  <1>5. CASE t # <<>>
    <2>1. new = [old EXCEPT !.steps = t]
      BY <1>5 DEF Becomes, t, Call
    <2>2. new \in Call /\ new.steps = t /\ new.seen = old.seen /\ new.tally = old.tally
      BY <1>2, <2>1 DEF Call
    <2>3. CallOK(new) /\ Fewer(new, old)
      BY <1>2, <2>2 DEF CallOK, Fewer
    <2>4. Due(new) = new.tally /\ \A d, v, sure : Keeps(new, d, v, sure) /\ ~Tells(new, d)
      BY <1>2, <2>2, AtBeginning
    <2> QED BY <1>1, <1>3, <2>2, <2>3, <2>4
  <1> QED BY <1>4, <1>5

\* A step that a call makes: what it reads and tallies are given.
LEMMA Progress ==
  ASSUME NEW old \in Call, CallOK(old), old.steps # <<>>, NEW r \in Nat, NEW n \in Nat,
         n > 0 => IsBatch(old.steps), 
         NEW new, new = Becomes([steps |-> After(old.steps), seen |-> r, tally |-> n])
  PROVE  LET v == old.steps[1] w == new.steps[1] IN
         /\ new \in Call /\ CallOK(new) /\ Fewer(new, old) /\ new.seen <= r
         /\ new.steps # <<>> => /\ new.seen = r /\ new.tally = n
                                /\ IF v.do = "announce" THEN Begins(w) ELSE Follows(v, w)
         /\ new.steps = <<>> => new = Rest /\ (v.do = "totals" \/ ~IsBatch(old.steps))
         /\ v.do \in {"write", "batchWrite", "count"} \/ (v.do = "read" /\ v.op \in Changing) => new.steps # <<>>
         /\ v.do = "totals" => new = Rest
  <1> DEFINE s == old.steps
             t == After(s)
  <1>1. s \in Seq(Work) /\ Linked(s)
    BY DEF Call, CallOK
  <1>2. /\ t \in Seq(Work) /\ Linked(t)
        /\ \A i \in 1..Len(t) : \E j \in 1..Len(s) : t[i] = s[j]
        /\ IsBatch(s) /\ s[1].do # "totals" => IsBatch(t)
        /\ t # <<>> => (IF s[1].do = "announce" THEN Begins(t[1]) ELSE Follows(s[1], t[1]))
        /\ s[1].do \in {"write", "batchWrite", "count"} \/ (s[1].do = "read" /\ s[1].op \in {"insert", "update"}) => t # <<>>
    BY <1>1, Goes
  <1> HIDE DEF t
  <1>3. CASE t = <<>>
    <2>1. new = Rest /\ new.steps = <<>> /\ new.seen = 0
      BY <1>3 DEF Becomes, Rest, t
    <2>2. s[1].do = "totals" \/ ~IsBatch(s)
      BY <1>2, <1>3, NothingLeft
    <2> QED BY <1>2, <1>3, <2>1, <2>2, RestIsFine DEF Changing
  <1>4. CASE t # <<>>
    <2>1. new = [steps |-> t, seen |-> r, tally |-> n]
      BY <1>4 DEF Becomes, t
    <2>2. new \in Call /\ new.steps = t /\ new.seen = r /\ new.tally = n
      BY <1>2, <2>1 DEF Call
    <2>3. s[1].do # "totals"
      BY <1>2, <1>4 DEF Follows
    <2>4. CallOK(new) /\ Fewer(new, old)
      BY <1>2, <2>2, <2>3 DEF CallOK, Fewer
    <2> QED BY <1>2, <1>4, <2>2, <2>3, <2>4
  <1> QED BY <1>3, <1>4

LEMMA DuesType == DocTypes => Dues \in [Calls -> Nat] /\ \A c \in Calls : Dues[c] = Due(calls[c])
  BY DEF DocTypes, DocTypeOK, Dues, Due, Call

\* One call moves on: what holds of the calls.
LEMMA CallMoves ==
  ASSUME DocTypes, CallsOK, NEW c \in Calls, NEW new \in Call, calls' = [calls EXCEPT ![c] = new],
         CallOK(new), Fewer(new, calls[c]), version' \in Nat, version <= version', new.seen <= version'
  PROVE  /\ calls' \in [Calls -> Call] /\ \A b \in Calls : calls'[b].seen <= version'
         /\ CallsOK' /\ \A d : Alone(d) => Alone(d)'
         /\ Dues' = [Dues EXCEPT ![c] = Due(new)]
  <1>1. calls' \in [Calls -> Call] /\ calls'[c] = new /\ \A b \in Calls : b # c => calls'[b] = calls[b]
    BY DEF DocTypes, DocTypeOK
  <1>2. \A b \in Calls : calls'[b].seen <= version'
    <2> TAKE b \in Calls
    <2>1. CASE b = c
      BY <1>1, <2>1
    <2>2. CASE b # c
      <3>1. calls[b].seen \in Nat /\ calls[b].seen <= version /\ version \in Nat
        BY DEF DocTypes, DocTypeOK, Call
      <3> QED BY <1>1, <2>2, <3>1
    <2> QED BY <2>1, <2>2
  <1>3. CallsOK'
    <2>1. \A b \in Calls : CallOK(calls'[b])
      BY <1>1 DEF CallsOK
    <2> QED BY <2>1 DEF CallsOK, CallOK
  <1>4. ASSUME NEW d, Alone(d) PROVE Alone(d)'
    <2>1. ASSUME NEW b \in Busy(d)' PROVE b \in Busy(d)
      <3>1. b \in Calls /\ \E i \in DOMAIN calls'[b].steps : calls'[b].steps[i].d = d
        BY <2>1 DEF Busy
      <3>2. CASE b = c
        <4>1. new.steps \in Seq(Work) /\ calls[c].steps \in Seq(Work)
          BY DEF Call, DocTypes, DocTypeOK
        <4>2. PICK i \in 1..Len(new.steps) : new.steps[i].d = d
          BY <1>1, <3>1, <3>2, <4>1
        <4>3. PICK j \in 1..Len(calls[c].steps) : new.steps[i] = calls[c].steps[j]
          BY <4>2 DEF Fewer
        <4>4. j \in DOMAIN calls[c].steps
          BY <4>1
        <4> QED BY <3>2, <4>2, <4>3, <4>4 DEF Busy
      <3>3. CASE b # c
        BY <1>1, <3>1, <3>3 DEF Busy
      <3> QED BY <3>2, <3>3
    <2> QED BY <1>4, <2>1 DEF Alone
  <1>5. Dues' = [Dues EXCEPT ![c] = Due(new)]
    <2>1. \A b \in Calls : Due(calls[b])' = Due(calls'[b])
      BY DEF Due
    <2> QED BY <1>1, <2>1 DEF Dues
  <1> QED BY <1>1, <1>2, <1>3, <1>4, <1>5

LEMMA DuesStay ==
  ASSUME DocTypes, NEW c \in Calls, NEW new, calls' = [calls EXCEPT ![c] = new], Due(new) = Due(calls[c])
  PROVE  Dues' = Dues
  <1>1. calls'[c] = new /\ \A b \in Calls : b # c => calls'[b] = calls[b]
    BY DEF DocTypes, DocTypeOK
  <1>2. \A b \in Calls : Due(calls[b])' = Due(calls'[b])
    BY DEF Due
  <1>3. \A b \in Calls : Due(calls'[b]) = Due(calls[b])
    BY <1>1
  <1> QED BY <1>2, <1>3 DEF Dues

\* The meter, when the dues stay, grow by one with the writes, or are paid.
LEMMA MeterMoves ==
  ASSUME DocTypes, MeterOK, NEW c \in Calls, NEW n \in Nat, Dues' = [Dues EXCEPT ![c] = n],
         \/ n = Due(calls[c]) /\ metered' = metered /\ written' = written
         \/ n = Due(calls[c]) + 1 /\ metered' = metered /\ written' = written + 1
         \/ n = 0 /\ metered' = metered + Due(calls[c]) /\ written' = written
         \/ n = 0 /\ metered' = metered /\ written' = written - Due(calls[c])
  PROVE  MeterOK' /\ metered' \in Nat /\ written' \in Nat
  <1> DEFINE f == Dues
             g == [f EXCEPT ![c] = n]
  <1>1. f \in [Calls -> Nat] /\ f[c] = Due(calls[c]) /\ f[c] \in Nat /\ metered \in Nat /\ written \in Nat
    BY DuesType DEF DocTypes, DocTypeOK
  <1>2. IsFiniteSet(Owed(f)) /\ metered + Cardinality(Owed(f)) = written
    BY DEF MeterOK
  <1>3. Cardinality(Owed(f)) \in Nat
    BY <1>2, FS_CardinalityType
  <1>4. MeterOK' <=> IsFiniteSet(Owed(g)) /\ metered' + Cardinality(Owed(g)) = written'
    BY DEF MeterOK, Owed
  <1> HIDE DEF f
  <1>5. CASE n = f[c] /\ metered' = metered /\ written' = written
    <2>1. g = f
      BY <1>1, <1>5
    <2> QED BY <1>1, <1>2, <1>4, <1>5, <2>1
  <1>6. CASE n = f[c] + 1 /\ metered' = metered /\ written' = written + 1
    <2>1. IsFiniteSet(Owed(g)) /\ Cardinality(Owed(g)) = Cardinality(Owed(f)) + 1
      BY <1>1, <1>2, <1>6, OneMore
    <2> QED BY <1>1, <1>2, <1>3, <1>4, <1>6, <2>1
  <1>7. CASE n = 0
    <2>1. IsFiniteSet(Owed(g)) /\ Cardinality(Owed(f)) = Cardinality(Owed(g)) + f[c]
      BY <1>1, <1>2, <1>7, NoMore
    <2>2. Cardinality(Owed(g)) \in Nat
      BY <2>1, FS_CardinalityType
    <2>3. CASE metered' = metered + f[c] /\ written' = written
      BY <1>1, <1>2, <1>3, <1>4, <2>1, <2>2, <2>3
    <2>4. CASE metered' = metered /\ written' = written - f[c]
      BY <1>1, <1>2, <1>3, <1>4, <2>1, <2>2, <2>4
    <2>5. CASE n = f[c] /\ metered' = metered /\ written' = written
      BY <1>5, <2>5
    <2>6. CASE n = f[c] + 1 /\ metered' = metered /\ written' = written + 1
      BY <1>1, <1>7, <2>6
    <2> QED BY <1>1, <2>3, <2>4, <2>5, <2>6
  <1> QED BY <1>1, <1>5, <1>6, <1>7

\* What is told of a document that a step of one call leaves alone.
LEMMA ToldStays ==
  ASSUME DocTypes, NEW c \in Calls, NEW new, calls' = [calls EXCEPT ![c] = new], NEW d \in Docs, Told(d),
         docs'[d] = docs[d], shown'[d] = shown[d], d \in untold => d \in untold',
         Keeps(new, d, docs[d], d \notin untold), Tells(calls[c], d) => Tells(new, d)
  PROVE  Told(d)'
  <1>1. calls'[c] = new /\ \A b \in Calls : b # c => calls'[b] = calls[b]
    BY DEF DocTypes, DocTypeOK
  <1>2. \A b \in Calls : Keeps(calls'[b], d, docs'[d], d \notin untold')
    <2>1. \A b \in Calls : Keeps(calls'[b], d, docs'[d], d \notin untold)
      BY <1>1 DEF Told
    <2> QED BY <2>1 DEF Keeps
  <1>3. d \notin untold' => shown'[d] = docs'[d] \/ \E b \in Calls : Tells(calls'[b], d)
    <2>1. d \notin untold => shown[d] = docs[d] \/ \E b \in Calls : Tells(calls[b], d)
      BY DEF Told
    <2>2. (\E b \in Calls : Tells(calls[b], d)) => \E b \in Calls : Tells(calls'[b], d)
      BY <1>1
    <2> QED BY <2>1, <2>2
  <1> QED BY <1>2, <1>3 DEF Told, Keeps, Tells, Stands

\* A step of one call that leaves the documents and what is shown of them.
LEMMA QuietMove ==
  ASSUME DocInv, NEW c \in Calls, NEW new \in Call, calls' = [calls EXCEPT ![c] = new],
         CallOK(new), Fewer(new, calls[c]), new.seen <= version,
         MeterOK', metered' \in Nat, written' \in Nat,
         docs' = docs, version' = version, policy' = policy, shown' = shown, untold' = untold,
         contested' = contested,
         \A d \in Docs \ contested : Told(d) =>
            Keeps(new, d, docs[d], d \notin untold) /\ (Tells(calls[c], d) => Tells(new, d))
  PROVE  DocInv'
  <1>1. DocTypes /\ CallsOK /\ version \in Nat
    BY DocumentParameters DEF DocInv, DocTypes, DocTypeOK
  <1>0. version' \in Nat /\ version <= version' /\ new.seen <= version'
    BY <1>1
  <1>2. calls' \in [Calls -> Call] /\ (\A b \in Calls : calls'[b].seen <= version') /\ CallsOK'
    BY <1>0, <1>1, CallMoves
  <1>3. \A d : Alone(d) => Alone(d)'
    BY <1>0, <1>1, CallMoves
  <1>4. DocTypes'
    BY <1>1, <1>2 DEF DocTypes, DocTypeOK
  <1>5. ASSUME NEW d \in Docs \ contested PROVE Alone(d)' /\ Told(d)'
    <2>1. Alone(d) /\ Told(d)
      BY DEF DocInv
    <2>2. Told(d)'
      BY <1>1, <2>1, ToldStays
    <2> QED BY <1>3, <2>1, <2>2
  <1> QED BY <1>2, <1>4, <1>5 DEF DocInv

LEMMA Standing ==
  ASSUME DocInv, NEW c \in Calls
  PROVE  /\ DocTypes /\ version \in Nat /\ MaxVersion \in Nat
         /\ calls[c] \in Call /\ CallOK(calls[c]) /\ Due(calls[c]) \in Nat
         /\ calls[c].seen \in Nat /\ calls[c].seen <= version /\ calls[c].tally \in Nat
  <1>1. DocTypes /\ calls[c] \in Call /\ CallOK(calls[c]) /\ calls[c].seen <= version
    BY DEF DocInv, DocTypes, CallsOK
  <1>2. version \in Nat /\ MaxVersion \in Nat
    BY <1>1, DocumentParameters DEF DocTypes, DocTypeOK
  <1>3. calls[c].seen \in Nat /\ calls[c].tally \in Nat
    BY <1>1 DEF Call
  <1> QED BY <1>1, <1>2, <1>3 DEF Due

LEMMA StepIs ==
  ASSUME DocTypes, NEW c \in Calls, NEW stages, At(c, stages)
  PROVE  /\ calls[c].steps # <<>> /\ Step(c) = calls[c].steps[1] /\ Step(c).do \in stages /\ Step(c) \in Work
  <1>1. calls[c].steps \in Seq(Work)
    BY DEF DocTypes, DocTypeOK, Call
  <1> QED BY <1>1 DEF At, Step

LEMMA Turns ==
  ASSUME DocTypes, NEW c \in Calls
  PROVE  /\ Refuse(c) => calls' = [calls EXCEPT ![c] = Becomes([calls[c] EXCEPT !.steps = Refused(calls[c].steps)])]
         /\ Proceed(c) => calls' = [calls EXCEPT ![c] = Becomes([steps |-> After(calls[c].steps),
                                                    seen |-> calls[c].seen, tally |-> calls[c].tally])]
  <1>1. Refuse(c) => calls' = [calls EXCEPT ![c] = Becomes([calls[c] EXCEPT !.steps = Refused(calls[c].steps)])]
    BY DEF Refuse, Become, Becomes, Refused
  <1>3. Proceed(c) => calls' = [calls EXCEPT ![c] = Becomes([steps |-> After(calls[c].steps),
                                                    seen |-> calls[c].seen, tally |-> calls[c].tally])]
    BY DEF Proceed, Pass, Become, Becomes
  <1> QED BY <1>1, <1>3

LEMMA RefusalKeeps ==
  ASSUME DocInv, NEW c \in Calls, At(c, {"rls", "hook", "write", "batchWrite", "adminWrite"}), Refuse(c),
         Quiet
  PROVE  DocInv'
  <1> DEFINE old == calls[c]
             new == Becomes([old EXCEPT !.steps = Refused(old.steps)])
  <1>1. DocTypes /\ old \in Call /\ CallOK(old) /\ old.seen <= version /\ old.seen \in Nat /\ version \in Nat
    BY Standing
  <1>2. old.steps # <<>> /\ old.steps[1].do \in {"rls", "hook", "write", "batchWrite", "adminWrite"}
    BY <1>1, StepIs
  <1>3. calls' = [calls EXCEPT ![c] = new]
    BY <1>1, Turns
  <1> HIDE DEF old
  <1>4. /\ new \in Call /\ CallOK(new) /\ Fewer(new, old) /\ new.seen <= old.seen
        /\ Due(new) = Due(old)
        /\ \A d, v, sure : Keeps(new, d, v, sure) /\ ~Tells(old, d)
    BY <1>1, <1>2, Refusal
  <1> HIDE DEF new
  <1> USE DEF old
  <1>5. metered' = metered /\ written' = written /\ metered \in Nat /\ written \in Nat
    BY DEF DocInv, DocTypes, DocTypeOK, Quiet
  <1>6. MeterOK'
    <2>1. Dues' = Dues
      BY <1>1, <1>3, <1>4, DuesStay
    <2> QED BY <1>5, <2>1 DEF DocInv, MeterOK, Owed
  <1>7. new.seen <= version
    BY <1>1, <1>4 DEF Call
  <1> QED BY <1>1, <1>3, <1>4, <1>5, <1>6, <1>7, QuietMove DEF Quiet

\* What is used of a step that is made: how the call stands afterwards.
LEMMA ProgressKeeps ==
  ASSUME DocInv, NEW c \in Calls, calls[c].steps # <<>>, NEW r \in Nat, r <= version,
         calls' = [calls EXCEPT ![c] = Becomes([steps |-> After(calls[c].steps), seen |-> r, tally |-> calls[c].tally])],
         Step(c).do \in {"rls", "hook", "read", "filter"},
         r = IF Step(c).do = "read" THEN docs[Step(c).d] ELSE calls[c].seen,
         Quiet
  PROVE  DocInv'
  <1> DEFINE old == calls[c]
             new == Becomes([steps |-> After(old.steps), seen |-> r, tally |-> old.tally])
             v == old.steps[1]
             w == new.steps[1]
  <1>1. /\ DocTypes /\ old \in Call /\ CallOK(old) /\ old.seen <= version /\ old.seen \in Nat /\ version \in Nat
        /\ old.tally \in Nat
    BY Standing
  <1>2. Step(c) = v /\ v.do \in {"rls", "hook", "read", "filter"} /\ v \in Work
    <2>1. calls[c].steps \in Seq(Work)
      BY <1>1 DEF Call
    <2> QED BY <2>1 DEF Step
  <1>3. old.tally > 0 => IsBatch(old.steps)
    BY <1>1 DEF CallOK
  <1> HIDE DEF old
  <1>4. /\ new \in Call /\ CallOK(new) /\ Fewer(new, old) /\ new.seen <= r
        /\ new.steps # <<>> => new.seen = r /\ new.tally = old.tally
                               /\ IF v.do = "announce" THEN Begins(w) ELSE Follows(v, w)
        /\ new.steps = <<>> => new = Rest /\ (v.do = "totals" \/ ~IsBatch(old.steps))
        /\ v.do \in {"write", "batchWrite", "count"} \/ (v.do = "read" /\ v.op \in Changing) => new.steps # <<>>
        /\ v.do = "totals" => new = Rest
    <2>1. old.steps # <<>>
      BY DEF old
    <2> QED BY <1>1, <1>3, <2>1, Progress
  <1> HIDE DEF new, w
  <1>5. new.steps # <<>> => Follows(v, w) /\ w = new.steps[1]
    BY <1>2, <1>4 DEF w
  <1>6. Due(new) = Due(old)
    <2>1. Due(old) = old.tally
      BY <1>1, <1>2 DEF Due
    <2>2. CASE new.steps = <<>>
      <3>1. ~IsBatch(old.steps) /\ new = Rest
        BY <1>2, <1>4, <2>2
      <3>2. old.tally = 0
        BY <1>1, <1>3, <3>1
      <3> QED BY <2>1, <3>1, <3>2, RestIsFine
    <2>3. CASE new.steps # <<>>
      <3>1. w.do # "count"
        BY <1>2, <1>5, <2>3 DEF Follows
      <3> QED BY <1>1, <1>4, <1>5, <2>1, <2>3, <3>1 DEF Due
    <2> QED BY <2>2, <2>3
  <1>7. ASSUME NEW d \in Docs, Told(d)
        PROVE  Keeps(new, d, docs[d], d \notin untold) /\ (Tells(old, d) => Tells(new, d))
    <2>1. Keeps(old, d, docs[d], d \notin untold)
      BY <1>7 DEF Told, old
    <2>2. CASE new.steps = <<>>
      <3>1. ~(v.do = "read" /\ v.op \in Changing)
        BY <1>4, <2>2
      <3>2. ~Tells(old, d)
        BY <1>2, <3>1 DEF Tells, Stands
      <3> QED BY <1>4, <2>2, <3>2, RestIsFine
    <2>3. CASE new.steps # <<>> /\ v.do \in {"rls", "hook"}
      <3>1. /\ w.op = v.op /\ w.d = v.d /\ w.do \in {"hook", "batchWrite", "read", "write"}
            /\ w.do = "read" => w.op = "get"
        BY <1>5, <2>3 DEF Follows
      <3>2. ~Tells(old, d)
        BY <2>3 DEF Tells, Stands
      <3>3. new.seen = old.seen
        BY <1>2, <1>4, <2>3 DEF old
      <3>4. old.steps # <<>>
        BY DEF old
      <3> QED BY <1>5, <2>1, <2>3, <3>1, <3>2, <3>3, <3>4 DEF Keeps, Stands, Changing
    <2>4. CASE new.steps # <<>> /\ v.do = "read"
      <3>1. /\ w.op = v.op /\ w.d = v.d
            /\ w.do = IF v.op = "delete" THEN "rls" ELSE IF v.op = "list" THEN "filter" ELSE "announce"
        BY <1>5, <2>4 DEF Follows
      <3>2. new.seen = docs[v.d]
        BY <1>2, <1>4, <2>4
      <3>3. Keeps(new, d, docs[d], d \notin untold)
        BY <1>5, <3>1, <3>2 DEF Keeps, Stands, Changing
      <3>4. Tells(old, d) => v.op \in Changing /\ v.d = d
        BY <2>4 DEF Tells, Stands
      <3>5. v.op \in Changing /\ v.d = d => Tells(new, d)
        BY <1>5, <2>4, <3>1 DEF Tells, Stands, Changing
      <3> QED BY <3>3, <3>4, <3>5
    <2>5. CASE new.steps # <<>> /\ v.do = "filter"
      BY <1>5, <2>5 DEF Follows
    <2> QED BY <1>2, <2>2, <2>3, <2>4, <2>5
  <1>8. metered' = metered /\ written' = written /\ metered \in Nat /\ written \in Nat
    BY DEF DocInv, DocTypes, DocTypeOK, Quiet
  <1>9. calls' = [calls EXCEPT ![c] = new]
    BY DEF new, old
  <1>10. MeterOK'
    <2>1. Dues' = Dues
      BY <1>1, <1>6, <1>9, DuesStay DEF old
    <2> QED BY <1>8, <2>1 DEF DocInv, MeterOK, Owed
  <1>11. new.seen <= version
    BY <1>1, <1>4 DEF Call
  <1> QED BY <1>1, <1>4, <1>7, <1>8, <1>9, <1>10, <1>11, QuietMove DEF Quiet, old

LEMMA RulesKeep == ASSUME DocInv, NEW c \in Calls, checkRLS(c) \/ RunRecordHooks(c) \/ filterDocs(c) PROVE DocInv'
  <1>1. DocTypes /\ calls[c] \in Call /\ calls[c].seen <= version /\ Quiet /\ At(c, {"rls", "hook", "filter"})
    BY Standing DEF DocInv, checkRLS, RunRecordHooks, filterDocs, At
  <1>2. calls[c].steps # <<>> /\ Step(c).do \in {"rls", "hook", "filter"}
    BY <1>1, StepIs
  <1>3. CASE Proceed(c)
    <2>1. calls[c].seen \in Nat
      BY <1>1 DEF Call
    <2>2. calls' = [calls EXCEPT ![c] = Becomes([steps |-> After(calls[c].steps),
                                                 seen |-> calls[c].seen, tally |-> calls[c].tally])]
      BY <1>1, <1>3, Turns
    <2> QED BY <1>1, <1>2, <2>1, <2>2, ProgressKeeps
  <1>4. CASE Refuse(c) /\ At(c, {"rls", "hook"})
    <2>1. At(c, {"rls", "hook", "write", "batchWrite", "adminWrite"})
      BY <1>4 DEF At
    <2> QED BY <1>1, <1>4, <2>1, RefusalKeeps
  <1>5. Proceed(c) \/ (Refuse(c) /\ At(c, {"rls", "hook"}))
    BY DEF checkRLS, RunRecordHooks, filterDocs, At
  <1> QED BY <1>3, <1>4, <1>5

LEMMA ReadKeeps == ASSUME DocInv, NEW c \in Calls, ReadDocument(c) PROVE DocInv'
  <1>1. DocTypes /\ calls[c] \in Call /\ Quiet /\ At(c, {"read"})
    BY Standing DEF DocInv, ReadDocument
  <1>2. calls[c].steps # <<>> /\ Step(c).do = "read" /\ Step(c).d \in Docs
    BY <1>1, StepIs DEF Work
  <1> DEFINE r == docs[Step(c).d]
  <1>3. r \in Nat /\ r <= version
    BY <1>1, <1>2 DEF DocTypes, DocTypeOK
  <1>5. calls' = [calls EXCEPT ![c] = Becomes([steps |-> After(calls[c].steps), seen |-> r, tally |-> calls[c].tally])]
    BY DEF ReadDocument, Pass, Become, Becomes
  <1> QED BY <1>1, <1>2, <1>3, <1>5, ProgressKeeps

\* A step that puts writes on the meter, or loses them.
LEMMA CountKeeps == ASSUME DocInv, NEW c \in Calls, CountWrite(c) PROVE DocInv'
  <1> DEFINE old == calls[c]
             new == Becomes([steps |-> After(old.steps), seen |-> old.seen, tally |-> old.tally])
             v == old.steps[1]
             w == new.steps[1]
  <1>1. /\ DocTypes /\ old \in Call /\ CallOK(old) /\ old.seen <= version /\ old.seen \in Nat /\ version \in Nat
        /\ old.tally \in Nat /\ At(c, {"count"})
    BY Standing DEF CountWrite
  <1>2. old.steps # <<>> /\ Step(c) = v /\ v.do = "count" /\ v \in Work
    BY <1>1, StepIs
  <1>3. calls' = [calls EXCEPT ![c] = new]
    BY <1>1, Turns DEF CountWrite
  <1>4. old.tally > 0 => IsBatch(old.steps)
    BY <1>1 DEF CallOK
  <1>5. ~IsBatch(old.steps) /\ v.op \in {"insert", "update", "delete"}
    <2>1. old.steps \in Seq(Work) /\ Linked(old.steps)
      BY <1>1 DEF Call, CallOK
    <2>2. 1 \in 1..Len(old.steps)
      BY <1>2, <2>1
    <2>3. Fits(old.steps, 1)
      BY <2>1, <2>2 DEF Linked
    <2> QED BY <1>2, <2>3 DEF Fits
  <1> HIDE DEF old
  <1>6. /\ new \in Call /\ CallOK(new) /\ Fewer(new, old) /\ new.seen <= old.seen /\ new.steps # <<>>
        /\ new.seen = old.seen /\ new.tally = old.tally /\ Follows(v, w)
    BY <1>1, <1>2, <1>4, Progress
  <1>7. old.tally = 0
    BY <1>1, <1>4, <1>5
  <1> HIDE DEF new
  <1>8. w.op = v.op /\ w.d = v.d /\ w.do = IF v.op = "delete" THEN "announce" ELSE "read"
    BY <1>2, <1>6 DEF Follows
  <1>9. Due(old) = 1 /\ Due(new) = 0
    <2>1. Due(old) = 1
      BY <1>2, <1>7 DEF Due
    <2>2. Due(new) = 0
      BY <1>6, <1>7, <1>8 DEF Due
    <2> QED BY <2>1, <2>2
  <1>10. /\ metered' = metered + 1 /\ written' = written
         /\ docs' = docs /\ version' = version /\ policy' = policy /\ shown' = shown /\ untold' = untold
         /\ contested' = contested
    BY DEF CountWrite
  <1>11. MeterOK' /\ metered' \in Nat /\ written' \in Nat
    <2>1. version' \in Nat /\ version <= version' /\ new.seen <= version' /\ CallsOK /\ MeterOK
      BY <1>1, <1>6, <1>10 DEF DocInv
    <2>2. Dues' = [Dues EXCEPT ![c] = 0]
      BY <1>1, <1>3, <1>6, <1>9, <2>1, CallMoves DEF old
    <2>3. metered' = metered + Due(calls[c]) /\ written' = written
      BY <1>9, <1>10 DEF old
    <2> QED BY <1>1, <2>1, <2>2, <2>3, MeterMoves
  <1>12. ASSUME NEW d \in Docs, Told(d)
         PROVE  Keeps(new, d, docs[d], d \notin untold) /\ (Tells(old, d) => Tells(new, d))
    <2>1. Keeps(old, d, docs[d], d \notin untold)
      BY <1>12 DEF Told, old
    <2>2. Keeps(new, d, docs[d], d \notin untold)
      BY <1>2, <1>6, <1>8, <2>1 DEF Keeps, Stands, Changing
    <2>3. Tells(old, d) => Tells(new, d)
      BY <1>2, <1>6, <1>8 DEF Tells, Stands, Changing
    <2> QED BY <2>2, <2>3
  <1>13. new.seen <= version
    BY <1>1, <1>6
  <1> QED BY <1>3, <1>6, <1>10, <1>11, <1>12, <1>13, QuietMove DEF old

LEMMA PaidKeeps ==
  ASSUME DocInv, NEW c \in Calls, MeterBatch(c) \/ BatchPanics(c)
  PROVE  DocInv'
  <1> DEFINE old == calls[c]
             v == old.steps[1]
  <1>1. /\ DocTypes /\ old \in Call /\ CallOK(old) /\ version \in Nat /\ old.tally \in Nat
        /\ At(c, {"totals", "panic"})
    BY Standing DEF MeterBatch, BatchPanics, At
  <1>2. old.steps # <<>> /\ v.do \in {"totals", "panic"} /\ (At(c, {"totals"}) => v.do = "totals")
    BY <1>1, StepIs
  <1>3. Due(old) = old.tally /\ Due(Rest) = 0 /\ \A d \in Docs : ~Tells(old, d)
    BY <1>1, <1>2, RestIsFine DEF Due, Tells, Stands
  <1>4. calls' = [calls EXCEPT ![c] = Rest]
    <2>1. CASE MeterBatch(c)
      <3> DEFINE new == Becomes([steps |-> After(old.steps), seen |-> old.seen, tally |-> old.tally])
      <3>1. calls' = [calls EXCEPT ![c] = new]
        BY <1>1, <2>1, Turns DEF MeterBatch
      <3>2. v.do = "totals" /\ old.seen \in Nat /\ (old.tally > 0 => IsBatch(old.steps))
        BY <1>1, <1>2, <2>1 DEF MeterBatch, Call, CallOK
      <3> HIDE DEF old
      <3>3. new = Rest
        BY <1>1, <1>2, <3>2, Progress
      <3> QED BY <3>1, <3>3 DEF old
    <2>2. CASE BatchPanics(c)
      BY <2>2 DEF BatchPanics
    <2> QED BY <2>1, <2>2
  <1>5. /\ Rest \in Call /\ CallOK(Rest) /\ Fewer(Rest, old) /\ Rest.seen <= version
        /\ \A d, w, sure : Keeps(Rest, d, w, sure)
    BY <1>1, RestIsFine DEF Rest
  <1>6. /\ docs' = docs /\ version' = version /\ policy' = policy /\ shown' = shown /\ untold' = untold
        /\ contested' = contested
        /\ \/ metered' = metered + old.tally /\ written' = written
           \/ metered' = metered /\ written' = written - old.tally
    BY DEF MeterBatch, BatchPanics
  <1>7. MeterOK' /\ metered' \in Nat /\ written' \in Nat
    <2>1. version' \in Nat /\ version <= version' /\ Rest.seen <= version' /\ CallsOK /\ MeterOK
      BY <1>1, <1>5, <1>6 DEF DocInv
    <2>2. Dues' = [Dues EXCEPT ![c] = 0]
      BY <1>1, <1>3, <1>4, <1>5, <2>1, CallMoves
    <2>3. \/ 0 = 0 /\ metered' = metered + Due(calls[c]) /\ written' = written
          \/ 0 = 0 /\ metered' = metered /\ written' = written - Due(calls[c])
      BY <1>3, <1>6
    <2> HIDE DEF old
    <2> QED BY <1>1, <2>1, <2>2, <2>3, MeterMoves
  <1> QED BY <1>3, <1>4, <1>5, <1>6, <1>7, QuietMove

\* A step that writes or announces the document x.
LEMMA LoudMove ==
  ASSUME DocInv, NEW c \in Calls, NEW new \in Call, calls' = [calls EXCEPT ![c] = new],
         CallOK(new), Fewer(new, calls[c]), new.seen <= version,
         version' \in version..MaxVersion, MeterOK', metered' \in Nat, written' \in Nat,
         policy' = policy, contested' = contested,
         docs' \in [Docs -> 0..version'], shown' \in [Docs -> 0..version'], untold' \subseteq Docs,
         NEW x \in Docs,
         \A d \in Docs \ {x} : /\ docs'[d] = docs[d] /\ shown'[d] = shown[d] /\ (d \in untold => d \in untold')
                               /\ Keeps(new, d, docs[d], d \notin untold) /\ ~Tells(calls[c], d),
         x \notin contested /\ Alone(x) /\ Told(x) => Told(x)'
  PROVE  DocInv'
  <1>1. DocTypes /\ CallsOK /\ version \in Nat /\ MaxVersion \in Nat
    BY DocumentParameters DEF DocInv, DocTypes, DocTypeOK
  <1>0. version' \in Nat /\ version <= version' /\ new.seen <= version' /\ version' \in 0..MaxVersion
    BY <1>1 DEF Call
  <1>2. calls' \in [Calls -> Call] /\ (\A b \in Calls : calls'[b].seen <= version') /\ CallsOK'
    BY <1>0, <1>1, CallMoves
  <1>3. \A d : Alone(d) => Alone(d)'
    BY <1>0, <1>1, CallMoves
  <1>4. DocTypes'
    BY <1>0, <1>1, <1>2 DEF DocTypes, DocTypeOK
  <1>5. ASSUME NEW d \in Docs \ contested PROVE Alone(d)' /\ Told(d)'
    <2>1. Alone(d) /\ Told(d)
      BY DEF DocInv
    <2>2. d # x => Told(d)'
      BY <1>1, <2>1, ToldStays
    <2> QED BY <1>3, <2>1, <2>2
  <1> QED BY <1>2, <1>4, <1>5 DEF DocInv

\* At another document than the one it stood at, a call is at a beginning.
LEMMA Elsewhere ==
  ASSUME NEW old \in Call, old.steps # <<>>, NEW new \in Call,
         new.steps # <<>> => Begins(new.steps[1]) \/ (Follows(old.steps[1], new.steps[1]) /\ old.steps[1].do # "announce"),
         NEW d, d # old.steps[1].d
  PROVE  (\A v, sure : Keeps(new, d, v, sure)) /\ ~Tells(old, d)
  <1>1. ~Tells(old, d)
    BY DEF Tells, Stands
  <1>2. CASE new.steps = <<>> \/ Begins(new.steps[1])
    BY <1>1, <1>2, AtBeginning
  <1>3. CASE new.steps # <<>> /\ Follows(old.steps[1], new.steps[1]) /\ ~Begins(new.steps[1])
    <2>1. old.steps[1].do # "announce"
      BY <1>3
    <2>0. old.steps \in Seq(Work) /\ old.steps # <<>>
      BY DEF Call
    <2>5. 1 \in 1..Len(old.steps)
      BY <2>0
    <2>4. old.steps[1] \in Work
      BY <2>0, <2>5
    <2>2. old.steps[1].do \in Stages
      BY <2>4 DEF Work
    <2>3. new.steps[1].d = old.steps[1].d
      BY <1>3, <2>1, <2>2 DEF Follows, Stages
    <2> QED BY <1>1, <2>3 DEF Keeps, Stands
  <1> QED BY <1>2, <1>3

\* No other call stands at a document that is not contested.
LEMMA Others ==
  ASSUME DocTypes, NEW c \in Calls, calls[c].steps # <<>>, Alone(calls[c].steps[1].d), NEW b \in Calls, b # c
  PROVE  \A v, sure : Keeps(calls[b], calls[c].steps[1].d, v, sure) /\ ~Tells(calls[b], calls[c].steps[1].d)
  <1> DEFINE x == calls[c].steps[1].d
  <1>1. \A k \in Calls : calls[k].steps # <<>> => 1 \in DOMAIN calls[k].steps
    BY DEF DocTypes, DocTypeOK, Call
  <1>2. c \in Busy(x)
    BY <1>1 DEF Busy
  <1> HIDE DEF x
  <1>3. ~(calls[b].steps # <<>> /\ calls[b].steps[1].d = x)
    <2> SUFFICES ASSUME calls[b].steps # <<>>, calls[b].steps[1].d = x PROVE FALSE
      OBVIOUS
    <2>1. b \in Busy(x)
      BY <1>1 DEF Busy
    <2>2. Alone(x)
      BY DEF x
    <2> QED BY <1>2, <2>1, <2>2 DEF Alone
  <1>4. \A v, sure : Keeps(calls[b], x, v, sure) /\ ~Tells(calls[b], x)
    BY <1>3 DEF Keeps, Tells, Stands
  <1> QED BY <1>4 DEF x

LEMMA AnnounceKeeps == ASSUME DocInv, NEW c \in Calls, publishRealtime(c) PROVE DocInv'
  <1> DEFINE old == calls[c]
             new == Becomes([steps |-> After(old.steps), seen |-> old.seen, tally |-> old.tally])
             v == old.steps[1]
  <1>1. /\ DocTypes /\ old \in Call /\ CallOK(old) /\ old.seen <= version /\ old.seen \in Nat /\ version \in Nat
        /\ old.tally \in Nat /\ At(c, {"announce"}) /\ MaxVersion \in Nat
    BY Standing DEF publishRealtime
  <1>2. old.steps # <<>> /\ Step(c) = v /\ v.do = "announce" /\ v \in Work
    BY <1>1, StepIs DEF Work
  <1>0. PICK x \in Docs : x = v.d
    BY <1>2 DEF Work
  <1>3. calls' = [calls EXCEPT ![c] = new]
    BY <1>1, Turns DEF publishRealtime
  <1>4. old.tally > 0 => IsBatch(old.steps)
    BY <1>1 DEF CallOK
  <1>5. v.op \in {"insert", "update", "delete"}
    <2>1. old.steps \in Seq(Work) /\ Linked(old.steps)
      BY <1>1 DEF Call, CallOK
    <2>2. 1 \in 1..Len(old.steps)
      BY <1>2, <2>1
    <2>3. Fits(old.steps, 1)
      BY <2>1, <2>2 DEF Linked
    <2> QED BY <1>2, <2>3 DEF Fits
  <1> HIDE DEF old
  <1>6. /\ new \in Call /\ CallOK(new) /\ Fewer(new, old) /\ new.seen <= old.seen
        /\ new.steps # <<>> => new.tally = old.tally /\ Begins(new.steps[1])
        /\ new.steps = <<>> => new = Rest /\ ~IsBatch(old.steps)
    BY <1>1, <1>2, <1>4, Progress
  <1> HIDE DEF new
  <1>7. Due(new) = Due(old)
    <2>1. Due(old) = old.tally /\ Due(new) = new.tally
      BY <1>1, <1>2, <1>6, AtBeginning DEF Due
    <2>2. new.steps = <<>> => old.tally = 0 /\ new.tally = 0
      BY <1>1, <1>4, <1>6 DEF Rest
    <2> QED BY <1>6, <2>1, <2>2
  <1>8. /\ metered' = metered /\ written' = written /\ metered \in Nat /\ written \in Nat
        /\ docs' = docs /\ version' = version /\ policy' = policy /\ contested' = contested
    BY DEF publishRealtime, DocInv, DocTypes, DocTypeOK
  <1>9. MeterOK'
    <2>1. Dues' = Dues
      BY <1>1, <1>3, <1>7, DuesStay DEF old
    <2> QED BY <1>8, <2>1 DEF DocInv, MeterOK, Owed
  <1>10. \/ v.op = "delete" /\ old.seen = 0 /\ shown' = shown /\ untold' = untold
         \/ /\ ~(v.op = "delete" /\ old.seen = 0)
            /\ shown' = [shown EXCEPT ![x] = IF v.op = "delete" THEN 0 ELSE old.seen] /\ untold' = untold
         \/ untold' = untold \cup {x} /\ shown' = shown
    BY <1>0, <1>2 DEF publishRealtime, old
  <1>11. docs' \in [Docs -> 0..version'] /\ shown' \in [Docs -> 0..version'] /\ untold' \subseteq Docs
    <2>1. docs \in [Docs -> 0..version] /\ shown \in [Docs -> 0..version] /\ untold \subseteq Docs
      BY <1>1 DEF DocTypes, DocTypeOK
    <2>2. old.seen \in 0..version /\ 0 \in 0..version
      BY <1>1
    <2>3. shown' \in [Docs -> 0..version]
      BY <1>10, <2>1, <2>2
    <2>4. untold' \subseteq Docs
      BY <1>10, <2>1
    <2> QED BY <1>8, <2>1, <2>3, <2>4
  <1>12. \A d \in Docs \ {x} : Keeps(new, d, docs[d], d \notin untold) /\ ~Tells(old, d)
    BY <1>0, <1>1, <1>2, <1>6, Elsewhere
  <1>13. \A d \in Docs \ {x} : docs'[d] = docs[d] /\ shown'[d] = shown[d] /\ (d \in untold => d \in untold')
    BY <1>1, <1>8, <1>10 DEF DocTypes, DocTypeOK
  <1>14. ASSUME x \notin contested, Alone(x), Told(x) PROVE Told(x)'
    <2>1. calls'[c] = new /\ \A b \in Calls : b # c => calls'[b] = calls[b]
      BY <1>1, <1>3 DEF DocTypes, DocTypeOK
    <2>2. \A b \in Calls : Keeps(calls'[b], x, docs'[x], x \notin untold')
      <3>1. Keeps(new, x, docs'[x], x \notin untold')
        BY <1>6, AtBeginning
      <3>2. \A b \in Calls : b # c => Keeps(calls[b], x, docs'[x], x \notin untold')
        BY <1>0, <1>1, <1>2, <1>14, Others DEF old
      <3> QED BY <2>1, <3>1, <3>2
    <2>3. x \notin untold' => shown'[x] = docs'[x]
      <3>1. Keeps(old, x, docs[x], x \notin untold)
        BY <1>14 DEF Told, old
      <3>2. v.op = "delete" => docs[x] = 0 /\ old.seen # 0
        BY <1>0, <1>2, <3>1 DEF Keeps, Stands
      <3>3. v.op # "delete" /\ x \notin untold => old.seen = docs[x]
        BY <1>0, <1>2, <1>5, <3>1 DEF Keeps, Stands, Changing
      <3>4. shown \in [Docs -> 0..version]
        BY <1>1 DEF DocTypes, DocTypeOK
      <3> QED BY <1>2, <1>8, <1>10, <3>2, <3>3, <3>4
    <2>4. x \notin untold' => shown'[x] = docs'[x] \/ \E b \in Calls : Tells(calls'[b], x)
      BY <2>3
    <2> QED BY <2>2, <2>4 DEF Told, Keeps, Tells, Stands
  <1>15. new.seen <= version /\ version' \in version..MaxVersion
    <2>1. version <= MaxVersion
      BY <1>1 DEF DocTypes, DocTypeOK
    <2> QED BY <1>1, <1>6, <1>8, <2>1 DEF Call
  <1>16. \A d \in Docs \ {x} : /\ docs'[d] = docs[d] /\ shown'[d] = shown[d] /\ (d \in untold => d \in untold')
                                /\ Keeps(new, d, docs[d], d \notin untold) /\ ~Tells(calls[c], d)
    BY <1>12, <1>13 DEF old
  <1>17. calls' = [calls EXCEPT ![c] = new] /\ Fewer(new, calls[c]) /\ metered' \in Nat /\ written' \in Nat
    BY <1>3, <1>6, <1>8 DEF old
  <1> QED BY ZenonT(60), <1>6, <1>8, <1>9, <1>11, <1>14, <1>15, <1>16, <1>17, LoudMove

\* What the engine does to the documents.
LEMMA Applied ==
  ASSUME DocTypes, NEW c \in Calls, NEW x \in Docs, Step(c).d = x, NEW told, Apply(c, told)
  PROVE  /\ version' \in version..MaxVersion /\ docs' \in [Docs -> 0..version']
         /\ \A d \in Docs \ {x} : docs'[d] = docs[d]
         /\ Step(c).op = "delete" => docs'[x] = 0
         /\ untold' = IF told THEN untold \ {x} ELSE untold \cup {x}
  <1>1. version \in Nat /\ version <= MaxVersion /\ MaxVersion \in Nat /\ docs \in [Docs -> 0..version]
    BY DocumentParameters DEF DocTypes, DocTypeOK
  <1>2. untold' = IF told THEN untold \ {x} ELSE untold \cup {x}
    BY DEF Apply
  <1>3. CASE Step(c).op = "delete"
    <2>1. docs' = [docs EXCEPT ![x] = 0] /\ version' = version
      BY <1>3 DEF Apply
    <2> QED BY <1>1, <1>2, <2>1
  <1>4. CASE Step(c).op # "delete"
    <2>1. version < MaxVersion /\ version' = version + 1 /\ docs' = [docs EXCEPT ![x] = version']
      BY <1>4 DEF Apply
    <2>2. version' \in Nat /\ version' \in version..MaxVersion /\ version <= version'
      BY <1>1, <2>1
    <2>3. docs' \in [Docs -> 0..version']
      BY <1>1, <2>1, <2>2
    <2> QED BY <1>1, <1>2, <1>4, <2>1, <2>2, <2>3
  <1> QED BY <1>3, <1>4

\* The engine refuses a write with the document stored.
LEMMA StoredKeeps ==
  ASSUME DocInv, NEW c \in Calls, At(c, {"write", "batchWrite", "adminWrite"}),
         Apply(c, FALSE), Refuse(c), UNCHANGED written, UNCHANGED <<policy, metered, shown, contested>>
  PROVE  DocInv'
  <1> DEFINE old == calls[c]
             new == Becomes([old EXCEPT !.steps = Refused(old.steps)])
             v == old.steps[1]
  <1>1. /\ DocTypes /\ old \in Call /\ CallOK(old) /\ old.seen <= version /\ old.seen \in Nat /\ version \in Nat
        /\ MaxVersion \in Nat
    BY Standing
  <1>2. old.steps # <<>> /\ Step(c) = v /\ v.do \in {"write", "batchWrite", "adminWrite"} /\ v \in Work
    BY <1>1, StepIs
  <1>0. PICK x \in Docs : x = v.d
    BY <1>2 DEF Work
  <1>3. calls' = [calls EXCEPT ![c] = new]
    BY <1>1, Turns
  <1> HIDE DEF old
  <1>4. /\ new \in Call /\ CallOK(new) /\ Fewer(new, old) /\ new.seen <= old.seen
        /\ Due(new) = Due(old)
        /\ \A d, w, sure : Keeps(new, d, w, sure) /\ ~Tells(old, d)
    BY <1>1, <1>2, Refusal
  <1> HIDE DEF new
  <1>5. /\ version' \in version..MaxVersion /\ docs' \in [Docs -> 0..version']
        /\ \A d \in Docs \ {x} : docs'[d] = docs[d]
        /\ untold' = untold \cup {x}
    BY <1>0, <1>1, <1>2, Applied
  <1>6. /\ metered' = metered /\ written' = written /\ metered' \in Nat /\ written' \in Nat
        /\ policy' = policy /\ shown' = shown /\ contested' = contested
    BY DEF DocInv, DocTypes, DocTypeOK
  <1>7. MeterOK'
    <2>1. Dues' = Dues
      BY <1>1, <1>3, <1>4, DuesStay DEF old
    <2> QED BY <1>6, <2>1 DEF DocInv, MeterOK, Owed
  <1>8. untold' \subseteq Docs /\ shown' \in [Docs -> 0..version'] /\ new.seen <= version
    <2>1. version' \in Nat /\ version <= version'
      BY <1>1, <1>5
    <2>2. untold' \subseteq Docs
      BY <1>1, <1>5 DEF DocTypes, DocTypeOK
    <2>3. shown' \in [Docs -> 0..version']
      BY <1>1, <1>6, <2>1 DEF DocTypes, DocTypeOK
    <2>4. new.seen <= version
      BY <1>1, <1>4 DEF Call
    <2> QED BY <2>2, <2>3, <2>4
  <1>9. \A d \in Docs \ {x} : /\ docs'[d] = docs[d] /\ shown'[d] = shown[d] /\ (d \in untold => d \in untold')
                              /\ Keeps(new, d, docs[d], d \notin untold) /\ ~Tells(calls[c], d)
    BY <1>4, <1>5, <1>6 DEF old
  <1>10. ASSUME x \notin contested, Alone(x), Told(x) PROVE Told(x)'
    <2>1. calls'[c] = new /\ \A b \in Calls : b # c => calls'[b] = calls[b]
      BY <1>1, <1>3 DEF DocTypes, DocTypeOK
    <2>2. \A b \in Calls : Keeps(calls'[b], x, docs'[x], x \notin untold')
      <3>1. \A b \in Calls : b # c => Keeps(calls[b], x, docs'[x], x \notin untold')
        BY <1>0, <1>1, <1>2, <1>10, Others DEF old
      <3> QED BY <1>4, <2>1, <3>1
    <2>3. x \notin untold' => shown'[x] = docs'[x] \/ \E b \in Calls : Tells(calls'[b], x)
      BY <1>5
    <2> QED BY <2>2, <2>3 DEF Told, Keeps, Tells, Stands
  <1>11. calls' = [calls EXCEPT ![c] = new] /\ Fewer(new, calls[c])
    BY <1>3, <1>4 DEF old
  <1> QED BY <1>4, <1>5, <1>6, <1>7, <1>8, <1>9, <1>10, <1>11, LoudMove

\* The engine takes a write.
LEMMA WrittenKeeps ==
  ASSUME DocInv, NEW c \in Calls, At(c, {"write", "batchWrite", "adminWrite"}),
         Step(c).op = "insert" \/ docs[Step(c).d] # 0, Apply(c, Step(c).do # "adminWrite"),
         Pass(c, calls[c].seen, calls[c].tally + IF Step(c).do = "batchWrite" THEN 1 ELSE 0),
         written' = IF Step(c).do # "adminWrite" THEN written + 1 ELSE written,
         UNCHANGED <<policy, metered, shown, contested>>
  PROVE  DocInv'
  <1> DEFINE old == calls[c]
             v == old.steps[1]
             n == old.tally + IF v.do = "batchWrite" THEN 1 ELSE 0
             new == Becomes([steps |-> After(old.steps), seen |-> old.seen, tally |-> n])
             w == new.steps[1]
  <1>1. /\ DocTypes /\ old \in Call /\ CallOK(old) /\ old.seen <= version /\ old.seen \in Nat /\ version \in Nat
        /\ MaxVersion \in Nat /\ old.tally \in Nat
    BY Standing
  <1>2. old.steps # <<>> /\ Step(c) = v /\ v.do \in {"write", "batchWrite", "adminWrite"} /\ v \in Work
    BY <1>1, StepIs
  <1>0. PICK x \in Docs : x = v.d
    BY <1>2 DEF Work
  <1>3. calls' = [calls EXCEPT ![c] = new]
    BY <1>2 DEF Pass, Become, Becomes
  <1>4. /\ v.do \in {"write", "adminWrite"} => ~IsBatch(old.steps)
        /\ v.do = "batchWrite" => IsBatch(old.steps)
        /\ v.do \in {"write", "batchWrite"} => v.op \in {"insert", "update", "delete"}
    <2>1. old.steps \in Seq(Work) /\ Linked(old.steps)
      BY <1>1 DEF Call, CallOK
    <2>2. 1 \in 1..Len(old.steps)
      BY <1>2, <2>1
    <2>3. Fits(old.steps, 1)
      BY <2>1, <2>2 DEF Linked
    <2> QED BY <1>2, <2>3 DEF Fits
  <1>5. /\ old.tally > 0 => IsBatch(old.steps)
        /\ n \in Nat /\ (n > 0 => IsBatch(old.steps))
        /\ n = IF v.do = "batchWrite" THEN old.tally + 1 ELSE old.tally
        /\ v.do # "batchWrite" => n = 0
    <2>1. old.tally > 0 => IsBatch(old.steps)
      BY <1>1 DEF CallOK
    <2>2. v.do # "batchWrite" => old.tally = 0
      BY <1>1, <1>2, <1>4, <2>1
    <2> HIDE DEF old, v
    <2> QED BY <1>1, <1>2, <1>4, <2>1, <2>2
  <1> HIDE DEF old, n
  <1>6. /\ new \in Call /\ CallOK(new) /\ Fewer(new, old) /\ new.seen <= old.seen
        /\ new.steps # <<>> => new.seen = old.seen /\ new.tally = n /\ Follows(v, w)
        /\ new.steps = <<>> => new = Rest /\ ~IsBatch(old.steps)
        /\ v.do \in {"write", "batchWrite"} => new.steps # <<>>
    BY SMTT(60), <1>1, <1>2, <1>5, Progress
  <1> HIDE DEF new, w
  <1>7. w = new.steps[1]
    BY DEF w
  <1>8. /\ v.do \in {"write", "batchWrite"} => w.op = v.op /\ w.d = v.d
        /\ v.do = "write" => w.do = "count"
        /\ v.do = "batchWrite" => w.do = IF v.op = "delete" THEN "announce" ELSE "read"
        /\ v.do = "adminWrite" /\ new.steps # <<>> => Begins(w)
    BY <1>6 DEF Follows
  <1>9. /\ version' \in version..MaxVersion /\ docs' \in [Docs -> 0..version']
        /\ \A d \in Docs \ {x} : docs'[d] = docs[d]
        /\ v.op = "delete" => docs'[x] = 0
        /\ untold' = IF v.do # "adminWrite" THEN untold \ {x} ELSE untold \cup {x}
    BY ZenonT(60), <1>0, <1>1, <1>2, Applied
  <1>10. /\ metered' = metered /\ written' = (IF v.do # "adminWrite" THEN written + 1 ELSE written)
         /\ policy' = policy /\ shown' = shown /\ contested' = contested
    BY <1>2
  <1>11. new.seen <= version /\ version' \in Nat /\ version <= version' /\ new.seen <= version'
    BY <1>1, <1>6, <1>9 DEF Call
  <1>12. Due(new) = (IF v.do = "adminWrite" THEN Due(old) ELSE Due(old) + 1) /\ Due(new) \in Nat
    <2>1. Due(old) = old.tally
      BY <1>1, <1>2 DEF Due
    <2>2. CASE v.do = "adminWrite"
      <3>1. new.steps # <<>> => new.tally = 0
        BY <1>5, <1>6, <2>2
      <3>2. new.tally = 0
        BY <1>6, <3>1 DEF Rest
      <3>3. Due(new) = new.tally
        BY <1>6, <1>7, <1>8, <2>2, AtBeginning
      <3>4. old.tally = 0
        BY <1>5, <2>2
      <3> QED BY <2>1, <2>2, <3>2, <3>3, <3>4
    <2>3. CASE v.do = "write"
      <3>1. Due(new) = n + 1
        BY <1>6, <1>7, <1>8, <2>3 DEF Due
      <3> QED BY <1>1, <1>5, <2>1, <2>3, <3>1
    <2>4. CASE v.do = "batchWrite"
      <3>1. w.do # "count"
        BY <1>8, <2>4
      <3>2. Due(new) = n
        BY <1>5, <1>6, <1>7, <2>4, <3>1 DEF Due
      <3> QED BY <1>1, <1>5, <2>1, <2>4, <3>2
    <2> QED BY <1>2, <2>2, <2>3, <2>4
  <1>13. calls' = [calls EXCEPT ![c] = new] /\ Fewer(new, calls[c])
    BY <1>3, <1>6 DEF old
  <1>14. MeterOK' /\ metered' \in Nat /\ written' \in Nat
    <2>1. CallsOK /\ MeterOK
      BY DEF DocInv
    <2>2. Dues' = [Dues EXCEPT ![c] = Due(new)]
      BY <1>1, <1>6, <1>11, <1>13, <2>1, CallMoves
    <2>3. \/ Due(new) = Due(calls[c]) /\ metered' = metered /\ written' = written
          \/ Due(new) = Due(calls[c]) + 1 /\ metered' = metered /\ written' = written + 1
      BY <1>10, <1>12 DEF old
    <2> QED BY <1>1, <1>12, <2>1, <2>2, <2>3, MeterMoves
  <1>15. untold' \subseteq Docs /\ shown' \in [Docs -> 0..version']
    BY <1>0, <1>1, <1>9, <1>10, <1>11 DEF DocTypes, DocTypeOK
  <1>16. \A d \in Docs \ {x} : Keeps(new, d, docs[d], d \notin untold) /\ ~Tells(old, d)
    <2>1. new.steps # <<>> => Follows(v, new.steps[1]) /\ v.do # "announce"
      BY <1>2, <1>6, <1>7
    <2> QED BY <1>0, <1>1, <1>2, <1>6, <2>1, Elsewhere
  <1>17. \A d \in Docs \ {x} : /\ docs'[d] = docs[d] /\ shown'[d] = shown[d] /\ (d \in untold => d \in untold')
                               /\ Keeps(new, d, docs[d], d \notin untold) /\ ~Tells(calls[c], d)
    BY <1>9, <1>10, <1>16 DEF old
  <1>18. ASSUME x \notin contested, Alone(x), Told(x) PROVE Told(x)'
    <2>1. calls'[c] = new /\ \A b \in Calls : b # c => calls'[b] = calls[b]
      BY <1>1, <1>13 DEF DocTypes, DocTypeOK
    <2>2. v.op = "delete" /\ v.do \in {"write", "batchWrite"} => docs'[x] = 0 /\ old.seen # 0
      <3>1. v.op = "delete" => docs[x] # 0
        BY <1>0, <1>2
      <3>2. Keeps(old, x, docs[x], x \notin untold)
        BY <1>18 DEF Told, old
      <3> QED BY <1>0, <1>2, <1>9, <3>1, <3>2 DEF Keeps, Stands
    <2>3. Keeps(new, x, docs'[x], x \notin untold')
      <3>1. CASE v.do = "adminWrite"
        BY <1>6, <1>7, <1>8, <3>1, AtBeginning
      <3>2. CASE v.do \in {"write", "batchWrite"}
        BY <1>4, <1>6, <1>7, <1>8, <2>2, <3>2 DEF Keeps, Stands, Changing
      <3> QED BY <1>2, <3>1, <3>2
    <2>4. \A b \in Calls : Keeps(calls'[b], x, docs'[x], x \notin untold')
      <3>1. \A b \in Calls : b # c => Keeps(calls[b], x, docs'[x], x \notin untold')
        BY <1>0, <1>1, <1>2, <1>18, Others DEF old
      <3> QED BY <2>1, <2>3, <3>1
    <2>5. x \notin untold' => shown'[x] = docs'[x] \/ \E b \in Calls : Tells(calls'[b], x)
      <3>1. v.do \in {"write", "batchWrite"} => Tells(new, x)
        BY <1>0, <1>4, <1>6, <1>7, <1>8 DEF Tells, Stands, Changing
      <3>2. v.do = "adminWrite" => x \in untold'
        BY <1>9
      <3> QED BY <1>2, <2>1, <3>1, <3>2
    <2> QED BY <2>4, <2>5 DEF Told, Keeps, Tells, Stands
  <1> QED BY <1>6, <1>9, <1>10, <1>11, <1>13, <1>14, <1>15, <1>17, <1>18, LoudMove

LEMMA WriteKeeps == ASSUME DocInv, NEW c \in Calls, WriteDocument(c) PROVE DocInv'
  <1>1. At(c, {"write", "batchWrite", "adminWrite"}) /\ UNCHANGED <<policy, metered, shown, contested>>
    BY DEF WriteDocument
  <1>2. CASE /\ Step(c).op = "insert" \/ docs[Step(c).d] # 0
             /\ Apply(c, Step(c).do # "adminWrite")
             /\ Pass(c, calls[c].seen, calls[c].tally + IF Step(c).do = "batchWrite" THEN 1 ELSE 0)
             /\ written' = IF Step(c).do # "adminWrite" THEN written + 1 ELSE written
    BY <1>1, <1>2, WrittenKeeps
  <1>3. CASE Apply(c, FALSE) /\ Refuse(c) /\ UNCHANGED written
    BY <1>1, <1>3, StoredKeeps
  <1>4. CASE Refuse(c) /\ UNCHANGED <<docs, version, untold, written>>
    <2>1. Quiet
      BY <1>1, <1>4 DEF Quiet
    <2>2. At(c, {"rls", "hook", "write", "batchWrite", "adminWrite"})
      BY <1>1 DEF At
    <2> QED BY <1>4, <2>1, <2>2, RefusalKeeps
  <1> QED BY <1>2, <1>3, <1>4 DEF WriteDocument

\* A request arrives at a call that is idle.
LEMMA ArriveKeeps == ASSUME DocInv, NEW c \in Calls, NEW p \in Programs, Arrive(c, p) PROVE DocInv'
  <1> DEFINE new == [steps |-> p, seen |-> 0, tally |-> 0]
             touched == {p[i].d : i \in DOMAIN p}
  <1>1. DocTypes /\ CallsOK /\ MeterOK /\ version \in Nat
    BY DocumentParameters DEF DocInv, DocTypes, DocTypeOK
  <1>2. p \in Seq(Work) /\ Linked(p) /\ p # <<>> /\ Begins(p[1])
    BY Requests DEF Fresh
  <1>3. calls[c].steps = <<>> /\ calls' = [calls EXCEPT ![c] = new]
    <2>1. [Rest EXCEPT !.steps = p] = new
      BY DEF Rest
    <2> HIDE DEF new
    <2> QED BY <2>1 DEF Arrive
  <1>4. /\ docs' = docs /\ version' = version /\ policy' = policy /\ shown' = shown /\ untold' = untold
        /\ metered' = metered /\ written' = written
        /\ contested' = contested \cup {d \in touched : Busy(d) # {}}
    BY DEF Arrive
  <1>5. new \in Call /\ new.steps = p /\ new.seen = 0 /\ new.tally = 0
    BY <1>2 DEF Call
  <1> HIDE DEF new
  <1>6. CallOK(new) /\ Due(new) = 0 /\ \A d, v, sure : Keeps(new, d, v, sure)
    BY <1>2, <1>5, AtBeginning DEF CallOK
  <1>7. Due(calls[c]) = 0 /\ \A d : ~Tells(calls[c], d)
    <2>1. CallOK(calls[c]) /\ calls[c].tally \in Nat
      BY <1>1 DEF CallsOK, DocTypes, DocTypeOK, Call
    <2>2. calls[c].tally = 0
      BY <1>3, <2>1, NothingLeft DEF CallOK
    <2> QED BY <1>3, <2>2 DEF Due, Tells, Stands
  <1>8. calls' \in [Calls -> Call] /\ calls'[c] = new /\ \A b \in Calls : b # c => calls'[b] = calls[b]
    BY <1>1, <1>3, <1>5 DEF DocTypes, DocTypeOK
  <1>9. CallsOK'
    <2>1. \A b \in Calls : CallOK(calls'[b])
      BY <1>1, <1>6, <1>8 DEF CallsOK
    <2> QED BY <2>1 DEF CallsOK, CallOK
  <1>10. MeterOK'
    <2>1. Dues' = Dues
      BY <1>1, <1>3, <1>6, <1>7, DuesStay
    <2> QED BY <1>1, <1>4, <2>1 DEF MeterOK, Owed
  <1>11. touched \subseteq Docs
    <2> SUFFICES ASSUME NEW i \in DOMAIN p PROVE p[i].d \in Docs
      OBVIOUS
    <2>1. p[i] \in Work
      BY <1>2
    <2> QED BY <2>1 DEF Work
  <1>12. DocTypes'
    <2>1. \A b \in Calls : calls'[b].seen <= version'
      BY <1>1, <1>4, <1>5, <1>8 DEF DocTypes, DocTypeOK
    <2>2. contested' \subseteq Docs
      BY <1>1, <1>4, <1>11 DEF DocTypes, DocTypeOK
    <2> QED BY <1>1, <1>4, <1>8, <2>1, <2>2 DEF DocTypes, DocTypeOK
  <1>13. ASSUME NEW d \in Docs \ contested' PROVE Alone(d)' /\ Told(d)'
    <2>1. d \notin contested /\ Alone(d) /\ Told(d)
      BY <1>4 DEF DocInv
    <2>2. \A b \in Busy(d)' : b = c \/ b \in Busy(d)
      BY <1>8 DEF Busy
    <2>3. c \in Busy(d)' => Busy(d) = {}
      <3>1. c \in Busy(d)' => d \in touched
        <4>1. c \in Busy(d)' => \E i \in DOMAIN calls'[c].steps : calls'[c].steps[i].d = d
          BY DEF Busy
        <4> QED BY <1>5, <1>8, <4>1
      <3> QED BY <1>4, <3>1
    <2>4. Alone(d)'
      <3>1. \A a, b \in Busy(d)' : a = b
        BY <2>1, <2>2, <2>3 DEF Alone
      <3> QED BY <3>1 DEF Alone
    <2>5. Told(d)'
      BY <1>1, <1>3, <1>4, <1>6, <1>7, <2>1, ToldStays
    <2> QED BY <2>4, <2>5
  <1> QED BY <1>9, <1>10, <1>12, <1>13 DEF DocInv

\* The steps that no call makes.
LEMMA RulesSetKeeps == ASSUME DocInv, handleSetRules \/ UNCHANGED docVars PROVE DocInv'
  <1>1. /\ docs' = docs /\ version' = version /\ shown' = shown /\ untold' = untold /\ calls' = calls
        /\ metered' = metered /\ written' = written /\ contested' = contested
    BY DEF handleSetRules, docVars
  <1>2. policy' \in {"on", "off"}
    BY DEF handleSetRules, docVars, DocInv, DocTypes, DocTypeOK
  <1>3. DocTypes'
    BY <1>1, <1>2 DEF DocInv, DocTypes, DocTypeOK
  <1>4. CallsOK' /\ MeterOK'
    BY <1>1 DEF DocInv, CallsOK, CallOK, MeterOK, Dues, Due, Owed
  <1>5. \A d \in Docs \ contested' : Alone(d)' /\ Told(d)'
    BY <1>1 DEF DocInv, Alone, Busy, Told, Keeps, Tells, Stands
  <1> QED BY <1>3, <1>4, <1>5 DEF DocInv

LEMMA ClearKeeps == ASSUME DocInv, handleClearCollection PROVE DocInv'
  <1>1. /\ docs' = [d \in Docs |-> 0] /\ version' = version /\ policy' = policy /\ shown' = shown
        /\ untold' = Docs /\ calls' = calls
        /\ metered' = metered /\ written' = written /\ contested' = contested
    BY DEF handleClearCollection
  <1>2. DocTypes'
    <2>1. version \in Nat
      BY DocumentParameters DEF DocInv, DocTypes, DocTypeOK
    <2>2. docs' \in [Docs -> 0..version']
      BY <1>1, <2>1
    <2> QED BY <1>1, <2>2 DEF DocInv, DocTypes, DocTypeOK
  <1>3. CallsOK' /\ MeterOK'
    BY <1>1 DEF DocInv, CallsOK, CallOK, MeterOK, Dues, Due, Owed
  <1>4. ASSUME NEW d \in Docs \ contested' PROVE Alone(d)' /\ Told(d)'
    <2>1. Alone(d) /\ Told(d)
      BY <1>1 DEF DocInv
    <2>2. Alone(d)'
      BY <1>1, <2>1 DEF Alone, Busy
    <2>3. docs'[d] = 0 /\ ~(d \notin untold')
      BY <1>1
    <2>4. ASSUME NEW b \in Calls PROVE Keeps(calls[b], d, 0, FALSE)
      BY <2>1 DEF Told, Keeps
    <2>5. Told(d)'
      <3>1. \A b \in Calls : Keeps(calls'[b], d, docs'[d], d \notin untold')
        BY <1>1, <2>3, <2>4 DEF Keeps
      <3> QED BY <2>3, <3>1 DEF Told, Keeps, Tells, Stands
    <2> QED BY <2>2, <2>5
  <1> QED BY <1>2, <1>3, <1>4 DEF DocInv

LEMMA DocStep == DocInv /\ [DocNext]_docVars => DocInv'
  <1> SUFFICES ASSUME DocInv, [DocNext]_docVars PROVE DocInv'
    OBVIOUS
  <1>1. ASSUME NEW c \in Calls, NEW p \in Programs, Arrive(c, p) PROVE DocInv'
    BY <1>1, ArriveKeeps
  <1>2. ASSUME NEW c \in Calls, checkRLS(c) \/ RunRecordHooks(c) \/ filterDocs(c) PROVE DocInv'
    BY <1>2, RulesKeep
  <1>3. ASSUME NEW c \in Calls, ReadDocument(c) PROVE DocInv'
    BY <1>3, ReadKeeps
  <1>4. ASSUME NEW c \in Calls, WriteDocument(c) PROVE DocInv'
    BY <1>4, WriteKeeps
  <1>5. ASSUME NEW c \in Calls, CountWrite(c) PROVE DocInv'
    BY <1>5, CountKeeps
  <1>6. ASSUME NEW c \in Calls, MeterBatch(c) \/ BatchPanics(c) PROVE DocInv'
    BY <1>6, PaidKeeps
  <1>7. ASSUME NEW c \in Calls, publishRealtime(c) PROVE DocInv'
    BY <1>7, AnnounceKeeps
  <1>8. CASE handleSetRules \/ UNCHANGED docVars
    BY <1>8, RulesSetKeeps
  <1>9. CASE handleClearCollection
    BY <1>9, ClearKeeps
  <1> QED BY <1>1, <1>2, <1>3, <1>4, <1>5, <1>6, <1>7, <1>8, <1>9 DEF DocNext

LEMMA DocStart == DocInit => DocInv
  <1> SUFFICES ASSUME DocInit PROVE DocInv
    OBVIOUS
  <1>1. /\ docs = [d \in Docs |-> 0] /\ version = 0 /\ policy = "off" /\ calls = [c \in Calls |-> Rest]
        /\ metered = 0 /\ written = 0 /\ shown = docs /\ untold = {} /\ contested = {}
    BY DEF DocInit
  <1>2. \A c \in Calls : calls[c] = Rest
    BY <1>1
  <1>3. DocTypes
    <2>1. version \in 0..MaxVersion
      BY <1>1, DocumentParameters
    <2>2. calls \in [Calls -> Call] /\ \A c \in Calls : calls[c].seen <= version
      BY <1>1, RestIsFine DEF Rest
    <2> QED BY <1>1, <2>1, <2>2 DEF DocTypes, DocTypeOK
  <1>4. CallsOK
    BY <1>2, RestIsFine DEF CallsOK
  <1>5. MeterOK
    <2>1. \A c \in Calls : Dues[c] = 0
      BY <1>2, RestIsFine DEF Dues
    <2>2. Owed(Dues) = {}
      BY <2>1 DEF Owed
    <2> QED BY <1>1, <2>2, FS_EmptySet DEF MeterOK
  <1>6. ASSUME NEW d \in Docs PROVE Alone(d) /\ Told(d)
    <2>1. Busy(d) = {}
      BY <1>2 DEF Busy, Rest
    <2>2. \A c \in Calls : Keeps(calls[c], d, docs[d], d \notin untold)
      BY <1>2, RestIsFine
    <2> QED BY <1>1, <2>1, <2>2 DEF Alone, Told
  <1> QED BY <1>3, <1>4, <1>5, <1>6 DEF DocInv

\* What the invariant says when the calls are done.
LEMMA DocConsequences == DocInv => DocTypeOK /\ WritesAreTold
  <1> SUFFICES ASSUME DocInv PROVE DocTypeOK /\ WritesAreTold
    OBVIOUS
  <1>1. DocTypeOK
    BY DEF DocInv, DocTypes, DocTypeOK
  <1>2. LastEventIsCurrent
    <2> SUFFICES ASSUME NEW d \in Docs \ (contested \cup untold), Busy(d) = {} PROVE shown[d] = docs[d]
      BY DEF LastEventIsCurrent
    <2>1. Told(d)
      BY DEF DocInv
    <2>2. ASSUME NEW c \in Calls PROVE ~Tells(calls[c], d)
      <3>1. calls[c].steps \in Seq(Work)
        BY DEF DocInv, DocTypes, DocTypeOK, Call
      <3>2. calls[c].steps # <<>> => 1 \in DOMAIN calls[c].steps
        BY <3>1
      <3>3. calls[c].steps # <<>> => calls[c].steps[1].d # d
        BY <3>2 DEF Busy
      <3> QED BY <3>3 DEF Tells, Stands
    <2> QED BY <2>1, <2>2 DEF Told
  <1>3. MeterMatchesWrites
    <2> SUFFICES ASSUME \A c \in Calls : calls[c].steps = <<>> PROVE metered = written
      BY DEF MeterMatchesWrites
    <2>1. ASSUME NEW c \in Calls PROVE Dues[c] = 0
      <3>1. CallOK(calls[c]) /\ calls[c].tally \in Nat
        BY DEF DocInv, CallsOK, DocTypes, DocTypeOK, Call
      <3>2. calls[c].tally = 0
        BY <3>1, NothingLeft DEF CallOK
      <3> QED BY <3>2 DEF Dues, Due
    <2>2. Owed(Dues) = {}
      BY <2>1 DEF Owed
    <2>3. metered + 0 = written /\ metered \in Nat
      BY <2>2, FS_EmptySet DEF DocInv, MeterOK, DocTypes, DocTypeOK
    <2> QED BY <2>3
  <1> QED BY <1>1, <1>2, <1>3 DEF WritesAreTold

(* Of the documents that no two calls worked on at once: what a call read of   *)
(* one is still true when it tells of it, the last event shows it or a call is *)
(* about to tell, and what the meter lacks is what the calls have to count.    *)
THEOREM DocInductive == DocSpec => []DocInv
  BY DocStart, DocStep, PTL DEF DocSpec

(* Documents, versions, counts and histories keep their types (DocumentApi).   *)
THEOREM DocTypeCorrect == DocSpec => []DocTypeOK
  <1>1. DocInv => DocTypeOK
    BY DocConsequences
  <1> QED BY <1>1, DocInductive, PTL

(* The handlers of api.Server: the last event of a document shows the document *)
(* and the meter shows the writes, whatever is refused, suppressed or dropped  *)
(* and however the steps of calls interleave.                                  *)
THEOREM WritesTold == DocSpec => []WritesAreTold
  <1>1. DocInv => WritesAreTold
    BY DocConsequences
  <1> QED BY <1>1, DocInductive, PTL

------------------------------------------------------------------------------
LEMMA ContentParameters == "none" \notin Keys /\ "mask" \notin Values /\ MaxTime \in Nat /\ MaxTime >= 1 /\ MaxStarts \in Nat
  BY ContentAssumption DEF ContentBounds
\* Configuration entries.
Setting == [key : Keys \cup {"none"}, now : 0..MaxTime, created : 0..MaxTime, answer : {0, 200, 201}]
EntryTypes ==
  /\ conf \in [Keys -> [created : 0..MaxTime, updated : 0..MaxTime]]
  /\ time \in 1..MaxTime /\ crossed \subseteq Keys /\ born \in [Keys -> 0..MaxTime]
  /\ settings \in [ConfReqs -> Setting]
  /\ \A r \in ConfReqs : settings[r].key # "none" => settings[r].now >= 1

\* An entry that is there, and what the settings under way would make of it.
ReadRight(s, k) == s.created = IF conf[k] = Entries!Absent THEN s.now ELSE born[k]
EntryHolds(k) ==
  /\ conf[k] # Entries!Absent => conf[k].created = born[k]
  /\ \A r \in ConfReqs : settings[r].key = k => ReadRight(settings[r], k)
EntryInv == EntryTypes /\ \A k \in Keys \ crossed : EntryHolds(k)

LEMMA EntryStart == Entries!ConfInit => EntryInv
  <1> SUFFICES ASSUME Entries!ConfInit PROVE EntryInv
    OBVIOUS
  <1>1. MaxTime \in Nat /\ MaxTime >= 1 /\ "none" \notin Keys
    BY ContentParameters
  <1>2. 0 \in 0..MaxTime /\ 1 \in 1..MaxTime
    BY <1>1
  <1>3. EntryTypes
    <2>1. Entries!Quiet \in Setting /\ Entries!Absent \in [created : 0..MaxTime, updated : 0..MaxTime]
      BY <1>2 DEF Setting, Entries!Quiet, Entries!Absent
    <2> QED BY <1>1, <1>2, <2>1 DEF EntryTypes, Entries!ConfInit, Entries!Quiet
  <1>4. \A k \in Keys : EntryHolds(k)
    BY <1>1 DEF EntryHolds, Entries!ConfInit, Entries!Absent, Entries!Quiet
  <1> QED BY <1>3, <1>4 DEF EntryInv

LEMMA ReadKeepsEntries ==
  ASSUME EntryInv, NEW r \in ConfReqs, NEW k \in Keys, Entries!ReadForSet(r, k) PROVE EntryInv'
  <1> DEFINE s == [key |-> k, now |-> time, created |-> Entries!Created(k), answer |-> 0]
  <1>1. /\ settings' = [settings EXCEPT ![r] = s] /\ time' = time + 1 /\ time < MaxTime
        /\ conf' = conf /\ born' = born /\ crossed' = crossed
    BY DEF Entries!ReadForSet
  <1>2. EntryTypes
    BY DEF EntryInv
  <1>3. MaxTime \in Nat /\ MaxTime >= 1 /\ "none" \notin Keys
    BY ContentParameters
  <1>4. Entries!Created(k) = IF conf[k] = Entries!Absent THEN time ELSE conf[k].created
    BY DEF Entries!Created, Entries!Get, Entries!validateKey
  <1>5. s \in Setting /\ s.now >= 1
    <2>1. time \in 0..MaxTime /\ time >= 1 /\ conf[k].created \in 0..MaxTime
      BY <1>2, <1>3 DEF EntryTypes
    <2>2. Entries!Created(k) \in 0..MaxTime
      BY <1>4, <2>1
    <2> QED BY <2>1, <2>2 DEF Setting
  <1>6. s.key = k /\ s.now = time /\ s.created = Entries!Created(k)
    OBVIOUS
  <1> HIDE DEF s
  <1>7. \A q \in ConfReqs : settings'[q] = IF q = r THEN s ELSE settings[q]
    BY <1>1, <1>2 DEF EntryTypes
  <1>8. EntryTypes'
    <2>1. settings' \in [ConfReqs -> Setting] /\ \A q \in ConfReqs : settings'[q].key # "none" => settings'[q].now >= 1
      BY <1>1, <1>2, <1>5, <1>7 DEF EntryTypes
    <2>2. time' \in 1..MaxTime
      BY <1>1, <1>2, <1>3 DEF EntryTypes
    <2> QED BY <1>1, <1>2, <2>1, <2>2 DEF EntryTypes
  <1>9. ASSUME NEW j \in Keys \ crossed' PROVE EntryHolds(j)'
    <2>1. EntryHolds(j)
      BY <1>1, <1>9 DEF EntryInv
    <2>2. ASSUME NEW q \in ConfReqs, settings'[q].key = j
          PROVE  settings'[q].created = IF conf[j] = Entries!Absent THEN settings'[q].now ELSE born[j]
      BY <1>4, <1>6, <1>7, <2>1, <2>2 DEF EntryHolds, ReadRight
    <2> QED BY <1>1, <2>1, <2>2 DEF EntryHolds, ReadRight, Entries!Absent
  <1> QED BY <1>8, <1>9 DEF EntryInv

LEMMA SetKeepsEntries ==
  ASSUME EntryInv, NEW r \in ConfReqs, NEW post \in BOOLEAN, Entries!handleConfigSet(r, post) PROVE EntryInv'
  <1> PICK old : old = settings[r]
    OBVIOUS
  <1> PICK k \in Keys : k = settings[r].key
    BY DEF Entries!handleConfigSet
  <1> PICK answer \in {200, 201} : answer = IF post /\ settings[r].created = settings[r].now THEN 201 ELSE 200
    OBVIOUS
  <1> PICK new : new = [key |-> "none", now |-> 0, created |-> 0, answer |-> answer]
    OBVIOUS
  <1>1. /\ settings[r].key = k /\ old = settings[r]
        /\ new = [key |-> "none", now |-> 0, created |-> 0, answer |-> answer]
        /\ conf' = [conf EXCEPT ![k] = [created |-> old.created, updated |-> old.now]]
        /\ settings' = [settings EXCEPT ![r] = new]
        /\ born' = [born EXCEPT ![k] = IF conf[k] = Entries!Absent THEN old.now ELSE born[k]]
        /\ crossed' = IF conf[k] = Entries!Absent /\ Entries!Crossing(k) # {r} THEN crossed \cup {k} ELSE crossed
        /\ time' = time
    <2>1. [Entries!Quiet EXCEPT !.answer = answer] = new
      BY DEF Entries!Quiet
    <2>2. settings' = [settings EXCEPT ![r] = [Entries!Quiet EXCEPT !.answer = answer]]
      BY DEF Entries!handleConfigSet
    <2>3. /\ conf' = [conf EXCEPT ![k] = [created |-> old.created, updated |-> old.now]] /\ time' = time
          /\ born' = [born EXCEPT ![k] = IF conf[k] = Entries!Absent THEN old.now ELSE born[k]]
          /\ crossed' = IF conf[k] = Entries!Absent /\ Entries!Crossing(k) # {r} THEN crossed \cup {k} ELSE crossed
      BY DEF Entries!handleConfigSet
    <2> QED BY <2>1, <2>2, <2>3
  <1>2. EntryTypes
    BY DEF EntryInv
  <1>3. MaxTime \in Nat /\ MaxTime >= 1 /\ "none" \notin Keys
    BY ContentParameters
  <1>4. old \in Setting /\ old.now >= 1 /\ old.now \in 1..MaxTime /\ old.created \in 0..MaxTime
    <2>1. old \in Setting /\ (old.key # "none" => old.now >= 1)
      BY <1>1, <1>2 DEF EntryTypes
    <2>2. old.key # "none"
      BY <1>1, <1>3
    <2>3. old.now \in 0..MaxTime /\ old.created \in 0..MaxTime
      BY <2>1 DEF Setting
    <2> QED BY <1>3, <2>1, <2>2, <2>3
  <1>5. new \in Setting /\ new.key = "none"
    BY <1>1, <1>3 DEF Setting
  <1>6. \A q \in ConfReqs : settings'[q] = IF q = r THEN new ELSE settings[q]
    BY <1>1, <1>2 DEF EntryTypes
  <1>7. /\ conf'[k] = [created |-> old.created, updated |-> old.now]
        /\ born'[k] = IF conf[k] = Entries!Absent THEN old.now ELSE born[k]
        /\ \A j \in Keys \ {k} : conf'[j] = conf[j] /\ born'[j] = born[j]
    BY <1>1, <1>2 DEF EntryTypes
  <1>8. conf'[k] # Entries!Absent /\ conf'[k].created = old.created
    BY <1>4, <1>7 DEF Entries!Absent
  <1>9. EntryTypes'
    <2>1. settings' \in [ConfReqs -> Setting] /\ \A q \in ConfReqs : settings'[q].key # "none" => settings'[q].now >= 1
      BY <1>1, <1>2, <1>5, <1>6 DEF EntryTypes
    <2>2. conf' \in [Keys -> [created : 0..MaxTime, updated : 0..MaxTime]]
      <3>1. [created |-> old.created, updated |-> old.now] \in [created : 0..MaxTime, updated : 0..MaxTime]
        BY <1>3, <1>4
      <3> QED BY <1>1, <1>2, <3>1 DEF EntryTypes
    <2>3. born' \in [Keys -> 0..MaxTime]
      <3>1. (IF conf[k] = Entries!Absent THEN old.now ELSE born[k]) \in 0..MaxTime
        BY <1>2, <1>3, <1>4 DEF EntryTypes
      <3> QED BY <1>1, <1>2, <3>1 DEF EntryTypes
    <2> QED BY <1>1, <1>2, <2>1, <2>2, <2>3 DEF EntryTypes
  <1>10. ASSUME NEW j \in Keys \ crossed' PROVE EntryHolds(j)'
    <2>1. EntryHolds(j)
      BY <1>1, <1>10 DEF EntryInv
    <2>2. CASE j # k
      <3>1. conf'[j] = conf[j] /\ born'[j] = born[j]
        BY <1>7, <2>2
      <3>2. ASSUME NEW q \in ConfReqs, settings'[q].key = j PROVE settings'[q] = settings[q]
        BY <1>3, <1>5, <1>6, <3>2
      <3> QED BY <2>1, <3>1, <3>2 DEF EntryHolds, ReadRight, Entries!Absent
    <2>3. CASE j = k
      <3>1. ReadRight(old, k)
        BY <1>1, <2>1, <2>3 DEF EntryHolds
      <3>2. conf'[k].created = born'[k]
        BY <1>7, <1>8, <3>1 DEF ReadRight
      <3>3. ASSUME NEW q \in ConfReqs, settings'[q].key = k PROVE settings'[q].created = born'[k]
        <4>1. q # r /\ settings'[q] = settings[q]
          BY <1>3, <1>5, <1>6, <3>3
        <4>2. settings[q].created = IF conf[k] = Entries!Absent THEN settings[q].now ELSE born[k]
          BY <2>1, <2>3, <3>3, <4>1 DEF EntryHolds, ReadRight
        <4>3. conf[k] # Entries!Absent
          <5>1. q \in Entries!Crossing(k)
            BY <3>3, <4>1 DEF Entries!Crossing
          <5> QED BY <1>1, <1>10, <2>3, <4>1, <5>1
        <4> QED BY <1>7, <4>1, <4>2, <4>3
      <3> QED BY <1>8, <2>3, <3>2, <3>3 DEF EntryHolds, ReadRight, Entries!Absent
    <2> QED BY <2>2, <2>3
  <1> QED BY <1>9, <1>10 DEF EntryInv

LEMMA DeleteKeepsEntries ==
  ASSUME EntryInv, NEW k \in Keys, Entries!Delete(k) PROVE EntryInv'
  <1>1. /\ conf' = [conf EXCEPT ![k] = Entries!Absent] /\ born' = [born EXCEPT ![k] = 0]
        /\ crossed' = IF Entries!Crossing(k) = {} THEN crossed \ {k} ELSE crossed \cup {k}
        /\ time' = time /\ settings' = settings
    BY DEF Entries!Delete
  <1>2. EntryTypes
    BY DEF EntryInv
  <1>3. MaxTime \in Nat /\ MaxTime >= 1 /\ 0 \in 0..MaxTime
    BY ContentParameters
  <1>4. /\ conf'[k] = Entries!Absent /\ \A j \in Keys \ {k} : conf'[j] = conf[j] /\ born'[j] = born[j]
    BY <1>1, <1>2 DEF EntryTypes
  <1>5. EntryTypes'
    <2>1. Entries!Absent \in [created : 0..MaxTime, updated : 0..MaxTime]
      BY <1>3 DEF Entries!Absent
    <2>2. conf' \in [Keys -> [created : 0..MaxTime, updated : 0..MaxTime]] /\ born' \in [Keys -> 0..MaxTime]
      BY <1>1, <1>2, <1>3, <2>1 DEF EntryTypes
    <2> QED BY <1>1, <1>2, <2>2 DEF EntryTypes
  <1>6. ASSUME NEW j \in Keys \ crossed' PROVE EntryHolds(j)'
    <2>1. CASE j = k
      <3>1. Entries!Crossing(k) = {}
        BY <1>1, <1>6, <2>1
      <3>2. \A q \in ConfReqs : settings[q].key # k
        BY <3>1 DEF Entries!Crossing
      <3> QED BY <1>1, <1>4, <2>1, <3>2 DEF EntryHolds, Entries!Absent
    <2>2. CASE j # k
      <3>1. EntryHolds(j)
        BY <1>1, <1>6, <2>2 DEF EntryInv
      <3>2. conf'[j] = conf[j] /\ born'[j] = born[j]
        BY <1>4, <2>2
      <3> QED BY <1>1, <3>1, <3>2 DEF EntryHolds, ReadRight, Entries!Absent
    <2> QED BY <2>1, <2>2
  <1> QED BY <1>5, <1>6 DEF EntryInv

LEMMA EntriesKeep == EntryInv /\ (Entries!ConfNext \/ UNCHANGED entriesVars) => EntryInv'
  <1> SUFFICES ASSUME EntryInv, Entries!ConfNext \/ UNCHANGED entriesVars PROVE EntryInv'
    OBVIOUS
  <1>1. ASSUME NEW r \in ConfReqs, NEW k \in Keys, Entries!ReadForSet(r, k) PROVE EntryInv'
    BY <1>1, ReadKeepsEntries
  <1>2. ASSUME NEW r \in ConfReqs, NEW post \in BOOLEAN, Entries!handleConfigSet(r, post) PROVE EntryInv'
    BY <1>2, SetKeepsEntries
  <1>3. ASSUME NEW k \in Keys, Entries!Delete(k) PROVE EntryInv'
    BY <1>3, DeleteKeepsEntries
  <1>4. CASE UNCHANGED entriesVars
    <2>1. conf' = conf /\ time' = time /\ settings' = settings /\ born' = born /\ crossed' = crossed
      BY <1>4 DEF entriesVars
    <2>2. EntryTypes'
      BY <2>1 DEF EntryInv, EntryTypes
    <2>3. ASSUME NEW k \in Keys \ crossed' PROVE EntryHolds(k)'
      BY <2>1 DEF EntryInv, EntryHolds, ReadRight, Entries!Absent
    <2> QED BY <2>2, <2>3 DEF EntryInv
  <1> QED BY <1>1, <1>2, <1>3, <1>4
          DEF Entries!ConfNext, Entries!handleAdminSetConfig, Entries!handleConfigDelete, Entries!handleAdminDeleteConfig

LEMMA EntrySays == EntryInv => Entries!ConfTypeOK /\ Entries!CreationTimesHold
  <1> SUFFICES ASSUME EntryInv PROVE Entries!ConfTypeOK /\ Entries!CreationTimesHold
    OBVIOUS
  <1>1. Entries!ConfTypeOK
    BY DEF EntryInv, EntryTypes, Setting, Entries!ConfTypeOK
  <1>2. Entries!CreationTimesHold
    BY DEF EntryInv, EntryHolds, Entries!CreationTimesHold, Entries!List, Entries!Get
  <1> QED BY <1>1, <1>2

------------------------------------------------------------------------------
\* Settings of the server.
SaveStages == {"applied", "built", "mailer", "text", "emptied", "saved", "unsaved"}
Fields == [plain : Values \cup {"default"}, secret : Values \cup {"", "mask", "default"}]
Form == [pc : {"away", "open", "plain"} \cup SaveStages, fields : Fields,
         tested : Server!Settings \cup {Server!Untested}, taken : Server!Settings]
ServerTypes ==
  /\ cfg \in Server!Settings /\ smtp \in Server!Settings
  /\ yaml \in [state : {"whole", "torn"}, has : Server!Settings]
  /\ environ \in Values \cup {""} /\ overlapped \in BOOLEAN /\ starts \in 0..MaxStarts
  /\ forms \in [Forms -> Form]

\* A test is of the fields of its page, until a save changes a secret.
TestsOwnFields(s) == s.tested \in {Server!Untested, Server!emailConfigForTest(s.fields)}
Saves(s) == s.pc \notin {"away", "open"}
\* What a save that runs by itself has achieved at each stage.
Achieved(s) ==
  /\ s.pc = "plain" => cfg.plain = s.fields.plain /\ TestsOwnFields(s)
  /\ s.pc \in SaveStages => s.tested \in {Server!Untested, cfg} \/ s.fields.secret = ""
  /\ s.pc \in {"built", "text", "emptied"} => s.taken = cfg
  /\ s.pc \in {"mailer", "text", "emptied", "saved"} => smtp = cfg
  /\ s.pc = "saved" => yaml.has = cfg
OneSaves == ~overlapped => \A f, g \in Forms : Saves(forms[f]) /\ Saves(forms[g]) => f = g
Calm == \A f, g \in Forms : Saves(forms[f]) /\ forms[g].pc = "open" => forms[g].tested = Server!Untested
FormHolds(f) ==
  /\ forms[f].pc = "open" => TestsOwnFields(forms[f])
  /\ ~overlapped => Achieved(forms[f])
ServerInv == ServerTypes /\ OneSaves /\ Calm /\ \A f \in Forms : FormHolds(f)

LEMMA SettingParts ==
  ASSUME NEW s \in Server!Settings
  PROVE  s = [plain |-> s.plain, secret |-> s.secret] /\ s.plain \in Values \cup {"default"} /\ s.secret \in Values \cup {"", "default"}
  BY DEF Server!Settings, Server!Empty

LEMMA SettingOf ==
  ASSUME NEW p \in Values \cup {"default"}, NEW c \in Values \cup {"", "default"}
  PROVE  [plain |-> p, secret |-> c] \in Server!Settings
  BY DEF Server!Settings, Server!Empty

LEMMA FormParts ==
  ASSUME NEW s \in Form
  PROVE  /\ s.pc \in {"away", "open", "plain"} \cup SaveStages /\ s.fields \in Fields
         /\ s.tested \in Server!Settings \cup {Server!Untested} /\ s.taken \in Server!Settings
         /\ s.fields.plain \in Values \cup {"default"} /\ s.fields.secret \in Values \cup {"", "mask", "default"}
  <1>1. /\ s.pc \in {"away", "open", "plain"} \cup SaveStages /\ s.fields \in Fields
        /\ s.tested \in Server!Settings \cup {Server!Untested} /\ s.taken \in Server!Settings
    BY DEF Form
  <1> QED BY <1>1 DEF Fields

LEMMA DefaultsAre == Server!Defaults \in Server!Settings /\ Server!Defaults \in Fields
  BY SettingOf DEF Server!Defaults, Fields

LEMMA AwayIs == Server!Away \in Form /\ Server!Away.pc = "away" /\ Server!Away.tested = Server!Untested
  BY DefaultsAre DEF Server!Away, Form

LEMMA OverriddenIs ==
  ASSUME NEW s \in Server!Settings, environ \in Values \cup {""} PROVE Server!applyEnvOverrides(s) \in Server!Settings
  <1>1. s.plain \in Values \cup {"default"} /\ s.secret \in Values \cup {"", "default"} /\ s = [plain |-> s.plain, secret |-> s.secret]
    BY SettingParts
  <1>2. CASE environ = ""
    BY <1>2 DEF Server!applyEnvOverrides, Server!Empty
  <1>3. CASE environ # ""
    <2>1. Server!applyEnvOverrides(s) = [plain |-> s.plain, secret |-> environ]
      BY <1>1, <1>3 DEF Server!applyEnvOverrides, Server!Empty
    <2> QED BY <1>1, <2>1, SettingOf
  <1> QED BY <1>2, <1>3

LEMMA TestedIs ==
  ASSUME NEW s \in Fields, cfg \in Server!Settings
  PROVE  /\ Server!emailConfigForTest(s) \in Server!Settings /\ Server!emailConfigForTest(s).plain = s.plain
         /\ Server!emailConfigForTest(s) =
              [plain |-> s.plain, secret |-> IF s.secret \in {"mask", ""} THEN cfg.secret ELSE s.secret]
  <1>1. Server!emailConfigForTest(s) =
          [plain |-> s.plain, secret |-> IF s.secret \in {"mask", ""} THEN cfg.secret ELSE s.secret]
    BY DEF Server!emailConfigForTest, Server!Mask, Server!Empty
  <1>2. s.plain \in Values \cup {"default"} /\ s.secret \in Values \cup {"", "mask", "default"}
    BY DEF Fields
  <1>3. cfg.secret \in Values \cup {"", "default"}
    BY SettingParts
  <1>4. PICK c : c = IF s.secret \in {"mask", ""} THEN cfg.secret ELSE s.secret
    OBVIOUS
  <1>5. c \in Values \cup {"", "default"}
    BY <1>2, <1>3, <1>4
  <1>6. [plain |-> s.plain, secret |-> c] \in Server!Settings
    BY <1>2, <1>5, SettingOf
  <1>7. Server!emailConfigForTest(s) = [plain |-> s.plain, secret |-> c]
    BY <1>1, <1>4
  <1>8. Server!emailConfigForTest(s).plain = s.plain
    BY <1>7
  <1>9. Server!emailConfigForTest(s) \in Server!Settings
    BY <1>6, <1>7
  <1> QED BY <1>1, <1>8, <1>9

LEMMA ServerStart == Server!SettingInit => ServerInv
  <1> SUFFICES ASSUME Server!SettingInit PROVE ServerInv
    OBVIOUS
  <1>1. /\ environ \in Values \cup {""} /\ cfg = Server!applyEnvOverrides(Server!Defaults) /\ smtp = cfg
        /\ yaml = [state |-> "whole", has |-> cfg] /\ forms = [f \in Forms |-> Server!Away]
        /\ overlapped = FALSE /\ starts = 0
    BY DEF Server!SettingInit, Server!Written, Server!Empty
  <1>2. cfg \in Server!Settings
    BY <1>1, DefaultsAre, OverriddenIs
  <1>3. starts \in 0..MaxStarts
    <2>1. MaxStarts \in Nat
      BY ContentParameters
    <2>2. starts = 0
      BY <1>1
    <2> QED BY <2>1, <2>2
  <1>4. ServerTypes
    BY <1>1, <1>2, <1>3, AwayIs DEF ServerTypes
  <1>5. \A f \in Forms : forms[f].pc = "away" /\ forms[f] = Server!Away
    BY <1>1, AwayIs
  <1>6. OneSaves /\ Calm
    BY <1>5 DEF OneSaves, Calm, Saves
  <1>7. \A f \in Forms : FormHolds(f)
    BY <1>5 DEF FormHolds, Achieved, SaveStages
  <1> QED BY <1>4, <1>6, <1>7 DEF ServerInv

\* A page that is read, typed into or tested changes nothing but itself.
LEMMA PageKeeps ==
  ASSUME ServerInv, NEW f \in Forms, NEW new \in Form, forms' = [forms EXCEPT ![f] = new],
         forms[f].pc \in {"away", "open"}, new.pc = "open", TestsOwnFields(new),
         (\E g \in Forms : Saves(forms[g])) => new.tested = Server!Untested,
         cfg' = cfg, yaml' = yaml, environ' = environ, smtp' = smtp, overlapped' = overlapped, starts' = starts
  PROVE  ServerInv'
  <1>1. ServerTypes /\ forms \in [Forms -> Form]
    BY DEF ServerInv, ServerTypes
  <1>2. \A g \in Forms : forms'[g] = IF g = f THEN new ELSE forms[g]
    BY <1>1
  <1>3. ServerTypes'
    BY <1>1 DEF ServerTypes
  <1>4. \A g \in Forms : Saves(forms'[g]) <=> Saves(forms[g])
    BY <1>2 DEF Saves
  <1>5. OneSaves' /\ Calm'
    BY <1>2, <1>4 DEF ServerInv, OneSaves, Calm, Saves
  <1>6. ASSUME NEW g \in Forms PROVE FormHolds(g)'
    <2>1. FormHolds(g)
      BY DEF ServerInv
    <2>2. CASE g = f
      BY <1>2, <2>2 DEF FormHolds, Achieved, TestsOwnFields, SaveStages, Server!emailConfigForTest, Server!Untested, Server!Mask, Server!Empty
    <2>3. CASE g # f
      BY <1>2, <2>1, <2>3 DEF FormHolds, Achieved, TestsOwnFields, SaveStages, Server!emailConfigForTest, Server!Untested, Server!Mask, Server!Empty
    <2> QED BY <2>2, <2>3
  <1> QED BY <1>3, <1>5, <1>6 DEF ServerInv

\* A stage of a save after its fields are in memory.
LEMMA StageKeeps ==
  ASSUME ServerInv, NEW f \in Forms, NEW new \in Form, forms' = [forms EXCEPT ![f] = new],
         forms[f].pc \in SaveStages, new.pc \in SaveStages \cup {"away"}, ~overlapped => Achieved(new)',
         cfg' = cfg, yaml' \in [state : {"whole", "torn"}, has : Server!Settings], environ' = environ,
         smtp' \in Server!Settings, overlapped' = overlapped, starts' = starts
  PROVE  ServerInv'
  <1>1. ServerTypes /\ forms \in [Forms -> Form]
    BY DEF ServerInv, ServerTypes
  <1>2. \A g \in Forms : forms'[g] = IF g = f THEN new ELSE forms[g]
    BY <1>1
  <1>3. ServerTypes'
    BY <1>1 DEF ServerTypes
  <1>4. Saves(forms[f]) /\ new.pc # "open" /\ \A g \in Forms : Saves(forms'[g]) => Saves(forms[g])
    BY <1>2 DEF Saves, SaveStages
  <1>5. OneSaves'
    BY <1>2, <1>4 DEF ServerInv, OneSaves
  <1>6. Calm'
    BY <1>2, <1>4 DEF ServerInv, Calm, Server!Untested
  <1>7. ASSUME NEW g \in Forms PROVE FormHolds(g)'
    <2>1. FormHolds(g)
      BY DEF ServerInv
    <2>2. CASE g = f
      BY <1>2, <1>4, <2>2 DEF FormHolds
    <2>3. CASE g # f
      <3>1. forms'[g] = forms[g]
        BY <1>2, <2>3
      <3>2. ~overlapped => forms[g].pc \in {"away", "open"}
        BY <1>4, <2>3 DEF ServerInv, OneSaves, Saves
      <3>3. ~overlapped' => Achieved(forms[g])'
        BY <3>1, <3>2 DEF Achieved, SaveStages
      <3> QED BY <2>1, <3>1, <3>3 DEF FormHolds, TestsOwnFields, Server!emailConfigForTest, Server!Untested, Server!Mask, Server!Empty
    <2> QED BY <2>2, <2>3
  <1> QED BY <1>3, <1>5, <1>6, <1>7 DEF ServerInv

LEMMA PagesKeep ==
  ASSUME ServerInv, NEW f \in Forms,
         \/ Server!handleGetConfig(f) \/ Server!handleSmtpTest(f)
         \/ \E plain \in Values, secret \in Values \cup {"", "mask"} : Server!Type(f, [plain |-> plain, secret |-> secret])
  PROVE  ServerInv'
  <1>1. ServerTypes /\ forms[f] \in Form /\ forms \in [Forms -> Form] /\ cfg \in Server!Settings
    BY DEF ServerInv, ServerTypes
  <1>2. cfg.plain \in Values \cup {"default"} /\ cfg.secret \in Values \cup {"", "default"}
    BY <1>1, SettingParts
  <1>3. CASE Server!handleGetConfig(f)
    <2>1. PICK c \in {"", "mask"} : c = Server!masked(cfg.secret)
      BY DEF Server!masked, Server!Mask, Server!Empty
    <2>2. PICK fields : fields = [plain |-> cfg.plain, secret |-> c]
      OBVIOUS
    <2>3. PICK new : new = [Server!Away EXCEPT !.pc = "open", !.fields = fields]
      OBVIOUS
    <2>4. fields \in Fields
      BY <1>2, <2>2 DEF Fields
    <2>5. new \in Form /\ new.pc = "open" /\ new.tested = Server!Untested
      BY <2>3, <2>4, AwayIs, DefaultsAre DEF Server!Away, Form
    <2>6. /\ forms' = [forms EXCEPT ![f] = new] /\ forms[f].pc = "away" /\ cfg' = cfg /\ yaml' = yaml /\ environ' = environ
          /\ smtp' = smtp /\ overlapped' = overlapped /\ starts' = starts
      BY <1>3, <2>1, <2>2, <2>3 DEF Server!handleGetConfig
    <2>7. TestsOwnFields(new)
      BY <2>5 DEF TestsOwnFields
    <2> QED BY <2>5, <2>6, <2>7, PageKeeps
  <1>4. CASE Server!handleSmtpTest(f)
    <2>1. PICK tested : tested = IF Server!Saving = {} THEN Server!emailConfigForTest(forms[f].fields) ELSE Server!Untested
      OBVIOUS
    <2>2. PICK new : new = [forms[f] EXCEPT !.tested = tested]
      OBVIOUS
    <2>3. forms[f].fields \in Fields
      BY <1>1, FormParts
    <2>4. tested \in Server!Settings \cup {Server!Untested}
      BY <1>1, <2>1, <2>3, TestedIs
    <2>5. /\ forms' = [forms EXCEPT ![f] = new] /\ forms[f].pc = "open" /\ cfg' = cfg /\ yaml' = yaml /\ environ' = environ
          /\ smtp' = smtp /\ overlapped' = overlapped /\ starts' = starts
      BY <1>4, <2>1, <2>2 DEF Server!handleSmtpTest
    <2>6. new \in Form /\ new.pc = "open" /\ new.tested = tested /\ new.fields = forms[f].fields
      BY <1>1, <2>2, <2>4, <2>5 DEF Form
    <2>7. TestsOwnFields(new)
      BY <2>1, <2>6 DEF TestsOwnFields
    <2>8. (\E g \in Forms : Saves(forms[g])) => tested = Server!Untested
      BY <2>1 DEF Saves, Server!Saving
    <2> QED BY <2>5, <2>6, <2>7, <2>8, PageKeeps
  <1>5. ASSUME NEW plain \in Values, NEW secret \in Values \cup {"", "mask"}, Server!Type(f, [plain |-> plain, secret |-> secret])
        PROVE  ServerInv'
    <2>1. PICK fields : fields = [plain |-> plain, secret |-> secret]
      OBVIOUS
    <2>2. PICK new : new = [forms[f] EXCEPT !.fields = fields, !.tested = Server!Untested]
      OBVIOUS
    <2>3. fields \in Fields
      BY <2>1 DEF Fields
    <2>4. /\ forms' = [forms EXCEPT ![f].fields = fields, ![f].tested = Server!Untested] /\ forms[f].pc = "open" /\ cfg' = cfg /\ yaml' = yaml
          /\ environ' = environ /\ smtp' = smtp /\ overlapped' = overlapped /\ starts' = starts
      BY <1>5, <2>1 DEF Server!Type
    <2>5. forms' = [forms EXCEPT ![f] = new]
      BY <1>1, <2>2, <2>4
    <2>6. new \in Form /\ new.pc = "open" /\ new.tested = Server!Untested
      BY <1>1, <2>2, <2>3, <2>4 DEF Form
    <2>7. TestsOwnFields(new)
      BY <2>6 DEF TestsOwnFields
    <2> QED BY <2>4, <2>5, <2>6, <2>7, PageKeeps
  <1> QED BY <1>3, <1>4, <1>5

LEMMA PlainKeeps == ASSUME ServerInv, NEW f \in Forms, Server!ApplyPlain(f) PROVE ServerInv'
  <1>1. ServerTypes /\ forms[f] \in Form /\ forms \in [Forms -> Form] /\ cfg \in Server!Settings
    BY DEF ServerInv, ServerTypes
  <1>2. PICK new : new = [forms[f] EXCEPT !.pc = "plain"]
    OBVIOUS
  <1>3. /\ forms[f].pc = "open" /\ cfg' = [cfg EXCEPT !.plain = forms[f].fields.plain]
        /\ forms' = [g \in Forms |-> IF g = f THEN new ELSE [forms[g] EXCEPT !.tested = Server!Untested]]
        /\ overlapped' = (Server!Saving # {}) /\ yaml' = yaml /\ environ' = environ /\ smtp' = smtp /\ starts' = starts
    BY <1>2 DEF Server!ApplyPlain
  <1>4. new \in Form /\ new.pc = "plain" /\ new.fields = forms[f].fields /\ new.tested = forms[f].tested
    BY <1>1, <1>2 DEF Form
  <1>5. ASSUME NEW g \in Forms, g # f
        PROVE  forms'[g] \in Form /\ forms'[g].pc = forms[g].pc /\ forms'[g].tested = Server!Untested
    <2>1. forms'[g] = [forms[g] EXCEPT !.tested = Server!Untested] /\ forms[g] \in Form
      BY <1>1, <1>3, <1>5
    <2> QED BY <2>1 DEF Form
  <1>6. forms' \in [Forms -> Form] /\ forms'[f] = new
    BY <1>3, <1>4, <1>5
  <1>7. cfg' \in Server!Settings /\ cfg'.plain = forms[f].fields.plain /\ cfg'.secret = cfg.secret
    <2>1. cfg = [plain |-> cfg.plain, secret |-> cfg.secret] /\ cfg.secret \in Values \cup {"", "default"}
      BY <1>1, SettingParts
    <2>2. forms[f].fields.plain \in Values \cup {"default"}
      BY <1>1, FormParts
    <2>3. cfg' = [plain |-> forms[f].fields.plain, secret |-> cfg.secret]
      BY <1>3, <2>1
    <2> QED BY <2>1, <2>2, <2>3, SettingOf
  <1>8. ServerTypes'
    BY <1>1, <1>3, <1>6, <1>7 DEF ServerTypes
  <1>9. \A g \in Forms \ {f} : ~overlapped' => forms[g].pc \in {"away", "open"}
    BY <1>3 DEF Server!Saving
  <1>10. OneSaves'
    BY <1>5, <1>9 DEF OneSaves, Saves
  <1>11. Calm'
    BY <1>4, <1>5, <1>6 DEF Calm, Server!Untested
  <1>12. ASSUME NEW g \in Forms PROVE FormHolds(g)'
    <2>1. CASE g = f
      <3>1. TestsOwnFields(forms[f])
        BY <1>3 DEF ServerInv, FormHolds
      <3>2. TestsOwnFields(new)'
        BY <1>4, <1>7, <3>1 DEF TestsOwnFields, Server!emailConfigForTest, Server!Untested, Server!Mask, Server!Empty
      <3>3. Achieved(new)'
        BY <1>4, <1>7, <3>2 DEF Achieved, SaveStages
      <3> QED BY <1>4, <1>6, <2>1, <3>3 DEF FormHolds, Achieved, TestsOwnFields
    <2>2. CASE g # f
      <3>1. TestsOwnFields(forms[g])'
        BY <1>5, <2>2 DEF TestsOwnFields, Server!Untested
      <3>2. ~overlapped' => Achieved(forms[g])'
        BY <1>5, <1>9, <2>2 DEF Achieved, SaveStages
      <3> QED BY <3>1, <3>2 DEF FormHolds
    <2> QED BY <2>1, <2>2
  <1> QED BY <1>8, <1>10, <1>11, <1>12 DEF ServerInv

LEMMA SecretKeeps == ASSUME ServerInv, NEW f \in Forms, Server!ApplySecret(f) PROVE ServerInv'
  <1>1. ServerTypes /\ forms[f] \in Form /\ forms \in [Forms -> Form] /\ cfg \in Server!Settings
    BY DEF ServerInv, ServerTypes
  <1>2. PICK new : new = [forms[f] EXCEPT !.pc = "applied"]
    OBVIOUS
  <1>3. /\ forms[f].pc = "plain" /\ cfg' = IF forms[f].fields.secret = "mask" THEN cfg ELSE [cfg EXCEPT !.secret = forms[f].fields.secret]
        /\ forms' = [forms EXCEPT ![f] = new]
        /\ overlapped' = overlapped /\ yaml' = yaml /\ environ' = environ /\ smtp' = smtp /\ starts' = starts
    BY <1>2 DEF Server!ApplySecret, Server!Mask
  <1>4. new \in Form /\ new.pc = "applied" /\ new.fields = forms[f].fields /\ new.tested = forms[f].tested
    BY <1>1, <1>2 DEF Form, SaveStages
  <1>5. \A g \in Forms : forms'[g] = IF g = f THEN new ELSE forms[g]
    BY <1>1, <1>3
  <1>6. cfg = [plain |-> cfg.plain, secret |-> cfg.secret] /\ cfg.plain \in Values \cup {"default"} /\ cfg.secret \in Values \cup {"", "default"}
    BY <1>1, SettingParts
  <1>7. forms[f].fields.secret \in Values \cup {"", "mask", "default"} /\ forms[f].fields \in Fields
    BY <1>1, FormParts
  <1>8. cfg' = [plain |-> cfg.plain, secret |-> IF forms[f].fields.secret = "mask" THEN cfg.secret ELSE forms[f].fields.secret]
    BY <1>3, <1>6
  <1>9. cfg' \in Server!Settings
    <2>1. PICK c : c = IF forms[f].fields.secret = "mask" THEN cfg.secret ELSE forms[f].fields.secret
      OBVIOUS
    <2>2. c \in Values \cup {"", "default"}
      BY <1>6, <1>7, <2>1
    <2> QED BY <1>6, <1>8, <2>1, <2>2, SettingOf
  <1>10. ServerTypes'
    <2>1. forms' \in [Forms -> Form]
      BY <1>1, <1>3, <1>4
    <2> QED BY <1>1, <1>3, <1>9, <2>1 DEF ServerTypes
  <1>11. Saves(forms[f]) /\ \A g \in Forms : Saves(forms'[g]) <=> Saves(forms[g])
    BY <1>3, <1>4, <1>5 DEF Saves
  <1>12. OneSaves'
    BY <1>3, <1>5, <1>11 DEF ServerInv, OneSaves
  <1>13. Calm'
    BY <1>4, <1>5, <1>11 DEF ServerInv, Calm, Server!Untested
  <1>14. ASSUME NEW g \in Forms PROVE FormHolds(g)'
    <2>1. CASE g = f
      <3>1. ASSUME ~overlapped PROVE new.tested \in {Server!Untested, cfg'} \/ new.fields.secret = ""
        <4>1. cfg.plain = forms[f].fields.plain /\ TestsOwnFields(forms[f])
          BY <1>3, <3>1 DEF ServerInv, FormHolds, Achieved
        <4>2. Server!emailConfigForTest(forms[f].fields) =
                [plain |-> forms[f].fields.plain, secret |-> IF forms[f].fields.secret \in {"mask", ""} THEN cfg.secret ELSE forms[f].fields.secret]
          BY <1>1, <1>7, TestedIs
        <4>3. forms[f].fields.secret # "" => Server!emailConfigForTest(forms[f].fields) = cfg'
          BY <1>8, <4>1, <4>2
        <4> QED BY <1>4, <4>1, <4>3 DEF TestsOwnFields
      <3>2. ~overlapped' => Achieved(new)'
        BY <1>3, <1>4, <3>1 DEF Achieved, SaveStages, Server!Untested
      <3> QED BY <1>4, <1>5, <2>1, <3>2 DEF FormHolds, Achieved, TestsOwnFields
    <2>2. CASE g # f
      <3>1. forms'[g] = forms[g]
        BY <1>5, <2>2
      <3>2. forms[g].pc = "open" => forms[g].tested = Server!Untested
        BY <1>11 DEF ServerInv, Calm
      <3>3. ~overlapped' => forms[g].pc \in {"away", "open"}
        BY <1>3, <1>11, <2>2 DEF ServerInv, OneSaves, Saves
      <3>4. ~overlapped' => Achieved(forms[g])'
        BY <3>1, <3>3 DEF Achieved, SaveStages
      <3> QED BY <3>1, <3>2, <3>4 DEF FormHolds, TestsOwnFields, Server!Untested
    <2> QED BY <2>1, <2>2
  <1> QED BY <1>10, <1>12, <1>13, <1>14 DEF ServerInv

LEMMA StagesKeep ==
  ASSUME ServerInv, NEW f \in Forms,
         \/ Server!BuildMailer(f) \/ Server!ReplaceMailer(f) \/ Server!Marshal(f) \/ Server!Truncate(f)
         \/ Server!WriteFile(f) \/ Server!Answer(f)
  PROVE  ServerInv'
  <1>1. /\ forms[f] \in Form /\ forms \in [Forms -> Form] /\ cfg \in Server!Settings /\ smtp \in Server!Settings
        /\ yaml \in [state : {"whole", "torn"}, has : Server!Settings]
    BY DEF ServerInv, ServerTypes
  <1>2. ~overlapped => Achieved(forms[f])
    BY DEF ServerInv, FormHolds
  <1>3. forms[f].taken \in Server!Settings
    BY <1>1, FormParts
  <1>4. ASSUME NEW new \in Form, new.pc = "away" PROVE Achieved(new)'
    BY <1>4 DEF Achieved, SaveStages
  <1>7. CASE Server!BuildMailer(f) \/ Server!Marshal(f)
    <2>1. PICK pc \in {"built", "text"} :
            /\ forms' = [forms EXCEPT ![f] = [forms[f] EXCEPT !.pc = pc, !.taken = cfg]]
            /\ pc = "built" => forms[f].pc = "applied"
            /\ pc = "text" => forms[f].pc = "mailer"
      BY <1>7 DEF Server!BuildMailer, Server!Marshal
    <2>2. cfg' = cfg /\ yaml' = yaml /\ environ' = environ /\ smtp' = smtp /\ overlapped' = overlapped /\ starts' = starts
      BY <1>7 DEF Server!BuildMailer, Server!Marshal
    <2>3. PICK new : new = [[forms[f] EXCEPT !.pc = pc] EXCEPT !.taken = cfg]
      OBVIOUS
    <2>4. new = [forms[f] EXCEPT !.pc = pc, !.taken = cfg]
      BY <2>3
    <2>5. pc \in SaveStages
      BY DEF SaveStages
    <2>6. new \in Form /\ new.pc = pc /\ new.taken = cfg /\ new.fields = forms[f].fields /\ new.tested = forms[f].tested
      BY <1>1, <2>3, <2>5 DEF Form
    <2>7. ~overlapped => Achieved(new)'
      BY <1>2, <2>1, <2>2, <2>6 DEF Achieved, SaveStages, Server!Untested
    <2>8. forms[f].pc \in SaveStages
      BY <2>1 DEF SaveStages
    <2> QED BY <1>1, <2>1, <2>2, <2>4, <2>5, <2>6, <2>7, <2>8, StageKeeps
  <1>8. CASE Server!ReplaceMailer(f)
    <2>1. PICK new : new = [forms[f] EXCEPT !.pc = "mailer"]
      OBVIOUS
    <2>2. /\ forms[f].pc = "built" /\ smtp' = forms[f].taken /\ forms' = [forms EXCEPT ![f] = new]
          /\ cfg' = cfg /\ yaml' = yaml /\ environ' = environ /\ overlapped' = overlapped /\ starts' = starts
      BY <1>8, <2>1 DEF Server!ReplaceMailer
    <2>3. new \in Form /\ new.pc = "mailer" /\ new.fields = forms[f].fields /\ new.tested = forms[f].tested
      BY <1>1, <2>1 DEF Form, SaveStages
    <2>4. ~overlapped => Achieved(new)'
      BY <1>2, <2>2, <2>3 DEF Achieved, SaveStages, Server!Untested
    <2>5. forms[f].pc \in SaveStages /\ new.pc \in SaveStages
      BY <2>2, <2>3 DEF SaveStages
    <2> QED BY <1>1, <1>3, <2>2, <2>3, <2>4, <2>5, StageKeeps
  <1>9. CASE Server!Truncate(f)
    <2>1. /\ forms[f].pc = "text" /\ cfg' = cfg /\ environ' = environ /\ smtp' = smtp /\ overlapped' = overlapped /\ starts' = starts
      BY <1>9 DEF Server!Truncate
    <2>2. forms[f].pc \in SaveStages
      BY <2>1 DEF SaveStages
    <2>3. PICK new : new = [forms[f] EXCEPT !.pc = "emptied"]
      OBVIOUS
    <2>4. CASE forms' = [forms EXCEPT ![f] = new] /\ yaml' = [state |-> "torn", has |-> Server!Defaults]
      <3>1. new \in Form /\ new.pc = "emptied" /\ new.fields = forms[f].fields /\ new.tested = forms[f].tested /\ new.taken = forms[f].taken
        BY <1>1, <2>3 DEF Form, SaveStages
      <3>2. ~overlapped => Achieved(new)'
        BY <1>2, <2>1, <3>1 DEF Achieved, SaveStages, Server!Untested
      <3>3. yaml' \in [state : {"whole", "torn"}, has : Server!Settings]
        BY <2>4, DefaultsAre
      <3>4. new.pc \in SaveStages
        BY <3>1 DEF SaveStages
      <3> QED BY <1>1, <2>1, <2>2, <2>4, <3>1, <3>2, <3>3, <3>4, StageKeeps
    <2>5. CASE forms' = [forms EXCEPT ![f] = Server!Away] /\ yaml' = yaml
      BY <1>1, <1>4, <2>1, <2>2, <2>5, AwayIs, StageKeeps
    <2> QED BY <1>9, <2>3, <2>4, <2>5 DEF Server!Truncate
  <1>10. CASE Server!WriteFile(f)
    <2>1. /\ forms[f].pc = "emptied" /\ cfg' = cfg /\ environ' = environ /\ smtp' = smtp /\ overlapped' = overlapped /\ starts' = starts
      BY <1>10 DEF Server!WriteFile
    <2>2. forms[f].pc \in SaveStages
      BY <2>1 DEF SaveStages
    <2>3. PICK pc \in {"saved", "unsaved"} : forms' = [forms EXCEPT ![f].pc = pc] /\ yaml'.has = forms[f].taken
                                             /\ yaml' \in [state : {"whole", "torn"}, has : Server!Settings]
      BY <1>3, <1>10 DEF Server!WriteFile, Server!Written
    <2>4. PICK new : new = [forms[f] EXCEPT !.pc = pc]
      OBVIOUS
    <2>5. pc \in SaveStages
      BY DEF SaveStages
    <2>6. new \in Form /\ new.pc = pc /\ new.fields = forms[f].fields /\ new.tested = forms[f].tested /\ new.taken = forms[f].taken
      BY <1>1, <2>4, <2>5 DEF Form
    <2>7. ~overlapped => Achieved(new)'
      BY <1>2, <2>1, <2>3, <2>6 DEF Achieved, SaveStages, Server!Untested
    <2>8. forms' = [forms EXCEPT ![f] = new]
      BY <2>3, <2>4
    <2> QED BY <1>1, <2>1, <2>2, <2>3, <2>5, <2>6, <2>7, <2>8, StageKeeps
  <1>11. CASE Server!Answer(f)
    <2>1. /\ forms[f].pc \in {"saved", "unsaved"} /\ forms' = [forms EXCEPT ![f] = Server!Away]
          /\ cfg' = cfg /\ yaml' = yaml /\ environ' = environ /\ smtp' = smtp /\ overlapped' = overlapped /\ starts' = starts
      BY <1>11 DEF Server!Answer
    <2>2. forms[f].pc \in SaveStages
      BY <2>1 DEF SaveStages
    <2> QED BY <1>1, <1>4, <2>1, <2>2, AwayIs, StageKeeps
  <1> QED BY <1>7, <1>8, <1>9, <1>10, <1>11

LEMMA LoadKeeps == ASSUME ServerInv, Server!Load PROVE ServerInv'
  <1>1. ServerTypes /\ forms \in [Forms -> Form] /\ environ \in Values \cup {""} /\ yaml \in [state : {"whole", "torn"}, has : Server!Settings]
    BY DEF ServerInv, ServerTypes
  <1>2. PICK read \in Server!Readings : cfg' = Server!applyEnvOverrides(read)
    BY DEF Server!Load
  <1>3. /\ starts < MaxStarts /\ starts' = starts + 1 /\ smtp' = cfg' /\ overlapped' = FALSE /\ yaml' = yaml /\ environ' = environ
        /\ forms' = [f \in Forms |-> IF f \in Server!Saving THEN Server!Away ELSE [forms[f] EXCEPT !.tested = Server!Untested]]
    BY DEF Server!Load
  <1>4. read \in Server!Settings
    BY <1>1 DEF Server!Readings
  <1>5. cfg' \in Server!Settings
    BY <1>1, <1>2, <1>4, OverriddenIs
  <1>6. starts' \in 0..MaxStarts
    <2>1. MaxStarts \in Nat
      BY ContentParameters
    <2>2. starts \in 0..MaxStarts /\ starts < MaxStarts /\ starts' = starts + 1
      BY <1>1, <1>3 DEF ServerTypes
    <2> QED BY <2>1, <2>2
  <1>7. ASSUME NEW f \in Forms PROVE forms'[f] \in Form /\ forms'[f].pc \in {"away", "open"} /\ forms'[f].tested = Server!Untested
    <2>1. CASE f \in Server!Saving
      BY <1>3, <2>1, AwayIs
    <2>2. CASE f \notin Server!Saving
      <3>1. forms'[f] = [forms[f] EXCEPT !.tested = Server!Untested] /\ forms[f] \in Form
        BY <1>1, <1>3, <2>2
      <3>2. forms[f].pc \in {"away", "open"}
        BY <2>2 DEF Server!Saving
      <3> QED BY <3>1, <3>2 DEF Form
    <2> QED BY <2>1, <2>2
  <1>8. ServerTypes'
    <2>1. forms' \in [Forms -> Form]
      BY <1>3, <1>7
    <2> QED BY <1>1, <1>3, <1>5, <1>6, <2>1 DEF ServerTypes
  <1>9. OneSaves' /\ Calm'
    BY <1>7 DEF OneSaves, Calm, Saves, Server!Untested
  <1>10. ASSUME NEW f \in Forms PROVE FormHolds(f)'
    BY <1>7 DEF FormHolds, Achieved, TestsOwnFields, SaveStages, Server!Untested
  <1> QED BY <1>8, <1>9, <1>10 DEF ServerInv

LEMMA ServerKeeps == ServerInv /\ (Server!SettingNext \/ UNCHANGED serverVars) => ServerInv'
  <1> SUFFICES ASSUME ServerInv, Server!SettingNext \/ UNCHANGED serverVars PROVE ServerInv'
    OBVIOUS
  <1>1. ASSUME NEW f \in Forms,
               \/ Server!handleGetConfig(f) \/ Server!handleSmtpTest(f)
               \/ \E plain \in Values, secret \in Values \cup {"", "mask"} : Server!Type(f, [plain |-> plain, secret |-> secret])
        PROVE  ServerInv'
    BY <1>1, PagesKeep
  <1>2. ASSUME NEW f \in Forms, Server!ApplyPlain(f) \/ Server!ApplySecret(f) PROVE ServerInv'
    BY <1>2, PlainKeeps, SecretKeeps
  <1>3. ASSUME NEW f \in Forms,
               \/ Server!BuildMailer(f) \/ Server!ReplaceMailer(f) \/ Server!Marshal(f) \/ Server!Truncate(f)
               \/ Server!WriteFile(f) \/ Server!Answer(f)
        PROVE  ServerInv'
    BY <1>3, StagesKeep
  <1>4. CASE Server!Load
    BY <1>4, LoadKeeps
  <1>5. CASE UNCHANGED serverVars
    <2>1. cfg' = cfg /\ yaml' = yaml /\ environ' = environ /\ smtp' = smtp /\ forms' = forms /\ overlapped' = overlapped /\ starts' = starts
      BY <1>5 DEF serverVars
    <2>2. ServerTypes' /\ OneSaves' /\ Calm'
      BY <2>1, ZenonT(40) DEF ServerInv, ServerTypes, OneSaves, Calm, Server!Untested, Server!Settings, Server!Empty, Form
    <2>3. ASSUME NEW f \in Forms PROVE FormHolds(f)'
      BY <2>1 DEF ServerInv, FormHolds, Achieved, TestsOwnFields, Server!emailConfigForTest, Server!Untested, Server!Mask, Server!Empty
    <2> QED BY <2>2, <2>3 DEF ServerInv
  <1> QED BY <1>1, <1>2, <1>3, <1>4, <1>5 DEF Server!SettingNext, Server!Mask, Server!Empty

LEMMA ServerSays == ServerInv => Server!SettingTypeOK /\ Server!SavedSettingsHold /\ Server!MaskIsNoSecret
  <1> SUFFICES ASSUME ServerInv PROVE Server!SettingTypeOK /\ Server!SavedSettingsHold /\ Server!MaskIsNoSecret
    OBVIOUS
  <1>1. ServerTypes
    BY DEF ServerInv
  <1>2. Server!SettingTypeOK
    <2>1. \A f \in Forms : forms[f].taken \in Server!Settings
      BY <1>1, FormParts DEF ServerTypes
    <2> QED BY <1>1, <2>1 DEF ServerTypes, Server!SettingTypeOK, Server!Empty
  <1>3. Server!SavedSettingsHold
    BY DEF ServerInv, FormHolds, Achieved, SaveStages, Server!SavedSettingsHold, Server!Empty
  <1>4. ASSUME NEW s \in Server!Settings PROVE s.secret # "mask"
    BY SettingParts, ContentParameters
  <1>5. Server!MaskIsNoSecret
    BY <1>1, <1>4 DEF ServerTypes, Server!MaskIsNoSecret, Server!Mask
  <1> QED BY <1>2, <1>3, <1>5

------------------------------------------------------------------------------
LEMMA FilesParameters ==
  IsFiniteSet(Paths) /\ IsFiniteSet(FileReqs) /\ Sizes \subseteq Nat /\ Quota \in Nat /\ MaxMetered \in Nat
  BY FilesAssumption DEF FilesBounds

LEMMA PairIn ==
  ASSUME NEW S, NEW f \in [S -> Nat], NEW p
  PROVE  p \in Files!Pairs(f) <=> \E x \in S : \E n \in 1..f[x] : p = <<x, n>>
  BY DEF Files!Pairs

LEMMA SumCounts == ASSUME NEW f PROVE Files!Sum(f) = Cardinality(Files!Pairs(f))
  BY DEF Files!Sum, Files!Cardinality, Cardinality

LEMMA UpTo == ASSUME NEW n \in Nat PROVE IsFiniteSet(1..n) /\ Cardinality(1..n) = n
  <1>1. 1 \in Int /\ n \in Int
    OBVIOUS
  <1>2. IsFiniteSet(1..n) /\ Cardinality(1..n) = IF 1 > n THEN 0 ELSE n - 1 + 1
    BY <1>1, FS_Interval
  <1> QED BY <1>2

LEMMA NoPairs == ASSUME NEW S, NEW f \in [S -> Nat], \A x \in S : f[x] = 0 PROVE IsFiniteSet(Files!Pairs(f)) /\ Files!Sum(f) = 0
  <1>1. Files!Pairs(f) = {}
    <2> SUFFICES ASSUME NEW p \in Files!Pairs(f) PROVE FALSE
      OBVIOUS
    <2>1. PICK x \in S : \E n \in 1..f[x] : p = <<x, n>>
      BY PairIn
    <2> QED BY <2>1
  <1> QED BY <1>1, FS_EmptySet, SumCounts

LEMMA PairsOfOne ==
  ASSUME NEW S, NEW f \in [S -> Nat], NEW c \in S, NEW rest,
         IsFiniteSet(rest), rest \cap ({c} \X (1..f[c])) = {}, Files!Pairs(f) = rest \cup ({c} \X (1..f[c]))
  PROVE  IsFiniteSet(Files!Pairs(f)) /\ Files!Sum(f) = Cardinality(rest) + f[c] /\ Cardinality(rest) \in Nat
  <1> DEFINE own == {c} \X (1..f[c])
  <1>1. f[c] \in Nat
    OBVIOUS
  <1>2. IsFiniteSet(1..f[c]) /\ Cardinality(1..f[c]) = f[c]
    BY <1>1, UpTo
  <1>3. IsFiniteSet({c}) /\ Cardinality({c}) = 1
    BY FS_Singleton
  <1>4. IsFiniteSet(own) /\ Cardinality(own) = Cardinality({c}) * Cardinality(1..f[c])
    BY <1>2, <1>3, FS_Product
  <1>5. Cardinality(own) = f[c]
    BY <1>1, <1>2, <1>3, <1>4
  <1>6. rest \cap own = {} /\ Files!Pairs(f) = rest \cup own
    OBVIOUS
  <1> HIDE DEF own
  <1>7. /\ IsFiniteSet(rest \cup own)
        /\ Cardinality(rest \cup own) = Cardinality(rest) + Cardinality(own) - Cardinality(rest \cap own)
    BY <1>4, FS_Union
  <1>8. Cardinality({}) = 0 /\ Cardinality(rest) \in Nat
    BY FS_EmptySet, FS_CardinalityType
  <1>9. Cardinality(Files!Pairs(f)) = Cardinality(rest) + f[c]
    <2>1. Cardinality(rest \cap own) = 0
      BY <1>6, <1>8
    <2>2. Cardinality(Files!Pairs(f)) = Cardinality(rest \cup own)
      BY <1>6
    <2> QED BY <1>1, <1>5, <1>7, <1>8, <2>1, <2>2
  <1>10. Files!Sum(f) = Cardinality(Files!Pairs(f))
    BY SumCounts
  <1> QED BY <1>6, <1>7, <1>8, <1>9, <1>10

LEMMA SumMoves ==
  ASSUME NEW S, NEW f \in [S -> Nat], NEW g \in [S -> Nat], NEW c \in S, \A x \in S \ {c} : g[x] = f[x],
         IsFiniteSet(Files!Pairs(f))
  PROVE  /\ IsFiniteSet(Files!Pairs(g)) /\ Files!Sum(f) \in Nat /\ Files!Sum(g) \in Nat
         /\ Files!Sum(g) + f[c] = Files!Sum(f) + g[c]
  <1> DEFINE rest == {p \in Files!Pairs(f) : p[1] # c}
  <1>1. IsFiniteSet(rest)
    BY FS_Subset
  <1>2. ASSUME NEW h \in [S -> Nat], \A x \in S \ {c} : h[x] = f[x]
        PROVE  rest \cap ({c} \X (1..h[c])) = {} /\ Files!Pairs(h) = rest \cup ({c} \X (1..h[c]))
    <2>1. ASSUME NEW p PROVE p \in Files!Pairs(h) <=> p \in rest \/ p \in {c} \X (1..h[c])
      <3>1. p \in {c} \X (1..h[c]) <=> \E n \in 1..h[c] : p = <<c, n>>
        OBVIOUS
      <3>2. p \in Files!Pairs(h) <=> \E x \in S : \E n \in 1..h[x] : p = <<x, n>>
        BY PairIn
      <3>3. p \in Files!Pairs(f) <=> \E x \in S : \E n \in 1..f[x] : p = <<x, n>>
        BY PairIn
      <3>4. p \in rest <=> \E x \in S \ {c} : \E n \in 1..h[x] : p = <<x, n>>
        <4>1. ASSUME p \in rest PROVE \E x \in S \ {c} : \E n \in 1..h[x] : p = <<x, n>>
          <5>1. PICK x \in S : \E n \in 1..f[x] : p = <<x, n>>
            BY <4>1, <3>3
          <5>2. x # c
            BY <4>1, <5>1
          <5> QED BY <5>1, <5>2, <1>2
        <4>2. ASSUME NEW x \in S \ {c}, NEW n \in 1..h[x], p = <<x, n>> PROVE p \in rest
          <5>1. n \in 1..f[x]
            BY <1>2
          <5>2. p \in Files!Pairs(f)
            BY <3>3, <4>2, <5>1
          <5> QED BY <4>2, <5>2
        <4> QED BY <4>1, <4>2
      <3> HIDE DEF rest
      <3> QED BY <3>1, <3>2, <3>4
    <2>2. rest \cap ({c} \X (1..h[c])) = {}
      OBVIOUS
    <2> HIDE DEF rest
    <2> QED BY <2>1, <2>2
  <1> HIDE DEF rest
  <1>3. /\ IsFiniteSet(Files!Pairs(f)) /\ Files!Sum(f) = Cardinality(rest) + f[c] /\ Cardinality(rest) \in Nat
    <2>1. rest \cap ({c} \X (1..f[c])) = {} /\ Files!Pairs(f) = rest \cup ({c} \X (1..f[c]))
      BY <1>2
    <2> QED BY <1>1, <2>1, PairsOfOne
  <1>4. /\ IsFiniteSet(Files!Pairs(g)) /\ Files!Sum(g) = Cardinality(rest) + g[c] /\ Cardinality(rest) \in Nat
    <2>1. rest \cap ({c} \X (1..g[c])) = {} /\ Files!Pairs(g) = rest \cup ({c} \X (1..g[c]))
      BY <1>2
    <2> QED BY <1>1, <2>1, PairsOfOne
  <1>5. f[c] \in Nat /\ g[c] \in Nat
    OBVIOUS
  <1> QED BY <1>3, <1>4, <1>5


\* Files.
Req == [pc : Files!Steps, path : Paths \cup {"none"}, size : Sizes \cup {0}, api : BOOLEAN, linked : BOOLEAN]
Lengths == Sizes \cup {Files!Absent, 0}
FileTypes ==
  /\ driver \in {"local", "s3"} /\ bucketMade \in BOOLEAN /\ known \in BOOLEAN
  /\ file \in [Paths -> Lengths] /\ meta \in [Paths -> Lengths]
  /\ disturbed \subseteq Paths /\ loopholes \subseteq {"overlap", "console", "crash"}
  /\ counted \in Nat /\ requests \in [FileReqs -> Req]
  /\ \A r \in FileReqs : IF requests[r].pc = "done" THEN requests[r] = Files!NoRequest ELSE requests[r].path \in Paths

\* What has become of a path at each stage of the request that works on it.
IsAt(s, p) == s.pc # "done" /\ s.path = p
WholeAt(p) == meta[p] # Files!Absent => file[p] = meta[p]
StageAt(s, p) ==
  /\ s.pc \in {"bucket", "put", "create", "remove", "open"} => WholeAt(p)
  /\ s.pc = "open" => file[p] = s.size
  /\ s.pc = "copy" => s.linked /\ file[p] = 0
  /\ s.pc = "save" => file[p] = s.size
  /\ s.pc = "meter" => file[p] = meta[p]
PathHolds(p) ==
  /\ \A q, r \in FileReqs : IsAt(requests[q], p) /\ IsAt(requests[r], p) => q = r
  /\ (\A r \in FileReqs : ~IsAt(requests[r], p)) => WholeAt(p)
  /\ \A r \in FileReqs : IsAt(requests[r], p) => StageAt(requests[r], p)
PathsHold == \A p \in Paths \ disturbed : PathHolds(p)

\* What is counted and stored, and what the upload under way adds to each.
UploadSteps == {"bucket", "create", "copy", "save", "meter", "put"}
Stored == [p \in Paths |-> Files!Larger(file[p], 0)]
Promised == [r \in FileReqs |-> IF requests[r].api THEN requests[r].size ELSE 0]
Landed(s) == s.api /\ s.pc \in {"save", "meter"}
Finite == IsFiniteSet(Files!Pairs(Stored)) /\ IsFiniteSet(Files!Pairs(Promised))
Metered == counted + Files!Sum(Promised) <= MaxMetered
Covered ==
  /\ \A q, r \in FileReqs : requests[q].api /\ requests[r].api => q = r
  /\ \A r \in FileReqs : requests[r].pc \in UploadSteps => requests[r].api
  /\ \A r \in FileReqs : requests[r].api => counted + requests[r].size <= Quota
  /\ counted <= Quota
  /\ (\A r \in FileReqs : ~Landed(requests[r])) => Files!Sum(Stored) <= counted
  /\ \A r \in FileReqs : Landed(requests[r]) => Files!Sum(Stored) <= counted + requests[r].size
\* The object store keeps a file and its metadata as one.
Fitting(s) == IF driver = "s3" THEN s.pc \in {"done", "bucket", "put", "meter", "open"} ELSE s.pc \notin {"bucket", "put"}
OnDriver == (driver = "s3" => meta = file) /\ \A r \in FileReqs : Fitting(requests[r])
FileInv == FileTypes /\ OnDriver /\ PathsHold /\ Finite /\ Metered /\ (loopholes = {} => Covered)

LEMMA LengthsAre ==
  /\ Lengths \subseteq Int /\ Sizes \cup {0} \subseteq Nat /\ Sizes \cup {0} \subseteq Lengths /\ Files!Absent \in Lengths
  /\ Files!Absent = -1 /\ \A n \in Sizes \cup {0} : n # Files!Absent
  BY FilesParameters DEF Lengths, Files!Absent

LEMMA LargerIs ==
  ASSUME NEW a \in Int, NEW b \in Int
  PROVE  Files!Larger(a, b) \in Int /\ Files!Larger(a, b) >= a /\ Files!Larger(a, b) >= b /\ Files!Larger(a, b) \in {a, b}
  BY DEF Files!Larger

LEMMA StoredIs ==
  ASSUME NEW f \in [Paths -> Lengths], NEW g, g = [p \in Paths |-> Files!Larger(f[p], 0)]
  PROVE  g \in [Paths -> Nat] /\ \A p \in Paths : g[p] = IF f[p] = Files!Absent THEN 0 ELSE f[p]
  <1>1. ASSUME NEW p \in Paths PROVE Files!Larger(f[p], 0) \in Nat /\ Files!Larger(f[p], 0) = IF f[p] = Files!Absent THEN 0 ELSE f[p]
    <2>1. f[p] \in Sizes \cup {0} \/ f[p] = -1
      BY DEF Lengths, Files!Absent
    <2>2. CASE f[p] = -1
      BY <2>2, LengthsAre DEF Files!Larger
    <2>3. CASE f[p] \in Sizes \cup {0}
      <3>1. f[p] \in Nat /\ f[p] # Files!Absent
        BY <2>3, LengthsAre
      <3>2. Files!Larger(f[p], 0) = f[p]
        BY <3>1 DEF Files!Larger
      <3> QED BY <3>1, <3>2
    <2> QED BY <2>1, <2>2, <2>3
  <1> QED BY <1>1

LEMMA ReqParts ==
  ASSUME NEW s \in Req
  PROVE  /\ s.pc \in Files!Steps /\ s.path \in Paths \cup {"none"} /\ s.size \in Sizes \cup {0} /\ s.size \in Nat
         /\ s.api \in BOOLEAN /\ s.linked \in BOOLEAN
  BY LengthsAre DEF Req

LEMMA PromisedIs ==
  ASSUME NEW reqs \in [FileReqs -> Req], NEW g, g = [r \in FileReqs |-> IF reqs[r].api THEN reqs[r].size ELSE 0]
  PROVE  g \in [FileReqs -> Nat] /\ \A r \in FileReqs : g[r] = IF reqs[r].api THEN reqs[r].size ELSE 0
  <1>1. ASSUME NEW r \in FileReqs PROVE (IF reqs[r].api THEN reqs[r].size ELSE 0) \in Nat
    BY ReqParts
  <1> QED BY <1>1

LEMMA NoRequestIs ==
  /\ Files!NoRequest \in Req /\ Files!NoRequest.pc = "done" /\ ~Files!NoRequest.api /\ Files!NoRequest.size = 0
  /\ Files!NoRequest.path = "none"
  BY DEF Files!NoRequest, Req, Files!Steps

LEMMA FilesStart == Files!StorageInit => FileInv
  <1> SUFFICES ASSUME Files!StorageInit PROVE FileInv
    OBVIOUS
  <1>1. /\ driver \in {"local", "s3"} /\ bucketMade = FALSE /\ known = FALSE
        /\ file = [p \in Paths |-> Files!Absent] /\ meta = file /\ requests = [r \in FileReqs |-> Files!NoRequest]
        /\ counted = 0 /\ disturbed = {} /\ loopholes = {}
    BY DEF Files!StorageInit
  <1>2. \A r \in FileReqs : requests[r] = Files!NoRequest
    BY <1>1
  <1>3. FileTypes
    BY <1>1, <1>2, LengthsAre, NoRequestIs DEF FileTypes
  <1>4. PathsHold
    BY <1>1, <1>2, NoRequestIs DEF PathsHold, PathHolds, IsAt, WholeAt
  <1>5. IsFiniteSet(Files!Pairs(Stored)) /\ Files!Sum(Stored) = 0
    <2>1. PICK g : g = Stored
      OBVIOUS
    <2>2. g \in [Paths -> Nat] /\ \A p \in Paths : g[p] = 0
      BY <1>1, <1>3, <2>1, StoredIs DEF FileTypes, Stored
    <2> QED BY <2>1, <2>2, NoPairs
  <1>6. IsFiniteSet(Files!Pairs(Promised)) /\ Files!Sum(Promised) = 0
    <2>1. PICK g : g = Promised
      OBVIOUS
    <2>2. g \in [FileReqs -> Nat] /\ \A r \in FileReqs : g[r] = 0
      BY <1>2, <1>3, <2>1, PromisedIs, NoRequestIs DEF FileTypes, Promised
    <2> QED BY <2>1, <2>2, NoPairs
  <1>7. Covered
    BY <1>1, <1>2, <1>5, NoRequestIs, FilesParameters DEF Covered, Landed, UploadSteps
  <1>8. Metered
    BY <1>1, <1>6, FilesParameters DEF Metered
  <1>9. OnDriver
    BY <1>1, <1>2, NoRequestIs DEF OnDriver, Fitting
  <1> QED BY <1>3, <1>4, <1>5, <1>6, <1>7, <1>8, <1>9 DEF FileInv, Finite

\* The sum of what is stored, when one path changes.
LEMMA StoredMoves ==
  ASSUME FileInv, NEW p \in Paths, file' \in [Paths -> Lengths], \A j \in Paths \ {p} : file'[j] = file[j]
  PROVE  \E a, b, x, y \in Nat :
           /\ a = Files!Sum(Stored) /\ b = Files!Sum(Stored)' /\ b + x = a + y /\ IsFiniteSet(Files!Pairs(Stored))'
           /\ x = (IF file[p] = Files!Absent THEN 0 ELSE file[p])
           /\ y = (IF file'[p] = Files!Absent THEN 0 ELSE file'[p])
  <1>1. PICK f, g, f0, g0 : f = Stored /\ g = Stored' /\ f0 = file /\ g0 = file'
    OBVIOUS
  <1>2. f0 \in [Paths -> Lengths] /\ g0 \in [Paths -> Lengths]
    BY <1>1 DEF FileInv, FileTypes
  <1>3. f = [j \in Paths |-> Files!Larger(f0[j], 0)] /\ g = [j \in Paths |-> Files!Larger(g0[j], 0)]
    BY <1>1 DEF Stored, Files!Larger
  <1>4. f \in [Paths -> Nat] /\ \A j \in Paths : f[j] = IF f0[j] = Files!Absent THEN 0 ELSE f0[j]
    BY <1>2, <1>3, StoredIs
  <1>5. g \in [Paths -> Nat] /\ \A j \in Paths : g[j] = IF g0[j] = Files!Absent THEN 0 ELSE g0[j]
    BY <1>2, <1>3, StoredIs
  <1>6. \A j \in Paths \ {p} : g[j] = f[j]
    BY <1>1, <1>4, <1>5
  <1>7. IsFiniteSet(Files!Pairs(f))
    BY <1>1 DEF FileInv, Finite
  <1>8. /\ IsFiniteSet(Files!Pairs(g)) /\ Files!Sum(f) \in Nat /\ Files!Sum(g) \in Nat
        /\ Files!Sum(g) + f[p] = Files!Sum(f) + g[p]
    BY <1>4, <1>5, <1>6, <1>7, SumMoves
  <1>9. Files!Sum(Stored)' = Files!Sum(g) /\ Files!Pairs(Stored)' = Files!Pairs(g)
    BY <1>1 DEF Files!Sum, Files!Pairs
  <1>10. PICK a, b, x, y \in Nat : a = Files!Sum(f) /\ b = Files!Sum(g) /\ x = f[p] /\ y = g[p]
    BY <1>4, <1>5, <1>8
  <1>11. b + x = a + y
    BY <1>8, <1>10
  <1>12. a = Files!Sum(Stored) /\ b = Files!Sum(Stored)' /\ IsFiniteSet(Files!Pairs(Stored))'
    BY <1>1, <1>8, <1>9, <1>10
  <1>13. x = (IF file[p] = Files!Absent THEN 0 ELSE file[p]) /\ y = (IF file'[p] = Files!Absent THEN 0 ELSE file'[p])
    BY <1>1, <1>4, <1>5, <1>10
  <1> QED BY <1>11, <1>12, <1>13

LEMMA PromisedMoves ==
  ASSUME FileInv, NEW r \in FileReqs, requests' \in [FileReqs -> Req],
         \A q \in FileReqs \ {r} : requests'[q].api = requests[q].api /\ requests'[q].size = requests[q].size
  PROVE  \E a, b, x, y \in Nat :
           /\ a = Files!Sum(Promised) /\ b = Files!Sum(Promised)' /\ b + x = a + y /\ IsFiniteSet(Files!Pairs(Promised))'
           /\ x = (IF requests[r].api THEN requests[r].size ELSE 0)
           /\ y = (IF requests'[r].api THEN requests'[r].size ELSE 0)
  <1>1. PICK f, g, f0, g0 : f = Promised /\ g = Promised' /\ f0 = requests /\ g0 = requests'
    OBVIOUS
  <1>2. f0 \in [FileReqs -> Req] /\ g0 \in [FileReqs -> Req]
    BY <1>1 DEF FileInv, FileTypes
  <1>3. f = [j \in FileReqs |-> IF f0[j].api THEN f0[j].size ELSE 0] /\ g = [j \in FileReqs |-> IF g0[j].api THEN g0[j].size ELSE 0]
    BY <1>1 DEF Promised
  <1>4. f \in [FileReqs -> Nat] /\ \A j \in FileReqs : f[j] = IF f0[j].api THEN f0[j].size ELSE 0
    BY <1>2, <1>3, PromisedIs
  <1>5. g \in [FileReqs -> Nat] /\ \A j \in FileReqs : g[j] = IF g0[j].api THEN g0[j].size ELSE 0
    BY <1>2, <1>3, PromisedIs
  <1>6. \A j \in FileReqs \ {r} : g[j] = f[j]
    BY <1>1, <1>4, <1>5
  <1>7. IsFiniteSet(Files!Pairs(f))
    BY <1>1 DEF FileInv, Finite
  <1>8. /\ IsFiniteSet(Files!Pairs(g)) /\ Files!Sum(f) \in Nat /\ Files!Sum(g) \in Nat
        /\ Files!Sum(g) + f[r] = Files!Sum(f) + g[r]
    BY <1>4, <1>5, <1>6, <1>7, SumMoves
  <1>9. Files!Sum(Promised)' = Files!Sum(g) /\ Files!Pairs(Promised)' = Files!Pairs(g)
    BY <1>1 DEF Files!Sum, Files!Pairs
  <1>10. PICK a, b, x, y \in Nat : a = Files!Sum(f) /\ b = Files!Sum(g) /\ x = f[r] /\ y = g[r]
    BY <1>4, <1>5, <1>8
  <1>11. b + x = a + y
    BY <1>8, <1>10
  <1>12. a = Files!Sum(Promised) /\ b = Files!Sum(Promised)' /\ IsFiniteSet(Files!Pairs(Promised))'
    BY <1>1, <1>8, <1>9, <1>10
  <1>13. x = (IF requests[r].api THEN requests[r].size ELSE 0) /\ y = (IF requests'[r].api THEN requests'[r].size ELSE 0)
    BY <1>1, <1>4, <1>5, <1>10
  <1> QED BY <1>11, <1>12, <1>13
\* A step of a request under way at its path.
LEMMA PathsStep ==
  ASSUME FileInv, NEW r \in FileReqs, NEW new \in Req, NEW p \in Paths, IsAt(requests[r], p), requests' \in [FileReqs -> Req],
         requests'[r] = new, new.pc # "done" => new.path = p,
         \A q \in FileReqs \ {r} : \/ requests'[q] = requests[q]
                                   \/ /\ requests[q].path = p /\ requests'[q].pc = requests[q].pc
                                      /\ requests'[q].path = p,
         \A j \in Paths \ {p} : file'[j] = file[j] /\ meta'[j] = meta[j],
         p \notin disturbed => IF new.pc = "done" THEN WholeAt(p)' ELSE StageAt(new, p)',
         disturbed' = disturbed
  PROVE  PathsHold'
  <1> SUFFICES ASSUME NEW j \in Paths \ disturbed PROVE PathHolds(j)'
    BY DEF PathsHold
  <1>1. PathHolds(j)
    BY DEF FileInv, PathsHold
  <1>2. ASSUME NEW q \in FileReqs, IsAt(requests'[q], j) PROVE IsAt(requests[q], j)
    <2>1. CASE q = r
      BY <1>2, <2>1 DEF IsAt
    <2>2. CASE q # r
      BY <1>2, <2>2 DEF IsAt
    <2> QED BY <2>1, <2>2
  <1>3. \A q, t \in FileReqs : IsAt(requests'[q], j) /\ IsAt(requests'[t], j) => q = t
    BY <1>1, <1>2 DEF PathHolds
  <1>4. CASE j # p
    <2>1. file'[j] = file[j] /\ meta'[j] = meta[j]
      BY <1>4
    <2>2. \A q \in FileReqs : IsAt(requests[q], j) => IsAt(requests'[q], j) /\ requests'[q] = requests[q]
      BY <1>4 DEF IsAt
    <2>3. (\A q \in FileReqs : ~IsAt(requests'[q], j)) => WholeAt(j)'
      BY <1>1, <2>1, <2>2 DEF PathHolds, WholeAt, Files!Absent
    <2>4. ASSUME NEW q \in FileReqs, IsAt(requests'[q], j) PROVE StageAt(requests[q], j)'
      <3>1. IsAt(requests[q], j) /\ requests'[q] = requests[q]
        BY <1>2, <2>2, <2>4
      <3>2. StageAt(requests[q], j)
        BY <1>1, <3>1 DEF PathHolds
      <3> QED BY <2>1, <3>1, <3>2 DEF StageAt, WholeAt, Files!Absent
    <2> QED BY <1>3, <2>3, <2>4 DEF PathHolds, IsAt
  <1>5. CASE j = p
    <2>1. \A q \in FileReqs : IsAt(requests'[q], p) => q = r
      BY <1>1, <1>2, <1>5 DEF PathHolds
    <2>2. CASE new.pc = "done"
      <3>1. \A q \in FileReqs : ~IsAt(requests'[q], p)
        BY <2>1, <2>2 DEF IsAt
      <3>2. WholeAt(p)'
        BY <1>5, <2>2
      <3> QED BY <1>5, <3>1, <3>2 DEF PathHolds, IsAt
    <2>3. CASE new.pc # "done"
      <3>1. IsAt(requests'[r], p)
        BY <2>3 DEF IsAt
      <3>2. StageAt(new, p)'
        BY <1>5, <2>3
      <3>3. \A q \in FileReqs : IsAt(requests'[q], p) => StageAt(requests[q], p)'
        BY <2>1, <3>2 DEF StageAt
      <3> QED BY <1>3, <1>5, <3>1, <3>3 DEF PathHolds, IsAt
    <2> QED BY <2>2, <2>3
  <1> QED BY <1>4, <1>5

LEMMA WorkKeeps ==
  ASSUME FileInv, NEW r \in FileReqs, NEW new \in Req, NEW p \in Paths, IsAt(requests[r], p),
         requests' \in [FileReqs -> Req], requests'[r] = new,
         IF new.pc = "done" THEN new = Files!NoRequest
         ELSE new.path = p /\ new.size = requests[r].size /\ new.api = requests[r].api,
         new.pc \in UploadSteps => requests[r].pc \in UploadSteps,
         \A q \in FileReqs \ {r} : \/ requests'[q] = requests[q]
                                   \/ /\ requests[q].path = p
                                      /\ requests'[q] = [requests[q] EXCEPT !.linked = FALSE],
         Fitting(new), driver = "s3" => meta' = file',
         file' \in [Paths -> Lengths], meta' \in [Paths -> Lengths],
         \A j \in Paths \ {p} : file'[j] = file[j] /\ meta'[j] = meta[j],
         p \notin disturbed => IF new.pc = "done" THEN WholeAt(p)' ELSE StageAt(new, p)',
         disturbed' = disturbed, loopholes' = loopholes, driver' = driver, bucketMade' \in BOOLEAN, known' \in BOOLEAN,
         \/ counted' = counted /\ (Landed(requests[r]) => new.pc \in {"save", "meter"})
         \/ new.pc = "done" /\ counted' = counted + (IF requests[r].api THEN requests[r].size ELSE 0),
         \/ file'[p] \in {file[p], 0, Files!Absent}
         \/ ~Landed(requests[r]) /\ new.pc \in {"save", "meter"} /\ file'[p] \in {file[p], requests[r].size}
  PROVE  FileInv'
  <1>1. FileTypes
    BY DEF FileInv
  <1>2. requests[r] \in Req /\ requests[r].pc # "done" /\ requests[r].path = p
    BY <1>1 DEF FileTypes, IsAt
  <1>3. ASSUME NEW q \in FileReqs \ {r}
        PROVE  /\ requests'[q].pc = requests[q].pc /\ requests'[q].path = requests[q].path
               /\ requests'[q].api = requests[q].api /\ requests'[q].size = requests[q].size
               /\ requests[q].pc = "done" => requests'[q] = requests[q]
    <2>1. requests[q] \in Req
      BY <1>1 DEF FileTypes
    <2>2. CASE requests'[q] = requests[q]
      BY <2>2
    <2>3. CASE requests'[q] = [requests[q] EXCEPT !.linked = FALSE]
      <3>1. /\ requests'[q].pc = requests[q].pc /\ requests'[q].path = requests[q].path
            /\ requests'[q].api = requests[q].api /\ requests'[q].size = requests[q].size
        BY <2>1, <2>3 DEF Req
      <3>2. requests[q].pc = "done" => requests'[q] = requests[q]
        <4> SUFFICES ASSUME requests[q].pc = "done" PROVE requests'[q] = requests[q]
          OBVIOUS
        <4>1. requests[q] = Files!NoRequest
          BY <1>1 DEF FileTypes
        <4>2. requests[q].linked = FALSE
          BY <4>1 DEF Files!NoRequest
        <4>3. [requests[q] EXCEPT !.linked = FALSE] = requests[q]
          BY <2>1, <4>2 DEF Req
        <4> QED BY <2>3, <4>3
      <3> QED BY <3>1, <3>2
    <2> QED BY <2>2, <2>3
  <1>4. PathsHold'
    <2>1. \A q \in FileReqs \ {r} : \/ requests'[q] = requests[q]
                                    \/ /\ requests[q].path = p /\ requests'[q].pc = requests[q].pc
                                       /\ requests'[q].path = p
      BY <1>3
    <2>2. new.pc # "done" => new.path = p
      OBVIOUS
    <2> QED BY <2>1, <2>2, PathsStep
  <1>5. PICK a, b, x, y \in Nat :
          /\ a = Files!Sum(Stored) /\ b = Files!Sum(Stored)' /\ b + x = a + y /\ IsFiniteSet(Files!Pairs(Stored))'
          /\ x = (IF file[p] = Files!Absent THEN 0 ELSE file[p])
          /\ y = (IF file'[p] = Files!Absent THEN 0 ELSE file'[p])
    BY StoredMoves
  <1>6. \A q \in FileReqs \ {r} : requests'[q].api = requests[q].api /\ requests'[q].size = requests[q].size
    BY <1>3
  <1>7. PICK c, d, u, v \in Nat :
          /\ c = Files!Sum(Promised) /\ d = Files!Sum(Promised)' /\ d + u = c + v /\ IsFiniteSet(Files!Pairs(Promised))'
          /\ u = (IF requests[r].api THEN requests[r].size ELSE 0)
          /\ v = (IF requests'[r].api THEN requests'[r].size ELSE 0)
    BY <1>6, PromisedMoves
  <1>8. counted \in Nat /\ counted' \in Nat /\ (counted' = counted \/ counted' = counted + u)
    BY <1>1, <1>7 DEF FileTypes
  <1>9. v = (IF new.pc = "done" THEN 0 ELSE u)
    BY <1>7, NoRequestIs
  <1>10. Metered'
    <2>1. counted + c <= MaxMetered
      BY <1>7 DEF FileInv, Metered
    <2>2. counted' + d <= counted + c
      <3>1. counted' = counted \/ (counted' = counted + u /\ v = 0)
        BY <1>7, <1>8, <1>9
      <3>2. v <= u
        BY <1>9
      <3> QED BY <1>7, <1>8, <3>1, <3>2
    <2>3. PICK n, m \in Nat : n = counted' /\ m = counted
      BY <1>8
    <2>4. n + d <= MaxMetered
      BY <2>1, <2>2, <2>3, FilesParameters
    <2> QED BY <1>7, <2>3, <2>4 DEF Metered
  <1>11. FileTypes'
    <2>1. ASSUME NEW q \in FileReqs
          PROVE  IF requests'[q].pc = "done" THEN requests'[q] = Files!NoRequest ELSE requests'[q].path \in Paths
      <3>1. CASE q = r
        BY <3>1
      <3>2. CASE q # r
        <4>1. IF requests[q].pc = "done" THEN requests[q] = Files!NoRequest ELSE requests[q].path \in Paths
          BY <1>1 DEF FileTypes
        <4> QED BY <1>3, <3>2, <4>1
      <3> QED BY <3>1, <3>2
    <2>2. \A q \in FileReqs : IF requests'[q].pc = "done" THEN requests'[q] = Files!NoRequest' ELSE requests'[q].path \in Paths
      BY <2>1 DEF Files!NoRequest
    <2>3. /\ driver' \in {"local", "s3"} /\ bucketMade' \in BOOLEAN /\ known' \in BOOLEAN
          /\ disturbed' \subseteq Paths /\ loopholes' \subseteq {"overlap", "console", "crash"}
      BY <1>1 DEF FileTypes
    <2>4. /\ file' \in [Paths -> Lengths'] /\ meta' \in [Paths -> Lengths'] /\ requests' \in [FileReqs -> Req']
      BY DEF Lengths, Req, Files!Absent, Files!Steps
    <2> QED BY <1>8, <2>2, <2>3, <2>4 DEF FileTypes
  <1>12. ASSUME loopholes = {} PROVE Covered'
    <2>1. Covered
      BY <1>12 DEF FileInv
    <2>2. \A q \in FileReqs \ {r} : (Landed(requests'[q]) <=> Landed(requests[q]))
      BY <1>3 DEF Landed
    <2>3. requests'[r].api => requests[r].api
      BY NoRequestIs
    <2>4. \A q \in FileReqs : requests'[q].api => requests[q].api
      BY <1>6, <2>3
    <2>5. \A q, t \in FileReqs : requests'[q].api /\ requests'[t].api => q = t
      BY <2>1, <2>4 DEF Covered
    <2>6. ASSUME NEW q \in FileReqs, requests'[q].pc \in UploadSteps PROVE requests'[q].api
      <3>1. CASE q = r
        <4>1. requests[r].pc \in UploadSteps /\ new.pc # "done"
          BY <2>6, <3>1 DEF UploadSteps
        <4> QED BY <2>1, <3>1, <4>1 DEF Covered
      <3>2. CASE q # r
        BY <1>3, <2>1, <2>6, <3>2 DEF Covered
      <3> QED BY <3>1, <3>2
    <2>7. requests[r].api => counted + u <= Quota
      BY <1>7, <2>1 DEF Covered
    <2>8. counted <= Quota /\ counted' <= Quota
      <3>1. counted <= Quota
        BY <2>1 DEF Covered
      <3>2. ~requests[r].api => u = 0
        BY <1>7
      <3> QED BY <1>8, <2>7, <3>1, <3>2
    <2>9. ASSUME NEW q \in FileReqs, requests'[q].api PROVE counted' + requests'[q].size <= Quota
      <3>1. requests[q].api /\ counted + requests[q].size <= Quota
        BY <2>1, <2>4, <2>9 DEF Covered
      <3>2. requests'[q].size = requests[q].size
        BY <1>6, <2>9, NoRequestIs
      <3>3. counted' = counted
        <4>1. CASE q = r
          <5>1. new.pc # "done"
            BY <2>9, <4>1, NoRequestIs
          <5> QED BY <5>1
        <4>2. CASE q # r
          <5>1. ~requests[r].api
            BY <2>1, <3>1, <4>2 DEF Covered
          <5>2. u = 0
            BY <1>7, <5>1
          <5> QED BY <1>8, <5>2
        <4> QED BY <4>1, <4>2
      <3> QED BY <3>1, <3>2, <3>3
    <2>10. CASE file'[p] \in {file[p], 0, Files!Absent}
      <3>1. b <= a
        BY <1>5, <2>10, LengthsAre
      <3>2. ASSUME \A q \in FileReqs : ~Landed(requests'[q]) PROVE b <= counted'
        <4>1. CASE Landed(requests[r])
          <5>1. a <= counted + u
            BY <1>5, <1>7, <2>1, <4>1 DEF Covered, Landed
          <5>2. requests[r].api /\ requests[r].pc \in {"save", "meter"}
            BY <4>1 DEF Landed
          <5>3. new.pc = "done"
            BY <3>2, <4>1, <5>2, NoRequestIs DEF Landed
          <5>4. counted' = counted + u
            BY <1>7, <4>1, <5>3
          <5> QED BY <1>8, <3>1, <5>1, <5>4
        <4>2. CASE ~Landed(requests[r])
          <5>1. \A q \in FileReqs : ~Landed(requests[q])
            BY <2>2, <3>2, <4>2
          <5>2. a <= counted
            BY <1>5, <2>1, <5>1 DEF Covered
          <5> QED BY <1>8, <3>1, <5>2
        <4> QED BY <4>1, <4>2
      <3>3. ASSUME NEW q \in FileReqs, Landed(requests'[q]) PROVE b <= counted' + requests'[q].size
        <4>1. requests'[q].api /\ requests[q].api /\ requests'[q].size = requests[q].size
          BY <1>6, <2>4, <3>3, NoRequestIs DEF Landed
        <4>2. requests[q].size \in Nat
          BY <1>1, ReqParts DEF FileTypes
        <4>3. CASE Landed(requests[q])
          <5>1. a <= counted + requests[q].size
            BY <1>5, <2>1, <4>3 DEF Covered
          <5> QED BY <1>8, <3>1, <4>1, <4>2, <5>1
        <4>4. CASE ~Landed(requests[q])
          <5>1. \A t \in FileReqs : ~Landed(requests[t])
            BY <2>1, <4>1, <4>4 DEF Covered, Landed
          <5>2. a <= counted
            BY <1>5, <2>1, <5>1 DEF Covered
          <5> QED BY <1>8, <3>1, <4>1, <4>2, <5>2
        <4> QED BY <4>3, <4>4
      <3> QED BY <1>5, <2>5, <2>6, <2>8, <2>9, <3>2, <3>3 DEF Covered, Landed, UploadSteps
    <2>11. CASE ~Landed(requests[r]) /\ new.pc \in {"save", "meter"} /\ file'[p] \in {file[p], requests[r].size}
      <3>1. requests[r].api /\ new.api /\ counted' = counted /\ Landed(new) /\ u = requests[r].size /\ new.size = u
        <4>1. new.pc # "done" /\ new.pc \in UploadSteps
          BY <2>11 DEF UploadSteps
        <4>2. requests'[r].api
          BY <2>6, <4>1
        <4> QED BY <1>7, <2>3, <2>11, <4>1, <4>2 DEF Landed
      <3>2. \A q \in FileReqs : ~Landed(requests[q])
        BY <2>1, <2>11, <3>1 DEF Covered, Landed
      <3>3. a <= counted
        BY <1>5, <2>1, <3>2 DEF Covered
      <3>4. y <= x + u
        <4>1. requests[r].size \in Nat
          BY <1>2, ReqParts
        <4>2. file'[p] = file[p] \/ file'[p] = u
          BY <2>11, <3>1
        <4>3. CASE file'[p] = file[p]
          BY <1>5, <1>7, <4>3
        <4>4. CASE file'[p] = u
          <5>1. y = u
            BY <1>5, <1>7, <4>4, LengthsAre
          <5> QED BY <1>5, <1>7, <5>1
        <4> QED BY <4>2, <4>3, <4>4
      <3>5. b <= counted' + u
        BY <1>5, <1>7, <1>8, <3>1, <3>3, <3>4
      <3>6. \A q \in FileReqs : Landed(requests'[q]) => q = r
        BY <2>2, <3>2
      <3>7. \A q \in FileReqs : Landed(requests'[q]) => b <= counted' + requests'[q].size
        BY <3>1, <3>5, <3>6
      <3>8. Landed(requests'[r])
        BY <3>1
      <3> QED BY <1>5, <2>5, <2>6, <2>8, <2>9, <3>7, <3>8 DEF Covered, Landed, UploadSteps
    <2> QED BY <2>10, <2>11
  <1>13. OnDriver'
    <2>1. ASSUME NEW q \in FileReqs PROVE Fitting(requests[q])'
      <3>1. CASE q = r
        BY <3>1 DEF Fitting
      <3>2. CASE q # r
        BY <1>3, <3>2 DEF FileInv, OnDriver, Fitting
      <3> QED BY <3>1, <3>2
    <2> QED BY <2>1 DEF OnDriver
  <1> QED BY <1>4, <1>5, <1>7, <1>10, <1>11, <1>12, <1>13 DEF FileInv, Finite
\* A step of a request that touches no other.
LEMMA AloneKeeps ==
  ASSUME FileInv, NEW r \in FileReqs, NEW new \in Req, NEW p \in Paths, IsAt(requests[r], p),
         requests' = [requests EXCEPT ![r] = new],
         IF new.pc = "done" THEN new = Files!NoRequest
         ELSE new.path = p /\ new.size = requests[r].size /\ new.api = requests[r].api,
         new.pc \in UploadSteps => requests[r].pc \in UploadSteps, Fitting(new), driver = "s3" => meta' = file',
         file' \in [Paths -> Lengths], meta' \in [Paths -> Lengths],
         \A j \in Paths \ {p} : file'[j] = file[j] /\ meta'[j] = meta[j],
         p \notin disturbed => IF new.pc = "done" THEN WholeAt(p)' ELSE StageAt(new, p)',
         disturbed' = disturbed, loopholes' = loopholes, driver' = driver, bucketMade' \in BOOLEAN, known' \in BOOLEAN,
         \/ counted' = counted /\ (Landed(requests[r]) => new.pc \in {"save", "meter"})
         \/ new.pc = "done" /\ counted' = counted + (IF requests[r].api THEN requests[r].size ELSE 0),
         \/ file'[p] \in {file[p], 0, Files!Absent}
         \/ ~Landed(requests[r]) /\ new.pc \in {"save", "meter"} /\ file'[p] \in {file[p], requests[r].size}
  PROVE  FileInv'
  <1>1. requests \in [FileReqs -> Req]
    BY DEF FileInv, FileTypes
  <1>2. requests' \in [FileReqs -> Req] /\ requests'[r] = new /\ \A q \in FileReqs \ {r} : requests'[q] = requests[q]
    BY <1>1
  <1> QED BY <1>2, WorkKeeps

\* What the invariant says of a request under way.
LEMMA Known ==
  ASSUME FileInv, NEW r \in FileReqs, requests[r].pc # "done"
  PROVE  /\ requests[r] \in Req /\ requests[r].path \in Paths /\ requests[r].size \in Sizes \cup {0}
         /\ IsAt(requests[r], requests[r].path)
         /\ requests[r].path \notin disturbed => StageAt(requests[r], requests[r].path)
         /\ Fitting(requests[r]) /\ (driver = "s3" => meta = file)
         /\ file \in [Paths -> Lengths] /\ meta \in [Paths -> Lengths] /\ requests \in [FileReqs -> Req]
         /\ driver \in {"local", "s3"} /\ bucketMade \in BOOLEAN /\ known \in BOOLEAN /\ counted \in Nat
  <1>1. requests[r] \in Req /\ requests[r].path \in Paths
    BY DEF FileInv, FileTypes
  <1>2. IsAt(requests[r], requests[r].path)
    BY DEF IsAt
  <1>3. requests[r].path \notin disturbed => StageAt(requests[r], requests[r].path)
    BY <1>1, <1>2 DEF FileInv, PathsHold, PathHolds
  <1>4. Fitting(requests[r]) /\ (driver = "s3" => meta = file)
    BY DEF FileInv, OnDriver
  <1> QED BY <1>1, <1>2, <1>3, <1>4, ReqParts DEF FileInv, FileTypes

\* A request that goes to another stage, with its file there or not.
LEMMA GoesTo ==
  ASSUME NEW s \in Req, NEW pc \in Files!Steps, NEW new, new = [s EXCEPT !.pc = pc]
  PROVE  new \in Req /\ new.pc = pc /\ new.path = s.path /\ new.size = s.size /\ new.api = s.api /\ new.linked = s.linked
  BY DEF Req

LEMMA CreateKeeps == ASSUME FileInv, NEW r \in FileReqs, Files!CreateFile(r) PROVE FileInv'
  <1>1. PICK s, p, new : s = requests[r] /\ p = requests[r].path /\ new = [requests[r] EXCEPT !.pc = "copy", !.linked = TRUE]
    OBVIOUS
  <1>2. /\ requests[r].pc = "create" /\ bucketMade' = TRUE /\ file' = [file EXCEPT ![p] = 0]
        /\ requests' = [requests EXCEPT ![r].pc = "copy", ![r].linked = TRUE]
        /\ driver' = driver /\ known' = known /\ meta' = meta /\ counted' = counted /\ disturbed' = disturbed /\ loopholes' = loopholes
    BY <1>1 DEF Files!CreateFile
  <1>3. /\ s \in Req /\ p \in Paths /\ IsAt(requests[r], p) /\ file \in [Paths -> Lengths] /\ meta \in [Paths -> Lengths]
        /\ requests \in [FileReqs -> Req] /\ known \in BOOLEAN
    BY <1>1, <1>2, Known
  <1>4. new \in Req /\ new.pc = "copy" /\ new.path = p /\ new.size = s.size /\ new.api = s.api /\ new.linked = TRUE
    BY <1>1, <1>3 DEF Req, Files!Steps
  <1>5. requests' = [requests EXCEPT ![r] = new]
    BY <1>1, <1>2, <1>3
  <1>6. file' \in [Paths -> Lengths] /\ file'[p] = 0 /\ \A j \in Paths \ {p} : file'[j] = file[j]
    BY <1>2, <1>3 DEF Lengths
  <1>7. StageAt(new, p)'
    BY <1>4, <1>6 DEF StageAt
  <1>8. ~Landed(requests[r])
    BY <1>2 DEF Landed
  <1>9. requests[r].pc \in UploadSteps
    BY <1>2 DEF UploadSteps
  <1>10. driver # "s3" /\ Fitting(new)
    BY <1>2, <1>4, Known DEF Fitting
  <1> QED BY <1>1, <1>2, <1>3, <1>4, <1>5, <1>6, <1>7, <1>8, <1>9, <1>10, AloneKeeps, ZenonT(40)

LEMMA CopyKeeps == ASSUME FileInv, NEW r \in FileReqs, Files!CopyFile(r) PROVE FileInv'
  <1>1. PICK s, p, new : s = requests[r] /\ p = requests[r].path /\ new = [requests[r] EXCEPT !.pc = "save"]
    OBVIOUS
  <1>2. /\ requests[r].pc = "copy" /\ requests' = [requests EXCEPT ![r].pc = "save"]
        /\ file' = IF s.linked THEN [file EXCEPT ![p] = Files!Larger(file[p], s.size)] ELSE file
        /\ driver' = driver /\ known' = known /\ meta' = meta /\ counted' = counted /\ disturbed' = disturbed
        /\ loopholes' = loopholes /\ bucketMade' = bucketMade
    BY <1>1 DEF Files!CopyFile, Files!Goto
  <1>3. /\ s \in Req /\ p \in Paths /\ IsAt(requests[r], p) /\ file \in [Paths -> Lengths] /\ meta \in [Paths -> Lengths]
        /\ requests \in [FileReqs -> Req] /\ known \in BOOLEAN /\ bucketMade \in BOOLEAN /\ s.size \in Sizes \cup {0}
        /\ p \notin disturbed => StageAt(s, p)
    BY <1>1, <1>2, Known
  <1>4. new \in Req /\ new.pc = "save" /\ new.path = p /\ new.size = s.size /\ new.api = s.api
    BY <1>1, <1>3, GoesTo DEF Files!Steps
  <1>5. requests' = [requests EXCEPT ![r] = new]
    BY <1>1, <1>2, <1>3
  <1>6. PICK n : n = Files!Larger(file[p], s.size)
    OBVIOUS
  <1>7. n \in {file[p], s.size} /\ n \in Lengths /\ (file[p] = 0 => n = s.size)
    <2>1. file[p] \in Lengths /\ s.size \in Lengths /\ s.size \in Nat /\ file[p] \in Int
      BY <1>3, LengthsAre
    <2>2. n \in {file[p], s.size} /\ n >= s.size
      BY <1>6, <2>1 DEF Files!Larger
    <2>3. n \in Lengths
      BY <2>1, <2>2
    <2>4. file[p] = 0 => n = s.size
      BY <2>1, <2>2
    <2> QED BY <2>2, <2>3, <2>4
  <1>8. file' \in [Paths -> Lengths] /\ file'[p] \in {file[p], n} /\ (s.linked => file'[p] = n) /\ \A j \in Paths \ {p} : file'[j] = file[j]
    <2>1. CASE s.linked
      <3>1. file' = [file EXCEPT ![p] = n]
        BY <1>2, <1>6, <2>1
      <3> QED BY <1>3, <1>7, <3>1
    <2>2. CASE ~s.linked
      BY <1>2, <1>3, <2>2
    <2> QED BY <2>1, <2>2
  <1>9. p \notin disturbed => StageAt(new, p)'
    <2>1. p \notin disturbed => s.linked /\ file[p] = 0
      BY <1>1, <1>2, <1>3 DEF StageAt
    <2>2. p \notin disturbed => file'[p] = new.size
      BY <1>4, <1>7, <1>8, <2>1
    <2> QED BY <1>4, <2>2 DEF StageAt
  <1>10. ~Landed(requests[r]) /\ requests[r].pc \in UploadSteps
    BY <1>2 DEF Landed, UploadSteps
  <1>11. file'[p] \in {file[p], requests[r].size}
    BY <1>1, <1>7, <1>8
  <1>12. driver # "s3" /\ Fitting(new)
    BY <1>2, <1>4, Known DEF Fitting
  <1> QED BY <1>1, <1>2, <1>3, <1>4, <1>5, <1>8, <1>9, <1>10, <1>11, <1>12, AloneKeeps

LEMMA SaveKeeps == ASSUME FileInv, NEW r \in FileReqs, Files!SaveMetadata(r) PROVE FileInv'
  <1>1. PICK s, p, new : s = requests[r] /\ p = requests[r].path /\ new = [requests[r] EXCEPT !.pc = "meter"]
    OBVIOUS
  <1>2. /\ requests[r].pc = "save" /\ requests' = [requests EXCEPT ![r].pc = "meter"] /\ meta' = [meta EXCEPT ![p] = s.size]
        /\ driver' = driver /\ known' = known /\ file' = file /\ counted' = counted /\ disturbed' = disturbed
        /\ loopholes' = loopholes /\ bucketMade' = bucketMade
    BY <1>1 DEF Files!SaveMetadata, Files!Goto
  <1>3. /\ s \in Req /\ p \in Paths /\ IsAt(requests[r], p) /\ file \in [Paths -> Lengths] /\ meta \in [Paths -> Lengths]
        /\ requests \in [FileReqs -> Req] /\ known \in BOOLEAN /\ bucketMade \in BOOLEAN /\ s.size \in Sizes \cup {0}
        /\ p \notin disturbed => StageAt(s, p)
    BY <1>1, <1>2, Known
  <1>4. new \in Req /\ new.pc = "meter" /\ new.path = p /\ new.size = s.size /\ new.api = s.api
    BY <1>1, <1>3, GoesTo DEF Files!Steps
  <1>5. requests' = [requests EXCEPT ![r] = new]
    BY <1>1, <1>2, <1>3
  <1>6. meta' \in [Paths -> Lengths] /\ meta'[p] = s.size /\ \A j \in Paths \ {p} : meta'[j] = meta[j]
    BY <1>2, <1>3, LengthsAre
  <1>7. p \notin disturbed => StageAt(new, p)'
    BY <1>1, <1>2, <1>3, <1>4, <1>6 DEF StageAt
  <1>8. requests[r].pc \in UploadSteps
    BY <1>2 DEF UploadSteps
  <1>9. driver # "s3" /\ Fitting(new)
    BY <1>2, <1>4, Known DEF Fitting
  <1> QED BY <1>1, <1>2, <1>3, <1>4, <1>5, <1>6, <1>7, <1>8, <1>9, AloneKeeps

LEMMA BucketKeeps == ASSUME FileInv, NEW r \in FileReqs, Files!EnsureBucket(r) PROVE FileInv'
  <1>1. PICK s, p, new : s = requests[r] /\ p = requests[r].path /\ new = [requests[r] EXCEPT !.pc = "put"]
    OBVIOUS
  <1>2. /\ requests[r].pc = "bucket" /\ requests' = [requests EXCEPT ![r].pc = "put"] /\ meta' = meta
        /\ driver' = driver /\ known' = TRUE /\ file' = file /\ counted' = counted /\ disturbed' = disturbed
        /\ loopholes' = loopholes /\ bucketMade' \in BOOLEAN
    BY <1>1 DEF Files!EnsureBucket, Files!Goto
  <1>3. /\ s \in Req /\ p \in Paths /\ IsAt(requests[r], p) /\ file \in [Paths -> Lengths] /\ meta \in [Paths -> Lengths]
        /\ requests \in [FileReqs -> Req] /\ (p \notin disturbed => StageAt(s, p))
    BY <1>1, <1>2, Known
  <1>4. new \in Req /\ new.pc = "put" /\ new.path = p /\ new.size = s.size /\ new.api = s.api
    BY <1>1, <1>3, GoesTo DEF Files!Steps
  <1>5. requests' = [requests EXCEPT ![r] = new]
    BY <1>1, <1>2, <1>3
  <1>6. p \notin disturbed => StageAt(new, p)'
    BY <1>1, <1>2, <1>3, <1>4 DEF StageAt, WholeAt, Files!Absent
  <1>7. requests[r].pc \in UploadSteps /\ ~Landed(requests[r])
    BY <1>2 DEF UploadSteps, Landed
  <1>8. Fitting(new) /\ (driver = "s3" => meta' = file')
    BY <1>2, <1>4, Known DEF Fitting
  <1> QED BY <1>1, <1>2, <1>3, <1>4, <1>5, <1>6, <1>7, <1>8, AloneKeeps

LEMMA PutKeeps == ASSUME FileInv, NEW r \in FileReqs, Files!PutObject(r) PROVE FileInv'
  <1>1. PICK s, p, new : s = requests[r] /\ p = requests[r].path /\ new = [requests[r] EXCEPT !.pc = "meter"]
    OBVIOUS
  <1>2. /\ requests[r].pc = "put" /\ driver' = driver /\ known' = known /\ counted' = counted /\ disturbed' = disturbed
        /\ loopholes' = loopholes /\ bucketMade' = bucketMade
    BY <1>1 DEF Files!PutObject
  <1>3. /\ s \in Req /\ p \in Paths /\ IsAt(requests[r], p) /\ file \in [Paths -> Lengths] /\ meta \in [Paths -> Lengths]
        /\ requests \in [FileReqs -> Req] /\ known \in BOOLEAN /\ bucketMade \in BOOLEAN /\ s.size \in Sizes \cup {0}
        /\ p \notin disturbed => StageAt(s, p)
        /\ driver = "s3" /\ meta = file
    BY <1>1, <1>2, Known DEF Fitting
  <1>4. requests[r].pc \in UploadSteps /\ ~Landed(requests[r])
    BY <1>2 DEF UploadSteps, Landed
  <1>5. CASE bucketMade
    <2>1. /\ file' = [file EXCEPT ![p] = s.size] /\ meta' = [file EXCEPT ![p] = s.size]
          /\ requests' = [requests EXCEPT ![r].pc = "meter"]
      BY <1>1, <1>5 DEF Files!PutObject, Files!Goto
    <2>2. new \in Req /\ new.pc = "meter" /\ new.path = p /\ new.size = s.size /\ new.api = s.api
      BY <1>1, <1>3, GoesTo DEF Files!Steps
    <2>3. requests' = [requests EXCEPT ![r] = new]
      BY <1>1, <1>3, <2>1
    <2>4. \A j \in Paths : meta[j] = file[j]
      BY <1>3
    <2>5. /\ file' \in [Paths -> Lengths] /\ file'[p] = s.size /\ meta'[p] = s.size /\ meta' = file'
          /\ \A j \in Paths \ {p} : file'[j] = file[j] /\ meta'[j] = meta[j]
      BY <1>3, <2>1, <2>4, LengthsAre
    <2>6. StageAt(new, p)'
      BY <2>2, <2>5 DEF StageAt
    <2>7. Fitting(new)
      BY <1>3, <2>2 DEF Fitting
    <2> QED BY <1>1, <1>2, <1>3, <1>4, <2>2, <2>3, <2>5, <2>6, <2>7, AloneKeeps
  <1>6. CASE ~bucketMade
    <2>1. file' = file /\ meta' = meta /\ requests' = [requests EXCEPT ![r] = Files!NoRequest]
      BY <1>1, <1>6 DEF Files!PutObject, Files!Done
    <2>2. p \notin disturbed => WholeAt(p)'
      BY <1>1, <1>2, <1>3, <2>1 DEF StageAt, WholeAt, Files!Absent
    <2>3. Files!NoRequest.pc \notin UploadSteps
      BY NoRequestIs DEF UploadSteps
    <2>4. Fitting(Files!NoRequest)
      BY NoRequestIs DEF Fitting
    <2> QED BY <1>1, <1>2, <1>3, <1>4, <2>1, <2>2, <2>3, <2>4, NoRequestIs, AloneKeeps
  <1> QED BY <1>5, <1>6
\* Requests once the file of a path is removed.
LEMMA UnlinkedIs ==
  ASSUME FileInv, NEW p \in Paths, NEW u, u = Files!Unlinked(p)
  PROVE  /\ u \in [FileReqs -> Req]
         /\ \A q \in FileReqs : u[q] = requests[q] \/ (requests[q].path = p /\ u[q] = [requests[q] EXCEPT !.linked = FALSE])
         /\ \A q \in FileReqs : u[q].pc = requests[q].pc /\ u[q].path = requests[q].path /\ u[q].size = requests[q].size /\ u[q].api = requests[q].api
  <1>1. requests \in [FileReqs -> Req]
    BY DEF FileInv, FileTypes
  <1>2. u = [q \in FileReqs |-> IF requests[q].path = p THEN [requests[q] EXCEPT !.linked = FALSE] ELSE requests[q]]
    BY DEF Files!Unlinked
  <1>3. ASSUME NEW q \in FileReqs
        PROVE  /\ u[q] \in Req /\ (u[q] = requests[q] \/ (requests[q].path = p /\ u[q] = [requests[q] EXCEPT !.linked = FALSE]))
               /\ u[q].pc = requests[q].pc /\ u[q].path = requests[q].path /\ u[q].size = requests[q].size /\ u[q].api = requests[q].api
    <2>1. requests[q] \in Req /\ u[q] = IF requests[q].path = p THEN [requests[q] EXCEPT !.linked = FALSE] ELSE requests[q]
      BY <1>1, <1>2
    <2>2. CASE requests[q].path = p
      BY <2>1, <2>2 DEF Req
    <2>3. CASE requests[q].path # p
      BY <2>1, <2>3
    <2> QED BY <2>2, <2>3
  <1>4. \A q \in FileReqs : u[q] \in Req
    BY <1>1, <1>3
  <1> QED BY <1>2, <1>3, <1>4

LEMMA CopyFailsKeeps == ASSUME FileInv, NEW r \in FileReqs, Files!CopyFails(r) PROVE FileInv'
  <1>1. PICK p, u : p = requests[r].path /\ u = Files!Unlinked(requests[r].path)
    OBVIOUS
  <1>2. /\ requests[r].pc = "copy" /\ file' = [file EXCEPT ![p] = Files!Absent] /\ meta' = [meta EXCEPT ![p] = Files!Absent]
        /\ requests' = [u EXCEPT ![r] = Files!NoRequest]
        /\ driver' = driver /\ known' = known /\ counted' = counted /\ disturbed' = disturbed
        /\ loopholes' = loopholes /\ bucketMade' = bucketMade
    BY <1>1 DEF Files!CopyFails, Files!Done
  <1>3. /\ p \in Paths /\ IsAt(requests[r], p) /\ file \in [Paths -> Lengths] /\ meta \in [Paths -> Lengths]
        /\ known \in BOOLEAN /\ bucketMade \in BOOLEAN /\ driver # "s3"
    BY <1>1, <1>2, Known DEF Fitting
  <1>4. /\ u \in [FileReqs -> Req]
        /\ \A q \in FileReqs : u[q] = requests[q] \/ (requests[q].path = p /\ u[q] = [requests[q] EXCEPT !.linked = FALSE])
    <2>1. u = Files!Unlinked(p)
      BY <1>1
    <2>2. /\ u \in [FileReqs -> Req]
          /\ \A q \in FileReqs : u[q] = requests[q] \/ (requests[q].path = p /\ u[q] = [requests[q] EXCEPT !.linked = FALSE])
          /\ \A q \in FileReqs : u[q].pc = requests[q].pc /\ u[q].path = requests[q].path /\ u[q].size = requests[q].size /\ u[q].api = requests[q].api
      BY <1>3, <2>1, UnlinkedIs, SMTT(30)
    <2> QED BY <1>1, <2>2
  <1>5. requests' \in [FileReqs -> Req] /\ requests'[r] = Files!NoRequest /\ \A q \in FileReqs \ {r} : requests'[q] = u[q]
    BY <1>2, <1>4, NoRequestIs
  <1>6. /\ file' \in [Paths -> Lengths] /\ meta' \in [Paths -> Lengths] /\ file'[p] = Files!Absent /\ meta'[p] = Files!Absent
        /\ \A j \in Paths \ {p} : file'[j] = file[j] /\ meta'[j] = meta[j]
    BY <1>2, <1>3, LengthsAre
  <1>7. WholeAt(p)'
    BY <1>6 DEF WholeAt
  <1>8. ~Landed(requests[r]) /\ Fitting(Files!NoRequest) /\ Files!NoRequest.pc \notin UploadSteps
    BY <1>2, NoRequestIs DEF Landed, Fitting, UploadSteps
  <1>9. \A q \in FileReqs \ {r} : \/ requests'[q] = requests[q]
                                  \/ requests[q].path = p /\ requests'[q] = [requests[q] EXCEPT !.linked = FALSE]
    BY <1>4, <1>5
  <1> QED BY <1>2, <1>3, <1>5, <1>6, <1>7, <1>8, <1>9, NoRequestIs, WorkKeeps

LEMMA RemoveKeeps == ASSUME FileInv, NEW r \in FileReqs, Files!RemoveFile(r) PROVE FileInv'
  <1>1. PICK s, p, u, new : s = requests[r] /\ p = requests[r].path /\ u = Files!Unlinked(requests[r].path) /\ new = [u[r] EXCEPT !.pc = "removeMeta"]
    OBVIOUS
  <1>2. /\ requests[r].pc = "remove" /\ file' = [file EXCEPT ![p] = Files!Absent] /\ meta' = meta
        /\ requests' = [u EXCEPT ![r].pc = "removeMeta"]
        /\ driver' = driver /\ known' = known /\ counted' = counted /\ disturbed' = disturbed
        /\ loopholes' = loopholes /\ bucketMade' = bucketMade
    BY <1>1 DEF Files!RemoveFile
  <1>3. /\ p \in Paths /\ IsAt(requests[r], p) /\ file \in [Paths -> Lengths] /\ meta \in [Paths -> Lengths]
        /\ known \in BOOLEAN /\ bucketMade \in BOOLEAN /\ driver # "s3"
    BY <1>1, <1>2, Known DEF Fitting
  <1>4. /\ u \in [FileReqs -> Req]
        /\ \A q \in FileReqs : u[q] = requests[q] \/ (requests[q].path = p /\ u[q] = [requests[q] EXCEPT !.linked = FALSE])
        /\ u[r].pc = s.pc /\ u[r].path = s.path /\ u[r].size = s.size /\ u[r].api = s.api
    <2>1. u = Files!Unlinked(p)
      BY <1>1
    <2>2. /\ u \in [FileReqs -> Req]
          /\ \A q \in FileReqs : u[q] = requests[q] \/ (requests[q].path = p /\ u[q] = [requests[q] EXCEPT !.linked = FALSE])
          /\ \A q \in FileReqs : u[q].pc = requests[q].pc /\ u[q].path = requests[q].path /\ u[q].size = requests[q].size /\ u[q].api = requests[q].api
      BY <1>3, <2>1, UnlinkedIs, SMTT(30)
    <2> QED BY <1>1, <2>2
  <1>5. new \in Req /\ new.pc = "removeMeta" /\ new.path = p /\ new.size = s.size /\ new.api = s.api
    BY <1>1, <1>4, GoesTo DEF Files!Steps
  <1>6. requests' \in [FileReqs -> Req] /\ requests'[r] = new /\ \A q \in FileReqs \ {r} : requests'[q] = u[q]
    BY <1>1, <1>2, <1>4, <1>5
  <1>7. /\ file' \in [Paths -> Lengths] /\ file'[p] = Files!Absent /\ \A j \in Paths \ {p} : file'[j] = file[j]
    BY <1>2, <1>3, LengthsAre
  <1>8. StageAt(new, p)'
    BY <1>5 DEF StageAt
  <1>9. ~Landed(requests[r]) /\ Fitting(new) /\ new.pc \notin UploadSteps
    BY <1>2, <1>3, <1>5 DEF Landed, Fitting, UploadSteps
  <1>10. \A q \in FileReqs \ {r} : \/ requests'[q] = requests[q]
                                   \/ requests[q].path = p /\ requests'[q] = [requests[q] EXCEPT !.linked = FALSE]
    BY <1>4, <1>6
  <1> QED BY <1>1, <1>2, <1>3, <1>5, <1>6, <1>7, <1>8, <1>9, <1>10, WorkKeeps

\* The end of a request: an upload is metered, a deletion takes the metadata, a download opens.
LEMMA EndKeeps ==
  ASSUME FileInv, NEW r \in FileReqs, Files!MeterUpload(r) \/ Files!RemoveMetadata(r) \/ Files!OpenFile(r) PROVE FileInv'
  <1>1. PICK p : p = requests[r].path
    OBVIOUS
  <1>2. /\ requests[r].pc \in {"meter", "removeMeta", "open"} /\ file' = file /\ requests' = [requests EXCEPT ![r] = Files!NoRequest]
        /\ driver' = driver /\ known' = known /\ disturbed' = disturbed /\ loopholes' = loopholes /\ bucketMade' = bucketMade
    BY DEF Files!MeterUpload, Files!RemoveMetadata, Files!OpenFile, Files!Done
  <1>3. /\ p \in Paths /\ IsAt(requests[r], p) /\ file \in [Paths -> Lengths] /\ meta \in [Paths -> Lengths]
        /\ known \in BOOLEAN /\ bucketMade \in BOOLEAN /\ counted \in Nat /\ requests[r] \in Req
        /\ Fitting(requests[r]) /\ (driver = "s3" => meta = file) /\ (p \notin disturbed => StageAt(requests[r], p))
    BY <1>1, <1>2, Known
  <1>4. Fitting(Files!NoRequest) /\ Files!NoRequest.pc \notin UploadSteps
    BY NoRequestIs DEF Fitting, UploadSteps
  <1>5. CASE Files!MeterUpload(r)
    <2>1. requests[r].pc = "meter" /\ meta' = meta /\ counted' = IF requests[r].api THEN counted + requests[r].size ELSE counted
      BY <1>5 DEF Files!MeterUpload
    <2>2. counted' = counted + (IF requests[r].api THEN requests[r].size ELSE 0)
      BY <1>3, <2>1
    <2>3. p \notin disturbed => WholeAt(p)'
      BY <1>2, <1>3, <2>1 DEF StageAt, WholeAt, Files!Absent
    <2> QED BY <1>2, <1>3, <1>4, <2>1, <2>2, <2>3, NoRequestIs, AloneKeeps
  <1>6. CASE Files!OpenFile(r)
    <2>1. requests[r].pc = "open" /\ meta' = meta /\ counted' = counted
      BY <1>6 DEF Files!OpenFile
    <2>2. p \notin disturbed => WholeAt(p)'
      BY <1>2, <1>3, <2>1 DEF StageAt, WholeAt, Files!Absent
    <2>3. ~Landed(requests[r])
      BY <2>1 DEF Landed
    <2> QED BY <1>2, <1>3, <1>4, <2>1, <2>2, <2>3, NoRequestIs, AloneKeeps
  <1>7. CASE Files!RemoveMetadata(r)
    <2>1. requests[r].pc = "removeMeta" /\ meta' = [meta EXCEPT ![p] = Files!Absent] /\ counted' = counted
      BY <1>1, <1>7 DEF Files!RemoveMetadata
    <2>2. meta' \in [Paths -> Lengths] /\ meta'[p] = Files!Absent /\ \A j \in Paths \ {p} : meta'[j] = meta[j]
      BY <1>3, <2>1, LengthsAre
    <2>3. WholeAt(p)'
      BY <2>2 DEF WholeAt
    <2>4. ~Landed(requests[r]) /\ driver # "s3"
      BY <1>3, <2>1 DEF Landed, Fitting
    <2> QED BY <1>2, <1>3, <1>4, <2>1, <2>2, <2>3, <2>4, NoRequestIs, AloneKeeps
  <1> QED BY <1>5, <1>6, <1>7

\* A path whose file comes or goes in one step: its requests, but for one, are disturbed.
LEMMA StartPaths ==
  ASSUME FileInv, NEW r \in FileReqs, NEW new \in Req, NEW p \in Paths, requests[r].pc = "done",
         requests' = [requests EXCEPT ![r] = new], Files!Disturb(r, p),
         \A j \in Paths \ {p} : file'[j] = file[j] /\ meta'[j] = meta[j],
         \/ new.pc = "done"
         \/ new.pc # "done" /\ new.path = p,
         WholeAt(p) => WholeAt(p)',
         WholeAt(p) /\ new.pc # "done" => StageAt(new, p)'
  PROVE  PathsHold' /\ disturbed' \subseteq Paths
  <1>1. requests \in [FileReqs -> Req] /\ disturbed \subseteq Paths
    BY DEF FileInv, FileTypes
  <1>2. disturbed' = IF \E q \in FileReqs \ {r} : IsAt(requests[q], p) THEN disturbed \cup {p} ELSE disturbed
    BY DEF Files!Disturb, Files!Busy, IsAt
  <1>3. requests'[r] = new /\ \A q \in FileReqs \ {r} : requests'[q] = requests[q]
    BY <1>1
  <1>4. ASSUME NEW j \in Paths \ disturbed' PROVE PathHolds(j)'
    <2>1. PathHolds(j)
      BY <1>2, <1>4 DEF FileInv, PathsHold
    <2>2. \A q \in FileReqs \ {r} : IsAt(requests'[q], j) <=> IsAt(requests[q], j)
      BY <1>3 DEF IsAt
    <2>3. ~IsAt(requests[r], j)
      BY DEF IsAt
    <2>4. CASE j # p
      <3>1. ~IsAt(requests'[r], j)
        BY <1>3, <2>4 DEF IsAt
      <3>2. file'[j] = file[j] /\ meta'[j] = meta[j]
        BY <2>4
      <3>3. \A q, t \in FileReqs : IsAt(requests'[q], j) /\ IsAt(requests'[t], j) => q = t
        BY <2>1, <2>2, <2>3, <3>1 DEF PathHolds
      <3>4. (\A q \in FileReqs : ~IsAt(requests'[q], j)) => WholeAt(j)'
        BY <2>1, <2>2, <2>3, <3>2 DEF PathHolds, WholeAt, Files!Absent
      <3>5. ASSUME NEW q \in FileReqs, IsAt(requests'[q], j) PROVE StageAt(requests[q], j)'
        <4>1. IsAt(requests[q], j) /\ requests'[q] = requests[q]
          BY <1>3, <2>2, <3>1, <3>5
        <4>2. StageAt(requests[q], j)
          BY <2>1, <4>1 DEF PathHolds
        <4> QED BY <3>2, <4>1, <4>2 DEF StageAt, WholeAt, Files!Absent
      <3> QED BY <3>3, <3>4, <3>5 DEF PathHolds, IsAt
    <2>5. CASE j = p
      <3>1. \A q \in FileReqs : ~IsAt(requests[q], p)
        BY <1>2, <1>4, <2>3, <2>5
      <3>2. WholeAt(p)
        BY <2>1, <2>5, <3>1 DEF PathHolds
      <3>3. \A q \in FileReqs : IsAt(requests'[q], p) => q = r
        BY <2>2, <2>5, <3>1
      <3>4. new.pc # "done" => StageAt(new, p)'
        BY <3>2
      <3>5. ASSUME NEW q \in FileReqs, IsAt(requests'[q], p) PROVE StageAt(requests[q], p)'
        <4>1. requests'[q] = new /\ new.pc # "done"
          BY <1>3, <3>3, <3>5 DEF IsAt
        <4> QED BY <3>4, <4>1 DEF StageAt
      <3> QED BY <2>5, <3>2, <3>3, <3>5 DEF PathHolds, IsAt
    <2> QED BY <2>4, <2>5
  <1> QED BY <1>1, <1>2, <1>4 DEF PathsHold

\* A request that arrives.
LEMMA StartKeeps ==
  ASSUME FileInv, NEW r \in FileReqs, NEW new \in Req, NEW p \in Paths, requests[r].pc = "done",
         requests' = [requests EXCEPT ![r] = new], Files!Disturb(r, p), new.pc # "done", new.path = p,
         WholeAt(p) => StageAt(new, p), Fitting(new), ~Landed(new),
         IF new.api THEN counted + new.size <= Quota /\ counted + Files!Pending + new.size <= MaxMetered
         ELSE new.pc \in UploadSteps => "console" \in loopholes',
         loopholes' \subseteq {"overlap", "console", "crash"}, loopholes \subseteq loopholes',
         new.api /\ (\E q \in FileReqs : requests[q].api) => loopholes' # {},
         driver' = driver, bucketMade' = bucketMade, known' = known, file' = file, meta' = meta, counted' = counted
  PROVE  FileInv'
  <1>1. FileTypes /\ requests \in [FileReqs -> Req] /\ counted \in Nat
    BY DEF FileInv, FileTypes
  <1>2. requests' \in [FileReqs -> Req] /\ requests'[r] = new /\ \A q \in FileReqs \ {r} : requests'[q] = requests[q]
    BY <1>1
  <1>3. requests[r] = Files!NoRequest /\ ~requests[r].api
    BY <1>1, NoRequestIs DEF FileTypes
  <1>4. PathsHold' /\ disturbed' \subseteq Paths
    <2>1. WholeAt(p) => WholeAt(p)'
      BY DEF WholeAt, Files!Absent
    <2>2. WholeAt(p) => StageAt(new, p)'
      BY DEF StageAt, WholeAt, Files!Absent
    <2> QED BY <2>1, <2>2, StartPaths
  <1>5. FileTypes'
    <2>1. \A q \in FileReqs : IF requests'[q].pc = "done" THEN requests'[q] = Files!NoRequest' ELSE requests'[q].path \in Paths
      BY <1>1, <1>2 DEF FileTypes, Files!NoRequest
    <2>2. /\ file' \in [Paths -> Lengths'] /\ meta' \in [Paths -> Lengths'] /\ requests' \in [FileReqs -> Req']
      BY <1>1, <1>2 DEF FileTypes, Lengths, Req, Files!Absent, Files!Steps
    <2> QED BY <1>1, <1>4, <2>1, <2>2 DEF FileTypes
  <1>6. OnDriver'
    BY <1>2 DEF FileInv, OnDriver, Fitting
  <1>7. \A q \in FileReqs \ {r} : requests'[q].api = requests[q].api /\ requests'[q].size = requests[q].size
    BY <1>2
  <1>8. PICK c, d, u, v \in Nat :
          /\ c = Files!Sum(Promised) /\ d = Files!Sum(Promised)' /\ d + u = c + v /\ IsFiniteSet(Files!Pairs(Promised))'
          /\ u = (IF requests[r].api THEN requests[r].size ELSE 0)
          /\ v = (IF requests'[r].api THEN requests'[r].size ELSE 0)
    BY <1>2, <1>7, PromisedMoves
  <1>9. Files!Pending = c
    BY <1>8 DEF Files!Pending, Promised
  <1>10. Metered'
    <2>1. counted + c <= MaxMetered
      BY <1>8 DEF FileInv, Metered
    <2>2. u = 0 /\ v = IF new.api THEN new.size ELSE 0
      BY <1>2, <1>3, <1>8
    <2>3. d = c + v
      BY <1>8, <2>2
    <2>4. counted + d <= MaxMetered
      <3>1. CASE new.api
        <4>1. counted + c + new.size <= MaxMetered /\ v = new.size
          BY <1>9, <2>2, <3>1
        <4> QED BY <1>1, <1>8, <2>3, <4>1, FilesParameters
      <3>2. CASE ~new.api
        <4>1. v = 0
          BY <2>2, <3>2
        <4> QED BY <1>1, <1>8, <2>1, <2>3, <4>1
      <3> QED BY <3>1, <3>2
    <2> QED BY <1>8, <2>4 DEF Metered
  <1>11. Files!Sum(Stored)' = Files!Sum(Stored) /\ IsFiniteSet(Files!Pairs(Stored))'
    BY DEF FileInv, Finite, Stored, Files!Sum, Files!Pairs, Files!Larger
  <1>12. ASSUME loopholes' = {} PROVE Covered'
    <2>1. Covered
      BY <1>12 DEF FileInv
    <2>2. \A q \in FileReqs : requests'[q].api => (requests[q].api \/ q = r)
      BY <1>2
    <2>3. \A q, t \in FileReqs : requests'[q].api /\ requests'[t].api => q = t
      BY <1>2, <1>12, <2>1, <2>2 DEF Covered
    <2>4. \A q \in FileReqs : requests'[q].pc \in UploadSteps => requests'[q].api
      BY <1>2, <1>12, <2>1 DEF Covered
    <2>5. \A q \in FileReqs : requests'[q].api => counted + requests'[q].size <= Quota
      BY <1>2, <2>1 DEF Covered
    <2>6. \A q \in FileReqs : Landed(requests'[q]) => Landed(requests[q]) /\ requests'[q] = requests[q]
      BY <1>2
    <2>7. ~Landed(requests[r])
      BY <1>3 DEF Landed
    <2>8. (\A q \in FileReqs : ~Landed(requests'[q])) => Files!Sum(Stored) <= counted
      <3>1. \A q \in FileReqs \ {r} : requests'[q] = requests[q]
        BY <1>2
      <3> QED BY <2>1, <2>7, <3>1 DEF Covered
    <2>9. \A q \in FileReqs : Landed(requests'[q]) => Files!Sum(Stored) <= counted + requests'[q].size
      BY <2>1, <2>6 DEF Covered
    <2> QED BY <1>11, <2>1, <2>3, <2>4, <2>5, <2>8, <2>9 DEF Covered, Landed, UploadSteps
  <1> QED BY <1>4, <1>5, <1>6, <1>8, <1>10, <1>11, <1>12 DEF FileInv, Finite
LEMMA UploadKeeps ==
  ASSUME FileInv, NEW r \in FileReqs, NEW p \in Paths, NEW size \in Sizes,
         Files!handleUpload(r, p, size) \/ Files!handleUploadFile(r, p, size)
  PROVE  FileInv'
  <1>1. PICK api \in BOOLEAN : /\ api => Files!handleUpload(r, p, size)
                               /\ ~api => Files!handleUploadFile(r, p, size)
    <2>1. CASE Files!handleUpload(r, p, size)
      BY <2>1
    <2>2. CASE Files!handleUploadFile(r, p, size)
      BY <2>2
    <2> QED BY <2>1, <2>2
  <1>2. PICK new : new = [pc |-> IF driver = "local" THEN "create" ELSE "bucket", path |-> p, size |-> size, api |-> api, linked |-> FALSE]
    OBVIOUS
  <1>3. /\ requests[r].pc = "done" /\ requests' = [requests EXCEPT ![r] = new] /\ Files!Disturb(r, p)
        /\ driver' = driver /\ bucketMade' = bucketMade /\ known' = known /\ file' = file /\ meta' = meta /\ counted' = counted
    <2>1. CASE api
      <3>1. Files!handleUpload(r, p, size)
        BY <1>1, <2>1
      <3> QED BY <1>2, <2>1, <3>1 DEF Files!handleUpload, Files!Upload, Files!Start
    <2>2. CASE ~api
      <3>1. Files!handleUploadFile(r, p, size)
        BY <1>1, <2>2
      <3>2. api = FALSE
        BY <2>2
      <3> QED BY <1>2, <3>1, <3>2 DEF Files!handleUploadFile, Files!Upload, Files!Start
    <2> QED BY <2>1, <2>2
  <1>4. loopholes \subseteq {"overlap", "console", "crash"} /\ driver \in {"local", "s3"}
    BY DEF FileInv, FileTypes
  <1>5. new \in Req /\ new.pc \in {"create", "bucket"} /\ new.path = p /\ new.size = size
    BY <1>2 DEF Req, Files!Steps
  <1>6. new.api <=> api
    BY <1>2
  <1>7. Fitting(new)
    BY <1>2, <1>4 DEF Fitting
  <1>8. WholeAt(p) => StageAt(new, p)
    BY <1>5 DEF StageAt
  <1>9. ~Landed(new) /\ new.pc # "done"
    BY <1>5 DEF Landed
  <1>10. CASE api
    <2>1. /\ counted + size <= Quota /\ counted + Files!Pending + size <= MaxMetered
          /\ loopholes' = IF \E q \in FileReqs : requests[q].api THEN loopholes \cup {"overlap"} ELSE loopholes
      BY <1>1, <1>10 DEF Files!handleUpload, Files!Admitted
    <2>2. loopholes' \subseteq {"overlap", "console", "crash"} /\ loopholes \subseteq loopholes'
      BY <1>4, <2>1
    <2>3. (\E q \in FileReqs : requests[q].api) => loopholes' # {}
      BY <2>1
    <2> QED BY <1>3, <1>5, <1>6, <1>7, <1>8, <1>9, <1>10, <2>1, <2>2, <2>3, StartKeeps
  <1>11. CASE ~api
    <2>1. loopholes' = loopholes \cup {"console"}
      BY <1>1, <1>11 DEF Files!handleUploadFile
    <2>2. loopholes' \subseteq {"overlap", "console", "crash"} /\ loopholes \subseteq loopholes' /\ "console" \in loopholes'
      BY <1>4, <2>1
    <2> QED BY <1>3, <1>5, <1>6, <1>7, <1>8, <1>9, <1>11, <2>2, StartKeeps
  <1> QED BY <1>10, <1>11

LEMMA DownloadKeeps ==
  ASSUME FileInv, NEW r \in FileReqs, NEW p \in Paths, Files!handleDownload(r, p) PROVE FileInv'
  <1>1. PICK new : new = [pc |-> "open", path |-> p, size |-> meta[p], api |-> FALSE, linked |-> FALSE]
    OBVIOUS
  <1>2. /\ requests[r].pc = "done" /\ requests' = [requests EXCEPT ![r] = new] /\ Files!Disturb(r, p) /\ meta[p] # Files!Absent
        /\ driver' = driver /\ bucketMade' = bucketMade /\ known' = known /\ file' = file /\ meta' = meta /\ counted' = counted
        /\ loopholes' = loopholes
    BY <1>1 DEF Files!handleDownload, Files!Download, Files!Start, Files!Listed
  <1>3. loopholes \subseteq {"overlap", "console", "crash"} /\ meta[p] \in Lengths
    BY DEF FileInv, FileTypes
  <1>4. meta[p] \in Sizes \cup {0}
    BY <1>2, <1>3 DEF Lengths
  <1>5. new \in Req /\ new.pc = "open" /\ new.path = p /\ new.size = meta[p] /\ ~new.api
    BY <1>1, <1>4 DEF Req, Files!Steps
  <1>6. Fitting(new) /\ ~Landed(new) /\ new.pc # "done" /\ new.pc \notin UploadSteps
    BY <1>5 DEF Fitting, Landed, UploadSteps
  <1>7. WholeAt(p) => StageAt(new, p)
    BY <1>2, <1>5 DEF StageAt, WholeAt
  <1> QED BY <1>2, <1>3, <1>5, <1>6, <1>7, StartKeeps

\* Files that go in one step: the counters stay.
LEMMA LessStored ==
  ASSUME FileInv, requests' = requests, loopholes' = loopholes, counted' = counted,
         NEW p \in Paths, file' = [file EXCEPT ![p] = Files!Absent]
  PROVE  Finite' /\ Metered' /\ (loopholes' = {} => Covered')
  <1>1. file \in [Paths -> Lengths] /\ counted \in Nat
    BY DEF FileInv, FileTypes
  <1>2. file' \in [Paths -> Lengths] /\ file'[p] = Files!Absent /\ \A j \in Paths \ {p} : file'[j] = file[j]
    BY <1>1, LengthsAre
  <1>3. PICK a, b, x, y \in Nat :
          /\ a = Files!Sum(Stored) /\ b = Files!Sum(Stored)' /\ b + x = a + y /\ IsFiniteSet(Files!Pairs(Stored))'
          /\ x = (IF file[p] = Files!Absent THEN 0 ELSE file[p])
          /\ y = (IF file'[p] = Files!Absent THEN 0 ELSE file'[p])
    BY <1>2, StoredMoves
  <1>4. b <= a
    BY <1>2, <1>3
  <1>5. Files!Sum(Promised)' = Files!Sum(Promised) /\ IsFiniteSet(Files!Pairs(Promised))'
    BY DEF FileInv, Finite, Promised, Files!Sum, Files!Pairs
  <1>6. Metered'
    BY <1>5 DEF FileInv, Metered
  <1>7. ASSUME loopholes = {} PROVE Covered'
    <2>1. Covered
      BY <1>7 DEF FileInv
    <2>2. \A q \in FileReqs : requests[q].size \in Nat
      BY ReqParts DEF FileInv, FileTypes
    <2>3. (\A q \in FileReqs : ~Landed(requests[q])) => b <= counted
      BY <1>1, <1>3, <1>4, <2>1 DEF Covered
    <2>4. \A q \in FileReqs : Landed(requests[q]) => b <= counted + requests[q].size
      BY <1>1, <1>3, <1>4, <2>1, <2>2 DEF Covered
    <2> QED BY <1>3, <2>1, <2>3, <2>4 DEF Covered, Landed, UploadSteps
  <1> QED BY <1>3, <1>5, <1>6, <1>7 DEF Finite

LEMMA DeleteFileKeeps ==
  ASSUME FileInv, NEW r \in FileReqs, NEW p \in Paths, Files!handleStorageDelete(r, p) PROVE FileInv'
  <1>1. /\ driver' = driver /\ bucketMade' = bucketMade /\ known' = known /\ counted' = counted /\ loopholes' = loopholes
        /\ requests[r].pc = "done" /\ Files!Disturb(r, p)
    BY DEF Files!handleStorageDelete, Files!Start
  <1>2. FileTypes /\ requests \in [FileReqs -> Req] /\ file \in [Paths -> Lengths] /\ meta \in [Paths -> Lengths]
    BY DEF FileInv, FileTypes
  <1>3. CASE driver = "local"
    <2>1. PICK new : new = [pc |-> "remove", path |-> p, size |-> 0, api |-> FALSE, linked |-> FALSE]
      OBVIOUS
    <2>2. requests' = [requests EXCEPT ![r] = new] /\ file' = file /\ meta' = meta
      BY <1>3, <2>1 DEF Files!handleStorageDelete, Files!Start
    <2>3. new \in Req /\ new.pc = "remove" /\ new.path = p /\ ~new.api
      BY <2>1 DEF Req, Files!Steps
    <2>4. Fitting(new) /\ ~Landed(new) /\ new.pc # "done" /\ new.pc \notin UploadSteps
      BY <1>3, <2>3 DEF Fitting, Landed, UploadSteps
    <2>5. WholeAt(p) => StageAt(new, p)
      BY <2>3 DEF StageAt
    <2>6. loopholes \subseteq {"overlap", "console", "crash"}
      BY <1>2 DEF FileTypes
    <2> QED BY <1>1, <2>2, <2>3, <2>4, <2>5, <2>6, StartKeeps
  <1>4. CASE driver # "local"
    <2>1. /\ file' = [file EXCEPT ![p] = Files!Absent] /\ meta' = [meta EXCEPT ![p] = Files!Absent] /\ requests' = requests
      BY <1>4 DEF Files!handleStorageDelete
    <2>2. /\ file' \in [Paths -> Lengths] /\ meta' \in [Paths -> Lengths] /\ file'[p] = Files!Absent /\ meta'[p] = Files!Absent
          /\ \A j \in Paths \ {p} : file'[j] = file[j] /\ meta'[j] = meta[j]
      BY <1>2, <2>1, LengthsAre
    <2>3. WholeAt(p)'
      BY <2>2 DEF WholeAt
    <2>4. PICK new : new = requests[r]
      OBVIOUS
    <2>5. requests' = [requests EXCEPT ![r] = new] /\ new.pc = "done" /\ new \in Req
      BY <1>1, <1>2, <2>1, <2>4
    <2>6. PathsHold' /\ disturbed' \subseteq Paths
      BY <1>1, <2>2, <2>3, <2>5, StartPaths
    <2>7. Finite' /\ Metered' /\ (loopholes' = {} => Covered')
      BY <1>1, <2>1, LessStored
    <2>8. FileTypes'
      <3>1. \A q \in FileReqs : IF requests'[q].pc = "done" THEN requests'[q] = Files!NoRequest' ELSE requests'[q].path \in Paths
        BY <1>2, <2>1 DEF FileTypes, Files!NoRequest
      <3>2. /\ file' \in [Paths -> Lengths'] /\ meta' \in [Paths -> Lengths'] /\ requests' \in [FileReqs -> Req']
        BY <1>2, <2>1, <2>2 DEF Lengths, Req, Files!Absent, Files!Steps
      <3> QED BY <1>1, <1>2, <2>6, <3>1, <3>2 DEF FileTypes
    <2>9. OnDriver'
      <3>1. driver = "s3" => meta = file
        BY DEF FileInv, OnDriver
      <3>2. driver = "s3" => meta' = file'
        BY <2>1, <3>1
      <3> QED BY <1>1, <2>1, <3>2 DEF FileInv, OnDriver, Fitting
    <2> QED BY <2>6, <2>7, <2>8, <2>9 DEF FileInv
  <1> QED BY <1>3, <1>4

LEMMA DeleteBucketKeeps == ASSUME FileInv, Files!handleDeleteBucket PROVE FileInv'
  <1>1. /\ bucketMade' = FALSE /\ file' = [p \in Paths |-> Files!Absent] /\ meta' = file'
        /\ requests' = [r \in FileReqs |-> [requests[r] EXCEPT !.linked = FALSE]]
        /\ disturbed' = disturbed \cup {p \in Paths : \E r \in FileReqs : IsAt(requests[r], p)}
        /\ driver' = driver /\ known' = known /\ counted' = counted /\ loopholes' = loopholes
    BY DEF Files!handleDeleteBucket, Files!Busy, IsAt
  <1>2. FileTypes /\ requests \in [FileReqs -> Req] /\ counted \in Nat
    BY DEF FileInv, FileTypes
  <1>3. ASSUME NEW q \in FileReqs
        PROVE  /\ requests'[q] \in Req /\ requests'[q].pc = requests[q].pc /\ requests'[q].path = requests[q].path
               /\ requests'[q].api = requests[q].api /\ requests'[q].size = requests[q].size
               /\ requests[q].pc = "done" => requests'[q] = requests[q]
    <2>1. requests[q] \in Req /\ requests'[q] = [requests[q] EXCEPT !.linked = FALSE]
      BY <1>1, <1>2
    <2>2. requests[q].pc = "done" => requests[q].linked = FALSE
      BY <1>2 DEF FileTypes, Files!NoRequest
    <2>3. requests[q].pc = "done" => requests'[q] = requests[q]
      BY <2>1, <2>2 DEF Req
    <2>4. /\ requests'[q] \in Req /\ requests'[q].pc = requests[q].pc /\ requests'[q].path = requests[q].path
          /\ requests'[q].api = requests[q].api /\ requests'[q].size = requests[q].size
      BY <2>1 DEF Req
    <2> QED BY <2>3, <2>4
  <1>4. requests' \in [FileReqs -> Req]
    BY <1>1, <1>3
  <1>5. file' \in [Paths -> Lengths] /\ meta' \in [Paths -> Lengths]
    BY <1>1, LengthsAre
  <1>6. FileTypes'
    <2>1. \A q \in FileReqs : IF requests'[q].pc = "done" THEN requests'[q] = Files!NoRequest' ELSE requests'[q].path \in Paths
      BY <1>2, <1>3 DEF FileTypes, Files!NoRequest
    <2>2. /\ file' \in [Paths -> Lengths'] /\ meta' \in [Paths -> Lengths'] /\ requests' \in [FileReqs -> Req']
      BY <1>4, <1>5 DEF Lengths, Req, Files!Absent, Files!Steps
    <2> QED BY <1>1, <1>2, <2>1, <2>2 DEF FileTypes
  <1>7. OnDriver'
    BY <1>1, <1>3 DEF FileInv, OnDriver, Fitting
  <1>8. PathsHold'
    <2> SUFFICES ASSUME NEW p \in Paths \ disturbed' PROVE PathHolds(p)'
      BY DEF PathsHold
    <2>1. \A q \in FileReqs : ~IsAt(requests[q], p)
      BY <1>1
    <2>2. \A q \in FileReqs : ~IsAt(requests'[q], p)
      BY <1>3, <2>1 DEF IsAt
    <2>3. WholeAt(p)'
      BY <1>1 DEF WholeAt
    <2> QED BY <2>2, <2>3 DEF PathHolds, IsAt
  <1>9. IsFiniteSet(Files!Pairs(Stored))' /\ Files!Sum(Stored)' = 0
    <2>1. PICK g, g0 : g = Stored' /\ g0 = file'
      OBVIOUS
    <2>2. g = [p \in Paths |-> Files!Larger(g0[p], 0)] /\ g0 \in [Paths -> Lengths]
      BY <1>5, <2>1 DEF Stored, Files!Larger
    <2>3. g \in [Paths -> Nat] /\ \A p \in Paths : g[p] = 0
      BY <1>1, <2>1, <2>2, StoredIs
    <2>4. IsFiniteSet(Files!Pairs(g)) /\ Files!Sum(g) = 0
      BY <2>3, NoPairs
    <2> QED BY <2>1, <2>4 DEF Files!Sum, Files!Pairs
  <1>10. Promised' = Promised
    BY <1>3 DEF Promised
  <1>11. IsFiniteSet(Files!Pairs(Promised))' /\ Files!Sum(Promised)' = Files!Sum(Promised)
    BY <1>10 DEF FileInv, Finite, Files!Sum, Files!Pairs
  <1>12. Metered'
    BY <1>1, <1>11 DEF FileInv, Metered
  <1>13. ASSUME loopholes = {} PROVE Covered'
    <2>1. Covered
      BY <1>13 DEF FileInv
    <2>2. \A q, t \in FileReqs : requests'[q].api /\ requests'[t].api => q = t
      BY <1>3, <2>1 DEF Covered
    <2>3. \A q \in FileReqs : requests'[q].pc \in UploadSteps => requests'[q].api
      BY <1>3, <2>1 DEF Covered
    <2>4. \A q \in FileReqs : requests'[q].api => counted' + requests'[q].size <= Quota
      BY <1>1, <1>3, <2>1 DEF Covered
    <2>5. \A q \in FileReqs : requests'[q].size \in Nat
      BY <1>3, ReqParts
    <2>6. 0 <= counted' /\ \A q \in FileReqs : 0 <= counted' + requests'[q].size
      BY <1>1, <1>2, <2>5
    <2>7. counted' <= Quota
      BY <1>1, <2>1 DEF Covered
    <2> QED BY <1>9, <2>2, <2>3, <2>4, <2>6, <2>7 DEF Covered, UploadSteps
  <1> QED BY <1>1, <1>6, <1>7, <1>8, <1>9, <1>11, <1>12, <1>13 DEF FileInv, Finite

LEMMA FilesCrashKeeps == ASSUME FileInv, Files!CrashStorage PROVE FileInv'
  <1>1. /\ requests' = [r \in FileReqs |-> Files!NoRequest] /\ known' = FALSE /\ loopholes' = loopholes \cup {"crash"}
        /\ disturbed' = disturbed \cup {p \in Paths : \E r \in FileReqs : IsAt(requests[r], p)}
        /\ driver' = driver /\ bucketMade' = bucketMade /\ file' = file /\ meta' = meta
    BY DEF Files!CrashStorage, Files!Busy, IsAt
  <1>2. FileTypes /\ counted \in Nat
    BY DEF FileInv, FileTypes
  <1>3. counted' \in 0..counted
    BY DEF Files!CrashStorage
  <1>4. \A q \in FileReqs : requests'[q] = Files!NoRequest
    BY <1>1
  <1>5. requests' \in [FileReqs -> Req]
    BY <1>1, NoRequestIs
  <1>6. FileTypes'
    <2>1. \A q \in FileReqs : IF requests'[q].pc = "done" THEN requests'[q] = Files!NoRequest' ELSE requests'[q].path \in Paths
      BY <1>4 DEF Files!NoRequest
    <2>2. /\ file' \in [Paths -> Lengths'] /\ meta' \in [Paths -> Lengths'] /\ requests' \in [FileReqs -> Req']
      BY <1>1, <1>2, <1>5 DEF FileTypes, Lengths, Req, Files!Absent, Files!Steps
    <2>3. counted' \in Nat
      BY <1>2, <1>3
    <2>4. disturbed' \subseteq Paths /\ loopholes' \subseteq {"overlap", "console", "crash"}
      BY <1>1, <1>2 DEF FileTypes
    <2>5. driver' \in {"local", "s3"} /\ bucketMade' \in BOOLEAN /\ known' \in BOOLEAN
      BY <1>1, <1>2 DEF FileTypes
    <2> QED BY <2>1, <2>2, <2>3, <2>4, <2>5 DEF FileTypes
  <1>7. OnDriver'
    BY <1>1, <1>4, NoRequestIs DEF FileInv, OnDriver, Fitting
  <1>8. PathsHold'
    <2> SUFFICES ASSUME NEW p \in Paths \ disturbed' PROVE PathHolds(p)'
      BY DEF PathsHold
    <2>1. p \notin disturbed /\ \A q \in FileReqs : ~IsAt(requests[q], p)
      BY <1>1
    <2>2. \A q \in FileReqs : ~IsAt(requests'[q], p)
      BY <1>4, NoRequestIs DEF IsAt
    <2>3. WholeAt(p)'
      BY <1>1, <2>1 DEF FileInv, PathsHold, PathHolds, WholeAt, Files!Absent
    <2> QED BY <2>2, <2>3 DEF PathHolds, IsAt
  <1>9. IsFiniteSet(Files!Pairs(Stored))'
    BY <1>1 DEF FileInv, Finite, Stored, Files!Pairs, Files!Larger
  <1>10. IsFiniteSet(Files!Pairs(Promised))' /\ Files!Sum(Promised)' = 0
    <2>1. PICK g, g0 : g = Promised' /\ g0 = requests'
      OBVIOUS
    <2>2. g = [r \in FileReqs |-> IF g0[r].api THEN g0[r].size ELSE 0] /\ g0 \in [FileReqs -> Req]
      BY <1>5, <2>1 DEF Promised
    <2>3. g \in [FileReqs -> Nat] /\ \A r \in FileReqs : g[r] = 0
      BY <1>4, <2>1, <2>2, PromisedIs, NoRequestIs
    <2>4. IsFiniteSet(Files!Pairs(g)) /\ Files!Sum(g) = 0
      BY <2>3, NoPairs
    <2> QED BY <2>1, <2>4 DEF Files!Sum, Files!Pairs
  <1>11. counted <= MaxMetered
    <2>1. PICK g : g = Promised
      OBVIOUS
    <2>2. g \in [FileReqs -> Nat] /\ IsFiniteSet(Files!Pairs(g))
      BY <1>2, <2>1, PromisedIs DEF FileTypes, Promised, FileInv, Finite
    <2>3. Files!Sum(g) \in Nat
      BY <2>2, SumCounts, FS_CardinalityType
    <2>4. counted + Files!Sum(g) <= MaxMetered
      BY <2>1 DEF FileInv, Metered
    <2> QED BY <1>2, <2>3, <2>4, FilesParameters
  <1>12. Metered'
    <2>1. counted' + 0 <= MaxMetered
      <3>1. PICK m, n : m = counted /\ n = counted'
        OBVIOUS
      <3>2. m \in Nat /\ n \in 0..m /\ m <= MaxMetered
        BY <1>2, <1>3, <1>11, <3>1
      <3>3. n + 0 <= MaxMetered
        BY <3>2, FilesParameters
      <3> QED BY <3>1, <3>3
    <2> QED BY <1>10, <2>1 DEF Metered
  <1>13. loopholes' # {}
    BY <1>1
  <1> QED BY <1>6, <1>7, <1>8, <1>9, <1>10, <1>12, <1>13 DEF FileInv, Finite

\* Steps that touch no file and no request.
LEMMA FilesStay ==
  ASSUME FileInv, bucketMade' \in BOOLEAN, driver' = driver, known' = known, file' = file, meta' = meta, requests' = requests,
         counted' = counted, disturbed' = disturbed, loopholes' = loopholes
  PROVE  FileInv'
  <1>1. FileTypes'
    BY DEF FileInv, FileTypes, Lengths, Req, Files!Absent, Files!Steps, Files!NoRequest
  <1>2. OnDriver'
    BY DEF FileInv, OnDriver, Fitting
  <1>3. PathsHold'
    BY DEF FileInv, PathsHold, PathHolds, IsAt, WholeAt, StageAt, Files!Absent
  <1>4. Stored' = Stored /\ Promised' = Promised
    BY DEF Stored, Promised, Files!Larger
  <1>5. Finite' /\ Metered'
    BY <1>4 DEF FileInv, Finite, Metered, Files!Sum, Files!Pairs
  <1>6. Covered => Covered'
    BY <1>4 DEF Covered, Landed, UploadSteps, Files!Sum, Files!Pairs
  <1> QED BY <1>1, <1>2, <1>3, <1>5, <1>6 DEF FileInv

LEMMA FilesStepKeeps == FileInv /\ (Files!StorageNext \/ UNCHANGED filesVars) => FileInv'
  <1> SUFFICES ASSUME FileInv, Files!StorageNext \/ UNCHANGED filesVars PROVE FileInv'
    OBVIOUS
  <1>1. ASSUME NEW r \in FileReqs, NEW p \in Paths, NEW size \in Sizes,
               Files!handleUpload(r, p, size) \/ Files!handleUploadFile(r, p, size)
        PROVE  FileInv'
    BY <1>1, UploadKeeps
  <1>2. ASSUME NEW r \in FileReqs, NEW p \in Paths, Files!handleStorageDelete(r, p) PROVE FileInv'
    BY <1>2, DeleteFileKeeps
  <1>3. ASSUME NEW r \in FileReqs, NEW p \in Paths, Files!handleDownload(r, p) PROVE FileInv'
    BY <1>3, DownloadKeeps
  <1>4. ASSUME NEW r \in FileReqs,
               Files!CreateFile(r) \/ Files!CopyFile(r) \/ Files!CopyFails(r) \/ Files!SaveMetadata(r) \/ Files!EnsureBucket(r)
        PROVE  FileInv'
    BY <1>4, CreateKeeps, CopyKeeps, CopyFailsKeeps, SaveKeeps, BucketKeeps
  <1>5. ASSUME NEW r \in FileReqs,
               Files!PutObject(r) \/ Files!MeterUpload(r) \/ Files!RemoveFile(r) \/ Files!RemoveMetadata(r) \/ Files!OpenFile(r)
        PROVE  FileInv'
    BY <1>5, PutKeeps, EndKeeps, RemoveKeeps
  <1>6. CASE Files!handleDeleteBucket \/ Files!CrashStorage
    BY <1>6, DeleteBucketKeeps, FilesCrashKeeps
  <1>7. CASE Files!handleCreateBucket \/ UNCHANGED filesVars
    <2>1. /\ driver' = driver /\ known' = known /\ file' = file /\ meta' = meta /\ requests' = requests
          /\ counted' = counted /\ disturbed' = disturbed /\ loopholes' = loopholes
      BY <1>7 DEF Files!handleCreateBucket, filesVars
    <2>2. bucketMade' \in BOOLEAN
      BY <1>7 DEF Files!handleCreateBucket, filesVars, FileInv, FileTypes
    <2> QED BY <2>1, <2>2, FilesStay
  <1> QED BY <1>1, <1>2, <1>3, <1>4, <1>5, <1>6, <1>7 DEF Files!StorageNext, Files!handleDeleteFile, Files!handleSignedDownload

LEMMA FilesSay == FileInv => Files!StorageTypeOK /\ Files!ListedFilesAreWhole /\ Files!QuotaHolds
  <1> SUFFICES ASSUME FileInv PROVE Files!StorageTypeOK /\ Files!ListedFilesAreWhole /\ Files!QuotaHolds
    OBVIOUS
  <1>1. FileTypes /\ counted \in Nat
    BY DEF FileInv, FileTypes
  <1>2. PICK c \in Nat : c = Files!Sum(Promised)
    <2>1. PICK g : g = Promised
      OBVIOUS
    <2>2. g \in [FileReqs -> Nat] /\ IsFiniteSet(Files!Pairs(g))
      BY <1>1, <2>1, PromisedIs DEF FileTypes, Promised, FileInv, Finite
    <2>3. Files!Sum(g) \in Nat
      BY <2>2, SumCounts, FS_CardinalityType
    <2> QED BY <2>1, <2>3
  <1>3. Files!StorageTypeOK
    <2>1. counted \in 0..MaxMetered
      <3>1. counted + c <= MaxMetered
        BY <1>2 DEF FileInv, Metered
      <3> QED BY <1>1, <1>2, <3>1, FilesParameters
    <2>2. /\ driver \in {"local", "s3"} /\ {bucketMade, known} \subseteq BOOLEAN
          /\ {file, meta} \subseteq [Paths -> Sizes \cup {Files!Absent, 0}]
          /\ disturbed \subseteq Paths /\ loopholes \subseteq {"overlap", "console", "crash"}
      BY <1>1 DEF FileTypes, Lengths
    <2>3. requests \in [FileReqs -> [pc : Files!Steps, path : Paths \cup {"none"}, size : Sizes \cup {0}, api : BOOLEAN, linked : BOOLEAN]]
      BY <1>1 DEF FileTypes, Req
    <2> QED BY <2>1, <2>2, <2>3 DEF Files!StorageTypeOK
  <1>4. Files!ListedFilesAreWhole
    BY DEF FileInv, PathsHold, PathHolds, IsAt, WholeAt, StageAt, Files!ListedFilesAreWhole, Files!Busy, Files!Listed
  <1>5. Files!QuotaHolds
    <2> SUFFICES ASSUME loopholes = {} PROVE Files!Sum([p \in Paths |-> Files!Larger(file[p], 0)]) <= Quota
      BY DEF Files!QuotaHolds
    <2>1. Covered
      BY DEF FileInv
    <2>2. PICK a : a = Files!Sum(Stored)
      OBVIOUS
    <2>3. a \in Nat
      <3>1. PICK g : g = Stored
        OBVIOUS
      <3>2. g \in [Paths -> Nat] /\ IsFiniteSet(Files!Pairs(g))
        BY <1>1, <3>1, StoredIs DEF FileTypes, Stored, FileInv, Finite
      <3> QED BY <2>2, <3>1, <3>2, SumCounts, FS_CardinalityType
    <2>4. a <= Quota
      <3>1. CASE \A r \in FileReqs : ~Landed(requests[r])
        BY <1>1, <2>1, <2>2, <2>3, <3>1, FilesParameters DEF Covered
      <3>2. CASE \E r \in FileReqs : Landed(requests[r])
        <4>1. PICK r \in FileReqs : Landed(requests[r])
          BY <3>2
        <4>2. PICK n \in Nat : n = requests[r].size
          BY <1>1, ReqParts DEF FileTypes
        <4>3. a <= counted + n /\ counted + n <= Quota
          BY <2>1, <2>2, <4>1, <4>2 DEF Covered, Landed
        <4> QED BY <1>1, <2>3, <4>2, <4>3, FilesParameters
      <3> QED BY <3>1, <3>2
    <2> QED BY <2>2, <2>4 DEF Stored
  <1> QED BY <1>3, <1>4, <1>5

------------------------------------------------------------------------------

(* Every component starts and steps within its invariant.                      *)
ContentInv == DocInv /\ IInv /\ FileInv /\ EntryInv /\ ServerInv

LEMMA ContentStart == Init => ContentInv
  BY DocStart, InitInv, FilesStart, EntryStart, ServerStart DEF Init, ContentInv

LEMMA DocumentsKeep == DocInv /\ (DocNext \/ UNCHANGED docVars) => DocInv'
  BY DocStep

LEMMA HubKeeps == IInv /\ (HubNext \/ UNCHANGED hubVars) => IInv'
  BY NextInv

LEMMA ContentStep ==
  ContentInv /\ [Next]_<<focus, docVars, hubVars, filesVars, entriesVars, serverVars>> => ContentInv'
  <1> SUFFICES ASSUME ContentInv, [Next]_<<focus, docVars, hubVars, filesVars, entriesVars, serverVars>>
               PROVE  ContentInv'
    OBVIOUS
  <1>1. /\ DocNext \/ UNCHANGED docVars
        /\ HubNext \/ UNCHANGED hubVars
        /\ Files!StorageNext \/ UNCHANGED filesVars
        /\ Entries!ConfNext \/ UNCHANGED entriesVars
        /\ Server!SettingNext \/ UNCHANGED serverVars
    BY DEF Next, DocumentsStep, HubStep, FilesStep, EntriesStep, ServerStep
  <1> QED
    BY <1>1, DocumentsKeep, HubKeeps, FilesStepKeeps, EntriesKeep, ServerKeeps DEF ContentInv

LEMMA ContentSays == ContentInv => TypeOK /\ WhatIsSavedIsKept
  <1>1. IInv => HubTypeOK
    BY DEF IInv, HubTypes, HubTypeOK
  <1> QED
    BY <1>1, DocConsequences, FilesSay, EntrySays, ServerSays
    DEF ContentInv, TypeOK, WhatIsSavedIsKept

(* The invariant of the whole content of a project.                            *)
THEOREM ContentInductive == Spec => []ContentInv
  BY ContentStart, ContentStep, PTL DEF Spec

(* The state of api.Server, realtime.Hub, storage.Manager, the configuration   *)
(* maps and the server settings keeps its types.                               *)
THEOREM ContentTypeCorrect == Spec => []TypeOK
  <1>1. ContentInv => TypeOK
    BY ContentSays
  <1> QED BY <1>1, ContentInductive, PTL

(* Storage, configuration maps and settings: a listed file is whole and the    *)
(* quota holds, an entry keeps its creation time, settings survive a restart   *)
(* and no mask is saved as a secret, outside the overlaps the modules record.  *)
THEOREM SavedIsKept == Spec => []WhatIsSavedIsKept
  <1>1. ContentInv => WhatIsSavedIsKept
    BY ContentSays
  <1> QED BY <1>1, ContentInductive, PTL
==============================================================================
