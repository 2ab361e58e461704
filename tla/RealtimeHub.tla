----------------------------- MODULE RealtimeHub -----------------------------
(* Realtime events from a write to the handler of a subscriber: the hub's      *)
(* bounded event channel and broadcast loop (realtime.Hub), the bounded        *)
(* channel and the two goroutines of a connection (WSHandler), the WebSocket,  *)
(* and the two readers of the Go client (client.RealtimeClient): its read loop *)
(* and whoever waits in Subscribe.  Events are numbered as they are published. *)
EXTENDS Integers, Sequences, FiniteSets

CONSTANTS Clients, Collections,
          QueueSize, InboxSize,   \* capacities of the hub's and of a client's channel
          MaxEvents               \* bound on events

HubBounds == QueueSize \in Nat /\ InboxSize \in Nat /\ MaxEvents \in Nat
ASSUME HubAssumption == HubBounds

VARIABLES
  published,  \* number of events published
  queue,      \* Hub.eventChan
  conn,       \* connection of a client: "none", "open", "lost" (and not yet unregistered), "gone"
  subs,       \* Client.subscriptions: per collection no filter, a filter or none
  inbox,      \* Client.events
  asked,      \* requests on their way to the server
  reply,      \* the collection whose subscription the server is about to confirm
  wire,       \* messages on their way to the client
  waiting,    \* the collection the client's Subscribe waits for, or "none"
  held,       \* subscriptions of the Go client, with the identifier it read
  seen,       \* history: numbers of the events the client read
  due,        \* history: events a client was subscribed to, then and ever since
  dropped     \* history: events a full channel dropped, by client

hubVars == <<published, queue, conn, subs, inbox, asked, reply, wire, waiting, held, seen, due, dropped>>

NoSubs == [k \in Collections |-> "none"]
Event(n, k, fits) == [type |-> "event", n |-> n, coll |-> k, fits |-> fits]
Matches(filter, e) == filter = "all" \/ (filter = "filter" /\ e.fits)

HubInit ==
  /\ published = 0 /\ queue = <<>>
  /\ conn = [c \in Clients |-> "none"]
  /\ subs = [c \in Clients |-> NoSubs]
  /\ inbox = [c \in Clients |-> <<>>]
  /\ asked = inbox /\ wire = inbox
  /\ reply = [c \in Clients |-> "none"] /\ waiting = reply
  /\ held = [c \in Clients |-> {}] /\ due = held /\ dropped = held
  /\ seen = inbox

ServerSide == <<published, queue, conn, subs, inbox>>
ClientSide == <<waiting, held, seen>>
Histories  == <<due, dropped>>

------------------------------------------------------------------------------
\* The hub.
Publish(k, fits) ==
  LET e == Event(published + 1, k, fits)
      full == Len(queue) = QueueSize
      wanted == {c \in Clients : conn[c] = "open" /\ Matches(subs[c][k], e)} IN
  /\ published < MaxEvents /\ published' = published + 1
  /\ queue' = IF full THEN queue ELSE Append(queue, e)
  /\ due' = [c \in Clients |-> IF c \in wanted THEN due[c] \cup {e.n} ELSE due[c]]
  /\ dropped' = [c \in Clients |-> IF full THEN dropped[c] \cup {e.n} ELSE dropped[c]]
  /\ UNCHANGED <<conn, subs, inbox, asked, reply, wire, ClientSide>>

\* A log entry that is applied, in a cluster: only documents of a project are
\* announced, and a deletion carries no data, so that no filter fits it.
setupReplicationRealtime(op, project, k, fits) ==
  /\ op \in {"insert", "update", "delete"} /\ project
  /\ Publish(k, fits /\ op # "delete")

\* Mutant of HasRoom: off by one.
HasRoomForMore(c) == Len(inbox[c]) <= InboxSize

HasRoom(c) == Len(inbox[c]) < InboxSize

\* Mutant of broadcast: an event that meets a full channel is queued again.
broadcastRequeues ==
  LET e == Head(queue)
      matched == {c \in Clients : conn[c] \in {"open", "lost"} /\ Matches(subs[c][e.coll], e)}
      room == {c \in matched : HasRoom(c)} IN
  /\ queue # <<>>
  /\ queue' = IF room = matched THEN Tail(queue) ELSE Append(Tail(queue), e)
  /\ inbox' = [c \in Clients |-> IF c \in room THEN Append(inbox[c], e) ELSE inbox[c]]
  /\ UNCHANGED <<published, conn, subs, asked, reply, wire, ClientSide, Histories>>

broadcast ==
  LET e == Head(queue)
      matched == {c \in Clients : conn[c] \in {"open", "lost"} /\ Matches(subs[c][e.coll], e)}
      room == {c \in matched : HasRoom(c)} IN
  /\ queue # <<>> /\ queue' = Tail(queue)
  /\ inbox' = [c \in Clients |-> IF c \in room THEN Append(inbox[c], e) ELSE inbox[c]]
  /\ dropped' = [c \in Clients |-> IF c \in matched \ room THEN dropped[c] \cup {e.n} ELSE dropped[c]]
  /\ UNCHANGED <<published, conn, subs, asked, reply, wire, ClientSide, due>>

------------------------------------------------------------------------------
\* A connection.
Register(c) ==
  /\ conn[c] = "none"
  /\ conn' = [conn EXCEPT ![c] = "open"]
  /\ UNCHANGED <<published, queue, subs, inbox, asked, reply, wire, ClientSide, Histories>>

Without(n, k) == {m \in n : \A i \in DOMAIN queue : queue[i].n = m => queue[i].coll # k}

\* A new subscription replaces the one the client has for the collection.
Subscription(c, m) == [subs EXCEPT ![c][m.coll] = m.filter]

\* The server reads a request.
ServeHTTP(c) ==
  LET m == Head(asked[c]) IN
  /\ conn[c] = "open" /\ asked[c] # <<>> /\ reply[c] = "none"
  /\ asked' = [asked EXCEPT ![c] = Tail(@)]
  /\ subs' = Subscription(c, m)
  /\ reply' = [reply EXCEPT ![c] = IF m.filter = "none" THEN "none" ELSE m.coll]
  /\ due' = [due EXCEPT ![c] = Without(@, m.coll)]
  /\ UNCHANGED <<published, queue, conn, inbox, wire, ClientSide, dropped>>

\* The answer goes to the connection by itself, not through the inbox, so that
\* events of the new subscription may overtake it.
Answer(c) ==
  /\ conn[c] = "open" /\ reply[c] # "none"
  /\ wire' = [wire EXCEPT ![c] = Append(@, [type |-> "subscribed", coll |-> reply[c]])]
  /\ reply' = [reply EXCEPT ![c] = "none"]
  /\ UNCHANGED <<published, queue, conn, subs, inbox, asked, ClientSide, Histories>>

\* Mutant of writeLoop: an event gives way to the answer that is being written.
writeLoopGivesWay(c) ==
  /\ conn[c] = "open" /\ inbox[c] # <<>>
  /\ wire' = [wire EXCEPT ![c] = IF reply[c] = "none" THEN Append(@, Head(inbox[c])) ELSE @]
  /\ inbox' = [inbox EXCEPT ![c] = Tail(@)]
  /\ UNCHANGED <<published, queue, conn, subs, reply, asked, ClientSide, Histories>>

writeLoop(c) ==
  /\ conn[c] = "open" /\ inbox[c] # <<>>
  /\ wire' = [wire EXCEPT ![c] = Append(@, Head(inbox[c]))]
  /\ inbox' = [inbox EXCEPT ![c] = Tail(@)]
  /\ UNCHANGED <<published, queue, conn, subs, reply, asked, ClientSide, Histories>>

\* The connection breaks; the server's read loop finds out later, unregisters
\* the client and closes its channel.
ConnectionBreaks(c) ==
  /\ conn[c] = "open" /\ conn' = [conn EXCEPT ![c] = "lost"]
  /\ asked' = [asked EXCEPT ![c] = <<>>] /\ wire' = [wire EXCEPT ![c] = <<>>]
  /\ reply' = [reply EXCEPT ![c] = "none"]
  /\ waiting' = [waiting EXCEPT ![c] = "none"] /\ held' = [held EXCEPT ![c] = {}]
  /\ UNCHANGED <<published, queue, subs, inbox, seen, Histories>>

Unregister(c) ==
  /\ conn[c] = "lost" /\ conn' = [conn EXCEPT ![c] = "gone"]
  /\ subs' = [subs EXCEPT ![c] = NoSubs] /\ inbox' = [inbox EXCEPT ![c] = <<>>]
  /\ due' = [due EXCEPT ![c] = {}]
  /\ UNCHANGED <<published, queue, reply, asked, reply, wire, ClientSide, dropped>>

------------------------------------------------------------------------------
\* The Go client.  Its subscriptions are pairs of identifier and collection; of
\* two with one identifier the later stays.
Ask(c, m) == asked' = [asked EXCEPT ![c] = Append(@, m)]

Subscribe(c, k, filter) ==
  /\ conn[c] = "open" /\ waiting[c] = "none" /\ asked[c] = <<>>
  /\ Ask(c, [coll |-> k, filter |-> filter])
  /\ waiting' = [waiting EXCEPT ![c] = k]
  /\ UNCHANGED <<ServerSide, reply, wire, held, seen, Histories>>

\* Subscribe takes the next message for its answer, whatever it is: an event
\* has a collection but no identifier, and is not delivered.
SubscribeReads(c) ==
  LET m == Head(wire[c])
      id == IF m.type = "subscribed" THEN m.coll ELSE "" IN
  /\ waiting[c] # "none" /\ wire[c] # <<>>
  /\ wire' = [wire EXCEPT ![c] = Tail(@)]
  /\ held' = [held EXCEPT ![c] = {s \in @ : s[1] # id} \cup {<<id, m.coll>>}]
  /\ waiting' = [waiting EXCEPT ![c] = "none"]
  /\ seen' = IF m.type = "event" THEN [seen EXCEPT ![c] = Append(@, m.n)] ELSE seen
  /\ UNCHANGED <<ServerSide, reply, asked, Histories>>

\* The read loop starts the handlers of an event's collection and passes over
\* the answer that a Subscribe waits for.
readLoop(c) ==
  LET m == Head(wire[c]) IN
  /\ wire[c] # <<>>
  /\ wire' = [wire EXCEPT ![c] = Tail(@)]
  /\ seen' = IF m.type = "event" THEN [seen EXCEPT ![c] = Append(@, m.n)] ELSE seen
  /\ UNCHANGED <<ServerSide, reply, asked, waiting, held, Histories>>

\* The server passes over an empty identifier and keeps the subscription.
Unsubscribe(c, s) ==
  /\ s \in held[c] /\ asked[c] = <<>>
  /\ IF s[1] = "" THEN UNCHANGED asked ELSE Ask(c, [coll |-> s[2], filter |-> "none"])
  /\ held' = [held EXCEPT ![c] = @ \ {s}]
  /\ UNCHANGED <<ServerSide, reply, wire, waiting, seen, Histories>>

HubNext ==
  \/ \E k \in Collections, fits \in BOOLEAN :
       \/ Publish(k, fits)
       \/ \E op \in {"insert", "delete", "create_index"}, project \in BOOLEAN :
            setupReplicationRealtime(op, project, k, fits)
  \/ broadcast
  \/ \E c \in Clients :
       \/ Register(c) \/ ServeHTTP(c) \/ Answer(c) \/ writeLoop(c)
       \/ ConnectionBreaks(c) \/ Unregister(c)
       \/ \E k \in Collections, filter \in {"all", "filter"} : Subscribe(c, k, filter)
       \/ SubscribeReads(c) \/ readLoop(c)
       \/ \E s \in held[c] : Unsubscribe(c, s)

HubSpec == HubInit /\ [][HubNext]_hubVars

------------------------------------------------------------------------------
Numbers(s) == {s[i].n : i \in {j \in DOMAIN s : s[j].type = "event"}}

HubTypeOK ==
  /\ published \in 0..MaxEvents
  /\ Len(queue) <= QueueSize
  /\ \A c \in Clients :
       /\ conn[c] \in {"none", "open", "lost", "gone"}
       /\ Len(inbox[c]) <= InboxSize
       /\ {reply[c], waiting[c]} \subseteq Collections \cup {"none"}
       /\ due[c] \cup dropped[c] \subseteq 1..published

\* A client reads the events of the hub in the order of their publication and
\* none twice, through full channels and changing subscriptions.  (Its handlers
\* are goroutines of their own and may run in any order.)
EventsComeInOrder ==
  \A c \in Clients : \A i, j \in DOMAIN seen[c] : i < j => seen[c][i] < seen[c][j]

\* An event that a connected client was subscribed to when it was published,
\* and remained so, reaches the client or is on its way, unless a full channel
\* dropped it.
OnlyFullChannelsLose ==
  \A c \in Clients : conn[c] = "open" =>
    due[c] \subseteq dropped[c] \cup Numbers(queue) \cup Numbers(inbox[c]) \cup Numbers(wire[c])
                     \cup {seen[c][i] : i \in DOMAIN seen[c]}

\* A subscriber sees events in order, and misses one only to a full channel.
SubscribersAreServed == EventsComeInOrder /\ OnlyFullChannelsLose
==============================================================================
