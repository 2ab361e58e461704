--------------------------------- MODULE Queue ---------------------------------
(* Message queues of a project (queue.Store) and their handlers.  The store's  *)
(* mutex makes every operation one step.  A received message is hidden for the *)
(* visibility timeout; what lies between two operations is that time passing,  *)
(* and consumers that go on with a message whose timeout has passed.           *)
(*                                                                             *)
(* Keys are built as queue:message without escaping, so the messages of a      *)
(* queue "a:b" lie under the prefix of the queue "a" (Nested).                 *)
EXTENDS Naturals, Integers, FiniteSets

CONSTANTS Queues,     \* queue names
          Nested,     \* pairs of queues, the second's messages under the first's prefix
          Messages,   \* message identifiers, numbers in the order of their keys
          Consumers,  \* clients that receive
          Limits,     \* limits they ask for
          MaxDrift    \* bound: how far the in-flight counter falls below zero

\* "none" is the queue of no message.
ASSUME QueueAssumption ==
  /\ "none" \notin Queues /\ Nested \subseteq Queues \X Queues
  /\ Messages \subseteq Int /\ IsFiniteSet(Messages)

VARIABLES
  msgs,       \* messages in the database
  sent,       \* identifiers drawn
  counters,   \* the stored counters of a queue
  holding,    \* history: messages a consumer received and has not given up
  deleted,    \* history: messages that were deleted or purged by name
  queueOpen   \* a store is cached for the project

queueVars == <<msgs, sent, counters, holding, deleted, queueOpen>>

NoMsg == [q |-> "none", hidden |-> FALSE]
NoCounters == [visible |-> 0, inFlight |-> 0, total |-> 0]

QueueInit ==
  /\ msgs = [m \in Messages |-> NoMsg] /\ sent = {}
  /\ counters = [q \in Queues |-> NoCounters]
  /\ holding = [c \in Consumers |-> {}]
  /\ deleted = {} /\ queueOpen = FALSE

------------------------------------------------------------------------------
Under(q) == {m \in Messages : msgs[m].q = q \/ <<q, msgs[m].q>> \in Nested}
countVisible(s, q)  == Cardinality({m \in Under(q) : ~s[m].hidden})
countInFlight(s, q) == Cardinality({m \in Under(q) : s[m].hidden})

\* The first messages in key order that are visible, limit of them at most.
scanVisible(q, limit) ==
  LET visible == {m \in Under(q) : ~msgs[m].hidden}
  IN {m \in visible : Cardinality({k \in visible : k < m}) < limit}

getQueueStore == queueOpen' = TRUE

Send(q) ==
  \E m \in Messages \ sent :
    /\ msgs' = [msgs EXCEPT ![m] = [q |-> q, hidden |-> FALSE]]
    /\ sent' = sent \cup {m}
    /\ counters' = [counters EXCEPT ![q].total = @ + 1]

\* Mutant of Receive: a message that came back stays visible when it is taken.
ReceiveOnceHidden(q, limit, c) ==
  LET taken == scanVisible(q, limit) IN
  /\ msgs' = [m \in Messages |->
       [msgs[m] EXCEPT !.hidden = @ \/ (m \in taken /\ \A d \in Consumers : m \notin holding[d])]]
  /\ counters' = [counters EXCEPT ![q].visible = countVisible(msgs', q),
                                  ![q].inFlight = countInFlight(msgs', q)]
  /\ holding' = [holding EXCEPT ![c] = @ \cup taken]

Receive(q, limit, c) ==
  LET taken == scanVisible(q, limit) IN
  /\ msgs' = [m \in Messages |-> [msgs[m] EXCEPT !.hidden = @ \/ m \in taken]]
  /\ counters' = [counters EXCEPT ![q].visible = countVisible(msgs', q),
                                  ![q].inFlight = countInFlight(msgs', q)]
  /\ holding' = [holding EXCEPT ![c] = @ \cup taken]

\* Delete removes the key, if it is there, and counts down in any case.
Delete(q, m) ==
  /\ msgs' = IF msgs[m].q = q THEN [msgs EXCEPT ![m] = NoMsg] ELSE msgs
  /\ deleted' = IF msgs[m].q = q THEN deleted \cup {m} ELSE deleted
  /\ counters' = [counters EXCEPT ![q].inFlight = @ - 1]

Purge(q) ==
  /\ msgs' = [m \in Messages |-> IF m \in Under(q) THEN NoMsg ELSE msgs[m]]
  /\ counters' = [counters EXCEPT ![q] = NoCounters]
  /\ deleted' = deleted \cup {m \in Messages : msgs[m].q = q}

\* MakeVisible shows what is hidden and leaves the counters.
MakeVisible(q) == msgs' = [m \in Messages |->
  IF m \in Under(q) THEN [msgs[m] EXCEPT !.hidden = FALSE] ELSE msgs[m]]

------------------------------------------------------------------------------
\* The handlers.  A consumer deletes what it holds, timeout or not.
handleQueueSend(q) == getQueueStore /\ Send(q) /\ UNCHANGED <<holding, deleted>>

handleQueueReceive(q, limit, c) ==
  getQueueStore /\ Receive(q, limit, c) /\ UNCHANGED <<sent, deleted>>

handleQueueDelete(q, c, m) ==
  /\ getQueueStore
  /\ m \in holding[c] /\ counters[q].inFlight > -MaxDrift
  /\ Delete(q, m)
  /\ holding' = [holding EXCEPT ![c] = @ \ {m}]
  /\ UNCHANGED sent

handleAdminPurgeQueue(q) == getQueueStore /\ Purge(q) /\ UNCHANGED <<sent, holding>>
handleAdminMakeVisible(q) == getQueueStore /\ MakeVisible(q) /\ UNCHANGED <<sent, counters, holding, deleted>>

\* The visibility timeout of a message passes.
TimeoutPasses(m) ==
  /\ msgs[m].hidden
  /\ msgs' = [msgs EXCEPT ![m].hidden = FALSE]
  /\ UNCHANGED <<sent, counters, holding, deleted, queueOpen>>

\* A consumer dies with what it holds.
ConsumerDies(c) ==
  /\ holding[c] # {}
  /\ holding' = [holding EXCEPT ![c] = {}]
  /\ UNCHANGED <<msgs, sent, counters, deleted, queueOpen>>

QueueNext ==
  \/ \E q \in Queues :
       \/ handleQueueSend(q) \/ handleAdminPurgeQueue(q) \/ handleAdminMakeVisible(q)
       \/ \E c \in Consumers : \/ \E limit \in Limits : handleQueueReceive(q, limit, c)
                               \/ \E m \in Messages : handleQueueDelete(q, c, m)
  \/ \E m \in Messages : TimeoutPasses(m)
  \/ \E c \in Consumers : ConsumerDies(c)

QueueSpec == QueueInit /\ [][QueueNext]_queueVars

------------------------------------------------------------------------------
QueueTypeOK ==
  /\ msgs \in [Messages -> [q : Queues \cup {"none"}, hidden : BOOLEAN]]
  /\ sent \subseteq Messages /\ deleted \subseteq sent
  /\ \A q \in Queues : counters[q].visible \in Nat /\ counters[q].inFlight \in Int /\ counters[q].total \in Nat
  /\ holding \in [Consumers -> SUBSET sent]
  /\ queueOpen \in BOOLEAN

\* A message nobody deleted or purged is still there, whichever consumers died
\* with it: at least once.  (Only for queues whose names do not nest.)
UnprocessedMessagesStay ==
  Nested = {} => \A m \in sent \ deleted : msgs[m] # NoMsg

\* A message is handed out only when it is visible: no step gives it to a
\* second consumer before a timeout or an administrator shows it again.
HandedOutOneAtATime ==
  [][\A c \in Consumers : \A m \in holding'[c] \ holding[c] :
       ~msgs[m].hidden /\ msgs'[m].hidden]_queueVars

\* A message stays until it is deleted, and is handed out while it is visible.
MessagesAreDelivered == []UnprocessedMessagesStay /\ HandedOutOneAtATime
==============================================================================
