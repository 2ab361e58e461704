--------------------------- MODULE Services_proofs ---------------------------
(* The services of a project, for any sets of messages, consumers, tokens,     *)
(* jobs, functions, webhooks, pages, letters and requests: queues lose nothing *)
(* but what was deleted, tokens open the endpoint until they are, jobs and     *)
(* functions keep a next time, and what leaves the node goes where it should.  *)
EXTENDS Services, FiniteSetTheorems, TLAPS

------------------------------------------------------------------------------
(* Queues.                                                                     *)
Message == [q : Queues \cup {"none"}, hidden : BOOLEAN]
Count == [visible : Nat, inFlight : Int, total : Nat]

\* Only messages that were sent lie in a queue.
OnlySentAreStored == \A m \in Messages : msgs[m].q # "none" => m \in sent

HiddenAreStored == \A m \in Messages : msgs[m].hidden => msgs[m].q # "none"
UnprocessedAreStored == Nested = {} => \A m \in sent \ deleted : msgs[m].q # "none"

QueueInv ==
  /\ msgs \in [Messages -> Message]
  /\ sent \subseteq Messages /\ deleted \subseteq sent
  /\ counters \in [Queues -> Count]
  /\ holding \in [Consumers -> SUBSET sent]
  /\ queueOpen \in BOOLEAN
  /\ OnlySentAreStored /\ HiddenAreStored /\ UnprocessedAreStored

LEMMA NoMsgIsMessage == NoMsg \in Message /\ NoMsg.q = "none" /\ ~NoMsg.hidden
  BY DEF NoMsg, Message

LEMMA CountsAreNumbers ==
  ASSUME NEW s, NEW q
  PROVE  countVisible(s, q) \in Nat /\ countInFlight(s, q) \in Nat
  <1>1. ASSUME NEW A \in SUBSET Messages PROVE Cardinality(A) \in Nat
    BY <1>1, QueueAssumption, FS_Subset, FS_CardinalityType
  <1> QED BY <1>1 DEF countVisible, countInFlight, Under

LEMMA RecountKeepsType ==
  ASSUME NEW f \in [Queues -> Count], NEW q \in Queues, NEW v \in Nat, NEW w \in Nat
  PROVE  [f EXCEPT ![q].visible = v, ![q].inFlight = w] \in [Queues -> Count]
  <1> DEFINE g == [f EXCEPT ![q].visible = v]
             h == [g EXCEPT ![q].inFlight = w]
  <1>1. g \in [Queues -> Count]
    BY DEF Count
  <1>2. ASSUME NEW k \in [Queues -> Count] PROVE [k EXCEPT ![q].inFlight = w] \in [Queues -> Count]
    BY DEF Count
  <1>3. h \in [Queues -> Count]
    BY <1>1, <1>2
  <1>4. h = [f EXCEPT ![q].visible = v, ![q].inFlight = w]
    OBVIOUS
  <1> QED BY <1>3, <1>4

(* What is under the prefix of a queue was sent. *)
LEMMA UnderIsSent ==
  ASSUME QueueInv, NEW q \in Queues
  PROVE  /\ Under(q) \subseteq sent
         /\ \A m \in Messages : m \in Under(q) => msgs[m].q # "none"
         /\ Nested = {} => \A m \in Under(q) : msgs[m].q = q
  BY QueueAssumption DEF Under, QueueInv, OnlySentAreStored

LEMMA SendKeeps ==
  ASSUME QueueInv, NEW q \in Queues, handleQueueSend(q)
  PROVE  QueueInv'
  <1>1. PICK m \in Messages \ sent :
          /\ msgs' = [msgs EXCEPT ![m] = [q |-> q, hidden |-> FALSE]]
          /\ sent' = sent \cup {m}
          /\ counters' = [counters EXCEPT ![q].total = @ + 1]
    BY DEF handleQueueSend, Send
  <1>2. msgs' \in [Messages -> Message]
    BY <1>1 DEF QueueInv, Message
  <1>3. counters' \in [Queues -> Count]
    BY <1>1 DEF QueueInv, Count
  <1>4. /\ sent' \subseteq Messages /\ deleted' \subseteq sent' /\ queueOpen' \in BOOLEAN
        /\ holding' \in [Consumers -> SUBSET sent']
    BY <1>1 DEF QueueInv, handleQueueSend, getQueueStore
  <1>5. OnlySentAreStored' /\ HiddenAreStored'
    BY <1>1 DEF QueueInv, OnlySentAreStored, HiddenAreStored
  <1>6. UnprocessedAreStored'
    BY <1>1, QueueAssumption DEF QueueInv, UnprocessedAreStored, handleQueueSend, NoMsg
  <1> QED BY <1>2, <1>3, <1>4, <1>5, <1>6 DEF QueueInv

LEMMA ReceiveKeeps ==
  ASSUME QueueInv, NEW q \in Queues, NEW limit \in Limits, NEW c \in Consumers,
         handleQueueReceive(q, limit, c)
  PROVE  QueueInv'
  <1> DEFINE taken == scanVisible(q, limit)
  <1>1. taken \subseteq sent /\ \A m \in Messages : m \in taken => msgs[m].q # "none"
    BY UnderIsSent DEF scanVisible
  <1>2. /\ msgs' = [m \in Messages |-> [msgs[m] EXCEPT !.hidden = @ \/ m \in taken]]
        /\ counters' = [counters EXCEPT ![q].visible = countVisible(msgs', q),
                                        ![q].inFlight = countInFlight(msgs', q)]
        /\ holding' = [holding EXCEPT ![c] = @ \cup taken]
        /\ queueOpen' \in BOOLEAN /\ UNCHANGED <<sent, deleted>>
    BY DEF handleQueueReceive, Receive, getQueueStore
  <1> HIDE DEF taken
  <1>3. msgs' \in [Messages -> Message] /\ \A m \in Messages : msgs'[m].q = msgs[m].q
    BY <1>2 DEF QueueInv, Message
  <1>4. counters' \in [Queues -> Count]
    <2>1. countVisible(msgs', q) \in Nat /\ countInFlight(msgs', q) \in Nat
      BY CountsAreNumbers
    <2> QED BY <1>2, <2>1, RecountKeepsType DEF QueueInv
  <1>5. holding' \in [Consumers -> SUBSET sent]
    BY <1>1, <1>2 DEF QueueInv
  <1>6. OnlySentAreStored' /\ UnprocessedAreStored'
    BY <1>2, <1>3 DEF QueueInv, UnprocessedAreStored, OnlySentAreStored
  <1>7. HiddenAreStored'
    BY <1>1, <1>2, <1>3 DEF QueueInv, HiddenAreStored, Message
  <1> QED BY <1>2, <1>3, <1>4, <1>5, <1>6, <1>7 DEF QueueInv

LEMMA DeleteKeeps ==
  ASSUME QueueInv, NEW q \in Queues, NEW c \in Consumers, NEW m \in Messages,
         handleQueueDelete(q, c, m)
  PROVE  QueueInv'
  <1>1. /\ msgs' = IF msgs[m].q = q THEN [msgs EXCEPT ![m] = NoMsg] ELSE msgs
        /\ deleted' = IF msgs[m].q = q THEN deleted \cup {m} ELSE deleted
        /\ counters' = [counters EXCEPT ![q].inFlight = @ - 1]
        /\ holding' = [holding EXCEPT ![c] = @ \ {m}]
        /\ queueOpen' \in BOOLEAN /\ sent' = sent /\ m \in sent
    BY DEF handleQueueDelete, Delete, getQueueStore, QueueInv
  <1>2. msgs' \in [Messages -> Message]
    BY <1>1, NoMsgIsMessage DEF QueueInv
  <1>3. counters' \in [Queues -> Count]
    BY <1>1 DEF QueueInv, Count
  <1>4. holding' \in [Consumers -> SUBSET sent] /\ deleted' \subseteq sent
    BY <1>1 DEF QueueInv
  <1>5. OnlySentAreStored' /\ HiddenAreStored'
    BY <1>1, NoMsgIsMessage DEF QueueInv, OnlySentAreStored, HiddenAreStored
  <1>6. UnprocessedAreStored'
    BY <1>1 DEF QueueInv, UnprocessedAreStored
  <1> QED BY <1>1, <1>2, <1>3, <1>4, <1>5, <1>6 DEF QueueInv

LEMMA PurgeKeeps ==
  ASSUME QueueInv, NEW q \in Queues, handleAdminPurgeQueue(q)
  PROVE  QueueInv'
  <1>1. /\ msgs' = [m \in Messages |-> IF m \in Under(q) THEN NoMsg ELSE msgs[m]]
        /\ counters' = [counters EXCEPT ![q] = NoCounters]
        /\ deleted' = deleted \cup {m \in Messages : msgs[m].q = q}
        /\ queueOpen' \in BOOLEAN /\ sent' = sent /\ holding' = holding
    BY DEF handleAdminPurgeQueue, Purge, getQueueStore
  <1>2. msgs' \in [Messages -> Message]
    BY <1>1, NoMsgIsMessage DEF QueueInv
  <1>3. counters' \in [Queues -> Count]
    BY <1>1 DEF QueueInv, Count, NoCounters
  <1>4. deleted' \subseteq sent
    BY <1>1, QueueAssumption DEF QueueInv, OnlySentAreStored
  <1>5. OnlySentAreStored' /\ HiddenAreStored'
    BY <1>1, NoMsgIsMessage DEF QueueInv, OnlySentAreStored, HiddenAreStored
  <1>6. UnprocessedAreStored'
    BY <1>1, UnderIsSent DEF QueueInv, UnprocessedAreStored
  <1> QED BY <1>1, <1>2, <1>3, <1>4, <1>5, <1>6 DEF QueueInv

(* A message is shown again: MakeVisible, or its timeout. *)
LEMMA ShowingKeeps ==
  ASSUME QueueInv, NEW S \in SUBSET Messages,
         msgs' = [m \in Messages |-> IF m \in S THEN [msgs[m] EXCEPT !.hidden = FALSE] ELSE msgs[m]],
         queueOpen' \in BOOLEAN, UNCHANGED <<sent, counters, holding, deleted>>
  PROVE  QueueInv'
  <1>1. msgs' \in [Messages -> Message] /\ \A m \in Messages : msgs'[m].q = msgs[m].q
    BY DEF QueueInv, Message
  <1>2. OnlySentAreStored' /\ UnprocessedAreStored'
    BY <1>1 DEF QueueInv, OnlySentAreStored, UnprocessedAreStored
  <1>3. HiddenAreStored'
    BY <1>1 DEF QueueInv, HiddenAreStored, Message
  <1> QED BY <1>1, <1>2, <1>3 DEF QueueInv

LEMMA QueueInit_Inv == QueueInit => QueueInv
  <1> SUFFICES ASSUME QueueInit PROVE QueueInv
    OBVIOUS
  <1>1. msgs \in [Messages -> Message] /\ OnlySentAreStored /\ HiddenAreStored
    BY NoMsgIsMessage DEF QueueInit, OnlySentAreStored, HiddenAreStored
  <1>2. counters \in [Queues -> Count]
    BY DEF QueueInit, Count, NoCounters
  <1> QED BY <1>1, <1>2 DEF QueueInit, QueueInv, UnprocessedAreStored

LEMMA QueueNext_Inv == QueueInv /\ [QueueNext]_queueVars => QueueInv'
  <1> SUFFICES ASSUME QueueInv, [QueueNext]_queueVars PROVE QueueInv'
    OBVIOUS
  <1>1. ASSUME NEW q \in Queues, handleAdminMakeVisible(q) PROVE QueueInv'
    <2>1. Under(q) \subseteq Messages
      BY DEF Under
    <2> QED BY <1>1, <2>1, ShowingKeeps DEF handleAdminMakeVisible, MakeVisible, getQueueStore
  <1>2. ASSUME NEW m \in Messages, TimeoutPasses(m) PROVE QueueInv'
    <2>1. msgs' = [k \in Messages |-> IF k \in {m} THEN [msgs[k] EXCEPT !.hidden = FALSE] ELSE msgs[k]]
      BY <1>2 DEF TimeoutPasses, QueueInv
    <2> QED BY <1>2, <2>1, ShowingKeeps DEF TimeoutPasses, QueueInv
  <1>3. ASSUME NEW c \in Consumers, ConsumerDies(c) PROVE QueueInv'
    BY <1>3 DEF ConsumerDies, QueueInv, OnlySentAreStored, HiddenAreStored, UnprocessedAreStored
  <1>4. CASE UNCHANGED queueVars
    BY <1>4 DEF queueVars, QueueInv, OnlySentAreStored, HiddenAreStored, UnprocessedAreStored
  <1> QED BY <1>1, <1>2, <1>3, <1>4, SendKeeps, ReceiveKeeps, DeleteKeeps, PurgeKeeps DEF QueueNext

(* A step that hands a message out finds it visible and hides it. *)
LEMMA HandingOutHides ==
  QueueInv /\ [QueueNext]_queueVars =>
    [\A c \in Consumers : \A m \in holding'[c] \ holding[c] :
       ~msgs[m].hidden /\ msgs'[m].hidden]_queueVars
  <1> SUFFICES ASSUME QueueInv, QueueNext, NEW c \in Consumers, NEW m \in holding'[c] \ holding[c]
               PROVE  ~msgs[m].hidden /\ msgs'[m].hidden
    BY DEF queueVars
  <1>1. ASSUME NEW q \in Queues, NEW limit \in Limits, NEW d \in Consumers,
               handleQueueReceive(q, limit, d)
        PROVE  ~msgs[m].hidden /\ msgs'[m].hidden
    <2>1. m \in scanVisible(q, limit)
      BY <1>1 DEF handleQueueReceive, Receive, QueueInv
    <2>2. m \in Messages /\ ~msgs[m].hidden
      BY <2>1 DEF scanVisible, Under
    <2> QED BY <1>1, <2>1, <2>2 DEF handleQueueReceive, Receive, QueueInv, Message
  <1>2. ASSUME NEW q \in Queues, NEW d \in Consumers, NEW k \in Messages, handleQueueDelete(q, d, k)
        PROVE  FALSE
    BY <1>2 DEF handleQueueDelete, QueueInv
  <1>3. ASSUME NEW d \in Consumers, ConsumerDies(d) PROVE FALSE
    BY <1>3 DEF ConsumerDies, QueueInv
  <1>4. ASSUME UNCHANGED holding PROVE FALSE
    BY <1>4
  <1> QED BY <1>1, <1>2, <1>3, <1>4 DEF QueueNext, handleQueueSend, handleAdminPurgeQueue,
                                        handleAdminMakeVisible, TimeoutPasses

(* The variables of the queues keep their types. *)
THEOREM QueueTypeCorrect == QueueSpec => []QueueTypeOK
  <1>1. QueueInv => QueueTypeOK
    BY DEF QueueInv, QueueTypeOK, Message, Count
  <1> QED BY <1>1, QueueInit_Inv, QueueNext_Inv, PTL DEF QueueSpec

(* Whatever consumers time out, die or delete late, a message stays until it   *)
(* is deleted, and goes to one consumer at a time.                             *)
THEOREM Delivered == QueueSpec => MessagesAreDelivered
  <1>1. QueueSpec => []QueueInv
    BY QueueInit_Inv, QueueNext_Inv, PTL DEF QueueSpec
  <1>2. QueueInv => UnprocessedMessagesStay
    BY DEF QueueInv, UnprocessedAreStored, UnprocessedMessagesStay, NoMsg
  <1>3. QueueSpec => HandedOutOneAtATime
    BY <1>1, HandingOutHides, PTL DEF QueueSpec, HandedOutOneAtATime
  <1> QED BY <1>1, <1>2, <1>3, PTL DEF MessagesAreDelivered
------------------------------------------------------------------------------
(* The MCP endpoint.                                                           *)
Settings == [enabled : BOOLEAN, disabled : SUBSET Called]
Request == [pc : {"done", "remember", "index", "unindex", "set", "merge", "touch", "call", "write"},
            h : Nat, t : Tokens \cup {"none"}, tool : Called \cup {"none"},
            id : RecordIds \cup {"none"}, doc : SUBSET (Tokens \cup AllScopes \cup McpReqs),
            cfg : Settings]

McpTypes ==
  /\ kept \in [Tokens -> SUBSET AllScopes] /\ handle \in Nat
  /\ store \in [loaded : BOOLEAN, tokens : SUBSET Tokens]
  /\ index \subseteq Tokens /\ indexBuilt \in BOOLEAN
  /\ mcpReqs \in [McpReqs -> Request]
  /\ minted \cup revoked \cup late \subseteq Tokens
  /\ config \in Settings

Creating(q) == mcpReqs[q].pc \in {"remember", "index"}

\* A loaded store holds no token that is not on disk.
StoredAreKept == store.loaded => \A t \in store.tokens : kept[t] # {}

\* What the two properties say, in terms of the disk and a loaded store.
MintedAreKept ==
  \A t \in minted \ revoked : /\ kept[t] # {}
                              /\ store.loaded => t \in store.tokens
                              /\ indexBuilt => t \in index
RevokedAreGone ==
  \A t \in revoked \ late : kept[t] = {} /\ (store.loaded => t \notin store.tokens)

\* A token on its way is new, on disk, and of one request.
CreatedAreKept ==
  \A q \in McpReqs : Creating(q) =>
    LET t == mcpReqs[q].t IN
    t \in Tokens /\ t \notin minted /\ (t \in revoked \/ kept[t] # {})
CreatedApart ==
  \A q, p \in McpReqs : Creating(q) /\ Creating(p) /\ q # p => mcpReqs[q].t # mcpReqs[p].t

\* The store it was saved in is still to take it up, or another was loaded that has it.
CreatedAreRemembered ==
  \A q \in McpReqs : Creating(q) =>
    LET t == mcpReqs[q].t IN
    IF mcpReqs[q].pc = "remember" /\ mcpReqs[q].h = handle
      THEN store.loaded /\ t \notin store.tokens /\ t \notin revoked
      ELSE t \in revoked \/ (store.loaded => t \in store.tokens)
RememberedBefore == \A q \in McpReqs : mcpReqs[q].pc = "remember" => mcpReqs[q].h <= handle

\* What a request read stays good for what it will do with it.
MergesAreWhole ==
  \A q \in McpReqs : mcpReqs[q].pc = "merge" =>
    indexBuilt \/ minted \ revoked \subseteq index \cup mcpReqs[q].doc
UnindexedAreRevoked == \A q \in McpReqs : mcpReqs[q].pc = "unindex" => mcpReqs[q].t \in revoked
TouchedHaveScopes ==
  \A q \in McpReqs : mcpReqs[q].pc = "touch" =>
    mcpReqs[q].t \in Tokens /\ mcpReqs[q].doc \in (SUBSET AllScopes) \ {{}}
MergedAreTokens == \A q \in McpReqs : mcpReqs[q].pc = "merge" => mcpReqs[q].doc \subseteq Tokens

TokenInv ==
  /\ StoredAreKept /\ MintedAreKept /\ RevokedAreGone
  /\ CreatedAreKept /\ CreatedApart /\ CreatedAreRemembered /\ RememberedBefore
  /\ MergesAreWhole /\ UnindexedAreRevoked /\ TouchedHaveScopes /\ MergedAreTokens

McpInv == McpTypes /\ TokenInv

LEMMA StoreIsLoaded ==
  ASSUME McpTypes
  PROVE  /\ Store \in [loaded : BOOLEAN, tokens : SUBSET Tokens] /\ Store.loaded
         /\ store.loaded => Store = store
         /\ ~store.loaded => Store.tokens = {t \in Tokens : kept[t] # {}}
  BY DEF McpTypes, Store, load

LEMMA NoCallIsRequest == NoCall \in Request /\ NoCall.pc = "done"
  BY DEF NoCall, Request, NoConfig, Settings

\* A step changes what one request holds.
LEMMA GotoChanges ==
  ASSUME McpTypes, NEW q \in McpReqs, NEW call \in Request, Goto(q, call)
  PROVE  /\ mcpReqs' \in [McpReqs -> Request] /\ mcpReqs'[q] = call
         /\ \A p \in McpReqs : p # q => mcpReqs'[p] = mcpReqs[p]
  BY DEF McpTypes, Goto

LEMMA StepMoves ==
  ASSUME McpTypes, NEW q \in McpReqs,
         NEW pc \in {"done", "remember", "index", "unindex", "set", "merge", "touch", "call", "write"},
         Step(q, pc)
  PROVE  /\ mcpReqs' \in [McpReqs -> Request]
         /\ mcpReqs'[q].pc = pc /\ mcpReqs'[q].t = mcpReqs[q].t /\ mcpReqs'[q].h = mcpReqs[q].h
         /\ \A p \in McpReqs : p # q => mcpReqs'[p] = mcpReqs[p]
  <1>1. [mcpReqs[q] EXCEPT !.pc = pc] \in Request
    BY DEF McpTypes, Request
  <1>2. Goto(q, [mcpReqs[q] EXCEPT !.pc = pc])
    BY DEF Step
  <1> QED BY <1>1, <1>2, GotoChanges DEF McpTypes, Request

\* Most steps of a request leave the tokens alone, but may load the store, and
\* what the request read then is no matter for the tokens.
LEMMA QuietKeeps ==
  ASSUME McpTypes, TokenInv, NEW q \in McpReqs,
         ~Creating(q)', mcpReqs'[q].pc \notin {"unindex", "merge"},
         mcpReqs'[q].pc = "touch" =>
           mcpReqs'[q].t \in Tokens /\ mcpReqs'[q].doc \in (SUBSET AllScopes) \ {{}},
         \A p \in McpReqs : p # q => mcpReqs'[p] = mcpReqs[p],
         store' \in {store, Store},
         UNCHANGED <<kept, handle, index, indexBuilt, minted, revoked, late>>
  PROVE  TokenInv'
  <1>1. StoredAreKept' /\ MintedAreKept' /\ RevokedAreGone'
    BY StoreIsLoaded DEF TokenInv, StoredAreKept, MintedAreKept, RevokedAreGone, McpTypes
  <1>2. CreatedAreKept' /\ CreatedApart' /\ RememberedBefore'
    BY DEF TokenInv, CreatedAreKept, CreatedApart, RememberedBefore, Creating
  <1>3. CreatedAreRemembered'
    BY StoreIsLoaded DEF TokenInv, CreatedAreRemembered, CreatedAreKept, Creating, McpTypes
  <1>4. MergesAreWhole' /\ UnindexedAreRevoked' /\ TouchedHaveScopes' /\ MergedAreTokens'
    BY DEF TokenInv, MergesAreWhole, UnindexedAreRevoked, TouchedHaveScopes, MergedAreTokens
  <1> QED BY <1>1, <1>2, <1>3, <1>4 DEF TokenInv
------------------------------------------------------------------------------
(* Tokens come and go.                                                         *)
LEMMA CreateTokenKeeps ==
  ASSUME McpInv, NEW q \in McpReqs, CreateToken(q)
  PROVE  McpInv'
  <1> USE DEF McpInv
  <1>1. PICK t \in Tokens \ (minted \cup revoked), scopes \in Granted :
          /\ scopes \subseteq AllScopes /\ kept[t] = {}
          /\ kept' = [kept EXCEPT ![t] = NormalizeScopes(scopes)]
          /\ Goto(q, [NoCall EXCEPT !.pc = "remember", !.h = handle, !.t = t])
    BY DEF CreateToken
  <1>2. At(q, "done") /\ store' = Store
        /\ UNCHANGED <<config, handle, index, indexBuilt, minted, revoked, late>>
    BY DEF CreateToken, history
  <1>3. NormalizeScopes(scopes) \in (SUBSET AllScopes) \ {{}}
    BY <1>1 DEF NormalizeScopes, AllScopes
  <1>4. /\ [NoCall EXCEPT !.pc = "remember", !.h = handle, !.t = t] \in Request
        /\ [NoCall EXCEPT !.pc = "remember", !.h = handle, !.t = t].pc = "remember"
        /\ [NoCall EXCEPT !.pc = "remember", !.h = handle, !.t = t].h = handle
        /\ [NoCall EXCEPT !.pc = "remember", !.h = handle, !.t = t].t = t
    BY NoCallIsRequest DEF Request, McpTypes
  <1>5. /\ mcpReqs' \in [McpReqs -> Request]
        /\ mcpReqs'[q].pc = "remember" /\ mcpReqs'[q].h = handle /\ mcpReqs'[q].t = t
        /\ \A p \in McpReqs : p # q => mcpReqs'[p] = mcpReqs[p]
    BY <1>1, <1>4, GotoChanges
  <1>6. McpTypes'
    BY <1>1, <1>2, <1>3, <1>5, StoreIsLoaded DEF McpTypes
  <1>7. kept'[t] # {} /\ \A u \in Tokens : u # t => kept'[u] = kept[u]
    BY <1>1, <1>3 DEF McpTypes
  <1>8. t \notin Store.tokens
    BY <1>1, StoreIsLoaded DEF TokenInv, StoredAreKept
  <1>9. StoredAreKept' /\ MintedAreKept' /\ RevokedAreGone'
    BY <1>1, <1>2, <1>7, <1>8, StoreIsLoaded
    DEF TokenInv, StoredAreKept, MintedAreKept, RevokedAreGone, McpTypes
  <1>10. CreatedAreKept' /\ CreatedApart' /\ RememberedBefore'
    BY <1>1, <1>2, <1>5, <1>7 DEF TokenInv, CreatedAreKept, CreatedApart, RememberedBefore, Creating, McpTypes
  <1>11. CreatedAreRemembered'
    BY <1>1, <1>2, <1>5, <1>7, <1>8, StoreIsLoaded
    DEF TokenInv, CreatedAreRemembered, CreatedAreKept, Creating, McpTypes
  <1>12. MergesAreWhole' /\ UnindexedAreRevoked' /\ TouchedHaveScopes' /\ MergedAreTokens'
    BY <1>2, <1>5 DEF TokenInv, MergesAreWhole, UnindexedAreRevoked, TouchedHaveScopes, MergedAreTokens
  <1> QED BY <1>6, <1>9, <1>10, <1>11, <1>12 DEF TokenInv

LEMMA RememberKeeps ==
  ASSUME McpInv, NEW q \in McpReqs, Remember(q)
  PROVE  McpInv'
  <1> USE DEF McpInv
  <1> DEFINE t == mcpReqs[q].t
  <1>1. /\ mcpReqs' \in [McpReqs -> Request] /\ mcpReqs[q].pc = "remember"
        /\ mcpReqs'[q].pc = "index" /\ mcpReqs'[q].t = t
        /\ \A p \in McpReqs : p # q => mcpReqs'[p] = mcpReqs[p]
    BY StepMoves DEF Remember, At
  <1>2. /\ store' = IF Open(q) THEN [store EXCEPT !.tokens = @ \cup {t}] ELSE store
        /\ UNCHANGED <<config, kept, handle, index, indexBuilt, minted, revoked, late>>
    BY DEF Remember, disk, history
  <1>3. t \in Tokens /\ t \notin minted /\ (t \in revoked \/ kept[t] # {})
    BY <1>1 DEF TokenInv, CreatedAreKept, Creating
  <1> HIDE DEF t
  <1>4. \/ /\ store' = [store EXCEPT !.tokens = @ \cup {t}]
           /\ store.loaded /\ t \notin revoked
        \/ /\ store' = store
           /\ t \in revoked \/ (store.loaded => t \in store.tokens)
    BY <1>1, <1>2 DEF TokenInv, CreatedAreRemembered, Creating, Open, t
  <1>5. /\ store' \in [loaded : BOOLEAN, tokens : SUBSET Tokens]
        /\ store'.loaded = store.loaded
        /\ store.tokens \subseteq store'.tokens /\ store'.tokens \subseteq store.tokens \cup {t}
        /\ t \in store'.tokens \/ t \in revoked \/ ~store.loaded
        /\ t \in store'.tokens => t \notin revoked \/ t \in store.tokens
    BY <1>3, <1>4 DEF McpTypes
  <1>6. McpTypes'
    BY <1>1, <1>2, <1>5 DEF McpTypes
  <1>7. StoredAreKept' /\ MintedAreKept' /\ RevokedAreGone'
    BY <1>2, <1>3, <1>5 DEF TokenInv, StoredAreKept, MintedAreKept, RevokedAreGone, McpTypes
  <1>8. CreatedAreKept' /\ CreatedApart' /\ RememberedBefore'
    BY <1>1, <1>2, <1>3 DEF TokenInv, CreatedAreKept, CreatedApart, RememberedBefore, Creating, t
  <1>9. CreatedAreRemembered'
    <2> SUFFICES ASSUME NEW p \in McpReqs, Creating(p)'
                 PROVE  IF mcpReqs'[p].pc = "remember" /\ mcpReqs'[p].h = handle'
                          THEN store'.loaded /\ mcpReqs'[p].t \notin store'.tokens /\ mcpReqs'[p].t \notin revoked'
                          ELSE mcpReqs'[p].t \in revoked' \/ (store'.loaded => mcpReqs'[p].t \in store'.tokens)
      BY DEF CreatedAreRemembered
    <2>1. CASE p = q
      BY <1>1, <1>2, <1>5, <2>1
    <2>2. CASE p # q
      <3>1. mcpReqs[p].t # t /\ Creating(p)
        BY <1>1, <2>2 DEF TokenInv, CreatedApart, Creating, t
      <3> QED BY <1>1, <1>2, <1>5, <2>2, <3>1 DEF TokenInv, CreatedAreRemembered
    <2> QED BY <2>1, <2>2
  <1>10. MergesAreWhole' /\ UnindexedAreRevoked' /\ TouchedHaveScopes' /\ MergedAreTokens'
    BY <1>1, <1>2 DEF TokenInv, MergesAreWhole, UnindexedAreRevoked, TouchedHaveScopes, MergedAreTokens
  <1> QED BY <1>6, <1>7, <1>8, <1>9, <1>10 DEF TokenInv

LEMMA IndexTokenKeeps ==
  ASSUME McpInv, NEW q \in McpReqs, IndexToken(q)
  PROVE  McpInv'
  <1> USE DEF McpInv
  <1> DEFINE t == mcpReqs[q].t
  <1>1. /\ mcpReqs' \in [McpReqs -> Request] /\ mcpReqs[q].pc = "index" /\ mcpReqs'[q].pc = "done"
        /\ \A p \in McpReqs : p # q => mcpReqs'[p] = mcpReqs[p]
    BY NoCallIsRequest, GotoChanges DEF IndexToken, At
  <1>2. /\ index' = index \cup {t} /\ minted' = minted \cup {t}
        /\ UNCHANGED <<config, kept, handle, store, indexBuilt, revoked, late>>
    BY DEF IndexToken, disk
  <1>3. t \in Tokens /\ (t \in revoked \/ (kept[t] # {} /\ (store.loaded => t \in store.tokens)))
    BY <1>1 DEF TokenInv, CreatedAreKept, CreatedAreRemembered, Creating
  <1>4. \A p \in McpReqs : p # q /\ Creating(p) => mcpReqs[p].t # t
    BY <1>1 DEF TokenInv, CreatedApart, Creating
  <1> HIDE DEF t
  <1>5. McpTypes'
    BY <1>1, <1>2, <1>3 DEF McpTypes
  <1>6. StoredAreKept' /\ MintedAreKept' /\ RevokedAreGone'
    BY <1>2, <1>3 DEF TokenInv, StoredAreKept, MintedAreKept, RevokedAreGone
  <1>7. CreatedAreKept' /\ CreatedApart' /\ RememberedBefore' /\ CreatedAreRemembered'
    BY <1>1, <1>2, <1>4 DEF TokenInv, CreatedAreKept, CreatedApart, RememberedBefore,
       CreatedAreRemembered, Creating
  <1>8. MergesAreWhole' /\ UnindexedAreRevoked' /\ TouchedHaveScopes' /\ MergedAreTokens'
    BY <1>1, <1>2 DEF TokenInv, MergesAreWhole, UnindexedAreRevoked, TouchedHaveScopes, MergedAreTokens
  <1> QED BY <1>5, <1>6, <1>7, <1>8 DEF TokenInv

LEMMA DeleteTokenKeeps ==
  ASSUME McpInv, NEW q \in McpReqs, NEW t \in Tokens, DeleteToken(q, t)
  PROVE  McpInv'
  <1> USE DEF McpInv
  <1>1. /\ [NoCall EXCEPT !.pc = "unindex", !.t = t] \in Request
        /\ [NoCall EXCEPT !.pc = "unindex", !.t = t].pc = "unindex"
        /\ [NoCall EXCEPT !.pc = "unindex", !.t = t].t = t
    BY NoCallIsRequest DEF Request
  <1>2. /\ mcpReqs' \in [McpReqs -> Request] /\ mcpReqs[q].pc = "done"
        /\ mcpReqs'[q].pc = "unindex" /\ mcpReqs'[q].t = t
        /\ \A p \in McpReqs : p # q => mcpReqs'[p] = mcpReqs[p]
    BY <1>1, GotoChanges DEF DeleteToken, At
  <1>3. /\ t \in Store.tokens /\ kept' = [kept EXCEPT ![t] = {}]
        /\ store' = [Store EXCEPT !.tokens = @ \ {t}] /\ revoked' = revoked \cup {t}
        /\ UNCHANGED <<config, handle, index, indexBuilt, minted, late>>
    BY DEF DeleteToken
  <1>4. /\ store' \in [loaded : BOOLEAN, tokens : SUBSET Tokens]
        /\ store'.loaded /\ store'.tokens = Store.tokens \ {t}
    BY <1>3, StoreIsLoaded
  <1>5. kept' \in [Tokens -> SUBSET AllScopes] /\ kept'[t] = {} /\ \A u \in Tokens : u # t => kept'[u] = kept[u]
    BY <1>3 DEF McpTypes
  <1>6. McpTypes'
    BY <1>2, <1>3, <1>4, <1>5 DEF McpTypes
  <1>7. StoredAreKept' /\ MintedAreKept' /\ RevokedAreGone'
    BY <1>3, <1>4, <1>5, StoreIsLoaded DEF TokenInv, StoredAreKept, MintedAreKept, RevokedAreGone, McpTypes
  <1>8. CreatedAreKept' /\ CreatedApart' /\ RememberedBefore'
    BY <1>2, <1>3, <1>5 DEF TokenInv, CreatedAreKept, CreatedApart, RememberedBefore, Creating
  <1>9. CreatedAreRemembered'
    BY <1>2, <1>3, <1>4, StoreIsLoaded DEF TokenInv, CreatedAreRemembered, CreatedAreKept, Creating
  <1>10. MergesAreWhole' /\ UnindexedAreRevoked' /\ TouchedHaveScopes' /\ MergedAreTokens'
    BY <1>2, <1>3 DEF TokenInv, MergesAreWhole, UnindexedAreRevoked, TouchedHaveScopes, MergedAreTokens
  <1> QED BY <1>6, <1>7, <1>8, <1>9, <1>10 DEF TokenInv

LEMMA UnindexKeeps ==
  ASSUME McpInv, NEW q \in McpReqs, Unindex(q)
  PROVE  McpInv'
  <1> USE DEF McpInv
  <1>1. /\ mcpReqs' \in [McpReqs -> Request] /\ mcpReqs[q].pc = "unindex" /\ mcpReqs'[q].pc = "done"
        /\ \A p \in McpReqs : p # q => mcpReqs'[p] = mcpReqs[p]
    BY NoCallIsRequest, GotoChanges DEF Unindex, At
  <1>2. /\ index' = index \ {mcpReqs[q].t} /\ mcpReqs[q].t \in revoked
        /\ UNCHANGED <<config, kept, handle, store, indexBuilt, minted, revoked, late>>
    BY <1>1 DEF Unindex, disk, history, TokenInv, UnindexedAreRevoked
  <1>3. McpTypes'
    BY <1>1, <1>2 DEF McpTypes
  <1>4. StoredAreKept' /\ MintedAreKept' /\ RevokedAreGone'
    BY <1>2 DEF TokenInv, StoredAreKept, MintedAreKept, RevokedAreGone
  <1>5. CreatedAreKept' /\ CreatedApart' /\ RememberedBefore' /\ CreatedAreRemembered'
    BY <1>1, <1>2 DEF TokenInv, CreatedAreKept, CreatedApart, RememberedBefore, CreatedAreRemembered, Creating
  <1>6. MergesAreWhole' /\ UnindexedAreRevoked' /\ TouchedHaveScopes' /\ MergedAreTokens'
    BY <1>1, <1>2 DEF TokenInv, MergesAreWhole, UnindexedAreRevoked, TouchedHaveScopes, MergedAreTokens
  <1> QED BY <1>3, <1>4, <1>5, <1>6 DEF TokenInv

(* The index is built from a reading of the store, while tokens are made.      *)
LEMMA EnsureIndexKeeps ==
  ASSUME McpInv, NEW q \in McpReqs, NEW t \in Tokens, ensureIndex(q, t)
  PROVE  McpInv'
  <1> USE DEF McpInv
  <1> DEFINE call == [NoCall EXCEPT !.pc = "merge", !.t = t, !.doc = Store.tokens]
  <1>1. call \in Request /\ call.pc = "merge" /\ call.doc = Store.tokens
    BY NoCallIsRequest, StoreIsLoaded DEF Request
  <1>2. Goto(q, call) /\ mcpReqs[q].pc = "done" /\ store' = Store
        /\ UNCHANGED <<config, kept, handle, index, indexBuilt, minted, revoked, late>>
    BY DEF ensureIndex, At, disk, history
  <1> HIDE DEF call
  <1>3. /\ mcpReqs' \in [McpReqs -> Request]
        /\ mcpReqs'[q].pc = "merge" /\ mcpReqs'[q].doc = Store.tokens
        /\ \A p \in McpReqs : p # q => mcpReqs'[p] = mcpReqs[p]
    BY <1>1, <1>2, GotoChanges
  <1>4. McpTypes'
    BY <1>2, <1>3, StoreIsLoaded DEF McpTypes
  <1>5. StoredAreKept' /\ MintedAreKept' /\ RevokedAreGone'
    BY <1>2, StoreIsLoaded DEF TokenInv, StoredAreKept, MintedAreKept, RevokedAreGone, McpTypes
  <1>6. CreatedAreKept' /\ CreatedApart' /\ RememberedBefore'
    BY <1>2, <1>3 DEF TokenInv, CreatedAreKept, CreatedApart, RememberedBefore, Creating
  <1>7. CreatedAreRemembered'
    BY <1>2, <1>3, StoreIsLoaded DEF TokenInv, CreatedAreRemembered, CreatedAreKept, Creating, McpTypes
  <1>8. minted \ revoked \subseteq Store.tokens /\ Store.tokens \subseteq Tokens
    BY StoreIsLoaded DEF TokenInv, MintedAreKept, McpTypes
  <1>9. MergesAreWhole' /\ UnindexedAreRevoked' /\ TouchedHaveScopes' /\ MergedAreTokens'
    BY <1>2, <1>3, <1>8 DEF TokenInv, MergesAreWhole, UnindexedAreRevoked, TouchedHaveScopes, MergedAreTokens
  <1> QED BY <1>4, <1>5, <1>6, <1>7, <1>9 DEF TokenInv

LEMMA MergeIndexKeeps ==
  ASSUME McpInv, NEW q \in McpReqs, MergeIndex(q)
  PROVE  McpInv'
  <1> USE DEF McpInv
  <1>1. /\ mcpReqs' \in [McpReqs -> Request] /\ mcpReqs[q].pc = "merge" /\ mcpReqs'[q].pc = "done"
        /\ \A p \in McpReqs : p # q => mcpReqs'[p] = mcpReqs[p]
    BY NoCallIsRequest, GotoChanges DEF MergeIndex, At
  <1>2. /\ index' = IF indexBuilt THEN index ELSE index \cup mcpReqs[q].doc
        /\ indexBuilt' = TRUE
        /\ UNCHANGED <<config, kept, handle, store, minted, revoked, late>>
    BY DEF MergeIndex, disk, history
  <1>3. mcpReqs[q].doc \subseteq Tokens /\ (indexBuilt \/ minted \ revoked \subseteq index \cup mcpReqs[q].doc)
    BY <1>1 DEF TokenInv, MergedAreTokens, MergesAreWhole
  <1>4. McpTypes'
    BY <1>1, <1>2, <1>3 DEF McpTypes
  <1>5. StoredAreKept' /\ MintedAreKept' /\ RevokedAreGone'
    BY <1>2, <1>3 DEF TokenInv, StoredAreKept, MintedAreKept, RevokedAreGone
  <1>6. CreatedAreKept' /\ CreatedApart' /\ RememberedBefore' /\ CreatedAreRemembered'
    BY <1>1, <1>2 DEF TokenInv, CreatedAreKept, CreatedApart, RememberedBefore, CreatedAreRemembered, Creating
  <1>7. MergesAreWhole' /\ UnindexedAreRevoked' /\ TouchedHaveScopes' /\ MergedAreTokens'
    BY <1>1, <1>2 DEF TokenInv, MergesAreWhole, UnindexedAreRevoked, TouchedHaveScopes, MergedAreTokens
  <1> QED BY <1>4, <1>5, <1>6, <1>7 DEF TokenInv
(* The use of a token is saved, over its deletion if there was one.            *)
LEMMA TouchKeeps ==
  ASSUME McpInv, NEW q \in McpReqs, Touch(q)
  PROVE  McpInv'
  <1> USE DEF McpInv
  <1> DEFINE t == mcpReqs[q].t
  <1>1. mcpReqs[q].pc = "touch" /\ t \in Tokens /\ mcpReqs[q].doc \in (SUBSET AllScopes) \ {{}}
    BY DEF Touch, At, TokenInv, TouchedHaveScopes
  <1>2. UNCHANGED <<config, handle, store, index, indexBuilt, minted, revoked>>
    BY DEF Touch
  <1>3. /\ mcpReqs' \in [McpReqs -> Request] /\ mcpReqs'[q].pc \in {"call", "done"}
        /\ \A p \in McpReqs : p # q => mcpReqs'[p] = mcpReqs[p]
    BY NoCallIsRequest, GotoChanges, StepMoves DEF Touch
  <1>4. CASE ~Open(q)
    <2>1. UNCHANGED <<kept, late>>
      BY <1>4 DEF Touch
    <2>2. McpTypes'
      BY <1>2, <1>3, <2>1 DEF McpTypes
    <2> QED BY <1>2, <1>3, <2>1, <2>2, QuietKeeps DEF Creating
  <1>5. CASE Open(q)
    <2>1. /\ kept' = [kept EXCEPT ![t] = mcpReqs[q].doc]
          /\ late' = IF kept[t] = {} THEN late \cup {t} ELSE late
      BY <1>5 DEF Touch
    <2> HIDE DEF t
    <2>2. kept' \in [Tokens -> SUBSET AllScopes] /\ kept'[t] # {} /\ \A u \in Tokens : u # t => kept'[u] = kept[u]
      BY <1>1, <2>1 DEF McpTypes
    <2>3. McpTypes'
      BY <1>1, <1>2, <1>3, <2>1, <2>2 DEF McpTypes
    <2>4. StoredAreKept' /\ MintedAreKept'
      BY <1>2, <2>2 DEF TokenInv, StoredAreKept, MintedAreKept, McpTypes
    <2>5. RevokedAreGone'
      BY <1>1, <1>2, <2>1, <2>2 DEF TokenInv, RevokedAreGone, McpTypes
    <2>6. CreatedAreKept' /\ CreatedApart' /\ RememberedBefore' /\ CreatedAreRemembered'
      BY <1>1, <1>2, <1>3, <2>2 DEF TokenInv, CreatedAreKept, CreatedApart, RememberedBefore,
         CreatedAreRemembered, Creating
    <2>7. MergesAreWhole' /\ UnindexedAreRevoked' /\ TouchedHaveScopes' /\ MergedAreTokens'
      BY <1>1, <1>2, <1>3 DEF TokenInv, MergesAreWhole, UnindexedAreRevoked, TouchedHaveScopes, MergedAreTokens
    <2> QED BY <2>3, <2>4, <2>5, <2>6, <2>7 DEF TokenInv
  <1> QED BY <1>4, <1>5

LEMMA ReloadKeeps ==
  ASSUME McpInv, Reload
  PROVE  McpInv'
  <1>1. /\ handle' = handle + 1 /\ store' = NoStore
        /\ UNCHANGED <<config, kept, index, indexBuilt, mcpReqs, minted, revoked, late>>
    BY DEF Reload, history
  <1>2. store' \in [loaded : BOOLEAN, tokens : SUBSET Tokens] /\ ~store'.loaded
    BY <1>1 DEF NoStore
  <1>3. McpTypes'
    BY <1>1, <1>2 DEF McpInv, McpTypes
  <1>4. StoredAreKept' /\ MintedAreKept' /\ RevokedAreGone' /\ CreatedAreKept' /\ CreatedApart'
    BY <1>1, <1>2 DEF McpInv, TokenInv, StoredAreKept, MintedAreKept, RevokedAreGone, CreatedAreKept,
       CreatedApart, Creating
  <1>5. RememberedBefore' /\ CreatedAreRemembered'
    BY <1>1, <1>2 DEF McpInv, McpTypes, Request, TokenInv, RememberedBefore, CreatedAreRemembered, Creating
  <1>6. MergesAreWhole' /\ UnindexedAreRevoked' /\ TouchedHaveScopes' /\ MergedAreTokens'
    BY <1>1 DEF McpInv, TokenInv, MergesAreWhole, UnindexedAreRevoked, TouchedHaveScopes, MergedAreTokens
  <1> QED BY <1>3, <1>4, <1>5, <1>6 DEF McpInv, TokenInv

LEMMA RestartKeeps ==
  ASSUME McpInv, RestartMcp
  PROVE  McpInv'
  <1>1. /\ handle' = handle + 1 /\ store' = NoStore /\ index' = {} /\ indexBuilt' = FALSE
        /\ mcpReqs' = [q \in McpReqs |-> NoCall]
        /\ UNCHANGED <<config, kept, minted, revoked, late>>
    BY DEF RestartMcp, history
  <1>2. store' \in [loaded : BOOLEAN, tokens : SUBSET Tokens] /\ ~store'.loaded
    BY <1>1 DEF NoStore
  <1>3. mcpReqs' \in [McpReqs -> Request] /\ \A q \in McpReqs : mcpReqs'[q].pc = "done"
    BY <1>1, NoCallIsRequest
  <1>4. McpTypes'
    <2>1. handle' \in Nat
      BY <1>1 DEF McpInv, McpTypes
    <2>2. index' \subseteq Tokens
      BY <1>1
    <2>3. indexBuilt' \in BOOLEAN
      BY <1>1
    <2>4. kept' \in [Tokens -> SUBSET AllScopes] /\ config' \in Settings
          /\ minted' \cup revoked' \cup late' \subseteq Tokens
      BY <1>1 DEF McpInv, McpTypes
    <2> QED BY <1>2, <1>3, <2>1, <2>2, <2>3, <2>4 DEF McpTypes
  <1>5. StoredAreKept' /\ MintedAreKept' /\ RevokedAreGone'
    BY <1>1, <1>2 DEF McpInv, TokenInv, StoredAreKept, MintedAreKept, RevokedAreGone
  <1>6. CreatedAreKept' /\ CreatedApart' /\ RememberedBefore' /\ CreatedAreRemembered'
    BY <1>3 DEF CreatedAreKept, CreatedApart, RememberedBefore, CreatedAreRemembered, Creating
  <1>7. MergesAreWhole' /\ UnindexedAreRevoked' /\ TouchedHaveScopes' /\ MergedAreTokens'
    BY <1>3 DEF MergesAreWhole, UnindexedAreRevoked, TouchedHaveScopes, MergedAreTokens
  <1> QED BY <1>4, <1>5, <1>6, <1>7 DEF McpInv, TokenInv

------------------------------------------------------------------------------
(* Settings, calls of tools and the records they write.                        *)
LoggedCall == [tool : Called \cup {"none"}, ok : BOOLEAN]

\* A call that is under way names a record, and writes the fields of requests.
RecordInv ==
  /\ docs \in [RecordIds -> SUBSET McpReqs]
  /\ calls \in Seq(LoggedCall) /\ Len(calls) <= RingSize
  /\ \A q \in McpReqs :
       /\ mcpReqs[q].pc \in {"touch", "call", "write"} => mcpReqs[q].id \in RecordIds
       /\ mcpReqs[q].pc = "write" => mcpReqs[q].doc \subseteq McpReqs

LEMMA SettingsChange ==
  ASSUME McpTypes
  PROVE  /\ \A on \in BOOLEAN : [config EXCEPT !.enabled = on] \in Settings
         /\ \A off \in Disabled : [config EXCEPT !.disabled = off] \in Settings
  BY McpAssumption DEF McpTypes, Settings

LEMMA SetMCPKeeps ==
  ASSUME McpInv, RecordInv, NEW q \in McpReqs, NEW changed \in Settings,
         handleAdminSetMCP(q, changed)
  PROVE  McpInv' /\ RecordInv'
  <1> DEFINE call == [NoCall EXCEPT !.pc = "set", !.h = handle, !.cfg = changed]
  <1>1. call \in Request /\ call.pc = "set"
    BY NoCallIsRequest DEF McpInv, McpTypes, Request
  <1>2. Goto(q, call) /\ store' = Store
        /\ UNCHANGED <<config, kept, handle, index, indexBuilt, calls, docs, minted, revoked, late>>
    BY DEF handleAdminSetMCP, disk, history
  <1> HIDE DEF call
  <1>3. /\ mcpReqs' \in [McpReqs -> Request] /\ mcpReqs'[q].pc = "set"
        /\ \A p \in McpReqs : p # q => mcpReqs'[p] = mcpReqs[p]
    BY <1>1, <1>2, GotoChanges DEF McpInv
  <1>4. McpTypes'
    BY <1>2, <1>3, StoreIsLoaded DEF McpInv, McpTypes
  <1>5. TokenInv'
    BY <1>2, <1>3, QuietKeeps DEF McpInv, Creating
  <1> QED BY <1>2, <1>3, <1>4, <1>5 DEF McpInv, RecordInv

\* The end of a request that changes no token.
LEMMA EndKeeps ==
  ASSUME McpInv, RecordInv, NEW q \in McpReqs, Goto(q, NoCall), config' \in Settings,
         UNCHANGED <<kept, handle, store, index, indexBuilt, minted, revoked, late>>
  PROVE  /\ McpInv'
         /\ docs' \in [RecordIds -> SUBSET McpReqs] /\ calls' \in Seq(LoggedCall)
              /\ Len(calls') <= RingSize => RecordInv'
  <1>1. /\ mcpReqs' \in [McpReqs -> Request] /\ mcpReqs'[q].pc = "done"
        /\ \A p \in McpReqs : p # q => mcpReqs'[p] = mcpReqs[p]
    BY NoCallIsRequest, GotoChanges DEF McpInv
  <1>2. McpTypes'
    BY <1>1 DEF McpInv, McpTypes
  <1>3. TokenInv'
    BY <1>1, QuietKeeps DEF McpInv, Creating
  <1> QED BY <1>1, <1>2, <1>3 DEF McpInv, RecordInv

LEMMA ServeHTTPKeeps ==
  ASSUME McpInv, RecordInv, NEW q \in McpReqs, NEW t \in Tokens, NEW tool \in Called,
         NEW i \in RecordIds, ServeHTTP(q, t, tool, i)
  PROVE  McpInv' /\ RecordInv'
  <1>1. PICK pc \in {"touch", "call"} :
          Goto(q, [NoCall EXCEPT !.pc = pc, !.h = handle, !.t = t, !.tool = tool,
                                 !.id = i, !.cfg = config, !.doc = kept[t]])
    BY DEF ServeHTTP
  <1> DEFINE call == [NoCall EXCEPT !.pc = pc, !.h = handle, !.t = t, !.tool = tool,
                                    !.id = i, !.cfg = config, !.doc = kept[t]]
  <1>2. kept[t] \in (SUBSET AllScopes) \ {{}}
    BY StoreIsLoaded DEF ServeHTTP, authenticate, McpInv, McpTypes, TokenInv, StoredAreKept
  <1>3. call \in Request /\ call.pc = pc /\ call.t = t /\ call.id = i /\ call.doc = kept[t]
    BY <1>2, NoCallIsRequest DEF McpInv, McpTypes, Request
  <1>4. store' = Store
        /\ UNCHANGED <<config, kept, handle, index, indexBuilt, calls, docs, minted, revoked, late>>
    BY DEF ServeHTTP, disk, history
  <1> HIDE DEF call
  <1>5. /\ mcpReqs' \in [McpReqs -> Request] /\ mcpReqs'[q].pc = pc /\ mcpReqs'[q].t = t
        /\ mcpReqs'[q].id = i /\ mcpReqs'[q].doc = kept[t]
        /\ \A p \in McpReqs : p # q => mcpReqs'[p] = mcpReqs[p]
    BY <1>1, <1>3, GotoChanges DEF McpInv, call
  <1>6. McpTypes'
    BY <1>4, <1>5, StoreIsLoaded DEF McpInv, McpTypes
  <1>7. TokenInv'
    BY <1>2, <1>4, <1>5, QuietKeeps DEF McpInv, Creating
  <1> QED BY <1>4, <1>5, <1>6, <1>7 DEF McpInv, RecordInv

\* The log of calls is a ring.
LEMMA RecordedCall ==
  ASSUME McpInv, RecordInv, NEW q \in McpReqs, NEW ok \in BOOLEAN, recordCall(q, ok)
  PROVE  calls' \in Seq(LoggedCall) /\ Len(calls') <= RingSize
  <1> DEFINE longer == Append(calls, [tool |-> mcpReqs[q].tool, ok |-> ok])
  <1>1. longer \in Seq(LoggedCall) /\ Len(longer) = Len(calls) + 1
    BY DEF McpInv, McpTypes, Request, RecordInv, LoggedCall
  <1>2. calls' = IF Len(longer) > RingSize THEN Tail(longer) ELSE longer
    BY DEF recordCall, Trimmed
  <1> HIDE DEF longer
  <1>3. Len(longer) <= RingSize + 1 /\ Len(longer) > 0
    BY <1>1, McpAssumption DEF RecordInv
  <1> QED BY <1>1, <1>2, <1>3, McpAssumption

LEMMA ToolsAnswer ==
  ASSUME McpInv, RecordInv, NEW q \in McpReqs, mcpReqs[q].pc = "call"
  PROVE  /\ safeRun(q).ok \in BOOLEAN /\ safeRun(q).doc \in SUBSET McpReqs
  <1>1. Found(q) \in SUBSET McpReqs
    BY DEF RecordInv, Found
  <1>2. collectionArg(q, TRUE) \in BOOLEAN /\ collectionArg(q, FALSE) \in BOOLEAN
    BY DEF collectionArg
  <1> DEFINE Answer == [ok : BOOLEAN, writes : BOOLEAN, doc : SUBSET McpReqs]
  <1>3. /\ get_record(q) \in Answer /\ query_records(q) \in Answer /\ insert_record(q) \in Answer
        /\ update_record(q) \in Answer /\ delete_record(q) \in Answer /\ Reads(TRUE) \in Answer
    BY <1>1, <1>2 DEF get_record, query_records, insert_record, update_record, delete_record, Reads
  <1>4. safeRun(q) \in {get_record(q), query_records(q), insert_record(q), update_record(q),
                        delete_record(q), Reads(TRUE)}
    BY DEF safeRun
  <1> QED BY <1>3, <1>4

LEMMA CallToolKeeps ==
  ASSUME McpInv, RecordInv, NEW q \in McpReqs, callTool(q)
  PROVE  McpInv' /\ RecordInv'
  <1>1. mcpReqs[q].pc = "call" /\ mcpReqs[q].id \in RecordIds
        /\ UNCHANGED <<config, kept, handle, store, index, indexBuilt, docs, minted, revoked, late>>
    BY DEF callTool, At, disk, history, RecordInv
  <1>2. safeRun(q).ok \in BOOLEAN /\ safeRun(q).doc \in SUBSET McpReqs
    BY <1>1, ToolsAnswer
  <1>3. toolAllowed(q) \in BOOLEAN
    BY DEF toolAllowed
  <1>4. CASE Goto(q, NoCall) /\ recordCall(q, toolAllowed(q) /\ safeRun(q).ok)
    <2>1. (toolAllowed(q) /\ safeRun(q).ok) \in BOOLEAN
      BY <1>2, <1>3
    <2>2. calls' \in Seq(LoggedCall) /\ Len(calls') <= RingSize
      BY <1>4, <2>1, RecordedCall
    <2>3. config' \in Settings /\ docs' \in [RecordIds -> SUBSET McpReqs]
      BY <1>1 DEF McpInv, McpTypes, RecordInv
    <2> QED BY <1>1, <1>4, <2>2, <2>3, EndKeeps
  <1>5. CASE Goto(q, [mcpReqs[q] EXCEPT !.pc = "write", !.h = handle, !.doc = safeRun(q).doc]) /\ UNCHANGED calls
    <2> DEFINE call == [mcpReqs[q] EXCEPT !.pc = "write", !.h = handle, !.doc = safeRun(q).doc]
    <2>1. call \in Request /\ call.pc = "write" /\ call.id = mcpReqs[q].id /\ call.doc = safeRun(q).doc
      <3> DEFINE d == safeRun(q).doc
                 r == mcpReqs[q]
      <3>1. d \in SUBSET McpReqs /\ r \in Request /\ handle \in Nat
        BY <1>2 DEF McpInv, McpTypes
      <3> HIDE DEF d, r
      <3>2. /\ [r EXCEPT !.pc = "write", !.h = handle, !.doc = d] \in Request
            /\ [r EXCEPT !.pc = "write", !.h = handle, !.doc = d].pc = "write"
            /\ [r EXCEPT !.pc = "write", !.h = handle, !.doc = d].id = r.id
            /\ [r EXCEPT !.pc = "write", !.h = handle, !.doc = d].doc = d
        BY <3>1 DEF Request
      <3> QED BY <3>2 DEF d, r
    <2> HIDE DEF call
    <2>2. /\ mcpReqs' \in [McpReqs -> Request] /\ mcpReqs'[q].pc = "write"
          /\ mcpReqs'[q].id = mcpReqs[q].id /\ mcpReqs'[q].doc = safeRun(q).doc
          /\ \A p \in McpReqs : p # q => mcpReqs'[p] = mcpReqs[p]
      BY <1>5, <2>1, GotoChanges DEF McpInv, call
    <2>3. McpTypes'
      BY <1>1, <2>2 DEF McpInv, McpTypes
    <2>4. TokenInv'
      BY <1>1, <2>2, QuietKeeps DEF McpInv, Creating
    <2> QED BY <1>1, <1>2, <1>5, <2>2, <2>3, <2>4 DEF McpInv, RecordInv
  <1> QED BY <1>4, <1>5 DEF callTool

LEMMA WriteRecordKeeps ==
  ASSUME McpInv, RecordInv, NEW q \in McpReqs, WriteRecord(q)
  PROVE  McpInv' /\ RecordInv'
  <1>1. /\ Goto(q, NoCall) /\ recordCall(q, Open(q))
        /\ UNCHANGED <<config, kept, handle, store, index, indexBuilt, minted, revoked, late>>
    BY DEF WriteRecord, disk, history
  <1>2. docs' \in [RecordIds -> SUBSET McpReqs]
    BY DEF WriteRecord, At, RecordInv
  <1>3. Open(q) \in BOOLEAN
    BY DEF Open
  <1>4. calls' \in Seq(LoggedCall) /\ Len(calls') <= RingSize
    BY <1>1, <1>3, RecordedCall
  <1>5. config' \in Settings
    BY <1>1 DEF McpInv, McpTypes
  <1> QED BY <1>1, <1>2, <1>4, <1>5, EndKeeps

LEMMA SetConfigKeeps ==
  ASSUME McpInv, RecordInv, NEW q \in McpReqs, SetConfig(q)
  PROVE  McpInv' /\ RecordInv'
  <1>1. config' \in Settings
    BY DEF SetConfig, McpInv, McpTypes, Request
  <1> QED BY <1>1, EndKeeps DEF SetConfig, history, RecordInv

\* A step on tokens leaves the records, the log and the calls of others alone.
LEMMA TokenStepsKeepRecords ==
  ASSUME McpInv, RecordInv, NEW q \in McpReqs,
         \/ CreateToken(q) \/ Remember(q) \/ IndexToken(q) \/ Unindex(q) \/ MergeIndex(q) \/ Touch(q)
         \/ \E t \in Tokens : DeleteToken(q, t) \/ ensureIndex(q, t)
  PROVE  RecordInv'
  <1>1. docs' = docs /\ calls' = calls
    BY DEF CreateToken, Remember, IndexToken, Unindex, MergeIndex, Touch, DeleteToken, ensureIndex
  <1>2. ASSUME NEW call \in Request, Goto(q, call), call.pc \notin {"touch", "call", "write"}
        PROVE  RecordInv'
    BY <1>1, <1>2, GotoChanges DEF McpInv, RecordInv
  <1>3. CASE CreateToken(q)
    <2>1. PICK t \in Tokens : Goto(q, [NoCall EXCEPT !.pc = "remember", !.h = handle, !.t = t])
      BY <1>3 DEF CreateToken
    <2>2. /\ [NoCall EXCEPT !.pc = "remember", !.h = handle, !.t = t] \in Request
          /\ [NoCall EXCEPT !.pc = "remember", !.h = handle, !.t = t].pc = "remember"
      BY NoCallIsRequest DEF Request, McpInv, McpTypes
    <2> QED BY <1>2, <2>1, <2>2
  <1>4. CASE Remember(q)
    BY <1>1, <1>4, StepMoves DEF Remember, McpInv, RecordInv
  <1>5. CASE IndexToken(q) \/ Unindex(q) \/ MergeIndex(q)
    BY <1>2, <1>5, NoCallIsRequest DEF IndexToken, Unindex, MergeIndex
  <1>6. CASE Touch(q)
    <2>1. CASE Goto(q, NoCall)
      BY <1>2, <2>1, NoCallIsRequest
    <2>2. CASE Step(q, "call")
      <3>1. mcpReqs'[q].id = mcpReqs[q].id
        BY <2>2 DEF Step, Goto, McpInv, McpTypes, Request
      <3> QED BY <1>1, <1>6, <2>2, <3>1, StepMoves DEF McpInv, RecordInv, Touch, At
    <2> QED BY <1>6, <2>1, <2>2 DEF Touch
  <1>7. ASSUME NEW t \in Tokens, DeleteToken(q, t) PROVE RecordInv'
    <2>1. /\ [NoCall EXCEPT !.pc = "unindex", !.t = t] \in Request
          /\ [NoCall EXCEPT !.pc = "unindex", !.t = t].pc = "unindex"
      BY NoCallIsRequest DEF Request
    <2> QED BY <1>2, <1>7, <2>1 DEF DeleteToken
  <1>8. ASSUME NEW t \in Tokens, ensureIndex(q, t) PROVE RecordInv'
    <2>1. /\ [NoCall EXCEPT !.pc = "merge", !.t = t, !.doc = Store.tokens] \in Request
          /\ [NoCall EXCEPT !.pc = "merge", !.t = t, !.doc = Store.tokens].pc = "merge"
      BY NoCallIsRequest, StoreIsLoaded DEF Request, McpInv
    <2> QED BY <1>2, <1>8, <2>1 DEF ensureIndex
  <1> QED BY <1>3, <1>4, <1>5, <1>6, <1>7, <1>8

LEMMA McpInit_Inv == McpInit => McpInv /\ RecordInv
  <1> SUFFICES ASSUME McpInit PROVE McpInv /\ RecordInv
    OBVIOUS
  <1>1. mcpReqs \in [McpReqs -> Request] /\ \A q \in McpReqs : mcpReqs[q].pc = "done"
    BY NoCallIsRequest DEF McpInit
  <1>2. McpTypes
    BY <1>1 DEF McpInit, McpTypes, NoStore, NoConfig, Settings
  <1>3. TokenInv
    BY <1>1 DEF McpInit, TokenInv, NoStore, StoredAreKept, MintedAreKept, RevokedAreGone, CreatedAreKept,
       CreatedApart, CreatedAreRemembered, RememberedBefore, Creating, MergesAreWhole,
       UnindexedAreRevoked, TouchedHaveScopes, MergedAreTokens
  <1>4. RecordInv
    BY <1>1, McpAssumption DEF McpInit, RecordInv
  <1> QED BY <1>2, <1>3, <1>4 DEF McpInv

LEMMA McpNext_Inv == McpInv /\ RecordInv /\ [McpNext]_mcpVars => (McpInv /\ RecordInv)'
  <1> SUFFICES ASSUME McpInv, RecordInv, [McpNext]_mcpVars PROVE McpInv' /\ RecordInv'
    OBVIOUS
  <1>1. CASE Reload
    BY <1>1, ReloadKeeps DEF Reload, RecordInv
  <1>2. CASE RestartMcp
    <2>1. docs' = docs /\ calls' = <<>> /\ \A q \in McpReqs : mcpReqs'[q].pc = "done"
      BY <1>2, NoCallIsRequest DEF RestartMcp
    <2> QED BY <1>2, <2>1, RestartKeeps, McpAssumption DEF RecordInv
  <1>3. ASSUME NEW q \in McpReqs, NEW on \in BOOLEAN, handleAdminSetMCP(q, [config EXCEPT !.enabled = on])
        PROVE  McpInv' /\ RecordInv'
    BY <1>3, SetMCPKeeps, SettingsChange DEF McpInv
  <1>4. ASSUME NEW q \in McpReqs, NEW off \in Disabled, handleAdminSetMCP(q, [config EXCEPT !.disabled = off])
        PROVE  McpInv' /\ RecordInv'
    BY <1>4, SetMCPKeeps, SettingsChange DEF McpInv
  <1>5. CASE UNCHANGED mcpVars
    BY <1>5 DEF mcpVars, McpInv, McpTypes, TokenInv, RecordInv, StoredAreKept, MintedAreKept, RevokedAreGone,
       CreatedAreKept, CreatedApart, CreatedAreRemembered, RememberedBefore, Creating, MergesAreWhole,
       UnindexedAreRevoked, TouchedHaveScopes, MergedAreTokens
  <1>6. ASSUME NEW q \in McpReqs,
               \/ CreateToken(q) \/ Remember(q) \/ IndexToken(q) \/ Unindex(q) \/ MergeIndex(q) \/ Touch(q)
               \/ \E t \in Tokens : DeleteToken(q, t) \/ ensureIndex(q, t)
        PROVE  McpInv' /\ RecordInv'
    BY <1>6, TokenStepsKeepRecords, CreateTokenKeeps, RememberKeeps, IndexTokenKeeps, UnindexKeeps,
       MergeIndexKeeps, TouchKeeps, DeleteTokenKeeps, EnsureIndexKeeps
  <1> QED BY <1>1, <1>2, <1>3, <1>4, <1>5, <1>6, SetConfigKeeps, CallToolKeeps, WriteRecordKeeps,
             ServeHTTPKeeps DEF McpNext

LEMMA HandlesStart == McpInit => handle \in 0..MaxReloads
  BY McpAssumption DEF McpInit

LEMMA HandlesCount == handle \in 0..MaxReloads /\ [McpNext]_mcpVars => (handle \in 0..MaxReloads)'
  <1>1. [McpNext]_mcpVars => handle' = handle \/ (handle < MaxReloads /\ handle' = handle + 1)
    BY ZenonT(60) DEF McpNext, mcpVars, disk, Reload, RestartMcp, handleAdminSetMCP, SetConfig, MergeIndex,
       Touch, callTool, WriteRecord, CreateToken, Remember, IndexToken, Unindex, DeleteToken, ensureIndex, ServeHTTP
  <1> QED BY <1>1, McpAssumption

LEMMA McpTyped == McpInv /\ RecordInv /\ handle \in 0..MaxReloads => McpTypeOK
  BY DEF McpInv, McpTypes, RecordInv, McpTypeOK, Settings

(* The strengthening that the properties of the endpoint rest on: what is said *)
(* of a token on disk, in the store and in the index, and of the requests that *)
(* carry one from one of these to the next. *)
THEOREM McpInductive == McpSpec => [](McpInv /\ RecordInv)
  BY McpInit_Inv, McpNext_Inv, PTL DEF McpSpec

(* The variables of the endpoint keep their types; the log of calls is bounded. *)
THEOREM McpTypeCorrect == McpSpec => []McpTypeOK
  BY McpTyped, HandlesStart, HandlesCount, McpInductive, PTL DEF McpSpec

(* A token opens the endpoint from when it is handed out until it is deleted,  *)
(* through any order of the steps of requests, reloads and restarts, and never *)
(* after, unless a use of it was saved over its deletion. *)
THEOREM TokensHonoured == McpSpec => []TokensAreHonoured
  <1>1. McpInv => HandedOutTokensWork
    BY StoreIsLoaded DEF McpInv, McpTypes, TokenInv, MintedAreKept, HandedOutTokensWork
  <1>2. McpInv => RevokedTokensAreRefused
    BY StoreIsLoaded DEF McpInv, McpTypes, TokenInv, RevokedAreGone, RevokedTokensAreRefused, authenticate
  <1> QED BY <1>1, <1>2, McpInductive, PTL DEF TokensAreHonoured

------------------------------------------------------------------------------
\* What is assumed of the constants.
LEMMA ServicesParameters ==
  /\ "none" \notin Ids \cup FnNames /\ Secrets \cap {"absent", "mask", "nothing"} = {} /\ IsFiniteSet(Senders)
  /\ MaxFailures \in Nat /\ MaxEdits \in Nat /\ MaxTries \in Nat /\ MaxEntries \in Nat
  BY ServicesAssumption DEF ServicesBounds

------------------------------------------------------------------------------
(* Scheduled jobs.                                                             *)
JobInv == Cron!SchedTypeOK /\ Cron!EnabledJobsAreScheduled

LEMMA JobRecordsAre ==
  /\ Cron!NoJob.enabled = FALSE
  /\ \A job \in Cron!JobRecords : job.enabled \in BOOLEAN /\ job.schedule \in Schedules
  /\ \A job \in Cron!JobRecords \cup {Cron!NoJob} : job.enabled => job \in Cron!JobRecords
  BY DEF Cron!NoJob, Cron!JobRecords

LEMMA TimesAre ==
  /\ Cron!Never \in [schedule : Schedules \cup {"none"}, come : BOOLEAN]
  /\ \A s \in Schedules : /\ Cron!nextCron(s) \in [schedule : Schedules \cup {"none"}, come : BOOLEAN]
                          /\ Cron!nextCron(s).schedule = s
  BY DEF Cron!Never, Cron!nextCron

LEMMA LoadedAre ==
  ASSUME NEW records \in [Jobs -> Cron!JobRecords \cup {Cron!NoJob}]
  PROVE  /\ Cron!Loaded(records) \in [Jobs -> [schedule : Schedules \cup {"none"}, come : BOOLEAN]]
         /\ \A j \in Jobs : records[j].enabled => Cron!Loaded(records)[j].schedule = records[j].schedule
  <1>1. \A j \in Jobs : records[j] \in Cron!JobRecords \cup {Cron!NoJob}
    OBVIOUS
  <1>2. \A j \in Jobs : records[j].enabled => records[j].schedule \in Schedules
    BY <1>1, JobRecordsAre
  <1> QED BY <1>2, TimesAre DEF Cron!Loaded

LEMMA JobStart == Cron!SchedInit => JobInv
  <1> SUFFICES ASSUME Cron!SchedInit PROVE JobInv
    OBVIOUS
  <1>1. jobs \in [Jobs -> Cron!JobRecords \cup {Cron!NoJob}] /\ saved \in [Jobs -> Cron!JobRecords \cup {Cron!NoJob}]
    BY DEF Cron!SchedInit
  <1>2. fires \in [Jobs -> [schedule : Schedules \cup {"none"}, come : BOOLEAN]] /\ 0 \in 0..MaxFailures
    BY TimesAre, ServicesParameters DEF Cron!SchedInit
  <1>3. cached = FALSE
    BY DEF Cron!SchedInit
  <1> QED BY <1>1, <1>2, <1>3 DEF Cron!SchedInit, JobInv, Cron!SchedTypeOK, Cron!EnabledJobsAreScheduled

\* A request that changes one job, and a save that fails.
LEMMA SavedKeeps ==
  ASSUME JobInv, NEW j \in Jobs, NEW job \in Cron!JobRecords \cup {Cron!NoJob}, NEW fire,
         fire \in [schedule : Schedules \cup {"none"}, come : BOOLEAN] \cup {fires[j]},
         job.enabled => fire.schedule = job.schedule,
         fires' = [fires EXCEPT ![j] = fire],
         \/ Cron!Save(j, job) /\ overtaken' = overtaken \ {j}
         \/ Cron!SaveFails /\ overtaken' = overtaken \cup {j},
         UNCHANGED <<due, running, database, cached>>
  PROVE  JobInv'
  <1>1. /\ jobs \in [Jobs -> Cron!JobRecords \cup {Cron!NoJob}] /\ saved \in [Jobs -> Cron!JobRecords \cup {Cron!NoJob}]
        /\ fires \in [Jobs -> [schedule : Schedules \cup {"none"}, come : BOOLEAN]]
        /\ overtaken \subseteq Jobs /\ failures \in 0..MaxFailures
        /\ cached => \A k \in Jobs \ overtaken : jobs[k].enabled => fires[k].schedule = jobs[k].schedule
    BY DEF JobInv, Cron!SchedTypeOK, Cron!EnabledJobsAreScheduled
  <1>2. fires' \in [Jobs -> [schedule : Schedules \cup {"none"}, come : BOOLEAN]]
    BY <1>1
  <1>3. /\ jobs' \in [Jobs -> Cron!JobRecords \cup {Cron!NoJob}] /\ saved' \in [Jobs -> Cron!JobRecords \cup {Cron!NoJob}]
        /\ overtaken' \subseteq Jobs /\ failures' \in 0..MaxFailures
    <2>1. MaxFailures \in Nat /\ overtaken' \subseteq Jobs
      BY <1>1, ServicesParameters
    <2>2. CASE Cron!Save(j, job)
      BY <1>1, <2>1, <2>2 DEF Cron!Save
    <2>3. CASE Cron!SaveFails
      BY <1>1, <2>1, <2>3 DEF Cron!SaveFails
    <2> QED BY <2>2, <2>3
  <1>4. \A k \in Jobs : k # j => jobs'[k] = jobs[k] /\ fires'[k] = fires[k] /\ (k \in overtaken' <=> k \in overtaken)
    BY <1>1 DEF Cron!Save, Cron!SaveFails
  <1>5. j \in overtaken' \/ (jobs'[j] = job /\ fires'[j] = fire)
    BY <1>1 DEF Cron!Save
  <1>6. Cron!SchedTypeOK'
    BY <1>2, <1>3 DEF JobInv, Cron!SchedTypeOK
  <1>7. Cron!EnabledJobsAreScheduled'
    BY <1>1, <1>4, <1>5 DEF Cron!EnabledJobsAreScheduled
  <1> QED BY <1>6, <1>7 DEF JobInv

LEMMA JobEditsKeep ==
  ASSUME JobInv, NEW j \in Jobs,
         \/ \E job \in Cron!JobRecords : Cron!Create(j, job) \/ Cron!Update(j, job)
         \/ Cron!Delete(j)
  PROVE  JobInv'
  <1>1. fires \in [Jobs -> [schedule : Schedules \cup {"none"}, come : BOOLEAN]] /\ overtaken \subseteq Jobs
        /\ failures \in 0..MaxFailures /\ jobs \in [Jobs -> Cron!JobRecords \cup {Cron!NoJob}]
    BY DEF JobInv, Cron!SchedTypeOK
  <1>2. CASE \E job \in Cron!JobRecords : Cron!Create(j, job)
    <2> PICK job \in Cron!JobRecords : Cron!Create(j, job)
      BY <1>2
    <2> DEFINE fire == IF job.enabled THEN Cron!nextCron(job.schedule) ELSE fires[j]
    <2>1. fires' = [fires EXCEPT ![j] = fire]
      <3>1. fires = [fires EXCEPT ![j] = fires[j]]
        BY <1>1
      <3> QED BY <3>1 DEF Cron!Create
    <2>2. job.enabled => fire.schedule = job.schedule
      BY TimesAre, JobRecordsAre
    <2>3. fire \in [schedule : Schedules \cup {"none"}, come : BOOLEAN] \cup {fires[j]}
      BY TimesAre, JobRecordsAre
    <2> HIDE DEF fire
    <2> QED BY <2>1, <2>2, <2>3, SavedKeeps DEF Cron!Create
  <1>3. CASE \E job \in Cron!JobRecords : Cron!Update(j, job)
    <2> PICK job \in Cron!JobRecords : Cron!Update(j, job)
      BY <1>3
    <2> DEFINE fire == IF job.enabled THEN Cron!nextCron(job.schedule) ELSE Cron!Never
    <2>1. fires' = [fires EXCEPT ![j] = fire]
      BY DEF Cron!Update
    <2>2. job.enabled => fire.schedule = job.schedule
      BY TimesAre, JobRecordsAre
    <2>3. fire \in [schedule : Schedules \cup {"none"}, come : BOOLEAN] \cup {fires[j]}
      BY TimesAre, JobRecordsAre
    <2> HIDE DEF fire
    <2> QED BY <2>1, <2>2, <2>3, SavedKeeps DEF Cron!Update
  <1>4. CASE Cron!Delete(j)
    <2>1. CASE Cron!Save(j, Cron!NoJob) /\ fires' = [fires EXCEPT ![j] = Cron!Never] /\ overtaken' = overtaken \ {j}
      <3>1. UNCHANGED <<due, running, database, cached>>
        BY <1>4 DEF Cron!Delete
      <3> QED BY <2>1, <3>1, SavedKeeps, JobRecordsAre, TimesAre
    <2>2. CASE Cron!SaveFails /\ UNCHANGED <<fires, overtaken>>
      BY <2>2, <1>4, ServicesParameters
      DEF Cron!Delete, Cron!SaveFails, JobInv, Cron!SchedTypeOK, Cron!EnabledJobsAreScheduled
    <2> QED BY <2>1, <2>2, <1>4 DEF Cron!Delete
  <1> QED BY <1>2, <1>3, <1>4

LEMMA TicksKeep ==
  ASSUME JobInv, \/ Cron!tick
                 \/ \E j \in Jobs : Cron!TimePasses(j)
                 \/ \E d \in due : Cron!FireJob(d)
  PROVE  JobInv'
  <1>1. /\ jobs \in [Jobs -> Cron!JobRecords \cup {Cron!NoJob}]
        /\ fires \in [Jobs -> [schedule : Schedules \cup {"none"}, come : BOOLEAN]]
        /\ due \subseteq [j : Jobs, job : Cron!JobRecords] /\ running \subseteq Jobs /\ overtaken \subseteq Jobs
    BY DEF JobInv, Cron!SchedTypeOK
  <1>2. CASE Cron!tick
    <2>1. \A k \in Jobs : jobs[k].enabled => jobs[k] \in Cron!JobRecords
      BY <1>1, JobRecordsAre
    <2>2. due' \subseteq [j : Jobs, job : Cron!JobRecords]
      BY <1>2, <2>1 DEF Cron!tick
    <2> QED BY <1>2, <2>2 DEF Cron!tick, JobInv, Cron!SchedTypeOK, Cron!EnabledJobsAreScheduled
  <1>3. CASE \E j \in Jobs : Cron!TimePasses(j)
    <2> PICK j \in Jobs : Cron!TimePasses(j)
      BY <1>3
    <2>1. fires' = [fires EXCEPT ![j].come = TRUE]
      BY DEF Cron!TimePasses
    <2>2. fires' \in [Jobs -> [schedule : Schedules \cup {"none"}, come : BOOLEAN]]
      BY <1>1, <2>1
    <2>3. \A k \in Jobs : fires'[k].schedule = fires[k].schedule
      BY <1>1, <2>1
    <2> QED BY <2>2, <2>3 DEF Cron!TimePasses, JobInv, Cron!SchedTypeOK, Cron!EnabledJobsAreScheduled
  <1>4. CASE \E d \in due : Cron!FireJob(d)
    <2> PICK d \in due : Cron!FireJob(d)
      BY <1>4
    <2>1. d.j \in Jobs /\ d.job \in Cron!JobRecords /\ d.job.schedule \in Schedules
      BY <1>1, JobRecordsAre
    <2>2. PICK fire \in [schedule : Schedules \cup {"none"}, come : BOOLEAN] :
            fire = Cron!nextCron(d.job.schedule) /\ fire.schedule = d.job.schedule
      BY <2>1, TimesAre
    <2>3. fires' = [fires EXCEPT ![d.j] = fire]
      BY <2>2 DEF Cron!FireJob
    <2>4. fires' \in [Jobs -> [schedule : Schedules \cup {"none"}, come : BOOLEAN]]
      BY <1>1, <2>3
    <2>5. /\ overtaken' = IF jobs[d.j] = d.job THEN overtaken ELSE overtaken \cup {d.j}
          /\ jobs' = jobs /\ cached' = cached
      BY DEF Cron!FireJob
    <2>6. Cron!EnabledJobsAreScheduled'
      <3>1. \A k \in Jobs \ overtaken' : k # d.j => fires'[k] = fires[k] /\ k \in Jobs \ overtaken
        BY <1>1, <2>3, <2>5
      <3>2. d.j \notin overtaken' => jobs[d.j] = d.job /\ fires'[d.j] = fire
        BY <1>1, <2>1, <2>3, <2>5
      <3> QED BY <3>1, <3>2, <2>2, <2>5 DEF JobInv, Cron!EnabledJobsAreScheduled
    <2>7. Cron!SchedTypeOK'
      BY <2>1, <2>4, <2>5, <1>1 DEF JobInv, Cron!SchedTypeOK, Cron!FireJob
    <2> QED BY <2>6, <2>7 DEF JobInv
  <1> QED BY <1>2, <1>3, <1>4

LEMMA RestartsKeep ==
  ASSUME JobInv, \/ Cron!projectSchedulerCached \/ Cron!CloseEngine \/ Cron!RestartScheduler
                 \/ \E j \in Jobs : Cron!recordExecution(j)
  PROVE  JobInv'
  <1>1. saved \in [Jobs -> Cron!JobRecords \cup {Cron!NoJob}]
    BY DEF JobInv, Cron!SchedTypeOK
  <1>2. PICK times0 \in [Jobs -> [schedule : Schedules \cup {"none"}, come : BOOLEAN]] :
          /\ times0 = Cron!Loaded(saved)
          /\ \A j \in Jobs : saved[j].enabled => times0[j].schedule = saved[j].schedule
    BY <1>1, LoadedAre
  <1>3. CASE Cron!projectSchedulerCached
    BY <1>2, <1>3 DEF Cron!projectSchedulerCached, JobInv, Cron!SchedTypeOK, Cron!EnabledJobsAreScheduled
  <1>4. CASE Cron!CloseEngine
    BY <1>4 DEF Cron!CloseEngine, JobInv, Cron!SchedTypeOK, Cron!EnabledJobsAreScheduled
  <1>5. ASSUME Cron!Restarted(saved), UNCHANGED <<saved, failures>> PROVE JobInv'
    BY <1>2, <1>5 DEF Cron!Restarted, JobInv, Cron!SchedTypeOK, Cron!EnabledJobsAreScheduled
  <1>6. CASE \E j \in Jobs : Cron!recordExecution(j)
    <2> PICK j \in Jobs : Cron!recordExecution(j)
      BY <1>6
    <2>1. CASE database = "open"
      BY <2>1 DEF Cron!recordExecution, JobInv, Cron!SchedTypeOK, Cron!EnabledJobsAreScheduled
    <2>2. CASE database # "open"
      BY <2>2, <1>5 DEF Cron!recordExecution
    <2> QED BY <2>1, <2>2
  <1> QED BY <1>3, <1>4, <1>5, <1>6 DEF Cron!RestartScheduler

LEMMA JobStep == JobInv /\ (Cron!SchedNext \/ UNCHANGED cronVars) => JobInv'
  <1> SUFFICES ASSUME JobInv, Cron!SchedNext \/ UNCHANGED cronVars PROVE JobInv'
    OBVIOUS
  <1>1. CASE UNCHANGED cronVars
    BY <1>1 DEF cronVars, JobInv, Cron!SchedTypeOK, Cron!EnabledJobsAreScheduled
  <1>2. CASE Cron!SchedNext
    BY <1>2, JobEditsKeep, TicksKeep, RestartsKeep DEF Cron!SchedNext
  <1> QED BY <1>1, <1>2

------------------------------------------------------------------------------
(* Functions.  An edit that runs by itself finds its name free or its own.     *)
Fn == FunctionStore!Records \cup {FunctionStore!NoFn}
EditTypes == [pc : {"done", "write", "remove", "refresh"}, id : Ids \cup {"none"}, fn : Fn]
Time == [schedule : FunctionStore!FnSchedules \cup {"none"}, come : BOOLEAN]
Edits(e) == e.pc \in {"write", "remove"}

FnTypes ==
  /\ fns \in [Ids -> Fn] /\ names \in [FnNames -> Ids \cup {"none"}]
  /\ drawn \subseteq Ids /\ executing \subseteq drawn /\ count \in 0..MaxEdits
  /\ edits \in [FnReqs -> EditTypes] /\ times \in [Ids -> Time] /\ contended \in BOOLEAN
  /\ \A i \in Ids : fns[i] # FunctionStore!NoFn => i \in drawn

EditHolds(e) ==
  /\ Edits(e) => e.id \in Ids /\ e.fn \in FunctionStore!Records
  /\ e.pc = "write" /\ ~contended => names[e.fn.name] \in {"none", e.id}
  /\ e.pc = "remove" /\ ~contended => e.fn = fns[e.id]

OneEdits == ~contended => \A q, r \in FnReqs : Edits(edits[q]) /\ Edits(edits[r]) => q = r

FnInv ==
  /\ FnTypes /\ OneEdits /\ \A r \in FnReqs : EditHolds(edits[r])
  /\ FunctionStore!FunctionsAreFound /\ FunctionStore!WatcherKnowsSchedules

LEMMA FnsAre ==
  /\ FunctionStore!NoFn \notin FunctionStore!Records
  /\ FunctionStore!NoFn \in Fn /\ FunctionStore!NoFn.enabled = FALSE
  /\ \A fn \in FunctionStore!Records : fn.name \in FnNames /\ fn.trigger \in Triggers /\ fn.enabled \in BOOLEAN
  /\ \A fn \in Fn : fn # FunctionStore!NoFn => fn \in FunctionStore!Records
  BY ServicesParameters DEF FunctionStore!NoFn, FunctionStore!Records, Fn

LEMMA EditsAre ==
  /\ FunctionStore!NoEdit \in EditTypes /\ FunctionStore!NoEdit.pc = "done"
  /\ \A e \in EditTypes : e.pc \in {"done", "write", "remove", "refresh"} /\ e.id \in Ids \cup {"none"} /\ e.fn \in Fn
  BY FnsAre DEF FunctionStore!NoEdit, EditTypes

LEMMA FnTimesAre ==
  /\ FunctionStore!Unwatched \in Time
  /\ \A s \in FunctionStore!FnSchedules : FunctionStore!Next_(s) \in Time /\ FunctionStore!Next_(s).schedule = s
  BY DEF FunctionStore!Unwatched, FunctionStore!Next_, Time

LEMMA FnStart == FunctionStore!FnInit => FnInv
  <1> SUFFICES ASSUME FunctionStore!FnInit PROVE FnInv
    OBVIOUS
  <1>1. FnTypes
    <2>1. /\ fns = [i \in Ids |-> FunctionStore!NoFn] /\ names = [n \in FnNames |-> "none"] /\ drawn = {}
          /\ edits = [r \in FnReqs |-> FunctionStore!NoEdit] /\ times = [i \in Ids |-> FunctionStore!Unwatched]
          /\ count = 0 /\ executing = {} /\ contended = FALSE
      BY DEF FunctionStore!FnInit
    <2>2. fns \in [Ids -> Fn] /\ edits \in [FnReqs -> EditTypes] /\ times \in [Ids -> Time]
      BY <2>1, FnsAre, EditsAre, FnTimesAre
    <2>3. names \in [FnNames -> Ids \cup {"none"}] /\ count \in 0..MaxEdits
      BY <2>1, ServicesParameters
    <2>4. \A i \in Ids : fns[i] = FunctionStore!NoFn
      BY <2>1
    <2> QED BY <2>1, <2>2, <2>3, <2>4 DEF FnTypes
  <1>2. \A r \in FnReqs : edits[r].pc = "done"
    BY EditsAre DEF FunctionStore!FnInit
  <1>3. OneEdits /\ \A r \in FnReqs : EditHolds(edits[r])
    BY <1>2 DEF OneEdits, EditHolds, Edits
  <1>4. \A i \in Ids : fns[i] = FunctionStore!NoFn
    BY DEF FunctionStore!FnInit
  <1> QED BY <1>1, <1>3, <1>4, FnsAre
    DEF FnInv, FunctionStore!FunctionsAreFound, FunctionStore!WatcherKnowsSchedules, FunctionStore!ListByTrigger

LEMMA BeginKeeps ==
  ASSUME FnInv, NEW r \in FnReqs, NEW pc \in {"write", "remove"}, NEW i \in Ids, NEW fn \in FunctionStore!Records,
         FunctionStore!Begin(r, pc, i, fn),
         pc = "write" => names[fn.name] \in {"none", i}, pc = "remove" => fn = fns[i]
  PROVE  FnInv'
  <1>1. PICK e \in EditTypes : e = [pc |-> pc, id |-> i, fn |-> fn] /\ e.pc = pc /\ e.id = i /\ e.fn = fn
    <2>1. fn \in Fn
      BY DEF Fn
    <2> DEFINE begun == [pc |-> pc, id |-> i, fn |-> fn]
    <2>2. begun \in EditTypes
      BY <2>1 DEF EditTypes
    <2>3. begun.pc = pc /\ begun.id = i /\ begun.fn = fn
      OBVIOUS
    <2> QED BY <2>2, <2>3
  <1>2. edits' = [edits EXCEPT ![r] = e] /\ count < MaxEdits /\ count' = count + 1
        /\ contended' = (contended \/ \E q \in FnReqs : edits[q].pc \in {"write", "remove"})
        /\ fns' = fns /\ names' = names /\ drawn' = drawn /\ times' = times /\ executing' = executing
        /\ edits[r].pc = "done"
    BY <1>1 DEF FunctionStore!Begin
  <1>3. FnTypes'
    BY <1>1, <1>2, ServicesParameters DEF FnInv, FnTypes
  <1>4. \A q \in FnReqs : edits'[q] = IF q = r THEN e ELSE edits[q]
    BY <1>2 DEF FnInv, FnTypes
  <1>5. ~contended' => ~contended /\ \A q \in FnReqs : ~Edits(edits[q])
    BY <1>2 DEF Edits, FnInv, FnTypes
  <1>6. OneEdits'
    BY <1>4, <1>5 DEF OneEdits, Edits
  <1>7. \A q \in FnReqs : EditHolds(edits[q])'
    BY <1>1, <1>2, <1>4, <1>5 DEF FnInv, EditHolds, Edits
  <1>8. FunctionStore!FunctionsAreFound'
    BY <1>2, <1>5 DEF FnInv, FunctionStore!FunctionsAreFound
  <1>9. FunctionStore!WatcherKnowsSchedules'
    <2>1. (\A q \in FnReqs : edits'[q].pc # "refresh") => \A q \in FnReqs : edits[q].pc # "refresh"
      BY <1>2, <1>4
    <2> QED BY <1>2, <2>1 DEF FnInv, FunctionStore!WatcherKnowsSchedules, FunctionStore!ListByTrigger
  <1> QED BY <1>3, <1>6, <1>7, <1>8, <1>9 DEF FnInv

\* What the batch of an edit does to one function and its name.
LEMMA BatchKeeps ==
  ASSUME FnInv, NEW r \in FnReqs, NEW i \in Ids, NEW n \in FnNames, NEW fn \in Fn, NEW owner \in {i, "none"},
         Edits(edits[r]), i = edits[r].id, n = edits[r].fn.name,
         fns' = [fns EXCEPT ![i] = fn], names' = [names EXCEPT ![n] = owner],
         edits' = [edits EXCEPT ![r].pc = "refresh"],
         drawn' \in {drawn, drawn \cup {i}}, fn # FunctionStore!NoFn => i \in drawn',
         UNCHANGED <<count, times, executing, contended>>,
         fn # FunctionStore!NoFn => owner = i /\ fn.name = n,
         ~contended => names[n] \in {"none", i}
  PROVE  FnInv'
  <1>1. FnTypes
    BY DEF FnInv
  <1>2. PICK e \in EditTypes : e = [edits[r] EXCEPT !.pc = "refresh"] /\ e.pc = "refresh"
    <2>1. edits[r] \in EditTypes
      BY <1>1 DEF FnTypes
    <2>2. [edits[r] EXCEPT !.pc = "refresh"] \in EditTypes
      BY <2>1 DEF EditTypes
    <2>3. [edits[r] EXCEPT !.pc = "refresh"].pc = "refresh"
      BY <2>1 DEF EditTypes
    <2> QED BY <2>2, <2>3
  <1>3. edits' = [edits EXCEPT ![r] = e]
    BY <1>2
  <1>4. \A q \in FnReqs : edits'[q] = IF q = r THEN e ELSE edits[q]
    BY <1>1, <1>3 DEF FnTypes
  <1>5. \A k \in Ids : fns'[k] = IF k = i THEN fn ELSE fns[k]
    BY <1>1 DEF FnTypes
  <1>6. \A m \in FnNames : names'[m] = IF m = n THEN owner ELSE names[m]
    BY <1>1 DEF FnTypes
  <1>7. FnTypes'
    <2>1. fns' \in [Ids -> Fn] /\ names' \in [FnNames -> Ids \cup {"none"}] /\ edits' \in [FnReqs -> EditTypes]
      BY <1>1, <1>3 DEF FnTypes
    <2>2. drawn' \subseteq Ids /\ executing' \subseteq drawn' /\ \A k \in Ids : fns'[k] # FunctionStore!NoFn => k \in drawn'
      BY <1>1, <1>5 DEF FnTypes
    <2> QED BY <1>1, <2>1, <2>2 DEF FnTypes
  <1>8. ~contended => \A q \in FnReqs : q # r => ~Edits(edits[q])
    BY DEF FnInv, OneEdits
  <1>9. OneEdits'
    BY <1>2, <1>4, <1>8 DEF OneEdits, Edits
  <1>10. \A q \in FnReqs : EditHolds(edits[q])'
    <2> SUFFICES ASSUME NEW q \in FnReqs PROVE EditHolds(edits[q])'
      OBVIOUS
    <2>1. CASE q = r
      BY <2>1, <1>2, <1>4 DEF EditHolds, Edits
    <2>2. CASE q # r
      <3>1. edits'[q] = edits[q] /\ (~contended => ~Edits(edits[q])) /\ EditHolds(edits[q])
        BY <2>2, <1>4, <1>8 DEF FnInv
      <3> QED BY <3>1 DEF EditHolds, Edits
    <2> QED BY <2>1, <2>2
  <1>11. FunctionStore!FunctionsAreFound'
    <2> SUFFICES ASSUME ~contended, NEW k \in Ids, fns'[k] # FunctionStore!NoFn PROVE names'[fns'[k].name] = k
      BY DEF FunctionStore!FunctionsAreFound
    <2>1. CASE k = i
      BY <2>1, <1>5, <1>6
    <2>2. CASE k # i
      <3>1. fns'[k] = fns[k] /\ fns[k] \in FunctionStore!Records /\ fns[k].name \in FnNames
        BY <2>2, <1>1, <1>5, FnsAre DEF FnTypes
      <3>2. names[fns[k].name] = k
        BY <3>1, <2>2 DEF FnInv, FunctionStore!FunctionsAreFound
      <3>3. fns[k].name # n /\ k # "none"
        BY <3>2, <2>2, ServicesParameters
      <3> QED BY <3>1, <3>2, <3>3, <1>6
    <2> QED BY <2>1, <2>2
  <1>12. FunctionStore!WatcherKnowsSchedules'
    BY <1>2, <1>4 DEF FunctionStore!WatcherKnowsSchedules
  <1> QED BY <1>7, <1>9, <1>10, <1>11, <1>12 DEF FnInv

LEMMA FnEditsKeep ==
  ASSUME FnInv, NEW r \in FnReqs,
         \/ \E fn \in FunctionStore!Records : \/ FunctionStore!handleAdminCreateFunction(r, fn)
                              \/ \E i \in Ids : FunctionStore!handleAdminUpdateFunction(r, i, fn)
         \/ \E i \in Ids : FunctionStore!handleAdminDeleteFunction(r, i)
         \/ FunctionStore!Commit(r) \/ FunctionStore!Delete(r)
  PROVE  FnInv'
  <1>1. FnTypes /\ \A i \in Ids : fns[i] # FunctionStore!NoFn => fns[i] \in FunctionStore!Records
    BY FnsAre DEF FnInv, FnTypes
  <1>2. ASSUME NEW fn \in FunctionStore!Records, FunctionStore!handleAdminCreateFunction(r, fn) PROVE FnInv'
    <2> PICK i \in Ids \ drawn : FunctionStore!Begin(r, "write", i, fn)
      BY <1>2 DEF FunctionStore!handleAdminCreateFunction
    <2>1. names[fn.name] \in {"none", i}
      BY <1>2 DEF FunctionStore!handleAdminCreateFunction
    <2> QED BY <2>1, BeginKeeps
  <1>3. ASSUME NEW fn \in FunctionStore!Records, NEW i \in Ids, FunctionStore!handleAdminUpdateFunction(r, i, fn) PROVE FnInv'
    BY <1>3, BeginKeeps DEF FunctionStore!handleAdminUpdateFunction
  <1>4. ASSUME NEW i \in Ids, FunctionStore!handleAdminDeleteFunction(r, i) PROVE FnInv'
    <2>1. fns[i] \in FunctionStore!Records /\ FunctionStore!Begin(r, "remove", i, fns[i])
      BY <1>1, <1>4 DEF FunctionStore!handleAdminDeleteFunction
    <2>2. PICK fn \in FunctionStore!Records : fn = fns[i]
      BY <2>1
    <2> QED BY <2>1, <2>2, BeginKeeps
  <1>5. PICK e \in EditTypes : e = edits[r]
    BY <1>1 DEF FnTypes
  <1>6. EditHolds(e)
    BY <1>5 DEF FnInv
  <1>7. CASE FunctionStore!Commit(r)
    <2>1. e.pc = "write" /\ e.id \in Ids /\ e.fn \in FunctionStore!Records /\ e.fn.name \in FnNames /\ e.fn \in Fn
      BY <1>5, <1>6, <1>7, FnsAre DEF EditHolds, Edits, FunctionStore!Commit, Fn
    <2>2. /\ fns' = [fns EXCEPT ![e.id] = e.fn] /\ names' = [names EXCEPT ![e.fn.name] = e.id]
          /\ drawn' = drawn \cup {e.id} /\ edits' = [edits EXCEPT ![r].pc = "refresh"]
          /\ UNCHANGED <<count, times, executing, contended>>
      BY <1>5, <1>7 DEF FunctionStore!Commit
    <2>3. ~contended => names[e.fn.name] \in {"none", e.id}
      BY <2>1, <1>6 DEF EditHolds
    <2>4. Edits(edits[r])
      BY <2>1, <1>5 DEF Edits
    <2> QED BY <2>1, <2>2, <2>3, <2>4, <1>5, BatchKeeps
  <1>8. CASE FunctionStore!Delete(r)
    <2>1. e.pc = "remove" /\ e.id \in Ids /\ e.fn \in FunctionStore!Records /\ e.fn.name \in FnNames
      BY <1>5, <1>6, <1>8, FnsAre DEF EditHolds, Edits, FunctionStore!Delete
    <2>2. /\ fns' = [fns EXCEPT ![e.id] = FunctionStore!NoFn] /\ names' = [names EXCEPT ![e.fn.name] = "none"]
          /\ drawn' = drawn /\ edits' = [edits EXCEPT ![r].pc = "refresh"]
          /\ UNCHANGED <<count, times, executing, contended>>
      BY <1>5, <1>8 DEF FunctionStore!Delete
    <2>3. ~contended => names[e.fn.name] \in {"none", e.id}
      <3> SUFFICES ASSUME ~contended PROVE names[e.fn.name] = e.id
        OBVIOUS
      <3>1. fns[e.id] = e.fn /\ e.fn # FunctionStore!NoFn
        BY <2>1, <1>6, FnsAre DEF EditHolds
      <3> QED BY <3>1, <2>1 DEF FnInv, FunctionStore!FunctionsAreFound
    <2>4. Edits(edits[r])
      BY <2>1, <1>5 DEF Edits
    <2>5. FunctionStore!NoFn \in Fn
      BY FnsAre
    <2> QED BY <2>1, <2>2, <2>3, <2>4, <2>5, <1>5, BatchKeeps
  <1> QED BY <1>2, <1>3, <1>4, <1>7, <1>8

\* The watcher's times of functions, and executions, which leave the rest.
LEMMA WatchingKeeps ==
  ASSUME FnInv, UNCHANGED <<count, fns, names, drawn, edits, contended>>,
         executing' \subseteq drawn, times' \in [Ids -> Time],
         \A i \in FunctionStore!ListByTrigger(FunctionStore!FnSchedules) :
           times'[i].schedule \in {times[i].schedule, fns[i].trigger}
  PROVE  FnInv'
  <1>1. FnTypes'
    BY DEF FnInv, FnTypes
  <1>2. OneEdits' /\ \A r \in FnReqs : EditHolds(edits[r])'
    BY DEF FnInv, OneEdits, EditHolds
  <1>3. FunctionStore!FunctionsAreFound'
    BY DEF FnInv, FunctionStore!FunctionsAreFound
  <1>4. FunctionStore!WatcherKnowsSchedules'
    BY DEF FnInv, FunctionStore!WatcherKnowsSchedules, FunctionStore!ListByTrigger
  <1> QED BY <1>1, <1>2, <1>3, <1>4 DEF FnInv

LEMMA ExecutingKeeps ==
  ASSUME FnInv, UNCHANGED <<count, fns, names, drawn, edits, times, contended>>,
         \/ \E ids \in SUBSET drawn : FunctionStore!Executing(ids)
         \/ executing' \subseteq executing
  PROVE  FnInv'
  <1>1. executing' \subseteq drawn /\ times' \in [Ids -> Time]
    BY DEF FunctionStore!Executing, FnInv, FnTypes
  <1> QED BY <1>1, WatchingKeeps

LEMMA RunsKeep ==
  ASSUME FnInv, \/ \E n \in FnNames : FunctionStore!handleFunctionHTTP(n)
                \/ \E i \in Ids : FunctionStore!handleAdminTestFunction(i) \/ FunctionStore!logExecution(i)
                \/ FunctionStore!FireEvent
  PROVE  FnInv'
  <1>1. FnTypes /\ \A i \in Ids : fns[i].enabled \/ fns[i] # FunctionStore!NoFn => i \in drawn
    BY FnsAre DEF FnInv, FnTypes
  <1>2. ASSUME NEW n \in FnNames, FunctionStore!InvokeHTTP(n) PROVE FnInv'
    <2>1. names[n] \in Ids /\ fns[names[n]].enabled
      BY <1>1, <1>2 DEF FnTypes, FunctionStore!InvokeHTTP
    <2>2. {names[n]} \in SUBSET drawn
      BY <1>1, <2>1
    <2> QED BY <1>2, <2>2, ExecutingKeeps DEF FunctionStore!InvokeHTTP
  <1>3. ASSUME NEW i \in Ids, FunctionStore!handleAdminTestFunction(i) PROVE FnInv'
    <2>1. fns[i] \in FunctionStore!Records /\ fns[i].name \in FnNames /\ {i} \in SUBSET drawn
      BY <1>1, <1>3, FnsAre DEF FnTypes, FunctionStore!handleAdminTestFunction
    <2> QED BY <1>2, <1>3, <2>1, ExecutingKeeps DEF FunctionStore!handleAdminTestFunction
  <1>4. ASSUME NEW i \in Ids, FunctionStore!logExecution(i) PROVE FnInv'
    BY <1>4, ExecutingKeeps DEF FunctionStore!logExecution
  <1>5. CASE FunctionStore!FireEvent
    <2>1. FunctionStore!ListByTrigger({"record"}) \in SUBSET drawn
      BY <1>1 DEF FunctionStore!ListByTrigger
    <2> QED BY <1>5, <2>1, ExecutingKeeps DEF FunctionStore!FireEvent
  <1> QED BY <1>2, <1>3, <1>4, <1>5 DEF FunctionStore!handleFunctionHTTP

LEMMA RefreshedIs ==
  /\ FunctionStore!Refreshed \in [Ids -> Time]
  /\ \A i \in FunctionStore!ListByTrigger(FunctionStore!FnSchedules) : FunctionStore!Refreshed[i].schedule = fns[i].trigger
  <1>1. \A i \in FunctionStore!ListByTrigger(FunctionStore!FnSchedules) : fns[i].trigger \in FunctionStore!FnSchedules /\ i \in Ids
    BY DEF FunctionStore!ListByTrigger
  <1> QED BY <1>1, FnTimesAre DEF FunctionStore!Refreshed

LEMMA WatcherKeeps ==
  ASSUME FnInv, \/ FunctionStore!tick \/ FunctionStore!InitFunctionRuntime
                \/ \E r \in FnReqs : FunctionStore!refreshFunctionSchedule(r)
                \/ \E i \in Ids : FunctionStore!FnTimePasses(i)
  PROVE  FnInv'
  <1>1. FnTypes /\ times \in [Ids -> Time]
    BY DEF FnInv, FnTypes
  <1>2. CASE FunctionStore!tick
    <2> DEFINE come == {i \in Ids : times[i].come}
               ripe == {i \in come : fns[i].enabled /\ fns[i].trigger \in FunctionStore!FnSchedules}
    <2>1. times' = [i \in Ids |-> IF i \in ripe THEN FunctionStore!Next_(fns[i].trigger)
                             ELSE IF i \in come THEN FunctionStore!Unwatched ELSE times[i]]
      BY <1>2 DEF FunctionStore!tick
    <2>2. times' \in [Ids -> Time]
      BY <1>1, <2>1, FnTimesAre
    <2>3. ASSUME NEW i \in FunctionStore!ListByTrigger(FunctionStore!FnSchedules)
          PROVE  times'[i].schedule \in {times[i].schedule, fns[i].trigger}
      <3>1. i \in Ids /\ fns[i].enabled /\ fns[i].trigger \in FunctionStore!FnSchedules
        BY DEF FunctionStore!ListByTrigger
      <3> QED BY <2>1, <3>1, FnTimesAre
    <2>4. ripe \subseteq drawn
      BY <1>1, FnsAre DEF FnTypes
    <2>5. executing' \subseteq drawn
      <3>1. FunctionStore!Executing(ripe)
        BY <1>2 DEF FunctionStore!tick
      <3> QED BY <1>1, <2>4, <3>1 DEF FnTypes, FunctionStore!Executing
    <2>6. UNCHANGED <<count, fns, names, drawn, edits, contended>>
      BY <1>2 DEF FunctionStore!tick
    <2> QED BY <2>2, <2>3, <2>5, <2>6, WatchingKeeps
  <1>3. CASE \E i \in Ids : FunctionStore!FnTimePasses(i)
    <2> PICK i \in Ids : FunctionStore!FnTimePasses(i)
      BY <1>3
    <2>1. times' = [times EXCEPT ![i].come = TRUE]
      BY DEF FunctionStore!FnTimePasses
    <2>2. times' \in [Ids -> Time] /\ \A k \in Ids : times'[k].schedule = times[k].schedule
      BY <1>1, <2>1 DEF Time
    <2>3. executing' \subseteq drawn
      BY <1>1 DEF FnTypes, FunctionStore!FnTimePasses
    <2>4. \A k \in FunctionStore!ListByTrigger(FunctionStore!FnSchedules) : k \in Ids
      BY DEF FunctionStore!ListByTrigger
    <2> QED BY <2>2, <2>3, <2>4, WatchingKeeps DEF FunctionStore!FnTimePasses
  <1>4. ASSUME times' = FunctionStore!Refreshed, edits' \in [FnReqs -> EditTypes],
               \A r \in FnReqs : edits'[r] = edits[r] \/ edits'[r].pc = "done",
               executing' \subseteq executing, UNCHANGED <<count, fns, names, drawn, contended>>
        PROVE  FnInv'
    <2>1. FnTypes'
      BY <1>1, <1>4, RefreshedIs DEF FnTypes
    <2>2. OneEdits' /\ \A r \in FnReqs : EditHolds(edits[r])'
      BY <1>4 DEF FnInv, OneEdits, EditHolds, Edits
    <2>3. FunctionStore!FunctionsAreFound'
      BY <1>4 DEF FnInv, FunctionStore!FunctionsAreFound
    <2>4. FunctionStore!WatcherKnowsSchedules'
      BY <1>4, RefreshedIs DEF FunctionStore!WatcherKnowsSchedules, FunctionStore!ListByTrigger
    <2> QED BY <2>1, <2>2, <2>3, <2>4 DEF FnInv
  <1>5. ASSUME NEW r \in FnReqs, FunctionStore!refreshFunctionSchedule(r) PROVE FnInv'
    <2>1. edits' = [edits EXCEPT ![r] = FunctionStore!NoEdit]
      BY <1>5 DEF FunctionStore!refreshFunctionSchedule
    <2>2. edits' \in [FnReqs -> EditTypes] /\ \A q \in FnReqs : edits'[q] = edits[q] \/ edits'[q].pc = "done"
      BY <1>1, <2>1, EditsAre DEF FnTypes
    <2> QED BY <1>4, <1>5, <2>2 DEF FunctionStore!refreshFunctionSchedule
  <1>6. CASE FunctionStore!InitFunctionRuntime
    <2>1. edits' \in [FnReqs -> EditTypes] /\ \A q \in FnReqs : edits'[q].pc = "done"
      BY <1>6, EditsAre DEF FunctionStore!InitFunctionRuntime
    <2> QED BY <1>4, <1>6, <2>1 DEF FunctionStore!InitFunctionRuntime
  <1> QED BY <1>2, <1>3, <1>5, <1>6

LEMMA FnStep == FnInv /\ (FunctionStore!FnNext \/ UNCHANGED functionStoreVars) => FnInv'
  <1> SUFFICES ASSUME FnInv, FunctionStore!FnNext \/ UNCHANGED functionStoreVars PROVE FnInv'
    OBVIOUS
  <1>1. CASE UNCHANGED functionStoreVars
    BY <1>1, WatchingKeeps DEF functionStoreVars, FnInv, FnTypes
  <1>2. CASE FunctionStore!FnNext
    BY <1>2, FnEditsKeep, RunsKeep, WatcherKeeps DEF FunctionStore!FnNext
  <1> QED BY <1>1, <1>2

LEMMA FnSays == FnInv => FunctionStore!FnTypeOK /\ FunctionStore!FunctionsAreFound /\ FunctionStore!WatcherKnowsSchedules
  BY DEF FnInv, FnTypes, FunctionStore!FnTypeOK, Fn, EditTypes, Time

------------------------------------------------------------------------------
(* Webhooks.                                                                   *)
HookInv == Outgoing!HookTypeOK /\ Outgoing!CachedHooksAreCurrent

LEMMA HookStart == Outgoing!HookInit => HookInv
  <1> SUFFICES ASSUME Outgoing!HookInit PROVE HookInv
    OBVIOUS
  <1>1. posting \in [Fires -> [pc : {"idle", "read", "store", "post"}, list : SUBSET Hooks]]
    BY DEF Outgoing!HookInit, Outgoing!Idle
  <1>2. hooks \in [Hooks -> {"absent", "on", "off", "event"}] /\ editing = FALSE /\ missed = FALSE
        /\ cache = Outgoing!NoList /\ configured \subseteq Outgoing!PaymentProviders
    BY DEF Outgoing!HookInit
  <1> QED BY <1>1, <1>2 DEF HookInv, Outgoing!HookTypeOK, Outgoing!CachedHooksAreCurrent

LEMMA PostingType ==
  ASSUME HookInv, NEW f \in Fires
  PROVE  /\ posting \in [Fires -> [pc : {"idle", "read", "store", "post"}, list : SUBSET Hooks]]
         /\ posting[f].list \subseteq Hooks
         /\ [posting EXCEPT ![f].pc = "post"] \in [Fires -> [pc : {"idle", "read", "store", "post"}, list : SUBSET Hooks]]
         /\ \A list \in SUBSET Hooks, pc \in {"idle", "read", "store", "post"} :
              [posting EXCEPT ![f] = [pc |-> pc, list |-> list]] \in
                [Fires -> [pc : {"idle", "read", "store", "post"}, list : SUBSET Hooks]]
  BY DEF HookInv, Outgoing!HookTypeOK

LEMMA EditsOfHooksKeep ==
  ASSUME HookInv, NEW h \in Hooks,
         \/ \E state \in {"on", "off", "absent"} : Outgoing!Edit(h, state)
         \/ \E p \in Outgoing!PaymentProviders, signed, reached \in BOOLEAN :
              Outgoing!handleIntegrationWebhook(h, p, signed, reached)
  PROVE  HookInv'
  <1>1. CASE \E state \in {"on", "off", "absent"} : Outgoing!Edit(h, state)
    <2> PICK state \in {"on", "off", "absent"} : Outgoing!Edit(h, state)
      BY <1>1
    <2> QED BY DEF Outgoing!Edit, HookInv, Outgoing!HookTypeOK, Outgoing!CachedHooksAreCurrent
  <1>2. CASE \E p \in Outgoing!PaymentProviders, signed, reached \in BOOLEAN :
               Outgoing!handleIntegrationWebhook(h, p, signed, reached)
    <2>1. hooks[h] = "absent" /\ hooks' = [hooks EXCEPT ![h] = "event"]
          /\ UNCHANGED <<editing, cache, missed, posting, configured>>
      BY <1>2 DEF Outgoing!handleIntegrationWebhook
    <2>2. Outgoing!Addressed' = Outgoing!Addressed /\ hooks' \in [Hooks -> {"absent", "on", "off", "event"}]
      BY <2>1 DEF Outgoing!Addressed, HookInv, Outgoing!HookTypeOK
    <2> QED BY <2>1, <2>2 DEF HookInv, Outgoing!HookTypeOK, Outgoing!CachedHooksAreCurrent
  <1> QED BY <1>1, <1>2

LEMMA PostingKeeps ==
  ASSUME HookInv, NEW f \in Fires,
         Outgoing!fireWebhooks(f) \/ Outgoing!ReadHooks(f) \/ Outgoing!StoreList(f) \/ Outgoing!PostAll(f)
  PROVE  HookInv'
  <1>1. CASE Outgoing!fireWebhooks(f)
    <2>1. cache = Outgoing!NoList \/ cache \subseteq Hooks
      BY DEF HookInv, Outgoing!HookTypeOK
    <2>2. posting' \in [Fires -> [pc : {"idle", "read", "store", "post"}, list : SUBSET Hooks]]
      BY <1>1, <2>1, PostingType DEF Outgoing!fireWebhooks
    <2> QED BY <1>1, <2>2 DEF Outgoing!fireWebhooks, HookInv, Outgoing!HookTypeOK, Outgoing!CachedHooksAreCurrent, Outgoing!Addressed
  <1>2. CASE Outgoing!ReadHooks(f)
    <2>1. Outgoing!Addressed \in SUBSET Hooks /\ {} \in SUBSET Hooks
      BY DEF Outgoing!Addressed
    <2>2. posting' \in [Fires -> [pc : {"idle", "read", "store", "post"}, list : SUBSET Hooks]]
      <3>1. PICK list \in SUBSET Hooks : posting' = [posting EXCEPT ![f] = [pc |-> "store", list |-> list]]
        BY <1>2, <2>1 DEF Outgoing!ReadHooks
      <3> QED BY <3>1, PostingType
    <2> QED BY <1>2, <2>2 DEF Outgoing!ReadHooks, HookInv, Outgoing!HookTypeOK, Outgoing!CachedHooksAreCurrent, Outgoing!Addressed
  <1>3. CASE Outgoing!StoreList(f)
    <2>1. posting[f].list \subseteq Hooks
          /\ posting' \in [Fires -> [pc : {"idle", "read", "store", "post"}, list : SUBSET Hooks]]
      BY <1>3, PostingType DEF Outgoing!StoreList
    <2> QED BY <1>3, <2>1 DEF Outgoing!StoreList, HookInv, Outgoing!HookTypeOK, Outgoing!CachedHooksAreCurrent, Outgoing!Addressed
  <1>4. CASE Outgoing!PostAll(f)
    <2>1. posting' \in [Fires -> [pc : {"idle", "read", "store", "post"}, list : SUBSET Hooks]]
      BY <1>4, PostingType DEF Outgoing!PostAll, Outgoing!Idle
    <2> QED BY <1>4, <2>1 DEF Outgoing!PostAll, HookInv, Outgoing!HookTypeOK, Outgoing!CachedHooksAreCurrent, Outgoing!Addressed
  <1> QED BY <1>1, <1>2, <1>3, <1>4

LEMMA HookStep == HookInv /\ (Outgoing!HookNext \/ UNCHANGED outgoingVars) => HookInv'
  <1> SUFFICES ASSUME HookInv, Outgoing!HookNext \/ UNCHANGED outgoingVars PROVE HookInv'
    OBVIOUS
  <1>1. CASE UNCHANGED outgoingVars
    BY <1>1 DEF outgoingVars, HookInv, Outgoing!HookTypeOK, Outgoing!CachedHooksAreCurrent, Outgoing!Addressed
  <1>2. CASE Outgoing!invalidateWebhookCacheProject \/ Outgoing!ListExpires
    BY <1>2 DEF Outgoing!invalidateWebhookCacheProject, Outgoing!ListExpires, Outgoing!Forget,
                HookInv, Outgoing!HookTypeOK, Outgoing!CachedHooksAreCurrent
  <1>3. CASE \E f \in Fires : \/ Outgoing!fireWebhooks(f) \/ Outgoing!ReadHooks(f)
                              \/ Outgoing!StoreList(f) \/ Outgoing!PostAll(f)
    BY <1>3, PostingKeeps
  <1>4. ASSUME NEW h \in Hooks,
               \/ \E state \in {"on", "off"} :
                    Outgoing!handleAdminCreateWebhook(h, state) \/ Outgoing!handleAdminUpdateWebhook(h, state)
               \/ Outgoing!handleAdminDeleteWebhook(h)
               \/ \E p \in Outgoing!PaymentProviders, signed, reached \in BOOLEAN :
                    Outgoing!handleIntegrationWebhook(h, p, signed, reached)
        PROVE  HookInv'
    BY <1>4, EditsOfHooksKeep
    DEF Outgoing!handleAdminCreateWebhook, Outgoing!handleAdminUpdateWebhook, Outgoing!handleAdminDeleteWebhook
  <1> QED BY <1>1, <1>2, <1>3, <1>4 DEF Outgoing!HookNext

------------------------------------------------------------------------------
(* Integrations.  A page that shows a mask was read while there was a secret.  *)
Values == Secrets \cup {"absent", "mask"}
Page == [shown : {"absent", "mask", "nothing"}, saves : Values \cup {"nothing"}]
Act == [pc : {"rest", "token", "call"}, token : BOOLEAN, answer : {"none", "refused", "error", "failed", "ok"}]

SecretInv ==
  /\ secret \in Values /\ pages \in [Pages -> Page]
  /\ wanted \subseteq Vendor!EventTypes /\ removed \subseteq Pages /\ orphaned \in BOOLEAN
  /\ secret = "mask" => orphaned
  /\ \A p \in Pages : /\ pages[p].saves = "mask" => orphaned
                      /\ pages[p].shown = "mask" /\ secret = "absent" => p \in removed

\* Requests that are on their way have neither failed nor been answered.
UnderWay(a) == IF acts[a].pc = "rest" THEN 0 ELSE 1
ActInv ==
  /\ acts \in [ActReqs -> Act] /\ tries \in [ActReqs -> 0..MaxTries]
  /\ unsure \in [ActReqs -> Nat] /\ performed \in [ActReqs -> Nat]
  /\ \A a \in ActReqs :
       /\ acts[a].pc # "rest" => acts[a].answer = "none"
       /\ unsure[a] + UnderWay(a) + (IF acts[a].answer = "ok" THEN 1 ELSE 0) <= tries[a]
       /\ performed[a] <= unsure[a] + IF acts[a].answer = "ok" THEN 1 ELSE 0
       /\ acts[a].answer = "ok" => performed[a] >= 1

VendorInv == provider \in Vendor!Catalog /\ SecretInv /\ ActInv

LEMMA ActsAre ==
  /\ Vendor!NoAct \in Act /\ Vendor!NoAct.pc = "rest" /\ Vendor!NoAct.answer = "none"
  /\ \A n \in {"none", "refused", "error", "failed", "ok"} :
       [Vendor!NoAct EXCEPT !.answer = n] \in Act /\ [Vendor!NoAct EXCEPT !.answer = n].pc = "rest"
       /\ [Vendor!NoAct EXCEPT !.answer = n].answer = n
  /\ \A n \in {"token", "call"} :
       [Vendor!NoAct EXCEPT !.pc = n] \in Act /\ [Vendor!NoAct EXCEPT !.pc = n].pc = n
       /\ [Vendor!NoAct EXCEPT !.pc = n].answer = "none"
  BY DEF Vendor!NoAct, Act

LEMMA VendorStart == Vendor!IntegrationInit => VendorInv
  <1> SUFFICES ASSUME Vendor!IntegrationInit PROVE VendorInv
    OBVIOUS
  <1>1. SecretInv
    BY ServicesParameters DEF Vendor!IntegrationInit, SecretInv, Vendor!Closed, Values, Page
  <1>2. ActInv
    <2>1. /\ acts = [a \in ActReqs |-> Vendor!NoAct] /\ tries = [a \in ActReqs |-> 0]
          /\ unsure = [a \in ActReqs |-> 0] /\ performed = [a \in ActReqs |-> 0]
      BY DEF Vendor!IntegrationInit
    <2> QED BY <2>1, ActsAre, ServicesParameters DEF ActInv, UnderWay
  <1> QED BY <1>1, <1>2 DEF VendorInv, Vendor!IntegrationInit

LEMMA PagesOfVendorKeep ==
  ASSUME VendorInv, NEW p \in Pages,
         \/ Vendor!handleListProjectIntegrations(p)
         \/ \E value \in Secrets \cup Vendor!Shown : Vendor!handleSetProjectIntegrations(p, value)
         \/ \E events \in {{}, {"auth:signup"}} : Vendor!SaveIntegrations(p, events)
  PROVE  VendorInv'
  <1>1. SecretInv
    BY DEF VendorInv
  <1>2. provider' = provider /\ UNCHANGED <<acts, tries, unsure, performed>>
    BY DEF Vendor!handleListProjectIntegrations, Vendor!handleSetProjectIntegrations, Vendor!SaveIntegrations, Vendor!Work
  <1>3. CASE Vendor!handleListProjectIntegrations(p)
    <2> DEFINE shown == IF secret = "absent" THEN "absent" ELSE "mask"
    <2>1. /\ pages' = [pages EXCEPT ![p].shown = shown] /\ removed' = removed \ {p}
          /\ UNCHANGED <<secret, wanted, orphaned>>
      BY <1>3 DEF Vendor!handleListProjectIntegrations, Vendor!Absent, Vendor!Mask
    <2>2. shown \in {"absent", "mask"} /\ (secret = "absent" => shown # "mask")
      OBVIOUS
    <2> HIDE DEF shown
    <2>3. pages' \in [Pages -> Page] /\ pages'[p].shown = shown /\ pages'[p].saves = pages[p].saves
          /\ \A q \in Pages \ {p} : pages'[q] = pages[q]
      BY <1>1, <2>1, <2>2 DEF SecretInv, Page
    <2> QED BY <1>1, <1>2, <2>1, <2>2, <2>3 DEF VendorInv, SecretInv, ActInv, UnderWay
  <1>4. CASE \E value \in Secrets \cup Vendor!Shown : Vendor!handleSetProjectIntegrations(p, value)
    <2> PICK value \in Values : Vendor!handleSetProjectIntegrations(p, value)
      BY <1>4 DEF Vendor!Shown, Vendor!Absent, Vendor!Mask, Values
    <2>1. PICK saves \in Values : saves = Vendor!Merged(value) /\ (saves = "mask" => value = "mask" /\ (secret = "absent" \/ secret = "mask"))
      BY <1>1 DEF SecretInv, Vendor!Merged, Vendor!Mask, Vendor!Absent, Vendor!GetByID, VendorInv
    <2>2. /\ pages' = [pages EXCEPT ![p].saves = saves]
          /\ orphaned' = (orphaned \/ (value = "mask" /\ p \in removed))
          /\ UNCHANGED <<secret, wanted, removed>>
          /\ value \in Secrets \cup {pages[p].shown, "absent"}
      BY <2>1 DEF Vendor!handleSetProjectIntegrations, Vendor!Absent, Vendor!Mask
    <2>3. pages' \in [Pages -> Page] /\ pages'[p].shown = pages[p].shown /\ pages'[p].saves = saves
          /\ \A q \in Pages \ {p} : pages'[q] = pages[q]
      BY <1>1, <2>1, <2>2 DEF SecretInv, Page
    <2>4. value = "mask" => pages[p].shown = "mask"
      BY <2>2, ServicesParameters
    <2>5. saves = "mask" => orphaned'
      BY <1>1, <2>1, <2>2, <2>4 DEF SecretInv
    <2>6. orphaned' \in BOOLEAN /\ (orphaned => orphaned')
      BY <1>1, <2>2 DEF SecretInv
    <2>7. SecretInv'
      BY <1>1, <2>2, <2>3, <2>5, <2>6 DEF SecretInv
    <2> QED BY <1>2, <2>7 DEF VendorInv, ActInv, UnderWay
  <1>5. CASE \E events \in {{}, {"auth:signup"}} : Vendor!SaveIntegrations(p, events)
    <2> PICK events \in {{}, {"auth:signup"}} : Vendor!SaveIntegrations(p, events)
      BY <1>5
    <2>1. /\ pages[p].saves # "nothing" /\ pages' = [pages EXCEPT ![p] = Vendor!Closed]
          /\ secret' = pages[p].saves /\ wanted' = events /\ orphaned' = orphaned
          /\ removed' = IF pages[p].saves = "absent" THEN removed \cup Pages ELSE removed
      BY DEF Vendor!SaveIntegrations, Vendor!Absent
    <2>2. Vendor!Closed \in Page /\ Vendor!Closed.shown = "nothing" /\ Vendor!Closed.saves = "nothing"
      BY DEF Vendor!Closed, Page
    <2>3. pages' \in [Pages -> Page] /\ \A q \in Pages : pages'[q] = IF q = p THEN Vendor!Closed ELSE pages[q]
      BY <1>1, <2>1, <2>2 DEF SecretInv
    <2>4. secret' \in Values /\ (secret' = "mask" => orphaned')
      BY <1>1, <2>1 DEF SecretInv, Page
    <2>5. wanted' \subseteq Vendor!EventTypes
      BY <2>1 DEF Vendor!EventTypes
    <2>6. SecretInv'
      BY <1>1, <2>1, <2>2, <2>3, <2>4, <2>5 DEF SecretInv
    <2> QED BY <1>2, <2>6 DEF VendorInv, ActInv, UnderWay
  <1> QED BY <1>3, <1>4, <1>5

\* A step of one action, which comes to act, with n more tries, failures and performances.
LEMMA ActMoves ==
  ASSUME VendorInv, NEW a \in ActReqs, NEW act \in Act, NEW m \in {0, 1}, NEW u \in {0, 1}, NEW n \in {0, 1},
         UNCHANGED <<provider, secret, wanted, pages, removed, orphaned>>,
         acts' = [acts EXCEPT ![a] = act], tries' = [tries EXCEPT ![a] = @ + m],
         unsure' = [unsure EXCEPT ![a] = @ + u], performed' = [performed EXCEPT ![a] = @ + n],
         tries[a] + m <= MaxTries, acts[a].answer # "ok",
         act.pc # "rest" => act.answer = "none",
         u + (IF act.pc = "rest" THEN 0 ELSE 1) + (IF act.answer = "ok" THEN 1 ELSE 0) <= UnderWay(a) + m,
         n <= u + (IF act.answer = "ok" THEN 1 ELSE 0),
         act.answer = "ok" => n = 1
  PROVE  VendorInv'
  <1>1. ActInv
    BY DEF VendorInv
  <1>2. \A b \in ActReqs : /\ acts'[b] = IF b = a THEN act ELSE acts[b]
                           /\ tries'[b] = IF b = a THEN tries[a] + m ELSE tries[b]
                           /\ unsure'[b] = IF b = a THEN unsure[a] + u ELSE unsure[b]
                           /\ performed'[b] = IF b = a THEN performed[a] + n ELSE performed[b]
    BY <1>1 DEF ActInv
  <1>3. /\ acts' \in [ActReqs -> Act] /\ tries' \in [ActReqs -> 0..MaxTries]
        /\ unsure' \in [ActReqs -> Nat] /\ performed' \in [ActReqs -> Nat]
    BY <1>1, ServicesParameters DEF ActInv
  <1>4. PICK e \in Act : e = acts[a]
    BY <1>1 DEF ActInv
  <1>5. PICK t0 \in Nat, u0 \in Nat, p0 \in Nat : t0 = tries[a] /\ u0 = unsure[a] /\ p0 = performed[a]
    BY <1>1, ServicesParameters DEF ActInv
  <1>6. /\ u0 + (IF e.pc = "rest" THEN 0 ELSE 1) <= t0 /\ p0 <= u0
    BY <1>1, <1>4, <1>5 DEF ActInv, UnderWay
  <1>7. /\ (u0 + u) + (IF act.pc = "rest" THEN 0 ELSE 1) + (IF act.answer = "ok" THEN 1 ELSE 0) <= t0 + m
        /\ p0 + n <= (u0 + u) + (IF act.answer = "ok" THEN 1 ELSE 0)
        /\ act.answer = "ok" => p0 + n >= 1
    BY <1>4, <1>6 DEF UnderWay
  <1>8. \A b \in ActReqs :
       /\ acts'[b].pc # "rest" => acts'[b].answer = "none"
       /\ unsure'[b] + (IF acts'[b].pc = "rest" THEN 0 ELSE 1) + (IF acts'[b].answer = "ok" THEN 1 ELSE 0) <= tries'[b]
       /\ performed'[b] <= unsure'[b] + IF acts'[b].answer = "ok" THEN 1 ELSE 0
       /\ acts'[b].answer = "ok" => performed'[b] >= 1
    <2> SUFFICES ASSUME NEW b \in ActReqs PROVE
       /\ acts'[b].pc # "rest" => acts'[b].answer = "none"
       /\ unsure'[b] + (IF acts'[b].pc = "rest" THEN 0 ELSE 1) + (IF acts'[b].answer = "ok" THEN 1 ELSE 0) <= tries'[b]
       /\ performed'[b] <= unsure'[b] + IF acts'[b].answer = "ok" THEN 1 ELSE 0
       /\ acts'[b].answer = "ok" => performed'[b] >= 1
      OBVIOUS
    <2>1. CASE b = a
      BY <2>1, <1>2, <1>5, <1>7
    <2>2. CASE b # a
      BY <2>2, <1>1, <1>2 DEF ActInv, UnderWay
    <2> QED BY <2>1, <2>2
  <1>9. ActInv'
    BY <1>3, <1>8 DEF ActInv, UnderWay
  <1> QED BY <1>9 DEF VendorInv, SecretInv

LEMMA ActsKeep ==
  ASSUME VendorInv, NEW a \in ActReqs,
         Vendor!handleIntegrationAction(a) \/ Vendor!getPayPalAccessToken(a) \/ Vendor!CallProvider(a)
  PROVE  VendorInv'
  <1>1. ActInv /\ provider \in Vendor!Catalog
    BY DEF VendorInv
  <1>2. /\ tries = [tries EXCEPT ![a] = @ + 0] /\ unsure = [unsure EXCEPT ![a] = @ + 0]
        /\ performed = [performed EXCEPT ![a] = @ + 0]
    BY <1>1, ServicesParameters DEF ActInv
  <1>3. tries[a] \in 0..MaxTries /\ acts[a] \in Act /\ tries[a] + 0 <= MaxTries
    BY <1>1, ServicesParameters DEF ActInv
  <1>4. UNCHANGED <<provider, secret, wanted, pages, removed, orphaned>>
    BY DEF Vendor!handleIntegrationAction, Vendor!getPayPalAccessToken, Vendor!CallProvider, Vendor!Settings
  <1>5. CASE Vendor!handleIntegrationAction(a)
    <2>1. Vendor!Refused(a) \/ Vendor!StartAt(a, "token") \/ Vendor!StartAt(a, "call")
      BY <1>1, <1>5 DEF Vendor!handleIntegrationAction, Vendor!handlePayPalAction, Vendor!handleStripeAction,
        Vendor!handleSendGridAction, Vendor!handleDiscordWebhookAction, Vendor!handleSlackWebhookAction,
        Vendor!handleTwilioAction, Vendor!handleOneSignalAction, Vendor!handleAlgoliaAction, Vendor!Asks
    <2>2. PICK act \in Act : /\ acts' = [acts EXCEPT ![a] = act] /\ act.answer # "ok"
                             /\ act.pc # "rest" => act.answer = "none"
      BY <2>1, ActsAre DEF Vendor!Refused, Vendor!StartAt
    <2>3. tries' = [tries EXCEPT ![a] = @ + 1] /\ tries[a] + 1 <= MaxTries /\ acts[a].answer # "ok"
          /\ unsure' = unsure /\ performed' = performed
      BY <1>3, <1>5, ServicesParameters DEF Vendor!handleIntegrationAction
    <2>4. 0 + (IF act.pc = "rest" THEN 0 ELSE 1) + (IF act.answer = "ok" THEN 1 ELSE 0) <= UnderWay(a) + 1
      BY <2>2 DEF UnderWay
    <2>5. 0 <= 0 + (IF act.answer = "ok" THEN 1 ELSE 0)
      OBVIOUS
    <2> QED BY <1>2, <1>4, <2>2, <2>3, <2>4, <2>5, ActMoves
  <1>6. ASSUME acts[a].pc # "rest", Vendor!Fails(a), tries' = tries, NEW n \in {0, 1},
               performed' = [performed EXCEPT ![a] = @ + n]
        PROVE  VendorInv'
    <2>1. PICK act \in Act : acts' = [acts EXCEPT ![a] = act] /\ act.answer = "failed" /\ act.pc = "rest"
      BY <1>6, ActsAre DEF Vendor!Fails, Vendor!Answer
    <2>2. unsure' = [unsure EXCEPT ![a] = @ + 1] /\ acts[a].answer # "ok"
      BY <1>1, <1>6 DEF Vendor!Fails, ActInv
    <2>3. 1 + (IF act.pc = "rest" THEN 0 ELSE 1) + (IF act.answer = "ok" THEN 1 ELSE 0) <= UnderWay(a) + 0
      BY <1>6, <2>1 DEF UnderWay
    <2>4. n <= 1 + (IF act.answer = "ok" THEN 1 ELSE 0)
      OBVIOUS
    <2> QED BY <1>2, <1>3, <1>4, <1>6, <2>1, <2>2, <2>3, <2>4, ActMoves
  <1>7. ASSUME acts[a].pc # "rest", NEW act \in Act, NEW n \in {0, 1}, acts' = [acts EXCEPT ![a] = act],
               UNCHANGED <<tries, unsure>>, performed' = [performed EXCEPT ![a] = @ + n],
               act.pc # "rest" => act.answer = "none", act.answer = "ok" <=> n = 1
        PROVE  VendorInv'
    <2>1. acts[a].answer # "ok"
      BY <1>1, <1>7 DEF ActInv
    <2>2. 0 + (IF act.pc = "rest" THEN 0 ELSE 1) + (IF act.answer = "ok" THEN 1 ELSE 0) <= UnderWay(a) + 0
      BY <1>7 DEF UnderWay
    <2>3. n <= 0 + (IF act.answer = "ok" THEN 1 ELSE 0)
      BY <1>7
    <2> QED BY <1>2, <1>3, <1>4, <1>7, <2>1, <2>2, <2>3, ActMoves
  <1>8. CASE Vendor!getPayPalAccessToken(a)
    <2>1. acts[a].pc = "token" /\ tries' = tries /\ performed' = performed
      BY <1>8 DEF Vendor!getPayPalAccessToken
    <2>2. ASSUME NEW given \in BOOLEAN, acts' = [acts EXCEPT ![a] = [@ EXCEPT !.pc = "call", !.token = given]],
                 unsure' = unsure
          PROVE  VendorInv'
      <3>1. PICK e \in Act : e = acts[a] /\ e.answer = "none"
        BY <1>1, <1>3, <2>1 DEF ActInv
      <3>2. [e EXCEPT !.pc = "call", !.token = given] \in Act
            /\ [e EXCEPT !.pc = "call", !.token = given].answer = "none"
        BY <3>1 DEF Act
      <3>3. PICK act \in Act : act = [e EXCEPT !.pc = "call", !.token = given] /\ act.answer = "none"
        BY <3>2
      <3>4. acts' = [acts EXCEPT ![a] = act]
        BY <2>2, <3>1, <3>3
      <3>5. /\ tries' = tries /\ unsure' = unsure /\ performed' = [performed EXCEPT ![a] = @ + 0]
            /\ acts[a].pc # "rest" /\ (act.answer = "ok" <=> 0 = 1)
        BY <1>2, <2>1, <2>2, <3>3
      <3> QED BY <1>7, <3>3, <3>4, <3>5
    <2> QED BY <1>2, <1>6, <1>8, <2>1, <2>2 DEF Vendor!getPayPalAccessToken
  <1>9. CASE Vendor!CallProvider(a)
    <2>1. acts[a].pc = "call" /\ tries' = tries
      BY <1>9 DEF Vendor!CallProvider
    <2>2. CASE Vendor!Answer(a, "error") /\ UNCHANGED <<unsure, performed>>
      <3>1. PICK act \in Act : acts' = [acts EXCEPT ![a] = act] /\ act.answer = "error" /\ act.pc = "rest"
        BY <2>2, ActsAre DEF Vendor!Answer
      <3>2. /\ tries' = tries /\ unsure' = unsure /\ performed' = [performed EXCEPT ![a] = @ + 0]
            /\ acts[a].pc # "rest" /\ (act.answer = "ok" <=> 0 = 1)
        BY <1>2, <2>1, <2>2, <3>1
      <3> QED BY <1>7, <3>1, <3>2
    <2>3. CASE Vendor!Answer(a, "ok") /\ performed' = [performed EXCEPT ![a] = @ + 1] /\ UNCHANGED unsure
      <3>1. PICK act \in Act : acts' = [acts EXCEPT ![a] = act] /\ act.answer = "ok" /\ act.pc = "rest"
        BY <2>3, ActsAre DEF Vendor!Answer
      <3> QED BY <1>2, <1>7, <2>1, <2>3, <3>1
    <2> QED BY <1>6, <1>9, <2>1, <2>2, <2>3 DEF Vendor!CallProvider
  <1> QED BY <1>5, <1>8, <1>9

LEMMA VendorRestarts == ASSUME VendorInv, Vendor!Restarted PROVE VendorInv'
  <1>1. SecretInv /\ ActInv /\ provider \in Vendor!Catalog
    BY DEF VendorInv
  <1>2. /\ pages' = [p \in Pages |-> IF pages[p].saves # "nothing" THEN Vendor!Closed ELSE pages[p]]
        /\ acts' = [a \in ActReqs |-> IF acts[a].pc = "rest" THEN acts[a] ELSE [Vendor!NoAct EXCEPT !.answer = "failed"]]
        /\ unsure' = [a \in ActReqs |-> unsure[a] + IF acts[a].pc = "rest" THEN 0 ELSE 1]
        /\ UNCHANGED <<provider, secret, wanted, removed, orphaned, tries, performed>>
    BY DEF Vendor!Restarted
  <1>3. Vendor!Closed \in Page /\ Vendor!Closed.shown = "nothing" /\ Vendor!Closed.saves = "nothing"
    BY DEF Vendor!Closed, Page
  <1>4. SecretInv'
    <2>1. pages' \in [Pages -> Page] /\ \A p \in Pages : pages'[p] = pages[p] \/ pages'[p] = Vendor!Closed
      BY <1>1, <1>2, <1>3 DEF SecretInv
    <2> QED BY <1>1, <1>2, <1>3, <2>1 DEF SecretInv
  <1>5. PICK act \in Act : act = [Vendor!NoAct EXCEPT !.answer = "failed"] /\ act.answer = "failed" /\ act.pc = "rest"
    BY ActsAre
  <1>6. ASSUME NEW a \in ActReqs
        PROVE  /\ acts'[a] \in Act /\ unsure'[a] \in Nat
               /\ acts'[a].pc # "rest" => acts'[a].answer = "none"
               /\ unsure'[a] + (IF acts'[a].pc = "rest" THEN 0 ELSE 1) + (IF acts'[a].answer = "ok" THEN 1 ELSE 0) <= tries[a]
               /\ performed[a] <= unsure'[a] + IF acts'[a].answer = "ok" THEN 1 ELSE 0
               /\ acts'[a].answer = "ok" => performed[a] >= 1
    <2>1. CASE acts[a].pc = "rest"
      <3>1. acts'[a] = acts[a] /\ unsure'[a] = unsure[a] + 0 /\ unsure[a] \in Nat
        BY <1>1, <1>2, <2>1 DEF ActInv
      <3>2. unsure'[a] = unsure[a]
        BY <3>1
      <3> QED BY <1>1, <3>1, <3>2 DEF ActInv, UnderWay
    <2>2. CASE acts[a].pc # "rest"
      <3>1. acts'[a] = act /\ unsure'[a] = unsure[a] + 1
        BY <1>2, <1>5, <2>2
      <3>2. /\ unsure[a] \in Nat /\ performed[a] \in Nat /\ tries[a] \in 0..MaxTries /\ acts[a].answer = "none"
            /\ unsure[a] + 1 <= tries[a] /\ performed[a] <= unsure[a]
        BY <1>1, <2>2 DEF ActInv, UnderWay
      <3> QED BY <1>5, <3>1, <3>2
    <2> QED BY <2>1, <2>2
  <1>7. acts' \in [ActReqs -> Act] /\ unsure' \in [ActReqs -> Nat]
    BY <1>2, <1>6
  <1>8. tries' = tries /\ performed' = performed /\ provider' = provider
    BY <1>2
  <1>9. ActInv'
    BY <1>1, <1>6, <1>7, <1>8 DEF ActInv, UnderWay
  <1> QED BY <1>1, <1>4, <1>8, <1>9 DEF VendorInv

LEMMA VendorStays == ASSUME VendorInv, UNCHANGED vendorVars PROVE VendorInv'
  BY DEF vendorVars, VendorInv, SecretInv, ActInv, UnderWay

LEMMA FireKeeps == ASSUME VendorInv, NEW event \in Vendor!EventTypes, Vendor!Fire(event) PROVE VendorInv'
  <1>1. Vendor!Restarted \/ UNCHANGED vendorVars
    BY DEF Vendor!Fire, Vendor!fireDiscord, Vendor!fireSlack, Vendor!fireOneSignal, vendorVars, Vendor!integrationVars
  <1> QED BY <1>1, VendorStays, VendorRestarts

LEMMA VendorKeeps == VendorInv /\ (Vendor!IntegrationNext \/ UNCHANGED vendorVars) => VendorInv'
  <1>1. VendorInv /\ Vendor!IntegrationNext => VendorInv'
    BY FireKeeps, PagesOfVendorKeep, ActsKeep DEF Vendor!IntegrationNext
  <1> QED BY <1>1, VendorStays

LEMMA VendorSays == VendorInv => Vendor!IntegrationTypeOK /\ Vendor!SecretsStayReal /\ Vendor!FailuresExplainRepeats
  <1> SUFFICES ASSUME VendorInv PROVE Vendor!IntegrationTypeOK /\ Vendor!SecretsStayReal /\ Vendor!FailuresExplainRepeats
    OBVIOUS
  <1>1. \A a \in ActReqs : unsure[a] \in 0..MaxTries /\ performed[a] \in 0..MaxTries
    <2> SUFFICES ASSUME NEW a \in ActReqs PROVE unsure[a] \in 0..MaxTries /\ performed[a] \in 0..MaxTries
      OBVIOUS
    <2>1. /\ tries[a] \in 0..MaxTries /\ unsure[a] \in Nat /\ performed[a] \in Nat
          /\ unsure[a] + UnderWay(a) + (IF acts[a].answer = "ok" THEN 1 ELSE 0) <= tries[a]
          /\ performed[a] <= unsure[a] + IF acts[a].answer = "ok" THEN 1 ELSE 0
      BY DEF VendorInv, ActInv
    <2> QED BY <2>1, ServicesParameters DEF UnderWay
  <1>2. {tries, unsure, performed} \subseteq [ActReqs -> 0..MaxTries]
    BY <1>1 DEF VendorInv, ActInv
  <1>3. Vendor!IntegrationTypeOK
    BY <1>2 DEF VendorInv, SecretInv, ActInv, Vendor!IntegrationTypeOK, Values, Page, Act, Vendor!Shown, Vendor!Mask, Vendor!Absent
  <1>4. Vendor!SecretsStayReal
    BY DEF VendorInv, SecretInv, Vendor!SecretsStayReal, Vendor!Mask
  <1>5. Vendor!FailuresExplainRepeats
    BY DEF VendorInv, ActInv, Vendor!FailuresExplainRepeats
  <1> QED BY <1>3, <1>4, <1>5

------------------------------------------------------------------------------
(* Mail.                                                                       *)
Letter == [pc : {"free", "send", "note"}, letter : Letters \cup {"none"}, ok : BOOLEAN]
LogEntry == [letter : Letters, ok : BOOLEAN, listed : BOOLEAN]
MailTypes ==
  /\ mailer \in [provider : Providers, has : SUBSET {"host", "port", "sender", "key"}]
  /\ template \in {"builtin", "own", "broken"}
  /\ sending \in [Senders -> Letter]
  /\ appended \in 0..MaxEntries /\ mailLog \in [1..appended -> LogEntry]
  /\ clearing = {0} \/ clearing \subseteq 1..appended
  /\ newer \subseteq 1..appended /\ cleared \in {"never", "underway", "done", "failed"}
  /\ delivered \in [Letters -> Nat] /\ doubtful \in [Letters -> Nat]

\* A request has a letter while it is on its way, and a success only to note.
SenderHolds(s) ==
  /\ s.pc # "free" => s.letter \in Letters
  /\ s.ok => s.pc = "note"

\* Entries and requests with a success of a letter, against the deliveries.
ToldOf(l) == {i \in 1..appended : mailLog[i].letter = l /\ mailLog[i].ok}
NotedOf(l) == {s \in Senders : sending[s].letter = l /\ sending[s].ok}
Balance(l) ==
  IF mailer.provider = "maildev" THEN delivered[l] = 0
  ELSE /\ Cardinality(ToldOf(l)) + Cardinality(NotedOf(l)) <= delivered[l]
       /\ delivered[l] <= Cardinality(ToldOf(l)) + Cardinality(NotedOf(l)) + doubtful[l]

\* A clearing has deleted what it read, but for what it has still to delete.
ClearingHolds ==
  /\ newer \subseteq Letterbox!Listed
  /\ clearing # {0} => cleared = "underway" /\ Letterbox!Listed = clearing \cup newer /\ clearing \cap newer = {}
  /\ cleared = "done" => Letterbox!Listed = newer

MailInv ==
  /\ MailTypes /\ ClearingHolds
  /\ \A s \in Senders : SenderHolds(sending[s])
  /\ \A l \in Letters : Balance(l)

LEMMA CountsAreFinite ==
  ASSUME MailTypes, NEW l
  PROVE  /\ IsFiniteSet(ToldOf(l)) /\ Cardinality(ToldOf(l)) \in Nat
         /\ IsFiniteSet(NotedOf(l)) /\ Cardinality(NotedOf(l)) \in Nat
  <1>1. appended \in Nat
    BY ServicesParameters DEF MailTypes
  <1>2. IsFiniteSet(1..appended)
    BY <1>1, FS_Interval
  <1>3. IsFiniteSet(ToldOf(l))
    <2>1. ToldOf(l) \subseteq 1..appended
      BY DEF ToldOf
    <2> QED BY <1>2, <2>1, FS_Subset
  <1>4. IsFiniteSet(NotedOf(l))
    <2>1. NotedOf(l) \subseteq Senders
      BY DEF NotedOf
    <2> QED BY <2>1, ServicesParameters, FS_Subset
  <1> QED BY <1>3, <1>4, FS_CardinalityType

LEMMA ListedIs == MailTypes => Letterbox!Listed = {i \in 1..appended : mailLog[i].listed}
  BY DEF Letterbox!Listed

LEMMA FreeIs == Letterbox!Free \in Letter /\ Letterbox!Free.pc = "free" /\ ~Letterbox!Free.ok /\ Letterbox!NoClearing = {0}
  BY DEF Letterbox!Free, Letterbox!NoLetter, Letterbox!NoClearing, Letter

LEMMA MailStart == Letterbox!MailInit => MailInv
  <1> SUFFICES ASSUME Letterbox!MailInit PROVE MailInv
    OBVIOUS
  <1>1. /\ sending = [s \in Senders |-> Letterbox!Free] /\ mailLog = <<>> /\ appended = 0 /\ clearing = {0}
        /\ newer = {} /\ cleared = "never" /\ delivered = [l \in Letters |-> 0] /\ doubtful = [l \in Letters |-> 0]
    BY FreeIs DEF Letterbox!MailInit
  <1>2. mailer \in [provider : Providers, has : SUBSET {"host", "port", "sender", "key"}]
    BY DEF Letterbox!MailInit
  <1>3. MailTypes
    <2>1. sending \in [Senders -> Letter] /\ 0 \in 0..MaxEntries
      BY <1>1, FreeIs, ServicesParameters
    <2>2. mailLog \in [1..appended -> LogEntry]
      BY <1>1
    <2>3. template \in {"builtin", "own", "broken"}
      BY DEF Letterbox!MailInit
    <2> QED BY <1>1, <1>2, <2>1, <2>2, <2>3 DEF MailTypes
  <1>4. \A l \in Letters : ToldOf(l) = {} /\ NotedOf(l) = {}
    BY <1>1, FreeIs DEF ToldOf, NotedOf
  <1>5. \A l \in Letters : Balance(l)
    <2>1. Cardinality({}) = 0
      BY FS_EmptySet
    <2>2. ASSUME NEW l \in Letters PROVE Balance(l)
      <3>1. delivered[l] = 0 /\ doubtful[l] = 0 /\ Cardinality(ToldOf(l)) = 0 /\ Cardinality(NotedOf(l)) = 0
        BY <1>1, <1>4, <2>1
      <3> QED BY <3>1 DEF Balance
    <2> QED BY <2>2
  <1>6. ClearingHolds
    <2>1. Letterbox!Listed = {}
      BY <1>1, <1>3, ListedIs
    <2> QED BY <1>1, <2>1 DEF ClearingHolds
  <1> QED BY <1>1, <1>3, <1>5, <1>6, FreeIs DEF MailInv, SenderHolds

\* One letter: what a step adds to and takes from the four numbers.
LEMMA BalanceMoves ==
  ASSUME MailInv, MailTypes', NEW l \in Letters, mailer' = mailer,
         NEW a \in {0, 1}, NEW b \in {0, 1}, NEW c \in {0, 1}, NEW d \in {0, 1}, NEW e \in {0, 1},
         Cardinality(ToldOf(l)') = Cardinality(ToldOf(l)) + a,
         Cardinality(NotedOf(l)') + b = Cardinality(NotedOf(l)) + c,
         delivered'[l] = delivered[l] + d, doubtful'[l] = doubtful[l] + e,
         mailer.provider = "maildev" => d = 0,
         mailer.provider # "maildev" => a + c <= d + b /\ d + b <= a + c + e
  PROVE  Balance(l)'
  <1>1. PICK t \in Nat, n \in Nat, m \in Nat : t = Cardinality(ToldOf(l)) /\ n = Cardinality(NotedOf(l)) /\ m = Cardinality(NotedOf(l)')
    <2>1. MailTypes
      BY DEF MailInv
    <2>2. Cardinality(NotedOf(l)') \in Nat
      <3>1. NotedOf(l)' \subseteq Senders
        BY DEF NotedOf
      <3> QED BY <3>1, ServicesParameters, FS_Subset, FS_CardinalityType
    <2> QED BY <2>1, <2>2, CountsAreFinite
  <1>2. PICK u \in Nat, v \in Nat : u = delivered[l] /\ v = doubtful[l]
    BY DEF MailInv, MailTypes
  <1>3. IF mailer.provider = "maildev" THEN u = 0 ELSE t + n <= u /\ u <= t + n + v
    BY <1>1, <1>2 DEF MailInv, Balance
  <1>4. m + b = n + c
    BY <1>1
  <1>5. IF mailer.provider = "maildev" THEN u + d = 0 ELSE (t + a) + m <= u + d /\ u + d <= (t + a) + m + (v + e)
    BY <1>3, <1>4
  <1>6. Cardinality(ToldOf(l)') = t + a /\ Cardinality(NotedOf(l)') = m /\ delivered'[l] = u + d /\ doubtful'[l] = v + e
    BY <1>1, <1>2
  <1> QED BY <1>5, <1>6 DEF Balance

LEMMA SameNumbers ==
  ASSUME MailInv, MailTypes', NEW l \in Letters, mailer' = mailer,
         Cardinality(ToldOf(l)') = Cardinality(ToldOf(l)), Cardinality(NotedOf(l)') = Cardinality(NotedOf(l)),
         delivered'[l] = delivered[l], doubtful'[l] = doubtful[l]
  PROVE  Balance(l)'
  <1>1. mailer.provider # "maildev" => 0 + 0 <= 0 + 0 /\ 0 + 0 <= 0 + 0 + 0
    OBVIOUS
  <1>2. Cardinality(ToldOf(l)) \in Nat /\ Cardinality(NotedOf(l)) \in Nat /\ delivered[l] \in Nat /\ doubtful[l] \in Nat
    BY CountsAreFinite DEF MailInv, MailTypes
  <1> QED BY <1>2 DEF MailInv, Balance

\* A request takes or loses its success.
LEMMA NotedMoves ==
  ASSUME MailTypes, NEW s \in Senders, NEW after \in Letter, sending' = [sending EXCEPT ![s] = after], NEW l
  PROVE  /\ ~(sending[s].ok /\ sending[s].letter = l) /\ ~(after.ok /\ after.letter = l) => NotedOf(l)' = NotedOf(l)
         /\ ~(sending[s].ok /\ sending[s].letter = l) /\ (after.ok /\ after.letter = l) =>
              Cardinality(NotedOf(l)') = Cardinality(NotedOf(l)) + 1
         /\ (sending[s].ok /\ sending[s].letter = l) /\ ~(after.ok /\ after.letter = l) =>
              Cardinality(NotedOf(l)') + 1 = Cardinality(NotedOf(l))
  <1>1. \A q \in Senders : sending'[q] = IF q = s THEN after ELSE sending[q]
    BY DEF MailTypes
  <1>2. IsFiniteSet(NotedOf(l)) /\ Cardinality(NotedOf(l)) \in Nat
    BY CountsAreFinite
  <1>3. ~(sending[s].ok /\ sending[s].letter = l) /\ ~(after.ok /\ after.letter = l) => NotedOf(l)' = NotedOf(l)
    BY <1>1 DEF NotedOf
  <1>4. ASSUME ~(sending[s].ok /\ sending[s].letter = l), after.ok /\ after.letter = l
        PROVE  Cardinality(NotedOf(l)') = Cardinality(NotedOf(l)) + 1
    <2>1. NotedOf(l)' = NotedOf(l) \cup {s} /\ s \notin NotedOf(l)
      BY <1>1, <1>4 DEF NotedOf
    <2> QED BY <1>2, <2>1, FS_AddElement
  <1>5. ASSUME sending[s].ok /\ sending[s].letter = l, ~(after.ok /\ after.letter = l)
        PROVE  Cardinality(NotedOf(l)') + 1 = Cardinality(NotedOf(l))
    <2>1. NotedOf(l)' = NotedOf(l) \ {s} /\ s \in NotedOf(l)
      BY <1>1, <1>5 DEF NotedOf
    <2>2. Cardinality(NotedOf(l)') = Cardinality(NotedOf(l)) - 1
      BY <1>2, <2>1, FS_RemoveElement
    <2> QED BY <1>2, <2>2
  <1> QED BY <1>3, <1>4, <1>5

LEMMA SendingType ==
  ASSUME MailTypes, NEW s \in Senders, NEW after \in Letter, sending' = [sending EXCEPT ![s] = after],
         SenderHolds(after), \A q \in Senders : SenderHolds(sending[q])
  PROVE  sending' \in [Senders -> Letter] /\ \A q \in Senders : SenderHolds(sending'[q])
  <1>1. \A q \in Senders : sending'[q] = IF q = s THEN after ELSE sending[q]
    BY DEF MailTypes
  <1>2. sending' \in [Senders -> Letter]
    BY DEF MailTypes
  <1> QED BY <1>1, <1>2

LEMMA AsksKeep ==
  ASSUME MailInv, NEW s \in Senders,
         Letterbox!handleRetryEmailLog(s) \/ \E l \in Letters : Letterbox!SendInvitation(s, l)
  PROVE  MailInv'
  <1>1. MailTypes
    BY DEF MailInv
  <1>2. PICK l \in Letters : /\ sending[s] = Letterbox!Free
                             /\ sending' = [sending EXCEPT ![s] = [pc |-> "send", letter |-> l, ok |-> FALSE]]
                             /\ UNCHANGED <<mailer, template, mailLog, appended, clearing, newer, cleared, delivered, doubtful>>
    <2>1. CASE \E l \in Letters : Letterbox!SendInvitation(s, l)
      BY <2>1 DEF Letterbox!SendInvitation, Letterbox!Trail, Letterbox!Post
    <2>2. CASE Letterbox!handleRetryEmailLog(s)
      <3>1. PICK i \in 1..appended : sending' = [sending EXCEPT ![s] = [pc |-> "send", letter |-> mailLog[i].letter, ok |-> FALSE]]
        BY <2>2 DEF Letterbox!handleRetryEmailLog, Letterbox!Listed
      <3>2. mailLog[i].letter \in Letters
        BY <1>1 DEF MailTypes, LogEntry
      <3> QED BY <2>2, <3>1, <3>2 DEF Letterbox!handleRetryEmailLog, Letterbox!Trail, Letterbox!Post
    <2> QED BY <2>1, <2>2
  <1>3. PICK after \in Letter : /\ after = [pc |-> "send", letter |-> l, ok |-> FALSE] /\ after.pc = "send"
                                /\ after.letter = l /\ after.ok = FALSE
    <2>1. [pc |-> "send", letter |-> l, ok |-> FALSE] \in Letter
      BY DEF Letter
    <2> QED BY <2>1
  <1>4. sending' = [sending EXCEPT ![s] = after]
    BY <1>2, <1>3
  <1>5. sending' \in [Senders -> Letter] /\ \A q \in Senders : SenderHolds(sending'[q])
    BY <1>1, <1>3, <1>4, SendingType DEF MailInv, SenderHolds
  <1>6. MailTypes'
    BY <1>1, <1>2, <1>5 DEF MailTypes
  <1>7. ~sending[s].ok
    BY <1>2, FreeIs
  <1>8. ASSUME NEW k \in Letters PROVE Balance(k)'
    <2>1. NotedOf(k)' = NotedOf(k)
      BY <1>1, <1>3, <1>4, <1>7, NotedMoves
    <2>2. ToldOf(k)' = ToldOf(k)
      BY <1>2 DEF ToldOf
    <2> QED BY <1>2, <1>6, <2>1, <2>2, SameNumbers
  <1>9. ClearingHolds'
    BY <1>2 DEF MailInv, ClearingHolds, Letterbox!Listed
  <1> QED BY <1>5, <1>6, <1>8, <1>9 DEF MailInv

LEMMA SendMailKeeps == ASSUME MailInv, NEW s \in Senders, Letterbox!SendMail(s) PROVE MailInv'
  <1>1. MailTypes /\ SenderHolds(sending[s]) /\ sending[s] \in Letter
    BY DEF MailInv, MailTypes
  <1>2. PICK l \in Letters : l = sending[s].letter
    BY <1>1 DEF SenderHolds, Letterbox!SendMail
  <1>3. /\ sending[s].pc = "send" /\ ~sending[s].ok
        /\ UNCHANGED <<mailer, template, mailLog, appended, clearing, newer, cleared>>
    BY <1>1 DEF SenderHolds, Letterbox!SendMail, Letterbox!Trail
  <1>4. PICK ok \in BOOLEAN, taken \in {0, 1} :
          /\ Letterbox!Passed(s, ok, taken) /\ (mailer.provider = "maildev" => taken = 0)
          /\ mailer.provider # "maildev" /\ ok => taken = 1
    BY DEF Letterbox!SendMail
  <1>5. PICK doubt \in {0, 1} : doubt = IF taken = 1 /\ ~ok THEN 1 ELSE 0
    OBVIOUS
  <1>6. /\ sending' = [sending EXCEPT ![s] = [@ EXCEPT !.pc = "note", !.ok = ok]]
        /\ delivered' = [delivered EXCEPT ![l] = @ + taken] /\ doubtful' = [doubtful EXCEPT ![l] = @ + doubt]
    BY <1>2, <1>4, <1>5 DEF Letterbox!Passed
  <1>7. PICK before \in Letter : before = sending[s] /\ before.letter = l
    BY <1>1, <1>2
  <1>8. PICK after \in Letter : after = [before EXCEPT !.pc = "note", !.ok = ok] /\ after.pc = "note" /\ after.letter = l /\ after.ok = ok
    <2>1. /\ [before EXCEPT !.pc = "note", !.ok = ok] \in Letter
          /\ [before EXCEPT !.pc = "note", !.ok = ok].pc = "note"
          /\ [before EXCEPT !.pc = "note", !.ok = ok].letter = l
          /\ [before EXCEPT !.pc = "note", !.ok = ok].ok = ok
      BY <1>7 DEF Letter
    <2> QED BY <2>1
  <1>9. sending' = [sending EXCEPT ![s] = after]
    BY <1>6, <1>7, <1>8
  <1>10. sending' \in [Senders -> Letter] /\ \A q \in Senders : SenderHolds(sending'[q])
    BY <1>1, <1>8, <1>9, SendingType DEF MailInv, SenderHolds
  <1>11. /\ delivered' \in [Letters -> Nat] /\ doubtful' \in [Letters -> Nat]
         /\ delivered'[l] = delivered[l] + taken /\ doubtful'[l] = doubtful[l] + doubt
         /\ \A k \in Letters : k # l => delivered'[k] = delivered[k] /\ doubtful'[k] = doubtful[k]
    BY <1>1, <1>6 DEF MailTypes
  <1>12. MailTypes'
    BY <1>1, <1>3, <1>10, <1>11 DEF MailTypes
  <1>13. \A k \in Letters : ToldOf(k)' = ToldOf(k)
    BY <1>3 DEF ToldOf
  <1>14. ASSUME NEW k \in Letters, k # l PROVE Balance(k)'
    <2>1. NotedOf(k)' = NotedOf(k)
      BY <1>1, <1>7, <1>8, <1>9, <1>14, NotedMoves
    <2> QED BY <1>3, <1>11, <1>12, <1>13, <1>14, <2>1, SameNumbers
  <1>15. Balance(l)'
    <2>1. Cardinality(ToldOf(l)') = Cardinality(ToldOf(l)) + 0 /\ Cardinality(NotedOf(l)) \in Nat
      BY <1>1, <1>13, CountsAreFinite
    <2>2. mailer' = mailer
      BY <1>3
    <2>3. CASE ok
      <3>1. Cardinality(NotedOf(l)') = Cardinality(NotedOf(l)) + 1
        BY <1>1, <1>3, <1>8, <1>9, <2>3, NotedMoves
      <3>2. Cardinality(NotedOf(l)') + 0 = Cardinality(NotedOf(l)) + 1
        BY <2>1, <3>1
      <3>3. mailer.provider # "maildev" => 0 + 1 <= taken + 0 /\ taken + 0 <= 0 + 1 + doubt
        BY <1>4, <1>5, <2>3
      <3> QED BY <1>4, <1>11, <1>12, <2>1, <2>2, <3>2, <3>3, BalanceMoves
    <2>4. CASE ~ok
      <3>1. NotedOf(l)' = NotedOf(l)
        BY <1>1, <1>3, <1>8, <1>9, <2>4, NotedMoves
      <3>2. Cardinality(NotedOf(l)') + 0 = Cardinality(NotedOf(l)) + 0
        BY <3>1
      <3>3. mailer.provider # "maildev" => 0 + 0 <= taken + 0 /\ taken + 0 <= 0 + 0 + doubt
        BY <1>5, <2>4
      <3> QED BY <1>4, <1>11, <1>12, <2>1, <2>2, <3>2, <3>3, BalanceMoves
    <2> QED BY <2>3, <2>4
  <1>16. ClearingHolds'
    BY <1>3 DEF MailInv, ClearingHolds, Letterbox!Listed
  <1> QED BY <1>10, <1>12, <1>14, <1>15, <1>16 DEF MailInv

\* The entry that is appended comes to those of its letter.
LEMMA ToldMoves ==
  ASSUME MailTypes, NEW entry \in LogEntry, entry.listed = TRUE,
         mailLog' = [i \in 1..appended + 1 |-> IF i <= appended THEN mailLog[i] ELSE entry], appended' = appended + 1
  PROVE  /\ mailLog' \in [1..appended' -> LogEntry]
         /\ \A l : Cardinality(ToldOf(l)') = Cardinality(ToldOf(l)) + IF entry.ok /\ entry.letter = l THEN 1 ELSE 0
         /\ Letterbox!Listed' = Letterbox!Listed \cup {appended + 1}
  <1>1. appended \in Nat /\ mailLog \in [1..appended -> LogEntry]
    BY ServicesParameters DEF MailTypes
  <1>2. \A i \in 1..appended + 1 : i \in 1..appended \/ i = appended + 1
    BY <1>1
  <1>3. \A i \in 1..appended : mailLog'[i] = mailLog[i] /\ i \in 1..appended + 1
    BY <1>1
  <1>4. mailLog'[appended + 1] = entry /\ appended + 1 \in 1..appended + 1 /\ appended + 1 \notin 1..appended
    BY <1>1
  <1>5. mailLog' \in [1..appended' -> LogEntry]
    BY <1>1
  <1>6. ASSUME NEW l PROVE Cardinality(ToldOf(l)') = Cardinality(ToldOf(l)) + IF entry.ok /\ entry.letter = l THEN 1 ELSE 0
    <2>1. IsFiniteSet(ToldOf(l)) /\ Cardinality(ToldOf(l)) \in Nat
      BY CountsAreFinite
    <2>2. CASE entry.ok /\ entry.letter = l
      <3>1. ToldOf(l)' = ToldOf(l) \cup {appended + 1} /\ appended + 1 \notin ToldOf(l)
        BY <1>2, <1>3, <1>4, <2>2 DEF ToldOf
      <3> QED BY <2>1, <2>2, <3>1, FS_AddElement, ZenonT(40)
    <2>3. CASE ~(entry.ok /\ entry.letter = l)
      <3>1. ToldOf(l)' = ToldOf(l)
        BY <1>2, <1>3, <1>4, <2>3 DEF ToldOf
      <3> QED BY <2>1, <2>3, <3>1
    <2> QED BY <2>2, <2>3
  <1>7. Letterbox!Listed' = Letterbox!Listed \cup {appended + 1}
    BY <1>2, <1>3, <1>4 DEF Letterbox!Listed
  <1> QED BY <1>5, <1>6, <1>7

LEMMA AppendKeeps == ASSUME MailInv, NEW s \in Senders, Letterbox!Append(s) PROVE MailInv'
  <1>1. MailTypes /\ SenderHolds(sending[s]) /\ sending[s] \in Letter
    BY DEF MailInv, MailTypes
  <1>2. PICK l \in Letters, ok \in BOOLEAN : l = sending[s].letter /\ ok = sending[s].ok
    BY <1>1 DEF SenderHolds, Letterbox!Append, Letter
  <1>3. PICK c \in {0, 1} : c = IF ok THEN 1 ELSE 0
    OBVIOUS
  <1>4. PICK after \in Letter : after = Letterbox!Free /\ after.pc = "free" /\ ~after.ok
    BY FreeIs
  <1>5. /\ sending' = [sending EXCEPT ![s] = after] /\ appended < MaxEntries
        /\ UNCHANGED <<mailer, template, clearing, cleared, delivered>>
    BY <1>4 DEF Letterbox!Append
  <1>6. sending' \in [Senders -> Letter] /\ \A q \in Senders : SenderHolds(sending'[q])
    BY <1>1, <1>4, <1>5, SendingType DEF MailInv, SenderHolds
  <1>7. \A k \in Letters : k # l => NotedOf(k)' = NotedOf(k)
    BY <1>1, <1>2, <1>4, <1>5, NotedMoves
  <1>8. Cardinality(NotedOf(l)') + c = Cardinality(NotedOf(l)) + 0
    <2>1. Cardinality(NotedOf(l)) \in Nat
      BY <1>1, CountsAreFinite
    <2>2. CASE ok
      <3>1. Cardinality(NotedOf(l)') + 1 = Cardinality(NotedOf(l))
        BY <1>1, <1>2, <1>4, <1>5, <2>2, NotedMoves
      <3> QED BY <1>3, <2>1, <2>2, <3>1
    <2>3. CASE ~ok
      <3>1. NotedOf(l)' = NotedOf(l)
        BY <1>1, <1>2, <1>4, <1>5, <2>3, NotedMoves
      <3> QED BY <1>3, <2>1, <2>3, <3>1
    <2> QED BY <2>2, <2>3
  <1>9. appended \in 0..MaxEntries /\ appended + 1 \in 0..MaxEntries /\ appended \in Nat
    BY <1>1, <1>5, ServicesParameters DEF MailTypes
  <1>10. \A k \in Letters : delivered'[k] = delivered[k] + 0 /\ delivered[k] \in Nat /\ doubtful[k] \in Nat
    BY <1>1, <1>5 DEF MailTypes
  <1>11. CASE /\ mailLog' = [i \in 1..appended + 1 |-> IF i <= appended THEN mailLog[i]
                         ELSE [letter |-> sending[s].letter, ok |-> sending[s].ok, listed |-> TRUE]]
              /\ appended' = appended + 1 /\ newer' = newer \cup {appended + 1} /\ UNCHANGED doubtful
    <2>1. PICK entry \in LogEntry : /\ entry = [letter |-> l, ok |-> ok, listed |-> TRUE]
                                    /\ entry.letter = l /\ entry.ok = ok /\ entry.listed = TRUE
      <3>1. [letter |-> l, ok |-> ok, listed |-> TRUE] \in LogEntry
        BY DEF LogEntry
      <3> QED BY <3>1
    <2>2. mailLog' = [i \in 1..appended + 1 |-> IF i <= appended THEN mailLog[i] ELSE entry]
      BY <1>2, <1>11, <2>1
    <2>3. /\ mailLog' \in [1..appended' -> LogEntry]
          /\ \A k : Cardinality(ToldOf(k)') = Cardinality(ToldOf(k)) + IF entry.ok /\ entry.letter = k THEN 1 ELSE 0
          /\ Letterbox!Listed' = Letterbox!Listed \cup {appended + 1}
      BY <1>1, <1>11, <2>1, <2>2, ToldMoves
    <2>4. MailTypes'
      <3>1. 1..appended \subseteq 1..appended' /\ newer' \subseteq 1..appended'
        BY <1>1, <1>9, <1>11 DEF MailTypes
      <3>2. clearing' = {0} \/ clearing' \subseteq 1..appended'
        BY <1>1, <1>5, <3>1 DEF MailTypes
      <3>3. appended' \in 0..MaxEntries
        BY <1>9, <1>11
      <3> QED BY <1>1, <1>5, <1>6, <1>11, <2>3, <3>1, <3>2, <3>3 DEF MailTypes
    <2>5. ASSUME NEW k \in Letters, k # l PROVE Balance(k)'
      <3>1. Cardinality(ToldOf(k)') = Cardinality(ToldOf(k))
        <4>1. Cardinality(ToldOf(k)') = Cardinality(ToldOf(k)) + 0 /\ Cardinality(ToldOf(k)) \in Nat
          BY <1>1, <2>1, <2>3, <2>5, CountsAreFinite
        <4> QED BY <4>1
      <3>2. delivered'[k] = delivered[k] /\ doubtful'[k] = doubtful[k] /\ mailer' = mailer
        BY <1>5, <1>11
      <3>3. NotedOf(k)' = NotedOf(k)
        BY <1>7, <2>5
      <3> QED BY <2>4, <3>1, <3>2, <3>3, SameNumbers
    <2>6. Balance(l)'
      <3>1. Cardinality(ToldOf(l)') = Cardinality(ToldOf(l)) + c
        BY <1>3, <2>1, <2>3
      <3>2. doubtful'[l] = doubtful[l] + 0 /\ mailer' = mailer
        BY <1>5, <1>10, <1>11
      <3>3. mailer.provider # "maildev" => c + 0 <= 0 + c /\ 0 + c <= c + 0 + 0
        OBVIOUS
      <3> QED BY <1>8, <1>10, <2>4, <3>1, <3>2, <3>3, BalanceMoves
    <2>7. ClearingHolds'
      <3>1. newer \subseteq Letterbox!Listed /\ appended + 1 \notin 1..appended
        BY <1>9 DEF MailInv, ClearingHolds
      <3>2. clearing # {0} => appended + 1 \notin clearing
        BY <1>1, <3>1 DEF MailTypes
      <3> QED BY <1>5, <1>11, <2>3, <3>1, <3>2 DEF MailInv, ClearingHolds
    <2> QED BY <1>6, <2>4, <2>5, <2>6, <2>7 DEF MailInv
  <1>12. CASE /\ doubtful' = [doubtful EXCEPT ![sending[s].letter] = @ + IF sending[s].ok THEN 1 ELSE 0]
              /\ UNCHANGED <<mailLog, appended, newer>>
    <2>1. doubtful' = [doubtful EXCEPT ![l] = @ + c]
      BY <1>2, <1>3, <1>12
    <2>2. doubtful' \in [Letters -> Nat] /\ doubtful'[l] = doubtful[l] + c
          /\ \A k \in Letters : k # l => doubtful'[k] = doubtful[k]
      BY <1>1, <2>1 DEF MailTypes
    <2>3. MailTypes'
      BY <1>1, <1>5, <1>6, <1>12, <2>2 DEF MailTypes
    <2>4. \A k \in Letters : ToldOf(k)' = ToldOf(k)
      BY <1>12 DEF ToldOf
    <2>5. ASSUME NEW k \in Letters, k # l PROVE Balance(k)'
      BY <1>5, <1>7, <2>2, <2>3, <2>4, <2>5, SameNumbers
    <2>6. Balance(l)'
      <3>1. Cardinality(ToldOf(l)') = Cardinality(ToldOf(l)) + 0
        BY <1>1, <2>4, CountsAreFinite
      <3>2. mailer.provider # "maildev" => 0 + 0 <= 0 + c /\ 0 + c <= 0 + 0 + c
        OBVIOUS
      <3>3. mailer' = mailer
        BY <1>5
      <3> QED BY <1>8, <1>10, <2>2, <2>3, <3>1, <3>2, <3>3, BalanceMoves
    <2>7. ClearingHolds'
      BY <1>5, <1>12 DEF MailInv, ClearingHolds, Letterbox!Listed
    <2> QED BY <1>6, <2>3, <2>5, <2>6, <2>7 DEF MailInv
  <1> QED BY <1>11, <1>12 DEF Letterbox!Append

\* A clearing touches which entries are listed, and nothing else of them.
LEMMA ListingKeeps ==
  ASSUME MailInv, UNCHANGED <<mailer, template, sending, appended, delivered, doubtful>>,
         mailLog' \in [1..appended -> LogEntry],
         \A i \in 1..appended : mailLog'[i].letter = mailLog[i].letter /\ mailLog'[i].ok = mailLog[i].ok,
         clearing' = {0} \/ clearing' \subseteq 1..appended, newer' \subseteq 1..appended,
         cleared' \in {"never", "underway", "done", "failed"}, ClearingHolds'
  PROVE  MailInv'
  <1>1. MailTypes'
    BY DEF MailInv, MailTypes
  <1>2. \A l \in Letters : ToldOf(l)' = ToldOf(l) /\ NotedOf(l)' = NotedOf(l)
    BY DEF ToldOf, NotedOf
  <1>3. \A l \in Letters : Balance(l)'
    BY <1>1, <1>2, SameNumbers
  <1> QED BY <1>1, <1>3 DEF MailInv, SenderHolds

LEMMA ClearsKeep ==
  ASSUME MailInv, Letterbox!handleClearEmailLog \/ Letterbox!Clear PROVE MailInv'
  <1>1. MailTypes /\ mailLog \in [1..appended -> LogEntry] /\ newer \subseteq 1..appended
    BY DEF MailInv, MailTypes
  <1>2. /\ UNCHANGED <<mailer, template, sending, appended, delivered, doubtful>>
    BY DEF Letterbox!handleClearEmailLog, Letterbox!Clear, Letterbox!Post
  <1>3. Letterbox!Listed \subseteq 1..appended
    BY DEF Letterbox!Listed
  <1>4. CASE Letterbox!handleClearEmailLog
    <2>1. clearing = {0} /\ clearing' = Letterbox!Listed /\ newer' = {} /\ cleared' = "underway" /\ mailLog' = mailLog
      BY <1>4, FreeIs DEF Letterbox!handleClearEmailLog
    <2>2. Letterbox!Listed' = Letterbox!Listed
      BY <1>2, <2>1 DEF Letterbox!Listed
    <2>3. ClearingHolds'
      BY <2>1, <2>2 DEF ClearingHolds
    <2> QED BY <1>1, <1>2, <1>3, <2>1, <2>3, ListingKeeps
  <1>5. CASE Letterbox!Clear
    <2>1. clearing # {0} /\ newer' = newer /\ clearing \subseteq 1..appended
          /\ Letterbox!Listed = clearing \cup newer /\ clearing \cap newer = {} /\ cleared = "underway"
      BY <1>1, <1>5, FreeIs DEF Letterbox!Clear, MailTypes, MailInv, ClearingHolds
    <2>2. CASE mailLog' = mailLog /\ clearing' = {0} /\ cleared' \in {"failed", "done"} /\ (cleared' = "done" => clearing = {})
      <3>1. Letterbox!Listed' = Letterbox!Listed
        BY <1>2, <2>2 DEF Letterbox!Listed
      <3>2. ClearingHolds'
        BY <2>1, <2>2, <3>1 DEF ClearingHolds
      <3> QED BY <1>1, <1>2, <2>1, <2>2, <3>2, ListingKeeps
    <2>3. ASSUME NEW i \in clearing, clearing' = clearing \ {i}, cleared' = cleared,
                 mailLog' = [mailLog EXCEPT ![i].listed = FALSE]
          PROVE  MailInv'
      <3>1. i \in 1..appended
        BY <2>1
      <3>2. \A e \in LogEntry : /\ [e EXCEPT !.listed = FALSE] \in LogEntry /\ [e EXCEPT !.listed = FALSE].listed = FALSE
                                /\ [e EXCEPT !.listed = FALSE].letter = e.letter /\ [e EXCEPT !.listed = FALSE].ok = e.ok
        BY DEF LogEntry
      <3>3. \A k \in 1..appended : mailLog'[k] = IF k = i THEN [mailLog[i] EXCEPT !.listed = FALSE] ELSE mailLog[k]
        BY <1>1, <2>3, <3>1
      <3>4. mailLog' \in [1..appended -> LogEntry]
        BY <1>1, <2>3, <3>1, <3>2
      <3>5. \A k \in 1..appended : mailLog'[k].letter = mailLog[k].letter /\ mailLog'[k].ok = mailLog[k].ok
        BY <1>1, <3>1, <3>2, <3>3
      <3>6. mailLog'[i].listed = FALSE
        <4>1. mailLog[i] \in LogEntry /\ mailLog'[i] = [mailLog[i] EXCEPT !.listed = FALSE]
          BY <1>1, <3>1, <3>3
        <4> QED BY <3>2, <4>1
      <3>7. Letterbox!Listed' = Letterbox!Listed \ {i}
        BY <1>2, <3>3, <3>6 DEF Letterbox!Listed
      <3>8. i \notin newer
        BY <2>1
      <3>9. ClearingHolds'
        BY <2>1, <2>3, <3>7, <3>8 DEF ClearingHolds
      <3> QED BY <1>1, <1>2, <2>1, <2>3, <3>4, <3>5, <3>9, ListingKeeps
    <2>4. \/ clearing = {} /\ clearing' = {0} /\ cleared' = "done" /\ mailLog' = mailLog
          \/ \E i \in clearing : /\ clearing' = clearing \ {i} /\ cleared' = cleared
                                 /\ mailLog' = [mailLog EXCEPT ![i].listed = FALSE]
          \/ clearing # {} /\ clearing' = {0} /\ cleared' = "failed" /\ mailLog' = mailLog
      BY <1>5, FreeIs DEF Letterbox!Clear
    <2> QED BY <2>2, <2>3, <2>4
  <1> QED BY <1>4, <1>5

LEMMA MailStays ==
  ASSUME MailInv, Letterbox!Set \/ Letterbox!Reset \/ UNCHANGED letterboxVars PROVE MailInv'
  <1>1. /\ UNCHANGED <<mailer, sending, mailLog, appended, clearing, newer, cleared, delivered, doubtful>>
        /\ template' \in {"builtin", "own", "broken"}
    BY DEF Letterbox!Set, Letterbox!Reset, letterboxVars, Letterbox!Trail, Letterbox!Post, MailInv, MailTypes
  <1>2. MailTypes'
    BY <1>1 DEF MailInv, MailTypes
  <1>3. \A l \in Letters : ToldOf(l)' = ToldOf(l) /\ NotedOf(l)' = NotedOf(l)
    BY <1>1 DEF ToldOf, NotedOf
  <1>4. \A l \in Letters : Balance(l)'
    BY <1>1, <1>2, <1>3, SameNumbers
  <1>5. ClearingHolds'
    BY <1>1 DEF MailInv, ClearingHolds, Letterbox!Listed
  <1> QED BY <1>1, <1>2, <1>4, <1>5 DEF MailInv, SenderHolds

LEMMA MailStep == MailInv /\ (Letterbox!MailNext \/ UNCHANGED letterboxVars) => MailInv'
  <1>1. MailInv /\ Letterbox!MailNext => MailInv'
    BY MailStays, ClearsKeep, AsksKeep, SendMailKeeps, AppendKeeps DEF Letterbox!MailNext
  <1> QED BY <1>1, MailStays

LEMMA MailSays == MailInv => Letterbox!MailTypeOK /\ Letterbox!LogTellsDeliveries /\ Letterbox!ClearingTakesWhatItRead
  <1> SUFFICES ASSUME MailInv
               PROVE  Letterbox!MailTypeOK /\ Letterbox!LogTellsDeliveries /\ Letterbox!ClearingTakesWhatItRead
    OBVIOUS
  <1>1. Letterbox!MailTypeOK
    <2>1. /\ Letterbox!Entry = LogEntry /\ Letterbox!NoLetter = "none" /\ Letterbox!NoClearing = {0}
      BY DEF Letterbox!Entry, LogEntry, Letterbox!NoLetter, Letterbox!NoClearing
    <2> QED BY <2>1 DEF MailInv, MailTypes, Letter, Letterbox!MailTypeOK
  <1>2. ASSUME NEW l \in Letters
        PROVE  \/ mailer.provider = "maildev" /\ delivered[l] = 0
               \/ /\ Cardinality(ToldOf(l)) <= delivered[l]
                  /\ delivered[l] <= Cardinality(ToldOf(l)) + Cardinality(NotedOf(l)) + doubtful[l]
    <2>1. Cardinality(ToldOf(l)) \in Nat /\ Cardinality(NotedOf(l)) \in Nat /\ delivered[l] \in Nat
      BY CountsAreFinite DEF MailInv, MailTypes
    <2>2. Balance(l)
      BY DEF MailInv
    <2> QED BY <2>1, <2>2 DEF Balance
  <1>3. Letterbox!LogTellsDeliveries
    <2>1. \A l \in Letters :
            /\ Letterbox!Cardinality({i \in 1..appended : mailLog[i].letter = l /\ mailLog[i].ok}) = Cardinality(ToldOf(l))
            /\ Letterbox!Cardinality({s \in Senders : sending[s].letter = l /\ sending[s].ok}) = Cardinality(NotedOf(l))
      BY DEF ToldOf, NotedOf, Letterbox!Cardinality, Cardinality
    <2> QED BY <1>2, <2>1 DEF Letterbox!LogTellsDeliveries
  <1>4. Letterbox!ClearingTakesWhatItRead
    BY DEF MailInv, ClearingHolds, Letterbox!ClearingTakesWhatItRead
  <1> QED BY <1>1, <1>3, <1>4

------------------------------------------------------------------------------
(* Every component starts and steps within its invariant.                      *)
ServicesInv ==
  /\ QueueInv /\ McpInv /\ RecordInv /\ handle \in 0..MaxReloads
  /\ JobInv /\ FnInv /\ HookInv /\ VendorInv /\ MailInv

LEMMA ServicesStart == Init => ServicesInv
  BY QueueInit_Inv, McpInit_Inv, HandlesStart, JobStart, FnStart, HookStart, VendorStart, MailStart
  DEF Init, ServicesInv

LEMMA QueuesKeep == QueueInv /\ (QueueNext \/ UNCHANGED queueVars) => QueueInv'
  BY QueueNext_Inv

LEMMA EndpointKeeps ==
  McpInv /\ RecordInv /\ handle \in 0..MaxReloads /\ (McpNext \/ UNCHANGED mcpVars)
    => McpInv' /\ RecordInv' /\ (handle \in 0..MaxReloads)'
  BY McpNext_Inv, HandlesCount

LEMMA ServicesKeep ==
  ServicesInv /\ [Next]_<<focus, queueVars, cronVars, functionStoreVars, mcpVars, outgoingVars, vendorVars,
                          letterboxVars>> => ServicesInv'
  <1> SUFFICES ASSUME ServicesInv,
                      [Next]_<<focus, queueVars, cronVars, functionStoreVars, mcpVars, outgoingVars, vendorVars,
                               letterboxVars>>
               PROVE  ServicesInv'
    OBVIOUS
  <1>1. /\ QueueNext \/ UNCHANGED queueVars
        /\ McpNext \/ UNCHANGED mcpVars
        /\ Cron!SchedNext \/ UNCHANGED cronVars
        /\ FunctionStore!FnNext \/ UNCHANGED functionStoreVars
        /\ Outgoing!HookNext \/ UNCHANGED outgoingVars
        /\ Vendor!IntegrationNext \/ UNCHANGED vendorVars
        /\ Letterbox!MailNext \/ UNCHANGED letterboxVars
    BY DEF Next, MailboxStep, CronStep, FunctionStoreStep, EndpointStep, OutgoingStep, VendorStep, LetterboxStep
  <1> QED
    BY <1>1, QueuesKeep, EndpointKeeps, JobStep, FnStep, HookStep, VendorKeeps, MailStep DEF ServicesInv

LEMMA ServicesSay == ServicesInv => TypeOK /\ JobsAndFunctionsRun /\ OutsideIsServed
  <1>1. QueueInv => QueueTypeOK
    BY DEF QueueInv, QueueTypeOK, Message, Count
  <1>2. JobInv => Cron!SchedTypeOK /\ Cron!EnabledJobsAreScheduled
    BY DEF JobInv
  <1>3. HookInv => Outgoing!HookTypeOK /\ Outgoing!CachedHooksAreCurrent
    BY DEF HookInv
  <1> QED
    BY <1>1, <1>2, <1>3, McpTyped, FnSays, VendorSays, MailSays
    DEF ServicesInv, TypeOK, JobsAndFunctionsRun, OutsideIsServed

(* The invariant of all the services of a project.                             *)
THEOREM ServicesInductive == Spec => []ServicesInv
  BY ServicesStart, ServicesKeep, PTL DEF Spec

(* The state of the queues, scheduler.Store, functions.Store, the MCP endpoint, *)
(* the webhooks, the integrations and the mail log keeps its types.             *)
THEOREM ServicesTypeCorrect == Spec => []TypeOK
  <1>1. ServicesInv => TypeOK
    BY ServicesSay
  <1> QED BY <1>1, ServicesInductive, PTL

(* scheduler.Store and functions.Store: an enabled job and a scheduled function *)
(* have a next time from their present schedule, and a function is found by its *)
(* name, through any order of edits, ticks, failed saves and restarts.          *)
THEOREM JobsAndFunctionsKeepRunning == Spec => []JobsAndFunctionsRun
  <1>1. ServicesInv => JobsAndFunctionsRun
    BY ServicesSay
  <1> QED BY <1>1, ServicesInductive, PTL

(* fireWebhooks, the integrations and LoggedMailer: the cached hooks are those  *)
(* there are, no mask becomes a secret, what a provider did is what its answers *)
(* allow for, and the mail log tells what was delivered.                        *)
THEOREM OutsideStaysServed == Spec => []OutsideIsServed
  <1>1. ServicesInv => OutsideIsServed
    BY ServicesSay
  <1> QED BY <1>1, ServicesInductive, PTL
==============================================================================
