----------------------------- MODULE DocumentApi -----------------------------
(* The document handlers of the project API (api.Server) and of the            *)
(* administration API.  A handler is the sequence of its steps: rules, plugin  *)
(* hooks, the engine, metering, the realtime event.  Calls interleave between  *)
(* steps; no lock spans two of them.  A step that refuses ends the call, or in *)
(* a batch its operation.  The single node is modelled: on a cluster events    *)
(* come from the log instead (RealtimeHub).                                    *)
EXTENDS Naturals, Sequences, FiniteSets

CONSTANTS Docs,        \* documents
          Calls,       \* requests that may run at once
          BatchOps,    \* pairs of operations that batches are made of
          MaxVersion   \* writes

DocumentBounds ==
  /\ BatchOps \subseteq {"insert", "update", "delete", "noData"} \X {"insert", "update", "delete", "noData"}
  /\ MaxVersion \in Nat
ASSUME DocumentAssumption == DocumentBounds

VARIABLES
  docs,       \* version of each document, 0 if absent
  version,    \* versions drawn
  policy,     \* whether row-level rules are enabled
  calls,      \* steps each call has left, what it read and what it tallied
  metered,    \* writes on the project's meter
  written,    \* history: writes to be metered
  shown,      \* history: what the last realtime event said
  untold,     \* history: documents whose last write sends no event
  contested   \* history: documents that two calls work on, or did last

docVars == <<docs, version, policy, calls, metered, written, shown, untold, contested>>

Rest == [steps |-> <<>>, seen |-> 0, tally |-> 0]

DocInit ==
  /\ docs = [d \in Docs |-> 0] /\ version = 0
  /\ policy = "off"
  /\ calls = [c \in Calls |-> Rest]
  /\ metered = 0 /\ written = 0
  /\ shown = docs /\ untold = {} /\ contested = {}

------------------------------------------------------------------------------
\* The handlers.  Reads are metered like writes and left out.
On(d, op, todo) == [i \in DOMAIN todo |-> [do |-> todo[i], op |-> op, d |-> d]]

handleInsert(d) == On(d, "insert", <<"rls", "hook", "write", "count", "read", "announce">>)
handleGet(d)    == On(d, "get", <<"rls", "read">>)

\* Mutant of handleUpdate: the write is metered before it is tried.
handleUpdateMetersFirst(d) ==
  On(d, "update", <<"rls", "hook", "count", "write", "read", "announce">>)

handleUpdate(d) == On(d, "update", <<"rls", "hook", "write", "count", "read", "announce">>)

\* Mutant of handleDelete: the event goes out before the document goes.
handleDeleteAnnouncesFirst(d) ==
  On(d, "delete", <<"read", "rls", "announce", "hook", "write", "count">>)

handleDelete(d) == On(d, "delete", <<"read", "rls", "hook", "write", "count", "announce">>)

\* Lists, queries and searches read first and ask the rules about each document.
handleList(d)   == On(d, "list", <<"read", "filter">>)
handleQuery(d)  == handleList(d)
handleSearch(d) == handleList(d)

\* A batch goes on after an operation that fails, runs no hooks, and meters at
\* its end.  An insert without data panics, which ends all of it.
BatchOperation(d, op) ==
  CASE op = "insert" -> On(d, op, <<"rls", "batchWrite", "read", "announce", "next">>)
    [] op = "update" -> On(d, op, <<"rls", "batchWrite", "read", "announce", "next">>)
    [] op = "delete" -> On(d, op, <<"read", "rls", "batchWrite", "announce", "next">>)
    [] op = "noData" -> On(d, op, <<"panic">>)
handleBatch(d, op, e, oq) ==
  BatchOperation(d, op) \o BatchOperation(e, oq) \o On(d, "batch", <<"totals">>)

\* The administration API asks neither rules nor hooks and sends no event.
Admin(d, op) == On(d, op, <<"adminWrite">>)
handleInsertDocument(d) == Admin(d, "insert")
handleUpdateDocument(d) == Admin(d, "update")
handleDeleteDocument(d) == Admin(d, "delete")
handleImportCollection(d, e) == Admin(d, "insert") \o Admin(e, "insert")

------------------------------------------------------------------------------
Busy(d) == {c \in Calls : \E i \in DOMAIN calls[c].steps : calls[c].steps[i].d = d}

\* A call arrives.  Documents another call works on are contested from here on.
Arrive(c, steps) ==
  LET touched == {steps[i].d : i \in DOMAIN steps} IN
  /\ calls[c].steps = <<>>
  /\ calls' = [calls EXCEPT ![c] = [Rest EXCEPT !.steps = steps]]
  /\ contested' = contested \cup {d \in touched : Busy(d) # {}}
  /\ UNCHANGED <<docs, version, policy, metered, written, shown, untold>>

Step(c) == Head(calls[c].steps)
At(c, do) == calls[c].steps # <<>> /\ Step(c).do \in do
After(s) == IF Tail(s) # <<>> /\ Tail(s)[1].do = "next" THEN Tail(Tail(s)) ELSE Tail(s)
Become(c, call) == calls' = [calls EXCEPT ![c] = IF call.steps = <<>> THEN Rest ELSE call]
Pass(c, seen, tally) == Become(c, [steps |-> After(calls[c].steps), seen |-> seen, tally |-> tally])
Proceed(c) == Pass(c, calls[c].seen, calls[c].tally)

\* An error reply, or in a batch the next operation.
Refuse(c) ==
  LET s == calls[c].steps
      later == {i \in DOMAIN s : s[i].do = "next"}
      first == CHOOSE i \in later : \A j \in later : i <= j
  IN Become(c, [calls[c] EXCEPT !.steps = IF later = {} THEN <<>> ELSE SubSeq(s, first + 1, Len(s))])

Quiet == UNCHANGED <<docs, version, policy, metered, written, shown, untold, contested>>

\* With rules enabled the outcome depends on the rule and the caller.
checkRLS(c) ==
  /\ At(c, {"rls"})
  /\ Proceed(c) \/ (policy = "on" /\ Refuse(c))
  /\ Quiet

RunRecordHooks(c) == At(c, {"hook"}) /\ (Proceed(c) \/ Refuse(c)) /\ Quiet

ReadDocument(c) ==
  /\ At(c, {"read"})
  /\ Pass(c, docs[Step(c).d], calls[c].tally)
  /\ Quiet

filterDocs(c) == At(c, {"filter"}) /\ Proceed(c) /\ Quiet

\* The engine takes the write, refuses it, or refuses it with the document
\* stored (a unique index: see DocumentEngine).
Apply(c, told) ==
  LET s == Step(c) IN
  /\ IF s.op = "delete" THEN docs' = [docs EXCEPT ![s.d] = 0] /\ UNCHANGED version
     ELSE /\ version < MaxVersion /\ version' = version + 1
          /\ docs' = [docs EXCEPT ![s.d] = version']
  /\ untold' = IF told THEN untold \ {s.d} ELSE untold \cup {s.d}

WriteDocument(c) ==
  LET s == Step(c) present == docs[s.d] # 0 IN
  /\ At(c, {"write", "batchWrite", "adminWrite"})
  /\ \/ /\ s.op = "insert" \/ present
        /\ Apply(c, s.do # "adminWrite")
        /\ Pass(c, calls[c].seen, calls[c].tally + IF s.do = "batchWrite" THEN 1 ELSE 0)
        /\ written' = IF s.do # "adminWrite" THEN written + 1 ELSE written
     \/ /\ s.op # "delete" /\ (s.op = "insert" \/ present)
        /\ Apply(c, FALSE) /\ Refuse(c) /\ UNCHANGED written
     \/ Refuse(c) /\ UNCHANGED <<docs, version, untold, written>>
  /\ UNCHANGED <<policy, metered, shown, contested>>

\* meterStore.Inc.
CountWrite(c) ==
  /\ At(c, {"count"})
  /\ metered' = metered + 1 /\ Proceed(c)
  /\ UNCHANGED <<docs, version, policy, written, shown, untold, contested>>

MeterBatch(c) ==
  /\ At(c, {"totals"})
  /\ metered' = metered + calls[c].tally /\ Proceed(c)
  /\ UNCHANGED <<docs, version, policy, written, shown, untold, contested>>

\* The panic loses the tally of the operations before.
BatchPanics(c) ==
  /\ At(c, {"panic"})
  /\ calls' = [calls EXCEPT ![c] = Rest]
  /\ written' = written - calls[c].tally
  /\ UNCHANGED <<docs, version, policy, metered, shown, untold, contested>>

\* The event carries what the call read; a plugin may suppress it, and the hub
\* drops it when its queue is full.
publishRealtime(c) ==
  LET s == Step(c) IN
  /\ At(c, {"announce"}) /\ Proceed(c)
  /\ IF s.op = "delete" /\ calls[c].seen = 0 THEN UNCHANGED <<shown, untold>>
     ELSE \/ /\ shown' = [shown EXCEPT ![s.d] = IF s.op = "delete" THEN 0 ELSE calls[c].seen]
             /\ UNCHANGED untold
          \/ untold' = untold \cup {s.d} /\ UNCHANGED shown
  /\ UNCHANGED <<docs, version, policy, metered, written, contested>>

------------------------------------------------------------------------------
\* Administration of the collection.
handleSetRules ==
  /\ policy' \in {"on", "off"}
  /\ UNCHANGED <<docs, version, calls, metered, written, shown, untold, contested>>

handleClearCollection ==
  /\ docs' = [d \in Docs |-> 0]
  /\ untold' = Docs
  /\ UNCHANGED <<version, policy, calls, metered, written, shown, contested>>

OnOne(d) ==
  {handleInsert(d), handleGet(d), handleUpdate(d), handleDelete(d), handleQuery(d), handleSearch(d),
   handleList(d), handleInsertDocument(d), handleUpdateDocument(d), handleDeleteDocument(d)}
Imports == {handleImportCollection(d, e) : d, e \in Docs}
Batches == {handleBatch(d, ops[1], e, ops[2]) : d, e \in Docs, ops \in BatchOps}
Programs == (UNION {OnOne(d) : d \in Docs}) \cup Imports \cup Batches

DocNext ==
  \/ \E c \in Calls :
       \/ \E p \in Programs : Arrive(c, p)
       \/ checkRLS(c) \/ RunRecordHooks(c) \/ ReadDocument(c) \/ filterDocs(c) \/ WriteDocument(c)
       \/ CountWrite(c) \/ MeterBatch(c) \/ BatchPanics(c) \/ publishRealtime(c)
  \/ handleSetRules \/ handleClearCollection

DocSpec == DocInit /\ [][DocNext]_docVars

------------------------------------------------------------------------------
DocTypeOK ==
  /\ docs \in [Docs -> 0..version] /\ shown \in [Docs -> 0..version]
  /\ version \in 0..MaxVersion
  /\ policy \in {"on", "off"}
  /\ metered \in Nat /\ written \in Nat
  /\ untold \subseteq Docs /\ contested \subseteq Docs

\* Once its calls are done, the last event of a document shows the document: a
\* subscriber that follows events is never left behind, whatever was refused.
\* Documents are excepted that two calls worked on at once, and those whose
\* last write sent no event.
LastEventIsCurrent ==
  \A d \in Docs \ (contested \cup untold) : Busy(d) = {} => shown[d] = docs[d]

\* Once all calls are done, the meter shows the writes that were made through
\* the project API, refused ones and parts of batches included, but not those
\* of a batch that panicked.
MeterMatchesWrites == (\A c \in Calls : calls[c].steps = <<>>) => metered = written

(* The last event of a document tells its present state, and the meter counts  *)
(* the writes; excepted are the overlaps and losses named above.               *)
WritesAreTold == LastEventIsCurrent /\ MeterMatchesWrites
==============================================================================
