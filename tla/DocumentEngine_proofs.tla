------------------------ MODULE DocumentEngine_proofs ------------------------
(***************************************************************************)
(* What indexed queries find, for any number of documents, fields, values  *)
(* and concurrent requests.                                                *)
(***************************************************************************)
EXTENDS DocumentEngine, TLAPS

(* The requests that run, by their kind, with the steps that they go through. *)
WriteStep == {"store", "list", "maintain", "check", "add"}
WriteRequest == [op : WriteOp, at : WriteStep, id : Id, old : Doc, new : Doc,
                 index : [Field -> Kind], todo : SUBSET Field, field : SUBSET Field]
AdminStep == {"validate", "save", "scan", "backfill", "docs", "deleteDocs", "sweep",
              "deleteEntries", "indexes", "collection"}
AdminRequest == [op : AdminOp, at : AdminStep, field : SUBSET Field, kind : Kind,
                 index : [Field -> Kind], left : (SUBSET IndexEntry) \cup (SUBSET Id)]

StoreTypes == /\ exists \in BOOLEAN /\ raced \in BOOLEAN
              /\ docs \in [Id -> Doc \cup {Absent}]
              /\ indexes \in [Field -> Kind]
              /\ entries \subseteq IndexEntry
              /\ torn \subseteq Id /\ drifted \subseteq Id

RequestTypes == request \in [Request -> {Idle} \cup WriteRequest \cup AdminRequest]

(* The old and the new document of a write, and the fields it has still to do. *)
WriteShape(q) ==
    /\ q.op = "insert" => q.old = Blank
    /\ q.op = "delete" => q.new = Blank /\ q.at \in {"list", "maintain"}
    /\ q.at \in {"maintain", "check", "add"} =>
          \A f \in q.todo : q.index[f] # "none" /\ q.old[f] # q.new[f]
    /\ q.at \in {"check", "add"} =>
          \E f \in Field : /\ q.field = {f} /\ f \notin q.todo
                         /\ q.index[f] # "none" /\ q.new[f] # Missing

AdminShape(q) ==
    /\ q.op = "createIndex" => q.at \in {"validate", "save", "scan", "backfill"} /\ q.kind # "none"
    /\ q.op = "dropIndex" => q.at \in {"save", "sweep", "deleteEntries"} /\ q.kind = "none"
    /\ q.op \in SweepOp => q.field = Field /\ q.at \in
          {"docs", "deleteDocs", "sweep", "deleteEntries", "indexes", "collection"}
    /\ IF q.at = "deleteDocs" THEN q.left \subseteq Id ELSE q.left \subseteq IndexEntry
    /\ q.at \in {"backfill", "deleteEntries"} => \A e \in q.left : e[1] \in q.field

Shapes == /\ \A r \in Running(WriteOp) : WriteShape(request[r])
          /\ \A r \in Running(AdminOp) : AdminShape(request[r])

(* What the histories say of the requests that run. *)
OverlapsAreNoted ==
    /\ \A w, x \in Running(WriteOp) :
          w # x /\ request[w].id = request[x].id => request[w].id \in torn
    /\ \A w \in Running(WriteOp), s \in Running(SweepOp) : request[w].id \in torn
    /\ \A w \in Running(WriteOp), a \in Running(AdminOp) : request[w].id \in drifted
    /\ ~raced => \A a, b \in Running(AdminOp) : a = b

(* A write that nothing overlapped knows the document that is stored. *)
WriterKnowsDoc ==
    \A w \in Running(WriteOp) : LET q == request[w] IN q.id \notin torn =>
        /\ q.op = "update" /\ q.at = "store" => docs[q.id] = q.old
        /\ q.op = "delete" => docs[q.id] = q.old
        /\ q.op # "delete" /\ q.at # "store" => docs[q.id] = q.new

(* An administrative operation knows the list of indexes as it is, or as it  *)
(* left it; so does a write that none overlapped.                            *)
IndexesAreKnown ==
    /\ ~raced => \A a \in Running(AdminOp) : LET q == request[a] IN
          /\ q.at \in {"validate", "save"} => q.index = indexes
          /\ q.op = "createIndex" /\ q.at \in {"scan", "backfill"} =>
                \A f \in q.field : indexes[f] # "none"
          /\ q.op = "dropIndex" /\ q.at \in {"sweep", "deleteEntries"} =>
                \A f \in q.field : indexes[f] = "none"
    /\ \A w \in Running(WriteOp) : LET q == request[w] IN
          q.id \notin drifted /\ q.at \in {"maintain", "check", "add"} => q.index = indexes

(* A sweep takes the documents, but of torn ones those it saw. *)
SweepTakesDocs ==
    \A s \in Running(SweepOp), i \in Id \ torn : docs[i] # Absent =>
        \/ request[s].at = "docs"
        \/ request[s].at = "deleteDocs" /\ i \in request[s].left

(* The writer of a document, or the backfill of a new index, has still to    *)
(* add an entry.                                                             *)
DeferredBy(q, f) ==
    \/ q.op = "delete"
    \/ q.at = "list" /\ q.old[f] # q.new[f]
    \/ q.at \in {"maintain", "check", "add"} /\ f \in q.todo
    \/ q.at \in {"check", "add"} /\ f \in q.field

BackfilledBy(q, f, i, doc) ==
    /\ q.op = "createIndex"
    /\ \/ q.at = "scan" /\ f \in q.field
       \/ q.at = "backfill" /\ <<f, doc[f], i>> \in q.left

EntriesComplete ==
    ~raced => \A i \in Id \ torn, f \in Field :
        /\ indexes[f] # "none" /\ docs[i] # Absent /\ docs[i][f] # Missing
        /\ \A w \in Writers(i) : ~DeferredBy(request[w], f)
        => \/ <<f, docs[i][f], i>> \in entries
           \/ \E a \in Running(AdminOp) : BackfilledBy(request[a], f, i, docs[i])

(* An entry tells what the document holds, or what its writer found; or a    *)
(* sweep has still to delete it.                                             *)
Holds(doc, f, v) == doc # Absent /\ doc[f] = v

AsWritten(q, doc, f, v) ==
    \/ q.at = "store" /\ Holds(doc, f, v)
    \/ q.at = "list" /\ v = q.old[f]
    \/ q.at \in {"maintain", "check", "add"} /\ f \in q.todo /\ v = q.old[f]
    \/ /\ q.at \in {"maintain", "check", "add"} /\ f \notin q.todo /\ v = q.new[f]
       /\ q.at # "maintain" => f \notin q.field

SweepingBy(q, e) ==
    \/ q.at = "sweep" /\ e[1] \in q.field
    \/ q.at = "deleteEntries" /\ e \in q.left
    \/ q.at = "deleteDocs"

Justified(f, v, i) ==
    \/ \E s \in Running(SweepOp) : SweepingBy(request[s], <<f, v, i>>)
    \/ Writers(i) = {} /\ Holds(docs[i], f, v)
    \/ \E w \in Writers(i) : AsWritten(request[w], docs[i], f, v)

EntriesJustified ==
    ~raced => \A i \in Id \ (torn \cup drifted), f \in Field, v \in Value :
        /\ <<f, v, i>> \in entries => Justified(f, v, i)
        /\ <<f, v, i>> \in entries /\ indexes[f] = "none" =>
              \E a \in Running({"dropIndex"}) : SweepingBy(request[a], <<f, v, i>>)
        /\ \A a \in Running({"createIndex"}) :
              request[a].at = "backfill" /\ <<f, v, i>> \in request[a].left => Holds(docs[i], f, v)

(* A sweep takes the entries, and a dropped collection has none. *)
SweepTakesEntries ==
    ~raced => \A i \in Id \ torn, f \in Field, v \in Value :
        /\ \A s \in Running(SweepOp) : <<f, v, i>> \in entries =>
              \/ request[s].at \in {"docs", "deleteDocs", "sweep"}
              \/ request[s].at = "deleteEntries" /\ <<f, v, i>> \in request[s].left
        /\ ~exists =>
              /\ <<f, v, i>> \notin entries
              /\ \A a \in Running({"createIndex"}) : <<f, v, i>> \notin request[a].left

DroppedIsEmpty ==
    ~exists => \A i \in Id \ torn : Writers(i) = {} /\ docs[i] = Absent

IInv == /\ StoreTypes /\ RequestTypes /\ Shapes
        /\ OverlapsAreNoted /\ WriterKnowsDoc /\ IndexesAreKnown
        /\ SweepTakesDocs /\ SweepTakesEntries /\ DroppedIsEmpty
        /\ EntriesComplete /\ EntriesJustified

LEMMA RequestKinds ==
  ASSUME RequestTypes
  PROVE  /\ \A r \in Running(WriteOp) : request[r] \in WriteRequest
         /\ \A r \in Running(AdminOp) : request[r] \in AdminRequest
         /\ \A r \in Request : request[r].op = "none" => request[r] = Idle
         /\ \A r \in Request : request[r].op \in {"none"} \cup WriteOp \cup AdminOp
  BY DEF RequestTypes, Running, WriteRequest, AdminRequest, Idle, WriteOp, AdminOp, SweepOp

LEMMA BlankIsDoc == Blank \in Doc
  BY DEF Blank, Doc

-----------------------------------------------------------------------------
(* The steps of a write.                                                     *)

(* The only write of a document: nothing else has a say on its entries but a *)
(* backfill.                                                                 *)
LEMMA OwnDocument ==
  ASSUME IInv, NEW r \in Running(WriteOp), NEW q, q = request[r], q.id \notin torn
  PROVE  /\ q \in WriteRequest /\ Writers(q.id) = {r} /\ Running(SweepOp) = {}
         /\ q.id \notin drifted => Running(AdminOp) = {}
         /\ exists
         /\ ~raced => \A f \in Field :
              indexes[f] # "none" /\ docs[q.id] # Absent /\ docs[q.id][f] # Missing
              /\ ~DeferredBy(q, f)
              => \/ <<f, docs[q.id][f], q.id>> \in entries
                 \/ \E a \in Running(AdminOp) : BackfilledBy(request[a], f, q.id, docs[q.id])
         /\ ~raced /\ q.id \notin drifted => \A f \in Field, v \in Value :
              <<f, v, q.id>> \in entries => AsWritten(q, docs[q.id], f, v) /\ indexes[f] # "none"
  <1>1. q \in WriteRequest /\ q.id \in Id
    BY RequestKinds DEF IInv, WriteRequest
  <1>2. Writers(q.id) = {r}
    BY <1>1 DEF IInv, OverlapsAreNoted, Writers
  <1>3. Running(SweepOp) = {} /\ (q.id \notin drifted => Running(AdminOp) = {})
    BY DEF IInv, OverlapsAreNoted
  <1>4. Running({"dropIndex"}) \subseteq Running(AdminOp)
    BY DEF Running, AdminOp
  <1>5. exists
    BY <1>1, <1>2 DEF IInv, DroppedIsEmpty, StoreTypes
  <1>6. ASSUME ~raced, NEW f \in Field,
               indexes[f] # "none", docs[q.id] # Absent, docs[q.id][f] # Missing, ~DeferredBy(q, f)
        PROVE  \/ <<f, docs[q.id][f], q.id>> \in entries
               \/ \E a \in Running(AdminOp) : BackfilledBy(request[a], f, q.id, docs[q.id])
    BY <1>1, <1>2, <1>6 DEF IInv, EntriesComplete
  <1>7. ASSUME ~raced, q.id \notin drifted, NEW f \in Field, NEW v \in Value,
               <<f, v, q.id>> \in entries
        PROVE  AsWritten(q, docs[q.id], f, v) /\ indexes[f] # "none"
    BY <1>1, <1>2, <1>3, <1>4, <1>7 DEF IInv, EntriesJustified, Justified
  <1> QED BY <1>1, <1>2, <1>3, <1>5, <1>6, <1>7

(* A step of a write touches its own document and entries, and its next      *)
(* request p accounts for them.                                              *)
OwnStep(r, p) == LET i == request[r].id IN
    /\ request' = [request EXCEPT ![r] = p]
    /\ UNCHANGED <<exists, indexes, raced>>
    /\ torn \subseteq torn' /\ torn' \subseteq torn \cup {i}
    /\ drifted \subseteq drifted' /\ drifted' \subseteq drifted \cup {i}
    /\ docs' \in [Id -> Doc \cup {Absent}] /\ \A j \in Id : j # i => docs'[j] = docs[j]
    /\ entries' \subseteq IndexEntry
    /\ \A f \in Field, v \in Value, j \in Id :
          j # i => (<<f, v, j>> \in entries' <=> <<f, v, j>> \in entries)

OwnRequest(r, p) == LET i == request[r].id IN p # Idle =>
    /\ p.op = request[r].op /\ p.id = i /\ WriteShape(p)
    /\ i \notin torn' =>
          /\ p.op = "update" /\ p.at = "store" => docs'[i] = p.old
          /\ p.op = "delete" => docs'[i] = p.old
          /\ p.op # "delete" /\ p.at # "store" => docs'[i] = p.new
    /\ i \notin drifted' /\ p.at \in {"maintain", "check", "add"} => p.index = indexes

OwnEntries(r, p) == LET i == request[r].id IN
    /\ ~raced /\ i \notin torn' => \A f \in Field :
          /\ indexes[f] # "none" /\ docs'[i] # Absent /\ docs'[i][f] # Missing
          /\ p # Idle => ~DeferredBy(p, f)
          => \/ <<f, docs'[i][f], i>> \in entries'
             \/ \E a \in Running(AdminOp) : BackfilledBy(request[a], f, i, docs'[i])
    /\ ~raced /\ i \notin torn' \cup drifted' => \A f \in Field, v \in Value :
          <<f, v, i>> \in entries' =>
             /\ indexes[f] # "none"
             /\ p # Idle => AsWritten(p, docs'[i], f, v)
             /\ p = Idle => Holds(docs'[i], f, v)

LEMMA WriteStepKeeps ==
  ASSUME IInv, NEW r \in Running(WriteOp), NEW p \in {Idle} \cup WriteRequest,
         OwnStep(r, p), OwnRequest(r, p), OwnEntries(r, p)
  PROVE  IInv'
  <1> SUFFICES ASSUME NEW q, q = request[r], NEW i, i = q.id PROVE IInv'
    OBVIOUS
  <1> USE DEF OwnStep, OwnRequest, OwnEntries
  <1>1. /\ q \in WriteRequest /\ i \in Id /\ q.op \in WriteOp /\ Idle.op = "none"
        /\ p # Idle => p \in WriteRequest /\ p.op \in WriteOp
    BY RequestKinds DEF IInv, WriteRequest, Idle
  <1>2. \A x \in Request : request'[x] = IF x = r THEN p ELSE request[x]
    BY DEF IInv, RequestTypes, Running
  <1>3. /\ Running(AdminOp)' = Running(AdminOp) /\ Running(SweepOp)' = Running(SweepOp)
        /\ Running({"createIndex"})' = Running({"createIndex"})
        /\ Running({"dropIndex"})' = Running({"dropIndex"})
        /\ Running(SweepOp) \subseteq Running(AdminOp)
        /\ Running({"createIndex"}) \subseteq Running(AdminOp)
        /\ Running({"dropIndex"}) \subseteq Running(AdminOp)
        /\ \A a \in Running(AdminOp) : request'[a] = request[a]
    BY <1>1, <1>2 DEF Running, AdminOp, SweepOp, WriteOp
  <1>4. /\ Running(WriteOp)' \subseteq Running(WriteOp)
        /\ Running(WriteOp) \subseteq Running(WriteOp)' \cup {r}
        /\ r \in Running(WriteOp)' <=> p # Idle
        /\ \A w \in Running(WriteOp)' : request'[w].id = request[w].id /\ (w # r => request'[w] = request[w])
    BY <1>1, <1>2 DEF Running, WriteOp
  <1>5. /\ \A j \in Id : j # i => Writers(j)' = Writers(j) /\ \A w \in Writers(j) : w # r /\ request'[w] = request[w]
        /\ Writers(i)' = (Writers(i) \ {r}) \cup (IF p = Idle THEN {} ELSE {r})
    BY <1>1, <1>2, <1>4 DEF Writers, Running
  <1>6. i \notin torn => /\ Writers(i) = {r} /\ Running(SweepOp) = {} /\ exists
                         /\ i \notin drifted => Running(AdminOp) = {}
    BY OwnDocument
  <1>7. StoreTypes' /\ RequestTypes' /\ Shapes'
    <2>1. StoreTypes' /\ RequestTypes'
      BY <1>1 DEF IInv, StoreTypes, RequestTypes
    <2>2. Shapes'
      BY <1>2, <1>3, <1>4 DEF IInv, Shapes
    <2> QED BY <2>1, <2>2
  <1>8. OverlapsAreNoted'
    BY <1>3, <1>4 DEF IInv, OverlapsAreNoted
  <1>9. WriterKnowsDoc'
    <2> SUFFICES ASSUME NEW w \in Running(WriteOp)', NEW x, x = request'[w], x.id \notin torn'
                 PROVE  /\ x.op = "update" /\ x.at = "store" => docs'[x.id] = x.old
                        /\ x.op = "delete" => docs'[x.id] = x.old
                        /\ x.op # "delete" /\ x.at # "store" => docs'[x.id] = x.new
      BY DEF WriterKnowsDoc
    <2>1. CASE w = r
      BY <2>1, <1>1, <1>2, <1>4 DEF Running
    <2>2. CASE w # r
      <3>1. w \in Running(WriteOp) /\ x = request[w] /\ x.id \notin torn /\ x.id \in Id
        BY <2>2, <1>4, RequestKinds DEF IInv, WriteRequest
      <3>2. x.id # i
        BY <2>2, <3>1, <1>1 DEF IInv, OverlapsAreNoted
      <3> QED BY <3>1, <3>2 DEF IInv, WriterKnowsDoc
    <2> QED BY <2>1, <2>2
  <1>10. IndexesAreKnown'
    BY <1>2, <1>3, <1>4 DEF IInv, IndexesAreKnown
  <1>11. SweepTakesDocs' /\ DroppedIsEmpty'
    BY <1>1, <1>3, <1>5, <1>6 DEF IInv, SweepTakesDocs, DroppedIsEmpty
  <1>12. SweepTakesEntries'
    <2> SUFFICES ASSUME ~raced', NEW j \in Id \ torn', NEW f \in Field, NEW v \in Value
                 PROVE  /\ \A s \in Running(SweepOp)' : <<f, v, j>> \in entries' =>
                              \/ request'[s].at \in {"docs", "deleteDocs", "sweep"}
                              \/ request'[s].at = "deleteEntries" /\ <<f, v, j>> \in request'[s].left
                        /\ ~exists' =>
                              /\ <<f, v, j>> \notin entries'
                              /\ \A a \in Running({"createIndex"})' : <<f, v, j>> \notin request'[a].left
      BY DEF SweepTakesEntries
    <2>1. j = i => Running(SweepOp) = {} /\ exists
      BY <1>6
    <2>2. j # i => (<<f, v, j>> \in entries' <=> <<f, v, j>> \in entries)
      OBVIOUS
    <2> QED BY <2>1, <2>2, <1>3, <1>6 DEF IInv, SweepTakesEntries
  <1>13. EntriesComplete'
    <2> SUFFICES ASSUME ~raced, NEW j \in Id \ torn', NEW f \in Field,
                        indexes[f] # "none", docs'[j] # Absent, docs'[j][f] # Missing,
                        \A w \in Writers(j)' : ~DeferredBy(request'[w], f)
                 PROVE  \/ <<f, docs'[j][f], j>> \in entries'
                        \/ \E a \in Running(AdminOp) : BackfilledBy(request[a], f, j, docs'[j])
      BY <1>3 DEF EntriesComplete, DeferredBy, BackfilledBy
    <2>1. CASE j = i
      <3>1. p # Idle => ~DeferredBy(p, f)
        <4>1. p # Idle => r \in Writers(j)'
          BY <2>1, <1>5
        <4>2. request'[r] = p
          BY <1>2 DEF Running
        <4> QED BY <4>1, <4>2
      <3> QED BY <2>1, <3>1
    <2>2. CASE j # i
      <3>1. docs[j] = docs'[j] /\ docs[j][f] \in Value /\ j \notin torn
        BY <2>2 DEF IInv, StoreTypes, Doc
      <3>2. \A w \in Writers(j) : ~DeferredBy(request[w], f)
        BY <2>2, <1>5
      <3> QED BY <2>2, <3>1, <3>2 DEF IInv, EntriesComplete
    <2> QED BY <2>1, <2>2
  <1>14. EntriesJustified'
    <2> SUFFICES ASSUME ~raced', NEW j \in Id \ (torn \cup drifted)', NEW f \in Field, NEW v \in Value
                 PROVE  /\ <<f, v, j>> \in entries' => Justified(f, v, j)'
                        /\ <<f, v, j>> \in entries' /\ indexes'[f] = "none" =>
                              \E a \in Running({"dropIndex"})' : SweepingBy(request'[a], <<f, v, j>>)
                        /\ \A a \in Running({"createIndex"})' :
                              request'[a].at = "backfill" /\ <<f, v, j>> \in request'[a].left => Holds(docs'[j], f, v)
      BY DEF EntriesJustified
    <2>1. CASE j = i
      BY <2>1, <1>1, <1>2, <1>3, <1>5, <1>6 DEF Justified, Running
    <2>2. CASE j # i
      <3>1. /\ j \in Id \ (torn \cup drifted) /\ docs'[j] = docs[j]
            /\ <<f, v, j>> \in entries' <=> <<f, v, j>> \in entries
        BY <2>2
      <3>2. Holds(docs'[j], f, v) = Holds(docs[j], f, v)
        BY <3>1
      <3>3. ASSUME Justified(f, v, j) PROVE Justified(f, v, j)'
        <4>1. CASE \E s \in Running(SweepOp) : SweepingBy(request[s], <<f, v, j>>)
          BY <4>1, <1>3 DEF Justified, SweepingBy
        <4>2. CASE Writers(j) = {} /\ Holds(docs[j], f, v)
          BY <4>2, <2>2, <3>2, <1>5 DEF Justified
        <4>3. CASE \E w \in Writers(j) : AsWritten(request[w], docs[j], f, v)
          BY <4>3, <2>2, <3>2, <1>5 DEF Justified, AsWritten, Writers
        <4> QED BY <3>3, <4>1, <4>2, <4>3 DEF Justified
      <3> QED BY <3>1, <3>2, <3>3, <1>3 DEF IInv, EntriesJustified
    <2> QED BY <2>1, <2>2
  <1> QED BY <1>7, <1>8, <1>9, <1>10, <1>11, <1>12, <1>13, <1>14 DEF IInv

(* Shape of a running write, and what is in its record.                      *)
LEMMA WriteFields ==
  ASSUME IInv, NEW r \in Request, NEW q, q = request[r], q.op \in WriteOp
  PROVE  /\ r \in Running(WriteOp) /\ q \in WriteRequest /\ WriteShape(q) /\ q # Idle
         /\ q.id \in Id /\ q.old \in Doc /\ q.new \in Doc /\ q.index \in [Field -> Kind]
         /\ q.todo \subseteq Field /\ q.field \subseteq Field /\ q.at \in WriteStep
  <1>1. r \in Running(WriteOp)
    BY DEF Running
  <1> QED BY <1>1, RequestKinds DEF IInv, Shapes, WriteRequest, Idle, WriteOp

LEMMA StoreDocKeeps ==
  ASSUME IInv, NEW r \in Request, StoreDoc(r)
  PROVE  IInv'
  <1> DEFINE q == request[r]
             p == [q EXCEPT !.at = "list"]
             i == q.id
  <1>1. q.op \in {"insert", "update"} /\ q.op \in WriteOp /\ q.at = "store"
    BY DEF StoreDoc, WriteOp
  <1>2. /\ r \in Running(WriteOp) /\ q \in WriteRequest /\ WriteShape(q)
        /\ i \in Id /\ q.old \in Doc /\ q.new \in Doc
    BY <1>1, WriteFields
  <1>3. /\ p \in WriteRequest /\ p # Idle /\ p.op = q.op /\ p.at = "list" /\ p.id = i
        /\ p.old = q.old /\ p.new = q.new
    BY <1>1, <1>2 DEF WriteRequest, WriteStep, Idle, WriteOp
  <1>4. /\ request' = [request EXCEPT ![r] = p]
        /\ docs' = [docs EXCEPT ![i] = q.new]
        /\ drifted' = IF q.op = "insert" /\ docs[i] # Absent THEN drifted \cup {i} ELSE drifted
        /\ UNCHANGED <<exists, indexes, entries, torn, raced>>
    BY DEF StoreDoc, At
  <1>5. docs \in [Id -> Doc \cup {Absent}] /\ entries \subseteq IndexEntry
    BY DEF IInv, StoreTypes
  <1>6. i \notin torn /\ q.op = "update" => docs[i] = q.old
    BY <1>1, <1>2 DEF IInv, WriterKnowsDoc
  <1> HIDE DEF p
  <1>7. WriteShape(p)
    BY <1>1, <1>2, <1>3 DEF WriteShape
  <1>8. docs'[i] = q.new /\ \A j \in Id : j # i => docs'[j] = docs[j]
    BY <1>2, <1>4, <1>5
  <1>9. ASSUME ~raced, i \notin torn, NEW f \in Field,
               indexes[f] # "none", docs'[i][f] # Missing, ~DeferredBy(p, f)
        PROVE  \/ <<f, docs'[i][f], i>> \in entries
               \/ \E a \in Running(AdminOp) : BackfilledBy(request[a], f, i, docs'[i])
    <2>1. q.old[f] = q.new[f]
      BY <1>3, <1>9 DEF DeferredBy
    <2>2. q.op = "update" /\ docs[i] = q.old
      BY <2>1, <1>1, <1>2, <1>6, <1>8, <1>9 DEF WriteShape, Blank
    <2>3. docs[i] # Absent /\ docs[i][f] # Missing /\ ~DeferredBy(q, f)
      BY <2>1, <2>2, <1>1, <1>2, <1>8, <1>9, AbsentAssumption DEF DeferredBy
    <2>4. \/ <<f, docs[i][f], i>> \in entries
          \/ \E a \in Running(AdminOp) : BackfilledBy(request[a], f, i, docs[i])
      BY <2>3, <1>2, <1>9, OwnDocument
    <2> QED BY <2>1, <2>2, <2>4, <1>8 DEF BackfilledBy
  <1>10. ASSUME ~raced, i \notin torn \cup drifted', NEW f \in Field, NEW v \in Value,
                <<f, v, i>> \in entries
         PROVE  indexes[f] # "none" /\ AsWritten(p, docs'[i], f, v)
    <2>1. i \notin drifted
      BY <1>4, <1>10
    <2>2. AsWritten(q, docs[q.id], f, v) /\ indexes[f] # "none"
      BY <2>1, <1>2, <1>10, OwnDocument
    <2>3. docs[i] # Absent /\ docs[i][f] = v
      BY <2>2, <1>1 DEF AsWritten, Holds
    <2>4. docs[i] = q.old
      BY <2>3, <1>1, <1>4, <1>6, <1>10
    <2> QED BY <2>2, <2>3, <2>4, <1>3 DEF AsWritten
  <1>11. OwnStep(r, p)
    BY <1>2, <1>4, <1>5, <1>8 DEF OwnStep
  <1>12. OwnRequest(r, p)
    BY <1>1, <1>3, <1>4, <1>7, <1>8 DEF OwnRequest
  <1>13. OwnEntries(r, p)
    BY <1>3, <1>4, <1>9, <1>10 DEF OwnEntries
  <1> QED BY <1>2, <1>3, <1>11, <1>12, <1>13, WriteStepKeeps

(* What a write that is past its first step knows of the store. *)
LEMMA WriterFacts ==
  ASSUME IInv, NEW r \in Request, NEW q, q = request[r], q.op \in WriteOp, q.at # "store"
  PROVE  /\ q.id \notin torn => docs[q.id] = IF q.op = "delete" THEN q.old ELSE q.new
         /\ q.id \notin drifted /\ q.at \in {"maintain", "check", "add"} => q.index = indexes
         /\ docs \in [Id -> Doc \cup {Absent}] /\ entries \subseteq IndexEntry
         /\ q.id \notin torn => docs[q.id] \in Doc
  BY WriteFields DEF IInv, WriterKnowsDoc, IndexesAreKnown, StoreTypes

LEMMA ReadIndexesKeeps ==
  ASSUME IInv, NEW r \in Request, ReadIndexes(r)
  PROVE  IInv'
  <1> DEFINE q == request[r]
             p == [q EXCEPT !.at = "maintain", !.index = indexes,
                            !.todo = Changed(indexes, q.old, q.new)]
             i == q.id
  <1>1. q.op \in WriteOp /\ q.at = "list"
    BY DEF ReadIndexes
  <1>2. /\ r \in Running(WriteOp) /\ q \in WriteRequest /\ WriteShape(q)
        /\ i \in Id /\ q.old \in Doc /\ q.new \in Doc /\ indexes \in [Field -> Kind]
    BY <1>1, WriteFields DEF IInv, StoreTypes
  <1>3. /\ i \notin torn => docs[i] = IF q.op = "delete" THEN q.old ELSE q.new
        /\ docs \in [Id -> Doc \cup {Absent}] /\ entries \subseteq IndexEntry
    BY <1>1, WriterFacts
  <1>4. /\ p \in WriteRequest /\ p # Idle /\ p.op = q.op /\ p.at = "maintain" /\ p.id = i
        /\ p.old = q.old /\ p.new = q.new /\ p.index = indexes
        /\ p.todo = {f \in Field : indexes[f] # "none" /\ q.old[f] # q.new[f]}
    BY <1>1, <1>2 DEF WriteRequest, WriteStep, Idle, WriteOp, Changed
  <1>5. /\ request' = [request EXCEPT ![r] = p]
        /\ UNCHANGED <<exists, docs, indexes, entries, torn, drifted, raced>>
    BY DEF ReadIndexes, data, history
  <1> HIDE DEF p
  <1>6. WriteShape(p)
    BY <1>1, <1>2, <1>4 DEF WriteShape
  <1>7. ASSUME ~raced, i \notin torn, NEW f \in Field,
               indexes[f] # "none", docs[i][f] # Missing, ~DeferredBy(p, f)
        PROVE  \/ <<f, docs[i][f], i>> \in entries
               \/ \E a \in Running(AdminOp) : BackfilledBy(request[a], f, i, docs[i])
    <2>1. ~DeferredBy(q, f) /\ docs[i] # Absent
      BY <1>1, <1>2, <1>3, <1>4, <1>7, AbsentAssumption DEF DeferredBy
    <2> QED BY <2>1, <1>2, <1>7, OwnDocument
  <1>8. ASSUME ~raced, i \notin torn \cup drifted, NEW f \in Field, NEW v \in Value,
               <<f, v, i>> \in entries
        PROVE  indexes[f] # "none" /\ AsWritten(p, docs[i], f, v)
    <2>1. AsWritten(q, docs[i], f, v) /\ indexes[f] # "none"
      BY <1>2, <1>8, OwnDocument
    <2> QED BY <2>1, <1>1, <1>4 DEF AsWritten
  <1>9. OwnStep(r, p)
    BY <1>3, <1>5 DEF OwnStep
  <1>10. OwnRequest(r, p)
    BY <1>3, <1>4, <1>5, <1>6, WriterFacts DEF OwnRequest
  <1>11. OwnEntries(r, p)
    BY <1>4, <1>5, <1>7, <1>8 DEF OwnEntries
  <1> QED BY <1>2, <1>4, <1>9, <1>10, <1>11, WriteStepKeeps

LEMMA RemoveOldEntryKeeps ==
  ASSUME IInv, NEW r \in Request, RemoveOldEntry(r)
  PROVE  IInv'
  <1> DEFINE q == request[r]
             i == q.id
  <1>1. q.op \in WriteOp /\ q.at = "maintain"
    BY DEF RemoveOldEntry
  <1>2. /\ r \in Running(WriteOp) /\ q \in WriteRequest /\ WriteShape(q)
        /\ i \in Id /\ q.old \in Doc /\ q.new \in Doc /\ q.todo \subseteq Field
    BY <1>1, WriteFields
  <1>3. /\ i \notin torn => docs[i] = IF q.op = "delete" THEN q.old ELSE q.new
        /\ i \notin drifted => q.index = indexes
        /\ docs \in [Id -> Doc \cup {Absent}] /\ entries \subseteq IndexEntry
    BY <1>1, WriterFacts
  <1>4. PICK f \in q.todo :
          /\ entries' = entries \ {<<f, q.old[f], i>>}
          /\ request' = [request EXCEPT ![r].todo = @ \ {f}, ![r].field = {f},
                ![r].at = IF q.new[f] = Missing THEN "maintain"
                          ELSE IF q.index[f] = "unique" THEN "check" ELSE "add"]
    BY DEF RemoveOldEntry
  <1> DEFINE p == [q EXCEPT !.todo = q.todo \ {f}, !.field = {f},
                            !.at = IF q.new[f] = Missing THEN "maintain"
                                   ELSE IF q.index[f] = "unique" THEN "check" ELSE "add"]
  <1>5. /\ p \in WriteRequest /\ p # Idle /\ p.op = q.op /\ p.id = i
        /\ p.old = q.old /\ p.new = q.new /\ p.index = q.index
        /\ p.todo = q.todo \ {f} /\ p.field = {f} /\ p.at \in {"maintain", "check", "add"}
        /\ p.at = "maintain" <=> q.new[f] = Missing
    BY <1>1, <1>2 DEF WriteRequest, WriteStep, Idle, WriteOp
  <1>6. /\ request' = [request EXCEPT ![r] = p]
        /\ UNCHANGED <<exists, docs, indexes, torn, drifted, raced>>
    BY <1>4, ZenonT(60) DEF RemoveOldEntry, history
  <1> HIDE DEF p
  <1>7. WriteShape(p)
    BY <1>1, <1>2, <1>5 DEF WriteShape, Blank
  <1>8. ASSUME ~raced, i \notin torn, NEW g \in Field,
               indexes[g] # "none", docs[i][g] # Missing, ~DeferredBy(p, g)
        PROVE  \/ <<g, docs[i][g], i>> \in entries'
               \/ \E a \in Running(AdminOp) : BackfilledBy(request[a], g, i, docs[i])
    <2>1. q.op # "delete" /\ g # f /\ g \notin q.todo
      BY <1>3, <1>5, <1>8 DEF DeferredBy
    <2>2. ~DeferredBy(q, g) /\ docs[i] # Absent
      BY <2>1, <1>1, <1>2, <1>3, <1>8, AbsentAssumption DEF DeferredBy
    <2>3. \/ <<g, docs[i][g], i>> \in entries
          \/ \E a \in Running(AdminOp) : BackfilledBy(request[a], g, i, docs[i])
      BY <2>2, <1>2, <1>8, OwnDocument
    <2> QED BY <2>1, <2>3, <1>4
  <1>9. ASSUME ~raced, i \notin torn \cup drifted, NEW g \in Field, NEW v \in Value,
               <<g, v, i>> \in entries'
        PROVE  indexes[g] # "none" /\ AsWritten(p, docs[i], g, v)
    <2>1. <<g, v, i>> \in entries
      BY <1>4, <1>9
    <2>2. AsWritten(q, docs[i], g, v) /\ indexes[g] # "none"
      BY <2>1, <1>2, <1>9, OwnDocument
    <2>3. g # f
      BY <2>2, <1>1, <1>4, <1>9 DEF AsWritten
    <2> QED BY <2>2, <2>3, <1>1, <1>5 DEF AsWritten
  <1>10. OwnStep(r, p)
    BY <1>3, <1>4, <1>6 DEF OwnStep
  <1>11. OwnRequest(r, p)
    BY <1>3, <1>5, <1>6, <1>7 DEF OwnRequest
  <1>12. OwnEntries(r, p)
    BY <1>5, <1>6, <1>8, <1>9 DEF OwnEntries
  <1> QED BY <1>2, <1>5, <1>10, <1>11, <1>12, WriteStepKeeps

LEMMA CheckUniqueKeeps ==
  ASSUME IInv, NEW r \in Request, CheckUnique(r)
  PROVE  IInv'
  <1> DEFINE q == request[r]
             i == q.id
  <1>1. q.op \in WriteOp /\ q.at = "check"
    BY DEF CheckUnique
  <1>2. /\ r \in Running(WriteOp) /\ q \in WriteRequest /\ WriteShape(q) /\ q # Idle
        /\ i \in Id /\ q.old \in Doc /\ q.new \in Doc
    BY <1>1, WriteFields
  <1>3. /\ i \notin torn => docs[i] = IF q.op = "delete" THEN q.old ELSE q.new
        /\ i \notin drifted => q.index = indexes
        /\ docs \in [Id -> Doc \cup {Absent}] /\ entries \subseteq IndexEntry
    BY <1>1, WriterFacts
  <1>4. UNCHANGED <<exists, docs, indexes, entries, drifted, raced>>
    BY DEF CheckUnique, data
  <1>5. CASE Done(r) /\ torn' = torn \cup {i}
    <2>1. OwnStep(r, Idle)
      BY <1>3, <1>4, <1>5 DEF OwnStep, Done
    <2>2. OwnRequest(r, Idle) /\ OwnEntries(r, Idle)
      BY <1>4, <1>5 DEF OwnRequest, OwnEntries
    <2> QED BY <2>1, <2>2, <1>2, WriteStepKeeps
  <1>6. CASE At(r, "add") /\ UNCHANGED torn
    <2> DEFINE p == [q EXCEPT !.at = "add"]
    <2>1. /\ p \in WriteRequest /\ p # Idle /\ p.op = q.op /\ p.id = i
          /\ p.old = q.old /\ p.new = q.new /\ p.index = q.index
          /\ p.todo = q.todo /\ p.field = q.field /\ p.at = "add"
      BY <1>1, <1>2 DEF WriteRequest, WriteStep, Idle, WriteOp
    <2>2. request' = [request EXCEPT ![r] = p]
      BY <1>6 DEF At
    <2> HIDE DEF p
    <2>3. WriteShape(p)
      BY <1>1, <1>2, <2>1 DEF WriteShape
    <2>4. ASSUME NEW f, NEW v
          PROVE  /\ DeferredBy(p, f) <=> DeferredBy(q, f)
                 /\ AsWritten(p, docs[i], f, v) <=> AsWritten(q, docs[i], f, v)
      BY <1>1, <2>1 DEF DeferredBy, AsWritten
    <2>5. OwnStep(r, p)
      BY <1>3, <1>4, <1>6, <2>2 DEF OwnStep
    <2>6. OwnRequest(r, p)
      BY <1>1, <1>3, <1>4, <1>6, <2>1, <2>3 DEF OwnRequest
    <2>7. OwnEntries(r, p)
      BY <1>2, <1>4, <1>6, <2>1, <2>4, OwnDocument DEF OwnEntries
    <2> QED BY <1>2, <2>1, <2>5, <2>6, <2>7, WriteStepKeeps
  <1> QED BY <1>5, <1>6 DEF CheckUnique

LEMMA AddNewEntryKeeps ==
  ASSUME IInv, NEW r \in Request, AddNewEntry(r)
  PROVE  IInv'
  <1> DEFINE q == request[r]
             i == q.id
             p == [q EXCEPT !.at = "maintain"]
  <1>1. q.op \in WriteOp /\ q.at = "add"
    BY DEF AddNewEntry
  <1>2. /\ r \in Running(WriteOp) /\ q \in WriteRequest /\ WriteShape(q)
        /\ i \in Id /\ q.old \in Doc /\ q.new \in Doc
    BY <1>1, WriteFields
  <1>3. /\ i \notin torn => docs[i] = IF q.op = "delete" THEN q.old ELSE q.new
        /\ i \notin drifted => q.index = indexes
        /\ docs \in [Id -> Doc \cup {Absent}] /\ entries \subseteq IndexEntry
    BY <1>1, WriterFacts
  <1>4. PICK f \in Field : /\ q.field = {f} /\ f \notin q.todo
                           /\ q.index[f] # "none" /\ q.new[f] # Missing
    BY <1>1, <1>2 DEF WriteShape
  <1>5. q.new[f] \in Value /\ q.op # "delete"
    BY <1>1, <1>2, <1>4 DEF Doc, WriteShape
  <1>6. /\ request' = [request EXCEPT ![r] = p]
        /\ entries' = entries \cup {<<f, q.new[f], i>>}
        /\ UNCHANGED <<exists, docs, indexes, torn, drifted, raced>>
    BY <1>4 DEF AddNewEntry, history, At
  <1>7. /\ p \in WriteRequest /\ p # Idle /\ p.op = q.op /\ p.id = i
        /\ p.old = q.old /\ p.new = q.new /\ p.index = q.index
        /\ p.todo = q.todo /\ p.field = q.field /\ p.at = "maintain"
    BY <1>1, <1>2 DEF WriteRequest, WriteStep, Idle, WriteOp
  <1> HIDE DEF p
  <1>8. WriteShape(p)
    BY <1>1, <1>2, <1>7 DEF WriteShape
  <1>9. ASSUME ~raced, i \notin torn, NEW g \in Field,
               indexes[g] # "none", docs[i][g] # Missing, ~DeferredBy(p, g)
        PROVE  \/ <<g, docs[i][g], i>> \in entries'
               \/ \E a \in Running(AdminOp) : BackfilledBy(request[a], g, i, docs[i])
    <2>1. CASE g = f
      BY <2>1, <1>3, <1>5, <1>6, <1>9
    <2>2. CASE g # f
      <3>1. ~DeferredBy(q, g) /\ docs[i] # Absent
        BY <2>2, <1>1, <1>2, <1>3, <1>4, <1>5, <1>7, <1>9, AbsentAssumption DEF DeferredBy
      <3> QED BY <3>1, <1>2, <1>6, <1>9, OwnDocument
    <2> QED BY <2>1, <2>2
  <1>10. ASSUME ~raced, i \notin torn \cup drifted, NEW g \in Field, NEW v \in Value,
                <<g, v, i>> \in entries'
         PROVE  indexes[g] # "none" /\ AsWritten(p, docs[i], g, v)
    <2>1. CASE <<g, v, i>> \in entries
      <3>1. AsWritten(q, docs[i], g, v) /\ indexes[g] # "none"
        BY <2>1, <1>2, <1>10, OwnDocument
      <3> QED BY <3>1, <1>1, <1>7 DEF AsWritten
    <2>2. CASE g = f /\ v = q.new[f]
      BY <2>2, <1>3, <1>4, <1>7, <1>10 DEF AsWritten
    <2> QED BY <2>1, <2>2, <1>6, <1>10
  <1>11. OwnStep(r, p)
    BY <1>2, <1>3, <1>5, <1>6 DEF OwnStep, IndexEntry
  <1>12. OwnRequest(r, p)
    BY <1>3, <1>5, <1>6, <1>7, <1>8 DEF OwnRequest
  <1>13. OwnEntries(r, p)
    BY <1>6, <1>7, <1>9, <1>10 DEF OwnEntries
  <1> QED BY <1>2, <1>7, <1>11, <1>12, <1>13, WriteStepKeeps

LEMMA EndWriteKeeps ==
  ASSUME IInv, NEW r \in Request, EndWrite(r)
  PROVE  IInv'
  <1> DEFINE q == request[r]
             i == q.id
  <1>1. q.op \in WriteOp /\ q.at = "maintain" /\ q.todo = {}
    BY DEF EndWrite
  <1>2. /\ r \in Running(WriteOp) /\ q \in WriteRequest /\ WriteShape(q)
        /\ i \in Id /\ q.old \in Doc /\ q.new \in Doc
    BY <1>1, WriteFields
  <1>3. /\ i \notin torn => docs[i] = IF q.op = "delete" THEN q.old ELSE q.new
        /\ docs \in [Id -> Doc \cup {Absent}] /\ entries \subseteq IndexEntry
    BY <1>1, WriterFacts
  <1>4. /\ request' = [request EXCEPT ![r] = Idle]
        /\ UNCHANGED <<exists, indexes, entries, torn, drifted, raced>>
        /\ docs' = IF q.op = "delete" THEN [docs EXCEPT ![i] = Absent] ELSE docs
    BY DEF EndWrite, history, Done
  <1>5. ASSUME ~raced, i \notin torn, NEW f \in Field,
               indexes[f] # "none", docs'[i] # Absent, docs'[i][f] # Missing
        PROVE  \/ <<f, docs'[i][f], i>> \in entries
               \/ \E a \in Running(AdminOp) : BackfilledBy(request[a], f, i, docs'[i])
    <2>1. q.op # "delete" /\ docs' = docs
      BY <1>2, <1>3, <1>4, <1>5
    <2>2. ~DeferredBy(q, f)
      BY <2>1, <1>1 DEF DeferredBy
    <2> QED BY <2>1, <2>2, <1>2, <1>5, OwnDocument
  <1>6. ASSUME ~raced, i \notin torn \cup drifted, NEW f \in Field, NEW v \in Value,
               <<f, v, i>> \in entries
        PROVE  indexes[f] # "none" /\ Holds(docs'[i], f, v)
    <2>1. v = q.new[f] /\ indexes[f] # "none"
      BY <1>1, <1>2, <1>6, OwnDocument DEF AsWritten
    <2>2. q.op # "delete"
      BY <2>1, <1>2, <1>6, MissingAssumption DEF WriteShape, Blank
    <2> QED BY <2>1, <2>2, <1>2, <1>3, <1>4, <1>6, AbsentAssumption DEF Holds
  <1>7. OwnStep(r, Idle)
    BY <1>2, <1>3, <1>4 DEF OwnStep
  <1>8. OwnRequest(r, Idle)
    BY DEF OwnRequest
  <1>9. OwnEntries(r, Idle)
    BY <1>4, <1>5, <1>6 DEF OwnEntries
  <1> QED BY <1>2, <1>7, <1>8, <1>9, WriteStepKeeps

(* The first step of a write: it reads what is stored, and notes whom it     *)
(* overlaps.                                                                 *)
LEMMA BeginWriteKeeps ==
  ASSUME IInv, NEW r \in Request, NEW i \in Id, NEW op \in WriteOp, NEW step \in {"store", "list"},
         NEW old \in Doc, NEW new \in Doc, BeginWrite(r, i, op, step, old, new),
         op = "insert" => old = Blank /\ exists,
         op \in {"update", "delete"} => old = docs[i],
         op = "delete" <=> step = "list", op = "delete" => new = Blank
  PROVE  IInv'
  <1> SUFFICES ASSUME NEW p, p = [op |-> op, at |-> step, id |-> i, old |-> old, new |-> new,
                        index |-> [f \in Field |-> "none"], todo |-> {}, field |-> {}]
               PROVE  IInv'
    OBVIOUS
  <1>1. /\ p \in WriteRequest /\ p.op = op /\ p.at = step /\ p.id = i /\ p.old = old
        /\ WriteShape(p) /\ p.op \in WriteOp
    BY DEF WriteRequest, WriteStep, Kind, WriteShape
  <1>2. /\ request' = [request EXCEPT ![r] = p]
        /\ UNCHANGED <<exists, docs, indexes, entries, raced>>
        /\ torn' = IF Writers(i) # {} \/ Running(SweepOp) # {} THEN torn \cup {i} ELSE torn
        /\ drifted' = IF Running(AdminOp) # {} THEN drifted \cup {i} ELSE drifted
        /\ request[r].op = "none"
    BY DEF BeginWrite, data
  <1>3. \A x \in Request : request'[x] = IF x = r THEN p ELSE request[x]
    BY <1>2 DEF IInv, RequestTypes
  <1>4. /\ Running(AdminOp)' = Running(AdminOp) /\ Running(SweepOp)' = Running(SweepOp)
        /\ Running({"createIndex"})' = Running({"createIndex"})
        /\ Running({"dropIndex"})' = Running({"dropIndex"})
        /\ Running(SweepOp) \subseteq Running(AdminOp)
        /\ Running({"createIndex"}) \subseteq Running(AdminOp)
        /\ Running({"dropIndex"}) \subseteq Running(AdminOp)
        /\ \A a \in Running(AdminOp) : request'[a] = request[a]
    BY <1>1, <1>2, <1>3 DEF Running, AdminOp, SweepOp, WriteOp
  <1>5. /\ Running(WriteOp)' = Running(WriteOp) \cup {r} /\ r \notin Running(WriteOp)
        /\ \A w \in Running(WriteOp) : request'[w] = request[w]
        /\ request'[r] = p
    BY <1>1, <1>2, <1>3 DEF Running, WriteOp
  <1>6. /\ \A j \in Id : j # i => Writers(j)' = Writers(j)
        /\ Writers(i)' = Writers(i) \cup {r}
        /\ \A j \in Id : \A w \in Writers(j) : request'[w] = request[w]
    BY <1>1, <1>5 DEF Writers
  <1>7. i \notin torn' => /\ i \notin torn /\ Writers(i) = {} /\ Running(SweepOp) = {}
                          /\ i \notin drifted' => i \notin drifted /\ Running(AdminOp) = {}
    BY <1>2
  <1>8. StoreTypes' /\ RequestTypes'
    BY <1>1, <1>2 DEF IInv, StoreTypes, RequestTypes
  <1>9. Shapes'
    BY <1>1, <1>4, <1>5 DEF IInv, Shapes
  <1>10. OverlapsAreNoted'
    <2>1. \A w \in Running(WriteOp) : request[w].id = i => i \in torn'
      BY <1>2 DEF Writers
    <2>2. Running(SweepOp) # {} => i \in torn'
      BY <1>2
    <2>3. Running(AdminOp) # {} => i \in drifted'
      BY <1>2
    <2>4. torn \subseteq torn' /\ drifted \subseteq drifted'
      BY <1>2
    <2> QED BY <2>1, <2>2, <2>3, <2>4, <1>1, <1>2, <1>4, <1>5 DEF IInv, OverlapsAreNoted
  <1>11. WriterKnowsDoc' /\ IndexesAreKnown'
    <2>1. torn \subseteq torn' /\ drifted \subseteq drifted'
      BY <1>2
    <2>2. WriterKnowsDoc'
      BY <2>1, <1>1, <1>2, <1>5 DEF IInv, WriterKnowsDoc, WriteOp
    <2>3. IndexesAreKnown'
      BY <2>1, <1>1, <1>2, <1>4, <1>5 DEF IInv, IndexesAreKnown
    <2> QED BY <2>2, <2>3
  <1>12. SweepTakesDocs'
    BY <1>2, <1>4 DEF IInv, SweepTakesDocs
  <1>13. SweepTakesEntries'
    <2>1. torn \subseteq torn' /\ raced' = raced /\ exists' = exists /\ entries' = entries
      BY <1>2
    <2> QED BY <2>1, <1>4 DEF IInv, SweepTakesEntries
  <1>14. DroppedIsEmpty'
    <2>1. ~exists => i \in torn'
      BY <1>2, AbsentAssumption DEF IInv, DroppedIsEmpty, WriteOp
    <2> QED BY <2>1, <1>2, <1>6 DEF IInv, DroppedIsEmpty
  <1>15. EntriesComplete'
    <2> SUFFICES ASSUME ~raced, NEW j \in Id \ torn', NEW f \in Field,
                        indexes[f] # "none", docs[j] # Absent, docs[j][f] # Missing,
                        \A w \in Writers(j)' : ~DeferredBy(request'[w], f)
                 PROVE  \/ <<f, docs[j][f], j>> \in entries
                        \/ \E a \in Running(AdminOp) : BackfilledBy(request[a], f, j, docs[j])
      BY <1>2, <1>4 DEF EntriesComplete, DeferredBy, BackfilledBy
    <2>1. \A w \in Writers(j) : ~DeferredBy(request[w], f)
      BY <1>6
    <2>2. j \notin torn
      BY <1>2
    <2> QED BY <2>1, <2>2 DEF IInv, EntriesComplete
  <1>16. EntriesJustified'
    <2> SUFFICES ASSUME ~raced', NEW j \in Id \ (torn \cup drifted)', NEW f \in Field, NEW v \in Value
                 PROVE  /\ <<f, v, j>> \in entries' => Justified(f, v, j)'
                        /\ <<f, v, j>> \in entries' /\ indexes'[f] = "none" =>
                              \E a \in Running({"dropIndex"})' : SweepingBy(request'[a], <<f, v, j>>)
                        /\ \A a \in Running({"createIndex"})' :
                              request'[a].at = "backfill" /\ <<f, v, j>> \in request'[a].left => Holds(docs'[j], f, v)
      BY DEF EntriesJustified
    <2> SUFFICES /\ <<f, v, j>> \in entries => Justified(f, v, j)'
                 /\ <<f, v, j>> \in entries /\ indexes[f] = "none" =>
                       \E a \in Running({"dropIndex"}) : SweepingBy(request[a], <<f, v, j>>)
                 /\ \A a \in Running({"createIndex"}) :
                       request[a].at = "backfill" /\ <<f, v, j>> \in request[a].left => Holds(docs[j], f, v)
      BY <1>2, <1>4, ZenonT(60)
    <2>1. j \in Id \ (torn \cup drifted)
      BY <1>2
    <2>2. ASSUME Justified(f, v, j) PROVE Justified(f, v, j)'
      <3>1. CASE \E s \in Running(SweepOp) : SweepingBy(request[s], <<f, v, j>>)
        BY <3>1, <1>4 DEF Justified, SweepingBy
      <3>2. CASE \E w \in Writers(j) : AsWritten(request[w], docs[j], f, v)
        BY <3>2, <1>2, <1>6 DEF Justified, AsWritten, Holds
      <3>3. CASE Writers(j) = {} /\ Holds(docs[j], f, v)
        <4>1. CASE j = i
          <5>1. r \in Writers(j)' /\ request'[r] = p
            BY <4>1, <1>5, <1>6
          <5>2. AsWritten(p, docs[j], f, v)
            BY <4>1, <3>3, <1>1 DEF AsWritten, Holds, WriteOp
          <5> QED BY <5>1, <5>2, <1>2 DEF Justified
        <4>2. CASE j # i
          BY <4>2, <3>3, <1>2, <1>6 DEF Justified, Holds
        <4> QED BY <4>1, <4>2
      <3> QED BY <2>2, <3>1, <3>2, <3>3 DEF Justified
    <2> QED BY <2>1, <2>2, <1>2 DEF IInv, EntriesJustified
  <1> QED BY <1>8, <1>9, <1>10, <1>11, <1>12, <1>13, <1>14, <1>15, <1>16 DEF IInv

LEMMA WriteBegins ==
  ASSUME IInv, NEW r \in Request, NEW i \in Id, Insert(r, i) \/ Update(r, i) \/ Delete(r, i)
  PROVE  IInv'
  <1>1. docs[i] # Absent => docs[i] \in Doc
    BY DEF IInv, StoreTypes
  <1>2. CASE Insert(r, i)
    BY <1>2, BlankIsDoc, BeginWriteKeeps DEF Insert, WriteOp
  <1>3. CASE Update(r, i)
    BY <1>1, <1>3, BeginWriteKeeps DEF Update, WriteOp
  <1>4. CASE Delete(r, i)
    BY <1>1, <1>4, BlankIsDoc, BeginWriteKeeps DEF Delete, WriteOp
  <1> QED BY <1>2, <1>3, <1>4

-----------------------------------------------------------------------------
(* The steps of an administrative operation.                                 *)

(* The invariants on indexes, read for the request q as the only operation   *)
(* that is not a write.                                                      *)
KnowsIndexes(q) ==
    /\ q.at \in {"validate", "save"} => q.index = indexes
    /\ q.op = "createIndex" /\ q.at \in {"scan", "backfill"} => \A f \in q.field : indexes[f] # "none"
    /\ q.op = "dropIndex" /\ q.at \in {"sweep", "deleteEntries"} => \A f \in q.field : indexes[f] = "none"

CompleteWith(q) == \A i \in Id \ torn, f \in Field :
    /\ indexes[f] # "none" /\ docs[i] # Absent /\ docs[i][f] # Missing
    /\ \A w \in Writers(i) : ~DeferredBy(request[w], f)
    => <<f, docs[i][f], i>> \in entries \/ BackfilledBy(q, f, i, docs[i])

JustifiedWith(q) == \A i \in Id \ (torn \cup drifted \cup Written), f \in Field, v \in Value :
    /\ <<f, v, i>> \in entries =>
          Holds(docs[i], f, v) \/ (q.op \in SweepOp /\ SweepingBy(q, <<f, v, i>>))
    /\ <<f, v, i>> \in entries /\ indexes[f] = "none" =>
          q.op = "dropIndex" /\ SweepingBy(q, <<f, v, i>>)
    /\ q.op = "createIndex" /\ q.at = "backfill" /\ <<f, v, i>> \in q.left => Holds(docs[i], f, v)

TakesEntries(q) == \A i \in Id \ torn, f \in Field, v \in Value :
    /\ q.op \in SweepOp /\ <<f, v, i>> \in entries =>
          \/ q.at \in {"docs", "deleteDocs", "sweep"}
          \/ q.at = "deleteEntries" /\ <<f, v, i>> \in q.left
    /\ ~exists => /\ <<f, v, i>> \notin entries
                  /\ q.op = "createIndex" => <<f, v, i>> \notin q.left

TakesDocs(q) == \A i \in Id \ torn :
    q.op \in SweepOp /\ docs[i] # Absent =>
        q.at = "docs" \/ (q.at = "deleteDocs" /\ i \in q.left)

Alone(q) == KnowsIndexes(q) /\ CompleteWith(q) /\ JustifiedWith(q) /\ TakesEntries(q)

(* What the invariant says of an operation that no other one overlaps. *)
LEMMA AloneIfFirst ==
  ASSUME IInv, ~raced, NEW r \in Request,
         request[r] # Idle => request[r].op \in AdminOp,
         \A a \in Running(AdminOp) : a = r
  PROVE  Alone(request[r])
  <1> SUFFICES ASSUME NEW q, q = request[r] PROVE Alone(q)
    OBVIOUS
  <1>1. /\ Running(SweepOp) \subseteq Running(AdminOp)
        /\ Running({"createIndex"}) \subseteq Running(AdminOp)
        /\ Running({"dropIndex"}) \subseteq Running(AdminOp)
    BY DEF Running, AdminOp
  <1>2. /\ q = Idle => q.op = "none" /\ q.at = "idle"
        /\ q # Idle => r \in Running(AdminOp)
        /\ q.op \in SweepOp <=> r \in Running(SweepOp)
        /\ q.op = "createIndex" <=> r \in Running({"createIndex"})
        /\ q.op = "dropIndex" <=> r \in Running({"dropIndex"})
    BY DEF Running, Idle
  <1>3. KnowsIndexes(q)
    BY <1>2 DEF IInv, IndexesAreKnown, KnowsIndexes
  <1>4. CompleteWith(q)
    BY DEF IInv, EntriesComplete, CompleteWith
  <1>5. TakesEntries(q)
    BY <1>2 DEF IInv, SweepTakesEntries, TakesEntries
  <1>6. JustifiedWith(q)
    <2> SUFFICES ASSUME NEW i \in Id \ (torn \cup drifted \cup Written), NEW f \in Field, NEW v \in Value
                 PROVE  /\ <<f, v, i>> \in entries =>
                              Holds(docs[i], f, v) \/ (q.op \in SweepOp /\ SweepingBy(q, <<f, v, i>>))
                        /\ <<f, v, i>> \in entries /\ indexes[f] = "none" =>
                              q.op = "dropIndex" /\ SweepingBy(q, <<f, v, i>>)
                        /\ q.op = "createIndex" /\ q.at = "backfill" /\ <<f, v, i>> \in q.left
                              => Holds(docs[i], f, v)
      BY DEF JustifiedWith
    <2>1. Writers(i) = {} /\ i \in Id \ (torn \cup drifted)
      BY DEF Writers, Written
    <2>2. /\ <<f, v, i>> \in entries => Justified(f, v, i)
          /\ <<f, v, i>> \in entries /\ indexes[f] = "none" =>
                \E a \in Running({"dropIndex"}) : SweepingBy(request[a], <<f, v, i>>)
          /\ \A a \in Running({"createIndex"}) :
                request[a].at = "backfill" /\ <<f, v, i>> \in request[a].left => Holds(docs[i], f, v)
      BY <2>1 DEF IInv, EntriesJustified
    <2>3. Justified(f, v, i) => Holds(docs[i], f, v) \/ (q.op \in SweepOp /\ SweepingBy(q, <<f, v, i>>))
      BY <2>1, <1>1, <1>2 DEF Justified
    <2> QED BY <2>2, <2>3, <1>1, <1>2
  <1> QED BY <1>3, <1>4, <1>5, <1>6 DEF Alone

(* A step of such an operation, with its next request p. *)
AdminMove(r, p) ==
    /\ request' = [request EXCEPT ![r] = p]
    /\ request[r] # Idle => request[r].op \in AdminOp /\ (p # Idle => p.op = request[r].op)
    /\ exists' \in BOOLEAN /\ raced' \in BOOLEAN /\ indexes' \in [Field -> Kind]
    /\ entries' \subseteq IndexEntry /\ docs' \in [Id -> Doc \cup {Absent}]
    /\ \A i \in Id : docs'[i] # Absent => docs'[i] = docs[i]
    /\ raced => raced'
    /\ ~raced' => \A a \in Running(AdminOp) : a = r
    /\ torn \subseteq torn' /\ torn' \subseteq Id
    /\ drifted \subseteq drifted' /\ drifted' \subseteq Id
    /\ Written \subseteq drifted'
    /\ docs' # docs \/ p.op \in SweepOp => Written \subseteq torn'
    /\ ~exists' => \A i \in Id \ torn' : Writers(i) = {} /\ docs'[i] = Absent
    /\ p # Idle => AdminShape(p)

LEMMA AdminStepKeeps ==
  ASSUME IInv, NEW r \in Request, NEW p \in {Idle} \cup AdminRequest,
         AdminMove(r, p), TakesDocs(p)', ~raced' => Alone(p)'
  PROVE  IInv'
  <1> USE DEF AdminMove
  <1>1. /\ Idle.op = "none" /\ Idle.at = "idle"
        /\ p # Idle => p \in AdminRequest /\ p.op \in AdminOp
        /\ request[r] = Idle \/ request[r].op \in AdminOp
    BY DEF AdminRequest, Idle
  <1>2. \A x \in Request : request'[x] = IF x = r THEN p ELSE request[x]
    BY DEF IInv, RequestTypes
  <1>3. /\ Running(WriteOp)' = Running(WriteOp) /\ Written' = Written
        /\ \A j : Writers(j)' = Writers(j)
        /\ \A w \in Running(WriteOp) : request'[w] = request[w]
        /\ \A j : \A w \in Writers(j) : request'[w] = request[w]
    <2>1. r \notin Running(WriteOp) /\ r \notin Running(WriteOp)'
      BY <1>1, <1>2 DEF Running, WriteOp, AdminOp, SweepOp
    <2>2. Running(WriteOp)' = Running(WriteOp) /\ \A w \in Running(WriteOp) : request'[w] = request[w]
      BY <2>1, <1>2 DEF Running
    <2> QED BY <2>2 DEF Written, Writers
  <1>4. /\ Running(AdminOp)' \subseteq Running(AdminOp) \cup {r}
        /\ r \in Running(AdminOp)' <=> p # Idle
        /\ \A a \in Running(AdminOp) : a # r => a \in Running(AdminOp)' /\ request'[a] = request[a]
        /\ request'[r] = p
    BY <1>1, <1>2 DEF Running, AdminOp, SweepOp
  <1>5. /\ \A a \in Running(SweepOp)' : a # r => a \in Running(SweepOp) /\ request'[a] = request[a]
        /\ r \in Running(SweepOp)' <=> p.op \in SweepOp
        /\ \A a \in Running({"createIndex"})' : a # r => a \in Running({"createIndex"})
        /\ r \in Running({"createIndex"})' <=> p.op = "createIndex"
        /\ r \in Running({"dropIndex"})' <=> p.op = "dropIndex"
        /\ Running(SweepOp) \subseteq Running(AdminOp)
        /\ Running({"createIndex"}) \subseteq Running(AdminOp)
        /\ Running({"dropIndex"}) \subseteq Running(AdminOp)
    BY <1>1, <1>2 DEF Running, AdminOp, SweepOp
  <1>6. ~raced' => ~raced /\ Alone(p)' /\ \A a \in Running(AdminOp)' : a = r
    BY <1>4 DEF IInv, StoreTypes
  <1>7. StoreTypes' /\ RequestTypes'
    BY DEF IInv, StoreTypes, RequestTypes
  <1>8. Shapes'
    BY <1>3, <1>4 DEF IInv, Shapes
  <1>9. OverlapsAreNoted'
    <2>1. \A w \in Running(WriteOp) : request[w].id \in drifted'
      BY DEF Written
    <2>2. p.op \in SweepOp => \A w \in Running(WriteOp) : request[w].id \in torn'
      BY DEF Written
    <2> QED BY <2>1, <2>2, <1>3, <1>5, <1>6 DEF IInv, OverlapsAreNoted
  <1>10. WriterKnowsDoc'
    <2>1. \A w \in Running(WriteOp) : request[w].id \notin torn' => docs' = docs
      BY DEF Written
    <2> QED BY <2>1, <1>3 DEF IInv, WriterKnowsDoc
  <1>11. IndexesAreKnown'
    <2>1. \A w \in Running(WriteOp)' : request'[w].id \in drifted'
      BY <1>3 DEF Written
    <2>2. ~raced' => \A a \in Running(AdminOp)' : request'[a] = p /\ KnowsIndexes(p)'
      BY <1>4, <1>6 DEF Alone
    <2> QED BY <2>1, <2>2 DEF IndexesAreKnown, KnowsIndexes
  <1>12. SweepTakesDocs'
    <2> SUFFICES ASSUME NEW s \in Running(SweepOp)', NEW i \in Id \ torn', docs'[i] # Absent
                 PROVE  \/ request'[s].at = "docs"
                        \/ request'[s].at = "deleteDocs" /\ i \in request'[s].left
      BY DEF SweepTakesDocs
    <2>1. CASE s = r
      BY <2>1, <1>4, <1>5 DEF TakesDocs
    <2>2. CASE s # r
      BY <2>2, <1>5 DEF IInv, SweepTakesDocs
    <2> QED BY <2>1, <2>2
  <1>13. DroppedIsEmpty'
    BY <1>3 DEF DroppedIsEmpty
  <1>14. SweepTakesEntries'
    <2>1. ~raced' => /\ \A s \in Running(SweepOp)' : request'[s] = p /\ p.op \in SweepOp
                     /\ \A a \in Running({"createIndex"})' : request'[a] = p /\ p.op = "createIndex"
      BY <1>4, <1>5
    <2> QED BY <2>1, <1>6 DEF SweepTakesEntries, TakesEntries, Alone
  <1>15. EntriesComplete'
    <2> SUFFICES ASSUME ~raced', NEW i \in Id \ torn', NEW f \in Field,
                        indexes'[f] # "none", docs'[i] # Absent, docs'[i][f] # Missing,
                        \A w \in Writers(i)' : ~DeferredBy(request'[w], f)
                 PROVE  \/ <<f, docs'[i][f], i>> \in entries'
                        \/ \E a \in Running(AdminOp)' : BackfilledBy(request'[a], f, i, docs'[i])
      BY DEF EntriesComplete, DeferredBy, BackfilledBy
    <2>1. <<f, docs'[i][f], i>> \in entries' \/ BackfilledBy(p, f, i, docs'[i])
      BY <1>6 DEF Alone, CompleteWith, DeferredBy, BackfilledBy
    <2>2. BackfilledBy(p, f, i, docs'[i]) => r \in Running(AdminOp)' /\ request'[r] = p
      BY <1>1, <1>4 DEF BackfilledBy
    <2> QED BY <2>1, <2>2
  <1>16. EntriesJustified'
    <2> SUFFICES ASSUME ~raced', NEW i \in Id \ (torn \cup drifted)', NEW f \in Field, NEW v \in Value
                 PROVE  /\ <<f, v, i>> \in entries' => Justified(f, v, i)'
                        /\ <<f, v, i>> \in entries' /\ indexes'[f] = "none" =>
                              \E a \in Running({"dropIndex"})' : SweepingBy(request'[a], <<f, v, i>>)
                        /\ \A a \in Running({"createIndex"})' :
                              request'[a].at = "backfill" /\ <<f, v, i>> \in request'[a].left => Holds(docs'[i], f, v)
      BY DEF EntriesJustified
    <2>1. i \notin Written' /\ Writers(i)' = {}
      BY <1>3 DEF Written, Writers
    <2>2. /\ <<f, v, i>> \in entries' =>
                Holds(docs'[i], f, v) \/ (p.op \in SweepOp /\ SweepingBy(p, <<f, v, i>>))
          /\ <<f, v, i>> \in entries' /\ indexes'[f] = "none" =>
                p.op = "dropIndex" /\ SweepingBy(p, <<f, v, i>>)
          /\ p.op = "createIndex" /\ p.at = "backfill" /\ <<f, v, i>> \in p.left => Holds(docs'[i], f, v)
      BY <2>1, <1>6 DEF Alone, JustifiedWith, Holds
    <2>3. <<f, v, i>> \in entries' => Justified(f, v, i)'
      BY <2>1, <2>2, <1>4, <1>5 DEF Justified
    <2>4. \A a \in Running({"createIndex"})' : request'[a] = p /\ p.op = "createIndex"
      BY <1>4, <1>5
    <2> QED BY <2>2, <2>3, <2>4, <1>4, <1>5
  <1> QED BY <1>7, <1>8, <1>9, <1>10, <1>11, <1>12, <1>13, <1>14, <1>15, <1>16 DEF IInv

(* An administrative operation that runs, and what is in its record. *)
LEMMA AdminFields ==
  ASSUME IInv, NEW r \in Request, NEW q, q = request[r], q.op \in AdminOp
  PROVE  /\ r \in Running(AdminOp) /\ q \in AdminRequest /\ AdminShape(q) /\ q # Idle
         /\ q.op \in AdminOp /\ q.at \in AdminStep /\ q.field \subseteq Field /\ q.kind \in Kind
         /\ q.index \in [Field -> Kind] /\ q.left \in (SUBSET IndexEntry) \cup (SUBSET Id)
         /\ Written \subseteq drifted /\ Written \subseteq Id
         /\ q.op \in SweepOp => Written \subseteq torn
         /\ TakesDocs(q)
         /\ ~raced => Alone(q) /\ \A a \in Running(AdminOp) : a = r
  <1>1. r \in Running(AdminOp) /\ q \in AdminRequest /\ q # Idle
    BY RequestKinds DEF IInv, Running, Idle, AdminOp, SweepOp
  <1>2. AdminShape(q) /\ (~raced => \A a \in Running(AdminOp) : a = r)
    BY <1>1 DEF IInv, Shapes, OverlapsAreNoted
  <1>3. Written \subseteq drifted /\ (q.op \in SweepOp => Written \subseteq torn)
    BY <1>1 DEF IInv, OverlapsAreNoted, Written, Running
  <1>4. Written \subseteq Id
    BY RequestKinds DEF IInv, Written, WriteRequest
  <1>5. TakesDocs(q)
    BY <1>1 DEF IInv, SweepTakesDocs, TakesDocs, Running
  <1>6. ~raced => Alone(q)
    BY <1>2, AloneIfFirst
  <1> QED BY <1>1, <1>2, <1>3, <1>4, <1>5, <1>6 DEF AdminRequest

(* A step that goes on with an operation. *)
LEMMA AdminGoesOn ==
  ASSUME IInv, NEW r \in Request, request[r].op \in AdminOp, NEW p \in {Idle} \cup AdminRequest,
         request' = [request EXCEPT ![r] = p], UNCHANGED <<torn, drifted, raced>>,
         exists' \in BOOLEAN, indexes' \in [Field -> Kind],
         entries' \subseteq IndexEntry, docs' \in [Id -> Doc \cup {Absent}],
         \A i \in Id : docs'[i] # Absent => docs'[i] = docs[i],
         docs' # docs => request[r].op \in SweepOp,
         ~exists' => ~exists \/ \A i \in Id \ torn : Writers(i) = {} /\ docs'[i] = Absent,
         p # Idle => p.op = request[r].op /\ AdminShape(p),
         TakesDocs(p)', ~raced => Alone(p)'
  PROVE  IInv'
  <1>1. /\ Written \subseteq drifted
        /\ request[r].op \in SweepOp => Written \subseteq torn
        /\ ~raced => \A a \in Running(AdminOp) : a = r
    BY AdminFields
  <1>2. p.op \in SweepOp => request[r].op \in SweepOp
    BY DEF Idle, SweepOp
  <1>3. ~exists' => \A i \in Id \ torn : Writers(i) = {} /\ docs'[i] = Absent
    BY DEF IInv, DroppedIsEmpty
  <1>4. AdminMove(r, p)
    BY <1>1, <1>2, <1>3 DEF AdminMove, IInv, StoreTypes
  <1> QED BY <1>4, AdminStepKeeps

LEMMA BeginAdminKeeps ==
  ASSUME IInv, NEW r \in Request, NEW op \in AdminOp, NEW step \in AdminStep,
         NEW f \in SUBSET Field, NEW kind \in Kind, BeginAdmin(r, op, step, f, kind),
         op = "createIndex" => step \in {"validate", "save"} /\ kind # "none",
         op = "dropIndex" => step = "save" /\ kind = "none",
         op \in SweepOp => step = "docs" /\ f = Field /\ exists
  PROVE  IInv'
  <1> SUFFICES ASSUME NEW p, p = [op |-> op, at |-> step, field |-> f, kind |-> kind,
                                  index |-> indexes, left |-> {}]
               PROVE  IInv'
    OBVIOUS
  <1>1. /\ indexes \in [Field -> Kind] /\ docs \in [Id -> Doc \cup {Absent}]
        /\ exists \in BOOLEAN /\ raced \in BOOLEAN /\ entries \subseteq IndexEntry
        /\ torn \subseteq Id /\ drifted \subseteq Id
    BY DEF IInv, StoreTypes
  <1>2. /\ p \in AdminRequest /\ p # Idle /\ AdminShape(p)
        /\ p.op = op /\ p.at = step /\ p.index = indexes /\ p.left = {}
    BY <1>1 DEF AdminRequest, AdminShape, Idle, AdminOp, SweepOp
  <1>3. /\ request[r] = Idle
        /\ request' = [request EXCEPT ![r] = p]
        /\ raced' = (raced \/ Running(AdminOp) # {})
        /\ torn' = IF op \in SweepOp THEN torn \cup Written ELSE torn
        /\ drifted' = drifted \cup Written
        /\ UNCHANGED <<exists, docs, indexes, entries>>
    BY RequestKinds DEF BeginAdmin, data, IInv
  <1>4. Written \subseteq Id
    BY RequestKinds DEF IInv, Written, WriteRequest
  <1>5. AdminMove(r, p)
    BY <1>1, <1>2, <1>3, <1>4 DEF AdminMove, IInv, DroppedIsEmpty
  <1>6. TakesDocs(p)'
    BY <1>2 DEF TakesDocs
  <1>7. ASSUME ~raced' PROVE Alone(p)'
    <2>1. Alone(Idle) /\ Idle.op = "none" /\ Idle.at = "idle"
      <3>1. ~raced /\ \A a \in Running(AdminOp) : a = r
        BY <1>1, <1>3, <1>7
      <3>2. Alone(request[r])
        BY <1>3, <3>1, AloneIfFirst
      <3> QED BY <1>3, <3>2 DEF Idle
    <2>2. \A i : Writers(i)' = Writers(i) /\ \A w \in Writers(i) : request'[w] = request[w]
      <3>1. p.op \notin WriteOp /\ request[r].op \notin WriteOp
        BY <1>2, <1>3 DEF WriteOp, AdminOp, SweepOp, Idle
      <3>2. \A x \in Request : request'[x] = IF x = r THEN p ELSE request[x]
        BY <1>3 DEF IInv, RequestTypes
      <3> QED BY <3>1, <3>2 DEF Writers, Running
    <2>3. KnowsIndexes(p)'
      BY <1>2, <1>3 DEF KnowsIndexes, AdminOp, SweepOp
    <2>4. CompleteWith(p)'
      <3> SUFFICES ASSUME NEW i \in Id \ torn', NEW g \in Field,
                          indexes[g] # "none", docs[i] # Absent, docs[i][g] # Missing,
                          \A w \in Writers(i)' : ~DeferredBy(request'[w], g)
                   PROVE  <<g, docs[i][g], i>> \in entries
        BY <1>3 DEF CompleteWith, DeferredBy, BackfilledBy
      <3>1. i \notin torn /\ \A w \in Writers(i) : ~DeferredBy(request[w], g)
        BY <1>3, <2>2
      <3>2. ~BackfilledBy(Idle, g, i, docs[i])
        BY <2>1 DEF BackfilledBy
      <3> QED BY <2>1, <3>1, <3>2 DEF Alone, CompleteWith
    <2>5. JustifiedWith(p)'
      <3> SUFFICES ASSUME NEW i \in Id \ (torn \cup drifted \cup Written)', NEW g \in Field, NEW v \in Value
                   PROVE  /\ <<g, v, i>> \in entries => Holds(docs[i], g, v) /\ indexes[g] # "none"
                          /\ <<g, v, i>> \notin p.left
        BY <1>3, ZenonT(60) DEF JustifiedWith, Holds, SweepingBy
      <3>1. i \in Id \ (torn \cup drifted \cup Written)
        BY <1>3
      <3> QED BY <2>1, <3>1, <1>2 DEF Alone, JustifiedWith, SweepOp
    <2>6. TakesEntries(p)'
      BY <1>2, <1>3, <2>1 DEF Alone, TakesEntries
    <2> QED BY <2>3, <2>4, <2>5, <2>6 DEF Alone
  <1> QED BY <1>2, <1>5, <1>6, <1>7, AdminStepKeeps

LEMMA AdminBegins ==
  ASSUME IInv, NEW r \in Request,
         \/ \E f \in Field : \/ \E kind \in {"simple", "unique"} : CreateIndex(r, f, kind)
                             \/ DropIndex(r, f)
         \/ ClearCollection(r) \/ DropCollection(r)
  PROVE  IInv'
  <1>1. ASSUME NEW f \in Field, NEW kind \in {"simple", "unique"}, CreateIndex(r, f, kind)
        PROVE  IInv'
    <2>1. "createIndex" \in AdminOp /\ "createIndex" \notin SweepOp
          /\ kind \in Kind /\ kind # "none" /\ {f} \in SUBSET Field
      BY DEF AdminOp, SweepOp, Kind
    <2>2. CASE kind = "unique"
      <3>1. BeginAdmin(r, "createIndex", "validate", {f}, kind)
        BY <1>1, <2>2 DEF CreateIndex
      <3> QED BY <2>1, <3>1, BeginAdminKeeps DEF AdminStep
    <2>3. CASE kind # "unique"
      <3>1. BeginAdmin(r, "createIndex", "save", {f}, kind)
        BY <1>1, <2>3 DEF CreateIndex
      <3> QED BY <2>1, <3>1, BeginAdminKeeps DEF AdminStep
    <2> QED BY <2>2, <2>3
  <1>2. ASSUME NEW f \in Field, DropIndex(r, f) PROVE IInv'
    <2>1. "dropIndex" \in AdminOp /\ "dropIndex" \notin SweepOp /\ "none" \in Kind /\ {f} \in SUBSET Field
      BY DEF AdminOp, SweepOp, Kind
    <2>2. BeginAdmin(r, "dropIndex", "save", {f}, "none")
      BY <1>2 DEF DropIndex
    <2> QED BY <2>1, <2>2, BeginAdminKeeps DEF AdminStep
  <1>3. ASSUME NEW op \in SweepOp, exists /\ BeginAdmin(r, op, "docs", Field, "none") PROVE IInv'
    <2>1. op \in AdminOp /\ op \notin {"createIndex", "dropIndex"} /\ "none" \in Kind
      BY DEF AdminOp, SweepOp, Kind
    <2> QED BY <1>3, <2>1, BeginAdminKeeps DEF AdminStep
  <1> QED BY <1>1, <1>2, <1>3 DEF ClearCollection, DropCollection, SweepOp

(* The writers do not notice such a step. *)
LEMMA WritersGoOn ==
  ASSUME IInv, NEW r \in Request, request[r].op \in AdminOp, NEW p \in {Idle} \cup AdminRequest,
         request' = [request EXCEPT ![r] = p]
  PROVE  /\ \A i : Writers(i)' = Writers(i) /\ \A w \in Writers(i) : request'[w] = request[w]
         /\ Written' = Written
  <1>1. p.op \notin WriteOp /\ request[r].op \notin WriteOp
    BY DEF AdminRequest, WriteOp, AdminOp, SweepOp, Idle
  <1>2. \A x \in Request : request'[x] = IF x = r THEN p ELSE request[x]
    BY DEF IInv, RequestTypes
  <1>3. Running(WriteOp)' = Running(WriteOp) /\ \A w \in Running(WriteOp) : request'[w] = request[w]
    BY <1>1, <1>2 DEF Running
  <1> QED BY <1>3 DEF Writers, Written

(* A step that leaves the store as it is, and has as much to account for.    *)
LEMMA AdminLooks ==
  ASSUME IInv, NEW r \in Request, NEW q, q = request[r], q.op \in AdminOp,
         NEW p \in {Idle} \cup AdminRequest, request' = [request EXCEPT ![r] = p],
         UNCHANGED <<exists, docs, indexes, entries, torn, drifted, raced>>,
         p # Idle => p.op = q.op /\ AdminShape(p),
         TakesDocs(p),
         ~raced => KnowsIndexes(p) /\ CompleteWith(p) /\ JustifiedWith(p) /\ TakesEntries(p)
  PROVE  IInv'
  <1>1. TakesDocs(p)'
    BY DEF TakesDocs
  <1>2. ASSUME ~raced PROVE Alone(p)'
    <2>1. KnowsIndexes(p)'
      BY <1>2 DEF KnowsIndexes
    <2>2. CompleteWith(p)'
      <3>1. \A i : Writers(i)' = Writers(i) /\ \A w \in Writers(i) : request'[w] = request[w]
        BY WritersGoOn
      <3> QED BY <3>1, <1>2 DEF CompleteWith, DeferredBy, BackfilledBy
    <2>3. JustifiedWith(p)'
      <3>1. Written' = Written
        BY WritersGoOn
      <3> SUFFICES ASSUME NEW i \in Id \ (torn \cup drifted \cup Written)', NEW f \in Field, NEW v \in Value
                   PROVE  /\ <<f, v, i>> \in entries' =>
                                Holds(docs'[i], f, v) \/ (p.op \in SweepOp /\ SweepingBy(p, <<f, v, i>>))
                          /\ <<f, v, i>> \in entries' /\ indexes'[f] = "none" =>
                                p.op = "dropIndex" /\ SweepingBy(p, <<f, v, i>>)
                          /\ p.op = "createIndex" /\ p.at = "backfill" /\ <<f, v, i>> \in p.left
                                => Holds(docs'[i], f, v)
        BY DEF JustifiedWith
      <3>2. i \in Id \ (torn \cup drifted \cup Written)
        BY <3>1
      <3> QED BY <3>2, <1>2 DEF JustifiedWith
    <2>4. TakesEntries(p)'
      BY <1>2 DEF TakesEntries
    <2> QED BY <2>1, <2>2, <2>3, <2>4 DEF Alone
  <1> QED BY <1>1, <1>2, AdminGoesOn DEF IInv, StoreTypes

LEMMA ValidateUniqueKeeps ==
  ASSUME IInv, NEW r \in Request, ValidateUnique(r)
  PROVE  IInv'
  <1> SUFFICES ASSUME NEW q, q = request[r], NEW p, p = [q EXCEPT !.at = "save"] PROVE IInv'
    OBVIOUS
  <1>1. q.op = "createIndex" /\ q.at = "validate" /\ q.op \in AdminOp
    BY DEF ValidateUnique, AdminOp
  <1>2. /\ q \in AdminRequest /\ AdminShape(q) /\ TakesDocs(q) /\ (~raced => Alone(q))
    BY <1>1, AdminFields
  <1>3. UNCHANGED <<exists, docs, indexes, entries, torn, drifted, raced>>
    BY DEF ValidateUnique, data, history
  <1>4. CASE Done(r)
    <2>1. /\ request' = [request EXCEPT ![r] = Idle] /\ Idle.op = "none" /\ Idle.at = "idle"
          /\ Idle \in {Idle} \cup AdminRequest
      BY <1>4 DEF Done, Idle
    <2>2. TakesDocs(Idle)
      BY <2>1 DEF TakesDocs, SweepOp
    <2>3. ASSUME ~raced
          PROVE  KnowsIndexes(Idle) /\ CompleteWith(Idle) /\ JustifiedWith(Idle) /\ TakesEntries(Idle)
      BY <2>1, <2>3, <1>1, <1>2 DEF Alone, KnowsIndexes, CompleteWith, BackfilledBy,
         JustifiedWith, TakesEntries, SweepOp
    <2> QED BY <2>1, <2>2, <2>3, <1>1, <1>3, AdminLooks
  <1>5. CASE At(r, "save")
    <2>1. /\ request' = [request EXCEPT ![r] = p]
          /\ p \in AdminRequest /\ p.op = q.op /\ p.at = "save" /\ p.field = q.field
          /\ p.kind = q.kind /\ p.index = q.index /\ p.left = q.left
      BY <1>2, <1>5 DEF At, AdminRequest, AdminStep
    <2>2. AdminShape(p)
      BY <2>1, <1>1, <1>2 DEF AdminShape, SweepOp
    <2>3. TakesDocs(p)
      BY <2>1, <1>1 DEF TakesDocs, SweepOp
    <2>4. ASSUME ~raced
          PROVE  KnowsIndexes(p) /\ CompleteWith(p) /\ JustifiedWith(p) /\ TakesEntries(p)
      BY <2>1, <2>4, <1>1, <1>2 DEF Alone, KnowsIndexes, CompleteWith, BackfilledBy,
         JustifiedWith, TakesEntries, SweepOp
    <2> QED BY <2>1, <2>2, <2>3, <2>4, <1>1, <1>3, AdminLooks
  <1> QED BY <1>4, <1>5 DEF ValidateUnique

LEMMA ScanDocsKeeps ==
  ASSUME IInv, NEW r \in Request, ScanDocs(r)
  PROVE  IInv'
  <1> SUFFICES ASSUME NEW q, q = request[r], NEW left,
                      left = {e \in IndexEntry : /\ e[1] \in q.field
                                                 /\ docs[e[3]] # Absent /\ docs[e[3]][e[1]] = e[2]},
                      NEW p, p = [q EXCEPT !.at = "backfill", !.left = left]
               PROVE  IInv'
    OBVIOUS
  <1>1. q.op = "createIndex" /\ q.at = "scan" /\ q.op \in AdminOp
    BY DEF ScanDocs, AdminOp
  <1>2. q \in AdminRequest /\ AdminShape(q) /\ (~raced => Alone(q))
    BY <1>1, AdminFields
  <1>3. UNCHANGED <<exists, docs, indexes, entries, torn, drifted, raced>>
    BY DEF ScanDocs, data, history
  <1>4. left \subseteq IndexEntry /\ \A e \in left : e[1] \in q.field
    OBVIOUS
  <1>5. \A f \in Field, v \in Value, i \in Id :
           <<f, v, i>> \in left <=> f \in q.field /\ docs[i] # Absent /\ docs[i][f] = v
    BY DEF IndexEntry
  <1>6. /\ request' = [request EXCEPT ![r] = p]
        /\ p \in AdminRequest /\ p.op = q.op /\ p.at = "backfill" /\ p.field = q.field
        /\ p.kind = q.kind /\ p.index = q.index /\ p.left = left
    BY <1>2, <1>4 DEF ScanDocs, AdminRequest, AdminStep
  <1>7. AdminShape(p) /\ TakesDocs(p)
    BY <1>1, <1>2, <1>4, <1>6 DEF AdminShape, TakesDocs, SweepOp
  <1>8. ASSUME ~raced
        PROVE  KnowsIndexes(p) /\ CompleteWith(p) /\ JustifiedWith(p) /\ TakesEntries(p)
    <2>1. KnowsIndexes(p)
      BY <1>1, <1>2, <1>6, <1>8 DEF Alone, KnowsIndexes
    <2>2. CompleteWith(p)
      <3> SUFFICES ASSUME NEW i \in Id \ torn, NEW f \in Field,
                          indexes[f] # "none", docs[i] # Absent, docs[i][f] # Missing,
                          \A w \in Writers(i) : ~DeferredBy(request[w], f),
                          <<f, docs[i][f], i>> \notin entries
                   PROVE  BackfilledBy(p, f, i, docs[i])
        BY DEF CompleteWith
      <3>1. f \in q.field
        BY <1>1, <1>2, <1>8 DEF Alone, CompleteWith, BackfilledBy
      <3>2. docs[i][f] \in Value
        BY DEF IInv, StoreTypes, Doc
      <3> QED BY <3>1, <3>2, <1>1, <1>5, <1>6 DEF BackfilledBy
    <2>3. JustifiedWith(p)
      BY <1>1, <1>2, <1>5, <1>6, <1>8 DEF Alone, JustifiedWith, Holds, SweepOp
    <2>4. TakesEntries(p)
      BY <1>1, <1>2, <1>5, <1>6, <1>8 DEF Alone, TakesEntries, SweepOp, IInv, DroppedIsEmpty
    <2> QED BY <2>1, <2>2, <2>3, <2>4
  <1> QED BY <1>1, <1>3, <1>6, <1>7, <1>8, AdminLooks, ZenonT(60)

LEMMA OpenDocsKeeps ==
  ASSUME IInv, NEW r \in Request, OpenDocs(r)
  PROVE  IInv'
  <1> SUFFICES ASSUME NEW q, q = request[r], NEW left, left = {i \in Id : docs[i] # Absent},
                      NEW p, p = [q EXCEPT !.at = "deleteDocs", !.left = left]
               PROVE  IInv'
    OBVIOUS
  <1>1. q.op \in SweepOp /\ q.at = "docs" /\ q.op \in AdminOp /\ q.op \notin {"createIndex", "dropIndex"}
    BY DEF OpenDocs, AdminOp, SweepOp
  <1>2. q \in AdminRequest /\ AdminShape(q) /\ (~raced => Alone(q))
    BY <1>1, AdminFields
  <1>3. UNCHANGED <<exists, docs, indexes, entries, torn, drifted, raced>>
    BY DEF OpenDocs, data, history
  <1>4. /\ request' = [request EXCEPT ![r] = p]
        /\ p \in AdminRequest /\ p.op = q.op /\ p.at = "deleteDocs" /\ p.field = q.field
        /\ p.kind = q.kind /\ p.index = q.index /\ p.left = left
    BY <1>2 DEF OpenDocs, AdminRequest, AdminStep
  <1>5. AdminShape(p) /\ TakesDocs(p)
    BY <1>1, <1>2, <1>4 DEF AdminShape, TakesDocs
  <1>6. ASSUME ~raced
        PROVE  KnowsIndexes(p) /\ CompleteWith(p) /\ JustifiedWith(p) /\ TakesEntries(p)
    BY <1>1, <1>2, <1>4, <1>6 DEF Alone, KnowsIndexes, CompleteWith, BackfilledBy,
       JustifiedWith, SweepingBy, TakesEntries
  <1> QED BY <1>1, <1>3, <1>4, <1>5, <1>6, AdminLooks

LEMMA OpenEntriesKeeps ==
  ASSUME IInv, NEW r \in Request, OpenEntries(r)
  PROVE  IInv'
  <1> SUFFICES ASSUME NEW q, q = request[r], NEW left, left = {e \in entries : e[1] \in q.field},
                      NEW p, p = [q EXCEPT !.at = "deleteEntries", !.left = left]
               PROVE  IInv'
    OBVIOUS
  <1>1. q.op \in AdminOp /\ q.at = "sweep"
    BY DEF OpenEntries
  <1>2. /\ q \in AdminRequest /\ AdminShape(q) /\ TakesDocs(q) /\ (~raced => Alone(q))
        /\ q.op # "createIndex"
    BY <1>1, AdminFields DEF AdminShape
  <1>3. UNCHANGED <<exists, docs, indexes, entries, torn, drifted, raced>>
    BY DEF OpenEntries, data, history
  <1>4. left \subseteq IndexEntry /\ \A e \in left : e[1] \in q.field
    BY DEF IInv, StoreTypes
  <1>5. \A f \in Field, v \in Value, i \in Id :
           <<f, v, i>> \in left <=> f \in q.field /\ <<f, v, i>> \in entries
    OBVIOUS
  <1>6. /\ request' = [request EXCEPT ![r] = p]
        /\ p \in AdminRequest /\ p.op = q.op /\ p.at = "deleteEntries" /\ p.field = q.field
        /\ p.kind = q.kind /\ p.index = q.index /\ p.left = left
    BY <1>2, <1>4 DEF OpenEntries, AdminRequest, AdminStep
  <1>7. AdminShape(p) /\ TakesDocs(p)
    BY <1>1, <1>2, <1>4, <1>6 DEF AdminShape, TakesDocs
  <1>8. ASSUME ~raced
        PROVE  KnowsIndexes(p) /\ CompleteWith(p) /\ JustifiedWith(p) /\ TakesEntries(p)
    <2>1. KnowsIndexes(p) /\ CompleteWith(p)
      BY <1>1, <1>2, <1>6, <1>8 DEF Alone, KnowsIndexes, CompleteWith, BackfilledBy
    <2>2. JustifiedWith(p)
      BY <1>1, <1>2, <1>5, <1>6, <1>8, ZenonT(60) DEF Alone, JustifiedWith, SweepingBy
    <2>3. TakesEntries(p)
      <3>1. q.op \in SweepOp => q.field = Field
        BY <1>2 DEF AdminShape
      <3>2. \A i \in Id \ torn, f \in Field, v \in Value : ~exists => <<f, v, i>> \notin entries
        BY <1>2, <1>8 DEF Alone, TakesEntries
      <3> QED BY <3>1, <3>2, <1>2, <1>5, <1>6 DEF TakesEntries
    <2> QED BY <2>1, <2>2, <2>3
  <1> QED BY <1>1, <1>3, <1>6, <1>7, <1>8, AdminLooks, ZenonT(60)

(* A step that changes the store: what it has to account for, read of the    *)
(* store that it leaves.                                                     *)
Leaves(p) ==
    /\ KnowsIndexes(p)'
    /\ \A i \in Id \ torn, f \in Field :
          /\ indexes'[f] # "none" /\ docs'[i] # Absent /\ docs'[i][f] # Missing
          /\ \A w \in Writers(i) : ~DeferredBy(request[w], f)
          => <<f, docs'[i][f], i>> \in entries' \/ BackfilledBy(p, f, i, docs'[i])
    /\ \A i \in Id \ (torn \cup drifted \cup Written), f \in Field, v \in Value :
          /\ <<f, v, i>> \in entries' =>
                Holds(docs'[i], f, v) \/ (p.op \in SweepOp /\ SweepingBy(p, <<f, v, i>>))
          /\ <<f, v, i>> \in entries' /\ indexes'[f] = "none" =>
                p.op = "dropIndex" /\ SweepingBy(p, <<f, v, i>>)
          /\ p.op = "createIndex" /\ p.at = "backfill" /\ <<f, v, i>> \in p.left => Holds(docs'[i], f, v)
    /\ TakesEntries(p)'

LEMMA AdminChanges ==
  ASSUME IInv, NEW r \in Request, NEW q, q = request[r], q.op \in AdminOp,
         NEW p \in {Idle} \cup AdminRequest,
         request' = [request EXCEPT ![r] = p], UNCHANGED <<torn, drifted, raced>>,
         exists' \in BOOLEAN, indexes' \in [Field -> Kind],
         entries' \subseteq IndexEntry, docs' \in [Id -> Doc \cup {Absent}],
         \A i \in Id : docs'[i] # Absent => docs'[i] = docs[i],
         docs' # docs => q.op \in SweepOp,
         ~exists' => ~exists \/ \A i \in Id \ torn : Writers(i) = {} /\ docs'[i] = Absent,
         p # Idle => p.op = q.op /\ AdminShape(p),
         TakesDocs(p)',
         ~raced => Leaves(p)
  PROVE  IInv'
  <1>1. ASSUME ~raced PROVE Alone(p)'
    <2>1. CompleteWith(p)'
      <3> SUFFICES ASSUME NEW i \in Id \ torn', NEW f \in Field,
                          indexes'[f] # "none", docs'[i] # Absent, docs'[i][f] # Missing,
                          \A w \in Writers(i)' : ~DeferredBy(request'[w], f)
                   PROVE  <<f, docs'[i][f], i>> \in entries' \/ BackfilledBy(p, f, i, docs'[i])
        BY DEF CompleteWith, DeferredBy, BackfilledBy
      <3>1. \A w \in Writers(i) : ~DeferredBy(request[w], f)
        BY WritersGoOn
      <3> QED BY <3>1, <1>1 DEF Leaves
    <2>2. JustifiedWith(p)'
      <3>1. Written' = Written
        BY WritersGoOn
      <3> SUFFICES ASSUME NEW i \in Id \ (torn \cup drifted \cup Written)', NEW f \in Field, NEW v \in Value
                   PROVE  /\ <<f, v, i>> \in entries' =>
                                Holds(docs'[i], f, v) \/ (p.op \in SweepOp /\ SweepingBy(p, <<f, v, i>>))
                          /\ <<f, v, i>> \in entries' /\ indexes'[f] = "none" =>
                                p.op = "dropIndex" /\ SweepingBy(p, <<f, v, i>>)
                          /\ p.op = "createIndex" /\ p.at = "backfill" /\ <<f, v, i>> \in p.left
                                => Holds(docs'[i], f, v)
        BY DEF JustifiedWith
      <3>2. i \in Id \ (torn \cup drifted \cup Written)
        BY <3>1
      <3> QED BY <3>2, <1>1 DEF Leaves
    <2> QED BY <2>1, <2>2, <1>1 DEF Alone, Leaves
  <1> QED BY <1>1, AdminGoesOn

LEMMA SaveIndexesKeeps ==
  ASSUME IInv, NEW r \in Request, SaveIndexes(r)
  PROVE  IInv'
  <1> SUFFICES ASSUME NEW q, q = request[r],
                      NEW step, step = IF q.op = "createIndex" THEN "scan" ELSE "sweep",
                      NEW p, p = [q EXCEPT !.at = step]
               PROVE  IInv'
    OBVIOUS
  <1>1. q.op \in AdminOp /\ q.at = "save"
    BY DEF SaveIndexes
  <1>2. /\ q \in AdminRequest /\ AdminShape(q) /\ TakesDocs(q) /\ (~raced => Alone(q))
        /\ q.index \in [Field -> Kind] /\ q.kind \in Kind
        /\ q.op \in {"createIndex", "dropIndex"} /\ q.op \notin SweepOp
        /\ q.op = "createIndex" <=> q.kind # "none"
    BY <1>1, AdminFields DEF AdminShape, AdminOp, SweepOp
  <1>3. /\ UNCHANGED <<exists, docs, entries, torn, drifted, raced>>
        /\ indexes' = [f \in Field |-> IF f \in q.field THEN q.kind ELSE q.index[f]]
    BY DEF SaveIndexes, history
  <1>4. /\ request' = [request EXCEPT ![r] = p]
        /\ p \in AdminRequest /\ p.op = q.op /\ p.at = step /\ p.field = q.field
        /\ p.kind = q.kind /\ p.index = q.index /\ p.left = q.left
    BY <1>2 DEF SaveIndexes, At, AdminRequest, AdminStep
  <1>5. indexes' \in [Field -> Kind] /\ \A f \in q.field \cap Field : indexes'[f] = q.kind
    BY <1>2, <1>3
  <1>6. AdminShape(p) /\ TakesDocs(p)'
    BY <1>1, <1>2, <1>4 DEF AdminShape, TakesDocs
  <1>7. ASSUME ~raced PROVE Leaves(p)
    <2>1. \A f \in Field \ q.field : indexes'[f] = indexes[f]
      BY <1>1, <1>2, <1>3, <1>7 DEF Alone, KnowsIndexes
    <2>2. q.field \subseteq Field
      BY <1>1, AdminFields
    <2>3. KnowsIndexes(p)'
      BY <2>2, <1>2, <1>4, <1>5 DEF KnowsIndexes
    <2>4. ASSUME NEW i \in Id \ torn, NEW f \in Field,
                 indexes'[f] # "none", docs'[i] # Absent, docs'[i][f] # Missing,
                 \A w \in Writers(i) : ~DeferredBy(request[w], f)
          PROVE  <<f, docs'[i][f], i>> \in entries' \/ BackfilledBy(p, f, i, docs'[i])
      <3>1. CASE f \in q.field
        BY <3>1, <2>4, <1>2, <1>4, <1>5 DEF BackfilledBy
      <3>2. CASE f \notin q.field
        <4>1. ~BackfilledBy(q, f, i, docs[i])
          BY <1>1 DEF BackfilledBy
        <4> QED BY <3>2, <4>1, <2>1, <2>4, <1>2, <1>3, <1>7 DEF Alone, CompleteWith
      <3> QED BY <3>1, <3>2
    <2>5. ASSUME NEW i \in Id \ (torn \cup drifted \cup Written), NEW f \in Field, NEW v \in Value
          PROVE  /\ <<f, v, i>> \in entries => Holds(docs[i], f, v) /\ indexes[f] # "none"
      BY <1>1, <1>2, <1>7 DEF Alone, JustifiedWith, SweepingBy
    <2>6. ASSUME NEW i \in Id \ (torn \cup drifted \cup Written), NEW f \in Field, NEW v \in Value
          PROVE  /\ <<f, v, i>> \in entries' => Holds(docs'[i], f, v)
                 /\ <<f, v, i>> \in entries' /\ indexes'[f] = "none" =>
                       p.op = "dropIndex" /\ SweepingBy(p, <<f, v, i>>)
                 /\ p.at # "backfill"
      BY <2>1, <2>5, <1>2, <1>3, <1>4, <1>5 DEF SweepingBy, Holds
    <2>7. TakesEntries(p)'
      BY <1>2, <1>3, <1>4, <1>7 DEF Alone, TakesEntries
    <2> QED BY <2>3, <2>4, <2>6, <2>7 DEF Leaves
  <1> QED BY <1>1, <1>2, <1>3, <1>4, <1>5, <1>6, <1>7, AdminChanges DEF IInv, StoreTypes

LEMMA BackfillKeeps ==
  ASSUME IInv, NEW r \in Request, Backfill(r)
  PROVE  IInv'
  <1> SUFFICES ASSUME NEW q, q = request[r] PROVE IInv'
    OBVIOUS
  <1>1. q.op = "createIndex" /\ q.at = "backfill" /\ q.op \in AdminOp /\ q.op \notin SweepOp
    BY DEF Backfill, AdminOp, SweepOp
  <1>2. /\ q \in AdminRequest /\ AdminShape(q) /\ TakesDocs(q) /\ (~raced => Alone(q))
        /\ q.left \subseteq IndexEntry /\ \A e \in q.left : e[1] \in q.field
    BY <1>1, AdminFields DEF AdminShape
  <1>3. UNCHANGED <<exists, docs, indexes, torn, drifted, raced>>
    BY DEF Backfill, history
  <1>4. CASE q.left = {} /\ Done(r) /\ UNCHANGED entries
    <2>1. /\ request' = [request EXCEPT ![r] = Idle] /\ Idle.op = "none" /\ Idle.at = "idle"
          /\ Idle \in {Idle} \cup AdminRequest
      BY <1>4 DEF Done, Idle
    <2>2. TakesDocs(Idle)
      BY <2>1 DEF TakesDocs, SweepOp
    <2>3. ASSUME ~raced
          PROVE  KnowsIndexes(Idle) /\ CompleteWith(Idle) /\ JustifiedWith(Idle) /\ TakesEntries(Idle)
      BY <2>1, <2>3, <1>1, <1>2, <1>4 DEF Alone, KnowsIndexes, CompleteWith, BackfilledBy,
         JustifiedWith, TakesEntries, SweepOp
    <2> QED BY <2>1, <2>2, <2>3, <1>1, <1>3, <1>4, AdminLooks
  <1>5. ASSUME NEW e \in q.left, entries' = entries \cup {e},
               request' = [request EXCEPT ![r].left = @ \ {e}]
        PROVE  IInv'
    <2> SUFFICES ASSUME NEW p, p = [q EXCEPT !.left = q.left \ {e}] PROVE IInv'
      OBVIOUS
    <2>1. /\ request' = [request EXCEPT ![r] = p]
          /\ p \in AdminRequest /\ p.op = q.op /\ p.at = "backfill" /\ p.field = q.field
          /\ p.kind = q.kind /\ p.index = q.index /\ p.left = q.left \ {e}
      BY <1>1, <1>2, <1>5 DEF AdminRequest
    <2>2. AdminShape(p) /\ TakesDocs(p)'
      BY <2>1, <1>1, <1>2 DEF AdminShape, TakesDocs
    <2>3. ASSUME ~raced PROVE Leaves(p)
      <3>1. KnowsIndexes(p)'
        BY <2>1, <2>3, <1>1, <1>2, <1>3 DEF Alone, KnowsIndexes
      <3>2. ASSUME NEW i \in Id \ torn, NEW f \in Field,
                   indexes'[f] # "none", docs'[i] # Absent, docs'[i][f] # Missing,
                   \A w \in Writers(i) : ~DeferredBy(request[w], f)
            PROVE  <<f, docs'[i][f], i>> \in entries' \/ BackfilledBy(p, f, i, docs'[i])
        BY <2>1, <2>3, <3>2, <1>1, <1>2, <1>3, <1>5 DEF Alone, CompleteWith, BackfilledBy
      <3>3. ASSUME NEW i \in Id \ (torn \cup drifted \cup Written), NEW f \in Field, NEW v \in Value
            PROVE  /\ <<f, v, i>> \in entries' => Holds(docs[i], f, v) /\ indexes[f] # "none"
                   /\ <<f, v, i>> \in p.left => Holds(docs[i], f, v)
        <4>1. \A g \in q.field : indexes[g] # "none"
          BY <2>3, <1>1, <1>2 DEF Alone, KnowsIndexes
        <4>2. <<f, v, i>> \in q.left => Holds(docs[i], f, v) /\ indexes[f] # "none"
          BY <4>1, <2>3, <1>1, <1>2 DEF Alone, JustifiedWith
        <4>3. <<f, v, i>> \in entries => Holds(docs[i], f, v) /\ indexes[f] # "none"
          BY <2>3, <1>1, <1>2 DEF Alone, JustifiedWith
        <4> QED BY <4>2, <4>3, <2>1, <1>5
      <3>4. TakesEntries(p)'
        <4>1. \A i \in Id \ torn, f \in Field, v \in Value :
                 ~exists => <<f, v, i>> \notin entries /\ <<f, v, i>> \notin q.left
          BY <2>3, <1>1, <1>2 DEF Alone, TakesEntries
        <4>2. \A i \in Id \ torn, f \in Field, v \in Value :
                 ~exists' => <<f, v, i>> \notin entries' /\ <<f, v, i>> \notin p.left
          BY <4>1, <2>1, <1>3, <1>5
        <4> QED BY <4>2, <2>1, <1>1, <1>3 DEF TakesEntries
      <3> QED BY <3>1, <3>2, <3>3, <3>4, <1>3, ZenonT(60) DEF Leaves, Holds
    <2>4. entries' \subseteq IndexEntry
      BY <1>2, <1>5 DEF IInv, StoreTypes
    <2> QED BY <2>1, <2>2, <2>3, <2>4, <1>1, <1>3, AdminChanges DEF IInv, StoreTypes
  <1> QED BY <1>4, <1>5 DEF Backfill

LEMMA DeleteDocsKeeps ==
  ASSUME IInv, NEW r \in Request, DeleteDocs(r)
  PROVE  IInv'
  <1> SUFFICES ASSUME NEW q, q = request[r] PROVE IInv'
    OBVIOUS
  <1>1. q.op \in SweepOp /\ q.at = "deleteDocs" /\ q.op \in AdminOp /\ q.op \notin {"createIndex", "dropIndex"}
    BY DEF DeleteDocs, AdminOp, SweepOp
  <1>2. /\ q \in AdminRequest /\ AdminShape(q) /\ TakesDocs(q) /\ (~raced => Alone(q))
        /\ q.left \subseteq Id /\ q.field = Field
    BY <1>1, AdminFields DEF AdminShape
  <1>3. UNCHANGED <<exists, indexes, entries, torn, drifted, raced>>
    BY DEF DeleteDocs, history
  <1>4. ASSUME ~raced, NEW i \in Id \ (torn \cup drifted \cup Written), NEW f \in Field, NEW v \in Value,
               <<f, v, i>> \in entries
        PROVE  indexes[f] # "none"
    BY <1>1, <1>2, <1>4 DEF Alone, JustifiedWith
  <1>5. docs \in [Id -> Doc \cup {Absent}]
    BY DEF IInv, StoreTypes
  <1>6. CASE q.left = {} /\ At(r, "sweep") /\ UNCHANGED docs
    <2> SUFFICES ASSUME NEW p, p = [q EXCEPT !.at = "sweep"] PROVE IInv'
      OBVIOUS
    <2>1. /\ request' = [request EXCEPT ![r] = p]
          /\ p \in AdminRequest /\ p.op = q.op /\ p.at = "sweep" /\ p.field = Field
          /\ p.kind = q.kind /\ p.index = q.index /\ p.left = {}
      BY <1>2, <1>6 DEF At, AdminRequest, AdminStep
    <2>2. AdminShape(p) /\ TakesDocs(p)
      BY <2>1, <1>1, <1>2, <1>6 DEF AdminShape, TakesDocs
    <2>3. ASSUME ~raced
          PROVE  KnowsIndexes(p) /\ CompleteWith(p) /\ JustifiedWith(p) /\ TakesEntries(p)
      <3>1. KnowsIndexes(p) /\ CompleteWith(p)
        BY <2>1, <2>3, <1>1, <1>2 DEF Alone, KnowsIndexes, CompleteWith, BackfilledBy
      <3>2. JustifiedWith(p)
        BY <2>1, <2>3, <1>1, <1>4 DEF JustifiedWith, SweepingBy
      <3>3. TakesEntries(p)
        BY <2>1, <2>3, <1>1, <1>2 DEF Alone, TakesEntries
      <3> QED BY <3>1, <3>2, <3>3
    <2> QED BY <2>1, <2>2, <2>3, <1>1, <1>3, <1>6, AdminLooks
  <1>7. ASSUME NEW j \in q.left, docs' = [docs EXCEPT ![j] = Absent],
               request' = [request EXCEPT ![r].left = @ \ {j}]
        PROVE  IInv'
    <2> SUFFICES ASSUME NEW p, p = [q EXCEPT !.left = q.left \ {j}] PROVE IInv'
      OBVIOUS
    <2>1. /\ request' = [request EXCEPT ![r] = p]
          /\ p \in AdminRequest /\ p.op = q.op /\ p.at = "deleteDocs" /\ p.field = q.field
          /\ p.kind = q.kind /\ p.index = q.index /\ p.left = q.left \ {j}
      BY <1>1, <1>2, <1>7 DEF AdminRequest
    <2>2. /\ docs' \in [Id -> Doc \cup {Absent}]
          /\ \A i \in Id : docs'[i] = IF i = j THEN Absent ELSE docs[i]
      BY <1>2, <1>5, <1>7
    <2>3. AdminShape(p) /\ TakesDocs(p)'
      BY <2>1, <2>2, <1>1, <1>2, <1>3 DEF AdminShape, TakesDocs
    <2>4. ASSUME ~raced PROVE Leaves(p)
      <3>1. KnowsIndexes(p)'
        BY <2>1, <1>1 DEF KnowsIndexes
      <3>2. ASSUME NEW i \in Id \ torn, NEW f \in Field,
                   indexes'[f] # "none", docs'[i] # Absent, docs'[i][f] # Missing,
                   \A w \in Writers(i) : ~DeferredBy(request[w], f)
            PROVE  <<f, docs'[i][f], i>> \in entries'
        BY <2>2, <2>4, <3>2, <1>1, <1>2, <1>3 DEF Alone, CompleteWith, BackfilledBy
      <3>3. ASSUME NEW i \in Id \ (torn \cup drifted \cup Written), NEW f \in Field, NEW v \in Value
            PROVE  /\ <<f, v, i>> \in entries' => p.op \in SweepOp /\ SweepingBy(p, <<f, v, i>>)
                   /\ <<f, v, i>> \in entries' => indexes'[f] # "none"
                   /\ p.at # "backfill"
        BY <2>1, <2>4, <1>1, <1>3, <1>4 DEF SweepingBy
      <3>4. TakesEntries(p)'
        BY <2>1, <2>4, <1>1, <1>2, <1>3 DEF Alone, TakesEntries
      <3> QED BY <3>1, <3>2, <3>3, <3>4 DEF Leaves
    <2>5. ~exists' => ~exists
      BY <1>3
    <2>6. exists' \in BOOLEAN /\ indexes' \in [Field -> Kind] /\ entries' \subseteq IndexEntry
      BY <1>3 DEF IInv, StoreTypes
    <2> QED BY <2>1, <2>2, <2>3, <2>4, <2>5, <2>6, <1>1, <1>3, AdminChanges
  <1> QED BY <1>6, <1>7 DEF DeleteDocs

LEMMA DeleteEntriesKeeps ==
  ASSUME IInv, NEW r \in Request, DeleteEntries(r)
  PROVE  IInv'
  <1> SUFFICES ASSUME NEW q, q = request[r] PROVE IInv'
    OBVIOUS
  <1>1. q.op \in AdminOp /\ q.at = "deleteEntries"
    BY DEF DeleteEntries
  <1>2. /\ q \in AdminRequest /\ AdminShape(q) /\ TakesDocs(q) /\ (~raced => Alone(q))
        /\ q.left \subseteq IndexEntry /\ (\A e \in q.left : e[1] \in q.field) /\ q.op # "createIndex"
        /\ q.field \subseteq Field
    BY <1>1, AdminFields DEF AdminShape
  <1>3. UNCHANGED <<exists, docs, indexes, torn, drifted, raced>>
    BY DEF DeleteEntries, history
  (* The documents of a sweep are gone, the index of another operation is. *)
  <1>4. q.op \in SweepOp => \A i \in Id \ torn : docs[i] = Absent
    BY <1>1, <1>2 DEF TakesDocs
  <1>5. ~raced /\ q.op \notin SweepOp => q.op = "dropIndex" /\ \A f \in q.field : indexes[f] = "none"
    BY <1>1, <1>2 DEF Alone, KnowsIndexes, AdminOp
  <1>6. ASSUME q.left = {}, NEW p \in {Idle} \cup AdminRequest, request' = [request EXCEPT ![r] = p],
               UNCHANGED entries, p # Idle => p.op = q.op /\ AdminShape(p) /\ q.op = "drop",
               p.at \in {"idle", "indexes"}
        PROVE  IInv'
    <2>1. TakesDocs(p)
      BY <1>4, <1>6 DEF TakesDocs, Idle, SweepOp
    <2>2. ASSUME ~raced
          PROVE  KnowsIndexes(p) /\ CompleteWith(p) /\ JustifiedWith(p) /\ TakesEntries(p)
      <3>1. p.op \notin {"createIndex", "dropIndex"}
        BY <1>6 DEF Idle
      <3>2. KnowsIndexes(p)
        BY <3>1, <1>6 DEF KnowsIndexes
      <3>3. CompleteWith(p)
        BY <2>2, <1>2 DEF Alone, CompleteWith, BackfilledBy
      <3>4. JustifiedWith(p)
        BY <3>1, <2>2, <1>1, <1>2, <1>6, ZenonT(60) DEF Alone, JustifiedWith, SweepingBy
      <3>5. TakesEntries(p)
        <4>1. \A i \in Id \ torn, f \in Field, v \in Value :
                 /\ q.op \in SweepOp => <<f, v, i>> \notin entries
                 /\ ~exists => <<f, v, i>> \notin entries
          BY <2>2, <1>1, <1>2, <1>6 DEF Alone, TakesEntries
        <4>2. p.op \in SweepOp => q.op \in SweepOp
          BY <1>6 DEF Idle, SweepOp
        <4> QED BY <3>1, <4>1, <4>2 DEF TakesEntries
      <3> QED BY <3>2, <3>3, <3>4, <3>5
    <2> QED BY <2>1, <2>2, <1>1, <1>3, <1>6, AdminLooks
  <1>7. CASE q.left = {} /\ UNCHANGED entries /\ q.op # "drop" /\ Done(r)
    <2>1. request' = [request EXCEPT ![r] = Idle] /\ Idle.at = "idle"
      BY <1>7 DEF Done, Idle
    <2> QED BY <2>1, <1>6, <1>7
  <1>8. CASE q.left = {} /\ UNCHANGED entries /\ q.op = "drop" /\ At(r, "indexes")
    <2> SUFFICES ASSUME NEW p, p = [q EXCEPT !.at = "indexes"] PROVE IInv'
      OBVIOUS
    <2>1. /\ request' = [request EXCEPT ![r] = p]
          /\ p \in AdminRequest /\ p.op = q.op /\ p.at = "indexes" /\ p.field = q.field
          /\ p.kind = q.kind /\ p.index = q.index /\ p.left = q.left
      BY <1>2, <1>8 DEF At, AdminRequest, AdminStep
    <2>2. AdminShape(p)
      BY <2>1, <1>1, <1>2, <1>8 DEF AdminShape, SweepOp
    <2> QED BY <2>1, <2>2, <1>6, <1>8
  <1>9. ASSUME NEW e \in q.left, entries' = entries \ {e},
               request' = [request EXCEPT ![r].left = @ \ {e}]
        PROVE  IInv'
    <2> SUFFICES ASSUME NEW p, p = [q EXCEPT !.left = q.left \ {e}] PROVE IInv'
      OBVIOUS
    <2>1. /\ request' = [request EXCEPT ![r] = p]
          /\ p \in AdminRequest /\ p.op = q.op /\ p.at = "deleteEntries" /\ p.field = q.field
          /\ p.kind = q.kind /\ p.index = q.index /\ p.left = q.left \ {e}
      BY <1>1, <1>2, <1>9 DEF AdminRequest
    <2>2. AdminShape(p) /\ TakesDocs(p)'
      BY <2>1, <1>1, <1>2, <1>3 DEF AdminShape, TakesDocs
    <2>3. ASSUME ~raced PROVE Leaves(p)
      <3>1. KnowsIndexes(p)'
        BY <2>1, <2>3, <1>1, <1>2, <1>3 DEF Alone, KnowsIndexes
      <3>2. ASSUME NEW i \in Id \ torn, NEW f \in Field,
                   indexes'[f] # "none", docs'[i] # Absent, docs'[i][f] # Missing,
                   \A w \in Writers(i) : ~DeferredBy(request[w], f)
            PROVE  <<f, docs'[i][f], i>> \in entries'
        <4>1. <<f, docs[i][f], i>> \in entries
          BY <2>3, <3>2, <1>2, <1>3 DEF Alone, CompleteWith, BackfilledBy
        <4>2. q.op = "dropIndex" /\ f \notin q.field
          BY <2>3, <3>2, <1>3, <1>4, <1>5
        <4>3. e # <<f, docs[i][f], i>>
          BY <4>2, <1>2
        <4> QED BY <4>1, <4>3, <1>3, <1>9
      <3>3. ASSUME NEW i \in Id \ (torn \cup drifted \cup Written), NEW f \in Field, NEW v \in Value,
                   <<f, v, i>> \in entries'
            PROVE  /\ Holds(docs[i], f, v) \/ (p.op \in SweepOp /\ SweepingBy(p, <<f, v, i>>))
                   /\ indexes[f] = "none" => p.op = "dropIndex" /\ SweepingBy(p, <<f, v, i>>)
        <4>1. <<f, v, i>> \in entries /\ <<f, v, i>> # e
          BY <3>3, <1>9
        <4>2. /\ Holds(docs[i], f, v) \/ (q.op \in SweepOp /\ SweepingBy(q, <<f, v, i>>))
              /\ indexes[f] = "none" => q.op = "dropIndex" /\ SweepingBy(q, <<f, v, i>>)
          BY <4>1, <2>3, <1>2 DEF Alone, JustifiedWith
        <4>3. SweepingBy(q, <<f, v, i>>) => SweepingBy(p, <<f, v, i>>)
          BY <4>1, <2>1, <1>1 DEF SweepingBy
        <4> QED BY <4>2, <4>3, <2>1
      <3>4. TakesEntries(p)'
        <4>1. ASSUME NEW i \in Id \ torn, NEW f \in Field, NEW v \in Value, <<f, v, i>> \in entries'
              PROVE  exists /\ (q.op \in SweepOp => <<f, v, i>> \in p.left)
          BY <4>1, <2>1, <2>3, <1>1, <1>2, <1>9 DEF Alone, TakesEntries
        <4> QED BY <4>1, <2>1, <1>2, <1>3 DEF TakesEntries
      <3> QED BY <3>1, <3>2, <3>3, <3>4, <2>1, <1>3 DEF Leaves, Holds
    <2>4. /\ exists' \in BOOLEAN /\ indexes' \in [Field -> Kind] /\ entries' \subseteq IndexEntry
          /\ docs' \in [Id -> Doc \cup {Absent}] /\ docs' = docs /\ (~exists' => ~exists)
      BY <1>3, <1>9 DEF IInv, StoreTypes
    <2> QED BY <2>1, <2>2, <2>3, <2>4, <1>1, <1>3, AdminChanges
  <1> QED BY <1>7, <1>8, <1>9 DEF DeleteEntries

LEMMA DropIndexesKeeps ==
  ASSUME IInv, NEW r \in Request, DropIndexes(r)
  PROVE  IInv'
  <1> SUFFICES ASSUME NEW q, q = request[r], NEW p, p = [q EXCEPT !.at = "collection"] PROVE IInv'
    OBVIOUS
  <1>1. q.op = "drop" /\ q.at = "indexes" /\ q.op \in AdminOp /\ q.op \in SweepOp
    BY DEF DropIndexes, AdminOp, SweepOp
  <1>2. q \in AdminRequest /\ AdminShape(q) /\ TakesDocs(q) /\ (~raced => Alone(q))
    BY <1>1, AdminFields
  <1>3. /\ UNCHANGED <<exists, docs, entries, torn, drifted, raced>>
        /\ indexes' = [f \in Field |-> "none"]
    BY DEF DropIndexes, history
  <1>4. /\ request' = [request EXCEPT ![r] = p]
        /\ p \in AdminRequest /\ p.op = q.op /\ p.at = "collection" /\ p.field = q.field
        /\ p.kind = q.kind /\ p.index = q.index /\ p.left = q.left
    BY <1>2 DEF DropIndexes, At, AdminRequest, AdminStep
  <1>5. AdminShape(p) /\ TakesDocs(p)'
    BY <1>1, <1>2, <1>3, <1>4 DEF AdminShape, TakesDocs, SweepOp
  <1>6. ASSUME ~raced PROVE Leaves(p)
    <2>1. \A i \in Id \ torn, f \in Field, v \in Value : <<f, v, i>> \notin entries
      BY <1>1, <1>2, <1>6 DEF Alone, TakesEntries
    <2>2. TakesEntries(p)'
      BY <2>1, <1>1, <1>3, <1>4 DEF TakesEntries
    <2>3. KnowsIndexes(p)'
      BY <1>1, <1>4 DEF KnowsIndexes
    <2> QED BY <2>1, <2>2, <2>3, <1>1, <1>3, <1>4 DEF Leaves
  <1>7. /\ exists' \in BOOLEAN /\ indexes' \in [Field -> Kind] /\ entries' \subseteq IndexEntry
        /\ docs' \in [Id -> Doc \cup {Absent}] /\ docs' = docs /\ (~exists' => ~exists)
    BY <1>3 DEF IInv, StoreTypes, Kind
  <1> QED BY <1>1, <1>3, <1>4, <1>5, <1>6, <1>7, AdminChanges

LEMMA RemoveCollectionKeeps ==
  ASSUME IInv, NEW r \in Request, RemoveCollection(r)
  PROVE  IInv'
  <1> SUFFICES ASSUME NEW q, q = request[r] PROVE IInv'
    OBVIOUS
  <1>1. q.op = "drop" /\ q.at = "collection" /\ q.op \in AdminOp /\ q.op \in SweepOp
    BY DEF RemoveCollection, AdminOp, SweepOp
  <1>2. /\ q \in AdminRequest /\ AdminShape(q) /\ TakesDocs(q) /\ (~raced => Alone(q))
        /\ Written \subseteq torn
    BY <1>1, AdminFields
  <1>3. /\ UNCHANGED <<docs, indexes, entries, torn, drifted, raced>> /\ exists' = FALSE
        /\ request' = [request EXCEPT ![r] = Idle] /\ Idle.op = "none" /\ Idle.at = "idle"
        /\ Idle \in {Idle} \cup AdminRequest
    BY DEF RemoveCollection, history, Done, Idle
  <1>4. \A i \in Id \ torn : Writers(i) = {} /\ docs'[i] = Absent
    BY <1>1, <1>2, <1>3 DEF TakesDocs, Writers, Written
  <1>5. TakesDocs(Idle)'
    BY <1>3 DEF TakesDocs, SweepOp
  <1>6. ASSUME ~raced PROVE Leaves(Idle)
    <2>1. \A i \in Id \ torn, f \in Field, v \in Value : <<f, v, i>> \notin entries
      BY <1>1, <1>2, <1>6 DEF Alone, TakesEntries
    <2>2. TakesEntries(Idle)'
      BY <2>1, <1>3 DEF TakesEntries, SweepOp
    <2>3. KnowsIndexes(Idle)'
      BY <1>3 DEF KnowsIndexes
    <2> QED BY <2>1, <2>2, <2>3, <1>3, <1>4 DEF Leaves
  <1>7. /\ exists' \in BOOLEAN /\ indexes' \in [Field -> Kind] /\ entries' \subseteq IndexEntry
        /\ docs' \in [Id -> Doc \cup {Absent}] /\ docs' = docs
    BY <1>3 DEF IInv, StoreTypes
  <1> QED BY <1>1, <1>3, <1>4, <1>5, <1>6, <1>7, AdminChanges

(* Whatever else changes, the request table does not. *)
LEMMA CreateCollectionKeeps ==
  ASSUME IInv, CreateCollection \/ UNCHANGED vars
  PROVE  IInv'
  <1>1. /\ UNCHANGED <<docs, indexes, entries, request, torn, drifted, raced>>
        /\ exists' = TRUE \/ exists' = exists
    BY DEF CreateCollection, history, vars
  <1>2. \A S : Running(S)' = Running(S)
    BY <1>1 DEF Running
  <1>3. \A i : Writers(i)' = Writers(i)
    BY <1>1, <1>2 DEF Writers
  <1>4. StoreTypes' /\ RequestTypes' /\ Shapes'
    BY <1>1, <1>2 DEF IInv, StoreTypes, RequestTypes, Shapes
  <1>5. OverlapsAreNoted' /\ WriterKnowsDoc' /\ IndexesAreKnown' /\ SweepTakesDocs'
    BY <1>1, <1>2 DEF IInv, OverlapsAreNoted, WriterKnowsDoc, IndexesAreKnown, SweepTakesDocs
  <1>6. SweepTakesEntries' /\ DroppedIsEmpty'
    BY <1>1, <1>2, <1>3 DEF IInv, SweepTakesEntries, DroppedIsEmpty
  <1>7. EntriesComplete'
    BY <1>1, <1>2, <1>3 DEF IInv, EntriesComplete, DeferredBy, BackfilledBy
  <1>8. EntriesJustified'
    <2>1. ASSUME NEW f, NEW v, NEW i PROVE Justified(f, v, i)' <=> Justified(f, v, i)
      BY <1>1, <1>2, <1>3 DEF Justified, SweepingBy, AsWritten, Holds
    <2> SUFFICES ASSUME ~raced', NEW i \in Id \ (torn \cup drifted)', NEW f \in Field, NEW v \in Value
                 PROVE  /\ <<f, v, i>> \in entries' => Justified(f, v, i)'
                        /\ <<f, v, i>> \in entries' /\ indexes'[f] = "none" =>
                              \E a \in Running({"dropIndex"})' : SweepingBy(request'[a], <<f, v, i>>)
                        /\ \A a \in Running({"createIndex"})' :
                              request'[a].at = "backfill" /\ <<f, v, i>> \in request'[a].left => Holds(docs'[i], f, v)
      BY DEF EntriesJustified
    <2> QED BY <2>1, <1>1, <1>2 DEF IInv, EntriesJustified
  <1> QED BY <1>4, <1>5, <1>6, <1>7, <1>8 DEF IInv

-----------------------------------------------------------------------------
LEMMA InitInv == Init => IInv
  <1> SUFFICES ASSUME Init PROVE IInv
    OBVIOUS
  <1>1. \A S : "none" \notin S => Running(S) = {}
    BY DEF Init, Idle, Running
  <1>2. /\ Running(WriteOp) = {} /\ Running(AdminOp) = {} /\ Running(SweepOp) = {}
        /\ Running({"createIndex"}) = {} /\ Running({"dropIndex"}) = {}
        /\ \A i : Writers(i) = {}
    BY <1>1 DEF WriteOp, AdminOp, SweepOp, Writers
  <1>3. StoreTypes /\ RequestTypes
    BY DEF Init, StoreTypes, RequestTypes, Kind
  <1>4. /\ Shapes /\ OverlapsAreNoted /\ WriterKnowsDoc /\ IndexesAreKnown /\ SweepTakesDocs
    BY <1>2 DEF Shapes, OverlapsAreNoted, WriterKnowsDoc, IndexesAreKnown, SweepTakesDocs
  <1>5. SweepTakesEntries /\ DroppedIsEmpty
    BY <1>2 DEF Init, SweepTakesEntries, DroppedIsEmpty
  <1>6. EntriesComplete /\ EntriesJustified
    BY <1>2 DEF Init, EntriesComplete, EntriesJustified, Holds
  <1> QED BY <1>3, <1>4, <1>5, <1>6 DEF IInv

LEMMA NextInv == IInv /\ [Next]_vars => IInv'
  <1> SUFFICES ASSUME IInv, [Next]_vars PROVE IInv'
    OBVIOUS
  <1>1. CASE CreateCollection \/ UNCHANGED vars
    BY <1>1, CreateCollectionKeeps
  <1>2. ASSUME NEW r \in Request, NEW i \in Id, Insert(r, i) \/ Update(r, i) \/ Delete(r, i)
        PROVE  IInv'
    BY <1>2, WriteBegins
  <1>3. ASSUME NEW r \in Request,
               \/ StoreDoc(r) \/ ReadIndexes(r) \/ RemoveOldEntry(r)
               \/ CheckUnique(r) \/ AddNewEntry(r) \/ EndWrite(r)
        PROVE  IInv'
    BY <1>3, StoreDocKeeps, ReadIndexesKeeps, RemoveOldEntryKeeps, CheckUniqueKeeps,
       AddNewEntryKeeps, EndWriteKeeps
  <1>4. ASSUME NEW r \in Request,
               \/ \E f \in Field : \/ \E kind \in {"simple", "unique"} : CreateIndex(r, f, kind)
                                   \/ DropIndex(r, f)
               \/ ClearCollection(r) \/ DropCollection(r)
        PROVE  IInv'
    BY <1>4, AdminBegins
  <1>5. ASSUME NEW r \in Request,
               \/ ValidateUnique(r) \/ SaveIndexes(r) \/ ScanDocs(r) \/ Backfill(r)
               \/ OpenDocs(r) \/ DeleteDocs(r) \/ OpenEntries(r) \/ DeleteEntries(r)
               \/ DropIndexes(r) \/ RemoveCollection(r)
        PROVE  IInv'
    BY <1>5, ValidateUniqueKeeps, SaveIndexesKeeps, ScanDocsKeeps, BackfillKeeps, OpenDocsKeeps,
       DeleteDocsKeeps, OpenEntriesKeeps, DeleteEntriesKeeps, DropIndexesKeeps, RemoveCollectionKeeps
  <1> QED BY <1>1, <1>2, <1>3, <1>4, <1>5 DEF Next

THEOREM InductiveInvariant == Spec => []IInv
  BY InitInv, NextInv, PTL DEF Spec

(* The variables keep their types, with every goroutine that serves a request at *)
(* a step of its operation.                                                      *)
THEOREM TypeCorrect == Spec => []TypeOK
  <1>1. IInv => TypeOK
    <2> SUFFICES ASSUME IInv, NEW r \in Request
                 PROVE  \/ request[r] = Idle
                        \/ request[r] \in [op : WriteOp, at : {"store", "list", "maintain", "check", "add"},
                              id : Id, old : Doc, new : Doc, index : [Field -> Kind],
                              todo : SUBSET Field, field : SUBSET Field]
                        \/ /\ request[r].op \in AdminOp
                           /\ request[r].index \in [Field -> Kind] /\ request[r].field \subseteq Field
                           /\ IF request[r].at = "deleteDocs" THEN request[r].left \subseteq Id
                                                               ELSE request[r].left \subseteq IndexEntry
      BY DEF IInv, StoreTypes, TypeOK
    <2>1. CASE request[r] \in WriteRequest
      BY <2>1 DEF WriteRequest, WriteStep
    <2>2. CASE request[r] \in AdminRequest
      <3>1. request[r].op \in AdminOp
        BY <2>2 DEF AdminRequest
      <3> QED BY <3>1, AdminFields DEF AdminShape
    <2> QED BY <2>1, <2>2 DEF IInv, RequestTypes
  <1> QED BY <1>1, InductiveInvariant, PTL

(* An indexed query finds every document that matches and is not being       *)
(* written: what the write did not index the backfill did.                   *)
THEOREM FindsMatches == Spec => []QueryFindsMatches
  <1>1. IInv => QueryFindsMatches
    <2> SUFFICES ASSUME IInv, Settled, NEW filter \in Filter, NEW f \in Indexed(filter), NEW i \in Id,
                        AtRest(i), docs[i] # Absent, Matches(docs[i], filter)
                 PROVE  i \in IndexScan(filter, f)
      BY DEF QueryFindsMatches
    <2>1. PICK S \in (SUBSET Field) \ {{}} : filter \in [S -> Value]
      BY DEF Filter
    <2>2. /\ S = DOMAIN filter /\ f \in DOMAIN filter /\ f \in Field /\ filter[f] \in Value /\ indexes[f] # "none"
          /\ \A g \in DOMAIN filter : docs[i][g] = filter[g]
      BY <2>1 DEF Indexed, Matches
    <2>3. docs[i][f] = filter[f] /\ docs[i][f] # Missing
      BY <2>1, <2>2, MissingAssumption
    <2>4. Writers(i) = {} /\ Running(AdminOp) = {} /\ ~raced /\ i \in Id \ torn
      BY DEF Settled, AtRest
    <2>5. <<f, filter[f], i>> \in entries
      BY <2>2, <2>3, <2>4 DEF IInv, EntriesComplete
    <2> QED BY <2>2, <2>5 DEF IndexScan, Holders, Indexed
  <1> QED BY <1>1, InductiveInvariant, PTL

(* When all conditions are indexed the query finds nothing else: no index    *)
(* keeps a former value of a document that was written alone.                *)
THEOREM FindsOnlyMatches == Spec => []QueryFindsOnlyMatches
  <1>1. IInv => QueryFindsOnlyMatches
    <2> SUFFICES ASSUME IInv, Settled, NEW filter \in Filter, NEW f \in Indexed(filter), NEW i \in Id,
                        AtRest(i), i \notin drifted, DOMAIN filter = Indexed(filter),
                        i \in IndexScan(filter, f)
                 PROVE  Matches(docs[i], filter)
      BY DEF QueryFindsOnlyMatches
    <2>1. PICK S \in (SUBSET Field) \ {{}} : filter \in [S -> Value]
      BY DEF Filter
    <2>2. f \in Field /\ filter[f] \in Value /\ <<f, filter[f], i>> \in entries
      BY <2>1 DEF Indexed, IndexScan, Holders
    <2>3. /\ Writers(i) = {} /\ Running(AdminOp) = {} /\ ~raced /\ i \in Id \ (torn \cup drifted)
          /\ Running(SweepOp) = {}
      BY DEF Settled, AtRest, Running, AdminOp
    <2>4. Justified(f, filter[f], i)
      BY <2>2, <2>3 DEF IInv, EntriesJustified
    <2>5. docs[i][f] = filter[f]
      BY <2>3, <2>4 DEF Justified, Holds
    <2> QED BY <2>5 DEF IndexScan, Matches
  <1> QED BY <1>1, InductiveInvariant, PTL

(* A dropped collection leaves no document and no entry of one that was not  *)
(* written while it was dropped.                                             *)
THEOREM DropLeaves == Spec => []DropLeavesNothing
  <1>1. IInv => DropLeavesNothing
    BY DEF IInv, DroppedIsEmpty, SweepTakesEntries, DropLeavesNothing, Settled, AtRest
  <1> QED BY <1>1, InductiveInvariant, PTL
=============================================================================
