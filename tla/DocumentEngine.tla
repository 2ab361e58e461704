---------------------------- MODULE DocumentEngine ----------------------------
(***************************************************************************)
(* The document engine of one project, for one collection: documents,      *)
(* secondary indexes, and the requests that change them.                   *)
(*                                                                         *)
(* src/internal/db/engine.go   Insert, Update, Delete, the collection      *)
(*                             operations, QueryPaged                      *)
(* src/internal/db/index.go    CreateIndex, DropIndex, index maintenance   *)
(*                                                                         *)
(* The engine takes no lock.  Each operation is a sequence of reads and    *)
(* writes of Pebble keys, and two requests interleave between any two of   *)
(* them; an iterator sees the keys that were there when it was opened.     *)
(***************************************************************************)
EXTENDS Naturals, FiniteSets
LOCAL INSTANCE TLC

CONSTANTS
    Id,         \* document ids, in the order of their keys
    Field,      \* the fields that may be indexed
    Value,      \* what such a field can hold
    Missing,    \* the content of a field that a document does not have
    Absent,     \* a document that does not exist
    Request,    \* goroutines that serve requests
    MaxOps      \* bound: operations that are started

ASSUME IdAssumption == Id \subseteq Nat
ASSUME MissingAssumption == Missing \notin Value
ASSUME MaxOpsAssumption == MaxOps \in Nat

Doc == [Field -> Value \cup {Missing}]
ASSUME AbsentAssumption == Absent \notin Doc

Kind == {"none", "simple", "unique"}
IndexEntry == Field \X Value \X Id

VARIABLES
    exists,     \* the collection's metadata record
    docs,       \* the collection's documents
    indexes,    \* the index metadata record: the kind of index on each field
    entries,    \* the index entries <<field, value, id>>
    request,    \* per goroutine: its operation and how far it has come
    torn,       \* history: ids whose write overlapped another one, or was refused
    drifted,    \* history: ids written during an index operation, or inserted over
    raced,      \* history: whether two administrative operations overlapped
    ops         \* operations started so far

data == <<exists, docs, indexes, entries>>
history == <<torn, drifted, raced, ops>>
vars == <<exists, docs, indexes, entries, request, torn, drifted, raced, ops>>

WriteOp == {"insert", "update", "delete"}
SweepOp == {"clear", "drop"}
AdminOp == SweepOp \cup {"createIndex", "dropIndex"}

Idle == [op |-> "none", at |-> "idle"]
Blank == [f \in Field |-> Missing]

Running(S) == {r \in Request : request[r].op \in S}
Writers(i) == {r \in Running(WriteOp) : request[r].id = i}
Written == {request[r].id : r \in Running(WriteOp)}

(* The request of r goes on at another step, possibly with other fields set. *)
At(r, step) == request' = [request EXCEPT ![r].at = step]
Done(r) == request' = [request EXCEPT ![r] = Idle]

Init == /\ exists = TRUE
        /\ docs = [i \in Id |-> Absent]
        /\ indexes = [f \in Field |-> "none"]
        /\ entries = {}
        /\ request = [r \in Request |-> Idle]
        /\ torn = {} /\ drifted = {} /\ raced = FALSE
        /\ ops = 0

-----------------------------------------------------------------------------
(* Insert, Update and Delete.                                                *)

(* A write starts with its first read: what it finds under the id is old,    *)
(* what it will leave is new.                                                *)
BeginWrite(r, i, op, step, old, new) ==
    /\ request[r].op = "none"
    /\ ops < MaxOps
    /\ ops' = ops + 1
    /\ request' = [request EXCEPT ![r] =
          [op |-> op, at |-> step, id |-> i, old |-> old, new |-> new,
           index |-> [f \in Field |-> "none"], todo |-> {}, field |-> {}]]
    /\ torn' = IF Writers(i) # {} \/ Running(SweepOp) # {} THEN torn \cup {i} ELSE torn
    /\ drifted' = IF Running(AdminOp) # {} THEN drifted \cup {i} ELSE drifted
    /\ UNCHANGED <<data, raced>>

(* Insert checks the collection, not whether the document is there. *)
Insert(r, i) ==
    /\ exists
    /\ \E new \in Doc : BeginWrite(r, i, "insert", "store", Blank, new)

Update(r, i) ==
    /\ docs[i] # Absent
    /\ \E new \in Doc : BeginWrite(r, i, "update", "store", docs[i], new)

Delete(r, i) ==
    /\ docs[i] # Absent
    /\ BeginWrite(r, i, "delete", "list", docs[i], Blank)

(* e.db.Set(key, data), before any index is looked at. *)
StoreDoc(r) ==
    /\ request[r].op \in {"insert", "update"} /\ request[r].at = "store"
    /\ LET i == request[r].id IN
          /\ docs' = [docs EXCEPT ![i] = request[r].new]
          /\ drifted' = IF request[r].op = "insert" /\ docs[i] # Absent
                        THEN drifted \cup {i} ELSE drifted
    /\ At(r, "list")
    /\ UNCHANGED <<exists, indexes, entries, torn, raced, ops>>

(* Mutants of Changed: fields that lost their value, or had one, are left.   *)
ChangedToValue(index, old, new) ==
    {f \in Field : index[f] # "none" /\ old[f] # new[f] /\ new[f] # Missing}
ChangedFromMissing(index, old, new) ==
    {f \in Field : index[f] # "none" /\ old[f] # new[f] /\ old[f] = Missing}

(* The indexes whose entries a write has to change. *)
Changed(index, old, new) == {f \in Field : index[f] # "none" /\ old[f] # new[f]}

(* ListIndexes, at the head of insert-, update- and deleteIndexEntries. *)
ReadIndexes(r) ==
    /\ request[r].op \in WriteOp /\ request[r].at = "list"
    /\ request' = [request EXCEPT ![r].at = "maintain", ![r].index = indexes,
                      ![r].todo = Changed(indexes, request[r].old, request[r].new)]
    /\ UNCHANGED <<data, history>>

(* Mutant of RemoveOldEntry: a field that the new document lacks is added.   *)
RemoveOldEntryAlways(r) ==
    /\ request[r].op \in WriteOp /\ request[r].at = "maintain"
    /\ \E f \in request[r].todo :
          LET q == request[r] IN
          /\ entries' = entries \ {<<f, q.old[f], q.id>>}
          /\ request' = [request EXCEPT ![r].todo = @ \ {f}, ![r].field = {f},
                ![r].at = IF q.index[f] = "unique" THEN "check" ELSE "add"]
    /\ UNCHANGED <<exists, docs, indexes, history>>

(* The next index: the old value's entry goes first. *)
RemoveOldEntry(r) ==
    /\ request[r].op \in WriteOp /\ request[r].at = "maintain"
    /\ \E f \in request[r].todo :
          LET q == request[r] IN
          /\ entries' = entries \ {<<f, q.old[f], q.id>>}
          /\ request' = [request EXCEPT ![r].todo = @ \ {f}, ![r].field = {f},
                ![r].at = IF q.new[f] = Missing THEN "maintain"
                          ELSE IF q.index[f] = "unique" THEN "check" ELSE "add"]
    /\ UNCHANGED <<exists, docs, indexes, history>>

(* scanIndexValue looks at the first entry of the value only. *)
Holders(f, v) == {i \in Id : <<f, v, i>> \in entries}
Refused(f, v, i) ==
    \E j \in Holders(f, v) : j # i /\ \A k \in Holders(f, v) : j <= k

(* A value that another document holds: the caller gets an error.  The       *)
(* document stays as stored, without this entry and those still to do.       *)
CheckUnique(r) ==
    /\ request[r].op \in WriteOp /\ request[r].at = "check"
    /\ \E f \in request[r].field :
          \/ /\ ~Refused(f, request[r].new[f], request[r].id)
             /\ At(r, "add")
             /\ UNCHANGED torn
          \/ /\ Refused(f, request[r].new[f], request[r].id)
             /\ Done(r)
             /\ torn' = torn \cup {request[r].id}
    /\ UNCHANGED <<data, drifted, raced, ops>>

AddNewEntry(r) ==
    /\ request[r].op \in WriteOp /\ request[r].at = "add"
    /\ \E f \in request[r].field :
          entries' = entries \cup {<<f, request[r].new[f], request[r].id>>}
    /\ At(r, "maintain")
    /\ UNCHANGED <<exists, docs, indexes, history>>

(* The indexes are done.  Only now Delete removes the document. *)
EndWrite(r) ==
    /\ request[r].op \in WriteOp /\ request[r].at = "maintain"
    /\ request[r].todo = {}
    /\ docs' = IF request[r].op = "delete" THEN [docs EXCEPT ![request[r].id] = Absent] ELSE docs
    /\ Done(r)
    /\ UNCHANGED <<exists, indexes, entries, history>>

-----------------------------------------------------------------------------
(* Operations on indexes and on the collection.                              *)

BeginAdmin(r, op, step, f, kind) ==
    /\ request[r].op = "none"
    /\ ops < MaxOps
    /\ ops' = ops + 1
    /\ request' = [request EXCEPT ![r] =
          [op |-> op, at |-> step, field |-> f, kind |-> kind, index |-> indexes, left |-> {}]]
    /\ raced' = (raced \/ Running(AdminOp) # {})
    /\ torn' = IF op \in SweepOp THEN torn \cup Written ELSE torn
    /\ drifted' = drifted \cup Written
    /\ UNCHANGED data

(* CreateIndex does not ask whether the collection exists. *)
CreateIndex(r, f, kind) ==
    /\ indexes[f] = "none"
    /\ BeginAdmin(r, "createIndex", IF kind = "unique" THEN "validate" ELSE "save", {f}, kind)

(* A unique index needs distinct values in the documents of this moment. *)
Distinct(f) ==
    \A i, j \in Id : docs[i] # Absent /\ docs[j] # Absent /\ docs[i][f] = docs[j][f]
                        => i = j \/ docs[i][f] = Missing

ValidateUnique(r) ==
    /\ request[r].op = "createIndex" /\ request[r].at = "validate"
    /\ IF \A f \in request[r].field : Distinct(f) THEN At(r, "save") ELSE Done(r)
    /\ UNCHANGED <<data, history>>

DropIndex(r, f) ==
    /\ indexes[f] # "none"
    /\ BeginAdmin(r, "dropIndex", "save", {f}, "none")

(* saveIndexMeta writes the whole list back, as it was read. *)
SaveIndexes(r) ==
    /\ request[r].op \in AdminOp /\ request[r].at = "save"
    /\ indexes' = [f \in Field |-> IF f \in request[r].field THEN request[r].kind
                                   ELSE request[r].index[f]]
    /\ At(r, IF request[r].op = "createIndex" THEN "scan" ELSE "sweep")
    /\ UNCHANGED <<exists, docs, entries, history>>

(* The backfill's scan, after the index is in place. *)
ScanDocs(r) ==
    /\ request[r].op = "createIndex" /\ request[r].at = "scan"
    /\ request' = [request EXCEPT ![r].at = "backfill", ![r].left =
          {e \in IndexEntry : /\ e[1] \in request[r].field
                              /\ docs[e[3]] # Absent /\ docs[e[3]][e[1]] = e[2]}]
    /\ UNCHANGED <<data, history>>

Backfill(r) ==
    /\ request[r].op = "createIndex" /\ request[r].at = "backfill"
    /\ \/ \E e \in request[r].left :
             /\ entries' = entries \cup {e}
             /\ request' = [request EXCEPT ![r].left = @ \ {e}]
       \/ request[r].left = {} /\ Done(r) /\ UNCHANGED entries
    /\ UNCHANGED <<exists, docs, indexes, history>>

CreateCollection ==
    /\ ~exists
    /\ exists' = TRUE
    /\ UNCHANGED <<docs, indexes, entries, request, history>>

ClearCollection(r) == exists /\ BeginAdmin(r, "clear", "docs", Field, "none")
DropCollection(r) == exists /\ BeginAdmin(r, "drop", "docs", Field, "none")

(* deleteByPrefix: an iterator, and one delete per key that it sees. *)
OpenDocs(r) ==
    /\ request[r].op \in SweepOp /\ request[r].at = "docs"
    /\ request' = [request EXCEPT ![r].at = "deleteDocs",
                                  ![r].left = {i \in Id : docs[i] # Absent}]
    /\ UNCHANGED <<data, history>>

DeleteDocs(r) ==
    /\ request[r].op \in SweepOp /\ request[r].at = "deleteDocs"
    /\ \/ \E i \in request[r].left :
             /\ docs' = [docs EXCEPT ![i] = Absent]
             /\ request' = [request EXCEPT ![r].left = @ \ {i}]
       \/ request[r].left = {} /\ At(r, "sweep") /\ UNCHANGED docs
    /\ UNCHANGED <<exists, indexes, entries, history>>

(* Mutant of OpenEntries: nothing to delete is found. *)
OpenNoEntries(r) ==
    /\ request[r].op \in AdminOp /\ request[r].at = "sweep"
    /\ request' = [request EXCEPT ![r].at = "deleteEntries", ![r].left = {}]
    /\ UNCHANGED <<data, history>>

OpenEntries(r) ==
    /\ request[r].op \in AdminOp /\ request[r].at = "sweep"
    /\ request' = [request EXCEPT ![r].at = "deleteEntries",
                                  ![r].left = {e \in entries : e[1] \in request[r].field}]
    /\ UNCHANGED <<data, history>>

DeleteEntries(r) ==
    /\ request[r].op \in AdminOp /\ request[r].at = "deleteEntries"
    /\ \/ \E e \in request[r].left :
             /\ entries' = entries \ {e}
             /\ request' = [request EXCEPT ![r].left = @ \ {e}]
       \/ /\ request[r].left = {}
          /\ IF request[r].op = "drop" THEN At(r, "indexes") ELSE Done(r)
          /\ UNCHANGED entries
    /\ UNCHANGED <<exists, docs, indexes, history>>

(* DropCollection's last two deletes: the index metadata, the collection. *)
DropIndexes(r) ==
    /\ request[r].op = "drop" /\ request[r].at = "indexes"
    /\ indexes' = [f \in Field |-> "none"]
    /\ At(r, "collection")
    /\ UNCHANGED <<exists, docs, entries, history>>

RemoveCollection(r) ==
    /\ request[r].op = "drop" /\ request[r].at = "collection"
    /\ exists' = FALSE
    /\ Done(r)
    /\ UNCHANGED <<docs, indexes, entries, history>>

Next == \/ CreateCollection
        \/ \E r \in Request :
              \/ \E i \in Id : Insert(r, i) \/ Update(r, i) \/ Delete(r, i)
              \/ StoreDoc(r) \/ ReadIndexes(r) \/ RemoveOldEntry(r)
              \/ CheckUnique(r) \/ AddNewEntry(r) \/ EndWrite(r)
              \/ \E f \in Field : \/ \E kind \in {"simple", "unique"} : CreateIndex(r, f, kind)
                                  \/ DropIndex(r, f)
              \/ ValidateUnique(r) \/ SaveIndexes(r) \/ ScanDocs(r) \/ Backfill(r)
              \/ ClearCollection(r) \/ DropCollection(r)
              \/ OpenDocs(r) \/ DeleteDocs(r) \/ OpenEntries(r) \/ DeleteEntries(r)
              \/ DropIndexes(r) \/ RemoveCollection(r)

Spec == Init /\ [][Next]_vars

-----------------------------------------------------------------------------
(* QueryPaged without its pagination.                                        *)

Filter == UNION {[S -> Value] : S \in (SUBSET Field) \ {{}}}
Matches(doc, filter) == \A f \in DOMAIN filter : doc[f] = filter[f]
Indexed(filter) == {f \in DOMAIN filter : indexes[f] # "none"}

(* scanDocsByIndex walks the entries of one indexed condition, skips absent  *)
(* documents and tests the other indexed conditions; not the one it walks,   *)
(* and not those without an index.                                           *)
IndexScan(filter, f) ==
    {i \in Holders(f, filter[f]) :
        docs[i] # Absent /\ \A g \in Indexed(filter) \ {f} : docs[i][g] = filter[g]}

-----------------------------------------------------------------------------
(* The types of the variables. *)
TypeOK == /\ exists \in BOOLEAN
          /\ docs \in [Id -> Doc \cup {Absent}]
          /\ indexes \in [Field -> Kind]
          /\ entries \subseteq IndexEntry
          /\ \A r \in Request :
                \/ request[r] = Idle
                \/ request[r] \in [op : WriteOp, at : {"store", "list", "maintain", "check", "add"},
                                   id : Id, old : Doc, new : Doc, index : [Field -> Kind],
                                   todo : SUBSET Field, field : SUBSET Field]
                \/ /\ request[r].op \in AdminOp
                   /\ request[r].index \in [Field -> Kind] /\ request[r].field \subseteq Field
                   /\ IF request[r].at = "deleteDocs" THEN request[r].left \subseteq Id
                                                       ELSE request[r].left \subseteq IndexEntry
          /\ torn \subseteq Id /\ drifted \subseteq Id
          /\ raced \in BOOLEAN

(* No administrative operation runs, and no two ever overlapped. *)
Settled == ~raced /\ Running(AdminOp) = {}
AtRest(i) == i \in Id \ torn /\ Writers(i) = {}

(* An indexed query finds every document that matches, although an index may *)
(* be created, dropped or recreated while documents are written: the entry   *)
(* comes from the writer or from the backfill (index.go:139-162 against      *)
(* engine.go:268-275).                                                       *)
QueryFindsMatches ==
    Settled => \A filter \in Filter : \A f \in Indexed(filter), i \in Id :
        AtRest(i) /\ docs[i] # Absent /\ Matches(docs[i], filter) => i \in IndexScan(filter, f)

(* It finds nothing else when all conditions are indexed: an index keeps no  *)
(* entry of a former value, except of documents that were inserted over or   *)
(* written during an operation on indexes (index.go:324-373).                *)
QueryFindsOnlyMatches ==
    Settled => \A filter \in Filter : \A f \in Indexed(filter), i \in Id :
        /\ AtRest(i) /\ i \notin drifted /\ DOMAIN filter = Indexed(filter)
        /\ i \in IndexScan(filter, f)
        => Matches(docs[i], filter)

(* A dropped collection leaves no document and no index entry behind, except *)
(* of documents written while it was dropped (engine.go:204-238).            *)
DropLeavesNothing ==
    Settled /\ ~exists => \A i \in Id : AtRest(i) =>
        docs[i] = Absent /\ \A f \in Field, v \in Value : <<f, v, i>> \notin entries

(* Requests and values are interchangeable in TLC's runs. *)
Symmetry == Permutations(Request) \cup Permutations(Value)
=============================================================================
