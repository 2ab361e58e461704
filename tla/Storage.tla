------------------------------- MODULE Storage -------------------------------
(* The files of one bucket of a project.  The local driver keeps a file and,   *)
(* next to it, a metadata file that lists and downloads go by; its operations  *)
(* take no lock, so that requests come between any two of their accesses to    *)
(* the disk.  The S3 driver stores an object in one step and keeps a cache of  *)
(* the buckets it knows to exist.  Uploads of the project API are held to a    *)
(* quota, which is compared with a counter of the meter.                       *)
EXTENDS Integers, FiniteSets

CONSTANTS Paths, FileReqs,
          Sizes,      \* sizes of uploads
          Quota,      \* storage quota of the project
          MaxMetered  \* bound: bytes counted

VARIABLES
  driver,     \* the project's storage driver, "local" or "s3"
  bucketMade, \* the bucket exists
  known,      \* the S3 driver's cache says that it does
  file,       \* data files: their size
  meta,       \* metadata files: the size they state
  requests,   \* what is left to do of a request
  counted,    \* the meter's storage counter
  disturbed,  \* history: paths at which requests overlapped or were cut short
  loopholes   \* history: why the counter may not cover what is stored

storageVars == <<driver, bucketMade, known, file, meta, requests, counted, disturbed, loopholes>>

Absent == -1
NoRequest == [pc |-> "done", path |-> "none", size |-> 0, api |-> FALSE, linked |-> FALSE]
Steps == {"done", "bucket", "create", "copy", "save", "meter", "put", "remove", "removeMeta", "open"}

StorageInit ==
  /\ driver \in {"local", "s3"}
  /\ bucketMade = FALSE /\ known = FALSE
  /\ file = [p \in Paths |-> Absent] /\ meta = file
  /\ requests = [r \in FileReqs |-> NoRequest]
  /\ counted = 0 /\ disturbed = {} /\ loopholes = {}

------------------------------------------------------------------------------
\* The sum of a function: its pairs of an argument and a number up to its value.
Pairs(f) == UNION {{x} \X (1..f[x]) : x \in DOMAIN f}
Sum(f) == Cardinality(Pairs(f))
Larger(a, b) == IF a < b THEN b ELSE a

Busy(r, p) == requests[r].pc # "done" /\ requests[r].path = p
Disturb(r, p) ==
  disturbed' = IF \E q \in FileReqs \ {r} : Busy(q, p) THEN disturbed \cup {p} ELSE disturbed

\* Requests once the file of a path is removed: an upload that has it open
\* writes on, into a file without a name.
Unlinked(p) == [q \in FileReqs |-> IF requests[q].path = p THEN [requests[q] EXCEPT !.linked = FALSE]
                                   ELSE requests[q]]
Goto(r, pc) == requests' = [requests EXCEPT ![r].pc = pc]
Done(r, reqs) == requests' = [reqs EXCEPT ![r] = NoRequest]

Start(r, p, pc, size, api) ==
  /\ requests[r].pc = "done"
  /\ requests' = [requests EXCEPT ![r] = [pc |-> pc, path |-> p, size |-> size, api |-> api, linked |-> FALSE]]
  /\ Disturb(r, p)

\* Uploads.  The quota is compared with the counter before the file is read.
Upload(r, p, size, api) ==
  Start(r, p, IF driver = "local" THEN "create" ELSE "bucket", size, api)

\* Mutant of Admitted: the new file is not counted.
AdmittedByUsage(size) == counted <= Quota

Admitted(size) == counted + size <= Quota

Pending == Sum([r \in FileReqs |-> IF requests[r].api THEN requests[r].size ELSE 0])

handleUpload(r, p, size) ==
  /\ Admitted(size) /\ counted + Pending + size <= MaxMetered
  /\ Upload(r, p, size, TRUE)
  /\ loopholes' = IF \E q \in FileReqs : requests[q].api THEN loopholes \cup {"overlap"} ELSE loopholes
  /\ UNCHANGED <<driver, bucketMade, known, file, meta, counted>>

\* An upload of the console meets no quota and is not counted.
handleUploadFile(r, p, size) ==
  /\ Upload(r, p, size, FALSE)
  /\ loopholes' = loopholes \cup {"console"}
  /\ UNCHANGED <<driver, bucketMade, known, file, meta, counted>>

\* The directory is made, the file created or cut to nothing.
CreateFile(r) ==
  LET p == requests[r].path IN
  /\ requests[r].pc = "create"
  /\ bucketMade' = TRUE
  /\ file' = [file EXCEPT ![p] = 0]
  /\ requests' = [requests EXCEPT ![r].pc = "copy", ![r].linked = TRUE]
  /\ UNCHANGED <<driver, known, meta, counted, disturbed, loopholes>>

CopyFile(r) ==
  LET p == requests[r].path IN
  /\ requests[r].pc = "copy"
  /\ file' = IF requests[r].linked THEN [file EXCEPT ![p] = Larger(@, requests[r].size)] ELSE file
  /\ Goto(r, "save")
  /\ UNCHANGED <<driver, bucketMade, known, meta, counted, disturbed, loopholes>>

\* Mutant of CopyFails: the metadata stay.
CopyFailsKeepsMetadata(r) ==
  LET p == requests[r].path IN
  /\ requests[r].pc = "copy"
  /\ file' = [file EXCEPT ![p] = Absent]
  /\ Done(r, Unlinked(p))
  /\ UNCHANGED <<driver, bucketMade, known, meta, counted, disturbed, loopholes>>

\* The client goes away or the disk is full: whatever lies under the path goes,
\* a former version too.
CopyFails(r) ==
  LET p == requests[r].path IN
  /\ requests[r].pc = "copy"
  /\ file' = [file EXCEPT ![p] = Absent] /\ meta' = [meta EXCEPT ![p] = Absent]
  /\ Done(r, Unlinked(p))
  /\ UNCHANGED <<driver, bucketMade, known, counted, disturbed, loopholes>>

SaveMetadata(r) ==
  LET p == requests[r].path IN
  /\ requests[r].pc = "save"
  /\ meta' = [meta EXCEPT ![p] = requests[r].size]
  /\ Goto(r, "meter")
  /\ UNCHANGED <<driver, bucketMade, known, file, counted, disturbed, loopholes>>

\* The S3 driver looks the bucket up, or makes it, unless the cache knows it.
EnsureBucket(r) ==
  /\ requests[r].pc = "bucket"
  /\ bucketMade' = (bucketMade \/ ~known) /\ known' = TRUE
  /\ Goto(r, "put")
  /\ UNCHANGED <<driver, file, meta, counted, disturbed, loopholes>>

PutObject(r) ==
  LET p == requests[r].path
      size == [file EXCEPT ![p] = requests[r].size] IN
  /\ requests[r].pc = "put"
  /\ IF bucketMade THEN file' = size /\ meta' = size /\ Goto(r, "meter")
                   ELSE Done(r, requests) /\ UNCHANGED <<file, meta>>
  /\ UNCHANGED <<driver, bucketMade, known, counted, disturbed, loopholes>>

\* The end of an upload, counted when it came by the project API.
MeterUpload(r) ==
  /\ requests[r].pc = "meter"
  /\ counted' = IF requests[r].api THEN counted + requests[r].size ELSE counted
  /\ Done(r, requests)
  /\ UNCHANGED <<driver, bucketMade, known, file, meta, disturbed, loopholes>>

------------------------------------------------------------------------------
\* Deletions of the API and of the console; neither counts the meter down.
handleStorageDelete(r, p) ==
  /\ IF driver = "local"
     THEN Start(r, p, "remove", 0, FALSE) /\ UNCHANGED <<file, meta>>
     ELSE /\ file' = [file EXCEPT ![p] = Absent] /\ meta' = [meta EXCEPT ![p] = Absent]
          /\ requests[r].pc = "done" /\ Disturb(r, p) /\ UNCHANGED requests
  /\ UNCHANGED <<driver, bucketMade, known, counted, loopholes>>

handleDeleteFile(r, p) == handleStorageDelete(r, p)

RemoveFile(r) ==
  LET p == requests[r].path IN
  /\ requests[r].pc = "remove"
  /\ file' = [file EXCEPT ![p] = Absent]
  /\ requests' = [Unlinked(p) EXCEPT ![r].pc = "removeMeta"]
  /\ UNCHANGED <<driver, bucketMade, known, meta, counted, disturbed, loopholes>>

RemoveMetadata(r) ==
  /\ requests[r].pc = "removeMeta"
  /\ meta' = [meta EXCEPT ![requests[r].path] = Absent]
  /\ Done(r, requests)
  /\ UNCHANGED <<driver, bucketMade, known, file, counted, disturbed, loopholes>>

\* The local driver removes the directory and all in it; the object store
\* removes only an empty bucket, and the cache goes on knowing it.
handleDeleteBucket ==
  /\ bucketMade /\ bucketMade' = FALSE
  /\ driver = "s3" => \A p \in Paths : file[p] = Absent
  /\ file' = [p \in Paths |-> Absent] /\ meta' = file'
  /\ requests' = [r \in FileReqs |-> [requests[r] EXCEPT !.linked = FALSE]]
  /\ disturbed' = disturbed \cup {p \in Paths : \E r \in FileReqs : Busy(r, p)}
  /\ UNCHANGED <<driver, known, counted, loopholes>>

handleCreateBucket ==
  /\ ~bucketMade /\ bucketMade' = TRUE
  /\ UNCHANGED <<driver, known, file, meta, requests, counted, disturbed, loopholes>>

------------------------------------------------------------------------------
\* Downloads: the metadata first (stat), then the file (get).
Listed == {p \in Paths : meta[p] # Absent}

Download(r, p) == p \in Listed /\ Start(r, p, "open", meta[p], FALSE)

handleDownload(r, p) ==
  Download(r, p) /\ UNCHANGED <<driver, bucketMade, known, file, meta, counted, loopholes>>

\* A signed URL that has not expired stands in for the project key.
handleSignedDownload(r, p) == handleDownload(r, p)

OpenFile(r) ==
  /\ requests[r].pc = "open"
  /\ Done(r, requests)
  /\ UNCHANGED <<driver, bucketMade, known, file, meta, counted, disturbed, loopholes>>

\* A crash leaves what is on disk, and takes from the counter what the meter
\* has not flushed.
CrashStorage ==
  /\ \E r \in FileReqs : requests[r].pc # "done"
  /\ requests' = [r \in FileReqs |-> NoRequest]
  /\ disturbed' = disturbed \cup {p \in Paths : \E r \in FileReqs : Busy(r, p)}
  /\ loopholes' = loopholes \cup {"crash"} /\ known' = FALSE
  /\ \E n \in 0..counted : counted' = n
  /\ UNCHANGED <<driver, bucketMade, file, meta>>

StorageNext ==
  \/ \E r \in FileReqs, p \in Paths :
       \/ \E size \in Sizes : handleUpload(r, p, size) \/ handleUploadFile(r, p, size)
       \/ handleDeleteFile(r, p) \/ handleSignedDownload(r, p)
  \/ \E r \in FileReqs :
       \/ CreateFile(r) \/ CopyFile(r) \/ CopyFails(r) \/ SaveMetadata(r)
       \/ EnsureBucket(r) \/ PutObject(r) \/ MeterUpload(r)
       \/ RemoveFile(r) \/ RemoveMetadata(r) \/ OpenFile(r)
  \/ handleCreateBucket \/ handleDeleteBucket \/ CrashStorage

StorageSpec == StorageInit /\ [][StorageNext]_storageVars

------------------------------------------------------------------------------
StorageTypeOK ==
  /\ driver \in {"local", "s3"} /\ {bucketMade, known} \subseteq BOOLEAN
  /\ {file, meta} \subseteq [Paths -> Sizes \cup {Absent, 0}]
  /\ disturbed \subseteq Paths
  /\ requests \in [FileReqs -> [pc : Steps, path : Paths \cup {"none"}, size : Sizes \cup {0},
                                api : BOOLEAN, linked : BOOLEAN]]
  /\ counted \in 0..MaxMetered
  /\ loopholes \subseteq {"overlap", "console", "crash"}

\* Where requests for a path do not overlap and none is cut short, every listed
\* file is there with the size its metadata state, and so is a file a download
\* is about to open: through failed uploads over a former version, deletions,
\* and the deletion of the whole bucket.
ListedFilesAreWhole ==
  \A p \in Paths \ disturbed :
    /\ (\A r \in FileReqs : ~Busy(r, p)) /\ p \in Listed => file[p] = meta[p]
    /\ \A r \in FileReqs : Busy(r, p) /\ requests[r].pc = "open" => file[p] = requests[r].size

\* What the project stores stays within its quota, unless uploads overlapped,
\* came from the console, or a crash took counts from the meter.
QuotaHolds ==
  loopholes = {} => Sum([p \in Paths |-> Larger(file[p], 0)]) <= Quota
==============================================================================
