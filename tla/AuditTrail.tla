------------------------------ MODULE AuditTrail ------------------------------
(* The audit trail of the dashboard.  An entry is four records, written one    *)
(* after the other: the entry itself and its place under the administrator,    *)
(* the action and the target.  Clearing reads the entries there are and        *)
(* deletes them and their places in one batch.  Requests run at the same time, *)
(* a write may fail, and the process may stop between two.                     *)
EXTENDS Naturals, FiniteSets, Sequences

CONSTANTS AuditReqs,   \* requests of administrators
          MaxStops     \* bound: crashes

VARIABLES
  onDisk,    \* the records of each entry that are in the database
  needs,     \* the records of an entry: one of a request that names no target has three
  writing,   \* what is still to write of an entry
  outcome,   \* what Log returned
  requests,  \* requests: what they are doing, and the entries a clearing has read
  lastClear, \* history: the request whose clearing was the last, "nobody" before
  overtaken, \* history: entries that were deleted while they were being written
  stops      \* crashes so far

auditVars == <<onDisk, needs, writing, outcome, requests, lastClear, overtaken, stops>>

Records == {"entry", "admin", "action", "target"}
Targeted == <<"entry", "admin", "action", "target">>
Untargeted == <<"entry", "admin", "action">>

\* A request leaves up to two entries: its handler's, and the logger's around it.
Entries == AuditReqs \X {"handler", "logger"}
Idle == [pc |-> "idle", read |-> {}]

AuditInit ==
  /\ onDisk = [e \in Entries |-> {}] /\ needs = [e \in Entries |-> Records]
  /\ writing = [e \in Entries |-> <<>>] /\ outcome = [e \in Entries |-> "none"]
  /\ requests = [r \in AuditReqs |-> Idle]
  /\ lastClear = "nobody" /\ overtaken = {} /\ stops = 0

------------------------------------------------------------------------------
\* AuditStore.Log, a write at a time.
BeginLog(e, records) ==
  /\ needs' = [needs EXCEPT ![e] = {records[i] : i \in DOMAIN records}]
  /\ writing' = [writing EXCEPT ![e] = records]
  /\ outcome' = [outcome EXCEPT ![e] = "logging"]

Log(e) ==
  /\ outcome[e] = "logging" /\ writing[e] # <<>>
  /\ \/ /\ onDisk' = [onDisk EXCEPT ![e] = @ \cup {Head(writing[e])}]
        /\ writing' = [writing EXCEPT ![e] = Tail(@)]
        /\ outcome' = [outcome EXCEPT ![e] = IF Len(writing[e]) = 1 THEN "logged" ELSE @]
     \/ /\ outcome' = [outcome EXCEPT ![e] = "failed"]   \* and nobody is told
        /\ UNCHANGED <<onDisk, writing>>
  /\ UNCHANGED <<needs, requests, lastClear, overtaken, stops>>

Over(e) == outcome[e] \in {"logged", "failed"}

\* adminLogger and auditAdminAction.  An action that succeeded is logged after
\* it; the entry of one on no project has no target.
deriveTarget(kind) == IF kind = "project" THEN Targeted ELSE Untargeted

adminLogger(r, kind) ==
  /\ requests[r].pc = "answered" /\ requests' = [requests EXCEPT ![r] = [Idle EXCEPT !.pc = "over"]]
  /\ BeginLog(<<r, "logger">>, deriveTarget(kind))
  /\ UNCHANGED <<onDisk, lastClear, overtaken, stops>>

Act(r) ==
  /\ requests[r] = Idle
  /\ requests' = [requests EXCEPT ![r].pc = "answered"]
  /\ UNCHANGED <<onDisk, needs, writing, outcome, lastClear, overtaken, stops>>

------------------------------------------------------------------------------
\* handleClearAuditLogs: Clear, then an entry that tells of it.
BeginClear(r) ==
  /\ requests[r] = Idle
  /\ requests' = [requests EXCEPT ![r] = [pc |-> "clearing", read |-> {e \in Entries : "entry" \in onDisk[e]}]]
  /\ UNCHANGED <<onDisk, needs, writing, outcome, lastClear, overtaken, stops>>

\* Mutant of PurgeBefore: the entries go, and their places under targets stay.
PurgeKeepsTargets(r) ==
  /\ requests[r].pc = "clearing" /\ requests' = [requests EXCEPT ![r].pc = "cleared"]
  /\ onDisk' = [e \in Entries |-> IF e \in requests[r].read THEN onDisk[e] \cap {"target"} ELSE onDisk[e]]
  /\ overtaken' = overtaken \cup {e \in requests[r].read : outcome[e] = "logging"}
  /\ lastClear' = r
  /\ UNCHANGED <<needs, writing, outcome, stops>>

PurgeBefore(r) ==
  /\ requests[r].pc = "clearing" /\ requests' = [requests EXCEPT ![r].pc = "cleared"]
  /\ onDisk' = [e \in Entries |-> IF e \in requests[r].read THEN {} ELSE onDisk[e]]
  /\ overtaken' = overtaken \cup {e \in requests[r].read : outcome[e] = "logging"}
  /\ lastClear' = r
  /\ UNCHANGED <<needs, writing, outcome, stops>>

ClearFails(r) ==
  /\ requests[r].pc = "clearing" /\ requests' = [requests EXCEPT ![r].pc = "over"]
  /\ UNCHANGED <<onDisk, needs, writing, outcome, lastClear, overtaken, stops>>

TellClear(r) ==
  /\ requests[r].pc = "cleared" /\ requests' = [requests EXCEPT ![r].pc = "telling"]
  /\ BeginLog(<<r, "handler">>, Targeted)
  /\ UNCHANGED <<onDisk, lastClear, overtaken, stops>>

AnswerClear(r) ==
  /\ requests[r].pc = "telling" /\ Over(<<r, "handler">>)
  /\ requests' = [requests EXCEPT ![r].pc = "answered"]
  /\ UNCHANGED <<onDisk, needs, writing, outcome, lastClear, overtaken, stops>>

\* The process stops; what was written stays.
AuditCrash ==
  /\ stops < MaxStops /\ stops' = stops + 1
  /\ outcome' = [e \in Entries |-> IF outcome[e] = "logging" THEN "failed" ELSE outcome[e]]
  /\ requests' = [r \in AuditReqs |-> IF requests[r] = Idle THEN Idle ELSE [Idle EXCEPT !.pc = "over"]]
  /\ UNCHANGED <<onDisk, needs, writing, lastClear, overtaken>>

AuditNext ==
  \/ \E e \in Entries : Log(e)
  \/ \E r \in AuditReqs :
       \/ Act(r) \/ \E kind \in {"project", "server"} : adminLogger(r, kind)
       \/ BeginClear(r) \/ PurgeBefore(r) \/ ClearFails(r) \/ TellClear(r) \/ AnswerClear(r)
  \/ AuditCrash

AuditSpec == AuditInit /\ [][AuditNext]_auditVars

------------------------------------------------------------------------------
AuditTypeOK ==
  /\ {onDisk, needs} \subseteq [Entries -> SUBSET Records]
  /\ \A e \in Entries : Len(writing[e]) <= 4 /\ writing[e] \in Seq(Records)
  /\ outcome \in [Entries -> {"none", "logging", "logged", "failed"}]
  /\ requests \in [AuditReqs -> [pc : {"idle", "clearing", "cleared", "telling", "answered", "over"},
                                 read : SUBSET Entries]]
  /\ lastClear \in AuditReqs \cup {"nobody"} /\ overtaken \subseteq Entries /\ stops \in 0..MaxStops

\* The list of all entries, and the list under an administrator, action or target.
List == {e \in Entries : "entry" \in onDisk[e]}
iteratePrefix(place) == {e \in Entries : place \in onDisk[e]}

\* The lists agree: an entry that was logged is in the full list and in every
\* list it belongs to, or in none, whatever clearings ran.  Excepted are
\* entries being written, whose writing failed or that a clearing overtook,
\* which may stay in lists under a place and never be found again.
ListsAgree ==
  LET settled == {e \in Entries : outcome[e] = "logged"} \ overtaken
  IN \A place \in Records :
       iteratePrefix(place) \cap settled = {e \in List \cap settled : place \in needs[e]}

\* The trail tells of its last clearing, whoever clears at the same time.
LastClearIsTold ==
  lastClear # "nobody" /\ outcome[<<lastClear, "handler">>] = "logged"
    => <<lastClear, "handler">> \in List
==============================================================================
