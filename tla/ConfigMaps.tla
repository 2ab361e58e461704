------------------------------ MODULE ConfigMaps ------------------------------
(* The remote configuration of a project: entries that apps and the console    *)
(* set without a lock, each setting being a read of the entry, for the time it *)
(* was created, and a write.                                                   *)
EXTENDS Naturals, FiniteSets

CONSTANTS Keys,      \* keys of entries
          ConfReqs,  \* requests
          MaxTime    \* bound: the time of the last write

VARIABLES
  conf,      \* entries: when they were created and updated
  time,      \* the clock
  settings,  \* requests: the entry they are setting, and the answer
  born,      \* history: when the entry came to be
  crossed    \* history: keys whose entry came or went between the read and the write of one setting

confVars == <<conf, time, settings, born, crossed>>

Absent == [created |-> 0, updated |-> 0]
Quiet == [key |-> "none", now |-> 0, created |-> 0, answer |-> 0]

ConfInit ==
  /\ conf = [k \in Keys |-> Absent] /\ time = 1
  /\ settings = [r \in ConfReqs |-> Quiet]
  /\ born = [k \in Keys |-> 0] /\ crossed = {}

\* A key is refused when it is empty, blank or too long.
validateKey(k) == k \in Keys

Get(k) == validateKey(k) /\ conf[k] # Absent

\* Set, called by the app's and the console's handlers: an entry that is there
\* keeps the time it was created.
\* Mutant of Created: every write creates.
CreatedNow(k) == time

Created(k) == IF Get(k) THEN conf[k].created ELSE time

ReadForSet(r, k) ==
  /\ settings[r].key = "none" /\ validateKey(k) /\ time < MaxTime
  /\ settings' = [settings EXCEPT ![r] =
       [key |-> k, now |-> time, created |-> Created(k), answer |-> 0]]
  /\ time' = time + 1
  /\ UNCHANGED <<conf, born, crossed>>

\* Settings of an entry that is about to come or to go may have read it differently.
Crossing(k) == {s \in ConfReqs : settings[s].key = k}

\* A PUT answers 200; a POST answers 201 when it made the entry.
handleConfigSet(r, post) ==
  LET s == settings[r] IN
    /\ s.key \in Keys
    /\ conf' = [conf EXCEPT ![s.key] = [created |-> s.created, updated |-> s.now]]
    /\ settings' = [settings EXCEPT ![r] =
         [Quiet EXCEPT !.answer = IF post /\ s.created = s.now THEN 201 ELSE 200]]
    /\ born' = [born EXCEPT ![s.key] = IF conf[s.key] = Absent THEN s.now ELSE @]
    /\ crossed' = IF conf[s.key] = Absent /\ Crossing(s.key) # {r} THEN crossed \cup {s.key}
                  ELSE crossed
    /\ UNCHANGED time

\* The console's handler takes an entry without a value, too, and answers 200.
handleAdminSetConfig(r) == handleConfigSet(r, FALSE)

Delete(k) ==
  /\ validateKey(k)
  /\ conf' = [conf EXCEPT ![k] = Absent] /\ born' = [born EXCEPT ![k] = 0]
  /\ crossed' = IF Crossing(k) = {} THEN crossed \ {k} ELSE crossed \cup {k}
  /\ UNCHANGED <<time, settings>>

handleConfigDelete(k) == Delete(k)
handleAdminDeleteConfig(k) == Delete(k)

\* A list is of one state of the database.
List == {k \in Keys : Get(k)}

ConfNext ==
  \/ \E r \in ConfReqs :
       \/ \E k \in Keys : ReadForSet(r, k)
       \/ \E post \in BOOLEAN : handleConfigSet(r, post)
       \/ handleAdminSetConfig(r)
  \/ \E k \in Keys : handleConfigDelete(k) \/ handleAdminDeleteConfig(k)

ConfSpec == ConfInit /\ [][ConfNext]_confVars

------------------------------------------------------------------------------
ConfTypeOK ==
  /\ conf \in [Keys -> [created : 0..MaxTime, updated : 0..MaxTime]]
  /\ time \in 1..MaxTime /\ crossed \subseteq Keys /\ born \in [Keys -> 0..MaxTime]
  /\ \A r \in ConfReqs : settings[r].answer \in {0, 200, 201}

\* An entry keeps the time at which it came to be through all its settings.
\* Excepted is an entry that came or went between the read and the write of a
\* setting: it may be older than it is, or be created twice.
CreationTimesHold ==
  \A k \in List \ crossed : conf[k].created = born[k]
==============================================================================
