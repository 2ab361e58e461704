--------------------------- MODULE Tenancy_proofs ---------------------------
(* The coherence of the project registry for any number of projects and names  *)
(* and any log of a master; that members, administrators and users are found   *)
(* under what their records say, whichever requests overlap; the accounts a    *)
(* node keeps of itself: the meter, the events and the audit trail; and the    *)
(* types and bounds of all of it.                                              *)
EXTENDS Tenancy, TLAPS, FiniteSetTheorems, WellFoundedInduction

ProjectRecord == [status : {"none", "active", "deleted"}, name : Names]

FeedOK == /\ role \in {"follower", "master"}
          /\ log \in Seq(LogEntry) /\ next \in Nat \ {0}

RecordsOK == /\ stored \in [Projects -> ProjectRecord]
             /\ projects = stored
             /\ secrets = {p \in Projects : stored[p] # None}
             /\ \A p \in Projects : stored[p].status = "none" => stored[p] = None

\* An environment keeps its directory locked, so that the opener, which opens
\* what nobody has open, never meets it.
HandlesOK == /\ {envs, engines, stores} \subseteq [Projects -> {"none", "open", "closed"}]
             /\ locked \subseteq Projects
             /\ opener \in [pc : {"idle", "open", "register"}, p : Projects]
             /\ CachedEnvIsServed

IInv == FeedOK /\ RecordsOK /\ HandlesOK

LEMMA NoneIsRecord ==
  /\ None \in ProjectRecord /\ None.status = "none"
  /\ Idle \in [pc : {"idle", "open", "register"}, p : Projects]
  /\ NoEngine \in [Projects -> {"none", "open", "closed"}]
  BY RegistryAssumption DEF None, Idle, NoEngine, ProjectRecord

LEMMA RecordIsKnown ==
  ASSUME NEW s \in {"active", "deleted"}, NEW nm \in Names
  PROVE  Record(s, nm) \in ProjectRecord /\ Record(s, nm) # None
                                         /\ Record(s, nm).status = s
  BY NoneIsRecord DEF Record, ProjectRecord

LEMMA InitInv == RegistryInit => IInv
  <1> SUFFICES ASSUME RegistryInit PROVE IInv
    OBVIOUS
  <1>1. FeedOK
    <2>1. <<>> \in Seq(LogEntry)
      OBVIOUS
    <2>2. log \in Seq(LogEntry)
      BY <2>1, RegistryAssumption, Zenon DEF RegistryInit
    <2>3. role \in {"follower", "master"} /\ next = 1
      BY DEF RegistryInit
    <2> QED BY <2>2, <2>3 DEF FeedOK
  <1>2. RecordsOK
    BY NoneIsRecord DEF RegistryInit, RecordsOK
  <1>3. HandlesOK
    BY NoneIsRecord DEF RegistryInit, HandlesOK, CachedEnvIsServed, NoEngine
  <1> QED BY <1>1, <1>2, <1>3 DEF IInv

\* saveProject and the index of secrets, for a record and for its removal.
LEMMA SavingKeepsRecords ==
  ASSUME RecordsOK, NEW p \in Projects, NEW rec \in ProjectRecord,
         rec.status # "none", SaveProject(p, rec), secrets' = secrets \cup {p}
  PROVE  RecordsOK'
  <1>1. rec # None
    BY NoneIsRecord
  <1> QED BY <1>1, NoneIsRecord DEF RecordsOK, SaveProject

LEMMA RemovingKeepsRecords ==
  ASSUME RecordsOK, NEW p \in Projects,
         SaveProject(p, None), secrets' = secrets \ {p}
  PROVE  RecordsOK'
  BY NoneIsRecord DEF RecordsOK, SaveProject

\* Closing an environment's engine takes the environment with it.
LEMMA DroppingKeepsHandles ==
  ASSUME HandlesOK, NEW p \in Projects, DropEnv(p), UNCHANGED opener
  PROVE  HandlesOK'
  BY DEF HandlesOK, DropEnv, Closed, CachedEnvIsServed, handles

\* A start finds nothing open and the index of secrets is built from the records.
LEMMA ReloadingKeepsAll ==
  ASSUME FeedOK, NEW found \in [Projects -> ProjectRecord],
         \A p \in Projects : found[p].status = "none" => found[p] = None,
         Reload(found)
  PROVE  IInv'
  <1>1. FeedOK'
    BY DEF Reload, FeedOK
  <1>2. RecordsOK'
    BY DEF Reload, RecordsOK
  <1>3. HandlesOK'
    BY NoneIsRecord DEF Reload, HandlesOK, CachedEnvIsServed, NoEngine
  <1> QED BY <1>1, <1>2, <1>3 DEF IInv

\* The operations that the administration API calls.
LEMMA AdministrationKeeps ==
  ASSUME IInv, NEW p \in Projects, NEW nm \in Names,
         \/ CreateProject(p, nm) \/ HandleUpdateProject(p, nm) \/ CrashInCreate(p, nm)
         \/ HandleSetOAuthProviders(p) \/ DeleteProject(p) \/ CrashInDelete(p)
  PROVE  IInv'
  <1> USE DEF IInv
  <1>r. /\ projects = stored /\ stored[p] \in ProjectRecord
        /\ projects[p].name \in Names
        /\ Known(p) => p \in secrets /\ stored[p].status \in {"active", "deleted"}
    BY DEF RecordsOK, Known, ProjectRecord
  <1>1. CASE CreateProject(p, nm)
    <2>1. RecordsOK'
      BY <1>1, RecordIsKnown, SavingKeepsRecords DEF CreateProject
    <2> QED BY <1>1, <2>1
        DEF CreateProject, feed, handles, FeedOK, HandlesOK, CachedEnvIsServed
  <1>2. ASSUME NEW m \in Names, UpdateProject(p, m) PROVE RecordsOK' /\ FeedOK'
    <2>1. /\ Record(projects[p].status, m) \in ProjectRecord
          /\ Record(projects[p].status, m).status # "none"
      BY <1>r, <1>2, RecordIsKnown DEF UpdateProject
    <2>2. secrets' = secrets \cup {p}
      BY <1>r, <1>2 DEF UpdateProject
    <2>3. RecordsOK'
      BY <1>2, <2>1, <2>2, SavingKeepsRecords DEF UpdateProject
    <2> QED BY <1>2, <2>3 DEF UpdateProject, feed, FeedOK
  <1>3. CASE HandleUpdateProject(p, nm)
    BY <1>2, <1>3 DEF HandleUpdateProject, handles, HandlesOK, CachedEnvIsServed
  <1>4. CASE HandleSetOAuthProviders(p)
    <2>1. RecordsOK' /\ FeedOK'
      BY <1>r, <1>2, <1>4 DEF HandleSetOAuthProviders
    <2>2. CASE DropEnv(p)
      BY <1>4, <2>1, <2>2, DroppingKeepsHandles DEF HandleSetOAuthProviders
    <2>3. CASE UNCHANGED handles
      BY <1>4, <2>1, <2>3 DEF HandleSetOAuthProviders, handles, HandlesOK, CachedEnvIsServed
    <2> QED BY <1>4, <2>2, <2>3 DEF HandleSetOAuthProviders
  <1>5. CASE DeleteProject(p)
    BY <1>5, RemovingKeepsRecords, DroppingKeepsHandles DEF DeleteProject, feed, FeedOK
  <1>6. CASE CrashInDelete(p)
    <2> DEFINE found == [stored EXCEPT ![p].status = "deleted"]
    <2>1. /\ found \in [Projects -> ProjectRecord] /\ Reload(found)
          /\ \A q \in Projects : found[q].status = "none" => found[q] = None
      BY <1>6 DEF CrashInDelete, RecordsOK, ProjectRecord
    <2> QED BY <2>1, ReloadingKeepsAll
  <1>7. CASE CrashInCreate(p, nm)
    <2> DEFINE found == [stored EXCEPT ![p] = Record("active", nm)]
    <2>1. /\ found \in [Projects -> ProjectRecord] /\ Reload(found)
          /\ \A q \in Projects : found[q].status = "none" => found[q] = None
      BY <1>7, RecordIsKnown DEF CrashInCreate, RecordsOK
    <2> QED BY <2>1, ReloadingKeepsAll
  <1> QED BY <1>1, <1>3, <1>4, <1>5, <1>6, <1>7

\* Engines that requests open, and the end of a promotion.
LEMMA EnginesKeep ==
  ASSUME IInv,
         \/ \E p \in Projects : GetProjectEnv(p) \/ CacheStore(p)
         \/ SetCluster \/ Promote
  PROVE  IInv'
  <1> USE DEF IInv, feed, registry
  <1>1. ASSUME NEW p \in Projects, GetProjectEnv(p) PROVE IInv'
    BY <1>1 DEF GetProjectEnv, FeedOK, RecordsOK, HandlesOK, CachedEnvIsServed
  <1>2. ASSUME NEW p \in Projects, CacheStore(p) PROVE IInv'
    BY <1>2 DEF CacheStore, FeedOK, RecordsOK, HandlesOK, CachedEnvIsServed
  <1>3. CASE SetCluster
    BY <1>3 DEF SetCluster, handles, FeedOK, RecordsOK, HandlesOK, CachedEnvIsServed
  <1>4. CASE Promote
    BY <1>4 DEF Promote, Closed, NoEngine, FeedOK, RecordsOK, HandlesOK, CachedEnvIsServed
  <1> QED BY <1>1, <1>2, <1>3, <1>4

LEMMA EntryIsTyped ==
  ASSUME FeedOK, NEW ops, HasEntry(ops)
  PROVE  Entry.p \in Projects /\ Entry.name \in Names
  <1>1. log \in Seq(LogEntry) /\ next \in 1..Len(log)
    BY DEF FeedOK, HasEntry
  <1>2. Entry \in LogEntry
    BY <1>1 DEF Entry
  <1> QED BY <1>2 DEF LogEntry

\* The apply loop and the opener that it calls, and restarts.
LEMMA ApplyLoopKeeps ==
  ASSUME IInv,
         \/ Restart \/ ApplyUnwired
         \/ ApplyCreateProject \/ ApplyUpdateProject \/ ApplyDeleteProject
         \/ ApplyDocument \/ OpenerLooksUp \/ OpenerOpens \/ OpenerRegisters
  PROVE  IInv'
  <1> USE DEF IInv
  <1>0. ASSUME Reload(stored) PROVE IInv'
    BY <1>0, ReloadingKeepsAll DEF RecordsOK
  <1>1. CASE Restart
    BY <1>0, <1>1 DEF Restart
  <1>2. CASE ApplyUnwired
    BY <1>2 DEF ApplyUnwired, Skip, Advance, registry, handles,
                FeedOK, RecordsOK, HandlesOK, CachedEnvIsServed
  <1>3. CASE ApplyCreateProject
    <2>1. /\ Entry.p \in Projects /\ Record("active", Entry.name) \in ProjectRecord
          /\ Record("active", Entry.name).status # "none"
      BY <1>3, EntryIsTyped, RecordIsKnown DEF ApplyCreateProject
    <2>2. RecordsOK'
      BY <1>3, <2>1, SavingKeepsRecords DEF ApplyCreateProject
    <2> QED BY <1>3, <2>2
        DEF ApplyCreateProject, Advance, handles, FeedOK, HandlesOK, CachedEnvIsServed
  <1>4. CASE ApplyUpdateProject
    <2>1. /\ Entry.p \in Projects /\ Record("active", Entry.name) \in ProjectRecord
          /\ Record("active", Entry.name).status # "none"
      BY <1>4, EntryIsTyped, RecordIsKnown DEF ApplyUpdateProject
    <2>2. RecordsOK'
      BY <1>4, <2>1, SavingKeepsRecords DEF ApplyUpdateProject
    <2>3. HandlesOK'
      BY <1>4, <2>1, DroppingKeepsHandles DEF ApplyUpdateProject
    <2> QED BY <1>4, <2>2, <2>3 DEF ApplyUpdateProject, Advance, FeedOK
  <1>5. CASE ApplyDeleteProject
    <2>1. Entry.p \in Projects
      BY <1>5, EntryIsTyped DEF ApplyDeleteProject
    <2>2. FeedOK'
      BY <1>5 DEF ApplyDeleteProject, Advance, FeedOK
    <2>3. CASE Known(Entry.p)
      BY <1>5, <2>1, <2>2, <2>3, RemovingKeepsRecords, DroppingKeepsHandles
      DEF ApplyDeleteProject
    <2>4. CASE ~Known(Entry.p)
      BY <1>5, <2>2, <2>4
      DEF ApplyDeleteProject, handles, RecordsOK, HandlesOK, CachedEnvIsServed
    <2> QED BY <2>3, <2>4
  <1>6. CASE ApplyDocument
    <2>1. CASE Reload(stored)
      BY <1>0, <2>1
    <2>2. CASE Advance /\ UNCHANGED <<role, log, registry, handles, opener>>
      BY <2>2 DEF Advance, registry, handles, FeedOK, RecordsOK, HandlesOK, CachedEnvIsServed
    <2> QED BY <1>6, <2>1, <2>2 DEF ApplyDocument
  <1>7. CASE OpenerLooksUp
    <2>1. Entry.p \in Projects
      BY <1>7, EntryIsTyped DEF OpenerLooksUp
    <2> QED BY <1>7, <2>1 DEF OpenerLooksUp, Skip, Advance, registry, handles,
                              FeedOK, RecordsOK, HandlesOK, CachedEnvIsServed
  <1>8. CASE OpenerOpens
    BY <1>8, NoneIsRecord DEF OpenerOpens, Skip, Advance, registry,
                FeedOK, RecordsOK, HandlesOK, CachedEnvIsServed
  <1>9. CASE OpenerRegisters
    BY <1>9, NoneIsRecord DEF OpenerRegisters, Advance, registry,
                 FeedOK, RecordsOK, HandlesOK, CachedEnvIsServed
  <1> QED BY <1>1, <1>2, <1>3, <1>4, <1>5, <1>6, <1>7, <1>8, <1>9

LEMMA NextInv == IInv /\ [RegistryNext]_registryVars => IInv'
  <1> SUFFICES ASSUME IInv, [RegistryNext]_registryVars PROVE IInv'
    OBVIOUS
  <1>1. CASE RegistryNext
    BY <1>1, AdministrationKeeps, EnginesKeep, ApplyLoopKeeps, RegistryAssumption DEF RegistryNext
  <1>2. CASE UNCHANGED registryVars
    BY <1>2 DEF registryVars, registry, handles, feed,
                IInv, FeedOK, RecordsOK, HandlesOK, CachedEnvIsServed
  <1> QED BY <1>1, <1>2

(* The strengthening: types, records in memory as on disk, no environment over *)
(* an engine that the opener may still register (manager.go:430-500).          *)
THEOREM InductiveInvariant == RegistrySpec => []IInv
  BY InitInv, NextInv, PTL DEF RegistrySpec

(* The engine of a cached environment is open and is the one that log entries  *)
(* are applied to, whatever requests, deletions, promotions and the opener do. *)
THEOREM CachedEnvServed == RegistrySpec => []CachedEnvIsServed
  <1>1. IInv => CachedEnvIsServed
    BY DEF IInv, HandlesOK
  <1> QED BY InductiveInvariant, <1>1, PTL

(* pm.projects is the database and pm.secretIndex finds exactly the projects   *)
(* in it, over crashes inside of operations as well.                           *)
THEOREM MemoryIsDisk == RegistrySpec => []MemoryFollowsDisk
  <1>1. IInv => MemoryFollowsDisk
    BY DEF IInv, RecordsOK, MemoryFollowsDisk
  <1> QED BY InductiveInvariant, <1>1, PTL

(* The registry is coherent in both respects at once. *)
THEOREM RegistryCoherent == RegistrySpec => []RegistryIsCoherent
  BY CachedEnvServed, MemoryIsDisk, PTL DEF RegistryIsCoherent

------------------------------------------------------------------------------
(* A follower and the log.  A restart sends the log again from its first       *)
(* entry, over records that a longer part of it made; the entries that were    *)
(* applied since then decide, and a project without an entry has no record.    *)

Own(i, p) == log[i].p = p /\ log[i].op # "document"
Effect(i) == IF log[i].op = "delete" THEN None ELSE Record("active", log[i].name)

\* The entry at i is the last one before next that says something of p.
IsLatest(i, p) == /\ i \in 1..Len(log) /\ i < next /\ Own(i, p)
                  /\ \A j \in 1..Len(log) : j < next /\ Own(j, p) => j <= i

FeedInLog == next \in 1..Len(log) + 1 /\ missed \subseteq 1..Len(log) /\ wired \in BOOLEAN

\* The opener works for the entry that is next, which is a document.
OpenerServesEntry ==
  opener.pc # "idle" => role = "follower" /\ next <= Len(log)
                          /\ log[next].op = "document" /\ log[next].p = opener.p

MissedDocumentsOnly == \A i \in missed : log[i].op = "document"

RecordsFollowLog == role = "follower" => \A p \in Projects :
  /\ (\A i \in 1..Len(log) : ~Own(i, p)) => projects[p] = None
  /\ \A i \in 1..Len(log) : i < next /\ Own(i, p) =>
        \E k \in 1..Len(log) : IsLatest(k, p) /\ (MissedDocumentsOnly => projects[p] = Effect(k))

LInv == FeedInLog /\ OpenerServesEntry /\ RecordsFollowLog

\* An entry of p is applied, or given up: it is the latest one of p.
LEMMA ProjectEntryIsLatest ==
  ASSUME IInv, LInv, role = "follower", next <= Len(log), next' = next + 1, UNCHANGED <<role, log>>,
         log[next].op # "document", missed \subseteq missed',
         \A q \in Projects : q # log[next].p => projects'[q] = projects[q],
         MissedDocumentsOnly' => projects'[log[next].p] = Effect(next)
  PROVE  RecordsFollowLog'
  <1> SUFFICES ASSUME NEW n, n = next, NEW e, e = log[n].p PROVE RecordsFollowLog'
    OBVIOUS
  <1>1. log \in Seq(LogEntry) /\ next \in 1..Len(log) /\ e \in Projects
    <2>1. log \in Seq(LogEntry) /\ next \in 1..Len(log)
      BY DEF IInv, FeedOK, LInv, FeedInLog
    <2>2. log[next] \in LogEntry
      BY <2>1
    <2> QED BY <2>1, <2>2 DEF LogEntry
  <1>2. MissedDocumentsOnly' => MissedDocumentsOnly
    BY DEF MissedDocumentsOnly
  <1>3. \A i \in 1..Len(log) : Effect(i)' = Effect(i) /\ \A p : Own(i, p)' <=> Own(i, p)
    BY DEF Effect, Own
  <1> SUFFICES ASSUME NEW p \in Projects
               PROVE  /\ (\A i \in 1..Len(log) : ~Own(i, p)) => projects'[p] = None
                      /\ \A i \in 1..Len(log) : i < next + 1 /\ Own(i, p) =>
                            \E k \in 1..Len(log) :
                               IsLatest(k, p)' /\ (MissedDocumentsOnly' => projects'[p] = Effect(k))
    BY <1>3 DEF RecordsFollowLog, Own
  <1>4. CASE p = e
    <2>1. Own(n, p)
      BY <1>4 DEF Own
    <2>2. IsLatest(n, p)'
      BY <1>1, <1>3, <2>1 DEF IsLatest
    <2> QED BY <1>1, <1>4, <2>1, <2>2
  <1>5. CASE p # e
    <2>1. ~Own(n, p) /\ projects'[p] = projects[p]
      BY <1>5 DEF Own
    <2>2. \A k \in 1..Len(log) : IsLatest(k, p) => IsLatest(k, p)'
      BY <1>1, <1>3, <2>1 DEF IsLatest
    <2>3. \A i \in 1..Len(log) : i < next + 1 /\ Own(i, p) => i < next
      BY <1>1, <2>1
    <2> QED BY <1>2, <2>1, <2>2, <2>3 DEF LInv, RecordsFollowLog
  <1> QED BY <1>4, <1>5

\* A document, or a step that is not of the apply loop, leaves the records.
LEMMA OtherStepsFollowLog ==
  ASSUME IInv, LInv, UNCHANGED <<role, log, projects>>, missed \subseteq missed',
         \/ next' = next
         \/ next <= Len(log) /\ next' = next + 1 /\ log[next].op = "document"
  PROVE  RecordsFollowLog'
  <1>1. next \in Nat \ {0}
    BY DEF LInv, FeedInLog
  <1>2. MissedDocumentsOnly' => MissedDocumentsOnly
    BY DEF MissedDocumentsOnly
  <1>3. \A i \in 1..Len(log) : Effect(i)' = Effect(i) /\ \A p : Own(i, p)' <=> Own(i, p)
    BY DEF Effect, Own
  <1>4. \A i \in 1..Len(log) : \A p : Own(i, p) => (i < next' <=> i < next)
    BY <1>1 DEF Own
  <1>5. \A k \in 1..Len(log) : \A p : IsLatest(k, p) => IsLatest(k, p)'
    BY <1>3, <1>4 DEF IsLatest
  <1> SUFFICES ASSUME role = "follower", NEW p \in Projects
               PROVE  /\ (\A i \in 1..Len(log) : ~Own(i, p)) => projects[p] = None
                      /\ \A i \in 1..Len(log) : i < next' /\ Own(i, p) =>
                            \E k \in 1..Len(log) :
                               IsLatest(k, p)' /\ (MissedDocumentsOnly' => projects[p] = Effect(k))
    BY <1>3 DEF RecordsFollowLog
  <1> QED BY <1>2, <1>4, <1>5 DEF LInv, RecordsFollowLog

\* A start takes the log from its first entry.
LEMMA ReloadFollowsLog ==
  ASSUME IInv, LInv, Reload(stored)
  PROVE  LInv'
  <1>1. /\ UNCHANGED <<role, log>> /\ projects' = projects /\ opener' = Idle /\ missed' = {}
        /\ next' = IF role = "follower" THEN 1 ELSE next
    BY DEF Reload, IInv, RecordsOK
  <1>2. Len(log) \in Nat
    BY DEF IInv, FeedOK
  <1>3. FeedInLog' /\ OpenerServesEntry'
    BY <1>1, <1>2 DEF Reload, LInv, FeedInLog, OpenerServesEntry, Idle
  <1>4. RecordsFollowLog'
    BY <1>1, <1>2 DEF LInv, RecordsFollowLog, Own
  <1> QED BY <1>3, <1>4 DEF LInv

\* A master follows no log.
LEMMA MasterFollowsLog ==
  ASSUME LInv, role' = "master", opener' = Idle \/ UNCHANGED <<role, opener>>,
         UNCHANGED log, next' = next, missed' = missed \/ missed' = {}, wired' \in BOOLEAN
  PROVE  LInv'
  <1>1. FeedInLog'
    BY DEF LInv, FeedInLog
  <1>2. OpenerServesEntry'
    BY DEF LInv, OpenerServesEntry, Idle
  <1>3. RecordsFollowLog'
    BY DEF RecordsFollowLog
  <1> QED BY <1>1, <1>2, <1>3 DEF LInv

LEMMA MasterStepsFollowLog ==
  ASSUME IInv, LInv,
         \/ \E p \in Projects, nm \in Names :
               CreateProject(p, nm) \/ HandleUpdateProject(p, nm) \/ CrashInCreate(p, nm)
         \/ \E p \in Projects : HandleSetOAuthProviders(p) \/ DeleteProject(p) \/ CrashInDelete(p)
         \/ Promote
  PROVE  LInv'
  <1>1. wired \in BOOLEAN
    BY DEF LInv, FeedInLog
  <1>2. ASSUME role = "master", UNCHANGED <<feed, opener>> PROVE LInv'
    BY <1>1, <1>2, MasterFollowsLog DEF feed
  <1>3. ASSUME NEW found, role = "master", Reload(found) PROVE LInv'
    BY <1>3, MasterFollowsLog DEF Reload
  <1>4. CASE Promote
    <2>1. opener = Idle \/ opener.pc = "idle"
      BY <1>4 DEF Promote
    <2> QED BY <1>1, <1>4, <2>1 DEF Promote, LInv, FeedInLog, OpenerServesEntry, RecordsFollowLog
  <1> QED BY <1>2, <1>3, <1>4 DEF CreateProject, HandleUpdateProject, UpdateProject, CrashInCreate,
             HandleSetOAuthProviders, DeleteProject, CrashInDelete

\* Steps that leave the apply loop where it is.
LEMMA IdleStepsFollowLog ==
  ASSUME IInv, LInv,
         \/ \E p \in Projects : GetProjectEnv(p) \/ CacheStore(p)
         \/ SetCluster \/ UNCHANGED registryVars
  PROVE  LInv'
  <1>1. /\ UNCHANGED <<role, log, next, missed, projects, opener>>
        /\ wired' = wired \/ wired' = TRUE
    BY DEF GetProjectEnv, CacheStore, SetCluster, registryVars, registry, feed
  <1>2. RecordsFollowLog'
    BY <1>1, OtherStepsFollowLog
  <1> QED BY <1>1, <1>2 DEF LInv, FeedInLog, OpenerServesEntry

\* Facts about the entry that the apply loop takes.
LEMMA EntryInLog ==
  ASSUME IInv, LInv, NEW ops, HasEntry(ops)
  PROVE  /\ role = "follower" /\ opener.pc = "idle" /\ next \in 1..Len(log) /\ Len(log) \in Nat
         /\ log[next].op \in ops /\ log[next].p \in Projects
         /\ next + 1 \in 1..Len(log) + 1 /\ missed \cup {next} \subseteq 1..Len(log)
  <1>1. next \in 1..Len(log) + 1 /\ missed \subseteq 1..Len(log) /\ Len(log) \in Nat
    BY DEF LInv, FeedInLog, IInv, FeedOK
  <1>2. role = "follower" /\ opener.pc = "idle" /\ next <= Len(log) /\ log[next].op \in ops
    BY DEF HasEntry, Entry
  <1>3. log[next].p \in Projects
    BY EntryIsTyped DEF IInv, Entry
  <1> QED BY <1>1, <1>2, <1>3

LEMMA ProjectEntriesFollowLog ==
  ASSUME IInv, LInv,
         ApplyUnwired \/ ApplyCreateProject \/ ApplyUpdateProject \/ ApplyDeleteProject
  PROVE  LInv'
  <1> DEFINE Ops == {"create", "update", "delete", "document"}
  <1>1. HasEntry(Ops)
    BY DEF ApplyUnwired, ApplyCreateProject, ApplyUpdateProject, ApplyDeleteProject, HasEntry
  <1>2. /\ role = "follower" /\ opener.pc = "idle" /\ next \in 1..Len(log) /\ Len(log) \in Nat
        /\ log[next].p \in Projects /\ next <= Len(log)
        /\ next + 1 \in 1..Len(log) + 1 /\ missed \cup {next} \subseteq 1..Len(log)
    BY <1>1, EntryInLog
  <1>3. /\ UNCHANGED <<role, log>> /\ UNCHANGED <<wired, opener>> /\ next' = next + 1
        /\ missed' = missed \/ missed' = missed \cup {next}
        /\ missed \subseteq missed'
    BY DEF ApplyUnwired, ApplyCreateProject, ApplyUpdateProject, ApplyDeleteProject, Skip, Advance
  <1>4. FeedInLog' /\ OpenerServesEntry'
    BY <1>2, <1>3 DEF LInv, FeedInLog, OpenerServesEntry
  <1>5. projects \in [Projects -> ProjectRecord]
    BY DEF IInv, RecordsOK
  <1>6. CASE ApplyUnwired
    <2>1. projects' = projects /\ missed' = missed \cup {next}
      BY <1>6 DEF ApplyUnwired, Skip, registry
    <2>2. CASE log[next].op = "document"
      <3>1. UNCHANGED <<role, log, projects>>
        BY <1>3, <2>1
      <3>2. RecordsFollowLog'
        BY <1>2, <1>3, <2>2, <3>1, OtherStepsFollowLog
      <3> QED BY <1>4, <3>2 DEF LInv
    <2>3. CASE log[next].op # "document"
      <3>1. ~MissedDocumentsOnly'
        BY <1>3, <2>1, <2>3 DEF MissedDocumentsOnly
      <3>2. RecordsFollowLog'
        BY <1>2, <1>3, <2>1, <2>3, <3>1, ProjectEntryIsLatest
      <3> QED BY <1>4, <3>2 DEF LInv
    <2> QED BY <2>2, <2>3
  <1>7. CASE ApplyCreateProject \/ ApplyUpdateProject
    <2>1. /\ projects' = [projects EXCEPT ![log[next].p] = Record("active", log[next].name)]
          /\ log[next].op \in {"create", "update"} /\ missed' = missed
      BY <1>7 DEF ApplyCreateProject, ApplyUpdateProject, SaveProject, HasEntry, Entry
    <2>2. projects'[log[next].p] = Effect(next)
      BY <1>2, <1>5, <2>1 DEF Effect
    <2>3. RecordsFollowLog'
      BY <1>2, <1>3, <1>5, <2>1, <2>2, ProjectEntryIsLatest
    <2> QED BY <1>4, <2>3 DEF LInv
  <1>8. CASE ApplyDeleteProject
    <2>1. /\ projects' = [projects EXCEPT ![log[next].p] = None]
          /\ log[next].op = "delete" /\ missed' = missed
      BY <1>5, <1>8 DEF ApplyDeleteProject, SaveProject, HasEntry, Entry, Known
    <2>2. projects'[log[next].p] = Effect(next)
      BY <1>2, <1>5, <2>1 DEF Effect
    <2>3. RecordsFollowLog'
      BY <1>2, <1>3, <1>5, <2>1, <2>2, ProjectEntryIsLatest
    <2> QED BY <1>4, <2>3 DEF LInv
  <1> QED BY <1>6, <1>7, <1>8

LEMMA DocumentsFollowLog ==
  ASSUME IInv, LInv,
         ApplyDocument \/ OpenerLooksUp \/ OpenerOpens \/ OpenerRegisters
  PROVE  LInv'
  <1>1. CASE Reload(stored)
    BY <1>1, ReloadFollowsLog
  <1>2. ASSUME HasEntry({"document"}), UNCHANGED <<role, log, wired, projects>>,
               \/ next' = next + 1 /\ opener' = opener /\ missed' \in {missed, missed \cup {next}}
               \/ UNCHANGED <<next, missed>> /\ opener'.p = log[next].p
        PROVE  LInv'
    <2>1. /\ role = "follower" /\ opener.pc = "idle" /\ next \in 1..Len(log) /\ Len(log) \in Nat
          /\ log[next].op = "document"
          /\ next + 1 \in 1..Len(log) + 1 /\ missed \cup {next} \subseteq 1..Len(log)
      BY <1>2, EntryInLog
    <2>2. RecordsFollowLog'
      BY <1>2, <2>1, OtherStepsFollowLog
    <2>3. FeedInLog'
      BY <1>2, <2>1 DEF LInv, FeedInLog
    <2>4. OpenerServesEntry'
      BY <1>2, <2>1 DEF OpenerServesEntry
    <2> QED BY <2>2, <2>3, <2>4 DEF LInv
  <1>3. CASE ApplyDocument
    BY <1>1, <1>2, <1>3 DEF ApplyDocument, Advance, registry
  <1>4. CASE OpenerLooksUp
    BY <1>2, <1>4 DEF OpenerLooksUp, Skip, Advance, registry, Entry
  <1>5. ASSUME opener.pc # "idle", UNCHANGED <<role, log, wired, projects>>,
               \/ next' = next + 1 /\ opener' = Idle /\ missed' \in {missed, missed \cup {next}}
               \/ UNCHANGED <<next, missed>> /\ opener'.p = opener.p
        PROVE  LInv'
    <2>1. /\ role = "follower" /\ next \in 1..Len(log) /\ Len(log) \in Nat
          /\ log[next].op = "document" /\ log[next].p = opener.p
          /\ next + 1 \in 1..Len(log) + 1 /\ missed \cup {next} \subseteq 1..Len(log)
      <3>1. next \in 1..Len(log) + 1 /\ missed \subseteq 1..Len(log) /\ Len(log) \in Nat
        BY DEF LInv, FeedInLog, IInv, FeedOK
      <3>2. /\ role = "follower" /\ next <= Len(log)
            /\ log[next].op = "document" /\ log[next].p = opener.p
        BY <1>5 DEF LInv, OpenerServesEntry
      <3>3. next \in 1..Len(log) /\ next + 1 \in 1..Len(log) + 1
        BY <3>1, <3>2
      <3> QED BY <3>1, <3>2, <3>3
    <2>2. RecordsFollowLog'
      BY <1>5, <2>1, OtherStepsFollowLog
    <2>3. FeedInLog'
      BY <1>5, <2>1 DEF LInv, FeedInLog
    <2>4. OpenerServesEntry'
      BY <1>5, <2>1 DEF OpenerServesEntry, Idle
    <2> QED BY <2>2, <2>3, <2>4 DEF LInv
  <1>6. opener \in [pc : {"idle", "open", "register"}, p : Projects]
    BY DEF IInv, HandlesOK
  <1>7. CASE OpenerOpens
    BY <1>5, <1>6, <1>7 DEF OpenerOpens, Skip, Advance, registry
  <1>8. CASE OpenerRegisters
    BY <1>5, <1>8 DEF OpenerRegisters, Advance, registry
  <1> QED BY <1>3, <1>4, <1>7, <1>8

LEMMA LogInit == RegistryInit => LInv
  <1> SUFFICES ASSUME RegistryInit PROVE LInv
    OBVIOUS
  <1>1. Len(log) \in Nat
    BY InitInv DEF IInv, FeedOK
  <1> QED BY <1>1 DEF RegistryInit, LInv, FeedInLog, OpenerServesEntry, RecordsFollowLog, Idle

LEMMA LogNext == IInv /\ LInv /\ [RegistryNext]_registryVars => LInv'
  <1> SUFFICES ASSUME IInv, LInv, [RegistryNext]_registryVars PROVE LInv'
    OBVIOUS
  <1>1. CASE Restart
    BY <1>1, ReloadFollowsLog DEF Restart
  <1> QED BY <1>1, MasterStepsFollowLog, IdleStepsFollowLog, ProjectEntriesFollowLog, DocumentsFollowLog
          DEF RegistryNext

\* At the end of the log the latest entry of a project is its last one.
LEMMA LogEnd ==
  ASSUME IInv, LInv
  PROVE  FollowerReachesLog
  <1> SUFFICES ASSUME role = "follower", next > Len(log), MissedDocumentsOnly, NEW p \in Projects
               PROVE  projects[p] = Outcome(p)
    BY DEF FollowerReachesLog, MissedDocumentsOnly
  <1> DEFINE own == {i \in 1..Len(log) : log[i].p = p /\ log[i].op # "document"}
             last == CHOOSE i \in own : \A j \in own : j <= i
  <1>1. next = Len(log) + 1 /\ Len(log) \in Nat
    BY DEF LInv, FeedInLog, IInv, FeedOK
  <1>2. CASE own = {}
    BY <1>2 DEF Outcome, Own, LInv, RecordsFollowLog
  <1>3. CASE own # {}
    <2>1. PICK k \in 1..Len(log) : IsLatest(k, p) /\ projects[p] = Effect(k)
      BY <1>1, <1>3 DEF LInv, RecordsFollowLog, Own
    <2>2. k \in own /\ \A j \in own : j <= k
      BY <1>1, <2>1 DEF IsLatest, Own
    <2>3. last \in own /\ \A j \in own : j <= last
      BY <2>2
    <2>4. last = k
      BY <1>1, <2>2, <2>3
    <2>5. Outcome(p) = IF log[last].op = "delete" THEN None ELSE Record("active", log[last].name)
      BY <1>3, SMTT(60) DEF Outcome
    <2> QED BY <2>1, <2>4, <2>5 DEF Effect
  <1> QED BY <1>2, <1>3

(* A follower at the end of the log has the projects that the log made,        *)
(* whatever restarts and redeliveries came before, unless it gave up on a      *)
(* project entry.                                                              *)
THEOREM FollowerReaches == RegistrySpec => []FollowerReachesLog
  <1>1. RegistrySpec => []LInv
    BY InductiveInvariant, LogInit, LogNext, PTL DEF RegistrySpec
  <1> QED BY <1>1, InductiveInvariant, LogEnd, PTL

LEMMA OwnersNext ==
  IInv /\ owners \subseteq Projects /\ [RegistryNext]_registryVars => (owners \subseteq Projects)'
  <1> SUFFICES ASSUME IInv, owners \subseteq Projects, [RegistryNext]_registryVars
               PROVE  owners' \subseteq Projects
    OBVIOUS
  <1>1. CASE UNCHANGED owners
    BY <1>1
  <1>2. ASSUME NEW p \in Projects, owners' = owners \cup {p} PROVE owners' \subseteq Projects
    BY <1>2
  <1>3. ApplyCreateProject => Entry.p \in Projects /\ owners' = owners \cup {Entry.p}
    BY EntryIsTyped DEF IInv, ApplyCreateProject
  <1>4. \/ UNCHANGED owners \/ ApplyCreateProject
        \/ \E p \in Projects : owners' = owners \cup {p}
    BY DEF RegistryNext, registryVars, registry, CreateProject, HandleUpdateProject, UpdateProject,
           CrashInCreate, HandleSetOAuthProviders, DeleteProject, CrashInDelete, GetProjectEnv,
           CacheStore, Restart, Reload, SetCluster, Promote, ApplyUnwired, ApplyUpdateProject,
           ApplyDeleteProject, ApplyDocument, OpenerLooksUp, OpenerOpens, OpenerRegisters
  <1> QED BY <1>1, <1>2, <1>3, <1>4

(* The variables of the registry keep their types. *)
THEOREM TypeCorrect == RegistrySpec => []RegistryTypeOK
  <1>1. RegistrySpec => []LInv
    BY InductiveInvariant, LogInit, LogNext, PTL DEF RegistrySpec
  <1>2. RegistryInit => owners \subseteq Projects
    BY DEF RegistryInit
  <1>3. RegistrySpec => [](owners \subseteq Projects)
    BY <1>2, InductiveInvariant, OwnersNext, PTL DEF RegistrySpec
  <1>4. IInv /\ LInv /\ owners \subseteq Projects => RegistryTypeOK
    BY DEF IInv, FeedOK, RecordsOK, HandlesOK, LInv, FeedInLog, RegistryTypeOK, ProjectRecord
  <1> QED BY <1>1, <1>3, <1>4, InductiveInvariant, PTL

------------------------------------------------------------------------------
\* The meter.  A counter that flush has still to visit is not in its batch, what
\* is in the batch has grown, and what a read took from Pebble is still there.
MeterTypes ==
  /\ delta \in [Meter!Counters -> Nat] /\ totals \in [Meter!Counters -> Nat]
  /\ made \in [Meter!Counters -> Nat]
  /\ batch \in [Meter!Counters -> Nat \cup {Meter!None}]
  /\ flushing = Meter!Idle \/ flushing \subseteq Meter!Counters
  /\ counting \in [MeterReqs -> Seq(Meter!Counters)]
  /\ reading \in [MeterReqs -> [counter : Meter!Counters \cup {"none"}, pebble : Nat]]
  /\ lost \subseteq Meter!Counters
MeterInv ==
  /\ MeterTypes
  /\ \A c \in Meter!Counters :
       /\ flushing = Meter!Idle \/ c \in flushing => batch[c] = Meter!None
       /\ batch[c] # Meter!None => totals[c] <= batch[c]
       /\ Meter!Batched(c) + delta[c] <= made[c]
       /\ c \notin lost => Meter!Batched(c) + delta[c] = made[c]
  /\ \A r \in MeterReqs : reading[r] # Meter!NotReading =>
       reading[r].counter \in Meter!Counters /\ reading[r].pebble <= totals[reading[r].counter]

LEMMA MeterStart == Meter!MeterInit => MeterInv
  BY DEF Meter!MeterInit, MeterInv, MeterTypes, Meter!Zero, Meter!NoBatch, Meter!Batched, Meter!InBatch,
         Meter!None, Meter!NotReading

LEMMA CountsStay ==
  ASSUME MeterInv, flushing' = flushing, batch' = batch, totals' = totals, delta' = delta, made' = made, lost' = lost,
         counting' \in [MeterReqs -> Seq(Meter!Counters)],
         reading' \in [MeterReqs -> [counter : Meter!Counters \cup {"none"}, pebble : Nat]],
         \A r \in MeterReqs : reading'[r] # Meter!NotReading =>
            reading'[r].counter \in Meter!Counters /\ reading'[r].pebble <= totals[reading'[r].counter]
  PROVE  MeterInv'
  <1>1. MeterTypes'
    BY DEF MeterInv, MeterTypes, Meter!Counters, Meter!None, Meter!Idle, Meter!Access
  <1>2. \A c \in Meter!Counters : Meter!Batched(c)' = Meter!Batched(c)
    BY DEF Meter!Batched, Meter!InBatch, Meter!Counters, Meter!None, Meter!Access
  <1> QED BY <1>1, <1>2 DEF MeterInv, Meter!Counters, Meter!None, Meter!Idle, Meter!Access, Meter!NotReading

LEMMA CounterIs ==
  ASSUME MeterInv, NEW c \in Meter!Counters
  PROVE  /\ delta[c] \in Nat /\ totals[c] \in Nat /\ made[c] \in Nat /\ batch[c] \in Nat \cup {Meter!None}
         /\ Meter!None \notin Nat
         /\ Meter!Batched(c) = (IF batch[c] # Meter!None THEN batch[c] ELSE totals[c])
  BY DEF MeterInv, MeterTypes, Meter!Batched, Meter!InBatch, Meter!None

\* Requests that do not add to a counter.
LEMMA ReadersKeep ==
  ASSUME MeterInv, NEW r \in MeterReqs,
         \/ \E m \in Methods : Meter!MeteringMiddleware(r, m) \/ Meter!projectLogger(r, m)
         \/ Meter!ReadDelta(r) \/ Meter!handleProjectUsage(r) \/ Meter!handleUsageStats(r)
  PROVE  MeterInv'
  <1>1. MeterTypes
    BY DEF MeterInv
  <1>2. ASSUME NEW m \in Methods, Meter!MeteringMiddleware(r, m) \/ Meter!projectLogger(r, m) PROVE MeterInv'
    <2>1. {"total", m, Meter!Access(m)} \subseteq Meter!Counters
      BY DEF Meter!Counters
    <2>2. <<"total", m>> \in Seq(Meter!Counters) /\ Append(<<"total", m>>, Meter!Access(m)) \in Seq(Meter!Counters)
      BY <2>1
    <2>3. PICK list \in Seq(Meter!Counters) : Meter!Counts(r, list)
      BY <1>2, <2>2 DEF Meter!MeteringMiddleware, Meter!projectLogger, Meter!adminLogger, Meter!IncMethod
    <2>4. /\ flushing' = flushing /\ batch' = batch /\ totals' = totals /\ delta' = delta /\ made' = made
          /\ lost' = lost /\ reading' = reading /\ counting' = [counting EXCEPT ![r] = list]
      BY <2>3 DEF Meter!Counts
    <2>5. counting' \in [MeterReqs -> Seq(Meter!Counters)]
      BY <1>1, <2>4 DEF MeterTypes
    <2> QED BY <1>1, <2>4, <2>5, CountsStay DEF MeterInv, MeterTypes
  <1>3. ASSUME Meter!ReadDelta(r) PROVE MeterInv'
    <2>1. /\ flushing' = flushing /\ batch' = batch /\ totals' = totals /\ delta' = delta /\ made' = made
          /\ lost' = lost /\ counting' = counting /\ reading' = [reading EXCEPT ![r] = Meter!NotReading]
      BY <1>3 DEF Meter!ReadDelta
    <2>2. Meter!NotReading \in [counter : Meter!Counters \cup {"none"}, pebble : Nat]
      BY DEF Meter!NotReading
    <2>3. /\ reading' \in [MeterReqs -> [counter : Meter!Counters \cup {"none"}, pebble : Nat]]
          /\ \A q \in MeterReqs : q # r => reading'[q] = reading[q]
          /\ reading'[r] = Meter!NotReading
      BY <1>1, <2>1, <2>2 DEF MeterTypes
    <2>4. \A q \in MeterReqs : reading'[q] # Meter!NotReading =>
            reading'[q].counter \in Meter!Counters /\ reading'[q].pebble <= totals[reading'[q].counter]
      BY <2>3 DEF MeterInv
    <2> QED BY <1>1, <2>1, <2>3, <2>4, CountsStay DEF MeterTypes
  <1>4. ASSUME NEW c \in Meter!Counters, Meter!readInt64WithDelta(r, c) PROVE MeterInv'
    <2> DEFINE new == [counter |-> c, pebble |-> totals[c]]
    <2>1. /\ flushing' = flushing /\ batch' = batch /\ totals' = totals /\ delta' = delta /\ made' = made
          /\ lost' = lost /\ counting' = counting /\ reading' = [reading EXCEPT ![r] = new]
      BY <1>4 DEF Meter!readInt64WithDelta
    <2>2. new \in [counter : Meter!Counters \cup {"none"}, pebble : Nat] /\ new.counter = c /\ new.pebble = totals[c]
      BY <1>1 DEF MeterTypes
    <2> HIDE DEF new
    <2>3. /\ reading' \in [MeterReqs -> [counter : Meter!Counters \cup {"none"}, pebble : Nat]]
          /\ \A q \in MeterReqs : q # r => reading'[q] = reading[q]
          /\ reading'[r] = new
      BY <1>1, <2>1, <2>2 DEF MeterTypes
    <2>4. totals[c] <= totals[c]
      BY CounterIs
    <2>5. \A q \in MeterReqs : reading'[q] # Meter!NotReading =>
            reading'[q].counter \in Meter!Counters /\ reading'[q].pebble <= totals[reading'[q].counter]
      BY <2>2, <2>3, <2>4 DEF MeterInv
    <2> QED BY <1>1, <2>1, <2>3, <2>5, CountsStay DEF MeterTypes
  <1>5. "total" \in Meter!Counters
    BY DEF Meter!Counters
  <1> QED BY <1>2, <1>3, <1>4, <1>5 DEF Meter!handleProjectUsage, Meter!handleUsageStats, Meter!Get

\* A step that changes one counter, or nothing of the counters but flushing.
LEMMA CounterMoves ==
  ASSUME MeterInv, MeterTypes', NEW c \in Meter!Counters, totals' = totals, reading' = reading, lost' = lost,
         \A x \in Meter!Counters \ {c} : delta'[x] = delta[x] /\ made'[x] = made[x] /\ batch'[x] = batch[x],
         \A x \in Meter!Counters : flushing' = Meter!Idle \/ x \in flushing' => batch'[x] = Meter!None,
         batch'[c] # Meter!None => totals[c] <= batch'[c],
         (IF batch'[c] # Meter!None THEN batch'[c] ELSE totals[c]) + delta'[c]
            = (IF batch[c] # Meter!None THEN batch[c] ELSE totals[c]) + delta[c] + (made'[c] - made[c])
  PROVE  MeterInv'
  <1>1. \A x \in Meter!Counters : Meter!Batched(x)' = (IF batch'[x] # Meter!None THEN batch'[x] ELSE totals'[x])
    BY DEF Meter!Batched, Meter!InBatch, Meter!Counters, Meter!None, Meter!Access
  <1>2. ASSUME NEW x \in Meter!Counters
        PROVE  /\ batch'[x] # Meter!None => totals'[x] <= batch'[x]
               /\ Meter!Batched(x)' + delta'[x] <= made'[x]
               /\ x \notin lost' => Meter!Batched(x)' + delta'[x] = made'[x]
    <2>1. /\ batch[x] # Meter!None => totals[x] <= batch[x]
          /\ Meter!Batched(x) + delta[x] <= made[x]
          /\ x \notin lost => Meter!Batched(x) + delta[x] = made[x]
      BY DEF MeterInv
    <2>2. CASE x # c
      BY <1>1, <2>1, <2>2, CounterIs
    <2>3. CASE x = c
      <3>1. delta'[c] \in Nat /\ made'[c] \in Nat /\ batch'[c] \in Nat \cup {Meter!None}
        BY DEF MeterTypes, Meter!Counters, Meter!None, Meter!Access
      <3> QED BY <1>1, <2>1, <2>3, <3>1, CounterIs
    <2> QED BY <2>2, <2>3
  <1>3. \A r \in MeterReqs : reading'[r] # Meter!NotReading =>
          reading'[r].counter \in Meter!Counters /\ reading'[r].pebble <= totals'[reading'[r].counter]
    BY DEF MeterInv
  <1> QED BY <1>2, <1>3 DEF MeterInv, Meter!Counters, Meter!None, Meter!Idle, Meter!Access, Meter!NotReading

LEMMA IncKeeps == ASSUME MeterInv, NEW r \in MeterReqs, Meter!Inc(r) PROVE MeterInv'
  <1> DEFINE c == Head(counting[r])
  <1>1. MeterTypes
    BY DEF MeterInv
  <1>2. /\ counting[r] # <<>> /\ delta' = [delta EXCEPT ![c] = delta[c] + 1] /\ made' = [made EXCEPT ![c] = made[c] + 1]
        /\ counting' = [counting EXCEPT ![r] = Tail(counting[r])]
        /\ totals' = totals /\ batch' = batch /\ flushing' = flushing /\ reading' = reading /\ lost' = lost
    BY DEF Meter!Inc
  <1>3. counting[r] \in Seq(Meter!Counters)
    BY <1>1 DEF MeterTypes
  <1>4. PICK k \in Meter!Counters : k = c
    BY <1>2, <1>3
  <1>5. Tail(counting[r]) \in Seq(Meter!Counters)
    BY <1>2, <1>3
  <1> HIDE DEF c
  <1>6. /\ delta \in [Meter!Counters -> Nat] /\ made \in [Meter!Counters -> Nat]
        /\ delta' = [delta EXCEPT ![k] = delta[k] + 1] /\ made' = [made EXCEPT ![k] = made[k] + 1]
    BY <1>1, <1>2, <1>4 DEF MeterTypes
  <1>7. delta' \in [Meter!Counters -> Nat] /\ made' \in [Meter!Counters -> Nat]
    BY <1>6
  <1>8. counting' \in [MeterReqs -> Seq(Meter!Counters)]
    BY <1>1, <1>2, <1>5 DEF MeterTypes
  <1>9. MeterTypes'
    BY <1>1, <1>2, <1>7, <1>8 DEF MeterTypes, Meter!Counters, Meter!None, Meter!Idle, Meter!Access
  <1>10. \A x \in Meter!Counters : flushing' = Meter!Idle \/ x \in flushing' => batch'[x] = Meter!None
    BY <1>2 DEF MeterInv
  <1>11. batch'[k] # Meter!None => totals[k] <= batch'[k]
    BY <1>2 DEF MeterInv
  <1>12. delta'[k] = delta[k] + 1 /\ made'[k] = made[k] + 1
    BY <1>6
  <1>13. (IF batch'[k] # Meter!None THEN batch'[k] ELSE totals[k]) + delta'[k]
            = (IF batch[k] # Meter!None THEN batch[k] ELSE totals[k]) + delta[k] + (made'[k] - made[k])
    BY <1>2, <1>12, CounterIs
  <1> QED BY <1>2, <1>6, <1>9, <1>10, <1>11, <1>13, CounterMoves

LEMMA FlushKeeps == ASSUME MeterInv, Meter!flush PROVE MeterInv'
  <1>1. MeterTypes /\ flushing = Meter!Idle /\ flushing' = Meter!Counters
    BY DEF MeterInv, Meter!flush
  <1>2. /\ totals' = totals /\ batch' = batch /\ delta' = delta /\ made' = made /\ reading' = reading /\ lost' = lost
        /\ counting' = counting
    BY DEF Meter!flush
  <1>3. MeterTypes'
    BY <1>1, <1>2 DEF MeterTypes, Meter!Counters, Meter!None, Meter!Idle, Meter!Access
  <1>4. "total" \in Meter!Counters
    BY DEF Meter!Counters
  <1>5. \A x \in Meter!Counters : batch'[x] = Meter!None
    BY <1>1, <1>2 DEF MeterInv
  <1>6. delta["total"] \in Nat /\ totals["total"] \in Nat /\ made["total"] \in Nat
    BY <1>4, CounterIs
  <1> QED BY <1>2, <1>3, <1>4, <1>5, <1>6, CounterMoves

LEMMA CollectKeeps == ASSUME MeterInv, NEW c \in Meter!Counters, Meter!Collect(c) PROVE MeterInv'
  <1>1. MeterTypes /\ c \in flushing
    BY DEF MeterInv, Meter!Collect
  <1>2. /\ delta' = [delta EXCEPT ![c] = 0] /\ flushing' = flushing \ {c}
        /\ batch' = IF delta[c] = 0 THEN batch ELSE [batch EXCEPT ![c] = totals[c] + delta[c]]
        /\ totals' = totals /\ made' = made /\ reading' = reading /\ lost' = lost /\ counting' = counting
    BY DEF Meter!Collect
  <1>3. delta[c] \in Nat /\ totals[c] \in Nat /\ made[c] \in Nat /\ Meter!None \notin Nat /\ batch[c] = Meter!None
    BY <1>1, CounterIs DEF MeterInv
  <1>4. /\ delta' \in [Meter!Counters -> Nat] /\ batch' \in [Meter!Counters -> Nat \cup {Meter!None}]
        /\ delta'[c] = 0 /\ batch'[c] = (IF delta[c] = 0 THEN Meter!None ELSE totals[c] + delta[c])
        /\ \A x \in Meter!Counters \ {c} : delta'[x] = delta[x] /\ batch'[x] = batch[x]
    BY <1>1, <1>2, <1>3 DEF MeterTypes
  <1>5. flushing' \subseteq Meter!Counters
    BY <1>1, <1>2, TenancyAssumption DEF MeterTypes, Meter!Idle
  <1>6. MeterTypes'
    BY <1>1, <1>2, <1>4, <1>5 DEF MeterTypes, Meter!Counters, Meter!None, Meter!Idle, Meter!Access
  <1>7. ASSUME NEW x \in Meter!Counters, flushing' = Meter!Idle \/ x \in flushing' PROVE batch'[x] = Meter!None
    <2>1. flushing' # Meter!Idle
      <3>1. "idle" \notin Meter!Counters
        BY TenancyAssumption DEF Meter!Counters, Meter!Access
      <3> QED BY <1>5, <3>1 DEF Meter!Idle
    <2>2. x # c /\ x \in flushing
      BY <1>2, <1>7, <2>1
    <2> QED BY <1>4, <2>2 DEF MeterInv
  <1>8. batch'[c] # Meter!None => totals[c] <= batch'[c]
    BY <1>3, <1>4
  <1>9. (IF batch'[c] # Meter!None THEN batch'[c] ELSE totals[c]) + delta'[c]
            = (IF batch[c] # Meter!None THEN batch[c] ELSE totals[c]) + delta[c] + (made'[c] - made[c])
    <2>1. made'[c] - made[c] = 0
      BY <1>2, <1>3
    <2>2. CASE delta[c] = 0
      BY <1>3, <1>4, <2>1, <2>2
    <2>3. CASE delta[c] # 0
      <3>1. totals[c] + delta[c] \in Nat
        BY <1>3
      <3> QED BY <1>3, <1>4, <2>1, <2>3, <3>1
    <2> QED BY <2>2, <2>3
  <1> QED BY <1>2, <1>4, <1>6, <1>7, <1>8, <1>9, CounterMoves

LEMMA CommitKeeps == ASSUME MeterInv, Meter!Commit PROVE MeterInv'
  <1>1. MeterTypes /\ flushing' = Meter!Idle /\ batch' = Meter!NoBatch
    BY DEF MeterInv, Meter!Commit
  <1>2. delta' = delta /\ made' = made /\ reading' = reading /\ counting' = counting
    BY DEF Meter!Commit
  <1>3. \/ totals' = [c \in Meter!Counters |-> Meter!Batched(c)] /\ lost' = lost
        \/ lost' = lost \cup Meter!InBatch /\ totals' = totals
    BY DEF Meter!Commit
  <1>4. Meter!InBatch \subseteq Meter!Counters
    BY DEF Meter!InBatch
  <1>5. ASSUME NEW c \in Meter!Counters
        PROVE  /\ batch'[c] = Meter!None /\ totals'[c] \in Nat /\ totals[c] <= totals'[c]
               /\ totals'[c] + delta[c] <= made[c] /\ (c \notin lost' => totals'[c] + delta[c] = made[c])
    <2>1. /\ batch[c] # Meter!None => totals[c] <= batch[c]
          /\ Meter!Batched(c) + delta[c] <= made[c]
          /\ c \notin lost => Meter!Batched(c) + delta[c] = made[c]
      BY DEF MeterInv
    <2>2. batch'[c] = Meter!None
      BY <1>1 DEF Meter!NoBatch
    <2>3. CASE totals' = [x \in Meter!Counters |-> Meter!Batched(x)] /\ lost' = lost
      <3>1. totals'[c] = Meter!Batched(c)
        BY <2>3
      <3> QED BY <2>1, <2>2, <2>3, <3>1, CounterIs
    <2>4. CASE lost' = lost \cup Meter!InBatch /\ totals' = totals
      <3>1. c \notin lost' => batch[c] = Meter!None /\ c \notin lost
        BY <2>4 DEF Meter!InBatch
      <3> QED BY <2>1, <2>2, <2>4, <3>1, CounterIs
    <2> QED BY <1>3, <2>3, <2>4
  <1>6. totals' \in [Meter!Counters -> Nat] /\ batch' \in [Meter!Counters -> Nat \cup {Meter!None}] /\ lost' \subseteq Meter!Counters
    <2>1. totals' \in [Meter!Counters -> Nat]
      <3>1. totals' = [c \in Meter!Counters |-> totals'[c]]
        BY <1>1, <1>3 DEF MeterTypes
      <3> QED BY <1>5, <3>1
    <2>2. batch' \in [Meter!Counters -> Nat \cup {Meter!None}]
      BY <1>1 DEF Meter!NoBatch
    <2> QED BY <1>1, <1>3, <1>4, <2>1, <2>2 DEF MeterTypes
  <1>7. MeterTypes'
    BY <1>1, <1>2, <1>6 DEF MeterTypes, Meter!Counters, Meter!None, Meter!Idle, Meter!Access
  <1>8. \A c \in Meter!Counters : Meter!Batched(c)' = totals'[c]
    BY <1>5 DEF Meter!Batched, Meter!InBatch, Meter!Counters, Meter!None, Meter!Access
  <1>9. ASSUME NEW r \in MeterReqs, reading'[r] # Meter!NotReading
        PROVE  reading'[r].counter \in Meter!Counters /\ reading'[r].pebble <= totals'[reading'[r].counter]
    <2>1. reading[r] \in [counter : Meter!Counters \cup {"none"}, pebble : Nat]
      BY <1>1 DEF MeterTypes
    <2>2. PICK k \in Meter!Counters : k = reading[r].counter /\ reading[r].pebble <= totals[k]
      BY <1>2, <1>9 DEF MeterInv
    <2>3. totals[k] \in Nat /\ totals'[k] \in Nat /\ totals[k] <= totals'[k]
      BY <1>5, CounterIs
    <2> QED BY <1>2, <2>1, <2>2, <2>3
  <1>10. \A c \in Meter!Counters :
       /\ batch'[c] = Meter!None /\ Meter!Batched(c)' + delta'[c] <= made'[c]
       /\ c \notin lost' => Meter!Batched(c)' + delta'[c] = made'[c]
    BY <1>2, <1>5, <1>8
  <1> QED BY <1>7, <1>9, <1>10 DEF MeterInv, Meter!Counters, Meter!None, Meter!Idle, Meter!Access, Meter!NotReading

LEMMA CrashKeeps == ASSUME MeterInv, Meter!CrashMeter PROVE MeterInv'
  <1>1. MeterTypes /\ flushing' = Meter!Idle /\ batch' = Meter!NoBatch /\ delta' = Meter!Zero
    BY DEF MeterInv, Meter!CrashMeter
  <1>2. totals' = totals /\ made' = made /\ lost' = lost \cup Meter!InBatch \cup {c \in Meter!Counters : delta[c] > 0}
    BY DEF Meter!CrashMeter
  <1>3. counting' = [r \in MeterReqs |-> <<>>] /\ reading' = [r \in MeterReqs |-> Meter!NotReading]
    BY DEF Meter!CrashMeter
  <1>4. MeterTypes'
    <2>1. lost' \subseteq Meter!Counters
      BY <1>1, <1>2 DEF MeterTypes, Meter!InBatch
    <2>2. delta' \in [Meter!Counters -> Nat] /\ batch' \in [Meter!Counters -> Nat \cup {Meter!None}]
      BY <1>1 DEF Meter!Zero, Meter!NoBatch
    <2>3. /\ counting' \in [MeterReqs -> Seq(Meter!Counters)]
          /\ reading' \in [MeterReqs -> [counter : Meter!Counters \cup {"none"}, pebble : Nat]]
      BY <1>3 DEF Meter!NotReading
    <2> QED BY <1>1, <1>2, <2>1, <2>2, <2>3 DEF MeterTypes, Meter!Counters, Meter!None, Meter!Idle, Meter!Access
  <1>5. ASSUME NEW c \in Meter!Counters
        PROVE  /\ batch'[c] = Meter!None /\ Meter!Batched(c)' + delta'[c] <= made'[c]
               /\ c \notin lost' => Meter!Batched(c)' + delta'[c] = made'[c]
    <2>1. /\ batch[c] # Meter!None => totals[c] <= batch[c]
          /\ Meter!Batched(c) + delta[c] <= made[c]
          /\ c \notin lost => Meter!Batched(c) + delta[c] = made[c]
      BY DEF MeterInv
    <2>2. batch'[c] = Meter!None /\ delta'[c] = 0
      BY <1>1 DEF Meter!NoBatch, Meter!Zero
    <2>3. Meter!Batched(c)' = totals[c]
      BY <1>2, <2>2 DEF Meter!Batched, Meter!InBatch, Meter!Counters, Meter!None, Meter!Access
    <2>4. c \notin lost' => c \notin lost /\ batch[c] = Meter!None /\ delta[c] = 0
      BY <1>2, CounterIs DEF Meter!InBatch
    <2> QED BY <1>2, <2>1, <2>2, <2>3, <2>4, CounterIs
  <1>6. \A r \in MeterReqs : reading'[r] = Meter!NotReading
    BY <1>3
  <1> QED BY <1>4, <1>5, <1>6 DEF MeterInv, Meter!Counters, Meter!None, Meter!Idle, Meter!Access, Meter!NotReading

LEMMA MeterKeeps == MeterInv /\ (Meter!MeterNext \/ UNCHANGED meterVars) => MeterInv'
  <1> SUFFICES ASSUME MeterInv, Meter!MeterNext \/ UNCHANGED meterVars PROVE MeterInv'
    OBVIOUS
  <1>1. ASSUME NEW r \in MeterReqs,
               \/ \E m \in Methods : Meter!MeteringMiddleware(r, m) \/ Meter!projectLogger(r, m)
               \/ Meter!ReadDelta(r) \/ Meter!handleProjectUsage(r) \/ Meter!handleUsageStats(r)
        PROVE  MeterInv'
    BY <1>1, ReadersKeep
  <1>2. ASSUME NEW r \in MeterReqs, Meter!Inc(r) PROVE MeterInv'
    BY <1>2, IncKeeps
  <1>3. ASSUME NEW c \in Meter!Counters, Meter!Collect(c) PROVE MeterInv'
    BY <1>3, CollectKeeps
  <1>4. CASE UNCHANGED meterVars
    <2>1. MeterTypes
      BY DEF MeterInv
    <2> QED BY <1>4, <2>1, CountsStay DEF meterVars, MeterInv, MeterTypes
  <1>5. CASE Meter!flush \/ Meter!Commit \/ Meter!CrashMeter
    BY <1>5, FlushKeeps, CommitKeeps, CrashKeeps
  <1> QED BY <1>1, <1>2, <1>3, <1>4, <1>5 DEF Meter!MeterNext

LEMMA MeterSays == MeterInv => Meter!CountsAddUp
  <1> SUFFICES ASSUME MeterInv PROVE Meter!CountsAddUp
    OBVIOUS
  <1>1. ASSUME NEW r \in MeterReqs, reading[r] # Meter!NotReading PROVE Meter!Answer(r) <= made[reading[r].counter]
    <2>1. reading[r] \in [counter : Meter!Counters \cup {"none"}, pebble : Nat]
      BY DEF MeterInv, MeterTypes
    <2>2. PICK k \in Meter!Counters : k = reading[r].counter /\ reading[r].pebble <= totals[k]
      BY <1>1 DEF MeterInv
    <2>3. Meter!Batched(k) + delta[k] <= made[k] /\ totals[k] <= Meter!Batched(k) /\ Meter!Batched(k) \in Nat
      BY CounterIs DEF MeterInv
    <2> QED BY <2>1, <2>2, <2>3, CounterIs DEF Meter!Answer
  <1>2. \A c \in Meter!Counters \ lost : Meter!Batched(c) + delta[c] = made[c]
    BY DEF MeterInv
  <1> QED BY <1>1, <1>2 DEF Meter!CountsAddUp

------------------------------------------------------------------------------
\* Events.  A sum counts the pairs of an index and a number up to what stands there.
LEMMA PairIn ==
  ASSUME NEW S, NEW f \in [S -> Nat], NEW p
  PROVE  p \in Events!Pairs(f) <=> \E x \in S : \E n \in 1..f[x] : p = <<x, n>>
  BY DEF Events!Pairs

LEMMA SumCounts == ASSUME NEW f PROVE Events!Sum(f) = Cardinality(Events!Pairs(f))
  BY DEF Events!Sum, Events!Cardinality, Cardinality

LEMMA UpTo == ASSUME NEW n \in Nat PROVE IsFiniteSet(1..n) /\ Cardinality(1..n) = n
  <1>1. 1 \in Int /\ n \in Int
    OBVIOUS
  <1>2. IsFiniteSet(1..n) /\ Cardinality(1..n) = IF 1 > n THEN 0 ELSE n - 1 + 1
    BY <1>1, FS_Interval
  <1> QED BY <1>2

LEMMA NoPairs == ASSUME NEW S, NEW f \in [S -> Nat], \A x \in S : f[x] = 0 PROVE IsFiniteSet(Events!Pairs(f)) /\ Events!Sum(f) = 0
  <1>1. Events!Pairs(f) = {}
    <2> SUFFICES ASSUME NEW p \in Events!Pairs(f) PROVE FALSE
      OBVIOUS
    <2>1. PICK x \in S : \E n \in 1..f[x] : p = <<x, n>>
      BY PairIn
    <2> QED BY <2>1
  <1> QED BY <1>1, FS_EmptySet, SumCounts

LEMMA PairsOfOne ==
  ASSUME NEW S, NEW f \in [S -> Nat], NEW c \in S, NEW rest,
         IsFiniteSet(rest), rest \cap ({c} \X (1..f[c])) = {}, Events!Pairs(f) = rest \cup ({c} \X (1..f[c]))
  PROVE  IsFiniteSet(Events!Pairs(f)) /\ Events!Sum(f) = Cardinality(rest) + f[c] /\ Cardinality(rest) \in Nat
  <1> DEFINE own == {c} \X (1..f[c])
  <1>1. f[c] \in Nat
    OBVIOUS
  <1>2. IsFiniteSet(1..f[c]) /\ Cardinality(1..f[c]) = f[c]
    BY <1>1, UpTo
  <1>3. IsFiniteSet({c}) /\ Cardinality({c}) = 1
    BY FS_Singleton
  <1>4. IsFiniteSet(own) /\ Cardinality(own) = Cardinality({c}) * Cardinality(1..f[c])
    BY <1>2, <1>3, FS_Product
  <1>5. Cardinality(own) = f[c]
    BY <1>1, <1>2, <1>3, <1>4
  <1>6. rest \cap own = {} /\ Events!Pairs(f) = rest \cup own
    OBVIOUS
  <1> HIDE DEF own
  <1>7. /\ IsFiniteSet(rest \cup own)
        /\ Cardinality(rest \cup own) = Cardinality(rest) + Cardinality(own) - Cardinality(rest \cap own)
    BY <1>4, FS_Union
  <1>8. Cardinality({}) = 0 /\ Cardinality(rest) \in Nat
    BY FS_EmptySet, FS_CardinalityType
  <1>9. Cardinality(Events!Pairs(f)) = Cardinality(rest) + f[c]
    <2>1. Cardinality(rest \cap own) = 0
      BY <1>6, <1>8
    <2>2. Cardinality(Events!Pairs(f)) = Cardinality(rest \cup own)
      BY <1>6
    <2> QED BY <1>1, <1>5, <1>7, <1>8, <2>1, <2>2
  <1>10. Events!Sum(f) = Cardinality(Events!Pairs(f))
    BY SumCounts
  <1> QED BY <1>6, <1>7, <1>8, <1>9, <1>10

LEMMA SumMoves ==
  ASSUME NEW S, NEW f \in [S -> Nat], NEW g \in [S -> Nat], NEW c \in S, \A x \in S \ {c} : g[x] = f[x],
         IsFiniteSet(Events!Pairs(f))
  PROVE  /\ IsFiniteSet(Events!Pairs(g)) /\ Events!Sum(f) \in Nat /\ Events!Sum(g) \in Nat
         /\ Events!Sum(g) + f[c] = Events!Sum(f) + g[c]
  <1> DEFINE rest == {p \in Events!Pairs(f) : p[1] # c}
  <1>1. IsFiniteSet(rest)
    BY FS_Subset
  <1>2. ASSUME NEW h \in [S -> Nat], \A x \in S \ {c} : h[x] = f[x]
        PROVE  rest \cap ({c} \X (1..h[c])) = {} /\ Events!Pairs(h) = rest \cup ({c} \X (1..h[c]))
    <2>1. ASSUME NEW p PROVE p \in Events!Pairs(h) <=> p \in rest \/ p \in {c} \X (1..h[c])
      <3>1. p \in {c} \X (1..h[c]) <=> \E n \in 1..h[c] : p = <<c, n>>
        OBVIOUS
      <3>2. p \in Events!Pairs(h) <=> \E x \in S : \E n \in 1..h[x] : p = <<x, n>>
        BY PairIn
      <3>3. p \in Events!Pairs(f) <=> \E x \in S : \E n \in 1..f[x] : p = <<x, n>>
        BY PairIn
      <3>4. p \in rest <=> \E x \in S \ {c} : \E n \in 1..h[x] : p = <<x, n>>
        <4>1. ASSUME p \in rest PROVE \E x \in S \ {c} : \E n \in 1..h[x] : p = <<x, n>>
          <5>1. PICK x \in S : \E n \in 1..f[x] : p = <<x, n>>
            BY <4>1, <3>3
          <5>2. x # c
            BY <4>1, <5>1
          <5> QED BY <5>1, <5>2, <1>2
        <4>2. ASSUME NEW x \in S \ {c}, NEW n \in 1..h[x], p = <<x, n>> PROVE p \in rest
          <5>1. n \in 1..f[x]
            BY <1>2
          <5>2. p \in Events!Pairs(f)
            BY <3>3, <4>2, <5>1
          <5> QED BY <4>2, <5>2
        <4> QED BY <4>1, <4>2
      <3> HIDE DEF rest
      <3> QED BY <3>1, <3>2, <3>4
    <2>2. rest \cap ({c} \X (1..h[c])) = {}
      OBVIOUS
    <2> HIDE DEF rest
    <2> QED BY <2>1, <2>2
  <1> HIDE DEF rest
  <1>3. /\ IsFiniteSet(Events!Pairs(f)) /\ Events!Sum(f) = Cardinality(rest) + f[c] /\ Cardinality(rest) \in Nat
    <2>1. rest \cap ({c} \X (1..f[c])) = {} /\ Events!Pairs(f) = rest \cup ({c} \X (1..f[c]))
      BY <1>2
    <2> QED BY <1>1, <2>1, PairsOfOne
  <1>4. /\ IsFiniteSet(Events!Pairs(g)) /\ Events!Sum(g) = Cardinality(rest) + g[c] /\ Cardinality(rest) \in Nat
    <2>1. rest \cap ({c} \X (1..g[c])) = {} /\ Events!Pairs(g) = rest \cup ({c} \X (1..g[c]))
      BY <1>2
    <2> QED BY <1>1, <2>1, PairsOfOne
  <1>5. f[c] \in Nat /\ g[c] \in Nat
    OBVIOUS
  <1> QED BY <1>3, <1>4, <1>5

\* Nothing is under way but in a request that reads or commits the count.
Ingest == [pc : {"rest", "make", "collect", "flush", "read", "commit"}, store : Events!Ids, batch : Nat, read : Nat]
EventTypes ==
  /\ {newest, current} \subseteq Events!Ids /\ total \in Nat /\ accepted \in Nat /\ excused \in BOOLEAN
  /\ memory \in [Events!Ids -> Nat] /\ ingests \in [EventReqs -> Ingest]
Batches == [r \in EventReqs |-> ingests[r].batch]
Taken(s) == \E r \in EventReqs : ingests[r].pc = "flush" /\ ingests[r].store = s
EventInv ==
  /\ EventTypes
  /\ IsFiniteSet(Events!Pairs(memory)) /\ IsFiniteSet(Events!Pairs(Batches))
  /\ \A r \in EventReqs : ingests[r].batch # 0 => ingests[r].pc \in {"read", "commit"}
  /\ ~excused => total + Events!Sum(memory) + Events!Sum(Batches) = accepted
  /\ \A s \in Events!Ids : memory[s] >= BatchSize => Taken(s)

LEMMA EventStart == Events!AnalyticsInit => EventInv
  <1> SUFFICES ASSUME Events!AnalyticsInit PROVE EventInv
    OBVIOUS
  <1>1. /\ newest = 0 /\ current = 0 /\ memory = [s \in Events!Ids |-> 0] /\ total = 0
        /\ ingests = [r \in EventReqs |-> Events!Rest] /\ accepted = 0 /\ excused = FALSE
    BY DEF Events!AnalyticsInit
  <1>2. 0 \in Events!Ids /\ Events!Rest \in Ingest /\ Events!Rest.batch = 0
    BY TenancyAssumption DEF Events!Ids, Events!Rest, Ingest
  <1>3. EventTypes
    BY <1>1, <1>2 DEF EventTypes
  <1>4. \A r \in EventReqs : ingests[r].batch = 0
    BY <1>1, <1>2
  <1>5. Batches \in [EventReqs -> Nat] /\ \A r \in EventReqs : Batches[r] = 0
    BY <1>4 DEF Batches
  <1>6. IsFiniteSet(Events!Pairs(memory)) /\ Events!Sum(memory) = 0
    BY <1>1, NoPairs
  <1>7. IsFiniteSet(Events!Pairs(Batches)) /\ Events!Sum(Batches) = 0
    BY <1>5, NoPairs
  <1>8. \A s \in Events!Ids : ~(memory[s] >= BatchSize)
    BY <1>1, TenancyAssumption
  <1> QED BY <1>1, <1>3, <1>4, <1>6, <1>7, <1>8 DEF EventInv

LEMMA Balance ==
  ASSUME NEW t \in Nat, NEW t2 \in Nat, NEW m \in Nat, NEW m2 \in Nat, NEW b \in Nat, NEW b2 \in Nat,
         NEW a \in Nat, NEW a2 \in Nat, NEW f \in Nat, NEW f2 \in Nat, NEW g \in Nat, NEW g2 \in Nat,
         t + f + g = a, t2 + m2 + b2 + a = a2 + t + m + b, f2 + m = f + m2, g2 + b = g + b2
  PROVE  t2 + f2 + g2 = a2
  OBVIOUS

\* A step that changes what one request and one store hold.
LEMMA EventMoves ==
  ASSUME EventInv, NEW r \in EventReqs, NEW new \in Ingest, NEW s \in Events!Ids, NEW m \in Nat,
         ingests' = [ingests EXCEPT ![r] = new], memory' = [memory EXCEPT ![s] = m],
         {newest', current'} \subseteq Events!Ids, total' \in Nat, accepted' \in Nat, excused' \in BOOLEAN,
         new.batch # 0 => new.pc \in {"read", "commit"},
         ~excused' => /\ ~excused
                      /\ total' + m + new.batch + accepted = accepted' + total + memory[s] + ingests[r].batch,
         m >= BatchSize => Taken(s)',
         ingests[r].pc = "flush" => ingests[r].store = s /\ m < BatchSize
  PROVE  EventInv'
  <1>1. EventTypes
    BY DEF EventInv
  <1>2. /\ ingests[r] \in Ingest /\ memory[s] \in Nat /\ ingests'[r] = new /\ memory'[s] = m
        /\ \A q \in EventReqs \ {r} : ingests'[q] = ingests[q]
        /\ \A x \in Events!Ids \ {s} : memory'[x] = memory[x]
        /\ total \in Nat /\ accepted \in Nat
    BY <1>1 DEF EventTypes
  <1>3. memory' \in [Events!Ids -> Nat] /\ ingests' \in [EventReqs -> Ingest] /\ memory \in [Events!Ids -> Nat]
    BY <1>1 DEF EventTypes
  <1>4. EventTypes'
    BY <1>3 DEF EventTypes, Events!Ids, Ingest
  <1>5. Batches' = [q \in EventReqs |-> ingests'[q].batch]
    BY DEF Batches
  <1>6. /\ Batches \in [EventReqs -> Nat] /\ Batches' \in [EventReqs -> Nat]
        /\ \A q \in EventReqs \ {r} : Batches'[q] = Batches[q]
        /\ Batches[r] = ingests[r].batch /\ Batches'[r] = new.batch
    <2>1. \A q \in EventReqs : ingests[q].batch \in Nat /\ ingests'[q].batch \in Nat
      BY <1>1, <1>3 DEF EventTypes, Ingest
    <2> QED BY <1>2, <1>5, <2>1 DEF Batches
  <1>7. /\ IsFiniteSet(Events!Pairs(memory')) /\ Events!Sum(memory) \in Nat /\ Events!Sum(memory') \in Nat
        /\ Events!Sum(memory') + memory[s] = Events!Sum(memory) + m
    <2>1. IsFiniteSet(Events!Pairs(memory))
      BY DEF EventInv
    <2>2. PICK f, g : f = memory /\ g = memory'
      OBVIOUS
    <2>3. /\ f \in [Events!Ids -> Nat] /\ g \in [Events!Ids -> Nat] /\ \A x \in Events!Ids \ {s} : g[x] = f[x]
          /\ f[s] = memory[s] /\ g[s] = m /\ IsFiniteSet(Events!Pairs(f))
      BY <1>2, <1>3, <2>1, <2>2
    <2>4. /\ IsFiniteSet(Events!Pairs(g)) /\ Events!Sum(f) \in Nat /\ Events!Sum(g) \in Nat
          /\ Events!Sum(g) + f[s] = Events!Sum(f) + g[s]
      BY <2>3, SumMoves
    <2> QED BY <2>2, <2>3, <2>4
  <1>8. /\ IsFiniteSet(Events!Pairs(Batches')) /\ Events!Sum(Batches) \in Nat /\ Events!Sum(Batches') \in Nat
        /\ Events!Sum(Batches') + ingests[r].batch = Events!Sum(Batches) + new.batch
    <2>1. IsFiniteSet(Events!Pairs(Batches))
      BY DEF EventInv
    <2> HIDE DEF Batches
    <2>2. PICK f, g : f = Batches /\ g = Batches'
      OBVIOUS
    <2> QED BY <1>6, <2>1, <2>2, SumMoves
  <1>9. \A q \in EventReqs : ingests'[q].batch # 0 => ingests'[q].pc \in {"read", "commit"}
    BY <1>2 DEF EventInv
  <1>10. ASSUME ~excused' PROVE total' + Events!Sum(memory') + Events!Sum(Batches') = accepted'
    <2>1. total + Events!Sum(memory) + Events!Sum(Batches) = accepted
      BY <1>10 DEF EventInv
    <2>2. total' + m + new.batch + accepted = accepted' + total + memory[s] + ingests[r].batch
      BY <1>10
    <2>3. ingests[r].batch \in Nat /\ new.batch \in Nat
      BY <1>2 DEF Ingest
    <2>4. total' \in Nat /\ accepted' \in Nat
      OBVIOUS
    <2>5. /\ memory[s] \in Nat /\ total \in Nat /\ accepted \in Nat /\ Events!Sum(memory) \in Nat
          /\ Events!Sum(memory') \in Nat /\ Events!Sum(Batches) \in Nat /\ Events!Sum(Batches') \in Nat
          /\ Events!Sum(memory') + memory[s] = Events!Sum(memory) + m
          /\ Events!Sum(Batches') + ingests[r].batch = Events!Sum(Batches) + new.batch
      BY <1>2, <1>7, <1>8
    <2>6. PICK t, t2, v, b, a, a2, f, f2, g, g2 :
            /\ t = total /\ t2 = total' /\ v = memory[s] /\ b = ingests[r].batch /\ a = accepted /\ a2 = accepted'
            /\ f = Events!Sum(memory) /\ f2 = Events!Sum(memory') /\ g = Events!Sum(Batches) /\ g2 = Events!Sum(Batches')
      OBVIOUS
    <2>7. PICK b2 : b2 = new.batch
      OBVIOUS
    <2>8. /\ t \in Nat /\ t2 \in Nat /\ v \in Nat /\ b \in Nat /\ b2 \in Nat /\ a \in Nat /\ a2 \in Nat
          /\ f \in Nat /\ f2 \in Nat /\ g \in Nat /\ g2 \in Nat
      BY <2>3, <2>4, <2>5, <2>6, <2>7
    <2>9. t + f + g = a /\ t2 + m + b2 + a = a2 + t + v + b /\ f2 + v = f + m /\ g2 + b = g + b2
      BY <2>1, <2>2, <2>5, <2>6, <2>7
    <2>10. t2 + f2 + g2 = a2
      BY <2>8, <2>9, Balance
    <2> QED BY <2>6, <2>10
  <1>11. ASSUME NEW x \in Events!Ids, memory'[x] >= BatchSize PROVE Taken(x)'
    <2>1. CASE x = s
      BY <1>2, <1>11, <2>1
    <2>2. CASE x # s
      <3>1. PICK q \in EventReqs : ingests[q].pc = "flush" /\ ingests[q].store = x
        BY <1>2, <1>11, <2>2 DEF EventInv, Taken
      <3>2. q # r
        BY <2>2, <3>1
      <3> QED BY <1>2, <3>1, <3>2 DEF Taken
    <2> QED BY <2>1, <2>2
  <1> QED BY <1>4, <1>7, <1>8, <1>9, <1>10, <1>11 DEF EventInv, Events!Ids

\* A step of a request that takes nothing out of memory, and puts nothing there.
LEMMA EventGoesOn ==
  ASSUME EventInv, NEW r \in EventReqs, NEW new \in Ingest,
         ingests' = [ingests EXCEPT ![r] = new], memory' = memory, accepted' = accepted,
         {newest', current'} \subseteq Events!Ids, total' \in Nat, excused' \in BOOLEAN,
         new.batch # 0 => new.pc \in {"read", "commit"}, ingests[r].pc # "flush",
         ~excused' => ~excused /\ total' + new.batch = total + ingests[r].batch
  PROVE  EventInv'
  <1>1. EventTypes /\ 0 \in Events!Ids
    BY TenancyAssumption DEF EventInv, Events!Ids
  <1>2. /\ memory[0] \in Nat /\ memory' = [memory EXCEPT ![0] = memory[0]] /\ accepted \in Nat /\ total \in Nat
        /\ ingests[r] \in Ingest /\ \A q \in EventReqs : q # r => ingests'[q] = ingests[q]
    BY <1>1 DEF EventTypes
  <1>3. new.batch \in Nat /\ ingests[r].batch \in Nat
    BY <1>2 DEF Ingest
  <1>4. memory[0] >= BatchSize => Taken(0)'
    <2> SUFFICES ASSUME memory[0] >= BatchSize PROVE Taken(0)'
      OBVIOUS
    <2>1. PICK q \in EventReqs : ingests[q].pc = "flush" /\ ingests[q].store = 0
      BY <1>1 DEF EventInv, Taken
    <2>2. ingests'[q] = ingests[q]
      BY <1>2, <2>1
    <2> QED BY <2>1, <2>2 DEF Taken
  <1>5. ~excused' => /\ ~excused
                     /\ total' + memory[0] + new.batch + accepted = accepted' + total + memory[0] + ingests[r].batch
    BY <1>2, <1>3
  <1>6. accepted' \in Nat
    BY <1>2
  <1> QED BY <1>1, <1>2, <1>4, <1>5, <1>6, EventMoves

LEMMA IngestKeeps == ASSUME EventInv, NEW r \in EventReqs, Events!Ingest(r) PROVE EventInv'
  <1> DEFINE s == ingests[r].store
             new == IF Events!Full(memory[s] + 1) THEN [ingests[r] EXCEPT !.pc = "flush"] ELSE Events!Rest
  <1>1. EventTypes /\ 0 \in Events!Ids
    BY TenancyAssumption DEF EventInv, Events!Ids
  <1>2. /\ ingests[r] \in Ingest /\ s \in Events!Ids /\ memory[s] \in Nat /\ accepted \in Nat /\ total \in Nat
    BY <1>1 DEF EventTypes, Ingest
  <1>3. /\ ingests[r].pc = "collect" /\ memory' = [memory EXCEPT ![s] = memory[s] + 1] /\ accepted' = accepted + 1
        /\ newest' = newest /\ current' = current /\ total' = total /\ excused' = excused
    BY DEF Events!Ingest
  <1>4. ingests' = [ingests EXCEPT ![r] = new]
    BY DEF Events!Ingest
  <1>5. ingests[r].batch = 0
    BY <1>2, <1>3 DEF EventInv, Ingest
  <1>6. new \in Ingest /\ new.batch = 0 /\ ((new.pc = "flush" /\ new.store = s) \/ memory[s] + 1 < BatchSize)
    <2>1. Events!Rest \in Ingest /\ Events!Rest.batch = 0
      BY <1>1 DEF Events!Rest, Ingest
    <2>2. CASE memory[s] + 1 >= BatchSize
      <3>1. new = [ingests[r] EXCEPT !.pc = "flush"]
        BY <2>2 DEF Events!Full
      <3> HIDE DEF new
      <3> QED BY <1>2, <1>5, <3>1 DEF Ingest
    <2>3. CASE ~(memory[s] + 1 >= BatchSize)
      <3>1. new = Events!Rest
        BY <2>3 DEF Events!Full
      <3>2. memory[s] + 1 < BatchSize
        BY <1>2, <2>3, TenancyAssumption
      <3> HIDE DEF new, s
      <3> QED BY <2>1, <3>1, <3>2
    <2> QED BY <2>2, <2>3
  <1> HIDE DEF new
  <1>7. PICK k \in Events!Ids : k = s
    BY <1>2
  <1> HIDE DEF s
  <1>8. memory[k] + 1 >= BatchSize => Taken(k)'
    <2>1. ingests'[r] = new
      BY <1>1, <1>4 DEF EventTypes
    <2>2. memory[k] + 1 >= BatchSize => ~(memory[k] + 1 < BatchSize)
      BY <1>2, <1>7, TenancyAssumption
    <2> QED BY <1>6, <1>7, <2>1, <2>2 DEF Taken
  <1>9. /\ memory' = [memory EXCEPT ![k] = memory[k] + 1] /\ memory[k] + 1 \in Nat
        /\ {newest', current'} \subseteq Events!Ids /\ total' \in Nat /\ accepted' \in Nat /\ excused' \in BOOLEAN
    BY <1>1, <1>2, <1>3, <1>7 DEF EventTypes
  <1>10. ~excused' => /\ ~excused
                      /\ total' + (memory[k] + 1) + new.batch + accepted
                           = accepted' + total + memory[k] + ingests[r].batch
    BY <1>2, <1>3, <1>5, <1>6, <1>7
  <1>11. ingests[r].pc # "flush" /\ new.batch = 0 /\ new \in Ingest
    BY <1>3, <1>6
  <1> QED BY <1>4, <1>8, <1>9, <1>10, <1>11, EventMoves

LEMMA EventFlushKeeps == ASSUME EventInv, NEW r \in EventReqs, Events!flush(r) PROVE EventInv'
  <1> DEFINE s == ingests[r].store
             new == IF memory[s] = 0 THEN Events!Rest ELSE [ingests[r] EXCEPT !.pc = "read", !.batch = memory[s]]
  <1>1. EventTypes /\ 0 \in Events!Ids
    BY TenancyAssumption DEF EventInv, Events!Ids
  <1>2. /\ ingests[r] \in Ingest /\ s \in Events!Ids /\ memory[s] \in Nat /\ accepted \in Nat /\ total \in Nat
    BY <1>1 DEF EventTypes, Ingest
  <1>3. /\ ingests[r].pc = "flush" /\ memory' = [memory EXCEPT ![s] = 0] /\ accepted' = accepted
        /\ newest' = newest /\ current' = current /\ total' = total /\ excused' = excused
    BY DEF Events!flush
  <1>4. ingests' = [ingests EXCEPT ![r] = new]
    BY DEF Events!flush
  <1>5. ingests[r].batch = 0
    BY <1>2, <1>3 DEF EventInv, Ingest
  <1>6. new \in Ingest /\ new.batch = memory[s] /\ (new.batch # 0 => new.pc = "read")
    <2>1. Events!Rest \in Ingest /\ Events!Rest.batch = 0
      BY <1>1 DEF Events!Rest, Ingest
    <2>2. PICK i \in Ingest, n \in Nat : i = ingests[r] /\ n = memory[s]
      BY <1>2
    <2> DEFINE change == [i EXCEPT !.pc = "read", !.batch = n]
    <2>3. change \in Ingest /\ change.batch = n /\ change.pc = "read"
      BY DEF Ingest
    <2>4. change = [ingests[r] EXCEPT !.pc = "read", !.batch = memory[s]]
      BY <2>2
    <2>5. CASE memory[s] = 0
      BY <2>1, <2>5
    <2>6. CASE memory[s] # 0
      <3>1. new = change
        BY <2>4, <2>6
      <3> HIDE DEF new, s, change
      <3> QED BY <2>3, <2>2, <3>1
    <2> QED BY <2>5, <2>6
  <1> HIDE DEF new
  <1>7. PICK k \in Events!Ids : k = s
    BY <1>2
  <1>8. ingests[r].store = k
    BY <1>7
  <1> HIDE DEF s
  <1>9. /\ memory' = [memory EXCEPT ![k] = 0] /\ ~(0 >= BatchSize) /\ 0 < BatchSize
        /\ {newest', current'} \subseteq Events!Ids /\ total' \in Nat /\ accepted' \in Nat /\ excused' \in BOOLEAN
    BY <1>1, <1>2, <1>3, <1>7, TenancyAssumption DEF EventTypes
  <1>10. ~excused' => /\ ~excused
                      /\ total' + 0 + new.batch + accepted = accepted' + total + memory[k] + ingests[r].batch
    BY <1>2, <1>3, <1>5, <1>6, <1>7
  <1> QED BY <1>4, <1>6, <1>8, <1>9, <1>10, EventMoves

LEMMA RequestKeeps ==
  ASSUME EventInv, NEW r \in EventReqs,
         Events!handleIngestEvents(r) \/ Events!CacheStore(r) \/ Events!ReadCount(r) \/ Events!CommitCount(r)
  PROVE  EventInv'
  <1>1. EventTypes /\ 0 \in Events!Ids
    BY TenancyAssumption DEF EventInv, Events!Ids
  <1>2. /\ ingests[r] \in Ingest /\ ingests[r].batch \in Nat /\ accepted \in Nat /\ total \in Nat /\ newest \in Events!Ids
        /\ excused \in BOOLEAN /\ current \in Events!Ids
    BY <1>1 DEF EventTypes, Ingest
  <1>3. ingests[r].batch # 0 => ingests[r].pc \in {"read", "commit"}
    BY DEF EventInv
  <1>4. CASE Events!handleIngestEvents(r)
    <2> DEFINE new == IF current = 0 THEN [Events!Rest EXCEPT !.pc = "make"]
                      ELSE [Events!Rest EXCEPT !.pc = "collect", !.store = current]
    <2>1. /\ ingests[r].pc = "rest" /\ memory' = memory /\ accepted' = accepted
          /\ newest' = newest /\ current' = current /\ total' = total /\ excused' = excused
          /\ ingests' = [ingests EXCEPT ![r] = new]
      BY <1>4 DEF Events!handleIngestEvents
    <2>2. new \in Ingest /\ new.batch = 0
      BY <1>1, <1>2 DEF Events!Rest, Ingest
    <2> HIDE DEF new
    <2>3. ~excused' => ~excused /\ total' + new.batch = total + ingests[r].batch
      BY <1>2, <1>3, <2>1, <2>2
    <2>4. {newest', current'} \subseteq Events!Ids /\ total' \in Nat /\ excused' \in BOOLEAN
      BY <1>2, <2>1
    <2> QED BY <2>1, <2>2, <2>3, <2>4, EventGoesOn
  <1>5. CASE Events!CacheStore(r)
    <2> DEFINE new == [Events!Rest EXCEPT !.pc = "collect", !.store = newest + 1]
    <2>1. /\ ingests[r].pc = "make" /\ memory' = memory /\ accepted' = accepted /\ newest < MaxStores
          /\ newest' = newest + 1 /\ current' = newest + 1 /\ total' = total /\ excused' = (excused \/ current # 0)
          /\ ingests' = [ingests EXCEPT ![r] = new]
      BY <1>5 DEF Events!CacheStore, Events!NewStore
    <2>2. newest + 1 \in Events!Ids
      BY <1>2, <2>1, TenancyAssumption DEF Events!Ids
    <2>3. new \in Ingest /\ new.batch = 0
      BY <2>2 DEF Events!Rest, Ingest
    <2> HIDE DEF new
    <2>4. ~excused' => ~excused /\ total' + new.batch = total + ingests[r].batch
      BY <1>2, <1>3, <2>1, <2>3
    <2>5. {newest', current'} \subseteq Events!Ids /\ total' \in Nat /\ excused' \in BOOLEAN
      BY <1>2, <2>1, <2>2
    <2> QED BY <2>1, <2>3, <2>4, <2>5, EventGoesOn
  <1>6. CASE Events!ReadCount(r)
    <2> DEFINE new == [ingests[r] EXCEPT !.pc = "commit", !.read = total]
    <2>1. /\ ingests[r].pc = "read" /\ memory' = memory /\ accepted' = accepted
          /\ newest' = newest /\ current' = current /\ total' = total /\ excused' = excused
          /\ ingests' = [ingests EXCEPT ![r] = new]
      BY <1>6 DEF Events!ReadCount
    <2>4. new \in Ingest /\ new.batch = ingests[r].batch /\ new.pc = "commit"
      BY <1>2 DEF Ingest
    <2> HIDE DEF new
    <2>5. ~excused' => ~excused /\ total' + new.batch = total + ingests[r].batch
      BY <1>2, <2>1, <2>4
    <2>6. {newest', current'} \subseteq Events!Ids /\ total' \in Nat /\ excused' \in BOOLEAN
      BY <1>2, <2>1
    <2> QED BY <2>1, <2>4, <2>5, <2>6, EventGoesOn
  <1>7. CASE Events!CommitCount(r)
    <2>1. /\ ingests[r].pc = "commit" /\ memory' = memory /\ accepted' = accepted
          /\ newest' = newest /\ current' = current /\ ingests' = [ingests EXCEPT ![r] = Events!Rest]
      BY <1>7 DEF Events!CommitCount
    <2>2. \/ total' = ingests[r].read + ingests[r].batch /\ excused' = (excused \/ total # ingests[r].read)
          \/ excused' = TRUE /\ total' = total
      BY <1>7 DEF Events!CommitCount
    <2>3. ingests[r].read \in Nat /\ ingests[r].batch \in Nat /\ total \in Nat /\ excused \in BOOLEAN
      BY <1>2 DEF Ingest
    <2>4. Events!Rest \in Ingest /\ Events!Rest.batch = 0
      BY <1>1 DEF Events!Rest, Ingest
    <2>5. total' \in Nat /\ excused' \in BOOLEAN /\ (~excused' => ~excused /\ total' = total + ingests[r].batch)
      <3>1. CASE total' = ingests[r].read + ingests[r].batch /\ excused' = (excused \/ total # ingests[r].read)
        <4>1. total' \in Nat
          BY <2>3, <3>1
        <4>2. excused' \in BOOLEAN
          BY <3>1, Zenon
        <4>3. ~excused' => ~excused /\ total = ingests[r].read
          BY <3>1, Zenon
        <4> QED BY <2>3, <3>1, <4>1, <4>2, <4>3
      <3>2. CASE excused' = TRUE /\ total' = total
        BY <2>3, <3>2
      <3> QED BY <2>2, <3>1, <3>2
    <2>6. total + ingests[r].batch \in Nat
      BY <2>3
    <2>7. {newest', current'} \subseteq Events!Ids
      BY <1>2, <2>1
    <2>8. ~excused' => ~excused /\ total' + Events!Rest.batch = total + ingests[r].batch
      BY <2>4, <2>5, <2>6
    <2> QED BY <2>1, <2>4, <2>5, <2>7, <2>8, EventGoesOn
  <1> QED BY <1>4, <1>5, <1>6, <1>7

LEMMA EventsStay ==
  ASSUME EventInv, {newest', current'} \subseteq Events!Ids, memory' = memory, total' = total, ingests' = ingests,
         accepted' = accepted, excused' = excused
  PROVE  EventInv'
  <1>1. EventTypes'
    BY DEF EventInv, EventTypes, Events!Ids, Ingest
  <1>2. Batches' = Batches
    BY DEF Batches
  <1>3. \A s : Taken(s)' <=> Taken(s)
    BY DEF Taken
  <1> QED BY <1>1, <1>2, <1>3 DEF EventInv, Events!Ids

LEMMA EventCrashKeeps == ASSUME EventInv, Events!AnalyticsCrash PROVE EventInv'
  <1>1. EventTypes /\ 0 \in Events!Ids
    BY TenancyAssumption DEF EventInv, Events!Ids
  <1>2. /\ current' = 0 /\ memory' = [s \in Events!Ids |-> 0] /\ excused' = TRUE
        /\ ingests' = [r \in EventReqs |-> Events!Rest] /\ newest' = newest /\ total' = total /\ accepted' = accepted
    BY DEF Events!AnalyticsCrash
  <1>3. Events!Rest \in Ingest /\ Events!Rest.batch = 0
    BY <1>1 DEF Events!Rest, Ingest
  <1>4. EventTypes'
    BY <1>1, <1>2, <1>3 DEF EventTypes, Events!Ids, Ingest
  <1>5. \A r \in EventReqs : ingests'[r].batch = 0
    BY <1>2, <1>3
  <1>6. Batches' \in [EventReqs -> Nat] /\ \A r \in EventReqs : Batches'[r] = 0
    <2>1. Batches' = [r \in EventReqs |-> ingests'[r].batch]
      BY DEF Batches
    <2> QED BY <1>5, <2>1
  <1>7. IsFiniteSet(Events!Pairs(memory'))
    BY <1>2, NoPairs
  <1>8. IsFiniteSet(Events!Pairs(Batches'))
    BY <1>6, NoPairs
  <1>9. \A s \in Events!Ids : ~(memory'[s] >= BatchSize)
    BY <1>2, TenancyAssumption
  <1> QED BY <1>2, <1>4, <1>5, <1>7, <1>8, <1>9 DEF EventInv, Events!Ids

LEMMA EventsKeep == EventInv /\ (Events!AnalyticsNext \/ UNCHANGED eventsVars) => EventInv'
  <1> SUFFICES ASSUME EventInv, Events!AnalyticsNext \/ UNCHANGED eventsVars PROVE EventInv'
    OBVIOUS
  <1>1. EventTypes
    BY DEF EventInv
  <1>2. ASSUME NEW r \in EventReqs, Events!Ingest(r) \/ Events!flush(r) PROVE EventInv'
    BY <1>2, IngestKeeps, EventFlushKeeps
  <1>3. ASSUME NEW r \in EventReqs,
               Events!handleIngestEvents(r) \/ Events!CacheStore(r) \/ Events!ReadCount(r) \/ Events!CommitCount(r)
        PROVE  EventInv'
    BY <1>3, RequestKeeps
  <1>4. CASE Events!getProjectAnalyticsStore
    <2>1. {newest', current'} \subseteq Events!Ids
      BY <1>1, <1>4, TenancyAssumption DEF Events!getProjectAnalyticsStore, EventTypes, Events!Ids
    <2> QED BY <1>4, <2>1, EventsStay DEF Events!getProjectAnalyticsStore
  <1>5. CASE UNCHANGED eventsVars
    BY <1>1, <1>5, EventsStay DEF eventsVars, EventTypes
  <1>6. CASE Events!AnalyticsCrash
    BY <1>6, EventCrashKeeps
  <1> QED BY <1>2, <1>3, <1>4, <1>5, <1>6 DEF Events!AnalyticsNext

LEMMA EventsSay == EventInv => Events!EventsAreCounted
  BY DEF EventInv, Events!EventsAreCounted, Events!Summary, Events!InMemory, Events!UnderWay, Batches, Taken

------------------------------------------------------------------------------
\* The audit trail.  What of an entry is on disk is what is no longer to write,
\* but for entries a clearing took.
InSeq(s) == {s[i] : i \in DOMAIN s}
Once(s) == \A i, j \in DOMAIN s : s[i] = s[j] => i = j
Outcomes == {"none", "logging", "logged", "failed"}
Request == [pc : {"idle", "clearing", "cleared", "telling", "answered", "over"}, read : SUBSET Trail!Entries]
TrailTypes ==
  /\ onDisk \in [Trail!Entries -> SUBSET Trail!Records] /\ needs \in [Trail!Entries -> SUBSET Trail!Records]
  /\ writing \in [Trail!Entries -> Seq(Trail!Records)] /\ outcome \in [Trail!Entries -> Outcomes]
  /\ requests \in [AuditReqs -> Request] /\ lastClear \in AuditReqs \cup {"nobody"}
Begins(e) == outcome[e] = "none" => onDisk[e] = {} /\ \A r \in AuditReqs : e \notin requests[r].read
Whole(e) ==
  /\ outcome[e] = "logging" => onDisk[e] = needs[e] \ InSeq(writing[e])
  /\ outcome[e] = "logged" => onDisk[e] = needs[e]
EntryOK(e) ==
  /\ Begins(e) /\ "entry" \in needs[e]
  /\ outcome[e] = "logging" => Once(writing[e]) /\ InSeq(writing[e]) \subseteq needs[e]
  /\ e \notin overtaken => Whole(e) \/ (outcome[e] = "logged" /\ onDisk[e] = {})
RequestOK(r) ==
  /\ requests[r].pc \in {"idle", "clearing", "cleared"} => outcome[<<r, "handler">>] = "none"
  /\ requests[r].pc # "over" => outcome[<<r, "logger">>] = "none"
LastWhole == lastClear # "nobody" => Whole(<<lastClear, "handler">>)
TrailInv ==
  /\ TrailTypes
  /\ \A e \in Trail!Entries : EntryOK(e)
  /\ \A r \in AuditReqs : RequestOK(r)
  /\ LastWhole

LEMMA TailLoses ==
  ASSUME NEW s \in Seq(Trail!Records), s # <<>>, Once(s)
  PROVE  /\ Tail(s) \in Seq(Trail!Records) /\ Once(Tail(s)) /\ Head(s) \in InSeq(s) /\ Head(s) \in Trail!Records
         /\ InSeq(Tail(s)) = InSeq(s) \ {Head(s)} /\ (Len(s) = 1 => InSeq(Tail(s)) = {})
  <1>1. Len(s) \in Nat /\ Len(s) > 0 /\ DOMAIN s = 1..Len(s) /\ Head(s) = s[1] /\ \A i \in 1..Len(s) : s[i] \in Trail!Records
    OBVIOUS
  <1>2. PICK t : t = Tail(s)
    OBVIOUS
  <1>3. /\ t \in Seq(Trail!Records) /\ Len(t) = Len(s) - 1 /\ DOMAIN t = 1..Len(s) - 1
        /\ \A i \in 1..Len(s) - 1 : t[i] = s[i + 1]
    BY <1>1, <1>2
  <1>4. Once(t)
    <2> SUFFICES ASSUME NEW i \in 1..Len(s) - 1, NEW j \in 1..Len(s) - 1, t[i] = t[j] PROVE i = j
      BY <1>3 DEF Once
    <2>1. i + 1 \in 1..Len(s) /\ j + 1 \in 1..Len(s) /\ s[i + 1] = s[j + 1]
      BY <1>1, <1>3
    <2>2. i + 1 = j + 1
      BY <1>1, <2>1 DEF Once
    <2> QED BY <1>1, <2>2
  <1>5. ASSUME NEW x PROVE x \in InSeq(t) <=> x \in InSeq(s) \ {Head(s)}
    <2>1. ASSUME x \in InSeq(t) PROVE x \in InSeq(s) \ {Head(s)}
      <3>1. PICK i \in 1..Len(s) - 1 : x = t[i]
        BY <1>3, <2>1 DEF InSeq
      <3>2. i + 1 \in 1..Len(s) /\ x = s[i + 1] /\ i + 1 # 1 /\ 1 \in 1..Len(s)
        BY <1>1, <1>3, <3>1
      <3>3. x # s[1]
        BY <1>1, <3>2 DEF Once
      <3> QED BY <1>1, <3>2, <3>3 DEF InSeq
    <2>2. ASSUME x \in InSeq(s) \ {Head(s)} PROVE x \in InSeq(t)
      <3>1. PICK i \in 1..Len(s) : x = s[i]
        BY <1>1, <2>2 DEF InSeq
      <3>2. i # 1
        BY <1>1, <2>2, <3>1
      <3>3. i - 1 \in 1..Len(s) - 1 /\ (i - 1) + 1 = i
        BY <1>1, <3>1, <3>2
      <3>4. t[i - 1] = x
        BY <1>3, <3>1, <3>3
      <3> QED BY <1>3, <3>3, <3>4 DEF InSeq
    <2> QED BY <2>1, <2>2
  <1>6. Head(s) \in InSeq(s) /\ Head(s) \in Trail!Records
    BY <1>1 DEF InSeq
  <1>7. Len(s) = 1 => InSeq(t) = {}
    <2> SUFFICES ASSUME Len(s) = 1, NEW x \in InSeq(t) PROVE FALSE
      OBVIOUS
    <2>1. PICK i \in 1..Len(s) - 1 : x = t[i]
      BY <1>3 DEF InSeq
    <2> QED BY <2>1
  <1> QED BY <1>2, <1>3, <1>4, <1>5, <1>6, <1>7

LEMMA WholeLogs ==
  /\ Trail!Targeted \in Seq(Trail!Records) /\ Once(Trail!Targeted) /\ "entry" \in InSeq(Trail!Targeted)
  /\ Trail!Untargeted \in Seq(Trail!Records) /\ Once(Trail!Untargeted) /\ "entry" \in InSeq(Trail!Untargeted)
  /\ InSeq(Trail!Targeted) \subseteq Trail!Records /\ InSeq(Trail!Untargeted) \subseteq Trail!Records
  <1>1. Trail!Targeted \in Seq(Trail!Records) /\ Trail!Untargeted \in Seq(Trail!Records)
    BY DEF Trail!Targeted, Trail!Untargeted, Trail!Records
  <1>2. DOMAIN Trail!Targeted = 1..4 /\ DOMAIN Trail!Untargeted = 1..3
    BY DEF Trail!Targeted, Trail!Untargeted
  <1>3. /\ Trail!Targeted[1] = "entry" /\ Trail!Targeted[2] = "admin" /\ Trail!Targeted[3] = "action"
        /\ Trail!Targeted[4] = "target"
    BY DEF Trail!Targeted
  <1>4. Trail!Untargeted[1] = "entry" /\ Trail!Untargeted[2] = "admin" /\ Trail!Untargeted[3] = "action"
    BY DEF Trail!Untargeted
  <1>5. Once(Trail!Targeted) /\ Once(Trail!Untargeted)
    BY <1>2, <1>3, <1>4 DEF Once
  <1>6. "entry" \in InSeq(Trail!Targeted) /\ "entry" \in InSeq(Trail!Untargeted)
    BY <1>2, <1>3, <1>4 DEF InSeq
  <1>7. InSeq(Trail!Targeted) \subseteq Trail!Records /\ InSeq(Trail!Untargeted) \subseteq Trail!Records
    BY <1>1 DEF InSeq
  <1> QED BY <1>1, <1>5, <1>6, <1>7

LEMMA TrailStart == Trail!AuditInit => TrailInv
  <1> SUFFICES ASSUME Trail!AuditInit PROVE TrailInv
    OBVIOUS
  <1>1. /\ onDisk = [e \in Trail!Entries |-> {}] /\ needs = [e \in Trail!Entries |-> Trail!Records]
        /\ writing = [e \in Trail!Entries |-> <<>>] /\ outcome = [e \in Trail!Entries |-> "none"]
        /\ requests = [r \in AuditReqs |-> Trail!Idle] /\ lastClear = "nobody"
    BY DEF Trail!AuditInit
  <1>2. Trail!Idle \in Request /\ Trail!Idle.read = {} /\ "none" \in Outcomes /\ "entry" \in Trail!Records
    BY DEF Trail!Idle, Request, Outcomes, Trail!Records
  <1>3. TrailTypes
    BY <1>1, <1>2 DEF TrailTypes
  <1>4. \A e \in Trail!Entries : EntryOK(e)
    BY <1>1, <1>2 DEF EntryOK, Begins, Whole
  <1>5. \A r \in AuditReqs : RequestOK(r)
    BY <1>1 DEF RequestOK, Trail!Entries
  <1>6. LastWhole
    BY <1>1 DEF LastWhole
  <1> QED BY <1>3, <1>4, <1>5, <1>6 DEF TrailInv

LEMMA LastIs == ASSUME NEW q, lastClear' = q, q # "nobody" => Whole(<<q, "handler">>)' PROVE LastWhole'
  BY DEF LastWhole, Whole

LEMMA EntryStays ==
  ASSUME NEW e \in Trail!Entries, onDisk'[e] = onDisk[e], needs'[e] = needs[e], writing'[e] = writing[e],
         outcome'[e] = outcome[e], e \in overtaken => e \in overtaken',
         outcome[e] = "none" => \A r \in AuditReqs : e \in requests'[r].read => e \in requests[r].read
  PROVE  /\ EntryOK(e) => EntryOK(e)'
         /\ Whole(e) => Whole(e)'
  <1>1. InSeq(writing'[e]) = InSeq(writing[e])
    OBVIOUS
  <1>2. Whole(e)' <=> Whole(e)
    BY <1>1 DEF Whole
  <1>3. Begins(e) => Begins(e)'
    BY DEF Begins
  <1> QED BY <1>1, <1>2, <1>3 DEF EntryOK

LEMMA LastStays ==
  ASSUME TrailInv, lastClear' = lastClear, \A e \in Trail!Entries : Whole(e) => Whole(e)' PROVE LastWhole'
  <1>1. PICK q : q = lastClear
    OBVIOUS
  <1>2. ASSUME q # "nobody" PROVE Whole(<<q, "handler">>)'
    <2>1. <<q, "handler">> \in Trail!Entries
      BY <1>1, <1>2 DEF TrailInv, TrailTypes, Trail!Entries
    <2>2. Whole(<<q, "handler">>)
      BY <1>1, <1>2 DEF TrailInv, LastWhole
    <2> QED BY <2>1, <2>2
  <1> QED BY <1>1, <1>2, LastIs

\* Steps of a request that leave the entries alone.
LEMMA RequestGoesOn ==
  ASSUME TrailInv, NEW r \in AuditReqs, NEW new \in Request, requests' = [requests EXCEPT ![r] = new],
         onDisk' = onDisk, needs' = needs, writing' = writing, outcome' = outcome, lastClear' = lastClear,
         overtaken' = overtaken, new.pc # "over" => requests[r].pc # "over",
         new.pc \in {"idle", "clearing", "cleared"} => requests[r].pc \in {"idle", "clearing", "cleared"},
         \A e \in new.read : outcome[e] # "none" \/ e \in requests[r].read
  PROVE  TrailInv'
  <1>1. TrailTypes
    BY DEF TrailInv
  <1>2. requests' \in [AuditReqs -> Request] /\ requests'[r] = new /\ \A q \in AuditReqs : q # r => requests'[q] = requests[q]
    BY <1>1 DEF TrailTypes
  <1>3. TrailTypes'
    BY <1>1, <1>2 DEF TrailTypes, Trail!Entries, Trail!Records, Outcomes, Request
  <1>4. \A e \in Trail!Entries : (EntryOK(e) => EntryOK(e)') /\ (Whole(e) => Whole(e)')
    <2> SUFFICES ASSUME NEW e \in Trail!Entries PROVE (EntryOK(e) => EntryOK(e)') /\ (Whole(e) => Whole(e)')
      OBVIOUS
    <2>1. outcome[e] = "none" => \A q \in AuditReqs : e \in requests'[q].read => e \in requests[q].read
      BY <1>2
    <2> QED BY <2>1, EntryStays
  <1>5. \A e \in Trail!Entries : EntryOK(e)'
    BY <1>4 DEF TrailInv
  <1>6. \A q \in AuditReqs : RequestOK(q)'
    BY <1>2 DEF TrailInv, RequestOK
  <1>7. LastWhole'
    BY <1>4, LastStays
  <1> QED BY <1>3, <1>5, <1>6, <1>7 DEF TrailInv, Trail!Entries

LEMMA LogBegins ==
  ASSUME TrailInv, NEW r \in AuditReqs, NEW who \in {"handler", "logger"},
         NEW list \in {Trail!Targeted, Trail!Untargeted}, Trail!BeginLog(<<r, who>>, list), outcome[<<r, who>>] = "none",
         NEW new \in Request, requests' = [requests EXCEPT ![r] = new], new.read \subseteq requests[r].read,
         onDisk' = onDisk, lastClear' = lastClear, overtaken' = overtaken, requests[r].pc # "over",
         new.pc \notin {"idle", "clearing", "cleared"}, who = "logger" => new.pc = "over"
  PROVE  TrailInv'
  <1>1. TrailTypes
    BY DEF TrailInv
  <1>2. requests' \in [AuditReqs -> Request] /\ requests'[r] = new /\ \A q \in AuditReqs : q # r => requests'[q] = requests[q]
    BY <1>1 DEF TrailTypes
  <1>3. PICK e \in Trail!Entries : e = <<r, who>>
    BY DEF Trail!Entries
  <1>4. list \in Seq(Trail!Records) /\ Once(list) /\ "entry" \in InSeq(list) /\ InSeq(list) \in SUBSET Trail!Records
    BY WholeLogs
  <1>5. PICK set : set = InSeq(list)
    OBVIOUS
  <1>6. /\ needs' = [needs EXCEPT ![e] = set] /\ writing' = [writing EXCEPT ![e] = list]
        /\ outcome' = [outcome EXCEPT ![e] = "logging"]
    BY <1>3, <1>5 DEF Trail!BeginLog, InSeq
  <1>7. /\ needs'[e] = set /\ writing'[e] = list /\ outcome'[e] = "logging"
        /\ \A f \in Trail!Entries : f # e => needs'[f] = needs[f] /\ writing'[f] = writing[f] /\ outcome'[f] = outcome[f]
    BY <1>1, <1>6 DEF TrailTypes
  <1>8. needs' \in [Trail!Entries -> SUBSET Trail!Records]
    BY <1>1, <1>4, <1>5, <1>6 DEF TrailTypes
  <1>9. writing' \in [Trail!Entries -> Seq(Trail!Records)] /\ outcome' \in [Trail!Entries -> Outcomes]
    BY <1>1, <1>4, <1>6 DEF TrailTypes, Outcomes
  <1>10. TrailTypes'
    BY <1>1, <1>2, <1>8, <1>9 DEF TrailTypes, Trail!Entries, Trail!Records, Outcomes, Request
  <1>11. EntryOK(e)' /\ Whole(e)'
    <2>1. onDisk[e] = {}
      BY <1>3 DEF TrailInv, EntryOK, Begins
    <2>2. InSeq(writing'[e]) = set /\ Once(writing'[e])
      BY <1>4, <1>5, <1>7
    <2>3. Whole(e)'
      BY <1>7, <2>1, <2>2 DEF Whole
    <2>4. Begins(e)'
      BY <1>7 DEF Begins
    <2> QED BY <1>4, <1>5, <1>7, <2>2, <2>3, <2>4 DEF EntryOK
  <1>12. ASSUME NEW f \in Trail!Entries, f # e PROVE (EntryOK(f) => EntryOK(f)') /\ (Whole(f) => Whole(f)')
    <2>1. outcome[f] = "none" => \A q \in AuditReqs : f \in requests'[q].read => f \in requests[q].read
      BY <1>2
    <2> QED BY <1>7, <1>12, <2>1, EntryStays
  <1>13. \A f \in Trail!Entries : EntryOK(f)'
    BY <1>11, <1>12 DEF TrailInv
  <1>14. \A f \in Trail!Entries : Whole(f) => Whole(f)'
    BY <1>11, <1>12
  <1>15. ASSUME NEW q \in AuditReqs PROVE RequestOK(q)'
    <2>1. CASE q = r
      <3>1. new.pc # "over" => <<r, "logger">> # e
        BY <1>3
      <3>2. <<r, "logger">> \in Trail!Entries
        BY DEF Trail!Entries
      <3>3. outcome[<<r, "logger">>] = "none"
        BY DEF TrailInv, RequestOK
      <3> QED BY <1>2, <1>7, <2>1, <3>1, <3>2, <3>3 DEF RequestOK
    <2>2. CASE q # r
      <3>1. <<q, "logger">> # e /\ <<q, "handler">> # e /\ <<q, "logger">> \in Trail!Entries /\ <<q, "handler">> \in Trail!Entries
        BY <1>3, <2>2 DEF Trail!Entries
      <3>2. RequestOK(q)
        BY DEF TrailInv
      <3> QED BY <1>2, <1>7, <2>2, <3>1, <3>2 DEF RequestOK
    <2> QED BY <2>1, <2>2
  <1>16. LastWhole'
    BY <1>14, LastStays
  <1> QED BY <1>10, <1>13, <1>15, <1>16 DEF TrailInv, Trail!Entries

\* Log, a record at a time.
LEMMA LogKeeps == ASSUME TrailInv, NEW e \in Trail!Entries, Trail!Log(e) PROVE TrailInv'
  <1>1. TrailTypes
    BY DEF TrailInv
  <1>2. /\ outcome[e] = "logging" /\ writing[e] # <<>> /\ needs' = needs /\ requests' = requests
        /\ lastClear' = lastClear /\ overtaken' = overtaken
    BY DEF Trail!Log
  <1>3. /\ \A f \in Trail!Entries : f # e => onDisk'[f] = onDisk[f] /\ writing'[f] = writing[f] /\ outcome'[f] = outcome[f]
        /\ onDisk' \in [Trail!Entries -> SUBSET Trail!Records] /\ writing' \in [Trail!Entries -> Seq(Trail!Records)]
        /\ outcome' \in [Trail!Entries -> Outcomes] /\ outcome'[e] # "none" /\ EntryOK(e)' /\ (Whole(e) => Whole(e)')
    <2>1. PICK s \in Seq(Trail!Records) : s = writing[e] /\ s # <<>>
      BY <1>1, <1>2 DEF TrailTypes
    <2>2. EntryOK(e)
      BY DEF TrailInv
    <2>3. Once(s) /\ InSeq(s) \subseteq needs[e] /\ "entry" \in needs[e] /\ (e \notin overtaken => Whole(e))
      BY <1>2, <2>1, <2>2 DEF EntryOK
    <2>4. PICK t, h : t = Tail(s) /\ h = Head(s)
      OBVIOUS
    <2>5. /\ t \in Seq(Trail!Records) /\ Once(t) /\ h \in InSeq(s) /\ h \in Trail!Records
          /\ InSeq(t) = InSeq(s) \ {h} /\ (Len(s) = 1 => InSeq(t) = {})
      BY <2>1, <2>3, <2>4, TailLoses
    <2>6. CASE /\ onDisk' = [onDisk EXCEPT ![e] = onDisk[e] \cup {h}] /\ writing' = [writing EXCEPT ![e] = t]
               /\ outcome' = [outcome EXCEPT ![e] = IF Len(s) = 1 THEN "logged" ELSE outcome[e]]
      <3>1. PICK o \in {"logged", "logging"} : o = (IF Len(s) = 1 THEN "logged" ELSE outcome[e])
        BY <1>2
      <3>2. o = "logged" => InSeq(t) = {}
        BY <1>2, <2>5, <3>1
      <3>3. /\ onDisk' \in [Trail!Entries -> SUBSET Trail!Records] /\ onDisk'[e] = onDisk[e] \cup {h}
            /\ \A f \in Trail!Entries : f # e => onDisk'[f] = onDisk[f]
        BY <1>1, <2>5, <2>6 DEF TrailTypes
      <3>4. /\ writing' \in [Trail!Entries -> Seq(Trail!Records)] /\ writing'[e] = t
            /\ \A f \in Trail!Entries : f # e => writing'[f] = writing[f]
        BY <1>1, <2>5, <2>6 DEF TrailTypes
      <3>5. /\ outcome' \in [Trail!Entries -> Outcomes] /\ outcome'[e] = o
            /\ \A f \in Trail!Entries : f # e => outcome'[f] = outcome[f]
        BY <1>1, <2>6, <3>1 DEF TrailTypes, Outcomes
      <3>6. PICK left, rest : left = InSeq(s) /\ rest = InSeq(t)
        OBVIOUS
      <3>7. InSeq(writing[e]) = left /\ InSeq(writing'[e]) = rest
        BY <2>1, <3>4, <3>6
      <3>8. Whole(e) => Whole(e)'
        <4> SUFFICES ASSUME Whole(e) PROVE Whole(e)'
          OBVIOUS
        <4>1. onDisk[e] = needs[e] \ left
          BY <1>2, <3>7 DEF Whole
        <4>2. rest = left \ {h} /\ h \in left /\ left \subseteq needs[e] /\ (o = "logged" => rest = {})
          BY <2>3, <2>5, <3>2, <3>6
        <4>3. onDisk[e] \cup {h} = needs[e] \ rest
          BY <4>1, <4>2
        <4>4. onDisk'[e] = needs[e] \ rest /\ (o = "logged" => onDisk'[e] = needs[e])
          BY <3>3, <4>2, <4>3
        <4> QED BY <1>2, <3>5, <3>7, <4>4 DEF Whole
      <3>9. Begins(e)'
        BY <3>1, <3>5 DEF Begins
      <3>10. Once(writing'[e]) /\ InSeq(writing'[e]) \subseteq needs'[e] /\ "entry" \in needs'[e]
        BY <1>2, <2>3, <2>5, <3>4
      <3>11. EntryOK(e)'
        BY <1>2, <2>3, <3>8, <3>9, <3>10 DEF EntryOK
      <3> QED BY <3>1, <3>3, <3>4, <3>5, <3>8, <3>11
    <2>7. CASE onDisk' = onDisk /\ writing' = writing /\ outcome' = [outcome EXCEPT ![e] = "failed"]
      <3>1. /\ outcome' \in [Trail!Entries -> Outcomes] /\ outcome'[e] = "failed"
            /\ \A f \in Trail!Entries : f # e => outcome'[f] = outcome[f]
        BY <1>1, <2>7 DEF TrailTypes, Outcomes
      <3>2. Whole(e)' /\ Begins(e)'
        BY <3>1 DEF Whole, Begins
      <3>3. EntryOK(e)'
        BY <1>2, <2>3, <3>1, <3>2 DEF EntryOK
      <3> QED BY <1>1, <2>7, <3>1, <3>2, <3>3 DEF TrailTypes
    <2> QED BY <2>1, <2>4, <2>6, <2>7 DEF Trail!Log
  <1>4. TrailTypes'
    BY <1>1, <1>2, <1>3 DEF TrailTypes, Trail!Entries, Trail!Records, Outcomes, Request
  <1>5. ASSUME NEW f \in Trail!Entries, f # e PROVE (EntryOK(f) => EntryOK(f)') /\ (Whole(f) => Whole(f)')
    <2>1. onDisk'[f] = onDisk[f] /\ needs'[f] = needs[f] /\ writing'[f] = writing[f] /\ outcome'[f] = outcome[f]
      BY <1>2, <1>3, <1>5
    <2> QED BY <1>2, <2>1, EntryStays
  <1>6. \A f \in Trail!Entries : EntryOK(f)'
    BY <1>3, <1>5 DEF TrailInv
  <1>7. \A f \in Trail!Entries : Whole(f) => Whole(f)'
    BY <1>3, <1>5
  <1>8. ASSUME NEW q \in AuditReqs PROVE RequestOK(q)'
    <2>1. RequestOK(q) /\ <<q, "logger">> \in Trail!Entries /\ <<q, "handler">> \in Trail!Entries
      BY DEF TrailInv, Trail!Entries
    <2>2. \A f \in Trail!Entries : outcome[f] = "none" => outcome'[f] = "none"
      BY <1>2, <1>3
    <2> QED BY <1>2, <2>1, <2>2 DEF RequestOK
  <1>9. LastWhole'
    BY <1>2, <1>7, LastStays
  <1> QED BY <1>4, <1>6, <1>8, <1>9 DEF TrailInv, Trail!Entries

LEMMA PurgeKeeps == ASSUME TrailInv, NEW r \in AuditReqs, Trail!PurgeBefore(r) PROVE TrailInv'
  <1>1. TrailTypes
    BY DEF TrailInv
  <1> DEFINE taken == requests[r].read
  <1>2. /\ requests[r].pc = "clearing" /\ needs' = needs /\ writing' = writing /\ outcome' = outcome /\ lastClear' = r
        /\ onDisk' = [e \in Trail!Entries |-> IF e \in taken THEN {} ELSE onDisk[e]]
        /\ overtaken' = overtaken \cup {e \in taken : outcome[e] = "logging"}
        /\ requests' = [requests EXCEPT ![r].pc = "cleared"]
    BY DEF Trail!PurgeBefore
  <1>3. /\ requests' \in [AuditReqs -> Request] /\ requests'[r].pc = "cleared" /\ requests'[r].read = taken
        /\ \A q \in AuditReqs : q # r => requests'[q] = requests[q]
    BY <1>1, <1>2 DEF TrailTypes, Request
  <1>4. \A q \in AuditReqs : requests'[q].read = requests[q].read
    BY <1>3
  <1> HIDE DEF taken
  <1>5. /\ onDisk' \in [Trail!Entries -> SUBSET Trail!Records]
        /\ \A e \in Trail!Entries : onDisk'[e] = (IF e \in taken THEN {} ELSE onDisk[e])
    BY <1>1, <1>2 DEF TrailTypes
  <1>6. TrailTypes'
    BY <1>1, <1>2, <1>3, <1>5 DEF TrailTypes, Trail!Entries, Trail!Records, Outcomes, Request
  <1>7. ASSUME NEW e \in Trail!Entries PROVE EntryOK(e)'
    <2>1. EntryOK(e)
      BY DEF TrailInv
    <2>2. CASE e \in taken
      <3>1. onDisk'[e] = {} /\ outcome'[e] = outcome[e]
        BY <1>2, <1>5, <2>2
      <3>2. e \in overtaken' \/ outcome[e] # "logging"
        BY <1>2, <2>2
      <3>3. outcome[e] # "none"
        BY <2>1, <2>2 DEF EntryOK, Begins, taken
      <3>4. e \notin overtaken' => Whole(e)' \/ (outcome'[e] = "logged" /\ onDisk'[e] = {})
        BY <3>1, <3>2 DEF Whole
      <3>5. Begins(e)'
        BY <3>1, <3>3 DEF Begins
      <3> QED BY <1>2, <2>1, <3>4, <3>5 DEF EntryOK
    <2>3. CASE e \notin taken
      <3>1. onDisk'[e] = onDisk[e] /\ (e \in overtaken => e \in overtaken')
        BY <1>2, <1>5, <2>3
      <3> QED BY <1>2, <1>4, <2>1, <3>1, EntryStays
    <2> QED BY <2>2, <2>3
  <1>8. ASSUME NEW q \in AuditReqs PROVE RequestOK(q)'
    <2>1. RequestOK(q)
      BY DEF TrailInv
    <2> QED BY <1>2, <1>3, <2>1 DEF RequestOK
  <1>9. LastWhole'
    <2>1. outcome'[<<r, "handler">>] = "none"
      BY <1>2 DEF TrailInv, RequestOK
    <2>2. Whole(<<r, "handler">>)'
      BY <2>1 DEF Whole
    <2> QED BY <1>2, <2>2, LastIs
  <1> QED BY <1>6, <1>7, <1>8, <1>9 DEF TrailInv, Trail!Entries

LEMMA TrailCrashKeeps == ASSUME TrailInv, Trail!AuditCrash PROVE TrailInv'
  <1>1. TrailTypes
    BY DEF TrailInv
  <1>2. /\ onDisk' = onDisk /\ needs' = needs /\ writing' = writing /\ lastClear' = lastClear /\ overtaken' = overtaken
        /\ outcome' = [e \in Trail!Entries |-> IF outcome[e] = "logging" THEN "failed" ELSE outcome[e]]
        /\ requests' = [r \in AuditReqs |-> IF requests[r] = Trail!Idle THEN Trail!Idle ELSE [Trail!Idle EXCEPT !.pc = "over"]]
    BY DEF Trail!AuditCrash
  <1>3. /\ Trail!Idle \in Request /\ Trail!Idle.read = {} /\ Trail!Idle.pc = "idle"
        /\ [Trail!Idle EXCEPT !.pc = "over"] \in Request /\ [Trail!Idle EXCEPT !.pc = "over"].read = {}
        /\ [Trail!Idle EXCEPT !.pc = "over"].pc = "over"
    BY DEF Trail!Idle, Request
  <1>4. /\ requests' \in [AuditReqs -> Request]
        /\ \A r \in AuditReqs : /\ requests'[r].read = {}
                                /\ requests'[r].pc = "over" \/ requests'[r] = requests[r]
    BY <1>2, <1>3
  <1>5. /\ outcome' \in [Trail!Entries -> Outcomes]
        /\ \A e \in Trail!Entries : outcome'[e] = (IF outcome[e] = "logging" THEN "failed" ELSE outcome[e])
    BY <1>1, <1>2 DEF TrailTypes, Outcomes
  <1>6. TrailTypes'
    BY <1>1, <1>2, <1>4, <1>5 DEF TrailTypes, Trail!Entries, Trail!Records, Outcomes, Request
  <1>7. \A e \in Trail!Entries : (EntryOK(e) => EntryOK(e)') /\ (Whole(e) => Whole(e)')
    <2> SUFFICES ASSUME NEW e \in Trail!Entries PROVE (EntryOK(e) => EntryOK(e)') /\ (Whole(e) => Whole(e)')
      OBVIOUS
    <2>1. CASE outcome[e] = "logging"
      <3>1. outcome'[e] = "failed"
        BY <1>5, <2>1
      <3>2. Whole(e)' /\ Begins(e)'
        BY <3>1 DEF Whole, Begins
      <3> QED BY <1>2, <3>1, <3>2 DEF EntryOK
    <2>2. CASE outcome[e] # "logging"
      <3>1. outcome'[e] = outcome[e]
        BY <1>5, <2>2
      <3> QED BY <1>2, <1>4, <3>1, EntryStays
    <2> QED BY <2>1, <2>2
  <1>8. \A e \in Trail!Entries : EntryOK(e)'
    BY <1>7 DEF TrailInv
  <1>9. ASSUME NEW q \in AuditReqs PROVE RequestOK(q)'
    <2>1. RequestOK(q) /\ <<q, "logger">> \in Trail!Entries /\ <<q, "handler">> \in Trail!Entries
      BY DEF TrailInv, Trail!Entries
    <2>2. \A e \in Trail!Entries : outcome[e] = "none" => outcome'[e] = "none"
      BY <1>5
    <2> QED BY <1>4, <2>1, <2>2 DEF RequestOK
  <1>10. LastWhole'
    BY <1>2, <1>7, LastStays
  <1> QED BY <1>6, <1>8, <1>9, <1>10 DEF TrailInv, Trail!Entries

LEMMA TrailRequestKeeps ==
  ASSUME TrailInv, NEW r \in AuditReqs,
         \/ Trail!Act(r) \/ \E kind \in {"project", "server"} : Trail!adminLogger(r, kind)
         \/ Trail!BeginClear(r) \/ Trail!ClearFails(r) \/ Trail!TellClear(r) \/ Trail!AnswerClear(r)
  PROVE  TrailInv'
  <1>1. TrailTypes /\ requests[r] \in Request /\ Trail!Idle.pc = "idle"
    BY DEF TrailInv, TrailTypes, Trail!Idle
  <1>2. PICK read \in SUBSET Trail!Entries, pc \in {requests[r].pc} : read = requests[r].read /\ pc = requests[r].pc
    BY <1>1 DEF Request
  <1>3. ASSUME NEW p PROVE [requests EXCEPT ![r].pc = p] = [requests EXCEPT ![r] = [pc |-> p, read |-> read]]
    <2>1. requests[r] = [pc |-> pc, read |-> read]
      BY <1>1, <1>2 DEF Request
    <2>2. [requests[r] EXCEPT !.pc = p] = [pc |-> p, read |-> read]
      BY <2>1
    <2>3. [requests EXCEPT ![r].pc = p] = [requests EXCEPT ![r] = [requests[r] EXCEPT !.pc = p]]
      OBVIOUS
    <2> QED BY <2>2, <2>3
  <1>4. CASE Trail!Act(r)
    <2>1. [pc |-> "answered", read |-> read] \in Request
      BY DEF Request
    <2>2. pc = "idle" /\ requests' = [requests EXCEPT ![r] = [pc |-> "answered", read |-> read]]
      BY <1>1, <1>2, <1>3, <1>4 DEF Trail!Act
    <2>3. /\ onDisk' = onDisk /\ needs' = needs /\ writing' = writing /\ outcome' = outcome /\ lastClear' = lastClear
          /\ overtaken' = overtaken
      BY <1>4 DEF Trail!Act
    <2> QED BY <1>2, <2>1, <2>2, <2>3, RequestGoesOn
  <1>5. CASE Trail!BeginClear(r)
    <2> DEFINE there == {e \in Trail!Entries : "entry" \in onDisk[e]}
    <2>1. [pc |-> "clearing", read |-> there] \in Request
      BY DEF Request
    <2>2. pc = "idle" /\ requests' = [requests EXCEPT ![r] = [pc |-> "clearing", read |-> there]]
      BY <1>1, <1>2, <1>5 DEF Trail!BeginClear
    <2>3. /\ onDisk' = onDisk /\ needs' = needs /\ writing' = writing /\ outcome' = outcome /\ lastClear' = lastClear
          /\ overtaken' = overtaken
      BY <1>5 DEF Trail!BeginClear
    <2>4. \A e \in there : outcome[e] # "none"
      BY DEF TrailInv, EntryOK, Begins
    <2> HIDE DEF there
    <2> QED BY <1>2, <2>1, <2>2, <2>3, <2>4, RequestGoesOn
  <1>6. CASE Trail!ClearFails(r)
    <2>1. [pc |-> "over", read |-> read] \in Request
      BY DEF Request
    <2>2. requests' = [requests EXCEPT ![r] = [pc |-> "over", read |-> read]]
      BY <1>3, <1>6 DEF Trail!ClearFails
    <2>3. /\ onDisk' = onDisk /\ needs' = needs /\ writing' = writing /\ outcome' = outcome /\ lastClear' = lastClear
          /\ overtaken' = overtaken
      BY <1>6 DEF Trail!ClearFails
    <2> QED BY <1>2, <2>1, <2>2, <2>3, RequestGoesOn
  <1>7. CASE Trail!AnswerClear(r)
    <2>1. [pc |-> "answered", read |-> read] \in Request
      BY DEF Request
    <2>2. pc = "telling" /\ requests' = [requests EXCEPT ![r] = [pc |-> "answered", read |-> read]]
      BY <1>2, <1>3, <1>7 DEF Trail!AnswerClear
    <2>3. /\ onDisk' = onDisk /\ needs' = needs /\ writing' = writing /\ outcome' = outcome /\ lastClear' = lastClear
          /\ overtaken' = overtaken
      BY <1>7 DEF Trail!AnswerClear
    <2> QED BY <1>2, <2>1, <2>2, <2>3, RequestGoesOn
  <1>8. CASE Trail!TellClear(r)
    <2>1. [pc |-> "telling", read |-> read] \in Request
      BY DEF Request
    <2>2. pc = "cleared" /\ requests' = [requests EXCEPT ![r] = [pc |-> "telling", read |-> read]]
      BY <1>2, <1>3, <1>8 DEF Trail!TellClear
    <2>3. /\ onDisk' = onDisk /\ lastClear' = lastClear /\ overtaken' = overtaken
          /\ Trail!BeginLog(<<r, "handler">>, Trail!Targeted)
      BY <1>8 DEF Trail!TellClear
    <2>4. outcome[<<r, "handler">>] = "none"
      BY <1>2, <2>2 DEF TrailInv, RequestOK
    <2> QED BY <1>2, <2>1, <2>2, <2>3, <2>4, LogBegins
  <1>9. ASSUME NEW kind, Trail!adminLogger(r, kind) PROVE TrailInv'
    <2>1. [Trail!Idle EXCEPT !.pc = "over"] = [pc |-> "over", read |-> {}] /\ [pc |-> "over", read |-> {}] \in Request
      BY DEF Trail!Idle, Request
    <2>2. pc = "answered" /\ requests' = [requests EXCEPT ![r] = [pc |-> "over", read |-> {}]]
      BY <1>2, <1>9, <2>1 DEF Trail!adminLogger
    <2>3. PICK list \in {Trail!Targeted, Trail!Untargeted} : list = Trail!deriveTarget(kind)
      BY DEF Trail!deriveTarget
    <2>4. onDisk' = onDisk /\ lastClear' = lastClear /\ overtaken' = overtaken /\ Trail!BeginLog(<<r, "logger">>, list)
      BY <1>9, <2>3 DEF Trail!adminLogger
    <2>5. outcome[<<r, "logger">>] = "none"
      BY <1>2, <2>2 DEF TrailInv, RequestOK
    <2> QED BY <1>2, <2>1, <2>2, <2>4, <2>5, LogBegins
  <1> QED BY <1>4, <1>5, <1>6, <1>7, <1>8, <1>9

LEMMA TrailKeeps == TrailInv /\ (Trail!AuditNext \/ UNCHANGED trailVars) => TrailInv'
  <1> SUFFICES ASSUME TrailInv, Trail!AuditNext \/ UNCHANGED trailVars PROVE TrailInv'
    OBVIOUS
  <1>1. ASSUME NEW e \in Trail!Entries, Trail!Log(e) PROVE TrailInv'
    BY <1>1, LogKeeps
  <1>2. ASSUME NEW r \in AuditReqs, Trail!PurgeBefore(r) PROVE TrailInv'
    BY <1>2, PurgeKeeps
  <1>3. ASSUME NEW r \in AuditReqs,
               \/ Trail!Act(r) \/ \E kind \in {"project", "server"} : Trail!adminLogger(r, kind)
               \/ Trail!BeginClear(r) \/ Trail!ClearFails(r) \/ Trail!TellClear(r) \/ Trail!AnswerClear(r)
        PROVE  TrailInv'
    BY <1>3, TrailRequestKeeps
  <1>4. CASE Trail!AuditCrash
    BY <1>4, TrailCrashKeeps
  <1>5. CASE UNCHANGED trailVars
    <2>1. /\ onDisk' = onDisk /\ needs' = needs /\ writing' = writing /\ outcome' = outcome /\ lastClear' = lastClear
          /\ overtaken' = overtaken /\ requests' = requests
      BY <1>5 DEF trailVars
    <2>2. \A e \in Trail!Entries : (EntryOK(e) => EntryOK(e)') /\ (Whole(e) => Whole(e)')
      BY <2>1, EntryStays
    <2>3. TrailTypes'
      BY <2>1 DEF TrailInv, TrailTypes, Trail!Entries, Trail!Records, Outcomes, Request
    <2>4. \A e \in Trail!Entries : EntryOK(e)'
      BY <2>2 DEF TrailInv
    <2>5. \A r \in AuditReqs : RequestOK(r)'
      BY <2>1 DEF TrailInv, RequestOK
    <2>6. LastWhole'
      BY <2>1, <2>2, LastStays
    <2> QED BY <2>3, <2>4, <2>5, <2>6 DEF TrailInv, Trail!Entries
  <1> QED BY <1>1, <1>2, <1>3, <1>4, <1>5 DEF Trail!AuditNext

LEMMA TrailSays == TrailInv => Trail!ListsAgree /\ Trail!LastClearIsTold
  <1> SUFFICES ASSUME TrailInv PROVE Trail!ListsAgree /\ Trail!LastClearIsTold
    OBVIOUS
  <1>1. Trail!ListsAgree
    <2> DEFINE settled == {e \in Trail!Entries : outcome[e] = "logged"} \ overtaken
    <2>1. ASSUME NEW e \in settled, NEW place \in Trail!Records
          PROVE  place \in onDisk[e] <=> "entry" \in onDisk[e] /\ place \in needs[e]
      <3>1. EntryOK(e) /\ outcome[e] = "logged" /\ e \notin overtaken
        BY DEF TrailInv
      <3>2. "entry" \in needs[e] /\ (onDisk[e] = needs[e] \/ onDisk[e] = {})
        BY <3>1 DEF EntryOK, Whole
      <3> QED BY <3>2
    <2>2. \A place \in Trail!Records :
            Trail!iteratePrefix(place) \cap settled = {e \in Trail!List \cap settled : place \in needs[e]}
      BY <2>1 DEF Trail!iteratePrefix, Trail!List
    <2> QED BY <2>2 DEF Trail!ListsAgree
  <1>2. Trail!LastClearIsTold
    <2> SUFFICES ASSUME lastClear # "nobody", outcome[<<lastClear, "handler">>] = "logged"
                 PROVE  <<lastClear, "handler">> \in Trail!List
      BY DEF Trail!LastClearIsTold
    <2>1. PICK e \in Trail!Entries : e = <<lastClear, "handler">>
      BY DEF TrailInv, TrailTypes, Trail!Entries
    <2>2. onDisk[e] = needs[e] /\ "entry" \in needs[e]
      BY <2>1 DEF TrailInv, LastWhole, Whole, EntryOK
    <2> QED BY <2>1, <2>2 DEF Trail!List
  <1> QED BY <1>1, <1>2

------------------------------------------------------------------------------
\* Teams.  Nobody has joined with an invitation that is open, but for the request
\* that is about to mark it.
Invitation == [status : {"pending", "accepted", "expired"}, p : TeamProjects, email : Emails, role : Teams!Roles,
               late : BOOLEAN]
TeamTypes ==
  /\ team \in [TeamProjects -> [Users -> Teams!Roles \cup {"none"}]] /\ index \in [Users -> SUBSET TeamProjects]
  /\ invites \in [Tokens -> Invitation \cup {Teams!NoInvite}] /\ accounts \in [Emails -> Users \cup {Teams!NoUser}]
  /\ drawn \subseteq Users /\ joined \in [Tokens -> SUBSET Users] /\ DOMAIN accepting = Requests
Accepts(r, t) == accepting[r].pc # "rest" /\ accepting[r].token = t
RequestsOK ==
  \A r \in Requests : \/ accepting[r] = Teams!Resting
                      \/ /\ accepting[r] \in [pc : {"add", "save"}, token : Tokens, user : Users]
                         /\ invites[accepting[r].token] # Teams!NoInvite
TokenOK(t) ==
  t \notin crowded =>
    /\ \A q, r \in Requests : Accepts(q, t) /\ Accepts(r, t) => q = r
    /\ \A r \in Requests : Accepts(r, t) /\ accepting[r].pc = "add" => joined[t] = {}
    /\ invites[t].status \in {"none", "pending"} =>
         joined[t] = {} \/ \E r \in Requests : Accepts(r, t) /\ accepting[r].pc = "save"
    /\ \A u, v \in joined[t] : u = v
TeamInv ==
  /\ TeamTypes /\ RequestsOK
  /\ Teams!IndexFollowsTeams
  /\ \A t \in Tokens : TokenOK(t)

LEMMA TeamRoles == "none" \notin Teams!Roles /\ "owner" \in Teams!Roles /\ Teams!NoInvite.status = "none"
  /\ Teams!NoInvite \notin Invitation /\ Teams!Resting.pc = "rest"
  <1>1. Teams!NoInvite.status = "none" /\ \A i \in Invitation : i.status # "none"
    BY DEF Teams!NoInvite, Invitation
  <1> QED BY <1>1 DEF Teams!Roles, Teams!Resting

LEMMA TeamStart == Teams!TeamInit => TeamInv
  <1> SUFFICES ASSUME Teams!TeamInit PROVE TeamInv
    OBVIOUS
  <1>1. /\ team = [p \in TeamProjects |-> [u \in Users |-> IF u = Teams!AnyUser THEN "owner" ELSE "none"]]
        /\ index = [u \in Users |-> IF u = Teams!AnyUser THEN TeamProjects ELSE {}]
        /\ invites = [t \in Tokens |-> Teams!NoInvite] /\ accounts = [e \in Emails |-> Teams!NoUser]
        /\ drawn = {Teams!AnyUser} /\ accepting = [r \in Requests |-> Teams!Resting]
        /\ joined = [t \in Tokens |-> {}]
    BY DEF Teams!TeamInit
  <1>2. Teams!AnyUser \in Users
    BY PeopleAssumption DEF Teams!AnyUser
  <1>3. team \in [TeamProjects -> [Users -> Teams!Roles \cup {"none"}]]
    BY <1>1, TeamRoles
  <1>4. TeamTypes
    BY <1>1, <1>2, <1>3 DEF TeamTypes
  <1>5. Teams!IndexFollowsTeams
    BY <1>1 DEF Teams!IndexFollowsTeams, Teams!IsMember
  <1>6. \A t \in Tokens : TokenOK(t)
    BY <1>1, TeamRoles DEF TokenOK, Accepts
  <1> QED BY <1>1, <1>4, <1>5, <1>6 DEF TeamInv, RequestsOK

\* What a request, an expiry or a saved invitation leaves alone.
LEMMA TokensStay ==
  ASSUME TeamInv, accepting' = accepting, joined' = joined, crowded \subseteq crowded',
         \A t \in Tokens : \/ invites'[t] = invites[t]
                           \/ invites[t] = Teams!NoInvite /\ invites'[t] # Teams!NoInvite
                           \/ /\ invites[t] # Teams!NoInvite /\ invites'[t] # Teams!NoInvite
                              /\ invites'[t].status \in {invites[t].status, "expired"}
  PROVE  RequestsOK' /\ \A t \in Tokens : TokenOK(t)'
  <1>1. RequestsOK'
    BY DEF TeamInv, RequestsOK, Teams!Resting, Teams!NoInvite, Teams!AnyUser
  <1>2. ASSUME NEW t \in Tokens PROVE TokenOK(t)'
    <2>1. TokenOK(t) /\ (invites'[t].status \in {"none", "pending"} => invites[t].status \in {"none", "pending"})
      BY TeamRoles DEF TeamInv
    <2> QED BY <2>1 DEF TokenOK, Accepts
  <1> QED BY <1>1, <1>2

\* Members.
LEMMA MembersKeep ==
  ASSUME TeamInv, NEW p \in TeamProjects, NEW u \in Users, NEW as \in Teams!Roles,
         Teams!AddMember(p, u, as) \/ Teams!RemoveMember(p, u) \/ Teams!UpdateMemberRole(p, u, as)
  PROVE  /\ team' \in [TeamProjects -> [Users -> Teams!Roles \cup {"none"}]] /\ index' \in [Users -> SUBSET TeamProjects]
         /\ Teams!IndexFollowsTeams'
  <1>1. /\ team \in [TeamProjects -> [Users -> Teams!Roles \cup {"none"}]] /\ index \in [Users -> SUBSET TeamProjects]
        /\ \A v \in Users : index[v] = {q \in TeamProjects : team[q][v] # "none"}
    BY DEF TeamInv, TeamTypes, Teams!IndexFollowsTeams, Teams!IsMember
  <1>2. PICK new \in Teams!Roles \cup {"none"} :
          /\ team' = [team EXCEPT ![p][u] = new]
          /\ index' = [index EXCEPT ![u] = IF new = "none" THEN index[u] \ {p} ELSE index[u] \cup {p}]
    <2>1. CASE Teams!AddMember(p, u, as)
      BY <2>1, TeamRoles DEF Teams!AddMember
    <2>2. CASE Teams!RemoveMember(p, u)
      BY <2>2 DEF Teams!RemoveMember
    <2>3. CASE Teams!UpdateMemberRole(p, u, as)
      <3>1. p \in index[u] /\ as # "none"
        BY <1>1, <2>3, TeamRoles DEF Teams!UpdateMemberRole, Teams!IsMember
      <3>2. index[u] \cup {p} = index[u] /\ index' = index
        BY <2>3, <3>1 DEF Teams!UpdateMemberRole
      <3>3. index = [index EXCEPT ![u] = index[u]] /\ (IF as = "none" THEN index[u] \ {p} ELSE index[u] \cup {p}) = index[u]
        BY <1>1, <3>1, <3>2
      <3>4. index' = [index EXCEPT ![u] = IF as = "none" THEN index[u] \ {p} ELSE index[u] \cup {p}]
        BY <3>2, <3>3
      <3>5. team' = [team EXCEPT ![p][u] = as]
        BY <2>3 DEF Teams!UpdateMemberRole
      <3> WITNESS as \in Teams!Roles \cup {"none"}
      <3> QED BY <3>4, <3>5
    <2> QED BY <2>1, <2>2, <2>3
  <1>3. /\ team' \in [TeamProjects -> [Users -> Teams!Roles \cup {"none"}]] /\ team'[p][u] = new
        /\ \A q \in TeamProjects, v \in Users : q # p \/ v # u => team'[q][v] = team[q][v]
    BY <1>1, <1>2
  <1>4. index' \in [Users -> SUBSET TeamProjects]
    BY <1>1, <1>2
  <1>5. ASSUME NEW v \in Users PROVE index'[v] = {q \in TeamProjects : team'[q][v] # "none"}
    <2>1. CASE v = u
      <3>1. index'[u] = IF new = "none" THEN index[u] \ {p} ELSE index[u] \cup {p}
        BY <1>1, <1>2
      <3>2. ASSUME NEW q \in TeamProjects PROVE q \in index'[u] <=> team'[q][u] # "none"
        BY <1>1, <1>3, <3>1
      <3> QED BY <1>4, <2>1, <3>2
    <2>2. CASE v # u
      BY <1>1, <1>2, <1>3, <2>2
    <2> QED BY <2>1, <2>2
  <1> QED BY <1>3, <1>4, <1>5 DEF Teams!IndexFollowsTeams, Teams!IsMember

LEMMA MemberHandlersKeep ==
  ASSUME TeamInv, NEW p \in TeamProjects, NEW c, NEW u \in drawn, NEW as \in Teams!Roles,
         Teams!handleUpdateMemberRole(c, p, u, as) \/ Teams!handleRemoveMember(c, p, u)
  PROVE  TeamInv'
  <1>1. TeamTypes /\ u \in Users
    BY DEF TeamInv, TeamTypes
  <1>2. /\ Teams!RemoveMember(p, u) \/ Teams!UpdateMemberRole(p, u, as)
        /\ invites' = invites /\ accounts' = accounts /\ drawn' = drawn /\ accepting' = accepting /\ joined' = joined
        /\ crowded' = crowded
    BY DEF Teams!handleUpdateMemberRole, Teams!handleRemoveMember
  <1>3. /\ team' \in [TeamProjects -> [Users -> Teams!Roles \cup {"none"}]] /\ index' \in [Users -> SUBSET TeamProjects]
        /\ Teams!IndexFollowsTeams'
    BY <1>1, <1>2, MembersKeep
  <1>4. RequestsOK' /\ \A t \in Tokens : TokenOK(t)'
    BY <1>2, TokensStay
  <1>5. TeamTypes'
    BY <1>1, <1>2, <1>3 DEF TeamTypes, Teams!Roles, Invitation, Teams!NoInvite, Teams!NoUser
  <1> QED BY <1>3, <1>4, <1>5 DEF TeamInv

LEMMA DeletionKeeps == ASSUME TeamInv, NEW e \in Emails, Teams!handleDeleteGlobalMember(e) PROVE TeamInv'
  <1> DEFINE u == accounts[e]
  <1>1. TeamTypes
    BY DEF TeamInv
  <1>2. /\ accounts' = [accounts EXCEPT ![e] = Teams!NoUser]
        /\ invites' = invites /\ drawn' = drawn /\ accepting' = accepting /\ joined' = joined /\ crowded' = crowded
    BY DEF Teams!handleDeleteGlobalMember, Teams!DeleteMember
  <1>3. \/ team' = team /\ index' = index
        \/ /\ u \in Users
           /\ team' = [p \in TeamProjects |-> IF p \in index[u] THEN [team[p] EXCEPT ![u] = "none"] ELSE team[p]]
           /\ index' = [index EXCEPT ![u] = {}]
    BY <1>1 DEF Teams!handleDeleteGlobalMember, Teams!DeleteMember, TeamTypes
  <1>4. /\ team' \in [TeamProjects -> [Users -> Teams!Roles \cup {"none"}]] /\ index' \in [Users -> SUBSET TeamProjects]
        /\ Teams!IndexFollowsTeams'
    <2>1. /\ team \in [TeamProjects -> [Users -> Teams!Roles \cup {"none"}]] /\ index \in [Users -> SUBSET TeamProjects]
          /\ \A v \in Users : index[v] = {q \in TeamProjects : team[q][v] # "none"}
      BY DEF TeamInv, TeamTypes, Teams!IndexFollowsTeams, Teams!IsMember
    <2>2. CASE team' = team /\ index' = index
      BY <2>1, <2>2 DEF Teams!IndexFollowsTeams, Teams!IsMember
    <2>3. ASSUME NEW w \in Users, w = u,
                 team' = [p \in TeamProjects |-> IF p \in index[w] THEN [team[p] EXCEPT ![w] = "none"] ELSE team[p]],
                 index' = [index EXCEPT ![w] = {}]
          PROVE  /\ team' \in [TeamProjects -> [Users -> Teams!Roles \cup {"none"}]]
                 /\ index' \in [Users -> SUBSET TeamProjects] /\ Teams!IndexFollowsTeams'
      <3>1. ASSUME NEW q \in TeamProjects
            PROVE  /\ team'[q] \in [Users -> Teams!Roles \cup {"none"}]
                   /\ team'[q][w] = "none" /\ \A v \in Users : v # w => team'[q][v] = team[q][v]
        BY <2>1, <2>3
      <3>2. team' \in [TeamProjects -> [Users -> Teams!Roles \cup {"none"}]]
        BY <2>3, <3>1
      <3>3. index' \in [Users -> SUBSET TeamProjects] /\ index'[w] = {} /\ \A v \in Users : v # w => index'[v] = index[v]
        BY <2>1, <2>3
      <3>4. \A v \in Users : index'[v] = {q \in TeamProjects : team'[q][v] # "none"}
        BY <2>1, <3>1, <3>3
      <3> QED BY <3>2, <3>3, <3>4 DEF Teams!IndexFollowsTeams, Teams!IsMember
    <2> QED BY <1>3, <2>2, <2>3
  <1>5. RequestsOK' /\ \A t \in Tokens : TokenOK(t)'
    BY <1>2, TokensStay
  <1>6. TeamTypes'
    BY <1>1, <1>2, <1>4 DEF TeamTypes, Teams!Roles, Invitation, Teams!NoInvite, Teams!NoUser
  <1> QED BY <1>4, <1>5, <1>6 DEF TeamInv

\* Invitations.
LEMMA CreationKeeps ==
  ASSUME TeamInv, NEW p \in TeamProjects, NEW c, NEW e \in Emails, NEW as \in Teams!Roles,
         Teams!handleCreateInvitation(c, p, e, as)
  PROVE  TeamInv'
  <1>1. TeamTypes
    BY DEF TeamInv
  <1>2. PICK t \in Tokens :
          /\ invites[t] = Teams!NoInvite
          /\ invites' = [invites EXCEPT ![t] = [status |-> "pending", p |-> p, email |-> e, role |-> as, late |-> FALSE]]
    BY DEF Teams!handleCreateInvitation, Teams!CreateInvitation
  <1>3. /\ team' = team /\ index' = index /\ accounts' = accounts /\ drawn' = drawn /\ accepting' = accepting
        /\ joined' = joined /\ crowded' = crowded
    BY DEF Teams!handleCreateInvitation
  <1>4. [status |-> "pending", p |-> p, email |-> e, role |-> as, late |-> FALSE] \in Invitation
    BY DEF Invitation
  <1>5. invites' \in [Tokens -> Invitation \cup {Teams!NoInvite}] /\ invites'[t] \in Invitation
        /\ \A o \in Tokens : o # t => invites'[o] = invites[o]
    BY <1>1, <1>2, <1>4 DEF TeamTypes
  <1>6. RequestsOK' /\ \A o \in Tokens : TokenOK(o)'
    BY <1>2, <1>3, <1>5, TokensStay, TeamRoles
  <1>7. TeamTypes'
    BY <1>1, <1>3, <1>5 DEF TeamTypes, Teams!Roles, Invitation, Teams!NoInvite, Teams!NoUser
  <1> QED BY <1>3, <1>6, <1>7 DEF TeamInv, Teams!IndexFollowsTeams, Teams!IsMember

LEMMA ExpiryKeeps == ASSUME TeamInv, NEW t \in Tokens, Teams!Expire(t) PROVE TeamInv'
  <1>1. TeamTypes
    BY DEF TeamInv
  <1>2. /\ invites[t].status = "pending" /\ invites' = [invites EXCEPT ![t].late = TRUE]
        /\ team' = team /\ index' = index /\ accounts' = accounts /\ drawn' = drawn /\ accepting' = accepting
        /\ joined' = joined /\ crowded' = crowded
    BY DEF Teams!Expire
  <1>3. invites[t] \in Invitation
    BY <1>1, <1>2, TeamRoles DEF TeamTypes
  <1>4. [invites[t] EXCEPT !.late = TRUE] \in Invitation /\ [invites[t] EXCEPT !.late = TRUE].status = "pending"
    BY <1>2, <1>3 DEF Invitation
  <1>5. invites' \in [Tokens -> Invitation \cup {Teams!NoInvite}] /\ invites'[t] \in Invitation
        /\ invites'[t].status = "pending" /\ \A o \in Tokens : o # t => invites'[o] = invites[o]
    BY <1>1, <1>2, <1>4 DEF TeamTypes
  <1>6. RequestsOK' /\ \A o \in Tokens : TokenOK(o)'
    BY <1>2, <1>3, <1>5, TokensStay, TeamRoles
  <1>7. TeamTypes'
    BY <1>1, <1>2, <1>5 DEF TeamTypes, Teams!Roles, Invitation, Teams!NoInvite, Teams!NoUser
  <1> QED BY <1>2, <1>6, <1>7 DEF TeamInv, Teams!IndexFollowsTeams, Teams!IsMember

\* Accepting an invitation.
LEMMA LookUpKeeps ==
  ASSUME TeamInv, NEW r \in Requests, NEW t \in Tokens, NEW u \in Users, Teams!LookUp(r, t, u), joined' = joined
  PROVE  /\ RequestsOK' /\ \A o \in Tokens : TokenOK(o)'
         /\ invites' \in [Tokens -> Invitation \cup {Teams!NoInvite}] /\ DOMAIN accepting' = Requests
  <1>1. TeamTypes /\ RequestsOK /\ \A o \in Tokens : TokenOK(o)
    BY DEF TeamInv
  <1>2. /\ accepting[r] = Teams!Resting /\ invites[t] # Teams!NoInvite
        /\ crowded \subseteq crowded'
        /\ t \notin crowded' => \A q \in Requests : ~Accepts(q, t)
    BY DEF Teams!LookUp, Accepts
  <1>3. invites[t] \in Invitation
    BY <1>1, <1>2 DEF TeamTypes
  <1>4. CASE invites' = invites /\ accepting' = accepting
    BY <1>1, <1>2, <1>4, TokensStay DEF TeamTypes
  <1>5. CASE invites' = [invites EXCEPT ![t].status = "expired"] /\ accepting' = accepting
    <2>1. [invites[t] EXCEPT !.status = "expired"] \in Invitation /\ [invites[t] EXCEPT !.status = "expired"].status = "expired"
      BY <1>3 DEF Invitation
    <2>2. invites' \in [Tokens -> Invitation \cup {Teams!NoInvite}] /\ invites'[t] \in Invitation
          /\ invites'[t].status = "expired" /\ \A o \in Tokens : o # t => invites'[o] = invites[o]
      BY <1>1, <1>5, <2>1 DEF TeamTypes
    <2> QED BY <1>1, <1>2, <1>3, <1>5, <2>2, TokensStay, TeamRoles DEF TeamTypes
  <1>6. CASE /\ invites' = invites /\ invites[t].status = "pending"
             /\ accepting' = [accepting EXCEPT ![r] = [pc |-> "add", token |-> t, user |-> u]]
    <2>1. /\ DOMAIN accepting' = Requests /\ accepting'[r] = [pc |-> "add", token |-> t, user |-> u]
          /\ \A q \in Requests : q # r => accepting'[q] = accepting[q]
      BY <1>1, <1>6 DEF TeamTypes
    <2>2. RequestsOK'
      BY <1>1, <1>2, <1>6, <2>1 DEF RequestsOK, Teams!Resting, Teams!NoInvite, Teams!AnyUser
    <2>3. ASSUME NEW o \in Tokens PROVE TokenOK(o)'
      <3>1. CASE o = t
        <4>1. t \notin crowded' => joined[t] = {}
          BY <1>1, <1>2, <1>6 DEF TokenOK
        <4>2. t \notin crowded' => \A q \in Requests : Accepts(q, t)' => q = r
          BY <1>2, <2>1 DEF Accepts
        <4>3. accepting'[r].pc = "add"
          BY <2>1
        <4> QED BY <3>1, <4>1, <4>2, <4>3 DEF TokenOK
      <3>2. CASE o # t
        <4>1. \A q \in Requests : Accepts(q, o)' => Accepts(q, o) /\ accepting'[q] = accepting[q]
          BY <1>2, <2>1, <3>2 DEF Accepts
        <4>2. \A q \in Requests : Accepts(q, o) => Accepts(q, o)' /\ accepting'[q] = accepting[q]
          BY <1>2, <2>1, <3>2, TeamRoles DEF Accepts
        <4>3. TokenOK(o)
          BY <1>1
        <4> QED BY <1>2, <1>6, <4>1, <4>2, <4>3 DEF TokenOK
      <3> QED BY <3>1, <3>2
    <2> QED BY <1>1, <1>6, <2>1, <2>2, <2>3 DEF TeamTypes
  <1> QED BY <1>4, <1>5, <1>6 DEF Teams!LookUp

LEMMA AcceptanceBegins ==
  ASSUME TeamInv, NEW r \in Requests, NEW t \in Tokens,
         (\E u \in drawn : Teams!handleAcceptInvitation(r, t, u)) \/ Teams!handleRegisterAndAccept(r, t)
  PROVE  TeamInv'
  <1>1. TeamTypes
    BY DEF TeamInv
  <1>2. PICK u \in Users : Teams!LookUp(r, t, u) /\ drawn' \subseteq drawn \cup {u}
    BY <1>1 DEF TeamTypes, Teams!handleAcceptInvitation, Teams!handleRegisterAndAccept
  <1>3. team' = team /\ index' = index /\ joined' = joined
    BY DEF Teams!handleAcceptInvitation, Teams!handleRegisterAndAccept
  <1>4. accounts' \in [Emails -> Users \cup {Teams!NoUser}]
    BY <1>1 DEF TeamTypes, Teams!handleAcceptInvitation, Teams!handleRegisterAndAccept
  <1>5. /\ RequestsOK' /\ \A o \in Tokens : TokenOK(o)'
        /\ invites' \in [Tokens -> Invitation \cup {Teams!NoInvite}] /\ DOMAIN accepting' = Requests
    BY <1>2, <1>3, LookUpKeeps
  <1>6. TeamTypes'
    BY <1>1, <1>2, <1>3, <1>4, <1>5 DEF TeamTypes, Teams!Roles, Invitation, Teams!NoInvite, Teams!NoUser
  <1> QED BY <1>3, <1>5, <1>6 DEF TeamInv, Teams!IndexFollowsTeams, Teams!IsMember

LEMMA AddingKeeps == ASSUME TeamInv, NEW r \in Requests, Teams!AcceptAdds(r) PROVE TeamInv'
  <1> DEFINE a == accepting[r]
             t == a.token
             u == a.user
             inv == invites[t]
  <1>1. TeamTypes /\ RequestsOK /\ \A o \in Tokens : TokenOK(o)
    BY DEF TeamInv
  <1>2. /\ a.pc = "add" /\ invites' = invites /\ accounts' = accounts /\ drawn' = drawn /\ crowded' = crowded
        /\ \/ accepting' = [accepting EXCEPT ![r] = Teams!Resting] /\ team' = team /\ index' = index /\ joined' = joined
           \/ /\ Teams!AddMember(inv.p, u, inv.role)
              /\ accepting' = [accepting EXCEPT ![r].pc = "save"]
              /\ joined' = [joined EXCEPT ![t] = joined[t] \cup {u}]
    BY DEF Teams!AcceptAdds
  <1>3. a \in [pc : {"add", "save"}, token : Tokens, user : Users] /\ inv # Teams!NoInvite
    BY <1>1, <1>2, TeamRoles DEF RequestsOK
  <1>4. t \in Tokens /\ u \in Users /\ inv \in Invitation /\ Accepts(r, t)
    BY <1>1, <1>2, <1>3 DEF TeamTypes, Accepts
  <1>5. inv.p \in TeamProjects /\ inv.role \in Teams!Roles
    BY <1>4 DEF Invitation
  <1>6. /\ team' \in [TeamProjects -> [Users -> Teams!Roles \cup {"none"}]] /\ index' \in [Users -> SUBSET TeamProjects]
        /\ Teams!IndexFollowsTeams'
    <2>1. CASE team' = team /\ index' = index
      BY <1>1, <2>1 DEF TeamInv, TeamTypes, Teams!IndexFollowsTeams, Teams!IsMember
    <2> HIDE DEF u, inv
    <2>2. CASE Teams!AddMember(inv.p, u, inv.role)
      BY <1>4, <1>5, <2>2, MembersKeep
    <2> QED BY <1>2, <2>1, <2>2
  <1>7. t \notin crowded => joined[t] = {}
    BY <1>1, <1>2, <1>4 DEF TokenOK
  <1>8. \A q \in Requests : t \notin crowded /\ Accepts(q, t) => q = r
    BY <1>1, <1>4 DEF TokenOK
  <1> HIDE DEF a, t, u, inv
  <1>9. CASE accepting' = [accepting EXCEPT ![r] = Teams!Resting] /\ joined' = joined
    <2>1. /\ DOMAIN accepting' = Requests /\ accepting'[r] = Teams!Resting
          /\ \A q \in Requests : q # r => accepting'[q] = accepting[q]
      BY <1>1, <1>9 DEF TeamTypes
    <2>2. RequestsOK'
      BY <1>1, <1>2, <2>1 DEF RequestsOK, Teams!Resting, Teams!NoInvite, Teams!AnyUser
    <2>3. ASSUME NEW o \in Tokens PROVE TokenOK(o)'
      <3>1. \A q \in Requests : Accepts(q, o)' => Accepts(q, o) /\ accepting'[q] = accepting[q]
        BY <2>1, TeamRoles DEF Accepts
      <3>2. \A q \in Requests : q # r /\ Accepts(q, o) => Accepts(q, o)' /\ accepting'[q] = accepting[q]
        BY <2>1 DEF Accepts
      <3>3. TokenOK(o) /\ accepting[r].pc = "add"
        BY <1>1, <1>2 DEF a
      <3> QED BY <1>2, <1>9, <3>1, <3>2, <3>3 DEF TokenOK
    <2>4. TeamTypes'
      BY <1>1, <1>2, <1>6, <1>9, <2>1 DEF TeamTypes, Teams!Roles, Invitation, Teams!NoInvite, Teams!NoUser
    <2> QED BY <1>6, <2>2, <2>3, <2>4 DEF TeamInv
  <1>10. CASE accepting' = [accepting EXCEPT ![r].pc = "save"] /\ joined' = [joined EXCEPT ![t] = joined[t] \cup {u}]
    <2>1. /\ DOMAIN accepting' = Requests /\ accepting'[r] = [a EXCEPT !.pc = "save"]
          /\ \A q \in Requests : q # r => accepting'[q] = accepting[q]
      BY <1>1, <1>10 DEF TeamTypes, a
    <2>2. /\ accepting'[r] \in [pc : {"add", "save"}, token : Tokens, user : Users]
          /\ accepting'[r].pc = "save" /\ accepting'[r].token = t
      BY <1>3, <2>1 DEF t
    <2>3. RequestsOK'
      <3>1. invites'[accepting'[r].token] # Teams!NoInvite
        BY <1>2, <1>3, <2>2 DEF inv
      <3>2. ASSUME NEW q \in Requests, q # r
            PROVE  \/ accepting'[q] = Teams!Resting
                   \/ /\ accepting'[q] \in [pc : {"add", "save"}, token : Tokens, user : Users]
                      /\ invites'[accepting'[q].token] # Teams!NoInvite
        BY <1>1, <1>2, <2>1, <3>2 DEF RequestsOK
      <3> QED BY <2>2, <3>1, <3>2 DEF RequestsOK, Teams!Resting, Teams!NoInvite, Teams!AnyUser
    <2>4. joined' \in [Tokens -> SUBSET Users] /\ joined'[t] = joined[t] \cup {u} /\ \A o \in Tokens : o # t => joined'[o] = joined[o]
      BY <1>1, <1>4, <1>10 DEF TeamTypes
    <2>5. ASSUME NEW o \in Tokens PROVE TokenOK(o)'
      <3>1. \A q \in Requests : Accepts(q, o)' <=> Accepts(q, o)
        BY <1>2, <1>4, <2>1, <2>2 DEF Accepts, a, t
      <3>2. TokenOK(o)
        BY <1>1
      <3>3. CASE o = t
        <4>1. t \notin crowded => joined'[t] = {u}
          BY <1>7, <2>4
        <4>2. Accepts(r, o)'
          BY <1>4, <3>1, <3>3
        <4> QED BY <1>2, <1>8, <2>2, <3>1, <3>2, <3>3, <4>1, <4>2 DEF TokenOK
      <3>4. CASE o # t
        <4>1. ~Accepts(r, o)
          BY <3>4 DEF Accepts, a, t
        <4>2. \A q \in Requests : Accepts(q, o) => accepting'[q] = accepting[q]
          BY <2>1, <4>1
        <4> QED BY <1>2, <2>4, <3>1, <3>2, <3>4, <4>2 DEF TokenOK
      <3> QED BY <3>3, <3>4
    <2>6. TeamTypes'
      BY <1>1, <1>2, <1>6, <2>1, <2>4 DEF TeamTypes, Teams!Roles, Invitation, Teams!NoInvite, Teams!NoUser
    <2> QED BY <1>6, <2>3, <2>5, <2>6 DEF TeamInv
  <1> QED BY <1>2, <1>9, <1>10

LEMMA SavingKeeps == ASSUME TeamInv, NEW r \in Requests, Teams!AcceptSaves(r) PROVE TeamInv'
  <1> DEFINE a == accepting[r]
             t == a.token
             inv == invites[t]
  <1>1. TeamTypes /\ RequestsOK /\ \A o \in Tokens : TokenOK(o)
    BY DEF TeamInv
  <1>2. /\ a.pc = "save" /\ invites' = [invites EXCEPT ![t].status = "accepted"]
        /\ accepting' = [accepting EXCEPT ![r] = Teams!Resting]
        /\ team' = team /\ index' = index /\ accounts' = accounts /\ drawn' = drawn /\ joined' = joined /\ crowded' = crowded
    BY DEF Teams!AcceptSaves
  <1>3. a \in [pc : {"add", "save"}, token : Tokens, user : Users] /\ inv # Teams!NoInvite
    BY <1>1, <1>2, TeamRoles DEF RequestsOK
  <1>4. t \in Tokens /\ inv \in Invitation
    BY <1>1, <1>3 DEF TeamTypes
  <1>5. [inv EXCEPT !.status = "accepted"] \in Invitation /\ [inv EXCEPT !.status = "accepted"].status = "accepted"
    BY <1>4 DEF Invitation
  <1> HIDE DEF a, t
  <1>6. /\ invites' \in [Tokens -> Invitation \cup {Teams!NoInvite}] /\ invites'[t] \in Invitation
        /\ invites'[t].status = "accepted" /\ \A o \in Tokens : o # t => invites'[o] = invites[o]
    BY <1>1, <1>2, <1>4, <1>5 DEF TeamTypes
  <1>7. /\ DOMAIN accepting' = Requests /\ accepting'[r] = Teams!Resting
        /\ \A q \in Requests : q # r => accepting'[q] = accepting[q]
    BY <1>1, <1>2 DEF TeamTypes
  <1>8. RequestsOK'
    <2>1. \A o \in Tokens : invites[o] # Teams!NoInvite => invites'[o] # Teams!NoInvite
      BY <1>6, TeamRoles
    <2> QED BY <1>1, <1>7, <2>1 DEF RequestsOK, Teams!Resting, Teams!NoInvite, Teams!AnyUser
  <1>9. ASSUME NEW o \in Tokens PROVE TokenOK(o)'
    <2>1. \A q \in Requests : Accepts(q, o)' => Accepts(q, o) /\ accepting'[q] = accepting[q]
      BY <1>7, TeamRoles DEF Accepts
    <2>2. \A q \in Requests : q # r /\ Accepts(q, o) => Accepts(q, o)' /\ accepting'[q] = accepting[q]
      BY <1>7 DEF Accepts
    <2>3. TokenOK(o)
      BY <1>1
    <2>4. o # t => ~Accepts(r, o)
      BY DEF Accepts, a, t
    <2> QED BY <1>2, <1>6, <2>1, <2>2, <2>3, <2>4 DEF TokenOK
  <1>10. TeamTypes'
    BY <1>1, <1>2, <1>6, <1>7 DEF TeamTypes, Teams!Roles, Invitation, Teams!NoInvite, Teams!NoUser
  <1> QED BY <1>2, <1>8, <1>9, <1>10 DEF TeamInv, Teams!IndexFollowsTeams, Teams!IsMember

LEMMA TeamKeeps == TeamInv /\ Teams!TeamNext => TeamInv'
  <1> SUFFICES ASSUME TeamInv, Teams!TeamNext PROVE TeamInv'
    OBVIOUS
  <1>1. ASSUME NEW p \in TeamProjects, NEW c \in Teams!Callers, NEW as \in Teams!Roles, NEW e \in Emails,
               Teams!handleCreateInvitation(c, p, e, as)
        PROVE  TeamInv'
    BY <1>1, CreationKeeps
  <1>2. ASSUME NEW p \in TeamProjects, NEW c \in Teams!Callers, NEW as \in Teams!Roles, NEW u \in drawn,
               Teams!handleUpdateMemberRole(c, p, u, as)
        PROVE  TeamInv'
    BY <1>2, MemberHandlersKeep
  <1>3. ASSUME NEW p \in TeamProjects, NEW c \in Teams!Callers, NEW u \in drawn, Teams!handleRemoveMember(c, p, u)
        PROVE  TeamInv'
    BY <1>3, MemberHandlersKeep, TeamRoles
  <1>4. ASSUME NEW e \in Emails, Teams!handleDeleteGlobalMember(e) PROVE TeamInv'
    BY <1>4, DeletionKeeps
  <1>5. ASSUME NEW t \in Tokens, Teams!Expire(t) PROVE TeamInv'
    BY <1>5, ExpiryKeeps
  <1>6. ASSUME NEW r \in Requests, NEW t \in Tokens, NEW u \in drawn, Teams!handleAcceptInvitation(r, t, u) PROVE TeamInv'
    BY <1>6, AcceptanceBegins
  <1>7. ASSUME NEW r \in Requests, NEW t \in Tokens, Teams!handleRegisterAndAccept(r, t) PROVE TeamInv'
    BY <1>7, AcceptanceBegins
  <1>8. ASSUME NEW r \in Requests, Teams!AcceptAdds(r) \/ Teams!AcceptSaves(r) PROVE TeamInv'
    BY <1>8, AddingKeeps, SavingKeeps
  <1> QED BY <1>1, <1>2, <1>3, <1>4, <1>5, <1>6, <1>7, <1>8 DEF Teams!TeamNext

LEMMA TeamStutter == TeamInv /\ UNCHANGED teamsVars => TeamInv'
  <1> SUFFICES ASSUME TeamInv, UNCHANGED teamsVars PROVE TeamInv'
    OBVIOUS
  <1>1. /\ team' = team /\ index' = index /\ invites' = invites /\ accounts' = accounts /\ drawn' = drawn
        /\ accepting' = accepting /\ joined' = joined /\ crowded' = crowded
    BY DEF teamsVars
  <1>2. RequestsOK' /\ \A t \in Tokens : TokenOK(t)'
    BY <1>1, TokensStay
  <1>3. TeamTypes'
    BY <1>1 DEF TeamInv, TeamTypes, Teams!Roles, Invitation, Teams!NoInvite, Teams!NoUser
  <1> QED BY <1>1, <1>2, <1>3 DEF TeamInv, Teams!IndexFollowsTeams, Teams!IsMember

LEMMA AtMostOne == ASSUME NEW S, \A u, v \in S : u = v PROVE Teams!Cardinality(S) <= 1
  <1>1. Teams!Cardinality(S) = Cardinality(S)
    BY DEF Teams!Cardinality, Cardinality, Teams!IsFiniteSet, IsFiniteSet
  <1>2. CASE S = {}
    BY <1>1, <1>2, FS_EmptySet
  <1>3. CASE S # {}
    <2>1. PICK u \in S : S = {u}
      BY <1>3
    <2> QED BY <1>1, <2>1, FS_Singleton
  <1> QED BY <1>2, <1>3

LEMMA TeamShows == TeamInv => Teams!IndexFollowsTeams /\ Teams!InvitationLetsOneIn
  BY AtMostOne DEF TeamInv, TokenOK, Teams!InvitationLetsOneIn

------------------------------------------------------------------------------
\* Administrators.  What a request has read names an administrator, and writes
\* a whole record.
AdminRecord == [email : AdminEmails, role : Administrators!AdminRoles]
AdminTask ==
  {Administrators!Resting} \cup [pc : {"create"}, email : AdminEmails, role : Administrators!AdminRoles]
    \cup [pc : {"write"}, a : AdminIds, rec : AdminRecord] \cup [pc : {"delete"}, a : AdminIds]
StoreTypes ==
  /\ records \in [AdminIds -> AdminRecord \cup {Administrators!NoAdmin}]
  /\ byEmail \in [AdminEmails -> AdminIds \cup {Administrators!NoId}] /\ contested \subseteq AdminEmails
StoreOK == StoreTypes /\ Administrators!SignInFindsAdmin
AdminInv ==
  /\ StoreOK
  /\ work \in [AdminReqs -> AdminTask]
  /\ Administrators!Admins \subseteq issued

LEMMA AdminFacts ==
  /\ Administrators!NoId = 0 /\ Administrators!NoId \notin AdminIds /\ Administrators!NoAdmin \notin AdminRecord
  /\ GivenRoles \subseteq Administrators!AdminRoles
  <1>1. "none" \notin Administrators!AdminRoles /\ GivenRoles \subseteq Administrators!AdminRoles
    BY PeopleAssumption DEF Administrators!AdminRoles
  <1>2. \A rec \in AdminRecord : rec.role # Administrators!NoAdmin.role
    BY <1>1 DEF AdminRecord, Administrators!NoAdmin
  <1> QED BY <1>1, <1>2, PeopleAssumption DEF Administrators!NoId

LEMMA AdminStart == Administrators!AdminInit => AdminInv
  <1> SUFFICES ASSUME Administrators!AdminInit PROVE AdminInv
    OBVIOUS
  <1>1. PICK a \in AdminIds, e \in AdminEmails :
          /\ records = [b \in AdminIds |-> IF b = a THEN [email |-> e, role |-> "super_admin"] ELSE Administrators!NoAdmin]
          /\ byEmail = [f \in AdminEmails |-> IF f = e THEN a ELSE Administrators!NoId]
          /\ work = [r \in AdminReqs |-> Administrators!Resting]
          /\ contested = {} /\ issued = {a}
    BY PeopleAssumption DEF Administrators!AdminInit
  <1>2. [email |-> e, role |-> "super_admin"] \in AdminRecord
    BY DEF AdminRecord, Administrators!AdminRoles
  <1>3. StoreTypes /\ work \in [AdminReqs -> AdminTask]
    BY <1>1, <1>2 DEF StoreTypes, AdminTask
  <1>4. \A b \in AdminIds : records[b] # Administrators!NoAdmin <=> b = a
    BY <1>1, <1>2, AdminFacts
  <1>5. records[a].email = e
    BY <1>1
  <1>6. Administrators!SignInFindsAdmin /\ Administrators!Admins \subseteq issued
    BY <1>1, <1>4, <1>5 DEF Administrators!SignInFindsAdmin, Administrators!Admins
  <1> QED BY <1>3, <1>6 DEF AdminInv, StoreOK

\* Operations of the store.
LEMMA RegisterKeeps ==
  ASSUME StoreOK, NEW a \in AdminIds, NEW e \in AdminEmails, NEW as \in Administrators!AdminRoles,
         records[a] = Administrators!NoAdmin, Administrators!Register(a, e, as)
  PROVE  StoreOK' /\ (Administrators!Admins \subseteq issued => Administrators!Admins' \subseteq issued')
  <1> DEFINE rec == [email |-> e, role |-> as]
  <1>1. /\ records' = [records EXCEPT ![a] = rec] /\ byEmail' = [byEmail EXCEPT ![e] = a] /\ issued' = issued \cup {a}
        /\ contested' = IF byEmail[e] \in {Administrators!NoId, a} THEN contested ELSE contested \cup {e}
    BY DEF Administrators!Register, Administrators!Contest
  <1>2. rec \in AdminRecord /\ rec.email = e
    BY DEF AdminRecord
  <1>3. StoreTypes /\ Administrators!SignInFindsAdmin
    BY DEF StoreOK
  <1> HIDE DEF rec
  <1>4. /\ records' \in [AdminIds -> AdminRecord \cup {Administrators!NoAdmin}] /\ records'[a] = rec
        /\ \A b \in AdminIds : b # a => records'[b] = records[b]
    BY <1>1, <1>2, <1>3 DEF StoreTypes
  <1>5. /\ byEmail' \in [AdminEmails -> AdminIds \cup {Administrators!NoId}] /\ byEmail'[e] = a
        /\ \A f \in AdminEmails : f # e => byEmail'[f] = byEmail[f]
    BY <1>1, <1>3 DEF StoreTypes
  <1>6. contested \subseteq contested' /\ contested' \subseteq AdminEmails
        /\ (e \notin contested' => byEmail[e] \in {Administrators!NoId, a})
    BY <1>1, <1>3 DEF StoreTypes
  <1>7. StoreTypes'
    BY <1>4, <1>5, <1>6 DEF StoreTypes, AdminRecord, Administrators!AdminRoles, Administrators!NoAdmin, Administrators!NoId
  <1>8. ASSUME NEW f \in AdminEmails \ contested', NEW b \in Administrators!Admins', records'[b].email = f PROVE byEmail'[f] = b
    <2>1. CASE b = a
      BY <1>2, <1>4, <1>5, <1>8, <2>1
    <2>2. CASE b # a
      <3>1. b \in Administrators!Admins /\ records[b].email = f /\ b # 0
        BY <1>4, <1>8, <2>2, AdminFacts DEF Administrators!Admins, Administrators!NoAdmin
      <3>2. byEmail[f] = b
        BY <1>3, <1>6, <3>1 DEF Administrators!SignInFindsAdmin
      <3> QED BY <1>5, <1>6, <2>2, <3>1, <3>2, AdminFacts
    <2> QED BY <2>1, <2>2
  <1>9. ASSUME NEW f \in AdminEmails \ contested', byEmail'[f] # Administrators!NoId
        PROVE  records'[byEmail'[f]] # Administrators!NoAdmin /\ records'[byEmail'[f]].email = f
    <2>1. CASE f = e
      BY <1>2, <1>4, <1>5, <2>1, AdminFacts
    <2>2. CASE f # e
      <3>1. byEmail'[f] = byEmail[f] /\ byEmail[f] \in AdminIds
        BY <1>3, <1>5, <1>9, <2>2 DEF StoreTypes
      <3>2. records[byEmail[f]] # Administrators!NoAdmin /\ records[byEmail[f]].email = f
        BY <1>3, <1>6, <1>9, <3>1 DEF Administrators!SignInFindsAdmin
      <3>3. records'[byEmail[f]] = records[byEmail[f]]
        BY <1>4, <3>1, <3>2
      <3> QED BY <3>1, <3>2, <3>3
    <2> QED BY <2>1, <2>2
  <1>10. Administrators!SignInFindsAdmin'
    BY <1>8, <1>9 DEF Administrators!SignInFindsAdmin, Administrators!NoId, Administrators!NoAdmin
  <1>11. Administrators!Admins \subseteq issued => Administrators!Admins' \subseteq issued'
    BY <1>1, <1>4 DEF Administrators!Admins, Administrators!NoAdmin
  <1> QED BY <1>7, <1>10, <1>11 DEF StoreOK

LEMMA UpdateKeeps ==
  ASSUME StoreOK, NEW a \in AdminIds, NEW rec \in AdminRecord, Administrators!Update(a, rec)
  PROVE  StoreOK' /\ Administrators!Admins' = Administrators!Admins
  <1>1. CASE records[a] = Administrators!NoAdmin
    <2>1. records' = records /\ byEmail' = byEmail /\ contested' = contested
      BY <1>1 DEF Administrators!Update
    <2> QED BY <2>1 DEF StoreOK, StoreTypes, AdminRecord, Administrators!SignInFindsAdmin, Administrators!Admins,
                        Administrators!AdminRoles, Administrators!NoAdmin, Administrators!NoId
  <1>2. CASE records[a] # Administrators!NoAdmin
    <2> DEFINE old == records[a].email
    <2>1. StoreTypes /\ Administrators!SignInFindsAdmin
      BY DEF StoreOK
    <2>2. /\ records' = [records EXCEPT ![a] = rec]
          /\ byEmail' = [f \in AdminEmails |-> IF f = rec.email THEN a ELSE IF f = old THEN Administrators!NoId ELSE byEmail[f]]
          /\ contested' = IF byEmail[rec.email] \in {Administrators!NoId, a} THEN contested ELSE contested \cup {rec.email}
      BY <1>2 DEF Administrators!Update, Administrators!Contest
    <2>3. records[a] \in AdminRecord /\ rec.email \in AdminEmails
      BY <1>2, <2>1 DEF StoreTypes, AdminRecord
    <2>4. old \in AdminEmails /\ a \in Administrators!Admins
      BY <1>2, <2>3 DEF AdminRecord, Administrators!Admins
    <2>5. /\ records' \in [AdminIds -> AdminRecord \cup {Administrators!NoAdmin}] /\ records'[a] = rec
          /\ \A b \in AdminIds : b # a => records'[b] = records[b]
      BY <2>1, <2>2 DEF StoreTypes
    <2>6. records[a].email = old
      OBVIOUS
    <2>7. PICK was \in AdminEmails : was = old
      BY <2>4
    <2>8. PICK now \in AdminEmails : now = rec.email
      BY <2>3
    <2>9. /\ byEmail' = [f \in AdminEmails |-> IF f = now THEN a ELSE IF f = was THEN Administrators!NoId ELSE byEmail[f]]
          /\ contested' = IF byEmail[now] \in {Administrators!NoId, a} THEN contested ELSE contested \cup {now}
          /\ records[a].email = was /\ records'[a].email = now
      BY <2>2, <2>5, <2>6, <2>7, <2>8
    <2> HIDE DEF old
    <2>10. byEmail' \in [AdminEmails -> AdminIds \cup {Administrators!NoId}]
      BY <2>1, <2>9 DEF StoreTypes
    <2>11. /\ contested \subseteq contested' /\ contested' \subseteq AdminEmails
           /\ now \notin contested' => byEmail[now] \in {Administrators!NoId, a}
      BY <2>1, <2>9 DEF StoreTypes
    <2>12. StoreTypes'
      BY <2>5, <2>10, <2>11 DEF StoreTypes, AdminRecord, Administrators!AdminRoles, Administrators!NoAdmin, Administrators!NoId
    <2>13. Administrators!Admins' = Administrators!Admins
      BY <1>2, <2>5, AdminFacts DEF Administrators!Admins, Administrators!NoAdmin
    <2>14. ASSUME NEW f \in AdminEmails \ contested', NEW b \in Administrators!Admins, records'[b].email = f PROVE byEmail'[f] = b
      <3>1. CASE b = a
        BY <2>9, <2>14, <3>1
      <3>2. CASE b # a
        <4>1. b \in AdminIds /\ records[b].email = f /\ b # 0
          BY <2>5, <2>14, <3>2, AdminFacts DEF Administrators!Admins
        <4>2. byEmail[f] = b
          BY <2>1, <2>11, <4>1 DEF Administrators!SignInFindsAdmin
        <4>3. f # now
          BY <2>11, <3>2, <4>1, <4>2, AdminFacts
        <4>4. f # was
          BY <2>1, <2>4, <2>9, <2>11, <3>2, <4>2 DEF Administrators!SignInFindsAdmin
        <4> QED BY <2>9, <4>2, <4>3, <4>4
      <3> QED BY <3>1, <3>2
    <2>15. ASSUME NEW f \in AdminEmails \ contested', byEmail'[f] # Administrators!NoId
           PROVE  records'[byEmail'[f]] # Administrators!NoAdmin /\ records'[byEmail'[f]].email = f
      <3>1. CASE f = now
        BY <2>5, <2>9, <3>1, AdminFacts
      <3>2. CASE f # now
        <4>1. byEmail'[f] = byEmail[f] /\ byEmail[f] \in AdminIds /\ f # was
          BY <2>1, <2>9, <2>15, <3>2 DEF StoreTypes
        <4>2. records[byEmail[f]] # Administrators!NoAdmin /\ records[byEmail[f]].email = f
          BY <2>1, <2>11, <2>15, <4>1 DEF Administrators!SignInFindsAdmin
        <4>3. records'[byEmail[f]] = records[byEmail[f]]
          BY <2>5, <2>9, <4>1, <4>2
        <4> QED BY <4>1, <4>2, <4>3
      <3> QED BY <3>1, <3>2
    <2>16. Administrators!SignInFindsAdmin'
      BY <2>13, <2>14, <2>15 DEF Administrators!SignInFindsAdmin, Administrators!NoId, Administrators!NoAdmin
    <2> QED BY <2>12, <2>13, <2>16 DEF StoreOK
  <1> QED BY <1>1, <1>2

LEMMA DeleteKeeps ==
  ASSUME StoreOK, NEW a \in AdminIds, Administrators!Delete(a), contested' = contested
  PROVE  StoreOK' /\ Administrators!Admins' \subseteq Administrators!Admins
  <1>1. CASE records[a] = Administrators!NoAdmin
    <2>1. records' = records /\ byEmail' = byEmail
      BY <1>1 DEF Administrators!Delete
    <2> QED BY <2>1 DEF StoreOK, StoreTypes, AdminRecord, Administrators!SignInFindsAdmin, Administrators!Admins,
                        Administrators!AdminRoles, Administrators!NoAdmin, Administrators!NoId
  <1>2. CASE records[a] # Administrators!NoAdmin
    <2>1. StoreTypes /\ Administrators!SignInFindsAdmin
      BY DEF StoreOK
    <2>2. records[a] \in AdminRecord /\ a \in Administrators!Admins
      BY <1>2, <2>1 DEF StoreTypes, Administrators!Admins
    <2>3. PICK was \in AdminEmails : was = records[a].email
      BY <2>2 DEF AdminRecord
    <2>4. /\ records' = [records EXCEPT ![a] = Administrators!NoAdmin]
          /\ byEmail' = [byEmail EXCEPT ![was] = Administrators!NoId]
      BY <1>2, <2>3 DEF Administrators!Delete
    <2>5. /\ records' \in [AdminIds -> AdminRecord \cup {Administrators!NoAdmin}] /\ records'[a] = Administrators!NoAdmin
          /\ \A b \in AdminIds : b # a => records'[b] = records[b]
      BY <2>1, <2>4 DEF StoreTypes
    <2>6. /\ byEmail' \in [AdminEmails -> AdminIds \cup {Administrators!NoId}] /\ byEmail'[was] = Administrators!NoId
          /\ \A f \in AdminEmails : f # was => byEmail'[f] = byEmail[f]
      BY <2>1, <2>4 DEF StoreTypes
    <2>7. StoreTypes'
      BY <2>1, <2>5, <2>6 DEF StoreTypes, AdminRecord, Administrators!AdminRoles, Administrators!NoAdmin, Administrators!NoId
    <2>8. Administrators!Admins' = Administrators!Admins \ {a}
      BY <2>5 DEF Administrators!Admins, Administrators!NoAdmin
    <2>9. ASSUME NEW f \in AdminEmails \ contested, NEW b \in Administrators!Admins \ {a}, records'[b].email = f
          PROVE  byEmail'[f] = b
      <3>1. records[b].email = f
        BY <2>5, <2>9 DEF Administrators!Admins
      <3>2. byEmail[f] = b /\ (f = was => byEmail[f] = a)
        BY <2>1, <2>2, <2>3, <3>1 DEF Administrators!SignInFindsAdmin
      <3> QED BY <2>6, <3>2
    <2>10. ASSUME NEW f \in AdminEmails \ contested, byEmail'[f] # Administrators!NoId
           PROVE  records'[byEmail'[f]] # Administrators!NoAdmin /\ records'[byEmail'[f]].email = f
      <3>1. f # was /\ byEmail'[f] = byEmail[f] /\ byEmail[f] \in AdminIds
        BY <2>1, <2>6, <2>10 DEF StoreTypes
      <3>2. records[byEmail[f]] # Administrators!NoAdmin /\ records[byEmail[f]].email = f
        BY <2>1, <2>10, <3>1 DEF Administrators!SignInFindsAdmin
      <3>3. records'[byEmail[f]] = records[byEmail[f]]
        BY <2>3, <2>5, <3>1, <3>2
      <3> QED BY <3>1, <3>2, <3>3
    <2>11. Administrators!SignInFindsAdmin'
      BY <2>8, <2>9, <2>10 DEF Administrators!SignInFindsAdmin, Administrators!NoId, Administrators!NoAdmin
    <2> QED BY <2>7, <2>8, <2>11 DEF StoreOK
  <1> QED BY <1>1, <1>2

\* The primary administrator is one of the administrators, when there are any.
LEMMA LeastExists == ASSUME NEW S, S \subseteq AdminIds, S # {} PROVE (CHOOSE a \in S : \A b \in S : a <= b) \in S
  <1> DEFINE R == OpToRel(<, Nat)
  <1>1. S \subseteq Nat
    BY PeopleAssumption
  <1>2. IsWellFoundedOn(R, Nat)
    BY NatLessThanWellFounded
  <1>3. \A x, y \in Nat : <<x, y>> \in R <=> x < y
    BY DEF OpToRel
  <1> HIDE DEF R
  <1>4. PICK a \in S : \A b \in S : ~(<<b, a>> \in R)
    BY <1>1, <1>2, WFMin
  <1>5. \A b \in S : ~(b < a)
    BY <1>1, <1>3, <1>4
  <1>6. \A b \in S : a <= b
    BY <1>1, <1>5
  <1> QED BY <1>4, <1>6

LEMMA PrimaryIsAdmin == Administrators!Admins # {} => Administrators!Primary(records) \in Administrators!Admins
  <1> SUFFICES ASSUME Administrators!Admins # {} PROVE Administrators!Primary(records) \in Administrators!Admins
    OBVIOUS
  <1> DEFINE supers == {a \in Administrators!Admins : records[a].role = "super_admin"}
             among == IF supers = {} THEN Administrators!Admins ELSE supers
  <1>1. among \in SUBSET AdminIds /\ among # {} /\ among \subseteq Administrators!Admins
    BY DEF Administrators!Admins
  <1>2. Administrators!Primary(records) = CHOOSE a \in among : \A b \in among : a <= b
    BY DEF Administrators!Primary, Administrators!Admins
  <1> HIDE DEF among
  <1> QED BY <1>1, <1>2, LeastExists

LEMMA RestartKeeps == ASSUME AdminInv, Administrators!RestartAdmins PROVE AdminInv'
  <1>1. StoreOK /\ Administrators!Admins \subseteq issued
    BY DEF AdminInv
  <1>2. work' \in [AdminReqs -> AdminTask]
    BY DEF Administrators!RestartAdmins, AdminTask
  <1>3. CASE Administrators!Admins = {}
    <2>1. PICK a \in AdminIds, e \in AdminEmails : Administrators!Register(a, e, "super_admin")
      BY <1>3 DEF Administrators!RestartAdmins, Administrators!SeedDefault
    <2>2. records[a] = Administrators!NoAdmin
      BY <1>3 DEF Administrators!Admins
    <2>3. "super_admin" \in Administrators!AdminRoles
      BY DEF Administrators!AdminRoles
    <2>4. StoreOK' /\ Administrators!Admins' \subseteq issued'
      BY <1>1, <2>1, <2>2, <2>3, RegisterKeeps
    <2> QED BY <1>2, <2>4 DEF AdminInv, AdminTask, AdminRecord, Administrators!AdminRoles, Administrators!Resting
  <1>4. CASE Administrators!Admins # {}
    <2> DEFINE a == Administrators!Primary(records)
    <2>1. a \in Administrators!Admins
      BY <1>4, PrimaryIsAdmin
    <2>2. envEmail' \in EnvEmails /\ Administrators!SyncFromEnv(envEmail') /\ issued' = issued
      BY <1>4 DEF Administrators!RestartAdmins
    <2>3. PICK env : env = envEmail'
      OBVIOUS
    <2>4. env \in EnvEmails /\ Administrators!SyncFromEnv(env)
      BY <2>2, <2>3
    <2>5. \/ records' = records /\ byEmail' = byEmail /\ contested' = contested
          \/ env # "unset" /\ Administrators!Update(a, [records[a] EXCEPT !.email = env])
      BY <2>4 DEF Administrators!SyncFromEnv
    <2> HIDE DEF a
    <2>6. a \in AdminIds /\ records[a] \in AdminRecord
      BY <1>1, <2>1 DEF StoreOK, StoreTypes, Administrators!Admins
    <2>7. CASE records' = records /\ byEmail' = byEmail /\ contested' = contested
      <3>1. StoreOK' /\ Administrators!Admins' = Administrators!Admins
        BY <1>1, <2>7 DEF StoreOK, StoreTypes, AdminRecord, Administrators!SignInFindsAdmin, Administrators!Admins,
                          Administrators!AdminRoles, Administrators!NoAdmin, Administrators!NoId
      <3> QED BY <1>1, <1>2, <2>2, <3>1 DEF AdminInv, AdminTask, AdminRecord, Administrators!AdminRoles, Administrators!Resting
    <2>8. CASE env # "unset" /\ Administrators!Update(a, [records[a] EXCEPT !.email = env])
      <3>1. [records[a] EXCEPT !.email = env] \in AdminRecord
        BY <2>4, <2>6, <2>8, PeopleAssumption DEF AdminRecord
      <3>2. StoreOK' /\ Administrators!Admins' = Administrators!Admins
        BY <1>1, <2>6, <2>8, <3>1, UpdateKeeps
      <3> QED BY <1>1, <1>2, <2>2, <3>2 DEF AdminInv, AdminTask, AdminRecord, Administrators!AdminRoles, Administrators!Resting
    <2> QED BY <2>5, <2>7, <2>8
  <1> QED BY <1>3, <1>4

\* Requests.
LEMMA FinishKeeps == ASSUME AdminInv, NEW r \in AdminReqs, Administrators!Finish(r) PROVE AdminInv'
  <1>1. StoreOK /\ Administrators!Admins \subseteq issued /\ work \in [AdminReqs -> AdminTask]
    BY DEF AdminInv
  <1>2. work' = [work EXCEPT ![r] = Administrators!Resting]
    BY DEF Administrators!Finish
  <1>3. work' \in [AdminReqs -> AdminTask]
    BY <1>1, <1>2 DEF AdminTask
  <1>4. work[r] \in AdminTask
    BY <1>1
  <1>5. StoreOK' /\ Administrators!Admins' \subseteq issued'
    <2>1. CASE work[r].pc = "create" /\ \E a \in AdminIds : Administrators!Create(a, work[r].email, work[r].role)
      <3>1. work[r].email \in AdminEmails /\ work[r].role \in Administrators!AdminRoles
        BY <1>4, <2>1 DEF AdminTask, Administrators!Resting
      <3>2. PICK e \in AdminEmails, as \in Administrators!AdminRoles : e = work[r].email /\ as = work[r].role
        BY <3>1
      <3>3. PICK a \in AdminIds : a \notin issued /\ Administrators!Register(a, e, as)
        BY <2>1, <3>2 DEF Administrators!Create
      <3>4. records[a] = Administrators!NoAdmin
        BY <1>1, <3>3 DEF Administrators!Admins
      <3> QED BY <1>1, <3>3, <3>4, RegisterKeeps
    <2>2. CASE work[r].pc = "write" /\ Administrators!Update(work[r].a, work[r].rec) /\ issued' = issued
      <3>1. work[r].a \in AdminIds /\ work[r].rec \in AdminRecord
        BY <1>4, <2>2 DEF AdminTask, Administrators!Resting
      <3> QED BY <1>1, <2>2, <3>1, UpdateKeeps
    <2>3. CASE work[r].pc = "delete" /\ Administrators!Delete(work[r].a) /\ contested' = contested /\ issued' = issued
      <3>1. work[r].a \in AdminIds
        BY <1>4, <2>3 DEF AdminTask, Administrators!Resting
      <3> QED BY <1>1, <2>3, <3>1, DeleteKeeps
    <2> QED BY <2>1, <2>2, <2>3 DEF Administrators!Finish
  <1> QED BY <1>3, <1>5 DEF AdminInv, AdminTask, AdminRecord, Administrators!AdminRoles, Administrators!Resting

\* A request that begins leaves the store alone.
LEMMA TaskBegins ==
  ASSUME AdminInv, NEW r \in AdminReqs, NEW task \in AdminTask, Administrators!Begin(r, task), UNCHANGED Administrators!Store
  PROVE  AdminInv'
  <1>1. work' = [work EXCEPT ![r] = task] /\ records' = records /\ byEmail' = byEmail /\ contested' = contested /\ issued' = issued
    BY DEF Administrators!Begin, Administrators!Store
  <1>2. work' \in [AdminReqs -> AdminTask]
    BY <1>1 DEF AdminInv
  <1> QED BY <1>1, <1>2 DEF AdminInv, StoreOK, StoreTypes, AdminTask, AdminRecord, Administrators!SignInFindsAdmin,
             Administrators!Admins, Administrators!AdminRoles, Administrators!NoAdmin, Administrators!NoId, Administrators!Resting

LEMMA HandlersKeep ==
  ASSUME AdminInv, NEW r \in AdminReqs, NEW c \in Administrators!Admins,
         \/ \E e \in AdminEmails, as \in GivenRoles : Administrators!handleCreateAdmin(r, c, e, as)
         \/ \E a \in AdminIds : Administrators!handleDeleteAdmin(r, c, a)
         \/ \E a \in AdminIds, as \in GivenRoles : Administrators!handleUpdateAdminRole(r, c, a, as)
         \/ Administrators!handleUpdateMyProfile(r, c)
         \/ \E e \in AdminEmails : Administrators!applyAdminAccountUpdate(r, c, e)
  PROVE  AdminInv'
  <1>1. \A a \in AdminIds : records[a] # Administrators!NoAdmin => records[a] \in AdminRecord
    BY DEF AdminInv, StoreOK, StoreTypes
  <1>2. c \in AdminIds /\ records[c] \in AdminRecord
    BY <1>1 DEF Administrators!Admins
  <1>3. ASSUME NEW e \in AdminEmails, NEW as \in GivenRoles, Administrators!handleCreateAdmin(r, c, e, as) PROVE AdminInv'
    <2>1. [pc |-> "create", email |-> e, role |-> as] \in AdminTask
      BY AdminFacts DEF AdminTask
    <2> QED BY <1>3, <2>1, TaskBegins DEF Administrators!handleCreateAdmin
  <1>4. ASSUME NEW a \in AdminIds, Administrators!handleDeleteAdmin(r, c, a) PROVE AdminInv'
    <2>1. [pc |-> "delete", a |-> a] \in AdminTask
      BY DEF AdminTask
    <2> QED BY <1>4, <2>1, TaskBegins DEF Administrators!handleDeleteAdmin
  <1>5. ASSUME NEW a \in AdminIds, NEW rec \in AdminRecord PROVE Administrators!Write(a, rec) \in AdminTask
    BY DEF Administrators!Write, AdminTask
  <1>6. ASSUME NEW a \in AdminIds, NEW as \in GivenRoles, Administrators!handleUpdateAdminRole(r, c, a, as) PROVE AdminInv'
    <2>1. records[a] \in AdminRecord
      BY <1>1, <1>6 DEF Administrators!handleUpdateAdminRole
    <2>2. [records[a] EXCEPT !.role = as] \in AdminRecord
      BY <2>1, AdminFacts DEF AdminRecord
    <2> QED BY <1>5, <1>6, <2>2, TaskBegins DEF Administrators!handleUpdateAdminRole
  <1>7. CASE Administrators!handleUpdateMyProfile(r, c)
    BY <1>2, <1>5, <1>7, TaskBegins DEF Administrators!handleUpdateMyProfile
  <1>8. ASSUME NEW e \in AdminEmails, Administrators!applyAdminAccountUpdate(r, c, e) PROVE AdminInv'
    <2>1. [records[c] EXCEPT !.email = e] \in AdminRecord
      BY <1>2 DEF AdminRecord
    <2> QED BY <1>2, <1>5, <1>8, <2>1, TaskBegins DEF Administrators!applyAdminAccountUpdate
  <1> QED BY <1>3, <1>4, <1>6, <1>7, <1>8

LEMMA LoginKeeps == ASSUME AdminInv, NEW r \in AdminReqs, NEW e \in AdminEmails, Administrators!handleLogin(r, e) PROVE AdminInv'
  <1> DEFINE a == Administrators!GetByEmail(e)
  <1>1. a # Administrators!NoId
    BY DEF Administrators!handleLogin
  <1>2. a = byEmail[e] /\ records[a] # Administrators!NoAdmin
    BY <1>1 DEF Administrators!GetByEmail
  <1>3. a \in AdminIds /\ records[a] \in AdminRecord
    BY <1>1, <1>2 DEF AdminInv, StoreOK, StoreTypes
  <1>4. Administrators!Write(a, records[a]) \in AdminTask
    BY <1>3 DEF Administrators!Write, AdminTask
  <1>5. Administrators!Begin(r, Administrators!Write(a, records[a])) /\ UNCHANGED Administrators!Store
    BY DEF Administrators!handleLogin
  <1> QED BY <1>4, <1>5, TaskBegins

LEMMA AdminKeeps == AdminInv /\ (Administrators!AdminNext \/ UNCHANGED administratorsVars) => AdminInv'
  <1> SUFFICES ASSUME AdminInv, Administrators!AdminNext \/ UNCHANGED administratorsVars PROVE AdminInv'
    OBVIOUS
  <1>1. CASE UNCHANGED administratorsVars
    <2>1. records' = records /\ byEmail' = byEmail /\ work' = work /\ contested' = contested /\ issued' = issued
      BY <1>1 DEF administratorsVars
    <2> QED BY <2>1 DEF AdminInv, StoreOK, StoreTypes, AdminTask, AdminRecord, Administrators!SignInFindsAdmin,
               Administrators!Admins, Administrators!AdminRoles, Administrators!NoAdmin, Administrators!NoId, Administrators!Resting
  <1>2. ASSUME NEW r \in AdminReqs, NEW c \in Administrators!Admins,
               \/ \E e \in AdminEmails, as \in GivenRoles : Administrators!handleCreateAdmin(r, c, e, as)
               \/ \E a \in AdminIds : Administrators!handleDeleteAdmin(r, c, a)
               \/ \E a \in AdminIds, as \in GivenRoles : Administrators!handleUpdateAdminRole(r, c, a, as)
               \/ Administrators!handleUpdateMyProfile(r, c)
               \/ \E e \in AdminEmails : Administrators!applyAdminAccountUpdate(r, c, e)
        PROVE  AdminInv'
    BY <1>2, HandlersKeep
  <1>3. ASSUME NEW r \in AdminReqs, NEW e \in AdminEmails, Administrators!handleLogin(r, e) PROVE AdminInv'
    BY <1>3, LoginKeeps
  <1>4. ASSUME NEW r \in AdminReqs, Administrators!Finish(r) PROVE AdminInv'
    BY <1>4, FinishKeeps
  <1>5. CASE Administrators!RestartAdmins
    BY <1>5, RestartKeeps
  <1> QED BY <1>1, <1>2, <1>3, <1>4, <1>5 DEF Administrators!AdminNext

LEMMA AdminShows == AdminInv => Administrators!SignInFindsAdmin
  BY DEF AdminInv, StoreOK

------------------------------------------------------------------------------
\* The users of a project.  No address has two entries in the unique index, and an
\* entry leads to a user with that address.
UserRecord == [email : UserEmails, verification : Nat, reset : Nat, magic : Nat, mfa : BOOLEAN]
WriteTask == [pc : {"write"}, u : UserIds, user : UserRecord, link : BOOLEAN]
UserTask == {People!Resting} \cup WriteTask \cup [pc : {"exchange"}, s : States]
UserTypes ==
  /\ users \in [UserIds -> UserRecord \cup {People!NoUser}]
  /\ mails \subseteq UserEmails \X UserIds /\ refused \subseteq UserIds
UsersOK ==
  /\ UserTypes
  /\ People!Existing \cup refused \subseteq given
  /\ \A e \in UserEmails, u, v \in UserIds : <<e, u>> \in mails /\ <<e, v>> \in mails => u = v
  /\ \A u \in People!Existing \ refused : <<users[u].email, u>> \in mails
  /\ \A e \in UserEmails, u \in UserIds : <<e, u>> \in mails => users[u] # People!NoUser /\ users[u].email = e
TasksOK == serving \in [UserReqs -> UserTask] /\ secretNo \in Nat

\* A state is traded for a session by the one request that took it away.
Exchanges(r, s) == serving[r].pc = "exchange" /\ serving[r].s = s
FlowsOK ==
  /\ states \in [States -> {"none", "open", "late", "gone"}] /\ entered \in [States -> {0, 1}]
  /\ \A s \in States : states[s] # "gone" => entered[s] = 0 /\ \A r \in UserReqs : ~Exchanges(r, s)
  /\ \A s \in States, r \in UserReqs : Exchanges(r, s) => entered[s] = 0
  /\ \A s \in States, q, r \in UserReqs : Exchanges(q, s) /\ Exchanges(r, s) => q = r
PeopleInv == UsersOK /\ TasksOK /\ FlowsOK

LEMMA PeopleFacts ==
  /\ People!NoUser \notin UserRecord
  /\ \A user \in UserRecord : People!userToMap(user) \in UserRecord /\ People!userToMap(user).email = user.email
  /\ \A e \in UserEmails, n \in Nat : People!NewUser(e, n) \in UserRecord /\ People!NewUser(e, n).email = e
  /\ \A u \in UserIds, user \in UserRecord : People!Write(u, user) \in WriteTask
  <1>1. \A user \in UserRecord : user.email # People!NoUser.email
    BY PeopleAssumption DEF UserRecord, People!NoUser
  <1>2. \A user \in UserRecord : People!userToMap(user) \in UserRecord /\ People!userToMap(user).email = user.email
    BY DEF UserRecord, People!userToMap
  <1>3. \A e \in UserEmails, n \in Nat : People!NewUser(e, n) \in UserRecord /\ People!NewUser(e, n).email = e
    BY DEF UserRecord, People!NewUser
  <1>4. \A u \in UserIds, user \in UserRecord : People!Write(u, user) \in WriteTask
    BY DEF WriteTask, People!Write
  <1> QED BY <1>1, <1>2, <1>3, <1>4

LEMMA PeopleStart == People!AccountInit => PeopleInv
  <1> SUFFICES ASSUME People!AccountInit PROVE PeopleInv
    OBVIOUS
  <1>1. /\ users = [u \in UserIds |-> People!NoUser] /\ mails = {} /\ secretNo = 0 /\ given = {} /\ refused = {}
        /\ serving = [r \in UserReqs |-> People!Resting]
        /\ states = [s \in States |-> "none"] /\ entered = [s \in States |-> 0]
    BY DEF People!AccountInit
  <1>2. UsersOK
    BY <1>1 DEF UsersOK, UserTypes, People!Existing
  <1>3. TasksOK
    BY <1>1 DEF TasksOK, UserTask
  <1>4. FlowsOK
    BY <1>1 DEF FlowsOK, Exchanges, People!Resting
  <1> QED BY <1>2, <1>3, <1>4 DEF PeopleInv

\* Operations of the store.
LEMMA UsersStay == ASSUME UsersOK, users' = users, mails' = mails, refused' = refused, given' = given PROVE UsersOK'
  BY DEF UsersOK, UserTypes, UserRecord, People!Existing, People!NoUser

LEMMA CreateUserKeeps ==
  ASSUME UsersOK, NEW u \in UserIds, NEW user \in UserRecord, People!CreateUser(u, user)
  PROVE  UsersOK'
  <1>1. PICK doc \in UserRecord : doc = People!userToMap(user) /\ doc.email = user.email
    BY PeopleFacts
  <1>2. PICK e \in UserEmails : e = user.email
    BY DEF UserRecord
  <1>3. /\ u \notin given /\ \A v \in UserIds : <<e, v>> \notin mails
        /\ given' = given \cup {u} /\ users' = [users EXCEPT ![u] = doc] /\ mails' = mails \cup {<<e, u>>}
        /\ refused' = refused
    BY <1>1, <1>2 DEF People!CreateUser, People!GetByEmail
  <1>4. UserTypes
    BY DEF UsersOK
  <1>5. /\ users' \in [UserIds -> UserRecord \cup {People!NoUser}] /\ users'[u] = doc
        /\ \A v \in UserIds : v # u => users'[v] = users[v]
    BY <1>3, <1>4 DEF UserTypes
  <1>6. doc # People!NoUser /\ doc.email = e
    BY <1>1, <1>2, PeopleFacts
  <1>7. \A v \in UserIds : v # u => (v \in People!Existing' <=> v \in People!Existing)
    BY <1>5 DEF People!Existing, People!NoUser
  <1>8. UserTypes'
    BY <1>3, <1>4, <1>5 DEF UserTypes, UserRecord, People!NoUser
  <1>9. (People!Existing \cup refused \subseteq given)'
    BY <1>3, <1>4, <1>7 DEF UsersOK, UserTypes, People!Existing
  <1>10. \A f \in UserEmails, v, w \in UserIds : <<f, v>> \in mails' /\ <<f, w>> \in mails' => v = w
    BY <1>3 DEF UsersOK
  <1>11. ASSUME NEW v \in People!Existing' \ refused' PROVE <<users'[v].email, v>> \in mails'
    <2>1. CASE v = u
      BY <1>3, <1>5, <1>6, <2>1
    <2>2. CASE v # u
      BY <1>3, <1>5, <1>7, <2>2 DEF UsersOK, People!Existing
    <2> QED BY <2>1, <2>2
  <1>12. ASSUME NEW f \in UserEmails, NEW v \in UserIds, <<f, v>> \in mails'
         PROVE  users'[v] # People!NoUser /\ users'[v].email = f
    <2>1. u \notin People!Existing
      BY <1>3 DEF UsersOK
    <2>2. \A o \in UserEmails : <<o, u>> \notin mails
      BY <2>1 DEF UsersOK, People!Existing
    <2>3. CASE v = u
      BY <1>3, <1>5, <1>6, <1>12, <2>2, <2>3
    <2>4. CASE v # u
      BY <1>3, <1>5, <1>12, <2>4 DEF UsersOK
    <2> QED BY <2>3, <2>4
  <1> QED BY <1>8, <1>9, <1>10, <1>11, <1>12 DEF UsersOK, People!NoUser

LEMMA UpdateUserKeeps ==
  ASSUME UsersOK, NEW u \in UserIds, NEW user \in UserRecord, People!UpdateUser(u, user)
  PROVE  UsersOK'
  <1>1. CASE users[u] = People!NoUser
    BY <1>1, UsersStay DEF People!UpdateUser, People!Store
  <1>2. CASE users[u] # People!NoUser
    <2>1. UserTypes
      BY DEF UsersOK
    <2>2. PICK doc \in UserRecord : doc = People!userToMap(user) /\ doc.email = user.email
      BY PeopleFacts
    <2>3. PICK e \in UserEmails : e = user.email
      BY DEF UserRecord
    <2>4. users[u] \in UserRecord
      BY <1>2, <2>1 DEF UserTypes
    <2>5. PICK old \in UserEmails : old = users[u].email
      BY <2>4 DEF UserRecord
    <2>6. /\ users' = [users EXCEPT ![u] = doc] /\ given' = given
          /\ \/ e = old /\ mails' = mails /\ refused' = refused
             \/ e # old /\ mails' = mails \ {<<old, u>>} /\ refused' = refused \cup {u}
             \/ /\ e # old /\ \A v \in UserIds \ {u} : <<e, v>> \notin mails
                /\ mails' = (mails \ {<<old, u>>}) \cup {<<e, u>>} /\ refused' = refused
      BY <1>2, <2>2, <2>3, <2>5 DEF People!UpdateUser
    <2>7. /\ users' \in [UserIds -> UserRecord \cup {People!NoUser}] /\ users'[u] = doc
          /\ \A v \in UserIds : v # u => users'[v] = users[v]
      BY <2>1, <2>6 DEF UserTypes
    <2>8. doc # People!NoUser /\ doc.email = e
      BY <2>2, <2>3, PeopleFacts
    <2>9. u \in People!Existing /\ People!Existing' = People!Existing
      BY <1>2, <2>7, <2>8 DEF People!Existing, People!NoUser
    <2>10. \A f \in UserEmails : <<f, u>> \in mails => f = old
      BY <2>5 DEF UsersOK
    <2>11. /\ UserTypes'
           /\ (People!Existing \cup refused \subseteq given)'
      BY <2>1, <2>6, <2>7, <2>9 DEF UsersOK, UserTypes, UserRecord, People!NoUser
    <2>12. \A f \in UserEmails, v, w \in UserIds : <<f, v>> \in mails' /\ <<f, w>> \in mails' => v = w
      <3> SUFFICES ASSUME NEW f \in UserEmails, NEW v \in UserIds, NEW w \in UserIds, <<f, v>> \in mails', <<f, w>> \in mails'
                   PROVE  v = w
        OBVIOUS
      <3>1. <<f, v>> \in mails /\ <<f, w>> \in mails => v = w
        BY DEF UsersOK
      <3>2. CASE mails' \subseteq mails
        BY <3>1, <3>2
      <3>3. CASE (\A x \in UserIds \ {u} : <<e, x>> \notin mails) /\ mails' = (mails \ {<<old, u>>}) \cup {<<e, u>>}
        BY <3>1, <3>3
      <3> QED BY <2>6, <3>2, <3>3
    <2>13. ASSUME NEW v \in People!Existing' \ refused' PROVE <<users'[v].email, v>> \in mails'
      <3>1. v \in People!Existing \ refused /\ v \in UserIds
        BY <2>6, <2>9 DEF People!Existing
      <3>2. <<users[v].email, v>> \in mails
        BY <3>1 DEF UsersOK
      <3>3. CASE v = u
        BY <2>5, <2>6, <2>7, <2>8, <2>13, <3>2, <3>3
      <3>4. CASE v # u
        <4>1. users'[v] = users[v] /\ <<users[v].email, v>> # <<old, u>>
          BY <2>7, <3>1, <3>4
        <4> QED BY <2>6, <3>2, <4>1
      <3> QED BY <3>3, <3>4
    <2>14. ASSUME NEW f \in UserEmails, NEW v \in UserIds, <<f, v>> \in mails'
           PROVE  users'[v] # People!NoUser /\ users'[v].email = f
      <3>1. CASE v = u
        <4>1. f = e
          BY <2>6, <2>10, <2>14, <3>1
        <4> QED BY <2>7, <2>8, <3>1, <4>1
      <3>2. CASE v # u
        <4>1. <<f, v>> \in mails
          BY <2>6, <2>14, <3>2
        <4> QED BY <2>7, <3>2, <4>1 DEF UsersOK
      <3> QED BY <3>1, <3>2
    <2> QED BY <2>11, <2>12, <2>13, <2>14 DEF UsersOK, People!NoUser
  <1> QED BY <1>1, <1>2

LEMMA DeleteUserKeeps ==
  ASSUME UsersOK, NEW u \in People!Existing,
         users' = [users EXCEPT ![u] = People!NoUser], mails' = mails \ {<<users[u].email, u>>},
         refused' = refused, given' = given
  PROVE  UsersOK'
  <1>1. UserTypes /\ u \in UserIds /\ users[u] # People!NoUser
    BY DEF UsersOK, People!Existing
  <1>2. /\ users' \in [UserIds -> UserRecord \cup {People!NoUser}] /\ users'[u] = People!NoUser
        /\ \A v \in UserIds : v # u => users'[v] = users[v]
    BY <1>1 DEF UserTypes
  <1>3. People!Existing' = People!Existing \ {u}
    BY <1>2 DEF People!Existing, People!NoUser
  <1>4. UserTypes' /\ (People!Existing \cup refused \subseteq given)'
    BY <1>1, <1>2, <1>3 DEF UsersOK, UserTypes, UserRecord, People!NoUser
  <1>5. \A f \in UserEmails, v, w \in UserIds : <<f, v>> \in mails' /\ <<f, w>> \in mails' => v = w
    BY DEF UsersOK
  <1>6. ASSUME NEW v \in People!Existing' \ refused' PROVE <<users'[v].email, v>> \in mails'
    <2>1. v \in People!Existing \ refused /\ v # u /\ users'[v] = users[v]
      BY <1>2, <1>3 DEF People!Existing
    <2>2. <<users[v].email, v>> \in mails
      BY <2>1 DEF UsersOK
    <2> QED BY <2>1, <2>2
  <1>7. ASSUME NEW f \in UserEmails, NEW v \in UserIds, <<f, v>> \in mails'
        PROVE  users'[v] # People!NoUser /\ users'[v].email = f
    <2>1. <<f, v>> \in mails /\ users[v] # People!NoUser /\ users[v].email = f
      BY <1>7 DEF UsersOK
    <2>2. v # u
      BY <1>7, <2>1
    <2> QED BY <1>2, <2>1, <2>2
  <1> QED BY <1>4, <1>5, <1>6, <1>7 DEF UsersOK, People!NoUser

\* Requests.  One that begins with a copy of a user, or ends, holds no state.
LEMMA FlowsStay ==
  ASSUME FlowsOK, states' = states, entered' = entered,
         \A r \in UserReqs : serving'[r] = serving[r] \/ serving'[r].pc # "exchange"
  PROVE  FlowsOK'
  BY DEF FlowsOK, Exchanges

LEMMA TasksStay ==
  ASSUME TasksOK, serving' = serving, secretNo' \in Nat
  PROVE  TasksOK'
  BY DEF TasksOK, UserTask, WriteTask, UserRecord, People!Resting

LEMMA WriteBegins ==
  ASSUME TasksOK, FlowsOK, UsersOK', NEW r \in UserReqs, NEW task \in WriteTask, People!Begin(r, task), UNCHANGED People!OAuth,
         secretNo' \in Nat
  PROVE  PeopleInv'
  <1>1. serving' = [serving EXCEPT ![r] = task] /\ states' = states /\ entered' = entered
    BY DEF People!Begin, People!OAuth
  <1>2. task.pc # "exchange" /\ task \in UserTask
    BY DEF WriteTask, UserTask
  <1>3. TasksOK'
    BY <1>1, <1>2 DEF TasksOK, UserTask, WriteTask, UserRecord, People!Resting
  <1>4. FlowsOK'
    BY <1>1, <1>2, FlowsStay DEF TasksOK
  <1> QED BY <1>3, <1>4 DEF PeopleInv

LEMMA Untouched ==
  ASSUME PeopleInv, serving' = serving, UNCHANGED People!Store, UNCHANGED People!OAuth, secretNo' \in Nat
  PROVE  PeopleInv'
  <1>1. UsersOK'
    BY UsersStay DEF PeopleInv, People!Store
  <1>2. TasksOK' /\ FlowsOK'
    BY TasksStay, FlowsStay DEF PeopleInv, People!OAuth
  <1> QED BY <1>1, <1>2 DEF PeopleInv

LEMMA SignUpKeeps ==
  ASSUME UsersOK, secretNo \in Nat, NEW u \in UserIds, NEW e \in UserEmails, NEW verify \in BOOLEAN, People!SignUp(u, e, verify)
  PROVE  UsersOK' /\ secretNo' \in Nat
  <1>1. secretNo' \in Nat
    BY DEF People!SignUp, People!Draw
  <1>2. PICK n \in Nat : n = secretNo'
    BY <1>1
  <1>3. People!CreateUser(u, People!NewUser(e, n)) \/ People!CreateUser(u, People!NewUser(e, 0))
    BY <1>2 DEF People!SignUp
  <1>4. People!NewUser(e, n) \in UserRecord /\ People!NewUser(e, 0) \in UserRecord
    BY PeopleFacts
  <1> QED BY <1>1, <1>3, <1>4, CreateUserKeeps

LEMMA SignUpsKeep ==
  ASSUME PeopleInv, NEW e \in UserEmails,
         \/ People!handleSignUp(e) \/ People!handleSignIn(e)
         \/ \E r \in UserReqs : People!handleCreateUser(r, e)
  PROVE  PeopleInv'
  <1>1. UsersOK /\ TasksOK /\ FlowsOK /\ secretNo \in Nat
    BY DEF PeopleInv, TasksOK
  <1>2. CASE People!handleSignUp(e)
    <2>1. UsersOK' /\ secretNo' \in Nat
      BY <1>1, <1>2, SignUpKeeps DEF People!handleSignUp
    <2>2. serving' = serving /\ states' = states /\ entered' = entered
      BY <1>2 DEF People!handleSignUp, People!OAuth
    <2> QED BY <1>1, <2>1, <2>2, TasksStay, FlowsStay DEF PeopleInv
  <1>3. CASE People!handleSignIn(e)
    BY <1>1, <1>3, Untouched DEF People!handleSignIn
  <1>4. ASSUME NEW r \in UserReqs, People!handleCreateUser(r, e) PROVE PeopleInv'
    <2>1. PICK u \in UserIds : People!SignUp(u, e, FALSE) /\ People!Begin(r, People!Write(u, People!NewUser(e, 0)))
      BY <1>4 DEF People!handleCreateUser
    <2>2. UsersOK' /\ secretNo' \in Nat
      BY <1>1, <2>1, SignUpKeeps
    <2>3. People!Write(u, People!NewUser(e, 0)) \in WriteTask
      BY PeopleFacts
    <2>4. UNCHANGED People!OAuth
      BY <1>4 DEF People!handleCreateUser
    <2> QED BY <1>1, <2>1, <2>2, <2>3, <2>4, WriteBegins
  <1> QED BY <1>2, <1>3, <1>4

\* A request reads a user, and keeps a changed copy of it.
LEMMA CopiesKeep ==
  ASSUME PeopleInv, NEW r \in UserReqs,
         \/ \E e \in UserEmails : People!handleForgotPassword(r, e) \/ People!handleCreateMagicLink(r, e)
         \/ \E t : People!handleVerifyEmail(r, t) \/ People!handleResetPassword(r, t)
         \/ \E u \in UserIds : \/ People!handleVerifyMagicLink(r, u) \/ People!handleUpdateMe(r, u)
                               \/ People!handleMFASetup(r, u) \/ People!handleMFAConfirm(r, u) \/ People!handleMFADisable(r, u)
                               \/ People!handleResetUserPassword(r, u)
                               \/ \E e \in UserEmails : People!handleUpdateUser(r, u, e)
  PROVE  PeopleInv'
  <1>1. UsersOK /\ TasksOK /\ FlowsOK /\ secretNo \in Nat
    BY DEF PeopleInv, TasksOK
  <1>2. \A u \in People!Existing : u \in UserIds /\ users[u] \in UserRecord
    BY <1>1 DEF UsersOK, UserTypes, People!Existing
  <1>3. \A e \in UserEmails : \A u \in People!GetByEmail(e) : u \in People!Existing
    BY <1>1 DEF UsersOK, People!GetByEmail, People!Existing
  <1>4. UNCHANGED People!Store /\ UNCHANGED People!OAuth
    BY DEF People!handleForgotPassword, People!handleCreateMagicLink, People!handleVerifyEmail, People!handleResetPassword,
           People!handleVerifyMagicLink, People!handleUpdateMe, People!handleMFASetup, People!handleMFAConfirm,
           People!handleMFADisable, People!handleResetUserPassword, People!handleUpdateUser, People!ForgotPassword,
           People!CreateMagicLink, People!VerifyEmail, People!ResetPassword, People!VerifyMagicLink, People!SetupMFA,
           People!ConfirmMFA, People!DisableMFA
  <1>5. secretNo' \in Nat
    <2>1. secretNo' = secretNo \/ People!Draw
      BY DEF People!handleForgotPassword, People!handleCreateMagicLink, People!handleVerifyEmail, People!handleResetPassword,
             People!handleVerifyMagicLink, People!handleUpdateMe, People!handleMFASetup, People!handleMFAConfirm,
             People!handleMFADisable, People!handleResetUserPassword, People!handleUpdateUser, People!ForgotPassword,
             People!CreateMagicLink, People!VerifyEmail, People!ResetPassword, People!VerifyMagicLink, People!SetupMFA,
             People!ConfirmMFA, People!DisableMFA
    <2> QED BY <1>1, <2>1 DEF People!Draw
  <1>6. PICK n \in Nat : n = secretNo'
    BY <1>5
  <1>7. UsersOK'
    BY <1>1, <1>4, UsersStay DEF People!Store
  <1>8. ASSUME NEW task \in WriteTask, People!Begin(r, task) PROVE PeopleInv'
    BY <1>1, <1>4, <1>5, <1>7, <1>8, WriteBegins
  <1>9. ASSUME serving' = serving PROVE PeopleInv'
    BY <1>4, <1>5, <1>9, Untouched
  <1>10. ASSUME NEW u \in People!Existing
         PROVE  /\ People!Write(u, users[u]) \in WriteTask
                /\ People!Write(u, [users[u] EXCEPT !.verification = 0]) \in WriteTask
                /\ People!Write(u, [users[u] EXCEPT !.reset = 0]) \in WriteTask
                /\ People!Write(u, [users[u] EXCEPT !.reset = n]) \in WriteTask
                /\ People!Write(u, [users[u] EXCEPT !.magic = 0]) \in WriteTask
                /\ People!Write(u, [users[u] EXCEPT !.mfa = TRUE]) \in WriteTask
                /\ People!Write(u, [users[u] EXCEPT !.mfa = FALSE]) \in WriteTask
                /\ \A e \in UserEmails : People!Write(u, [users[u] EXCEPT !.email = e]) \in WriteTask
                /\ [People!Write(u, [users[u] EXCEPT !.magic = n]) EXCEPT !.link = TRUE] \in WriteTask
    <2>1. /\ [users[u] EXCEPT !.verification = 0] \in UserRecord /\ [users[u] EXCEPT !.reset = 0] \in UserRecord
          /\ [users[u] EXCEPT !.reset = n] \in UserRecord /\ [users[u] EXCEPT !.magic = 0] \in UserRecord
          /\ [users[u] EXCEPT !.magic = n] \in UserRecord
          /\ [users[u] EXCEPT !.mfa = TRUE] \in UserRecord /\ [users[u] EXCEPT !.mfa = FALSE] \in UserRecord
          /\ \A e \in UserEmails : [users[u] EXCEPT !.email = e] \in UserRecord
      BY <1>2 DEF UserRecord
    <2>2. \A task \in WriteTask : [task EXCEPT !.link = TRUE] \in WriteTask
      BY DEF WriteTask
    <2> QED BY <1>2, <2>1, <2>2, PeopleFacts
  <1>11. ASSUME NEW e \in UserEmails, People!handleForgotPassword(r, e) \/ People!handleCreateMagicLink(r, e) PROVE PeopleInv'
    <2>1. PICK u \in People!GetByEmail(e) :
            \/ People!Begin(r, People!Write(u, [users[u] EXCEPT !.reset = n]))
            \/ People!Begin(r, [People!Write(u, [users[u] EXCEPT !.magic = n]) EXCEPT !.link = TRUE])
      BY <1>6, <1>11 DEF People!handleForgotPassword, People!handleCreateMagicLink, People!ForgotPassword, People!CreateMagicLink
    <2> QED BY <1>3, <1>8, <1>10, <2>1
  <1>12. ASSUME NEW t, People!handleVerifyEmail(r, t) \/ People!handleResetPassword(r, t) PROVE PeopleInv'
    <2>1. PICK u \in People!Existing :
            \/ People!Begin(r, People!Write(u, [users[u] EXCEPT !.verification = 0]))
            \/ People!Begin(r, People!Write(u, [users[u] EXCEPT !.reset = 0]))
      BY <1>12 DEF People!handleVerifyEmail, People!handleResetPassword, People!VerifyEmail, People!ResetPassword
    <2> QED BY <1>8, <1>10, <2>1
  <1>13. ASSUME NEW u \in UserIds,
                \/ People!handleVerifyMagicLink(r, u) \/ People!handleUpdateMe(r, u)
                \/ People!handleMFASetup(r, u) \/ People!handleMFAConfirm(r, u) \/ People!handleMFADisable(r, u)
                \/ People!handleResetUserPassword(r, u)
                \/ \E e \in UserEmails : People!handleUpdateUser(r, u, e)
         PROVE  PeopleInv'
    <2>1. /\ u \in People!Existing
          /\ \/ serving' = serving
             \/ People!Begin(r, People!Write(u, users[u]))
             \/ People!Begin(r, People!Write(u, [users[u] EXCEPT !.magic = 0]))
             \/ People!Begin(r, People!Write(u, [users[u] EXCEPT !.mfa = TRUE]))
             \/ People!Begin(r, People!Write(u, [users[u] EXCEPT !.mfa = FALSE]))
             \/ \E e \in UserEmails : People!Begin(r, People!Write(u, [users[u] EXCEPT !.email = e]))
      BY <1>13 DEF People!handleVerifyMagicLink, People!handleUpdateMe, People!handleMFASetup, People!handleMFAConfirm,
           People!handleMFADisable, People!handleResetUserPassword, People!handleUpdateUser, People!VerifyMagicLink,
           People!SetupMFA, People!ConfirmMFA, People!DisableMFA
    <2> QED BY <1>8, <1>9, <1>10, <2>1
  <1> QED BY <1>11, <1>12, <1>13

LEMMA FinishWrites == ASSUME PeopleInv, NEW r \in UserReqs, People!Finish(r) PROVE PeopleInv'
  <1>1. UsersOK /\ TasksOK /\ FlowsOK /\ serving[r] \in UserTask
    BY DEF PeopleInv, TasksOK
  <1>2. /\ serving[r].pc = "write" /\ People!UpdateUser(serving[r].u, serving[r].user)
        /\ serving' = [serving EXCEPT ![r] = People!Resting] /\ states' = states /\ entered' = entered /\ secretNo' = secretNo
    BY DEF People!Finish, People!OAuth
  <1>3. serving[r].u \in UserIds /\ serving[r].user \in UserRecord
    BY <1>1, <1>2 DEF UserTask, WriteTask, People!Resting
  <1>4. UsersOK'
    BY <1>1, <1>2, <1>3, UpdateUserKeeps
  <1>5. TasksOK'
    BY <1>1, <1>2 DEF TasksOK, UserTask, WriteTask, UserRecord, People!Resting
  <1>6. FlowsOK'
    BY <1>1, <1>2, FlowsStay DEF TasksOK, People!Resting
  <1> QED BY <1>4, <1>5, <1>6 DEF PeopleInv

\* Signing in with another provider.
LEMMA CallbackKeeps == ASSUME PeopleInv, NEW r \in UserReqs, NEW s \in States, People!handleOAuthCallback(r, s) PROVE PeopleInv'
  <1>1. UsersOK /\ TasksOK /\ FlowsOK
    BY DEF PeopleInv
  <1>2. /\ states[s] \in {"open", "late"} /\ states' = [states EXCEPT ![s] = "gone"] /\ entered' = entered
        /\ secretNo' = secretNo /\ UNCHANGED People!Store
        /\ \/ serving' = serving
           \/ serving[r] = People!Resting /\ serving' = [serving EXCEPT ![r] = [pc |-> "exchange", s |-> s]]
    BY DEF People!handleOAuthCallback, People!HandleOAuthCallback, People!Begin
  <1>3. UsersOK'
    BY <1>1, <1>2, UsersStay DEF People!Store
  <1>4. [pc |-> "exchange", s |-> s] \in UserTask
    BY DEF UserTask
  <1>5. TasksOK'
    BY <1>1, <1>2, <1>4 DEF TasksOK, UserTask, WriteTask, UserRecord, People!Resting
  <1>6. /\ states' \in [States -> {"none", "open", "late", "gone"}] /\ states'[s] = "gone"
        /\ \A o \in States : o # s => states'[o] = states[o]
        /\ entered[s] = 0 /\ \A q \in UserReqs : ~Exchanges(q, s)
    BY <1>1, <1>2 DEF FlowsOK
  <1>7. \A q \in UserReqs, o \in States : Exchanges(q, o)' => Exchanges(q, o) \/ (q = r /\ o = s)
    BY <1>1, <1>2 DEF Exchanges, TasksOK
  <1>8. FlowsOK'
    <2>1. entered' \in [States -> {0, 1}]
      BY <1>1, <1>2 DEF FlowsOK
    <2>2. ASSUME NEW o \in States, states'[o] # "gone" PROVE entered'[o] = 0 /\ \A q \in UserReqs : ~Exchanges(q, o)'
      BY <1>1, <1>2, <1>6, <1>7, <2>2 DEF FlowsOK
    <2>3. ASSUME NEW o \in States, NEW q \in UserReqs, Exchanges(q, o)' PROVE entered'[o] = 0
      BY <1>1, <1>2, <1>6, <1>7, <2>3 DEF FlowsOK
    <2>4. ASSUME NEW o \in States, NEW p \in UserReqs, NEW q \in UserReqs, Exchanges(p, o)', Exchanges(q, o)' PROVE p = q
      BY <1>1, <1>6, <1>7, <2>4 DEF FlowsOK
    <2> QED BY <1>6, <2>1, <2>2, <2>3, <2>4 DEF FlowsOK
  <1> QED BY <1>3, <1>5, <1>8 DEF PeopleInv

LEMMA ExchangeKeeps == ASSUME PeopleInv, NEW r \in UserReqs, NEW e \in UserEmails, People!ExchangeReturns(r, e) PROVE PeopleInv'
  <1>1. UsersOK /\ TasksOK /\ FlowsOK /\ serving[r] \in UserTask
    BY DEF PeopleInv, TasksOK
  <1>2. /\ serving[r].pc = "exchange" /\ entered' = [entered EXCEPT ![serving[r].s] = @ + 1]
        /\ serving' = [serving EXCEPT ![r] = People!Resting] /\ secretNo' = secretNo /\ states' = states
    BY DEF People!ExchangeReturns
  <1>3. serving[r].s \in States
    BY <1>1, <1>2 DEF UserTask, WriteTask, People!Resting
  <1>4. PICK s \in States : s = serving[r].s
    BY <1>3
  <1>5. UsersOK'
    <2>1. CASE \E u \in UserIds : People!CreateUser(u, People!NewUser(e, 0))
      BY <1>1, <2>1, PeopleFacts, CreateUserKeeps
    <2>2. CASE \E u \in People!GetByEmail(e) : People!UpdateUser(u, users[u])
      <3>1. PICK u \in People!GetByEmail(e) : People!UpdateUser(u, users[u])
        BY <2>2
      <3>2. u \in UserIds /\ users[u] \in UserRecord
        BY <1>1 DEF UsersOK, UserTypes, People!GetByEmail
      <3> QED BY <1>1, <3>1, <3>2, UpdateUserKeeps
    <2> QED BY <2>1, <2>2 DEF People!ExchangeReturns
  <1>6. TasksOK'
    BY <1>1, <1>2 DEF TasksOK, UserTask, WriteTask, UserRecord, People!Resting
  <1>7. Exchanges(r, s) /\ entered[s] = 0
    BY <1>1, <1>2, <1>4 DEF FlowsOK, Exchanges
  <1>8. entered' \in [States -> {0, 1}] /\ \A o \in States : o # s => entered'[o] = entered[o]
    BY <1>1, <1>2, <1>4, <1>7 DEF FlowsOK
  <1>9. \A q \in UserReqs, o \in States : Exchanges(q, o)' => Exchanges(q, o) /\ q # r
    BY <1>1, <1>2 DEF Exchanges, TasksOK, People!Resting
  <1>10. states[s] = "gone"
    BY <1>1, <1>7 DEF FlowsOK
  <1>11. FlowsOK'
    <2>1. ASSUME NEW o \in States, states[o] # "gone" PROVE entered'[o] = 0 /\ \A q \in UserReqs : ~Exchanges(q, o)'
      BY <1>1, <1>8, <1>9, <1>10, <2>1 DEF FlowsOK
    <2>2. ASSUME NEW o \in States, NEW q \in UserReqs, Exchanges(q, o)' PROVE entered'[o] = 0
      <3>1. Exchanges(q, o) /\ o # s
        BY <1>1, <1>7, <1>9, <2>2 DEF FlowsOK
      <3> QED BY <1>1, <1>8, <3>1 DEF FlowsOK
    <2>3. ASSUME NEW o \in States, NEW p \in UserReqs, NEW q \in UserReqs, Exchanges(p, o)', Exchanges(q, o)' PROVE p = q
      BY <1>1, <1>9, <2>3 DEF FlowsOK
    <2>4. states' \in [States -> {"none", "open", "late", "gone"}]
      BY <1>1, <1>2 DEF FlowsOK
    <2> QED BY <1>2, <1>8, <2>1, <2>2, <2>3, <2>4 DEF FlowsOK
  <1> QED BY <1>5, <1>6, <1>11 DEF PeopleInv

\* A state that is handed out, expires or is dropped has let nobody in.
LEMMA StatesMove ==
  ASSUME PeopleInv, states' \in [States -> {"none", "open", "late", "gone"}],
         \A s \in States : states'[s] \in {states[s], "gone"} \/ states[s] # "gone",
         serving' = serving, UNCHANGED People!Store, entered' = entered, secretNo' = secretNo
  PROVE  PeopleInv'
  <1>1. UsersOK' /\ TasksOK'
    BY UsersStay, TasksStay DEF PeopleInv, TasksOK, People!Store
  <1>2. FlowsOK'
    BY DEF PeopleInv, FlowsOK, Exchanges
  <1> QED BY <1>1, <1>2 DEF PeopleInv

LEMMA StatesKeep ==
  ASSUME PeopleInv,
         \/ \E s \in States : People!handleOAuthRedirect(s) \/ People!StateExpires(s)
         \/ People!cleanupExpiredStates \/ People!ReloadService
  PROVE  PeopleInv'
  <1>1. /\ serving' = serving /\ UNCHANGED People!Store /\ entered' = entered /\ secretNo' = secretNo
    BY DEF People!handleOAuthRedirect, People!CreateOAuthState, People!StateExpires, People!cleanupExpiredStates,
           People!ReloadService
  <1>2. states \in [States -> {"none", "open", "late", "gone"}]
    BY DEF PeopleInv, FlowsOK
  <1>3. /\ states' \in [States -> {"none", "open", "late", "gone"}]
        /\ \A s \in States : states'[s] \in {states[s], "gone"} \/ states[s] # "gone"
    BY <1>2 DEF People!handleOAuthRedirect, People!CreateOAuthState, People!StateExpires, People!cleanupExpiredStates,
                People!ReloadService
  <1> QED BY <1>1, <1>3, StatesMove

LEMMA PeopleKeep == PeopleInv /\ (People!AccountNext \/ UNCHANGED peopleVars) => PeopleInv'
  <1> SUFFICES ASSUME PeopleInv, People!AccountNext \/ UNCHANGED peopleVars PROVE PeopleInv'
    OBVIOUS
  <1>1. secretNo \in Nat
    BY DEF PeopleInv, TasksOK
  <1>2. CASE UNCHANGED peopleVars
    BY <1>1, <1>2, Untouched DEF peopleVars, People!Store, People!OAuth
  <1>3. ASSUME NEW e \in UserEmails,
               \/ People!handleSignUp(e) \/ People!handleSignIn(e)
               \/ \E r \in UserReqs : People!handleCreateUser(r, e)
        PROVE  PeopleInv'
    BY <1>3, SignUpsKeep
  <1>4. ASSUME NEW r \in UserReqs,
               \/ \E e \in UserEmails : People!handleForgotPassword(r, e) \/ People!handleCreateMagicLink(r, e)
               \/ \E t \in 1..secretNo : People!handleVerifyEmail(r, t) \/ People!handleResetPassword(r, t)
               \/ \E u \in UserIds : \/ People!handleVerifyMagicLink(r, u) \/ People!handleUpdateMe(r, u)
                                     \/ People!handleMFASetup(r, u) \/ People!handleMFAConfirm(r, u)
                                     \/ People!handleMFADisable(r, u) \/ People!handleResetUserPassword(r, u)
                                     \/ \E e \in UserEmails : People!handleUpdateUser(r, u, e)
        PROVE  PeopleInv'
    BY <1>4, CopiesKeep
  <1>5. ASSUME NEW r \in UserReqs, NEW e \in UserEmails, People!ExchangeReturns(r, e) PROVE PeopleInv'
    BY <1>5, ExchangeKeeps
  <1>6. ASSUME NEW r \in UserReqs, People!Finish(r) PROVE PeopleInv'
    BY <1>6, FinishWrites
  <1>7. ASSUME NEW r \in UserReqs, NEW s \in States, People!handleOAuthCallback(r, s) PROVE PeopleInv'
    BY <1>7, CallbackKeeps
  <1>8. ASSUME NEW u \in UserIds, People!handleDeleteUser(u) PROVE PeopleInv'
    <2>1. UsersOK'
      BY <1>8, DeleteUserKeeps DEF PeopleInv, People!handleDeleteUser
    <2>2. TasksOK' /\ FlowsOK'
      BY <1>1, <1>8, TasksStay, FlowsStay DEF PeopleInv, People!handleDeleteUser, People!OAuth
    <2> QED BY <2>1, <2>2 DEF PeopleInv
  <1>9. ASSUME NEW u \in UserIds, People!handleRefresh(u) PROVE PeopleInv'
    BY <1>1, <1>9, Untouched DEF People!handleRefresh, People!userVars, People!Store, People!OAuth
  <1>10. ASSUME NEW t \in 1..secretNo, People!SecretExpires(t) PROVE PeopleInv'
    BY <1>1, <1>10, Untouched DEF People!SecretExpires
  <1>11. ASSUME \/ \E s \in States : People!handleOAuthRedirect(s) \/ People!StateExpires(s)
                \/ People!cleanupExpiredStates \/ People!ReloadService
         PROVE  PeopleInv'
    BY <1>11, StatesKeep
  <1> QED BY <1>2, <1>3, <1>4, <1>5, <1>6, <1>7, <1>8, <1>9, <1>10, <1>11 DEF People!AccountNext

LEMMA PeopleShow == PeopleInv => People!UsersAreFound /\ People!StateEntersOnce
  <1> SUFFICES ASSUME PeopleInv PROVE People!UsersAreFound /\ People!StateEntersOnce
    OBVIOUS
  <1>1. UsersOK /\ UserTypes
    BY DEF PeopleInv, UsersOK
  <1>2. ASSUME NEW u \in People!Existing \ refused PROVE People!GetByEmail(users[u].email) = {u}
    <2>1. u \in UserIds /\ users[u].email \in UserEmails
      BY <1>1 DEF UserTypes, UserRecord, People!Existing
    <2>2. <<users[u].email, u>> \in mails
      BY <1>1 DEF UsersOK
    <2> QED BY <1>1, <2>1, <2>2 DEF UsersOK, People!GetByEmail
  <1>3. People!UsersAreFound
    BY <1>1, <1>2 DEF UsersOK, People!UsersAreFound, People!GetByEmail
  <1>4. People!StateEntersOnce
    BY DEF PeopleInv, FlowsOK, People!StateEntersOnce
  <1> QED BY <1>3, <1>4

------------------------------------------------------------------------------
\* Teams, administrators and users together.
BelongInv == TeamInv /\ AdminInv /\ PeopleInv

LEMMA BelongStart == Init => BelongInv
  BY TeamStart, AdminStart, PeopleStart DEF Init, BelongInv

LEMMA BelongKeeps ==
  BelongInv /\ [Next]_<<focus, registryVars, teamsVars, administratorsVars, peopleVars, meterVars, eventsVars, trailVars>>
    => BelongInv'
  <1> SUFFICES ASSUME BelongInv, [Next]_<<focus, registryVars, teamsVars, administratorsVars, peopleVars, meterVars,
                                         eventsVars, trailVars>>
               PROVE  BelongInv'
    OBVIOUS
  <1>1. Teams!TeamNext \/ UNCHANGED teamsVars
    BY DEF Next, RegistryStep, TeamsStep, AdministratorsStep, PeopleStep, MeterStep, EventsStep, TrailStep
  <1>2. Administrators!AdminNext \/ UNCHANGED administratorsVars
    BY DEF Next, RegistryStep, TeamsStep, AdministratorsStep, PeopleStep, MeterStep, EventsStep, TrailStep
  <1>3. People!AccountNext \/ UNCHANGED peopleVars
    BY DEF Next, RegistryStep, TeamsStep, AdministratorsStep, PeopleStep, MeterStep, EventsStep, TrailStep
  <1> QED BY <1>1, <1>2, <1>3, TeamKeeps, TeamStutter, AdminKeeps, PeopleKeep DEF BelongInv

LEMMA BelongShows == BelongInv => PeopleBelong
  BY TeamShows, AdminShows, PeopleShow DEF BelongInv, PeopleBelong

\* The strengthening: who is half way into a team, what a request has read of an
\* administrator or a user and is about to write back whole, and who holds a state.
THEOREM PeopleInductive == Spec => []BelongInv
  BY BelongStart, BelongKeeps, PTL DEF Spec

\* A member's index has the teams, an invitation that no two requests accept at
\* once lets one person in, an administrator signs in with the address on the
\* record unless two claimed it, a user whose update was not refused is found under
\* the address and nobody else is, and an OAuth state opens one session.
THEOREM PeopleTrue == Spec => []PeopleBelong
  BY PeopleInductive, BelongShows, PTL

------------------------------------------------------------------------------
\* Meter, events and audit trail together.  A step belongs to one component, and leaves the others.
RecordsInv == MeterInv /\ EventInv /\ TrailInv

LEMMA RecordsStart == Init => RecordsInv
  BY MeterStart, EventStart, TrailStart DEF Init, RecordsInv

LEMMA RecordsKeep ==
  RecordsInv /\ [Next]_<<focus, registryVars, teamsVars, administratorsVars, peopleVars, meterVars, eventsVars, trailVars>>
    => RecordsInv'
  <1> SUFFICES ASSUME RecordsInv, [Next]_<<focus, registryVars, teamsVars, administratorsVars, peopleVars, meterVars,
                                          eventsVars, trailVars>>
               PROVE  RecordsInv'
    OBVIOUS
  <1>1. Meter!MeterNext \/ UNCHANGED meterVars
    BY DEF Next, RegistryStep, TeamsStep, AdministratorsStep, PeopleStep, MeterStep, EventsStep, TrailStep
  <1>2. Events!AnalyticsNext \/ UNCHANGED eventsVars
    BY DEF Next, RegistryStep, TeamsStep, AdministratorsStep, PeopleStep, MeterStep, EventsStep, TrailStep
  <1>3. Trail!AuditNext \/ UNCHANGED trailVars
    BY DEF Next, RegistryStep, TeamsStep, AdministratorsStep, PeopleStep, MeterStep, EventsStep, TrailStep
  <1> QED BY <1>1, <1>2, <1>3, MeterKeeps, EventsKeep, TrailKeeps DEF RecordsInv

LEMMA RecordsSay == RecordsInv => RecordsAddUp
  BY MeterSays, EventsSay, TrailSays DEF RecordsInv, RecordsAddUp

\* The strengthening: what is in a flush, under way to the database or still to
\* be written of an entry, whatever step it stands at.
THEOREM RecordsInductive == Spec => []RecordsInv
  BY RecordsStart, RecordsKeep, PTL DEF Spec

\* What the node reports is what happened: the usage of a counter and the number
\* of events are exact but for what a crash, a failed commit, a second store or
\* two commits at once lost; a batch that is full is being taken; and the audit
\* trail has a logged entry in all its lists or in none, the last clearing in all.
THEOREM RecordsTrue == Spec => []RecordsAddUp
  BY RecordsInductive, RecordsSay, PTL

------------------------------------------------------------------------------
\* Types.  What the invariants above leave open of the variables' types.
AcceptingState == [pc : {"rest", "add", "save"}, token : Tokens, user : Users]
TeamRest == accepting \in [Requests -> AcceptingState] /\ crowded \subseteq Tokens

LEMMA TeamRestStart == Teams!TeamInit => TeamRest
  <1> SUFFICES ASSUME Teams!TeamInit PROVE TeamRest
    OBVIOUS
  <1>1. (CHOOSE t \in Tokens : TRUE) \in Tokens /\ Teams!AnyUser \in Users
    BY PeopleAssumption DEF Teams!AnyUser
  <1>2. Teams!Resting \in AcceptingState
    BY <1>1 DEF Teams!Resting, AcceptingState
  <1> QED BY <1>2 DEF Teams!TeamInit, TeamRest

LEMMA TeamRestKeeps == TeamInv /\ TeamRest /\ (Teams!TeamNext \/ UNCHANGED teamsVars) => TeamRest'
  <1> SUFFICES ASSUME TeamInv, TeamRest, Teams!TeamNext \/ UNCHANGED teamsVars PROVE TeamRest'
    OBVIOUS
  <1>1. accepting \in [Requests -> AcceptingState] /\ crowded \subseteq Tokens /\ drawn \subseteq Users
    BY DEF TeamRest, TeamInv, TeamTypes
  <1>2. Teams!Resting \in AcceptingState
    <2>1. (CHOOSE t \in Tokens : TRUE) \in Tokens /\ Teams!AnyUser \in Users
      BY PeopleAssumption DEF Teams!AnyUser
    <2> QED BY <2>1 DEF Teams!Resting, AcceptingState
  <1>3. CASE UNCHANGED <<accepting, crowded>>
    BY <1>1, <1>3 DEF TeamRest, AcceptingState
  <1>4. ASSUME NEW r \in Requests, NEW t \in Tokens, NEW u \in Users, Teams!LookUp(r, t, u) PROVE TeamRest'
    <2>1. crowded' \subseteq Tokens
      BY <1>1, <1>4 DEF Teams!LookUp
    <2>2. PICK step : step = [pc |-> "add", token |-> t, user |-> u]
      OBVIOUS
    <2>3. step \in AcceptingState
      BY <2>2 DEF AcceptingState
    <2>4. accepting' = accepting \/ accepting' = [accepting EXCEPT ![r] = step]
      BY <1>4, <2>2 DEF Teams!LookUp
    <2>5. accepting' \in [Requests -> AcceptingState]
      BY <1>1, <2>3, <2>4
    <2> QED BY <2>1, <2>5 DEF TeamRest, AcceptingState
  <1>5. ASSUME NEW r \in Requests, Teams!AcceptAdds(r) \/ Teams!AcceptSaves(r) PROVE TeamRest'
    <2>1. PICK step : step = [accepting[r] EXCEPT !.pc = "save"]
      OBVIOUS
    <2>2. step \in AcceptingState
      BY <1>1, <2>1 DEF AcceptingState
    <2>3. \/ accepting' = [accepting EXCEPT ![r] = Teams!Resting]
          \/ accepting' = [accepting EXCEPT ![r] = step]
      BY <1>1, <1>5, <2>1 DEF Teams!AcceptAdds, Teams!AcceptSaves
    <2>4. crowded' = crowded
      BY <1>5 DEF Teams!AcceptAdds, Teams!AcceptSaves
    <2>5. accepting' \in [Requests -> AcceptingState]
      BY <1>1, <1>2, <2>2, <2>3
    <2> QED BY <1>1, <2>4, <2>5 DEF TeamRest, AcceptingState
  <1>6. ASSUME NEW r \in Requests, NEW t \in Tokens, Teams!handleRegisterAndAccept(r, t) PROVE TeamRest'
    <2>1. PICK u \in Users : Teams!LookUp(r, t, u)
      BY <1>6 DEF Teams!handleRegisterAndAccept
    <2> QED BY <1>4, <2>1
  <1>7. ASSUME NEW r \in Requests, NEW t \in Tokens, NEW u \in drawn, Teams!handleAcceptInvitation(r, t, u) PROVE TeamRest'
    <2>1. u \in Users /\ Teams!LookUp(r, t, u)
      BY <1>1, <1>7 DEF Teams!handleAcceptInvitation
    <2> QED BY <1>4, <2>1
  <1>8. \/ UNCHANGED <<accepting, crowded>>
        \/ \E r \in Requests, t \in Tokens, u \in drawn : Teams!handleAcceptInvitation(r, t, u)
        \/ \E r \in Requests, t \in Tokens : Teams!handleRegisterAndAccept(r, t)
        \/ \E r \in Requests : Teams!AcceptAdds(r) \/ Teams!AcceptSaves(r)
    BY DEF Teams!TeamNext, teamsVars, Teams!handleCreateInvitation, Teams!handleUpdateMemberRole,
           Teams!handleRemoveMember, Teams!handleDeleteGlobalMember, Teams!Expire
  <1> QED BY <1>3, <1>5, <1>6, <1>7, <1>8

LEMMA TeamSays == TeamInv /\ TeamRest => Teams!TeamTypeOK
  <1> SUFFICES ASSUME TeamInv, TeamRest PROVE Teams!TeamTypeOK
    OBVIOUS
  <1>1. TeamTypes
    BY DEF TeamInv
  <1>2. \A t \in Tokens : invites[t].status \in {"none", "pending", "accepted", "expired"}
    <2> SUFFICES ASSUME NEW t \in Tokens PROVE invites[t].status \in {"none", "pending", "accepted", "expired"}
      OBVIOUS
    <2>1. invites[t] \in Invitation \/ invites[t] = Teams!NoInvite
      BY <1>1 DEF TeamTypes
    <2>2. invites[t] \in Invitation => invites[t].status \in {"pending", "accepted", "expired"}
      BY DEF Invitation
    <2> QED BY <2>1, <2>2, TeamRoles
  <1> QED BY <1>1, <1>2 DEF TeamTypes, TeamRest, AcceptingState, Teams!TeamTypeOK

\* Administrators.
AdminRest == issued \subseteq AdminIds /\ envEmail \in EnvEmails

LEMMA AdminRestStart == Administrators!AdminInit => AdminRest
  BY PeopleAssumption DEF Administrators!AdminInit, AdminRest

LEMMA AdminRestKeeps == AdminRest /\ (Administrators!AdminNext \/ UNCHANGED administratorsVars) => AdminRest'
  <1> SUFFICES ASSUME AdminRest, Administrators!AdminNext \/ UNCHANGED administratorsVars PROVE AdminRest'
    OBVIOUS
  <1>1. CASE UNCHANGED <<issued, envEmail>>
    BY <1>1 DEF AdminRest
  <1>2. ASSUME NEW r \in AdminReqs, Administrators!Finish(r) PROVE AdminRest'
    <2>1. issued' \subseteq AdminIds
      BY <1>2 DEF AdminRest, Administrators!Finish, Administrators!Create, Administrators!Register
    <2> QED BY <1>2, <2>1 DEF AdminRest, Administrators!Finish
  <1>3. CASE Administrators!RestartAdmins
    <2>1. issued' \subseteq AdminIds
      BY <1>3 DEF AdminRest, Administrators!RestartAdmins, Administrators!SeedDefault, Administrators!Register
    <2> QED BY <1>3, <2>1 DEF AdminRest, Administrators!RestartAdmins
  <1>4. \/ UNCHANGED <<issued, envEmail>>
        \/ \E r \in AdminReqs : Administrators!Finish(r)
        \/ Administrators!RestartAdmins
    BY DEF Administrators!AdminNext, administratorsVars, Administrators!handleCreateAdmin, Administrators!handleDeleteAdmin,
           Administrators!handleUpdateAdminRole, Administrators!handleUpdateMyProfile, Administrators!applyAdminAccountUpdate,
           Administrators!handleLogin, Administrators!Store
  <1> QED BY <1>1, <1>2, <1>3, <1>4

LEMMA AdminSays == AdminInv /\ AdminRest => Administrators!AdminTypeOK
  <1> SUFFICES ASSUME AdminInv, AdminRest PROVE Administrators!AdminTypeOK
    OBVIOUS
  <1>1. StoreTypes /\ work \in [AdminReqs -> AdminTask] /\ Administrators!Admins \subseteq issued
    BY DEF AdminInv, StoreOK
  <1>2. \A r \in AdminReqs : work[r].pc \in {"rest", "create", "write", "delete"}
    <2> SUFFICES ASSUME NEW r \in AdminReqs PROVE work[r].pc \in {"rest", "create", "write", "delete"}
      OBVIOUS
    <2>1. work[r] \in AdminTask
      BY <1>1
    <2> QED BY <2>1 DEF AdminTask, Administrators!Resting
  <1> QED BY <1>1, <1>2 DEF StoreTypes, AdminRest, AdminRecord, Administrators!AdminTypeOK

\* Users.  Who holds tokens was given an identifier, and no document keeps multi-factor data.
NoMFA(us) == \A u \in UserIds : us[u] = People!NoUser \/ us[u].mfa = FALSE
PeopleRest == holders \subseteq given /\ given \subseteq UserIds /\ overdue \subseteq 1..secretNo /\ NoMFA(users)

LEMMA PeopleRestStart == People!AccountInit => PeopleRest
  BY DEF People!AccountInit, PeopleRest, NoMFA

LEMMA MapHasNoMFA == ASSUME NEW user \in UserRecord PROVE People!userToMap(user).mfa = FALSE
  BY DEF UserRecord, People!userToMap

LEMMA CreateRests ==
  ASSUME UsersOK, NoMFA(users), given \subseteq UserIds, NEW u \in UserIds, NEW user \in UserRecord, People!CreateUser(u, user)
  PROVE  given \subseteq given' /\ given' \subseteq UserIds /\ u \in given' /\ NoMFA(users)'
  <1>1. users' = [users EXCEPT ![u] = People!userToMap(user)] /\ given' = given \cup {u}
    BY DEF People!CreateUser
  <1>2. users \in [UserIds -> UserRecord \cup {People!NoUser}]
    BY DEF UsersOK, UserTypes
  <1>3. People!userToMap(user).mfa = FALSE
    BY MapHasNoMFA
  <1>4. \A v \in UserIds : users'[v] = users[v] \/ users'[v] = People!userToMap(user)
    BY <1>1, <1>2
  <1> QED BY <1>1, <1>3, <1>4 DEF NoMFA

LEMMA UpdateRests ==
  ASSUME UsersOK, NoMFA(users), NEW u \in UserIds, NEW user \in UserRecord, People!UpdateUser(u, user)
  PROVE  given' = given /\ NoMFA(users)'
  <1>1. users' = users \/ users' = [users EXCEPT ![u] = People!userToMap(user)]
    BY DEF People!UpdateUser, People!Store
  <1>2. users \in [UserIds -> UserRecord \cup {People!NoUser}]
    BY DEF UsersOK, UserTypes
  <1>3. People!userToMap(user).mfa = FALSE
    BY MapHasNoMFA
  <1>4. \A v \in UserIds : users'[v] = users[v] \/ users'[v] = People!userToMap(user)
    BY <1>1, <1>2
  <1>5. given' = given
    BY DEF People!UpdateUser, People!Store
  <1> QED BY <1>3, <1>4, <1>5 DEF NoMFA

LEMMA SignUpRests ==
  ASSUME UsersOK, NoMFA(users), given \subseteq UserIds, secretNo \in Nat,
         NEW u \in UserIds, NEW e \in UserEmails, NEW verify \in BOOLEAN, People!SignUp(u, e, verify)
  PROVE  given \subseteq given' /\ given' \subseteq UserIds /\ u \in given' /\ NoMFA(users)' /\ secretNo <= secretNo'
  <1>1. secretNo' \in Nat /\ secretNo <= secretNo'
    BY DEF People!SignUp, People!Draw
  <1>2. PICK n \in Nat : n = secretNo'
    BY <1>1
  <1>3. People!CreateUser(u, People!NewUser(e, n)) \/ People!CreateUser(u, People!NewUser(e, 0))
    BY <1>2 DEF People!SignUp
  <1>4. People!NewUser(e, n) \in UserRecord /\ People!NewUser(e, 0) \in UserRecord
    BY PeopleFacts
  <1> QED BY <1>1, <1>3, <1>4, CreateRests

LEMMA PeopleRestKeeps == PeopleInv /\ PeopleRest /\ (People!AccountNext \/ UNCHANGED peopleVars) => PeopleRest'
  <1> SUFFICES ASSUME PeopleInv, PeopleRest, People!AccountNext \/ UNCHANGED peopleVars PROVE PeopleRest'
    OBVIOUS
  <1>1. /\ UsersOK /\ NoMFA(users) /\ given \subseteq UserIds /\ holders \subseteq given
        /\ overdue \subseteq 1..secretNo /\ secretNo \in Nat /\ People!Existing \subseteq given
    BY DEF PeopleInv, PeopleRest, UsersOK, TasksOK
  <1>2. ASSUME UNCHANGED People!Store, UNCHANGED <<overdue, holders>>, secretNo' = secretNo \/ secretNo' = secretNo + 1
        PROVE  PeopleRest'
    <2>1. UNCHANGED <<users, given, overdue, holders>>
      BY <1>2 DEF People!Store
    <2>2. 1..secretNo \subseteq 1..secretNo'
      BY <1>1, <1>2
    <2> QED BY <1>1, <2>1, <2>2 DEF PeopleRest, NoMFA
  <1>3. ASSUME UNCHANGED overdue, given \subseteq given', given' \subseteq UserIds, NoMFA(users)',
               secretNo' = secretNo \/ secretNo' = secretNo + 1, holders' \subseteq given'
        PROVE  PeopleRest'
    <2>1. 1..secretNo \subseteq 1..secretNo'
      BY <1>1, <1>3
    <2> QED BY <1>1, <1>3, <2>1 DEF PeopleRest
  <1>4. ASSUME NEW e \in UserEmails, People!handleSignUp(e) PROVE PeopleRest'
    <2>1. PICK u \in UserIds, verify \in BOOLEAN :
            People!SignUp(u, e, verify) /\ holders' = IF verify THEN holders ELSE holders \cup {u}
      BY <1>4 DEF People!handleSignUp
    <2>2. given \subseteq given' /\ given' \subseteq UserIds /\ u \in given' /\ NoMFA(users)'
      BY <1>1, <2>1, SignUpRests
    <2>3. secretNo' = secretNo \/ secretNo' = secretNo + 1
      BY <2>1 DEF People!SignUp, People!Draw
    <2>4. holders' \subseteq given' /\ UNCHANGED overdue
      BY <1>1, <1>4, <2>1, <2>2 DEF People!handleSignUp
    <2> QED BY <1>3, <2>2, <2>3, <2>4
  <1>5. ASSUME NEW r \in UserReqs, NEW e \in UserEmails, People!handleCreateUser(r, e) PROVE PeopleRest'
    <2>1. PICK u \in UserIds : People!SignUp(u, e, FALSE)
      BY <1>5 DEF People!handleCreateUser
    <2>2. given \subseteq given' /\ given' \subseteq UserIds /\ NoMFA(users)'
      BY <1>1, <2>1, SignUpRests
    <2>3. secretNo' = secretNo
      BY <2>1 DEF People!SignUp
    <2>4. holders' \subseteq given' /\ UNCHANGED overdue
      BY <1>1, <1>5, <2>2 DEF People!handleCreateUser
    <2> QED BY <1>3, <2>2, <2>3, <2>4
  <1>6. ASSUME NEW e \in UserEmails, People!handleSignIn(e) PROVE PeopleRest'
    <2>1. PICK u \in People!GetByEmail(e) : People!SignInWithMFA(u)
      BY <1>6 DEF People!handleSignIn
    <2>2. u \in People!Existing
      BY <1>1 DEF UsersOK, People!GetByEmail, People!Existing
    <2>3. holders' \subseteq given
      BY <1>1, <2>1, <2>2 DEF People!SignInWithMFA
    <2>4. UNCHANGED <<users, given, overdue, secretNo>>
      BY <1>6 DEF People!handleSignIn, People!Store
    <2> QED BY <1>1, <2>3, <2>4 DEF PeopleRest, NoMFA
  <1>7. ASSUME NEW r \in UserReqs, People!Finish(r) PROVE PeopleRest'
    <2>1. serving[r] \in UserTask /\ serving[r].pc = "write" /\ People!UpdateUser(serving[r].u, serving[r].user)
      BY <1>7 DEF PeopleInv, TasksOK, People!Finish
    <2>2. serving[r].u \in UserIds /\ serving[r].user \in UserRecord
      BY <2>1 DEF UserTask, WriteTask, People!Resting
    <2>3. given' = given /\ NoMFA(users)'
      BY <1>1, <2>1, <2>2, UpdateRests
    <2>4. UNCHANGED <<secretNo, overdue, holders>>
      BY <1>7 DEF People!Finish
    <2> QED BY <1>1, <1>3, <2>3, <2>4
  <1>8. ASSUME NEW r \in UserReqs, NEW e \in UserEmails, People!ExchangeReturns(r, e) PROVE PeopleRest'
    <2>1. UNCHANGED <<secretNo, overdue>>
      BY <1>8 DEF People!ExchangeReturns
    <2>2. CASE \E u \in UserIds : People!CreateUser(u, People!NewUser(e, 0)) /\ holders' = holders \cup {u}
      <3>1. PICK u \in UserIds : People!CreateUser(u, People!NewUser(e, 0)) /\ holders' = holders \cup {u}
        BY <2>2
      <3>2. People!NewUser(e, 0) \in UserRecord
        BY PeopleFacts
      <3>3. given \subseteq given' /\ given' \subseteq UserIds /\ u \in given' /\ NoMFA(users)'
        BY <1>1, <3>1, <3>2, CreateRests
      <3> QED BY <1>1, <1>3, <2>1, <3>1, <3>3
    <2>3. CASE \E u \in People!GetByEmail(e) : People!UpdateUser(u, users[u]) /\ holders' = holders \cup {u}
      <3>1. PICK u \in People!GetByEmail(e) : People!UpdateUser(u, users[u]) /\ holders' = holders \cup {u}
        BY <2>3
      <3>2. u \in UserIds /\ users[u] \in UserRecord /\ u \in People!Existing
        BY <1>1 DEF UsersOK, UserTypes, People!GetByEmail, People!Existing
      <3>3. given' = given /\ NoMFA(users)'
        BY <1>1, <3>1, <3>2, UpdateRests
      <3> QED BY <1>1, <1>3, <2>1, <3>1, <3>2, <3>3
    <2> QED BY <1>8, <2>2, <2>3 DEF People!ExchangeReturns
  <1>9. ASSUME NEW u \in UserIds, People!handleDeleteUser(u) PROVE PeopleRest'
    <2>1. users' = [users EXCEPT ![u] = People!NoUser] /\ UNCHANGED <<given, holders, secretNo, overdue>>
      BY <1>9 DEF People!handleDeleteUser
    <2>2. users \in [UserIds -> UserRecord \cup {People!NoUser}]
      BY <1>1 DEF UsersOK, UserTypes
    <2>3. \A v \in UserIds : users'[v] = users[v] \/ users'[v] = People!NoUser
      BY <2>1, <2>2
    <2>4. NoMFA(users)'
      BY <1>1, <2>3 DEF NoMFA
    <2> QED BY <1>1, <1>3, <2>1, <2>4
  <1>10. ASSUME NEW t \in 1..secretNo, People!SecretExpires(t) PROVE PeopleRest'
    <2>1. UNCHANGED <<users, given, holders, secretNo>> /\ overdue' = overdue \cup {t}
      BY <1>10 DEF People!SecretExpires, People!Store
    <2> QED BY <1>1, <2>1 DEF PeopleRest, NoMFA
  <1>11. ASSUME NEW r \in UserReqs,
                \/ \E e \in UserEmails : People!handleForgotPassword(r, e) \/ People!handleCreateMagicLink(r, e)
                \/ \E t \in 1..secretNo : People!handleVerifyEmail(r, t) \/ People!handleResetPassword(r, t)
                \/ \E u \in UserIds : \/ People!handleVerifyMagicLink(r, u) \/ People!handleUpdateMe(r, u)
                                      \/ People!handleMFASetup(r, u) \/ People!handleMFAConfirm(r, u)
                                      \/ People!handleMFADisable(r, u) \/ People!handleResetUserPassword(r, u)
                                      \/ \E e \in UserEmails : People!handleUpdateUser(r, u, e)
                \/ \E s \in States : People!handleOAuthCallback(r, s)
         PROVE  PeopleRest'
    <2>1. /\ UNCHANGED People!Store /\ UNCHANGED <<overdue, holders>>
          /\ secretNo' = secretNo \/ secretNo' = secretNo + 1
      BY <1>11 DEF People!handleForgotPassword, People!ForgotPassword, People!handleCreateMagicLink, People!CreateMagicLink,
            People!handleVerifyEmail, People!VerifyEmail, People!handleResetPassword, People!ResetPassword,
            People!handleVerifyMagicLink, People!VerifyMagicLink, People!handleUpdateMe, People!handleMFASetup, People!SetupMFA,
            People!handleMFAConfirm, People!ConfirmMFA, People!handleMFADisable, People!DisableMFA,
            People!handleResetUserPassword, People!handleUpdateUser, People!handleOAuthCallback, People!HandleOAuthCallback,
            People!Draw
    <2> QED BY <1>2, <2>1
  <1>12. ASSUME \/ UNCHANGED peopleVars \/ \E u \in UserIds : People!handleRefresh(u)
                \/ \E s \in States : People!handleOAuthRedirect(s) \/ People!StateExpires(s)
                \/ People!cleanupExpiredStates \/ People!ReloadService
         PROVE  PeopleRest'
    <2>1. UNCHANGED People!Store /\ UNCHANGED <<overdue, holders>> /\ secretNo' = secretNo
      BY <1>12 DEF peopleVars, People!handleRefresh, People!userVars, People!handleOAuthRedirect, People!CreateOAuthState,
            People!StateExpires, People!cleanupExpiredStates, People!ReloadService, People!Store
    <2> QED BY <1>2, <2>1
  <1> QED BY <1>4, <1>5, <1>6, <1>7, <1>8, <1>9, <1>10, <1>11, <1>12 DEF People!AccountNext

LEMMA PeopleSays == PeopleInv /\ PeopleRest => People!AccountTypeOK
  <1> SUFFICES ASSUME PeopleInv, PeopleRest PROVE People!AccountTypeOK
    OBVIOUS
  <1>1. UserTypes /\ People!Existing \cup refused \subseteq given /\ serving \in [UserReqs -> UserTask]
    BY DEF PeopleInv, UsersOK, TasksOK
  <1>2. \A u \in People!Existing : users[u].email \in UserEmails /\ ~users[u].mfa
    <2> SUFFICES ASSUME NEW u \in People!Existing PROVE users[u].email \in UserEmails /\ ~users[u].mfa
      OBVIOUS
    <2>1. u \in UserIds /\ users[u] \in UserRecord /\ users[u].mfa = FALSE
      BY <1>1 DEF UserTypes, People!Existing, PeopleRest, NoMFA
    <2> QED BY <2>1 DEF UserRecord
  <1>3. \A r \in UserReqs : serving[r].pc \in {"rest", "write", "exchange"}
    <2> SUFFICES ASSUME NEW r \in UserReqs PROVE serving[r].pc \in {"rest", "write", "exchange"}
      OBVIOUS
    <2>1. serving[r] \in UserTask
      BY <1>1
    <2> QED BY <2>1 DEF UserTask, WriteTask, People!Resting
  <1>4. states \in [States -> {"none", "open", "late", "gone"}]
    BY DEF PeopleInv, FlowsOK
  <1> QED BY <1>1, <1>2, <1>3, <1>4 DEF UserTypes, PeopleRest, People!AccountTypeOK

------------------------------------------------------------------------------
\* The meter stays within its bound, since every count was made.
MeterRest == \A c \in Meter!Counters : made[c] <= MaxCount

LEMMA MeterRestStart == Meter!MeterInit => MeterRest
  BY TenancyAssumption DEF Meter!MeterInit, Meter!Zero, MeterRest

LEMMA MeterRestKeeps == MeterInv /\ MeterRest /\ (Meter!MeterNext \/ UNCHANGED meterVars) => MeterRest'
  <1> SUFFICES ASSUME MeterInv, MeterRest, Meter!MeterNext \/ UNCHANGED meterVars PROVE MeterRest'
    OBVIOUS
  <1>1. made \in [Meter!Counters -> Nat] /\ counting \in [MeterReqs -> Seq(Meter!Counters)]
    BY DEF MeterInv, MeterTypes
  <1>2. CASE made' = made
    BY <1>2 DEF MeterRest, Meter!Counters, Meter!Access
  <1>3. ASSUME NEW r \in MeterReqs, Meter!Inc(r) PROVE MeterRest'
    <2>1. PICK c : /\ c = Head(counting[r]) /\ counting[r] # <<>> /\ made[c] < MaxCount
                   /\ made' = [made EXCEPT ![c] = made[c] + 1]
      BY <1>3 DEF Meter!Inc
    <2>2. c \in Meter!Counters
      <3>1. counting[r] \in Seq(Meter!Counters)
        BY <1>1
      <3> QED BY <2>1, <3>1
    <2>3. ASSUME NEW x \in Meter!Counters PROVE made'[x] <= MaxCount
      <3>1. made[c] \in Nat /\ made[x] <= MaxCount
        BY <1>1, <2>2 DEF MeterRest
      <3>2. made'[x] = IF x = c THEN made[c] + 1 ELSE made[x]
        BY <1>1, <2>1
      <3> QED BY <2>1, <3>1, <3>2, TenancyAssumption
    <2> QED BY <2>3 DEF MeterRest, Meter!Counters, Meter!Access
  <1>4. ASSUME NEW r \in MeterReqs,
               \/ \E m \in Methods : Meter!MeteringMiddleware(r, m) \/ Meter!projectLogger(r, m)
               \/ Meter!ReadDelta(r) \/ Meter!handleProjectUsage(r) \/ Meter!handleUsageStats(r)
        PROVE  made' = made
    BY <1>4 DEF Meter!MeteringMiddleware, Meter!projectLogger, Meter!adminLogger, Meter!Counts, Meter!ReadDelta,
       Meter!handleProjectUsage, Meter!handleUsageStats, Meter!Get, Meter!readInt64WithDelta
  <1>5. CASE UNCHANGED meterVars \/ Meter!flush \/ Meter!Commit \/ Meter!CrashMeter \/ \E c \in Meter!Counters : Meter!Collect(c)
    <2>1. made' = made
      BY <1>5 DEF meterVars, Meter!flush, Meter!Commit, Meter!CrashMeter, Meter!Collect
    <2> QED BY <1>2, <2>1
  <1> QED BY <1>2, <1>3, <1>4, <1>5 DEF Meter!MeterNext

LEMMA MeterTyped == MeterInv /\ MeterRest => Meter!MeterTypeOK
  <1> SUFFICES ASSUME MeterInv, MeterRest PROVE Meter!MeterTypeOK
    OBVIOUS
  <1>1. MeterTypes
    BY DEF MeterInv
  <1>2. ASSUME NEW c \in Meter!Counters
        PROVE  /\ delta[c] \in 0..MaxCount /\ totals[c] \in 0..MaxCount /\ made[c] \in 0..MaxCount
               /\ batch[c] \in (0..MaxCount) \cup {Meter!None}
    <2>1. /\ Meter!Batched(c) + delta[c] <= made[c] /\ (batch[c] # Meter!None => totals[c] <= batch[c])
          /\ made[c] <= MaxCount
      BY DEF MeterInv, MeterRest
    <2> QED BY <2>1, CounterIs, TenancyAssumption
  <1>3. ASSUME NEW r \in MeterReqs
        PROVE  reading[r] \in [counter : Meter!Counters \cup {"none"}, pebble : 0..MaxCount]
    <2>1. reading[r] \in [counter : Meter!Counters \cup {"none"}, pebble : Nat]
      BY <1>1 DEF MeterTypes
    <2>2. reading[r].pebble \in 0..MaxCount
      <3>1. CASE reading[r] = Meter!NotReading
        BY <3>1, TenancyAssumption DEF Meter!NotReading
      <3>2. CASE reading[r] # Meter!NotReading
        <4>1. PICK c \in Meter!Counters : c = reading[r].counter /\ reading[r].pebble <= totals[c]
          BY <3>2 DEF MeterInv
        <4> QED BY <1>2, <2>1, <4>1, TenancyAssumption
      <3> QED BY <3>1, <3>2
    <2> QED BY <2>1, <2>2
  <1>4. {delta, totals, made} \subseteq [Meter!Counters -> 0..MaxCount]
    BY <1>1, <1>2 DEF MeterTypes
  <1>5. batch \in [Meter!Counters -> (0..MaxCount) \cup {Meter!None}]
    BY <1>1, <1>2 DEF MeterTypes
  <1>6. reading \in [MeterReqs -> [counter : Meter!Counters \cup {"none"}, pebble : 0..MaxCount]]
    BY <1>1, <1>3 DEF MeterTypes
  <1> QED BY <1>1, <1>4, <1>5, <1>6 DEF MeterTypes, Meter!MeterTypeOK

------------------------------------------------------------------------------
\* The trail.
TrailRest ==
  /\ stops \in 0..MaxStops /\ overtaken \subseteq Trail!Entries
  /\ \A e \in Trail!Entries : Len(writing[e]) <= 4

LEMMA TrailRestStart == Trail!AuditInit => TrailRest
  <1> SUFFICES ASSUME Trail!AuditInit PROVE TrailRest
    OBVIOUS
  <1>1. stops = 0 /\ overtaken = {} /\ writing = [e \in Trail!Entries |-> <<>>]
    BY DEF Trail!AuditInit
  <1>2. \A e \in Trail!Entries : Len(writing[e]) <= 4
    BY <1>1
  <1> QED BY <1>1, <1>2, TenancyAssumption DEF TrailRest

LEMMA LongLogs == Len(Trail!Targeted) <= 4 /\ Len(Trail!Untargeted) <= 4
  BY DEF Trail!Targeted, Trail!Untargeted

LEMMA LogsAreShort ==
  ASSUME TrailInv, TrailRest, NEW e, NEW s, Len(s) <= 4, writing' = [writing EXCEPT ![e] = s],
         stops' = stops, overtaken' = overtaken
  PROVE  TrailRest'
  <1>1. ASSUME NEW f \in Trail!Entries PROVE Len(writing'[f]) <= 4
    <2>1. writing'[f] = IF f = e THEN s ELSE writing[f]
      BY DEF TrailInv, TrailTypes
    <2> QED BY <2>1 DEF TrailRest
  <1> QED BY <1>1 DEF TrailRest, Trail!Entries

LEMMA TrailRestKeeps == TrailInv /\ TrailRest /\ (Trail!AuditNext \/ UNCHANGED trailVars) => TrailRest'
  <1> SUFFICES ASSUME TrailInv, TrailRest, Trail!AuditNext \/ UNCHANGED trailVars PROVE TrailRest'
    OBVIOUS
  <1>1. CASE writing' = writing /\ stops' \in 0..MaxStops /\ overtaken' \subseteq Trail!Entries
    BY <1>1 DEF TrailRest, Trail!Entries
  <1>2. ASSUME NEW e \in Trail!Entries, Trail!Log(e) PROVE TrailRest'
    <2>1. stops' = stops /\ overtaken' = overtaken /\ writing[e] # <<>>
      BY <1>2 DEF Trail!Log
    <2>2. CASE writing' = writing
      BY <1>1, <2>1, <2>2 DEF TrailRest
    <2>3. CASE writing' = [writing EXCEPT ![e] = Tail(writing[e])]
      <3>1. PICK s \in Seq(Trail!Records) : s = writing[e] /\ s # <<>> /\ Len(s) <= 4
        BY <2>1 DEF TrailInv, TrailTypes, TrailRest
      <3>2. Len(Tail(s)) <= 4
        BY <3>1
      <3> QED BY <2>1, <2>3, <3>1, <3>2, LogsAreShort
    <2> QED BY <1>2, <2>2, <2>3 DEF Trail!Log
  <1>3. ASSUME NEW r \in AuditReqs, NEW kind \in {"project", "server"}, Trail!adminLogger(r, kind) PROVE TrailRest'
    <2>1. /\ stops' = stops /\ overtaken' = overtaken
          /\ writing' = [writing EXCEPT ![<<r, "logger">>] = Trail!deriveTarget(kind)]
      BY <1>3 DEF Trail!adminLogger, Trail!BeginLog
    <2>2. Len(Trail!deriveTarget(kind)) <= 4
      BY LongLogs DEF Trail!deriveTarget
    <2> QED BY <2>1, <2>2, LogsAreShort
  <1>4. ASSUME NEW r \in AuditReqs, Trail!TellClear(r) PROVE TrailRest'
    <2>1. /\ stops' = stops /\ overtaken' = overtaken
          /\ writing' = [writing EXCEPT ![<<r, "handler">>] = Trail!Targeted]
      BY <1>4 DEF Trail!TellClear, Trail!BeginLog
    <2> QED BY <2>1, LongLogs, LogsAreShort
  <1>5. ASSUME NEW r \in AuditReqs,
               Trail!Act(r) \/ Trail!BeginClear(r) \/ Trail!ClearFails(r) \/ Trail!AnswerClear(r)
        PROVE  TrailRest'
    <2>1. writing' = writing /\ stops' = stops /\ overtaken' = overtaken
      BY <1>5 DEF Trail!Act, Trail!BeginClear, Trail!ClearFails, Trail!AnswerClear
    <2> QED BY <1>1, <2>1 DEF TrailRest
  <1>6. ASSUME NEW r \in AuditReqs, Trail!PurgeBefore(r) PROVE TrailRest'
    <2>1. /\ writing' = writing /\ stops' = stops
          /\ overtaken' = overtaken \cup {e \in requests[r].read : outcome[e] = "logging"}
      BY <1>6 DEF Trail!PurgeBefore
    <2>2. requests[r] \in Request
      BY DEF TrailInv, TrailTypes
    <2>3. requests[r].read \subseteq Trail!Entries
      BY <2>2 DEF Request
    <2>4. overtaken' \subseteq Trail!Entries
      BY <2>1, <2>3 DEF TrailRest
    <2> QED BY <1>1, <2>1, <2>4 DEF TrailRest
  <1>7. CASE Trail!AuditCrash
    <2>1. writing' = writing /\ stops' = stops + 1 /\ stops < MaxStops /\ overtaken' = overtaken
      BY <1>7 DEF Trail!AuditCrash
    <2>2. stops' \in 0..MaxStops
      BY <2>1, TenancyAssumption DEF TrailRest
    <2> QED BY <1>1, <2>1, <2>2 DEF TrailRest
  <1>8. CASE UNCHANGED trailVars
    <2>1. writing' = writing /\ stops' = stops /\ overtaken' = overtaken
      BY <1>8 DEF trailVars
    <2> QED BY <1>1, <2>1 DEF TrailRest
  <1> QED BY <1>2, <1>3, <1>4, <1>5, <1>6, <1>7, <1>8 DEF Trail!AuditNext

LEMMA TrailTyped == TrailInv /\ TrailRest => Trail!AuditTypeOK
  <1> SUFFICES ASSUME TrailInv, TrailRest PROVE Trail!AuditTypeOK
    OBVIOUS
  <1>1. TrailTypes
    BY DEF TrailInv
  <1>2. {onDisk, needs} \subseteq [Trail!Entries -> SUBSET Trail!Records]
    BY <1>1 DEF TrailTypes
  <1>3. \A e \in Trail!Entries : Len(writing[e]) <= 4 /\ writing[e] \in Seq(Trail!Records)
    BY <1>1 DEF TrailTypes, TrailRest
  <1>4. /\ outcome \in [Trail!Entries -> {"none", "logging", "logged", "failed"}]
        /\ requests \in [AuditReqs -> [pc : {"idle", "clearing", "cleared", "telling", "answered", "over"},
                                       read : SUBSET Trail!Entries]]
    BY <1>1 DEF TrailTypes, Outcomes, Request
  <1>5. lastClear \in AuditReqs \cup {"nobody"} /\ overtaken \subseteq Trail!Entries /\ stops \in 0..MaxStops
    BY <1>1 DEF TrailTypes, TrailRest
  <1> QED BY <1>2, <1>3, <1>4, <1>5 DEF Trail!AuditTypeOK

------------------------------------------------------------------------------
\* Events.  What is counted, held and under way was accepted, and what a commit
\* has read is the count that was, with nothing of what is still held in it.
Held == Events!Sum(memory) + Events!Sum(Batches)
EventRest ==
  /\ accepted <= MaxEvents /\ total + Held <= accepted
  /\ \A r \in EventReqs : ingests[r].read + Held <= accepted

LEMMA HeldIs == EventInv => Held \in Nat /\ Events!Sum(memory) \in Nat /\ Events!Sum(Batches) \in Nat
  <1> SUFFICES ASSUME EventInv PROVE Held \in Nat /\ Events!Sum(memory) \in Nat /\ Events!Sum(Batches) \in Nat
    OBVIOUS
  <1>1. Cardinality(Events!Pairs(memory)) \in Nat /\ Cardinality(Events!Pairs(Batches)) \in Nat
    BY FS_CardinalityType DEF EventInv
  <1> QED BY <1>1, SumCounts DEF Held

\* What one request and one store hold moves the sum by as much.
LEMMA HeldMoves ==
  ASSUME EventInv, NEW r \in EventReqs, NEW new \in Ingest, NEW s \in Events!Ids, NEW m \in Nat,
         ingests' = [ingests EXCEPT ![r] = new], memory' = [memory EXCEPT ![s] = m]
  PROVE  Held' \in Nat /\ Held' + memory[s] + ingests[r].batch = Held + m + new.batch
  <1>1. EventTypes
    BY DEF EventInv
  <1>2. /\ ingests[r] \in Ingest /\ memory[s] \in Nat /\ ingests'[r] = new /\ memory'[s] = m
        /\ \A q \in EventReqs \ {r} : ingests'[q] = ingests[q]
        /\ \A x \in Events!Ids \ {s} : memory'[x] = memory[x]
    BY <1>1 DEF EventTypes
  <1>3. memory' \in [Events!Ids -> Nat] /\ ingests' \in [EventReqs -> Ingest] /\ memory \in [Events!Ids -> Nat]
    BY <1>1 DEF EventTypes
  <1>4. Batches' = [q \in EventReqs |-> ingests'[q].batch]
    BY DEF Batches
  <1>5. /\ Batches \in [EventReqs -> Nat] /\ Batches' \in [EventReqs -> Nat]
        /\ \A q \in EventReqs \ {r} : Batches'[q] = Batches[q]
        /\ Batches[r] = ingests[r].batch /\ Batches'[r] = new.batch
    <2>1. \A q \in EventReqs : ingests[q].batch \in Nat /\ ingests'[q].batch \in Nat
      BY <1>1, <1>3 DEF EventTypes, Ingest
    <2> QED BY <1>2, <1>4, <2>1 DEF Batches
  <1>6. /\ Events!Sum(memory) \in Nat /\ Events!Sum(memory') \in Nat
        /\ Events!Sum(memory') + memory[s] = Events!Sum(memory) + m
    <2>1. IsFiniteSet(Events!Pairs(memory))
      BY DEF EventInv
    <2>2. PICK f, g : f = memory /\ g = memory'
      OBVIOUS
    <2>3. /\ f \in [Events!Ids -> Nat] /\ g \in [Events!Ids -> Nat] /\ \A x \in Events!Ids \ {s} : g[x] = f[x]
          /\ f[s] = memory[s] /\ g[s] = m /\ IsFiniteSet(Events!Pairs(f))
      BY <1>2, <1>3, <2>1, <2>2
    <2>4. /\ Events!Sum(f) \in Nat /\ Events!Sum(g) \in Nat
          /\ Events!Sum(g) + f[s] = Events!Sum(f) + g[s]
      BY <2>3, SumMoves
    <2> QED BY <2>2, <2>3, <2>4
  <1>7. /\ Events!Sum(Batches) \in Nat /\ Events!Sum(Batches') \in Nat
        /\ Events!Sum(Batches') + ingests[r].batch = Events!Sum(Batches) + new.batch
    <2>1. IsFiniteSet(Events!Pairs(Batches))
      BY DEF EventInv
    <2> HIDE DEF Batches
    <2>2. PICK f, g : f = Batches /\ g = Batches'
      OBVIOUS
    <2> QED BY <1>5, <2>1, <2>2, SumMoves
  <1>8. ingests[r].batch \in Nat /\ new.batch \in Nat
    BY <1>2 DEF Ingest
  <1>9. Held = Events!Sum(memory) + Events!Sum(Batches) /\ Held' = Events!Sum(memory') + Events!Sum(Batches')
    BY DEF Held
  <1>10. PICK f, f2, g, g2, v, b, b2 :
           /\ f = Events!Sum(memory) /\ f2 = Events!Sum(memory') /\ g = Events!Sum(Batches) /\ g2 = Events!Sum(Batches')
           /\ v = memory[s] /\ b = ingests[r].batch /\ b2 = new.batch
    OBVIOUS
  <1>11. /\ {f, f2, g, g2, v, b, b2} \subseteq Nat /\ f2 + v = f + m /\ g2 + b = g + b2
    BY <1>2, <1>6, <1>7, <1>8, <1>10
  <1>12. f2 + g2 \in Nat /\ (f2 + g2) + v + b = (f + g) + m + b2
    BY <1>11
  <1> QED BY <1>9, <1>10, <1>12

LEMMA HeldPart ==
  ASSUME EventInv
  PROVE  /\ \A s \in Events!Ids : memory[s] <= Held
         /\ \A r \in EventReqs : ingests[r].batch <= Held
  <1>1. EventTypes /\ IsFiniteSet(Events!Pairs(memory)) /\ IsFiniteSet(Events!Pairs(Batches))
    BY DEF EventInv
  <1>2. ASSUME NEW S, NEW f \in [S -> Nat], NEW x \in S, IsFiniteSet(Events!Pairs(f)) PROVE f[x] <= Events!Sum(f)
    <2>1. PICK g : g = [f EXCEPT ![x] = 0]
      OBVIOUS
    <2>2. g \in [S -> Nat] /\ g[x] = 0 /\ \A y \in S \ {x} : g[y] = f[y]
      BY <2>1
    <2>3. Events!Sum(f) \in Nat /\ Events!Sum(g) \in Nat /\ Events!Sum(g) + f[x] = Events!Sum(f) + g[x]
      BY <1>2, <2>2, SumMoves
    <2> QED BY <2>2, <2>3
  <1>3. memory \in [Events!Ids -> Nat]
    BY <1>1 DEF EventTypes
  <1>4. Batches \in [EventReqs -> Nat] /\ \A r \in EventReqs : Batches[r] = ingests[r].batch
    <2>1. \A q \in EventReqs : ingests[q].batch \in Nat
      BY <1>1 DEF EventTypes, Ingest
    <2> QED BY <2>1 DEF Batches
  <1> HIDE DEF Batches
  <1>5. \A s \in Events!Ids : memory[s] <= Events!Sum(memory)
    BY <1>1, <1>2, <1>3
  <1>6. \A r \in EventReqs : Batches[r] <= Events!Sum(Batches)
    BY <1>1, <1>2, <1>4
  <1>7. Events!Sum(memory) \in Nat /\ Events!Sum(Batches) \in Nat
    BY HeldIs
  <1>8. ASSUME NEW s \in Events!Ids PROVE memory[s] <= Held
    BY <1>3, <1>5, <1>7 DEF Held
  <1>9. ASSUME NEW r \in EventReqs PROVE ingests[r].batch <= Held
    BY <1>4, <1>6, <1>7 DEF Held
  <1> QED BY <1>8, <1>9

LEMMA EventRestStart == Events!AnalyticsInit => EventRest
  <1> SUFFICES ASSUME Events!AnalyticsInit PROVE EventRest
    OBVIOUS
  <1>1. /\ memory = [s \in Events!Ids |-> 0] /\ total = 0 /\ accepted = 0
        /\ ingests = [r \in EventReqs |-> Events!Rest]
    BY DEF Events!AnalyticsInit
  <1>2. \A r \in EventReqs : ingests[r].batch = 0 /\ ingests[r].read = 0
    BY <1>1 DEF Events!Rest
  <1>3. Batches \in [EventReqs -> Nat] /\ \A r \in EventReqs : Batches[r] = 0
    BY <1>2 DEF Batches
  <1>4. Events!Sum(memory) = 0 /\ Events!Sum(Batches) = 0
    BY <1>1, <1>3, NoPairs
  <1> QED BY <1>1, <1>2, <1>4, TenancyAssumption DEF EventRest, Held

\* A step of one request, on one store.
LEMMA RestMoves ==
  ASSUME EventInv, EventRest, NEW r \in EventReqs, NEW new \in Ingest, NEW s \in Events!Ids, NEW m \in Nat,
         ingests' = [ingests EXCEPT ![r] = new], memory' = [memory EXCEPT ![s] = m],
         total' \in Nat, accepted' \in Nat, accepted' <= MaxEvents,
         m + new.batch + accepted <= accepted' + memory[s] + ingests[r].batch,
         \/ total' = total
         \/ total' + m + new.batch + accepted <= accepted' + ingests[r].read + memory[s] + ingests[r].batch,
         new.read \in {0, total', ingests[r].read}
  PROVE  EventRest'
  <1>1. EventTypes
    BY DEF EventInv
  <1>2. /\ ingests[r] \in Ingest /\ memory[s] \in Nat /\ total \in Nat /\ accepted \in Nat
        /\ ingests'[r] = new /\ \A q \in EventReqs \ {r} : ingests'[q] = ingests[q]
    BY <1>1 DEF EventTypes
  <1>3. ingests[r].batch \in Nat /\ ingests[r].read \in Nat /\ new.batch \in Nat
    BY <1>2 DEF Ingest
  <1>4. Held \in Nat /\ Held' \in Nat /\ Held' + memory[s] + ingests[r].batch = Held + m + new.batch
    BY HeldIs, HeldMoves, ZenonT(40)
  <1>5. PICK v, b, b2, i, h, h2, a, a2, t, t2 :
          /\ v = memory[s] /\ b = ingests[r].batch /\ b2 = new.batch /\ i = ingests[r].read /\ h = Held /\ h2 = Held'
          /\ a = accepted /\ a2 = accepted' /\ t = total /\ t2 = total'
    OBVIOUS
  <1>6. /\ {v, b, b2, i, h, h2, a, a2, t, t2} \subseteq Nat /\ h2 + v + b = h + m + b2 /\ m + b2 + a <= a2 + v + b
        /\ t + h <= a /\ i + h <= a /\ (t2 = t \/ t2 + m + b2 + a <= a2 + i + v + b)
    BY <1>2, <1>3, <1>4, <1>5 DEF EventRest
  <1>7. h2 + a <= a2 + h
    BY <1>6
  <1>8. t2 + h2 <= a2
    <2>1. CASE t2 = t
      BY <1>6, <1>7, <2>1
    <2>2. CASE t2 + m + b2 + a <= a2 + i + v + b
      BY <1>6, <2>2
    <2> QED BY <1>6, <2>1, <2>2
  <1>9. ASSUME NEW q \in EventReqs PROVE ingests'[q].read + h2 <= a2
    <2>1. ingests[q] \in Ingest /\ ingests[q].read + h <= a
      BY <1>1, <1>5 DEF EventTypes, EventRest
    <2>2. PICK k \in Nat : k = ingests[q].read
      BY <2>1 DEF Ingest
    <2>3. k + h2 <= a2
      BY <1>6, <1>7, <2>1, <2>2
    <2>4. CASE q # r
      BY <1>2, <2>2, <2>3, <2>4
    <2>5. CASE q = r
      <3>1. ingests'[q].read \in {0, t2, k}
        BY <1>2, <1>5, <2>2, <2>5
      <3> QED BY <1>6, <1>8, <2>3, <3>1
    <2> QED BY <2>4, <2>5
  <1> QED BY <1>5, <1>8, <1>9 DEF EventRest

LEMMA EventRestKeeps == EventInv /\ EventRest /\ (Events!AnalyticsNext \/ UNCHANGED eventsVars) => EventRest'
  <1> SUFFICES ASSUME EventInv, EventRest, Events!AnalyticsNext \/ UNCHANGED eventsVars PROVE EventRest'
    OBVIOUS
  <1>1. /\ EventTypes /\ 0 \in Events!Ids /\ memory[0] \in Nat /\ memory = [memory EXCEPT ![0] = memory[0]]
        /\ total \in Nat /\ accepted \in Nat /\ accepted <= MaxEvents
    BY TenancyAssumption DEF EventInv, Events!Ids, EventTypes, EventRest
  <1>2. Events!Rest \in Ingest /\ Events!Rest.batch = 0 /\ Events!Rest.read = 0
    BY <1>1 DEF Events!Rest, Ingest
  <1>3. ASSUME NEW r \in EventReqs
        PROVE  /\ ingests[r] \in Ingest /\ ingests[r].store \in Events!Ids /\ ingests[r].batch \in Nat
               /\ ingests[r].read \in Nat /\ (ingests[r].batch # 0 => ingests[r].pc \in {"read", "commit"})
    BY <1>1 DEF EventTypes, Ingest, EventInv
  <1>4. ASSUME NEW r \in EventReqs, Events!handleIngestEvents(r) \/ Events!CacheStore(r) PROVE EventRest'
    <2>1. PICK new : /\ new = (IF Events!handleIngestEvents(r)
                               THEN (IF current = 0 THEN [Events!Rest EXCEPT !.pc = "make"]
                                     ELSE [Events!Rest EXCEPT !.pc = "collect", !.store = current])
                               ELSE [Events!Rest EXCEPT !.pc = "collect", !.store = newest + 1])
      OBVIOUS
    <2>2. /\ ingests' = [ingests EXCEPT ![r] = new] /\ memory' = memory /\ total' = total /\ accepted' = accepted
      BY <1>4, <2>1 DEF Events!handleIngestEvents, Events!CacheStore, Events!NewStore
    <2>3. newest < MaxStores \/ Events!handleIngestEvents(r)
      BY <1>4 DEF Events!CacheStore, Events!NewStore
    <2>4. new \in Ingest /\ new.batch = 0 /\ new.read = 0
      <3>1. current \in Events!Ids /\ newest \in Events!Ids
        BY <1>1 DEF EventTypes
      <3>2. newest < MaxStores => newest + 1 \in Events!Ids
        BY <3>1, TenancyAssumption DEF Events!Ids
      <3> QED BY <1>1, <2>1, <2>3, <3>1, <3>2 DEF Events!Rest, Ingest
    <2>5. memory[0] + new.batch + accepted <= accepted' + memory[0] + ingests[r].batch
      BY <1>1, <1>3, <2>2, <2>4
    <2>6. total' \in Nat /\ accepted' \in Nat /\ accepted' <= MaxEvents /\ memory' = [memory EXCEPT ![0] = memory[0]]
      BY <1>1, <2>2
    <2> QED BY <1>1, <2>2, <2>4, <2>5, <2>6, RestMoves
  <1>5. ASSUME NEW r \in EventReqs, Events!Ingest(r) PROVE EventRest'
    <2>1. PICK s \in Events!Ids : s = ingests[r].store
      BY <1>3
    <2>2. PICK new : new = IF Events!Full(memory[s] + 1) THEN [ingests[r] EXCEPT !.pc = "flush"] ELSE Events!Rest
      OBVIOUS
    <2>3. /\ ingests[r].pc = "collect" /\ accepted < MaxEvents /\ memory' = [memory EXCEPT ![s] = memory[s] + 1]
          /\ accepted' = accepted + 1 /\ total' = total /\ ingests' = [ingests EXCEPT ![r] = new]
      BY <1>5, <2>1, <2>2 DEF Events!Ingest
    <2>4. ingests[r].batch = 0 /\ memory[s] \in Nat
      BY <1>1, <1>3, <2>3 DEF EventTypes
    <2>5. new \in Ingest /\ new.batch = 0 /\ new.read \in {0, ingests[r].read}
      <3>1. PICK i \in Ingest : i = ingests[r]
        BY <1>3
      <3>2. CASE new = Events!Rest
        BY <1>2, <3>2
      <3>3. CASE new = [i EXCEPT !.pc = "flush"]
        BY <2>4, <3>1, <3>3 DEF Ingest
      <3> QED BY <2>2, <3>1, <3>2, <3>3
    <2>6. memory[s] + 1 + new.batch + accepted <= accepted' + memory[s] + ingests[r].batch
      BY <1>1, <2>3, <2>4, <2>5
    <2>7. total' \in Nat /\ accepted' \in Nat /\ accepted' <= MaxEvents /\ memory[s] + 1 \in Nat
      BY <1>1, <2>3, <2>4, TenancyAssumption
    <2> QED BY <2>3, <2>5, <2>6, <2>7, RestMoves
  <1>6. ASSUME NEW r \in EventReqs, Events!flush(r) PROVE EventRest'
    <2>1. PICK s \in Events!Ids : s = ingests[r].store
      BY <1>3
    <2>2. PICK n \in Nat : n = memory[s]
      BY <1>1 DEF EventTypes
    <2>3. PICK new : new = IF n = 0 THEN Events!Rest ELSE [ingests[r] EXCEPT !.pc = "read", !.batch = n]
      OBVIOUS
    <2>4. /\ ingests[r].pc = "flush" /\ memory' = [memory EXCEPT ![s] = 0]
          /\ accepted' = accepted /\ total' = total /\ ingests' = [ingests EXCEPT ![r] = new]
      BY <1>6, <2>1, <2>2, <2>3 DEF Events!flush
    <2>5. new \in Ingest /\ new.batch = n /\ new.read \in {0, ingests[r].read}
      <3>1. PICK i \in Ingest : i = ingests[r]
        BY <1>3
      <3>2. CASE n = 0
        BY <1>2, <2>3, <3>2
      <3>3. CASE new = [i EXCEPT !.pc = "read", !.batch = n]
        BY <3>1, <3>3 DEF Ingest
      <3> QED BY <2>3, <3>1, <3>2, <3>3
    <2>6. 0 + new.batch + accepted <= accepted' + memory[s] + ingests[r].batch
      BY <1>1, <1>3, <2>2, <2>4, <2>5
    <2>7. total' \in Nat /\ accepted' \in Nat /\ accepted' <= MaxEvents
      BY <1>1, <2>4
    <2> QED BY <2>4, <2>5, <2>6, <2>7, RestMoves
  <1>7. ASSUME NEW r \in EventReqs, Events!ReadCount(r) PROVE EventRest'
    <2>1. PICK i \in Ingest : i = ingests[r]
      BY <1>3
    <2>2. PICK new : new = [i EXCEPT !.pc = "commit", !.read = total]
      OBVIOUS
    <2>3. /\ memory' = memory /\ accepted' = accepted /\ total' = total /\ ingests' = [ingests EXCEPT ![r] = new]
      BY <1>7, <2>1, <2>2 DEF Events!ReadCount
    <2>4. new \in Ingest /\ new.batch = i.batch /\ new.read = total
      BY <1>1, <2>2 DEF Ingest
    <2>5. memory[0] + new.batch + accepted <= accepted' + memory[0] + ingests[r].batch
      BY <1>1, <1>3, <2>1, <2>3, <2>4
    <2>6. total' \in Nat /\ accepted' \in Nat /\ accepted' <= MaxEvents /\ memory' = [memory EXCEPT ![0] = memory[0]]
      BY <1>1, <2>3
    <2> QED BY <1>1, <2>3, <2>4, <2>5, <2>6, RestMoves
  <1>8. ASSUME NEW r \in EventReqs, Events!CommitCount(r) PROVE EventRest'
    <2>1. /\ ingests' = [ingests EXCEPT ![r] = Events!Rest] /\ memory' = memory /\ accepted' = accepted
          /\ (total' = ingests[r].read + ingests[r].batch \/ total' = total)
      BY <1>8 DEF Events!CommitCount
    <2>2. total' \in Nat
      BY <1>1, <1>3, <2>1
    <2>3. memory[0] + Events!Rest.batch + accepted <= accepted' + memory[0] + ingests[r].batch
      BY <1>1, <1>2, <1>3, <2>1
    <2>4. \/ total' = total
          \/ total' + memory[0] + Events!Rest.batch + accepted
               <= accepted' + ingests[r].read + memory[0] + ingests[r].batch
      BY <1>1, <1>2, <1>3, <2>1
    <2>5. accepted' \in Nat /\ accepted' <= MaxEvents /\ memory' = [memory EXCEPT ![0] = memory[0]]
      BY <1>1, <2>1
    <2> QED BY <1>1, <1>2, <2>1, <2>2, <2>3, <2>4, <2>5, RestMoves
  <1>9. CASE Events!getProjectAnalyticsStore \/ UNCHANGED eventsVars
    <2>1. memory' = memory /\ ingests' = ingests /\ total' = total /\ accepted' = accepted
      BY <1>9 DEF Events!getProjectAnalyticsStore, eventsVars
    <2>2. Held' = Held
      BY <2>1 DEF Held, Batches
    <2> QED BY <2>1, <2>2 DEF EventRest
  <1>10. CASE Events!AnalyticsCrash
    <2>1. /\ memory' = [s \in Events!Ids |-> 0] /\ total' = total /\ accepted' = accepted
          /\ ingests' = [r \in EventReqs |-> Events!Rest]
      BY <1>10 DEF Events!AnalyticsCrash
    <2>2. \A r \in EventReqs : ingests'[r].batch = 0 /\ ingests'[r].read = 0
      BY <1>2, <2>1
    <2>3. Batches' \in [EventReqs -> Nat] /\ \A r \in EventReqs : Batches'[r] = 0
      <3>1. Batches' = [r \in EventReqs |-> ingests'[r].batch]
        BY DEF Batches
      <3> QED BY <2>2, <3>1
    <2>4. Events!Sum(memory') = 0 /\ Events!Sum(Batches') = 0
      BY <2>1, <2>3, NoPairs
    <2>5. Held' = 0
      BY <2>4 DEF Held
    <2>6. total <= accepted
      BY <1>1, HeldIs DEF EventRest
    <2> QED BY <1>1, <2>1, <2>2, <2>5, <2>6 DEF EventRest
  <1> QED BY <1>4, <1>5, <1>6, <1>7, <1>8, <1>9, <1>10 DEF Events!AnalyticsNext

LEMMA EventsTyped == EventInv /\ EventRest => Events!AnalyticsTypeOK
  <1> SUFFICES ASSUME EventInv, EventRest PROVE Events!AnalyticsTypeOK
    OBVIOUS
  <1>1. EventTypes
    BY DEF EventInv
  <1>2. Held \in Nat /\ total \in Nat /\ accepted \in Nat /\ total + Held <= accepted /\ accepted <= MaxEvents
    BY <1>1, HeldIs DEF EventTypes, EventRest
  <1>3. {total, accepted} \subseteq 0..MaxEvents
    BY <1>2, TenancyAssumption
  <1>4. ASSUME NEW s \in Events!Ids PROVE memory[s] \in 0..MaxEvents
    BY <1>1, <1>2, HeldPart, TenancyAssumption DEF EventTypes
  <1>5. ASSUME NEW r \in EventReqs
        PROVE  ingests[r] \in [pc : {"rest", "make", "collect", "flush", "read", "commit"},
                               store : Events!Ids, batch : 0..MaxEvents, read : 0..MaxEvents]
    <2>1. PICK i \in Ingest : i = ingests[r]
      BY <1>1 DEF EventTypes
    <2>2. i.batch <= Held /\ i.read + Held <= accepted /\ i.batch \in Nat /\ i.read \in Nat
      BY <2>1, HeldPart DEF EventRest, Ingest
    <2>3. i.batch \in 0..MaxEvents /\ i.read \in 0..MaxEvents
      BY <1>2, <2>2, TenancyAssumption
    <2> QED BY <2>1, <2>3 DEF Ingest
  <1>6. memory \in [Events!Ids -> 0..MaxEvents]
    BY <1>1, <1>4 DEF EventTypes
  <1>7. ingests \in [EventReqs -> [pc : {"rest", "make", "collect", "flush", "read", "commit"},
                                   store : Events!Ids, batch : 0..MaxEvents, read : 0..MaxEvents]]
    BY <1>1, <1>5 DEF EventTypes
  <1>8. {newest, current} \subseteq Events!Ids /\ excused \in BOOLEAN
    BY <1>1 DEF EventTypes
  <1> QED BY <1>3, <1>6, <1>7, <1>8 DEF Events!AnalyticsTypeOK

------------------------------------------------------------------------------
\* All components together.  Of the node's steps the registry sees its own.
LEMMA RegistryRuns ==
  [Next]_<<focus, registryVars, teamsVars, administratorsVars, peopleVars, meterVars, eventsVars, trailVars>>
    => [RegistryNext]_registryVars
  BY DEF Next, RegistryStep, TeamsStep, AdministratorsStep, PeopleStep, MeterStep, EventsStep, TrailStep

RestInv == TeamRest /\ AdminRest /\ PeopleRest /\ MeterRest /\ EventRest /\ TrailRest

LEMMA RestStart == Init => RestInv
  BY TeamRestStart, AdminRestStart, PeopleRestStart, MeterRestStart, EventRestStart, TrailRestStart DEF Init, RestInv

LEMMA RestKeeps ==
  BelongInv /\ RecordsInv /\ RestInv
    /\ [Next]_<<focus, registryVars, teamsVars, administratorsVars, peopleVars, meterVars, eventsVars, trailVars>>
    => RestInv'
  <1> SUFFICES ASSUME BelongInv, RecordsInv, RestInv,
                      [Next]_<<focus, registryVars, teamsVars, administratorsVars, peopleVars, meterVars,
                               eventsVars, trailVars>>
               PROVE  RestInv'
    OBVIOUS
  <1>1. Teams!TeamNext \/ UNCHANGED teamsVars
    BY DEF Next, RegistryStep, TeamsStep, AdministratorsStep, PeopleStep, MeterStep, EventsStep, TrailStep
  <1>2. Administrators!AdminNext \/ UNCHANGED administratorsVars
    BY DEF Next, RegistryStep, TeamsStep, AdministratorsStep, PeopleStep, MeterStep, EventsStep, TrailStep
  <1>3. People!AccountNext \/ UNCHANGED peopleVars
    BY DEF Next, RegistryStep, TeamsStep, AdministratorsStep, PeopleStep, MeterStep, EventsStep, TrailStep
  <1>4. Meter!MeterNext \/ UNCHANGED meterVars
    BY DEF Next, RegistryStep, TeamsStep, AdministratorsStep, PeopleStep, MeterStep, EventsStep, TrailStep
  <1>5. Events!AnalyticsNext \/ UNCHANGED eventsVars
    BY DEF Next, RegistryStep, TeamsStep, AdministratorsStep, PeopleStep, MeterStep, EventsStep, TrailStep
  <1>6. Trail!AuditNext \/ UNCHANGED trailVars
    BY DEF Next, RegistryStep, TeamsStep, AdministratorsStep, PeopleStep, MeterStep, EventsStep, TrailStep
  <1>7. TeamRest' /\ AdminRest' /\ PeopleRest'
    BY <1>1, <1>2, <1>3, TeamRestKeeps, AdminRestKeeps, PeopleRestKeeps DEF BelongInv, RestInv
  <1>8. MeterRest' /\ EventRest' /\ TrailRest'
    BY <1>4, <1>5, <1>6, MeterRestKeeps, EventRestKeeps, TrailRestKeeps DEF RecordsInv, RestInv
  <1> QED BY <1>7, <1>8 DEF RestInv

LEMMA RestTypes == BelongInv /\ RecordsInv /\ RestInv /\ RegistryTypeOK => TypeOK
  BY TeamSays, AdminSays, PeopleSays, MeterTyped, EventsTyped, TrailTyped DEF BelongInv, RecordsInv, RestInv, TypeOK

\* The projects of the node are those of the registry alone: no step of another
\* component is anything but a stutter to it.
THEOREM RegistryInside == Spec => RegistrySpec
  <1>1. Init => RegistryInit
    BY DEF Init
  <1> QED BY <1>1, RegistryRuns, PTL DEF Spec, RegistrySpec

\* Every component's variables keep their types: what a request read of a person
\* or wrote half of an entry, and the bounds of what is counted, which nothing
\* lost, failed or committed twice exceeds.
THEOREM NodeKeepsTypes == Spec => []TypeOK
  <1>1. Spec => []RestInv
    BY RestStart, RestKeeps, PeopleInductive, RecordsInductive, PTL DEF Spec
  <1> QED BY <1>1, RegistryInside, TypeCorrect, PeopleInductive, RecordsInductive, RestTypes, PTL
==============================================================================
