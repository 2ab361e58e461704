---------------------------- MODULE TenantRegistry ----------------------------
(* The project registry of one node (tenant.ProjectManager): the records in    *)
(* the master database, their copy in memory, and the one Pebble engine a      *)
(* project directory may have open, which three parties hold: the environment  *)
(* cache (envs), the replication cluster (engines) and the caches of stores    *)
(* built on an environment (stores).  The node follows a log of project        *)
(* operations or, as master, serves the administration API.                    *)
(*                                                                             *)
(* pm.mu makes every operation of the manager one step.  The opener that the   *)
(* cluster calls back looks a project up under pm.mu but opens and registers   *)
(* its engine after it let go, so it takes three steps.                        *)
EXTENDS Naturals, Sequences, FiniteSets

CONSTANTS Projects,   \* project identifiers
          Names,      \* project names
          Histories   \* the logs of a master that this node may have to follow

LogEntry == [op : {"create", "update", "delete", "document"}, p : Projects, name : Names]

ASSUME RegistryAssumption ==
  Names # {} /\ Projects # {} /\ Histories \subseteq Seq(LogEntry)

VARIABLES
  role,      \* "follower" or "master"
  log,       \* the entries a follower is sent, a sequence of [op, p, name]
  next,      \* the entry the apply loop takes next
  missed,    \* entries the apply loop gave up on
  wired,     \* SetCluster has registered applier and opener
  stored,    \* project records in the master database
  projects,  \* pm.projects
  secrets,   \* projects whose secret pm.secretIndex knows
  owners,    \* projects whose owner has a team record
  locked,    \* projects whose directory some engine has open
  envs,      \* pm.envs: the engine of the cached environment
  engines,   \* cluster.engines: the engine log entries are applied to
  stores,    \* the engine under the stores the API caches
  opener     \* the apply loop inside of the engine opener

registry == <<stored, projects, secrets, owners>>
handles  == <<locked, envs, engines, stores>>
feed     == <<role, log, next, missed, wired>>
registryVars == <<registry, handles, feed, opener>>

None == [status |-> "none", name |-> CHOOSE n \in Names : TRUE]
Record(status, nm) == [status |-> status, name |-> nm]
Known(p) == projects[p] # None
\* A directory has at most one engine open, so a reference to an engine is to
\* the open one or to one that was closed.
NoEngine == [p \in Projects |-> "none"]
Closed(refs, p) == [refs EXCEPT ![p] = IF @ = "open" THEN "closed" ELSE @]
Idle == [pc |-> "idle", p |-> CHOOSE p \in Projects : TRUE]

RegistryInit ==
  /\ role \in {"follower", "master"}
  /\ log \in IF role = "follower" THEN Histories ELSE {<<>>}
  /\ next = 1 /\ missed = {}
  /\ wired = (role = "master")
  /\ stored = [p \in Projects |-> None] /\ projects = stored
  /\ secrets = {} /\ owners = {}
  /\ locked = {} /\ envs = NoEngine /\ engines = NoEngine /\ stores = NoEngine
  /\ opener = Idle

------------------------------------------------------------------------------
\* Records.  Every change of one project's record, in the database and in memory.
SaveProject(p, rec) ==
  /\ stored' = [stored EXCEPT ![p] = rec]
  /\ projects' = [projects EXCEPT ![p] = rec]

\* Mutant of DropEnv: the engine is closed and its environment stays cached.
DropEnvStaysCached(p) ==
  IF envs[p] = "none" THEN UNCHANGED handles
  ELSE /\ locked' = locked \ {p}
       /\ envs' = Closed(envs, p)
       /\ engines' = Closed(engines, p) /\ stores' = Closed(stores, p)

\* Close the cached environment's engine and forget the environment; the
\* cluster and the cached stores keep the closed engine.
DropEnv(p) ==
  IF envs[p] = "none" THEN UNCHANGED handles
  ELSE /\ locked' = locked \ {p}
       /\ envs' = [envs EXCEPT ![p] = "none"]
       /\ engines' = Closed(engines, p) /\ stores' = Closed(stores, p)

\* CreateProject draws a new identifier and refuses a name in use.  Whether the
\* log takes the entry changes nothing here: a failed append returns an error
\* and leaves the project on this node alone.  (So for the other operations.)
CreateProject(p, nm) ==
  /\ role = "master" /\ stored[p] = None /\ p \notin owners
  /\ \A q \in Projects : projects[q] # Record("active", nm)
  /\ SaveProject(p, Record("active", nm))
  /\ secrets' = secrets \cup {p}
  /\ owners' = owners \cup {p}
  /\ UNCHANGED <<feed, handles, opener>>

\* UpdateProject, called with the record GetProject returned and changed.  The
\* secret and its index stay as they are.
UpdateProject(p, nm) ==
  /\ Known(p) /\ projects[p].status # "deleted"
  /\ SaveProject(p, Record(projects[p].status, nm))
  /\ UNCHANGED <<secrets, owners, feed>>

\* PUT /admin/projects/{id}: renames without the check of CreateProject.
HandleUpdateProject(p, nm) ==
  /\ role = "master"
  /\ UpdateProject(p, nm)
  /\ UNCHANGED <<handles, opener>>

\* PUT /admin/projects/{id}/auth/providers saves the project and reloads its
\* environment, unless the log refused the entry.
HandleSetOAuthProviders(p) ==
  /\ role = "master"
  /\ UpdateProject(p, projects[p].name)
  /\ \E logged \in BOOLEAN : IF logged THEN DropEnv(p) ELSE UNCHANGED handles
  /\ UNCHANGED opener

\* Mutant of DeleteProject: the secret stays in the index.
DeleteProjectKeepsSecret(p) ==
  /\ role = "master" /\ Known(p)
  /\ SaveProject(p, None)
  /\ DropEnv(p)
  /\ UNCHANGED <<secrets, owners, feed, opener>>

\* DeleteProject: the record, the environment and the index entries go; the
\* team record of the owner stays.
DeleteProject(p) ==
  /\ role = "master" /\ Known(p)
  /\ SaveProject(p, None)
  /\ secrets' = secrets \ {p}
  /\ DropEnv(p)
  /\ UNCHANGED <<owners, feed, opener>>

------------------------------------------------------------------------------
\* Engines.  GetProjectEnv returns the cached environment or opens the
\* directory, registers the engine with the cluster and caches it; it fails
\* when another engine has the directory open.
GetProjectEnv(p) ==
  /\ wired
  /\ envs[p] = "none" /\ projects[p].status = "active"
  /\ p \notin locked
  /\ locked' = locked \cup {p}
  /\ engines' = [engines EXCEPT ![p] = "open"]
  /\ envs' = [envs EXCEPT ![p] = "open"]
  /\ UNCHANGED <<stores, registry, feed, opener>>

\* A handler of functions, jobs, queues or configuration builds its store on
\* the environment's engine once and caches it under the project.
CacheStore(p) ==
  /\ envs[p] # "none" /\ stores[p] = "none"
  /\ stores' = [stores EXCEPT ![p] = envs[p]]
  /\ UNCHANGED <<locked, envs, engines, registry, feed, opener>>

\* The process starts again and reads the records of the master database; a
\* follower is sent the whole log again before SetCluster wires the hooks.
Reload(records) ==
  /\ stored' = records
  /\ projects' = records
  /\ secrets' = {p \in Projects : records[p] # None}
  /\ locked' = {} /\ envs' = NoEngine /\ engines' = NoEngine /\ stores' = NoEngine
  /\ opener' = Idle
  /\ next' = IF role = "follower" THEN 1 ELSE next
  /\ wired' = (role = "master")
  /\ missed' = {}
  /\ UNCHANGED <<role, log, owners>>

Restart == Reload(stored)

\* A crash inside of DeleteProject, after the record was saved as deleted.
CrashInDelete(p) ==
  /\ role = "master" /\ Known(p)
  /\ Reload([stored EXCEPT ![p].status = "deleted"])

\* A crash inside of CreateProject, after the record and before the owner.
CrashInCreate(p, nm) ==
  /\ role = "master" /\ stored[p] = None /\ p \notin owners
  /\ \A q \in Projects : projects[q] # Record("active", nm)
  /\ Reload([stored EXCEPT ![p] = Record("active", nm)])

------------------------------------------------------------------------------
\* The follower's apply loop.
Entry == log[next]
HasEntry(ops) == role = "follower" /\ opener.pc = "idle" /\ next <= Len(log) /\ Entry.op \in ops
Advance == next' = next + 1

\* An entry that fails is logged and skipped.
Skip == Advance /\ missed' = missed \cup {next}

\* startReplication starts the apply loop before SetCluster sets the hooks.
SetCluster ==
  /\ ~wired
  /\ wired' = TRUE
  /\ UNCHANGED <<role, log, next, missed, registry, handles, opener>>

ApplyUnwired ==
  /\ HasEntry({"create", "update", "delete", "document"}) /\ ~wired
  /\ Skip
  /\ UNCHANGED <<role, log, wired, registry, handles, opener>>

\* A redelivered entry overwrites the record before AddMember refuses it.
ApplyCreateProject ==
  /\ HasEntry({"create"}) /\ wired
  /\ SaveProject(Entry.p, Record("active", Entry.name))
  /\ secrets' = secrets \cup {Entry.p}
  /\ owners' = owners \cup {Entry.p}
  /\ Advance
  /\ UNCHANGED <<role, log, missed, wired, handles, opener>>

\* Mutant of ApplyUpdateProject: only a project in use is updated.
ApplyUpdateProjectInUse ==
  /\ HasEntry({"update"}) /\ wired
  /\ IF envs[Entry.p] # "none"
     THEN SaveProject(Entry.p, Record("active", Entry.name)) /\ DropEnv(Entry.p)
     ELSE UNCHANGED <<stored, projects, handles>>
  /\ Advance
  /\ UNCHANGED <<secrets, owners, role, log, missed, wired, opener>>

ApplyUpdateProject ==
  /\ HasEntry({"update"}) /\ wired
  /\ SaveProject(Entry.p, Record("active", Entry.name))
  /\ secrets' = secrets \cup {Entry.p}
  /\ DropEnv(Entry.p)
  /\ Advance
  /\ UNCHANGED <<owners, role, log, missed, wired, opener>>

ApplyDeleteProject ==
  /\ HasEntry({"delete"}) /\ wired
  /\ IF Known(Entry.p)
     THEN /\ SaveProject(Entry.p, None)
          /\ secrets' = secrets \ {Entry.p}
          /\ DropEnv(Entry.p)
     ELSE UNCHANGED <<stored, projects, secrets, handles>>
  /\ Advance
  /\ UNCHANGED <<owners, role, log, missed, wired, opener>>

\* A document entry: the registered engine takes it, or the opener is called.
\* A closed engine panics and the process starts again.
ApplyDocument ==
  /\ HasEntry({"document"}) /\ wired
  /\ engines[Entry.p] # "none"
  /\ IF engines[Entry.p] = "open"
     THEN Advance /\ UNCHANGED <<role, log, missed, wired, registry, handles, opener>>
     ELSE Reload(stored)

OpenerLooksUp ==
  /\ HasEntry({"document"}) /\ wired
  /\ engines[Entry.p] = "none"
  /\ IF Known(Entry.p)
     THEN /\ opener' = [pc |-> "open", p |-> Entry.p]
          /\ UNCHANGED <<next, missed>>
     ELSE Skip /\ UNCHANGED opener
  /\ UNCHANGED <<role, log, wired, registry, handles>>

OpenerOpens ==
  /\ opener.pc = "open"
  /\ IF opener.p \in locked
     THEN /\ Skip
          /\ opener' = Idle
          /\ UNCHANGED locked
     ELSE /\ locked' = locked \cup {opener.p}
          /\ opener' = [opener EXCEPT !.pc = "register"]
          /\ UNCHANGED <<next, missed>>
  /\ UNCHANGED <<envs, engines, stores, role, log, wired, registry>>

OpenerRegisters ==
  /\ opener.pc = "register"
  /\ engines' = [engines EXCEPT ![opener.p] = "open"]
  /\ opener' = Idle
  /\ Advance
  /\ UNCHANGED <<locked, envs, stores, role, log, missed, wired, registry>>

\* A promotion closes the cached environments.  It then opens every active
\* project for the background jobs; one that can be opened blocks it for good
\* (PromotionLocks), so only promotions that can open none come to their end.
Promote ==
  /\ role = "follower" /\ wired /\ opener.pc = "idle" /\ next > Len(log)
  /\ LET closing == {p \in Projects : envs[p] # "none"} IN
     /\ locked' = locked \ closing
     /\ engines' = [p \in Projects |-> IF p \in closing THEN Closed(engines, p)[p] ELSE engines[p]]
     /\ stores' = [p \in Projects |-> IF p \in closing THEN Closed(stores, p)[p] ELSE stores[p]]
  /\ \A p \in Projects : projects[p].status = "active" => p \in locked'
  /\ envs' = NoEngine
  /\ role' = "master"
  /\ UNCHANGED <<log, next, missed, wired, registry, opener>>

RegistryNext ==
  \/ \E p \in Projects, nm \in Names : CreateProject(p, nm) \/ HandleUpdateProject(p, nm) \/ CrashInCreate(p, nm)
  \/ \E p \in Projects :
       \/ HandleSetOAuthProviders(p) \/ DeleteProject(p) \/ CrashInDelete(p)
       \/ GetProjectEnv(p) \/ CacheStore(p)
  \/ Restart \/ SetCluster \/ Promote
  \/ ApplyUnwired \/ ApplyCreateProject \/ ApplyUpdateProject \/ ApplyDeleteProject
  \/ ApplyDocument \/ OpenerLooksUp \/ OpenerOpens \/ OpenerRegisters

RegistrySpec == RegistryInit /\ [][RegistryNext]_registryVars

------------------------------------------------------------------------------
RegistryTypeOK ==
  /\ role \in {"follower", "master"}
  /\ next \in 1..Len(log) + 1 /\ missed \subseteq 1..Len(log) /\ wired \in BOOLEAN
  /\ stored \in [Projects -> [status : {"none", "active", "deleted"}, name : Names]]
  /\ secrets \subseteq Projects /\ owners \subseteq Projects
  /\ locked \subseteq Projects
  /\ {envs, engines, stores} \subseteq [Projects -> {"none", "open", "closed"}]
  /\ opener \in [pc : {"idle", "open", "register"}, p : Projects]

\* A cached environment is usable and complete: its engine is the one that has
\* the directory open and the one the apply loop writes to, whatever requests,
\* reloads, deletions and the opener do around it.
CachedEnvIsServed ==
  \A p \in Projects : envs[p] # "none" =>
    envs[p] = "open" /\ engines[p] = "open" /\ p \in locked

\* Memory and disk never disagree, over crashes inside of operations as well:
\* pm.projects is the database, and pm.secretIndex finds exactly the projects
\* in it.
MemoryFollowsDisk ==
  /\ projects = stored
  /\ secrets = {p \in Projects : projects[p] # None}

\* What memory says of projects and secrets is what the database says, and
\* environments are cached for served projects only.
RegistryIsCoherent == MemoryFollowsDisk /\ CachedEnvIsServed

\* What the log makes of a project.
Outcome(p) ==
  LET own  == {i \in 1..Len(log) : log[i].p = p /\ log[i].op # "document"}
      last == CHOOSE i \in own : \A j \in own : j <= i
  IN IF own = {} \/ log[last].op = "delete" THEN None ELSE Record("active", log[last].name)

\* A follower at the end of the log has the projects of the log, restarts and
\* redelivery included, unless it gave up on a project entry.
FollowerReachesLog ==
  (/\ role = "follower" /\ next > Len(log)
   /\ \A i \in missed : log[i].op = "document")
    => \A p \in Projects : projects[p] = Outcome(p)
==============================================================================
