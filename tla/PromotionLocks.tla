--------------------------- MODULE PromotionLocks ---------------------------
(***************************************************************************)
(* The locks an heir takes when it promotes itself, against its API        *)
(* requests and its apply loop.                                            *)
(*                                                                         *)
(* src/internal/replication/cluster.go BecomeMaster, resolveEngine         *)
(* src/internal/tenant/manager.go      GetProjectEnv, InvalidateEnvCache,  *)
(*                                     SetCluster's engine opener          *)
(* src/cmd/sovrabase                   the onPromote callbacks, which run  *)
(*                                     while BecomeMaster holds n.mu       *)
(*                                                                         *)
(* n.mu and pm.mu are read-write mutexes.  A section that only reads under *)
(* one of them and waits for nothing there is a step that needs it free.   *)
(* A Pebble directory can be open once in a process.                       *)
(***************************************************************************)
EXTENDS Naturals

CONSTANTS
    Project,    \* active projects, replicated to this heir
    Request,    \* goroutines that serve API requests
    Promoter,   \* the goroutine of monitorMasterHealth
    Applier,    \* the goroutine of the apply loop
    NoProc      \* the owner of a free lock

Caller == Request \cup {Promoter}       \* those that call GetProjectEnv
Proc == Caller \cup {Applier}

ASSUME ProcAssumption == /\ Promoter \notin Request /\ Applier \notin Caller
                         /\ NoProc \notin Proc

VARIABLES
    nodeMu,     \* ClusterNode.mu: who holds it for writing
    projectsMu, \* ProjectManager.mu: who holds it for writing
    engine,     \* per project: who opened its directory, if anybody
    registered, \* ClusterNode.engines: the projects that have an entry
    at,         \* per goroutine: the step it has reached
    target,     \* per goroutine: the project it works on
    todo,       \* the projects promotion has still to start jobs for
    jobs        \* the projects whose scheduler promotion started

lockVars == <<nodeMu, projectsMu, engine, registered, at, target, todo, jobs>>

Rest(q) == IF q = Promoter THEN "jobs" ELSE "idle"

LockInit ==
    /\ nodeMu = NoProc
    /\ projectsMu = NoProc
    /\ engine = [p \in Project |-> "closed"]
    /\ registered = {}
    /\ at = [q \in Proc |-> IF q = Promoter THEN "watching" ELSE "idle"]
    /\ target \in [Proc -> Project]
    /\ todo = {}
    /\ jobs = {}

-----------------------------------------------------------------------------
(* A request, or promotion's StartProjectSchedulers, asks for a project.     *)
Ask(r, p) ==
    /\ at[r] = "idle"
    /\ at' = [at EXCEPT ![r] = "wanted"]
    /\ target' = [target EXCEPT ![r] = p]
    /\ UNCHANGED <<nodeMu, projectsMu, engine, registered, todo, jobs>>

(* GetProjectEnv, step by step; pm.mu is held from the first to the last. *)
LockProjects(q) ==
    /\ at[q] = "wanted"
    /\ projectsMu = NoProc
    /\ projectsMu' = q
    /\ at' = [at EXCEPT ![q] = "locked"]
    /\ UNCHANGED <<nodeMu, engine, registered, target, todo, jobs>>

(* The deferred unlock.  Promotion starts a scheduler on what it got. *)
ReturnEnv(q) ==
    /\ projectsMu' = NoProc
    /\ at' = [at EXCEPT ![q] = Rest(q)]
    /\ jobs' = IF q = Promoter THEN jobs \cup {target[q]} ELSE jobs

(* The environment is cached in pm.envs. *)
Cached(q) ==
    /\ at[q] = "locked"
    /\ engine[target[q]] = "env"
    /\ ReturnEnv(q)
    /\ UNCHANGED <<nodeMu, engine, registered, target, todo>>

(* Mutant of OpenFails: the early return leaves pm.mu locked. *)
OpenFailsLocked(q) ==
    /\ at[q] = "locked"
    /\ engine[target[q]] = "registry"
    /\ at' = [at EXCEPT ![q] = Rest(q)]
    /\ UNCHANGED <<nodeMu, projectsMu, engine, registered, target, todo, jobs>>

(* db.NewEngine fails: replication opened the directory.  The caller gets an *)
(* error; promotion skips the project.                                       *)
OpenFails(q) ==
    /\ at[q] = "locked"
    /\ engine[target[q]] = "registry"
    /\ projectsMu' = NoProc
    /\ at' = [at EXCEPT ![q] = Rest(q)]
    /\ UNCHANGED <<nodeMu, engine, registered, target, todo, jobs>>

(* Mutant of OpenEngine: pm.mu is released before RegisterEngine. *)
OpenEngineUnlocked(q) ==
    /\ at[q] = "locked"
    /\ engine[target[q]] = "closed"
    /\ engine' = [engine EXCEPT ![target[q]] = "env"]
    /\ projectsMu' = NoProc
    /\ at' = [at EXCEPT ![q] = "register"]
    /\ UNCHANGED <<nodeMu, registered, target, todo, jobs>>

OpenEngine(q) ==
    /\ at[q] = "locked"
    /\ engine[target[q]] = "closed"
    /\ engine' = [engine EXCEPT ![target[q]] = "env"]
    /\ at' = [at EXCEPT ![q] = "register"]
    /\ UNCHANGED <<nodeMu, projectsMu, registered, target, todo, jobs>>

(* pm.cluster.RegisterEngine needs n.mu. *)
Register(q) ==
    /\ at[q] = "register"
    /\ nodeMu = NoProc
    /\ registered' = registered \cup {target[q]}
    /\ ReturnEnv(q)
    /\ UNCHANGED <<nodeMu, engine, target, todo>>

-----------------------------------------------------------------------------
(* The apply loop: resolveEngine looks the project up under n.mu.  With no   *)
(* entry the opener asks pm for the project, opens the directory and         *)
(* registers the engine.  An open that fails drops the log entry.            *)
Resolve(p) ==
    /\ at[Applier] = "idle"
    /\ nodeMu = NoProc
    /\ p \notin registered
    /\ at' = [at EXCEPT ![Applier] = "lookup"]
    /\ target' = [target EXCEPT ![Applier] = p]
    /\ UNCHANGED <<nodeMu, projectsMu, engine, registered, todo, jobs>>

LookUpProject ==
    /\ at[Applier] = "lookup"
    /\ projectsMu = NoProc
    /\ at' = [at EXCEPT ![Applier] = "open"]
    /\ UNCHANGED <<nodeMu, projectsMu, engine, registered, target, todo, jobs>>

OpenLazily ==
    /\ at[Applier] = "open"
    /\ \/ /\ engine[target[Applier]] = "closed"
          /\ engine' = [engine EXCEPT ![target[Applier]] = "registry"]
          /\ at' = [at EXCEPT ![Applier] = "register"]
       \/ /\ engine[target[Applier]] # "closed"
          /\ at' = [at EXCEPT ![Applier] = "idle"]
          /\ UNCHANGED engine
    /\ UNCHANGED <<nodeMu, projectsMu, registered, target, todo, jobs>>

RegisterLazily ==
    /\ at[Applier] = "register"
    /\ nodeMu = NoProc
    /\ registered' = registered \cup {target[Applier]}
    /\ at' = [at EXCEPT ![Applier] = "idle"]
    /\ UNCHANGED <<nodeMu, projectsMu, engine, target, todo, jobs>>

-----------------------------------------------------------------------------
(* Promotion.  BecomeMaster keeps n.mu until its callbacks have returned.    *)
BecomeMasterBegins ==
    /\ at[Promoter] = "watching"
    /\ nodeMu = NoProc
    /\ nodeMu' = Promoter
    /\ at' = [at EXCEPT ![Promoter] = "invalidate"]
    /\ UNCHANGED <<projectsMu, engine, registered, target, todo, jobs>>

(* InvalidateEnvCache closes the cached engines; the cluster keeps them. *)
InvalidateEnvCache ==
    /\ at[Promoter] = "invalidate"
    /\ projectsMu = NoProc
    /\ engine' = [p \in Project |-> IF engine[p] = "env" THEN "closed" ELSE engine[p]]
    /\ at' = [at EXCEPT ![Promoter] = "list"]
    /\ UNCHANGED <<nodeMu, projectsMu, registered, target, todo, jobs>>

ListProjects ==
    /\ at[Promoter] = "list"
    /\ projectsMu = NoProc
    /\ todo' = Project
    /\ at' = [at EXCEPT ![Promoter] = "jobs"]
    /\ UNCHANGED <<nodeMu, projectsMu, engine, registered, target, jobs>>

StartScheduler(p) ==
    /\ at[Promoter] = "jobs"
    /\ p \in todo
    /\ todo' = todo \ {p}
    /\ at' = [at EXCEPT ![Promoter] = "wanted"]
    /\ target' = [target EXCEPT ![Promoter] = p]
    /\ UNCHANGED <<nodeMu, projectsMu, engine, registered, jobs>>

(* The callbacks are over and BecomeMaster returns. *)
BecomeMasterReturns ==
    /\ at[Promoter] = "jobs"
    /\ todo = {}
    /\ nodeMu' = NoProc
    /\ at' = [at EXCEPT ![Promoter] = "done"]
    /\ UNCHANGED <<projectsMu, engine, registered, target, todo, jobs>>

GetProjectEnv(q) == \/ LockProjects(q) \/ Cached(q) \/ OpenFails(q)
                    \/ OpenEngine(q) \/ Register(q)
ApplyLoop == LookUpProject \/ OpenLazily \/ RegisterLazily
Promotion == \/ InvalidateEnvCache \/ ListProjects \/ BecomeMasterReturns
             \/ \E p \in Project : StartScheduler(p)

LockNext ==
    \/ \E r \in Request, p \in Project : Ask(r, p)
    \/ \E q \in Caller : GetProjectEnv(q)
    \/ \E p \in Project : Resolve(p)
    \/ ApplyLoop
    \/ BecomeMasterBegins
    \/ Promotion

(* Goroutines run, and sync.RWMutex starves no waiter (hence SF).  Nothing   *)
(* is assumed of requests, log entries or the decision to promote.           *)
LockFairness ==
    /\ \A q \in Caller : SF_lockVars(GetProjectEnv(q))
    /\ SF_lockVars(ApplyLoop)
    /\ SF_lockVars(Promotion)

LockSpec == LockInit /\ [][LockNext]_lockVars /\ LockFairness
-----------------------------------------------------------------------------
(* The types of the variables, and the steps at which a lock is held. *)
LockTypeOK ==
    /\ engine \in [Project -> {"closed", "env", "registry"}]
    /\ registered \subseteq Project
    /\ target \in [Proc -> Project]
    /\ todo \subseteq Project /\ jobs \subseteq Project
    /\ nodeMu = IF at[Promoter] \in {"watching", "done"} THEN NoProc ELSE Promoter
    /\ \A q \in Caller : at[q] \in {"locked", "register"} <=> projectsMu = q

Promoting == at[Promoter] # "watching"

(* Until a promotion starts, every request and every log entry gets through  *)
(* both locks, however requests and the apply loop interleave: GetProjectEnv *)
(* and the engine opener take them in a compatible order.                    *)
WorkersReturn ==
    \A q \in Request \cup {Applier} : at[q] # "idle" ~> (at[q] = "idle" \/ Promoting)

(* docs/ha-deployment.md:123, "Background jobs (cron, functions, backups)    *)
(* restart on new Master".                                                   *)
JobsRestart == \A p \in Project : Promoting ~> p \in jobs
=============================================================================
