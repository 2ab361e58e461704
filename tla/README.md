# Sovrabase in TLA+

Sovrabase is a single Go binary that offers a document database, authentication, file
storage, queues, scheduled jobs, realtime events and serverless functions to several
projects (tenants), and that replicates its state from one master to heirs and readers.
This directory specifies what is hardest to test in it: replication and failover, the document
engine under concurrent requests, what a node knows of projects and people, and the services of
a project as sequences of the reads and writes that requests interleave.
The specifications are written from the Go code under `src/`; `PROJECT.json` maps each
definition to the lines it stands for.

Status: everything in section 2 is modelled and model-checked, and every safety property that a
passing run checks is also proved for every value of the constants, except one: that a row-level
rule decides what its grammar says. That one and the liveness properties are model-checked only
(section 4 says why). *Not modelled*, at the end of section 2, says what is left out and why.

| module | what it is |
| --- | --- |
| `AppendOnlyLog` | the abstract write-ahead log: it only grows |
| `ReplicationLog` | the write-ahead log as coded: two keys per append, crashes, streams |
| `Replication` | a master, its concurrent writers, the stream, the followers |
| `Failover` | failure detection, promotion, epochs, the client's reconnection |
| `PromotionLocks` | the mutexes a promotion takes, against requests and the apply loop |
| `DocumentEngine` | documents and indexes of a collection under concurrent requests |
| `TenantRegistry` | projects in memory and on disk, environments, the apply loop's opener |
| `Team`, `Admins`, `Accounts` | members and invitations, administrators, users and sign-in |
| `DocumentApi`, `Rules`, `RealtimeHub` | document handlers, row-level rules, events |
| `Storage`, `ConfigMaps`, `ServerSettings` | files, configuration entries, settings of the server |
| `Queue`, `Scheduler`, `CronExpr` | messages, scheduled jobs, the next time of a schedule |
| `ProjectFunctions`, `FunctionWorker` | functions and their triggers, one execution in a worker |
| `Mcp`, `Webhooks`, `Integrations`, `Mail` | what talks to the outside |
| `Metering`, `Analytics`, `AuditTrail`, `RequestLog` | what is counted and noted |
| `RateLimit`, `Backups` | the limit on requests, backups of the data directory |
| `Tenancy` | registry, teams, administrators, users, meter, events and audit trail of a node, composed |
| `Content` | documents, realtime events, files, entries and settings, composed |
| `Services` | queues, MCP endpoint, jobs, functions, webhooks, integrations and mail, composed |
| `Node` | rate limit, execution of a function, next times, request log and backups, composed |
| `*_proofs` | theorems on the module they are named after, with proofs for TLAPS; those on `PromotionLocks` are in `Failover_proofs` |
| `MC*` | instances for TLC where a configuration needs definitions; the other modules are run as they are; one `.cfg` per run |

## 1. Inventory

### Components, their state and their operations

* **Write-ahead log** (`internal/replication/log.go`). A Pebble database with a record per
  LSN and a meta key that holds the last LSN; in memory, a counter under a mutex.
  Operations: `Append`, `StreamFrom` (a goroutine that polls snapshots every 50 ms),
  `NewReplicationLog`, `Close`. *Correct when* an acknowledged entry keeps its LSN for ever
  and every stream delivers consecutive entries of the log.
* **Cluster node** (`cluster.go`). Role, epoch, `lsnCounter`, `lastApplied`, a registry of
  engines per namespace, callbacks. Operations: `writeNS`/`writeRaw` on a master,
  `ApplyEntry` on a follower, `BecomeMaster`. *Correct when* the engines of all nodes hold
  what the log says.
* **Stream** (`stream.go`). The server runs one `StreamFrom` and a 10 s ping ticker per peer;
  the client keeps `lastLSN`, a channel of 256 entries, a read loop, one reconnection per
  read error. *Correct when* a follower takes entries in order and skips none silently.
* **Failure detection** (`cmd/sovrabase/replication.go`). `monitorMasterHealth` compares the
  time of the client's last read with three times `lease_ttl`, once per `lease_ttl`, and
  promotes the heir after three stale ticks in a row. `lease.go` holds a second detector
  (heartbeats between peers), which a running server never starts on an heir: nothing but
  tests calls `ClusterNode.Start`. *Correct when* a healthy master stays the only master and
  a lost one is replaced.
* **Tenant registry** (`internal/tenant`). Projects by id and by secret, environments with an
  open engine each, memberships, all under `pm.mu`; replicated by `WriteTenantOp` and the
  `Apply*` functions. *Correct when* both indexes agree, an environment's engine is open
  while anybody uses it, and followers know every project.
* **Document engine** (`internal/db`). Documents, collection metadata, secondary index
  entries in Pebble. No lock: every operation is a sequence of reads and writes. *Correct
  when* an index holds exactly the entries of the stored documents and a unique index never
  has two.
* **Teams, administrators, users** (`tenant/membership.go`, `auth/`). Records with an index
  from addresses or persons to them, without a lock; handlers read, spend time on a hash or a
  provider, and write back whole records. *Correct when* whoever belongs is found under the
  present address, and one invitation or state lets one in.
* **Document requests** (`api/handlers.go`, `plugin/hooks.go`). Rules, hooks, the write, the
  event, the count, one after the other. *Correct when* events and counts follow the writes.
* **Row-level rules** (`db/rules.go`). A tokenizer, a parser by descent, an evaluation.
* **Realtime hub** (`internal/realtime`, `client/realtime.go`). Clients, subscriptions, an
  event channel of 1024 and one of 256 per client. *Correct when* a client sees the events of
  its subscriptions in order, up to what full channels drop.
* **Object storage** (`internal/storage`). A file and a metadata file, or an object; a quota.
  *Correct when* what is listed is there, whole, and within the quota.
* **Queue** (`internal/queue`). Messages with a visibility time, per-queue counters, a mutex.
  *Correct when* an undeleted message is delivered again after its timeout.
* **Scheduler** (`internal/scheduler`, `internal/cronexpr`). Jobs, next fire times, a ticker.
  *Correct when* an enabled job has the next time of its present schedule.
* **Functions** (`internal/functions`). A store with name keys, a watcher of schedules, an
  executor, worker processes with two deadlines. *Correct when* a function is found by its
  name, and whoever runs one gets an outcome.
* **MCP endpoint** (`internal/mcp`). Tokens on disk, in a cached store and in an index; tools
  that check and then write. *Correct when* a token works from its creation to its deletion.
* **Webhooks, integrations, e-mail** (`api/admin_webhooks.go`, `api/integrations_*.go`,
  `internal/email`). Cached lists, masked secrets, calls that break off, a log of letters.
  *Correct when* what leaves the node goes where the present configuration says, and logs tell
  what was sent.
* **Metering, analytics, audit trail, request log** (`internal/metering`, `internal/analytics`,
  `auth/audit_log.go`, `api/async_logger.go`). Counters, batches and entries written in steps.
  *Correct when* what is reported is what happened.
* **Configuration entries, server settings** (`internal/configmaps`, `internal/config`).
  *Correct when* what was saved is there after a restart and a mask never becomes a secret.
* **Rate limit, backups** (`api/ratelimit.go`, `cmd/sovrabase/ha_bootstrap.go`,
  `tenant/manager.go`). *Correct when* a key is admitted within its rate, and a completed backup
  holds one state of each project.
* **Log drains, CLI, dashboard, generated API description.** `PROJECT.json` says why they are
  left out.

### How they interact

A write on the master runs in the HTTP request's goroutine: handler, `writeNS`, engine, WAL,
realtime callback. `StreamFrom` goroutines read the WAL and send to a channel that
`servePeer` drains into a WebSocket. On a follower the read loop fills `entriesCh`, the apply
loop drains it into `ApplyEntry`, which resolves the engine of the entry's namespace and may
call back into the tenant registry to open it. The health monitor of an heir looks only at
the time of the client's last read. A promotion runs callbacks while it holds `n.mu`: they
close the client, start the servers, drop cached environments and start background jobs,
which calls into the tenant registry, which calls into the cluster node.

Handlers of one node share Pebble databases and in-memory caches. Where a store has a mutex, an
operation is one step of its module; where it has none, every access whose value is used later
is a step, and other requests come between.

### What is hard

Concurrent writers with no common lock over engine and log; a crash between two disk writes;
redelivery and replay after a reconnection or a restart; a bounded channel that drops;
promotion decided on silence alone; a reconnection that outlives `Close`; lock orders that
cross two packages; caches of environments, stores, lists and tokens that an edit, a reload or
a deletion must reach; records that are read, changed and written back while others do the
same; reports (events, counts, logs) that are made after the fact they report. `PROJECT.json`
lists each hazard at its line, with the properties that cover it.

## 2. The modules

### ReplicationLog (refines AppendOnlyLog)

`disk` and `meta` are the Pebble keys, `currentLSN` the counter, `phase` the step that the
one running `Append` has reached (`w.mu` is held throughout, so there is only one).
`AssignLSN`, `WriteEntry`, `WriteMeta` are `Append`'s three steps, `RollBack` its error
paths; `WriteMeta` may fail without an error, as the code ignores it. `Stop` is a crash at any
step or `Close`; `Recover` is `NewReplicationLog`. A stream is `StreamFrom`'s goroutine:
`TakeSnapshot` (a tick that finds something), `SendEntry`, `CloseSnapshot`, `CancelStream`.
The buffered channel between `StreamFrom` and its consumer is not separated from the send.

Histories: `acked` (what `Append` returned), `forgotten` (LSNs on disk that a recovery did not
count). The safety properties hold *except* at forgotten LSNs: that exception is the code's
behaviour, shown by run `wal_recovery`.

### Replication

The WAL is a sequence here: what `ReplicationLog` shows the durable log to be. The model
assumes that no recovery forgets an entry; the other case is run `wal_recovery`'s.
`request[w]` is how far a `writeNS` has come: `ApplyLocally` (engine), `NumberWrite` (counter),
`AppendToLog` or `AppendFails`. A follower is its engine `fdocs`, the stream position `next`,
the client's `lastLSN` and `queue`, and the apply loop: `StartFollower`, `Receive` (with the
drop of a full queue), `ApplyEntry` (an entry that the engine refuses is skipped),
`Disconnect`, `Redial` (once), `RedialFails`, `StopFollower`, plus `CrashMaster` and
`StartMaster`. Documents are opaque values of existing collections in the global namespace;
`Accepts` is the engine's existence check.

Left out: the fields that an engine stamps on every write (`_createdAt`, `_updatedAt`), which
differ from node to node; operations on collections, indexes, rules and projects; engines that
must be opened first; the master's own `lastApplied`.

Histories: `snap` (the states the log produces), `torn` (keys written twice at once, or whose
write was cut short by a crash or a failed append), `pos`, `reach` and `dropped` per follower.
They make the exact guarantee expressible: master and follower agree with the log on each key
that is neither torn nor dropped.

### Failover

Time is counted per heir in ticks of its own health ticker. `age` is the number of ticks since
the client last read anything, `pingAge` since the server last pinged. `HealthTick` is one
iteration of `monitorMasterHealth` including the promotion and what its first callback does to
the client and the servers. `ReadPing` and `ReadEntry` are messages from the master. A ping
that is due is read before the next tick of the heir (a guard of `HealthTick`): on an
undisturbed network a ping takes far less than a `lease_ttl`. `Partition`, `Heal`, `ReadError`,
`Crash` are faults. `port` is the outcome of the race between stream server and lease manager
for `ListenAddr`.

### PromotionLocks

`nodeMu` and `projectsMu` are `n.mu` and `pm.mu` by their writers; a read section that waits
for nothing inside is one step that needs the mutex free. A goroutine has a program counter
`at`: requests and the promotion run `GetProjectEnv` (`LockProjects`, `Cached`, `OpenFails`,
`OpenEngine`, `Register`), the apply loop runs `Resolve`, `LookUpProject`, `OpenLazily`,
`RegisterLazily`, the promotion runs `BecomeMaster`, `InvalidateEnvCache`, `ListProjects`,
`StartScheduler`, `Promoted`. `engine` says who opened a project's directory: Pebble opens it
once per process. The second pass that `RegisterFunctionStores` makes over the same calls is
left out; it meets the same locks in the same order.

### DocumentEngine

One collection. `exists`, `docs`, `indexes` and `entries` are the four kinds of Pebble records:
collection metadata, documents, the list of indexes, index entries. A request has a program
counter `at`; every Pebble read or write whose value is used later is a step of its own.
Insert, update and delete share `StoreDoc`, `ReadIndexes`, `RemoveOldEntry`, `CheckUnique`,
`AddNewEntry` and `EndWrite`, with a blank document as the old one of an insert and the new one
of a delete; which fields change (`Changed`) is then one definition for the three functions
`insert-`, `update-` and `deleteIndexEntries`. `CreateIndex` validates, saves the list, scans and
backfills; `DropIndex`, `ClearCollection` and `DropCollection` sweep what an iterator saw.
`CheckUnique` looks at the first entry of a value only, as `scanIndexValue` does.
`CreateCollection` is one step, because its second access writes what its first one found
missing and a repetition changes nothing. The order in which a write visits the indexes is
left open; the code takes the order of their creation.

`IndexScan` is `QueryPaged` on an indexed condition, without pagination. Histories: `torn` (ids
whose write overlapped another write of the id, a clear or a drop, or was refused by a unique
index), `drifted` (ids written while an index operation ran, or inserted over), `raced` (two
operations on indexes or on the collection overlapped). Values, fields and ids are opaque: the
text of keys, where a colon in a value can be taken for a separator, is not modelled.

### TenantRegistry

One node that first follows a log of project operations and may then serve the administration
API as master. `stored` is the master database, `projects`, `secrets`, `owners` its copies in
memory, `locked` the directories a Pebble engine has open, `envs`, `engines`, `stores` the three
caches over such an engine: `pm.envs`, the registry of the cluster node, and the caches of
handlers. `pm.mu` makes an operation of the manager one step; the apply loop's opener looks up
under it and opens and registers after it, so it has three (`opener`). Crashes come between the
writes of an operation, reloads at any time, and `wired` says whether the start has set the
hooks that the apply loop needs.

### Team, Admins, Accounts

Records with an index, and requests as `Begin`/`Finish` pairs: the hash of a password or the
answer of a provider lies between reading a record and writing it back whole. Histories name
the overlaps that the code does not exclude: `contested` addresses that two administrators
claimed at once, `refused` users whose update was answered with an error, `crowded` invitations
that two requests accepted at once. `InvitationLetsOneIn` excepts the last: both requests look
the invitation up while it is pending, and both persons enter.

### DocumentApi, Rules, RealtimeHub

`DocumentApi` has a call as the list of the steps its handler still has to make (`calls`), as
the handlers make them: a step may refuse. The programs of all handlers are `Programs`. What a rule or a hook says is left open there.
`Rules` has a rule as a sequence of tokens; the states of its run are all such sequences, and
`EvaluateRule` (the parser by descent, evaluating as it goes, for evaluation has no effect) is
compared with `Meaning`, which splits at the weakest operator from the outside. `RealtimeHub`
numbers events and follows them through hub queue, connection channel and socket to the reader
of the client library.

### Storage, ConfigMaps, ServerSettings

`Storage` has either driver: every access to the disk of the local one is a step, an object of
the S3 one is one step. `ConfigMaps` times the entries to see which creation time survives. In
`ServerSettings` a page is opened with masked secrets, tested and saved; `yaml` is the file,
which is emptied and then written; a start reads it and the environment.

### Queue, Scheduler, CronExpr, ProjectFunctions, FunctionWorker

`Queue` and the operations of `Scheduler` are one step each under their mutex; `tick` collects,
runs and writes in steps, as it releases the mutex. `CronExpr` is the loop of `Next` over a
small calendar, an iteration a step, compared with the least matching time. `ProjectFunctions`
has edits of three steps (read, write, tell the watcher). `FunctionWorker` is one execution:
handshake, host calls, the deadlines of parent and worker, the answer.

### Mcp, Webhooks, Integrations, Mail

`Mcp` keeps tokens thrice (database, cached store, index of hashes) and runs tool calls as check
and write. `Webhooks` has goroutines that read, cache and post. `Integrations` follows a
configured secret through masked pages, and counts what a provider performed against what the
caller was told. `Mail` does the same for letters and their log. What a provider does is an
external choice.

### Metering, Analytics, AuditTrail, RequestLog, RateLimit, Backups

A flush of `Metering` empties counter after counter into a batch; a flush of `Analytics` reads
a count, adds and writes. `AuditTrail` writes four records per entry. `RequestLog` has files as
numbers that paths lead to, so that a rename, a removal and an open file differ.
`RateLimit` makes a request three steps: look-up, making a bucket, taking a token. `Backups`
gives every project two files and a state, to see whether a copy mixes two.

### Names of mutants

A definition whose comment says *Mutant of X* is a plausible bug in X that some property of a
run must notice. `PROJECT.json` pairs one with each property of each run; the others are kept
beside the definition they vary, because the conjuncts of a property of a composite run
(`PeopleBelong`, say) each have their own.

### Not modelled

* `TruncateBefore`, `LastLSN`, `scanLastLSN`; `logdrain.Forward` and `Start`; the periodic flush
  of analytics; `metering.Reset`; the cleanup of the rate limiter; `BackupsHandler`;
  `asyncLogger.shutdown`; `RevokeInvitation`, `ListInvitations`: nothing in the program calls
  them.
* The election of `lease.go`: no caller gives a running heir a lease manager. It appears in
  `Failover` as a competitor for the listen address.
* Reads without state: listings, statistics, pagination, full-text search, comparison operators
  of queries, image transformation, the summary pages of the console.
* Data: texts of keys and paths, tokens, hashes, codes, templates, the JSON of providers, the
  other tools of the MCP endpoint (they read, or write one record).
* JavaScript that functions run, pages of OAuth providers, S3 and SMTP themselves: choices.
* The generated API description (`docs/docs.go`, about 3000 lines), the command line client, the
  dashboard: consumers or text. The map's share of the implementation counts them.

## 3. The runs

| run | result | what it shows |
| --- | --- | --- |
| `wal` | passes | acknowledged entries survive, streams send consecutive unchanged entries, the durable log only grows, streams catch up |
| `wal_recovery` | violated | after a crash between the two writes the counter is below an entry on disk, which the next append replaces (the comment at `log.go:137` promises a scan) |
| `replication` | passes | counter, master engine and follower engines against the log, order and completeness of what a follower takes, catching up |
| `state_sync` | violated | two concurrent writes of one document: the engine has one order, the log the other, and the follower differs for good |
| `failover` | passes | promotion only after uninterrupted silence, never of a healthy master's heir, always of a lost master's |
| `promotion_locks` | passes | requests and apply loop get through both locks, in whatever order they take them |
| `promotion_jobs` | violated | a promotion that opens an environment waits for the mutex it holds |
| `document_engine` | passes | indexed queries find all matching documents, through index creation under load; they find no others, and a dropped collection is empty, except in the named races |
| `tenancy` | passes | registry, teams, administrators, users, usage, events, audit trail: memory, indexes and reports agree with the database |
| `content` | passes | events and counts follow document writes, subscribers miss events only to full channels, files, entries and settings are kept |
| `services` | passes | messages stay until deleted, jobs and functions have their times and names, tokens work until deleted, hooks, integrations and mail follow the configuration |
| `node` | passes | rules, rate limit and schedules decide as they should, the request log and backups tell the truth, every execution ends |

The last four runs are composite: `Tenancy`, `Content`, `Services` and `Node` each put together
several modules that share no state. The theorems are about these compositions and state the very
properties that the runs check, and TLC evaluates the assumptions of the proofs. `MCTenancy` and
`MCContent` give `Tenancy` and `Content` their instances; `MCNode` adds `Rules` to `Node`, because
a recursive definition must stay out of what proofs are about. A variable `focus`, chosen in the
initial state, says which module a behaviour belongs to, so that the state spaces add up instead
of multiplying, and the properties of the modules are grouped by what they are about:

| property | of | says |
| --- | --- | --- |
| `RegistryIsCoherent` | `TenantRegistry` | memory is the database, through crashes within an operation; a cached environment has the one open engine |
| `FollowerReachesLog` | `TenantRegistry` | a follower at the end of the log has its projects, unless it gave up on a project entry |
| `PeopleBelong` | `Team`, `Admins`, `Accounts` | indexes follow records; an invitation and an OAuth state let one in |
| `RecordsAddUp` | `Metering`, `Analytics`, `AuditTrail` | no count is lost or doubled but in the named ways; the lists of the trail agree, and it tells of its last clearing |
| `WritesAreTold` | `DocumentApi` | the last event shows the document; the meter counts the writes |
| `SubscribersAreServed` | `RealtimeHub` | events come in order and get lost only to a full channel |
| `WhatIsSavedIsKept` | `Storage`, `ConfigMaps`, `ServerSettings` | listed files are whole and within the quota; creation times hold; memory, file and mailer agree after a save and a start; a mask is never a secret |
| `MessagesAreDelivered` | `Queue` | undeleted messages stay; none is handed out while hidden |
| `JobsAndFunctionsRun` | `Scheduler`, `ProjectFunctions` | next times come from present schedules; a name leads to its function |
| `TokensAreHonoured` | `Mcp` | a token works from hand-out to deletion |
| `OutsideIsServed` | `Webhooks`, `Integrations`, `Mail` | cached hooks are current; secrets stay real; failures explain repeats; the mail log tells deliveries, and clearing takes what it read |
| `DecisionsAreRight` | `Rules` | a rule decides what its grammar says |
| `ReportsAreTrue` | `RateLimit`, `FunctionWorker`, `RequestLog`, `Backups`, `CronExpr` | between two admitted requests no more than the burst and the refill; a success made all its host calls once; what is written is listed, in order; a completed backup has one state of each project; the next time of a schedule is its first |
| `EveryRunEnds` | `FunctionWorker` | the caller of an execution gets an outcome |

Most of these have exceptions, which the modules keep as history variables: the overlaps that
the code does not exclude. Each is what the run found when the exception was not there; they
are listed under *Observations*.

### Bounds

* `wal`: two payloads (an LSN written twice shows), one stream (streams share only the disk,
  which they do not write), three LSNs (an entry before, at and after a failure), one crash
  (a second recovery starts from the same two keys, and the theorems have no bound).
* `replication`: one key (documents are independent), two values, two writers, one follower
  (followers do not interact), a queue of one (it fills), three log entries, two faults (a
  disconnection and a failed redial, or a crash and a failed append). `state_sync` needs no
  fault and a queue that cannot fill.
* `failover`: two heirs, the ping period of two ticks (10 s over the default `lease_ttl` of
  5 s), the code's limits of three and three, three faults (a partition, its effect on one
  heir, a crash). A `lease_ttl` below 10 s / 6 would let a healthy master be deposed: with
  `PingEvery` at or above the heir's patience `HealthyMasterKeepsItsHeirs` fails.
* `promotion_locks`: two projects, two requests, one apply loop, one promotion; projects do
  not change (they do in `TenantRegistry`, which has no locks).
* `document_engine`: two documents, one field with two values or none, two goroutines, four
  operations (create an index, drop or recreate it, two writes). Five operations, three
  goroutines, or two fields (with three operations) give the same result in about a minute.
  Requests and values are symmetric.
* `tenancy`: two projects and names (a name that moves), three histories of a master (rename,
  deletion, a name taken over); one team with three members, two addresses and an invitation
  that two requests accept at once;
  two administrators, users, addresses and requests, which is what two overlapping writes need;
  counters up to two and a request that counts twice (before and during a flush) and reads;
  five events in batches of two.
* `content`: two calls on one document; a hub queue of two and a channel of one, so that both
  fill; two paths, sizes one and two under a quota of one; one entry, two pages, one restart.
* `services`: two messages and consumers of one queue; two jobs, functions, names and schedules,
  three edits (a rename, a deletion, a new function under the old name); one token, one reload;
  two hooks and deliveries; two pages and one action tried twice; one letter and two senders.
* `node`: rules of up to five tokens (two operators and three values, where precedence shows); a
  burst of two over a period of two ticks; a calendar of two-minute hours, two-hour days and
  four years with a day that only the last has; up to three host calls; files of two entries,
  two rotated files, five requests, one clearing; one project, two seconds, one scheduled backup
  and one of the console at once.

`CHECK_DEADLOCK FALSE` is set where the system may stop: at the bounds of `Replication`, of
`DocumentEngine` and of the composite runs, after the last fault of `Failover`, and in
`PromotionLocks`, whose deadlocks are the subject of liveness properties.

### Fairness

* `ReplicationLog`: weak fairness of each stream's own goroutine. Its ticker fires for ever.
  Writers, crashes and restarts owe nothing.
* `Replication`: weak fairness of the read loop and of the apply loop of each follower.
  Dials, faults, restarts and writers owe nothing; `CatchesUp` therefore assumes a connection
  that stays up.
* `Failover`: weak fairness of the health ticker and of a ping that is due.
* `PromotionLocks`: strong fairness per goroutine. A `sync.RWMutex` hands itself to a waiter
  (a blocked writer holds off new readers, and an unlocking writer admits waiting ones), so a
  goroutine that waits for a mutex that is free again and again gets it. Requests, log entries
  and the decision to promote owe nothing.
* `FunctionWorker`: weak fairness of the parent, whose steps are its own or those of its timer.
  The worker owes nothing: the function may never end. `MCNode` has no symmetry for this reason.
* The other modules state no fairness and no liveness: their loops are tickers over data, and
  what has to happen in them happens on a request.

## 4. The proofs

All theorems hold for every value of the constants that meets the named assumptions:
`NoEntry` is no payload and the bounds are natural numbers (`ReplicationLog`); `Absent` is no
value, writers are finitely many, bounds and capacity are natural numbers (`Replication`); the
master is no heir, periods and limits are natural numbers and neither `StaleAfter` nor
`MaxFailures` is 0 (`Failover`); goroutines are distinct and `NoProc` is none (`PromotionLocks`);
ids are numbers, `Missing` is no value, `Absent` no document (`DocumentEngine`); there are a
project and a name, and a history is a sequence of entries on projects (`TenantRegistry`);
no method is called as a flush that is not running, a batch has an event at least and the bounds are
natural numbers (`TenancyAssumption`); there are a user, an administrator and an address to start
with, identifiers of administrators are positive numbers, since 0 is the entry of no one, given
roles are the three of the code, an address of the environment is an address, and no user and no
address is called as the one who is not there (`PeopleAssumption`);
messages are finitely many numbers and `"none"` names no queue (`Queue`); bounds are natural
numbers and what is disabled are tools (`Mcp`); batches are pairs of the four operations and the
bound on writes is a natural number (`DocumentApi`); capacities are natural numbers (`RealtimeHub`);
paths and uploads are finitely many, as a sum over them is bounded, `"none"` is no entry and
`"mask"` no value (`Content`); `"none"` is no job and no function, what a page shows instead of a
secret is no secret, and senders of letters are finitely many (`Services`); counts, sizes and
periods are natural numbers, and a node keeps one rotated file and lives for a second at least
(`Node`); months follow one another from day 0 and go on for two years after any time given
(`Calendar`, in `CronExpr`).
Keys, values, followers, streams, heirs, projects, documents, fields, requests, methods, tokens,
users, administrators, addresses, OAuth states, clients, collections, jobs, functions, hooks,
pages, actions, letters, entries and cron expressions may be infinite sets. What only a theorem
needs is its own assumption:
`PingEvery < Patience` of `HealthyMasterStays`.

**`ReplicationLog_proofs`.** Types do not need strengthening. The safety properties need:
`AppendOwnsLSN` (the running append has an LSN, on disk after the first write),
`DiskIsContiguous` (no hole below any LSN on disk, the meta key or the counter),
`CounterPassesDisk` (an append never lands on an entry that no recovery forgot),
`SnapshotIsOldLog` (a snapshot agrees with the disk, again up to forgotten LSNs) and
`PositionCountsSent`. Their conjunction `IInv` is inductive.
`DurableLog` shows that each step either leaves the prefix up to the meta key unchanged or
extends it, and that the initial prefix is empty.

**`Replication_proofs`.** The argument has layers, each a theorem that the next one uses:
types; the counter (`CounterAgrees`, by the cardinality of the requests between the two
counters); the history of states (`SnapFollowsLog`: each state is the previous one with one
entry; `KeyIsStable`: only entries on a key change it; `KeyStartsAbsent`); the master's
engine, which differs from the log by the one request in flight (`EngineIsAheadByRequest`);
the follower's positions (`PipelineIsLinked`: from each LSN to the next only dropped ones are
missing); and the follower's engine (`EngineAgreesOnTouched`). The last one is why replay over
old documents is harmless: a document that a follower has from an earlier life was created by
an entry that will be replayed, and once the first accepted entry on a key has been replayed
the follower agrees with the log on it; before that, the precondition `pos >= reach` of
`FollowerMatchesLog` is false, or the follower never had the document.

**`Failover_proofs`.** A promotion is decided on a counter, and a message sets it back only at the
next tick, so the types are not inductive. `SilenceIsCounted` is: an heir that heard nothing for
`age` ticks has counted those beyond `StaleAfter`, and `TickCounts` draws from it that the
counter reaches its limit exactly when the patience is used up. `HealthyMasterStays` adds
`HealthyHeirsListen`: an heir without a fault is connected, and its silence is not older than the
last ping due.

Of the locks of a promotion, `LockTypeOK` says by whom each mutex is held at each step; it needs
only the set of steps besides.

**`DocumentEngine_proofs`.** An index and its documents are never in step while somebody writes, so
the invariant says who owes the difference. `EntriesComplete`: the entry of a stored document is
there, or the writer of the document has it still to add (`DeferredBy`), or the backfill of a new
index has it still to see or in its hands (`BackfilledBy`). `EntriesJustified`: an entry tells what
the document holds, or what its writer found and will take away (`AsWritten`), or a sweep is about
to delete it (`SweepingBy`). They need that a writer knows the document (`WriterKnowsDoc`) and an
operation the list of indexes (`IndexesAreKnown`), each unless an overlap was noted
(`OverlapsAreNoted`): the exceptions `torn`, `drifted` and `raced` are what the induction cannot do
without, and no more. A settled engine has no writer and no backfill, which leaves the properties.
The lemmas are ordered by what a request changes: only itself, its entries, its document, the
list, or by a sweep the collection.

**`Tenancy_proofs`.** The registry: `CachedEnvIsServed` holds for the reason that a cached environment
keeps its directory locked: the opener, which opens and registers without `pm.mu`, opens nothing
that is locked, and a request opens nothing that the opener has. `MemoryFollowsDisk` needs that a
record with the status of no project is no record, so that an update never makes one.
`FollowerReaches` follows the log: `RecordsFollowLog` says of each project that the latest entry
on it so far decides its record (`IsLatest`, `Effect`), a project without an entry has none, and
both until a project entry is given up; a reload reads what was applied and changes neither.

`PeopleTrue` has a part for each of its three components (`BelongKeeps` gives each step to the one
that took it). Teams: `TokenOK` says of an invitation that no two requests accept at once that one
request at most is between its look-up and its last write, that nobody has joined while it looks
or adds, and that who joined under an invitation that is still open has it yet to mark; that an
invitation expires or is marked meanwhile changes nothing. Administrators: `SignInFindsAdmin` is
inductive once what a request holds is known to be a whole record (`AdminTask`) and every
administrator to have an identifier that was drawn, so that no creation overwrites one; the primary
administrator exists because identifiers are numbers (`LeastExists`). Users: `UsersOK` adds that no
address has two entries, which is what lets an update remove the old entry and nothing else;
`FlowsOK` that a request that holds an OAuth state took it away, so that nobody has entered with a
state that is still there or held.

`RecordsTrue` is about three other components at once: `RecordsKeep` gives each step to
the component that took it. The meter: between the memory and the database a count is in the batch
of a flush, and `MeterInv` says where. What the flush has still to visit is not in its batch, and
what is in the batch has grown, so that a reader who took the stored part before the flush and adds
the memory after it never counts too much. The events: a sum over stores or requests is the number
of pairs of an index and a number up to what stands there (`Pairs`, in `Analytics`), and `SumMoves`
says what a sum does when one part of it changes; `EventInv` keeps stored, held and under way equal
to what was accepted, until two commits overlap, and a full batch in the hands of a request. The
trail: what of an entry is on disk is what is no longer to write of it (`Whole`), unless a clearing
took it; nothing reads an entry before it is begun (`Begins`), so that the entry that tells of the
last clearing is whole whoever else clears.

`TypeOK` of a node (`NodeKeepsTypes`) adds to these invariants what they leave untyped (`RestInv`);
it has the bounds of what is counted in it, so that nothing that is lost, fails or is committed twice
counts more than was made. The theorems on the registry hold of the node because every step of
another component is a stutter to it (`RegistryInside`).

**`Services_proofs`.** Queues: a message that lies in a queue was sent, a hidden one lies in a queue,
and what was sent and not deleted lies in one unless queues nest, whose purge takes the messages
of the other. The counters are typed with the cardinality of finite sets. MCP tokens: a token is on
disk, in the store that is loaded and in the index, and a request may be between any two of them
(`CreatedAreRemembered`: the store it was saved in has still to take it up, or another was loaded
since that has it; `MergesAreWhole`: a list of tokens read for the index still completes it).
`StoreIsLoaded` and `QuietKeeps` serve the steps that only load the store or read.
The other five components have an invariant each, and `ServicesInductive` is the conjunction of all.
Jobs and webhooks need their types besides what is claimed. Functions: without contention one edit
at most is between its read and its write, and the name it is about to take is free or its own
(`OneEdits`, `EditHolds`). Integrations: a mask is stored, or about to be, only if an integration was
removed under an open page (`SecretInv`), and of an action the attempts are at least those that
failed without a certain outcome, the one under way and the one that succeeded (`ActInv`). Mail: the
deliveries of a letter are between what the log and the requests on their way tell of it, and
that and the doubtful ones (`Balance`, with the cardinality of finite sets); what is listed during a
clearing is what the clearing read and what came since (`ClearingHolds`).

**`Content_proofs`.** Documents: the requests that handlers serve are described once, by what may
follow what (`Linked`: a write is followed by what counts and announces it, a refusal in a batch
leads to the next operation); `Requests` shows this of every handler, and `Goes` and `Ends` that
it holds of what is left after a step and after a refusal. The meter lacks exactly what the calls
owe it: the count after a write, the tally of a batch (`MeterOK`, over the set `Owed`, since the
number of requests is open). Of a document that is not contested, at most one call works on it
(`Alone`); what a call read of it is still true when it tells of it (`Keeps`); and unless its last
write sends no event, the last event shows it or a call is about to tell (`Told`). `QuietMove` and
`LoudMove` say what a step has to show that leaves the documents alone, or works on one.
`WritesAreTold` is what remains of these when no call is under way.

Realtime events: the numbers of the events ascend along each channel and from the hub's queue
through the channel of the client and the socket to what it read (`Order`); that is what keeps
events in order through any drops and subscriptions. `Served` follows the events that are due: each
was dropped or is in one of the channels, and one in the hub's queue will match, because a
subscription that changes ends what was due under the old one (`Without`). `OneClient` reduces a
step of a connection to its client.

Files, entries and settings have an invariant each (`ContentInductive`). Files: at a path where no
two requests met there is one request at most, and the file and its metadata are as its step has it
(`PathHolds`, `StageAt`); without a request they agree. The quota: as long as none of the named
loopholes was used, what is stored exceeds what is counted by the one upload that has landed and is
not yet counted (`Covered`; sums are cardinalities of sets of pairs). Entries: the time of creation
that a request is about to write is the one the entry has (`EntryHolds`), unless requests crossed.
Settings: how much a save has achieved at each of its stages, which a save that runs by itself
keeps (`Achieved`, `OneSaves`).

**`Node_proofs`.** Five parts. Rate limit: what was admitted since some request, and what the bucket
still holds, is paid for by the burst and the time since (`Spent`), which becomes the bound of
`AdmittedWithinRate` when a request is admitted; it needs that a bucket is one key's alone
(`BucketsAreOwn`). Worker: parent and worker agree on how far the run is (`WorkersAgree`), and a
call that was answered was made (`CallsAgree`). Request log: the channel holds what comes after
everything written, every file is in order, and a path with a higher number leads to an older file
(`PathsInOrder`); a rotation keeps the order one rename at a time. Backups: what a maker has copied so
far is whole, and not older than its copy of the master database (`DoneIsWhole`, `MasterIsOlder`),
as long as no two makers drew the same name (`BackupsAreOwn`). Schedules: whatever the search has passed
holds no time of the expression (`PassedHoldNone`). A skip is right because the times to the next
month, day or hour share the month, day or hour of the one that did not match (`MonthStays`,
`DayStays`, `HourStays`); every day has one month (`DayHasMonth`, by the least month that begins
later, and `OneMonth`); and every skip goes forward.

| theorem | property |
| --- | --- |
| `ReplicationLog_proofs`: `TypeCorrect`, `InductiveInvariant` | `TypeOK`, `IInv` |
| `AckedSurvive`, `StreamedMatchesLog`, `StreamedWithoutGaps` | the three safety properties |
| `DurableLog` | refinement of `AppendOnlyLog` |
| `Replication_proofs`: `TypeCorrect`, `InductiveInvariant` | `TypeOK`, `IInv` |
| `CounterAgrees`, `MasterMatches`, `OnlyDrops`, `FollowerMatches` | the four safety properties |
| `Failover_proofs`: `TypeCorrect`, `OnlySilencePromotes`, `HealthyMasterStays` | `TypeOK`, `PromotionNeedsSilence`, `HealthyMasterKeepsItsHeirs` |
| `LocksAreKept` | `LockTypeOK` of `PromotionLocks` |
| `DocumentEngine_proofs`: `TypeCorrect`, `InductiveInvariant` | `TypeOK`, `IInv` |
| `FindsMatches`, `FindsOnlyMatches`, `DropLeaves` | `QueryFindsMatches`, `QueryFindsOnlyMatches`, `DropLeavesNothing` |
| `Tenancy_proofs`: `TypeCorrect`, `InductiveInvariant` | types of the registry, `IInv` |
| `RegistryCoherent`, `FollowerReaches` | `RegistryIsCoherent`, `FollowerReachesLog` |
| `PeopleInductive`, `PeopleTrue` | `BelongInv`, `PeopleBelong` |
| `RecordsInductive`, `RecordsTrue` | `RecordsInv`, `RecordsAddUp` |
| `RegistryInside`, `NodeKeepsTypes` | refinement of the registry, `TypeOK` of `Tenancy` |
| `Services_proofs`: `QueueTypeCorrect`, `Delivered` | types, `MessagesAreDelivered` |
| `McpTypeCorrect`, `McpInductive`, `TokensHonoured` | types, `McpInv`, `TokensAreHonoured` |
| `ServicesInductive`, `ServicesTypeCorrect` | `ServicesInv`, `TypeOK` of `Services` |
| `JobsAndFunctionsKeepRunning`, `OutsideStaysServed` | `JobsAndFunctionsRun`, `OutsideIsServed` |
| `Content_proofs`: `DocTypeCorrect`, `DocInductive`, `WritesTold` | types, `DocInv`, `WritesAreTold` |
| `HubTypeCorrect`, `HubInductive`, `Subscribers` | types, `IInv`, `SubscribersAreServed` |
| `ContentInductive`, `ContentTypeCorrect`, `SavedIsKept` | `ContentInv`, `TypeOK` of `Content`, `WhatIsSavedIsKept` |
| `Node_proofs`: `NodeInductive`, `NodeTypeCorrect`, `ReportsStayTrue` | `NodeInv`, `TypeOK` of `Node`, `ReportsAreTrue` |

Only model-checked:

* the liveness properties (`StreamCatchesUp`, `CatchesUp`, `LostMasterIsReplaced`,
  `WorkersReturn`, `EveryRunEnds`), because TLAPS does not reason about fairness and `ENABLED`;
* `DecisionsAreRight`, because the parser of rules is recursive over the tokens, and what it
  computes for every rule would take an induction over data that the installed provers cannot
  instantiate.

## 5. Observations beyond the runs

Each is what a module shows when its exception is left out, or what reading the code for it
showed. The disagreements with a comment, a document or a test are findings in `PROJECT.json`.

Replication and failover
* The startup order lets the apply loop run before `SetCluster`, the tenant applier and the
  engine opener are set (`bootstrap.go:192-199`): project entries that arrive in between are
  skipped and, as `lastLSN` has moved, never asked for again.
* An heir's epoch starts from 0, and the configured master's from 1: after a promotion both may
  have epoch 1. A client that is backing off dials again after `Close`.
* `ReplicationLag` is `lsnCounter - lastApplied`, and `lsnCounter` does not move on a follower:
  `/health` reports a lag of 0 there, where `docs/ha-deployment.md` shows 2.
* A reader's only master address is its first peer: after a failover it does not find the
  promoted heir, whose WAL would in any case start again at LSN 1.
* Detection takes about six `lease_ttl` (more than three of silence, then three ticks in a
  row), where `docs/ha-deployment.md:121` says three.
* `entriesCh` is never closed, so the branch of the apply loop for a closed channel is dead.

Documents, rules, events
* An insert or update that a unique index refuses has stored its document; the entry of the
  former value is gone, so that a user whose address was refused is found under none.
* `QueryPaged` with an index on one condition of a filter returns documents that fail the
  conditions without an index (`engine.go:529-550`). `QueryFindsOnlyMatches` is therefore stated
  for filters whose conditions are all indexed.
* A batch insert without data panics (`handlers.go:1812`); a batch runs no hooks. An insert
  ignores the record a hook put in place, an update uses it. Two writers of a document may
  publish in the other order. Console writes publish no event on a single node.
* Without a user `auth` is a nil map, which equals no null. Whatever is no boolean counts as
  false, negated or not; equality compares printed text.
* The client's `Subscribe` may take an event for its answer; its handlers are unordered
  goroutines. In a cluster deletions carry no data, so filtered subscribers never see them.

Projects and people
* A read of an active project on a follower may find no engine it can open. `ApplyUpdateProject`
  closes an engine that stays registered; stores cached over a reloaded environment keep a
  closed database, and a ticking one panics.
* Teams, invitations and accounts are not replicated; deleting a project leaves their records.
  A crash in `DeleteProject` leaves a project marked deleted that look-ups still return.
* Two acceptances of one invitation at once both enter. The last owner can be removed. A failed
  registration on an expired invitation leaves an account. Two administrators can delete each
  other, and a start then makes the default one.
* A stale write-back undoes a password reset; a reset token works twice at once; a magic link is
  never stored; MFA set-up never takes effect; `ReloadProjectEnv` loses open OAuth states.

Services
* Queues: `in_flight` drifts and may be negative; the prefix of `a` covers `a:b`.
* Schedules: a stepped star in a day field counts as restricted; one without a time within two
  years fires every hour. Deleting or reloading a project stops no scheduler and no watcher.
* Functions: renaming leaves the former name's key; an update resurrects a deleted function; an
  edit while the watcher works may skip one due time; a host call in flight takes effect after a
  reported timeout; `pruneExecutions` prunes nothing; host writes bypass replication.
* MCP: `Touch` may save a token that was deleted meanwhile, which works again after a reload;
  `update_record` merges over a stale read.
* Webhooks: a list read before an edit and stored after it lasts for 30 s; `enabled` and
  `events` are ignored when firing. Integrations: an address shorter than 30 characters makes a
  failed trigger panic (`integrations_triggers.go:131`). A page saved after its integration was
  removed stores the mask.
* Mail: `maildev` reports success and sends nothing; a retry looks at the first 10000 entries;
  the log lists the oldest first.
* Storage: the counter of a quota counts an overwrite twice and a deletion never; uploads of the
  console are not counted. The cache of S3 buckets outlives a deletion.
* Settings: secrets from the environment are written to `config.yaml`; a crash between emptying
  and writing it makes the next start take defaults; overlapping saves mix.

What is counted and noted
* Metering reads miss what a flush has in hand, a failed commit loses it. Analytics: fewer than a
  batch of events are in memory only; concurrent flushes and a replaced store lose counts.
* Audit: reading a project is logged though a comment says only mutations are (`admin.go:985`,
  `admin.go:489`); an entry overtaken by a clearing leaves index records that are counted.
* Request log: an entry written while a clearing runs goes to a removed file; a deleted project's
  directory is made again by the entry of its deletion; what is in the channel is lost at the
  end of the process.
* Rate limit: the table of buckets only grows; `Retry-After` is computed from the bucket as it
  is by then.
* Backups: the console's copies live files one by one, without the master database, and ignores
  errors; names have a resolution of a second, so a scheduled backup may meet another's
  directory and fail; projects that do not open are skipped silently.

## 6. Plan

All modules of section 2 and the proofs of section 4 are done. What would come next:

1. a composition of `Failover` and `Replication`: what a promoted heir may have lost, and what
   the old master may still accept (epochs of two masters, in section 5);
2. progress of the services: that a due job is run and a message that is never deleted is handed
   out again, under fairness of their tickers.
