--------------------------------- MODULE Mcp ---------------------------------
(* The MCP endpoint of a project: tokens and settings, kept in the project's   *)
(* database and in a store cached for the open database handle; an index from  *)
(* the hash of a token to the token, built on first use; the tools, which read *)
(* the database and then write to it.  The store locks its own memory, not the *)
(* steps of a request around it.                                               *)
EXTENDS Naturals, Sequences

CONSTANTS Tokens, McpReqs,
          McpCollections, McpNumbers,   \* what records are named by
          Called,      \* tools that clients call
          Granted,     \* the sets of scopes given to tokens
          Disabled,    \* the sets of tools that owners disable
          MaxReloads,  \* bound: times the project's engine is reopened
          RingSize     \* calls the log keeps

RecordIds == McpCollections \X McpNumbers

\* Owners disable tools that clients call.
ASSUME McpAssumption ==
  MaxReloads \in Nat /\ RingSize \in Nat /\ Disabled \subseteq SUBSET Called

VARIABLES
  config,    \* the settings on disk
  kept,     \* the tokens on disk: their scopes
  handle,    \* the open database, by the number of times it was opened
  store,     \* the store loaded from the open handle
  index, indexBuilt,
  calls,     \* the last tool calls and whether they succeeded
  docs,      \* records of a collection: the requests whose fields they hold
  mcpReqs,   \* requests: where they are and what they read
  minted,    \* history: tokens that were handed out
  revoked,   \* history: tokens that were deleted
  late       \* history: tokens whose use was saved after they had been deleted

mcpVars == <<config, kept, handle, store, index, indexBuilt, calls, docs,
             mcpReqs, minted, revoked, late>>
disk == <<config, kept, handle>>
history == <<minted, revoked, late>>

Scope == [list_collections |-> "read", describe_collection |-> "read",
          query_records |-> "read", get_record |-> "read", insert_record |-> "write",
          update_record |-> "write", delete_record |-> "write",
          create_collection |-> "schema", create_index |-> "schema",
          list_functions |-> "functions", invoke_function |-> "functions",
          list_buckets |-> "read", list_files |-> "read", read_logs |-> "logs"]
AllScopes == {"read", "write", "schema", "functions", "logs"}

NoStore == [loaded |-> FALSE, tokens |-> {}]
NoConfig == [enabled |-> FALSE, disabled |-> {}]
NoCall == [pc |-> "done", h |-> 0, t |-> "none", tool |-> "none", id |-> "none",
           doc |-> {}, cfg |-> NoConfig]

\* No scopes mean the right to read; a request with an unknown one is refused.
NormalizeScopes(scopes) == IF scopes = {} THEN {"read"} ELSE scopes

McpInit ==
  /\ config = NoConfig /\ kept = [t \in Tokens |-> {}] /\ handle = 0
  /\ store = NoStore /\ index = {} /\ indexBuilt = FALSE
  /\ calls = <<>> /\ docs = [i \in RecordIds |-> {}]
  /\ mcpReqs = [q \in McpReqs |-> NoCall]
  /\ minted = {} /\ revoked = {} /\ late = {}

------------------------------------------------------------------------------
load == [loaded |-> TRUE, tokens |-> {t \in Tokens : kept[t] # {}}]

\* The store of the open handle, loaded by the first request that asks for it; its
\* settings are those on disk.
Store == IF store.loaded THEN store ELSE load

Goto(q, call) == mcpReqs' = [mcpReqs EXCEPT ![q] = call]
At(q, pc) == mcpReqs[q].pc = pc
Step(q, pc) == Goto(q, [mcpReqs[q] EXCEPT !.pc = pc])

\* A closed database panics: the request, or the tool, ends there.
Open(q) == mcpReqs[q].h = handle

------------------------------------------------------------------------------
\* CreateToken saves the token, adds it to the store it holds, then to the index.
CreateToken(q) ==
  /\ At(q, "done")
  /\ \E t \in Tokens \ (minted \union revoked), scopes \in Granted :
       /\ scopes \subseteq AllScopes
       /\ kept[t] = {}   \* a token is random: it was never used before
       /\ kept' = [kept EXCEPT ![t] = NormalizeScopes(scopes)]
       /\ Goto(q, [NoCall EXCEPT !.pc = "remember", !.h = handle, !.t = t])
  /\ store' = Store
  /\ UNCHANGED <<config, handle, index, indexBuilt, calls, docs, history>>

Remember(q) ==
  /\ At(q, "remember") /\ Step(q, "index")
  /\ store' = IF Open(q) THEN [store EXCEPT !.tokens = @ \union {mcpReqs[q].t}] ELSE store
  /\ UNCHANGED <<disk, index, indexBuilt, calls, docs, history>>

IndexToken(q) ==
  /\ At(q, "index") /\ Goto(q, NoCall)
  /\ index' = index \union {mcpReqs[q].t} /\ minted' = minted \union {mcpReqs[q].t}
  /\ UNCHANGED <<disk, store, indexBuilt, calls, docs, revoked, late>>

\* Mutant: the token is forgotten and stays on disk.
DeleteTokenKeepsKey(q, t) ==
  /\ At(q, "done") /\ t \in Store.tokens
  /\ store' = [Store EXCEPT !.tokens = @ \ {t}] /\ revoked' = revoked \union {t}
  /\ Goto(q, [NoCall EXCEPT !.pc = "unindex", !.t = t])
  /\ UNCHANGED <<disk, index, indexBuilt, calls, docs, minted, late>>

\* DeleteToken removes the token from disk and memory under the store's lock,
\* then from the index.
DeleteToken(q, t) ==
  /\ At(q, "done") /\ t \in Store.tokens
  /\ kept' = [kept EXCEPT ![t] = {}]
  /\ store' = [Store EXCEPT !.tokens = @ \ {t}]
  /\ Goto(q, [NoCall EXCEPT !.pc = "unindex", !.t = t])
  /\ revoked' = revoked \union {t}
  /\ UNCHANGED <<config, handle, index, indexBuilt, calls, docs, minted, late>>

Unindex(q) ==
  /\ At(q, "unindex") /\ Goto(q, NoCall)
  /\ index' = index \ {mcpReqs[q].t}
  /\ UNCHANGED <<disk, store, indexBuilt, calls, docs, history>>

\* The settings are read, one of them is changed, and all are written.
handleAdminSetMCP(q, changed) ==
  /\ At(q, "done")
  /\ store' = Store
  /\ Goto(q, [NoCall EXCEPT !.pc = "set", !.h = handle, !.cfg = changed])
  /\ UNCHANGED <<disk, index, indexBuilt, calls, docs, history>>

SetConfig(q) ==
  /\ At(q, "set") /\ Goto(q, NoCall)
  /\ config' = IF Open(q) THEN mcpReqs[q].cfg ELSE config
  /\ UNCHANGED <<kept, handle, store, index, indexBuilt, calls, docs, history>>

------------------------------------------------------------------------------
\* ensureIndex reads the tokens of the store, and merges them later.
ensureIndex(q, t) ==
  /\ At(q, "done") /\ ~indexBuilt
  /\ store' = Store
  /\ Goto(q, [NoCall EXCEPT !.pc = "merge", !.t = t, !.doc = Store.tokens])
  /\ UNCHANGED <<disk, index, indexBuilt, calls, docs, history>>

\* Mutant: the tokens read earlier replace the index.
MergeIndexReplaces(q) ==
  /\ At(q, "merge") /\ Goto(q, NoCall)
  /\ index' = IF indexBuilt THEN index ELSE mcpReqs[q].doc
  /\ indexBuilt' = TRUE
  /\ UNCHANGED <<disk, store, calls, docs, history>>

MergeIndex(q) ==
  /\ At(q, "merge") /\ Goto(q, NoCall)
  /\ index' = IF indexBuilt THEN index ELSE index \union mcpReqs[q].doc
  /\ indexBuilt' = TRUE
  /\ UNCHANGED <<disk, store, calls, docs, history>>

authenticate(t) == indexBuilt /\ t \in index /\ t \in Store.tokens

\* A request is let in with the token and the settings of this moment, and its
\* use of the token is noted; at most once a minute the note is saved.
ServeHTTP(q, t, tool, i) ==
  /\ At(q, "done") /\ authenticate(t) /\ config.enabled
  /\ store' = Store
  /\ \E pc \in {"touch", "call"} :
       Goto(q, [NoCall EXCEPT !.pc = pc, !.h = handle, !.t = t, !.tool = tool,
                              !.id = i, !.cfg = config,
                              !.doc = kept[t]])  \* the scopes of the token
  /\ UNCHANGED <<disk, index, indexBuilt, calls, docs, history>>

\* Touch copies the token under the lock and saves the copy after it.
Touch(q) ==
  /\ At(q, "touch")
  /\ LET t == mcpReqs[q].t IN
       IF Open(q)
         THEN /\ kept' = [kept EXCEPT ![t] = mcpReqs[q].doc]
              /\ late' = IF kept[t] = {} THEN late \union {t} ELSE late
              /\ Step(q, "call")
         ELSE Goto(q, NoCall) /\ UNCHANGED <<kept, late>>
  /\ UNCHANGED <<config, handle, store, index, indexBuilt, calls, docs, minted, revoked>>

\* Mutant: the ring grows by one before it turns.
TrimmedLate(log) == IF Len(log) > RingSize + 1 THEN Tail(log) ELSE log

Trimmed(log) == IF Len(log) > RingSize THEN Tail(log) ELSE log
recordCall(q, ok) == calls' = Trimmed(Append(calls, [tool |-> mcpReqs[q].tool, ok |-> ok]))

toolAllowed(q) ==
  /\ mcpReqs[q].tool \notin mcpReqs[q].cfg.disabled
  /\ Scope[mcpReqs[q].tool] \in mcpReqs[q].doc

\* Records are named by collection and number.  Internal collections are out of
\* reach, system collections cannot be written.
collectionArg(q, write) ==
  LET c == mcpReqs[q].id[1] IN c # "__internal" /\ (write => c # "_users")

Found(q) == docs[mcpReqs[q].id]
Reads(ok) == [ok |-> ok, writes |-> FALSE, doc |-> {}]

query_records(q) == Reads(collectionArg(q, FALSE))
get_record(q) == Reads(collectionArg(q, FALSE) /\ Found(q) # {})
insert_record(q) == [ok |-> collectionArg(q, TRUE) /\ Found(q) = {},
                     writes |-> TRUE, doc |-> {q}]
update_record(q) == [ok |-> collectionArg(q, TRUE) /\ Found(q) # {},
                     writes |-> TRUE, doc |-> Found(q) \union {q}]
delete_record(q) == [ok |-> collectionArg(q, TRUE) /\ Found(q) # {},
                     writes |-> TRUE, doc |-> {}]

\* What a tool makes of what it reads.  The tools on schemas, functions, storage
\* and logs do not touch the records.
safeRun(q) == CASE mcpReqs[q].tool = "get_record" -> get_record(q)
                [] mcpReqs[q].tool = "query_records" -> query_records(q)
                [] mcpReqs[q].tool = "insert_record" -> insert_record(q)
                [] mcpReqs[q].tool = "update_record" -> update_record(q)
                [] mcpReqs[q].tool = "delete_record" -> delete_record(q)
                [] OTHER -> Reads(TRUE)

\* The tool works on the engine that is open when it starts.
callTool(q) ==
  /\ At(q, "call")
  /\ LET run == safeRun(q) IN
       IF toolAllowed(q) /\ run.ok /\ run.writes
         THEN /\ Goto(q, [mcpReqs[q] EXCEPT !.pc = "write", !.h = handle, !.doc = run.doc])
              /\ UNCHANGED calls
         ELSE Goto(q, NoCall) /\ recordCall(q, toolAllowed(q) /\ run.ok)
  /\ UNCHANGED <<disk, store, index, indexBuilt, docs, history>>

\* Another request may have written the record since: the last write wins.
WriteRecord(q) ==
  /\ At(q, "write") /\ Goto(q, NoCall) /\ recordCall(q, Open(q))
  /\ docs' = IF Open(q) THEN [docs EXCEPT ![mcpReqs[q].id] = mcpReqs[q].doc] ELSE docs
  /\ UNCHANGED <<disk, store, index, indexBuilt, history>>

------------------------------------------------------------------------------
Reload ==
  /\ handle < MaxReloads /\ handle' = handle + 1 /\ store' = NoStore
  /\ UNCHANGED <<config, kept, index, indexBuilt, calls, docs, mcpReqs, history>>

\* A restart forgets the index and the log; requests end where they are.
RestartMcp ==
  /\ handle < MaxReloads /\ handle' = handle + 1
  /\ store' = NoStore /\ index' = {} /\ indexBuilt' = FALSE
  /\ calls' = <<>> /\ mcpReqs' = [q \in McpReqs |-> NoCall]
  /\ UNCHANGED <<config, kept, docs, history>>

McpNext ==
  \/ Reload \/ RestartMcp
  \/ \E q \in McpReqs :
       \/ CreateToken(q) \/ Remember(q) \/ IndexToken(q) \/ Unindex(q)
       \/ \E on \in BOOLEAN : handleAdminSetMCP(q, [config EXCEPT !.enabled = on])
       \/ \E off \in Disabled : handleAdminSetMCP(q, [config EXCEPT !.disabled = off])
       \/ SetConfig(q) \/ MergeIndex(q) \/ Touch(q) \/ callTool(q) \/ WriteRecord(q)
       \/ \E t \in Tokens :
            \/ DeleteToken(q, t) \/ ensureIndex(q, t)
            \/ \E tool \in Called, i \in RecordIds : ServeHTTP(q, t, tool, i)

McpSpec == McpInit /\ [][McpNext]_mcpVars

------------------------------------------------------------------------------
(* Settings, tokens, records and requests are well formed; the log is bounded. *)
McpTypeOK ==
  /\ config \in [enabled : BOOLEAN, disabled : SUBSET Called]
  /\ kept \in [Tokens -> SUBSET AllScopes] /\ handle \in 0..MaxReloads
  /\ store \in [loaded : BOOLEAN, tokens : SUBSET Tokens]
  /\ index \subseteq Tokens /\ indexBuilt \in BOOLEAN
  /\ Len(calls) <= RingSize /\ docs \in [RecordIds -> SUBSET McpReqs]
  /\ minted \union revoked \union late \subseteq Tokens

(* A token that was handed out and not deleted since opens the endpoint: it is *)
(* in the store that is in use and, once the index is built, in the index -    *)
(* whatever reload, restart or index construction came in between.             *)
HandedOutTokensWork ==
  \A t \in minted \ revoked : t \in Store.tokens /\ (indexBuilt => t \in index)

(* A deleted token stays refused, across reloads and restarts, unless a use of *)
(* it was being saved while it was deleted.                                    *)
RevokedTokensAreRefused ==
  \A t \in revoked \ late : kept[t] = {} /\ ~authenticate(t)

(* An MCP token works from when it is handed out until it is deleted. *)
TokensAreHonoured == HandedOutTokensWork /\ RevokedTokensAreRefused
==============================================================================
