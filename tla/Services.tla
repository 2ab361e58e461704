------------------------------- MODULE Services -------------------------------
(* The services of a project: queues, scheduled jobs, functions, the MCP       *)
(* endpoint, webhooks, integrations and mail.  They share no state, so a       *)
(* behaviour belongs to one of them, chosen in the initial state.              *)
EXTENDS Queue, Mcp, Integers, Sequences, FiniteSets
LOCAL INSTANCE TLC

CONSTANTS Jobs, Schedules, MaxFailures, Ids, FnNames, FnReqs, Triggers,
          MaxEdits, MaxRuns, Hooks, Fires, Pages, Secrets, ActReqs, MaxTries,
          Letters, Senders, Providers, MaxEntries, MaxSends

ServicesBounds ==
  /\ "none" \notin Ids \cup FnNames      \* a name without a function
  /\ Secrets \cap {"absent", "mask", "nothing"} = {}   \* what pages show instead
  /\ IsFiniteSet(Senders)
  /\ {MaxFailures, MaxEdits, MaxTries, MaxEntries} \subseteq Nat
ASSUME ServicesAssumption == ServicesBounds

VARIABLES focus,
  jobs, saved, fires, due, running, database, cached, overtaken, failures,
  fns, names, drawn, edits, times, count, executing, contended,
  hooks, editing, cache, missed, posting, configured,
  provider, secret, wanted, pages, removed, orphaned, acts, tries, unsure,
  performed,
  mailer, template, sending, mailLog, appended, clearing, newer, cleared,
  delivered, doubtful

Cron == INSTANCE Scheduler
FunctionStore == INSTANCE ProjectFunctions
Outgoing == INSTANCE Webhooks
Vendor == INSTANCE Integrations
Letterbox == INSTANCE Mail

cronVars == <<jobs, saved, fires, due, running, database, cached, overtaken,
              failures>>
functionStoreVars == <<fns, names, drawn, edits, times, count, executing,
                       contended>>
outgoingVars == <<hooks, editing, cache, missed, posting, configured>>
vendorVars == <<provider, secret, wanted, pages, removed, orphaned, acts,
                tries, unsure, performed>>
letterboxVars == <<mailer, template, sending, mailLog, appended, clearing,
                   newer, cleared, delivered, doubtful>>

Init ==
  /\ focus \in {"queue", "cron", "functions", "mcp", "webhooks",
                "integrations", "mail"}
  /\ QueueInit /\ Cron!SchedInit /\ FunctionStore!FnInit /\ McpInit /\
     Outgoing!HookInit /\ Vendor!IntegrationInit /\ Letterbox!MailInit
  /\ focus = "webhooks" \/ configured = {}   \* the others once, not once per
  /\ focus = "integrations" \/ provider = "stripe"   \* choice of these
  /\ \/ focus = "mail"
     \/ mailer = [provider |-> "smtp", has |-> {"sender"}] /\ template = "own"

MailboxStep ==
  /\ focus = "queue" /\ QueueNext
  /\ UNCHANGED <<focus, cronVars, functionStoreVars, mcpVars, outgoingVars,
                 vendorVars, letterboxVars>>

CronStep ==
  /\ focus = "cron" /\ Cron!SchedNext
  /\ UNCHANGED <<focus, queueVars, functionStoreVars, mcpVars, outgoingVars,
                 vendorVars, letterboxVars>>

FunctionStoreStep ==
  /\ focus = "functions" /\ FunctionStore!FnNext
  /\ UNCHANGED <<focus, queueVars, cronVars, mcpVars, outgoingVars,
                 vendorVars, letterboxVars>>

EndpointStep ==
  /\ focus = "mcp" /\ McpNext
  /\ UNCHANGED <<focus, queueVars, cronVars, functionStoreVars,
                 outgoingVars, vendorVars, letterboxVars>>

OutgoingStep ==
  /\ focus = "webhooks" /\ Outgoing!HookNext
  /\ UNCHANGED <<focus, queueVars, cronVars, functionStoreVars, mcpVars,
                 vendorVars, letterboxVars>>

VendorStep ==
  /\ focus = "integrations" /\ Vendor!IntegrationNext
  /\ UNCHANGED <<focus, queueVars, cronVars, functionStoreVars, mcpVars,
                 outgoingVars, letterboxVars>>

LetterboxStep ==
  /\ focus = "mail" /\ Letterbox!MailNext
  /\ UNCHANGED <<focus, queueVars, cronVars, functionStoreVars, mcpVars,
                 outgoingVars, vendorVars>>

Next ==
  \/ MailboxStep
  \/ CronStep
  \/ FunctionStoreStep
  \/ EndpointStep
  \/ OutgoingStep
  \/ VendorStep
  \/ LetterboxStep

Spec == Init /\ [][Next]_<<focus, queueVars, cronVars, functionStoreVars,
                           mcpVars, outgoingVars, vendorVars,
                           letterboxVars>>

(* Every component keeps its variables in their types.                         *)
TypeOK ==
  /\ focus = "queue" => QueueTypeOK
  /\ focus = "cron" => Cron!SchedTypeOK
  /\ focus = "functions" => FunctionStore!FnTypeOK
  /\ focus = "mcp" => McpTypeOK
  /\ focus = "webhooks" => Outgoing!HookTypeOK
  /\ focus = "integrations" => Vendor!IntegrationTypeOK
  /\ focus = "mail" => Letterbox!MailTypeOK

(* Enabled jobs and scheduled functions have a next time, from their present   *)
(* schedule, and a function is found by its name; excepted are the overlaps    *)
(* named in the modules.                                                       *)
JobsAndFunctionsRun ==
  /\ focus = "cron" => Cron!EnabledJobsAreScheduled
  /\ focus = "functions" => FunctionStore!WatcherKnowsSchedules
  /\ focus = "functions" => FunctionStore!FunctionsAreFound

(* What leaves the node goes where it should: webhooks to the present list,    *)
(* integrations with the real secret and no more calls than were reported,     *)
(* mail as its log tells; excepted are the overlaps named in the modules.      *)
OutsideIsServed ==
  /\ focus = "webhooks" => Outgoing!CachedHooksAreCurrent
  /\ focus = "integrations" => Vendor!SecretsStayReal
  /\ focus = "integrations" => Vendor!FailuresExplainRepeats
  /\ focus = "mail" => Letterbox!LogTellsDeliveries
  /\ focus = "mail" => Letterbox!ClearingTakesWhatItRead

\* Identifiers, names and requests are interchangeable in TLC's runs, which take
\* the same ones for jobs and functions and for the requests of all parts.
Symmetry == Permutations(Ids) \cup Permutations(FnNames) \cup Permutations(FnReqs)
==============================================================================
