\* Two messages and consumers of one queue; two jobs and schedules; two
\* functions and names under three edits by two requests; one MCP token, one
\* record, one reload; two webhooks and deliveries; two settings pages and one
\* action of an integration; one letter and two senders.
SPECIFICATION Spec
CONSTANTS
  Jobs = {i1, i2}
  Schedules = {"s1", "s2"}
  Ids = {i1, i2}
  FnNames = {n1, n2}
  FnReqs = {r1, r2}
  Triggers = {"http", "record", "s1", "s2"}
  Hooks = {"h1", "h2"}
  Fires = {"f1", "f2"}
  Pages = {"g1", "g2"}
  Secrets = {"s1"}
  ActReqs = {"a1"}
  Letters = {"l1"}
  Senders = {r1, r2}
  Providers = {"smtp", "resend", "maildev"}
  Queues = {"q"}
  Nested = {}
  Messages = {1, 2}
  Consumers = {"c1", "c2"}
  Limits = {1, 2}
  McpReqs = {r1, r2}
  Tokens = {"t1"}
  McpCollections = {"posts"}
  McpNumbers = {1}
  Called = {"insert_record", "update_record"}
  Granted = {{"read", "write"}}
  Disabled = {{}, {"insert_record"}}
  MaxDrift = 1
  MaxFailures = 1
  MaxRuns = 1
  MaxEdits = 3
  MaxReloads = 1
  RingSize = 1
  MaxTries = 2
  MaxEntries = 3
  MaxSends = 2
SYMMETRY Symmetry
INVARIANTS
  TypeOK
  JobsAndFunctionsRun
  
  
PROPERTIES
  MessagesAreDelivered
CHECK_DEADLOCK FALSE
