\* Two projects and names under three histories of the master; one team with
\* three members, two addresses and an invitation that two requests accept;
\* two administrators; two users, addresses and requests; a request that
\* counts twice and reads while the meter is flushed; five events in batches
\* of two; two audited requests and one stop.
SPECIFICATION Spec
CONSTANTS
  u1 = u1
  u2 = u2
  a1 = a1
  a2 = a2
  r1 = r1
  r2 = r2
  UserIds = {u1, u2}
  UserEmails = {a1, a2}
  UserReqs = {r1, r2}
  States = {"s1"}
  Methods = {"GET"}
  MeterReqs = {"m1"}
  AdminReqs = {r1, r2}
  EventReqs = {r1, r2}
  AuditReqs = {r1, r2}
  MaxCount = 2
  MaxSecret = 1
  Projects = {"p1", "p2"}
  Histories <- MasterHistories
  Names = {"n1", "n2"}
  TeamProjects = {"q1"}
  Users = {"u1", "u2", "u3"}
  Emails = {"e1", "e2"}
  Tokens = {"t1"}
  Requests = {"r1", "r2"}
  AdminIds = {1, 2}
  AdminEmails = {"e1", "e2"}
  GivenRoles = {"super_admin", "admin"}
  EnvEmails = {"unset", "e1"}
  BatchSize = 2
  MaxEvents = 5
  MaxStores = 2
  MaxStops = 1
SYMMETRY Symmetry
INVARIANTS
  TypeOK
  
  FollowerReachesLog
  
  RecordsAddUp
CHECK_DEADLOCK FALSE
