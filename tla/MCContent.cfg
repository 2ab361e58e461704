\* Two calls on one document with two versions; one subscriber of one
\* collection, with channels of two and one events; two paths and uploads of
\* one or two units under a quota of one; one configuration entry set by two
\* requests; two open settings pages and one restart.
SPECIFICATION Spec
CONSTANTS
  r1 = r1
  r2 = r2
  p1 = p1
  p2 = p2
  Calls = {r1, r2}
  Docs = {"d1"}
  BatchOps <- Batched
  Clients = {"c1"}
  Collections = {"a"}
  MaxVersion = 2
  QueueSize = 2
  InboxSize = 1
  MaxEvents = 3
  Paths = {p1, p2}
  FileReqs = {r1, r2}
  Sizes = {1, 2}
  Keys = {"k1"}
  ConfReqs = {r1, r2}
  Forms = {r1, r2}
  Values = {"v1"}
  Quota = 1
  MaxMetered = 2
  MaxTime = 5
  MaxStarts = 1
SYMMETRY Symmetry
INVARIANTS
  TypeOK
  
  SubscribersAreServed
  
CHECK_DEADLOCK FALSE
