--------------------------- MODULE Failover_proofs ---------------------------
(* The safety of failure detection for any number of heirs and any timing in   *)
(* which pings outrun the patience of the heirs; and who holds the locks of a  *)
(* promotion, for any number of projects and requests.                         *)
EXTENDS Failover, PromotionLocks, TLAPS

(* An heir that heard nothing for a while counts exactly the ticks of that     *)
(* while that were stale; after a message the count is void until a tick.      *)
SilenceIsCounted ==
  \A h \in Heir : role[h] = "heir" =>
    /\ failures[h] < MaxFailures
    /\ age[h] > 0 => failures[h] = IF age[h] > StaleAfter THEN age[h] - StaleAfter ELSE 0

Inv == TypeOK /\ SilenceIsCounted

(* Types and the count of stale ticks hold together: a count stays in its      *)
(* range because the tick that fills it promotes the heir.                     *)
LEMMA InitInv == Init => Inv
  BY MasterAssumption, TimeAssumption
  DEF Init, Inv, TypeOK, SilenceIsCounted, Node, ConfiguredRole, ConfiguredEpoch, Patience

(* What a tick makes of age and count, before it decides on a promotion.       *)
LEMMA TickCounts ==
  ASSUME Inv, NEW h \in Heir, role[h] = "heir",
         NEW a, a = IF age[h] < Patience THEN age[h] + 1 ELSE Patience
  PROVE  /\ a \in 1..Patience /\ a > age[h]
         /\ Count(h, a) = IF a > StaleAfter THEN a - StaleAfter ELSE 0
         /\ Count(h, a) \in 0..MaxFailures
         /\ Count(h, a) >= MaxFailures => a = Patience
  <1>1. /\ age[h] \in 0..Patience /\ failures[h] \in 0..MaxFailures
        /\ failures[h] < MaxFailures
        /\ age[h] > 0 => failures[h] = IF age[h] > StaleAfter THEN age[h] - StaleAfter ELSE 0
    BY DEF Inv, TypeOK, SilenceIsCounted
  <1>2. Patience = StaleAfter + MaxFailures /\ StaleAfter \in Nat \ {0} /\ MaxFailures \in Nat \ {0}
    BY TimeAssumption DEF Patience
  <1>3. age[h] < Patience
    BY <1>1, <1>2
  <1>4. a = age[h] + 1
    BY <1>3
  <1>5. Count(h, a) = IF a > StaleAfter THEN a - StaleAfter ELSE 0
    BY <1>1, <1>2, <1>4 DEF Count, Stale
  <1> QED BY <1>1, <1>2, <1>3, <1>4, <1>5

LEMMA NextInv == Inv /\ [Next]_vars => Inv'
  <1> SUFFICES ASSUME Inv, [Next]_vars PROVE Inv'
    OBVIOUS
  <1> USE MasterAssumption, TimeAssumption DEF Inv, TypeOK, SilenceIsCounted, Node, Patience
  <1>1. CASE StartMaster
    BY <1>1, SMTT(60) DEF StartMaster, ConfiguredRole, ConfiguredEpoch
  <1>2. ASSUME NEW h \in Heir, StartHeir(h) PROVE Inv'
    BY <1>2, SMTT(60) DEF StartHeir, ConfiguredRole, ConfiguredEpoch
  <1>3. ASSUME NEW h \in Heir, ReadEntry(h) PROVE Inv'
    BY <1>3, SMTT(60) DEF ReadEntry
  <1>4. ASSUME NEW h \in Heir, ReadPing(h) PROVE Inv'
    BY <1>4, SMTT(60) DEF ReadPing
  <1>5. ASSUME NEW h \in Heir, HealthTick(h) PROVE Inv'
    <2> DEFINE a == IF age[h] < Patience THEN age[h] + 1 ELSE Patience
    <2>1. role[h] = "heir"
      BY <1>5 DEF HealthTick
    <2>2. /\ a \in 1..Patience
          /\ Count(h, a) = IF a > StaleAfter THEN a - StaleAfter ELSE 0
          /\ Count(h, a) \in 0..MaxFailures
      BY <2>1, TickCounts
    <2>3. /\ age' = [age EXCEPT ![h] = a] /\ failures' = [failures EXCEPT ![h] = Count(h, a)]
          /\ pingAge' = [pingAge EXCEPT ![h] = IF @ < PingEvery THEN @ + 1 ELSE @]
          /\ UNCHANGED <<running, connected, disturbed, faults>>
      BY <1>5 DEF HealthTick
    <2> HIDE DEF a
    <2>4. /\ age' \in [Heir -> 0..Patience] /\ failures' \in [Heir -> 0..MaxFailures]
          /\ pingAge' \in [Heir -> 0..PingEvery]
      BY <2>2, <2>3, SMTT(60)
    <2>5. CASE Count(h, a) < MaxFailures /\ UNCHANGED <<role, epoch, walEpochs, client, port>>
      BY <2>2, <2>3, <2>4, <2>5
    <2>6. CASE Count(h, a) >= MaxFailures /\ BecomeMaster(h)
      BY <2>2, <2>3, <2>4, <2>6, SMTT(60) DEF BecomeMaster
    <2> QED BY <1>5, <2>5, <2>6 DEF HealthTick, a
  <1>6. ASSUME NEW h \in Heir, Partition(h) PROVE Inv'
    BY <1>6, SMTT(60) DEF Partition
  <1>7. ASSUME NEW h \in Heir, Heal(h) PROVE Inv'
    BY <1>7, SMTT(60) DEF Heal
  <1>8. ASSUME NEW h \in Heir, ReadError(h) PROVE Inv'
    BY <1>8, SMTT(60) DEF ReadError, AfterReadError
  <1>9. ASSUME NEW h \in Heir, Redial(h) PROVE Inv'
    BY <1>9, SMTT(60) DEF Redial
  <1>10. ASSUME NEW h \in Heir, RedialFails(h) PROVE Inv'
    BY <1>10, SMTT(60) DEF RedialFails
  <1>11. ASSUME NEW n \in Node, Crash(n) PROVE Inv'
    BY <1>11, SMTT(60) DEF Crash, AfterReadError
  <1>12. CASE UNCHANGED vars
    BY <1>12, SMTT(60) DEF vars
  <1> QED BY <1>1, <1>2, <1>3, <1>4, <1>5, <1>6, <1>7, <1>8, <1>9, <1>10, <1>11, <1>12 DEF Next

(* Every variable keeps its type, for any number of heirs, faults and ticks.   *)
THEOREM TypeCorrect == Spec => []TypeOK
  <1>1. Inv => TypeOK
    BY DEF Inv
  <1> QED BY InitInv, NextInv, <1>1, PTL DEF Spec

(* A step that promotes an heir is a tick at which its patience is used up.    *)
LEMMA PromotionStep ==
  ASSUME Inv, [Next]_vars, NEW h \in Heir, role[h] = "heir", role'[h] = "master"
  PROVE  age'[h] = Patience
  <1>1. /\ role \in [Node -> {"master", "heir"}] /\ age \in [Heir -> 0..Patience]
        /\ h \in Node /\ h # Master
    BY MasterAssumption DEF Inv, TypeOK, Node
  <1>2. ASSUME NEW g \in Heir, HealthTick(g) PROVE age'[h] = Patience
    <2> DEFINE a == IF age[g] < Patience THEN age[g] + 1 ELSE Patience
    <2>1. /\ role[g] = "heir" /\ age' = [age EXCEPT ![g] = a]
          /\ UNCHANGED role \/ (Count(g, a) >= MaxFailures /\ role' = [role EXCEPT ![g] = "master"])
      BY <1>2 DEF HealthTick, BecomeMaster
    <2>2. Count(g, a) >= MaxFailures => a = Patience
      <3>1. /\ failures[g] \in 0..MaxFailures /\ SilenceIsCounted
            /\ age[g] \in 0..Patience
        BY DEF Inv, TypeOK
      <3> QED BY <3>1, <2>1, TickCounts
    <2> HIDE DEF a
    <2>3. g = h /\ Count(g, a) >= MaxFailures
      BY <1>1, <2>1
    <2> QED BY <1>1, <2>1, <2>2, <2>3
  <1>3. ~StartMaster
    BY <1>1 DEF StartMaster
  <1>4. ASSUME NEW g \in Heir PROVE ~StartHeir(g)
    <2> SUFFICES ASSUME StartHeir(g) PROVE FALSE
      OBVIOUS
    <2>1. role' = [role EXCEPT ![g] = "heir"]
      BY MasterAssumption DEF StartHeir, ConfiguredRole
    <2> QED BY <1>1, <2>1
  <1>5. ASSUME NEW g \in Heir
        PROVE  ~(ReadEntry(g) \/ ReadPing(g) \/ Partition(g) \/ Heal(g) \/ ReadError(g)
                 \/ Redial(g) \/ RedialFails(g))
    BY DEF ReadEntry, ReadPing, Partition, Heal, ReadError, Redial, RedialFails
  <1>6. ASSUME NEW n \in Node PROVE ~Crash(n)
    BY DEF Crash
  <1>7. ~UNCHANGED vars
    BY DEF vars
  <1> QED BY <1>2, <1>3, <1>4, <1>5, <1>6, <1>7 DEF Next

(* monitorMasterHealth promotes an heir only after a full run of silent ticks, *)
(* however messages and reconnections come between (replication.go:194-199).   *)
THEOREM OnlySilencePromotes == Spec => PromotionNeedsSilence
  <1>1. Inv /\ [Next]_vars =>
          [\A h \in Heir : role[h] = "heir" /\ role'[h] = "master" => age'[h] = Patience]_vars
    BY PromotionStep
  <1> QED BY InitInv, NextInv, <1>1, PTL DEF Spec, PromotionNeedsSilence

(* An heir whose stream no fault touched is connected and still an heir, and   *)
(* has heard from the master since the last ping was due.                      *)
HealthyHeirsListen ==
  \A h \in Heir \cap running : h \notin disturbed =>
    /\ Reaches(h) /\ role[h] = "heir" /\ age[h] <= pingAge[h]

(* When pings outrun the patience of an heir, no tick of a healthy one promotes. *)
LEMMA HealthyStep ==
  ASSUME PingEvery < Patience, Inv, HealthyHeirsListen, [Next]_vars
  PROVE  HealthyHeirsListen'
  <1> USE MasterAssumption, TimeAssumption DEF Inv, TypeOK, Node, HealthyHeirsListen, Reaches
  <1>1. CASE StartMaster
    BY <1>1 DEF StartMaster
  <1>2. ASSUME NEW g \in Heir, StartHeir(g) PROVE HealthyHeirsListen'
    BY <1>2 DEF StartHeir, ConfiguredRole, CanDial
  <1>3. ASSUME NEW g \in Heir, ReadEntry(g) PROVE HealthyHeirsListen'
    BY <1>3 DEF ReadEntry
  <1>4. ASSUME NEW g \in Heir, ReadPing(g) PROVE HealthyHeirsListen'
    BY <1>4 DEF ReadPing
  <1>5. ASSUME NEW g \in Heir, HealthTick(g) PROVE HealthyHeirsListen'
    <2> DEFINE a == IF age[g] < Patience THEN age[g] + 1 ELSE Patience
    <2>1. /\ age' = [age EXCEPT ![g] = a] /\ role[g] = "heir" /\ g \in running
          /\ pingAge' = [pingAge EXCEPT ![g] = IF @ < PingEvery THEN @ + 1 ELSE @]
          /\ UNCHANGED <<running, connected, disturbed>>
      BY <1>5 DEF HealthTick
    <2>2. CASE g \in disturbed
      <3>1. \A h \in Heir : h # g => role'[h] = role[h] /\ client'[h] = client[h]
        BY <1>5, SMTT(60) DEF HealthTick, BecomeMaster
      <3> QED BY <2>1, <2>2, <3>1, SMTT(60)
    <2>3. CASE g \notin disturbed
      <3>1. age[g] <= pingAge[g] /\ pingAge[g] < PingEvery /\ a = age[g] + 1 /\ a < Patience
        BY <1>5, <2>1, <2>3 DEF HealthTick, Patience
      <3>2. ~(Count(g, a) >= MaxFailures)
        BY <2>1, <3>1, TickCounts, SMTT(60)
      <3>3. UNCHANGED <<role, client>>
        BY <1>5, <3>2 DEF HealthTick
      <3> QED BY <2>1, <3>1, <3>3
    <2> QED BY <2>2, <2>3
  <1>6. ASSUME NEW g \in Heir, Partition(g) PROVE HealthyHeirsListen'
    BY <1>6 DEF Partition
  <1>7. ASSUME NEW g \in Heir, Heal(g) PROVE HealthyHeirsListen'
    BY <1>7 DEF Heal
  <1>8. ASSUME NEW g \in Heir, ReadError(g) PROVE HealthyHeirsListen'
    BY <1>8 DEF ReadError, AfterReadError
  <1>9. ASSUME NEW g \in Heir, Redial(g) PROVE HealthyHeirsListen'
    BY <1>9 DEF Redial
  <1>10. ASSUME NEW g \in Heir, RedialFails(g) PROVE HealthyHeirsListen'
    BY <1>10 DEF RedialFails
  <1>11. ASSUME NEW n \in Node, Crash(n) PROVE HealthyHeirsListen'
    BY <1>11 DEF Crash, AfterReadError
  <1>12. CASE UNCHANGED vars
    BY <1>12 DEF vars
  <1> QED BY <1>1, <1>2, <1>3, <1>4, <1>5, <1>6, <1>7, <1>8, <1>9, <1>10, <1>11, <1>12 DEF Next

(* A master that runs behind a working network keeps its heirs, for any timing *)
(* in which pings outrun their patience: with a ping every 10 s, a lease_ttl   *)
(* above 10 s / 6 (stream.go:258, replication.go:194).                         *)
THEOREM HealthyMasterStays ==
  ASSUME PingEvery < Patience
  PROVE  Spec => []HealthyMasterKeepsItsHeirs
  <1>1. Init => HealthyHeirsListen
    BY DEF Init, HealthyHeirsListen
  <1>2. Inv /\ HealthyHeirsListen /\ [Next]_vars => HealthyHeirsListen'
    BY HealthyStep
  <1>3. HealthyHeirsListen => HealthyMasterKeepsItsHeirs
    BY DEF HealthyHeirsListen, HealthyMasterKeepsItsHeirs, Promoted
  <1> QED BY InitInv, NextInv, <1>1, <1>2, <1>3, PTL DEF Spec
------------------------------------------------------------------------------
(* Who holds the two locks of a promotion.                                    *)
Places == {"idle", "watching", "wanted", "locked", "register", "lookup", "open",
           "invalidate", "list", "jobs", "done"}

LockInv == LockTypeOK /\ at \in [Proc -> Places]

LEMMA LockInitInv == LockInit => LockInv
  BY ProcAssumption DEF LockInit, LockInv, LockTypeOK, Places, Proc, Caller

(* A step of GetProjectEnv: pm.mu is taken by the one that found it free, and  *)
(* is held until ReturnEnv or the failed open gives it back.                   *)
LEMMA EnvStep ==
  ASSUME LockInv, NEW q \in Caller, GetProjectEnv(q)
  PROVE  LockInv'
  <1> USE ProcAssumption DEF LockInv, LockTypeOK, Places, Proc, Caller, Rest
  <1>1. CASE LockProjects(q)
    BY <1>1 DEF LockProjects
  <1>2. CASE Cached(q)
    BY <1>2 DEF Cached, ReturnEnv
  <1>3. CASE OpenFails(q)
    BY <1>3 DEF OpenFails
  <1>4. CASE OpenEngine(q)
    BY <1>4 DEF OpenEngine
  <1>5. CASE Register(q)
    BY <1>5 DEF Register, ReturnEnv
  <1> QED BY <1>1, <1>2, <1>3, <1>4, <1>5 DEF GetProjectEnv

LEMMA LockNextInv == LockInv /\ [LockNext]_lockVars => LockInv'
  <1> SUFFICES ASSUME LockInv, [LockNext]_lockVars PROVE LockInv'
    OBVIOUS
  <1> USE ProcAssumption DEF LockInv, LockTypeOK, Places, Proc, Caller
  <1>1. ASSUME NEW r \in Request, NEW p \in Project, Ask(r, p) PROVE LockInv'
    BY <1>1 DEF Ask
  <1>2. ASSUME NEW q \in Caller, GetProjectEnv(q) PROVE LockInv'
    BY <1>2, EnvStep
  <1>3. ASSUME NEW p \in Project, Resolve(p) PROVE LockInv'
    BY <1>3 DEF Resolve
  <1>4. CASE ApplyLoop
    <2>1. CASE LookUpProject
      BY <2>1 DEF LookUpProject
    <2>2. CASE OpenLazily
      BY <2>2 DEF OpenLazily
    <2>3. CASE RegisterLazily
      BY <2>3 DEF RegisterLazily
    <2> QED BY <1>4, <2>1, <2>2, <2>3 DEF ApplyLoop
  <1>5. CASE BecomeMasterBegins
    BY <1>5 DEF BecomeMasterBegins
  <1>6. CASE Promotion
    <2>1. CASE InvalidateEnvCache
      BY <2>1 DEF InvalidateEnvCache
    <2>2. CASE ListProjects
      BY <2>2 DEF ListProjects
    <2>3. CASE BecomeMasterReturns
      BY <2>3 DEF BecomeMasterReturns
    <2>4. ASSUME NEW p \in Project, StartScheduler(p) PROVE LockInv'
      BY <2>4 DEF StartScheduler
    <2> QED BY <1>6, <2>1, <2>2, <2>3, <2>4 DEF Promotion
  <1>7. CASE UNCHANGED lockVars
    BY <1>7 DEF lockVars
  <1> QED BY <1>1, <1>2, <1>3, <1>4, <1>5, <1>6, <1>7 DEF LockNext

(* Both mutexes are held exactly between their Lock and their Unlock, whatever *)
(* requests, apply loop and promotion do in between; so at most one goroutine  *)
(* is inside GetProjectEnv (manager.go) and pm.mu is never left locked.        *)
THEOREM LocksAreKept == LockSpec => []LockTypeOK
  <1>1. LockInv => LockTypeOK
    BY DEF LockInv
  <1> QED BY LockInitInv, LockNextInv, <1>1, PTL DEF LockSpec
==============================================================================
