-------------------------------- MODULE Admins --------------------------------
(* Administrator accounts (auth.AdminStore): a record per administrator and an *)
(* index from addresses to records, both in the master database, changed by    *)
(* the handlers of the administration API.  The store has no lock.  A handler  *)
(* is authorised, reads a record, spends a tenth of a second on a password     *)
(* hash, and writes the whole record back: Begin and Finish below, with other  *)
(* requests between.  The writes of one store operation follow each other at   *)
(* once and are one step.                                                      *)
EXTENDS Naturals, FiniteSets

CONSTANTS AdminIds,      \* identifiers, numbers in the order of the keys
          AdminEmails,   \* addresses
          AdminReqs,     \* requests that may run at once
          GivenRoles,    \* roles that are given, of AdminRoles
          EnvEmails      \* values of SOVRABASE_ADMIN_EMAIL, "unset" if it is not

VARIABLES
  records,    \* admin_user keys
  byEmail,    \* admin_email keys
  work,       \* what a request has read and is about to write
  contested,  \* history: addresses written while they led to someone else
  issued,     \* identifiers drawn
  envEmail    \* the environment of this process

adminVars == <<records, byEmail, work, contested, issued, envEmail>>

NoAdmin == [role |-> "none"]
NoId == 0
Resting == [pc |-> "rest"]
roleRank(role) == CASE role = "super_admin" -> 3 [] role = "admin" -> 2
                    [] role = "support" -> 1 [] OTHER -> 0
AdminRoles == {"super_admin", "admin", "support"}
Admins == {a \in AdminIds : records[a] # NoAdmin}

AdminInit ==
  LET first == CHOOSE a \in AdminIds : TRUE
      mail  == CHOOSE e \in AdminEmails : TRUE
  IN
  /\ records = [a \in AdminIds |-> IF a = first THEN [email |-> mail, role |-> "super_admin"] ELSE NoAdmin]
  /\ byEmail = [e \in AdminEmails |-> IF e = mail THEN first ELSE NoId]
  /\ work = [r \in AdminReqs |-> Resting]
  /\ contested = {}
  /\ issued = {first}
  /\ envEmail = "unset"

------------------------------------------------------------------------------
\* The store.
GetByEmail(e) == IF byEmail[e] # NoId /\ records[byEmail[e]] # NoAdmin THEN byEmail[e] ELSE NoId

Contest(e, a) == contested' = IF byEmail[e] \in {NoId, a} THEN contested ELSE contested \cup {e}

Register(a, e, role) ==
  /\ issued' = issued \cup {a}
  /\ records' = [records EXCEPT ![a] = [email |-> e, role |-> role]]
  /\ byEmail' = [byEmail EXCEPT ![e] = a]
  /\ Contest(e, a)

Create(a, e, role) == a \notin issued /\ Register(a, e, role)

\* Mutant of Update: the old address keeps its index entry.
UpdateKeepsOldEmail(a, rec) ==
  IF records[a] = NoAdmin THEN UNCHANGED <<records, byEmail, contested>>
  ELSE /\ records' = [records EXCEPT ![a] = rec]
       /\ byEmail' = [byEmail EXCEPT ![rec.email] = a]
       /\ Contest(rec.email, a)

\* Update writes the whole record, the new address, and removes the old one.
Update(a, rec) ==
  IF records[a] = NoAdmin THEN UNCHANGED <<records, byEmail, contested>>
  ELSE /\ records' = [records EXCEPT ![a] = rec]
       /\ byEmail' = [e \in AdminEmails |->
            IF e = rec.email THEN a ELSE IF e = records[a].email THEN NoId ELSE byEmail[e]]
       /\ Contest(rec.email, a)

Delete(a) ==
  IF records[a] = NoAdmin THEN UNCHANGED <<records, byEmail>>
  ELSE /\ records' = [records EXCEPT ![a] = NoAdmin]
       /\ byEmail' = [byEmail EXCEPT ![records[a].email] = NoId]

\* The primary administrator, whose credentials the environment sets.
Primary(rs) ==
  LET held   == {a \in AdminIds : rs[a] # NoAdmin}
      supers == {a \in held : rs[a].role = "super_admin"}
      Least(S) == CHOOSE a \in S : \A b \in S : a <= b
  IN Least(IF supers = {} THEN held ELSE supers)

SyncFromEnv(env) ==
  LET a == Primary(records) IN
  IF env = "unset" \/ GetByEmail(env) \notin {NoId, a}
  THEN UNCHANGED <<records, byEmail, contested>>
  ELSE Update(a, [records[a] EXCEPT !.email = env])

\* seedDefault: a store without administrators is given one.  (Its identifier
\* may be a former one here: nothing refers to those after a restart.)
SeedDefault(env) ==
  \E a \in AdminIds, e \in AdminEmails :
    /\ env # "unset" => e = env
    /\ Register(a, e, "super_admin")

------------------------------------------------------------------------------
\* The handlers.  adminAuthMiddleware reads the caller's present role.
adminAuthMiddleware(c, least) == records[c] # NoAdmin /\ roleRank(records[c].role) >= roleRank(least)

Begin(r, task) == work[r] = Resting /\ work' = [work EXCEPT ![r] = task]
Write(a, rec) == [pc |-> "write", a |-> a, rec |-> rec]
Store == <<records, byEmail, contested, issued, envEmail>>

handleCreateAdmin(r, c, e, role) ==
  /\ adminAuthMiddleware(c, "super_admin")
  /\ GetByEmail(e) = NoId
  /\ Begin(r, [pc |-> "create", email |-> e, role |-> role])
  /\ UNCHANGED Store

handleDeleteAdmin(r, c, a) ==
  /\ adminAuthMiddleware(c, "super_admin") /\ c # a /\ records[a] # NoAdmin
  /\ Begin(r, [pc |-> "delete", a |-> a])
  /\ UNCHANGED Store

handleUpdateAdminRole(r, c, a, role) ==
  /\ adminAuthMiddleware(c, "super_admin") /\ records[a] # NoAdmin
  /\ Begin(r, Write(a, [records[a] EXCEPT !.role = role]))
  /\ UNCHANGED Store

\* handleLogin writes the record back with the time of the login.
handleLogin(r, e) ==
  /\ GetByEmail(e) # NoId
  /\ Begin(r, Write(GetByEmail(e), records[GetByEmail(e)]))
  /\ UNCHANGED Store

\* A new name or password, for administrators.
handleUpdateMyProfile(r, c) ==
  /\ adminAuthMiddleware(c, "admin")
  /\ Begin(r, Write(c, records[c]))
  /\ UNCHANGED Store

\* A new address, from the configuration page.
applyAdminAccountUpdate(r, c, e) ==
  /\ adminAuthMiddleware(c, "admin")
  /\ envEmail = "unset" /\ GetByEmail(e) \in {NoId, c}
  /\ Begin(r, Write(c, [records[c] EXCEPT !.email = e]))
  /\ UNCHANGED Store

\* The second half of a request.
Finish(r) ==
  /\ \/ work[r].pc = "create" /\ \E a \in AdminIds : Create(a, work[r].email, work[r].role)
     \/ work[r].pc = "write" /\ Update(work[r].a, work[r].rec) /\ UNCHANGED issued
     \/ work[r].pc = "delete" /\ Delete(work[r].a) /\ UNCHANGED <<contested, issued>>
  /\ work' = [work EXCEPT ![r] = Resting]
  /\ UNCHANGED envEmail

RestartAdmins ==
  /\ work' = [r \in AdminReqs |-> Resting]
  /\ envEmail' \in EnvEmails
  /\ IF Admins = {} THEN SeedDefault(envEmail') ELSE SyncFromEnv(envEmail') /\ UNCHANGED issued

AdminNext ==
  \/ \E r \in AdminReqs, c \in Admins :
       \/ \E e \in AdminEmails, role \in GivenRoles : handleCreateAdmin(r, c, e, role)
       \/ \E a \in AdminIds : handleDeleteAdmin(r, c, a)
       \/ \E a \in AdminIds, role \in GivenRoles : handleUpdateAdminRole(r, c, a, role)
       \/ handleUpdateMyProfile(r, c)
       \/ \E e \in AdminEmails : applyAdminAccountUpdate(r, c, e)
  \/ \E r \in AdminReqs, e \in AdminEmails : handleLogin(r, e)
  \/ \E r \in AdminReqs : Finish(r)
  \/ RestartAdmins

AdminSpec == AdminInit /\ [][AdminNext]_adminVars

------------------------------------------------------------------------------
AdminTypeOK ==
  /\ \A a \in AdminIds : records[a] = NoAdmin \/ records[a] \in [email : AdminEmails, role : AdminRoles]
  /\ byEmail \in [AdminEmails -> AdminIds \cup {NoId}]
  /\ \A r \in AdminReqs : work[r].pc \in {"rest", "create", "write", "delete"}
  /\ contested \subseteq AdminEmails
  /\ issued \subseteq AdminIds /\ Admins \subseteq issued
  /\ envEmail \in EnvEmails

\* Signing in finds each administrator under the one address of the record,
\* and no removed one, whichever requests overlap; an address that two of them
\* claimed at once is excepted.
SignInFindsAdmin ==
  \A e \in AdminEmails \ contested :
    /\ \A a \in Admins : records[a].email = e => byEmail[e] = a
    /\ byEmail[e] # NoId => records[byEmail[e]] # NoAdmin /\ records[byEmail[e]].email = e
==============================================================================
