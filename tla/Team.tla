--------------------------------- MODULE Team ---------------------------------
(* Project teams (tenant.TeamStore) and the handlers that change them: members *)
(* and their roles, the member-project index, invitations, and the accounts    *)
(* members sign in with.  The store has no lock and its operations are several *)
(* reads and writes of the master database, so two requests that accept an     *)
(* invitation interleave: each looks the invitation up, adds its member and    *)
(* marks the invitation.  The record of a member and its index entry are       *)
(* written back to back; they are one step here.                               *)
EXTENDS Naturals, FiniteSets

CONSTANTS TeamProjects,  \* projects
          Users,         \* user identifiers, drawn at registration
          Emails,        \* addresses that are invited
          Tokens,        \* invitation tokens
          Requests       \* requests for an invitation that may run at once

VARIABLES
  team,       \* role of a user in a project, or "none"
  index,      \* projects of a user, the mpidx keys
  invites,    \* invitations by token
  accounts,   \* user identifier of an address, the mcred keys
  drawn,      \* user identifiers in use
  accepting,  \* requests inside of AcceptInvitation
  joined,     \* history: users who joined with a token
  crowded     \* history: tokens that two requests accepted at once

teamVars == <<team, index, invites, accounts, drawn, accepting, joined, crowded>>

Roles == {"owner", "developer", "viewer"}
NoUser == "nobody"
NoInvite == [status |-> "none"]
AnyUser == CHOOSE u \in Users : TRUE
Resting == [pc |-> "rest", token |-> CHOOSE t \in Tokens : TRUE, user |-> AnyUser]
Accounts == {accounts[e] : e \in Emails} \ {NoUser}

TeamInit ==
  /\ team = [p \in TeamProjects |-> [u \in Users |-> IF u = AnyUser THEN "owner" ELSE "none"]]
  /\ index = [u \in Users |-> IF u = AnyUser THEN TeamProjects ELSE {}]
  /\ invites = [t \in Tokens |-> NoInvite]
  /\ accounts = [e \in Emails |-> NoUser]
  /\ drawn = {AnyUser}
  /\ accepting = [r \in Requests |-> Resting]
  /\ joined = [t \in Tokens |-> {}] /\ crowded = {}

------------------------------------------------------------------------------
\* The store.
IsMember(p, u) == team[p][u] # "none"
HasRole(p, u, role) == team[p][u] = role

AddMember(p, u, role) ==
  /\ ~IsMember(p, u)
  /\ team' = [team EXCEPT ![p][u] = role]
  /\ index' = [index EXCEPT ![u] = @ \cup {p}]

\* Mutant of RemoveMember: the index keeps the project.
RemoveMemberKeepsIndex(p, u) ==
  /\ IsMember(p, u)
  /\ team' = [team EXCEPT ![p][u] = "none"]
  /\ UNCHANGED index

RemoveMember(p, u) ==
  /\ IsMember(p, u)
  /\ team' = [team EXCEPT ![p][u] = "none"]
  /\ index' = [index EXCEPT ![u] = @ \ {p}]

UpdateMemberRole(p, u, role) ==
  /\ IsMember(p, u)
  /\ team' = [team EXCEPT ![p][u] = role]
  /\ UNCHANGED index

CreateInvitation(p, e, role) ==
  \E t \in Tokens :
    /\ invites[t] = NoInvite
    /\ invites' = [invites EXCEPT ![t] =
         [status |-> "pending", p |-> p, email |-> e, role |-> role, late |-> FALSE]]

\* DeleteMember: the account goes, then each project the index knows.
DeleteMember(e) ==
  LET u == accounts[e] IN
  /\ accounts' = [accounts EXCEPT ![e] = NoUser]
  /\ IF u = NoUser THEN UNCHANGED <<team, index>>
     ELSE /\ team' = [p \in TeamProjects |-> IF p \in index[u] THEN [team[p] EXCEPT ![u] = "none"] ELSE team[p]]
          /\ index' = [index EXCEPT ![u] = {}]

------------------------------------------------------------------------------
\* The handlers.  A caller is an instance administrator or a member; a member
\* manages a team only as its owner.
Callers == Accounts \cup {"admin"}
teamPermissionHelper(c, p) == c \in Accounts => HasRole(p, c, "owner")

handleCreateInvitation(c, p, e, role) ==
  /\ teamPermissionHelper(c, p)
  /\ CreateInvitation(p, e, role)
  /\ UNCHANGED <<team, index, accounts, drawn, accepting, joined, crowded>>

handleRemoveMember(c, p, u) ==
  /\ teamPermissionHelper(c, p) /\ c # u
  /\ RemoveMember(p, u)
  /\ UNCHANGED <<invites, accounts, drawn, accepting, joined, crowded>>

handleUpdateMemberRole(c, p, u, role) ==
  /\ teamPermissionHelper(c, p)
  /\ UpdateMemberRole(p, u, role)
  /\ UNCHANGED <<invites, accounts, drawn, accepting, joined, crowded>>

handleDeleteGlobalMember(e) ==
  /\ DeleteMember(e)
  /\ UNCHANGED <<invites, drawn, accepting, joined, crowded>>

\* The time to live of an invitation runs out.
Expire(t) ==
  /\ invites[t].status = "pending" /\ ~invites[t].late
  /\ invites' = [invites EXCEPT ![t].late = TRUE]
  /\ UNCHANGED <<team, index, accounts, drawn, accepting, joined, crowded>>

\* AcceptInvitation, first part: look the invitation up and check it.
LookUp(r, t, u) ==
  /\ accepting[r] = Resting /\ invites[t] # NoInvite
  /\ crowded' = IF \E q \in Requests : accepting[q].pc # "rest" /\ accepting[q].token = t
                THEN crowded \cup {t} ELSE crowded
  /\ IF invites[t].status # "pending" THEN UNCHANGED <<invites, accepting>>
     ELSE IF invites[t].late
     THEN /\ invites' = [invites EXCEPT ![t].status = "expired"]
          /\ UNCHANGED accepting
     ELSE /\ accepting' = [accepting EXCEPT ![r] = [pc |-> "add", token |-> t, user |-> u]]
          /\ UNCHANGED invites

handleAcceptInvitation(r, t, u) ==
  /\ u \in Accounts
  /\ LookUp(r, t, u)
  /\ UNCHANGED <<team, index, accounts, drawn, joined>>

\* An account is stored before the invitation is accepted, and stays when the
\* invitation turns out to have expired.
handleRegisterAndAccept(r, t) ==
  /\ invites[t].status = "pending"
  /\ accounts[invites[t].email] = NoUser
  /\ \E u \in Users \ drawn :
       /\ accounts' = [accounts EXCEPT ![invites[t].email] = u]
       /\ drawn' = drawn \cup {u}
       /\ LookUp(r, t, u)
  /\ UNCHANGED <<team, index, joined>>

\* Second part: the member, or an error if there is one already.
AcceptAdds(r) ==
  LET a == accepting[r] inv == invites[a.token] IN
  /\ a.pc = "add"
  /\ IF IsMember(inv.p, a.user)
     THEN accepting' = [accepting EXCEPT ![r] = Resting] /\ UNCHANGED <<team, index, joined>>
     ELSE /\ AddMember(inv.p, a.user, inv.role)
          /\ accepting' = [accepting EXCEPT ![r].pc = "save"]
          /\ joined' = [joined EXCEPT ![a.token] = @ \cup {a.user}]
  /\ UNCHANGED <<invites, accounts, drawn, crowded>>

\* Mutant of AcceptSaves: the invitation is not marked.
AcceptSavesNothing(r) ==
  /\ accepting[r].pc = "save"
  /\ accepting' = [accepting EXCEPT ![r] = Resting]
  /\ UNCHANGED <<invites, team, index, accounts, drawn, joined, crowded>>

\* Third part: the invitation is marked accepted, over whatever it is by now.
AcceptSaves(r) ==
  /\ accepting[r].pc = "save"
  /\ invites' = [invites EXCEPT ![accepting[r].token].status = "accepted"]
  /\ accepting' = [accepting EXCEPT ![r] = Resting]
  /\ UNCHANGED <<team, index, accounts, drawn, joined, crowded>>

TeamNext ==
  \/ \E p \in TeamProjects, c \in Callers, role \in Roles :
       \/ \E e \in Emails : handleCreateInvitation(c, p, e, role)
       \/ \E u \in drawn : handleUpdateMemberRole(c, p, u, role)
  \/ \E p \in TeamProjects, c \in Callers, u \in drawn : handleRemoveMember(c, p, u)
  \/ \E e \in Emails : handleDeleteGlobalMember(e)
  \/ \E t \in Tokens : Expire(t)
  \/ \E r \in Requests, t \in Tokens, u \in drawn : handleAcceptInvitation(r, t, u)
  \/ \E r \in Requests, t \in Tokens : handleRegisterAndAccept(r, t)
  \/ \E r \in Requests : AcceptAdds(r) \/ AcceptSaves(r)

TeamSpec == TeamInit /\ [][TeamNext]_teamVars

------------------------------------------------------------------------------
TeamTypeOK ==
  /\ team \in [TeamProjects -> [Users -> Roles \cup {"none"}]]
  /\ index \in [Users -> SUBSET TeamProjects]
  /\ \A t \in Tokens : invites[t].status \in {"none", "pending", "accepted", "expired"}
  /\ accounts \in [Emails -> Users \cup {NoUser}]
  /\ drawn \subseteq Users
  /\ accepting \in [Requests -> [pc : {"rest", "add", "save"}, token : Tokens, user : Users]]
  /\ joined \in [Tokens -> SUBSET Users] /\ crowded \subseteq Tokens

\* The index GetMemberProjects and DeleteMember go by has the teams' members,
\* so that deleting an account leaves no membership behind.
IndexFollowsTeams ==
  \A u \in Users : index[u] = {p \in TeamProjects : IsMember(p, u)}

\* An invitation lets one person in, whoever accepts it later, deletes accounts
\* or removes members.  Excepted is one that two requests accept at once: both
\* look it up while it is pending, and both enter.
InvitationLetsOneIn == \A t \in Tokens \ crowded : Cardinality(joined[t]) <= 1
==============================================================================
