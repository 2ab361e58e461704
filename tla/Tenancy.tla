------------------------------- MODULE Tenancy -------------------------------
(* Who and what a node knows: projects, the teams that own them, the           *)
(* administrators of the dashboard, the users of a project, its meter and      *)
(* analytics, and the audit trail.  They share no state, so a behaviour        *)
(* belongs to one of them, chosen in the initial state.                        *)
EXTENDS TenantRegistry, Integers, Sequences, FiniteSets

CONSTANTS TeamProjects, Users, Emails, Tokens, Requests, AdminIds,
          AdminEmails, AdminReqs, GivenRoles, EnvEmails, UserIds,
          UserEmails, MaxSecret, UserReqs, States, Methods, MeterReqs,
          MaxCount, EventReqs, BatchSize, MaxEvents, MaxStores, AuditReqs,
          MaxStops

ASSUME TenancyAssumption ==
  /\ "idle" \notin Methods             \* no counter has the name of no flush
  /\ BatchSize \in Nat \ {0}
  /\ {MaxCount, MaxEvents, MaxStores, MaxStops} \subseteq Nat

ASSUME PeopleAssumption ==
  /\ Users # {} /\ "nobody" \notin Users /\ Tokens # {}
  /\ AdminIds \subseteq Nat \ {0} /\ AdminIds # {} /\ AdminEmails # {}
  /\ GivenRoles \subseteq {"super_admin", "admin", "support"}
  /\ EnvEmails \subseteq AdminEmails \cup {"unset"} /\ "unset" \in EnvEmails
  /\ "none" \notin UserEmails          \* the address of a user who is not there

VARIABLES focus,
  team, index, invites, accounts, drawn, accepting, joined, crowded,
  records, byEmail, work, contested, issued, envEmail,
  users, mails, secretNo, overdue, serving, states, holders, given, refused,
  entered, links,
  delta, totals, batch, flushing, counting, reading, made, lost,
  newest, current, memory, total, ingests, accepted, excused,
  onDisk, needs, writing, outcome, requests, lastClear, overtaken, stops

Teams == INSTANCE Team
Administrators == INSTANCE Admins
People == INSTANCE Accounts
Meter == INSTANCE Metering
Events == INSTANCE Analytics
Trail == INSTANCE AuditTrail

teamsVars == <<team, index, invites, accounts, drawn, accepting, joined,
               crowded>>
administratorsVars == <<records, byEmail, work, contested, issued,
                        envEmail>>
peopleVars == <<users, mails, secretNo, overdue, serving, states, holders,
                given, refused, entered, links>>
meterVars == <<delta, totals, batch, flushing, counting, reading, made,
               lost>>
eventsVars == <<newest, current, memory, total, ingests, accepted, excused>>
trailVars == <<onDisk, needs, writing, outcome, requests, lastClear,
               overtaken, stops>>

Init ==
  /\ focus \in {"registry", "teams", "admins", "accounts", "metering",
                "analytics", "audit"}
  /\ RegistryInit /\ Teams!TeamInit /\ Administrators!AdminInit /\
     People!AccountInit /\ Meter!MeterInit /\ Events!AnalyticsInit /\
     Trail!AuditInit
  /\ focus = "registry" \/ log = <<>>   \* the others once, not once per history

RegistryStep ==
  /\ focus = "registry" /\ RegistryNext
  /\ UNCHANGED <<focus, teamsVars, administratorsVars, peopleVars,
                 meterVars, eventsVars, trailVars>>

TeamsStep ==
  /\ focus = "teams" /\ Teams!TeamNext
  /\ UNCHANGED <<focus, registryVars, administratorsVars, peopleVars,
                 meterVars, eventsVars, trailVars>>

AdministratorsStep ==
  /\ focus = "admins" /\ Administrators!AdminNext
  /\ UNCHANGED <<focus, registryVars, teamsVars, peopleVars, meterVars,
                 eventsVars, trailVars>>

PeopleStep ==
  /\ focus = "accounts" /\ People!AccountNext
  /\ UNCHANGED <<focus, registryVars, teamsVars, administratorsVars,
                 meterVars, eventsVars, trailVars>>

MeterStep ==
  /\ focus = "metering" /\ Meter!MeterNext
  /\ UNCHANGED <<focus, registryVars, teamsVars, administratorsVars,
                 peopleVars, eventsVars, trailVars>>

EventsStep ==
  /\ focus = "analytics" /\ Events!AnalyticsNext
  /\ UNCHANGED <<focus, registryVars, teamsVars, administratorsVars,
                 peopleVars, meterVars, trailVars>>

TrailStep ==
  /\ focus = "audit" /\ Trail!AuditNext
  /\ UNCHANGED <<focus, registryVars, teamsVars, administratorsVars,
                 peopleVars, meterVars, eventsVars>>

Next ==
  \/ RegistryStep
  \/ TeamsStep
  \/ AdministratorsStep
  \/ PeopleStep
  \/ MeterStep
  \/ EventsStep
  \/ TrailStep

Spec == Init /\ [][Next]_<<focus, registryVars, teamsVars,
                           administratorsVars, peopleVars, meterVars,
                           eventsVars, trailVars>>

(* Every component keeps its variables in their types.                         *)
TypeOK ==
  /\ focus = "registry" => RegistryTypeOK
  /\ focus = "teams" => Teams!TeamTypeOK
  /\ focus = "admins" => Administrators!AdminTypeOK
  /\ focus = "accounts" => People!AccountTypeOK
  /\ focus = "metering" => Meter!MeterTypeOK
  /\ focus = "analytics" => Events!AnalyticsTypeOK
  /\ focus = "audit" => Trail!AuditTypeOK

(* Members find their teams, an invitation lets one person in, administrators  *)
(* and users sign in with the address on their record, and an OAuth state      *)
(* opens one session.                                                          *)
PeopleBelong ==
  /\ focus = "teams" => Teams!IndexFollowsTeams
  /\ focus = "teams" => Teams!InvitationLetsOneIn
  /\ focus = "admins" => Administrators!SignInFindsAdmin
  /\ focus = "accounts" => People!UsersAreFound
  /\ focus = "accounts" => People!StateEntersOnce

(* What is reported is what happened: usage and events but for what a crash, a *)
(* failed commit or an ongoing flush takes, and the entries of the audit trail *)
(* under each of its indexes, the last clear among them.                       *)
RecordsAddUp ==
  /\ focus = "metering" => Meter!CountsAddUp
  /\ focus = "analytics" => Events!EventsAreCounted
  /\ focus = "audit" => Trail!ListsAgree
  /\ focus = "audit" => Trail!LastClearIsTold
==============================================================================
