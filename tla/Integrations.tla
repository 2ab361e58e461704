------------------------------ MODULE Integrations ------------------------------
(* An integration of a project with an outside provider: its configuration,    *)
(* which the settings page shows with the secret masked and sends back whole;  *)
(* the actions that run at the provider with that secret; and the messages     *)
(* that document and account events send.                                      *)
EXTENDS Naturals, FiniteSets

CONSTANTS Pages,     \* settings pages that are open
          Secrets,   \* secrets administrators enter
          ActReqs,   \* clients that request actions
          MaxTries   \* bound: requests of a client

VARIABLES
  provider,  \* the integration, an entry of the catalog
  secret,    \* its secret, Absent when it is not installed
  wanted,    \* the events it sends messages for, all when empty
  pages,     \* what a page shows, and what it is saving
  removed,   \* history: pages whose integration was removed after they were read
  orphaned,  \* history: such a page was saved
  acts,      \* actions: where they are, and the answer of the last one
  tries,     \* history: requests of a client
  unsure,    \* history: requests that failed on the way
  performed  \* history: times the provider did what a client asked for

integrationVars == <<provider, secret, wanted, pages, removed, orphaned, acts,
                     tries, unsure, performed>>
Settings == <<secret, wanted, pages, removed, orphaned>>
Work     == <<acts, tries, unsure, performed>>

Absent == "absent"
Mask == "mask"
Shown == {Absent, Mask}
Closed == [shown |-> "nothing", saves |-> "nothing"]
EventTypes == {"record:create", "auth:signup"}
NoAct == [pc |-> "rest", answer |-> "none", token |-> TRUE]

\* The catalog: providers with actions of the server, and those that are sent messages.
Acting == {"paypal", "stripe", "sendgrid", "discord_webhook", "slack_webhook",
           "twilio", "onesignal", "algolia"}
SupportsTriggers == {"discord_webhook", "slack_webhook", "onesignal"}
Catalog == Acting \cup {"google_analytics"}
GetByID == provider \in Catalog

IntegrationInit ==
  /\ provider \in Catalog
  /\ secret \in Secrets /\ wanted = {}
  /\ pages = [p \in Pages |-> Closed]
  /\ removed = {} /\ orphaned = FALSE
  /\ acts = [a \in ActReqs |-> NoAct]
  /\ tries = [a \in ActReqs |-> 0] /\ unsure = tries /\ performed = tries

------------------------------------------------------------------------------
\* The settings page.
handleListProjectIntegrations(p) ==
  /\ pages[p] = Closed
  /\ pages' = [pages EXCEPT ![p].shown = IF secret = Absent THEN Absent ELSE Mask]
  /\ removed' = removed \ {p}
  /\ UNCHANGED <<provider, secret, wanted, orphaned, Work>>

\* A masked secret that comes back stands for the one that is configured.
\* Mutant of Merged: it is taken for a secret.
MergedAsSent(value) == value

Merged(value) ==
  IF value = Mask /\ GetByID /\ secret # Absent THEN secret ELSE value

\* The page is saved as it is shown, with a new secret, or without the
\* integration; what it sends is merged with the configuration, and then
\* written over the one there is by then.
handleSetProjectIntegrations(p, value) ==
  /\ pages[p].shown # "nothing" /\ pages[p].saves = "nothing"
  /\ value \in Secrets \cup {pages[p].shown, Absent}
  /\ pages' = [pages EXCEPT ![p].saves = Merged(value)]
  /\ orphaned' = (orphaned \/ (value = Mask /\ p \in removed))
  /\ UNCHANGED <<provider, secret, wanted, removed, Work>>

SaveIntegrations(p, events) ==
  /\ pages[p].saves # "nothing" /\ pages' = [pages EXCEPT ![p] = Closed]
  /\ secret' = pages[p].saves /\ wanted' = events
  /\ removed' = IF pages[p].saves = Absent THEN removed \cup Pages ELSE removed
  /\ UNCHANGED <<provider, orphaned, Work>>

------------------------------------------------------------------------------
\* Actions.  A handler refuses an action it does not know or that lacks data.
Refused(a) == acts' = [acts EXCEPT ![a] = [NoAct EXCEPT !.answer = "refused"]]
StartAt(a, step) == acts' = [acts EXCEPT ![a] = [NoAct EXCEPT !.pc = step]]
Asks(a, step) == Refused(a) \/ StartAt(a, step)

handlePayPalAction(a) == Asks(a, "token") \/ StartAt(a, "call")  \* the token itself
handleStripeAction(a) == Asks(a, "call")
handleSendGridAction(a) == Asks(a, "call")
handleDiscordWebhookAction(a) == Asks(a, "call")
handleSlackWebhookAction(a) == Asks(a, "call")
handleTwilioAction(a) == Asks(a, "call")
handleOneSignalAction(a) == Asks(a, "call")
handleAlgoliaAction(a) == Asks(a, "call")

\* A client asks for what it wants done, and again while the answer was a failure.
handleIntegrationAction(a) ==
  /\ acts[a].pc = "rest" /\ acts[a].answer \in {"none", "refused", "error", "failed"}
  /\ tries[a] < MaxTries /\ tries' = [tries EXCEPT ![a] = @ + 1]
  /\ CASE secret = Absent -> Refused(a)
       [] provider = "paypal" -> handlePayPalAction(a)
       [] provider = "stripe" -> handleStripeAction(a)
       [] provider = "sendgrid" -> handleSendGridAction(a)
       [] provider = "discord_webhook" -> handleDiscordWebhookAction(a)
       [] provider = "slack_webhook" -> handleSlackWebhookAction(a)
       [] provider = "twilio" -> handleTwilioAction(a)
       [] provider = "onesignal" -> handleOneSignalAction(a)
       [] provider = "algolia" -> handleAlgoliaAction(a)
       [] OTHER -> Refused(a)
  /\ UNCHANGED <<provider, Settings, unsure, performed>>

Answer(a, answer) == acts' = [acts EXCEPT ![a] = [NoAct EXCEPT !.answer = answer]]
Fails(a) == Answer(a, "failed") /\ unsure' = [unsure EXCEPT ![a] = @ + 1]

\* The status of the token's answer is not looked at: a refusal is an empty token.
getPayPalAccessToken(a) ==
  /\ acts[a].pc = "token"
  /\ \/ \E given \in BOOLEAN :
          acts' = [acts EXCEPT ![a] = [@ EXCEPT !.pc = "call", !.token = given]]
        /\ UNCHANGED unsure
     \/ Fails(a)
  /\ UNCHANGED <<provider, Settings, tries, performed>>

\* Mutant of CallProvider: a call that breaks off counts as an error of the provider.
CallProviderBlames(a) ==
  /\ acts[a].pc = "call"
  /\ \/ Answer(a, "error") /\ UNCHANGED <<unsure, performed>>
     \/ acts[a].token /\ Answer(a, "ok")
        /\ performed' = [performed EXCEPT ![a] = @ + 1] /\ UNCHANGED unsure
     \/ Answer(a, "error") /\ performed' = [performed EXCEPT ![a] = @ + 1] /\ UNCHANGED unsure
  /\ UNCHANGED <<provider, Settings, tries>>

\* The provider refuses, or performs and answers, or the call breaks off before
\* or after it was performed.
CallProvider(a) ==
  /\ acts[a].pc = "call"
  /\ \/ Answer(a, "error") /\ UNCHANGED <<unsure, performed>>
     \/ acts[a].token /\ Answer(a, "ok")
        /\ performed' = [performed EXCEPT ![a] = @ + 1] /\ UNCHANGED unsure
     \/ Fails(a) /\ \E n \in {0, 1} :
          /\ n = 1 => acts[a].token
          /\ performed' = [performed EXCEPT ![a] = @ + n]
  /\ UNCHANGED <<provider, Settings, tries>>

------------------------------------------------------------------------------
\* Messages.  The process ends when one fails whose address has less than 30
\* letters: the log takes the first 30.
shouldFire(event) == wanted = {} \/ event \in wanted

Restarted ==
  /\ pages' = [p \in Pages |-> IF pages[p].saves # "nothing" THEN Closed ELSE pages[p]]
  /\ acts' = [a \in ActReqs |-> IF acts[a].pc = "rest" THEN acts[a] ELSE [NoAct EXCEPT !.answer = "failed"]]
  /\ unsure' = [a \in ActReqs |-> unsure[a] + IF acts[a].pc = "rest" THEN 0 ELSE 1]
  /\ UNCHANGED <<provider, secret, wanted, removed, orphaned, tries, performed>>

fireDiscord == provider = "discord_webhook" /\ Restarted
fireSlack == provider = "slack_webhook" /\ Restarted
fireOneSignal == provider = "onesignal" /\ UNCHANGED integrationVars

Fire(event) ==
  /\ secret # Absent /\ provider \in SupportsTriggers /\ shouldFire(event)
  /\ fireDiscord \/ fireSlack \/ fireOneSignal

IntegrationNext ==
  \/ \E p \in Pages :
       \/ handleListProjectIntegrations(p)
       \/ \E value \in Secrets \cup Shown : handleSetProjectIntegrations(p, value)
       \/ \E events \in {{}, {"auth:signup"}} : SaveIntegrations(p, events)
  \/ \E a \in ActReqs : handleIntegrationAction(a) \/ getPayPalAccessToken(a) \/ CallProvider(a)
  \/ \E event \in EventTypes : Fire(event)

IntegrationSpec == IntegrationInit /\ [][IntegrationNext]_integrationVars

------------------------------------------------------------------------------
IntegrationTypeOK ==
  /\ provider \in Catalog /\ secret \in Secrets \cup Shown /\ wanted \subseteq EventTypes
  /\ pages \in [Pages -> [shown : Shown \cup {"nothing"}, saves : Secrets \cup Shown \cup {"nothing"}]]
  /\ removed \subseteq Pages /\ orphaned \in BOOLEAN
  /\ acts \in [ActReqs -> [pc : {"rest", "token", "call"}, token : BOOLEAN,
                           answer : {"none", "refused", "error", "failed", "ok"}]]
  /\ {tries, unsure, performed} \subseteq [ActReqs -> 0..MaxTries]

\* A mask never becomes the secret, through pages that are shown and saved in
\* any order, unless a page is saved whose integration was removed meanwhile.
SecretsStayReal == secret = Mask => orphaned

\* A provider performs an action at most once for every answer that left it
\* open and once for a success, so a client that repeats only failed requests
\* knows whether it may have asked twice; a refusal or an error leaves nothing.
FailuresExplainRepeats ==
  \A a \in ActReqs :
    /\ performed[a] <= unsure[a] + IF acts[a].answer = "ok" THEN 1 ELSE 0
    /\ acts[a].answer = "ok" => performed[a] >= 1
==============================================================================
