------------------------------- MODULE Webhooks -------------------------------
(* Webhooks of a project: documents of the collection _webhooks, which the     *)
(* console edits and providers add their events to, and the goroutines that a  *)
(* document write starts.  These take the hooks from a list cached per project *)
(* and collection for 30 seconds; one that finds none reads the documents,     *)
(* caches them and posts, and the console forgets the cached list after each   *)
(* edit.  Nothing orders the two.                                              *)
EXTENDS Naturals, FiniteSets

CONSTANTS Hooks,  \* documents of _webhooks
          Fires   \* goroutines that fire webhooks

VARIABLES
  hooks,       \* what a document is: "absent", a hook "on" or "off", or an "event"
  editing,     \* an edit is stored and the cached list not yet forgotten
  cache,       \* the cached list of hooks with an address, or NoList
  missed,      \* history: the cached list missed an edit, or its reading failed
  posting,     \* goroutines: where they are and the list they hold
  configured   \* secrets that are configured for the events of providers

hookVars == <<hooks, editing, cache, missed, posting, configured>>

NoList == {"none"}
PaymentProviders == {"stripe", "paypal"}
Idle == [pc |-> "idle", list |-> {}]
Addressed == {h \in Hooks : hooks[h] \in {"on", "off"}}

HookInit ==
  /\ hooks = [h \in Hooks |-> "absent"] /\ editing = FALSE
  /\ cache = NoList /\ missed = FALSE
  /\ posting = [f \in Fires |-> Idle]
  /\ configured \in SUBSET PaymentProviders

------------------------------------------------------------------------------
\* The console.  An edit is a write of the document; the answer to it follows
\* when the cached list is forgotten.
Edit(h, state) ==
  /\ ~editing /\ editing' = TRUE
  /\ hooks' = [hooks EXCEPT ![h] = state]
  /\ UNCHANGED <<cache, missed, posting, configured>>

handleAdminCreateWebhook(h, state) == hooks[h] = "absent" /\ Edit(h, state)
handleAdminUpdateWebhook(h, state) == hooks[h] # "absent" /\ Edit(h, state)

\* Mutant: the document goes and the list stays.
DeleteWebhookOnly(h) ==
  /\ hooks[h] # "absent" /\ ~editing
  /\ hooks' = [hooks EXCEPT ![h] = "absent"]
  /\ UNCHANGED <<editing, cache, missed, posting, configured>>

handleAdminDeleteWebhook(h) == hooks[h] # "absent" /\ Edit(h, "absent")

Forget == cache' = NoList /\ missed' = FALSE

invalidateWebhookCacheProject ==
  /\ editing /\ editing' = FALSE /\ Forget
  /\ UNCHANGED <<hooks, posting, configured>>

\* The list shows every document, the events of providers among them.
handleAdminListWebhooks == {h \in Hooks : hooks[h] # "absent"}

------------------------------------------------------------------------------
\* An event of a provider, taken unverified where no secret is configured, is
\* a document without an address; the cached list stays.
verifyStripeWebhook(signed) == "stripe" \in configured => signed
verifyPayPalWebhook(signed, reached) == "paypal" \in configured => reached /\ signed

handleIntegrationWebhook(h, provider, signed, reached) ==
  /\ hooks[h] = "absent"
  /\ provider = "stripe" => verifyStripeWebhook(signed)
  /\ provider = "paypal" => verifyPayPalWebhook(signed, reached)
  /\ hooks' = [hooks EXCEPT ![h] = "event"]
  /\ UNCHANGED <<editing, cache, missed, posting, configured>>

------------------------------------------------------------------------------
\* fireWebhooks.  A document that is switched off, or that names other events,
\* is posted to all the same: neither field is looked at.
fireWebhooks(f) ==
  /\ posting[f] = Idle
  /\ posting' = [posting EXCEPT ![f] = IF cache = NoList THEN [pc |-> "read", list |-> {}]
                                                     ELSE [pc |-> "post", list |-> cache]]
  /\ UNCHANGED <<hooks, editing, cache, missed, configured>>

\* A read that fails gives an empty list, which is cached like any other.
ReadHooks(f) ==
  /\ posting[f].pc = "read"
  /\ \E list \in {Addressed, {}} : posting' = [posting EXCEPT ![f] = [pc |-> "store", list |-> list]]
  /\ UNCHANGED <<hooks, editing, cache, missed, configured>>

StoreList(f) ==
  /\ posting[f].pc = "store" /\ posting' = [posting EXCEPT ![f].pc = "post"]
  /\ cache' = posting[f].list /\ missed' = (posting[f].list # Addressed)
  /\ UNCHANGED <<hooks, editing, configured>>

\* Each hook is posted to once, by a goroutine of its own; failures are ignored.
PostAll(f) ==
  /\ posting[f].pc = "post" /\ posting' = [posting EXCEPT ![f] = Idle]
  /\ UNCHANGED <<hooks, editing, cache, missed, configured>>

\* 30 seconds pass.
ListExpires ==
  /\ cache # NoList /\ Forget
  /\ UNCHANGED <<hooks, editing, posting, configured>>

HookNext ==
  \/ \E h \in Hooks :
       \/ \E state \in {"on", "off"} :
            handleAdminCreateWebhook(h, state) \/ handleAdminUpdateWebhook(h, state)
       \/ h \in handleAdminListWebhooks /\ handleAdminDeleteWebhook(h)
       \/ \E provider \in PaymentProviders, signed, reached \in BOOLEAN :
            handleIntegrationWebhook(h, provider, signed, reached)
  \/ \E f \in Fires : fireWebhooks(f) \/ ReadHooks(f) \/ StoreList(f) \/ PostAll(f)
  \/ invalidateWebhookCacheProject \/ ListExpires

HookSpec == HookInit /\ [][HookNext]_hookVars

------------------------------------------------------------------------------
HookTypeOK ==
  /\ hooks \in [Hooks -> {"absent", "on", "off", "event"}]
  /\ {editing, missed} \subseteq BOOLEAN
  /\ cache = NoList \/ cache \subseteq Hooks
  /\ posting \in [Fires -> [pc : {"idle", "read", "store", "post"}, list : SUBSET Hooks]]
  /\ configured \subseteq PaymentProviders

\* After the console has answered, writes fire the hooks there are: deleted
\* hooks stay silent and new ones are called, through goroutines that read,
\* store and post meanwhile.  Excepted is a list that was read before an edit
\* and stored after it, or whose reading failed: it lasts until it expires or
\* the next edit.
CachedHooksAreCurrent ==
  cache # NoList /\ ~editing /\ ~missed => cache = Addressed
==============================================================================
