------------------------------- MODULE Accounts -------------------------------
(* The users of one project (auth.AuthService over auth.DBUserStore): sign-up, *)
(* verification, password resets, magic links, multi-factor set-up, OAuth, and *)
(* the administration handlers for users.  A user is a document of the         *)
(* collection _users with a unique index on the address.  An operation reads   *)
(* the document, works on a copy (password hashing, a provider's answer) and   *)
(* writes the copy back whole: Begin and Finish, with other requests between.  *)
EXTENDS Naturals, FiniteSets

CONSTANTS UserIds, UserEmails,
          MaxSecret,    \* secrets (tokens sent by mail) that may be drawn
          UserReqs,     \* requests that may run at once
          States        \* OAuth state tokens

VARIABLES
  users,     \* documents of _users
  mails,     \* entries of the unique index: pairs of address and user
  secretNo,  \* secrets drawn
  overdue,   \* secrets that have expired
  serving,   \* what a request has read and is about to write
  states,    \* oauthStates of this process
  holders,   \* users who were given tokens, which outlive the user
  given,     \* history: identifiers that were drawn
  refused,   \* history: users whose update the unique index refused
  entered,   \* history: how often a state let a user in
  links      \* history: the magic link each user was sent last

userVars == <<users, mails, secretNo, overdue, serving, states, holders, given, refused, entered, links>>

NoUser == [email |-> "none"]
Resting == [pc |-> "rest"]
Existing == {u \in UserIds : users[u] # NoUser}

AccountInit ==
  /\ users = [u \in UserIds |-> NoUser] /\ mails = {}
  /\ secretNo = 0 /\ overdue = {}
  /\ serving = [r \in UserReqs |-> Resting]
  /\ states = [s \in States |-> "none"]
  /\ holders = {} /\ given = {}
  /\ refused = {} /\ entered = [s \in States |-> 0]
  /\ links = [u \in UserIds |-> 0]

------------------------------------------------------------------------------
\* The store.  Of a user only what finds it is kept: not the password hash,
\* nor whether the address is verified.
NewUser(e, secret) == [email |-> e, verification |-> secret, reset |-> 0, magic |-> 0, mfa |-> FALSE]

\* The document of a user has no field for a magic link or multi-factor data.
userToMap(user) == [user EXCEPT !.magic = 0, !.mfa = FALSE]

GetByEmail(e) == {u \in UserIds : <<e, u>> \in mails}

\* SignUp hashes first; the look-up and the insert follow each other at once.
CreateUser(u, user) ==
  /\ u \notin given /\ GetByEmail(user.email) = {}
  /\ given' = given \cup {u}
  /\ users' = [users EXCEPT ![u] = userToMap(user)]
  /\ mails' = mails \cup {<<user.email, u>>}
  /\ UNCHANGED refused

Store == <<users, mails, given, refused>>

\* Mutant of UpdateUser: the old address stays in the index.
UpdateUserKeepsEntry(u, user) ==
  IF users[u] = NoUser THEN UNCHANGED Store
  ELSE /\ users' = [users EXCEPT ![u] = userToMap(user)]
       /\ mails' = mails \cup {<<user.email, u>>}
       /\ UNCHANGED <<given, refused>>

\* The document is written, the old entry removed, and then the unique index
\* may refuse the new one.
UpdateUser(u, user) ==
  IF users[u] = NoUser THEN UNCHANGED Store
  ELSE LET old == users[u].email
           rest == mails \ {<<old, u>>}
       IN /\ users' = [users EXCEPT ![u] = userToMap(user)]
          /\ UNCHANGED given
          /\ IF user.email = old THEN UNCHANGED <<mails, refused>>
             ELSE IF \E v \in UserIds \ {u} : <<user.email, v>> \in mails
             THEN mails' = rest /\ refused' = refused \cup {u}
             ELSE mails' = rest \cup {<<user.email, u>>} /\ UNCHANGED refused

------------------------------------------------------------------------------
\* Requests.
Begin(r, task) == serving[r] = Resting /\ serving' = [serving EXCEPT ![r] = task]
Write(u, user) == [pc |-> "write", u |-> u, user |-> user, link |-> FALSE]
Draw == secretNo < MaxSecret /\ secretNo' = secretNo + 1
OAuth == <<states, entered>>

\* Captcha and plugins may refuse a sign-up before this.  Who must verify the
\* address first is given no tokens.
SignUp(u, e, verify) ==
  IF verify THEN Draw /\ CreateUser(u, NewUser(e, secretNo'))
  ELSE CreateUser(u, NewUser(e, 0)) /\ UNCHANGED secretNo

handleSignUp(e) ==
  /\ \E u \in UserIds, verify \in BOOLEAN :
       /\ SignUp(u, e, verify)
       /\ holders' = IF verify THEN holders ELSE holders \cup {u}
  /\ UNCHANGED <<overdue, serving, OAuth, links>>

\* handleCreateUser signs the user up and then writes its copy with a role.
handleCreateUser(r, e) ==
  /\ \E u \in UserIds : /\ SignUp(u, e, FALSE)
                        /\ Begin(r, Write(u, NewUser(e, 0)))
  /\ UNCHANGED <<overdue, OAuth, holders, links>>

\* Tokens for who knows the password; with multi-factor data in the document,
\* a challenge instead.
SignInWithMFA(u) == holders' = IF users[u].mfa THEN holders ELSE holders \cup {u}
handleSignIn(e) ==
  /\ \E u \in GetByEmail(e) : SignInWithMFA(u)
  /\ UNCHANGED <<Store, secretNo, overdue, serving, OAuth, links>>

\* Only an address is verified that still holds the secret.
VerifyEmail(r, t) ==
  /\ t \notin overdue
  /\ \E u \in Existing : /\ users[u].verification = t
                         /\ Begin(r, Write(u, [users[u] EXCEPT !.verification = 0]))
  /\ UNCHANGED <<Store, secretNo, overdue, OAuth, holders, links>>

ForgotPassword(r, e) ==
  /\ Draw
  /\ \E u \in GetByEmail(e) : Begin(r, Write(u, [users[u] EXCEPT !.reset = secretNo']))
  /\ UNCHANGED <<Store, overdue, OAuth, holders, links>>

ResetPassword(r, t) ==
  /\ t \notin overdue
  /\ \E u \in Existing :
       /\ users[u].reset = t
       /\ Begin(r, Write(u, [users[u] EXCEPT !.reset = 0]))
  /\ UNCHANGED <<Store, secretNo, overdue, OAuth, holders, links>>

CreateMagicLink(r, e) ==
  /\ Draw
  /\ \E u \in GetByEmail(e) :
       Begin(r, [Write(u, [users[u] EXCEPT !.magic = secretNo']) EXCEPT !.link = TRUE])
  /\ UNCHANGED <<Store, overdue, OAuth, holders, links>>

\* The link the user holds; a user without that link in the store is refused.
VerifyMagicLink(r, u) ==
  /\ links[u] # 0 /\ u \in Existing
  /\ IF users[u].magic = links[u] /\ links[u] \notin overdue
     THEN Begin(r, Write(u, [users[u] EXCEPT !.magic = 0]))
     ELSE UNCHANGED serving
  /\ UNCHANGED <<Store, secretNo, overdue, OAuth, holders, links>>

\* SetupMFA stores a secret that the document has no field for; ConfirmMFA
\* finds none and refuses.
SetupMFA(r, u) ==
  /\ u \in Existing
  /\ Begin(r, Write(u, [users[u] EXCEPT !.mfa = TRUE]))
  /\ UNCHANGED <<Store, secretNo, overdue, OAuth, holders, links>>

ConfirmMFA(r, u) ==
  /\ u \in Existing
  /\ IF users[u].mfa THEN Begin(r, Write(u, users[u])) ELSE UNCHANGED serving
  /\ UNCHANGED <<Store, secretNo, overdue, OAuth, holders, links>>

DisableMFA(r, u) ==
  /\ u \in Existing
  /\ IF users[u].mfa THEN Begin(r, Write(u, [users[u] EXCEPT !.mfa = FALSE])) ELSE UNCHANGED serving
  /\ UNCHANGED <<Store, secretNo, overdue, OAuth, holders, links>>

\* handleUpdateMe: a name or a picture.  handleResetUserPassword: a password.
handleUpdateMe(r, u) ==
  /\ u \in holders \cap Existing /\ Begin(r, Write(u, users[u]))
  /\ UNCHANGED <<Store, secretNo, overdue, OAuth, holders, links>>

handleResetUserPassword(r, u) ==
  /\ u \in Existing /\ Begin(r, Write(u, users[u]))
  /\ UNCHANGED <<Store, secretNo, overdue, OAuth, holders, links>>

\* An administrator changes a user, the address without a look at the others.
handleUpdateUser(r, u, e) ==
  /\ u \in Existing /\ Begin(r, Write(u, [users[u] EXCEPT !.email = e]))
  /\ UNCHANGED <<Store, secretNo, overdue, OAuth, holders, links>>

handleDeleteUser(u) ==
  /\ u \in Existing
  /\ users' = [users EXCEPT ![u] = NoUser]
  /\ mails' = mails \ {<<users[u].email, u>>}
  /\ UNCHANGED <<secretNo, overdue, serving, OAuth, holders, given, refused, links>>

Finish(r) ==
  LET w == serving[r] IN
  /\ w.pc = "write"
  /\ UpdateUser(w.u, w.user)
  /\ links' = IF w.link /\ users[w.u] # NoUser THEN [links EXCEPT ![w.u] = w.user.magic] ELSE links
  /\ serving' = [serving EXCEPT ![r] = Resting]
  /\ UNCHANGED <<secretNo, overdue, OAuth, holders>>

SecretExpires(t) ==
  /\ t \notin overdue /\ t <= secretNo
  /\ overdue' = overdue \cup {t}
  /\ UNCHANGED <<Store, secretNo, serving, OAuth, holders, links>>

------------------------------------------------------------------------------
\* OAuth.  A state lives in the memory of the service.
CreateOAuthState(s) ==
  /\ states[s] = "none" /\ entered[s] = 0
  /\ states' = [states EXCEPT ![s] = "open"]
  /\ UNCHANGED <<Store, secretNo, overdue, serving, holders, entered, links>>

StateExpires(s) ==
  /\ states[s] = "open"
  /\ states' = [states EXCEPT ![s] = "late"]
  /\ UNCHANGED <<Store, secretNo, overdue, serving, holders, entered, links>>

\* cleanupExpiredStates.
cleanupExpiredStates ==
  /\ \E s \in States : states[s] = "late"
  /\ states' = [s \in States |-> IF states[s] = "late" THEN "gone" ELSE states[s]]
  /\ UNCHANGED <<Store, secretNo, overdue, serving, holders, entered, links>>

\* Mutant of HandleOAuthCallback: the state stays until it expires.
HandleOAuthCallbackKeepsState(r, s) ==
  /\ states[s] = "open"
  /\ Begin(r, [pc |-> "exchange", s |-> s])
  /\ UNCHANGED <<Store, secretNo, overdue, OAuth, holders, links>>

\* The state is taken under its lock, whether it has expired or not.
HandleOAuthCallback(r, s) ==
  /\ states[s] \in {"open", "late"}
  /\ IF states[s] = "open" THEN Begin(r, [pc |-> "exchange", s |-> s]) ELSE UNCHANGED serving
  /\ states' = [states EXCEPT ![s] = "gone"]
  /\ UNCHANGED <<Store, secretNo, overdue, holders, entered, links>>

\* The provider answers with an address, which is a user's or a new one.
ExchangeReturns(r, e) ==
  LET w == serving[r] IN
  /\ w.pc = "exchange"
  /\ IF GetByEmail(e) = {}
     THEN \E u \in UserIds : CreateUser(u, NewUser(e, 0)) /\ holders' = holders \cup {u}
     ELSE \E u \in GetByEmail(e) : UpdateUser(u, users[u]) /\ holders' = holders \cup {u}
  /\ entered' = [entered EXCEPT ![w.s] = @ + 1]
  /\ serving' = [serving EXCEPT ![r] = Resting]
  /\ UNCHANGED <<secretNo, overdue, states, links>>

\* ReloadProjectEnv builds a new service: open flows are lost.
ReloadService ==
  /\ states' = [s \in States |-> IF states[s] = "none" THEN "none" ELSE "gone"]
  /\ UNCHANGED <<Store, secretNo, overdue, serving, holders, entered, links>>

------------------------------------------------------------------------------
\* The handlers: the service's operation, for the holder of a token where one
\* is asked for.
handleRefresh(u)            == u \in holders \cap Existing /\ UNCHANGED userVars
handleVerifyEmail(r, t)     == VerifyEmail(r, t)
handleForgotPassword(r, e)  == ForgotPassword(r, e)
handleResetPassword(r, t)   == ResetPassword(r, t)
handleCreateMagicLink(r, e) == CreateMagicLink(r, e)
handleVerifyMagicLink(r, u) == VerifyMagicLink(r, u)
handleMFASetup(r, u)        == u \in holders /\ SetupMFA(r, u)
handleMFAConfirm(r, u)      == u \in holders /\ ConfirmMFA(r, u)
handleMFADisable(r, u)      == u \in holders /\ DisableMFA(r, u)
handleOAuthRedirect(s)      == CreateOAuthState(s)
handleOAuthCallback(r, s)   == HandleOAuthCallback(r, s)

AccountNext ==
  \/ \E e \in UserEmails : handleSignUp(e) \/ handleSignIn(e)
  \/ \E r \in UserReqs :
       \/ \E e \in UserEmails : \/ handleCreateUser(r, e) \/ handleForgotPassword(r, e)
                                \/ handleCreateMagicLink(r, e) \/ ExchangeReturns(r, e)
       \/ \E t \in 1..secretNo : handleVerifyEmail(r, t) \/ handleResetPassword(r, t)
       \/ \E u \in UserIds : \/ handleVerifyMagicLink(r, u) \/ handleUpdateMe(r, u)
                             \/ handleMFASetup(r, u) \/ handleMFAConfirm(r, u) \/ handleMFADisable(r, u)
                             \/ handleResetUserPassword(r, u)
                             \/ \E e \in UserEmails : handleUpdateUser(r, u, e)
       \/ Finish(r)
       \/ \E s \in States : handleOAuthCallback(r, s)
  \/ \E u \in UserIds : handleDeleteUser(u) \/ handleRefresh(u)
  \/ \E t \in 1..secretNo : SecretExpires(t)
  \/ \E s \in States : handleOAuthRedirect(s) \/ StateExpires(s)
  \/ cleanupExpiredStates \/ ReloadService

AccountSpec == AccountInit /\ [][AccountNext]_userVars

------------------------------------------------------------------------------
AccountTypeOK ==
  /\ \A u \in Existing : users[u].email \in UserEmails /\ ~users[u].mfa
  /\ Existing \cup refused \cup holders \subseteq given /\ given \subseteq UserIds
  /\ mails \subseteq UserEmails \X UserIds
  /\ overdue \subseteq 1..secretNo
  /\ \A r \in UserReqs : serving[r].pc \in {"rest", "write", "exchange"}
  /\ states \in [States -> {"none", "open", "late", "gone"}]

\* Whatever requests overlap, the address of each user finds that user and no
\* other, so that everyone can sign in; users are excepted whose update was
\* answered with an error (their document is stored and their entry gone).
UsersAreFound ==
  /\ \A u \in Existing \ refused : GetByEmail(users[u].email) = {u}
  /\ \A e \in UserEmails : \A u \in GetByEmail(e) : users[u] # NoUser /\ users[u].email = e

\* One OAuth state completes at most one sign-in.
StateEntersOnce == \A s \in States : entered[s] <= 1
==============================================================================
