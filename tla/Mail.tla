--------------------------------- MODULE Mail ---------------------------------
(* Mail of the server: letters that invite people, written from the template   *)
(* of the project, handed to a provider and then noted in the mail log; the    *)
(* log's entries, which an administrator sends again or clears one by one.     *)
EXTENDS Naturals, FiniteSets

CONSTANTS Letters,    \* letters, one per invitation
          Senders,    \* requests that send a letter
          Providers,  \* providers of this instance
          MaxEntries, \* bound: entries of the log
          MaxSends    \* bound: deliveries and doubts of a letter when a request starts

VARIABLES
  mailer,     \* the provider, and what is configured of it
  template,   \* the invitation template: built in, the project's own, or one that does not parse
  sending,    \* requests: what they are doing
  mailLog,    \* entries: whether they are listed, their letter, and success
  appended,   \* entries so far
  clearing,   \* entries a clearing has still to delete; NoClearing between
  newer,      \* history: entries appended since the last clearing began
  cleared,    \* the answer to the last clearing
  delivered,  \* history: times the provider took a letter
  doubtful    \* history: times it may have, without a success noted

mailVars == <<mailer, template, sending, mailLog, appended, clearing, newer, cleared,
              delivered, doubtful>>
Post  == <<delivered, doubtful>>
Trail == <<mailLog, appended, clearing, newer, cleared>>

\* What SendMail of a provider insists on.
SmtpMailer == {"host", "port", "sender"}
ResendMailer == {"key", "sender"}
MailtrapMailer == {"key", "sender"}
BrevoMailer == {"key", "sender"}
MailjetMailer == {"key", "sender"}
MaildevMailer == {"sender"}

\* NewMailer takes a name it does not know for SMTP.
NewMailer(provider) ==
  CASE provider = "resend" -> ResendMailer
    [] provider = "mailtrap" -> MailtrapMailer
    [] provider = "brevo" -> BrevoMailer
    [] provider = "mailjet" -> MailjetMailer
    [] provider = "maildev" -> MaildevMailer
    [] OTHER -> SmtpMailer

IsConfigured == NewMailer(mailer.provider) \subseteq mailer.has

NoLetter == "none"
NoClearing == {0}
Free == [pc |-> "free", letter |-> NoLetter, ok |-> FALSE]
Entry == [letter : Letters, ok : BOOLEAN, listed : BOOLEAN]
Listed == {i \in 1..appended : mailLog[i].listed}

MailInit ==
  /\ mailer \in [provider : Providers, has : {{"sender"}, {"host", "port", "sender"}, {"key", "sender"}}]
  /\ template \in {"builtin", "own", "broken"}
  /\ sending = [s \in Senders |-> Free]
  /\ mailLog = <<>> /\ appended = 0
  /\ clearing = NoClearing /\ newer = {} /\ cleared = "never"
  /\ delivered = [l \in Letters |-> 0] /\ doubtful = delivered

------------------------------------------------------------------------------
\* The template of a project.
Set == template' \in {"own", "broken"} /\ UNCHANGED <<mailer, sending, Trail, Post>>
Reset == template' = "builtin" /\ UNCHANGED <<mailer, sending, Trail, Post>>

\* The letter of an invitation that is stored by now.  A template that does not
\* parse ends the request before its answer.
SendInvitation(s, l) ==
  /\ sending[s] = Free /\ delivered[l] + doubtful[l] < MaxSends
  /\ IsConfigured /\ template # "broken"
  /\ sending' = [sending EXCEPT ![s] = [pc |-> "send", letter |-> l, ok |-> FALSE]]
  /\ UNCHANGED <<mailer, template, Trail, Post>>

\* An entry is sent again, whether it was a failure or not.
handleRetryEmailLog(s) ==
  /\ sending[s] = Free /\ IsConfigured
  /\ \E i \in Listed :
       /\ delivered[mailLog[i].letter] + doubtful[mailLog[i].letter] < MaxSends
       /\ sending' = [sending EXCEPT ![s] = [pc |-> "send", letter |-> mailLog[i].letter, ok |-> FALSE]]
  /\ UNCHANGED <<mailer, template, Trail, Post>>

\* LoggedMailer.SendMail: the provider, then the entry.  The call may break off
\* before or after the provider took the letter; maildev takes nothing.
Passed(s, ok, taken) ==
  LET l == sending[s].letter IN
    /\ sending' = [sending EXCEPT ![s] = [@ EXCEPT !.pc = "note", !.ok = ok]]
    /\ delivered' = [delivered EXCEPT ![l] = @ + taken]
    /\ doubtful' = [doubtful EXCEPT ![l] = @ + IF taken = 1 /\ ~ok THEN 1 ELSE 0]

\* Mutant of SendMail: a call that breaks off is noted as a success.
SendMailHopes(s) ==
  /\ sending[s].pc = "send"
  /\ \/ Passed(s, TRUE, IF mailer.provider = "maildev" THEN 0 ELSE 1)
     \/ mailer.provider # "maildev" /\ \E taken \in {0, 1} : Passed(s, TRUE, taken)
  /\ UNCHANGED <<mailer, template, Trail>>

SendMail(s) ==
  /\ sending[s].pc = "send"
  /\ \/ Passed(s, TRUE, IF mailer.provider = "maildev" THEN 0 ELSE 1)
     \/ mailer.provider # "maildev" /\ \E taken \in {0, 1} : Passed(s, FALSE, taken)
  /\ UNCHANGED <<mailer, template, Trail>>

Append(s) ==
  /\ sending[s].pc = "note" /\ appended < MaxEntries
  /\ sending' = [sending EXCEPT ![s] = Free]
  /\ \/ /\ mailLog' = [i \in 1..appended + 1 |-> IF i <= appended THEN mailLog[i]
                         ELSE [letter |-> sending[s].letter, ok |-> sending[s].ok, listed |-> TRUE]]
        /\ appended' = appended + 1
        /\ newer' = newer \cup {appended + 1}
        /\ UNCHANGED doubtful
     \/ /\ doubtful' = [doubtful EXCEPT ![sending[s].letter] = @ + IF sending[s].ok THEN 1 ELSE 0]
        /\ UNCHANGED <<mailLog, appended, newer>>
  /\ UNCHANGED <<mailer, template, clearing, cleared, delivered>>

------------------------------------------------------------------------------
\* Clear reads the entries and deletes one after the other; the first failure
\* ends it, with the rest in place.
handleClearEmailLog ==
  /\ clearing = NoClearing /\ clearing' = Listed
  /\ newer' = {} /\ cleared' = "underway"
  /\ UNCHANGED <<mailer, template, sending, mailLog, appended, Post>>

\* Mutant of Clear: what is there is deleted, not what was read.
ClearAll ==
  /\ clearing # NoClearing /\ clearing' = NoClearing /\ cleared' = "done"
  /\ mailLog' = [i \in 1..appended |-> [mailLog[i] EXCEPT !.listed = FALSE]]
  /\ UNCHANGED <<mailer, template, sending, appended, newer, Post>>

Clear ==
  /\ clearing # NoClearing
  /\ \/ clearing = {} /\ clearing' = NoClearing /\ cleared' = "done" /\ UNCHANGED mailLog
     \/ \E i \in clearing :
          /\ \A j \in clearing : j >= i    \* one after the other
          /\ clearing' = clearing \ {i} /\ UNCHANGED cleared
          /\ mailLog' = [mailLog EXCEPT ![i].listed = FALSE]
     \/ clearing # {} /\ clearing' = NoClearing /\ cleared' = "failed" /\ UNCHANGED mailLog
  /\ UNCHANGED <<mailer, template, sending, appended, newer, Post>>

MailNext ==
  \/ Set \/ Reset \/ handleClearEmailLog \/ Clear
  \/ \E s \in Senders :
       \/ \E l \in Letters : SendInvitation(s, l)
       \/ handleRetryEmailLog(s) \/ SendMail(s) \/ Append(s)

MailSpec == MailInit /\ [][MailNext]_mailVars

------------------------------------------------------------------------------
MailTypeOK ==
  /\ mailer \in [provider : Providers, has : SUBSET {"host", "port", "sender", "key"}]
  /\ template \in {"builtin", "own", "broken"}
  /\ sending \in [Senders -> [pc : {"free", "send", "note"}, letter : Letters \cup {NoLetter}, ok : BOOLEAN]]
  /\ appended \in 0..MaxEntries /\ mailLog \in [1..appended -> Entry]
  /\ clearing = NoClearing \/ clearing \subseteq 1..appended
  /\ newer \subseteq 1..appended /\ cleared \in {"never", "underway", "done", "failed"}
  /\ \A l \in Letters : {delivered[l], doubtful[l]} \subseteq Nat

\* A success in the log is a letter that a provider took, and a letter was
\* taken no more often than the log, or a doubtful answer, tells.  Excepted is
\* maildev, which reports success and delivers nothing.
LogTellsDeliveries ==
  \A l \in Letters :
    LET told == Cardinality({i \in 1..appended : mailLog[i].letter = l /\ mailLog[i].ok})
        noted == Cardinality({s \in Senders : sending[s].letter = l /\ sending[s].ok})
    IN \/ mailer.provider = "maildev" /\ delivered[l] = 0
       \/ told <= delivered[l] /\ delivered[l] <= told + noted + doubtful[l]

\* Clearing takes what was there and leaves what comes while it runs.
ClearingTakesWhatItRead ==
  /\ cleared = "done" => Listed = newer
  /\ newer \subseteq Listed
==============================================================================
