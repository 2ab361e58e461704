---------------------------- MODULE ServerSettings ----------------------------
(* The settings of the server: the memory that handlers read and change        *)
(* without a lock, config.yaml, the environment that outranks it at the start, *)
(* and the mailer built from them.  An administrator's page shows secrets      *)
(* masked, tests mail with unsaved fields, and saves the whole form.           *)
EXTENDS Naturals, FiniteSets

CONSTANTS Forms,    \* pages of administrators
          Values,   \* values of a field
          MaxStarts \* bound: starts of the process after the first

VARIABLES
  cfg,        \* the settings in memory: one plain field and one secret
  yaml,       \* what config.yaml holds of each, or that it was cut off
  environ,    \* the secret the environment gives, "" for none
  smtp,       \* the settings the mailer was built with
  forms,      \* pages: what they are doing, their fields, and the mail tested since the last save
  overlapped, \* history: the last save to begin ran with another
  starts      \* starts so far

settingVars == <<cfg, yaml, environ, smtp, forms, overlapped, starts>>

Mask == "mask"
Empty == ""
Settings == [plain : Values \cup {"default"}, secret : Values \cup {Empty, "default"}]
Defaults == [plain |-> "default", secret |-> "default"]
Written(settings) == [state |-> "whole", has |-> settings]
Untested == [plain |-> "untested", secret |-> "untested"]
Away == [pc |-> "away", fields |-> Defaults, tested |-> Untested, taken |-> Defaults]

\* Load: defaults under config.yaml under the environment.  A file that was cut
\* off gives some of its fields, and no error.
applyEnvOverrides(settings) ==
  IF environ = Empty THEN settings ELSE [settings EXCEPT !.secret = environ]

Readings ==
  IF yaml.state = "torn" THEN {s \in Settings : \A f \in DOMAIN s : s[f] \in {yaml.has[f], Defaults[f]}}
                         ELSE {yaml.has}

SettingInit ==
  /\ environ \in {Empty} \cup Values
  /\ cfg = applyEnvOverrides(Defaults) /\ smtp = cfg
  /\ yaml = Written(cfg)   \* a missing file is created at the start
  /\ forms = [f \in Forms |-> Away]
  /\ overlapped = FALSE /\ starts = 0

------------------------------------------------------------------------------
Saving == {f \in Forms : forms[f].pc \notin {"away", "open"}}

\* The page.
masked(value) == IF value = Empty THEN Empty ELSE Mask

handleGetConfig(f) ==
  /\ forms[f].pc = "away"
  /\ forms' = [forms EXCEPT ![f] = [Away EXCEPT !.pc = "open",
                   !.fields = [plain |-> cfg.plain, secret |-> masked(cfg.secret)]]]
  /\ UNCHANGED <<cfg, yaml, environ, smtp, overlapped, starts>>

Type(f, fields) ==
  /\ forms[f].pc = "open" /\ forms[f].fields # fields
  /\ fields.secret \in {forms[f].fields.secret, Empty} \cup Values
  /\ forms' = [forms EXCEPT ![f].fields = fields, ![f].tested = Untested]
  /\ UNCHANGED <<cfg, yaml, environ, smtp, overlapped, starts>>

\* A test sends mail with the fields of the page.  The secret that is saved
\* stands in for a masked or an empty one; nothing is noted in the mail log.
emailConfigForTest(fields) ==
  [plain |-> fields.plain,
   secret |-> IF fields.secret \in {Mask, Empty} THEN cfg.secret ELSE fields.secret]

handleSmtpTest(f) ==
  /\ forms[f].pc = "open"
  /\ forms' = [forms EXCEPT ![f].tested =
                   IF Saving = {} THEN emailConfigForTest(forms[f].fields) ELSE Untested]
  /\ UNCHANGED <<cfg, yaml, environ, smtp, overlapped, starts>>

------------------------------------------------------------------------------
\* handleSaveConfig, in its order.  Each field is assigned as the handler comes
\* to it; a masked secret leaves the one there is, an empty one erases it.
ApplyPlain(f) ==
  /\ forms[f].pc = "open"
  /\ forms' = [g \in Forms |-> IF g = f THEN [forms[f] EXCEPT !.pc = "plain"]
                                        ELSE [forms[g] EXCEPT !.tested = Untested]]
  /\ cfg' = [cfg EXCEPT !.plain = forms[f].fields.plain]
  /\ overlapped' = (Saving # {})
  /\ UNCHANGED <<yaml, environ, smtp, starts>>

\* Mutant of ApplySecret: what the page shows is taken for the secret.
ApplySecretAsShown(f) ==
  /\ forms[f].pc = "plain" /\ forms' = [forms EXCEPT ![f].pc = "applied"]
  /\ cfg' = [cfg EXCEPT !.secret = forms[f].fields.secret]
  /\ UNCHANGED <<yaml, environ, smtp, overlapped, starts>>

ApplySecret(f) ==
  /\ forms[f].pc = "plain" /\ forms' = [forms EXCEPT ![f].pc = "applied"]
  /\ cfg' = IF forms[f].fields.secret = Mask THEN cfg
            ELSE [cfg EXCEPT !.secret = forms[f].fields.secret]
  /\ UNCHANGED <<yaml, environ, smtp, overlapped, starts>>

\* The mailer is built from what is in memory, then replaced.
BuildMailer(f) ==
  /\ forms[f].pc = "applied"
  /\ forms' = [forms EXCEPT ![f] = [@ EXCEPT !.pc = "built", !.taken = cfg]]
  /\ UNCHANGED <<cfg, yaml, environ, smtp, overlapped, starts>>

ReplaceMailer(f) ==
  /\ forms[f].pc = "built" /\ smtp' = forms[f].taken
  /\ forms' = [forms EXCEPT ![f].pc = "mailer"]
  /\ UNCHANGED <<cfg, yaml, environ, overlapped, starts>>

\* SaveToFile: the text is made of all that is in memory, secrets of the
\* environment too, the file is emptied, and the text is written.
Marshal(f) ==
  /\ forms[f].pc = "mailer"
  /\ forms' = [forms EXCEPT ![f] = [@ EXCEPT !.pc = "text", !.taken = cfg]]
  /\ UNCHANGED <<cfg, yaml, environ, smtp, overlapped, starts>>

Truncate(f) ==
  /\ forms[f].pc = "text"
  /\ \/ /\ forms' = [forms EXCEPT ![f].pc = "emptied"]
        /\ yaml' = [state |-> "torn", has |-> Defaults]
     \/ forms' = [forms EXCEPT ![f] = Away] /\ UNCHANGED yaml   \* refused
  /\ UNCHANGED <<cfg, environ, smtp, overlapped, starts>>

\* A disk that fills up keeps a part of it.  Of two saves at once the file
\* keeps the later text, or is torn between them.
WriteFile(f) ==
  /\ forms[f].pc = "emptied"
  /\ \/ yaml' = Written(forms[f].taken) /\ forms' = [forms EXCEPT ![f].pc = "saved"]
     \/ yaml' = [state |-> "torn", has |-> forms[f].taken] /\ forms' = [forms EXCEPT ![f].pc = "unsaved"]
  /\ UNCHANGED <<cfg, environ, smtp, overlapped, starts>>

Answer(f) ==
  /\ forms[f].pc \in {"saved", "unsaved"}
  /\ forms' = [forms EXCEPT ![f] = Away]
  /\ UNCHANGED <<cfg, yaml, environ, smtp, overlapped, starts>>

\* The process starts again, because it was asked to (handleRestart) or died.
Load ==
  /\ starts < MaxStarts /\ starts' = starts + 1
  /\ \E read \in Readings : cfg' = applyEnvOverrides(read)
  /\ smtp' = cfg' /\ overlapped' = FALSE
  /\ forms' = [f \in Forms |-> IF f \in Saving THEN Away ELSE [forms[f] EXCEPT !.tested = Untested]]
  /\ UNCHANGED <<yaml, environ>>

SettingNext ==
  \/ \E f \in Forms :
       \/ handleGetConfig(f) \/ handleSmtpTest(f)
       \/ \E plain \in Values, secret \in Values \cup {Empty, Mask} :
            Type(f, [plain |-> plain, secret |-> secret])
       \/ ApplyPlain(f) \/ ApplySecret(f) \/ BuildMailer(f) \/ ReplaceMailer(f)
       \/ Marshal(f) \/ Truncate(f) \/ WriteFile(f) \/ Answer(f)
  \/ Load

SettingSpec == SettingInit /\ [][SettingNext]_settingVars

------------------------------------------------------------------------------
SettingTypeOK ==
  /\ {cfg, smtp} \subseteq Settings
  /\ yaml \in [state : {"whole", "torn"}, has : Settings]
  /\ environ \in Values \cup {Empty} /\ overlapped \in BOOLEAN /\ starts \in 0..MaxStarts
  /\ \A f \in Forms : forms[f].taken \in Settings

\* A save that answers has put the mailer, the memory and the file at one; a
\* start with that file gives the same settings, but for what the environment
\* gives.  And a mail test that succeeded tested what is saved, unless the page
\* erases the secret.  Excepted are saves that overlap: their fields mix.
SavedSettingsHold ==
  \A f \in Forms :
    forms[f].pc = "saved" /\ ~overlapped =>
      /\ smtp = cfg /\ yaml.has = cfg
      /\ forms[f].tested \in {Untested, smtp} \/ forms[f].fields.secret = Empty

\* The mask that pages show never becomes the secret, in memory, in the file or
\* in the mailer, through saves that overlap and starts of the process.
MaskIsNoSecret == Mask \notin {cfg.secret, smtp.secret, yaml.has.secret}
==============================================================================
