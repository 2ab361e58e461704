------------------------------- MODULE Content -------------------------------
(* The content of a project: its documents with the events and counts of their *)
(* writes, the realtime hub, its files and configuration entries, and the      *)
(* settings of the server.  They share no state, so a behaviour belongs to one *)
(* of them, chosen in the initial state.                                       *)
EXTENDS RealtimeHub, DocumentApi, Integers, Sequences, FiniteSets

CONSTANTS Paths, FileReqs, Sizes, Quota, MaxMetered, Keys, ConfReqs, MaxTime,
          Forms, Values, MaxStarts

ContentBounds ==
  /\ "none" \notin Keys               \* a quiet request is at no entry
  /\ "mask" \notin Values               \* nobody enters the mask of the page
  /\ MaxTime \in Nat \ {0} /\ MaxStarts \in Nat
ASSUME ContentAssumption == ContentBounds

FilesBounds ==
  /\ IsFiniteSet(Paths) /\ IsFiniteSet(FileReqs) /\ Sizes \subseteq Nat
  /\ Quota \in Nat /\ MaxMetered \in Nat
ASSUME FilesAssumption == FilesBounds

VARIABLES focus,
  driver, bucketMade, known, file, meta, requests, counted, disturbed,
  loopholes,
  conf, time, settings, born, crossed,
  cfg, yaml, environ, smtp, forms, overlapped, starts

Files == INSTANCE Storage
Entries == INSTANCE ConfigMaps
Server == INSTANCE ServerSettings

filesVars == <<driver, bucketMade, known, file, meta, requests, counted,
               disturbed, loopholes>>
entriesVars == <<conf, time, settings, born, crossed>>
serverVars == <<cfg, yaml, environ, smtp, forms, overlapped, starts>>

Init ==
  /\ focus \in {"documents", "hub", "storage", "entries", "server"}
  /\ DocInit /\ HubInit /\ Files!StorageInit /\ Entries!ConfInit /\
     Server!SettingInit
  /\ focus = "storage" \/ driver = "local"   \* the others once, not once per
  /\ focus = "server" \/ environ = ""        \* driver or environment

DocumentsStep ==
  /\ focus = "documents" /\ DocNext
  /\ UNCHANGED <<focus, hubVars, filesVars, entriesVars, serverVars>>

HubStep ==
  /\ focus = "hub" /\ HubNext
  /\ UNCHANGED <<focus, docVars, filesVars, entriesVars, serverVars>>

FilesStep ==
  /\ focus = "storage" /\ Files!StorageNext
  /\ UNCHANGED <<focus, docVars, hubVars, entriesVars, serverVars>>

EntriesStep ==
  /\ focus = "entries" /\ Entries!ConfNext
  /\ UNCHANGED <<focus, docVars, hubVars, filesVars, serverVars>>

ServerStep ==
  /\ focus = "server" /\ Server!SettingNext
  /\ UNCHANGED <<focus, docVars, hubVars, filesVars, entriesVars>>

Next ==
  \/ DocumentsStep
  \/ HubStep
  \/ FilesStep
  \/ EntriesStep
  \/ ServerStep

Spec == Init /\ [][Next]_<<focus, docVars, hubVars, filesVars, entriesVars,
                           serverVars>>

(* Every component keeps its variables in their types.                         *)
TypeOK ==
  /\ focus = "documents" => DocTypeOK
  /\ focus = "hub" => HubTypeOK
  /\ focus = "storage" => Files!StorageTypeOK
  /\ focus = "entries" => Entries!ConfTypeOK
  /\ focus = "server" => Server!SettingTypeOK

(* A listed file is there and whole and the quota holds, an entry keeps its    *)
(* creation time, saved settings survive a restart and no mask becomes a       *)
(* secret; excepted are the overlaps and loopholes named in the modules.       *)
WhatIsSavedIsKept ==
  /\ focus = "storage" => Files!ListedFilesAreWhole
  /\ focus = "storage" => Files!QuotaHolds
  /\ focus = "entries" => Entries!CreationTimesHold
  /\ focus = "server" => Server!SavedSettingsHold
  /\ focus = "server" => Server!MaskIsNoSecret
==============================================================================
