-------------------------------- MODULE Backups --------------------------------
(* Backups of the data directory.  The scheduled one takes a checkpoint of the *)
(* master database and then of each project that was active when it began; the *)
(* console's copies the directories of the projects file by file, under the    *)
(* engines that write to them.  Either makes a directory named after the       *)
(* second it began in, and no lock keeps projects, writes or a deletion of the *)
(* backup from coming between two steps.                                       *)
EXTENDS Integers, FiniteSets

CONSTANTS SavedProjects,  \* projects
          MaxSeconds,     \* bound: the clock, whose seconds are the names of backups
          Timers, Consoles, \* makers of backups: schedulers and requests, each one a second
          MaxChanges      \* bound: changes of the files of a project, its creation the first

VARIABLES
  second,    \* the clock
  live,      \* the state of a project's files, 0 before there are any, Gone after
  saved,     \* backups: whether there is one, the projects in its master, its copies of two files each
  making,    \* makers: what they are doing, their backup, the projects listed and still to come
  finished,  \* history: scheduled backups that were completed, with what they listed
  since,     \* history: the state of all projects at the checkpoint of the master
  unopened,  \* history: backup and project whose engine could not be opened
  mixed      \* history: backups that were deleted, or that two made at once

Makers == Timers \cup Consoles

backupVars == <<second, live, saved, making, finished, since, unopened, mixed>>

Names == 1..MaxSeconds
Still == [pc |-> "rest", name |-> 0, listed |-> {}, todo |-> {}, half |-> "none"]
Gone == -1
None == [p \in SavedProjects |-> 0]
NoBackup == [there |-> FALSE, master |-> {}, parts |-> [p \in SavedProjects |-> <<0, 0>>]]
Existing == {p \in SavedProjects : live[p] > 0}

BackupInit ==
  /\ second = 1 /\ live \in [SavedProjects -> {0, 1}]
  /\ saved = [n \in Names |-> NoBackup] /\ making = [m \in Makers |-> Still]
  /\ finished = {} /\ since = [n \in Names |-> None] /\ unopened = {} /\ mixed = {}

ClockTicks ==
  /\ second < MaxSeconds /\ second' = second + 1
  /\ UNCHANGED <<live, saved, making, finished, since, unopened, mixed>>

\* The engine changes its files; the first change creates the project.
FilesChange(p) ==
  /\ live[p] \in 0..(MaxChanges - 1) /\ live' = [live EXCEPT ![p] = @ + 1]
  /\ UNCHANGED <<second, saved, making, finished, since, unopened, mixed>>

ProjectIsDeleted(p) ==
  /\ live[p] > 0 /\ live' = [live EXCEPT ![p] = Gone]
  /\ UNCHANGED <<second, saved, making, finished, since, unopened, mixed>>

Goes(m, pc, todo) == making' = [making EXCEPT ![m].pc = pc, ![m].todo = todo]
Ends(m) == making' = [making EXCEPT ![m] = [Still EXCEPT !.name = making[m].name]]
Backup(m) == saved[making[m].name]

\* A maker lists the projects and makes the directory of this second.
Begins(m, pc) ==
  /\ making[m].pc = "rest" /\ making[m].name < second
  /\ making' = [making EXCEPT ![m] =
       [pc |-> pc, name |-> second, listed |-> Existing, todo |-> Existing, half |-> "none"]]
  /\ saved' = [saved EXCEPT ![second].there = TRUE]
  /\ mixed' = IF saved[second].there THEN mixed \cup {second} ELSE mixed
  /\ UNCHANGED <<second, live, finished, since, unopened>>

runBackupScheduler(m) == Begins(m, "master")
handleCreateBackup(m) == Begins(m, "copy")

\* A checkpoint fails where there is one, and otherwise when the disk does.
CheckpointMaster(m) ==
  LET n == making[m].name IN
    /\ making[m].pc = "master"
    /\ \/ /\ Backup(m).master = {}
          /\ saved' = [saved EXCEPT ![n].there = TRUE, ![n].master = Existing \cup {"_master"}]
          /\ since' = [since EXCEPT ![n] = live] /\ Goes(m, "projects", making[m].todo)
       \/ Ends(m) /\ UNCHANGED <<saved, since>>
    /\ UNCHANGED <<second, live, finished, unopened, mixed>>

\* A project is skipped when its environment does not open, as that of a
\* deleted one; a checkpoint that fails ends the backup.
\* Mutant of CheckpointProject: it skips the project then, too.
CheckpointProjectOrNot(m, p) ==
  LET n == making[m].name  left == making[m].todo \ {p} IN
    /\ making[m].pc = "projects" /\ p \in making[m].todo
    /\ \/ /\ unopened' = unopened \cup {<<n, p>>} /\ Goes(m, "projects", left) /\ UNCHANGED saved
       \/ /\ live[p] > 0 /\ Backup(m).parts[p] = <<0, 0>>
          /\ saved' = [saved EXCEPT ![n].there = TRUE, ![n].parts[p] = <<live[p], live[p]>>]
          /\ Goes(m, "projects", left) /\ UNCHANGED unopened
       \/ live[p] > 0 /\ Goes(m, "projects", left) /\ UNCHANGED <<saved, unopened>>
    /\ UNCHANGED <<second, live, finished, since, mixed>>

CheckpointProject(m, p) ==
  LET n == making[m].name  left == making[m].todo \ {p} IN
    /\ making[m].pc = "projects" /\ p \in making[m].todo
    /\ \/ /\ unopened' = unopened \cup {<<n, p>>} /\ Goes(m, "projects", left) /\ UNCHANGED saved
       \/ /\ live[p] > 0 /\ Backup(m).parts[p] = <<0, 0>>
          /\ saved' = [saved EXCEPT ![n].there = TRUE, ![n].parts[p] = <<live[p], live[p]>>]
          /\ Goes(m, "projects", left) /\ UNCHANGED unopened
       \/ live[p] > 0 /\ Ends(m) /\ UNCHANGED <<saved, unopened>>
    /\ UNCHANGED <<second, live, finished, since, mixed>>

BackupCompletes(m) ==
  /\ making[m].pc = "projects" /\ making[m].todo = {} /\ Ends(m)
  /\ finished' = finished \cup {[name |-> making[m].name, listed |-> making[m].listed]}
  /\ UNCHANGED <<second, live, saved, since, unopened, mixed>>

\* copyDir, file by file.  Its errors end the copy of a project and are ignored.
copyDir(m, p) ==
  LET n == making[m].name  later == making[m].half = p  left == making[m].todo \ {p} IN
    /\ making[m].pc = "copy" /\ p \in making[m].todo /\ making[m].half \in {p, "none"}
    /\ \/ /\ live[p] > 0
          /\ saved' = [saved EXCEPT ![n].there = TRUE,
                         ![n].parts[p][IF later THEN 2 ELSE 1] = live[p]]
          /\ making' = IF later THEN [making EXCEPT ![m].half = "none", ![m].todo = left]
                       ELSE [making EXCEPT ![m].half = p]
       \/ making' = [making EXCEPT ![m].half = "none", ![m].todo = left] /\ UNCHANGED saved
    /\ UNCHANGED <<second, live, finished, since, unopened, mixed>>

CopyCompletes(m) ==
  /\ making[m].pc = "copy" /\ making[m].todo = {} /\ Ends(m)
  /\ UNCHANGED <<second, live, saved, finished, since, unopened, mixed>>

\* The console deletes a backup, finished or not.
handleDeleteBackup(n) ==
  /\ saved[n].there /\ saved' = [saved EXCEPT ![n] = NoBackup]
  /\ mixed' = mixed \cup {n}
  /\ UNCHANGED <<second, live, making, finished, since, unopened>>

BackupNext ==
  \/ ClockTicks
  \/ \E p \in SavedProjects : FilesChange(p) \/ ProjectIsDeleted(p)
  \/ \E m \in Timers :
       \/ runBackupScheduler(m) \/ CheckpointMaster(m) \/ BackupCompletes(m)
       \/ \E p \in SavedProjects : CheckpointProject(m, p)
  \/ \E m \in Consoles :
       \/ handleCreateBackup(m) \/ CopyCompletes(m)
       \/ \E p \in SavedProjects : copyDir(m, p)
  \/ \E n \in Names : handleDeleteBackup(n)

BackupSpec == BackupInit /\ [][BackupNext]_backupVars

------------------------------------------------------------------------------
BackupTypeOK ==
  /\ second \in Names /\ live \in [SavedProjects -> Gone..MaxChanges]
  /\ \A n \in Names : saved[n].master \subseteq SavedProjects \cup {"_master"}
  /\ \A n \in Names : saved[n].parts \in [SavedProjects -> (0..MaxChanges) \X (0..MaxChanges)]
  /\ \A m \in Makers : making[m].todo \subseteq making[m].listed /\ making[m].half \in SavedProjects \cup {"none"}
  /\ mixed \subseteq Names /\ unopened \subseteq Names \X SavedProjects

\* A scheduled backup that completed has, of every project it listed and its
\* master knows, one state of all files, and none older than the master.
\* Excepted are projects whose engine did not open, and backups that were
\* deleted on the way or shared their second with another.
BackupsAreWhole ==
  \A f \in finished : f.name \in mixed \/
    \A p \in f.listed \cap saved[f.name].master :
      LET part == saved[f.name].parts[p]
      IN <<f.name, p>> \in unopened \/ (part[1] = part[2] /\ part[1] >= since[f.name][p] /\ part[1] > 0)
==============================================================================
