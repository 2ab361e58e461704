------------------------------ MODULE RequestLog ------------------------------
(* The request log of a project: middlewares put an entry per request into a   *)
(* bounded channel, one goroutine writes them to the file and rotates it, and  *)
(* the console reads or clears it.  The goroutine keeps the file open between  *)
(* writes; a clearing has it closed and then removes the files one by one,     *)
(* which the lock of the writer does not cover.                                *)
EXTENDS Naturals, Sequences

CONSTANTS ChanSize,       \* entries the channel holds
          MaxLogSize,     \* entries of a file that is rotated
          MaxLogBackups,  \* rotated files that are kept
          MaxLogged,      \* bound: requests
          ClearReqs       \* requests that clear the log

VARIABLES
  logged,    \* requests so far; the number of a request is its entry
  channel,   \* entries on their way to the writer
  paths,     \* the file at each path: 0 the log, 1.. the rotated ones; 0 for none
  files,     \* the entries of every file that was made
  handle,    \* the file the writer has open, 0 for none
  logSize,   \* its count of what the file holds
  shifting,  \* the path a rotation renames next, Settled outside of one
  flushing,  \* requests: the path they remove next, Settled outside of a clearing
  exposed    \* history: files that were opened during a clearing, or removed with their directory

logVars == <<logged, channel, paths, files, handle, logSize, shifting, flushing, exposed>>

Settled == MaxLogBackups + 1
NoFile == 0
Kept == 0..MaxLogBackups

LogInit ==
  /\ logged = 0 /\ channel = <<>> /\ files = <<>>
  /\ paths = [i \in Kept |-> NoFile] /\ handle = NoFile /\ logSize = 0
  /\ shifting = Settled /\ flushing = [c \in ClearReqs |-> Settled] /\ exposed = {}

\* A full channel drops.
log ==
  /\ logged < MaxLogged /\ logged' = logged + 1
  /\ channel' = IF Len(channel) < ChanSize THEN Append(channel, logged') ELSE channel
  /\ UNCHANGED <<paths, files, handle, logSize, shifting, flushing, exposed>>

\* Both middlewares log a request that was answered: the app's and the console's.
clientRequestLoggerMiddleware == log
projectLogger == log

Clearing == \E c \in ClearReqs : flushing[c] # Settled

\* write opens the file when it has none open, and makes it when there is none.
Opened ==
  IF handle # NoFile THEN handle
  ELSE IF paths[0] # NoFile THEN paths[0] ELSE Len(files) + 1

write ==
  LET f == Opened
      grown == IF f > Len(files) THEN Append(files, <<Head(channel)>>)
               ELSE [files EXCEPT ![f] = Append(@, Head(channel))]
      size == IF handle # NoFile THEN logSize + 1 ELSE Len(grown[f])
  IN
    /\ channel # <<>> /\ shifting = Settled
    /\ channel' = Tail(channel) /\ files' = grown /\ handle' = f /\ logSize' = size
    /\ paths' = IF f > Len(files) THEN [paths EXCEPT ![0] = f] ELSE paths
    /\ exposed' = IF handle = NoFile /\ Clearing THEN exposed \cup {f} ELSE exposed
    /\ shifting' = IF size >= MaxLogSize THEN MaxLogBackups - 1 ELSE Settled
    /\ UNCHANGED <<logged, flushing>>

\* The open fails: the entry is gone.
writeFails ==
  /\ channel # <<>> /\ shifting = Settled /\ handle = NoFile
  /\ channel' = Tail(channel)
  /\ UNCHANGED <<logged, paths, files, handle, logSize, shifting, flushing, exposed>>

\* A renaming replaces what is at the new path, and does nothing without a file.
Renamed(i) ==
  IF paths[i] = NoFile THEN paths ELSE [paths EXCEPT ![i + 1] = paths[i], ![i] = NoFile]

\* rotate closes the file and renames from the last but one to the log itself.
\* Mutant of rotate: it leaves the file open.
rotateOpen ==
  /\ shifting # Settled /\ paths' = Renamed(shifting)
  /\ shifting' = IF shifting = 0 THEN Settled ELSE shifting - 1
  /\ logSize' = 0
  /\ UNCHANGED <<logged, channel, files, handle, flushing, exposed>>

rotate ==
  /\ shifting # Settled /\ paths' = Renamed(shifting)
  /\ shifting' = IF shifting = 0 THEN Settled ELSE shifting - 1
  /\ handle' = NoFile /\ logSize' = 0
  /\ UNCHANGED <<logged, channel, files, flushing, exposed>>

\* handleFlushLogs: the writer closes the file, under its lock.
invalidate(c) ==
  /\ flushing[c] = Settled /\ shifting = Settled
  /\ handle' = NoFile /\ logSize' = IF handle = NoFile THEN logSize ELSE 0
  /\ flushing' = [flushing EXCEPT ![c] = 1]
  /\ UNCHANGED <<logged, channel, paths, files, shifting, exposed>>

\* Then the rotated files are removed, in order, and the log last.
handleFlushLogs(c) ==
  /\ flushing[c] # Settled
  /\ paths' = [paths EXCEPT ![flushing[c]] = NoFile]
  /\ flushing' = [flushing EXCEPT ![c] =
       IF @ = 0 THEN Settled ELSE IF @ = MaxLogBackups THEN 0 ELSE @ + 1]
  /\ UNCHANGED <<logged, channel, files, handle, logSize, shifting, exposed>>

\* The project is deleted with its directory, which the next write makes again.
DirectoryIsRemoved ==
  /\ paths' = [i \in Kept |-> NoFile] /\ exposed' = exposed \cup {handle}
  /\ UNCHANGED <<logged, channel, files, handle, logSize, shifting, flushing>>

\* Nothing stops the writer in order: what is in the channel goes with the process.
Stop ==
  /\ channel' = <<>> /\ handle' = NoFile /\ logSize' = 0 /\ shifting' = Settled
  /\ flushing' = [c \in ClearReqs |-> Settled]
  /\ UNCHANGED <<logged, paths, files, exposed>>

LogNext ==
  \/ clientRequestLoggerMiddleware \/ projectLogger \/ write \/ writeFails \/ rotate \/ DirectoryIsRemoved \/ Stop
  \/ \E c \in ClearReqs : invalidate(c) \/ handleFlushLogs(c)

LogSpec == LogInit /\ [][LogNext]_logVars

------------------------------------------------------------------------------
\* What handleListLogs reads.
Listed == IF paths[0] = NoFile THEN <<>> ELSE files[paths[0]]

Entries(i) == IF paths[i] = NoFile THEN <<>> ELSE files[paths[i]]

LogTypeOK ==
  /\ logged \in 0..MaxLogged /\ Len(channel) <= ChanSize
  /\ paths \in [Kept -> 0..Len(files)] /\ handle \in 0..Len(files)
  /\ logSize \in 0..MaxLogged /\ shifting \in 0..Settled
  /\ flushing \in [ClearReqs -> 0..Settled] /\ exposed \subseteq 0..Len(files)

\* What the writer writes can be listed: it has the file open that is at the
\* path.  Excepted are files it opened while a clearing ran, which the clearing
\* may remove under it, and the rotation in progress.
WrittenIsListed ==
  handle # NoFile /\ shifting = Settled => handle = paths[0] \/ handle \in exposed

\* Read from the oldest file to the log, entries stand in the order of their
\* requests and none stands twice, through rotations, clearings and stops.
LogIsInOrder ==
  /\ \A i \in Kept : \A a, b \in DOMAIN Entries(i) : a < b => Entries(i)[a] < Entries(i)[b]
  /\ \A i, j \in Kept : i < j =>
       \A a \in DOMAIN Entries(i), b \in DOMAIN Entries(j) : Entries(j)[b] < Entries(i)[a]
==============================================================================
