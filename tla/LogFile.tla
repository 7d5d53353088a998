------------------------------- MODULE LogFile -------------------------------
(***************************************************************************)
(* The server's logger (packages/server/src/logger/logger.ts).  An entry   *)
(* goes to a bounded backlog at once and to a queue; one drain at a time   *)
(* takes the whole queue, appends it to gosai.log and rotates the file     *)
(* once it is too large, keeping MaxFiles rotated files, named by the      *)
(* clock.  The process may die between any two of these steps.             *)
(*                                                                         *)
(* Entries are numbered in the order they are logged; one entry is one     *)
(* unit of size.                                                           *)
(***************************************************************************)
EXTENDS Integers, Sequences, FiniteSets, SequencesExt, FiniteSetsExt

CONSTANTS
  MaxBytes,    \* the size past which the file is rotated
  MaxFiles,    \* rotated files kept
  MaxBacklog,  \* entries kept in memory
  MaxLogs,     \* bound: entries logged
  MaxClock,    \* bound: readings of the clock
  MaxErrors,   \* bound: failures of the disk
  MaxDeaths    \* bound: deaths of the process

VARIABLES
  logged,      \* the entries logged so far
  backlog,     \* Logger.backlog
  queued,      \* Logger.queued
  drain,       \* where the drain is; "none": Logger.writing is null
  lines,       \* the batch being written
  size,        \* Logger.size; -1 for null
  lastRotation,\* Logger.lastRotation
  clock,       \* Date.now()
  logFile,     \* what gosai.log holds
  rotated,     \* the rotated files, by suffix
  unwritten,   \* the entries no file ever got
  overwritten, \* a rotation took the name of an existing file
  flushing,    \* the entries a flush waits for, 0 without a flush
  cutBack,     \* a first rotation found the clock behind an older file's name
  diskErrors, deaths

logVars == <<logged, backlog, queued, drain, lines, size, lastRotation, clock, logFile,
             rotated, unwritten, overwritten, flushing, cutBack, diskErrors, deaths>>

Entries == 1..MaxLogs

LogTypeOK ==
  /\ logged \in 0..MaxLogs
  /\ backlog \in Seq(Entries) /\ Len(backlog) <= MaxBacklog
  /\ queued \in Seq(Entries)
  /\ drain \in {"none", "taking", "appending", "measuring", "pruning"}
  /\ lines \in Seq(Entries)
  /\ size \in -1..(2 * MaxLogs)
  /\ lastRotation \in 0..(MaxClock + MaxLogs) /\ clock \in 1..MaxClock
  /\ logFile \in Seq(Entries)
  /\ DOMAIN rotated \subseteq 1..(MaxClock + MaxLogs)
  /\ \A f \in DOMAIN rotated : rotated[f] \in Seq(Entries)
  /\ unwritten \subseteq Entries
  /\ overwritten \in BOOLEAN /\ cutBack \in BOOLEAN
  /\ flushing \in 0..MaxLogs
  /\ diskErrors \in 0..MaxErrors /\ deaths \in 0..MaxDeaths

LogInit ==
  /\ logged = 0 /\ backlog = <<>> /\ queued = <<>> /\ lines = <<>>
  /\ drain = "none" /\ size = -1 /\ lastRotation = 0 /\ clock = 1
  /\ logFile = <<>> /\ rotated = <<>> /\ unwritten = {} /\ overwritten = FALSE
  /\ flushing = 0 /\ cutBack = FALSE /\ diskErrors = 0 /\ deaths = 0

onDisk == <<logFile, rotated, unwritten, overwritten>>
bounded == <<clock, cutBack, diskErrors, deaths>>

\* Defect: the limit is off by one.
Bounded_OneMore(s) == IF Len(s) > MaxBacklog + 1 THEN Tail(s) ELSE s

Bounded(s) == IF Len(s) > MaxBacklog THEN Tail(s) ELSE s

(* A line for the file, an entry for the backlog; the drain starts unless  *)
(* one is under way.                                                       *)
Log ==
  /\ logged < MaxLogs
  /\ logged' = logged + 1
  /\ queued' = Append(queued, logged + 1)
  /\ backlog' = Bounded(Append(backlog, logged + 1))
  /\ drain' = IF drain = "none" THEN "taking" ELSE drain
  /\ UNCHANGED <<lines, size, lastRotation, onDisk, flushing, bounded>>

(* drain's loop: the whole queue is the next batch; an empty queue ends    *)
(* the drain in the same step.                                             *)
TakeBatch ==
  /\ drain = "taking"
  /\ IF queued = <<>>
     THEN drain' = "none" /\ UNCHANGED <<queued, lines>>
     ELSE drain' = "appending" /\ lines' = queued /\ queued' = <<>>
  /\ UNCHANGED <<logged, backlog, size, lastRotation, onDisk, flushing, bounded>>

\* Defect: the drain ends with its first batch.
AppendBatch_Once ==
  /\ drain = "appending"
  /\ LET now == (IF size = -1 THEN Len(logFile) ELSE size) + Len(lines)
     IN  /\ size' = now
         /\ drain' = IF now > MaxBytes THEN "measuring" ELSE "none"
  /\ logFile' = logFile \o lines
  /\ lines' = <<>>
  /\ UNCHANGED <<logged, backlog, queued, lastRotation, rotated, unwritten, overwritten,
                 flushing, bounded>>

(* Before its first write the logger measures the file it found.           *)
AppendBatch ==
  /\ drain = "appending"
  /\ LET now == (IF size = -1 THEN Len(logFile) ELSE size) + Len(lines)
     IN  /\ size' = now
         /\ drain' = IF now > MaxBytes THEN "measuring" ELSE "taking"
  /\ logFile' = logFile \o lines
  /\ lines' = <<>>
  /\ UNCHANGED <<logged, backlog, queued, lastRotation, rotated, unwritten, overwritten,
                 flushing, bounded>>

(* The batch is given up: the backlog still has its entries.               *)
AppendFails ==
  /\ drain = "appending" /\ diskErrors < MaxErrors
  /\ diskErrors' = diskErrors + 1
  /\ size' = IF size = -1 THEN Len(logFile) ELSE size
  /\ unwritten' = unwritten \cup ToSet(lines)
  /\ lines' = <<>> /\ drain' = "taking"
  /\ UNCHANGED <<logged, backlog, queued, lastRotation, logFile, rotated, overwritten,
                 flushing, clock, cutBack, deaths>>

\* Defect: a rotated file is named by the clock alone.
Suffix_Clock == clock

(* The suffix only grows, also when two rotations read the same time or    *)
(* the clock went back.                                                    *)
Suffix == Max({clock, lastRotation + 1})

\* The first rotation of a process knows nothing of the names before it.
CutBack == lastRotation = 0 /\ \E f \in DOMAIN rotated : f >= clock

Rename ==
  /\ drain = "measuring"
  /\ lastRotation' = Suffix
  /\ rotated' = [f \in DOMAIN rotated \cup {Suffix} |->
                   IF f = Suffix THEN logFile ELSE rotated[f]]
  /\ overwritten' = (overwritten \/ Suffix \in DOMAIN rotated)
  /\ logFile' = <<>> /\ size' = 0 /\ drain' = "pruning"
  /\ cutBack' = (cutBack \/ CutBack)
  /\ UNCHANGED <<logged, backlog, queued, lines, unwritten, flushing, clock, diskErrors,
                 deaths>>

(* The file keeps its name and its size: the next batch tries again.       *)
RenameFails ==
  /\ drain = "measuring" /\ diskErrors < MaxErrors
  /\ diskErrors' = diskErrors + 1
  /\ lastRotation' = Suffix /\ drain' = "taking"
  /\ cutBack' = (cutBack \/ CutBack)
  /\ UNCHANGED <<logged, backlog, queued, lines, size, onDisk, flushing, clock, deaths>>

\* The files with the MaxFiles highest suffixes, as a set of suffixes.
Newest == {f \in DOMAIN rotated :
             Cardinality({g \in DOMAIN rotated : g > f}) < MaxFiles}

Prune ==
  /\ drain = "pruning"
  /\ rotated' = [f \in Newest |-> rotated[f]]
  /\ drain' = "taking"
  /\ UNCHANGED <<logged, backlog, queued, lines, size, lastRotation, logFile, unwritten,
                 overwritten, flushing, bounded>>

\* Reading the directory or removing a file failed: the next rotation prunes.
PruneFails ==
  /\ drain = "pruning" /\ diskErrors < MaxErrors
  /\ diskErrors' = diskErrors + 1 /\ drain' = "taking"
  /\ UNCHANGED <<logged, backlog, queued, lines, size, lastRotation, onDisk, flushing,
                 clock, cutBack, deaths>>

\* flush, as the server's stop calls it, waits while a drain is under way.
Flush ==
  /\ flushing = 0 /\ logged > 0
  /\ flushing' = logged
  /\ UNCHANGED <<logged, backlog, queued, drain, lines, size, lastRotation, onDisk, bounded>>

FlushReturns ==
  /\ flushing > 0 /\ drain = "none"
  /\ flushing' = 0
  /\ UNCHANGED <<logged, backlog, queued, drain, lines, size, lastRotation, onDisk, bounded>>

\* Date.now() moves, either way.
Clock ==
  /\ clock' \in 1..MaxClock \ {clock}
  /\ UNCHANGED <<logged, backlog, queued, drain, lines, size, lastRotation, onDisk, flushing,
                 cutBack, diskErrors, deaths>>

(* The process dies and the next one starts over what is on the disk.      *)
Restart ==
  /\ deaths < MaxDeaths
  /\ deaths' = deaths + 1
  /\ unwritten' = unwritten \cup ToSet(queued) \cup ToSet(lines)
  /\ backlog' = <<>> /\ queued' = <<>> /\ lines' = <<>> /\ drain' = "none"
  /\ size' = -1 /\ lastRotation' = 0 /\ flushing' = 0
  /\ UNCHANGED <<logged, logFile, rotated, overwritten, clock, cutBack, diskErrors>>

LogNext ==
  \/ Log \/ TakeBatch \/ AppendBatch \/ AppendFails
  \/ Rename \/ RenameFails \/ Prune \/ PruneFails
  \/ Flush \/ FlushReturns \/ Clock \/ Restart

LogSpec == LogInit /\ [][LogNext]_logVars

-----------------------------------------------------------------------------
Rising(file) == \A i, j \in DOMAIN file : i < j => file[i] < file[j]
Before(file, next) == \A e \in ToSet(file), n \in ToSet(next) : e < n

\* The entries the files hold, from the oldest name to the current file.
Held == ToSet(logFile) \cup UNION {ToSet(rotated[f]) : f \in DOMAIN rotated}

(* What the files hold, read in the order of their names, is a run of the  *)
(* log without a gap but the entries whose write failed, up to the newest  *)
(* one handed to the disk: pruning removes the oldest entries and no       *)
(* others, however the clock moves under a running process.                *)
FilesHoldTheEnd ==
  /\ Rising(logFile)
  /\ \A f \in DOMAIN rotated :
       /\ Rising(rotated[f]) /\ Before(rotated[f], logFile)
       /\ \A g \in DOMAIN rotated : f < g => Before(rotated[f], rotated[g])
  /\ \A e \in Held :
       {n \in Held : n >= e} = (e..logged) \ (unwritten \cup ToSet(queued) \cup ToSet(lines))

(* Nothing waits without a drain: a flush that returned left every entry   *)
(* logged before it in a file or given up.                                 *)
NothingWaits == drain = "none" => queued = <<>> /\ lines = <<>>

(* The entry lost to the disk or to an earlier life is the only one a      *)
(* reader of the backlog and of the files misses: the backlog ends with    *)
(* the newest entry, and nothing else was overwritten.                     *)
LogIsSound ==
  /\ NothingWaits
  /\ ~cutBack => FilesHoldTheEnd /\ ~overwritten
  /\ \A i \in DOMAIN backlog : backlog[i] = logged - Len(backlog) + i
=============================================================================
