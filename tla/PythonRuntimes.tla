--------------------------- MODULE PythonRuntimes ---------------------------
(***************************************************************************)
(* The writable Python runtime of packaged builds (python-runtime.ts):      *)
(* several desktop and kiosk processes that want one runtime directory,     *)
(* build it under a lock file and rename it into place, next to processes   *)
(* of another version that delete it when nobody uses it. Everything they   *)
(* share is the file system; a process may die between any two calls.       *)
(***************************************************************************)
EXTENDS FiniteSets, Naturals

CONSTANTS Users,       \* processes that want the runtime
          Cleaners,    \* processes of another version of the same family
          MaxDeaths,   \* bound on processes that die
          MaxAges      \* bound on locks not refreshed for LOCK_STALE_MS

VARIABLES pc, alive,
          inUse,    \* .in-use/<runtime>/<pid>: "none", "empty" (created) or "written"
          final,    \* the runtime directory: "none", "partial" or "complete"
          lockFile, \* NoProc, or the process whose token it holds
          lockOld,  \* it was not refreshed for LOCK_STALE_MS
          staging, trash,  \* the directories of each process
          judged, moved,   \* removeStaleLock: the stale token, the lock renamed away
          deaths, ages

rVars == <<pc, alive, inUse, final, lockFile, lockOld, staging, trash, judged, moved,
           deaths, ages>>

Procs  == Users \cup Cleaners
NoProc == "no process"
Dirs   == {"none", "partial", "complete"}

UserSteps == {"start", "created", "look", "lock", "steal", "settle", "check", "build",
              "move", "aside", "inspect", "place", "unlock", "giveUp", "stamp", "using",
              "failed"}
CleanSteps == {"start", "users", "rename", "recheck", "restore", "remove", "done"}

RuntimesTypeOK ==
  /\ pc \in [Procs -> UserSteps \cup CleanSteps] /\ alive \in SUBSET Procs
  /\ inUse \in [Users -> {"none", "empty", "written"}]
  /\ final \in Dirs /\ lockFile \in Procs \cup {NoProc} /\ lockOld \in BOOLEAN
  /\ staging \in [Procs -> Dirs] /\ trash \in [Procs -> Dirs]
  /\ judged \in [Procs -> Procs \cup {NoProc}] /\ moved \in [Procs -> Procs \cup {NoProc}]
  /\ deaths \in 0..MaxDeaths /\ ages \in 0..MaxAges

\* A partial runtime is one left by a manual edit or an old layout.
RuntimesInit ==
  /\ pc = [p \in Procs |-> "start"] /\ alive = Procs
  /\ inUse = [p \in Users |-> "none"]
  /\ final \in Dirs /\ lockFile = NoProc /\ lockOld = FALSE
  /\ staging = [p \in Procs |-> "none"] /\ trash = [p \in Procs |-> "none"]
  /\ judged = [p \in Procs |-> NoProc] /\ moved = [p \in Procs |-> NoProc]
  /\ deaths = 0 /\ ages = 0

At(p, l) == p \in alive /\ pc[p] = l
Go(p, l) == pc' = [pc EXCEPT ![p] = l]

lockVars == <<lockFile, lockOld, judged, moved>>
dirVars  == <<final, staging, trash>>
envVars  == <<alive, deaths, ages>>

\* staleLockToken: the holder is dead or stopped refreshing the lock.
Stale == lockFile # NoProc /\ (lockFile \notin alive \/ lockOld)
IsLockLive == lockFile # NoProc /\ ~Stale

\* hasLiveUsers: a record of a live process; an unreadable one counts as dead.
LiveUsers == {p \in Users : inUse[p] = "written" /\ p \in alive}
\* ... and what it leaves of the records.
LiveRecords == [p \in Users |-> IF p \in LiveUsers THEN "written" ELSE "none"]

(***************************************************************************)
(* materializeRuntime                                                      *)
(***************************************************************************)
\* markInUse creates the record, then writes it.
CreateRecord(p) ==
  /\ At(p, "start") /\ Go(p, "created")
  /\ inUse' = [inUse EXCEPT ![p] = "empty"]
  /\ UNCHANGED <<dirVars, lockVars, envVars>>

\* A record unlinked meanwhile stays unlinked.
WriteRecord(p) ==
  /\ At(p, "created") /\ Go(p, "look")
  /\ inUse' = [inUse EXCEPT ![p] = IF @ = "empty" THEN "written" ELSE @]
  /\ UNCHANGED <<dirVars, lockVars, envVars>>

Look(p) ==
  /\ At(p, "look") /\ Go(p, IF final = "complete" THEN "stamp" ELSE "lock")
  /\ UNCHANGED <<inUse, dirVars, lockVars, envVars>>

\* acquireLock, one turn of its loop; it polls while the lock is held.
TakeLock(p) ==
  /\ At(p, "lock") /\ lockFile = NoProc
  /\ lockFile' = p /\ lockOld' = FALSE /\ Go(p, "check")
  /\ UNCHANGED <<inUse, dirVars, judged, moved, envVars>>

JudgeLock(p) ==
  /\ At(p, "lock") /\ Stale
  /\ judged' = [judged EXCEPT ![p] = lockFile] /\ Go(p, "steal")
  /\ UNCHANGED <<inUse, dirVars, lockFile, lockOld, moved, envVars>>

\* removeStaleLock: renames whatever lock is there by now, ...
StealLock(p) ==
  /\ At(p, "steal") /\ Go(p, IF lockFile = NoProc THEN "lock" ELSE "settle")
  /\ moved' = [moved EXCEPT ![p] = lockFile]
  /\ lockFile' = NoProc /\ lockOld' = FALSE
  /\ UNCHANGED <<inUse, dirVars, judged, envVars>>

\* ... and puts back one that is not the lock it judged.
SettleLock(p) ==
  /\ At(p, "settle") /\ Go(p, "lock")
  /\ lockFile' = IF moved[p] # judged[p] /\ lockFile = NoProc THEN moved[p] ELSE lockFile
  /\ moved' = [moved EXCEPT ![p] = NoProc] /\ judged' = [judged EXCEPT ![p] = NoProc]
  /\ UNCHANGED <<inUse, dirVars, lockOld, envVars>>

\* With the lock: somebody may have built it while this process waited.
Recheck(p) ==
  /\ At(p, "check")
  /\ IF final = "complete" THEN Go(p, "unlock") /\ UNCHANGED staging
     ELSE Go(p, "build") /\ staging' = [staging EXCEPT ![p] = "partial"]
  /\ UNCHANGED <<inUse, final, trash, lockVars, envVars>>

\* build: the uv commands, then the marker; any of them may fail.
Build(p) ==
  /\ At(p, "build")
  /\ \/ /\ staging[p] = "partial"
        /\ staging' = [staging EXCEPT ![p] = "complete"] /\ Go(p, "move")
     \/ UNCHANGED staging /\ Go(p, "giveUp")
  /\ UNCHANGED <<inUse, final, trash, lockVars, envVars>>

\* moveIntoPlace looks at what is there, ...
Move(p) ==
  /\ At(p, "move")
  /\ Go(p, CASE final = "complete" -> "unlock" [] final = "partial" -> "aside"
             [] OTHER -> "place")
  /\ UNCHANGED <<inUse, dirVars, lockVars, envVars>>

\* ... moves it away, ...
MoveAside(p) ==
  /\ At(p, "aside") /\ Go(p, "inspect")
  /\ trash' = [trash EXCEPT ![p] = final] /\ final' = "none"
  /\ UNCHANGED <<inUse, staging, lockVars, envVars>>

\* ... puts back what turned out to be complete, ...
Inspect(p) ==
  /\ At(p, "inspect")
  /\ IF trash[p] = "complete"
     THEN IF final = "none"
          THEN /\ final' = "complete" /\ trash' = [trash EXCEPT ![p] = "none"]
               /\ Go(p, "unlock")
          ELSE UNCHANGED <<final, trash>> /\ Go(p, "giveUp")
     ELSE trash' = [trash EXCEPT ![p] = "none"] /\ UNCHANGED final /\ Go(p, "place")
  /\ UNCHANGED <<inUse, staging, lockVars, envVars>>

\* ... and renames the staged runtime, which fails over one that is there.
Place(p) ==
  /\ At(p, "place")
  /\ IF final = "none" /\ staging[p] = "complete"
     THEN /\ final' = "complete" /\ staging' = [staging EXCEPT ![p] = "none"]
          /\ Go(p, "unlock")
     ELSE UNCHANGED <<final, staging>> /\ Go(p, IF final = "complete" THEN "unlock" ELSE "giveUp")
  /\ UNCHANGED <<inUse, trash, lockVars, envVars>>

\* releaseLock removes the lock only if it is still this process's.
Released(p) == lockFile' = IF lockFile = p THEN NoProc ELSE lockFile

Unlock(p) ==
  /\ At(p, "unlock") /\ Go(p, "stamp")
  /\ Released(p) /\ staging' = [staging EXCEPT ![p] = "none"]
  /\ UNCHANGED <<inUse, final, trash, lockOld, judged, moved, envVars>>

\* The build threw: the lock and the record go, and the boot has its warning.
GiveUp(p) ==
  /\ At(p, "giveUp") /\ Go(p, "failed")
  /\ Released(p) /\ staging' = [staging EXCEPT ![p] = "none"]
  /\ inUse' = [inUse EXCEPT ![p] = "none"]
  /\ UNCHANGED <<final, trash, lockOld, judged, moved, envVars>>

\* Writing LAST_USED throws when the directory is gone.
Stamp(p) ==
  /\ At(p, "stamp") /\ Go(p, IF final = "none" THEN "failed" ELSE "using")
  /\ UNCHANGED <<inUse, dirVars, lockVars, envVars>>

(***************************************************************************)
(* cleanStaleRuntimes and deleteIfStale                                    *)
(***************************************************************************)
\* Staging directories without a live lock, then the runtime's lock.
CleanStart(c) ==
  /\ At(c, "start")
  /\ staging' = IF IsLockLive THEN staging ELSE [p \in Procs |-> "none"]
  /\ Go(c, IF IsLockLive \/ final = "none" THEN "done" ELSE "users")
  /\ UNCHANGED <<inUse, final, trash, lockVars, envVars>>

CleanUsers(c) ==
  /\ At(c, "users") /\ Go(c, IF LiveUsers # {} THEN "done" ELSE "rename")
  /\ inUse' = LiveRecords
  /\ UNCHANGED <<dirVars, lockVars, envVars>>

\* Out of the way first, ...
CleanRename(c) ==
  /\ At(c, "rename")
  /\ Go(c, IF final = "none" THEN "done" ELSE "recheck")
  /\ trash' = [trash EXCEPT ![c] = final] /\ final' = "none"
  /\ UNCHANGED <<inUse, staging, lockVars, envVars>>

\* deleteIfStale without its second look.
CleanRecheck_Never(c) ==
  /\ At(c, "recheck") /\ Go(c, "remove")
  /\ UNCHANGED <<inUse, dirVars, lockVars, envVars>>

\* ... then a second look at the users.
CleanRecheck(c) ==
  /\ At(c, "recheck") /\ Go(c, IF LiveUsers # {} THEN "restore" ELSE "remove")
  /\ inUse' = LiveRecords
  /\ UNCHANGED <<dirVars, lockVars, envVars>>

\* Back, unless it was rebuilt; then the trash waits for a later launch.
CleanRestore(c) ==
  /\ At(c, "restore") /\ Go(c, "done")
  /\ IF final = "none"
     THEN final' = trash[c] /\ trash' = [trash EXCEPT ![c] = "none"]
     ELSE UNCHANGED <<final, trash>>
  /\ UNCHANGED <<inUse, staging, lockVars, envVars>>

CleanRemove(c) ==
  /\ At(c, "remove") /\ Go(c, "done")
  /\ trash' = [trash EXCEPT ![c] = "none"]
  /\ UNCHANGED <<inUse, final, staging, lockVars, envVars>>

(***************************************************************************)
(* The machine                                                             *)
(***************************************************************************)
Die(p) ==
  /\ p \in alive /\ deaths < MaxDeaths
  /\ alive' = alive \ {p} /\ deaths' = deaths + 1
  /\ UNCHANGED <<pc, inUse, dirVars, lockVars, ages>>

\* The holder was suspended: its heartbeat is late.
LockAges ==
  /\ lockFile \in alive /\ ~lockOld /\ ages < MaxAges
  /\ lockOld' = TRUE /\ ages' = ages + 1
  /\ UNCHANGED <<pc, alive, inUse, dirVars, lockFile, judged, moved, deaths>>

\* refreshLock, of a lock that is still the holder's.
Heartbeat(p) ==
  /\ p \in alive /\ lockFile = p /\ lockOld
  /\ lockOld' = FALSE
  /\ UNCHANGED <<pc, inUse, dirVars, lockFile, judged, moved, envVars>>

UserStep(p) ==
  \/ CreateRecord(p) \/ WriteRecord(p) \/ Look(p) \/ TakeLock(p) \/ JudgeLock(p)
  \/ StealLock(p) \/ SettleLock(p) \/ Recheck(p) \/ Build(p) \/ Move(p) \/ MoveAside(p)
  \/ Inspect(p) \/ Place(p) \/ Unlock(p) \/ GiveUp(p) \/ Stamp(p)

CleanStep(c) ==
  \/ CleanStart(c) \/ CleanUsers(c) \/ CleanRename(c) \/ CleanRecheck(c)
  \/ CleanRestore(c) \/ CleanRemove(c)

RuntimesProgress ==
  \/ \E p \in Users : UserStep(p) \/ Heartbeat(p)
  \/ \E c \in Cleaners : CleanStep(c)

RuntimesNext == RuntimesProgress \/ LockAges \/ \E p \in Procs : Die(p)

RuntimesSpec == RuntimesInit /\ [][RuntimesNext]_rVars

\* A live process runs on.
RuntimesFairSpec == RuntimesSpec /\ WF_rVars(RuntimesProgress)

(***************************************************************************)
(* Properties                                                              *)
(***************************************************************************)
\* Someone holds the runtime aside and will put it back.
WillComeBack ==
  \E q \in alive : trash[q] = "complete" /\ pc[q] \in {"recheck", "restore", "inspect"}

\* A process whose record is there keeps the runtime it uses, whoever builds,
\* cleans or dies meanwhile (python-runtime.ts:568-569).
RecordKeepsRuntime ==
  (deaths = 0) =>
    \A p \in LiveUsers : pc[p] = "using" => final # "none" \/ WillComeBack

\* A process that looked is a user the cleanup saw: "Register before looking,
\* so a concurrent cleanup sees this process as a user and keeps the runtime"
\* (python-runtime.ts:214-215).
RegisteredKeepsRuntime ==
  \A p \in Users : (At(p, "using") /\ deaths = 0) => final # "none" \/ WillComeBack

\* What is in the runtime directory under its final name was finished: a
\* process uses only a complete runtime. That is so while one process builds
\* and one cleans. Of two that move the directory aside, one can hold the
\* complete runtime while the other puts a partial one back in its place:
\* a second cleanup, or a second builder that has its lock because the first
\* was suspended, or because the first's live lock was stolen by a process
\* that had judged the dead lock before it.
UsesCompleteRuntime ==
  (ages = 0) => \A p \in Users : pc[p] \in {"stamp", "using"} => final # "partial"

RuntimesAreSafe == RecordKeepsRuntime /\ UsesCompleteRuntime

\* Every live process gets a runtime or its error: nobody waits for a lock
\* whose holder died.
LaunchesEnded == \A p \in Users : p \notin alive \/ pc[p] \in {"using", "failed"}
EveryLaunchEnds == []<>LaunchesEnded

=============================================================================
