-------------------------- MODULE BridgeSupervisor --------------------------
(***************************************************************************)
(* BridgeSupervisor (supervisor.ts) with the process handling it drives    *)
(* (bridge.ts): starts and restarts the bridge, pings it, and stops it.    *)
(*                                                                         *)
(* Three asynchronous functions share the supervisor's fields and await    *)
(* the same process: `attemptStart`, `checkHealth` and `stop`.  `start`,   *)
(* `health` and `shutdown` say where each is suspended.  What they await,  *)
(* except a reply, is over once Node knows that the process is gone, so    *)
(* their continuations are due when process = "none" and run before the    *)
(* next macrotask.  Every delay (backoff, ping interval, timeouts) is a    *)
(* timer that may fire at any time.                                        *)
(***************************************************************************)
EXTENDS Naturals, TLAPS

CONSTANT MaxMissedPings  \* consecutive failed pings before a restart

ASSUME MaxMissedPingsAssumption == MaxMissedPings \in Nat \ {0}

VARIABLES
  state,         \* the supervisor's state field
  start,         \* where attemptStart is suspended
  health,        \* where checkHealth is suspended
  shutdown,      \* where stop is suspended
  timer,         \* whether a restart timer is set
  missed,        \* missedPings
  process,       \* the process, "exited" until Node knows
  terminating,   \* PythonBridge.stopping: the process was told to go
  managerReady   \* DriverManager.bridgeReady, set by onReady, cleared by onDown

vars == <<state, start, health, shutdown, timer, missed, process, terminating, managerReady>>

StartPoints == {"none", "ready", "manifest", "instances", "aborting", "cleanup"}
Requesting == {"manifest", "instances"}

\* The fields of the supervisor and the process keep their types, the count of
\* missed pings within its limit.
SupervisorTypeOK ==
  /\ state \in {"idle", "starting", "up", "waiting", "stopped"}
  /\ start \in StartPoints
  /\ health \in {"none", "ping", "stopping"}
  /\ shutdown \in {"none", "first", "starting", "last", "done"}
  /\ timer \in BOOLEAN
  /\ missed \in 0..MaxMissedPings
  /\ process \in {"none", "running", "exited"}
  /\ terminating \in BOOLEAN
  /\ managerReady \in BOOLEAN

Init ==
  /\ state = "idle"
  /\ start = "none" /\ health = "none" /\ shutdown = "none"
  /\ timer = FALSE /\ missed = 0
  /\ process = "none" /\ terminating = FALSE
  /\ managerReady = FALSE

-----------------------------------------------------------------------------
(* The event loop. *)

Gone == process = "none"

ContinuationDue ==
  \/ Gone /\ (start # "none" \/ health # "none" \/ shutdown \in {"first", "last"})
  \/ shutdown = "starting" /\ start = "none"

Macrotask == ~ContinuationDue

\* PythonBridge.stop, up to its first await.
TellToGo == terminating' = (terminating \/ ~Gone)

-----------------------------------------------------------------------------
(* attemptStart. *)

\* Its catch block, up to the await.
StartFails ==
  IF state = "stopped"
  THEN start' = "none" /\ UNCHANGED <<managerReady, terminating>>
  ELSE start' = "cleanup" /\ managerReady' = FALSE /\ TellToGo

\* `start`, called by the manager once and by the restart timer.  The process
\* is spawned, unless there still is one or the executable is missing.
Attempt(spawned) ==
  /\ Macrotask
  /\ state = "idle" \/ timer
  /\ state # "up" /\ start = "none"
  /\ timer' = FALSE
  /\ state' = "starting"
  /\ IF spawned
     THEN /\ Gone
          /\ process' = "running" /\ terminating' = FALSE
          /\ start' = "ready"
          /\ UNCHANGED managerReady
     ELSE /\ start' = "cleanup" /\ managerReady' = FALSE /\ TellToGo
          /\ UNCHANGED process
  /\ UNCHANGED <<health, shutdown, missed>>

\* The bridge's first line.  A bridge that is being stopped takes no request.
ReadyLine ==
  /\ Macrotask
  /\ start = "ready"
  /\ IF terminating
     THEN StartFails
     ELSE start' = "manifest" /\ UNCHANGED <<managerReady, terminating>>
  /\ UNCHANGED <<state, health, shutdown, timer, missed, process>>

\* No ready line in time, or one of another protocol version: PythonBridge.start
\* stops the process before it rejects.
NotReady ==
  /\ Macrotask
  /\ start = "ready"
  /\ start' = "aborting" /\ TellToGo
  /\ UNCHANGED <<state, health, shutdown, timer, missed, process, managerReady>>

StartAborted ==
  /\ Gone
  /\ start \in {"ready", "aborting"}
  /\ StartFails
  /\ UNCHANGED <<state, health, shutdown, timer, missed, process>>

ManifestListed ==
  /\ Macrotask
  /\ start = "manifest"
  /\ IF terminating
     THEN StartFails
     ELSE start' = "instances" /\ UNCHANGED <<managerReady, terminating>>
  /\ UNCHANGED <<state, health, shutdown, timer, missed, process>>

InstancesListed_NoCheck ==
  /\ Macrotask
  /\ start = "instances"
  /\ managerReady' = TRUE
  /\ start' = "none" /\ state' = "up" /\ missed' = 0
  /\ UNCHANGED <<terminating, health, shutdown, timer, process>>

InstancesListed_KeepsMissed ==
  /\ Macrotask
  /\ start = "instances"
  /\ managerReady' = TRUE
  /\ start' = "none"
  /\ IF terminating THEN UNCHANGED state ELSE state' = "up"
  /\ UNCHANGED <<missed, terminating, health, shutdown, timer, process>>

\* The manager accepts the bridge; the attempt fails if it was told to go, which
\* at this point only `stop` may have done.
InstancesListed ==
  /\ Macrotask
  /\ start = "instances"
  /\ managerReady' = TRUE
  /\ start' = "none"
  /\ IF terminating
     THEN UNCHANGED <<state, missed>>
     ELSE state' = "up" /\ missed' = 0
  /\ UNCHANGED <<terminating, health, shutdown, timer, process>>

\* A catalogue request times out, is refused, or dies with the process.
RequestFails ==
  /\ Gone \/ Macrotask
  /\ start \in Requesting
  /\ StartFails
  /\ UNCHANGED <<state, health, shutdown, timer, missed, process>>

CleanedUp_NoRestart ==
  /\ Gone
  /\ start = "cleanup"
  /\ start' = "none"
  /\ UNCHANGED <<state, timer, health, shutdown, missed, process, terminating, managerReady>>

\* The rest of the catch block: scheduleRestart, unless `stop` came.
CleanedUp ==
  /\ Gone
  /\ start = "cleanup"
  /\ start' = "none"
  /\ IF state = "stopped"
     THEN UNCHANGED <<state, timer>>
     ELSE state' = "waiting" /\ timer' = TRUE
  /\ UNCHANGED <<health, shutdown, missed, process, terminating, managerReady>>

-----------------------------------------------------------------------------
(* The process. *)

ProcessExits ==
  /\ process = "running"
  /\ process' = "exited"
  /\ UNCHANGED <<state, start, health, shutdown, timer, missed, terminating, managerReady>>

\* PythonBridge.handleExit, which rejects all that is pending, and then the
\* supervisor's, which minds only the exit of a bridge that was up.
HandleExit ==
  /\ Macrotask
  /\ process = "exited"
  /\ process' = "none"
  /\ IF state = "up"
     THEN state' = "waiting" /\ timer' = TRUE /\ managerReady' = FALSE
     ELSE UNCHANGED <<state, timer, managerReady>>
  /\ UNCHANGED <<start, health, shutdown, missed, terminating>>

-----------------------------------------------------------------------------
(* checkHealth. *)

Ping ==
  /\ Macrotask
  /\ state = "up" /\ health = "none"
  /\ health' = "ping"
  /\ UNCHANGED <<state, start, shutdown, timer, missed, process, terminating, managerReady>>

Pong ==
  /\ Macrotask
  /\ health = "ping"
  /\ health' = "none" /\ missed' = 0
  /\ UNCHANGED <<state, start, shutdown, timer, process, terminating, managerReady>>

PingFails_RestartsAtOnce ==
  /\ Gone \/ Macrotask
  /\ health = "ping"
  /\ missed' = missed + 1
  /\ health' = "none"
  /\ IF missed' = MaxMissedPings /\ state = "up"
     THEN state' = "waiting" /\ managerReady' = FALSE /\ timer' = TRUE /\ TellToGo
     ELSE UNCHANGED <<state, managerReady, timer, terminating>>
  /\ UNCHANGED <<start, shutdown, process>>

PingFails_StillReady ==
  /\ Gone \/ Macrotask
  /\ health = "ping"
  /\ missed' = missed + 1
  /\ IF missed' = MaxMissedPings /\ state = "up"
     THEN health' = "stopping" /\ state' = "waiting" /\ TellToGo
     ELSE health' = "none" /\ UNCHANGED <<state, terminating>>
  /\ UNCHANGED <<start, shutdown, timer, process, managerReady>>

\* A ping times out, or is rejected because the process went.  One too many
\* marks the bridge down and stops it.
PingFails ==
  /\ Gone \/ Macrotask
  /\ health = "ping"
  /\ missed' = missed + 1
  /\ IF missed' = MaxMissedPings /\ state = "up"
     THEN health' = "stopping" /\ state' = "waiting" /\ managerReady' = FALSE /\ TellToGo
     ELSE health' = "none" /\ UNCHANGED <<state, managerReady, terminating>>
  /\ UNCHANGED <<start, shutdown, timer, process>>

HealthStopped_NoRestart ==
  /\ Gone
  /\ health = "stopping"
  /\ health' = "none"
  /\ UNCHANGED <<state, start, shutdown, timer, missed, process, terminating, managerReady>>

\* The bridge that missed its pings is gone.
HealthStopped ==
  /\ Gone
  /\ health = "stopping"
  /\ health' = "none"
  /\ timer' = (timer \/ state = "waiting")
  /\ UNCHANGED <<state, start, shutdown, missed, process, terminating, managerReady>>

-----------------------------------------------------------------------------
(* stop: the process goes first, then the start under way is awaited. *)

Stop_KeepsTimer ==
  /\ Macrotask
  /\ state # "idle" /\ shutdown = "none"
  /\ shutdown' = "first" /\ state' = "stopped" /\ TellToGo
  /\ UNCHANGED <<start, health, timer, missed, process, managerReady>>

Stop_LeavesProcess ==
  /\ Macrotask
  /\ state # "idle" /\ shutdown = "none"
  /\ shutdown' = "first" /\ state' = "stopped" /\ timer' = FALSE
  /\ UNCHANGED <<start, health, missed, process, terminating, managerReady>>

Stop ==
  /\ Macrotask
  /\ state # "idle" /\ shutdown = "none"
  /\ shutdown' = "first" /\ state' = "stopped" /\ timer' = FALSE /\ TellToGo
  /\ UNCHANGED <<start, health, missed, process, managerReady>>

StopResumes ==
  /\ \/ Gone /\ shutdown = "first" /\ shutdown' = "starting"
     \/ start = "none" /\ shutdown = "starting" /\ shutdown' = "last"
  /\ TellToGo
  /\ UNCHANGED <<state, start, health, timer, missed, process, managerReady>>

\* The manager's `stop` marks the bridge down at the end.
StopReturns ==
  /\ Gone
  /\ shutdown = "last"
  /\ shutdown' = "done" /\ managerReady' = FALSE
  /\ UNCHANGED <<state, start, health, timer, missed, process, terminating>>

-----------------------------------------------------------------------------
Continue ==
  \/ StartAborted \/ CleanedUp \/ (Gone /\ RequestFails)
  \/ HealthStopped \/ (Gone /\ PingFails)
  \/ StopResumes \/ StopReturns

Fault ==
  \/ Attempt(FALSE) \/ NotReady
  \/ (~Gone /\ RequestFails) \/ (~Gone /\ PingFails)
  \/ (~terminating /\ ProcessExits)

Progress ==
  \/ Attempt(TRUE) \/ ReadyLine \/ ManifestListed \/ InstancesListed
  \/ (terminating /\ ProcessExits) \/ HandleExit

Next == Continue \/ Fault \/ Progress \/ Ping \/ Pong \/ Stop

Spec == Init /\ [][Next]_vars

(***************************************************************************)
(* Fairness.  Node runs what is due, its timers fire, and it hears of an   *)
(* exit.  A process that is well sends its ready line and answers; one     *)
(* told to go goes, if need be by SIGKILL.                                 *)
(***************************************************************************)
Fairness ==
  /\ WF_vars(Continue)
  /\ WF_vars(Attempt(TRUE))
  /\ WF_vars(ReadyLine) /\ WF_vars(ManifestListed) /\ WF_vars(InstancesListed)
  /\ WF_vars(terminating /\ ProcessExits) /\ WF_vars(HandleExit)

FairSpec == Spec /\ Fairness

-----------------------------------------------------------------------------
(* Properties. *)

\* Three functions share one process, and no two of them want it at once: a
\* restart timer is only ever set when there is no process, no start and no
\* health check that still stops one, so a start never meets a process.
RestartsFromNothing ==
  timer => /\ state = "waiting" /\ Gone
           /\ start = "none" /\ health # "stopping"

\* A supervisor that is not stopped is always on its way up: waiting, it has a
\* timer, or a health check that will set one; starting, it has a start under
\* way.
NeverStranded ==
  /\ state = "waiting" => timer \/ health = "stopping"
  /\ state = "starting" => start # "none"

\* The manager takes for usable only a process that is up and was not told to
\* go, unless `stop` is under way: "mark the bridge down before stopping it:
\* stopping rejects pending requests, and their handlers must see the bridge as
\* gone" (supervisor.ts:181).
ReadyMeansUsable == managerReady /\ shutdown = "none" => state = "up" /\ ~Gone /\ ~terminating

\* Once `stop` returned, whatever was under way when it was called, nothing
\* runs and nothing will: no process, no timer, no start.
StoppedForGood ==
  shutdown = "done" => Gone /\ ~timer /\ start = "none" /\ ~managerReady

\* When faults end, the bridge comes up for good, unless it is stopped.
Recovers == <>[][~Fault]_vars => <>[](state \in {"idle", "up", "stopped"})

\* `stop` returns, even if the process was starting or hung.
StopEnds == shutdown # "none" ~> shutdown = "done"

\* Neither the way up nor the way down has an end it does not reach.
ReachesItsEnd == Recovers /\ StopEnds

(***************************************************************************)
(* What the manager sees of all this is a BridgeLifecycle.                 *)
(***************************************************************************)
LifecycleState ==
  CASE shutdown = "done" -> "closed"
    [] shutdown \notin {"none", "done"} /\ Gone -> "stopped"
    [] shutdown \notin {"none", "done"} /\ ~Gone ->
         IF start = "instances" THEN "interrupted" ELSE "stopping"
    [] OTHER ->
         IF Gone THEN "down"
         ELSE IF state = "up" THEN "up"
         ELSE IF start \in {"ready", "manifest", "instances"} THEN "starting"
         ELSE "unresponsive"

Lifecycle == INSTANCE BridgeLifecycle
  WITH bridge <- LifecycleState, alive <- process = "running", ready <- managerReady

\* The supervisor implements the life DriverSystem assumes of the bridge.
ImplementsLifecycle == Lifecycle!LifecycleSpec

---------------------------------------------------------------------------
(***************************************************************************)
(* For every number of missed pings: the supervisor restarts from nothing, *)
(* never strands the manager, never lets it use a process that was told to *)
(* go, leaves nothing behind when it stopped, and implements the lifecycle *)
(* the driver manager is built on.                                         *)
(***************************************************************************)

(***************************************************************************)
(* The inductive invariant: which of the three functions may be under way  *)
(* in which state of the supervisor, and what each holds.                  *)
(***************************************************************************)
StartUnderWay ==
  /\ state = "starting" => start # "none" /\ health # "stopping"
  /\ start # "none" => state \in {"starting", "stopped"}
  /\ state = "starting" /\ terminating => start \in {"aborting", "cleanup"} \/ Gone

StoppedMeansStop ==
  /\ state = "stopped" <=> shutdown # "none"
  /\ shutdown # "none" /\ ~Gone => terminating
  /\ shutdown \in {"starting", "last", "done"} => Gone
  /\ shutdown \in {"last", "done"} => start = "none"

UpIsUsable == state = "up" => ~Gone /\ ~terminating /\ managerReady /\ health # "stopping"

DownIsMarked == managerReady /\ shutdown = "none" => state = "up"

WaitingIsServed ==
  /\ timer => state = "waiting" /\ Gone /\ health # "stopping"
  /\ state = "waiting" => timer \/ health = "stopping"
  /\ state = "idle" => Gone /\ health = "none"

PingsLeft ==
  /\ missed \in 0..MaxMissedPings
  /\ state = "up" \/ health = "ping" => missed < MaxMissedPings

SInv ==
  /\ SupervisorTypeOK
  /\ StartUnderWay
  /\ StoppedMeansStop
  /\ UpIsUsable
  /\ DownIsMarked
  /\ WaitingIsServed
  /\ PingsLeft
  /\ shutdown = "done" => ~managerReady

LEMMA InitHolds == Init => SInv
<1>1. Init => PingsLeft
  BY MaxMissedPingsAssumption DEF Init, PingsLeft
<1>2. Init /\ PingsLeft => SInv
  BY DEF Init, SInv, SupervisorTypeOK, StartPoints, StartUnderWay, StoppedMeansStop,
         UpIsUsable, DownIsMarked, WaitingIsServed, PingsLeft, Gone
<1> QED
  BY <1>1, <1>2

LEMMA StepKeeps == SInv /\ [Next]_vars => SInv'
<1> SUFFICES ASSUME SInv, [Next]_vars PROVE SInv'
  OBVIOUS
<1> USE MaxMissedPingsAssumption
    DEF SInv, SupervisorTypeOK, StartPoints, StartUnderWay, StoppedMeansStop, UpIsUsable,
        DownIsMarked, WaitingIsServed, PingsLeft, Gone, TellToGo, Macrotask, ContinuationDue
<1>1. ASSUME NEW spawned \in BOOLEAN, Attempt(spawned) PROVE SInv'
  BY <1>1 DEF Attempt
<1>2. CASE ReadyLine
  BY <1>2 DEF ReadyLine, StartFails
<1>3. CASE NotReady
  BY <1>3 DEF NotReady
<1>4. CASE StartAborted
  BY <1>4 DEF StartAborted, StartFails
<1>5. CASE ManifestListed
  BY <1>5 DEF ManifestListed, StartFails
<1>6. CASE InstancesListed
  <2>1. PingsLeft'
    BY <1>6 DEF InstancesListed
  <2>2. ~Gone
    BY <1>6 DEF InstancesListed
  <2>3. CASE terminating
    <3>1. UNCHANGED <<state, missed, terminating, health, shutdown, timer, process>>
          /\ start' = "none" /\ managerReady' = TRUE
      BY <1>6, <2>3 DEF InstancesListed
    <3>2. state = "stopped" /\ shutdown # "none"
      BY <1>6, <2>2, <2>3 DEF InstancesListed
    <3> QED
      BY <2>1, <2>2, <3>1, <3>2
  <2>4. CASE ~terminating
    <3>1. state = "starting" /\ shutdown = "none"
      BY <1>6, <2>2, <2>4 DEF InstancesListed
    <3>2. state' = "up" /\ start' = "none" /\ managerReady' = TRUE
          /\ UNCHANGED <<terminating, health, shutdown, timer, process>>
      BY <1>6, <2>4 DEF InstancesListed
    <3> QED
      BY <2>1, <2>2, <2>4, <3>1, <3>2
  <2> QED
    BY <2>3, <2>4
<1>7. CASE RequestFails
  BY <1>7 DEF RequestFails, StartFails, Requesting
<1>8. CASE CleanedUp
  BY <1>8 DEF CleanedUp
<1>9. CASE ProcessExits
  BY <1>9 DEF ProcessExits
<1>10. CASE HandleExit
  BY <1>10 DEF HandleExit
<1>11. CASE Ping
  BY <1>11 DEF Ping
<1>12. CASE Pong
  BY <1>12 DEF Pong
<1>13. CASE PingFails
  <2>1. PingsLeft'
    BY <1>13 DEF PingFails
  <2> QED
    BY <1>13, <2>1 DEF PingFails
<1>14. CASE HealthStopped
  BY <1>14 DEF HealthStopped
<1>15. CASE Stop
  BY <1>15 DEF Stop
<1>16. CASE StopResumes
  BY <1>16 DEF StopResumes
<1>17. CASE StopReturns
  BY <1>17 DEF StopReturns
<1>18. CASE UNCHANGED vars
  BY <1>18 DEF vars
<1> QED
  BY <1>1, <1>2, <1>3, <1>4, <1>5, <1>6, <1>7, <1>8, <1>9, <1>10, <1>11, <1>12, <1>13,
     <1>14, <1>15, <1>16, <1>17, <1>18
     DEF Next, Continue, Fault, Progress

LEMMA InvariantHolds == Spec => []SInv
BY InitHolds, StepKeeps, PTL DEF Spec

\* Every field stays in its type: a restart happens before the count of missed
\* pings exceeds its limit.
THEOREM SupervisorTypes == Spec => []SupervisorTypeOK
<1>1. SInv => SupervisorTypeOK
  BY DEF SInv
<1> QED
  BY <1>1, InvariantHolds, PTL

\* A restart timer is set only when no process, start or health check is left
\* (supervisor.ts:130-189), for every limit on missed pings.
THEOREM Restarts == Spec => []RestartsFromNothing
<1>1. SInv => RestartsFromNothing
  BY DEF SInv, RestartsFromNothing, WaitingIsServed, StartUnderWay
<1> QED
  BY <1>1, InvariantHolds, PTL

\* The supervisor always has something that will bring the bridge up.
THEOREM NobodyStranded == Spec => []NeverStranded
<1>1. SInv => NeverStranded
  BY DEF SInv, NeverStranded, WaitingIsServed, StartUnderWay
<1> QED
  BY <1>1, InvariantHolds, PTL

\* The manager is told that the bridge is down before the process is stopped
\* (supervisor.ts:181).
THEOREM MarkedDownFirst == Spec => []ReadyMeansUsable
<1>1. SInv => ReadyMeansUsable
  BY DEF SInv, ReadyMeansUsable, UpIsUsable, DownIsMarked
<1> QED
  BY <1>1, InvariantHolds, PTL

\* Nothing is left, and nothing can start, after `stop` (supervisor.ts:82-91).
THEOREM NothingLeft == Spec => []StoppedForGood
<1>1. SInv => StoppedForGood
  BY DEF SInv, StoppedForGood, StoppedMeansStop, WaitingIsServed
<1> QED
  BY <1>1, InvariantHolds, PTL

-----------------------------------------------------------------------------
LEMMA StepMapsToLifecycle ==
  SInv /\ SInv' /\ [Next]_vars
    => [Lifecycle!LifecycleNext]_<<LifecycleState, process = "running", managerReady>>
<1> SUFFICES ASSUME SInv, SInv', [Next]_vars
             PROVE  [Lifecycle!LifecycleNext]_<<LifecycleState, process = "running", managerReady>>
  OBVIOUS
<1> DEFINE Goal ==
      [Lifecycle!LifecycleNext]_<<LifecycleState, process = "running", managerReady>>
<1> USE DEF SInv, SupervisorTypeOK, StartPoints, StartUnderWay, StoppedMeansStop, UpIsUsable,
        DownIsMarked, WaitingIsServed, Gone, TellToGo, Macrotask, ContinuationDue,
        LifecycleState, Lifecycle!LifecycleNext
<1>1. ASSUME NEW spawned \in BOOLEAN, Attempt(spawned) PROVE Goal
  BY <1>1 DEF Attempt, Lifecycle!Start
<1>2. CASE ReadyLine
  BY <1>2 DEF ReadyLine, StartFails, Lifecycle!GiveUp
<1>3. CASE NotReady
  BY <1>3 DEF NotReady, Lifecycle!GiveUp
<1>4. CASE StartAborted
  BY <1>4 DEF StartAborted, StartFails
<1>5. CASE ManifestListed
  BY <1>5 DEF ManifestListed, StartFails, Lifecycle!GiveUp
<1>6. CASE InstancesListed
  BY <1>6 DEF InstancesListed, Lifecycle!Accept
<1>7. CASE RequestFails
  BY <1>7 DEF RequestFails, StartFails, Requesting, Lifecycle!GiveUp, Lifecycle!Accept
<1>8. CASE CleanedUp
  BY <1>8 DEF CleanedUp
<1>9. CASE ProcessExits
  BY <1>9 DEF ProcessExits, Lifecycle!Die
<1>10. CASE HandleExit
  BY <1>10 DEF HandleExit, Lifecycle!Bury
<1>11. CASE Ping
  BY <1>11 DEF Ping
<1>12. CASE Pong
  BY <1>12 DEF Pong
<1>13. CASE PingFails
  BY <1>13 DEF PingFails, Lifecycle!GiveUp
<1>14. CASE HealthStopped
  BY <1>14 DEF HealthStopped
<1>15. CASE Stop
  BY <1>15 DEF Stop, Lifecycle!Stop
<1>16. CASE StopResumes
  BY <1>16 DEF StopResumes
<1>17. CASE StopReturns
  BY <1>17 DEF StopReturns, Lifecycle!Close
<1>18. CASE UNCHANGED vars
  BY <1>18 DEF vars
<1> QED
  BY <1>1, <1>2, <1>3, <1>4, <1>5, <1>6, <1>7, <1>8, <1>9, <1>10, <1>11, <1>12, <1>13,
     <1>14, <1>15, <1>16, <1>17, <1>18
     DEF Next, Continue, Fault, Progress

\* The supervisor implements the life of the bridge that DriverSystem assumes,
\* so what is shown of the manager over BridgeLifecycle holds over this code.
THEOREM SupervisorImplementsLifecycle == Spec => ImplementsLifecycle
<1>1. Init => Lifecycle!LifecycleInit
  BY DEF Init, Lifecycle!LifecycleInit, LifecycleState, Gone
<1> QED
  BY <1>1, StepMapsToLifecycle, InvariantHolds, PTL
     DEF Spec, ImplementsLifecycle, Lifecycle!LifecycleSpec
=============================================================================
