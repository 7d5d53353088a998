------------------------- MODULE DriverSystemProofs -------------------------
(***************************************************************************)
(* The driver system for any keys, dependencies, clients and bounds: its   *)
(* types, that it uses the Python bridge as PythonBridge allows, and the   *)
(* invariants that follow.                                                 *)
(*                                                                         *)
(* The module has four parts.  What holds of a Python bridge whatever     *)
(* Node sends it: the types of its state, and that the worker of an        *)
(* instance's queue owns the instance's transitions.  Then the operators   *)
(* of DriverManager: each keeps the manager's type, and what a pass of the *)
(* reconciler leaves alone.  Then the system, where a step does three      *)
(* things that are shown apart: it keeps the manager's fields typed (the   *)
(* lemmas ...Types), it is a step of the bridge or leaves it alone (the    *)
(* same lemmas), and it keeps the rest of the state typed (CallStateTypes, *)
(* CounterTypes).  Last its requests, with a head of their own.            *)
(***************************************************************************)
EXTENDS DriverSystem, TLAPS, SequenceTheorems, FiniteSetTheorems

-----------------------------------------------------------------------------
(* The Python bridge. *)

(***************************************************************************)
(* Lemmas about lines and queues.                                          *)
(***************************************************************************)

\* A request is of one kind or the other, and its type tells which.
LEMMA RequestKinds ==
  ASSUME NEW r \in BridgeRequests
  PROVE  /\ r.key \in Keys /\ r.id \in RequestIds
         /\ r.type \in {"start-driver", "stop-driver"} => r \in LifecycleRequests
         /\ r.type \in {"subscribe", "unsubscribe"} => <<r.key, r.event>> \in Subscriptions
BY DEF BridgeRequests, LifecycleRequests, SubscriptionRequests, Subscriptions

LEMMA ReportTypes ==
  ASSUME NEW k \in Keys, NEW state \in DriverStates
  PROVE  StateReport(k, state) \in StateReports /\ StateReports \subseteq BridgeResponses
BY DEF StateReport, StateReports, BridgeResponses

LEMMA ResultTypes ==
  ASSUME NEW r \in BridgeRequests, NEW ok \in BOOLEAN
  PROVE  Result(r, ok) \in BridgeResponses
BY RequestKinds DEF Result, Results, BridgeResponses

LEMMA LifecycleIsRequest == LifecycleRequests \subseteq BridgeRequests
BY DEF BridgeRequests

\* What a worker takes is a lifecycle request, and leaves a well-typed queue.
LEMMA TakesTypes ==
  ASSUME PyTypeOK, NEW k \in Keys, NEW type, Takes(k, type)
  PROVE  /\ Head(queue[k]) \in LifecycleRequests
         /\ Head(queue[k]).type = type
         /\ queue' \in [Keys -> Seq(LifecycleRequests)]
<1>1. queue[k] \in Seq(LifecycleRequests) /\ queue[k] # <<>>
  BY DEF PyTypeOK, Takes
<1>2. Head(queue[k]) \in LifecycleRequests /\ Tail(queue[k]) \in Seq(LifecycleRequests)
  BY <1>1, HeadTailProperties
<1>3. QED
  BY <1>2 DEF PyTypeOK, Takes

\* More lines keep stdout well typed.
LEMMA Posts ==
  ASSUME PyTypeOK, NEW x \in BridgeResponses
  PROVE  Append(stdout, x) \in Seq(BridgeResponses)
BY AppendProperties DEF PyTypeOK

LEMMA PostsThenTypes ==
  ASSUME PyTypeOK, NEW x \in BridgeResponses, NEW y \in BridgeResponses, PostsThen(x, y)
  PROVE  stdout' \in Seq(BridgeResponses) /\ unposted' \subseteq StateReports
<1>1. <<x, y>> \in Seq(BridgeResponses)
      /\ \A report \in unposted : <<x, report, y>> \in Seq(BridgeResponses)
  BY DEF PyTypeOK, BridgeResponses
<1>2. CASE stdout' = stdout \o <<x, y>> /\ UNCHANGED unposted
  BY <1>1, <1>2, ConcatProperties DEF PyTypeOK
<1>3. CASE \E report \in unposted :
             stdout' = stdout \o <<x, report, y>> /\ unposted' = unposted \ {report}
  <2>1. PICK report \in unposted :
          stdout' = stdout \o <<x, report, y>> /\ unposted' = unposted \ {report}
    BY <1>3
  <2>2. stdout \in Seq(BridgeResponses) /\ <<x, report, y>> \in Seq(BridgeResponses)
    BY <1>1 DEF PyTypeOK
  <2>3. stdout' \in Seq(BridgeResponses)
    BY <2>1, <2>2, ConcatProperties
  <2>4. QED
    BY <2>1, <2>3 DEF PyTypeOK
<1>4. QED
  BY <1>2, <1>3 DEF PostsThen

LEMMA FinishTypes ==
  ASSUME PyTypeOK, NEW k \in Keys, FinishTask(k)
  PROVE  task' \in [Keys -> LifecycleRequests \union {Idle}]
BY DEF PyTypeOK, FinishTask

LEMMA DropTypes ==
  ASSUME PyTypeOK, NEW k \in Keys, DropExternal(k)
  PROVE  external' \subseteq Subscriptions
BY DEF PyTypeOK, DropExternal

LEMMA NoneTypes ==
  /\ <<>> \in Seq(BridgeRequests) /\ <<>> \in Seq(BridgeResponses)
  /\ NoInstances \in [Keys -> InstanceStates]
  /\ NoQueue \in [Keys -> Seq(LifecycleRequests)]
  /\ NoTask \in [Keys -> LifecycleRequests \union {Idle}]
BY DEF NoInstances, NoQueue, NoTask, InstanceStates

(***************************************************************************)
(* Types.                                                                  *)
(***************************************************************************)

LEMMA InitTypes == PyInit => PyTypeOK
BY NoneTypes DEF PyInit, PyTypeOK, Subscriptions

LEMMA ReadTypes ==
  ASSUME PyTypeOK, ReadSubscribe \/ ReadLifecycle
  PROVE  PyTypeOK'
<1> DEFINE r == Head(stdin)
<1>1. r \in BridgeRequests /\ stdin' \in Seq(BridgeRequests)
  <2>1. stdin \in Seq(BridgeRequests) /\ stdin # <<>> /\ stdin' = Tail(stdin)
    BY DEF PyTypeOK, ReadSubscribe, ReadLifecycle
  <2>2. QED
    BY <2>1, HeadTailProperties
<1>2. CASE ReadSubscribe
  <2>1. r.type \in {"subscribe", "unsubscribe"} /\ stdout' = Append(stdout, Result(r, TRUE))
    BY <1>2 DEF ReadSubscribe
  <2>2. stdout' \in Seq(BridgeResponses)
    BY <1>1, <2>1, ResultTypes, Posts
  <2>3. external' \subseteq Subscriptions
    BY <1>1, <1>2, <2>1, RequestKinds DEF PyTypeOK, ReadSubscribe
  <2>4. QED
    BY <1>1, <1>2, <2>2, <2>3 DEF PyTypeOK, ReadSubscribe
<1>3. CASE ReadLifecycle
  <2>1. r \in LifecycleRequests
    BY <1>1, <1>3, RequestKinds DEF ReadLifecycle
  <2>2. queue' = [queue EXCEPT ![r.key] = Append(@, r)]
    BY <1>3 DEF ReadLifecycle
  <2>3. queue' \in [Keys -> Seq(LifecycleRequests)]
    BY <2>1, <2>2, AppendProperties DEF PyTypeOK
  <2>4. QED
    BY <1>1, <1>3, <2>3 DEF PyTypeOK, ReadLifecycle
<1>4. QED
  BY <1>2, <1>3

LEMMA StartTypes ==
  ASSUME PyTypeOK, NEW k \in Keys,
         \/ StartBegins(k) \/ StartRepeated(k) \/ StartRefused(k)
         \/ StartSucceeds(k) \/ StartReported(k) \/ StartFails(k)
  PROVE  PyTypeOK'
<1>1. CASE StartBegins(k)
  <2>1. /\ Head(queue[k]) \in LifecycleRequests
        /\ queue' \in [Keys -> Seq(LifecycleRequests)]
    BY <1>1, TakesTypes DEF StartBegins
  <2>2. stdout' \in Seq(BridgeResponses)
    BY <1>1, ReportTypes, Posts DEF StartBegins, DriverStates
  <2>3. task' \in [Keys -> LifecycleRequests \union {Idle}]
    BY <1>1, <2>1 DEF StartBegins, PyTypeOK
  <2>4. QED
    BY <1>1, <2>1, <2>2, <2>3 DEF StartBegins, PyTypeOK, InstanceStates
<1>2. CASE StartRepeated(k)
  <2>1. /\ Head(queue[k]) \in LifecycleRequests
        /\ queue' \in [Keys -> Seq(LifecycleRequests)]
    BY <1>2, TakesTypes DEF StartRepeated
  <2>2. task' \in [Keys -> LifecycleRequests \union {Idle}]
    BY <1>2, <2>1 DEF StartRepeated, PyTypeOK
  <2>3. QED
    BY <1>2, <2>1, <2>2 DEF StartRepeated, PyTypeOK
<1>3. CASE StartRefused(k)
  <2>1. /\ Head(queue[k]) \in BridgeRequests
        /\ queue' \in [Keys -> Seq(LifecycleRequests)]
    BY <1>3, TakesTypes, LifecycleIsRequest DEF StartRefused
  <2>2. stdout' \in Seq(BridgeResponses)
    BY <1>3, <2>1, ResultTypes, Posts DEF StartRefused
  <2>3. QED
    BY <1>3, <2>1, <2>2 DEF StartRefused, PyTypeOK
<1>4. CASE StartSucceeds(k)
  BY <1>4 DEF StartSucceeds, PyTypeOK, InstanceStates
<1>5. task[k].type = "start-driver" => task[k] \in BridgeRequests
  BY LifecycleIsRequest DEF PyTypeOK, Idle
<1>6. CASE StartReported(k)
  <2>1. stdout' \in Seq(BridgeResponses) /\ unposted' \subseteq StateReports
    BY <1>5, <1>6, ReportTypes, ResultTypes, PostsThenTypes DEF StartReported, DriverStates
  <2>2. QED
    BY <1>6, <2>1, FinishTypes DEF StartReported, PyTypeOK
<1>7. CASE StartFails(k)
  <2>1. stdout' \in Seq(BridgeResponses)
    BY <1>5, <1>7, ResultTypes, Posts DEF StartFails
  <2>2. QED
    BY <1>7, <2>1, FinishTypes, DropTypes DEF StartFails, PyTypeOK, InstanceStates
<1>8. QED
  BY <1>1, <1>2, <1>3, <1>4, <1>6, <1>7

LEMMA StopTypes ==
  ASSUME PyTypeOK, NEW k \in Keys,
         StopAbsent(k) \/ StopBegins(k) \/ StopSucceeds(k) \/ StopTimesOut(k)
  PROVE  PyTypeOK'
<1>1. CASE StopAbsent(k)
  <2>1. /\ Head(queue[k]) \in BridgeRequests
        /\ queue' \in [Keys -> Seq(LifecycleRequests)]
    BY <1>1, TakesTypes, LifecycleIsRequest DEF StopAbsent
  <2>2. stdout' \in Seq(BridgeResponses)
    BY <1>1, <2>1, ResultTypes, Posts DEF StopAbsent
  <2>3. QED
    BY <1>1, <2>1, <2>2 DEF StopAbsent, PyTypeOK
<1>2. CASE StopBegins(k)
  <2>1. /\ Head(queue[k]) \in LifecycleRequests
        /\ queue' \in [Keys -> Seq(LifecycleRequests)]
    BY <1>2, TakesTypes DEF StopBegins
  <2>2. stdout' \in Seq(BridgeResponses)
    BY <1>2, ReportTypes, Posts DEF StopBegins, DriverStates
  <2>3. task' \in [Keys -> LifecycleRequests \union {Idle}]
    BY <1>2, <2>1 DEF StopBegins, PyTypeOK
  <2>4. QED
    BY <1>2, <2>1, <2>2, <2>3 DEF StopBegins, PyTypeOK, InstanceStates
<1>3. task[k].type = "stop-driver" => task[k] \in BridgeRequests
  BY LifecycleIsRequest DEF PyTypeOK, Idle
<1>4. CASE StopSucceeds(k)
  <2>1. stdout' \in Seq(BridgeResponses) /\ unposted' \subseteq StateReports
    BY <1>3, <1>4, ReportTypes, ResultTypes, PostsThenTypes DEF StopSucceeds, DriverStates
  <2>2. QED
    BY <1>4, <2>1, FinishTypes, DropTypes DEF StopSucceeds, PyTypeOK, InstanceStates
<1>5. CASE StopTimesOut(k)
  <2>1. stdout' \in Seq(BridgeResponses) /\ unposted' \subseteq StateReports
    BY <1>3, <1>5, ReportTypes, ResultTypes, PostsThenTypes DEF StopTimesOut, DriverStates
  <2>2. QED
    BY <1>5, <2>1, FinishTypes DEF StopTimesOut, PyTypeOK, InstanceStates
<1>6. QED
  BY <1>1, <1>2, <1>4, <1>5

LEMMA PublishTypes ==
  ASSUME PyTypeOK,
         \/ PublishedPosted
         \/ \E k \in Keys, state \in {"running", "errored"} : DriverPublishes(k, state)
  PROVE  PyTypeOK'
<1>1. CASE PublishedPosted
  <2>1. PICK report \in unposted :
           stdout' = Append(stdout, report) /\ unposted' = unposted \ {report}
    BY <1>1 DEF PublishedPosted
  <2>2. report \in BridgeResponses
    BY <2>1 DEF PyTypeOK, BridgeResponses
  <2>3. QED
    BY <1>1, <2>1, <2>2, Posts DEF PublishedPosted, PyTypeOK
<1>2. CASE \E k \in Keys, state \in {"running", "errored"} : DriverPublishes(k, state)
  <2>1. PICK k \in Keys, state \in {"running", "errored"} : DriverPublishes(k, state)
    BY <1>2
  <2>2. QED
    BY <2>1, ReportTypes DEF DriverPublishes, PyTypeOK, InstanceStates, DriverStates
<1>3. QED
  BY <1>1, <1>2

LEMMA EnvironmentTypes ==
  ASSUME PyTypeOK, NodeActs \/ Spawn \/ Exit
  PROVE  PyTypeOK'
<1>1. CASE NodeActs
  <2>1. stdout' \in Seq(BridgeResponses)
    BY <1>1, HeadTailProperties DEF NodeActs, PyTypeOK
  <2>2. QED
    BY <1>1, <2>1 DEF NodeActs, PyTypeOK
<1>2. CASE Spawn \/ Exit
  BY <1>2, NoneTypes DEF Spawn, Exit, ResetProcess, PyTypeOK
<1>3. QED
  BY <1>1, <1>2

LEMMA StepTypes == PyTypeOK /\ [PyNext]_pyVars => PyTypeOK'
<1> SUFFICES ASSUME PyTypeOK, [PyNext]_pyVars PROVE PyTypeOK'
  OBVIOUS
<1>1. CASE UNCHANGED pyVars
  BY <1>1 DEF PyTypeOK, pyVars
<1>2. CASE BridgeStep
  BY <1>2, ReadTypes, StartTypes, StopTypes, PublishTypes DEF BridgeStep, WorkerStep
<1>3. CASE \E k \in Keys, state \in {"running", "errored"} : DriverPublishes(k, state)
  BY <1>3, PublishTypes
<1>4. CASE NodeActs \/ Spawn \/ Exit
  BY <1>4, EnvironmentTypes
<1>5. QED
  BY <1>1, <1>2, <1>3, <1>4 DEF PyNext

\* The bridge's state keeps its type, whatever Node sends and whenever the
\* process dies.
THEOREM BridgeTypes == PySpec => []PyTypeOK
BY InitTypes, StepTypes, PTL DEF PySpec

(***************************************************************************)
(* Transitions.                                                            *)
(***************************************************************************)

LEMMA InitOwns == PyInit => WorkerOwnsTransitions
BY DEF PyInit, WorkerOwnsTransitions, NoInstances, NoTask, Idle

LEMMA WorkerOwns ==
  ASSUME PyTypeOK, WorkerOwnsTransitions, NEW k \in Keys, WorkerStep(k)
  PROVE  WorkerOwnsTransitions'
<1>1. /\ instances' \in [Keys -> InstanceStates]
      /\ \A j \in Keys \ {k} : instances'[j] = instances[j] /\ task'[j] = task[j]
  BY DEF WorkerStep, PyTypeOK, FinishTask, InstanceStates, StartBegins, StartRepeated,
         StartRefused, StartSucceeds, StartReported, StartFails,
         StopAbsent, StopBegins, StopSucceeds, StopTimesOut
<1>2. \A type : Takes(k, type) => Head(queue[k]).type = type /\ task[k].type = "idle"
  BY DEF Takes, Idle
<1>3. /\ instances'[k] = "starting" => task'[k].type = "start-driver"
      /\ instances'[k] = "stopping" <=> task'[k].type = "stop-driver"
      /\ task'[k].type = "start-driver" => instances'[k] # "absent"
  <2> DEFINE Owned == /\ instances'[k] = "starting" => task'[k].type = "start-driver"
                      /\ instances'[k] = "stopping" <=> task'[k].type = "stop-driver"
                      /\ task'[k].type = "start-driver" => instances'[k] # "absent"
  <2>1. CASE StartBegins(k) \/ StopBegins(k)
    BY <1>2, <2>1 DEF StartBegins, StopBegins, PyTypeOK
  <2>2. CASE StartRefused(k) \/ StopAbsent(k)
    BY <2>2 DEF StartRefused, StopAbsent, WorkerOwnsTransitions
  <2>6. CASE StartRepeated(k)
    <3>1. instances' = instances /\ instances[k] = "running"
      BY <2>6 DEF StartRepeated
    <3>2. task'[k].type = "start-driver"
      BY <1>2, <2>6 DEF StartRepeated, PyTypeOK
    <3>3. QED
      BY <3>1, <3>2
  <2>3. CASE StartSucceeds(k)
    BY <2>3 DEF StartSucceeds, PyTypeOK, WorkerOwnsTransitions
  <2>4. CASE StartReported(k) \/ StartFails(k)
    <3>1. task[k].type = "start-driver" /\ task'[k] = Idle
      BY <2>4 DEF StartReported, StartFails, FinishTask, PyTypeOK
    <3>2. instances'[k] \notin {"starting", "stopping"}
      BY <2>4, <3>1 DEF StartReported, StartFails, PyTypeOK, WorkerOwnsTransitions
    <3>3. QED
      BY <3>1, <3>2 DEF Idle
  <2>5. CASE StopSucceeds(k) \/ StopTimesOut(k)
    <3>1. task'[k] = Idle
      BY <2>5 DEF StopSucceeds, StopTimesOut, FinishTask, PyTypeOK
    <3>2. instances'[k] \in {"absent", "errored"}
      BY <2>5 DEF StopSucceeds, StopTimesOut, PyTypeOK
    <3>3. QED
      BY <3>1, <3>2 DEF Idle
  <2>7. QED
    BY <2>1, <2>2, <2>6, <2>3, <2>4, <2>5 DEF WorkerStep
<1>4. QED
  BY <1>1, <1>3 DEF WorkerOwnsTransitions

LEMMA StepOwns ==
  PyTypeOK /\ WorkerOwnsTransitions /\ [PyNext]_pyVars => WorkerOwnsTransitions'
<1> SUFFICES ASSUME PyTypeOK, WorkerOwnsTransitions, [PyNext]_pyVars
             PROVE  WorkerOwnsTransitions'
  OBVIOUS
<1>1. CASE UNCHANGED <<instances, task>>
  BY <1>1 DEF WorkerOwnsTransitions
<1>2. CASE \E k \in Keys : WorkerStep(k)
  BY <1>2, WorkerOwns
<1>3. CASE \E k \in Keys, state \in {"running", "errored"} : DriverPublishes(k, state)
  BY <1>3 DEF DriverPublishes, WorkerOwnsTransitions, PyTypeOK
<1>4. CASE Spawn \/ Exit
  BY <1>4 DEF Spawn, Exit, ResetProcess, NoInstances, NoTask, Idle, WorkerOwnsTransitions
<1>5. QED
  BY <1>1, <1>2, <1>3, <1>4
  DEF PyNext, pyVars, BridgeStep, ReadSubscribe, ReadLifecycle, PublishedPosted, NodeActs

\* An instance is starting or stopping exactly while its queue's worker runs the
\* request that put it there, whatever Node sends: bridge.py:512.
THEOREM TransitionsAreOwned == PySpec => []WorkerOwnsTransitions
<1>1. PyInit => PyTypeOK /\ WorkerOwnsTransitions
  BY InitTypes, InitOwns
<1>2. PyTypeOK /\ WorkerOwnsTransitions /\ [PyNext]_pyVars
        => (PyTypeOK /\ WorkerOwnsTransitions)'
  BY StepTypes, StepOwns
<1>3. QED
  BY <1>1, <1>2, PTL DEF PySpec

-----------------------------------------------------------------------------
(* The manager's operators. *)

LEMMA ClosureTypes == ASSUME NEW k \in Keys PROVE Closure[k] \subseteq Keys
BY DEF Closure

LEMMA CallTypes ==
  ASSUME NEW c \in Calls
  PROVE  CallKey[c] \in Keys /\ CallEvent[c] \in Events /\ CallSub(c) \in Subscriptions
BY CallsAssumption DEF CallSub, Subscriptions

LEMMA InitialTypes == InitialManager \in Managers
BY DEF InitialManager, Managers

LEMMA LifecycleTypes ==
  ASSUME NEW m \in Managers, NEW kind \in {"start", "stop"}, NEW id \in Nat
  PROVE  Lifecycle(m, kind, id) \in Operations
BY DEF Lifecycle, FirstOutcome, Operations, Outcomes, RequestIds, Managers

LEMMA NextChangeIn ==
  ASSUME NEW changes, changes # {}
  PROVE  NextChange(changes) \in changes
<1> DEFINE additions == {ch \in changes : ch[2]}
<1>1. \E ch \in changes : additions # {} => ch \in additions
  OBVIOUS
<1>2. QED
  BY <1>1 DEF NextChange

LEMMA SyncTypes ==
  ASSUME NEW m \in Managers, NEW changes \in SUBSET Changes, changes # {}, NEW id \in Nat
  PROVE  Sync(m, changes, id) \in Operations
<1>1. NextChange(changes) \in Changes
  BY NextChangeIn
<1>2. m.active \in BOOLEAN
  BY DEF Managers
<1>3. QED
  BY <1>1 DEF Sync, FirstOutcome, Operations, Outcomes, RequestIds

LEMMA SubscriptionChangesTypes ==
  ASSUME NEW m \in Managers, NEW k
  PROVE  SubscriptionChanges(m, k) \subseteq Changes
<1> DEFINE wanted == {CallEvent[c] : c \in {x \in m.leases \intersect Calls : CallKey[x] = k}}
           acked == {e \in Events : <<k, e>> \in m.subscriptions}
           failed == {e \in Events : <<k, e>> \in m.failedSubscriptions}
<1>1. wanted \subseteq Events /\ acked \subseteq Events
  BY CallTypes
<1>2. SubscriptionChanges(m, k) =
        ((wanted \ acked) \ failed) \X {TRUE} \union ((acked \ wanted) \ failed) \X {FALSE}
  <2>1. m.leases \intersect Calls = m.leases
    BY DEF Managers
  <2>2. QED
    BY <2>1 DEF SubscriptionChanges
<1> HIDE DEF wanted, acked, failed
<1>3. QED
  BY <1>1, <1>2 DEF Changes

LEMMA FreeTypes == \A m \in Managers : Free(m) \subseteq Keys
BY DEF Free

\* A pass keeps the manager's type, and touches only what it may.
LEMMA KickTypes ==
  ASSUME NEW m \in Managers, NEW id \in Nat
  PROVE  Kick(m, id) \in Managers
<1> DEFINE n == [m EXCEPT !.startErrors = @ \intersect Desired(m)]
           stops == {k \in Free(n) : MustStop(n, k)}
           starts == {k \in Free(n) : MustStart(n, k)}
           syncs == {k \in Free(n) : MustSync(n, k)}
           actual == [k \in Keys |-> IF k \in starts THEN "starting"
                                     ELSE IF k \in stops THEN "stopping"
                                     ELSE n.actual[k]]
           inFlight == [k \in Keys |->
                          IF k \in starts THEN Lifecycle(m, "start", id)
                          ELSE IF k \in stops THEN Lifecycle(m, "stop", id)
                          ELSE IF k \in syncs THEN Sync(m, SubscriptionChanges(n, k), id)
                          ELSE n.inFlight[k]]
<1>1. n \in Managers
  BY DEF Managers
<1> HIDE DEF n
<1>2. actual \in [Keys -> (DriverStates \ {"available"}) \union {"absent"}]
  BY <1>1 DEF Managers, DriverStates
<1>3. inFlight \in [Keys -> Operations \union {NoOperation}]
  <2>1. \A k \in syncs : Sync(m, SubscriptionChanges(n, k), id) \in Operations
    <3>1. \A k \in syncs : SubscriptionChanges(n, k) \in (SUBSET Changes) \ {{}}
      BY <1>1, FreeTypes, SubscriptionChangesTypes DEF MustSync
    <3>2. QED
      BY <3>1, SyncTypes
  <2>2. Lifecycle(m, "start", id) \in Operations /\ Lifecycle(m, "stop", id) \in Operations
    BY LifecycleTypes
  <2>3. n.inFlight \in [Keys -> Operations \union {NoOperation}]
    BY <1>1 DEF Managers
  <2>4. QED
    BY <2>1, <2>2, <2>3
<1>4. Kick(m, id) = IF ~m.bridgeReady THEN m
                    ELSE [n EXCEPT !.actual = actual, !.inFlight = inFlight]
  BY DEF Kick, n
<1> HIDE DEF actual, inFlight
<1>5. [n EXCEPT !.actual = actual, !.inFlight = inFlight] \in Managers
  BY <1>1, <1>2, <1>3 DEF Managers
<1>6. QED
  BY <1>4, <1>5

LEMMA KickKeeps ==
  ASSUME NEW m \in Managers, NEW id \in Nat
  PROVE  /\ Kick(m, id).active = m.active
         /\ Kick(m, id).bridgeReady = m.bridgeReady
         /\ Kick(m, id).leases = m.leases
         /\ ~m.bridgeReady => Kick(m, id) = m
BY DEF Kick, Managers

(***************************************************************************)
(* The handlers.                                                           *)
(***************************************************************************)

LEMMA TakeLeaseTypes ==
  ASSUME NEW m \in Managers, NEW c \in Calls
  PROVE  TakeLease(m, c) \in Managers
<1> DEFINE keys == Closure[CallKey[c]]
           newer == m.newer \union {<<c, older>> : older \in m.leases}
           errors == m.startErrors \ keys
           failed == m.failedSubscriptions \ {CallSub(c)}
           retries == [k \in Keys |-> IF k \in keys /\ m.stopRetries[k] = "waiting"
                                      THEN "due" ELSE m.stopRetries[k]]
<1>1. newer \subseteq Calls \X Calls
  BY DEF Managers
<1>2. retries \in [Keys -> {"none", "waiting", "due"}]
  BY DEF Managers
<1>3. TakeLease(m, c) =
        [m EXCEPT !.leases = @ \union {c}, !.newer = newer, !.startErrors = errors,
                  !.stopRetries = retries, !.failedSubscriptions = failed]
  BY DEF TakeLease
<1>4. errors \subseteq Keys /\ failed \subseteq Subscriptions
  BY DEF Managers
<1> HIDE DEF keys, newer, retries, errors, failed
<1>5. m.leases \union {c} \subseteq Calls
  BY DEF Managers
<1> DEFINE first == [m EXCEPT !.leases = @ \union {c}, !.newer = newer, !.startErrors = errors]
<1>6. first \in Managers
  BY <1>1, <1>4, <1>5 DEF Managers
<1>7. TakeLease(m, c) = [first EXCEPT !.stopRetries = retries, !.failedSubscriptions = failed]
  BY <1>3
<1> HIDE DEF first
<1>8. QED
  BY <1>2, <1>4, <1>6, <1>7 DEF Managers

LEMMA DropLeasesTypes ==
  ASSUME NEW m \in Managers, NEW gone
  PROVE  DropLeases(m, gone) \in Managers
<1> DEFINE newer == {pair \in m.newer : pair[1] \notin gone /\ pair[2] \notin gone}
<1>1. newer \subseteq Calls \X Calls
  BY DEF Managers
<1>2. DropLeases(m, gone) = [m EXCEPT !.leases = @ \ gone, !.newer = newer]
  BY DEF DropLeases
<1> HIDE DEF newer
<1>3. QED
  BY <1>1, <1>2 DEF Managers

LEMMA ReleaseTypes ==
  ASSUME NEW m \in Managers, NEW gone
  PROVE  Release(m, gone) \in Managers
BY DropLeasesTypes DEF Release, Managers

\* Nothing but leases and the failures that would block them changes.
LeasesOnly(m, n) ==
  /\ n.active = m.active /\ n.bridgeReady = m.bridgeReady
  /\ n.inFlight = m.inFlight /\ n.subscriptions = m.subscriptions
  /\ n.startErrors \subseteq m.startErrors
  /\ n.failedSubscriptions \subseteq m.failedSubscriptions
  /\ \A k \in Keys : m.stopRetries[k] = "none" => n.stopRetries[k] = "none"

LEMMA LeaseKeeps ==
  ASSUME NEW m \in Managers
  PROVE  /\ \A c \in Calls : LeasesOnly(m, TakeLease(m, c))
         /\ \A gone : LeasesOnly(m, DropLeases(m, gone)) /\ LeasesOnly(m, Release(m, gone))
<1>1. \A c \in Calls : LeasesOnly(m, TakeLease(m, c))
  BY DEF TakeLease, LeasesOnly, Managers
<1>2. \A gone : LeasesOnly(m, DropLeases(m, gone))
  BY DEF DropLeases, LeasesOnly, Managers
<1>3. \A gone : LeasesOnly(m, Release(m, gone))
  <2>1. \A n \in Managers : LeasesOnly(m, n) =>
          \A subs : LeasesOnly(m, [n EXCEPT !.failedSubscriptions = @ \ subs])
    BY DEF LeasesOnly, Managers
  <2>2. QED
    BY <1>2, <2>1, DropLeasesTypes DEF Release
<1>4. QED
  BY <1>1, <1>2, <1>3

LEMMA DropActualTypes ==
  ASSUME NEW m \in Managers, NEW k \in Keys
  PROVE  DropActual(m, k) \in Managers
BY DEF DropActual, Managers

LEMMA ReportStateTypes ==
  ASSUME NEW m \in Managers, NEW k \in Keys, NEW state \in DriverStates
  PROVE  ReportState(m, k, state) \in Managers
BY DropActualTypes DEF ReportState, Managers

\* Only what the manager believes the bridge runs changes.
BeliefsOnly(m, n) ==
  /\ n.active = m.active /\ n.bridgeReady = m.bridgeReady
  /\ n.inFlight = m.inFlight /\ n.subscriptions \subseteq m.subscriptions
  /\ n.startErrors = m.startErrors
  /\ n.failedSubscriptions = m.failedSubscriptions
  /\ n.stopRetries = m.stopRetries

LEMMA DropActualKeeps ==
  ASSUME NEW m \in Managers, NEW k \in Keys
  PROVE  BeliefsOnly(m, DropActual(m, k))
BY DEF DropActual, BeliefsOnly, Managers

LEMMA ReportKeeps ==
  ASSUME NEW m \in Managers, NEW k \in Keys, NEW state \in DriverStates
  PROVE  BeliefsOnly(m, ReportState(m, k, state))
BY DropActualKeeps DEF ReportState, BeliefsOnly, Managers

LEMMA ConcludeTypes ==
  ASSUME NEW m \in Managers, NEW k \in Keys, Busy(m, k)
  PROVE  /\ Conclude(m, k) \in Managers
         /\ Conclude(m, k).active = m.active
         /\ Conclude(m, k).bridgeReady = m.bridgeReady
         /\ Conclude(m, k).inFlight = m.inFlight
         /\ ~m.inFlight[k].live => Conclude(m, k) = m
<1> DEFINE op == m.inFlight[k]
           sub == <<k, op.change[1]>>
           dropped == DropActual(m, k)
<1>1. op \in Operations
  BY DEF Busy, Managers
<1>2. op.live \in BOOLEAN /\ op.kind \in {"start", "stop", "sync"}
  BY <1>1 DEF Operations
<1>3. op.kind = "sync" => sub \in Subscriptions
  BY <1>1 DEF Operations, Changes, Subscriptions
<1>4. CASE ~op.live
  BY <1>4 DEF Conclude
<1>d. dropped \in Managers /\ BeliefsOnly(m, dropped)
  BY DropActualTypes, DropActualKeeps
<1> HIDE DEF dropped
<1>5. CASE op.live /\ op.kind = "start"
  <2>1. CASE op.result = "ok"
    <3>1. Conclude(m, k) = [m EXCEPT !.actual[k] = "running"]
      BY <1>5, <2>1 DEF Conclude
    <3>2. QED
      BY <1>5, <3>1 DEF Managers, DriverStates
  <2>2. CASE op.result # "ok"
    <3>1. Conclude(m, k) = [dropped EXCEPT !.startErrors = @ \union {k}]
      BY <1>5, <2>2 DEF Conclude, dropped
    <3>2. [dropped EXCEPT !.startErrors = @ \union {k}] \in Managers
      BY <1>d DEF Managers
    <3>3. QED
      BY <1>5, <1>d, <3>1, <3>2 DEF BeliefsOnly, Managers
  <2>3. QED
    BY <2>1, <2>2
<1>6. CASE op.live /\ op.kind = "stop"
  <2>1. CASE op.result = "ok"
    <3>1. Conclude(m, k) = [dropped EXCEPT !.stopRetries[k] = "none"]
      BY <1>6, <2>1 DEF Conclude, dropped
    <3>2. [dropped EXCEPT !.stopRetries[k] = "none"] \in Managers
      BY <1>d DEF Managers
    <3>3. QED
      BY <1>6, <1>d, <3>1, <3>2 DEF BeliefsOnly, Managers
  <2>2. CASE op.result # "ok"
    <3>1. Conclude(m, k) =
            [m EXCEPT !.actual[k] = IF @ = "stopping" THEN "errored" ELSE @,
                      !.stopRetries[k] = "waiting"]
      BY <1>6, <2>2 DEF Conclude
    <3>2. /\ (IF m.actual[k] = "stopping" THEN "errored" ELSE m.actual[k])
               \in (DriverStates \ {"available"}) \union {"absent"}
          /\ m.actual \in [Keys -> (DriverStates \ {"available"}) \union {"absent"}]
          /\ m.stopRetries \in [Keys -> {"none", "waiting", "due"}]
      BY DEF Managers, DriverStates
    <3>3. [m EXCEPT !.actual[k] = IF @ = "stopping" THEN "errored" ELSE @,
                    !.stopRetries[k] = "waiting"] \in Managers
      BY <3>2 DEF Managers
    <3>4. QED
      BY <1>6, <3>1, <3>3 DEF Managers
  <2>3. QED
    BY <2>1, <2>2
<1>7. CASE op.live /\ op.kind = "sync"
  <2>1. Conclude(m, k) =
          IF op.result = "ok"
          THEN [m EXCEPT !.subscriptions = IF op.change[2] THEN @ \union {sub} ELSE @ \ {sub}]
          ELSE [m EXCEPT !.failedSubscriptions = @ \union {sub}]
    BY <1>7 DEF Conclude
  <2>2. QED
    BY <1>3, <1>7, <2>1 DEF Managers
<1>8. QED
  BY <1>2, <1>4, <1>5, <1>6, <1>7

\* An operation that ends, or goes on with its next change.
LEMMA ProceedTypes ==
  ASSUME NEW m \in Managers, NEW k \in Keys, Busy(m, k), NEW id \in Nat
  PROVE  /\ Proceed(m, k, id) \in Managers
         /\ Proceed(m, k, id).active = m.active
         /\ Proceed(m, k, id).bridgeReady = m.bridgeReady
         /\ ~m.bridgeReady /\ ~m.inFlight[k].live =>
              Proceed(m, k, id) = [m EXCEPT !.inFlight[k] = NoOperation]
<1> DEFINE op == m.inFlight[k]
           n == Conclude(m, k)
           over == [n EXCEPT !.inFlight[k] = NoOperation]
           next == [n EXCEPT !.inFlight[k] = Sync(m, op.todo, id)]
           goesOn == op.live /\ op.kind = "sync" /\ op.todo # {}
<1>1. op \in Operations /\ n \in Managers /\ n.active = m.active
      /\ n.bridgeReady = m.bridgeReady /\ (~op.live => n = m)
  BY ConcludeTypes DEF Busy, Managers
<1>2. Proceed(m, k, id) = IF goesOn THEN next ELSE Kick(over, id)
  BY DEF Proceed
<1> HIDE DEF n
<1>3. over \in Managers /\ over.active = m.active /\ over.bridgeReady = m.bridgeReady
  BY <1>1 DEF Managers
<1>4. ASSUME goesOn
      PROVE  next \in Managers /\ next.active = m.active /\ next.bridgeReady = m.bridgeReady
  <2>1. Sync(m, op.todo, id) \in Operations
    <3>1. op.todo \in SUBSET Changes
      BY <1>1, <1>4 DEF Operations
    <3>2. QED
      BY <1>4, <3>1, SyncTypes
  <2>2. QED
    BY <1>1, <2>1 DEF Managers
<1> HIDE DEF over, next
<1>5. Kick(over, id) \in Managers /\ Kick(over, id).active = m.active
      /\ Kick(over, id).bridgeReady = m.bridgeReady
      /\ (~m.bridgeReady => Kick(over, id) = over)
  BY <1>3, KickTypes, KickKeeps
<1>6. QED
  BY <1>1, <1>2, <1>4, <1>5 DEF over

LEMMA BridgeHandlersTypes ==
  ASSUME NEW m \in Managers
  PROVE  /\ BridgeGone(m) \in Managers
         /\ RejectPending(m) \in Managers
         /\ BridgeCame(m) \in Managers
         /\ BridgeGone(m).active = m.active
         /\ RejectPending(m).active = m.active /\ BridgeCame(m).active = m.active
<1>1. \A k \in Keys : Busy(m, k) =>
        /\ [m.inFlight[k] EXCEPT !.live = FALSE] \in Operations
        /\ [m.inFlight[k] EXCEPT !.result = "error"] \in Operations
  <2>1. \A op \in Operations : [op EXCEPT !.live = FALSE] \in Operations
    BY DEF Operations
  <2>2. \A op \in Operations : [op EXCEPT !.result = "error"] \in Operations
    BY DEF Operations, Outcomes
  <2>3. \A k \in Keys : Busy(m, k) => m.inFlight[k] \in Operations
    BY DEF Busy, Managers
  <2>4. QED
    BY <2>1, <2>2, <2>3
<1> DEFINE gone == [k \in Keys |-> IF Busy(m, k) THEN [m.inFlight[k] EXCEPT !.live = FALSE]
                                   ELSE NoOperation]
           rejected == [k \in Keys |-> IF Awaits(m, k)
                                       THEN [m.inFlight[k] EXCEPT !.result = "error"]
                                       ELSE m.inFlight[k]]
           noRetries == [k \in Keys |-> "none"]
           nothing == [k \in Keys |-> "absent"]
<1>2. /\ gone \in [Keys -> Operations \union {NoOperation}]
      /\ rejected \in [Keys -> Operations \union {NoOperation}]
      /\ noRetries \in [Keys -> {"none", "waiting", "due"}]
      /\ nothing \in [Keys -> (DriverStates \ {"available"}) \union {"absent"}]
  <2>1. rejected \in [Keys -> Operations \union {NoOperation}]
    BY <1>1 DEF Awaits, Managers
  <2>2. QED
    BY <1>1, <2>1
<1>3. /\ BridgeGone(m) = [m EXCEPT !.bridgeReady = FALSE, !.actual = nothing,
                                   !.subscriptions = {}, !.startErrors = {},
                                   !.failedSubscriptions = {}, !.stopRetries = noRetries,
                                   !.inFlight = gone]
      /\ RejectPending(m) = [m EXCEPT !.inFlight = rejected]
      /\ BridgeCame(m) = [m EXCEPT !.actual = nothing, !.subscriptions = {},
                                   !.bridgeReady = TRUE]
  BY DEF BridgeGone, RejectPending, BridgeCame, InitialManager
<1> HIDE DEF gone, rejected, noRetries, nothing
<1>4. [m EXCEPT !.bridgeReady = FALSE, !.actual = nothing, !.subscriptions = {}] \in Managers
  BY <1>2 DEF Managers
<1>5. \A n \in Managers :
        [n EXCEPT !.startErrors = {}, !.failedSubscriptions = {}, !.stopRetries = noRetries,
                  !.inFlight = gone] \in Managers
  BY <1>2 DEF Managers
<1>6. RejectPending(m) \in Managers /\ BridgeCame(m) \in Managers
  BY <1>2, <1>3 DEF Managers
<1>7. BridgeGone(m) \in Managers
  BY <1>3, <1>4, <1>5
<1>8. QED
  BY <1>3, <1>6, <1>7 DEF Managers

(***************************************************************************)
(* While the bridge is down the manager holds no outcome of a request to   *)
(* the old one, and no operation that could still leave one.  Every        *)
(* handler keeps that.                                                     *)
(***************************************************************************)
Quiet(m) ==
  ~m.bridgeReady =>
    /\ m.startErrors = {} /\ m.failedSubscriptions = {} /\ m.subscriptions = {}
    /\ \A k \in Keys : m.stopRetries[k] = "none"
    /\ \A k \in Keys : Busy(m, k) => ~m.inFlight[k].live

LEMMA KickQuiet ==
  ASSUME NEW m \in Managers, Quiet(m), NEW id \in Nat
  PROVE  Quiet(Kick(m, id))
<1>1. CASE m.bridgeReady
  BY <1>1, KickKeeps DEF Quiet
<1>2. CASE ~m.bridgeReady
  BY <1>2, KickKeeps
<1>3. QED
  BY <1>1, <1>2

LEMMA LeaseQuiet ==
  ASSUME NEW m \in Managers, Quiet(m), NEW n, LeasesOnly(m, n)
  PROVE  Quiet(n)
BY DEF Quiet, LeasesOnly, Busy

LEMMA BeliefsQuiet ==
  ASSUME NEW m \in Managers, Quiet(m), NEW n, BeliefsOnly(m, n)
  PROVE  Quiet(n)
BY DEF Quiet, BeliefsOnly, Busy

LEMMA ProceedQuiet ==
  ASSUME NEW m \in Managers, Quiet(m), NEW k \in Keys, Busy(m, k), NEW id \in Nat
  PROVE  Quiet(Proceed(m, k, id))
<1>1. CASE m.bridgeReady
  BY <1>1, ProceedTypes DEF Quiet
<1>2. CASE ~m.bridgeReady
  <2>1. Proceed(m, k, id) = [m EXCEPT !.inFlight[k] = NoOperation]
    BY <1>2, ProceedTypes DEF Quiet
  <2>2. QED
    BY <2>1 DEF Quiet, Busy, Managers
<1>3. QED
  BY <1>1, <1>2

LEMMA BridgeQuiet ==
  ASSUME NEW m \in Managers
  PROVE  /\ Quiet(BridgeGone(m))
         /\ Quiet(BridgeCame(m))
         /\ Quiet(m) => Quiet(RejectPending(m))
<1>1. Quiet(BridgeGone(m))
  <2>1. \A k \in Keys : Busy(m, k) => [m.inFlight[k] EXCEPT !.live = FALSE].live = FALSE
    BY DEF Busy, Managers, Operations
  <2>2. /\ BridgeGone(m).startErrors = {} /\ BridgeGone(m).failedSubscriptions = {}
        /\ BridgeGone(m).subscriptions = {}
        /\ \A k \in Keys : BridgeGone(m).stopRetries[k] = "none"
        /\ BridgeGone(m).inFlight =
             [k \in Keys |-> IF Busy(m, k) THEN [m.inFlight[k] EXCEPT !.live = FALSE]
                             ELSE NoOperation]
    BY DEF BridgeGone, InitialManager, Managers
  <2>3. QED
    BY <2>1, <2>2 DEF Quiet, Busy
<1>2. Quiet(BridgeCame(m))
  BY DEF Quiet, BridgeCame, Managers
<1>3. Quiet(m) => Quiet(RejectPending(m))
  <2>1. \A k \in Keys : Busy(m, k) =>
          [m.inFlight[k] EXCEPT !.result = "error"].live = m.inFlight[k].live
    BY DEF Busy, Managers, Operations
  <2>2. RejectPending(m) =
          [m EXCEPT !.inFlight = [k \in Keys |->
             IF Awaits(m, k) THEN [m.inFlight[k] EXCEPT !.result = "error"]
             ELSE m.inFlight[k]]]
    BY DEF RejectPending
  <2>3. QED
    BY <2>1, <2>2 DEF Quiet, Busy, Awaits, Managers
<1>4. QED
  BY <1>1, <1>2, <1>3

(***************************************************************************)
(* The requests a pass sends are a sequence of requests.                   *)
(***************************************************************************)

LEMMA RequestTypes ==
  ASSUME NEW m \in Managers, NEW k \in Keys, Busy(m, k)
  PROVE  RequestOf(k, m.inFlight[k]) \in BridgeRequests
<1> DEFINE op == m.inFlight[k]
<1>1. op \in Operations
  BY DEF Busy, Managers
<1>2. CASE op.kind = "start"
  BY <1>1, <1>2 DEF RequestOf, Operations, BridgeRequests, LifecycleRequests
<1>3. CASE op.kind = "stop"
  BY <1>1, <1>3 DEF RequestOf, Operations, BridgeRequests, LifecycleRequests
<1>4. CASE op.kind = "sync"
  <2>1. op.change \in Changes /\ op.id \in RequestIds
    BY <1>1, <1>4 DEF Operations
  <2>2. RequestOf(k, op) =
          [type |-> IF op.change[2] THEN "subscribe" ELSE "unsubscribe",
           key |-> k, id |-> op.id, event |-> op.change[1]]
    BY <1>4 DEF RequestOf
  <2>3. QED
    BY <2>1, <2>2 DEF Changes, BridgeRequests, SubscriptionRequests
<1>5. QED
  BY <1>1, <1>2, <1>3, <1>4 DEF Operations

LEMMA SetToSeqTypes ==
  ASSUME NEW S, IsFiniteSet(S)
  PROVE  SetToSeq(S) \in Seq(S)
<1>1. PICK f : f \in Bijection(1..Cardinality(S), S)
  BY FS_CardinalityType DEF ExistsBijection
<1>2. f \in [1..Cardinality(S) -> S] /\ IsInjective(f)
  BY <1>1 DEF Bijection, Injection, IsInjective
<1>3. SetToSeq(S) \in [1..Cardinality(S) -> S]
  BY <1>2 DEF SetToSeq
<1>4. QED
  BY <1>3, FS_CardinalityType

LEMMA NewRequestsTypes ==
  ASSUME NEW before, NEW after \in Managers
  PROVE  NewRequests(before, after) \in Seq(BridgeRequests)
<1> DEFINE senders == {k \in Keys : Sends(before, after, k)}
           requests == {RequestOf(k, after.inFlight[k]) : k \in senders}
<1>1. IsFiniteSet(senders)
  BY KeysAssumption, FS_Subset
<1>2. IsFiniteSet(requests)
  <2> DEFINE f == [k \in senders |-> RequestOf(k, after.inFlight[k])]
  <2>1. f \in Surjection(senders, requests)
    BY DEF Surjection
  <2> HIDE DEF f, senders, requests
  <2>2. QED
    BY <1>1, <2>1, FS_Surjection
<1>3. requests \subseteq BridgeRequests
  BY RequestTypes DEF Sends, Awaits
<1>4. SetToSeq(requests) \in Seq(requests)
  BY <1>2, SetToSeqTypes
<1>5. Seq(requests) \subseteq Seq(BridgeRequests)
  BY <1>3
<1>6. QED
  BY <1>4, <1>5 DEF NewRequests

-----------------------------------------------------------------------------
(* The system. *)

\* What a step of Node does to the manager's fields and the bridge's pipes.
Good == mgr' \in Managers /\ [PyNext]_pyVars

LEMMA UpdateActs ==
  ASSUME TypeOK, NEW m \in Managers, Update(m),
         stdout' \in {stdout, IF stdout = <<>> THEN stdout ELSE Tail(stdout)},
         UNCHANGED <<alive, instances, external, queue, task, unposted>>
  PROVE  Good /\ mgr' = m
<1> DEFINE t == NewRequests(mgr, m)
<1>1. stdin \in Seq(BridgeRequests) /\ alive \in BOOLEAN
  BY DEF TypeOK, PyTypeOK
<1>2. t \in Seq(BridgeRequests)
  BY NewRequestsTypes
<1>3. mgr' = m /\ stdin' = IF alive THEN stdin \o t ELSE stdin
  BY DEF Update
<1> HIDE DEF t
<1>4. /\ stdin \o t \in Seq(BridgeRequests)
      /\ Len(stdin \o t) = Len(stdin) + Len(t)
      /\ \A i \in 1..Len(stdin) : (stdin \o t)[i] = stdin[i]
  BY <1>1, <1>2, ConcatProperties
<1>5. /\ Len(stdin) <= Len(stdin \o t)
      /\ SubSeq(stdin \o t, 1, Len(stdin)) = stdin
      /\ SubSeq(stdin, 1, Len(stdin)) = stdin
  BY <1>1, <1>2, <1>4
<1>6. NodeActs
  <2>1. /\ stdin' \in Seq(BridgeRequests)
        /\ alive \/ stdin' = stdin
        /\ Len(stdin) <= Len(stdin') /\ SubSeq(stdin', 1, Len(stdin)) = stdin
    <3>1. CASE alive
      BY <1>3, <1>4, <1>5, <3>1
    <3>2. CASE ~alive
      <4>1. stdin' = stdin /\ Len(stdin) \in Nat
        BY <1>1, <1>3, <3>2
      <4>2. QED
        BY <1>1, <1>5, <4>1
    <3>3. QED
      BY <3>1, <3>2
  <2>2. QED
    BY <2>1 DEF NodeActs
<1>7. QED
  BY <1>3, <1>6 DEF Good, PyNext

\* Another pass on a typed manager.
LEMMA ReconcileActs ==
  ASSUME TypeOK, NEW m \in Managers, Reconcile(m),
         stdout' \in {stdout, IF stdout = <<>> THEN stdout ELSE Tail(stdout)},
         UNCHANGED <<alive, instances, external, queue, task, unposted>>
  PROVE  Good /\ mgr' = Kick(m, NextId)
<1>1. NextId \in Nat
  BY BoundsAssumption DEF NextId, TypeOK
<1>2. Kick(m, NextId) \in Managers
  BY <1>1, KickTypes
<1>3. QED
  BY <1>2, UpdateActs DEF Reconcile

\* A step that writes nothing.
LEMMA SilentActs ==
  ASSUME mgr' \in Managers, UNCHANGED pyVars
  PROVE  Good
BY DEF Good

-----------------------------------------------------------------------------
(* The manager after each action, up to the pass that ends it. *)

LEMMA SubscribeActs ==
  ASSUME TypeOK, NEW c \in Calls, Subscribe(c)
  PROVE  /\ Good
         /\ \/ mgr' = Kick(TakeLease(mgr, c), NextId)
            \/ mgr' = mgr
<1>1. mgr \in Managers
  BY DEF TypeOK
<1>2. CASE mgr.bridgeReady
  BY <1>1, <1>2, TakeLeaseTypes, ReconcileActs DEF Subscribe, UNCHANGED_PY
<1>3. CASE ~mgr.bridgeReady
  BY <1>1, <1>3, SilentActs DEF Subscribe, UNCHANGED_PY, pyVars
<1>4. QED
  BY <1>2, <1>3

LEMMA UnsubscribeActs ==
  ASSUME TypeOK, NEW client \in Clients, NEW sub \in Subscriptions, Unsubscribe(client, sub)
  PROVE  Good /\ \E gone : mgr' = Kick(Release(mgr, gone), NextId)
<1>1. mgr \in Managers
  BY DEF TypeOK
<1>2. PICK newest : Reconcile(Release(mgr, {newest}))
  BY DEF Unsubscribe
<1>3. QED
  BY <1>1, <1>2, ReleaseTypes, ReconcileActs DEF Unsubscribe, UNCHANGED_PY

LEMMA DisconnectActs ==
  ASSUME TypeOK, NEW client \in Clients, Disconnect(client)
  PROVE  Good /\ (mgr' = mgr \/ \E gone : mgr' = Kick(Release(mgr, gone), NextId))
<1> DEFINE owned == {c \in mgr.leases : CallClient[c] = client}
<1>1. mgr \in Managers
  BY DEF TypeOK
<1>2. CASE owned = {}
  BY <1>1, <1>2, SilentActs DEF Disconnect, UNCHANGED_PY, pyVars
<1>3. CASE owned # {}
  <2>1. Reconcile(Release(mgr, owned))
    BY <1>3 DEF Disconnect
  <2>2. QED
    BY <1>1, <2>1, ReleaseTypes, ReconcileActs DEF Disconnect, UNCHANGED_PY
<1>4. QED
  BY <1>2, <1>3

LEMMA WakeActs ==
  ASSUME TypeOK, NEW c \in Calls, Wake(c)
  PROVE  /\ Good
         /\ mgr' = Kick(TakeLease(mgr, c), NextId) \/ mgr' = Kick(mgr, NextId)
<1>1. mgr \in Managers
  BY DEF TypeOK
<1>2. QED
  BY <1>1, TakeLeaseTypes, ReconcileActs DEF Wake, UNCHANGED_PY

LEMMA WaitTimesOutActs ==
  ASSUME TypeOK, NEW c \in Calls, WaitTimesOut(c)
  PROVE  Good /\ mgr' = DropLeases(mgr, {c})
<1>1. mgr \in Managers
  BY DEF TypeOK
<1>2. QED
  BY <1>1, DropLeasesTypes, SilentActs DEF WaitTimesOut, UNCHANGED_PY, pyVars

LEMMA SettleActs ==
  ASSUME TypeOK, NEW c \in Calls, Settle(c)
  PROVE  /\ Good
         /\ \/ mgr' = mgr
            \/ mgr' = Kick(DropLeases(mgr, {c}), NextId)
            \/ mgr' = DropLeases(mgr, {c})
<1>1. mgr \in Managers /\ DropLeases(mgr, {c}) \in Managers
  BY DropLeasesTypes DEF TypeOK
<1>2. CASE Reconcile(DropLeases(mgr, {c}))
  BY <1>1, <1>2, ReconcileActs DEF Settle, UNCHANGED_PY
<1>3. CASE mgr' \in {mgr, DropLeases(mgr, {c})} /\ UNCHANGED stdin
  BY <1>1, <1>3, SilentActs DEF Settle, UNCHANGED_PY, pyVars
<1>4. QED
  BY <1>2, <1>3 DEF Settle

\* The manager with the reply to k's request noted.
Noted(k, result) == [mgr EXCEPT !.inFlight[k].result = result]

LEMMA NotedTypes ==
  ASSUME mgr \in Managers, NEW k \in Keys, Busy(mgr, k), NEW result \in {"ok", "error"}
  PROVE  /\ Noted(k, result) \in Managers
         /\ Noted(k, result).active = mgr.active
         /\ Noted(k, result).bridgeReady = mgr.bridgeReady
         /\ Quiet(mgr) => Quiet(Noted(k, result))
<1> DEFINE op == [mgr.inFlight[k] EXCEPT !.result = result]
<1>1. mgr.inFlight[k] \in Operations
  BY DEF Busy, Managers
<1>2. op \in Operations /\ op.live = mgr.inFlight[k].live
  BY <1>1 DEF Operations, Outcomes
<1>3. Noted(k, result) = [mgr EXCEPT !.inFlight[k] = op]
  BY DEF Noted
<1> HIDE DEF op
<1>4. QED
  BY <1>2, <1>3 DEF Managers, Quiet, Busy

\* HandleLine takes one line: a result is noted, or dropped when nobody awaits
\* it any more; a report takes effect.
LEMMA HandleLineActs ==
  ASSUME TypeOK, HandleLine
  PROVE  /\ Good
         /\ \/ mgr' = mgr
            \/ \E k \in Keys, result \in {"ok", "error"} :
                 Busy(mgr, k) /\ mgr' = Noted(k, result)
            \/ \E k \in Keys, state \in DriverStates :
                 \/ mgr' = ReportState(mgr, k, state)
                 \/ mgr' = Kick(ReportState(mgr, k, state), NextId)
<1> DEFINE line == Head(stdout)
<1>1. mgr \in Managers /\ line \in BridgeResponses /\ stdout # <<>>
  BY HeadTailProperties DEF TypeOK, PyTypeOK, HandleLine
<1>2. /\ stdout' = Tail(stdout)
      /\ UNCHANGED <<alive, instances, external, queue, task, unposted>>
  BY DEF HandleLine
<1>3. CASE line.type = "result" /\ UNCHANGED stdin
  <2>1. line.key \in Keys
    BY <1>1, <1>3 DEF BridgeResponses, Results, StateReports
  <2>2. \/ mgr' = mgr
        \/ \E result \in {"ok", "error"} :
             Busy(mgr, line.key) /\ mgr' = Noted(line.key, result)
    BY <1>3 DEF HandleLine, Answers, Awaits, Noted
  <2>3. mgr' \in Managers
    BY <1>1, <2>1, <2>2, NotedTypes
  <2>4. NodeActs
    <3>1. Len(stdin) \in Nat /\ SubSeq(stdin, 1, Len(stdin)) = stdin
          /\ stdin \in Seq(BridgeRequests)
      BY DEF TypeOK, PyTypeOK
    <3>2. QED
      BY <1>1, <1>2, <1>3, <3>1 DEF NodeActs
  <2>5. QED
    BY <2>1, <2>2, <2>3, <2>4 DEF Good, PyNext
<1>4. CASE line.type = "driver-state" /\
           LET m == ReportState(mgr, line.key, line.state)
           IN  Reconcile(m) \/ Update(m)
  <2>1. line.key \in Keys /\ line.state \in DriverStates
    BY <1>1, <1>4 DEF BridgeResponses, Results, StateReports
  <2> DEFINE m == ReportState(mgr, line.key, line.state)
  <2>2. m \in Managers
    BY <1>1, <2>1, ReportStateTypes
  <2>3. CASE Reconcile(m)
    BY <1>1, <1>2, <2>1, <2>2, <2>3, ReconcileActs
  <2>4. CASE Update(m)
    BY <1>1, <1>2, <2>1, <2>2, <2>4, UpdateActs
  <2>5. QED
    BY <1>4, <2>3, <2>4
<1>5. QED
  BY <1>3, <1>4 DEF HandleLine

LEMMA ResumeActs ==
  ASSUME TypeOK, NEW k \in Keys, Resume(k)
  PROVE  Good /\ Busy(mgr, k) /\ mgr' = Proceed(mgr, k, NextId)
<1>1. mgr \in Managers /\ Busy(mgr, k) /\ NextId \in Nat
  BY BoundsAssumption DEF TypeOK, Resume, Settled, NextId
<1>2. Proceed(mgr, k, NextId) \in Managers
  BY <1>1, ProceedTypes
<1>3. QED
  BY <1>1, <1>2, UpdateActs DEF Resume, UNCHANGED_PY

LEMMA RequestTimesOutActs ==
  ASSUME TypeOK, NEW k \in Keys, RequestTimesOut(k)
  PROVE  Good /\ Busy(mgr, k) /\ mgr' = Noted(k, "error")
<1>1. mgr \in Managers /\ Busy(mgr, k) /\ mgr' = Noted(k, "error")
  BY DEF TypeOK, RequestTimesOut, Awaits, Noted
<1>2. QED
  BY <1>1, NotedTypes, SilentActs DEF RequestTimesOut, UNCHANGED_PY, pyVars

LEMMA StopRetryActs ==
  ASSUME TypeOK, NEW k \in Keys, StopRetryFires(k)
  PROVE  /\ Good
         /\ mgr.stopRetries[k] = "waiting"
         /\ mgr' = Kick([mgr EXCEPT !.stopRetries[k] = "due"], NextId)
<1>1. [mgr EXCEPT !.stopRetries[k] = "due"] \in Managers
  BY DEF TypeOK, Managers
<1>2. QED
  BY <1>1, ReconcileActs DEF StopRetryFires, UNCHANGED_PY

LEMMA BridgeReadyActs ==
  ASSUME TypeOK, BridgeReady
  PROVE  Good /\ mgr' = Kick(BridgeCame(mgr), NextId)
<1>0. mgr \in Managers
  BY DEF TypeOK
<1>1. BridgeCame(mgr) \in Managers
  BY <1>0, BridgeHandlersTypes
<1>2. QED
  BY <1>1, ReconcileActs DEF BridgeReady, UNCHANGED_PY

LEMMA HandleExitActs ==
  ASSUME TypeOK, HandleExit
  PROVE  /\ Good
         /\ mgr' = BridgeGone(RejectPending(mgr)) \/ mgr' = RejectPending(mgr)
<1>0. mgr \in Managers
  BY DEF TypeOK
<1>1. RejectPending(mgr) \in Managers /\ BridgeGone(RejectPending(mgr)) \in Managers
  BY <1>0, BridgeHandlersTypes
<1>2. QED
  BY <1>1, SilentActs DEF HandleExit

LEMMA GivesUpActs ==
  ASSUME TypeOK, BridgeGivenUp \/ ManagerStopped
  PROVE  Good /\ mgr' = BridgeGone(mgr)
<1>0. mgr \in Managers
  BY DEF TypeOK
<1>1. BridgeGone(mgr) \in Managers
  BY <1>0, BridgeHandlersTypes
<1>2. QED
  BY <1>1, SilentActs DEF BridgeGivenUp, ManagerStopped

LEMMA StopManagerActs ==
  ASSUME TypeOK, StopManager
  PROVE  /\ Good
         /\ \E gone : mgr' = [DropLeases(mgr, gone) EXCEPT !.active = FALSE]
<1>1. PICK gone : mgr' = [DropLeases(mgr, gone) EXCEPT !.active = FALSE]
  BY DEF StopManager
<1>2. DropLeases(mgr, gone) \in Managers
  BY DropLeasesTypes DEF TypeOK
<1>3. mgr' \in Managers
  BY <1>1, <1>2 DEF Managers
<1>4. QED
  BY <1>1, <1>3, SilentActs DEF StopManager

\* The steps that are Python's, or the process's.
PythonActs ==
  \/ PythonStep \/ ProcessExits \/ StartBridge
  \/ \E k \in Keys, state \in {"running", "errored"} : DriverReports(k, state)

LEMMA PythonActsTypes ==
  ASSUME TypeOK, PythonActs
  PROVE  Good /\ mgr' = mgr
<1>1. mgr' = mgr /\ mgr \in Managers
  BY DEF TypeOK, PythonActs, PythonStep, ProcessExits, StartBridge, DriverReports, nodeVars
<1>2. PyNext
  BY DEF PythonActs, PythonStep, ProcessExits, StartBridge, DriverReports, PyNext
<1>3. QED
  BY <1>1, <1>2 DEF Good

-----------------------------------------------------------------------------
(* Types, and the bridge. *)

LEMMA EveryStepIsGood ==
  ASSUME TypeOK, [Next]_vars
  PROVE  Good
<1>1. CASE UNCHANGED vars
  BY <1>1, SilentActs DEF vars, nodeVars, TypeOK
<1>2. CASE PythonStep
  BY <1>2, PythonActsTypes DEF PythonActs
<1>3. CASE NodeStep
  BY <1>3, HandleLineActs, ResumeActs, StopRetryActs, WakeActs, SettleActs, BridgeReadyActs,
     HandleExitActs, GivesUpActs, PythonActsTypes DEF NodeStep, PythonActs
<1>4. CASE ClientStep
  BY <1>4, SubscribeActs, UnsubscribeActs, DisconnectActs DEF ClientStep
<1>5. CASE Mishap
  BY <1>5, WaitTimesOutActs, RequestTimesOutActs, GivesUpActs, StopManagerActs, PythonActsTypes
  DEF Mishap, PythonActs
<1>6. QED
  BY <1>1, <1>2, <1>3, <1>4, <1>5 DEF Next

LEMMA CallStateTypes ==
  ASSUME TypeOK, [Next]_vars
  PROVE  call' \in [Calls -> CallStates] /\ connected' \subseteq Clients
<1>1. CASE \E c \in Calls : Subscribe(c) \/ Wake(c) \/ WaitTimesOut(c) \/ Settle(c)
  BY <1>1 DEF TypeOK, CallStates, Subscribe, Wake, WaitTimesOut, Settle
<1>2. CASE \E client \in Clients : Disconnect(client)
  BY <1>2 DEF TypeOK, Disconnect
<1>3. CASE BridgeReady \/ StopManager
  BY <1>3 DEF TypeOK, CallStates, BridgeReady, StopManager
<1>4. CASE UNCHANGED <<call, connected>>
  BY <1>4 DEF TypeOK
<1>5. QED
  BY <1>1, <1>2, <1>3, <1>4
  DEF Next, vars, nodeVars, PythonStep, NodeStep, ClientStep, Mishap, Unsubscribe, HandleLine,
      Resume, RequestTimesOut, StopRetryFires, StartBridge, ProcessExits, HandleExit,
      BridgeGivenUp, ManagerStopped, DriverReports

LEMMA CounterTypes ==
  ASSUME TypeOK, [Next]_vars
  PROVE  /\ bridge' \in BridgeStates
         /\ chunk' \in BOOLEAN
         /\ outages' \in 0..MaxOutages
         /\ timeouts' \in 0..MaxTimeouts
         /\ published' \in 0..MaxPublished
<1> USE BoundsAssumption DEF TypeOK
<1>1. CASE \/ PythonStep \/ ClientStep \/ UNCHANGED vars
           \/ \E c \in Calls : Wake(c) \/ Settle(c) \/ WaitTimesOut(c)
           \/ \E k \in Keys : Resume(k) \/ StopRetryFires(k)
  <2>1. UNCHANGED <<bridge, chunk, counters>>
    BY <1>1 DEF PythonStep, ClientStep, vars, nodeVars, Subscribe, Unsubscribe, Disconnect,
                Wake, Settle, WaitTimesOut, Resume, StopRetryFires
  <2>2. QED
    BY <2>1 DEF counters
<1>2. CASE HandleLine
  BY <1>2 DEF HandleLine, counters
<1>3. CASE StartBridge \/ BridgeReady \/ HandleExit \/ ManagerStopped \/ StopManager
  BY <1>3 DEF StartBridge, BridgeReady, HandleExit, ManagerStopped, StopManager,
              BridgeStates, counters
<1>4. CASE \/ \E k \in Keys : RequestTimesOut(k)
           \/ \E k \in Keys, state \in {"running", "errored"} : DriverReports(k, state)
  BY <1>4 DEF RequestTimesOut, DriverReports, nodeVars
<1>5. CASE ProcessExits \/ BridgeGivenUp
  BY <1>5 DEF ProcessExits, BridgeGivenUp, BridgeStates, nodeVars
<1>6. QED
  BY <1>1, <1>2, <1>3, <1>4, <1>5 DEF Next, NodeStep, Mishap

LEMMA InitialState == Init => TypeOK /\ PyInit
<1> SUFFICES ASSUME Init PROVE TypeOK /\ PyInit
  OBVIOUS
<1>1. PyInit /\ PyTypeOK
  BY InitTypes DEF Init
<1>2. mgr \in Managers
  BY InitialTypes DEF Init
<1>3. call \in [Calls -> CallStates]
  BY DEF Init, CallStates
<1>4. connected \subseteq Clients /\ bridge \in BridgeStates /\ chunk \in BOOLEAN
  BY DEF Init, BridgeStates
<1>5. 0 \in 0..MaxOutages /\ 0 \in 0..MaxTimeouts /\ 0 \in 0..MaxPublished
  BY BoundsAssumption
<1>6. outages \in 0..MaxOutages /\ timeouts \in 0..MaxTimeouts /\ published \in 0..MaxPublished
  BY <1>5 DEF Init
<1>7. QED
  BY <1>1, <1>2, <1>3, <1>4, <1>6 DEF TypeOK

LEMMA StepKeepsTypes == TypeOK /\ [Next]_vars => TypeOK'
<1> SUFFICES ASSUME TypeOK, [Next]_vars PROVE TypeOK'
  OBVIOUS
<1>1. PyTypeOK'
  BY EveryStepIsGood, StepTypes DEF TypeOK, Good
<1>2. QED
  BY <1>1, EveryStepIsGood, CallStateTypes, CounterTypes DEF TypeOK, Good

\* The state of the whole system keeps its type.
THEOREM SystemTypes == Spec => []TypeOK
BY InitialState, StepKeepsTypes, PTL DEF Spec

\* The system drives the bridge only as PythonBridge's environment may: the
\* manager appends well-formed requests to a live process's stdin and takes one
\* line of stdout at a time.
THEOREM DrivesTheBridge == Spec => PySpec
<1>1. TypeOK /\ [Next]_vars => [PyNext]_pyVars
  BY EveryStepIsGood DEF Good
<1>2. QED
  BY InitialState, StepKeepsTypes, <1>1, PTL DEF Spec, PySpec

\* In the whole system too, an instance is starting or stopping exactly while
\* its worker runs the request that put it there (bridge.py:512).
THEOREM TransitionsAreOwnedInTheSystem == Spec => []WorkerOwnsTransitions
BY DrivesTheBridge, TransitionsAreOwned, PTL

-----------------------------------------------------------------------------
(* Shutdown: nobody is left waiting.                                         *)

\* Only `stop` deactivates the manager, and only the handlers of the bridge's
\* life change whether it takes the bridge for usable.
Keeps(n) == n.active = mgr.active /\ n.bridgeReady = mgr.bridgeReady
BridgeEvent == BridgeReady \/ HandleExit \/ ManagerStopped \/ BridgeGivenUp

LEMMA ActiveOrStopping ==
  ASSUME TypeOK, [Next]_vars
  PROVE  /\ mgr'.active = mgr.active \/ StopManager
         /\ mgr'.bridgeReady = mgr.bridgeReady \/ BridgeEvent
<1>0. mgr \in Managers /\ NextId \in Nat
  BY BoundsAssumption DEF TypeOK, NextId
<1>1. \A n \in Managers : Kick(n, NextId).active = n.active
                          /\ Kick(n, NextId).bridgeReady = n.bridgeReady
  BY <1>0, KickKeeps
<1>2. \A c \in Calls : TakeLease(mgr, c) \in Managers /\ Keeps(TakeLease(mgr, c))
  BY <1>0, TakeLeaseTypes, LeaseKeeps DEF LeasesOnly, Keeps
<1>3. \A gone : /\ DropLeases(mgr, gone) \in Managers /\ Keeps(DropLeases(mgr, gone))
                /\ Release(mgr, gone) \in Managers /\ Keeps(Release(mgr, gone))
  BY <1>0, DropLeasesTypes, ReleaseTypes, LeaseKeeps DEF LeasesOnly, Keeps
<1>4. \A k \in Keys, state \in DriverStates :
        ReportState(mgr, k, state) \in Managers /\ Keeps(ReportState(mgr, k, state))
  BY <1>0, ReportStateTypes, ReportKeeps DEF BeliefsOnly, Keeps
<1>5. CASE \/ UNCHANGED vars \/ PythonStep \/ ProcessExits \/ StartBridge
           \/ \E k \in Keys, state \in {"running", "errored"} : DriverReports(k, state)
  BY <1>5, PythonActsTypes DEF PythonActs, vars, nodeVars
<1>6. CASE ClientStep
  BY <1>0, <1>1, <1>2, <1>3, <1>6, SubscribeActs, UnsubscribeActs, DisconnectActs
  DEF ClientStep, Keeps
<1>7. CASE HandleLine \/ \E k \in Keys : Resume(k) \/ StopRetryFires(k) \/ RequestTimesOut(k)
  <2>1. CASE HandleLine
    BY <1>0, <1>1, <1>4, <2>1, HandleLineActs, NotedTypes DEF Keeps
  <2>2. ASSUME NEW k \in Keys, Resume(k)
        PROVE  Keeps(mgr')
    BY <1>0, <2>2, ResumeActs, ProceedTypes DEF Keeps
  <2>3. ASSUME NEW k \in Keys, StopRetryFires(k)
        PROVE  Keeps(mgr')
    <3>1. [mgr EXCEPT !.stopRetries[k] = "due"] \in Managers
          /\ Keeps([mgr EXCEPT !.stopRetries[k] = "due"])
      BY <1>0 DEF Managers, Keeps
    <3>2. QED
      BY <1>1, <2>3, <3>1, StopRetryActs DEF Keeps
  <2>4. ASSUME NEW k \in Keys, RequestTimesOut(k)
        PROVE  Keeps(mgr')
    BY <1>0, <2>4, RequestTimesOutActs, NotedTypes DEF Keeps
  <2>5. QED
    BY <1>7, <2>1, <2>2, <2>3, <2>4 DEF Keeps
<1>8. CASE \E c \in Calls : Wake(c) \/ Settle(c) \/ WaitTimesOut(c)
  <2>1. ASSUME NEW c \in Calls, Wake(c)
        PROVE  Keeps(mgr')
    BY <1>0, <1>1, <1>2, <2>1, WakeActs DEF Keeps
  <2>2. ASSUME NEW c \in Calls, Settle(c)
        PROVE  Keeps(mgr')
    BY <1>0, <1>1, <1>3, <2>2, SettleActs DEF Keeps
  <2>3. ASSUME NEW c \in Calls, WaitTimesOut(c)
        PROVE  Keeps(mgr')
    <3>1. mgr' = DropLeases(mgr, {c})
      BY <2>3, WaitTimesOutActs
    <3>2. Keeps(DropLeases(mgr, {c}))
      BY <1>3
    <3>3. QED
      BY <3>1, <3>2
  <2>4. QED
    BY <1>8, <2>1, <2>2, <2>3 DEF Keeps
<1>9. CASE BridgeEvent
  BY <1>0, <1>1, <1>9, BridgeHandlersTypes, BridgeReadyActs, HandleExitActs, GivesUpActs
  DEF BridgeEvent
<1>10. CASE StopManager
  <2>1. PICK gone : mgr' = [DropLeases(mgr, gone) EXCEPT !.active = FALSE]
    BY <1>10, StopManagerActs
  <2>2. QED
    BY <1>3, <1>10, <2>1 DEF Keeps, Managers
<1>11. QED
  BY <1>5, <1>6, <1>7, <1>8, <1>9, <1>10 DEF Next, NodeStep, Mishap, BridgeEvent

LEMMA StepLeavesNobodyWaiting ==
  TypeOK /\ NobodyWaitsOnAStoppedManager /\ [Next]_vars => NobodyWaitsOnAStoppedManager'
<1> SUFFICES ASSUME TypeOK, NobodyWaitsOnAStoppedManager, [Next]_vars,
                    ~mgr'.active, NEW c \in Calls
             PROVE  call'[c] \notin {"waiting", "rewaiting"}
  BY DEF NobodyWaitsOnAStoppedManager
<1>1. CASE StopManager
  BY <1>1 DEF StopManager, TypeOK
<1>2. CASE ~StopManager
  <2>1. ~mgr.active
    BY <1>2, ActiveOrStopping
  <2>2. call[c] \notin {"waiting", "rewaiting"}
    BY <2>1 DEF NobodyWaitsOnAStoppedManager
  <2>3. CASE call' = call
    BY <2>2, <2>3
  <2>4. CASE \E d \in Calls : Subscribe(d) /\ ~mgr.bridgeReady
    BY <2>1, <2>4 DEF Subscribe
  <2>5. CASE \E d \in Calls : \E state \in CallStates \ {"waiting", "rewaiting"} :
               call' = [call EXCEPT ![d] = state]
    BY <2>2, <2>5 DEF TypeOK
  <2>6. CASE BridgeReady
    BY <2>2, <2>6 DEF BridgeReady
  <2>7. CASE \E d \in Calls : Settle(d)
    BY <2>1, <2>2, <2>7 DEF Settle, TypeOK
  <2>8. QED
    BY <1>2, <2>3, <2>4, <2>5, <2>6, <2>7
    DEF Next, vars, nodeVars, PythonStep, NodeStep, ClientStep, Mishap, Subscribe, Unsubscribe,
        Disconnect, Wake, WaitTimesOut, HandleLine, Resume, RequestTimesOut, StopRetryFires,
        StartBridge, ProcessExits, HandleExit, BridgeGivenUp, ManagerStopped, DriverReports,
        CallStates
<1>3. QED
  BY <1>1, <1>2

\* However a stop interleaves with calls, replies and a dying bridge, no
\* `subscribe` waits for a bridge that a stopped manager never starts
\* (manager.ts:256-261, 476-499).
THEOREM NobodyWaits == Spec => []NobodyWaitsOnAStoppedManager
<1>1. Init => NobodyWaitsOnAStoppedManager
  BY DEF Init, NobodyWaitsOnAStoppedManager, InitialManager
<1>2. QED
  BY <1>1, InitialState, StepKeepsTypes, StepLeavesNobodyWaiting, PTL DEF Spec

-----------------------------------------------------------------------------
(* Generations: nothing of the old bridge outlives it.                       *)

LEMMA StepStaysQuiet == TypeOK /\ Quiet(mgr) /\ [Next]_vars => Quiet(mgr)'
<1> SUFFICES ASSUME TypeOK, Quiet(mgr), [Next]_vars PROVE Quiet(mgr')
  BY DEF Quiet, Busy
<1>0. mgr \in Managers /\ NextId \in Nat
  BY BoundsAssumption DEF TypeOK, NextId
<1>1. \A n \in Managers : Quiet(n) => Quiet(Kick(n, NextId))
  BY <1>0, KickQuiet
<1>2. \A c \in Calls : TakeLease(mgr, c) \in Managers /\ Quiet(TakeLease(mgr, c))
  BY <1>0, TakeLeaseTypes, LeaseKeeps, LeaseQuiet
<1>3. \A gone : /\ DropLeases(mgr, gone) \in Managers /\ Quiet(DropLeases(mgr, gone))
                /\ Release(mgr, gone) \in Managers /\ Quiet(Release(mgr, gone))
  BY <1>0, DropLeasesTypes, ReleaseTypes, LeaseKeeps, LeaseQuiet
<1>4. \A k \in Keys, state \in DriverStates :
        ReportState(mgr, k, state) \in Managers /\ Quiet(ReportState(mgr, k, state))
  BY <1>0, ReportStateTypes, ReportKeeps, BeliefsQuiet
<1>5. CASE mgr' = mgr
  BY <1>5
<1>6. CASE ClientStep
  BY <1>0, <1>1, <1>2, <1>3, <1>6, SubscribeActs, UnsubscribeActs, DisconnectActs DEF ClientStep
<1>7. CASE HandleLine
  BY <1>0, <1>1, <1>4, <1>7, HandleLineActs, NotedTypes
<1>8. ASSUME NEW k \in Keys, Resume(k)
      PROVE  Quiet(mgr')
  BY <1>0, <1>8, ResumeActs, ProceedQuiet
<1>9. ASSUME NEW k \in Keys, StopRetryFires(k)
      PROVE  Quiet(mgr')
  <2>1. [mgr EXCEPT !.stopRetries[k] = "due"] \in Managers
        /\ [mgr EXCEPT !.stopRetries[k] = "due"].bridgeReady = mgr.bridgeReady
    BY <1>0 DEF Managers
  <2>2. mgr.stopRetries[k] = "waiting"
    BY <1>9, StopRetryActs
  <2>3. mgr.bridgeReady
    BY <2>2 DEF Quiet
  <2>4. Quiet([mgr EXCEPT !.stopRetries[k] = "due"])
    BY <2>1, <2>3 DEF Quiet
  <2>5. QED
    BY <1>1, <1>9, <2>1, <2>4, StopRetryActs
<1>10. ASSUME NEW k \in Keys, RequestTimesOut(k)
       PROVE  Quiet(mgr')
  BY <1>0, <1>10, RequestTimesOutActs, NotedTypes
<1>11. CASE \E c \in Calls : Wake(c) \/ Settle(c) \/ WaitTimesOut(c)
  BY <1>0, <1>1, <1>2, <1>3, <1>11, WakeActs, SettleActs, WaitTimesOutActs
<1>12. CASE BridgeReady \/ HandleExit \/ ManagerStopped \/ BridgeGivenUp
  BY <1>0, <1>1, <1>12, BridgeHandlersTypes, BridgeQuiet, BridgeReadyActs, HandleExitActs,
     GivesUpActs
<1>13. CASE StopManager
  <2>1. PICK gone : mgr' = [DropLeases(mgr, gone) EXCEPT !.active = FALSE]
    BY <1>13, StopManagerActs
  <2>2. QED
    BY <1>3, <2>1 DEF Quiet, Busy, Managers
<1>14. CASE PythonActs
  BY <1>14, PythonActsTypes
<1>15. QED
  BY <1>5, <1>6, <1>7, <1>8, <1>9, <1>10, <1>11, <1>12, <1>13, <1>14
  DEF Next, NodeStep, Mishap, PythonActs, vars, nodeVars

\* Requests to a bridge that is gone leave no outcome behind, in whatever order
\* the exit, the failed ping, the rejections and the continuations come: the
\* generation check of every operation (manager.ts:548-558, 689-742) and the
\* timers' reset are enough.
THEOREM NoGhosts == Spec => []NoGhostOutcomes
<1>1. Init => Quiet(mgr)
  BY DEF Init, InitialManager, Quiet, Busy
<1>2. Quiet(mgr) => NoGhostOutcomes
  BY DEF Quiet, NoGhostOutcomes
<1>3. QED
  BY <1>1, <1>2, InitialState, StepKeepsTypes, StepStaysQuiet, PTL DEF Spec

-----------------------------------------------------------------------------
(* The bridge lives as BridgeLifecycle allows.                               *)

\* A bridge that was given up is not taken for usable, and only `stop` leads
\* into the states of a stop.
Lives ==
  /\ bridge = "unresponsive" => ~mgr.bridgeReady
  /\ mgr.active => bridge \in {"down", "starting", "up", "unresponsive"}

LEMMA BridgeKept ==
  ASSUME [Next]_vars
  PROVE  \/ UNCHANGED <<bridge, alive>>
         \/ BridgeEvent \/ StopManager \/ StartBridge \/ ProcessExits
<1>1. CASE PythonStep
  BY <1>1 DEF PythonStep, nodeVars, BridgeStep, ReadSubscribe, ReadLifecycle, PublishedPosted,
              WorkerStep, Takes, StartBegins, StartRepeated, StartRefused, StartSucceeds,
              StartReported, StartFails, StopAbsent, StopBegins, StopSucceeds, StopTimesOut
<1>2. CASE ClientStep
  BY <1>2 DEF ClientStep, Subscribe, Unsubscribe, Disconnect, UNCHANGED_PY
<1>3. CASE NodeStep
  BY <1>3 DEF NodeStep, HandleLine, Resume, StopRetryFires, Wake, Settle, UNCHANGED_PY, BridgeEvent
<1>4. CASE Mishap
  BY <1>4 DEF Mishap, WaitTimesOut, RequestTimesOut, DriverReports, DriverPublishes,
              UNCHANGED_PY, nodeVars, BridgeEvent
<1>5. CASE UNCHANGED vars
  BY <1>5 DEF vars, pyVars, nodeVars
<1>6. QED
  BY <1>1, <1>2, <1>3, <1>4, <1>5 DEF Next

\* What the events of its life do to a bridge.
LEMMA BridgeEvents ==
  ASSUME TypeOK
  PROVE  /\ BridgeReady => mgr'.bridgeReady = TRUE
         /\ HandleExit => mgr'.bridgeReady = IF bridge \in {"starting", "up"} THEN FALSE
                                             ELSE mgr.bridgeReady
         /\ ManagerStopped \/ BridgeGivenUp => mgr'.bridgeReady = FALSE
         /\ BridgeEvent => alive' = alive
<1>0. mgr \in Managers /\ NextId \in Nat
  BY BoundsAssumption DEF TypeOK, NextId
<1>1. /\ BridgeCame(mgr) \in Managers /\ BridgeCame(mgr).bridgeReady = TRUE
      /\ RejectPending(mgr) \in Managers /\ RejectPending(mgr).bridgeReady = mgr.bridgeReady
  BY <1>0, BridgeHandlersTypes DEF BridgeCame, RejectPending, Managers
<1>2. \A n \in Managers : BridgeGone(n).bridgeReady = FALSE
  BY DEF BridgeGone, Managers
<1>3. BridgeReady => mgr'.bridgeReady = TRUE
  BY <1>0, <1>1, BridgeReadyActs, KickKeeps
<1>4. HandleExit => mgr'.bridgeReady = IF bridge \in {"starting", "up"} THEN FALSE
                                       ELSE mgr.bridgeReady
  BY <1>1, <1>2 DEF HandleExit
<1>5. ManagerStopped \/ BridgeGivenUp => mgr'.bridgeReady = FALSE
  BY <1>0, <1>2, GivesUpActs
<1>6. BridgeEvent => alive' = alive
  BY DEF BridgeEvent, BridgeReady, HandleExit, ManagerStopped, BridgeGivenUp, pyVars, UNCHANGED_PY
<1>7. QED
  BY <1>3, <1>4, <1>5, <1>6

LEMMA StepKeepsLiving == TypeOK /\ Lives /\ [Next]_vars => Lives'
<1> SUFFICES ASSUME TypeOK, Lives, [Next]_vars PROVE Lives'
  OBVIOUS
<1>1. mgr'.bridgeReady = mgr.bridgeReady \/ BridgeEvent
  BY ActiveOrStopping
<1>2. mgr'.active = mgr.active \/ StopManager
  BY ActiveOrStopping
<1>3. StopManager => mgr'.active = FALSE /\ bridge' # "unresponsive"
  <2>1. ASSUME StopManager PROVE mgr'.active = FALSE
    <3>1. PICK gone : mgr' = [DropLeases(mgr, gone) EXCEPT !.active = FALSE]
      BY <2>1, StopManagerActs
    <3>2. DropLeases(mgr, gone) \in Managers
      BY DropLeasesTypes DEF TypeOK
    <3>3. QED
      BY <3>1, <3>2 DEF Managers
  <2>2. QED
    BY <2>1 DEF StopManager
<1>4. CASE UNCHANGED <<bridge, alive>> /\ ~StopManager /\ ~BridgeEvent
  BY <1>1, <1>2, <1>4 DEF Lives
<1>5. CASE StopManager
  BY <1>3, <1>5 DEF Lives
<1>6. CASE BridgeEvent /\ ~StopManager
  BY <1>2, <1>6, BridgeEvents
  DEF Lives, BridgeEvent, BridgeReady, HandleExit, ManagerStopped, BridgeGivenUp
<1>7. CASE StartBridge \/ ProcessExits
  BY <1>7 DEF Lives, StartBridge, ProcessExits, nodeVars
<1>8. QED
  BY <1>4, <1>5, <1>6, <1>7, BridgeKept

LEMMA StepLives ==
  TypeOK /\ Lives /\ [Next]_vars => [Supervised!LifecycleNext]_<<bridge, alive, mgr.bridgeReady>>
<1> SUFFICES ASSUME TypeOK, Lives, [Next]_vars
             PROVE  [Supervised!LifecycleNext]_<<bridge, alive, mgr.bridgeReady>>
  OBVIOUS
<1>1. mgr'.bridgeReady = mgr.bridgeReady \/ BridgeEvent
  BY ActiveOrStopping
<1>2. CASE BridgeReady
  BY <1>2, BridgeEvents
  DEF BridgeEvent, BridgeReady, Supervised!LifecycleNext, Supervised!Accept
<1>3. CASE HandleExit
  <2>1. mgr.bridgeReady \in BOOLEAN
    BY DEF TypeOK, Managers
  <2>2. bridge = "unresponsive" => mgr.bridgeReady = FALSE
    BY <2>1 DEF Lives
  <2>3. QED
    BY <1>3, <2>2, BridgeEvents
    DEF BridgeEvent, HandleExit, Supervised!LifecycleNext, Supervised!Bury
<1>4. CASE ManagerStopped
  BY <1>4, BridgeEvents
  DEF BridgeEvent, ManagerStopped, Supervised!LifecycleNext, Supervised!Close
<1>5. CASE BridgeGivenUp
  BY <1>5, BridgeEvents
  DEF BridgeEvent, BridgeGivenUp, Supervised!LifecycleNext, Supervised!GiveUp
<1>6. CASE StopManager /\ ~BridgeEvent
  BY <1>1, <1>6
  DEF Lives, StopManager, pyVars, Supervised!LifecycleNext, Supervised!Stop
<1>7. CASE StartBridge /\ ~BridgeEvent
  BY <1>1, <1>7 DEF StartBridge, Spawn, Supervised!LifecycleNext, Supervised!Start
<1>8. CASE ProcessExits /\ ~BridgeEvent
  BY <1>1, <1>8 DEF ProcessExits, Exit, nodeVars, Supervised!LifecycleNext, Supervised!Die
<1>9. CASE UNCHANGED <<bridge, alive>> /\ ~BridgeEvent
  BY <1>1, <1>9
<1>10. QED
  BY <1>2, <1>3, <1>4, <1>5, <1>6, <1>7, <1>8, <1>9, BridgeKept DEF BridgeEvent

\* The bridge of the system lives as BridgeLifecycle allows, which is what the
\* supervisor makes of it (SupervisorImplementsLifecycle): the manager is told
\* of every loss before it may use the next process, and uses none it gave up.
THEOREM SupervisedLife == Spec => LivesAsSupervised
<1>1. Init => Lives /\ Supervised!LifecycleInit
  BY DEF Init, PyInit, InitialManager, Lives, Supervised!LifecycleInit
<1>2. QED
  BY <1>1, InitialState, StepKeepsTypes, StepKeepsLiving, StepLives, PTL
  DEF Spec, LivesAsSupervised, Supervised!LifecycleSpec

-----------------------------------------------------------------------------
(***************************************************************************)
(* Where the manager's requests are, for any keys, dependencies, clients   *)
(* and bounds.  A request is a token that moves: written to stdin, queued, *)
(* run by a worker, and at last a reply in stdout.  The invariant InTime   *)
(* says that the tokens of one instance all carry different ids, that only *)
(* the newest id can belong to an operation still awaiting its reply, and  *)
(* that what is held of a request is what its operation sent.              *)
(*                                                                         *)
(* It follows that a late reply is never taken for the answer of a later   *)
(* request, and that while nothing timed out the bridge never holds two    *)
(* requests for one instance.  Each step is first described by what it     *)
(* does to the tokens (the lemmas ...Does and ...Moves), then shown to     *)
(* keep InTime (the lemmas ...KeepsTime).                                  *)
(***************************************************************************)

\* No two requests, or two replies, of a sequence of lines have the same tag.
IsReport(m) == m.type = "driver-state"
SameTag(m, n) == m.key = n.key /\ m.id = n.id
Single(s) ==
  \A i, j \in 1..Len(s) : ~IsReport(s[i]) /\ ~IsReport(s[j]) /\ SameTag(s[i], s[j]) => i = j

\* A reply comes after every report on its instance.
Ahead(s) ==
  \A i, j \in 1..Len(s) :
    s[i].type = "result" /\ IsReport(s[j]) /\ s[i].key = s[j].key => j < i

LEMMA EmptyFacts == Single(<<>>) /\ Ahead(<<>>) /\ Range(<<>>) = {}
BY DEF Single, Ahead, Range

LEMMA AppendFacts ==
  ASSUME NEW S, NEW s \in Seq(S), NEW x \in S
  PROVE  /\ Append(s, x) \in Seq(S)
         /\ Range(Append(s, x)) = Range(s) \union {x}
         /\ Single(s) /\ (IsReport(x) \/ \A m \in Range(s) : ~IsReport(m) => ~SameTag(m, x))
              => Single(Append(s, x))
         /\ Ahead(s) /\ (IsReport(x) => \A m \in Range(s) : m.type = "result" => m.key # x.key)
              => Ahead(Append(s, x))
<1> DEFINE t == Append(s, x)
<1>1. /\ t \in Seq(S) /\ Len(t) = Len(s) + 1 /\ Len(s) \in Nat
      /\ t[Len(s) + 1] = x
      /\ \A i \in 1..Len(s) : t[i] = s[i]
  BY AppendProperties, LenProperties
<1> HIDE DEF t
<1>2. Range(s) = {s[i] : i \in 1..Len(s)} /\ Range(t) = {t[i] : i \in 1..Len(t)}
  BY <1>1, RangeEquality
<1>3. Range(t) = Range(s) \union {x}
  BY <1>1, <1>2
<1>4. \A i \in 1..Len(t) : \/ i \in 1..Len(s) /\ t[i] = s[i] /\ t[i] \in Range(s)
                           \/ i = Len(s) + 1 /\ t[i] = x
  BY <1>1, <1>2
<1>5. ASSUME Single(s), IsReport(x) \/ \A m \in Range(s) : ~IsReport(m) => ~SameTag(m, x)
      PROVE  Single(t)
  BY <1>4, <1>5 DEF Single, SameTag
<1>6. ASSUME Ahead(s), IsReport(x) => \A m \in Range(s) : m.type = "result" => m.key # x.key
      PROVE  Ahead(t)
  <2> SUFFICES ASSUME NEW i \in 1..Len(t), NEW j \in 1..Len(t),
                      t[i].type = "result", IsReport(t[j]), t[i].key = t[j].key
               PROVE  j < i
    BY DEF Ahead
  <2>1. i = Len(s) + 1 => j # i
    BY <1>4 DEF IsReport
  <2>2. QED
    BY <1>1, <1>4, <1>6, <2>1 DEF Ahead
<1>7. QED
  BY <1>1, <1>3, <1>5, <1>6 DEF t

LEMMA TailFacts ==
  ASSUME NEW S, NEW s \in Seq(S), s # <<>>
  PROVE  /\ Head(s) \in S /\ Tail(s) \in Seq(S)
         /\ Range(s) = {Head(s)} \union Range(Tail(s))
         /\ Single(s) => /\ Single(Tail(s))
                         /\ ~IsReport(Head(s)) =>
                              \A m \in Range(Tail(s)) : ~IsReport(m) => ~SameTag(m, Head(s))
         /\ Ahead(s) => /\ Ahead(Tail(s))
                        /\ Head(s).type = "result" =>
                             \A m \in Range(Tail(s)) : IsReport(m) => m.key # Head(s).key
<1> DEFINE t == Tail(s)
<1>1. /\ t \in Seq(S) /\ Len(t) = Len(s) - 1 /\ Len(s) \in Nat \ {0}
      /\ Head(s) = s[1] /\ Head(s) \in S
      /\ \A i \in 1..Len(t) : t[i] = s[i + 1]
  BY HeadTailProperties, EmptySeq, ElementOfSeq
<1> HIDE DEF t
<1>2. Range(s) = {s[i] : i \in 1..Len(s)} /\ Range(t) = {t[i] : i \in 1..Len(t)}
  BY <1>1, RangeEquality
<1>3. \A i \in 1..Len(t) : i + 1 \in 1..Len(s) /\ t[i] = s[i + 1]
  BY <1>1
<1>4. Range(s) = {Head(s)} \union Range(t)
  <2>1. \A i \in 1..Len(s) : i = 1 \/ (i - 1 \in 1..Len(t) /\ t[i - 1] = s[i])
    BY <1>1
  <2>2. 1 \in 1..Len(s)
    BY <1>1
  <2>3. \A m \in Range(s) : m = Head(s) \/ m \in Range(t)
    <3>1. \A i \in 1..Len(s) : s[i] = Head(s) \/ s[i] \in Range(t)
      BY <1>1, <1>2, <2>1
    <3>2. QED
      BY <1>2, <3>1
  <2>4. \A m \in Range(t) : m \in Range(s)
    BY <1>2, <1>3
  <2>5. Head(s) \in Range(s)
    BY <1>1, <1>2, <2>2
  <2>6. QED
    BY <2>3, <2>4, <2>5
<1>5. \A m \in Range(t) : \E i \in 2..Len(s) : m = s[i]
  BY <1>1, <1>2, <1>3
<1>6. ASSUME Single(s)
      PROVE  /\ Single(t)
             /\ ~IsReport(Head(s)) =>
                  \A m \in Range(t) : ~IsReport(m) => ~SameTag(m, Head(s))
  <2>1. Single(t)
    BY <1>1, <1>3, <1>6 DEF Single
  <2>2. ASSUME ~IsReport(s[1]), NEW i \in 2..Len(s), ~IsReport(s[i]), SameTag(s[i], s[1])
        PROVE  FALSE
    BY <1>1, <1>6, <2>2 DEF Single
  <2>3. QED
    BY <1>1, <1>5, <2>1, <2>2
<1>7. ASSUME Ahead(s)
      PROVE  /\ Ahead(t)
             /\ Head(s).type = "result" =>
                  \A m \in Range(t) : IsReport(m) => m.key # Head(s).key
  <2>1. Ahead(t)
    BY <1>1, <1>3, <1>7 DEF Ahead
  <2>2. ASSUME s[1].type = "result", NEW i \in 2..Len(s), IsReport(s[i]), s[i].key = s[1].key
        PROVE  FALSE
    BY <1>1, <1>7, <2>2 DEF Ahead
  <2>3. QED
    BY <1>1, <1>5, <2>1, <2>2
<1>8. QED
  BY <1>1, <1>4, <1>6, <1>7 DEF t

LEMMA TwoFacts ==
  ASSUME NEW S, NEW s \in Seq(S), NEW x \in S, NEW y \in S
  PROVE  s \o <<x, y>> = Append(Append(s, x), y)
OBVIOUS

LEMMA ThreeFacts ==
  ASSUME NEW S, NEW s \in Seq(S), NEW x \in S, NEW y \in S, NEW z \in S
  PROVE  s \o <<x, y, z>> = Append(Append(Append(s, x), y), z)
OBVIOUS

LEMMA ConcatFacts ==
  ASSUME NEW S, NEW s \in Seq(S), NEW t \in Seq(S)
  PROVE  /\ s \o t \in Seq(S)
         /\ Range(s \o t) = Range(s) \union Range(t)
         /\ Single(s) /\ Single(t)
            /\ (\A m \in Range(s) : \A n \in Range(t) :
                  ~IsReport(m) /\ ~IsReport(n) => ~SameTag(m, n))
            => Single(s \o t)
<1> DEFINE u == s \o t
<1>1. /\ u \in Seq(S) /\ Len(u) = Len(s) + Len(t) /\ Len(s) \in Nat /\ Len(t) \in Nat
      /\ \A i \in 1..Len(s) + Len(t) : u[i] = IF i <= Len(s) THEN s[i] ELSE t[i - Len(s)]
  BY ConcatProperties, LenProperties
<1>2. Range(u) = Range(s) \union Range(t)
  BY RangeConcatenation
<1>3. Range(s) = {s[i] : i \in 1..Len(s)} /\ Range(t) = {t[i] : i \in 1..Len(t)}
  BY RangeEquality
<1> HIDE DEF u
<1>4. \A i \in 1..Len(u) :
        \/ i \in 1..Len(s) /\ u[i] = s[i] /\ s[i] \in Range(s)
        \/ i - Len(s) \in 1..Len(t) /\ u[i] = t[i - Len(s)] /\ t[i - Len(s)] \in Range(t)
  BY <1>1, <1>3
<1>5. ASSUME Single(s), Single(t),
             \A m \in Range(s) : \A n \in Range(t) :
               ~IsReport(m) /\ ~IsReport(n) => ~SameTag(m, n),
             NEW i \in 1..Len(u), NEW j \in 1..Len(u),
             ~IsReport(u[i]), ~IsReport(u[j]), SameTag(u[i], u[j])
      PROVE  i = j
  <2>1. CASE i \in 1..Len(s) /\ j \in 1..Len(s)
    BY <1>1, <1>5, <2>1 DEF Single
  <2>2. CASE i - Len(s) \in 1..Len(t) /\ j - Len(s) \in 1..Len(t) /\ i > Len(s) /\ j > Len(s)
    <3> DEFINE a == i - Len(s)
               b == j - Len(s)
    <3>0. a \in 1..Len(t) /\ b \in 1..Len(t) /\ u[i] = t[a] /\ u[j] = t[b]
      BY <1>1, <2>2
    <3> HIDE DEF a, b
    <3>1. a = b
      BY <1>5, <3>0 DEF Single
    <3>5. i - Len(s) = j - Len(s)
      BY <3>1 DEF a, b
    <3>2. QED
      BY <1>1, <3>5
  <2>3. CASE i \in 1..Len(s) /\ j > Len(s)
    BY <1>1, <1>4, <1>5, <2>3
  <2>4. CASE j \in 1..Len(s) /\ i > Len(s)
    <3>1. SameTag(u[j], u[i])
      BY <1>5 DEF SameTag
    <3>2. QED
      BY <1>1, <1>4, <1>5, <2>4, <3>1
  <2>5. QED
    BY <1>1, <2>1, <2>2, <2>3, <2>4
<1>6. QED
  BY <1>1, <1>2, <1>5 DEF Single, u

LEMMA SetToSeqFacts ==
  ASSUME NEW S, IsFiniteSet(S)
  PROVE  /\ SetToSeq(S) \in Seq(S)
         /\ \A i, j \in 1..Len(SetToSeq(S)) : SetToSeq(S)[i] = SetToSeq(S)[j] => i = j
<1>1. PICK f : f \in Bijection(1..Cardinality(S), S)
  BY FS_CardinalityType DEF ExistsBijection
<1>2. f \in [1..Cardinality(S) -> S] /\ IsInjective(f)
  BY <1>1 DEF Bijection, Injection, IsInjective
<1>3. SetToSeq(S) \in [1..Cardinality(S) -> S] /\ IsInjective(SetToSeq(S))
  BY <1>2 DEF SetToSeq
<1>4. Cardinality(S) \in Nat
  BY FS_CardinalityType
<1>5. SetToSeq(S) \in Seq(S)
  BY <1>3, <1>4
<1>6. DOMAIN SetToSeq(S) = 1..Len(SetToSeq(S))
  BY <1>5
<1>7. QED
  BY <1>3, <1>5, <1>6 DEF IsInjective

\* The requests a pass sends, one for each instance with a new operation.
LEMMA NewRequestsFacts ==
  ASSUME NEW before, NEW after \in Managers
  PROVE  /\ NewRequests(before, after) \in Seq(BridgeRequests)
         /\ \A r \in Range(NewRequests(before, after)) :
              \E k \in Keys : Sends(before, after, k) /\ r = RequestOf(k, after.inFlight[k])
                              /\ r.key = k /\ r.id = after.inFlight[k].id
         /\ Single(NewRequests(before, after))
<1> DEFINE senders == {k \in Keys : Sends(before, after, k)}
           requests == {RequestOf(k, after.inFlight[k]) : k \in senders}
           t == NewRequests(before, after)
<1>1. IsFiniteSet(senders)
  BY KeysAssumption, FS_Subset
<1>2. IsFiniteSet(requests)
  <2> DEFINE f == [k \in senders |-> RequestOf(k, after.inFlight[k])]
  <2>1. f \in Surjection(senders, requests)
    BY DEF Surjection
  <2> HIDE DEF f, senders, requests
  <2>2. QED
    BY <1>1, <2>1, FS_Surjection
<1>3. t = SetToSeq(requests)
  BY DEF NewRequests
<1>4. t \in Seq(requests) /\ \A i, j \in 1..Len(t) : t[i] = t[j] => i = j
  BY <1>2, <1>3, SetToSeqFacts
<1> HIDE DEF t
<1>5. \A k \in senders : /\ RequestOf(k, after.inFlight[k]) \in BridgeRequests
                         /\ RequestOf(k, after.inFlight[k]).key = k
                         /\ RequestOf(k, after.inFlight[k]).id = after.inFlight[k].id
  <2> SUFFICES ASSUME NEW k \in senders
               PROVE  /\ RequestOf(k, after.inFlight[k]) \in BridgeRequests
                      /\ RequestOf(k, after.inFlight[k]).key = k
                      /\ RequestOf(k, after.inFlight[k]).id = after.inFlight[k].id
    OBVIOUS
  <2>1. Busy(after, k) /\ k \in Keys
    BY DEF Sends, Awaits
  <2>2. after.inFlight[k].kind \in {"start", "stop", "sync"}
    BY <2>1 DEF Busy, Managers, Operations
  <2>3. RequestOf(k, after.inFlight[k]).key = k
        /\ RequestOf(k, after.inFlight[k]).id = after.inFlight[k].id
    BY <2>2 DEF RequestOf
  <2>4. QED
    BY <2>1, <2>3, RequestTypes
<1>6. t \in Seq(BridgeRequests)
  <2>1. requests \subseteq BridgeRequests
    BY <1>5
  <2> HIDE DEF requests
  <2>2. QED
    BY <1>4, <2>1, SeqMonotonic
<1>7. \A i \in 1..Len(t) : t[i] \in requests
  BY <1>4, ElementOfSeq
<1>8. Range(t) = {t[i] : i \in 1..Len(t)}
  BY <1>6, RangeEquality
<1>9. \A r \in Range(t) :
        \E k \in Keys : Sends(before, after, k) /\ r = RequestOf(k, after.inFlight[k])
                        /\ r.key = k /\ r.id = after.inFlight[k].id
  BY <1>5, <1>7, <1>8
<1>10. Single(t)
  <2> SUFFICES ASSUME NEW i \in 1..Len(t), NEW j \in 1..Len(t), SameTag(t[i], t[j])
               PROVE  i = j
    BY DEF Single
  <2>1. PICK k \in senders : t[i] = RequestOf(k, after.inFlight[k])
    BY <1>7
  <2>2. PICK l \in senders : t[j] = RequestOf(l, after.inFlight[l])
    BY <1>7
  <2>3. k = l
    BY <1>5, <2>1, <2>2 DEF SameTag
  <2>4. QED
    BY <1>4, <2>1, <2>2, <2>3
<1>11. QED
  BY <1>6, <1>9, <1>10 DEF t

-----------------------------------------------------------------------------
(* Where the requests of an instance and their replies are. *)

InStdin(k) == {r \in Range(stdin) : r.key = k}
InQueue(k) == Range(queue[k])
InTask(k) == {task[k]} \ {Idle}
Replies(k) == {m \in Range(stdout) : m.type = "result" /\ m.key = k}
Reports(k) == {m \in Range(stdout) : IsReport(m) /\ m.key = k}

Waiting(k) == InStdin(k) \union InQueue(k)
Held(k) == Waiting(k) \union InTask(k)
Tokens(k) == Held(k) \union Replies(k)

Differ(A, B) == \A m \in A : \A n \in B : m.id # n.id
Disjoint(s, q, t, o) ==
  /\ Differ(s, q) /\ Differ(s, t) /\ Differ(s, o)
  /\ Differ(q, t) /\ Differ(q, o) /\ Differ(t, o)
Apart(k) == Disjoint(InStdin(k), InQueue(k), InTask(k), Replies(k))
Keyed(k) == \A r \in InQueue(k) \union InTask(k) : r.key = k

OneEach ==
  /\ Single(stdin) /\ Single(stdout)
  /\ \A k \in Keys : Single(queue[k]) /\ Keyed(k) /\ Apart(k)

\* Nothing about the instance changes on the bridge's side.
Same(j) ==
  /\ InStdin(j)' = InStdin(j) /\ InQueue(j)' = InQueue(j)
  /\ InTask(j)' = InTask(j) /\ Replies(j)' = Replies(j)
  /\ unposted = {} => Reports(j)' = Reports(j)
  /\ instances'[j] = instances[j]
  /\ \A e \in Events : <<j, e>> \in external' <=> <<j, e>> \in external
Frame(k) == \A j \in Keys \ {k} : Same(j)

LEMMA ResponseTypes ==
  \A m \in BridgeResponses :
    /\ m.key \in Keys
    /\ IsReport(m) <=> m \in StateReports
    /\ m.type = "result" <=> ~IsReport(m)
    /\ m.type = "result" <=> m \in Results
BY DEF BridgeResponses, Results, StateReports, IsReport

LEMMA RequestIsNoReport ==
  \A r \in BridgeRequests :
    /\ r.key \in Keys /\ ~IsReport(r) /\ r.id \in Nat /\ r # Idle
    /\ \A ok \in BOOLEAN : Result(r, ok) \in Results /\ Result(r, ok).id = r.id
                           /\ Result(r, ok).key = r.key /\ Result(r, ok).ok = ok
                           /\ ~IsReport(Result(r, ok)) /\ Result(r, ok).type = "result"
BY DEF BridgeRequests, LifecycleRequests, SubscriptionRequests, IsReport, Idle, RequestIds,
       Result, Results

\* The first line of stdin leaves it.
LEMMA StdinTail ==
  ASSUME PyTypeOK, OneEach, stdin # <<>>, stdin' = Tail(stdin),
         NEW r, r = Head(stdin), NEW k, k = r.key
  PROVE  /\ r \in BridgeRequests /\ k \in Keys
         /\ \A j \in Keys \ {k} : InStdin(j)' = InStdin(j)
         /\ InStdin(k) = {r} \union InStdin(k)'
         /\ Differ(InStdin(k)', {r})
         /\ Single(stdin')
<1>1. stdin \in Seq(BridgeRequests) /\ Single(stdin)
  BY DEF PyTypeOK, OneEach
<1>2. /\ r \in BridgeRequests /\ Tail(stdin) \in Seq(BridgeRequests)
      /\ Range(stdin) = {r} \union Range(stdin')
      /\ Single(stdin')
      /\ ~IsReport(r) => \A m \in Range(stdin') : ~IsReport(m) => ~SameTag(m, r)
  BY <1>1, TailFacts
<1>3. Range(stdin') \subseteq BridgeRequests
  BY <1>2, RangeOfSeq
<1>4. k \in Keys /\ ~IsReport(r) /\ \A m \in Range(stdin') : ~IsReport(m)
  BY <1>2, <1>3, RequestIsNoReport
<1>5. \A j : InStdin(j) = {m \in Range(stdin) : m.key = j}
             /\ InStdin(j)' = {m \in Range(stdin') : m.key = j}
  BY DEF InStdin
<1>6. Differ(InStdin(k)', {r})
  BY <1>2, <1>4, <1>5 DEF Differ, SameTag
<1>7. InStdin(k) = {r} \union InStdin(k)'
  BY <1>2, <1>5
<1>8. \A j \in Keys \ {k} : InStdin(j)' = InStdin(j)
  BY <1>2, <1>5
<1>9. QED
  BY <1>2, <1>4, <1>6, <1>7, <1>8

\* A worker takes the first request of its queue.
LEMMA QueueTail ==
  ASSUME PyTypeOK, OneEach, NEW k \in Keys, NEW type, Takes(k, type)
  PROVE  LET r == Head(queue[k]) IN
         /\ r \in LifecycleRequests /\ r \in BridgeRequests /\ r.type = type /\ r.key = k
         /\ InQueue(k) = {r} \union InQueue(k)'
         /\ Differ(InQueue(k)', {r})
         /\ \A j \in Keys \ {k} : InQueue(j)' = InQueue(j)
         /\ \A j \in Keys : Single(queue'[j])
         /\ task[k] = Idle /\ alive
<1> DEFINE r == Head(queue[k])
<1>1. queue[k] \in Seq(LifecycleRequests) /\ Single(queue[k]) /\ queue[k] # <<>>
      /\ queue \in [Keys -> Seq(LifecycleRequests)]
  BY DEF PyTypeOK, OneEach, Takes
<1>2. queue'[k] = Tail(queue[k]) /\ \A j \in Keys \ {k} : queue'[j] = queue[j]
  BY <1>1 DEF Takes
<1>3. /\ r \in LifecycleRequests /\ Tail(queue[k]) \in Seq(LifecycleRequests)
      /\ Range(queue[k]) = {r} \union Range(queue'[k])
      /\ Single(queue'[k])
      /\ ~IsReport(r) => \A m \in Range(queue'[k]) : ~IsReport(m) => ~SameTag(m, r)
  BY <1>1, <1>2, TailFacts
<1>4. Range(queue'[k]) \subseteq LifecycleRequests
  BY <1>2, <1>3, RangeOfSeq
<1> HIDE DEF r
<1>5. r \in BridgeRequests /\ ~IsReport(r) /\ \A m \in Range(queue'[k]) : ~IsReport(m)
  BY <1>3, <1>4, RequestIsNoReport DEF BridgeRequests
<1>6. InQueue(k) = {r} \union InQueue(k)' /\ \A j \in Keys \ {k} : InQueue(j)' = InQueue(j)
  BY <1>2, <1>3 DEF InQueue
<1>7. \A m \in InQueue(k) : m.key = k
  BY DEF OneEach, Keyed
<1>8. Differ(InQueue(k)', {r})
  <2>1. \A m \in InQueue(k)' : m.key = k /\ ~SameTag(m, r)
    BY <1>3, <1>5, <1>6, <1>7 DEF InQueue
  <2>2. r.key = k
    BY <1>6, <1>7
  <2>3. QED
    BY <2>1, <2>2 DEF Differ, SameTag
<1>9. \A j \in Keys : Single(queue'[j])
  BY <1>2, <1>3 DEF OneEach
<1>10. r.type = type /\ task[k] = Idle /\ alive
  BY DEF Takes, r
<1>11. QED
  BY <1>3, <1>5, <1>6, <1>7, <1>8, <1>9, <1>10 DEF r

\* A reply is appended to stdout.
LEMMA ReplyPosted ==
  ASSUME PyTypeOK, OneEach, NEW y \in Results, stdout' = Append(stdout, y),
         Differ(Replies(y.key), {y})
  PROVE  /\ Single(stdout')
         /\ Replies(y.key)' = Replies(y.key) \union {y}
         /\ \A j \in Keys \ {y.key} : Replies(j)' = Replies(j)
         /\ \A j \in Keys : Reports(j)' = Reports(j)
         /\ Ahead(stdout) => Ahead(stdout')
<1>1. stdout \in Seq(BridgeResponses) /\ Single(stdout) /\ y \in BridgeResponses
  BY DEF PyTypeOK, OneEach, BridgeResponses
<1>2. y.type = "result" /\ ~IsReport(y)
  BY <1>1, ResponseTypes
<1>3. Range(stdout) \subseteq BridgeResponses
  BY <1>1, RangeOfSeq
<1>4. \A m \in Range(stdout) : ~IsReport(m) => ~SameTag(m, y)
  BY <1>3, ResponseTypes DEF Differ, Replies, SameTag
<1>5. Range(stdout') = Range(stdout) \union {y} /\ Single(stdout')
      /\ (Ahead(stdout) => Ahead(stdout'))
  BY <1>1, <1>2, <1>4, AppendFacts
<1>6. QED
  BY <1>2, <1>5 DEF Replies, Reports

\* A report is appended to stdout.
LEMMA ReportPosted ==
  ASSUME PyTypeOK, OneEach, NEW x \in StateReports, stdout' = Append(stdout, x)
  PROVE  /\ Single(stdout')
         /\ \A j \in Keys : Replies(j)' = Replies(j)
         /\ Reports(x.key)' = Reports(x.key) \union {x}
         /\ \A j \in Keys \ {x.key} : Reports(j)' = Reports(j)
         /\ Ahead(stdout) /\ Replies(x.key) = {} => Ahead(stdout')
<1>1. stdout \in Seq(BridgeResponses) /\ Single(stdout) /\ x \in BridgeResponses
  BY DEF PyTypeOK, OneEach, BridgeResponses
<1>2. x.type # "result" /\ IsReport(x)
  BY <1>1, ResponseTypes
<1>3. Range(stdout') = Range(stdout) \union {x} /\ Single(stdout')
      /\ (Ahead(stdout) /\ (\A m \in Range(stdout) : m.type = "result" => m.key # x.key)
           => Ahead(stdout'))
  BY <1>1, <1>2, AppendFacts
<1>4. Replies(x.key) = {} => \A m \in Range(stdout) : m.type = "result" => m.key # x.key
  BY DEF Replies
<1>5. QED
  BY <1>2, <1>3, <1>4 DEF Replies, Reports

\* A worker posts its last state and its reply, a driver's report maybe between.
LEMMA BothPosted ==
  ASSUME PyTypeOK, OneEach, NEW k \in Keys, NEW x \in StateReports, NEW y \in Results,
         x.key = k, y.key = k, PostsThen(x, y), Differ(Replies(k), {y})
  PROVE  /\ Single(stdout')
         /\ Replies(k)' = Replies(k) \union {y}
         /\ \A j \in Keys \ {k} : Replies(j)' = Replies(j)
         /\ unposted = {} =>
              /\ unposted' = {}
              /\ Reports(k)' = Reports(k) \union {x}
              /\ \A j \in Keys \ {k} : Reports(j)' = Reports(j)
              /\ Ahead(stdout) /\ Replies(k) = {} => Ahead(stdout')
<1>1. stdout \in Seq(BridgeResponses) /\ Single(stdout) /\ Range(stdout) \subseteq BridgeResponses
  BY RangeOfSeq DEF PyTypeOK, OneEach
<1>2. /\ x \in BridgeResponses /\ x.type # "result" /\ IsReport(x)
      /\ y \in BridgeResponses /\ y.type = "result" /\ ~IsReport(y)
  BY ResponseTypes DEF BridgeResponses
<1>3. \A m \in BridgeResponses : ~IsReport(m) /\ SameTag(m, y) =>
                                 m.type = "result" /\ m.key = k /\ m.id = y.id
  BY ResponseTypes DEF SameTag
<1>4. \A m \in Range(stdout) : ~IsReport(m) => ~SameTag(m, y)
  BY <1>1, <1>3 DEF Differ, Replies
<1> DEFINE s1 == Append(stdout, x)
<1>5. /\ s1 \in Seq(BridgeResponses) /\ Range(s1) = Range(stdout) \union {x} /\ Single(s1)
      /\ (Ahead(stdout) /\ (\A m \in Range(stdout) : m.type = "result" => m.key # k)
          => Ahead(s1))
  BY <1>1, <1>2, AppendFacts
<1> HIDE DEF s1
<1>6. CASE stdout' = stdout \o <<x, y>> /\ unposted' = unposted
  <2>1. stdout' = Append(s1, y)
    BY <1>1, <1>2, <1>6, TwoFacts DEF s1
  <2>2. \A m \in Range(s1) : ~IsReport(m) => ~SameTag(m, y)
    BY <1>2, <1>4, <1>5
  <2>3. /\ Range(stdout') = Range(stdout) \union {x} \union {y} /\ Single(stdout')
        /\ (Ahead(s1) => Ahead(stdout'))
    BY <1>2, <1>5, <2>1, <2>2, AppendFacts
  <2>4. Replies(k) = {} => \A m \in Range(stdout) : m.type = "result" => m.key # k
    BY DEF Replies
  <2>5. Ahead(stdout) /\ Replies(k) = {} => Ahead(stdout')
    BY <1>5, <2>3, <2>4
  <2>6. /\ Replies(k)' = Replies(k) \union {y}
        /\ \A j \in Keys \ {k} : Replies(j)' = Replies(j)
    BY <1>2, <2>3 DEF Replies
  <2>7. /\ Reports(k)' = Reports(k) \union {x}
        /\ \A j \in Keys \ {k} : Reports(j)' = Reports(j)
    BY <1>2, <2>3 DEF Reports
  <2>8. QED
    BY <1>6, <2>3, <2>5, <2>6, <2>7
<1>7. ASSUME NEW report \in unposted, stdout' = stdout \o <<x, report, y>>
      PROVE  /\ Single(stdout')
             /\ Replies(k)' = Replies(k) \union {y}
             /\ \A j \in Keys \ {k} : Replies(j)' = Replies(j)
  <2> DEFINE s2 == Append(s1, report)
  <2>1. report \in StateReports
    BY DEF PyTypeOK
  <2>2. report \in BridgeResponses /\ report.type # "result" /\ IsReport(report)
    BY <2>1, ResponseTypes DEF BridgeResponses
  <2>3. s2 \in Seq(BridgeResponses) /\ Range(s2) = Range(s1) \union {report} /\ Single(s2)
    BY <1>5, <2>2, AppendFacts
  <2>4. stdout' = Append(s2, y)
    BY <1>1, <1>2, <1>7, <2>2, ThreeFacts DEF s1
  <2> HIDE DEF s2
  <2>5. \A m \in Range(s2) : ~IsReport(m) => ~SameTag(m, y)
    BY <1>2, <1>4, <1>5, <2>2, <2>3
  <2>6. Range(stdout') = Range(stdout) \union {x} \union {report} \union {y} /\ Single(stdout')
    BY <1>2, <1>5, <2>3, <2>4, <2>5, AppendFacts
  <2>7. QED
    BY <1>2, <2>2, <2>6 DEF Replies
<1>8. QED
  BY <1>6, <1>7 DEF PostsThen

-----------------------------------------------------------------------------
(* What each step of the bridge does to the instance it is about.            *)

\* No request is added, and none has two places.
MovesOnly(k) ==
  /\ OneEach' /\ Frame(k)
  /\ Held(k)' \subseteq Held(k) /\ Waiting(k)' \subseteq Waiting(k)
  /\ \A m \in Tokens(k)' : \E n \in Tokens(k) : n.id = m.id

LEMMA FrameKeeps ==
  ASSUME OneEach, NEW k \in Keys, Frame(k), Single(stdin'), Single(stdout'),
         \A j \in Keys : Single(queue'[j]), Keyed(k)', Apart(k)'
  PROVE  OneEach'
<1>1. \A j \in Keys \ {k} : Keyed(j)' /\ Apart(j)'
  BY DEF OneEach, Frame, Same, Keyed, Apart
<1>2. QED
  BY <1>1 DEF OneEach

LEMMA ReadSubscribeDoes ==
  ASSUME PyTypeOK, OneEach, ReadSubscribe
  PROVE  \E k \in Keys : \E r \in InStdin(k) :
           /\ r \in SubscriptionRequests /\ MovesOnly(k)
           /\ Result(r, TRUE) \in Replies(k)' /\ Reports(k)' = Reports(k)
           /\ external' = IF r.type = "subscribe" THEN external \union {<<k, r.event>>}
                          ELSE external \ {<<k, r.event>>}
           /\ instances' = instances /\ unposted' = unposted
           /\ Ahead(stdout) => Ahead(stdout')
<1>1. PICK r : r = Head(stdin)
  OBVIOUS
<1>2. PICK k : k = r.key
  OBVIOUS
<1>3. stdin # <<>> /\ stdin' = Tail(stdin)
  BY DEF ReadSubscribe
<1>4. /\ r \in BridgeRequests /\ k \in Keys
      /\ \A j \in Keys \ {k} : InStdin(j)' = InStdin(j)
      /\ InStdin(k) = {r} \union InStdin(k)'
      /\ Differ(InStdin(k)', {r})
      /\ Single(stdin')
  BY <1>1, <1>2, <1>3, StdinTail
<1>5. r \in SubscriptionRequests
  BY <1>1, <1>4 DEF ReadSubscribe, BridgeRequests, LifecycleRequests
<1> DEFINE y == Result(r, TRUE)
<1>6. y \in Results /\ y.id = r.id /\ y.key = k
  BY <1>2, <1>4, RequestIsNoReport
<1>7. stdout' = Append(stdout, y)
  BY <1>1 DEF ReadSubscribe
<1>8. external' = IF r.type = "subscribe" THEN external \union {<<k, r.event>>}
                  ELSE external \ {<<k, r.event>>}
  BY <1>1, <1>2 DEF ReadSubscribe
<1> HIDE DEF y
<1>9. Apart(k) /\ Keyed(k)
  BY <1>4 DEF OneEach
<1>10. Differ(Replies(k), {y})
  BY <1>4, <1>6, <1>9 DEF Apart, Disjoint, Differ
<1>11. /\ Single(stdout') /\ Replies(k)' = Replies(k) \union {y}
       /\ \A j \in Keys \ {k} : Replies(j)' = Replies(j)
       /\ \A j \in Keys : Reports(j)' = Reports(j)
       /\ Ahead(stdout) => Ahead(stdout')
  BY <1>6, <1>7, <1>10, ReplyPosted
<1>12. UNCHANGED <<alive, instances, queue, task, unposted>>
  BY DEF ReadSubscribe
<1>13. \A j : InQueue(j)' = InQueue(j) /\ InTask(j)' = InTask(j)
  BY <1>12 DEF InQueue, InTask
<1>14. Frame(k)
  BY <1>4, <1>8, <1>11, <1>12, <1>13 DEF Frame, Same
<1>15. Apart(k)'
  BY <1>4, <1>6, <1>9, <1>11, <1>13 DEF Apart, Disjoint, Differ
<1>16. Keyed(k)' /\ \A j \in Keys : Single(queue'[j])
  BY <1>9, <1>12, <1>13 DEF Keyed, OneEach
<1>17. OneEach'
  BY <1>4, <1>11, <1>14, <1>15, <1>16, FrameKeeps
<1>18. MovesOnly(k)
  BY <1>4, <1>6, <1>11, <1>13, <1>14, <1>17 DEF MovesOnly, Held, Waiting, Tokens
<1>19. r \in InStdin(k) /\ y \in Replies(k)'
  BY <1>4, <1>11
<1>20. QED
  BY <1>4, <1>5, <1>8, <1>11, <1>12, <1>18, <1>19 DEF y

LEMMA ReadLifecycleDoes ==
  ASSUME PyTypeOK, OneEach, ReadLifecycle
  PROVE  \E k \in Keys :
           /\ MovesOnly(k) /\ InTask(k)' = InTask(k) /\ Replies(k)' = Replies(k)
           /\ UNCHANGED <<instances, external, stdout, unposted>>
           /\ Waiting(k) # {}
<1>1. PICK r : r = Head(stdin)
  OBVIOUS
<1>2. PICK k : k = r.key
  OBVIOUS
<1>3. stdin # <<>> /\ stdin' = Tail(stdin)
  BY DEF ReadLifecycle
<1>4. /\ r \in BridgeRequests /\ k \in Keys
      /\ \A j \in Keys \ {k} : InStdin(j)' = InStdin(j)
      /\ InStdin(k) = {r} \union InStdin(k)'
      /\ Differ(InStdin(k)', {r})
      /\ Single(stdin')
  BY <1>1, <1>2, <1>3, StdinTail
<1>5. /\ r \in LifecycleRequests
      /\ queue' = [queue EXCEPT ![k] = Append(queue[k], r)]
      /\ UNCHANGED <<alive, stdout, instances, external, task, unposted>>
  BY <1>1, <1>2, <1>4
  DEF ReadLifecycle, BridgeRequests, LifecycleRequests, SubscriptionRequests
<1>6. queue \in [Keys -> Seq(LifecycleRequests)] /\ Single(queue[k]) /\ Apart(k) /\ Keyed(k)
  BY <1>4 DEF PyTypeOK, OneEach
<1>7. queue'[k] = Append(queue[k], r) /\ \A j \in Keys \ {k} : queue'[j] = queue[j]
  BY <1>4, <1>5, <1>6
<1>8. \A m \in Range(queue[k]) : ~SameTag(m, r)
  BY <1>4, <1>6 DEF Apart, Disjoint, Differ, SameTag, InQueue
<1>9. Range(queue'[k]) = Range(queue[k]) \union {r} /\ Single(queue'[k])
  BY <1>4, <1>5, <1>6, <1>7, <1>8, AppendFacts
<1>10. /\ InQueue(k)' = InQueue(k) \union {r}
       /\ \A j \in Keys \ {k} : InQueue(j)' = InQueue(j)
  BY <1>7, <1>9 DEF InQueue
<1>11. \A j : InTask(j)' = InTask(j) /\ Replies(j)' = Replies(j) /\ Reports(j)' = Reports(j)
  BY <1>5 DEF InTask, Replies, Reports
<1>12. Frame(k)
  BY <1>4, <1>5, <1>10, <1>11 DEF Frame, Same
<1>13. Apart(k)'
  BY <1>4, <1>6, <1>10, <1>11 DEF Apart, Disjoint, Differ
<1>14. Keyed(k)' /\ \A j \in Keys : Single(queue'[j])
  BY <1>2, <1>6, <1>7, <1>9, <1>10, <1>11 DEF Keyed, OneEach
<1>15. Single(stdout')
  BY <1>5 DEF OneEach
<1>16. OneEach'
  BY <1>4, <1>12, <1>13, <1>14, <1>15, FrameKeeps
<1>17. MovesOnly(k)
  BY <1>4, <1>10, <1>11, <1>12, <1>16 DEF MovesOnly, Held, Waiting, Tokens
<1>18. Waiting(k) # {}
  BY <1>4 DEF Waiting
<1>19. QED
  BY <1>4, <1>5, <1>11, <1>17, <1>18

\* A worker takes a request and runs it.
LEMMA BeginsMoves ==
  ASSUME PyTypeOK, OneEach, NEW k \in Keys, NEW type, Takes(k, type),
         task' = [task EXCEPT ![k] = Head(queue[k])],
         UNCHANGED <<stdin, external>>, Single(stdout'),
         \A j \in Keys : Replies(j)' = Replies(j),
         \A j \in Keys \ {k} : instances'[j] = instances[j]
                              /\ (unposted = {} => Reports(j)' = Reports(j))
  PROVE  /\ MovesOnly(k) /\ task[k] = Idle
         /\ \E r \in InQueue(k) : r.type = type /\ InTask(k)' = {r} /\ task'[k] = r
<1>1. PICK r : r = Head(queue[k])
  OBVIOUS
<1>2. /\ r \in LifecycleRequests /\ r \in BridgeRequests /\ r.type = type /\ r.key = k
      /\ InQueue(k) = {r} \union InQueue(k)'
      /\ Differ(InQueue(k)', {r})
      /\ \A j \in Keys \ {k} : InQueue(j)' = InQueue(j)
      /\ \A j \in Keys : Single(queue'[j])
      /\ task[k] = Idle
  BY <1>1, QueueTail
<1>3. r # Idle
  BY <1>2, RequestIsNoReport
<1>4. task'[k] = r /\ \A j \in Keys \ {k} : task'[j] = task[j]
  BY <1>1 DEF PyTypeOK
<1>5. InTask(k) = {} /\ InTask(k)' = {r} /\ \A j \in Keys \ {k} : InTask(j)' = InTask(j)
  BY <1>2, <1>3, <1>4 DEF InTask
<1>6. \A j : InStdin(j)' = InStdin(j)
  BY DEF InStdin
<1>7. Apart(k) /\ Keyed(k) /\ Single(stdin')
  BY DEF OneEach
<1>8. Frame(k)
  BY <1>2, <1>5, <1>6 DEF Frame, Same
<1>9. Apart(k)'
  BY <1>2, <1>5, <1>6, <1>7 DEF Apart, Disjoint, Differ
<1>10. Keyed(k)'
  BY <1>2, <1>5, <1>7 DEF Keyed
<1>11. OneEach'
  BY <1>2, <1>7, <1>8, <1>9, <1>10, FrameKeeps
<1>12. MovesOnly(k)
  BY <1>2, <1>5, <1>6, <1>8, <1>11 DEF MovesOnly, Held, Waiting, Tokens
<1>13. QED
  BY <1>2, <1>4, <1>5, <1>12

\* A worker takes a request and answers it at once.
LEMMA AnswersMoves ==
  ASSUME PyTypeOK, OneEach, NEW k \in Keys, NEW type, Takes(k, type), NEW ok \in BOOLEAN,
         stdout' = Append(stdout, Result(Head(queue[k]), ok)),
         UNCHANGED <<alive, stdin, instances, external, task, unposted>>
  PROVE  /\ MovesOnly(k) /\ Reports(k)' = Reports(k)
         /\ Ahead(stdout) => Ahead(stdout')
         /\ \E r \in InQueue(k) : r.type = type /\ Result(r, ok) \in Replies(k)'
<1>1. PICK r : r = Head(queue[k])
  OBVIOUS
<1>2. /\ r \in LifecycleRequests /\ r \in BridgeRequests /\ r.type = type /\ r.key = k
      /\ InQueue(k) = {r} \union InQueue(k)'
      /\ Differ(InQueue(k)', {r})
      /\ \A j \in Keys \ {k} : InQueue(j)' = InQueue(j)
      /\ \A j \in Keys : Single(queue'[j])
  BY <1>1, QueueTail
<1> DEFINE y == Result(r, ok)
<1>3. y \in Results /\ y.id = r.id /\ y.key = k /\ stdout' = Append(stdout, y)
  BY <1>1, <1>2, RequestIsNoReport
<1> HIDE DEF y
<1>4. Apart(k) /\ Keyed(k) /\ Single(stdin')
  BY DEF OneEach
<1>5. Differ(Replies(k), {y})
  BY <1>2, <1>3, <1>4 DEF Apart, Disjoint, Differ
<1>6. /\ Single(stdout') /\ Replies(k)' = Replies(k) \union {y}
      /\ \A j \in Keys \ {k} : Replies(j)' = Replies(j)
      /\ \A j \in Keys : Reports(j)' = Reports(j)
      /\ Ahead(stdout) => Ahead(stdout')
  BY <1>3, <1>5, ReplyPosted
<1>7. \A j : InStdin(j)' = InStdin(j) /\ InTask(j)' = InTask(j)
  BY DEF InStdin, InTask
<1>8. Frame(k)
  BY <1>2, <1>6, <1>7 DEF Frame, Same
<1>9. Apart(k)'
  BY <1>2, <1>3, <1>4, <1>6, <1>7 DEF Apart, Disjoint, Differ
<1>10. Keyed(k)'
  BY <1>2, <1>4, <1>7 DEF Keyed
<1>11. OneEach'
  BY <1>2, <1>4, <1>6, <1>8, <1>9, <1>10, FrameKeeps
<1>12. MovesOnly(k)
  BY <1>2, <1>3, <1>6, <1>7, <1>8, <1>11 DEF MovesOnly, Held, Waiting, Tokens
<1>13. y \in Replies(k)'
  BY <1>6
<1>14. QED
  BY <1>2, <1>6, <1>12, <1>13 DEF y

\* A worker is done with its request.
LEMMA EndsMoves ==
  ASSUME PyTypeOK, OneEach, NEW k \in Keys, task[k] # Idle, FinishTask(k),
         UNCHANGED <<stdin, queue>>, NEW y, y.id = task[k].id,
         Single(stdout'), Replies(k)' = Replies(k) \union {y},
         \A j \in Keys \ {k} :
           /\ Replies(j)' = Replies(j) /\ instances'[j] = instances[j]
           /\ unposted = {} => Reports(j)' = Reports(j)
           /\ \A e \in Events : <<j, e>> \in external' <=> <<j, e>> \in external
  PROVE  MovesOnly(k) /\ InTask(k)' = {} /\ task'[k] = Idle
<1>1. task'[k] = Idle /\ \A j \in Keys \ {k} : task'[j] = task[j]
  BY DEF PyTypeOK, FinishTask
<1>2. InTask(k) = {task[k]} /\ InTask(k)' = {} /\ \A j \in Keys \ {k} : InTask(j)' = InTask(j)
  BY <1>1 DEF InTask
<1>3. \A j : InStdin(j)' = InStdin(j) /\ InQueue(j)' = InQueue(j)
  BY DEF InStdin, InQueue
<1>4. Apart(k) /\ Keyed(k) /\ Single(stdin') /\ \A j \in Keys : Single(queue'[j])
  BY DEF OneEach
<1>5. Frame(k)
  BY <1>2, <1>3 DEF Frame, Same
<1>6. Apart(k)'
  BY <1>2, <1>3, <1>4 DEF Apart, Disjoint, Differ
<1>7. Keyed(k)'
  BY <1>2, <1>3, <1>4 DEF Keyed
<1>8. OneEach'
  BY <1>4, <1>5, <1>6, <1>7, FrameKeeps
<1>9. QED
  BY <1>1, <1>2, <1>3, <1>5, <1>8 DEF MovesOnly, Held, Waiting, Tokens

\* The reply of the request a worker runs differs from those posted before.
LEMMA TaskReply ==
  ASSUME PyTypeOK, OneEach, NEW k \in Keys, task[k] # Idle, NEW ok \in BOOLEAN
  PROVE  /\ task[k] \in LifecycleRequests /\ task[k].key = k
         /\ Result(task[k], ok) \in Results
         /\ Result(task[k], ok).id = task[k].id /\ Result(task[k], ok).key = k
         /\ Differ(Replies(k), {Result(task[k], ok)})
<1>1. task[k] \in LifecycleRequests /\ task[k] \in BridgeRequests
  BY DEF PyTypeOK, BridgeRequests
<1>2. task[k].key = k /\ Apart(k) /\ task[k] \in InTask(k)
  BY DEF OneEach, Keyed, InTask
<1>3. /\ Result(task[k], ok) \in Results /\ Result(task[k], ok).id = task[k].id
      /\ Result(task[k], ok).key = k
  BY <1>1, <1>2, RequestIsNoReport
<1>4. QED
  BY <1>1, <1>2, <1>3 DEF Apart, Disjoint, Differ

(* The worker's steps one by one, as an instance sees them.  What they say of *)
(* reports and their order holds while no driver publishes on its own.        *)

PostsState(k, state) ==
  unposted = {} =>
    /\ unposted' = {}
    /\ Reports(k)' = Reports(k) \union {StateReport(k, state)}
    /\ Ahead(stdout) /\ Replies(k) = {} => Ahead(stdout')
PostsNothing(k) ==
  unposted = {} => unposted' = {} /\ Reports(k)' = Reports(k) /\ (Ahead(stdout) => Ahead(stdout'))
Replied(k, type, ok) ==
  \E r \in InQueue(k) \union InTask(k) : r.type = type /\ Result(r, ok) \in Replies(k)'
Runs(k, type) == \E r \in InQueue(k) : r.type = type /\ InTask(k)' = {r}
Becomes(k, state) == instances' = [instances EXCEPT ![k] = state]

LEMMA ReportFields ==
  \A k \in Keys, state \in DriverStates :
    StateReport(k, state) \in StateReports /\ StateReport(k, state).key = k
    /\ StateReport(k, state).state = state
BY DEF StateReport, StateReports

LEMMA StartBeginsDoes ==
  ASSUME PyTypeOK, OneEach, NEW k \in Keys, StartBegins(k)
  PROVE  /\ MovesOnly(k) /\ Runs(k, "start-driver") /\ PostsState(k, "starting")
         /\ Becomes(k, "starting") /\ external' = external
         /\ instances[k] = "absent" /\ \A d \in Deps[k] : instances[d] = "running"
<1>1. /\ Takes(k, "start-driver") /\ Becomes(k, "starting")
      /\ instances[k] = "absent" /\ \A d \in Deps[k] : instances[d] = "running"
      /\ task' = [task EXCEPT ![k] = Head(queue[k])]
      /\ stdout' = Append(stdout, StateReport(k, "starting"))
      /\ UNCHANGED <<alive, stdin, external, unposted>>
  BY DEF StartBegins, Becomes
<1>2. StateReport(k, "starting") \in StateReports /\ StateReport(k, "starting").key = k
  BY ReportFields DEF DriverStates
<1>3. /\ Single(stdout') /\ \A j \in Keys : Replies(j)' = Replies(j)
      /\ Reports(k)' = Reports(k) \union {StateReport(k, "starting")}
      /\ \A j \in Keys \ {k} : Reports(j)' = Reports(j)
      /\ Ahead(stdout) /\ Replies(k) = {} => Ahead(stdout')
  BY <1>1, <1>2, ReportPosted
<1>4. \A j \in Keys \ {k} : instances'[j] = instances[j]
  BY <1>1 DEF Becomes, PyTypeOK
<1>5. /\ MovesOnly(k)
      /\ \E r \in InQueue(k) : r.type = "start-driver" /\ InTask(k)' = {r} /\ task'[k] = r
  BY <1>1, <1>3, <1>4, BeginsMoves
<1>6. QED
  BY <1>1, <1>3, <1>5 DEF Runs, PostsState

LEMMA StopBeginsDoes ==
  ASSUME PyTypeOK, OneEach, NEW k \in Keys, StopBegins(k)
  PROVE  /\ MovesOnly(k) /\ Runs(k, "stop-driver") /\ PostsState(k, "stopping")
         /\ Becomes(k, "stopping") /\ external' = external
         /\ instances[k] # "absent"
<1>1. /\ Takes(k, "stop-driver") /\ Becomes(k, "stopping")
      /\ instances[k] # "absent"
      /\ task' = [task EXCEPT ![k] = Head(queue[k])]
      /\ stdout' = Append(stdout, StateReport(k, "stopping"))
      /\ UNCHANGED <<alive, stdin, external, unposted>>
  BY DEF StopBegins, Becomes
<1>2. StateReport(k, "stopping") \in StateReports /\ StateReport(k, "stopping").key = k
  BY ReportFields DEF DriverStates
<1>3. /\ Single(stdout') /\ \A j \in Keys : Replies(j)' = Replies(j)
      /\ Reports(k)' = Reports(k) \union {StateReport(k, "stopping")}
      /\ \A j \in Keys \ {k} : Reports(j)' = Reports(j)
      /\ Ahead(stdout) /\ Replies(k) = {} => Ahead(stdout')
  BY <1>1, <1>2, ReportPosted
<1>4. \A j \in Keys \ {k} : instances'[j] = instances[j]
  BY <1>1 DEF Becomes, PyTypeOK
<1>5. /\ MovesOnly(k)
      /\ \E r \in InQueue(k) : r.type = "stop-driver" /\ InTask(k)' = {r} /\ task'[k] = r
  BY <1>1, <1>3, <1>4, BeginsMoves
<1>6. QED
  BY <1>1, <1>3, <1>5 DEF Runs, PostsState

LEMMA StartRepeatedDoes ==
  ASSUME PyTypeOK, OneEach, NEW k \in Keys, StartRepeated(k)
  PROVE  /\ MovesOnly(k) /\ Runs(k, "start-driver") /\ PostsNothing(k)
         /\ UNCHANGED <<instances, external>> /\ instances[k] = "running"
<1>1. /\ Takes(k, "start-driver") /\ instances[k] = "running"
      /\ task' = [task EXCEPT ![k] = Head(queue[k])]
      /\ UNCHANGED <<alive, stdin, stdout, instances, external, unposted>>
  BY DEF StartRepeated
<1>2. /\ Single(stdout')
      /\ \A j : Replies(j)' = Replies(j) /\ Reports(j)' = Reports(j)
  BY <1>1 DEF OneEach, Replies, Reports
<1>3. /\ MovesOnly(k)
      /\ \E r \in InQueue(k) : r.type = "start-driver" /\ InTask(k)' = {r} /\ task'[k] = r
  BY <1>1, <1>2, BeginsMoves
<1>4. QED
  BY <1>1, <1>2, <1>3 DEF Runs, PostsNothing

LEMMA RefusalsDo ==
  ASSUME PyTypeOK, OneEach, NEW k \in Keys, StartRefused(k) \/ StopAbsent(k)
  PROVE  /\ MovesOnly(k) /\ PostsNothing(k) /\ UNCHANGED <<instances, external>>
         /\ InTask(k)' = InTask(k)
         /\ \/ instances[k] # "running" /\ Replied(k, "start-driver", FALSE)
            \/ instances[k] = "absent" /\ Replied(k, "stop-driver", TRUE)
<1>1. UNCHANGED <<alive, stdin, instances, external, task, unposted>>
  BY DEF StartRefused, StopAbsent
<1>2. CASE StartRefused(k)
  <2>1. /\ Takes(k, "start-driver") /\ instances[k] # "running"
        /\ stdout' = Append(stdout, Result(Head(queue[k]), FALSE))
    BY <1>2 DEF StartRefused
  <2>2. /\ MovesOnly(k) /\ Reports(k)' = Reports(k)
        /\ Ahead(stdout) => Ahead(stdout')
        /\ \E r \in InQueue(k) : r.type = "start-driver" /\ Result(r, FALSE) \in Replies(k)'
    BY <1>1, <2>1, AnswersMoves
  <2>3. QED
    BY <1>1, <2>1, <2>2 DEF PostsNothing, Replied, InTask
<1>3. CASE StopAbsent(k)
  <2>1. /\ Takes(k, "stop-driver") /\ instances[k] = "absent"
        /\ stdout' = Append(stdout, Result(Head(queue[k]), TRUE))
    BY <1>3 DEF StopAbsent
  <2>2. /\ MovesOnly(k) /\ Reports(k)' = Reports(k)
        /\ Ahead(stdout) => Ahead(stdout')
        /\ \E r \in InQueue(k) : r.type = "stop-driver" /\ Result(r, TRUE) \in Replies(k)'
    BY <1>1, <2>1, AnswersMoves
  <2>3. QED
    BY <1>1, <2>1, <2>2 DEF PostsNothing, Replied, InTask
<1>4. QED
  BY <1>2, <1>3

\* The last step of a request: the reply, with the last state before it.
LEMMA LastPost ==
  ASSUME PyTypeOK, OneEach, NEW k \in Keys, task[k].type \in {"start-driver", "stop-driver"},
         NEW state \in DriverStates, NEW ok \in BOOLEAN,
         PostsThen(StateReport(k, state), Result(task[k], ok)), FinishTask(k),
         UNCHANGED <<stdin, queue>>,
         \A j \in Keys \ {k} : instances'[j] = instances[j],
         external' = external \/ DropExternal(k)
  PROVE  /\ MovesOnly(k) /\ InTask(k)' = {} /\ PostsState(k, state) /\ Replied(k, task[k].type, ok)
<1>1. task[k] # Idle
  BY DEF Idle
<1> DEFINE x == StateReport(k, state)
           y == Result(task[k], ok)
<1>2. /\ y \in Results /\ y.id = task[k].id /\ y.key = k /\ Differ(Replies(k), {y})
  BY <1>1, TaskReply
<1>3. x \in StateReports /\ x.key = k
  BY ReportFields
<1>4. PostsThen(x, y)
  OBVIOUS
<1> HIDE DEF x, y
<1>5. /\ Single(stdout')
      /\ Replies(k)' = Replies(k) \union {y}
      /\ \A j \in Keys \ {k} : Replies(j)' = Replies(j)
      /\ unposted = {} =>
           /\ unposted' = {}
           /\ Reports(k)' = Reports(k) \union {x}
           /\ \A j \in Keys \ {k} : Reports(j)' = Reports(j)
           /\ Ahead(stdout) /\ Replies(k) = {} => Ahead(stdout')
  BY <1>2, <1>3, <1>4, BothPosted
<1>6. \A j \in Keys \ {k} : \A e \in Events : <<j, e>> \in external' <=> <<j, e>> \in external
  BY DEF DropExternal
<1>7. \A j \in Keys \ {k} :
        /\ Replies(j)' = Replies(j) /\ instances'[j] = instances[j]
        /\ unposted = {} => Reports(j)' = Reports(j)
        /\ \A e \in Events : <<j, e>> \in external' <=> <<j, e>> \in external
  BY <1>5, <1>6
<1>8. MovesOnly(k) /\ InTask(k)' = {}
  BY <1>1, <1>2, <1>5, <1>7, EndsMoves
<1>9. task[k] \in InTask(k) /\ y \in Replies(k)'
  BY <1>1, <1>5 DEF InTask
<1>10. PostsState(k, state)
  BY <1>5 DEF PostsState, x
<1>11. Replied(k, task[k].type, ok)
  BY <1>9 DEF Replied, y
<1>12. QED
  BY <1>8, <1>10, <1>11

LEMMA StartReportedDoes ==
  ASSUME PyTypeOK, OneEach, NEW k \in Keys, StartReported(k)
  PROVE  /\ MovesOnly(k) /\ InTask(k)' = {} /\ PostsState(k, "running")
         /\ Replied(k, "start-driver", TRUE)
         /\ UNCHANGED <<instances, external>> /\ instances[k] # "starting" /\ InTask(k) # {}
<1>1. /\ task[k].type = "start-driver" /\ instances[k] # "starting"
      /\ PostsThen(StateReport(k, "running"), Result(task[k], TRUE))
      /\ FinishTask(k)
      /\ UNCHANGED <<alive, stdin, instances, external, queue>>
  BY DEF StartReported
<1>2. InTask(k) # {}
  BY <1>1 DEF InTask, Idle
<1>3. QED
  BY <1>1, <1>2, LastPost DEF DriverStates

LEMMA StopSucceedsDoes ==
  ASSUME PyTypeOK, OneEach, NEW k \in Keys, StopSucceeds(k)
  PROVE  /\ MovesOnly(k) /\ InTask(k)' = {} /\ PostsState(k, "available")
         /\ Replied(k, "stop-driver", TRUE)
         /\ Becomes(k, "absent") /\ DropExternal(k) /\ InTask(k) # {}
<1>1. /\ task[k].type = "stop-driver" /\ Becomes(k, "absent") /\ DropExternal(k)
      /\ PostsThen(StateReport(k, "available"), Result(task[k], TRUE))
      /\ FinishTask(k)
      /\ UNCHANGED <<alive, stdin, queue>>
  BY DEF StopSucceeds, Becomes
<1>2. \A j \in Keys \ {k} : instances'[j] = instances[j]
  BY <1>1 DEF Becomes, PyTypeOK
<1>3. InTask(k) # {}
  BY <1>1 DEF InTask, Idle
<1>4. QED
  BY <1>1, <1>2, <1>3, LastPost DEF DriverStates

LEMMA StopTimesOutDoes ==
  ASSUME PyTypeOK, OneEach, NEW k \in Keys, StopTimesOut(k)
  PROVE  /\ MovesOnly(k) /\ InTask(k)' = {} /\ PostsState(k, "errored")
         /\ Replied(k, "stop-driver", FALSE)
         /\ Becomes(k, "errored") /\ external' = external /\ InTask(k) # {}
<1>1. /\ task[k].type = "stop-driver" /\ Becomes(k, "errored")
      /\ PostsThen(StateReport(k, "errored"), Result(task[k], FALSE))
      /\ FinishTask(k)
      /\ UNCHANGED <<alive, stdin, external, queue>>
  BY DEF StopTimesOut, Becomes
<1>2. \A j \in Keys \ {k} : instances'[j] = instances[j]
  BY <1>1 DEF Becomes, PyTypeOK
<1>3. InTask(k) # {}
  BY <1>1 DEF InTask, Idle
<1>4. QED
  BY <1>1, <1>2, <1>3, LastPost DEF DriverStates

LEMMA StartFailsDoes ==
  ASSUME PyTypeOK, OneEach, NEW k \in Keys, StartFails(k)
  PROVE  /\ MovesOnly(k) /\ InTask(k)' = {} /\ PostsNothing(k)
         /\ Replied(k, "start-driver", FALSE)
         /\ Becomes(k, "absent") /\ DropExternal(k) /\ InTask(k) # {}
<1>1. /\ task[k].type = "start-driver" /\ Becomes(k, "absent") /\ DropExternal(k)
      /\ stdout' = Append(stdout, Result(task[k], FALSE))
      /\ FinishTask(k)
      /\ UNCHANGED <<alive, stdin, queue, unposted>>
  BY DEF StartFails, Becomes
<1>2. task[k] # Idle
  BY <1>1 DEF Idle
<1> DEFINE y == Result(task[k], FALSE)
<1>3. /\ y \in Results /\ y.id = task[k].id /\ y.key = k /\ Differ(Replies(k), {y})
  BY <1>2, TaskReply
<1>4. stdout' = Append(stdout, y)
  BY <1>1
<1> HIDE DEF y
<1>5. /\ Single(stdout') /\ Replies(k)' = Replies(k) \union {y}
      /\ \A j \in Keys \ {k} : Replies(j)' = Replies(j)
      /\ \A j \in Keys : Reports(j)' = Reports(j)
      /\ Ahead(stdout) => Ahead(stdout')
  BY <1>3, <1>4, ReplyPosted
<1>6. \A j \in Keys \ {k} :
        /\ instances'[j] = instances[j]
        /\ \A e \in Events : <<j, e>> \in external' <=> <<j, e>> \in external
  BY <1>1 DEF Becomes, PyTypeOK, DropExternal
<1>7. MovesOnly(k) /\ InTask(k)' = {}
  BY <1>1, <1>2, <1>3, <1>5, <1>6, EndsMoves
<1>8. task[k] \in InTask(k) /\ y \in Replies(k)'
  BY <1>2, <1>5 DEF InTask
<1>9. QED
  BY <1>1, <1>5, <1>7, <1>8 DEF PostsNothing, Replied, y

\* The steps that move no request.
LEMMA InstanceStepsDo ==
  ASSUME PyTypeOK, OneEach, NEW k \in Keys,
         StartSucceeds(k) \/ \E state \in {"running", "errored"} : DriverPublishes(k, state)
  PROVE  /\ MovesOnly(k) /\ InTask(k)' = InTask(k) /\ InQueue(k)' = InQueue(k)
         /\ InStdin(k)' = InStdin(k) /\ Replies(k)' = Replies(k) /\ Reports(k)' = Reports(k)
         /\ UNCHANGED <<stdout, external>>
         /\ \/ Becomes(k, "running") /\ instances[k] = "starting" /\ task[k].type = "start-driver"
               /\ unposted' = unposted
            \/ unposted' # unposted \/ \E state \in {"running", "errored"} : DriverPublishes(k, state)
<1>1. UNCHANGED <<stdin, stdout, external, queue, task>>
  BY DEF StartSucceeds, DriverPublishes
<1>2. \A j \in Keys \ {k} : instances'[j] = instances[j]
  BY DEF StartSucceeds, DriverPublishes, PyTypeOK
<1>3. \A j : /\ InStdin(j)' = InStdin(j) /\ InQueue(j)' = InQueue(j) /\ InTask(j)' = InTask(j)
             /\ Replies(j)' = Replies(j) /\ Reports(j)' = Reports(j)
  BY <1>1 DEF InStdin, InQueue, InTask, Replies, Reports
<1>4. Frame(k)
  BY <1>1, <1>2, <1>3 DEF Frame, Same
<1>5. OneEach'
  BY <1>1, <1>3 DEF OneEach, Keyed, Apart
<1>6. MovesOnly(k)
  BY <1>3, <1>4, <1>5 DEF MovesOnly, Held, Waiting, Tokens
<1>7. StartSucceeds(k) =>
        /\ Becomes(k, "running") /\ instances[k] = "starting" /\ task[k].type = "start-driver"
        /\ unposted' = unposted
  BY DEF StartSucceeds, Becomes
<1>8. QED
  BY <1>1, <1>3, <1>6, <1>7

LEMMA PublishedPostedDoes ==
  ASSUME PyTypeOK, OneEach, PublishedPosted
  PROVE  \E k \in Keys : MovesOnly(k) /\ unposted # {}
<1>1. PICK report \in unposted : stdout' = Append(stdout, report)
  BY DEF PublishedPosted
<1>2. report \in StateReports /\ report.key \in Keys
  BY DEF PyTypeOK, StateReports
<1>3. /\ Single(stdout')
      /\ \A j \in Keys : Replies(j)' = Replies(j)
  BY <1>1, <1>2, ReportPosted
<1>4. UNCHANGED <<alive, stdin, instances, external, queue, task>>
  BY DEF PublishedPosted
<1>5. \A j : InStdin(j)' = InStdin(j) /\ InQueue(j)' = InQueue(j) /\ InTask(j)' = InTask(j)
  BY <1>4 DEF InStdin, InQueue, InTask
<1>6. Frame(report.key)
  BY <1>1, <1>3, <1>4, <1>5 DEF Frame, Same
<1>7. OneEach'
  BY <1>3, <1>4, <1>5 DEF OneEach, Keyed, Apart
<1>8. MovesOnly(report.key)
  BY <1>2, <1>3, <1>5, <1>6, <1>7 DEF MovesOnly, Held, Waiting, Tokens
<1>9. QED
  BY <1>1, <1>2, <1>8

-----------------------------------------------------------------------------
(* What a pass of the reconciler does to one instance.                       *)

PassLeaves(m, n, k) ==
  /\ n.inFlight[k] = m.inFlight[k] /\ n.actual[k] = m.actual[k]
  /\ m.bridgeReady /\ ~Busy(m, k) => ~MustStart(m, k) /\ ~MustStop(m, k) /\ ~MustSync(m, k)
PassStarts(m, n, k, id) ==
  /\ m.bridgeReady /\ ~Busy(m, k) /\ MustStart(m, k)
  /\ n.actual[k] = "starting" /\ n.inFlight[k] = Lifecycle(m, "start", id)
PassStops(m, n, k, id) ==
  /\ m.bridgeReady /\ ~Busy(m, k) /\ MustStop(m, k)
  /\ n.actual[k] = "stopping" /\ n.inFlight[k] = Lifecycle(m, "stop", id)
PassSyncs(m, n, k, id) ==
  /\ m.bridgeReady /\ ~Busy(m, k) /\ MustSync(m, k)
  /\ n.actual[k] = m.actual[k] /\ n.inFlight[k] = Sync(m, SubscriptionChanges(m, k), id)

LEMMA KickDoes ==
  ASSUME NEW m \in Managers, NEW id \in Nat
  PROVE  LET n == Kick(m, id) IN
         /\ n.subscriptions = m.subscriptions /\ n.leases = m.leases /\ n.newer = m.newer
         /\ n.failedSubscriptions = m.failedSubscriptions /\ n.stopRetries = m.stopRetries
         /\ n.active = m.active /\ n.bridgeReady = m.bridgeReady
         /\ n.startErrors = IF m.bridgeReady THEN m.startErrors \intersect Desired(m)
                            ELSE m.startErrors
         /\ \A k \in Keys : \/ PassLeaves(m, n, k) \/ PassStarts(m, n, k, id)
                            \/ PassStops(m, n, k, id) \/ PassSyncs(m, n, k, id)
<1> DEFINE n == [m EXCEPT !.startErrors = m.startErrors \intersect Desired(m)]
           stops == {k \in Free(n) : MustStop(n, k)}
           starts == {k \in Free(n) : MustStart(n, k)}
           syncs == {k \in Free(n) : MustSync(n, k)}
           actual == [k \in Keys |-> IF k \in starts THEN "starting"
                                     ELSE IF k \in stops THEN "stopping"
                                     ELSE n.actual[k]]
           inFlight == [k \in Keys |->
                          IF k \in starts THEN Lifecycle(m, "start", id)
                          ELSE IF k \in stops THEN Lifecycle(m, "stop", id)
                          ELSE IF k \in syncs THEN Sync(m, SubscriptionChanges(n, k), id)
                          ELSE n.inFlight[k]]
<1>1. CASE ~m.bridgeReady
  <2>1. Kick(m, id) = m
    BY <1>1, KickKeeps
  <2>2. QED
    BY <1>1, <2>1 DEF PassLeaves
<1>2. CASE m.bridgeReady
  <2>1. Kick(m, id) = [n EXCEPT !.actual = actual, !.inFlight = inFlight]
    BY <1>2 DEF Kick
  <2>2. /\ n.actual = m.actual /\ n.inFlight = m.inFlight /\ n.leases = m.leases
        /\ n.subscriptions = m.subscriptions /\ n.failedSubscriptions = m.failedSubscriptions
        /\ n.stopRetries = m.stopRetries /\ n.newer = m.newer
        /\ n.active = m.active /\ n.bridgeReady = m.bridgeReady
        /\ n.startErrors = m.startErrors \intersect Desired(m)
        /\ n \in Managers
    BY DEF Managers
  <2>3. \A k \in Keys : /\ MustStop(n, k) <=> MustStop(m, k)
                        /\ MustStart(n, k) <=> MustStart(m, k)
                        /\ MustSync(n, k) <=> MustSync(m, k)
                        /\ SubscriptionChanges(n, k) = SubscriptionChanges(m, k)
                        /\ k \in Free(n) <=> ~Busy(m, k)
    <3>1. Desired(n) = Desired(m)
      BY <2>2 DEF Desired
    <3>2. \A k \in Keys : /\ Present(n, k) <=> Present(m, k)
                          /\ HasPresentDependents(n, k) <=> HasPresentDependents(m, k)
                          /\ SubscriptionChanges(n, k) = SubscriptionChanges(m, k)
      BY <2>2 DEF Present, HasPresentDependents, SubscriptionChanges
    <3>3. \A k \in Keys : MustStop(n, k) <=> MustStop(m, k)
      BY <2>2, <3>1, <3>2 DEF MustStop
    <3>4. \A k \in Keys : MustStart(n, k) <=> MustStart(m, k)
      BY <2>2, <3>1, <3>2 DEF MustStart
    <3>5. \A k \in Keys : MustSync(n, k) <=> MustSync(m, k)
      BY <2>2, <3>1, <3>2 DEF MustSync
    <3>6. \A k \in Keys : k \in Free(n) <=> ~Busy(m, k)
      BY <2>2 DEF Free, Busy
    <3>7. QED
      BY <3>2, <3>3, <3>4, <3>5, <3>6
  <2>4. /\ Kick(m, id).actual = actual /\ Kick(m, id).inFlight = inFlight
        /\ Kick(m, id).subscriptions = n.subscriptions /\ Kick(m, id).leases = n.leases
        /\ Kick(m, id).newer = n.newer /\ Kick(m, id).startErrors = n.startErrors
        /\ Kick(m, id).failedSubscriptions = n.failedSubscriptions
        /\ Kick(m, id).stopRetries = n.stopRetries /\ Kick(m, id).active = n.active
        /\ Kick(m, id).bridgeReady = n.bridgeReady
    <3> HIDE DEF n, actual, inFlight
    <3>1. QED
      BY <2>1, <2>2 DEF Managers
  <2>5. ASSUME NEW k \in Keys
        PROVE  LET q == Kick(m, id) IN
               \/ PassLeaves(m, q, k) \/ PassStarts(m, q, k, id)
               \/ PassStops(m, q, k, id) \/ PassSyncs(m, q, k, id)
    <3>1. CASE k \in starts
      <4>1. actual[k] = "starting" /\ inFlight[k] = Lifecycle(m, "start", id)
        BY <3>1
      <4>2. QED
        BY <1>2, <2>3, <2>4, <3>1, <4>1 DEF PassStarts
    <3>2. CASE k \notin starts /\ k \in stops
      <4>1. actual[k] = "stopping" /\ inFlight[k] = Lifecycle(m, "stop", id)
        BY <3>2
      <4>2. QED
        BY <1>2, <2>3, <2>4, <3>2, <4>1 DEF PassStops
    <3>3. CASE k \notin starts /\ k \notin stops /\ k \in syncs
      <4>1. actual[k] = m.actual[k] /\ inFlight[k] = Sync(m, SubscriptionChanges(m, k), id)
        BY <2>2, <2>3, <3>3
      <4>2. QED
        BY <1>2, <2>3, <2>4, <3>3, <4>1 DEF PassSyncs
    <3>4. CASE k \notin starts /\ k \notin stops /\ k \notin syncs
      <4>1. actual[k] = m.actual[k] /\ inFlight[k] = m.inFlight[k]
        BY <2>2, <3>4
      <4>2. ~Busy(m, k) => ~MustStart(m, k) /\ ~MustStop(m, k) /\ ~MustSync(m, k)
        BY <2>3, <3>4
      <4>3. QED
        BY <2>4, <4>1, <4>2 DEF PassLeaves
    <3>5. QED
      BY <3>1, <3>2, <3>3, <3>4
  <2>6. QED
    BY <1>2, <2>2, <2>4, <2>5
<1>3. QED
  BY <1>1, <1>2

-----------------------------------------------------------------------------
(* Requests and replies in time: what the manager's side adds.               *)

Fresh(op, id) ==
  op \in Operations /\ op.id = id /\ op.live /\ op.result \in {"none", "error"}

\* Only an operation whose request was answered ends or sends another.
Turns(m, n, id) ==
  \A k \in Keys : \/ n.inFlight[k] = m.inFlight[k]
                  \/ ~Awaits(m, k) /\ (~Busy(n, k) \/ Fresh(n.inFlight[k], id))

LEMMA OperationsAreBusy ==
  \A op \in Operations : op # NoOperation /\ op.kind \in {"start", "stop", "sync"}
                         /\ (op.kind = "sync" => op.change \in Changes /\ op.todo \subseteq Changes)
                         /\ op.result \in Outcomes /\ op.id \in Nat /\ op.live \in BOOLEAN
BY DEF Operations, NoOperation, RequestIds

LEMMA FreshOnes ==
  ASSUME NEW m \in Managers, NEW id \in Nat
  PROVE  /\ \A kind \in {"start", "stop"} : Fresh(Lifecycle(m, kind, id), id)
         /\ \A changes \in SUBSET Changes : changes # {} => Fresh(Sync(m, changes, id), id)
<1>1. FirstOutcome(m) \in {"none", "error"}
  BY DEF FirstOutcome
<1>2. \A kind \in {"start", "stop"} : Fresh(Lifecycle(m, kind, id), id)
  <2> SUFFICES ASSUME NEW kind \in {"start", "stop"} PROVE Fresh(Lifecycle(m, kind, id), id)
    OBVIOUS
  <2>1. Lifecycle(m, kind, id) \in Operations
    BY LifecycleTypes
  <2>2. QED
    BY <1>1, <2>1 DEF Lifecycle, Fresh
<1>3. ASSUME NEW changes \in SUBSET Changes, changes # {}
      PROVE  Fresh(Sync(m, changes, id), id)
  <2>1. Sync(m, changes, id) \in Operations
    BY <1>3, SyncTypes
  <2>2. QED
    BY <1>1, <2>1 DEF Sync, Fresh
<1>4. QED
  BY <1>2, <1>3

LEMMA KickTurns ==
  ASSUME NEW m \in Managers, NEW id \in Nat
  PROVE  \A k \in Keys : \/ Kick(m, id).inFlight[k] = m.inFlight[k]
                         \/ ~Busy(m, k) /\ Fresh(Kick(m, id).inFlight[k], id)
<1> SUFFICES ASSUME NEW k \in Keys
             PROVE  \/ Kick(m, id).inFlight[k] = m.inFlight[k]
                    \/ ~Busy(m, k) /\ Fresh(Kick(m, id).inFlight[k], id)
  OBVIOUS
<1> DEFINE n == Kick(m, id)
<1>1. \/ PassLeaves(m, n, k) \/ PassStarts(m, n, k, id)
      \/ PassStops(m, n, k, id) \/ PassSyncs(m, n, k, id)
  BY KickDoes
<1> HIDE DEF n
<1>2. MustSync(m, k) => SubscriptionChanges(m, k) \in SUBSET Changes
                        /\ SubscriptionChanges(m, k) # {}
  BY SubscriptionChangesTypes DEF MustSync
<1>3. QED
  BY <1>1, <1>2, FreshOnes DEF PassLeaves, PassStarts, PassStops, PassSyncs, n

LEMMA PassTurns ==
  ASSUME NEW m \in Managers, NEW n \in Managers, n.inFlight = m.inFlight, NEW id \in Nat
  PROVE  Turns(m, Kick(n, id), id)
BY KickTurns DEF Turns, Busy, Awaits

LEMMA ProceedTurns ==
  ASSUME NEW m \in Managers, NEW k \in Keys, Busy(m, k), ~Awaits(m, k), NEW id \in Nat
  PROVE  Turns(m, Proceed(m, k, id), id)
<1> DEFINE op == m.inFlight[k]
           n == Conclude(m, k)
           over == [n EXCEPT !.inFlight[k] = NoOperation]
           next == [n EXCEPT !.inFlight[k] = Sync(m, op.todo, id)]
           goesOn == op.live /\ op.kind = "sync" /\ op.todo # {}
<1>1. op \in Operations /\ n \in Managers /\ n.inFlight = m.inFlight
  BY ConcludeTypes DEF Busy, Managers
<1>2. Proceed(m, k, id) = IF goesOn THEN next ELSE Kick(over, id)
  BY DEF Proceed
<1> HIDE DEF n
<1>3. CASE goesOn
  <2>1. Fresh(Sync(m, op.todo, id), id)
    <3>1. op.todo \in SUBSET Changes /\ op.todo # {}
      BY <1>1, <1>3, OperationsAreBusy
    <3>2. QED
      BY <3>1, FreshOnes
  <2>2. /\ next.inFlight[k] = Sync(m, op.todo, id)
        /\ \A j \in Keys \ {k} : next.inFlight[j] = m.inFlight[j]
    BY <1>1 DEF Managers
  <2>3. QED
    BY <1>2, <1>3, <2>1, <2>2 DEF Turns
<1>4. CASE ~goesOn
  <2>1. over \in Managers /\ over.inFlight[k] = NoOperation
        /\ \A j \in Keys \ {k} : over.inFlight[j] = m.inFlight[j]
    BY <1>1 DEF Managers
  <2> HIDE DEF over
  <2>2. \A j \in Keys : \/ Kick(over, id).inFlight[j] = over.inFlight[j]
                        \/ ~Busy(over, j) /\ Fresh(Kick(over, id).inFlight[j], id)
    BY <2>1, KickTurns
  <2>3. QED
    BY <1>2, <1>4, <2>1, <2>2 DEF Turns, Busy, Awaits
<1>5. QED
  BY <1>3, <1>4

\* No request or reply carries a number that was not given out.  One that carries
\* the current number belongs to the operation that awaits it, and no operation
\* is answered while its request or its reply is under way.
Timely(k) ==
  /\ \A x \in Tokens(k) : x.id \in 0..timeouts
  /\ Busy(mgr, k) => mgr.inFlight[k].id \in 0..timeouts
  /\ alive => \A x \in Tokens(k) :
       /\ x.id = timeouts => Awaits(mgr, k) /\ mgr.inFlight[k].id = timeouts
       /\ Busy(mgr, k) /\ x.id = mgr.inFlight[k].id => mgr.inFlight[k].result # "ok"
  /\ \A r \in Held(k) : Busy(mgr, k) /\ r.id = mgr.inFlight[k].id => r = RequestOf(k, mgr.inFlight[k])

\* A process that is gone holds nothing.
Dead == ~alive => /\ \A k \in Keys : Held(k) = {} /\ instances[k] = "absent"
                  /\ external = {} /\ unposted = {}

InTime == OneEach /\ Dead /\ \A k \in Keys : Timely(k)

\* Nothing is added on the bridge's side, and the manager's operations stay.
LEMMA TimelyKept ==
  ASSUME NEW k \in Keys, Timely(k), mgr'.inFlight[k] = mgr.inFlight[k], timeouts' = timeouts,
         alive' = alive, Held(k)' \subseteq Held(k),
         \A x \in Tokens(k)' : \E y \in Tokens(k) : y.id = x.id
  PROVE  Timely(k)'
BY DEF Timely, Busy, Awaits

LEMMA MovesKeepTime ==
  ASSUME InTime, NEW k \in Keys, MovesOnly(k), UNCHANGED <<mgr, timeouts, alive>>, alive
  PROVE  InTime'
<1>1. \A j \in Keys : Held(j)' \subseteq Held(j)
                      /\ \A x \in Tokens(j)' : \E y \in Tokens(j) : y.id = x.id
  BY DEF MovesOnly, Frame, Same, Held, Waiting, Tokens
<1>2. \A j \in Keys : Timely(j)'
  BY <1>1, TimelyKept DEF InTime
<1>3. OneEach' /\ Dead'
  BY DEF MovesOnly, Dead
<1>4. QED
  BY <1>2, <1>3 DEF InTime

\* What the manager writes, and at most takes from stdout.
LEMMA TurnsKeepTime ==
  ASSUME TypeOK, InTime, NEW m \in Managers, Turns(mgr, m, timeouts), Update(m),
         UNCHANGED <<alive, timeouts, queue, task, instances, external, unposted>>,
         Single(stdout'), \A k \in Keys : Replies(k)' \subseteq Replies(k)
  PROVE  InTime'
<1> DEFINE t == NewRequests(mgr, m)
           Sent(k) == {r \in Range(t) : r.key = k}
<1>1. mgr' = m /\ stdin' = IF alive THEN stdin \o t ELSE stdin
  BY DEF Update
<1>2. t \in Seq(BridgeRequests) /\ Single(t)
      /\ \A r \in Range(t) : \E k \in Keys : Sends(mgr, m, k) /\ r = RequestOf(k, m.inFlight[k])
                                             /\ r.key = k /\ r.id = m.inFlight[k].id
  BY NewRequestsFacts
<1> HIDE DEF t
<1>3. stdin \in Seq(BridgeRequests) /\ OneEach /\ timeouts \in Nat
  BY BoundsAssumption DEF TypeOK, PyTypeOK, InTime
<1>4. \A k \in Keys : \A r \in Sent(k) :
        /\ r = RequestOf(k, m.inFlight[k]) /\ r.id = m.inFlight[k].id
        /\ Awaits(m, k) /\ ~Awaits(mgr, k) /\ m.inFlight[k].id = timeouts
  <2> SUFFICES ASSUME NEW k \in Keys, NEW r \in Sent(k)
               PROVE  /\ r = RequestOf(k, m.inFlight[k]) /\ r.id = m.inFlight[k].id
                      /\ Awaits(m, k) /\ ~Awaits(mgr, k) /\ m.inFlight[k].id = timeouts
    OBVIOUS
  <2>1. /\ r = RequestOf(k, m.inFlight[k]) /\ r.id = m.inFlight[k].id
        /\ Sends(mgr, m, k)
    BY <1>2
  <2>2. QED
    BY <2>1 DEF Sends, Awaits, Turns, Fresh
<1>5. \A k \in Keys : \A r \in Sent(k) : alive => \A x \in Tokens(k) : x.id # r.id
  BY <1>4 DEF InTime, Timely
<1>6. \A k \in Keys : InQueue(k)' = InQueue(k) /\ InTask(k)' = InTask(k)
  BY DEF InQueue, InTask
<1>7. CASE alive
  <2>1. \A x \in Range(stdin) : x.key \in Keys /\ x \in InStdin(x.key)
    <3>1. Range(stdin) \subseteq BridgeRequests
      BY <1>3, RangeOfSeq
    <3>2. QED
      BY <3>1, RequestIsNoReport DEF InStdin
  <2>2. \A x \in Range(stdin) : \A n \in Range(t) : ~SameTag(x, n)
    <3>1. \A x \in Range(stdin) : x \in Tokens(x.key)
      BY <2>1 DEF Tokens, Held, Waiting
    <3>2. QED
      BY <1>5, <1>7, <2>1, <3>1 DEF SameTag
  <2>3. stdin' = stdin \o t /\ Range(stdin') = Range(stdin) \union Range(t) /\ Single(stdin')
    BY <1>1, <1>2, <1>3, <1>7, <2>2, ConcatFacts DEF OneEach
  <2>4. \A k \in Keys : InStdin(k)' = InStdin(k) \union Sent(k)
    BY <2>3 DEF InStdin
  <2>5. \A k \in Keys : Apart(k)' /\ Keyed(k)'
    <3> SUFFICES ASSUME NEW k \in Keys PROVE Apart(k)' /\ Keyed(k)'
      OBVIOUS
    <3>1. Apart(k) /\ Keyed(k)
      BY <1>3 DEF OneEach
    <3>2. \A r \in Sent(k) : \A x \in InQueue(k) \union InTask(k) \union Replies(k) : r.id # x.id
      BY <1>5, <1>7 DEF Tokens, Held, Waiting
    <3>3. Keyed(k)'
      BY <1>6, <3>1 DEF Keyed
    <3>4. QED
      BY <1>6, <2>4, <3>1, <3>2, <3>3 DEF Apart, Disjoint, Differ
  <2>6. OneEach'
    BY <1>3, <2>3, <2>5 DEF OneEach
  <2>7. \A k \in Keys : Timely(k)'
    <3> SUFFICES ASSUME NEW k \in Keys PROVE Timely(k)'
      OBVIOUS
    <3>1. Held(k)' = Held(k) \union Sent(k) /\ Tokens(k)' \subseteq Tokens(k) \union Sent(k)
      BY <1>6, <2>4 DEF Held, Waiting, Tokens
    <3>2. Timely(k)
      BY DEF InTime
    <3>3. CASE m.inFlight[k] = mgr.inFlight[k]
      <4>1. Sent(k) = {}
        <5>1. Awaits(m, k) <=> Awaits(mgr, k)
          BY <3>3 DEF Awaits, Busy
        <5>2. QED
          BY <1>4, <5>1
      <4> HIDE DEF Sent
      <4>2. Held(k)' \subseteq Held(k) /\ Tokens(k)' \subseteq Tokens(k)
        BY <3>1, <4>1
      <4>3. QED
        BY <1>1, <3>2, <3>3, <4>2, TimelyKept
    <3>4. CASE m.inFlight[k] # mgr.inFlight[k]
      <4>1. ~Awaits(mgr, k) /\ (~Busy(m, k) \/ Fresh(m.inFlight[k], timeouts))
        BY <3>4 DEF Turns
      <4>2. \A x \in Tokens(k) : x.id \in 0..timeouts /\ x.id # timeouts
        BY <1>7, <3>2, <4>1 DEF Timely
      <4>3. \A x \in Tokens(k)' : x.id \in 0..timeouts
        BY <1>3, <1>4, <3>1, <4>2
      <4>4. Busy(m, k) => m.inFlight[k].id = timeouts /\ m.inFlight[k].result # "ok"
        BY <4>1 DEF Fresh
      <4>5. \A x \in Tokens(k)' : x.id = timeouts => Awaits(m, k) /\ m.inFlight[k].id = timeouts
        BY <1>4, <3>1, <4>2
      <4>6. \A r \in Held(k)' : Busy(m, k) /\ r.id = m.inFlight[k].id
                                => r = RequestOf(k, m.inFlight[k])
        <5>1. \A r \in Held(k) : r \in Tokens(k)
          BY DEF Tokens
        <5>2. QED
          BY <1>4, <3>1, <4>2, <4>4, <5>1
      <4>7. Awaits(m, k) = Awaits(mgr, k)' /\ Busy(m, k) = Busy(mgr, k)'
        BY <1>1 DEF Awaits, Busy
      <4>8. QED
        BY <1>1, <1>3, <1>7, <4>3, <4>4, <4>5, <4>6, <4>7 DEF Timely
    <3>5. QED
      BY <3>3, <3>4
  <2>8. QED
    BY <1>7, <2>6, <2>7 DEF InTime, Dead
<1>8. CASE ~alive
  <2>1. stdin' = stdin /\ \A k \in Keys : InStdin(k)' = InStdin(k)
    BY <1>1, <1>8 DEF InStdin
  <2>2. OneEach'
    <3>1. \A k \in Keys : Apart(k)' /\ Keyed(k)'
      BY <1>3, <1>6, <2>1 DEF OneEach, Apart, Disjoint, Differ, Keyed
    <3>2. QED
      BY <1>3, <2>1, <3>1 DEF OneEach
  <2>3. \A k \in Keys : Held(k)' = {} /\ Tokens(k)' \subseteq Tokens(k)
    <3>1. \A k \in Keys : Held(k) = {}
      BY <1>8 DEF InTime, Dead
    <3>2. \A k \in Keys : Held(k)' = Held(k)
      BY <1>6, <2>1 DEF Held, Waiting
    <3>3. QED
      BY <3>1, <3>2 DEF Tokens
  <2>4. \A k \in Keys : Timely(k)'
    <3> SUFFICES ASSUME NEW k \in Keys PROVE Timely(k)'
      OBVIOUS
    <3>1. Timely(k) /\ \A x \in Tokens(k)' : x.id \in 0..timeouts
      BY <2>3 DEF InTime, Timely
    <3>2. Busy(m, k) => m.inFlight[k].id \in 0..timeouts
      BY <1>3, <3>1 DEF Turns, Timely, Busy, Fresh
    <3>3. QED
      BY <1>1, <1>8, <2>3, <3>1, <3>2 DEF Timely, Busy
  <2>5. Dead'
    BY <1>8, <2>3 DEF InTime, Dead
  <2>6. QED
    BY <2>2, <2>4, <2>5 DEF InTime
<1>9. QED
  BY <1>7, <1>8

\* The process is replaced, or it dies.
LEMMA ProcessKeepsTime ==
  ASSUME TypeOK, InTime, Spawn \/ Exit, UNCHANGED <<mgr, timeouts>>
  PROVE  InTime'
<1>1. /\ stdin' = <<>> /\ queue' = NoQueue /\ task' = NoTask /\ instances' = NoInstances
      /\ external' = {} /\ unposted' = {}
  BY DEF Spawn, Exit, ResetProcess
<1>0. stdout' = <<>> \/ (stdout' = stdout /\ ~alive')
  BY DEF Spawn, Exit
<1>2. \A k \in Keys : /\ InStdin(k)' = {} /\ InQueue(k)' = {} /\ InTask(k)' = {}
                      /\ Single(queue'[k])
  BY <1>1, EmptyFacts DEF InStdin, InQueue, InTask, NoQueue, NoTask
<1>3. \A k \in Keys : Held(k)' = {} /\ Tokens(k)' = Replies(k)'
                      /\ Replies(k)' = IF stdout' = <<>> THEN {} ELSE Replies(k)
  <2>1. stdout' = <<>> => \A k \in Keys : Replies(k)' = {}
    BY EmptyFacts DEF Replies
  <2>2. stdout' # <<>> => \A k \in Keys : Replies(k)' = Replies(k)
    BY <1>0 DEF Replies
  <2>3. QED
    BY <1>2, <2>1, <2>2 DEF Held, Waiting, Tokens
<1>4. OneEach'
  <2>1. Single(stdin') /\ Single(stdout')
    BY <1>0, <1>1, EmptyFacts DEF InTime, OneEach
  <2>2. \A k \in Keys : Keyed(k)' /\ Apart(k)'
    BY <1>2 DEF Keyed, Apart, Disjoint, Differ
  <2>3. QED
    BY <1>2, <2>1, <2>2 DEF OneEach
<1>5. Dead'
  BY <1>1, <1>3 DEF Dead, NoInstances
<1>6. \A k \in Keys : Timely(k)'
  <2> SUFFICES ASSUME NEW k \in Keys PROVE Timely(k)'
    OBVIOUS
  <2>1. Timely(k)
    BY DEF InTime
  <2>2. CASE stdout' = <<>>
    BY <1>3, <2>1, <2>2 DEF Timely, Busy
  <2>3. CASE stdout' # <<>>
    <3>1. ~alive' /\ Tokens(k)' \subseteq Tokens(k)
      BY <1>0, <1>3, <2>3 DEF Tokens
    <3>2. QED
      BY <1>3, <2>1, <3>1 DEF Timely, Busy
  <2>4. QED
    BY <2>2, <2>3
<1>7. QED
  BY <1>4, <1>5, <1>6 DEF InTime

\* The requests of the operations and their answers stay, or nobody is alive to
\* answer.
SameRequests(m, n) ==
  \A k \in Keys :
    /\ Busy(n, k) <=> Busy(m, k)
    /\ Busy(m, k) => /\ n.inFlight[k].id = m.inFlight[k].id
                     /\ n.inFlight[k].result = m.inFlight[k].result \/ ~alive
                     /\ RequestOf(k, n.inFlight[k]) = RequestOf(k, m.inFlight[k])

LEMMA SameRequestsKeepTime ==
  ASSUME InTime, SameRequests(mgr, mgr'), UNCHANGED <<pyVars, timeouts>>
  PROVE  InTime'
<1>1. \A k \in Keys : /\ InStdin(k)' = InStdin(k) /\ InQueue(k)' = InQueue(k)
                      /\ InTask(k)' = InTask(k) /\ Replies(k)' = Replies(k)
  BY DEF pyVars, InStdin, InQueue, InTask, Replies
<1>2. OneEach'
  BY <1>1 DEF InTime, OneEach, Keyed, Apart, Disjoint, Differ, pyVars
<1>3. Dead' /\ (\A k \in Keys : Held(k)' = Held(k) /\ Tokens(k)' = Tokens(k)) /\ alive' = alive
  BY <1>1 DEF InTime, Dead, Held, Waiting, Tokens, pyVars
<1>4. ASSUME NEW k \in Keys PROVE Timely(k)'
  <2>1. Timely(k) /\ (~alive => Held(k) = {})
    BY DEF InTime, Dead
  <2>2. \A r \in Held(k) : r \in Tokens(k)
    BY DEF Tokens
  <2>3. QED
    BY <1>3, <2>1, <2>2 DEF Timely, SameRequests, Busy, Awaits
<1>5. QED
  BY <1>2, <1>3, <1>4 DEF InTime

LEMMA RequestOfIgnores ==
  ASSUME NEW op \in Operations, NEW k, NEW new \in Operations,
         new.kind = op.kind, new.id = op.id, op.kind = "sync" => new.change = op.change
  PROVE  RequestOf(k, new) = RequestOf(k, op)
BY OperationsAreBusy DEF RequestOf

LEMMA BridgeHandlersKeepRequests ==
  ASSUME NEW m \in Managers
  PROVE  /\ SameRequests(m, BridgeGone(m))
         /\ ~alive => SameRequests(m, RejectPending(m))
                      /\ SameRequests(m, BridgeGone(RejectPending(m)))
<1>1. \A op \in Operations :
        /\ [op EXCEPT !.live = FALSE] \in Operations
        /\ [op EXCEPT !.live = FALSE].kind = op.kind /\ [op EXCEPT !.live = FALSE].id = op.id
        /\ [op EXCEPT !.live = FALSE].result = op.result
        /\ op.kind = "sync" => [op EXCEPT !.live = FALSE].change = op.change
  BY DEF Operations
<1>2. \A op \in Operations :
        /\ [op EXCEPT !.result = "error"] \in Operations
        /\ [op EXCEPT !.result = "error"].kind = op.kind /\ [op EXCEPT !.result = "error"].id = op.id
        /\ op.kind = "sync" => [op EXCEPT !.result = "error"].change = op.change
  BY DEF Operations, Outcomes
<1>3. ASSUME NEW n \in Managers
      PROVE  SameRequests(n, BridgeGone(n))
  <2>1. BridgeGone(n).inFlight = [k \in Keys |-> IF Busy(n, k)
                                                 THEN [n.inFlight[k] EXCEPT !.live = FALSE]
                                                 ELSE NoOperation]
    BY DEF BridgeGone, Managers
  <2>2. \A k \in Keys : Busy(n, k) => n.inFlight[k] \in Operations
    BY DEF Busy, Managers
  <2>3. ASSUME NEW k \in Keys, Busy(n, k)
        PROVE  /\ Busy(BridgeGone(n), k)
               /\ BridgeGone(n).inFlight[k].id = n.inFlight[k].id
               /\ BridgeGone(n).inFlight[k].result = n.inFlight[k].result
               /\ RequestOf(k, BridgeGone(n).inFlight[k]) = RequestOf(k, n.inFlight[k])
    <3>1. BridgeGone(n).inFlight[k] = [n.inFlight[k] EXCEPT !.live = FALSE]
      BY <2>1, <2>3
    <3>2. BridgeGone(n).inFlight[k] \in Operations
      BY <1>1, <2>2, <2>3, <3>1
    <3>3. RequestOf(k, BridgeGone(n).inFlight[k]) = RequestOf(k, n.inFlight[k])
      <4>1. PICK old : old = n.inFlight[k]
        OBVIOUS
      <4>2. PICK new : new = BridgeGone(n).inFlight[k]
        OBVIOUS
      <4>3. RequestOf(k, new) = RequestOf(k, old)
        BY <1>1, <2>2, <2>3, <3>1, <3>2, <4>1, <4>2, RequestOfIgnores
      <4>4. QED
        BY <4>1, <4>2, <4>3
    <3>4. QED
      BY <1>1, <2>2, <2>3, <3>1, <3>2, <3>3, OperationsAreBusy DEF Busy
  <2>4. \A k \in Keys : ~Busy(n, k) => ~Busy(BridgeGone(n), k)
    BY <2>1 DEF Busy
  <2>5. QED
    BY <2>3, <2>4 DEF SameRequests
<1>4. ASSUME ~alive
      PROVE  SameRequests(m, RejectPending(m))
  <2>1. RejectPending(m).inFlight = [k \in Keys |-> IF Awaits(m, k)
                                                    THEN [m.inFlight[k] EXCEPT !.result = "error"]
                                                    ELSE m.inFlight[k]]
    BY DEF RejectPending, Managers
  <2>2. \A k \in Keys : Busy(m, k) => m.inFlight[k] \in Operations
    BY DEF Busy, Managers
  <2>3. ASSUME NEW k \in Keys, Awaits(m, k)
        PROVE  /\ Busy(RejectPending(m), k) /\ Busy(m, k)
               /\ RejectPending(m).inFlight[k].id = m.inFlight[k].id
               /\ RequestOf(k, RejectPending(m).inFlight[k]) = RequestOf(k, m.inFlight[k])
    <3>1. RejectPending(m).inFlight[k] = [m.inFlight[k] EXCEPT !.result = "error"] /\ Busy(m, k)
      BY <2>1, <2>3 DEF Awaits
    <3>2. RejectPending(m).inFlight[k] \in Operations
      BY <1>2, <2>2, <3>1
    <3>3. RequestOf(k, RejectPending(m).inFlight[k]) = RequestOf(k, m.inFlight[k])
      <4>1. PICK old : old = m.inFlight[k]
        OBVIOUS
      <4>2. PICK new : new = RejectPending(m).inFlight[k]
        OBVIOUS
      <4>3. /\ old \in Operations /\ new \in Operations /\ new.kind = old.kind
            /\ new.id = old.id /\ (old.kind = "sync" => new.change = old.change)
        BY <1>2, <2>2, <3>1, <3>2, <4>1, <4>2
      <4>4. RequestOf(k, new) = RequestOf(k, old)
        BY <4>3, RequestOfIgnores
      <4>5. QED
        BY <4>1, <4>2, <4>4
    <3>4. QED
      BY <1>2, <2>2, <3>1, <3>2, <3>3, OperationsAreBusy DEF Busy
  <2>4. \A k \in Keys : ~Awaits(m, k) => RejectPending(m).inFlight[k] = m.inFlight[k]
    BY <2>1
  <2>5. QED
    BY <1>4, <2>3, <2>4 DEF SameRequests, Busy
<1>5. ASSUME ~alive
      PROVE  SameRequests(m, BridgeGone(RejectPending(m)))
  <2>1. RejectPending(m) \in Managers
    BY BridgeHandlersTypes
  <2>2. SameRequests(RejectPending(m), BridgeGone(RejectPending(m)))
    BY <1>3, <2>1
  <2>3. QED
    BY <1>4, <1>5, <2>2 DEF SameRequests
<1>6. QED
  BY <1>3, <1>4, <1>5

\* The first line of stdout leaves it.
LEMMA StdoutTail ==
  ASSUME PyTypeOK, OneEach, stdout # <<>>, stdout' = Tail(stdout), NEW line, line = Head(stdout)
  PROVE  /\ line \in BridgeResponses /\ Single(stdout')
         /\ \A k \in Keys : Replies(k)' \subseteq Replies(k) /\ Reports(k)' \subseteq Reports(k)
         /\ line.type = "result" =>
              /\ Replies(line.key) = {line} \union Replies(line.key)'
              /\ Differ(Replies(line.key)', {line})
              /\ \A k \in Keys : Reports(k)' = Reports(k)
              /\ Ahead(stdout) => Reports(line.key) = {}
         /\ line.type = "driver-state" =>
              /\ Reports(line.key) = {line} \union Reports(line.key)'
              /\ \A k \in Keys : Replies(k)' = Replies(k)
         /\ \A k \in Keys : k # line.key => Replies(k)' = Replies(k) /\ Reports(k)' = Reports(k)
         /\ Ahead(stdout) => Ahead(stdout')
<1>1. stdout \in Seq(BridgeResponses) /\ Single(stdout)
  BY DEF PyTypeOK, OneEach
<1>2. /\ line \in BridgeResponses
      /\ Range(stdout) = {line} \union Range(stdout')
      /\ Single(stdout')
      /\ ~IsReport(line) => \A m \in Range(stdout') : ~IsReport(m) => ~SameTag(m, line)
      /\ Ahead(stdout) => /\ Ahead(stdout')
                          /\ line.type = "result" =>
                               \A m \in Range(stdout') : IsReport(m) => m.key # line.key
  BY <1>1, TailFacts
<1>3. Range(stdout) \subseteq BridgeResponses
  BY <1>1, RangeOfSeq
<1>4. \A m \in Range(stdout) : m.type = "result" <=> ~IsReport(m)
  BY <1>3, ResponseTypes
<1>5. line \in Range(stdout)
  BY <1>2
<1>6. \A k : /\ Replies(k) = {m \in Range(stdout) : m.type = "result" /\ m.key = k}
             /\ Replies(k)' = {m \in Range(stdout') : m.type = "result" /\ m.key = k}
             /\ Reports(k) = {m \in Range(stdout) : IsReport(m) /\ m.key = k}
             /\ Reports(k)' = {m \in Range(stdout') : IsReport(m) /\ m.key = k}
  BY DEF Replies, Reports
<1>7. \A k \in Keys : Replies(k)' \subseteq Replies(k) /\ Reports(k)' \subseteq Reports(k)
  BY <1>2, <1>6
<1>8. ASSUME line.type = "result"
      PROVE  /\ Replies(line.key) = {line} \union Replies(line.key)'
             /\ Differ(Replies(line.key)', {line})
             /\ \A k \in Keys : Reports(k)' = Reports(k)
             /\ Ahead(stdout) => Reports(line.key) = {}
  <2>1. ~IsReport(line)
    BY <1>4, <1>5, <1>8
  <2>2. Replies(line.key) = {line} \union Replies(line.key)'
    BY <1>2, <1>6, <1>8
  <2>3. \A m \in Replies(line.key)' : ~SameTag(m, line) /\ m.key = line.key
    BY <1>2, <1>4, <1>6, <2>1
  <2>4. \A k \in Keys : Reports(k)' = Reports(k)
    BY <1>2, <1>6, <2>1
  <2>5. Ahead(stdout) => Reports(line.key) = {}
    BY <1>2, <1>6, <1>8, <2>1
  <2>6. QED
    BY <2>2, <2>3, <2>4, <2>5 DEF Differ, SameTag
<1>9. ASSUME line.type = "driver-state"
      PROVE  /\ Reports(line.key) = {line} \union Reports(line.key)'
             /\ \A k \in Keys : Replies(k)' = Replies(k)
  <2>1. IsReport(line) /\ line.type # "result"
    BY <1>4, <1>5, <1>9 DEF IsReport
  <2>2. QED
    BY <1>2, <1>6, <2>1
<1>10. \A k \in Keys : k # line.key => Replies(k)' = Replies(k) /\ Reports(k)' = Reports(k)
  BY <1>2, <1>6
<1>11. QED
  BY <1>2, <1>7, <1>8, <1>9, <1>10

LEMMA NotedDoes ==
  ASSUME mgr \in Managers, NEW k \in Keys, Awaits(mgr, k), NEW result \in {"ok", "error"}
  PROVE  LET n == Noted(k, result) IN
         /\ \A j \in Keys \ {k} : n.inFlight[j] = mgr.inFlight[j]
         /\ n.inFlight[k] \in Operations /\ n.inFlight[k].id = mgr.inFlight[k].id
         /\ n.inFlight[k].result = result /\ n.inFlight[k].kind = mgr.inFlight[k].kind
         /\ n.inFlight[k].live = mgr.inFlight[k].live
         /\ n.inFlight[k].kind = "sync" => n.inFlight[k].change = mgr.inFlight[k].change
                                           /\ n.inFlight[k].todo = mgr.inFlight[k].todo
         /\ RequestOf(k, n.inFlight[k]) = RequestOf(k, mgr.inFlight[k])
         /\ Busy(n, k) /\ Busy(mgr, k)
<1>1. PICK op : op = mgr.inFlight[k]
  OBVIOUS
<1>2. op \in Operations /\ Busy(mgr, k)
  BY <1>1 DEF Awaits, Busy, Managers
<1>3. PICK new : new = [op EXCEPT !.result = result]
  OBVIOUS
<1>4. /\ new \in Operations /\ new.id = op.id /\ new.result = result /\ new.kind = op.kind
      /\ new.live = op.live
      /\ new.kind = "sync" => new.change = op.change /\ new.todo = op.todo
  BY <1>2, <1>3 DEF Operations, Outcomes
<1>5. /\ Noted(k, result).inFlight[k] = new
      /\ \A j \in Keys \ {k} : Noted(k, result).inFlight[j] = mgr.inFlight[j]
  BY <1>1, <1>3 DEF Noted, Managers
<1>6. RequestOf(k, new) = RequestOf(k, op)
  BY <1>2, <1>4, RequestOfIgnores
<1>7. QED
  BY <1>1, <1>2, <1>4, <1>5, <1>6, OperationsAreBusy DEF Busy

\* A reply settles the request it answers, and no other.
LEMMA AnswerKeepsTime ==
  ASSUME TypeOK, InTime, stdout # <<>>, stdout' = Tail(stdout),
         NEW line, line = Head(stdout), line.type = "result",
         NEW result \in {"ok", "error"},
         \/ Answers(line) /\ mgr' = Noted(line.key, result)
         \/ mgr' = mgr,
         UNCHANGED <<alive, stdin, queue, task, instances, external, unposted, timeouts>>
  PROVE  InTime'
<1>1. PyTypeOK /\ OneEach /\ mgr \in Managers
  BY DEF TypeOK, InTime
<1>2. /\ line \in BridgeResponses /\ Single(stdout')
      /\ Replies(line.key) = {line} \union Replies(line.key)'
      /\ Differ(Replies(line.key)', {line})
      /\ \A k \in Keys : Replies(k)' \subseteq Replies(k)
  BY <1>1, StdoutTail
<1>3. line.key \in Keys
  BY <1>2, ResponseTypes
<1>4. \A k \in Keys : /\ InStdin(k)' = InStdin(k) /\ InQueue(k)' = InQueue(k)
                      /\ InTask(k)' = InTask(k) /\ Held(k)' = Held(k)
                      /\ Tokens(k)' \subseteq Tokens(k)
  BY <1>2 DEF InStdin, InQueue, InTask, Held, Waiting, Tokens
<1>5. OneEach'
  <2>1. \A k \in Keys : Apart(k)' /\ Keyed(k)'
    BY <1>1, <1>2, <1>4 DEF OneEach, Apart, Disjoint, Differ, Keyed
  <2>2. QED
    BY <1>1, <1>2, <2>1 DEF OneEach
<1>6. Dead'
  BY <1>4 DEF InTime, Dead
<1>7. \A k \in Keys : mgr'.inFlight[k] = mgr.inFlight[k] => Timely(k)'
  BY <1>4, TimelyKept DEF InTime
<1>8. CASE Answers(line) /\ mgr' = Noted(line.key, result)
  <2>1. PICK k \in Keys : k = line.key
    BY <1>3
  <2>2. Awaits(mgr, k) /\ mgr.inFlight[k].id = line.id
    BY <1>8, <2>1 DEF Answers
  <2>3. /\ \A j \in Keys \ {k} : mgr'.inFlight[j] = mgr.inFlight[j]
        /\ mgr'.inFlight[k].id = line.id /\ mgr'.inFlight[k].result = result
        /\ RequestOf(k, mgr'.inFlight[k]) = RequestOf(k, mgr.inFlight[k])
        /\ Busy(mgr, k)
    BY <1>1, <1>8, <2>1, <2>2, NotedDoes
  <2>4. Timely(k)
    BY DEF InTime
  <2>5. \A x \in Tokens(k)' : x.id # line.id
    <3>1. line \in Replies(k) /\ Apart(k)
      BY <1>1, <1>2, <2>1 DEF OneEach
    <3>2. \A x \in Held(k) : x.id # line.id
      BY <3>1 DEF Apart, Disjoint, Differ, Held, Waiting
    <3>3. \A x \in Replies(k)' : x.id # line.id
      BY <1>2, <2>1 DEF Differ
    <3>4. QED
      BY <1>4, <3>2, <3>3 DEF Tokens
  <2>6. \A x \in Tokens(k)' : alive => x.id # timeouts
    BY <1>4, <2>2, <2>4, <2>5 DEF Timely
  <2>7. Timely(k)'
    <3>1. \A x \in Tokens(k)' : x.id \in 0..timeouts
      BY <1>4, <2>4 DEF Timely
    <3>2. mgr'.inFlight[k].id \in 0..timeouts
      BY <2>2, <2>3, <2>4 DEF Timely
    <3>3. \A r \in Held(k) : r.id = mgr.inFlight[k].id => r = RequestOf(k, mgr.inFlight[k])
      BY <2>3, <2>4 DEF Timely
    <3>4. QED
      BY <1>4, <2>2, <2>3, <2>5, <2>6, <3>1, <3>2, <3>3 DEF Timely
  <2>8. QED
    BY <1>5, <1>6, <1>7, <2>3, <2>7 DEF InTime
<1>9. QED
  BY <1>5, <1>6, <1>7, <1>8 DEF InTime

\* The number of a request that timed out is not used again.
LEMMA TimeoutKeepsTime ==
  ASSUME TypeOK, InTime, NEW k \in Keys, RequestTimesOut(k)
  PROVE  InTime'
<1>1. /\ Awaits(mgr, k) /\ mgr' = Noted(k, "error") /\ timeouts' = timeouts + 1
      /\ UNCHANGED pyVars /\ mgr \in Managers /\ timeouts \in Nat
  BY BoundsAssumption DEF RequestTimesOut, Noted, UNCHANGED_PY, pyVars, TypeOK
<1>2. \A j \in Keys : /\ InStdin(j)' = InStdin(j) /\ InQueue(j)' = InQueue(j)
                      /\ InTask(j)' = InTask(j) /\ Replies(j)' = Replies(j)
                      /\ Held(j)' = Held(j) /\ Tokens(j)' = Tokens(j)
  BY <1>1 DEF pyVars, InStdin, InQueue, InTask, Replies, Held, Waiting, Tokens
<1>3. OneEach' /\ Dead'
  BY <1>1, <1>2 DEF InTime, OneEach, Keyed, Apart, Disjoint, Differ, Dead, pyVars
<1>4. /\ \A j \in Keys \ {k} : mgr'.inFlight[j] = mgr.inFlight[j]
      /\ mgr'.inFlight[k].id = mgr.inFlight[k].id /\ mgr'.inFlight[k].result = "error"
      /\ RequestOf(k, mgr'.inFlight[k]) = RequestOf(k, mgr.inFlight[k])
      /\ Busy(mgr, k)
  BY <1>1, NotedDoes
<1>5. ASSUME NEW j \in Keys PROVE Timely(j)'
  <2>1. Timely(j)
    BY DEF InTime
  <2>2. \A x \in Tokens(j) : x.id \in 0..timeouts' /\ x.id # timeouts'
    BY <1>1, <2>1 DEF Timely
  <2>3. Busy(mgr, j)' => mgr'.inFlight[j].id \in 0..timeouts'
    BY <1>1, <1>4, <2>1 DEF Timely, Busy
  <2>4. \A x \in Tokens(j) : alive /\ Busy(mgr, j)' /\ x.id = mgr'.inFlight[j].id
                             => mgr'.inFlight[j].result # "ok"
    BY <1>4, <2>1 DEF Timely, Busy
  <2>5. \A r \in Held(j) : Busy(mgr, j)' /\ r.id = mgr'.inFlight[j].id
                           => r = RequestOf(j, mgr'.inFlight[j])
    BY <1>4, <2>1 DEF Timely, Busy
  <2>6. alive' = alive
    BY <1>1 DEF pyVars
  <2>7. QED
    BY <1>2, <2>2, <2>3, <2>4, <2>5, <2>6 DEF Timely
<1>6. QED
  BY <1>3, <1>5 DEF InTime

\* Every step of the bridge moves the requests of one instance at most.
LEMMA BridgeMoves ==
  ASSUME PyTypeOK, OneEach,
         \/ BridgeStep
         \/ \E k \in Keys : \E state \in {"running", "errored"} : DriverPublishes(k, state)
  PROVE  alive /\ alive' = alive /\ \E k \in Keys : MovesOnly(k)
<1>1. alive /\ alive' = alive
  BY DEF BridgeStep, ReadSubscribe, ReadLifecycle, PublishedPosted, WorkerStep, Takes,
         StartBegins, StartRepeated, StartRefused, StartSucceeds, StartReported, StartFails,
         StopAbsent, StopBegins, StopSucceeds, StopTimesOut, DriverPublishes
<1>2. CASE ReadSubscribe
  BY <1>1, <1>2, ReadSubscribeDoes
<1>3. CASE ReadLifecycle
  BY <1>1, <1>3, ReadLifecycleDoes
<1>4. CASE PublishedPosted
  BY <1>1, <1>4, PublishedPostedDoes
<1>5. ASSUME NEW k \in Keys, WorkerStep(k) PROVE MovesOnly(k)
  BY <1>5, StartBeginsDoes, StartRepeatedDoes, RefusalsDo, InstanceStepsDo, StartReportedDoes,
     StartFailsDoes, StopBeginsDoes, StopSucceedsDoes, StopTimesOutDoes DEF WorkerStep
<1>6. CASE \E k \in Keys : \E state \in {"running", "errored"} : DriverPublishes(k, state)
  BY <1>1, <1>6, InstanceStepsDo
<1>7. QED
  BY <1>1, <1>2, <1>3, <1>4, <1>5, <1>6 DEF BridgeStep

\* A pass on a manager whose operations are the current ones.
LEMMA PassKeepsTime ==
  ASSUME TypeOK, InTime, NEW n \in Managers, n.inFlight = mgr.inFlight,
         Reconcile(n) \/ Update(n),
         UNCHANGED <<alive, timeouts, queue, task, instances, external, unposted>>,
         Single(stdout'), \A k \in Keys : Replies(k)' \subseteq Replies(k)
  PROVE  InTime'
<1>1. timeouts \in Nat /\ mgr \in Managers
  BY BoundsAssumption DEF TypeOK
<1>2. CASE Reconcile(n)
  <2>1. Turns(mgr, Kick(n, timeouts), timeouts) /\ Kick(n, timeouts) \in Managers
    BY <1>1, PassTurns, KickTypes
  <2>2. Update(Kick(n, timeouts))
    BY <1>2 DEF Reconcile, NextId
  <2>3. QED
    BY <2>1, <2>2, TurnsKeepTime
<1>3. CASE Update(n)
  <2>1. Turns(mgr, n, timeouts)
    BY DEF Turns
  <2>2. QED
    BY <1>3, <2>1, TurnsKeepTime
<1>4. QED
  BY <1>2, <1>3

LEMMA StepKeepsTime ==
  TypeOK /\ InTime /\ [Next]_vars => InTime'
<1> SUFFICES ASSUME TypeOK, InTime, [Next]_vars PROVE InTime'
  OBVIOUS
<1>0. mgr \in Managers /\ PyTypeOK /\ OneEach /\ timeouts \in Nat /\ NextId = timeouts
  BY BoundsAssumption DEF TypeOK, InTime, NextId
<1>u. SameRequests(mgr, mgr)
  BY DEF SameRequests
<1>s. stdout' = stdout => Single(stdout') /\ \A k \in Keys : Replies(k)' \subseteq Replies(k)
  BY <1>0 DEF OneEach, Replies
<1>2. CASE UNCHANGED <<mgr, pyVars, timeouts>>
  BY <1>2, <1>u, SameRequestsKeepTime
<1>3. CASE PythonStep \/ \E k \in Keys, state \in {"running", "errored"} : DriverReports(k, state)
  <2>1. /\ \/ BridgeStep
           \/ \E k \in Keys : \E state \in {"running", "errored"} : DriverPublishes(k, state)
        /\ UNCHANGED <<mgr, timeouts>>
    BY <1>3 DEF PythonStep, DriverReports, nodeVars, counters
  <2>2. QED
    BY <1>0, <2>1, BridgeMoves, MovesKeepTime
<1>4. CASE StartBridge \/ ProcessExits
  <2>1. (Spawn \/ Exit) /\ UNCHANGED <<mgr, timeouts>>
    BY <1>4 DEF StartBridge, ProcessExits, nodeVars, counters
  <2>2. QED
    BY <2>1, ProcessKeepsTime
<1>5. ASSUME NEW n \in Managers, n.inFlight = mgr.inFlight, Reconcile(n), UNCHANGED_PY,
             timeouts' = timeouts
      PROVE  InTime'
  BY <1>5, <1>s, PassKeepsTime DEF UNCHANGED_PY
<1>6. ASSUME NEW n \in Managers, n.inFlight = mgr.inFlight, mgr' = n, UNCHANGED <<pyVars, timeouts>>
      PROVE  InTime'
  <2>1. SameRequests(mgr, mgr')
    BY <1>6 DEF SameRequests, Busy
  <2>2. QED
    BY <1>6, <2>1, SameRequestsKeepTime
<1>7. /\ \A c \in Calls : TakeLease(mgr, c) \in Managers
                          /\ TakeLease(mgr, c).inFlight = mgr.inFlight
      /\ \A gone : /\ DropLeases(mgr, gone) \in Managers
                   /\ DropLeases(mgr, gone).inFlight = mgr.inFlight
                   /\ Release(mgr, gone) \in Managers
                   /\ Release(mgr, gone).inFlight = mgr.inFlight
  BY <1>0, TakeLeaseTypes, DropLeasesTypes, ReleaseTypes, LeaseKeeps DEF LeasesOnly
<1>8. CASE ClientStep
  <2>1. ASSUME NEW c \in Calls, Subscribe(c) PROVE InTime'
    <3>1. UNCHANGED_PY /\ timeouts' = timeouts
          /\ (Reconcile(TakeLease(mgr, c)) \/ UNCHANGED <<mgr, stdin>>)
      BY <2>1 DEF Subscribe, counters
    <3>2. QED
      BY <1>2, <1>5, <1>7, <3>1 DEF UNCHANGED_PY, pyVars
  <2>2. ASSUME NEW client, NEW sub, Unsubscribe(client, sub) PROVE InTime'
    <3>1. UNCHANGED_PY /\ timeouts' = timeouts /\ \E newest : Reconcile(Release(mgr, {newest}))
      BY <2>2 DEF Unsubscribe, counters
    <3>2. QED
      BY <1>5, <1>7, <3>1
  <2>3. ASSUME NEW client, Disconnect(client) PROVE InTime'
    <3>1. UNCHANGED_PY /\ timeouts' = timeouts
          /\ (UNCHANGED <<mgr, stdin>> \/ \E owned : Reconcile(Release(mgr, owned)))
      BY <2>3 DEF Disconnect, counters
    <3>2. QED
      BY <1>2, <1>5, <1>7, <3>1 DEF UNCHANGED_PY, pyVars
  <2>4. QED
    BY <1>8, <2>1, <2>2, <2>3 DEF ClientStep
<1>9. ASSUME NEW c \in Calls, Wake(c) \/ Settle(c) \/ WaitTimesOut(c) PROVE InTime'
  <2>1. /\ UNCHANGED_PY /\ timeouts' = timeouts
        /\ \/ Reconcile(TakeLease(mgr, c)) \/ Reconcile(mgr)
           \/ Reconcile(DropLeases(mgr, {c}))
           \/ UNCHANGED <<mgr, stdin>>
           \/ mgr' = DropLeases(mgr, {c}) /\ UNCHANGED stdin
    BY <1>9 DEF Wake, Settle, WaitTimesOut, counters
  <2>2. CASE UNCHANGED stdin /\ mgr' \in {mgr, DropLeases(mgr, {c})}
    BY <1>0, <1>6, <1>7, <2>1, <2>2 DEF UNCHANGED_PY, pyVars
  <2>3. QED
    BY <1>0, <1>5, <1>7, <2>1, <2>2
<1>10. CASE HandleLine
  <2>1. PICK line : line = Head(stdout)
    OBVIOUS
  <2>2. /\ stdout # <<>> /\ stdout' = Tail(stdout)
        /\ UNCHANGED <<alive, timeouts, queue, task, instances, external, unposted>>
    BY <1>10 DEF HandleLine, counters
  <2>3. /\ line \in BridgeResponses /\ Single(stdout')
        /\ \A k \in Keys : Replies(k)' \subseteq Replies(k)
    BY <1>0, <2>1, <2>2, StdoutTail
  <2>4. CASE line.type = "result" /\ stdin' = stdin
    <3>1. \/ Answers(line) /\ mgr' = Noted(line.key, "ok")
          \/ Answers(line) /\ mgr' = Noted(line.key, "error")
          \/ mgr' = mgr
      BY <1>10, <2>1, <2>4 DEF HandleLine, Noted
    <3>2. QED
      BY <2>1, <2>2, <2>4, <3>1, AnswerKeepsTime
  <2>5. CASE /\ line.type = "driver-state"
             /\ \/ Reconcile(ReportState(mgr, line.key, line.state))
                \/ Update(ReportState(mgr, line.key, line.state))
    <3>1. line.key \in Keys /\ line.state \in DriverStates
      BY <2>3, <2>5 DEF BridgeResponses, Results, StateReports
    <3>2. ReportState(mgr, line.key, line.state) \in Managers
          /\ ReportState(mgr, line.key, line.state).inFlight = mgr.inFlight
      BY <1>0, <3>1, ReportStateTypes, ReportKeeps DEF BeliefsOnly
    <3>3. QED
      BY <2>2, <2>3, <2>5, <3>2, PassKeepsTime
  <2>6. QED
    BY <1>10, <2>1, <2>4, <2>5 DEF HandleLine
<1>11. ASSUME NEW k \in Keys, Resume(k) PROVE InTime'
  <2>1. /\ Busy(mgr, k) /\ ~Awaits(mgr, k) /\ Update(Proceed(mgr, k, timeouts))
        /\ UNCHANGED_PY /\ timeouts' = timeouts
    BY <1>0, <1>11 DEF Resume, Settled, Awaits, counters
  <2>2. Proceed(mgr, k, timeouts) \in Managers
        /\ Turns(mgr, Proceed(mgr, k, timeouts), timeouts)
    BY <1>0, <2>1, ProceedTypes, ProceedTurns
  <2>3. QED
    BY <1>s, <2>1, <2>2, TurnsKeepTime DEF UNCHANGED_PY
<1>12. ASSUME NEW k \in Keys, StopRetryFires(k) PROVE InTime'
  <2>1. /\ Reconcile([mgr EXCEPT !.stopRetries[k] = "due"])
        /\ UNCHANGED_PY /\ timeouts' = timeouts
    BY <1>12 DEF StopRetryFires, counters
  <2>2. [mgr EXCEPT !.stopRetries[k] = "due"] \in Managers
        /\ [mgr EXCEPT !.stopRetries[k] = "due"].inFlight = mgr.inFlight
    BY <1>0 DEF Managers
  <2>3. QED
    BY <1>5, <2>1, <2>2
<1>13. CASE BridgeReady
  <2>1. Reconcile(BridgeCame(mgr)) /\ UNCHANGED_PY /\ timeouts' = timeouts
    BY <1>13 DEF BridgeReady, counters
  <2>2. BridgeCame(mgr) \in Managers /\ BridgeCame(mgr).inFlight = mgr.inFlight
    BY <1>0, BridgeHandlersTypes DEF BridgeCame, Managers
  <2>3. QED
    BY <1>5, <2>1, <2>2
<1>14. CASE HandleExit \/ ManagerStopped \/ BridgeGivenUp
  <2>1. UNCHANGED <<pyVars, timeouts>>
    BY <1>14 DEF HandleExit, ManagerStopped, BridgeGivenUp, counters
  <2>2. SameRequests(mgr, mgr')
    BY <1>0, <1>14, BridgeHandlersKeepRequests DEF HandleExit, ManagerStopped, BridgeGivenUp
  <2>3. QED
    BY <2>1, <2>2, SameRequestsKeepTime
<1>15. CASE StopManager
  <2>1. PICK gone : mgr' = [DropLeases(mgr, gone) EXCEPT !.active = FALSE]
    BY <1>15, StopManagerActs
  <2>2. mgr' \in Managers /\ mgr'.inFlight = mgr.inFlight
    <3>1. \A n \in Managers : [n EXCEPT !.active = FALSE] \in Managers
                              /\ [n EXCEPT !.active = FALSE].inFlight = n.inFlight
      BY DEF Managers
    <3>2. QED
      BY <1>7, <2>1, <3>1
  <2>3. UNCHANGED <<pyVars, timeouts>>
    BY <1>15 DEF StopManager, counters
  <2>4. QED
    BY <1>6, <2>2, <2>3
<1>16. ASSUME NEW k \in Keys, RequestTimesOut(k) PROVE InTime'
  BY <1>16, TimeoutKeepsTime
<1>17. CASE UNCHANGED vars
  BY <1>2, <1>17 DEF vars, nodeVars, counters
<1>18. QED
  BY <1>3, <1>4, <1>8, <1>9, <1>10, <1>11, <1>12, <1>13, <1>14, <1>15, <1>16, <1>17
  DEF Next, NodeStep, Mishap

LEMMA InitiallyInTime == Init => InTime
<1> SUFFICES ASSUME Init PROVE InTime
  OBVIOUS
<1>1. stdin = <<>> /\ stdout = <<>> /\ queue = NoQueue /\ task = NoTask /\ alive = FALSE
      /\ instances = NoInstances /\ external = {} /\ unposted = {}
  BY DEF Init, PyInit
<1>2. \A k \in Keys : /\ InStdin(k) = {} /\ InQueue(k) = {} /\ InTask(k) = {} /\ Replies(k) = {}
                      /\ Single(queue[k])
  BY <1>1, EmptyFacts DEF InStdin, InQueue, InTask, Replies, NoQueue, NoTask
<1>3. OneEach
  BY <1>1, <1>2, EmptyFacts DEF OneEach, Keyed, Apart, Disjoint, Differ
<1>4. \A k \in Keys : Held(k) = {} /\ Tokens(k) = {} /\ ~Busy(mgr, k)
  BY <1>2 DEF Held, Waiting, Tokens, Init, InitialManager, Busy
<1>5. Dead
  BY <1>1, <1>4 DEF Dead, NoInstances
<1>6. QED
  BY <1>3, <1>4, <1>5 DEF InTime, Timely

LEMMA AlwaysInTime == Spec => [](TypeOK /\ InTime)
BY InitialState, InitiallyInTime, StepKeepsTypes, StepKeepsTime, PTL DEF Spec

\* However late a reply comes, the manager never takes the answer of a request
\* that timed out for the answer of the request it sent after it: while a request
\* is unread, queued or being run, its operation does not count it as done
\* (python-bridge.ts matches replies by the request's id alone).
THEOREM RepliesAnswer == Spec => []RepliesAnswerTheirRequest
<1>1. TypeOK /\ InTime => RepliesAnswerTheirRequest
  <2> SUFFICES ASSUME TypeOK, InTime, NEW k \in Keys, Busy(mgr, k),
                      mgr.inFlight[k].result = "ok", Pending(k, mgr.inFlight[k].id)
               PROVE  FALSE
    BY DEF RepliesAnswerTheirRequest
  <2>1. \E r \in Held(k) : r.id = mgr.inFlight[k].id
    <3>1. stdin \in Seq(BridgeRequests) /\ queue[k] \in Seq(LifecycleRequests)
      BY DEF TypeOK, PyTypeOK
    <3>2. /\ Range(stdin) = {stdin[i] : i \in DOMAIN stdin}
          /\ Range(queue[k]) = {queue[k][i] : i \in DOMAIN queue[k]}
      BY DEF Range
    <3>3. QED
      BY <3>2 DEF Pending, Held, Waiting, InStdin, InQueue, InTask
  <2>2. alive
    BY <2>1 DEF InTime, Dead
  <2>3. QED
    BY <2>1, <2>2 DEF InTime, Timely, Tokens
<1>2. QED
  BY <1>1, AlwaysInTime, PTL

\* "Each instance has at most one operation in flight" (manager.ts:21), as the
\* bridge sees it: while no request was given up, it holds at most one for each
\* instance, in its pipe, its queue and its worker together.
THEOREM OneRequest == Spec => [](timeouts = 0 => OneRequestPerInstance)
<1>1. TypeOK /\ InTime /\ timeouts = 0 => OneRequestPerInstance
  <2> SUFFICES ASSUME TypeOK, InTime, timeouts = 0, NEW k \in Keys,
                      NEW p \in RequestsHeld(k), NEW q \in RequestsHeld(k)
               PROVE  p = q
    BY DEF OneRequestPerInstance
  <2>0. /\ stdin \in Seq(BridgeRequests) /\ queue[k] \in Seq(LifecycleRequests)
        /\ Single(stdin) /\ Single(queue[k]) /\ Apart(k) /\ Keyed(k)
    BY DEF TypeOK, PyTypeOK, InTime, OneEach
  <2>1. \A x \in Held(k) : x.id = 0
    BY DEF InTime, Timely, Tokens
  <2>2. ASSUME NEW i \in DOMAIN stdin, stdin[i].key = k
        PROVE  i \in 1..Len(stdin) /\ stdin[i] \in InStdin(k) /\ stdin[i].id = 0
               /\ ~IsReport(stdin[i])
    BY <2>0, <2>1, <2>2, RequestIsNoReport, ElementOfSeq DEF InStdin, Range, Held, Waiting
  <2>3. ASSUME NEW i \in DOMAIN queue[k]
        PROVE  i \in 1..Len(queue[k]) /\ queue[k][i] \in InQueue(k) /\ queue[k][i].id = 0
               /\ ~IsReport(queue[k][i]) /\ queue[k][i].key = k
    <3>1. i \in 1..Len(queue[k]) /\ queue[k][i] \in InQueue(k)
      BY <2>0 DEF InQueue, Range
    <3>2. queue[k][i] \in BridgeRequests
      BY <2>0, <3>1, ElementOfSeq DEF BridgeRequests
    <3>3. QED
      BY <2>0, <2>1, <3>1, <3>2, RequestIsNoReport DEF Held, Waiting, Keyed
  <2>4. task[k] # Idle => task[k] \in InTask(k) /\ task[k].id = 0
    BY <2>1 DEF InTask, Held
  <2>5. \A i, j \in DOMAIN stdin : stdin[i].key = k /\ stdin[j].key = k => i = j
    BY <2>0, <2>2 DEF Single, SameTag
  <2>6. \A i, j \in DOMAIN queue[k] : i = j
    BY <2>0, <2>3 DEF Single, SameTag
  <2>7. \A i \in DOMAIN stdin : stdin[i].key = k => DOMAIN queue[k] = {} /\ task[k] = Idle
    BY <2>0, <2>2, <2>3, <2>4 DEF Apart, Disjoint, Differ
  <2>8. \A i \in DOMAIN queue[k] : task[k] = Idle
    BY <2>0, <2>3, <2>4 DEF Apart, Disjoint, Differ
  <2>9. QED
    BY <2>5, <2>6, <2>7, <2>8 DEF RequestsHeld
<1>2. QED
  BY <1>1, AlwaysInTime, PTL
=============================================================================
