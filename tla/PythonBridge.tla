---------------------------- MODULE PythonBridge ----------------------------
(***************************************************************************)
(* The Python bridge process (python/src/gosai_py/bridge.py): the stdin    *)
(* loop, one serial queue of lifecycle requests per instance, and the      *)
(* driver threads that report their own state.                             *)
(*                                                                         *)
(* The stdin loop answers subscribe and unsubscribe itself; start-driver   *)
(* and stop-driver wait in the queue of their instance, whose worker       *)
(* thread runs one at a time.  Starting runs `pre_run` and stopping joins  *)
(* the driver's threads, so both take arbitrarily long and may fail.       *)
(***************************************************************************)
EXTENDS BridgeProtocol

VARIABLES
  alive,      \* whether the process exists
  stdin,      \* lines Node wrote that the stdin loop has not read
  stdout,     \* lines posted to the writer that Node has not handled
  instances,  \* Bridge._instances: the state of each instance, or "absent"
  external,   \* Bridge._external_subscriptions
  queue,      \* waiting requests of each instance's SerialQueue
  task,       \* the request each queue's worker is running, or Idle
  unposted    \* reports of driver threads that changed the state but not yet posted

pyVars == <<alive, stdin, stdout, instances, external, queue, task, unposted>>

InstanceStates == {"absent", "starting", "running", "stopping", "errored"}
Idle == [type |-> "idle"]

\* The bridge and its pipes keep their types.
PyTypeOK ==
  /\ alive \in BOOLEAN
  /\ stdin \in Seq(BridgeRequests)
  /\ stdout \in Seq(BridgeResponses)
  /\ instances \in [Keys -> InstanceStates]
  /\ external \subseteq Subscriptions
  /\ queue \in [Keys -> Seq(LifecycleRequests)]
  /\ task \in [Keys -> LifecycleRequests \union {Idle}]
  /\ unposted \subseteq StateReports

NoInstances == [k \in Keys |-> "absent"]
NoQueue == [k \in Keys |-> <<>>]
NoTask == [k \in Keys |-> Idle]

PyInit ==
  /\ alive = FALSE
  /\ stdin = <<>>
  /\ stdout = <<>>
  /\ instances = NoInstances
  /\ external = {}
  /\ queue = NoQueue
  /\ task = NoTask
  /\ unposted = {}

DropExternal(k) == external' = {sub \in external : sub[1] # k}

FinishTask(k) == task' = [task EXCEPT ![k] = Idle]

\* A worker posts its last state and then its reply.  A driver thread that has a
\* report to post may get in between.
PostsThen(state, reply) ==
  \/ /\ stdout' = stdout \o <<state, reply>>
     /\ UNCHANGED unposted
  \/ \E report \in unposted :
       /\ stdout' = stdout \o <<state, report, reply>>
       /\ unposted' = unposted \ {report}

-----------------------------------------------------------------------------
(* The stdin loop.  It changes the external subscriptions and posts the     *)
(* reply in one step here: only the end of a stop of the same instance      *)
(* could tell the difference, and the manager does not subscribe during one *)
(* unless its stop timed out.                                               *)

ReadSubscribe ==
  /\ alive /\ stdin # <<>>
  /\ LET request == Head(stdin) IN
       /\ request.type \in {"subscribe", "unsubscribe"}
       /\ external' = IF request.type = "subscribe"
                      THEN external \union {<<request.key, request.event>>}
                      ELSE external \ {<<request.key, request.event>>}
       /\ stdout' = Append(stdout, Result(request, TRUE))
  /\ stdin' = Tail(stdin)
  /\ UNCHANGED <<alive, instances, queue, task, unposted>>

\* Bridge._run_queued.
ReadLifecycle ==
  /\ alive /\ stdin # <<>>
  /\ LET request == Head(stdin) IN
       /\ request.type \in {"start-driver", "stop-driver"}
       /\ queue' = [queue EXCEPT ![request.key] = Append(@, request)]
  /\ stdin' = Tail(stdin)
  /\ UNCHANGED <<alive, stdout, instances, external, task, unposted>>

-----------------------------------------------------------------------------
(* The worker of one instance's queue. *)

Takes(k, type) ==
  /\ alive /\ task[k] = Idle /\ queue[k] # <<>>
  /\ Head(queue[k]).type = type
  /\ queue' = [queue EXCEPT ![k] = Tail(@)]

\* Bridge._create_instance registers the instance as starting.
StartBegins(k) ==
  /\ Takes(k, "start-driver")
  /\ instances[k] = "absent"
  /\ \A d \in Deps[k] : instances[d] = "running"
  /\ instances' = [instances EXCEPT ![k] = "starting"]
  /\ task' = [task EXCEPT ![k] = Head(queue[k])]
  /\ stdout' = Append(stdout, StateReport(k, "starting"))
  /\ UNCHANGED <<alive, stdin, external, unposted>>

\* A repeated start of a running instance only reports it again.  The state is
\* read under the lock, so the driver may have changed it by the time of the post.
StartRepeated(k) ==
  /\ Takes(k, "start-driver")
  /\ instances[k] = "running"
  /\ task' = [task EXCEPT ![k] = Head(queue[k])]
  /\ UNCHANGED <<alive, stdin, stdout, instances, external, unposted>>

\* The instance exists in another state, or a dependency is not running.
StartRefused(k) ==
  /\ Takes(k, "start-driver")
  /\ instances[k] # "running"
  /\ instances[k] = "absent" => \E d \in Deps[k] : instances[d] # "running"
  /\ stdout' = Append(stdout, Result(Head(queue[k]), FALSE))
  /\ UNCHANGED <<alive, stdin, instances, external, task, unposted>>

\* `_bridge_start` returned: `pre_run` succeeded.
StartSucceeds(k) ==
  /\ alive /\ task[k].type = "start-driver" /\ instances[k] = "starting"
  /\ instances' = [instances EXCEPT ![k] = "running"]
  /\ UNCHANGED <<alive, stdin, stdout, external, queue, task, unposted>>

\* The worker posts the state and the reply after releasing the lock, so the
\* driver's own report may already be ahead of them in stdout.
StartReported(k) ==
  /\ alive /\ task[k].type = "start-driver" /\ instances[k] # "starting"
  /\ PostsThen(StateReport(k, "running"), Result(task[k], TRUE))
  /\ FinishTask(k)
  /\ UNCHANGED <<alive, stdin, instances, external, queue>>

\* `pre_run` or the startup config raised.  The instance is discarded with no
\* driver-state message.
StartFails(k) ==
  /\ alive /\ task[k].type = "start-driver" /\ instances[k] = "starting"
  /\ instances' = [instances EXCEPT ![k] = "absent"]
  /\ DropExternal(k)
  /\ stdout' = Append(stdout, Result(task[k], FALSE))
  /\ FinishTask(k)
  /\ UNCHANGED <<alive, stdin, queue, unposted>>

StopAbsent(k) ==
  /\ Takes(k, "stop-driver")
  /\ instances[k] = "absent"
  /\ stdout' = Append(stdout, Result(Head(queue[k]), TRUE))
  /\ UNCHANGED <<alive, stdin, instances, external, task, unposted>>

StopBegins(k) ==
  /\ Takes(k, "stop-driver")
  /\ instances[k] # "absent"
  /\ instances' = [instances EXCEPT ![k] = "stopping"]
  /\ task' = [task EXCEPT ![k] = Head(queue[k])]
  /\ stdout' = Append(stdout, StateReport(k, "stopping"))
  /\ UNCHANGED <<alive, stdin, external, unposted>>

\* Every thread of the driver has exited, so it has no report left to post.
StopSucceeds(k) ==
  /\ alive /\ task[k].type = "stop-driver"
  /\ \A report \in unposted : report.key # k
  /\ instances' = [instances EXCEPT ![k] = "absent"]
  /\ DropExternal(k)
  /\ PostsThen(StateReport(k, "available"), Result(task[k], TRUE))
  /\ FinishTask(k)
  /\ UNCHANGED <<alive, stdin, queue>>

\* A thread of the driver outlived the stop timeout.
StopTimesOut(k) ==
  /\ alive /\ task[k].type = "stop-driver"
  /\ instances' = [instances EXCEPT ![k] = "errored"]
  /\ PostsThen(StateReport(k, "errored"), Result(task[k], FALSE))
  /\ FinishTask(k)
  /\ UNCHANGED <<alive, stdin, external, queue>>

-----------------------------------------------------------------------------
(* Bridge._driver_published_state: a running driver's own thread reports that *)
(* it lost its device ("errored") or reopened it ("running").  The state      *)
(* changes under the bridge's lock and the report is posted after, so a       *)
(* worker's reports may come between.                                         *)
DriverPublishes_AnyState(k, state) ==
  /\ alive /\ instances[k] # "absent"
  /\ instances' = [instances EXCEPT ![k] = state]
  /\ unposted' = unposted \union {StateReport(k, state)}
  /\ UNCHANGED <<alive, stdin, stdout, external, queue, task>>

DriverPublishes(k, state) ==
  /\ alive /\ instances[k] = "running"
  /\ instances' = [instances EXCEPT ![k] = state]
  /\ unposted' = unposted \union {StateReport(k, state)}
  /\ UNCHANGED <<alive, stdin, stdout, external, queue, task>>

PublishedPosted ==
  /\ alive
  /\ \E report \in unposted :
       /\ stdout' = Append(stdout, report)
       /\ unposted' = unposted \ {report}
  /\ UNCHANGED <<alive, stdin, instances, external, queue, task>>

-----------------------------------------------------------------------------
(* The process: what it held dies with it, and what it wrote stays readable. *)

ResetProcess ==
  /\ stdin' = <<>>
  /\ instances' = NoInstances
  /\ external' = {}
  /\ queue' = NoQueue
  /\ task' = NoTask
  /\ unposted' = {}

Spawn ==
  /\ ~alive
  /\ alive' = TRUE
  /\ stdout' = <<>>
  /\ ResetProcess

Exit ==
  /\ alive
  /\ alive' = FALSE
  /\ ResetProcess
  /\ UNCHANGED stdout

WorkerStep(k) ==
  \/ StartBegins(k) \/ StartRepeated(k) \/ StartRefused(k)
  \/ StartSucceeds(k) \/ StartReported(k) \/ StartFails(k)
  \/ StopAbsent(k) \/ StopBegins(k) \/ StopSucceeds(k) \/ StopTimesOut(k)

BridgeStep ==
  \/ ReadSubscribe
  \/ ReadLifecycle
  \/ PublishedPosted
  \/ \E k \in Keys : WorkerStep(k)

-----------------------------------------------------------------------------
(* The bridge on its own, driven by a Node that may send anything: it takes  *)
(* at most one line of stdout and appends any requests to stdin at a time.   *)

NodeActs ==
  /\ stdout' \in {stdout, IF stdout = <<>> THEN stdout ELSE Tail(stdout)}
  /\ stdin' \in Seq(BridgeRequests)
  /\ alive \/ stdin' = stdin
  /\ Len(stdin) <= Len(stdin') /\ SubSeq(stdin', 1, Len(stdin)) = stdin
  /\ UNCHANGED <<alive, instances, external, queue, task, unposted>>

PyNext ==
  \/ BridgeStep
  \/ \E k \in Keys, state \in {"running", "errored"} : DriverPublishes(k, state)
  \/ NodeActs
  \/ Spawn \/ Exit

PySpec == PyInit /\ [][PyNext]_pyVars

-----------------------------------------------------------------------------
(* An instance is in transition exactly while the worker of its own queue
   runs the request that put it there: nothing else moves an instance out of
   starting or stopping, and a worker that finished left neither behind.
   (bridge.py:512 "the bridge owns the starting and stopping transitions".)  *)
WorkerOwnsTransitions ==
  \A k \in Keys :
    /\ instances[k] = "starting" => task[k].type = "start-driver"
    /\ instances[k] = "stopping" <=> task[k].type = "stop-driver"
    /\ task[k].type = "start-driver" => instances[k] # "absent"
=============================================================================
