---------------------------- MODULE DriverSystem ----------------------------
(***************************************************************************)
(* One driver manager, its supervised Python bridge and the clients that   *)
(* subscribe to driver events, joined by the bridge's stdin and stdout.    *)
(*                                                                         *)
(* Node is one event loop.  A macrotask (a client command, a chunk of      *)
(* stdout, a timer, a process exit) runs to its end, then every promise    *)
(* continuation it made runnable, before the next macrotask.  One chunk of *)
(* stdout may hold several lines, all handled before any continuation.     *)
(* Python's threads run at any time.                                       *)
(*                                                                         *)
(* The supervisor appears through what it does to the manager, as          *)
(* BridgeLifecycle describes it; BridgeSupervisor has its own states,      *)
(* timers and pings.                                                       *)
(***************************************************************************)
EXTENDS PythonBridge, DriverManager

CONSTANTS
  MaxOutages,    \* bound: process exits and failed health checks
  MaxTimeouts,   \* bound: requests that time out in Node
  MaxPublished,  \* bound: states drivers publish on their own
  MaxShutdowns   \* bound: 1 if the server may stop the manager, else 0

ASSUME BoundsAssumption ==
  /\ MaxOutages \in Nat /\ MaxTimeouts \in Nat
  /\ MaxPublished \in Nat /\ MaxShutdowns \in Nat

VARIABLES
  mgr,        \* the manager's fields: see Managers
  call,       \* where each `subscribe` call is
  connected,  \* clients whose connection is open
  bridge,     \* where the bridge is in its life: see BridgeLifecycle
  chunk,      \* whether more lines follow of the stdout chunk being handled
  outages, timeouts, published  \* counters of the bounded events

nodeVars == <<mgr, call, connected, bridge, chunk>>
counters == <<outages, timeouts, published>>
vars == <<pyVars, nodeVars, counters>>

(***************************************************************************)
(* A call waits for the bridge before it has a lease ("waiting"), settles, *)
(* and waits again with its lease when the bridge went down meanwhile      *)
(* ("rewaiting").  "woken" and "rewoken" calls have their continuation     *)
(* queued.  A call that returned is "idle" and can be made again once its  *)
(* lease is gone.                                                          *)
(***************************************************************************)
CallStates == {"idle", "waiting", "woken", "settling", "rewaiting", "rewoken"}

BridgeStates ==
  {"down", "starting", "up", "unresponsive", "interrupted", "stopping", "stopped", "closed"}

\* Every field of the system keeps its type.
TypeOK ==
  /\ PyTypeOK
  /\ mgr \in Managers
  /\ call \in [Calls -> CallStates]
  /\ connected \subseteq Clients
  /\ bridge \in BridgeStates
  /\ chunk \in BOOLEAN
  /\ outages \in 0..MaxOutages
  /\ timeouts \in 0..MaxTimeouts
  /\ published \in 0..MaxPublished

Init ==
  /\ PyInit
  /\ mgr = InitialManager
  /\ call = [c \in Calls |-> "idle"]
  /\ connected = Clients
  /\ bridge = "down"
  /\ chunk = FALSE
  /\ outages = 0 /\ timeouts = 0 /\ published = 0

-----------------------------------------------------------------------------
(* The event loop. *)

Settled(k) == Busy(mgr, k) /\ mgr.inFlight[k].result # "none"
MaySettle(c) ==
  call[c] = "settling" /\ \A k \in Closure[CallKey[c]] : ~Busy(mgr, k)

Continuations ==
  \/ \E k \in Keys : Settled(k)
  \/ \E c \in Calls : MaySettle(c) \/ call[c] \in {"woken", "rewoken"}
  \/ bridge = "stopped"

Macrotask == ~chunk /\ ~Continuations
Microtask == ~chunk

\* Requests that were never answered get a number of their own, so that a late
\* reply finds no pending request.
NextId == timeouts

Update_WritesAnyway(m) ==
  /\ mgr' = m
  /\ stdin' = stdin \o NewRequests(mgr, m)

\* The manager moves from its current state to `m`, and writes the requests it
\* now awaits, which a process that is gone never reads.
Update(m) ==
  /\ mgr' = m
  /\ stdin' = IF alive THEN stdin \o NewRequests(mgr, m) ELSE stdin

\* The same, with a reconciler pass.
Reconcile(m) == Update(Kick(m, NextId))

UNCHANGED_PY == UNCHANGED <<alive, stdout, instances, external, queue, task, unposted>>

-----------------------------------------------------------------------------
(* Clients. *)

\* DriverManager.subscribe, up to its first suspension.
Subscribe(c) ==
  /\ Macrotask
  /\ call[c] = "idle" /\ c \notin mgr.leases
  /\ CallClient[c] \in connected
  /\ IF mgr.bridgeReady
     THEN /\ Reconcile(TakeLease(mgr, c))
          /\ call' = [call EXCEPT ![c] = "settling"]
     ELSE /\ mgr.active
          /\ call' = [call EXCEPT ![c] = "waiting"]
          /\ UNCHANGED <<mgr, stdin>>
  /\ UNCHANGED_PY
  /\ UNCHANGED <<connected, bridge, chunk, counters>>

Unsubscribe_NoPass(client, sub) ==
  LET matching == {c \in mgr.leases : CallClient[c] = client /\ CallSub(c) = sub}
  IN  /\ Macrotask
      /\ client \in connected
      /\ \E newest \in matching :
           /\ \A c \in matching \ {newest} : <<newest, c>> \in mgr.newer
           /\ Update(Release(mgr, {newest}))
      /\ UNCHANGED_PY
      /\ UNCHANGED <<call, connected, bridge, chunk, counters>>

\* The newest of the client's leases on the subscription goes.
Unsubscribe(client, sub) ==
  LET matching == {c \in mgr.leases : CallClient[c] = client /\ CallSub(c) = sub}
  IN  /\ Macrotask
      /\ client \in connected
      /\ \E newest \in matching :
           /\ \A c \in matching \ {newest} : <<newest, c>> \in mgr.newer
           /\ Reconcile(Release(mgr, {newest}))
      /\ UNCHANGED_PY
      /\ UNCHANGED <<call, connected, bridge, chunk, counters>>

\* The gateway calls unsubscribeAll when a client's socket closes.
Disconnect(client) ==
  LET owned == {c \in mgr.leases : CallClient[c] = client}
  IN  /\ Macrotask
      /\ client \in connected
      /\ connected' = connected \ {client}
      /\ IF owned = {} THEN UNCHANGED <<mgr, stdin>> ELSE Reconcile(Release(mgr, owned))
      /\ UNCHANGED_PY
      /\ UNCHANGED <<call, bridge, chunk, counters>>

\* waitForBridge resolved.
Wake(c) ==
  /\ Microtask
  /\ call[c] \in {"woken", "rewoken"}
  /\ IF call[c] = "woken" THEN Reconcile(TakeLease(mgr, c)) ELSE Reconcile(mgr)
  /\ call' = [call EXCEPT ![c] = "settling"]
  /\ UNCHANGED_PY
  /\ UNCHANGED <<connected, bridge, chunk, counters>>

\* waitForBridge timed out; a call that holds a lease drops it.
WaitTimesOut(c) ==
  /\ Macrotask
  /\ call[c] \in {"waiting", "rewaiting"}
  /\ call' = [call EXCEPT ![c] = "idle"]
  /\ mgr' = DropLeases(mgr, {c})
  /\ UNCHANGED_PY
  /\ UNCHANGED <<stdin, connected, bridge, chunk, counters>>

\* Nothing runs on the keys of the call any more.
Settle(c) ==
  /\ Microtask
  /\ MaySettle(c)
  /\ \/ /\ mgr.bridgeReady /\ LeaseServed(mgr, c)
        /\ call' = [call EXCEPT ![c] = "idle"]
        /\ UNCHANGED <<mgr, stdin>>
     \/ /\ mgr.bridgeReady /\ ~LeaseServed(mgr, c)
        /\ call' = [call EXCEPT ![c] = "idle"]
        /\ Reconcile(DropLeases(mgr, {c}))
     \/ /\ ~mgr.bridgeReady /\ mgr.active
        /\ call' = [call EXCEPT ![c] = "rewaiting"]
        /\ UNCHANGED <<mgr, stdin>>
     \/ /\ ~mgr.bridgeReady /\ ~mgr.active
        /\ call' = [call EXCEPT ![c] = "idle"]
        /\ mgr' = DropLeases(mgr, {c})
        /\ UNCHANGED stdin
  /\ UNCHANGED_PY
  /\ UNCHANGED <<connected, bridge, chunk, counters>>

-----------------------------------------------------------------------------
(* Lines from the bridge. *)

\* A reply settles the pending request with its id, if there is one.
Answers_AnyRequest(line) == Awaits(mgr, line.key)
Answers(line) == Awaits(mgr, line.key) /\ mgr.inFlight[line.key].id = line.id

\* PythonBridge.handleLine.  A result settles the pending request with its id,
\* if there is one; a driver-state takes effect at once, and starts a pass only
\* when something runs that nobody wants.
HandleLine ==
  /\ chunk \/ Macrotask
  /\ stdout # <<>>
  /\ LET line == Head(stdout) IN
       \/ /\ line.type = "result"
          /\ IF Answers(line)
             THEN mgr' = [mgr EXCEPT !.inFlight[line.key].result =
                                       IF line.ok THEN "ok" ELSE "error"]
             ELSE UNCHANGED mgr
          /\ UNCHANGED stdin
       \/ /\ line.type = "driver-state"
          /\ LET m == ReportState(mgr, line.key, line.state) IN
               IF line.state = "running" /\ line.key \notin Desired(mgr)
               THEN Reconcile(m)
               ELSE Update(m)
  /\ stdout' = Tail(stdout)
  /\ chunk' \in IF Len(stdout) > 1 THEN BOOLEAN ELSE {FALSE}
  /\ UNCHANGED <<alive, instances, external, queue, task, unposted>>
  /\ UNCHANGED <<call, connected, bridge, counters>>

\* The operation on k resumes after its await.
Resume(k) ==
  /\ Microtask
  /\ Settled(k)
  /\ Update(Proceed(mgr, k, NextId))
  /\ UNCHANGED_PY
  /\ UNCHANGED <<call, connected, bridge, chunk, counters>>

-----------------------------------------------------------------------------
(* Timers. *)

RequestTimesOut(k) ==
  /\ Macrotask
  /\ timeouts < MaxTimeouts
  /\ Awaits(mgr, k)
  /\ mgr' = [mgr EXCEPT !.inFlight[k].result = "error"]
  /\ timeouts' = timeouts + 1
  /\ UNCHANGED_PY
  /\ UNCHANGED <<stdin, call, connected, bridge, chunk, outages, published>>

StopRetryFires_NoPass(k) ==
  /\ Macrotask
  /\ mgr.stopRetries[k] = "waiting"
  /\ mgr' = [mgr EXCEPT !.stopRetries[k] = "due"]
  /\ UNCHANGED pyVars
  /\ UNCHANGED <<call, connected, bridge, chunk, counters>>

StopRetryFires(k) ==
  /\ Macrotask
  /\ mgr.stopRetries[k] = "waiting"
  /\ Reconcile([mgr EXCEPT !.stopRetries[k] = "due"])
  /\ UNCHANGED_PY
  /\ UNCHANGED <<call, connected, bridge, chunk, counters>>

-----------------------------------------------------------------------------
(* The bridge process. *)

\* The supervisor's restart timer fires, or the manager starts.
StartBridge ==
  /\ Macrotask
  /\ bridge = "down" /\ mgr.active
  /\ Spawn
  /\ bridge' = "starting"
  /\ UNCHANGED <<mgr, call, connected, chunk, counters>>

BridgeReady_ForgetsWaiters ==
  /\ Macrotask
  /\ bridge \in {"starting", "interrupted"}
  /\ bridge' = IF bridge = "starting" THEN "up" ELSE "stopping"
  /\ Reconcile(BridgeCame(mgr))
  /\ UNCHANGED_PY
  /\ UNCHANGED <<call, connected, chunk, counters>>

BridgeReady_NoPass ==
  /\ Macrotask
  /\ bridge \in {"starting", "interrupted"}
  /\ bridge' = IF bridge = "starting" THEN "up" ELSE "stopping"
  /\ mgr' = BridgeCame(mgr)
  /\ call' = [c \in Calls |-> CASE call[c] = "waiting" -> "woken"
                                [] call[c] = "rewaiting" -> "rewoken"
                                [] OTHER -> call[c]]
  /\ UNCHANGED pyVars
  /\ UNCHANGED <<connected, chunk, counters>>

\* handleBridgeReady, after the bridge listed its drivers and instances.  The
\* process may have died since, or `stop` may have come meanwhile.
BridgeReady ==
  /\ Macrotask
  /\ bridge \in {"starting", "interrupted"}
  /\ bridge' = IF bridge = "starting" THEN "up" ELSE "stopping"
  /\ Reconcile(BridgeCame(mgr))
  /\ call' = [c \in Calls |-> CASE call[c] = "waiting" -> "woken"
                                [] call[c] = "rewaiting" -> "rewoken"
                                [] OTHER -> call[c]]
  /\ UNCHANGED_PY
  /\ UNCHANGED <<connected, chunk, counters>>

\* The process crashes, or exits because it was told to or killed.
ProcessExits ==
  /\ Exit
  /\ IF bridge \in {"starting", "up"}
     THEN outages < MaxOutages /\ outages' = outages + 1
     ELSE UNCHANGED outages
  /\ UNCHANGED <<nodeVars, timeouts, published>>

HandleExit_KeepsPending ==
  /\ Macrotask
  /\ ~alive
  /\ \/ /\ bridge \in {"starting", "up"}
        /\ bridge' = "down"
        /\ mgr' = BridgeGone(mgr)
     \/ /\ bridge \in {"unresponsive", "interrupted", "stopping"}
        /\ bridge' = IF bridge = "unresponsive" THEN "down" ELSE "stopped"
        /\ UNCHANGED mgr
  /\ UNCHANGED pyVars
  /\ UNCHANGED <<call, connected, chunk, counters>>

\* Node hears of the exit: PythonBridge.handleExit rejects what is pending, and
\* the supervisor marks the bridge down unless it already had.
HandleExit ==
  /\ Macrotask
  /\ ~alive
  /\ \/ /\ bridge \in {"starting", "up"}
        /\ bridge' = "down"
        /\ mgr' = BridgeGone(RejectPending(mgr))
     \/ /\ bridge \in {"unresponsive", "interrupted", "stopping"}
        /\ bridge' = IF bridge = "unresponsive" THEN "down" ELSE "stopped"
        /\ mgr' = RejectPending(mgr)
  /\ UNCHANGED pyVars
  /\ UNCHANGED <<call, connected, chunk, counters>>

BridgeGivenUp_LeavesProcess ==
  /\ Macrotask
  /\ bridge \in {"starting", "up"}
  /\ outages < MaxOutages
  /\ outages' = outages + 1
  /\ bridge' = "down"
  /\ mgr' = BridgeGone(mgr)
  /\ UNCHANGED pyVars
  /\ UNCHANGED <<call, connected, chunk, timeouts, published>>

\* checkHealth missed its last ping, or the start failed: the manager gives the
\* bridge up before the process is stopped.
BridgeGivenUp ==
  /\ Macrotask
  /\ bridge \in {"starting", "up"}
  /\ outages < MaxOutages
  /\ outages' = outages + 1
  /\ bridge' = "unresponsive"
  /\ mgr' = BridgeGone(mgr)
  /\ UNCHANGED pyVars
  /\ UNCHANGED <<call, connected, chunk, timeouts, published>>

StopManager_KeepsWaiters ==
  /\ Macrotask
  /\ mgr.active /\ MaxShutdowns > 0
  /\ bridge' = CASE bridge = "down" -> "stopped"
                 [] bridge = "starting" -> "interrupted"
                 [] OTHER -> "stopping"
  /\ mgr' = [mgr EXCEPT !.active = FALSE]
  /\ UNCHANGED pyVars
  /\ UNCHANGED <<call, connected, chunk, counters>>

\* DriverManager.stop, up to its await: waiting calls are rejected, and those
\* that hold a lease drop it.
StopManager ==
  /\ Macrotask
  /\ mgr.active /\ MaxShutdowns > 0
  /\ bridge' = CASE bridge = "down" -> "stopped"
                 [] bridge = "starting" -> "interrupted"
                 [] OTHER -> "stopping"
  /\ mgr' = [DropLeases(mgr, {c \in Calls : call[c] = "rewaiting"}) EXCEPT !.active = FALSE]
  /\ call' = [c \in Calls |-> IF call[c] \in {"waiting", "rewaiting"} THEN "idle"
                              ELSE call[c]]
  /\ UNCHANGED pyVars
  /\ UNCHANGED <<connected, chunk, counters>>

\* DriverManager.stop, after the supervisor stopped the bridge.
ManagerStopped ==
  /\ Microtask
  /\ bridge = "stopped"
  /\ bridge' = "closed"
  /\ mgr' = BridgeGone(mgr)
  /\ UNCHANGED pyVars
  /\ UNCHANGED <<call, connected, chunk, counters>>

DriverReports(k, state) ==
  /\ published < MaxPublished
  /\ published' = published + 1
  /\ DriverPublishes(k, state)
  /\ UNCHANGED <<nodeVars, outages, timeouts>>

-----------------------------------------------------------------------------
PythonStep == BridgeStep /\ UNCHANGED <<nodeVars, counters>>

NodeStep ==
  \/ HandleLine
  \/ \E k \in Keys : Resume(k) \/ StopRetryFires(k)
  \/ \E c \in Calls : Wake(c) \/ Settle(c)
  \/ StartBridge \/ BridgeReady \/ HandleExit \/ ManagerStopped

ClientStep ==
  \/ \E c \in Calls : Subscribe(c)
  \/ \E client \in Clients, sub \in Subscriptions : Unsubscribe(client, sub)
  \/ \E client \in Clients : Disconnect(client)

Mishap ==
  \/ \E c \in Calls : WaitTimesOut(c)
  \/ \E k \in Keys : RequestTimesOut(k)
  \/ \E k \in Keys, state \in {"running", "errored"} : DriverReports(k, state)
  \/ ProcessExits \/ BridgeGivenUp \/ StopManager

Next == PythonStep \/ NodeStep \/ ClientStep \/ Mishap

Spec == Init /\ [][Next]_vars

(***************************************************************************)
(* Fairness.  Python's threads keep running, `pre_run` and a stop end one  *)
(* way or the other, and a driver told to stop again and again stops.      *)
(* Node's event loop serves what is ready, and its timers fire.  A process *)
(* told to exit exits (it is killed otherwise).  Clients owe nothing.      *)
(***************************************************************************)
Python(A) == A /\ UNCHANGED <<nodeVars, counters>>

Fairness ==
  /\ WF_vars(Python(ReadSubscribe)) /\ WF_vars(Python(ReadLifecycle))
  /\ WF_vars(Python(PublishedPosted))
  /\ \A k \in Keys : WF_vars(Python(WorkerStep(k))) /\ SF_vars(Python(StopSucceeds(k)))
  /\ WF_vars(HandleLine)
  /\ \A k \in Keys : WF_vars(Resume(k)) /\ WF_vars(StopRetryFires(k))
  /\ \A c \in Calls : WF_vars(Wake(c)) /\ WF_vars(Settle(c))
  /\ WF_vars(StartBridge) /\ WF_vars(BridgeReady)
  /\ SF_vars(HandleExit) /\ WF_vars(ManagerStopped)
  /\ WF_vars(bridge \in {"unresponsive", "interrupted", "stopping"} /\ ProcessExits)

FairSpec == Spec /\ Fairness

-----------------------------------------------------------------------------
(* Properties. *)

\* Nothing about k is under way anywhere between a lease and the instance.
NothingUnderWay(k) ==
  /\ bridge = "up" /\ alive
  /\ ~Busy(mgr, k)
  /\ task[k] = Idle /\ queue[k] = <<>>
  /\ \A report \in unposted : report.key # k
  /\ \A i \in DOMAIN stdin : stdin[i].key # k
  /\ \A i \in DOMAIN stdout : stdout[i].key # k

\* What the manager believes of an instance nothing is under way for is what
\* the bridge runs, subscriptions included: no order of replies, state lines,
\* lost generations and restarts leaves a stale record behind.
BeliefsAreTrue ==
  \A k \in Keys : NothingUnderWay(k) =>
    /\ mgr.actual[k] = instances[k]
    /\ \A e \in Events : <<k, e>> \in mgr.subscriptions <=> <<k, e>> \in external

\* The whole system is at rest: no step is due but a client's or a mishap.
AtRest ==
  /\ ~chunk
  /\ \A k \in Keys : NothingUnderWay(k) /\ mgr.stopRetries[k] # "waiting"
  /\ \A c \in Calls : call[c] = "idle"

\* "The reconciler compares the two and sends start, stop, subscribe and
\* unsubscribe requests until they match" (manager.ts:20): at rest, exactly the
\* leased instances and their dependencies run, each with the leased
\* subscriptions, except where a start failed on the way.
ReconciledAtRest ==
  AtRest => \A k \in Keys :
    LET blocked == Closure[k] \intersect mgr.startErrors # {}
    IN  /\ k \notin Desired(mgr) => instances[k] = "absent"
        /\ k \in Desired(mgr) /\ ~blocked => instances[k] = "running"
        /\ instances[k] = "running" =>
             \A e \in Events : <<k, e>> \in external <=>
               \E c \in mgr.leases : CallSub(c) = <<k, e>>

\* At rest the reconciler itself finds nothing left to do: no handler that
\* changes what a plan depends on forgets the pass that would act on it.
NoLostWakeup == AtRest => Kick(mgr, NextId) = mgr

\* An operation that counts its request as done is not ahead of the bridge: the
\* late reply of a request that timed out is never taken for the reply of the
\* request sent after it.
Pending(k, id) ==
  \/ \E i \in DOMAIN stdin : stdin[i].key = k /\ stdin[i].id = id
  \/ \E i \in DOMAIN queue[k] : queue[k][i].id = id
  \/ task[k] # Idle /\ task[k].id = id
RepliesAnswerTheirRequest ==
  \A k \in Keys : Busy(mgr, k) /\ mgr.inFlight[k].result = "ok"
                    => ~Pending(k, mgr.inFlight[k].id)

\* "Dependencies start first and stop last" (manager.ts:24): whatever exists of
\* an instance, its dependencies run.
DependenciesRun ==
  \A k \in Keys : instances[k] # "absent" => \A d \in Deps[k] : instances[d] = "running"

\* "Each instance has at most one operation in flight" (manager.ts:21): the
\* bridge never holds two unanswered requests for one instance.
RequestsHeld(k) ==
  {<<"stdin", i>> : i \in {j \in DOMAIN stdin : stdin[j].key = k}}
    \union {<<"queue", i>> : i \in DOMAIN queue[k]}
    \union {<<"task", i>> : i \in {j \in {0} : task[k] # Idle}}
OneRequestPerInstance == \A k \in Keys : \A p, q \in RequestsHeld(k) : p = q

\* A `subscribe` that returns with its lease leaves the client subscribed to a
\* driver that really runs, with everything it depends on, unless the process
\* has just died.
Serves(c) ==
  /\ \A k \in Closure[CallKey[c]] : instances[k] = "running"
  /\ CallSub(c) \in external
SubscribedMeansRunning ==
  [][\A c \in Calls :
       call[c] = "settling" /\ call'[c] = "idle" /\ c \in mgr'.leases /\ alive
         => Serves(c)]_vars

\* "Release every lease `client` holds so idle drivers can stop" (manager.ts:379):
\* a client that is gone holds no lease.
GoneClientsHoldNothing == \A c \in mgr.leases : CallClient[c] \in connected

\* At rest, no driver runs that no lease needs, whatever the drivers reported on
\* their own.  (A request that timed out may still take effect later.)
NoOrphans ==
  AtRest /\ timeouts = 0 => \A k \in Keys : instances[k] # "absent" => k \in Desired(mgr)

\* While the bridge is down, no outcome of a request to the old process lands:
\* its failures would keep a lease from being applied to the next one.
\* (Late state lines do land, until the next bridge is asked what it runs.)
NoGhostOutcomes ==
  ~mgr.bridgeReady =>
    /\ mgr.startErrors = {} /\ mgr.failedSubscriptions = {} /\ mgr.subscriptions = {}
    /\ \A k \in Keys : mgr.stopRetries[k] = "none"

\* A stopped manager leaves no call waiting for a bridge that never comes.
NobodyWaitsOnAStoppedManager ==
  ~mgr.active => \A c \in Calls : call[c] \notin {"waiting", "rewaiting"}

\* Once clients stop changing their minds, every `subscribe` returns.
ClientsSettle == <>[][~ClientStep]_vars
EverySubscribeReturns ==
  ClientsSettle => \A c \in Calls : call[c] # "idle" ~> call[c] = "idle"

\* ... and what the leases ask for comes true for good: nothing unwanted is
\* left, and what is wanted runs unless it failed to start.
Applied(k) ==
  /\ k \notin Desired(mgr) => instances[k] = "absent"
  /\ k \in Desired(mgr) =>
       instances[k] = "running" \/ Closure[k] \intersect mgr.startErrors # {}
LeasesAreApplied == ClientsSettle => <>[](mgr.active => \A k \in Keys : Applied(k))

\* The bridge lives as its supervisor makes it live.
Supervised == INSTANCE BridgeLifecycle WITH ready <- mgr.bridgeReady
LivesAsSupervised == Supervised!LifecycleSpec
=============================================================================
