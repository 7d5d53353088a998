--------------------------- MODULE DriverManager ---------------------------
(***************************************************************************)
(* The driver manager of the Node server                                   *)
(* (packages/server/src/drivers/manager.ts): the leases clients hold, what *)
(* the manager believes the bridge runs, and the reconciler that sends one *)
(* request at a time per instance until the two agree.                     *)
(*                                                                         *)
(* The reconciler is a function on the manager's state `m`: `Kick(m)` is   *)
(* the state after a pass, and the requests it sends are those of the      *)
(* operations that pass put in flight.                                     *)
(***************************************************************************)
EXTENDS BridgeProtocol, FiniteSetsExt, SequencesExt

CONSTANTS
  Calls,      \* `subscribe` calls; a call's lease is named after it
  CallClient, \* CallClient[c]: the client making the call
  CallKey,    \* CallKey[c]: the instance its driver resolves to
  CallEvent   \* CallEvent[c]: the event it subscribes to

ASSUME CallsAssumption ==
  /\ CallKey \in [Calls -> Keys]
  /\ CallEvent \in [Calls -> Events]

Clients == {CallClient[c] : c \in Calls}
CallSub(c) == <<CallKey[c], CallEvent[c]>>

Closure_DirectOnly == [k \in Keys |-> {k} \union Deps[k]]

(***************************************************************************)
(* A key and its transitive dependencies: the least set that contains the  *)
(* key and is closed under Deps.                                           *)
(***************************************************************************)
Closure ==
  [k \in Keys |->
     {e \in Keys : \A S \in SUBSET Keys :
        (k \in S /\ \A x \in S : Deps[x] \subseteq S) => e \in S}]

(***************************************************************************)
(* The manager's fields.  `leases` holds the calls whose lease is in the   *)
(* map, and `newer` its order: <<c, d>> when c's lease came after d's.     *)
(* `inFlight[k]` is the operation running on k:     *)
(*   live    whether the generation it started in is still the current one *)
(*   id      the id of the request it awaits                               *)
(*   change  for a sync, the change it awaits: <<event, add>>              *)
(*   todo    for a sync, the changes left of the list it began with        *)
(*   result  what the awaited promise settled to, not yet acted upon       *)
(* `stopRetries[k]` is "waiting" while its timer runs and "due" once the   *)
(* stop may be tried again.                                                *)
(***************************************************************************)
NoOperation == [kind |-> "none"]
Changes == Events \X BOOLEAN
Outcomes == {"none", "ok", "error"}
Operations ==
  [kind : {"start", "stop"}, live : BOOLEAN, id : RequestIds, result : Outcomes]
    \union
  [kind : {"sync"}, live : BOOLEAN, id : RequestIds, result : Outcomes,
   change : Changes, todo : SUBSET Changes]

Managers ==
  [leases : SUBSET Calls,
   newer : SUBSET (Calls \X Calls),
   actual : [Keys -> (DriverStates \ {"available"}) \union {"absent"}],
   subscriptions : SUBSET Subscriptions,
   startErrors : SUBSET Keys,
   failedSubscriptions : SUBSET Subscriptions,
   stopRetries : [Keys -> {"none", "waiting", "due"}],
   inFlight : [Keys -> Operations \union {NoOperation}],
   bridgeReady : BOOLEAN,
   active : BOOLEAN]

InitialManager ==
  [leases |-> {},
   newer |-> {},
   actual |-> [k \in Keys |-> "absent"],
   subscriptions |-> {},
   startErrors |-> {},
   failedSubscriptions |-> {},
   stopRetries |-> [k \in Keys |-> "none"],
   inFlight |-> [k \in Keys |-> NoOperation],
   bridgeReady |-> FALSE,
   active |-> TRUE]

Desired(m) == UNION {Closure[CallKey[c]] : c \in m.leases}
Present(m, k) == m.actual[k] # "absent"
Busy(m, k) == m.inFlight[k] # NoOperation

-----------------------------------------------------------------------------
(* planFor: what the reconciler does next for an instance.                  *)

HasPresentDependents_AsksOne(m, k) ==
  LET dependents == {j \in Keys : k \in Deps[j]}
  IN  dependents # {} /\ Present(m, CHOOSE j \in dependents : TRUE)

HasPresentDependents(m, k) == \E j \in Keys : k \in Deps[j] /\ Present(m, j)

MustStop_IgnoresDependents(m, k) ==
  /\ Present(m, k)
  /\ k \notin Desired(m) \/ m.actual[k] = "errored"
  /\ m.actual[k] \notin {"starting", "stopping"}
  /\ m.stopRetries[k] # "waiting"

MustStop(m, k) ==
  /\ Present(m, k)
  /\ k \notin Desired(m) \/ m.actual[k] = "errored"
  /\ m.actual[k] \notin {"starting", "stopping"}
  /\ ~HasPresentDependents(m, k)
  /\ m.stopRetries[k] # "waiting"

MustStart(m, k) ==
  /\ k \in Desired(m)
  /\ ~Present(m, k)
  /\ k \notin m.startErrors
  /\ \A d \in Deps[k] : m.actual[d] = "running"

SubscriptionChanges_OnlyAdds(m, k) ==
  LET wanted == {CallEvent[c] : c \in {x \in m.leases : CallKey[x] = k}}
  IN  {e \in wanted : <<k, e>> \notin m.subscriptions \union m.failedSubscriptions} \X {TRUE}

SubscriptionChanges(m, k) ==
  LET wanted == {CallEvent[c] : c \in {x \in m.leases : CallKey[x] = k}}
      acked == {e \in Events : <<k, e>> \in m.subscriptions}
      failed == {e \in Events : <<k, e>> \in m.failedSubscriptions}
  IN  ((wanted \ acked) \ failed) \X {TRUE}
        \union ((acked \ wanted) \ failed) \X {FALSE}

MustSync(m, k) ==
  /\ k \in Desired(m)
  /\ m.actual[k] = "running"
  /\ SubscriptionChanges(m, k) # {}

\* Additions come before removals in the list of changes.
NextChange(changes) ==
  LET additions == {ch \in changes : ch[2]}
  IN  CHOOSE ch \in changes : additions # {} => ch \in additions

\* `bridge.request` rejects at once when the bridge is being stopped.
FirstOutcome(m) == IF m.active THEN "none" ELSE "error"

Lifecycle(m, kind, id) ==
  [kind |-> kind, live |-> TRUE, id |-> id, result |-> FirstOutcome(m)]

Sync(m, changes, id) ==
  LET change == NextChange(changes)
  IN  [kind |-> "sync", live |-> TRUE, id |-> id, result |-> FirstOutcome(m),
       change |-> change, todo |-> changes \ {change}]

\* One operation at a time: an instance with one in flight is left alone.
Free_Always(m) == Keys
Free(m) == {k \in Keys : ~Busy(m, k)}

(***************************************************************************)
(* kick.  The code visits the keys in turn; an operation it starts only    *)
(* moves its own key to starting or stopping, which changes no other key's *)
(* plan, so all plans are made from the same state.                        *)
(***************************************************************************)
Kick(m, id) ==
  IF ~m.bridgeReady THEN m ELSE
  LET n == [m EXCEPT !.startErrors = @ \intersect Desired(m)]
      stops == {k \in Free(n) : MustStop(n, k)}
      starts == {k \in Free(n) : MustStart(n, k)}
      syncs == {k \in Free(n) : MustSync(n, k)}
  IN  [n EXCEPT
        !.actual = [k \in Keys |-> IF k \in starts THEN "starting"
                                   ELSE IF k \in stops THEN "stopping"
                                   ELSE @[k]],
        !.inFlight = [k \in Keys |->
          IF k \in starts THEN Lifecycle(m, "start", id)
          ELSE IF k \in stops THEN Lifecycle(m, "stop", id)
          ELSE IF k \in syncs THEN Sync(m, SubscriptionChanges(n, k), id)
          ELSE @[k]]]

\* The request an operation awaits.
RequestOf(k, op) ==
  CASE op.kind = "start" -> [type |-> "start-driver", key |-> k, id |-> op.id]
    [] op.kind = "stop" -> [type |-> "stop-driver", key |-> k, id |-> op.id]
    [] op.kind = "sync" ->
         [type |-> IF op.change[2] THEN "subscribe" ELSE "unsubscribe",
          key |-> k, id |-> op.id, event |-> op.change[1]]

Awaits(m, k) == Busy(m, k) /\ m.inFlight[k].result = "none"

\* The requests of the operations `after` awaits and `before` did not, in some
\* order.
Sends(before, after, k) ==
  Awaits(after, k) /\ after.inFlight[k] # before.inFlight[k]
NewRequests(before, after) ==
  SetToSeq({RequestOf(k, after.inFlight[k]) : k \in {x \in Keys : Sends(before, after, x)}})

-----------------------------------------------------------------------------
(* The handlers' updates of the manager's state.                            *)

DropActual_KeepsSubscriptions(m, k) == [m EXCEPT !.actual[k] = "absent"]

\* dropActual
DropActual(m, k) ==
  [m EXCEPT !.actual[k] = "absent",
            !.subscriptions = {sub \in @ : sub[1] # k}]

\* subscribe, once the bridge is ready: the lease, and a fresh try for
\* whatever failed before on the way to it.
TakeLease(m, c) ==
  LET keys == Closure[CallKey[c]]
  IN  [m EXCEPT !.leases = @ \union {c},
                !.newer = @ \union {<<c, older>> : older \in m.leases},
                !.startErrors = @ \ keys,
                !.stopRetries = [k \in Keys |-> IF k \in keys /\ @[k] = "waiting"
                                                THEN "due" ELSE @[k]],
                !.failedSubscriptions = @ \ {CallSub(c)}]

\* removeLease
DropLeases(m, gone) ==
  [m EXCEPT !.leases = @ \ gone,
            !.newer = {pair \in @ : pair[1] \notin gone /\ pair[2] \notin gone}]

\* release
Release(m, released) ==
  [DropLeases(m, released) EXCEPT
     !.failedSubscriptions = @ \ {CallSub(c) : c \in released}]

LeaseServed_OwnStartOnly(m, c) ==
  c \notin m.leases \/ (m.bridgeReady /\ CallKey[c] \notin m.startErrors)

\* leaseFailure finds nothing wrong, or the lease is already gone.
LeaseServed(m, c) ==
  \/ c \notin m.leases
  \/ /\ m.bridgeReady
     /\ \A k \in Closure[CallKey[c]] : k \notin m.startErrors /\ m.actual[k] = "running"
     /\ CallSub(c) \in m.subscriptions

ReportState_KeepsAvailable(m, k, state) == [m EXCEPT !.actual[k] = state]
ReportState_ForgetsErrored(m, k, state) ==
  IF state \in {"available", "errored"} THEN DropActual(m, k)
  ELSE [m EXCEPT !.actual[k] = state]

\* handleDriverState
ReportState(m, k, state) ==
  IF state = "available" THEN DropActual(m, k) ELSE [m EXCEPT !.actual[k] = state]

\* What the operation on k does once its request settled.  An operation of an
\* older generation changes nothing.
Conclude(m, k) ==
  LET op == m.inFlight[k]
      ok == op.result = "ok"
      sub == <<k, op.change[1]>>
  IN  CASE ~op.live -> m
        [] op.live /\ op.kind = "start" /\ ok -> [m EXCEPT !.actual[k] = "running"]
        [] op.live /\ op.kind = "start" /\ ~ok ->
             [DropActual(m, k) EXCEPT !.startErrors = @ \union {k}]
        [] op.live /\ op.kind = "stop" /\ ok ->
             [DropActual(m, k) EXCEPT !.stopRetries[k] = "none"]
        [] op.live /\ op.kind = "stop" /\ ~ok ->
             [m EXCEPT !.actual[k] = IF @ = "stopping" THEN "errored" ELSE @,
                       !.stopRetries[k] = "waiting"]
        [] op.live /\ op.kind = "sync" /\ ok ->
             [m EXCEPT !.subscriptions = IF op.change[2] THEN @ \union {sub} ELSE @ \ {sub}]
        [] op.live /\ op.kind = "sync" /\ ~ok ->
             [m EXCEPT !.failedSubscriptions = @ \union {sub}]

\* A sync with changes left sends the next one; otherwise the operation is
\* over and another pass follows.
Proceed(m, k, id) ==
  LET op == m.inFlight[k]
      n == Conclude(m, k)
  IN  IF op.live /\ op.kind = "sync" /\ op.todo # {}
      THEN [n EXCEPT !.inFlight[k] = Sync(m, op.todo, id)]
      ELSE Kick([n EXCEPT !.inFlight[k] = NoOperation], id)

BridgeGone_KeepsGeneration(m) ==
  [m EXCEPT !.bridgeReady = FALSE,
            !.actual = InitialManager.actual,
            !.subscriptions = {},
            !.startErrors = {},
            !.failedSubscriptions = {},
            !.stopRetries = InitialManager.stopRetries]

\* handleBridgeDown
BridgeGone(m) ==
  [m EXCEPT !.bridgeReady = FALSE,
            !.actual = InitialManager.actual,
            !.subscriptions = {},
            !.startErrors = {},
            !.failedSubscriptions = {},
            !.stopRetries = InitialManager.stopRetries,
            !.inFlight = [k \in Keys |-> IF Busy(m, k) THEN [@[k] EXCEPT !.live = FALSE]
                                         ELSE NoOperation]]

\* PythonBridge.handleExit rejects every pending request.
RejectPending(m) ==
  [m EXCEPT !.inFlight = [k \in Keys |-> IF Awaits(m, k) THEN [@[k] EXCEPT !.result = "error"]
                                         ELSE @[k]]]

\* handleBridgeReady, whose list-instances found a fresh process empty.
BridgeCame(m) ==
  [m EXCEPT !.actual = InitialManager.actual, !.subscriptions = {}, !.bridgeReady = TRUE]
=============================================================================
