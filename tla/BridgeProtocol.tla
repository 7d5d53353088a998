--------------------------- MODULE BridgeProtocol ---------------------------
(***************************************************************************)
(* What the Node server and a Python driver bridge say to each other: JSON *)
(* lines over the bridge's stdin and stdout.                               *)
(*                                                                         *)
(* A key stands for `instanceKey(instance, driver)`.  Dependencies resolve *)
(* in the dependent's own instance namespace, so a key's dependencies are  *)
(* keys too, and keys of different namespaces are simply unrelated.        *)
(*                                                                         *)
(* Only the messages that change what either side believes about an        *)
(* instance are kept: start-driver, stop-driver, subscribe, unsubscribe,   *)
(* their results, and driver-state.                                        *)
(***************************************************************************)
EXTENDS Naturals, Sequences, FiniteSets

CONSTANTS
  Keys,    \* instance keys
  Deps,    \* Deps[k]: the keys of k's direct dependencies
  Events   \* event names a client may subscribe to

ASSUME KeysAssumption == IsFiniteSet(Keys)
ASSUME DepsAssumption == Deps \in [Keys -> SUBSET Keys]

Subscriptions == Keys \X Events

\* Request ids are random UUIDs.  A number is enough to tell the requests of
\* one key apart: see NextId in DriverSystem.
RequestIds == Nat

LifecycleRequests ==
  [type : {"start-driver", "stop-driver"}, key : Keys, id : RequestIds]
SubscriptionRequests ==
  [type : {"subscribe", "unsubscribe"}, key : Keys, id : RequestIds, event : Events]
BridgeRequests == LifecycleRequests \union SubscriptionRequests

\* The states the Python bridge reports for an instance.
DriverStates == {"available", "starting", "running", "stopping", "errored"}

Results == [type : {"result"}, key : Keys, id : RequestIds, ok : BOOLEAN]
StateReports == [type : {"driver-state"}, key : Keys, state : DriverStates]
BridgeResponses == Results \union StateReports

Result(request, ok) ==
  [type |-> "result", key |-> request.key, id |-> request.id, ok |-> ok]
StateReport(k, state) == [type |-> "driver-state", key |-> k, state |-> state]
=============================================================================
