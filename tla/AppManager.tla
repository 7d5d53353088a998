------------------------------ MODULE AppManager ------------------------------
(***************************************************************************)
(* The experiences of one app, as packages/server/src/apps/manager.ts      *)
(* starts and stops them.  Every call of a client is an asynchronous       *)
(* function: calls take turns at each of their awaits, and nothing         *)
(* serialises two of them.  A call is a stack of frames, one for each      *)
(* function that waits for another.                                        *)
(***************************************************************************)
EXTENDS Naturals, Sequences, FiniteSets, SequencesExt

CONSTANTS
    Calls,          \* calls that can be under way at the same time
    Experiences,    \* the experiences in the app's manifest
    Bindings,       \* driver bindings a start may name
    Drivers,
    Required,       \* the manifest's `required`, in order
    Exclusive,      \* the experiences with `exclusive`
    Allowed,        \* the manifest's `allowed`
    Needs,          \* the manifest's `drivers`, in order
    MaxLeases       \* bound: no new start while more leases are on a driver

ASSUME ManifestAssumption ==
    /\ Calls \intersect Experiences = {}
    /\ Required \in [Experiences -> Seq(Experiences)]
    /\ Exclusive \subseteq Experiences
    /\ Allowed \in [Experiences -> SUBSET Experiences]
    /\ Needs \in [Experiences -> Seq(Drivers)]
    /\ MaxLeases \in Nat

VARIABLES
    running,    \* the map of experiences, None for what it does not hold
    leases,     \* who took the leases on a driver, oldest first
    appState,   \* the state shown for the app
    calls       \* the calls under way; shutdown's stops are named by experience

vars == <<running, leases, appState, calls>>

None == [state |-> "none"]
NoCall == [op |-> "none"]
Held == "held"      \* a lease whose subscribe has returned
Callers == Calls \union Experiences

ExperienceRecord ==
    [state : {"starting", "running", "stopping"},
     startedAs : {"request", "requirement"},
     binding : Bindings]

Frames(places) ==
    [at : places, e : Experiences, binding : Bindings,
     todo : SUBSET Experiences,    \* conflicts still to be stopped
     n : Nat,                      \* requirements looked at, drivers subscribed
     released : Nat]
Frame == Frames({"require", "startOne", "subscribe", "settle", "undo", "release"})

StartCall == [op : {"start"}, e : Experiences, binding : Bindings,
              stack : Seq(Frame), started : Seq(Experiences),
              failed : BOOLEAN,
              before : UNION {[S -> Bindings] : S \in SUBSET Experiences}]   \* history
StopCall == [op : {"stop"}, crash : BOOLEAN, stack : Seq(Frames({"release"}))]

Slots == Bindings \X Experiences \X Drivers

TypeOK ==
    /\ running \in [Experiences -> ExperienceRecord \union {None}]
    /\ leases \in [Slots -> Seq(Calls \union {Held})]
    /\ appState \in {"installed", "running", "crashed"}
    /\ calls \in [Callers -> StartCall \union StopCall \union {NoCall}]

Init ==
    /\ running = [e \in Experiences |-> None]
    /\ leases = [s \in Slots |-> <<>>]
    /\ appState = "installed"
    /\ calls = [c \in Callers |-> NoCall]

-----------------------------------------------------------------------------
Listed == {e \in Experiences : running[e] # None}

RunsWith(e, b) ==
    /\ running[e] # None
    /\ running[e].state = "running"
    /\ running[e].binding = b

Top(c) == Last(calls[c].stack)
Path(stack) == {stack[i].e : i \in DOMAIN stack}

At(c, where) ==
    /\ calls[c] # NoCall
    /\ calls[c].stack # <<>>
    /\ Top(c).at = where

SetStack(c, stack) == calls' = [calls EXCEPT ![c].stack = stack]
SetTop(c, frame) == SetStack(c, Append(Front(calls[c].stack), frame))

\* What an exclusive experience stops before it starts.
Conflicts(e, path) ==
    Listed \ ({e} \union Allowed[e] \union ToSet(Required[e]) \union path)

StartFrame(e, b, path) ==
    [at |-> "require", e |-> e, binding |-> b, n |-> 0, released |-> 0,
     todo |-> IF e \in Exclusive THEN Conflicts(e, path) ELSE {}]

\* Stopping reads the record once, before it waits: drivers of that record's
\* binding are released.
StopFrame(e) ==
    [at |-> "release", e |-> e, binding |-> running[e].binding,
     n |-> Len(Needs[e]), released |-> 0, todo |-> {}]

\* Begin to stop e in place of the stack of call c; an experience that is not
\* listed needs nothing.
BeginStop(c, stack, e) ==
    IF e \in Listed
    THEN /\ running' = [running EXCEPT ![e].state = "stopping"]
         /\ SetStack(c, Append(stack, StopFrame(e)))
    ELSE /\ SetStack(c, stack)
         /\ UNCHANGED running

\* The frame on top returns; with the last one the call returns.
Return(c) ==
    LET rest == Front(calls[c].stack)
        rollback == calls[c].op = "start" /\ calls[c].failed
    IN IF rest = <<>> /\ ~rollback
       THEN calls' = [calls EXCEPT ![c] = NoCall]
       ELSE SetStack(c, rest)

Throw_ForgetsStarted(c) ==
    calls' = [calls EXCEPT ![c].stack = <<>>, ![c].failed = TRUE, ![c].started = <<>>]

\* An error passes through every start that waits, up to startExperience.
Throw(c) == calls' = [calls EXCEPT ![c].stack = <<>>, ![c].failed = TRUE]

-----------------------------------------------------------------------------
(* Calls of clients.                                                       *)

StartExperience(c, e, b) ==
    /\ calls[c] = NoCall
    /\ \A s \in Slots : Len(leases[s]) <= MaxLeases
    /\ calls' = [calls EXCEPT ![c] =
            [op |-> "start", e |-> e, binding |-> b,
             stack |-> <<StartFrame(e, b, {})>>, started |-> <<>>,
             failed |-> FALSE, before |-> [x \in Listed |-> running[x].binding]]]
    /\ UNCHANGED <<running, leases, appState>>

StopExperience(c, e, crash) ==
    /\ calls[c] = NoCall
    /\ e \in Listed
    /\ running' = [running EXCEPT ![e].state = "stopping"]
    /\ calls' = [calls EXCEPT ![c] =
            [op |-> "stop", crash |-> crash, stack |-> <<StopFrame(e)>>]]
    /\ UNCHANGED <<leases, appState>>

\* Shutdown stops everything listed at once, without waiting in between.
Shutdown ==
    /\ \A e \in Experiences : calls[e] = NoCall
    /\ Listed # {}
    /\ running' = [e \in Experiences |->
            IF e \in Listed THEN [running[e] EXCEPT !.state = "stopping"] ELSE None]
    /\ calls' = [c \in Callers |->
            IF c \in Listed
            THEN [op |-> "stop", crash |-> FALSE, stack |-> <<StopFrame(c)>>]
            ELSE calls[c]]
    /\ UNCHANGED <<leases, appState>>

-----------------------------------------------------------------------------
(* startWithRequirements                                                   *)

StopConflict(c) ==
    /\ At(c, "require")
    /\ \E e \in Top(c).todo :
          BeginStop(c, Append(Front(calls[c].stack), [Top(c) EXCEPT !.todo = @ \ {e}]), e)
    /\ UNCHANGED <<leases, appState>>

NextRequirement(c) == Required[Top(c).e][Top(c).n + 1]

RequirementsLeft(c) ==
    /\ At(c, "require")
    /\ Top(c).todo = {}
    /\ Top(c).n < Len(Required[Top(c).e])

RequirementsDone(c) ==
    /\ At(c, "require")
    /\ Top(c).todo = {}
    /\ Top(c).n = Len(Required[Top(c).e])

Require_AnyBinding(c) ==
    /\ RequirementsLeft(c)
    /\ LET f == Top(c)
           r == NextRequirement(c)
           waiting == Append(Front(calls[c].stack), [f EXCEPT !.n = @ + 1])
       IN \/ /\ running[r] # None
             /\ SetStack(c, waiting)
          \/ /\ running[r] = None
             /\ r \notin Path(waiting)
             /\ SetStack(c, Append(waiting, StartFrame(r, f.binding, Path(waiting))))
    /\ UNCHANGED <<running, leases, appState>>

Require(c) ==
    /\ RequirementsLeft(c)
    /\ LET f == Top(c)
           r == NextRequirement(c)
           waiting == Append(Front(calls[c].stack), [f EXCEPT !.n = @ + 1])
       IN \/ /\ RunsWith(r, f.binding)
             /\ SetStack(c, waiting)
          \/ /\ ~RunsWith(r, f.binding)
             /\ r \notin Path(waiting)
             /\ SetStack(c, Append(waiting, StartFrame(r, f.binding, Path(waiting))))
    /\ UNCHANGED <<running, leases, appState>>

\* Experiences that require each other cannot start.
RequireCycle(c) ==
    /\ RequirementsLeft(c)
    /\ ~RunsWith(NextRequirement(c), Top(c).binding)
    /\ NextRequirement(c) \in Path(calls[c].stack)
    /\ Throw(c)
    /\ UNCHANGED <<running, leases, appState>>

StartedAs(c) == IF Len(calls[c].stack) = 1 THEN "request" ELSE "requirement"

\* It runs already with this binding: asking for a requirement promotes it.
Reuse(c) ==
    /\ RequirementsDone(c)
    /\ RunsWith(Top(c).e, Top(c).binding)
    /\ running' = IF StartedAs(c) = "request"
                  THEN [running EXCEPT ![Top(c).e].startedAs = "request"]
                  ELSE running
    /\ Return(c)
    /\ UNCHANGED <<leases, appState>>

\* What is there of it is stopped first, whatever its state.
Replace(c) ==
    /\ RequirementsDone(c)
    /\ Top(c).e \in Listed
    /\ ~RunsWith(Top(c).e, Top(c).binding)
    /\ BeginStop(c, Append(Front(calls[c].stack), [Top(c) EXCEPT !.at = "startOne"]), Top(c).e)
    /\ UNCHANGED <<leases, appState>>

-----------------------------------------------------------------------------
(* startOne                                                                *)

StartOne(c) ==
    /\ \/ RequirementsDone(c) /\ Top(c).e \notin Listed
       \/ At(c, "startOne")
    /\ running' = [running EXCEPT ![Top(c).e] =
            [state |-> "starting", startedAs |-> StartedAs(c), binding |-> Top(c).binding]]
    /\ SetTop(c, [Top(c) EXCEPT !.at = "subscribe", !.n = 0])
    /\ UNCHANGED <<leases, appState>>

Subscribing(c) == At(c, "subscribe") /\ Top(c).n < Len(Needs[Top(c).e])
Slot(c) == <<Top(c).binding, Top(c).e, Needs[Top(c).e][Top(c).n + 1]>>

\* The drivers take the lease, once their bridge is ready.
TakeLease(c) ==
    /\ Subscribing(c)
    /\ leases' = [leases EXCEPT ![Slot(c)] = Append(@, c)]
    /\ SetTop(c, [Top(c) EXCEPT !.at = "settle"])
    /\ UNCHANGED <<running, appState>>

\* An unknown driver, one that is unavailable, or a bridge that never comes.
RefuseLease(c) ==
    /\ Subscribing(c)
    /\ SetTop(c, [Top(c) EXCEPT !.at = "undo"])
    /\ UNCHANGED <<running, leases, appState>>

\* The driver runs.  That is also what subscribe says when somebody released
\* the lease meanwhile.
Subscribed(c) ==
    /\ At(c, "settle")
    /\ leases' = [leases EXCEPT ![Slot(c)] =
            [i \in DOMAIN @ |-> IF @[i] = c THEN Held ELSE @[i]]]
    /\ SetTop(c, [Top(c) EXCEPT !.at = "subscribe", !.n = @ + 1])
    /\ UNCHANGED <<running, appState>>

\* The lease this call took, unless somebody released it meanwhile.
Dropped(c, list) ==
    LET own == {i \in DOMAIN list : list[i] = c}
    IN IF own = {} THEN list ELSE RemoveAt(list, CHOOSE i \in own : TRUE)

SubscribeFails_ForgetsOthers(c) ==
    /\ At(c, "settle")
    /\ leases' = [leases EXCEPT ![Slot(c)] = Dropped(c, @)]
    /\ SetTop(c, [Top(c) EXCEPT !.at = "undo", !.n = 0])
    /\ UNCHANGED <<running, appState>>

\* The driver did not start, or its bridge went down: the drivers drop the
\* lease, if it is still there, and subscribe throws.
SubscribeFails(c) ==
    /\ At(c, "settle")
    /\ leases' = [leases EXCEPT ![Slot(c)] = Dropped(c, @)]
    /\ SetTop(c, [Top(c) EXCEPT !.at = "undo"])
    /\ UNCHANGED <<running, appState>>

Started_DropsBinding(c) ==
    /\ At(c, "subscribe")
    /\ Top(c).n = Len(Needs[Top(c).e])
    /\ running' = [running EXCEPT ![Top(c).e] =
            [state |-> "running", startedAs |-> StartedAs(c)]]
    /\ appState' = "running"
    /\ Return(c)
    /\ UNCHANGED leases

Started(c) ==
    /\ At(c, "subscribe")
    /\ Top(c).n = Len(Needs[Top(c).e])
    /\ running' = [running EXCEPT ![Top(c).e] =
            [state |-> "running", startedAs |-> StartedAs(c), binding |-> Top(c).binding]]
    /\ appState' = "running"
    /\ LET rest == Front(calls[c].stack)
           done == Append(calls[c].started, Top(c).e)
       IN calls' = [calls EXCEPT ![c] =
            IF rest = <<>> THEN NoCall ELSE [@ EXCEPT !.stack = rest, !.started = done]]
    /\ UNCHANGED leases

\* releaseDrivers, one await at a time.  unsubscribe takes the newest lease
\* the experience has on the driver.
Release(c) ==
    /\ At(c, "release") \/ At(c, "undo")
    /\ Top(c).released < Top(c).n
    /\ LET slot == <<Top(c).binding, Top(c).e, Needs[Top(c).e][Top(c).released + 1]>>
       IN leases' = [leases EXCEPT ![slot] = IF @ = <<>> THEN @ ELSE Front(@)]
    /\ SetTop(c, [Top(c) EXCEPT !.released = @ + 1])
    /\ UNCHANGED <<running, appState>>

Released(c, where) == At(c, where) /\ Top(c).released = Top(c).n

StartFailed_KeepsRecord(c) ==
    /\ Released(c, "undo")
    /\ appState' = "crashed"
    /\ Throw(c)
    /\ UNCHANGED <<running, leases>>

StartFailed(c) ==
    /\ Released(c, "undo")
    /\ running' = [running EXCEPT ![Top(c).e] = None]
    /\ appState' = "crashed"
    /\ Throw(c)
    /\ UNCHANGED leases

-----------------------------------------------------------------------------
(* stopExperience, and what startExperience stops again after an error.    *)

Crashes(c) == calls[c].op = "stop" /\ calls[c].crash

Stopped_WhateverElseRuns(c) ==
    /\ Released(c, "release")
    /\ running' = [running EXCEPT ![Top(c).e] = None]
    /\ appState' = IF Crashes(c) THEN "crashed"
                   ELSE IF appState # "crashed" THEN "installed" ELSE appState
    /\ Return(c)
    /\ UNCHANGED leases

Stopped(c) ==
    /\ Released(c, "release")
    /\ running' = [running EXCEPT ![Top(c).e] = None]
    /\ appState' = IF Crashes(c) THEN "crashed"
                   ELSE IF appState # "crashed" /\ Listed \subseteq {Top(c).e}
                   THEN "installed"
                   ELSE appState
    /\ Return(c)
    /\ UNCHANGED leases

Failing(c) ==
    /\ calls[c] # NoCall
    /\ calls[c].op = "start"
    /\ calls[c].failed
    /\ calls[c].stack = <<>>

Rollback_KeepsList(c) ==
    /\ Failing(c)
    /\ calls[c].started # <<>>
    /\ BeginStop(c, <<>>, Last(calls[c].started))
    /\ UNCHANGED <<leases, appState>>

\* The last one started is stopped first.
Rollback(c) ==
    /\ Failing(c)
    /\ calls[c].started # <<>>
    /\ LET e == Last(calls[c].started)
           next == [calls[c] EXCEPT !.started = Front(@)]
       IN IF e \in Listed
          THEN /\ running' = [running EXCEPT ![e].state = "stopping"]
               /\ calls' = [calls EXCEPT ![c] = [next EXCEPT !.stack = <<StopFrame(e)>>]]
          ELSE /\ calls' = [calls EXCEPT ![c] = next]
               /\ UNCHANGED running
    /\ UNCHANGED <<leases, appState>>

StartThrows(c) ==
    /\ Failing(c)
    /\ calls[c].started = <<>>
    /\ calls' = [calls EXCEPT ![c] = NoCall]
    /\ UNCHANGED <<running, leases, appState>>

-----------------------------------------------------------------------------
Step(c) ==
    \/ StopConflict(c) \/ Require(c) \/ RequireCycle(c) \/ Reuse(c) \/ Replace(c)
    \/ StartOne(c) \/ TakeLease(c) \/ RefuseLease(c) \/ Subscribed(c)
    \/ SubscribeFails(c) \/ Started(c) \/ StartFailed(c)
    \/ Release(c) \/ Stopped(c) \/ Rollback(c) \/ StartThrows(c)

\* While the server is not told to stop.
ClientsNext ==
    \/ \E c \in Calls, e \in Experiences, b \in Bindings : StartExperience(c, e, b)
    \/ \E c \in Calls, e \in Experiences, crash \in BOOLEAN : StopExperience(c, e, crash)
    \/ \E c \in Callers : Step(c)

Next == ClientsNext \/ Shutdown

ClientsSpec == Init /\ [][ClientsNext]_vars

Spec == Init /\ [][Next]_vars

\* What the drivers answer is up to them; that they answer is not.
FairSpec == Spec /\ \A c \in Callers : WF_vars(Step(c))

-----------------------------------------------------------------------------
(* Properties.                                                             *)

AllReturned == \A c \in Callers : calls[c] = NoCall

\* How many leases experience e needs on driver d.
Wanted(e, d) == Cardinality({i \in DOMAIN Needs[e] : Needs[e][i] = d})

\* Once every call has returned nothing is left starting or stopping, whatever
\* calls overlapped.
NothingHalfDone ==
    AllReturned => \A e \in Listed : running[e].state = "running"

\* The state shown for the app is true: it is "running" only while something
\* is listed, and "installed" only while nothing runs.
AppStateIsTrue ==
    /\ appState = "running" => Listed # {}
    /\ appState = "installed" => \A e \in Listed : running[e].state # "running"

\* Once every call has returned, an experience has exactly the leases on its
\* drivers that it runs with, and one that does not run has none.
LeasesMatch ==
    AllReturned =>
        \A b \in Bindings, e \in Experiences, d \in Drivers :
            Len(leases[<<b, e, d>>]) = IF RunsWith(e, b) THEN Wanted(e, d) ELSE 0

\* An experience that is not listed holds no driver: stopping it releases
\* its drivers.
StoppedHoldsNothing ==
    AllReturned =>
        \A b \in Bindings, e \in Experiences \ Listed, d \in Drivers :
            leases[<<b, e, d>>] = <<>>

\* A listed experience holds leases on its drivers.
RunningHoldsItsDrivers ==
    AllReturned =>
        \A e \in Listed : \A d \in ToSet(Needs[e]) :
            leases[<<running[e].binding, e, d>>] # <<>>

Succeeds(c) == /\ calls[c] # NoCall /\ calls[c].op = "start" /\ ~calls[c].failed
               /\ calls'[c] = NoCall

Fails(c) == /\ Failing(c) /\ calls'[c] = NoCall

\* What e needs to run, directly or through others: the least set with e that
\* has the requirements of its members.
Closure(e) ==
    CHOOSE S \in SUBSET Experiences :
        /\ e \in S
        /\ \A x \in S : ToSet(Required[x]) \subseteq S
        /\ \A T \in SUBSET S :
              e \in T /\ (\A x \in T : ToSet(Required[x]) \subseteq T) => T = S

\* A start that succeeds leaves the experience and those in its `required`
\* running with the binding asked for; if it is exclusive, only what it
\* requires, directly or not, and the allowed ones are left.
\* (Unless a requirement is exclusive: it stops what was required before it.)
StartDelivers ==
    [][\A c \in Calls : Succeeds(c) =>
          \A e \in {calls[c].e}, b \in {calls[c].binding} :
              /\ RunsWith(e, b)'
              /\ running'[e].startedAs = "request"
              /\ \A x \in ToSet(Required[e]) : RunsWith(x, b)'
              /\ e \in Exclusive => Listed' \subseteq Closure(e) \union Allowed[e]]_vars

\* A start that succeeds leaves everything the experience requires running,
\* through other experiences too.
StartDeliversAll ==
    [][\A c \in Calls : Succeeds(c) =>
          \A e \in {calls[c].e}, b \in {calls[c].binding} :
              \A x \in Closure(e) : RunsWith(x, b)']_vars

\* A start that fails leaves nothing running that did not run before it, and
\* keeps what it requires itself that already ran with its binding.  (With the
\* same exception.)
FailedStartRollsBack ==
    [][\A c \in Calls : Fails(c) =>
          /\ Listed' \subseteq DOMAIN calls[c].before
          /\ \A x \in ToSet(Required[calls[c].e]) \intersect DOMAIN calls[c].before :
                calls[c].before[x] = calls[c].binding => running'[x] # None]_vars

\* A start either delivers all it promises or takes back all it did.
StartsAreWhole == StartDelivers /\ FailedStartRollsBack

\* Every call returns.
EveryCallReturns == \A c \in Callers : calls[c] # NoCall ~> calls[c] = NoCall
===============================================================================
