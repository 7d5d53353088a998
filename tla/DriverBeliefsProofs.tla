------------------------ MODULE DriverBeliefsProofs -------------------------
(***************************************************************************)
(* What the manager believes and what the bridge runs, for any keys,       *)
(* dependencies (circular ones too), clients and bounds. The requests are  *)
(* where DriverSystemProofs says; here each belief is compared with the    *)
(* instance it is about.                                                   *)
(*                                                                         *)
(* For one instance, `Believed` says how the two may differ: not at all    *)
(* when no operation is in flight, and otherwise as the operation's kind   *)
(* and the place its request has reached allow, up to the reports still in *)
(* stdout. Life says what each phase of the bridge's life leaves of        *)
(* beliefs and operations; Supported that no stop is held under a          *)
(* dependent; Wakeful that a manager with nothing in flight has nothing    *)
(* left to do; Grounded that no returned lease reaches an instance that    *)
(* depends on itself.                                                      *)
(*                                                                         *)
(* All of this is about states that are Calm: no request timed out, since  *)
(* a request given up may still take effect behind the manager's back, and *)
(* no driver changed its own state, since the report of it may be          *)
(* overtaken and asks for no pass of its own. The properties do not hold   *)
(* of other states.                                                        *)
(*                                                                         *)
(* NoOrphans does hold whatever the drivers report. Its invariant, in the  *)
(* last part, is weaker where reports may be late and about any number of  *)
(* them: PostedInOrder says which reports still have a reply behind them,  *)
(* Tracking that the manager knows of whatever exists, Watchful that       *)
(* nothing unwanted is left to stop, NoneOfStuck that no instance that     *)
(* depends on itself ever exists.                                          *)
(***************************************************************************)
EXTENDS DriverSystemProofs, WellFoundedInduction

(***************************************************************************)
(* Where the bridge is in its life decides whether the manager uses it,    *)
(* and what is left of its requests.                                       *)
(***************************************************************************)
Empty ==
  /\ stdin = <<>> /\ stdout = <<>> /\ queue = NoQueue /\ task = NoTask
  /\ instances = NoInstances /\ external = {} /\ unposted = {}

Life ==
  /\ bridge \in {"starting", "up"} => mgr.active
  /\ bridge = "up" => mgr.bridgeReady
  /\ bridge \in {"down", "starting", "interrupted", "unresponsive"} => ~mgr.bridgeReady
  /\ bridge = "down" => ~alive /\ \A k \in Keys : ~Awaits(mgr, k)
  /\ bridge \in {"starting", "interrupted"} => Empty /\ \A k \in Keys : ~Busy(mgr, k)
  /\ mgr.bridgeReady => \A k \in Keys : Busy(mgr, k) => mgr.inFlight[k].live
  /\ mgr.bridgeReady => \A c \in Calls : call[c] \notin {"waiting", "rewaiting"}

-----------------------------------------------------------------------------
(* What a step of the system may be, as far as beliefs and requests go. *)

\* Leases and retries may change, and failures be forgotten: what the manager
\* believes, and what it awaits, is the same.
SameBeliefs(m, n) ==
  /\ n \in Managers
  /\ n.inFlight = m.inFlight /\ n.actual = m.actual /\ n.subscriptions = m.subscriptions
  /\ n.active = m.active /\ n.bridgeReady = m.bridgeReady
  /\ n.failedSubscriptions \subseteq m.failedSubscriptions

\* A handler that ends with a pass, and one that changes nothing a pass would
\* act on.
Passes == UNCHANGED_PY /\ \E n : SameBeliefs(mgr, n) /\ Reconcile(n)
Idles ==
  /\ UNCHANGED_PY /\ UNCHANGED stdin
  /\ SameBeliefs(mgr, mgr') /\ (mgr' = mgr \/ ~mgr.bridgeReady)

\* The handlers of Node that no event of the bridge's life is part of.
NodeHandles == Passes \/ Idles \/ HandleLine \/ \E k \in Keys : Resume(k)

LEMMA LeasesKeepBeliefs ==
  ASSUME TypeOK
  PROVE  /\ SameBeliefs(mgr, mgr)
         /\ \A c \in Calls : SameBeliefs(mgr, TakeLease(mgr, c))
         /\ \A gone : SameBeliefs(mgr, DropLeases(mgr, gone)) /\ SameBeliefs(mgr, Release(mgr, gone))
         /\ \A k \in Keys : SameBeliefs(mgr, [mgr EXCEPT !.stopRetries[k] = "due"])
<1>1. mgr \in Managers
  BY DEF TypeOK
<1>2. \A c \in Calls : TakeLease(mgr, c).actual = mgr.actual
  BY <1>1 DEF TakeLease, Managers
<1>3. \A gone : DropLeases(mgr, gone).actual = mgr.actual /\ Release(mgr, gone).actual = mgr.actual
  BY <1>1 DEF DropLeases, Release, Managers
<1>4. \A k \in Keys : SameBeliefs(mgr, [mgr EXCEPT !.stopRetries[k] = "due"])
  BY <1>1 DEF Managers, SameBeliefs
<1>5. QED
  BY <1>1, <1>2, <1>3, <1>4, LeaseKeeps, TakeLeaseTypes, DropLeasesTypes, ReleaseTypes
  DEF SameBeliefs, LeasesOnly

\* Every step is an event of the bridge's life, a mishap, a step of the bridge or
\* a handler of Node.
LEMMA StepIs ==
  ASSUME TypeOK, Life, [Next]_vars
  PROVE  \/ BridgeEvent \/ StopManager \/ StartBridge \/ ProcessExits
         \/ \E k \in Keys : RequestTimesOut(k)
         \/ \E k \in Keys, state \in {"running", "errored"} : DriverReports(k, state)
         \/ PythonStep
         \/ NodeHandles /\ UNCHANGED <<bridge, timeouts, published>>
<1>1. \A c \in Calls : Subscribe(c) => Passes \/ Idles
  BY LeasesKeepBeliefs DEF Subscribe, Passes, Idles
<1>2. \A client, sub : Unsubscribe(client, sub) => Passes
  BY LeasesKeepBeliefs DEF Unsubscribe, Passes
<1>3. \A client : Disconnect(client) => Passes \/ Idles
  BY LeasesKeepBeliefs DEF Disconnect, Passes, Idles
<1>4. \A c \in Calls : Wake(c) => Passes
  BY LeasesKeepBeliefs DEF Wake, Passes
<1>5. \A c \in Calls : WaitTimesOut(c) => Idles
  BY LeasesKeepBeliefs DEF WaitTimesOut, Idles, Life
<1>6. \A c \in Calls : Settle(c) => Passes \/ Idles
  BY LeasesKeepBeliefs DEF Settle, Passes, Idles
<1>7. \A k \in Keys : StopRetryFires(k) => Passes
  BY LeasesKeepBeliefs DEF StopRetryFires, Passes
<1>8. UNCHANGED vars => Idles /\ UNCHANGED <<bridge, timeouts, published>>
  BY LeasesKeepBeliefs DEF Idles, vars, pyVars, nodeVars, counters, UNCHANGED_PY
<1>9. CASE ClientStep
  <2>1. UNCHANGED <<bridge, timeouts, published>>
    BY <1>9 DEF ClientStep, Subscribe, Unsubscribe, Disconnect, counters
  <2>2. QED
    BY <1>1, <1>2, <1>3, <1>9, <2>1 DEF ClientStep, NodeHandles
<1>10. CASE \E c \in Calls : Wake(c) \/ Settle(c) \/ WaitTimesOut(c)
  <2>1. UNCHANGED <<bridge, timeouts, published>>
    BY <1>10 DEF Wake, Settle, WaitTimesOut, counters
  <2>2. QED
    BY <1>4, <1>5, <1>6, <1>10, <2>1 DEF NodeHandles
<1>11. CASE HandleLine \/ \E k \in Keys : Resume(k) \/ StopRetryFires(k)
  <2>1. UNCHANGED <<bridge, timeouts, published>>
    BY <1>11 DEF HandleLine, Resume, StopRetryFires, counters
  <2>2. QED
    BY <1>7, <1>11, <2>1 DEF NodeHandles
<1>12. QED
  BY <1>8, <1>9, <1>10, <1>11 DEF Next, NodeStep, Mishap, BridgeEvent, NodeHandles

-----------------------------------------------------------------------------
(* What Node writes. *)

\* An instance gets a request only when its operation awaits a new one.
LEMMA UpdateDoes ==
  ASSUME TypeOK, NEW m \in Managers, Update(m), UNCHANGED <<queue, task>>
  PROVE  /\ mgr' = m
         /\ \A k \in Keys :
              /\ InTask(k)' = InTask(k)
              /\ ~Sends(mgr, m, k) => Waiting(k)' = Waiting(k)
              /\ Waiting(k)' \subseteq Waiting(k) \union {RequestOf(k, m.inFlight[k])}
         /\ (\A k \in Keys : ~Sends(mgr, m, k)) => stdin' = stdin
<1> DEFINE t == NewRequests(mgr, m)
<1>1. mgr' = m /\ stdin' = IF alive THEN stdin \o t ELSE stdin
  BY DEF Update
<1>2. t \in Seq(BridgeRequests)
      /\ \A r \in Range(t) : \E k \in Keys : Sends(mgr, m, k) /\ r = RequestOf(k, m.inFlight[k])
                                             /\ r.key = k
  BY NewRequestsFacts
<1> HIDE DEF t
<1>3. stdin \in Seq(BridgeRequests)
  BY DEF TypeOK, PyTypeOK
<1>4. Range(stdin') \subseteq Range(stdin) \union Range(t) /\ Range(stdin) \subseteq Range(stdin')
  BY <1>1, <1>2, <1>3, ConcatFacts
<1>5. \A k \in Keys :
        /\ ~Sends(mgr, m, k) => InStdin(k)' = InStdin(k)
        /\ InStdin(k)' \subseteq InStdin(k) \union {RequestOf(k, m.inFlight[k])}
  BY <1>2, <1>4 DEF InStdin
<1>6. (\A k \in Keys : ~Sends(mgr, m, k)) => stdin' = stdin
  <2> SUFFICES ASSUME \A k \in Keys : ~Sends(mgr, m, k) PROVE stdin' = stdin
    OBVIOUS
  <2>1. Range(t) = {}
    BY <1>2
  <2>2. t = <<>>
    <3>1. ASSUME t # <<>> PROVE FALSE
      <4>1. Len(t) \in Nat /\ Len(t) # 0 /\ DOMAIN t = 1..Len(t)
        BY <1>2, <3>1, EmptySeq, LenProperties
      <4>2. t[1] \in Range(t)
        BY <4>1 DEF Range
      <4>3. QED
        BY <2>1, <4>2
    <3>2. QED
      BY <3>1
  <2>3. QED
    BY <1>1, <1>3, <2>2, ConcatEmptySeq
<1>7. QED
  BY <1>1, <1>5, <1>6 DEF InTask, InQueue, Waiting

\* Whatever becomes of an operation, it is of the manager's generation or was
\* not: a handler only starts operations of the current one.
LEMMA HandledOperations ==
  ASSUME TypeOK, NodeHandles
  PROVE  \A k \in Keys :
           Busy(mgr, k)' => \/ Busy(mgr, k) /\ mgr'.inFlight[k].live = mgr.inFlight[k].live
                            \/ mgr'.inFlight[k].live = TRUE
<1>0. mgr \in Managers /\ NextId \in Nat
  BY BoundsAssumption DEF TypeOK, NextId
<1>1. \A n \in Managers : n.inFlight = mgr.inFlight =>
        \A k \in Keys : \/ Kick(n, NextId).inFlight[k] = mgr.inFlight[k]
                        \/ Kick(n, NextId).inFlight[k].live = TRUE
  BY <1>0, KickTurns DEF Fresh
<1>2. CASE Passes
  <2>1. PICK n : SameBeliefs(mgr, n) /\ mgr' = Kick(n, NextId)
    BY <1>2 DEF Passes, Reconcile, Update
  <2>2. QED
    BY <1>1, <2>1 DEF SameBeliefs, Busy
<1>3. CASE Idles
  BY <1>3 DEF Idles, SameBeliefs, Busy
<1>4. CASE HandleLine
  <2>1. CASE \E k \in Keys, result \in {"ok", "error"} : Awaits(mgr, k) /\ mgr' = Noted(k, result)
    <3>1. PICK k \in Keys : \E result \in {"ok", "error"} : Awaits(mgr, k) /\ mgr' = Noted(k, result)
      BY <2>1
    <3>2. PICK result \in {"ok", "error"} : Awaits(mgr, k) /\ mgr' = Noted(k, result)
      BY <3>1
    <3>3. QED
      BY <1>0, <3>2, NotedDoes DEF Busy
  <2>2. CASE \E k \in Keys, state \in DriverStates :
               \/ mgr' = ReportState(mgr, k, state)
               \/ mgr' = Kick(ReportState(mgr, k, state), NextId)
    BY <1>0, <1>1, <2>2, ReportStateTypes, ReportKeeps DEF BeliefsOnly, Busy
  <2>3. CASE mgr' = mgr
    BY <2>3 DEF Busy
  <2>4. QED
    <3>1. HandleLine => \/ mgr' = mgr
                        \/ \E k \in Keys, result \in {"ok", "error"} :
                             Awaits(mgr, k) /\ mgr' = Noted(k, result)
                        \/ \E k \in Keys, state \in DriverStates :
                             \/ mgr' = ReportState(mgr, k, state)
                             \/ mgr' = Kick(ReportState(mgr, k, state), NextId)
      <4>1. PICK line : line = Head(stdout)
        OBVIOUS
      <4>2. HandleLine => line \in BridgeResponses
        BY <4>1, HeadTailProperties DEF HandleLine, TypeOK, PyTypeOK
      <4>3. line \in BridgeResponses => line.key \in Keys
            /\ (line.type = "driver-state" => line.state \in DriverStates)
        BY DEF BridgeResponses, Results, StateReports
      <4>4. QED
        BY <4>1, <4>2, <4>3 DEF HandleLine, Answers, Reconcile, Update, Noted
    <3>2. QED
      BY <1>4, <2>1, <2>2, <2>3, <3>1
<1>5. CASE \E k \in Keys : Resume(k)
  <2>1. PICK k \in Keys : Resume(k)
    BY <1>5
  <2>2. mgr' = Proceed(mgr, k, NextId) /\ Busy(mgr, k) /\ ~Awaits(mgr, k)
    BY <2>1 DEF Resume, Update, Settled, Awaits
  <2>3. Turns(mgr, mgr', NextId)
    BY <1>0, <2>2, ProceedTurns
  <2>4. QED
    BY <2>3 DEF Turns, Fresh, Busy
<1>6. QED
  BY <1>2, <1>3, <1>4, <1>5 DEF NodeHandles

\* While the bridge is not usable, Node writes nothing and starts nothing.
LEMMA HandledQuietly ==
  ASSUME TypeOK, Quiet(mgr), ~mgr.bridgeReady, NodeHandles
  PROVE  /\ stdin' = stdin
         /\ \A k \in Keys : /\ Busy(mgr, k)' => Busy(mgr, k)
                            /\ Awaits(mgr, k)' => Awaits(mgr, k)
<1>0. mgr \in Managers /\ NextId \in Nat
  BY BoundsAssumption DEF TypeOK, NextId
<1>1. ASSUME NEW n, n \in Managers, n.inFlight = mgr.inFlight, n.bridgeReady = mgr.bridgeReady,
             Update(n) \/ Reconcile(n), UNCHANGED <<queue, task>>
      PROVE  stdin' = stdin /\ mgr'.inFlight = mgr.inFlight
  <2>1. Kick(n, NextId) = n
    BY <1>0, <1>1, KickKeeps
  <2>2. Update(n)
    BY <1>1, <2>1 DEF Reconcile
  <2>3. \A k \in Keys : ~Sends(mgr, n, k)
    BY <1>1 DEF Sends
  <2>4. QED
    BY <1>1, <2>2, <2>3, UpdateDoes
<1>2. CASE Passes
  BY <1>1, <1>2 DEF Passes, SameBeliefs, UNCHANGED_PY, Busy, Awaits
<1>3. CASE Idles
  BY <1>3 DEF Idles, SameBeliefs, Busy, Awaits
<1>4. CASE HandleLine
  <2>1. PICK line : line = Head(stdout)
    OBVIOUS
  <2>2. line \in BridgeResponses
    BY <1>4, <2>1, HeadTailProperties DEF HandleLine, TypeOK, PyTypeOK
  <2>3. CASE line.type = "result" /\ stdin' = stdin
    <3>1. \/ mgr' = mgr
          \/ Awaits(mgr, line.key) /\ \E result \in {"ok", "error"} : mgr' = Noted(line.key, result)
      BY <1>4, <2>1, <2>3 DEF HandleLine, Answers, Noted
    <3>2. line.key \in Keys
      BY <2>2, ResponseTypes
    <3>3. CASE mgr' = mgr
      BY <2>3, <3>3 DEF Busy, Awaits
    <3>4. CASE Awaits(mgr, line.key) /\ \E result \in {"ok", "error"} : mgr' = Noted(line.key, result)
      <4>1. PICK result \in {"ok", "error"} : mgr' = Noted(line.key, result)
        BY <3>4
      <4>2. \A k \in Keys \ {line.key} : mgr'.inFlight[k] = mgr.inFlight[k]
        BY <1>0, <3>2, <3>4, <4>1, NotedDoes
      <4>3. QED
        BY <2>3, <3>4, <4>2 DEF Busy, Awaits
    <3>5. QED
      BY <3>1, <3>3, <3>4
  <2>4. CASE /\ line.type = "driver-state"
             /\ \/ Reconcile(ReportState(mgr, line.key, line.state))
                \/ Update(ReportState(mgr, line.key, line.state))
    <3>1. line.key \in Keys /\ line.state \in DriverStates
      BY <2>2, <2>4 DEF BridgeResponses, Results, StateReports
    <3>2. /\ ReportState(mgr, line.key, line.state) \in Managers
          /\ BeliefsOnly(mgr, ReportState(mgr, line.key, line.state))
      BY <1>0, <3>1, ReportStateTypes, ReportKeeps
    <3>3. stdin' = stdin /\ mgr'.inFlight = mgr.inFlight
      BY <1>1, <1>4, <2>4, <3>2 DEF BeliefsOnly, HandleLine
    <3>4. QED
      BY <3>3 DEF Busy, Awaits
  <2>5. QED
    BY <1>4, <2>1, <2>3, <2>4 DEF HandleLine
<1>5. CASE \E k \in Keys : Resume(k)
  <2>1. PICK k \in Keys : Resume(k)
    BY <1>5
  <2>2. Update(Proceed(mgr, k, NextId)) /\ Busy(mgr, k) /\ UNCHANGED <<queue, task>>
    BY <2>1 DEF Resume, Settled, UNCHANGED_PY
  <2>3. Proceed(mgr, k, NextId) = [mgr EXCEPT !.inFlight[k] = NoOperation]
        /\ Proceed(mgr, k, NextId) \in Managers
    BY <1>0, <2>2, ProceedTypes DEF Quiet
  <2>4. PICK n : n = [mgr EXCEPT !.inFlight[k] = NoOperation]
    OBVIOUS
  <2>5. /\ \A j \in Keys \ {k} : n.inFlight[j] = mgr.inFlight[j]
        /\ n.inFlight[k] = NoOperation
    BY <1>0, <2>4 DEF Managers
  <2>6. \A j \in Keys : ~Sends(mgr, n, j)
    BY <2>5 DEF Sends, Awaits, Busy
  <2>7. mgr' = n /\ stdin' = stdin
    BY <2>2, <2>3, <2>4, <2>6, UpdateDoes
  <2>8. QED
    BY <2>5, <2>7 DEF Busy, Awaits
<1>6. QED
  BY <1>2, <1>3, <1>4, <1>5 DEF NodeHandles

\* Nothing happens in an empty bridge.
LEMMA EmptyIsStill ==
  ASSUME TypeOK, Empty
  PROVE  ~PythonStep /\ ~HandleLine /\ \A k \in Keys : \A state : ~DriverReports(k, state)
<1>1. \A k \in Keys : task[k] = Idle /\ queue[k] = <<>> /\ instances[k] = "absent"
  BY DEF Empty, NoTask, NoQueue, NoInstances
<1>2. ASSUME NEW k \in Keys, WorkerStep(k) PROVE FALSE
  <2>1. \A type : ~Takes(k, type)
    BY <1>1 DEF Takes
  <2>2. task[k].type = "idle"
    BY <1>1 DEF Idle
  <2>3. task[k].type \notin {"start-driver", "stop-driver"}
    BY <2>2
  <2>4. QED
    BY <1>2, <2>1, <2>3
    DEF WorkerStep, StartBegins, StartRepeated, StartRefused, StartSucceeds,
        StartReported, StartFails, StopAbsent, StopBegins, StopSucceeds, StopTimesOut
<1>3. \A k \in Keys : \A state : ~DriverPublishes(k, state)
  BY <1>1 DEF DriverPublishes
<1>4. QED
  BY <1>2, <1>3 DEF Empty, PythonStep, BridgeStep, ReadSubscribe, ReadLifecycle, PublishedPosted,
                    HandleLine, DriverReports

-----------------------------------------------------------------------------
(* The bridge's life. *)

\* A call only begins to wait while the bridge is not usable, and is woken when
\* it comes.
LEMMA CallsWait ==
  ASSUME TypeOK, [Next]_vars, NEW c \in Calls, call'[c] \in {"waiting", "rewaiting"}
  PROVE  /\ call[c] \in {"waiting", "rewaiting"} \/ ~mgr.bridgeReady
         /\ ~BridgeReady
<1>1. ~BridgeReady
  BY DEF BridgeReady
<1>2. CASE call' = call
  BY <1>1, <1>2
<1>3. CASE \E d \in Calls : Subscribe(d) /\ ~mgr.bridgeReady
  BY <1>1, <1>3
<1>4. CASE \E d \in Calls : \E state \in CallStates \ {"waiting", "rewaiting"} :
             call' = [call EXCEPT ![d] = state]
  BY <1>1, <1>4 DEF TypeOK
<1>5. CASE \E d \in Calls : Settle(d)
  BY <1>1, <1>5 DEF Settle, TypeOK
<1>6. CASE StopManager
  BY <1>1, <1>6 DEF StopManager, TypeOK
<1>7. QED
  BY <1>1, <1>2, <1>3, <1>4, <1>5, <1>6
  DEF Next, vars, nodeVars, PythonStep, NodeStep, ClientStep, Mishap, Subscribe, Unsubscribe,
      Disconnect, Wake, WaitTimesOut, HandleLine, Resume, RequestTimesOut, StopRetryFires,
      StartBridge, ProcessExits, HandleExit, BridgeGivenUp, ManagerStopped, DriverReports,
      CallStates

\* The manager's fields and the bridge's side are as they were, for the rest.
LEMMA LifeOfHandlers ==
  ASSUME TypeOK, Quiet(mgr), Life, [Next]_vars, UNCHANGED <<bridge, alive>>,
         mgr'.active = mgr.active, mgr'.bridgeReady = mgr.bridgeReady,
         NodeHandles
         \/ (\E k \in Keys : RequestTimesOut(k))
         \/ (\E k \in Keys, state \in {"running", "errored"} : DriverReports(k, state))
         \/ PythonStep
  PROVE  Life'
<1>0. mgr \in Managers
  BY DEF TypeOK
<1>1. mgr'.bridgeReady => \A c \in Calls : call'[c] \notin {"waiting", "rewaiting"}
  BY CallsWait DEF Life
<1>2. CASE PythonStep \/ (\E k \in Keys, state \in {"running", "errored"} : DriverReports(k, state))
  <2>1. mgr' = mgr /\ ~Empty
    BY <1>2, EmptyIsStill DEF PythonStep, DriverReports, nodeVars
  <2>2. bridge \notin {"starting", "interrupted"}
    BY <2>1 DEF Life
  <2>3. QED
    BY <1>1, <2>1, <2>2 DEF Life, Busy, Awaits
<1>3. CASE \E k \in Keys : RequestTimesOut(k)
  <2>1. PICK k \in Keys : RequestTimesOut(k)
    BY <1>3
  <2>2. Awaits(mgr, k) /\ mgr' = Noted(k, "error") /\ UNCHANGED pyVars
    BY <2>1 DEF RequestTimesOut, Noted, UNCHANGED_PY, pyVars
  <2>3. /\ \A j \in Keys \ {k} : mgr'.inFlight[j] = mgr.inFlight[j]
        /\ mgr'.inFlight[k].live = mgr.inFlight[k].live /\ Busy(mgr, k)
    BY <1>0, <2>2, NotedDoes
  <2>4. bridge \notin {"down", "starting", "interrupted"}
    BY <2>2, <2>3 DEF Life
  <2>5. \A j \in Keys : Busy(mgr, j)' => Busy(mgr, j) /\ mgr'.inFlight[j].live = mgr.inFlight[j].live
    BY <2>3 DEF Busy
  <2>6. QED
    BY <1>1, <2>4, <2>5 DEF Life
<1>4. CASE NodeHandles
  <2>1. \A k \in Keys : mgr.bridgeReady /\ Busy(mgr, k)' => mgr'.inFlight[k].live
    BY <1>4, HandledOperations DEF Life
  <2>2. ASSUME ~mgr.bridgeReady
        PROVE  /\ stdin' = stdin
               /\ \A k \in Keys : /\ Busy(mgr, k)' => Busy(mgr, k)
                                  /\ Awaits(mgr, k)' => Awaits(mgr, k)
    BY <1>4, <2>2, HandledQuietly
  <2>3. ASSUME bridge \in {"starting", "interrupted"} PROVE Empty'
    <3>1. Empty /\ ~HandleLine /\ ~mgr.bridgeReady
      BY <2>3, EmptyIsStill DEF Life
    <3>2. UNCHANGED_PY
      BY <1>4, <3>1 DEF NodeHandles, Passes, Idles, Resume
    <3>3. QED
      BY <2>2, <3>1, <3>2 DEF Empty, UNCHANGED_PY
  <2>4. QED
    BY <1>1, <2>1, <2>2, <2>3 DEF Life
<1>5. QED
  BY <1>2, <1>3, <1>4

LEMMA StepKeepsLife ==
  TypeOK /\ Quiet(mgr) /\ Lives /\ Life /\ [Next]_vars => Life'
<1> SUFFICES ASSUME TypeOK, Quiet(mgr), Lives, Life, [Next]_vars PROVE Life'
  OBVIOUS
<1>0. mgr \in Managers /\ NextId \in Nat
  BY BoundsAssumption DEF TypeOK, NextId
<1>1. /\ mgr'.active = mgr.active \/ StopManager
      /\ mgr'.bridgeReady = mgr.bridgeReady \/ BridgeEvent
  BY ActiveOrStopping
<1>2. mgr'.bridgeReady => mgr.bridgeReady \/ BridgeReady
  BY <1>1, BridgeEvents DEF BridgeEvent
<1>3. mgr'.bridgeReady => \A c \in Calls : call'[c] \notin {"waiting", "rewaiting"}
  BY <1>2, CallsWait DEF Life
<1>4. CASE StopManager
  <2>1. PICK gone : mgr' = [DropLeases(mgr, gone) EXCEPT !.active = FALSE]
    BY <1>4, StopManagerActs
  <2>2. mgr'.active = FALSE /\ mgr'.inFlight = mgr.inFlight /\ mgr'.bridgeReady = mgr.bridgeReady
    <3>1. DropLeases(mgr, gone) \in Managers
          /\ DropLeases(mgr, gone).inFlight = mgr.inFlight
          /\ DropLeases(mgr, gone).bridgeReady = mgr.bridgeReady
      BY <1>0, DropLeasesTypes, LeaseKeeps DEF LeasesOnly
    <3>2. QED
      BY <2>1, <3>1 DEF Managers
  <2>3. UNCHANGED pyVars /\ bridge' = CASE bridge = "down" -> "stopped"
                                        [] bridge = "starting" -> "interrupted"
                                        [] OTHER -> "stopping"
    BY <1>4 DEF StopManager
  <2>4. bridge' \notin {"down", "starting", "up", "unresponsive"}
        /\ (bridge' = "interrupted" => bridge = "starting")
    BY <2>3
  <2>5. bridge' = "interrupted" => Empty' /\ ~mgr'.bridgeReady /\ \A k \in Keys : ~Busy(mgr, k)'
    BY <2>2, <2>3, <2>4 DEF Life, Empty, pyVars, Busy
  <2>6. mgr'.bridgeReady => \A k \in Keys : Busy(mgr, k)' => mgr'.inFlight[k].live
    BY <2>2 DEF Life, Busy
  <2>7. QED
    BY <1>3, <2>4, <2>5, <2>6 DEF Life
<1>5. CASE BridgeEvent /\ ~StopManager
  <2>1. CASE BridgeReady
    <3>1. bridge \in {"starting", "interrupted"}
          /\ bridge' = IF bridge = "starting" THEN "up" ELSE "stopping"
      BY <2>1 DEF BridgeReady
    <3>2. mgr'.bridgeReady = TRUE
      BY <2>1, BridgeEvents
    <3>3. \A k \in Keys : Busy(mgr, k)' => mgr'.inFlight[k].live
      <4>1. mgr' = Kick(BridgeCame(mgr), NextId) /\ BridgeCame(mgr) \in Managers
        BY <1>0, <2>1, BridgeReadyActs, BridgeHandlersTypes
      <4>2. \A k \in Keys : BridgeCame(mgr).inFlight[k] = mgr.inFlight[k] /\ ~Busy(mgr, k)
        BY <1>0, <3>1 DEF Life, BridgeCame, Managers
      <4>3. QED
        BY <1>0, <4>1, <4>2, KickTurns DEF Busy, Fresh
    <3>4. bridge = "starting" => mgr'.active
      BY <1>1, <1>5 DEF Life
    <3>5. QED
      BY <1>3, <3>1, <3>2, <3>3, <3>4 DEF Life
  <2>2. CASE HandleExit
    <3>1. ~alive /\ UNCHANGED pyVars
          /\ mgr'.bridgeReady = IF bridge \in {"starting", "up"} THEN FALSE ELSE mgr.bridgeReady
      BY <2>2, BridgeEvents DEF HandleExit
    <3>2. \/ bridge \in {"starting", "up"} /\ bridge' = "down"
             /\ mgr' = BridgeGone(RejectPending(mgr))
          \/ bridge \in {"unresponsive", "interrupted", "stopping"} /\ mgr' = RejectPending(mgr)
             /\ bridge' = IF bridge = "unresponsive" THEN "down" ELSE "stopped"
      BY <2>2 DEF HandleExit
    <3>3. \A n \in Managers : \A k \in Keys :
            /\ Busy(RejectPending(n), k) => Busy(n, k)
            /\ ~Awaits(RejectPending(n), k)
            /\ Busy(n, k) => RejectPending(n).inFlight[k].live = n.inFlight[k].live
      <4> SUFFICES ASSUME NEW n \in Managers, NEW k \in Keys
                   PROVE  /\ Busy(RejectPending(n), k) => Busy(n, k)
                          /\ ~Awaits(RejectPending(n), k)
                          /\ Busy(n, k) => RejectPending(n).inFlight[k].live = n.inFlight[k].live
        OBVIOUS
      <4>1. PICK op : op = n.inFlight[k]
        OBVIOUS
      <4>2. RejectPending(n).inFlight[k] = IF Awaits(n, k) THEN [op EXCEPT !.result = "error"] ELSE op
        BY <4>1 DEF RejectPending, Managers
      <4>3. CASE Awaits(n, k)
        <5>1. op \in Operations
          BY <4>1, <4>3 DEF Awaits, Busy, Managers
        <5>2. [op EXCEPT !.result = "error"].result = "error"
              /\ [op EXCEPT !.result = "error"].live = op.live
          BY <5>1 DEF Operations
        <5>3. QED
          BY <4>1, <4>2, <4>3, <5>2 DEF Awaits, Busy
      <4>4. CASE ~Awaits(n, k)
        BY <4>1, <4>2, <4>4 DEF Awaits, Busy
      <4>5. QED
        BY <4>3, <4>4
    <3>4. \A n \in Managers : \A k \in Keys : Awaits(BridgeGone(n), k) => Awaits(n, k)
      <4> SUFFICES ASSUME NEW n \in Managers, NEW k \in Keys, Awaits(BridgeGone(n), k)
                   PROVE  Awaits(n, k)
        OBVIOUS
      <4>1. PICK op : op = n.inFlight[k]
        OBVIOUS
      <4>2. BridgeGone(n).inFlight[k] = IF Busy(n, k) THEN [op EXCEPT !.live = FALSE] ELSE NoOperation
        BY <4>1 DEF BridgeGone, Managers
      <4>3. op \in Operations /\ Busy(n, k)
        BY <4>1, <4>2 DEF Awaits, Busy, Managers
      <4>4. [op EXCEPT !.live = FALSE].result = op.result
        BY <4>3 DEF Operations
      <4>5. QED
        BY <4>1, <4>2, <4>3, <4>4 DEF Awaits, Busy
    <3>5. RejectPending(mgr) \in Managers
      BY <1>0, BridgeHandlersTypes
    <3>6. bridge' = "down" => \A k \in Keys : ~Awaits(mgr, k)'
      BY <1>0, <3>2, <3>3, <3>4, <3>5 DEF Awaits, Busy
    <3>7. mgr'.bridgeReady => \A k \in Keys : Busy(mgr, k)' => mgr'.inFlight[k].live
      BY <1>0, <3>1, <3>2, <3>3 DEF Life, Busy
    <3>8. bridge' \in {"down", "stopped"} /\ (bridge' = "down" => ~mgr'.bridgeReady) /\ ~alive'
      BY <3>1, <3>2 DEF Life, pyVars
    <3>9. QED
      BY <1>3, <3>6, <3>7, <3>8 DEF Life
  <2>3. CASE ManagerStopped \/ BridgeGivenUp
    <3>1. mgr'.bridgeReady = FALSE /\ bridge' \in {"closed", "unresponsive"}
      BY <2>3, BridgeEvents DEF ManagerStopped, BridgeGivenUp
    <3>2. QED
      BY <3>1 DEF Life
  <2>4. QED
    BY <1>5, <2>1, <2>2, <2>3 DEF BridgeEvent
<1>6. CASE StartBridge
  <2>1. /\ bridge = "down" /\ bridge' = "starting" /\ mgr' = mgr /\ mgr.active
        /\ Spawn /\ ~Continuations
    BY <1>6 DEF StartBridge, Macrotask
  <2>2. Empty'
    BY <2>1 DEF Spawn, ResetProcess, Empty
  <2>3. \A k \in Keys : ~Busy(mgr, k)
    <3>1. \A k \in Keys : Busy(mgr, k) => mgr.inFlight[k].result = "none"
      BY <2>1 DEF Continuations, Settled
    <3>2. QED
      BY <2>1, <3>1 DEF Life, Awaits
  <2>4. QED
    BY <1>3, <2>1, <2>2, <2>3 DEF Life, Busy
<1>7. CASE ProcessExits
  <2>1. Exit /\ UNCHANGED nodeVars
    BY <1>7 DEF ProcessExits
  <2>2. alive /\ ~alive' /\ mgr' = mgr /\ bridge' = bridge /\ (Empty => Empty')
    BY <2>1 DEF Exit, ResetProcess, Empty, nodeVars
  <2>3. QED
    BY <1>3, <2>2 DEF Life, Busy, Awaits
<1>8. CASE ~(BridgeEvent \/ StopManager \/ StartBridge \/ ProcessExits)
  <2>1. UNCHANGED <<bridge, alive>>
    BY <1>8, BridgeKept
  <2>2. QED
    BY <1>1, <1>8, <2>1, StepIs, LifeOfHandlers
<1>9. QED
  BY <1>4, <1>5, <1>6, <1>7, <1>8

-----------------------------------------------------------------------------
(* What the manager believes of an instance, while nothing timed out and no *)
(* driver changed its state on its own.                                     *)

Calm == timeouts = 0 /\ published = 0

\* Of one instance, nothing is unanswered but the request its operation awaits,
\* and that is in one place.
Alone(k) ==
  /\ Tokens(k) # {} => Awaits(mgr, k)
  /\ \A r \in Held(k) : r = RequestOf(k, mgr.inFlight[k])
  /\ Waiting(k) # {} => InTask(k) = {} /\ Replies(k) = {}
  /\ InTask(k) # {} => Replies(k) = {}
  /\ \A p, q \in Replies(k) : p = q
  /\ \A p \in Replies(k) : p.id = mgr.inFlight[k].id
Solo == Calm /\ alive => \A k \in Keys : Alone(k)

\* Reports are posted at once, and before the reply of the request they are about.
Ordered == Calm => unposted = {} /\ Ahead(stdout)

Subs(m, k) == {e \in Events : <<k, e>> \in m.subscriptions}
Ext(k) == {e \in Events : <<k, e>> \in external}

(***************************************************************************)
(* `m` agrees with a bridge whose instance k is in state `i` with the      *)
(* external subscriptions `x`, while the requests W wait, the worker runs  *)
(* T, and the replies P and the reports R are on their way.                *)
(***************************************************************************)
AtPeace(m, k, i, x) ==
  /\ m.actual[k] = i \/ (m.actual[k] = "errored" /\ i = "running" /\ ~m.active)
  /\ i \in {"absent", "running", "errored"}
  /\ x = Subs(m, k) /\ (i = "absent" => x = {})

Starting(m, k, i, x, W, T, P, R) ==
  /\ x = {} /\ Subs(m, k) = {}
  /\ m.actual[k] \in {"starting", "running"}
  /\ W # {} => i = "absent" /\ R = {}
  /\ T # {} => i \in {"starting", "running"} /\ \A r \in R : r.state = "starting"
  /\ \A p \in P : IF p.ok THEN i = "running" /\ \A r \in R : r.state \in {"starting", "running"}
                  ELSE i = "absent" /\ \A r \in R : r.state = "starting"
  /\ m.inFlight[k].result = "ok" => i = "running"
  /\ m.inFlight[k].result = "error" => i = "absent"

Stopping(m, k, i, x, W, T, P, R) ==
  /\ x = IF i = "absent" THEN {} ELSE Subs(m, k)
  /\ m.actual[k] \in {"stopping", "errored", "absent"}
  /\ m.actual[k] = "absent" => i = "absent" /\ Subs(m, k) = {}
  /\ W # {} => i \in {"running", "errored"} /\ R = {}
  /\ T # {} => i = "stopping" /\ \A r \in R : r.state = "stopping"
  /\ \A p \in P : IF p.ok THEN i = "absent" /\ \A r \in R : r.state \in {"stopping", "available"}
                  ELSE i = "errored" /\ \A r \in R : r.state \in {"stopping", "errored"}
  /\ m.inFlight[k].result = "ok" => i = "absent"
  /\ m.inFlight[k].result = "error" => i = "errored" \/ (i = "running" /\ ~m.active)

After(op, s) == IF op.change[2] THEN s \union {op.change[1]} ELSE s \ {op.change[1]}

Syncing(m, k, i, x, W, T, P, R) ==
  /\ m.actual[k] = "running" /\ i = "running" /\ T = {} /\ R = {}
  /\ W # {} => x = Subs(m, k)
  /\ \A p \in P : p.ok /\ x = After(m.inFlight[k], Subs(m, k))
  /\ m.inFlight[k].result = "ok" => x = After(m.inFlight[k], Subs(m, k))
  /\ m.inFlight[k].result = "error" => ~m.active /\ x = Subs(m, k)

Agrees(m, k, i, x, W, T, P, R) ==
  /\ R # {} => W \union T \union P # {}
  /\ ~Busy(m, k) => AtPeace(m, k, i, x)
  /\ Busy(m, k) =>
       \/ m.inFlight[k].kind = "start" /\ Starting(m, k, i, x, W, T, P, R)
       \/ m.inFlight[k].kind = "stop" /\ Stopping(m, k, i, x, W, T, P, R)
       \/ m.inFlight[k].kind = "sync" /\ Syncing(m, k, i, x, W, T, P, R)

Believed(k) ==
  Agrees(mgr, k, instances[k], Ext(k), Waiting(k), InTask(k), Replies(k), Reports(k))
Believing == Calm /\ alive /\ mgr.bridgeReady => \A k \in Keys : Believed(k)

\* No stop is held under an instance that exists or is about to.
StopHeld(k) == \E r \in Held(k) : r.type = "stop-driver"
StartHeld(k) == \E r \in Held(k) : r.type = "start-driver"
Supported ==
  Calm => \A j \in Keys : \A d \in Deps[j] :
    /\ instances[j] # "absent" => instances[d] = "running"
    /\ instances[j] # "absent" \/ StartHeld(j) => ~StopHeld(d)

\* With nothing in flight, another pass would change nothing.
Wakeful ==
  Calm /\ alive /\ bridge = "up" =>
    (\E k \in Keys : Busy(mgr, k)) \/ Kick(mgr, NextId) = mgr

\* A bridge in use refuses no subscription.
NoneFailed == Calm /\ alive /\ bridge = "up" => mgr.failedSubscriptions = {}

LEMMA RequestsAreAlone ==
  ASSUME TypeOK, InTime, timeouts = 0, alive, NEW k \in Keys
  PROVE  Alone(k)
<1>1. Timely(k) /\ Apart(k) /\ Keyed(k) /\ Single(stdout) /\ mgr \in Managers /\ PyTypeOK
  BY DEF InTime, OneEach, TypeOK
<1>2. \A x \in Tokens(k) : x.id = 0 /\ Awaits(mgr, k) /\ mgr.inFlight[k].id = 0
  BY <1>1 DEF Timely
<1>3. \A r \in Held(k) : r = RequestOf(k, mgr.inFlight[k])
  BY <1>1, <1>2 DEF Timely, Tokens, Awaits
<1>4. /\ Waiting(k) # {} => InTask(k) = {} /\ Replies(k) = {}
      /\ InTask(k) # {} => Replies(k) = {}
  <2>1. \A x \in InStdin(k) \union InQueue(k) \union InTask(k) \union Replies(k) : x.id = 0
    BY <1>2 DEF Tokens, Held, Waiting
  <2>2. \A x \in Waiting(k) : \A y \in InTask(k) \union Replies(k) : x.id # y.id
    BY <1>1 DEF Apart, Disjoint, Differ, Waiting
  <2>3. \A x \in InTask(k) : \A y \in Replies(k) : x.id # y.id
    BY <1>1 DEF Apart, Disjoint, Differ
  <2>4. QED
    BY <2>1, <2>2, <2>3 DEF Waiting
<1>5. \A p, q \in Replies(k) : p = q
  <2> SUFFICES ASSUME NEW p \in Replies(k), NEW q \in Replies(k) PROVE p = q
    OBVIOUS
  <2>1. p \in Range(stdout) /\ q \in Range(stdout) /\ p.key = k /\ q.key = k
        /\ p.type = "result" /\ q.type = "result"
    BY DEF Replies
  <2>2. stdout \in Seq(BridgeResponses) /\ DOMAIN stdout = 1..Len(stdout)
    BY <1>1, LenProperties DEF PyTypeOK
  <2>3. PICK i \in 1..Len(stdout) : stdout[i] = p
    BY <2>1, <2>2 DEF Range
  <2>4. PICK j \in 1..Len(stdout) : stdout[j] = q
    BY <2>1, <2>2 DEF Range
  <2>5. p.id = 0 /\ q.id = 0
    BY <1>2 DEF Tokens
  <2>6. ~IsReport(stdout[i]) /\ ~IsReport(stdout[j]) /\ SameTag(stdout[i], stdout[j])
    <3>1. ~IsReport(p) /\ ~IsReport(q)
      BY <2>1 DEF IsReport
    <3>2. QED
      BY <2>1, <2>3, <2>4, <2>5, <3>1 DEF SameTag
  <2>7. QED
    BY <1>1, <2>3, <2>4, <2>6 DEF Single
<1>6. QED
  BY <1>2, <1>3, <1>4, <1>5 DEF Alone, Tokens

LEMMA InTimeIsSolo == TypeOK /\ InTime => Solo
BY RequestsAreAlone DEF Solo, Calm

-----------------------------------------------------------------------------
(* Agreement under the manager's moves. *)

\* Agreement is about the operation, the belief and the acknowledged
\* subscriptions of the instance; a manager that is stopped agrees with no less.
LEMMA AgreesIgnores ==
  ASSUME NEW m, NEW n, NEW k, NEW i, NEW x, NEW W, NEW T, NEW P, NEW R,
         Agrees(m, k, i, x, W, T, P, R),
         n.inFlight[k] = m.inFlight[k], n.actual[k] = m.actual[k],
         Subs(n, k) = Subs(m, k), n.active => m.active
  PROVE  Agrees(n, k, i, x, W, T, P, R)
<1>1. Busy(n, k) <=> Busy(m, k)
  BY DEF Busy
<1>2. AtPeace(m, k, i, x) => AtPeace(n, k, i, x)
  BY DEF AtPeace
<1>3. Starting(m, k, i, x, W, T, P, R) => Starting(n, k, i, x, W, T, P, R)
  BY DEF Starting
<1>4. Stopping(m, k, i, x, W, T, P, R) => Stopping(n, k, i, x, W, T, P, R)
  BY DEF Stopping
<1>5. Syncing(m, k, i, x, W, T, P, R) => Syncing(n, k, i, x, W, T, P, R)
  BY DEF Syncing
<1>6. QED
  BY <1>1, <1>2, <1>3, <1>4, <1>5 DEF Agrees

\* A pass agrees with what the manager agreed with, and what it sends is due.
LEMMA PassAgrees ==
  ASSUME NEW m \in Managers, NEW id \in Nat, NEW k \in Keys,
         NEW i, NEW x, NEW W, NEW V, NEW T, NEW P, NEW R,
         Agrees(m, k, i, x, W, T, P, R),
         ~Busy(m, k) => W = {} /\ T = {} /\ P = {},
         Kick(m, id).inFlight[k] = m.inFlight[k] => V = W
  PROVE  Agrees(Kick(m, id), k, i, x, V, T, P, R)
<1>1. PICK n : n = Kick(m, id)
  OBVIOUS
<1>2. /\ n.subscriptions = m.subscriptions /\ n.active = m.active
      /\ \/ PassLeaves(m, n, k) \/ PassStarts(m, n, k, id)
         \/ PassStops(m, n, k, id) \/ PassSyncs(m, n, k, id)
  BY <1>1, KickDoes
<1>3. Subs(n, k) = Subs(m, k)
  BY <1>2 DEF Subs
<1>4. CASE PassLeaves(m, n, k)
  <2>1. Agrees(n, k, i, x, W, T, P, R)
    BY <1>2, <1>3, <1>4, AgreesIgnores DEF PassLeaves
  <2>2. V = W
    BY <1>1, <1>4 DEF PassLeaves
  <2>3. QED
    BY <1>1, <2>1, <2>2
<1>5. ASSUME ~Busy(m, k)
      PROVE  AtPeace(m, k, i, x) /\ T = {} /\ P = {} /\ R = {}
  BY <1>5 DEF Agrees
<1>6. CASE PassStarts(m, n, k, id)
  <2>1. AtPeace(m, k, i, x) /\ T = {} /\ P = {} /\ R = {} /\ m.actual[k] = "absent"
    BY <1>5, <1>6 DEF PassStarts, MustStart, Present
  <2>2. i = "absent" /\ x = {} /\ Subs(n, k) = {}
    BY <1>3, <2>1 DEF AtPeace
  <2>3. /\ n.inFlight[k] \in Operations /\ n.inFlight[k].kind = "start"
        /\ n.inFlight[k].result \in {"none", "error"}
    BY <1>6, LifecycleTypes DEF PassStarts, Lifecycle, FirstOutcome
  <2>4. Starting(n, k, i, x, V, T, P, R)
    BY <1>6, <2>1, <2>2, <2>3 DEF Starting, PassStarts
  <2>5. QED
    BY <1>1, <2>1, <2>3, <2>4, OperationsAreBusy DEF Agrees, Busy
<1>7. CASE PassStops(m, n, k, id)
  <2>1. /\ AtPeace(m, k, i, x) /\ T = {} /\ P = {} /\ R = {}
        /\ m.actual[k] \notin {"absent", "starting", "stopping"}
    BY <1>5, <1>7 DEF PassStops, MustStop, Present
  <2>2. /\ i \in {"running", "errored"} /\ x = Subs(n, k)
    BY <1>3, <2>1 DEF AtPeace
  <2>3. /\ n.inFlight[k] \in Operations /\ n.inFlight[k].kind = "stop"
        /\ n.inFlight[k].result = IF m.active THEN "none" ELSE "error"
    BY <1>7, LifecycleTypes DEF PassStops, Lifecycle, FirstOutcome
  <2>4. Stopping(n, k, i, x, V, T, P, R)
    BY <1>2, <1>7, <2>1, <2>2, <2>3 DEF Stopping, PassStops
  <2>5. QED
    BY <1>1, <2>1, <2>3, <2>4, OperationsAreBusy DEF Agrees, Busy
<1>8. CASE PassSyncs(m, n, k, id)
  <2>1. /\ AtPeace(m, k, i, x) /\ T = {} /\ P = {} /\ R = {} /\ m.actual[k] = "running"
        /\ SubscriptionChanges(m, k) # {}
    BY <1>5, <1>8 DEF PassSyncs, MustSync
  <2>2. /\ i = "running" /\ x = Subs(n, k)
    BY <1>3, <2>1 DEF AtPeace
  <2>3. /\ n.inFlight[k] \in Operations /\ n.inFlight[k].kind = "sync"
        /\ n.inFlight[k].result = IF m.active THEN "none" ELSE "error"
    BY <1>8, <2>1, SyncTypes, SubscriptionChangesTypes DEF PassSyncs, Sync, FirstOutcome
  <2>4. Syncing(n, k, i, x, V, T, P, R)
    BY <1>2, <1>8, <2>1, <2>2, <2>3 DEF Syncing, PassSyncs
  <2>5. QED
    BY <1>1, <2>1, <2>3, <2>4, OperationsAreBusy DEF Agrees, Busy
<1>9. QED
  BY <1>2, <1>4, <1>6, <1>7, <1>8

\* What ending an operation does to beliefs.
LEMMA ConcludeDoes ==
  ASSUME NEW m \in Managers, NEW k \in Keys, Busy(m, k), m.inFlight[k].live,
         m.inFlight[k].result \in {"ok", "error"}
  PROVE  LET n == Conclude(m, k)
             op == m.inFlight[k]
         IN  /\ \A j \in Keys \ {k} : n.actual[j] = m.actual[j] /\ Subs(n, j) = Subs(m, j)
             /\ op.kind = "start" =>
                  n.failedSubscriptions = m.failedSubscriptions
                  /\ IF op.result = "ok" THEN n.actual[k] = "running" /\ Subs(n, k) = Subs(m, k)
                     ELSE n.actual[k] = "absent" /\ Subs(n, k) = {}
             /\ op.kind = "stop" =>
                  n.failedSubscriptions = m.failedSubscriptions
                  /\ IF op.result = "ok" THEN n.actual[k] = "absent" /\ Subs(n, k) = {}
                     ELSE /\ n.actual[k] = IF m.actual[k] = "stopping" THEN "errored" ELSE m.actual[k]
                          /\ Subs(n, k) = Subs(m, k)
             /\ op.kind = "sync" =>
                  /\ n.actual[k] = m.actual[k]
                  /\ IF op.result = "ok" THEN Subs(n, k) = After(op, Subs(m, k))
                                              /\ n.failedSubscriptions = m.failedSubscriptions
                     ELSE Subs(n, k) = Subs(m, k)
<1>1. PICK n : n = Conclude(m, k)
  OBVIOUS
<1>2. PICK op : op = m.inFlight[k]
  OBVIOUS
<1>3. /\ op \in Operations /\ op.kind \in {"start", "stop", "sync"}
      /\ op.kind = "sync" => op.change \in Changes
  <2>1. op \in Operations
    BY <1>2 DEF Busy, Managers
  <2>2. QED
    BY <2>1, OperationsAreBusy
<1>4. /\ \A j \in Keys \ {k} : DropActual(m, k).actual[j] = m.actual[j]
                               /\ Subs(DropActual(m, k), j) = Subs(m, j)
      /\ DropActual(m, k).actual[k] = "absent" /\ Subs(DropActual(m, k), k) = {}
      /\ DropActual(m, k).failedSubscriptions = m.failedSubscriptions
      /\ DropActual(m, k) \in Managers
  <2>1. PICK d : d = DropActual(m, k)
    OBVIOUS
  <2>2. /\ d.actual = [m.actual EXCEPT ![k] = "absent"]
        /\ d.subscriptions = {sub \in m.subscriptions : sub[1] # k}
        /\ d.failedSubscriptions = m.failedSubscriptions
    BY <2>1 DEF DropActual, Managers
  <2>3. /\ \A j \in Keys \ {k} : d.actual[j] = m.actual[j]
        /\ d.actual[k] = "absent"
    BY <2>2 DEF Managers
  <2>4. /\ \A j \in Keys \ {k} : Subs(d, j) = Subs(m, j)
        /\ Subs(d, k) = {}
    BY <2>2 DEF Subs
  <2>5. QED
    BY <2>1, <2>2, <2>3, <2>4, DropActualTypes
<1>5. CASE op.kind = "start"
  <2>1. op.result = "ok" => n = [m EXCEPT !.actual[k] = "running"]
    BY <1>1, <1>2, <1>5 DEF Conclude
  <2>2. op.result = "error" => n = [DropActual(m, k) EXCEPT !.startErrors = @ \union {k}]
    BY <1>1, <1>2, <1>5 DEF Conclude
  <2>3. op.result = "error" =>
          /\ n.actual = DropActual(m, k).actual /\ n.subscriptions = DropActual(m, k).subscriptions
          /\ n.failedSubscriptions = DropActual(m, k).failedSubscriptions
    BY <1>4, <2>2 DEF Managers
  <2>4. op.result = "ok" =>
          /\ n.actual = [m.actual EXCEPT ![k] = "running"] /\ n.subscriptions = m.subscriptions
          /\ n.failedSubscriptions = m.failedSubscriptions
    BY <2>1 DEF Managers
  <2>5. CASE op.result = "ok"
    BY <1>1, <1>2, <1>5, <2>4, <2>5 DEF Subs, Managers
  <2>6. CASE op.result = "error"
    BY <1>1, <1>2, <1>4, <1>5, <2>3, <2>6 DEF Subs
  <2>7. QED
    BY <1>2, <2>5, <2>6
<1>6. CASE op.kind = "stop"
  <2>1. op.result = "ok" => n = [DropActual(m, k) EXCEPT !.stopRetries[k] = "none"]
    BY <1>1, <1>2, <1>6 DEF Conclude
  <2>2. op.result = "error" =>
          n = [m EXCEPT !.actual[k] = IF @ = "stopping" THEN "errored" ELSE @,
                        !.stopRetries[k] = "waiting"]
    BY <1>1, <1>2, <1>6 DEF Conclude
  <2>3. op.result = "ok" =>
          /\ n.actual = DropActual(m, k).actual /\ n.subscriptions = DropActual(m, k).subscriptions
          /\ n.failedSubscriptions = DropActual(m, k).failedSubscriptions
    BY <1>4, <2>1 DEF Managers
  <2>4. op.result = "error" =>
          /\ n.actual[k] = IF m.actual[k] = "stopping" THEN "errored" ELSE m.actual[k]
          /\ \A j \in Keys \ {k} : n.actual[j] = m.actual[j]
          /\ n.subscriptions = m.subscriptions
          /\ n.failedSubscriptions = m.failedSubscriptions
    <3>1. PICK state : state = IF m.actual[k] = "stopping" THEN "errored" ELSE m.actual[k]
      OBVIOUS
    <3>2. [m EXCEPT !.actual[k] = IF @ = "stopping" THEN "errored" ELSE @,
                    !.stopRetries[k] = "waiting"]
            = [m EXCEPT !.actual[k] = state, !.stopRetries[k] = "waiting"]
      BY <3>1 DEF Managers
    <3>3. op.result = "error" =>
            /\ n.actual = [m.actual EXCEPT ![k] = state]
            /\ n.subscriptions = m.subscriptions /\ n.failedSubscriptions = m.failedSubscriptions
      BY <2>2, <3>2 DEF Managers
    <3>4. QED
      BY <3>1, <3>3 DEF Managers
  <2>5. CASE op.result = "ok"
    BY <1>1, <1>2, <1>4, <1>6, <2>3, <2>5 DEF Subs
  <2>6. CASE op.result = "error"
    BY <1>1, <1>2, <1>6, <2>4, <2>6 DEF Subs
  <2>7. QED
    BY <1>2, <2>5, <2>6
<1>7. CASE op.kind = "sync"
  <2>0. op.change[1] \in Events /\ op.change[2] \in BOOLEAN
    BY <1>3, <1>7 DEF Changes
  <2>1. op.result = "ok" =>
          n = [m EXCEPT !.subscriptions = IF op.change[2] THEN @ \union {<<k, op.change[1]>>}
                                          ELSE @ \ {<<k, op.change[1]>>}]
    BY <1>1, <1>2, <1>7 DEF Conclude
  <2>2. op.result = "error" =>
          n = [m EXCEPT !.failedSubscriptions = @ \union {<<k, op.change[1]>>}]
    BY <1>1, <1>2, <1>7 DEF Conclude
  <2>3. op.result = "ok" =>
          /\ n.actual = m.actual /\ n.failedSubscriptions = m.failedSubscriptions
          /\ n.subscriptions = IF op.change[2] THEN m.subscriptions \union {<<k, op.change[1]>>}
                               ELSE m.subscriptions \ {<<k, op.change[1]>>}
    BY <2>1 DEF Managers
  <2>4. op.result = "error" => n.actual = m.actual /\ n.subscriptions = m.subscriptions
    BY <2>2 DEF Managers
  <2>5. CASE op.result = "ok"
    <3>1. \A j \in Keys \ {k} : Subs(n, j) = Subs(m, j)
      BY <2>3, <2>5 DEF Subs
    <3>2. Subs(n, k) = After(op, Subs(m, k))
      BY <2>0, <2>3, <2>5 DEF Subs, After
    <3>3. QED
      BY <1>1, <1>2, <1>7, <2>3, <2>5, <3>1, <3>2
  <2>6. CASE op.result = "error"
    BY <1>1, <1>2, <1>7, <2>4, <2>6 DEF Subs
  <2>7. QED
    BY <1>2, <2>5, <2>6
<1>8. QED
  BY <1>3, <1>5, <1>6, <1>7

\* An operation whose request is settled, with nothing of it left on the way, ends
\* in agreement.
LEMMA ConcludeAgrees ==
  ASSUME NEW m \in Managers, NEW k \in Keys, Busy(m, k), m.inFlight[k].live,
         m.inFlight[k].result \in {"ok", "error"},
         NEW i, NEW x, Agrees(m, k, i, x, {}, {}, {}, {})
  PROVE  /\ AtPeace(Conclude(m, k), k, i, x)
         /\ m.inFlight[k].kind = "sync" =>
              Conclude(m, k).actual[k] = "running" /\ i = "running"
         /\ m.active => Conclude(m, k).failedSubscriptions = m.failedSubscriptions
<1>1. PICK n : n = Conclude(m, k)
  OBVIOUS
<1>2. PICK op : op = m.inFlight[k]
  OBVIOUS
<1>3. n.active = m.active
  BY <1>1, ConcludeTypes
<1>4. CASE op.kind = "start"
  <2>1. /\ Starting(m, k, i, x, {}, {}, {}, {})
        /\ n.failedSubscriptions = m.failedSubscriptions
        /\ IF op.result = "ok" THEN n.actual[k] = "running" /\ Subs(n, k) = Subs(m, k)
           ELSE n.actual[k] = "absent" /\ Subs(n, k) = {}
    BY <1>1, <1>2, <1>4, ConcludeDoes DEF Agrees
  <2>2. CASE op.result = "ok"
    BY <1>1, <1>2, <1>4, <2>1, <2>2 DEF Starting, AtPeace
  <2>3. CASE op.result = "error"
    BY <1>1, <1>2, <1>4, <2>1, <2>3 DEF Starting, AtPeace
  <2>4. QED
    BY <1>2, <2>2, <2>3
<1>5. CASE op.kind = "stop"
  <2>1. /\ Stopping(m, k, i, x, {}, {}, {}, {})
        /\ n.failedSubscriptions = m.failedSubscriptions
        /\ IF op.result = "ok" THEN n.actual[k] = "absent" /\ Subs(n, k) = {}
           ELSE /\ n.actual[k] = IF m.actual[k] = "stopping" THEN "errored" ELSE m.actual[k]
                /\ Subs(n, k) = Subs(m, k)
    BY <1>1, <1>2, <1>5, ConcludeDoes DEF Agrees
  <2>2. CASE op.result = "ok"
    BY <1>1, <1>2, <1>5, <2>1, <2>2 DEF Stopping, AtPeace
  <2>3. CASE op.result = "error"
    <3>1. i = "errored" \/ (i = "running" /\ ~m.active)
      BY <1>2, <2>1, <2>3 DEF Stopping
    <3>2. m.actual[k] # "absent" /\ n.actual[k] = "errored" /\ x = Subs(n, k)
      BY <2>1, <2>3, <3>1 DEF Stopping
    <3>3. QED
      BY <1>1, <1>2, <1>3, <1>5, <2>1, <3>1, <3>2 DEF AtPeace
  <2>4. QED
    BY <1>2, <2>2, <2>3
<1>6. CASE op.kind = "sync"
  <2>1. /\ Syncing(m, k, i, x, {}, {}, {}, {})
        /\ n.actual[k] = m.actual[k]
        /\ IF op.result = "ok" THEN Subs(n, k) = After(op, Subs(m, k))
                                    /\ n.failedSubscriptions = m.failedSubscriptions
           ELSE Subs(n, k) = Subs(m, k)
    BY <1>1, <1>2, <1>6, ConcludeDoes DEF Agrees
  <2>2. CASE op.result = "ok"
    BY <1>1, <1>2, <2>1, <2>2 DEF Syncing, AtPeace
  <2>3. CASE op.result = "error"
    BY <1>1, <1>2, <2>1, <2>3 DEF Syncing, AtPeace
  <2>4. QED
    BY <1>2, <2>2, <2>3
<1>7. op.kind \in {"start", "stop", "sync"}
  BY <1>2, OperationsAreBusy DEF Busy, Managers
<1>8. QED
  BY <1>4, <1>5, <1>6, <1>7

LEMMA ProceedAgrees ==
  ASSUME NEW m \in Managers, NEW k \in Keys, Busy(m, k), m.inFlight[k].live,
         m.inFlight[k].result \in {"ok", "error"}, NEW id \in Nat,
         NEW i, NEW x, Agrees(m, k, i, x, {}, {}, {}, {}),
         NEW V, ~Busy(Proceed(m, k, id), k) => V = {}
  PROVE  Agrees(Proceed(m, k, id), k, i, x, V, {}, {}, {})
<1> DEFINE op == m.inFlight[k]
           n == Conclude(m, k)
           over == [n EXCEPT !.inFlight[k] = NoOperation]
           next == [n EXCEPT !.inFlight[k] = Sync(m, op.todo, id)]
           goesOn == op.live /\ op.kind = "sync" /\ op.todo # {}
<1>1. n \in Managers /\ n.active = m.active /\ op \in Operations
      /\ AtPeace(n, k, i, x)
      /\ (op.kind = "sync" => n.actual[k] = "running" /\ i = "running")
  BY ConcludeTypes, ConcludeAgrees DEF Busy, Managers
<1>2. Proceed(m, k, id) = IF goesOn THEN next ELSE Kick(over, id)
  BY DEF Proceed
<1> HIDE DEF n
<1>3. CASE goesOn
  <2>1. Sync(m, op.todo, id) \in Operations
    <3>1. op.todo \in SUBSET Changes
      BY <1>1, <1>3, OperationsAreBusy
    <3>2. QED
      BY <1>3, <3>1, SyncTypes
  <2>2. PICK new : new = Sync(m, op.todo, id)
    OBVIOUS
  <2>3. /\ next.inFlight[k] = new /\ next.actual = n.actual /\ next.active = n.active
        /\ next.subscriptions = n.subscriptions
    BY <1>1, <2>2 DEF Managers
  <2>4. new.kind = "sync" /\ new.result = IF m.active THEN "none" ELSE "error"
    BY <2>2 DEF Sync, FirstOutcome
  <2> HIDE DEF next
  <2>5. Busy(next, k)
    BY <2>1, <2>2, <2>3, OperationsAreBusy DEF Busy
  <2>6. Subs(next, k) = Subs(n, k)
    BY <2>3 DEF Subs
  <2>7. next.actual[k] = "running" /\ i = "running" /\ x = Subs(next, k)
    BY <1>1, <1>3, <2>3, <2>6 DEF AtPeace
  <2>8. Syncing(next, k, i, x, V, {}, {}, {})
    BY <1>1, <2>3, <2>4, <2>7 DEF Syncing
  <2>9. QED
    BY <1>2, <1>3, <2>3, <2>4, <2>5, <2>8 DEF Agrees
<1>4. CASE ~goesOn
  <2>1. /\ over \in Managers /\ over.actual = n.actual /\ over.subscriptions = n.subscriptions
        /\ over.active = n.active /\ over.inFlight[k] = NoOperation
    BY <1>1 DEF Managers
  <2> HIDE DEF over
  <2>2. AtPeace(over, k, i, x)
    BY <1>1, <2>1 DEF AtPeace, Subs
  <2>3. Agrees(over, k, i, x, {}, {}, {}, {})
    BY <2>1, <2>2 DEF Agrees, Busy
  <2>4. Kick(over, id).inFlight[k] = over.inFlight[k] => V = {}
    BY <1>2, <1>4, <2>1 DEF Busy
  <2>5. Agrees(Kick(over, id), k, i, x, V, {}, {}, {})
    BY <2>1, <2>3, <2>4, PassAgrees
  <2>6. QED
    BY <1>2, <1>4, <2>5
<1>5. QED
  BY <1>3, <1>4

\* Another instance's operation is none of k's business, but the pass is.
LEMMA ProceedAgreesElsewhere ==
  ASSUME NEW m \in Managers, NEW j \in Keys, Busy(m, j), m.inFlight[j].live,
         m.inFlight[j].result \in {"ok", "error"}, NEW id \in Nat,
         NEW k \in Keys, k # j,
         NEW i, NEW x, NEW W, NEW V, NEW T, NEW P, NEW R,
         Agrees(m, k, i, x, W, T, P, R),
         ~Busy(m, k) => W = {} /\ T = {} /\ P = {},
         Proceed(m, j, id).inFlight[k] = m.inFlight[k] => V = W
  PROVE  Agrees(Proceed(m, j, id), k, i, x, V, T, P, R)
<1> DEFINE op == m.inFlight[j]
           n == Conclude(m, j)
           over == [n EXCEPT !.inFlight[j] = NoOperation]
           next == [n EXCEPT !.inFlight[j] = Sync(m, op.todo, id)]
           goesOn == op.live /\ op.kind = "sync" /\ op.todo # {}
<1>1. n \in Managers /\ n.active = m.active /\ n.inFlight = m.inFlight
      /\ n.actual[k] = m.actual[k] /\ Subs(n, k) = Subs(m, k)
  BY ConcludeTypes, ConcludeDoes
<1>2. Proceed(m, j, id) = IF goesOn THEN next ELSE Kick(over, id)
  BY DEF Proceed
<1> HIDE DEF n
<1>3. ASSUME NEW p, p \in {over, next}
      PROVE  /\ p.inFlight[k] = m.inFlight[k] /\ p.actual[k] = m.actual[k]
             /\ p.active = m.active /\ Subs(p, k) = Subs(m, k)
  <2>1. /\ p.inFlight[k] = n.inFlight[k] /\ p.actual = n.actual
        /\ p.active = n.active /\ p.subscriptions = n.subscriptions
    BY <1>1, <1>3 DEF Managers
  <2>2. QED
    BY <1>1, <2>1 DEF Subs
<1>4. over \in Managers
  BY <1>1 DEF Managers
<1> HIDE DEF over, next
<1>5. CASE goesOn
  <2>1. Agrees(next, k, i, x, W, T, P, R)
    BY <1>3, AgreesIgnores
  <2>2. QED
    BY <1>2, <1>3, <1>5, <2>1
<1>6. CASE ~goesOn
  <2>1. Agrees(over, k, i, x, W, T, P, R)
    BY <1>3, AgreesIgnores
  <2>2. ~Busy(over, k) => W = {} /\ T = {} /\ P = {}
    BY <1>3 DEF Busy
  <2>3. Kick(over, id).inFlight[k] = over.inFlight[k] => V = W
    BY <1>2, <1>3, <1>6
  <2>4. Agrees(Kick(over, id), k, i, x, V, T, P, R)
    BY <1>4, <2>1, <2>2, <2>3, PassAgrees
  <2>5. QED
    BY <1>2, <1>6, <2>4
<1>7. QED
  BY <1>5, <1>6

-----------------------------------------------------------------------------
(* Node's handlers keep the agreement. *)

\* With or without a pass, a handler that ends in a state that agrees is right.
LEMMA PassBelieves ==
  ASSUME TypeOK, Solo, Calm, alive, NEW n \in Managers, n.inFlight = mgr.inFlight,
         Reconcile(n) \/ Update(n), UNCHANGED <<queue, task, instances, external>>,
         NEW k \in Keys, Replies(k)' \subseteq Replies(k),
         Agrees(n, k, instances[k], Ext(k), Waiting(k), InTask(k), Replies(k)', Reports(k)')
  PROVE  Believed(k)'
<1>0. NextId \in Nat
  BY BoundsAssumption DEF TypeOK, NextId
<1>1. Alone(k)
  BY DEF Solo
<1>2. ~Busy(n, k) => Waiting(k) = {} /\ InTask(k) = {} /\ Replies(k)' = {}
  BY <1>1 DEF Alone, Tokens, Held, Busy, Awaits
<1>3. instances'[k] = instances[k] /\ Ext(k)' = Ext(k)
  BY DEF Ext
<1>4. CASE Update(n)
  <2>1. mgr' = n /\ InTask(k)' = InTask(k) /\ Waiting(k)' = Waiting(k)
    BY <1>4, UpdateDoes DEF Sends
  <2>2. QED
    BY <1>3, <2>1 DEF Believed
<1>5. CASE Reconcile(n)
  <2>1. PICK q : q = Kick(n, NextId)
    OBVIOUS
  <2>2. q \in Managers /\ Update(q)
    BY <1>0, <1>5, <2>1, KickTypes DEF Reconcile
  <2>3. /\ mgr' = q /\ InTask(k)' = InTask(k)
        /\ q.inFlight[k] = n.inFlight[k] => Waiting(k)' = Waiting(k)
    BY <2>2, UpdateDoes DEF Sends
  <2>4. PICK V : V = Waiting(k)'
    OBVIOUS
  <2>5. PICK P : P = Replies(k)'
    OBVIOUS
  <2>6. PICK R : R = Reports(k)'
    OBVIOUS
  <2>7. Agrees(n, k, instances[k], Ext(k), Waiting(k), InTask(k), P, R)
    BY <2>5, <2>6
  <2>8. Agrees(q, k, instances[k], Ext(k), V, InTask(k), P, R)
    BY <1>0, <1>2, <2>1, <2>3, <2>4, <2>5, <2>7, PassAgrees
  <2>9. QED
    BY <1>3, <2>3, <2>4, <2>5, <2>6, <2>8 DEF Believed
<1>6. QED
  BY <1>4, <1>5

LEMMA PassesBelieve ==
  ASSUME TypeOK, Solo, Calm, alive, \A k \in Keys : Believed(k), NEW k \in Keys,
         Passes \/ (Idles /\ mgr' = mgr)
  PROVE  Believed(k)'
<1>1. CASE Passes
  <2>1. PICK n : SameBeliefs(mgr, n) /\ Reconcile(n)
    BY <1>1 DEF Passes
  <2>2. UNCHANGED_PY
    BY <1>1 DEF Passes
  <2>3. Replies(k)' = Replies(k) /\ Reports(k)' = Reports(k)
    BY <2>2 DEF UNCHANGED_PY, Replies, Reports
  <2>4. Agrees(n, k, instances[k], Ext(k), Waiting(k), InTask(k), Replies(k), Reports(k))
    BY <2>1, AgreesIgnores DEF SameBeliefs, Believed, Subs
  <2>5. QED
    BY <2>1, <2>2, <2>3, <2>4, PassBelieves DEF SameBeliefs, UNCHANGED_PY
<1>2. CASE Idles /\ mgr' = mgr
  BY <1>2 DEF Idles, UNCHANGED_PY, Believed, Ext, Waiting, InStdin, InQueue, InTask, Replies, Reports
<1>3. QED
  BY <1>1, <1>2

\* A reply settles the operation as the bridge ended it.
LEMMA AnswerAgrees ==
  ASSUME NEW m, NEW k, NEW i, NEW x, NEW P, NEW p \in P, Busy(m, k),
         Agrees(m, k, i, x, {}, {}, P, {}),
         NEW n, Busy(n, k), n.actual[k] = m.actual[k], Subs(n, k) = Subs(m, k), n.active = m.active,
         n.inFlight[k].kind = m.inFlight[k].kind,
         m.inFlight[k].kind = "sync" => n.inFlight[k].change = m.inFlight[k].change,
         n.inFlight[k].result = IF p.ok THEN "ok" ELSE "error"
  PROVE  Agrees(n, k, i, x, {}, {}, {}, {})
<1>1. CASE m.inFlight[k].kind = "start"
  <2>1. Starting(m, k, i, x, {}, {}, P, {})
    BY <1>1 DEF Agrees
  <2>2. Starting(n, k, i, x, {}, {}, {}, {})
    BY <2>1 DEF Starting
  <2>3. QED
    BY <1>1, <2>2 DEF Agrees
<1>2. CASE m.inFlight[k].kind = "stop"
  <2>1. Stopping(m, k, i, x, {}, {}, P, {})
    BY <1>2 DEF Agrees
  <2>2. Stopping(n, k, i, x, {}, {}, {}, {})
    BY <2>1 DEF Stopping
  <2>3. QED
    BY <1>2, <2>2 DEF Agrees
<1>3. CASE m.inFlight[k].kind = "sync"
  <2>1. Syncing(m, k, i, x, {}, {}, P, {})
    BY <1>3 DEF Agrees
  <2>2. After(n.inFlight[k], Subs(n, k)) = After(m.inFlight[k], Subs(m, k))
    BY <1>3 DEF After
  <2>3. Syncing(n, k, i, x, {}, {}, {}, {})
    BY <2>1, <2>2 DEF Syncing
  <2>4. QED
    BY <1>3, <2>3 DEF Agrees
<1>4. QED
  BY <1>1, <1>2, <1>3 DEF Agrees

\* A report is about the operation under way, and says how far the bridge is.
LEMMA ReportAgrees ==
  ASSUME NEW m \in Managers, NEW k \in Keys, NEW i, NEW x, NEW W, NEW T, NEW P, NEW R, NEW S,
         Agrees(m, k, i, x, W, T, P, R), Busy(m, k),
         NEW r \in R, r.state \in DriverStates, S \subseteq R
  PROVE  Agrees(ReportState(m, k, r.state), k, i, x, W, T, P, S)
<1>1. PICK state : state = r.state
  OBVIOUS
<1>2. PICK n : n = ReportState(m, k, state)
  OBVIOUS
<1>3. n \in Managers /\ n.inFlight = m.inFlight /\ n.active = m.active
  BY <1>1, <1>2, ReportStateTypes, ReportKeeps DEF BeliefsOnly
<1>4. CASE state # "available"
  <2>1. n.actual = [m.actual EXCEPT ![k] = state] /\ n.subscriptions = m.subscriptions
    BY <1>2, <1>4 DEF ReportState, Managers
  <2>2. n.actual[k] = state /\ Subs(n, k) = Subs(m, k)
    BY <2>1 DEF Subs, Managers
  <2>3. Starting(m, k, i, x, W, T, P, R) => Starting(n, k, i, x, W, T, P, S)
    BY <1>1, <1>3, <2>2 DEF Starting, Agrees
  <2>4. Stopping(m, k, i, x, W, T, P, R) => Stopping(n, k, i, x, W, T, P, S)
    BY <1>1, <1>3, <1>4, <2>2 DEF Stopping, Agrees
  <2>5. ~Syncing(m, k, i, x, W, T, P, R)
    BY DEF Syncing
  <2>6. QED
    BY <1>1, <1>2, <1>3, <2>3, <2>4, <2>5 DEF Agrees, Busy
<1>5. CASE state = "available"
  <2>1. /\ n.actual = [m.actual EXCEPT ![k] = "absent"]
        /\ n.subscriptions = {sub \in m.subscriptions : sub[1] # k}
    BY <1>2, <1>5 DEF ReportState, DropActual, Managers
  <2>2. n.actual[k] = "absent" /\ Subs(n, k) = {}
    BY <2>1 DEF Subs, Managers
  <2>3. ~Starting(m, k, i, x, W, T, P, R) /\ ~Syncing(m, k, i, x, W, T, P, R)
    <3>1. ASSUME Starting(m, k, i, x, W, T, P, R) PROVE FALSE
      <4>1. W = {}
        BY <3>1 DEF Starting
      <4>2. state \in {"starting", "running"}
        BY <1>1, <3>1, <4>1 DEF Agrees, Starting
      <4>3. QED
        BY <1>5, <4>2
    <3>2. QED
      BY <3>1 DEF Syncing
  <2>4. Stopping(m, k, i, x, W, T, P, R) => Stopping(n, k, i, x, W, T, P, S)
    <3> SUFFICES ASSUME Stopping(m, k, i, x, W, T, P, R)
                 PROVE  Stopping(n, k, i, x, W, T, P, S)
      OBVIOUS
    <3>1. W = {} /\ T = {} /\ P # {}
      BY <1>1, <1>5 DEF Stopping, Agrees
    <3>2. PICK p \in P : TRUE
      BY <3>1
    <3>3. i = "absent" /\ x = {}
      BY <1>1, <1>5, <3>2 DEF Stopping
    <3>4. QED
      BY <1>3, <2>2, <3>1, <3>3 DEF Stopping
  <2>5. QED
    BY <1>1, <1>2, <1>3, <2>3, <2>4 DEF Agrees, Busy
<1>6. QED
  BY <1>4, <1>5

LEMMA LineBelieves ==
  ASSUME TypeOK, InTime, Solo, Ordered, Calm, alive, \A k \in Keys : Believed(k), HandleLine,
         NEW k \in Keys
  PROVE  Believed(k)'
<1>0. mgr \in Managers /\ PyTypeOK /\ OneEach
  BY DEF TypeOK, InTime
<1>1. PICK line : line = Head(stdout)
  OBVIOUS
<1>2. /\ stdout # <<>> /\ stdout' = Tail(stdout)
      /\ UNCHANGED <<alive, queue, task, instances, external>>
  BY DEF HandleLine
<1>3. PICK j : j = line.key
  OBVIOUS
<1>4. /\ line \in BridgeResponses /\ j \in Keys
      /\ Replies(k)' \subseteq Replies(k) /\ Reports(k)' \subseteq Reports(k)
      /\ k # j => Replies(k)' = Replies(k) /\ Reports(k)' = Reports(k)
  BY <1>0, <1>1, <1>2, <1>3, StdoutTail, ResponseTypes
<1>5. Believed(k) /\ Alone(k) /\ Alone(j)
  BY <1>4 DEF Solo
<1>6. instances'[k] = instances[k] /\ Ext(k)' = Ext(k)
  BY <1>2 DEF Ext
<1>7. CASE line.type = "result" /\ stdin' = stdin
  <2>1. /\ line \in Replies(j) /\ Replies(j) = {line} \union Replies(j)'
        /\ Differ(Replies(j)', {line}) /\ Reports(j) = {} /\ Reports(j)' = {}
    BY <1>0, <1>1, <1>2, <1>3, <1>4, <1>7, StdoutTail DEF Ordered
  <2>2. /\ Awaits(mgr, j) /\ line.id = mgr.inFlight[j].id /\ Waiting(j) = {} /\ InTask(j) = {}
        /\ Replies(j)' = {}
    <3>1. Awaits(mgr, j) /\ line.id = mgr.inFlight[j].id /\ Waiting(j) = {} /\ InTask(j) = {}
      BY <1>5, <2>1 DEF Alone, Tokens
    <3>2. \A p \in Replies(j)' : FALSE
      BY <1>5, <2>1 DEF Alone, Differ
    <3>3. QED
      BY <3>1, <3>2
  <2>3. PICK result : result = IF line.ok THEN "ok" ELSE "error"
    OBVIOUS
  <2>4. mgr' = Noted(j, result) /\ result \in {"ok", "error"}
    BY <1>1, <1>3, <1>7, <2>2, <2>3 DEF HandleLine, Answers, Noted
  <2>5. PICK n : n = Noted(j, result)
    OBVIOUS
  <2>6. /\ \A h \in Keys \ {j} : n.inFlight[h] = mgr.inFlight[h]
        /\ n.inFlight[j].result = result /\ n.inFlight[j].kind = mgr.inFlight[j].kind
        /\ n.inFlight[j].kind = "sync" => n.inFlight[j].change = mgr.inFlight[j].change
        /\ Busy(n, j) /\ Busy(mgr, j)
    BY <1>0, <1>4, <2>2, <2>4, <2>5, NotedDoes
  <2>7. n.actual = mgr.actual /\ n.subscriptions = mgr.subscriptions /\ n.active = mgr.active
    BY <1>0, <2>5 DEF Noted, Managers
  <2>8. Waiting(k)' = Waiting(k) /\ InTask(k)' = InTask(k)
    BY <1>2, <1>7 DEF Waiting, InStdin, InQueue, InTask
  <2>9. CASE k # j
    <3>1. Agrees(n, k, instances[k], Ext(k), Waiting(k), InTask(k), Replies(k), Reports(k))
      BY <1>5, <2>6, <2>7, <2>9, AgreesIgnores DEF Believed, Subs
    <3>2. QED
      BY <1>4, <1>6, <2>4, <2>5, <2>8, <2>9, <3>1 DEF Believed
  <2>10. CASE k = j
    <3>1. Agrees(mgr, k, instances[k], Ext(k), {}, {}, Replies(k), {})
      BY <1>5, <2>1, <2>2, <2>10 DEF Believed
    <3>2. Subs(n, k) = Subs(mgr, k)
      BY <2>7 DEF Subs
    <3>3. Agrees(n, k, instances[k], Ext(k), {}, {}, {}, {})
      BY <2>1, <2>3, <2>6, <2>7, <2>10, <3>1, <3>2, AnswerAgrees
    <3>4. Waiting(k)' = {} /\ InTask(k)' = {} /\ Replies(k)' = {} /\ Reports(k)' = {}
      BY <2>1, <2>2, <2>8, <2>10
    <3>5. QED
      BY <1>6, <2>4, <2>5, <3>3, <3>4 DEF Believed
  <2>11. QED
    BY <2>9, <2>10
<1>8. CASE /\ line.type = "driver-state"
           /\ \/ Reconcile(ReportState(mgr, j, line.state))
              \/ Update(ReportState(mgr, j, line.state))
  <2>1. line.state \in DriverStates
    BY <1>4, <1>8 DEF BridgeResponses, Results, StateReports
  <2>2. PICK n : n = ReportState(mgr, j, line.state)
    OBVIOUS
  <2>3. n \in Managers /\ n.inFlight = mgr.inFlight /\ n.active = mgr.active
    BY <1>0, <1>4, <2>1, <2>2, ReportStateTypes, ReportKeeps DEF BeliefsOnly
  <2>4. Reports(j) = {line} \union Reports(j)' /\ Replies(j)' = Replies(j)
        /\ Replies(k)' = Replies(k)
    BY <1>0, <1>1, <1>2, <1>3, <1>4, <1>8, StdoutTail
  <2>5. CASE k # j
    <3>1. n.actual[k] = mgr.actual[k] /\ Subs(n, k) = Subs(mgr, k)
      <4>1. CASE line.state = "available"
        <5>1. n.actual = [mgr.actual EXCEPT ![j] = "absent"]
              /\ n.subscriptions = {sub \in mgr.subscriptions : sub[1] # j}
          BY <1>0, <2>2, <4>1 DEF ReportState, DropActual, Managers
        <5>2. QED
          BY <1>0, <2>5, <5>1 DEF Subs, Managers
      <4>2. CASE line.state # "available"
        <5>1. n.actual = [mgr.actual EXCEPT ![j] = line.state]
              /\ n.subscriptions = mgr.subscriptions
          BY <1>0, <2>2, <4>2 DEF ReportState, Managers
        <5>2. QED
          BY <1>0, <2>5, <5>1 DEF Subs, Managers
      <4>3. QED
        BY <4>1, <4>2
    <3>2. Agrees(n, k, instances[k], Ext(k), Waiting(k), InTask(k), Replies(k), Reports(k))
      BY <1>5, <2>3, <3>1, AgreesIgnores DEF Believed
    <3>3. Agrees(n, k, instances[k], Ext(k), Waiting(k), InTask(k), Replies(k)', Reports(k)')
      BY <1>4, <2>5, <3>2
    <3>4. QED
      BY <1>2, <1>8, <2>2, <2>3, <2>4, <3>3, PassBelieves
  <2>6. CASE k = j
    <3>1. Busy(mgr, k)
      <4>1. Waiting(k) \union InTask(k) \union Replies(k) # {}
        BY <1>5, <2>4, <2>6 DEF Believed, Agrees
      <4>2. QED
        BY <1>5, <4>1 DEF Alone, Tokens, Held, Awaits
    <3>2. PICK S : S = Reports(k)'
      OBVIOUS
    <3>3. Agrees(n, k, instances[k], Ext(k), Waiting(k), InTask(k), Replies(k), S)
      BY <1>0, <1>4, <1>5, <2>1, <2>2, <2>4, <2>6, <3>1, <3>2, ReportAgrees DEF Believed
    <3>4. Agrees(n, k, instances[k], Ext(k), Waiting(k), InTask(k), Replies(k)', Reports(k)')
      BY <2>4, <3>2, <3>3
    <3>5. QED
      BY <1>2, <1>8, <2>2, <2>3, <2>4, <3>4, PassBelieves
  <2>7. QED
    BY <2>5, <2>6
<1>9. QED
  BY <1>1, <1>3, <1>7, <1>8 DEF HandleLine

LEMMA ResumeBelieves ==
  ASSUME TypeOK, Solo, Calm, alive, mgr.bridgeReady, Life, \A k \in Keys : Believed(k),
         NEW j \in Keys, Resume(j), NEW k \in Keys
  PROVE  Believed(k)'
<1>0. mgr \in Managers /\ NextId \in Nat
  BY BoundsAssumption DEF TypeOK, NextId
<1>1. /\ Busy(mgr, j) /\ mgr.inFlight[j].result # "none"
      /\ Update(Proceed(mgr, j, NextId)) /\ UNCHANGED_PY
  BY DEF Resume, Settled
<1>2. mgr.inFlight[j].live /\ mgr.inFlight[j].result \in {"ok", "error"}
  <2>1. mgr.inFlight[j] \in Operations
    BY <1>0, <1>1 DEF Busy, Managers
  <2>2. mgr.inFlight[j].result \in Outcomes
    BY <2>1, OperationsAreBusy
  <2>3. QED
    BY <1>1, <2>2 DEF Life, Outcomes
<1>3. Believed(k) /\ Alone(k)
  BY DEF Solo
<1>4. /\ instances'[k] = instances[k] /\ Ext(k)' = Ext(k)
      /\ Replies(k)' = Replies(k) /\ Reports(k)' = Reports(k)
      /\ UNCHANGED <<queue, task>>
  BY <1>1 DEF UNCHANGED_PY, Ext, Replies, Reports
<1>5. PICK q : q = Proceed(mgr, j, NextId)
  OBVIOUS
<1>6. q \in Managers /\ Update(q)
  BY <1>0, <1>1, <1>5, ProceedTypes
<1>7. /\ mgr' = q /\ InTask(k)' = InTask(k)
      /\ ~Sends(mgr, q, k) => Waiting(k)' = Waiting(k)
  BY <1>4, <1>6, UpdateDoes
<1>8. PICK V : V = Waiting(k)'
  OBVIOUS
<1>9. CASE k # j
  <2>1. ~Busy(mgr, k) => Waiting(k) = {} /\ InTask(k) = {} /\ Replies(k) = {}
    BY <1>3 DEF Alone, Tokens, Held, Awaits
  <2>2. q.inFlight[k] = mgr.inFlight[k] => V = Waiting(k)
    BY <1>7, <1>8 DEF Sends
  <2>3. Agrees(q, k, instances[k], Ext(k), V, InTask(k), Replies(k), Reports(k))
    BY <1>0, <1>1, <1>2, <1>3, <1>5, <1>9, <2>1, <2>2, ProceedAgreesElsewhere DEF Believed
  <2>4. QED
    BY <1>4, <1>7, <1>8, <2>3 DEF Believed
<1>10. CASE k = j
  <2>1. Waiting(k) = {} /\ InTask(k) = {} /\ Replies(k) = {} /\ Reports(k) = {}
    <3>1. Waiting(k) = {} /\ InTask(k) = {} /\ Replies(k) = {}
      BY <1>1, <1>3, <1>10 DEF Alone, Tokens, Held, Awaits
    <3>2. QED
      BY <1>3, <3>1 DEF Believed, Agrees
  <2>2. Agrees(mgr, k, instances[k], Ext(k), {}, {}, {}, {})
    BY <1>3, <2>1 DEF Believed
  <2>3. ~Busy(q, k) => V = {}
    BY <1>7, <1>8, <2>1 DEF Sends, Awaits
  <2>4. Agrees(q, k, instances[k], Ext(k), V, {}, {}, {})
    BY <1>0, <1>1, <1>2, <1>5, <1>10, <2>2, <2>3, ProceedAgrees
  <2>5. QED
    BY <1>4, <1>7, <1>8, <2>1, <2>4 DEF Believed
<1>11. QED
  BY <1>9, <1>10

LEMMA HandledBelieves ==
  ASSUME TypeOK, InTime, Solo, Ordered, Calm, alive, mgr.bridgeReady, Life,
         \A k \in Keys : Believed(k), NodeHandles
  PROVE  \A k \in Keys : Believed(k)'
BY PassesBelieve, LineBelieves, ResumeBelieves DEF NodeHandles, Idles

\* A fresh bridge runs nothing, and that is what the manager starts from.
LEMMA ReadyBelieves ==
  ASSUME TypeOK, Life, Solo, Calm, alive, BridgeReady, NEW k \in Keys
  PROVE  Believed(k)'
<1>0. mgr \in Managers
  BY DEF TypeOK
<1>1. Empty /\ ~Busy(mgr, k) /\ Reconcile(BridgeCame(mgr)) /\ UNCHANGED_PY
  BY DEF BridgeReady, Life
<1>2. PICK n : n = BridgeCame(mgr)
  OBVIOUS
<1>3. n \in Managers /\ n.inFlight = mgr.inFlight /\ n.subscriptions = {}
      /\ n.actual[k] = "absent"
  BY <1>0, <1>2, BridgeHandlersTypes DEF BridgeCame, Managers, InitialManager
<1>4. /\ instances[k] = "absent" /\ Ext(k) = {}
      /\ Replies(k)' = Replies(k) /\ Reports(k)' = {}
  BY <1>1, EmptyFacts DEF Empty, NoInstances, Ext, Replies, Reports, UNCHANGED_PY
<1>5. AtPeace(n, k, instances[k], Ext(k))
  BY <1>3, <1>4 DEF AtPeace, Subs
<1>6. Agrees(n, k, instances[k], Ext(k), Waiting(k), InTask(k), Replies(k)', Reports(k)')
  BY <1>1, <1>3, <1>4, <1>5 DEF Agrees, Busy
<1>7. QED
  BY <1>1, <1>2, <1>3, <1>4, <1>6, PassBelieves DEF UNCHANGED_PY

-----------------------------------------------------------------------------
(* The bridge keeps the agreement. *)

\* A request tells the kind of its operation.
LEMMA KindOf ==
  ASSUME NEW op \in Operations, NEW k, NEW r, r = RequestOf(k, op)
  PROVE  /\ r.type = "start-driver" => op.kind = "start"
         /\ r.type = "stop-driver" => op.kind = "stop"
         /\ r.type \in {"subscribe", "unsubscribe"} =>
              op.kind = "sync" /\ r.event = op.change[1] /\ (r.type = "subscribe" <=> op.change[2])
<1>1. op.kind \in {"start", "stop", "sync"}
  BY OperationsAreBusy
<1>2. CASE op.kind = "start"
  <2>1. r.type = "start-driver"
    BY <1>2 DEF RequestOf
  <2>2. QED
    BY <1>2, <2>1
<1>3. CASE op.kind = "stop"
  <2>1. r.type = "stop-driver"
    BY <1>3 DEF RequestOf
  <2>2. QED
    BY <1>3, <2>1
<1>4. CASE op.kind = "sync"
  <2>1. /\ r.type = IF op.change[2] THEN "subscribe" ELSE "unsubscribe"
        /\ r.event = op.change[1]
    BY <1>4 DEF RequestOf
  <2>2. op.change[2] \in BOOLEAN
    BY <1>4, OperationsAreBusy DEF Changes
  <2>3. QED
    BY <1>4, <2>1, <2>2
<1>5. QED
  BY <1>1, <1>2, <1>3, <1>4

\* What is known of an instance the bridge is about to serve a request of.
LEMMA HeldAgrees ==
  ASSUME TypeOK, Solo, Calm, alive, NEW k \in Keys, Believed(k), NEW r \in Held(k)
  PROVE  LET op == mgr.inFlight[k] IN
         /\ op \in Operations /\ Busy(mgr, k) /\ op.result = "none"
         /\ Replies(k) = {}
         /\ r.type = "start-driver" =>
              op.kind = "start"
              /\ Starting(mgr, k, instances[k], Ext(k), Waiting(k), InTask(k), {}, Reports(k))
         /\ r.type = "stop-driver" =>
              op.kind = "stop"
              /\ Stopping(mgr, k, instances[k], Ext(k), Waiting(k), InTask(k), {}, Reports(k))
         /\ r.type \in {"subscribe", "unsubscribe"} =>
              /\ op.kind = "sync" /\ r.event = op.change[1]
              /\ r.type = "subscribe" <=> op.change[2]
              /\ Syncing(mgr, k, instances[k], Ext(k), Waiting(k), InTask(k), {}, Reports(k))
<1>1. Alone(k)
  BY DEF Solo
<1>2. Awaits(mgr, k) /\ r = RequestOf(k, mgr.inFlight[k])
  BY <1>1 DEF Alone, Tokens
<1>3. Busy(mgr, k) /\ mgr.inFlight[k].result = "none" /\ mgr.inFlight[k] \in Operations
  BY <1>2 DEF Awaits, Busy, TypeOK, Managers
<1>4. Replies(k) = {}
  BY <1>1 DEF Alone, Held
<1>5. Agrees(mgr, k, instances[k], Ext(k), Waiting(k), InTask(k), {}, Reports(k))
  BY <1>4 DEF Believed
<1>6. /\ r.type = "start-driver" => mgr.inFlight[k].kind = "start"
      /\ r.type = "stop-driver" => mgr.inFlight[k].kind = "stop"
      /\ r.type \in {"subscribe", "unsubscribe"} =>
           mgr.inFlight[k].kind = "sync" /\ r.event = mgr.inFlight[k].change[1]
           /\ (r.type = "subscribe" <=> mgr.inFlight[k].change[2])
  BY <1>2, <1>3, KindOf
<1>7. QED
  BY <1>3, <1>4, <1>5, <1>6 DEF Agrees

\* Where the request is after a step of the bridge, nothing else is.
LEMMA OneIsLeft ==
  ASSUME Solo', Calm', alive', NEW k \in Keys
  PROVE  /\ \A r \in InTask(k)' : Waiting(k)' = {} /\ Replies(k)' = {}
         /\ \A p \in Replies(k)' : Waiting(k)' = {} /\ InTask(k)' = {} /\ Replies(k)' = {p}
<1>1. Alone(k)'
  BY DEF Solo
<1>2. QED
  BY <1>1 DEF Alone

LEMMA ElsewhereBelieved ==
  ASSUME Ordered, Calm, NEW j \in Keys, MovesOnly(j), mgr' = mgr, NEW k \in Keys \ {j}, Believed(k)
  PROVE  Believed(k)'
<1>1. Same(k) /\ unposted = {}
  BY DEF MovesOnly, Frame, Ordered
<1>2. Ext(k)' = Ext(k)
  BY <1>1 DEF Same, Ext
<1>3. QED
  BY <1>1, <1>2 DEF Same, Believed, Waiting

\* The bridge moves and Node does nothing, while what was proved of requests holds
\* before and after.
Serving ==
  /\ TypeOK /\ InTime /\ Solo /\ Solo' /\ Ordered /\ Calm /\ alive
  /\ UNCHANGED <<mgr, alive, timeouts, published>>

\* What is known of a worker about to take a request, and of one that runs it.
LEMMA TakenAgrees ==
  ASSUME Serving, NEW k \in Keys, Believed(k), NEW type, Runs(k, type) \/ Replied(k, type, TRUE)
                                                        \/ Replied(k, type, FALSE)
  PROVE  /\ Busy(mgr, k) /\ Busy(mgr, k)' /\ mgr.inFlight[k].result = "none" /\ Replies(k) = {}
         /\ Waiting(k) \union InTask(k) # {}
         /\ type = "start-driver" =>
              mgr.inFlight[k].kind = "start"
              /\ Starting(mgr, k, instances[k], Ext(k), Waiting(k), InTask(k), {}, Reports(k))
         /\ type = "stop-driver" =>
              mgr.inFlight[k].kind = "stop"
              /\ Stopping(mgr, k, instances[k], Ext(k), Waiting(k), InTask(k), {}, Reports(k))
<1>1. PICK r \in InQueue(k) \union InTask(k) : r.type = type
  BY DEF Runs, Replied
<1>2. r \in Held(k) /\ r \in Waiting(k) \union InTask(k)
  BY DEF Held, Waiting
<1>3. QED
  BY <1>1, <1>2, HeldAgrees DEF Serving, Busy

\* A request that is answered is gone from where it was.
LEMMA RepliedLeaves ==
  ASSUME Serving, NEW k \in Keys, NEW type, NEW ok \in BOOLEAN, Replied(k, type, ok)
  PROVE  /\ Waiting(k)' = {} /\ InTask(k)' = {}
         /\ Replies(k)' # {} /\ \A p \in Replies(k)' : p.ok = ok
<1>1. PICK r : Result(r, ok) \in Replies(k)'
  BY DEF Replied
<1>2. Result(r, ok).ok = ok
  BY DEF Result
<1>3. Calm' /\ alive'
  BY DEF Serving, Calm
<1>4. QED
  BY <1>1, <1>2, <1>3, OneIsLeft DEF Serving

LEMMA BeginsBelieve ==
  ASSUME Serving, NEW k \in Keys, Believed(k), StartBegins(k) \/ StopBegins(k) \/ StartRepeated(k)
  PROVE  Believed(k)'
<1>0. PyTypeOK /\ OneEach /\ unposted = {} /\ Calm' /\ alive'
  BY DEF Serving, TypeOK, InTime, Ordered, Calm
<1>1. ASSUME NEW type, Runs(k, type)
      PROVE  InTask(k)' # {} /\ Waiting(k)' = {} /\ Replies(k)' = {} /\ Waiting(k) # {}
  <2>1. PICK r \in InQueue(k) : InTask(k)' = {r}
    BY <1>1 DEF Runs
  <2>2. QED
    BY <1>0, <2>1, OneIsLeft DEF Serving, Waiting
<1>2. CASE StartBegins(k)
  <2>1. /\ Runs(k, "start-driver") /\ PostsState(k, "starting")
        /\ Becomes(k, "starting") /\ external' = external
    BY <1>0, <1>2, StartBeginsDoes
  <2>2. /\ Busy(mgr, k)' /\ mgr.inFlight[k].result = "none" /\ Replies(k) = {}
        /\ mgr.inFlight[k].kind = "start"
        /\ Starting(mgr, k, instances[k], Ext(k), Waiting(k), InTask(k), {}, Reports(k))
    BY <2>1, TakenAgrees
  <2>3. instances'[k] = "starting" /\ Ext(k)' = Ext(k)
    BY <1>0, <2>1 DEF Becomes, Ext, PyTypeOK
  <2>4. /\ InTask(k)' # {} /\ Waiting(k)' = {} /\ Replies(k)' = {} /\ Waiting(k) # {}
        /\ Reports(k)' = Reports(k) \union {StateReport(k, "starting")}
    BY <1>0, <1>1, <2>1, <2>2 DEF PostsState
  <2>5. \A r \in Reports(k)' : r.state = "starting"
    BY <2>2, <2>4, ReportFields DEF Starting, DriverStates
  <2>6. Starting(mgr, k, "starting", Ext(k), Waiting(k)', InTask(k)', Replies(k)', Reports(k)')
    BY <2>2, <2>4, <2>5 DEF Starting
  <2>7. QED
    BY <2>2, <2>3, <2>4, <2>6 DEF Believed, Agrees, Serving
<1>3. CASE StopBegins(k)
  <2>1. /\ Runs(k, "stop-driver") /\ PostsState(k, "stopping")
        /\ Becomes(k, "stopping") /\ external' = external
        /\ instances[k] # "absent"
    BY <1>0, <1>3, StopBeginsDoes
  <2>2. /\ Busy(mgr, k)' /\ mgr.inFlight[k].result = "none" /\ Replies(k) = {}
        /\ mgr.inFlight[k].kind = "stop"
        /\ Stopping(mgr, k, instances[k], Ext(k), Waiting(k), InTask(k), {}, Reports(k))
    BY <2>1, TakenAgrees
  <2>3. instances'[k] = "stopping" /\ Ext(k)' = Ext(k)
    BY <1>0, <2>1 DEF Becomes, Ext, PyTypeOK
  <2>4. /\ InTask(k)' # {} /\ Waiting(k)' = {} /\ Replies(k)' = {} /\ Waiting(k) # {}
        /\ Reports(k)' = Reports(k) \union {StateReport(k, "stopping")}
    BY <1>0, <1>1, <2>1, <2>2 DEF PostsState
  <2>5. \A r \in Reports(k)' : r.state = "stopping"
    BY <2>2, <2>4, ReportFields DEF Stopping, DriverStates
  <2>6. Stopping(mgr, k, "stopping", Ext(k), Waiting(k)', InTask(k)', Replies(k)', Reports(k)')
    BY <2>1, <2>2, <2>4, <2>5 DEF Stopping
  <2>7. QED
    BY <2>2, <2>3, <2>4, <2>6 DEF Believed, Agrees, Serving
<1>4. CASE StartRepeated(k)
  <2>1. Runs(k, "start-driver") /\ instances[k] = "running"
    BY <1>0, <1>4, StartRepeatedDoes
  <2>2. Starting(mgr, k, instances[k], Ext(k), Waiting(k), InTask(k), {}, Reports(k))
        /\ Waiting(k) # {}
    BY <1>1, <2>1, TakenAgrees
  <2>3. QED
    BY <2>1, <2>2 DEF Starting
<1>5. QED
  BY <1>2, <1>3, <1>4

LEMMA RefusalsBelieve ==
  ASSUME Serving, NEW k \in Keys, Believed(k), StartRefused(k) \/ StopAbsent(k)
  PROVE  Believed(k)'
<1>0. PyTypeOK /\ OneEach /\ unposted = {}
  BY DEF Serving, TypeOK, InTime, Ordered, Calm
<1>1. /\ PostsNothing(k) /\ UNCHANGED <<instances, external>> /\ InTask(k)' = InTask(k)
      /\ \/ instances[k] # "running" /\ Replied(k, "start-driver", FALSE)
         \/ instances[k] = "absent" /\ Replied(k, "stop-driver", TRUE)
  BY <1>0, RefusalsDo
<1>2. Reports(k)' = Reports(k) /\ Ext(k)' = Ext(k)
  BY <1>0, <1>1 DEF PostsNothing, Ext
<1>3. CASE Replied(k, "start-driver", FALSE)
  <2>1. /\ Waiting(k)' = {} /\ InTask(k)' = {}
        /\ Replies(k)' # {} /\ \A p \in Replies(k)' : p.ok = FALSE
    BY <1>3, RepliedLeaves
  <2>2. /\ Busy(mgr, k)' /\ mgr.inFlight[k].result = "none" /\ Waiting(k) \union InTask(k) # {}
        /\ mgr.inFlight[k].kind = "start"
        /\ Starting(mgr, k, instances[k], Ext(k), Waiting(k), InTask(k), {}, Reports(k))
    BY <1>3, TakenAgrees
  <2>3. Waiting(k) # {} /\ instances[k] = "absent" /\ Reports(k) = {}
    BY <1>1, <2>1, <2>2 DEF Starting
  <2>4. Starting(mgr, k, instances[k], Ext(k), Waiting(k)', InTask(k)', Replies(k)', Reports(k)')
    BY <1>2, <2>1, <2>2, <2>3 DEF Starting
  <2>5. QED
    BY <1>1, <1>2, <2>1, <2>2, <2>4 DEF Believed, Agrees, Serving
<1>4. CASE instances[k] = "absent" /\ Replied(k, "stop-driver", TRUE)
  <2>1. InTask(k)' = {}
    BY <1>4, RepliedLeaves
  <2>2. /\ Waiting(k) \union InTask(k) # {}
        /\ Stopping(mgr, k, instances[k], Ext(k), Waiting(k), InTask(k), {}, Reports(k))
    BY <1>4, TakenAgrees
  <2>3. QED
    BY <1>1, <1>4, <2>1, <2>2 DEF Stopping
<1>5. QED
  BY <1>1, <1>3, <1>4

LEMMA StartEndsBelieve ==
  ASSUME Serving, NEW k \in Keys, Believed(k), StartSucceeds(k) \/ StartReported(k) \/ StartFails(k)
  PROVE  Believed(k)'
<1>0. PyTypeOK /\ OneEach /\ unposted = {}
  BY DEF Serving, TypeOK, InTime, Ordered, Calm
<1>1. CASE StartSucceeds(k)
  <2>1. /\ task[k].type = "start-driver" /\ task[k] \in Held(k)
        /\ instances[k] = "starting" /\ instances'[k] = "running"
        /\ UNCHANGED <<stdin, stdout, external, queue, task, unposted>>
    BY <1>0, <1>1 DEF StartSucceeds, PyTypeOK, Idle, Held, InTask
  <2>2. /\ Busy(mgr, k) /\ mgr.inFlight[k].result = "none"
        /\ Replies(k) = {} /\ mgr.inFlight[k].kind = "start"
        /\ Starting(mgr, k, instances[k], Ext(k), Waiting(k), InTask(k), {}, Reports(k))
    BY <2>1, HeldAgrees DEF Serving
  <2>3. /\ Waiting(k)' = Waiting(k) /\ InTask(k)' = InTask(k) /\ Replies(k)' = Replies(k)
        /\ Reports(k)' = Reports(k) /\ Ext(k)' = Ext(k)
    BY <2>1 DEF Waiting, InStdin, InQueue, InTask, Replies, Reports, Ext
  <2>4. task[k] \in InTask(k)
    BY <2>1 DEF InTask, Idle
  <2>5. Starting(mgr, k, "running", Ext(k), Waiting(k), InTask(k), Replies(k), Reports(k))
    BY <2>1, <2>2, <2>4 DEF Starting
  <2>6. QED
    BY <1>0, <2>1, <2>2, <2>3, <2>4, <2>5 DEF Believed, Agrees, Serving, Busy
<1>2. CASE StartReported(k)
  <2>1. /\ PostsState(k, "running") /\ Replied(k, "start-driver", TRUE)
        /\ UNCHANGED <<instances, external>> /\ instances[k] # "starting" /\ InTask(k) # {}
    BY <1>0, <1>2, StartReportedDoes
  <2>2. /\ Busy(mgr, k)' /\ mgr.inFlight[k].result = "none" /\ Replies(k) = {}
        /\ mgr.inFlight[k].kind = "start"
        /\ Starting(mgr, k, instances[k], Ext(k), Waiting(k), InTask(k), {}, Reports(k))
    BY <2>1, TakenAgrees
  <2>3. /\ Waiting(k)' = {} /\ InTask(k)' = {}
        /\ Replies(k)' # {} /\ \A p \in Replies(k)' : p.ok = TRUE
    BY <2>1, RepliedLeaves
  <2>4. /\ instances[k] = "running" /\ Ext(k)' = Ext(k)
        /\ Reports(k)' = Reports(k) \union {StateReport(k, "running")}
    BY <1>0, <2>1, <2>2 DEF PostsState, Starting, Ext
  <2>5. \A r \in Reports(k)' : r.state \in {"starting", "running"}
    BY <2>1, <2>2, <2>4, ReportFields DEF Starting, DriverStates
  <2>6. Starting(mgr, k, "running", Ext(k), Waiting(k)', InTask(k)', Replies(k)', Reports(k)')
    BY <2>2, <2>3, <2>4, <2>5 DEF Starting
  <2>7. QED
    BY <2>1, <2>2, <2>3, <2>4, <2>6 DEF Believed, Agrees, Serving
<1>3. CASE StartFails(k)
  <2>1. /\ PostsNothing(k) /\ Replied(k, "start-driver", FALSE)
        /\ Becomes(k, "absent") /\ DropExternal(k) /\ InTask(k) # {}
    BY <1>0, <1>3, StartFailsDoes
  <2>2. /\ Busy(mgr, k)' /\ mgr.inFlight[k].result = "none"
        /\ mgr.inFlight[k].kind = "start"
        /\ Starting(mgr, k, instances[k], Ext(k), Waiting(k), InTask(k), {}, Reports(k))
    BY <2>1, TakenAgrees
  <2>3. /\ Waiting(k)' = {} /\ InTask(k)' = {}
        /\ Replies(k)' # {} /\ \A p \in Replies(k)' : p.ok = FALSE
    BY <2>1, RepliedLeaves
  <2>4. /\ instances'[k] = "absent" /\ Ext(k)' = {}
        /\ Reports(k)' = Reports(k)
    BY <1>0, <2>1 DEF PostsNothing, Becomes, DropExternal, Ext, PyTypeOK
  <2>5. Starting(mgr, k, "absent", {}, Waiting(k)', InTask(k)', Replies(k)', Reports(k)')
    BY <2>1, <2>2, <2>3, <2>4 DEF Starting
  <2>6. QED
    BY <2>2, <2>3, <2>4, <2>5 DEF Believed, Agrees, Serving
<1>4. QED
  BY <1>1, <1>2, <1>3

LEMMA StopEndsBelieve ==
  ASSUME Serving, NEW k \in Keys, Believed(k), StopSucceeds(k) \/ StopTimesOut(k)
  PROVE  Believed(k)'
<1>0. PyTypeOK /\ OneEach /\ unposted = {}
  BY DEF Serving, TypeOK, InTime, Ordered, Calm
<1>1. CASE StopSucceeds(k)
  <2>1. /\ PostsState(k, "available") /\ Replied(k, "stop-driver", TRUE)
        /\ Becomes(k, "absent") /\ DropExternal(k) /\ InTask(k) # {}
    BY <1>0, <1>1, StopSucceedsDoes
  <2>2. /\ Busy(mgr, k)' /\ mgr.inFlight[k].result = "none" /\ Replies(k) = {}
        /\ mgr.inFlight[k].kind = "stop"
        /\ Stopping(mgr, k, instances[k], Ext(k), Waiting(k), InTask(k), {}, Reports(k))
    BY <2>1, TakenAgrees
  <2>3. /\ Waiting(k)' = {} /\ InTask(k)' = {}
        /\ Replies(k)' # {} /\ \A p \in Replies(k)' : p.ok = TRUE
    BY <2>1, RepliedLeaves
  <2>4. /\ instances'[k] = "absent" /\ Ext(k)' = {}
        /\ Reports(k)' = Reports(k) \union {StateReport(k, "available")}
    BY <1>0, <2>1, <2>2 DEF PostsState, Becomes, DropExternal, Ext, PyTypeOK
  <2>5. \A r \in Reports(k)' : r.state \in {"stopping", "available"}
    BY <2>1, <2>2, <2>4, ReportFields DEF Stopping, DriverStates
  <2>6. Stopping(mgr, k, "absent", {}, Waiting(k)', InTask(k)', Replies(k)', Reports(k)')
    BY <2>1, <2>2, <2>3, <2>5 DEF Stopping
  <2>7. QED
    BY <2>2, <2>3, <2>4, <2>6 DEF Believed, Agrees, Serving
<1>2. CASE StopTimesOut(k)
  <2>1. /\ PostsState(k, "errored") /\ Replied(k, "stop-driver", FALSE)
        /\ Becomes(k, "errored") /\ external' = external /\ InTask(k) # {}
    BY <1>0, <1>2, StopTimesOutDoes
  <2>2. /\ Busy(mgr, k)' /\ mgr.inFlight[k].result = "none" /\ Replies(k) = {}
        /\ mgr.inFlight[k].kind = "stop"
        /\ Stopping(mgr, k, instances[k], Ext(k), Waiting(k), InTask(k), {}, Reports(k))
    BY <2>1, TakenAgrees
  <2>3. /\ Waiting(k)' = {} /\ InTask(k)' = {}
        /\ Replies(k)' # {} /\ \A p \in Replies(k)' : p.ok = FALSE
    BY <2>1, RepliedLeaves
  <2>4. /\ instances'[k] = "errored" /\ Ext(k)' = Ext(k)
        /\ Reports(k)' = Reports(k) \union {StateReport(k, "errored")}
    BY <1>0, <2>1, <2>2 DEF PostsState, Becomes, Ext, PyTypeOK
  <2>5. \A r \in Reports(k)' : r.state \in {"stopping", "errored"}
    BY <2>1, <2>2, <2>4, ReportFields DEF Stopping, DriverStates
  <2>6. Stopping(mgr, k, "errored", Ext(k), Waiting(k)', InTask(k)', Replies(k)', Reports(k)')
    BY <2>1, <2>2, <2>3, <2>5 DEF Stopping
  <2>7. QED
    BY <2>2, <2>3, <2>4, <2>6 DEF Believed, Agrees, Serving
<1>3. QED
  BY <1>1, <1>2

LEMMA ReadsBelieve ==
  ASSUME Serving, \A k \in Keys : Believed(k), ReadSubscribe \/ ReadLifecycle
  PROVE  \A k \in Keys : Believed(k)'
<1>0. PyTypeOK /\ OneEach /\ unposted = {} /\ Calm' /\ alive' /\ mgr' = mgr
  BY DEF Serving, TypeOK, InTime, Ordered, Calm
<1>1. CASE ReadSubscribe
  <2>1. PICK k \in Keys : \E r \in InStdin(k) :
          /\ r \in SubscriptionRequests /\ MovesOnly(k)
          /\ Result(r, TRUE) \in Replies(k)' /\ Reports(k)' = Reports(k)
          /\ external' = IF r.type = "subscribe" THEN external \union {<<k, r.event>>}
                         ELSE external \ {<<k, r.event>>}
          /\ instances' = instances /\ unposted' = unposted
          /\ Ahead(stdout) => Ahead(stdout')
    BY <1>0, <1>1, ReadSubscribeDoes
  <2>2. PICK r \in InStdin(k) :
          /\ r \in SubscriptionRequests /\ MovesOnly(k)
          /\ Result(r, TRUE) \in Replies(k)' /\ Reports(k)' = Reports(k)
          /\ external' = IF r.type = "subscribe" THEN external \union {<<k, r.event>>}
                         ELSE external \ {<<k, r.event>>}
          /\ instances' = instances /\ unposted' = unposted
          /\ Ahead(stdout) => Ahead(stdout')
    BY <2>1
  <2>3. r \in Held(k) /\ Waiting(k) # {} /\ Believed(k)
        /\ r.type \in {"subscribe", "unsubscribe"} /\ r.event \in Events
    BY <2>2 DEF Held, Waiting, SubscriptionRequests
  <2>4. /\ Busy(mgr, k) /\ mgr.inFlight[k].result = "none"
        /\ mgr.inFlight[k].kind = "sync" /\ r.event = mgr.inFlight[k].change[1]
        /\ r.type = "subscribe" <=> mgr.inFlight[k].change[2]
        /\ Syncing(mgr, k, instances[k], Ext(k), Waiting(k), InTask(k), {}, Reports(k))
    BY <2>3, HeldAgrees DEF Serving
  <2>5. /\ Waiting(k)' = {} /\ InTask(k)' = {} /\ Replies(k)' = {Result(r, TRUE)}
        /\ Result(r, TRUE).ok
    BY <1>0, <2>2, OneIsLeft DEF Serving, Result
  <2>6. Ext(k) = Subs(mgr, k) /\ Reports(k) = {} /\ instances[k] = "running"
    BY <2>3, <2>4 DEF Syncing
  <2>7. Ext(k)' = After(mgr.inFlight[k], Ext(k))
    <3>1. CASE r.type = "subscribe"
      <4>1. external' = external \union {<<k, r.event>>}
        BY <2>2, <3>1
      <4>2. Ext(k)' = Ext(k) \union {r.event}
        BY <2>3, <4>1 DEF Ext
      <4>3. QED
        BY <2>4, <3>1, <4>2 DEF After
    <3>2. CASE r.type # "subscribe"
      <4>1. external' = external \ {<<k, r.event>>}
        BY <2>2, <3>2
      <4>2. Ext(k)' = Ext(k) \ {r.event}
        BY <2>3, <4>1 DEF Ext
      <4>3. QED
        BY <2>4, <3>2, <4>2 DEF After
    <3>3. QED
      BY <3>1, <3>2
  <2>8. PICK y : y = Ext(k)'
    OBVIOUS
  <2>9. Syncing(mgr, k, instances[k], y, {}, {}, {Result(r, TRUE)}, {})
    BY <2>4, <2>5, <2>6, <2>7, <2>8 DEF Syncing
  <2>10. Agrees(mgr, k, instances[k], y, {}, {}, {Result(r, TRUE)}, {})
    BY <2>4, <2>9 DEF Agrees
  <2>11. Believed(k)'
    BY <1>0, <2>2, <2>5, <2>6, <2>8, <2>10 DEF Believed
  <2>12. \A j \in Keys \ {k} : Believed(j)'
    BY <1>0, <2>2, ElsewhereBelieved DEF Serving
  <2>13. QED
    BY <1>0, <2>2, <2>11, <2>12
<1>2. CASE ReadLifecycle
  <2>1. PICK k \in Keys :
          /\ MovesOnly(k) /\ InTask(k)' = InTask(k) /\ Replies(k)' = Replies(k)
          /\ UNCHANGED <<instances, external, stdout, unposted>>
          /\ Waiting(k) # {}
    BY <1>0, <1>2, ReadLifecycleDoes
  <2>2. Believed(k) /\ Alone(k)
    BY DEF Serving, Solo
  <2>3. InTask(k) = {} /\ Replies(k) = {} /\ Busy(mgr, k) /\ mgr.inFlight[k].result = "none"
    BY <2>1, <2>2 DEF Alone, Tokens, Held, Awaits
  <2>4. Reports(k) = {}
    BY <2>1, <2>2, <2>3 DEF Believed, Agrees, Starting, Stopping, Syncing
  <2>5. Ext(k)' = Ext(k) /\ Reports(k)' = {} /\ instances' = instances
    BY <2>1, <2>4 DEF Ext, Reports
  <2>6. PICK V : V = Waiting(k)'
    OBVIOUS
  <2>7. PICK W : W = Waiting(k)
    OBVIOUS
  <2>8. Agrees(mgr, k, instances[k], Ext(k), W, {}, {}, {}) /\ W # {}
    BY <2>1, <2>2, <2>3, <2>4, <2>7 DEF Believed
  <2>9. Agrees(mgr, k, instances[k], Ext(k), V, {}, {}, {})
    BY <2>3, <2>8 DEF Agrees, Starting, Stopping, Syncing
  <2>10. Believed(k)'
    BY <1>0, <2>1, <2>3, <2>5, <2>6, <2>9 DEF Believed
  <2>11. \A j \in Keys \ {k} : Believed(j)'
    BY <1>0, <2>1, ElsewhereBelieved DEF Serving
  <2>12. QED
    BY <1>0, <2>1, <2>10, <2>11
<1>3. QED
  BY <1>1, <1>2

LEMMA BridgeBelieves ==
  ASSUME Serving, \A k \in Keys : Believed(k), BridgeStep
  PROVE  \A k \in Keys : Believed(k)'
<1>0. PyTypeOK /\ OneEach /\ unposted = {} /\ mgr' = mgr /\ Ordered /\ Calm
  BY DEF Serving, TypeOK, InTime, Ordered
<1>1. CASE ReadSubscribe \/ ReadLifecycle
  BY <1>1, ReadsBelieve
<1>2. ~PublishedPosted
  BY <1>0, PublishedPostedDoes
<1>3. ASSUME NEW k \in Keys, WorkerStep(k)
      PROVE  \A j \in Keys : Believed(j)'
  <2>1. MovesOnly(k)
    BY <1>0, <1>3, StartBeginsDoes, StartRepeatedDoes, RefusalsDo, InstanceStepsDo,
       StartReportedDoes, StartFailsDoes, StopBeginsDoes, StopSucceedsDoes, StopTimesOutDoes
    DEF WorkerStep
  <2>2. Believed(k)'
    BY <1>3, BeginsBelieve, RefusalsBelieve, StartEndsBelieve, StopEndsBelieve DEF WorkerStep
  <2>3. \A j \in Keys \ {k} : Believed(j)'
    BY <1>0, <2>1, ElsewhereBelieved
  <2>4. QED
    BY <2>2, <2>3
<1>4. QED
  BY <1>1, <1>2, <1>3 DEF BridgeStep

\* Reports stay ahead of replies: while a request is held, its instance has no reply.
LEMMA BridgeKeepsOrder ==
  ASSUME TypeOK, InTime, Solo, Ordered, Calm, BridgeStep
  PROVE  unposted' = {} /\ Ahead(stdout')
<1>0. PyTypeOK /\ OneEach /\ unposted = {} /\ Ahead(stdout) /\ alive
  BY BridgeMoves DEF TypeOK, InTime, Ordered
<1>1. CASE ReadSubscribe \/ ReadLifecycle
  BY <1>0, <1>1, ReadSubscribeDoes, ReadLifecycleDoes
<1>2. ~PublishedPosted
  BY <1>0, PublishedPostedDoes
<1>3. ASSUME NEW k \in Keys, WorkerStep(k)
      PROVE  unposted' = {} /\ Ahead(stdout')
  <2>1. Alone(k)
    BY <1>0 DEF Solo
  <2>2. Waiting(k) \union InTask(k) # {} => Replies(k) = {}
    BY <2>1 DEF Alone
  <2>3. \A type : Runs(k, type) => Waiting(k) # {}
    BY DEF Runs, Waiting
  <2>4. CASE StartBegins(k) \/ StopBegins(k)
    BY <1>0, <2>2, <2>3, <2>4, StartBeginsDoes, StopBeginsDoes DEF PostsState
  <2>5. CASE StartRepeated(k) \/ StartRefused(k) \/ StopAbsent(k) \/ StartFails(k)
    BY <1>0, <2>5, StartRepeatedDoes, RefusalsDo, StartFailsDoes DEF PostsNothing
  <2>6. CASE StartSucceeds(k)
    BY <1>0, <2>6 DEF StartSucceeds
  <2>7. CASE StartReported(k) \/ StopSucceeds(k) \/ StopTimesOut(k)
    BY <1>0, <2>2, <2>7, StartReportedDoes, StopSucceedsDoes, StopTimesOutDoes DEF PostsState
  <2>8. QED
    BY <1>3, <2>4, <2>5, <2>6, <2>7 DEF WorkerStep
<1>4. QED
  BY <1>1, <1>2, <1>3 DEF BridgeStep

\* Nothing times out and nothing is published on the way to a calm state.
LEMMA CalmSince ==
  ASSUME TypeOK, Life, [Next]_vars, Calm'
  PROVE  /\ Calm /\ UNCHANGED <<timeouts, published>>
         /\ \A k \in Keys : ~RequestTimesOut(k)
         /\ \A k \in Keys : \A state \in {"running", "errored"} : ~DriverReports(k, state)
<1>1. timeouts \in Nat /\ published \in Nat
  BY BoundsAssumption DEF TypeOK
<1>2. /\ \A k \in Keys : ~RequestTimesOut(k)
      /\ \A k \in Keys : \A state \in {"running", "errored"} : ~DriverReports(k, state)
  BY <1>1 DEF Calm, RequestTimesOut, DriverReports
<1>3. BridgeEvent \/ StopManager \/ StartBridge \/ ProcessExits \/ PythonStep
        => UNCHANGED <<timeouts, published>>
  BY DEF BridgeEvent, BridgeReady, HandleExit, ManagerStopped, BridgeGivenUp, StopManager,
         StartBridge, ProcessExits, PythonStep, counters
<1>4. UNCHANGED <<timeouts, published>>
  BY <1>2, <1>3, StepIs
<1>5. QED
  BY <1>2, <1>4 DEF Calm

LEMMA StepKeepsOrder ==
  ASSUME TypeOK, Life, InTime, Solo, Ordered, [Next]_vars
  PROVE  Ordered'
<1> SUFFICES ASSUME Calm' PROVE unposted' = {} /\ Ahead(stdout')
  BY DEF Ordered
<1>0. Calm /\ unposted = {} /\ Ahead(stdout) /\ PyTypeOK /\ OneEach
  BY CalmSince DEF Ordered, TypeOK, InTime
<1>1. CASE BridgeEvent \/ StopManager
  BY <1>0, <1>1 DEF BridgeEvent, BridgeReady, HandleExit, ManagerStopped, BridgeGivenUp, StopManager,
                    UNCHANGED_PY, pyVars
<1>2. CASE StartBridge \/ ProcessExits
  BY <1>0, <1>2, EmptyFacts DEF StartBridge, ProcessExits, Spawn, Exit, ResetProcess
<1>3. CASE PythonStep
  BY <1>0, <1>3, BridgeKeepsOrder DEF PythonStep
<1>4. CASE NodeHandles
  <2>1. CASE HandleLine
    <3>1. stdout # <<>> /\ stdout' = Tail(stdout) /\ unposted' = unposted
      BY <2>1 DEF HandleLine
    <3>2. QED
      BY <1>0, <3>1, StdoutTail
  <2>2. CASE ~HandleLine
    BY <1>0, <1>4, <2>2 DEF NodeHandles, Passes, Idles, Resume, UNCHANGED_PY
  <2>3. QED
    BY <2>1, <2>2
<1>5. QED
  BY <1>1, <1>2, <1>3, <1>4, StepIs, CalmSince

\* The manager's beliefs and the bridge agree after every step, while the bridge is
\* in use.
LEMMA StepKeepsBelieving ==
  ASSUME TypeOK, Life, Lives, InTime, Solo, Solo', Ordered, Believing, [Next]_vars
  PROVE  Believing'
<1> SUFFICES ASSUME Calm', alive', mgr'.bridgeReady PROVE \A k \in Keys : Believed(k)'
  BY DEF Believing
<1>0. Calm /\ UNCHANGED <<timeouts, published>> /\ mgr \in Managers
  BY CalmSince DEF TypeOK
<1>1. CASE StopManager
  <2>1. PICK gone : mgr' = [DropLeases(mgr, gone) EXCEPT !.active = FALSE]
    BY <1>1, StopManagerActs
  <2>2. /\ mgr'.active = FALSE /\ mgr'.inFlight = mgr.inFlight /\ mgr'.actual = mgr.actual
        /\ mgr'.subscriptions = mgr.subscriptions /\ mgr'.bridgeReady = mgr.bridgeReady
    <3>1. DropLeases(mgr, gone) \in Managers /\ SameBeliefs(mgr, DropLeases(mgr, gone))
      BY LeasesKeepBeliefs DEF SameBeliefs
    <3>2. QED
      BY <2>1, <3>1 DEF Managers, SameBeliefs
  <2>3. UNCHANGED pyVars
    BY <1>1 DEF StopManager
  <2>4. \A k \in Keys : Believed(k)
    BY <1>0, <2>2, <2>3 DEF Believing, pyVars
  <2>5. ASSUME NEW k \in Keys PROVE Believed(k)'
    <3>1. PICK n : n = mgr'
      OBVIOUS
    <3>2. Agrees(n, k, instances[k], Ext(k), Waiting(k), InTask(k), Replies(k), Reports(k))
      BY <2>2, <2>4, <3>1, AgreesIgnores DEF Believed, Subs
    <3>3. /\ instances' = instances /\ Ext(k)' = Ext(k) /\ Waiting(k)' = Waiting(k)
          /\ InTask(k)' = InTask(k) /\ Replies(k)' = Replies(k) /\ Reports(k)' = Reports(k)
      BY <2>3 DEF pyVars, Ext, Waiting, InStdin, InQueue, InTask, Replies, Reports
    <3>4. QED
      BY <3>1, <3>2, <3>3 DEF Believed
  <2>6. QED
    BY <2>5
<1>2. CASE BridgeReady
  BY <1>0, <1>2, ReadyBelieves DEF BridgeReady, UNCHANGED_PY
<1>3. ~HandleExit /\ ~ManagerStopped /\ ~BridgeGivenUp
  BY BridgeEvents DEF HandleExit, pyVars
<1>4. ~StartBridge /\ ~ProcessExits
  BY DEF StartBridge, ProcessExits, Exit, Life
<1>5. CASE PythonStep
  <2>1. BridgeStep /\ mgr' = mgr
    BY <1>5 DEF PythonStep, nodeVars
  <2>2. alive
    BY <2>1, BridgeMoves DEF TypeOK, InTime
  <2>3. (\A k \in Keys : Believed(k)) /\ Serving
    BY <1>0, <2>1, <2>2 DEF Believing, Serving
  <2>4. QED
    BY <2>1, <2>3, BridgeBelieves
<1>6. CASE NodeHandles /\ ~BridgeEvent /\ ~StopManager
  <2>1. mgr.bridgeReady
    BY <1>6, ActiveOrStopping
  <2>2. alive
    BY <1>6 DEF NodeHandles, Passes, Idles, HandleLine, Resume, UNCHANGED_PY
  <2>3. QED
    BY <1>0, <1>6, <2>1, <2>2, HandledBelieves DEF Believing
<1>7. QED
  BY <1>1, <1>2, <1>3, <1>4, <1>5, <1>6, StepIs, CalmSince DEF BridgeEvent

-----------------------------------------------------------------------------
(* Dependencies: nothing is started before them or stopped under its         *)
(* dependents.                                                               *)

LEMMA ClosureClosed ==
  ASSUME NEW k \in Keys, NEW e \in Closure[k]
  PROVE  Deps[e] \subseteq Closure[k]
<1>1. e \in Keys /\ Deps[e] \subseteq Keys
  BY ClosureTypes, DepsAssumption
<1>2. \A S \in SUBSET Keys : (k \in S /\ \A x \in S : Deps[x] \subseteq S) => e \in S
  BY DEF Closure
<1>3. QED
  BY <1>1, <1>2 DEF Closure

LEMMA DesiredClosed ==
  ASSUME NEW m \in Managers, NEW k \in Desired(m)
  PROVE  Deps[k] \subseteq Desired(m)
<1>1. PICK c \in m.leases : k \in Closure[CallKey[c]]
  BY DEF Desired
<1>2. CallKey[c] \in Keys
  BY CallsAssumption DEF Managers
<1>3. QED
  BY <1>1, <1>2, ClosureClosed DEF Desired

\* A pass that stops an instance finds nothing that depends on it and starts nothing
\* that does; one that starts an instance stops nothing it depends on.
LEMMA PassSends ==
  ASSUME NEW m \in Managers, NEW id \in Nat, NEW k \in Keys,
         Kick(m, id).inFlight[k] # m.inFlight[k]
  PROVE  LET n == Kick(m, id) IN
         /\ n.inFlight[k].kind = "stop" => \A j \in Keys : k \in Deps[j] => n.actual[j] = "absent"
         /\ n.inFlight[k].kind = "start" => \A d \in Deps[k] : n.actual[d] = "running"
<1>1. PICK n : n = Kick(m, id)
  OBVIOUS
<1>2. \A j \in Keys : \/ PassLeaves(m, n, j) \/ PassStarts(m, n, j, id)
                      \/ PassStops(m, n, j, id) \/ PassSyncs(m, n, j, id)
  BY <1>1, KickDoes
<1>a. /\ Lifecycle(m, "start", id).kind = "start" /\ Lifecycle(m, "stop", id).kind = "stop"
      /\ \A changes : Sync(m, changes, id).kind = "sync"
  BY DEF Lifecycle, Sync
<1>3. \A j \in Keys : \A d \in Deps[j] : MustStart(m, j) => ~MustStop(m, d) /\ d \in Keys
  <2> SUFFICES ASSUME NEW j \in Keys, NEW d \in Deps[j], MustStart(m, j)
               PROVE  ~MustStop(m, d) /\ d \in Keys
    OBVIOUS
  <2>1. d \in Desired(m) /\ m.actual[d] = "running" /\ d \in Keys
    BY DesiredClosed, DepsAssumption DEF MustStart
  <2>2. QED
    BY <2>1 DEF MustStop
<1>4. ASSUME n.inFlight[k].kind = "stop", NEW j \in Keys, k \in Deps[j]
      PROVE  n.actual[j] = "absent"
  <2>1. MustStop(m, k)
    BY <1>1, <1>2, <1>a, <1>4 DEF PassLeaves, PassStarts, PassStops, PassSyncs
  <2>2. m.actual[j] = "absent" /\ ~MustStart(m, j)
    BY <1>3, <1>4, <2>1 DEF MustStop, HasPresentDependents, Present
  <2>3. ~MustStop(m, j)
    BY <2>2 DEF MustStop, Present
  <2>4. QED
    BY <1>2, <2>2, <2>3 DEF PassLeaves, PassStarts, PassStops, PassSyncs
<1>5. ASSUME n.inFlight[k].kind = "start", NEW d \in Deps[k]
      PROVE  n.actual[d] = "running"
  <2>1. MustStart(m, k)
    BY <1>1, <1>2, <1>a, <1>5 DEF PassLeaves, PassStarts, PassStops, PassSyncs
  <2>2. m.actual[d] = "running" /\ ~MustStop(m, d) /\ d \in Keys
    BY <1>3, <2>1 DEF MustStart
  <2>3. ~MustStart(m, d)
    BY <2>2 DEF MustStart, Present
  <2>4. QED
    BY <1>2, <2>2, <2>3 DEF PassLeaves, PassStarts, PassStops, PassSyncs
<1>6. QED
  BY <1>1, <1>4, <1>5

\* An operation that sends a request without a pass is a sync going on.
LEMMA ProceedSends ==
  ASSUME NEW m \in Managers, NEW k \in Keys, Busy(m, k), NEW id \in Nat, NEW j \in Keys,
         Sends(m, Proceed(m, k, id), j)
  PROVE  LET n == Proceed(m, k, id) IN
         /\ n.inFlight[j].kind = "stop" => \A h \in Keys : j \in Deps[h] => n.actual[h] = "absent"
         /\ n.inFlight[j].kind = "start" => \A d \in Deps[j] : n.actual[d] = "running"
<1> DEFINE op == m.inFlight[k]
           n == Conclude(m, k)
           over == [n EXCEPT !.inFlight[k] = NoOperation]
           next == [n EXCEPT !.inFlight[k] = Sync(m, op.todo, id)]
           goesOn == op.live /\ op.kind = "sync" /\ op.todo # {}
<1>1. n \in Managers /\ n.inFlight = m.inFlight
  BY ConcludeTypes
<1>2. Proceed(m, k, id) = IF goesOn THEN next ELSE Kick(over, id)
  BY DEF Proceed
<1> HIDE DEF n
<1>3. CASE goesOn
  <2>1. PICK new : new = Sync(m, op.todo, id)
    OBVIOUS
  <2>2. next.inFlight = [m.inFlight EXCEPT ![k] = new]
    BY <1>1, <2>1 DEF Managers
  <2> HIDE DEF next
  <2>3. j = k
    <3>1. next.inFlight[j] # m.inFlight[j]
      BY <1>2, <1>3 DEF Sends
    <3>2. QED
      BY <2>2, <3>1 DEF Managers
  <2>4. next.inFlight[j] = new
    BY <2>2, <2>3 DEF Managers
  <2>5. new.kind = "sync"
    BY <2>1 DEF Sync
  <2>6. next.inFlight[j].kind # "stop" /\ next.inFlight[j].kind # "start"
    BY <2>4, <2>5
  <2>7. QED
    BY <1>2, <1>3, <2>6
<1>4. CASE ~goesOn
  <2>1. over \in Managers /\ over.inFlight = [m.inFlight EXCEPT ![k] = NoOperation]
    BY <1>1 DEF Managers
  <2> HIDE DEF over
  <2>2. Kick(over, id).inFlight[j] # over.inFlight[j]
    <3>1. Awaits(Kick(over, id), j) /\ Kick(over, id).inFlight[j] # m.inFlight[j]
      BY <1>2, <1>4 DEF Sends
    <3>2. over.inFlight[j] \in {NoOperation, m.inFlight[j]}
      BY <2>1 DEF Managers
    <3>3. QED
      BY <3>1, <3>2 DEF Awaits, Busy
  <2>3. PICK q : q = Kick(over, id)
    OBVIOUS
  <2>4. /\ q.inFlight[j].kind = "stop" => \A h \in Keys : j \in Deps[h] => q.actual[h] = "absent"
        /\ q.inFlight[j].kind = "start" => \A d \in Deps[j] : q.actual[d] = "running"
    BY <2>1, <2>2, <2>3, PassSends
  <2>5. QED
    BY <1>2, <1>4, <2>3, <2>4
<1>5. QED
  BY <1>3, <1>4

\* What is new in the bridge's hands was sent by a pass that had reason to, or is
\* a sync that goes on.
SentWithCause(k) ==
  /\ ~Sends(mgr, mgr', k) => Held(k)' = Held(k)
  /\ Held(k)' \subseteq Held(k) \union {RequestOf(k, mgr'.inFlight[k])}
  /\ Sends(mgr, mgr', k) /\ mgr'.inFlight[k].kind = "stop" =>
       \A j \in Keys : k \in Deps[j] => mgr'.actual[j] = "absent"
  /\ Sends(mgr, mgr', k) /\ mgr'.inFlight[k].kind = "start" =>
       \A d \in Deps[k] : mgr'.actual[d] = "running"

LEMMA PassSendsWithCause ==
  ASSUME TypeOK, NEW n \in Managers, n.inFlight = mgr.inFlight, Reconcile(n) \/ Update(n),
         UNCHANGED <<queue, task>>, NEW k \in Keys
  PROVE  SentWithCause(k)
<1>0. NextId \in Nat
  BY BoundsAssumption DEF TypeOK, NextId
<1>1. CASE Update(n)
  <2>1. ~Sends(mgr, n, k)
    BY DEF Sends
  <2>2. QED
    BY <1>1, <2>1, UpdateDoes DEF SentWithCause, Held
<1>2. CASE Reconcile(n)
  <2>1. PICK q : q = Kick(n, NextId)
    OBVIOUS
  <2>2. q \in Managers /\ Update(q)
    BY <1>0, <1>2, <2>1, KickTypes DEF Reconcile
  <2>3. /\ mgr' = q /\ InTask(k)' = InTask(k)
        /\ ~Sends(mgr, q, k) => Waiting(k)' = Waiting(k)
        /\ Waiting(k)' \subseteq Waiting(k) \union {RequestOf(k, q.inFlight[k])}
    BY <2>2, UpdateDoes
  <2>4. Sends(mgr, q, k) =>
          /\ q.inFlight[k].kind = "stop" => \A j \in Keys : k \in Deps[j] => q.actual[j] = "absent"
          /\ q.inFlight[k].kind = "start" => \A d \in Deps[k] : q.actual[d] = "running"
    BY <1>0, <2>1, PassSends DEF Sends
  <2>5. QED
    BY <2>3, <2>4 DEF SentWithCause, Held
<1>3. QED
  BY <1>1, <1>2

LEMMA HandledSends ==
  ASSUME TypeOK, NodeHandles \/ BridgeReady, NEW k \in Keys
  PROVE  SentWithCause(k)
<1>0. mgr \in Managers /\ NextId \in Nat
  BY BoundsAssumption DEF TypeOK, NextId
<1>1. ASSUME ~Sends(mgr, mgr', k), UNCHANGED <<stdin, queue, task>> PROVE SentWithCause(k)
  BY <1>1 DEF SentWithCause, Held, Waiting, InStdin, InQueue, InTask
<1>2. CASE Passes
  BY <1>2, PassSendsWithCause DEF Passes, SameBeliefs, UNCHANGED_PY
<1>3. CASE Idles
  BY <1>1, <1>3 DEF Idles, SameBeliefs, Sends, UNCHANGED_PY
<1>4. CASE HandleLine
  <2>0. UNCHANGED <<queue, task>>
    BY <1>4 DEF HandleLine
  <2>1. PICK line : line = Head(stdout)
    OBVIOUS
  <2>2. line \in BridgeResponses
    BY <1>4, <2>1, HeadTailProperties DEF HandleLine, TypeOK, PyTypeOK
  <2>3. CASE line.type = "result" /\ stdin' = stdin
    <3>1. \/ mgr' = mgr
          \/ Awaits(mgr, line.key) /\ \E result \in {"ok", "error"} : mgr' = Noted(line.key, result)
      BY <1>4, <2>1, <2>3 DEF HandleLine, Answers, Noted
    <3>2. line.key \in Keys
      BY <2>2, ResponseTypes
    <3>3. ~Sends(mgr, mgr', k)
      <4>1. CASE mgr' = mgr
        BY <4>1 DEF Sends
      <4>2. CASE Awaits(mgr, line.key) /\ \E result \in {"ok", "error"} : mgr' = Noted(line.key, result)
        <5>1. PICK result \in {"ok", "error"} : mgr' = Noted(line.key, result)
          BY <4>2
        <5>2. /\ \A j \in Keys \ {line.key} : mgr'.inFlight[j] = mgr.inFlight[j]
              /\ mgr'.inFlight[line.key].result = result
          BY <1>0, <3>2, <4>2, <5>1, NotedDoes
        <5>3. QED
          BY <5>1, <5>2 DEF Sends, Awaits
      <4>3. QED
        BY <3>1, <4>1, <4>2
    <3>4. QED
      BY <1>1, <2>0, <2>3, <3>3
  <2>4. CASE /\ line.type = "driver-state"
             /\ \/ Reconcile(ReportState(mgr, line.key, line.state))
                \/ Update(ReportState(mgr, line.key, line.state))
    <3>1. line.key \in Keys /\ line.state \in DriverStates
      BY <2>2, <2>4 DEF BridgeResponses, Results, StateReports
    <3>2. /\ ReportState(mgr, line.key, line.state) \in Managers
          /\ ReportState(mgr, line.key, line.state).inFlight = mgr.inFlight
      BY <1>0, <3>1, ReportStateTypes, ReportKeeps DEF BeliefsOnly
    <3>3. QED
      BY <2>0, <2>4, <3>2, PassSendsWithCause
  <2>5. QED
    BY <1>4, <2>1, <2>3, <2>4 DEF HandleLine
<1>5. CASE \E j \in Keys : Resume(j)
  <2>1. PICK j \in Keys : Resume(j)
    BY <1>5
  <2>2. PICK q : q = Proceed(mgr, j, NextId)
    OBVIOUS
  <2>3. Update(q) /\ Busy(mgr, j) /\ UNCHANGED <<queue, task>> /\ q \in Managers
    BY <1>0, <2>1, <2>2, ProceedTypes DEF Resume, Settled, UNCHANGED_PY
  <2>4. /\ mgr' = q /\ InTask(k)' = InTask(k)
        /\ ~Sends(mgr, q, k) => Waiting(k)' = Waiting(k)
        /\ Waiting(k)' \subseteq Waiting(k) \union {RequestOf(k, q.inFlight[k])}
    BY <2>3, UpdateDoes
  <2>5. Sends(mgr, q, k) =>
          /\ q.inFlight[k].kind = "stop" => \A h \in Keys : k \in Deps[h] => q.actual[h] = "absent"
          /\ q.inFlight[k].kind = "start" => \A d \in Deps[k] : q.actual[d] = "running"
    BY <1>0, <2>2, <2>3, ProceedSends
  <2>6. QED
    BY <2>4, <2>5 DEF SentWithCause, Held
<1>6. CASE BridgeReady
  <2>1. BridgeCame(mgr) \in Managers /\ BridgeCame(mgr).inFlight = mgr.inFlight
    BY <1>0, BridgeHandlersTypes DEF BridgeCame, Managers
  <2>2. QED
    BY <1>6, <2>1, PassSendsWithCause DEF BridgeReady, UNCHANGED_PY
<1>7. QED
  BY <1>2, <1>3, <1>4, <1>5, <1>6 DEF NodeHandles

\* What the manager knows of an instance while the bridge holds a start or a stop of
\* it, and of one that is absent.
AllBelieved == \A k \in Keys : Believed(k)
HoldingIsKnown ==
  \A k \in Keys :
    /\ StartHeld(k) => mgr.inFlight[k].kind = "start" /\ mgr.actual[k] \in {"starting", "running"}
    /\ StopHeld(k) => mgr.inFlight[k].kind = "stop"
                      /\ mgr.actual[k] \in {"stopping", "errored", "absent"}
    /\ mgr.actual[k] = "absent" => instances[k] = "absent"

LEMMA HeldBelieved == TypeOK /\ Solo /\ Calm /\ alive /\ AllBelieved => HoldingIsKnown
<1> SUFFICES ASSUME TypeOK, Solo, Calm, alive, AllBelieved, NEW k \in Keys
             PROVE  /\ StartHeld(k) => mgr.inFlight[k].kind = "start"
                                       /\ mgr.actual[k] \in {"starting", "running"}
                    /\ StopHeld(k) => mgr.inFlight[k].kind = "stop"
                                      /\ mgr.actual[k] \in {"stopping", "errored", "absent"}
                    /\ mgr.actual[k] = "absent" => instances[k] = "absent"
  BY DEF HoldingIsKnown
<1>0. Believed(k)
  BY DEF AllBelieved
<1>1. \A r \in Held(k) :
        /\ r.type = "start-driver" => mgr.inFlight[k].kind = "start"
                                      /\ mgr.actual[k] \in {"starting", "running"}
        /\ r.type = "stop-driver" => mgr.inFlight[k].kind = "stop"
                                     /\ mgr.actual[k] \in {"stopping", "errored", "absent"}
  BY <1>0, HeldAgrees DEF Starting, Stopping
<1>2. mgr.actual[k] = "absent" => instances[k] = "absent"
  BY <1>0 DEF Believed, Agrees, AtPeace, Starting, Stopping, Syncing
<1>3. QED
  BY <1>1, <1>2 DEF StartHeld, StopHeld

LEMMA HandledSupports ==
  ASSUME Calm, instances' = instances, Supported, HoldingIsKnown', \A k \in Keys : SentWithCause(k)
  PROVE  Supported'
<1> SUFFICES ASSUME NEW j \in Keys, NEW d \in Deps[j]
             PROVE  /\ instances'[j] # "absent" => instances'[d] = "running"
                    /\ instances'[j] # "absent" \/ StartHeld(j)' => ~StopHeld(d)'
  BY DEF Supported
<1>0. d \in Keys
  BY DepsAssumption
<1>1. /\ instances[j] # "absent" => instances[d] = "running"
      /\ instances[j] # "absent" \/ StartHeld(j) => ~StopHeld(d)
  BY DEF Supported
<1>2. \A k \in Keys :
        /\ StartHeld(k)' => mgr'.inFlight[k].kind = "start" /\ mgr'.actual[k] \in {"starting", "running"}
        /\ StopHeld(k)' => mgr'.inFlight[k].kind = "stop"
                           /\ mgr'.actual[k] \in {"stopping", "errored", "absent"}
        /\ mgr'.actual[k] = "absent" => instances'[k] = "absent"
  BY DEF HoldingIsKnown
<1>3. ASSUME StopHeld(d)', instances'[j] # "absent" \/ StartHeld(j)' PROVE FALSE
  <2>1. mgr'.inFlight[d].kind = "stop" /\ mgr'.actual[d] \in {"stopping", "errored", "absent"}
    BY <1>0, <1>2, <1>3
  <2>2. mgr'.actual[j] # "absent"
    BY <1>2, <1>3
  <2>3. ~Sends(mgr, mgr', d)
    BY <1>0, <2>1, <2>2 DEF SentWithCause
  <2>4. StopHeld(d)
    BY <1>0, <1>3, <2>3 DEF SentWithCause, StopHeld
  <2>5. StartHeld(j)' /\ ~StartHeld(j)
    BY <1>1, <1>3, <2>4
  <2>6. Sends(mgr, mgr', j) /\ mgr'.inFlight[j].kind = "start"
    BY <1>2, <2>5 DEF SentWithCause, StartHeld
  <2>7. mgr'.actual[d] = "running"
    BY <2>6 DEF SentWithCause
  <2>8. QED
    BY <2>1, <2>7
<1>4. QED
  BY <1>1, <1>3

\* The bridge starts an instance once its dependencies run, and a dependent is
\* absent while one of them is not running or is to be stopped.
LEMMA InstanceSupports ==
  ASSUME PyTypeOK, Calm, Supported, NEW k \in Keys, NEW state, Becomes(k, state),
         \A j \in Keys : Held(j)' \subseteq Held(j),
         state # "absent" /\ instances[k] = "absent" =>
           StartHeld(k) /\ \A d \in Deps[k] : instances[d] = "running",
         state # "running" => instances[k] # "running" \/ StopHeld(k)
  PROVE  Supported'
<1> SUFFICES ASSUME NEW j \in Keys, NEW d \in Deps[j]
             PROVE  /\ instances'[j] # "absent" => instances'[d] = "running"
                    /\ instances'[j] # "absent" \/ StartHeld(j)' => ~StopHeld(d)'
  BY DEF Supported
<1>0. d \in Keys
  BY DepsAssumption
<1>1. /\ instances[j] # "absent" => instances[d] = "running"
      /\ instances[j] # "absent" \/ StartHeld(j) => ~StopHeld(d)
  BY DEF Supported
<1>2. /\ instances'[k] = state /\ \A h \in Keys \ {k} : instances'[h] = instances[h]
      /\ \A h \in Keys : (StartHeld(h)' => StartHeld(h)) /\ (StopHeld(h)' => StopHeld(h))
  BY DEF Becomes, PyTypeOK, StartHeld, StopHeld
<1>3. instances'[j] # "absent" =>
        instances[d] = "running" /\ (instances[j] # "absent" \/ StartHeld(j))
  BY <1>1, <1>2
<1>4. instances'[j] # "absent" => instances'[d] = "running"
  <2>1. CASE d # k
    BY <1>0, <1>2, <1>3, <2>1
  <2>2. CASE d = k
    BY <1>1, <1>2, <1>3, <2>2
  <2>3. QED
    BY <2>1, <2>2
<1>5. QED
  BY <1>0, <1>1, <1>2, <1>3, <1>4

LEMMA BridgeSupports ==
  ASSUME TypeOK, InTime, Calm, WorkerOwnsTransitions, Supported, BridgeStep
  PROVE  Supported'
<1>0. PyTypeOK /\ OneEach
  BY DEF TypeOK, InTime
<1>1. PICK k \in Keys : MovesOnly(k)
  BY <1>0, BridgeMoves
<1>2. \A j \in Keys : Held(j)' \subseteq Held(j)
  BY <1>1 DEF MovesOnly, Frame, Same, Held, Waiting
<1>3. ASSUME instances' = instances PROVE Supported'
  <2> SUFFICES ASSUME NEW j \in Keys, NEW d \in Deps[j]
               PROVE  /\ instances'[j] # "absent" => instances'[d] = "running"
                      /\ instances'[j] # "absent" \/ StartHeld(j)' => ~StopHeld(d)'
    BY DEF Supported
  <2>1. d \in Keys
    BY DepsAssumption
  <2>2. /\ instances[j] # "absent" => instances[d] = "running"
        /\ instances[j] # "absent" \/ StartHeld(j) => ~StopHeld(d)
    BY DEF Supported
  <2>3. \A h \in Keys : (StartHeld(h)' => StartHeld(h)) /\ (StopHeld(h)' => StopHeld(h))
    BY <1>2 DEF StartHeld, StopHeld
  <2>4. QED
    BY <1>3, <2>1, <2>2, <2>3
<1>4. ASSUME NEW h \in Keys, WorkerStep(h) PROVE Supported'
  <2>1. /\ task[h].type \in {"start-driver", "stop-driver"} => task[h] \in Held(h)
        /\ \A type : Runs(h, type) => \E r \in Held(h) : r.type = type
    BY DEF Runs, Held, Waiting, InTask, Idle
  <2>2. CASE StartBegins(h)
    BY <1>0, <1>2, <2>1, <2>2, StartBeginsDoes, InstanceSupports DEF StartHeld
  <2>3. CASE StopBegins(h)
    BY <1>0, <1>2, <2>1, <2>3, StopBeginsDoes, InstanceSupports DEF StopHeld
  <2>4. CASE StartSucceeds(h) \/ StartFails(h)
    BY <1>0, <1>2, <2>4, InstanceSupports DEF StartSucceeds, StartFails, Becomes
  <2>5. CASE StopSucceeds(h) \/ StopTimesOut(h)
    <3>1. task[h].type = "stop-driver" /\ StopHeld(h) /\ instances[h] = "stopping"
      BY <2>1, <2>5 DEF StopSucceeds, StopTimesOut, StopHeld, WorkerOwnsTransitions
    <3>2. Becomes(h, "absent") \/ Becomes(h, "errored")
      BY <2>5 DEF StopSucceeds, StopTimesOut, Becomes
    <3>3. QED
      BY <1>0, <1>2, <3>1, <3>2, InstanceSupports
  <2>6. CASE StartRepeated(h) \/ StartRefused(h) \/ StartReported(h) \/ StopAbsent(h)
    BY <1>3, <2>6 DEF StartRepeated, StartRefused, StartReported, StopAbsent
  <2>7. QED
    BY <1>4, <2>2, <2>3, <2>4, <2>5, <2>6 DEF WorkerStep
<1>5. QED
  BY <1>3, <1>4 DEF BridgeStep, ReadSubscribe, ReadLifecycle, PublishedPosted

LEMMA StepKeepsSupport ==
  ASSUME TypeOK, Quiet(mgr), Life, InTime, InTime', WorkerOwnsTransitions, Supported, [Next]_vars,
         Calm' /\ alive' /\ mgr'.bridgeReady => HoldingIsKnown'
  PROVE  Supported'
<1> SUFFICES ASSUME Calm' PROVE Supported'
  BY DEF Supported
<1>0. Calm /\ PyTypeOK
  BY CalmSince DEF TypeOK
<1>1. CASE ~alive'
  <2>1. \A k \in Keys : Held(k)' = {} /\ instances'[k] = "absent"
    BY <1>1 DEF InTime, Dead
  <2>2. QED
    BY <2>1, DepsAssumption DEF Supported, StartHeld, StopHeld
<1>2. ASSUME UNCHANGED <<instances, stdin, queue, task>> PROVE Supported'
  BY <1>0, <1>2 DEF Supported, StartHeld, StopHeld, Held, Waiting, InStdin, InQueue, InTask
<1>3. CASE StopManager \/ HandleExit \/ ManagerStopped \/ BridgeGivenUp
  BY <1>2, <1>3 DEF StopManager, HandleExit, ManagerStopped, BridgeGivenUp, pyVars
<1>4. CASE StartBridge
  <2>1. /\ stdin' = <<>> /\ queue' = NoQueue /\ task' = NoTask /\ instances' = NoInstances
    BY <1>4 DEF StartBridge, Spawn, ResetProcess
  <2>2. \A k \in Keys : Held(k)' = {} /\ instances'[k] = "absent"
    BY <2>1, EmptyFacts DEF Held, Waiting, InStdin, InQueue, InTask, NoQueue, NoTask, NoInstances
  <2>3. QED
    BY <2>2, DepsAssumption DEF Supported, StartHeld, StopHeld
<1>5. CASE ProcessExits
  BY <1>1, <1>5 DEF ProcessExits, Exit
<1>6. CASE PythonStep
  BY <1>0, <1>6, BridgeSupports DEF PythonStep
<1>7. CASE (NodeHandles \/ BridgeReady) /\ alive' /\ mgr'.bridgeReady
  <2>1. instances' = instances
    BY <1>7 DEF NodeHandles, Passes, Idles, HandleLine, Resume, BridgeReady, UNCHANGED_PY
  <2>2. \A k \in Keys : SentWithCause(k)
    BY <1>7, HandledSends
  <2>3. QED
    BY <1>0, <1>7, <2>1, <2>2, HandledSupports
<1>8. CASE NodeHandles /\ ~mgr'.bridgeReady /\ ~BridgeEvent
  <2>1. ~mgr.bridgeReady
    BY <1>8, ActiveOrStopping
  <2>2. stdin' = stdin
    BY <1>8, <2>1, HandledQuietly
  <2>3. UNCHANGED <<instances, queue, task>>
    BY <1>8 DEF NodeHandles, Passes, Idles, HandleLine, Resume, UNCHANGED_PY
  <2>4. QED
    BY <1>2, <2>2, <2>3
<1>9. BridgeReady => mgr'.bridgeReady
  BY BridgeEvents
<1>10. QED
  BY <1>1, <1>3, <1>4, <1>5, <1>6, <1>7, <1>8, <1>9, StepIs, CalmSince DEF BridgeEvent

-----------------------------------------------------------------------------
(* No pass is forgotten.                                                     *)

LEMMA SameManager ==
  ASSUME NEW m \in Managers, NEW n \in Managers,
         n.leases = m.leases, n.newer = m.newer, n.actual = m.actual,
         n.subscriptions = m.subscriptions, n.startErrors = m.startErrors,
         n.failedSubscriptions = m.failedSubscriptions, n.stopRetries = m.stopRetries,
         n.inFlight = m.inFlight, n.bridgeReady = m.bridgeReady, n.active = m.active
  PROVE  n = m
BY Z3 DEF Managers

LEMMA PassErrors ==
  ASSUME NEW m \in Managers, NEW id \in Nat, m.bridgeReady
  PROVE  Kick(m, id).startErrors = m.startErrors \intersect Desired(m)
BY DEF Kick, Managers

\* A pass that finds nothing to do changes nothing.
LEMMA PassIsStill ==
  ASSUME NEW m \in Managers, NEW id \in Nat, m.bridgeReady,
         m.startErrors \subseteq Desired(m), \A k \in Keys : PassLeaves(m, Kick(m, id), k)
  PROVE  Kick(m, id) = m
<1>1. PICK n : n = Kick(m, id)
  OBVIOUS
<1>2. /\ n.subscriptions = m.subscriptions /\ n.leases = m.leases /\ n.newer = m.newer
      /\ n.failedSubscriptions = m.failedSubscriptions /\ n.stopRetries = m.stopRetries
      /\ n.active = m.active /\ n.bridgeReady = m.bridgeReady
  <2>1. Kick(m, id).subscriptions = m.subscriptions /\ Kick(m, id).leases = m.leases
        /\ Kick(m, id).newer = m.newer
        /\ Kick(m, id).failedSubscriptions = m.failedSubscriptions
        /\ Kick(m, id).stopRetries = m.stopRetries
        /\ Kick(m, id).active = m.active /\ Kick(m, id).bridgeReady = m.bridgeReady
    BY KickDoes
  <2>2. QED
    BY <1>1, <2>1
<1>3. n.startErrors = m.startErrors
  BY <1>1, PassErrors
<1>4. n \in Managers
  BY <1>1, KickTypes
<1>5. n.inFlight = m.inFlight /\ n.actual = m.actual
  <2>1. \A k \in Keys : n.inFlight[k] = m.inFlight[k] /\ n.actual[k] = m.actual[k]
    BY <1>1 DEF PassLeaves
  <2>2. QED
    BY <1>4, <2>1 DEF Managers
<1>6. n = m
  BY <1>2, <1>3, <1>4, <1>5, SameManager
<1>7. QED
  BY <1>1, <1>6

\* A pass that left nothing in flight leaves nothing to the next one.
LEMMA PassSettles ==
  ASSUME NEW m \in Managers, NEW id \in Nat, NEW later \in Nat,
         \A k \in Keys : ~Busy(Kick(m, id), k)
  PROVE  Kick(Kick(m, id), later) = Kick(m, id)
<1>1. PICK n : n = Kick(m, id)
  OBVIOUS
<1>2. n \in Managers
  BY <1>1, KickTypes
<1>3. CASE ~m.bridgeReady
  BY <1>1, <1>2, <1>3, KickKeeps
<1>4. CASE m.bridgeReady
  <2>1. /\ n.subscriptions = m.subscriptions /\ n.leases = m.leases
        /\ n.failedSubscriptions = m.failedSubscriptions /\ n.stopRetries = m.stopRetries
        /\ n.startErrors = m.startErrors \intersect Desired(m) /\ n.bridgeReady
    <3>1. Kick(m, id).subscriptions = m.subscriptions /\ Kick(m, id).leases = m.leases
          /\ Kick(m, id).failedSubscriptions = m.failedSubscriptions
          /\ Kick(m, id).stopRetries = m.stopRetries
          /\ Kick(m, id).bridgeReady = m.bridgeReady
      BY KickDoes
    <3>2. Kick(m, id).startErrors = m.startErrors \intersect Desired(m)
      BY <1>4, PassErrors
    <3>3. QED
      BY <1>1, <1>4, <3>1, <3>2
  <2>2. \A k \in Keys : PassLeaves(m, n, k)
    <3> SUFFICES ASSUME NEW k \in Keys PROVE PassLeaves(m, n, k)
      OBVIOUS
    <3>1. \/ n.inFlight[k] = m.inFlight[k]
          \/ ~Busy(m, k) /\ Fresh(n.inFlight[k], id)
      BY <1>1, KickTurns
    <3>2. n.inFlight[k] = m.inFlight[k] /\ ~Busy(m, k)
      BY <1>1, <3>1, OperationsAreBusy DEF Fresh, Busy
    <3>3. /\ \A kind \in {"start", "stop"} : Lifecycle(m, kind, id) \in Operations
          /\ MustSync(m, k) => Sync(m, SubscriptionChanges(m, k), id) \in Operations
      BY LifecycleTypes, SyncTypes, SubscriptionChangesTypes DEF MustSync
    <3>4. ~PassStarts(m, n, k, id) /\ ~PassStops(m, n, k, id) /\ ~PassSyncs(m, n, k, id)
      BY <1>1, <3>3, OperationsAreBusy DEF PassStarts, PassStops, PassSyncs, Busy
    <3>5. QED
      BY <1>1, <3>4, KickDoes
  <2>3. \A k \in Keys : n.inFlight[k] = m.inFlight[k] /\ n.actual[k] = m.actual[k]
                        /\ ~MustStart(m, k) /\ ~MustStop(m, k) /\ ~MustSync(m, k)
    BY <1>1, <1>4, <2>2 DEF PassLeaves, Busy
  <2>4. Desired(n) = Desired(m)
    BY <2>1 DEF Desired
  <2>5. \A k \in Keys : ~MustStart(n, k)
    BY <2>1, <2>3, <2>4, DepsAssumption DEF MustStart, Present
  <2>6. \A k \in Keys : ~MustStop(n, k)
    BY <2>1, <2>3, <2>4 DEF MustStop, Present, HasPresentDependents
  <2>7. \A k \in Keys : ~MustSync(n, k)
    <3>1. \A k \in Keys : SubscriptionChanges(n, k) = SubscriptionChanges(m, k)
      BY <2>1 DEF SubscriptionChanges
    <3>2. QED
      BY <2>3, <2>4, <3>1 DEF MustSync
  <2>8. \A k \in Keys : PassLeaves(n, Kick(n, later), k)
    BY <1>2, <2>5, <2>6, <2>7, KickDoes DEF PassStarts, PassStops, PassSyncs
  <2>9. n.startErrors \subseteq Desired(n)
    BY <2>1, <2>4
  <2>10. QED
    BY <1>1, <1>2, <2>1, <2>8, <2>9, PassIsStill
<1>5. QED
  BY <1>3, <1>4

\* Node's handlers leave something in flight or nothing to do.
LEMMA HandledWakes ==
  ASSUME TypeOK, Solo, Calm, alive, mgr.bridgeReady, \A k \in Keys : Believed(k),
         (\E k \in Keys : Busy(mgr, k)) \/ Kick(mgr, NextId) = mgr,
         NodeHandles, \A k \in Keys : ~Busy(mgr, k)', NEW id \in Nat
  PROVE  Kick(mgr', id) = mgr' \/ (mgr' = mgr /\ Kick(mgr, NextId) = mgr)
<1>0. mgr \in Managers /\ NextId \in Nat
  BY BoundsAssumption DEF TypeOK, NextId
<1>1. \A k \in Keys : mgr'.inFlight[k] = NoOperation
  BY DEF Busy
<1>2. ASSUME NEW m \in Managers, mgr' = Kick(m, NextId) PROVE Kick(mgr', id) = mgr'
  BY <1>0, <1>1, <1>2, PassSettles DEF Busy
<1>3. ASSUME mgr' = mgr PROVE Kick(mgr, NextId) = mgr
  BY <1>1, <1>3 DEF Busy
<1>4. CASE Passes \/ Idles
  BY <1>2, <1>3, <1>4 DEF Passes, Idles, SameBeliefs, Reconcile, Update
<1>5. CASE HandleLine
  <2>1. PICK line : line = Head(stdout)
    OBVIOUS
  <2>2. PICK j : j = line.key
    OBVIOUS
  <2>3. PyTypeOK /\ stdout # <<>>
    BY <1>5 DEF TypeOK, HandleLine
  <2>4. /\ line \in BridgeResponses /\ j \in Keys
    BY <2>1, <2>2, <2>3, ResponseTypes DEF PyTypeOK
  <2>5. CASE mgr' = mgr
    BY <1>3, <2>5
  <2>6. CASE \E ok \in {"ok", "error"} : mgr' = Noted(j, ok) /\ Awaits(mgr, j)
    <3>1. PICK ok \in {"ok", "error"} : mgr' = Noted(j, ok) /\ Awaits(mgr, j)
      BY <2>6
    <3>2. Busy(Noted(j, ok), j)
      BY <1>0, <2>4, <3>1, NotedDoes
    <3>3. QED
      BY <1>1, <2>4, <3>1, <3>2 DEF Busy
  <2>7. CASE line.type = "driver-state"
    <3>1. PICK m : m = ReportState(mgr, j, line.state)
      OBVIOUS
    <3>2. m \in Managers /\ m.inFlight = mgr.inFlight
      <4>1. line.state \in DriverStates
        BY <2>4, <2>7, ResponseTypes DEF StateReports
      <4>2. QED
        BY <1>0, <2>4, <3>1, <4>1, ReportStateTypes, ReportKeeps DEF BeliefsOnly
    <3>3. mgr' = Kick(m, NextId) \/ mgr' = m
      BY <1>5, <2>1, <2>2, <2>7, <3>1 DEF HandleLine, Reconcile, Update
    <3>4. Reports(j) # {}
      BY <2>1, <2>2, <2>3, <2>7, ResponseTypes DEF Reports, IsReport, Range
    <3>5. Waiting(j) \union InTask(j) \union Replies(j) # {} /\ Alone(j)
      BY <2>4, <3>4 DEF Believed, Agrees, Solo
    <3>6. Busy(mgr, j)
      BY <3>5 DEF Alone, Tokens, Held, Awaits
    <3>7. mgr' # m
      BY <1>1, <2>4, <3>2, <3>6 DEF Busy
    <3>8. QED
      BY <1>2, <3>2, <3>3, <3>7
  <2>8. QED
    BY <1>5, <2>1, <2>2, <2>5, <2>6, <2>7 DEF HandleLine, Answers, Noted
<1>6. ASSUME NEW k \in Keys, Resume(k) PROVE Kick(mgr', id) = mgr'
  <2>1. Busy(mgr, k) /\ mgr' = Proceed(mgr, k, NextId)
    BY <1>6 DEF Resume, Settled, Update
  <2>2. PICK op : op = mgr.inFlight[k]
    OBVIOUS
  <2>3. PICK n : n = Conclude(mgr, k)
    OBVIOUS
  <2>4. n \in Managers /\ op \in Operations
    BY <1>0, <2>1, <2>2, <2>3, ConcludeTypes DEF Busy, Managers
  <2>5. CASE op.live /\ op.kind = "sync" /\ op.todo # {}
    <3>1. mgr'.inFlight[k] = Sync(mgr, op.todo, NextId)
      BY <2>1, <2>2, <2>3, <2>4, <2>5 DEF Proceed, Managers
    <3>2. Sync(mgr, op.todo, NextId) \in Operations
      BY <1>0, <2>4, <2>5, SyncTypes, OperationsAreBusy
    <3>3. QED
      BY <1>1, <3>1, <3>2, OperationsAreBusy
  <2>6. CASE ~(op.live /\ op.kind = "sync" /\ op.todo # {})
    <3>1. PICK over : over = [n EXCEPT !.inFlight[k] = NoOperation]
      OBVIOUS
    <3>2. over \in Managers
      BY <2>4, <3>1 DEF Managers
    <3>3. mgr' = Kick(over, NextId)
      BY <2>1, <2>2, <2>3, <2>6, <3>1 DEF Proceed
    <3>4. QED
      BY <1>2, <3>2, <3>3
  <2>7. QED
    BY <2>5, <2>6
<1>7. QED
  BY <1>3, <1>4, <1>5, <1>6 DEF NodeHandles

LEMMA StepWakes ==
  ASSUME TypeOK, Life, Lives, Solo, Believing, Wakeful, [Next]_vars
  PROVE  Wakeful'
<1> SUFFICES ASSUME Calm', alive', bridge' = "up", \A k \in Keys : ~Busy(mgr, k)'
             PROVE  Kick(mgr', NextId') = mgr'
  BY DEF Wakeful
<1>0. Calm /\ mgr \in Managers /\ NextId \in Nat /\ NextId' = NextId
  BY CalmSince, BoundsAssumption DEF TypeOK, NextId
<1>1. CASE BridgeReady
  <2>1. PICK m : m = BridgeCame(mgr)
    OBVIOUS
  <2>2. m \in Managers /\ mgr' = Kick(m, NextId)
    BY <1>0, <1>1, <2>1, BridgeHandlersTypes DEF BridgeReady, Reconcile, Update
  <2>3. QED
    BY <1>0, <2>2, PassSettles DEF Busy
<1>2. ~HandleExit /\ ~ManagerStopped /\ ~BridgeGivenUp /\ ~StopManager /\ ~StartBridge /\ ~ProcessExits
  BY DEF HandleExit, ManagerStopped, BridgeGivenUp, StopManager, StartBridge, ProcessExits, Exit
<1>3. CASE PythonStep
  <2>1. BridgeStep /\ mgr' = mgr /\ bridge' = bridge
    BY <1>3 DEF PythonStep, nodeVars
  <2>2. alive
    BY <1>3 DEF PythonStep, BridgeStep, WorkerStep, ReadSubscribe, ReadLifecycle, PublishedPosted,
       StartBegins, StartRepeated, StartRefused, StartReported, StartSucceeds, StartFails,
       StopAbsent, StopBegins, StopSucceeds, StopTimesOut
  <2>3. QED
    BY <1>0, <2>1, <2>2 DEF Wakeful, Busy
<1>4. CASE NodeHandles /\ UNCHANGED <<bridge, timeouts, published>>
  <2>1. alive /\ bridge = "up"
    BY <1>4 DEF NodeHandles, Passes, Idles, HandleLine, Resume, UNCHANGED_PY
  <2>2. mgr.bridgeReady
    BY <2>1 DEF Life
  <2>3. \A k \in Keys : Believed(k)
    BY <1>0, <2>1, <2>2 DEF Believing
  <2>4. (\E k \in Keys : Busy(mgr, k)) \/ Kick(mgr, NextId) = mgr
    BY <1>0, <2>1 DEF Wakeful
  <2>5. QED
    BY <1>0, <1>4, <2>1, <2>2, <2>3, <2>4, HandledWakes
<1>5. QED
  BY <1>1, <1>2, <1>3, <1>4, StepIs, CalmSince DEF BridgeEvent

-----------------------------------------------------------------------------
(* No subscription fails while the bridge lives.                             *)

LEMMA ProceedFails ==
  ASSUME NEW m \in Managers, NEW k \in Keys, Busy(m, k), NEW id \in Nat
  PROVE  Proceed(m, k, id).failedSubscriptions = Conclude(m, k).failedSubscriptions
<1>1. PICK n : n = Conclude(m, k)
  OBVIOUS
<1>2. n \in Managers
  BY <1>1, ConcludeTypes
<1>3. PICK over : over = [n EXCEPT !.inFlight[k] = NoOperation]
  OBVIOUS
<1>4. PICK next : next = [n EXCEPT !.inFlight[k] = Sync(m, m.inFlight[k].todo, id)]
  OBVIOUS
<1>5. over \in Managers /\ over.failedSubscriptions = n.failedSubscriptions
      /\ next.failedSubscriptions = n.failedSubscriptions
  BY <1>2, <1>3, <1>4 DEF Managers
<1>6. Kick(over, id).failedSubscriptions = over.failedSubscriptions
  BY <1>5, KickDoes
<1>7. Proceed(m, k, id) = next \/ Proceed(m, k, id) = Kick(over, id)
  BY <1>1, <1>3, <1>4 DEF Proceed
<1>8. QED
  BY <1>1, <1>5, <1>6, <1>7

LEMMA PassFails ==
  ASSUME NEW m \in Managers, NEW id \in Nat
  PROVE  Kick(m, id).failedSubscriptions = m.failedSubscriptions
BY KickDoes

LEMMA HandledFails ==
  ASSUME TypeOK, Solo, Calm, alive, mgr.bridgeReady, mgr.active, Life,
         \A k \in Keys : Believed(k), NodeHandles
  PROVE  mgr'.failedSubscriptions \subseteq mgr.failedSubscriptions
<1>0. mgr \in Managers /\ NextId \in Nat
  BY BoundsAssumption DEF TypeOK, NextId
<1>1. ASSUME NEW m \in Managers
      PROVE  Kick(m, NextId).failedSubscriptions = m.failedSubscriptions
  BY <1>0, <1>1, PassFails
<1>2. CASE Passes \/ Idles
  BY <1>1, <1>2 DEF Passes, Idles, SameBeliefs, Reconcile, Update
<1>3. CASE HandleLine
  <2>1. PICK line : line = Head(stdout)
    OBVIOUS
  <2>2. PICK j : j = line.key
    OBVIOUS
  <2>3. PyTypeOK /\ stdout # <<>>
    BY <1>3 DEF TypeOK, HandleLine
  <2>4. line \in BridgeResponses /\ j \in Keys
    BY <2>1, <2>2, <2>3, ResponseTypes DEF PyTypeOK
  <2>5. CASE line.type = "result"
    <3>1. mgr' = mgr \/ \E ok \in {"ok", "error"} : mgr' = [mgr EXCEPT !.inFlight[j].result = ok]
      BY <1>3, <2>1, <2>2, <2>5 DEF HandleLine
    <3>2. QED
      BY <1>0, <3>1 DEF Managers
  <2>6. CASE line.type = "driver-state"
    <3>1. line.state \in DriverStates
      BY <2>4, <2>6, ResponseTypes DEF StateReports
    <3>2. PICK m : m = ReportState(mgr, j, line.state)
      OBVIOUS
    <3>3. m \in Managers /\ m.failedSubscriptions = mgr.failedSubscriptions
      BY <1>0, <2>4, <3>1, <3>2, ReportStateTypes, ReportKeeps DEF BeliefsOnly
    <3>4. mgr' = Kick(m, NextId) \/ mgr' = m
      BY <1>3, <2>1, <2>2, <2>6, <3>2 DEF HandleLine, Reconcile, Update
    <3>5. QED
      BY <1>1, <3>3, <3>4
  <2>7. QED
    BY <1>3, <2>1, <2>5, <2>6 DEF HandleLine
<1>4. ASSUME NEW k \in Keys, Resume(k)
      PROVE  mgr'.failedSubscriptions \subseteq mgr.failedSubscriptions
  <2>1. /\ Busy(mgr, k) /\ mgr.inFlight[k].result # "none"
        /\ mgr' = Proceed(mgr, k, NextId)
    BY <1>4 DEF Resume, Settled, Update
  <2>2. mgr.inFlight[k].live /\ mgr.inFlight[k].result \in {"ok", "error"}
    <3>1. mgr.inFlight[k] \in Operations
      BY <1>0, <2>1 DEF Busy, Managers
    <3>2. mgr.inFlight[k].result \in Outcomes
      BY <3>1, OperationsAreBusy
    <3>3. QED
      BY <2>1, <3>2 DEF Life, Outcomes
  <2>3. Believed(k) /\ Alone(k)
    BY DEF Solo
  <2>4. Waiting(k) = {} /\ InTask(k) = {} /\ Replies(k) = {}
    BY <2>1, <2>3 DEF Alone, Tokens, Held, Awaits
  <2>5. Agrees(mgr, k, instances[k], Ext(k), {}, {}, {}, {})
    BY <2>3, <2>4 DEF Believed, Agrees
  <2>6. Conclude(mgr, k).failedSubscriptions = mgr.failedSubscriptions
    BY <1>0, <2>1, <2>2, <2>5, ConcludeAgrees
  <2>7. QED
    BY <1>0, <2>1, <2>6, ProceedFails
<1>5. QED
  BY <1>2, <1>3, <1>4 DEF NodeHandles

LEMMA StepKeepsSubscribing ==
  ASSUME TypeOK, Quiet(mgr), Life, Lives, Solo, Believing, NoneFailed, [Next]_vars
  PROVE  NoneFailed'
<1> SUFFICES ASSUME Calm', alive', bridge' = "up" PROVE mgr'.failedSubscriptions = {}
  BY DEF NoneFailed
<1>0. Calm /\ mgr \in Managers /\ NextId \in Nat
  BY CalmSince, BoundsAssumption DEF TypeOK, NextId
<1>1. CASE BridgeReady
  <2>1. PICK m : m = BridgeCame(mgr)
    OBVIOUS
  <2>2. m \in Managers /\ mgr' = Kick(m, NextId)
    BY <1>0, <1>1, <2>1, BridgeHandlersTypes DEF BridgeReady, Reconcile, Update
  <2>3. m.failedSubscriptions = mgr.failedSubscriptions
    BY <1>0, <2>1 DEF BridgeCame, Managers
  <2>4. mgr.failedSubscriptions = {}
    BY <1>1 DEF BridgeReady, Life, Quiet
  <2>5. Kick(m, NextId).failedSubscriptions = m.failedSubscriptions
    BY <1>0, <2>2, KickDoes
  <2>6. QED
    BY <2>2, <2>3, <2>4, <2>5
<1>2. ~HandleExit /\ ~ManagerStopped /\ ~BridgeGivenUp /\ ~StopManager /\ ~StartBridge /\ ~ProcessExits
  BY DEF HandleExit, ManagerStopped, BridgeGivenUp, StopManager, StartBridge, ProcessExits, Exit
<1>3. CASE PythonStep
  <2>1. BridgeStep /\ mgr' = mgr /\ bridge' = bridge
    BY <1>3 DEF PythonStep, nodeVars
  <2>2. alive
    BY <1>3 DEF PythonStep, BridgeStep, WorkerStep, ReadSubscribe, ReadLifecycle, PublishedPosted,
       StartBegins, StartRepeated, StartRefused, StartReported, StartSucceeds, StartFails,
       StopAbsent, StopBegins, StopSucceeds, StopTimesOut
  <2>3. QED
    BY <1>0, <2>1, <2>2 DEF NoneFailed
<1>4. CASE NodeHandles /\ UNCHANGED <<bridge, timeouts, published>>
  <2>1. alive /\ bridge = "up"
    BY <1>4 DEF NodeHandles, Passes, Idles, HandleLine, Resume, UNCHANGED_PY
  <2>2. mgr.bridgeReady /\ mgr.active
    BY <2>1 DEF Life
  <2>3. \A k \in Keys : Believed(k)
    BY <1>0, <2>1, <2>2 DEF Believing
  <2>4. mgr.failedSubscriptions = {}
    BY <1>0, <2>1 DEF NoneFailed
  <2>5. QED
    BY <1>0, <1>4, <2>1, <2>2, <2>3, <2>4, HandledFails
<1>5. QED
  BY <1>1, <1>2, <1>3, <1>4, StepIs, CalmSince DEF BridgeEvent

-----------------------------------------------------------------------------
(* The invariant: what holds of every state, and what holds of calm ones.    *)

Sound == TypeOK /\ Quiet(mgr) /\ Lives /\ Life /\ InTime /\ WorkerOwnsTransitions
Faithful == Ordered /\ Believing /\ Supported /\ Wakeful /\ NoneFailed

LEMMA InitiallyFaithful == Init => Life /\ Quiet(mgr) /\ Lives /\ Faithful
<1> SUFFICES ASSUME Init PROVE Life /\ Quiet(mgr) /\ Lives /\ Faithful
  OBVIOUS
<1>1. /\ stdin = <<>> /\ stdout = <<>> /\ queue = NoQueue /\ task = NoTask /\ alive = FALSE
      /\ instances = NoInstances /\ external = {} /\ unposted = {}
  BY DEF Init, PyInit
<1>2. /\ bridge = "down" /\ \A c \in Calls : call[c] = "idle"
      /\ mgr.active = TRUE /\ mgr.bridgeReady = FALSE /\ mgr.startErrors = {}
      /\ mgr.failedSubscriptions = {} /\ mgr.subscriptions = {}
      /\ \A k \in Keys : mgr.stopRetries[k] = "none" /\ mgr.inFlight[k] = NoOperation
  BY DEF Init, InitialManager
<1>3. Life /\ Quiet(mgr) /\ Lives
  BY <1>1, <1>2 DEF Life, Quiet, Lives, Awaits, Busy
<1>4. \A k \in Keys : Held(k) = {} /\ instances[k] = "absent"
  BY <1>1, EmptyFacts DEF Held, Waiting, InStdin, InQueue, InTask, NoQueue, NoTask, NoInstances
<1>5. Supported
  BY <1>4, DepsAssumption DEF Supported, StartHeld, StopHeld
<1>6. Ordered /\ Believing /\ Wakeful /\ NoneFailed
  BY <1>1, EmptyFacts DEF Ordered, Believing, Wakeful, NoneFailed
<1>7. QED
  BY <1>3, <1>5, <1>6 DEF Faithful

LEMMA AlwaysSound == Spec => []Sound
<1>1. TypeOK /\ Quiet(mgr) /\ Lives /\ Life /\ [Next]_vars => Life'
  BY StepKeepsLife
<1>2. Spec => []TypeOK /\ [][Next]_vars /\ Init
  BY SystemTypes, PTL DEF Spec
<1>3. QED
  BY <1>1, <1>2, InitiallyFaithful, StepStaysQuiet, StepKeepsLiving, AlwaysInTime,
     TransitionsAreOwnedInTheSystem, PTL DEF Sound

LEMMA StepKeepsFaith == Sound /\ Sound' /\ Faithful /\ [Next]_vars => Faithful'
<1> SUFFICES ASSUME Sound, Sound', Faithful, [Next]_vars PROVE Faithful'
  OBVIOUS
<1>1. TypeOK /\ Quiet(mgr) /\ Lives /\ Life /\ InTime /\ WorkerOwnsTransitions
  BY DEF Sound
<1>2. TypeOK' /\ InTime'
  BY DEF Sound
<1>3. Ordered /\ Believing /\ Supported /\ Wakeful /\ NoneFailed
  BY DEF Faithful
<1>4. Solo
  BY <1>1, InTimeIsSolo
<1>5. Solo'
  <2>1. (TypeOK /\ InTime => Solo)'
    BY InTimeIsSolo, PTL
  <2>2. QED
    BY <1>2, <2>1
<1>6. Ordered'
  BY <1>1, <1>3, <1>4, StepKeepsOrder
<1>7. Believing'
  BY <1>1, <1>3, <1>4, <1>5, StepKeepsBelieving
<1>8. Supported'
  <2>1. (TypeOK /\ Solo /\ Calm /\ alive /\ AllBelieved => HoldingIsKnown)'
    BY HeldBelieved, PTL
  <2>2. Calm' /\ alive' /\ mgr'.bridgeReady => AllBelieved'
    BY <1>7 DEF Believing, AllBelieved
  <2>3. Calm' /\ alive' /\ mgr'.bridgeReady => HoldingIsKnown'
    BY <1>2, <1>5, <2>1, <2>2
  <2>4. QED
    BY <1>1, <1>2, <1>3, <2>3, StepKeepsSupport
<1>9. Wakeful'
  BY <1>1, <1>3, <1>4, StepWakes
<1>10. NoneFailed'
  BY <1>1, <1>3, <1>4, StepKeepsSubscribing
<1>11. QED
  BY <1>6, <1>7, <1>8, <1>9, <1>10 DEF Faithful

LEMMA AlwaysFaithful == Spec => [](Sound /\ Faithful)
BY AlwaysSound, InitiallyFaithful, StepKeepsFaith, PTL DEF Spec

\* While no request times out and no driver changes its state on its own, what the
\* manager believes of an instance nothing is under way for is what the bridge
\* runs, across restarts of the bridge (manager.ts:501-559, 689-742).
THEOREM BeliefsHold == Spec => [](Calm => BeliefsAreTrue)
<1>1. Sound /\ Faithful => (Calm => BeliefsAreTrue)
  <2> SUFFICES ASSUME Sound, Faithful, Calm, NEW k \in Keys, NothingUnderWay(k)
               PROVE  /\ mgr.actual[k] = instances[k]
                      /\ \A e \in Events : <<k, e>> \in mgr.subscriptions <=> <<k, e>> \in external
    BY DEF BeliefsAreTrue
  <2>1. bridge = "up" /\ alive /\ ~Busy(mgr, k)
    BY DEF NothingUnderWay
  <2>2. mgr.bridgeReady /\ mgr.active
    BY <2>1 DEF Sound, Life
  <2>3. AtPeace(mgr, k, instances[k], Ext(k))
    BY <2>1, <2>2 DEF Faithful, Believing, Believed, Agrees
  <2>4. QED
    BY <2>2, <2>3 DEF AtPeace, Ext, Subs
<1>2. QED
  BY <1>1, AlwaysFaithful, PTL

\* Under the same condition nothing of an instance exists without its dependencies:
\* they start first and stop last (manager.ts:24), a bridge that dies and
\* late replies included.
THEOREM DependenciesHold == Spec => [](Calm => DependenciesRun)
<1>1. Sound /\ Faithful => (Calm => DependenciesRun)
  BY DEF Faithful, Supported, DependenciesRun
<1>2. QED
  BY <1>1, AlwaysFaithful, PTL

\* No handler that changes what a plan depends on forgets the pass that would act on
\* it (`kick` is called by hand, manager.ts:361-559): at rest another pass would
\* change nothing.
THEOREM NothingForgotten == Spec => [](Calm => NoLostWakeup)
<1>1. Sound /\ Faithful => (Calm => NoLostWakeup)
  <2> SUFFICES ASSUME Sound, Faithful, Calm, AtRest PROVE Kick(mgr, NextId) = mgr
    BY DEF NoLostWakeup
  <2>0. mgr \in Managers /\ NextId \in Nat
    BY BoundsAssumption DEF Sound, TypeOK, NextId
  <2>1. CASE Keys = {}
    <3>1. mgr.startErrors = {} /\ mgr.bridgeReady \in BOOLEAN
      BY <2>0, <2>1 DEF Managers
    <3>2. CASE mgr.bridgeReady
      BY <2>0, <2>1, <3>1, <3>2, PassIsStill
    <3>3. CASE ~mgr.bridgeReady
      BY <2>0, <3>3, KickKeeps
    <3>4. QED
      BY <3>1, <3>2, <3>3
  <2>2. CASE Keys # {}
    <3>1. /\ bridge = "up" /\ alive /\ \A k \in Keys : ~Busy(mgr, k)
      BY <2>2 DEF AtRest, NothingUnderWay
    <3>2. QED
      BY <3>1 DEF Faithful, Wakeful
  <2>3. QED
    BY <2>1, <2>2
<1>2. QED
  BY <1>1, AlwaysFaithful, PTL

\* Only the end of `subscribe` itself turns a settling call into a finished one.
LEMMA OnlySettleReturns ==
  ASSUME TypeOK, [Next]_vars, NEW c \in Calls, call[c] = "settling", call'[c] = "idle"
  PROVE  Settle(c)
<1>0. call \in [Calls -> CallStates]
  BY DEF TypeOK
<1>1. CASE ClientStep
  BY <1>0, <1>1 DEF ClientStep, Subscribe, Unsubscribe, Disconnect
<1>2. CASE \E d \in Calls : Wake(d) \/ WaitTimesOut(d)
  BY <1>0, <1>2 DEF Wake, WaitTimesOut
<1>3. CASE \E d \in Calls : Settle(d)
  <2>1. PICK d \in Calls : Settle(d)
    BY <1>3
  <2>2. \E state : call' = [call EXCEPT ![d] = state]
    BY <2>1 DEF Settle
  <2>3. d = c
    BY <1>0, <2>2
  <2>4. QED
    BY <2>1, <2>3
<1>4. CASE BridgeReady
  BY <1>0, <1>4 DEF BridgeReady
<1>5. CASE StopManager
  BY <1>0, <1>5 DEF StopManager
<1>6. call' # call
  BY <1>0
<1>7. ~PythonStep /\ ~HandleLine /\ \A k \in Keys : ~Resume(k) /\ ~StopRetryFires(k)
  BY <1>6 DEF PythonStep, HandleLine, Resume, StopRetryFires, nodeVars
<1>8. ~StartBridge /\ ~HandleExit /\ ~ManagerStopped /\ ~ProcessExits /\ ~BridgeGivenUp
      /\ \A k \in Keys : ~RequestTimesOut(k) /\ \A state : ~DriverReports(k, state)
  BY <1>6 DEF StartBridge, HandleExit, ManagerStopped, ProcessExits, BridgeGivenUp,
       RequestTimesOut, DriverReports, nodeVars
<1>9. ~UNCHANGED vars
  BY <1>6 DEF vars, nodeVars
<1>10. QED
  BY <1>1, <1>2, <1>3, <1>4, <1>5, <1>7, <1>8, <1>9 DEF Next, NodeStep, Mishap

\* While nothing times out and no driver speaks for itself, a `subscribe` that
\* returns with its lease leaves the client subscribed to a driver that runs with
\* everything it depends on (manager.ts:323-359), unless the process just died.
THEOREM SubscribedRuns == Spec /\ []Calm => SubscribedMeansRunning
<1>1. ASSUME Sound, Faithful, Calm, [Next]_vars, NEW c \in Calls,
             call[c] = "settling", call'[c] = "idle", c \in mgr'.leases, alive
      PROVE  Serves(c)
  <2>0. mgr \in Managers /\ NextId \in Nat /\ TypeOK
    BY <1>1, BoundsAssumption DEF Sound, TypeOK, NextId
  <2>1. Settle(c)
    BY <1>1, <2>0, OnlySettleReturns
  <2>2. c \notin DropLeases(mgr, {c}).leases /\ DropLeases(mgr, {c}) \in Managers
    BY <2>0, DropLeasesTypes DEF DropLeases, Managers
  <2>3. c \notin Kick(DropLeases(mgr, {c}), NextId).leases
    BY <2>0, <2>2, KickKeeps
  <2>4. call'[c] # "rewaiting"
    BY <1>1
  <2>5. /\ mgr.bridgeReady /\ LeaseServed(mgr, c) /\ mgr' = mgr
        /\ \A k \in Closure[CallKey[c]] : ~Busy(mgr, k)
    BY <1>1, <2>0, <2>1, <2>2, <2>3, <2>4 DEF Settle, MaySettle, Reconcile, Update, TypeOK
  <2>6. /\ \A k \in Closure[CallKey[c]] : mgr.actual[k] = "running"
        /\ CallSub(c) \in mgr.subscriptions
    BY <1>1, <2>5 DEF LeaseServed
  <2>7. \A k \in Closure[CallKey[c]] : k \in Keys /\ AtPeace(mgr, k, instances[k], Ext(k))
    <3>1. \A k \in Closure[CallKey[c]] : k \in Keys
      BY CallTypes, ClosureTypes
    <3>2. QED
      BY <1>1, <2>5, <3>1 DEF Faithful, Believing, Believed, Agrees
  <2>8. \A k \in Closure[CallKey[c]] : instances[k] = "running"
    BY <2>6, <2>7 DEF AtPeace
  <2>9. CallSub(c) \in external
    <3>1. CallKey[c] \in Closure[CallKey[c]] /\ CallKey[c] \in Keys /\ CallEvent[c] \in Events
      BY CallTypes, CallsAssumption DEF Closure
    <3>2. Ext(CallKey[c]) = Subs(mgr, CallKey[c])
      BY <2>7, <3>1 DEF AtPeace
    <3>3. CallEvent[c] \in Subs(mgr, CallKey[c])
      BY <2>6, <3>1 DEF Subs, CallSub
    <3>4. QED
      BY <3>2, <3>3 DEF Ext, CallSub
  <2>10. QED
    BY <2>8, <2>9 DEF Serves
<1>2. Sound /\ Faithful /\ Calm /\ [Next]_vars =>
        [\A c \in Calls :
           call[c] = "settling" /\ call'[c] = "idle" /\ c \in mgr'.leases /\ alive
             => Serves(c)]_vars
  BY <1>1
<1>3. QED
  BY <1>2, AlwaysFaithful, PTL DEF Spec, SubscribedMeansRunning

-----------------------------------------------------------------------------
(* Instances that depend on themselves.  The manager does not refuse them: it *)
(* only guards its walks (manager.ts:746-790).  What is in a circle of        *)
(* dependencies, each waiting for the next, never starts, and a `subscribe`   *)
(* that needs it keeps no lease.                                              *)

Circular(S) == S \subseteq Keys /\ \A k \in S : \E d \in Deps[k] : d \in S
Stuck == UNION {S \in SUBSET Keys : Circular(S)}
Unstarted ==
  Calm => \A k \in Stuck : mgr.actual[k] = "absent" /\ ~Busy(mgr, k) /\ Reports(k) = {}
Grounded ==
  /\ \A c \in Calls : call[c] = "waiting" => c \notin mgr.leases
  /\ Calm => \A c \in mgr.leases : call[c] = "idle" => Closure[CallKey[c]] \intersect Stuck = {}

LEMMA StuckIsCircular == Circular(Stuck)
BY DEF Stuck, Circular

\* What waits for itself is never started by a pass, nor touched otherwise.
LEMMA PassLeavesStuck ==
  ASSUME NEW m \in Managers, NEW id \in Nat,
         \A k \in Stuck : m.actual[k] = "absent" /\ ~Busy(m, k)
  PROVE  LET n == Kick(m, id)
         IN  \A k \in Stuck : n.actual[k] = "absent" /\ ~Busy(n, k)
<1>1. PICK n : n = Kick(m, id)
  OBVIOUS
<1>2. ASSUME NEW k \in Stuck PROVE n.actual[k] = "absent" /\ ~Busy(n, k)
  <2>1. k \in Keys /\ \E d \in Deps[k] : d \in Stuck
    BY StuckIsCircular DEF Circular
  <2>2. ~MustStart(m, k)
    BY <2>1 DEF MustStart
  <2>3. ~MustStop(m, k) /\ ~MustSync(m, k)
    BY DEF MustStop, MustSync, Present
  <2>4. PassLeaves(m, n, k)
    BY <1>1, <2>1, <2>2, <2>3, KickDoes DEF PassStarts, PassStops, PassSyncs
  <2>5. QED
    BY <2>4 DEF PassLeaves, Busy
<1>3. QED
  BY <1>1, <1>2

\* A worker works on a request it holds.
LEMMA WorkerHolds ==
  ASSUME PyTypeOK, NEW k \in Keys, WorkerStep(k)
  PROVE  Held(k) # {}
<1>1. queue[k] \in Seq(LifecycleRequests)
  BY DEF PyTypeOK
<1>2. queue[k] # <<>> => Head(queue[k]) \in InQueue(k)
  BY <1>1, HeadTailProperties DEF InQueue, Range
<1>3. task[k].type \in {"start-driver", "stop-driver"} => task[k] \in InTask(k)
  BY DEF InTask, Idle
<1>4. queue[k] # <<>> \/ task[k].type \in {"start-driver", "stop-driver"}
  BY DEF WorkerStep, Takes, StartBegins, StartRepeated, StartRefused, StartSucceeds, StartReported,
     StartFails, StopAbsent, StopBegins, StopSucceeds, StopTimesOut
<1>5. QED
  BY <1>2, <1>3, <1>4 DEF Held, Waiting

LEMMA UnheldReportsNothing ==
  ASSUME PyTypeOK, OneEach, unposted = {}, BridgeStep, NEW k \in Keys, Held(k) = {}
  PROVE  Reports(k)' = Reports(k)
<1>1. \A j \in Keys : MovesOnly(j) /\ k # j => Reports(k)' = Reports(k)
  BY DEF MovesOnly, Frame, Same
<1>2. CASE ReadSubscribe
  BY <1>1, <1>2, ReadSubscribeDoes
<1>3. CASE ReadLifecycle
  BY <1>3, ReadLifecycleDoes DEF Reports
<1>4. ASSUME NEW j \in Keys, WorkerStep(j) PROVE Reports(k)' = Reports(k)
  <2>1. k # j
    BY <1>4, WorkerHolds
  <2>2. MovesOnly(j)
    BY <1>4, StartBeginsDoes, StartRepeatedDoes, RefusalsDo, InstanceStepsDo,
       StartReportedDoes, StartFailsDoes, StopBeginsDoes, StopSucceedsDoes, StopTimesOutDoes
    DEF WorkerStep
  <2>3. QED
    BY <1>1, <2>1, <2>2
<1>5. QED
  BY <1>2, <1>3, <1>4, PublishedPostedDoes DEF BridgeStep

LEMMA BridgeHandlersLeaveStuck ==
  ASSUME NEW m \in Managers, \A k \in Stuck : m.actual[k] = "absent" /\ ~Busy(m, k)
  PROVE  \A n \in {BridgeGone(m), RejectPending(m), BridgeCame(m)} :
           \A k \in Stuck : n.actual[k] = "absent" /\ ~Busy(n, k)
<1>1. \A k \in Stuck : k \in Keys /\ m.inFlight[k] = NoOperation
  BY StuckIsCircular DEF Circular, Busy
<1>2. \A k \in Stuck : BridgeGone(m).actual[k] = "absent" /\ BridgeGone(m).inFlight[k] = NoOperation
  BY <1>1 DEF BridgeGone, InitialManager, Managers, Busy
<1>3. \A k \in Stuck : RejectPending(m).actual[k] = "absent"
                       /\ RejectPending(m).inFlight[k] = NoOperation
  BY <1>1 DEF RejectPending, Managers, Busy, Awaits
<1>4. \A k \in Stuck : BridgeCame(m).actual[k] = "absent" /\ BridgeCame(m).inFlight[k] = NoOperation
  BY <1>1 DEF BridgeCame, InitialManager, Managers
<1>5. QED
  BY <1>2, <1>3, <1>4 DEF Busy

LEMMA ResumeLeavesStuck ==
  ASSUME TypeOK, NEW j \in Keys, Resume(j),
         \A k \in Stuck : mgr.actual[k] = "absent" /\ ~Busy(mgr, k)
  PROVE  \A k \in Stuck : mgr'.actual[k] = "absent" /\ ~Busy(mgr', k)
<1>0. mgr \in Managers /\ NextId \in Nat
  BY BoundsAssumption DEF TypeOK, NextId
<1>1. /\ Busy(mgr, j) /\ mgr.inFlight[j].result # "none"
      /\ mgr' = Proceed(mgr, j, NextId)
  BY DEF Resume, Settled, Update
<1>2. PICK op : op = mgr.inFlight[j]
  OBVIOUS
<1>3. PICK n : n = Conclude(mgr, j)
  OBVIOUS
<1>4. n \in Managers /\ op \in Operations /\ n.inFlight = mgr.inFlight
  BY <1>0, <1>1, <1>2, <1>3, ConcludeTypes DEF Busy, Managers
<1>5. \A k \in Keys \ {j} : n.actual[k] = mgr.actual[k]
  <2>1. CASE op.live
    <3>1. op.result \in {"ok", "error"}
      BY <1>1, <1>2, <1>4, OperationsAreBusy DEF Outcomes
    <3>2. QED
      BY <1>0, <1>1, <1>2, <1>3, <2>1, <3>1, ConcludeDoes
  <2>2. CASE ~op.live
    BY <1>0, <1>1, <1>2, <1>3, <2>2, ConcludeTypes
  <2>3. QED
    BY <2>1, <2>2
<1>6. ASSUME NEW new, NEW q, q = [n EXCEPT !.inFlight[j] = new]
      PROVE  \A k \in Stuck : q.actual[k] = "absent" /\ ~Busy(q, k)
  <2>1. q.actual = n.actual /\ \A k \in Keys \ {j} : q.inFlight[k] = n.inFlight[k]
    BY <1>4, <1>6 DEF Managers
  <2>2. Stuck \subseteq Keys \ {j}
    BY <1>1, StuckIsCircular DEF Circular
  <2>3. QED
    BY <1>4, <1>5, <2>1, <2>2 DEF Busy
<1>7. PICK over : over = [n EXCEPT !.inFlight[j] = NoOperation]
  OBVIOUS
<1>8. over \in Managers
  BY <1>4, <1>7 DEF Managers
<1>9. \/ mgr' = [n EXCEPT !.inFlight[j] = Sync(mgr, op.todo, NextId)]
      \/ mgr' = Kick(over, NextId)
  BY <1>1, <1>2, <1>3, <1>7 DEF Proceed
<1>10. CASE mgr' = [n EXCEPT !.inFlight[j] = Sync(mgr, op.todo, NextId)]
  BY <1>6, <1>10
<1>11. CASE mgr' = Kick(over, NextId)
  <2>1. \A k \in Stuck : over.actual[k] = "absent" /\ ~Busy(over, k)
    BY <1>6, <1>7
  <2>2. QED
    BY <1>0, <1>8, <1>11, <2>1, PassLeavesStuck
<1>12. QED
  BY <1>9, <1>10, <1>11

LEMMA LineLeavesStuck ==
  ASSUME TypeOK, OneEach, HandleLine,
         \A k \in Stuck : mgr.actual[k] = "absent" /\ ~Busy(mgr, k) /\ Reports(k) = {}
  PROVE  \A k \in Stuck : mgr'.actual[k] = "absent" /\ ~Busy(mgr', k) /\ Reports(k)' = {}
<1>0. mgr \in Managers /\ NextId \in Nat /\ PyTypeOK
  BY BoundsAssumption DEF TypeOK, NextId
<1>1. PICK line : line = Head(stdout)
  OBVIOUS
<1>2. PICK j : j = line.key
  OBVIOUS
<1>3. stdout # <<>> /\ stdout' = Tail(stdout)
  BY DEF HandleLine
<1>4. line \in BridgeResponses /\ j \in Keys /\ \A k \in Keys : Reports(k)' \subseteq Reports(k)
  BY <1>0, <1>1, <1>2, <1>3, StdoutTail, ResponseTypes
<1>5. \A k \in Stuck : k \in Keys /\ Reports(k)' = {}
  BY <1>4, StuckIsCircular DEF Circular
<1>6. CASE line.type = "result"
  <2>1. CASE mgr' = mgr
    BY <1>5, <2>1
  <2>2. CASE Awaits(mgr, j) /\ \E ok : mgr' = [mgr EXCEPT !.inFlight[j].result = ok]
    <3>1. j \notin Stuck
      BY <2>2 DEF Awaits
    <3>2. mgr'.actual = mgr.actual /\ \A k \in Keys \ {j} : mgr'.inFlight[k] = mgr.inFlight[k]
      BY <1>0, <2>2 DEF Managers
    <3>3. QED
      BY <1>5, <3>1, <3>2 DEF Busy
  <2>3. QED
    BY <1>1, <1>2, <1>6, <2>1, <2>2 DEF HandleLine, Answers
<1>7. CASE line.type = "driver-state"
  <2>1. line.state \in DriverStates
    BY <1>4, <1>7, ResponseTypes DEF StateReports
  <2>2. line \in Reports(j)
    BY <1>0, <1>1, <1>2, <1>3, <1>7, StdoutTail
  <2>3. j \notin Stuck
    BY <2>2
  <2>4. PICK m : m = ReportState(mgr, j, line.state)
    OBVIOUS
  <2>5. m \in Managers /\ m.inFlight = mgr.inFlight
    BY <1>0, <1>4, <2>1, <2>4, ReportStateTypes, ReportKeeps DEF BeliefsOnly
  <2>6. \A k \in Keys \ {j} : m.actual[k] = mgr.actual[k]
    BY <1>0, <2>4 DEF ReportState, DropActual, Managers
  <2>7. \A k \in Stuck : m.actual[k] = "absent" /\ ~Busy(m, k)
    BY <1>5, <2>3, <2>5, <2>6 DEF Busy
  <2>8. mgr' = Kick(m, NextId) \/ mgr' = m
    BY <1>1, <1>2, <1>7, <2>4 DEF HandleLine, Reconcile, Update
  <2>9. \A k \in Stuck : mgr'.actual[k] = "absent" /\ ~Busy(mgr', k)
    <3>1. CASE mgr' = m
      BY <2>7, <3>1
    <3>2. CASE mgr' = Kick(m, NextId)
      BY <1>0, <2>5, <2>7, <3>2, PassLeavesStuck
    <3>3. QED
      BY <2>8, <3>1, <3>2
  <2>10. QED
    BY <1>5, <2>9
<1>8. QED
  BY <1>1, <1>6, <1>7 DEF HandleLine

LEMMA StepStartsNoneStuck ==
  ASSUME TypeOK, Life, InTime, Solo, Ordered, Unstarted, [Next]_vars
  PROVE  Unstarted'
<1> SUFFICES ASSUME Calm'
             PROVE  \A k \in Stuck : mgr'.actual[k] = "absent" /\ ~Busy(mgr', k) /\ Reports(k)' = {}
  BY DEF Unstarted, Busy
<1>0. Calm /\ mgr \in Managers /\ NextId \in Nat /\ PyTypeOK /\ OneEach
  BY CalmSince, BoundsAssumption DEF TypeOK, NextId, InTime
<1>1. \A k \in Stuck : mgr.actual[k] = "absent" /\ ~Busy(mgr, k) /\ Reports(k) = {}
  BY <1>0 DEF Unstarted
<1>2. stdout' = stdout => \A k \in Stuck : Reports(k)' = {}
  BY <1>1 DEF Reports
<1>3. ASSUME stdout' = stdout, NEW m \in Managers, mgr' = m \/ mgr' = Kick(m, NextId),
             \A k \in Stuck : m.actual[k] = "absent" /\ ~Busy(m, k)
      PROVE  \A k \in Stuck : mgr'.actual[k] = "absent" /\ ~Busy(mgr', k) /\ Reports(k)' = {}
  BY <1>0, <1>2, <1>3, PassLeavesStuck
<1>4. ASSUME stdout' = stdout, NEW m \in Managers, mgr' = m \/ mgr' = Kick(m, NextId),
             m.actual = mgr.actual, m.inFlight = mgr.inFlight
      PROVE  \A k \in Stuck : mgr'.actual[k] = "absent" /\ ~Busy(mgr', k) /\ Reports(k)' = {}
  BY <1>1, <1>3, <1>4 DEF Busy
<1>5. CASE BridgeEvent
  <2>1. stdout' = stdout
    BY <1>5 DEF BridgeEvent, BridgeReady, HandleExit, ManagerStopped, BridgeGivenUp, pyVars,
         UNCHANGED_PY
  <2>2. /\ \A n \in {BridgeGone(mgr), RejectPending(mgr), BridgeCame(mgr)} :
             n \in Managers /\ \A k \in Stuck : n.actual[k] = "absent" /\ ~Busy(n, k)
    BY <1>0, <1>1, BridgeHandlersTypes, BridgeHandlersLeaveStuck
  <2>3. LET n == BridgeGone(RejectPending(mgr))
        IN  n \in Managers /\ \A k \in Stuck : n.actual[k] = "absent" /\ ~Busy(n, k)
    BY <2>2, BridgeHandlersTypes, BridgeHandlersLeaveStuck
  <2>4. \/ mgr' \in {BridgeGone(mgr), RejectPending(mgr), BridgeGone(RejectPending(mgr))}
        \/ mgr' = Kick(BridgeCame(mgr), NextId)
    BY <1>5 DEF BridgeEvent, BridgeReady, HandleExit, ManagerStopped, BridgeGivenUp, Reconcile, Update
  <2>5. QED
    BY <1>3, <2>1, <2>2, <2>3, <2>4
<1>6. CASE StopManager
  <2>1. PICK gone : mgr' = [DropLeases(mgr, gone) EXCEPT !.active = FALSE]
    BY <1>6, StopManagerActs
  <2>2. DropLeases(mgr, gone) \in Managers /\ SameBeliefs(mgr, DropLeases(mgr, gone))
    BY LeasesKeepBeliefs DEF SameBeliefs
  <2>3. mgr'.actual = mgr.actual /\ mgr'.inFlight = mgr.inFlight /\ mgr' \in Managers
    BY <2>1, <2>2 DEF Managers, SameBeliefs
  <2>4. stdout' = stdout
    BY <1>6 DEF StopManager, pyVars
  <2>5. QED
    BY <1>4, <2>3, <2>4
<1>7. CASE StartBridge
  <2>1. stdout' = <<>> /\ mgr' = mgr
    BY <1>7 DEF StartBridge, Spawn
  <2>2. QED
    BY <1>1, <2>1, EmptyFacts DEF Reports
<1>8. CASE ProcessExits
  BY <1>0, <1>4, <1>8 DEF ProcessExits, Exit, nodeVars
<1>9. CASE PythonStep
  <2>1. BridgeStep /\ mgr' = mgr
    BY <1>9 DEF PythonStep, nodeVars
  <2>2. alive /\ unposted = {}
    BY <1>0, <2>1, BridgeMoves DEF Ordered
  <2>3. ASSUME NEW k \in Stuck PROVE Reports(k)' = Reports(k)
    <3>1. k \in Keys /\ Alone(k)
      BY <1>0, <2>2, StuckIsCircular DEF Solo, Circular
    <3>2. Held(k) = {}
      BY <1>1, <3>1 DEF Alone, Tokens, Awaits
    <3>3. QED
      BY <1>0, <2>1, <2>2, <3>1, <3>2, UnheldReportsNothing
  <2>4. QED
    BY <1>1, <2>1, <2>3
<1>10. CASE NodeHandles
  <2>1. CASE Passes
    BY <1>4, <2>1 DEF Passes, UNCHANGED_PY, SameBeliefs, Reconcile, Update
  <2>2. CASE Idles
    BY <1>4, <2>2 DEF Idles, UNCHANGED_PY, SameBeliefs
  <2>3. CASE HandleLine
    BY <1>0, <1>1, <2>3, LineLeavesStuck
  <2>4. ASSUME NEW j \in Keys, Resume(j)
        PROVE  \A k \in Stuck : mgr'.actual[k] = "absent" /\ ~Busy(mgr', k) /\ Reports(k)' = {}
    <3>1. stdout' = stdout
      BY <2>4 DEF Resume, UNCHANGED_PY
    <3>2. QED
      BY <1>1, <1>2, <2>4, <3>1, ResumeLeavesStuck
  <2>5. QED
    BY <1>10, <2>1, <2>2, <2>3, <2>4 DEF NodeHandles
<1>11. QED
  BY <1>5, <1>6, <1>7, <1>8, <1>9, <1>10, StepIs, CalmSince

-----------------------------------------------------------------------------
(* Leases come and go with the calls that hold them.                         *)

LEMMA HandlersAndLeases ==
  ASSUME NEW m \in Managers, NEW id \in Nat
  PROVE  /\ BridgeGone(m).leases = m.leases /\ RejectPending(m).leases = m.leases
         /\ BridgeCame(m).leases = m.leases
         /\ \A k \in Keys, state \in DriverStates : ReportState(m, k, state).leases = m.leases
         /\ \A k \in Keys : Busy(m, k) => Proceed(m, k, id).leases = m.leases
         /\ \A c \in Calls : TakeLease(m, c).leases = m.leases \union {c}
         /\ \A gone : /\ DropLeases(m, gone).leases = m.leases \ gone
                      /\ Release(m, gone).leases = m.leases \ gone
<1>1. /\ BridgeGone(m).leases = m.leases /\ RejectPending(m).leases = m.leases
      /\ BridgeCame(m).leases = m.leases
  BY DEF BridgeGone, RejectPending, BridgeCame, Managers
<1>2. \A k \in Keys : DropActual(m, k).leases = m.leases
  BY DEF DropActual, Managers
<1>3. \A k \in Keys, state \in DriverStates : ReportState(m, k, state).leases = m.leases
  BY <1>2 DEF ReportState, Managers
<1>4. ASSUME NEW k \in Keys, Busy(m, k) PROVE Proceed(m, k, id).leases = m.leases
  <2>1. PICK op : op = m.inFlight[k]
    OBVIOUS
  <2>2. op \in Operations
    BY <1>4, <2>1 DEF Managers, Busy
  <2>3. op.live \in BOOLEAN /\ op.kind \in {"start", "stop", "sync"}
    BY <2>2 DEF Operations
  <2>4. PICK d : d = DropActual(m, k)
    OBVIOUS
  <2>5. d \in Managers /\ d.leases = m.leases
    BY <1>2, <2>4, DropActualTypes
  <2>6. PICK n : n = Conclude(m, k)
    OBVIOUS
  <2>7. n.leases = m.leases /\ n \in Managers
    <3>1. n \in Managers
      BY <1>4, <2>6, ConcludeTypes
    <3>2. ~op.live => n.leases = m.leases
      BY <2>1, <2>6 DEF Conclude
    <3>3. op.live /\ op.kind = "start" => n.leases = m.leases
      BY <2>1, <2>4, <2>5, <2>6 DEF Conclude, Managers
    <3>4. op.live /\ op.kind = "stop" => n.leases = m.leases
      BY <2>1, <2>4, <2>5, <2>6 DEF Conclude, Managers
    <3>5. op.live /\ op.kind = "sync" => n.leases = m.leases
      BY <2>1, <2>6 DEF Conclude, Managers
    <3>6. QED
      BY <2>3, <3>1, <3>2, <3>3, <3>4, <3>5
  <2>8. PICK q : q = [n EXCEPT !.inFlight[k] = NoOperation]
    OBVIOUS
  <2>9. q \in Managers /\ q.leases = n.leases
    BY <2>7, <2>8 DEF Managers
  <2>10. \E o : Proceed(m, k, id) \in {[n EXCEPT !.inFlight[k] = o], Kick(q, id)}
    BY <2>6, <2>8 DEF Proceed
  <2>11. PICK o : Proceed(m, k, id) \in {[n EXCEPT !.inFlight[k] = o], Kick(q, id)}
    BY <2>10
  <2>12. [n EXCEPT !.inFlight[k] = o].leases = n.leases
    BY <2>7 DEF Managers
  <2>13. QED
    BY <2>7, <2>9, <2>11, <2>12, KickKeeps
<1>5. \A c \in Calls : TakeLease(m, c).leases = m.leases \union {c}
  BY DEF TakeLease, Managers
<1>6. \A gone : DropLeases(m, gone).leases = m.leases \ gone
  BY DEF DropLeases, Managers
<1>7. \A gone : Release(m, gone).leases = m.leases \ gone
  BY <1>6, DropLeasesTypes DEF Release, Managers
<1>8. QED
  BY <1>1, <1>3, <1>4, <1>5, <1>6, <1>7

\* A step that leaves a lease with a call that has returned, or was not made yet
\* once more, found it there, or it is the end of a `subscribe` that was served.
LEMMA LeaseOfCall ==
  ASSUME TypeOK, [Next]_vars, NEW c \in Calls
  PROVE  \/ call'[c] = call[c] /\ (c \in mgr'.leases => c \in mgr.leases)
         \/ call[c] = "waiting" /\ call'[c] = "idle" /\ (c \in mgr'.leases => c \in mgr.leases)
         \/ call'[c] \notin {"idle", "waiting"}
         \/ c \notin mgr'.leases
         \/ mgr' = mgr /\ mgr.bridgeReady /\ LeaseServed(mgr, c) /\ call[c] = "settling"
            /\ call'[c] = "idle"
<1>0. mgr \in Managers /\ NextId \in Nat /\ call \in [Calls -> CallStates]
  BY BoundsAssumption DEF TypeOK, NextId
<1>1. \A m \in Managers : Kick(m, NextId).leases = m.leases
  BY <1>0, KickKeeps
<1>2. CASE call' = call /\ mgr'.leases \subseteq mgr.leases
  BY <1>2
<1>3. ASSUME NEW d \in Calls, Subscribe(d)
      PROVE  \/ call'[c] = call[c] /\ (c \in mgr'.leases => c \in mgr.leases)
             \/ call'[c] \notin {"idle", "waiting"} \/ c \notin mgr'.leases
  <2>1. CASE mgr.bridgeReady
    <3>1. mgr' = Kick(TakeLease(mgr, d), NextId) /\ call' = [call EXCEPT ![d] = "settling"]
      BY <1>3, <2>1 DEF Subscribe, Reconcile, Update
    <3>2. mgr'.leases = mgr.leases \union {d}
      BY <1>0, <1>1, <3>1, TakeLeaseTypes, HandlersAndLeases
    <3>3. QED
      BY <1>0, <3>1, <3>2
  <2>2. CASE ~mgr.bridgeReady
    BY <1>0, <1>3, <2>2 DEF Subscribe
  <2>3. QED
    BY <2>1, <2>2
<1>4. ASSUME NEW client \in Clients, NEW sub \in Subscriptions, Unsubscribe(client, sub)
      PROVE  call' = call /\ mgr'.leases \subseteq mgr.leases
  <2>1. PICK gone : mgr' = Kick(Release(mgr, gone), NextId)
    BY <1>4, UnsubscribeActs
  <2>2. QED
    BY <1>0, <1>1, <1>4, <2>1, ReleaseTypes, HandlersAndLeases DEF Unsubscribe
<1>5. ASSUME NEW client \in Clients, Disconnect(client)
      PROVE  call' = call /\ mgr'.leases \subseteq mgr.leases
  <2>1. mgr' = mgr \/ \E gone : mgr' = Kick(Release(mgr, gone), NextId)
    BY <1>5, DisconnectActs
  <2>2. QED
    BY <1>0, <1>1, <1>5, <2>1, ReleaseTypes, HandlersAndLeases DEF Disconnect
<1>6. ASSUME NEW d \in Calls, Wake(d)
      PROVE  \/ call'[c] = call[c] /\ (c \in mgr'.leases => c \in mgr.leases)
             \/ call'[c] \notin {"idle", "waiting"}
  <2>1. mgr'.leases \subseteq mgr.leases \union {d}
    <3>1. TakeLease(mgr, d) \in Managers /\ TakeLease(mgr, d).leases = mgr.leases \union {d}
      BY <1>0, TakeLeaseTypes, HandlersAndLeases
    <3>2. mgr' = Kick(TakeLease(mgr, d), NextId) \/ mgr' = Kick(mgr, NextId)
      BY <1>6, WakeActs
    <3>3. QED
      BY <1>0, <1>1, <3>1, <3>2
  <2>2. call' = [call EXCEPT ![d] = "settling"]
    BY <1>6 DEF Wake
  <2>3. QED
    BY <1>0, <2>1, <2>2
<1>7. ASSUME NEW d \in Calls, WaitTimesOut(d)
      PROVE  \/ call'[c] = call[c] /\ (c \in mgr'.leases => c \in mgr.leases)
             \/ c \notin mgr'.leases
  <2>1. mgr'.leases = mgr.leases \ {d}
    <3>1. DropLeases(mgr, {d}).leases = mgr.leases \ {d}
      BY <1>0, HandlersAndLeases
    <3>2. QED
      BY <1>0, <1>7, <3>1, WaitTimesOutActs
  <2>2. call' = [call EXCEPT ![d] = "idle"]
    BY <1>7 DEF WaitTimesOut
  <2>3. QED
    BY <1>0, <2>1, <2>2
<1>8. ASSUME NEW d \in Calls, Settle(d)
      PROVE  \/ call'[c] = call[c] /\ (c \in mgr'.leases => c \in mgr.leases)
             \/ call'[c] \notin {"idle", "waiting"} \/ c \notin mgr'.leases
             \/ mgr' = mgr /\ mgr.bridgeReady /\ LeaseServed(mgr, c) /\ call[c] = "settling"
                /\ call'[c] = "idle"
  <2>1. PICK m : m = DropLeases(mgr, {d})
    OBVIOUS
  <2>2. m \in Managers /\ m.leases = mgr.leases \ {d} /\ Kick(m, NextId).leases = m.leases
    BY <1>0, <1>1, <2>1, DropLeasesTypes, HandlersAndLeases
  <2>3. mgr' \in {m, Kick(m, NextId)} => mgr'.leases = mgr.leases \ {d}
    BY <2>2
  <2>4. PICK state : call' = [call EXCEPT ![d] = state]
    BY <1>8 DEF Settle
  <2>5. CASE d = c
    <3>1. \/ mgr' = mgr /\ mgr.bridgeReady /\ LeaseServed(mgr, c) /\ call'[c] = "idle"
          \/ call'[c] = "rewaiting"
          \/ mgr' \in {m, Kick(m, NextId)}
      BY <1>0, <1>8, <2>1, <2>5 DEF Settle, Reconcile, Update
    <3>2. call[c] = "settling"
      BY <1>8, <2>5 DEF Settle, MaySettle
    <3>3. QED
      BY <2>3, <2>5, <3>1, <3>2
  <2>6. CASE d # c
    <3>1. call'[c] = call[c]
      BY <1>0, <2>4, <2>6
    <3>2. mgr' \in {mgr, m, Kick(m, NextId)}
      BY <1>0, <1>8, <2>1, SettleActs
    <3>3. QED
      BY <2>3, <3>1, <3>2
  <2>7. QED
    BY <2>5, <2>6
<1>9. HandleLine => call' = call /\ mgr'.leases \subseteq mgr.leases
  <2> SUFFICES ASSUME HandleLine PROVE call' = call /\ mgr'.leases \subseteq mgr.leases
    OBVIOUS
  <2>1. \A k \in Keys, result \in {"ok", "error"} : Noted(k, result).leases = mgr.leases
    BY <1>0 DEF Noted, Managers
  <2>2. \A k \in Keys, state \in DriverStates :
          /\ ReportState(mgr, k, state) \in Managers
          /\ ReportState(mgr, k, state).leases = mgr.leases
    BY <1>0, ReportStateTypes, HandlersAndLeases
  <2>3. mgr'.leases = mgr.leases
    BY <1>1, <2>1, <2>2, HandleLineActs
  <2>4. QED
    BY <2>3 DEF HandleLine
<1>10. ASSUME NEW k \in Keys, Resume(k) \/ RequestTimesOut(k) \/ StopRetryFires(k)
       PROVE  call' = call /\ mgr'.leases \subseteq mgr.leases
  <2>1. call' = call
    BY <1>10 DEF Resume, RequestTimesOut, StopRetryFires
  <2>2. Resume(k) => mgr'.leases = mgr.leases
    BY <1>0, ResumeActs, HandlersAndLeases
  <2>3. RequestTimesOut(k) => mgr'.leases = mgr.leases
    BY <1>0, RequestTimesOutActs DEF Noted, Managers
  <2>4. StopRetryFires(k) => mgr'.leases = mgr.leases
    <3>1. PICK m : m = [mgr EXCEPT !.stopRetries[k] = "due"]
      OBVIOUS
    <3>2. m \in Managers /\ m.leases = mgr.leases
      BY <1>0, <3>1 DEF Managers
    <3>3. QED
      BY <1>1, <3>1, <3>2, StopRetryActs
  <2>5. QED
    BY <1>10, <2>1, <2>2, <2>3, <2>4
<1>11. BridgeReady => \/ call'[c] = call[c] /\ mgr'.leases = mgr.leases
                      \/ call'[c] \notin {"idle", "waiting"}
  <2>1. BridgeCame(mgr) \in Managers /\ BridgeCame(mgr).leases = mgr.leases
    BY <1>0, BridgeHandlersTypes, HandlersAndLeases
  <2>2. BridgeReady => mgr'.leases = mgr.leases
    BY <1>1, <2>1, BridgeReadyActs
  <2>3. BridgeReady => call'[c] = call[c] \/ call'[c] \in {"woken", "rewoken"}
    BY <1>0 DEF BridgeReady
  <2>4. QED
    BY <2>2, <2>3
<1>12. HandleExit \/ BridgeGivenUp \/ ManagerStopped => call' = call /\ mgr'.leases \subseteq mgr.leases
  <2>1. RejectPending(mgr) \in Managers
    BY <1>0, BridgeHandlersTypes
  <2>2. HandleExit \/ BridgeGivenUp \/ ManagerStopped => mgr'.leases = mgr.leases
    BY <1>0, <2>1, HandleExitActs, GivesUpActs, HandlersAndLeases
  <2>3. QED
    BY <2>2 DEF HandleExit, BridgeGivenUp, ManagerStopped
<1>13. StopManager => \/ call'[c] = call[c] /\ (c \in mgr'.leases => c \in mgr.leases)
                      \/ call[c] = "waiting" /\ call'[c] = "idle"
                         /\ (c \in mgr'.leases => c \in mgr.leases)
                      \/ c \notin mgr'.leases
  <2> SUFFICES ASSUME StopManager
               PROVE  \/ call'[c] = call[c] /\ (c \in mgr'.leases => c \in mgr.leases)
                      \/ call[c] = "waiting" /\ call'[c] = "idle"
                         /\ (c \in mgr'.leases => c \in mgr.leases)
                      \/ c \notin mgr'.leases
    OBVIOUS
  <2>1. PICK gone : gone = {d \in Calls : call[d] = "rewaiting"}
    OBVIOUS
  <2>2. PICK m : m = DropLeases(mgr, gone)
    OBVIOUS
  <2>3. m \in Managers /\ m.leases = mgr.leases \ gone
    BY <1>0, <2>2, DropLeasesTypes, HandlersAndLeases
  <2>4. mgr' = [m EXCEPT !.active = FALSE]
    BY <2>1, <2>2 DEF StopManager
  <2>5. mgr'.leases = mgr.leases \ gone
    BY <2>3, <2>4 DEF Managers
  <2>6. call'[c] = IF call[c] \in {"waiting", "rewaiting"} THEN "idle" ELSE call[c]
    BY DEF StopManager
  <2>7. QED
    BY <2>1, <2>5, <2>6
<1>14. PythonStep \/ ProcessExits \/ StartBridge => call' = call /\ mgr' = mgr
  BY DEF PythonStep, ProcessExits, StartBridge, nodeVars
<1>15. (\E k \in Keys, state \in {"running", "errored"} : DriverReports(k, state))
         => call' = call /\ mgr' = mgr
  BY DEF DriverReports, nodeVars
<1>16. UNCHANGED vars => call' = call /\ mgr' = mgr
  BY DEF vars, nodeVars
<1>17. CASE ClientStep
  BY <1>2, <1>3, <1>4, <1>5, <1>17 DEF ClientStep
<1>18. CASE NodeStep
  BY <1>2, <1>6, <1>8, <1>9, <1>10, <1>11, <1>12, <1>14, <1>18 DEF NodeStep
<1>19. CASE Mishap
  BY <1>2, <1>7, <1>10, <1>12, <1>13, <1>14, <1>15, <1>19 DEF Mishap
<1>20. QED
  BY <1>2, <1>14, <1>16, <1>17, <1>18, <1>19 DEF Next

\* No call returns with a lease on an instance that waits for itself.
LEMMA StepKeepsGrounded ==
  ASSUME TypeOK, Life, Unstarted, Grounded, [Next]_vars
  PROVE  Grounded'
<1>0. call \in [Calls -> CallStates] /\ call' \in [Calls -> CallStates]
  <2>1. TypeOK'
    BY StepKeepsTypes
  <2>2. QED
    BY <2>1 DEF TypeOK
<1>1. ASSUME NEW c \in Calls, call'[c] = "waiting", c \in mgr'.leases PROVE FALSE
  <2>1. call[c] = "waiting" /\ c \in mgr.leases
    BY <1>1, LeaseOfCall
  <2>2. QED
    BY <2>1 DEF Grounded
<1>2. ASSUME Calm', NEW c \in Calls, call'[c] = "idle", c \in mgr'.leases
      PROVE  Closure[CallKey[c]] \intersect Stuck = {}
  <2>0. Calm
    BY <1>2, CalmSince
  <2>1. CASE call[c] = "idle" /\ c \in mgr.leases
    BY <2>0, <2>1 DEF Grounded
  <2>2. CASE call[c] = "waiting" /\ c \in mgr.leases
    BY <2>2 DEF Grounded
  <2>3. CASE mgr' = mgr /\ LeaseServed(mgr, c)
    <3>1. \A k \in Closure[CallKey[c]] : mgr.actual[k] = "running"
      BY <1>2, <2>3 DEF LeaseServed
    <3>2. \A k \in Stuck : mgr.actual[k] = "absent"
      BY <2>0 DEF Unstarted
    <3>3. "running" # "absent"
      OBVIOUS
    <3>4. QED
      BY <3>1, <3>2, <3>3
  <2>4. QED
    BY <1>2, <2>1, <2>2, <2>3, LeaseOfCall
<1>3. \A c \in mgr'.leases : c \in Calls
  <2>1. TypeOK'
    BY StepKeepsTypes
  <2>2. QED
    BY <2>1 DEF TypeOK, Managers
<1>4. QED
  BY <1>1, <1>2, <1>3 DEF Grounded

-----------------------------------------------------------------------------
(* Finite chains of dependencies end or turn back.                           *)

\* Each member of T depends on, or is needed by, another member of T.
LinkedUp(T) == T \subseteq Keys /\ \A k \in T : \E j \in T : k \in Deps[j]

LEMMA SmallestLinked ==
  ASSUME NEW T, LinkedUp(T), T # {}
  PROVE  \E S : /\ LinkedUp(S) /\ S # {} /\ S \subseteq T
                /\ \A U : LinkedUp(U) /\ U # {} /\ U \subseteq T
                            => Cardinality(S) <= Cardinality(U)
<1> DEFINE sizes == {Cardinality(U) : U \in {V \in SUBSET T : LinkedUp(V) /\ V # {}}}
<1>1. IsFiniteSet(T)
  BY KeysAssumption, FS_Subset DEF LinkedUp
<1>2. sizes \subseteq Nat
  BY <1>1, FS_Subset, FS_CardinalityType
<1>3. Cardinality(T) \in sizes
  OBVIOUS
<1>4. PICK n \in sizes : \A i \in sizes : <<i, n>> \notin OpToRel(<, Nat)
  <2> HIDE DEF sizes
  <2>1. QED
    BY <1>2, <1>3, NatLessThanWellFounded, WFMin
<1>5. \A i \in sizes : n <= i
  <2> HIDE DEF sizes
  <2>1. SUFFICES ASSUME NEW i \in sizes, i < n PROVE FALSE
    BY <1>2
  <2>2. i \in Nat /\ n \in Nat
    BY <1>2
  <2>3. PICK pair : pair = <<i, n>>
    OBVIOUS
  <2>4. pair \in Nat \X Nat /\ pair[1] < pair[2]
    BY <2>1, <2>2, <2>3
  <2>5. pair \in OpToRel(<, Nat)
    BY <2>4 DEF OpToRel
  <2>6. QED
    BY <1>4, <2>3, <2>5
<1>6. PICK S \in SUBSET T : LinkedUp(S) /\ S # {} /\ n = Cardinality(S)
  BY <1>4
<1>7. \A U : LinkedUp(U) /\ U # {} /\ U \subseteq T => Cardinality(U) \in sizes
  OBVIOUS
<1> HIDE DEF sizes
<1>8. QED
  BY <1>5, <1>6, <1>7

LEMMA LinkedTurnsBack ==
  ASSUME NEW T, LinkedUp(T), T # {}
  PROVE  T \intersect Stuck # {}
<1>1. PICK S : /\ LinkedUp(S) /\ S # {} /\ S \subseteq T
               /\ \A U : LinkedUp(U) /\ U # {} /\ U \subseteq T
                           => Cardinality(S) <= Cardinality(U)
  BY SmallestLinked
<1>2. IsFiniteSet(S)
  BY <1>1, KeysAssumption, FS_Subset DEF LinkedUp
<1>3. ASSUME NEW x \in S, \A d \in Deps[x] : d \notin S PROVE FALSE
  <2>1. PICK U : U = S \ {x}
    OBVIOUS
  <2>2. \A k \in U : \E j \in U : k \in Deps[j]
    BY <1>1, <1>3, <2>1 DEF LinkedUp
  <2>3. LinkedUp(U)
    BY <1>1, <2>1, <2>2 DEF LinkedUp
  <2>4. PICK j \in S : x \in Deps[j]
    BY <1>1 DEF LinkedUp
  <2>5. j \in U
    BY <1>3, <2>1, <2>4
  <2>6. Cardinality(S) <= Cardinality(U)
    BY <1>1, <2>1, <2>3, <2>5
  <2>7. Cardinality(U) = Cardinality(S) - 1 /\ Cardinality(S) \in Nat
    BY <1>2, <2>1, FS_RemoveElement, FS_CardinalityType
  <2>8. QED
    BY <2>6, <2>7
<1>4. Circular(S)
  BY <1>1, <1>3 DEF Circular, LinkedUp
<1>5. S \subseteq Stuck
  BY <1>1, <1>4 DEF Stuck, LinkedUp
<1>6. QED
  BY <1>1, <1>5

-----------------------------------------------------------------------------
(* The reconciled system.                                                    *)

LEMMA ClosureContains ==
  ASSUME NEW k \in Keys, NEW e \in Closure[k]
  PROVE  k \in Closure[k] /\ e \in Keys /\ Closure[e] \subseteq Closure[k]
<1>1. k \in Closure[k] /\ e \in Keys
  BY DEF Closure
<1>2. Closure[k] \subseteq Keys
  BY ClosureTypes
<1>3. \A x \in Closure[k] : Deps[x] \subseteq Closure[k]
  BY ClosureClosed
<1>4. \A x \in Closure[e] : x \in Closure[k]
  <2>1. Closure[k] \in SUBSET Keys /\ e \in Closure[k]
    BY <1>2
  <2>2. QED
    BY <1>1, <1>3, <2>1 DEF Closure
<1>5. QED
  BY <1>1, <1>4

\* What another pass would do, when it would do nothing.
LEMMA NothingToDo ==
  ASSUME NEW m \in Managers, NEW id \in Nat, m.bridgeReady, Kick(m, id) = m,
         \A k \in Keys : ~Busy(m, k)
  PROVE  \A k \in Keys : ~MustStart(m, k) /\ ~MustStop(m, k) /\ ~MustSync(m, k)
<1> SUFFICES ASSUME NEW k \in Keys
             PROVE  ~MustStart(m, k) /\ ~MustStop(m, k) /\ ~MustSync(m, k)
  OBVIOUS
<1>1. PICK n : n = Kick(m, id)
  OBVIOUS
<1>2. \/ PassLeaves(m, n, k) \/ PassStarts(m, n, k, id)
      \/ PassStops(m, n, k, id) \/ PassSyncs(m, n, k, id)
  BY <1>1, KickDoes
<1>3. ~Busy(n, k)
  BY <1>1
<1>4. \A kind : Lifecycle(m, kind, id) # NoOperation
  <2>1. \A kind : "id" \in DOMAIN Lifecycle(m, kind, id)
    BY DEF Lifecycle
  <2>2. "id" \notin DOMAIN NoOperation
    BY DEF NoOperation
  <2>3. QED
    BY <2>1, <2>2
<1>5. \A changes : Sync(m, changes, id) # NoOperation
  <2>1. \A changes : "id" \in DOMAIN Sync(m, changes, id)
    BY DEF Sync
  <2>2. "id" \notin DOMAIN NoOperation
    BY DEF NoOperation
  <2>3. QED
    BY <2>1, <2>2
<1>6. PassLeaves(m, n, k)
  BY <1>2, <1>3, <1>4, <1>5 DEF PassStarts, PassStops, PassSyncs, Busy
<1>7. QED
  BY <1>6 DEF PassLeaves

\* The manager at rest, as the theorems above leave it.
Settling ==
  /\ mgr \in Managers /\ mgr.bridgeReady /\ mgr.active
  /\ mgr.failedSubscriptions = {}
  /\ \A k \in Keys : ~MustStart(mgr, k) /\ ~MustStop(mgr, k) /\ ~MustSync(mgr, k)
  /\ \A k \in Keys : AtPeace(mgr, k, instances[k], Ext(k)) /\ mgr.stopRetries[k] # "waiting"
  /\ \A k \in Stuck : mgr.actual[k] = "absent"
  /\ \A c \in mgr.leases : Closure[CallKey[c]] \intersect Stuck = {}
  /\ \A j \in Keys : instances[j] # "absent" => \A d \in Deps[j] : instances[d] = "running"

LEMMA RestIsSettling ==
  ASSUME Sound, Faithful, Unstarted, Grounded, Calm, AtRest, Keys # {}
  PROVE  Settling
<1>0. mgr \in Managers /\ NextId \in Nat
  BY BoundsAssumption DEF Sound, TypeOK, NextId
<1>1. bridge = "up" /\ alive /\ \A k \in Keys : ~Busy(mgr, k) /\ mgr.stopRetries[k] # "waiting"
  BY DEF AtRest, NothingUnderWay
<1>2. mgr.bridgeReady /\ mgr.active
  BY <1>1 DEF Sound, Life
<1>3. Kick(mgr, NextId) = mgr /\ mgr.failedSubscriptions = {}
  BY <1>1 DEF Faithful, Wakeful, NoneFailed
<1>4. \A k \in Keys : ~MustStart(mgr, k) /\ ~MustStop(mgr, k) /\ ~MustSync(mgr, k)
  BY <1>0, <1>1, <1>2, <1>3, NothingToDo
<1>5. \A k \in Keys : AtPeace(mgr, k, instances[k], Ext(k))
  BY <1>1, <1>2 DEF Faithful, Believing, Believed, Agrees
<1>6. \A c \in mgr.leases : Closure[CallKey[c]] \intersect Stuck = {}
  <2>1. \A c \in mgr.leases : c \in Calls
    BY <1>0 DEF Managers
  <2>2. \A c \in Calls : call[c] = "idle"
    BY DEF AtRest
  <2>3. QED
    BY <2>1, <2>2 DEF Grounded
<1>7. QED
  BY <1>0, <1>1, <1>2, <1>3, <1>4, <1>5, <1>6 DEF Settling, Unstarted, Faithful, Supported

\* Nothing unwanted is left: it would be kept only by something unwanted that
\* depends on it, and so on around a circle that never started.
LEMMA SettledUnwanted ==
  ASSUME Settling, NEW k \in Keys, k \notin Desired(mgr)
  PROVE  mgr.actual[k] = "absent"
<1> SUFFICES ASSUME Present(mgr, k) PROVE FALSE
  BY DEF Present
<1>1. PICK T : T = {j \in Keys : Present(mgr, j) /\ j \notin Desired(mgr)}
  OBVIOUS
<1>2. ASSUME NEW j \in T PROVE \E h \in T : j \in Deps[h]
  <2>1. j \in Keys /\ Present(mgr, j) /\ j \notin Desired(mgr)
    BY <1>1
  <2>2. mgr.actual[j] \notin {"starting", "stopping"}
    BY <2>1 DEF Settling, AtPeace
  <2>3. HasPresentDependents(mgr, j)
    BY <2>1, <2>2 DEF Settling, MustStop
  <2>4. PICK h \in Keys : j \in Deps[h] /\ Present(mgr, h)
    BY <2>3 DEF HasPresentDependents
  <2>5. h \notin Desired(mgr)
    BY <2>1, <2>4, DesiredClosed DEF Settling
  <2>6. QED
    BY <1>1, <2>4, <2>5
<1>3. LinkedUp(T) /\ T # {}
  BY <1>1, <1>2 DEF LinkedUp
<1>4. PICK j \in T : j \in Stuck
  BY <1>3, LinkedTurnsBack
<1>5. QED
  BY <1>1, <1>4 DEF Settling, Present

\* What is wanted runs, unless a start failed on the way: it would wait only for a
\* dependency that waits, and so on around a circle no returned lease reaches.
LEMMA SettledWanted ==
  ASSUME Settling, NEW k \in Desired(mgr), Closure[k] \intersect mgr.startErrors = {}
  PROVE  mgr.actual[k] = "running"
<1>1. PICK c \in mgr.leases : k \in Closure[CallKey[c]]
  BY DEF Desired
<1>2. CallKey[c] \in Keys /\ k \in Keys
  BY <1>1, CallsAssumption, ClosureTypes DEF Settling, Managers
<1>3. PICK S : S = {j \in Closure[k] : mgr.actual[j] # "running"}
  OBVIOUS
<1>4. ASSUME NEW j \in S PROVE \E d \in Deps[j] : d \in S
  <2>1. /\ j \in Closure[k] /\ j \in Keys /\ mgr.actual[j] # "running"
        /\ j \in Desired(mgr) /\ j \notin mgr.startErrors /\ Closure[k] \subseteq Keys
    BY <1>1, <1>2, <1>3, ClosureContains, ClosureTypes DEF Desired
  <2>2. mgr.actual[j] \in {"absent", "errored"}
    BY <2>1 DEF Settling, AtPeace
  <2>3. CASE mgr.actual[j] = "errored"
    <3>1. HasPresentDependents(mgr, j)
      BY <2>1, <2>3 DEF Settling, MustStop, Present
    <3>2. PICK h \in Keys : j \in Deps[h] /\ Present(mgr, h)
      BY <3>1 DEF HasPresentDependents
    <3>3. instances[h] # "absent"
      BY <3>2 DEF Settling, AtPeace, Present
    <3>4. instances[j] = "running"
      BY <3>2, <3>3 DEF Settling
    <3>5. QED
      BY <2>1, <2>3, <3>4 DEF Settling, AtPeace
  <2>4. CASE mgr.actual[j] = "absent"
    <3>1. ~MustStart(mgr, j)
      BY <2>1 DEF Settling
    <3>2. PICK d \in Deps[j] : mgr.actual[d] # "running"
      BY <2>1, <2>4, <3>1 DEF MustStart, Present
    <3>3. d \in Closure[k]
      BY <1>2, <2>1, ClosureClosed
    <3>4. QED
      BY <1>3, <3>2, <3>3
  <2>5. QED
    BY <2>2, <2>3, <2>4
<1>5. Circular(S)
  BY <1>2, <1>3, <1>4, ClosureTypes DEF Circular
<1>6. S \subseteq Stuck
  BY <1>5 DEF Stuck, Circular
<1>7. Closure[k] \intersect Stuck = {}
  BY <1>1, <1>2, ClosureContains DEF Settling
<1>8. k \in Closure[k]
  BY <1>2 DEF Closure
<1>9. QED
  BY <1>3, <1>6, <1>7, <1>8

\* A running instance has exactly the subscriptions its leases are for.
LEMMA SettledSubscriptions ==
  ASSUME Settling, NEW k \in Keys, instances[k] = "running"
  PROVE  \A e \in Events : <<k, e>> \in external <=> \E c \in mgr.leases : CallSub(c) = <<k, e>>
<1>1. mgr.actual[k] = "running"
  BY DEF Settling, AtPeace
<1>2. k \in Desired(mgr)
  BY <1>1, SettledUnwanted
<1>3. SubscriptionChanges(mgr, k) = {}
  BY <1>1, <1>2 DEF Settling, MustSync
<1>4. PICK wanted : wanted = {CallEvent[c] : c \in {x \in mgr.leases : CallKey[x] = k}}
  OBVIOUS
<1>5. Subs(mgr, k) = wanted
  <2>1. SubscriptionChanges(mgr, k) =
          (wanted \ Subs(mgr, k)) \X {TRUE} \union (Subs(mgr, k) \ wanted) \X {FALSE}
    <3>1. {e \in Events : <<k, e>> \in mgr.failedSubscriptions} = {}
      BY DEF Settling
    <3>2. QED
      BY <1>4, <3>1 DEF SubscriptionChanges, Subs
  <2>2. ASSUME NEW e \in wanted, e \notin Subs(mgr, k) PROVE FALSE
    <3>1. <<e, TRUE>> \in SubscriptionChanges(mgr, k)
      BY <2>1, <2>2
    <3>2. QED
      BY <1>3, <3>1
  <2>3. ASSUME NEW e \in Subs(mgr, k), e \notin wanted PROVE FALSE
    <3>1. <<e, FALSE>> \in SubscriptionChanges(mgr, k)
      BY <2>1, <2>3
    <3>2. QED
      BY <1>3, <3>1
  <2>4. QED
    BY <2>2, <2>3
<1>6. Ext(k) = wanted
  BY <1>5 DEF Settling, AtPeace
<1>7. QED
  BY <1>4, <1>6 DEF Ext, CallSub

\* "The reconciler compares the two and sends requests until they match"
\* (manager.ts:20): whenever the system is at rest, exactly the leased instances and
\* their dependencies run, each with the leased subscriptions, except where a start
\* failed on the way.  Nothing is assumed of the dependencies, which may be circular.
THEOREM Reconciled == Spec => [](Calm => ReconciledAtRest)
<1>1. ASSUME Sound, Faithful, Unstarted, Grounded, Calm, AtRest, NEW k \in Keys
      PROVE  LET blocked == Closure[k] \intersect mgr.startErrors # {}
             IN  /\ k \notin Desired(mgr) => instances[k] = "absent"
                 /\ k \in Desired(mgr) /\ ~blocked => instances[k] = "running"
                 /\ instances[k] = "running" =>
                      \A e \in Events : <<k, e>> \in external <=>
                        \E c \in mgr.leases : CallSub(c) = <<k, e>>
  <2>1. Settling
    BY <1>1, RestIsSettling
  <2>2. mgr.actual[k] = instances[k]
    BY <2>1 DEF Settling, AtPeace
  <2>3. QED
    BY <2>1, <2>2, SettledUnwanted, SettledWanted, SettledSubscriptions
<1>2. Sound /\ Faithful /\ Unstarted /\ Grounded => (Calm => ReconciledAtRest)
  BY <1>1 DEF ReconciledAtRest
<1>3. Init => Unstarted /\ Grounded
  BY EmptyFacts DEF Init, PyInit, InitialManager, Unstarted, Grounded, Stuck, Circular, Busy, Reports
<1>4. Sound /\ Faithful /\ Unstarted /\ [Next]_vars => Unstarted'
  BY InTimeIsSolo, StepStartsNoneStuck DEF Sound, Faithful
<1>5. Sound /\ Unstarted /\ Grounded /\ [Next]_vars => Grounded'
  BY StepKeepsGrounded DEF Sound
<1>6. QED
  BY <1>2, <1>3, <1>4, <1>5, AlwaysFaithful, PTL DEF Spec

-----------------------------------------------------------------------------
(* Drivers that report states of their own.  Their reports may come late and  *)
(* between a worker's, but are only ever running or errored; the states that  *)
(* a worker reports are followed by its reply.                                *)

WorkerStates == {"starting", "stopping", "available"}

\* Each report on k of one of the states comes before a reply on k.
Followed(s, k, states) ==
  \A j \in 1..Len(s) : IsReport(s[j]) /\ s[j].key = k /\ s[j].state \in states =>
    \E i \in 1..Len(s) : i > j /\ s[i].type = "result" /\ s[i].key = k

\* The states whose reports have the reply behind them by now.
Overdue(k) ==
  IF task[k] # Idle THEN {"available"}
  ELSE IF instances[k] = "absent" THEN DriverStates ELSE WorkerStates

PostedInOrder ==
  alive =>
    /\ \A k \in Keys : Followed(stdout, k, Overdue(k))
    /\ \A r \in unposted : /\ r.state \in {"running", "errored"}
                           /\ instances[r.key] \notin {"absent", "starting"}

LEMMA FollowedAppend ==
  ASSUME NEW s \in Seq(BridgeResponses), NEW x \in BridgeResponses, NEW k, NEW states,
         \/ x.type = "result" /\ x.key = k
         \/ /\ Followed(s, k, states)
            /\ IsReport(x) /\ x.key = k => x.state \notin states
  PROVE  Followed(Append(s, x), k, states)
<1> DEFINE t == Append(s, x)
<1>1. /\ Len(t) = Len(s) + 1 /\ Len(s) \in Nat /\ t[Len(s) + 1] = x
      /\ \A i \in 1..Len(s) : t[i] = s[i]
  BY AppendProperties, LenProperties
<1> HIDE DEF t
<1> SUFFICES ASSUME NEW j \in 1..Len(t), IsReport(t[j]), t[j].key = k, t[j].state \in states
             PROVE  \E i \in 1..Len(t) : i > j /\ t[i].type = "result" /\ t[i].key = k
  BY DEF Followed, t
<1>2. CASE x.type = "result" /\ x.key = k
  <2>1. j # Len(s) + 1
    BY <1>1, <1>2 DEF IsReport
  <2>2. Len(t) \in 1..Len(t) /\ Len(t) > j
    BY <1>1, <2>1
  <2>3. QED
    BY <1>1, <1>2, <2>2
<1>3. CASE /\ Followed(s, k, states)
           /\ IsReport(x) /\ x.key = k => x.state \notin states
  <2>1. j \in 1..Len(s)
    BY <1>1, <1>3
  <2>2. PICK i \in 1..Len(s) : i > j /\ s[i].type = "result" /\ s[i].key = k
    BY <1>1, <1>3, <2>1 DEF Followed
  <2>3. i \in 1..Len(t) /\ t[i] = s[i]
    BY <1>1
  <2>4. QED
    BY <2>2, <2>3
<1>4. QED
  BY <1>2, <1>3

LEMMA FollowedTail ==
  ASSUME NEW s \in Seq(BridgeResponses), s # <<>>, NEW k, NEW states, Followed(s, k, states)
  PROVE  Followed(Tail(s), k, states)
<1> DEFINE t == Tail(s)
<1>1. /\ Len(t) = Len(s) - 1 /\ Len(s) \in Nat \ {0}
      /\ \A i \in 1..Len(t) : t[i] = s[i + 1]
  BY HeadTailProperties, EmptySeq
<1> HIDE DEF t
<1> SUFFICES ASSUME NEW j \in 1..Len(t), IsReport(t[j]), t[j].key = k, t[j].state \in states
             PROVE  \E i \in 1..Len(t) : i > j /\ t[i].type = "result" /\ t[i].key = k
  BY DEF Followed, t
<1>2. j + 1 \in 1..Len(s) /\ t[j] = s[j + 1]
  BY <1>1
<1>3. PICK i \in 1..Len(s) : i > j + 1 /\ s[i].type = "result" /\ s[i].key = k
  BY <1>2 DEF Followed
<1>4. i - 1 \in 1..Len(t) /\ i - 1 > j /\ t[i - 1] = s[i]
  BY <1>1, <1>3
<1>5. QED
  BY <1>3, <1>4

\* A report that has to be followed has the reply behind it.
LEMMA FollowedMeans ==
  ASSUME NEW S, NEW s \in Seq(S), NEW k, NEW states, Followed(s, k, states),
         NEW m \in Range(s), IsReport(m), m.key = k, m.state \in states
  PROVE  \E n \in Range(s) : n.type = "result" /\ n.key = k
<1>1. Range(s) = {s[i] : i \in 1..Len(s)}
  BY RangeEquality
<1>2. PICK j \in 1..Len(s) : s[j] = m
  BY <1>1
<1>3. PICK i \in 1..Len(s) : s[i].type = "result" /\ s[i].key = k
  BY <1>2 DEF Followed
<1>4. QED
  BY <1>1, <1>3

LEMMA FollowedLess ==
  ASSUME NEW s, NEW k, NEW states, NEW fewer, fewer \subseteq states, Followed(s, k, states)
  PROVE  Followed(s, k, fewer)
BY DEF Followed

\* What must be followed are reports that a driver's thread does not post.
LEMMA ThreadsPostOthers ==
  ASSUME PyTypeOK, PostedInOrder, alive, NEW report \in unposted
  PROVE  /\ report \in BridgeResponses /\ IsReport(report)
         /\ report.state \notin Overdue(report.key)
BY DEF PyTypeOK, PostedInOrder, Overdue, WorkerStates, StateReports, BridgeResponses, IsReport

\* A worker's last posts.
LEMMA PostsInOrder ==
  ASSUME PyTypeOK, PostedInOrder, alive, NEW k \in Keys,
         NEW x \in StateReports, NEW y \in Results, x.key = k, y.key = k, PostsThen(x, y),
         \A j \in Keys \ {k} : task'[j] = task[j] /\ instances'[j] = instances[j]
  PROVE  (\A j \in Keys : Followed(stdout', j, Overdue(j)')) /\ unposted' \subseteq unposted
<1>1. /\ stdout \in Seq(BridgeResponses) /\ x \in BridgeResponses /\ y \in BridgeResponses
      /\ y.type = "result" /\ ~IsReport(y)
  BY ResponseTypes DEF PyTypeOK, BridgeResponses
<1>2. \A j \in Keys \ {k} : Overdue(j)' = Overdue(j) /\ Followed(stdout, j, Overdue(j))
  BY DEF Overdue, PostedInOrder
<1> DEFINE s1 == Append(stdout, x)
<1>3. s1 \in Seq(BridgeResponses) /\ \A j \in Keys \ {k} : Followed(s1, j, Overdue(j))
  BY <1>1, <1>2, FollowedAppend, AppendProperties
<1>4. CASE stdout' = stdout \o <<x, y>> /\ UNCHANGED unposted
  <2>1. stdout' = Append(s1, y)
    BY <1>1, <1>4, TwoFacts
  <2> HIDE DEF s1
  <2>2. \A j \in Keys \ {k} : Followed(stdout', j, Overdue(j))
    BY <1>1, <1>3, <2>1, FollowedAppend
  <2>3. Followed(stdout', k, Overdue(k)')
    BY <1>1, <1>3, <2>1, FollowedAppend
  <2>4. QED
    BY <1>2, <1>4, <2>2, <2>3
<1>5. ASSUME NEW report \in unposted, stdout' = stdout \o <<x, report, y>>,
             unposted' = unposted \ {report}
      PROVE  (\A j \in Keys : Followed(stdout', j, Overdue(j)')) /\ unposted' \subseteq unposted
  <2>1. /\ report \in BridgeResponses /\ IsReport(report)
        /\ report.state \notin Overdue(report.key)
    BY ThreadsPostOthers
  <2> DEFINE s2 == Append(s1, report)
  <2>2. stdout' = Append(s2, y)
    BY <1>1, <1>5, <2>1, ThreeFacts
  <2> HIDE DEF s1
  <2>3. s2 \in Seq(BridgeResponses) /\ \A j \in Keys \ {k} : Followed(s2, j, Overdue(j))
    BY <1>3, <2>1, FollowedAppend, AppendProperties
  <2> HIDE DEF s2
  <2>4. \A j \in Keys \ {k} : Followed(stdout', j, Overdue(j))
    BY <1>1, <2>2, <2>3, FollowedAppend
  <2>5. Followed(stdout', k, Overdue(k)')
    BY <1>1, <2>2, <2>3, FollowedAppend
  <2>6. QED
    BY <1>2, <1>5, <2>4, <2>5
<1>6. QED
  BY <1>4, <1>5 DEF PostsThen

\* One line is posted.
LEMMA LineInOrder ==
  ASSUME PyTypeOK, PostedInOrder, alive, NEW x \in BridgeResponses, stdout' = Append(stdout, x),
         NEW k \in Keys, k = x.key,
         \A j \in Keys \ {k} : task'[j] = task[j] /\ instances'[j] = instances[j],
         \/ x.type = "result"
         \/ Overdue(k)' \subseteq Overdue(k) /\ x.state \notin Overdue(k)'
  PROVE  \A j \in Keys : Followed(stdout', j, Overdue(j)')
<1>1. stdout \in Seq(BridgeResponses)
  BY DEF PyTypeOK
<1>2. ASSUME NEW j \in Keys \ {k} PROVE Followed(stdout', j, Overdue(j)')
  <2>1. Overdue(j)' = Overdue(j) /\ Followed(stdout, j, Overdue(j))
    BY DEF Overdue, PostedInOrder
  <2>2. Followed(stdout', j, Overdue(j))
    BY <1>1, <2>1, FollowedAppend
  <2>3. QED
    BY <2>1, <2>2
<1>3. Followed(stdout', k, Overdue(k)')
  <2>1. PICK states : states = Overdue(k)'
    OBVIOUS
  <2>2. CASE x.type = "result"
    BY <1>1, <2>1, <2>2, FollowedAppend
  <2>3. CASE Overdue(k)' \subseteq Overdue(k) /\ x.state \notin Overdue(k)'
    <3>1. Followed(stdout, k, states)
      BY <2>1, <2>3, FollowedLess DEF PostedInOrder
    <3>2. QED
      BY <1>1, <2>1, <2>3, <3>1, FollowedAppend
  <2>4. QED
    BY <2>2, <2>3
<1>4. QED
  BY <1>2, <1>3

LEMMA WorkerPostsInOrder ==
  ASSUME PyTypeOK, OneEach, PostedInOrder, NEW k \in Keys, WorkerStep(k)
  PROVE  PostedInOrder'
<1>0. alive /\ alive' = alive
  BY DEF WorkerStep, Takes, StartBegins, StartRepeated, StartRefused, StartSucceeds, StartReported,
         StartFails, StopAbsent, StopBegins, StopSucceeds, StopTimesOut
<1>1. /\ \A j \in Keys : Followed(stdout, j, Overdue(j))
      /\ \A r \in unposted : /\ r.state \in {"running", "errored"}
                             /\ instances[r.key] \notin {"absent", "starting"}
      /\ \A r \in unposted : r.key \in Keys
  BY <1>0 DEF PostedInOrder, PyTypeOK, StateReports
<1>2. /\ instances \in [Keys -> InstanceStates]
      /\ task \in [Keys -> LifecycleRequests \union {Idle}]
      /\ queue[k] \in Seq(LifecycleRequests)
  BY DEF PyTypeOK
<1>3. ASSUME NEW type, Takes(k, type)
      PROVE  /\ Head(queue[k]) \in BridgeRequests /\ Head(queue[k]) # Idle /\ task[k] = Idle
             /\ Head(queue[k]).type = type
  BY <1>2, <1>3, HeadTailProperties, RequestIsNoReport, LifecycleIsRequest DEF Takes
<1>4. ASSUME task[k].type \in {"start-driver", "stop-driver"}
      PROVE  task[k] # Idle /\ task[k] \in BridgeRequests /\ task[k].key = k
  <2>1. task[k] # Idle
    BY <1>4 DEF Idle
  <2>2. task[k].key = k
    BY <2>1 DEF OneEach, Keyed, InTask
  <2>3. QED
    BY <1>2, <2>1, <2>2, LifecycleIsRequest
<1>5. \A r \in BridgeRequests : \A ok \in BOOLEAN :
        Result(r, ok) \in BridgeResponses /\ Result(r, ok).type = "result"
        /\ Result(r, ok) \in Results /\ Result(r, ok).key = r.key
  BY RequestIsNoReport DEF BridgeResponses
<1>6. CASE StartBegins(k) \/ StopBegins(k)
  <2>1. PICK state \in {"starting", "stopping"} :
          /\ instances' = [instances EXCEPT ![k] = state]
          /\ stdout' = Append(stdout, StateReport(k, state))
          /\ state = "starting" => instances[k] = "absent"
    BY <1>6 DEF StartBegins, StopBegins
  <2>2. /\ task[k] = Idle /\ Head(queue[k]) # Idle /\ task' = [task EXCEPT ![k] = Head(queue[k])]
        /\ unposted' = unposted
    BY <1>3, <1>6 DEF StartBegins, StopBegins
  <2>3. StateReport(k, state) \in BridgeResponses /\ StateReport(k, state).key = k
        /\ StateReport(k, state).state = state
    BY ReportFields DEF DriverStates, BridgeResponses
  <2>4. \A j \in Keys \ {k} : task'[j] = task[j] /\ instances'[j] = instances[j]
    BY <1>2, <2>1, <2>2
  <2>5. task'[k] # Idle /\ instances'[k] = state
    BY <1>2, <2>1, <2>2
  <2>6. Overdue(k)' = {"available"}
    BY <2>5 DEF Overdue
  <2>7. Overdue(k)' \subseteq Overdue(k) /\ state \notin Overdue(k)'
    <3>1. "available" \in Overdue(k)
      BY DEF Overdue, WorkerStates, DriverStates
    <3>2. state # "available"
      OBVIOUS
    <3>3. QED
      BY <2>6, <3>1, <3>2
  <2>8. \A j \in Keys : Followed(stdout', j, Overdue(j)')
    BY <1>0, <2>1, <2>3, <2>4, <2>7, LineInOrder
  <2>9. \A r \in unposted : instances'[r.key] \notin {"absent", "starting"}
    BY <1>1, <2>1, <2>4, <2>5
  <2>10. QED
    BY <1>1, <2>2, <2>8, <2>9 DEF PostedInOrder
<1>7. CASE StartRepeated(k)
  <2>1. /\ task[k] = Idle /\ Head(queue[k]) # Idle /\ task' = [task EXCEPT ![k] = Head(queue[k])]
        /\ UNCHANGED <<stdout, instances, unposted>>
    BY <1>3, <1>7 DEF StartRepeated
  <2>2. \A j \in Keys : Overdue(j)' \subseteq Overdue(j)
    BY <1>2, <2>1 DEF Overdue, WorkerStates, DriverStates
  <2>3. \A j \in Keys : Followed(stdout', j, Overdue(j)')
    BY <1>1, <2>1, <2>2 DEF Followed
  <2>4. QED
    BY <1>1, <2>1, <2>3 DEF PostedInOrder
<1>8. CASE StartRefused(k) \/ StopAbsent(k)
  <2>1. PICK ok \in BOOLEAN : stdout' = Append(stdout, Result(Head(queue[k]), ok))
    BY <1>8 DEF StartRefused, StopAbsent
  <2>2. PICK y : y = Result(Head(queue[k]), ok)
    OBVIOUS
  <2>3. y \in BridgeResponses /\ y.type = "result" /\ y.key \in Keys
    <3>1. Head(queue[k]) \in BridgeRequests
      BY <1>3, <1>8 DEF StartRefused, StopAbsent
    <3>2. QED
      BY <1>5, <2>2, <3>1, ResponseTypes
  <2>4. UNCHANGED <<task, instances, unposted>>
    BY <1>8 DEF StartRefused, StopAbsent
  <2>5. \A j \in Keys : Followed(stdout', j, Overdue(j)')
    BY <1>0, <2>1, <2>2, <2>3, <2>4, LineInOrder
  <2>6. QED
    BY <1>1, <2>4, <2>5 DEF PostedInOrder
<1>9. CASE StartSucceeds(k)
  <2>1. /\ task[k] # Idle /\ instances' = [instances EXCEPT ![k] = "running"]
        /\ UNCHANGED <<stdout, task, unposted>>
    BY <1>4, <1>9 DEF StartSucceeds
  <2>2. \A j \in Keys : Overdue(j)' = Overdue(j)
    BY <1>2, <2>1 DEF Overdue
  <2>3. \A r \in unposted : instances'[r.key] \notin {"absent", "starting"}
    BY <1>1, <1>2, <2>1
  <2>4. QED
    BY <1>1, <2>1, <2>2, <2>3 DEF PostedInOrder
<1>10. CASE StartFails(k)
  <2>1. /\ task[k] \in BridgeRequests /\ task[k].key = k
        /\ instances[k] = "starting"
        /\ instances' = [instances EXCEPT ![k] = "absent"]
        /\ stdout' = Append(stdout, Result(task[k], FALSE)) /\ task' = [task EXCEPT ![k] = Idle]
        /\ unposted' = unposted
    BY <1>4, <1>10 DEF StartFails, FinishTask
  <2>2. PICK y : y = Result(task[k], FALSE)
    OBVIOUS
  <2>3. y \in BridgeResponses /\ y.type = "result" /\ y.key = k
    BY <1>5, <2>1, <2>2
  <2>4. \A j \in Keys \ {k} : task'[j] = task[j] /\ instances'[j] = instances[j]
    BY <1>2, <2>1
  <2>5. \A j \in Keys : Followed(stdout', j, Overdue(j)')
    BY <1>0, <2>1, <2>2, <2>3, <2>4, LineInOrder
  <2>6. \A r \in unposted : instances'[r.key] \notin {"absent", "starting"}
    BY <1>1, <2>1, <2>4
  <2>7. QED
    BY <1>1, <2>1, <2>5, <2>6 DEF PostedInOrder
<1>11. ASSUME NEW x \in StateReports, NEW ok \in BOOLEAN, x.key = k,
              task[k].type \in {"start-driver", "stop-driver"},
              PostsThen(x, Result(task[k], ok)), FinishTask(k),
              \A j \in Keys \ {k} : instances'[j] = instances[j],
              \/ instances'[k] \notin {"absent", "starting"}
              \/ \A report \in unposted : report.key # k
       PROVE  PostedInOrder'
  <2>1. PICK y : y = Result(task[k], ok)
    OBVIOUS
  <2>2. y \in Results /\ y.key = k
    BY <1>4, <1>5, <1>11, <2>1
  <2>3. \A j \in Keys \ {k} : task'[j] = task[j] /\ instances'[j] = instances[j]
    BY <1>2, <1>11 DEF FinishTask
  <2>4. (\A j \in Keys : Followed(stdout', j, Overdue(j)')) /\ unposted' \subseteq unposted
    BY <1>0, <1>11, <2>1, <2>2, <2>3, PostsInOrder
  <2>5. \A r \in unposted : instances'[r.key] \notin {"absent", "starting"}
    BY <1>1, <1>11, <2>3
  <2>6. QED
    BY <1>1, <2>4, <2>5 DEF PostedInOrder
<1>12. StateReport(k, "running") \in StateReports /\ StateReport(k, "available") \in StateReports
       /\ StateReport(k, "errored") \in StateReports /\ StateReport(k, "running").key = k
       /\ StateReport(k, "available").key = k /\ StateReport(k, "errored").key = k
  BY ReportFields DEF DriverStates
<1>13. CASE StartReported(k)
  <2>1. /\ task[k].type = "start-driver" /\ instances[k] # "starting"
        /\ PostsThen(StateReport(k, "running"), Result(task[k], TRUE))
        /\ FinishTask(k) /\ instances' = instances
    BY <1>13 DEF StartReported
  <2>2. instances[k] # "absent" \/ \A report \in unposted : report.key # k
    BY <1>1
  <2>3. QED
    BY <1>11, <1>12, <2>1, <2>2
<1>14. CASE StopSucceeds(k)
  <2>1. /\ task[k].type = "stop-driver" /\ \A report \in unposted : report.key # k
        /\ PostsThen(StateReport(k, "available"), Result(task[k], TRUE))
        /\ FinishTask(k) /\ instances' = [instances EXCEPT ![k] = "absent"]
    BY <1>14 DEF StopSucceeds
  <2>2. \A j \in Keys \ {k} : instances'[j] = instances[j]
    BY <1>2, <2>1
  <2>3. QED
    BY <1>11, <1>12, <2>1, <2>2
<1>15. CASE StopTimesOut(k)
  <2>1. /\ task[k].type = "stop-driver"
        /\ PostsThen(StateReport(k, "errored"), Result(task[k], FALSE))
        /\ FinishTask(k) /\ instances' = [instances EXCEPT ![k] = "errored"]
    BY <1>15 DEF StopTimesOut
  <2>2. (\A j \in Keys \ {k} : instances'[j] = instances[j]) /\ instances'[k] = "errored"
    BY <1>2, <2>1
  <2>3. QED
    BY <1>11, <1>12, <2>1, <2>2
<1>20. QED
  BY <1>6, <1>7, <1>8, <1>9, <1>10, <1>13, <1>14, <1>15 DEF WorkerStep

LEMMA StepPostsInOrder ==
  ASSUME PyTypeOK, OneEach, PostedInOrder, [PyNext]_pyVars
  PROVE  PostedInOrder'
<1>1. stdout \in Seq(BridgeResponses) /\ instances \in [Keys -> InstanceStates]
  BY DEF PyTypeOK
<1>2. CASE UNCHANGED <<alive, stdout, unposted, instances, task>>
  BY <1>2 DEF PostedInOrder, Overdue
<1>3. CASE ReadSubscribe
  <2>1. PICK y : y = Result(Head(stdin), TRUE)
    OBVIOUS
  <2>2. alive /\ stdout' = Append(stdout, y) /\ UNCHANGED <<instances, task, unposted>>
    BY <1>3, <2>1 DEF ReadSubscribe
  <2>3. y \in BridgeResponses /\ y.type = "result" /\ y.key \in Keys
    <3>1. stdin \in Seq(BridgeRequests) /\ stdin # <<>>
      BY <1>3 DEF ReadSubscribe, PyTypeOK
    <3>2. Head(stdin) \in BridgeRequests
      BY <3>1, HeadTailProperties
    <3>3. QED
      BY <2>1, <3>2, RequestIsNoReport, ResponseTypes DEF BridgeResponses
  <2>4. \A j \in Keys : Followed(stdout', j, Overdue(j)')
    BY <2>2, <2>3, LineInOrder
  <2>5. QED
    BY <2>2, <2>4 DEF PostedInOrder
<1>4. CASE PublishedPosted
  <2>1. PICK report \in unposted :
          stdout' = Append(stdout, report) /\ unposted' = unposted \ {report}
    BY <1>4 DEF PublishedPosted
  <2>2. alive /\ UNCHANGED <<instances, task>>
    BY <1>4 DEF PublishedPosted
  <2>3. report \in BridgeResponses /\ report.state \notin Overdue(report.key) /\ report.key \in Keys
    BY <2>2, ThreadsPostOthers, ResponseTypes
  <2>4. \A j \in Keys : Overdue(j)' = Overdue(j)
    BY <2>2 DEF Overdue
  <2>5. \A j \in Keys : Followed(stdout', j, Overdue(j)')
    BY <2>1, <2>2, <2>3, <2>4, LineInOrder
  <2>6. QED
    BY <2>1, <2>2, <2>5 DEF PostedInOrder
<1>5. CASE \E k \in Keys, state \in {"running", "errored"} : DriverPublishes(k, state)
  <2>1. PICK k \in Keys, state \in {"running", "errored"} : DriverPublishes(k, state)
    BY <1>5
  <2>2. /\ alive /\ instances[k] = "running" /\ instances' = [instances EXCEPT ![k] = state]
        /\ unposted' = unposted \union {StateReport(k, state)} /\ UNCHANGED <<stdout, task>>
    BY <2>1 DEF DriverPublishes
  <2>3. instances'[k] \notin {"absent", "starting"}
        /\ \A j \in Keys \ {k} : instances'[j] = instances[j]
    BY <1>1, <2>2
  <2>4. \A j \in Keys : Overdue(j)' = Overdue(j)
    BY <2>2, <2>3 DEF Overdue
  <2>5. \A r \in unposted' : /\ r.state \in {"running", "errored"}
                             /\ instances'[r.key] \notin {"absent", "starting"}
    <3>1. StateReport(k, state).key = k /\ StateReport(k, state).state = state
      BY DEF StateReport
    <3>2. \A r \in unposted : r.key \in Keys
      BY DEF PyTypeOK, StateReports
    <3>3. QED
      BY <2>2, <2>3, <3>1, <3>2 DEF PostedInOrder
  <2>6. QED
    BY <2>2, <2>4, <2>5 DEF PostedInOrder
<1>6. CASE NodeActs
  <2>1. \A j \in Keys : Overdue(j)' = Overdue(j)
    BY <1>6 DEF NodeActs, Overdue
  <2>2. ASSUME alive, NEW j \in Keys PROVE Followed(stdout', j, Overdue(j))
    <3>1. Followed(stdout, j, Overdue(j))
      BY <2>2 DEF PostedInOrder
    <3>2. stdout' = stdout \/ (stdout # <<>> /\ stdout' = Tail(stdout))
      BY <1>6 DEF NodeActs
    <3>3. QED
      BY <1>1, <3>1, <3>2, FollowedTail
  <2>3. QED
    BY <1>6, <2>1, <2>2 DEF NodeActs, PostedInOrder
<1>7. CASE Spawn \/ Exit
  <2>1. alive' => stdout' = <<>> /\ unposted' = {}
    BY <1>7 DEF Spawn, Exit, ResetProcess
  <2>2. \A k, states : Followed(<<>>, k, states)
    BY DEF Followed
  <2>3. QED
    BY <2>1, <2>2 DEF PostedInOrder
<1>8. QED
  BY <1>2, <1>3, <1>4, <1>5, <1>6, <1>7, WorkerPostsInOrder
  DEF PyNext, pyVars, BridgeStep, ReadLifecycle

\* Once the reply is read, nothing is left on its way that the worker reported; of
\* an instance that is gone, nothing at all.
LEMMA NoneOverdue ==
  ASSUME PyTypeOK, PostedInOrder, alive, NEW k \in Keys, Replies(k) = {}
  PROVE  /\ \A r \in Reports(k) : r.state # "available"
         /\ InTask(k) = {} => \A r \in Reports(k) : r.state \notin WorkerStates
         /\ InTask(k) = {} /\ instances[k] = "absent" => Reports(k) = {}
<1>1. /\ stdout \in Seq(BridgeResponses) /\ Range(stdout) \subseteq BridgeResponses
      /\ Followed(stdout, k, Overdue(k))
  BY RangeOfSeq DEF PyTypeOK, PostedInOrder
<1>2. ASSUME NEW r \in Reports(k) PROVE r.state \notin Overdue(k) /\ r.state \in DriverStates
  <2>1. r \in Range(stdout) /\ IsReport(r) /\ r.key = k
    BY DEF Reports
  <2>2. r.state \in DriverStates
    BY <1>1, <2>1, ResponseTypes DEF StateReports
  <2>3. \A n \in Range(stdout) : ~(n.type = "result" /\ n.key = k)
    BY DEF Replies
  <2>4. r.state \notin Overdue(k)
    BY <1>1, <2>1, <2>3, FollowedMeans
  <2>5. QED
    BY <2>2, <2>4
<1>3. InTask(k) = {} <=> task[k] = Idle
  BY DEF InTask
<1>4. QED
  BY <1>2, <1>3 DEF Overdue, WorkerStates, DriverStates

-----------------------------------------------------------------------------
(* What the manager makes of it.  While no request has timed out, it knows of *)
(* every instance that exists, whatever the drivers report.                   *)

StartTracked(m, k, i, W, P, R) ==
  /\ Present(m, k) /\ \A r \in R : r.state \notin {"stopping", "available"}
  /\ W # {} => i = "absent"
  /\ \A p \in P : ~p.ok => i = "absent"
  /\ m.inFlight[k].result = "error" => i = "absent"

StopTracked(m, k, i, P, R) ==
  /\ m.actual[k] # "starting" /\ \A r \in R : r.state # "starting"
  /\ \A p \in P : p.ok => i = "absent"
  /\ m.inFlight[k].result = "ok" => i = "absent"

Still(m, k) == m.actual[k] \notin {"starting", "stopping"}

\* `m` knows of instance k in state `i`, while the requests W wait and the
\* replies P and the reports R are on their way.
Tracks(m, k, i, W, P, R) ==
  /\ i # "absent" => Present(m, k)
  /\ (\E r \in R : r.state = "available") => i = "absent"
  /\ ~Busy(m, k) => Still(m, k)
  /\ Busy(m, k) =>
       \/ m.inFlight[k].kind = "start" /\ StartTracked(m, k, i, W, P, R)
       \/ m.inFlight[k].kind = "stop" /\ StopTracked(m, k, i, P, R)
       \/ m.inFlight[k].kind = "sync" /\ Still(m, k) /\ \A r \in R : r.state \notin WorkerStates

Tracked(k) == Tracks(mgr, k, instances[k], Waiting(k), Replies(k), Reports(k))
Tracking == timeouts = 0 /\ alive /\ mgr.bridgeReady => \A k \in Keys : Tracked(k)

LEMMA TracksIgnores ==
  ASSUME NEW m, NEW n, NEW k, NEW i, NEW W, NEW P, NEW R, Tracks(m, k, i, W, P, R),
         n.inFlight[k] = m.inFlight[k], n.actual[k] = m.actual[k]
  PROVE  Tracks(n, k, i, W, P, R)
BY DEF Tracks, StartTracked, StopTracked, Still, Present, Busy

LEMMA PassTracks ==
  ASSUME NEW m \in Managers, NEW id \in Nat, NEW k \in Keys,
         NEW i, NEW W, NEW V, NEW P, NEW R, Tracks(m, k, i, W, P, R),
         ~Busy(m, k) => W = {} /\ P = {} /\ \A r \in R : r.state \notin WorkerStates,
         Kick(m, id).inFlight[k] = m.inFlight[k] => V = W
  PROVE  Tracks(Kick(m, id), k, i, V, P, R)
<1>1. PICK n : n = Kick(m, id)
  OBVIOUS
<1>2. \/ PassLeaves(m, n, k) \/ PassStarts(m, n, k, id)
      \/ PassStops(m, n, k, id) \/ PassSyncs(m, n, k, id)
  BY <1>1, KickDoes
<1>3. CASE PassLeaves(m, n, k)
  <2>1. Tracks(n, k, i, W, P, R)
    BY <1>3, TracksIgnores DEF PassLeaves
  <2>2. QED
    BY <1>1, <1>3, <2>1 DEF PassLeaves
<1>4. ASSUME ~Busy(m, k)
      PROVE  /\ P = {} /\ \A r \in R : r.state \notin WorkerStates
             /\ i # "absent" => Present(m, k)
             /\ Still(m, k)
  BY <1>4 DEF Tracks
<1>5. CASE PassStarts(m, n, k, id)
  <2>1. ~Busy(m, k) /\ i = "absent" /\ n.actual[k] = "starting"
        /\ n.inFlight[k] = Lifecycle(m, "start", id)
    BY <1>4, <1>5 DEF PassStarts, MustStart
  <2>2. Busy(n, k) /\ n.inFlight[k].kind = "start"
    BY <2>1, OperationsAreBusy, LifecycleTypes DEF Busy, Lifecycle
  <2>3. StartTracked(n, k, i, V, P, R)
    BY <1>4, <2>1 DEF StartTracked, Present, WorkerStates
  <2>4. QED
    BY <1>1, <1>4, <2>1, <2>2, <2>3 DEF Tracks
<1>6. CASE PassStops(m, n, k, id)
  <2>1. ~Busy(m, k) /\ n.actual[k] = "stopping" /\ n.inFlight[k] = Lifecycle(m, "stop", id)
    BY <1>6 DEF PassStops
  <2>2. Busy(n, k) /\ n.inFlight[k].kind = "stop" /\ n.inFlight[k].result # "ok"
    BY <2>1, OperationsAreBusy, LifecycleTypes DEF Busy, Lifecycle, FirstOutcome
  <2>3. StopTracked(n, k, i, P, R)
    BY <1>4, <2>1, <2>2 DEF StopTracked, WorkerStates
  <2>4. QED
    BY <1>1, <1>4, <2>1, <2>2, <2>3 DEF Tracks, Present, WorkerStates
<1>7. CASE PassSyncs(m, n, k, id)
  <2>1. ~Busy(m, k) /\ n.actual[k] = m.actual[k]
        /\ n.inFlight[k] = Sync(m, SubscriptionChanges(m, k), id)
    BY <1>7 DEF PassSyncs
  <2>2. Busy(n, k) /\ n.inFlight[k].kind = "sync"
    <3>1. SubscriptionChanges(m, k) # {}
      BY <1>7 DEF PassSyncs, MustSync
    <3>2. Sync(m, SubscriptionChanges(m, k), id) \in Operations
      BY <3>1, SubscriptionChangesTypes, SyncTypes
    <3>3. QED
      BY <2>1, <3>2, OperationsAreBusy DEF Busy, Sync
  <2>3. QED
    BY <1>1, <1>4, <2>1, <2>2 DEF Tracks, Still, Present, WorkerStates
<1>8. QED
  BY <1>2, <1>3, <1>5, <1>6, <1>7

\* An operation whose request is settled, with no report of a worker's left on the
\* way, leaves the manager in the know.
LEMMA ConcludeTracks ==
  ASSUME NEW m \in Managers, NEW k \in Keys, Busy(m, k), m.inFlight[k].live,
         m.inFlight[k].result \in {"ok", "error"},
         NEW i, NEW R, Tracks(m, k, i, {}, {}, R)
  PROVE  Still(Conclude(m, k), k) /\ (i # "absent" => Present(Conclude(m, k), k))
<1>1. PICK n : n = Conclude(m, k)
  OBVIOUS
<1>2. PICK op : op = m.inFlight[k]
  OBVIOUS
<1>3. op.kind \in {"start", "stop", "sync"}
  BY <1>2, OperationsAreBusy DEF Busy, Managers
<1>4. CASE op.kind = "start"
  <2>1. /\ StartTracked(m, k, i, {}, {}, R)
        /\ n.actual[k] = IF op.result = "ok" THEN "running" ELSE "absent"
    BY <1>1, <1>2, <1>4, ConcludeDoes DEF Tracks
  <2>2. QED
    BY <1>1, <1>2, <2>1 DEF StartTracked, Still, Present
<1>5. CASE op.kind = "stop"
  <2>1. /\ StopTracked(m, k, i, {}, R) /\ (i # "absent" => Present(m, k))
        /\ n.actual[k] = IF op.result = "ok" THEN "absent"
                         ELSE IF m.actual[k] = "stopping" THEN "errored" ELSE m.actual[k]
    BY <1>1, <1>2, <1>5, ConcludeDoes DEF Tracks
  <2>2. CASE op.result = "ok"
    BY <1>1, <1>2, <2>1, <2>2 DEF StopTracked, Still, Present
  <2>3. CASE op.result = "error"
    BY <1>1, <1>2, <2>1, <2>3 DEF StopTracked, Still, Present
  <2>4. QED
    BY <1>2, <2>2, <2>3
<1>6. CASE op.kind = "sync"
  <2>1. n.actual[k] = m.actual[k] /\ Still(m, k) /\ (i # "absent" => Present(m, k))
    BY <1>1, <1>2, <1>6, ConcludeDoes DEF Tracks
  <2>2. QED
    BY <1>1, <2>1 DEF Still, Present
<1>7. QED
  BY <1>3, <1>4, <1>5, <1>6

LEMMA ProceedTracks ==
  ASSUME NEW m \in Managers, NEW k \in Keys, Busy(m, k), m.inFlight[k].live,
         m.inFlight[k].result \in {"ok", "error"}, NEW id \in Nat,
         NEW i, NEW R, Tracks(m, k, i, {}, {}, R), \A r \in R : r.state \notin WorkerStates,
         NEW V, ~Busy(Proceed(m, k, id), k) => V = {}
  PROVE  Tracks(Proceed(m, k, id), k, i, V, {}, R)
<1> DEFINE op == m.inFlight[k]
           n == Conclude(m, k)
           over == [n EXCEPT !.inFlight[k] = NoOperation]
           next == [n EXCEPT !.inFlight[k] = Sync(m, op.todo, id)]
           goesOn == op.live /\ op.kind = "sync" /\ op.todo # {}
<1>1. n \in Managers /\ op \in Operations /\ Still(n, k) /\ (i # "absent" => Present(n, k))
  BY ConcludeTypes, ConcludeTracks DEF Busy, Managers
<1>2. Proceed(m, k, id) = IF goesOn THEN next ELSE Kick(over, id)
  BY DEF Proceed
<1> HIDE DEF n
<1>3. CASE goesOn
  <2>1. Sync(m, op.todo, id) \in Operations
    <3>1. op.todo \in SUBSET Changes
      BY <1>1, <1>3, OperationsAreBusy
    <3>2. QED
      BY <1>3, <3>1, SyncTypes
  <2>2. PICK new : new = Sync(m, op.todo, id)
    OBVIOUS
  <2>3. next.inFlight[k] = new /\ next.actual = n.actual
    BY <1>1, <2>2 DEF Managers
  <2>4. new.kind = "sync" /\ new # NoOperation
    BY <2>1, <2>2, OperationsAreBusy DEF Sync
  <2> HIDE DEF next
  <2>5. Busy(next, k) /\ Still(next, k) /\ (i # "absent" => Present(next, k))
    BY <1>1, <2>3, <2>4 DEF Busy, Still, Present
  <2>6. Tracks(next, k, i, V, {}, R)
    BY <2>3, <2>4, <2>5 DEF Tracks, WorkerStates
  <2>7. QED
    BY <1>2, <1>3, <2>6
<1>4. CASE ~goesOn
  <2>1. over \in Managers /\ over.actual = n.actual /\ over.inFlight[k] = NoOperation
    BY <1>1 DEF Managers
  <2> HIDE DEF over
  <2>2. Tracks(over, k, i, {}, {}, R)
    BY <1>1, <2>1 DEF Tracks, Busy, Still, Present, WorkerStates
  <2>3. Kick(over, id).inFlight[k] = over.inFlight[k] => V = {}
    BY <1>2, <1>4, <2>1 DEF Busy
  <2>4. Tracks(Kick(over, id), k, i, V, {}, R)
    BY <2>1, <2>2, <2>3, PassTracks
  <2>5. QED
    BY <1>2, <1>4, <2>4
<1>5. QED
  BY <1>3, <1>4

LEMMA ProceedTracksElsewhere ==
  ASSUME NEW m \in Managers, NEW j \in Keys, Busy(m, j), m.inFlight[j].live,
         m.inFlight[j].result \in {"ok", "error"}, NEW id \in Nat,
         NEW k \in Keys, k # j,
         NEW i, NEW W, NEW V, NEW P, NEW R, Tracks(m, k, i, W, P, R),
         ~Busy(m, k) => W = {} /\ P = {} /\ \A r \in R : r.state \notin WorkerStates,
         Proceed(m, j, id).inFlight[k] = m.inFlight[k] => V = W
  PROVE  Tracks(Proceed(m, j, id), k, i, V, P, R)
<1> DEFINE op == m.inFlight[j]
           n == Conclude(m, j)
           over == [n EXCEPT !.inFlight[j] = NoOperation]
           next == [n EXCEPT !.inFlight[j] = Sync(m, op.todo, id)]
           goesOn == op.live /\ op.kind = "sync" /\ op.todo # {}
<1>1. n \in Managers /\ n.inFlight = m.inFlight /\ n.actual[k] = m.actual[k]
  BY ConcludeTypes, ConcludeDoes
<1>2. Proceed(m, j, id) = IF goesOn THEN next ELSE Kick(over, id)
  BY DEF Proceed
<1> HIDE DEF n
<1>3. ASSUME NEW p, p \in {over, next}
      PROVE  p.inFlight[k] = m.inFlight[k] /\ p.actual[k] = m.actual[k]
  BY <1>1, <1>3 DEF Managers
<1>4. over \in Managers
  BY <1>1 DEF Managers
<1> HIDE DEF over, next
<1>5. CASE goesOn
  <2>1. Tracks(next, k, i, W, P, R)
    BY <1>3, TracksIgnores
  <2>2. QED
    BY <1>2, <1>3, <1>5, <2>1
<1>6. CASE ~goesOn
  <2>1. Tracks(over, k, i, W, P, R)
    BY <1>3, TracksIgnores
  <2>2. ~Busy(over, k) => W = {} /\ P = {} /\ \A r \in R : r.state \notin WorkerStates
    BY <1>3 DEF Busy
  <2>3. Kick(over, id).inFlight[k] = over.inFlight[k] => V = W
    BY <1>2, <1>3, <1>6
  <2>4. Tracks(Kick(over, id), k, i, V, P, R)
    BY <1>4, <2>1, <2>2, <2>3, PassTracks
  <2>5. QED
    BY <1>2, <1>6, <2>4
<1>7. QED
  BY <1>5, <1>6

-----------------------------------------------------------------------------
(* Node's handlers keep the manager in the know. *)

\* Of an instance with no operation, no report of a worker's is on its way.
LEMMA FreeReports ==
  ASSUME PyTypeOK, PostedInOrder, alive, NEW k \in Keys, Alone(k), ~Awaits(mgr, k)
  PROVE  /\ Waiting(k) = {} /\ InTask(k) = {} /\ Replies(k) = {}
         /\ \A r \in Reports(k) : r.state \notin WorkerStates
<1>1. Waiting(k) = {} /\ InTask(k) = {} /\ Replies(k) = {}
  BY DEF Alone, Tokens, Held
<1>2. QED
  BY <1>1, NoneOverdue

LEMMA PassKeepsTrack ==
  ASSUME TypeOK, InTime, timeouts = 0, alive, NEW n \in Managers, n.inFlight = mgr.inFlight,
         Reconcile(n) \/ Update(n), UNCHANGED <<queue, task, instances>>,
         NEW k \in Keys, Replies(k)' \subseteq Replies(k),
         Tracks(n, k, instances[k], Waiting(k), Replies(k)', Reports(k)'),
         ~Busy(n, k) => \A r \in Reports(k)' : r.state \notin WorkerStates
  PROVE  Tracked(k)'
<1>0. NextId \in Nat
  BY BoundsAssumption DEF TypeOK, NextId
<1>1. Alone(k)
  BY RequestsAreAlone
<1>2. ~Busy(n, k) => Waiting(k) = {} /\ Replies(k)' = {}
  BY <1>1 DEF Alone, Tokens, Held, Busy, Awaits
<1>3. instances'[k] = instances[k]
  OBVIOUS
<1>4. CASE Update(n)
  <2>1. mgr' = n /\ Waiting(k)' = Waiting(k)
    BY <1>4, UpdateDoes DEF Sends
  <2>2. QED
    BY <1>3, <2>1 DEF Tracked
<1>5. CASE Reconcile(n)
  <2>1. PICK q : q = Kick(n, NextId)
    OBVIOUS
  <2>2. q \in Managers /\ Update(q)
    BY <1>0, <1>5, <2>1, KickTypes DEF Reconcile
  <2>3. mgr' = q /\ (q.inFlight[k] = n.inFlight[k] => Waiting(k)' = Waiting(k))
    BY <2>2, UpdateDoes DEF Sends
  <2>4. PICK V : V = Waiting(k)'
    OBVIOUS
  <2>5. PICK P : P = Replies(k)'
    OBVIOUS
  <2>6. PICK R : R = Reports(k)'
    OBVIOUS
  <2>7. Tracks(n, k, instances[k], Waiting(k), P, R)
    BY <2>5, <2>6
  <2>8. ~Busy(n, k) => Waiting(k) = {} /\ P = {} /\ \A r \in R : r.state \notin WorkerStates
    BY <1>2, <2>5, <2>6
  <2>9. Tracks(q, k, instances[k], V, P, R)
    BY <1>0, <2>1, <2>3, <2>4, <2>7, <2>8, PassTracks
  <2>10. QED
    BY <1>3, <2>3, <2>4, <2>5, <2>6, <2>9 DEF Tracked
<1>6. QED
  BY <1>4, <1>5

LEMMA PassesKeepTrack ==
  ASSUME TypeOK, InTime, PostedInOrder, timeouts = 0, alive, \A k \in Keys : Tracked(k),
         NEW k \in Keys, Passes \/ (Idles /\ mgr' = mgr)
  PROVE  Tracked(k)'
<1>1. CASE Passes
  <2>1. PICK n : SameBeliefs(mgr, n) /\ Reconcile(n)
    BY <1>1 DEF Passes
  <2>2. UNCHANGED_PY
    BY <1>1 DEF Passes
  <2>3. Replies(k)' = Replies(k) /\ Reports(k)' = Reports(k)
    BY <2>2 DEF UNCHANGED_PY, Replies, Reports
  <2>4. Tracks(n, k, instances[k], Waiting(k), Replies(k), Reports(k))
    BY <2>1, TracksIgnores DEF SameBeliefs, Tracked
  <2>5. ~Busy(n, k) => \A r \in Reports(k) : r.state \notin WorkerStates
    BY <2>1, RequestsAreAlone, FreeReports DEF SameBeliefs, Busy, Awaits, TypeOK
  <2>6. QED
    BY <2>1, <2>2, <2>3, <2>4, <2>5, PassKeepsTrack DEF SameBeliefs, UNCHANGED_PY
<1>2. CASE Idles /\ mgr' = mgr
  BY <1>2 DEF Idles, UNCHANGED_PY, Tracked, Waiting, InStdin, InQueue, Replies, Reports
<1>3. QED
  BY <1>1, <1>2

\* A reply settles the operation as the bridge ended it.
LEMMA AnswerTracks ==
  ASSUME NEW m, NEW k, NEW i, NEW P, NEW R, NEW S, S \subseteq R, NEW p \in P, Busy(m, k),
         Tracks(m, k, i, {}, P, R),
         NEW n, Busy(n, k), n.actual[k] = m.actual[k], n.inFlight[k].kind = m.inFlight[k].kind,
         n.inFlight[k].result = IF p.ok THEN "ok" ELSE "error"
  PROVE  Tracks(n, k, i, {}, {}, S)
<1>1. StartTracked(m, k, i, {}, P, R) => StartTracked(n, k, i, {}, {}, S)
  BY DEF StartTracked, Present
<1>2. StopTracked(m, k, i, P, R) => StopTracked(n, k, i, {}, S)
  BY DEF StopTracked
<1>3. QED
  BY <1>1, <1>2 DEF Tracks, Still, Present

\* A report is about the operation under way, or one of a driver that runs.
LEMMA ReportTracks ==
  ASSUME NEW m \in Managers, NEW k \in Keys, NEW i, NEW W, NEW P, NEW R, NEW S,
         Tracks(m, k, i, W, P, R), NEW r \in R, r.state \in DriverStates, S \subseteq R,
         ~Busy(m, k) => r.state \notin WorkerStates
  PROVE  Tracks(ReportState(m, k, r.state), k, i, W, P, S)
<1>1. PICK state : state = r.state
  OBVIOUS
<1>2. PICK n : n = ReportState(m, k, state)
  OBVIOUS
<1>3. n.inFlight = m.inFlight
  BY <1>1, <1>2, ReportKeeps DEF BeliefsOnly
<1>4. n.actual[k] = IF state = "available" THEN "absent" ELSE state
  <2>1. CASE state = "available"
    BY <1>2, <2>1 DEF ReportState, DropActual, Managers
  <2>2. CASE state # "available"
    BY <1>2, <2>2 DEF ReportState, Managers
  <2>3. QED
    BY <2>1, <2>2
<1>5. state # "absent"
  BY <1>1 DEF DriverStates
<1>6. /\ i # "absent" => Present(n, k)
      /\ (\E x \in S : x.state = "available") => i = "absent"
  BY <1>1, <1>4, <1>5 DEF Tracks, Present
<1>7. state \notin WorkerStates => Still(n, k)
  BY <1>1, <1>4 DEF Still, WorkerStates
<1>8. StartTracked(m, k, i, W, P, R) => StartTracked(n, k, i, W, P, S)
  BY <1>1, <1>3, <1>4, <1>5 DEF StartTracked, Present
<1>9. StopTracked(m, k, i, P, R) => StopTracked(n, k, i, P, S)
  <2>1. "absent" # "starting"
    OBVIOUS
  <2>2. QED
    BY <1>1, <1>3, <1>4, <2>1 DEF StopTracked
<1>10. Busy(n, k) <=> Busy(m, k)
  BY <1>3 DEF Busy
<1>11. Tracks(n, k, i, W, P, S)
  BY <1>1, <1>3, <1>6, <1>7, <1>8, <1>9, <1>10 DEF Tracks
<1>12. QED
  BY <1>1, <1>2, <1>11

LEMMA LineKeepsTrack ==
  ASSUME TypeOK, InTime, PostedInOrder, timeouts = 0, alive, \A k \in Keys : Tracked(k),
         HandleLine, NEW k \in Keys
  PROVE  Tracked(k)'
<1>0. mgr \in Managers /\ PyTypeOK /\ OneEach
  BY DEF TypeOK, InTime
<1>1. PICK line : line = Head(stdout)
  OBVIOUS
<1>2. /\ stdout # <<>> /\ stdout' = Tail(stdout)
      /\ UNCHANGED <<alive, queue, task, instances>>
  BY DEF HandleLine
<1>3. PICK j : j = line.key
  OBVIOUS
<1>4. /\ line \in BridgeResponses /\ j \in Keys
      /\ Replies(k)' \subseteq Replies(k) /\ Reports(k)' \subseteq Reports(k)
      /\ k # j => Replies(k)' = Replies(k) /\ Reports(k)' = Reports(k)
  BY <1>0, <1>1, <1>2, <1>3, StdoutTail, ResponseTypes
<1>5. Tracked(k) /\ Alone(k) /\ Alone(j)
  BY <1>4, RequestsAreAlone
<1>6. instances'[k] = instances[k]
  BY <1>2
<1>7. ~Busy(mgr, k) => \A r \in Reports(k) : r.state \notin WorkerStates
  BY <1>0, <1>5, FreeReports DEF Awaits
<1>8. CASE line.type = "result" /\ stdin' = stdin
  <2>1. /\ line \in Replies(j) /\ Replies(j) = {line} \union Replies(j)'
        /\ Differ(Replies(j)', {line})
    BY <1>0, <1>1, <1>2, <1>3, <1>4, <1>8, StdoutTail
  <2>2. /\ Awaits(mgr, j) /\ line.id = mgr.inFlight[j].id /\ Waiting(j) = {}
        /\ Replies(j)' = {}
    <3>1. Awaits(mgr, j) /\ line.id = mgr.inFlight[j].id /\ Waiting(j) = {}
      BY <1>5, <2>1 DEF Alone, Tokens
    <3>2. \A p \in Replies(j)' : FALSE
      BY <1>5, <2>1 DEF Alone, Differ
    <3>3. QED
      BY <3>1, <3>2
  <2>3. PICK result : result = IF line.ok THEN "ok" ELSE "error"
    OBVIOUS
  <2>4. mgr' = Noted(j, result) /\ result \in {"ok", "error"}
    BY <1>1, <1>3, <1>8, <2>2, <2>3 DEF HandleLine, Answers, Noted
  <2>5. PICK n : n = Noted(j, result)
    OBVIOUS
  <2>6. /\ \A h \in Keys \ {j} : n.inFlight[h] = mgr.inFlight[h]
        /\ n.inFlight[j].result = result /\ n.inFlight[j].kind = mgr.inFlight[j].kind
        /\ Busy(n, j) /\ Busy(mgr, j)
    BY <1>0, <1>4, <2>2, <2>4, <2>5, NotedDoes
  <2>7. n.actual = mgr.actual
    BY <1>0, <2>5 DEF Noted, Managers
  <2>8. Waiting(k)' = Waiting(k)
    BY <1>2, <1>8 DEF Waiting, InStdin, InQueue
  <2>9. CASE k # j
    <3>1. Tracks(n, k, instances[k], Waiting(k), Replies(k), Reports(k))
      BY <1>5, <2>6, <2>7, <2>9, TracksIgnores DEF Tracked
    <3>2. QED
      BY <1>4, <1>6, <2>4, <2>5, <2>8, <2>9, <3>1 DEF Tracked
  <2>10. CASE k = j
    <3>1. Tracks(mgr, k, instances[k], {}, Replies(k), Reports(k))
      BY <1>5, <2>2, <2>10 DEF Tracked
    <3>2. PICK S : S = Reports(k)'
      OBVIOUS
    <3>3. Tracks(n, k, instances[k], {}, {}, S)
      BY <1>4, <2>1, <2>3, <2>6, <2>7, <2>10, <3>1, <3>2, AnswerTracks
    <3>4. Waiting(k)' = {} /\ Replies(k)' = {}
      BY <2>2, <2>8, <2>10
    <3>5. QED
      BY <1>6, <2>4, <2>5, <3>2, <3>3, <3>4 DEF Tracked
  <2>11. QED
    BY <2>9, <2>10
<1>9. CASE /\ line.type = "driver-state"
           /\ \/ Reconcile(ReportState(mgr, j, line.state))
              \/ Update(ReportState(mgr, j, line.state))
  <2>1. line.state \in DriverStates
    BY <1>4, <1>9 DEF BridgeResponses, Results, StateReports
  <2>2. PICK n : n = ReportState(mgr, j, line.state)
    OBVIOUS
  <2>3. n \in Managers /\ n.inFlight = mgr.inFlight
    BY <1>0, <1>4, <2>1, <2>2, ReportStateTypes, ReportKeeps DEF BeliefsOnly
  <2>4. Reports(j) = {line} \union Reports(j)' /\ Replies(j)' = Replies(j)
        /\ Replies(k)' = Replies(k)
    BY <1>0, <1>1, <1>2, <1>3, <1>4, <1>9, StdoutTail
  <2>5. ~Busy(n, k) => \A r \in Reports(k)' : r.state \notin WorkerStates
    BY <1>4, <1>7, <2>3 DEF Busy
  <2>6. Tracks(n, k, instances[k], Waiting(k), Replies(k), Reports(k)')
    <3>1. CASE k # j
      <4>1. n.actual[k] = mgr.actual[k]
        <5>1. CASE line.state = "available"
          BY <1>0, <2>2, <3>1, <5>1 DEF ReportState, DropActual, Managers
        <5>2. CASE line.state # "available"
          BY <1>0, <2>2, <3>1, <5>2 DEF ReportState, Managers
        <5>3. QED
          BY <5>1, <5>2
      <4>2. Tracks(n, k, instances[k], Waiting(k), Replies(k), Reports(k))
        BY <1>5, <2>3, <4>1, TracksIgnores DEF Tracked
      <4>3. QED
        BY <1>4, <3>1, <4>2
    <3>2. CASE k = j
      <4>1. PICK S : S = Reports(k)'
        OBVIOUS
      <4>2. line \in Reports(k) /\ S \subseteq Reports(k)
        BY <1>4, <2>4, <3>2, <4>1
      <4>3. ~Busy(mgr, k) => line.state \notin WorkerStates
        BY <1>7, <4>2
      <4>4. Tracks(mgr, k, instances[k], Waiting(k), Replies(k), Reports(k))
        BY <1>5 DEF Tracked
      <4>5. Tracks(ReportState(mgr, k, line.state), k, instances[k], Waiting(k), Replies(k), S)
        BY <1>0, <2>1, <4>2, <4>3, <4>4, ReportTracks
      <4>6. QED
        BY <2>2, <3>2, <4>1, <4>5
    <3>3. QED
      BY <3>1, <3>2
  <2>7. Tracks(n, k, instances[k], Waiting(k), Replies(k)', Reports(k)')
    BY <2>4, <2>6
  <2>8. QED
    BY <1>2, <1>9, <2>2, <2>3, <2>4, <2>5, <2>7, PassKeepsTrack
<1>10. QED
  BY <1>1, <1>3, <1>8, <1>9 DEF HandleLine

LEMMA ResumeKeepsTrack ==
  ASSUME TypeOK, InTime, PostedInOrder, timeouts = 0, alive, mgr.bridgeReady, Life,
         \A k \in Keys : Tracked(k), NEW j \in Keys, Resume(j), NEW k \in Keys
  PROVE  Tracked(k)'
<1>0. mgr \in Managers /\ NextId \in Nat /\ PyTypeOK
  BY BoundsAssumption DEF TypeOK, NextId
<1>1. /\ Busy(mgr, j) /\ mgr.inFlight[j].result # "none"
      /\ Update(Proceed(mgr, j, NextId)) /\ UNCHANGED_PY
  BY DEF Resume, Settled
<1>2. mgr.inFlight[j].live /\ mgr.inFlight[j].result \in {"ok", "error"}
  <2>1. mgr.inFlight[j] \in Operations
    BY <1>0, <1>1 DEF Busy, Managers
  <2>2. mgr.inFlight[j].result \in Outcomes
    BY <2>1, OperationsAreBusy
  <2>3. QED
    BY <1>1, <2>2 DEF Life, Outcomes
<1>3. Tracked(k) /\ Alone(k)
  BY RequestsAreAlone
<1>4. /\ instances'[k] = instances[k] /\ Replies(k)' = Replies(k) /\ Reports(k)' = Reports(k)
      /\ UNCHANGED <<queue, task>>
  BY <1>1 DEF UNCHANGED_PY, Replies, Reports
<1>5. PICK q : q = Proceed(mgr, j, NextId)
  OBVIOUS
<1>6. q \in Managers /\ Update(q)
  BY <1>0, <1>1, <1>5, ProceedTypes
<1>7. mgr' = q /\ (~Sends(mgr, q, k) => Waiting(k)' = Waiting(k))
  BY <1>4, <1>6, UpdateDoes
<1>8. PICK V : V = Waiting(k)'
  OBVIOUS
<1>9. ~Awaits(mgr, k) => /\ Waiting(k) = {} /\ Replies(k) = {}
                         /\ \A r \in Reports(k) : r.state \notin WorkerStates
  BY <1>0, <1>3, FreeReports
<1>10. CASE k # j
  <2>1. q.inFlight[k] = mgr.inFlight[k] => V = Waiting(k)
    BY <1>7, <1>8 DEF Sends
  <2>2. ~Busy(mgr, k) => /\ Waiting(k) = {} /\ Replies(k) = {}
                         /\ \A r \in Reports(k) : r.state \notin WorkerStates
    BY <1>9 DEF Awaits
  <2>3. Tracks(mgr, k, instances[k], Waiting(k), Replies(k), Reports(k))
    BY <1>3 DEF Tracked
  <2>4. Tracks(q, k, instances[k], V, Replies(k), Reports(k))
    BY <1>0, <1>1, <1>2, <1>5, <1>10, <2>1, <2>2, <2>3, ProceedTracksElsewhere
  <2>5. QED
    BY <1>4, <1>7, <1>8, <2>4 DEF Tracked
<1>11. CASE k = j
  <2>1. Waiting(k) = {} /\ Replies(k) = {} /\ \A r \in Reports(k) : r.state \notin WorkerStates
    BY <1>1, <1>9, <1>11 DEF Awaits
  <2>2. Tracks(mgr, k, instances[k], {}, {}, Reports(k))
    BY <1>3, <2>1 DEF Tracked
  <2>3. ~Busy(q, k) => V = {}
    BY <1>7, <1>8, <2>1 DEF Sends, Awaits
  <2>4. Tracks(Proceed(mgr, k, NextId), k, instances[k], V, {}, Reports(k))
    BY <1>0, <1>1, <1>2, <1>5, <1>11, <2>1, <2>2, <2>3, ProceedTracks
  <2>5. QED
    BY <1>4, <1>5, <1>7, <1>8, <1>11, <2>1, <2>4 DEF Tracked
<1>12. QED
  BY <1>10, <1>11

LEMMA HandledKeepsTrack ==
  ASSUME TypeOK, InTime, PostedInOrder, timeouts = 0, alive, mgr.bridgeReady, Life,
         \A k \in Keys : Tracked(k), NodeHandles
  PROVE  \A k \in Keys : Tracked(k)'
BY PassesKeepTrack, LineKeepsTrack, ResumeKeepsTrack DEF NodeHandles, Idles

\* A fresh bridge runs nothing, and the manager starts from that.
LEMMA ReadyKeepsTrack ==
  ASSUME TypeOK, Life, InTime, timeouts = 0, alive, BridgeReady, NEW k \in Keys
  PROVE  Tracked(k)'
<1>0. mgr \in Managers
  BY DEF TypeOK
<1>1. Empty /\ ~Busy(mgr, k) /\ Reconcile(BridgeCame(mgr)) /\ UNCHANGED_PY
  BY DEF BridgeReady, Life
<1>2. PICK n : n = BridgeCame(mgr)
  OBVIOUS
<1>3. n \in Managers /\ n.inFlight = mgr.inFlight /\ n.actual[k] = "absent"
  BY <1>0, <1>2, BridgeHandlersTypes DEF BridgeCame, Managers, InitialManager
<1>4. instances[k] = "absent" /\ Replies(k)' = Replies(k) /\ Reports(k)' = {}
  BY <1>1, EmptyFacts DEF Empty, NoInstances, Replies, Reports, UNCHANGED_PY
<1>5. Tracks(n, k, instances[k], Waiting(k), Replies(k)', Reports(k)')
  BY <1>1, <1>3, <1>4 DEF Tracks, Still, Busy
<1>6. QED
  BY <1>1, <1>2, <1>3, <1>4, <1>5, PassKeepsTrack DEF UNCHANGED_PY

-----------------------------------------------------------------------------
(* The bridge keeps the manager in the know. *)

Alones == timeouts = 0 /\ alive => \A k \in Keys : Alone(k)

LEMMA InTimeIsAlone == TypeOK /\ InTime => Alones
BY RequestsAreAlone DEF Alones

\* What there is to read more of, after a step of the bridge.
LEMMA LineReports ==
  ASSUME PyTypeOK, NEW x \in BridgeResponses, stdout' = Append(stdout, x), NEW j,
         NEW r \in Reports(j)'
  PROVE  r \in Reports(j) \/ (r = x /\ x.key = j)
<1>1. stdout \in Seq(BridgeResponses)
  BY DEF PyTypeOK
<1>2. Range(stdout') = Range(stdout) \union {x}
  BY <1>1, AppendFacts
<1>3. QED
  BY <1>2 DEF Reports

LEMMA PostsReports ==
  ASSUME PyTypeOK, PostedInOrder, alive, NEW x \in StateReports, NEW y \in Results, PostsThen(x, y),
         NEW j, NEW r \in Reports(j)'
  PROVE  r \in Reports(j) \/ (r = x /\ x.key = j) \/ r.state \notin WorkerStates
<1>1. /\ stdout \in Seq(BridgeResponses) /\ x \in BridgeResponses /\ y \in BridgeResponses
      /\ ~IsReport(y)
  BY ResponseTypes DEF PyTypeOK, BridgeResponses
<1> DEFINE s1 == Append(stdout, x)
<1>2. s1 \in Seq(BridgeResponses) /\ Range(s1) = Range(stdout) \union {x}
  BY <1>1, AppendFacts, AppendProperties
<1>3. CASE stdout' = stdout \o <<x, y>>
  <2>1. stdout' = Append(s1, y)
    BY <1>1, <1>3, TwoFacts
  <2> HIDE DEF s1
  <2>2. Range(stdout') = Range(s1) \union {y}
    BY <1>1, <1>2, <2>1, AppendFacts
  <2>3. QED
    BY <1>1, <1>2, <2>2 DEF Reports
<1>4. ASSUME NEW report \in unposted, stdout' = stdout \o <<x, report, y>>
      PROVE  r \in Reports(j) \/ (r = x /\ x.key = j) \/ r.state \notin WorkerStates
  <2>1. report \in BridgeResponses /\ report.state \notin WorkerStates
    BY ThreadsPostOthers DEF PostedInOrder, WorkerStates
  <2> DEFINE s2 == Append(s1, report)
  <2>2. stdout' = Append(s2, y)
    BY <1>1, <1>4, <2>1, ThreeFacts
  <2> HIDE DEF s1
  <2>3. s2 \in Seq(BridgeResponses) /\ Range(s2) = Range(s1) \union {report}
    BY <1>2, <2>1, AppendFacts, AppendProperties
  <2> HIDE DEF s2
  <2>4. Range(stdout') = Range(s2) \union {y}
    BY <1>1, <2>2, <2>3, AppendFacts
  <2>5. QED
    BY <1>1, <1>2, <2>1, <2>3, <2>4 DEF Reports
<1>5. QED
  BY <1>3, <1>4 DEF PostsThen

\* More reports of driver threads, and fewer requests, make no difference.
LEMMA TracksLater ==
  ASSUME NEW m, NEW k, NEW i, NEW W, NEW V, NEW P, NEW R, NEW S, Tracks(m, k, i, W, P, R),
         W = {} => V = {}, \A r \in S : r \in R \/ r.state \notin WorkerStates
  PROVE  Tracks(m, k, i, V, P, S)
<1>1. StartTracked(m, k, i, W, P, R) => StartTracked(m, k, i, V, P, S)
  BY DEF StartTracked, WorkerStates
<1>2. StopTracked(m, k, i, P, R) => StopTracked(m, k, i, P, S)
  BY DEF StopTracked, WorkerStates
<1>3. (\E r \in S : r.state = "available") => i = "absent"
  BY DEF Tracks, WorkerStates
<1>4. QED
  BY <1>1, <1>2, <1>3 DEF Tracks

LEMMA TracksExisting ==
  ASSUME NEW m, NEW k, NEW i, NEW j, NEW W, NEW P, NEW R, Tracks(m, k, i, W, P, R),
         i # "absent", j # "absent"
  PROVE  Tracks(m, k, j, W, P, R)
BY DEF Tracks, StartTracked, StopTracked

\* The bridge moves and Node does nothing, while what was proved of requests holds
\* before and after.
Attending ==
  /\ TypeOK /\ InTime /\ PostedInOrder /\ WorkerOwnsTransitions /\ Alones /\ Alones'
  /\ timeouts = 0 /\ alive /\ UNCHANGED <<mgr, alive, timeouts>>

\* What is known of an instance the bridge is about to serve a request of.
LEMMA HeldTracks ==
  ASSUME Attending, NEW k \in Keys, Tracked(k), NEW r \in Held(k)
  PROVE  /\ Busy(mgr, k) /\ mgr.inFlight[k].result = "none" /\ Replies(k) = {}
         /\ \A x \in Reports(k) : x.state # "available"
         /\ instances[k] # "absent" => Present(mgr, k)
         /\ r.type = "start-driver" =>
              /\ mgr.inFlight[k].kind = "start"
              /\ StartTracked(mgr, k, instances[k], Waiting(k), {}, Reports(k))
         /\ r.type = "stop-driver" =>
              /\ mgr.inFlight[k].kind = "stop"
              /\ StopTracked(mgr, k, instances[k], {}, Reports(k))
         /\ r.type \in {"subscribe", "unsubscribe"} => mgr.inFlight[k].kind = "sync"
<1>1. Alone(k)
  BY DEF Attending, Alones
<1>2. Awaits(mgr, k) /\ r = RequestOf(k, mgr.inFlight[k])
  BY <1>1 DEF Alone, Tokens
<1>3. Busy(mgr, k) /\ mgr.inFlight[k].result = "none" /\ mgr.inFlight[k] \in Operations
  BY <1>2 DEF Awaits, Busy, Attending, TypeOK, Managers
<1>4. Replies(k) = {}
  BY <1>1 DEF Alone, Held
<1>5. \A x \in Reports(k) : x.state # "available"
  BY <1>4, NoneOverdue DEF Attending, TypeOK
<1>6. Tracks(mgr, k, instances[k], Waiting(k), {}, Reports(k))
  BY <1>4 DEF Tracked
<1>7. /\ r.type = "start-driver" => mgr.inFlight[k].kind = "start"
      /\ r.type = "stop-driver" => mgr.inFlight[k].kind = "stop"
      /\ r.type \in {"subscribe", "unsubscribe"} => mgr.inFlight[k].kind = "sync"
  BY <1>2, <1>3, KindOf
<1>8. QED
  BY <1>3, <1>4, <1>5, <1>6, <1>7 DEF Tracks

\* Where the request is after the step, nothing else is.
LEMMA OneRemains ==
  ASSUME Attending, NEW k \in Keys
  PROVE  /\ InTask(k)' # {} => Waiting(k)' = {} /\ Replies(k)' = {}
         /\ \A p \in Replies(k)' : Waiting(k)' = {} /\ Replies(k)' = {p}
<1>1. Alone(k)'
  BY DEF Attending, Alones
<1>2. QED
  BY <1>1 DEF Alone

LEMMA AnsweredRemains ==
  ASSUME Attending, NEW k \in Keys, NEW type, NEW ok \in BOOLEAN, Replied(k, type, ok)
  PROVE  /\ Waiting(k)' = {} /\ \A p \in Replies(k)' : p.ok = ok
         /\ \E r \in Held(k) : r.type = type
<1>1. PICK r \in InQueue(k) \union InTask(k) : r.type = type /\ Result(r, ok) \in Replies(k)'
  BY DEF Replied
<1>2. Result(r, ok).ok = ok
  BY DEF Result
<1>3. r \in Held(k)
  BY DEF Held, Waiting
<1>4. QED
  BY <1>1, <1>2, <1>3, OneRemains

\* The reports a worker's step adds are driver threads', or its own of these states.
Adds(k, states) ==
  \A j \in Keys : \A r \in Reports(j)' :
    r \in Reports(j) \/ (j = k /\ r.state \in states) \/ r.state \notin WorkerStates

LEMMA WorkerAdds ==
  ASSUME PyTypeOK, OneEach, PostedInOrder, alive, NEW k \in Keys
  PROVE  /\ StartBegins(k) => Adds(k, {"starting"})
         /\ StopBegins(k) => Adds(k, {"stopping"})
         /\ StopSucceeds(k) => Adds(k, {"available"})
         /\ \/ StartRepeated(k) \/ StartRefused(k) \/ StopAbsent(k) \/ StartSucceeds(k)
            \/ StartFails(k) \/ StartReported(k) \/ StopTimesOut(k)
            => Adds(k, {})
<1>1. ASSUME stdout' = stdout, NEW states PROVE Adds(k, states)
  BY <1>1 DEF Adds, Reports
<1>2. ASSUME NEW state \in DriverStates, NEW states, state \in states \/ state \notin WorkerStates
      PROVE  /\ stdout' = Append(stdout, StateReport(k, state)) => Adds(k, states)
             /\ \A y \in Results : PostsThen(StateReport(k, state), y) => Adds(k, states)
  <2>1. PICK x : x = StateReport(k, state)
    OBVIOUS
  <2>2. x \in StateReports /\ x \in BridgeResponses /\ x.key = k /\ x.state = state
    BY <2>1, ReportFields DEF BridgeResponses
  <2>3. ASSUME stdout' = Append(stdout, x) PROVE Adds(k, states)
    <3> SUFFICES ASSUME NEW j \in Keys, NEW r \in Reports(j)'
                 PROVE  r \in Reports(j) \/ (j = k /\ r.state \in states) \/ r.state \notin WorkerStates
      BY DEF Adds
    <3>1. r \in Reports(j) \/ (r = x /\ x.key = j)
      BY <2>2, <2>3, LineReports
    <3>2. QED
      BY <1>2, <2>2, <3>1
  <2>4. ASSUME NEW y \in Results, PostsThen(x, y) PROVE Adds(k, states)
    <3> SUFFICES ASSUME NEW j \in Keys, NEW r \in Reports(j)'
                 PROVE  r \in Reports(j) \/ (j = k /\ r.state \in states) \/ r.state \notin WorkerStates
      BY DEF Adds
    <3>1. r \in Reports(j) \/ (r = x /\ x.key = j) \/ r.state \notin WorkerStates
      BY <2>2, <2>4, PostsReports
    <3>2. QED
      BY <1>2, <2>2, <3>1
  <2>5. QED
    BY <2>1, <2>3, <2>4
<1>3. ASSUME task[k].type \in {"start-driver", "stop-driver"}, NEW ok \in BOOLEAN
      PROVE  Result(task[k], ok) \in Results /\ Result(task[k], ok).key = k
  <2>1. task[k] # Idle
    BY <1>3 DEF Idle
  <2>2. QED
    BY <2>1, TaskReply
<1>4. ASSUME NEW y \in Results, stdout' = Append(stdout, y), NEW states PROVE Adds(k, states)
  <2> SUFFICES ASSUME NEW j \in Keys, NEW r \in Reports(j)' PROVE r \in Reports(j)
    BY DEF Adds
  <2>1. y \in BridgeResponses /\ ~IsReport(y)
    BY ResponseTypes DEF BridgeResponses
  <2>2. r \in Reports(j) \/ r = y
    BY <1>4, <2>1, LineReports
  <2>3. IsReport(r)
    BY DEF Reports
  <2>4. QED
    BY <2>1, <2>2, <2>3
<1>5. StartBegins(k) => Adds(k, {"starting"})
  BY <1>2 DEF StartBegins, DriverStates
<1>6. StopBegins(k) => Adds(k, {"stopping"})
  BY <1>2 DEF StopBegins, DriverStates
<1>7. StopSucceeds(k) => Adds(k, {"available"})
  BY <1>2, <1>3 DEF StopSucceeds, DriverStates
<1>8. StartReported(k) => Adds(k, {})
  BY <1>2, <1>3 DEF StartReported, DriverStates, WorkerStates
<1>9. StopTimesOut(k) => Adds(k, {})
  BY <1>2, <1>3 DEF StopTimesOut, DriverStates, WorkerStates
<1>10. StartFails(k) => Adds(k, {})
  BY <1>3, <1>4 DEF StartFails
<1>11. StartRefused(k) \/ StopAbsent(k) => Adds(k, {})
  <2> SUFFICES ASSUME StartRefused(k) \/ StopAbsent(k) PROVE Adds(k, {})
    OBVIOUS
  <2>1. PICK ok \in BOOLEAN : stdout' = Append(stdout, Result(Head(queue[k]), ok))
    BY DEF StartRefused, StopAbsent
  <2>2. queue[k] \in Seq(LifecycleRequests) /\ queue[k] # <<>>
    BY DEF StartRefused, StopAbsent, Takes, PyTypeOK
  <2>3. Head(queue[k]) \in BridgeRequests
    BY <2>2, HeadTailProperties, LifecycleIsRequest
  <2>4. Result(Head(queue[k]), ok) \in Results
    BY <2>3, RequestIsNoReport
  <2>5. QED
    BY <1>4, <2>1, <2>4
<1>12. StartRepeated(k) \/ StartSucceeds(k) => Adds(k, {})
  BY <1>1 DEF StartRepeated, StartSucceeds
<1>13. QED
  BY <1>5, <1>6, <1>7, <1>8, <1>9, <1>10, <1>11, <1>12

LEMMA WorkerMoves == ASSUME PyTypeOK, OneEach, NEW k \in Keys, WorkerStep(k) PROVE MovesOnly(k)
BY StartBeginsDoes, StartRepeatedDoes, RefusalsDo, InstanceStepsDo, StartReportedDoes,
   StartFailsDoes, StopBeginsDoes, StopSucceedsDoes, StopTimesOutDoes DEF WorkerStep

LEMMA ElsewhereTracked ==
  ASSUME Attending, NEW k \in Keys, MovesOnly(k), NEW states, Adds(k, states),
         NEW j \in Keys \ {k}, Tracked(j)
  PROVE  Tracked(j)'
<1>1. Same(j) /\ mgr' = mgr
  BY DEF MovesOnly, Frame, Attending
<1>2. Waiting(j)' = Waiting(j) /\ Replies(j)' = Replies(j) /\ instances'[j] = instances[j]
  BY <1>1 DEF Same, Waiting
<1>3. PICK S : S = Reports(j)'
  OBVIOUS
<1>4. \A r \in S : r \in Reports(j) \/ r.state \notin WorkerStates
  BY <1>3 DEF Adds
<1>5. Tracks(mgr, j, instances[j], Waiting(j), Replies(j), S)
  BY <1>4, TracksLater DEF Tracked
<1>6. QED
  BY <1>1, <1>2, <1>3, <1>5 DEF Tracked

LEMMA BeginsTrack ==
  ASSUME Attending, NEW k \in Keys, Tracked(k), StartBegins(k) \/ StopBegins(k) \/ StartRepeated(k)
  PROVE  Tracked(k)'
<1>0. PyTypeOK /\ OneEach /\ PostedInOrder /\ alive /\ mgr' = mgr
  BY DEF Attending, TypeOK, InTime
<1>1. ASSUME NEW type, Runs(k, type)
      PROVE  /\ Waiting(k)' = {} /\ Replies(k)' = {}
             /\ \E r \in Held(k) : r \in Waiting(k) /\ r.type = type
  <2>1. PICK r \in InQueue(k) : r.type = type /\ InTask(k)' = {r}
    BY <1>1 DEF Runs
  <2>2. QED
    BY <2>1, OneRemains DEF Held, Waiting
<1>2. PICK S : S = Reports(k)'
  OBVIOUS
<1>3. CASE StartBegins(k)
  <2>1. /\ Runs(k, "start-driver") /\ Becomes(k, "starting") /\ Adds(k, {"starting"})
    BY <1>0, <1>3, StartBeginsDoes, WorkerAdds
  <2>2. /\ Busy(mgr, k) /\ mgr.inFlight[k].result = "none" /\ mgr.inFlight[k].kind = "start"
        /\ StartTracked(mgr, k, instances[k], Waiting(k), {}, Reports(k))
        /\ \A x \in Reports(k) : x.state # "available"
    BY <1>1, <2>1, HeldTracks
  <2>3. instances'[k] = "starting"
    BY <1>0, <2>1 DEF Becomes, PyTypeOK
  <2>4. \A x \in S : x \in Reports(k) \/ x.state = "starting" \/ x.state \notin WorkerStates
    BY <1>2, <2>1 DEF Adds
  <2>5. Tracks(mgr, k, "starting", {}, {}, S)
    BY <2>2, <2>4 DEF Tracks, StartTracked, WorkerStates
  <2>6. QED
    BY <1>0, <1>1, <1>2, <2>1, <2>3, <2>5 DEF Tracked
<1>4. CASE StopBegins(k)
  <2>1. /\ Runs(k, "stop-driver") /\ Becomes(k, "stopping") /\ Adds(k, {"stopping"})
        /\ instances[k] # "absent"
    BY <1>0, <1>4, StopBeginsDoes, WorkerAdds
  <2>2. /\ Busy(mgr, k) /\ mgr.inFlight[k].result = "none" /\ mgr.inFlight[k].kind = "stop"
        /\ StopTracked(mgr, k, instances[k], {}, Reports(k)) /\ Present(mgr, k)
        /\ \A x \in Reports(k) : x.state # "available"
    BY <1>1, <2>1, HeldTracks
  <2>3. instances'[k] = "stopping"
    BY <1>0, <2>1 DEF Becomes, PyTypeOK
  <2>4. \A x \in S : x \in Reports(k) \/ x.state = "stopping" \/ x.state \notin WorkerStates
    BY <1>2, <2>1 DEF Adds
  <2>5. Tracks(mgr, k, "stopping", {}, {}, S)
    BY <2>2, <2>4 DEF Tracks, StopTracked, WorkerStates
  <2>6. QED
    BY <1>0, <1>1, <1>2, <2>1, <2>3, <2>5 DEF Tracked
<1>5. CASE StartRepeated(k)
  <2>1. Runs(k, "start-driver") /\ instances[k] = "running"
    BY <1>0, <1>5, StartRepeatedDoes
  <2>2. StartTracked(mgr, k, instances[k], Waiting(k), {}, Reports(k)) /\ Waiting(k) # {}
    BY <1>1, <2>1, HeldTracks
  <2>3. QED
    BY <2>1, <2>2 DEF StartTracked
<1>6. QED
  BY <1>3, <1>4, <1>5

LEMMA RefusalsTrack ==
  ASSUME Attending, NEW k \in Keys, Tracked(k), StartRefused(k) \/ StopAbsent(k)
  PROVE  Tracked(k)'
<1>0. PyTypeOK /\ OneEach /\ PostedInOrder /\ alive /\ mgr' = mgr
  BY DEF Attending, TypeOK, InTime
<1>1. /\ InTask(k)' = InTask(k) /\ instances'[k] = instances[k] /\ Adds(k, {})
      /\ \/ Replied(k, "start-driver", FALSE)
         \/ instances[k] = "absent" /\ Replied(k, "stop-driver", TRUE)
  BY <1>0, RefusalsDo, WorkerAdds
<1>2. Waiting(k) # {}
  <2>1. queue[k] \in Seq(LifecycleRequests) /\ queue[k] # <<>>
    BY DEF StartRefused, StopAbsent, Takes, PyTypeOK, Attending, TypeOK
  <2>2. queue[k][1] \in InQueue(k)
    BY <2>1, RangeEquality, EmptySeq, LenProperties DEF InQueue
  <2>3. QED
    BY <2>2 DEF Waiting
<1>3. PICK S : S = Reports(k)'
  OBVIOUS
<1>4. \A x \in S : x \in Reports(k) \/ x.state \notin WorkerStates
  BY <1>1, <1>3 DEF Adds
<1>5. PICK P : P = Replies(k)'
  OBVIOUS
<1>6. CASE Replied(k, "start-driver", FALSE)
  <2>1. Waiting(k)' = {} /\ \A p \in P : p.ok = FALSE
    BY <1>5, <1>6, AnsweredRemains
  <2>2. PICK r \in Held(k) : r.type = "start-driver"
    BY <1>6, AnsweredRemains
  <2>3. /\ Busy(mgr, k) /\ mgr.inFlight[k].result = "none" /\ mgr.inFlight[k].kind = "start"
        /\ StartTracked(mgr, k, instances[k], Waiting(k), {}, Reports(k))
        /\ \A x \in Reports(k) : x.state # "available"
    BY <2>2, HeldTracks
  <2>4. instances[k] = "absent"
    BY <1>2, <2>3 DEF StartTracked
  <2>5. Tracks(mgr, k, "absent", {}, P, S)
    BY <1>4, <2>3 DEF Tracks, StartTracked, WorkerStates
  <2>6. QED
    BY <1>0, <1>1, <1>3, <1>5, <2>1, <2>4, <2>5 DEF Tracked
<1>7. CASE instances[k] = "absent" /\ Replied(k, "stop-driver", TRUE)
  <2>1. Waiting(k)' = {}
    BY <1>7, AnsweredRemains
  <2>2. PICK r \in Held(k) : r.type = "stop-driver"
    BY <1>7, AnsweredRemains
  <2>3. /\ Busy(mgr, k) /\ mgr.inFlight[k].result = "none" /\ mgr.inFlight[k].kind = "stop"
        /\ StopTracked(mgr, k, instances[k], {}, Reports(k))
    BY <2>2, HeldTracks
  <2>4. Tracks(mgr, k, "absent", {}, P, S)
    BY <1>4, <2>3 DEF Tracks, StopTracked, WorkerStates
  <2>5. QED
    BY <1>0, <1>1, <1>3, <1>5, <1>7, <2>1, <2>4 DEF Tracked
<1>8. QED
  BY <1>1, <1>6, <1>7

LEMMA StartEndsTrack ==
  ASSUME Attending, NEW k \in Keys, Tracked(k),
         StartSucceeds(k) \/ StartReported(k) \/ StartFails(k)
  PROVE  Tracked(k)'
<1>0. PyTypeOK /\ OneEach /\ PostedInOrder /\ alive /\ mgr' = mgr /\ Alone(k)
  BY DEF Attending, TypeOK, InTime, Alones
<1>1. task[k].type = "start-driver"
  BY DEF StartSucceeds, StartReported, StartFails
<1>2. task[k] \in InTask(k) /\ task[k] \in Held(k)
  BY <1>1 DEF InTask, Held, Idle
<1>3. /\ Busy(mgr, k) /\ mgr.inFlight[k].result = "none" /\ mgr.inFlight[k].kind = "start"
      /\ StartTracked(mgr, k, instances[k], Waiting(k), {}, Reports(k)) /\ Replies(k) = {}
      /\ \A x \in Reports(k) : x.state # "available"
  BY <1>1, <1>2, HeldTracks
<1>4. Waiting(k) = {}
  BY <1>0, <1>2 DEF Alone
<1>5. PICK S : S = Reports(k)'
  OBVIOUS
<1>6. Adds(k, {})
  BY <1>0, WorkerAdds
<1>7. \A x \in S : x \in Reports(k) \/ x.state \notin WorkerStates
  BY <1>5, <1>6 DEF Adds
<1>8. PICK P : P = Replies(k)'
  OBVIOUS
<1>9. PICK i : i = instances'[k]
  OBVIOUS
<1>10. Waiting(k)' = {} /\ \A p \in P : p.ok \/ i = "absent"
  <2>1. CASE StartSucceeds(k)
    <3>1. UNCHANGED <<stdin, stdout, queue, task>>
      BY <2>1 DEF StartSucceeds
    <3>2. Waiting(k)' = Waiting(k) /\ P = {}
      BY <1>3, <1>8, <3>1 DEF Waiting, InStdin, InQueue, Replies
    <3>3. QED
      BY <1>4, <3>2
  <2>2. CASE StartReported(k)
    <3>1. Replied(k, "start-driver", TRUE)
      BY <1>0, <2>2, StartReportedDoes
    <3>2. QED
      BY <1>8, <3>1, AnsweredRemains
  <2>3. CASE StartFails(k)
    <3>1. Replied(k, "start-driver", FALSE) /\ i = "absent"
      BY <1>0, <1>9, <2>3, StartFailsDoes DEF Becomes, PyTypeOK
    <3>2. QED
      BY <1>8, <3>1, AnsweredRemains
  <2>4. QED
    BY <2>1, <2>2, <2>3
<1>11. Tracks(mgr, k, i, {}, P, S)
  BY <1>3, <1>7, <1>10 DEF Tracks, StartTracked, WorkerStates
<1>12. QED
  BY <1>0, <1>5, <1>8, <1>9, <1>10, <1>11 DEF Tracked

LEMMA StopEndsTrack ==
  ASSUME Attending, NEW k \in Keys, Tracked(k), StopSucceeds(k) \/ StopTimesOut(k)
  PROVE  Tracked(k)'
<1>0. PyTypeOK /\ OneEach /\ PostedInOrder /\ alive /\ mgr' = mgr /\ WorkerOwnsTransitions
  BY DEF Attending, TypeOK, InTime
<1>1. task[k].type = "stop-driver"
  BY DEF StopSucceeds, StopTimesOut
<1>2. task[k] \in Held(k)
  BY <1>1 DEF InTask, Held, Idle
<1>3. instances[k] = "stopping"
  BY <1>0, <1>1 DEF WorkerOwnsTransitions
<1>4. /\ Busy(mgr, k) /\ mgr.inFlight[k].result = "none" /\ mgr.inFlight[k].kind = "stop"
      /\ StopTracked(mgr, k, instances[k], {}, Reports(k)) /\ Present(mgr, k)
      /\ \A x \in Reports(k) : x.state # "available"
  BY <1>1, <1>2, <1>3, HeldTracks
<1>5. PICK S : S = Reports(k)'
  OBVIOUS
<1>6. PICK P : P = Replies(k)'
  OBVIOUS
<1>7. CASE StopSucceeds(k)
  <2>1. Adds(k, {"available"}) /\ Replied(k, "stop-driver", TRUE) /\ instances'[k] = "absent"
    BY <1>0, <1>7, StopSucceedsDoes, WorkerAdds DEF Becomes, PyTypeOK
  <2>2. \A x \in S : x \in Reports(k) \/ x.state = "available" \/ x.state \notin WorkerStates
    BY <1>5, <2>1 DEF Adds
  <2>3. Tracks(mgr, k, "absent", {}, P, S)
    BY <1>4, <2>2 DEF Tracks, StopTracked, WorkerStates
  <2>4. QED
    BY <1>0, <1>5, <1>6, <2>1, <2>3, AnsweredRemains DEF Tracked
<1>8. CASE StopTimesOut(k)
  <2>1. Adds(k, {}) /\ Replied(k, "stop-driver", FALSE) /\ instances'[k] = "errored"
    BY <1>0, <1>8, StopTimesOutDoes, WorkerAdds DEF Becomes, PyTypeOK
  <2>2. \A x \in S : x \in Reports(k) \/ x.state \notin WorkerStates
    BY <1>5, <2>1 DEF Adds
  <2>3. Waiting(k)' = {} /\ \A p \in P : p.ok = FALSE
    BY <1>6, <2>1, AnsweredRemains
  <2>4. Tracks(mgr, k, "errored", {}, P, S)
    BY <1>4, <2>2, <2>3 DEF Tracks, StopTracked, WorkerStates
  <2>5. QED
    BY <1>0, <1>5, <1>6, <2>1, <2>3, <2>4 DEF Tracked
<1>9. QED
  BY <1>7, <1>8

LEMMA BridgeKeepsTrack ==
  ASSUME Attending, \A k \in Keys : Tracked(k), BridgeStep
  PROVE  \A k \in Keys : Tracked(k)'
<1>0. PyTypeOK /\ OneEach /\ PostedInOrder /\ alive /\ mgr' = mgr
  BY DEF Attending, TypeOK, InTime
<1>1. CASE ReadSubscribe
  <2>1. PICK k \in Keys : \E r \in InStdin(k) :
          /\ r \in SubscriptionRequests /\ MovesOnly(k)
          /\ Result(r, TRUE) \in Replies(k)' /\ Reports(k)' = Reports(k)
          /\ instances' = instances
    BY <1>0, <1>1, ReadSubscribeDoes
  <2>2. PICK r \in InStdin(k) :
          /\ r \in SubscriptionRequests /\ MovesOnly(k) /\ Reports(k)' = Reports(k)
          /\ Result(r, TRUE) \in Replies(k)' /\ instances' = instances
    BY <2>1
  <2>3. r \in Held(k) /\ r.type \in {"subscribe", "unsubscribe"}
    BY <2>2 DEF Held, Waiting, SubscriptionRequests
  <2>4. /\ Busy(mgr, k) /\ mgr.inFlight[k].kind = "sync"
        /\ Tracks(mgr, k, instances[k], Waiting(k), Replies(k), Reports(k))
    BY <2>3, HeldTracks DEF Tracked
  <2>5. PICK W, P : W = Waiting(k)' /\ P = Replies(k)'
    OBVIOUS
  <2>6. Tracks(mgr, k, instances[k], W, P, Reports(k))
    BY <2>4 DEF Tracks
  <2>7. Tracked(k)'
    BY <1>0, <2>2, <2>5, <2>6 DEF Tracked
  <2>8. Adds(k, {})
    <3>1. PICK y : y = Result(Head(stdin), TRUE)
      OBVIOUS
    <3>2. stdin \in Seq(BridgeRequests) /\ stdin # <<>> /\ stdout' = Append(stdout, y)
      BY <1>0, <1>1, <3>1 DEF ReadSubscribe, PyTypeOK
    <3>3. y \in BridgeResponses /\ ~IsReport(y)
      BY <3>1, <3>2, HeadTailProperties, RequestIsNoReport, ResponseTypes DEF BridgeResponses
    <3>4. ASSUME NEW j \in Keys, NEW x \in Reports(j)' PROVE x \in Reports(j)
      <4>1. x \in Reports(j) \/ x = y
        BY <1>0, <3>2, <3>3, LineReports
      <4>2. IsReport(x)
        BY DEF Reports
      <4>3. QED
        BY <3>3, <4>1, <4>2
    <3>5. QED
      BY <3>4 DEF Adds
  <2>9. \A j \in Keys \ {k} : Tracked(j)'
    BY <2>2, <2>8, ElsewhereTracked
  <2>10. QED
    BY <2>7, <2>9
<1>2. CASE ReadLifecycle
  <2>1. PICK k \in Keys :
          /\ MovesOnly(k) /\ Replies(k)' = Replies(k) /\ UNCHANGED <<instances, stdout>>
    BY <1>0, <1>2, ReadLifecycleDoes
  <2>2. Reports(k)' = Reports(k) /\ Waiting(k)' \subseteq Waiting(k)
    BY <2>1 DEF Reports, MovesOnly
  <2>3. PICK V : V = Waiting(k)'
    OBVIOUS
  <2>4. Tracks(mgr, k, instances[k], V, Replies(k), Reports(k))
    BY <2>2, <2>3, TracksLater DEF Tracked
  <2>5. Tracked(k)'
    BY <1>0, <2>1, <2>2, <2>3, <2>4 DEF Tracked
  <2>6. Adds(k, {})
    BY <2>1 DEF Adds, Reports
  <2>7. QED
    BY <2>1, <2>5, <2>6, ElsewhereTracked
<1>3. CASE PublishedPosted
  <2>1. PICK report \in unposted : stdout' = Append(stdout, report)
    BY <1>3 DEF PublishedPosted
  <2>2. UNCHANGED <<stdin, instances, queue, task>>
    BY <1>3 DEF PublishedPosted
  <2>3. report \in StateReports /\ report \in BridgeResponses /\ report.state \notin WorkerStates
    BY <1>0 DEF PyTypeOK, PostedInOrder, BridgeResponses, WorkerStates
  <2>4. ASSUME NEW k \in Keys PROVE Tracked(k)'
    <3>1. Replies(k)' = Replies(k) /\ Waiting(k)' = Waiting(k)
      BY <1>0, <2>1, <2>2, <2>3, ReportPosted DEF Waiting, InStdin, InQueue
    <3>2. PICK S : S = Reports(k)'
      OBVIOUS
    <3>3. \A x \in S : x \in Reports(k) \/ x.state \notin WorkerStates
      BY <1>0, <2>1, <2>3, <3>2, LineReports
    <3>4. Tracks(mgr, k, instances[k], Waiting(k), Replies(k), S)
      BY <3>3, TracksLater DEF Tracked
    <3>5. QED
      BY <1>0, <2>2, <3>1, <3>2, <3>4 DEF Tracked
  <2>5. QED
    BY <2>4
<1>4. ASSUME NEW k \in Keys, WorkerStep(k)
      PROVE  \A j \in Keys : Tracked(j)'
  <2>1. MovesOnly(k)
    BY <1>0, <1>4, WorkerMoves
  <2>2. Tracked(k)'
    BY <1>4, BeginsTrack, RefusalsTrack, StartEndsTrack, StopEndsTrack DEF WorkerStep
  <2>3. PICK states : Adds(k, states)
    BY <1>0, <1>4, WorkerAdds DEF WorkerStep
  <2>4. \A j \in Keys \ {k} : Tracked(j)'
    BY <2>1, <2>3, ElsewhereTracked
  <2>5. QED
    BY <2>2, <2>4
<1>5. QED
  BY <1>1, <1>2, <1>3, <1>4 DEF BridgeStep

\* A driver that reports of its own exists, before and after.
LEMMA PublishingKeepsTrack ==
  ASSUME TypeOK, mgr' = mgr, \A k \in Keys : Tracked(k),
         NEW j \in Keys, NEW state \in {"running", "errored"}, DriverPublishes(j, state)
  PROVE  \A k \in Keys : Tracked(k)'
<1>1. /\ instances[j] # "absent" /\ instances'[j] # "absent"
      /\ \A k \in Keys \ {j} : instances'[k] = instances[k]
      /\ UNCHANGED <<stdin, stdout, queue>>
  BY DEF DriverPublishes, TypeOK, PyTypeOK
<1> SUFFICES ASSUME NEW k \in Keys PROVE Tracked(k)'
  OBVIOUS
<1>2. Waiting(k)' = Waiting(k) /\ Replies(k)' = Replies(k) /\ Reports(k)' = Reports(k)
  BY <1>1 DEF Waiting, InStdin, InQueue, Replies, Reports
<1>3. PICK i : i = instances'[k]
  OBVIOUS
<1>4. Tracks(mgr, k, i, Waiting(k), Replies(k), Reports(k))
  BY <1>1, <1>3, TracksExisting DEF Tracked
<1>5. QED
  BY <1>2, <1>3, <1>4 DEF Tracked

-----------------------------------------------------------------------------
(* Every step does. *)

\* Nothing times out on the way to a state before any timeout.
LEMMA NoTimeoutSince ==
  ASSUME TypeOK, Life, [Next]_vars, timeouts' = 0
  PROVE  timeouts = 0 /\ \A k \in Keys : ~RequestTimesOut(k)
<1>1. timeouts \in Nat
  BY BoundsAssumption DEF TypeOK
<1>2. \A k \in Keys : ~RequestTimesOut(k)
  BY <1>1 DEF RequestTimesOut
<1>3. /\ BridgeEvent \/ StopManager \/ StartBridge \/ ProcessExits \/ PythonStep
           => UNCHANGED timeouts
      /\ \A k \in Keys, state \in {"running", "errored"} : DriverReports(k, state) => UNCHANGED timeouts
  BY DEF BridgeEvent, BridgeReady, HandleExit, ManagerStopped, BridgeGivenUp, StopManager,
         StartBridge, ProcessExits, PythonStep, DriverReports, counters
<1>4. QED
  BY <1>2, <1>3, StepIs

\* The manager knows of what the bridge runs after every step, while it uses the
\* bridge.
LEMMA StepKeepsTracking ==
  ASSUME TypeOK, Life, Lives, InTime, PostedInOrder, WorkerOwnsTransitions,
         Alones, Alones', Tracking, [Next]_vars
  PROVE  Tracking'
<1> SUFFICES ASSUME timeouts' = 0, alive', mgr'.bridgeReady PROVE \A k \in Keys : Tracked(k)'
  BY DEF Tracking
<1>0. timeouts = 0 /\ mgr \in Managers
  BY NoTimeoutSince DEF TypeOK
<1>1. CASE StopManager
  <2>1. PICK gone : mgr' = [DropLeases(mgr, gone) EXCEPT !.active = FALSE]
    BY <1>1, StopManagerActs
  <2>2. /\ mgr'.inFlight = mgr.inFlight /\ mgr'.actual = mgr.actual
        /\ mgr'.bridgeReady = mgr.bridgeReady
    <3>1. DropLeases(mgr, gone) \in Managers /\ SameBeliefs(mgr, DropLeases(mgr, gone))
      BY LeasesKeepBeliefs DEF SameBeliefs
    <3>2. QED
      BY <2>1, <3>1 DEF Managers, SameBeliefs
  <2>3. UNCHANGED pyVars
    BY <1>1 DEF StopManager
  <2>4. \A k \in Keys : Tracked(k)
    BY <1>0, <2>2, <2>3 DEF Tracking, pyVars
  <2>5. ASSUME NEW k \in Keys PROVE Tracked(k)'
    <3>1. PICK n : n = mgr'
      OBVIOUS
    <3>2. Tracks(n, k, instances[k], Waiting(k), Replies(k), Reports(k))
      BY <2>2, <2>4, <3>1, TracksIgnores DEF Tracked
    <3>3. /\ instances' = instances /\ Waiting(k)' = Waiting(k)
          /\ Replies(k)' = Replies(k) /\ Reports(k)' = Reports(k)
      BY <2>3 DEF pyVars, Waiting, InStdin, InQueue, Replies, Reports
    <3>4. QED
      BY <3>1, <3>2, <3>3 DEF Tracked
  <2>6. QED
    BY <2>5
<1>2. CASE BridgeReady
  BY <1>0, <1>2, ReadyKeepsTrack DEF BridgeReady, UNCHANGED_PY
<1>3. ~HandleExit /\ ~ManagerStopped /\ ~BridgeGivenUp
  BY BridgeEvents DEF HandleExit, pyVars
<1>4. ~StartBridge /\ ~ProcessExits
  BY DEF StartBridge, ProcessExits, Exit, Life
<1>5. CASE PythonStep
  <2>1. BridgeStep /\ mgr' = mgr /\ timeouts' = timeouts
    BY <1>5 DEF PythonStep, nodeVars, counters
  <2>2. alive
    BY <2>1, BridgeMoves DEF TypeOK, InTime
  <2>3. (\A k \in Keys : Tracked(k)) /\ Attending
    BY <1>0, <2>1, <2>2 DEF Tracking, Attending
  <2>4. QED
    BY <2>1, <2>3, BridgeKeepsTrack
<1>6. CASE \E k \in Keys, state \in {"running", "errored"} : DriverReports(k, state)
  <2>1. PICK j \in Keys, state \in {"running", "errored"} : DriverReports(j, state)
    BY <1>6
  <2>2. DriverPublishes(j, state) /\ mgr' = mgr /\ alive
    BY <2>1 DEF DriverReports, DriverPublishes, nodeVars
  <2>3. \A k \in Keys : Tracked(k)
    BY <1>0, <2>2 DEF Tracking
  <2>4. QED
    BY <2>2, <2>3, PublishingKeepsTrack
<1>7. CASE NodeHandles /\ ~BridgeEvent /\ ~StopManager
  <2>1. mgr.bridgeReady
    BY <1>7, ActiveOrStopping
  <2>2. alive
    BY <1>7 DEF NodeHandles, Passes, Idles, HandleLine, Resume, UNCHANGED_PY
  <2>3. QED
    BY <1>0, <1>7, <2>1, <2>2, HandledKeepsTrack DEF Tracking
<1>8. QED
  BY <1>1, <1>2, <1>3, <1>4, <1>5, <1>6, <1>7, StepIs, NoTimeoutSince DEF BridgeEvent

-----------------------------------------------------------------------------
(* No pass over the unwanted is forgotten, whatever the drivers report.       *)

Watched(m) == \A k \in Keys \ Desired(m) : ~MustStop(m, k)
Watchful ==
  timeouts = 0 /\ alive /\ bridge = "up" /\ (\A k \in Keys : ~Busy(mgr, k)) => Watched(mgr)

\* A pass that left nothing in flight left nothing unwanted to stop.
LEMMA PassWatches ==
  ASSUME NEW m \in Managers, m.bridgeReady, NEW id \in Nat, \A k \in Keys : ~Busy(Kick(m, id), k)
  PROVE  Watched(Kick(m, id))
<1>1. PICK n : n = Kick(m, id)
  OBVIOUS
<1>2. n \in Managers /\ Kick(n, id) = n
  BY <1>1, KickTypes, PassSettles
<1>3. n.bridgeReady
  <2>1. Kick(m, id).bridgeReady = m.bridgeReady
    BY KickDoes
  <2>2. QED
    BY <1>1, <2>1
<1>4. \A k \in Keys : ~Busy(n, k)
  BY <1>1
<1>5. \A k \in Keys : ~MustStop(n, k)
  BY <1>2, <1>3, <1>4, NothingToDo
<1>6. QED
  BY <1>1, <1>5 DEF Watched

\* A driver that exists reports that it failed: it is no more to be stopped than it was.
LEMMA ErrorWatches ==
  ASSUME NEW m \in Managers, NEW j \in Keys, Still(m, j), Present(m, j), Watched(m)
  PROVE  Watched(ReportState(m, j, "errored"))
<1>1. PICK n : n = ReportState(m, j, "errored")
  OBVIOUS
<1>2. /\ n.actual[j] = "errored" /\ \A k \in Keys \ {j} : n.actual[k] = m.actual[k]
      /\ n.leases = m.leases /\ n.stopRetries = m.stopRetries
  BY <1>1 DEF ReportState, Managers
<1>3. Desired(n) = Desired(m)
  BY <1>2 DEF Desired
<1>4. \A k \in Keys : Present(m, k) <=> Present(n, k)
  BY <1>2 DEF Present
<1>5. \A k \in Keys : HasPresentDependents(m, k) <=> HasPresentDependents(n, k)
  BY <1>4 DEF HasPresentDependents
<1>6. ASSUME NEW k \in Keys \ Desired(n), MustStop(n, k) PROVE MustStop(m, k)
  BY <1>2, <1>3, <1>4, <1>5, <1>6 DEF MustStop, Still
<1>7. QED
  BY <1>1, <1>3, <1>6 DEF Watched

\* So it is for one that is wanted.
LEMMA WantedWatches ==
  ASSUME NEW m \in Managers, NEW j \in Desired(m), NEW state \in DriverStates \ {"available"},
         j \in Keys, Watched(m)
  PROVE  Watched(ReportState(m, j, state))
<1>1. PICK n : n = ReportState(m, j, state)
  OBVIOUS
<1>2. /\ n.actual[j] = state /\ \A k \in Keys \ {j} : n.actual[k] = m.actual[k]
      /\ n.leases = m.leases /\ n.stopRetries = m.stopRetries
  BY <1>1 DEF ReportState, Managers
<1>3. Desired(n) = Desired(m)
  BY <1>2 DEF Desired
<1>4. \A k \in Keys : Present(m, k) => Present(n, k)
  <2>1. state # "absent"
    BY DEF DriverStates
  <2>2. QED
    BY <1>2, <2>1 DEF Present
<1>5. \A k \in Keys : HasPresentDependents(m, k) => HasPresentDependents(n, k)
  BY <1>4 DEF HasPresentDependents
<1>6. ASSUME NEW k \in Keys \ Desired(n), MustStop(n, k) PROVE MustStop(m, k)
  <2>1. k # j
    BY <1>3
  <2>2. n.actual[k] = m.actual[k]
    BY <1>2, <2>1
  <2>3. QED
    BY <1>2, <1>3, <1>5, <1>6, <2>2 DEF MustStop, Present
<1>7. QED
  BY <1>1, <1>3, <1>6 DEF Watched

LEMMA HandledWatches ==
  ASSUME TypeOK, InTime, PostedInOrder, timeouts = 0, alive, mgr.bridgeReady,
         \A k \in Keys : Tracked(k), (\A k \in Keys : ~Busy(mgr, k)) => Watched(mgr),
         NodeHandles, \A k \in Keys : ~Busy(mgr', k)
  PROVE  Watched(mgr')
<1>0. mgr \in Managers /\ NextId \in Nat /\ PyTypeOK /\ OneEach
  BY BoundsAssumption DEF TypeOK, NextId, InTime
<1>1. ASSUME NEW m \in Managers, m.bridgeReady, mgr' = Kick(m, NextId) PROVE Watched(mgr')
  BY <1>0, <1>1, PassWatches
<1>2. CASE mgr' = mgr
  BY <1>2
<1>3. CASE Passes
  <2>1. PICK n : SameBeliefs(mgr, n) /\ Reconcile(n)
    BY <1>3 DEF Passes
  <2>2. n \in Managers /\ n.bridgeReady /\ mgr' = Kick(n, NextId)
    BY <2>1 DEF SameBeliefs, Reconcile, Update
  <2>3. QED
    BY <1>1, <2>2
<1>4. CASE HandleLine
  <2>1. PICK line : line = Head(stdout)
    OBVIOUS
  <2>2. PICK j : j = line.key
    OBVIOUS
  <2>3. stdout # <<>> /\ stdout' = Tail(stdout)
    BY <1>4 DEF HandleLine
  <2>4. line \in BridgeResponses /\ j \in Keys
    BY <1>0, <2>1, <2>2, <2>3, StdoutTail, ResponseTypes
  <2>5. CASE \E ok \in {"ok", "error"} : mgr' = Noted(j, ok) /\ Awaits(mgr, j)
    <3>1. PICK ok \in {"ok", "error"} : mgr' = Noted(j, ok) /\ Awaits(mgr, j)
      BY <2>5
    <3>2. Busy(Noted(j, ok), j)
      BY <1>0, <2>4, <3>1, NotedDoes
    <3>3. QED
      BY <2>4, <3>1, <3>2
  <2>6. CASE line.type = "driver-state"
    <3>1. line.state \in DriverStates /\ line \in Reports(j)
      BY <1>0, <2>1, <2>2, <2>3, <2>4, <2>6, StdoutTail, ResponseTypes DEF StateReports
    <3>2. PICK m : m = ReportState(mgr, j, line.state)
      OBVIOUS
    <3>3. /\ m \in Managers /\ m.inFlight = mgr.inFlight /\ m.bridgeReady
      BY <1>0, <2>4, <3>1, <3>2, ReportStateTypes, ReportKeeps DEF BeliefsOnly
    <3>4. \/ mgr' = Kick(m, NextId)
          \/ mgr' = m /\ ~(line.state = "running" /\ j \notin Desired(mgr))
      BY <1>4, <2>1, <2>2, <2>6, <3>2 DEF HandleLine, Reconcile, Update
    <3>5. CASE mgr' = m /\ ~(line.state = "running" /\ j \notin Desired(mgr))
      <4>1. \A k \in Keys : ~Busy(mgr, k)
        BY <3>3, <3>5 DEF Busy
      <4>2. Watched(mgr) /\ Tracked(j) /\ Alone(j) /\ ~Awaits(mgr, j)
        BY <2>4, <4>1, RequestsAreAlone DEF Awaits
      <4>3. /\ Waiting(j) = {} /\ InTask(j) = {} /\ Replies(j) = {}
            /\ line.state \notin WorkerStates
        BY <1>0, <2>4, <3>1, <4>2, FreeReports
      <4>4. line.state \in {"running", "errored"}
        BY <3>1, <4>3 DEF DriverStates, WorkerStates
      <4>5. CASE j \in Desired(mgr)
        BY <1>0, <2>4, <3>2, <3>5, <4>2, <4>4, <4>5, WantedWatches DEF DriverStates
      <4>6. CASE j \notin Desired(mgr)
        <5>1. line.state = "errored"
          BY <3>5, <4>4, <4>6
        <5>2. instances[j] # "absent"
          BY <1>0, <2>4, <3>1, <4>3, NoneOverdue
        <5>3. Still(mgr, j) /\ Present(mgr, j)
          BY <2>4, <4>1, <4>2, <5>2 DEF Tracked, Tracks
        <5>4. QED
          BY <1>0, <2>4, <3>2, <3>5, <4>2, <5>1, <5>3, ErrorWatches
      <4>7. QED
        BY <4>5, <4>6
    <3>6. QED
      BY <1>1, <3>3, <3>4, <3>5
  <2>7. QED
    BY <1>2, <1>4, <2>1, <2>2, <2>5, <2>6 DEF HandleLine, Answers, Noted
<1>5. ASSUME NEW k \in Keys, Resume(k) PROVE Watched(mgr')
  <2>1. Busy(mgr, k) /\ mgr' = Proceed(mgr, k, NextId)
    BY <1>5 DEF Resume, Settled, Update
  <2>2. PICK op : op = mgr.inFlight[k]
    OBVIOUS
  <2>3. PICK n : n = Conclude(mgr, k)
    OBVIOUS
  <2>4. n \in Managers /\ op \in Operations /\ n.bridgeReady = mgr.bridgeReady
    <3>1. Conclude(mgr, k) \in Managers /\ Conclude(mgr, k).bridgeReady = mgr.bridgeReady
      BY <1>0, <2>1, ConcludeTypes
    <3>2. op \in Operations
      BY <1>0, <2>1, <2>2 DEF Busy, Managers
    <3>3. QED
      BY <2>3, <3>1, <3>2
  <2>5. CASE op.live /\ op.kind = "sync" /\ op.todo # {}
    <3>1. mgr'.inFlight[k] = Sync(mgr, op.todo, NextId)
      BY <2>1, <2>2, <2>3, <2>4, <2>5 DEF Proceed, Managers
    <3>2. Sync(mgr, op.todo, NextId) \in Operations
      BY <1>0, <2>4, <2>5, SyncTypes, OperationsAreBusy
    <3>3. QED
      BY <3>1, <3>2, OperationsAreBusy DEF Busy
  <2>6. CASE ~(op.live /\ op.kind = "sync" /\ op.todo # {})
    <3>1. PICK over : over = [n EXCEPT !.inFlight[k] = NoOperation]
      OBVIOUS
    <3>2. over \in Managers /\ over.bridgeReady
      BY <2>4, <3>1 DEF Managers
    <3>3. mgr' = Kick(over, NextId)
      BY <2>1, <2>2, <2>3, <2>6, <3>1 DEF Proceed
    <3>4. QED
      BY <1>1, <3>2, <3>3
  <2>7. QED
    BY <2>5, <2>6
<1>6. CASE Idles /\ mgr' = mgr
  BY <1>2, <1>6
<1>7. QED
  BY <1>3, <1>4, <1>5, <1>6 DEF NodeHandles, Idles

LEMMA StepWatches ==
  ASSUME TypeOK, Life, Lives, InTime, PostedInOrder, Tracking, Watchful, [Next]_vars
  PROVE  Watchful'
<1> SUFFICES ASSUME timeouts' = 0, alive', bridge' = "up", \A k \in Keys : ~Busy(mgr', k)
             PROVE  Watched(mgr')
  BY DEF Watchful, Watched, Busy
<1>0. timeouts = 0 /\ mgr \in Managers /\ NextId \in Nat
  BY NoTimeoutSince, BoundsAssumption DEF TypeOK, NextId
<1>1. CASE BridgeReady
  <2>1. PICK m : m = BridgeCame(mgr)
    OBVIOUS
  <2>2. m \in Managers /\ mgr' = Kick(m, NextId) /\ m.bridgeReady
    BY <1>0, <1>1, <2>1, BridgeHandlersTypes DEF BridgeReady, Reconcile, Update, BridgeCame, Managers
  <2>3. QED
    BY <1>0, <2>2, PassWatches
<1>2. ~HandleExit /\ ~ManagerStopped /\ ~BridgeGivenUp /\ ~StopManager /\ ~StartBridge /\ ~ProcessExits
  BY DEF HandleExit, ManagerStopped, BridgeGivenUp, StopManager, StartBridge, ProcessExits, Exit
<1>3. CASE PythonStep
  <2>1. BridgeStep /\ mgr' = mgr /\ bridge' = bridge
    BY <1>3 DEF PythonStep, nodeVars
  <2>2. alive
    BY <2>1, BridgeMoves DEF TypeOK, InTime
  <2>3. QED
    BY <1>0, <2>1, <2>2 DEF Watchful
<1>4. CASE \E k \in Keys, state \in {"running", "errored"} : DriverReports(k, state)
  BY <1>0, <1>4 DEF DriverReports, DriverPublishes, nodeVars, Watchful
<1>5. CASE NodeHandles /\ UNCHANGED <<bridge, timeouts, published>>
  <2>1. alive /\ bridge = "up"
    BY <1>5 DEF NodeHandles, Passes, Idles, HandleLine, Resume, UNCHANGED_PY
  <2>2. mgr.bridgeReady
    BY <2>1 DEF Life
  <2>3. \A k \in Keys : Tracked(k)
    BY <1>0, <2>1, <2>2 DEF Tracking
  <2>4. (\A k \in Keys : ~Busy(mgr, k)) => Watched(mgr)
    BY <1>0, <2>1 DEF Watchful
  <2>5. QED
    BY <1>0, <1>5, <2>1, <2>2, <2>3, <2>4, HandledWatches
<1>6. QED
  BY <1>1, <1>2, <1>3, <1>4, <1>5, StepIs, NoTimeoutSince DEF BridgeEvent

-----------------------------------------------------------------------------
(* What waits for itself never starts, whatever the drivers report: it never  *)
(* exists, so it reports nothing.                                             *)

NeverWas(k) ==
  /\ mgr.actual[k] = "absent" /\ ~Busy(mgr, k)
  /\ instances[k] = "absent" /\ Reports(k) = {} /\ \A r \in unposted : r.key # k
NoneOfStuck == timeouts = 0 => \A k \in Stuck : NeverWas(k)

LEMMA LinePostedElsewhere ==
  ASSUME PyTypeOK, NEW k \in Keys, Reports(k) = {}, NEW x \in BridgeResponses,
         ~IsReport(x) \/ x.key # k, stdout' = Append(stdout, x)
  PROVE  Reports(k)' = {}
<1>1. ASSUME NEW r \in Reports(k)' PROVE FALSE
  <2>1. r = x /\ x.key = k
    BY LineReports
  <2>2. IsReport(r)
    BY DEF Reports
  <2>3. QED
    BY <2>1, <2>2
<1>2. QED
  BY <1>1

LEMMA PostedElsewhere ==
  ASSUME PyTypeOK, NEW k \in Keys, Reports(k) = {}, \A r \in unposted : r.key # k,
         NEW x \in StateReports, x.key # k, NEW y \in Results, PostsThen(x, y)
  PROVE  Reports(k)' = {} /\ unposted' \subseteq unposted
<1>1. /\ stdout \in Seq(BridgeResponses) /\ x \in BridgeResponses /\ y \in BridgeResponses
      /\ ~IsReport(y) /\ unposted \subseteq BridgeResponses
  BY ResponseTypes DEF PyTypeOK, BridgeResponses
<1> DEFINE s1 == Append(stdout, x)
<1>2. s1 \in Seq(BridgeResponses) /\ Range(s1) = Range(stdout) \union {x}
  BY <1>1, AppendFacts, AppendProperties
<1>3. ASSUME stdout' = stdout \o <<x, y>> PROVE Reports(k)' = {}
  <2>1. stdout' = Append(s1, y)
    BY <1>1, <1>3, TwoFacts
  <2> HIDE DEF s1
  <2>2. Range(stdout') = Range(s1) \union {y}
    BY <1>1, <1>2, <2>1, AppendFacts
  <2>3. ASSUME NEW r \in Reports(k)' PROVE FALSE
    <3>1. r \in Range(stdout) \union {x, y} /\ IsReport(r) /\ r.key = k
      BY <1>2, <2>2 DEF Reports
    <3>2. r \in Range(stdout)
      BY <1>1, <3>1
    <3>3. QED
      BY <3>1, <3>2 DEF Reports
  <2>4. QED
    BY <2>3
<1>4. ASSUME NEW report \in unposted, stdout' = stdout \o <<x, report, y>>
      PROVE  Reports(k)' = {}
  <2>1. report \in BridgeResponses /\ report.key # k
    BY <1>1
  <2> DEFINE s2 == Append(s1, report)
  <2>2. stdout' = Append(s2, y)
    BY <1>1, <1>4, <2>1, ThreeFacts
  <2> HIDE DEF s1
  <2>3. s2 \in Seq(BridgeResponses) /\ Range(s2) = Range(s1) \union {report}
    BY <1>2, <2>1, AppendFacts, AppendProperties
  <2> HIDE DEF s2
  <2>4. Range(stdout') = Range(s2) \union {y}
    BY <1>1, <2>2, <2>3, AppendFacts
  <2>5. QED
    BY <1>1, <1>2, <2>1, <2>3, <2>4 DEF Reports
<1>5. Reports(k)' = {}
  BY <1>3, <1>4 DEF PostsThen
<1>6. unposted' \subseteq unposted
  BY DEF PostsThen
<1>7. QED
  BY <1>5, <1>6

LEMMA UnheldStaysAway ==
  ASSUME PyTypeOK, OneEach, BridgeStep, NEW k \in Keys, Held(k) = {},
         instances[k] = "absent", Reports(k) = {}, \A r \in unposted : r.key # k
  PROVE  instances'[k] = "absent" /\ Reports(k)' = {} /\ \A r \in unposted' : r.key # k
<1>1. CASE ReadSubscribe
  <2>1. PICK y : y = Result(Head(stdin), TRUE)
    OBVIOUS
  <2>2. stdin \in Seq(BridgeRequests) /\ stdin # <<>> /\ stdout' = Append(stdout, y)
        /\ UNCHANGED <<instances, unposted>>
    BY <1>1, <2>1 DEF ReadSubscribe, PyTypeOK
  <2>3. y \in BridgeResponses /\ ~IsReport(y)
    BY <2>1, <2>2, HeadTailProperties, RequestIsNoReport, ResponseTypes DEF BridgeResponses
  <2>4. QED
    BY <2>2, <2>3, LinePostedElsewhere
<1>2. CASE ReadLifecycle
  BY <1>2 DEF ReadLifecycle, Reports
<1>3. CASE PublishedPosted
  <2>1. PICK report \in unposted :
          stdout' = Append(stdout, report) /\ unposted' = unposted \ {report}
    BY <1>3 DEF PublishedPosted
  <2>2. report \in BridgeResponses /\ report.key # k /\ instances' = instances
    BY <1>3 DEF PublishedPosted, PyTypeOK, BridgeResponses
  <2>3. QED
    BY <2>1, <2>2, LinePostedElsewhere
<1>4. ASSUME NEW j \in Keys, WorkerStep(j)
      PROVE  instances'[k] = "absent" /\ Reports(k)' = {} /\ \A r \in unposted' : r.key # k
  <2>1. k # j
    BY <1>4, WorkerHolds
  <2>2. instances'[k] = instances[k]
    BY <1>4, <2>1, WorkerMoves DEF MovesOnly, Frame, Same
  <2>3. ASSUME stdout' = stdout PROVE Reports(k)' = {}
    BY <2>3 DEF Reports
  <2>4. \A state \in DriverStates :
          /\ StateReport(j, state) \in StateReports /\ StateReport(j, state) \in BridgeResponses
          /\ StateReport(j, state).key # k
    BY <2>1, ReportFields DEF BridgeResponses
  <2>5. \A y \in Results : y \in BridgeResponses /\ ~IsReport(y)
    BY ResponseTypes DEF BridgeResponses
  <2>6. ASSUME task[j].type \in {"start-driver", "stop-driver"}
        PROVE  \A ok \in BOOLEAN : Result(task[j], ok) \in Results
    <3>1. task[j] # Idle
      BY <2>6 DEF Idle
    <3>2. QED
      BY <3>1, TaskReply
  <2>7. CASE StartBegins(j) \/ StopBegins(j)
    <3>1. PICK state \in {"starting", "stopping"} : stdout' = Append(stdout, StateReport(j, state))
      BY <2>7 DEF StartBegins, StopBegins
    <3>2. PICK x : x = StateReport(j, state)
      OBVIOUS
    <3>3. x \in BridgeResponses /\ x.key # k
      BY <2>4, <3>2 DEF DriverStates
    <3>4. unposted' = unposted
      BY <2>7 DEF StartBegins, StopBegins
    <3>5. QED
      BY <2>2, <3>1, <3>2, <3>3, <3>4, LinePostedElsewhere
  <2>8. CASE StartRepeated(j) \/ StartSucceeds(j)
    BY <2>2, <2>3, <2>8 DEF StartRepeated, StartSucceeds
  <2>9. CASE StartRefused(j) \/ StopAbsent(j)
    <3>1. PICK ok \in BOOLEAN : stdout' = Append(stdout, Result(Head(queue[j]), ok))
      BY <2>9 DEF StartRefused, StopAbsent
    <3>2. queue[j] \in Seq(LifecycleRequests) /\ queue[j] # <<>> /\ unposted' = unposted
      BY <2>9 DEF StartRefused, StopAbsent, Takes, PyTypeOK
    <3>3. Head(queue[j]) \in BridgeRequests
      BY <3>2, HeadTailProperties, LifecycleIsRequest
    <3>4. PICK y : y = Result(Head(queue[j]), ok)
      OBVIOUS
    <3>5. y \in BridgeResponses /\ ~IsReport(y)
      BY <2>5, <3>3, <3>4, RequestIsNoReport
    <3>6. QED
      BY <2>2, <3>1, <3>2, <3>4, <3>5, LinePostedElsewhere
  <2>10. CASE StartFails(j)
    <3>1. stdout' = Append(stdout, Result(task[j], FALSE)) /\ unposted' = unposted
          /\ task[j].type \in {"start-driver", "stop-driver"}
      BY <2>10 DEF StartFails
    <3>2. PICK y : y = Result(task[j], FALSE)
      OBVIOUS
    <3>3. y \in BridgeResponses /\ ~IsReport(y)
      BY <2>5, <2>6, <3>1, <3>2
    <3>4. QED
      BY <2>2, <3>1, <3>2, <3>3, LinePostedElsewhere
  <2>11. CASE StartReported(j) \/ StopSucceeds(j) \/ StopTimesOut(j)
    <3>1. PICK state \in {"running", "available", "errored"}, ok \in BOOLEAN :
            PostsThen(StateReport(j, state), Result(task[j], ok))
      BY <2>11 DEF StartReported, StopSucceeds, StopTimesOut
    <3>2. PICK x, y : x = StateReport(j, state) /\ y = Result(task[j], ok)
      OBVIOUS
    <3>3. x \in StateReports /\ x.key # k
      BY <2>4, <3>2 DEF DriverStates
    <3>4. y \in Results
      BY <2>6, <2>11, <3>2 DEF StartReported, StopSucceeds, StopTimesOut
    <3>5. QED
      BY <2>2, <3>1, <3>2, <3>3, <3>4, PostedElsewhere
  <2>12. QED
    BY <1>4, <2>7, <2>8, <2>9, <2>10, <2>11 DEF WorkerStep
<1>5. QED
  BY <1>1, <1>2, <1>3, <1>4 DEF BridgeStep

LEMMA StepKeepsNoneOfStuck ==
  ASSUME TypeOK, Life, InTime, Alones, NoneOfStuck, [Next]_vars
  PROVE  NoneOfStuck'
<1> SUFFICES ASSUME timeouts' = 0 PROVE \A k \in Stuck : NeverWas(k)'
  BY DEF NoneOfStuck
<1>0. timeouts = 0 /\ mgr \in Managers /\ NextId \in Nat /\ PyTypeOK /\ OneEach
  BY NoTimeoutSince, BoundsAssumption DEF TypeOK, NextId, InTime
<1>1. \A k \in Stuck : /\ mgr.actual[k] = "absent" /\ ~Busy(mgr, k) /\ Reports(k) = {}
                       /\ instances[k] = "absent" /\ \A r \in unposted : r.key # k
  BY <1>0 DEF NoneOfStuck, NeverWas
<1>2. \A k \in Stuck : k \in Keys
  BY StuckIsCircular DEF Circular
<1>3. ASSUME \A k \in Stuck : mgr'.actual[k] = "absent" /\ ~Busy(mgr', k) /\ Reports(k)' = {},
             UNCHANGED <<instances, unposted>>
      PROVE  \A k \in Stuck : NeverWas(k)'
  BY <1>1, <1>3 DEF NeverWas, Busy
<1>4. ASSUME UNCHANGED <<stdout, instances, unposted>>,
             NEW m \in Managers, mgr' = m \/ mgr' = Kick(m, NextId),
             \A k \in Stuck : m.actual[k] = "absent" /\ ~Busy(m, k)
      PROVE  \A k \in Stuck : NeverWas(k)'
  <2>1. \A k \in Stuck : mgr'.actual[k] = "absent" /\ ~Busy(mgr', k)
    BY <1>0, <1>4, PassLeavesStuck
  <2>2. \A k \in Stuck : Reports(k)' = {}
    BY <1>1, <1>4 DEF Reports
  <2>3. QED
    BY <1>3, <1>4, <2>1, <2>2
<1>5. ASSUME UNCHANGED <<stdout, instances, unposted>>,
             NEW m \in Managers, mgr' = m \/ mgr' = Kick(m, NextId),
             m.actual = mgr.actual, m.inFlight = mgr.inFlight
      PROVE  \A k \in Stuck : NeverWas(k)'
  BY <1>1, <1>4, <1>5 DEF Busy
<1>6. CASE BridgeEvent
  <2>1. UNCHANGED <<stdout, instances, unposted>>
    BY <1>6 DEF BridgeEvent, BridgeReady, HandleExit, ManagerStopped, BridgeGivenUp, pyVars,
         UNCHANGED_PY
  <2>2. /\ \A n \in {BridgeGone(mgr), RejectPending(mgr), BridgeCame(mgr)} :
             n \in Managers /\ \A k \in Stuck : n.actual[k] = "absent" /\ ~Busy(n, k)
    BY <1>0, <1>1, BridgeHandlersTypes, BridgeHandlersLeaveStuck
  <2>3. LET n == BridgeGone(RejectPending(mgr))
        IN  n \in Managers /\ \A k \in Stuck : n.actual[k] = "absent" /\ ~Busy(n, k)
    BY <2>2, BridgeHandlersTypes, BridgeHandlersLeaveStuck
  <2>4. \/ mgr' \in {BridgeGone(mgr), RejectPending(mgr), BridgeGone(RejectPending(mgr))}
        \/ mgr' = Kick(BridgeCame(mgr), NextId)
    BY <1>6 DEF BridgeEvent, BridgeReady, HandleExit, ManagerStopped, BridgeGivenUp, Reconcile, Update
  <2>5. QED
    BY <1>4, <2>1, <2>2, <2>3, <2>4
<1>7. CASE StopManager
  <2>1. PICK gone : mgr' = [DropLeases(mgr, gone) EXCEPT !.active = FALSE]
    BY <1>7, StopManagerActs
  <2>2. DropLeases(mgr, gone) \in Managers /\ SameBeliefs(mgr, DropLeases(mgr, gone))
    BY LeasesKeepBeliefs DEF SameBeliefs
  <2>3. mgr'.actual = mgr.actual /\ mgr'.inFlight = mgr.inFlight /\ mgr' \in Managers
    BY <2>1, <2>2 DEF Managers, SameBeliefs
  <2>4. UNCHANGED <<stdout, instances, unposted>>
    BY <1>7 DEF StopManager, pyVars
  <2>5. QED
    BY <1>5, <2>3, <2>4
<1>8. CASE StartBridge \/ ProcessExits
  <2>1. /\ mgr' = mgr /\ instances' = NoInstances /\ unposted' = {}
        /\ stdout' = <<>> \/ stdout' = stdout
    BY <1>8 DEF StartBridge, Spawn, ProcessExits, Exit, ResetProcess, nodeVars
  <2>2. \A k \in Stuck : Reports(k)' = {} /\ instances'[k] = "absent"
    BY <1>1, <1>2, <2>1, EmptyFacts DEF Reports, NoInstances
  <2>3. QED
    BY <1>1, <2>1, <2>2 DEF NeverWas, Busy
<1>9. CASE PythonStep
  <2>1. BridgeStep /\ mgr' = mgr
    BY <1>9 DEF PythonStep, nodeVars
  <2>2. alive
    BY <1>0, <2>1, BridgeMoves
  <2>3. ASSUME NEW k \in Stuck PROVE NeverWas(k)'
    <3>1. k \in Keys /\ Alone(k)
      BY <1>0, <1>2, <2>2 DEF Alones
    <3>2. Held(k) = {}
      BY <1>1, <3>1 DEF Alone, Tokens, Awaits
    <3>3. instances'[k] = "absent" /\ Reports(k)' = {} /\ \A r \in unposted' : r.key # k
      BY <1>0, <1>1, <2>1, <3>1, <3>2, UnheldStaysAway
    <3>4. QED
      BY <1>1, <2>1, <3>3 DEF NeverWas, Busy
  <2>4. QED
    BY <2>3
<1>10. CASE \E j \in Keys, state \in {"running", "errored"} : DriverReports(j, state)
  <2>1. PICK j \in Keys, state \in {"running", "errored"} : DriverReports(j, state)
    BY <1>10
  <2>2. /\ instances[j] = "running" /\ instances' = [instances EXCEPT ![j] = state]
        /\ unposted' = unposted \union {StateReport(j, state)}
        /\ stdout' = stdout /\ mgr' = mgr
    BY <2>1 DEF DriverReports, DriverPublishes, nodeVars
  <2>3. StateReport(j, state).key = j
    BY DEF StateReport
  <2>4. \A k \in Stuck : k # j /\ instances'[k] = instances[k]
    BY <1>0, <1>1, <1>2, <2>2 DEF PyTypeOK
  <2>5. QED
    BY <1>1, <2>2, <2>3, <2>4 DEF NeverWas, Busy, Reports
<1>11. CASE NodeHandles
  <2>1. UNCHANGED <<instances, unposted>>
    BY <1>11 DEF NodeHandles, Passes, Idles, HandleLine, Resume, UNCHANGED_PY
  <2>2. CASE Passes
    BY <1>5, <2>1, <2>2 DEF Passes, UNCHANGED_PY, SameBeliefs, Reconcile, Update
  <2>3. CASE Idles
    BY <1>5, <2>1, <2>3 DEF Idles, UNCHANGED_PY, SameBeliefs
  <2>4. CASE HandleLine
    BY <1>0, <1>1, <1>3, <2>1, <2>4, LineLeavesStuck
  <2>5. ASSUME NEW j \in Keys, Resume(j) PROVE \A k \in Stuck : NeverWas(k)'
    <3>1. stdout' = stdout
      BY <2>5 DEF Resume, UNCHANGED_PY
    <3>2. \A k \in Stuck : Reports(k)' = {}
      BY <1>1, <3>1 DEF Reports
    <3>3. \A k \in Stuck : mgr'.actual[k] = "absent" /\ ~Busy(mgr', k)
      BY <1>1, <2>5, ResumeLeavesStuck
    <3>4. QED
      BY <1>3, <2>1, <3>2, <3>3
  <2>6. QED
    BY <1>11, <2>2, <2>3, <2>4, <2>5 DEF NodeHandles
<1>12. QED
  BY <1>6, <1>7, <1>8, <1>9, <1>10, <1>11, StepIs, NoTimeoutSince

-----------------------------------------------------------------------------
(* Nothing unwanted is left, whatever the drivers report.                     *)

Attentive == PostedInOrder /\ Tracking /\ Watchful /\ NoneOfStuck

LEMMA InitiallyAttentive == Init => Attentive
BY EmptyFacts DEF Init, PyInit, InitialManager, Attentive, PostedInOrder, Tracking, Watchful,
   NoneOfStuck, NeverWas, NoInstances, Stuck, Circular, Busy, Reports

LEMMA StepStaysAttentive == Sound /\ Sound' /\ Attentive /\ [Next]_vars => Attentive'
<1> SUFFICES ASSUME Sound, Sound', Attentive, [Next]_vars PROVE Attentive'
  OBVIOUS
<1>1. TypeOK /\ Lives /\ Life /\ InTime /\ WorkerOwnsTransitions /\ PyTypeOK /\ OneEach
  BY DEF Sound, TypeOK, InTime
<1>2. PostedInOrder /\ Tracking /\ Watchful /\ NoneOfStuck
  BY DEF Attentive
<1>3. Alones
  BY <1>1, InTimeIsAlone
<1>4. Alones'
  <2>1. (TypeOK /\ InTime => Alones)'
    BY InTimeIsAlone, PTL
  <2>2. QED
    BY <2>1 DEF Sound
<1>5. [PyNext]_pyVars
  BY <1>1, EveryStepIsGood DEF Good
<1>6. PostedInOrder'
  BY <1>1, <1>2, <1>5, StepPostsInOrder
<1>7. Tracking'
  BY <1>1, <1>2, <1>3, <1>4, StepKeepsTracking
<1>8. Watchful'
  BY <1>1, <1>2, StepWatches
<1>9. NoneOfStuck'
  BY <1>1, <1>2, <1>3, StepKeepsNoneOfStuck
<1>10. QED
  BY <1>6, <1>7, <1>8, <1>9 DEF Attentive

\* Whatever reports of their own the drivers make, and whenever (they race with the
\* manager's requests, manager.ts:532-559), an instance no lease needs is gone
\* once the system is at rest, unless a request timed out before: it would be kept
\* only by another that depends on it, and so on around a circle that never started.
THEOREM NoneLeftBehind == Spec => []NoOrphans
<1>1. ASSUME Sound, Attentive, AtRest, timeouts = 0, NEW k \in Keys, instances[k] # "absent",
             k \notin Desired(mgr)
      PROVE  FALSE
  <2>1. bridge = "up" /\ alive /\ \A j \in Keys : ~Busy(mgr, j) /\ mgr.stopRetries[j] # "waiting"
    BY <1>1 DEF AtRest, NothingUnderWay
  <2>2. mgr.bridgeReady /\ mgr \in Managers
    BY <1>1, <2>1 DEF Sound, Life, TypeOK
  <2>3. \A j \in Keys : Still(mgr, j) /\ (instances[j] # "absent" => Present(mgr, j))
    BY <1>1, <2>1, <2>2 DEF Attentive, Tracking, Tracked, Tracks
  <2>4. \A j \in Keys \ Desired(mgr) : ~MustStop(mgr, j)
    BY <1>1, <2>1 DEF Attentive, Watchful, Watched
  <2>5. PICK T : T = {j \in Keys : Present(mgr, j) /\ j \notin Desired(mgr)}
    OBVIOUS
  <2>6. ASSUME NEW j \in T PROVE \E h \in T : j \in Deps[h]
    <3>1. j \in Keys /\ Present(mgr, j) /\ j \notin Desired(mgr)
      BY <2>5
    <3>2. HasPresentDependents(mgr, j)
      BY <2>1, <2>3, <2>4, <3>1 DEF MustStop, Still
    <3>3. PICK h \in Keys : j \in Deps[h] /\ Present(mgr, h)
      BY <3>2 DEF HasPresentDependents
    <3>4. h \notin Desired(mgr)
      BY <2>2, <3>1, <3>3, DesiredClosed
    <3>5. QED
      BY <2>5, <3>3, <3>4
  <2>7. LinkedUp(T) /\ T # {}
    BY <1>1, <2>3, <2>5, <2>6 DEF LinkedUp
  <2>8. PICK j \in T : j \in Stuck
    BY <2>7, LinkedTurnsBack
  <2>9. QED
    BY <1>1, <2>5, <2>8 DEF Attentive, NoneOfStuck, NeverWas, Present
<1>2. Sound /\ Attentive => NoOrphans
  BY <1>1 DEF NoOrphans
<1>3. QED
  BY <1>2, AlwaysSound, InitiallyAttentive, StepStaysAttentive, PTL DEF Spec
=============================================================================
