---------------------------- MODULE DriverThreads ----------------------------
(***************************************************************************)
(* The threads of one driver instance inside the Python bridge: the serial *)
(* queue that runs its requests, the driver's own thread, one worker       *)
(* thread per subscription, and the bridge's close, which may stop the     *)
(* driver while a request of it still runs (driver.py, workers.py,         *)
(* bridge.py).                                                             *)
(*                                                                         *)
(* `swap` stands for an action that moves a subscription at runtime, the   *)
(* calibration driver's set_camera_event.  A value is its number: of two   *)
(* values of one event the greater is the newer.                           *)
(***************************************************************************)
EXTENDS Integers, Sequences, FiniteSets, FiniteSetTheorems, TLAPS

CONSTANTS Events,        \* events of another driver it may subscribe to
          Subscribed,    \* the class's `subscribed`
          MaxSize,       \* subscription_queue_size; 0 keeps the latest value only
          MaxRequests,   \* bound on requests
          MaxWorkers,    \* bound on subscription workers
          MaxValues      \* bound on values offered

VARIABLES tasks,      \* SerialQueue._tasks
          qThread,    \* SerialQueue._thread is set
          task,       \* the request its thread runs, with its progress
          answers,    \* replies to each request, in the order of arrival
          closing,    \* progress of Bridge.close
          inst,       \* the record's state
          thread,     \* where the driver thread is
          stopFlag,   \* BaseDriver._stop
          subs,       \* _subscriptions: event -> worker, 0 for none
          retired,    \* _retired_workers
          mine,       \* workers of the current driver object
          workers,    \* every worker made
          bus,        \* workers whose offer is registered with the bridge
          popped,     \* worker each unsubscribe took out and has yet to close
          stopper,    \* progress of the queue's and of close's _bridge_stop
          values,     \* values offered
          excused     \* why threads of the driver may outlive it: a join timed out, close
                      \* stopped it while a request of it ran, close abandoned it

tVars == <<tasks, qThread, task, answers, closing, inst, thread, stopFlag, subs,
           retired, mine, workers, bus, popped, stopper, values, excused>>

queueVars  == <<tasks, qThread, task, answers>>
workerVars == <<subs, retired, mine, workers, bus, popped>>

NoTask == [id |-> 0, type |-> "none", step |-> "new"]
Types == {"start", "stop", "swap"}
Stoppers == {"task", "close"}
Unsubscribers == Stoppers \cup {"swap", "failed"}
NotStopping == [pc |-> "idle", keys |-> {}, joins |-> {}]
Steps == {"idle", "unsubscribe", "join", "flag", "thread", "stopped", "timeout"}
Ended == {"ended", "failedEnded"}
ThreadSteps == {"none", "pre_run", "subscribe", "failed", "loop", "cleanup",
                "failedCleanup"} \cup Ended

Workers == 1..Len(workers)
Busy(w) == workers[w].pc = "busy"
Gone(w) == workers[w].pc = "gone"

ThreadsTypeOK ==
  /\ qThread \in BOOLEAN
  /\ tasks \in Seq([id : 1..MaxRequests, type : Types, step : {"new"}])
  /\ task \in [id : 0..MaxRequests, type : Types \cup {"none"},
               step : {"new", "begun", "subscribe", "register"}]
  /\ answers \in Seq(0..2) /\ Len(answers) <= MaxRequests
  /\ closing \in {"open", "grace", "stopping", "flushed"}
  /\ inst \in {"absent", "starting", "running", "stopping", "errored"}
  /\ thread \in ThreadSteps /\ stopFlag \in BOOLEAN
  /\ subs \in [Events -> 0..MaxWorkers]
  /\ retired \subseteq Workers /\ mine \subseteq Workers /\ bus \subseteq Workers
  /\ \A w \in Workers :
       /\ workers[w].pc \in {"wait", "busy", "gone"} /\ workers[w].closed \in BOOLEAN
       /\ workers[w].pending \in Seq(1..MaxValues) /\ workers[w].last \in 0..MaxValues
  /\ popped \in [Unsubscribers -> 0..MaxWorkers]
  /\ \A s \in Stoppers : stopper[s].pc \in Steps
  /\ values \in 0..MaxValues
  /\ excused \subseteq {"joinTimedOut", "overlapped", "abandoned"}

ThreadsInit ==
  /\ tasks = <<>> /\ qThread = FALSE /\ task = NoTask /\ answers = <<>>
  /\ closing = "open" /\ inst = "absent" /\ thread = "none" /\ stopFlag = FALSE
  /\ subs = [e \in Events |-> 0] /\ retired = {} /\ mine = {} /\ workers = <<>> /\ bus = {}
  /\ popped = [u \in Unsubscribers |-> 0]
  /\ stopper = [s \in Stoppers |-> NotStopping]
  /\ values = 0 /\ excused = {}

Alive == closing # "flushed"

(***************************************************************************)
(* SerialQueue                                                             *)
(***************************************************************************)
\* submit: a queue whose thread went idle gets a new one.
Submit(type) ==
  /\ closing = "open" /\ Len(answers) < MaxRequests
  /\ tasks' = Append(tasks, [id |-> Len(answers) + 1, type |-> type, step |-> "new"])
  /\ answers' = Append(answers, 0)
  /\ qThread' = TRUE
  /\ UNCHANGED <<task, closing, inst, thread, stopFlag, workerVars, stopper, values, excused>>

Take ==
  /\ Alive /\ qThread /\ task = NoTask /\ tasks # <<>>
  /\ task' = Head(tasks) /\ tasks' = Tail(tasks)
  /\ UNCHANGED <<qThread, answers, closing, inst, thread, stopFlag, workerVars, stopper,
                 values, excused>>

\* Defect: the idle thread leaves without looking at the queue again.
GoIdle_Blind ==
  /\ Alive /\ qThread /\ task = NoTask
  /\ qThread' = FALSE
  /\ UNCHANGED <<tasks, task, answers, closing, inst, thread, stopFlag, workerVars, stopper,
                 values, excused>>

\* Idle for idle_timeout_s, or closed: checked and forgotten under the lock.
GoIdle ==
  /\ Alive /\ qThread /\ task = NoTask /\ tasks = <<>>
  /\ qThread' = FALSE
  /\ UNCHANGED <<tasks, task, answers, closing, inst, thread, stopFlag, workerVars, stopper,
                 values, excused>>

\* The task's reply, which ends it.
Reply == answers' = [answers EXCEPT ![task.id] = @ + 1] /\ task' = NoTask

(***************************************************************************)
(* Subscription workers                                                    *)
(***************************************************************************)
NewWorker == [pc |-> "wait", pending |-> <<>>, closed |-> FALSE, last |-> 0]

\* subscribe: the worker is made and recorded, then registered with the bus.
Record(e) ==
  /\ Len(workers) < MaxWorkers
  /\ workers' = Append(workers, NewWorker)
  /\ mine' = mine \cup {Len(workers) + 1}
  /\ subs' = [subs EXCEPT ![e] = Len(workers) + 1]

\* offer: the latest value replaces the pending one; a full queue drops its oldest.
Offered(w, v) ==
  IF w.closed THEN w
  ELSE [w EXCEPT !.pending =
          IF MaxSize = 0 THEN <<v>>
          ELSE Append(IF Len(@) >= MaxSize THEN Tail(@) ELSE @, v)]

\* The other driver emits.  It calls callbacks copied before a worker may have
\* been unregistered.
Offer ==
  /\ Alive /\ values < MaxValues
  /\ values' = values + 1
  /\ \E late \in SUBSET (Workers \ bus) :
       workers' = [w \in Workers |-> IF w \in bus \cup late THEN Offered(workers[w], values + 1)
                                     ELSE workers[w]]
  /\ UNCHANGED <<queueVars, closing, inst, thread, stopFlag, subs, retired, mine, bus, popped,
                 stopper, excused>>

\* The worker's loop takes a value and calls `deliver`, which passes it to
\* on_data unless the driver was told to stop.
Deliver(w) ==
  /\ Alive /\ workers[w].pc = "wait" /\ ~workers[w].closed /\ workers[w].pending # <<>>
  /\ workers' = [workers EXCEPT ![w].pending = Tail(@),
                                ![w].last = Head(workers[w].pending),
                                ![w].pc = IF stopFlag /\ w \in mine THEN "wait" ELSE "busy"]
  /\ UNCHANGED <<queueVars, closing, inst, thread, stopFlag, subs, retired, mine, bus, popped,
                 stopper, values, excused>>

\* on_data returns or raises.
OnDataEnds(w) ==
  /\ Alive /\ Busy(w)
  /\ workers' = [workers EXCEPT ![w].pc = "wait"]
  /\ UNCHANGED <<queueVars, closing, inst, thread, stopFlag, subs, retired, mine, bus, popped,
                 stopper, values, excused>>

WorkerExits(w) ==
  /\ Alive /\ workers[w].pc = "wait" /\ workers[w].closed
  /\ workers' = [workers EXCEPT ![w].pc = "gone"]
  /\ UNCHANGED <<queueVars, closing, inst, thread, stopFlag, subs, retired, mine, bus, popped,
                 stopper, values, excused>>

\* unsubscribe, first half: takes the worker out of _subscriptions.
Pop(who, e) ==
  /\ popped[who] = 0
  /\ popped' = [popped EXCEPT ![who] = subs[e]]
  /\ subs' = [subs EXCEPT ![e] = 0]

\* Defect: the worker is closed but nobody will wait for it.
Retire_Forgotten(who) ==
  /\ Alive /\ popped[who] # 0
  /\ bus' = bus \ {popped[who]}
  /\ workers' = [workers EXCEPT ![popped[who]].closed = TRUE, ![popped[who]].pending = <<>>]
  /\ retired' = retired
  /\ popped' = [popped EXCEPT ![who] = 0]
  /\ UNCHANGED <<queueVars, closing, inst, thread, stopFlag, subs, mine, stopper, values, excused>>

\* Second half: unregisters it, closes it, retires it.
Retire(who) ==
  /\ Alive /\ popped[who] # 0
  /\ bus' = bus \ {popped[who]}
  /\ workers' = [workers EXCEPT ![popped[who]].closed = TRUE, ![popped[who]].pending = <<>>]
  /\ retired' = retired \cup {popped[who]}
  /\ popped' = [popped EXCEPT ![who] = 0]
  /\ UNCHANGED <<queueVars, closing, inst, thread, stopFlag, subs, mine, stopper, values, excused>>

(***************************************************************************)
(* start-driver                                                            *)
(***************************************************************************)
\* _create_instance: a running instance is reported again; another state, or a
\* closing bridge, is an error.
StartRefused ==
  /\ Alive /\ task.type = "start" /\ task.step = "new"
  /\ inst # "absent" \/ closing # "open"
  /\ Reply
  /\ UNCHANGED <<tasks, qThread, closing, inst, thread, stopFlag, workerVars, stopper, values,
                 excused>>

\* A new driver object, whose thread begins with pre_run.
StartBegins ==
  /\ Alive /\ task.type = "start" /\ task.step = "new" /\ inst = "absent" /\ closing = "open"
  /\ inst' = "starting" /\ thread' = "pre_run" /\ stopFlag' = FALSE
  /\ subs' = [e \in Events |-> 0] /\ retired' = {} /\ mine' = {}
  /\ task' = [task EXCEPT !.step = "begun"]
  /\ UNCHANGED <<tasks, qThread, answers, closing, workers, bus, popped, stopper, values, excused>>

PreRunEnds ==
  /\ Alive /\ thread = "pre_run" /\ thread' = "subscribe"
  /\ UNCHANGED <<queueVars, closing, inst, stopFlag, workerVars, stopper, values, excused>>

\* pre_run raises, perhaps after subscribing itself, or a subscription does.
PreRunRaises ==
  /\ Alive /\ thread \in {"pre_run", "subscribe"}
  /\ thread' = "failed" /\ stopFlag' = TRUE
  /\ UNCHANGED <<queueVars, closing, inst, workerVars, stopper, values, excused>>

\* `subscribed`, recorded and registered one after the other.
SubscribeStatic ==
  /\ Alive /\ thread = "subscribe"
  /\ \E e \in Subscribed :
       \/ /\ subs[e] = 0 /\ Record(e) /\ UNCHANGED bus
       \/ /\ subs[e] \in Workers \ bus /\ bus' = bus \cup {subs[e]}
          /\ UNCHANGED <<workers, mine, subs>>
  /\ UNCHANGED <<queueVars, closing, inst, thread, stopFlag, retired, popped, stopper, values,
                 excused>>

\* All subscribed: the start is over, and the loop runs until told to stop.
StartedSet ==
  /\ Alive /\ thread = "subscribe"
  /\ \A e \in Subscribed : subs[e] \in bus \/ stopFlag
  /\ thread' = "loop"
  /\ UNCHANGED <<queueVars, closing, inst, stopFlag, workerVars, stopper, values, excused>>

\* A failed pre_run or subscribe: _stop_subscriptions_quietly waits for the
\* workers, gives up after its timeout, and forgets them.
FailedStart ==
  /\ Alive /\ thread = "failed"
  /\ \/ \E e \in Events : subs[e] # 0 /\ Pop("failed", e) /\ UNCHANGED <<thread, retired, excused>>
     \/ /\ \A e \in Events : subs[e] = 0
        /\ popped["failed"] = 0
        /\ thread' = "failedCleanup" /\ retired' = {}
        /\ excused' = excused \cup (IF \A w \in retired : Gone(w) THEN {} ELSE {"joinTimedOut"})
        /\ UNCHANGED <<subs, popped>>
  /\ UNCHANGED <<queueVars, closing, inst, stopFlag, mine, workers, bus, stopper, values>>

\* cleanup, and the end of the thread.
LoopEnds ==
  /\ Alive /\ thread = "loop" /\ stopFlag
  /\ thread' = "cleanup"
  /\ UNCHANGED <<queueVars, closing, inst, stopFlag, workerVars, stopper, values, excused>>

CleanupEnds ==
  /\ Alive /\ thread \in {"cleanup", "failedCleanup"}
  /\ thread' = IF thread = "cleanup" THEN "ended" ELSE "failedEnded"
  /\ UNCHANGED <<queueVars, closing, inst, stopFlag, workerVars, stopper, values, excused>>

\* `_bridge_start` saw `started`: the instance runs, unless close has already
\* removed it.
StartSucceeds ==
  /\ Alive /\ task.type = "start" /\ task.step = "begun" /\ thread \in {"loop", "cleanup", "ended"}
  /\ inst' = IF inst = "absent" THEN inst ELSE "running"
  /\ Reply
  /\ UNCHANGED <<tasks, qThread, closing, thread, stopFlag, workerVars, stopper, values, excused>>

StartFails ==
  /\ Alive /\ task.type = "start" /\ task.step = "begun" /\ thread = "failedEnded"
  /\ inst' = "absent" /\ Reply
  /\ UNCHANGED <<tasks, qThread, closing, thread, stopFlag, workerVars, stopper, values, excused>>

(***************************************************************************)
(* execute                                                                 *)
(***************************************************************************)
\* Only a running instance takes actions.
SwapRefused ==
  /\ Alive /\ task.type = "swap" /\ task.step = "new" /\ inst # "running"
  /\ Reply
  /\ UNCHANGED <<tasks, qThread, closing, inst, thread, stopFlag, workerVars, stopper, values,
                 excused>>

SwapUnsubscribes ==
  /\ Alive /\ task.type = "swap" /\ task.step = "new" /\ inst = "running"
  /\ \E e \in Events :
       /\ subs[e] # 0 \/ \A x \in Events : subs[x] = 0
       /\ Pop("swap", e)
  /\ task' = [task EXCEPT !.step = "subscribe"]
  /\ UNCHANGED <<tasks, qThread, answers, closing, inst, thread, stopFlag, retired, mine, workers,
                 bus, stopper, values, excused>>

SwapRecords ==
  /\ Alive /\ task.type = "swap" /\ task.step = "subscribe" /\ popped["swap"] = 0
  /\ \E e \in Events :
       IF subs[e] = 0 THEN Record(e) /\ UNCHANGED bus /\ task' = [task EXCEPT !.step = "register"]
       ELSE task' = [task EXCEPT !.step = "begun"] /\ UNCHANGED <<workers, mine, subs, bus>>
  /\ UNCHANGED <<tasks, qThread, answers, closing, inst, thread, stopFlag, retired, popped,
                 stopper, values, excused>>

SwapRegisters ==
  /\ Alive /\ task.type = "swap" /\ task.step = "register"
  /\ bus' = bus \cup {Len(workers)}
  /\ task' = [task EXCEPT !.step = "begun"]
  /\ UNCHANGED <<tasks, qThread, answers, closing, inst, thread, stopFlag, subs, retired, mine,
                 workers, popped, stopper, values, excused>>

SwapEnds ==
  /\ Alive /\ task.type = "swap" /\ task.step = "begun"
  /\ Reply
  /\ UNCHANGED <<tasks, qThread, closing, inst, thread, stopFlag, workerVars, stopper, values,
                 excused>>

(***************************************************************************)
(* stop-driver, and the stop of Bridge.close: both run _bridge_stop        *)
(***************************************************************************)
Registered == {e \in Events : subs[e] # 0}

StopAbsent ==
  /\ Alive /\ task.type = "stop" /\ task.step = "new" /\ inst = "absent"
  /\ Reply
  /\ UNCHANGED <<tasks, qThread, closing, inst, thread, stopFlag, workerVars, stopper, values,
                 excused>>

StopBegins(s) ==
  /\ Alive /\ stopper[s].pc = "idle" /\ inst # "absent"
  /\ CASE s = "task" -> task.type = "stop" /\ task.step = "new"
     /\ task' = [task EXCEPT !.step = "begun"]
       [] s = "close" -> closing = "stopping" /\ UNCHANGED task
  /\ inst' = "stopping"
  /\ stopper' = [stopper EXCEPT ![s] = [pc |-> "unsubscribe", keys |-> Registered, joins |-> {}]]
  /\ UNCHANGED <<tasks, qThread, answers, closing, thread, stopFlag, workerVars, values, excused>>

\* unsubscribe of the next key; one that somebody else took out is skipped.
StopUnsubscribes(s) ==
  /\ Alive /\ stopper[s].pc = "unsubscribe" /\ popped[s] = 0
  /\ \E e \in stopper[s].keys :
       /\ Pop(s, e)
       /\ stopper' = [stopper EXCEPT ![s].keys = @ \ {e}]
  /\ UNCHANGED <<queueVars, closing, inst, thread, stopFlag, retired, mine, workers, bus, values,
                 excused>>

StopListsWorkers(s) ==
  /\ Alive /\ stopper[s].pc = "unsubscribe" /\ popped[s] = 0 /\ stopper[s].keys = {}
  /\ stopper' = [stopper EXCEPT ![s].pc = "join", ![s].joins = retired]
  /\ UNCHANGED <<queueVars, closing, inst, thread, stopFlag, workerVars, values, excused>>

\* worker.join: it has exited, or the deadline passed.
StopJoins(s) ==
  /\ Alive /\ stopper[s].pc = "join"
  /\ \E w \in stopper[s].joins :
       /\ stopper' = [stopper EXCEPT ![s].joins = @ \ {w}]
       /\ IF Gone(w) THEN retired' = retired \ {w} /\ UNCHANGED excused
          ELSE /\ Busy(w)
               /\ excused' = excused \cup {"joinTimedOut"} /\ UNCHANGED retired
  /\ UNCHANGED <<queueVars, closing, inst, thread, stopFlag, subs, mine, workers, bus, popped,
                 values>>

StopSetsFlag(s) ==
  /\ Alive /\ stopper[s].pc = "join" /\ stopper[s].joins = {}
  /\ stopFlag' = TRUE
  /\ stopper' = [stopper EXCEPT ![s].pc = "thread"]
  /\ UNCHANGED <<queueVars, closing, inst, thread, workerVars, values, excused>>

\* Joins the driver thread, or gives up at the deadline.  True only when every
\* thread it knows of has exited.
StopJoinsThread(s) ==
  /\ Alive /\ stopper[s].pc = "thread"
  /\ stopper' = [stopper EXCEPT ![s].pc = IF thread \in Ended /\ retired = {} THEN "stopped"
                                          ELSE "timeout"]
  /\ UNCHANGED <<queueVars, closing, inst, thread, stopFlag, workerVars, values, excused>>

\* The end of _stop_driver: a stop that timed out leaves the instance errored,
\* close abandons it.
StopEnds(s) ==
  /\ Alive /\ stopper[s].pc \in {"stopped", "timeout"}
  /\ inst' = IF s = "close" \/ stopper[s].pc = "stopped"
     \/ inst = "absent" THEN "absent" ELSE "errored"
  /\ stopper' = [stopper EXCEPT ![s] = NotStopping]
  /\ IF s = "task" THEN Reply /\ UNCHANGED excused
     ELSE /\ excused' = excused \cup (IF stopper[s].pc = "timeout" THEN {"abandoned"} ELSE {})
          /\ UNCHANGED <<answers, task>>
  /\ UNCHANGED <<tasks, qThread, closing, thread, stopFlag, workerVars, values>>

(***************************************************************************)
(* Bridge.close                                                            *)
(***************************************************************************)
\* Queued requests get an error reply and never run.
CloseBegins ==
  /\ closing = "open"
  /\ closing' = "grace"
  /\ tasks' = <<>>
  /\ answers' = [i \in DOMAIN answers |->
                   answers[i] + Cardinality({j \in DOMAIN tasks : tasks[j].id = i})]
  /\ UNCHANGED <<qThread, task, inst, thread, stopFlag, workerVars, stopper, values, excused>>

\* The running request ended, or its grace period did.
GraceEnds ==
  /\ closing = "grace"
  /\ closing' = "stopping"
  /\ excused' = excused \cup (IF qThread THEN {"overlapped"} ELSE {})
  /\ UNCHANGED <<queueVars, inst, thread, stopFlag, workerVars, stopper, values>>

\* _stop_all found no instance, or its deadline passed; the output is flushed
\* and the process exits with its daemon threads.
Flush ==
  /\ closing = "stopping"
  /\ inst = "absent" \/ stopper["close"].pc # "idle"
  /\ closing' = "flushed"
  /\ UNCHANGED <<queueVars, inst, thread, stopFlag, workerVars, stopper, values, excused>>

\* Every thread goes on, pre_run, loop, on_data and cleanup return, and a join
\* that cannot succeed times out.
ThreadsProgress ==
  \/ Take \/ StartRefused \/ StartBegins \/ PreRunEnds \/ SubscribeStatic \/ StartedSet
  \/ FailedStart \/ LoopEnds \/ CleanupEnds \/ StartSucceeds \/ StartFails
  \/ SwapRefused \/ SwapUnsubscribes \/ SwapRecords \/ SwapRegisters \/ SwapEnds
  \/ StopAbsent \/ GraceEnds \/ Flush
  \/ \E u \in Unsubscribers : Retire(u)
  \/ \E w \in Workers : OnDataEnds(w) \/ WorkerExits(w)
  \/ \E s \in Stoppers : \/ StopBegins(s) \/ StopUnsubscribes(s) \/ StopListsWorkers(s)
                         \/ StopJoins(s) \/ StopSetsFlag(s) \/ StopJoinsThread(s) \/ StopEnds(s)

ThreadsNext ==
  \/ ThreadsProgress
  \/ \E type \in Types : Submit(type)
  \/ GoIdle \/ Offer \/ PreRunRaises \/ CloseBegins
  \/ \E w \in Workers : Deliver(w)

ThreadsSpec == ThreadsInit /\ [][ThreadsNext]_tVars
ThreadsFairSpec == ThreadsSpec /\ WF_tVars(ThreadsProgress)

(***************************************************************************)
(* Properties                                                              *)
(***************************************************************************)
\* on_data never races the release of resources: no worker of the driver is in
\* it while cleanup runs, or after (driver.py:438-439).  The exceptions are the
\* ones the code makes: a worker whose join timed out, and a stop by close
\* while a request of the instance was still running.
NoDataDuringCleanup ==
  (thread \in {"cleanup", "failedCleanup"} \cup Ended /\ excused = {}) =>
    \A w \in mine : ~Busy(w)

\* A stop that reports success has left nothing behind: the driver's threads
\* are gone and none of its callbacks is registered (driver.py:440-441).
StoppedMeansStopped ==
  (inst = "absent" /\ thread # "none" /\ excused = {}) =>
    /\ thread \in Ended
    /\ \A w \in mine : Gone(w) /\ w \notin bus

\* Each worker hands values on in the order they were emitted.
DeliveredInOrder ==
  \A w \in Workers : LET v == workers[w] IN
    /\ \A i \in DOMAIN v.pending : v.pending[i] > v.last
    /\ \A i, j \in DOMAIN v.pending : i < j => v.pending[i] < v.pending[j]

\* No request is answered twice; one waits only where a thread will take it;
\* and once the bridge has flushed its output, only a request that outlived its
\* grace period is without an answer.
EachRequestAnsweredOnce ==
  /\ \A i \in DOMAIN answers : answers[i] <= 1
  /\ tasks # <<>> => qThread
  /\ closing = "flushed" => \A i \in DOMAIN answers : answers[i] = 1 \/ task.id = i

DriverThreadsAreSafe ==
  NoDataDuringCleanup /\ StoppedMeansStopped /\ DeliveredInOrder /\ EachRequestAnsweredOnce

\* Every request is answered, unless the bridge closes first, and a close ends.
RequestsAnswered ==
  closing = "flushed" \/ (closing = "open" /\ \A i \in DOMAIN answers : answers[i] = 1)
EveryRequestEnds == []<>RequestsAnswered

-----------------------------------------------------------------------------
(***************************************************************************)
(* Proofs, for any number of workers, requests and values.  Unless a join  *)
(* gave up on a worker, what is subscribed, retired or on the bus tells    *)
(* which workers still run.                                                *)
(***************************************************************************)
ThreadsBounds ==
  /\ Subscribed \subseteq Events
  /\ MaxSize \in Nat /\ MaxRequests \in Nat /\ MaxWorkers \in Nat /\ MaxValues \in Nat

Requests == [id : 1..MaxRequests, type : Types, step : {"new"}]
Tasks == [id : 0..MaxRequests, type : Types \cup {"none"},
          step : {"new", "begun", "subscribe", "register"}]

\* A request without an answer is in the queue, once, or the one that runs.
QueueHalf ==
  /\ qThread \in BOOLEAN /\ tasks \in Seq(Requests) /\ task \in Tasks
  /\ answers \in Seq(0..1) /\ Len(answers) <= MaxRequests
  /\ task.id = 0 <=> task = NoTask
  /\ task.type = "none" <=> task = NoTask
  /\ task # NoTask => qThread /\ task.id \in DOMAIN answers /\ answers[task.id] = 0
  /\ tasks # <<>> => qThread /\ closing = "open"
  /\ \A j \in DOMAIN tasks : /\ tasks[j].id \in DOMAIN answers /\ answers[tasks[j].id] = 0
                             /\ tasks[j].id # task.id
  /\ \A j, k \in DOMAIN tasks : tasks[j].id = tasks[k].id => j = k
  /\ \A i \in DOMAIN answers : answers[i] = 1 \/ i = task.id
     \/ \E j \in DOMAIN tasks : tasks[j].id = i

LEMMA QueueStarts == ASSUME ThreadsBounds PROVE ThreadsInit => QueueHalf
<1> SUFFICES ASSUME ThreadsInit PROVE QueueHalf
  OBVIOUS
<1>1. tasks = <<>> /\ qThread = FALSE /\ task = NoTask /\ answers = <<>>
  BY DEF ThreadsInit
<1>2. tasks \in Seq(Requests) /\ DOMAIN tasks = {}
  BY <1>1
<1>3. answers \in Seq(0..1) /\ DOMAIN answers = {} /\ Len(answers) <= MaxRequests
  BY <1>1 DEF ThreadsBounds
<1>4. task \in Tasks /\ task.id = 0 /\ task.type = "none"
  BY <1>1 DEF ThreadsBounds, NoTask, Tasks
<1> QED BY <1>1, <1>2, <1>3, <1>4 DEF QueueHalf

LEMMA QueueStays ==
  ASSUME QueueHalf, UNCHANGED queueVars, closing' = closing \/ tasks = <<>> PROVE QueueHalf'
<1>1. tasks' = tasks /\ qThread' = qThread /\ task' = task /\ answers' = answers
  BY DEF queueVars
<1>2. tasks # <<>> => qThread /\ closing' = "open"
  BY DEF QueueHalf
<1> QED BY <1>1, <1>2 DEF QueueHalf

LEMMA QueueSubmits == ASSUME ThreadsBounds, QueueHalf, NEW type \in Types, Submit(type)
    PROVE QueueHalf'
<1> USE DEF ThreadsBounds
<1>1. /\ closing = "open" /\ Len(answers) < MaxRequests /\ answers' = Append(answers, 0)
         /\ qThread' = TRUE
      /\ tasks' = Append(tasks, [id |-> Len(answers) + 1, type |-> type, step |-> "new"])
      /\ task' = task /\ closing' = closing
  BY DEF Submit
<1>2. tasks \in Seq(Requests) /\ answers \in Seq(0..1) /\ Len(answers) \in Nat
    /\ Len(tasks) \in Nat /\ task \in Tasks
      /\ DOMAIN tasks = 1..Len(tasks) /\ DOMAIN answers = 1..Len(answers)
  BY DEF QueueHalf
<1> PICK n, r : n = Len(answers) + 1 /\ r = [id |-> n, type |-> type, step |-> "new"]
  OBVIOUS
<1>3. n \in 1..MaxRequests /\ n \notin DOMAIN answers /\ n = Len(answers) + 1 /\ n # 0
  BY <1>1, <1>2
<1>4. r \in Requests /\ r.id = n
  BY <1>3 DEF Requests
<1>5. /\ tasks' \in Seq(Requests) /\ DOMAIN tasks' = 1..(Len(tasks) + 1)
         /\ tasks'[Len(tasks) + 1] = r
      /\ \A j \in 1..Len(tasks) : tasks'[j] = tasks[j]
  BY <1>1, <1>2, <1>4
<1>6. /\ answers' \in Seq(0..1) /\ DOMAIN answers' = 1..n /\ Len(answers') = n /\ answers'[n] = 0
      /\ \A i \in 1..Len(answers) : answers'[i] = answers[i]
  BY <1>1, <1>2, <1>3
<1>7. \A j \in DOMAIN tasks' : j \in DOMAIN tasks \/ j = Len(tasks) + 1
  BY <1>2, <1>5
<1>8. \A i \in DOMAIN answers' : i \in DOMAIN answers \/ i = n
  BY <1>2, <1>3, <1>6
<1>9. \A i \in DOMAIN answers : i \in DOMAIN answers' /\ i # n
  BY <1>2, <1>3, <1>6
<1>10. task.id # n
  BY <1>3 DEF QueueHalf, NoTask
<1>11. \A j \in DOMAIN tasks' : tasks'[j].id \in DOMAIN answers' /\ answers'[tasks'[j].id] = 0
    /\ tasks'[j].id # task.id
  <2> TAKE j \in DOMAIN tasks'
  <2>1. CASE j \in DOMAIN tasks
    <3>1. tasks'[j] = tasks[j] /\ tasks[j].id \in DOMAIN answers /\ answers[tasks[j].id] = 0
        /\ tasks[j].id # task.id
      BY <1>2, <1>5, <2>1 DEF QueueHalf
    <3> QED BY <1>2, <1>6, <1>9, <3>1
  <2>2. CASE j = Len(tasks) + 1
    <3>1. n \in 1..n
      BY <1>3
    <3> QED BY <1>4, <1>5, <1>6, <1>10, <2>2, <3>1
  <2> QED BY <1>7, <2>1, <2>2
<1>12. ASSUME NEW j \in DOMAIN tasks', NEW k \in DOMAIN tasks', tasks'[j].id = tasks'[k].id
    PROVE j = k
  <2>1. \A l \in DOMAIN tasks : tasks'[l] = tasks[l] /\ tasks'[l].id # n
    BY <1>2, <1>5, <1>9 DEF QueueHalf
  <2>2. tasks'[Len(tasks) + 1].id = n
    BY <1>4, <1>5
  <2> QED BY <1>7, <1>12, <2>1, <2>2 DEF QueueHalf
<1>13. \A i \in DOMAIN answers' : answers'[i] = 1 \/ i = task.id
    \/ \E j \in DOMAIN tasks' : tasks'[j].id = i
  <2> TAKE i \in DOMAIN answers'
  <2>1. CASE i = n
    <3>1. Len(tasks) + 1 \in DOMAIN tasks'
      BY <1>2, <1>5
    <3> QED BY <1>4, <1>5, <2>1, <3>1
  <2>2. CASE i \in DOMAIN answers
    <3>1. \A j \in DOMAIN tasks : j \in DOMAIN tasks' /\ tasks'[j] = tasks[j]
      BY <1>2, <1>5
    <3>2. answers[i] = 1 \/ i = task.id \/ \E j \in DOMAIN tasks : tasks[j].id = i
      BY <2>2 DEF QueueHalf
    <3>3. answers'[i] = answers[i]
      BY <1>2, <1>6, <2>2
    <3> QED BY <3>1, <3>2, <3>3
  <2> QED BY <1>8, <2>1, <2>2
<1>14. task # NoTask => task.id \in DOMAIN answers' /\ answers'[task.id] = 0
  <2>1. task # NoTask => task.id \in DOMAIN answers /\ answers[task.id] = 0
    BY DEF QueueHalf
  <2> QED BY <1>2, <1>6, <1>9, <2>1
<1>15. Len(answers') <= MaxRequests
  BY <1>3, <1>6
<1>16. /\ task \in Tasks /\ task.id = 0 <=> task = NoTask
       /\ task.type = "none" <=> task = NoTask
  BY DEF QueueHalf
<1> QED BY <1>1, <1>5, <1>6, <1>11, <1>12, <1>13, <1>14, <1>15, <1>16 DEF QueueHalf

LEMMA QueueTakes == ASSUME ThreadsBounds, QueueHalf, Take PROVE QueueHalf' /\ task' \in Requests
<1> USE DEF ThreadsBounds
<1>1. /\ qThread /\ task = NoTask /\ tasks # <<>> /\ task' = Head(tasks) /\ tasks' = Tail(tasks)
      /\ UNCHANGED <<qThread, answers, closing>>
  BY DEF Take
<1>2. tasks \in Seq(Requests) /\ Len(tasks) \in Nat /\ DOMAIN tasks = 1..Len(tasks)
  BY DEF QueueHalf
<1>3. tasks' \in Seq(Requests) /\ Len(tasks') = Len(tasks) - 1 /\ DOMAIN tasks' = 1..Len(tasks')
  BY <1>1, <1>2
<1>4. \A j \in DOMAIN tasks' : tasks'[j] = tasks[j + 1] /\ j + 1 \in DOMAIN tasks /\ j + 1 # 1
  <2>1. \A j \in 1..Len(Tail(tasks)) : Tail(tasks)[j] = tasks[j + 1]
    BY <1>1, <1>2
  <2>2. \A j \in DOMAIN tasks' : j + 1 \in DOMAIN tasks /\ j + 1 # 1
    BY <1>2, <1>3
  <2> QED BY <1>1, <1>3, <2>1, <2>2
<1>5. task' = tasks[1] /\ 1 \in DOMAIN tasks /\ tasks[1] \in Requests
  BY <1>1, <1>2
<1>6. task' \in Tasks /\ task'.id # 0 /\ task'.type # "none" /\ task'.id = tasks[1].id
  BY <1>5 DEF Requests, Tasks, Types
<1>7. task' # NoTask
  BY <1>6 DEF NoTask
<1>8. task'.id \in DOMAIN answers /\ answers[task'.id] = 0
  BY <1>5, <1>6 DEF QueueHalf
<1>9. \A j \in DOMAIN tasks' : tasks'[j].id \in DOMAIN answers /\ answers[tasks'[j].id] = 0
    /\ tasks'[j].id # task'.id
  BY <1>4, <1>5, <1>6 DEF QueueHalf
<1>10. \A j, k \in DOMAIN tasks' : tasks'[j].id = tasks'[k].id => j = k
  <2> TAKE j, k \in DOMAIN tasks'
  <2>1. j + 1 = k + 1 => j = k
    BY <1>3
  <2> QED BY <1>4, <2>1 DEF QueueHalf
<1>11. \A i \in DOMAIN answers : answers[i] = 1 \/ i = task'.id
    \/ \E j \in DOMAIN tasks' : tasks'[j].id = i
  <2> TAKE i \in DOMAIN answers
  <2>1. answers[i] = 1 \/ i = task.id \/ \E j \in DOMAIN tasks : tasks[j].id = i
    BY DEF QueueHalf
  <2>2. task.id \notin DOMAIN answers
    BY <1>1 DEF QueueHalf, NoTask
  <2>3. ASSUME NEW j \in DOMAIN tasks, tasks[j].id = i, j # 1
      PROVE \E k \in DOMAIN tasks' : tasks'[k].id = i
    <3>1. j - 1 \in DOMAIN tasks' /\ (j - 1) + 1 = j
      BY <1>2, <1>3, <2>3
    <3> QED BY <1>4, <2>3, <3>1
  <2> QED BY <1>6, <2>1, <2>2, <2>3
<1>12. answers \in Seq(0..1) /\ Len(answers) <= MaxRequests /\ (tasks # <<>> => closing = "open")
  BY DEF QueueHalf
<1>13. task' \in Requests
  BY <1>5
<1> QED BY <1>1, <1>3, <1>6, <1>7, <1>8, <1>9, <1>10, <1>11, <1>12, <1>13 DEF QueueHalf

\* The thread leaves, with nothing to do.
LEMMA QueueIdles == ASSUME QueueHalf, GoIdle PROVE QueueHalf'
BY DEF GoIdle, QueueHalf

\* A request goes on.
LEMMA QueueWorks ==
  ASSUME QueueHalf, task # NoTask, NEW step \in {"new", "begun", "subscribe", "register"},
         task' = [task EXCEPT !.step = step], UNCHANGED <<tasks, qThread, answers, closing>>
  PROVE  QueueHalf' /\ task' # NoTask /\ task'.type = task.type /\ task'.step = step
<1>1. task' \in Tasks /\ task'.id = task.id /\ task'.type = task.type /\ task'.step = step
  BY DEF QueueHalf, Tasks
<1>2. task.id # 0 /\ task.type # "none"
  BY DEF QueueHalf
<1>3. task' # NoTask
  BY <1>1, <1>2 DEF NoTask
<1> QED BY <1>1, <1>2, <1>3 DEF QueueHalf

LEMMA QueueReplies ==
  ASSUME ThreadsBounds, QueueHalf, task # NoTask, Reply, UNCHANGED <<tasks, qThread, closing>>
  PROVE  QueueHalf' /\ task' = NoTask
<1> USE DEF ThreadsBounds
<1>1. answers' = [answers EXCEPT ![task.id] = @ + 1] /\ task' = NoTask
  BY DEF Reply
<1>2. answers \in Seq(0..1) /\ task.id \in DOMAIN answers /\ answers[task.id] = 0
    /\ Len(answers) <= MaxRequests
      /\ DOMAIN answers = 1..Len(answers)
  BY DEF QueueHalf
<1> PICK id : id = task.id
  OBVIOUS
<1>3. answers' = [answers EXCEPT ![id] = 1]
  BY <1>1, <1>2
<1>4. /\ answers' \in Seq(0..1) /\ Len(answers') = Len(answers) /\ DOMAIN answers' = DOMAIN answers
      /\ answers'[id] = 1 /\ \A i \in DOMAIN answers : i # id => answers'[i] = answers[i]
  BY <1>2, <1>3
<1>5. NoTask \in Tasks /\ NoTask.id = 0 /\ NoTask.type = "none" /\ 0 \notin DOMAIN answers
  BY <1>2 DEF NoTask, Tasks
<1>6. \A j \in DOMAIN tasks : tasks[j].id \in DOMAIN answers /\ answers[tasks[j].id] = 0
    /\ tasks[j].id # id
  BY DEF QueueHalf
<1>7. \A i \in DOMAIN answers : answers[i] = 1 \/ i = id \/ \E j \in DOMAIN tasks : tasks[j].id = i
  BY DEF QueueHalf
<1>8. \A i \in DOMAIN answers' : answers'[i] = 1 \/ i = NoTask.id
    \/ \E j \in DOMAIN tasks : tasks[j].id = i
  BY <1>4, <1>7
<1>9. \A j \in DOMAIN tasks : /\ tasks[j].id \in DOMAIN answers' /\ answers'[tasks[j].id] = 0
                              /\ tasks[j].id # NoTask.id
  BY <1>4, <1>5, <1>6
<1>10. qThread \in BOOLEAN /\ tasks \in Seq(Requests)
    /\ (tasks # <<>> => qThread /\ closing = "open")
       /\ \A j, k \in DOMAIN tasks : tasks[j].id = tasks[k].id => j = k
  BY DEF QueueHalf
<1> QED BY <1>1, <1>2, <1>4, <1>5, <1>8, <1>9, <1>10 DEF QueueHalf

\* Every queued request gets its one answer.
LEMMA QueueCloses == ASSUME ThreadsBounds, QueueHalf, CloseBegins PROVE QueueHalf'
<1> USE DEF ThreadsBounds
<1> DEFINE Of(i) == {j \in DOMAIN tasks : tasks[j].id = i}
<1>1. /\ closing' = "grace" /\ tasks' = <<>> /\ UNCHANGED <<qThread, task>>
      /\ answers' = [i \in DOMAIN answers |-> answers[i] + Cardinality(Of(i))]
  BY DEF CloseBegins
<1>2. answers \in Seq(0..1) /\ Len(answers) <= MaxRequests /\ DOMAIN answers = 1..Len(answers)
    /\ Len(answers) \in Nat
  BY DEF QueueHalf
<1>3. ASSUME NEW i \in DOMAIN answers
      PROVE  /\ answers[i] + Cardinality(Of(i)) \in 0..1
             /\ i # task.id => answers[i] + Cardinality(Of(i)) = 1
             /\ i = task.id => answers[i] + Cardinality(Of(i)) = answers[i]
  <2>1. CASE \E j \in DOMAIN tasks : tasks[j].id = i
    <3>1. PICK j \in DOMAIN tasks : tasks[j].id = i
      BY <2>1
    <3>2. Of(i) = {j} /\ answers[i] = 0 /\ i # task.id
      BY <3>1 DEF QueueHalf
    <3> HIDE DEF Of
    <3>3. Cardinality({j}) = 1
      BY FS_Singleton
    <3>4. Cardinality(Of(i)) = 1
      BY <3>2, <3>3
    <3> QED BY <3>2, <3>4
  <2>2. CASE ~\E j \in DOMAIN tasks : tasks[j].id = i
    <3>1. Of(i) = {} /\ (answers[i] = 1 \/ i = task.id) /\ answers[i] \in 0..1
      BY <1>2, <2>2 DEF QueueHalf
    <3> HIDE DEF Of
    <3>2. Cardinality({}) = 0
      BY FS_EmptySet
    <3>3. Cardinality(Of(i)) = 0
      BY <3>1, <3>2
    <3> QED BY <3>1, <3>3
  <2> QED BY <2>1, <2>2
<1> HIDE DEF Of
<1>4. answers' \in [1..Len(answers) -> 0..1]
  BY <1>1, <1>2, <1>3
<1>5. answers' \in Seq(0..1) /\ Len(answers') = Len(answers) /\ DOMAIN answers' = DOMAIN answers
  BY <1>2, <1>4
<1>6. \A i \in DOMAIN answers : /\ i # task.id => answers'[i] = 1
                                /\ i = task.id => answers'[i] = answers[i]
  BY <1>1, <1>3
<1>7. tasks' \in Seq(Requests) /\ DOMAIN tasks' = {}
  BY <1>1
<1>8. /\ qThread \in BOOLEAN /\ task \in Tasks
      /\ task.id = 0 <=> task = NoTask
      /\ task.type = "none" <=> task = NoTask
      /\ task # NoTask => qThread /\ task.id \in DOMAIN answers /\ answers[task.id] = 0
  BY DEF QueueHalf
<1> QED BY <1>1, <1>2, <1>5, <1>6, <1>7, <1>8 DEF QueueHalf

LEMMA QueueHolds == QueueHalf => EachRequestAnsweredOnce
<1> SUFFICES ASSUME QueueHalf PROVE EachRequestAnsweredOnce
  OBVIOUS
<1>1. \A i \in DOMAIN answers : answers[i] <= 1
  BY DEF QueueHalf
<1>2. tasks # <<>> => qThread /\ closing = "open"
  BY DEF QueueHalf
<1>3. ASSUME closing = "flushed" PROVE \A i \in DOMAIN answers : answers[i] = 1 \/ task.id = i
  <2>1. DOMAIN tasks = {}
    BY <1>2, <1>3
  <2> QED BY <2>1 DEF QueueHalf
<1> QED BY <1>1, <1>2, <1>3 DEF EachRequestAnsweredOnce

-----------------------------------------------------------------------------
(* Workers take values in the order of their numbers.                       *)
WorkerRecords == [pc : {"wait", "busy", "gone"}, pending : Seq(1..MaxValues), closed : BOOLEAN,
                  last : 0..MaxValues]

Orderly(v, n) ==
  /\ v \in WorkerRecords /\ v.last <= n /\ (v.closed => v.pending = <<>>)
  /\ \A i \in 1..Len(v.pending) : v.pending[i] > v.last /\ v.pending[i] <= n
  /\ \A i, j \in 1..Len(v.pending) : i < j => v.pending[i] < v.pending[j]

WorkersHalf ==
  /\ values \in 0..MaxValues /\ workers \in Seq(WorkerRecords) /\ Len(workers) <= MaxWorkers
  /\ \A w \in Workers : Orderly(workers[w], values)

\* What the rest of the driver sees of a step of the workers.
Follows(ws, new) ==
  /\ Len(ws) \in Nat /\ Len(new) = Len(ws)
  /\ \A w \in 1..Len(ws) : ws[w].pc = "gone" => new[w].pc = "gone"

LEMMA WorkersStart == ASSUME ThreadsBounds PROVE ThreadsInit => WorkersHalf
<1> SUFFICES ASSUME ThreadsInit PROVE WorkersHalf
  OBVIOUS
<1>1. workers = <<>> /\ values = 0
  BY DEF ThreadsInit
<1>2. workers \in Seq(WorkerRecords) /\ Len(workers) = 0
  BY <1>1
<1> QED BY <1>1, <1>2 DEF ThreadsBounds, WorkersHalf, Workers

LEMMA NewWorkerIsOrderly == ASSUME ThreadsBounds, NEW n \in Nat
    PROVE Orderly(NewWorker, n) /\ NewWorker.pc = "wait"
<1> PICK none \in Seq(1..MaxValues) : none = <<>>
  <2>1. <<>> \in Seq(1..MaxValues)
    OBVIOUS
  <2> QED BY <2>1
<1>1. NewWorker = [pc |-> "wait", pending |-> none, closed |-> FALSE, last |-> 0]
  BY DEF NewWorker
<1>2. NewWorker \in WorkerRecords /\ NewWorker.pending = none /\ NewWorker.last = 0
    /\ ~NewWorker.closed /\ NewWorker.pc = "wait"
  BY <1>1 DEF ThreadsBounds, WorkerRecords
<1>3. Len(none) = 0
  OBVIOUS
<1> QED BY <1>2, <1>3 DEF Orderly

LEMMA OfferedIsOrderly ==
  ASSUME ThreadsBounds, NEW n \in Nat, n + 1 <= MaxValues, NEW v, Orderly(v, n)
  PROVE  Orderly(Offered(v, n + 1), n + 1) /\ Offered(v, n + 1).pc = v.pc
<1> USE DEF ThreadsBounds
<1>9. PICK p : p = v.pending
  OBVIOUS
<1>1. /\ v \in WorkerRecords /\ p \in Seq(1..MaxValues) /\ v.last \in 0..MaxValues /\ v.last <= n
      /\ \A i \in 1..Len(p) : p[i] > v.last /\ p[i] <= n /\ p[i] \in Nat
      /\ \A i, j \in 1..Len(p) : i < j => p[i] < p[j]
  <2>1. v \in WorkerRecords /\ p \in Seq(1..MaxValues) /\ v.last \in 0..MaxValues /\ v.last <= n
    BY <1>9 DEF Orderly, WorkerRecords
  <2>2. \A i \in 1..Len(p) : p[i] \in Nat
    BY <2>1
  <2> QED BY <1>9, <2>1, <2>2 DEF Orderly
<1>2. CASE v.closed
  <2>1. Offered(v, n + 1) = v /\ v.last <= n + 1
    BY <1>1, <1>2 DEF Offered
  <2>2. \A i \in 1..Len(p) : p[i] <= n + 1
    BY <1>1
  <2> QED BY <1>1, <1>2, <1>9, <2>1, <2>2 DEF Orderly
<1>3. CASE ~v.closed
  <2>9. PICK q : q = IF MaxSize = 0 THEN <<n + 1>> ELSE Append(IF Len(p) >= MaxSize THEN Tail(p) ELSE p, n + 1)
    OBVIOUS
  <2>1. Offered(v, n + 1) = [v EXCEPT !.pending = q]
    BY <1>3, <1>9, <2>9 DEF Offered
  <2>2. q \in Seq(1..MaxValues) /\ (\A i \in 1..Len(q) : q[i] > v.last /\ q[i] <= n + 1)
        /\ \A i, j \in 1..Len(q) : i < j => q[i] < q[j]
    <3>1. CASE MaxSize = 0
      <4>1. q = <<n + 1>> /\ n + 1 \in 1..MaxValues
        BY <2>9, <3>1
      <4>2. q \in Seq(1..MaxValues) /\ Len(q) = 1 /\ q[1] = n + 1
        BY <4>1
      <4>3. \A i \in 1..Len(q) : i = 1
        BY <4>2
      <4>4. v.last < n + 1
        BY <1>1
      <4> QED BY <4>2, <4>3, <4>4
    <3>2. CASE MaxSize # 0
      <4>9. PICK old : old = IF Len(p) >= MaxSize THEN Tail(p) ELSE p
        OBVIOUS
      <4>1. PICK k \in {0, 1} : /\ old \in Seq(1..MaxValues) /\ Len(old) = Len(p) - k
                                   /\ Len(p) \in Nat
                                /\ \A i \in 1..Len(old) : old[i] = p[i + k] /\ i + k \in 1..Len(p)
        <5>1. CASE Len(p) >= MaxSize
          <6>1. p # <<>> /\ old = Tail(p) /\ Len(p) \in Nat
            <7>1. Len(p) \in Nat /\ Len(p) # 0
              BY <1>1, <3>2, <5>1
            <7> QED BY <4>9, <5>1, <7>1
          <6>2. Tail(p) \in Seq(1..MaxValues) /\ Len(Tail(p)) = Len(p) - 1
            BY <1>1, <6>1
          <6>3. \A i \in 1..Len(Tail(p)) : Tail(p)[i] = p[i + 1]
            BY <1>1, <6>1
          <6>4. \A i \in 1..Len(Tail(p)) : i + 1 \in 1..Len(p)
            BY <6>1, <6>2
          <6> QED BY <6>1, <6>2, <6>3, <6>4
        <5>2. CASE ~(Len(p) >= MaxSize)
          <6>1. old = p /\ Len(p) \in Nat
            BY <1>1, <4>9, <5>2
          <6>2. \A i \in 1..Len(p) : i + 0 = i
            BY <6>1
          <6>3. Len(p) = Len(p) - 0
            BY <6>1
          <6> QED BY <1>1, <6>1, <6>2, <6>3
        <5> QED BY <5>1, <5>2
      <4>2. q = Append(old, n + 1) /\ n + 1 \in 1..MaxValues
        BY <2>9, <3>2, <4>9
      <4>3. /\ q \in Seq(1..MaxValues) /\ Len(q) = Len(old) + 1 /\ q[Len(old) + 1] = n + 1
               /\ Len(old) \in Nat
            /\ \A i \in 1..Len(old) : q[i] = old[i]
        BY <4>1, <4>2
      <4>4. \A i \in 1..Len(q) : i \in 1..Len(old) \/ i = Len(old) + 1
        BY <4>3
      <4>5. \A i \in 1..Len(old) : q[i] = p[i + k] /\ i + k \in 1..Len(p)
        BY <4>1, <4>3
      <4>8. v.last \in Nat /\ v.last < n + 1
        BY <1>1
      <4>10. \A i \in 1..Len(p) : p[i] > v.last /\ p[i] <= n + 1 /\ p[i] < n + 1 /\ p[i] \in Nat
        BY <1>1
      <4>6. \A i \in 1..Len(q) : q[i] > v.last /\ q[i] <= n + 1
        <5> TAKE i \in 1..Len(q)
        <5>1. CASE i \in 1..Len(old)
          BY <4>5, <4>10, <5>1
        <5>2. CASE i = Len(old) + 1
          BY <4>3, <4>8, <5>2
        <5> QED BY <4>4, <5>1, <5>2
      <4>7. \A i, j \in 1..Len(q) : i < j => q[i] < q[j]
        <5> SUFFICES ASSUME NEW i \in 1..Len(q), NEW j \in 1..Len(q), i < j PROVE q[i] < q[j]
          OBVIOUS
        <5>1. i \in 1..Len(old)
          BY <4>3
        <5>2. CASE j = Len(old) + 1
          BY <4>3, <4>5, <4>10, <5>1, <5>2
        <5>3. CASE j \in 1..Len(old)
          <6>1. i + k < j + k
            BY <5>1, <5>3
          <6> QED BY <1>1, <4>5, <5>1, <5>3, <6>1
        <5> QED BY <4>4, <5>2, <5>3
      <4> QED BY <4>3, <4>6, <4>7
    <3> QED BY <3>1, <3>2
  <2>3. Offered(v, n + 1) \in WorkerRecords /\ Offered(v, n + 1).pending = q
      /\ Offered(v, n + 1).last = v.last
        /\ ~Offered(v, n + 1).closed /\ Offered(v, n + 1).pc = v.pc
    BY <1>1, <1>3, <2>1, <2>2 DEF WorkerRecords
  <2>4. v.last <= n + 1
    BY <1>1
  <2> QED BY <2>2, <2>3, <2>4 DEF Orderly
<1> QED BY <1>2, <1>3

\* One worker changes.
LEMMA WorkerChanges ==
  ASSUME WorkersHalf, NEW w \in Workers, NEW v, Orderly(v, values), workers[w].pc = "gone"
         => v.pc = "gone",
         workers' = [workers EXCEPT ![w] = v], values' = values
  PROVE  WorkersHalf' /\ Follows(workers, workers') /\ workers'[w] = v
         /\ \A x \in Workers : x # w => workers'[x] = workers[x]
<1>1. workers \in Seq(WorkerRecords) /\ v \in WorkerRecords /\ Len(workers) \in Nat
    /\ w \in 1..Len(workers)
  BY DEF WorkersHalf, Orderly, Workers
<1>2. workers' \in Seq(WorkerRecords) /\ Len(workers') = Len(workers) /\ workers'[w] = v
      /\ \A x \in 1..Len(workers) : x # w => workers'[x] = workers[x]
  BY <1>1
<1> QED BY <1>1, <1>2 DEF WorkersHalf, Follows, Workers

LEMMA WorkersOffer == ASSUME ThreadsBounds, WorkersHalf, Offer
    PROVE WorkersHalf' /\ Follows(workers, workers')
                                               /\ \A w \in Workers : workers'[w].pc = workers[w].pc
<1> USE DEF ThreadsBounds
<1>1. PICK late \in SUBSET (Workers \ bus) :
        workers' = [w \in Workers |-> IF w \in bus \cup late THEN Offered(workers[w],
                                                                          values + 1) ELSE workers[w]]
  BY DEF Offer
<1>2. values \in Nat /\ values + 1 <= MaxValues /\ values' = values + 1 /\ values' \in 0..MaxValues
  BY DEF Offer, WorkersHalf
<1>3. workers \in Seq(WorkerRecords) /\ Len(workers) \in Nat /\ Workers = 1..Len(workers)
    /\ Len(workers) <= MaxWorkers
  BY DEF WorkersHalf, Workers
<1>4. ASSUME NEW w \in Workers PROVE Orderly(workers'[w], values + 1)
    /\ workers'[w].pc = workers[w].pc
  <2>1. Orderly(workers[w], values)
    BY DEF WorkersHalf
  <2>2. Orderly(Offered(workers[w], values + 1), values + 1)
      /\ Offered(workers[w], values + 1).pc = workers[w].pc
    BY <1>2, <2>1, OfferedIsOrderly
  <2>3. Orderly(workers[w], values + 1)
    <3> PICK v : v = workers[w]
      OBVIOUS
    <3>1. v \in WorkerRecords /\ v.last \in Nat /\ v.pending \in Seq(1..MaxValues)
      BY <2>1 DEF Orderly, WorkerRecords
    <3>2. \A i \in 1..Len(v.pending) : v.pending[i] \in Nat
      BY <3>1
    <3> QED BY <1>2, <2>1, <3>1, <3>2 DEF Orderly
  <2>4. workers'[w] = IF w \in bus \cup late THEN Offered(workers[w], values + 1) ELSE workers[w]
    BY <1>1
  <2> QED BY <2>2, <2>3, <2>4
<1>5. workers' \in [1..Len(workers) -> WorkerRecords]
  <2>1. \A w \in Workers : workers'[w] \in WorkerRecords
    BY <1>4 DEF Orderly
  <2> QED BY <1>1, <1>3, <2>1
<1>6. workers' \in Seq(WorkerRecords) /\ Len(workers') = Len(workers)
  BY <1>3, <1>5
<1> QED BY <1>2, <1>3, <1>4, <1>6 DEF WorkersHalf, Follows, Workers

LEMMA WorkersDeliver ==
  ASSUME ThreadsBounds, WorkersHalf, NEW w \in Workers, Deliver(w)
  PROVE  /\ WorkersHalf' /\ Follows(workers, workers')
         /\ \A x \in Workers : workers'[x].pc = "busy" => workers[x].pc = "busy"
            \/ (x = w /\ workers[w].pc = "wait" /\ ~(stopFlag /\ w \in mine))
<1> USE DEF ThreadsBounds
<1>20. PICK old : old = workers[w]
  OBVIOUS
<1>21. PICK v : v = [old EXCEPT !.pending = Tail(old.pending), !.last = Head(old.pending),
                             !.pc = IF stopFlag /\ w \in mine THEN "wait" ELSE "busy"]
  OBVIOUS
<1>1. workers' = [workers EXCEPT ![w] = v] /\ old.pc = "wait" /\ ~old.closed /\ old.pending # <<>>
    /\ values' = values
  <2>1. workers \in Seq(WorkerRecords) /\ w \in 1..Len(workers)
    BY DEF WorkersHalf, Workers
  <2> QED BY <1>20, <1>21, <2>1 DEF Deliver
<1>22. PICK p : p = old.pending
  OBVIOUS
<1>23. PICK pc : pc = IF stopFlag /\ w \in mine THEN "wait" ELSE "busy"
  OBVIOUS
<1>2. /\ old \in WorkerRecords /\ p \in Seq(1..MaxValues) /\ old.last \in 0..MaxValues
         /\ values \in 0..MaxValues
      /\ \A i \in 1..Len(p) : p[i] > old.last /\ p[i] <= values /\ p[i] \in Nat
      /\ \A i, j \in 1..Len(p) : i < j => p[i] < p[j]
  <2>1. Orderly(old, values) /\ values \in 0..MaxValues
    BY <1>20 DEF WorkersHalf
  <2>2. old \in WorkerRecords /\ p \in Seq(1..MaxValues) /\ old.last \in 0..MaxValues
    BY <1>22, <2>1 DEF Orderly, WorkerRecords
  <2>3. \A i \in 1..Len(p) : p[i] \in Nat
    BY <2>2
  <2> QED BY <1>22, <2>1, <2>2, <2>3 DEF Orderly
<1>3. p # <<>>
  BY <1>1, <1>22
<1>4. Head(p) = p[1] /\ 1 \in 1..Len(p) /\ Len(p) \in Nat /\ p[1] \in 1..MaxValues
  BY <1>2, <1>3
<1>5. Tail(p) \in Seq(1..MaxValues) /\ Len(Tail(p)) = Len(p) - 1
  BY <1>2, <1>3
<1>6. \A i \in 1..Len(Tail(p)) : Tail(p)[i] = p[i + 1]
  BY <1>2, <1>3
<1>7. \A i \in 1..Len(Tail(p)) : i + 1 \in 1..Len(p) /\ 1 < i + 1
  BY <1>4, <1>5
<1>8. \A i, j \in 1..Len(Tail(p)) : i < j => i + 1 < j + 1
  BY <1>4, <1>5
<1>24. PICK q : q = Tail(p)
  OBVIOUS
<1>25. PICK l : l = Head(p)
  OBVIOUS
<1>9. v = [old EXCEPT !.pending = q, !.last = l, !.pc = pc]
  BY <1>21, <1>22, <1>23, <1>24, <1>25
<1>10. v \in WorkerRecords /\ v.pending = q /\ v.last = l /\ v.pc = pc /\ ~v.closed
  <2>1. q \in Seq(1..MaxValues) /\ l \in 0..MaxValues /\ pc \in {"wait", "busy"}
    BY <1>4, <1>5, <1>23, <1>24, <1>25
  <2> QED BY <1>1, <1>2, <1>9, <2>1 DEF WorkerRecords
<1>11. Orderly(v, values)
  <2>1. \A i \in 1..Len(q) : q[i] > l /\ q[i] <= values
    BY <1>2, <1>4, <1>6, <1>7, <1>24, <1>25
  <2>2. \A i, j \in 1..Len(q) : i < j => q[i] < q[j]
    BY <1>2, <1>6, <1>7, <1>8, <1>24
  <2>3. l <= values
    BY <1>2, <1>4, <1>25
  <2> QED BY <1>10, <2>1, <2>2, <2>3 DEF Orderly
<1>12. workers[w].pc = "wait"
  BY <1>1, <1>20
<1>13. WorkersHalf' /\ Follows(workers, workers') /\ workers'[w] = v /\ \A x \in Workers : x # w
    => workers'[x] = workers[x]
  BY <1>1, <1>11, <1>12, WorkerChanges
<1> QED BY <1>10, <1>12, <1>13, <1>23

\* on_data returns, a thread ends, a worker is closed.
LEMMA WorkersEnd ==
  ASSUME WorkersHalf, NEW w \in Workers, OnDataEnds(w) \/ WorkerExits(w)
  PROVE  /\ WorkersHalf' /\ Follows(workers, workers')
         /\ \A x \in Workers : workers'[x].pc = "busy" => workers[x].pc = "busy"
<1>1. PICK pc \in {"wait", "gone"} : workers' = [workers EXCEPT ![w].pc = pc] /\ values' = values
    /\ workers[w].pc # "gone"
  BY DEF OnDataEnds, WorkerExits, Busy
<1>7. PICK v : v = [workers[w] EXCEPT !.pc = pc]
  OBVIOUS
<1>2. workers' = [workers EXCEPT ![w] = v]
  <2>1. workers \in Seq(WorkerRecords) /\ w \in 1..Len(workers)
    BY DEF WorkersHalf, Workers
  <2> QED BY <1>1, <1>7, <2>1
<1>3. Orderly(workers[w], values) /\ workers[w] \in WorkerRecords
  BY DEF WorkersHalf, Orderly
<1>4. v \in WorkerRecords /\ v.pending = workers[w].pending /\ v.last = workers[w].last
    /\ v.closed = workers[w].closed /\ v.pc = pc
  BY <1>3, <1>7 DEF WorkerRecords
<1>5. Orderly(v, values)
  BY <1>3, <1>4 DEF Orderly
<1>6. WorkersHalf' /\ Follows(workers, workers') /\ workers'[w] = v /\ \A x \in Workers : x # w
    => workers'[x] = workers[x]
  BY <1>1, <1>2, <1>5, WorkerChanges
<1> QED BY <1>4, <1>6

LEMMA WorkersClose ==
  ASSUME WorkersHalf, NEW w \in Workers,
         workers' = [workers EXCEPT ![w].closed = TRUE, ![w].pending = <<>>],
         values' = values
  PROVE  WorkersHalf' /\ Follows(workers, workers')
         /\ \A x \in Workers : workers'[x].pc = workers[x].pc
<1> PICK none \in Seq(1..MaxValues) : none = <<>>
  <2>1. <<>> \in Seq(1..MaxValues)
    OBVIOUS
  <2> QED BY <2>1
<1>7. PICK v : v = [workers[w] EXCEPT !.closed = TRUE, !.pending = none]
  OBVIOUS
<1>1. workers \in Seq(WorkerRecords) /\ w \in 1..Len(workers)
  BY DEF WorkersHalf, Workers
<1>2. workers' = [workers EXCEPT ![w] = v]
  BY <1>1, <1>7
<1>3. Orderly(workers[w], values) /\ workers[w] \in WorkerRecords
  BY DEF WorkersHalf, Orderly
<1>4. v \in WorkerRecords /\ v.pending = none /\ v.last = workers[w].last /\ v.closed
    /\ v.pc = workers[w].pc
  BY <1>3, <1>7 DEF WorkerRecords
<1>5. Len(none) = 0
  OBVIOUS
<1>6. Orderly(v, values)
  BY <1>3, <1>4, <1>5 DEF Orderly
<1>8. WorkersHalf' /\ Follows(workers, workers') /\ workers'[w] = v /\ \A x \in Workers : x # w
    => workers'[x] = workers[x]
  BY <1>2, <1>4, <1>6, WorkerChanges
<1> QED BY <1>4, <1>8

LEMMA WorkersGrow ==
  ASSUME ThreadsBounds, WorkersHalf, NEW e, Record(e), values' = values
  PROVE  /\ WorkersHalf' /\ Len(workers) \in Nat /\ Len(workers') = Len(workers) + 1
            /\ Len(workers') <= MaxWorkers
         /\ workers'[Len(workers) + 1].pc = "wait" /\ \A x \in Workers : workers'[x] = workers[x]
<1> USE DEF ThreadsBounds
<1>1. workers' = Append(workers, NewWorker) /\ Len(workers) < MaxWorkers
  BY DEF Record
<1>2. values \in Nat /\ workers \in Seq(WorkerRecords) /\ Len(workers) \in Nat
  BY DEF WorkersHalf
<1>3. Orderly(NewWorker, values) /\ NewWorker \in WorkerRecords /\ NewWorker.pc = "wait"
  BY <1>2, NewWorkerIsOrderly DEF Orderly
<1>4. workers' \in Seq(WorkerRecords) /\ Len(workers') = Len(workers) + 1
    /\ workers'[Len(workers) + 1] = NewWorker
  BY <1>1, <1>2, <1>3
<1>5. \A x \in 1..Len(workers) : workers'[x] = workers[x]
  BY <1>1, <1>2, <1>3
<1>6. \A x \in 1..Len(workers') : x \in 1..Len(workers) \/ x = Len(workers) + 1
  BY <1>2, <1>4
<1>7. \A x \in 1..Len(workers') : Orderly(workers'[x], values)
  BY <1>3, <1>4, <1>5, <1>6 DEF WorkersHalf, Workers
<1>8. Len(workers') <= MaxWorkers
  BY <1>1, <1>2, <1>4
<1> QED BY <1>2, <1>3, <1>4, <1>5, <1>7, <1>8 DEF WorkersHalf, Workers

LEMMA WorkersHold == WorkersHalf => DeliveredInOrder
<1> SUFFICES ASSUME WorkersHalf, NEW w \in Workers
             PROVE  /\ \A i \in DOMAIN workers[w].pending : workers[w].pending[i] > workers[w].last
                    /\ \A i, j \in DOMAIN workers[w].pending : i < j
                       => workers[w].pending[i] < workers[w].pending[j]
  BY DEF DeliveredInOrder
<1>1. Orderly(workers[w], values) /\ workers[w].pending \in Seq(1..MaxValues)
  BY DEF WorkersHalf, Orderly, WorkerRecords
<1> QED BY <1>1 DEF Orderly
-----------------------------------------------------------------------------
(* The life of a driver.                                                    *)
Records == [pc : Steps, keys : SUBSET Events, joins : SUBSET Nat]

ShapeHalf ==
  /\ closing \in {"open", "grace", "stopping", "flushed"}
  /\ inst \in {"absent", "starting", "running", "stopping", "errored"}
  /\ thread \in ThreadSteps /\ stopFlag \in BOOLEAN
  /\ subs \in [Events -> 0..Len(workers)] /\ popped \in [Unsubscribers -> 0..Len(workers)]
  /\ retired \subseteq Workers /\ mine \subseteq Workers /\ bus \subseteq Workers
  /\ stopper \in [Stoppers -> Records]
  /\ excused \subseteq {"joinTimedOut", "overlapped", "abandoned"}
  /\ task.step = "register" => Len(workers) # 0

Closing == closing \in {"stopping", "flushed"}
Begun(type) == task.type = type /\ task.step = "begun"
Early == {"pre_run", "subscribe", "failed", "failedCleanup"}
Clear == (\A e \in Events : subs[e] = 0) /\ (\A u \in Unsubscribers : popped[u] = 0)

\* The stop that the queue runs is its task.
StopOwned == stopper["task"].pc # "idle" => Begun("stop")

\* Who acts on the driver: each step of it belongs to a request, or to the
\* close of a bridge that runs none.
ActorsHalf ==
  /\ Closing => ~qThread
  /\ thread \in Early \cup {"failedEnded"} /\ inst # "absent" => Begun("start")
  /\ thread \in Early => inst # "absent"
  /\ stopper["close"].pc # "idle" => Closing
  /\ \A s \in Stoppers : popped[s] # 0 => stopper[s].pc = "unsubscribe"
  /\ popped["swap"] # 0 => task.type = "swap" /\ task.step = "subscribe"
  /\ popped["failed"] # 0 => thread = "failed"

\* No worker of the driver is lost sight of.
WorkersAreTraced ==
  /\ \A w \in mine : \/ Gone(w) \/ w \in retired
                     \/ \E e \in Events : subs[e] = w
                     \/ \E u \in Unsubscribers : popped[u] = w
  /\ \A w \in mine \cap bus : \/ \E e \in Events : subs[e] = w
                              \/ \E u \in Unsubscribers : popped[u] = w

\* What the record's state says of the thread.
StatesHalf ==
  /\ Begun("start") => /\ inst = "starting"
                       /\ \/ thread \in {"pre_run", "subscribe", "loop"} /\ ~stopFlag
                          \/ thread \in {"failed", "failedCleanup", "failedEnded"}
  /\ inst = "starting" => Begun("start")
  /\ inst = "running" => thread = "loop" /\ ~stopFlag
  /\ inst \in {"stopping", "errored"} => thread \in {"loop", "cleanup", "ended"}
  /\ inst = "absent" => thread \in Ended \cup {"none"}
  /\ task.type = "swap" /\ task.step # "new" => inst = "running"
  /\ task.type = "swap" /\ task.step = "register" => \E e \in Events : subs[e] = Len(workers)

\* Past its loop, and once told to leave it, the driver has no workers.
QuietHalf ==
  (thread \in {"cleanup", "failedCleanup"} \cup Ended \/ (thread = "loop" /\ stopFlag)) =>
    Clear /\ retired = {}

StoppersHalf ==
  \A s \in Stoppers :
    /\ stopper[s].pc # "idle" => inst = "stopping"
    /\ stopper[s].pc = "unsubscribe" => \A e \in Events : subs[e] # 0 => e \in stopper[s].keys
    /\ stopper[s].pc = "join" => Clear /\ retired \subseteq stopper[s].joins
    /\ stopper[s].pc \in {"thread", "stopped", "timeout"} => stopFlag /\ Clear /\ retired = {}
    /\ stopper[s].pc = "stopped" => thread \in Ended

LifeHalf == ActorsHalf /\ WorkersAreTraced /\ StatesHalf /\ QuietHalf /\ StoppersHalf

ThreadsInv == QueueHalf /\ WorkersHalf /\ ShapeHalf /\ StopOwned /\ (excused = {} => LifeHalf)


LEMMA WorkersStay ==
  ASSUME WorkersHalf, UNCHANGED <<workers, values>> PROVE WorkersHalf' /\ workers' = workers
         /\ Len(workers) \in Nat
BY DEF WorkersHalf, Workers

\* A stop goes on.
LEMMA StopperChanges ==
  ASSUME stopper \in [Stoppers -> Records], NEW s \in Stoppers, NEW r \in Records,
         stopper' = [stopper EXCEPT ![s] = r]
  PROVE  stopper' \in [Stoppers -> Records] /\ stopper'[s] = r /\ \A t \in Stoppers : t # s
         => stopper'[t] = stopper[t]
OBVIOUS

LEMMA PopMoves ==
  ASSUME ShapeHalf, NEW who \in Unsubscribers, NEW e \in Events, Pop(who, e)
  PROVE  /\ subs' \in [Events -> 0..Len(workers)] /\ popped' \in [Unsubscribers -> 0..Len(workers)]
         /\ subs'[e] = 0 /\ popped'[who] = subs[e] /\ popped[who] = 0
         /\ \A x \in Events : x # e => subs'[x] = subs[x]
         /\ \A u \in Unsubscribers : u # who => popped'[u] = popped[u]
<1>1. subs \in [Events -> 0..Len(workers)] /\ popped \in [Unsubscribers -> 0..Len(workers)]
  BY DEF ShapeHalf
<1>2. 0 \in 0..Len(workers)
  BY <1>1
<1> QED BY <1>1, <1>2 DEF Pop

\* Whoever takes a worker out has it until it is retired.
LEMMA PopTraces ==
  ASSUME ShapeHalf, WorkersAreTraced, NEW who \in Unsubscribers, NEW e \in Events, Pop(who, e),
         UNCHANGED <<mine, bus, workers, retired>>
  PROVE  WorkersAreTraced'
<1>1. /\ subs'[e] = 0 /\ popped'[who] = subs[e] /\ popped[who] = 0
      /\ \A x \in Events : x # e => subs'[x] = subs[x]
      /\ \A u \in Unsubscribers : u # who => popped'[u] = popped[u]
  BY PopMoves
<1>2. \A w \in mine : w # 0
  BY DEF ShapeHalf, Workers
<1>3. ASSUME NEW w \in mine, (\E x \in Events : subs[x] = w)
    \/ \E u \in Unsubscribers : popped[u] = w
      PROVE  (\E x \in Events : subs'[x] = w) \/ \E u \in Unsubscribers : popped'[u] = w
  BY <1>1, <1>2, <1>3
<1> QED BY <1>3 DEF WorkersAreTraced, Gone

LEMMA TakeKeeps == ASSUME ThreadsBounds, ThreadsInv, Take PROVE ThreadsInv'
<1> USE DEF ThreadsBounds, ThreadsInv
<1>1. QueueHalf' /\ task'.step = "new"
  BY QueueTakes DEF Requests
<1>2. WorkersHalf' /\ workers' = workers /\ Len(workers) \in Nat
  <2>1. UNCHANGED <<workers, values>>
    BY DEF Take, workerVars
  <2> QED BY <2>1, WorkersStay
<1>3. ShapeHalf'
  BY <1>1, <1>2 DEF Take, ShapeHalf, Workers, workerVars, queueVars, Records, Ended, ThreadSteps,
      Unsubscribers, Stoppers, Steps, Pop, QueueHalf, NoTask
<1>8. StopOwned'
  BY <1>1 DEF Take, StopOwned, Begun, queueVars, NoTask, ShapeHalf, Stoppers, Records, QueueHalf
<1>4. ASSUME excused' = {} PROVE LifeHalf'
  <2> USE DEF Take, Workers, workerVars, queueVars, Ended, Early, Stoppers, Unsubscribers, Steps,
      Pop, Closing, Begun, Clear, ShapeHalf, Records
  <2>1. excused = {} /\ LifeHalf
    BY <1>4
  <2>2. ActorsHalf'
    BY <1>1, <1>2, <2>1 DEF StopOwned, LifeHalf, ActorsHalf, StatesHalf, StoppersHalf, QueueHalf,
        NoTask
  <2>3. WorkersAreTraced'
    BY <1>2, <2>1 DEF LifeHalf, WorkersAreTraced, StatesHalf, Gone
  <2>4. StatesHalf'
    BY <1>1, <1>2, <2>1 DEF StopOwned, LifeHalf, ActorsHalf, StatesHalf, StoppersHalf, QueueHalf,
        NoTask
  <2>5. QuietHalf'
    BY <1>1, <1>2, <2>1 DEF StopOwned, LifeHalf, ActorsHalf, StatesHalf, StoppersHalf, QueueHalf,
        QuietHalf
  <2>6. StoppersHalf'
    BY <1>1, <1>2, <2>1 DEF StopOwned, LifeHalf, ActorsHalf, StatesHalf, StoppersHalf, QueueHalf,
        QuietHalf
  <2> QED BY <2>2, <2>3, <2>4, <2>5, <2>6 DEF LifeHalf
<1> QED BY <1>1, <1>2, <1>3, <1>4, <1>8

LEMMA StartRefusedKeeps == ASSUME ThreadsBounds, ThreadsInv, StartRefused PROVE ThreadsInv'
<1> USE DEF ThreadsBounds, ThreadsInv
<1>1. QueueHalf' /\ task' = NoTask /\ task # NoTask
  <2>1. task # NoTask /\ Reply /\ UNCHANGED <<tasks, qThread, closing>>
    BY DEF StartRefused, QueueHalf
  <2> QED BY <2>1, QueueReplies
<1>2. WorkersHalf' /\ workers' = workers /\ Len(workers) \in Nat
  <2>1. UNCHANGED <<workers, values>>
    BY DEF StartRefused, workerVars
  <2> QED BY <2>1, WorkersStay
<1>3. ShapeHalf'
  BY <1>1, <1>2 DEF StartRefused, ShapeHalf, Workers, workerVars, queueVars, Records, Ended,
      ThreadSteps, Unsubscribers, Stoppers, Steps, Pop, QueueHalf, NoTask
<1>8. StopOwned'
  BY <1>1 DEF StartRefused, StopOwned, Begun, queueVars, NoTask, ShapeHalf, Stoppers, Records,
      QueueHalf
<1>4. ASSUME excused' = {} PROVE LifeHalf'
  <2> USE DEF StartRefused, Workers, workerVars, queueVars, Ended, Early, Stoppers, Unsubscribers,
      Steps, Pop, Closing, Begun, Clear, ShapeHalf, Records
  <2>1. excused = {} /\ LifeHalf
    BY <1>4
  <2>2. ActorsHalf'
    BY <1>1, <1>2, <2>1 DEF StopOwned, LifeHalf, ActorsHalf, StatesHalf, StoppersHalf, QueueHalf,
        NoTask
  <2>3. WorkersAreTraced'
    BY <1>2, <2>1 DEF LifeHalf, WorkersAreTraced, StatesHalf, Gone
  <2>4. StatesHalf'
    BY <1>1, <1>2, <2>1 DEF StopOwned, LifeHalf, ActorsHalf, StatesHalf, StoppersHalf, QueueHalf,
        NoTask
  <2>5. QuietHalf'
    BY <1>1, <1>2, <2>1 DEF StopOwned, LifeHalf, ActorsHalf, StatesHalf, StoppersHalf, QueueHalf,
        QuietHalf
  <2>6. StoppersHalf'
    BY <1>1, <1>2, <2>1 DEF StopOwned, LifeHalf, ActorsHalf, StatesHalf, StoppersHalf, QueueHalf,
        QuietHalf
  <2> QED BY <2>2, <2>3, <2>4, <2>5, <2>6 DEF LifeHalf
<1> QED BY <1>1, <1>2, <1>3, <1>4, <1>8

LEMMA StartBeginsKeeps == ASSUME ThreadsBounds, ThreadsInv, StartBegins PROVE ThreadsInv'
<1> USE DEF ThreadsBounds, ThreadsInv
<1>1. QueueHalf' /\ task' # NoTask /\ task'.type = task.type /\ task'.step = "begun"
  <2>1. task # NoTask /\ task' = [task EXCEPT !.step = "begun"]
      /\ UNCHANGED <<tasks, qThread, answers, closing>>
    BY DEF StartBegins, QueueHalf
  <2> QED BY <2>1, QueueWorks
<1>2. WorkersHalf' /\ workers' = workers /\ Len(workers) \in Nat
  <2>1. UNCHANGED <<workers, values>>
    BY DEF StartBegins, workerVars
  <2> QED BY <2>1, WorkersStay
<1>3. ShapeHalf'
  <2>1. subs' \in [Events -> 0..Len(workers)]
    <3>1. 0 \in 0..Len(workers) /\ subs' = [e \in Events |-> 0]
      BY <1>2 DEF StartBegins
    <3> QED BY <3>1
  <2>2. task'.step = "begun"
    BY <1>1
  <2>3. retired' = {} /\ mine' = {}
    BY DEF StartBegins
  <2> QED BY <1>2, <2>1, <2>2, <2>3 DEF StartBegins, ShapeHalf, Workers, ThreadSteps
<1>8. StopOwned'
  BY <1>1 DEF StartBegins, StopOwned, Begun, queueVars, NoTask, ShapeHalf, Stoppers, Records,
      QueueHalf
<1>4. ASSUME excused' = {} PROVE LifeHalf'
  <2> USE DEF StartBegins, Workers, workerVars, queueVars, Ended, Early, Stoppers, Unsubscribers,
      Steps, Pop, Closing, Begun, Clear, ShapeHalf, Records
  <2>1. excused = {} /\ LifeHalf
    BY <1>4
  <2>2. ActorsHalf'
    BY <1>1, <1>2, <2>1 DEF StopOwned, LifeHalf, ActorsHalf, StatesHalf, StoppersHalf, QueueHalf,
        NoTask
  <2>3. WorkersAreTraced'
    BY <1>2, <2>1 DEF LifeHalf, WorkersAreTraced, StatesHalf, Gone
  <2>4. StatesHalf'
    BY <1>1, <1>2, <2>1 DEF StopOwned, LifeHalf, ActorsHalf, StatesHalf, StoppersHalf, QueueHalf,
        NoTask
  <2>5. QuietHalf'
    BY <1>1, <1>2, <2>1 DEF StopOwned, LifeHalf, ActorsHalf, StatesHalf, StoppersHalf, QueueHalf,
        QuietHalf
  <2>6. StoppersHalf'
    BY <1>1, <1>2, <2>1 DEF StopOwned, LifeHalf, ActorsHalf, StatesHalf, StoppersHalf, QueueHalf,
        QuietHalf
  <2> QED BY <2>2, <2>3, <2>4, <2>5, <2>6 DEF LifeHalf
<1> QED BY <1>1, <1>2, <1>3, <1>4, <1>8

LEMMA PreRunEndsKeeps == ASSUME ThreadsBounds, ThreadsInv, PreRunEnds PROVE ThreadsInv'
<1> USE DEF ThreadsBounds, ThreadsInv
<1>1. QueueHalf'
  BY QueueStays DEF PreRunEnds
<1>2. WorkersHalf' /\ workers' = workers /\ Len(workers) \in Nat
  <2>1. UNCHANGED <<workers, values>>
    BY DEF PreRunEnds, workerVars
  <2> QED BY <2>1, WorkersStay
<1>3. ShapeHalf'
  BY <1>1, <1>2 DEF PreRunEnds, ShapeHalf, Workers, workerVars, queueVars, Records, Ended,
      ThreadSteps, Unsubscribers, Stoppers, Steps, Pop, QueueHalf, NoTask
<1>8. StopOwned'
  BY <1>1 DEF PreRunEnds, StopOwned, Begun, queueVars, NoTask, ShapeHalf, Stoppers, Records,
      QueueHalf
<1>4. ASSUME excused' = {} PROVE LifeHalf'
  <2> USE DEF PreRunEnds, Workers, workerVars, queueVars, Ended, Early, Stoppers, Unsubscribers,
      Steps, Pop, Closing, Begun, Clear, ShapeHalf, Records
  <2>1. excused = {} /\ LifeHalf
    BY <1>4
  <2>2. ActorsHalf'
    BY <1>1, <1>2, <2>1 DEF StopOwned, LifeHalf, ActorsHalf, StatesHalf, StoppersHalf, QueueHalf,
        NoTask
  <2>3. WorkersAreTraced'
    BY <1>2, <2>1 DEF LifeHalf, WorkersAreTraced, StatesHalf, Gone
  <2>4. StatesHalf'
    BY <1>1, <1>2, <2>1 DEF StopOwned, LifeHalf, ActorsHalf, StatesHalf, StoppersHalf, QueueHalf,
        NoTask
  <2>5. QuietHalf'
    BY <1>1, <1>2, <2>1 DEF StopOwned, LifeHalf, ActorsHalf, StatesHalf, StoppersHalf, QueueHalf,
        QuietHalf
  <2>6. StoppersHalf'
    BY <1>1, <1>2, <2>1 DEF StopOwned, LifeHalf, ActorsHalf, StatesHalf, StoppersHalf, QueueHalf,
        QuietHalf
  <2> QED BY <2>2, <2>3, <2>4, <2>5, <2>6 DEF LifeHalf
<1> QED BY <1>1, <1>2, <1>3, <1>4, <1>8

LEMMA PreRunRaisesKeeps == ASSUME ThreadsBounds, ThreadsInv, PreRunRaises PROVE ThreadsInv'
<1> USE DEF ThreadsBounds, ThreadsInv
<1>1. QueueHalf'
  BY QueueStays DEF PreRunRaises
<1>2. WorkersHalf' /\ workers' = workers /\ Len(workers) \in Nat
  <2>1. UNCHANGED <<workers, values>>
    BY DEF PreRunRaises, workerVars
  <2> QED BY <2>1, WorkersStay
<1>3. ShapeHalf'
  BY <1>1, <1>2 DEF PreRunRaises, ShapeHalf, Workers, workerVars, queueVars, Records, Ended,
      ThreadSteps, Unsubscribers, Stoppers, Steps, Pop, QueueHalf, NoTask
<1>8. StopOwned'
  BY <1>1 DEF PreRunRaises, StopOwned, Begun, queueVars, NoTask, ShapeHalf, Stoppers, Records,
      QueueHalf
<1>4. ASSUME excused' = {} PROVE LifeHalf'
  <2> USE DEF PreRunRaises, Workers, workerVars, queueVars, Ended, Early, Stoppers, Unsubscribers,
      Steps, Pop, Closing, Begun, Clear, ShapeHalf, Records
  <2>1. excused = {} /\ LifeHalf
    BY <1>4
  <2>2. ActorsHalf'
    BY <1>1, <1>2, <2>1 DEF StopOwned, LifeHalf, ActorsHalf, StatesHalf, StoppersHalf, QueueHalf,
        NoTask
  <2>3. WorkersAreTraced'
    BY <1>2, <2>1 DEF LifeHalf, WorkersAreTraced, StatesHalf, Gone
  <2>4. StatesHalf'
    BY <1>1, <1>2, <2>1 DEF StopOwned, LifeHalf, ActorsHalf, StatesHalf, StoppersHalf, QueueHalf,
        NoTask
  <2>5. QuietHalf'
    BY <1>1, <1>2, <2>1 DEF StopOwned, LifeHalf, ActorsHalf, StatesHalf, StoppersHalf, QueueHalf,
        QuietHalf
  <2>6. StoppersHalf'
    BY <1>1, <1>2, <2>1 DEF StopOwned, LifeHalf, ActorsHalf, StatesHalf, StoppersHalf, QueueHalf,
        QuietHalf
  <2> QED BY <2>2, <2>3, <2>4, <2>5, <2>6 DEF LifeHalf
<1> QED BY <1>1, <1>2, <1>3, <1>4, <1>8

LEMMA StartedSetKeeps == ASSUME ThreadsBounds, ThreadsInv, StartedSet PROVE ThreadsInv'
<1> USE DEF ThreadsBounds, ThreadsInv
<1>1. QueueHalf'
  BY QueueStays DEF StartedSet
<1>2. WorkersHalf' /\ workers' = workers /\ Len(workers) \in Nat
  <2>1. UNCHANGED <<workers, values>>
    BY DEF StartedSet, workerVars
  <2> QED BY <2>1, WorkersStay
<1>3. ShapeHalf'
  BY <1>1, <1>2 DEF StartedSet, ShapeHalf, Workers, workerVars, queueVars, Records, Ended,
      ThreadSteps, Unsubscribers, Stoppers, Steps, Pop, QueueHalf, NoTask
<1>8. StopOwned'
  BY <1>1 DEF StartedSet, StopOwned, Begun, queueVars, NoTask, ShapeHalf, Stoppers, Records,
      QueueHalf
<1>4. ASSUME excused' = {} PROVE LifeHalf'
  <2> USE DEF StartedSet, Workers, workerVars, queueVars, Ended, Early, Stoppers, Unsubscribers,
      Steps, Pop, Closing, Begun, Clear, ShapeHalf, Records
  <2>1. excused = {} /\ LifeHalf
    BY <1>4
  <2>2. ActorsHalf'
    BY <1>1, <1>2, <2>1 DEF StopOwned, LifeHalf, ActorsHalf, StatesHalf, StoppersHalf, QueueHalf,
        NoTask
  <2>3. WorkersAreTraced'
    BY <1>2, <2>1 DEF LifeHalf, WorkersAreTraced, StatesHalf, Gone
  <2>4. StatesHalf'
    BY <1>1, <1>2, <2>1 DEF StopOwned, LifeHalf, ActorsHalf, StatesHalf, StoppersHalf, QueueHalf,
        NoTask
  <2>5. QuietHalf'
    BY <1>1, <1>2, <2>1 DEF StopOwned, LifeHalf, ActorsHalf, StatesHalf, StoppersHalf, QueueHalf,
        QuietHalf
  <2>6. StoppersHalf'
    BY <1>1, <1>2, <2>1 DEF StopOwned, LifeHalf, ActorsHalf, StatesHalf, StoppersHalf, QueueHalf,
        QuietHalf
  <2> QED BY <2>2, <2>3, <2>4, <2>5, <2>6 DEF LifeHalf
<1> QED BY <1>1, <1>2, <1>3, <1>4, <1>8

LEMMA FailedStartKeeps == ASSUME ThreadsBounds, ThreadsInv, FailedStart PROVE ThreadsInv'
<1> USE DEF ThreadsBounds, ThreadsInv
<1>1. QueueHalf'
  BY QueueStays DEF FailedStart
<1>2. WorkersHalf' /\ workers' = workers /\ Len(workers) \in Nat
  <2>1. UNCHANGED <<workers, values>>
    BY DEF FailedStart, workerVars
  <2> QED BY <2>1, WorkersStay
<1>3. ShapeHalf'
  <2>1. subs' \in [Events -> 0..Len(workers)] /\ popped' \in [Unsubscribers -> 0..Len(workers)]
    <3>1. CASE \E e \in Events : Pop("failed", e)
      BY <3>1, PopMoves DEF Unsubscribers
    <3>2. CASE UNCHANGED <<subs, popped>>
      BY <3>2 DEF ShapeHalf
    <3> QED BY <3>1, <3>2 DEF FailedStart
  <2>2. excused' \subseteq {"joinTimedOut", "overlapped", "abandoned"} /\ retired' \subseteq Workers
    BY DEF FailedStart, ShapeHalf
  <2>3. thread' \in ThreadSteps
    BY DEF FailedStart, ShapeHalf, ThreadSteps
  <2> QED BY <1>2, <2>1, <2>2, <2>3 DEF FailedStart, ShapeHalf, Workers, queueVars
<1>8. StopOwned'
  BY <1>1 DEF FailedStart, StopOwned, Begun, queueVars, NoTask, ShapeHalf, Stoppers, Records,
      QueueHalf
<1>4. ASSUME excused' = {} PROVE LifeHalf'
  <2> USE DEF FailedStart, Workers, workerVars, queueVars, Ended, Early, Stoppers, Unsubscribers,
      Steps, Pop, Closing, Begun, Clear, ShapeHalf, Records
  <2>1. excused = {} /\ LifeHalf
    BY <1>4
  <2>2. ActorsHalf'
    BY <1>1, <1>2, <2>1 DEF StopOwned, LifeHalf, ActorsHalf, StatesHalf, StoppersHalf, QueueHalf,
        NoTask
  <2>3. WorkersAreTraced'
    <3> USE <2>1 DEF LifeHalf
    <3>1. CASE \E e \in Events : Pop("failed", e) /\ UNCHANGED retired
      <4> HIDE DEF Pop
      <4>1. PICK e \in Events : Pop("failed", e) /\ UNCHANGED retired
        BY <3>1
      <4>2. UNCHANGED <<mine, bus, workers>>
        OBVIOUS
      <4> QED BY <4>1, <4>2, PopTraces
    <3>2. CASE UNCHANGED <<subs, popped>> /\ \A w \in retired : Gone(w)
      BY <1>2, <3>2 DEF WorkersAreTraced, Gone
    <3>3. \/ \E e \in Events : Pop("failed", e) /\ UNCHANGED retired
          \/ UNCHANGED <<subs, popped>> /\ \A w \in retired : Gone(w)
      <4> HIDE DEF Pop
      <4> QED BY <1>4
    <3> QED BY <3>1, <3>2, <3>3
  <2>4. StatesHalf'
    BY <1>1, <1>2, <2>1 DEF StopOwned, LifeHalf, ActorsHalf, StatesHalf, StoppersHalf, QueueHalf,
        NoTask
  <2>5. QuietHalf'
    BY <1>1, <1>2, <2>1 DEF StopOwned, LifeHalf, ActorsHalf, StatesHalf, StoppersHalf, QueueHalf,
        QuietHalf
  <2>6. StoppersHalf'
    BY <1>1, <1>2, <2>1 DEF StopOwned, LifeHalf, ActorsHalf, StatesHalf, StoppersHalf, QueueHalf,
        QuietHalf
  <2> QED BY <2>2, <2>3, <2>4, <2>5, <2>6 DEF LifeHalf
<1> QED BY <1>1, <1>2, <1>3, <1>4, <1>8

LEMMA LoopEndsKeeps == ASSUME ThreadsBounds, ThreadsInv, LoopEnds PROVE ThreadsInv'
<1> USE DEF ThreadsBounds, ThreadsInv
<1>1. QueueHalf'
  BY QueueStays DEF LoopEnds
<1>2. WorkersHalf' /\ workers' = workers /\ Len(workers) \in Nat
  <2>1. UNCHANGED <<workers, values>>
    BY DEF LoopEnds, workerVars
  <2> QED BY <2>1, WorkersStay
<1>3. ShapeHalf'
  BY <1>1, <1>2 DEF LoopEnds, ShapeHalf, Workers, workerVars, queueVars, Records, Ended,
      ThreadSteps, Unsubscribers, Stoppers, Steps, Pop, QueueHalf, NoTask
<1>8. StopOwned'
  BY <1>1 DEF LoopEnds, StopOwned, Begun, queueVars, NoTask, ShapeHalf, Stoppers, Records, QueueHalf
<1>4. ASSUME excused' = {} PROVE LifeHalf'
  <2> USE DEF LoopEnds, Workers, workerVars, queueVars, Ended, Early, Stoppers, Unsubscribers,
      Steps, Pop, Closing, Begun, Clear, ShapeHalf, Records
  <2>1. excused = {} /\ LifeHalf
    BY <1>4
  <2>2. ActorsHalf'
    BY <1>1, <1>2, <2>1 DEF StopOwned, LifeHalf, ActorsHalf, StatesHalf, StoppersHalf, QueueHalf,
        NoTask
  <2>3. WorkersAreTraced'
    BY <1>2, <2>1 DEF LifeHalf, WorkersAreTraced, StatesHalf, Gone
  <2>4. StatesHalf'
    BY <1>1, <1>2, <2>1 DEF StopOwned, LifeHalf, ActorsHalf, StatesHalf, StoppersHalf, QueueHalf,
        NoTask
  <2>5. QuietHalf'
    BY <1>1, <1>2, <2>1 DEF StopOwned, LifeHalf, ActorsHalf, StatesHalf, StoppersHalf, QueueHalf,
        QuietHalf
  <2>6. StoppersHalf'
    BY <1>1, <1>2, <2>1 DEF StopOwned, LifeHalf, ActorsHalf, StatesHalf, StoppersHalf, QueueHalf,
        QuietHalf
  <2> QED BY <2>2, <2>3, <2>4, <2>5, <2>6 DEF LifeHalf
<1> QED BY <1>1, <1>2, <1>3, <1>4, <1>8

LEMMA CleanupEndsKeeps == ASSUME ThreadsBounds, ThreadsInv, CleanupEnds PROVE ThreadsInv'
<1> USE DEF ThreadsBounds, ThreadsInv
<1>1. QueueHalf'
  BY QueueStays DEF CleanupEnds
<1>2. WorkersHalf' /\ workers' = workers /\ Len(workers) \in Nat
  <2>1. UNCHANGED <<workers, values>>
    BY DEF CleanupEnds, workerVars
  <2> QED BY <2>1, WorkersStay
<1>3. ShapeHalf'
  BY <1>1, <1>2 DEF CleanupEnds, ShapeHalf, Workers, workerVars, queueVars, Records, Ended,
      ThreadSteps, Unsubscribers, Stoppers, Steps, Pop, QueueHalf, NoTask
<1>8. StopOwned'
  BY <1>1 DEF CleanupEnds, StopOwned, Begun, queueVars, NoTask, ShapeHalf, Stoppers, Records,
      QueueHalf
<1>4. ASSUME excused' = {} PROVE LifeHalf'
  <2> USE DEF CleanupEnds, Workers, workerVars, queueVars, Ended, Early, Stoppers, Unsubscribers,
      Steps, Pop, Closing, Begun, Clear, ShapeHalf, Records
  <2>1. excused = {} /\ LifeHalf
    BY <1>4
  <2>2. ActorsHalf'
    BY <1>1, <1>2, <2>1 DEF StopOwned, LifeHalf, ActorsHalf, StatesHalf, StoppersHalf, QueueHalf,
        NoTask
  <2>3. WorkersAreTraced'
    BY <1>2, <2>1 DEF LifeHalf, WorkersAreTraced, StatesHalf, Gone
  <2>4. StatesHalf'
    BY <1>1, <1>2, <2>1 DEF StopOwned, LifeHalf, ActorsHalf, StatesHalf, StoppersHalf, QueueHalf,
        NoTask
  <2>5. QuietHalf'
    BY <1>1, <1>2, <2>1 DEF StopOwned, LifeHalf, ActorsHalf, StatesHalf, StoppersHalf, QueueHalf,
        QuietHalf
  <2>6. StoppersHalf'
    BY <1>1, <1>2, <2>1 DEF StopOwned, LifeHalf, ActorsHalf, StatesHalf, StoppersHalf, QueueHalf,
        QuietHalf
  <2> QED BY <2>2, <2>3, <2>4, <2>5, <2>6 DEF LifeHalf
<1> QED BY <1>1, <1>2, <1>3, <1>4, <1>8

LEMMA StartSucceedsKeeps == ASSUME ThreadsBounds, ThreadsInv, StartSucceeds PROVE ThreadsInv'
<1> USE DEF ThreadsBounds, ThreadsInv
<1>1. QueueHalf' /\ task' = NoTask /\ task # NoTask
  <2>1. task # NoTask /\ Reply /\ UNCHANGED <<tasks, qThread, closing>>
    BY DEF StartSucceeds, QueueHalf
  <2> QED BY <2>1, QueueReplies
<1>2. WorkersHalf' /\ workers' = workers /\ Len(workers) \in Nat
  <2>1. UNCHANGED <<workers, values>>
    BY DEF StartSucceeds, workerVars
  <2> QED BY <2>1, WorkersStay
<1>3. ShapeHalf'
  BY <1>1, <1>2 DEF StartSucceeds, ShapeHalf, Workers, workerVars, queueVars, Records, Ended,
      ThreadSteps, Unsubscribers, Stoppers, Steps, Pop, QueueHalf, NoTask
<1>8. StopOwned'
  BY <1>1 DEF StartSucceeds, StopOwned, Begun, queueVars, NoTask, ShapeHalf, Stoppers, Records,
      QueueHalf
<1>4. ASSUME excused' = {} PROVE LifeHalf'
  <2> USE DEF StartSucceeds, Workers, workerVars, queueVars, Ended, Early, Stoppers, Unsubscribers,
      Steps, Pop, Closing, Begun, Clear, ShapeHalf, Records
  <2>1. excused = {} /\ LifeHalf
    BY <1>4
  <2>2. ActorsHalf'
    BY <1>1, <1>2, <2>1 DEF StopOwned, LifeHalf, ActorsHalf, StatesHalf, StoppersHalf, QueueHalf,
        NoTask
  <2>3. WorkersAreTraced'
    BY <1>2, <2>1 DEF LifeHalf, WorkersAreTraced, StatesHalf, Gone
  <2>4. StatesHalf'
    BY <1>1, <1>2, <2>1 DEF StopOwned, LifeHalf, ActorsHalf, StatesHalf, StoppersHalf, QueueHalf,
        NoTask
  <2>5. QuietHalf'
    BY <1>1, <1>2, <2>1 DEF StopOwned, LifeHalf, ActorsHalf, StatesHalf, StoppersHalf, QueueHalf,
        QuietHalf
  <2>6. StoppersHalf'
    BY <1>1, <1>2, <2>1 DEF StopOwned, LifeHalf, ActorsHalf, StatesHalf, StoppersHalf, QueueHalf,
        QuietHalf
  <2> QED BY <2>2, <2>3, <2>4, <2>5, <2>6 DEF LifeHalf
<1> QED BY <1>1, <1>2, <1>3, <1>4, <1>8

LEMMA StartFailsKeeps == ASSUME ThreadsBounds, ThreadsInv, StartFails PROVE ThreadsInv'
<1> USE DEF ThreadsBounds, ThreadsInv
<1>1. QueueHalf' /\ task' = NoTask /\ task # NoTask
  <2>1. task # NoTask /\ Reply /\ UNCHANGED <<tasks, qThread, closing>>
    BY DEF StartFails, QueueHalf
  <2> QED BY <2>1, QueueReplies
<1>2. WorkersHalf' /\ workers' = workers /\ Len(workers) \in Nat
  <2>1. UNCHANGED <<workers, values>>
    BY DEF StartFails, workerVars
  <2> QED BY <2>1, WorkersStay
<1>3. ShapeHalf'
  BY <1>1, <1>2 DEF StartFails, ShapeHalf, Workers, workerVars, queueVars, Records, Ended,
      ThreadSteps, Unsubscribers, Stoppers, Steps, Pop, QueueHalf, NoTask
<1>8. StopOwned'
  BY <1>1 DEF StartFails, StopOwned, Begun, queueVars, NoTask, ShapeHalf, Stoppers, Records,
      QueueHalf
<1>4. ASSUME excused' = {} PROVE LifeHalf'
  <2> USE DEF StartFails, Workers, workerVars, queueVars, Ended, Early, Stoppers, Unsubscribers,
      Steps, Pop, Closing, Begun, Clear, ShapeHalf, Records
  <2>1. excused = {} /\ LifeHalf
    BY <1>4
  <2>2. ActorsHalf'
    BY <1>1, <1>2, <2>1 DEF StopOwned, LifeHalf, ActorsHalf, StatesHalf, StoppersHalf, QueueHalf,
        NoTask
  <2>3. WorkersAreTraced'
    BY <1>2, <2>1 DEF LifeHalf, WorkersAreTraced, StatesHalf, Gone
  <2>4. StatesHalf'
    BY <1>1, <1>2, <2>1 DEF StopOwned, LifeHalf, ActorsHalf, StatesHalf, StoppersHalf, QueueHalf,
        NoTask
  <2>5. QuietHalf'
    BY <1>1, <1>2, <2>1 DEF StopOwned, LifeHalf, ActorsHalf, StatesHalf, StoppersHalf, QueueHalf,
        QuietHalf
  <2>6. StoppersHalf'
    BY <1>1, <1>2, <2>1 DEF StopOwned, LifeHalf, ActorsHalf, StatesHalf, StoppersHalf, QueueHalf,
        QuietHalf
  <2> QED BY <2>2, <2>3, <2>4, <2>5, <2>6 DEF LifeHalf
<1> QED BY <1>1, <1>2, <1>3, <1>4, <1>8

LEMMA SwapRefusedKeeps == ASSUME ThreadsBounds, ThreadsInv, SwapRefused PROVE ThreadsInv'
<1> USE DEF ThreadsBounds, ThreadsInv
<1>1. QueueHalf' /\ task' = NoTask /\ task # NoTask
  <2>1. task # NoTask /\ Reply /\ UNCHANGED <<tasks, qThread, closing>>
    BY DEF SwapRefused, QueueHalf
  <2> QED BY <2>1, QueueReplies
<1>2. WorkersHalf' /\ workers' = workers /\ Len(workers) \in Nat
  <2>1. UNCHANGED <<workers, values>>
    BY DEF SwapRefused, workerVars
  <2> QED BY <2>1, WorkersStay
<1>3. ShapeHalf'
  BY <1>1, <1>2 DEF SwapRefused, ShapeHalf, Workers, workerVars, queueVars, Records, Ended,
      ThreadSteps, Unsubscribers, Stoppers, Steps, Pop, QueueHalf, NoTask
<1>8. StopOwned'
  BY <1>1 DEF SwapRefused, StopOwned, Begun, queueVars, NoTask, ShapeHalf, Stoppers, Records,
      QueueHalf
<1>4. ASSUME excused' = {} PROVE LifeHalf'
  <2> USE DEF SwapRefused, Workers, workerVars, queueVars, Ended, Early, Stoppers, Unsubscribers,
      Steps, Pop, Closing, Begun, Clear, ShapeHalf, Records
  <2>1. excused = {} /\ LifeHalf
    BY <1>4
  <2>2. ActorsHalf'
    BY <1>1, <1>2, <2>1 DEF StopOwned, LifeHalf, ActorsHalf, StatesHalf, StoppersHalf, QueueHalf,
        NoTask
  <2>3. WorkersAreTraced'
    BY <1>2, <2>1 DEF LifeHalf, WorkersAreTraced, StatesHalf, Gone
  <2>4. StatesHalf'
    BY <1>1, <1>2, <2>1 DEF StopOwned, LifeHalf, ActorsHalf, StatesHalf, StoppersHalf, QueueHalf,
        NoTask
  <2>5. QuietHalf'
    BY <1>1, <1>2, <2>1 DEF StopOwned, LifeHalf, ActorsHalf, StatesHalf, StoppersHalf, QueueHalf,
        QuietHalf
  <2>6. StoppersHalf'
    BY <1>1, <1>2, <2>1 DEF StopOwned, LifeHalf, ActorsHalf, StatesHalf, StoppersHalf, QueueHalf,
        QuietHalf
  <2> QED BY <2>2, <2>3, <2>4, <2>5, <2>6 DEF LifeHalf
<1> QED BY <1>1, <1>2, <1>3, <1>4, <1>8

LEMMA SwapUnsubscribesKeeps == ASSUME ThreadsBounds, ThreadsInv, SwapUnsubscribes PROVE ThreadsInv'
<1> USE DEF ThreadsBounds, ThreadsInv
<1>1. QueueHalf' /\ task' # NoTask /\ task'.type = task.type /\ task'.step = "subscribe"
  <2>1. task # NoTask /\ task' = [task EXCEPT !.step = "subscribe"]
      /\ UNCHANGED <<tasks, qThread, answers, closing>>
    BY DEF SwapUnsubscribes, QueueHalf
  <2> QED BY <2>1, QueueWorks
<1>2. WorkersHalf' /\ workers' = workers /\ Len(workers) \in Nat
  <2>1. UNCHANGED <<workers, values>>
    BY DEF SwapUnsubscribes, workerVars
  <2> QED BY <2>1, WorkersStay
<1>3. ShapeHalf'
  BY <1>1, <1>2 DEF SwapUnsubscribes, ShapeHalf, Workers, workerVars, queueVars, Records, Ended,
      ThreadSteps, Unsubscribers, Stoppers, Steps, Pop, QueueHalf, NoTask
<1>8. StopOwned'
  BY <1>1 DEF SwapUnsubscribes, StopOwned, Begun, queueVars, NoTask, ShapeHalf, Stoppers, Records,
      QueueHalf
<1>4. ASSUME excused' = {} PROVE LifeHalf'
  <2> USE DEF SwapUnsubscribes, Workers, workerVars, queueVars, Ended, Early, Stoppers,
      Unsubscribers, Steps, Pop, Closing, Begun, Clear, ShapeHalf, Records
  <2>1. excused = {} /\ LifeHalf
    BY <1>4
  <2>2. ActorsHalf'
    BY <1>1, <1>2, <2>1 DEF StopOwned, LifeHalf, ActorsHalf, StatesHalf, StoppersHalf, QueueHalf,
        NoTask
  <2>3. WorkersAreTraced'
    BY <1>2, <2>1 DEF LifeHalf, WorkersAreTraced, StatesHalf, Gone
  <2>4. StatesHalf'
    BY <1>1, <1>2, <2>1 DEF StopOwned, LifeHalf, ActorsHalf, StatesHalf, StoppersHalf, QueueHalf,
        NoTask
  <2>5. QuietHalf'
    BY <1>1, <1>2, <2>1 DEF StopOwned, LifeHalf, ActorsHalf, StatesHalf, StoppersHalf, QueueHalf,
        QuietHalf
  <2>6. StoppersHalf'
    BY <1>1, <1>2, <2>1 DEF StopOwned, LifeHalf, ActorsHalf, StatesHalf, StoppersHalf, QueueHalf,
        QuietHalf
  <2> QED BY <2>2, <2>3, <2>4, <2>5, <2>6 DEF LifeHalf
<1> QED BY <1>1, <1>2, <1>3, <1>4, <1>8

LEMMA SwapRegistersKeeps == ASSUME ThreadsBounds, ThreadsInv, SwapRegisters PROVE ThreadsInv'
<1> USE DEF ThreadsBounds, ThreadsInv
<1>1. QueueHalf' /\ task' # NoTask /\ task'.type = task.type /\ task'.step = "begun"
  <2>1. task # NoTask /\ task' = [task EXCEPT !.step = "begun"]
      /\ UNCHANGED <<tasks, qThread, answers, closing>>
    BY DEF SwapRegisters, QueueHalf
  <2> QED BY <2>1, QueueWorks
<1>2. WorkersHalf' /\ workers' = workers /\ Len(workers) \in Nat
  <2>1. UNCHANGED <<workers, values>>
    BY DEF SwapRegisters, workerVars
  <2> QED BY <2>1, WorkersStay
<1>3. ShapeHalf'
  BY <1>1, <1>2 DEF SwapRegisters, ShapeHalf, Workers, workerVars, queueVars, Records, Ended,
      ThreadSteps, Unsubscribers, Stoppers, Steps, Pop, QueueHalf, NoTask
<1>8. StopOwned'
  BY <1>1 DEF SwapRegisters, StopOwned, Begun, queueVars, NoTask, ShapeHalf, Stoppers, Records,
      QueueHalf
<1>4. ASSUME excused' = {} PROVE LifeHalf'
  <2> USE DEF SwapRegisters, Workers, workerVars, queueVars, Ended, Early, Stoppers, Unsubscribers,
      Steps, Pop, Closing, Begun, Clear, ShapeHalf, Records
  <2>1. excused = {} /\ LifeHalf
    BY <1>4
  <2>2. ActorsHalf'
    BY <1>1, <1>2, <2>1 DEF StopOwned, LifeHalf, ActorsHalf, StatesHalf, StoppersHalf, QueueHalf,
        NoTask
  <2>3. WorkersAreTraced'
    BY <1>2, <2>1 DEF LifeHalf, WorkersAreTraced, StatesHalf, Gone
  <2>4. StatesHalf'
    BY <1>1, <1>2, <2>1 DEF StopOwned, LifeHalf, ActorsHalf, StatesHalf, StoppersHalf, QueueHalf,
        NoTask
  <2>5. QuietHalf'
    BY <1>1, <1>2, <2>1 DEF StopOwned, LifeHalf, ActorsHalf, StatesHalf, StoppersHalf, QueueHalf,
        QuietHalf
  <2>6. StoppersHalf'
    BY <1>1, <1>2, <2>1 DEF StopOwned, LifeHalf, ActorsHalf, StatesHalf, StoppersHalf, QueueHalf,
        QuietHalf
  <2> QED BY <2>2, <2>3, <2>4, <2>5, <2>6 DEF LifeHalf
<1> QED BY <1>1, <1>2, <1>3, <1>4, <1>8

LEMMA SwapEndsKeeps == ASSUME ThreadsBounds, ThreadsInv, SwapEnds PROVE ThreadsInv'
<1> USE DEF ThreadsBounds, ThreadsInv
<1>1. QueueHalf' /\ task' = NoTask /\ task # NoTask
  <2>1. task # NoTask /\ Reply /\ UNCHANGED <<tasks, qThread, closing>>
    BY DEF SwapEnds, QueueHalf
  <2> QED BY <2>1, QueueReplies
<1>2. WorkersHalf' /\ workers' = workers /\ Len(workers) \in Nat
  <2>1. UNCHANGED <<workers, values>>
    BY DEF SwapEnds, workerVars
  <2> QED BY <2>1, WorkersStay
<1>3. ShapeHalf'
  BY <1>1, <1>2 DEF SwapEnds, ShapeHalf, Workers, workerVars, queueVars, Records, Ended,
      ThreadSteps, Unsubscribers, Stoppers, Steps, Pop, QueueHalf, NoTask
<1>8. StopOwned'
  BY <1>1 DEF SwapEnds, StopOwned, Begun, queueVars, NoTask, ShapeHalf, Stoppers, Records, QueueHalf
<1>4. ASSUME excused' = {} PROVE LifeHalf'
  <2> USE DEF SwapEnds, Workers, workerVars, queueVars, Ended, Early, Stoppers, Unsubscribers,
      Steps, Pop, Closing, Begun, Clear, ShapeHalf, Records
  <2>1. excused = {} /\ LifeHalf
    BY <1>4
  <2>2. ActorsHalf'
    BY <1>1, <1>2, <2>1 DEF StopOwned, LifeHalf, ActorsHalf, StatesHalf, StoppersHalf, QueueHalf,
        NoTask
  <2>3. WorkersAreTraced'
    BY <1>2, <2>1 DEF LifeHalf, WorkersAreTraced, StatesHalf, Gone
  <2>4. StatesHalf'
    BY <1>1, <1>2, <2>1 DEF StopOwned, LifeHalf, ActorsHalf, StatesHalf, StoppersHalf, QueueHalf,
        NoTask
  <2>5. QuietHalf'
    BY <1>1, <1>2, <2>1 DEF StopOwned, LifeHalf, ActorsHalf, StatesHalf, StoppersHalf, QueueHalf,
        QuietHalf
  <2>6. StoppersHalf'
    BY <1>1, <1>2, <2>1 DEF StopOwned, LifeHalf, ActorsHalf, StatesHalf, StoppersHalf, QueueHalf,
        QuietHalf
  <2> QED BY <2>2, <2>3, <2>4, <2>5, <2>6 DEF LifeHalf
<1> QED BY <1>1, <1>2, <1>3, <1>4, <1>8

LEMMA StopAbsentKeeps == ASSUME ThreadsBounds, ThreadsInv, StopAbsent PROVE ThreadsInv'
<1> USE DEF ThreadsBounds, ThreadsInv
<1>1. QueueHalf' /\ task' = NoTask /\ task # NoTask
  <2>1. task # NoTask /\ Reply /\ UNCHANGED <<tasks, qThread, closing>>
    BY DEF StopAbsent, QueueHalf
  <2> QED BY <2>1, QueueReplies
<1>2. WorkersHalf' /\ workers' = workers /\ Len(workers) \in Nat
  <2>1. UNCHANGED <<workers, values>>
    BY DEF StopAbsent, workerVars
  <2> QED BY <2>1, WorkersStay
<1>3. ShapeHalf'
  BY <1>1, <1>2 DEF StopAbsent, ShapeHalf, Workers, workerVars, queueVars, Records, Ended,
      ThreadSteps, Unsubscribers, Stoppers, Steps, Pop, QueueHalf, NoTask
<1>8. StopOwned'
  BY <1>1 DEF StopAbsent, StopOwned, Begun, queueVars, NoTask, ShapeHalf, Stoppers, Records,
      QueueHalf
<1>4. ASSUME excused' = {} PROVE LifeHalf'
  <2> USE DEF StopAbsent, Workers, workerVars, queueVars, Ended, Early, Stoppers, Unsubscribers,
      Steps, Pop, Closing, Begun, Clear, ShapeHalf, Records
  <2>1. excused = {} /\ LifeHalf
    BY <1>4
  <2>2. ActorsHalf'
    BY <1>1, <1>2, <2>1 DEF StopOwned, LifeHalf, ActorsHalf, StatesHalf, StoppersHalf, QueueHalf,
        NoTask
  <2>3. WorkersAreTraced'
    BY <1>2, <2>1 DEF LifeHalf, WorkersAreTraced, StatesHalf, Gone
  <2>4. StatesHalf'
    BY <1>1, <1>2, <2>1 DEF StopOwned, LifeHalf, ActorsHalf, StatesHalf, StoppersHalf, QueueHalf,
        NoTask
  <2>5. QuietHalf'
    BY <1>1, <1>2, <2>1 DEF StopOwned, LifeHalf, ActorsHalf, StatesHalf, StoppersHalf, QueueHalf,
        QuietHalf
  <2>6. StoppersHalf'
    BY <1>1, <1>2, <2>1 DEF StopOwned, LifeHalf, ActorsHalf, StatesHalf, StoppersHalf, QueueHalf,
        QuietHalf
  <2> QED BY <2>2, <2>3, <2>4, <2>5, <2>6 DEF LifeHalf
<1> QED BY <1>1, <1>2, <1>3, <1>4, <1>8

LEMMA StopUnsubscribesKeeps == ASSUME ThreadsBounds, ThreadsInv, NEW s \in Stoppers,
    StopUnsubscribes(s) PROVE ThreadsInv'
<1> USE DEF ThreadsBounds, ThreadsInv
<1>1. QueueHalf'
  BY QueueStays DEF StopUnsubscribes
<1>2. WorkersHalf' /\ workers' = workers /\ Len(workers) \in Nat
  <2>1. UNCHANGED <<workers, values>>
    BY DEF StopUnsubscribes, workerVars
  <2> QED BY <2>1, WorkersStay
<1>3. ShapeHalf'
  <2>1. PICK e \in stopper[s].keys : Pop(s, e) /\ stopper' = [stopper EXCEPT ![s].keys = @ \ {e}]
    BY DEF StopUnsubscribes
  <2>2. PICK old \in Records : old = stopper[s]
    BY DEF ShapeHalf
  <2>3. e \in Events /\ s \in Unsubscribers
    BY <2>1, <2>2 DEF Records, Unsubscribers
  <2>4. subs' \in [Events -> 0..Len(workers)] /\ popped' \in [Unsubscribers -> 0..Len(workers)]
    BY <2>1, <2>3, PopMoves
  <2>5. PICK r : r = [old EXCEPT !.keys = @ \ {e}]
    OBVIOUS
  <2>6. stopper' = [stopper EXCEPT ![s] = r]
    BY <2>1, <2>2, <2>5 DEF ShapeHalf
  <2>7. r \in Records
    BY <2>2, <2>5 DEF Records
  <2>8. stopper' \in [Stoppers -> Records]
    BY <2>6, <2>7, StopperChanges DEF ShapeHalf
  <2> QED BY <1>2, <2>4, <2>8 DEF StopUnsubscribes, ShapeHalf, Workers, queueVars
<1>8. StopOwned'
  BY <1>1 DEF StopUnsubscribes, StopOwned, Begun, queueVars, NoTask, ShapeHalf, Stoppers, Records,
      QueueHalf
<1>4. ASSUME excused' = {} PROVE LifeHalf'
  <2> USE DEF StopUnsubscribes, Workers, workerVars, queueVars, Ended, Early, Stoppers,
      Unsubscribers, Steps, Pop, Closing, Begun, Clear, ShapeHalf, Records
  <2>1. excused = {} /\ LifeHalf
    BY <1>4
  <2>2. ActorsHalf'
    BY <1>1, <1>2, <2>1 DEF StopOwned, LifeHalf, ActorsHalf, StatesHalf, StoppersHalf, QueueHalf,
        NoTask
  <2>3. WorkersAreTraced'
    BY <1>2, <2>1 DEF LifeHalf, WorkersAreTraced, StatesHalf, Gone
  <2>4. StatesHalf'
    BY <1>1, <1>2, <2>1 DEF StopOwned, LifeHalf, ActorsHalf, StatesHalf, StoppersHalf, QueueHalf,
        NoTask
  <2>5. QuietHalf'
    BY <1>1, <1>2, <2>1 DEF StopOwned, LifeHalf, ActorsHalf, StatesHalf, StoppersHalf, QueueHalf,
        QuietHalf
  <2>6. StoppersHalf'
    BY <1>1, <1>2, <2>1 DEF StopOwned, LifeHalf, ActorsHalf, StatesHalf, StoppersHalf, QueueHalf,
        QuietHalf
  <2> QED BY <2>2, <2>3, <2>4, <2>5, <2>6 DEF LifeHalf
<1> QED BY <1>1, <1>2, <1>3, <1>4, <1>8

LEMMA StopListsWorkersKeeps == ASSUME ThreadsBounds, ThreadsInv, NEW s \in Stoppers,
    StopListsWorkers(s) PROVE ThreadsInv'
<1> USE DEF ThreadsBounds, ThreadsInv
<1>1. QueueHalf'
  BY QueueStays DEF StopListsWorkers
<1>2. WorkersHalf' /\ workers' = workers /\ Len(workers) \in Nat
  <2>1. UNCHANGED <<workers, values>>
    BY DEF StopListsWorkers, workerVars
  <2> QED BY <2>1, WorkersStay
<1>3. ShapeHalf'
  <2>1. PICK old \in Records : old = stopper[s]
    BY DEF ShapeHalf
  <2>2. PICK r : r = [old EXCEPT !.pc = "join", !.joins = retired]
    OBVIOUS
  <2>3. stopper' = [stopper EXCEPT ![s] = r]
    BY <2>1, <2>2 DEF StopListsWorkers, ShapeHalf
  <2>4. r \in Records
    <3>1. retired \in SUBSET Nat
      BY <1>2 DEF ShapeHalf, Workers
    <3> QED BY <2>1, <2>2, <3>1 DEF Records, Steps
  <2>5. stopper' \in [Stoppers -> Records]
    BY <2>3, <2>4, StopperChanges DEF ShapeHalf
  <2> QED
    BY <1>1, <1>2, <2>5 DEF StopListsWorkers, ShapeHalf, Workers, workerVars, queueVars,
        Unsubscribers, Stoppers, Pop
<1>8. StopOwned'
  BY <1>1 DEF StopListsWorkers, StopOwned, Begun, queueVars, NoTask, ShapeHalf, Stoppers, Records,
      QueueHalf
<1>4. ASSUME excused' = {} PROVE LifeHalf'
  <2> USE DEF StopListsWorkers, Workers, workerVars, queueVars, Ended, Early, Stoppers,
      Unsubscribers, Steps, Pop, Closing, Begun, Clear, ShapeHalf, Records
  <2>1. excused = {} /\ LifeHalf
    BY <1>4
  <2>2. ActorsHalf'
    BY <1>1, <1>2, <2>1 DEF StopOwned, LifeHalf, ActorsHalf, StatesHalf, StoppersHalf, QueueHalf,
        NoTask
  <2>3. WorkersAreTraced'
    BY <1>2, <2>1 DEF LifeHalf, WorkersAreTraced, StatesHalf, Gone
  <2>4. StatesHalf'
    BY <1>1, <1>2, <2>1 DEF StopOwned, LifeHalf, ActorsHalf, StatesHalf, StoppersHalf, QueueHalf,
        NoTask
  <2>5. QuietHalf'
    BY <1>1, <1>2, <2>1 DEF StopOwned, LifeHalf, ActorsHalf, StatesHalf, StoppersHalf, QueueHalf,
        QuietHalf
  <2>6. StoppersHalf'
    BY <1>1, <1>2, <2>1 DEF StopOwned, LifeHalf, ActorsHalf, StatesHalf, StoppersHalf, QueueHalf,
        QuietHalf
  <2> QED BY <2>2, <2>3, <2>4, <2>5, <2>6 DEF LifeHalf
<1> QED BY <1>1, <1>2, <1>3, <1>4, <1>8

LEMMA StopJoinsKeeps == ASSUME ThreadsBounds, ThreadsInv, NEW s \in Stoppers, StopJoins(s)
    PROVE ThreadsInv'
<1> USE DEF ThreadsBounds, ThreadsInv
<1>1. QueueHalf'
  BY QueueStays DEF StopJoins
<1>2. WorkersHalf' /\ workers' = workers /\ Len(workers) \in Nat
  <2>1. UNCHANGED <<workers, values>>
    BY DEF StopJoins, workerVars
  <2> QED BY <2>1, WorkersStay
<1>3. ShapeHalf'
  <2>1. PICK w \in stopper[s].joins : stopper' = [stopper EXCEPT ![s].joins = @ \ {w}]
    BY DEF StopJoins
  <2>2. PICK old \in Records : old = stopper[s]
    BY DEF ShapeHalf
  <2>3. PICK r : r = [old EXCEPT !.joins = @ \ {w}]
    OBVIOUS
  <2>4. stopper' = [stopper EXCEPT ![s] = r]
    BY <2>1, <2>2, <2>3 DEF ShapeHalf
  <2>5. r \in Records
    BY <2>2, <2>3 DEF Records
  <2>6. stopper' \in [Stoppers -> Records]
    BY <2>4, <2>5, StopperChanges DEF ShapeHalf
  <2>7. excused' \subseteq {"joinTimedOut", "overlapped", "abandoned"} /\ retired' \subseteq retired
    BY DEF StopJoins, ShapeHalf
  <2> QED BY <1>2, <2>6, <2>7 DEF StopJoins, ShapeHalf, Workers, queueVars
<1>8. StopOwned'
  BY <1>1 DEF StopJoins, StopOwned, Begun, queueVars, NoTask, ShapeHalf, Stoppers, Records,
      QueueHalf
<1>4. ASSUME excused' = {} PROVE LifeHalf'
  <2> USE DEF StopJoins, Workers, workerVars, queueVars, Ended, Early, Stoppers, Unsubscribers,
      Steps, Pop, Closing, Begun, Clear, ShapeHalf, Records
  <2>1. excused = {} /\ LifeHalf
    BY <1>4
  <2>2. ActorsHalf'
    BY <1>1, <1>2, <2>1 DEF StopOwned, LifeHalf, ActorsHalf, StatesHalf, StoppersHalf, QueueHalf,
        NoTask
  <2>3. WorkersAreTraced'
    BY <1>2, <2>1 DEF LifeHalf, WorkersAreTraced, StatesHalf, Gone
  <2>4. StatesHalf'
    BY <1>1, <1>2, <2>1 DEF StopOwned, LifeHalf, ActorsHalf, StatesHalf, StoppersHalf, QueueHalf,
        NoTask
  <2>5. QuietHalf'
    BY <1>1, <1>2, <2>1 DEF StopOwned, LifeHalf, ActorsHalf, StatesHalf, StoppersHalf, QueueHalf,
        QuietHalf
  <2>7. PICK w \in stopper[s].joins : /\ stopper' = [stopper EXCEPT ![s].joins = @ \ {w}]
                                    /\ retired' = retired \ {w}
    BY <1>4
  <2>8. /\ stopper'[s].pc = "join" /\ stopper'[s].joins = stopper[s].joins \ {w}
           /\ stopper[s].pc = "join"
        /\ \A t \in Stoppers : t # s => stopper'[t] = stopper[t]
    <3>1. stopper[s] \in [pc : Steps, keys : SUBSET Events, joins : SUBSET Nat]
      OBVIOUS
    <3> QED BY <2>7, <3>1
  <2>9. Clear /\ retired \subseteq stopper[s].joins /\ inst = "stopping"
    BY <2>1, <2>8 DEF LifeHalf, StoppersHalf
  <2>6. StoppersHalf'
    BY <2>1, <2>7, <2>8, <2>9 DEF StopOwned, LifeHalf, ActorsHalf, StoppersHalf
  <2> QED BY <2>2, <2>3, <2>4, <2>5, <2>6 DEF LifeHalf
<1> QED BY <1>1, <1>2, <1>3, <1>4, <1>8

LEMMA StopSetsFlagKeeps == ASSUME ThreadsBounds, ThreadsInv, NEW s \in Stoppers, StopSetsFlag(s)
    PROVE ThreadsInv'
<1> USE DEF ThreadsBounds, ThreadsInv
<1>1. QueueHalf'
  BY QueueStays DEF StopSetsFlag
<1>2. WorkersHalf' /\ workers' = workers /\ Len(workers) \in Nat
  <2>1. UNCHANGED <<workers, values>>
    BY DEF StopSetsFlag, workerVars
  <2> QED BY <2>1, WorkersStay
<1>3. ShapeHalf'
  <2>1. PICK old \in Records : old = stopper[s]
    BY DEF ShapeHalf
  <2>2. PICK r : r = [old EXCEPT !.pc = "thread"]
    OBVIOUS
  <2>3. stopper' = [stopper EXCEPT ![s] = r]
    BY <2>1, <2>2 DEF StopSetsFlag, ShapeHalf
  <2>4. r \in Records
    BY <2>1, <2>2 DEF Records, Steps
  <2>5. stopper' \in [Stoppers -> Records]
    BY <2>3, <2>4, StopperChanges DEF ShapeHalf
  <2> QED
    BY <1>1, <1>2, <2>5 DEF StopSetsFlag, ShapeHalf, Workers, workerVars, queueVars, Unsubscribers,
        Stoppers, Pop
<1>8. StopOwned'
  BY <1>1 DEF StopSetsFlag, StopOwned, Begun, queueVars, NoTask, ShapeHalf, Stoppers, Records,
      QueueHalf
<1>4. ASSUME excused' = {} PROVE LifeHalf'
  <2> USE DEF StopSetsFlag, Workers, workerVars, queueVars, Ended, Early, Stoppers, Unsubscribers,
      Steps, Pop, Closing, Begun, Clear, ShapeHalf, Records
  <2>1. excused = {} /\ LifeHalf
    BY <1>4
  <2>2. ActorsHalf'
    BY <1>1, <1>2, <2>1 DEF StopOwned, LifeHalf, ActorsHalf, StatesHalf, StoppersHalf, QueueHalf,
        NoTask
  <2>3. WorkersAreTraced'
    BY <1>2, <2>1 DEF LifeHalf, WorkersAreTraced, StatesHalf, Gone
  <2>4. StatesHalf'
    BY <1>1, <1>2, <2>1 DEF StopOwned, LifeHalf, ActorsHalf, StatesHalf, StoppersHalf, QueueHalf,
        NoTask
  <2>5. QuietHalf'
    BY <1>1, <1>2, <2>1 DEF StopOwned, LifeHalf, ActorsHalf, StatesHalf, StoppersHalf, QueueHalf,
        QuietHalf
  <2>6. StoppersHalf'
    BY <1>1, <1>2, <2>1 DEF StopOwned, LifeHalf, ActorsHalf, StatesHalf, StoppersHalf, QueueHalf,
        QuietHalf
  <2> QED BY <2>2, <2>3, <2>4, <2>5, <2>6 DEF LifeHalf
<1> QED BY <1>1, <1>2, <1>3, <1>4, <1>8

LEMMA StopJoinsThreadKeeps == ASSUME ThreadsBounds, ThreadsInv, NEW s \in Stoppers,
    StopJoinsThread(s) PROVE ThreadsInv'
<1> USE DEF ThreadsBounds, ThreadsInv
<1>1. QueueHalf'
  BY QueueStays DEF StopJoinsThread
<1>2. WorkersHalf' /\ workers' = workers /\ Len(workers) \in Nat
  <2>1. UNCHANGED <<workers, values>>
    BY DEF StopJoinsThread, workerVars
  <2> QED BY <2>1, WorkersStay
<1>3. ShapeHalf'
  <2>1. PICK old \in Records : old = stopper[s]
    BY DEF ShapeHalf
  <2>2. PICK r : r = [old EXCEPT !.pc = IF thread \in Ended
                      /\ retired = {} THEN "stopped" ELSE "timeout"]
    OBVIOUS
  <2>3. stopper' = [stopper EXCEPT ![s] = r]
    BY <2>1, <2>2 DEF StopJoinsThread, ShapeHalf
  <2>4. r \in Records
    BY <2>1, <2>2 DEF Records, Steps
  <2>5. stopper' \in [Stoppers -> Records]
    BY <2>3, <2>4, StopperChanges DEF ShapeHalf
  <2> QED
    BY <1>1, <1>2, <2>5 DEF StopJoinsThread, ShapeHalf, Workers, workerVars, queueVars,
        Unsubscribers, Stoppers, Pop
<1>8. StopOwned'
  BY <1>1 DEF StopJoinsThread, StopOwned, Begun, queueVars, NoTask, ShapeHalf, Stoppers, Records,
      QueueHalf
<1>4. ASSUME excused' = {} PROVE LifeHalf'
  <2> USE DEF StopJoinsThread, Workers, workerVars, queueVars, Ended, Early, Stoppers,
      Unsubscribers, Steps, Pop, Closing, Begun, Clear, ShapeHalf, Records
  <2>1. excused = {} /\ LifeHalf
    BY <1>4
  <2>2. ActorsHalf'
    BY <1>1, <1>2, <2>1 DEF StopOwned, LifeHalf, ActorsHalf, StatesHalf, StoppersHalf, QueueHalf,
        NoTask
  <2>3. WorkersAreTraced'
    BY <1>2, <2>1 DEF LifeHalf, WorkersAreTraced, StatesHalf, Gone
  <2>4. StatesHalf'
    BY <1>1, <1>2, <2>1 DEF StopOwned, LifeHalf, ActorsHalf, StatesHalf, StoppersHalf, QueueHalf,
        NoTask
  <2>5. QuietHalf'
    BY <1>1, <1>2, <2>1 DEF StopOwned, LifeHalf, ActorsHalf, StatesHalf, StoppersHalf, QueueHalf,
        QuietHalf
  <2>6. StoppersHalf'
    BY <1>1, <1>2, <2>1 DEF StopOwned, LifeHalf, ActorsHalf, StatesHalf, StoppersHalf, QueueHalf,
        QuietHalf
  <2> QED BY <2>2, <2>3, <2>4, <2>5, <2>6 DEF LifeHalf
<1> QED BY <1>1, <1>2, <1>3, <1>4, <1>8

LEMMA GoIdleKeeps == ASSUME ThreadsBounds, ThreadsInv, GoIdle PROVE ThreadsInv'
<1> USE DEF ThreadsBounds, ThreadsInv
<1>1. QueueHalf'
  BY QueueIdles
<1>2. WorkersHalf' /\ workers' = workers /\ Len(workers) \in Nat
  <2>1. UNCHANGED <<workers, values>>
    BY DEF GoIdle, workerVars
  <2> QED BY <2>1, WorkersStay
<1>3. ShapeHalf'
  BY <1>1, <1>2 DEF GoIdle, ShapeHalf, Workers, workerVars, queueVars, Records, Ended, ThreadSteps,
      Unsubscribers, Stoppers, Steps, Pop, QueueHalf, NoTask
<1>8. StopOwned'
  BY <1>1 DEF GoIdle, StopOwned, Begun, queueVars, NoTask, ShapeHalf, Stoppers, Records, QueueHalf
<1>4. ASSUME excused' = {} PROVE LifeHalf'
  <2> USE DEF GoIdle, Workers, workerVars, queueVars, Ended, Early, Stoppers, Unsubscribers, Steps,
      Pop, Closing, Begun, Clear, ShapeHalf, Records
  <2>1. excused = {} /\ LifeHalf
    BY <1>4
  <2>2. ActorsHalf'
    BY <1>1, <1>2, <2>1 DEF StopOwned, LifeHalf, ActorsHalf, StatesHalf, StoppersHalf, QueueHalf,
        NoTask
  <2>3. WorkersAreTraced'
    BY <1>2, <2>1 DEF LifeHalf, WorkersAreTraced, StatesHalf, Gone
  <2>4. StatesHalf'
    BY <1>1, <1>2, <2>1 DEF StopOwned, LifeHalf, ActorsHalf, StatesHalf, StoppersHalf, QueueHalf,
        NoTask
  <2>5. QuietHalf'
    BY <1>1, <1>2, <2>1 DEF StopOwned, LifeHalf, ActorsHalf, StatesHalf, StoppersHalf, QueueHalf,
        QuietHalf
  <2>6. StoppersHalf'
    BY <1>1, <1>2, <2>1 DEF StopOwned, LifeHalf, ActorsHalf, StatesHalf, StoppersHalf, QueueHalf,
        QuietHalf
  <2> QED BY <2>2, <2>3, <2>4, <2>5, <2>6 DEF LifeHalf
<1> QED BY <1>1, <1>2, <1>3, <1>4, <1>8

LEMMA GraceEndsKeeps == ASSUME ThreadsBounds, ThreadsInv, GraceEnds PROVE ThreadsInv'
<1> USE DEF ThreadsBounds, ThreadsInv
<1>1. QueueHalf'
  <2>1. UNCHANGED queueVars /\ (closing' = closing \/ tasks = <<>>)
    BY DEF GraceEnds, QueueHalf
  <2> QED BY <2>1, QueueStays
<1>2. WorkersHalf' /\ workers' = workers /\ Len(workers) \in Nat
  <2>1. UNCHANGED <<workers, values>>
    BY DEF GraceEnds, workerVars
  <2> QED BY <2>1, WorkersStay
<1>3. ShapeHalf'
  BY <1>1, <1>2 DEF GraceEnds, ShapeHalf, Workers, workerVars, queueVars, Records, Ended,
      ThreadSteps, Unsubscribers, Stoppers, Steps, Pop, QueueHalf, NoTask
<1>8. StopOwned'
  BY <1>1 DEF GraceEnds, StopOwned, Begun, queueVars, NoTask, ShapeHalf, Stoppers, Records,
      QueueHalf
<1>4. ASSUME excused' = {} PROVE LifeHalf'
  <2> USE DEF GraceEnds, Workers, workerVars, queueVars, Ended, Early, Stoppers, Unsubscribers,
      Steps, Pop, Closing, Begun, Clear, ShapeHalf, Records
  <2>1. excused = {} /\ LifeHalf
    BY <1>4
  <2>7. ~qThread /\ qThread' = qThread
    BY <1>4
  <2>2. ActorsHalf'
    BY <2>7, <1>1, <1>2, <2>1 DEF StopOwned, LifeHalf, ActorsHalf, StatesHalf, StoppersHalf,
        QueueHalf, NoTask
  <2>3. WorkersAreTraced'
    BY <1>2, <2>1 DEF LifeHalf, WorkersAreTraced, StatesHalf, Gone
  <2>4. StatesHalf'
    BY <1>1, <1>2, <2>1 DEF StopOwned, LifeHalf, ActorsHalf, StatesHalf, StoppersHalf, QueueHalf,
        NoTask
  <2>5. QuietHalf'
    BY <1>1, <1>2, <2>1 DEF StopOwned, LifeHalf, ActorsHalf, StatesHalf, StoppersHalf, QueueHalf,
        QuietHalf
  <2>6. StoppersHalf'
    BY <1>1, <1>2, <2>1 DEF StopOwned, LifeHalf, ActorsHalf, StatesHalf, StoppersHalf, QueueHalf,
        QuietHalf
  <2> QED BY <2>2, <2>3, <2>4, <2>5, <2>6 DEF LifeHalf
<1> QED BY <1>1, <1>2, <1>3, <1>4, <1>8

LEMMA FlushKeeps == ASSUME ThreadsBounds, ThreadsInv, Flush PROVE ThreadsInv'
<1> USE DEF ThreadsBounds, ThreadsInv
<1>1. QueueHalf'
  <2>1. UNCHANGED queueVars /\ (closing' = closing \/ tasks = <<>>)
    BY DEF Flush, QueueHalf
  <2> QED BY <2>1, QueueStays
<1>2. WorkersHalf' /\ workers' = workers /\ Len(workers) \in Nat
  <2>1. UNCHANGED <<workers, values>>
    BY DEF Flush, workerVars
  <2> QED BY <2>1, WorkersStay
<1>3. ShapeHalf'
  BY <1>1, <1>2 DEF Flush, ShapeHalf, Workers, workerVars, queueVars, Records, Ended, ThreadSteps,
      Unsubscribers, Stoppers, Steps, Pop, QueueHalf, NoTask
<1>8. StopOwned'
  BY <1>1 DEF Flush, StopOwned, Begun, queueVars, NoTask, ShapeHalf, Stoppers, Records, QueueHalf
<1>4. ASSUME excused' = {} PROVE LifeHalf'
  <2> USE DEF Flush, Workers, workerVars, queueVars, Ended, Early, Stoppers, Unsubscribers, Steps,
      Pop, Closing, Begun, Clear, ShapeHalf, Records
  <2>1. excused = {} /\ LifeHalf
    BY <1>4
  <2>2. ActorsHalf'
    BY <1>1, <1>2, <2>1 DEF StopOwned, LifeHalf, ActorsHalf, StatesHalf, StoppersHalf, QueueHalf,
        NoTask
  <2>3. WorkersAreTraced'
    BY <1>2, <2>1 DEF LifeHalf, WorkersAreTraced, StatesHalf, Gone
  <2>4. StatesHalf'
    BY <1>1, <1>2, <2>1 DEF StopOwned, LifeHalf, ActorsHalf, StatesHalf, StoppersHalf, QueueHalf,
        NoTask
  <2>5. QuietHalf'
    BY <1>1, <1>2, <2>1 DEF StopOwned, LifeHalf, ActorsHalf, StatesHalf, StoppersHalf, QueueHalf,
        QuietHalf
  <2>6. StoppersHalf'
    BY <1>1, <1>2, <2>1 DEF StopOwned, LifeHalf, ActorsHalf, StatesHalf, StoppersHalf, QueueHalf,
        QuietHalf
  <2> QED BY <2>2, <2>3, <2>4, <2>5, <2>6 DEF LifeHalf
<1> QED BY <1>1, <1>2, <1>3, <1>4, <1>8

LEMMA CloseBeginsKeeps == ASSUME ThreadsBounds, ThreadsInv, CloseBegins PROVE ThreadsInv'
<1> USE DEF ThreadsBounds, ThreadsInv
<1>1. QueueHalf'
  BY QueueCloses
<1>2. WorkersHalf' /\ workers' = workers /\ Len(workers) \in Nat
  <2>1. UNCHANGED <<workers, values>>
    BY DEF CloseBegins, workerVars
  <2> QED BY <2>1, WorkersStay
<1>3. ShapeHalf'
  BY <1>1, <1>2 DEF CloseBegins, ShapeHalf, Workers, workerVars, queueVars, Records, Ended,
      ThreadSteps, Unsubscribers, Stoppers, Steps, Pop, QueueHalf, NoTask
<1>8. StopOwned'
  BY <1>1 DEF CloseBegins, StopOwned, Begun, queueVars, NoTask, ShapeHalf, Stoppers, Records,
      QueueHalf
<1>4. ASSUME excused' = {} PROVE LifeHalf'
  <2> USE DEF CloseBegins, Workers, workerVars, queueVars, Ended, Early, Stoppers, Unsubscribers,
      Steps, Pop, Closing, Begun, Clear, ShapeHalf, Records
  <2>1. excused = {} /\ LifeHalf
    BY <1>4
  <2>2. ActorsHalf'
    BY <1>1, <1>2, <2>1 DEF StopOwned, LifeHalf, ActorsHalf, StatesHalf, StoppersHalf, QueueHalf,
        NoTask
  <2>3. WorkersAreTraced'
    BY <1>2, <2>1 DEF LifeHalf, WorkersAreTraced, StatesHalf, Gone
  <2>4. StatesHalf'
    BY <1>1, <1>2, <2>1 DEF StopOwned, LifeHalf, ActorsHalf, StatesHalf, StoppersHalf, QueueHalf,
        NoTask
  <2>5. QuietHalf'
    BY <1>1, <1>2, <2>1 DEF StopOwned, LifeHalf, ActorsHalf, StatesHalf, StoppersHalf, QueueHalf,
        QuietHalf
  <2>6. StoppersHalf'
    BY <1>1, <1>2, <2>1 DEF StopOwned, LifeHalf, ActorsHalf, StatesHalf, StoppersHalf, QueueHalf,
        QuietHalf
  <2> QED BY <2>2, <2>3, <2>4, <2>5, <2>6 DEF LifeHalf
<1> QED BY <1>1, <1>2, <1>3, <1>4, <1>8

LEMMA SubmitKeeps == ASSUME ThreadsBounds, ThreadsInv, NEW type \in Types, Submit(type)
    PROVE ThreadsInv'
<1> USE DEF ThreadsBounds, ThreadsInv
<1>1. QueueHalf'
  BY QueueSubmits
<1>2. WorkersHalf' /\ workers' = workers /\ Len(workers) \in Nat
  <2>1. UNCHANGED <<workers, values>>
    BY DEF Submit, workerVars
  <2> QED BY <2>1, WorkersStay
<1>3. ShapeHalf'
  BY <1>2 DEF Submit, ShapeHalf, Workers, workerVars
<1>8. StopOwned'
  BY <1>1 DEF Submit, StopOwned, Begun, queueVars, NoTask, ShapeHalf, Stoppers, Records, QueueHalf
<1>4. ASSUME excused' = {} PROVE LifeHalf'
  <2> USE DEF Submit, Workers, workerVars, queueVars, Ended, Early, Stoppers, Unsubscribers, Steps,
      Pop, Closing, Begun, Clear, ShapeHalf, Records
  <2>1. excused = {} /\ LifeHalf
    BY <1>4
  <2>2. ActorsHalf'
    BY <1>1, <1>2, <2>1 DEF StopOwned, LifeHalf, ActorsHalf, StatesHalf, StoppersHalf, QueueHalf,
        NoTask
  <2>3. WorkersAreTraced'
    BY <1>2, <2>1 DEF LifeHalf, WorkersAreTraced, StatesHalf, Gone
  <2>4. StatesHalf'
    BY <1>1, <1>2, <2>1 DEF StopOwned, LifeHalf, ActorsHalf, StatesHalf, StoppersHalf, QueueHalf,
        NoTask
  <2>5. QuietHalf'
    BY <1>1, <1>2, <2>1 DEF StopOwned, LifeHalf, ActorsHalf, StatesHalf, StoppersHalf, QueueHalf,
        QuietHalf
  <2>6. StoppersHalf'
    BY <1>1, <1>2, <2>1 DEF StopOwned, LifeHalf, ActorsHalf, StatesHalf, StoppersHalf, QueueHalf,
        QuietHalf
  <2> QED BY <2>2, <2>3, <2>4, <2>5, <2>6 DEF LifeHalf
<1> QED BY <1>1, <1>2, <1>3, <1>4, <1>8

\* The workers go on, and nothing else changes.
LEMMA WorkersMove ==
  ASSUME ThreadsBounds, ThreadsInv, WorkersHalf', Follows(workers, workers'),
         UNCHANGED <<queueVars, closing, inst, thread, stopFlag, subs, retired, mine, bus, popped,
                     stopper, excused>>
  PROVE  ThreadsInv'
<1> USE DEF ThreadsBounds, ThreadsInv
<1>1. QueueHalf'
  BY QueueStays
<1>2. Len(workers') = Len(workers) /\ \A w \in Workers : Gone(w) => Gone(w)'
  BY DEF Follows, Gone, Workers
<1>3. ShapeHalf'
  BY <1>2 DEF ShapeHalf, Workers, queueVars
<1>8. StopOwned'
  BY DEF StopOwned, Begun, queueVars
<1>4. ASSUME LifeHalf PROVE LifeHalf'
  <2> USE <1>2, <1>4 DEF LifeHalf
  <2>1. ActorsHalf' /\ StatesHalf'
    BY DEF ActorsHalf, StatesHalf, Closing, Begun, queueVars
  <2>2. WorkersAreTraced'
    BY DEF WorkersAreTraced, ShapeHalf
  <2>3. QuietHalf' /\ StoppersHalf'
    BY DEF QuietHalf, StoppersHalf, Clear
  <2> QED BY <2>1, <2>2, <2>3
<1> QED BY <1>1, <1>3, <1>4, <1>8

LEMMA WorkersKeep ==
  ASSUME ThreadsBounds, ThreadsInv, Offer \/ \E w \in Workers : Deliver(w) \/ OnDataEnds(w)
         \/ WorkerExits(w) PROVE ThreadsInv'
<1>1. WorkersHalf' /\ Follows(workers, workers')
  BY WorkersOffer, WorkersDeliver, WorkersEnd DEF ThreadsInv
<1>2. UNCHANGED <<queueVars, closing, inst, thread, stopFlag, subs, retired, mine, bus, popped,
                  stopper, excused>>
  BY DEF Offer, Deliver, OnDataEnds, WorkerExits
<1> QED BY <1>1, <1>2, WorkersMove

LEMMA RetireKeeps == ASSUME ThreadsBounds, ThreadsInv, NEW who \in Unsubscribers, Retire(who)
    PROVE ThreadsInv'
<1> USE DEF ThreadsBounds, ThreadsInv
<1>1. QueueHalf'
  BY QueueStays DEF Retire
<1>5. PICK w : w = popped[who]
  OBVIOUS
<1>6. /\ w \in Workers /\ bus' = bus \ {w} /\ retired' = retired \cup {w}
         /\ popped' = [popped EXCEPT ![who] = 0]
      /\ workers' = [workers EXCEPT ![w].closed = TRUE, ![w].pending = <<>>] /\ values' = values
  <2>1. popped[who] \in 0..Len(workers)
    BY DEF ShapeHalf
  <2> QED BY <1>5, <2>1 DEF Retire, Workers
<1>2. WorkersHalf' /\ Len(workers') = Len(workers) /\ Len(workers) \in Nat
    /\ \A x \in Workers : Gone(x) => Gone(x)'
  BY <1>6, WorkersClose DEF Follows, Gone, Workers
<1>7. popped' \in [Unsubscribers -> 0..Len(workers)] /\ popped'[who] = 0
      /\ \A u \in Unsubscribers : u # who => popped'[u] = popped[u]
  BY <1>2, <1>6 DEF ShapeHalf
<1>3. ShapeHalf'
  BY <1>2, <1>6, <1>7 DEF Retire, ShapeHalf, Workers, queueVars
<1>8. StopOwned'
  BY <1>1 DEF Retire, StopOwned, Begun, queueVars, NoTask, ShapeHalf, Stoppers, Records, QueueHalf
<1>4. ASSUME excused' = {} PROVE LifeHalf'
  <2>1. excused = {} /\ LifeHalf
    BY <1>4 DEF Retire
  <2>0. UNCHANGED <<queueVars, closing, inst, thread, stopFlag, subs, mine, stopper>>
    BY DEF Retire
  <2> USE <2>0, <2>1 DEF LifeHalf
  <2>2. ActorsHalf'
    BY <1>7 DEF ActorsHalf, Closing, Begun, queueVars, Stoppers, Unsubscribers
  <2>3. WorkersAreTraced'
    BY <1>2, <1>5, <1>6, <1>7 DEF WorkersAreTraced, ShapeHalf
  <2>4. StatesHalf'
    BY <1>2 DEF StatesHalf, Begun, queueVars
  <2>7. w # 0
    BY <1>6 DEF Workers
  <2>5. QuietHalf'
    BY <1>5, <2>7 DEF QuietHalf, Clear
  <2>6. StoppersHalf'
    BY <1>5, <2>7 DEF StoppersHalf, Clear
  <2> QED BY <2>2, <2>3, <2>4, <2>5, <2>6
<1> QED BY <1>1, <1>2, <1>3, <1>4, <1>8

LEMMA StopBeginsKeeps == ASSUME ThreadsBounds, ThreadsInv, NEW s \in Stoppers, StopBegins(s)
    PROVE ThreadsInv'
<1> USE DEF ThreadsBounds, ThreadsInv
<1>1. QueueHalf' /\ task'.type = task.type /\ (task' = task \/ task'.step = "begun")
  <2>1. CASE s = "close"
    <3>1. UNCHANGED queueVars
      BY <2>1 DEF StopBegins, queueVars
    <3> QED BY <3>1, QueueStays DEF StopBegins, queueVars
  <2>2. CASE s = "task"
    <3>1. task # NoTask /\ task' = [task EXCEPT !.step = "begun"]
        /\ UNCHANGED <<tasks, qThread, answers, closing>>
      BY <2>2 DEF StopBegins, QueueHalf
    <3> QED BY <3>1, QueueWorks
  <2> QED BY <2>1, <2>2 DEF Stoppers
<1>2. WorkersHalf' /\ workers' = workers /\ Len(workers) \in Nat
  <2>1. UNCHANGED <<workers, values>>
    BY DEF StopBegins, workerVars
  <2> QED BY <2>1, WorkersStay
<1>3. ShapeHalf'
  <2>1. PICK r : r = [pc |-> "unsubscribe", keys |-> Registered, joins |-> {}]
    OBVIOUS
  <2>2. r \in Records
    BY <2>1 DEF Records, Steps, Registered
  <2>3. stopper' = [stopper EXCEPT ![s] = r]
    BY <2>1 DEF StopBegins
  <2>4. stopper' \in [Stoppers -> Records]
    BY <2>2, <2>3, StopperChanges DEF ShapeHalf
  <2>5. task'.step = "register" => task.step = "register"
    BY <1>1
  <2> QED BY <1>2, <2>4, <2>5 DEF StopBegins, ShapeHalf, Workers, workerVars
<1>7. /\ stopper'[s].pc = "unsubscribe" /\ stopper'[s].keys = Registered /\ stopper[s].pc = "idle"
      /\ \A t \in Stoppers : t # s => stopper'[t] = stopper[t]
      /\ s = "task" => task.type = "stop" /\ task'.type = "stop" /\ task'.step = "begun"
      /\ s = "close" => closing = "stopping" /\ task' = task
      /\ inst # "absent" /\ inst' = "stopping"
  <2>1. stopper' = [stopper EXCEPT ![s] = [pc |-> "unsubscribe", keys |-> Registered, joins |-> {}]]
        /\ stopper \in [Stoppers -> Records] /\ stopper[s].pc = "idle" /\ inst # "absent"
           /\ inst' = "stopping"
    BY DEF StopBegins, ShapeHalf
  <2>2. stopper'[s].pc = "unsubscribe" /\ stopper'[s].keys = Registered
        /\ \A t \in Stoppers : t # s => stopper'[t] = stopper[t]
    BY ONLY <2>1
  <2>3. ASSUME s = "task" PROVE task.type = "stop" /\ task' = [task EXCEPT !.step = "begun"]
    BY <2>3 DEF StopBegins
  <2>4. ASSUME s = "task" PROVE task.type = "stop" /\ task'.type = "stop" /\ task'.step = "begun"
    <3>1. task \in Tasks
      BY DEF QueueHalf
    <3> QED BY <2>3, <2>4, <3>1 DEF Tasks
  <2>5. ASSUME s = "close" PROVE closing = "stopping" /\ task' = task
    BY <2>5 DEF StopBegins
  <2> QED BY <2>1, <2>2, <2>4, <2>5
<1>8. StopOwned'
  BY <1>7 DEF StopOwned, Begun, Stoppers
<1>4. ASSUME excused' = {} PROVE LifeHalf'
  <2> USE DEF StopBegins, Workers, workerVars, queueVars, Ended, Early, Stoppers, Unsubscribers,
      Steps, Pop, Closing, Begun, Clear, ShapeHalf, Records
  <2>1. excused = {} /\ LifeHalf
    BY <1>4
  <2>2. ActorsHalf'
    BY <1>1, <1>2, <2>1 DEF StopOwned, LifeHalf, ActorsHalf, StatesHalf, StoppersHalf, QueueHalf,
        NoTask
  <2>3. WorkersAreTraced'
    BY <1>2, <2>1 DEF LifeHalf, WorkersAreTraced, StatesHalf, Gone
  <2>4. StatesHalf'
    BY <1>1, <1>2, <2>1 DEF StopOwned, LifeHalf, ActorsHalf, StatesHalf, StoppersHalf, QueueHalf,
        NoTask
  <2>5. QuietHalf'
    BY <1>1, <1>2, <2>1 DEF StopOwned, LifeHalf, ActorsHalf, StatesHalf, StoppersHalf, QueueHalf,
        QuietHalf
  <2>7. \A t \in Stoppers : t # s => stopper[t].pc = "idle"
    BY <1>7, <2>1 DEF StopOwned, LifeHalf, ActorsHalf, QueueHalf, NoTask
  <2>8. UNCHANGED <<subs, popped, retired, thread, stopFlag>>
    OBVIOUS
  <2>6. StoppersHalf'
    BY ONLY <1>7, <2>7, <2>8 DEF StoppersHalf, Clear, Registered
  <2> QED BY <2>2, <2>3, <2>4, <2>5, <2>6 DEF LifeHalf
<1> QED BY <1>1, <1>2, <1>3, <1>4, <1>8

LEMMA StopEndsKeeps == ASSUME ThreadsBounds, ThreadsInv, NEW s \in Stoppers, StopEnds(s)
    PROVE ThreadsInv'
<1> USE DEF ThreadsBounds, ThreadsInv
<1>1. QueueHalf' /\ (s = "close" => task' = task) /\ (s = "task" => task' = NoTask)
  <2>1. CASE s = "close"
    <3>1. UNCHANGED queueVars
      BY <2>1 DEF StopEnds, queueVars
    <3> QED BY <2>1, <3>1, QueueStays DEF StopEnds, queueVars
  <2>2. CASE s = "task"
    <3>1. Reply /\ UNCHANGED <<tasks, qThread, closing>>
      BY <2>2 DEF StopEnds
    <3>2. task # NoTask
      BY <2>2 DEF StopEnds, StopOwned, Begun, NoTask
    <3> QED BY <2>2, <3>1, <3>2, QueueReplies
  <2> QED BY <2>1, <2>2 DEF Stoppers
<1>2. WorkersHalf' /\ workers' = workers /\ Len(workers) \in Nat
  <2>1. UNCHANGED <<workers, values>>
    BY DEF StopEnds, workerVars
  <2> QED BY <2>1, WorkersStay
<1>3. ShapeHalf'
  <2>1. PICK r : r = NotStopping
    OBVIOUS
  <2>2. r \in Records
    BY <2>1 DEF Records, Steps, NotStopping
  <2>3. stopper' = [stopper EXCEPT ![s] = r]
    BY <2>1 DEF StopEnds
  <2>4. stopper' \in [Stoppers -> Records]
    BY <2>2, <2>3, StopperChanges DEF ShapeHalf
  <2>5. task'.step = "register" => task.step = "register"
    BY <1>1 DEF NoTask, Stoppers
  <2>6. excused' \subseteq {"joinTimedOut", "overlapped", "abandoned"}
    BY DEF StopEnds, ShapeHalf
  <2>7. inst' \in {"absent", "errored"}
    BY DEF StopEnds
  <2> QED BY <1>2, <2>4, <2>5, <2>6, <2>7 DEF StopEnds, ShapeHalf, Workers, workerVars
<1>7. /\ stopper'[s].pc = "idle" /\ \A t \in Stoppers : t # s => stopper'[t] = stopper[t]
      /\ stopper[s].pc \in {"stopped", "timeout"}
  BY DEF StopEnds, ShapeHalf, NotStopping
<1>8. StopOwned'
  BY <1>1, <1>7 DEF StopOwned, Begun, Stoppers
<1>4. ASSUME excused' = {} PROVE LifeHalf'
  <2> USE DEF StopEnds, Workers, workerVars, queueVars, Ended, Early, Stoppers, Unsubscribers,
      Steps, Pop, Closing, Begun, Clear, ShapeHalf, Records
  <2>1. excused = {} /\ LifeHalf
    BY <1>4
  <2>2. ActorsHalf'
    BY <1>1, <1>2, <2>1 DEF StopOwned, LifeHalf, ActorsHalf, StatesHalf, StoppersHalf, QueueHalf,
        NoTask
  <2>3. WorkersAreTraced'
    BY <1>2, <2>1 DEF LifeHalf, WorkersAreTraced, StatesHalf, Gone
  <2>7. /\ inst = "stopping" /\ stopFlag /\ Clear /\ retired = {}
           /\ thread \in {"loop", "cleanup", "ended"}
        /\ stopper[s].pc = "stopped" => thread \in Ended
    BY <1>7, <2>1 DEF LifeHalf, StoppersHalf, StatesHalf
  <2>8. inst' = "errored" \/ (inst' = "absent" /\ stopper[s].pc = "stopped")
    <3>1. CASE s = "task"
      BY <1>7, <2>7, <3>1
    <3>2. CASE s = "close"
      <4>1. stopper[s].pc # "timeout"
        BY <1>4, <3>2
      <4> QED BY <1>7, <3>2, <4>1
    <3> QED BY <3>1, <3>2
  <2>9. ~Begun("start") /\ ~Begun("start")' /\ task'.type # "swap"
    <3>1. ~Begun("start") /\ (task.type = "swap" => task.step = "new" \/ inst = "running")
      BY <2>1, <2>7 DEF LifeHalf, StatesHalf
    <3>2. CASE s = "task"
      <4>1. task' = NoTask
        BY <1>1, <3>2
      <4> QED BY <3>1, <4>1 DEF NoTask
    <3>3. CASE s = "close"
      <4>1. closing \in {"stopping", "flushed"}
        BY <1>7, <2>1, <3>3 DEF LifeHalf, ActorsHalf
      <4>2. task' = task /\ task = NoTask
        BY <1>1, <2>1, <3>3, <4>1 DEF LifeHalf, ActorsHalf, QueueHalf
      <4> QED BY <3>1, <4>2 DEF NoTask
    <3> QED BY <3>2, <3>3
  <2>10. \A t \in Stoppers : t # s => stopper[t].pc = "idle"
    BY <1>7, <2>1 DEF StopOwned, LifeHalf, ActorsHalf, QueueHalf, NoTask
  <2>11. UNCHANGED <<subs, popped, retired, thread, stopFlag>>
    OBVIOUS
  <2>4. StatesHalf'
    BY ONLY <2>7, <2>8, <2>9, <2>11 DEF StatesHalf, Ended, Begun
  <2>5. QuietHalf'
    BY <1>1, <1>2, <2>1 DEF StopOwned, LifeHalf, ActorsHalf, StatesHalf, StoppersHalf, QueueHalf,
        QuietHalf
  <2>6. StoppersHalf'
    BY ONLY <1>7, <2>10 DEF StoppersHalf
  <2> QED BY <2>2, <2>3, <2>4, <2>5, <2>6 DEF LifeHalf
<1> QED BY <1>1, <1>2, <1>3, <1>4, <1>8

\* Of a new worker: it is the event's, and the driver's.
LEMMA RecordMoves ==
  ASSUME ThreadsBounds, WorkersHalf, ShapeHalf, NEW e \in Events, subs[e] = 0, Record(e),
         values' = values
  PROVE  /\ WorkersHalf' /\ Len(workers) \in Nat /\ Len(workers') = Len(workers) + 1
         /\ subs' \in [Events -> 0..Len(workers')] /\ subs'[e] = Len(workers')
         /\ \A x \in Events : x # e => subs'[x] = subs[x]
         /\ mine' = mine \cup {Len(workers')} /\ mine' \subseteq 1..Len(workers')
            /\ Workers \subseteq 1..Len(workers')
         /\ \A w \in mine : Gone(w) => Gone(w)'
         /\ \A w \in mine : subs[e] # w /\ w # Len(workers')
         /\ Len(workers') \notin bus
<1>1. WorkersHalf' /\ Len(workers) \in Nat /\ Len(workers') = Len(workers) + 1
    /\ \A x \in Workers : workers'[x] = workers[x]
  BY WorkersGrow
<1>2. subs \in [Events -> 0..Len(workers)] /\ mine \subseteq 1..Len(workers)
    /\ bus \subseteq 1..Len(workers)
  BY DEF ShapeHalf, Workers
<1>3. subs' = [subs EXCEPT ![e] = Len(workers')] /\ mine' = mine \cup {Len(workers')}
  BY <1>1 DEF Record
<1>4. Len(workers') \in 1..Len(workers') /\ 0..Len(workers) \subseteq 0..Len(workers')
    /\ 1..Len(workers) \subseteq 1..Len(workers')
      /\ Len(workers') \notin 1..Len(workers) /\ 0 \notin 1..Len(workers)
         /\ Len(workers') \in 0..Len(workers')
  BY <1>1
<1>5. subs' \in [Events -> 0..Len(workers')]
  BY <1>2, <1>3, <1>4
<1> QED BY <1>1, <1>2, <1>3, <1>4, <1>5 DEF Gone, Workers

LEMMA RecordKeeps ==
  ASSUME ThreadsBounds, ThreadsInv, QueueHalf', NEW e \in Events, subs[e] = 0, Record(e),
         task'.type = task.type,
         UNCHANGED <<values, qThread, closing, inst, thread, stopFlag, retired, bus, popped,
                     stopper, excused>>,
         \/ thread = "subscribe" /\ task' = task
         \/ task.type = "swap" /\ task.step = "subscribe" /\ task'.step = "register"
            /\ popped["swap"] = 0
  PROVE  ThreadsInv'
<1> USE DEF ThreadsInv
<1>1. /\ WorkersHalf' /\ Len(workers) \in Nat /\ Len(workers') = Len(workers) + 1
      /\ subs' \in [Events -> 0..Len(workers')] /\ subs'[e] = Len(workers')
      /\ \A x \in Events : x # e => subs'[x] = subs[x]
      /\ mine' = mine \cup {Len(workers')} /\ mine' \subseteq 1..Len(workers')
         /\ Workers \subseteq 1..Len(workers')
      /\ \A w \in mine : Gone(w) => Gone(w)'
      /\ \A w \in mine : subs[e] # w /\ w # Len(workers')
      /\ Len(workers') \notin bus
  BY RecordMoves
<1>2. 0..Len(workers) \subseteq 0..Len(workers') /\ Len(workers') # 0
  BY <1>1
<1>3. ShapeHalf'
  BY <1>1, <1>2 DEF ShapeHalf, Workers
<1>4. StopOwned'
  BY DEF StopOwned, Begun
<1>5. ASSUME LifeHalf PROVE LifeHalf'
  <2> USE <1>5 DEF LifeHalf, Workers, Ended, Early, Stoppers, Unsubscribers, Closing, Begun, Clear
  <2>1. ActorsHalf'
    BY DEF ActorsHalf
  <2>2. WorkersAreTraced'
    BY <1>1 DEF WorkersAreTraced
  <2>3. StatesHalf'
    BY <1>1, <1>2 DEF StatesHalf, ActorsHalf
  <2>4. thread = "subscribe" \/ (thread = "loop" /\ ~stopFlag)
    BY DEF StatesHalf
  <2>5. QuietHalf'
    BY <2>4 DEF QuietHalf
  <2>6. inst # "stopping"
    BY DEF StatesHalf, ActorsHalf
  <2>7. StoppersHalf'
    BY <2>6 DEF StoppersHalf
  <2> QED BY <2>1, <2>2, <2>3, <2>5, <2>7
<1> QED BY <1>1, <1>3, <1>4, <1>5

LEMMA SubscribeStaticKeeps == ASSUME ThreadsBounds, ThreadsInv, SubscribeStatic PROVE ThreadsInv'
<1> USE DEF ThreadsBounds, ThreadsInv
<1>1. QueueHalf'
  BY QueueStays DEF SubscribeStatic
<1>2. PICK e \in Events : \/ subs[e] = 0 /\ Record(e) /\ UNCHANGED bus
                          \/ subs[e] \in Workers \ bus /\ bus' = bus \cup {subs[e]}
                             /\ UNCHANGED <<workers, mine, subs>>
  <2>1. PICK e \in Subscribed : \/ /\ subs[e] = 0 /\ Record(e) /\ UNCHANGED bus
                                \/ /\ subs[e] \in Workers \ bus /\ bus' = bus \cup {subs[e]}
                                   /\ UNCHANGED <<workers, mine, subs>>
    BY DEF SubscribeStatic
  <2>2. e \in Events
    OBVIOUS
  <2> QED BY <2>1, <2>2
<1>3. CASE subs[e] = 0 /\ Record(e) /\ UNCHANGED bus
  <2>1. /\ UNCHANGED <<values, qThread, closing, inst, thread, stopFlag, retired, bus, popped,
                       stopper, excused, task>>
        /\ thread = "subscribe"
    BY <1>3 DEF SubscribeStatic, queueVars
  <2> QED BY <1>1, <1>3, <2>1, RecordKeeps
<1>4. CASE subs[e] \in Workers /\ bus' = bus \cup {subs[e]} /\ UNCHANGED <<workers, mine, subs>>
  <2>1. UNCHANGED <<values, qThread, closing, inst, thread, stopFlag, retired, popped, stopper,
                    excused, task>>
    BY DEF SubscribeStatic, queueVars
  <2> USE <1>4, <2>1
  <2>2. WorkersHalf'
    BY WorkersStay
  <2>3. ShapeHalf' /\ StopOwned'
    BY DEF ShapeHalf, StopOwned, Workers, Begun
  <2>4. ASSUME LifeHalf PROVE LifeHalf'
    <3> USE <2>4 DEF LifeHalf, Workers, Ended, Early, Stoppers, Unsubscribers, Closing, Begun, Clear
    <3>1. ActorsHalf' /\ StatesHalf'
      BY DEF ActorsHalf, StatesHalf
    <3>2. WorkersAreTraced'
      BY DEF WorkersAreTraced, Gone
    <3>3. QuietHalf' /\ StoppersHalf'
      BY DEF QuietHalf, StoppersHalf
    <3> QED BY <3>1, <3>2, <3>3
  <2> QED BY <1>1, <2>2, <2>3, <2>4
<1> QED BY <1>2, <1>3, <1>4

LEMMA SwapRecordsKeeps == ASSUME ThreadsBounds, ThreadsInv, SwapRecords PROVE ThreadsInv'
<1> USE DEF ThreadsBounds, ThreadsInv
<1>1. PICK e \in Events : \/ subs[e] = 0 /\ Record(e) /\ UNCHANGED bus
                             /\ task' = [task EXCEPT !.step = "register"]
                          \/ task' = [task EXCEPT !.step = "begun"]
                             /\ UNCHANGED <<workers, mine, subs, bus>>
  <2>1. PICK e \in Events :
          IF subs[e] = 0 THEN Record(e) /\ UNCHANGED bus
              /\ task' = [task EXCEPT !.step = "register"]
          ELSE task' = [task EXCEPT !.step = "begun"] /\ UNCHANGED <<workers, mine, subs, bus>>
    BY DEF SwapRecords
  <2>2. CASE subs[e] = 0
    BY <2>1, <2>2
  <2>3. CASE subs[e] # 0
    BY <2>1, <2>3
  <2> QED BY <2>2, <2>3
<1>2. /\ task # NoTask /\ task.type = "swap" /\ task.step = "subscribe" /\ popped["swap"] = 0
      /\ UNCHANGED <<tasks, answers, values, qThread, closing, inst, thread, stopFlag, retired,
                     popped, stopper, excused>>
  BY DEF SwapRecords, QueueHalf
<1>3. CASE subs[e] = 0 /\ Record(e) /\ UNCHANGED bus /\ task' = [task EXCEPT !.step = "register"]
  <2>1. QueueHalf' /\ task'.type = task.type /\ task'.step = "register"
    BY <1>2, <1>3, QueueWorks
  <2> QED BY <1>2, <1>3, <2>1, RecordKeeps
<1>4. CASE task' = [task EXCEPT !.step = "begun"] /\ UNCHANGED <<workers, mine, subs, bus>>
  <2>1. QueueHalf' /\ task'.type = task.type /\ task'.step = "begun"
    BY <1>2, <1>4, QueueWorks
  <2>2. WorkersHalf'
    BY <1>2, <1>4, WorkersStay
  <2> USE <1>2, <1>4, <2>1
  <2>3. ShapeHalf' /\ StopOwned'
    BY DEF ShapeHalf, StopOwned, Workers, Begun
  <2>4. ASSUME LifeHalf PROVE LifeHalf'
    <3> USE <2>4 DEF LifeHalf, Workers, Ended, Early, Stoppers, Unsubscribers, Closing, Begun, Clear
    <3>1. ActorsHalf' /\ StatesHalf'
      BY DEF ActorsHalf, StatesHalf
    <3>2. WorkersAreTraced'
      BY DEF WorkersAreTraced, Gone
    <3>3. QuietHalf' /\ StoppersHalf'
      BY DEF QuietHalf, StoppersHalf
    <3> QED BY <3>1, <3>2, <3>3
  <2> QED BY <2>1, <2>2, <2>3, <2>4
<1> QED BY <1>1, <1>3, <1>4

LEMMA ThreadsStart == ASSUME ThreadsBounds PROVE ThreadsInit => ThreadsInv
<1> SUFFICES ASSUME ThreadsInit PROVE ThreadsInv
  OBVIOUS
<1> USE DEF ThreadsBounds
<1>1. QueueHalf /\ WorkersHalf
  BY QueueStarts, WorkersStart
<1>2. /\ qThread = FALSE /\ task = NoTask /\ closing = "open" /\ inst = "absent" /\ thread = "none"
         /\ stopFlag = FALSE
      /\ subs = [e \in Events |-> 0] /\ retired = {} /\ mine = {} /\ bus = {}
         /\ popped = [u \in Unsubscribers |-> 0]
      /\ stopper = [s \in Stoppers |-> NotStopping] /\ excused = {}
  BY DEF ThreadsInit
<1>3. Len(workers) \in Nat /\ 0 \in 0..Len(workers) /\ task.step = "new" /\ task.type = "none"
  BY <1>1, <1>2 DEF WorkersHalf, NoTask
<1>4. NotStopping \in Records /\ NotStopping.pc = "idle"
  BY DEF NotStopping, Records, Steps
<1>5. stopper \in [Stoppers -> Records] /\ \A s \in Stoppers : stopper[s].pc = "idle"
  BY <1>2, <1>4
<1>6. ShapeHalf /\ StopOwned
  BY <1>2, <1>3, <1>5 DEF ShapeHalf, StopOwned, ThreadSteps, Stoppers
<1>7. LifeHalf
  BY <1>2, <1>3, <1>5 DEF LifeHalf, ActorsHalf, WorkersAreTraced, StatesHalf, QuietHalf,
      StoppersHalf, Begun, Early, Ended,
     Stoppers, Unsubscribers, Closing
<1> QED BY <1>1, <1>6, <1>7 DEF ThreadsInv

LEMMA ThreadsSteps == ASSUME ThreadsBounds, ThreadsInv, ThreadsNext PROVE ThreadsInv'
<1>1. CASE \/ Take \/ StartRefused \/ StartBegins \/ PreRunEnds \/ SubscribeStatic \/ StartedSet
           \/ FailedStart \/ LoopEnds \/ CleanupEnds \/ StartSucceeds \/ StartFails
  BY <1>1, TakeKeeps, StartRefusedKeeps, StartBeginsKeeps, PreRunEndsKeeps, SubscribeStaticKeeps,
      StartedSetKeeps,
     FailedStartKeeps, LoopEndsKeeps, CleanupEndsKeeps, StartSucceedsKeeps, StartFailsKeeps
<1>2. CASE \/ SwapRefused \/ SwapUnsubscribes \/ SwapRecords \/ SwapRegisters \/ SwapEnds
           \/ StopAbsent \/ GraceEnds \/ Flush
  BY <1>2, SwapRefusedKeeps, SwapUnsubscribesKeeps, SwapRecordsKeeps, SwapRegistersKeeps,
      SwapEndsKeeps,
     StopAbsentKeeps, GraceEndsKeeps, FlushKeeps
<1>3. CASE \E u \in Unsubscribers : Retire(u)
  BY <1>3, RetireKeeps
<1>4. CASE Offer \/ \E w \in Workers : Deliver(w) \/ OnDataEnds(w) \/ WorkerExits(w)
  BY <1>4, WorkersKeep
<1>5. CASE \E s \in Stoppers : \/ StopBegins(s) \/ StopUnsubscribes(s) \/ StopListsWorkers(s)
                              \/ StopJoins(s) \/ StopSetsFlag(s) \/ StopJoinsThread(s)
                                 \/ StopEnds(s)
  BY <1>5, StopBeginsKeeps, StopUnsubscribesKeeps, StopListsWorkersKeeps, StopJoinsKeeps,
      StopSetsFlagKeeps,
     StopJoinsThreadKeeps, StopEndsKeeps
<1>6. CASE (\E type \in Types : Submit(type)) \/ GoIdle \/ PreRunRaises \/ CloseBegins
  BY <1>6, SubmitKeeps, GoIdleKeeps, PreRunRaisesKeeps, CloseBeginsKeeps
<1> QED BY <1>1, <1>2, <1>3, <1>4, <1>5, <1>6 DEF ThreadsNext, ThreadsProgress

LEMMA ThreadsStay == ASSUME ThreadsBounds, ThreadsInv, UNCHANGED tVars PROVE ThreadsInv'
<1>1. WorkersHalf' /\ Follows(workers, workers')
  BY WorkersStay DEF ThreadsInv, tVars, Follows, Workers
<1>2. UNCHANGED <<queueVars, closing, inst, thread, stopFlag, subs, retired, mine, bus, popped,
                  stopper, excused>>
  BY DEF tVars, queueVars
<1> QED BY <1>1, <1>2, WorkersMove

LEMMA ThreadsHold == ASSUME ThreadsBounds PROVE ThreadsInv => ThreadsTypeOK /\ DriverThreadsAreSafe
<1> SUFFICES ASSUME ThreadsInv PROVE ThreadsTypeOK /\ DriverThreadsAreSafe
  OBVIOUS
<1> USE DEF ThreadsBounds, ThreadsInv
<1>1. DeliveredInOrder /\ EachRequestAnsweredOnce
  BY QueueHolds, WorkersHold
<1>2. ASSUME excused = {}, thread \in {"cleanup", "failedCleanup"} \cup Ended
      PROVE  \A w \in mine : Gone(w) /\ w \notin bus /\ ~Busy(w)
  <2>1. Clear /\ retired = {} /\ WorkersAreTraced /\ \A w \in mine : w # 0
    BY <1>2 DEF LifeHalf, QuietHalf, ShapeHalf, Workers
  <2>2. \A w \in mine : Gone(w) /\ w \notin bus
    BY <2>1 DEF Clear, WorkersAreTraced
  <2> QED BY <2>2 DEF Gone, Busy
<1>3. NoDataDuringCleanup
  BY <1>2 DEF NoDataDuringCleanup
<1>4. StoppedMeansStopped
  <2>1. excused = {} /\ inst = "absent" /\ thread # "none" => thread \in Ended
    BY DEF LifeHalf, StatesHalf
  <2> QED BY <1>2, <2>1 DEF StoppedMeansStopped
<1>5. Len(workers) \in Nat /\ Len(workers) <= MaxWorkers /\ 0..Len(workers) \subseteq 0..MaxWorkers
  BY DEF WorkersHalf
<1>6. \A w \in Workers :
        /\ workers[w].pc \in {"wait", "busy", "gone"} /\ workers[w].closed \in BOOLEAN
        /\ workers[w].pending \in Seq(1..MaxValues) /\ workers[w].last \in 0..MaxValues
  BY DEF WorkersHalf, Orderly, WorkerRecords
<1>7. answers \in Seq(0..2)
  <2>1. 0..1 \subseteq 0..2 /\ answers \in Seq(0..1)
    BY DEF QueueHalf
  <2> QED BY <2>1
<1>8. subs \in [Events -> 0..MaxWorkers] /\ popped \in [Unsubscribers -> 0..MaxWorkers]
  BY <1>5 DEF ShapeHalf
<1>9. ThreadsTypeOK
  BY <1>6, <1>7, <1>8 DEF ThreadsTypeOK, QueueHalf, WorkersHalf, ShapeHalf, Requests, Tasks, Records
<1> QED BY <1>1, <1>3, <1>4, <1>9 DEF DriverThreadsAreSafe

\* The threads of a driver keep their types.
THEOREM ThreadsTypeCorrect == ASSUME ThreadsBounds PROVE ThreadsSpec => []ThreadsTypeOK
<1>1. ThreadsInit => ThreadsInv
  BY ThreadsStart
<1>2. ThreadsInv /\ [ThreadsNext]_tVars => ThreadsInv'
  BY ThreadsSteps, ThreadsStay
<1>3. ThreadsInv => ThreadsTypeOK
  BY ThreadsHold
<1> QED
  BY <1>1, <1>2, <1>3, PTL DEF ThreadsSpec

\* No data during a cleanup, nothing left when a stop reports success, values in
\* the order they were emitted, one answer to each request (driver.py, workers.py).
THEOREM ThreadsStaySafe == ASSUME ThreadsBounds PROVE ThreadsSpec => []DriverThreadsAreSafe
<1>1. ThreadsInit => ThreadsInv
  BY ThreadsStart
<1>2. ThreadsInv /\ [ThreadsNext]_tVars => ThreadsInv'
  BY ThreadsSteps, ThreadsStay
<1>3. ThreadsInv => DriverThreadsAreSafe
  BY ThreadsHold
<1> QED
  BY <1>1, <1>2, <1>3, PTL DEF ThreadsSpec
=============================================================================
