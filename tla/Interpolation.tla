--------------------------- MODULE Interpolation ---------------------------
(***************************************************************************)
(* The interpolation of one stream (drivers/interpolate.py): each job runs *)
(* on a thread of its own; a new one replaces the one before.              *)
(***************************************************************************)
EXTENDS Integers, FiniteSets

CONSTANTS Goals,    \* numbers a stream is interpolated toward
          Amount,   \* steps of a job
          MaxJobs   \* bound on jobs

VARIABLES jobs,     \* the jobs that are not over
          newest,   \* the stream's entry in _jobs
          calling,  \* where interpolate_points is
          value,    \* the stream's last value
          out,      \* the last emitted step, and the newest job then
          ending,   \* where the cleanup is
          overrun   \* a join gave up on a job

iVars == <<jobs, newest, calling, value, out, ending, overrun>>

NoValue == -1
Job == [id : 1..MaxJobs, goal : Goals, left : 0..Amount, cancelled : BOOLEAN,
        step : {"new", "check", "step", "emit"}, held : Goals \cup Int]

InterpolationTypeOK ==
  /\ \A j \in jobs : j \in Job
  /\ newest \in 0..MaxJobs
  /\ calling \in [step : {"idle", "stop", "start"}, id : 0..MaxJobs, previous : 0..MaxJobs]
  /\ value \in Int /\ out \in [by : 0..MaxJobs, value : Int]
  /\ ending \in {"no", "stop", "done"} /\ overrun \in BOOLEAN

InterpolationInit ==
  /\ jobs = {} /\ newest = 0 /\ calling = [step |-> "idle", id |-> 0, previous |-> 0]
  /\ value = NoValue /\ out = [by |-> 0, value |-> NoValue] /\ ending = "no" /\ overrun = FALSE

Become(j, k) == jobs' = (jobs \ {j}) \cup {k}
Cancelled(ids) == {[j EXCEPT !.cancelled = @ \/ j.id \in ids] : j \in jobs}

\* interpolate_points: the job is registered ...
Interpolate ==
  /\ calling.step = "idle" /\ ending = "no" /\ calling.id < MaxJobs
  /\ calling' = [step |-> "stop", id |-> calling.id + 1, previous |-> newest]
  /\ newest' = calling.id + 1
  /\ \E goal \in Goals :
       jobs' = jobs \cup {[id |-> calling.id + 1, goal |-> goal, left |-> Amount,
                           cancelled |-> FALSE, step |-> "new", held |-> NoValue]}
  /\ UNCHANGED <<value, out, ending, overrun>>

\* ... the previous one is cancelled ...
CancelPrevious ==
  /\ calling.step = "stop"
  /\ calling' = [calling EXCEPT !.step = "start"]
  /\ jobs' = Cancelled({calling.previous})
  /\ UNCHANGED <<newest, value, out, ending, overrun>>

\* Defect: ... and not waited for ...
StartJob_AtOnce ==
  /\ calling.step = "start"
  /\ calling' = [calling EXCEPT !.step = "idle"]
  /\ \E j \in jobs : j.id = calling.id /\ Become(j, [j EXCEPT !.step = "check"])
  /\ UNCHANGED <<newest, value, out, ending, overrun>>

\* ... and joined, for a second at most, and the new one starts.
StartJob ==
  /\ calling.step = "start"
  /\ calling' = [calling EXCEPT !.step = "idle"]
  /\ \E j \in jobs : j.id = calling.id /\ Become(j, [j EXCEPT !.step = "check"])
  /\ overrun' = (overrun \/ \E j \in jobs : j.id = calling.previous)
  /\ UNCHANGED <<newest, value, out, ending>>

\* _run: cancelled, told to stop or done ...
JobEnds ==
  /\ \E j \in jobs : /\ j.step = "check" /\ (j.cancelled \/ j.left = 0 \/ ending # "no")
                     /\ jobs' = jobs \ {j}
  /\ UNCHANGED <<newest, calling, value, out, ending, overrun>>

JobChecks ==
  /\ \E j \in jobs : /\ j.step = "check" /\ ~j.cancelled /\ j.left > 0 /\ ending = "no"
                     /\ Become(j, [j EXCEPT !.step = "step"])
  /\ UNCHANGED <<newest, calling, value, out, ending, overrun>>

\* lerp with a factor of a half; a stream without a value takes the goal.
Lerped(prev, goal) == IF prev = NoValue THEN goal ELSE (prev + goal) \div 2

\* Under the lock: the value moves towards the goal ...
JobSteps ==
  /\ \E j \in jobs : /\ j.step = "step"
                     /\ value' = Lerped(value, j.goal)
                     /\ Become(j, [j EXCEPT !.step = "emit", !.left = @ - 1, !.held = value'])
  /\ UNCHANGED <<newest, calling, out, ending, overrun>>

\* ... and outside it: the step is emitted.
JobEmits ==
  /\ \E j \in jobs : /\ j.step = "emit" /\ out' = [by |-> j.id, value |-> j.held]
                     /\ Become(j, [j EXCEPT !.step = "check", !.held = NoValue])
  /\ UNCHANGED <<newest, calling, value, ending, overrun>>

ResetStream ==
  /\ calling.step = "idle" /\ ending = "no" /\ value # NoValue /\ value' = NoValue
  /\ UNCHANGED <<jobs, newest, calling, out, ending, overrun>>

\* cleanup cancels what is registered, a job that is not started yet too.
CleanupJobs ==
  /\ ending = "no" /\ ending' = "stop"
  /\ jobs' = Cancelled({newest}) /\ newest' = 0
  /\ UNCHANGED <<calling, value, out, overrun>>

\* It joins the threads that run.
CleanupEnds ==
  /\ ending = "stop" /\ ending' = "done"
  /\ overrun' = (overrun \/ \E j \in jobs : j.step # "new")
  /\ UNCHANGED <<jobs, newest, calling, value, out>>

InterpolationNext ==
  \/ Interpolate \/ CancelPrevious \/ StartJob \/ JobEnds \/ JobChecks \/ JobSteps \/ JobEmits
  \/ ResetStream \/ CleanupJobs \/ CleanupEnds

InterpolationSpec == InterpolationInit /\ [][InterpolationNext]_iVars

-----------------------------------------------------------------------------
\* Unless a join gave up on one, a single job steps at a time: the newest,
\* once its call returned, and none after the cleanup.  So the last emitted
\* step is the stream's value, whatever the emits are delayed by.
OneJobAtATime ==
  ~overrun =>
    /\ Cardinality({j \in jobs : j.step # "new"}) <= 1
    /\ calling.step = "idle" => \A j \in jobs : j.step # "new" => j.id = calling.id
    /\ ending = "done" => \A j \in jobs : j.step \notin {"step", "emit"}
    /\ value # NoValue /\ out.value # value => \E j \in jobs : j.step = "emit"
=============================================================================
