----------------------------- MODULE TaskRunner -----------------------------
(***************************************************************************)
(* The runner that executes one subprocess per task, one task per device,  *)
(* with a timeout (python/aitemplate/backend/task_runner.py), as the       *)
(* profilers of normalisation, convolution and selection operators use it  *)
(* (Runner, process_task and process_return of profiler_runner.py).        *)
(*                                                                         *)
(* join sweeps over the queue again and again: it starts a task when a     *)
(* device is idle, and polls the tasks that run.  The processes end, write *)
(* what they measured, or hang; time passes in ticks.                      *)
(***************************************************************************)
EXTENDS Profilers

CONSTANTS
  Indices,      \* the idx of tasks: names of kernel configurations, numbered
                \* in alphabetical order
  Timeout       \* timeout of BaseRunner, in ticks

ASSUME RunnerAssumption ==
  /\ Indices \subseteq Nat \ {0}
  /\ Timeout \in Nat

Nothing == [op |-> 0, duration |-> 0]      \* ProfileResult("", 0, 0)
NoRet   == [op |-> -1, duration |-> -1]    \* _ret = None

\* seen is the age a task had when time.time() was read for the current sweep.
Task == [idx : Indices, dev : Devices \cup {NoDevice},
         proc : {"none", "running", "exited", "killed"}, out : Outputs \cup {NoOutput},
         age : 0 .. Timeout + 1, seen : 0 .. Timeout + 1,
         finished : BOOLEAN, failed : BOOLEAN]

\* What pull returns: an idx, and the op_config and duration of its ProfileResult.
Result == [idx : Indices, ret : [op : Indices \cup {0}, duration : Durations \cup {Silent}]]

VARIABLES
  devices,        \* the devices of this runner, in the order of _dev_stats
  busy,           \* _dev_stats
  queue,          \* _queue
  finishedTasks,  \* _finished_tasks
  runner,         \* "ready", "joining", "pulling" or "pulled"
  at,             \* position of the sweep or of pull; 0 between two sweeps
  allFinished,
  results         \* what pull has collected: idx, op_config and duration

taskVars == <<devices, busy, queue, finishedTasks, runner, at, allFinished, results>>

NewTask(idx) == [idx |-> idx, dev |-> NoDevice, proc |-> "none", out |-> NoOutput,
                 age |-> 0, seen |-> 0, finished |-> FALSE, failed |-> FALSE]

NewRunner(devs) ==
  /\ devices' = devs
  /\ busy' = [d \in Devices |-> FALSE]
  /\ queue' = <<>> /\ finishedTasks' = {} /\ results' = <<>>
  /\ runner' = "ready" /\ at' = 0 /\ allFinished' = TRUE

----------------------------------------------------------------------------
(* DeviceFarm                                                              *)

IdlePositionsAny == DOMAIN devices    \* mutant: whatever _dev_stats says

IdlePositions == {i \in DOMAIN devices : ~busy[devices[i]]}

\* next_idle_dev: the loop runs on, so the last idle device is returned.  When
\* there is none the code marks the key None, which no task ever has.
IsNextIdle(i) == i \in IdlePositions /\ \A j \in IdlePositions : j <= i

----------------------------------------------------------------------------
(* BaseRunner.join                                                         *)

\* The operators push all their candidates, then they call join.
PushAndJoin(idxs) ==
  /\ runner = "ready"
  /\ queue' = [i \in DOMAIN idxs |-> NewTask(idxs[i])]
  /\ runner' = "joining"
  /\ UNCHANGED <<devices, busy, finishedTasks, at, allFinished, results>>

\* current_time = time.time()
StartSweep ==
  /\ runner = "joining" /\ at = 0
  /\ queue' = [i \in DOMAIN queue |-> [queue[i] EXCEPT !.seen = queue[i].age]]
  /\ at' = 1 /\ allFinished' = TRUE
  /\ UNCHANGED <<devices, busy, finishedTasks, runner, results>>

Visiting == runner = "joining" /\ at \in DOMAIN queue

\* all_finished looks at the task before it is polled.
NextTask ==
  /\ at' = at + 1
  /\ allFinished' = (allFinished /\ queue[at].finished)
  /\ UNCHANGED <<devices, runner, results>>

SkipTask ==
  /\ Visiting
  /\ \/ queue[at].idx \in finishedTasks
     \/ queue[at].proc = "none" /\ IdlePositions = {}
  /\ NextTask /\ UNCHANGED <<busy, queue, finishedTasks>>

StartTask ==
  /\ Visiting
  /\ queue[at].idx \notin finishedTasks
  /\ queue[at].proc = "none"
  /\ \E i \in DOMAIN devices :
       /\ IsNextIdle(i)
       /\ busy' = [busy EXCEPT ![devices[i]] = TRUE]
       /\ queue' = [queue EXCEPT ![at].dev = devices[i], ![at].proc = "running"]
  /\ NextTask /\ UNCHANGED finishedTasks

Polled ==
  /\ Visiting
  /\ queue[at].idx \notin finishedTasks
  /\ queue[at].proc # "none"

\* The task gives its device back (reset_dev_state).
TaskEnds ==
  /\ busy' = [busy EXCEPT ![queue[at].dev] = FALSE]
  /\ finishedTasks' = finishedTasks \cup {queue[at].idx}
  /\ NextTask

\* Mutant: the task is killed but does not count as finished.
PollTimesOutUnfinished ==
  /\ Polled /\ queue[at].seen > Timeout
  /\ queue' = [queue EXCEPT ![at].proc = IF @ = "running" THEN "killed" ELSE @,
                            ![at].failed = TRUE]
  /\ TaskEnds

PollTimesOut ==
  /\ Polled /\ queue[at].seen > Timeout
  /\ queue' = [queue EXCEPT ![at].proc = IF @ = "running" THEN "killed" ELSE @,
                            ![at].finished = TRUE, ![at].failed = TRUE]
  /\ TaskEnds

PollEnded ==
  /\ Polled /\ queue[at].seen <= Timeout /\ queue[at].proc = "exited"
  /\ queue' = [queue EXCEPT ![at].finished = TRUE]
  /\ TaskEnds

PollRunning ==
  /\ Polled /\ queue[at].seen <= Timeout /\ queue[at].proc = "running"
  /\ NextTask /\ UNCHANGED <<busy, queue, finishedTasks>>

EndSweep ==
  /\ runner = "joining" /\ at > Len(queue)
  /\ IF allFinished THEN runner' = "pulling" /\ at' = 1
                    ELSE at' = 0 /\ UNCHANGED runner
  /\ UNCHANGED <<devices, busy, queue, finishedTasks, allFinished, results>>

----------------------------------------------------------------------------
(* BaseRunner.pull                                                         *)

\* Mutant: the output of a task that was killed is looked at.
RetOfKilled(task) ==
  IF task.out = Stderr THEN NoRet
  ELSE IF task.out = Silent THEN Nothing
  ELSE [op |-> task.idx, duration |-> task.out]

\* process_task and extract_profile_result: a profiler that failed with a
\* message has no result; one that printed nothing has the result Nothing.
Ret(task) ==
  IF task.failed \/ task.out = Stderr THEN NoRet
  ELSE IF task.out = Silent THEN Nothing
  ELSE [op |-> task.idx, duration |-> task.out]

PullTask ==
  /\ runner = "pulling" /\ at \in DOMAIN queue
  /\ results' = IF queue[at].finished /\ Ret(queue[at]) # NoRet
                THEN Append(results, [idx |-> queue[at].idx, ret |-> Ret(queue[at])])
                ELSE results
  /\ at' = at + 1
  /\ UNCHANGED <<devices, busy, queue, finishedTasks, runner, allFinished>>

\* reset, and pull returns.
PullReturns ==
  /\ runner = "pulling" /\ at > Len(queue)
  /\ busy' = [d \in Devices |-> FALSE]
  /\ queue' = <<>> /\ finishedTasks' = {}
  /\ runner' = "pulled" /\ at' = 0
  /\ UNCHANGED <<devices, allFinished, results>>

----------------------------------------------------------------------------
(* The processes and the clock                                             *)

Exit(i, out) ==
  /\ queue[i].proc = "running"
  /\ queue' = [queue EXCEPT ![i].proc = "exited", ![i].out = out]
  /\ UNCHANGED <<devices, busy, finishedTasks, runner, at, allFinished, results>>

\* The age of a task is counted until it is past the timeout.
Tick ==
  /\ \E i \in DOMAIN queue : queue[i].proc # "none" /\ ~queue[i].finished
                             /\ queue[i].age <= Timeout
  /\ queue' = [i \in DOMAIN queue |->
                 IF queue[i].proc # "none" /\ ~queue[i].finished /\ queue[i].age <= Timeout
                 THEN [queue[i] EXCEPT !.age = @ + 1] ELSE queue[i]]
  /\ UNCHANGED <<devices, busy, finishedTasks, runner, at, allFinished, results>>

\* What join and pull do, one step after the other.
RunnerStep == \/ StartSweep \/ SkipTask \/ StartTask \/ PollTimesOut \/ PollEnded
              \/ PollRunning \/ EndSweep \/ PullTask \/ PullReturns

ProcessStep == \E i \in DOMAIN queue, out \in Outputs : Exit(i, out)

----------------------------------------------------------------------------
(* min(result, key=itemgetter(1)), the choice of the operators: tuples are *)
(* compared, so the name of the kernel comes before its running time.      *)

Before(r, s) == \/ r.op < s.op
                \/ r.op = s.op /\ r.duration < s.duration

Chosen == LET first == CHOOSE i \in DOMAIN results :
                         \A j \in DOMAIN results :
                           ~Before(results[j].ret, results[i].ret)
                           /\ (j < i => Before(results[i].ret, results[j].ret))
          IN results[first]

----------------------------------------------------------------------------
TaskTypeOK ==
  /\ \A i \in DOMAIN devices : devices[i] \in Devices
  /\ busy \in [Devices -> BOOLEAN]
  /\ queue \in Seq(Task)
  /\ finishedTasks \subseteq Indices
  /\ runner \in {"ready", "joining", "pulling", "pulled"}
  /\ at \in 0 .. Len(queue) + 1
  /\ allFinished \in BOOLEAN
  /\ results \in Seq(Result)

\* No two tasks that have been started and not yet been polled to their end
\* have one device, so no two profilers measure on it at the same time (except
\* for what a killed process still does).
OneTaskPerDevice ==
  \A i, j \in DOMAIN queue :
    /\ i # j
    /\ queue[i].proc # "none" /\ ~queue[i].finished
    /\ queue[j].proc # "none" /\ ~queue[j].finished
    => queue[i].dev # queue[j].dev
=============================================================================
