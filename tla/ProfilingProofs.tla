-------------------------- MODULE ProfilingProofs --------------------------
(***************************************************************************)
(* Proofs about profiling, for every number of devices, graphs, kernels    *)
(* and attempts: no device is measured on twice at a time, by either       *)
(* runner, and nothing is chosen before every result is there; the types   *)
(* of everything; a kernel was measured for the workload that it is chosen *)
(* for, be it in this compilation or in an earlier one; it is the fastest  *)
(* when there is one device; and, when a GEMM has one workload, split_k is *)
(* that of its kernel, and it has one unless all profilers failed.         *)
(***************************************************************************)
EXTENDS Profiling, Recursion, FiniteSets, FiniteSetTheorems, SequenceTheorems, TLAPS

Started(i) == queue[i].proc # "none" /\ ~queue[i].finished

\* A task that has finished in time has exited and left an output.
OutputKnown(task) ==
  /\ task.proc = "exited" => task.out \in Outputs
  /\ task.finished => task.failed \/ task.proc = "exited"

\* Unless a profiler ends silently, a result is a time that it printed.
Printed(result) == Silent \notin Faults => result.ret.duration \in Durations

\* Of the runner of tasks: a task that is started and not finished has a device that
\* is marked busy, and its own; what is finished is known by its index.
TaskInv ==
  /\ TaskTypeOK
  /\ devices \in Seq(Devices)
  /\ \A i \in DOMAIN queue : Started(i) => queue[i].dev \in Devices /\ busy[queue[i].dev]
  /\ \A i \in DOMAIN queue : queue[i].finished => queue[i].idx \in finishedTasks
  /\ OneTaskPerDevice
  /\ runner = "ready" => at = 0
  /\ \A i \in DOMAIN queue : OutputKnown(queue[i])
  /\ \A i \in DOMAIN results : Printed(results[i])

\* What a concatenation consists of.
LEMMA Pushed ==
  ASSUME NEW S, NEW s \in Seq(S), NEW t \in Seq(S)
  PROVE  /\ s \o t \in Seq(S) /\ Len(s \o t) = Len(s) + Len(t)
         /\ \A i \in 1 .. Len(s) : (s \o t)[i] = s[i]
         /\ \A i \in 1 .. Len(s) + Len(t) : i > Len(s) => (s \o t)[i] = t[i - Len(s)]
<1>1. s \o t \in Seq(S) /\ Len(s \o t) = Len(s) + Len(t)
  OBVIOUS
<1>2. ASSUME NEW i \in 1 .. Len(s) PROVE (s \o t)[i] = s[i]
  BY LenProperties
<1>3. ASSUME NEW i \in 1 .. Len(s) + Len(t), i > Len(s) PROVE (s \o t)[i] = t[i - Len(s)]
  BY <1>3, LenProperties
<1>4. QED
  BY <1>1, <1>2, <1>3

USE RunnerAssumption, ProfilersAssumption, PoolAssumption

----------------------------------------------------------------------------
\* Initially there are no tasks.
LEMMA TaskInit == Init => TaskInv
  BY EmptySeq DEF Init, TaskInv, OutputKnown, Printed, TaskTypeOK, OneTaskPerDevice, Started

\* A new runner has no tasks.
LEMMA NewRunnerKeeps ==
  ASSUME NEW devs \in Seq(Devices), NewRunner(devs)
  PROVE  TaskInv'
  BY EmptySeq, LenProperties DEF NewRunner, TaskInv, OutputKnown, Printed, TaskTypeOK, OneTaskPerDevice, Started

\* A task that ends frees its own device only.
LEMMA EndKeeps ==
  ASSUME TaskInv, Polled, TaskEnds, NEW task \in Task,
         queue' = [queue EXCEPT ![at] = task],
         task.finished, task.idx = queue[at].idx, OutputKnown(task)
  PROVE  TaskInv'
<1> USE DEF TaskInv, TaskTypeOK
<1>1. at \in DOMAIN queue /\ queue[at].proc # "none" /\ queue[at] \in Task /\ ~queue[at].finished
  BY DEF Polled, Visiting
<1>2. queue' \in Seq(Task) /\ Len(queue') = Len(queue) /\ DOMAIN queue' = DOMAIN queue
      /\ queue'[at] = task /\ \A i \in DOMAIN queue : i # at => queue'[i] = queue[i]
  BY <1>1, ExceptSeq, LenProperties
<1>3. TaskTypeOK'
  <2>1. queue[at].idx \in Indices /\ queue[at].finished \in BOOLEAN
    BY <1>1 DEF Task
  <2>2. at \in 1 .. Len(queue) /\ Len(queue) \in Nat /\ runner = "joining"
    BY <1>1, LenProperties DEF Polled, Visiting
  <2>3. at' \in 0 .. Len(queue') + 1 /\ allFinished' \in BOOLEAN
    BY <1>2, <2>1, <2>2 DEF TaskEnds, NextTask
  <2>4. busy' \in [Devices -> BOOLEAN] /\ finishedTasks' \subseteq Indices
    BY <2>1 DEF TaskEnds
  <2>5. QED
    BY <1>2, <2>2, <2>3, <2>4 DEF TaskEnds, NextTask
<1>4. ASSUME NEW i \in DOMAIN queue', Started(i)'
      PROVE  i # at /\ Started(i) /\ queue'[i] = queue[i]
  BY <1>2, <1>4 DEF Started
<1>5. ASSUME NEW i \in DOMAIN queue', Started(i)'
      PROVE  queue'[i].dev \in Devices /\ busy'[queue'[i].dev]
  <2>1. i \in DOMAIN queue /\ i # at /\ Started(i) /\ queue'[i] = queue[i]
    BY <1>2, <1>4, <1>5
  <2>2. queue[i].dev # queue[at].dev
    BY <2>1, <1>1 DEF OneTaskPerDevice, Started
  <2>3. QED
    BY <2>1, <2>2 DEF TaskEnds
<1>6. OneTaskPerDevice'
  BY <1>2, <1>4 DEF OneTaskPerDevice, Started
<1>7. ASSUME NEW i \in DOMAIN queue', queue'[i].finished
      PROVE  queue'[i].idx \in finishedTasks'
  BY <1>2, <1>7 DEF TaskEnds
<1>8. devices' \in Seq(Devices)
  BY DEF TaskEnds, NextTask
<1>9. /\ \A i \in DOMAIN queue' : OutputKnown(queue'[i])
      /\ results' = results /\ runner' = "joining"
  BY <1>2 DEF TaskEnds, NextTask, Polled, Visiting
<1>10. QED
  BY <1>3, <1>5, <1>6, <1>7, <1>8, <1>9

\* What a task has, whether it is started and whether it is finished: a step that
\* changes nothing of this keeps the invariant.
LEMMA SameTasks ==
  ASSUME TaskInv, queue' \in Seq(Task), Len(queue') = Len(queue),
         \A i \in DOMAIN queue :
           /\ queue'[i].idx = queue[i].idx /\ queue'[i].dev = queue[i].dev
           /\ queue'[i].finished = queue[i].finished
           /\ queue'[i].proc = "none" <=> queue[i].proc = "none"
           /\ OutputKnown(queue'[i]),
         UNCHANGED <<devices, busy, finishedTasks>>,
         runner' \in {"ready", "joining", "pulling", "pulled"},
         runner' = "ready" => at' = 0,
         at' \in 0 .. Len(queue) + 1, allFinished' \in BOOLEAN,
         results' \in Seq(Result), \A i \in DOMAIN results' : Printed(results'[i])
  PROVE  TaskInv'
<1>1. DOMAIN queue' = DOMAIN queue
  BY LenProperties DEF TaskInv, TaskTypeOK
<1>2. \A i \in DOMAIN queue : Started(i)' <=> Started(i)
  BY DEF Started
<1>3. TaskTypeOK'
  BY DEF TaskInv, TaskTypeOK
<1>4. OneTaskPerDevice'
  <2>1. \A i, j \in DOMAIN queue : i # j /\ Started(i) /\ Started(j) => queue[i].dev # queue[j].dev
    BY DEF TaskInv, OneTaskPerDevice, Started
  <2>2. \A i, j \in DOMAIN queue' :
          i # j /\ Started(i)' /\ Started(j)' => queue'[i].dev # queue'[j].dev
    BY <1>1, <1>2, <2>1
  <2>3. QED
    BY <2>2 DEF OneTaskPerDevice, Started
<1>5. \A i \in DOMAIN queue' : Started(i)' => queue'[i].dev \in Devices /\ busy'[queue'[i].dev]
  BY <1>1, <1>2 DEF TaskInv
<1>6. \A i \in DOMAIN queue' : queue'[i].finished => queue'[i].idx \in finishedTasks'
  BY <1>1 DEF TaskInv
<1>7. QED
  BY <1>1, <1>3, <1>4, <1>5, <1>6 DEF TaskInv

\* A function on 1 .. n is a sequence.
LEMMA FunctionIsSeq ==
  ASSUME NEW S, NEW n \in Nat, NEW f \in [1 .. n -> S]
  PROVE  f \in Seq(S) /\ Len(f) = n
<1>1. f \in Seq(S)
  BY SeqDef
<1>2. QED
  BY <1>1, LenProperties

\* The types that the following lemmas use.
LEMMA TaskTypes ==
  ASSUME TaskInv
  PROVE  /\ queue \in Seq(Task) /\ Len(queue) \in Nat /\ DOMAIN queue = 1 .. Len(queue)
         /\ \A i \in DOMAIN queue : queue[i] \in Task
         /\ runner \in {"ready", "joining", "pulling", "pulled"}
         /\ at \in 0 .. Len(queue) + 1 /\ allFinished \in BOOLEAN
         /\ results \in Seq(Result) /\ \A i \in DOMAIN results : Printed(results[i])
         /\ \A i \in DOMAIN queue : OutputKnown(queue[i])
         /\ runner = "ready" => at = 0
         /\ busy \in [Devices -> BOOLEAN] /\ finishedTasks \subseteq Indices
  BY LenProperties DEF TaskInv, TaskTypeOK

\* What the clock changes in a task.
LEMMA Clocked ==
  ASSUME NEW task \in Task, NEW t \in 0 .. Timeout + 1, NEW new,
         new = [task EXCEPT !.seen = t] \/ new = [task EXCEPT !.age = t]
  PROVE  /\ new \in Task /\ new.idx = task.idx /\ new.dev = task.dev
         /\ new.finished = task.finished /\ new.proc = task.proc
         /\ OutputKnown(task) => OutputKnown(new)
<1>1. new \in Task
  BY DEF Task
<1>2. /\ new.idx = task.idx /\ new.dev = task.dev
      /\ new.finished = task.finished /\ new.proc = task.proc
  BY DEF Task
<1>3. new.failed = task.failed /\ new.out = task.out
  BY DEF Task
<1>4. QED
  BY <1>1, <1>2, <1>3 DEF OutputKnown

\* A sweep only reads the clock.
LEMMA StartSweepKeeps == ASSUME TaskInv, StartSweep PROVE TaskInv'
<1>1. \A i \in DOMAIN queue : queue[i] \in Task /\ queue[i].age \in 0 .. Timeout + 1
  BY TaskTypes DEF Task
<1>2. queue' \in [1 .. Len(queue) -> Task]
      /\ \A i \in DOMAIN queue : queue'[i] = [queue[i] EXCEPT !.seen = queue[i].age]
  BY <1>1, Clocked, TaskTypes DEF StartSweep
<1>3. ASSUME NEW i \in DOMAIN queue
      PROVE  /\ queue'[i].idx = queue[i].idx /\ queue'[i].dev = queue[i].dev
             /\ queue'[i].finished = queue[i].finished /\ queue'[i].proc = queue[i].proc
             /\ OutputKnown(queue'[i])
  <2> DEFINE t == queue[i].age
  <2>1. queue'[i] = [queue[i] EXCEPT !.seen = t] /\ t \in 0 .. Timeout + 1 /\ queue[i] \in Task
      /\ OutputKnown(queue[i])
    BY <1>1, <1>2, TaskTypes
  <2> HIDE DEF t
  <2>2. QED
    BY <2>1, Clocked
<1>4. queue' \in Seq(Task) /\ Len(queue') = Len(queue)
  BY <1>2, FunctionIsSeq, TaskTypes
<1>5. at' \in 0 .. Len(queue) + 1 /\ allFinished' \in BOOLEAN
      /\ UNCHANGED <<devices, busy, finishedTasks, runner, results>> /\ runner = "joining"
  BY TaskTypes DEF StartSweep
<1>6. QED
  BY <1>3, <1>4, <1>5, SameTasks, TaskTypes

\* Time passes.
LEMMA TickKeeps == ASSUME TaskInv, Tick PROVE TaskInv'
<1>1. ASSUME NEW i \in DOMAIN queue
      PROVE  /\ queue'[i] \in Task
             /\ queue'[i].idx = queue[i].idx /\ queue'[i].dev = queue[i].dev
             /\ queue'[i].finished = queue[i].finished /\ queue'[i].proc = queue[i].proc
             /\ OutputKnown(queue'[i])
  <2>1. queue[i] \in Task /\ OutputKnown(queue[i])
    BY TaskTypes
  <2>2. CASE queue'[i] = queue[i]
    BY <2>1, <2>2
  <2>3. CASE queue'[i] = [queue[i] EXCEPT !.age = @ + 1] /\ queue[i].age <= Timeout
    <3>1. queue[i].age + 1 \in 0 .. Timeout + 1
      BY <2>1, <2>3 DEF Task
    <3> DEFINE t == queue[i].age + 1
    <3>2. queue'[i] = [queue[i] EXCEPT !.age = t]
      BY <2>3
    <3> HIDE DEF t
    <3>3. QED
      BY <2>1, <3>1, <3>2, Clocked DEF t
  <2>4. QED
    BY <2>2, <2>3 DEF Tick
<1>2. queue' \in [1 .. Len(queue) -> Task]
  BY <1>1, TaskTypes DEF Tick
<1>3. queue' \in Seq(Task) /\ Len(queue') = Len(queue)
  BY <1>2, FunctionIsSeq, TaskTypes
<1>4. UNCHANGED <<devices, busy, finishedTasks, runner, at, allFinished, results>>
  BY DEF Tick
<1>5. QED
  BY <1>1, <1>3, <1>4, SameTasks, TaskTypes

\* A process ends.
LEMMA ExitKeeps ==
  ASSUME TaskInv, NEW i \in DOMAIN queue, NEW out \in Outputs, Exit(i, out)
  PROVE  TaskInv'
<1> USE DEF TaskInv, TaskTypeOK
<1> DEFINE task == [queue[i] EXCEPT !.proc = "exited", !.out = out]
<1>1. queue[i] \in Task /\ queue[i].proc = "running"
  BY DEF Exit
<1>2. task \in Task /\ task.idx = queue[i].idx /\ task.dev = queue[i].dev
      /\ task.finished = queue[i].finished /\ task.proc = "exited" /\ task.out = out
  BY <1>1 DEF Task
<1>3. queue' = [queue EXCEPT ![i] = task]
  BY DEF Exit
<1> HIDE DEF task
<1>4. queue' \in Seq(Task) /\ Len(queue') = Len(queue)
      /\ \A j \in DOMAIN queue : queue'[j] = IF j = i THEN task ELSE queue[j]
  BY <1>2, <1>3, ExceptSeq, LenProperties
<1>5. \A j \in DOMAIN queue :
        /\ queue'[j].idx = queue[j].idx /\ queue'[j].dev = queue[j].dev
        /\ queue'[j].finished = queue[j].finished
        /\ queue'[j].proc = "none" <=> queue[j].proc = "none"
        /\ OutputKnown(queue'[j])
  BY <1>1, <1>2, <1>4 DEF OutputKnown
<1>6. QED
  BY <1>4, <1>5, SameTasks DEF Exit

\* A task is started on a device that is not marked busy.
LEMMA StartTaskKeeps == ASSUME TaskInv, StartTask PROVE TaskInv'
<1> USE DEF TaskInv, TaskTypeOK
<1>1. PICK k \in DOMAIN devices :
        /\ IsNextIdle(k)
        /\ busy' = [busy EXCEPT ![devices[k]] = TRUE]
        /\ queue' = [queue EXCEPT ![at].dev = devices[k], ![at].proc = "running"]
  BY DEF StartTask
<1> DEFINE dev == devices[k]
           task == [queue[at] EXCEPT !.dev = dev, !.proc = "running"]
<1>2. dev \in Devices /\ ~busy[dev]
  BY <1>1 DEF IsNextIdle, IdlePositions
<1>3. /\ at \in DOMAIN queue /\ queue[at] \in Task /\ queue[at].idx \notin finishedTasks
      /\ queue[at].proc = "none" /\ runner = "joining"
  BY DEF StartTask, Visiting
<1>4. task \in Task /\ task.idx = queue[at].idx /\ task.dev = dev
      /\ task.finished = queue[at].finished /\ task.proc = "running"
  BY <1>2, <1>3 DEF Task
<1>5. queue' = [queue EXCEPT ![at] = task]
  BY <1>1
<1> HIDE DEF task, dev
<1>6. queue' \in Seq(Task) /\ Len(queue') = Len(queue) /\ DOMAIN queue' = DOMAIN queue
      /\ \A j \in DOMAIN queue : queue'[j] = IF j = at THEN task ELSE queue[j]
  BY <1>3, <1>4, <1>5, ExceptSeq, LenProperties
<1>7. busy' = [busy EXCEPT ![dev] = TRUE]
  BY <1>1 DEF dev
<1>8. \A j \in DOMAIN queue : j # at => (Started(j)' <=> Started(j)) /\ queue'[j] = queue[j]
  BY <1>6 DEF Started
<1>9. \A j \in DOMAIN queue : j # at /\ Started(j) => queue[j].dev # dev
  BY <1>2
<1>10. TaskTypeOK'
  <2>1. at' \in 0 .. Len(queue') + 1 /\ allFinished' \in BOOLEAN
    <3>1. queue[at].finished \in BOOLEAN
      BY <1>3 DEF Task
    <3>2. QED
      BY <3>1, <1>3, <1>6, LenProperties DEF StartTask, NextTask
  <2>2. QED
    BY <2>1, <1>3, <1>6, <1>7 DEF StartTask, NextTask
<1>11. ASSUME NEW i \in DOMAIN queue', Started(i)'
       PROVE  queue'[i].dev \in Devices /\ busy'[queue'[i].dev]
  BY <1>2, <1>4, <1>6, <1>7, <1>8, <1>11
<1>12. OneTaskPerDevice'
  BY <1>4, <1>6, <1>8, <1>9 DEF OneTaskPerDevice, Started
<1>13. \A i \in DOMAIN queue' : queue'[i].finished => queue'[i].idx \in finishedTasks'
  BY <1>3, <1>4, <1>6 DEF StartTask
<1>14. \A i \in DOMAIN queue' : OutputKnown(queue'[i])
  <2>1. ~queue[at].finished
    BY <1>3
  <2>2. QED
    BY <2>1, <1>4, <1>6 DEF OutputKnown
<1>15. QED
  BY <1>3, <1>10, <1>11, <1>12, <1>13, <1>14 DEF StartTask, NextTask

\* A task that is polled to its end, in time or not.
LEMMA PollKeeps == ASSUME TaskInv, PollEnded \/ PollTimesOut PROVE TaskInv'
<1>1. /\ Polled /\ TaskEnds /\ at \in DOMAIN queue /\ queue[at] \in Task
  BY TaskTypes DEF PollEnded, PollTimesOut, Polled, Visiting
<1>2. CASE PollEnded
  <2> DEFINE task == [queue[at] EXCEPT !.finished = TRUE]
  <2>1. task \in Task /\ task.finished /\ task.idx = queue[at].idx
        /\ task.proc = "exited" /\ task.out = queue[at].out
    BY <1>1, <1>2 DEF Task, PollEnded
  <2>2. OutputKnown(task)
    BY <1>1, <1>2, <2>1, TaskTypes DEF OutputKnown, PollEnded
  <2>3. queue' = [queue EXCEPT ![at] = task]
    BY <1>2 DEF PollEnded
  <2> HIDE DEF task
  <2>4. QED
    BY <1>1, <2>1, <2>2, <2>3, EndKeeps
<1>3. CASE PollTimesOut
  <2> DEFINE proc == IF queue[at].proc = "running" THEN "killed" ELSE queue[at].proc
             task == [queue[at] EXCEPT !.proc = proc, !.finished = TRUE, !.failed = TRUE]
  <2>1. proc \in {"none", "running", "exited", "killed"}
    BY <1>1 DEF Task
  <2>2. queue' = [queue EXCEPT ![at] = task]
    BY <1>3 DEF PollTimesOut
  <2>3. proc = "exited" => queue[at].out \in Outputs
    BY <1>1, TaskTypes DEF OutputKnown
  <2> HIDE DEF proc
  <2>4. /\ task \in Task /\ task.finished /\ task.idx = queue[at].idx
        /\ task.proc = proc /\ task.out = queue[at].out /\ task.failed
    BY <1>1, <2>1 DEF Task
  <2> HIDE DEF task
  <2>5. OutputKnown(task)
    BY <2>3, <2>4 DEF OutputKnown
  <2>6. QED
    BY <1>1, <2>2, <2>4, <2>5, EndKeeps
<1>4. QED
  BY <1>2, <1>3

\* The candidates that are pushed are not started.
LEMMA PushKeeps == ASSUME TaskInv, PushAndJoin(Configs) PROVE TaskInv'
<1>1. \A i \in DOMAIN Configs : NewTask(Configs[i]) \in Task
  <2>1. ASSUME NEW idx \in Indices PROVE NewTask(idx) \in Task
    BY DEF NewTask, Task
  <2>2. QED
    BY <2>1, LenProperties, ProfilingAssumption
<1>2. queue' \in [1 .. Len(Configs) -> Task] /\ Len(Configs) \in Nat
  BY <1>1, LenProperties, ProfilingAssumption DEF PushAndJoin
<1>3. queue' \in Seq(Task) /\ Len(queue') = Len(Configs)
  BY <1>2, FunctionIsSeq
<1>4. \A i \in DOMAIN queue' :
        queue'[i].proc = "none" /\ ~queue'[i].finished /\ OutputKnown(queue'[i])
  BY DEF PushAndJoin, NewTask, OutputKnown
<1>5. at \in 0 .. Len(queue') + 1
  BY <1>2, <1>3, TaskTypes DEF PushAndJoin
<1>6. QED
  BY <1>3, <1>4, <1>5 DEF PushAndJoin, TaskInv, TaskTypeOK, OneTaskPerDevice, Started

\* The steps of join and pull that leave the queue alone, and the end of pull.
LEMMA QuietKeeps ==
  ASSUME TaskInv, SkipTask \/ PollRunning \/ EndSweep \/ PullTask
  PROVE  TaskInv'
<1>1. UNCHANGED <<devices, busy, queue, finishedTasks>>
  BY DEF SkipTask, PollRunning, NextTask, EndSweep, PullTask
<1>2. /\ runner' \in {"ready", "joining", "pulling", "pulled"}
      /\ at' \in 0 .. Len(queue) + 1 /\ allFinished' \in BOOLEAN
  <2>1. CASE SkipTask \/ PollRunning
    <3>1. at \in 1 .. Len(queue) /\ queue[at].finished \in BOOLEAN
      BY <2>1, TaskTypes DEF SkipTask, PollRunning, Polled, Visiting, Task
    <3>2. QED
      BY <2>1, <3>1, TaskTypes DEF SkipTask, PollRunning, NextTask
  <2>2. CASE EndSweep
    BY <2>2, TaskTypes DEF EndSweep
  <2>3. CASE PullTask
    BY <2>3, TaskTypes DEF PullTask
  <2>4. QED
    BY <2>1, <2>2, <2>3
<1>3. runner' # "ready"
  BY DEF SkipTask, PollRunning, Polled, Visiting, NextTask, EndSweep, PullTask
<1>4. results' \in Seq(Result) /\ \A i \in DOMAIN results' : Printed(results'[i])
  <2>1. CASE results' = results
    BY <2>1, TaskTypes
  <2>2. CASE results' # results
    <3>1. /\ PullTask /\ at \in DOMAIN queue /\ queue[at].finished /\ Ret(queue[at]) # NoRet
          /\ results' = Append(results, [idx |-> queue[at].idx, ret |-> Ret(queue[at])])
      BY <2>2 DEF SkipTask, PollRunning, NextTask, EndSweep, PullTask
    <3>2. /\ queue[at].idx \in Indices /\ ~queue[at].failed /\ queue[at].out # Stderr
          /\ queue[at].out \in Outputs
      BY <3>1, TaskTypes DEF Ret, OutputKnown, Task
    <3>3. queue[at].out \in Durations \/ (queue[at].out = Silent /\ Silent \in Faults)
      BY <3>2 DEF Outputs
    <3>4. Ret(queue[at]) = IF queue[at].out = Silent THEN Nothing
                           ELSE [op |-> queue[at].idx, duration |-> queue[at].out]
      BY <3>2 DEF Ret
    <3> DEFINE ret == Ret(queue[at])
               result == [idx |-> queue[at].idx, ret |-> ret]
    <3>5. /\ ret \in [op : Indices \cup {0}, duration : Durations \cup {Silent}]
          /\ Silent \notin Faults => ret.duration \in Durations
      BY <3>2, <3>3, <3>4 DEF Nothing, Silent
    <3> HIDE DEF ret
    <3>6. result \in Result /\ Printed(result)
      BY <3>2, <3>5 DEF Result, Printed
    <3>7. results' = Append(results, result)
      BY <3>1 DEF ret
    <3> HIDE DEF result
    <3>8. QED
      BY <3>6, <3>7, TaskTypes, AppendProperties, LenProperties
  <2>3. QED
    BY <2>1, <2>2
<1>5. QED
  BY <1>1, <1>2, <1>3, <1>4, SameTasks, TaskTypes

\* pull ends with a reset.
LEMMA PullReturnsKeeps == ASSUME TaskInv, PullReturns PROVE TaskInv'
<1>1. queue' \in Seq(Task) /\ Len(queue') = 0 /\ DOMAIN queue' = {}
  BY EmptySeq, LenProperties DEF PullReturns
<1>2. /\ busy' \in [Devices -> BOOLEAN] /\ finishedTasks' = {}
      /\ at' = 0 /\ runner' = "pulled"
      /\ UNCHANGED <<devices, allFinished, results>>
  BY DEF PullReturns
<1>3. QED
  BY <1>1, <1>2 DEF TaskInv, TaskTypeOK, OneTaskPerDevice

\* Every step of profiling keeps the invariant of the runner of tasks.
LEMMA TaskStep == ASSUME TaskInv, [Next]_vars PROVE TaskInv'
<1>1. CASE UNCHANGED taskVars
  BY <1>1 DEF taskVars, TaskInv, TaskTypeOK, OneTaskPerDevice, Started
<1>2. ASSUME NEW devs \in Seq(Devices), NewRunner(devs) PROVE TaskInv'
  BY <1>2, NewRunnerKeeps
<1>3. <<>> \in Seq(Devices) /\ devices \in Seq(Devices)
  BY EmptySeq DEF TaskInv
<1>4. ASSUME NEW devs \in DeviceLists, StartCompile(devs) PROVE TaskInv'
  BY <1>2, <1>4, ProfilingAssumption DEF StartCompile
<1>5. CASE NormProfile
  BY <1>5, PushKeeps DEF NormProfile
<1>6. CASE NormRunner
  BY <1>6, StartSweepKeeps, StartTaskKeeps, PollKeeps, QuietKeeps, PullReturnsKeeps
     DEF NormRunner, RunnerStep
<1>7. CASE NormEnvironment
  BY <1>7, TickKeeps, ExitKeeps DEF NormEnvironment, ProcessStep
<1>8. CASE NormChoose
  BY <1>2, <1>3, <1>8 DEF NormChoose
<1>9. CASE EndProcess \/ Crash
  BY <1>2, <1>3, <1>9 DEF EndProcess, Crash, Forget
<1>10. ASSUME \/ NormCached \/ NormsDone \/ GemmCached \/ GemmProfile \/ GemmsDone
              \/ (\E w \in DOMAIN workers : GemmWorker(w))
              \/ GemmJoin \/ GemmRaised \/ Postprocess \/ UNCHANGED vars
       PROVE  UNCHANGED taskVars
  BY <1>10 DEF NormCached, NormsDone, GemmCached, GemmProfile, GemmsDone, GemmWorker,
               GemmJoin, GemmRaised, Postprocess, vars
<1>11. QED
  BY <1>1, <1>4, <1>5, <1>6, <1>7, <1>8, <1>9, <1>10 DEF Next

\* The runner of tasks never starts a task on a device on which another one runs
\* (task_runner.py: next_idle_dev, reset_dev_state), however many devices, tasks,
\* timeouts and crashes there are.
THEOREM OneTask == Spec => []OneTaskPerDevice
<1>1. Init => TaskInv
  BY TaskInit
<1>2. TaskInv /\ [Next]_vars => TaskInv'
  BY TaskStep
<1>3. TaskInv => OneTaskPerDevice
  BY DEF TaskInv
<1>4. QED
  BY <1>1, <1>2, <1>3, PTL DEF Spec
----------------------------------------------------------------------------
(* The pool of GEMM profilers                                              *)

\* A device that a worker uses is a device, and nobody else has it.
DeviceInv ==
  /\ OneProfilerPerDevice
  /\ \A w \in DOMAIN workers : workers[w].at = "run" => workers[w].dev \in Devices

\* A worker that is not idle has a future of its own, which is done before its callback
\* runs.
StateAt(at_) == IF at_ \in {"get", "run"} THEN "running" ELSE "done"

FutureInv ==
  /\ \A w \in DOMAIN workers :
       /\ workers[w].at = "idle" <=> workers[w].future = NoFuture
       /\ workers[w].at # "idle" =>
            /\ workers[w].future \in DOMAIN futures
            /\ futures[workers[w].future].state = StateAt(workers[w].at)
  /\ \A v, w \in DOMAIN workers :
       v # w /\ workers[v].at # "idle" => workers[v].future # workers[w].future

\* The futures whose callbacks have put their item into _done_queue.
Signalled == {f \in DOMAIN futures :
                /\ futures[f].state = "done"
                /\ \A w \in DOMAIN workers : workers[w].future # f}

\* Every item stands for one of them, and join takes as many as there are futures.
Counted ==
  /\ joiner \in {"pushing", "waiting"} => doneQueue = Cardinality(Signalled)
  /\ joiner = "getting" => doneQueue + Len(futures) = Cardinality(Signalled) + toGet
  /\ joiner \in {"choosing", "joined"} => Signalled = DOMAIN futures

\* Nobody joins while jobs are still pushed, and these are of the graph.
PhaseInv ==
  /\ phase \in {"idle", "norms", "gemms"} => joiner = "pushing"
  /\ graph \in {Graphs[i] : i \in DOMAIN Graphs} \cup {EmptyGraph}
  /\ compiles \in Nat

PoolInv == PoolTypeOK /\ DeviceInv /\ FutureInv /\ Counted /\ PhaseInv

\* A pool is made without jobs.
LEMMA NewPoolKeeps ==
  ASSUME NEW devs \in Seq(Devices), \A i, j \in DOMAIN devs : i # j => devs[i] # devs[j],
         NewPool(devs)
  PROVE  PoolTypeOK' /\ DeviceInv' /\ FutureInv' /\ Counted'
<1>1. IdleWorker \in Worker /\ IdleWorker.at = "idle" /\ IdleWorker.future = NoFuture
  BY DEF IdleWorker, Worker, NoFuture
<1>2. PoolTypeOK'
  BY <1>1, EmptySeq DEF NewPool, PoolTypeOK
<1>3. DeviceInv'
  BY <1>1 DEF NewPool, DeviceInv, OneProfilerPerDevice
<1>4. FutureInv'
  BY <1>1 DEF NewPool, FutureInv
<1>5. Signalled' = {}
  BY DEF NewPool, Signalled
<1>6. Counted'
  BY <1>5, FS_EmptySet DEF NewPool, Counted
<1>7. QED
  BY <1>2, <1>3, <1>4, <1>6

\* What is signalled is finitely many.
LEMMA SignalledFinite ==
  ASSUME PoolTypeOK
  PROVE  /\ DOMAIN futures = 1 .. Len(futures) /\ Len(futures) \in Nat
         /\ IsFiniteSet(Signalled) /\ Cardinality(Signalled) \in Nat
         /\ Cardinality(Signalled) <= Len(futures)
         /\ Cardinality(Signalled) = Len(futures) => Signalled = DOMAIN futures
<1>1. DOMAIN futures = 1 .. Len(futures) /\ Len(futures) \in Nat
  BY LenProperties DEF PoolTypeOK
<1> DEFINE n == Len(futures)
           all == DOMAIN futures
<1>2. IsFiniteSet(all) /\ Cardinality(all) = n
  <2>1. n \in Nat /\ all = 1 .. n
    BY <1>1
  <2> HIDE DEF n, all
  <2>2. IsFiniteSet(1 .. n) /\ Cardinality(1 .. n) = IF 1 > n THEN 0 ELSE n - 1 + 1
    BY <2>1, FS_Interval
  <2>3. QED
    BY <2>1, <2>2
<1>3. Signalled \in SUBSET all
  BY DEF Signalled
<1> HIDE DEF all
<1>4. /\ IsFiniteSet(Signalled) /\ Cardinality(Signalled) <= Cardinality(all)
      /\ Cardinality(all) = Cardinality(Signalled) => all = Signalled
  BY <1>2, <1>3, FS_Subset
<1>5. Cardinality(Signalled) \in Nat
  BY <1>4, FS_CardinalityType
<1>6. QED
  BY <1>1, <1>2, <1>4, <1>5 DEF all

\* The step of a worker: its new future, if it has one, is pending or is the one it had.
LEMMA WorkerMoves ==
  ASSUME FutureInv, NEW w \in DOMAIN workers, NEW worker \in Worker,
         workers' = [workers EXCEPT ![w] = worker],
         DOMAIN futures' = DOMAIN futures,
         \A f \in DOMAIN futures :
           f # worker.future /\ f # workers[w].future => futures'[f] = futures[f],
         worker.at = "idle" <=> worker.future = NoFuture,
         worker.at # "idle" =>
           /\ worker.future \in DOMAIN futures
           /\ futures'[worker.future].state = StateAt(worker.at),
         worker.future # NoFuture =>
           worker.future = workers[w].future
           \/ (workers[w].at = "idle" /\ futures[worker.future].state = "pending"),
         NoFuture \notin DOMAIN futures
  PROVE  /\ FutureInv'
         /\ Signalled' = IF worker.future = NoFuture /\ workers[w].future # NoFuture
                            /\ futures'[workers[w].future].state = "done"
                         THEN Signalled \cup {workers[w].future} ELSE Signalled
         /\ workers[w].future \notin Signalled
<1>1. /\ DOMAIN workers' = DOMAIN workers /\ workers'[w] = worker
      /\ \A v \in DOMAIN workers : v # w => workers'[v] = workers[v]
  OBVIOUS
<1>2. ASSUME NEW v \in DOMAIN workers, v # w, workers[v].at # "idle"
      PROVE  workers[v].future # worker.future /\ workers[v].future # workers[w].future
  <2>1. workers[v].future \in DOMAIN futures /\ futures[workers[v].future].state # "pending"
        /\ workers[v].future # workers[w].future
    BY <1>2 DEF FutureInv, StateAt
  <2>2. QED
    BY <2>1
<1>3. ASSUME NEW v \in DOMAIN workers'
      PROVE  /\ workers'[v].at = "idle" <=> workers'[v].future = NoFuture
             /\ workers'[v].at # "idle" =>
                  /\ workers'[v].future \in DOMAIN futures'
                  /\ futures'[workers'[v].future].state = StateAt(workers'[v].at)
  <2>1. CASE v = w
    BY <1>1, <2>1
  <2>2. CASE v # w
    BY <1>1, <1>2, <2>2 DEF FutureInv
  <2>3. QED
    BY <2>1, <2>2
<1>4. ASSUME NEW u \in DOMAIN workers', NEW v \in DOMAIN workers', u # v, workers'[u].at # "idle"
      PROVE  workers'[u].future # workers'[v].future
  <2>1. CASE u # w /\ v # w
    BY <1>1, <1>4, <2>1 DEF FutureInv
  <2>2. CASE u # w /\ v = w
    BY <1>1, <1>2, <1>4, <2>2
  <2>3. CASE u = w
    BY <1>1, <1>2, <1>4, <2>3 DEF FutureInv
  <2>4. QED
    BY <2>1, <2>2, <2>3
<1>5. FutureInv'
  BY <1>3, <1>4 DEF FutureInv
<1>6. ASSUME NEW f \in DOMAIN futures, f # workers[w].future
      PROVE  f \in Signalled' <=> f \in Signalled
  <2>1. CASE f = worker.future
    <3>1. f \notin Signalled'
      BY <1>1, <2>1 DEF Signalled
    <3>2. f \notin Signalled
      BY <1>6, <2>1 DEF Signalled
    <3>3. QED
      BY <3>1, <3>2
  <2>2. CASE f # worker.future
    BY <1>1, <1>6, <2>2 DEF Signalled
  <2>3. QED
    BY <2>1, <2>2
<1>7. workers[w].future \notin Signalled
  BY DEF Signalled
<1>8. workers[w].future \in Signalled' <=>
        worker.future = NoFuture /\ workers[w].future # NoFuture
        /\ futures'[workers[w].future].state = "done"
  <2>1. CASE worker.future # NoFuture \/ workers[w].future = NoFuture
    <3>1. CASE worker.future = workers[w].future \/ workers[w].future = NoFuture
      BY <1>1, <3>1, <2>1 DEF Signalled
    <3>2. CASE worker.future # workers[w].future /\ workers[w].future # NoFuture
      BY <2>1, <3>2 DEF FutureInv
    <3>3. QED
      BY <3>1, <3>2
  <2>2. CASE worker.future = NoFuture /\ workers[w].future # NoFuture
    <3>1. \A v \in DOMAIN workers' : workers'[v].future # workers[w].future
      BY <1>1, <1>2, <2>2 DEF FutureInv
    <3>2. workers[w].future \in DOMAIN futures
      BY <2>2 DEF FutureInv
    <3>3. QED
      BY <2>2, <3>1, <3>2 DEF Signalled
  <2>3. QED
    BY <2>1, <2>2
<1>9. Signalled' \subseteq DOMAIN futures /\ Signalled \subseteq DOMAIN futures
  BY DEF Signalled
<1> DEFINE frees == worker.future = NoFuture /\ workers[w].future # NoFuture
                    /\ futures'[workers[w].future].state = "done"
<1>10. \A f : f \in Signalled' <=> f \in Signalled \/ (f = workers[w].future /\ frees)
  BY <1>6, <1>7, <1>8, <1>9
<1> HIDE DEF frees
<1>11. Signalled' = IF frees THEN Signalled \cup {workers[w].future} ELSE Signalled
  BY <1>10
<1>12. QED
  BY <1>5, <1>7, <1>11 DEF frees

Distinct(q) == \A i, j \in DOMAIN q : i # j => q[i] # q[j]
Holds(q, d) == \E i \in DOMAIN q : q[i] = d

\* A device comes back to the queue.
LEMMA PutBack ==
  ASSUME NEW q \in Seq(Devices), NEW d \in Devices, Distinct(q), ~Holds(q, d)
  PROVE  /\ Append(q, d) \in Seq(Devices) /\ Distinct(Append(q, d))
         /\ \A e : Holds(Append(q, d), e) <=> e = d \/ Holds(q, e)
<1> DEFINE r == Append(q, d)
           n == Len(q)
<1>1. n \in Nat /\ DOMAIN q = 1 .. n
  BY LenProperties
<1>2. /\ r \in Seq(Devices) /\ Len(r) = n + 1 /\ r[n + 1] = d
      /\ \A i \in 1 .. n : r[i] = q[i]
  BY AppendProperties
<1>3. DOMAIN r = 1 .. n + 1
  BY <1>2, LenProperties
<1> HIDE DEF r, n
<1>4. Distinct(r)
  BY <1>1, <1>2, <1>3 DEF Distinct, Holds
<1>5. ASSUME NEW e PROVE Holds(r, e) <=> e = d \/ Holds(q, e)
  <2>1. ASSUME Holds(r, e) PROVE e = d \/ Holds(q, e)
    BY <1>1, <1>2, <1>3, <2>1 DEF Holds
  <2>2. ASSUME e = d PROVE Holds(r, e)
    BY <1>1, <1>2, <1>3, <2>2 DEF Holds
  <2>3. ASSUME Holds(q, e) PROVE Holds(r, e)
    BY <1>1, <1>2, <1>3, <2>3 DEF Holds
  <2>4. QED
    BY <2>1, <2>2, <2>3
<1>6. QED
  BY <1>2, <1>4, <1>5 DEF r

\* A device is taken from the queue.
LEMMA TakeOut ==
  ASSUME NEW q \in Seq(Devices), q # <<>>, Distinct(q)
  PROVE  /\ Tail(q) \in Seq(Devices) /\ Distinct(Tail(q)) /\ Head(q) \in Devices
         /\ Holds(q, Head(q)) /\ ~Holds(Tail(q), Head(q))
         /\ \A e : Holds(Tail(q), e) => Holds(q, e)
<1> DEFINE r == Tail(q)
           n == Len(q)
<1>1. n \in Nat /\ n >= 1 /\ DOMAIN q = 1 .. n
  BY LenProperties, EmptySeq
<1>2. /\ r \in Seq(Devices) /\ Len(r) = n - 1 /\ Head(q) \in Devices /\ Head(q) = q[1]
      /\ \A i \in 1 .. Len(r) : r[i] = q[i + 1]
  BY HeadTailProperties
<1>3. DOMAIN r = 1 .. n - 1 /\ \A i \in DOMAIN r : i + 1 \in DOMAIN q /\ r[i] = q[i + 1]
                              /\ i + 1 # 1
  BY <1>1, <1>2, LenProperties
<1> HIDE DEF r, n
<1>4. Distinct(r)
  BY <1>1, <1>2, <1>3 DEF Distinct
<1>5. Holds(q, Head(q))
  BY <1>1, <1>2 DEF Holds
<1>6. ~Holds(r, Head(q))
  BY <1>1, <1>2, <1>3 DEF Holds, Distinct
<1>7. ASSUME NEW e, Holds(r, e) PROVE Holds(q, e)
  BY <1>1, <1>2, <1>3, <1>7 DEF Holds
<1>8. QED
  BY <1>2, <1>4, <1>5, <1>6, <1>7 DEF r

\* OneProfilerPerDevice in these terms.
Apart(q, ws) ==
  /\ Distinct(q)
  /\ \A w \in DOMAIN ws : ws[w].at = "run" => ws[w].dev \in Devices /\ ~Holds(q, ws[w].dev)
  /\ \A v, w \in DOMAIN ws :
       v # w /\ ws[v].at = "run" /\ ws[w].at = "run" => ws[v].dev # ws[w].dev

LEMMA DevicesApart == DeviceInv <=> Apart(deviceQueue, workers)
  BY DEF DeviceInv, OneProfilerPerDevice, Apart, Distinct, Holds

\* A step that takes no device keeps them apart.
LEMMA DevicesKept ==
  ASSUME DeviceInv, UNCHANGED deviceQueue, DOMAIN workers' = DOMAIN workers,
         \A w \in DOMAIN workers : workers'[w].at = "run" =>
           workers[w].at = "run" /\ workers'[w].dev = workers[w].dev
  PROVE  DeviceInv'
  BY DEF DeviceInv, OneProfilerPerDevice

\* What a worker can become.
LEMMA WorkerFields ==
  ASSUME NEW worker \in Worker, NEW future \in Nat, NEW dev \in Devices \cup {NoDevice},
         NEW out \in Outputs
  PROVE  /\ LET new == [worker EXCEPT !.future = future, !.at = "get"] IN
              new \in Worker /\ new.future = future /\ new.at = "get"
         /\ LET new == [worker EXCEPT !.at = "run", !.dev = dev] IN
              new \in Worker /\ new.future = worker.future /\ new.at = "run" /\ new.dev = dev
         /\ LET new == [worker EXCEPT !.at = "collect", !.dev = NoDevice, !.out = out] IN
              new \in Worker /\ new.future = worker.future /\ new.at = "collect" /\ new.out = out
         /\ LET new == [worker EXCEPT !.at = "signal"] IN
              new \in Worker /\ new.future = worker.future /\ new.at = "signal"
<1>1. /\ [worker EXCEPT !.future = future, !.at = "get"] \in Worker
      /\ [worker EXCEPT !.at = "run", !.dev = dev] \in Worker
  BY DEF Worker
<1>2. /\ [worker EXCEPT !.at = "collect", !.dev = NoDevice, !.out = out] \in Worker
      /\ [worker EXCEPT !.at = "signal"] \in Worker
  BY DEF Worker
<1>3. LET new == [worker EXCEPT !.future = future, !.at = "get"] IN
        new.future = future /\ new.at = "get"
  BY DEF Worker
<1>4. LET new == [worker EXCEPT !.at = "run", !.dev = dev] IN
        new.future = worker.future /\ new.at = "run" /\ new.dev = dev
  BY DEF Worker
<1>5. LET new == [worker EXCEPT !.at = "collect", !.dev = NoDevice, !.out = out] IN
        new.future = worker.future /\ new.at = "collect" /\ new.out = out
  BY DEF Worker
<1>6. LET new == [worker EXCEPT !.at = "signal"] IN
        new.future = worker.future /\ new.at = "signal"
  BY DEF Worker
<1>7. QED
  BY <1>1, <1>2, <1>3, <1>4, <1>5, <1>6

\* Setting the state of a future.
LEMMA StateSet ==
  ASSUME PoolTypeOK, NEW f \in DOMAIN futures,
         NEW state \in {"pending", "running", "done", "failed", "cancelled"}, SetState(f, state)
  PROVE  /\ futures' \in Seq(Future) /\ Len(futures') = Len(futures)
         /\ DOMAIN futures' = DOMAIN futures
         /\ futures'[f].state = state /\ futures'[f].job = futures[f].job
         /\ \A g \in DOMAIN futures : g # f => futures'[g] = futures[g]
<1> DEFINE new == [futures[f] EXCEPT !.state = state]
<1>1. futures \in Seq(Future) /\ f \in 1 .. Len(futures) /\ futures[f] \in Future
  BY LenProperties DEF PoolTypeOK
<1>2. new \in Future /\ new.state = state /\ new.job = futures[f].job
  BY <1>1 DEF Future
<1>3. futures' = [futures EXCEPT ![f] = new]
  BY DEF SetState
<1> HIDE DEF new
<1>4. QED
  BY <1>1, <1>2, <1>3, ExceptSeq, LenProperties

\* The invariant without the phase, which the steps of the pool leave alone.
PoolOK == PoolTypeOK /\ DeviceInv /\ FutureInv /\ Counted

\* A step that leaves what is signalled, and what join counts, alone.
LEMMA CountKept ==
  ASSUME Counted, Signalled' = Signalled, DOMAIN futures' = DOMAIN futures,
         Len(futures') = Len(futures), UNCHANGED <<doneQueue, joiner, toGet>>
  PROVE  Counted'
  BY DEF Counted

\* No future has the number 0.
LEMMA Futures ==
  ASSUME PoolTypeOK
  PROVE  /\ NoFuture \notin DOMAIN futures /\ DOMAIN futures \subseteq Nat
         /\ \A w \in DOMAIN workers : workers[w] \in Worker /\ workers[w].future \in Nat
         /\ \A f \in DOMAIN futures : futures[f] \in Future
  BY LenProperties DEF PoolTypeOK, NoFuture, Worker

LEMMA TakeFutureKeeps ==
  ASSUME PoolOK, NEW w \in DOMAIN workers, TakeFuture(w)
  PROVE  PoolOK'
<1> USE DEF PoolOK
<1>1. PICK f \in Pending : /\ workers' = [workers EXCEPT ![w].future = f, ![w].at = "get"]
                           /\ SetState(f, "running")
  BY DEF TakeFuture
<1>2. f \in DOMAIN futures /\ futures[f].state = "pending" /\ f \in Nat /\ f # NoFuture
  BY Futures DEF Pending
<1> DEFINE worker == [workers[w] EXCEPT !.future = f, !.at = "get"]
<1>3. worker \in Worker /\ worker.future = f /\ worker.at = "get"
  BY <1>2, Futures DEF Worker
<1>4. workers' = [workers EXCEPT ![w] = worker]
  BY <1>1
<1> HIDE DEF worker
<1>5. /\ futures' \in Seq(Future) /\ Len(futures') = Len(futures)
      /\ DOMAIN futures' = DOMAIN futures /\ futures'[f].state = "running"
      /\ \A g \in DOMAIN futures : g # f => futures'[g] = futures[g]
  BY <1>1, <1>2, StateSet
<1>6. workers[w].at = "idle" /\ workers[w].future = NoFuture
      /\ UNCHANGED <<deviceQueue, doneQueue, joiner, toGet>>
  BY DEF TakeFuture, FutureInv
<1>7. FutureInv' /\ Signalled' = Signalled
  BY <1>2, <1>3, <1>4, <1>5, <1>6, Futures, WorkerMoves DEF StateAt
<1>8. DeviceInv'
  BY <1>3, <1>4, <1>6, DevicesKept
<1>9. Counted'
  BY <1>5, <1>6, <1>7, CountKept
<1>10. PoolTypeOK'
  BY <1>3, <1>4, <1>5, <1>6 DEF PoolTypeOK
<1>11. QED
  BY <1>7, <1>8, <1>9, <1>10

LEMMA GetDeviceKeeps ==
  ASSUME PoolOK, NEW w \in DOMAIN workers, GetDevice(w)
  PROVE  PoolOK'
<1> USE DEF PoolOK
<1> DEFINE dev == Head(deviceQueue)
           worker == [workers[w] EXCEPT !.at = "run", !.dev = dev]
<1>1. deviceQueue \in Seq(Devices) /\ deviceQueue # <<>> /\ Apart(deviceQueue, workers)
  BY DevicesApart DEF GetDevice, PoolTypeOK
<1>2. dev \in Devices /\ deviceQueue' \in Seq(Devices) /\ Distinct(deviceQueue')
      /\ Holds(deviceQueue, dev) /\ ~Holds(deviceQueue', dev)
      /\ \A e : Holds(deviceQueue', e) => Holds(deviceQueue, e)
  BY <1>1, TakeOut DEF GetDevice, Apart
<1>3. workers' = [workers EXCEPT ![w] = worker] /\ workers[w].at = "get"
      /\ UNCHANGED <<doneQueue, futures, joiner, toGet>>
  BY DEF GetDevice
<1> HIDE DEF dev
<1>4. worker \in Worker /\ worker.future = workers[w].future /\ worker.at = "run"
      /\ worker.dev = dev
  BY <1>2, Futures DEF Worker
<1> HIDE DEF worker
<1>5. DOMAIN workers' = DOMAIN workers /\ workers'[w] = worker
      /\ \A v \in DOMAIN workers : v # w => workers'[v] = workers[v]
  BY <1>3
<1>6. FutureInv' /\ Signalled' = Signalled
  <2>1. workers[w].future \in DOMAIN futures /\ futures[workers[w].future].state = "running"
    BY <1>3 DEF FutureInv, StateAt
  <2>2. QED
    BY <1>3, <1>4, <2>1, Futures, WorkerMoves DEF StateAt
<1>7. Apart(deviceQueue', workers')
  <2>1. ASSUME NEW v \in DOMAIN workers', workers'[v].at = "run"
        PROVE  workers'[v].dev \in Devices /\ ~Holds(deviceQueue', workers'[v].dev)
    BY <1>1, <1>2, <1>4, <1>5, <2>1 DEF Apart
  <2>2. ASSUME NEW v \in DOMAIN workers', v # w, workers'[v].at = "run"
        PROVE  workers'[v].dev # dev
    BY <1>1, <1>2, <1>5, <2>2 DEF Apart
  <2>3. ASSUME NEW u \in DOMAIN workers', NEW v \in DOMAIN workers', u # v,
               workers'[u].at = "run", workers'[v].at = "run"
        PROVE  workers'[u].dev # workers'[v].dev
    <3>1. CASE u = w \/ v = w
      BY <1>4, <1>5, <2>2, <2>3, <3>1
    <3>2. CASE u # w /\ v # w
      BY <1>1, <1>5, <2>3, <3>2 DEF Apart
    <3>3. QED
      BY <3>1, <3>2
  <2>4. QED
    BY <1>2, <2>1, <2>3 DEF Apart
<1>8. DeviceInv'
  BY <1>7 DEF DeviceInv, OneProfilerPerDevice, Apart, Distinct, Holds
<1>9. Counted'
  BY <1>3, <1>6, CountKept
<1>10. PoolTypeOK'
  BY <1>2, <1>3, <1>4, <1>5 DEF PoolTypeOK
<1>11. QED
  BY <1>6, <1>8, <1>9, <1>10

LEMMA LaunchRaisesKeeps ==
  ASSUME PoolOK, NEW w \in DOMAIN workers, LaunchRaises(w)
  PROVE  PoolOK'
<1> USE DEF PoolOK
<1> DEFINE f == workers[w].future
<1>1. /\ workers[w].at = "run" /\ workers[w] \in Worker /\ f \in Nat
      /\ UNCHANGED <<deviceQueue, doneQueue, joiner, toGet>>
  BY Futures DEF LaunchRaises
<1>2. f \in DOMAIN futures /\ futures[f].state = "running" /\ f # NoFuture
  BY <1>1, Futures DEF FutureInv, StateAt
<1>3. CASE workers[w].attempts + 1 < MaxAttempts
  <2> DEFINE worker == [workers[w] EXCEPT !.attempts = @ + 1]
  <2>1. workers[w].attempts + 1 \in 0 .. MaxAttempts - 1
    BY <1>1, <1>3 DEF Worker
  <2>2. worker \in Worker /\ worker.at = "run" /\ worker.future = f /\ worker.dev = workers[w].dev
    BY <1>1, <2>1 DEF Worker
  <2>3. workers' = [workers EXCEPT ![w] = worker] /\ UNCHANGED futures
    BY <1>3 DEF LaunchRaises
  <2> HIDE DEF worker, f
  <2>4. FutureInv' /\ Signalled' = Signalled
    BY <1>1, <1>2, <2>2, <2>3, Futures, WorkerMoves DEF StateAt, f
  <2>5. DeviceInv'
    BY <1>1, <2>2, <2>3, DevicesKept
  <2>6. Counted'
    BY <1>1, <2>3, <2>4, CountKept
  <2>7. PoolTypeOK'
    BY <1>1, <2>2, <2>3 DEF PoolTypeOK
  <2>8. QED
    BY <2>4, <2>5, <2>6, <2>7
<1>4. CASE ~(workers[w].attempts + 1 < MaxAttempts)
  <2>1. IdleWorker \in Worker /\ IdleWorker.at = "idle" /\ IdleWorker.future = NoFuture
    BY DEF IdleWorker, Worker, NoFuture
  <2>2. workers' = [workers EXCEPT ![w] = IdleWorker] /\ SetState(f, "failed")
    BY <1>4 DEF LaunchRaises
  <2> HIDE DEF f
  <2>3. /\ futures' \in Seq(Future) /\ Len(futures') = Len(futures)
        /\ DOMAIN futures' = DOMAIN futures /\ futures'[f].state = "failed"
        /\ \A g \in DOMAIN futures : g # f => futures'[g] = futures[g]
    BY <1>2, <2>2, StateSet
  <2>4. FutureInv' /\ Signalled' = Signalled
    BY <1>1, <1>2, <2>1, <2>2, <2>3, Futures, WorkerMoves DEF f
  <2>5. DeviceInv'
    BY <1>1, <2>1, <2>2, DevicesKept
  <2>6. Counted'
    BY <1>1, <2>3, <2>4, CountKept
  <2>7. PoolTypeOK'
    BY <1>1, <2>1, <2>2, <2>3 DEF PoolTypeOK
  <2>8. QED
    BY <2>4, <2>5, <2>6, <2>7
<1>5. QED
  BY <1>3, <1>4

LEMMA ProfilerEndsKeeps ==
  ASSUME PoolOK, NEW w \in DOMAIN workers, NEW out \in Outputs, ProfilerEnds(w, out)
  PROVE  PoolOK'
<1> USE DEF PoolOK
<1> DEFINE f == workers[w].future
           dev == workers[w].dev
           worker == [workers[w] EXCEPT !.at = "collect", !.dev = NoDevice, !.out = out]
<1>1. /\ workers[w].at = "run" /\ workers[w] \in Worker /\ f \in Nat
      /\ UNCHANGED <<doneQueue, joiner, toGet>>
  BY Futures DEF ProfilerEnds
<1>2. f \in DOMAIN futures /\ futures[f].state = "running" /\ f # NoFuture
  BY <1>1, Futures DEF FutureInv, StateAt
<1>3. worker \in Worker /\ worker.at = "collect" /\ worker.future = f
  BY <1>1 DEF Worker
<1>4. workers' = [workers EXCEPT ![w] = worker] /\ SetState(f, "done")
      /\ deviceQueue' = Append(deviceQueue, dev)
  BY DEF ProfilerEnds
<1>5. deviceQueue \in Seq(Devices) /\ Apart(deviceQueue, workers)
  BY DevicesApart DEF PoolTypeOK
<1>6. dev \in Devices /\ ~Holds(deviceQueue, dev)
  BY <1>1, <1>5 DEF Apart
<1>7. \A v \in DOMAIN workers : v # w /\ workers[v].at = "run" => workers[v].dev # dev
  BY <1>1, <1>5 DEF Apart
<1> HIDE DEF worker, f, dev
<1>8. /\ deviceQueue' \in Seq(Devices) /\ Distinct(deviceQueue')
      /\ \A e : Holds(deviceQueue', e) <=> e = dev \/ Holds(deviceQueue, e)
  BY <1>4, <1>5, <1>6, PutBack DEF Apart
<1>9. /\ futures' \in Seq(Future) /\ Len(futures') = Len(futures)
      /\ DOMAIN futures' = DOMAIN futures /\ futures'[f].state = "done"
      /\ \A g \in DOMAIN futures : g # f => futures'[g] = futures[g]
  BY <1>2, <1>4, StateSet
<1>10. FutureInv' /\ Signalled' = Signalled
  BY <1>1, <1>2, <1>3, <1>4, <1>9, Futures, WorkerMoves DEF StateAt, f
<1>11. DeviceInv'
  <2>1. DOMAIN workers' = DOMAIN workers /\ workers'[w].at # "run"
        /\ \A v \in DOMAIN workers : v # w => workers'[v] = workers[v]
    BY <1>3, <1>4
  <2>2. Apart(deviceQueue', workers')
    BY <1>5, <1>7, <1>8, <2>1 DEF Apart
  <2>3. QED
    BY <2>2 DEF DeviceInv, OneProfilerPerDevice, Apart, Distinct, Holds
<1>12. Counted'
  BY <1>1, <1>9, <1>10, CountKept
<1>13. PoolTypeOK'
  BY <1>1, <1>3, <1>4, <1>8, <1>9 DEF PoolTypeOK
<1>14. QED
  BY <1>10, <1>11, <1>12, <1>13

LEMMA CollectKeeps ==
  ASSUME PoolOK, NEW w \in DOMAIN workers, Collect(w)
  PROVE  PoolOK'
<1> USE DEF PoolOK
<1> DEFINE worker == [workers[w] EXCEPT !.at = "signal"]
<1>1. /\ workers[w].at = "collect" /\ workers[w] \in Worker
      /\ UNCHANGED <<deviceQueue, doneQueue, futures, joiner, toGet>>
  BY Futures DEF Collect
<1>2. /\ workers[w].future \in DOMAIN futures /\ workers[w].future # NoFuture
      /\ futures[workers[w].future].state = "done"
  BY <1>1, Futures DEF FutureInv, StateAt
<1>3. worker \in Worker /\ worker.at = "signal" /\ worker.future = workers[w].future
  BY <1>1 DEF Worker
<1>4. workers' = [workers EXCEPT ![w] = worker]
  BY DEF Collect
<1> HIDE DEF worker
<1>5. FutureInv' /\ Signalled' = Signalled
  BY <1>1, <1>2, <1>3, <1>4, Futures, WorkerMoves DEF StateAt
<1>6. DeviceInv'
  BY <1>1, <1>3, <1>4, DevicesKept
<1>7. Counted'
  BY <1>1, <1>5, CountKept
<1>8. PoolTypeOK'
  BY <1>1, <1>3, <1>4 DEF PoolTypeOK
<1>9. QED
  BY <1>5, <1>6, <1>7, <1>8

\* The one step that puts an item into _done_queue signals one more future.
LEMMA SignalKeeps ==
  ASSUME PoolOK, NEW w \in DOMAIN workers, Signal(w)
  PROVE  PoolOK'
<1> USE DEF PoolOK
<1>1. /\ workers[w].at = "signal" /\ doneQueue' = doneQueue + 1
      /\ workers' = [workers EXCEPT ![w] = IdleWorker]
      /\ UNCHANGED <<deviceQueue, futures, joiner, toGet>>
  BY DEF Signal
<1>2. IdleWorker \in Worker /\ IdleWorker.at = "idle" /\ IdleWorker.future = NoFuture
  BY DEF IdleWorker, Worker, NoFuture
<1>3. /\ workers[w].future \in DOMAIN futures /\ workers[w].future # NoFuture
      /\ futures[workers[w].future].state = "done"
  BY <1>1, Futures DEF FutureInv, StateAt
<1>4. /\ FutureInv' /\ Signalled' = Signalled \cup {workers[w].future}
      /\ workers[w].future \notin Signalled
  BY <1>1, <1>2, <1>3, Futures, WorkerMoves DEF StateAt
<1>5. /\ Cardinality(Signalled') = Cardinality(Signalled) + 1
      /\ Cardinality(Signalled) \in Nat
  BY <1>4, SignalledFinite, FS_AddElement
<1>6. joiner \notin {"choosing", "joined"}
  BY <1>3, <1>4 DEF Counted
<1>7. Counted'
  <2>1. doneQueue \in Nat /\ toGet \in Nat /\ Len(futures) \in Nat
    BY LenProperties DEF PoolTypeOK
  <2>2. QED
    BY <1>1, <1>5, <1>6, <2>1 DEF Counted
<1>8. DeviceInv'
  BY <1>1, <1>2, DevicesKept
<1>9. PoolTypeOK'
  BY <1>1, <1>2 DEF PoolTypeOK
<1>10. QED
  BY <1>4, <1>7, <1>8, <1>9

\* Every step of a thread of the pool.
LEMMA WorkerKeeps ==
  ASSUME PoolOK, NEW w \in DOMAIN workers, WorkerStep(w) \/ LaunchRaises(w)
  PROVE  PoolOK'
  BY TakeFutureKeeps, GetDeviceKeeps, LaunchRaisesKeeps, ProfilerEndsKeeps, CollectKeeps,
     SignalKeeps DEF WorkerStep

\* What a push adds to the futures.
LEMMA SubmitAdds ==
  ASSUME PoolTypeOK, NEW jobs \in Seq(Jobs), Submit(jobs)
  PROVE  /\ futures' \in Seq(Future)
         /\ Len(futures') = Len(futures) + Len(jobs)
         /\ DOMAIN futures \subseteq DOMAIN futures'
         /\ \A f \in DOMAIN futures : futures'[f] = futures[f]
         /\ \A f \in DOMAIN futures' : f \notin DOMAIN futures =>
              /\ f > Len(futures) /\ f - Len(futures) \in DOMAIN jobs
              /\ futures'[f] = [job |-> jobs[f - Len(futures)], state |-> "pending"]
<1> DEFINE new == [i \in DOMAIN jobs |-> [job |-> jobs[i], state |-> "pending"]]
           n == Len(futures)
<1>1. \A i \in DOMAIN jobs : [job |-> jobs[i], state |-> "pending"] \in Future
  BY LenProperties DEF Future
<1>2. new \in [1 .. Len(jobs) -> Future] /\ Len(jobs) \in Nat /\ DOMAIN jobs = 1 .. Len(jobs)
  BY <1>1, LenProperties
<1>3. \A i \in DOMAIN jobs : new[i] = [job |-> jobs[i], state |-> "pending"]
  OBVIOUS
<1>4. futures' = futures \o new
  BY DEF Submit
<1> HIDE DEF new
<1>5. new \in Seq(Future) /\ Len(new) = Len(jobs)
  BY <1>2, FunctionIsSeq
<1>6. futures \in Seq(Future) /\ n \in Nat /\ DOMAIN futures = 1 .. n
  BY LenProperties DEF PoolTypeOK
<1> HIDE DEF n
<1>7. /\ futures' \in Seq(Future) /\ Len(futures') = n + Len(new)
      /\ \A i \in 1 .. n : futures'[i] = futures[i]
      /\ \A i \in 1 .. n + Len(new) : i > n => futures'[i] = new[i - n]
  <2>1. /\ futures \o new \in Seq(Future) /\ Len(futures \o new) = Len(futures) + Len(new)
        /\ \A i \in 1 .. Len(futures) : (futures \o new)[i] = futures[i]
        /\ \A i \in 1 .. Len(futures) + Len(new) :
             i > Len(futures) => (futures \o new)[i] = new[i - Len(futures)]
    <3>1. ASSUME NEW s \in Seq(Future), NEW t \in Seq(Future)
          PROVE  /\ s \o t \in Seq(Future) /\ Len(s \o t) = Len(s) + Len(t)
                 /\ \A i \in 1 .. Len(s) : (s \o t)[i] = s[i]
                 /\ \A i \in 1 .. Len(s) + Len(t) : i > Len(s) => (s \o t)[i] = t[i - Len(s)]
      BY Pushed
    <3>2. QED
      BY <1>5, <1>6, <3>1
  <2>2. QED
    BY <1>4, <2>1 DEF n
<1>8. DOMAIN futures' = 1 .. n + Len(new)
  BY <1>5, <1>7, LenProperties
<1>9. ASSUME NEW f \in DOMAIN futures', f \notin DOMAIN futures
      PROVE  f > n /\ f - n \in DOMAIN jobs /\ futures'[f] = new[f - n]
  BY <1>2, <1>5, <1>6, <1>7, <1>8, <1>9
<1>10. /\ DOMAIN futures \subseteq DOMAIN futures'
       /\ \A f \in DOMAIN futures : futures'[f] = futures[f]
  BY <1>2, <1>5, <1>6, <1>7, <1>8
<1>11. QED
  BY <1>3, <1>5, <1>7, <1>9, <1>10 DEF n

\* What is pushed waits for a worker.
LEMMA SubmitKeeps ==
  ASSUME PoolOK, NEW jobs \in Seq(Jobs), Submit(jobs), joiner = "pushing"
  PROVE  PoolOK'
<1> USE DEF PoolOK
<1>1. UNCHANGED <<deviceQueue, doneQueue, workers, joiner, toGet>>
  BY DEF Submit
<1>2. /\ futures' \in Seq(Future)
      /\ DOMAIN futures \subseteq DOMAIN futures'
      /\ \A f \in DOMAIN futures : futures'[f] = futures[f]
      /\ \A f \in DOMAIN futures' : f \notin DOMAIN futures => futures'[f].state = "pending"
  BY SubmitAdds
<1>3. Signalled' = Signalled
  BY <1>1, <1>2 DEF Signalled
<1>4. FutureInv'
  BY <1>1, <1>2 DEF FutureInv
<1>5. DeviceInv' /\ Counted'
  BY <1>1, <1>3, DevicesKept DEF Counted
<1>6. PoolTypeOK'
  BY <1>1, <1>2 DEF PoolTypeOK
<1>7. QED
  BY <1>4, <1>5, <1>6

\* join takes one item for every future; when it has taken them all, all are signalled.
LEMMA JoinKeeps ==
  ASSUME PoolOK, JoinPool \/ JoinStep
  PROVE  PoolOK'
<1> USE DEF PoolOK
<1>1. UNCHANGED <<deviceQueue, workers>>
  BY DEF JoinPool, JoinStep, WaitReturns, WaitTimesOut, GetDone, GetTimesOut
<1>2. DeviceInv'
  BY <1>1, DevicesKept
<1>3. doneQueue \in Nat /\ toGet \in Nat /\ Len(futures) \in Nat /\ Cardinality(Signalled) \in Nat
  BY SignalledFinite DEF PoolTypeOK
<1>4. CASE WaitTimesOut
  <2>1. /\ DOMAIN futures' = DOMAIN futures
        /\ \A f \in DOMAIN futures :
             IF futures[f].state = "pending"
             THEN futures'[f] = [futures[f] EXCEPT !.state = "cancelled"]
             ELSE futures'[f] = futures[f]
    BY <1>4 DEF WaitTimesOut, Pending
  <2>2. \A f \in DOMAIN futures :
          /\ futures'[f] \in Future
          /\ futures[f].state = "pending" => futures'[f].state = "cancelled"
    BY <2>1, Futures DEF Future
  <2>3. futures' \in [1 .. Len(futures) -> Future]
    BY <1>3, <1>4, <2>1, <2>2, SignalledFinite DEF WaitTimesOut
  <2>4. futures' \in Seq(Future) /\ Len(futures') = Len(futures)
    BY <1>3, <2>3, FunctionIsSeq
  <2>5. Signalled' = Signalled
    BY <1>1, <2>1, <2>2 DEF Signalled
  <2>6. FutureInv'
    BY <1>1, <2>1 DEF FutureInv, StateAt
  <2>7. Counted'
    BY <1>3, <1>4, <2>4, <2>5 DEF WaitTimesOut, Counted
  <2>8. PoolTypeOK'
    BY <1>1, <1>3, <1>4, <2>4 DEF WaitTimesOut, PoolTypeOK
  <2>9. QED
    BY <1>2, <2>6, <2>7, <2>8
<1>5. ASSUME UNCHANGED futures, Counted', doneQueue' \in Nat, toGet' \in Nat,
             joiner' \in {"pushing", "waiting", "getting", "choosing", "joined", "raised"}
      PROVE  PoolOK'
  BY <1>1, <1>2, <1>5 DEF FutureInv, PoolTypeOK
<1>6. ASSUME UNCHANGED futures PROVE Signalled' = Signalled
  BY <1>1, <1>6 DEF Signalled
<1>7. CASE JoinPool
  BY <1>3, <1>5, <1>6, <1>7 DEF JoinPool, Counted
<1>8. CASE WaitReturns
  BY <1>3, <1>5, <1>6, <1>8 DEF WaitReturns, Counted
<1>9. CASE GetTimesOut
  BY <1>3, <1>5, <1>6, <1>9 DEF GetTimesOut, Counted
<1>10. CASE GetDone
  <2>1. joiner = "getting" /\ UNCHANGED futures
        /\ doneQueue + Len(futures) = Cardinality(Signalled) + toGet
    BY <1>10 DEF GetDone, Counted
  <2>2. CASE toGet = 0
    <3>1. Signalled = DOMAIN futures
      BY <1>3, <2>1, <2>2, SignalledFinite
    <3>2. QED
      BY <1>3, <1>5, <1>6, <1>10, <2>1, <2>2, <3>1 DEF GetDone, Counted
  <2>3. CASE toGet # 0
    <3>1. doneQueue > 0 /\ doneQueue' = doneQueue - 1 /\ toGet' = toGet - 1 /\ joiner' = joiner
      BY <1>10, <2>3 DEF GetDone
    <3>2. doneQueue' \in Nat /\ toGet' \in Nat
      BY <1>3, <2>3, <3>1
    <3>3. Counted'
      BY <1>3, <1>6, <2>1, <2>3, <3>1 DEF Counted
    <3>4. QED
      BY <1>5, <2>1, <3>1, <3>2, <3>3
  <2>4. QED
    BY <2>2, <2>3
<1>11. QED
  BY <1>4, <1>7, <1>8, <1>9, <1>10 DEF JoinStep

\* What a workload's profilers measure are jobs.
LEMMA GemmProfileKeeps ==
  ASSUME PoolInv, GemmProfile
  PROVE  PoolInv'
<1> DEFINE splits == SplitKs[graph.gemms[opAt][wklAt]]
           jobs == [i \in DOMAIN splits |-> [slot |-> GemmSlot(opAt, wklAt), split |-> splits[i]]]
<1>1. graph.gemms # <<>> /\ opAt \in DOMAIN graph.gemms /\ wklAt \in DOMAIN graph.gemms[opAt]
      /\ phase = "gemms" /\ UNCHANGED <<phase, graph, compiles>> /\ Submit(jobs)
  BY DEF GemmProfile, AtWorkload
<1>2. PICK g \in DOMAIN Graphs : graph = Graphs[g]
  BY <1>1 DEF PoolInv, PhaseInv, EmptyGraph
<1>3. splits \in Seq(Nat) /\ \A i \in DOMAIN splits :
                               [slot |-> GemmSlot(opAt, wklAt), split |-> splits[i]] \in Jobs
  BY <1>1, <1>2, JobsAssumption
<1>4. jobs \in [1 .. Len(splits) -> Jobs] /\ Len(splits) \in Nat
  BY <1>3, LenProperties
<1> HIDE DEF jobs, splits
<1>5. jobs \in Seq(Jobs)
  BY <1>4, FunctionIsSeq
<1>6. PoolOK /\ joiner = "pushing" /\ UNCHANGED joiner
  BY <1>1 DEF PoolInv, PoolOK, PhaseInv, Submit
<1>7. PoolOK'
  BY <1>1, <1>5, <1>6, SubmitKeeps
<1>8. PhaseInv'
  BY <1>1, <1>6 DEF PoolInv, PhaseInv
<1>9. QED
  BY <1>7, <1>8 DEF PoolInv, PoolOK

\* Initially there is no pool.
LEMMA PoolInit == Init => PoolInv
<1> SUFFICES ASSUME Init PROVE PoolInv
  OBVIOUS
<1>1. Signalled = {}
  BY DEF Init, Signalled
<1>2. Counted
  BY <1>1, FS_EmptySet DEF Init, Counted
<1>3. PoolTypeOK /\ DeviceInv /\ FutureInv /\ PhaseInv
  BY EmptySeq DEF Init, PoolTypeOK, DeviceInv, OneProfilerPerDevice, FutureInv, PhaseInv
<1>4. QED
  BY <1>2, <1>3 DEF PoolInv

\* Every step of profiling keeps the invariant of the pool.
LEMMA PoolKept == ASSUME PoolInv, [Next]_vars PROVE PoolInv'
<1>1. PoolOK /\ PhaseInv
  BY DEF PoolInv, PoolOK
<1>2. ASSUME UNCHANGED poolVars PROVE PoolOK'
  <2>1. UNCHANGED <<deviceQueue, doneQueue, futures, workers, joiner, toGet>>
    BY <1>2 DEF poolVars
  <2>2. Signalled' = Signalled
    BY <2>1 DEF Signalled
  <2>3. QED
    BY <1>1, <2>1, <2>2
       DEF PoolOK, PoolTypeOK, DeviceInv, OneProfilerPerDevice, FutureInv, Counted
<1>3. ASSUME PoolOK', PhaseInv' PROVE PoolInv'
  BY <1>3 DEF PoolOK, PoolInv
<1>4. ASSUME NEW devs \in Seq(Devices), \A i, j \in DOMAIN devs : i # j => devs[i] # devs[j],
             NewPool(devs)
      PROVE  PoolOK' /\ joiner' = "pushing"
  BY <1>4, NewPoolKeeps DEF PoolOK, NewPool
<1>5. ASSUME NEW devs \in DeviceLists, StartCompile(devs) PROVE PoolInv'
  <2>1. PoolOK' /\ joiner' = "pushing"
    BY <1>4, <1>5, ProfilingAssumption DEF StartCompile
  <2>2. compiles + 1 \in DOMAIN Graphs
    <3>1. compiles \in Nat /\ compiles < Len(Graphs) /\ DOMAIN Graphs = 1 .. Len(Graphs)
      BY <1>1, <1>5, LenProperties, GraphsAssumption DEF StartCompile, PhaseInv
    <3>2. Len(Graphs) \in Nat
      BY LenProperties, GraphsAssumption
    <3>3. QED
      BY <3>1, <3>2
  <2>3. graph' = Graphs[compiles + 1] /\ compiles' = compiles + 1 /\ compiles \in Nat
    BY <1>1, <1>5 DEF StartCompile, PhaseInv
  <2>4. QED
    BY <1>3, <2>1, <2>2, <2>3 DEF PhaseInv
<1>6. CASE EndProcess \/ Crash
  <2>1. <<>> \in Seq(Devices) /\ \A i, j \in DOMAIN <<>> : i # j => <<>>[i] # <<>>[j]
    BY EmptySeq
  <2>2. NewPool(<<>>) /\ graph' = EmptyGraph /\ UNCHANGED compiles
    BY <1>6 DEF EndProcess, Crash, Forget
  <2>3. PoolOK' /\ joiner' = "pushing"
    BY <1>4, <2>1, <2>2
  <2>4. QED
    BY <1>1, <1>3, <2>2, <2>3 DEF PhaseInv
<1>7. CASE GemmProfile
  BY <1>7, GemmProfileKeeps
<1>8. CASE GemmsDone
  <2>1. PoolOK'
    BY <1>1, <1>8, JoinKeeps DEF GemmsDone
  <2>2. PhaseInv'
    BY <1>1, <1>8 DEF GemmsDone, PhaseInv
  <2>3. QED
    BY <1>3, <2>1, <2>2
<1>9. CASE GemmJoin
  <2>1. PoolOK'
    BY <1>1, <1>9, JoinKeeps DEF GemmJoin
  <2>2. PhaseInv'
    BY <1>1, <1>9 DEF GemmJoin, PhaseInv, ownVars
  <2>3. QED
    BY <1>3, <2>1, <2>2
<1>10. ASSUME NEW w \in DOMAIN workers, GemmWorker(w) PROVE PoolInv'
  <2>1. PoolOK'
    BY <1>1, <1>10, WorkerKeeps DEF GemmWorker
  <2>2. UNCHANGED <<phase, graph, compiles, joiner>>
    BY <1>10 DEF GemmWorker, ownVars, WorkerStep, TakeFuture, GetDevice, LaunchRaises,
                 ProfilerEnds, Collect, Signal
  <2>3. PhaseInv'
    BY <1>1, <2>2 DEF PhaseInv
  <2>4. QED
    BY <1>3, <2>1, <2>3
<1>11. CASE Postprocess
  <2>1. /\ phase' = "done" /\ joiner = "choosing" /\ joiner' = "joined"
        /\ UNCHANGED <<graph, compiles, deviceQueue, doneQueue, futures, workers, toGet>>
    BY <1>11 DEF Postprocess
  <2>2. Signalled' = Signalled
    BY <2>1 DEF Signalled
  <2>3. PoolOK'
    BY <1>1, <2>1, <2>2
       DEF PoolOK, PoolTypeOK, DeviceInv, OneProfilerPerDevice, FutureInv, Counted
  <2>4. PhaseInv'
    BY <1>1, <2>1 DEF PhaseInv
  <2>5. QED
    BY <1>3, <2>3, <2>4
<1>12. CASE NormCached \/ NormProfile \/ NormRunner \/ NormEnvironment \/ NormChoose \/ NormsDone
            \/ GemmCached \/ GemmRaised \/ UNCHANGED vars
  <2>1. UNCHANGED poolVars /\ UNCHANGED <<graph, compiles>>
    BY <1>12 DEF NormCached, NormProfile, NormRunner, NormEnvironment, NormChoose, NormsDone,
                 GemmCached, GemmRaised, vars, ownVars
  <2>2. phase' \in {"idle", "norms", "gemms"} => phase \in {"idle", "norms", "gemms"}
    BY <1>12 DEF NormCached, NormProfile, NormRunner, NormEnvironment, NormChoose, NormsDone,
                 AtNorm, GemmCached, AtWorkload, GemmRaised, vars, ownVars
  <2>3. PhaseInv'
    BY <1>1, <2>1, <2>2 DEF PhaseInv, poolVars
  <2>4. QED
    BY <1>2, <1>3, <2>1, <2>3
<1>13. QED
  BY <1>5, <1>6, <1>7, <1>8, <1>9, <1>10, <1>11, <1>12 DEF Next

\* No device is in the queue of idle devices twice, or while a profiler runs on it, and no two
\* profilers run on one (profiler_runner.py: run_task), whatever fails to be launched.
THEOREM OneProfiler == Spec => []OneProfilerPerDevice
<1>1. PoolInv => OneProfilerPerDevice
  BY DEF PoolInv, DeviceInv
<1>2. QED
  BY <1>1, PoolInit, PoolKept, PTL DEF Spec

\* When the delegate chooses, every future is done and its callback has run
\* (profiler_runner.py: join counts the items of _done_queue).
THEOREM ResultsIn == Spec => []AllResultsIn
<1>1. PoolInv => AllResultsIn
  <2> SUFFICES ASSUME PoolInv, joiner \in {"choosing", "joined"}, NEW f \in DOMAIN futures
               PROVE  futures[f].state = "done" /\ \A w \in DOMAIN workers : workers[w].future # f
    BY DEF AllResultsIn
  <2>1. f \in Signalled
    BY DEF PoolInv, Counted
  <2>2. QED
    BY <2>1 DEF Signalled
<1>2. QED
  BY <1>1, PoolInit, PoolKept, PTL DEF Spec

----------------------------------------------------------------------------
(* What profiling chooses.                                                 *)

USE RunnerAssumption, ProfilersAssumption

\* The kernel that an operator chooses is one of those that have a result.
LEMMA ChosenIsResult ==
  ASSUME results \in Seq(Result), results # <<>>
  PROVE  \E i \in DOMAIN results : Chosen = results[i]
<1>1. /\ DOMAIN results = 1 .. Len(results) /\ Len(results) \in Nat /\ DOMAIN results # {}
      /\ \A i \in DOMAIN results : results[i].ret.op \in Nat /\ results[i].ret.duration \in Nat
  <2>1. DOMAIN results = 1 .. Len(results) /\ Len(results) \in Nat /\ Len(results) # 0
    BY LenProperties, EmptySeq
  <2>2. \A i \in DOMAIN results : results[i] \in Result
    BY <2>1, ElementOfSeq
  <2>3. ASSUME NEW r \in Result PROVE r.ret.op \in Nat /\ r.ret.duration \in Nat
    <3>1. r.ret \in [op : Indices \cup {0}, duration : Durations \cup {Silent}]
      BY DEF Result
    <3>2. r.ret.op \in Indices \cup {0} /\ r.ret.duration \in Durations \cup {Silent}
      BY <3>1
    <3>3. Indices \cup {0} \subseteq Nat /\ Durations \cup {Silent} \subseteq Nat
      BY DEF Silent
    <3>4. QED
      BY <3>2, <3>3
  <2>4. DOMAIN results # {}
    BY <2>1
  <2>5. \A i \in DOMAIN results : results[i].ret.op \in Nat /\ results[i].ret.duration \in Nat
    BY <2>2, <2>3, Zenon
  <2>6. QED
    BY <2>1, <2>4, <2>5, Zenon
<1> DEFINE ops == {results[i].ret.op : i \in DOMAIN results}
<1>2. PICK op \in ops : \A o \in ops : op <= o
  <2>1. ops \in SUBSET Nat /\ ops # {}
    BY <1>1
  <2>2. QED
    BY <2>1, Least
<1> DEFINE withOp == {i \in DOMAIN results : results[i].ret.op = op}
           times == {results[i].ret.duration : i \in withOp}
<1>3. PICK time \in times : \A t \in times : time <= t
  <2>1. times \in SUBSET Nat /\ times # {}
    BY <1>1, <1>2
  <2>2. QED
    BY <2>1, Least
<1> DEFINE best == {i \in withOp : results[i].ret.duration = time}
<1>4. PICK i \in best : \A j \in best : i <= j
  <2>1. best \in SUBSET Nat /\ best # {}
    BY <1>1, <1>3
  <2>2. QED
    BY <2>1, Least
<1>5. ASSUME NEW j \in DOMAIN results
      PROVE  /\ ~Before(results[j].ret, results[i].ret)
             /\ j < i => Before(results[i].ret, results[j].ret)
  <2>1. /\ op <= results[j].ret.op
        /\ results[j].ret.op = op => time <= results[j].ret.duration
        /\ results[j].ret.op = op /\ results[j].ret.duration = time => i <= j
    BY <1>2, <1>3, <1>4
  <2>2. results[i].ret.op = op /\ results[i].ret.duration = time
    BY <1>4
  <2>3. op \in Nat /\ time \in Nat /\ results[j].ret.op \in Nat /\ results[j].ret.duration \in Nat
        /\ i \in Nat /\ j \in Nat
    BY <1>1, <1>4, <2>2
  <2> HIDE DEF ops, times, withOp, best
  <2>4. QED
    BY <2>1, <2>2, <2>3 DEF Before
<1>6. QED
  BY <1>4, <1>5 DEF Chosen

\* The first instance of a group, and its winner, are in the group.
LEMMA InGroup ==
  ASSUME instances \in Seq(Instance), NEW i \in DOMAIN instances
  PROVE  /\ FirstOf(i) \in DOMAIN instances
         /\ instances[FirstOf(i)].job.slot = instances[i].job.slot
         /\ Winner(i) \in DOMAIN instances
         /\ instances[Winner(i)].job.slot = instances[i].job.slot
         /\ \A h \in DOMAIN instances :
              SameGroup(i, h) => instances[Winner(i)].duration <= instances[h].duration
<1>1. /\ DOMAIN instances = 1 .. Len(instances) /\ Len(instances) \in Nat
      /\ \A j \in DOMAIN instances : instances[j] \in Instance
  BY LenProperties, ElementOfSeq
<1>2. \A j \in DOMAIN instances : instances[j].duration \in Nat
  BY <1>1 DEF Instance
<1> DEFINE mine == {j \in DOMAIN instances : SameGroup(i, j)}
<1>3. i \in mine
  BY <1>1 DEF SameGroup
<1>4. FirstOf(i) \in DOMAIN instances /\ SameGroup(i, FirstOf(i))
  <2>1. mine \in SUBSET Nat /\ mine # {}
    BY <1>1, <1>3
  <2>2. PICK j \in mine : \A h \in mine : j <= h
    BY <2>1, Least
  <2>3. QED
    BY <2>2 DEF FirstOf
<1> DEFINE times == {instances[j].duration : j \in mine}
<1>5. PICK time \in times : \A t \in times : time <= t
  <2>1. times \in SUBSET Nat /\ times # {}
    BY <1>2, <1>3
  <2>2. QED
    BY <2>1, Least
<1> DEFINE best == {j \in mine : instances[j].duration = time}
<1>6. PICK j \in best : \A h \in best : j <= h
  <2>1. best \in SUBSET Nat /\ best # {}
    BY <1>1, <1>5
  <2>2. QED
    BY <2>1, Least
<1>7. /\ j \in DOMAIN instances /\ SameGroup(i, j)
      /\ \A h \in DOMAIN instances : SameGroup(i, h) =>
           /\ instances[j].duration <= instances[h].duration
           /\ instances[j].duration = instances[h].duration => j <= h
  BY <1>5, <1>6
<1>8. /\ Winner(i) \in DOMAIN instances /\ SameGroup(i, Winner(i))
      /\ \A h \in DOMAIN instances :
           SameGroup(i, h) => instances[Winner(i)].duration <= instances[h].duration
  <2> HIDE DEF mine, times, best
  <2>1. QED
    BY <1>7 DEF Winner
<1>9. ASSUME NEW k \in DOMAIN instances, SameGroup(i, k)
      PROVE  instances[k].job.slot = instances[i].job.slot
  <2>1. (i <= k /\ k <= k) \/ (k <= k /\ k <= i)
    BY <1>1
  <2>2. QED
    BY <1>9, <2>1 DEF SameGroup
<1>10. QED
  BY <1>4, <1>8, <1>9

\* The keys of a graph are keys.
LEMMA GraphKeys ==
  ASSUME NEW g \in [norms : Seq(Keys), gemms : Seq(Seq(Keys))]
  PROVE  /\ \A i \in DOMAIN g.norms : g.norms[i] \in Keys
         /\ \A s \in Slots(g) : s[1] = "gemm" => KeyOf(g, s) \in Keys
<1>1. /\ g.norms \in Seq(Keys) /\ g.gemms \in Seq(Seq(Keys))
  OBVIOUS
<1>2. /\ \A i \in DOMAIN g.norms : g.norms[i] \in Keys
      /\ \A i \in DOMAIN g.gemms : g.gemms[i] \in Seq(Keys)
  BY <1>1, LenProperties, ElementOfSeq
<1>3. \A i \in DOMAIN g.gemms : \A j \in DOMAIN g.gemms[i] : g.gemms[i][j] \in Keys
  BY <1>2, LenProperties, ElementOfSeq
<1>4. ASSUME NEW s \in Slots(g), s[1] = "gemm" PROVE KeyOf(g, s) \in Keys
  <2>1. PICK i \in DOMAIN g.gemms : \E j \in DOMAIN g.gemms[i] : s = GemmSlot(i, j)
    BY <1>4 DEF Slots, NormSlot
  <2>2. QED
    BY <1>3, <2>1 DEF KeyOf, GemmSlot
<1>5. QED
  BY <1>2, <1>4

\* Every graph is one.
LEMMA GraphsTyped ==
  ASSUME NEW g \in DOMAIN Graphs
  PROVE  Graphs[g] \in [norms : Seq(Keys), gemms : Seq(Seq(Keys))]
<1> DEFINE G == [norms : Seq(Keys), gemms : Seq(Seq(Keys))]
<1>1. Graphs \in Seq(G)
  BY GraphsAssumption
<1> HIDE DEF G
<1>2. Graphs[g] \in G
  BY <1>1, LenProperties, ElementOfSeq
<1>3. QED
  BY <1>2 DEF G

\* A compilation starts with one of the graphs.
LEMMA GraphStarts ==
  ASSUME PhaseInv, NEW devs \in DeviceLists, StartCompile(devs)
  PROVE  graph' \in [norms : Seq(Keys), gemms : Seq(Seq(Keys))]
<1>1. compiles \in Nat /\ compiles < Len(Graphs) /\ graph' = Graphs[compiles + 1]
  BY DEF StartCompile, PhaseInv
<1>2. Len(Graphs) \in Nat /\ DOMAIN Graphs = 1 .. Len(Graphs)
  BY GraphsAssumption, LenProperties
<1>3. compiles + 1 \in DOMAIN Graphs
  BY <1>1, <1>2
<1>4. QED
  BY <1>1, <1>3, GraphsTyped

----------------------------------------------------------------------------
(* The types, and what belongs to what                                     *)

\* The workloads of the GEMMs of a graph, and the jobs that measure them.
Workloads(g) == UNION {{GemmSlot(i, j) : j \in DOMAIN g.gemms[i]} : i \in DOMAIN g.gemms}
OfGemm(job)  == job.slot \in Workloads(graph) /\ job.split \in Nat

\* Every future is for a workload of the graph, and every instance is the result of one.
JobsInv ==
  /\ \A f \in DOMAIN futures : OfGemm(futures[f].job)
  /\ instances \in Seq(Instance)
  /\ \A i \in DOMAIN instances : /\ instances[i].future \in DOMAIN futures
                                 /\ instances[i].job = futures[instances[i].future].job
  /\ phase \in {"idle", "norms"} => futures = <<>>
  /\ phase = "done" => joiner = "joined"
  /\ DOMAIN workers = DOMAIN devices
  /\ opAt \in Nat /\ wklAt \in Nat

\* The kernels that are chosen and kept.
AlgoInv ==
  /\ phase \in {"idle", "norms", "gemms", "join", "done", "failed"}
  /\ DOMAIN algo = Slots(graph)
  /\ \A s \in DOMAIN algo : algo[s] \in Algo \cup {NoAlgo}
  /\ cache \in [Keys -> Algo \cup {NoAlgo}] /\ saved \in [Keys -> Algo \cup {NoAlgo}]

\* The graph that is compiled has keys.
LEMMA GraphNow ==
  ASSUME PhaseInv
  PROVE  /\ graph \in [norms : Seq(Keys), gemms : Seq(Seq(Keys))]
         /\ \A i \in DOMAIN graph.norms : graph.norms[i] \in Keys
         /\ \A s \in Workloads(graph) : s \in Slots(graph) /\ KeyOf(graph, s) \in Keys
         /\ \A i \in DOMAIN graph.norms : NormSlot(i) \in Slots(graph) \ Workloads(graph)
<1>1. graph \in [norms : Seq(Keys), gemms : Seq(Seq(Keys))]
  <2>1. CASE graph = EmptyGraph
    BY <2>1, EmptySeq DEF EmptyGraph
  <2>2. CASE graph # EmptyGraph
    BY <2>2, GraphsTyped DEF PhaseInv
  <2>3. QED
    BY <2>1, <2>2
<1>2. \A s \in Workloads(graph) : s \in Slots(graph) /\ s[1] = "gemm"
  BY DEF Workloads, Slots, GemmSlot
<1>3. \A i \in DOMAIN graph.norms : NormSlot(i) \in Slots(graph) \ Workloads(graph)
  BY DEF Workloads, Slots, GemmSlot, NormSlot
<1>4. QED
  BY <1>1, <1>2, <1>3, GraphKeys

\* What a thread of the pool, or join, changes.
LEMMA PoolSteps ==
  ASSUME PoolTypeOK, FutureInv,
         (\E w \in DOMAIN workers : GemmWorker(w)) \/ GemmJoin
  PROVE  /\ DOMAIN futures' = DOMAIN futures /\ DOMAIN workers' = DOMAIN workers
         /\ \A f \in DOMAIN futures : /\ futures'[f].job = futures[f].job
                                      /\ futures'[f].state = "pending" =>
                                           futures[f].state = "pending"
<1>1. ASSUME NEW f \in DOMAIN futures,
             NEW state \in {"running", "done", "failed", "cancelled"}, SetState(f, state)
      PROVE  /\ DOMAIN futures' = DOMAIN futures
             /\ \A g \in DOMAIN futures : /\ futures'[g].job = futures[g].job
                                          /\ futures'[g].state = "pending" =>
                                               futures[g].state = "pending"
  BY <1>1, StateSet
<1>2. ASSUME NEW w \in DOMAIN workers, GemmWorker(w)
      PROVE  \/ UNCHANGED futures
             \/ \E f \in DOMAIN futures :
                  \E state \in {"running", "done", "failed", "cancelled"} : SetState(f, state)
  <2>1. CASE TakeFuture(w)
    BY <2>1 DEF TakeFuture, Pending
  <2>2. CASE LaunchRaises(w) \/ \E out \in Outputs : ProfilerEnds(w, out)
    <3>1. workers[w].future \in DOMAIN futures
      BY <2>2 DEF FutureInv, LaunchRaises, ProfilerEnds
    <3>2. QED
      BY <2>2, <3>1 DEF LaunchRaises, ProfilerEnds
  <2>3. CASE GetDevice(w) \/ Collect(w) \/ Signal(w)
    BY <2>3 DEF GetDevice, Collect, Signal
  <2>4. QED
    BY <1>2, <2>1, <2>2, <2>3 DEF GemmWorker, WorkerStep
<1>3. ASSUME NEW w \in DOMAIN workers, GemmWorker(w) PROVE DOMAIN workers' = DOMAIN workers
  BY <1>3 DEF GemmWorker, WorkerStep, TakeFuture, GetDevice, LaunchRaises, ProfilerEnds, Collect,
              Signal
<1>4. CASE \E w \in DOMAIN workers : GemmWorker(w)
  BY <1>1, <1>2, <1>3, <1>4
<1>5. CASE GemmJoin
  <2>1. UNCHANGED workers
    BY <1>5 DEF GemmJoin, JoinStep, WaitReturns, WaitTimesOut, GetDone, GetTimesOut
  <2>2. CASE UNCHANGED futures
    BY <2>1, <2>2
  <2>3. CASE WaitTimesOut
    BY <2>1, <2>3, Futures DEF WaitTimesOut, Future
  <2>4. QED
    BY <1>5, <2>2, <2>3 DEF GemmJoin, JoinStep, WaitReturns, GetDone, GetTimesOut
<1>6. QED
  BY <1>4, <1>5

\* A callback collects the result of the future that its worker has run.
LEMMA Collected ==
  ASSUME PoolTypeOK, FutureInv, NEW w \in DOMAIN workers, GemmWorker(w), instances' # instances
  PROVE  /\ workers[w].at = "collect" /\ UNCHANGED futures
         /\ workers' = [workers EXCEPT ![w].at = "signal"]
         /\ \E new \in Instance :
              /\ instances' = Append(instances, new)
              /\ new.future = workers[w].future /\ new.future \in DOMAIN futures
              /\ new.job = futures[new.future].job
<1> DEFINE f == workers[w].future
           new == [future |-> f, job |-> futures[f].job, duration |-> workers[w].out]
<1>1. /\ workers[w].at = "collect" /\ workers[w].out \in Durations
      /\ instances' = Append(instances, new) /\ UNCHANGED futures
      /\ workers' = [workers EXCEPT ![w].at = "signal"]
  BY DEF GemmWorker, WorkerStep, LaunchRaises, TakeFuture, GetDevice, Collect, Signal, ProfilerEnds
<1>2. f \in DOMAIN futures /\ f \in Nat /\ futures[f] \in Future
  BY <1>1, Futures DEF FutureInv
<1>3. futures[f].job \in Jobs
  BY <1>2 DEF Future
<1>4. new \in Instance /\ new.future = f /\ new.job = futures[f].job
  BY <1>1, <1>2, <1>3 DEF Instance
<1> HIDE DEF new
<1>5. QED
  BY <1>1, <1>2, <1>4

\* The elements of a sequence to which one is appended.
LEMMA Appended ==
  ASSUME NEW S, NEW q \in Seq(S), NEW e \in S
  PROVE  /\ Append(q, e) \in Seq(S) /\ Len(q) \in Nat
         /\ DOMAIN q = 1 .. Len(q) /\ DOMAIN Append(q, e) = 1 .. Len(q) + 1
         /\ \A i \in DOMAIN q : Append(q, e)[i] = q[i]
         /\ Append(q, e)[Len(q) + 1] = e
<1>1. /\ Append(q, e) \in Seq(S) /\ Len(Append(q, e)) = Len(q) + 1
      /\ \A i \in 1 .. Len(q) : Append(q, e)[i] = q[i]
      /\ Append(q, e)[Len(q) + 1] = e
  BY AppendProperties
<1>2. Len(q) \in Nat /\ DOMAIN q = 1 .. Len(q) /\ DOMAIN Append(q, e) = 1 .. Len(Append(q, e))
  BY <1>1, LenProperties
<1>3. QED
  BY <1>1, <1>2

\* One profiler is pushed for each split of a workload.
LEMMA JobsPushed ==
  ASSUME PoolInv, GemmProfile
  PROVE  LET slot == GemmSlot(opAt, wklAt) IN
         /\ slot \in Workloads(graph)
         /\ DOMAIN futures \subseteq DOMAIN futures'
         /\ \A f \in DOMAIN futures : futures'[f] = futures[f]
         /\ \A f \in DOMAIN futures' \ DOMAIN futures :
              /\ futures'[f].job.slot = slot /\ futures'[f].job.split \in Nat
              /\ futures'[f].state = "pending" /\ \A g \in DOMAIN futures : g < f
         /\ DOMAIN futures' \ DOMAIN futures # {}
         /\ UNCHANGED <<workers, instances, joiner, devices>>
<1> DEFINE splits == SplitKs[graph.gemms[opAt][wklAt]]
           slot == GemmSlot(opAt, wklAt)
           jobs == [i \in DOMAIN splits |-> [slot |-> slot, split |-> splits[i]]]
<1>1. /\ graph.gemms # <<>> /\ opAt \in DOMAIN graph.gemms /\ wklAt \in DOMAIN graph.gemms[opAt]
      /\ Submit(jobs) /\ UNCHANGED <<workers, instances, joiner, devices>>
  <2>1. /\ graph.gemms # <<>> /\ opAt \in DOMAIN graph.gemms /\ wklAt \in DOMAIN graph.gemms[opAt]
        /\ Submit(jobs) /\ UNCHANGED taskVars
    BY DEF GemmProfile, AtWorkload
  <2>2. UNCHANGED <<workers, instances, joiner, devices>>
    BY <2>1 DEF Submit, taskVars
  <2>3. QED
    BY <2>1, <2>2
<1>2. PICK k \in DOMAIN Graphs : graph = Graphs[k]
  BY <1>1 DEF PoolInv, PhaseInv, EmptyGraph
<1>3. /\ splits \in Seq(Nat) /\ splits # <<>>
      /\ \A i \in DOMAIN splits : [slot |-> slot, split |-> splits[i]] \in Jobs
  BY <1>1, <1>2, JobsAssumption
<1>4. slot \in Workloads(graph)
  BY <1>1 DEF Workloads
<1> HIDE DEF splits, slot
<1>5. /\ DOMAIN splits = 1 .. Len(splits) /\ Len(splits) \in Nat /\ Len(splits) # 0
      /\ \A i \in DOMAIN splits : splits[i] \in Nat
  BY <1>3, LenProperties, EmptySeq, ElementOfSeq
<1>6. jobs \in [1 .. Len(splits) -> Jobs]
  BY <1>3, <1>5
<1>7. \A i \in DOMAIN jobs : jobs[i].slot = slot /\ jobs[i].split \in Nat
  BY <1>5
<1> HIDE DEF jobs
<1>8. jobs \in Seq(Jobs) /\ Len(jobs) = Len(splits)
  BY <1>5, <1>6, FunctionIsSeq
<1>9. /\ futures' \in Seq(Future)
      /\ Len(futures') = Len(futures) + Len(jobs)
      /\ DOMAIN futures \subseteq DOMAIN futures'
      /\ \A f \in DOMAIN futures : futures'[f] = futures[f]
      /\ \A f \in DOMAIN futures' : f \notin DOMAIN futures =>
           /\ f > Len(futures) /\ f - Len(futures) \in DOMAIN jobs
           /\ futures'[f] = [job |-> jobs[f - Len(futures)], state |-> "pending"]
  BY <1>1, <1>8, SubmitAdds DEF PoolInv
<1>10. DOMAIN futures = 1 .. Len(futures) /\ Len(futures) \in Nat
  BY LenProperties DEF PoolInv, PoolTypeOK
<1>11. DOMAIN futures' = 1 .. Len(futures) + Len(jobs)
  BY <1>9, LenProperties
<1>12. ASSUME NEW f \in DOMAIN futures' \ DOMAIN futures
       PROVE  /\ futures'[f].job.slot = slot /\ futures'[f].job.split \in Nat
              /\ futures'[f].state = "pending" /\ \A g \in DOMAIN futures : g < f
  BY <1>7, <1>9, <1>10, <1>11
<1>13. Len(futures) + 1 \in DOMAIN futures' \ DOMAIN futures
  BY <1>5, <1>8, <1>10, <1>11
<1>14. QED
  BY <1>1, <1>4, <1>9, <1>12, <1>13 DEF slot

\* Every step of profiling keeps the jobs those of the graph.
LEMMA JobsStep ==
  ASSUME JobsInv, PoolInv, AlgoInv, [Next]_vars
  PROVE  JobsInv'
<1> USE DEF JobsInv, OfGemm
<1>1. PoolTypeOK /\ FutureInv /\ PhaseInv
  BY DEF PoolInv
<1>2. ASSUME NEW devs \in Seq(Devices), NewRunner(devs), NewPool(devs), opAt' = 1, wklAt' = 1,
             phase' # "done"
      PROVE  JobsInv'
  <2>1. DOMAIN workers' = DOMAIN devices' /\ futures' = <<>> /\ instances' = <<>>
    BY <1>2 DEF NewRunner, NewPool
  <2>2. instances' \in Seq(Instance)
    BY <2>1, EmptySeq
  <2>3. QED
    BY <1>2, <2>1, <2>2
<1>3. ASSUME NEW devs \in DeviceLists, StartCompile(devs) PROVE JobsInv'
  BY <1>2, <1>3, ProfilingAssumption DEF StartCompile
<1>4. CASE EndProcess \/ Crash
  BY <1>2, <1>4, EmptySeq DEF EndProcess, Crash, Forget
<1>5. ASSUME UNCHANGED poolVars, UNCHANGED <<graph, devices>>, opAt' \in Nat, wklAt' \in Nat,
             phase' \in {"idle", "norms"} => phase \in {"idle", "norms"},
             phase' = "done" => phase = "done"
      PROVE  JobsInv'
  <2>1. UNCHANGED <<futures, instances, workers, joiner>>
    BY <1>5 DEF poolVars
  <2>2. QED
    BY <1>5, <2>1
<1>6. CASE NormCached \/ NormProfile \/ NormRunner \/ NormEnvironment \/ NormChoose \/ NormsDone
           \/ GemmCached \/ GemmRaised \/ UNCHANGED vars
  <2>1. UNCHANGED poolVars /\ UNCHANGED graph
    BY <1>6 DEF NormCached, NormProfile, NormRunner, NormEnvironment, NormChoose, NormsDone,
                GemmCached, GemmRaised, vars, ownVars
  <2>2. UNCHANGED devices
    BY <1>6 DEF NormCached, NormProfile, NormRunner, NormEnvironment, NormChoose, NormsDone,
                GemmCached, GemmRaised, vars, taskVars, PushAndJoin, NewRunner, RunnerStep,
                StartSweep, SkipTask, StartTask, PollTimesOut, PollEnded, PollRunning, EndSweep,
                PullTask, PullReturns, NextTask, TaskEnds, ProcessStep, Exit, Tick
  <2>3. opAt' \in Nat /\ wklAt' \in Nat
    BY <1>6 DEF NormCached, NormProfile, NormRunner, NormEnvironment, NormChoose, NormsDone,
                GemmCached, NextOp, GemmRaised, vars, ownVars
  <2>4. /\ phase' \in {"idle", "norms"} => phase \in {"idle", "norms"}
        /\ phase' = "done" => phase = "done"
    BY <1>6 DEF NormCached, NormProfile, NormRunner, NormEnvironment, NormChoose, NormsDone,
                AtNorm, GemmCached, AtWorkload, GemmRaised, vars, ownVars
  <2>5. QED
    BY <1>5, <2>1, <2>2, <2>3, <2>4
<1>7. CASE GemmProfile
  <2> DEFINE slot == GemmSlot(opAt, wklAt)
  <2>1. /\ slot \in Workloads(graph)
        /\ DOMAIN futures \subseteq DOMAIN futures'
        /\ \A f \in DOMAIN futures : futures'[f] = futures[f]
        /\ \A f \in DOMAIN futures' \ DOMAIN futures :
             futures'[f].job.slot = slot /\ futures'[f].job.split \in Nat
        /\ UNCHANGED <<workers, instances, joiner, devices>>
    BY <1>7, JobsPushed
  <2> HIDE DEF slot
  <2>2. phase = "gemms" /\ UNCHANGED <<phase, graph>> /\ opAt' \in Nat /\ wklAt' \in Nat
    BY <1>7 DEF GemmProfile, AtWorkload, NextOp
  <2>3. ASSUME NEW f \in DOMAIN futures'
        PROVE  futures'[f].job.slot \in Workloads(graph) /\ futures'[f].job.split \in Nat
    BY <2>1
  <2>4. QED
    BY <2>1, <2>2, <2>3
<1>8. CASE GemmsDone \/ Postprocess
  <2>1. /\ UNCHANGED <<graph, opAt, wklAt, devices, futures, workers, instances>>
        /\ phase' \notin {"idle", "norms"} /\ (phase' = "done" => joiner' = "joined")
    BY <1>8 DEF GemmsDone, JoinPool, Postprocess, taskVars
  <2>2. QED
    BY <2>1
<1>9. CASE (\E w \in DOMAIN workers : GemmWorker(w)) \/ GemmJoin
  <2>1. UNCHANGED <<phase, graph, opAt, wklAt, devices>>
    BY <1>9 DEF GemmWorker, GemmJoin, ownVars, taskVars
  <2>2. /\ DOMAIN futures' = DOMAIN futures /\ DOMAIN workers' = DOMAIN workers
        /\ \A f \in DOMAIN futures : futures'[f].job = futures[f].job
    BY <1>1, <1>9, PoolSteps
  <2>3. phase = "done" => UNCHANGED joiner
    BY <1>9 DEF GemmWorker, WorkerStep, LaunchRaises, TakeFuture, GetDevice, Collect, Signal,
                ProfilerEnds, GemmJoin
  <2>4. CASE UNCHANGED instances
    <3>1. futures = <<>> => futures' \in Seq(Future) /\ DOMAIN futures' = {}
      <4>1. PoolTypeOK'
        BY PoolKept DEF PoolInv
      <4>2. QED
        BY <2>2, <4>1 DEF PoolTypeOK
    <3>2. futures = <<>> => futures' = <<>>
      BY <3>1, LenProperties, EmptySeq
    <3>3. QED
      BY <2>1, <2>2, <2>3, <2>4, <3>2
  <2>5. CASE instances' # instances
    <3>1. PICK w \in DOMAIN workers : GemmWorker(w)
      BY <1>9, <2>5 DEF GemmJoin, JoinStep, WaitReturns, WaitTimesOut, GetDone, GetTimesOut
    <3>2. UNCHANGED futures
      BY <1>1, <2>5, <3>1, Collected
    <3>3. PICK new \in Instance :
            /\ instances' = Append(instances, new)
            /\ new.future \in DOMAIN futures /\ new.job = futures[new.future].job
      BY <1>1, <2>5, <3>1, Collected
    <3>4. /\ instances' \in Seq(Instance) /\ Len(instances) \in Nat
          /\ DOMAIN instances = 1 .. Len(instances) /\ DOMAIN instances' = 1 .. Len(instances) + 1
          /\ \A i \in DOMAIN instances : instances'[i] = instances[i]
          /\ instances'[Len(instances) + 1] = new
      BY <3>3, Appended
    <3>5. \A i \in DOMAIN instances' : instances'[i] = new \/
                                       (i \in DOMAIN instances /\ instances'[i] = instances[i])
      BY <3>4
    <3>6. QED
      BY <2>1, <2>2, <2>3, <3>2, <3>3, <3>4, <3>5
  <2>6. QED
    BY <2>4, <2>5
<1>10. QED
  BY <1>3, <1>4, <1>6, <1>7, <1>8, <1>9 DEF Next

\* A group has a first instance and a winner, and the delegate's choice is an Algo.
LEMMA GroupChoice ==
  ASSUME JobsInv, PhaseInv
  PROVE  /\ \A i \in DOMAIN instances :
              /\ FirstOf(i) \in DOMAIN instances
              /\ Winner(i) \in DOMAIN instances
              /\ instances[Winner(i)].job.slot = instances[i].job.slot
              /\ instances[i].job.slot \in Workloads(graph)
              /\ AlgoOf(Winner(i)) \in Algo
         /\ GroupStarts \subseteq DOMAIN instances
         /\ \A mine \in SUBSET GroupStarts : mine # {} =>
              /\ (CHOOSE i \in mine : \A j \in mine : j <= i) \in mine
              /\ (CHOOSE i \in mine : \A j \in mine : i <= j) \in mine
<1> DEFINE n == Len(instances)
<1>1. n \in Nat /\ DOMAIN instances = 1 .. n /\ \A i \in DOMAIN instances : instances[i] \in Instance
  BY LenProperties, ElementOfSeq DEF JobsInv
<1>2. ASSUME NEW i \in DOMAIN instances
      PROVE  instances[i].job.slot \in Workloads(graph) /\ AlgoOf(i) \in Algo
  <2>1. instances[i].job.slot \in Workloads(graph) /\ instances[i].job.split \in Nat
    BY DEF JobsInv, OfGemm
  <2>2. KeyOf(graph, instances[i].job.slot) \in Keys
    BY <2>1, GraphNow
  <2>3. instances[i].duration \in Nat
    BY <1>1 DEF Instance
  <2>4. QED
    BY <2>1, <2>2, <2>3 DEF AlgoOf, Algo
<1>3. ASSUME NEW i \in DOMAIN instances
      PROVE  /\ FirstOf(i) \in DOMAIN instances
             /\ Winner(i) \in DOMAIN instances
             /\ instances[Winner(i)].job.slot = instances[i].job.slot
  BY InGroup DEF JobsInv
<1>4. GroupStarts \subseteq DOMAIN instances
  BY <1>3 DEF GroupStarts
<1> HIDE DEF n
<1>5. ASSUME NEW mine \in SUBSET GroupStarts, mine # {}
      PROVE  /\ (CHOOSE i \in mine : \A j \in mine : j <= i) \in mine
             /\ (CHOOSE i \in mine : \A j \in mine : i <= j) \in mine
  <2>1. mine \in SUBSET (1 .. n) /\ mine \in SUBSET Nat
    BY <1>1, <1>4
  <2>2. \E i \in mine : \A j \in mine : j <= i
    <3>1. n \in Nat /\ \A j \in mine : j <= n
      BY <1>1, <2>1
    <3>2. QED
      BY <1>5, <2>1, <3>1, Greatest
  <2>3. \E i \in mine : \A j \in mine : i <= j
    BY <1>5, <2>1, Least
  <2>4. QED
    BY <2>2, <2>3
<1>6. QED
  BY <1>2, <1>3, <1>4, <1>5

\* A step that leaves the graph and what is kept alone, or keeps what is chosen.
LEMMA AlgoKept ==
  ASSUME AlgoInv, UNCHANGED <<graph, algo, cache>>, saved' \in {saved, cache},
         phase' \in {"idle", "norms", "gemms", "join", "done", "failed"}
  PROVE  AlgoInv'
  BY DEF AlgoInv

LEMMA NormChooseTyped ==
  ASSUME AlgoInv, PhaseInv, TaskInv, NormChoose
  PROVE  AlgoInv' /\ (results # <<>> => algo'[NormSlot(opAt)] \in Algo)
<1> USE DEF AlgoInv
<1>1. UNCHANGED <<saved, graph>> /\ opAt \in DOMAIN graph.norms
  BY DEF NormChoose, AtNorm
<1>2. CASE results = <<>>
  BY <1>1, <1>2 DEF NormChoose
<1>3. CASE results # <<>>
  <2> DEFINE k == graph.norms[opAt]
             slot == NormSlot(opAt)
             a == [of |-> k, config |-> Chosen.idx, duration |-> Chosen.ret.duration]
  <2>1. algo' = [algo EXCEPT ![slot] = a] /\ cache' = Insert(cache, a) /\ UNCHANGED phase
    BY <1>3 DEF NormChoose
  <2>2. k \in Keys /\ slot \in DOMAIN algo
    BY <1>1, GraphNow
  <2>3. PICK i \in DOMAIN results : Chosen = results[i]
    BY <1>3, ChosenIsResult, TaskTypes
  <2>4. Chosen \in Result
    BY <2>3, LenProperties, ElementOfSeq, TaskTypes
  <2>5. Chosen.idx \in Nat /\ Chosen.ret.duration \in Nat
    <3>1. /\ Chosen.idx \in Indices
          /\ Chosen.ret \in [op : Indices \cup {0}, duration : Durations \cup {Silent}]
      BY <2>4 DEF Result
    <3>2. Chosen.ret.duration \in Durations \cup {Silent}
      BY <3>1
    <3>3. Indices \subseteq Nat /\ Durations \cup {Silent} \subseteq Nat
      BY DEF Silent
    <3>4. QED
      BY <3>1, <3>2, <3>3
  <2>6. a \in Algo /\ a.of = k
    BY <2>2, <2>5 DEF Algo
  <2> HIDE DEF a, k, slot
  <2>7. cache' \in [Keys -> Algo \cup {NoAlgo}]
    BY <2>1, <2>2, <2>6 DEF Insert
  <2>8. algo'[slot] = a
    BY <2>1, <2>2
  <2>9. AlgoInv'
    BY <1>1, <2>1, <2>6, <2>7
  <2>10. QED
    BY <2>6, <2>8, <2>9 DEF slot
<1>4. QED
  BY <1>2, <1>3

LEMMA PostprocessTyped ==
  ASSUME AlgoInv, PhaseInv, JobsInv, Postprocess
  PROVE  AlgoInv'
<1> USE DEF AlgoInv
<1>1. UNCHANGED <<graph, saved>> /\ phase' = "done"
  BY DEF Postprocess
<1>2. ASSUME NEW mine \in SUBSET GroupStarts, mine # {}
      PROVE  /\ AlgoOf(Winner(CHOOSE i \in mine : \A j \in mine : j <= i)) \in Algo
             /\ AlgoOf(Winner(CHOOSE i \in mine : \A j \in mine : i <= j)) \in Algo
  BY <1>2, GroupChoice
<1>3. ASSUME NEW s \in DOMAIN algo
      PROVE  algo'[s] \in Algo \cup {NoAlgo}
  <2> DEFINE mine == {i \in GroupStarts : instances[i].job.slot = s}
  <2>1. algo'[s] = IF mine = {} THEN algo[s]
                   ELSE AlgoOf(Winner(CHOOSE i \in mine : \A j \in mine : j <= i))
    BY DEF Postprocess
  <2>2. mine \in SUBSET GroupStarts
    OBVIOUS
  <2> HIDE DEF mine
  <2>3. QED
    BY <1>2, <2>1, <2>2
<1>4. ASSUME NEW k \in Keys
      PROVE  cache'[k] \in Algo \cup {NoAlgo}
  <2> DEFINE mine == {i \in GroupStarts : KeyOf(graph, instances[i].job.slot) = k}
  <2>1. cache'[k] = IF mine = {} \/ cache[k] # NoAlgo THEN cache[k]
                    ELSE AlgoOf(Winner(CHOOSE i \in mine : \A j \in mine : i <= j))
    BY DEF Postprocess
  <2>2. mine \in SUBSET GroupStarts
    OBVIOUS
  <2> HIDE DEF mine
  <2>3. QED
    BY <1>2, <2>1, <2>2
<1>5. DOMAIN algo' = DOMAIN algo /\ DOMAIN cache' = Keys
      /\ cache' = [k \in Keys |-> cache'[k]]
  BY DEF Postprocess
<1>6. cache' \in [Keys -> Algo \cup {NoAlgo}]
  BY <1>4, <1>5
<1>7. QED
  BY <1>1, <1>3, <1>5, <1>6

\* Every step of profiling keeps the types of what is chosen.
LEMMA AlgoStep ==
  ASSUME AlgoInv, JobsInv, PoolInv, TaskInv, [Next]_vars
  PROVE  AlgoInv'
<1>1. PhaseInv
  BY DEF PoolInv
<1>2. ASSUME NEW devs \in DeviceLists, StartCompile(devs) PROVE AlgoInv'
  <2>1. /\ UNCHANGED <<cache, saved>> /\ phase' = "norms"
        /\ algo' = [s \in Slots(graph') |->
                      IF s[1] = "gemm" THEN cache[KeyOf(graph', s)] ELSE NoAlgo]
    BY <1>2 DEF StartCompile
  <2>2. graph' \in [norms : Seq(Keys), gemms : Seq(Seq(Keys))]
    BY <1>1, <1>2, GraphStarts
  <2>3. ASSUME NEW s \in Slots(graph')
        PROVE  algo'[s] \in Algo \cup {NoAlgo}
    <3>1. s[1] = "gemm" => KeyOf(graph', s) \in Keys
      BY <2>2, GraphKeys
    <3>2. QED
      BY <2>1, <3>1 DEF AlgoInv
  <2>4. QED
    BY <2>1, <2>3 DEF AlgoInv
<1>3. CASE NormCached
  <2>1. graph.norms[opAt] \in Keys
    BY <1>1, <1>3, GraphNow DEF NormCached, AtNorm
  <2>2. QED
    BY <1>3, <2>1 DEF NormCached, AlgoInv
<1>4. CASE EndProcess \/ Crash
  <2>1. Slots(EmptyGraph) = {}
    BY DEF Slots, EmptyGraph
  <2>2. /\ phase' = "idle" /\ graph' = EmptyGraph /\ algo' = <<>> /\ DOMAIN algo' = {}
        /\ \/ UNCHANGED cache /\ saved' = cache
           \/ cache' = saved /\ UNCHANGED saved
    BY <1>4 DEF EndProcess, Crash, Forget
  <2>3. QED
    BY <2>1, <2>2 DEF AlgoInv
<1>5. CASE NormChoose
  BY <1>1, <1>5, NormChooseTyped
<1>6. CASE Postprocess
  BY <1>1, <1>6, PostprocessTyped
<1>7. CASE \/ NormProfile \/ NormRunner \/ NormEnvironment \/ NormsDone
           \/ GemmCached \/ GemmProfile \/ GemmsDone \/ GemmJoin \/ GemmRaised
           \/ (\E w \in DOMAIN workers : GemmWorker(w)) \/ UNCHANGED vars
  <2>1. UNCHANGED <<graph, algo, cache>> /\ saved' \in {saved, cache}
    BY <1>7 DEF NormProfile, NormRunner, NormEnvironment, NormsDone, GemmCached, GemmProfile,
                GemmsDone, GemmJoin, GemmRaised, GemmWorker, vars, ownVars
  <2>2. phase' \in {"idle", "norms", "gemms", "join", "done", "failed"}
    BY <1>7 DEF NormProfile, NormRunner, NormEnvironment, NormsDone, GemmCached, GemmProfile,
                GemmsDone, GemmJoin, GemmRaised, GemmWorker, vars, ownVars, AlgoInv
  <2>3. QED
    BY <2>1, <2>2, AlgoKept
<1>8. QED
  BY <1>2, <1>3, <1>4, <1>5, <1>6, <1>7 DEF Next

\* What every step of profiling keeps.
ProfilingInv == TaskInv /\ PoolInv /\ JobsInv /\ AlgoInv

LEMMA ProfilingStarts == Init => ProfilingInv
<1>1. Init => JobsInv
  BY EmptySeq DEF Init, JobsInv
<1>2. Init => AlgoInv
  <2>1. Slots(EmptyGraph) = {}
    BY DEF Slots, EmptyGraph
  <2>2. QED
    BY <2>1 DEF Init, AlgoInv
<1>3. QED
  BY <1>1, <1>2, TaskInit, PoolInit DEF ProfilingInv

LEMMA ProfilingKept == ProfilingInv /\ [Next]_vars => ProfilingInv'
  BY TaskStep, PoolKept, JobsStep, AlgoStep DEF ProfilingInv

\* Everything has its type, the kernels that are chosen and kept included, whatever the
\* profilers print, which of them are launched, and when the process crashes.
THEOREM ProfilingTypes == Spec => []TypeOK
<1>1. ProfilingInv => TypeOK
  BY DEF ProfilingInv, TaskInv, PoolInv, PhaseInv, AlgoInv, TypeOK
<1>2. QED
  BY <1>1, ProfilingStarts, ProfilingKept, PTL DEF Spec

----------------------------------------------------------------------------
(* What is measured                                                        *)

\* What is chosen or kept was measured.
ChoiceInv ==
  /\ ChosenWasMeasured
  /\ DOMAIN cache = Keys /\ DOMAIN saved = Keys

\* ChosenWasMeasured in two parts.
GoodAlgo(a, k) == a # NoAlgo => a.of = k /\ a.duration \in Durations
GoodTable(table) == \A k \in Keys : GoodAlgo(table[k], k)

LEMMA InParts ==
  ChosenWasMeasured <=> /\ \A s \in DOMAIN algo : GoodAlgo(algo[s], KeyOf(graph, s))
                        /\ GoodTable(cache) /\ GoodTable(saved)
  BY DEF ChosenWasMeasured, GoodAlgo, GoodTable

\* The choices of a new compilation come from the database.
LEMMA StartKeeps ==
  ASSUME ChoiceInv, PoolInv, NEW devs \in DeviceLists, StartCompile(devs)
  PROVE  ChoiceInv'
<1>1. graph' \in [norms : Seq(Keys), gemms : Seq(Seq(Keys))]
  BY GraphStarts DEF PoolInv
<1>2. ASSUME NEW s \in Slots(graph'), s[1] = "gemm"
      PROVE  KeyOf(graph', s) \in Keys
  BY <1>1, <1>2, GraphKeys
<1>3. /\ UNCHANGED <<cache, saved>>
      /\ algo' = [s \in Slots(graph') |->
                    IF s[1] = "gemm" THEN cache[KeyOf(graph', s)] ELSE NoAlgo]
  BY DEF StartCompile
<1>4. GoodTable(cache) /\ GoodTable(saved)
  BY InParts DEF ChoiceInv
<1>5. ASSUME NEW s \in DOMAIN algo' PROVE GoodAlgo(algo'[s], KeyOf(graph', s))
  <2>1. CASE s[1] = "gemm"
    BY <1>2, <1>3, <1>4, <2>1 DEF GoodTable
  <2>2. CASE s[1] # "gemm"
    BY <1>3, <2>2 DEF GoodAlgo
  <2>3. QED
    BY <2>1, <2>2
<1>6. ChosenWasMeasured'
  BY <1>3, <1>4, <1>5 DEF ChosenWasMeasured, GoodAlgo, GoodTable
<1>7. QED
  BY <1>3, <1>6 DEF ChoiceInv

\* What the database has is taken over.
LEMMA NormCachedKeeps ==
  ASSUME ChoiceInv, PoolInv, NormCached
  PROVE  ChoiceInv'
<1> DEFINE k == graph.norms[opAt]
           slot == NormSlot(opAt)
<1>1. /\ UNCHANGED <<cache, graph>> /\ saved' = cache
      /\ algo' = [algo EXCEPT ![slot] = cache[k]] /\ opAt \in DOMAIN graph.norms
  BY DEF NormCached, AtNorm
<1>2. k \in Keys /\ KeyOf(graph, slot) = k
  BY <1>1, GraphNow DEF PoolInv, KeyOf, NormSlot
<1>3. GoodTable(cache) /\ \A s \in DOMAIN algo : GoodAlgo(algo[s], KeyOf(graph, s))
  BY InParts DEF ChoiceInv
<1>4. GoodAlgo(cache[k], k)
  BY <1>2, <1>3 DEF GoodTable
<1> HIDE DEF k, slot
<1>5. \A s \in DOMAIN algo' : GoodAlgo(algo'[s], KeyOf(graph, s))
  BY <1>1, <1>2, <1>3, <1>4
<1>6. ChosenWasMeasured'
  BY <1>1, <1>3, <1>5 DEF ChosenWasMeasured, GoodAlgo, GoodTable
<1>7. QED
  BY <1>1, <1>6 DEF ChoiceInv

\* The kernel that a function has chosen was measured for its key.
LEMMA NormChooseKeeps ==
  ASSUME ChoiceInv, PoolInv, TaskInv, Silent \notin Faults, NormChoose
  PROVE  ChoiceInv'
<1>1. UNCHANGED <<saved, graph>> /\ opAt \in DOMAIN graph.norms
  BY DEF NormChoose, AtNorm
<1>2. GoodTable(cache) /\ GoodTable(saved) /\ \A s \in DOMAIN algo : GoodAlgo(algo[s], KeyOf(graph, s))
  BY InParts DEF ChoiceInv
<1>3. CASE results = <<>>
  <2>1. UNCHANGED <<algo, cache>>
    BY <1>3 DEF NormChoose
  <2>2. QED
    BY <1>1, <2>1 DEF ChoiceInv, ChosenWasMeasured
<1>4. CASE results # <<>>
  <2> DEFINE k == graph.norms[opAt]
             slot == NormSlot(opAt)
             a == [of |-> k, config |-> Chosen.idx, duration |-> Chosen.ret.duration]
  <2>1. algo' = [algo EXCEPT ![slot] = a] /\ cache' = Insert(cache, a)
    BY <1>4 DEF NormChoose
  <2>2. k \in Keys /\ KeyOf(graph, slot) = k
    BY <1>1, GraphNow DEF PoolInv, KeyOf, NormSlot
  <2>3. Chosen.ret.duration \in Durations
    BY <1>4, ChosenIsResult, TaskTypes DEF Printed
  <2>4. a.of = k /\ GoodAlgo(a, k)
    BY <2>3 DEF GoodAlgo
  <2> HIDE DEF a, k, slot
  <2>5. \A s \in DOMAIN algo' : GoodAlgo(algo'[s], KeyOf(graph, s))
    BY <1>2, <2>1, <2>2, <2>4
  <2>6. GoodTable(cache') /\ DOMAIN cache' = Keys
    BY <1>2, <2>1, <2>2, <2>4 DEF Insert, GoodTable, ChoiceInv
  <2>7. ChosenWasMeasured'
    BY <1>1, <1>2, <2>5, <2>6 DEF ChosenWasMeasured, GoodAlgo, GoodTable
  <2>8. QED
    BY <1>1, <2>6, <2>7 DEF ChoiceInv
<1>5. QED
  BY <1>3, <1>4

\* What the delegate chooses for a workload is the winner of a group of this workload.
LEMMA PostprocessKeeps ==
  ASSUME ChoiceInv, ProfilingInv, Postprocess
  PROVE  ChoiceInv'
<1>1. JobsInv /\ PhaseInv
  BY DEF ProfilingInv, PoolInv
<1>2. GroupStarts \subseteq DOMAIN instances
  BY <1>1, GroupChoice
<1>3. GoodTable(cache) /\ GoodTable(saved) /\ \A s \in DOMAIN algo : GoodAlgo(algo[s], KeyOf(graph, s))
  BY InParts DEF ChoiceInv
<1>4. UNCHANGED <<graph, saved>>
  BY DEF Postprocess
<1>5. ASSUME NEW i \in DOMAIN instances
      PROVE  GoodAlgo(AlgoOf(Winner(i)), KeyOf(graph, instances[i].job.slot))
  <2>1. /\ Winner(i) \in DOMAIN instances
        /\ instances[Winner(i)].job.slot = instances[i].job.slot
    BY <1>1, GroupChoice
  <2>2. instances[Winner(i)] \in Instance
    BY <1>1, <2>1, LenProperties, ElementOfSeq DEF JobsInv
  <2>3. instances[Winner(i)].duration \in Durations
    BY <2>2 DEF Instance
  <2>4. QED
    BY <2>1, <2>3 DEF GoodAlgo, AlgoOf
<1>6. ASSUME NEW mine \in SUBSET GroupStarts, mine # {}
      PROVE  /\ (CHOOSE i \in mine : \A j \in mine : j <= i) \in mine
             /\ (CHOOSE i \in mine : \A j \in mine : i <= j) \in mine
  BY <1>1, <1>6, GroupChoice
<1>7. ASSUME NEW s \in DOMAIN algo' PROVE GoodAlgo(algo'[s], KeyOf(graph, s))
  <2> DEFINE mine == {i \in GroupStarts : instances[i].job.slot = s}
             i == CHOOSE i \in mine : \A j \in mine : j <= i
  <2>1. s \in DOMAIN algo /\ algo'[s] = IF mine = {} THEN algo[s] ELSE AlgoOf(Winner(i))
    BY DEF Postprocess
  <2>2. CASE mine = {}
    BY <1>3, <2>1, <2>2
  <2>3. CASE mine # {}
    <3>1. i \in mine
      BY <1>6, <2>3
    <3>2. i \in DOMAIN instances /\ instances[i].job.slot = s
      BY <1>2, <3>1
    <3> HIDE DEF i, mine
    <3>3. QED
      BY <1>5, <2>1, <2>3, <3>2
  <2>4. QED
    BY <2>2, <2>3
<1>8. DOMAIN cache' = Keys
  BY DEF Postprocess
<1>9. ASSUME NEW k \in Keys PROVE GoodAlgo(cache'[k], k)
  <2> DEFINE mine == {i \in GroupStarts : KeyOf(graph, instances[i].job.slot) = k}
             i == CHOOSE i \in mine : \A j \in mine : i <= j
  <2>1. cache'[k] = IF mine = {} \/ cache[k] # NoAlgo THEN cache[k] ELSE AlgoOf(Winner(i))
    BY DEF Postprocess
  <2>2. CASE mine = {} \/ cache[k] # NoAlgo
    BY <1>3, <2>1, <2>2 DEF GoodTable
  <2>3. CASE ~(mine = {} \/ cache[k] # NoAlgo)
    <3>1. i \in mine
      BY <1>6, <2>3
    <3>2. i \in DOMAIN instances /\ KeyOf(graph, instances[i].job.slot) = k
      BY <1>2, <3>1
    <3> HIDE DEF i, mine
    <3>3. QED
      BY <1>5, <2>1, <2>3, <3>2
  <2>4. QED
    BY <2>2, <2>3
<1>10. ChosenWasMeasured'
  BY <1>3, <1>4, <1>7, <1>9 DEF ChosenWasMeasured, GoodAlgo, GoodTable
<1>11. QED
  BY <1>4, <1>8, <1>10 DEF ChoiceInv

\* Every step of profiling keeps what is chosen measured.
LEMMA ChoiceKept ==
  ASSUME ChoiceInv, ProfilingInv, Silent \notin Faults, [Next]_vars
  PROVE  ChoiceInv'
<1>1. ASSUME NEW devs \in DeviceLists, StartCompile(devs) PROVE ChoiceInv'
  BY <1>1, StartKeeps DEF ProfilingInv
<1>2. PoolInv /\ TaskInv
  BY DEF ProfilingInv
<1>3. CASE EndProcess \/ Crash
  <2>1. /\ algo' = <<>>
        /\ \/ UNCHANGED cache /\ saved' = cache
           \/ cache' = saved /\ UNCHANGED saved
    BY <1>3 DEF EndProcess, Crash, Forget
  <2>2. GoodTable(cache) /\ GoodTable(saved)
    BY InParts DEF ChoiceInv
  <2>3. ChosenWasMeasured'
    BY <2>1, <2>2 DEF ChosenWasMeasured, GoodAlgo, GoodTable
  <2>4. QED
    BY <2>1, <2>3 DEF ChoiceInv
<1>4. CASE \/ NormProfile \/ NormRunner \/ NormEnvironment \/ NormsDone
           \/ GemmCached \/ GemmProfile \/ GemmsDone \/ GemmJoin \/ GemmRaised \/ UNCHANGED vars
           \/ (\E w \in DOMAIN workers : GemmWorker(w))
  <2>1. UNCHANGED <<algo, graph, cache>>
    BY <1>4 DEF NormProfile, NormRunner, NormEnvironment, NormsDone, GemmCached, GemmProfile,
                GemmsDone, GemmJoin, GemmRaised, GemmWorker, vars, ownVars
  <2>2. saved' = saved \/ saved' = cache
    BY <1>4 DEF NormProfile, NormRunner, NormEnvironment, NormsDone, GemmCached, GemmProfile,
                GemmsDone, GemmJoin, GemmRaised, GemmWorker, vars, ownVars
  <2>3. QED
    BY <2>1, <2>2 DEF ChoiceInv, ChosenWasMeasured
<1>5. QED
  BY <1>1, <1>2, <1>3, <1>4, NormCachedKeeps, NormChooseKeeps, PostprocessKeeps DEF Next

\* As long as no profiler ends silently, every kernel that is chosen, in this compilation or
\* by way of the database, crashes included, was measured for the very workload that it is
\* chosen for (gemm_common.py: postprocess_results; softmax.py: profile; profiler_cache.py).
THEOREM Measurements ==
  ASSUME Silent \notin Faults
  PROVE  Spec => []ChosenWasMeasured
<1> DEFINE I == ChoiceInv /\ ProfilingInv
<1>1. Init => I
  <2>1. Init => ChoiceInv
    BY DEF Init, ChoiceInv, ChosenWasMeasured
  <2>2. QED
    BY <2>1, ProfilingStarts
<1>2. I /\ [Next]_vars => I'
  BY ChoiceKept, ProfilingKept
<1>3. I => ChosenWasMeasured
  BY DEF ChoiceInv
<1> HIDE DEF I
<1>4. QED
  BY <1>1, <1>2, <1>3, PTL DEF Spec

----------------------------------------------------------------------------
(* One device                                                              *)

\* Profilers are pushed in the order of the workloads ...
Behind(s, op, wkl) == s[2] < op \/ (s[2] = op /\ s[3] < wkl)

OrderInv ==
  /\ \A f, g \in DOMAIN futures :
       f < g => ~Behind(futures[g].job.slot, futures[f].job.slot[2], futures[f].job.slot[3])
  /\ phase = "gemms" => \A f \in DOMAIN futures : Behind(futures[f].job.slot, opAt, wklAt)

\* ... and one worker runs them, and collects their results, in this order.
InTurn ==
  /\ \A i, j \in DOMAIN instances : i < j => instances[i].future < instances[j].future
  /\ \A i \in DOMAIN instances, f \in Pending : instances[i].future < f
  /\ \A w \in DOMAIN workers, f \in Pending : workers[w].at # "idle" => workers[w].future < f
  /\ \A w \in DOMAIN workers, i \in DOMAIN instances :
       workers[w].at \in {"get", "run", "collect"} => instances[i].future < workers[w].future

OneDeviceInv == OrderInv /\ (Len(devices) = 1 => InTurn)

\* What a workload is called.
LEMMA Named ==
  ASSUME PhaseInv, NEW s \in Workloads(graph)
  PROVE  /\ s[2] \in DOMAIN graph.gemms /\ s[3] \in DOMAIN graph.gemms[s[2]]
         /\ s[2] \in Nat /\ s[3] \in Nat /\ s = GemmSlot(s[2], s[3])
         /\ DOMAIN graph.gemms = 1 .. Len(graph.gemms) /\ Len(graph.gemms) \in Nat
<1>1. PICK i \in DOMAIN graph.gemms : \E j \in DOMAIN graph.gemms[i] : s = GemmSlot(i, j)
  BY DEF Workloads
<1>2. PICK j \in DOMAIN graph.gemms[i] : s = GemmSlot(i, j)
  BY <1>1
<1>3. s[2] = i /\ s[3] = j
  BY <1>2 DEF GemmSlot
<1>4. graph.gemms \in Seq(Seq(Keys))
  BY GraphNow
<1>5. DOMAIN graph.gemms = 1 .. Len(graph.gemms) /\ Len(graph.gemms) \in Nat
  BY <1>4, LenProperties
<1>6. graph.gemms[i] \in Seq(Keys)
  BY <1>4, <1>5, ElementOfSeq
<1>7. DOMAIN graph.gemms[i] \subseteq Nat
  BY <1>6, LenProperties
<1>8. QED
  BY <1>2, <1>3, <1>5, <1>7

\* Every step of profiling keeps the order of what is pushed.
LEMMA OrderStep ==
  ASSUME OrderInv, ProfilingInv, [Next]_vars
  PROVE  OrderInv'
<1> USE DEF OrderInv, Behind
<1>1. PhaseInv /\ PoolTypeOK /\ FutureInv /\ JobsInv /\ opAt \in Nat /\ wklAt \in Nat
  BY DEF ProfilingInv, PoolInv, JobsInv
<1>2. ASSUME NEW f \in DOMAIN futures
      PROVE  /\ f \in Nat /\ futures[f].job.slot \in Workloads(graph)
             /\ futures[f].job.slot[2] \in Nat /\ futures[f].job.slot[3] \in Nat
  BY <1>1, Futures, Named DEF JobsInv, OfGemm
<1>3. CASE (\E devs \in DeviceLists : StartCompile(devs)) \/ EndProcess \/ Crash
  <2>1. DOMAIN futures' = {}
    BY <1>3 DEF StartCompile, EndProcess, Crash, Forget, NewPool
  <2>2. QED
    BY <2>1
<1>4. CASE GemmProfile
  <2> DEFINE slot == GemmSlot(opAt, wklAt)
  <2>1. /\ DOMAIN futures \subseteq DOMAIN futures'
        /\ \A f \in DOMAIN futures : futures'[f] = futures[f]
        /\ \A f \in DOMAIN futures' \ DOMAIN futures :
             futures'[f].job.slot = slot /\ \A g \in DOMAIN futures : g < f
    BY <1>4, JobsPushed DEF ProfilingInv
  <2>2. slot[2] = opAt /\ slot[3] = wklAt
    BY DEF GemmSlot
  <2> HIDE DEF slot
  <2>3. PoolTypeOK'
    BY PoolKept DEF ProfilingInv, PoolInv
  <2>4. DOMAIN futures' \subseteq Nat
    BY <2>3, LenProperties DEF PoolTypeOK
  <2>5. phase = "gemms" /\ ((opAt' = opAt /\ wklAt' = wklAt + 1) \/ (opAt' = opAt + 1 /\ wklAt' = 1))
    BY <1>4 DEF GemmProfile, AtWorkload, NextOp
  <2>6. ASSUME NEW f \in DOMAIN futures', NEW g \in DOMAIN futures', f < g
        PROVE  ~Behind(futures'[g].job.slot, futures'[f].job.slot[2], futures'[f].job.slot[3])
    <3>1. CASE g \in DOMAIN futures
      <4>1. f \in DOMAIN futures
        BY <1>2, <2>1, <2>4, <2>6, <3>1
      <4>2. QED
        BY <2>1, <2>6, <3>1, <4>1
    <3>2. CASE f \in DOMAIN futures /\ g \notin DOMAIN futures
      <4>1. futures'[g].job.slot = slot /\ futures'[f] = futures[f]
        BY <2>1, <3>2
      <4>2. Behind(futures[f].job.slot, opAt, wklAt)
        BY <2>5, <3>2
      <4>3. QED
        BY <1>1, <1>2, <2>2, <3>2, <4>1, <4>2
    <3>3. CASE f \notin DOMAIN futures /\ g \notin DOMAIN futures
      BY <1>1, <2>1, <2>2, <3>3
    <3>4. QED
      BY <3>1, <3>2, <3>3
  <2>7. ASSUME NEW f \in DOMAIN futures'
        PROVE  Behind(futures'[f].job.slot, opAt', wklAt')
    <3>1. CASE f \in DOMAIN futures
      BY <1>1, <1>2, <2>1, <2>5, <3>1
    <3>2. CASE f \notin DOMAIN futures
      BY <1>1, <2>1, <2>2, <2>5, <3>2
    <3>3. QED
      BY <3>1, <3>2
  <2>8. QED
    BY <2>6, <2>7
<1>5. ASSUME DOMAIN futures' = DOMAIN futures,
             \A f \in DOMAIN futures : futures'[f].job = futures[f].job,
             phase' = "gemms" => \/ futures = <<>>
                                 \/ phase = "gemms" /\ UNCHANGED <<opAt, wklAt>>
                                 \/ phase = "gemms" /\ opAt' = opAt + 1
      PROVE  OrderInv'
  <2>1. ASSUME NEW f \in DOMAIN futures', phase' = "gemms"
        PROVE  Behind(futures'[f].job.slot, opAt', wklAt')
    <3>1. futures # <<>>
      BY <1>5, <2>1
    <3>2. phase = "gemms" /\ (UNCHANGED <<opAt, wklAt>> \/ opAt' = opAt + 1)
      BY <1>5, <2>1, <3>1
    <3>3. Behind(futures[f].job.slot, opAt, wklAt) /\ futures'[f].job = futures[f].job
      BY <1>5, <2>1, <3>2
    <3>4. QED
      BY <1>1, <1>2, <1>5, <2>1, <3>2, <3>3
  <2>2. QED
    BY <1>5, <2>1
<1>6. CASE \/ NormCached \/ NormProfile \/ NormRunner \/ NormEnvironment \/ NormChoose \/ NormsDone
           \/ GemmCached \/ GemmRaised \/ GemmsDone \/ Postprocess \/ UNCHANGED vars
  <2>1. UNCHANGED futures
    BY <1>6 DEF NormCached, NormProfile, NormRunner, NormEnvironment, NormChoose, NormsDone,
                GemmCached, GemmRaised, GemmsDone, JoinPool, Postprocess, vars, poolVars
  <2>2. phase' = "gemms" => \/ phase = "norms"
                            \/ phase = "gemms" /\ UNCHANGED <<opAt, wklAt>>
                            \/ phase = "gemms" /\ opAt' = opAt + 1
    BY <1>6 DEF NormCached, NormProfile, NormRunner, NormEnvironment, NormChoose, NormsDone,
                AtNorm, GemmCached, AtWorkload, NextOp, GemmRaised, GemmsDone, Postprocess, vars,
                ownVars
  <2>3. phase = "norms" => futures = <<>>
    BY <1>1 DEF JobsInv
  <2>4. QED
    BY <1>5, <2>1, <2>2, <2>3
<1>7. CASE (\E w \in DOMAIN workers : GemmWorker(w)) \/ GemmJoin
  <2>1. UNCHANGED <<phase, opAt, wklAt>>
    BY <1>7 DEF GemmWorker, GemmJoin, ownVars
  <2>2. /\ DOMAIN futures' = DOMAIN futures
        /\ \A f \in DOMAIN futures : futures'[f].job = futures[f].job
    BY <1>1, <1>7, PoolSteps
  <2>3. QED
    BY <1>5, <2>1, <2>2
<1>8. QED
  BY <1>3, <1>4, <1>6, <1>7 DEF Next

\* One device has one worker.
LEMMA OneWorker ==
  ASSUME ProfilingInv, Len(devices) = 1
  PROVE  \A v, w \in DOMAIN workers : v = w
<1>1. DOMAIN devices = 1 .. Len(devices)
  BY LenProperties DEF ProfilingInv, TaskInv
<1>2. DOMAIN workers = 1 .. 1
  BY <1>1 DEF ProfilingInv, JobsInv
<1>3. QED
  BY <1>2

\* A step that collects nothing, and after which a worker runs what it ran before.
LEMMA TurnKept ==
  ASSUME InTurn, UNCHANGED instances, Pending' \subseteq Pending,
         DOMAIN workers' = DOMAIN workers,
         \A w \in DOMAIN workers :
           workers'[w].at # "idle" => /\ workers[w].at # "idle"
                                      /\ workers'[w].future = workers[w].future
                                      /\ workers'[w].at \in {"get", "run", "collect"} =>
                                           workers[w].at \in {"get", "run", "collect"}
  PROVE  InTurn'
  BY DEF InTurn

LEMMA TakeFutureInTurn ==
  ASSUME ProfilingInv, InTurn, Len(devices) = 1, NEW w \in DOMAIN workers, TakeFuture(w)
  PROVE  InTurn'
<1>1. PICK f \in Pending : /\ \A g \in Pending : f <= g
                           /\ workers' = [workers EXCEPT ![w].future = f, ![w].at = "get"]
                           /\ SetState(f, "running")
  BY DEF TakeFuture
<1>2. PoolTypeOK /\ UNCHANGED instances
  BY DEF TakeFuture, ProfilingInv, PoolInv
<1>3. f \in DOMAIN futures
  BY DEF Pending
<1>4. /\ DOMAIN futures' = DOMAIN futures /\ futures'[f].state = "running"
      /\ \A g \in DOMAIN futures : g # f => futures'[g] = futures[g]
  BY <1>1, <1>2, <1>3, StateSet
<1>5. Pending' = Pending \ {f} /\ Pending \subseteq Nat
  BY <1>2, <1>4, Futures DEF Pending
<1>6. /\ DOMAIN workers' = {w} /\ workers'[w].future = f /\ workers'[w].at = "get"
      /\ workers[w] \in Worker
  BY <1>1, <1>2, OneWorker, Futures DEF Worker
<1>7. ASSUME NEW g \in Pending' PROVE f < g
  BY <1>1, <1>5
<1>8. QED
  BY <1>2, <1>5, <1>6, <1>7 DEF InTurn

LEMMA CollectInTurn ==
  ASSUME ProfilingInv, InTurn, Len(devices) = 1, NEW w \in DOMAIN workers, GemmWorker(w),
         instances' # instances
  PROVE  InTurn'
<1>1. PoolTypeOK /\ FutureInv
  BY DEF ProfilingInv, PoolInv
<1>2. /\ workers[w].at = "collect" /\ UNCHANGED futures
      /\ workers' = [workers EXCEPT ![w].at = "signal"]
  BY <1>1, Collected
<1>3. PICK new \in Instance : /\ instances' = Append(instances, new)
                              /\ new.future = workers[w].future /\ new.future \in DOMAIN futures
  BY <1>1, Collected
<1> DEFINE n == Len(instances)
<1>4. /\ n \in Nat /\ DOMAIN instances = 1 .. n /\ DOMAIN instances' = 1 .. n + 1
      /\ \A i \in DOMAIN instances : instances'[i] = instances[i]
      /\ instances'[n + 1] = new
  BY <1>3, Appended DEF ProfilingInv, JobsInv
<1> HIDE DEF n
<1>5. /\ DOMAIN workers' = {w} /\ workers'[w].future = new.future /\ workers'[w].at = "signal"
  <2>1. \A v \in DOMAIN workers : v = w
    BY OneWorker
  <2>2. DOMAIN workers' = DOMAIN workers /\ workers'[w] = [workers[w] EXCEPT !.at = "signal"]
    BY <1>2
  <2>3. workers[w] \in Worker
    BY <1>1, Futures
  <2>4. workers'[w].future = workers[w].future /\ workers'[w].at = "signal"
    BY <2>2, <2>3 DEF Worker
  <2>5. QED
    BY <1>3, <2>1, <2>2, <2>4
<1>6. Pending' = Pending
  BY <1>2 DEF Pending
<1>7. /\ \A i \in DOMAIN instances : instances[i].future < new.future
      /\ \A f \in Pending : new.future < f
  BY <1>2, <1>3 DEF InTurn
<1>8. ASSUME NEW i \in DOMAIN instances', NEW j \in DOMAIN instances', i < j
      PROVE  instances'[i].future < instances'[j].future
  <2>1. i \in DOMAIN instances /\ instances'[i] = instances[i]
    BY <1>4, <1>8
  <2>2. CASE j \in DOMAIN instances
    BY <1>4, <1>8, <2>1, <2>2 DEF InTurn
  <2>3. CASE j = n + 1
    BY <1>4, <1>7, <2>1, <2>3
  <2>4. QED
    BY <1>4, <2>2, <2>3
<1>9. ASSUME NEW i \in DOMAIN instances', NEW f \in Pending'
      PROVE  instances'[i].future < f
  <2>1. CASE i \in DOMAIN instances
    BY <1>4, <1>6, <2>1 DEF InTurn
  <2>2. CASE i = n + 1
    BY <1>4, <1>6, <1>7, <2>2
  <2>3. QED
    BY <1>4, <2>1, <2>2
<1>10. QED
  BY <1>5, <1>6, <1>7, <1>8, <1>9 DEF InTurn

\* On one device, results come in the order in which their profilers were pushed.
LEMMA TurnStep ==
  ASSUME ProfilingInv, OneDeviceInv, [Next]_vars
  PROVE  OneDeviceInv'
<1>1. OrderInv'
  BY OrderStep DEF OneDeviceInv
<1>2. PoolTypeOK /\ FutureInv /\ JobsInv
  BY DEF ProfilingInv, PoolInv
<1>3. CASE (\E devs \in DeviceLists : StartCompile(devs)) \/ EndProcess \/ Crash
  <2>1. /\ instances' = <<>> /\ futures' = <<>>
        /\ \A w \in DOMAIN workers' : workers'[w] = IdleWorker
    BY <1>3 DEF StartCompile, EndProcess, Crash, Forget, NewPool
  <2>2. DOMAIN instances' = {} /\ Pending' = {} /\ \A w \in DOMAIN workers' : workers'[w].at = "idle"
    BY <2>1 DEF Pending, IdleWorker
  <2>3. QED
    BY <1>1, <2>2 DEF InTurn, OneDeviceInv
<1>4. ASSUME Len(devices) = 1 => InTurn', UNCHANGED devices PROVE OneDeviceInv'
  BY <1>1, <1>4 DEF OneDeviceInv
<1>5. CASE \/ NormCached \/ NormProfile \/ NormRunner \/ NormEnvironment \/ NormChoose \/ NormsDone
           \/ GemmCached \/ GemmRaised \/ GemmsDone \/ Postprocess \/ UNCHANGED vars
  <2>1. UNCHANGED <<futures, instances, workers>>
    BY <1>5 DEF NormCached, NormProfile, NormRunner, NormEnvironment, NormChoose, NormsDone,
                GemmCached, GemmRaised, GemmsDone, JoinPool, Postprocess, vars, poolVars
  <2>2. UNCHANGED devices
    BY <1>5 DEF NormCached, NormProfile, NormRunner, NormEnvironment, NormChoose, NormsDone,
                GemmCached, GemmRaised, GemmsDone, Postprocess, vars, taskVars, PushAndJoin,
                NewRunner, RunnerStep, StartSweep, SkipTask, StartTask, PollTimesOut, PollEnded,
                PollRunning, EndSweep, PullTask, PullReturns, NextTask, TaskEnds, ProcessStep, Exit,
                Tick
  <2>3. Pending' = Pending
    BY <2>1 DEF Pending
  <2>4. QED
    BY <1>4, <2>1, <2>2, <2>3, TurnKept DEF OneDeviceInv
<1>6. CASE GemmProfile
  <2>1. /\ \A f \in DOMAIN futures : futures'[f] = futures[f]
        /\ \A f \in DOMAIN futures' \ DOMAIN futures : \A g \in DOMAIN futures : g < f
        /\ UNCHANGED <<workers, instances, devices>>
    BY <1>6, JobsPushed DEF ProfilingInv
  <2>2. \A f \in Pending' : f \in Pending \/ \A g \in DOMAIN futures : g < f
    BY <2>1 DEF Pending
  <2>3. /\ \A i \in DOMAIN instances : instances[i].future \in DOMAIN futures
        /\ \A w \in DOMAIN workers : workers[w].at # "idle" => workers[w].future \in DOMAIN futures
    BY <1>2 DEF JobsInv, FutureInv
  <2>4. InTurn => InTurn'
    BY <2>1, <2>2, <2>3 DEF InTurn
  <2>5. QED
    BY <1>4, <2>1, <2>4 DEF OneDeviceInv
<1>7. CASE (\E w \in DOMAIN workers : GemmWorker(w)) \/ GemmJoin
  <2>1. UNCHANGED devices
    BY <1>7 DEF GemmWorker, GemmJoin, taskVars
  <2>2. SUFFICES ASSUME Len(devices) = 1, InTurn PROVE InTurn'
    BY <1>4, <2>1 DEF OneDeviceInv
  <2>3. Pending' \subseteq Pending /\ DOMAIN workers' = DOMAIN workers
    BY <1>2, <1>7, PoolSteps DEF Pending
  <2>4. CASE GemmJoin
    <3>1. UNCHANGED <<instances, workers>>
      BY <2>4 DEF GemmJoin, JoinStep, WaitReturns, WaitTimesOut, GetDone, GetTimesOut
    <3>2. QED
      BY <2>2, <2>3, <3>1, TurnKept
  <2>5. ASSUME NEW w \in DOMAIN workers, GemmWorker(w) PROVE InTurn'
    <3>1. CASE TakeFuture(w)
      BY <2>2, <3>1, TakeFutureInTurn
    <3>2. CASE instances' # instances
      BY <2>2, <2>5, <3>2, CollectInTurn
    <3>3. CASE ~TakeFuture(w) /\ UNCHANGED instances
      <4>1. workers[w] \in Worker
        BY <1>2, Futures
      <4>2. \/ UNCHANGED workers
            \/ workers' = [workers EXCEPT ![w] = IdleWorker]
            \/ workers[w].at = "get" /\ workers' = [workers EXCEPT ![w].at = "run",
                                                               ![w].dev = Head(deviceQueue)]
            \/ workers[w].at = "collect" /\ workers' = [workers EXCEPT ![w].at = "signal"]
            \/ \E out \in Outputs :
                 workers[w].at = "run" /\ workers' = [workers EXCEPT ![w].at = "collect",
                                                      ![w].dev = NoDevice, ![w].out = out]
            \/ workers[w].at = "run" /\ workers' = [workers EXCEPT ![w].attempts = @ + 1]
        BY <2>5, <3>3
           DEF GemmWorker, WorkerStep, LaunchRaises, GetDevice, Collect, Signal, ProfilerEnds
      <4>3. \A v \in DOMAIN workers : v # w => workers'[v] = workers[v]
        BY <4>2
      <4>4. \/ workers'[w] = workers[w] \/ workers'[w] = IdleWorker
            \/ workers[w].at = "get" /\ workers'[w] = [workers[w] EXCEPT !.at = "run",
                                                                     !.dev = Head(deviceQueue)]
            \/ workers[w].at = "collect" /\ workers'[w] = [workers[w] EXCEPT !.at = "signal"]
            \/ \E out \in Outputs :
                 workers[w].at = "run" /\ workers'[w] = [workers[w] EXCEPT !.at = "collect",
                                                           !.dev = NoDevice, !.out = out]
            \/ workers[w].at = "run" /\ workers'[w] = [workers[w] EXCEPT !.attempts = @ + 1]
        BY <4>2
      <4>5. workers'[w].at # "idle" =>
              /\ workers'[w].future = workers[w].future /\ workers[w].at # "idle"
              /\ workers'[w].at \in {"get", "run", "collect"} =>
                   workers[w].at \in {"get", "run", "collect"}
        <5>1. CASE workers'[w] = workers[w] \/ workers'[w] = IdleWorker
          BY <5>1 DEF IdleWorker
        <5>2. CASE \/ workers[w].at = "get" /\ workers'[w] = [workers[w] EXCEPT !.at = "run",
                                                                     !.dev = Head(deviceQueue)]
                   \/ workers[w].at = "collect" /\ workers'[w] = [workers[w] EXCEPT !.at = "signal"]
          BY <4>1, <5>2 DEF Worker
        <5>3. CASE \E out \in Outputs :
                     workers[w].at = "run" /\ workers'[w] = [workers[w] EXCEPT !.at = "collect",
                                                               !.dev = NoDevice, !.out = out]
          BY <4>1, <5>3 DEF Worker
        <5>4. CASE workers[w].at = "run" /\ workers'[w] = [workers[w] EXCEPT !.attempts = @ + 1]
          BY <4>1, <5>4 DEF Worker
        <5>5. QED
          BY <4>4, <5>1, <5>2, <5>3, <5>4
      <4>6. QED
        BY <2>2, <2>3, <3>3, <4>3, <4>5, TurnKept
    <3>4. QED
      BY <3>1, <3>2, <3>3
  <2>6. QED
    BY <1>7, <2>4, <2>5
<1>8. QED
  BY <1>3, <1>5, <1>6, <1>7 DEF Next

\* When profiling is done, nothing runs any more.
LEMMA DoneStill ==
  ASSUME ProfilingInv, [Next]_vars, phase = "done", phase' = "done"
  PROVE  UNCHANGED <<graph, algo, splitK, futures, instances, devices>>
<1>1. joiner = "joined" /\ FutureInv /\ Signalled = DOMAIN futures
  BY DEF ProfilingInv, PoolInv, Counted, JobsInv
<1>2. \A w \in DOMAIN workers : workers[w].at = "idle"
  BY <1>1 DEF FutureInv, Signalled
<1>3. Pending = {}
  BY <1>1 DEF Pending, Signalled
<1>4. ASSUME NEW w \in DOMAIN workers PROVE ~GemmWorker(w)
  BY <1>2, <1>3 DEF GemmWorker, WorkerStep, LaunchRaises, TakeFuture, GetDevice, Collect, Signal,
                    ProfilerEnds
<1>5. UNCHANGED vars
  BY <1>4 DEF Next, StartCompile, NormCached, NormProfile, NormRunner, NormEnvironment, NormChoose,
              AtNorm, NormsDone, GemmCached, GemmProfile, AtWorkload, GemmsDone, GemmJoin,
              GemmRaised, Postprocess, EndProcess, Crash, Forget
<1>6. QED
  BY <1>5 DEF vars, ownVars, taskVars, poolVars

\* On one device the instances of a workload are neighbours.
LEMMA Neighbours ==
  ASSUME ProfilingInv, OrderInv, InTurn, NEW i \in DOMAIN instances, NEW j \in DOMAIN instances,
         instances[i].job.slot = instances[j].job.slot
  PROVE  SameGroup(i, j)
<1>1. PhaseInv /\ PoolTypeOK
  BY DEF ProfilingInv, PoolInv
<1>2. DOMAIN instances \subseteq Nat
  BY LenProperties DEF ProfilingInv, JobsInv
<1>3. ASSUME NEW h \in DOMAIN instances
      PROVE  /\ instances[h].future \in DOMAIN futures
             /\ instances[h].job.slot = futures[instances[h].future].job.slot
             /\ instances[h].job.slot \in Workloads(graph)
             /\ instances[h].job.slot[2] \in Nat /\ instances[h].job.slot[3] \in Nat
             /\ instances[h].job.slot = GemmSlot(instances[h].job.slot[2], instances[h].job.slot[3])
  <2>1. /\ instances[h].future \in DOMAIN futures
        /\ instances[h].job = futures[instances[h].future].job
        /\ instances[h].job.slot \in Workloads(graph)
    BY DEF ProfilingInv, JobsInv, OfGemm
  <2>2. QED
    BY <1>1, <2>1, Named
<1>4. ASSUME NEW k \in DOMAIN instances, NEW l \in DOMAIN instances, k < l
      PROVE  ~Behind(instances[l].job.slot, instances[k].job.slot[2], instances[k].job.slot[3])
  <2>1. instances[k].future < instances[l].future
    BY <1>4 DEF InTurn
  <2>2. QED
    BY <1>3, <2>1 DEF OrderInv
<1>5. ASSUME NEW k \in DOMAIN instances, NEW l \in DOMAIN instances, NEW h \in DOMAIN instances,
             instances[k].job.slot = instances[l].job.slot, k <= h, h <= l
      PROVE  instances[h].job.slot = instances[k].job.slot
  <2>1. CASE h = k \/ h = l
    BY <1>5, <2>1
  <2>2. CASE h # k /\ h # l
    <3>1. k < h /\ h < l
      BY <1>2, <1>5, <2>2
    <3>2. /\ ~Behind(instances[h].job.slot, instances[k].job.slot[2], instances[k].job.slot[3])
          /\ ~Behind(instances[l].job.slot, instances[h].job.slot[2], instances[h].job.slot[3])
      BY <1>4, <3>1
    <3> DEFINE s == instances[k].job.slot
               t == instances[h].job.slot
    <3>3. /\ s[2] \in Nat /\ s[3] \in Nat /\ t[2] \in Nat /\ t[3] \in Nat
          /\ s = GemmSlot(s[2], s[3]) /\ t = GemmSlot(t[2], t[3])
          /\ ~Behind(t, s[2], s[3]) /\ ~Behind(s, t[2], t[3])
      BY <1>3, <1>5, <3>2
    <3> HIDE DEF s, t
    <3>4. s[2] = t[2] /\ s[3] = t[3]
      BY <3>3 DEF Behind
    <3>5. s = t
      BY <3>3, <3>4
    <3>6. QED
      BY <3>5 DEF s, t
  <2>3. QED
    BY <2>1, <2>2
<1>6. ASSUME NEW h \in DOMAIN instances, (i <= h /\ h <= j) \/ (j <= h /\ h <= i)
      PROVE  instances[h].job.slot = instances[i].job.slot
  BY <1>5, <1>6
<1>7. QED
  BY <1>6 DEF SameGroup

\* What the delegate chooses on one device.
LEMMA FastestPicked ==
  ASSUME ProfilingInv, OneDeviceInv, Len(devices) = 1, Postprocess,
         NEW s \in DOMAIN algo, NEW i \in Measured(s)
  PROVE  algo'[s].duration <= instances[i].duration
<1>1. OrderInv /\ InTurn /\ JobsInv /\ PhaseInv
  BY DEF OneDeviceInv, ProfilingInv, PoolInv
<1>2. i \in DOMAIN instances /\ instances[i].job.slot = s
  BY DEF Measured
<1> DEFINE mine == {m \in GroupStarts : instances[m].job.slot = s}
           m == CHOOSE m \in mine : \A j \in mine : j <= m
<1>3. FirstOf(i) \in mine
  BY <1>1, <1>2, InGroup DEF JobsInv, GroupStarts
<1>4. m \in mine
  <2>1. mine \in SUBSET GroupStarts
    OBVIOUS
  <2> HIDE DEF mine
  <2>2. QED
    BY <1>1, <1>3, <2>1, GroupChoice
<1>5. algo'[s] = AlgoOf(Winner(m))
  <2>1. algo'[s] = IF mine = {} THEN algo[s] ELSE AlgoOf(Winner(m))
    BY DEF Postprocess
  <2>2. QED
    BY <1>3, <2>1
<1>6. m \in DOMAIN instances /\ instances[m].job.slot = s
  BY <1>1, <1>4, GroupChoice
<1> HIDE DEF m, mine
<1>7. SameGroup(m, i)
  BY <1>1, <1>2, <1>6, Neighbours
<1>8. instances[Winner(m)].duration <= instances[i].duration
  BY <1>1, <1>2, <1>6, <1>7, InGroup DEF JobsInv
<1>9. QED
  BY <1>5, <1>8 DEF AlgoOf

\* With one device, the kernel that is chosen for a workload of a GEMM is the fastest of those that
\* were measured for it (gemm_common.py: postprocess_results, "min runtime per op name, profiler
\* executable and exec_key"); with several devices it need not be.
THEOREM FastestWithOneDevice == Spec => []FastestOnOneDevice
<1> DEFINE I == ProfilingInv /\ OneDeviceInv /\ FastestOnOneDevice
<1>1. Init => I
  <2>1. ASSUME Init PROVE OneDeviceInv
    <3>1. instances = <<>> /\ futures = <<>> /\ workers = <<>> /\ phase = "idle"
      BY <2>1 DEF Init
    <3>2. Pending = {} /\ DOMAIN instances = {} /\ DOMAIN workers = {} /\ DOMAIN futures = {}
      BY <3>1 DEF Pending
    <3>3. QED
      BY <3>1, <3>2 DEF OneDeviceInv, OrderInv, InTurn
  <2>2. Init => FastestOnOneDevice
    BY DEF Init, FastestOnOneDevice
  <2>3. QED
    BY <2>1, <2>2, ProfilingStarts
<1>2. I /\ [Next]_vars => I'
  <2>1. SUFFICES ASSUME ProfilingInv, OneDeviceInv, FastestOnOneDevice, [Next]_vars
                 PROVE  FastestOnOneDevice'
    BY TurnStep, ProfilingKept
  <2>2. CASE Postprocess
    <3>1. UNCHANGED <<instances, devices>> /\ DOMAIN algo' = DOMAIN algo
      BY <2>2 DEF Postprocess, taskVars
    <3>2. \A s : Measured(s)' = Measured(s)
      BY <3>1 DEF Measured
    <3>3. QED
      BY <2>1, <2>2, <3>1, <3>2, FastestPicked DEF FastestOnOneDevice
  <2>3. CASE ~Postprocess /\ phase' = "done"
    <3>1. phase = "done"
      BY <2>1, <2>3 DEF Next, StartCompile, NormCached, NormProfile, NormRunner, NormEnvironment,
         NormChoose, NormsDone, GemmCached, GemmProfile, GemmsDone, GemmWorker, GemmJoin,
         GemmRaised, EndProcess, Crash, Forget, vars, ownVars
    <3>2. UNCHANGED <<algo, instances, devices>>
      BY <2>1, <2>3, <3>1, DoneStill
    <3>3. \A s : Measured(s)' = Measured(s)
      BY <3>2 DEF Measured
    <3>4. QED
      BY <2>1, <3>1, <3>2, <3>3 DEF FastestOnOneDevice
  <2>4. CASE phase' # "done"
    BY <2>4 DEF FastestOnOneDevice
  <2>5. QED
    BY <2>2, <2>3, <2>4
<1>3. I => FastestOnOneDevice
  OBVIOUS
<1> HIDE DEF I
<1>4. QED
  BY <1>1, <1>2, <1>3, PTL DEF Spec

----------------------------------------------------------------------------
(* One workload for each GEMM                                              *)

\* No GEMM has a second workload, so nothing hides behind a cached one.
OneWorkload == \A g \in DOMAIN Graphs : \A i \in DOMAIN Graphs[g].gemms : Len(Graphs[g].gemms[i]) <= 1

\* split_k is that of the kernel.
SplitInv ==
  /\ DOMAIN splitK = DOMAIN graph.gemms
  /\ \A i \in DOMAIN splitK : \A j \in DOMAIN graph.gemms[i] :
       algo[GemmSlot(i, j)] # NoAlgo => algo[GemmSlot(i, j)].config = splitK[i]

\* What has been passed has a kernel or a profiler.
Undertaken(s) == algo[s] # NoAlgo \/ \E f \in DOMAIN futures : futures[f].job.slot = s

VisitInv ==
  /\ phase \in {"norms", "gemms"} => wklAt = 1
  /\ \A i \in DOMAIN graph.norms :
       phase \in {"gemms", "join", "done"} \/ (phase = "norms" /\ i < opAt) =>
         algo[NormSlot(i)] # NoAlgo
  /\ \A s \in Workloads(graph) :
       phase \in {"join", "done"} \/ (phase = "gemms" /\ s[2] < opAt) => Undertaken(s)
  /\ phase = "done" => \A s \in DOMAIN algo : Measured(s) # {} => algo[s] # NoAlgo

\* The one workload of a GEMM is its first.
LEMMA FirstWorkload ==
  ASSUME OneWorkload, NEW g \in DOMAIN Graphs, NEW i \in DOMAIN Graphs[g].gemms,
         NEW j \in DOMAIN Graphs[g].gemms[i]
  PROVE  j = 1 /\ Len(Graphs[g].gemms[i]) = 1
<1>1. Graphs[g] \in [norms : Seq(Keys), gemms : Seq(Seq(Keys))]
  BY GraphsTyped
<1>2. Graphs[g].gemms \in Seq(Seq(Keys))
  BY <1>1
<1>3. Graphs[g].gemms[i] \in Seq(Keys)
  BY <1>2, LenProperties, ElementOfSeq
<1>4. DOMAIN Graphs[g].gemms[i] = 1 .. Len(Graphs[g].gemms[i]) /\ Len(Graphs[g].gemms[i]) \in Nat
  BY <1>3, LenProperties
<1> DEFINE n == Len(Graphs[g].gemms[i])
<1>5. n \in Nat /\ n <= 1 /\ j \in 1 .. n
  BY <1>4 DEF OneWorkload
<1> HIDE DEF n
<1>6. j = 1 /\ n = 1
  BY <1>5
<1>7. QED
  BY <1>6 DEF n

LEMMA FirstOfGraph ==
  ASSUME OneWorkload, PhaseInv, NEW i \in DOMAIN graph.gemms, NEW j \in DOMAIN graph.gemms[i]
  PROVE  j = 1 /\ Len(graph.gemms[i]) = 1
<1>1. graph # EmptyGraph
  BY DEF EmptyGraph
<1>2. PICK g \in DOMAIN Graphs : graph = Graphs[g]
  BY <1>1 DEF PhaseInv
<1>3. QED
  BY <1>2, FirstWorkload

\* The delegate takes no kernel away, and finds one for everything that was measured.
LEMMA Decided ==
  ASSUME ProfilingInv, Postprocess, NEW s \in DOMAIN algo, algo[s] # NoAlgo \/ Measured(s) # {}
  PROVE  algo'[s] # NoAlgo
<1>1. JobsInv /\ PhaseInv
  BY DEF ProfilingInv, PoolInv
<1> DEFINE mine == {i \in GroupStarts : instances[i].job.slot = s}
           m == CHOOSE i \in mine : \A j \in mine : j <= i
<1>2. algo'[s] = IF mine = {} THEN algo[s] ELSE AlgoOf(Winner(m))
  BY DEF Postprocess
<1>3. Measured(s) # {} => mine # {}
  <2>1. ASSUME NEW i \in Measured(s) PROVE FirstOf(i) \in mine
    BY <1>1, InGroup DEF JobsInv, GroupStarts, Measured
  <2>2. QED
    BY <2>1
<1>4. CASE mine = {}
  BY <1>2, <1>3, <1>4
<1>5. CASE mine # {}
  <2>1. mine \in SUBSET GroupStarts
    OBVIOUS
  <2>2. m \in mine /\ m \in DOMAIN instances
    <3> HIDE DEF mine
    <3>1. QED
      BY <1>1, <1>5, <2>1, GroupChoice
  <2> HIDE DEF mine, m
  <2>3. AlgoOf(Winner(m)) \in Algo
    BY <1>1, <2>2, GroupChoice
  <2>4. QED
    BY <1>2, <1>5, <2>3, NoAlgoAssumption
<1>6. QED
  BY <1>4, <1>5

\* Every step of profiling goes on with the next workload.
LEMMA VisitStep ==
  ASSUME OneWorkload, ProfilingInv, VisitInv, [Next]_vars
  PROVE  VisitInv'
<1> USE DEF VisitInv
<1>1. PhaseInv /\ PoolTypeOK /\ FutureInv /\ JobsInv /\ AlgoInv /\ opAt \in Nat
  BY DEF ProfilingInv, PoolInv, JobsInv
<1>2. /\ DOMAIN graph.norms = 1 .. Len(graph.norms) /\ Len(graph.norms) \in Nat
      /\ \A i \in DOMAIN graph.norms : NormSlot(i) \in DOMAIN algo
      /\ \A s \in Workloads(graph) : s \in DOMAIN algo
  <2>1. graph.norms \in Seq(Keys)
    BY <1>1, GraphNow
  <2>2. QED
    BY <1>1, <2>1, GraphNow, LenProperties DEF AlgoInv
<1>3. ASSUME NEW devs \in DeviceLists, StartCompile(devs) PROVE VisitInv'
  <2>1. phase' = "norms" /\ opAt' = 1 /\ wklAt' = 1
    BY <1>3 DEF StartCompile
  <2>2. graph' \in [norms : Seq(Keys), gemms : Seq(Seq(Keys))]
    BY <1>1, <1>3, GraphStarts
  <2>3. \A i \in DOMAIN graph'.norms : ~(i < 1)
    BY <2>2, LenProperties
  <2>4. QED
    BY <2>1, <2>3
<1>4. CASE EndProcess \/ Crash \/ GemmRaised
  BY <1>4 DEF EndProcess, Crash, Forget, GemmRaised
<1>5. CASE NormCached \/ NormChoose
  <2>1. /\ AtNorm /\ UNCHANGED <<graph, wklAt>>
        /\ \/ phase' = "failed"
           \/ /\ UNCHANGED phase /\ opAt' = opAt + 1
              /\ algo'[NormSlot(opAt)] # NoAlgo
              /\ \E a : algo' = [algo EXCEPT ![NormSlot(opAt)] = a]
    <3>1. CASE NormCached
      BY <1>2, <3>1 DEF NormCached, AtNorm
    <3>2. CASE NormChoose
      <4>1. results # <<>> => algo'[NormSlot(opAt)] # NoAlgo
        BY <1>1, <3>2, NormChooseTyped, NoAlgoAssumption DEF ProfilingInv
      <4>2. QED
        BY <3>2, <4>1 DEF NormChoose
    <3>3. QED
      BY <1>5, <3>1, <3>2
  <2>2. CASE phase' = "failed"
    BY <2>2
  <2>3. CASE phase' # "failed"
    <3>1. \A i \in DOMAIN graph.norms : i # opAt => algo'[NormSlot(i)] = algo[NormSlot(i)]
      BY <1>2, <2>1, <2>3 DEF NormSlot
    <3>2. \A i \in DOMAIN graph.norms : i < opAt + 1 => i < opAt \/ i = opAt
      BY <1>1, <1>2
    <3>3. QED
      BY <2>1, <2>3, <3>1, <3>2 DEF AtNorm
  <2>4. QED
    BY <2>2, <2>3
<1>6. CASE NormProfile \/ NormRunner \/ NormEnvironment \/ UNCHANGED vars
  <2>1. UNCHANGED <<phase, graph, opAt, wklAt, algo, futures, instances>>
    BY <1>6 DEF NormProfile, NormRunner, NormEnvironment, vars, ownVars, poolVars
  <2>2. QED
    BY <2>1 DEF Undertaken, Measured
<1>7. CASE NormsDone
  <2>1. /\ phase = "norms" /\ phase' = "gemms" /\ opAt' = 1 /\ opAt > Len(graph.norms)
        /\ UNCHANGED <<graph, wklAt, algo>>
    BY <1>7 DEF NormsDone
  <2>2. \A i \in DOMAIN graph.norms : i < opAt
    BY <1>1, <1>2, <2>1
  <2>3. \A s \in Workloads(graph) : ~(s[2] < 1)
    BY <1>1, Named
  <2>4. QED
    BY <2>1, <2>2, <2>3
<1>8. CASE GemmCached \/ GemmProfile
  <2>1. PICK slot : slot = GemmSlot(opAt, wklAt)
    OBVIOUS
  <2>2. /\ AtWorkload /\ UNCHANGED <<phase, graph, algo>>
        /\ opAt \in DOMAIN graph.gemms /\ wklAt \in DOMAIN graph.gemms[opAt] /\ phase = "gemms"
    BY <1>8 DEF GemmCached, GemmProfile, AtWorkload
  <2>3. wklAt = 1 /\ Len(graph.gemms[opAt]) = 1
    BY <1>1, <2>2, FirstOfGraph
  <2>4. opAt' = opAt + 1 /\ wklAt' = 1
    BY <1>8, <2>3 DEF GemmCached, GemmProfile, NextOp
  <2>5. /\ \A s \in Workloads(graph) : Undertaken(s) => Undertaken(s)'
        /\ Undertaken(slot)'
    <3>1. CASE GemmCached
      BY <2>1, <3>1 DEF GemmCached, poolVars, Undertaken
    <3>2. CASE GemmProfile
      <4>1. /\ DOMAIN futures \subseteq DOMAIN futures'
            /\ \A f \in DOMAIN futures : futures'[f] = futures[f]
            /\ \E f \in DOMAIN futures' : futures'[f].job.slot = slot
        BY <2>1, <3>2, JobsPushed DEF ProfilingInv
      <4>2. QED
        BY <2>2, <4>1 DEF Undertaken
    <3>3. QED
      BY <1>8, <3>1, <3>2
  <2>6. ASSUME NEW s \in Workloads(graph), s[2] < opAt + 1
        PROVE  Undertaken(s)'
    <3>1. CASE s[2] < opAt
      BY <2>2, <2>5, <3>1
    <3>2. CASE s[2] = opAt
      <4>1. s = GemmSlot(opAt, s[3]) /\ s[3] \in DOMAIN graph.gemms[opAt]
        BY <1>1, <3>2, Named
      <4>2. s[3] = 1
        BY <1>1, <2>2, <4>1, FirstOfGraph
      <4>3. QED
        BY <2>1, <2>3, <2>5, <4>1, <4>2
    <3>3. QED
      BY <1>1, <2>6, <3>1, <3>2, Named
  <2>7. QED
    BY <2>2, <2>4, <2>6
<1>9. CASE GemmsDone
  <2>1. /\ phase = "gemms" /\ phase' = "join" /\ opAt > Len(graph.gemms)
        /\ UNCHANGED <<graph, algo, futures>>
    BY <1>9 DEF GemmsDone, JoinPool
  <2>2. \A s \in Workloads(graph) : s[2] < opAt
    BY <1>1, <2>1, Named
  <2>3. QED
    BY <2>1, <2>2 DEF Undertaken
<1>10. CASE Postprocess
  <2>1. /\ phase = "join" /\ phase' = "done" /\ UNCHANGED <<graph, futures, instances>>
        /\ DOMAIN algo' = DOMAIN algo
    BY <1>10 DEF Postprocess
  <2>2. \A s \in DOMAIN algo : algo[s] # NoAlgo \/ Measured(s) # {} => algo'[s] # NoAlgo
    BY <1>10, Decided
  <2>3. \A s : Measured(s)' = Measured(s)
    BY <2>1 DEF Measured
  <2>4. QED
    BY <1>2, <2>1, <2>2, <2>3 DEF Undertaken
<1>11. CASE (\E w \in DOMAIN workers : GemmWorker(w)) \/ GemmJoin
  <2>1. UNCHANGED <<phase, graph, opAt, wklAt, algo>>
    BY <1>11 DEF GemmWorker, GemmJoin, ownVars
  <2>2. /\ DOMAIN futures' = DOMAIN futures
        /\ \A f \in DOMAIN futures : futures'[f].job = futures[f].job
    BY <1>1, <1>11, PoolSteps
  <2>3. \A s \in Workloads(graph) : Undertaken(s) => Undertaken(s)'
    BY <2>1, <2>2 DEF Undertaken
  <2>4. phase = "done" => UNCHANGED instances
    BY <2>1, DoneStill
  <2>5. phase = "done" => \A s : Measured(s)' = Measured(s)
    BY <2>4 DEF Measured
  <2>6. QED
    BY <2>1, <2>3, <2>5
<1>12. QED
  BY <1>3, <1>4, <1>5, <1>6, <1>7, <1>8, <1>9, <1>10, <1>11 DEF Next

\* With one workload for each GEMM, profiling ends without a kernel for it only when none of its
\* profilers printed a time (gemm_common.py: profile, postprocess_results).
THEOREM UndecidedIfFailed ==
  ASSUME OneWorkload
  PROVE  Spec => []UndecidedOnlyIfFailed
<1>1. Init => VisitInv
  BY DEF Init, VisitInv, EmptyGraph, Workloads
<1>2. ProfilingInv /\ VisitInv /\ [Next]_vars => VisitInv'
  BY VisitStep
<1>3. ASSUME ProfilingInv, VisitInv PROVE UndecidedOnlyIfFailed
  <2> SUFFICES ASSUME phase = "done", NEW s \in DOMAIN algo, algo[s] = NoAlgo
               PROVE  Measured(s) = {} /\ \E f \in DOMAIN futures : futures[f].job.slot = s
    BY DEF UndecidedOnlyIfFailed
  <2>1. s \in Slots(graph)
    BY <1>3 DEF ProfilingInv, AlgoInv
  <2>2. \A i \in DOMAIN graph.norms : s # NormSlot(i)
    BY <1>3 DEF VisitInv
  <2>3. s \in Workloads(graph)
    BY <2>1, <2>2 DEF Slots, Workloads
  <2>4. QED
    BY <1>3, <2>3 DEF VisitInv, Undertaken
<1>4. QED
  BY <1>1, <1>2, <1>3, ProfilingStarts, ProfilingKept, PTL DEF Spec

\* split_k is taken over from the database.
LEMMA SplitStarts ==
  ASSUME OneWorkload, PhaseInv, NEW devs \in DeviceLists, StartCompile(devs)
  PROVE  SplitInv'
<1>1. PICK g \in DOMAIN Graphs : graph' = Graphs[g]
  <2>1. compiles \in Nat /\ compiles < Len(Graphs) /\ graph' = Graphs[compiles + 1]
    BY DEF StartCompile, PhaseInv
  <2>2. Len(Graphs) \in Nat /\ DOMAIN Graphs = 1 .. Len(Graphs)
    BY GraphsAssumption, LenProperties
  <2>3. compiles + 1 \in DOMAIN Graphs
    BY <2>1, <2>2
  <2>4. QED
    BY <2>1, <2>3
<1>2. /\ algo' = [s \in Slots(graph') |->
                    IF s[1] = "gemm" THEN cache[KeyOf(graph', s)] ELSE NoAlgo]
      /\ splitK' = [i \in DOMAIN graph'.gemms |-> SplitFound(graph'.gemms[i])]
  BY DEF StartCompile
<1>3. ASSUME NEW i \in DOMAIN graph'.gemms, NEW j \in DOMAIN graph'.gemms[i],
             algo'[GemmSlot(i, j)] # NoAlgo
      PROVE  algo'[GemmSlot(i, j)].config = splitK'[i]
  <2> DEFINE wkls == graph'.gemms[i]
             hits == {h \in DOMAIN wkls : cache[wkls[h]] # NoAlgo}
  <2>1. GemmSlot(i, j) \in Slots(graph') /\ GemmSlot(i, j)[1] = "gemm"
        /\ KeyOf(graph', GemmSlot(i, j)) = wkls[j]
    BY <1>3 DEF Slots, GemmSlot, KeyOf
  <2>2. algo'[GemmSlot(i, j)] = cache[wkls[j]]
    BY <1>2, <2>1
  <2>3. j = 1 /\ \A h \in DOMAIN wkls : h = 1
    BY <1>1, FirstWorkload
  <2>4. hits = {1}
    BY <1>3, <2>2, <2>3
  <2>5. (CHOOSE k \in hits : \A h \in hits : h <= k) = 1
    BY <2>4
  <2>6. SplitFound(wkls) = cache[wkls[1]].config
    BY <2>4, <2>5 DEF SplitFound
  <2>7. splitK'[i] = SplitFound(wkls)
    BY <1>2
  <2> HIDE DEF wkls, hits
  <2>8. QED
    BY <2>2, <2>3, <2>6, <2>7
<1>4. QED
  BY <1>2, <1>3 DEF SplitInv

\* The delegate writes split_k and the kernel from the same group.
LEMMA SplitChosen ==
  ASSUME OneWorkload, ProfilingInv, SplitInv, Postprocess
  PROVE  SplitInv'
<1>1. JobsInv /\ PhaseInv /\ AlgoInv
  BY DEF ProfilingInv, PoolInv
<1>2. UNCHANGED graph /\ DOMAIN splitK' = DOMAIN splitK /\ DOMAIN splitK = DOMAIN graph.gemms
  BY DEF Postprocess, SplitInv
<1>3. ASSUME NEW i \in DOMAIN graph.gemms, NEW j \in DOMAIN graph.gemms[i],
             algo'[GemmSlot(i, j)] # NoAlgo
      PROVE  algo'[GemmSlot(i, j)].config = splitK'[i]
  <2> DEFINE slot == GemmSlot(i, j)
             mine == {m \in GroupStarts : instances[m].job.slot = slot}
             ofOp == {m \in GroupStarts : instances[m].job.slot[2] = i}
  <2>1. slot \in Workloads(graph) /\ slot[2] = i
    BY DEF Workloads, GemmSlot
  <2>2. mine = ofOp
    <3>1. ASSUME NEW m \in GroupStarts, instances[m].job.slot[2] = i
          PROVE  instances[m].job.slot = slot
      <4>1. instances[m].job.slot \in Workloads(graph)
        BY <1>1, GroupChoice
      <4>2. /\ instances[m].job.slot = GemmSlot(i, instances[m].job.slot[3])
            /\ instances[m].job.slot[3] \in DOMAIN graph.gemms[i]
        BY <1>1, <3>1, <4>1, Named
      <4>3. instances[m].job.slot[3] = j
        BY <1>1, <4>2, FirstOfGraph
      <4>4. QED
        BY <4>2, <4>3
    <3>2. QED
      BY <2>1, <3>1
  <2>3. slot \in DOMAIN algo
    BY <1>1, <2>1, GraphNow DEF AlgoInv
  <2>4. algo'[slot] = IF mine = {} THEN algo[slot]
                      ELSE AlgoOf(Winner(CHOOSE m \in mine : \A k \in mine : k <= m))
    BY <2>3 DEF Postprocess
  <2>5. splitK'[i] = IF ofOp = {} THEN splitK[i]
                     ELSE AlgoOf(Winner(CHOOSE m \in ofOp : \A k \in ofOp : k <= m)).config
    BY <1>2 DEF Postprocess
  <2>6. mine = {} => algo[slot].config = splitK[i]
    BY <1>2, <1>3, <2>4 DEF SplitInv
  <2> HIDE DEF slot, mine, ofOp
  <2>7. algo'[slot].config = splitK'[i]
    BY <2>2, <2>4, <2>5, <2>6
  <2>8. QED
    BY <2>7 DEF slot
<1>4. QED
  BY <1>2, <1>3 DEF SplitInv

LEMMA SplitStep ==
  ASSUME OneWorkload, ProfilingInv, SplitInv, [Next]_vars
  PROVE  SplitInv'
<1>1. PhaseInv /\ AlgoInv
  BY DEF ProfilingInv, PoolInv
<1>2. CASE \E devs \in DeviceLists : StartCompile(devs)
  BY <1>1, <1>2, SplitStarts
<1>3. CASE EndProcess \/ Crash
  <2>1. graph' = EmptyGraph /\ splitK' = <<>>
    BY <1>3 DEF EndProcess, Crash, Forget
  <2>2. QED
    BY <2>1 DEF SplitInv, EmptyGraph
<1>4. CASE NormCached \/ NormChoose
  <2>1. /\ UNCHANGED <<graph, splitK>>
        /\ UNCHANGED algo \/ \E a : algo' = [algo EXCEPT ![NormSlot(opAt)] = a]
    BY <1>4 DEF NormCached, NormChoose
  <2>2. \A i, j : GemmSlot(i, j) # NormSlot(opAt)
    BY DEF GemmSlot, NormSlot
  <2>3. \A i \in DOMAIN graph.gemms : \A j \in DOMAIN graph.gemms[i] :
          algo'[GemmSlot(i, j)] = algo[GemmSlot(i, j)]
    <3>1. \A i \in DOMAIN graph.gemms : \A j \in DOMAIN graph.gemms[i] :
            GemmSlot(i, j) \in DOMAIN algo
      BY <1>1 DEF AlgoInv, Slots
    <3>2. QED
      BY <2>1, <2>2, <3>1
  <2>4. QED
    BY <2>1, <2>3 DEF SplitInv
<1>5. CASE Postprocess
  BY <1>5, SplitChosen
<1>6. CASE \/ NormProfile \/ NormRunner \/ NormEnvironment \/ NormsDone
           \/ GemmCached \/ GemmProfile \/ GemmsDone \/ GemmJoin \/ GemmRaised
           \/ (\E w \in DOMAIN workers : GemmWorker(w)) \/ UNCHANGED vars
  <2>1. UNCHANGED <<graph, algo, splitK>>
    BY <1>6 DEF NormProfile, NormRunner, NormEnvironment, NormsDone, GemmCached, GemmProfile,
                GemmsDone, GemmJoin, GemmRaised, GemmWorker, vars, ownVars
  <2>2. QED
    BY <2>1 DEF SplitInv
<1>7. QED
  BY <1>2, <1>3, <1>4, <1>5, <1>6 DEF Next

\* With one workload for each GEMM, the one split_k of an operator is the one that its kernel was
\* measured with, be it chosen now or found in the database (gemm_common.py: gen_profiler,
\* postprocess_results).
THEOREM SplitIsMeasured ==
  ASSUME OneWorkload
  PROVE  Spec => []SplitKFits
<1>1. Init => SplitInv
  BY DEF Init, SplitInv, EmptyGraph
<1>2. ProfilingInv /\ SplitInv /\ [Next]_vars => SplitInv'
  BY SplitStep
<1>3. SplitInv => SplitKFits
  BY DEF SplitInv, SplitKFits
<1>4. QED
  BY <1>1, <1>2, <1>3, ProfilingStarts, ProfilingKept, PTL DEF Spec
=============================================================================
