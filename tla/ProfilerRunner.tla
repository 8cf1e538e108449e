--------------------------- MODULE ProfilerRunner ---------------------------
(***************************************************************************)
(* The runner of the GEMM profilers (ProfilerRunner and run_task of        *)
(* python/aitemplate/backend/profiler_runner.py): a thread pool with one   *)
(* worker per device, a queue of idle devices, a callback per profiler     *)
(* that collects its result on the worker's thread, and a join that waits  *)
(* for futures and callbacks.                                              *)
(*                                                                         *)
(* What a profiler is asked to measure, and what is done with the results, *)
(* belongs to the module that extends this one.                            *)
(***************************************************************************)
EXTENDS Profilers

CONSTANTS
  Jobs,          \* what a profiler measures
  LaunchFails,   \* TRUE: a profiler may fail to be launched
  MaxAttempts,   \* PROFILER_RUN_MAX_ATTEMPTS
  JoinTimeout    \* TRUE: the time given to join may run out

ASSUME PoolAssumption ==
  /\ MaxAttempts \in Nat \ {0}
  /\ LaunchFails \in BOOLEAN /\ JoinTimeout \in BOOLEAN

NoFuture == 0

\* Between two jobs a worker has no future.  at: inside run_task ("get" a device,
\* "run" the profiler), in the callback ("collect", "signal").
Worker == [future : Nat, at : {"idle", "get", "run", "collect", "signal"},
           dev : Devices \cup {NoDevice}, attempts : 0 .. MaxAttempts - 1,
           out : Outputs \cup {NoOutput}]
Instance == [future : Nat, job : Jobs, duration : Durations]
Future == [job : Jobs, state : {"pending", "running", "done", "failed", "cancelled"}]

VARIABLES
  deviceQueue,  \* _device_queue
  doneQueue,    \* _done_queue: how many items are in it
  futures,      \* _futures: what each is for, and its state
  workers,      \* the threads of the executor
  instances,    \* _instances of the delegate, in the order of the callbacks
  joiner,       \* "pushing", "waiting", "getting", "choosing", "joined", "raised"
  toGet         \* items join still takes from _done_queue

poolVars == <<deviceQueue, doneQueue, futures, workers, instances, joiner, toGet>>

IdleWorker == [future |-> NoFuture, at |-> "idle", dev |-> NoDevice, attempts |-> 0,
               out |-> NoOutput]

NewPool(devs) ==
  /\ deviceQueue' = devs /\ doneQueue' = 0
  /\ futures' = <<>> /\ instances' = <<>>
  /\ workers' = [w \in DOMAIN devs |-> IdleWorker]
  /\ joiner' = "pushing" /\ toGet' = 0

----------------------------------------------------------------------------
(* push, and the threads of the executor                                   *)

Submit(jobs) ==
  /\ futures' = futures \o [i \in DOMAIN jobs |-> [job |-> jobs[i], state |-> "pending"]]
  /\ UNCHANGED <<deviceQueue, doneQueue, workers, instances, joiner, toGet>>

Pending == {f \in DOMAIN futures : futures[f].state = "pending"}

SetState(f, state) == futures' = [futures EXCEPT ![f].state = state]

\* A free worker starts the oldest future that is not cancelled.
TakeFuture(w) ==
  /\ workers[w].at = "idle"
  /\ \E f \in Pending :
       /\ \A g \in Pending : f <= g
       /\ workers' = [workers EXCEPT ![w].future = f, ![w].at = "get"]
       /\ SetState(f, "running")
  /\ UNCHANGED <<deviceQueue, doneQueue, instances, joiner, toGet>>

GetDevice(w) ==
  /\ workers[w].at = "get" /\ deviceQueue # <<>>
  /\ workers' = [workers EXCEPT ![w].at = "run", ![w].dev = Head(deviceQueue)]
  /\ deviceQueue' = Tail(deviceQueue)
  /\ UNCHANGED <<doneQueue, futures, instances, joiner, toGet>>

\* Mutant: one attempt too many.
LaunchRaisesOnceMore(w) ==
  /\ LaunchFails /\ workers[w].at = "run"
  /\ IF workers[w].attempts < MaxAttempts
     THEN workers' = [workers EXCEPT ![w].attempts = @ + 1] /\ UNCHANGED futures
     ELSE /\ workers' = [workers EXCEPT ![w] = IdleWorker]
          /\ SetState(workers[w].future, "failed")
  /\ UNCHANGED <<deviceQueue, doneQueue, instances, joiner, toGet>>

\* Mutant: every attempt puts the device back.
LaunchRaisesPuttingBack(w) ==
  /\ LaunchFails /\ workers[w].at = "run"
  /\ deviceQueue' = Append(deviceQueue, workers[w].dev)
  /\ IF workers[w].attempts + 1 < MaxAttempts
     THEN workers' = [workers EXCEPT ![w].attempts = @ + 1] /\ UNCHANGED futures
     ELSE /\ workers' = [workers EXCEPT ![w] = IdleWorker]
          /\ SetState(workers[w].future, "failed")
  /\ UNCHANGED <<doneQueue, instances, joiner, toGet>>

\* subprocess.run raises; the last time the device is not put back, and the
\* callback finds an exception in the future and puts nothing into _done_queue.
LaunchRaises(w) ==
  /\ LaunchFails /\ workers[w].at = "run"
  /\ IF workers[w].attempts + 1 < MaxAttempts
     THEN workers' = [workers EXCEPT ![w].attempts = @ + 1] /\ UNCHANGED futures
     ELSE /\ workers' = [workers EXCEPT ![w] = IdleWorker]
          /\ SetState(workers[w].future, "failed")
  /\ UNCHANGED <<deviceQueue, doneQueue, instances, joiner, toGet>>

\* The profiler ends, the device is put back, and the future is done.  The
\* callback runs after that.
ProfilerEnds(w, out) ==
  /\ workers[w].at = "run"
  /\ workers' = [workers EXCEPT ![w].at = "collect", ![w].dev = NoDevice, ![w].out = out]
  /\ deviceQueue' = Append(deviceQueue, workers[w].dev)
  /\ SetState(workers[w].future, "done")
  /\ UNCHANGED <<doneQueue, instances, joiner, toGet>>

\* extract_profile_result and the operator's callback.  Without a time in the
\* output the callback raises, which the executor only logs.
Collect(w) ==
  /\ workers[w].at = "collect"
  /\ instances' = IF workers[w].out \in Durations
                  THEN Append(instances, [future |-> workers[w].future,
                                          job |-> futures[workers[w].future].job,
                                          duration |-> workers[w].out])
                  ELSE instances
  /\ workers' = [workers EXCEPT ![w].at = "signal"]
  /\ UNCHANGED <<deviceQueue, doneQueue, futures, joiner, toGet>>

\* finally: the item that join waits for.
Signal(w) ==
  /\ workers[w].at = "signal"
  /\ doneQueue' = doneQueue + 1
  /\ workers' = [workers EXCEPT ![w] = IdleWorker]
  /\ UNCHANGED <<deviceQueue, futures, instances, joiner, toGet>>

WorkerStep(w) == \/ TakeFuture(w) \/ GetDevice(w) \/ Collect(w) \/ Signal(w)
                 \/ \E out \in Outputs : ProfilerEnds(w, out)

----------------------------------------------------------------------------
(* join                                                                    *)

Ended(f) == futures[f].state \in {"done", "failed", "cancelled"}

JoinPool ==
  /\ joiner = "pushing" /\ joiner' = "waiting"
  /\ UNCHANGED <<deviceQueue, doneQueue, futures, workers, instances, toGet>>

\* Mutant: futures are waited for, their callbacks are not.
WaitForFuturesOnly ==
  /\ joiner = "waiting" /\ \A f \in DOMAIN futures : Ended(f)
  /\ joiner' = "choosing" /\ toGet' = 0
  /\ UNCHANGED <<deviceQueue, doneQueue, futures, workers, instances>>

\* concurrent.futures.wait returns in time.
WaitReturns ==
  /\ joiner = "waiting" /\ \A f \in DOMAIN futures : Ended(f)
  /\ joiner' = "getting" /\ toGet' = Len(futures)
  /\ UNCHANGED <<deviceQueue, doneQueue, futures, workers, instances>>

\* ... or it does not: what has not been started is cancelled, and then join raises.
WaitTimesOut ==
  /\ JoinTimeout /\ joiner = "waiting" /\ ~ \A f \in DOMAIN futures : Ended(f)
  /\ futures' = [f \in DOMAIN futures |->
                   IF f \in Pending THEN [futures[f] EXCEPT !.state = "cancelled"]
                                    ELSE futures[f]]
  /\ IF Pending # {} THEN joiner' = "raised" /\ UNCHANGED toGet
                     ELSE joiner' = "getting" /\ toGet' = Len(futures)
  /\ UNCHANGED <<deviceQueue, doneQueue, workers, instances>>

GetDone ==
  /\ joiner = "getting"
  /\ IF toGet = 0 THEN joiner' = "choosing" /\ UNCHANGED <<toGet, doneQueue>>
     ELSE /\ doneQueue > 0
          /\ doneQueue' = doneQueue - 1 /\ toGet' = toGet - 1 /\ UNCHANGED joiner
  /\ UNCHANGED <<deviceQueue, futures, workers, instances>>

\* _done_queue.get raises queue.Empty.
GetTimesOut ==
  /\ JoinTimeout /\ joiner = "getting" /\ toGet > 0 /\ doneQueue = 0
  /\ joiner' = "raised"
  /\ UNCHANGED <<deviceQueue, doneQueue, futures, workers, instances, toGet>>

JoinStep == WaitReturns \/ WaitTimesOut \/ GetDone \/ GetTimesOut

----------------------------------------------------------------------------
PoolTypeOK ==
  /\ deviceQueue \in Seq(Devices)
  /\ doneQueue \in Nat /\ toGet \in Nat
  /\ futures \in Seq(Future)
  /\ \A w \in DOMAIN workers : workers[w] \in Worker
  /\ joiner \in {"pushing", "waiting", "getting", "choosing", "joined", "raised"}

\* A device is in the queue at most once, and not while a profiler runs on it;
\* two profilers never run on one device.
OneProfilerPerDevice ==
  /\ \A i, j \in DOMAIN deviceQueue : i # j => deviceQueue[i] # deviceQueue[j]
  /\ \A v, w \in DOMAIN workers :
       workers[w].at = "run" =>
         /\ \A i \in DOMAIN deviceQueue : deviceQueue[i] # workers[w].dev
         /\ v # w /\ workers[v].at = "run" => workers[v].dev # workers[w].dev

\* When the results are looked at, all of them are there: every future has ended
\* and every callback has run, although a future counts as done before its
\* callback starts.
AllResultsIn ==
  joiner \in {"choosing", "joined"} =>
    \A f \in DOMAIN futures :
      /\ futures[f].state = "done"
      /\ \A w \in DOMAIN workers : workers[w].future # f
=============================================================================
