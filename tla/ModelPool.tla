------------------------------ MODULE ModelPool ------------------------------
(***************************************************************************)
(* The pool of Models inside a ModelContainer                              *)
(* (static/csrc/model_container.cpp).                                      *)
(*                                                                         *)
(* Client threads call Run, RunWithOutputsOnHost, Benchmark, Profile,      *)
(* SetConstant and FoldConstants.  A call takes a Model out of             *)
(* available_models_, queues its kernels on a device stream and puts the   *)
(* Model into pending_models_; the device works the streams off in order.  *)
(* A critical section of models_mutex_ is one action; what happens between *)
(* two of them (a wait for an event, a sleep on the condition variable,    *)
(* queueing kernels) interleaves with the other threads and the device.    *)
(***************************************************************************)
EXTENDS Integers, Sequences, Functions

CONSTANTS
  NumModels,     \* num_models of the constructor
  Threads,       \* client threads; Benchmark also takes its workers from them
  Streams,       \* device streams
  NoThread,      \* a value that is no thread
  Ops,           \* the operations the clients call
  LiveUpdates,   \* TRUE: SetConstant/FoldConstants may follow an inference
  FoldedAtStart, \* TRUE: start after FoldConstants on the new container
  MaxCalls,      \* bound: client calls in a behaviour
  MaxIters,      \* bound: the count argument of Benchmark
  FailureKinds,  \* which of the error paths may be taken ...
  MaxFailures    \* ... and bound: how often

MaintOps     == {"set_constant", "fold_async", "fold_sync"}
InferenceOps == {"run_async", "run_sync", "run_host", "benchmark"}

ASSUME ConstantsAssumption ==
  /\ NumModels \in Nat \ {0}
  /\ NoThread \notin Threads
  /\ Ops \subseteq MaintOps \cup InferenceOps \cup {"profile"}
  /\ LiveUpdates \in BOOLEAN /\ FoldedAtStart \in BOOLEAN
  /\ MaxCalls \in Nat /\ MaxIters \in Nat \ {0} /\ MaxFailures \in Nat
  /\ FailureKinds \subseteq {"prepare", "midrun", "wait", "fold", "event"}

\* Profile takes no constants_sync_mutex_, so together with a call that walks
\* the Model lists under that mutex alone it is a data race on the lists.  It
\* is modelled against the calls that use models_mutex_.
ASSUME ProfileAssumption ==
  "profile" \in Ops => FoldedAtStart /\ Ops \cap MaintOps = {}

Models  == 1 .. NumModels
Folder  == 0      \* constant_folder_, a Model of its own
NoModel == -1

Labels == {"idle", "shared", "first_fold", "unique", "wait_models", "relock",
           "spawn", "join", "get", "asleep", "woken", "wait_one", "events",
           "holding", "iterating", "profiling", "push", "notify", "sync", "drain"}

\* Work on a stream: the kernels one Model queued for one thread.  "latest"
\* says that the last EventRecord of the Model's run_finished_ follows it.
Work == [model : Models \cup {Folder}, by : Threads, latest : BOOLEAN]

VARIABLES
  available,   \* available_models_, a stack
  pending,     \* pending_models_, a queue
  readers,     \* constants_sync_mutex_: its shared owners ...
  writer,      \* ... and its exclusive one
  folded,      \* constant_folded_once_
  queue,       \* the unfinished work of each stream
  pc, op, stream,
  held,        \* the Model a thread took from the lists
  todo,        \* loop variable: iterations left, or position in pending_
  boss,        \* the Benchmark call a worker thread belongs to
  serving,     \* history: an inference has been called
  calls, failures

lists   == <<available, pending>>
mutex   == <<readers, writer>>
call    == <<op, stream, boss>>
history == <<serving, calls>>
vars    == <<lists, mutex, folded, queue, pc, call, held, todo, history, failures>>

----------------------------------------------------------------------------
(* The device: streams and run_finished_ events.                           *)

\* QueryEvent(run_finished_) = not ready.
IsPending(m) == \E s \in Streams : \E i \in DOMAIN queue[s] :
                   queue[s][i].model = m /\ queue[s][i].latest

\* Kernels of Model m are queued or running.
InFlight(m) == \E s \in Streams : \E i \in DOMAIN queue[s] : queue[s][i].model = m

\* StreamSynchronize(stream) of thread t would return.
Drained(t) == \A i \in DOMAIN queue[stream[t]] : queue[stream[t]][i].by # t

Overtaken(q, m) == [i \in DOMAIN q |->
                      [q[i] EXCEPT !.latest = q[i].latest /\ q[i].model # m]]

\* Kernels of m go to t's stream; if "recorded", EventRecord follows them.
Submit(t, m, recorded) ==
  LET earlier(s) == IF recorded THEN Overtaken(queue[s], m) ELSE queue[s]
      work       == [model |-> m, by |-> t, latest |-> recorded]
  IN  queue' = [s \in Streams |-> IF s = stream[t] THEN Append(earlier(s), work)
                                                   ELSE earlier(s)]

DeviceFinishes(s) ==
  /\ queue[s] # <<>>
  /\ queue' = [queue EXCEPT ![s] = Tail(@)]
  /\ UNCHANGED <<lists, mutex, folded, pc, call, held, todo, history, failures>>

----------------------------------------------------------------------------
(* Calls and returns.                                                      *)

Goto(t, label) == pc' = [pc EXCEPT ![t] = label]

MayFail(kind) == /\ kind \in FailureKinds
                 /\ failures < MaxFailures
                 /\ failures' = failures + 1

\* The thread leaves the call; its shared lock goes with it.
Return(t) ==
  /\ Goto(t, "idle")
  /\ op' = [op EXCEPT ![t] = "none"]
  /\ boss' = [boss EXCEPT ![t] = NoThread]
  /\ readers' = readers \ {t}
  /\ UNCHANGED <<stream, writer>>

\* Without LiveUpdates all maintenance calls return before inference starts.
Admissible(o) ==
  \/ LiveUpdates
  \/ o \in MaintOps /\ ~serving
  \/ o \notin MaintOps /\ \A u \in Threads : op[u] \notin MaintOps

Call(t, o, s) ==
  /\ pc[t] = "idle" /\ calls < MaxCalls
  /\ o \in Ops /\ Admissible(o)
  /\ Goto(t, IF o \in MaintOps THEN "unique"
             ELSE IF o = "profile" THEN "get" ELSE "shared")
  /\ op' = [op EXCEPT ![t] = o]
  /\ stream' = [stream EXCEPT ![t] = s]
  /\ \E n \in IF o = "benchmark" THEN 1 .. MaxIters ELSE {1} :
        todo' = [todo EXCEPT ![t] = n]
  /\ calls' = calls + 1
  /\ serving' = (serving \/ o \notin MaintOps)
  /\ UNCHANGED <<lists, mutex, folded, queue, held, boss, failures>>

----------------------------------------------------------------------------
(* constants_sync_mutex_, the first fold of Run/Benchmark, maintenance.    *)

\* std::shared_lock, then constant_folded_once_; not folded: unlock again.
LockShared(t) ==
  /\ pc[t] = "shared" /\ writer = NoThread
  /\ IF folded THEN /\ readers' = readers \cup {t}
                    /\ \/ Goto(t, "get")
                       \/ op[t] = "benchmark" /\ Goto(t, "spawn")
               ELSE Goto(t, "first_fold") /\ UNCHANGED readers
  /\ UNCHANGED <<lists, writer, folded, queue, call, held, todo, history, failures>>

\* Mutant: the first fold does not look at constant_folded_once_ again.
LockUniqueNoRecheck(t) ==
  /\ pc[t] \in {"unique", "first_fold"}
  /\ writer = NoThread /\ readers = {}
  /\ Goto(t, "wait_models") /\ writer' = t
  /\ UNCHANGED <<lists, readers, folded, queue, call, held, todo, history, failures>>

\* std::unique_lock.  Run/Benchmark check again: another thread may have folded.
LockUnique(t) ==
  /\ pc[t] \in {"unique", "first_fold"}
  /\ writer = NoThread /\ readers = {}
  /\ IF pc[t] = "first_fold" /\ folded
     THEN Goto(t, "relock") /\ UNCHANGED writer
     ELSE Goto(t, "wait_models") /\ writer' = t
  /\ UNCHANGED <<lists, readers, folded, queue, call, held, todo, history, failures>>

\* Mutant: the Model is pushed without a wait for its event.
WaitForAllModelsNoWait(t, i) ==
  /\ pc[t] = "wait_models"
  /\ i = todo[t] /\ i <= Len(pending)
  /\ available' = Append(available, pending[i])
  /\ todo' = [todo EXCEPT ![t] = i + 1]
  /\ UNCHANGED <<pending, mutex, folded, queue, pc, call, held, history, failures>>

\* One turn of the loop of WaitForAllModels: the Model stays in pending_models_.
WaitForAllModels(t, i) ==
  /\ pc[t] = "wait_models"
  /\ i = todo[t] /\ i <= Len(pending)
  /\ ~IsPending(pending[i])
  /\ available' = Append(available, pending[i])
  /\ todo' = [todo EXCEPT ![t] = i + 1]
  /\ UNCHANGED <<pending, mutex, folded, queue, pc, call, held, history, failures>>

\* All waits are over, those for the constant folder included.
Quiesced(t) == /\ pc[t] = "wait_models"
               /\ todo[t] > Len(pending) /\ ~IsPending(Folder)

\* Constants are read by every Model: see module ConstantBuffers for the data.
SetConstant(t) ==
  /\ op[t] = "set_constant" /\ Quiesced(t)
  /\ Goto(t, "idle") /\ op' = [op EXCEPT ![t] = "none"]
  /\ writer' = NoThread
  /\ UNCHANGED <<lists, readers, folded, queue, stream, boss, held, todo, history, failures>>

AfterFold(t) == CASE op[t] = "fold_sync" -> "drain"
                  [] op[t] = "fold_async" -> "idle"
                  [] OTHER -> "relock"

\* constant_folder_->Run only queues the folding kernels.
FoldConstants(t) ==
  /\ op[t] # "set_constant" /\ Quiesced(t)
  /\ Submit(t, Folder, TRUE)
  /\ folded' = TRUE
  /\ writer' = NoThread
  /\ Goto(t, AfterFold(t))
  /\ op' = [op EXCEPT ![t] = IF @ = "fold_async" THEN "none" ELSE @]
  /\ UNCHANGED <<lists, readers, stream, boss, held, todo, history, failures>>

\* The folder throws before it queues anything (a constant is not set).
FoldThrows(t) ==
  /\ op[t] # "set_constant" /\ Quiesced(t) /\ MayFail("fold")
  /\ Goto(t, "idle") /\ op' = [op EXCEPT ![t] = "none"]
  /\ writer' = NoThread
  /\ UNCHANGED <<lists, readers, folded, queue, stream, boss, held, todo, history>>

Relock(t) ==
  /\ pc[t] = "relock" /\ writer = NoThread
  /\ readers' = readers \cup {t}
  /\ \/ Goto(t, "get")
     \/ op[t] = "benchmark" /\ Goto(t, "spawn")
  /\ UNCHANGED <<lists, writer, folded, queue, call, held, todo, history, failures>>

\* Benchmark with num_threads > 1: the workers run under the caller's lock, on
\* its stream or on streams of their own.
Spawn(t, workers) ==
  /\ pc[t] = "spawn"
  /\ workers # {} /\ \A w \in workers : pc[w] = "idle"
  /\ pc' = [u \in Threads |-> IF u \in workers THEN "get"
                              ELSE IF u = t THEN "join" ELSE pc[u]]
  /\ op' = [u \in Threads |-> IF u \in workers THEN "benchmark" ELSE op[u]]
  /\ boss' = [u \in Threads |-> IF u \in workers THEN t ELSE boss[u]]
  /\ todo' = [u \in Threads |-> IF u \in workers THEN todo[t] ELSE todo[u]]
  /\ \E own \in [workers -> Streams] :
       stream' = [u \in Threads |-> IF u \in workers THEN own[u] ELSE stream[u]]
  /\ UNCHANGED <<lists, mutex, folded, queue, held, history, failures>>

Join(t) ==
  /\ pc[t] = "join" /\ \A u \in Threads : boss[u] # t
  /\ Return(t)
  /\ UNCHANGED <<lists, folded, queue, held, todo, history, failures>>

----------------------------------------------------------------------------
(* GetAvailableModel and ReclaimFinishedModels.                            *)

AfterTake(t) == IF op[t] = "benchmark" THEN "events" ELSE "holding"

\* Mutant: back() without pop_back().
TakeBackNoPop(t, pool) ==
  /\ pool # <<>>
  /\ held' = [held EXCEPT ![t] = pool[Len(pool)]]
  /\ available' = pool
  /\ Goto(t, AfterTake(t))

\* The thread pops the last Model of the pool.
TakeBack(t, pool) ==
  /\ pool # <<>>
  /\ held' = [held EXCEPT ![t] = pool[Len(pool)]]
  /\ available' = SubSeq(pool, 1, Len(pool) - 1)
  /\ Goto(t, AfterTake(t))

TakeAvailable(t) ==
  /\ pc[t] = "get"
  /\ TakeBack(t, available)
  /\ UNCHANGED <<pending, mutex, folded, queue, call, todo, history, failures>>

\* std::stable_partition of pending_models_: p lists the positions of the k
\* unfinished Models, then those of the finished ones, both in order.
StablePartition(p, k) ==
  \A i, j \in DOMAIN p :
    /\ IsPending(pending[p[i]]) <=> i <= k
    /\ i < j /\ (i <= k <=> j <= k) => p[i] < p[j]

Unfinished(p, k) == [i \in 1 .. k |-> pending[p[i]]]
Finished(p, k)   == [i \in 1 .. Len(pending) - k |-> pending[p[k + i]]]

\* No Model is available: all finished ones move to the pool, one is taken.
TakeFinished(t) ==
  /\ pc[t] = "get" /\ available = <<>>
  /\ \E k \in 0 .. Len(pending), p \in Bijection(DOMAIN pending, DOMAIN pending) :
       /\ StablePartition(p, k)
       /\ pending' = Unfinished(p, k)
       /\ TakeBack(t, Finished(p, k))
  /\ UNCHANGED <<mutex, folded, queue, call, todo, history, failures>>

\* None finished either: wait for the oldest, or sleep until there is one.
WaitForOldest(t) ==
  /\ \/ pc[t] = "woken"
     \/ /\ pc[t] = "get" /\ available = <<>>
        /\ \A i \in DOMAIN pending : IsPending(pending[i])
  /\ IF pending = <<>>
     THEN Goto(t, "asleep") /\ UNCHANGED <<held, pending>>
     ELSE /\ held' = [held EXCEPT ![t] = Head(pending)]
          /\ pending' = Tail(pending)
          /\ Goto(t, "wait_one")
  /\ UNCHANGED <<available, mutex, folded, queue, call, todo, history, failures>>

\* A condition variable may wake a thread that nobody notified.
SpuriousWakeup(t) ==
  /\ pc[t] = "asleep" /\ pending # <<>>
  /\ Goto(t, "woken")
  /\ UNCHANGED <<lists, mutex, folded, queue, call, held, todo, history, failures>>

\* Mutant: the Model is reused without a wait for its event.
OldestNotAwaited(t) ==
  /\ pc[t] = "wait_one"
  /\ Goto(t, AfterTake(t))
  /\ UNCHANGED <<lists, mutex, folded, queue, call, held, todo, history, failures>>

\* WaitForCompletion returned: the Model is pushed to the pool and popped again.
OldestFinished(t) ==
  /\ pc[t] = "wait_one" /\ ~IsPending(held[t])
  /\ Goto(t, AfterTake(t))
  /\ UNCHANGED <<lists, mutex, folded, queue, call, held, todo, history, failures>>

\* Mutant: the handler rethrows without giving the Model back.
GiveBackNothing(t) ==
  /\ held' = [held EXCEPT ![t] = NoModel]
  /\ Return(t)
  /\ UNCHANGED available

\* Mutant: two nested handlers give the Model back.
GiveBackTwice(t) ==
  /\ available' = available \o <<held[t], held[t]>>
  /\ held' = [held EXCEPT ![t] = NoModel]
  /\ Return(t)

\* An error path: the Model goes back to the pool, nobody is notified, rethrow.
GiveBack(t) ==
  /\ available' = Append(available, held[t])
  /\ held' = [held EXCEPT ![t] = NoModel]
  /\ Return(t)

WaitThrows(t) ==
  /\ pc[t] = "wait_one" /\ ~IsPending(held[t]) /\ MayFail("wait")
  /\ GiveBack(t)
  /\ UNCHANGED <<pending, folded, queue, todo, history>>

----------------------------------------------------------------------------
(* Using a Model.                                                          *)

\* BenchmarkImpl creates two timing events between GetAvailableModel and its
\* try block: an error there leaves the Model in no list.
CreateEvents(t) ==
  /\ pc[t] = "events"
  /\ Goto(t, "holding")
  /\ UNCHANGED <<lists, mutex, folded, queue, call, held, todo, history, failures>>

CreateEventThrows(t) ==
  /\ pc[t] = "events" /\ MayFail("event")
  /\ held' = [held EXCEPT ![t] = NoModel]
  /\ Return(t)
  /\ UNCHANGED <<lists, folded, queue, todo, history>>

\* PrepareForRun and Model::Run; BenchmarkImpl runs the Model "count" times.
ModelRun(t) ==
  /\ pc[t] \in {"holding", "iterating"} /\ op[t] # "profile"
  /\ Submit(t, held[t], TRUE)
  /\ todo' = [todo EXCEPT ![t] = @ - 1]
  /\ Goto(t, IF todo[t] = 1 THEN "push" ELSE "iterating")
  /\ UNCHANGED <<lists, mutex, folded, call, held, history, failures>>

\* Profile queues kernels but never records run_finished_; it waits for them.
ModelProfile(t) ==
  /\ pc[t] = "holding" /\ op[t] = "profile"
  /\ Submit(t, held[t], FALSE)
  /\ Goto(t, "profiling")
  /\ UNCHANGED <<lists, mutex, folded, call, held, todo, history, failures>>

\* Mutant: no EventSynchronize after the profiled kernels.
ProfiledNotAwaited(t) ==
  /\ pc[t] = "profiling"
  /\ Goto(t, "push")
  /\ UNCHANGED <<lists, mutex, folded, queue, call, held, todo, history, failures>>

Profiled(t) ==
  /\ pc[t] = "profiling" /\ Drained(t)
  /\ Goto(t, "push")
  /\ UNCHANGED <<lists, mutex, folded, queue, call, held, todo, history, failures>>

\* A check in PrepareForRun or SetUpInputsOutputs fails: nothing was queued.
PrepareThrows(t) ==
  /\ pc[t] = "holding" /\ MayFail("prepare")
  /\ GiveBack(t)
  /\ UNCHANGED <<pending, folded, queue, todo, history>>

\* An operator throws inside RunImpl, after kernels of earlier ones were queued.
RunThrows(t) ==
  /\ pc[t] \in {"holding", "iterating"} /\ op[t] # "profile" /\ MayFail("midrun")
  /\ Submit(t, held[t], FALSE)
  /\ GiveBack(t)
  /\ UNCHANGED <<pending, folded, todo, history>>

\* Mutant: the local pointer is reset before it is pushed.
PushPendingAfterReset(t) ==
  /\ pc[t] = "push"
  /\ held' = [held EXCEPT ![t] = NoModel]
  /\ pending' = Append(pending, held'[t])
  /\ Goto(t, "notify")
  /\ UNCHANGED <<available, mutex, folded, queue, call, todo, history, failures>>

PushPending(t) ==
  /\ pc[t] = "push"
  /\ pending' = Append(pending, held[t])
  /\ held' = [held EXCEPT ![t] = NoModel]
  /\ Goto(t, "notify")
  /\ UNCHANGED <<available, mutex, folded, queue, call, todo, history, failures>>

\* Where a call goes on after notify_one; the shared lock is held till the end.
WaitsForStream(t) == op[t] \in {"run_sync", "benchmark"}
AfterNotify(t) == IF WaitsForStream(t) THEN "sync"
                  ELSE IF op[t] = "run_host" THEN "drain" ELSE "idle"

\* Run has returned; RunWithOutputsOnHost goes on without the lock.
RunReturns(t) ==
  /\ op' = IF AfterNotify(t) = "idle" THEN [op EXCEPT ![t] = "none"] ELSE op
  /\ readers' = IF WaitsForStream(t) THEN readers ELSE readers \ {t}
  /\ UNCHANGED <<lists, writer, folded, queue, stream, boss, held, todo, history, failures>>

\* Mutant: no notify_one.
NotifyNobody(t) ==
  /\ pc[t] = "notify"
  /\ Goto(t, AfterNotify(t))
  /\ RunReturns(t)

Sleepers == {u \in Threads : pc[u] = "asleep"}

NotifyOne(t) ==
  /\ pc[t] = "notify"
  /\ \E woken \in IF Sleepers = {} THEN {NoThread} ELSE Sleepers :
       pc' = [u \in Threads |-> IF u = t THEN AfterNotify(t)
                                ELSE IF u = woken THEN "woken" ELSE pc[u]]
  /\ RunReturns(t)

\* StreamSynchronize, EventSynchronize or the copies to the host are done.
StreamDone(t) ==
  /\ pc[t] \in {"sync", "drain"} /\ Drained(t)
  /\ Return(t)
  /\ UNCHANGED <<lists, folded, queue, held, todo, history, failures>>

----------------------------------------------------------------------------

Init ==
  /\ available = [i \in 1 .. NumModels |-> i] /\ pending = <<>>
  /\ readers = {} /\ writer = NoThread
  /\ folded = FoldedAtStart
  /\ queue = [s \in Streams |-> <<>>]
  /\ pc = [t \in Threads |-> "idle"]
  /\ op = [t \in Threads |-> "none"]
  /\ stream \in {[t \in Threads |-> s] : s \in Streams}
  /\ held = [t \in Threads |-> NoModel]
  /\ todo = [t \in Threads |-> 1]
  /\ boss = [t \in Threads |-> NoThread]
  /\ serving = FALSE /\ calls = 0 /\ failures = 0

\* What a thread does inside a call when nothing fails.
Step(t) ==
  \/ LockShared(t) \/ LockUnique(t) \/ Relock(t)
  \/ \E i \in DOMAIN pending : WaitForAllModels(t, i)
  \/ SetConstant(t) \/ FoldConstants(t)
  \/ \E workers \in SUBSET Threads : Spawn(t, workers)
  \/ Join(t)
  \/ TakeAvailable(t) \/ TakeFinished(t) \/ WaitForOldest(t) \/ OldestFinished(t)
  \/ CreateEvents(t) \/ ModelRun(t) \/ ModelProfile(t) \/ Profiled(t)
  \/ PushPending(t) \/ NotifyOne(t) \/ StreamDone(t)

Throw(t) == \/ FoldThrows(t) \/ WaitThrows(t) \/ PrepareThrows(t)
            \/ RunThrows(t) \/ CreateEventThrows(t)

Next == \/ \E t \in Threads : \/ \E o \in Ops, s \in Streams : Call(t, o, s)
                              \/ Step(t) \/ Throw(t) \/ SpuriousWakeup(t)
        \/ \E s \in Streams : DeviceFinishes(s)

Spec == Init /\ [][Next]_vars

\* The OS runs every thread that can run, the device works off every stream.
Fairness == /\ \A t \in Threads : WF_vars(Step(t))
            /\ \A s \in Streams : WF_vars(DeviceFinishes(s))

FairSpec == Spec /\ Fairness

----------------------------------------------------------------------------
(* Properties.                                                             *)

TypeOK ==
  /\ available \in Seq(Models) /\ pending \in Seq(Models)
  /\ readers \subseteq Threads /\ writer \in Threads \cup {NoThread}
  /\ folded \in BOOLEAN
  /\ queue \in [Streams -> Seq(Work)]
  /\ pc \in [Threads -> Labels]
  /\ op \in [Threads -> Ops \cup {"none", "benchmark"}]
  /\ stream \in [Threads -> Streams]
  /\ held \in [Threads -> Models \cup {NoModel}]
  /\ todo \in [Threads -> Nat]
  /\ boss \in [Threads -> Threads \cup {NoThread}]
  /\ serving \in BOOLEAN /\ calls \in Nat /\ failures \in Nat

\* A Model is in one place: one entry of one of the two lists, or one thread.
\* (GetAvailableModel pops what it returns, ReclaimFinishedModels erases what
\* it moves, and what a thread took it puts back once.)
OneOwner ==
  /\ IsInjective(available) /\ IsInjective(pending)
  /\ Range(available) \cap Range(pending) = {}
  /\ \A t \in Threads : held[t] \notin Range(available) \cup Range(pending)
  /\ \A t, u \in Threads : held[t] = held[u] /\ held[t] # NoModel => t = u

\* No Model is lost: whatever fails, the pool keeps its num_models Models.
NoModelLost == Models \subseteq Range(available) \cup Range(pending) \cup Range(held)

\* "Once an inference run has started, it is not safe to re-use the Model until
\* the run has finished": a thread about to set a Model's inputs has one whose
\* earlier kernels are all done.
NoReuseInFlight ==
  \A t \in Threads : pc[t] \in {"events", "holding"} => ~InFlight(held[t])

\* constants_sync_mutex_: constants are set, and folding starts, only when no
\* inference runs on the device and none is being queued.
MaintenanceIsQuiet ==
  \A t \in Threads : Quiesced(t) =>
    /\ \A m \in Models : ~InFlight(m)
    /\ \A u \in Threads : pc[u] \notin {"events", "holding", "iterating"}

\* The first fold of Run and Benchmark happens once however many threads find
\* constant_folded_once_ unset at the same time.
FirstFoldOnce ==
  [][\A t \in Threads : op[t] \in InferenceOps /\ FoldConstants(t) => ~folded]_vars

\* Every call comes back: "if there are no models available for inference,
\* Run() will block until one becomes available", and no longer.
EveryCallReturns == \A t \in Threads : pc[t] # "idle" ~> pc[t] = "idle"

\* "(and vice versa)": no inference runs while the constants are being folded.
NoInferenceWhileFolding ==
  \A r, s \in Streams :
    queue[r] # <<>> /\ queue[s] # <<>> /\ Head(queue[r]).model = Folder
      => Head(queue[s]).model = Folder

\* Threads that use a Model, and Models in use by the device.
Using == {"events", "holding", "iterating", "profiling", "push"}
Lease == INSTANCE ModelLease WITH
           Users  <- Threads,
           Items  <- Models,
           leases <- {<<t, held[t]>> : t \in {u \in Threads : pc[u] \in Using}},
           busy   <- {m \in Models : InFlight(m)}

\* The pool leases each idle Model to one thread at a time.
ImplementsLease == Lease!Spec
=============================================================================
