------------------------------ MODULE Profiling ------------------------------
(***************************************************************************)
(* The profiling of a graph (profile of                                    *)
(* python/aitemplate/compiler/transform/profile.py): the functions that    *)
(* are no GEMMs one after the other, each with a TaskRunner of its own,    *)
(* then all GEMMs together on one ProfilerRunner, whose delegate chooses   *)
(* when everything is measured.  Between compilations the choices are kept *)
(* in a database (backend/profiler_cache.py).                              *)
(***************************************************************************)
EXTENDS TaskRunner, ProfilerRunner

CONSTANTS
  DeviceLists,   \* the lists of devices a client may profile on
  Graphs,        \* what is compiled, one graph after the other: [norms |-> the keys
                 \* of the other functions, gemms |-> for each GEMM the keys of its
                 \* workloads].  The length of the list bounds the compilations.
  Keys,          \* what the database distinguishes: kernel family and problem size
  Configs,       \* the kernels generated for a function that is no GEMM
  SplitKs,       \* _split_k_search_space of each key
  NoAlgo         \* algo == ""

ASSUME GraphsAssumption == Graphs \in Seq([norms : Seq(Keys), gemms : Seq(Seq(Keys))])

ASSUME ProfilingAssumption ==
  /\ DeviceLists \subseteq Seq(Devices)
  /\ \A devs \in DeviceLists : \A i, j \in DOMAIN devs : i # j => devs[i] # devs[j]
  /\ Configs \in Seq(Indices)
  /\ \A i, j \in DOMAIN Configs : i < j => Configs[i] # Configs[j]

NormSlot(i)    == <<"norm", i, 1>>
GemmSlot(i, j) == <<"gemm", i, j>>

ASSUME JobsAssumption ==
  \A g \in DOMAIN Graphs : \A i \in DOMAIN Graphs[g].gemms :
    \A j \in DOMAIN Graphs[g].gemms[i] :
      LET splits == SplitKs[Graphs[g].gemms[i][j]] IN
        /\ splits \in Seq(Nat) /\ splits # <<>>
        /\ \A s \in DOMAIN splits : [slot |-> GemmSlot(i, j), split |-> splits[s]] \in Jobs

\* A chosen kernel: what it was measured for, which configuration or split it
\* is, and the time the choice was based on.
Algo == [of : Keys, config : Nat, duration : Nat]

ASSUME NoAlgoAssumption == NoAlgo \notin Algo

VARIABLES
  phase,      \* "idle", "norms", "gemms", "join", "done" or "failed"
  graph,
  opAt, wklAt,  \* the function and its workload that profile has come to
  algo,       \* exec_path: the choice for each workload of each function
  splitK,     \* _attrs["split_k"] of each GEMM
  cache,      \* the database as this process sees it ...
  saved,      \* ... and what has been committed
  compiles    \* how many graphs have been compiled

ownVars == <<phase, graph, opAt, wklAt, algo, splitK, cache, saved, compiles>>
vars    == <<ownVars, taskVars, poolVars>>

Slots(g) == {NormSlot(i) : i \in DOMAIN g.norms}
            \cup UNION {{GemmSlot(i, j) : j \in DOMAIN g.gemms[i]} : i \in DOMAIN g.gemms}
KeyOf(g, s) == IF s[1] = "norm" THEN g.norms[s[2]] ELSE g.gemms[s[2]][s[3]]

EmptyGraph == [norms |-> <<>>, gemms |-> <<>>]

\* _insert: what is there stays.
Insert(table, a) == IF table[a.of] = NoAlgo THEN [table EXCEPT ![a.of] = a] ELSE table

Init ==
  /\ phase = "idle" /\ graph = EmptyGraph /\ opAt = 1 /\ wklAt = 1
  /\ algo = <<>> /\ splitK = <<>> /\ compiles = 0
  /\ cache = [k \in Keys |-> NoAlgo] /\ saved = cache
  /\ devices = <<>> /\ busy = [d \in Devices |-> FALSE]
  /\ queue = <<>> /\ finishedTasks = {} /\ results = <<>>
  /\ runner = "ready" /\ at = 0 /\ allFinished = TRUE
  /\ deviceQueue = <<>> /\ doneQueue = 0 /\ futures = <<>> /\ instances = <<>>
  /\ workers = <<>> /\ joiner = "pushing" /\ toGet = 0

----------------------------------------------------------------------------
(* gen_profiler asks the database for every workload of every GEMM; split_k *)
(* of an operator is that of the last workload that was found.             *)

SplitIgnored(wkls) == 1    \* mutant: split_k of the cached entry is not taken over

SplitFound(wkls) ==
  LET hits == {j \in DOMAIN wkls : cache[wkls[j]] # NoAlgo} IN
  IF hits = {} THEN 1
  ELSE cache[wkls[CHOOSE j \in hits : \A h \in hits : h <= j]].config

StartCompile(devs) ==
  /\ phase = "idle" /\ compiles < Len(Graphs)
  /\ phase' = "norms" /\ graph' = Graphs[compiles + 1] /\ opAt' = 1 /\ wklAt' = 1
  /\ algo' = [s \in Slots(graph') |-> IF s[1] = "gemm" THEN cache[KeyOf(graph', s)] ELSE NoAlgo]
  /\ splitK' = [i \in DOMAIN graph'.gemms |-> SplitFound(graph'.gemms[i])]
  /\ compiles' = compiles + 1
  /\ NewRunner(devs) /\ NewPool(devs)
  /\ UNCHANGED <<cache, saved>>

----------------------------------------------------------------------------
(* The functions that are no GEMMs (profile and _profile_single_workload   *)
(* of compiler/ops/softmax/softmax.py and its like)                        *)

AtNorm == phase = "norms" /\ opAt \in DOMAIN graph.norms

\* A query commits what was inserted before.
NormCached ==
  /\ AtNorm /\ runner = "ready"
  /\ cache[graph.norms[opAt]] # NoAlgo
  /\ algo' = [algo EXCEPT ![NormSlot(opAt)] = cache[graph.norms[opAt]]]
  /\ opAt' = opAt + 1 /\ saved' = cache
  /\ UNCHANGED <<phase, graph, wklAt, splitK, cache, compiles, taskVars, poolVars>>

NormProfile ==
  /\ AtNorm
  /\ cache[graph.norms[opAt]] = NoAlgo
  /\ PushAndJoin(Configs)
  /\ saved' = cache
  /\ UNCHANGED <<phase, graph, opAt, wklAt, algo, splitK, cache, compiles, poolVars>>

NormRunner ==
  /\ phase = "norms"
  /\ RunnerStep
  /\ UNCHANGED <<ownVars, poolVars>>

NormEnvironment ==
  /\ phase = "norms"
  /\ ProcessStep \/ Tick
  /\ UNCHANGED <<ownVars, poolVars>>

NormChoose ==
  /\ AtNorm /\ runner = "pulled"
  /\ IF results = <<>>
     THEN phase' = "failed" /\ UNCHANGED <<algo, cache, opAt>>    \* RuntimeError
     ELSE LET a == [of |-> graph.norms[opAt], config |-> Chosen.idx,
                    duration |-> Chosen.ret.duration] IN
            /\ algo' = [algo EXCEPT ![NormSlot(opAt)] = a]
            /\ cache' = Insert(cache, a)
            /\ opAt' = opAt + 1 /\ UNCHANGED phase
  /\ NewRunner(devices)
  /\ UNCHANGED <<graph, wklAt, splitK, saved, compiles, poolVars>>

NormsDone ==
  /\ phase = "norms" /\ opAt > Len(graph.norms)
  /\ phase' = "gemms" /\ opAt' = 1
  /\ UNCHANGED <<graph, wklAt, algo, splitK, cache, saved, compiles, taskVars, poolVars>>

----------------------------------------------------------------------------
(* The GEMMs (profile and _profile_single_workload of                      *)
(* compiler/ops/gemm_universal/gemm_common.py)                             *)

AtWorkload == /\ phase = "gemms" /\ opAt \in DOMAIN graph.gemms
              /\ wklAt \in DOMAIN graph.gemms[opAt]

NextOp == opAt' = opAt + 1 /\ wklAt' = 1

\* "we have cached best algo": profile returns, so workloads behind this one are
\* not looked at.
GemmCached ==
  /\ AtWorkload
  /\ algo[GemmSlot(opAt, wklAt)] # NoAlgo
  /\ NextOp
  /\ UNCHANGED <<phase, graph, algo, splitK, cache, saved, compiles, taskVars, poolVars>>

\* One profiler for each split.  (The database is asked again before; it has
\* nothing new, because the delegate inserts when all GEMMs are through.)
GemmProfile ==
  /\ AtWorkload
  /\ algo[GemmSlot(opAt, wklAt)] = NoAlgo
  /\ LET key == graph.gemms[opAt][wklAt] IN
       Submit([i \in DOMAIN SplitKs[key] |->
                 [slot |-> GemmSlot(opAt, wklAt), split |-> SplitKs[key][i]]])
  /\ IF wklAt < Len(graph.gemms[opAt]) THEN wklAt' = wklAt + 1 /\ UNCHANGED opAt
                                       ELSE NextOp
  /\ saved' = cache
  /\ UNCHANGED <<phase, graph, algo, splitK, cache, compiles, taskVars>>

GemmsDone ==
  /\ phase = "gemms" /\ opAt > Len(graph.gemms)
  /\ phase' = "join" /\ JoinPool
  /\ UNCHANGED <<graph, opAt, wklAt, algo, splitK, cache, saved, compiles, taskVars>>

\* The threads run from the first push on, and behind a join that has raised.
GemmWorker(w) ==
  /\ w \in DOMAIN workers
  /\ WorkerStep(w) \/ LaunchRaises(w)
  /\ UNCHANGED <<ownVars, taskVars>>

GemmJoin ==
  /\ phase = "join" /\ JoinStep
  /\ UNCHANGED <<ownVars, taskVars>>

GemmRaised ==
  /\ phase = "join" /\ joiner = "raised" /\ phase' = "failed"
  /\ UNCHANGED <<graph, opAt, wklAt, algo, splitK, cache, saved, compiles, taskVars, poolVars>>

----------------------------------------------------------------------------
(* GemmProfilerPostprocessingDelegate.postprocess_results                  *)

\* itertools.groupby: runs of neighbours with the same operator and workload.
SameGroup(i, j) == \A h \in DOMAIN instances :
                     (i <= h /\ h <= j) \/ (j <= h /\ h <= i) =>
                        instances[h].job.slot = instances[i].job.slot

FirstOf(i) == CHOOSE j \in DOMAIN instances :
                SameGroup(i, j) /\ \A h \in DOMAIN instances : SameGroup(i, h) => j <= h

\* Mutant: the last group is not looked at.
GroupStartsButLast ==
  {FirstOf(i) : i \in {j \in DOMAIN instances : ~SameGroup(j, Len(instances))}}

GroupStarts == {FirstOf(i) : i \in DOMAIN instances}

WinnerFirst(i) == FirstOf(i)    \* mutant: the first of the group, not the fastest

\* min with the running time as its key: of equals, the first.
Winner(i) == CHOOSE j \in DOMAIN instances :
               /\ SameGroup(i, j)
               /\ \A h \in DOMAIN instances : SameGroup(i, h) =>
                    /\ instances[j].duration <= instances[h].duration
                    /\ instances[j].duration = instances[h].duration => j <= h

AlgoOf(i) == [of |-> KeyOf(graph, instances[i].job.slot), config |-> instances[i].job.split,
              duration |-> instances[i].duration]

\* The groups one after the other: in the graph the last one of a workload
\* remains, in the database the first one of a key.
Postprocess ==
  /\ phase = "join" /\ joiner = "choosing"
  /\ algo' = [s \in DOMAIN algo |->
       LET mine == {i \in GroupStarts : instances[i].job.slot = s} IN
       IF mine = {} THEN algo[s]
       ELSE AlgoOf(Winner(CHOOSE i \in mine : \A j \in mine : j <= i))]
  /\ splitK' = [o \in DOMAIN splitK |->
       LET mine == {i \in GroupStarts : instances[i].job.slot[2] = o} IN
       IF mine = {} THEN splitK[o]
       ELSE AlgoOf(Winner(CHOOSE i \in mine : \A j \in mine : j <= i)).config]
  /\ cache' = [k \in Keys |->
       LET mine == {i \in GroupStarts : KeyOf(graph, instances[i].job.slot) = k} IN
       IF mine = {} \/ cache[k] # NoAlgo THEN cache[k]
       ELSE AlgoOf(Winner(CHOOSE i \in mine : \A j \in mine : i <= j))]
  /\ joiner' = "joined" /\ phase' = "done"
  /\ UNCHANGED <<graph, opAt, wklAt, saved, compiles, taskVars,
                 deviceQueue, doneQueue, futures, workers, instances, toGet>>

----------------------------------------------------------------------------
(* The process.  At its end it waits for the threads of the pool, and      *)
(* __del__ of the database commits.                                        *)

Forget ==
  /\ phase' = "idle" /\ graph' = EmptyGraph /\ opAt' = 1 /\ wklAt' = 1
  /\ algo' = <<>> /\ splitK' = <<>>
  /\ NewRunner(<<>>) /\ NewPool(<<>>)
  /\ UNCHANGED compiles

EndProcess ==
  /\ phase \in {"done", "failed"}
  /\ \A w \in DOMAIN workers : workers[w].at = "idle"
  /\ saved' = cache /\ UNCHANGED cache
  /\ Forget

Crash ==
  /\ phase # "idle"
  /\ cache' = saved /\ UNCHANGED saved
  /\ Forget

Next == \/ \E devs \in DeviceLists : StartCompile(devs)
        \/ NormCached \/ NormProfile \/ NormRunner \/ NormEnvironment
        \/ NormChoose \/ NormsDone
        \/ GemmCached \/ GemmProfile \/ GemmsDone
        \/ \E w \in DOMAIN workers : GemmWorker(w)
        \/ GemmJoin \/ GemmRaised \/ Postprocess
        \/ EndProcess \/ Crash

Spec == Init /\ [][Next]_vars

\* The main thread goes on, time passes (so tasks and join run into their
\* timeouts), and threads run.  Nothing says that a profiler ends by itself.
MainStep == NormCached \/ NormProfile \/ NormRunner \/ NormChoose \/ NormsDone
            \/ GemmCached \/ GemmProfile \/ GemmsDone \/ GemmJoin \/ GemmRaised
            \/ Postprocess

FairSpec == /\ Spec /\ WF_vars(MainStep)
            /\ WF_vars(phase = "norms" /\ Tick /\ UNCHANGED <<ownVars, poolVars>>)

----------------------------------------------------------------------------
TypeOK ==
  /\ TaskTypeOK /\ PoolTypeOK
  /\ phase \in {"idle", "norms", "gemms", "join", "done", "failed"}
  /\ graph \in {Graphs[i] : i \in DOMAIN Graphs} \cup {EmptyGraph}
  /\ DOMAIN algo = Slots(graph)
  /\ \A s \in DOMAIN algo : algo[s] \in Algo \cup {NoAlgo}
  /\ cache \in [Keys -> Algo \cup {NoAlgo}] /\ saved \in [Keys -> Algo \cup {NoAlgo}]

\* What is chosen for a workload, now or from the database, was measured for that
\* very problem by a profiler that printed a time, and within its timeout.
ChosenWasMeasured ==
  /\ \A s \in DOMAIN algo : algo[s] # NoAlgo =>
       algo[s].of = KeyOf(graph, s) /\ algo[s].duration \in Durations
  /\ \A k \in Keys : \A table \in {cache, saved} : table[k] # NoAlgo =>
       table[k].of = k /\ table[k].duration \in Durations

Measured(s) == {i \in DOMAIN instances : instances[i].job.slot = s}

\* On one device, the split that is chosen for a GEMM is the fastest of those
\* measured ("min runtime per op name, profiler executable and exec_key",
\* gemm_common.py:882).
FastestOnOneDevice ==
  phase = "done" /\ Len(devices) = 1 =>
    \A s \in DOMAIN algo : \A i \in Measured(s) : algo[s].duration <= instances[i].duration

\* The same on any number of devices.
FastestIsChosen ==
  phase = "done" =>
    \A s \in DOMAIN algo : \A i \in Measured(s) : algo[s].duration <= instances[i].duration

\* The one split_k of a GEMM is the one its kernel was measured with.  (The
\* attribute is one per operator: with several workloads it is that of one of them.)
SplitKFits ==
  phase = "done" =>
    \A i \in DOMAIN splitK : \A j \in DOMAIN graph.gemms[i] :
      algo[GemmSlot(i, j)] # NoAlgo => algo[GemmSlot(i, j)].config = splitK[i]

\* A workload is left without a kernel only when none of its profilers printed
\* a time.  (Checked where a GEMM has one workload; profile of gemm_common.py
\* returns at the first cached one, so those behind it may be left out.)
UndecidedOnlyIfFailed ==
  phase = "done" =>
    \A s \in DOMAIN algo : algo[s] = NoAlgo =>
      Measured(s) = {} /\ \E f \in DOMAIN futures : futures[f].job.slot = s

\* Profiling ends, with kernels or with an error, whatever the profilers do.
ProfilingEnds == phase = "norms" ~> phase \in {"done", "failed", "idle"}
=============================================================================
