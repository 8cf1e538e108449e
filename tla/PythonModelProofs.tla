-------------------------- MODULE PythonModelProofs --------------------------
(***************************************************************************)
(* Proofs about ConstantBuffers, for any number of Models and versions,    *)
(* any sets of constants updated in place and any failures; and about      *)
(* PythonModel: what the container does under it is a behaviour of         *)
(* ConstantBuffers, and outside of updates all tensors that are read are   *)
(* held.  What sessions write is proved for sessions that share a stream,  *)
(* as those of the class Model do: Destroyed = {}.                         *)
(***************************************************************************)
EXTENDS PythonModel, TLAPS

\* What may be queued.
FirstWork  == [kind : {"first"}, model : Models, mu : Versions, mb : Addresses]
SecondWork == [kind : {"second"}, model : Models, buffer : Buffers]
AFold      == [kind : {"fold"}, fu : Versions, fb : Addresses, buffer : Buffers]
ACopy      == [kind : {"copy"}, buffer : Buffers, values : UNION {[C -> Versions] : C \in SUBSET Bound}]
InferWork  == FirstWork \cup SecondWork \cup AFold
UpdateWork == AFold \cup ACopy

Inference == [pc : {"idle", "calling", "queued"}, seen : [Constants -> Values],
              due : [Constants -> Versions]]
Labels    == {"idle", "set", "failed", "switched", "folding", "folded", "swapping"}

TypeInv ==
  /\ active \in Buffers /\ bufferState \in {"clean", "updated", "folded"}
  /\ foldedOnce \in BOOLEAN
  /\ slots \in [Buffers -> [Bound -> Values]]
  /\ output \in [Buffers -> [FolderConstants -> Values]]
  /\ staged = NothingStaged \/ staged \in [{"mu"} -> Versions]
  /\ models \in [Models -> [mu : Versions, mb : Addresses, output : Buffers]]
  /\ folder \in [fu : Versions, fb : Addresses, buffer : Buffers]
  /\ queue \in [Streams -> Seq(InferWork \cup UpdateWork)]
  /\ queue["infer"] \in Seq(InferWork)
  /\ queue["update"] \in Seq(UpdateWork)
  /\ \A d \in Destroyed : queue[d] \in Seq(UpdateWork)
  /\ run \in [Models -> Inference]
  /\ updater \in [pc : Labels, i : 1 .. 2 * NumModels + 1]
  /\ given \in [Constants -> Versions] /\ effective \in [Constants -> Versions]
  /\ newest \in Versions /\ failures \in 0 .. MaxFailures

LEMMA TypeInvImpliesTypeOK == TypeInv => TypeOK
  BY DEF TypeInv, TypeOK, Inference

LEMMA TypeInit == Init => TypeInv
<1> SUFFICES ASSUME Init PROVE TypeInv
  OBVIOUS
<1>1. 0 \in Versions /\ NumModels \in Nat \ {0} /\ 0 \in 0 .. MaxFailures
  BY ConstantsAssumption DEF Versions
<1>2. queue["infer"] = <<>> /\ queue["update"] = <<>> /\ queue \in [Streams -> {<<>>}]
  BY DEF Init, Streams
<1>3. effective \in [Constants -> Versions] /\ effective \in [Constants -> Values]
  BY <1>1 DEF Init, Values
<1>4. run \in [Models -> Inference]
  BY <1>3 DEF Init, Inference
<1>5. slots \in [Buffers -> [Bound -> Values]] /\ output \in [Buffers -> [FolderConstants -> Values]]
  BY <1>1 DEF Init, Values
<1>6. models \in [Models -> [mu : Versions, mb : Addresses, output : Buffers]]
  BY <1>1 DEF Init, Addresses, Buffers
<1>7. folder \in [fu : Versions, fb : Addresses, buffer : Buffers]
  BY <1>1 DEF Init, Addresses, Buffers
<1>8. updater \in [pc : Labels, i : 1 .. 2 * NumModels + 1]
  BY <1>1 DEF Init, Labels
<1>9. /\ active \in Buffers /\ bufferState \in {"clean", "updated", "folded"} /\ foldedOnce \in BOOLEAN
      /\ staged = NothingStaged /\ given = effective /\ newest = 0 /\ failures = 0
  BY DEF Init, Buffers
<1>10. (\A S : <<>> \in Seq(S)) /\ \A d \in Destroyed : queue[d] = <<>>
  BY DEF Init, Streams
<1>11. queue \in [Streams -> Seq(InferWork \cup UpdateWork)]
  BY <1>2, <1>10
<1>12. \A d \in Destroyed : queue[d] \in Seq(UpdateWork)
  BY <1>10
<1> QED
  BY <1>1, <1>2, <1>3, <1>4, <1>5, <1>6, <1>7, <1>8, <1>9, <1>10, <1>11, <1>12 DEF TypeInv
----------------------------------------------------------------------------
(* Facts about the operators.                                              *)

\* What Overwrite does to the records of addresses.
LEMMA OverwriteModel ==
  ASSUME NEW r \in [mu : Versions, mb : Addresses, output : Buffers],
         NEW g, DOMAIN g \subseteq {"mu", "mb"}, \A c \in DOMAIN g : g[c] \in Versions
  PROVE  /\ Overwrite(r, g) \in [mu : Versions, mb : Addresses, output : Buffers]
         /\ Overwrite(r, g).output = r.output
         /\ Overwrite(r, g).mu = IF "mu" \in DOMAIN g THEN g["mu"] ELSE r.mu
         /\ Overwrite(r, g).mb = IF "mb" \in DOMAIN g THEN g["mb"] ELSE r.mb
  BY DEF Overwrite, Addresses

LEMMA OverwriteFolder ==
  ASSUME NEW r \in [fu : Versions, fb : Addresses, buffer : Buffers],
         NEW g, DOMAIN g \subseteq {"fu", "fb"}, \A c \in DOMAIN g : g[c] \in Versions
  PROVE  /\ Overwrite(r, g) \in [fu : Versions, fb : Addresses, buffer : Buffers]
         /\ Overwrite(r, g).buffer = r.buffer
         /\ Overwrite(r, g).fu = IF "fu" \in DOMAIN g THEN g["fu"] ELSE r.fu
         /\ Overwrite(r, g).fb = IF "fb" \in DOMAIN g THEN g["fb"] ELSE r.fb
  BY DEF Overwrite, Addresses

\* And to the functions of versions: what was read, the slots, the histories.
LEMMA OverwriteSeen ==
  ASSUME NEW f \in [Constants -> Values], NEW g, \A c \in DOMAIN g : g[c] \in Values
  PROVE  /\ Overwrite(f, g) \in [Constants -> Values]
         /\ \A c \in Constants : Overwrite(f, g)[c] = IF c \in DOMAIN g THEN g[c] ELSE f[c]
  BY DEF Overwrite

LEMMA OverwriteSlots ==
  ASSUME NEW f \in [Bound -> Values], NEW g, \A c \in DOMAIN g : g[c] \in Values
  PROVE  /\ Overwrite(f, g) \in [Bound -> Values]
         /\ \A c \in Bound : Overwrite(f, g)[c] = IF c \in DOMAIN g THEN g[c] ELSE f[c]
  BY DEF Overwrite

LEMMA OverwriteVersions ==
  ASSUME NEW f \in [Constants -> Versions], NEW g, \A c \in DOMAIN g : g[c] \in Versions
  PROVE  /\ Overwrite(f, g) \in [Constants -> Versions]
         /\ \A c \in Constants : Overwrite(f, g)[c] = IF c \in DOMAIN g THEN g[c] ELSE f[c]
  BY DEF Overwrite

\* What an inference is after one of its operators.
LEMMA Sees ==
  ASSUME TypeInv, NEW m \in Models, NEW label \in {"idle", "calling", "queued"},
         NEW g, \A c \in DOMAIN g : g[c] \in Values, Saw(m, label, g)
  PROVE  /\ run' \in [Models -> Inference]
         /\ run'[m].pc = label /\ run'[m].due = run[m].due
         /\ \A c \in Constants : run'[m].seen[c] = IF c \in DOMAIN g THEN g[c] ELSE run[m].seen[c]
         /\ \A n \in Models : n # m => run'[n] = run[n]
<1> DEFINE new == Overwrite(run[m].seen, g)
           r == [run[m] EXCEPT !.pc = label, !.seen = new]
<1>1. run \in [Models -> Inference] /\ run[m] \in Inference
  BY DEF TypeInv
<1>2. run[m].seen \in [Constants -> Values]
  BY <1>1 DEF Inference
<1>3. /\ new \in [Constants -> Values]
      /\ \A c \in Constants : new[c] = IF c \in DOMAIN g THEN g[c] ELSE run[m].seen[c]
  BY <1>2, OverwriteSeen
<1>4. run' = [run EXCEPT ![m] = r]
  BY DEF Saw
<1> HIDE DEF new
<1>5. r \in Inference /\ r.pc = label /\ r.due = run[m].due /\ r.seen = new
  BY <1>1, <1>3 DEF Inference
<1> HIDE DEF r
<1>6. run' \in [Models -> Inference] /\ run'[m] = r /\ \A n \in Models : n # m => run'[n] = run[n]
  BY <1>1, <1>4, <1>5
<1>7. run'[m].seen = new
  BY <1>5, <1>6
<1>8. \A c \in Constants : run'[m].seen[c] = IF c \in DOMAIN g THEN g[c] ELSE run[m].seen[c]
  BY <1>3, <1>7
<1> QED
  BY <1>5, <1>6, <1>8

LEMMA Appended ==
  ASSUME NEW S, NEW q \in Seq(S), NEW w \in S
  PROVE  /\ Append(q, w) \in Seq(S) /\ Len(Append(q, w)) = Len(q) + 1
         /\ Append(q, w) # <<>>
         /\ Append(q, w)[Len(q) + 1] = w
         /\ \A i \in DOMAIN q : Append(q, w)[i] = q[i]
         /\ \A i \in DOMAIN Append(q, w) : i \in DOMAIN q \/ i = Len(q) + 1
  OBVIOUS

LEMMA Removed ==
  ASSUME NEW S, NEW q \in Seq(S), q # <<>>
  PROVE  /\ Tail(q) \in Seq(S) /\ Len(Tail(q)) = Len(q) - 1
         /\ 1 \in DOMAIN q /\ Head(q) = q[1] /\ Head(q) \in S
         /\ \A i \in DOMAIN Tail(q) : i + 1 \in DOMAIN q /\ Tail(q)[i] = q[i + 1]
  OBVIOUS

\* The queues after a submission and after the device has taken some work.
LEMMA Submitted ==
  ASSUME TypeInv, NEW s \in Streams, NEW w,
         w \in IF s = "infer" THEN InferWork ELSE UpdateWork,
         Submit(s, w)
  PROVE  /\ queue' \in [Streams -> Seq(InferWork \cup UpdateWork)]
         /\ queue'["infer"] \in Seq(InferWork)
         /\ queue'["update"] \in Seq(UpdateWork)
         /\ \A d \in Destroyed : queue'[d] \in Seq(UpdateWork)
         /\ queue'[s] = Append(queue[s], w)
         /\ \A t \in Streams : t # s => queue'[t] = queue[t]
<1>1. /\ s \in {"infer", "update"} \cup Destroyed /\ w \in InferWork \cup UpdateWork
      /\ "infer" \notin Destroyed
  BY ConstantsAssumption DEF Streams
<1>2. queue[s] \in Seq(InferWork \cup UpdateWork) /\ queue \in [Streams -> Seq(InferWork \cup UpdateWork)]
  BY DEF TypeInv
<1>3. Append(queue[s], w) \in Seq(InferWork \cup UpdateWork)
  BY <1>1, <1>2, Appended
<1>4. /\ queue' \in [Streams -> Seq(InferWork \cup UpdateWork)]
      /\ queue'[s] = Append(queue[s], w)
      /\ \A t \in Streams : t # s => queue'[t] = queue[t]
  BY <1>2, <1>3 DEF Submit
<1>5. s = "infer" => Append(queue[s], w) \in Seq(InferWork)
  BY Appended DEF TypeInv
<1>6. s # "infer" => Append(queue[s], w) \in Seq(UpdateWork)
  <2>1. s # "infer" => queue[s] \in Seq(UpdateWork)
    BY <1>1 DEF TypeInv
  <2> QED
    BY <2>1, Appended
<1> QED
  BY <1>1, <1>4, <1>5, <1>6 DEF TypeInv, Streams

LEMMA Taken ==
  ASSUME TypeInv, NEW s \in Streams, queue[s] # <<>>,
         queue' = [queue EXCEPT ![s] = Tail(@)]
  PROVE  /\ queue' \in [Streams -> Seq(InferWork \cup UpdateWork)]
         /\ queue'["infer"] \in Seq(InferWork)
         /\ queue'["update"] \in Seq(UpdateWork)
         /\ \A d \in Destroyed : queue'[d] \in Seq(UpdateWork)
         /\ queue'[s] = Tail(queue[s])
         /\ \A t \in Streams : t # s => queue'[t] = queue[t]
         /\ Head(queue[s]) \in IF s = "infer" THEN InferWork ELSE UpdateWork
<1>1. s \in {"infer", "update"} \cup Destroyed /\ "infer" \notin Destroyed
  BY ConstantsAssumption DEF Streams
<1>2. queue[s] \in Seq(InferWork \cup UpdateWork) /\ queue \in [Streams -> Seq(InferWork \cup UpdateWork)]
  BY DEF TypeInv
<1>3. Tail(queue[s]) \in Seq(InferWork \cup UpdateWork)
  BY <1>2, Removed
<1>4. /\ queue' \in [Streams -> Seq(InferWork \cup UpdateWork)]
      /\ queue'[s] = Tail(queue[s])
      /\ \A t \in Streams : t # s => queue'[t] = queue[t]
  BY <1>2, <1>3
<1>5. s = "infer" => Tail(queue[s]) \in Seq(InferWork) /\ Head(queue[s]) \in InferWork
  BY Removed DEF TypeInv
<1>6. s # "infer" => Tail(queue[s]) \in Seq(UpdateWork) /\ Head(queue[s]) \in UpdateWork
  <2>1. s # "infer" => queue[s] \in Seq(UpdateWork)
    BY <1>1 DEF TypeInv
  <2> QED
    BY <2>1, Removed
<1> QED
  BY <1>1, <1>4, <1>5, <1>6 DEF TypeInv, Streams

\* The copies of a session go to its stream, which no inference uses.
LEMMA CopySubmitted ==
  ASSUME TypeInv, NEW w \in UpdateWork, SubmitCopy(w)
  PROVE  /\ queue' \in [Streams -> Seq(InferWork \cup UpdateWork)]
         /\ queue'["infer"] \in Seq(InferWork) /\ queue'["update"] \in Seq(UpdateWork)
         /\ \A d \in Destroyed : queue'[d] \in Seq(UpdateWork)
         /\ queue'["infer"] = queue["infer"]
         /\ Destroyed = {} => Submit("update", w)
<1>1. "update" \in Streams /\ Destroyed \subseteq Streams /\ Destroyed \cap {"infer", "update"} = {}
  BY ConstantsAssumption DEF Streams
<1>2. CASE Submit("update", w)
  BY <1>1, <1>2, Submitted DEF Streams
<1>3. ASSUME NEW d \in Destroyed, queue' = [queue EXCEPT ![d] = queue["update"], !["update"] = <<w>>]
      PROVE  /\ queue' \in [Streams -> Seq(InferWork \cup UpdateWork)]
             /\ queue'["infer"] \in Seq(InferWork) /\ queue'["update"] \in Seq(UpdateWork)
             /\ \A e \in Destroyed : queue'[e] \in Seq(UpdateWork)
             /\ queue'["infer"] = queue["infer"]
  <2>1. <<w>> \in Seq(UpdateWork) /\ <<w>> \in Seq(InferWork \cup UpdateWork)
    OBVIOUS
  <2>2. /\ queue \in [Streams -> Seq(InferWork \cup UpdateWork)] /\ queue["infer"] \in Seq(InferWork)
        /\ queue["update"] \in Seq(UpdateWork) /\ \A e \in Destroyed : queue[e] \in Seq(UpdateWork)
    BY DEF TypeInv
  <2>3. /\ queue'["infer"] = queue["infer"] /\ queue'["update"] = <<w>>
        /\ \A e \in Destroyed : queue'[e] \in {queue[e], queue["update"]}
    BY <1>1, <1>3, <2>2 DEF Streams
  <2>4. queue["update"] \in Seq(InferWork \cup UpdateWork)
    BY <1>1, <2>2
  <2> QED
    BY <1>3, <2>1, <2>2, <2>3, <2>4
<1> QED
  BY <1>2, <1>3 DEF SubmitCopy

LEMMA ReadValue ==
  ASSUME TypeInv, NEW a \in Addresses, NEW c \in Bound
  PROVE  Read(a, c) \in Values
  BY DEF TypeInv, Read, Addresses, Values

LEMMA ReadVersion ==
  ASSUME NEW v \in Versions, NEW c
  PROVE  Read(v, c) = v
  BY ConstantsAssumption DEF Read, Versions, Buffers, Primary, Secondary

\* Work is told apart by its kind.
LEMMA Kinds ==
  ASSUME NEW w \in InferWork \cup UpdateWork
  PROVE  /\ w.kind \in {"first", "second", "fold", "copy"}
         /\ w.kind = "first" => w \in FirstWork
         /\ w.kind = "second" => w \in SecondWork
         /\ w.kind = "fold" => w \in AFold
         /\ w.kind = "copy" => w \in ACopy
  BY DEF InferWork, UpdateWork, FirstWork, SecondWork, AFold, ACopy
----------------------------------------------------------------------------
(* Type correctness, action by action.                                     *)

\* The work the actions submit.
LEMMA WorkTypes ==
  ASSUME TypeInv
  PROVE  /\ FoldWork \in AFold /\ FoldWork \in InferWork /\ FoldWork \in UpdateWork
         /\ FoldWork.kind = "fold" /\ FoldWork.fu = folder.fu /\ FoldWork.fb = folder.fb
         /\ FoldWork.buffer = folder.buffer
         /\ GetInactiveConstantsBuffer \in Buffers /\ GetInactiveConstantsBuffer # active
         /\ \A m \in Models :
              /\ [kind |-> "first", model |-> m, mu |-> models[m].mu, mb |-> models[m].mb] \in FirstWork
              /\ [kind |-> "second", model |-> m, buffer |-> models[m].output] \in SecondWork
<1>1. folder \in [fu : Versions, fb : Addresses, buffer : Buffers]
  BY DEF TypeInv
<1>2. FoldWork \in AFold
  BY <1>1 DEF FoldWork, AFold
<1>3. \A m \in Models : models[m] \in [mu : Versions, mb : Addresses, output : Buffers]
  BY DEF TypeInv
<1>4. active \in {Primary, Secondary} /\ Primary # Secondary
  BY DEF TypeInv, Buffers, Primary, Secondary
<1> QED
  BY <1>2, <1>3, <1>4 DEF FoldWork, InferWork, UpdateWork, FirstWork, SecondWork,
     GetInactiveConstantsBuffer, Buffers

LEMMA CopyTypes ==
  ASSUME TypeInv, NEW C \in SUBSET Constants, NEW v \in Versions
  PROVE  LET w == [kind |-> "copy", buffer |-> GetInactiveConstantsBuffer,
                   values |-> [c \in C \cap Bound |-> v]]
         IN  w \in ACopy /\ w \in UpdateWork
<1>1. [c \in C \cap Bound |-> v] \in UNION {[D -> Versions] : D \in SUBSET Bound}
  <2>1. [c \in C \cap Bound |-> v] \in [C \cap Bound -> Versions] /\ C \cap Bound \in SUBSET Bound
    OBVIOUS
  <2> QED
    BY <2>1
<1> QED
  BY <1>1, WorkTypes DEF ACopy, UpdateWork

LEMMA TypeDevice ==
  ASSUME TypeInv, NEW s \in Streams, DeviceExecutes(s)
  PROVE  TypeInv'
<1> DEFINE w == Head(queue[s])
<1>1. /\ queue[s] # <<>> /\ queue' = [queue EXCEPT ![s] = Tail(@)]
      /\ ExecuteFirst(w) \/ ExecuteSecond(w) \/ ExecuteFold(w) \/ ExecuteCopy(w)
      /\ UNCHANGED <<active, bufferState, foldedOnce, tables, updater, history>>
  BY DEF DeviceExecutes
<1>2. /\ queue' \in [Streams -> Seq(InferWork \cup UpdateWork)]
      /\ queue'["infer"] \in Seq(InferWork) /\ queue'["update"] \in Seq(UpdateWork)
      /\ \A d \in Destroyed : queue'[d] \in Seq(UpdateWork)
      /\ w \in InferWork \cup UpdateWork
  BY <1>1, Taken
<1>3. /\ slots' \in [Buffers -> [Bound -> Values]] /\ output' \in [Buffers -> [FolderConstants -> Values]]
      /\ run' \in [Models -> Inference]
  <2>1. CASE ExecuteFirst(w)
    <3>1. w \in FirstWork
      BY <1>2, <2>1, Kinds DEF ExecuteFirst
    <3>2. w.model \in Models /\ w.mu \in Versions /\ w.mb \in Addresses
      BY <3>1 DEF FirstWork
    <3> DEFINE g == [mu |-> Read(w.mu, "mu"), mb |-> Read(w.mb, "mb")]
    <3>3. \A c \in DOMAIN g : g[c] \in Values
      BY <3>2, ReadVersion, ReadValue DEF Values, Bound
    <3>4. run[w.model].pc \in {"idle", "calling", "queued"}
      BY <3>2 DEF TypeInv, Inference
    <3>5. Saw(w.model, run[w.model].pc, g)
      BY <2>1 DEF ExecuteFirst
    <3> HIDE DEF g
    <3>6. run' \in [Models -> Inference]
      BY <3>2, <3>3, <3>4, <3>5, Sees
    <3> QED
      BY <2>1, <3>6 DEF ExecuteFirst, TypeInv
  <2>2. CASE ExecuteSecond(w)
    <3>1. w \in SecondWork
      BY <1>2, <2>2, Kinds DEF ExecuteSecond
    <3>2. w.model \in Models /\ w.buffer \in Buffers
      BY <3>1 DEF SecondWork
    <3>3. \A c \in DOMAIN output[w.buffer] : output[w.buffer][c] \in Values
      BY <3>2 DEF TypeInv
    <3>4. Saw(w.model, "idle", output[w.buffer])
      BY <2>2 DEF ExecuteSecond
    <3>5. run' \in [Models -> Inference]
      BY <3>2, <3>3, <3>4, Sees
    <3> QED
      BY <2>2, <3>5 DEF ExecuteSecond, TypeInv
  <2>3. CASE ExecuteFold(w)
    <3>1. w \in AFold
      BY <1>2, <2>3, Kinds DEF ExecuteFold
    <3>2. Read(w.fu, "fu") \in Values /\ Read(w.fb, "fb") \in Values
      BY <3>1, ReadVersion, ReadValue DEF AFold, Values, Bound
    <3>3. [fu |-> Read(w.fu, "fu"), fb |-> Read(w.fb, "fb")] \in [FolderConstants -> Values]
      BY <3>2 DEF FolderConstants
    <3> QED
      BY <2>3, <3>3 DEF ExecuteFold, TypeInv
  <2>4. CASE ExecuteCopy(w)
    <3>1. w \in ACopy
      BY <1>2, <2>4, Kinds DEF ExecuteCopy
    <3>2. w.buffer \in Buffers /\ \A c \in DOMAIN w.values : w.values[c] \in Values
      BY <3>1 DEF ACopy, Values
    <3>3. Overwrite(slots[w.buffer], w.values) \in [Bound -> Values]
      <4>1. slots[w.buffer] \in [Bound -> Values]
        BY <3>2 DEF TypeInv
      <4> QED
        BY <3>2, <4>1, OverwriteSlots
    <3> QED
      BY <2>4, <3>2, <3>3 DEF ExecuteCopy, TypeInv
  <2> QED
    BY <1>1, <2>1, <2>2, <2>3, <2>4
<1> QED
  BY <1>1, <1>2, <1>3 DEF TypeInv, tables, history

LEMMA TypeFirstFold == ASSUME TypeInv, FirstFold \/ FoldConstants PROVE TypeInv'
<1>1. /\ Submit("infer", FoldWork) /\ foldedOnce' = TRUE
      /\ bufferState' \in {bufferState, "folded"}
      /\ effective' = Overwrite(effective, [c \in FolderConstants |-> given[c]])
      /\ UNCHANGED <<active, slots, output, tables, run, updater, given, newest, failures>>
  BY DEF FirstFold, FoldConstants
<1>2. /\ queue' \in [Streams -> Seq(InferWork \cup UpdateWork)]
      /\ queue'["infer"] \in Seq(InferWork) /\ queue'["update"] \in Seq(UpdateWork)
      /\ \A d \in Destroyed : queue'[d] \in Seq(UpdateWork)
  BY <1>1, WorkTypes, Submitted DEF Streams
<1>3. effective' \in [Constants -> Versions]
  <2>1. \A c \in FolderConstants : given[c] \in Versions
    BY DEF TypeInv, Constants
  <2> QED
    BY <1>1, <2>1, OverwriteVersions DEF TypeInv
<1> QED
  BY <1>1, <1>2, <1>3 DEF TypeInv, tables

LEMMA TypeStartRun == ASSUME TypeInv, NEW m \in Models, StartRun(m) PROVE TypeInv'
<1>1. /\ Submit("infer", [kind |-> "first", model |-> m, mu |-> models[m].mu, mb |-> models[m].mb])
      /\ run' = [run EXCEPT ![m] = [run[m] EXCEPT !.pc = "calling", !.due = effective]]
      /\ UNCHANGED <<buffers, tables, updater, history>>
  BY DEF StartRun
<1>2. /\ queue' \in [Streams -> Seq(InferWork \cup UpdateWork)]
      /\ queue'["infer"] \in Seq(InferWork) /\ queue'["update"] \in Seq(UpdateWork)
      /\ \A d \in Destroyed : queue'[d] \in Seq(UpdateWork)
  BY <1>1, WorkTypes, Submitted DEF Streams, InferWork
<1>3. [run[m] EXCEPT !.pc = "calling", !.due = effective] \in Inference
  BY DEF TypeInv, Inference
<1>4. run' \in [Models -> Inference]
  BY <1>1, <1>3 DEF TypeInv
<1> QED
  BY <1>1, <1>2, <1>4 DEF TypeInv, tables, buffers, history

LEMMA TypeFinishCall == ASSUME TypeInv, NEW m \in Models, FinishCall(m) PROVE TypeInv'
<1>1. /\ Submit("infer", [kind |-> "second", model |-> m, buffer |-> models[m].output])
      /\ run' = [run EXCEPT ![m].pc = "queued"]
      /\ UNCHANGED <<buffers, tables, updater, history>>
  BY DEF FinishCall
<1>2. /\ queue' \in [Streams -> Seq(InferWork \cup UpdateWork)]
      /\ queue'["infer"] \in Seq(InferWork) /\ queue'["update"] \in Seq(UpdateWork)
      /\ \A d \in Destroyed : queue'[d] \in Seq(UpdateWork)
  BY <1>1, WorkTypes, Submitted DEF Streams, InferWork
<1>3. [run[m] EXCEPT !.pc = "queued"] \in Inference
  BY DEF TypeInv, Inference
<1>4. run' = [run EXCEPT ![m] = [run[m] EXCEPT !.pc = "queued"]]
  BY <1>1
<1>5. run' \in [Models -> Inference]
  BY <1>3, <1>4 DEF TypeInv
<1> QED
  BY <1>1, <1>2, <1>5 DEF TypeInv, tables, buffers, history

\* The next version is one, while there is one.
LEMMA NextVersion == TypeInv /\ newest < MaxVersion => newest + 1 \in Versions
  BY ConstantsAssumption DEF TypeInv, Versions

\* What an update in place does to the Models and the folder.
LEMMA TablesSet ==
  ASSUME TypeInv, NEW C \in SUBSET Constants, NEW v \in Versions, SetTables(C, v)
  PROVE  /\ models' \in [Models -> [mu : Versions, mb : Addresses, output : Buffers]]
         /\ \A m \in Models : /\ models'[m].output = models[m].output
                              /\ models'[m].mu = IF "mu" \in C THEN v ELSE models[m].mu
                              /\ models'[m].mb = IF "mb" \in C THEN v ELSE models[m].mb
         /\ folder' \in [fu : Versions, fb : Addresses, buffer : Buffers]
         /\ folder'.buffer = folder.buffer
         /\ folder'.fu = IF "fu" \in C THEN v ELSE folder.fu
         /\ folder'.fb = IF "fb" \in C THEN v ELSE folder.fb
<1>1. /\ models' = [m \in Models |-> Overwrite(models[m], [c \in C \cap ModelConstants |-> v])]
      /\ folder' = Overwrite(folder, [c \in C \cap FolderConstants |-> v])
  BY DEF SetTables
<1>2. folder \in [fu : Versions, fb : Addresses, buffer : Buffers]
  BY DEF TypeInv
<1>3. \A m \in Models :
        LET r == Overwrite(models[m], [c \in C \cap ModelConstants |-> v])
        IN  /\ r \in [mu : Versions, mb : Addresses, output : Buffers] /\ r.output = models[m].output
            /\ r.mu = IF "mu" \in C THEN v ELSE models[m].mu
            /\ r.mb = IF "mb" \in C THEN v ELSE models[m].mb
  <2> TAKE m \in Models
  <2> DEFINE g == [c \in C \cap ModelConstants |-> v]
  <2>1. models[m] \in [mu : Versions, mb : Addresses, output : Buffers]
    BY DEF TypeInv
  <2>2. /\ DOMAIN g \subseteq {"mu", "mb"} /\ \A c \in DOMAIN g : g[c] = v
        /\ "mu" \in DOMAIN g <=> "mu" \in C
        /\ "mb" \in DOMAIN g <=> "mb" \in C
    BY DEF ModelConstants
  <2> HIDE DEF g
  <2>3. LET r == Overwrite(models[m], g)
        IN  /\ r \in [mu : Versions, mb : Addresses, output : Buffers] /\ r.output = models[m].output
            /\ r.mu = IF "mu" \in C THEN v ELSE models[m].mu
            /\ r.mb = IF "mb" \in C THEN v ELSE models[m].mb
    BY <2>1, <2>2, OverwriteModel
  <2> QED
    BY <2>3 DEF g
<1>4. /\ folder' \in [fu : Versions, fb : Addresses, buffer : Buffers]
      /\ folder'.buffer = folder.buffer
      /\ folder'.fu = IF "fu" \in C THEN v ELSE folder.fu
      /\ folder'.fb = IF "fb" \in C THEN v ELSE folder.fb
  <2> DEFINE g == [c \in C \cap FolderConstants |-> v]
  <2>1. /\ DOMAIN g \subseteq {"fu", "fb"} /\ \A c \in DOMAIN g : g[c] = v
        /\ "fu" \in DOMAIN g <=> "fu" \in C
        /\ "fb" \in DOMAIN g <=> "fb" \in C
    BY DEF FolderConstants
  <2>2. folder' = Overwrite(folder, g)
    BY <1>1
  <2> HIDE DEF g
  <2> QED
    BY <1>2, <2>1, <2>2, OverwriteFolder
<1> QED
  BY <1>1, <1>3, <1>4

LEMMA TypeSetMany ==
  ASSUME TypeInv, NEW C, NEW D \in SUBSET Constants, SetManyConstants(C, D) PROVE TypeInv'
<1>1. /\ newest < MaxVersion /\ SetTables(D, newest + 1) /\ bufferState' \in {bufferState, "updated"}
      /\ newest' = newest + 1 /\ failures' \in {failures, failures + 1} /\ failures' <= MaxFailures
      /\ given' = Overwrite(given, [c \in D |-> newest + 1])
      /\ effective' = Overwrite(effective, [c \in D \cap ModelConstants |-> newest + 1])
      /\ UNCHANGED <<active, foldedOnce, slots, output, staged, queue, run, updater>>
  BY ConstantsAssumption DEF SetManyConstants, TypeInv
<1>2. newest + 1 \in Versions
  BY <1>1, NextVersion
<1>3. /\ models' \in [Models -> [mu : Versions, mb : Addresses, output : Buffers]]
      /\ folder' \in [fu : Versions, fb : Addresses, buffer : Buffers]
  BY <1>1, <1>2, TablesSet
<1>4. given' \in [Constants -> Versions]
  BY <1>1, <1>2, OverwriteVersions DEF TypeInv
<1>5. effective' \in [Constants -> Versions]
  BY <1>1, <1>2, OverwriteVersions DEF TypeInv
<1>6. failures' \in 0 .. MaxFailures
  BY <1>1, ConstantsAssumption DEF TypeInv
<1> QED
  BY <1>1, <1>2, <1>3, <1>4, <1>5, <1>6 DEF TypeInv

LEMMA TypeSetDoubleBuffer ==
  ASSUME TypeInv, NEW C \in SUBSET Constants, SetManyDoubleBufferConstants(C) PROVE TypeInv'
<1> DEFINE v == newest + 1
           w == [kind |-> "copy", buffer |-> GetInactiveConstantsBuffer,
                 values |-> [c \in C \cap Bound |-> v]]
<1>1. /\ newest < MaxVersion /\ failures' \in {failures, failures + 1} /\ failures' <= MaxFailures
      /\ staged' = Staged(C, v)
      /\ folder' = Overwrite(folder, [c \in C \cap {"fu"} |-> v])
      /\ SubmitCopy(w)
      /\ bufferState' \in {bufferState, "updated"} /\ newest' = v
      /\ updater' = [updater EXCEPT !.pc = IF C = Constants THEN "set" ELSE "failed"]
      /\ UNCHANGED <<active, foldedOnce, slots, output, models, run, given, effective>>
  BY ConstantsAssumption DEF SetManyDoubleBufferConstants, SetDoubleBuffer, TypeInv
<1>2. v \in Versions
  BY <1>1, NextVersion
<1>3. /\ queue' \in [Streams -> Seq(InferWork \cup UpdateWork)]
      /\ queue'["infer"] \in Seq(InferWork) /\ queue'["update"] \in Seq(UpdateWork)
      /\ \A d \in Destroyed : queue'[d] \in Seq(UpdateWork)
  <2>1. w \in UpdateWork
    BY <1>2, CopyTypes
  <2> HIDE DEF w
  <2> QED
    BY <1>1, <2>1, CopySubmitted
<1>4. folder' \in [fu : Versions, fb : Addresses, buffer : Buffers]
  <2> DEFINE g == [c \in C \cap {"fu"} |-> v]
  <2>1. DOMAIN g \subseteq {"fu", "fb"} /\ \A c \in DOMAIN g : g[c] \in Versions
    BY <1>2
  <2>2. folder' = Overwrite(folder, g)
    BY <1>1
  <2> HIDE DEF g
  <2> QED
    BY <2>1, <2>2, OverwriteFolder DEF TypeInv
<1>5. staged' = NothingStaged \/ staged' \in [{"mu"} -> Versions]
  <2>1. DOMAIN staged = {} \/ (DOMAIN staged = {"mu"} /\ staged["mu"] \in Versions)
    BY DEF TypeInv, NothingStaged
  <2>2. staged' = [c \in DOMAIN staged \cup (C \cap {"mu"}) |-> IF c \in C THEN v ELSE staged[c]]
    BY <1>1 DEF Staged
  <2>3. CASE DOMAIN staged \cup (C \cap {"mu"}) = {}
    BY <2>2, <2>3 DEF NothingStaged
  <2>4. CASE DOMAIN staged \cup (C \cap {"mu"}) = {"mu"}
    <3>1. "mu" \in C \/ staged["mu"] \in Versions
      BY <2>1, <2>4
    <3> QED
      BY <1>2, <2>2, <2>4, <3>1
  <2> QED
    BY <2>1, <2>3, <2>4
<1>6. updater' \in [pc : Labels, i : 1 .. 2 * NumModels + 1]
  BY <1>1 DEF TypeInv, Labels
<1>7. failures' \in 0 .. MaxFailures
  BY <1>1, ConstantsAssumption DEF TypeInv
<1> QED
  BY <1>1, <1>2, <1>3, <1>4, <1>5, <1>6, <1>7 DEF TypeInv

\* The steps of the updating thread that neither set nor fold anything.
LEMMA TypeUpdater ==
  ASSUME TypeInv, SwapConstantFolderBuffer \/ FoldReturns \/ SwapRefused \/ SwapConstants \/ SwapDone
  PROVE  TypeInv'
<1>1. GetInactiveConstantsBuffer \in Buffers
  BY WorkTypes
<1>2. 1 \in 1 .. 2 * NumModels + 1 /\ {"switched", "folded", "failed", "swapping", "idle"} \subseteq Labels
  BY ConstantsAssumption DEF Labels
<1>3. newest \in Versions
  BY DEF TypeInv
<1>4. CASE SwapConstantFolderBuffer
  <2>1. folder' \in [fu : Versions, fb : Addresses, buffer : Buffers]
    BY <1>1, <1>4 DEF SwapConstantFolderBuffer, TypeInv, Addresses
  <2>2. updater' \in [pc : Labels, i : 1 .. 2 * NumModels + 1]
    BY <1>2, <1>4 DEF SwapConstantFolderBuffer, TypeInv
  <2> QED
    BY <1>4, <2>1, <2>2 DEF SwapConstantFolderBuffer, TypeInv, history
<1>5. CASE FoldReturns \/ SwapRefused
  <2>1. updater' \in [pc : Labels, i : 1 .. 2 * NumModels + 1]
    BY <1>2, <1>5 DEF FoldReturns, SwapRefused, TypeInv
  <2> QED
    BY <1>5, <2>1 DEF FoldReturns, SwapRefused, TypeInv, buffers, tables, history
<1>6. CASE SwapConstants
  <2>1. updater' \in [pc : Labels, i : 1 .. 2 * NumModels + 1]
    BY <1>2, <1>6 DEF SwapConstants
  <2>2. given' \in [Constants -> Versions] /\ effective' \in [Constants -> Versions]
    BY <1>3, <1>6 DEF SwapConstants
  <2> QED
    BY <1>1, <1>6, <2>1, <2>2 DEF SwapConstants, TypeInv, tables
<1>7. CASE SwapDone
  <2>1. updater' \in [pc : Labels, i : 1 .. 2 * NumModels + 1]
    BY <1>2, <1>7 DEF SwapDone
  <2> QED
    BY <1>7, <2>1 DEF SwapDone, TypeInv, history
<1> QED
  BY <1>4, <1>5, <1>6, <1>7

LEMMA TypeFoldInDoubleBuffer == ASSUME TypeInv, FoldInDoubleBuffer PROVE TypeInv'
<1>1. /\ Submit("update", FoldWork) /\ foldedOnce' = TRUE
      /\ updater' = [updater EXCEPT !.pc = "folding"]
      /\ UNCHANGED <<active, bufferState, slots, output, tables, run, history>>
  BY DEF FoldInDoubleBuffer
<1>2. /\ queue' \in [Streams -> Seq(InferWork \cup UpdateWork)]
      /\ queue'["infer"] \in Seq(InferWork) /\ queue'["update"] \in Seq(UpdateWork)
      /\ \A d \in Destroyed : queue'[d] \in Seq(UpdateWork)
  BY <1>1, WorkTypes, Submitted DEF Streams
<1>3. updater' \in [pc : Labels, i : 1 .. 2 * NumModels + 1]
  BY <1>1 DEF TypeInv, Labels
<1> QED
  BY <1>1, <1>2, <1>3 DEF TypeInv, tables, history

\* What one step of SwapConstants' loops does to a Model.
LEMMA ModelSwapped ==
  ASSUME TypeInv, NEW m \in Models, SwapModels(m)
  PROVE  /\ models' \in [Models -> [mu : Versions, mb : Addresses, output : Buffers]]
         /\ \A n \in Models : n # m => models'[n] = models[n]
         /\ updater.i <= NumModels =>
              models'[m].mu = models[m].mu /\ models'[m].mb = active /\ models'[m].output = active
         /\ updater.i > NumModels =>
              /\ models'[m].mb = models[m].mb /\ models'[m].output = models[m].output
              /\ models'[m].mu = IF staged = NothingStaged THEN models[m].mu ELSE staged["mu"]
<1>1. models[m] \in [mu : Versions, mb : Addresses, output : Buffers]
  BY DEF TypeInv
<1>2. updater.i \in 1 .. 2 * NumModels + 1 /\ NumModels \in Nat /\ active \in Buffers
  BY ConstantsAssumption DEF TypeInv
<1>3. CASE updater.i <= NumModels
  <2> DEFINE r == [models[m] EXCEPT !.mb = active, !.output = active]
  <2>1. models' = [models EXCEPT ![m] = r]
    BY <1>1, <1>3 DEF SwapModels, SwapModel, TypeInv
  <2>2. /\ r \in [mu : Versions, mb : Addresses, output : Buffers]
        /\ r.mu = models[m].mu /\ r.mb = active /\ r.output = active
    BY <1>1, <1>2 DEF Addresses
  <2> HIDE DEF r
  <2> QED
    BY <1>2, <1>3, <2>1, <2>2 DEF TypeInv
<1>4. CASE updater.i > NumModels
  <2> DEFINE r == Overwrite(models[m], staged)
  <2>1. models' = [models EXCEPT ![m] = r]
    BY <1>2, <1>4 DEF SwapModels, SwapModel
  <2>2. /\ DOMAIN staged \subseteq {"mu", "mb"} /\ \A c \in DOMAIN staged : staged[c] \in Versions
        /\ "mb" \notin DOMAIN staged
        /\ "mu" \in DOMAIN staged <=> staged # NothingStaged
    BY DEF TypeInv, NothingStaged
  <2>3. /\ r \in [mu : Versions, mb : Addresses, output : Buffers] /\ r.output = models[m].output
        /\ r.mu = IF staged = NothingStaged THEN models[m].mu ELSE staged["mu"]
        /\ r.mb = models[m].mb
    BY <1>1, <2>2, OverwriteModel
  <2> HIDE DEF r
  <2> QED
    BY <1>2, <1>4, <2>1, <2>3 DEF TypeInv
<1> QED
  BY <1>2, <1>3, <1>4

LEMMA TypeSwapModels == ASSUME TypeInv, NEW m \in Models, SwapModels(m) PROVE TypeInv'
<1>1. models' \in [Models -> [mu : Versions, mb : Addresses, output : Buffers]]
  BY ModelSwapped
<1>2. updater.i \in {m, m + NumModels} /\ updater' = [updater EXCEPT !.i = updater.i + 1]
  BY DEF SwapModels
<1>3. updater.i + 1 \in 1 .. 2 * NumModels + 1
  BY <1>2, ConstantsAssumption DEF Models
<1>4. updater' \in [pc : Labels, i : 1 .. 2 * NumModels + 1]
  BY <1>2, <1>3 DEF TypeInv
<1> QED
  BY <1>1, <1>4 DEF SwapModels, TypeInv, buffers, history

LEMMA TypeStep == TypeInv /\ [Next]_vars => TypeInv'
<1> SUFFICES ASSUME TypeInv, [Next]_vars PROVE TypeInv'
  OBVIOUS
<1>1. CASE Next
  BY <1>1, TypeDevice, TypeFirstFold, TypeStartRun, TypeFinishCall, TypeSwapModels, TypeSetMany,
     TypeSetDoubleBuffer, TypeUpdater, TypeFoldInDoubleBuffer DEF Next
<1>2. CASE UNCHANGED vars
  BY <1>2 DEF TypeInv, vars, buffers, tables, history
<1> QED
  BY <1>1, <1>2

LEMMA AlwaysTypeInv == Spec => []TypeInv
  BY TypeInit, TypeStep, PTL DEF Spec

\* Every variable keeps the type the code declares for it.
THEOREM ConstantTypes == Spec => []TypeOK
  BY AlwaysTypeInv, TypeInvImpliesTypeOK, PTL
----------------------------------------------------------------------------
(* Sessions write the inactive buffer only.                                *)

Inactive == GetInactiveConstantsBuffer

\* The stream of the session has no work left when the buffers are swapped, and the
\* folder has moved to the inactive buffer before it folds for a session.
SessionInv ==
  /\ Destroyed = {} => SessionsWriteInactive
  /\ updater.pc \in {"idle", "folded", "swapping"} => queue["update"] = <<>>
  /\ updater.pc \in {"switched", "folding", "folded"} =>
       folder.fb = Inactive /\ folder.buffer = Inactive

\* The steps of the inferences, of the device on their stream, and of folds on
\* their stream leave what SessionInv is about alone.
LEMMA SessionAside ==
  ASSUME SessionInv, UNCHANGED <<active, updater, folder>>, queue'["update"] = queue["update"]
  PROVE  SessionInv'
  BY DEF SessionInv, SessionsWriteInactive, Streams, Inactive, GetInactiveConstantsBuffer

LEMMA SessionDevice ==
  ASSUME TypeInv, SessionInv, NEW s \in Streams, DeviceExecutes(s)
  PROVE  SessionInv'
<1>1. queue[s] # <<>> /\ queue' = [queue EXCEPT ![s] = Tail(@)] /\ UNCHANGED <<active, updater, folder>>
  BY DEF DeviceExecutes, tables
<1>2. CASE s # "update"
  BY <1>1, <1>2, Taken, SessionAside DEF Streams
<1>3. CASE s = "update"
  <2>1. queue'["update"] = Tail(queue["update"]) /\ queue["update"] \in Seq(UpdateWork)
    BY <1>1, <1>3, Taken DEF TypeInv
  <2>2. Destroyed = {} => SessionsWriteInactive'
    BY <1>1, <1>3, <2>1, Removed DEF SessionInv, SessionsWriteInactive, Streams
  <2> QED
    BY <1>1, <1>3, <2>2 DEF SessionInv, Inactive, GetInactiveConstantsBuffer
<1> QED
  BY <1>2, <1>3

LEMMA SessionInference ==
  ASSUME TypeInv, SessionInv,
         FirstFold \/ FoldConstants \/ (\E m \in Models : StartRun(m) \/ FinishCall(m))
  PROVE  SessionInv'
<1>1. UNCHANGED <<active, updater, folder>>
  BY DEF FirstFold, FoldConstants, StartRun, FinishCall, tables, buffers
<1>2. \E w : Submit("infer", w)
  BY DEF FirstFold, FoldConstants, StartRun, FinishCall
<1>3. queue'["update"] = queue["update"]
  BY <1>2 DEF Submit, TypeInv, Streams
<1> QED
  BY <1>1, <1>3, SessionAside

LEMMA SessionSet ==
  ASSUME TypeInv, SessionInv, NEW C \in SUBSET Constants,
         (\E D \in SUBSET C : SetManyConstants(C, D)) \/ SetManyDoubleBufferConstants(C)
  PROVE  SessionInv'
<1>1. CASE \E D \in SUBSET C : SetManyConstants(C, D)
  BY <1>1 DEF SetManyConstants, SessionInv, SessionsWriteInactive
<1>2. CASE SetManyDoubleBufferConstants(C)
  <2> DEFINE w == [kind |-> "copy", buffer |-> GetInactiveConstantsBuffer,
                   values |-> [c \in C \cap Bound |-> newest + 1]]
  <2>1. /\ newest < MaxVersion /\ SubmitCopy(w) /\ UNCHANGED active
        /\ updater' = [updater EXCEPT !.pc = IF C = Constants THEN "set" ELSE "failed"]
    BY <1>2 DEF SetManyDoubleBufferConstants, SetDoubleBuffer
  <2>2. w \in UpdateWork /\ w.buffer # active
    BY <2>1, NextVersion, CopyTypes, WorkTypes
  <2> HIDE DEF w
  <2>3. Destroyed = {} =>
          queue'["update"] = Append(queue["update"], w) /\ queue["update"] \in Seq(UpdateWork)
    BY <2>1, <2>2, CopySubmitted, Submitted DEF Streams, TypeInv
  <2>4. Destroyed = {} => SessionsWriteInactive'
    BY <2>1, <2>2, <2>3, Appended DEF SessionInv, SessionsWriteInactive, Streams
  <2>5. updater'.pc \in {"set", "failed"}
    BY <2>1 DEF TypeInv
  <2> QED
    BY <2>4, <2>5 DEF SessionInv
<1> QED
  BY <1>1, <1>2

LEMMA SessionFold == ASSUME TypeInv, SessionInv, FoldInDoubleBuffer PROVE SessionInv'
<1>1. /\ Submit("update", FoldWork) /\ updater.pc = "switched" /\ UNCHANGED <<active, folder>>
      /\ updater' = [updater EXCEPT !.pc = "folding"]
  BY DEF FoldInDoubleBuffer, tables
<1>2. FoldWork \in UpdateWork /\ FoldWork.buffer = Inactive /\ FoldWork.buffer # active
  BY <1>1, WorkTypes DEF SessionInv, Inactive
<1>3. queue'["update"] = Append(queue["update"], FoldWork) /\ queue["update"] \in Seq(UpdateWork)
  BY <1>1, <1>2, Submitted DEF Streams, TypeInv
<1>4. Destroyed = {} => SessionsWriteInactive'
  BY <1>1, <1>2, <1>3, Appended DEF SessionInv, SessionsWriteInactive, Streams
<1>5. updater'.pc = "folding"
  BY <1>1 DEF TypeInv
<1> QED
  BY <1>1, <1>4, <1>5 DEF SessionInv, Inactive, GetInactiveConstantsBuffer

LEMMA SessionUpdater ==
  ASSUME TypeInv, SessionInv,
         \/ SwapConstantFolderBuffer \/ FoldReturns \/ SwapRefused \/ SwapConstants \/ SwapDone
         \/ \E m \in Models : SwapModels(m)
  PROVE  SessionInv'
<1>1. CASE SwapConstantFolderBuffer
  <2>1. updater'.pc = "switched" /\ folder'.fb = Inactive /\ folder'.buffer = Inactive
    BY <1>1 DEF SwapConstantFolderBuffer, TypeInv, Inactive
  <2> QED
    BY <1>1, <2>1 DEF SwapConstantFolderBuffer, SessionInv, SessionsWriteInactive, Streams, Inactive, GetInactiveConstantsBuffer
<1>2. CASE FoldReturns
  <2>1. updater'.pc = "folded" /\ updater.pc = "folding" /\ queue["update"] = <<>> /\ UNCHANGED <<active, folder, queue>>
    BY <1>2 DEF FoldReturns, TypeInv, buffers, tables
  <2> QED
    BY <2>1 DEF SessionInv, SessionsWriteInactive, Streams, Inactive, GetInactiveConstantsBuffer
<1>3. CASE SwapRefused
  <2>1. updater'.pc = "failed" /\ UNCHANGED <<active, folder, queue>>
    BY <1>3 DEF SwapRefused, TypeInv, buffers, tables
  <2> QED
    BY <2>1 DEF SessionInv, SessionsWriteInactive, Streams
<1>4. CASE SwapConstants
  <2>1. updater.pc = "folded" /\ updater'.pc = "swapping" /\ UNCHANGED queue
    BY <1>4 DEF SwapConstants
  <2> QED
    BY <2>1 DEF SessionInv, SessionsWriteInactive, Streams
<1>5. CASE SwapDone
  <2>1. updater.pc = "swapping" /\ updater'.pc = "idle" /\ UNCHANGED queue
    BY <1>5 DEF SwapDone
  <2> QED
    BY <2>1 DEF SessionInv, SessionsWriteInactive, Streams
<1>6. CASE \E m \in Models : SwapModels(m)
  <2>1. updater.pc = "swapping" /\ updater'.pc = "swapping" /\ UNCHANGED queue
    BY <1>6 DEF SwapModels, TypeInv
  <2> QED
    BY <2>1 DEF SessionInv, SessionsWriteInactive, Streams
<1> QED
  BY <1>1, <1>2, <1>3, <1>4, <1>5, <1>6

LEMMA AlwaysSessionInv == Spec => [](TypeInv /\ SessionInv)
<1>1. Init => SessionInv
  BY DEF Init, SessionInv, SessionsWriteInactive, Streams
<1>2. TypeInv /\ SessionInv /\ [Next]_vars => SessionInv'
  <2> SUFFICES ASSUME TypeInv, SessionInv, [Next]_vars PROVE SessionInv'
    OBVIOUS
  <2>1. CASE Next
    BY <2>1, SessionDevice, SessionInference, SessionSet, SessionFold, SessionUpdater DEF Next
  <2>2. CASE UNCHANGED vars
    BY <2>2, SessionAside DEF vars, buffers, tables
  <2> QED
    BY <2>1, <2>2
<1> QED
  BY <1>1, <1>2, AlwaysTypeInv, PTL DEF Spec

\* If a session that broke off leaves nothing on a stream that the next one does not
\* use, then whatever the client does and whenever it swaps, no work of a session that
\* is still queued writes the buffer that inferences started now read.
THEOREM SessionsStayAside ==
  ASSUME Destroyed = {} PROVE Spec => []SessionsWriteInactive
<1>1. SessionInv => SessionsWriteInactive
  BY DEF SessionInv
<1> QED
  BY <1>1, AlwaysSessionInv, PTL
----------------------------------------------------------------------------
(* What a swap installs, for a client that folds before its first session. *)

\* Folds queued with the inferences write the active buffer, and none of them
\* is left when a session folds.
InferFolds ==
  \A i \in DOMAIN queue["infer"] : queue["infer"][i].kind = "fold" =>
    queue["infer"][i].buffer = active /\ updater.pc \notin {"folding", "folded", "swapping"}

FoldInv ==
  /\ ~foldedOnce => updater.pc = "idle"
  /\ updater.pc \in {"switched", "folding", "folded"} => bufferState = "folded"
  /\ updater.pc \in {"idle", "swapping"} => folder.buffer = active
  /\ InferFolds

LEMMA FoldInit == Init => FoldInv
  BY DEF Init, FoldInv, InferFolds, Streams

LEMMA FoldDevice ==
  ASSUME TypeInv, FoldInv, NEW s \in Streams, DeviceExecutes(s)
  PROVE  FoldInv'
<1>1. /\ queue[s] # <<>> /\ queue' = [queue EXCEPT ![s] = Tail(@)]
      /\ UNCHANGED <<active, bufferState, foldedOnce, updater, folder>>
  BY DEF DeviceExecutes, tables
<1>2. InferFolds'
  <2>1. CASE s = "infer"
    <3>1. queue'["infer"] = Tail(queue["infer"]) /\ queue["infer"] \in Seq(InferWork)
      BY <1>1, <2>1, Taken DEF TypeInv
    <3> QED
      BY <1>1, <2>1, <3>1, Removed DEF FoldInv, InferFolds
  <2>2. CASE s # "infer"
    <3>1. queue'["infer"] = queue["infer"]
      BY <1>1, <2>2, Taken DEF Streams
    <3> QED
      BY <1>1, <3>1 DEF FoldInv, InferFolds
  <2> QED
    BY <2>1, <2>2
<1> QED
  BY <1>1, <1>2 DEF FoldInv

LEMMA FoldInference ==
  ASSUME TypeInv, FoldInv,
         FirstFold \/ FoldConstants \/ (\E m \in Models : StartRun(m) \/ FinishCall(m))
  PROVE  FoldInv'
<1>1. CASE FirstFold \/ FoldConstants
  <2>1. /\ Submit("infer", FoldWork) /\ updater.pc = "idle" /\ foldedOnce' = TRUE
        /\ UNCHANGED <<active, updater, folder>>
    BY <1>1 DEF FirstFold, FoldConstants, FoldInv, tables
  <2>2. FoldWork \in InferWork /\ FoldWork.buffer = active
    BY <2>1, WorkTypes DEF FoldInv
  <2>3. queue'["infer"] = Append(queue["infer"], FoldWork) /\ queue["infer"] \in Seq(InferWork)
    BY <2>1, <2>2, Submitted DEF Streams, TypeInv
  <2>4. InferFolds'
    BY <2>1, <2>2, <2>3, Appended DEF FoldInv, InferFolds
  <2> QED
    BY <2>1, <2>4 DEF FoldInv
<1>2. CASE \E m \in Models : StartRun(m) \/ FinishCall(m)
  <2>1. UNCHANGED <<active, bufferState, foldedOnce, updater, folder>>
    BY <1>2 DEF StartRun, FinishCall, tables, buffers
  <2>2. \E w \in InferWork : w.kind # "fold" /\ Submit("infer", w)
    BY <1>2, WorkTypes DEF StartRun, FinishCall, InferWork
  <2>3. PICK w \in InferWork : w.kind # "fold" /\ Submit("infer", w)
    BY <2>2
  <2>4. queue'["infer"] = Append(queue["infer"], w) /\ queue["infer"] \in Seq(InferWork)
    BY <2>3, Submitted DEF Streams, TypeInv
  <2>5. InferFolds'
    BY <2>1, <2>3, <2>4, Appended DEF FoldInv, InferFolds
  <2> QED
    BY <2>1, <2>5 DEF FoldInv
<1> QED
  BY <1>1, <1>2

\* The update stream and the other variables do not matter to InferFolds.
LEMMA InferFoldsKept ==
  ASSUME InferFolds, queue'["infer"] = queue["infer"], active' = active,
         updater'.pc \in {"folding", "folded", "swapping"} => updater.pc \in {"folding", "folded", "swapping"}
  PROVE  InferFolds'
  BY DEF InferFolds

LEMMA CopyLeavesInfer ==
  ASSUME TypeInv, NEW C \in SUBSET Constants, SetManyDoubleBufferConstants(C)
  PROVE  queue'["infer"] = queue["infer"]
<1> DEFINE w == [kind |-> "copy", buffer |-> GetInactiveConstantsBuffer,
                 values |-> [c \in C \cap Bound |-> newest + 1]]
<1>1. newest < MaxVersion /\ SubmitCopy(w)
  BY DEF SetManyDoubleBufferConstants, SetDoubleBuffer
<1>2. w \in UpdateWork
  BY <1>1, NextVersion, CopyTypes
<1> HIDE DEF w
<1> QED
  BY <1>1, <1>2, CopySubmitted

LEMMA FoldSet ==
  ASSUME FoldFirst, TypeInv, FoldInv, NEW C \in SUBSET Constants,
         (\E D \in SUBSET C : SetManyConstants(C, D)) \/ SetManyDoubleBufferConstants(C)
  PROVE  FoldInv'
<1>1. ASSUME NEW D \in SUBSET C, SetManyConstants(C, D) PROVE FoldInv'
  <2>1. /\ newest < MaxVersion /\ SetTables(D, newest + 1) /\ updater.pc = "idle"
        /\ UNCHANGED <<active, foldedOnce, queue, updater>>
    BY <1>1 DEF SetManyConstants
  <2>2. folder'.buffer = folder.buffer
    BY <2>1, NextVersion, TablesSet
  <2> QED
    BY <2>1, <2>2, InferFoldsKept DEF FoldInv
<1>2. CASE SetManyDoubleBufferConstants(C)
  <2>1. /\ foldedOnce /\ UNCHANGED <<active, foldedOnce>>
        /\ updater' = [updater EXCEPT !.pc = IF C = Constants THEN "set" ELSE "failed"]
    BY <1>2 DEF SetManyDoubleBufferConstants
  <2>2. updater'.pc \in {"set", "failed"}
    BY <2>1 DEF TypeInv
  <2>3. queue'["infer"] = queue["infer"]
    BY <1>2, CopyLeavesInfer
  <2> QED
    BY <2>1, <2>2, <2>3, InferFoldsKept DEF FoldInv
<1> QED
  BY <1>1, <1>2

LEMMA FoldUpdater ==
  ASSUME TypeInv, SessionInv, FoldInv,
         \/ SwapConstantFolderBuffer \/ FoldInDoubleBuffer \/ FoldReturns \/ SwapRefused
         \/ SwapConstants \/ SwapDone
         \/ \E m \in Models : SwapModels(m)
  PROVE  FoldInv'
<1>1. CASE SwapConstantFolderBuffer
  <2>1. updater.pc = "set" /\ updater'.pc = "switched" /\ UNCHANGED <<active, foldedOnce, queue>>
    BY <1>1 DEF SwapConstantFolderBuffer, TypeInv
  <2>2. bufferState' = "folded"
    BY <1>1, <2>1 DEF SwapConstantFolderBuffer, FoldInv
  <2> QED
    BY <2>1, <2>2, InferFoldsKept DEF FoldInv
<1>2. CASE FoldInDoubleBuffer
  <2>1. /\ updater.pc = "switched" /\ updater'.pc = "folding" /\ foldedOnce' = TRUE
        /\ UNCHANGED <<active, bufferState>> /\ ~Pending({"fold"}) /\ Submit("update", FoldWork)
    BY <1>2 DEF FoldInDoubleBuffer, TypeInv
  <2>2. queue'["infer"] = queue["infer"]
    BY <2>1 DEF Submit, TypeInv, Streams
  <2>3. InferFolds'
    BY <2>1, <2>2 DEF InferFolds, Pending, Streams
  <2> QED
    BY <2>1, <2>3 DEF FoldInv
<1>3. CASE FoldReturns
  <2>1. /\ updater.pc = "folding" /\ updater'.pc = "folded"
        /\ UNCHANGED <<active, bufferState, foldedOnce, folder, queue>>
    BY <1>3 DEF FoldReturns, TypeInv, buffers, tables
  <2> QED
    BY <2>1, InferFoldsKept DEF FoldInv
<1>4. CASE SwapRefused
  <2>1. updater'.pc = "failed" /\ updater.pc \in {"set", "folded"} /\ UNCHANGED <<active, foldedOnce, queue>>
    BY <1>4 DEF SwapRefused, TypeInv, buffers
  <2> QED
    BY <2>1, InferFoldsKept DEF FoldInv
<1>5. CASE SwapConstants
  <2>1. /\ updater.pc = "folded" /\ updater'.pc = "swapping" /\ active' = Inactive
        /\ UNCHANGED <<foldedOnce, queue, folder>>
    BY <1>5 DEF SwapConstants, Inactive, tables
  <2>2. folder'.buffer = active'
    BY <2>1 DEF SessionInv
  <2>3. InferFolds'
    BY <2>1 DEF FoldInv, InferFolds
  <2> QED
    BY <2>1, <2>2, <2>3 DEF FoldInv
<1>6. CASE SwapDone
  <2>1. updater.pc = "swapping" /\ updater'.pc = "idle" /\ UNCHANGED <<active, foldedOnce, queue, folder>>
    BY <1>6 DEF SwapDone
  <2> QED
    BY <2>1, InferFoldsKept DEF FoldInv
<1>7. CASE \E m \in Models : SwapModels(m)
  <2>1. updater.pc = "swapping" /\ updater'.pc = "swapping" /\ UNCHANGED <<active, foldedOnce, queue, folder>>
    BY <1>7 DEF SwapModels, TypeInv, buffers
  <2> QED
    BY <2>1, InferFoldsKept DEF FoldInv
<1> QED
  BY <1>1, <1>2, <1>3, <1>4, <1>5, <1>6, <1>7

LEMMA FoldStep == FoldFirst /\ TypeInv /\ SessionInv /\ FoldInv /\ [Next]_vars => FoldInv'
<1> SUFFICES ASSUME FoldFirst, TypeInv, SessionInv, FoldInv, [Next]_vars PROVE FoldInv'
  OBVIOUS
<1>1. CASE Next
  BY <1>1, FoldDevice, FoldInference, FoldSet, FoldUpdater DEF Next
<1>2. CASE UNCHANGED vars
  <2>1. UNCHANGED <<active, bufferState, foldedOnce, folder, updater, queue>>
    BY <1>2 DEF vars, buffers, tables
  <2> QED
    BY <2>1 DEF FoldInv, InferFolds
<1> QED
  BY <1>1, <1>2

\* Version v is in the slots of buffer b, and its folds in b's output.
Written(b, v) == \A c \in Bound : slots[b][c] = v
Folded(b, v)  == \A c \in FolderConstants : output[b][c] = v

\* Work that writes all of version v to the inactive buffer.
IsFullCopy(w, v) ==
  /\ w.kind = "copy" /\ w.buffer = Inactive
  /\ \A c \in Bound : c \in DOMAIN w.values /\ w.values[c] = v
IsFullFold(w, v) ==
  w.kind = "fold" /\ w.fu = v /\ w.fb = Inactive /\ w.buffer = Inactive

\* The first n pieces of work of the update stream end with a copy of the newest
\* version, or have been done.
Copied(n) ==
  IF n = 0 THEN Written(Inactive, newest) ELSE IsFullCopy(queue["update"][n], newest)

GenerationInv ==
  LET n == Len(queue["update"]) IN
  /\ updater.pc \in {"set", "switched", "folding", "folded"} =>
       DOMAIN staged = {"mu"} /\ staged["mu"] = newest /\ folder.fu = newest
  /\ updater.pc \in {"set", "switched"} => Copied(n)
  /\ updater.pc = "folding" =>
       IF n = 0 THEN Written(Inactive, newest) /\ Folded(Inactive, newest)
                ELSE IsFullFold(queue["update"][n], newest) /\ Copied(n - 1)
  /\ updater.pc = "folded" => Written(Inactive, newest) /\ Folded(Inactive, newest)

LEMMA GenerationInit == Init => GenerationInv
  BY DEF Init, GenerationInv

\* A complete copy, or fold, that the device executes.
LEMMA CopyExecuted ==
  ASSUME TypeInv, NEW w \in UpdateWork, IsFullCopy(w, newest), ExecuteCopy(w)
  PROVE  \A c \in Bound : slots'[Inactive][c] = newest
<1>1. w \in ACopy /\ w.buffer = Inactive /\ Inactive \in Buffers
  BY Kinds, WorkTypes DEF IsFullCopy, Inactive
<1>2. slots[Inactive] \in [Bound -> Values] /\ \A c \in DOMAIN w.values : w.values[c] \in Values
  BY <1>1 DEF TypeInv, ACopy, Values
<1>3. \A c \in Bound : Overwrite(slots[Inactive], w.values)[c] = newest
  BY <1>2, OverwriteSlots DEF IsFullCopy
<1>4. slots'[Inactive] = Overwrite(slots[Inactive], w.values)
  BY <1>1 DEF ExecuteCopy, TypeInv
<1> QED
  BY <1>3, <1>4

LEMMA FoldExecuted ==
  ASSUME TypeInv, NEW w, IsFullFold(w, newest), Written(Inactive, newest), ExecuteFold(w)
  PROVE  \A c \in FolderConstants : output'[Inactive][c] = newest
<1>1. Inactive \in Buffers /\ newest \in Versions
  BY WorkTypes DEF Inactive, TypeInv
<1>2. Read(w.fu, "fu") = newest
  BY <1>1, ReadVersion DEF IsFullFold
<1>3. Read(w.fb, "fb") = newest
  BY <1>1 DEF IsFullFold, Read, Written, Bound
<1>4. output'[Inactive] = [fu |-> newest, fb |-> newest]
  BY <1>1, <1>2, <1>3 DEF ExecuteFold, TypeInv, IsFullFold
<1> QED
  BY <1>4 DEF FolderConstants

LEMMA GenerationDevice ==
  ASSUME Destroyed = {}, TypeInv, SessionInv, FoldInv, GenerationInv,
         NEW s \in Streams, DeviceExecutes(s)
  PROVE  GenerationInv'
<1> DEFINE U == queue["update"]
           w == Head(queue[s])
<1>1. /\ queue[s] # <<>> /\ queue' = [queue EXCEPT ![s] = Tail(@)]
      /\ ExecuteFirst(w) \/ ExecuteSecond(w) \/ ExecuteFold(w) \/ ExecuteCopy(w)
      /\ UNCHANGED <<active, staged, folder, updater, newest>>
  BY DEF DeviceExecutes, tables, history
<1>2. Inactive' = Inactive
  BY <1>1 DEF Inactive, GetInactiveConstantsBuffer
<1>3. U \in Seq(UpdateWork)
  BY DEF TypeInv
<1>4. CASE s = "infer"
  <2>1. w \in InferWork /\ U' = U
    BY <1>1, <1>4, Taken DEF Streams
  <2>2. slots' = slots
    BY <1>1, <2>1 DEF ExecuteFirst, ExecuteSecond, ExecuteFold, ExecuteCopy, InferWork, FirstWork, SecondWork, AFold
  <2>3. updater.pc \in {"folding", "folded"} => output' = output
    <3>1. ExecuteFold(w) => updater.pc \notin {"folding", "folded"}
      BY <1>1, <1>4, Removed DEF FoldInv, InferFolds, ExecuteFold, TypeInv
    <3> QED
      BY <1>1, <3>1 DEF ExecuteFirst, ExecuteSecond, ExecuteCopy
  <2>4. Written(Inactive, newest)' <=> Written(Inactive, newest)
    BY <1>1, <1>2, <2>2 DEF Written
  <2>5. updater.pc \in {"folding", "folded"} => (Folded(Inactive, newest)' <=> Folded(Inactive, newest))
    BY <1>1, <1>2, <2>3 DEF Folded
  <2>6. \A n \in Nat : Copied(n)' <=> Copied(n)
    BY <1>1, <1>2, <2>1, <2>4 DEF Copied, IsFullCopy
  <2>7. \A n \in Nat : IsFullFold(U[n], newest)' <=> IsFullFold(U[n], newest)
    BY <1>1, <1>2, <2>1 DEF IsFullFold
  <2>8. PICK k \in Nat : k = Len(U)
    BY <1>3
  <2>9. Len(U') = k
    BY <2>1, <2>8
  <2>10. updater.pc \in {"set", "switched"} => Copied(k)'
    BY <2>6, <2>8 DEF GenerationInv
  <2>11. updater.pc = "folding" =>
           IF k = 0 THEN Written(Inactive, newest)' /\ Folded(Inactive, newest)'
           ELSE IsFullFold(U[k], newest)' /\ Copied(k - 1)'
    <3>1. k # 0 => k - 1 \in Nat
      BY <2>8
    <3> QED
      BY <2>4, <2>5, <2>6, <2>7, <2>8, <3>1 DEF GenerationInv
  <2>12. updater.pc = "folded" => Written(Inactive, newest)' /\ Folded(Inactive, newest)'
    BY <2>4, <2>5 DEF GenerationInv
  <2>13. updater.pc \in {"set", "switched", "folding", "folded"} =>
           DOMAIN staged' = {"mu"} /\ staged'["mu"] = newest' /\ folder'.fu = newest'
    BY <1>1 DEF GenerationInv
  <2>14. updater' = updater
    BY <1>1
  <2> QED
    BY <2>9, <2>10, <2>11, <2>12, <2>13, <2>14 DEF GenerationInv
<1>5. CASE s = "update"
  <2>1. U' = Tail(U) /\ w = U[1] /\ w \in UpdateWork /\ Len(U) \in Nat /\ Len(U) >= 1 /\ Len(U') = Len(U) - 1
    <3>1. U' = Tail(U) /\ w \in UpdateWork /\ U # <<>> /\ w = Head(U)
      BY <1>1, <1>5, Taken
    <3> QED
      BY <1>3, <3>1, Removed
  <2>2. \A n \in 1 .. Len(U) - 1 : U'[n] = U[n + 1]
    BY <1>3, <2>1, Removed
  <2>3. IsFullCopy(w, newest) => Written(Inactive, newest)'
    BY <1>1, <1>2, <2>1, CopyExecuted DEF Written, IsFullCopy, ExecuteFirst, ExecuteSecond, ExecuteFold
  <2>4. IsFullFold(w, newest) /\ Written(Inactive, newest) =>
          Written(Inactive, newest)' /\ Folded(Inactive, newest)'
    <3> SUFFICES ASSUME IsFullFold(w, newest), Written(Inactive, newest)
                 PROVE  Written(Inactive, newest)' /\ Folded(Inactive, newest)'
      OBVIOUS
    <3>1. ExecuteFold(w)
      BY <1>1 DEF IsFullFold, ExecuteFirst, ExecuteSecond, ExecuteCopy
    <3>2. \A c \in FolderConstants : output'[Inactive][c] = newest
      BY <3>1, FoldExecuted
    <3> QED
      BY <1>1, <1>2, <3>1, <3>2 DEF Written, Folded, ExecuteFold
  <2>5. \A n \in 1 .. Len(U) : Copied(n) => Copied(n - 1)'
    <3> TAKE n \in 1 .. Len(U)
    <3>1. CASE n = 1
      BY <2>1, <2>3, <3>1 DEF Copied
    <3>2. CASE n # 1
      <4>1. n - 1 \in 1 .. Len(U) - 1 /\ n # 0 /\ n - 1 # 0 /\ U'[n - 1] = U[n]
        BY <2>1, <2>2, <3>2
      <4> QED
        BY <1>1, <1>2, <4>1 DEF Copied, IsFullCopy
    <3> QED
      BY <3>1, <3>2
  <2>6. \A n \in 2 .. Len(U) : IsFullFold(U[n], newest) => IsFullFold(U[n - 1], newest)'
    <3> TAKE n \in 2 .. Len(U)
    <3>1. U'[n - 1] = U[n]
      BY <2>1, <2>2
    <3> QED
      BY <1>1, <1>2, <3>1 DEF IsFullFold
  <2>7. updater.pc # "folded"
    BY <1>1, <1>5 DEF SessionInv
  <2>8. PICK k \in Nat : k = Len(U)
    BY <2>1
  <2>9. k >= 1 /\ Len(U') = k - 1
    BY <2>1, <2>8
  <2>10. updater.pc \in {"set", "switched"} => Copied(k - 1)'
    BY <2>5, <2>8, <2>9 DEF GenerationInv
  <2>11. ASSUME updater.pc = "folding", k = 1
         PROVE  Written(Inactive, newest)' /\ Folded(Inactive, newest)'
    <3>1. IsFullFold(U[k], newest) /\ Copied(k - 1) /\ k - 1 = 0
      BY <2>8, <2>9, <2>11 DEF GenerationInv
    <3>2. IsFullFold(w, newest)
      BY <2>1, <2>11, <3>1
    <3>3. Written(Inactive, newest)
      BY <3>1 DEF Copied
    <3> QED
      BY <2>4, <3>2, <3>3
  <2>12. ASSUME updater.pc = "folding", k # 1
         PROVE  IsFullFold(U[k - 1], newest)' /\ Copied(k - 2)'
    <3>1. IsFullFold(U[k], newest) /\ Copied(k - 1)
      BY <2>8, <2>9, <2>12 DEF GenerationInv
    <3>2. k \in 2 .. Len(U) /\ k - 1 \in 1 .. Len(U) /\ (k - 1) - 1 = k - 2
      <4>1. k \in 2 .. k /\ k - 1 \in 1 .. k /\ (k - 1) - 1 = k - 2
        BY <2>9, <2>12
      <4> QED
        BY <2>8, <4>1
    <3>3. IsFullFold(U[k - 1], newest)'
      BY <2>6, <3>1, <3>2
    <3>4. Copied(k - 2)'
      BY <2>5, <3>1, <3>2
    <3> QED
      BY <3>3, <3>4
  <2>13. updater.pc = "folding" =>
           IF k - 1 = 0 THEN Written(Inactive, newest)' /\ Folded(Inactive, newest)'
           ELSE IsFullFold(U[k - 1], newest)' /\ Copied((k - 1) - 1)'
    <3>1. (k - 1) - 1 = k - 2 /\ (k - 1 = 0 <=> k = 1)
      BY <2>8
    <3> QED
      BY <2>11, <2>12, <3>1
  <2> QED
    BY <1>1, <2>7, <2>9, <2>10, <2>13 DEF GenerationInv
<1> QED
  BY <1>4, <1>5 DEF Streams

\* While no session is under way, GenerationInv asks for nothing.
LEMMA GenerationIdle ==
  ASSUME updater'.pc \in {"idle", "failed", "swapping"} PROVE GenerationInv'
  BY DEF GenerationInv

\* What touches neither the session nor the inactive buffer leaves it as it is.
LEMMA GenerationKept ==
  ASSUME GenerationInv, queue'["update"] = queue["update"],
         UNCHANGED <<active, slots, output, staged, folder, updater, newest>>
  PROVE  GenerationInv'
<1> DEFINE U == queue["update"]
<1>1. /\ Written(Inactive, newest)' <=> Written(Inactive, newest)
      /\ Folded(Inactive, newest)' <=> Folded(Inactive, newest)
  BY DEF Written, Folded, Inactive, GetInactiveConstantsBuffer
<1>2. \A w, v : /\ IsFullCopy(w, v)' <=> IsFullCopy(w, v)
                /\ IsFullFold(w, v)' <=> IsFullFold(w, v)
  BY DEF IsFullCopy, IsFullFold, Inactive, GetInactiveConstantsBuffer
<1>3. \A n : Copied(n)' <=> Copied(n)
  BY <1>1, <1>2 DEF Copied
<1>4. Copied(Len(U))' <=> Copied(Len(U))
  BY <1>3
<1>5. Copied(Len(U) - 1)' <=> Copied(Len(U) - 1)
  BY <1>3
<1> QED
  BY <1>1, <1>2, <1>4, <1>5 DEF GenerationInv

LEMMA GenerationInference ==
  ASSUME TypeInv, FoldInv, GenerationInv,
         FirstFold \/ FoldConstants \/ (\E m \in Models : StartRun(m) \/ FinishCall(m))
  PROVE  GenerationInv'
<1>1. CASE FirstFold \/ FoldConstants
  <2>1. updater.pc = "idle" /\ updater' = updater
    BY <1>1 DEF FirstFold, FoldConstants, FoldInv
  <2> QED
    BY <2>1, GenerationIdle
<1>2. CASE \E m \in Models : StartRun(m) \/ FinishCall(m)
  <2>1. /\ UNCHANGED <<active, slots, output, staged, folder, updater, newest>>
        /\ \E w : Submit("infer", w)
    BY <1>2 DEF StartRun, FinishCall, tables, buffers, history
  <2>2. queue'["update"] = queue["update"]
    BY <2>1 DEF Submit, TypeInv, Streams
  <2> QED
    BY <2>1, <2>2, GenerationKept
<1> QED
  BY <1>1, <1>2

LEMMA GenerationSet ==
  ASSUME Destroyed = {}, TypeInv, GenerationInv, NEW C \in SUBSET Constants,
         (\E D \in SUBSET C : SetManyConstants(C, D)) \/ SetManyDoubleBufferConstants(C)
  PROVE  GenerationInv'
<1>1. CASE \E D \in SUBSET C : SetManyConstants(C, D)
  BY <1>1, GenerationIdle DEF SetManyConstants
<1>2. CASE SetManyDoubleBufferConstants(C) /\ C # Constants
  <2>1. updater'.pc = "failed"
    BY <1>2 DEF SetManyDoubleBufferConstants, TypeInv
  <2> QED
    BY <2>1, GenerationIdle
<1>3. CASE SetManyDoubleBufferConstants(C) /\ C = Constants
  <2> DEFINE v == newest + 1
             w == [kind |-> "copy", buffer |-> GetInactiveConstantsBuffer,
                   values |-> [c \in C \cap Bound |-> v]]
             g == [c \in C \cap {"fu"} |-> v]
             n == Len(queue["update"])
  <2>1. /\ newest < MaxVersion /\ SubmitCopy(w) /\ newest' = v /\ active' = active
        /\ staged' = Staged(C, v) /\ folder' = Overwrite(folder, g)
        /\ updater'.pc = "set"
    BY <1>3 DEF SetManyDoubleBufferConstants, SetDoubleBuffer, TypeInv
  <2>2. v \in Versions
    BY <2>1, NextVersion
  <2>3. DOMAIN staged' = {"mu"} /\ staged'["mu"] = v
    <3>1. "mu" \in C /\ DOMAIN staged \cup (C \cap {"mu"}) = {"mu"}
      BY <1>3 DEF Constants, ModelConstants, TypeInv, NothingStaged
    <3> QED
      BY <2>1, <3>1 DEF Staged
  <2>4. folder'.fu = v
    <3>1. "fu" \in DOMAIN g /\ g["fu"] = v /\ DOMAIN g \subseteq {"fu", "fb"} /\ \A c \in DOMAIN g : g[c] \in Versions
      BY <1>3, <2>2 DEF Constants, FolderConstants
    <3> HIDE DEF g
    <3> QED
      BY <2>1, <3>1, OverwriteFolder DEF TypeInv
  <2>5. Inactive' = Inactive
    BY <2>1 DEF Inactive, GetInactiveConstantsBuffer
  <2>6. IsFullCopy(w, v)
    BY <1>3 DEF IsFullCopy, Inactive, Constants, ModelConstants, FolderConstants, Bound
  <2>7. w \in UpdateWork
    BY <2>2, CopyTypes
  <2> HIDE DEF w, g, v
  <2>8. /\ queue'["update"] = Append(queue["update"], w)
        /\ Len(queue'["update"]) = n + 1 /\ n \in Nat /\ queue'["update"][n + 1] = w
    BY <2>1, <2>7, CopySubmitted, Submitted, Appended DEF Streams, TypeInv
  <2>9. PICK k \in Nat : k = n
    BY <2>8
  <2>10. Copied(k + 1)'
    <3>1. queue'["update"][k + 1] = w /\ k + 1 # 0
      BY <2>8, <2>9
    <3> QED
      BY <2>1, <2>5, <2>6, <3>1 DEF Copied, IsFullCopy
  <2> QED
    BY <2>1, <2>3, <2>4, <2>8, <2>9, <2>10 DEF GenerationInv
<1> QED
  BY <1>1, <1>2, <1>3

LEMMA GenerationFold ==
  ASSUME TypeInv, SessionInv, GenerationInv, FoldInDoubleBuffer PROVE GenerationInv'
<1> DEFINE U == queue["update"]
<1>1. /\ Submit("update", FoldWork) /\ updater.pc = "switched" /\ updater'.pc = "folding"
      /\ UNCHANGED <<active, slots, output, staged, folder, newest>>
  BY DEF FoldInDoubleBuffer, tables, history, TypeInv
<1>2. /\ FoldWork \in UpdateWork /\ FoldWork.kind = "fold" /\ FoldWork.fu = newest
      /\ FoldWork.fb = Inactive /\ FoldWork.buffer = Inactive
  BY <1>1, WorkTypes DEF SessionInv, GenerationInv
<1>3. PICK k \in Nat : k = Len(U)
  BY DEF TypeInv
<1>4. Len(U') = k + 1 /\ U'[k + 1] = FoldWork /\ (\A i \in 1 .. k : U'[i] = U[i])
  <2>1. U' = Append(U, FoldWork) /\ U \in Seq(UpdateWork)
    BY <1>1, <1>2, Submitted DEF Streams, TypeInv
  <2> QED
    BY <1>2, <1>3, <2>1, Appended
<1>5. Inactive' = Inactive /\ newest' = newest
  BY <1>1 DEF Inactive, GetInactiveConstantsBuffer
<1>6. Copied(k)'
  <2>1. Copied(k)
    BY <1>1, <1>3 DEF GenerationInv
  <2>2. Written(Inactive, newest) => Written(Inactive, newest)'
    BY <1>1, <1>5 DEF Written
  <2>3. k # 0 => U'[k] = U[k]
    BY <1>4
  <2> QED
    BY <1>5, <2>1, <2>2, <2>3 DEF Copied, IsFullCopy
<1>7. IsFullFold(U[k + 1], newest)'
  BY <1>2, <1>4, <1>5 DEF IsFullFold
<1>8. k + 1 # 0 /\ (k + 1) - 1 = k
  OBVIOUS
<1>9. DOMAIN staged' = {"mu"} /\ staged'["mu"] = newest' /\ folder'.fu = newest'
  BY <1>1 DEF GenerationInv
<1> QED
  BY <1>1, <1>4, <1>6, <1>7, <1>8, <1>9 DEF GenerationInv

LEMMA GenerationUpdater ==
  ASSUME TypeInv, SessionInv, GenerationInv,
         \/ SwapConstantFolderBuffer \/ FoldReturns \/ SwapRefused
         \/ SwapConstants \/ SwapDone
         \/ \E m \in Models : SwapModels(m)
  PROVE  GenerationInv'
<1>1. CASE SwapConstantFolderBuffer
  <2>1. /\ updater.pc = "set" /\ updater'.pc = "switched" /\ folder'.fu = folder.fu
        /\ UNCHANGED <<active, slots, staged, queue, newest>>
    BY <1>1 DEF SwapConstantFolderBuffer, TypeInv, history
  <2>2. Inactive' = Inactive
    BY <2>1 DEF Inactive, GetInactiveConstantsBuffer
  <2>3. PICK k : k = Len(queue["update"])
    OBVIOUS
  <2>4. Copied(k)
    BY <2>1, <2>3 DEF GenerationInv
  <2>5. Copied(k)'
    BY <2>1, <2>2, <2>4 DEF Copied, IsFullCopy, Written
  <2>6. DOMAIN staged' = {"mu"} /\ staged'["mu"] = newest' /\ folder'.fu = newest'
    BY <2>1 DEF GenerationInv
  <2>7. Len(queue'["update"]) = k
    BY <2>1, <2>3
  <2> QED
    BY <2>1, <2>5, <2>6, <2>7 DEF GenerationInv
<1>2. CASE FoldReturns
  <2>1. /\ updater.pc = "folding" /\ updater'.pc = "folded" /\ queue["update"] = <<>>
        /\ UNCHANGED <<active, slots, output, staged, folder, newest>>
    BY <1>2 DEF FoldReturns, TypeInv, buffers, tables, history
  <2>2. Written(Inactive, newest) /\ Folded(Inactive, newest)
    BY <2>1 DEF GenerationInv
  <2>3. Written(Inactive, newest)' /\ Folded(Inactive, newest)'
    BY <2>1, <2>2 DEF Written, Folded, Inactive, GetInactiveConstantsBuffer
  <2>4. DOMAIN staged' = {"mu"} /\ staged'["mu"] = newest' /\ folder'.fu = newest'
    BY <2>1 DEF GenerationInv
  <2> QED
    BY <2>1, <2>3, <2>4 DEF GenerationInv
<1>3. CASE SwapRefused \/ SwapConstants \/ SwapDone \/ (\E m \in Models : SwapModels(m))
  <2>1. updater'.pc \in {"failed", "swapping", "idle"}
    BY <1>3 DEF SwapRefused, SwapConstants, SwapDone, SwapModels, TypeInv
  <2> QED
    BY <2>1, GenerationIdle
<1> QED
  BY <1>1, <1>2, <1>3

LEMMA GenerationStep ==
  Destroyed = {} /\ TypeInv /\ SessionInv /\ FoldInv /\ GenerationInv /\ [Next]_vars => GenerationInv'
<1> SUFFICES ASSUME Destroyed = {}, TypeInv, SessionInv, FoldInv, GenerationInv, [Next]_vars PROVE GenerationInv'
  OBVIOUS
<1>1. CASE Next
  BY <1>1, GenerationDevice, GenerationInference, GenerationSet, GenerationFold, GenerationUpdater DEF Next
<1>2. CASE UNCHANGED vars
  BY <1>2, GenerationKept DEF vars, buffers, tables, history
<1> QED
  BY <1>1, <1>2

LEMMA AlwaysFoldInv ==
  ASSUME FoldFirst PROVE Spec => [](TypeInv /\ SessionInv /\ FoldInv)
<1>1. FoldFirst
  OBVIOUS
<1>2. TypeInv /\ SessionInv /\ FoldInv /\ [Next]_vars => FoldInv'
  BY <1>1, FoldStep
<1> QED
  BY <1>2, FoldInit, AlwaysSessionInv, PTL DEF Spec

LEMMA AlwaysGenerationInv ==
  ASSUME FoldFirst, Destroyed = {}
  PROVE  Spec => [](TypeInv /\ SessionInv /\ FoldInv /\ GenerationInv)
<1>1. FoldFirst /\ Destroyed = {}
  OBVIOUS
<1>2. TypeInv /\ SessionInv /\ FoldInv /\ GenerationInv /\ [Next]_vars => GenerationInv'
  BY <1>1, GenerationStep
<1>3. Spec => [](TypeInv /\ SessionInv /\ FoldInv)
  BY <1>1, AlwaysFoldInv
<1> QED
  BY <1>2, <1>3, GenerationInit, PTL DEF Spec

\* Whenever a swap would be accepted, the inactive buffer, the folder's output
\* in it and the staged constants are all of the last version handed over: also when
\* sessions before it broke off, if they left nothing on a stream of their own.
THEOREM SwapsInstallOneGeneration ==
  ASSUME FoldFirst, Destroyed = {} PROVE Spec => []SwapInstallsOneGeneration
<1>1. TypeInv /\ GenerationInv => SwapInstallsOneGeneration
  <2> SUFFICES ASSUME TypeInv, GenerationInv, updater.pc = "folded"
               PROVE  /\ staged = [mu |-> newest]
                      /\ slots[Inactive] = [c \in Bound |-> newest]
                      /\ output[Inactive] = [c \in FolderConstants |-> newest]
    BY DEF SwapInstallsOneGeneration, Inactive
  <2>1. Inactive \in Buffers
    BY WorkTypes DEF Inactive
  <2>2. slots[Inactive] = [c \in Bound |-> newest]
    BY <2>1 DEF TypeInv, GenerationInv, Written
  <2>3. output[Inactive] = [c \in FolderConstants |-> newest]
    BY <2>1 DEF TypeInv, GenerationInv, Folded
  <2>4. staged \in [{"mu"} -> Versions] /\ staged["mu"] = newest
    BY DEF TypeInv, GenerationInv, NothingStaged
  <2>5. staged = [mu |-> newest]
    BY <2>4
  <2> QED
    BY <2>2, <2>3, <2>5
<1> QED
  BY <1>1, AlwaysGenerationInv, PTL

\* No session that was folded is refused its swap.
THEOREM FoldedSessionsSwap ==
  ASSUME FoldFirst PROVE Spec => FoldedSessionIsSwapped
<1>1. FoldInv => [SwapRefused => updater.pc # "folded"]_vars
  BY DEF FoldInv, SwapRefused
<1> QED
  BY <1>1, AlwaysFoldInv, PTL DEF FoldedSessionIsSwapped

----------------------------------------------------------------------------
(* An inference reads the constants that were in effect when it started    *)
(* (ReadsWhatIsDue), for a client that folds before its first session and  *)
(* swaps while no inference is running.                                    *)


Q == queue["infer"]

\* The address a holds version v of constant c, and no session will change it.
Points(a, c, v) == a \in Versions \cup {active} /\ Read(a, c) = v

\* What waits on the inferences' stream reads what is in effect, and belongs to
\* a Model that is not idle.
GoodFold(w) ==
  w.buffer = active /\ w.fu = effective["fu"] /\ Points(w.fb, "fb", effective["fb"])
GoodFirst(w) ==
  run[w.model].pc # "idle" /\ w.mu = effective["mu"] /\ Points(w.mb, "mb", effective["mb"])
GoodSecond(w) ==
  run[w.model].pc = "queued" /\ w.buffer = active

QueueInv ==
  \A i \in DOMAIN Q :
    /\ Q[i].kind = "fold" => i = 1 /\ GoodFold(Q[i])
    /\ Q[i].kind = "first" => GoodFirst(Q[i])
    /\ Q[i].kind = "second" => GoodSecond(Q[i])

IsOf(w, m) == w.kind \in {"first", "second"} /\ w.model = m

\* The second operator is the last work of its Model.
OrderInv ==
  \A i, j \in DOMAIN Q : i < j /\ Q[i].kind = "second" => ~IsOf(Q[j], Q[i].model)

OutputInv ==
  foldedOnce => \/ Q # <<>> /\ Q[1].kind = "fold"
                \/ \A c \in FolderConstants : output[active][c] = effective[c]

FirstQueued(m) == \E i \in DOMAIN Q : Q[i].kind = "first" /\ Q[i].model = m

RunInv ==
  \A m \in Models :
    /\ run[m].pc = "idle" => run[m].seen = run[m].due
    /\ run[m].pc # "idle" =>
         /\ run[m].due = effective /\ foldedOnce
         /\ FirstQueued(m) \/ (\A c \in ModelConstants : run[m].seen[c] = effective[c])

\* The Models and the folder hold what is in effect; during a swap, those the
\* two loops have passed.
ModelsInv ==
  \A m \in Models : /\ models[m].mu = effective["mu"] /\ models[m].output = active
                    /\ Points(models[m].mb, "mb", effective["mb"])
SwapInv ==
  /\ Drained /\ Q = <<>>
  /\ \A c \in Constants : effective[c] = newest
  /\ Written(active, newest)
  /\ DOMAIN staged = {"mu"} /\ staged["mu"] = newest
  /\ \A m \in Models : m < updater.i => models[m].mb = active /\ models[m].output = active
  /\ \A m \in Models : m + NumModels < updater.i => models[m].mu = newest
FolderInv == folder.fu = given["fu"] /\ Points(folder.fb, "fb", given["fb"])

TableInv ==
  /\ updater.pc # "swapping" => ModelsInv
  /\ updater.pc = "swapping" => SwapInv
  /\ updater.pc \in {"idle", "swapping"} => FolderInv

ReadInv == QueueInv /\ OrderInv /\ OutputInv /\ RunInv /\ TableInv

LEMMA ReadInit == Init => ReadInv
<1> SUFFICES ASSUME Init PROVE ReadInv
  OBVIOUS
<1>1. Q = <<>> /\ DOMAIN Q = {}
  BY DEF Init, Q, Streams
<1>2. 0 \in Versions
  BY ConstantsAssumption DEF Versions
<1>3. /\ active = Primary /\ effective["mu"] = 0 /\ effective["mb"] = 0
      /\ given["fu"] = 0 /\ given["fb"] = 0 /\ updater.pc = "idle" /\ ~foldedOnce
  BY DEF Init, Constants, ModelConstants, FolderConstants
<1>4. Read(Primary, "mb") = 0 /\ Read(Primary, "fb") = 0
  BY DEF Init, Read, Buffers, Bound
<1>5. ModelsInv /\ FolderInv
  BY <1>2, <1>3, <1>4 DEF Init, ModelsInv, FolderInv, Points
<1>6. RunInv
  BY DEF Init, RunInv
<1> QED
  BY <1>1, <1>3, <1>5, <1>6 DEF ReadInv, QueueInv, OrderInv, OutputInv, TableInv
----------------------------------------------------------------------------
(* The steps of a session, which leave all this alone.                     *)

\* What an address of the active buffer, or of a client, holds changes only
\* with the active buffer.
LEMMA PointsKept ==
  ASSUME active' = active, slots'[active] = slots[active]
  PROVE  \A a, c, v : Points(a, c, v) => Points(a, c, v)'
<1>1. ASSUME NEW a \in Versions \cup {active}, NEW c PROVE Read(a, c)' = Read(a, c)
  <2>1. a \in Versions => a \notin Buffers
    BY ConstantsAssumption DEF Versions, Buffers, Primary, Secondary
  <2> QED
    BY <2>1 DEF Read
<1> QED
  BY <1>1 DEF Points

\* The queue, the inferences and the buffer they read are as they were.
LEMMA ReadKept ==
  ASSUME ReadInv, UNCHANGED <<active, foldedOnce, models, run, effective>>,
         slots'[active] = slots[active], output'[active] = output[active], Q' = Q
  PROVE  QueueInv' /\ OrderInv' /\ OutputInv' /\ RunInv' /\ (ModelsInv => ModelsInv')
<1>1. QueueInv'
  BY PointsKept DEF ReadInv, QueueInv, GoodFold, GoodFirst, GoodSecond
<1>2. OrderInv' /\ OutputInv'
  BY DEF ReadInv, OrderInv, OutputInv, IsOf
<1>3. RunInv'
  BY DEF ReadInv, RunInv, FirstQueued
<1>4. ModelsInv => ModelsInv'
  BY PointsKept DEF ModelsInv
<1> QED
  BY <1>1, <1>2, <1>3, <1>4

LEMMA ReadSession ==
  ASSUME FoldFirst, TypeInv, FoldInv, ReadInv,
         \/ \E C \in SUBSET Constants : SetManyDoubleBufferConstants(C)
         \/ SwapConstantFolderBuffer \/ FoldInDoubleBuffer \/ FoldReturns \/ SwapRefused
  PROVE  ReadInv'
<1>1. /\ UNCHANGED <<active, slots, output, models, run, effective>>
      /\ updater.pc # "swapping" /\ updater'.pc \notin {"idle", "swapping"}
  BY DEF SetManyDoubleBufferConstants, SwapConstantFolderBuffer, FoldInDoubleBuffer,
     FoldReturns, SwapRefused, buffers, tables, history, TypeInv
<1>2. foldedOnce' = foldedOnce
  BY DEF SetManyDoubleBufferConstants, SwapConstantFolderBuffer, FoldInDoubleBuffer,
     FoldReturns, SwapRefused, buffers, FoldInv, TypeInv
<1>3. CASE \E C \in SUBSET Constants : SetManyDoubleBufferConstants(C)
  BY <1>1, <1>2, <1>3, CopyLeavesInfer, ReadKept DEF ReadInv, TableInv, Q
<1>4. ASSUME SwapConstantFolderBuffer \/ FoldInDoubleBuffer \/ FoldReturns \/ SwapRefused
      PROVE  Q' = Q
  <2>1. (\E w : Submit("update", w)) \/ UNCHANGED queue
    BY <1>4 DEF SwapConstantFolderBuffer, FoldInDoubleBuffer, FoldReturns, SwapRefused
  <2> QED
    BY <2>1 DEF Submit, Q, TypeInv, Streams
<1> QED
  BY <1>1, <1>2, <1>3, <1>4, ReadKept DEF ReadInv, TableInv

\* The device works for a session: on the inactive buffer.
LEMMA ReadDeviceUpdate ==
  ASSUME Destroyed = {}, TypeInv, SessionInv, ReadInv, DeviceExecutes("update")
  PROVE  ReadInv'
<1> DEFINE w == Head(queue["update"])
<1>1. /\ queue["update"] # <<>> /\ queue' = [queue EXCEPT !["update"] = Tail(@)]
      /\ ExecuteFirst(w) \/ ExecuteSecond(w) \/ ExecuteFold(w) \/ ExecuteCopy(w)
      /\ UNCHANGED <<active, foldedOnce, staged, models, folder, updater, given, effective, newest>>
  BY DEF DeviceExecutes, tables, history
<1>2. w \in UpdateWork /\ Q' = Q /\ w = queue["update"][1] /\ 1 \in DOMAIN queue["update"]
  <2>1. w \in UpdateWork /\ Q' = Q
    BY <1>1, Taken DEF Streams, Q
  <2>2. w = queue["update"][1] /\ 1 \in DOMAIN queue["update"]
    BY <1>1, Removed DEF TypeInv
  <2> QED
    BY <2>1, <2>2
<1>3. w.buffer # active /\ w.kind \notin {"first", "second"}
  BY <1>2 DEF SessionInv, SessionsWriteInactive, Streams, UpdateWork, AFold, ACopy
<1>4. run' = run /\ slots'[active] = slots[active] /\ output'[active] = output[active]
  BY <1>1, <1>3 DEF ExecuteFirst, ExecuteSecond, ExecuteFold, ExecuteCopy, TypeInv
<1>5. QueueInv' /\ OrderInv' /\ OutputInv' /\ RunInv' /\ (ModelsInv => ModelsInv')
  BY <1>1, <1>2, <1>4, ReadKept
<1>6. SwapInv => SwapInv'
  BY <1>1, <1>2, <1>4 DEF SwapInv, Drained, Written
<1>7. FolderInv => FolderInv'
  BY <1>1, <1>4, PointsKept DEF FolderInv
<1> QED
  BY <1>1, <1>5, <1>6, <1>7 DEF ReadInv, TableInv
----------------------------------------------------------------------------
(* The device works for the inferences.                                    *)

\* The rest of the queue keeps its places, one earlier.
LEMMA QueueRest ==
  ASSUME TypeInv, DeviceExecutes("infer")
  PROVE  /\ Q # <<>> /\ Q \in Seq(InferWork) /\ 1 \in DOMAIN Q /\ Head(Q) = Q[1] /\ Q[1] \in InferWork
         /\ Q' \in Seq(InferWork)
         /\ \A i \in DOMAIN Q' : i + 1 \in DOMAIN Q /\ Q'[i] = Q[i + 1] /\ i \in Nat /\ i >= 1
         /\ \A i \in DOMAIN Q : i # 1 => i - 1 \in DOMAIN Q' /\ Q'[i - 1] = Q[i]
<1>1. Q # <<>> /\ Q \in Seq(InferWork) /\ Q' = Tail(Q)
  BY Taken DEF DeviceExecutes, Streams, Q, TypeInv
<1> QED
  BY <1>1, Removed

\* What is left of the queue is as good as it was, if the buffer read and the
\* other inferences are unchanged.
LEMMA RestGood ==
  ASSUME TypeInv, ReadInv, DeviceExecutes("infer"),
         UNCHANGED <<active, slots, effective>>,
         \A i \in DOMAIN Q : i # 1 /\ Q[i].kind \in {"first", "second"} =>
           run'[Q[i].model].pc = run[Q[i].model].pc
  PROVE  QueueInv' /\ OrderInv'
<1>1. QueueInv'
  <2> SUFFICES ASSUME NEW i \in DOMAIN Q'
               PROVE  /\ Q'[i].kind = "fold" => i = 1 /\ GoodFold(Q[i])'
                      /\ Q'[i].kind = "first" => GoodFirst(Q[i])'
                      /\ Q'[i].kind = "second" => GoodSecond(Q[i])'
    BY DEF QueueInv
  <2>1. i + 1 \in DOMAIN Q /\ Q'[i] = Q[i + 1] /\ i + 1 # 1
    BY QueueRest
  <2>2. Q[i + 1].kind # "fold"
    BY <2>1 DEF ReadInv, QueueInv
  <2>3. Q[i + 1].kind = "first" => GoodFirst(Q[i + 1])
    BY <2>1 DEF ReadInv, QueueInv
  <2>4. Q[i + 1].kind = "second" => GoodSecond(Q[i + 1])
    BY <2>1 DEF ReadInv, QueueInv
  <2>5. Q[i + 1].kind = "first" => GoodFirst(Q[i])'
    BY <2>1, <2>3, PointsKept DEF GoodFirst
  <2>6. Q[i + 1].kind = "second" => GoodSecond(Q[i])'
    BY <2>1, <2>4 DEF GoodSecond
  <2> QED
    BY <2>1, <2>2, <2>5, <2>6
<1>2. OrderInv'
  <2> SUFFICES ASSUME NEW i \in DOMAIN Q', NEW j \in DOMAIN Q', i < j, Q'[i].kind = "second"
               PROVE  ~IsOf(Q'[j], Q'[i].model)
    BY DEF OrderInv, IsOf
  <2>1. /\ i + 1 \in DOMAIN Q /\ Q'[i] = Q[i + 1] /\ j + 1 \in DOMAIN Q /\ Q'[j] = Q[j + 1]
        /\ i + 1 < j + 1
    BY QueueRest
  <2> QED
    BY <2>1 DEF ReadInv, OrderInv
<1> QED
  BY <1>1, <1>2

\* The Models' and the folder's tables do not change.
LEMMA DeviceTables ==
  ASSUME TypeInv, ReadInv, DeviceExecutes("infer"), slots' = slots
  PROVE  TableInv'
<1>1. UNCHANGED <<active, staged, models, folder, updater, given, effective, newest>>
  BY DEF DeviceExecutes, tables, history
<1>2. Q # <<>>
  BY QueueRest
<1>3. ModelsInv => ModelsInv'
  BY <1>1, PointsKept DEF ModelsInv
<1>4. FolderInv => FolderInv'
  BY <1>1, PointsKept DEF FolderInv
<1>5. ~SwapInv
  BY <1>2 DEF SwapInv
<1> QED
  BY <1>1, <1>3, <1>4, <1>5 DEF ReadInv, TableInv

LEMMA ReadFold ==
  ASSUME TypeInv, ReadInv, DeviceExecutes("infer"), ExecuteFold(Q[1])
  PROVE  ReadInv'
<1>1. UNCHANGED <<active, foldedOnce, slots, run, effective>>
  BY DEF DeviceExecutes, ExecuteFold, history
<1>2. Q[1].kind = "fold" /\ GoodFold(Q[1]) /\ Q[1] \in AFold
  <2>1. Q[1].kind = "fold" /\ 1 \in DOMAIN Q /\ Q[1] \in InferWork \cup UpdateWork
    BY QueueRest DEF ExecuteFold
  <2> QED
    BY <2>1, Kinds DEF ReadInv, QueueInv
<1>3. output'[active] = [fu |-> effective["fu"], fb |-> effective["fb"]]
  <2>1. Read(Q[1].fu, "fu") = effective["fu"]
    BY <1>2, ReadVersion DEF GoodFold, AFold
  <2>2. Read(Q[1].fb, "fb") = effective["fb"] /\ Q[1].buffer = active
    BY <1>2 DEF GoodFold, Points
  <2> QED
    BY <2>1, <2>2 DEF ExecuteFold, TypeInv
<1>4. OutputInv'
  BY <1>1, <1>3 DEF OutputInv, FolderConstants
<1>5. QueueInv' /\ OrderInv'
  BY <1>1, RestGood
<1>6. RunInv'
  <2>1. \A m \in Models : FirstQueued(m) => FirstQueued(m)'
    <3> SUFFICES ASSUME NEW m \in Models, NEW i \in DOMAIN Q, Q[i].kind = "first", Q[i].model = m
                 PROVE  FirstQueued(m)'
      BY DEF FirstQueued
    <3>1. i # 1
      BY <1>2
    <3> QED
      BY <3>1, QueueRest DEF FirstQueued
  <2> QED
    BY <1>1, <2>1 DEF ReadInv, RunInv
<1> QED
  BY <1>1, <1>4, <1>5, <1>6, DeviceTables DEF ReadInv

LEMMA ReadFirst ==
  ASSUME TypeInv, ReadInv, DeviceExecutes("infer"), ExecuteFirst(Q[1])
  PROVE  ReadInv'
<1> DEFINE w == Q[1]
           g == [mu |-> Read(w.mu, "mu"), mb |-> Read(w.mb, "mb")]
<1>1. UNCHANGED <<active, foldedOnce, slots, output, effective>>
  BY DEF DeviceExecutes, ExecuteFirst, history
<1>2. /\ w.kind = "first" /\ GoodFirst(w) /\ w.model \in Models /\ w.mu \in Versions /\ w.mb \in Addresses
      /\ Saw(w.model, run[w.model].pc, g)
  <2>1. w.kind = "first" /\ 1 \in DOMAIN Q /\ w \in InferWork \cup UpdateWork
    BY QueueRest DEF ExecuteFirst
  <2>2. w \in FirstWork /\ GoodFirst(w)
    BY <2>1, Kinds DEF ReadInv, QueueInv
  <2> QED
    BY <2>1, <2>2 DEF FirstWork, ExecuteFirst
<1>3. DOMAIN g = ModelConstants /\ \A c \in DOMAIN g : g[c] \in Values /\ g[c] = effective[c]
  <2>1. Read(w.mu, "mu") = effective["mu"] /\ Read(w.mb, "mb") = effective["mb"]
    BY <1>2, ReadVersion DEF GoodFirst, Points
  <2>2. effective["mu"] \in Values /\ effective["mb"] \in Values
    BY DEF TypeInv, Values, Constants, ModelConstants
  <2> QED
    BY <2>1, <2>2 DEF ModelConstants
<1> HIDE DEF g
<1>4. run[w.model].pc \in {"idle", "calling", "queued"}
  BY <1>2 DEF TypeInv, Inference
<1>5. /\ run'[w.model].pc = run[w.model].pc /\ run'[w.model].due = run[w.model].due
      /\ \A c \in ModelConstants : run'[w.model].seen[c] = effective[c]
      /\ \A n \in Models : n # w.model => run'[n] = run[n]
  BY <1>2, <1>3, <1>4, Sees DEF Constants
<1>6. QueueInv' /\ OrderInv'
  <2>1. \A i \in DOMAIN Q : Q[i].kind \in {"first", "second"} => run'[Q[i].model].pc = run[Q[i].model].pc
    <3> SUFFICES ASSUME NEW i \in DOMAIN Q, Q[i].kind \in {"first", "second"}
                 PROVE  run'[Q[i].model].pc = run[Q[i].model].pc
      OBVIOUS
    <3>1. Q[i].model \in Models
      BY Kinds, QueueRest DEF FirstWork, SecondWork
    <3> QED
      BY <1>5, <3>1
  <2> QED
    BY <1>1, <2>1, RestGood
<1>7. OutputInv'
  BY <1>1, <1>2, QueueRest DEF ReadInv, OutputInv
<1>8. RunInv'
  <2>1. \A n \in Models : n # w.model /\ FirstQueued(n) => FirstQueued(n)'
    <3> SUFFICES ASSUME NEW n \in Models, n # w.model, NEW i \in DOMAIN Q, Q[i].kind = "first", Q[i].model = n
                 PROVE  FirstQueued(n)'
      BY DEF FirstQueued
    <3>1. i # 1
      OBVIOUS
    <3> QED
      BY <3>1, QueueRest DEF FirstQueued
  <2>2. run[w.model].pc # "idle" /\ run[w.model].due = effective /\ foldedOnce
    BY <1>2 DEF GoodFirst, ReadInv, RunInv
  <2> QED
    BY <1>1, <1>5, <2>1, <2>2 DEF ReadInv, RunInv
<1> QED
  BY <1>1, <1>6, <1>7, <1>8, DeviceTables DEF ReadInv

LEMMA ReadSecond ==
  ASSUME TypeInv, ReadInv, DeviceExecutes("infer"), ExecuteSecond(Q[1])
  PROVE  ReadInv'
<1> DEFINE w == Q[1]
           m == w.model
<1>1. UNCHANGED <<active, foldedOnce, slots, output, effective>>
  BY DEF DeviceExecutes, ExecuteSecond, history
<1>2. w.kind = "second" /\ GoodSecond(w) /\ m \in Models /\ 1 \in DOMAIN Q
  <2>1. w.kind = "second" /\ 1 \in DOMAIN Q /\ w \in InferWork \cup UpdateWork
    BY QueueRest DEF ExecuteSecond
  <2> QED
    BY <2>1, Kinds DEF ReadInv, QueueInv, SecondWork
<1>3. Saw(m, "idle", output[active])
  BY <1>2 DEF ExecuteSecond, GoodSecond
<1>4. foldedOnce /\ run[m].due = effective /\ run[m].pc = "queued"
  BY <1>2 DEF GoodSecond, ReadInv, RunInv
<1>5. /\ DOMAIN output[active] = FolderConstants
      /\ \A c \in FolderConstants : output[active][c] \in Values /\ output[active][c] = effective[c]
  BY <1>2, <1>4 DEF ReadInv, OutputInv, TypeInv
<1>6. \A i \in DOMAIN Q : i # 1 => ~IsOf(Q[i], m)
  BY <1>2, QueueRest DEF ReadInv, OrderInv
<1>7. \A c \in ModelConstants : run[m].seen[c] = effective[c]
  <2>1. ~FirstQueued(m)
    BY <1>2, <1>6 DEF FirstQueued, IsOf
  <2> QED
    BY <1>2, <1>4, <2>1 DEF ReadInv, RunInv
<1>8. /\ run' \in [Models -> Inference] /\ run'[m].pc = "idle" /\ run'[m].due = effective
      /\ \A c \in Constants : run'[m].seen[c] = IF c \in FolderConstants THEN output[active][c] ELSE run[m].seen[c]
      /\ \A n \in Models : n # m => run'[n] = run[n]
  BY <1>2, <1>3, <1>4, <1>5, Sees
<1>9. run'[m].seen = run'[m].due
  <2>1. \A c \in Constants : run'[m].seen[c] = effective[c]
    BY <1>5, <1>7, <1>8 DEF Constants
  <2>2. run'[m].seen \in [Constants -> Values] /\ effective \in [Constants -> Versions]
    BY <1>2, <1>8 DEF Inference, TypeInv
  <2> QED
    BY <1>8, <2>1, <2>2
<1>10. QueueInv' /\ OrderInv'
  <2>1. \A i \in DOMAIN Q : i # 1 /\ Q[i].kind \in {"first", "second"} =>
          run'[Q[i].model].pc = run[Q[i].model].pc
    <3> SUFFICES ASSUME NEW i \in DOMAIN Q, i # 1, Q[i].kind \in {"first", "second"}
                 PROVE  run'[Q[i].model].pc = run[Q[i].model].pc
      OBVIOUS
    <3>1. Q[i].model \in Models
      BY Kinds, QueueRest DEF FirstWork, SecondWork
    <3>2. Q[i].model # m
      BY <1>6 DEF IsOf
    <3> QED
      BY <1>8, <3>1, <3>2
  <2> QED
    BY <1>1, <2>1, RestGood
<1>11. OutputInv'
  BY <1>1, <1>5 DEF OutputInv
<1>12. RunInv'
  <2>1. \A n \in Models : n # m /\ FirstQueued(n) => FirstQueued(n)'
    <3> SUFFICES ASSUME NEW n \in Models, n # m, NEW i \in DOMAIN Q, Q[i].kind = "first", Q[i].model = n
                 PROVE  FirstQueued(n)'
      BY DEF FirstQueued
    <3>1. i # 1
      OBVIOUS
    <3> QED
      BY <3>1, QueueRest DEF FirstQueued
  <2> HIDE DEF m
  <2> QED
    BY <1>1, <1>8, <1>9, <2>1 DEF ReadInv, RunInv
<1> QED
  BY <1>1, <1>10, <1>11, <1>12, DeviceTables DEF ReadInv

LEMMA ReadDeviceInfer ==
  ASSUME TypeInv, ReadInv, DeviceExecutes("infer")
  PROVE  ReadInv'
<1>1. Q[1] \in InferWork /\ Head(Q) = Q[1]
  BY QueueRest
<1>2. ExecuteFirst(Q[1]) \/ ExecuteSecond(Q[1]) \/ ExecuteFold(Q[1]) \/ ExecuteCopy(Q[1])
  BY <1>1 DEF DeviceExecutes, Q
<1>3. ~ExecuteCopy(Q[1])
  BY <1>1 DEF ExecuteCopy, InferWork, FirstWork, SecondWork, AFold
<1> QED
  BY <1>2, <1>3, ReadFirst, ReadSecond, ReadFold
----------------------------------------------------------------------------
(* Inferences are started.                                                 *)

\* The queue after a submission.
LEMMA QueueMore ==
  ASSUME TypeInv, NEW w \in InferWork, Submit("infer", w)
  PROVE  /\ Q \in Seq(InferWork) /\ Q' = Append(Q, w) /\ Len(Q) \in Nat
         /\ Q'[Len(Q) + 1] = w
         /\ \A i \in DOMAIN Q : i \in DOMAIN Q' /\ Q'[i] = Q[i] /\ i < Len(Q) + 1
         /\ Len(Q) + 1 \in DOMAIN Q'
         /\ \A i \in DOMAIN Q' : i \in DOMAIN Q \/ i = Len(Q) + 1
<1>1. Q' = Append(Q, w) /\ Q \in Seq(InferWork)
  BY Submitted DEF Streams, Q, TypeInv
<1>2. Len(Q) \in Nat /\ DOMAIN Q = 1 .. Len(Q) /\ DOMAIN Append(Q, w) = 1 .. Len(Q) + 1
  BY <1>1
<1> QED
  BY <1>1, <1>2, Appended

LEMMA ReadStartRun ==
  ASSUME FoldFirst, SwapPolicy = "drained", TypeInv, FoldInv, ReadInv, NEW m \in Models, StartRun(m)
  PROVE  ReadInv'
<1>1. /\ run[m].pc = "idle" /\ foldedOnce /\ updater.pc # "swapping"
      /\ Submit("infer", [kind |-> "first", model |-> m, mu |-> models[m].mu, mb |-> models[m].mb])
      /\ run' = [run EXCEPT ![m] = [run[m] EXCEPT !.pc = "calling", !.due = effective]]
      /\ UNCHANGED <<active, foldedOnce, slots, output, models, folder, updater, given, effective>>
  BY DEF StartRun, buffers, tables, history
<1>2. PICK w \in InferWork :
        /\ Submit("infer", w) /\ w.kind = "first" /\ w.model = m
        /\ w.mu = effective["mu"] /\ Points(w.mb, "mb", effective["mb"])
  <2> DEFINE x == [kind |-> "first", model |-> m, mu |-> models[m].mu, mb |-> models[m].mb]
  <2>1. models[m].mu = effective["mu"] /\ Points(models[m].mb, "mb", effective["mb"])
    BY <1>1 DEF ReadInv, TableInv, ModelsInv
  <2>2. x \in InferWork /\ x.kind = "first" /\ x.model = m /\ x.mu = models[m].mu /\ x.mb = models[m].mb
    BY WorkTypes DEF InferWork
  <2>3. Submit("infer", x)
    BY <1>1
  <2> HIDE DEF x
  <2> QED
    BY <2>1, <2>2, <2>3
<1>3. /\ \A n \in Models : n # m => run'[n] = run[n]
      /\ run'[m].pc = "calling" /\ run'[m].due = effective
  BY <1>1 DEF TypeInv, Inference
<1>4. PICK k \in Nat : k = Len(Q) + 1
  BY <1>1, <1>2, QueueMore
<1>5. /\ Q'[k] = w /\ k \in DOMAIN Q' /\ Q \in Seq(InferWork) /\ Q' # <<>>
      /\ \A i \in DOMAIN Q : i \in DOMAIN Q' /\ Q'[i] = Q[i] /\ i < k
      /\ \A i \in DOMAIN Q' : i \in DOMAIN Q \/ i = k
  BY <1>1, <1>2, <1>4, QueueMore
<1>6. \A i \in DOMAIN Q : ~IsOf(Q[i], m)
  BY <1>1 DEF ReadInv, QueueInv, GoodFirst, GoodSecond, IsOf
<1>7. QueueInv'
  <2> SUFFICES ASSUME NEW i \in DOMAIN Q'
               PROVE  /\ Q'[i].kind = "fold" => i = 1 /\ GoodFold(Q[i])'
                      /\ Q'[i].kind = "first" => GoodFirst(Q[i])'
                      /\ Q'[i].kind = "second" => GoodSecond(Q[i])'
    BY DEF QueueInv
  <2>1. CASE i = k
    <3>1. Points(w.mb, "mb", effective["mb"])'
      BY <1>1, <1>2, PointsKept
    <3>2. Q'[i] = w
      BY <1>5, <2>1
    <3> QED
      BY <1>1, <1>2, <1>3, <3>1, <3>2 DEF GoodFirst
  <2>2. CASE i \in DOMAIN Q
    <3>1. Q'[i] = Q[i] /\ Q[i] \in InferWork
      BY <1>5, <2>2
    <3>2. CASE Q[i].kind = "fold"
      BY <1>1, <2>2, <3>1, <3>2, PointsKept DEF ReadInv, QueueInv, GoodFold
    <3>3. CASE Q[i].kind = "first" \/ Q[i].kind = "second"
      <4>1. Q[i].model \in Models /\ Q[i].model # m
        BY <1>6, <2>2, <3>1, <3>3, Kinds DEF IsOf, FirstWork, SecondWork
      <4>2. run'[Q[i].model] = run[Q[i].model]
        BY <1>3, <4>1
      <4>3. Q[i].kind = "first" => GoodFirst(Q[i])
        BY <2>2 DEF ReadInv, QueueInv
      <4>4. Q[i].kind = "second" => GoodSecond(Q[i])
        BY <2>2 DEF ReadInv, QueueInv
      <4>5. Q[i].kind = "first" => GoodFirst(Q[i])'
        BY <1>1, <3>1, <4>2, <4>3, PointsKept DEF GoodFirst
      <4>6. Q[i].kind = "second" => GoodSecond(Q[i])'
        BY <1>1, <3>1, <4>2, <4>4 DEF GoodSecond
      <4> QED
        BY <3>1, <3>3, <4>5, <4>6
    <3> QED
      BY <3>1, <3>2, <3>3, Kinds DEF InferWork, FirstWork, SecondWork, AFold
  <2> QED
    BY <1>5, <2>1, <2>2
<1>8. OrderInv'
  BY <1>2, <1>5, <1>6 DEF ReadInv, OrderInv, IsOf
<1>9. OutputInv'
  <2>1. Q # <<>> => 1 \in DOMAIN Q
    BY <1>5
  <2> QED
    BY <1>1, <1>5, <2>1 DEF ReadInv, OutputInv
<1>10. RunInv'
  <2>1. FirstQueued(m)'
    BY <1>2, <1>5 DEF FirstQueued
  <2>2. \A n \in Models : FirstQueued(n) => FirstQueued(n)'
    BY <1>5 DEF FirstQueued
  <2> QED
    BY <1>1, <1>3, <2>1, <2>2 DEF ReadInv, RunInv
<1>11. TableInv'
  <2>1. ModelsInv => ModelsInv'
    BY <1>1, PointsKept DEF ModelsInv
  <2>2. FolderInv => FolderInv'
    BY <1>1, PointsKept DEF FolderInv
  <2> QED
    BY <1>1, <2>1, <2>2 DEF ReadInv, TableInv
<1> QED
  BY <1>7, <1>8, <1>9, <1>10, <1>11 DEF ReadInv

LEMMA ReadFinishCall ==
  ASSUME TypeInv, ReadInv, NEW m \in Models, FinishCall(m)
  PROVE  ReadInv'
<1>1. /\ run[m].pc = "calling"
      /\ Submit("infer", [kind |-> "second", model |-> m, buffer |-> models[m].output])
      /\ run' = [run EXCEPT ![m].pc = "queued"]
      /\ UNCHANGED <<active, foldedOnce, slots, output, models, folder, updater, given, effective>>
  BY DEF FinishCall, buffers, tables, history
<1>2. updater.pc # "swapping"
  BY <1>1 DEF ReadInv, TableInv, SwapInv, Drained
<1>3. PICK w \in InferWork :
        Submit("infer", w) /\ w.kind = "second" /\ w.model = m /\ w.buffer = active
  <2> DEFINE x == [kind |-> "second", model |-> m, buffer |-> models[m].output]
  <2>1. models[m].output = active
    BY <1>2 DEF ReadInv, TableInv, ModelsInv
  <2>2. x \in InferWork /\ x.kind = "second" /\ x.model = m /\ x.buffer = models[m].output
    BY WorkTypes DEF InferWork
  <2>3. Submit("infer", x)
    BY <1>1
  <2> HIDE DEF x
  <2> QED
    BY <2>1, <2>2, <2>3
<1>4. /\ \A n \in Models : n # m => run'[n] = run[n]
      /\ run'[m].pc = "queued" /\ run'[m].due = run[m].due /\ run'[m].seen = run[m].seen
  BY <1>1 DEF TypeInv, Inference
<1>5. PICK k \in Nat : k = Len(Q) + 1
  BY <1>1, <1>3, QueueMore
<1>6. /\ Q'[k] = w /\ k \in DOMAIN Q' /\ Q \in Seq(InferWork) /\ Q' # <<>>
      /\ \A i \in DOMAIN Q : i \in DOMAIN Q' /\ Q'[i] = Q[i] /\ i < k
      /\ \A i \in DOMAIN Q' : i \in DOMAIN Q \/ i = k
  BY <1>1, <1>3, <1>5, QueueMore
<1>7. \A i \in DOMAIN Q : Q[i].kind = "second" => Q[i].model # m
  BY <1>1 DEF ReadInv, QueueInv, GoodSecond
<1>8. QueueInv'
  <2> SUFFICES ASSUME NEW i \in DOMAIN Q'
               PROVE  /\ Q'[i].kind = "fold" => i = 1 /\ GoodFold(Q[i])'
                      /\ Q'[i].kind = "first" => GoodFirst(Q[i])'
                      /\ Q'[i].kind = "second" => GoodSecond(Q[i])'
    BY DEF QueueInv
  <2>1. CASE i = k
    <3>1. Q'[i] = w
      BY <1>6, <2>1
    <3> QED
      BY <1>1, <1>3, <1>4, <3>1 DEF GoodSecond
  <2>2. CASE i \in DOMAIN Q
    <3>1. Q'[i] = Q[i] /\ Q[i] \in InferWork
      BY <1>6, <2>2
    <3>2. CASE Q[i].kind = "fold"
      BY <1>1, <2>2, <3>1, <3>2, PointsKept DEF ReadInv, QueueInv, GoodFold
    <3>3. CASE Q[i].kind = "first"
      <4>1. GoodFirst(Q[i]) /\ Q[i].model \in Models
        BY <2>2, <3>1, <3>3, Kinds DEF ReadInv, QueueInv, FirstWork
      <4>2. run'[Q[i].model].pc # "idle"
        BY <1>4, <4>1 DEF GoodFirst
      <4> QED
        BY <1>1, <3>1, <3>3, <4>1, <4>2, PointsKept DEF GoodFirst
    <3>4. CASE Q[i].kind = "second"
      <4>1. GoodSecond(Q[i]) /\ Q[i].model \in Models /\ Q[i].model # m
        BY <1>7, <2>2, <3>1, <3>4, Kinds DEF ReadInv, QueueInv, SecondWork
      <4>2. run'[Q[i].model] = run[Q[i].model]
        BY <1>4, <4>1
      <4> QED
        BY <1>1, <3>1, <3>4, <4>1, <4>2 DEF GoodSecond
    <3> QED
      BY <3>1, <3>2, <3>3, <3>4
  <2> QED
    BY <1>6, <2>1, <2>2
<1>9. OrderInv'
  BY <1>3, <1>6, <1>7 DEF ReadInv, OrderInv, IsOf
<1>10. OutputInv'
  <2>1. Q # <<>> => 1 \in DOMAIN Q
    BY <1>6
  <2> QED
    BY <1>1, <1>6, <2>1 DEF ReadInv, OutputInv
<1>11. RunInv'
  <2>1. \A n \in Models : FirstQueued(n) => FirstQueued(n)'
    BY <1>6 DEF FirstQueued
  <2> QED
    BY <1>1, <1>4, <2>1 DEF ReadInv, RunInv
<1>12. TableInv'
  <2>1. ModelsInv => ModelsInv'
    BY <1>1, PointsKept DEF ModelsInv
  <2>2. FolderInv => FolderInv'
    BY <1>1, PointsKept DEF FolderInv
  <2> QED
    BY <1>1, <1>2, <2>1, <2>2 DEF ReadInv, TableInv
<1> QED
  BY <1>8, <1>9, <1>10, <1>11, <1>12 DEF ReadInv
----------------------------------------------------------------------------
(* Updates in place and the swap, which wait for the inferences.           *)

\* With all Models idle and no fold queued there is nothing on their stream.
LEMMA QueueEmpty ==
  ASSUME TypeInv, ReadInv, Drained, \A i \in DOMAIN Q : Q[i].kind # "fold"
  PROVE  Q = <<>> /\ DOMAIN Q = {}
<1>1. Q \in Seq(InferWork)
  BY DEF TypeInv, Q
<1>2. ASSUME NEW i \in DOMAIN Q PROVE FALSE
  <2>1. Q[i] \in InferWork /\ Q[i].kind # "fold"
    BY <1>1, <1>2
  <2>2. Q[i].kind = "first" => Q[i].model \in Models /\ GoodFirst(Q[i])
    BY <2>1, Kinds DEF FirstWork, ReadInv, QueueInv
  <2>3. Q[i].kind = "second" => Q[i].model \in Models /\ GoodSecond(Q[i])
    BY <2>1, Kinds DEF SecondWork, ReadInv, QueueInv
  <2>4. Q[i].kind \in {"first", "second"}
    BY <2>1 DEF InferWork, FirstWork, SecondWork, AFold
  <2> QED
    BY <2>2, <2>3, <2>4 DEF GoodFirst, GoodSecond, Drained
<1>3. Q # <<>> => 1 \in DOMAIN Q
  BY <1>1
<1> QED
  BY <1>2, <1>3

\* With all Models idle there is nothing to keep about the inferences.
LEMMA RunIdle == ASSUME RunInv, Drained, run' = run PROVE RunInv' /\ Drained'
  BY DEF RunInv, Drained

LEMMA ReadFoldQueued ==
  ASSUME TypeInv, FoldInv, ReadInv, FirstFold \/ FoldConstants
  PROVE  ReadInv'
<1>1. /\ Drained /\ ~Pending({"fold"}) /\ updater.pc = "idle" /\ foldedOnce' = TRUE
      /\ Submit("infer", FoldWork)
      /\ effective' = Overwrite(effective, [c \in FolderConstants |-> given[c]])
      /\ UNCHANGED <<active, slots, output, models, folder, run, updater, given>>
  BY DEF FirstFold, FoldConstants, FoldInv, tables
<1>2. Q = <<>> /\ DOMAIN Q = {}
  BY <1>1, QueueEmpty DEF Pending, Streams, Q
<1>3. PICK w \in InferWork :
        /\ Submit("infer", w) /\ w.kind = "fold" /\ w.fu = folder.fu /\ w.fb = folder.fb
        /\ w.buffer = folder.buffer
  BY <1>1, WorkTypes
<1>4. /\ \A c \in FolderConstants : effective'[c] = given[c]
      /\ effective'["mu"] = effective["mu"] /\ effective'["mb"] = effective["mb"]
  <2> DEFINE g == [c \in FolderConstants |-> given[c]]
  <2>1. /\ effective' = Overwrite(effective, g) /\ DOMAIN g = FolderConstants
        /\ \A c \in DOMAIN g : g[c] = given[c] /\ g[c] \in Versions
    BY <1>1 DEF TypeInv, Constants
  <2> HIDE DEF g
  <2>2. effective \in [Constants -> Versions] /\ \A c \in DOMAIN g : g[c] \in Versions
    BY <2>1 DEF TypeInv
  <2>3. \A c \in Constants :
          Overwrite(effective, g)[c] = IF c \in DOMAIN g THEN g[c] ELSE effective[c]
    BY <2>2, OverwriteVersions
  <2> QED
    BY <2>1, <2>3 DEF Constants, ModelConstants, FolderConstants
<1>5. Q' = <<w>> /\ DOMAIN Q' = {1} /\ Q'[1] = w
  BY <1>2, <1>3, QueueMore
<1>6. GoodFold(Q[1])'
  <2>1. folder.fu = given["fu"] /\ Points(folder.fb, "fb", given["fb"]) /\ folder.buffer = active
    BY <1>1 DEF ReadInv, TableInv, FolderInv, FoldInv
  <2>2. w.fu = effective'["fu"] /\ w.buffer = active' /\ Points(w.fb, "fb", given["fb"])
    BY <1>1, <1>3, <1>4, <2>1 DEF FolderConstants
  <2>3. Points(w.fb, "fb", given["fb"])'
    BY <1>1, <2>2, PointsKept
  <2>4. Points(w.fb, "fb", effective["fb"])'
    BY <1>1, <1>4, <2>3 DEF FolderConstants
  <2> QED
    BY <1>5, <2>2, <2>4 DEF GoodFold
<1>7. QueueInv' /\ OrderInv' /\ OutputInv'
  BY <1>3, <1>5, <1>6 DEF QueueInv, OrderInv, OutputInv
<1>8. RunInv'
  BY <1>1, RunIdle DEF ReadInv
<1>9. ModelsInv' /\ FolderInv'
  BY <1>1, <1>4, PointsKept DEF ReadInv, TableInv, ModelsInv, FolderInv
<1> QED
  BY <1>1, <1>7, <1>8, <1>9 DEF ReadInv, TableInv

LEMMA ReadSetMany ==
  ASSUME TypeInv, FoldInv, ReadInv, NEW D, NEW C \in SUBSET Constants, SetManyConstants(D, C)
  PROVE  ReadInv'
<1>1. PICK v \in Versions : v = newest + 1
  BY NextVersion DEF SetManyConstants
<1> DEFINE g == [c \in C |-> v]
           e == [c \in C \cap ModelConstants |-> v]
<1>2. /\ Drained /\ ~Pending({"fold"}) /\ updater.pc = "idle" /\ SetTables(C, v)
      /\ given' = Overwrite(given, g) /\ effective' = Overwrite(effective, e)
      /\ UNCHANGED <<active, foldedOnce, slots, output, queue, run, updater>>
  BY <1>1 DEF SetManyConstants
<1>3. Q = <<>> /\ DOMAIN Q = {} /\ Q' = Q
  BY <1>2, QueueEmpty DEF Pending, Streams, Q
<1>4. \A c \in Constants : given'[c] = IF c \in C THEN v ELSE given[c]
  <2>1. DOMAIN g = C /\ (\A c \in DOMAIN g : g[c] = v /\ g[c] \in Versions) /\ given' = Overwrite(given, g)
    BY <1>2
  <2> HIDE DEF g
  <2>2. given \in [Constants -> Versions]
    BY DEF TypeInv
  <2>3. \A c \in Constants : given'[c] = IF c \in DOMAIN g THEN g[c] ELSE given[c]
    BY <2>1, <2>2, OverwriteVersions
  <2> QED
    BY <2>1, <2>3
<1>5. \A c \in Constants : effective'[c] = IF c \in C \cap ModelConstants THEN v ELSE effective[c]
  <2>1. /\ DOMAIN e = C \cap ModelConstants /\ \A c \in DOMAIN e : e[c] = v /\ e[c] \in Versions
        /\ effective' = Overwrite(effective, e)
    BY <1>2
  <2> HIDE DEF e
  <2> QED
    BY <2>1, OverwriteVersions DEF TypeInv
<1>6. /\ effective'["mu"] = IF "mu" \in C THEN v ELSE effective["mu"]
      /\ effective'["mb"] = IF "mb" \in C THEN v ELSE effective["mb"]
      /\ given'["fu"] = IF "fu" \in C THEN v ELSE given["fu"]
      /\ given'["fb"] = IF "fb" \in C THEN v ELSE given["fb"]
      /\ \A c \in FolderConstants : effective'[c] = effective[c]
  BY <1>4, <1>5 DEF Constants, ModelConstants, FolderConstants
<1>7. \A c : Points(v, c, v)'
  BY ReadVersion DEF Points, Read, Versions, Buffers, Primary, Secondary
<1>8. ModelsInv'
  <2> SUFFICES ASSUME NEW m \in Models
               PROVE  /\ models'[m].mu = effective'["mu"] /\ models'[m].output = active'
                      /\ Points(models[m].mb, "mb", effective["mb"])'
    BY DEF ModelsInv
  <2>1. /\ models[m].mu = effective["mu"] /\ models[m].output = active
        /\ Points(models[m].mb, "mb", effective["mb"])
    BY <1>2 DEF ReadInv, TableInv, ModelsInv
  <2>2. /\ models'[m].output = models[m].output
        /\ models'[m].mu = IF "mu" \in C THEN v ELSE models[m].mu
        /\ models'[m].mb = IF "mb" \in C THEN v ELSE models[m].mb
    BY <1>2, TablesSet
  <2>3. PICK a : a = models[m].mb
    OBVIOUS
  <2>4. PICK x : x = effective["mb"]
    OBVIOUS
  <2>5. Points(a, "mb", x)'
    BY <1>2, <2>1, <2>3, <2>4, PointsKept
  <2>6. CASE "mb" \in C
    BY <1>2, <1>6, <1>7, <2>1, <2>2, <2>6
  <2>7. CASE "mb" \notin C
    BY <1>2, <1>6, <2>1, <2>2, <2>3, <2>4, <2>5, <2>7
  <2> QED
    BY <2>6, <2>7
<1>9. FolderInv'
  <2>1. folder.fu = given["fu"] /\ Points(folder.fb, "fb", given["fb"])
    BY <1>2 DEF ReadInv, TableInv, FolderInv
  <2>2. /\ folder'.fu = IF "fu" \in C THEN v ELSE folder.fu
        /\ folder'.fb = IF "fb" \in C THEN v ELSE folder.fb
    BY <1>2, TablesSet
  <2>3. PICK a : a = folder.fb
    OBVIOUS
  <2>4. PICK x : x = given["fb"]
    OBVIOUS
  <2>5. Points(a, "fb", x)'
    BY <1>2, <2>1, <2>3, <2>4, PointsKept
  <2>6. CASE "fb" \in C
    BY <1>6, <1>7, <2>1, <2>2, <2>6 DEF FolderInv
  <2>7. CASE "fb" \notin C
    BY <1>6, <2>1, <2>2, <2>3, <2>4, <2>5, <2>7 DEF FolderInv
  <2> QED
    BY <2>6, <2>7
<1>10. QueueInv' /\ OrderInv'
  BY <1>3 DEF QueueInv, OrderInv
<1>11. OutputInv'
  BY <1>2, <1>3, <1>6 DEF ReadInv, OutputInv
<1>12. RunInv'
  BY <1>2, RunIdle DEF ReadInv
<1> QED
  BY <1>2, <1>8, <1>9, <1>10, <1>11, <1>12 DEF ReadInv, TableInv

LEMMA ReadSwap ==
  ASSUME SwapPolicy = "drained", TypeInv, SessionInv, FoldInv, GenerationInv, ReadInv, SwapConstants
  PROVE  ReadInv'
<1>1. /\ updater.pc = "folded" /\ Drained /\ active' = Inactive
      /\ updater' = [pc |-> "swapping", i |-> 1]
      /\ given' = [c \in Constants |-> newest] /\ effective' = [c \in Constants |-> newest]
      /\ UNCHANGED <<foldedOnce, slots, output, staged, models, folder, queue, run, newest>>
  BY DEF SwapConstants, SwapAllowed, Inactive, tables
<1>2. Q = <<>> /\ DOMAIN Q = {} /\ Q' = Q
  BY <1>1, QueueEmpty DEF FoldInv, InferFolds, Q
<1>3. /\ Written(Inactive, newest) /\ Folded(Inactive, newest)
      /\ DOMAIN staged = {"mu"} /\ staged["mu"] = newest /\ folder.fu = newest
      /\ folder.fb = Inactive /\ Inactive \in Buffers
  BY <1>1, WorkTypes DEF GenerationInv, SessionInv, Inactive
<1>4. QueueInv' /\ OrderInv'
  BY <1>2 DEF QueueInv, OrderInv
<1>5. OutputInv'
  BY <1>1, <1>3 DEF OutputInv, Folded, Constants
<1>6. RunInv' /\ Drained'
  BY <1>1, RunIdle DEF ReadInv
<1>7. SwapInv'
  <2>1. \A m \in Models : ~(m < 1) /\ ~(m + NumModels < 1)
    BY ConstantsAssumption DEF Models
  <2>2. Written(active, newest)'
    BY <1>1, <1>3 DEF Written
  <2> QED
    BY <1>1, <1>2, <1>3, <1>6, <2>1, <2>2 DEF SwapInv
<1>8. FolderInv'
  <2>1. given'["fu"] = newest /\ given'["fb"] = newest
    BY <1>1 DEF Constants, FolderConstants
  <2>2. slots'[Inactive]["fb"] = newest
    BY <1>1, <1>3 DEF Written, Bound
  <2> QED
    BY <1>1, <1>3, <2>1, <2>2 DEF FolderInv, Points, Read
<1> QED
  BY <1>1, <1>4, <1>5, <1>6, <1>7, <1>8 DEF ReadInv, TableInv

LEMMA ReadSwapModels ==
  ASSUME TypeInv, ReadInv, NEW m \in Models, SwapModels(m)
  PROVE  ReadInv'
<1>1. /\ updater.pc = "swapping" /\ updater.i \in {m, m + NumModels}
      /\ updater' = [updater EXCEPT !.i = updater.i + 1]
      /\ UNCHANGED <<active, foldedOnce, slots, output, staged, folder, queue, run, given, effective, newest>>
  BY DEF SwapModels, buffers, history
<1>2. /\ updater'.pc = "swapping" /\ updater'.i = updater.i + 1 /\ updater.i \in Nat
      /\ NumModels \in Nat /\ NumModels >= 1 /\ Models = 1 .. NumModels
  BY <1>1, ConstantsAssumption DEF TypeInv, Models
<1>3. SwapInv /\ FolderInv /\ Q' = Q
  BY <1>1 DEF ReadInv, TableInv, Q
<1>4. QueueInv' /\ OrderInv' /\ OutputInv' /\ RunInv'
  BY <1>1, <1>3, RunIdle DEF ReadInv, QueueInv, OrderInv, OutputInv, SwapInv
<1>5. FolderInv'
  BY <1>1, <1>3, PointsKept DEF FolderInv
<1>6. ASSUME NEW n \in Models, n < updater'.i PROVE models'[n].mb = active /\ models'[n].output = active
  <2>1. CASE n # m
    <3>1. n < updater.i
      BY <1>1, <1>2, <1>6, <2>1
    <3> QED
      BY <1>3, <2>1, <3>1, ModelSwapped DEF SwapInv
  <2>2. CASE n = m
    <3>1. CASE updater.i <= NumModels
      BY <2>2, <3>1, ModelSwapped
    <3>2. CASE updater.i > NumModels
      BY <1>2, <1>3, <2>2, <3>2, ModelSwapped DEF SwapInv
    <3> QED
      BY <1>2, <3>1, <3>2
  <2> QED
    BY <2>1, <2>2
<1>7. ASSUME NEW n \in Models, n + NumModels < updater'.i PROVE models'[n].mu = newest
  <2>1. updater.i > NumModels
    BY <1>2, <1>7
  <2>2. CASE n # m
    <3>1. n + NumModels < updater.i
      BY <1>1, <1>2, <1>7, <2>1, <2>2
    <3> QED
      BY <1>3, <2>2, <3>1, ModelSwapped DEF SwapInv
  <2>3. CASE n = m
    <3>1. staged # NothingStaged /\ staged["mu"] = newest
      BY <1>3 DEF SwapInv, NothingStaged
    <3> QED
      BY <2>1, <2>3, <3>1, ModelSwapped
  <2> QED
    BY <2>2, <2>3
<1>8. SwapInv'
  BY <1>1, <1>3, <1>6, <1>7 DEF SwapInv, Drained, Written
<1> QED
  BY <1>2, <1>4, <1>5, <1>8 DEF ReadInv, TableInv

LEMMA ReadSwapDone == ASSUME TypeInv, ReadInv, SwapDone PROVE ReadInv'
<1>1. /\ updater.pc = "swapping" /\ updater'.pc = "idle" /\ updater.i > 2 * NumModels
      /\ UNCHANGED <<active, foldedOnce, slots, output, models, folder, queue, run, given, effective>>
  BY DEF SwapDone, history
<1>2. SwapInv /\ FolderInv /\ Q' = Q
  BY <1>1 DEF ReadInv, TableInv, Q
<1>3. QueueInv' /\ OrderInv' /\ OutputInv' /\ RunInv'
  BY <1>1, <1>2, RunIdle DEF ReadInv, QueueInv, OrderInv, OutputInv, SwapInv
<1>4. FolderInv'
  BY <1>1, <1>2, PointsKept DEF FolderInv
<1>5. ModelsInv
  <2> SUFFICES ASSUME NEW m \in Models
               PROVE  /\ models[m].mu = effective["mu"] /\ models[m].output = active
                      /\ Points(models[m].mb, "mb", effective["mb"])
    BY DEF ModelsInv
  <2>1. m < updater.i /\ m + NumModels < updater.i
    BY <1>1, ConstantsAssumption DEF TypeInv, Models
  <2>2. models[m].mb = active /\ models[m].output = active /\ models[m].mu = newest
    BY <1>2, <2>1 DEF SwapInv
  <2>3. effective["mu"] = newest /\ effective["mb"] = newest
    BY <1>2 DEF SwapInv, Constants, ModelConstants
  <2>4. Read(active, "mb") = newest
    BY <1>2 DEF SwapInv, Written, Read, TypeInv, Bound
  <2> QED
    BY <2>2, <2>3, <2>4 DEF Points
<1>6. ModelsInv'
  BY <1>1, <1>5, PointsKept DEF ModelsInv
<1> QED
  BY <1>1, <1>3, <1>4, <1>6 DEF ReadInv, TableInv
----------------------------------------------------------------------------

LEMMA ReadStep ==
  /\ FoldFirst /\ SwapPolicy = "drained" /\ Destroyed = {}
  /\ TypeInv /\ SessionInv /\ FoldInv /\ GenerationInv /\ ReadInv /\ [Next]_vars
  => ReadInv'
<1> SUFFICES ASSUME FoldFirst, SwapPolicy = "drained", Destroyed = {}, TypeInv, SessionInv, FoldInv,
                    GenerationInv, ReadInv, [Next]_vars
             PROVE  ReadInv'
  OBVIOUS
<1>1. CASE \E s \in Streams : DeviceExecutes(s)
  BY <1>1, ReadDeviceInfer, ReadDeviceUpdate DEF Streams
<1>2. CASE FirstFold \/ FoldConstants
  BY <1>2, ReadFoldQueued
<1>3. CASE \E m \in Models : StartRun(m) \/ FinishCall(m) \/ SwapModels(m)
  BY <1>3, ReadStartRun, ReadFinishCall, ReadSwapModels
<1>4. CASE \E C \in SUBSET Constants :
             (\E D \in SUBSET C : SetManyConstants(C, D)) \/ SetManyDoubleBufferConstants(C)
  BY <1>4, ReadSetMany, ReadSession
<1>5. CASE SwapConstantFolderBuffer \/ FoldInDoubleBuffer \/ FoldReturns \/ SwapRefused
  BY <1>5, ReadSession
<1>6. CASE SwapConstants \/ SwapDone
  BY <1>6, ReadSwap, ReadSwapDone
<1>7. CASE UNCHANGED vars
  <2>1. UNCHANGED <<active, foldedOnce, slots, output, staged, models, folder, queue, run, updater,
                    given, effective, newest>> /\ Q' = Q
    BY <1>7 DEF vars, buffers, tables, history, Q
  <2>2. QueueInv' /\ OrderInv' /\ OutputInv' /\ RunInv' /\ (ModelsInv => ModelsInv')
    BY <2>1, ReadKept
  <2>3. (SwapInv => SwapInv') /\ (FolderInv => FolderInv')
    BY <2>1, PointsKept DEF SwapInv, FolderInv, Drained, Written
  <2> QED
    BY <2>1, <2>2, <2>3 DEF ReadInv, TableInv
<1> QED
  BY <1>1, <1>2, <1>3, <1>4, <1>5, <1>6, <1>7 DEF Next

\* An inference reads exactly the constants that were in effect when it was
\* started, of the Models and of the folder, however it is interleaved with
\* updates in place and sessions, also some that fail half way and leave nothing on a
\* stream of their own, folds and swaps.
THEOREM InferencesReadWhatIsDue ==
  ASSUME FoldFirst, SwapPolicy = "drained", Destroyed = {} PROVE Spec => []ReadsWhatIsDue
<1>1. FoldFirst /\ SwapPolicy = "drained" /\ Destroyed = {}
  OBVIOUS
<1>2. TypeInv /\ SessionInv /\ FoldInv /\ GenerationInv /\ ReadInv /\ [Next]_vars => ReadInv'
  BY <1>1, ReadStep
<1>3. ReadInv => ReadsWhatIsDue
  BY DEF ReadInv, RunInv, ReadsWhatIsDue
<1>4. Spec => [](TypeInv /\ SessionInv /\ FoldInv /\ GenerationInv)
  BY <1>1, AlwaysGenerationInv
<1> QED
  BY <1>2, <1>3, <1>4, ReadInit, PTL DEF Spec

-----------------------------------------------------------------------------
(* The Python Model                                                        *)

\* Under the Python Model the container does what ConstantBuffers says, so all
\* that is proved of it holds here.
THEOREM ModelDrivesContainer == ModelSpec => Spec
<1>1. ModelInit => Init
  BY DEF ModelInit
<1>2. [ModelNext]_allVars => [Next]_vars
  <2> SUFFICES ASSUME ModelNext PROVE Next \/ UNCHANGED vars
    BY DEF allVars
  <2>1. CASE SetManyDoubleBufferConstantsWithTensors
    BY <2>1 DEF SetManyDoubleBufferConstantsWithTensors
  <2>2. CASE \E C \in SUBSET Constants : SetManyConstantsWithTensors(C) \/ ConstantRefused(C)
    BY <2>2 DEF SetManyConstantsWithTensors, ConstantRefused
  <2>3. ASSUME NEW D \in SUBSET Constants, CallSetManyConstants(D) PROVE Next
    <3>1. SetManyConstants(call.names, D)
      BY <2>3 DEF CallSetManyConstants
    <3>2. call.names \in SUBSET Constants /\ D \in SUBSET call.names
      BY <3>1, UpdatesAssumption DEF SetManyConstants
    <3> QED
      BY <3>1, <3>2 DEF Next
  <2>4. CASE \E C \in SUBSET Constants : CallSetManyConstants(C)
    BY <2>3, <2>4
  <2>5. CASE \E C \in SUBSET Constants : CallSetManyDoubleBufferConstants(C)
    BY <2>5 DEF CallSetManyDoubleBufferConstants, Next
  <2>6. CASE FoldAndSwap
    BY <2>6 DEF FoldAndSwap, Next
  <2>7. CASE Others
    BY <2>7 DEF Others, Next
  <2> QED
    BY <2>1, <2>2, <2>4, <2>5, <2>6, <2>7 DEF ModelNext
<1> QED
  BY <1>1, <1>2, PTL DEF ModelSpec, Spec
----------------------------------------------------------------------------
(* The tensors that are held.                                              *)

Ops == {"none", "SetManyConstants", "SetManyDoubleBufferConstants"}

\* The tensor stored last for c is that of version v.
Held(c, v) == tensors[c] \in {v, Refused}

InSession == updater.pc \in {"set", "switched", "folding", "folded"}

\* What the library is about to be given is stored already.
CallInv ==
  /\ call = NoCall \/ call.op \in Ops \ {"none"}
  /\ call.op = "SetManyConstants" =>
       updater.pc = "idle" /\ \A c \in call.names : Held(c, newest + 1)
  /\ call.op = "SetManyDoubleBufferConstants" =>
       updater.pc # "swapping" /\ \A c \in Constants : Held(c, newest + 1)

\* Outside of sessions the tensors are those of the constants given last, but
\* for those of the call under way; in a session, those of the session.
StoreInv ==
  /\ updater.pc \in {"idle", "swapping"} /\ call.op # "SetManyDoubleBufferConstants" =>
       \A c \in Constants \ call.names : Held(c, given[c])
  /\ InSession /\ call = NoCall => \A c \in Constants : Held(c, newest)

\* The Models read what was given last, and so do folds that have not begun.
GivenInv ==
  /\ \A c \in ModelConstants : effective[c] = given[c]
  /\ updater.pc = "swapping" \/ (updater.pc = "idle" /\ Pending({"fold"})) =>
       \A c \in FolderConstants : effective[c] = given[c]

HeldInv ==
  /\ tensors \in [Constants -> Versions \cup {Refused}]
  /\ CallInv /\ StoreInv /\ GivenInv

LEMMA HeldInit == ModelInit => HeldInv
<1> SUFFICES ASSUME ModelInit PROVE HeldInv
  OBVIOUS
<1>1. /\ tensors = [c \in Constants |-> 0] /\ call = NoCall /\ updater.pc = "idle"
      /\ effective = [c \in Constants |-> 0] /\ given = effective
  BY DEF ModelInit, Init
<1>2. 0 \in Versions
  BY ConstantsAssumption DEF Versions
<1>3. \A c \in Constants : Held(c, given[c])
  BY <1>1 DEF Held
<1> QED
  BY <1>1, <1>2, <1>3 DEF HeldInv, CallInv, StoreInv, GivenInv, NoCall, InSession

\* What Store leaves in the dictionary.
LEMMA Stored ==
  ASSUME HeldInv, NEW C \in SUBSET Constants, NEW t \in Versions \cup {Refused}, Store(C, t)
  PROVE  /\ tensors' \in [Constants -> Versions \cup {Refused}]
         /\ \A c \in Constants : tensors'[c] = IF c \in C THEN t ELSE tensors[c]
<1> DEFINE g == [c \in C |-> t]
<1>1. DOMAIN tensors = Constants /\ tensors' = [c \in DOMAIN tensors |-> IF c \in DOMAIN g THEN g[c] ELSE tensors[c]]
  BY DEF HeldInv, Store, Overwrite
<1>2. DOMAIN g = C /\ \A c \in C : g[c] = t
  OBVIOUS
<1> HIDE DEF g
<1> QED
  BY <1>1, <1>2 DEF HeldInv

LEMMA HeldStore ==
  ASSUME TypeInv, HeldInv,
         \/ SetManyDoubleBufferConstantsWithTensors
         \/ \E C \in SUBSET Constants : SetManyConstantsWithTensors(C) \/ ConstantRefused(C)
  PROVE  HeldInv'
<1>1. ASSUME NEW C \in SUBSET Constants, SetManyConstantsWithTensors(C) PROVE HeldInv'
  <2>1. /\ call = NoCall /\ updater.pc = "idle" /\ newest < MaxVersion /\ Store(C, newest + 1)
        /\ call' = [op |-> "SetManyConstants", names |-> C]
        /\ UNCHANGED <<queue, updater, given, effective, newest>>
    BY <1>1 DEF SetManyConstantsWithTensors, vars, history
  <2>2. /\ tensors' \in [Constants -> Versions \cup {Refused}]
        /\ \A c \in Constants : tensors'[c] = IF c \in C THEN newest + 1 ELSE tensors[c]
    BY <2>1, NextVersion, Stored
  <2>3. call'.op = "SetManyConstants" /\ call'.names = C /\ call.names = {} /\ call.op = "none"
    BY <2>1 DEF NoCall
  <2>4. GivenInv'
    BY <2>1 DEF HeldInv, GivenInv, Pending
  <2>5. CallInv'
    BY <2>1, <2>2, <2>3 DEF CallInv, Held, Ops
  <2>6. StoreInv'
    BY <2>1, <2>2, <2>3 DEF HeldInv, StoreInv, Held, InSession
  <2> QED
    BY <2>2, <2>4, <2>5, <2>6 DEF HeldInv
<1>2. ASSUME SetManyDoubleBufferConstantsWithTensors PROVE HeldInv'
  <2>1. /\ updater.pc \in {"idle", "set", "failed", "folded"} /\ newest < MaxVersion
        /\ Store(Constants, newest + 1)
        /\ call' = [op |-> "SetManyDoubleBufferConstants", names |-> Constants]
        /\ UNCHANGED <<queue, updater, given, effective, newest>>
    BY <1>2 DEF SetManyDoubleBufferConstantsWithTensors, vars, history
  <2>2. /\ tensors' \in [Constants -> Versions \cup {Refused}]
        /\ \A c \in Constants : tensors'[c] = newest + 1
    BY <2>1, NextVersion, Stored
  <2>3. call'.op = "SetManyDoubleBufferConstants" /\ call' # NoCall
    BY <2>1 DEF NoCall
  <2>4. GivenInv'
    BY <2>1 DEF HeldInv, GivenInv, Pending
  <2> QED
    BY <2>1, <2>2, <2>3, <2>4 DEF HeldInv, CallInv, StoreInv, Held, Ops
<1>3. ASSUME NEW C \in SUBSET Constants, ConstantRefused(C) PROVE HeldInv'
  <2>1. /\ call = NoCall /\ Store(C, Refused)
        /\ UNCHANGED <<call, queue, updater, given, effective, newest>>
    BY <1>3 DEF ConstantRefused, vars, history
  <2>2. /\ tensors' \in [Constants -> Versions \cup {Refused}]
        /\ \A c \in Constants : tensors'[c] \in {tensors[c], Refused}
    BY <2>1, Stored
  <2>3. call.op = "none" /\ call'.op = "none" /\ call.names = {} /\ call'.names = {}
    BY <2>1 DEF NoCall
  <2>4. GivenInv'
    BY <2>1 DEF HeldInv, GivenInv, Pending
  <2> QED
    BY <2>1, <2>2, <2>3, <2>4 DEF HeldInv, CallInv, StoreInv, Held, InSession
<1> QED
  BY <1>1, <1>2, <1>3

\* Steps that neither give, store nor end anything.
LEMMA HeldAside ==
  ASSUME HeldInv, UNCHANGED <<tensors, call, updater, given, effective, newest>>,
         Pending({"fold"})' => Pending({"fold"})
  PROVE  HeldInv'
<1>1. CallInv' /\ StoreInv'
  BY DEF HeldInv, CallInv, StoreInv, Held, InSession
<1>2. GivenInv'
  BY DEF HeldInv, GivenInv
<1> QED
  BY <1>1, <1>2 DEF HeldInv

\* The device and the threads that run inferences.
LEMMA HeldOthers ==
  ASSUME TypeInv, FoldFirst, FoldInv, HeldInv, UNCHANGED modelVars,
         \/ \E s \in Streams : DeviceExecutes(s)
         \/ \E m \in Models : StartRun(m) \/ FinishCall(m)
  PROVE  HeldInv'
<1>1. UNCHANGED <<tensors, call>>
  BY DEF modelVars
<1>2. ASSUME NEW s \in Streams, DeviceExecutes(s) PROVE HeldInv'
  <2>1. /\ queue[s] # <<>> /\ queue' = [queue EXCEPT ![s] = Tail(@)]
        /\ UNCHANGED <<updater, given, effective, newest>>
    BY <1>2 DEF DeviceExecutes, history
  <2>2. queue'[s] = Tail(queue[s]) /\ \A t \in Streams : t # s => queue'[t] = queue[t]
    BY <2>1, Taken
  <2>3. queue[s] \in Seq(InferWork \cup UpdateWork)
    BY DEF TypeInv
  <2>4. \A i \in DOMAIN queue'[s] : i + 1 \in DOMAIN queue[s] /\ queue'[s][i] = queue[s][i + 1]
    <3>1. PICK q \in Seq(InferWork \cup UpdateWork) : q = queue[s] /\ q # <<>>
      BY <2>1, <2>3
    <3>2. \A i \in DOMAIN Tail(q) : i + 1 \in DOMAIN q /\ Tail(q)[i] = q[i + 1]
      BY <3>1, Removed
    <3> QED
      BY <2>2, <3>1, <3>2
  <2>5. Pending({"fold"})' => Pending({"fold"})
    <3> SUFFICES ASSUME NEW t \in Streams, NEW i \in DOMAIN queue'[t], queue'[t][i].kind = "fold"
                 PROVE  Pending({"fold"})
      BY DEF Pending
    <3>1. CASE t = s
      BY <2>4, <3>1 DEF Pending
    <3>2. CASE t # s
      BY <2>2, <3>2 DEF Pending
    <3> QED
      BY <3>1, <3>2
  <2> QED
    BY <1>1, <2>1, <2>5, HeldAside
<1>3. ASSUME NEW m \in Models, StartRun(m) \/ FinishCall(m) PROVE HeldInv'
  <2>1. PICK w \in InferWork : Submit("infer", w) /\ w.kind # "fold"
    <3>1. CASE StartRun(m)
      <4>1. PICK w : /\ w = [kind |-> "first", model |-> m, mu |-> models[m].mu, mb |-> models[m].mb]
                     /\ Submit("infer", w)
        BY <3>1 DEF StartRun
      <4>2. w \in InferWork /\ w.kind = "first"
        BY <4>1, WorkTypes DEF InferWork
      <4> QED
        BY <4>1, <4>2
    <3>2. CASE FinishCall(m)
      <4>1. PICK w : /\ w = [kind |-> "second", model |-> m, buffer |-> models[m].output]
                     /\ Submit("infer", w)
        BY <3>2 DEF FinishCall
      <4>2. w \in InferWork /\ w.kind = "second"
        BY <4>1, WorkTypes DEF InferWork
      <4> QED
        BY <4>1, <4>2
    <3> QED
      BY <1>3, <3>1, <3>2
  <2>2. UNCHANGED <<updater, given, effective, newest>>
    BY <1>3 DEF StartRun, FinishCall, history
  <2>3. \A t \in Streams : t # "infer" => queue'[t] = queue[t]
    BY <2>1, Submitted DEF Streams
  <2>4. Pending({"fold"})' => Pending({"fold"})
    <3> SUFFICES ASSUME NEW t \in Streams, NEW i \in DOMAIN queue'[t], queue'[t][i].kind = "fold"
                 PROVE  Pending({"fold"})
      BY DEF Pending
    <3>1. CASE t # "infer"
      BY <2>3, <3>1 DEF Pending
    <3>2. CASE t = "infer"
      <4>1. i \in DOMAIN Q' /\ Q'[i].kind = "fold"
        BY <3>2 DEF Q
      <4>2. i \in DOMAIN Q /\ Q'[i] = Q[i]
        BY <2>1, <4>1, QueueMore
      <4> QED
        BY <4>1, <4>2 DEF Q, Pending, Streams
    <3> QED
      BY <3>1, <3>2
  <2> QED
    BY <1>1, <2>2, <2>4, HeldAside
<1> QED
  BY <1>2, <1>3

\* A fold takes what was given last.
LEMMA HeldFold ==
  ASSUME TypeInv, HeldInv, UNCHANGED modelVars, FirstFold \/ FoldConstants
  PROVE  HeldInv'
<1> DEFINE g == [c \in FolderConstants |-> given[c]]
<1>1. /\ effective' = Overwrite(effective, g)
      /\ UNCHANGED <<tensors, call, updater, given, newest>>
  BY DEF FirstFold, FoldConstants, modelVars
<1>2. DOMAIN g = FolderConstants /\ \A c \in DOMAIN g : g[c] = given[c] /\ g[c] \in Versions
  BY DEF TypeInv, Constants
<1>3. effective \in [Constants -> Versions]
  BY DEF TypeInv
<1> HIDE DEF g
<1>4. \A c \in Constants : effective'[c] = IF c \in FolderConstants THEN given[c] ELSE effective[c]
  BY <1>1, <1>2, <1>3, OverwriteVersions
<1>5. GivenInv'
  BY <1>1, <1>4 DEF HeldInv, GivenInv, Constants
<1>6. CallInv' /\ StoreInv'
  BY <1>1 DEF HeldInv, CallInv, StoreInv, Held, InSession
<1> QED
  BY <1>1, <1>5, <1>6 DEF HeldInv

\* The container has what was stored for it.
LEMMA HeldSetMany ==
  ASSUME TypeInv, HeldInv, NEW C \in SUBSET Constants, CallSetManyConstants(C) PROVE HeldInv'
<1>1. C \subseteq call.names /\ call.names \subseteq Constants
  BY UpdatesAssumption DEF CallSetManyConstants, SetManyConstants
<1>2. PICK v \in Versions : v = newest + 1
  BY NextVersion DEF CallSetManyConstants, SetManyConstants
<1> DEFINE g == [c \in C |-> v]
           e == [c \in C \cap ModelConstants |-> v]
<1>3. /\ call.op = "SetManyConstants" /\ updater.pc = "idle" /\ ~Pending({"fold"}) /\ newest' = v
      /\ given' = Overwrite(given, g) /\ effective' = Overwrite(effective, e)
      /\ call' = NoCall /\ Store(call.names \ C, Refused)
      /\ UNCHANGED <<queue, updater>>
  BY <1>1, <1>2 DEF CallSetManyConstants, SetManyConstants
<1>4. /\ DOMAIN g = C /\ \A c \in DOMAIN g : g[c] = v /\ g[c] \in Versions
      /\ DOMAIN e = C \cap ModelConstants /\ \A c \in DOMAIN e : e[c] = v /\ e[c] \in Versions
  OBVIOUS
<1> HIDE DEF g, e
<1>5. \A c \in Constants : given'[c] = IF c \in C THEN v ELSE given[c]
  BY <1>3, <1>4, OverwriteVersions DEF TypeInv
<1>6. \A c \in Constants : effective'[c] = IF c \in C \cap ModelConstants THEN v ELSE effective[c]
  <2>1. effective \in [Constants -> Versions]
    BY DEF TypeInv
  <2>2. \A c \in Constants : effective'[c] = IF c \in DOMAIN e THEN e[c] ELSE effective[c]
    BY <1>3, <1>4, <2>1, OverwriteVersions
  <2> QED
    BY <1>4, <2>2
<1>7. ~Pending({"fold"})'
  BY <1>3 DEF Pending
<1>8. GivenInv'
  BY <1>3, <1>5, <1>6, <1>7 DEF HeldInv, GivenInv, Constants
<1>9. /\ tensors' \in [Constants -> Versions \cup {Refused}]
      /\ \A c \in Constants : tensors'[c] = IF c \in call.names \ C THEN Refused ELSE tensors[c]
  BY <1>1, <1>3, Stored
<1>10. StoreInv'
  <2>1. ASSUME NEW c \in Constants PROVE tensors'[c] \in {given'[c], Refused}
    <3>1. CASE c \in C
      BY <1>1, <1>2, <1>3, <1>5, <1>9, <3>1 DEF HeldInv, CallInv, Held
    <3>2. CASE c \in call.names \ C
      BY <1>9, <3>2
    <3>3. CASE c \notin call.names
      BY <1>1, <1>3, <1>5, <1>9, <3>3 DEF HeldInv, StoreInv, Held
    <3> QED
      BY <3>1, <3>2, <3>3
  <2> QED
    BY <1>3, <2>1 DEF StoreInv, Held, InSession
<1> QED
  BY <1>3, <1>8, <1>9, <1>10 DEF HeldInv, CallInv, NoCall

LEMMA HeldSetDoubleBuffer ==
  ASSUME TypeInv, HeldInv, NEW C \in SUBSET Constants, CallSetManyDoubleBufferConstants(C)
  PROVE  HeldInv'
<1>1. /\ call.op = "SetManyDoubleBufferConstants" /\ newest' = newest + 1 /\ call' = NoCall
      /\ updater' = [updater EXCEPT !.pc = IF C = Constants THEN "set" ELSE "failed"]
      /\ UNCHANGED <<tensors, given, effective>>
  BY DEF CallSetManyDoubleBufferConstants, SetManyDoubleBufferConstants
<1>2. updater'.pc \in {"set", "failed"}
  BY <1>1 DEF TypeInv
<1>3. \A c \in Constants : tensors'[c] \in {newest', Refused}
  BY <1>1 DEF HeldInv, CallInv, Held
<1>4. GivenInv'
  BY <1>1, <1>2 DEF HeldInv, GivenInv
<1>5. CallInv' /\ StoreInv'
  BY <1>1, <1>2, <1>3 DEF CallInv, StoreInv, NoCall, Held
<1> QED
  BY <1>1, <1>4, <1>5 DEF HeldInv

\* fold_constants and swap_constants.
LEMMA HeldUpdater ==
  ASSUME TypeInv, HeldInv, ReadInv, call = NoCall, UNCHANGED modelVars,
         \/ SwapConstantFolderBuffer \/ FoldInDoubleBuffer \/ FoldReturns
         \/ SwapRefused \/ SwapConstants \/ SwapDone
         \/ \E m \in Models : SwapModels(m)
  PROVE  HeldInv'
<1>1. UNCHANGED <<tensors, call>> /\ call.op = "none" /\ call.names = {}
  BY DEF modelVars, NoCall
<1>2. CASE SwapConstantFolderBuffer \/ FoldInDoubleBuffer \/ FoldReturns \/ SwapRefused
  <2>1. /\ InSession /\ updater'.pc \in {"switched", "folding", "folded", "failed"}
        /\ UNCHANGED <<given, effective, newest>>
    BY <1>2 DEF SwapConstantFolderBuffer, FoldInDoubleBuffer, FoldReturns, SwapRefused, TypeInv,
       InSession, history
  <2> QED
    BY <1>1, <2>1 DEF HeldInv, CallInv, StoreInv, GivenInv, Held
<1>3. CASE SwapConstants
  <2>1. /\ InSession /\ updater'.pc = "swapping" /\ newest' = newest
        /\ given' = [c \in Constants |-> newest] /\ effective' = [c \in Constants |-> newest]
    BY <1>3 DEF SwapConstants, InSession
  <2>2. GivenInv'
    BY <2>1 DEF GivenInv, Constants
  <2>3. StoreInv'
    BY <1>1, <2>1 DEF HeldInv, StoreInv, Held, InSession
  <2> QED
    BY <1>1, <2>1, <2>2, <2>3 DEF HeldInv, CallInv
<1>4. CASE SwapDone \/ \E m \in Models : SwapModels(m)
  <2>1. /\ updater.pc = "swapping" /\ updater'.pc \in {"swapping", "idle"}
        /\ UNCHANGED <<given, effective, newest>>
    BY <1>4 DEF SwapDone, SwapModels, TypeInv, history
  <2>2. GivenInv'
    BY <2>1 DEF HeldInv, GivenInv
  <2>3. StoreInv'
    BY <1>1, <2>1 DEF HeldInv, StoreInv, Held, InSession
  <2> QED
    BY <1>1, <2>1, <2>2, <2>3 DEF HeldInv, CallInv
<1> QED
  BY <1>2, <1>3, <1>4

LEMMA HeldStep ==
  /\ FoldFirst /\ TypeInv /\ FoldInv /\ ReadInv /\ HeldInv /\ [ModelNext]_allVars => HeldInv'
<1> SUFFICES ASSUME FoldFirst, TypeInv, FoldInv, ReadInv, HeldInv, [ModelNext]_allVars PROVE HeldInv'
  OBVIOUS
<1>1. CASE \/ SetManyDoubleBufferConstantsWithTensors
           \/ \E C \in SUBSET Constants : SetManyConstantsWithTensors(C) \/ ConstantRefused(C)
  BY <1>1, HeldStore
<1>2. CASE \E C \in SUBSET Constants : CallSetManyConstants(C)
  BY <1>2, HeldSetMany
<1>3. CASE \E C \in SUBSET Constants : CallSetManyDoubleBufferConstants(C)
  BY <1>3, HeldSetDoubleBuffer
<1>4. CASE FoldAndSwap
  BY <1>4, HeldFold, HeldUpdater DEF FoldAndSwap
<1>5. CASE Others
  BY <1>5, HeldFold, HeldOthers DEF Others
<1>6. CASE UNCHANGED allVars
  <2>1. UNCHANGED <<tensors, call, queue, updater, given, effective, newest>>
    BY <1>6 DEF allVars, modelVars, vars, history
  <2> QED
    BY <2>1, HeldAside DEF Pending
<1> QED
  BY <1>1, <1>2, <1>3, <1>4, <1>5, <1>6 DEF ModelNext

\* Nothing is staged outside of a session.
IdleStaged == updater.pc = "idle" => staged = NothingStaged

LEMMA StagedStep == TypeInv /\ IdleStaged /\ [Next]_vars => IdleStaged'
<1> SUFFICES ASSUME TypeInv, IdleStaged, [Next]_vars, updater'.pc = "idle" PROVE staged' = NothingStaged
  BY DEF IdleStaged
<1>1. CASE SwapDone
  BY <1>1 DEF SwapDone
<1>2. CASE UNCHANGED <<updater, staged>>
  BY <1>2 DEF IdleStaged
<1>3. ASSUME NEW C \in SUBSET Constants, SetManyDoubleBufferConstants(C) PROVE FALSE
  BY <1>3 DEF SetManyDoubleBufferConstants, TypeInv
<1>4. ASSUME NEW m \in Models, SwapModels(m) PROVE FALSE
  BY <1>4 DEF SwapModels, TypeInv
<1>5. CASE SwapConstantFolderBuffer \/ FoldInDoubleBuffer \/ FoldReturns \/ SwapRefused \/ SwapConstants
  BY <1>5 DEF SwapConstantFolderBuffer, FoldInDoubleBuffer, FoldReturns, SwapRefused, SwapConstants,
     TypeInv
<1>6. ASSUME \/ \E s \in Streams : DeviceExecutes(s)
             \/ FirstFold \/ FoldConstants
             \/ \E m \in Models : StartRun(m) \/ FinishCall(m)
             \/ \E C \in SUBSET Constants : \E D \in SUBSET C : SetManyConstants(C, D)
      PROVE  UNCHANGED <<updater, staged>>
  BY <1>6 DEF DeviceExecutes, FirstFold, FoldConstants, StartRun, FinishCall, SetManyConstants, tables
<1> QED
  BY <1>1, <1>2, <1>3, <1>4, <1>5, <1>6 DEF Next, vars, tables
----------------------------------------------------------------------------

\* While no update is under way, what is read is what was given, and is held.
LEMMA ReadIsHeld ==
  ASSUME Destroyed = {}, TypeInv, SessionInv, ReadInv, HeldInv, IdleStaged
  PROVE  SettledTensorsAreHeld
<1> SUFFICES ASSUME call = NoCall, updater.pc = "idle", NEW a \in InTables \cup Queued,
                    NEW c \in DOMAIN a \cap Constants, a[c] \in Versions
             PROVE  Held(c, a[c])
  BY DEF SettledTensorsAreHeld, Used, Held
<1>1. \A d \in Constants : Held(d, given[d])
  BY DEF HeldInv, StoreInv, NoCall
<1>2. \A b, d, v : Points(b, d, v) /\ b \in Versions => b = v
  BY ReadVersion DEF Points
<1>3. /\ effective["mu"] = given["mu"] /\ effective["mb"] = given["mb"]
  BY DEF HeldInv, GivenInv, ModelConstants
<1>4. CASE \E m \in Models : a = models[m]
  <2>1. PICK m \in Models : a = models[m]
    BY <1>4
  <2>2. /\ a \in [mu : Versions, mb : Addresses, output : Buffers]
        /\ a.mu = given["mu"] /\ Points(a.mb, "mb", given["mb"])
    BY <1>3, <2>1 DEF TypeInv, ReadInv, TableInv, ModelsInv
  <2>3. c \in {"mu", "mb"}
    BY <2>2 DEF Constants, ModelConstants, FolderConstants
  <2> QED
    BY <1>1, <1>2, <2>2, <2>3
<1>5. CASE a = folder
  <2>1. /\ a \in [fu : Versions, fb : Addresses, buffer : Buffers]
        /\ a.fu = given["fu"] /\ Points(a.fb, "fb", given["fb"])
    BY <1>5 DEF TypeInv, ReadInv, TableInv, FolderInv
  <2>2. c \in {"fu", "fb"}
    BY <2>1 DEF Constants, ModelConstants, FolderConstants
  <2> QED
    BY <1>1, <1>2, <2>1, <2>2
<1>6. CASE a = staged
  BY <1>6 DEF IdleStaged, NothingStaged
<1>7. ASSUME a \in Queued PROVE Held(c, a[c])
  <2>1. PICK s \in Streams : \E i \in DOMAIN queue[s] :
          a = IF queue[s][i].kind = "copy" THEN queue[s][i].values ELSE queue[s][i]
    BY <1>7 DEF Queued
  <2>2. PICK i \in DOMAIN queue[s] :
          a = IF queue[s][i].kind = "copy" THEN queue[s][i].values ELSE queue[s][i]
    BY <2>1
  <2>3. s = "infer"
    BY <2>2 DEF SessionInv, Streams
  <2>4. i \in DOMAIN Q /\ Q[i] \in InferWork /\ queue[s][i] = Q[i]
    BY <2>2, <2>3 DEF Q, TypeInv
  <2>5. Q[i].kind # "copy" /\ a = Q[i]
    BY <2>2, <2>4 DEF InferWork, FirstWork, SecondWork, AFold
  <2>6. CASE Q[i].kind = "first"
    <3>1. a \in FirstWork /\ a.mu = given["mu"] /\ Points(a.mb, "mb", given["mb"])
      BY <1>3, <2>4, <2>5, <2>6, Kinds DEF ReadInv, QueueInv, GoodFirst
    <3>2. c \in {"mu", "mb"}
      BY <3>1 DEF FirstWork, Constants, ModelConstants, FolderConstants
    <3> QED
      BY <1>1, <1>2, <3>1, <3>2
  <2>7. CASE Q[i].kind = "fold"
    <3>1. Pending({"fold"})
      BY <2>2, <2>3, <2>4, <2>7 DEF Pending
    <3>2. effective["fu"] = given["fu"] /\ effective["fb"] = given["fb"]
      BY <3>1 DEF HeldInv, GivenInv, FolderConstants
    <3>3. a \in AFold /\ a.fu = given["fu"] /\ Points(a.fb, "fb", given["fb"])
      BY <2>4, <2>5, <2>7, <3>2, Kinds DEF ReadInv, QueueInv, GoodFold
    <3>4. c \in {"fu", "fb"}
      BY <3>3 DEF AFold, Constants, ModelConstants, FolderConstants
    <3> QED
      BY <1>1, <1>2, <3>3, <3>4
  <2>8. CASE Q[i].kind = "second"
    <3>1. a \in SecondWork
      BY <2>4, <2>5, <2>8, Kinds
    <3> QED
      BY <3>1 DEF SecondWork, Constants, ModelConstants, FolderConstants
  <2> QED
    BY <2>4, <2>6, <2>7, <2>8 DEF InferWork, FirstWork, SecondWork, AFold
<1> QED
  BY <1>4, <1>5, <1>6, <1>7 DEF InTables

\* The class Model holds every tensor that anything reads while no update is
\* under way: no constant of the Models or of the folder, and nothing queued on
\* the device, points to a tensor that was dropped for a successor in use.  A successor
\* that Model or the container refused, in an update in place that failed half way,
\* is not in use.
THEOREM TensorsAreHeld ==
  ASSUME FoldFirst, SwapPolicy = "drained", Destroyed = {}
  PROVE  ModelSpec => []SettledTensorsAreHeld
<1>1. FoldFirst /\ SwapPolicy = "drained" /\ Destroyed = {}
  OBVIOUS
<1>2. Spec => [](TypeInv /\ SessionInv /\ FoldInv /\ GenerationInv)
  BY <1>1, AlwaysGenerationInv
<1>3. TypeInv /\ SessionInv /\ FoldInv /\ GenerationInv /\ ReadInv /\ [Next]_vars => ReadInv'
  BY <1>1, ReadStep
<1>4. Spec => []ReadInv
  BY <1>2, <1>3, ReadInit, PTL DEF Spec
<1>5. Init => IdleStaged
  BY DEF Init, IdleStaged
<1>6. Spec => []IdleStaged
  BY <1>2, <1>5, StagedStep, PTL DEF Spec
<1>7. TypeInv /\ FoldInv /\ ReadInv /\ HeldInv /\ [ModelNext]_allVars => HeldInv'
  BY <1>1, HeldStep
<1>8. ModelSpec => []HeldInv
  BY <1>2, <1>4, <1>7, HeldInit, ModelDrivesContainer, PTL DEF ModelSpec
<1>9. TypeInv /\ SessionInv /\ ReadInv /\ HeldInv /\ IdleStaged => SettledTensorsAreHeld
  BY <1>1, ReadIsHeld
<1> QED
  BY <1>2, <1>4, <1>6, <1>8, <1>9, ModelDrivesContainer, PTL
=============================================================================
