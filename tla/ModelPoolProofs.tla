--------------------------- MODULE ModelPoolProofs ---------------------------
(***************************************************************************)
(* Proofs about the pool of Models, for every number of Models, threads,   *)
(* streams, calls and failures.                                            *)
(***************************************************************************)
EXTENDS ModelPool, SequenceTheorems, TLAPS

----------------------------------------------------------------------------
(* Sequences as stacks and queues.                                         *)

\* A function on 1 .. n is a sequence.
LEMMA FunctionIsSequence ==
  ASSUME NEW S, NEW n \in Nat, NEW f \in [1 .. n -> S]
  PROVE  f \in Seq(S)
  BY SeqDef

\* push_back: the sequence gains one entry.
LEMMA PushBack ==
  ASSUME NEW S, NEW q \in Seq(S), NEW e \in S
  PROVE  /\ Append(q, e) \in Seq(S)
         /\ Range(Append(q, e)) = Range(q) \cup {e}
         /\ IsInjective(q) /\ e \notin Range(q) => IsInjective(Append(q, e))
<1>1. /\ Append(q, e) \in Seq(S) /\ Len(Append(q, e)) = Len(q) + 1
      /\ \A i \in 1 .. Len(q) : Append(q, e)[i] = q[i]
      /\ Append(q, e)[Len(q) + 1] = e
  BY AppendProperties
<1>2. /\ DOMAIN q = 1 .. Len(q) /\ Len(q) \in Nat
      /\ DOMAIN Append(q, e) = 1 .. Len(q) + 1
  BY <1>1, LenProperties
<1>3. Range(Append(q, e)) = Range(q) \cup {e}
  BY <1>1, <1>2 DEF Range
<1>4. IsInjective(q) /\ e \notin Range(q) => IsInjective(Append(q, e))
  BY <1>1, <1>2 DEF Range, IsInjective
<1>5. QED
  BY <1>1, <1>3, <1>4

\* pop_front: the sequence loses its first entry.
LEMMA PopFront ==
  ASSUME NEW S, NEW q \in Seq(S), q # <<>>
  PROVE  /\ Head(q) \in S /\ Tail(q) \in Seq(S)
         /\ Range(q) = Range(Tail(q)) \cup {Head(q)}
         /\ IsInjective(q) => IsInjective(Tail(q)) /\ Head(q) \notin Range(Tail(q))
<1>1. /\ Head(q) \in S /\ Tail(q) \in Seq(S)
      /\ Len(Tail(q)) = Len(q) - 1 /\ Head(q) = q[1]
      /\ \A i \in 1 .. Len(Tail(q)) : Tail(q)[i] = q[i + 1]
  BY HeadTailProperties
<1>2. /\ DOMAIN q = 1 .. Len(q) /\ Len(q) \in Nat \ {0}
      /\ DOMAIN Tail(q) = 1 .. Len(q) - 1
  BY <1>1, LenProperties, EmptySeq
<1>3. Range(q) = Range(Tail(q)) \cup {Head(q)}
  <2>1. ASSUME NEW i \in DOMAIN q PROVE q[i] \in Range(Tail(q)) \cup {Head(q)}
    <3>1. CASE i = 1
      BY <3>1, <1>1
    <3>2. CASE i # 1
      <4>1. i - 1 \in DOMAIN Tail(q) /\ Tail(q)[i - 1] = q[i]
        BY <3>2, <1>1, <1>2
      <4>2. QED BY <4>1 DEF Range
    <3>3. QED BY <3>1, <3>2
  <2>2. QED
    BY <2>1, <1>1, <1>2 DEF Range
<1>4. IsInjective(q) => IsInjective(Tail(q)) /\ Head(q) \notin Range(Tail(q))
  BY <1>1, <1>2 DEF Range, IsInjective
<1>5. QED
  BY <1>1, <1>3, <1>4

\* back and pop_back: the sequence loses its last entry.
LEMMA PopBack ==
  ASSUME NEW S, NEW q \in Seq(S), q # <<>>
  PROVE  /\ q[Len(q)] \in S /\ SubSeq(q, 1, Len(q) - 1) \in Seq(S)
         /\ Range(q) = Range(SubSeq(q, 1, Len(q) - 1)) \cup {q[Len(q)]}
         /\ IsInjective(q) => /\ IsInjective(SubSeq(q, 1, Len(q) - 1))
                              /\ q[Len(q)] \notin Range(SubSeq(q, 1, Len(q) - 1))
<1> DEFINE n    == Len(q)
           rest == SubSeq(q, 1, n - 1)
<1>1. /\ DOMAIN q = 1 .. n /\ n \in Nat \ {0}
      /\ \A i \in 1 .. n : q[i] \in S
  BY LenProperties, EmptySeq, ElementOfSeq
<1>2. /\ rest \in Seq(S) /\ Len(rest) = n - 1
      /\ \A i \in 1 .. n - 1 : rest[i] = q[i]
  BY <1>1, SubSeqProperties, Z3
<1>3. DOMAIN rest = 1 .. n - 1
  BY <1>2, LenProperties
<1> HIDE DEF n, rest
<1>4. Range(q) = Range(rest) \cup {q[n]}
  BY <1>1, <1>2, <1>3 DEF Range
<1>5. IsInjective(q) => IsInjective(rest) /\ q[n] \notin Range(rest)
  BY <1>1, <1>2, <1>3 DEF Range, IsInjective
<1>6. QED
  BY <1>1, <1>2, <1>4, <1>5 DEF n, rest

\* A permutation cut in two.
Front(q, p, k) == [i \in 1 .. k |-> q[p[i]]]
Back(q, p, k)  == [i \in 1 .. Len(q) - k |-> q[p[k + i]]]

\* Both parts are sequences.
LEMMA PartitionTypes ==
  ASSUME NEW S, NEW q \in Seq(S), NEW k \in 0 .. Len(q),
         NEW p \in Bijection(1 .. Len(q), 1 .. Len(q))
  PROVE  Front(q, p, k) \in Seq(S) /\ Back(q, p, k) \in Seq(S)
<1> DEFINE n == Len(q)
<1>1. /\ n \in Nat /\ k \in Nat /\ n - k \in Nat /\ k <= n
      /\ \A i \in 1 .. n : q[i] \in S
  BY LenProperties, ElementOfSeq
<1>2. \A i \in 1 .. n : p[i] \in 1 .. n
  BY DEF Bijection, Injection
<1> HIDE DEF n
<1>3. \A i \in 1 .. k : q[p[i]] \in S
  BY <1>1, <1>2
<1>4. \A i \in 1 .. n - k : q[p[k + i]] \in S
  BY <1>1, <1>2
<1>5. [i \in 1 .. k |-> q[p[i]]] \in Seq(S)
  BY <1>1, <1>3, FunctionIsSequence
<1>6. [i \in 1 .. n - k |-> q[p[k + i]]] \in Seq(S)
  BY <1>1, <1>4, FunctionIsSequence
<1>7. QED BY <1>5, <1>6 DEF n, Front, Back

\* Together they have the entries of the whole.
LEMMA Partition ==
  ASSUME NEW S, NEW q \in Seq(S), NEW k \in 0 .. Len(q),
         NEW p \in Bijection(1 .. Len(q), 1 .. Len(q))
  PROVE  /\ Range(Front(q, p, k)) \cup Range(Back(q, p, k)) = Range(q)
         /\ IsInjective(q) => /\ IsInjective(Front(q, p, k))
                              /\ IsInjective(Back(q, p, k))
                              /\ Range(Front(q, p, k)) \cap Range(Back(q, p, k)) = {}
<1> DEFINE n     == Len(q)
           front == Front(q, p, k)
           back  == Back(q, p, k)
<1>1. /\ DOMAIN q = 1 .. n /\ DOMAIN front = 1 .. k /\ DOMAIN back = 1 .. n - k
      /\ n \in Nat /\ k \in Nat /\ n - k \in Nat /\ k <= n
  BY LenProperties DEF Front, Back
<1>2. /\ \A i \in 1 .. n : p[i] \in 1 .. n
      /\ \A i, j \in 1 .. n : p[i] = p[j] => i = j
      /\ \A j \in 1 .. n : \E i \in 1 .. n : p[i] = j
  BY DEF Bijection, Injection, Surjection, IsInjective
<1>3. /\ \A i \in 1 .. k : front[i] = q[p[i]]
      /\ \A i \in 1 .. n - k : back[i] = q[p[k + i]]
  BY DEF Front, Back
<1> HIDE DEF n, front, back
<1>4. /\ \A i \in 1 .. k : i \in 1 .. n
      /\ \A i \in 1 .. n - k : k + i \in 1 .. n
  BY <1>1
<1>5. Range(front) \cup Range(back) \subseteq Range(q)
  <2>1. ASSUME NEW i \in DOMAIN front PROVE front[i] \in Range(q)
    <3>1. p[i] \in DOMAIN q /\ front[i] = q[p[i]]
      BY <1>1, <1>2, <1>3, <1>4
    <3>2. QED BY <3>1 DEF Range
  <2>2. ASSUME NEW i \in DOMAIN back PROVE back[i] \in Range(q)
    <3>1. p[k + i] \in DOMAIN q /\ back[i] = q[p[k + i]]
      BY <1>1, <1>2, <1>3, <1>4
    <3>2. QED BY <3>1 DEF Range
  <2>3. QED BY <2>1, <2>2 DEF Range
<1>6. ASSUME NEW j \in 1 .. n PROVE q[j] \in Range(front) \cup Range(back)
  <2>1. PICK i \in 1 .. n : p[i] = j
    BY <1>2
  <2>2. CASE i <= k
    <3>1. i \in 1 .. k
      BY <2>2, <1>1
    <3>2. i \in DOMAIN front /\ front[i] = q[j]
      BY <3>1, <2>1, <1>1, <1>3
    <3>3. QED BY <3>2 DEF Range
  <2>3. CASE i > k
    <3>1. i - k \in 1 .. n - k /\ k + (i - k) = i
      BY <2>3, <1>1
    <3>2. i - k \in DOMAIN back /\ back[i - k] = q[j]
      BY <3>1, <2>1, <1>1, <1>3
    <3>3. QED BY <3>2 DEF Range
  <2>4. QED BY <2>2, <2>3, <1>1
<1>7. Range(front) \cup Range(back) = Range(q)
  BY <1>1, <1>5, <1>6 DEF Range
<1>8. ASSUME IsInjective(q)
      PROVE  /\ IsInjective(front) /\ IsInjective(back)
             /\ Range(front) \cap Range(back) = {}
  <2>1. ASSUME NEW i \in 1 .. n, NEW j \in 1 .. n, q[p[i]] = q[p[j]]
        PROVE  i = j
    <3>1. p[i] \in DOMAIN q /\ p[j] \in DOMAIN q
      BY <1>1, <1>2
    <3>2. p[i] = p[j]
      BY <1>8, <2>1, <3>1 DEF IsInjective
    <3>3. QED BY <3>2, <1>2
  <2>2. IsInjective(front)
    BY <2>1, <1>1, <1>3, <1>4 DEF IsInjective
  <2>3. IsInjective(back)
    <3>1. ASSUME NEW i \in DOMAIN back, NEW j \in DOMAIN back, back[i] = back[j]
          PROVE  i = j
      <4>1. i \in 1 .. n - k /\ j \in 1 .. n - k
        BY <1>1
      <4>2. q[p[k + i]] = q[p[k + j]]
        BY <3>1, <4>1, <1>3
      <4>3. k + i = k + j
        BY <4>1, <4>2, <2>1, <1>4
      <4>4. QED BY <4>1, <4>3, <1>1
    <3>2. QED BY <3>1 DEF IsInjective
  <2>4. Range(front) \cap Range(back) = {}
    <3>1. SUFFICES ASSUME NEW x \in Range(front), x \in Range(back) PROVE FALSE
      OBVIOUS
    <3>2. PICK i \in 1 .. k : front[i] = x
      BY <1>1 DEF Range
    <3>3. PICK j \in 1 .. n - k : back[j] = x
      BY <3>1, <1>1 DEF Range
    <3>4. i = k + j
      BY <3>2, <3>3, <2>1, <1>3, <1>4
    <3>5. QED BY <3>4, <1>1
  <2>5. QED BY <2>2, <2>3, <2>4
<1>9. QED
  BY <1>7, <1>8 DEF front, back

----------------------------------------------------------------------------
(* Typing.                                                                 *)

\* The places of a call where the thread has a Model in its hands.
Holders == {"wait_one", "events", "holding", "iterating", "profiling", "push"}

HeldExactly == \A t \in Threads : pc[t] \in Holders <=> held[t] # NoModel

\* The loop counters are at least 1 while a loop may still use them.
Counting ==
  \A t \in Threads :
    pc[t] \notin {"idle", "join", "push", "notify", "sync", "drain"} => todo[t] # 0

TypeInv == TypeOK /\ HeldExactly /\ Counting

\* A Model is not the null pointer.
LEMMA ModelValues == NoModel \notin Models
  BY ConstantsAssumption DEF Models, NoModel

\* What a thread that takes a Model from a pool leaves behind.
LEMMA TakeBackTypes ==
  ASSUME TypeOK, NEW t \in Threads, pc[t] = "get" \/ pc[t] = "woken",
         NEW pool \in Seq(Models), TakeBack(t, pool)
  PROVE  /\ available' \in Seq(Models)
         /\ held' = [held EXCEPT ![t] = pool[Len(pool)]] /\ pool[Len(pool)] \in Models
         /\ pc' = [pc EXCEPT ![t] = AfterTake(t)]
         /\ AfterTake(t) \in {"events", "holding"}
  BY PopBack DEF TypeOK, TakeBack, Goto, AfterTake

\* Kernels queued by a thread keep the queues well typed.
LEMMA SubmitTypes ==
  ASSUME TypeOK, NEW t \in Threads, NEW m \in Models \cup {Folder},
         NEW recorded \in BOOLEAN, Submit(t, m, recorded)
  PROVE  queue' \in [Streams -> Seq(Work)]
<1> DEFINE earlier(s) == IF recorded THEN Overtaken(queue[s], m) ELSE queue[s]
           work == [model |-> m, by |-> t, latest |-> recorded]
<1>1. ASSUME NEW s \in Streams PROVE Overtaken(queue[s], m) \in Seq(Work)
  <2>1. /\ queue[s] \in Seq(Work) /\ Len(queue[s]) \in Nat
        /\ DOMAIN queue[s] = 1 .. Len(queue[s])
        /\ \A i \in 1 .. Len(queue[s]) : queue[s][i] \in Work
    BY LenProperties, ElementOfSeq DEF TypeOK
  <2>2. ASSUME NEW w \in Work
        PROVE  [w EXCEPT !.latest = w.latest /\ w.model # m] \in Work
    BY DEF Work
  <2>3. Overtaken(queue[s], m) \in [1 .. Len(queue[s]) -> Work]
    BY <2>1, <2>2 DEF Overtaken
  <2>4. QED BY <2>1, <2>3, FunctionIsSequence
<1>2. work \in Work
  BY DEF Work
<1>3. ASSUME NEW s \in Streams
      PROVE  earlier(s) \in Seq(Work) /\ Append(earlier(s), work) \in Seq(Work)
  <2>1. earlier(s) \in Seq(Work)
    BY <1>1 DEF TypeOK
  <2>2. QED BY <2>1, <1>2, PushBack
<1>4. queue' = [s \in Streams |-> IF s = stream[t] THEN Append(earlier(s), work)
                                                   ELSE earlier(s)]
  BY DEF Submit
<1> HIDE DEF earlier, work
<1>5. QED
  BY <1>3, <1>4

\* Every initial state satisfies the typing invariant.
LEMMA TypeInit == Init => TypeInv
<1> SUFFICES ASSUME Init PROVE TypeInv
  OBVIOUS
<1>1. available \in [1 .. NumModels -> Models] /\ NumModels \in Nat
  BY ConstantsAssumption DEF Init, Models
<1>2. available \in Seq(Models) /\ pending \in Seq(Models)
  BY <1>1, FunctionIsSequence, EmptySeq DEF Init
<1>3. queue \in [Streams -> Seq(Work)]
  BY EmptySeq DEF Init
<1>4. TypeOK
  BY <1>2, <1>3, ConstantsAssumption DEF Init, TypeOK, Labels
<1>5. HeldExactly /\ Counting
  BY DEF Init, HeldExactly, Counting, Holders
<1>6. QED
  BY <1>4, <1>5 DEF TypeInv

\* Every step preserves it.
LEMMA TypeStep == TypeInv /\ [Next]_vars => TypeInv'
<1> SUFFICES ASSUME TypeInv, [Next]_vars PROVE TypeInv'
  OBVIOUS
<1> USE ConstantsAssumption, ModelValues
<1> USE DEF TypeInv, TypeOK, HeldExactly, Counting, Holders, Labels,
            lists, mutex, call, history, vars, Goto
<1>1. ASSUME NEW s \in Streams, DeviceFinishes(s) PROVE TypeInv'
  BY <1>1, PopFront DEF DeviceFinishes
<1>2. ASSUME NEW t \in Threads, NEW o \in Ops, NEW s \in Streams, Call(t, o, s) PROVE TypeInv'
  BY <1>2 DEF Call, MaintOps
<1>3. ASSUME NEW t \in Threads, LockShared(t) PROVE TypeInv'
  <2>1. PICK l \in {"get", "spawn", "first_fold"} : pc' = [pc EXCEPT ![t] = l]
    BY <1>3, Zenon DEF LockShared
  <2>2. /\ pc[t] = "shared" /\ readers' \subseteq Threads
        /\ UNCHANGED <<lists, writer, folded, queue, call, held, todo, history, failures>>
    BY <1>3 DEF LockShared
  <2>3. QED BY <2>1, <2>2
<1>4. ASSUME NEW t \in Threads, LockUnique(t) PROVE TypeInv'
  <2>1. PICK l \in {"relock", "wait_models"} : pc' = [pc EXCEPT ![t] = l]
    BY <1>4, Zenon DEF LockUnique
  <2>2. /\ pc[t] \in {"unique", "first_fold"} /\ writer' \in {writer, t}
        /\ UNCHANGED <<lists, readers, folded, queue, call, held, todo, history, failures>>
    BY <1>4 DEF LockUnique
  <2>3. QED BY <2>1, <2>2
<1>5. ASSUME NEW t \in Threads, Relock(t) PROVE TypeInv'
  <2>1. PICK l \in {"get", "spawn"} : pc' = [pc EXCEPT ![t] = l]
    BY <1>5, Zenon DEF Relock
  <2>2. /\ pc[t] = "relock" /\ readers' \subseteq Threads
        /\ UNCHANGED <<lists, writer, folded, queue, call, held, todo, history, failures>>
    BY <1>5 DEF Relock
  <2>3. QED BY <2>1, <2>2
<1>6. ASSUME NEW t \in Threads, NEW i \in DOMAIN pending, WaitForAllModels(t, i) PROVE TypeInv'
  BY <1>6, PushBack, ElementOfSeq DEF WaitForAllModels
<1>7. ASSUME NEW t \in Threads, SetConstant(t) PROVE TypeInv'
  BY <1>7 DEF SetConstant, Quiesced
<1>8. ASSUME NEW t \in Threads, FoldConstants(t) PROVE TypeInv'
  <2>1. PICK l \in {"drain", "idle", "relock"} : pc' = [pc EXCEPT ![t] = l]
    BY <1>8, Zenon DEF FoldConstants, AfterFold
  <2>2. queue' \in [Streams -> Seq(Work)]
    BY <1>8, SubmitTypes DEF FoldConstants
  <2>3. /\ pc[t] = "wait_models" /\ folded' = TRUE /\ writer' = NoThread
        /\ op' \in [Threads -> Ops \cup {"none", "benchmark"}]
        /\ UNCHANGED <<lists, readers, stream, boss, held, todo, history, failures>>
    BY <1>8 DEF FoldConstants, Quiesced
  <2>4. QED BY <2>1, <2>2, <2>3
<1>9. ASSUME NEW t \in Threads, FoldThrows(t) PROVE TypeInv'
  <2>1. /\ pc[t] = "wait_models" /\ pc' = [pc EXCEPT ![t] = "idle"]
        /\ op' = [op EXCEPT ![t] = "none"] /\ writer' = NoThread /\ failures' = failures + 1
        /\ UNCHANGED <<lists, readers, folded, queue, stream, boss, held, todo, history>>
    BY <1>9 DEF FoldThrows, Quiesced, MayFail
  <2>2. QED BY <2>1
<1>10. ASSUME NEW t \in Threads, NEW workers \in SUBSET Threads, Spawn(t, workers) PROVE TypeInv'
  <2>1. /\ pc[t] = "spawn" /\ \A w \in workers : pc[w] = "idle"
        /\ pc' = [u \in Threads |-> IF u \in workers THEN "get"
                                    ELSE IF u = t THEN "join" ELSE pc[u]]
        /\ todo' = [u \in Threads |-> IF u \in workers THEN todo[t] ELSE todo[u]]
        /\ UNCHANGED <<lists, mutex, folded, queue, held, history, failures>>
    BY <1>10 DEF Spawn
  <2>2. /\ op' \in [Threads -> Ops \cup {"none", "benchmark"}]
        /\ boss' \in [Threads -> Threads \cup {NoThread}]
    BY <1>10 DEF Spawn
  <2>3. stream' \in [Threads -> Streams]
    BY <1>10 DEF Spawn
  <2>4. HeldExactly' /\ Counting'
    BY <2>1
  <2>5. pc' \in [Threads -> Labels] /\ todo' \in [Threads -> Nat]
    BY <2>1
  <2>6. QED BY <2>1, <2>2, <2>3, <2>4, <2>5
<1>11. ASSUME NEW t \in Threads, Join(t) PROVE TypeInv'
  BY <1>11 DEF Join, Return
<1>12. ASSUME NEW t \in Threads, TakeAvailable(t) PROVE TypeInv'
  <2>1. /\ pc[t] = "get" /\ TakeBack(t, available)
        /\ UNCHANGED <<pending, mutex, folded, queue, call, todo, history, failures>>
    BY <1>12 DEF TakeAvailable
  <2>2. /\ available' \in Seq(Models)
        /\ held' = [held EXCEPT ![t] = available[Len(available)]]
        /\ available[Len(available)] \in Models
        /\ pc' = [pc EXCEPT ![t] = AfterTake(t)]
        /\ AfterTake(t) \in {"events", "holding"}
    BY <2>1, TakeBackTypes
  <2>3. QED BY <2>1, <2>2
<1>13. ASSUME NEW t \in Threads, WaitForOldest(t) PROVE TypeInv'
  <2>1. /\ pc[t] \in {"woken", "get"}
        /\ UNCHANGED <<available, mutex, folded, queue, call, todo, history, failures>>
    BY <1>13 DEF WaitForOldest
  <2>2. CASE pending = <<>>
    <3>1. pc' = [pc EXCEPT ![t] = "asleep"] /\ UNCHANGED <<held, pending>>
      BY <1>13, <2>2 DEF WaitForOldest
    <3>2. QED BY <2>1, <3>1
  <2>3. CASE pending # <<>>
    <3>1. /\ pc' = [pc EXCEPT ![t] = "wait_one"]
          /\ held' = [held EXCEPT ![t] = Head(pending)] /\ pending' = Tail(pending)
      BY <1>13, <2>3 DEF WaitForOldest
    <3>2. Head(pending) \in Models /\ Tail(pending) \in Seq(Models)
      BY <2>3, PopFront
    <3>3. QED BY <2>1, <3>1, <3>2
  <2>4. QED BY <2>2, <2>3
<1>14. ASSUME NEW t \in Threads, OldestFinished(t) PROVE TypeInv'
  BY <1>14 DEF OldestFinished, AfterTake
<1>15. ASSUME NEW t \in Threads, CreateEvents(t) PROVE TypeInv'
  BY <1>15 DEF CreateEvents
<1>16. ASSUME NEW t \in Threads, ModelRun(t) PROVE TypeInv'
  <2>1. PICK l \in {"push", "iterating"} :
          pc' = [pc EXCEPT ![t] = l] /\ (l = "iterating" => todo[t] # 1)
    BY <1>16, Zenon DEF ModelRun
  <2>2. /\ pc[t] \in {"holding", "iterating"} /\ todo' = [todo EXCEPT ![t] = todo[t] - 1]
        /\ UNCHANGED <<lists, mutex, folded, call, held, history, failures>>
    BY <1>16 DEF ModelRun
  <2>3. queue' \in [Streams -> Seq(Work)]
    <3>1. held[t] \in Models
      BY <2>2
    <3>2. Submit(t, held[t], TRUE)
      BY <1>16 DEF ModelRun
    <3>3. QED BY <3>1, <3>2, SubmitTypes
  <2>4. todo[t] \in Nat \ {0}
    BY <2>2
  <2>5. pc' \in [Threads -> Labels] /\ todo' \in [Threads -> Nat]
    BY <2>1, <2>2, <2>4
  <2>6. HeldExactly'
    BY <2>1, <2>2
  <2>7. Counting'
    BY <2>1, <2>2, <2>4
  <2>8. QED BY <2>2, <2>3, <2>5, <2>6, <2>7
<1>17. ASSUME NEW t \in Threads, ModelProfile(t) PROVE TypeInv'
  BY <1>17, SubmitTypes DEF ModelProfile
<1>18. ASSUME NEW t \in Threads, Profiled(t) PROVE TypeInv'
  BY <1>18 DEF Profiled
<1>19. ASSUME NEW t \in Threads, PushPending(t) PROVE TypeInv'
  BY <1>19, PushBack DEF PushPending
<1>20. ASSUME NEW t \in Threads, NotifyOne(t) PROVE TypeInv'
  <2>1. PICK next \in {"sync", "drain", "idle"}, woken \in Threads \cup {NoThread} :
          /\ pc' = [u \in Threads |-> IF u = t THEN next
                                      ELSE IF u = woken THEN "woken" ELSE pc[u]]
          /\ woken \in Threads => pc[woken] = "asleep"
    <3>1. PICK woken \in IF Sleepers = {} THEN {NoThread} ELSE Sleepers :
            pc' = [u \in Threads |-> IF u = t THEN AfterNotify(t)
                                     ELSE IF u = woken THEN "woken" ELSE pc[u]]
      BY <1>20, Zenon DEF NotifyOne
    <3>2. AfterNotify(t) \in {"sync", "drain", "idle"}
      BY DEF AfterNotify
    <3>3. /\ woken \in Threads \cup {NoThread}
          /\ woken \in Threads => pc[woken] = "asleep"
      BY <3>1 DEF Sleepers
    <3>4. QED BY <3>1, <3>2, <3>3, Zenon
  <2>2. /\ pc[t] = "notify" /\ readers' \subseteq Threads
        /\ op' \in [Threads -> Ops \cup {"none", "benchmark"}]
        /\ UNCHANGED <<lists, writer, folded, queue, stream, boss, held, todo, history,
                       failures>>
    BY <1>20 DEF NotifyOne, RunReturns
  <2>3. QED BY <2>1, <2>2
<1>21. ASSUME NEW t \in Threads, StreamDone(t) PROVE TypeInv'
  BY <1>21 DEF StreamDone, Return
<1>22. ASSUME NEW t \in Threads, WaitThrows(t) PROVE TypeInv'
  BY <1>22, PushBack DEF WaitThrows, GiveBack, Return, MayFail
<1>23. ASSUME NEW t \in Threads, PrepareThrows(t) PROVE TypeInv'
  BY <1>23, PushBack DEF PrepareThrows, GiveBack, Return, MayFail
<1>24. ASSUME NEW t \in Threads, RunThrows(t) PROVE TypeInv'
  <2>1. /\ pc[t] \in {"holding", "iterating"} /\ held[t] \in Models
        /\ UNCHANGED <<pending, folded, todo, history>> /\ failures' \in Nat
    BY <1>24 DEF RunThrows, MayFail
  <2>2. queue' \in [Streams -> Seq(Work)]
    BY <1>24, <2>1, SubmitTypes DEF RunThrows
  <2>3. /\ held' = [held EXCEPT ![t] = NoModel] /\ pc' = [pc EXCEPT ![t] = "idle"]
        /\ available' = Append(available, held[t])
        /\ op' = [op EXCEPT ![t] = "none"] /\ boss' = [boss EXCEPT ![t] = NoThread]
        /\ readers' = readers \ {t} /\ UNCHANGED <<stream, writer>>
    BY <1>24 DEF RunThrows, GiveBack, Return
  <2>4. available' \in Seq(Models)
    BY <2>1, <2>3, PushBack
  <2>5. QED BY <2>1, <2>2, <2>3, <2>4
<1>25. ASSUME NEW t \in Threads, CreateEventThrows(t) PROVE TypeInv'
  BY <1>25 DEF CreateEventThrows, Return, MayFail
<1>26. ASSUME NEW t \in Threads, SpuriousWakeup(t) PROVE TypeInv'
  BY <1>26 DEF SpuriousWakeup
<1>27. ASSUME NEW t \in Threads, TakeFinished(t) PROVE TypeInv'
  <2>1. PICK k \in 0 .. Len(pending), p \in Bijection(DOMAIN pending, DOMAIN pending) :
          pending' = Unfinished(p, k) /\ TakeBack(t, Finished(p, k))
    BY <1>27, Zenon DEF TakeFinished
  <2>2. Unfinished(p, k) \in Seq(Models) /\ Finished(p, k) \in Seq(Models)
    <3>1. DOMAIN pending = 1 .. Len(pending)
      BY LenProperties
    <3>2. QED BY <3>1, PartitionTypes DEF Unfinished, Finished, Front, Back
  <2>3. /\ pc[t] = "get"
        /\ UNCHANGED <<mutex, folded, queue, call, todo, history, failures>>
    BY <1>27 DEF TakeFinished
  <2>4. /\ available' \in Seq(Models)
        /\ \E m \in Models : held' = [held EXCEPT ![t] = m]
        /\ pc' = [pc EXCEPT ![t] = AfterTake(t)]
        /\ AfterTake(t) \in {"events", "holding"}
    BY <2>1, <2>2, <2>3, TakeBackTypes
  <2>5. QED BY <2>1, <2>2, <2>3, <2>4
<1>28. CASE UNCHANGED vars
  BY <1>28
<1>29. QED
  BY <1>1, <1>2, <1>3, <1>4, <1>5, <1>6, <1>7, <1>8, <1>9, <1>10, <1>11, <1>12, <1>13, <1>14, <1>15, <1>16, <1>17, <1>18, <1>19, <1>20, <1>21, <1>22, <1>23, <1>24, <1>25, <1>26, <1>27, <1>28 DEF Next, Step, Throw

\* The pool is well typed in every reachable state.
THEOREM TypeCorrect == Spec => []TypeOK
<1>1. Spec => []TypeInv
  BY TypeInit, TypeStep, PTL DEF Spec
<1>2. TypeInv => TypeOK
  BY DEF TypeInv
<1>3. QED
  BY <1>1, <1>2, PTL

----------------------------------------------------------------------------
(* One owner: maintenance is over before pending_models_ has an entry, so  *)
(* WaitForAllModels never copies one.                                      *)

\* Behind the check of constant_folded_once_.
Inside == Holders \cup {"spawn", "join", "get", "asleep", "woken"}

\* Nobody is past that check before the first fold.
FoldedFirst ==
  /\ FoldedAtStart => folded
  /\ ~folded => pending = <<>> /\ \A t \in Threads : pc[t] \notin Inside \cup {"relock"}

\* Maintenance calls are over before the first inference call.
MaintenanceFirst ==
  /\ ~serving => /\ pending = <<>>
                 /\ \A t \in Threads :
                      pc[t] \notin Inside \cup {"relock", "shared", "first_fold"}
  /\ \A t \in Threads :
       /\ op[t] \in MaintOps => ~serving /\ pc[t] \in {"unique", "wait_models", "drain"}
       /\ pc[t] = "unique" => op[t] \in MaintOps

\* Who waits for all Models has the mutex; an inference does so once.
Exclusive ==
  \A t \in Threads : pc[t] = "wait_models" =>
    writer = t /\ (op[t] \notin MaintOps => ~folded /\ serving)

Ordered == FoldedFirst /\ MaintenanceFirst /\ Exclusive

OwnerInv == TypeInv /\ Ordered /\ OneOwner

LEMMA OrderedInit == Init => Ordered
  BY DEF Init, Ordered, FoldedFirst, MaintenanceFirst, Exclusive, Inside, Holders,
         MaintOps

\* The order of maintenance, first fold and inference is kept by every step.
LEMMA OrderedStep ==
  ASSUME ~LiveUpdates
  PROVE  TypeInv /\ Ordered /\ [Next]_vars => Ordered'
<1> SUFFICES ASSUME TypeInv, Ordered, [Next]_vars PROVE Ordered'
  OBVIOUS
<1> USE ConstantsAssumption
<1> USE DEF TypeInv, TypeOK, Ordered, FoldedFirst, MaintenanceFirst, Exclusive, Inside,
            Holders, lists, mutex, call, history, vars, Goto
<1>1. ASSUME NEW s \in Streams, DeviceFinishes(s) PROVE Ordered'
  BY <1>1 DEF DeviceFinishes
<1>2. ASSUME NEW t \in Threads, NEW o \in Ops, NEW s \in Streams, Call(t, o, s) PROVE Ordered'
  BY <1>2, ProfileAssumption DEF Call, MaintOps, Admissible
<1>3. ASSUME NEW t \in Threads, LockShared(t) PROVE Ordered'
  BY <1>3 DEF LockShared
<1>4. ASSUME NEW t \in Threads, LockUnique(t) PROVE Ordered'
  <2>1. /\ pc[t] \in {"unique", "first_fold"} /\ writer = NoThread
        /\ UNCHANGED <<lists, readers, folded, queue, call, held, todo, history, failures>>
    BY <1>4 DEF LockUnique
  <2>2. CASE pc[t] = "first_fold" /\ folded
    BY <1>4, <2>1, <2>2 DEF LockUnique
  <2>3. CASE ~(pc[t] = "first_fold" /\ folded)
    <3>1. pc' = [pc EXCEPT ![t] = "wait_models"] /\ writer' = t
      BY <1>4, <2>3 DEF LockUnique
    <3>2. op[t] \notin MaintOps => ~folded /\ serving
      BY <2>1, <2>3
    <3>3. QED BY <2>1, <3>1, <3>2
  <2>4. QED BY <2>2, <2>3
<1>5. ASSUME NEW t \in Threads, Relock(t) PROVE Ordered'
  BY <1>5 DEF Relock
<1>6. ASSUME NEW t \in Threads, NEW i \in DOMAIN pending, WaitForAllModels(t, i) PROVE Ordered'
  BY <1>6 DEF WaitForAllModels
<1>7. ASSUME NEW t \in Threads, SetConstant(t) PROVE Ordered'
  BY <1>7 DEF SetConstant, Quiesced, MaintOps
<1>8. ASSUME NEW t \in Threads, FoldConstants(t) PROVE Ordered'
  BY <1>8 DEF FoldConstants, Quiesced, AfterFold, MaintOps
<1>9. ASSUME NEW t \in Threads, FoldThrows(t) PROVE Ordered'
  BY <1>9 DEF FoldThrows, Quiesced, MayFail, MaintOps
<1>10. ASSUME NEW t \in Threads, NEW workers \in SUBSET Threads, Spawn(t, workers) PROVE Ordered'
  BY <1>10 DEF Spawn, MaintOps
<1>11. ASSUME NEW t \in Threads, Join(t) PROVE Ordered'
  BY <1>11 DEF Join, Return, MaintOps
<1>12. ASSUME NEW t \in Threads, TakeAvailable(t) PROVE Ordered'
  <2>1. /\ pc[t] = "get" /\ folded /\ serving
        /\ UNCHANGED <<mutex, folded, queue, call, todo, history, failures>>
    BY <1>12 DEF TakeAvailable
  <2>2. PICK l \in {"events", "holding"} : pc' = [pc EXCEPT ![t] = l]
    BY <1>12, Zenon DEF TakeAvailable, TakeBack, AfterTake
  <2>3. QED BY <2>1, <2>2
<1>13. ASSUME NEW t \in Threads, WaitForOldest(t) PROVE Ordered'
  BY <1>13 DEF WaitForOldest
<1>14. ASSUME NEW t \in Threads, OldestFinished(t) PROVE Ordered'
  BY <1>14 DEF OldestFinished, AfterTake
<1>15. ASSUME NEW t \in Threads, CreateEvents(t) PROVE Ordered'
  BY <1>15 DEF CreateEvents
<1>16. ASSUME NEW t \in Threads, ModelRun(t) PROVE Ordered'
  BY <1>16 DEF ModelRun
<1>17. ASSUME NEW t \in Threads, ModelProfile(t) PROVE Ordered'
  BY <1>17 DEF ModelProfile
<1>18. ASSUME NEW t \in Threads, Profiled(t) PROVE Ordered'
  BY <1>18 DEF Profiled
<1>19. ASSUME NEW t \in Threads, PushPending(t) PROVE Ordered'
  BY <1>19, PushBack DEF PushPending
<1>20. ASSUME NEW t \in Threads, NotifyOne(t) PROVE Ordered'
  BY <1>20 DEF NotifyOne, RunReturns, AfterNotify, WaitsForStream, Sleepers, MaintOps
<1>21. ASSUME NEW t \in Threads, StreamDone(t) PROVE Ordered'
  BY <1>21 DEF StreamDone, Return, MaintOps
<1>22. ASSUME NEW t \in Threads, WaitThrows(t) PROVE Ordered'
  BY <1>22 DEF WaitThrows, GiveBack, Return, MayFail, MaintOps
<1>23. ASSUME NEW t \in Threads, PrepareThrows(t) PROVE Ordered'
  BY <1>23 DEF PrepareThrows, GiveBack, Return, MayFail, MaintOps
<1>24. ASSUME NEW t \in Threads, RunThrows(t) PROVE Ordered'
  BY <1>24 DEF RunThrows, GiveBack, Return, MayFail, MaintOps
<1>25. ASSUME NEW t \in Threads, CreateEventThrows(t) PROVE Ordered'
  BY <1>25 DEF CreateEventThrows, Return, MayFail, MaintOps
<1>26. ASSUME NEW t \in Threads, SpuriousWakeup(t) PROVE Ordered'
  BY <1>26 DEF SpuriousWakeup
<1>27. ASSUME NEW t \in Threads, TakeFinished(t) PROVE Ordered'
  <2>1. /\ pc[t] = "get" /\ folded /\ serving
        /\ UNCHANGED <<mutex, folded, queue, call, todo, history, failures>>
    BY <1>27 DEF TakeFinished
  <2>2. PICK l \in {"events", "holding"} : pc' = [pc EXCEPT ![t] = l]
    BY <1>27, Zenon DEF TakeFinished, TakeBack, AfterTake
  <2>3. QED BY <2>1, <2>2
<1>28. CASE UNCHANGED vars
  BY <1>28
<1>29. QED
  BY <1>1, <1>2, <1>3, <1>4, <1>5, <1>6, <1>7, <1>8, <1>9, <1>10, <1>11, <1>12, <1>13, <1>14, <1>15, <1>16, <1>17, <1>18, <1>19, <1>20, <1>21, <1>22, <1>23, <1>24, <1>25, <1>26, <1>27, <1>28 DEF Next, Step, Throw

\* Popping a Model from a pool keeps owners apart.
LEMMA TakeBackOwner ==
  ASSUME TypeInv, NEW t \in Threads, NEW pool \in Seq(Models), TakeBack(t, pool),
         IsInjective(pool), IsInjective(pending'), Range(pool) \cap Range(pending') = {},
         \A u \in Threads : held[u] \notin Range(pool) \cup Range(pending'),
         \A u, v \in Threads : held[u] = held[v] /\ held[u] # NoModel => u = v
  PROVE  OneOwner'
<1> DEFINE m == pool[Len(pool)]
<1>1. /\ held' = [held EXCEPT ![t] = m] /\ pool # <<>>
      /\ available' = SubSeq(pool, 1, Len(pool) - 1)
  BY DEF TakeBack
<1>2. /\ Range(pool) = Range(available') \cup {m}
      /\ IsInjective(available') /\ m \notin Range(available')
  BY <1>1, PopBack
<1> HIDE DEF m
<1>3. \A u \in Threads : held'[u] = IF u = t THEN m ELSE held[u]
  BY <1>1 DEF TypeInv, TypeOK
<1>4. m \in Range(pool) /\ m \notin Range(pending')
  BY <1>2
<1>5. Range(available') \cap Range(pending') = {}
  BY <1>2
<1>6. ASSUME NEW u \in Threads
      PROVE  held'[u] \notin Range(available') \cup Range(pending')
  BY <1>2, <1>3, <1>4
<1>7. ASSUME NEW u \in Threads, NEW v \in Threads, held'[u] = held'[v], held'[u] # NoModel
      PROVE  u = v
  BY <1>3, <1>4, <1>7
<1>8. QED
  BY <1>2, <1>5, <1>6, <1>7, Zenon DEF OneOwner

\* Whoever gives a Model to the end of a list keeps owners apart.
LEMMA GiveOwner ==
  ASSUME TypeInv, OneOwner, NEW t \in Threads, held[t] \in Models,
         held' = [held EXCEPT ![t] = NoModel],
         \/ available' = Append(available, held[t]) /\ pending' = pending
         \/ pending' = Append(pending, held[t]) /\ available' = available
  PROVE  OneOwner'
<1>1. \A u \in Threads : held'[u] = IF u = t THEN NoModel ELSE held[u]
  BY DEF TypeInv, TypeOK
<1>2. /\ available \in Seq(Models) /\ pending \in Seq(Models)
      /\ held[t] \notin Range(available) /\ held[t] \notin Range(pending)
  BY DEF TypeInv, TypeOK, OneOwner
<1>3. /\ IsInjective(available') /\ IsInjective(pending')
      /\ Range(available') \cap Range(pending') = {}
      /\ Range(available') \cup Range(pending')
           = Range(available) \cup Range(pending) \cup {held[t]}
  <2>1. CASE available' = Append(available, held[t]) /\ pending' = pending
    BY <2>1, <1>2, PushBack DEF OneOwner
  <2>2. CASE pending' = Append(pending, held[t]) /\ available' = available
    BY <2>2, <1>2, PushBack DEF OneOwner
  <2>3. QED BY <2>1, <2>2
<1>4. ASSUME NEW q \in Seq(Models) PROVE NoModel \notin Range(q)
  <2>1. \A i \in DOMAIN q : q[i] \in Models
    BY LenProperties, ElementOfSeq
  <2>2. QED BY <2>1, ModelValues DEF Range
<1>5. NoModel \notin Range(available') \cup Range(pending')
  BY <1>2, <1>3, <1>4, ModelValues
<1>6. ASSUME NEW u \in Threads
      PROVE  held'[u] \notin Range(available') \cup Range(pending')
  <2>1. CASE u = t
    BY <2>1, <1>1, <1>5
  <2>2. CASE u # t
    <3>1. held'[u] = held[u] /\ held[u] \notin Range(available) \cup Range(pending)
      BY <2>2, <1>1 DEF OneOwner
    <3>2. held[u] # held[t]
      BY <2>2, ModelValues DEF OneOwner
    <3>3. QED BY <3>1, <3>2, <1>3
  <2>3. QED BY <2>1, <2>2
<1>7. ASSUME NEW u \in Threads, NEW v \in Threads, held'[u] = held'[v], held'[u] # NoModel
      PROVE  u = v
  BY <1>1, <1>7 DEF OneOwner
<1>8. QED
  BY <1>3, <1>6, <1>7, Zenon DEF OneOwner

\* Every step keeps owners apart.
LEMMA OwnerStep ==
  ASSUME ~LiveUpdates
  PROVE  OwnerInv /\ [Next]_vars => OneOwner'
<1> SUFFICES ASSUME OwnerInv, [Next]_vars PROVE OneOwner'
  OBVIOUS
<1>1. /\ available \in Seq(Models) /\ pending \in Seq(Models)
      /\ \A t \in Threads : pc[t] \in Holders => held[t] \in Models
      /\ \A t \in Threads : held[t] \in Models \cup {NoModel}
      /\ OneOwner
  BY ModelValues DEF OwnerInv, TypeInv, TypeOK, HeldExactly
<1>2. ASSUME UNCHANGED <<lists, held>> PROVE OneOwner'
  BY <1>1, <1>2 DEF OneOwner, lists
<1>3. ASSUME NEW t \in Threads, TakeAvailable(t) PROVE OneOwner'
  <2>1. TakeBack(t, available) /\ pending' = pending
    BY <1>3 DEF TakeAvailable
  <2>2. QED BY <2>1, <1>1, TakeBackOwner DEF OneOwner, OwnerInv
<1>4. ASSUME NEW t \in Threads, TakeFinished(t) PROVE OneOwner'
  <2>1. PICK k \in 0 .. Len(pending), p \in Bijection(DOMAIN pending, DOMAIN pending) :
          pending' = Unfinished(p, k) /\ TakeBack(t, Finished(p, k))
    BY <1>4, Zenon DEF TakeFinished
  <2>2. DOMAIN pending = 1 .. Len(pending) /\ Len(pending) \in Nat
    BY <1>1, LenProperties
  <2>3. /\ p \in Bijection(1 .. Len(pending), 1 .. Len(pending))
        /\ Unfinished(p, k) = Front(pending, p, k) /\ Finished(p, k) = Back(pending, p, k)
    BY <2>2 DEF Unfinished, Finished, Front, Back
  <2>4. Unfinished(p, k) \in Seq(Models) /\ Finished(p, k) \in Seq(Models)
    BY <1>1, <2>3, PartitionTypes
  <2>5. /\ Range(Unfinished(p, k)) \cup Range(Finished(p, k)) = Range(pending)
        /\ IsInjective(Unfinished(p, k)) /\ IsInjective(Finished(p, k))
        /\ Range(Unfinished(p, k)) \cap Range(Finished(p, k)) = {}
    BY <1>1, <2>3, Partition DEF OneOwner
  <2>6. QED BY <2>1, <2>4, <2>5, <1>1, TakeBackOwner DEF OneOwner, OwnerInv
<1>5. ASSUME NEW t \in Threads, WaitForOldest(t) PROVE OneOwner'
  <2>1. CASE pending = <<>>
    BY <1>5, <2>1, <1>2 DEF WaitForOldest, lists
  <2>2. CASE pending # <<>>
    <3>1. /\ held' = [held EXCEPT ![t] = Head(pending)] /\ pending' = Tail(pending)
          /\ available' = available
      BY <1>5, <2>2 DEF WaitForOldest
    <3>2. /\ Range(pending) = Range(pending') \cup {Head(pending)}
          /\ IsInjective(pending') /\ Head(pending) \notin Range(pending')
      BY <3>1, <2>2, <1>1, PopFront DEF OneOwner
    <3>3. \A u \in Threads : held'[u] = IF u = t THEN Head(pending) ELSE held[u]
      BY <3>1 DEF OwnerInv, TypeInv, TypeOK
    <3>4. ASSUME NEW u \in Threads
          PROVE  held'[u] \notin Range(available') \cup Range(pending')
      BY <3>1, <3>2, <3>3, <1>1 DEF OneOwner
    <3>5. ASSUME NEW u \in Threads, NEW v \in Threads,
                 held'[u] = held'[v], held'[u] # NoModel
          PROVE  u = v
      BY <3>2, <3>3, <3>5, <1>1 DEF OneOwner
    <3>6. IsInjective(available') /\ Range(available') \cap Range(pending') = {}
      BY <3>1, <3>2, <1>1 DEF OneOwner
    <3>7. QED BY <3>2, <3>4, <3>5, <3>6, Zenon DEF OneOwner
  <2>3. QED BY <2>1, <2>2
<1>6. ASSUME NEW t \in Threads, PushPending(t) PROVE OneOwner'
  <2>1. /\ pc[t] = "push" /\ available' = available
        /\ pending' = Append(pending, held[t]) /\ held' = [held EXCEPT ![t] = NoModel]
    BY <1>6 DEF PushPending
  <2>2. QED BY <2>1, <1>1, GiveOwner DEF Holders, OwnerInv
<1>7. ASSUME NEW t \in Threads, pc[t] \in Holders, GiveBack(t), pending' = pending
      PROVE  OneOwner'
  BY <1>1, <1>7, GiveOwner DEF GiveBack, OwnerInv
<1>8. ASSUME NEW t \in Threads, CreateEventThrows(t) PROVE OneOwner'
  <2>1. held' = [held EXCEPT ![t] = NoModel] /\ UNCHANGED lists
    BY <1>8 DEF CreateEventThrows
  <2>2. \A u \in Threads : held'[u] = IF u = t THEN NoModel ELSE held[u]
    BY <2>1 DEF OwnerInv, TypeInv, TypeOK
  <2>3. ASSUME NEW q \in Seq(Models) PROVE NoModel \notin Range(q)
    <3>1. \A i \in DOMAIN q : q[i] \in Models
      BY LenProperties, ElementOfSeq
    <3>2. QED BY <3>1, ModelValues DEF Range
  <2>4. QED BY <2>1, <2>2, <2>3, <1>1 DEF OneOwner, lists
<1>9. ASSUME NEW t \in Threads, NEW i \in DOMAIN pending, WaitForAllModels(t, i)
      PROVE  FALSE
  <2>1. pc[t] = "wait_models" /\ pending # <<>>
    BY <1>9, <1>1, LenProperties DEF WaitForAllModels
  <2>2. QED
    BY <2>1 DEF OwnerInv, Ordered, Exclusive, FoldedFirst, MaintenanceFirst
<1>10. ASSUME NEW t \in Threads, Throw(t) PROVE OneOwner'
  BY <1>10, <1>2, <1>7, <1>8
     DEF Throw, FoldThrows, WaitThrows, PrepareThrows, RunThrows, Holders, lists
<1>11. ASSUME NEW t \in Threads, Step(t) PROVE OneOwner'
  BY <1>11, <1>2, <1>3, <1>4, <1>5, <1>6, <1>9
     DEF Step, LockShared, LockUnique, Relock, SetConstant, FoldConstants, Spawn, Join,
         OldestFinished, CreateEvents, ModelRun, ModelProfile, Profiled, NotifyOne,
         RunReturns, StreamDone
<1>12. CASE UNCHANGED vars
  BY <1>12, <1>2 DEF vars
<1>13. QED
  BY <1>2, <1>10, <1>11, <1>12 DEF Next, Call, SpuriousWakeup, DeviceFinishes

\* Who owns what, as a fact about all states.
LEMMA AlwaysOwnerInv ==
  ASSUME ~LiveUpdates
  PROVE  Spec => []OwnerInv
<1>1. Init => OwnerInv
  <2>1. Init => OneOwner
    <3> SUFFICES ASSUME Init PROVE OneOwner
      OBVIOUS
    <3>1. /\ IsInjective(available) /\ Range(available) = Models
          /\ pending = <<>> /\ \A t \in Threads : held[t] = NoModel
      BY ConstantsAssumption DEF Init, IsInjective, Range, Models
    <3>2. QED BY <3>1, ModelValues DEF OneOwner, IsInjective, Range
  <2>2. QED BY <2>1, TypeInit, OrderedInit DEF OwnerInv
<1>2. OwnerInv /\ [Next]_vars => OwnerInv'
  BY TypeStep, OrderedStep, OwnerStep DEF OwnerInv
<1> QED
  BY <1>1, <1>2, PTL DEF Spec

\* Without live updates a Model never has two owners, whatever fails.
THEOREM OneOwnerCorrect ==
  ASSUME ~LiveUpdates
  PROVE  Spec => []OneOwner
<1>1. OwnerInv => OneOwner
  BY DEF OwnerInv
<1>2. QED
  BY <1>1, AlwaysOwnerInv, PTL

----------------------------------------------------------------------------
(* No Model is lost, even with live updates.                               *)

\* The Models in somebody's hands, before and after one thread's hands change.
LEMMA HeldRange ==
  ASSUME TypeOK, NEW t \in Threads, NEW m, held' = [held EXCEPT ![t] = m]
  PROVE  /\ m \in Range(held')
         /\ Range(held) \subseteq Range(held') \cup {held[t]}
  BY DEF TypeOK, Range

\* Every step but a failing CreateEvent keeps all the Models.
LEMMA LostStep ==
  ASSUME "event" \notin FailureKinds
  PROVE  TypeInv /\ NoModelLost /\ [Next]_vars => NoModelLost'
<1> SUFFICES ASSUME TypeInv, NoModelLost, [Next]_vars PROVE NoModelLost'
  OBVIOUS
<1>1. /\ available \in Seq(Models) /\ pending \in Seq(Models) /\ TypeOK
      /\ \A t \in Threads : pc[t] \in Holders => held[t] \in Models
      /\ \A t \in Threads : pc[t] \notin Holders => held[t] = NoModel
      /\ Models \subseteq Range(available) \cup Range(pending) \cup Range(held)
  BY ModelValues DEF TypeInv, TypeOK, HeldExactly, NoModelLost
<1>2. ASSUME UNCHANGED <<lists, held>> PROVE NoModelLost'
  BY <1>1, <1>2 DEF NoModelLost, lists
<1>3. ASSUME NEW t \in Threads, pc[t] = "get", NEW pool \in Seq(Models),
             TakeBack(t, pool),
             Range(pool) \cup Range(pending') = Range(available) \cup Range(pending)
      PROVE  NoModelLost'
  <2>1. /\ held' = [held EXCEPT ![t] = pool[Len(pool)]] /\ pool # <<>>
        /\ available' = SubSeq(pool, 1, Len(pool) - 1)
    BY <1>3 DEF TakeBack
  <2>2. Range(pool) = Range(available') \cup {pool[Len(pool)]}
    BY <2>1, PopBack
  <2>3. pool[Len(pool)] \in Range(held') /\ Range(held) \subseteq Range(held') \cup {NoModel}
    BY <2>1, <1>1, <1>3, HeldRange DEF Holders
  <2>4. QED BY <2>2, <2>3, <1>1, <1>3, ModelValues DEF NoModelLost
<1>4. ASSUME NEW t \in Threads, TakeAvailable(t) PROVE NoModelLost'
  <2>1. TakeBack(t, available) /\ pending' = pending /\ pc[t] = "get"
    BY <1>4 DEF TakeAvailable
  <2>2. QED BY <2>1, <1>1, <1>3
<1>5. ASSUME NEW t \in Threads, TakeFinished(t) PROVE NoModelLost'
  <2>1. PICK k \in 0 .. Len(pending), p \in Bijection(DOMAIN pending, DOMAIN pending) :
          pending' = Unfinished(p, k) /\ TakeBack(t, Finished(p, k))
    BY <1>5, Zenon DEF TakeFinished
  <2>2. DOMAIN pending = 1 .. Len(pending)
    BY <1>1, LenProperties
  <2>3. /\ p \in Bijection(1 .. Len(pending), 1 .. Len(pending))
        /\ Unfinished(p, k) = Front(pending, p, k) /\ Finished(p, k) = Back(pending, p, k)
    BY <2>2 DEF Unfinished, Finished, Front, Back
  <2>4. /\ Finished(p, k) \in Seq(Models)
        /\ Range(Unfinished(p, k)) \cup Range(Finished(p, k)) = Range(pending)
    BY <1>1, <2>3, PartitionTypes, Partition
  <2>5. pc[t] = "get" /\ Range(available) = {}
    BY <1>5 DEF TakeFinished, Range
  <2>6. QED BY <2>1, <2>4, <2>5, <1>3
<1>6. ASSUME NEW t \in Threads, WaitForOldest(t) PROVE NoModelLost'
  <2>1. CASE pending = <<>>
    BY <1>6, <2>1, <1>2 DEF WaitForOldest, lists
  <2>2. CASE pending # <<>>
    <3>1. /\ held' = [held EXCEPT ![t] = Head(pending)] /\ pending' = Tail(pending)
          /\ available' = available /\ pc[t] \notin Holders
      BY <1>6, <2>2 DEF WaitForOldest, Holders
    <3>2. Range(pending) = Range(pending') \cup {Head(pending)}
      BY <3>1, <2>2, <1>1, PopFront
    <3>3. Head(pending) \in Range(held') /\ Range(held) \subseteq Range(held') \cup {NoModel}
      BY <3>1, <1>1, HeldRange
    <3>4. QED BY <3>1, <3>2, <3>3, <1>1, ModelValues DEF NoModelLost
  <2>3. QED BY <2>1, <2>2
<1>7. ASSUME NEW t \in Threads, pc[t] \in Holders,
             held' = [held EXCEPT ![t] = NoModel],
             \/ available' = Append(available, held[t]) /\ pending' = pending
             \/ pending' = Append(pending, held[t]) /\ available' = available
      PROVE  NoModelLost'
  <2>1. Range(held) \subseteq Range(held') \cup {held[t]}
    BY <1>1, <1>7, HeldRange
  <2>2. held[t] \in Models
    BY <1>1, <1>7
  <2>3. CASE available' = Append(available, held[t]) /\ pending' = pending
    <3>1. Range(available') = Range(available) \cup {held[t]}
      BY <2>2, <2>3, <1>1, PushBack
    <3>2. QED BY <3>1, <2>1, <2>3, <1>1 DEF NoModelLost
  <2>4. CASE pending' = Append(pending, held[t]) /\ available' = available
    <3>1. Range(pending') = Range(pending) \cup {held[t]}
      BY <2>2, <2>4, <1>1, PushBack
    <3>2. QED BY <3>1, <2>1, <2>4, <1>1 DEF NoModelLost
  <2>5. QED BY <2>3, <2>4, <1>7
<1>8. ASSUME NEW t \in Threads, PushPending(t) PROVE NoModelLost'
  BY <1>7, <1>8 DEF PushPending, Holders
<1>9. ASSUME NEW t \in Threads, pc[t] \in Holders, GiveBack(t), pending' = pending
      PROVE  NoModelLost'
  BY <1>7, <1>9 DEF GiveBack
<1>10. ASSUME NEW t \in Threads, NEW i \in DOMAIN pending, WaitForAllModels(t, i)
       PROVE  NoModelLost'
  <2>1. available' = Append(available, pending[i]) /\ UNCHANGED <<pending, held>>
    BY <1>10 DEF WaitForAllModels
  <2>2. pending[i] \in Models
    BY <1>1, LenProperties, ElementOfSeq
  <2>3. Range(available) \subseteq Range(available')
    BY <2>1, <2>2, <1>1, PushBack
  <2>4. QED BY <2>1, <2>3, <1>1 DEF NoModelLost
<1>11. ASSUME NEW t \in Threads, Throw(t) PROVE NoModelLost'
  BY <1>11, <1>2, <1>9
     DEF Throw, FoldThrows, WaitThrows, PrepareThrows, RunThrows, CreateEventThrows,
         MayFail, Holders, lists
<1>12. ASSUME NEW t \in Threads, Step(t) PROVE NoModelLost'
  BY <1>12, <1>2, <1>4, <1>5, <1>6, <1>8, <1>10
     DEF Step, LockShared, LockUnique, Relock, SetConstant, FoldConstants, Spawn, Join,
         OldestFinished, CreateEvents, ModelRun, ModelProfile, Profiled, NotifyOne,
         RunReturns, StreamDone
<1>13. CASE UNCHANGED vars
  BY <1>13, <1>2 DEF vars
<1>14. QED
  BY <1>2, <1>11, <1>12, <1>13 DEF Next, Call, SpuriousWakeup, DeviceFinishes

\* The pool keeps its num_models Models, with or without live updates and
\* whatever fails, as long as Benchmark gets its timing events.
THEOREM NoModelLostCorrect ==
  ASSUME "event" \notin FailureKinds
  PROVE  Spec => []NoModelLost
<1>1. Init => NoModelLost
  <2> SUFFICES ASSUME Init PROVE NoModelLost
    OBVIOUS
  <2>1. Range(available) = Models
    BY ConstantsAssumption DEF Init, Range, Models
  <2>2. QED BY <2>1 DEF NoModelLost
<1>2. QED
  BY <1>1, TypeInit, TypeStep, LostStep, PTL DEF Spec

----------------------------------------------------------------------------
(* No Model is used again while the device works on it.                    *)

\* After all work of a Model on a stream comes an event that was recorded last.
Covered(m) ==
  \A s \in Streams : \A i \in DOMAIN queue[s] : queue[s][i].model = m =>
    \E j \in DOMAIN queue[s] : j >= i /\ queue[s][j].model = m /\ queue[s][j].latest

\* All work of the Model that t holds is on t's stream, and is t's own.
OnItsStream(t) ==
  \A s \in Streams : \A i \in DOMAIN queue[s] : queue[s][i].model = held[t] => s = stream[t]

ItsOwn(t) ==
  \A s \in Streams : \A i \in DOMAIN queue[s] :
    queue[s][i].model = held[t] => s = stream[t] /\ queue[s][i].by = t

\* What a thread knows of the Model it holds.
SafeHold(t) ==
  /\ pc[t] \in {"wait_one", "iterating", "push"} => Covered(held[t])
  /\ pc[t] \in {"events", "holding"} => ~InFlight(held[t])
  /\ pc[t] = "iterating" => OnItsStream(t)
  /\ pc[t] = "profiling" => ItsOwn(t)

\* Models in the pool are idle, those that are pending wait for their event.
ReuseInv ==
  /\ \A m \in Range(available) : ~InFlight(m)
  /\ \A m \in Range(pending) : Covered(m)
  /\ \A t \in Threads : SafeHold(t)

\* The event of a covered Model answers for all of its work.
LEMMA CoveredIdle ==
  ASSUME NEW m, Covered(m) PROVE IsPending(m) \/ ~InFlight(m)
  BY DEF Covered, IsPending, InFlight

LEMMA IdleCovered ==
  ASSUME NEW m, ~InFlight(m) PROVE Covered(m)
  BY DEF Covered, InFlight

\* What Submit does to one stream.
LEMMA Submitted ==
  ASSUME TypeOK, NEW t \in Threads, NEW m \in Models \cup {Folder}, NEW recorded \in BOOLEAN,
         Submit(t, m, recorded), NEW s \in Streams
  PROVE  /\ \A i \in DOMAIN queue[s] :
              /\ i \in DOMAIN queue'[s] /\ queue'[s][i].model = queue[s][i].model
              /\ queue[s][i].model # m => queue'[s][i].latest = queue[s][i].latest
              /\ queue'[s][i].by = queue[s][i].by
         /\ \A i \in DOMAIN queue'[s] \ DOMAIN queue[s] :
              /\ s = stream[t] /\ \A j \in DOMAIN queue'[s] : i >= j
              /\ queue'[s][i] = [model |-> m, by |-> t, latest |-> recorded]
         /\ s = stream[t] => DOMAIN queue'[s] # DOMAIN queue[s]
<1> DEFINE e    == IF recorded THEN Overtaken(queue[s], m) ELSE queue[s]
           work == [model |-> m, by |-> t, latest |-> recorded]
<1>1. queue'[s] = IF s = stream[t] THEN Append(e, work) ELSE e
  BY DEF Submit
<1>2. /\ queue[s] \in Seq(Work) /\ Len(queue[s]) \in Nat
      /\ DOMAIN queue[s] = 1 .. Len(queue[s])
      /\ \A i \in 1 .. Len(queue[s]) : queue[s][i] \in Work
  BY LenProperties, ElementOfSeq DEF TypeOK
<1>3. /\ e \in Seq(Work) /\ DOMAIN e = DOMAIN queue[s]
      /\ \A i \in DOMAIN e : /\ e[i].model = queue[s][i].model /\ e[i].by = queue[s][i].by
                             /\ queue[s][i].model # m => e[i].latest = queue[s][i].latest
  <2>1. ASSUME NEW w \in Work, NEW o,
               o = [w EXCEPT !.latest = w.latest /\ w.model # m]
        PROVE  /\ o \in Work /\ o.model = w.model /\ o.by = w.by
               /\ w.model # m => o.latest = w.latest
    BY <2>1 DEF Work
  <2>2. /\ DOMAIN Overtaken(queue[s], m) = DOMAIN queue[s]
        /\ \A i \in DOMAIN queue[s] : Overtaken(queue[s], m)[i] =
             [queue[s][i] EXCEPT !.latest = queue[s][i].latest /\ queue[s][i].model # m]
    BY DEF Overtaken
  <2>3. Overtaken(queue[s], m) \in [1 .. Len(queue[s]) -> Work]
    BY <1>2, <2>1, <2>2 DEF Overtaken
  <2>4. Overtaken(queue[s], m) \in Seq(Work)
    BY <1>2, <2>3, FunctionIsSequence
  <2>5. \A i \in DOMAIN queue[s] :
          /\ Overtaken(queue[s], m)[i].model = queue[s][i].model
          /\ Overtaken(queue[s], m)[i].by = queue[s][i].by
          /\ queue[s][i].model # m => Overtaken(queue[s], m)[i].latest = queue[s][i].latest
    BY <1>2, <2>1, <2>2
  <2> QED
    BY <1>2, <2>2, <2>4, <2>5
<1>4. work \in Work
  BY DEF Work
<1> HIDE DEF e, work
<1>5. Len(e) = Len(queue[s])
  BY <1>2, <1>3, LenProperties
<1>6. CASE s # stream[t]
  BY <1>1, <1>3, <1>6
<1>7. CASE s = stream[t]
  <2>1. /\ DOMAIN queue'[s] = 1 .. Len(e) + 1 /\ queue'[s][Len(e) + 1] = work
        /\ \A i \in 1 .. Len(e) : queue'[s][i] = e[i]
    <3>1. /\ Append(e, work) \in Seq(Work) /\ Len(Append(e, work)) = Len(e) + 1
          /\ \A i \in 1 .. Len(e) : Append(e, work)[i] = e[i]
          /\ Append(e, work)[Len(e) + 1] = work
      BY <1>3, <1>4, AppendProperties
    <3>2. DOMAIN Append(e, work) = 1 .. Len(e) + 1
      BY <3>1, LenProperties
    <3> QED
      BY <1>1, <1>7, <3>1, <3>2
  <2>2. \A i \in DOMAIN queue[s] : i \in 1 .. Len(e) /\ i \in DOMAIN queue'[s] /\ queue'[s][i] = e[i]
    BY <1>2, <1>5, <2>1
  <2>3. \A i \in DOMAIN queue'[s] \ DOMAIN queue[s] : i = Len(e) + 1
    BY <1>2, <1>5, <2>1
  <2>4. \A j \in DOMAIN queue'[s] : Len(e) + 1 >= j
    BY <1>2, <1>5, <2>1
  <2>5. Len(e) + 1 \in DOMAIN queue'[s] /\ Len(e) + 1 \notin DOMAIN queue[s]
    BY <1>2, <1>5, <2>1
  <2> QED
    BY <1>3, <1>7, <2>1, <2>2, <2>3, <2>4, <2>5 DEF work
<1> QED
  BY <1>6, <1>7

\* Submit keeps the place and the Model of what is pending.
LEMMA SubmitKeeps ==
  ASSUME TypeOK, NEW t \in Threads, NEW m \in Models \cup {Folder}, NEW recorded \in BOOLEAN,
         Submit(t, m, recorded), NEW s \in Streams
  PROVE  \A i \in DOMAIN queue[s] :
           i \in DOMAIN queue'[s] /\ queue'[s][i].model = queue[s][i].model
<1>1. /\ \A i \in DOMAIN queue[s] :
           /\ i \in DOMAIN queue'[s] /\ queue'[s][i].model = queue[s][i].model
           /\ queue[s][i].model # m => queue'[s][i].latest = queue[s][i].latest
           /\ queue'[s][i].by = queue[s][i].by
      /\ \A i \in DOMAIN queue'[s] \ DOMAIN queue[s] :
           /\ s = stream[t] /\ \A j \in DOMAIN queue'[s] : i >= j
           /\ queue'[s][i] = [model |-> m, by |-> t, latest |-> recorded]
      /\ s = stream[t] => DOMAIN queue'[s] # DOMAIN queue[s]
  BY Submitted
<1> QED
  BY <1>1

\* What DeviceFinishes does to the streams.
LEMMA Popped ==
  ASSUME TypeOK, NEW s \in Streams, DeviceFinishes(s), NEW r \in Streams
  PROVE  /\ \A i \in DOMAIN queue'[r] : \E k \in {0, 1} :
              /\ i + k \in DOMAIN queue[r] /\ queue'[r][i] = queue[r][i + k]
              /\ \A j \in DOMAIN queue[r] : j >= i + k =>
                   j - k \in DOMAIN queue'[r] /\ queue'[r][j - k] = queue[r][j]
         /\ DOMAIN queue[r] \subseteq Int /\ DOMAIN queue'[r] \subseteq Int
<1>1. queue[s] # <<>> /\ queue' = [queue EXCEPT ![s] = Tail(@)]
  BY DEF DeviceFinishes
<1>2. /\ queue[r] \in Seq(Work) /\ DOMAIN queue[r] = 1 .. Len(queue[r]) /\ Len(queue[r]) \in Nat
  BY LenProperties DEF TypeOK
<1>3. CASE r # s
  <2>1. queue'[r] = queue[r]
    BY <1>1, <1>3 DEF TypeOK
  <2> QED
    BY <1>2, <2>1
<1>4. CASE r = s
  <2>1. queue'[r] = Tail(queue[r]) /\ queue[r] # <<>>
    BY <1>1, <1>4 DEF TypeOK
  <2>2. /\ Tail(queue[r]) \in Seq(Work) /\ Len(Tail(queue[r])) = Len(queue[r]) - 1
        /\ \A i \in 1 .. Len(Tail(queue[r])) : Tail(queue[r])[i] = queue[r][i + 1]
    BY <1>2, <2>1, HeadTailProperties
  <2>3. DOMAIN queue'[r] = 1 .. Len(queue[r]) - 1
    BY <2>1, <2>2, LenProperties
  <2>4. \A i \in DOMAIN queue'[r] : i + 1 \in DOMAIN queue[r] /\ queue'[r][i] = queue[r][i + 1]
    BY <1>2, <2>1, <2>2, <2>3
  <2>5. ASSUME NEW i \in DOMAIN queue'[r], NEW j \in DOMAIN queue[r], j >= i + 1
        PROVE  j - 1 \in DOMAIN queue'[r] /\ queue'[r][j - 1] = queue[r][j]
    <3>1. j - 1 \in DOMAIN queue'[r] /\ (j - 1) + 1 = j
      BY <1>2, <2>3, <2>5
    <3> QED
      BY <2>4, <3>1
  <2> QED
    BY <1>2, <2>3, <2>4, <2>5
<1> QED
  BY <1>3, <1>4

\* Another Model's kernels change nothing for Model n.
LEMMA SubmitAside ==
  ASSUME TypeOK, NEW t \in Threads, NEW m \in Models \cup {Folder}, NEW recorded \in BOOLEAN,
         Submit(t, m, recorded), NEW n, n # m
  PROVE  /\ Covered(n) => Covered(n)'
         /\ ~InFlight(n) => ~InFlight(n)'
         /\ \A s \in Streams : \A i \in DOMAIN queue'[s] : queue'[s][i].model = n =>
              i \in DOMAIN queue[s] /\ queue[s][i].model = n /\ queue[s][i].by = queue'[s][i].by
<1>0. ASSUME NEW s \in Streams
      PROVE  /\ \A i \in DOMAIN queue[s] :
                  /\ i \in DOMAIN queue'[s] /\ queue'[s][i].model = queue[s][i].model
                  /\ queue[s][i].model # m => queue'[s][i].latest = queue[s][i].latest
                  /\ queue'[s][i].by = queue[s][i].by
             /\ \A i \in DOMAIN queue'[s] \ DOMAIN queue[s] : queue'[s][i].model = m
  <2>1. /\ \A i \in DOMAIN queue[s] :
             /\ i \in DOMAIN queue'[s] /\ queue'[s][i].model = queue[s][i].model
             /\ queue[s][i].model # m => queue'[s][i].latest = queue[s][i].latest
             /\ queue'[s][i].by = queue[s][i].by
        /\ \A i \in DOMAIN queue'[s] \ DOMAIN queue[s] :
             queue'[s][i] = [model |-> m, by |-> t, latest |-> recorded]
    BY Submitted
  <2> QED
    BY <2>1
<1>1. ASSUME NEW s \in Streams, NEW i \in DOMAIN queue'[s], queue'[s][i].model = n
      PROVE  i \in DOMAIN queue[s] /\ queue[s][i].model = n /\ queue[s][i].by = queue'[s][i].by
  BY <1>0, <1>1
<1>2. ASSUME Covered(n), NEW s \in Streams, NEW i \in DOMAIN queue'[s], queue'[s][i].model = n
      PROVE  \E j \in DOMAIN queue'[s] : j >= i /\ queue'[s][j].model = n /\ queue'[s][j].latest
  <2>1. PICK j \in DOMAIN queue[s] : j >= i /\ queue[s][j].model = n /\ queue[s][j].latest
    BY <1>1, <1>2 DEF Covered
  <2> QED
    BY <1>0, <2>1
<1>3. Covered(n) => Covered(n)'
  BY <1>2 DEF Covered
<1>4. ~InFlight(n) => ~InFlight(n)'
  BY <1>1 DEF InFlight
<1> QED
  BY <1>1, <1>3, <1>4

\* Nor does it for a thread that holds another Model, or goes on.
LEMMA SafeAside ==
  ASSUME TypeOK, NEW t \in Threads, NEW m \in Models \cup {Folder}, NEW recorded \in BOOLEAN,
         Submit(t, m, recorded), NEW u \in Threads, SafeHold(u), held[u] # m,
         UNCHANGED <<pc[u], held[u], stream[u]>>
  PROVE  SafeHold(u)'
<1>1. /\ Covered(held[u]) => Covered(held[u])'
      /\ ~InFlight(held[u]) => ~InFlight(held[u])'
      /\ OnItsStream(u) => OnItsStream(u)'
      /\ ItsOwn(u) => ItsOwn(u)'
  <2>1. PICK n : n = held[u]
    OBVIOUS
  <2>2. /\ Covered(n) => Covered(n)'
        /\ ~InFlight(n) => ~InFlight(n)'
        /\ \A s \in Streams : \A i \in DOMAIN queue'[s] : queue'[s][i].model = n =>
             i \in DOMAIN queue[s] /\ queue[s][i].model = n /\ queue[s][i].by = queue'[s][i].by
    BY <2>1, SubmitAside
  <2>3. Covered(held[u])' <=> Covered(n)'
    BY <2>1 DEF Covered
  <2>4. InFlight(held[u])' <=> InFlight(n)'
    BY <2>1 DEF InFlight
  <2>5. OnItsStream(u) => OnItsStream(u)'
    BY <2>1, <2>2 DEF OnItsStream
  <2>6. ItsOwn(u) => ItsOwn(u)'
    BY <2>1, <2>2 DEF ItsOwn
  <2> QED
    BY <2>1, <2>2, <2>3, <2>4, <2>5, <2>6
<1> QED
  BY <1>1 DEF SafeHold

\* A step that leaves the streams and a thread's hands alone, or ends its hold.
LEMMA SafeStill ==
  ASSUME NEW u \in Threads, SafeHold(u), queue' = queue,
         UNCHANGED <<pc[u], held[u], stream[u]>> \/ pc'[u] \notin Holders
  PROVE  SafeHold(u)'
<1>1. CASE pc'[u] \notin Holders
  BY <1>1 DEF SafeHold, Holders
<1>2. CASE UNCHANGED <<pc[u], held[u], stream[u]>>
  <2>1. /\ Covered(held[u])' = Covered(held[u])
        /\ InFlight(held[u])' = InFlight(held[u])
        /\ OnItsStream(u)' = OnItsStream(u)
        /\ ItsOwn(u)' = ItsOwn(u)
    BY <1>2 DEF Covered, InFlight, OnItsStream, ItsOwn
  <2> QED
    BY <1>2, <2>1 DEF SafeHold
<1> QED
  BY <1>1, <1>2

\* The device takes work from the front only: a covered Model stays covered.
LEMMA FinishAside ==
  ASSUME TypeOK, NEW s \in Streams, DeviceFinishes(s), NEW m
  PROVE  /\ Covered(m) => Covered(m)'
         /\ ~InFlight(m) => ~InFlight(m)'
<1>1. ASSUME Covered(m) PROVE Covered(m)'
  <2> SUFFICES ASSUME NEW r \in Streams, NEW i \in DOMAIN queue'[r], queue'[r][i].model = m
               PROVE  \E j \in DOMAIN queue'[r] : j >= i /\ queue'[r][j].model = m /\ queue'[r][j].latest
    BY DEF Covered
  <2>1. PICK k \in {0, 1} :
          /\ i + k \in DOMAIN queue[r] /\ queue'[r][i] = queue[r][i + k]
          /\ \A j \in DOMAIN queue[r] : j >= i + k =>
               j - k \in DOMAIN queue'[r] /\ queue'[r][j - k] = queue[r][j]
    BY Popped
  <2>2. DOMAIN queue[r] \subseteq Int /\ DOMAIN queue'[r] \subseteq Int
    BY Popped
  <2>3. PICK j \in DOMAIN queue[r] :
          j >= i + k /\ queue[r][j].model = m /\ queue[r][j].latest
    BY <1>1, <2>1 DEF Covered
  <2>4. j - k \in DOMAIN queue'[r] /\ queue'[r][j - k] = queue[r][j] /\ j - k >= i
    BY <2>1, <2>2, <2>3
  <2> QED
    BY <2>3, <2>4
<1>2. ASSUME ~InFlight(m) PROVE ~InFlight(m)'
  BY <1>2, Popped DEF InFlight
<1> QED
  BY <1>1, <1>2

LEMMA ReuseDevice ==
  ASSUME TypeInv, ReuseInv, NEW s \in Streams, DeviceFinishes(s) PROVE ReuseInv'
<1>1. TypeOK /\ UNCHANGED <<available, pending, pc, held, stream>>
  BY DEF TypeInv, DeviceFinishes, lists, call
<1>2. ASSUME NEW m, NEW r \in Streams, NEW i \in DOMAIN queue'[r], queue'[r][i].model = m
      PROVE  \E j \in DOMAIN queue[r] : queue[r][j].model = m /\ queue[r][j].by = queue'[r][i].by
  BY <1>1, <1>2, Popped
<1>3. ASSUME NEW m, Covered(m) PROVE Covered(m)'
  BY <1>1, <1>3, FinishAside
<1>4. ASSUME NEW m, ~InFlight(m) PROVE ~InFlight(m)'
  BY <1>1, <1>4, FinishAside
<1>5. ASSUME NEW t \in Threads PROVE SafeHold(t)'
  <2>1. PICK m : m = held[t] /\ m = held'[t]
    BY <1>1
  <2>2. /\ Covered(held[t]) => Covered(held[t])'
        /\ ~InFlight(held[t]) => ~InFlight(held[t])'
    <3>1. /\ Covered(held[t]) <=> Covered(m)
          /\ Covered(held[t])' <=> Covered(m)'
          /\ InFlight(held[t]) <=> InFlight(m)
          /\ InFlight(held[t])' <=> InFlight(m)'
      BY <2>1 DEF Covered, InFlight
    <3> QED
      BY <3>1, <1>3, <1>4
  <2>3. \A r \in Streams : \A i \in DOMAIN queue'[r] : queue'[r][i].model = held'[t] =>
          \E j \in DOMAIN queue[r] :
            queue[r][j].model = held[t] /\ queue[r][j].by = queue'[r][i].by
    BY <1>2, <2>1
  <2>4. stream' = stream
    BY <1>1
  <2>5. OnItsStream(t) => OnItsStream(t)'
    BY <2>3, <2>4 DEF OnItsStream
  <2>6. ItsOwn(t) => ItsOwn(t)'
    BY <2>3, <2>4 DEF ItsOwn
  <2> QED
    BY <1>1, <2>2, <2>5, <2>6 DEF ReuseInv, SafeHold
<1> QED
  BY <1>1, <1>3, <1>4, <1>5 DEF ReuseInv

\* Steps of threads that leave lists, streams and the Models in hand alone.
LEMMA ReuseStill ==
  ASSUME ReuseInv, UNCHANGED <<lists, queue, held>>,
         \A u \in Threads : UNCHANGED <<pc[u], stream[u]>> \/ pc'[u] \notin Holders
  PROVE  ReuseInv'
<1>1. available' = available /\ pending' = pending /\ queue' = queue /\ held' = held
  BY DEF lists
<1>2. \A u \in Threads : SafeHold(u)'
  BY <1>1, SafeStill DEF ReuseInv
<1>3. /\ \A m : InFlight(m)' = InFlight(m)
      /\ \A m : Covered(m)' = Covered(m)
  BY <1>1 DEF InFlight, Covered
<1> QED
  BY <1>1, <1>2, <1>3 DEF ReuseInv

\* One thread moves on with the Model in its hands, or with another.
LEMMA ReuseTake ==
  ASSUME TypeOK, ReuseInv, NEW t \in Threads, NEW m \in Models, NEW l,
         UNCHANGED <<queue, stream>>,
         held' = [held EXCEPT ![t] = m], pc' = [pc EXCEPT ![t] = l],
         \/ l = "wait_one" /\ Covered(m)
         \/ l \in {"events", "holding", "push"} /\ ~InFlight(m),
         \A n \in Range(available') : ~InFlight(n),
         Range(pending') \subseteq Range(pending)
  PROVE  ReuseInv'
<1>1. ASSUME NEW u \in Threads, u # t PROVE SafeHold(u)'
  <2>1. UNCHANGED <<pc[u], held[u], stream[u]>>
    BY <1>1 DEF TypeOK
  <2> QED
    BY <2>1, SafeStill DEF ReuseInv
<1>2. /\ \A n : InFlight(n)' = InFlight(n)
      /\ \A n : Covered(n)' = Covered(n)
  BY DEF InFlight, Covered
<1>3. SafeHold(t)'
  <2>1. held'[t] = m /\ pc'[t] = l
    BY DEF TypeOK
  <2>2. /\ Covered(held[t])' = Covered(m)
        /\ InFlight(held[t])' = InFlight(m)
    BY <2>1 DEF InFlight, Covered
  <2>3. ~InFlight(m) => Covered(m)
    BY IdleCovered
  <2> QED
    BY <2>1, <2>2, <2>3 DEF SafeHold
<1> QED
  BY <1>1, <1>2, <1>3 DEF ReuseInv

\* One thread gives its Model to a list, or loses it.
LEMMA ReuseGive ==
  ASSUME TypeOK, ReuseInv, NEW t \in Threads, UNCHANGED <<queue, stream>>,
         held' = [held EXCEPT ![t] = NoModel],
         \A u \in Threads : u # t => pc'[u] = pc[u], pc'[t] \notin Holders,
         \A n \in Range(available') : n \in Range(available) \/ ~InFlight(n),
         \A n \in Range(pending') : n \in Range(pending) \/ Covered(n)
  PROVE  ReuseInv'
<1>1. ASSUME NEW u \in Threads PROVE SafeHold(u)'
  <2>1. u # t => UNCHANGED <<pc[u], held[u], stream[u]>>
    BY DEF TypeOK
  <2> QED
    BY <2>1, SafeStill DEF ReuseInv
<1>2. /\ \A n : InFlight(n)' = InFlight(n)
      /\ \A n : Covered(n)' = Covered(n)
  BY DEF InFlight, Covered
<1> QED
  BY <1>1, <1>2 DEF ReuseInv

\* One thread queues kernels of the Model it holds.
LEMMA ReuseSubmit ==
  ASSUME OwnerInv, ReuseInv, NEW t \in Threads, NEW recorded \in BOOLEAN, NEW l,
         UNCHANGED <<lists, held, stream>>, pc' = [pc EXCEPT ![t] = l],
         Submit(t, held[t], recorded),
         \/ pc[t] \in {"holding", "iterating"} /\ recorded /\ l \in {"push", "iterating"}
         \/ pc[t] = "holding" /\ l = "profiling"
  PROVE  ReuseInv'
<1>1. /\ TypeOK /\ held[t] \in Models /\ available' = available /\ pending' = pending
      /\ \A u \in Threads : pc[u] \in Holders <=> held[u] # NoModel
  BY ModelValues DEF OwnerInv, TypeInv, TypeOK, HeldExactly, Holders, lists
<1>2. /\ held[t] \notin Range(available) \cup Range(pending)
      /\ \A u \in Threads : u # t /\ held[u] # NoModel => held[u] # held[t]
  BY <1>1, ModelValues DEF OwnerInv, OneOwner
<1>3. \A n : n # held[t] => /\ Covered(n) => Covered(n)'
                            /\ ~InFlight(n) => ~InFlight(n)'
  BY <1>1, SubmitAside
<1>4. ASSUME NEW u \in Threads, u # t PROVE SafeHold(u)'
  <2>1. UNCHANGED <<pc[u], held[u], stream[u]>>
    BY <1>4 DEF OwnerInv, TypeInv, TypeOK
  <2>2. CASE held[u] = NoModel
    BY <1>1, <2>1, <2>2 DEF SafeHold, Holders
  <2>3. CASE held[u] # NoModel
    BY <1>1, <1>2, <1>4, <2>1, <2>3, SafeAside DEF ReuseInv
  <2> QED
    BY <2>2, <2>3
<1>5. /\ OnItsStream(t)
      /\ pc[t] = "holding" => ~InFlight(held[t])
  BY <1>1 DEF ReuseInv, SafeHold, InFlight, OnItsStream
<1>6. PICK m \in Models : m = held[t] /\ m = held'[t]
  BY <1>1
<1>7. ASSUME NEW s \in Streams
      PROVE  /\ \A i \in DOMAIN queue'[s] :
                   i \in DOMAIN queue[s] => queue'[s][i].model = queue[s][i].model
             /\ \A i \in DOMAIN queue'[s] \ DOMAIN queue[s] :
                  /\ s = stream[t] /\ \A j \in DOMAIN queue'[s] : i >= j
                  /\ queue'[s][i] = [model |-> m, by |-> t, latest |-> recorded]
             /\ s = stream[t] => \E i \in DOMAIN queue'[s] : i \notin DOMAIN queue[s]
  <2>1. /\ \A i \in DOMAIN queue[s] :
             i \in DOMAIN queue'[s] /\ queue'[s][i].model = queue[s][i].model
        /\ \A i \in DOMAIN queue'[s] \ DOMAIN queue[s] :
             /\ s = stream[t] /\ \A j \in DOMAIN queue'[s] : i >= j
             /\ queue'[s][i] = [model |-> m, by |-> t, latest |-> recorded]
        /\ s = stream[t] => DOMAIN queue'[s] # DOMAIN queue[s]
    BY <1>1, <1>6, Submitted
  <2> QED
    BY <2>1
<1>8. OnItsStream(t)'
  BY <1>5, <1>6, <1>7 DEF OnItsStream
<1>9. recorded => Covered(held[t])'
  <2> SUFFICES ASSUME recorded, NEW s \in Streams, NEW i \in DOMAIN queue'[s], queue'[s][i].model = m
               PROVE  \E j \in DOMAIN queue'[s] : j >= i /\ queue'[s][j].model = m /\ queue'[s][j].latest
    BY <1>6 DEF Covered
  <2>1. s = stream[t]
    BY <1>6, <1>8 DEF OnItsStream
  <2>2. PICK j \in DOMAIN queue'[s] : j \notin DOMAIN queue[s]
    BY <1>7, <2>1
  <2> QED
    BY <1>7, <2>2
<1>10. pc[t] = "holding" => ItsOwn(t)'
  <2> SUFFICES ASSUME ~InFlight(m), NEW s \in Streams, NEW i \in DOMAIN queue'[s],
                      queue'[s][i].model = m
               PROVE  s = stream[t] /\ queue'[s][i].by = t
    BY <1>5, <1>6 DEF ItsOwn
  <2>1. i \notin DOMAIN queue[s]
    BY <1>7 DEF InFlight
  <2> QED
    BY <1>7, <2>1
<1>11. SafeHold(t)'
  <2>1. pc'[t] = l
    BY <1>1 DEF TypeOK
  <2> QED
    BY <2>1, <1>8, <1>9, <1>10 DEF SafeHold
<1> QED
  BY <1>1, <1>2, <1>3, <1>4, <1>11 DEF ReuseInv

\* Reclaimed Models are idle.
LEMMA ReclaimedIdle ==
  ASSUME TypeOK, ReuseInv, NEW k \in 0 .. Len(pending),
         NEW p \in Bijection(DOMAIN pending, DOMAIN pending), StablePartition(p, k)
  PROVE  /\ Finished(p, k) \in Seq(Models) /\ Unfinished(p, k) \in Seq(Models)
         /\ Range(Unfinished(p, k)) \subseteq Range(pending)
         /\ \A m \in Range(Finished(p, k)) : ~InFlight(m)
<1>1. DOMAIN pending = 1 .. Len(pending) /\ Len(pending) \in Nat /\ pending \in Seq(Models)
  BY LenProperties DEF TypeOK
<1>2. /\ p \in Bijection(1 .. Len(pending), 1 .. Len(pending)) /\ DOMAIN p = DOMAIN pending
      /\ \A i \in DOMAIN pending : p[i] \in DOMAIN pending
      /\ Unfinished(p, k) = Front(pending, p, k) /\ Finished(p, k) = Back(pending, p, k)
  BY <1>1 DEF Unfinished, Finished, Front, Back, Bijection, Injection
<1>3. /\ Finished(p, k) \in Seq(Models) /\ Unfinished(p, k) \in Seq(Models)
      /\ Range(Unfinished(p, k)) \subseteq Range(pending)
  BY <1>1, <1>2, PartitionTypes, Partition
<1>4. ASSUME NEW m \in Range(Finished(p, k)) PROVE ~InFlight(m)
  <2>1. PICK i \in 1 .. Len(pending) - k : m = pending[p[k + i]]
    BY <1>4 DEF Range, Finished
  <2>2. k + i \in DOMAIN p /\ ~(k + i <= k)
    BY <1>1, <1>2, <2>1
  <2>3. ~IsPending(m)
    BY <2>1, <2>2 DEF StablePartition
  <2>4. m \in Range(pending)
    BY <1>2, <2>1, <2>2 DEF Range
  <2> QED
    BY <2>3, <2>4, CoveredIdle DEF ReuseInv
<1> QED
  BY <1>3, <1>4

\* Every step keeps the pool fit for use: here the steps that take a Model ...
LEMMA ReuseTakes ==
  ASSUME OwnerInv, ReuseInv, NEW t \in Threads,
         TakeAvailable(t) \/ TakeFinished(t) \/ WaitForOldest(t)
  PROVE  ReuseInv'
<1>1. /\ TypeOK /\ available \in Seq(Models) /\ pending \in Seq(Models)
      /\ UNCHANGED <<queue, stream>>
  BY DEF OwnerInv, TypeInv, TypeOK, TakeAvailable, TakeFinished, WaitForOldest, call
<1>2. ASSUME NEW pool \in Seq(Models), pc[t] = "get", TakeBack(t, pool),
             \A m \in Range(pool) : ~InFlight(m), Range(pending') \subseteq Range(pending)
      PROVE  ReuseInv'
  <2>1. PICK m \in Models, l \in {"events", "holding"} :
          /\ m = pool[Len(pool)] /\ l = AfterTake(t)
          /\ held' = [held EXCEPT ![t] = m] /\ pc' = [pc EXCEPT ![t] = l]
    BY <1>1, <1>2, TakeBackTypes
  <2>2. pool # <<>> /\ available' = SubSeq(pool, 1, Len(pool) - 1)
    BY <1>2 DEF TakeBack
  <2>3. Range(pool) = Range(available') \cup {m}
    BY <2>1, <2>2, PopBack
  <2> QED
    BY <1>1, <1>2, <2>1, <2>3, ReuseTake
<1>3. CASE TakeAvailable(t)
  BY <1>1, <1>2, <1>3 DEF TakeAvailable, ReuseInv
<1>4. CASE TakeFinished(t)
  <2>1. PICK k \in 0 .. Len(pending), p \in Bijection(DOMAIN pending, DOMAIN pending) :
          StablePartition(p, k) /\ pending' = Unfinished(p, k) /\ TakeBack(t, Finished(p, k))
    BY <1>4, Zenon DEF TakeFinished
  <2>2. pc[t] = "get"
    BY <1>4 DEF TakeFinished
  <2>3. /\ Finished(p, k) \in Seq(Models) /\ Range(pending') \subseteq Range(pending)
        /\ \A m \in Range(Finished(p, k)) : ~InFlight(m)
    BY <1>1, <2>1, ReclaimedIdle
  <2> QED
    BY <1>2, <2>1, <2>2, <2>3
<1>5. CASE WaitForOldest(t)
  <2>1. CASE pending = <<>>
    <3>1. /\ pc' = [pc EXCEPT ![t] = "asleep"] /\ UNCHANGED <<lists, queue, held, stream>>
      BY <1>1, <1>5, <2>1 DEF WaitForOldest, lists, Goto
    <3>2. \A u \in Threads : UNCHANGED <<pc[u], stream[u]>> \/ pc'[u] \notin Holders
      BY <1>1, <3>1 DEF TypeOK, Holders
    <3> QED
      BY <3>1, <3>2, ReuseStill
  <2>2. CASE pending # <<>>
    <3>1. /\ held' = [held EXCEPT ![t] = Head(pending)] /\ pending' = Tail(pending)
          /\ pc' = [pc EXCEPT ![t] = "wait_one"] /\ available' = available
      BY <1>5, <2>2 DEF WaitForOldest, Goto
    <3>2. /\ Head(pending) \in Models /\ Range(pending) = Range(pending') \cup {Head(pending)}
      BY <1>1, <2>2, <3>1, PopFront
    <3>3. Covered(Head(pending)) /\ \A n \in Range(available') : ~InFlight(n)
      BY <3>1, <3>2 DEF ReuseInv
    <3> QED
      BY <1>1, <3>1, <3>2, <3>3, ReuseTake
  <2> QED
    BY <2>1, <2>2
<1> QED
  BY <1>3, <1>4, <1>5

\* ... those that use it ...
LEMMA ReuseUses ==
  ASSUME OwnerInv, ReuseInv, NEW t \in Threads,
         \/ OldestFinished(t) \/ CreateEvents(t) \/ Profiled(t)
         \/ ModelRun(t) \/ ModelProfile(t)
  PROVE  ReuseInv'
<1>1. /\ TypeOK /\ SafeHold(t) /\ pc[t] \in Holders /\ held[t] \in Models
      /\ UNCHANGED <<lists, stream, held>> /\ available' = available /\ pending' = pending
  BY ModelValues DEF OwnerInv, TypeInv, TypeOK, HeldExactly, Holders, ReuseInv, OldestFinished,
     CreateEvents, Profiled, ModelRun, ModelProfile, lists, call
<1>2. ASSUME NEW l, l \in {"events", "holding", "push"}, ~InFlight(held[t]),
             pc' = [pc EXCEPT ![t] = l], queue' = queue
      PROVE  ReuseInv'
  <2>1. held' = [held EXCEPT ![t] = held[t]]
    BY <1>1 DEF TypeOK
  <2>2. \A n \in Range(available') : ~InFlight(n)
    BY <1>1 DEF ReuseInv
  <2> QED
    BY <1>1, <1>2, <2>1, <2>2, ReuseTake
<1>3. CASE OldestFinished(t)
  <2>1. ~InFlight(held[t])
    BY <1>1, <1>3, CoveredIdle DEF OldestFinished, SafeHold
  <2>2. PICK l \in {"events", "holding"} : pc' = [pc EXCEPT ![t] = l]
    BY <1>3, Zenon DEF OldestFinished, AfterTake, Goto
  <2> QED
    BY <1>2, <1>3, <2>1, <2>2 DEF OldestFinished
<1>4. CASE CreateEvents(t)
  BY <1>1, <1>2, <1>4 DEF CreateEvents, SafeHold, Goto
<1>5. CASE Profiled(t)
  <2>1. ~InFlight(held[t])
    BY <1>1, <1>5 DEF Profiled, Drained, SafeHold, ItsOwn, InFlight, TypeOK
  <2> QED
    BY <1>2, <1>5, <2>1 DEF Profiled, Goto
<1>6. CASE ModelRun(t)
  <2>1. PICK l \in {"push", "iterating"} : pc' = [pc EXCEPT ![t] = l]
    BY <1>6, Zenon DEF ModelRun, Goto
  <2>2. pc[t] \in {"holding", "iterating"} /\ Submit(t, held[t], TRUE)
    BY <1>6 DEF ModelRun
  <2> QED
    BY <1>1, <2>1, <2>2, ReuseSubmit
<1>7. CASE ModelProfile(t)
  <2>1. /\ pc[t] = "holding" /\ Submit(t, held[t], FALSE)
        /\ pc' = [pc EXCEPT ![t] = "profiling"]
    BY <1>7 DEF ModelProfile, Goto
  <2> QED
    BY <1>1, <2>1, ReuseSubmit
<1> QED
  BY <1>3, <1>4, <1>5, <1>6, <1>7

\* ... those that give it back ...
LEMMA ReuseGives ==
  ASSUME OwnerInv, ReuseInv, NEW t \in Threads,
         \/ PushPending(t) \/ WaitThrows(t) \/ PrepareThrows(t) \/ CreateEventThrows(t)
  PROVE  ReuseInv'
<1>1. /\ TypeOK /\ SafeHold(t) /\ held[t] \in Models
      /\ available \in Seq(Models) /\ pending \in Seq(Models)
      /\ UNCHANGED <<queue, stream>> /\ held' = [held EXCEPT ![t] = NoModel]
  BY ModelValues DEF OwnerInv, TypeInv, TypeOK, HeldExactly, Holders, ReuseInv, PushPending,
     WaitThrows, PrepareThrows, CreateEventThrows, GiveBack, Return, call
<1>2. PICK l \in {"notify", "idle"} : pc' = [pc EXCEPT ![t] = l]
  BY DEF PushPending, WaitThrows, PrepareThrows, CreateEventThrows, GiveBack, Return, Goto
<1>3. /\ \A u \in Threads : u # t => pc'[u] = pc[u]
      /\ pc'[t] \notin Holders
  BY <1>1, <1>2 DEF TypeOK, Holders
<1>4. CASE PushPending(t)
  <2>1. available' = available /\ pending' = Append(pending, held[t]) /\ Covered(held[t])
    BY <1>1, <1>4 DEF PushPending, SafeHold
  <2>2. Range(pending') = Range(pending) \cup {held[t]}
    BY <1>1, <2>1, PushBack
  <2> QED
    BY <1>1, <1>3, <2>1, <2>2, ReuseGive
<1>5. CASE WaitThrows(t) \/ PrepareThrows(t)
  <2>1. available' = Append(available, held[t]) /\ pending' = pending
    BY <1>5 DEF WaitThrows, PrepareThrows, GiveBack
  <2>2. ~InFlight(held[t])
    BY <1>1, <1>5, CoveredIdle DEF WaitThrows, PrepareThrows, SafeHold
  <2>3. Range(available') = Range(available) \cup {held[t]}
    BY <1>1, <2>1, PushBack
  <2> QED
    BY <1>1, <1>3, <2>1, <2>2, <2>3, ReuseGive
<1>6. CASE CreateEventThrows(t)
  <2>1. available' = available /\ pending' = pending
    BY <1>6 DEF CreateEventThrows, lists
  <2> QED
    BY <1>1, <1>3, <2>1, ReuseGive
<1> QED
  BY <1>4, <1>5, <1>6

\* ... and folding, which no Model takes part in.
LEMMA ReuseFold ==
  ASSUME OwnerInv, ReuseInv, NEW t \in Threads, FoldConstants(t) PROVE ReuseInv'
<1>1. /\ TypeOK /\ Submit(t, Folder, TRUE) /\ UNCHANGED <<lists, stream, held>>
      /\ available' = available /\ pending' = pending
      /\ available \in Seq(Models) /\ pending \in Seq(Models)
  BY DEF OwnerInv, TypeInv, TypeOK, FoldConstants, lists
<1>2. PICK l \in {"drain", "idle", "relock"} : pc' = [pc EXCEPT ![t] = l]
  BY Zenon DEF FoldConstants, AfterFold, Goto
<1>3. Folder \notin Models /\ Folder # NoModel
  BY ConstantsAssumption DEF Models, Folder, NoModel
<1>4. ASSUME NEW u \in Threads PROVE SafeHold(u)'
  <2>1. CASE u = t
    <3>1. pc'[u] \notin Holders
      BY <1>1, <1>2, <2>1 DEF TypeOK, Holders
    <3> QED
      BY <3>1 DEF SafeHold, Holders
  <2>2. CASE u # t
    <3>1. UNCHANGED <<pc[u], held[u], stream[u]>> /\ held[u] # Folder
      BY <1>1, <1>2, <1>3, <2>2 DEF TypeOK
    <3> QED
      BY <1>1, <3>1, SafeAside DEF ReuseInv
  <2> QED
    BY <2>1, <2>2
<1>5. ASSUME NEW n \in Models
      PROVE  /\ Covered(n) => Covered(n)'
             /\ ~InFlight(n) => ~InFlight(n)'
  BY <1>1, <1>3, SubmitAside
<1>6. Range(available) \subseteq Models /\ Range(pending) \subseteq Models
  BY <1>1, LenProperties, ElementOfSeq DEF Range
<1> QED
  BY <1>1, <1>4, <1>5, <1>6 DEF ReuseInv

\* The other steps of threads.
LEMMA ReuseElse ==
  ASSUME OwnerInv, ReuseInv, NEW t \in Threads,
         \/ \E o \in Ops, s \in Streams : Call(t, o, s)
         \/ \E workers \in SUBSET Threads : Spawn(t, workers)
         \/ LockShared(t) \/ LockUnique(t) \/ Relock(t) \/ SetConstant(t) \/ FoldThrows(t)
         \/ Join(t) \/ NotifyOne(t) \/ StreamDone(t) \/ SpuriousWakeup(t)
  PROVE  ReuseInv'
<1>1. TypeOK /\ UNCHANGED <<lists, queue, held>>
  BY DEF OwnerInv, TypeInv, Call, Spawn, LockShared, LockUnique, Relock, SetConstant, FoldThrows,
     Join, NotifyOne, RunReturns, StreamDone, SpuriousWakeup
<1> SUFFICES \A u \in Threads : UNCHANGED <<pc[u], stream[u]>> \/ pc'[u] \notin Holders
  BY <1>1, ReuseStill
<1>2. ASSUME NEW l, l \notin Holders, pc' = [pc EXCEPT ![t] = l],
             \A u \in Threads : u # t => stream'[u] = stream[u]
      PROVE  \A u \in Threads : UNCHANGED <<pc[u], stream[u]>> \/ pc'[u] \notin Holders
  BY <1>1, <1>2 DEF TypeOK
<1>3. ASSUME NEW o \in Ops, NEW s \in Streams, Call(t, o, s)
      PROVE  \A u \in Threads : UNCHANGED <<pc[u], stream[u]>> \/ pc'[u] \notin Holders
  <2>1. PICK l \in {"unique", "get", "shared"} : pc' = [pc EXCEPT ![t] = l]
    BY <1>3, Zenon DEF Call, Goto
  <2>2. stream' = [stream EXCEPT ![t] = s]
    BY <1>3 DEF Call
  <2>3. \A u \in Threads : u # t => stream'[u] = stream[u]
    BY <1>1, <2>2 DEF TypeOK
  <2> QED
    BY <1>2, <2>1, <2>3 DEF Holders
<1>4. ASSUME NEW workers \in SUBSET Threads, Spawn(t, workers)
      PROVE  \A u \in Threads : UNCHANGED <<pc[u], stream[u]>> \/ pc'[u] \notin Holders
  BY <1>1, <1>4 DEF Spawn, TypeOK, Holders
<1>5. ASSUME NotifyOne(t)
      PROVE  \A u \in Threads : UNCHANGED <<pc[u], stream[u]>> \/ pc'[u] \notin Holders
  <2>1. PICK l \in {"sync", "drain", "idle"}, woken \in Threads \cup {NoThread} :
          pc' = [u \in Threads |-> IF u = t THEN l ELSE IF u = woken THEN "woken" ELSE pc[u]]
    <3>1. PICK woken \in IF Sleepers = {} THEN {NoThread} ELSE Sleepers :
            pc' = [u \in Threads |-> IF u = t THEN AfterNotify(t)
                                     ELSE IF u = woken THEN "woken" ELSE pc[u]]
      BY <1>5, Zenon DEF NotifyOne
    <3>2. AfterNotify(t) \in {"sync", "drain", "idle"}
      BY DEF AfterNotify
    <3>3. woken \in Threads \cup {NoThread}
      BY <3>1 DEF Sleepers
    <3> QED
      BY <3>1, <3>2, <3>3, Zenon
  <2>2. stream' = stream
    BY <1>5 DEF NotifyOne, RunReturns
  <2> QED
    BY <2>1, <2>2 DEF Holders
<1>6. ASSUME LockShared(t) \/ LockUnique(t) \/ Relock(t) \/ SetConstant(t) \/ FoldThrows(t)
             \/ Join(t) \/ StreamDone(t) \/ SpuriousWakeup(t)
      PROVE  \A u \in Threads : UNCHANGED <<pc[u], stream[u]>> \/ pc'[u] \notin Holders
  <2>1. PICK l \in {"get", "spawn", "first_fold", "wait_models", "relock", "idle", "woken"} :
          pc' = [pc EXCEPT ![t] = l]
    BY <1>6, Zenon DEF LockShared, LockUnique, Relock, SetConstant, FoldThrows, Join, Return,
       StreamDone, SpuriousWakeup, Goto
  <2>2. stream' = stream
    BY <1>6 DEF LockShared, LockUnique, Relock, SetConstant, FoldThrows, Join, Return,
       StreamDone, SpuriousWakeup, call
  <2> QED
    BY <1>2, <2>1, <2>2 DEF Holders
<1> QED
  BY <1>3, <1>4, <1>5, <1>6

LEMMA ReuseStep ==
  ASSUME ~LiveUpdates, "midrun" \notin FailureKinds
  PROVE  OwnerInv /\ ReuseInv /\ [Next]_vars => ReuseInv'
<1> SUFFICES ASSUME OwnerInv, ReuseInv, [Next]_vars PROVE ReuseInv'
  OBVIOUS
<1>1. ASSUME NEW t \in Threads, NEW i \in DOMAIN pending, WaitForAllModels(t, i)
      PROVE  FALSE
  <2>1. pc[t] = "wait_models" /\ pending # <<>>
    BY <1>1 DEF WaitForAllModels
  <2> QED
    BY <2>1 DEF OwnerInv, Ordered, Exclusive, FoldedFirst, MaintenanceFirst
<1>2. ASSUME NEW t \in Threads, RunThrows(t) PROVE FALSE
  BY <1>2 DEF RunThrows, MayFail
<1>3. ASSUME NEW t \in Threads, Step(t) PROVE ReuseInv'
  BY <1>1, <1>3, ReuseTakes, ReuseUses, ReuseGives, ReuseFold, ReuseElse DEF Step
<1>4. ASSUME NEW t \in Threads, Throw(t) PROVE ReuseInv'
  BY <1>2, <1>4, ReuseGives, ReuseElse DEF Throw
<1>5. ASSUME NEW s \in Streams, DeviceFinishes(s) PROVE ReuseInv'
  BY <1>5, ReuseDevice DEF OwnerInv
<1>6. CASE UNCHANGED vars
  <2>1. /\ UNCHANGED <<lists, queue, held>>
        /\ \A u \in Threads : UNCHANGED <<pc[u], stream[u]>>
    BY <1>6 DEF vars, call
  <2> QED
    BY <2>1, ReuseStill
<1> QED
  BY <1>3, <1>4, <1>5, <1>6, ReuseElse DEF Next

LEMMA ReuseInit == Init => ReuseInv
<1> SUFFICES ASSUME Init PROVE ReuseInv
  OBVIOUS
<1>1. \A s \in Streams : DOMAIN queue[s] = {}
  BY DEF Init
<1>2. \A m : ~InFlight(m) /\ Covered(m)
  BY <1>1 DEF InFlight, Covered
<1>3. \A t \in Threads : pc[t] = "idle"
  BY DEF Init
<1> QED
  BY <1>2, <1>3 DEF ReuseInv, SafeHold

\* A Model whose inputs are about to be set has no kernels in flight: the event
\* that GetAvailableModel asks for, or waits for, answers for all of the
\* Model's work, on whatever stream it was queued, unless an operator throws
\* half way.
THEOREM NoReuseInFlightCorrect ==
  ASSUME ~LiveUpdates, "midrun" \notin FailureKinds
  PROVE  Spec => []NoReuseInFlight
<1>1. OwnerInv /\ ReuseInv /\ [Next]_vars => ReuseInv'
  BY ReuseStep
<1>2. ReuseInv => NoReuseInFlight
  BY DEF ReuseInv, SafeHold, NoReuseInFlight
<1> QED
  BY <1>1, <1>2, ReuseInit, AlwaysOwnerInv, PTL DEF Spec

----------------------------------------------------------------------------
(* The first fold.                                                         *)

\* Who waits for all Models has the mutex, and has looked at
\* constant_folded_once_ under it.
WaitInv ==
  \A t \in Threads :
    /\ pc[t] = "unique" => op[t] \in MaintOps /\ todo[t] = 1
    /\ pc[t] = "wait_models" => writer = t /\ (op[t] \notin MaintOps => ~folded)

LEMMA WaitStep == TypeInv /\ WaitInv /\ [Next]_vars => WaitInv'
<1> SUFFICES ASSUME TypeInv, WaitInv, [Next]_vars PROVE WaitInv'
  OBVIOUS
<1> USE ConstantsAssumption DEF TypeInv, TypeOK, WaitInv, Goto
<1>1. ASSUME UNCHANGED <<pc, op, todo, writer, folded>> PROVE WaitInv'
  BY <1>1
<1>2. ASSUME NEW t \in Threads, NEW l, l \notin {"unique", "wait_models"},
             pc[t] # "wait_models", pc' = [pc EXCEPT ![t] = l],
             \A u \in Threads : u # t => op'[u] = op[u] /\ todo'[u] = todo[u],
             UNCHANGED <<writer, folded>>
      PROVE  WaitInv'
  BY <1>2
<1>3. ASSUME NEW t \in Threads, NEW o \in Ops, NEW s \in Streams, Call(t, o, s) PROVE WaitInv'
  <2>1. /\ pc[t] = "idle" /\ op' = [op EXCEPT ![t] = o] /\ UNCHANGED <<writer, folded>>
        /\ \A u \in Threads : u # t => todo'[u] = todo[u]
        /\ o \in MaintOps => todo'[t] = 1
    BY <1>3 DEF Call, mutex, MaintOps
  <2>2. PICK l \in {"unique", "get", "shared"} :
          pc' = [pc EXCEPT ![t] = l] /\ (l = "unique" => o \in MaintOps)
    BY <1>3, Zenon DEF Call
  <2> QED
    BY <2>1, <2>2
<1>4. ASSUME NEW t \in Threads, LockUnique(t) PROVE WaitInv'
  <2>1. /\ pc[t] \in {"unique", "first_fold"} /\ writer = NoThread /\ UNCHANGED <<folded, op, todo>>
    BY <1>4 DEF LockUnique, call
  <2>2. CASE pc[t] = "first_fold" /\ folded
    <3>1. pc' = [pc EXCEPT ![t] = "relock"] /\ writer' = writer
      BY <1>4, <2>2 DEF LockUnique
    <3> QED
      BY <2>1, <3>1
  <2>3. CASE ~(pc[t] = "first_fold" /\ folded)
    <3>1. pc' = [pc EXCEPT ![t] = "wait_models"] /\ writer' = t
      BY <1>4, <2>3 DEF LockUnique
    <3> QED
      BY <2>1, <2>3, <3>1
  <2> QED
    BY <2>2, <2>3
<1>5. ASSUME NEW t \in Threads, SetConstant(t) \/ FoldConstants(t) \/ FoldThrows(t) PROVE WaitInv'
  <2>1. /\ pc[t] = "wait_models" /\ writer' = NoThread
        /\ \A u \in Threads : u # t => op'[u] = op[u] /\ todo'[u] = todo[u]
    BY <1>5 DEF SetConstant, FoldConstants, FoldThrows, Quiesced
  <2>2. PICK l \in {"drain", "idle", "relock"} : pc' = [pc EXCEPT ![t] = l]
    BY <1>5, Zenon DEF SetConstant, FoldConstants, FoldThrows, AfterFold
  <2> QED
    BY <2>1, <2>2
<1>6. ASSUME NEW t \in Threads, NEW workers \in SUBSET Threads, Spawn(t, workers) PROVE WaitInv'
  BY <1>6 DEF Spawn, mutex
<1>7. ASSUME NEW t \in Threads, NotifyOne(t) PROVE WaitInv'
  <2>1. PICK woken \in IF Sleepers = {} THEN {NoThread} ELSE Sleepers :
          pc' = [u \in Threads |-> IF u = t THEN AfterNotify(t)
                                   ELSE IF u = woken THEN "woken" ELSE pc[u]]
    BY <1>7, Zenon DEF NotifyOne
  <2>2. AfterNotify(t) \notin {"unique", "wait_models"}
    BY DEF AfterNotify
  <2>3. /\ UNCHANGED <<writer, folded, todo>> /\ pc[t] = "notify"
        /\ \A u \in Threads : u # t => op'[u] = op[u]
    BY <1>7 DEF NotifyOne, RunReturns
  <2> QED
    BY <2>1, <2>2, <2>3
<1>8. ASSUME NEW t \in Threads,
             \/ LockShared(t) \/ Relock(t) \/ Join(t) \/ StreamDone(t) \/ SpuriousWakeup(t)
             \/ OldestFinished(t) \/ CreateEvents(t) \/ ModelRun(t) \/ ModelProfile(t)
             \/ Profiled(t) \/ PushPending(t)
      PROVE  WaitInv'
  <2>1. PICK l \in Labels \ {"unique", "wait_models"} : pc' = [pc EXCEPT ![t] = l]
    BY <1>8, Zenon DEF LockShared, Relock, Join, Return, StreamDone, SpuriousWakeup,
       OldestFinished, AfterTake, CreateEvents, ModelRun, ModelProfile, Profiled, PushPending, Labels
  <2>2. /\ UNCHANGED <<writer, folded>> /\ pc[t] # "wait_models"
        /\ \A u \in Threads : u # t => op'[u] = op[u] /\ todo'[u] = todo[u]
    BY <1>8 DEF LockShared, Relock, Join, Return, StreamDone, SpuriousWakeup, OldestFinished,
       CreateEvents, ModelRun, ModelProfile, Profiled, PushPending, mutex, call
  <2> QED
    BY <1>2, <2>1, <2>2
<1>9. ASSUME NEW t \in Threads,
             \/ WaitThrows(t) \/ PrepareThrows(t) \/ RunThrows(t) \/ CreateEventThrows(t)
      PROVE  WaitInv'
  <2>1. /\ pc' = [pc EXCEPT ![t] = "idle"] /\ op' = [op EXCEPT ![t] = "none"]
        /\ pc[t] # "wait_models" /\ UNCHANGED <<writer, folded, todo>>
    BY <1>9 DEF WaitThrows, PrepareThrows, RunThrows, CreateEventThrows, GiveBack, Return
  <2> QED
    BY <2>1
<1>10. ASSUME NEW t \in Threads, TakeAvailable(t) \/ TakeFinished(t) \/ WaitForOldest(t)
       PROVE  WaitInv'
  <2>1. PICK l \in {"events", "holding", "asleep", "wait_one"} : pc' = [pc EXCEPT ![t] = l]
    BY <1>10, Zenon DEF TakeAvailable, TakeFinished, TakeBack, AfterTake, WaitForOldest
  <2>2. UNCHANGED <<writer, folded, op, todo>> /\ pc[t] # "wait_models"
    BY <1>10 DEF TakeAvailable, TakeFinished, WaitForOldest, mutex, call
  <2> QED
    BY <1>2, <2>1, <2>2
<1>11. ASSUME NEW t \in Threads, NEW i \in DOMAIN pending, WaitForAllModels(t, i) PROVE WaitInv'
  <2>1. /\ pc[t] = "wait_models" /\ UNCHANGED <<pc, op, writer, folded>>
        /\ \A u \in Threads : u # t => todo'[u] = todo[u]
    BY <1>11 DEF WaitForAllModels, mutex, call
  <2> QED
    BY <2>1
<1>12. ASSUME NEW s \in Streams, DeviceFinishes(s) PROVE WaitInv'
  BY <1>1, <1>12 DEF DeviceFinishes, mutex, call
<1>13. CASE UNCHANGED vars
  BY <1>1, <1>13 DEF vars, mutex, call
<1> QED
  BY <1>3, <1>4, <1>5, <1>6, <1>7, <1>8, <1>9, <1>10, <1>11, <1>12, <1>13 DEF Next, Step, Throw

\* Run and Benchmark fold only what nobody has folded, with or without live
\* updates and whatever fails: the second look at constant_folded_once_, under
\* the exclusive mutex, is enough.
THEOREM FirstFoldOnceCorrect == Spec => FirstFoldOnce
<1>1. Init => WaitInv
  BY DEF Init, WaitInv
<1>2. TypeInv /\ WaitInv /\ [Next]_vars =>
        [\A t \in Threads : op[t] \in InferenceOps /\ FoldConstants(t) => ~folded]_vars
  BY DEF WaitInv, FoldConstants, Quiesced, InferenceOps, MaintOps
<1> QED
  BY <1>1, <1>2, WaitStep, TypeInit, TypeStep, PTL DEF Spec, FirstFoldOnce

----------------------------------------------------------------------------
(* Maintenance is quiet: constants_sync_mutex_ keeps the threads away, and *)
(* the wait for all pending Models keeps the device away.                  *)

\* Nobody passes the check of constant_folded_once_ unfolded, whatever the
\* clients may call.
LEMMA FoldedStep == TypeInv /\ FoldedFirst /\ [Next]_vars => FoldedFirst'
<1> SUFFICES ASSUME TypeInv, FoldedFirst, [Next]_vars PROVE FoldedFirst'
  OBVIOUS
<1> USE ConstantsAssumption DEF TypeInv, TypeOK, FoldedFirst, Inside, Holders, Goto
<1>1. ASSUME folded, folded' = folded PROVE FoldedFirst'
  BY <1>1
<1>2. ASSUME ~folded, UNCHANGED <<pending, folded>>, NEW t \in Threads,
             NEW l, l \notin Inside \cup {"relock"}, pc' = [pc EXCEPT ![t] = l]
      PROVE  FoldedFirst'
  BY <1>2
<1>3. ASSUME NEW t \in Threads, FoldConstants(t) PROVE FoldedFirst'
  BY <1>3 DEF FoldConstants
<1>4. ASSUME ~folded, NEW t \in Threads, NEW o \in Ops, NEW s \in Streams, Call(t, o, s)
      PROVE  FoldedFirst'
  <2>1. PICK l \in {"unique", "shared"} : pc' = [pc EXCEPT ![t] = l]
    BY <1>4, ProfileAssumption, Zenon DEF Call
  <2> QED
    BY <1>2, <1>4, <2>1 DEF Call, lists
<1>5. ASSUME ~folded, NEW t \in Threads,
             LockShared(t) \/ LockUnique(t) \/ SetConstant(t) \/ FoldThrows(t) \/ StreamDone(t)
      PROVE  FoldedFirst'
  <2>1. PICK l \in {"first_fold", "wait_models", "idle"} : pc' = [pc EXCEPT ![t] = l]
    BY <1>5, Zenon DEF LockShared, LockUnique, SetConstant, FoldThrows, StreamDone, Return
  <2>2. UNCHANGED <<pending, folded>>
    BY <1>5 DEF LockShared, LockUnique, SetConstant, FoldThrows, StreamDone, lists
  <2> QED
    BY <1>2, <1>5, <2>1, <2>2
<1>6. ASSUME ~folded, NEW t \in Threads, NotifyOne(t) PROVE FoldedFirst'
  BY <1>6 DEF NotifyOne, RunReturns, Sleepers, AfterNotify, lists
<1>7. ASSUME NEW t \in Threads, NEW i \in DOMAIN pending, WaitForAllModels(t, i) PROVE FoldedFirst'
  BY <1>7 DEF WaitForAllModels
<1>8. ASSUME ~folded, NEW t \in Threads,
             \/ Relock(t) \/ \E workers \in SUBSET Threads : Spawn(t, workers)
             \/ Join(t) \/ TakeAvailable(t) \/ TakeFinished(t) \/ WaitForOldest(t)
             \/ OldestFinished(t) \/ CreateEvents(t) \/ ModelRun(t) \/ ModelProfile(t)
             \/ Profiled(t) \/ PushPending(t) \/ WaitThrows(t) \/ PrepareThrows(t)
             \/ RunThrows(t) \/ CreateEventThrows(t) \/ SpuriousWakeup(t)
      PROVE  FALSE
  BY <1>8 DEF Relock, Spawn, Join, TakeAvailable, TakeFinished, WaitForOldest, OldestFinished,
     CreateEvents, ModelRun, ModelProfile, Profiled, PushPending, WaitThrows, PrepareThrows,
     RunThrows, CreateEventThrows, SpuriousWakeup
<1>9. ASSUME NEW s \in Streams, DeviceFinishes(s) PROVE FoldedFirst'
  BY <1>9 DEF DeviceFinishes, lists
<1>10. CASE UNCHANGED vars
  BY <1>10 DEF vars, lists
<1>11. CASE ~folded
  BY <1>3, <1>4, <1>5, <1>6, <1>7, <1>8, <1>9, <1>10, <1>11 DEF Next, Step, Throw
<1>12. CASE folded
  <2>1. ASSUME NEW t \in Threads,
               \/ LockShared(t) \/ LockUnique(t) \/ Relock(t) \/ Join(t) \/ TakeAvailable(t)
               \/ \E i \in DOMAIN pending : WaitForAllModels(t, i)
               \/ SetConstant(t) \/ \E workers \in SUBSET Threads : Spawn(t, workers)
        PROVE  folded' = folded
    BY <2>1, Zenon DEF LockShared, LockUnique, Relock, Join, TakeAvailable, WaitForAllModels,
       SetConstant, Spawn
  <2>2. ASSUME NEW t \in Threads,
               \/ TakeFinished(t) \/ WaitForOldest(t) \/ OldestFinished(t)
               \/ CreateEvents(t) \/ ModelRun(t) \/ ModelProfile(t) \/ Profiled(t)
               \/ PushPending(t) \/ StreamDone(t)
        PROVE  folded' = folded
    BY <2>2, Zenon DEF TakeFinished, WaitForOldest, OldestFinished, CreateEvents, ModelRun,
       ModelProfile, Profiled, PushPending, StreamDone
  <2>3. ASSUME NEW t \in Threads, NotifyOne(t) PROVE folded' = folded
    BY <2>3 DEF NotifyOne, RunReturns, AfterNotify
  <2>4. ASSUME NEW t \in Threads, Throw(t) \/ SpuriousWakeup(t) PROVE folded' = folded
    BY <2>4, Zenon DEF Throw, FoldThrows, WaitThrows, PrepareThrows, RunThrows,
       CreateEventThrows, SpuriousWakeup
  <2>5. ASSUME NEW t \in Threads, NEW o \in Ops, NEW s \in Streams, Call(t, o, s)
        PROVE  folded' = folded
    BY <2>5, Zenon DEF Call
  <2>6. ASSUME NEW s \in Streams, DeviceFinishes(s) PROVE folded' = folded
    BY <2>6, Zenon DEF DeviceFinishes
  <2>7. ASSUME NEW t \in Threads, FoldConstants(t) PROVE folded'
    BY <2>7, Zenon DEF FoldConstants
  <2>8. ASSUME UNCHANGED vars PROVE folded' = folded
    BY <2>8, Zenon DEF vars
  <2>9. ASSUME NEW t \in Threads, Step(t) PROVE folded'
    BY <1>12, <2>1, <2>2, <2>3, <2>7, <2>9 DEF Step
  <2>10. folded'
    BY <1>12, <2>4, <2>5, <2>6, <2>8, <2>9 DEF Next
  <2> QED
    BY <2>10
<1> QED
  BY <1>11, <1>12

\* Who is inside an inference, or the Benchmark call it works for, shares the
\* mutex; Profile takes no lock.
LockInv ==
  /\ writer # NoThread => readers = {}
  /\ \A t \in Threads :
       /\ pc[t] \in {"spawn", "join"} => t \in readers
       /\ pc[t] \in Inside /\ op[t] # "profile" =>
            t \in readers \/ (boss[t] \in readers /\ pc[boss[t]] = "join")

LEMMA LockStep == TypeInv /\ LockInv /\ [Next]_vars => LockInv'
<1> SUFFICES ASSUME TypeInv, LockInv, [Next]_vars PROVE LockInv'
  OBVIOUS
<1> USE ConstantsAssumption DEF TypeInv, TypeOK, LockInv, Inside, Holders, Goto
<1>1. ASSUME UNCHANGED <<pc, op, boss, readers, writer>> PROVE LockInv'
  BY <1>1
\* A step that keeps the mutex, and its thread outside or inside.
<1>2. ASSUME NEW t \in Threads, NEW l, pc[t] # "join", l \notin {"spawn", "join"},
             pc' = [pc EXCEPT ![t] = l], \A u \in Threads : u # t => op'[u] = op[u],
             l \in Inside /\ op'[t] # "profile" => pc[t] \in Inside /\ op[t] # "profile",
             UNCHANGED <<boss, readers, writer>>
      PROVE  LockInv'
  BY <1>2
\* A step that leaves an inference.
<1>3. ASSUME NEW t \in Threads, NEW l \in {"idle", "sync", "drain"},
             \A u \in Threads : boss[u] = t => pc[t] # "join",
             pc' = [pc EXCEPT ![t] = l], \A u \in Threads : u # t => op'[u] = op[u],
             \A u \in Threads : u # t => boss'[u] = boss[u],
             readers' \in {readers, readers \ {t}}, UNCHANGED writer
      PROVE  LockInv'
  BY <1>3
<1>4. ASSUME NEW t \in Threads, NEW o \in Ops, NEW s \in Streams, Call(t, o, s) PROVE LockInv'
  <2>1. PICK l \in {"unique", "get", "shared"} :
          pc' = [pc EXCEPT ![t] = l] /\ (l = "get" => o = "profile")
    BY <1>4, Zenon DEF Call
  <2>2. /\ pc[t] = "idle" /\ op' = [op EXCEPT ![t] = o] /\ UNCHANGED <<boss, readers, writer>>
    BY <1>4 DEF Call, mutex
  <2>3. op'[t] = o /\ \A u \in Threads : u # t => op'[u] = op[u]
    BY <2>2
  <2> QED
    BY <1>2, <2>1, <2>2, <2>3
<1>5. ASSUME NEW t \in Threads, LockShared(t) \/ Relock(t) PROVE LockInv'
  <2>1. PICK l \in {"get", "spawn", "first_fold"} :
          pc' = [pc EXCEPT ![t] = l] /\ (l # "first_fold" => readers' = readers \cup {t})
    BY <1>5, Zenon DEF LockShared, Relock
  <2>2. /\ writer = NoThread /\ UNCHANGED <<op, boss, writer>> /\ pc[t] \in {"shared", "relock"}
        /\ readers' \in {readers, readers \cup {t}}
    BY <1>5 DEF LockShared, Relock, call
  <2> QED
    BY <2>1, <2>2
<1>6. ASSUME NEW t \in Threads, LockUnique(t) PROVE LockInv'
  <2>1. PICK l \in {"relock", "wait_models"} : pc' = [pc EXCEPT ![t] = l]
    BY <1>6, Zenon DEF LockUnique
  <2>2. /\ pc[t] \in {"unique", "first_fold"} /\ readers = {}
        /\ UNCHANGED <<op, boss, readers>>
    BY <1>6 DEF LockUnique, call
  <2> QED
    BY <2>1, <2>2
<1>7. ASSUME NEW t \in Threads, SetConstant(t) \/ FoldConstants(t) \/ FoldThrows(t) PROVE LockInv'
  <2>1. PICK l \in {"drain", "idle", "relock"} : pc' = [pc EXCEPT ![t] = l]
    BY <1>7, Zenon DEF SetConstant, FoldConstants, FoldThrows, AfterFold
  <2>2. /\ pc[t] = "wait_models" /\ writer' = NoThread /\ UNCHANGED <<boss, readers>>
        /\ \A u \in Threads : u # t => op'[u] = op[u]
    BY <1>7 DEF SetConstant, FoldConstants, FoldThrows, Quiesced
  <2> QED
    BY <2>1, <2>2
<1>8. ASSUME NEW t \in Threads, NEW workers \in SUBSET Threads, Spawn(t, workers) PROVE LockInv'
  <2>1. /\ pc[t] = "spawn" /\ \A w \in workers : pc[w] = "idle"
        /\ pc' = [u \in Threads |-> IF u \in workers THEN "get"
                                    ELSE IF u = t THEN "join" ELSE pc[u]]
        /\ boss' = [u \in Threads |-> IF u \in workers THEN t ELSE boss[u]]
        /\ op' = [u \in Threads |-> IF u \in workers THEN "benchmark" ELSE op[u]]
        /\ UNCHANGED <<readers, writer>>
    BY <1>8 DEF Spawn, mutex
  <2>2. t \in readers /\ t \notin workers /\ pc'[t] = "join"
    BY <2>1
  <2>3. ASSUME NEW u \in Threads, pc'[u] \in Inside, op'[u] # "profile"
        PROVE  u \in readers \/ (boss'[u] \in readers /\ pc'[boss'[u]] = "join")
    <3>1. CASE u \in workers
      BY <2>1, <2>2, <3>1
    <3>2. CASE u \notin workers
      BY <2>1, <2>2, <2>3, <3>2
    <3> QED
      BY <3>1, <3>2
  <2> QED
    BY <2>1, <2>2, <2>3
<1>9. ASSUME NEW t \in Threads, Join(t) \/ StreamDone(t) \/ WaitThrows(t) \/ PrepareThrows(t)
                                \/ RunThrows(t) \/ CreateEventThrows(t)
      PROVE  LockInv'
  <2>1. /\ pc' = [pc EXCEPT ![t] = "idle"] /\ op' = [op EXCEPT ![t] = "none"]
        /\ boss' = [boss EXCEPT ![t] = NoThread]
        /\ readers' = readers \ {t} /\ UNCHANGED writer
    BY <1>9 DEF Join, StreamDone, WaitThrows, PrepareThrows, RunThrows, CreateEventThrows,
       GiveBack, Return
  <2>2. \A u \in Threads : boss[u] = t => pc[t] # "join"
    BY <1>9 DEF Join, StreamDone, WaitThrows, PrepareThrows, RunThrows, CreateEventThrows
  <2>3. \A u \in Threads : u # t => op'[u] = op[u] /\ boss'[u] = boss[u]
    BY <2>1
  <2> QED
    BY <1>3, <2>1, <2>2, <2>3
<1>10. ASSUME NEW t \in Threads, NotifyOne(t) PROVE LockInv'
  <2>1. PICK l \in {"idle", "sync", "drain"}, woken \in Threads \cup {NoThread} :
          /\ pc' = [u \in Threads |-> IF u = t THEN l
                                      ELSE IF u = woken THEN "woken" ELSE pc[u]]
          /\ woken \in Threads => pc[woken] = "asleep"
    <3>1. PICK woken \in IF Sleepers = {} THEN {NoThread} ELSE Sleepers :
            pc' = [u \in Threads |-> IF u = t THEN AfterNotify(t)
                                     ELSE IF u = woken THEN "woken" ELSE pc[u]]
      BY <1>10, Zenon DEF NotifyOne
    <3>2. AfterNotify(t) \in {"sync", "drain", "idle"}
      BY DEF AfterNotify
    <3>3. /\ woken \in Threads \cup {NoThread}
          /\ woken \in Threads => pc[woken] = "asleep"
      BY <3>1 DEF Sleepers
    <3> QED
      BY <3>1, <3>2, <3>3, Zenon
  <2>2. /\ pc[t] = "notify" /\ UNCHANGED <<boss, writer>> /\ readers' \in {readers, readers \ {t}}
        /\ \A u \in Threads : u # t => op'[u] = op[u]
    BY <1>10 DEF NotifyOne, RunReturns
  <2> QED
    BY <2>1, <2>2
<1>11. ASSUME NEW t \in Threads,
             \/ TakeAvailable(t) \/ TakeFinished(t) \/ WaitForOldest(t) \/ SpuriousWakeup(t)
             \/ OldestFinished(t) \/ CreateEvents(t) \/ ModelRun(t) \/ ModelProfile(t)
             \/ Profiled(t) \/ PushPending(t)
      PROVE  LockInv'
  <2>1. PICK l \in (Inside \ {"spawn", "join"}) \cup {"notify"} : pc' = [pc EXCEPT ![t] = l]
    BY <1>11, Zenon DEF TakeAvailable, TakeFinished, TakeBack, WaitForOldest, SpuriousWakeup,
       OldestFinished, AfterTake, CreateEvents, ModelRun, ModelProfile, Profiled, PushPending
  <2>2. /\ UNCHANGED <<op, boss, readers, writer>> /\ pc[t] \in Inside \ {"spawn", "join"}
    BY <1>11 DEF TakeAvailable, TakeFinished, WaitForOldest, SpuriousWakeup,
       OldestFinished, CreateEvents, ModelRun, ModelProfile, Profiled, PushPending, mutex, call
  <2> QED
    BY <1>2, <2>1, <2>2
<1>12. ASSUME NEW t \in Threads, NEW i \in DOMAIN pending, WaitForAllModels(t, i) PROVE LockInv'
  BY <1>1, <1>12 DEF WaitForAllModels, mutex, call
<1>13. ASSUME NEW s \in Streams, DeviceFinishes(s) PROVE LockInv'
  BY <1>1, <1>13 DEF DeviceFinishes, mutex, call
<1>14. CASE UNCHANGED vars
  BY <1>1, <1>14 DEF vars, mutex, call
<1> QED
  BY <1>4, <1>5, <1>6, <1>7, <1>8, <1>9, <1>10, <1>11, <1>12, <1>13, <1>14 DEF Next, Step, Throw

\* Before the first fold, and before the first inference, no Model has run.
Fresh == ~folded \/ ~serving => \A m \in Models : ~InFlight(m)

\* Steps that queue nothing.
LEMMA Unsubmitted ==
  ASSUME NEW t \in Threads,
         \/ \E o \in Ops, s \in Streams : Call(t, o, s)
         \/ LockShared(t) \/ LockUnique(t) \/ Relock(t)
         \/ \E i \in DOMAIN pending : WaitForAllModels(t, i)
         \/ SetConstant(t) \/ \E workers \in SUBSET Threads : Spawn(t, workers)
         \/ Join(t) \/ TakeAvailable(t) \/ TakeFinished(t) \/ WaitForOldest(t)
         \/ OldestFinished(t) \/ CreateEvents(t) \/ Profiled(t)
         \/ PushPending(t) \/ NotifyOne(t) \/ StreamDone(t)
         \/ FoldThrows(t) \/ WaitThrows(t) \/ PrepareThrows(t) \/ CreateEventThrows(t)
         \/ SpuriousWakeup(t)
  PROVE  queue' = queue
  BY DEF Call, LockShared, LockUnique, Relock, WaitForAllModels, SetConstant, Spawn, Join,
     TakeAvailable, TakeFinished, WaitForOldest, OldestFinished, CreateEvents, Profiled,
     PushPending, NotifyOne, RunReturns, StreamDone, FoldThrows, WaitThrows, PrepareThrows,
     CreateEventThrows, SpuriousWakeup

LEMMA FolderIsNoModel == Folder \notin Models /\ Folder # NoModel
  BY ConstantsAssumption DEF Models, Folder, NoModel

\* Folding leaves the Models as idle, and as covered, as they were.
LEMMA FoldAside ==
  ASSUME TypeOK, NEW t \in Threads, FoldConstants(t), NEW m \in Models
  PROVE  /\ Covered(m) => Covered(m)'
         /\ ~InFlight(m) => ~InFlight(m)'
<1>1. Submit(t, Folder, TRUE) /\ m # Folder
  BY FolderIsNoModel DEF FoldConstants
<1> QED
  BY <1>1, SubmitAside

LEMMA FreshStep ==
  ASSUME ~LiveUpdates
  PROVE  TypeInv /\ Ordered /\ Fresh /\ [Next]_vars => Fresh'
<1> SUFFICES ASSUME TypeInv, Ordered, Fresh, [Next]_vars PROVE Fresh'
  OBVIOUS
<1>1. ASSUME NEW t \in Threads, ModelRun(t) \/ ModelProfile(t) \/ RunThrows(t) PROVE Fresh'
  <2>1. pc[t] \in Inside /\ UNCHANGED <<folded, serving>>
    BY <1>1 DEF ModelRun, ModelProfile, RunThrows, Inside, Holders, history
  <2>2. folded /\ serving /\ folded \in BOOLEAN /\ serving \in BOOLEAN
    BY <2>1 DEF Ordered, FoldedFirst, MaintenanceFirst, TypeInv, TypeOK
  <2> QED
    BY <2>1, <2>2 DEF Fresh
<1>2. ASSUME \A m \in Models : ~InFlight(m) => ~InFlight(m)',
             folded' \in {folded, TRUE}, serving' \in {serving, TRUE}
      PROVE  Fresh'
  <2>1. ~folded' \/ ~serving' => ~folded \/ ~serving
    BY <1>2
  <2> QED
    BY <1>2, <2>1 DEF Fresh
<1>3. ASSUME NEW t \in Threads, FoldConstants(t) PROVE Fresh'
  <2>1. \A m \in Models : ~InFlight(m) => ~InFlight(m)'
    BY <1>3, FoldAside DEF TypeInv
  <2> QED
    BY <1>2, <1>3, <2>1 DEF FoldConstants, history
<1>4. ASSUME NEW s \in Streams, DeviceFinishes(s) PROVE Fresh'
  <2>1. \A m \in Models : ~InFlight(m) => ~InFlight(m)'
    BY <1>4, FinishAside DEF TypeInv
  <2> QED
    BY <1>2, <1>4, <2>1 DEF DeviceFinishes, history
<1>5. ASSUME queue' = queue, folded' = folded, serving' \in {serving, TRUE} PROVE Fresh'
  BY <1>2, <1>5 DEF InFlight
<1>6. CASE UNCHANGED vars
  BY <1>5, <1>6 DEF vars, history
<1>7. ASSUME NEW t \in Threads,
         \/ \E o \in Ops, s \in Streams : Call(t, o, s)
         \/ LockShared(t) \/ LockUnique(t) \/ Relock(t)
         \/ \E i \in DOMAIN pending : WaitForAllModels(t, i)
         \/ SetConstant(t) \/ \E workers \in SUBSET Threads : Spawn(t, workers)
         \/ Join(t) \/ TakeAvailable(t) \/ TakeFinished(t) \/ WaitForOldest(t)
         \/ OldestFinished(t) \/ CreateEvents(t) \/ Profiled(t)
         \/ PushPending(t) \/ NotifyOne(t) \/ StreamDone(t)
         \/ FoldThrows(t) \/ WaitThrows(t) \/ PrepareThrows(t) \/ CreateEventThrows(t)
         \/ SpuriousWakeup(t)
      PROVE  Fresh'
  <2>1. queue' = queue
    BY <1>7, Unsubmitted
  <2>2. folded' = folded
    BY <1>7 DEF Call, LockShared, LockUnique, Relock, WaitForAllModels, SetConstant, Spawn, Join,
       TakeAvailable, TakeFinished, WaitForOldest, OldestFinished, CreateEvents, Profiled,
       PushPending, NotifyOne, RunReturns, StreamDone, FoldThrows, WaitThrows, PrepareThrows,
       CreateEventThrows, SpuriousWakeup
  <2>3. serving' \in {serving, TRUE}
    BY <1>7 DEF Call, LockShared, LockUnique, Relock, WaitForAllModels, SetConstant, Spawn, Join,
       TakeAvailable, TakeFinished, WaitForOldest, OldestFinished, CreateEvents, Profiled,
       PushPending, NotifyOne, RunReturns, StreamDone, FoldThrows, WaitThrows, PrepareThrows,
       CreateEventThrows, SpuriousWakeup, history, TypeInv, TypeOK
  <2> QED
    BY <1>5, <2>1, <2>2, <2>3
<1> QED
  BY <1>1, <1>3, <1>4, <1>6, <1>7 DEF Next, Step, Throw

\* The same while the clients update constants at any time: what the wait for
\* all Models relies on when there is one stream and no operator throws.
\* Every stream of kernels ends with the event that was recorded last ...
AllCovered == \A m \in Models \cup {Folder} : Covered(m)

\* ... a Model the device works on is pending, or with a thread that knows so ...
Awaiting == {"wait_one", "iterating", "push"}

BusyKept ==
  \A m \in Models : InFlight(m) =>
    \/ m \in Range(pending)
    \/ \E t \in Threads : held[t] = m /\ pc[t] \in Awaiting

\* ... and the Models the loop has passed are idle.
WaitedFor ==
  \A t \in Threads : pc[t] = "wait_models" =>
    \A i \in DOMAIN pending : i < todo[t] => ~InFlight(pending[i])

LockedOut == TypeInv /\ FoldedFirst /\ LockInv /\ WaitInv

QuietInv == AllCovered /\ BusyKept /\ WaitedFor

\* Nobody waits for all Models while a thread is inside an inference.
LEMMA Alone ==
  ASSUME "profile" \notin Ops, LockedOut, NEW t \in Threads, pc[t] \in Inside
  PROVE  \A u \in Threads : pc[u] # "wait_models"
<1>1. op[t] # "profile"
  BY DEF LockedOut, TypeInv, TypeOK
<1>2. readers # {}
  BY <1>1 DEF LockedOut, LockInv
<1>3. writer = NoThread
  BY <1>2 DEF LockedOut, LockInv
<1> QED
  BY <1>3, ConstantsAssumption DEF LockedOut, WaitInv

\* A step that neither touches streams nor lists and takes nobody's hands off.
LEMMA QuietStill ==
  ASSUME QuietInv, UNCHANGED <<queue, pending>>,
         \A t \in Threads : pc[t] \in Awaiting => pc'[t] \in Awaiting /\ held'[t] = held[t],
         \A t \in Threads : pc'[t] = "wait_models" =>
           (pc[t] = "wait_models" \/ todo[t] = 1 \/ pending = <<>>) /\ todo'[t] = todo[t],
         pending \in Seq(Models)
  PROVE  QuietInv'
<1>1. \A m : Covered(m)' = Covered(m) /\ InFlight(m)' = InFlight(m)
  BY DEF Covered, InFlight
<1>2. \A i \in DOMAIN pending : ~(i < 1) /\ pending # <<>>
  BY LenProperties
<1>3. WaitedFor'
  BY <1>1, <1>2 DEF QuietInv, WaitedFor
<1>4. BusyKept'
  BY <1>1 DEF QuietInv, BusyKept
<1>5. AllCovered'
  BY <1>1 DEF QuietInv, AllCovered
<1> QED
  BY <1>3, <1>4, <1>5 DEF QuietInv

\* A step of a thread inside an inference that queues nothing: whatever it lets
\* go is pending, or is idle.
LEMMA QuietInside ==
  ASSUME QuietInv, queue' = queue, NEW t \in Threads,
         \A u \in Threads : pc'[u] # "wait_models",
         \A u \in Threads : u # t => held'[u] = held[u] /\ (pc[u] \in Awaiting => pc'[u] \in Awaiting),
         \A m \in Models : m \in Range(pending) \/ (m = held[t] /\ pc[t] \in Awaiting) =>
           \/ m \in Range(pending') \/ ~InFlight(m)
           \/ m = held'[t] /\ pc'[t] \in Awaiting
  PROVE  QuietInv'
<1>1. \A m : Covered(m)' = Covered(m) /\ InFlight(m)' = InFlight(m)
  BY DEF Covered, InFlight
<1>2. ASSUME NEW m \in Models, InFlight(m)'
      PROVE  m \in Range(pending') \/ \E u \in Threads : held'[u] = m /\ pc'[u] \in Awaiting
  <2>1. InFlight(m)
    BY <1>1, <1>2
  <2>2. m \in Range(pending) \/ \E u \in Threads : held[u] = m /\ pc[u] \in Awaiting
    BY <2>1 DEF QuietInv, BusyKept
  <2>3. CASE \E u \in Threads \ {t} : held[u] = m /\ pc[u] \in Awaiting
    BY <2>3
  <2>4. CASE m \in Range(pending) \/ (m = held[t] /\ pc[t] \in Awaiting)
    BY <2>1, <2>4
  <2> QED
    BY <2>2, <2>3, <2>4
<1> QED
  BY <1>1, <1>2 DEF QuietInv, AllCovered, BusyKept, WaitedFor

\* With one stream, kernels followed by EventRecord are covered by it.
LEMMA SubmitCovers ==
  ASSUME TypeOK, \A r, s \in Streams : r = s, NEW t \in Threads, NEW m \in Models \cup {Folder},
         NEW recorded \in BOOLEAN, Submit(t, m, recorded)
  PROVE  recorded => Covered(m)'
<1>1. ASSUME NEW s \in Streams
      PROVE  /\ \A j \in DOMAIN queue'[s] \ DOMAIN queue[s] :
                  /\ \A k \in DOMAIN queue'[s] : j >= k
                  /\ queue'[s][j].model = m /\ queue'[s][j].latest = recorded
             /\ \E j \in DOMAIN queue'[s] : j \notin DOMAIN queue[s]
  <2>1. /\ \A j \in DOMAIN queue[s] :
             /\ j \in DOMAIN queue'[s] /\ queue'[s][j].model = queue[s][j].model
             /\ queue[s][j].model # m => queue'[s][j].latest = queue[s][j].latest
             /\ queue'[s][j].by = queue[s][j].by
        /\ \A j \in DOMAIN queue'[s] \ DOMAIN queue[s] :
             /\ s = stream[t] /\ \A k \in DOMAIN queue'[s] : j >= k
             /\ queue'[s][j] = [model |-> m, by |-> t, latest |-> recorded]
        /\ s = stream[t] => DOMAIN queue'[s] # DOMAIN queue[s]
    BY Submitted
  <2>2. s = stream[t]
    BY DEF TypeOK
  <2>3. \A j \in DOMAIN queue'[s] \ DOMAIN queue[s] :
          /\ \A k \in DOMAIN queue'[s] : j >= k
          /\ queue'[s][j].model = m /\ queue'[s][j].latest = recorded
    BY <2>1
  <2>4. DOMAIN queue'[s] # DOMAIN queue[s] /\ DOMAIN queue[s] \subseteq DOMAIN queue'[s]
    BY <2>1, <2>2
  <2> QED
    BY <2>3, <2>4
<1> QED
  BY <1>1 DEF Covered

\* std::stable_partition drops no unfinished Model.
LEMMA UnfinishedStays ==
  ASSUME TypeOK, NEW k \in 0 .. Len(pending),
         NEW p \in Bijection(DOMAIN pending, DOMAIN pending), StablePartition(p, k)
  PROVE  \A m \in Range(pending) : m \in Range(Unfinished(p, k)) \/ ~IsPending(m)
<1>1. DOMAIN pending = 1 .. Len(pending) /\ Len(pending) \in Nat /\ pending \in Seq(Models)
  BY LenProperties DEF TypeOK
<1>2. /\ p \in Bijection(1 .. Len(pending), 1 .. Len(pending)) /\ DOMAIN p = DOMAIN pending
      /\ Unfinished(p, k) = Front(pending, p, k) /\ Finished(p, k) = Back(pending, p, k)
  BY <1>1 DEF Unfinished, Finished, Front, Back, Bijection, Injection
<1>3. Range(Unfinished(p, k)) \cup Range(Finished(p, k)) = Range(pending)
  BY <1>1, <1>2, Partition
<1>4. ASSUME NEW m \in Range(Finished(p, k)) PROVE ~IsPending(m)
  <2>1. PICK i \in 1 .. Len(pending) - k : m = pending[p[k + i]]
    BY <1>4 DEF Range, Finished
  <2>2. k + i \in DOMAIN p /\ ~(k + i <= k)
    BY <1>1, <1>2, <2>1
  <2> QED
    BY <2>1, <2>2 DEF StablePartition
<1> QED
  BY <1>3, <1>4

\* Every step keeps what maintenance relies on.
LEMMA QuietStep ==
  ASSUME "profile" \notin Ops, "midrun" \notin FailureKinds, \A r, s \in Streams : r = s
  PROVE  LockedOut /\ QuietInv /\ [Next]_vars => QuietInv'
<1> SUFFICES ASSUME LockedOut, QuietInv, [Next]_vars PROVE QuietInv'
  OBVIOUS
<1>1. /\ TypeOK /\ HeldExactly /\ pending \in Seq(Models) /\ pc \in [Threads -> Labels]
      /\ held \in [Threads -> Models \cup {NoModel}] /\ todo \in [Threads -> Nat]
  BY DEF LockedOut, TypeInv, TypeOK
<1>2. ASSUME NEW t \in Threads, pc[t] \in Inside, NEW l \in Labels \ {"wait_models"},
             pc' = [pc EXCEPT ![t] = l], queue' = queue,
             \A u \in Threads : u # t => held'[u] = held[u],
             \A m \in Models : m \in Range(pending) \/ (m = held[t] /\ pc[t] \in Awaiting) =>
               \/ m \in Range(pending') \/ ~InFlight(m)
               \/ m = held'[t] /\ l \in Awaiting
      PROVE  QuietInv'
  <2>1. /\ \A u \in Threads : pc'[u] # "wait_models"
        /\ pc'[t] = l /\ \A u \in Threads : u # t => pc'[u] = pc[u]
    BY <1>1, <1>2, Alone
  <2> QED
    BY <1>2, <2>1, QuietInside
<1>3. ASSUME NEW m \in Models, ~IsPending(m) PROVE ~InFlight(m)
  BY <1>3, CoveredIdle DEF QuietInv, AllCovered
\* Calls, locks and returns.
<1>4. ASSUME NEW t \in Threads, NEW l \in Labels \ {"wait_models"}, pc[t] \notin Awaiting,
             pc' = [pc EXCEPT ![t] = l], UNCHANGED <<pending, queue, held>>,
             \A u \in Threads : u # t => todo'[u] = todo[u]
      PROVE  QuietInv'
  BY <1>1, <1>4, QuietStill
<1>5. ASSUME NEW t \in Threads,
             \/ \E o \in Ops, s \in Streams : Call(t, o, s)
             \/ LockShared(t) \/ Relock(t) \/ SetConstant(t) \/ FoldThrows(t) \/ Join(t)
             \/ StreamDone(t) \/ SpuriousWakeup(t) \/ CreateEvents(t)
      PROVE  QuietInv'
  <2>1. PICK l \in Labels \ {"wait_models"} : pc' = [pc EXCEPT ![t] = l]
    BY <1>5, Zenon DEF Call, LockShared, Relock, SetConstant, FoldThrows, Join, StreamDone,
       SpuriousWakeup, CreateEvents, Return, Goto, Labels
  <2>2. /\ pc[t] \notin Awaiting /\ UNCHANGED <<pending, queue, held>>
        /\ \A u \in Threads : u # t => todo'[u] = todo[u]
    BY <1>1, <1>5 DEF Call, LockShared, Relock, SetConstant, FoldThrows, Join, StreamDone,
       SpuriousWakeup, CreateEvents, Quiesced, Awaiting, lists
  <2> QED
    BY <1>4, <2>1, <2>2
<1>6. ASSUME NEW t \in Threads, LockUnique(t) PROVE QuietInv'
  <2>1. /\ pc[t] \in {"unique", "first_fold"} /\ UNCHANGED <<pending, queue, held, todo>>
    BY <1>6 DEF LockUnique, lists
  <2>2. CASE pc[t] = "first_fold" /\ folded
    <3>1. pc' = [pc EXCEPT ![t] = "relock"]
      BY <1>6, <2>2 DEF LockUnique, Goto
    <3> QED
      BY <1>4, <2>1, <3>1 DEF Labels, Awaiting
  <2>3. CASE ~(pc[t] = "first_fold" /\ folded)
    <3>1. pc' = [pc EXCEPT ![t] = "wait_models"]
      BY <1>6, <2>3 DEF LockUnique, Goto
    <3>2. todo[t] = 1 \/ pending = <<>>
      BY <2>1, <2>3 DEF LockedOut, WaitInv, FoldedFirst
    <3>3. /\ \A u \in Threads : pc[u] \in Awaiting => pc'[u] \in Awaiting /\ held'[u] = held[u]
          /\ \A u \in Threads : pc'[u] = "wait_models" =>
               (pc[u] = "wait_models" \/ todo[u] = 1 \/ pending = <<>>) /\ todo'[u] = todo[u]
      BY <1>1, <2>1, <3>1, <3>2 DEF Awaiting
    <3> QED
      BY <1>1, <2>1, <3>3, QuietStill
  <2> QED
    BY <2>2, <2>3
<1>7. ASSUME NEW t \in Threads, NEW i \in DOMAIN pending, WaitForAllModels(t, i) PROVE QuietInv'
  <2>1. /\ pc[t] = "wait_models" /\ i = todo[t] /\ ~IsPending(pending[i])
        /\ todo' = [todo EXCEPT ![t] = i + 1] /\ UNCHANGED <<pending, queue, pc, held>>
    BY <1>7 DEF WaitForAllModels
  <2>2. ~InFlight(pending[i]) /\ DOMAIN pending \subseteq Nat
    BY <1>1, <1>3, <2>1, LenProperties, ElementOfSeq
  <2>3. \A m : Covered(m)' = Covered(m) /\ InFlight(m)' = InFlight(m)
    BY <2>1 DEF Covered, InFlight
  <2>4. ASSUME NEW u \in Threads, pc'[u] = "wait_models", NEW j \in DOMAIN pending', j < todo'[u]
        PROVE  ~InFlight(pending[j])
    <3>1. j \in DOMAIN pending /\ pc[u] = "wait_models"
      BY <2>1, <2>4
    <3>2. j < todo[u] => ~InFlight(pending[j])
      BY <3>1 DEF QuietInv, WaitedFor
    <3>3. u # t => todo'[u] = todo[u]
      BY <1>1, <2>1
    <3>4. u = t => j < i \/ j = i
      BY <1>1, <2>1, <2>2, <2>4, <3>1
    <3> QED
      BY <2>1, <2>2, <2>4, <3>2, <3>3, <3>4
  <2>5. WaitedFor'
    BY <2>1, <2>3, <2>4 DEF WaitedFor
  <2> QED
    BY <2>1, <2>3, <2>5 DEF QuietInv, AllCovered, BusyKept
<1>8. ASSUME NEW t \in Threads, NEW workers \in SUBSET Threads, Spawn(t, workers) PROVE QuietInv'
  <2>1. /\ pc[t] = "spawn" /\ \A w \in workers : pc[w] = "idle"
        /\ pc' = [u \in Threads |-> IF u \in workers THEN "get"
                                    ELSE IF u = t THEN "join" ELSE pc[u]]
        /\ todo' = [u \in Threads |-> IF u \in workers THEN todo[t] ELSE todo[u]]
        /\ UNCHANGED <<pending, queue, held>>
    BY <1>8 DEF Spawn, lists
  <2> QED
    BY <1>1, <2>1, QuietStill DEF Awaiting
<1>9. ASSUME NEW t \in Threads, NotifyOne(t) PROVE QuietInv'
  <2>1. PICK l \in {"idle", "sync", "drain"}, woken \in Threads \cup {NoThread} :
          /\ pc' = [u \in Threads |-> IF u = t THEN l
                                      ELSE IF u = woken THEN "woken" ELSE pc[u]]
          /\ woken \in Threads => pc[woken] = "asleep"
    <3>1. PICK woken \in IF Sleepers = {} THEN {NoThread} ELSE Sleepers :
            pc' = [u \in Threads |-> IF u = t THEN AfterNotify(t)
                                     ELSE IF u = woken THEN "woken" ELSE pc[u]]
      BY <1>9, Zenon DEF NotifyOne
    <3>2. AfterNotify(t) \in {"sync", "drain", "idle"}
      BY DEF AfterNotify
    <3>3. /\ woken \in Threads \cup {NoThread}
          /\ woken \in Threads => pc[woken] = "asleep"
      BY <3>1, ConstantsAssumption DEF Sleepers
    <3> QED
      BY <3>1, <3>2, <3>3, Zenon
  <2>2. pc[t] = "notify" /\ UNCHANGED <<pending, queue, held, todo>>
    BY <1>9 DEF NotifyOne, RunReturns, lists
  <2> QED
    BY <1>1, <2>1, <2>2, QuietStill DEF Awaiting
\* Taking a Model and letting it go.
<1>10. ASSUME NEW t \in Threads, TakeAvailable(t) PROVE QuietInv'
  <2>1. PICK l \in {"events", "holding"} : pc' = [pc EXCEPT ![t] = l]
    BY <1>10, Zenon DEF TakeAvailable, TakeBack, AfterTake, Goto
  <2>2. /\ pc[t] = "get" /\ queue' = queue /\ pending' = pending
        /\ \A u \in Threads : u # t => held'[u] = held[u]
    BY <1>1, <1>10 DEF TakeAvailable, TakeBack
  <2> QED
    BY <1>2, <2>1, <2>2 DEF Inside, Labels, Awaiting
<1>11. ASSUME NEW t \in Threads, TakeFinished(t) PROVE QuietInv'
  <2>1. PICK k \in 0 .. Len(pending), p \in Bijection(DOMAIN pending, DOMAIN pending) :
          StablePartition(p, k) /\ pending' = Unfinished(p, k) /\ TakeBack(t, Finished(p, k))
    BY <1>11, Zenon DEF TakeFinished
  <2>2. PICK l \in {"events", "holding"} : pc' = [pc EXCEPT ![t] = l]
    BY <2>1, Zenon DEF TakeBack, AfterTake, Goto
  <2>3. /\ pc[t] = "get" /\ queue' = queue
        /\ \A u \in Threads : u # t => held'[u] = held[u]
    BY <1>1, <1>11, <2>1 DEF TakeFinished, TakeBack
  <2>4. Range(pending) \subseteq Models
    BY <1>1, LenProperties, ElementOfSeq DEF Range
  <2>5. \A m \in Range(pending) : m \in Range(pending') \/ ~InFlight(m)
    BY <1>1, <1>3, <2>1, <2>4, UnfinishedStays
  <2> QED
    BY <1>2, <2>2, <2>3, <2>5 DEF Inside, Labels, Awaiting
<1>12. ASSUME NEW t \in Threads, WaitForOldest(t) PROVE QuietInv'
  <2>1. pc[t] \in {"woken", "get"} /\ queue' = queue
    BY <1>12 DEF WaitForOldest
  <2>2. CASE pending = <<>>
    <3>1. pc' = [pc EXCEPT ![t] = "asleep"] /\ UNCHANGED <<held, pending>>
      BY <1>12, <2>2 DEF WaitForOldest, Goto
    <3> QED
      BY <1>2, <2>1, <3>1 DEF Inside, Labels, Awaiting
  <2>3. CASE pending # <<>>
    <3>1. /\ pc' = [pc EXCEPT ![t] = "wait_one"]
          /\ held' = [held EXCEPT ![t] = Head(pending)] /\ pending' = Tail(pending)
      BY <1>12, <2>3 DEF WaitForOldest, Goto
    <3>2. Range(pending) = Range(pending') \cup {held'[t]}
      BY <1>1, <2>3, <3>1, PopFront
    <3>3. \A u \in Threads : u # t => held'[u] = held[u]
      BY <1>1, <3>1
    <3> QED
      BY <1>2, <2>1, <3>1, <3>2, <3>3 DEF Inside, Labels, Awaiting
  <2> QED
    BY <2>2, <2>3
<1>13. ASSUME NEW t \in Threads, OldestFinished(t) \/ Profiled(t) PROVE QuietInv'
  <2>1. PICK l \in {"events", "holding", "push"} : pc' = [pc EXCEPT ![t] = l]
    BY <1>13, Zenon DEF OldestFinished, Profiled, AfterTake, Goto
  <2>2. pc[t] \in {"wait_one", "profiling"} /\ UNCHANGED <<pending, queue, held>>
    BY <1>13 DEF OldestFinished, Profiled, lists
  <2>3. pc[t] \in Awaiting => ~IsPending(held[t])
    BY <1>13 DEF OldestFinished, Profiled, Awaiting
  <2> QED
    BY <1>2, <1>3, <2>1, <2>2, <2>3 DEF Inside, Holders, Labels
<1>14. ASSUME NEW t \in Threads,
              PushPending(t) \/ WaitThrows(t) \/ PrepareThrows(t) \/ CreateEventThrows(t)
       PROVE  QuietInv'
  <2>1. PICK l \in {"notify", "idle"} : pc' = [pc EXCEPT ![t] = l]
    BY <1>14, Zenon DEF PushPending, WaitThrows, PrepareThrows, CreateEventThrows, GiveBack,
       Return, Goto
  <2>2. /\ pc[t] \in {"push", "wait_one", "holding", "events"} /\ queue' = queue
        /\ \A u \in Threads : u # t => held'[u] = held[u]
    BY <1>1, <1>14 DEF PushPending, WaitThrows, PrepareThrows, CreateEventThrows, GiveBack
  <2>3. held[t] \in Models
    BY <1>1, <2>2 DEF HeldExactly, Holders
  <2>4. Range(Append(pending, held[t])) = Range(pending) \cup {held[t]}
    BY <1>1, <2>3, PushBack
  <2>5. \/ pending' = Append(pending, held[t])
        \/ pending' = pending /\ (pc[t] \in Awaiting => ~IsPending(held[t]))
    BY <1>14 DEF PushPending, WaitThrows, PrepareThrows, CreateEventThrows, Awaiting, lists
  <2> QED
    BY <1>2, <1>3, <2>1, <2>2, <2>3, <2>4, <2>5 DEF Inside, Holders, Labels
\* The device.
<1>15. ASSUME NEW t \in Threads, ModelRun(t) PROVE QuietInv'
  <2>1. PICK l \in {"push", "iterating"} : pc' = [pc EXCEPT ![t] = l]
    BY <1>15, Zenon DEF ModelRun, Goto
  <2>2. /\ pc[t] \in {"holding", "iterating"} /\ Submit(t, held[t], TRUE)
        /\ UNCHANGED <<pending, held>>
    BY <1>15 DEF ModelRun, lists
  <2>3. held[t] \in Models
    BY <1>1, <2>2 DEF HeldExactly, Holders
  <2>4. PICK m \in Models : m = held[t] /\ m = held'[t]
    BY <2>2, <2>3
  <2>5. Covered(m)'
    BY <1>1, <2>2, <2>4, SubmitCovers
  <2>6. ASSUME NEW n, n # m
        PROVE  /\ Covered(n) => Covered(n)'
               /\ ~InFlight(n) => ~InFlight(n)'
    <3>1. Submit(t, m, TRUE)
      BY <2>2, <2>4
    <3> QED
      BY <1>1, <2>6, <3>1, SubmitAside
  <2>7. AllCovered'
    BY <2>5, <2>6 DEF QuietInv, AllCovered
  <2>8. \A u \in Threads : pc[u] \in Awaiting \/ u = t => pc'[u] \in Awaiting
    BY <1>1, <2>1 DEF Awaiting
  <2>9. ASSUME NEW n \in Models, InFlight(n)'
        PROVE  n \in Range(pending') \/ \E u \in Threads : held'[u] = n /\ pc'[u] \in Awaiting
    <3>1. CASE n = m
      BY <2>4, <2>8, <3>1
    <3>2. CASE n # m
      BY <2>2, <2>6, <2>8, <2>9, <3>2 DEF QuietInv, BusyKept
    <3> QED
      BY <3>1, <3>2
  <2>10. \A u \in Threads : pc'[u] # "wait_models"
    BY <1>1, <2>1, <2>2, Alone DEF Inside, Holders
  <2> QED
    BY <2>7, <2>9, <2>10 DEF QuietInv, BusyKept, WaitedFor
<1>16. ASSUME NEW t \in Threads, FoldConstants(t) PROVE QuietInv'
  <2>1. PICK l \in {"drain", "idle", "relock"} : pc' = [pc EXCEPT ![t] = l]
    BY <1>16, Zenon DEF FoldConstants, AfterFold, Goto
  <2>2. /\ pc[t] = "wait_models" /\ Submit(t, Folder, TRUE)
        /\ UNCHANGED <<pending, held, todo>>
    BY <1>16 DEF FoldConstants, Quiesced, lists
  <2>3. \A m \in Models : /\ Covered(m) => Covered(m)'
                          /\ ~InFlight(m) => ~InFlight(m)'
    BY <1>1, <1>16, FoldAside
  <2>4. Covered(Folder)'
    BY <1>1, <2>2, SubmitCovers
  <2>5. \A u \in Threads : pc[u] \in Awaiting => pc'[u] \in Awaiting
    BY <1>1, <2>1, <2>2 DEF Awaiting
  <2>6. WaitedFor'
    <3>1. \A u \in Threads : pc'[u] = "wait_models" => pc[u] = "wait_models"
      BY <1>1, <2>1
    <3>2. \A i \in DOMAIN pending : pending[i] \in Models
      BY <1>1, LenProperties, ElementOfSeq
    <3>3. ASSUME NEW u \in Threads, pc'[u] = "wait_models", NEW i \in DOMAIN pending', i < todo'[u]
          PROVE  ~InFlight(pending[i])'
      <4>1. PICK m \in Models : m = pending[i] /\ m = pending'[i]
        BY <2>2, <3>2, <3>3
      <4>2. ~InFlight(m)
        BY <2>2, <3>1, <3>3, <4>1 DEF QuietInv, WaitedFor
      <4> QED
        BY <2>3, <4>1, <4>2 DEF InFlight
    <3> QED
      BY <3>3 DEF WaitedFor
  <2>7. AllCovered'
    BY <2>3, <2>4 DEF QuietInv, AllCovered
  <2>8. BusyKept'
    BY <2>2, <2>3, <2>5 DEF QuietInv, BusyKept
  <2> QED
    BY <2>6, <2>7, <2>8 DEF QuietInv
<1>17. ASSUME NEW s \in Streams, DeviceFinishes(s) PROVE QuietInv'
  <2>1. UNCHANGED <<pending, pc, held, todo>>
    BY <1>17 DEF DeviceFinishes, lists
  <2>2. \A m : /\ Covered(m) => Covered(m)'
               /\ ~InFlight(m) => ~InFlight(m)'
    BY <1>1, <1>17, FinishAside
  <2>3. WaitedFor'
    <3>1. ASSUME NEW u \in Threads, pc'[u] = "wait_models", NEW i \in DOMAIN pending', i < todo'[u]
          PROVE  ~InFlight(pending[i])'
      <4>1. PICK m : m = pending[i] /\ m = pending'[i]
        BY <2>1, <3>1
      <4>2. ~InFlight(m)
        BY <2>1, <3>1, <4>1 DEF QuietInv, WaitedFor
      <4> QED
        BY <2>2, <4>1, <4>2 DEF InFlight
    <3> QED
      BY <3>1 DEF WaitedFor
  <2> QED
    BY <2>1, <2>2, <2>3 DEF QuietInv, AllCovered, BusyKept
<1>18. CASE UNCHANGED vars
  <2>1. UNCHANGED <<pending, queue, pc, held, todo>>
    BY <1>18 DEF vars, lists
  <2> QED
    BY <1>1, <2>1, QuietStill
<1>19. ASSUME NEW t \in Threads, RunThrows(t) \/ ModelProfile(t) PROVE FALSE
  BY <1>19, <1>1 DEF RunThrows, MayFail, ModelProfile, TypeOK
<1> QED
  BY <1>5, <1>6, <1>7, <1>8, <1>9, <1>10, <1>11, <1>12, <1>13, <1>14, <1>15, <1>16, <1>17, <1>18, <1>19 DEF Next, Step, Throw

LEMMA QuietInit == Init => QuietInv /\ LockInv /\ FoldedFirst /\ WaitInv /\ Fresh
<1> SUFFICES ASSUME Init PROVE QuietInv /\ LockInv /\ FoldedFirst /\ WaitInv /\ Fresh
  OBVIOUS
<1>1. \A s \in Streams : DOMAIN queue[s] = {}
  BY DEF Init
<1>2. \A m : ~InFlight(m) /\ Covered(m)
  BY <1>1 DEF InFlight, Covered
<1>3. \A t \in Threads : pc[t] = "idle"
  BY DEF Init
<1> QED
  BY <1>2, <1>3 DEF Init, QuietInv, AllCovered, BusyKept, WaitedFor, LockInv, FoldedFirst, WaitInv,
     Fresh, Inside, Holders

\* Constants are set, and folding starts, while no Model runs and no thread is
\* about to queue one: always when maintenance is over before the first
\* inference, and with live updates when the clients share one stream and no
\* operator throws half way (with several streams, or work that no event
\* follows, the wait for the events is not a wait for the work).
THEOREM MaintenanceIsQuietCorrect ==
  ASSUME ~LiveUpdates \/ ("midrun" \notin FailureKinds /\ \A r, s \in Streams : r = s)
  PROVE  Spec => []MaintenanceIsQuiet
<1>1. Spec => []LockedOut
  <2>1. LockedOut /\ [Next]_vars => LockedOut'
    BY TypeStep, FoldedStep, LockStep, WaitStep DEF LockedOut
  <2>2. Init => LockedOut
    BY TypeInit, QuietInit DEF LockedOut
  <2> QED
    BY <2>1, <2>2, PTL DEF Spec
<1>2. CASE "profile" \in Ops
  <2>1. LockedOut => MaintenanceIsQuiet
    BY <1>2, ProfileAssumption DEF LockedOut, TypeInv, TypeOK, FoldedFirst, WaitInv, Quiesced,
       MaintOps, MaintenanceIsQuiet
  <2> QED
    BY <1>1, <2>1, PTL
<1>3. CASE ~LiveUpdates
  <2>1. OwnerInv /\ Fresh /\ [Next]_vars => Fresh'
    BY <1>3, FreshStep DEF OwnerInv
  <2>2. OwnerInv /\ Fresh => MaintenanceIsQuiet
    BY DEF OwnerInv, Ordered, FoldedFirst, MaintenanceFirst, Exclusive, Quiesced, Fresh,
       MaintenanceIsQuiet, Inside, Holders
  <2>3. Spec => []OwnerInv
    BY <1>3, AlwaysOwnerInv
  <2> QED
    BY <2>1, <2>2, <2>3, QuietInit, PTL DEF Spec
<1>4. CASE "profile" \notin Ops /\ "midrun" \notin FailureKinds /\ \A r, s \in Streams : r = s
  <2>1. LockedOut /\ QuietInv /\ [Next]_vars => QuietInv'
    BY <1>4, QuietStep
  <2>2. LockedOut /\ QuietInv => MaintenanceIsQuiet
    <3> SUFFICES ASSUME LockedOut, QuietInv, NEW t \in Threads, Quiesced(t)
                 PROVE  /\ \A m \in Models : ~InFlight(m)
                        /\ \A u \in Threads : pc[u] \notin {"events", "holding", "iterating"}
      BY DEF MaintenanceIsQuiet
    <3>1. pc[t] = "wait_models" /\ todo[t] > Len(pending)
      BY DEF Quiesced
    <3>2. \A u \in Threads : pc[u] \notin Inside
      BY <1>4, <3>1, Alone
    <3>3. \A i \in DOMAIN pending : i < todo[t]
      <4>1. /\ DOMAIN pending = 1 .. Len(pending) /\ Len(pending) \in Nat /\ todo[t] \in Nat
        BY LenProperties DEF LockedOut, TypeInv, TypeOK
      <4> QED
        BY <3>1, <4>1
    <3>4. \A m \in Range(pending) : ~InFlight(m)
      BY <3>1, <3>3 DEF QuietInv, WaitedFor, Range
    <3> QED
      BY <3>2, <3>4 DEF QuietInv, BusyKept, Awaiting, Inside, Holders
  <2> QED
    BY <1>1, <2>1, <2>2, QuietInit, PTL DEF Spec
<1> QED
  BY <1>2, <1>3, <1>4

----------------------------------------------------------------------------
(* The pool implements ModelLease.                                         *)

Leases == {<<t, held[t]>> : t \in {u \in Threads : pc[u] \in Using}}
Busy   == {m \in Models : InFlight(m)}

LEMMA UsingHolders == Using \subseteq Holders
  BY DEF Using, Holders

\* Steps of users that neither get nor lose a lease.
LEMMA SameLeases ==
  ASSUME \A u \in Threads : /\ pc'[u] \in Using <=> pc[u] \in Using
                            /\ pc[u] \in Using => held'[u] = held[u]
  PROVE  Leases' = Leases
<1>1. {u \in Threads : pc'[u] \in Using} = {u \in Threads : pc[u] \in Using}
  OBVIOUS
<1>2. ASSUME NEW x PROVE x \in Leases' <=> x \in Leases
  BY <1>1 DEF Leases
<1> QED
  BY <1>2

LEMMA SameBusy == ASSUME queue' = queue PROVE Busy' = Busy
  BY DEF Busy, InFlight

\* A thread takes an idle Model that no other thread has.
LEMMA LeaseAcquire ==
  ASSUME OwnerInv, OwnerInv', ReuseInv', NEW t \in Threads, pc[t] \notin Using, queue' = queue,
         pc'[t] \in {"events", "holding"},
         \A u \in Threads : u # t => UNCHANGED <<pc[u], held[u]>>
  PROVE  \E m \in Models : Lease!Acquire(t, m)
<1>1. /\ \A u \in Threads : (pc[u] \in Holders <=> held[u] # NoModel)
      /\ \A u \in Threads : (pc'[u] \in Holders <=> held'[u] # NoModel)
      /\ held'[t] \in Models
      /\ \A u \in Threads : held'[u] = held'[t] /\ held'[u] # NoModel => u = t
  <2>1. TypeOK' /\ HeldExactly /\ HeldExactly' /\ OneOwner'
    BY DEF OwnerInv, TypeInv
  <2>2. \A u \in Threads : (pc[u] \in Holders <=> held[u] # NoModel)
    BY <2>1 DEF HeldExactly
  <2>3. \A u \in Threads : (pc'[u] \in Holders <=> held'[u] # NoModel)
    BY <2>1 DEF HeldExactly
  <2>4. held'[t] \in Models \cup {NoModel}
    BY <2>1 DEF TypeOK
  <2>5. held'[t] # NoModel
    BY <2>3 DEF Holders
  <2>6. \A u \in Threads : held'[u] = held'[t] /\ held'[u] # NoModel => u = t
    BY <2>1 DEF OneOwner
  <2> QED
    BY <2>2, <2>3, <2>4, <2>5, <2>6
<1>2. PICK m \in Models : m = held'[t]
  BY <1>1
<1>3. \A v \in Threads : <<v, m>> \notin Leases
  <2> SUFFICES ASSUME NEW v \in Threads, pc[v] \in Using, held[v] = m PROVE FALSE
    BY DEF Leases
  <2>1. v # t
    OBVIOUS
  <2>2. held'[v] = held[v] /\ held[v] # NoModel
    BY <1>1, <2>1, UsingHolders
  <2> QED
    BY <1>1, <1>2, <2>1, <2>2
<1>4. m \notin Busy
  <2>1. ~InFlight(held[t])'
    BY DEF ReuseInv, SafeHold
  <2> QED
    BY <1>2, <2>1 DEF InFlight, Busy
<1>5. Leases' = Leases \cup {<<t, m>>}
  <2>1. ASSUME NEW x PROVE x \in Leases' <=> x \in Leases \/ x = <<t, m>>
    <3>1. ASSUME x \in Leases' PROVE x \in Leases \/ x = <<t, m>>
      <4>1. PICK u \in Threads : pc'[u] \in Using /\ x = <<u, held'[u]>>
        BY <3>1 DEF Leases
      <4>2. CASE u = t
        BY <1>2, <4>1, <4>2
      <4>3. CASE u # t
        BY <4>1, <4>3 DEF Leases
      <4> QED
        BY <4>2, <4>3
    <3>2. ASSUME x \in Leases PROVE x \in Leases'
      <4>1. PICK u \in Threads : pc[u] \in Using /\ x = <<u, held[u]>>
        BY <3>2 DEF Leases
      <4>2. u # t
        BY <4>1
      <4> QED
        BY <4>1, <4>2 DEF Leases
    <3>3. <<t, m>> \in Leases'
      BY <1>2 DEF Leases, Using
    <3> QED
      BY <3>1, <3>2, <3>3
  <2> QED
    BY <2>1
<1>6. Busy' = Busy
  BY SameBusy
<1> QED
  BY <1>1, <1>2, <1>3, <1>4, <1>5, <1>6 DEF Lease!Acquire, Leases, Busy

\* A thread gives a Model back that it has used, or could have.
LEMMA LeaseRelease ==
  ASSUME OwnerInv, NEW t \in Threads, pc[t] \in Using, queue' = queue,
         pc'[t] \notin Using, \A u \in Threads : u # t => UNCHANGED <<pc[u], held[u]>>
  PROVE  \E m \in Models : Lease!Release(t, m)
<1>1. PICK m \in Models : m = held[t]
  BY ModelValues, UsingHolders DEF OwnerInv, TypeInv, TypeOK, HeldExactly
<1>2. <<t, m>> \in Leases
  BY <1>1 DEF Leases
<1>3. Leases' = Leases \ {<<t, m>>}
  <2>1. ASSUME NEW x PROVE x \in Leases' <=> x \in Leases /\ x # <<t, m>>
    <3>1. ASSUME x \in Leases' PROVE x \in Leases /\ x # <<t, m>>
      <4>1. PICK u \in Threads : pc'[u] \in Using /\ x = <<u, held'[u]>>
        BY <3>1 DEF Leases
      <4>2. u # t
        BY <4>1
      <4> QED
        BY <4>1, <4>2 DEF Leases
    <3>2. ASSUME x \in Leases, x # <<t, m>> PROVE x \in Leases'
      <4>1. PICK u \in Threads : pc[u] \in Using /\ x = <<u, held[u]>>
        BY <3>2 DEF Leases
      <4>2. u # t
        BY <1>1, <3>2, <4>1
      <4> QED
        BY <4>1, <4>2 DEF Leases
    <3> QED
      BY <3>1, <3>2
  <2> QED
    BY <2>1
<1>4. Busy' = Busy
  BY SameBusy
<1> QED
  BY <1>1, <1>2, <1>3, <1>4 DEF Lease!Release, Leases, Busy

\* A thread has the device work for it.
LEMMA LeaseStart ==
  ASSUME OwnerInv, NEW t \in Threads, NEW recorded \in BOOLEAN, Submit(t, held[t], recorded),
         pc[t] \in Using, Leases' = Leases
  PROVE  \E m \in Models : Lease!Start(t, m)
<1>1. PICK m \in Models : m = held[t]
  BY ModelValues, UsingHolders DEF OwnerInv, TypeInv, TypeOK, HeldExactly
<1>2. TypeOK
  BY DEF OwnerInv, TypeInv
<1>3. <<t, m>> \in Leases
  BY <1>1 DEF Leases
<1>4. ASSUME NEW s \in Streams
      PROVE  /\ \A i \in DOMAIN queue[s] :
                  i \in DOMAIN queue'[s] /\ queue'[s][i].model = queue[s][i].model
             /\ \A i \in DOMAIN queue'[s] \ DOMAIN queue[s] : queue'[s][i].model = m
             /\ s = stream[t] => \E i \in DOMAIN queue'[s] : i \notin DOMAIN queue[s]
  <2>1. /\ \A i \in DOMAIN queue[s] :
             i \in DOMAIN queue'[s] /\ queue'[s][i].model = queue[s][i].model
        /\ \A i \in DOMAIN queue'[s] \ DOMAIN queue[s] :
             queue'[s][i] = [model |-> m, by |-> t, latest |-> recorded]
        /\ s = stream[t] => DOMAIN queue'[s] # DOMAIN queue[s]
    BY <1>1, <1>2, Submitted
  <2>2. \A i \in DOMAIN queue'[s] \ DOMAIN queue[s] : queue'[s][i].model = m
    BY <2>1
  <2>3. s = stream[t] => \E i \in DOMAIN queue'[s] : i \notin DOMAIN queue[s]
    BY <2>1
  <2> QED
    BY <2>1, <2>2, <2>3
<1>5. ASSUME NEW n \in Models, n # m PROVE InFlight(n)' <=> InFlight(n)
  BY <1>4, <1>5 DEF InFlight
<1>6. InFlight(m)'
  <2>1. PICK s \in Streams : s = stream[t]
    BY <1>2 DEF TypeOK
  <2>2. PICK i \in DOMAIN queue'[s] : i \notin DOMAIN queue[s]
    BY <1>4, <2>1
  <2>3. queue'[s][i].model = m
    BY <1>4, <2>2
  <2> QED
    BY <2>3 DEF InFlight
<1>7. Busy' = Busy \cup {m}
  BY <1>5, <1>6 DEF Busy
<1> QED
  BY <1>1, <1>3, <1>7 DEF Lease!Start, Leases, Busy

\* The device is done with a part of a Model's work, or with all of it.
LEMMA LeaseFinish ==
  ASSUME OwnerInv, NEW s \in Streams, DeviceFinishes(s)
  PROVE  Leases' = Leases /\ (Busy' = Busy \/ \E m \in Models : Lease!Finish(m))
<1>1. TypeOK /\ UNCHANGED <<pc, held>>
  BY DEF OwnerInv, TypeInv, DeviceFinishes
<1>2. Leases' = Leases
  BY <1>1 DEF Leases
<1>3. PICK m : m = Head(queue[s]).model
  OBVIOUS
<1>4. ASSUME NEW n \in Models, n \in Busy' PROVE n \in Busy
  <2>1. PICK r \in Streams : \E i \in DOMAIN queue'[r] : queue'[r][i].model = n
    BY <1>4 DEF Busy, InFlight
  <2>2. \E i \in DOMAIN queue[r] : queue[r][i].model = n
    BY <1>1, <2>1, Popped
  <2> QED
    BY <2>2 DEF Busy, InFlight
<1>5. ASSUME NEW n \in Busy, n # m PROVE n \in Busy'
  <2>0. PICK r \in Streams : \E i \in DOMAIN queue[r] : queue[r][i].model = n
    BY <1>5 DEF Busy, InFlight
  <2>1. PICK i \in DOMAIN queue[r] : queue[r][i].model = n
    BY <2>0
  <2>2. \E j \in DOMAIN queue'[r] : queue'[r][j] = queue[r][i]
    <3>1. queue[s] # <<>> /\ queue' = [queue EXCEPT ![s] = Tail(@)]
      BY DEF DeviceFinishes
    <3>2. CASE r # s
      BY <1>1, <3>1, <3>2 DEF TypeOK
    <3>3. CASE r = s
      <4>1. PICK q \in Seq(Work) : q = queue[s] /\ q # <<>> /\ queue'[s] = Tail(q)
        BY <1>1, <3>1 DEF TypeOK
      <4>2. /\ Tail(q) \in Seq(Work) /\ Len(Tail(q)) = Len(q) - 1 /\ Head(q) = q[1]
            /\ \A j \in 1 .. Len(Tail(q)) : Tail(q)[j] = q[j + 1]
        BY <4>1, HeadTailProperties
      <4>3. DOMAIN q = 1 .. Len(q) /\ DOMAIN Tail(q) = 1 .. Len(q) - 1 /\ Len(q) \in Nat
        BY <4>2, LenProperties
      <4>4. i # 1 /\ i \in 1 .. Len(q)
        BY <1>3, <1>5, <2>1, <3>3, <4>1, <4>2, <4>3
      <4>5. i - 1 \in DOMAIN Tail(q) /\ (i - 1) + 1 = i
        BY <4>3, <4>4
      <4>6. Tail(q)[i - 1] = q[i]
        BY <4>2, <4>3, <4>5
      <4> QED
        BY <3>3, <4>1, <4>5, <4>6
    <3> QED
      BY <3>2, <3>3
  <2> QED
    BY <1>5, <2>1, <2>2 DEF Busy, InFlight
<1>6. CASE Busy' = Busy
  BY <1>2, <1>6
<1>7. CASE Busy' # Busy
  <2>1. m \in Busy /\ m \in Models /\ Busy' = Busy \ {m}
    BY <1>4, <1>5, <1>7 DEF Busy
  <2> QED
    BY <1>2, <2>1 DEF Lease!Finish, Leases, Busy
<1> QED
  BY <1>6, <1>7

\* Every step of the pool is a step of the abstract lease, or none.
LEMMA LeaseStep ==
  ASSUME ~LiveUpdates, "midrun" \notin FailureKinds
  PROVE  OwnerInv /\ OwnerInv' /\ ReuseInv /\ ReuseInv' /\ [Next]_vars
           => [Lease!Next]_<<Leases, Busy>>
<1> SUFFICES ASSUME OwnerInv, OwnerInv', ReuseInv, ReuseInv', [Next]_vars
             PROVE  Lease!Next \/ (Leases' = Leases /\ Busy' = Busy)
  OBVIOUS
<1> DEFINE Goal == Lease!Next \/ (Leases' = Leases /\ Busy' = Busy)
<1>1. TypeOK
  BY DEF OwnerInv, TypeInv
<1>2. ASSUME NEW t \in Threads, NEW m \in Models,
             Lease!Acquire(t, m) \/ Lease!Start(t, m) \/ Lease!Release(t, m)
      PROVE  Goal
  BY <1>2 DEF Lease!Next
<1> HIDE DEF Goal
<1>3. ASSUME queue' = queue,
             \A u \in Threads : /\ pc'[u] \in Using <=> pc[u] \in Using
                                /\ pc[u] \in Using => held'[u] = held[u]
      PROVE  Goal
  <2>1. Leases' = Leases
    BY <1>3, SameLeases
  <2> QED
    BY <1>3, <2>1, SameBusy DEF Goal
<1>4. ASSUME NEW t \in Threads, NEW l, pc' = [pc EXCEPT ![t] = l], queue' = queue, held' = held,
             pc[t] \in Using <=> l \in Using
      PROVE  Goal
  BY <1>1, <1>3, <1>4 DEF TypeOK
<1>5. ASSUME NEW t \in Threads, TakeAvailable(t) \/ TakeFinished(t) PROVE Goal
  <2>1. PICK l \in {"events", "holding"} : pc' = [pc EXCEPT ![t] = l]
    BY <1>5, Zenon DEF TakeAvailable, TakeFinished, TakeBack, AfterTake, Goto
  <2>2. /\ pc[t] = "get" /\ queue' = queue
        /\ \E m : held' = [held EXCEPT ![t] = m]
    BY <1>5 DEF TakeAvailable, TakeFinished, TakeBack
  <2>3. /\ pc[t] \notin Using /\ pc'[t] \in {"events", "holding"}
        /\ \A u \in Threads : u # t => UNCHANGED <<pc[u], held[u]>>
    BY <1>1, <2>1, <2>2 DEF TypeOK, Using
  <2> QED
    BY <1>2, <2>2, <2>3, LeaseAcquire
<1>6. ASSUME NEW t \in Threads, OldestFinished(t) PROVE Goal
  <2>1. PICK l \in {"events", "holding"} : pc' = [pc EXCEPT ![t] = l]
    BY <1>6, Zenon DEF OldestFinished, AfterTake, Goto
  <2>2. pc[t] = "wait_one" /\ queue' = queue /\ held' = held
    BY <1>6 DEF OldestFinished
  <2>3. /\ pc[t] \notin Using /\ pc'[t] \in {"events", "holding"}
        /\ \A u \in Threads : u # t => UNCHANGED <<pc[u], held[u]>>
    BY <1>1, <2>1, <2>2 DEF TypeOK, Using
  <2> QED
    BY <1>2, <2>2, <2>3, LeaseAcquire
<1>7. ASSUME NEW t \in Threads, PushPending(t) \/ PrepareThrows(t) \/ CreateEventThrows(t)
      PROVE  Goal
  <2>1. PICK l \in {"notify", "idle"} : pc' = [pc EXCEPT ![t] = l]
    BY <1>7 DEF PushPending, PrepareThrows, CreateEventThrows, GiveBack, Return, Goto
  <2>2. /\ pc[t] \in Using /\ queue' = queue /\ held' = [held EXCEPT ![t] = NoModel]
    BY <1>7 DEF PushPending, PrepareThrows, CreateEventThrows, GiveBack, Using
  <2>3. /\ pc'[t] \notin Using
        /\ \A u \in Threads : u # t => UNCHANGED <<pc[u], held[u]>>
    BY <1>1, <2>1, <2>2 DEF TypeOK, Using
  <2> QED
    BY <1>2, <2>2, <2>3, LeaseRelease
<1>8. ASSUME NEW t \in Threads, ModelRun(t) \/ ModelProfile(t) PROVE Goal
  <2>1. PICK l \in {"push", "iterating", "profiling"} : pc' = [pc EXCEPT ![t] = l]
    BY <1>8, Zenon DEF ModelRun, ModelProfile, Goto
  <2>2. PICK recorded \in BOOLEAN : Submit(t, held[t], recorded)
    BY <1>8 DEF ModelRun, ModelProfile
  <2>3. pc[t] \in Using /\ held' = held
    BY <1>8 DEF ModelRun, ModelProfile, Using
  <2>4. Leases' = Leases
    BY <1>1, <2>1, <2>3, SameLeases DEF TypeOK, Using
  <2> QED
    BY <1>2, <2>2, <2>3, <2>4, LeaseStart
<1>9. ASSUME NEW t \in Threads, WaitForOldest(t) PROVE Goal
  <2>1. PICK l \in {"asleep", "wait_one"} : pc' = [pc EXCEPT ![t] = l]
    BY <1>9, Zenon DEF WaitForOldest, Goto
  <2>2. /\ pc[t] \in {"get", "woken"} /\ queue' = queue
        /\ held' = held \/ held' = [held EXCEPT ![t] = Head(pending)]
    BY <1>9 DEF WaitForOldest
  <2> QED
    BY <1>1, <1>3, <2>1, <2>2 DEF TypeOK, Using
<1>10. ASSUME NEW t \in Threads, WaitThrows(t) PROVE Goal
  <2>1. /\ pc[t] = "wait_one" /\ pc' = [pc EXCEPT ![t] = "idle"] /\ queue' = queue
        /\ held' = [held EXCEPT ![t] = NoModel]
    BY <1>10 DEF WaitThrows, GiveBack, Return, Goto
  <2> QED
    BY <1>1, <1>3, <2>1 DEF TypeOK, Using
<1>11. ASSUME NEW t \in Threads, FoldConstants(t) PROVE Goal
  <2>1. PICK l \in {"drain", "idle", "relock"} : pc' = [pc EXCEPT ![t] = l]
    BY <1>11, Zenon DEF FoldConstants, AfterFold, Goto
  <2>2. pc[t] = "wait_models" /\ held' = held /\ Submit(t, Folder, TRUE)
    BY <1>11 DEF FoldConstants, Quiesced
  <2>3. Leases' = Leases
    BY <1>1, <2>1, <2>2, SameLeases DEF TypeOK, Using
  <2>4. ASSUME NEW n \in Models PROVE InFlight(n)' => InFlight(n)
    BY <1>1, <1>11, FoldAside
  <2>5. ASSUME NEW n \in Models, InFlight(n) PROVE InFlight(n)'
    <3>1. PICK s \in Streams : \E i \in DOMAIN queue[s] : queue[s][i].model = n
      BY <2>5 DEF InFlight
    <3>2. PICK m \in Models \cup {Folder}, recorded \in BOOLEAN : Submit(t, m, recorded)
      BY <2>2
    <3>3. \A i \in DOMAIN queue[s] :
            i \in DOMAIN queue'[s] /\ queue'[s][i].model = queue[s][i].model
      BY <1>1, <3>2, SubmitKeeps
    <3> QED
      BY <3>1, <3>3 DEF InFlight
  <2>6. Busy' = Busy
    BY <2>4, <2>5 DEF Busy
  <2> QED
    BY <2>3, <2>6 DEF Goal
<1>12. ASSUME NEW t \in Threads, CreateEvents(t) \/ Profiled(t) PROVE Goal
  <2>1. PICK l \in {"holding", "push"} : pc' = [pc EXCEPT ![t] = l]
    BY <1>12 DEF CreateEvents, Profiled, Goto
  <2>2. queue' = queue /\ held' = held /\ pc[t] \in Using /\ l \in Using
    BY <1>12 DEF CreateEvents, Profiled, Using
  <2> QED
    BY <1>4, <2>1, <2>2
<1>13. ASSUME NEW t \in Threads, NEW workers \in SUBSET Threads, Spawn(t, workers) PROVE Goal
  <2>1. /\ pc[t] = "spawn" /\ \A w \in workers : pc[w] = "idle" /\ queue' = queue /\ held' = held
        /\ pc' = [u \in Threads |-> IF u \in workers THEN "get"
                                    ELSE IF u = t THEN "join" ELSE pc[u]]
    BY <1>13 DEF Spawn
  <2>2. queue' = queue /\ held' = held
    BY <1>13 DEF Spawn
  <2> QED
    BY <1>3, <2>1, <2>2 DEF Using
<1>14. ASSUME NEW t \in Threads, NotifyOne(t) PROVE Goal
  <2>1. PICK woken \in IF Sleepers = {} THEN {NoThread} ELSE Sleepers :
          pc' = [u \in Threads |-> IF u = t THEN AfterNotify(t)
                                   ELSE IF u = woken THEN "woken" ELSE pc[u]]
    BY <1>14, Zenon DEF NotifyOne
  <2>2. AfterNotify(t) \notin Using
    BY DEF AfterNotify, Using
  <2>3. pc[t] = "notify" /\ queue' = queue /\ held' = held
    BY <1>14 DEF NotifyOne, RunReturns
  <2>4. woken \in Threads => pc[woken] = "asleep"
    BY ConstantsAssumption DEF Sleepers
  <2> QED
    BY <1>3, <2>1, <2>2, <2>3, <2>4 DEF Using
<1>15. ASSUME NEW t \in Threads,
              \/ \E o \in Ops, s \in Streams : Call(t, o, s)
              \/ LockShared(t) \/ LockUnique(t) \/ Relock(t) \/ SetConstant(t) \/ FoldThrows(t)
              \/ Join(t) \/ StreamDone(t) \/ SpuriousWakeup(t)
       PROVE  Goal
  <2>1. PICK l \in Labels \ Using : pc' = [pc EXCEPT ![t] = l]
    BY <1>15, Zenon DEF Call, LockShared, LockUnique, Relock, SetConstant, FoldThrows, Join,
       Return, StreamDone, SpuriousWakeup, Goto, Labels, Using
  <2>2. queue' = queue /\ held' = held /\ pc[t] \notin Using
    BY <1>15 DEF Call, LockShared, LockUnique, Relock, SetConstant, FoldThrows, Quiesced, Join,
       StreamDone, SpuriousWakeup, Using
  <2> QED
    BY <1>4, <2>1, <2>2
<1>16. ASSUME NEW t \in Threads, NEW i \in DOMAIN pending, WaitForAllModels(t, i)
       PROVE  FALSE
  <2>1. pc[t] = "wait_models" /\ pending # <<>>
    BY <1>16 DEF WaitForAllModels
  <2> QED
    BY <2>1 DEF OwnerInv, Ordered, Exclusive, FoldedFirst, MaintenanceFirst
<1>17. ASSUME NEW t \in Threads, RunThrows(t) PROVE FALSE
  BY <1>17 DEF RunThrows, MayFail
<1>18. ASSUME NEW s \in Streams, DeviceFinishes(s) PROVE Goal
  BY <1>18, LeaseFinish DEF Lease!Next, Goal
<1>19. CASE UNCHANGED vars
  BY <1>3, <1>19 DEF vars, Goal
<1> QED
  BY <1>5, <1>6, <1>7, <1>8, <1>9, <1>10, <1>11, <1>12, <1>13, <1>14, <1>15, <1>16, <1>17, <1>18,
     <1>19 DEF Next, Step, Throw, Goal

\* The pool, with its lists, locks, events and streams, does what ModelLease
\* says: it lends an idle Model to one thread at a time, and the device works on
\* a Model only for the thread that has it.
THEOREM PoolImplementsLease ==
  ASSUME ~LiveUpdates, "midrun" \notin FailureKinds
  PROVE  Spec => ImplementsLease
<1>1. OwnerInv /\ ReuseInv /\ [Next]_vars => ReuseInv'
  BY ReuseStep
<1>2. OwnerInv /\ OwnerInv' /\ ReuseInv /\ ReuseInv' /\ [Next]_vars
        => [Lease!Next]_<<Leases, Busy>>
  BY LeaseStep
<1>3. Init => Lease!Init
  BY DEF Init, Lease!Init, InFlight, Using
<1> QED
  BY <1>1, <1>2, <1>3, ReuseInit, AlwaysOwnerInv, PTL DEF Spec, ImplementsLease, Lease!Spec,
     Leases, Busy
=============================================================================
