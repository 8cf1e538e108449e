----------------------------- MODULE PythonModel -----------------------------
(***************************************************************************)
(* The constants of compiler/model.py: the class Model keeps a reference   *)
(* to the tensor of each constant (torch_constant_tensors) while the       *)
(* container, module ConstantBuffers, reads its memory through a pointer.  *)
(*                                                                         *)
(* The client holds no references of its own: the tensor of a constant is  *)
(* freed when the dictionary gets another one for that name.  A tensor is  *)
(* known by its version.                                                   *)
(***************************************************************************)
EXTENDS ConstantBuffers

CONSTANT Accepted  \* the sets of constants whose tensors a call has stored
                   \* when it meets one that is not contiguous on the GPU

ASSUME AcceptedAssumption == Accepted \subseteq SUBSET Constants \ {Constants}

VARIABLES
  tensors,  \* torch_constant_tensors
  call      \* the call of the library that Model is about to make

modelVars == <<tensors, call>>
allVars   == <<vars, modelVars>>

NoCall  == [op |-> "none", names |-> {}]
Refused == -4   \* a tensor that was stored and that the container has not taken

----------------------------------------------------------------------------

\* Mutant: a name keeps the first tensor it got.
StoreOnce(C, t) ==
  tensors' = Overwrite(tensors, [c \in {d \in C : tensors[d] = 0} |-> t])

Store(C, t) == tensors' = Overwrite(tensors, [c \in C |-> t])

\* The loop over the tensors is done, the library is called next.
SetManyConstantsWithTensors(C) ==
  /\ call = NoCall /\ updater.pc = "idle" /\ C \in InPlace /\ newest < MaxVersion
  /\ Store(C, newest + 1)
  /\ call' = [op |-> "SetManyConstants", names |-> C]
  /\ UNCHANGED vars

SetManyDoubleBufferConstantsWithTensors ==
  /\ call = NoCall /\ updater.pc \in {"idle", "set", "failed", "folded"}
  /\ FoldFirst => foldedOnce
  /\ newest < MaxVersion
  /\ Store(Constants, newest + 1)
  /\ call' = [op |-> "SetManyDoubleBufferConstants", names |-> Constants]
  /\ UNCHANGED vars

\* A ValueError in the middle of either loop.
ConstantRefused(C) ==
  /\ call = NoCall /\ updater.pc \in {"idle", "set", "failed", "folded"}
  /\ C \in Accepted
  /\ Store(C, Refused)
  /\ UNCHANGED <<vars, call>>

\* The library takes the pointers of all constants, or throws after some; Model
\* does not catch that and keeps the tensors that were to replace the others.
CallSetManyConstants(D) ==
  /\ call.op = "SetManyConstants"
  /\ SetManyConstants(call.names, D)
  /\ Store(call.names \ D, Refused)
  /\ call' = NoCall

CallSetManyDoubleBufferConstants(C) ==
  /\ call.op = "SetManyDoubleBufferConstants"
  /\ SetManyDoubleBufferConstants(C)
  /\ call' = NoCall /\ UNCHANGED tensors

\* fold_constants and swap_constants call the library and keep nothing.
FoldAndSwap ==
  /\ call = NoCall
  /\ \/ FoldConstants
     \/ SwapConstantFolderBuffer \/ FoldInDoubleBuffer \/ FoldReturns
     \/ SwapRefused \/ SwapConstants \/ SwapDone
     \/ \E m \in Models : SwapModels(m)
  /\ UNCHANGED modelVars

\* Other threads and the device; Model runs inferences without a lock.
Others ==
  /\ \/ \E s \in Streams : DeviceExecutes(s)
     \/ FirstFold
     \/ \E m \in Models : StartRun(m) \/ FinishCall(m)
  /\ UNCHANGED modelVars

ModelInit ==
  /\ Init
  /\ tensors = [c \in Constants |-> 0] /\ call = NoCall

ModelNext ==
  \/ SetManyDoubleBufferConstantsWithTensors
  \/ \E C \in SUBSET Constants : \/ SetManyConstantsWithTensors(C) \/ ConstantRefused(C)
                                 \/ CallSetManyConstants(C) \/ CallSetManyDoubleBufferConstants(C)
  \/ FoldAndSwap \/ Others

ModelSpec == ModelInit /\ [][ModelNext]_allVars

----------------------------------------------------------------------------
(* Properties.                                                             *)

\* Addresses that the Models, the folder and staged constants hold, that queued
\* kernels and copies read.
InTables == {models[m] : m \in Models} \cup {folder, staged}

Queued ==
  LET work == UNION {{queue[s][i] : i \in DOMAIN queue[s]} : s \in Streams}
  IN  {IF w.kind = "copy" THEN w.values ELSE w : w \in work}

\* Those outside the container's own buffers, with their constants.
Used(addresses) ==
  {r \in UNION {{<<c, a[c]>> : c \in DOMAIN a \cap Constants} : a \in addresses} :
     r[2] \in Versions}

\* "We use this list to add reference counts of Torch tensors to avoid lifetime
\* issues caused by user misuse" (model.py:244): while no update is under way,
\* every tensor that is read or going to be read is held, save those whose
\* successor Model or the container has refused.
SettledTensorsAreHeld ==
  call = NoCall /\ updater.pc = "idle" =>
    \A r \in Used(InTables \cup Queued) : tensors[r[1]] \in {r[2], Refused}

\* The same at all times.
ReadTensorsAreHeld ==
  \A r \in Used({models[m] : m \in Models} \cup Queued) : tensors[r[1]] = r[2]
=============================================================================
