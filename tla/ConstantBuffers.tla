--------------------------- MODULE ConstantBuffers ---------------------------
(***************************************************************************)
(* The constants of a ModelContainer and their two device buffers          *)
(* (static/csrc/model_container.cpp).                                      *)
(*                                                                         *)
(* Weights are updated in place (SetManyConstants, FoldConstants) or in a  *)
(* session that fills the inactive buffer while inferences go on reading   *)
(* the active one (SetManyDoubleBufferConstants, FoldConstants with        *)
(* double_buffer, SwapConstants).  One client thread updates; every Model  *)
(* is run by some other thread, which module ModelPool gives it to.        *)
(*                                                                         *)
(* A constant is bound (a slot of the buffers, filled at load time) or     *)
(* unbound (a pointer of the client), and read by the Models or by the     *)
(* constant folder, whose outputs are slots of the buffers again.  One     *)
(* constant of each class is enough; its value is a version number.        *)
(***************************************************************************)
EXTENDS Integers, Sequences, Functions

CONSTANTS
  NumModels,   \* num_models of the constructor
  FoldFirst,   \* TRUE: the client starts sessions only after a first fold
  InPlace,     \* the sets of constants a call may update in place
  Interrupted, \* the sets of constants a call has set when it throws
  Destroyed,   \* streams of sessions that broke off, destroyed with copies in them
  SwapPolicy,  \* when the client calls SwapConstants: "drained", no inference
               \* is running; "between_calls", no Run is being executed;
               \* "any_time"
  MaxVersion,  \* bound: versions the client hands over
  MaxFailures  \* bound: updates that throw half way

ASSUME ConstantsAssumption ==
  /\ NumModels \in Nat \ {0} /\ MaxVersion \in Nat /\ MaxFailures \in Nat
  /\ FoldFirst \in BOOLEAN
  /\ SwapPolicy \in {"drained", "between_calls", "any_time"}
  /\ Destroyed \cap {"infer", "update"} = {}

Models == 1 .. NumModels

\* Constants of the Models and inputs of the folder; "u": unbound, "b": bound.
ModelConstants  == {"mu", "mb"}
FolderConstants == {"fu", "fb"}
Constants       == ModelConstants \cup FolderConstants
Bound           == {"mb", "fb"}

ASSUME UpdatesAssumption ==
  /\ InPlace \subseteq SUBSET Constants
  /\ Interrupted \subseteq SUBSET Constants \ {Constants}

Garbage  == -3    \* what unwritten device memory holds
Versions == 0 .. MaxVersion

\* A constant's address: a slot of a buffer or, for a client's memory, the
\* version it holds.
Primary   == -1
Secondary == -2
Buffers   == {Primary, Secondary}

NothingStaged == [c \in {} |-> 0]

VARIABLES
  active,       \* the buffer use_constants_primary_buffer_ stands for
  bufferState,  \* buffer_state_
  foldedOnce,   \* constant_folded_once_
  slots,        \* per buffer, its bound constants ...
  output,       \* ... and the folder's output: the versions it was made of
  staged,       \* model_constants_
  models,       \* per Model, where its constants and the folder's output are
  folder,       \* the same of constant_folder_, with the buffer of its output
  queue,        \* unfinished work of each stream
  run,          \* per Model, how far Run is, what the inference has read
  updater,      \* the client thread that updates: label and loop variable
  given,        \* history: versions handed over in place or swapped in
  effective,    \* history: versions an inference started now should read
  newest, failures

buffers == <<active, bufferState, foldedOnce, slots, output>>
tables  == <<staged, models, folder>>
history == <<given, effective, newest, failures>>
vars    == <<buffers, tables, queue, run, updater, history>>

GetInactiveConstantsBuffer == IF active = Primary THEN Secondary ELSE Primary

----------------------------------------------------------------------------
(* The device.                                                             *)

\* "update" is the stream of the session at work.
Streams == {"infer", "update"} \cup Destroyed

Submit(s, work) == queue' = [queue EXCEPT ![s] = Append(@, work)]

Pending(kinds) == \E s \in Streams : \E i \in DOMAIN queue[s] : queue[s][i].kind \in kinds

Read(address, c) == IF address \in Buffers THEN slots[address][c] ELSE address

Overwrite(old, new) == [c \in DOMAIN old |-> IF c \in DOMAIN new THEN new[c] ELSE old[c]]

Saw(m, label, values) ==
  run' = [run EXCEPT ![m].pc = label, ![m].seen = Overwrite(@, values)]

\* An inference is two operators: one on constants, one on the folder's output.
ExecuteFirst(w) ==
  /\ w.kind = "first"
  /\ Saw(w.model, run[w.model].pc, [mu |-> Read(w.mu, "mu"), mb |-> Read(w.mb, "mb")])
  /\ UNCHANGED <<slots, output>>

ExecuteSecond(w) ==
  /\ w.kind = "second"
  /\ Saw(w.model, "idle", output[w.buffer])
  /\ UNCHANGED <<slots, output>>

ExecuteFold(w) ==
  /\ w.kind = "fold"
  /\ output' = [output EXCEPT ![w.buffer] = [fu |-> Read(w.fu, "fu"), fb |-> Read(w.fb, "fb")]]
  /\ UNCHANGED <<slots, run>>

ExecuteCopy(w) ==
  /\ w.kind = "copy"
  /\ slots' = [slots EXCEPT ![w.buffer] = Overwrite(@, w.values)]
  /\ UNCHANGED <<output, run>>

DeviceExecutes(s) ==
  /\ queue[s] # <<>>
  /\ LET w == Head(queue[s])
     IN  ExecuteFirst(w) \/ ExecuteSecond(w) \/ ExecuteFold(w) \/ ExecuteCopy(w)
  /\ queue' = [queue EXCEPT ![s] = Tail(@)]
  /\ UNCHANGED <<active, bufferState, foldedOnce, tables, updater, history>>

----------------------------------------------------------------------------
(* Inference.                                                              *)

Calling == {m \in Models : run[m].pc = "calling"}
Drained == \A m \in Models : run[m].pc = "idle"

SwapAllowed == CASE SwapPolicy = "drained" -> Drained
                 [] SwapPolicy = "between_calls" -> Calling = {}
                 [] OTHER -> TRUE

FoldWork == [kind |-> "fold", fu |-> folder.fu, fb |-> folder.fb, buffer |-> folder.buffer]

\* The first Run finds constant_folded_once_ unset and folds on its stream.
FirstFold ==
  /\ ~foldedOnce /\ Drained /\ ~Pending({"fold"})
  /\ Submit("infer", FoldWork)
  /\ foldedOnce' = TRUE
  /\ effective' = Overwrite(effective, [c \in FolderConstants |-> given[c]])
  /\ UNCHANGED <<active, bufferState, slots, output, tables, run, updater, given,
                 newest, failures>>

\* Run queues the kernels one by one, with the addresses the Model has then.
StartRun(m) ==
  /\ run[m].pc = "idle" /\ foldedOnce
  /\ updater.pc = "swapping" => SwapPolicy = "any_time"
  /\ Submit("infer", [kind |-> "first", model |-> m, mu |-> models[m].mu, mb |-> models[m].mb])
  /\ run' = [run EXCEPT ![m] = [@ EXCEPT !.pc = "calling", !.due = effective]]
  /\ UNCHANGED <<buffers, tables, updater, history>>

FinishCall(m) ==
  /\ run[m].pc = "calling"
  /\ Submit("infer", [kind |-> "second", model |-> m, buffer |-> models[m].output])
  /\ run' = [run EXCEPT ![m].pc = "queued"]
  /\ UNCHANGED <<buffers, tables, updater, history>>

----------------------------------------------------------------------------
(* Updates in place, under constants_sync_mutex_ and after WaitForAllModels. *)

\* SetConstantImpl for some constants, all of them or those before an error.
SetTables(C, v) ==
  /\ models' = [m \in Models |-> Overwrite(models[m], [c \in C \cap ModelConstants |-> v])]
  /\ folder' = Overwrite(folder, [c \in C \cap FolderConstants |-> v])

\* The call has set all of C, or it throws when it has set D.
SetManyConstants(C, D) ==
  /\ updater.pc = "idle" /\ C \in InPlace
  /\ Drained /\ ~Pending({"fold"}) /\ newest < MaxVersion
  /\ IF D = C
     THEN UNCHANGED failures
     ELSE /\ D \in {C \cap E : E \in Interrupted}
          /\ failures < MaxFailures /\ failures' = failures + 1
  /\ SetTables(D, newest + 1)
  /\ bufferState' = IF D = {} THEN bufferState ELSE "updated"
  /\ newest' = newest + 1
  /\ given' = Overwrite(given, [c \in D |-> newest + 1])
  /\ effective' = Overwrite(effective, [c \in D \cap ModelConstants |-> newest + 1])
  /\ UNCHANGED <<active, foldedOnce, slots, output, staged, queue, run, updater>>

\* FoldConstants on the stream of the inferences; the first fold of all leaves
\* buffer_state_ alone.
FoldConstants ==
  /\ updater.pc = "idle" /\ InPlace # {}
  /\ Drained /\ ~Pending({"fold"})
  /\ Submit("infer", FoldWork)
  /\ bufferState' = IF foldedOnce THEN "folded" ELSE bufferState
  /\ foldedOnce' = TRUE
  /\ effective' = Overwrite(effective, [c \in FolderConstants |-> given[c]])
  /\ UNCHANGED <<active, slots, output, tables, run, updater, given, newest, failures>>

----------------------------------------------------------------------------
(* A double-buffer session: set all constants, fold, swap.                 *)

\* model_constants_ is a map: unbound constants of the Models by name.
Staged(C, v) == [c \in DOMAIN staged \cup (C \cap {"mu"}) |-> IF c \in C THEN v ELSE staged[c]]

\* A session repeats on the stream of the one before, or on a stream of its own, as
\* AITModelImpl does: what the old one still holds is then in no order with it.
SubmitCopy(work) ==
  \/ Submit("update", work)
  \/ \E d \in Destroyed :
       /\ queue[d] = <<>>
       /\ queue' = [queue EXCEPT ![d] = queue["update"], !["update"] = <<work>>]

\* Mutant: the copies go to the buffer the Models read.
SetDoubleBufferActive(C, v) ==
  /\ staged' = Staged(C, v)
  /\ folder' = Overwrite(folder, [c \in C \cap {"fu"} |-> v])
  /\ SubmitCopy([kind |-> "copy", buffer |-> active, values |-> [c \in C \cap Bound |-> v]])

\* An unbound constant of the Models is staged, one of the folder is set; bound
\* ones are copied to the inactive buffer.
SetDoubleBuffer(C, v) ==
  /\ staged' = Staged(C, v)
  /\ folder' = Overwrite(folder, [c \in C \cap {"fu"} |-> v])
  /\ SubmitCopy([kind |-> "copy", buffer |-> GetInactiveConstantsBuffer,
                 values |-> [c \in C \cap Bound |-> v]])

SetManyDoubleBufferConstants(C) ==
  /\ updater.pc \in {"idle", "set", "failed", "folded"} /\ newest < MaxVersion
  /\ FoldFirst => foldedOnce
  /\ IF C = Constants
     THEN UNCHANGED failures
     ELSE /\ C \in Interrupted
          /\ failures < MaxFailures /\ failures' = failures + 1
  /\ SetDoubleBuffer(C, newest + 1)
  /\ bufferState' = IF C = {} THEN bufferState ELSE "updated"
  /\ newest' = newest + 1
  /\ updater' = [updater EXCEPT !.pc = IF C = Constants THEN "set" ELSE "failed"]
  /\ UNCHANGED <<active, foldedOnce, slots, output, models, run, given, effective>>

\* Mutant: buffer_state_ is not set.
SwapConstantFolderBufferOnly ==
  /\ updater.pc = "set"
  /\ LET b == GetInactiveConstantsBuffer
     IN  folder' = [folder EXCEPT !.fb = b, !.buffer = b]
  /\ updater' = [updater EXCEPT !.pc = "switched"]
  /\ UNCHANGED <<buffers, staged, models, queue, run, history>>

\* FoldConstantsImpl up to SwapConstantFolderBuffer takes no lock: the folder's
\* bound constants and its output move to the inactive buffer.
SwapConstantFolderBuffer ==
  /\ updater.pc = "set"
  /\ bufferState' = IF foldedOnce THEN "folded" ELSE bufferState
  /\ LET b == GetInactiveConstantsBuffer
     IN  folder' = [folder EXCEPT !.fb = b, !.buffer = b]
  /\ updater' = [updater EXCEPT !.pc = "switched"]
  /\ UNCHANGED <<active, foldedOnce, slots, output, staged, models, queue, run, history>>

FoldInDoubleBuffer ==
  /\ updater.pc = "switched" /\ ~Pending({"fold"})
  /\ Submit("update", FoldWork)
  /\ foldedOnce' = TRUE
  /\ updater' = [updater EXCEPT !.pc = "folding"]
  /\ UNCHANGED <<active, bufferState, slots, output, tables, run, history>>

\* Mutant: FoldConstants returns without the StreamSynchronize.
FoldReturnsAtOnce ==
  /\ updater.pc = "folding"
  /\ updater' = [updater EXCEPT !.pc = "folded"]
  /\ UNCHANGED <<buffers, tables, queue, run, history>>

\* FoldConstants with sync = true, as AITModelImpl calls it.
FoldReturns ==
  /\ updater.pc = "folding" /\ queue["update"] = <<>>
  /\ updater' = [updater EXCEPT !.pc = "folded"]
  /\ UNCHANGED <<buffers, tables, queue, run, history>>

\* A warning is logged and the caller gets no error.
SwapRefused ==
  /\ updater.pc \in {"set", "folded"} /\ SwapAllowed /\ bufferState # "folded"
  /\ updater' = [updater EXCEPT !.pc = "failed"]
  /\ UNCHANGED <<buffers, tables, queue, run, history>>

SwapConstants ==
  /\ updater.pc = "folded" /\ SwapAllowed /\ bufferState = "folded"
  /\ active' = GetInactiveConstantsBuffer
  /\ updater' = [pc |-> "swapping", i |-> 1]
  /\ given' = [c \in Constants |-> newest]
  /\ effective' = [c \in Constants |-> newest]
  /\ UNCHANGED <<bufferState, foldedOnce, slots, output, tables, queue, run, newest, failures>>

\* Mutant: the Models keep the addresses of the staged constants they have.
SwapModelResetsOnly(m) ==
  models' = [models EXCEPT ![m].mb = active, ![m].output = active]

\* The loops of SwapConstants: ResetConstants on every Model, then SetConstant
\* of the staged constants on every Model.
SwapModel(m) ==
  models' = IF updater.i <= NumModels
            THEN [models EXCEPT ![m].mb = active, ![m].output = active]
            ELSE [models EXCEPT ![m] = Overwrite(@, staged)]

\* Mutant: one round too many of the second loop.
SwapModelsTooFar(m) ==
  /\ updater.pc = "swapping"
  /\ updater.i \in {m, m + NumModels, m + 2 * NumModels}
  /\ SwapModel(m)
  /\ updater' = [updater EXCEPT !.i = @ + 1]
  /\ UNCHANGED <<buffers, staged, folder, queue, run, history>>

SwapModels(m) ==
  /\ updater.pc = "swapping"
  /\ updater.i \in {m, m + NumModels}
  /\ SwapModel(m)
  /\ updater' = [updater EXCEPT !.i = @ + 1]
  /\ UNCHANGED <<buffers, staged, folder, queue, run, history>>

SwapDone ==
  /\ updater.pc = "swapping" /\ updater.i > 2 * NumModels
  /\ staged' = NothingStaged
  /\ bufferState' = "clean"
  /\ updater' = [pc |-> "idle", i |-> 1]
  /\ UNCHANGED <<active, foldedOnce, slots, output, models, folder, queue, run, history>>

----------------------------------------------------------------------------

Init ==
  /\ active = Primary /\ bufferState = "updated" /\ foldedOnce = FALSE
  /\ slots = [b \in Buffers |-> [c \in Bound |-> IF b = Primary THEN 0 ELSE Garbage]]
  /\ output = [b \in Buffers |-> [c \in FolderConstants |-> Garbage]]
  /\ staged = NothingStaged
  /\ models = [m \in Models |-> [mu |-> 0, mb |-> Primary, output |-> Primary]]
  /\ folder = [fu |-> 0, fb |-> Primary, buffer |-> Primary]
  /\ queue = [s \in Streams |-> <<>>]
  /\ effective = [c \in Constants |-> 0] /\ given = effective
  /\ run = [m \in Models |-> [pc |-> "idle", seen |-> effective, due |-> effective]]
  /\ updater = [pc |-> "idle", i |-> 1]
  /\ newest = 0 /\ failures = 0

Next ==
  \/ \E s \in Streams : DeviceExecutes(s)
  \/ FirstFold
  \/ \E m \in Models : StartRun(m) \/ FinishCall(m) \/ SwapModels(m)
  \/ \E C \in SUBSET Constants : \/ \E D \in SUBSET C : SetManyConstants(C, D)
                                 \/ SetManyDoubleBufferConstants(C)
  \/ FoldConstants
  \/ SwapConstantFolderBuffer \/ FoldInDoubleBuffer \/ FoldReturns
  \/ SwapRefused \/ SwapConstants \/ SwapDone

Spec == Init /\ [][Next]_vars

----------------------------------------------------------------------------
(* Properties.                                                             *)

Values    == Versions \cup {Garbage}
Addresses == Versions \cup Buffers

TypeOK ==
  /\ active \in Buffers /\ bufferState \in {"clean", "updated", "folded"}
  /\ foldedOnce \in BOOLEAN
  /\ slots \in [Buffers -> [Bound -> Values]]
  /\ output \in [Buffers -> [FolderConstants -> Values]]
  /\ staged = NothingStaged \/ staged \in [{"mu"} -> Versions]
  /\ models \in [Models -> [mu : Versions, mb : Addresses, output : Buffers]]
  /\ folder \in [fu : Versions, fb : Addresses, buffer : Buffers]
  /\ \A m \in Models : /\ run[m].pc \in {"idle", "calling", "queued"}
                       /\ run[m].seen \in [Constants -> Values]
                       /\ run[m].due \in [Constants -> Versions]
  /\ updater.i \in 1 .. 2 * NumModels + 1
  /\ newest \in Versions /\ failures \in 0 .. MaxFailures

\* "The weights will not take effect until swapConstants is being called", and
\* then "immediately": an inference reads what was in effect when it started.
ReadsWhatIsDue == \A m \in Models : run[m].pc = "idle" => run[m].seen = run[m].due

\* Inferences read one generation of weights, not some old and some new ones.
NoTornRead ==
  \A m \in Models : run[m].pc = "idle" =>
    \A c, d \in Constants : run[m].seen[c] = run[m].seen[d]

\* "When we use double buffer, it won't affect the main model": what a session
\* queues never writes the buffer that inferences started now read.
SessionsWriteInactive ==
  \A s \in Streams \ {"infer"} : \A i \in DOMAIN queue[s] : queue[s][i].buffer # active

\* A swap is refused only "without calling FoldConstants()".
FoldedSessionIsSwapped == [][SwapRefused => updater.pc # "folded"]_vars

\* What SwapConstants is about to install was written and folded completely
\* from one generation of weights.
SwapInstallsOneGeneration ==
  updater.pc = "folded" /\ bufferState = "folded" =>
    LET b == GetInactiveConstantsBuffer
    IN  /\ staged = [mu |-> newest] /\ slots[b] = [c \in Bound |-> newest]
        /\ output[b] = [c \in FolderConstants |-> newest]
=============================================================================
