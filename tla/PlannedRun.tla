------------------------------ MODULE PlannedRun ------------------------------
(***************************************************************************)
(* A planned graph at run time: RunImpl of the generated Model             *)
(* (backend/main_templates.py) executes the groups of operators in the     *)
(* memory that MemoryPlanning has laid out.  The operators of a group run  *)
(* on several device streams, between a fork and a join by events; without *)
(* multi-stream mode a group is one operator.                              *)
(***************************************************************************)
EXTENDS MemoryPlanning

CONSTANT ExtraStreams  \* AIT_MULTISTREAM_EXTRA_STREAMS

ASSUME ExtraStreamsAssumption == ExtraStreams \in Nat

VARIABLES
  step,     \* the group that runs, once the graph is planned
  started,  \* operators whose kernels have started ...
  done,     \* ... and those whose kernels have finished
  memory    \* per unit of the block, whose bytes are there and who wrote them

runVars == <<step, started, done, memory>>

Running == started \ done
Current == IF phase = "planned" /\ step <= Len(steps) THEN steps[step] ELSE <<>>

\* Results, and the tensors they are views of, lie in the client's memory,
\* which has numbers below zero; the other tensors lie in the block.
Cells(t) == IF \E r \in graph.results : Original[r] = Original[t]
            THEN {-Original[t]}
            ELSE offset[t] + 1 .. offset[t] + graph.size[t]

\* The stream of the j-th operator of a group; 0 is the base stream.
StreamOf(j) == (j - 1) % (ExtraStreams + 1)

\* Scratch memory, as sets of addresses.  The Model allocates WorkspaceSize: the
\* unique part of all streams, then the shared one; a stream has its slices.
WorkspaceSize == (SharedSize + UniqueSize) * (ExtraStreams + 1)
Region(start, size) == start + 1 .. start + size

\* Mutant: the sub-streams use the slices of the base stream.
ScratchOfBase(o, stream) ==
  Region(UniqueSize * (ExtraStreams + 1), graph.workspace[o])
  \cup Region(UniqueOffset[o], graph.unique[o])

Scratch(o, stream) ==
  Region(UniqueSize * (ExtraStreams + 1) + (WorkspaceSize \div (ExtraStreams + 1)) * stream,
         graph.workspace[o])
  \cup Region(UniqueSize * stream + UniqueOffset[o], graph.unique[o])

\* A kernel may write its outputs as soon as it starts.
Written(o) ==
  [c \in DOMAIN memory |->
     LET mine == {t \in graph.outputs[o] : c \in Cells(t)}
     IN  IF mine = {} THEN memory[c]
         ELSE LET r == Original[CHOOSE t \in mine : TRUE]
              IN  [tensor |-> r,
                   by |-> {o} \cup IF memory[c].tensor = r THEN memory[c].by ELSE {}]]

\* A stream executes its kernels in order; an operator that comes again in
\* sorted_ops has been executed.
StartOperator(j) ==
  /\ j \in DOMAIN Current /\ Current[j] \notin started
  /\ \A k \in 1 .. j - 1 : StreamOf(k) = StreamOf(j) => Current[k] \in done
  /\ started' = started \cup {Current[j]}
  /\ memory' = Written(Current[j])
  /\ UNCHANGED <<vars, step, done>>

FinishOperator(o) ==
  /\ o \in Running
  /\ done' = done \cup {o}
  /\ UNCHANGED <<vars, step, started, memory>>

\* Mutant: the base stream does not wait for the sub-streams.
JoinWithoutWait ==
  /\ Current # <<>>
  /\ Current[1] \in done
  /\ step' = step + 1
  /\ UNCHANGED <<vars, started, done, memory>>

\* The base stream waits for the events of the sub-streams.
JoinGroup ==
  /\ Current # <<>>
  /\ \A j \in DOMAIN Current : Current[j] \in done
  /\ step' = step + 1
  /\ UNCHANGED <<vars, started, done, memory>>

RunInit ==
  /\ Init
  /\ step = 1 /\ started = {} /\ done = {}
  /\ memory = <<>>

\* The Model allocates its block when the plan is known.
Allocate ==
  /\ phase = "planned" /\ memory = <<>>
  /\ memory' = [c \in 1 .. maxBlob \cup {-t : t \in Tensors} |->
                   [tensor |-> NoTensor, by |-> {}]]
  /\ UNCHANGED <<vars, step, started, done>>

RunNext ==
  \/ Next /\ UNCHANGED runVars
  \/ Allocate
  \/ /\ memory # <<>>
     /\ \/ \E j \in DOMAIN Current : StartOperator(j)
        \/ \E o \in Ops : FinishOperator(o)
        \/ JoinGroup

allVars == <<vars, runVars>>

RunSpec == RunInit /\ [][RunNext]_allVars

----------------------------------------------------------------------------
(* Properties.                                                             *)

Intact(t) == \A c \in Cells(t) : memory[c].tensor = Original[t] /\ Writers(t) \subseteq memory[c].by

\* While an operator runs, its inputs are what their producers wrote: the
\* schedule runs the producers first, and neither an earlier operator nor one
\* on another stream writes to their memory.
InputsIntact == \A o \in Running : \A t \in graph.inputs[o] : Intact(t)

\* The scratch memory of a running operator lies in the workspace and is not
\* that of an operator running beside it.
ScratchApart ==
  \A j, k \in DOMAIN Current :
    Current[j] \in Running /\ Current[k] \in Running =>
      LET mine(n) == Scratch(Current[n], StreamOf(n))
      IN  mine(j) \subseteq 1 .. WorkspaceSize /\ (j # k => mine(j) \cap mine(k) = {})
=============================================================================
