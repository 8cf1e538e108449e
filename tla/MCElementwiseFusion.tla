------------------------ MODULE MCElementwiseFusion -------------------------
(* Instances of ElementwiseFusion for TLC.                                 *)
EXTENDS ElementwiseFusion

AtMost(S, n) == {s \in SUBSET S : Cardinality(s) <= n}

\* An op reads the inputs of the model, or one or two tensors made before.
CanRead(o) == {{0}} \cup {s \in SUBSET (1..(o - 1)) : Cardinality(s) \in 1..2}
Reading    == {<<{0}, b, c, d, e>> : b \in CanRead(2), c \in CanRead(3),
                                     d \in CanRead(4), e \in CanRead(5)}

\* An elementwise op has the wider shape of what it reads.
ShapeOf(reads, elementwise, wide) ==
  LET shape[o \in 1..NumOps] ==
        IF o \in wide \/ (o \in elementwise /\ \E t \in reads[o] \ {0} : shape[t] = "wide")
        THEN "wide" ELSE "narrow"
  IN shape

Unread(reads) == {o \in 1..NumOps : \A q \in 1..NumOps : o \notin reads[q]}

\* All graphs in which at most two tensors are not read, at most one op is not
\* elementwise, at most one op reads a wide input, and at most one output is read by
\* another op.
SmallGraphs ==
  {[reads |-> r, elementwise |-> (1..NumOps) \ other, outputs |-> Unread(r) \cup also,
    shape |-> ShapeOf(r, (1..NumOps) \ other, wide)] :
      r \in {x \in Reading : Cardinality(Unread(x)) <= 2}, other \in AtMost(2..NumOps, 1),
      also \in AtMost(1..NumOps, 1), wide \in AtMost(1..NumOps, 1)}

\* Two pairs of ops, each with an output, and each pair is read once more
\* together with the output of the other one.
CrossedPairs ==
  {[reads |-> <<{0}, {1}, {0}, {3}, {2, 3}, {1, 4}>>, elementwise |-> 1..6,
    outputs |-> {2, 4, 5, 6}, shape |-> [o \in 1..6 |-> "narrow"]]}
=============================================================================
