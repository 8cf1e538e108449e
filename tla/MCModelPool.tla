---------------------------- MODULE MCModelPool ----------------------------
(* Instances of ModelPool for TLC.                                         *)
EXTENDS ModelPool, TLC

\* Client threads and streams are interchangeable.
Symmetry == Permutations(Threads) \cup Permutations(Streams)
=============================================================================
