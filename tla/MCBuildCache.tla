---------------------------- MODULE MCBuildCache ----------------------------
(* Instances of BuildCache for TLC.                                        *)
EXTENDS BuildCache, TLC

\* Processes, sources, temporary names and files are interchangeable.
Symmetry == Permutations(Procs) \cup Permutations(Keys) \cup Permutations(Temps)
              \cup Permutations(Files)

Anywhere == Steps
=============================================================================
