------------------------------ MODULE Profilers ------------------------------
(* What the two runners of profilers have in common: the devices, and what *)
(* a profiler prints (extract_profile_result and process_task of           *)
(* python/aitemplate/backend/profiler_runner.py).                          *)
EXTENDS Integers, Sequences

CONSTANTS
  Devices,      \* device ids
  NoDevice,     \* None
  Durations,    \* running times a profiler may print
  Faults        \* how else it may end: Stderr or Silent

\* The output of a profiler is the time it printed, or one of these.
NoOutput == -2
Stderr   == -1    \* an error message and no time
Silent   == 0     \* nothing at all
Outputs  == Durations \cup Faults

ASSUME ProfilersAssumption ==
  /\ NoDevice \notin Devices
  /\ Durations \subseteq Nat \ {0}
  /\ Faults \subseteq {Stderr, Silent}
=============================================================================
