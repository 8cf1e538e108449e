---------------------------- MODULE MCProfiling ----------------------------
(* Instances of Profiling for TLC.                                         *)
EXTENDS Profiling, TLC

CONSTANTS k1, k2, k3, d1, d2

\* Two GEMMs, one of them with two splits; then one of them again, with a function
\* that is no GEMM; then this once more.
OneWorkloadEach == <<[norms |-> <<>>, gemms |-> <<<<k1>>, <<k2>>>>],
                     [norms |-> <<k3>>, gemms |-> <<<<k1>>>>],
                     [norms |-> <<k3>>, gemms |-> <<>>]>>

TwoGemms == <<[norms |-> <<>>, gemms |-> <<<<k1>>, <<k2>>>>]>>

\* A GEMM with one workload, then with another one behind it.
TwoWorkloads == <<[norms |-> <<>>, gemms |-> <<<<k2>>>>],
                  [norms |-> <<>>, gemms |-> <<<<k2, k1>>>>]>>

OneOrTwoDevices == {<<d1>>, <<d1, d2>>}
OnlyTwoDevices  == {<<d1, d2>>}

TwoConfigs == <<1, 2>>
Splits     == (k1 :> <<1, 2>>) @@ (k2 :> <<1>>)
TwoSplits  == (k1 :> <<1, 2>>) @@ (k2 :> <<1, 2>>)

OnlyStderr == {Stderr}
AllFaults  == {Stderr, Silent}

MCJobs == [slot : {"gemm"} \X (1 .. 2) \X (1 .. 2), split : 1 .. 2]
=============================================================================
