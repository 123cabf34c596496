--------------------------- MODULE MCModelRuntime ---------------------------
(* Instances of ModelRuntime for TLC.                                      *)
EXTENDS ModelRuntime, TLC

CONSTANTS t1, t2, q1

TwoThreads == {t1, t2}
OnePuller  == {q1}

\* One default model of each loader; a code model differs from a knowledge
\* model in nothing but the file's place and the switch that turns it off.
DefaultModels == {[kind |-> "knowledge", layout |-> "RootOptimized"],
                  [kind |-> "nli",       layout |-> "OnnxSubdirQuantizedAvx2"]}

=============================================================================
