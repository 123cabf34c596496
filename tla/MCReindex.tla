----------------------------- MODULE MCReindex -----------------------------
(* Instances of Reindex for TLC: one definition per file, two bodies.      *)
EXTENDS Reindex, TLC

CONSTANTS f1, w1, w2, d, b1, b2

OneFile == {f1}
TwoWorkers == {w1, w2}
OneName == {d}
TwoBodies == {b1, b2}

\* A file that defines d with body b, or not at all.
Text(b) == [n \in OneName |-> b]

AnyEdits == {Text(b1), Text(b2), Text(NoDef), Garbled, NoFile}

Symmetry == Permutations(TwoWorkers) \cup Permutations(TwoBodies)
=============================================================================
