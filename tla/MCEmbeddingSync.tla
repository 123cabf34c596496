-------------------------- MODULE MCEmbeddingSync --------------------------
(* Instances of EmbeddingSync for TLC.                                     *)
EXTENDS EmbeddingSync, TLC

CONSTANTS p1, p2, p3, k1, c1

TwoProcesses   == {p1, p2}
ThreeProcesses == {p1, p2, p3}
OneKnowledge   == {k1}
OneCode        == {c1}
=============================================================================
