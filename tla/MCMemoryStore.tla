--------------------------- MODULE MCMemoryStore ---------------------------
(***************************************************************************)
(* Small instances of MemoryStore for TLC.                                 *)
(***************************************************************************)
EXTENDS MemoryStore, TLC

CONSTANTS w1, w2, b1, b2

TwoWriters == {w1, w2}
TwoBodies  == {b1, b2}

\* Deleted, broken, as the author wrote it, marked by hand, and a tombstone
\* that still carries text.
SomePulls ==
  {NoFile, Garbled} \cup
  {[status |-> s, orphan |-> FALSE, body |-> b1] : s \in {"active", "stale", "rejected", "pruned"}}

Symmetry == Permutations(TwoWriters)

=============================================================================
