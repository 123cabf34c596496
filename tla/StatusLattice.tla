--------------------------- MODULE StatusLattice ---------------------------
(***************************************************************************)
(* The entity status lattice of CogZ (storage/status.rs): every status an  *)
(* observation, rule or knowledge entry can carry, and the moves between   *)
(* statuses that the storage layer accepts.                                *)
(***************************************************************************)

Status == {"active", "stale", "rejected", "superseded", "pruned"}

\* A verdict: a status a person, a merge or a prune decided on.  No move of
\* the lattice leads from a verdict back to "active" or "stale".
Verdict == {"rejected", "superseded", "pruned"}

\* transition_status(current, next).is_ok()
CanMove(from, to) ==
  \/ from = "active"     /\ to \in {"stale", "rejected", "superseded"}
  \/ from = "stale"      /\ to \in {"active", "rejected", "superseded"}
  \/ from = "rejected"   /\ to = "pruned"
  \/ from = "superseded" /\ to = "pruned"

=============================================================================
