--------------------------- MODULE DerivedStatus ---------------------------
(***************************************************************************)
(* What the SQLite index promises about the status it shows for an entity, *)
(* whatever is written to the canonical files and by whom: a status only   *)
(* ever moves along the lattice.  A row comes from nothing (a file synced  *)
(* for the first time, with whatever status it declares), goes back to     *)
(* nothing only once it is a tombstone, and `cogz reset` forgets them all. *)
(***************************************************************************)
EXTENDS StatusLattice

CONSTANTS Entity,    \* ids of observations, rules and knowledge entries
          Absent     \* not a status: the entity has no row

VARIABLE status

Init == status = [e \in Entity |-> Absent]

Evolves(from, to) ==
  \/ to = from
  \/ from = Absent /\ to \in Status
  \/ from \in Status /\ CanMove(from, to)
  \/ from = "pruned" /\ to = Absent

\* One transaction may carry any number of entities with it.
Transaction ==
  /\ status' \in [Entity -> Status \cup {Absent}]
  /\ \A e \in Entity : Evolves(status[e], status'[e])

Reset == status' = [e \in Entity |-> Absent]

Next == Transaction \/ Reset

Spec == Init /\ [][Next]_status

=============================================================================
