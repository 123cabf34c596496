------------------------------- MODULE Schema -------------------------------
(***************************************************************************)
(* What Storage::open does to a database file (src/storage/schema.rs): ten *)
(* forward-only migrations, each an operator on the database, run inside   *)
(* one transaction and followed by a version check.                        *)
(*                                                                         *)
(* A database is a record of what a migration touches.  Tables and columns *)
(* are members of `tables`; rows are kept only where a migration moves     *)
(* them: the vectors of the single table of version 2 (`old`), of the two  *)
(* spaces (`vec`), and their rowid map (`map`).                            *)
(***************************************************************************)
EXTENDS Naturals, SequencesExt

CONSTANTS Code, Knowledge      \* the entities of each vector space

SchemaVersion == 10

Entity == Code \cup Knowledge

SpaceOf(e) == IF e \in Code THEN "code" ELSE "knowledge"

Spaces == {"code", "knowledge"}

Tables == {"entities", "fts", "spaces", "single", "meta", "deliveries",
           "tier", "drift", "cochange", "created_at", "vec_rowid",
           "search_terms", "fts3"}

\* A row of a vector table; the number tells apart two rows of one entity.
Row == Entity \X Spaces \X (1 .. 2)

Database == [version : 0 .. SchemaVersion + 1, tables : SUBSET Tables,
             old : SUBSET Entity, vec : SUBSET Row, map : SUBSET Row]

\* What SQLite creates when it opens a path that has no file.
EmptyFile == [version |-> 0, tables |-> {}, old |-> {}, vec |-> {}, map |-> {}]

Having(db, ts) == [db EXCEPT !.tables = @ \cup ts]

-----------------------------------------------------------------------------
V1(db) == Having(db, {"entities", "fts", "spaces"})

V2(db) == Having(db, {"meta"})

\* The single embedding table is split by entity type and dropped.  A row
\* already in its space would make the plain INSERT fail; there is none.
V3(db) ==
  LET split == Having(db, {"spaces"})
  IN  IF "single" \notin db.tables THEN split
      ELSE [split EXCEPT !.vec = @ \cup {<<e, SpaceOf(e), 1>> : e \in db.old},
                         !.old = {},
                         !.tables = @ \ {"single"}]

V4(db) == Having(db, {"deliveries"})
V5(db) == Having(db, {"tier"})
V6(db) == Having(db, {"drift"})
V7(db) == Having(db, {"cochange"})
V8(db) == Having(db, {"created_at"})

\* A backfill that stops at the first space.
BackfillCode(db) ==
  [Having(db, {"vec_rowid"}) EXCEPT
     !.map = @ \cup {v \in db.vec : v[2] = "code"}]

\* The rowid map, backfilled from both spaces.
V9(db) == [Having(db, {"vec_rowid"}) EXCEPT !.map = @ \cup db.vec]

\* The full-text table is dropped and built again with a third column.
V10(db) == [Having(db, {"search_terms", "fts3"}) EXCEPT !.tables = @ \ {"fts"}]

\* The migrations above one version, up to another, in order, each on what
\* the one before it left.
Climbed(db, from, to) ==
  LET due(n) == from < n /\ n <= to
      d1 == IF due(1) THEN V1(db) ELSE db
      d2 == IF due(2) THEN V2(d1) ELSE d1
      d3 == IF due(3) THEN V3(d2) ELSE d2
      d4 == IF due(4) THEN V4(d3) ELSE d3
      d5 == IF due(5) THEN V5(d4) ELSE d4
      d6 == IF due(6) THEN V6(d5) ELSE d5
      d7 == IF due(7) THEN V7(d6) ELSE d6
      d8 == IF due(8) THEN V8(d7) ELSE d7
      d9 == IF due(9) THEN V9(d8) ELSE d8
  IN  IF due(10) THEN V10(d9) ELSE d9

\* The migrations a database lacks, then the new version.  A database of a
\* newer binary is left alone.
MigrateInner(db) ==
  IF db.version >= SchemaVersion THEN db
  ELSE [Climbed(db, db.version, SchemaVersion) EXCEPT !.version = SchemaVersion]

\* The check that keeps an old binary off a newer database.
CheckVersion(db) == db.version = SchemaVersion

-----------------------------------------------------------------------------
\* insert_embedding: the row the map names is replaced, and the map follows.
InsertEmbedding(db, e) ==
  LET kept == db.vec \ {v \in db.map : v[1] = e}
      row  == <<e, SpaceOf(e), IF <<e, SpaceOf(e), 1>> \in kept THEN 2 ELSE 1>>
  IN  [db EXCEPT !.vec = kept \cup {row},
                 !.map = {v \in @ : v[1] # e} \cup {row}]

\* The database an older binary left at a version, with vectors of es.
Legacy(version, es) ==
  LET built == Climbed(EmptyFile, 0, version)
      rows == {<<e, SpaceOf(e), 1>> : e \in es}
  IN  IF version < 3
      THEN [built EXCEPT !.version = version, !.old = es,
                         !.tables = (@ \ {"spaces"}) \cup {"single"}]
      ELSE [built EXCEPT !.version = version, !.vec = rows,
                         !.map = IF version < 9 THEN {} ELSE rows]

\* Every vector is in the space of its entity and found through the map.
Mapped(db) ==
  /\ db.old = {}
  /\ db.map = db.vec
  /\ \A v \in db.vec : v[2] = SpaceOf(v[1])
  /\ \A v, w \in db.vec : v[1] = w[1] => v = w
=============================================================================
