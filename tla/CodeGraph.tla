----------------------------- MODULE CodeGraph -----------------------------
(***************************************************************************)
(* The code graph of CogZ: rows for the definitions in the source files,   *)
(* and the calls, imports, extends and contains edges between them.        *)
(*                                                                         *)
(* A parsed file names what it calls; the graph wants the row.  A full     *)
(* scan looks names up among the definitions it parsed, an incremental one *)
(* among the rows of the database.  A name that fits two rows fits none.   *)
(*                                                                         *)
(* This module has the tables, the lookup and what the two syncs write.    *)
(* Reindex models which files a run reads and how its row statements fail; *)
(* PostIndex puts the writes into runs.                                    *)
(***************************************************************************)
EXTENDS Naturals, FiniteSets

CONSTANTS
  File,
  Name,      \* qualified names of functions, methods and classes
  Whole,     \* stands for the entity of the file itself
  Text,      \* what sources spell: names, titles, paths
  Path, FileName,  \* [File -> Text]
  Simple,    \* [File \X Name -> Text], the title of a definition: languages differ
  Colon,     \* [Text -> Text], what follows the last "::"
  Dot,       \* [Text -> Text], what follows the last "."
  Body,      \* semantic hashes of definitions, as the numbers they sort by
  NoDef, NoFile, NoRow,
  Edited     \* the sources people leave at a path

Key     == File \X (Name \cup {Whole})
RawEdge == [kind : {"calls", "imports", "extends"},
            from : Name \cup {Whole}, to : Text]
\* Calls are read off the definitions a parse finds.
Source  == {c \in [defs : [Name -> Body \cup {NoDef}], raw : SUBSET RawEdge] :
              \A r \in c.raw : r.kind = "calls" /\ r.from # Whole => c.defs[r.from] # NoDef}
\* The hash of a file's own row is not told apart.
Row     == [live : BOOLEAN, body : Body \cup {Whole}]

ASSUME GraphAssumption ==
  /\ Name \subseteq Text /\ Whole \notin Name
  /\ Path \in [File -> Text] /\ FileName \in [File -> Text]
  /\ Simple \in [File \X Name -> Text]
  /\ Colon \in [Text -> Text] /\ Dot \in [Text -> Text]
  /\ Body \subseteq Nat /\ NoDef \notin Body /\ Whole \notin Body
  /\ NoRow \notin Row
  /\ \A c \in Edited : c = NoFile \/ c \in Source

VARIABLES
  work,  \* [File -> Source or NoFile], the work tree
  row,   \* [Key -> Row or NoRow]; a row that is not live is stale
  edge   \* the structural edges

graph == <<work, row, edge>>

IsLive(k)  == row[k] # NoRow /\ row[k].live
IsStale(k) == row[k] # NoRow /\ ~row[k].live

-----------------------------------------------------------------------------
(* What a parse says.  p is a function from the files read to sources.     *)

Defined(p) == {k \in (DOMAIN p) \X (Name \cup {Whole}) :
                 k[2] = Whole \/ p[k[1]].defs[k[2]] # NoDef}

BodyOf(p, k) == IF k[2] = Whole THEN Whole ELSE p[k[1]].defs[k[2]]

Qualified(k) == IF k[2] = Whole THEN Path[k[1]] ELSE k[2]
Title(k)     == IF k[2] = Whole THEN FileName[k[1]] ELSE Simple[k]

-----------------------------------------------------------------------------
(* Names to rows.  A map is a set of entries <<text, key, how>>: the same  *)
(* row entered twice under one text counts as two candidates.              *)

Tails(t) == {Colon[t], Dot[t]}

\* Mutant: the first candidate is taken.
OneOfMany(names, t) ==
  LET fit == {n \in names : n[1] = t}
  IN  IF fit = {} THEN {} ELSE {(CHOOSE n \in fit : TRUE)[2]}

One(names, t) ==
  LET fit == {n \in names : n[1] = t}
  IN  IF \E n \in fit : fit = {n} THEN {n[2] : n \in fit} ELSE {}

\* A full scan knows the definitions it parsed, by qualified name.
ParsedNames(p) == {<<Qualified(k), k, "name">> : k \in Defined(p)}
ParsedTails(p) == UNION {{<<t, k, "name">> : t \in Tails(Qualified(k))} : k \in Defined(p)}

\* An incremental one knows every row, stale ones too, by title.
KnownKeys  == {k \in Key : row[k] # NoRow}
KnownNames == {<<Title(k), k, "title">> : k \in KnownKeys} \cup
              {<<Path[k[1]], k, "path">> : k \in {j \in KnownKeys : j[2] = Whole}}
KnownTails == UNION {{<<t, k, "title">> : t \in Tails(Title(k))} : k \in KnownKeys}

\* The target as it is spelled, else what follows its last "::".
Target(names, tails, t) ==
  IF One(names, t) # {} THEN One(names, t) ELSE One(tails, Colon[t])

Resolved(p, names, tails) ==
  UNION {UNION {{[kind |-> r.kind, from |-> s, to |-> t] :
                   s \in One(names, Qualified(<<f, r.from>>)),
                   t \in Target(names, tails, r.to)} : r \in p[f].raw} : f \in DOMAIN p}

Contains(p) ==
  {[kind |-> "contains", from |-> <<k[1], Whole>>, to |-> k] :
     k \in {j \in Defined(p) : j[2] # Whole}}

FullEdges(p)  == Resolved(p, ParsedNames(p), ParsedTails(p)) \cup Contains(p)
DeltaEdges(p) == Resolved(p, KnownNames, KnownTails) \cup Contains(p)

-----------------------------------------------------------------------------
(* What the syncs write.                                                   *)

Retired(rows, ks) ==
  [k \in Key |-> IF k \in ks /\ rows[k] # NoRow THEN [rows[k] EXCEPT !.live = FALSE]
                                                ELSE rows[k]]

\* The definitions parsed are upserted, which revives stale rows; what their
\* files no longer define is retired.
SyncedRows(p) ==
  Retired([k \in Key |-> IF k \in Defined(p) THEN [live |-> TRUE, body |-> BodyOf(p, k)]
                                             ELSE row[k]],
          {k \in Key : k[1] \in DOMAIN p /\ k \notin Defined(p)})

\* A full scan also retires the rows of files it neither read nor failed to.
SweptRows(p, failed) ==
  Retired(SyncedRows(p), {k \in Key : k[1] \notin DOMAIN p \cup failed})

\* An edge to a row that is not there is refused by the foreign key.
Insertable(es) == {e \in es : row[e.from] # NoRow /\ row[e.to] # NoRow}

RebuiltEdges(p) == Insertable(FullEdges(p))

\* delete_structural_edges_by_sources.
EdgesWithout(sources) == {e \in edge : e.from \notin sources}

PatchedEdges(p) == EdgesWithout(Defined(p)) \cup Insertable(DeltaEdges(p))

-----------------------------------------------------------------------------
(* What the tools ask of it.                                               *)

Callers(k) == {e.from : e \in {d \in edge : d.kind = "calls" /\ d.to = k}}

\* Where the title of a definition is not its qualified name, that name is
\* nobody's title and no path.  So it is in a tree of one language, and need
\* not be where two meet of which one titles T::go "go" and the other "T::go".
TitlesAgree ==
  \A k \in File \X Name : Title(k) # Qualified(k) =>
    \A j \in Key : Qualified(k) # Title(j) /\ Qualified(k) # Path[j[1]]

\* The source of s asks for an edge of this kind to something spelled like t.
AsksFor(src, kind, s, t) ==
  \E r \in src.raw :
    /\ r.kind = kind
    /\ Qualified(<<s[1], r.from>>) \in {Qualified(s), Title(s)}
    /\ {r.to, Colon[r.to]} \cap
         ({Qualified(t), Title(t)} \cup Tails(Qualified(t)) \cup Tails(Title(t))) # {}
=============================================================================
