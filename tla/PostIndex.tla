----------------------------- MODULE PostIndex -----------------------------
(***************************************************************************)
(* What an index, a reindex or a save does after reading the sources: it   *)
(* updates rows and edges, links knowledge to the code it names, and runs  *)
(* the maintenance pass over the knowledge that refers to code.            *)
(*                                                                         *)
(* A document declares references to definitions and keeps, for each, the  *)
(* hash it was verified against.  The pass moves references along with     *)
(* relocated code, marks documents whose code is gone as orphans, stamps   *)
(* what has no baseline, rebuilds the drift table and heals orphans whose  *)
(* code came back.  It reads, then takes the canonical-file lock, then     *)
(* writes: runs, people and cogz verify come between.                      *)
(*                                                                         *)
(* A read-modify-write under the lock, and a database transaction, is one  *)
(* step.  Document and database row of a document agree here: MemoryStore  *)
(* has the ways in which they do not, and the terminal statuses.           *)
(***************************************************************************)
EXTENDS CodeGraph

CONSTANTS
  Entity,     \* knowledge documents
  Record,     \* those that are dated records, never judged by code
  Mention,    \* [Entity -> SUBSET Text], names and paths in the prose
  RefChoice,  \* the reference lists authors declare
  None,       \* no baseline
  Started,    \* the work trees to begin with
  Worker,     \* processes and hook calls that index
  MaxRuns,    \* bound: runs
  MaxEvents   \* bound: edits, writes of documents by others, and faults

Definition == File \X Name
Doc  == [status : {"active", "stale"},
         orphan : BOOLEAN,                      \* stale_reason: code_orphaned
         refs   : SUBSET Definition,
         base   : [Definition -> Body \cup {None}]]  \* verified_against
Drift == [doc : Entity, key : Definition, cause : {"missing", "unverified", "changed"}]

ASSUME PassAssumption ==
  /\ Record \subseteq Entity /\ Mention \in [Entity -> SUBSET Text]
  /\ RefChoice \subseteq SUBSET Definition /\ None \notin Body
  /\ Started \subseteq [File -> Edited]
  /\ MaxRuns \in Nat /\ MaxEvents \in Nat

VARIABLES
  doc,    \* [Entity -> Doc]
  link,   \* references edges, Entity \X Definition
  auto,   \* auto_references edges, Entity \X Key
  drift,  \* the entity_drift table
  run,    \* [Worker -> Run]
  fresh,     \* history: files whose last sync was undisturbed and is current
  calm,      \* history: undisturbed runs since something else happened, up to 2
  attested,  \* history: [Entity -> what cogz verify stamped last]
  hand,      \* history: documents a person marked stale
  runs, events  \* counters for the bounds

knowledge == <<doc, link, auto, drift>>
history   == <<fresh, calm, attested, hand>>
counters  == <<runs, events>>
vars == <<graph, knowledge, run, history, counters>>

Run == [pc : {"idle", "rows", "edges", "links", "gone", "declare", "reanchor",
              "select", "flag", "repair", "pick", "fill", "clear", "compare",
              "record", "seek", "heal"},
        full   : BOOLEAN,      \* index_code, not reindex_files
        parsed : UNION {[fs -> Source] : fs \in SUBSET File},
        failed : SUBSET File,  \* could not be read
        gone   : SUBSET File,  \* reported as deleted
        decl   : [Entity -> SUBSET Definition],
        moves  : UNION {[ks -> Definition \X Body] : ks \in SUBSET Definition},
        docs   : SUBSET Entity,  \* selected, to be flagged or healed
        fills  : [Entity -> SUBSET (Definition \X Body)],
        rows   : SUBSET Drift,
        alone  : BOOLEAN]  \* history: nothing else happened since it began

Nothing == [x \in {} |-> x]
Idle == [pc |-> "idle", full |-> FALSE, parsed |-> Nothing, failed |-> {},
         gone |-> {}, decl |-> [e \in Entity |-> {}], moves |-> Nothing, docs |-> {},
         fills |-> [e \in Entity |-> {}], rows |-> {}, alone |-> FALSE]

Present == {f \in File : work[f] # NoFile}
Parse(fs) == [f \in fs |-> work[f]]

Running == {w \in Worker : run[w].pc # "idle"}

\* After a first index, of the sources as they are.  Documents were verified
\* against some version of what they refer to, or against none; some come
\* from a checkout in which their code was gone.
Init ==
  /\ work \in Started
  /\ LET p == Parse(Present) IN
     /\ row = [k \in Key |-> IF k \in Defined(p) THEN [live |-> TRUE, body |-> BodyOf(p, k)]
                                                 ELSE NoRow]
     /\ edge = FullEdges(p)
  /\ doc \in [Entity -> Doc]
  /\ \A e \in Entity :
       /\ doc[e].orphan <=> doc[e].status = "stale"
       /\ doc[e].refs \in RefChoice
       /\ \A k \in Definition \ doc[e].refs : doc[e].base[k] = None
  /\ link = {l \in Entity \X Definition : l[2] \in doc[l[1]].refs /\ row[l[2]] # NoRow}
  /\ auto = {} /\ drift = {}
  /\ run = [w \in Worker |-> Idle]
  /\ fresh = {} /\ calm = 0 /\ attested = [e \in Entity |-> {}] /\ hand = {}
  /\ runs = 0 /\ events = 0

-----------------------------------------------------------------------------
(* A run is a sequence of steps; one with nothing to do is passed over.    *)

\* Worker w goes on as r.  A run that ends counts as calm if left alone.
Goto(w, r) ==
  /\ run' = [run EXCEPT ![w] = IF r.pc = "idle" THEN Idle ELSE r]
  /\ calm' = IF r.pc # "idle" THEN calm
             ELSE IF ~r.alone THEN 0
             ELSE IF calm < 2 THEN calm + 1 ELSE calm

At(r, pc) == [r EXCEPT !.pc = pc]

\* Something other than a step of the only run happens.
Disturbed(rs) == [w \in Worker |-> [rs[w] EXCEPT !.alone = FALSE]]

Start(w, r) ==
  /\ run[w].pc = "idle" /\ runs < MaxRuns
  /\ runs' = runs + 1
  /\ run' = IF Running = {} THEN [run EXCEPT ![w] = [r EXCEPT !.alone = TRUE]]
                            ELSE Disturbed([run EXCEPT ![w] = r])
  /\ UNCHANGED <<graph, knowledge, history>>

Scan(fs) == [Idle EXCEPT !.pc = "rows", !.full = TRUE, !.parsed = Parse(fs),
                         !.failed = Present \ fs]

\* cogz index, or a reindex without a baseline.
BeginIndex(w) == Start(w, Scan(Present)) /\ UNCHANGED events

\* The same, when some of the files cannot be read.
BeginUnread(w) ==
  /\ \E fs \in (SUBSET Present) \ {Present} : Start(w, Scan(fs))
  /\ events < MaxEvents
  /\ events' = events + 1

\* cogz reindex and reindex-bg, once something is indexed: git reports some
\* files, those that are not there as deleted.  Without any only the pass is
\* run, as in BeginPass.
BeginReindex(w) ==
  /\ KnownKeys # {}
  /\ \E fs \in (SUBSET File) \ {{}} :
       Start(w, [Idle EXCEPT !.pc = "rows", !.parsed = Parse(fs \cap Present),
                             !.gone = fs \ Present])
  /\ UNCHANGED events

\* A source file is saved.
BeginSave(w) ==
  /\ \E f \in Present : Start(w, [Idle EXCEPT !.pc = "rows", !.parsed = Parse({f})])
  /\ UNCHANGED events

\* A file under .cogz is saved and the last pass is a minute old, or a reindex
\* finds nothing changed.
BeginPass(w) == Start(w, At(Idle, "declare")) /\ UNCHANGED events

-----------------------------------------------------------------------------
(* Code: rows, edges, links, deleted files.                                *)

SyncRows(w) ==
  LET r == run[w] IN
  /\ r.pc = "rows"
  /\ row' = IF r.full THEN SweptRows(r.parsed, r.failed) ELSE SyncedRows(r.parsed)
  /\ fresh' = IF r.alone /\ ~r.full THEN fresh \ DOMAIN r.parsed ELSE {}
  /\ Goto(w, At(r, "edges"))
  /\ UNCHANGED <<work, edge, knowledge, attested, hand, counters>>

\* The files this run leaves as the work tree has them, if left alone.
Current(r) ==
  IF r.failed # {} THEN {}
  ELSE {f \in File : IF f \in DOMAIN r.parsed THEN work[f] = r.parsed[f]
                     ELSE r.full /\ work[f] = NoFile}

\* A full scan that failed to read a file keeps the edges there are.
SyncEdges(w) ==
  LET r == run[w] IN
  /\ r.pc = "edges"
  /\ edge' = IF ~r.full THEN PatchedEdges(r.parsed)
             ELSE IF r.failed = {} THEN RebuiltEdges(r.parsed) ELSE edge
  /\ fresh' = IF r.alone THEN fresh \cup Current(r) ELSE {}
  /\ Goto(w, At(r, "links"))
  /\ UNCHANGED <<work, row, knowledge, attested, hand, counters>>

\* Titles that one live row has.
UniqueTitle(t) == Cardinality({k \in Key : IsLive(k) /\ Title(k) = t}) = 1

AutoLinks ==
  {l \in Entity \X Key :
     LET k == l[2] IN
     /\ doc[l[1]].status = "active" /\ IsLive(k)
     /\ \/ Title(k) \in Mention[l[1]] /\ UniqueTitle(Title(k))
        \/ k[2] = Whole /\ Path[k[1]] \in Mention[l[1]]}

SyncAutoLinks(w) ==
  /\ run[w].pc = "links"
  /\ auto' = AutoLinks
  /\ Goto(w, At(run[w], IF run[w].gone = {} THEN "declare" ELSE "gone"))
  /\ UNCHANGED <<graph, doc, link, drift, fresh, attested, hand, counters>>

MarkGone(w) ==
  LET r == run[w] IN
  /\ r.pc = "gone"
  /\ row' = Retired(row, {k \in Key : k[1] \in r.gone})
  /\ fresh' = IF r.alone THEN fresh \cup (r.gone \ Present) ELSE {}
  /\ Goto(w, At(r, "declare"))
  /\ UNCHANGED <<work, edge, knowledge, attested, hand, counters>>

-----------------------------------------------------------------------------
(* Documents.                                                              *)

\* sync_single_file: the references edges of a document are made again, to
\* rows that exist.
LinksOf(e, d) == {<<e, k>> : k \in {j \in d.refs : row[j] # NoRow}}

\* Some documents are rewritten and synced.
Rewrite(ds) ==
  /\ doc' = [e \in Entity |-> IF e \in DOMAIN ds THEN ds[e] ELSE doc[e]]
  /\ link' = {l \in link : l[1] \notin DOMAIN ds} \cup
             UNION {LinksOf(e, ds[e]) : e \in DOMAIN ds}

Declared == [e \in Entity |-> doc[e].refs]

\* What a reference list lacks in baselines, with the hashes of the rows now.
Unstamped(e, refs) ==
  {<<k, row[k].body>> : k \in {j \in refs : row[j] # NoRow /\ doc[e].base[j] = None}}

\* Baselines are added, none is rewritten.
Stamp(base, pairs) ==
  [k \in Definition |->
     IF base[k] # None \/ ~\E p \in pairs : p[1] = k THEN base[k]
     ELSE (CHOOSE p \in pairs : p[1] = k)[2]]

DriftOf(decl) ==
  LET cause(e, k) == IF ~IsLive(k) THEN "missing"
                     ELSE IF doc[e].base[k] = None THEN "unverified"
                     ELSE IF doc[e].base[k] # row[k].body THEN "changed" ELSE "none"
  IN  {d \in [doc : Entity \ Record, key : Definition, cause : {"missing", "unverified", "changed"}] :
         d.key \in decl[d.doc] /\ d.cause = cause(d.doc, d.key)}

-----------------------------------------------------------------------------
(* The maintenance pass.                                                   *)

\* Declared definitions whose rows are stale.
StaleCodeRows(decl) == {k \in UNION {decl[e] : e \in Entity} : IsStale(k)}

\* The live rows that have the body of a stale one.
ActiveCandidates(k) == {c \in Definition : IsLive(c) /\ row[c].body = row[k].body}

\* Where stale code has moved to: the only candidate there is, or the only one
\* of its name.
Relocated(k) ==
  LET pool  == ActiveCandidates(k)
      named == {c \in pool : c[2] = k[2]}
  IN  IF Cardinality(pool) = 1 THEN pool
      ELSE IF Cardinality(named) = 1 THEN named ELSE {}

\* Mutant: a definition is looked for in its file only.
MovesInFile(decl) ==
  LET to(k) == {c \in Relocated(k) : c[1] = k[1]}
  IN  [k \in {j \in StaleCodeRows(decl) : to(j) # {}} |->
         LET c == CHOOSE d \in to(k) : TRUE IN <<c, row[c].body>>]

Moves(decl) ==
  [k \in {j \in StaleCodeRows(decl) : Relocated(j) # {}} |->
     LET c == CHOOSE d \in Relocated(k) : TRUE IN <<c, row[c].body>>]

\* The references the documents declare, and where stale ones have moved to.
Declare(w) ==
  LET r == run[w] IN
  /\ r.pc = "declare"
  /\ Goto(w, [Idle EXCEPT !.pc = IF Moves(Declared) = Nothing THEN "select" ELSE "reanchor",
                          !.decl = Declared, !.moves = Moves(Declared), !.alone = r.alone])
  /\ UNCHANGED <<graph, knowledge, fresh, attested, hand, counters>>

\* References and baselines follow the moves; a baseline takes the hash of the
\* row moved to.  Of two baselines for one definition the greater is read back.
Moved(d, moves) ==
  LET to(k)   == IF k \in DOMAIN moves THEN moves[k][1] ELSE k
      entries == {IF k \in DOMAIN moves THEN moves[k] ELSE <<k, d.base[k]>> :
                    k \in {j \in Definition : d.base[j] # None}}
      of(k)   == {n[2] : n \in {m \in entries : m[1] = k}}
  IN  [d EXCEPT !.refs = {to(k) : k \in d.refs},
                !.base = [k \in Definition |->
                            IF of(k) = {} THEN None
                            ELSE CHOOSE h \in of(k) : \A i \in of(k) : i <= h]]

\* Mutant: the references declared are not read again.
ReanchorFilesOnly(w) ==
  LET r  == run[w]
      es == {e \in Entity \ Record : /\ r.decl[e] \cap DOMAIN r.moves # {}
                                     /\ doc[e].refs \cap DOMAIN r.moves # {}}
      ds == [e \in es |-> Moved(doc[e], r.moves)]
  IN  /\ r.pc = "reanchor"
      /\ Rewrite(ds)
      /\ attested' = [e \in Entity |->
                        IF e \notin es THEN attested[e]
                        ELSE {p \in attested[e] : \A k \in DOMAIN r.moves :
                                p[1] # k /\ p[1] # r.moves[k][1]}]
      /\ Goto(w, [r EXCEPT !.pc = "select", !.moves = Nothing])
      /\ UNCHANGED <<graph, auto, drift, fresh, hand, counters>>

\* Those that declared a moved definition, and still do, are rewritten.
Reanchor(w) ==
  LET r  == run[w]
      es == {e \in Entity \ Record : /\ r.decl[e] \cap DOMAIN r.moves # {}
                                     /\ doc[e].refs \cap DOMAIN r.moves # {}}
      ds == [e \in es |-> Moved(doc[e], r.moves)]
  IN  /\ r.pc = "reanchor"
      /\ Rewrite(ds)
      /\ attested' = [e \in Entity |->
                        IF e \notin es THEN attested[e]
                        ELSE {p \in attested[e] : \A k \in DOMAIN r.moves :
                                p[1] # k /\ p[1] # r.moves[k][1]}]
      /\ Goto(w, [r EXCEPT !.pc = "select", !.moves = Nothing,
                           !.decl = [e \in Entity |-> IF e \in es THEN ds[e].refs ELSE @[e]]])
      /\ UNCHANGED <<graph, auto, drift, fresh, hand, counters>>

\* The documents linked to a row, by either kind of link.
Linking(k) == {l[1] : l \in {m \in link \cup auto : m[2] = k}}

Orphaned(e) == \E k \in Key : IsStale(k) /\ e \in Linking(k)

SelectOrphans(w) ==
  LET es == {e \in Entity \ Record : doc[e].status = "active" /\ Orphaned(e)} IN
  /\ run[w].pc = "select"
  /\ Goto(w, [run[w] EXCEPT !.pc = IF es = {} THEN "repair" ELSE "flag", !.docs = es])
  /\ UNCHANGED <<graph, knowledge, fresh, attested, hand, counters>>

\* The status is not looked at again.
Flag(w) ==
  LET r == run[w] IN
  /\ r.pc = "flag"
  /\ Rewrite([e \in r.docs |-> [doc[e] EXCEPT !.status = "stale", !.orphan = TRUE]])
  /\ Goto(w, [r EXCEPT !.pc = "repair", !.docs = {}])
  /\ UNCHANGED <<graph, auto, drift, fresh, attested, hand, counters>>

\* The targets a document has references edges to.
RefTargets(e) == {l[2] : l \in {m \in link : m[1] = e}}

\* Declared references get the edges they lack, to stale rows too.
Repair(w) ==
  LET r == run[w]
      lacking(e) == {k \in r.decl[e] \ RefTargets(e) : row[k] # NoRow}
  IN
  /\ r.pc = "repair"
  /\ link' = link \cup UNION {{<<e, k>> : k \in lacking(e)} : e \in Entity}
  /\ Goto(w, At(r, "pick"))
  /\ UNCHANGED <<graph, doc, auto, drift, fresh, attested, hand, counters>>

PickUnstamped(w) ==
  LET r     == run[w]
      fills == [e \in Entity |-> IF e \in Record THEN {}
                                ELSE {p \in Unstamped(e, r.decl[e]) : IsLive(p[1])}]
  IN
  /\ r.pc = "pick"
  /\ Goto(w, [r EXCEPT !.pc = IF fills = Idle.fills THEN "clear" ELSE "fill", !.fills = fills])
  /\ UNCHANGED <<graph, knowledge, fresh, attested, hand, counters>>

\* Mutant: what was picked replaces what has been stamped meanwhile.
FillOver(w) ==
  LET r  == run[w]
      es == {e \in Entity : r.fills[e] # {}}
  IN  /\ r.pc = "fill"
      /\ Rewrite([e \in es |->
           [doc[e] EXCEPT !.base = [k \in Definition |->
              IF \E p \in r.fills[e] : p[1] = k THEN (CHOOSE p \in r.fills[e] : p[1] = k)[2]
              ELSE @[k]]]])
      /\ Goto(w, [r EXCEPT !.pc = "clear", !.fills = Idle.fills])
      /\ UNCHANGED <<graph, auto, drift, fresh, attested, hand, counters>>

\* The one-time baseline.
Fill(w) ==
  LET r  == run[w]
      es == {e \in Entity : r.fills[e] # {}}
  IN  /\ r.pc = "fill"
      /\ Rewrite([e \in es |-> [doc[e] EXCEPT !.base = Stamp(@, r.fills[e])]])
      /\ Goto(w, [r EXCEPT !.pc = "clear", !.fills = Idle.fills])
      /\ UNCHANGED <<graph, auto, drift, fresh, attested, hand, counters>>

\* The drift table is emptied, the state read, the rows inserted: three
\* statements or more, and no transaction.
ClearDrift(w) ==
  /\ run[w].pc = "clear"
  /\ drift' = {}
  /\ Goto(w, At(run[w], "compare"))
  /\ UNCHANGED <<graph, doc, link, auto, fresh, attested, hand, counters>>

Compare(w) ==
  LET r  == run[w]
      ds == DriftOf(r.decl)
  IN
  /\ r.pc = "compare"
  /\ Goto(w, [r EXCEPT !.pc = IF ds = {} THEN "seek" ELSE "record",
                       !.rows = ds, !.decl = Idle.decl])
  /\ UNCHANGED <<graph, knowledge, fresh, attested, hand, counters>>

RecordDrift(w) ==
  LET r == run[w] IN
  /\ r.pc = "record"
  /\ drift' = r.rows \cup {d \in drift : \A n \in r.rows : n.doc # d.doc \/ n.key # d.key}
  /\ Goto(w, [r EXCEPT !.pc = "seek", !.rows = {}])
  /\ UNCHANGED <<graph, doc, link, auto, fresh, attested, hand, counters>>

SeekHealed(w) ==
  LET es == {e \in Entity : doc[e].status = "stale"} IN
  /\ run[w].pc = "seek"
  /\ Goto(w, [run[w] EXCEPT !.pc = IF es = {} THEN "idle" ELSE "heal", !.docs = es])
  /\ UNCHANGED <<graph, knowledge, fresh, attested, hand, counters>>

\* Nothing that a document declares or mentions is dead code.
Anchored(e) == \A k \in doc[e].refs \cup {l[2] : l \in {m \in auto : m[1] = e}} : IsLive(k)

\* Mutant: whatever is stale heals.
HealAll(w) ==
  LET r  == run[w]
      es == {e \in r.docs : e \in Record \/ Anchored(e)}
  IN  /\ r.pc = "heal"
      /\ Rewrite([e \in es |-> [doc[e] EXCEPT !.status = "active", !.orphan = FALSE]])
      /\ Goto(w, At(r, "idle"))
      /\ UNCHANGED <<graph, auto, drift, fresh, attested, hand, counters>>

\* Mutant: an orphan without any anchor left is no longer healed.
HealSome(w) ==
  LET r  == run[w]
      es == {e \in r.docs : /\ doc[e].orphan /\ (e \in Record \/ Anchored(e))
                            /\ doc[e].refs # {} \/ \E k \in Key : <<e, k>> \in auto}
  IN  /\ r.pc = "heal"
      /\ Rewrite([e \in es |-> [doc[e] EXCEPT !.status = "active", !.orphan = FALSE]])
      /\ Goto(w, At(r, "idle"))
      /\ UNCHANGED <<graph, auto, drift, fresh, attested, hand, counters>>

\* Orphans whose anchors are all live become active; records always do.
Heal(w) ==
  LET r  == run[w]
      es == {e \in r.docs : doc[e].orphan /\ (e \in Record \/ Anchored(e))}
  IN  /\ r.pc = "heal"
      /\ Rewrite([e \in es |-> [doc[e] EXCEPT !.status = "active", !.orphan = FALSE]])
      /\ Goto(w, At(r, "idle"))
      /\ UNCHANGED <<graph, auto, drift, fresh, attested, hand, counters>>

-----------------------------------------------------------------------------
(* What goes wrong, and what others do.                                    *)

\* Where a run goes on when the lock is contended or the database busy.  A
\* drift table that could not be emptied is not rebuilt.
Beyond == [rows |-> "edges", edges |-> "links", links |-> "gone", gone |-> "declare",
           reanchor |-> "select", flag |-> "repair", fill |-> "clear", clear |-> "seek",
           heal |-> "idle"]

Skip(w) ==
  LET r == run[w] IN
  /\ r.pc \in DOMAIN Beyond
  /\ events < MaxEvents
  /\ events' = events + 1
  /\ fresh' = IF r.pc \in {"rows", "edges", "gone"} THEN {} ELSE fresh
  /\ Goto(w, [r EXCEPT !.pc = Beyond[@], !.alone = FALSE, !.docs = {}, !.moves = Nothing,
                       !.fills = Idle.fills, !.decl = IF r.pc = "clear" THEN Idle.decl ELSE @])
  /\ UNCHANGED <<graph, knowledge, attested, hand, runs>>

Crash(w) ==
  /\ run[w].pc # "idle" /\ events < MaxEvents
  /\ events' = events + 1
  /\ run' = [run EXCEPT ![w] = Idle]
  /\ calm' = 0
  /\ fresh' = IF run[w].pc \in {"edges", "gone"} THEN {} ELSE fresh
  /\ UNCHANGED <<graph, knowledge, attested, hand, runs>>

\* People edit the sources.  The database does not notice.
Edit(f) ==
  /\ events < MaxEvents
  /\ \E c \in Edited \ {work[f]} : work' = [work EXCEPT ![f] = c]
  /\ events' = events + 1
  /\ fresh' = fresh \ {f}
  /\ UNCHANGED <<row, edge, knowledge, run, calm, attested, hand, runs>>

\* A document is written by someone else.
Write(e, d) ==
  /\ events < MaxEvents
  /\ events' = events + 1
  /\ Rewrite([x \in {e} |-> d])
  /\ run' = Disturbed(run) /\ calm' = 0
  /\ UNCHANGED <<graph, auto, fresh, runs>>

\* cogz verify: what is declared and has a row, stale or not, is stamped anew,
\* the drift rows go, and a stale document whose references are live, or which
\* is a record, or which is vouched for anyway, becomes active.
Verify(e) ==
  LET known == {k \in doc[e].refs : row[k] # NoRow}
      base  == [k \in Definition |-> IF k \in known /\ e \notin Record THEN row[k].body ELSE None]
      revives == doc[e].status = "stale"
      d     == [doc[e] EXCEPT !.base = base]
  IN  /\ \E anyway \in BOOLEAN :
           LET up == revives /\ (anyway \/ e \in Record \/ \A k \in doc[e].refs : IsLive(k)) IN
           /\ Write(e, IF up THEN [d EXCEPT !.status = "active", !.orphan = FALSE] ELSE d)
           /\ hand' = IF up THEN hand \ {e} ELSE hand
      /\ drift' = {x \in drift : x.doc # e}
      /\ attested' = [attested EXCEPT ![e] = {<<k, base[k]>> : k \in {j \in Definition : base[j] # None}}]

\* update_knowledge with a reference list: new references are stamped.
SetReferences(e) ==
  \E refs \in RefChoice \ {doc[e].refs} :
    /\ Write(e, [doc[e] EXCEPT !.refs = refs,
                               !.base = IF e \in Record THEN @ ELSE Stamp(@, Unstamped(e, refs))])
    /\ UNCHANGED <<drift, attested, hand>>

\* A person marks a document stale.  The mark counts as theirs unless a run
\* has already selected the document and is about to mark it as an orphan.
MarkStale(e) ==
  /\ doc[e].status = "active"
  /\ Write(e, [doc[e] EXCEPT !.status = "stale"])
  /\ hand' = IF \E w \in Worker : run[w].pc = "flag" /\ e \in run[w].docs
               THEN hand ELSE hand \cup {e}
  /\ UNCHANGED <<drift, attested>>

RunStep(w) ==
  \/ SyncRows(w) \/ SyncEdges(w) \/ SyncAutoLinks(w) \/ MarkGone(w)
  \/ Declare(w) \/ Reanchor(w) \/ SelectOrphans(w) \/ Flag(w) \/ Repair(w)
  \/ PickUnstamped(w) \/ Fill(w) \/ ClearDrift(w) \/ Compare(w) \/ RecordDrift(w)
  \/ SeekHealed(w) \/ Heal(w)

Begin(w) == BeginIndex(w) \/ BeginUnread(w) \/ BeginReindex(w) \/ BeginSave(w) \/ BeginPass(w)

\* Nothing is left to do.
Rest ==
  /\ Running = {} /\ runs = MaxRuns
  /\ UNCHANGED vars

Next ==
  \/ \E w \in Worker : Begin(w) \/ RunStep(w) \/ Skip(w) \/ Crash(w)
  \/ \E f \in File : Edit(f)
  \/ \E e \in Entity : Verify(e) \/ SetReferences(e) \/ MarkStale(e)
  \/ Rest

Spec == Init /\ [][Next]_vars

-----------------------------------------------------------------------------

TypeOK ==
  /\ \A f \in File : work[f] = NoFile \/ work[f] \in Source
  /\ row \in [Key -> Row \cup {NoRow}]
  /\ \A e \in edge : e.from \in Key /\ e.to \in Key
  /\ doc \in [Entity -> Doc]
  /\ link \subseteq Entity \X Definition /\ auto \subseteq Entity \X Key
  /\ drift \subseteq Drift
  /\ fresh \subseteq File /\ calm \in 0..2 /\ hand \subseteq Entity
  /\ \A e \in Entity : attested[e] \subseteq Definition \X Body

\* A caller the graph names, of and in live code, is one: the source of the
\* caller asks for something of that name, in every file whose last sync was
\* left alone and which has not been edited since.
CallersAreReal ==
  \A k \in {j \in Key : IsLive(j)} : \A s \in Callers(k) :
    s[1] \in fresh /\ IsLive(s) => AsksFor(work[s[1]], "calls", s, k)

\* After a run that was left alone the drift table says, of every reference
\* declared, whether its code is gone, unvouched for or changed, and no more.
DriftExact == Running = {} /\ calm > 0 => drift = DriftOf(Declared)

\* A document is marked as an orphan only while some anchor is dead, once a
\* run was left alone; after two such runs the converse holds too.  One run is
\* not enough: links to stale code are made after documents are flagged.
OrphansSettle ==
  Running = {} =>
    \A e \in Entity \ Record :
      /\ calm > 0 /\ doc[e].orphan => ~Anchored(e)
      /\ calm > 1 /\ doc[e].status = "active" => ~Orphaned(e)

\* After a run that was left alone no living document refers to stale code
\* whose body is live at exactly one other place: relocated code keeps its
\* knowledge.
RelocationIsFollowed ==
  Running = {} /\ calm > 0 =>
    \A e \in Entity \ Record : \A k \in doc[e].refs :
      IsStale(k) => Relocated(k) = {}

\* What cogz verify stamped stays until the next verify, or until the code
\* moves: no pass that was under way, and no author, replaces it.
AttestationSurvives ==
  \A e \in Entity : \A p \in attested[e] : doc[e].base[p[1]] = p[2]

\* What a person marked stale stays stale until cogz verify says otherwise.
HandStaleStays == \A e \in hand : doc[e].status = "stale"

\* Refuted: after syncs that were left alone, incremental or not, the graph of
\* the live code is the one that a scan of the work tree from nothing builds.
IncrementalMatchesFull ==
  Running = {} /\ fresh = File =>
    {e \in edge : IsLive(e.from) /\ IsLive(e.to)} = FullEdges(Parse(Present))

\* Refuted: a baseline is a hash that was live at its key when an author, a
\* verify or the first pass stamped it: no move replaces what has drifted.
MoveKeepsBaseline ==
  [][\A w \in Worker : Reanchor(w) =>
       \A e \in Entity : \A k \in DOMAIN run[w].moves :
         LET to == run[w].moves[k][1] IN
         k \in doc[e].refs /\ doc[e].base[k] # None => doc'[e].base[to] = doc[e].base[k]]_vars
=============================================================================
