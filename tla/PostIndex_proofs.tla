-------------------------- MODULE PostIndex_proofs --------------------------
(***************************************************************************)
(* Theorems about PostIndex, for any sources, documents, reference lists   *)
(* and workers, and any number of runs and of other events.                *)
(***************************************************************************)
EXTENDS PostIndex, TLAPS

-----------------------------------------------------------------------------
(* What a run carries.                                                     *)

RunFields == {"pc", "full", "parsed", "failed", "gone", "decl", "moves", "docs",
              "fills", "rows", "alone"}

RunOK(r) ==
  /\ DOMAIN r = RunFields
  /\ DOMAIN r.parsed \subseteq File
  /\ \A f \in DOMAIN r.parsed : r.parsed[f] \in Source

Sources ==
  /\ work = [f \in File |-> work[f]]
  /\ \A f \in File : work[f] = NoFile \/ work[f] \in Source

Runs ==
  /\ run = [w \in Worker |-> run[w]]
  /\ \A w \in Worker : RunOK(run[w])

LEMMA IdleIs == RunOK(Idle) /\ Idle.pc = "idle"
<1>1. DOMAIN Nothing = {}
  BY DEF Nothing
<1>2. DOMAIN Idle = RunFields /\ Idle.pc = "idle" /\ Idle.parsed = Nothing
  BY DEF Idle, RunFields
<1>. QED  BY <1>1, <1>2 DEF RunOK

\* The runs of the other workers stay; this one goes on as r, or ends.
LEMMA GotoIs ==
  ASSUME Runs, NEW w \in Worker, NEW r, RunOK(r), Goto(w, r)
  PROVE  /\ run' = [v \in Worker |-> run'[v]]
         /\ \A v \in Worker : v # w => run'[v] = run[v]
         /\ RunOK(run'[w]) /\ run'[w].pc = r.pc /\ (r.pc # "idle" => run'[w] = r)
<1>. DEFINE s == IF r.pc = "idle" THEN Idle ELSE r
<1>1. run' = [run EXCEPT ![w] = s]
  BY DEF Goto
<1>2. RunOK(s) /\ s.pc = r.pc /\ (r.pc # "idle" => s = r)
  BY IdleIs
<1>. HIDE DEF s
<1>. QED  BY <1>1, <1>2 DEF Runs

\* Only the mark of being alone changes.
LEMMA DisturbedIs ==
  ASSUME NEW rs, \A w \in Worker : RunOK(rs[w]), NEW w \in Worker
  PROVE  /\ RunOK(Disturbed(rs)[w]) /\ Disturbed(rs)[w].pc = rs[w].pc
         /\ Disturbed(rs)[w].docs = rs[w].docs
<1>. DEFINE r == [rs[w] EXCEPT !.alone = FALSE]
<1>1. Disturbed(rs)[w] = r
  BY DEF Disturbed
<1>2. DOMAIN r = RunFields /\ r.pc = rs[w].pc /\ r.docs = rs[w].docs /\ r.parsed = rs[w].parsed
  BY DEF RunOK, RunFields
<1>. QED  BY <1>1, <1>2 DEF RunOK

LEMMA ParseDomain ==
  ASSUME NEW fs \in SUBSET Present
  PROVE  DOMAIN Parse(fs) = fs /\ fs \subseteq File
  BY DEF Parse, Present

LEMMA ParseIs ==
  ASSUME Sources, NEW fs \in SUBSET Present, NEW f \in fs
  PROVE  Parse(fs)[f] \in Source
  BY DEF Parse, Present, Sources

\* A run starts: with the sources it has read, at one of two steps.
LEMMA StartIs ==
  ASSUME Sources, Runs, NEW w \in Worker, Begin(w)
  PROVE  /\ UNCHANGED <<graph, knowledge, history>> /\ Runs'
         /\ \A v \in Worker : run'[v].pc = "flag" => /\ v # w /\ run[v].pc = "flag"
                                                     /\ run'[v].docs = run[v].docs
<1>1. PICK r : Start(w, r) /\ RunOK(r) /\ r.pc \in {"rows", "declare"}
  <2>1. ASSUME NEW fs \in SUBSET Present, Start(w, Scan(fs))
        PROVE  \E r : Start(w, r) /\ RunOK(r) /\ r.pc \in {"rows", "declare"}
    <3>. DEFINE r == Scan(fs)
    <3>1. DOMAIN r = RunFields /\ r.pc = "rows" /\ r.parsed = Parse(fs)
      BY DEF Scan, Idle, RunFields
    <3>2. DOMAIN Parse(fs) = fs
      BY DEF Parse
    <3>. HIDE DEF r
    <3>. QED  BY <2>1, <3>1, <3>2, ParseIs, ParseDomain DEF RunOK, r
  <2>2. ASSUME NEW fs \in SUBSET Present, NEW gone,
               Start(w, [Idle EXCEPT !.pc = "rows", !.parsed = Parse(fs), !.gone = gone])
        PROVE  \E r : Start(w, r) /\ RunOK(r) /\ r.pc \in {"rows", "declare"}
    <3>. DEFINE r == [Idle EXCEPT !.pc = "rows", !.parsed = Parse(fs), !.gone = gone]
    <3>1. DOMAIN r = RunFields /\ r.pc = "rows" /\ r.parsed = Parse(fs)
      BY DEF Idle, RunFields
    <3>2. DOMAIN Parse(fs) = fs
      BY DEF Parse
    <3>. HIDE DEF r
    <3>. QED  BY <2>2, <3>1, <3>2, ParseIs, ParseDomain DEF RunOK, r
  <2>3. ASSUME NEW fs \in SUBSET Present,
               Start(w, [Idle EXCEPT !.pc = "rows", !.parsed = Parse(fs)])
        PROVE  \E r : Start(w, r) /\ RunOK(r) /\ r.pc \in {"rows", "declare"}
    <3>. DEFINE r == [Idle EXCEPT !.pc = "rows", !.parsed = Parse(fs)]
    <3>1. DOMAIN r = RunFields /\ r.pc = "rows" /\ r.parsed = Parse(fs)
      BY DEF Idle, RunFields
    <3>2. DOMAIN Parse(fs) = fs
      BY DEF Parse
    <3>. HIDE DEF r
    <3>. QED  BY <2>3, <3>1, <3>2, ParseIs, ParseDomain DEF RunOK, r
  <2>4. CASE BeginPass(w)
    <3>. DEFINE r == At(Idle, "declare")
    <3>1. DOMAIN r = RunFields /\ r.pc = "declare" /\ r.parsed = Idle.parsed
      BY DEF At, Idle, RunFields
    <3>2. Start(w, r)
      BY <2>4 DEF BeginPass
    <3>. HIDE DEF r
    <3>. QED  BY <3>1, <3>2, IdleIs DEF RunOK
  <2>5. CASE BeginIndex(w) \/ BeginUnread(w)
    BY <2>1, <2>5 DEF BeginIndex, BeginUnread
  <2>6. CASE BeginReindex(w)
    <3>1. PICK fs \in SUBSET File :
            Start(w, [Idle EXCEPT !.pc = "rows", !.parsed = Parse(fs \cap Present),
                                  !.gone = fs \ Present])
      BY <2>6 DEF BeginReindex
    <3>. QED  BY <2>2, <3>1
  <2>7. CASE BeginSave(w)
    <3>1. PICK f \in Present : Start(w, [Idle EXCEPT !.pc = "rows", !.parsed = Parse({f})])
      BY <2>7 DEF BeginSave
    <3>. QED  BY <2>3, <3>1
  <2>. QED  BY <2>4, <2>5, <2>6, <2>7 DEF Begin
<1>2. UNCHANGED <<graph, knowledge, history>>
  BY <1>1 DEF Start
<1>. DEFINE rs == [run EXCEPT ![w] = r]
<1>3. /\ \A v \in Worker : RunOK(rs[v])
      /\ \A v \in Worker : v # w => rs[v] = run[v]
      /\ rs[w] = r
  BY <1>1 DEF Runs
<1>4. CASE run' = Disturbed(rs)
  <2>. HIDE DEF rs
  <2>1. run' = [v \in Worker |-> run'[v]]
    BY <1>4 DEF Disturbed
  <2>2. ASSUME NEW v \in Worker
        PROVE  RunOK(run'[v]) /\ run'[v].pc = rs[v].pc /\ run'[v].docs = rs[v].docs
    BY <1>3, <1>4, DisturbedIs
  <2>. QED  BY <1>1, <1>2, <1>3, <2>1, <2>2 DEF Runs
<1>5. CASE run' = [run EXCEPT ![w] = [r EXCEPT !.alone = TRUE]]
  <2>. DEFINE s == [r EXCEPT !.alone = TRUE]
  <2>1. DOMAIN s = RunFields /\ s.pc = r.pc /\ s.parsed = r.parsed
    BY <1>1 DEF RunOK, RunFields
  <2>. HIDE DEF s
  <2>2. RunOK(s)
    BY <1>1, <2>1 DEF RunOK
  <2>3. /\ run' = [v \in Worker |-> run'[v]] /\ run'[w] = s
        /\ \A v \in Worker : v # w => run'[v] = run[v]
    BY <1>5 DEF Runs, s
  <2>. QED  BY <1>1, <1>2, <2>1, <2>2, <2>3 DEF Runs
<1>. QED  BY <1>1, <1>4, <1>5 DEF Start

\* No run comes to be about to flag documents.
FlagsKept ==
  \A v \in Worker : run'[v].pc = "flag" => run[v].pc = "flag" /\ run'[v].docs = run[v].docs

LEMMA GoOn ==
  ASSUME Runs, NEW w \in Worker, NEW r, Goto(w, r), DOMAIN r = RunFields,
         r.parsed = run[w].parsed \/ r.parsed = Idle.parsed, r.pc # "flag"
  PROVE  Runs' /\ FlagsKept
<1>1. RunOK(r)
  BY IdleIs DEF RunOK, Runs
<1>2. /\ run' = [v \in Worker |-> run'[v]]
      /\ \A v \in Worker : v # w => run'[v] = run[v]
      /\ RunOK(run'[w]) /\ run'[w].pc = r.pc
  BY <1>1, GotoIs
<1>. QED  BY <1>2 DEF Runs, FlagsKept

LEMMA AtIs ==
  ASSUME NEW r, DOMAIN r = RunFields, NEW pc
  PROVE  DOMAIN At(r, pc) = RunFields /\ At(r, pc).pc = pc /\ At(r, pc).parsed = r.parsed
  BY DEF At, RunFields

LEMMA GoAt ==
  ASSUME Runs, NEW w \in Worker, NEW pc, Goto(w, At(run[w], pc)), pc # "flag"
  PROVE  Runs' /\ FlagsKept
<1>1. DOMAIN run[w] = RunFields
  BY DEF Runs, RunOK
<1>. QED  BY <1>1, AtIs, GoOn

LEMMA RunsStep ==
  ASSUME Runs, NEW w \in Worker, RunStep(w), ~SelectOrphans(w)
  PROVE  Runs' /\ FlagsKept
<1>. DEFINE l == run[w]
<1>1. DOMAIN l = RunFields
  BY DEF Runs, RunOK
<1>2. CASE SyncRows(w) \/ SyncEdges(w) \/ SyncAutoLinks(w) \/ MarkGone(w) \/ Repair(w)
           \/ ClearDrift(w) \/ Heal(w)
  BY <1>2, GoAt DEF SyncRows, SyncEdges, SyncAutoLinks, MarkGone, Repair, ClearDrift, Heal
<1>3. CASE Declare(w)
  <2>. DEFINE r == [Idle EXCEPT !.pc = IF Moves(Declared) = Nothing THEN "select" ELSE "reanchor",
                          !.decl = Declared, !.moves = Moves(Declared), !.alone = l.alone]
  <2>1. DOMAIN r = RunFields /\ r.parsed = Idle.parsed /\ r.pc # "flag"
    BY DEF Idle, RunFields
  <2>2. Goto(w, r)
    BY <1>3 DEF Declare
  <2>. HIDE DEF r
  <2>. QED  BY <2>1, <2>2, GoOn
<1>4. CASE Reanchor(w)
  <2>. DEFINE es == {e \in Entity \ Record : /\ l.decl[e] \cap DOMAIN l.moves # {}
                                             /\ doc[e].refs \cap DOMAIN l.moves # {}}
              ds == [e \in es |-> Moved(doc[e], l.moves)]
              r  == [l EXCEPT !.pc = "select", !.moves = Nothing,
                       !.decl = [e \in Entity |-> IF e \in es THEN ds[e].refs ELSE @[e]]]
  <2>1. Goto(w, r)
    BY <1>4 DEF Reanchor
  <2>2. DOMAIN r = RunFields /\ r.parsed = l.parsed /\ r.pc # "flag"
    BY <1>1 DEF RunFields
  <2>. HIDE DEF r
  <2>. QED  BY <2>1, <2>2, GoOn
<1>5. CASE Flag(w)
  <2>. DEFINE r == [l EXCEPT !.pc = "repair", !.docs = {}]
  <2>1. DOMAIN r = RunFields /\ r.parsed = l.parsed /\ r.pc # "flag"
    BY <1>1 DEF RunFields
  <2>2. Goto(w, r)
    BY <1>5 DEF Flag
  <2>. HIDE DEF r
  <2>. QED  BY <2>1, <2>2, GoOn
<1>6. CASE PickUnstamped(w)
  <2>1. PICK fills : Goto(w, [l EXCEPT !.pc = IF fills = Idle.fills THEN "clear" ELSE "fill",
                                       !.fills = fills])
    BY <1>6 DEF PickUnstamped
  <2>. DEFINE r == [l EXCEPT !.pc = IF fills = Idle.fills THEN "clear" ELSE "fill",
                             !.fills = fills]
  <2>2. DOMAIN r = RunFields /\ r.parsed = l.parsed /\ r.pc # "flag"
    BY <1>1 DEF RunFields
  <2>. HIDE DEF r
  <2>. QED  BY <2>1, <2>2, GoOn DEF r
<1>7. CASE Fill(w)
  <2>. DEFINE r == [l EXCEPT !.pc = "clear", !.fills = Idle.fills]
  <2>1. DOMAIN r = RunFields /\ r.parsed = l.parsed /\ r.pc # "flag"
    BY <1>1 DEF RunFields
  <2>2. Goto(w, r)
    BY <1>7 DEF Fill
  <2>. HIDE DEF r
  <2>. QED  BY <2>1, <2>2, GoOn
<1>8. CASE Compare(w)
  <2>. DEFINE r == [l EXCEPT !.pc = IF DriftOf(l.decl) = {} THEN "seek" ELSE "record",
                       !.rows = DriftOf(l.decl), !.decl = Idle.decl]
  <2>1. DOMAIN r = RunFields /\ r.parsed = l.parsed /\ r.pc # "flag"
    BY <1>1 DEF RunFields
  <2>2. Goto(w, r)
    BY <1>8 DEF Compare
  <2>. HIDE DEF r
  <2>. QED  BY <2>1, <2>2, GoOn
<1>9. CASE RecordDrift(w)
  <2>. DEFINE r == [l EXCEPT !.pc = "seek", !.rows = {}]
  <2>1. DOMAIN r = RunFields /\ r.parsed = l.parsed /\ r.pc # "flag"
    BY <1>1 DEF RunFields
  <2>2. Goto(w, r)
    BY <1>9 DEF RecordDrift
  <2>. HIDE DEF r
  <2>. QED  BY <2>1, <2>2, GoOn
<1>10. CASE SeekHealed(w)
  <2>. DEFINE es == {e \in Entity : doc[e].status = "stale"}
              r  == [l EXCEPT !.pc = IF es = {} THEN "idle" ELSE "heal", !.docs = es]
  <2>1. DOMAIN r = RunFields /\ r.parsed = l.parsed /\ r.pc # "flag"
    BY <1>1 DEF RunFields
  <2>2. Goto(w, r)
    BY <1>10 DEF SeekHealed
  <2>. HIDE DEF r
  <2>. QED  BY <2>1, <2>2, GoOn
<1>. QED  BY <1>2, <1>3, <1>4, <1>5, <1>6, <1>7, <1>8, <1>9, <1>10 DEF RunStep

LEMMA RunsEnd ==
  ASSUME Runs, NEW w \in Worker, Skip(w) \/ Crash(w)
  PROVE  Runs' /\ FlagsKept
<1>. DEFINE l == run[w]
<1>1. CASE Skip(w)
  <2>. DEFINE r == [l EXCEPT !.pc = Beyond[@], !.alone = FALSE, !.docs = {}, !.moves = Nothing,
                       !.fills = Idle.fills, !.decl = IF l.pc = "clear" THEN Idle.decl ELSE @]
  <2>1. Goto(w, r) /\ l.pc \in DOMAIN Beyond
    BY <1>1 DEF Skip
  <2>2. DOMAIN l = RunFields
    BY DEF Runs, RunOK
  <2>3. DOMAIN r = RunFields /\ r.parsed = l.parsed /\ r.pc = Beyond[l.pc]
    BY <2>2 DEF RunFields
  <2>4. Beyond[l.pc] # "flag"
    BY <2>1 DEF Beyond
  <2>. HIDE DEF r
  <2>. QED  BY <2>1, <2>3, <2>4, GoOn
<1>2. CASE Crash(w)
  <2>1. run' = [run EXCEPT ![w] = Idle]
    BY <1>2 DEF Crash
  <2>2. run' = [v \in Worker |-> run'[v]] /\ run'[w] = Idle
        /\ \A v \in Worker : v # w => run'[v] = run[v]
    BY <2>1 DEF Runs
  <2>. QED  BY <2>2, IdleIs DEF Runs, FlagsKept
<1>. QED  BY <1>1, <1>2

-----------------------------------------------------------------------------
(* Documents a person marked stale.                                        *)

DocFields == {"status", "orphan", "refs", "base"}

\* Only a stale document is marked as an orphan.
DocOK(d) == DOMAIN d = DocFields /\ (d.status # "stale" => d.orphan = FALSE)

Docs ==
  /\ doc = [e \in Entity |-> doc[e]]
  /\ \A e \in Entity : DocOK(doc[e])

\* They are no orphans, and no run that selected them is about to flag them.
Handed ==
  /\ hand \subseteq Entity
  /\ \A e \in hand :
       /\ doc[e].status = "stale" /\ doc[e].orphan = FALSE
       /\ \A v \in Worker : run[v].pc = "flag" => e \notin run[v].docs

LEMMA RewriteIs ==
  ASSUME Docs, NEW ds, Rewrite(ds),
         \A e \in Entity : e \in DOMAIN ds => DocOK(ds[e])
  PROVE  /\ Docs'
         /\ \A e \in Entity : doc'[e] = IF e \in DOMAIN ds THEN ds[e] ELSE doc[e]
<1>1. doc' = [e \in Entity |-> IF e \in DOMAIN ds THEN ds[e] ELSE doc[e]]
  BY DEF Rewrite
<1>. QED  BY <1>1 DEF Docs

LEMMA HandKept ==
  ASSUME Handed, FlagsKept, UNCHANGED hand,
         \A e \in hand : doc'[e].status = doc[e].status /\ doc'[e].orphan = doc[e].orphan
  PROVE  Handed'
  BY DEF Handed, FlagsKept

\* A document with other baselines, or with moved references.
LEMMA BaseIs ==
  ASSUME NEW d, DocOK(d), NEW b
  PROVE  /\ DocOK([d EXCEPT !.base = b])
         /\ [d EXCEPT !.base = b].status = d.status /\ [d EXCEPT !.base = b].orphan = d.orphan
         /\ [d EXCEPT !.base = b].base = b /\ [d EXCEPT !.base = b].refs = d.refs
  BY DEF DocOK, DocFields

Turned(d, rs, b) == [d EXCEPT !.refs = rs, !.base = b]

LEMMA TurnedIs ==
  ASSUME NEW d, DocOK(d), NEW rs, NEW b
  PROVE  /\ DocOK(Turned(d, rs, b)) /\ Turned(d, rs, b).status = d.status
         /\ Turned(d, rs, b).orphan = d.orphan /\ Turned(d, rs, b).base = b
  BY DEF DocOK, DocFields, Turned

LEMMA StatusIs ==
  ASSUME NEW d, DocOK(d)
  PROVE  /\ DocOK([d EXCEPT !.status = "stale", !.orphan = TRUE])
         /\ DocOK([d EXCEPT !.status = "active", !.orphan = FALSE])
         /\ DocOK([d EXCEPT !.status = "stale"])
         /\ [d EXCEPT !.status = "stale"].status = "stale"
         /\ [d EXCEPT !.status = "stale"].orphan = d.orphan
         /\ [d EXCEPT !.status = "stale", !.orphan = TRUE].base = d.base
         /\ [d EXCEPT !.status = "active", !.orphan = FALSE].base = d.base
         /\ [d EXCEPT !.status = "stale"].base = d.base
  BY DEF DocOK, DocFields

\* What each step of a pass that writes documents leaves of them.
SameStatus(e) == doc'[e].status = doc[e].status /\ doc'[e].orphan = doc[e].orphan

LEMMA ReanchorDoc ==
  ASSUME Docs, NEW w \in Worker, Reanchor(w)
  PROVE  /\ Docs' /\ \A e \in Entity : SameStatus(e)
         /\ \A e \in Entity :
              \/ doc'[e].base = doc[e].base /\ attested'[e] = attested[e]
              \/ /\ doc'[e].base = Moved(doc[e], run[w].moves).base
                 /\ attested'[e] = {p \in attested[e] : \A k \in DOMAIN run[w].moves :
                                      p[1] # k /\ p[1] # run[w].moves[k][1]}
         /\ attested' = [e \in Entity |-> attested'[e]]
<1>. DEFINE r  == run[w]
            es == {e \in Entity \ Record : /\ r.decl[e] \cap DOMAIN r.moves # {}
                                           /\ doc[e].refs \cap DOMAIN r.moves # {}}
            ds == [e \in es |-> Moved(doc[e], r.moves)]
            kept(e) == {p \in attested[e] : \A k \in DOMAIN r.moves :
                                p[1] # k /\ p[1] # r.moves[k][1]}
<1>1. Rewrite(ds) /\ attested' = [e \in Entity |-> IF e \notin es THEN attested[e] ELSE kept(e)]
  BY DEF Reanchor
<1>2. DOMAIN ds = es /\ \A e \in es : ds[e] = Moved(doc[e], r.moves)
  OBVIOUS
<1>3. ASSUME NEW e \in Entity
      PROVE  LET m == Moved(doc[e], r.moves)
             IN  DocOK(m) /\ m.status = doc[e].status /\ m.orphan = doc[e].orphan
  <2>1. DocOK(doc[e])
    BY DEF Docs
  <2>2. \E rs, b : Moved(doc[e], r.moves) = Turned(doc[e], rs, b)
    BY DEF Moved, Turned
  <2>. QED  BY <2>1, <2>2, TurnedIs
<1>. HIDE DEF es, ds, kept
<1>4. Docs' /\ \A e \in Entity : doc'[e] = IF e \in es THEN Moved(doc[e], r.moves) ELSE doc[e]
  BY <1>1, <1>2, <1>3, RewriteIs
<1>5. \A e \in Entity : SameStatus(e)
  BY <1>3, <1>4 DEF SameStatus
<1>6. ASSUME NEW e \in Entity
      PROVE  \/ doc'[e].base = doc[e].base /\ attested'[e] = attested[e]
             \/ doc'[e].base = Moved(doc[e], r.moves).base /\ attested'[e] = kept(e)
  BY <1>1, <1>4
<1>. QED  BY <1>1, <1>4, <1>5, <1>6 DEF kept

LEMMA FillDoc ==
  ASSUME Docs, NEW w \in Worker, Fill(w)
  PROVE  /\ Docs' /\ \A e \in Entity : SameStatus(e)
         /\ \A e \in Entity : \/ doc'[e].base = doc[e].base
                              \/ doc'[e].base = Stamp(doc[e].base, run[w].fills[e])
<1>. DEFINE es == {e \in Entity : run[w].fills[e] # {}}
            b(e) == Stamp(doc[e].base, run[w].fills[e])
            ds == [e \in es |-> [doc[e] EXCEPT !.base = b(e)]]
<1>1. Rewrite(ds)
  BY DEF Fill
<1>2. ASSUME NEW e \in Entity
      PROVE  /\ DocOK([doc[e] EXCEPT !.base = b(e)])
             /\ [doc[e] EXCEPT !.base = b(e)].status = doc[e].status
             /\ [doc[e] EXCEPT !.base = b(e)].orphan = doc[e].orphan
             /\ [doc[e] EXCEPT !.base = b(e)].base = b(e)
  <2>1. DocOK(doc[e])
    BY DEF Docs
  <2>. HIDE DEF b
  <2>. QED  BY <2>1, BaseIs
<1>3. DOMAIN ds = es /\ \A e \in es : e \in Entity /\ ds[e] = [doc[e] EXCEPT !.base = b(e)]
  OBVIOUS
<1>. HIDE DEF ds, es
<1>4. Docs' /\ \A e \in Entity : doc'[e] = IF e \in es THEN ds[e] ELSE doc[e]
  BY <1>1, <1>2, <1>3, RewriteIs
<1>. QED  BY <1>2, <1>3, <1>4 DEF SameStatus

LEMMA FlagDoc ==
  ASSUME Docs, NEW w \in Worker, Flag(w)
  PROVE  /\ Docs' /\ \A e \in Entity : doc'[e].base = doc[e].base
         /\ \A e \in Entity : e \notin run[w].docs => SameStatus(e)
<1>. DEFINE ds == [e \in run[w].docs |-> [doc[e] EXCEPT !.status = "stale", !.orphan = TRUE]]
<1>1. Rewrite(ds)
  BY DEF Flag
<1>2. \A e \in Entity : DocOK(doc[e])
  BY DEF Docs
<1>3. \A e \in Entity : e \in DOMAIN ds => DocOK(ds[e]) /\ ds[e].base = doc[e].base
  BY <1>2, StatusIs
<1>4. DOMAIN ds = run[w].docs
  OBVIOUS
<1>. HIDE DEF ds
<1>. QED  BY <1>1, <1>3, <1>4, RewriteIs DEF SameStatus

LEMMA HealDoc ==
  ASSUME Docs, NEW w \in Worker, Heal(w)
  PROVE  /\ Docs' /\ \A e \in Entity : doc'[e].base = doc[e].base
         /\ \A e \in Entity : doc[e].orphan = FALSE => SameStatus(e)
<1>. DEFINE es == {e \in run[w].docs : doc[e].orphan /\ (e \in Record \/ Anchored(e))}
            ds == [e \in es |-> [doc[e] EXCEPT !.status = "active", !.orphan = FALSE]]
<1>1. Rewrite(ds)
  BY DEF Heal
<1>2. \A e \in Entity : DocOK(doc[e])
  BY DEF Docs
<1>3. \A e \in Entity : e \in DOMAIN ds => DocOK(ds[e]) /\ ds[e].base = doc[e].base
  BY <1>2, StatusIs
<1>4. DOMAIN ds = es
  OBVIOUS
<1>5. ASSUME NEW e, doc[e].orphan = FALSE
      PROVE  e \notin es
  BY <1>5
<1>. HIDE DEF ds, es
<1>. QED  BY <1>1, <1>3, <1>4, <1>5, RewriteIs DEF SameStatus

LEMMA WriteIs ==
  ASSUME Docs, Runs, NEW e \in Entity, NEW d, DocOK(d), Write(e, d)
  PROVE  /\ Docs' /\ Runs' /\ FlagsKept /\ doc'[e] = d
         /\ \A x \in Entity : x # e => doc'[x] = doc[x]
<1>. DEFINE ds == [x \in {e} |-> d]
<1>1. Rewrite(ds) /\ run' = Disturbed(run)
  BY DEF Write
<1>2. DOMAIN ds = {e} /\ ds[e] = d
  OBVIOUS
<1>. HIDE DEF ds
<1>3. Docs' /\ \A x \in Entity : doc'[x] = IF x \in {e} THEN ds[x] ELSE doc[x]
  BY <1>1, <1>2, RewriteIs
<1>4. ASSUME NEW v \in Worker
      PROVE  RunOK(run'[v]) /\ run'[v].pc = run[v].pc /\ run'[v].docs = run[v].docs
  BY <1>1, DisturbedIs DEF Runs
<1>5. run' = [v \in Worker |-> run'[v]]
  BY <1>1 DEF Disturbed
<1>. QED  BY <1>2, <1>3, <1>4, <1>5 DEF Runs, FlagsKept

\* What cogz verify stamps, and what it says it stamped.
Vouched(e) ==
  [k \in Definition |-> IF k \in {j \in doc[e].refs : row[j] # NoRow} /\ e \notin Record
                        THEN row[k].body ELSE None]
Pairs(base) == {<<k, base[k]>> : k \in {j \in Definition : base[j] # None}}
SameMark(d, c) == d.status = c.status /\ d.orphan = c.orphan

LEMMA VerifyIs ==
  ASSUME Docs, NEW e \in Entity, Verify(e)
  PROVE  /\ \E d : /\ Write(e, d) /\ DocOK(d) /\ d.base = Vouched(e)
                   /\ \/ hand' = hand \ {e}
                      \/ hand' = hand /\ SameMark(d, doc[e])
         /\ attested' = [attested EXCEPT ![e] = Pairs(Vouched(e))]
<1>. DEFINE b  == Vouched(e)
            d  == [doc[e] EXCEPT !.base = b]
            up == [d EXCEPT !.status = "active", !.orphan = FALSE]
<1>1. /\ (Write(e, up) /\ hand' = hand \ {e}) \/ (Write(e, d) /\ hand' = hand)
      /\ attested' = [attested EXCEPT ![e] = Pairs(b)]
  BY DEF Verify, Vouched, Pairs
<1>2. DocOK(doc[e])
  BY DEF Docs
<1>. HIDE DEF b
<1>3. DocOK(d) /\ SameMark(d, doc[e]) /\ d.base = b
  BY <1>2, BaseIs DEF SameMark
<1>. HIDE DEF d
<1>4. DocOK(up) /\ up.base = b
  BY <1>3, StatusIs
<1>. HIDE DEF up
<1>. QED  BY <1>1, <1>3, <1>4 DEF b

LEMMA HandNext ==
  ASSUME Sources, Runs, Docs, Handed, [Next]_vars
  PROVE  Runs' /\ Docs' /\ Handed'
<1>1. ASSUME NEW w \in Worker, Begin(w) PROVE Runs' /\ Docs' /\ Handed'
  <2>1. UNCHANGED <<doc, hand>> /\ Runs' /\ FlagsKept
    BY <1>1, StartIs DEF knowledge, history, FlagsKept
  <2>. QED  BY <2>1, HandKept DEF Docs
<1>2. ASSUME NEW w \in Worker, SelectOrphans(w) PROVE Runs' /\ Docs' /\ Handed'
  <2>. DEFINE l  == run[w]
              es == {e \in Entity \ Record : doc[e].status = "active" /\ Orphaned(e)}
              r  == [l EXCEPT !.pc = IF es = {} THEN "repair" ELSE "flag", !.docs = es]
  <2>1. Goto(w, r) /\ UNCHANGED <<doc, hand>>
    BY <1>2 DEF SelectOrphans, knowledge
  <2>2. RunOK(l)
    BY DEF Runs
  <2>3. DOMAIN r = RunFields /\ r.parsed = l.parsed /\ r.docs = es /\ r.pc \in {"repair", "flag"}
    BY <2>2 DEF RunOK, RunFields
  <2>4. \A e \in es : doc[e].status # "stale"
    OBVIOUS
  <2>. HIDE DEF r, es
  <2>5. RunOK(r)
    BY <2>2, <2>3 DEF RunOK
  <2>6. /\ run' = [v \in Worker |-> run'[v]] /\ run'[w] = r
        /\ \A v \in Worker : v # w => run'[v] = run[v]
    BY <2>1, <2>3, <2>5, GotoIs
  <2>7. Handed'
    BY <2>1, <2>3, <2>4, <2>6 DEF Handed
  <2>. QED  BY <2>1, <2>5, <2>6, <2>7 DEF Runs, Docs
<1>3. ASSUME NEW w \in Worker, RunStep(w), ~SelectOrphans(w) PROVE Runs' /\ Docs' /\ Handed'
  <2>1. Runs' /\ FlagsKept
    BY <1>3, RunsStep
  <2>2. UNCHANGED hand
    BY <1>3 DEF RunStep, SyncRows, SyncEdges, SyncAutoLinks, MarkGone, Declare, Reanchor,
                Flag, Repair, PickUnstamped, Fill, ClearDrift, Compare, RecordDrift,
                SeekHealed, Heal
  <2>3. CASE Reanchor(w)
    BY <2>1, <2>2, <2>3, ReanchorDoc, HandKept DEF SameStatus, Handed
  <2>4. CASE Fill(w)
    BY <2>1, <2>2, <2>4, FillDoc, HandKept DEF SameStatus, Handed
  <2>5. CASE Flag(w)
    <3>1. run[w].pc = "flag"
      BY <2>5 DEF Flag
    <3>. QED  BY <2>1, <2>2, <2>5, <3>1, FlagDoc, HandKept DEF SameStatus, Handed
  <2>6. CASE Heal(w)
    BY <2>1, <2>2, <2>6, HealDoc, HandKept DEF SameStatus, Handed
  <2>7. CASE ~Reanchor(w) /\ ~Fill(w) /\ ~Flag(w) /\ ~Heal(w)
    <3>1. UNCHANGED doc
      BY <1>3, <2>7 DEF RunStep, SyncRows, SyncEdges, SyncAutoLinks, MarkGone, Declare, Repair,
                  PickUnstamped, ClearDrift, Compare, RecordDrift, SeekHealed, knowledge
    <3>. QED  BY <2>1, <2>2, <3>1, HandKept DEF Docs
  <2>. QED  BY <2>3, <2>4, <2>5, <2>6, <2>7
<1>4. ASSUME NEW w \in Worker, Skip(w) \/ Crash(w) PROVE Runs' /\ Docs' /\ Handed'
  <2>1. UNCHANGED <<doc, hand>>
    BY <1>4 DEF Skip, Crash, knowledge
  <2>. QED  BY <1>4, <2>1, RunsEnd, HandKept DEF Docs
<1>5. ASSUME NEW f \in File, Edit(f) PROVE Runs' /\ Docs' /\ Handed'
  BY <1>5 DEF Edit, knowledge, Runs, Docs, Handed
<1>6. ASSUME NEW e \in Entity, Verify(e) PROVE Runs' /\ Docs' /\ Handed'
  <2>1. PICK d : /\ Write(e, d) /\ DocOK(d)
                 /\ hand' = hand \ {e} \/ (hand' = hand /\ SameMark(d, doc[e]))
    BY <1>6, VerifyIs
  <2>2. /\ Docs' /\ Runs' /\ FlagsKept /\ doc'[e] = d
        /\ \A x \in Entity : x # e => doc'[x] = doc[x]
    BY <2>1, WriteIs
  <2>. QED  BY <2>1, <2>2 DEF Handed, FlagsKept, SameMark
<1>7. ASSUME NEW e \in Entity, SetReferences(e) PROVE Runs' /\ Docs' /\ Handed'
  <2>1. PICK refs, b : Write(e, Turned(doc[e], refs, b)) /\ hand' = hand
    BY <1>7 DEF SetReferences, Turned
  <2>2. DocOK(doc[e])
    BY DEF Docs
  <2>. DEFINE d == Turned(doc[e], refs, b)
  <2>3. DocOK(d) /\ d.status = doc[e].status /\ d.orphan = doc[e].orphan
    BY <2>2, TurnedIs
  <2>. HIDE DEF d
  <2>4. /\ Docs' /\ Runs' /\ FlagsKept /\ doc'[e] = d
        /\ \A x \in Entity : x # e => doc'[x] = doc[x]
    BY <2>1, <2>3, WriteIs DEF d
  <2>. QED  BY <2>1, <2>3, <2>4 DEF Handed, FlagsKept
<1>8. ASSUME NEW e \in Entity, MarkStale(e) PROVE Runs' /\ Docs' /\ Handed'
  <2>. DEFINE d == [doc[e] EXCEPT !.status = "stale"]
  <2>1. /\ Write(e, d) /\ doc[e].status = "active"
        /\ \/ hand' = hand
           \/ /\ hand' = hand \cup {e}
              /\ \A w \in Worker : ~(run[w].pc = "flag" /\ e \in run[w].docs)
    BY <1>8 DEF MarkStale
  <2>2. DocOK(doc[e])
    BY DEF Docs
  <2>3. DocOK(d) /\ d.status = "stale" /\ d.orphan = FALSE
    BY <2>1, <2>2, StatusIs DEF DocOK
  <2>. HIDE DEF d
  <2>4. /\ Docs' /\ Runs' /\ FlagsKept /\ doc'[e] = d
        /\ \A x \in Entity : x # e => doc'[x] = doc[x]
    BY <2>1, <2>3, WriteIs
  <2>5. e \notin hand
    BY <2>1 DEF Handed
  <2>. QED  BY <2>1, <2>3, <2>4, <2>5 DEF Handed, FlagsKept
<1>9. CASE Rest \/ UNCHANGED vars
  BY <1>9 DEF Rest, vars, knowledge, history, Runs, Docs, Handed
<1>. QED  BY <1>1, <1>2, <1>3, <1>4, <1>5, <1>6, <1>7, <1>8, <1>9 DEF Next

LEMMA SourcesNext ==
  ASSUME Sources, [Next]_vars
  PROVE  Sources'
<1>1. ASSUME NEW f \in File, Edit(f) PROVE Sources'
  <2>1. PICK c \in Edited : work' = [work EXCEPT ![f] = c]
    BY <1>1 DEF Edit
  <2>2. c = NoFile \/ c \in Source
    BY GraphAssumption
  <2>. QED  BY <2>1, <2>2 DEF Sources
<1>2. CASE UNCHANGED work
  BY <1>2 DEF Sources
<1>3. ASSUME NEW w \in Worker, Begin(w) \/ RunStep(w) \/ Skip(w) \/ Crash(w) PROVE UNCHANGED work
  BY <1>3 DEF Begin, BeginIndex, BeginUnread, BeginReindex, BeginSave, BeginPass, Start,
     RunStep, SyncRows, SyncEdges, SyncAutoLinks, MarkGone, Declare, Reanchor, SelectOrphans,
     Flag, Repair, PickUnstamped, Fill, ClearDrift, Compare, RecordDrift, SeekHealed, Heal,
     Skip, Crash, graph
<1>4. ASSUME NEW e \in Entity, Verify(e) \/ SetReferences(e) \/ MarkStale(e) PROVE UNCHANGED work
  BY <1>4 DEF Verify, SetReferences, MarkStale, Write, graph
<1>5. CASE Rest \/ UNCHANGED vars
  BY <1>5, <1>2 DEF Rest, vars, graph
<1>. QED  BY <1>1, <1>2, <1>3, <1>4, <1>5 DEF Next

LEMMA RunsInit == Init => Sources /\ Runs /\ Docs /\ Handed
<1>. SUFFICES ASSUME Init PROVE Sources /\ Runs /\ Docs /\ Handed
  OBVIOUS
<1>1. work \in [File -> Edited]
  BY PassAssumption DEF Init
<1>2. Sources
  BY <1>1, GraphAssumption DEF Sources
<1>3. run = [w \in Worker |-> Idle]
  BY DEF Init
<1>4. Runs
  BY <1>3, IdleIs DEF Runs
<1>5. doc \in [Entity -> Doc] /\ \A e \in Entity : doc[e].orphan <=> doc[e].status = "stale"
  BY DEF Init
<1>6. ASSUME NEW e \in Entity PROVE DocOK(doc[e])
  <2>1. doc[e] \in Doc /\ (doc[e].orphan <=> doc[e].status = "stale")
    BY <1>5
  <2>2. DOMAIN doc[e] = DocFields /\ doc[e].orphan \in BOOLEAN
    BY <2>1 DEF Doc, DocFields
  <2>3. doc[e].status # "stale" => doc[e].orphan = FALSE
    BY <2>1, <2>2, Zenon
  <2>. QED  BY <2>2, <2>3 DEF DocOK
<1>7. Docs
  BY <1>5, <1>6 DEF Docs
<1>8. Handed
  BY DEF Init, Handed
<1>. QED  BY <1>2, <1>4, <1>7, <1>8

(***************************************************************************)
(* What a person marked stale stays stale until cogz verify says otherwise *)
(* (drift.rs:29, stale_flagging.rs:114): the heal of a pass takes up only  *)
(* what a pass marked as an orphan, and a pass marks only what was active  *)
(* when it looked.  The invariant adds that such a document is no orphan   *)
(* and that no pass is about to make it one.                               *)
(***************************************************************************)
THEOREM HandMarksStay == Spec => []HandStaleStays
<1>1. Handed => HandStaleStays
  BY DEF Handed, HandStaleStays
<1>. QED  BY <1>1, RunsInit, HandNext, SourcesNext, PTL DEF Spec

-----------------------------------------------------------------------------
(* What cogz verify stamped.                                               *)

Rows ==
  /\ row = [k \in Key |-> row[k]]
  /\ \A k \in Key : row[k] # NoRow => row[k] \in Row
  /\ \A k \in Definition : row[k] # NoRow => row[k].body \in Body

\* The pairs attested are baselines the document has.
Vouches ==
  /\ attested = [e \in Entity |-> attested[e]]
  /\ \A e \in Entity : \A p \in attested[e] :
       /\ p[1] \in Definition /\ p[2] \in Body
       /\ doc[e].base[p[1]] = p[2]

LEMMA DefinitionIs ==
  ASSUME NEW k \in Definition
  PROVE  k \in Key /\ k[1] \in File /\ k[2] \in Name /\ k[2] # Whole
  BY GraphAssumption DEF Definition, Key

\* The rows new are the rows old with those of dead retired.
LEMMA RetiredIs ==
  ASSUME NEW old, \A k \in Key : old[k] # NoRow => old[k] \in Row,
         NEW dead, NEW new, new = Retired(old, dead)
  PROVE  /\ new = [k \in Key |-> new[k]]
         /\ \A k \in Key :
              /\ new[k] # NoRow => new[k] \in Row
              /\ new[k] = NoRow <=> old[k] = NoRow
              /\ old[k] # NoRow => new[k].body = old[k].body
              /\ k \notin dead => new[k] = old[k]
              /\ k \in dead /\ old[k] # NoRow => ~new[k].live
<1>. SUFFICES ASSUME NEW k \in Key
     PROVE /\ new[k] # NoRow => new[k] \in Row
           /\ new[k] = NoRow <=> old[k] = NoRow
           /\ old[k] # NoRow => new[k].body = old[k].body
           /\ k \notin dead => new[k] = old[k]
           /\ k \in dead /\ old[k] # NoRow => ~new[k].live
  BY DEF Retired
<1>1. CASE k \in dead /\ old[k] # NoRow
  <2>. DEFINE r == [old[k] EXCEPT !.live = FALSE]
  <2>1. new[k] = r
    BY <1>1 DEF Retired
  <2>2. r \in Row /\ r.body = old[k].body /\ r.live = FALSE
    BY <1>1 DEF Row
  <2>. HIDE DEF r
  <2>. QED  BY <1>1, <2>1, <2>2, GraphAssumption
<1>2. CASE k \notin dead \/ old[k] = NoRow
  BY <1>2 DEF Retired
<1>. QED  BY <1>1, <1>2

\* What is parsed is upserted, the rest of its files retired.
LEMMA SyncedIs ==
  ASSUME Rows, NEW p, \A f \in DOMAIN p : p[f] \in Source
  PROVE  LET up == SyncedRows(p)
         IN  /\ up = [k \in Key |-> up[k]]
             /\ \A k \in Key :
                  /\ up[k] # NoRow => up[k] \in Row
                  /\ row[k] # NoRow => up[k] # NoRow
                  /\ row[k] = NoRow /\ up[k] # NoRow => up[k].live /\ k[1] \in DOMAIN p
                  /\ k \in Definition /\ up[k] # NoRow => up[k].body \in Body
                  /\ k \in Defined(p) => up[k] # NoRow
                  /\ k[1] \notin DOMAIN p => up[k] = row[k]
                  /\ k[1] \in DOMAIN p /\ k \notin Defined(p) => up[k] = NoRow \/ ~up[k].live
<1>. DEFINE rows == [k \in Key |-> IF k \in Defined(p) THEN [live |-> TRUE, body |-> BodyOf(p, k)]
                                                       ELSE row[k]]
            ks == {k \in Key : k[1] \in DOMAIN p /\ k \notin Defined(p)}
            up == SyncedRows(p)
<1>1. up = Retired(rows, ks)
  BY DEF SyncedRows
<1>2. ASSUME NEW k \in Key, k \in Defined(p)
      PROVE  /\ rows[k] = [live |-> TRUE, body |-> BodyOf(p, k)] /\ rows[k] \in Row
             /\ k[1] \in DOMAIN p
             /\ k \in Definition => rows[k].body \in Body
  <2>1. k[1] \in DOMAIN p /\ (k[2] = Whole \/ p[k[1]].defs[k[2]] # NoDef)
    BY <1>2 DEF Defined
  <2>2. k[2] # Whole => k[2] \in Name
    BY DEF Key
  <2>3. p[k[1]].defs \in [Name -> Body \cup {NoDef}]
    BY <2>1 DEF Source
  <2>4. k[2] # Whole => BodyOf(p, k) \in Body
    BY <2>1, <2>2, <2>3 DEF BodyOf
  <2>5. k[2] = Whole => BodyOf(p, k) = Whole
    BY DEF BodyOf
  <2>. DEFINE b == BodyOf(p, k)
  <2>6. rows[k] = [live |-> TRUE, body |-> b]
    BY <1>2
  <2>7. b \in Body \cup {Whole}
    BY <2>4, <2>5
  <2>. HIDE DEF b, rows
  <2>. QED  BY <2>1, <2>4, <2>6, <2>7, DefinitionIs DEF Row, b
<1>3. \A k \in Key : k \notin Defined(p) => rows[k] = row[k]
  OBVIOUS
<1>. HIDE DEF rows
<1>4. \A k \in Key : rows[k] # NoRow => rows[k] \in Row
  BY <1>2, <1>3 DEF Rows
<1>. HIDE DEF up, ks
<1>5. /\ up = [k \in Key |-> up[k]]
      /\ \A k \in Key :
           /\ up[k] # NoRow => up[k] \in Row
           /\ up[k] = NoRow <=> rows[k] = NoRow
           /\ rows[k] # NoRow => up[k].body = rows[k].body
           /\ k \notin ks => up[k] = rows[k]
           /\ k \in ks /\ rows[k] # NoRow => ~up[k].live
  BY <1>1, <1>4, RetiredIs
<1>. SUFFICES ASSUME NEW k \in Key
     PROVE  /\ up[k] # NoRow => up[k] \in Row
            /\ row[k] # NoRow => up[k] # NoRow
            /\ row[k] = NoRow /\ up[k] # NoRow => up[k].live /\ k[1] \in DOMAIN p
            /\ k \in Definition /\ up[k] # NoRow => up[k].body \in Body
            /\ k \in Defined(p) => up[k] # NoRow
            /\ k[1] \notin DOMAIN p => up[k] = row[k]
            /\ k[1] \in DOMAIN p /\ k \notin Defined(p) => up[k] = NoRow \/ ~up[k].live
  BY <1>5 DEF up
<1>6. CASE k \in Defined(p)
  <2>1. /\ rows[k] = [live |-> TRUE, body |-> BodyOf(p, k)] /\ rows[k] \in Row
        /\ k[1] \in DOMAIN p
        /\ k \in Definition => rows[k].body \in Body
    BY <1>2, <1>6
  <2>2. k \notin ks
    BY <1>6 DEF ks
  <2>3. rows[k] # NoRow
    BY <2>1, GraphAssumption
  <2>4. rows[k].live
    BY <2>1
  <2>5. up[k] = rows[k]
    BY <1>5, <2>2
  <2>. HIDE DEF rows, up
  <2>. QED  BY <1>6, <2>1, <2>3, <2>4, <2>5
<1>7. CASE k \notin Defined(p)
  <2>1. rows[k] = row[k] /\ (k \in ks <=> k[1] \in DOMAIN p)
    BY <1>3, <1>7 DEF ks
  <2>2. k[1] \notin DOMAIN p => up[k] = row[k]
    BY <1>5, <2>1
  <2>3. k[1] \in DOMAIN p => up[k] = NoRow \/ ~up[k].live
    BY <1>5, <2>1
  <2>. QED  BY <1>3, <1>5, <1>7, <2>2, <2>3 DEF Rows
<1>. QED  BY <1>6, <1>7

LEMMA RowsNext ==
  ASSUME Runs, Rows, [Next]_vars
  PROVE  Rows'
<1>1. ASSUME NEW w \in Worker, SyncRows(w) PROVE Rows'
  <2>1. \A f \in DOMAIN run[w].parsed : run[w].parsed[f] \in Source
    BY DEF Runs, RunOK
  <2>. DEFINE p == run[w].parsed
              up == SyncedRows(p)
              ks == {k \in Key : k[1] \notin DOMAIN p \cup run[w].failed}
  <2>2. /\ up = [k \in Key |-> up[k]]
        /\ \A k \in Key : up[k] # NoRow => up[k] \in Row
        /\ \A k \in Definition : up[k] # NoRow => up[k].body \in Body
    BY <2>1, SyncedIs, DefinitionIs
  <2>3. row' = up \/ row' = Retired(up, ks)
    BY <1>1 DEF SyncRows, SweptRows
  <2>. HIDE DEF up, ks
  <2>4. CASE row' = up
    BY <2>2, <2>4 DEF Rows
  <2>5. CASE row' = Retired(up, ks)
    <3>1. /\ row' = [k \in Key |-> row'[k]]
          /\ \A k \in Key : /\ row'[k] # NoRow => row'[k] \in Row
                            /\ row'[k] = NoRow <=> up[k] = NoRow
                            /\ up[k] # NoRow => row'[k].body = up[k].body
      BY <2>2, <2>5, RetiredIs
    <3>. QED  BY <2>2, <3>1, DefinitionIs DEF Rows
  <2>. QED  BY <2>3, <2>4, <2>5
<1>2. ASSUME NEW w \in Worker, MarkGone(w) PROVE Rows'
  <2>1. PICK ks : row' = Retired(row, ks)
    BY <1>2 DEF MarkGone
  <2>2. /\ row' = [k \in Key |-> row'[k]]
        /\ \A k \in Key : /\ row'[k] # NoRow => row'[k] \in Row
                          /\ row'[k] = NoRow <=> row[k] = NoRow
                          /\ row[k] # NoRow => row'[k].body = row[k].body
    BY <2>1, RetiredIs DEF Rows
  <2>. QED  BY <2>2, DefinitionIs DEF Rows
<1>3. CASE UNCHANGED row
  BY <1>3 DEF Rows
<1>4. ASSUME NEW w \in Worker, Begin(w) \/ RunStep(w) \/ Skip(w) \/ Crash(w),
             ~SyncRows(w), ~MarkGone(w)
      PROVE  UNCHANGED row
  BY <1>4 DEF Begin, BeginIndex, BeginUnread, BeginReindex, BeginSave, BeginPass, Start,
     RunStep, SyncEdges, SyncAutoLinks, Declare, Reanchor, SelectOrphans,
     Flag, Repair, PickUnstamped, Fill, ClearDrift, Compare, RecordDrift, SeekHealed, Heal,
     Skip, Crash, graph
<1>5. ASSUME NEW f \in File, Edit(f) PROVE UNCHANGED row
  BY <1>5 DEF Edit
<1>6. ASSUME NEW e \in Entity, Verify(e) \/ SetReferences(e) \/ MarkStale(e) PROVE UNCHANGED row
  BY <1>6 DEF Verify, SetReferences, MarkStale, Write, graph
<1>7. CASE Rest \/ UNCHANGED vars
  BY <1>7, <1>3 DEF Rest, vars, graph
<1>. QED  BY <1>1, <1>2, <1>3, <1>4, <1>5, <1>6, <1>7 DEF Next

LEMMA RowsInit == Init => Rows
<1>. SUFFICES ASSUME Init PROVE Rows
  OBVIOUS
<1>. DEFINE p == Parse(Present)
<1>1. Sources
  BY RunsInit
<1>2. DOMAIN p = Present /\ \A f \in Present : p[f] \in Source
  BY <1>1, ParseIs DEF Parse
<1>3. row = [k \in Key |-> IF k \in Defined(p) THEN [live |-> TRUE, body |-> BodyOf(p, k)]
                                               ELSE NoRow]
  BY DEF Init
<1>. HIDE DEF p
<1>4. ASSUME NEW k \in Key, k \in Defined(p)
      PROVE  BodyOf(p, k) \in Body \cup {Whole} /\ (k[2] # Whole => BodyOf(p, k) \in Body)
  <2>1. k[1] \in Present /\ (k[2] = Whole \/ p[k[1]].defs[k[2]] # NoDef)
    BY <1>2, <1>4 DEF Defined
  <2>2. k[2] # Whole => k[2] \in Name
    BY DEF Key
  <2>3. p[k[1]].defs \in [Name -> Body \cup {NoDef}]
    BY <1>2, <2>1 DEF Source
  <2>. QED  BY <2>1, <2>2, <2>3 DEF BodyOf
<1>5. ASSUME NEW k \in Key, row[k] # NoRow
      PROVE  row[k] \in Row /\ (k \in Definition => row[k].body \in Body)
  <2>. DEFINE b == BodyOf(p, k)
  <2>1. k \in Defined(p) /\ row[k] = [live |-> TRUE, body |-> b]
    BY <1>3, <1>5
  <2>2. b \in Body \cup {Whole} /\ (k[2] # Whole => b \in Body)
    BY <1>4, <2>1
  <2>. HIDE DEF b
  <2>. QED  BY <2>1, <2>2, DefinitionIs DEF Row
<1>. QED  BY <1>3, <1>5, DefinitionIs DEF Rows

\* Baselines there are stay, whatever is stamped.
LEMMA StampIs ==
  ASSUME NEW base, NEW pairs, NEW k \in Definition, base[k] \in Body
  PROVE  Stamp(base, pairs)[k] = base[k]
  BY PassAssumption DEF Stamp

\* A baseline that no move leads from or to stays.
LEMMA MovedBase ==
  ASSUME NEW d, DocOK(d), NEW moves, NEW k \in Definition, d.base[k] \in Body,
         \A j \in DOMAIN moves : k # j /\ k # moves[j][1]
  PROVE  Moved(d, moves).base[k] = d.base[k]
<1>. DEFINE entries == {IF j \in DOMAIN moves THEN moves[j] ELSE <<j, d.base[j]>> :
                          j \in {i \in Definition : d.base[i] # None}}
            of(j)   == {n[2] : n \in {m \in entries : m[1] = j}}
            b       == [j \in Definition |->
                          IF of(j) = {} THEN None
                          ELSE CHOOSE h \in of(j) : \A i \in of(j) : i <= h]
<1>1. Moved(d, moves).base = b
  BY DEF Moved, DocOK, DocFields
<1>2. k \in {i \in Definition : d.base[i] # None} /\ k \notin DOMAIN moves
  BY PassAssumption
<1>3. \A n \in entries : n[1] = k => n = <<k, d.base[k]>>
  OBVIOUS
<1>4. <<k, d.base[k]>> \in entries
  BY <1>2
<1>. HIDE DEF entries
<1>5. of(k) = {d.base[k]}
  BY <1>3, <1>4
<1>. HIDE DEF of
<1>6. b[k] = CHOOSE h \in {d.base[k]} : \A i \in {d.base[k]} : i <= h
  BY <1>5
<1>7. d.base[k] <= d.base[k]
  <2>. DEFINE h == d.base[k]
  <2>1. h \in Nat
    BY GraphAssumption
  <2>. HIDE DEF h
  <2>. QED  BY <2>1 DEF h
<1>. HIDE DEF b
<1>. QED  BY <1>1, <1>6, <1>7

LEMMA VouchesKept ==
  ASSUME Vouches, UNCHANGED attested,
         \A e \in Entity : \A k \in Definition :
            doc[e].base[k] \in Body => doc'[e].base[k] = doc[e].base[k]
  PROVE  Vouches'
  BY DEF Vouches

LEMMA VouchesReanchor ==
  ASSUME Docs, Vouches, NEW w \in Worker, Reanchor(w)
  PROVE  Vouches'
<1>. DEFINE moves == run[w].moves
            kept(e) == {p \in attested[e] : \A k \in DOMAIN moves :
                                p[1] # k /\ p[1] # moves[k][1]}
<1>1. /\ attested' = [e \in Entity |-> attested'[e]]
      /\ \A e \in Entity :
           \/ doc'[e].base = doc[e].base /\ attested'[e] = attested[e]
           \/ doc'[e].base = Moved(doc[e], moves).base /\ attested'[e] = kept(e)
  BY ReanchorDoc
<1>2. ASSUME NEW e \in Entity, NEW p \in kept(e)
      PROVE  /\ p \in attested[e] /\ p[1] \in Definition /\ p[2] \in Body
             /\ Moved(doc[e], moves).base[p[1]] = p[2]
  <2>1. /\ p \in attested[e] /\ p[1] \in Definition /\ p[2] \in Body
        /\ doc[e].base[p[1]] = p[2]
    BY DEF Vouches
  <2>2. \A j \in DOMAIN moves : p[1] # j /\ p[1] # moves[j][1]
    OBVIOUS
  <2>3. DocOK(doc[e])
    BY DEF Docs
  <2>. HIDE DEF moves
  <2>. QED  BY <2>1, <2>2, <2>3, MovedBase
<1>. HIDE DEF kept, moves
<1>. QED  BY <1>1, <1>2 DEF Vouches

LEMMA VouchesVerify ==
  ASSUME Rows, Runs, Docs, Vouches, NEW e \in Entity, Verify(e)
  PROVE  Vouches'
<1>. DEFINE b == Vouched(e)
<1>1. PICK d : Write(e, d) /\ DocOK(d) /\ d.base = b
  BY VerifyIs
<1>2. attested' = [attested EXCEPT ![e] = Pairs(b)]
  BY VerifyIs
<1>3. doc'[e] = d /\ \A x \in Entity : x # e => doc'[x] = doc[x]
  BY <1>1, WriteIs
<1>4. ASSUME NEW p \in Pairs(b)
      PROVE  p[1] \in Definition /\ p[2] \in Body /\ b[p[1]] = p[2]
  <2>1. PICK k \in Definition : p = <<k, b[k]>> /\ b[k] # None
    BY DEF Pairs
  <2>2. row[k] # NoRow /\ b[k] = row[k].body
    BY <2>1 DEF Vouched
  <2>3. row[k].body \in Body
    BY <2>2 DEF Rows
  <2>. HIDE DEF b
  <2>. QED  BY <2>1, <2>2, <2>3
<1>. HIDE DEF b
<1>. QED  BY <1>1, <1>2, <1>3, <1>4 DEF Vouches

LEMMA VouchesNext ==
  ASSUME Rows, Runs, Docs, Vouches, [Next]_vars
  PROVE  Vouches'
<1>1. ASSUME NEW w \in Worker, Begin(w) \/ Skip(w) \/ Crash(w) PROVE Vouches'
  <2>1. UNCHANGED <<doc, attested>>
    BY <1>1 DEF Begin, BeginIndex, BeginUnread, BeginReindex, BeginSave, BeginPass, Start,
       Skip, Crash, knowledge, history
  <2>. QED  BY <2>1 DEF Vouches
<1>2. ASSUME NEW w \in Worker, RunStep(w), ~Reanchor(w) PROVE Vouches'
  <2>1. UNCHANGED attested
    BY <1>2 DEF RunStep, SyncRows, SyncEdges, SyncAutoLinks, MarkGone, Declare, SelectOrphans,
       Flag, Repair, PickUnstamped, Fill, ClearDrift, Compare, RecordDrift, SeekHealed, Heal
  <2>2. CASE Fill(w)
    <3>1. \A e \in Entity : \/ doc'[e].base = doc[e].base
                            \/ doc'[e].base = Stamp(doc[e].base, run[w].fills[e])
      BY <2>2, FillDoc
    <3>. QED  BY <2>1, <3>1, StampIs, VouchesKept
  <2>3. CASE Flag(w) \/ Heal(w)
    BY <2>1, <2>3, FlagDoc, HealDoc, VouchesKept
  <2>4. CASE ~Fill(w) /\ ~Flag(w) /\ ~Heal(w)
    <3>1. UNCHANGED doc
      BY <1>2, <2>4 DEF RunStep, SyncRows, SyncEdges, SyncAutoLinks, MarkGone, Declare,
         SelectOrphans, Repair, PickUnstamped, ClearDrift, Compare, RecordDrift, SeekHealed,
         knowledge
    <3>. QED  BY <2>1, <3>1 DEF Vouches
  <2>. QED  BY <2>2, <2>3, <2>4
<1>3. ASSUME NEW w \in Worker, Reanchor(w) PROVE Vouches'
  BY <1>3, VouchesReanchor
<1>4. ASSUME NEW e \in Entity, Verify(e) PROVE Vouches'
  BY <1>4, VouchesVerify
<1>5. ASSUME NEW e \in Entity, SetReferences(e) PROVE Vouches'
  <2>1. PICK refs, b : /\ Write(e, Turned(doc[e], refs, b))
                       /\ \/ b = doc[e].base
                          \/ b = Stamp(doc[e].base, Unstamped(e, refs))
    BY <1>5 DEF SetReferences, Turned
  <2>. DEFINE d == Turned(doc[e], refs, b)
  <2>2. DocOK(d) /\ d.base = b
    BY TurnedIs DEF Docs
  <2>. HIDE DEF d
  <2>3. doc'[e].base = b /\ \A x \in Entity : x # e => doc'[x] = doc[x]
    BY <2>1, <2>2, WriteIs DEF d
  <2>4. \A k \in Definition : doc[e].base[k] \in Body => b[k] = doc[e].base[k]
    BY <2>1, StampIs
  <2>5. UNCHANGED attested
    BY <1>5 DEF SetReferences
  <2>. QED  BY <2>3, <2>4, <2>5, VouchesKept
<1>6. ASSUME NEW e \in Entity, MarkStale(e) PROVE Vouches'
  <2>. DEFINE d == [doc[e] EXCEPT !.status = "stale"]
  <2>1. Write(e, d) /\ UNCHANGED attested
    BY <1>6 DEF MarkStale
  <2>2. DocOK(d) /\ d.base = doc[e].base
    BY StatusIs DEF Docs
  <2>. HIDE DEF d
  <2>3. doc'[e].base = doc[e].base /\ \A x \in Entity : x # e => doc'[x] = doc[x]
    BY <2>1, <2>2, WriteIs
  <2>. QED  BY <2>1, <2>3, VouchesKept
<1>7. ASSUME NEW f \in File, Edit(f) PROVE Vouches'
  BY <1>7 DEF Edit, knowledge, Vouches
<1>8. CASE Rest \/ UNCHANGED vars
  BY <1>8 DEF Rest, vars, knowledge, history, Vouches
<1>. QED  BY <1>1, <1>2, <1>3, <1>4, <1>5, <1>6, <1>7, <1>8 DEF Next

(***************************************************************************)
(* What cogz verify stamped stays until the next verify or until the code  *)
(* moves (verify.rs:40, post_index.rs:107): a pass fills in what it    *)
(* found unstamped only where nothing is stamped yet, an author's new      *)
(* references add baselines and replace none, and a move takes with it     *)
(* only the baselines of what moved and of where it moved to.              *)
(***************************************************************************)
THEOREM AttestationsStay == Spec => []AttestationSurvives
<1>1. Init => Vouches
  BY DEF Init, Vouches
<1>2. Vouches => AttestationSurvives
  BY DEF Vouches, AttestationSurvives
<1>. QED  BY <1>1, <1>2, RunsInit, RowsInit, HandNext, SourcesNext, RowsNext, VouchesNext, PTL
          DEF Spec

-----------------------------------------------------------------------------
(* Runs that are left alone.                                               *)

\* A run that is alone is the only one.
Lone ==
  /\ \A w \in Worker : run[w].pc = "idle" => ~run[w].alone
  /\ \A w \in Worker : run[w].alone => \A v \in Worker : v # w => run[v].pc = "idle"
  /\ calm \in 0..2

\* Nothing but the sources changes.
Quiet == /\ UNCHANGED <<row, edge, doc, link, auto, drift, run, calm>>
         /\ fresh' \subseteq fresh

\* The only run there is starts.
Starts ==
  /\ Running = {} /\ Running' # {} /\ UNCHANGED <<row, edge, doc, link, auto, drift, calm>>
  /\ \A w \in Worker : run'[w].alone =>
       /\ run'[w].pc \in {"rows", "declare"}
       /\ run'[w].gone \cap DOMAIN run'[w].parsed = {}

\* No run is alone, and the last to end was not.
Disturbs ==
  /\ \A w \in Worker : ~run'[w].alone
  /\ calm' = 0 \/ Running' # {}

\* How the step r of worker w shows in the state.
LEMMA Turns ==
  ASSUME Runs, Lone, NEW w \in Worker, run[w].pc # "idle", NEW r, Goto(w, r),
         DOMAIN r = RunFields, r.alone = run[w].alone,
         r.parsed = run[w].parsed \/ r.parsed = Idle.parsed
  PROVE  /\ Lone' /\ (run[w].alone \/ Disturbs)
         /\ \A v \in Worker : v # w => run'[v] = run[v]
         /\ \A v \in Worker : run'[v].alone => v = w /\ run[w].alone /\ r.pc # "idle"
         /\ r.pc # "idle" => run'[w] = r /\ UNCHANGED calm
         /\ r.pc = "idle" /\ calm' > 0 => run[w].alone
         /\ calm' > 1 => r.pc # "idle" \/ calm > 0
<1>1. RunOK(r)
  BY IdleIs DEF RunOK, Runs
<1>2. /\ \A v \in Worker : v # w => run'[v] = run[v]
      /\ run'[w].pc = r.pc /\ (r.pc # "idle" => run'[w] = r)
  BY <1>1, GotoIs
<1>3. r.pc = "idle" => ~run'[w].alone
  <2>1. CASE r.pc = "idle"
    <3>1. run'[w] = Idle
      BY <2>1 DEF Goto, Runs
    <3>. QED  BY <3>1 DEF Idle
  <2>. QED  BY <2>1
<1>4. calm' = IF r.pc # "idle" THEN calm
              ELSE IF ~r.alone THEN 0
              ELSE IF calm < 2 THEN calm + 1 ELSE calm
  BY DEF Goto
<1>5. calm \in 0..2
  BY DEF Lone
<1>6. /\ calm' \in 0..2 /\ (r.pc # "idle" => calm' = calm)
      /\ r.pc = "idle" /\ ~run[w].alone => calm' = 0
      /\ calm' > 1 => r.pc # "idle" \/ calm > 0
  BY <1>4, <1>5
<1>7. \A v \in Worker : run[v].alone => v = w
  BY DEF Lone
<1>8. \A v \in Worker : run'[v].alone => v = w /\ run[w].alone /\ r.pc # "idle"
  BY <1>2, <1>3, <1>7
<1>9. Lone'
  BY <1>2, <1>3, <1>6, <1>8 DEF Lone
<1>10. run[w].alone \/ Disturbs
  BY <1>2, <1>6, <1>8 DEF Disturbs, Running
<1>. QED  BY <1>2, <1>6, <1>8, <1>9, <1>10

\* Every step of a run goes on with a run of the same mark.
LEMMA StepTurns ==
  ASSUME Runs, NEW w \in Worker, RunStep(w)
  PROVE  /\ run[w].pc # "idle"
         /\ \E r : /\ Goto(w, r) /\ DOMAIN r = RunFields /\ r.alone = run[w].alone
                   /\ r.parsed = run[w].parsed \/ r.parsed = Idle.parsed
                   /\ r.pc = "edges" => SyncRows(w)
<1>. DEFINE l == run[w]
<1>1. DOMAIN l = RunFields
  BY DEF Runs, RunOK
<1>2. l.pc # "idle"
  BY DEF RunStep, SyncRows, SyncEdges, SyncAutoLinks, MarkGone, Declare, Reanchor,
     SelectOrphans, Flag, Repair, PickUnstamped, Fill, ClearDrift, Compare, RecordDrift,
     SeekHealed, Heal
<1>3. \A pc : DOMAIN At(l, pc) = RunFields /\ At(l, pc).alone = l.alone
              /\ At(l, pc).parsed = l.parsed /\ At(l, pc).pc = pc
  BY <1>1 DEF At, RunFields
<1>4. CASE SyncRows(w) \/ SyncEdges(w) \/ SyncAutoLinks(w) \/ MarkGone(w) \/ Repair(w)
           \/ ClearDrift(w) \/ Heal(w)
  <2>1. \E pc : Goto(w, At(l, pc)) /\ (pc = "edges" => SyncRows(w))
    <3>1. CASE SyncRows(w)
      <4>1. Goto(w, At(l, "edges"))
        BY <3>1 DEF SyncRows
      <4>. QED  BY <3>1, <4>1
    <3>2. CASE SyncEdges(w) \/ MarkGone(w) \/ Repair(w) \/ ClearDrift(w) \/ Heal(w)
      <4>1. \/ Goto(w, At(l, "links")) \/ Goto(w, At(l, "declare")) \/ Goto(w, At(l, "pick"))
            \/ Goto(w, At(l, "compare")) \/ Goto(w, At(l, "idle"))
        BY <3>2 DEF SyncEdges, MarkGone, Repair, ClearDrift, Heal
      <4>2. "edges" \notin {"links", "declare", "pick", "compare", "idle"}
        OBVIOUS
      <4>. QED  BY <4>1, <4>2
    <3>3. CASE SyncAutoLinks(w)
      <4>. DEFINE pc == IF l.gone = {} THEN "declare" ELSE "gone"
      <4>1. Goto(w, At(l, pc)) /\ pc # "edges"
        BY <3>3 DEF SyncAutoLinks
      <4>. HIDE DEF pc
      <4>. QED  BY <4>1
    <3>. QED  BY <1>4, <3>1, <3>2, <3>3
  <2>. QED  BY <1>2, <1>3, <2>1
<1>5. CASE Declare(w)
  <2>1. PICK pc, ms : /\ pc # "edges"
                      /\ Goto(w, [Idle EXCEPT !.pc = pc, !.decl = Declared, !.moves = ms,
                                              !.alone = l.alone])
    BY <1>5 DEF Declare
  <2>. DEFINE r == [Idle EXCEPT !.pc = pc, !.decl = Declared, !.moves = ms, !.alone = l.alone]
  <2>2. DOMAIN r = RunFields /\ r.alone = l.alone /\ r.parsed = Idle.parsed /\ r.pc = pc
    BY DEF Idle, RunFields
  <2>. QED  BY <1>2, <2>1, <2>2
<1>6. CASE Reanchor(w)
  <2>1. PICK pc, ms, ds : pc # "edges" /\ Goto(w, [l EXCEPT !.pc = pc, !.moves = ms, !.decl = ds])
    BY <1>6 DEF Reanchor
  <2>. DEFINE r == [l EXCEPT !.pc = pc, !.moves = ms, !.decl = ds]
  <2>2. DOMAIN r = RunFields /\ r.alone = l.alone /\ r.parsed = l.parsed /\ r.pc = pc
    BY <1>1 DEF RunFields
  <2>. QED  BY <1>2, <2>1, <2>2
<1>7. CASE SelectOrphans(w) \/ Flag(w) \/ SeekHealed(w)
  <2>1. PICK pc, es : pc # "edges" /\ Goto(w, [l EXCEPT !.pc = pc, !.docs = es])
    BY <1>7 DEF SelectOrphans, Flag, SeekHealed
  <2>. DEFINE r == [l EXCEPT !.pc = pc, !.docs = es]
  <2>2. DOMAIN r = RunFields /\ r.alone = l.alone /\ r.parsed = l.parsed /\ r.pc = pc
    BY <1>1 DEF RunFields
  <2>. QED  BY <1>2, <2>1, <2>2
<1>8. CASE PickUnstamped(w) \/ Fill(w)
  <2>1. PICK pc, fs : pc # "edges" /\ Goto(w, [l EXCEPT !.pc = pc, !.fills = fs])
    BY <1>8 DEF PickUnstamped, Fill
  <2>. DEFINE r == [l EXCEPT !.pc = pc, !.fills = fs]
  <2>2. DOMAIN r = RunFields /\ r.alone = l.alone /\ r.parsed = l.parsed /\ r.pc = pc
    BY <1>1 DEF RunFields
  <2>. QED  BY <1>2, <2>1, <2>2
<1>9. CASE Compare(w)
  <2>1. PICK pc, rs, ds : pc # "edges" /\ Goto(w, [l EXCEPT !.pc = pc, !.rows = rs, !.decl = ds])
    BY <1>9 DEF Compare
  <2>. DEFINE r == [l EXCEPT !.pc = pc, !.rows = rs, !.decl = ds]
  <2>2. DOMAIN r = RunFields /\ r.alone = l.alone /\ r.parsed = l.parsed /\ r.pc = pc
    BY <1>1 DEF RunFields
  <2>. QED  BY <1>2, <2>1, <2>2
<1>10. CASE RecordDrift(w)
  <2>1. PICK pc, rs : pc # "edges" /\ Goto(w, [l EXCEPT !.pc = pc, !.rows = rs])
    BY <1>10 DEF RecordDrift
  <2>. DEFINE r == [l EXCEPT !.pc = pc, !.rows = rs]
  <2>2. DOMAIN r = RunFields /\ r.alone = l.alone /\ r.parsed = l.parsed /\ r.pc = pc
    BY <1>1 DEF RunFields
  <2>. QED  BY <1>2, <2>1, <2>2
<1>. QED  BY <1>4, <1>5, <1>6, <1>7, <1>8, <1>9, <1>10 DEF RunStep

LEMMA DisturbedAlone ==
  ASSUME NEW rs, \A w \in Worker : RunOK(rs[w])
  PROVE  \A w \in Worker : ~Disturbed(rs)[w].alone /\ Disturbed(rs)[w].pc = rs[w].pc
<1>. SUFFICES ASSUME NEW w \in Worker
     PROVE ~Disturbed(rs)[w].alone /\ Disturbed(rs)[w].pc = rs[w].pc
  OBVIOUS
<1>. DEFINE r == [rs[w] EXCEPT !.alone = FALSE]
<1>1. Disturbed(rs)[w] = r
  BY DEF Disturbed
<1>2. ~r.alone /\ r.pc = rs[w].pc
  BY DEF RunOK, RunFields
<1>. QED  BY <1>1, <1>2

\* What a run that starts has read, and what it was told is gone.
LEMMA BeginIs ==
  ASSUME NEW w \in Worker, Begin(w)
  PROVE  \E r : /\ Start(w, r) /\ DOMAIN r = RunFields /\ r.pc \in {"rows", "declare"}
                /\ ~r.alone /\ r.gone \cap DOMAIN r.parsed = {}
<1>0. DOMAIN Nothing = {}
  BY DEF Nothing
<1>1. CASE BeginIndex(w) \/ BeginUnread(w)
  <2>1. PICK fs : Start(w, Scan(fs))
    BY <1>1 DEF BeginIndex, BeginUnread
  <2>. DEFINE r == Scan(fs)
  <2>2. DOMAIN r = RunFields /\ r.pc = "rows" /\ ~r.alone /\ r.gone = {}
    BY DEF Scan, Idle, RunFields
  <2>. HIDE DEF r
  <2>. QED  BY <2>1, <2>2 DEF r
<1>2. CASE BeginReindex(w)
  <2>1. PICK fs \in SUBSET File :
          Start(w, [Idle EXCEPT !.pc = "rows", !.parsed = Parse(fs \cap Present),
                                !.gone = fs \ Present])
    BY <1>2 DEF BeginReindex
  <2>. DEFINE r == [Idle EXCEPT !.pc = "rows", !.parsed = Parse(fs \cap Present),
                                !.gone = fs \ Present]
  <2>2. /\ DOMAIN r = RunFields /\ r.pc = "rows" /\ ~r.alone
        /\ r.gone = fs \ Present /\ r.parsed = Parse(fs \cap Present)
    BY DEF Idle, RunFields
  <2>3. DOMAIN Parse(fs \cap Present) = fs \cap Present
    BY DEF Parse
  <2>. HIDE DEF r
  <2>. QED  BY <2>1, <2>2, <2>3 DEF r
<1>3. CASE BeginSave(w)
  <2>1. PICK f : Start(w, [Idle EXCEPT !.pc = "rows", !.parsed = Parse({f})])
    BY <1>3 DEF BeginSave
  <2>. DEFINE r == [Idle EXCEPT !.pc = "rows", !.parsed = Parse({f})]
  <2>2. DOMAIN r = RunFields /\ r.pc = "rows" /\ ~r.alone /\ r.gone = {}
    BY DEF Idle, RunFields
  <2>. HIDE DEF r
  <2>. QED  BY <2>1, <2>2 DEF r
<1>4. CASE BeginPass(w)
  <2>. DEFINE r == At(Idle, "declare")
  <2>1. Start(w, r)
    BY <1>4 DEF BeginPass
  <2>2. DOMAIN r = RunFields /\ r.pc = "declare" /\ ~r.alone /\ r.gone = {}
    BY DEF At, Idle, RunFields
  <2>. HIDE DEF r
  <2>. QED  BY <2>1, <2>2
<1>. QED  BY <1>1, <1>2, <1>3, <1>4 DEF Begin

LEMMA LoneBegin ==
  ASSUME Sources, Runs, Lone, NEW w \in Worker, Begin(w)
  PROVE  Lone' /\ (Starts \/ Disturbs)
<1>1. PICK r : /\ Start(w, r) /\ DOMAIN r = RunFields /\ r.pc \in {"rows", "declare"}
               /\ ~r.alone /\ r.gone \cap DOMAIN r.parsed = {}
  BY BeginIs
<1>2. UNCHANGED <<graph, knowledge, history>> /\ Runs'
  BY StartIs
<1>3. UNCHANGED <<row, edge, doc, link, auto, drift, calm>> /\ calm' \in 0..2
  BY <1>2 DEF graph, knowledge, history, Lone
<1>4. CASE Running = {}
  <2>. DEFINE s == [r EXCEPT !.alone = TRUE]
  <2>1. run' = [run EXCEPT ![w] = s]
    BY <1>1, <1>4 DEF Start
  <2>2. s.pc = r.pc /\ s.gone = r.gone /\ s.parsed = r.parsed
    BY <1>1 DEF RunFields
  <2>. HIDE DEF s
  <2>3. run'[w] = s /\ \A v \in Worker : v # w => run'[v] = run[v]
    BY <2>1 DEF Runs
  <2>4. \A v \in Worker : run[v].pc = "idle" /\ ~run[v].alone
    BY <1>4 DEF Running, Lone
  <2>5. w \in Running'
    BY <1>1, <2>2, <2>3 DEF Running
  <2>6. Starts
    BY <1>1, <1>3, <1>4, <2>2, <2>3, <2>4, <2>5 DEF Starts
  <2>. QED  BY <1>1, <1>3, <2>2, <2>3, <2>4, <2>6 DEF Lone
<1>5. CASE Running # {}
  <2>. DEFINE rs == [run EXCEPT ![w] = r]
  <2>1. run' = Disturbed(rs)
    BY <1>1, <1>5 DEF Start
  <2>2. PICK v \in Worker : run[v].pc # "idle"
    BY <1>5 DEF Running
  <2>3. \A u \in Worker : ~Disturbed(rs)[u].alone /\ Disturbed(rs)[u].pc = rs[u].pc
    <3>1. \A u \in Worker : rs[u] = IF u = w THEN r ELSE run[u]
      BY DEF Runs
    <3>2. ASSUME NEW u \in Worker PROVE DOMAIN rs[u] = RunFields
      BY <1>1, <3>1 DEF Runs, RunOK
    <3>. HIDE DEF rs
    <3>. SUFFICES ASSUME NEW u \in Worker
         PROVE ~Disturbed(rs)[u].alone /\ Disturbed(rs)[u].pc = rs[u].pc
      OBVIOUS
    <3>. DEFINE t == [rs[u] EXCEPT !.alone = FALSE]
    <3>3. Disturbed(rs)[u] = t
      BY DEF Disturbed
    <3>4. ~t.alone /\ t.pc = rs[u].pc
      BY <3>2 DEF RunFields
    <3>. QED  BY <3>3, <3>4
  <2>4. rs[v].pc # "idle"
    BY <1>1, <2>2 DEF Runs
  <2>. HIDE DEF rs
  <2>5. v \in Running'
    BY <2>1, <2>2, <2>3, <2>4 DEF Running
  <2>. QED  BY <1>3, <2>1, <2>3, <2>5 DEF Lone, Disturbs
<1>. QED  BY <1>4, <1>5

LEMMA LoneWrite ==
  ASSUME Runs, NEW e, NEW d, Write(e, d)
  PROVE  Lone' /\ Disturbs
<1>1. run' = Disturbed(run) /\ calm' = 0
  BY DEF Write
<1>2. \A w \in Worker : ~run'[w].alone
  BY <1>1, DisturbedAlone DEF Runs
<1>. QED  BY <1>1, <1>2 DEF Lone, Disturbs

LEMMA LoneNext ==
  ASSUME Sources, Runs, Lone, [Next]_vars
  PROVE  /\ Lone'
         /\ \/ Quiet \/ Starts \/ Disturbs
            \/ \E w \in Worker : run[w].alone /\ RunStep(w)
<1>1. ASSUME NEW w \in Worker, RunStep(w) PROVE Lone' /\ (run[w].alone \/ Disturbs)
  BY <1>1, StepTurns, Turns
<1>2. ASSUME NEW w \in Worker, Skip(w) PROVE Lone' /\ Disturbs
  <2>1. PICK pc, dl, fl : Goto(w, [run[w] EXCEPT !.pc = pc, !.alone = FALSE, !.docs = {},
                                        !.moves = Nothing, !.fills = fl, !.decl = dl])
    BY <1>2 DEF Skip
  <2>. DEFINE r == [run[w] EXCEPT !.pc = pc, !.alone = FALSE, !.docs = {},
                                  !.moves = Nothing, !.fills = fl, !.decl = dl]
  <2>2. DOMAIN r = RunFields /\ ~r.alone /\ r.parsed = run[w].parsed /\ r.pc = pc
    BY DEF Runs, RunOK, RunFields
  <2>. HIDE DEF r
  <2>3. run[w].pc # "idle"
    BY <1>2 DEF Skip, Beyond
  <2>4. RunOK(r)
    BY <2>2 DEF RunOK, Runs
  <2>5. /\ \A v \in Worker : v # w => run'[v] = run[v]
        /\ run'[w].pc = r.pc /\ (r.pc # "idle" => run'[w] = r)
    BY <2>1, <2>4, GotoIs DEF r
  <2>6. r.pc = "idle" => run'[w] = Idle
    BY <2>1 DEF Goto, Runs, r
  <2>7. \A v \in Worker : v # w => ~run[v].alone
    BY <2>3 DEF Lone
  <2>8. \A v \in Worker : ~run'[v].alone
    <3>1. ~Idle.alone
      BY DEF Idle
    <3>. QED  BY <2>2, <2>5, <2>6, <2>7, <3>1
  <2>9. calm' = (IF pc = "idle" THEN 0 ELSE calm) /\ calm \in 0..2
    BY <2>1, <2>2 DEF Goto, Lone, r
  <2>10. pc # "idle" => w \in Running'
    BY <2>2, <2>5 DEF Running
  <2>. QED  BY <2>8, <2>9, <2>10 DEF Lone, Disturbs
<1>3. ASSUME NEW w \in Worker, Crash(w) PROVE Lone' /\ Disturbs
  <2>1. run' = [run EXCEPT ![w] = Idle] /\ calm' = 0 /\ run[w].pc # "idle"
    BY <1>3 DEF Crash
  <2>2. run'[w] = Idle /\ \A v \in Worker : v # w => run'[v] = run[v]
    BY <2>1 DEF Runs
  <2>3. \A v \in Worker : ~run'[v].alone
    BY <2>1, <2>2 DEF Lone, Idle
  <2>. QED  BY <2>1, <2>3 DEF Lone, Disturbs
<1>4. ASSUME NEW e \in Entity, Verify(e) \/ SetReferences(e) \/ MarkStale(e)
      PROVE  Lone' /\ Disturbs
  <2>1. \E d : Write(e, d)
    BY <1>4 DEF Verify, SetReferences, MarkStale
  <2>. QED  BY <2>1, LoneWrite
<1>5. ASSUME NEW f \in File, Edit(f) PROVE Quiet /\ Lone'
  BY <1>5 DEF Edit, knowledge, Quiet, Lone
<1>6. CASE Rest \/ UNCHANGED vars
  BY <1>6 DEF Rest, vars, graph, knowledge, history, Quiet, Lone
<1>. QED  BY <1>1, <1>2, <1>3, <1>4, <1>5, <1>6, LoneBegin DEF Next

-----------------------------------------------------------------------------
(* What a pass that is left alone knows: the references declared, where    *)
(* stale ones have moved to, and then the drift.                           *)

Followed ==
  \A e \in Entity \ Record : \A k \in doc[e].refs : IsStale(k) => Relocated(k) = {}

Deciding == {"reanchor", "select", "flag", "repair", "pick", "fill", "clear", "compare"}
Judging  == {"select", "flag", "repair", "pick", "fill", "clear", "compare", "record",
             "seek", "heal"}

Knowing(r) ==
  /\ r.pc \in Deciding => r.decl = Declared
  /\ r.pc = "reanchor" => r.moves = Moves(Declared)
  /\ r.pc \in Judging => Followed
  /\ r.pc \in {"compare", "record"} => drift = {}
  /\ r.pc = "record" => r.rows = DriftOf(Declared)
  /\ r.pc \in {"seek", "heal"} => drift = DriftOf(Declared)

Informed ==
  /\ \A w \in Worker : run[w].alone => Knowing(run[w])
  /\ Running = {} /\ calm > 0 => Followed /\ drift = DriftOf(Declared)

RefsKept  == \A e \in Entity : doc'[e].refs = doc[e].refs
BasesKept == \A e \in Entity : doc'[e].base = doc[e].base

LEMMA FollowedKept ==
  ASSUME Followed, RefsKept, UNCHANGED row
  PROVE  Followed'
  BY DEF Followed, RefsKept, IsStale, IsLive, Relocated, ActiveCandidates

LEMMA DeclaredKept ==
  ASSUME RefsKept
  PROVE  Declared' = Declared
  BY DEF RefsKept, Declared

LEMMA MovesKept ==
  ASSUME NEW decl, UNCHANGED row
  PROVE  Moves(decl)' = Moves(decl)
  BY DEF Moves, StaleCodeRows, IsStale, IsLive, Relocated, ActiveCandidates

LEMMA DriftKept ==
  ASSUME NEW decl, BasesKept, UNCHANGED row
  PROVE  DriftOf(decl)' = DriftOf(decl)
  BY DEF DriftOf, BasesKept, IsLive

\* Where the references of moved documents lead.
LEMMA MovedRefs ==
  ASSUME NEW d, DocOK(d), NEW moves
  PROVE  Moved(d, moves).refs = {IF k \in DOMAIN moves THEN moves[k][1] ELSE k : k \in d.refs}
  BY DEF Moved, DocOK, DocFields

LEMMA StatusRefs ==
  ASSUME NEW d, DocOK(d), NEW b
  PROVE  /\ [d EXCEPT !.status = "stale", !.orphan = TRUE].refs = d.refs
         /\ [d EXCEPT !.status = "active", !.orphan = FALSE].refs = d.refs
         /\ [d EXCEPT !.base = b].refs = d.refs
  BY DEF DocOK, DocFields

LEMMA MovesAre ==
  ASSUME NEW decl, NEW k \in DOMAIN Moves(decl)
  PROVE  IsLive(Moves(decl)[k][1])
<1>1. Relocated(k) # {} /\ Moves(decl)[k][1] = CHOOSE d \in Relocated(k) : TRUE
  BY DEF Moves
<1>2. Relocated(k) \subseteq ActiveCandidates(k)
  BY DEF Relocated
<1>. QED  BY <1>1, <1>2 DEF ActiveCandidates

LEMMA MovesDomain ==
  ASSUME NEW decl, NEW e \in Entity, NEW k \in decl[e], IsStale(k), Relocated(k) # {}
  PROVE  k \in DOMAIN Moves(decl)
  BY DEF Moves, StaleCodeRows

LEMMA FlagHealRefs ==
  ASSUME Docs, NEW w \in Worker, Flag(w) \/ Heal(w) \/ Fill(w)
  PROVE  RefsKept
<1>1. \A e \in Entity : DocOK(doc[e])
  BY DEF Docs
<1>2. \E ds : /\ doc' = [e \in Entity |-> IF e \in DOMAIN ds THEN ds[e] ELSE doc[e]]
              /\ \A e \in Entity : e \in DOMAIN ds => ds[e].refs = doc[e].refs
  <2>1. CASE Flag(w)
    <3>. DEFINE ds == [e \in run[w].docs |-> [doc[e] EXCEPT !.status = "stale", !.orphan = TRUE]]
    <3>1. doc' = [e \in Entity |-> IF e \in DOMAIN ds THEN ds[e] ELSE doc[e]]
      BY <2>1 DEF Flag, Rewrite
    <3>2. \A e \in Entity : e \in DOMAIN ds => ds[e].refs = doc[e].refs
      BY <1>1, StatusRefs
    <3>. QED  BY <3>1, <3>2
  <2>2. CASE Heal(w)
    <3>. DEFINE es == {e \in run[w].docs : doc[e].orphan /\ (e \in Record \/ Anchored(e))}
                ds == [e \in es |-> [doc[e] EXCEPT !.status = "active", !.orphan = FALSE]]
    <3>1. doc' = [e \in Entity |-> IF e \in DOMAIN ds THEN ds[e] ELSE doc[e]]
      BY <2>2 DEF Heal, Rewrite
    <3>. HIDE DEF es
    <3>2. \A e \in Entity : e \in DOMAIN ds => ds[e].refs = doc[e].refs
      BY <1>1, StatusRefs
    <3>. QED  BY <3>1, <3>2
  <2>3. CASE Fill(w)
    <3>. DEFINE es == {e \in Entity : run[w].fills[e] # {}}
                b(e) == Stamp(doc[e].base, run[w].fills[e])
                ds == [e \in es |-> [doc[e] EXCEPT !.base = b(e)]]
    <3>1. doc' = [e \in Entity |-> IF e \in DOMAIN ds THEN ds[e] ELSE doc[e]]
      BY <2>3 DEF Fill, Rewrite
    <3>. HIDE DEF es, b
    <3>2. \A e \in Entity : e \in DOMAIN ds => ds[e].refs = doc[e].refs
      BY <1>1, StatusRefs
    <3>. QED  BY <3>1, <3>2
  <2>. QED  BY <2>1, <2>2, <2>3
<1>. QED  BY <1>2 DEF RefsKept

\* The step r of a run that is alone, and what it knows then.
LEMMA InformedGo ==
  ASSUME Runs, Lone, NEW w \in Worker, run[w].pc # "idle", NEW r, Goto(w, r),
         DOMAIN r = RunFields, r.alone = run[w].alone,
         r.parsed = run[w].parsed \/ r.parsed = Idle.parsed,
         r.pc \in Deciding => r.decl = Declared',
         r.pc = "reanchor" => r.moves = Moves(Declared)',
         r.pc \in Judging \/ r.pc = "idle" => Followed',
         r.pc \in {"compare", "record"} => drift' = {},
         r.pc = "record" => r.rows = DriftOf(Declared)',
         r.pc \in {"seek", "heal", "idle"} => drift' = DriftOf(Declared)'
  PROVE  Informed'
<1>1. /\ \A v \in Worker : run'[v].alone => v = w /\ r.pc # "idle"
      /\ r.pc # "idle" => run'[w] = r
  BY Turns
<1>2. r.pc # "idle" => w \in Running'
  BY <1>1 DEF Running
<1>3. ASSUME NEW v \in Worker, run'[v].alone
      PROVE  Knowing(run[v])'
  <2>1. run'[v] = r
    BY <1>1, <1>3
  <2>. QED  BY <2>1 DEF Knowing
<1>. QED  BY <1>2, <1>3 DEF Informed

LEMMA InformedReanchor ==
  ASSUME Runs, Docs, Lone, Informed, NEW w \in Worker, run[w].alone, Reanchor(w)
  PROVE  Informed'
<1>. DEFINE l  == run[w]
            moves == l.moves
            es == {e \in Entity \ Record : /\ l.decl[e] \cap DOMAIN l.moves # {}
                                           /\ doc[e].refs \cap DOMAIN l.moves # {}}
            ds == [e \in es |-> Moved(doc[e], l.moves)]
            decl == [e \in Entity |-> IF e \in es THEN ds[e].refs ELSE l.decl[e]]
            r  == [l EXCEPT !.pc = "select", !.moves = Nothing, !.decl = decl]
<1>1. /\ l.pc = "reanchor" /\ l.decl = Declared /\ l.moves = Moves(Declared)
  BY DEF Reanchor, Informed, Knowing, Deciding
<1>2. /\ doc' = [e \in Entity |-> IF e \in DOMAIN ds THEN ds[e] ELSE doc[e]]
      /\ UNCHANGED <<row, drift>> /\ Goto(w, r)
  BY DEF Reanchor, Rewrite, graph
<1>3. DOMAIN ds = es /\ \A e \in es : ds[e] = Moved(doc[e], moves)
  OBVIOUS
<1>4. \A e \in Entity : DocOK(doc[e])
  BY DEF Docs
<1>5. \A e \in Entity : l.decl[e] = doc[e].refs
  BY <1>1 DEF Declared
<1>6. \A e \in Entity \ Record : e \notin es => doc[e].refs \cap DOMAIN moves = {}
  BY <1>5
<1>7. DOMAIN r = RunFields /\ r.pc = "select" /\ r.alone = l.alone /\ r.parsed = l.parsed
      /\ r.decl = decl
  BY DEF Runs, RunOK, RunFields
<1>8. \A k \in DOMAIN moves : IsLive(moves[k][1])
  BY <1>1, MovesAre
<1>. HIDE DEF ds, es, r
<1>9. Declared' = decl
  BY <1>2, <1>3, <1>5 DEF Declared
<1>. HIDE DEF decl, moves
<1>10. Followed'
  <2>. SUFFICES ASSUME NEW e \in Entity \ Record, NEW k \in doc'[e].refs,
                       IsStale(k)', Relocated(k)' # {}
       PROVE FALSE
    BY DEF Followed
  <2>1. IsStale(k) /\ ~IsLive(k) /\ Relocated(k) # {}
    BY <1>2 DEF IsStale, IsLive, Relocated, ActiveCandidates
  <2>2. \A j \in doc[e].refs : j = k => j \in DOMAIN moves
    BY <1>1, <1>5, <2>1, MovesDomain DEF moves
  <2>3. CASE e \in es
    <3>1. doc'[e].refs = {IF j \in DOMAIN moves THEN moves[j][1] ELSE j : j \in doc[e].refs}
      BY <1>2, <1>3, <1>4, <2>3, MovedRefs
    <3>2. PICK j \in doc[e].refs : k = IF j \in DOMAIN moves THEN moves[j][1] ELSE j
      BY <3>1
    <3>. QED  BY <1>8, <2>1, <2>2, <3>2
  <2>4. CASE e \notin es
    BY <1>2, <1>3, <1>6, <2>2, <2>4
  <2>. QED  BY <2>3, <2>4
<1>. QED  BY <1>1, <1>2, <1>7, <1>9, <1>10, InformedGo DEF Judging

LEMMA InformedDeclare ==
  ASSUME Runs, Lone, NEW w \in Worker, run[w].alone, Declare(w)
  PROVE  Informed'
<1>. DEFINE moves == Moves(Declared)
<1>1. PICK r : r = [Idle EXCEPT !.pc = IF moves = Nothing THEN "select" ELSE "reanchor",
                          !.decl = Declared, !.moves = moves, !.alone = run[w].alone]
  OBVIOUS
<1>2. Goto(w, r) /\ run[w].pc = "declare" /\ UNCHANGED <<row, doc, drift>>
  BY <1>1 DEF Declare, graph, knowledge
<1>3. /\ DOMAIN r = RunFields /\ r.parsed = Idle.parsed /\ r.alone = run[w].alone
      /\ r.pc = IF moves = Nothing THEN "select" ELSE "reanchor"
      /\ r.decl = Declared /\ r.moves = moves
  BY <1>1 DEF Idle, RunFields
<1>4. Declared' = Declared /\ moves' = moves
  BY <1>2 DEF Declared, Moves, StaleCodeRows, IsStale, IsLive, Relocated, ActiveCandidates
<1>5. ASSUME moves = Nothing PROVE Followed
  <2>1. DOMAIN moves = {}
    BY <1>5 DEF Nothing
  <2>2. \A e \in Entity : Declared[e] = doc[e].refs
    BY DEF Declared
  <2>. QED  BY <2>1, <2>2, MovesDomain DEF Followed
<1>. HIDE DEF moves
<1>6. moves = Nothing => Followed'
  BY <1>2, <1>5, FollowedKept DEF RefsKept
<1>. QED  BY <1>2, <1>3, <1>4, <1>6, InformedGo DEF moves, Judging

LEMMA InformedSync ==
  ASSUME Runs, Lone, NEW w \in Worker, run[w].alone,
         SyncRows(w) \/ SyncEdges(w) \/ SyncAutoLinks(w) \/ MarkGone(w)
  PROVE  Informed'
<1>1. PICK pc \in {"edges", "links", "gone", "declare"} : Goto(w, At(run[w], pc))
  BY DEF SyncRows, SyncEdges, SyncAutoLinks, MarkGone
<1>2. run[w].pc # "idle"
  BY DEF SyncRows, SyncEdges, SyncAutoLinks, MarkGone
<1>3. PICK r : r = At(run[w], pc)
  OBVIOUS
<1>4. DOMAIN r = RunFields /\ r.pc = pc /\ r.alone = run[w].alone /\ r.parsed = run[w].parsed
  BY <1>3 DEF At, Runs, RunOK, RunFields
<1>. QED  BY <1>1, <1>2, <1>3, <1>4, InformedGo DEF Deciding, Judging

\* The steps that leave references, moves and drift as they are.
LEMMA InformedOn ==
  ASSUME Runs, Lone, Informed, NEW w \in Worker, run[w].alone, NEW r, Goto(w, r),
         DOMAIN r = RunFields, r.alone = run[w].alone, r.parsed = run[w].parsed,
         r.decl = run[w].decl, RefsKept, UNCHANGED row,
         run[w].pc \in Judging, r.pc # "reanchor",
         \/ /\ run[w].pc \in Deciding
            /\ r.pc \in {"select", "flag", "repair", "pick", "fill", "clear"}
         \/ /\ run[w].pc \in {"seek", "heal"} /\ r.pc \in {"seek", "heal", "idle"}
            /\ UNCHANGED drift /\ BasesKept
  PROVE  Informed'
<1>1. Knowing(run[w]) /\ run[w].pc # "idle"
  BY DEF Informed, Judging
<1>2. Followed' /\ Declared' = Declared
  BY <1>1, FollowedKept, DeclaredKept DEF Knowing
<1>3. run[w].pc \in Deciding => r.decl = Declared'
  BY <1>1, <1>2 DEF Knowing
<1>4. BasesKept => DriftOf(Declared)' = DriftOf(Declared)
  <2>1. PICK decl : decl = Declared /\ decl = Declared'
    BY <1>2
  <2>. QED  BY <2>1, DriftKept
<1>5. run[w].pc \in {"seek", "heal"} => drift = DriftOf(Declared)
  BY <1>1 DEF Knowing
<1>. QED  BY <1>1, <1>2, <1>3, <1>4, <1>5, InformedGo DEF Deciding

LEMMA InformedPass ==
  ASSUME Runs, Docs, Lone, Informed, NEW w \in Worker, run[w].alone,
         \/ SelectOrphans(w) \/ Flag(w) \/ Repair(w) \/ PickUnstamped(w) \/ Fill(w)
         \/ SeekHealed(w) \/ Heal(w)
  PROVE  Informed'
<1>. DEFINE l == run[w]
<1>1. DOMAIN l = RunFields
  BY DEF Runs, RunOK
<1>2. CASE SelectOrphans(w) \/ Flag(w) \/ SeekHealed(w)
  <2>1. PICK r : /\ \E pc, es : r = [l EXCEPT !.pc = pc, !.docs = es]
                 /\ Goto(w, r)
                 /\ \/ SelectOrphans(w) /\ r.pc \in {"repair", "flag"}
                    \/ Flag(w) /\ r.pc = "repair"
                    \/ SeekHealed(w) /\ r.pc \in {"idle", "heal"}
    <3>1. CASE SelectOrphans(w)
      <4>1. PICK es : Goto(w, [l EXCEPT !.pc = IF es = {} THEN "repair" ELSE "flag", !.docs = es])
        BY <3>1 DEF SelectOrphans
      <4>. DEFINE r == [l EXCEPT !.pc = IF es = {} THEN "repair" ELSE "flag", !.docs = es]
      <4>2. r.pc \in {"repair", "flag"}
        BY <1>1 DEF RunFields
      <4>. QED  BY <3>1, <4>1, <4>2
    <3>2. CASE Flag(w)
      <4>. DEFINE r == [l EXCEPT !.pc = "repair", !.docs = {}]
      <4>1. Goto(w, r) /\ r.pc = "repair"
        BY <1>1, <3>2 DEF Flag, RunFields
      <4>. QED  BY <3>2, <4>1
    <3>3. CASE SeekHealed(w)
      <4>1. PICK es : Goto(w, [l EXCEPT !.pc = IF es = {} THEN "idle" ELSE "heal", !.docs = es])
        BY <3>3 DEF SeekHealed
      <4>. DEFINE r == [l EXCEPT !.pc = IF es = {} THEN "idle" ELSE "heal", !.docs = es]
      <4>2. r.pc \in {"idle", "heal"}
        BY <1>1 DEF RunFields
      <4>. QED  BY <3>3, <4>1, <4>2
    <3>. QED  BY <1>2, <3>1, <3>2, <3>3
  <2>2. DOMAIN r = RunFields /\ r.alone = l.alone /\ r.parsed = l.parsed /\ r.decl = l.decl
    BY <1>1, <2>1 DEF RunFields
  <2>3. CASE SelectOrphans(w)
    <3>1. l.pc = "select" /\ UNCHANGED <<row, doc>>
      BY <2>3 DEF SelectOrphans, graph, knowledge
    <3>2. r.pc \in {"repair", "flag"}
      BY <2>1, <3>1 DEF Flag, SeekHealed
    <3>. QED  BY <2>1, <2>2, <3>1, <3>2, InformedOn DEF RefsKept, Deciding, Judging
  <2>4. CASE Flag(w)
    <3>1. l.pc = "flag" /\ UNCHANGED row
      BY <2>4 DEF Flag, graph
    <3>2. r.pc = "repair"
      BY <2>1, <3>1 DEF SelectOrphans, SeekHealed
    <3>. QED  BY <2>1, <2>2, <2>4, <3>1, <3>2, FlagHealRefs, InformedOn DEF Deciding, Judging
  <2>5. CASE SeekHealed(w)
    <3>1. l.pc = "seek" /\ UNCHANGED <<row, doc, drift>>
      BY <2>5 DEF SeekHealed, graph, knowledge
    <3>2. r.pc \in {"idle", "heal"}
      BY <2>1, <3>1 DEF SelectOrphans, Flag
    <3>. QED  BY <2>1, <2>2, <3>1, <3>2, InformedOn DEF RefsKept, BasesKept, Judging
  <2>. QED  BY <1>2, <2>3, <2>4, <2>5
<1>3. CASE Repair(w) \/ Heal(w)
  <2>1. PICK r : r = At(l, IF Repair(w) THEN "pick" ELSE "idle") /\ Goto(w, r)
    BY <1>3 DEF Repair, Heal
  <2>2. /\ DOMAIN r = RunFields /\ r.alone = l.alone /\ r.parsed = l.parsed /\ r.decl = l.decl
        /\ r.pc = IF Repair(w) THEN "pick" ELSE "idle"
    BY <1>1, <2>1 DEF RunFields, At
  <2>3. CASE Repair(w)
    <3>1. l.pc = "repair" /\ UNCHANGED <<row, doc>>
      BY <2>3 DEF Repair, graph
    <3>. QED  BY <2>1, <2>2, <2>3, <3>1, InformedOn DEF RefsKept, Deciding, Judging
  <2>4. CASE ~Repair(w)
    <3>1. l.pc = "heal" /\ UNCHANGED <<row, drift>>
      BY <1>3, <2>4 DEF Heal, graph
    <3>2. RefsKept /\ BasesKept
      BY <1>3, <2>4, FlagHealRefs, HealDoc DEF BasesKept
    <3>. QED  BY <2>1, <2>2, <2>4, <3>1, <3>2, InformedOn DEF Judging
  <2>. QED  BY <2>3, <2>4
<1>4. CASE PickUnstamped(w) \/ Fill(w)
  <2>1. PICK r : /\ \E pc, fs : r = [l EXCEPT !.pc = pc, !.fills = fs] /\ pc \in {"clear", "fill"}
                 /\ Goto(w, r)
    <3>1. PICK pc, fs : Goto(w, [l EXCEPT !.pc = pc, !.fills = fs]) /\ pc \in {"clear", "fill"}
      BY <1>4 DEF PickUnstamped, Fill
    <3>. QED  BY <3>1
  <2>2. /\ DOMAIN r = RunFields /\ r.alone = l.alone /\ r.parsed = l.parsed /\ r.decl = l.decl
        /\ r.pc \in {"clear", "fill"}
    BY <1>1, <2>1 DEF RunFields
  <2>3. l.pc \in {"pick", "fill"} /\ UNCHANGED row
    BY <1>4 DEF PickUnstamped, Fill, graph
  <2>4. RefsKept
    <3>1. CASE PickUnstamped(w)
      BY <3>1 DEF PickUnstamped, knowledge, RefsKept
    <3>. QED  BY <1>4, <3>1, FlagHealRefs
  <2>. QED  BY <2>1, <2>2, <2>3, <2>4, InformedOn DEF Deciding, Judging
<1>. QED  BY <1>2, <1>3, <1>4

LEMMA InformedDrift ==
  ASSUME Runs, Lone, Informed, NEW w \in Worker, run[w].alone,
         ClearDrift(w) \/ Compare(w) \/ RecordDrift(w)
  PROVE  Informed'
<1>. DEFINE l == run[w]
<1>1. DOMAIN l = RunFields /\ Knowing(l)
  BY DEF Runs, RunOK, Informed
<1>2. UNCHANGED <<row, doc>> /\ l.pc \in {"clear", "compare", "record"}
  BY DEF ClearDrift, Compare, RecordDrift, graph, knowledge
<1>3. Followed' /\ Declared' = Declared /\ DriftOf(Declared)' = DriftOf(Declared)
  <2>1. Followed' /\ Declared' = Declared
    BY <1>1, <1>2, FollowedKept, DeclaredKept DEF Knowing, Judging, RefsKept
  <2>2. PICK decl : decl = Declared /\ decl = Declared'
    BY <2>1
  <2>. QED  BY <1>2, <2>1, <2>2, DriftKept DEF BasesKept
<1>4. CASE ClearDrift(w)
  <2>1. PICK r : r = At(l, "compare") /\ Goto(w, r)
    BY <1>4 DEF ClearDrift
  <2>2. /\ DOMAIN r = RunFields /\ r.alone = l.alone /\ r.parsed = l.parsed /\ r.decl = l.decl
        /\ r.pc = "compare"
    BY <1>1, <2>1 DEF RunFields, At
  <2>3. drift' = {} /\ l.decl = Declared
    BY <1>1, <1>4 DEF ClearDrift, Knowing, Deciding
  <2>. QED  BY <1>2, <1>3, <2>1, <2>2, <2>3, InformedGo DEF Deciding, Judging
<1>5. CASE Compare(w)
  <2>. DEFINE ds == DriftOf(l.decl)
  <2>1. PICK r : /\ r = [l EXCEPT !.pc = IF ds = {} THEN "seek" ELSE "record",
                                  !.rows = ds, !.decl = Idle.decl]
                 /\ Goto(w, r)
    BY <1>5 DEF Compare
  <2>. HIDE DEF ds
  <2>2. /\ DOMAIN r = RunFields /\ r.alone = l.alone /\ r.parsed = l.parsed /\ r.rows = ds
        /\ r.pc = IF ds = {} THEN "seek" ELSE "record"
    BY <1>1, <2>1 DEF RunFields
  <2>3. drift = {} /\ drift' = {} /\ l.decl = Declared
    BY <1>1, <1>5 DEF Compare, Knowing, Deciding, knowledge
  <2>4. ds = DriftOf(Declared)'
    BY <1>3, <2>3 DEF ds
  <2>5. \/ r.pc = "seek" /\ drift' = DriftOf(Declared)'
        \/ r.pc = "record" /\ r.rows = DriftOf(Declared)'
    BY <2>2, <2>3, <2>4
  <2>. QED  BY <1>2, <1>3, <2>1, <2>2, <2>3, <2>5, InformedGo DEF Deciding
<1>6. CASE RecordDrift(w)
  <2>1. PICK r : r = [l EXCEPT !.pc = "seek", !.rows = {}] /\ Goto(w, r)
    BY <1>6 DEF RecordDrift
  <2>2. DOMAIN r = RunFields /\ r.alone = l.alone /\ r.parsed = l.parsed /\ r.pc = "seek"
    BY <1>1, <2>1 DEF RunFields
  <2>3. drift = {} /\ l.rows = DriftOf(Declared)
    BY <1>1, <1>6 DEF RecordDrift, Knowing
  <2>4. drift' = l.rows
    BY <1>6, <2>3 DEF RecordDrift
  <2>5. drift' = DriftOf(Declared)'
    BY <1>3, <2>3, <2>4
  <2>. QED  BY <1>2, <1>3, <2>1, <2>2, <2>5, InformedGo DEF Deciding
<1>. QED  BY <1>4, <1>5, <1>6

LEMMA InformedNext ==
  ASSUME Sources, Runs, Docs, Lone, Informed, [Next]_vars
  PROVE  Informed'
<1>1. CASE Quiet
  <2>1. UNCHANGED <<row, doc, drift, run, calm>>
    BY <1>1 DEF Quiet
  <2>2. Followed => Followed'
    BY <2>1, FollowedKept DEF RefsKept
  <2>3. PICK decl : decl = Declared /\ decl = Declared'
    BY <2>1, DeclaredKept DEF RefsKept
  <2>4. Moves(Declared)' = Moves(Declared) /\ DriftOf(Declared)' = DriftOf(Declared)
    BY <2>1, <2>3, MovesKept, DriftKept DEF BasesKept
  <2>5. ASSUME NEW w \in Worker, run[w].alone PROVE Knowing(run[w])'
    BY <2>1, <2>2, <2>3, <2>4, <2>5 DEF Informed, Knowing
  <2>. QED  BY <2>1, <2>2, <2>4, <2>5 DEF Informed, Running
<1>2. CASE Starts
  BY <1>2 DEF Starts, Informed, Knowing, Deciding, Judging
<1>3. CASE Disturbs
  BY <1>3 DEF Disturbs, Informed
<1>4. ASSUME NEW w \in Worker, run[w].alone, RunStep(w) PROVE Informed'
  BY <1>4, InformedSync, InformedDeclare, InformedReanchor, InformedPass, InformedDrift DEF RunStep
<1>. QED  BY <1>1, <1>2, <1>3, <1>4, LoneNext

LEMMA LoneInit == Init => Lone /\ Informed
<1>. SUFFICES ASSUME Init PROVE Lone /\ Informed
  OBVIOUS
<1>1. calm = 0 /\ \A w \in Worker : ~run[w].alone
  BY DEF Init, Idle
<1>. QED  BY <1>1 DEF Lone, Informed

(***************************************************************************)
(* After a run that nothing else disturbed, the drift table is exactly     *)
(* what the references declared and the rows say (post_index.rs:336,       *)
(* drift.rs:118), although it is emptied, computed and refilled in three   *)
(* statements without a transaction, from references that were read before *)
(* moves rewrote some of them.  The invariant says what the pass has in    *)
(* hand at each step: the references as they are now, the moves of the     *)
(* stale ones, the table emptied, its rows computed.                       *)
(***************************************************************************)
THEOREM DriftStaysExact == Spec => []DriftExact
<1>1. Informed => DriftExact
  BY DEF Informed, DriftExact
<1>. QED  BY <1>1, LoneInit, RunsInit, LoneNext, InformedNext, HandNext, SourcesNext, PTL
          DEF Spec

(***************************************************************************)
(* After such a run no living document refers to stale code whose body is  *)
(* live at exactly one other place, or at one other place of its name      *)
(* (reanchor.rs:66).                                                       *)
(***************************************************************************)
THEOREM RelocationsAreFollowed == Spec => []RelocationIsFollowed
<1>1. Informed => RelocationIsFollowed
  BY DEF Informed, Followed, RelocationIsFollowed
<1>. QED  BY <1>1, LoneInit, RunsInit, LoneNext, InformedNext, HandNext, SourcesNext, PTL
          DEF Spec

-----------------------------------------------------------------------------
(* Links and orphans.                                                      *)

\* Links are pairs of a document and a key.
Paired == \A l \in link \cup auto : l = <<l[1], l[2]>>

LEMMA RewriteLinks ==
  ASSUME NEW ds, Rewrite(ds)
  PROVE  /\ \A e, k : <<e, k>> \in link' <=>
                        IF e \in DOMAIN ds THEN k \in ds[e].refs /\ row[k] # NoRow
                                           ELSE <<e, k>> \in link
         /\ Paired /\ auto' = auto => Paired'
<1>1. link' = {l \in link : l[1] \notin DOMAIN ds} \cup
              UNION {LinksOf(e, ds[e]) : e \in DOMAIN ds}
  BY DEF Rewrite
<1>2. \A e, k, d : <<e, k>> \in LinksOf(e, d) <=> k \in d.refs /\ row[k] # NoRow
  BY DEF LinksOf
<1>3. \A e, d : \A l \in LinksOf(e, d) : l[1] = e /\ l = <<l[1], l[2]>>
  BY DEF LinksOf
<1>4. ASSUME NEW e, NEW k
      PROVE <<e, k>> \in link' <=>
              IF e \in DOMAIN ds THEN k \in ds[e].refs /\ row[k] # NoRow ELSE <<e, k>> \in link
  <2>. DEFINE l == <<e, k>>
  <2>1. l[1] = e
    OBVIOUS
  <2>2. \A x \in DOMAIN ds : l \in LinksOf(x, ds[x]) => x = e
    BY <1>3, <2>1
  <2>3. l \in link' <=> \/ l \in link /\ e \notin DOMAIN ds
                        \/ \E x \in DOMAIN ds : l \in LinksOf(x, ds[x])
    BY <1>1, <2>1
  <2>. QED  BY <1>2, <2>2, <2>3
<1>5. Paired /\ auto' = auto => Paired'
  BY <1>1, <1>3 DEF Paired
<1>. QED  BY <1>4, <1>5

\* The steps that rewrite documents, as a set of them.
LEMMA Rewriters ==
  ASSUME NEW w \in Worker, Reanchor(w) \/ Flag(w) \/ Fill(w) \/ Heal(w)
  PROVE  (\E ds : Rewrite(ds)) /\ UNCHANGED auto
  BY DEF Reanchor, Flag, Fill, Heal

LEMMA PairedNext ==
  ASSUME Paired, [Next]_vars
  PROVE  Paired'
<1>1. ASSUME NEW w \in Worker, RunStep(w) PROVE Paired'
  <2>1. CASE Reanchor(w) \/ Flag(w) \/ Fill(w) \/ Heal(w)
    BY <2>1, Rewriters, RewriteLinks
  <2>2. CASE Repair(w)
    BY <2>2 DEF Repair, Paired
  <2>3. CASE SyncAutoLinks(w)
    <3>1. UNCHANGED link /\ \A l \in auto' : l = <<l[1], l[2]>>
      BY <2>3 DEF SyncAutoLinks, AutoLinks
    <3>. QED  BY <3>1 DEF Paired
  <2>4. CASE ~Reanchor(w) /\ ~Flag(w) /\ ~Fill(w) /\ ~Heal(w) /\ ~Repair(w) /\ ~SyncAutoLinks(w)
    <3>1. UNCHANGED <<link, auto>>
      BY <1>1, <2>4 DEF RunStep, SyncRows, SyncEdges, MarkGone, Declare, SelectOrphans,
         PickUnstamped, ClearDrift, Compare, RecordDrift, SeekHealed, knowledge
    <3>. QED  BY <3>1 DEF Paired
  <2>. QED  BY <2>1, <2>2, <2>3, <2>4
<1>2. ASSUME NEW w \in Worker, Begin(w) \/ Skip(w) \/ Crash(w) PROVE UNCHANGED <<link, auto>>
  BY <1>2 DEF Begin, BeginIndex, BeginUnread, BeginReindex, BeginSave, BeginPass, Start,
     Skip, Crash, knowledge
<1>3. ASSUME NEW e \in Entity, Verify(e) \/ SetReferences(e) \/ MarkStale(e) PROVE Paired'
  <2>1. \E d : Write(e, d)
    BY <1>3 DEF Verify, SetReferences, MarkStale
  <2>. QED  BY <2>1, RewriteLinks DEF Write
<1>4. ASSUME NEW f \in File, Edit(f) PROVE UNCHANGED <<link, auto>>
  BY <1>4 DEF Edit, knowledge
<1>5. CASE Rest \/ UNCHANGED vars
  BY <1>5 DEF Rest, vars, knowledge, Paired
<1>6. UNCHANGED <<link, auto>> => Paired'
  BY DEF Paired
<1>. QED  BY <1>1, <1>2, <1>3, <1>4, <1>5, <1>6 DEF Next

\* A document linked to code that is stale.
LEMMA OrphanedIs ==
  ASSUME Paired, NEW e
  PROVE  Orphaned(e) <=> \E k \in Key : IsStale(k) /\ (<<e, k>> \in link \/ <<e, k>> \in auto)
<1>1. \A k : e \in Linking(k) <=> <<e, k>> \in link \cup auto
  <2>. SUFFICES ASSUME NEW k PROVE e \in Linking(k) <=> <<e, k>> \in link \cup auto
    OBVIOUS
  <2>1. e \in Linking(k) <=> \E l \in link \cup auto : l[2] = k /\ l[1] = e
    BY DEF Linking
  <2>. QED  BY <2>1 DEF Paired
<1>. QED  BY <1>1 DEF Orphaned

\* The declared references without a link, though there is a row.
Lacking(e)   == {k \in doc[e].refs \cap Key : row[k] # NoRow /\ <<e, k>> \notin link}
Linked       == \A e \in Entity : Lacking(e) = {}
LackingLive  == \A e \in Entity : \A k \in Lacking(e) : IsLive(k)
NoneOrphaned == \A e \in Entity \ Record : doc[e].status = "active" => ~Orphaned(e)
OrphansDead  == \A e \in Entity \ Record : doc[e].orphan => ~Anchored(e)

Reading    == {"edges", "links", "gone"}
Unrepaired == {"declare", "reanchor", "select", "flag", "repair"}
Repaired   == {"pick", "fill", "clear", "compare", "record", "seek", "heal"}

\* Once a run has repaired the links, what is new has live code only, until
\* the next run has flagged what is orphaned and repairs them again.
Minding(r) ==
  /\ r.pc \in Reading \cup {"rows"} => r.gone \cap DOMAIN r.parsed = {}
  /\ calm > 0 /\ r.pc = "rows" => Linked
  /\ calm > 0 /\ r.pc \in Reading =>
       \A e \in Entity : \A k \in Lacking(e) : IsLive(k) /\ k[1] \in DOMAIN r.parsed
  /\ calm > 0 /\ r.pc \in Unrepaired => LackingLive
  /\ r.pc \in Repaired => Linked
  /\ calm > 0 /\ r.pc \in Repaired \cup {"repair"} => NoneOrphaned
  /\ r.pc = "flag" => r.docs = {e \in Entity \ Record : doc[e].status = "active" /\ Orphaned(e)}
  /\ r.pc = "heal" => r.docs = {e \in Entity : doc[e].status = "stale"}

Settling ==
  /\ \A w \in Worker : run[w].alone => Minding(run[w])
  /\ Running = {} /\ calm > 0 => Linked /\ OrphansDead /\ (calm > 1 => NoneOrphaned)

\* The step r of a run that is alone, and what holds then.
LEMMA SettlingGo ==
  ASSUME Runs, Lone, NEW w \in Worker, run[w].pc # "idle", NEW r, Goto(w, r),
         DOMAIN r = RunFields, r.alone = run[w].alone,
         r.parsed = run[w].parsed \/ r.parsed = Idle.parsed,
         r.pc \in Reading => r.gone \cap DOMAIN r.parsed = {},
         r.pc # "rows",
         calm > 0 /\ r.pc \in Reading =>
           (\A e \in Entity : \A k \in Lacking(e) : IsLive(k) /\ k[1] \in DOMAIN run[w].parsed)',
         r.pc \in Reading => r.parsed = run'[w].parsed,
         calm > 0 /\ r.pc \in Unrepaired => LackingLive',
         r.pc \in Repaired \cup {"idle"} => Linked',
         calm > 0 /\ r.pc \in Repaired \cup {"repair", "idle"} => NoneOrphaned',
         r.pc = "idle" => OrphansDead',
         r.pc = "flag" =>
           r.docs = {e \in Entity \ Record : doc[e].status = "active" /\ Orphaned(e)}',
         r.pc = "heal" => r.docs = {e \in Entity : doc[e].status = "stale"}'
  PROVE  Settling'
<1>1. /\ \A v \in Worker : run'[v].alone => v = w /\ r.pc # "idle"
      /\ r.pc # "idle" => run'[w] = r /\ UNCHANGED calm
      /\ calm' > 1 => r.pc # "idle" \/ calm > 0
  BY Turns
<1>2. r.pc # "idle" => w \in Running'
  BY <1>1 DEF Running
<1>3. ASSUME NEW v \in Worker, run'[v].alone
      PROVE  Minding(run[v])'
  <2>1. v = w /\ run'[w] = r /\ UNCHANGED calm
    BY <1>1, <1>3
  <2>. QED  BY <2>1 DEF Minding
<1>. QED  BY <1>1, <1>2, <1>3 DEF Settling

\* Nothing about links, documents and rows changes.
LinksKept == UNCHANGED <<row, doc, link, auto>>

LEMMA LinksSame ==
  ASSUME LinksKept
  PROVE  /\ \A e : Lacking(e)' = Lacking(e)
         /\ \A e : Orphaned(e)' <=> Orphaned(e)
         /\ \A e : Anchored(e)' <=> Anchored(e)
         /\ \A k : IsLive(k)' <=> IsLive(k)
         /\ Linked' <=> Linked
         /\ LackingLive' <=> LackingLive
         /\ NoneOrphaned' <=> NoneOrphaned
<1>1. \A e : Lacking(e)' = Lacking(e)
  BY DEF LinksKept, Lacking
<1>2. \A e : Orphaned(e)' <=> Orphaned(e)
  BY DEF LinksKept, Orphaned, Linking, IsStale
<1>3. \A e : Anchored(e)' <=> Anchored(e)
  BY DEF LinksKept, Anchored, IsLive
<1>4. \A k : IsLive(k)' <=> IsLive(k)
  BY DEF LinksKept, IsLive
<1>. QED  BY <1>1, <1>2, <1>3, <1>4 DEF Linked, LackingLive, NoneOrphaned, LinksKept

LEMMA SettlingSyncRows ==
  ASSUME Rows, Runs, Lone, Settling, NEW w \in Worker, run[w].alone, SyncRows(w)
  PROVE  Settling'
<1>. DEFINE l == run[w]
            p == l.parsed
            up == SyncedRows(p)
            ks == {k \in Key : k[1] \notin DOMAIN p \cup l.failed}
<1>1. PICK r : r = At(l, "edges") /\ Goto(w, r)
  BY DEF SyncRows
<1>2. /\ DOMAIN r = RunFields /\ r.alone = l.alone /\ r.parsed = l.parsed /\ r.gone = l.gone
      /\ r.pc = "edges"
  BY <1>1 DEF At, Runs, RunOK, RunFields
<1>3. /\ UNCHANGED <<doc, link, auto>> /\ l.pc = "rows"
      /\ row' = up \/ row' = Retired(up, ks)
  BY DEF SyncRows, knowledge, SweptRows
<1>4. run'[w] = r
  BY <1>1, <1>2, GotoIs, IdleIs DEF RunOK, Runs
<1>5. \A f \in DOMAIN p : p[f] \in Source
  BY DEF Runs, RunOK
<1>6. \A k \in Key : /\ up[k] # NoRow => up[k] \in Row
                     /\ row[k] # NoRow => up[k] # NoRow
                     /\ row[k] = NoRow /\ up[k] # NoRow => up[k].live /\ k[1] \in DOMAIN p
  BY <1>5, SyncedIs
<1>. HIDE DEF up
<1>7. \A k \in Key : /\ row'[k] = NoRow <=> up[k] = NoRow
                     /\ k[1] \in DOMAIN p => row'[k] = up[k]
  <2>1. CASE row' = Retired(up, ks)
    <3>1. \A k \in Key : /\ row'[k] = NoRow <=> up[k] = NoRow
                         /\ k \notin ks => row'[k] = up[k]
      <4>. HIDE DEF ks
      <4>. QED  BY <1>6, <2>1, RetiredIs
    <3>. QED  BY <3>1
  <2>. QED  BY <1>3, <2>1
<1>8. calm > 0 => Linked /\ l.gone \cap DOMAIN p = {}
  BY <1>3 DEF Settling, Minding
<1>9. l.gone \cap DOMAIN p = {}
  BY <1>3 DEF Settling, Minding
<1>10. ASSUME calm > 0, NEW e \in Entity, NEW k \in Lacking(e)'
       PROVE  IsLive(k)' /\ k[1] \in DOMAIN run'[w].parsed
  <2>1. k \in doc[e].refs \cap Key /\ row'[k] # NoRow /\ <<e, k>> \notin link
    BY <1>3 DEF Lacking
  <2>2. row[k] = NoRow
    BY <1>8, <1>10, <2>1 DEF Linked, Lacking
  <2>3. up[k] # NoRow /\ up[k].live /\ k[1] \in DOMAIN p /\ row'[k] = up[k]
    BY <1>6, <1>7, <2>1, <2>2
  <2>. QED  BY <1>2, <1>4, <2>1, <2>3 DEF IsLive
<1>. QED  BY <1>1, <1>2, <1>3, <1>4, <1>9, <1>10, SettlingGo DEF Unrepaired, Repaired, Reading

LEMMA SettlingSync ==
  ASSUME Runs, Lone, Settling, NEW w \in Worker, run[w].alone, SyncEdges(w) \/ SyncAutoLinks(w)
  PROVE  Settling'
<1>. DEFINE l == run[w]
<1>1. PICK pc \in {"links", "gone", "declare"} : Goto(w, At(l, pc))
  BY DEF SyncEdges, SyncAutoLinks
<1>2. PICK r : r = At(l, pc) /\ Goto(w, r)
  BY <1>1
<1>3. /\ DOMAIN r = RunFields /\ r.alone = l.alone /\ r.parsed = l.parsed /\ r.gone = l.gone
      /\ r.pc = pc
  BY <1>2 DEF At, Runs, RunOK, RunFields
<1>4. UNCHANGED <<row, doc, link>> /\ l.pc \in Reading
  BY DEF SyncEdges, SyncAutoLinks, graph, knowledge, Reading
<1>5. run'[w] = r
  BY <1>2, <1>3, GotoIs, IdleIs DEF RunOK, Runs
<1>6. l.gone \cap DOMAIN l.parsed = {}
  BY <1>4 DEF Settling, Minding
<1>7. calm > 0 => \A e \in Entity : \A k \in Lacking(e) : IsLive(k) /\ k[1] \in DOMAIN l.parsed
  BY <1>4 DEF Settling, Minding
<1>8. \A e : Lacking(e)' = Lacking(e)
  BY <1>4 DEF Lacking
<1>9. calm > 0 => (\A e \in Entity : \A k \in Lacking(e) :
                     IsLive(k) /\ k[1] \in DOMAIN run[w].parsed)'
  BY <1>3, <1>4, <1>5, <1>7, <1>8 DEF IsLive
<1>10. calm > 0 => LackingLive'
  BY <1>9 DEF LackingLive
<1>. QED  BY <1>2, <1>3, <1>4, <1>5, <1>6, <1>9, <1>10, SettlingGo DEF Unrepaired, Repaired, Reading

LEMMA SettlingGone ==
  ASSUME Rows, Runs, Lone, Settling, NEW w \in Worker, run[w].alone, MarkGone(w)
  PROVE  Settling'
<1>. DEFINE l  == run[w]
            ks == {k \in Key : k[1] \in l.gone}
<1>1. PICK r : r = At(l, "declare") /\ Goto(w, r)
  BY DEF MarkGone
<1>2. DOMAIN r = RunFields /\ r.alone = l.alone /\ r.parsed = l.parsed /\ r.pc = "declare"
  BY <1>1 DEF At, Runs, RunOK, RunFields
<1>3. UNCHANGED <<doc, link>> /\ l.pc = "gone" /\ row' = Retired(row, ks)
  BY DEF MarkGone, knowledge
<1>4. \A k \in Key : /\ row'[k] = NoRow <=> row[k] = NoRow
                     /\ k \notin ks => row'[k] = row[k]
  <2>. HIDE DEF ks
  <2>. QED  BY <1>3, RetiredIs DEF Rows
<1>5. /\ l.gone \cap DOMAIN l.parsed = {}
      /\ calm > 0 => \A e \in Entity : \A k \in Lacking(e) : IsLive(k) /\ k[1] \in DOMAIN l.parsed
  BY <1>3 DEF Settling, Minding, Reading
<1>6. ASSUME calm > 0 PROVE LackingLive'
  <2>. SUFFICES ASSUME NEW e \in Entity, NEW k \in Lacking(e)' PROVE IsLive(k)'
    BY DEF LackingLive
  <2>1. k \in Key /\ k \in Lacking(e)
    BY <1>3, <1>4 DEF Lacking
  <2>2. IsLive(k) /\ k \notin ks
    BY <1>5, <1>6, <2>1
  <2>. QED  BY <1>4, <2>1, <2>2 DEF IsLive
<1>. QED  BY <1>1, <1>2, <1>3, <1>6, SettlingGo DEF Unrepaired, Repaired, Reading

\* The steps that touch neither documents nor links.
LEMMA SettlingOn ==
  ASSUME Runs, Docs, Lone, Settling, NEW w \in Worker, run[w].alone,
         \/ Declare(w) \/ SelectOrphans(w) \/ PickUnstamped(w) \/ ClearDrift(w)
         \/ Compare(w) \/ RecordDrift(w) \/ SeekHealed(w)
  PROVE  Settling'
<1>. DEFINE l == run[w]
<1>1. LinksKept
  BY DEF Declare, SelectOrphans, PickUnstamped, ClearDrift, Compare, RecordDrift, SeekHealed,
     LinksKept, graph, knowledge
<1>2. DOMAIN l = RunFields /\ Minding(l)
  BY DEF Runs, RunOK, Settling
<1>3. CASE Declare(w)
  <2>1. PICK r : /\ \E pc, ms : /\ r = [Idle EXCEPT !.pc = pc, !.decl = Declared, !.moves = ms,
                                                    !.alone = l.alone]
                                /\ pc \in {"select", "reanchor"}
                 /\ Goto(w, r)
    <3>1. PICK pc, ms : /\ Goto(w, [Idle EXCEPT !.pc = pc, !.decl = Declared, !.moves = ms,
                                                !.alone = l.alone])
                        /\ pc \in {"select", "reanchor"}
      BY <1>3 DEF Declare
    <3>. QED  BY <3>1
  <2>2. /\ DOMAIN r = RunFields /\ r.alone = l.alone /\ r.parsed = Idle.parsed
        /\ r.pc \in {"select", "reanchor"}
    BY <2>1 DEF Idle, RunFields
  <2>3. l.pc = "declare" /\ (calm > 0 => LackingLive')
    BY <1>1, <1>2, <1>3, LinksSame DEF Declare, Minding, Unrepaired
  <2>. QED  BY <2>1, <2>2, <2>3, SettlingGo DEF Unrepaired, Repaired, Reading
<1>4. CASE SelectOrphans(w)
  <2>. DEFINE es == {e \in Entity \ Record : doc[e].status = "active" /\ Orphaned(e)}
  <2>1. PICK r : /\ r = [l EXCEPT !.pc = IF es = {} THEN "repair" ELSE "flag", !.docs = es]
                 /\ Goto(w, r)
    BY <1>4 DEF SelectOrphans
  <2>2. es' = es
    BY <1>1, LinksSame DEF LinksKept
  <2>3. es = {} => NoneOrphaned'
    BY <1>1, LinksSame DEF NoneOrphaned
  <2>. HIDE DEF es
  <2>4. /\ DOMAIN r = RunFields /\ r.alone = l.alone /\ r.parsed = l.parsed /\ r.docs = es
        /\ r.pc = IF es = {} THEN "repair" ELSE "flag"
    BY <1>2, <2>1 DEF RunFields
  <2>5. l.pc = "select" /\ (calm > 0 => LackingLive')
    BY <1>1, <1>2, <1>4, LinksSame DEF SelectOrphans, Minding, Unrepaired
  <2>6. \/ r.pc = "repair" /\ NoneOrphaned'
        \/ r.pc = "flag"
    BY <2>3, <2>4
  <2>. QED  BY <2>1, <2>2, <2>4, <2>5, <2>6, SettlingGo DEF Unrepaired, Repaired, Reading, es
<1>5. CASE SeekHealed(w)
  <2>. DEFINE es == {e \in Entity : doc[e].status = "stale"}
  <2>1. PICK r : /\ r = [l EXCEPT !.pc = IF es = {} THEN "idle" ELSE "heal", !.docs = es]
                 /\ Goto(w, r)
    BY <1>5 DEF SeekHealed
  <2>2. es' = es
    BY <1>1 DEF LinksKept
  <2>3. es = {} => OrphansDead'
    BY <1>1 DEF OrphansDead, LinksKept, Docs, DocOK
  <2>. HIDE DEF es
  <2>4. /\ DOMAIN r = RunFields /\ r.alone = l.alone /\ r.parsed = l.parsed /\ r.docs = es
        /\ r.pc = IF es = {} THEN "idle" ELSE "heal"
    BY <1>2, <2>1 DEF RunFields
  <2>5. l.pc = "seek" /\ Linked' /\ (calm > 0 => NoneOrphaned')
    BY <1>1, <1>2, <1>5, LinksSame DEF SeekHealed, Minding, Repaired
  <2>6. \/ r.pc = "idle" /\ OrphansDead'
        \/ r.pc = "heal"
    BY <2>3, <2>4
  <2>. QED  BY <2>1, <2>2, <2>4, <2>5, <2>6, SettlingGo DEF Unrepaired, Repaired, Reading, es
<1>6. CASE PickUnstamped(w) \/ ClearDrift(w) \/ Compare(w) \/ RecordDrift(w)
  <2>1. PICK r : /\ Goto(w, r) /\ DOMAIN r = RunFields /\ r.alone = l.alone
                 /\ r.parsed = l.parsed /\ r.pc \in Repaired \ {"heal"}
    <3>1. CASE PickUnstamped(w)
      <4>1. PICK pc, fs : Goto(w, [l EXCEPT !.pc = pc, !.fills = fs]) /\ pc \in {"clear", "fill"}
        BY <3>1 DEF PickUnstamped
      <4>. DEFINE r == [l EXCEPT !.pc = pc, !.fills = fs]
      <4>2. DOMAIN r = RunFields /\ r.alone = l.alone /\ r.parsed = l.parsed /\ r.pc = pc
        BY <1>2 DEF RunFields
      <4>. QED  BY <4>1, <4>2 DEF Repaired
    <3>2. CASE ClearDrift(w)
      <4>. DEFINE r == At(l, "compare")
      <4>1. DOMAIN r = RunFields /\ r.alone = l.alone /\ r.parsed = l.parsed /\ r.pc = "compare"
        BY <1>2 DEF At, RunFields
      <4>2. Goto(w, r)
        BY <3>2 DEF ClearDrift
      <4>. QED  BY <4>1, <4>2 DEF Repaired
    <3>3. CASE Compare(w)
      <4>1. PICK pc, rs, ds : /\ Goto(w, [l EXCEPT !.pc = pc, !.rows = rs, !.decl = ds])
                              /\ pc \in {"seek", "record"}
        BY <3>3 DEF Compare
      <4>. DEFINE r == [l EXCEPT !.pc = pc, !.rows = rs, !.decl = ds]
      <4>2. DOMAIN r = RunFields /\ r.alone = l.alone /\ r.parsed = l.parsed /\ r.pc = pc
        BY <1>2 DEF RunFields
      <4>. QED  BY <4>1, <4>2 DEF Repaired
    <3>4. CASE RecordDrift(w)
      <4>1. PICK rs : Goto(w, [l EXCEPT !.pc = "seek", !.rows = rs])
        BY <3>4 DEF RecordDrift
      <4>. DEFINE r == [l EXCEPT !.pc = "seek", !.rows = rs]
      <4>2. DOMAIN r = RunFields /\ r.alone = l.alone /\ r.parsed = l.parsed /\ r.pc = "seek"
        BY <1>2 DEF RunFields
      <4>. QED  BY <4>1, <4>2 DEF Repaired
    <3>. QED  BY <1>6, <3>1, <3>2, <3>3, <3>4
  <2>2. l.pc \in Repaired /\ l.pc # "idle"
    BY <1>6 DEF PickUnstamped, ClearDrift, Compare, RecordDrift, Repaired
  <2>3. Linked' /\ (calm > 0 => NoneOrphaned')
    BY <1>1, <1>2, <2>2, LinksSame DEF Minding
  <2>. QED  BY <2>1, <2>2, <2>3, SettlingGo DEF Unrepaired, Repaired, Reading
<1>. QED  BY <1>3, <1>4, <1>5, <1>6

\* Documents that are rewritten lack no link and have no other.
LEMMA Relinked ==
  ASSUME Docs, Paired, NEW ds, Rewrite(ds), UNCHANGED <<row, auto>>
  PROVE  /\ \A e \in Entity : e \in DOMAIN ds => Lacking(e)' = {}
         /\ \A e \in Entity : e \notin DOMAIN ds =>
              Lacking(e)' = Lacking(e) /\ (Orphaned(e)' <=> Orphaned(e))
         /\ \A e \in Entity : Orphaned(e)' <=>
              \E k \in Key : IsStale(k) /\ \/ <<e, k>> \in auto
                                           \/ e \notin DOMAIN ds /\ <<e, k>> \in link
                                           \/ e \in DOMAIN ds /\ k \in ds[e].refs
<1>1. \A e, k : <<e, k>> \in link' <=>
                  IF e \in DOMAIN ds THEN k \in ds[e].refs /\ row[k] # NoRow
                                     ELSE <<e, k>> \in link
  BY RewriteLinks
<1>2. Paired'
  BY RewriteLinks
<1>3. \A e \in Entity : doc'[e] = IF e \in DOMAIN ds THEN ds[e] ELSE doc[e]
  BY DEF Rewrite
<1>4. \A e \in Entity : e \in DOMAIN ds => Lacking(e)' = {}
  BY <1>1, <1>3 DEF Lacking
<1>5. \A e \in Entity : e \notin DOMAIN ds => Lacking(e)' = Lacking(e)
  BY <1>1, <1>3 DEF Lacking
<1>6. \A e : Orphaned(e) <=> \E k \in Key : IsStale(k) /\ (<<e, k>> \in link \/ <<e, k>> \in auto)
  BY OrphanedIs
<1>7. \A e : Orphaned(e)' <=>
               \E k \in Key : IsStale(k)' /\ (<<e, k>> \in link' \/ <<e, k>> \in auto')
  <2>1. ASSUME NEW e
        PROVE Orphaned(e)' <=>
                \E k \in Key : IsStale(k)' /\ (<<e, k>> \in link' \/ <<e, k>> \in auto')
    <3>1. \A k \in Key : e \in Linking(k)' <=> <<e, k>> \in link' \cup auto'
      <4>. SUFFICES ASSUME NEW k \in Key PROVE e \in Linking(k)' <=> <<e, k>> \in link' \cup auto'
        OBVIOUS
      <4>1. e \in Linking(k)' <=> \E l \in link' \cup auto' : l[2] = k /\ l[1] = e
        BY DEF Linking
      <4>. QED  BY <1>2, <4>1 DEF Paired
    <3>. QED  BY <3>1 DEF Orphaned
  <2>. QED  BY <2>1
<1>8. \A k : (IsStale(k)' <=> IsStale(k)) /\ (IsStale(k) => row[k] # NoRow)
  BY DEF IsStale
<1>9. \A e \in Entity : Orphaned(e)' <=>
        \E k \in Key : IsStale(k) /\ \/ <<e, k>> \in auto
                                     \/ e \notin DOMAIN ds /\ <<e, k>> \in link
                                     \/ e \in DOMAIN ds /\ k \in ds[e].refs
  BY <1>1, <1>7, <1>8
<1>10. \A e \in Entity : e \notin DOMAIN ds => (Orphaned(e)' <=> Orphaned(e))
  BY <1>6, <1>9
<1>. QED  BY <1>4, <1>5, <1>9, <1>10

LEMMA SettlingReanchor ==
  ASSUME Runs, Docs, Paired, Lone, Settling, NEW w \in Worker, run[w].alone, Reanchor(w)
  PROVE  Settling'
<1>. DEFINE l == run[w]
<1>1. DOMAIN l = RunFields /\ Minding(l) /\ l.pc = "reanchor"
  BY DEF Runs, RunOK, Settling, Reanchor
<1>2. PICK ds, r : /\ Rewrite(ds) /\ UNCHANGED <<row, auto>> /\ Goto(w, r)
                   /\ \E dl : r = [l EXCEPT !.pc = "select", !.moves = Nothing, !.decl = dl]
  BY DEF Reanchor, graph
<1>3. DOMAIN r = RunFields /\ r.alone = l.alone /\ r.parsed = l.parsed /\ r.pc = "select"
  BY <1>1, <1>2 DEF RunFields
<1>4. ASSUME calm > 0 PROVE LackingLive'
  <2>1. LackingLive
    BY <1>1, <1>4 DEF Minding, Unrepaired
  <2>2. \A k : IsLive(k)' <=> IsLive(k)
    BY <1>2 DEF IsLive
  <2>. QED  BY <1>2, <2>1, <2>2, Relinked DEF LackingLive
<1>. QED  BY <1>1, <1>2, <1>3, <1>4, SettlingGo DEF Unrepaired, Repaired, Reading

LEMMA SettlingFlag ==
  ASSUME Runs, Docs, Paired, Lone, Settling, NEW w \in Worker, run[w].alone, Flag(w)
  PROVE  Settling'
<1>. DEFINE l  == run[w]
            ds == [e \in l.docs |-> [doc[e] EXCEPT !.status = "stale", !.orphan = TRUE]]
<1>1. DOMAIN l = RunFields /\ Minding(l) /\ l.pc = "flag"
  BY DEF Runs, RunOK, Settling, Flag
<1>2. PICK r : r = [l EXCEPT !.pc = "repair", !.docs = {}] /\ Goto(w, r)
  BY DEF Flag
<1>3. Rewrite(ds) /\ UNCHANGED <<row, auto>>
  BY DEF Flag, graph
<1>4. DOMAIN r = RunFields /\ r.alone = l.alone /\ r.parsed = l.parsed /\ r.pc = "repair"
  BY <1>1, <1>2 DEF RunFields
<1>5. DOMAIN ds = l.docs /\ \A e \in Entity : e \in l.docs => ds[e].status # "active"
  BY DEF Docs, DocOK, DocFields
<1>6. l.docs = {e \in Entity \ Record : doc[e].status = "active" /\ Orphaned(e)}
  BY <1>1 DEF Minding
<1>7. \A e \in Entity : doc'[e] = IF e \in DOMAIN ds THEN ds[e] ELSE doc[e]
  BY <1>3 DEF Rewrite
<1>. HIDE DEF ds
<1>8. NoneOrphaned'
  <2>. SUFFICES ASSUME NEW e \in Entity \ Record, doc'[e].status = "active" PROVE ~Orphaned(e)'
    BY DEF NoneOrphaned
  <2>1. e \notin DOMAIN ds
    BY <1>5, <1>7
  <2>2. ~Orphaned(e)
    BY <1>5, <1>6, <1>7, <2>1
  <2>. QED  BY <1>3, <2>1, <2>2, Relinked
<1>9. ASSUME calm > 0 PROVE LackingLive'
  <2>1. LackingLive
    BY <1>1, <1>9 DEF Minding, Unrepaired
  <2>2. \A k : IsLive(k)' <=> IsLive(k)
    BY <1>3 DEF IsLive
  <2>. QED  BY <1>3, <2>1, <2>2, Relinked DEF LackingLive
<1>. QED  BY <1>1, <1>2, <1>4, <1>8, <1>9, SettlingGo DEF Unrepaired, Repaired, Reading

LEMMA SettlingFill ==
  ASSUME Runs, Docs, Paired, Lone, Settling, NEW w \in Worker, run[w].alone, Fill(w)
  PROVE  Settling'
<1>. DEFINE l == run[w]
            es == {e \in Entity : l.fills[e] # {}}
            b(e) == Stamp(doc[e].base, l.fills[e])
            ds == [e \in es |-> [doc[e] EXCEPT !.base = b(e)]]
<1>1. DOMAIN l = RunFields /\ Minding(l) /\ l.pc = "fill"
  BY DEF Runs, RunOK, Settling, Fill
<1>2. PICK r : r = [l EXCEPT !.pc = "clear", !.fills = Idle.fills] /\ Goto(w, r)
  BY DEF Fill
<1>3. Rewrite(ds) /\ UNCHANGED <<row, auto>>
  BY DEF Fill, graph
<1>4. DOMAIN r = RunFields /\ r.alone = l.alone /\ r.parsed = l.parsed /\ r.pc = "clear"
  BY <1>1, <1>2 DEF RunFields
<1>5. DOMAIN ds = es /\ \A e \in es : ds[e].refs = doc[e].refs /\ ds[e].status = doc[e].status
  <2>1. \A e \in Entity : DocOK(doc[e])
    BY DEF Docs
  <2>. HIDE DEF b
  <2>. QED  BY <2>1, BaseIs
<1>6. \A e \in Entity : doc'[e] = IF e \in DOMAIN ds THEN ds[e] ELSE doc[e]
  BY <1>3 DEF Rewrite
<1>. HIDE DEF ds, es
<1>7. Linked
  BY <1>1 DEF Minding, Repaired
<1>8. Linked'
  BY <1>3, <1>7, Relinked DEF Linked
<1>9. ASSUME calm > 0 PROVE NoneOrphaned'
  <2>. SUFFICES ASSUME NEW e \in Entity \ Record, doc'[e].status = "active", Orphaned(e)'
       PROVE FALSE
    BY DEF NoneOrphaned
  <2>1. doc[e].status = "active" /\ ~Orphaned(e)
    BY <1>1, <1>5, <1>6, <1>9 DEF Minding, Repaired, NoneOrphaned
  <2>2. PICK k \in Key : IsStale(k) /\ \/ <<e, k>> \in auto
                                       \/ e \notin DOMAIN ds /\ <<e, k>> \in link
                                       \/ e \in DOMAIN ds /\ k \in ds[e].refs
    BY <1>3, Relinked
  <2>3. <<e, k>> \notin auto /\ <<e, k>> \notin link
    BY <2>1, <2>2, OrphanedIs
  <2>4. k \in doc[e].refs /\ row[k] # NoRow
    BY <1>5, <2>2, <2>3 DEF IsStale
  <2>. QED  BY <1>7, <2>3, <2>4 DEF Linked, Lacking
<1>. QED  BY <1>1, <1>2, <1>4, <1>8, <1>9, SettlingGo DEF Unrepaired, Repaired, Reading

LEMMA SettlingRepair ==
  ASSUME Runs, Docs, Paired, Lone, Informed, Settling, NEW w \in Worker, run[w].alone, Repair(w)
  PROVE  Settling'
<1>. DEFINE l == run[w]
            lacking(e) == {k \in l.decl[e] \ RefTargets(e) : row[k] # NoRow}
<1>1. DOMAIN l = RunFields /\ Minding(l) /\ l.pc = "repair"
  BY DEF Runs, RunOK, Settling, Repair
<1>2. PICK r : r = At(l, "pick") /\ Goto(w, r)
  BY DEF Repair
<1>3. /\ link' = link \cup UNION {{<<e, k>> : k \in lacking(e)} : e \in Entity}
      /\ UNCHANGED <<row, doc, auto>>
  BY DEF Repair, graph
<1>4. DOMAIN r = RunFields /\ r.alone = l.alone /\ r.parsed = l.parsed /\ r.pc = "pick"
  BY <1>1, <1>2 DEF At, RunFields
<1>5. \A e \in Entity : l.decl[e] = doc[e].refs
  BY <1>1 DEF Informed, Knowing, Deciding, Declared
<1>6. \A e, k : k \in RefTargets(e) <=> <<e, k>> \in link
  <2>. SUFFICES ASSUME NEW e, NEW k PROVE k \in RefTargets(e) <=> <<e, k>> \in link
    OBVIOUS
  <2>1. k \in RefTargets(e) <=> \E m \in link : m[1] = e /\ m[2] = k
    BY DEF RefTargets
  <2>. QED  BY <2>1 DEF Paired
<1>7. \A e \in Entity : \A k :
        k \in lacking(e) <=> k \in doc[e].refs /\ row[k] # NoRow /\ <<e, k>> \notin link
  BY <1>5, <1>6
<1>. HIDE DEF lacking
<1>8. \A e \in Entity : \A k : <<e, k>> \in link' <=> <<e, k>> \in link \/ k \in lacking(e)
  BY <1>3
<1>9. Linked'
  BY <1>3, <1>7, <1>8 DEF Linked, Lacking
<1>10. Paired'
  BY <1>3 DEF Paired
<1>11. ASSUME calm > 0 PROVE NoneOrphaned'
  <2>. SUFFICES ASSUME NEW e \in Entity \ Record, doc'[e].status = "active", Orphaned(e)'
       PROVE FALSE
    BY DEF NoneOrphaned
  <2>1. ~Orphaned(e) /\ LackingLive
    BY <1>1, <1>3, <1>11 DEF Minding, Unrepaired, NoneOrphaned
  <2>2. PICK k \in Key : IsStale(k) /\ (<<e, k>> \in link' \/ <<e, k>> \in auto)
    <3>1. PICK k \in Key : IsStale(k)' /\ e \in Linking(k)'
      BY DEF Orphaned
    <3>2. PICK m \in link' \cup auto' : m[2] = k /\ m[1] = e
      BY <3>1 DEF Linking
    <3>3. m = <<e, k>>
      BY <1>10, <3>2 DEF Paired
    <3>. QED  BY <1>3, <3>1, <3>2, <3>3 DEF IsStale
  <2>3. k \in lacking(e)
    BY <1>8, <2>1, <2>2, OrphanedIs
  <2>4. k \in Lacking(e)
    BY <1>7, <2>3 DEF Lacking
  <2>. QED  BY <2>1, <2>2, <2>4 DEF LackingLive, IsLive, IsStale
<1>. QED  BY <1>1, <1>2, <1>4, <1>9, <1>11, SettlingGo DEF Unrepaired, Repaired, Reading

LEMMA SettlingHeal ==
  ASSUME Runs, Docs, Paired, Lone, Settling, NEW w \in Worker, run[w].alone, Heal(w)
  PROVE  Settling'
<1>. DEFINE l  == run[w]
            es == {e \in l.docs : doc[e].orphan /\ (e \in Record \/ Anchored(e))}
            ds == [e \in es |-> [doc[e] EXCEPT !.status = "active", !.orphan = FALSE]]
<1>1. DOMAIN l = RunFields /\ Minding(l) /\ l.pc = "heal"
  BY DEF Runs, RunOK, Settling, Heal
<1>2. PICK r : r = At(l, "idle") /\ Goto(w, r)
  BY DEF Heal
<1>3. Rewrite(ds) /\ UNCHANGED <<row, auto>>
  BY DEF Heal, graph
<1>4. DOMAIN r = RunFields /\ r.alone = l.alone /\ r.parsed = l.parsed /\ r.pc = "idle"
  BY <1>1, <1>2 DEF At, RunFields
<1>5. l.docs = {e \in Entity : doc[e].status = "stale"}
  BY <1>1 DEF Minding
<1>6. DOMAIN ds = es /\ \A e \in es : e \in Entity /\ ds[e].refs = doc[e].refs /\ ~ds[e].orphan
  BY <1>5 DEF Docs, DocOK, DocFields
<1>7. \A e \in Entity : doc'[e] = IF e \in DOMAIN ds THEN ds[e] ELSE doc[e]
  BY <1>3 DEF Rewrite
<1>8. \A e \in es : e \notin Record => Anchored(e)
  OBVIOUS
<1>9. \A e \in Entity \ Record : doc[e].orphan /\ Anchored(e) => e \in es
  <2>. SUFFICES ASSUME NEW e \in Entity \ Record, doc[e].orphan, Anchored(e) PROVE e \in es
    OBVIOUS
  <2>1. doc[e].status = "stale"
    BY DEF Docs, DocOK
  <2>. QED  BY <1>5, <2>1
<1>. HIDE DEF ds, es
<1>10. Linked'
  <2>1. Linked
    BY <1>1 DEF Minding, Repaired
  <2>. QED  BY <1>3, <2>1, Relinked DEF Linked
<1>11. OrphansDead'
  <2>. SUFFICES ASSUME NEW e \in Entity \ Record, doc'[e].orphan PROVE ~Anchored(e)'
    BY DEF OrphansDead
  <2>1. e \notin es /\ doc'[e] = doc[e]
    BY <1>6, <1>7
  <2>2. ~Anchored(e)
    BY <1>9, <2>1
  <2>. QED  BY <1>3, <2>1, <2>2 DEF Anchored, IsLive
<1>12. ASSUME calm > 0 PROVE NoneOrphaned'
  <2>. SUFFICES ASSUME NEW e \in Entity \ Record, doc'[e].status = "active", Orphaned(e)'
       PROVE FALSE
    BY DEF NoneOrphaned
  <2>1. PICK k \in Key : IsStale(k) /\ \/ <<e, k>> \in auto
                                       \/ e \notin DOMAIN ds /\ <<e, k>> \in link
                                       \/ e \in DOMAIN ds /\ k \in ds[e].refs
    BY <1>3, Relinked
  <2>2. CASE e \in es
    <3>1. \A j \in doc[e].refs : IsLive(j)
      BY <1>8, <2>2 DEF Anchored
    <3>2. <<e, k>> \in auto => IsLive(k)
      <4>1. ASSUME <<e, k>> \in auto PROVE k \in {m[2] : m \in {n \in auto : n[1] = e}}
        <5>. DEFINE m == <<e, k>>
        <5>1. m \in auto /\ m[1] = e /\ m[2] = k
          BY <4>1
        <5>. QED  BY <5>1
      <4>. QED  BY <1>8, <2>2, <4>1 DEF Anchored
    <3>. QED  BY <1>6, <2>1, <2>2, <3>1, <3>2 DEF IsLive, IsStale
  <2>3. CASE e \notin es
    <3>1. ~Orphaned(e)
      BY <1>1, <1>6, <1>7, <1>12, <2>3 DEF Minding, Repaired, NoneOrphaned
    <3>. QED  BY <1>6, <2>1, <2>3, <3>1, OrphanedIs
  <2>. QED  BY <2>2, <2>3
<1>. QED  BY <1>1, <1>2, <1>4, <1>10, <1>11, <1>12, SettlingGo DEF Unrepaired, Repaired, Reading

LEMMA SettlingNext ==
  ASSUME Sources, Rows, Runs, Docs, Paired, Lone, Informed, Settling, [Next]_vars
  PROVE  Settling'
<1>1. CASE Quiet
  <2>1. LinksKept /\ UNCHANGED <<run, calm>>
    BY <1>1 DEF Quiet, LinksKept
  <2>2. ASSUME NEW w \in Worker, run[w].alone PROVE Minding(run[w])'
    <3>1. Minding(run[w])
      BY <2>2 DEF Settling
    <3>2. \A e : (Lacking(e)' = Lacking(e)) /\ (Orphaned(e)' <=> Orphaned(e))
      BY <2>1, LinksSame
    <3>3. /\ Linked' <=> Linked
          /\ LackingLive' <=> LackingLive
          /\ NoneOrphaned' <=> NoneOrphaned
          /\ \A k : IsLive(k)' <=> IsLive(k)
      BY <2>1, LinksSame
    <3>. QED  BY <2>1, <3>1, <3>2, <3>3 DEF Minding, LinksKept
  <2>3. OrphansDead' <=> OrphansDead
    BY <2>1, LinksSame DEF OrphansDead, LinksKept
  <2>4. (Linked' <=> Linked) /\ (NoneOrphaned' <=> NoneOrphaned)
    BY <2>1, LinksSame
  <2>. QED  BY <2>1, <2>2, <2>3, <2>4 DEF Settling, Running
<1>2. CASE Starts
  <2>1. LinksKept /\ UNCHANGED calm /\ Running = {} /\ Running' # {}
    BY <1>2 DEF Starts, LinksKept
  <2>2. calm > 0 => Linked'
    BY <2>1, LinksSame DEF Settling
  <2>3. calm > 0 => LackingLive'
    BY <2>2 DEF Linked, LackingLive
  <2>4. ASSUME NEW w \in Worker, run'[w].alone PROVE Minding(run[w])'
    <3>1. run'[w].pc \in {"rows", "declare"} /\ run'[w].gone \cap DOMAIN run'[w].parsed = {}
      BY <1>2, <2>4 DEF Starts
    <3>. QED  BY <2>1, <2>2, <2>3, <3>1 DEF Minding, Unrepaired, Repaired, Reading
  <2>. QED  BY <2>1, <2>4 DEF Settling
<1>3. CASE Disturbs
  BY <1>3 DEF Disturbs, Settling
<1>4. ASSUME NEW w \in Worker, run[w].alone, RunStep(w) PROVE Settling'
  BY <1>4, SettlingSyncRows, SettlingSync, SettlingGone, SettlingOn, SettlingReanchor,
     SettlingFlag, SettlingFill, SettlingRepair, SettlingHeal DEF RunStep
<1>. QED  BY <1>1, <1>2, <1>3, <1>4, LoneNext

LEMMA SettlingInit == Init => Paired /\ Settling
<1>. SUFFICES ASSUME Init PROVE Paired /\ Settling
  OBVIOUS
<1>1. calm = 0 /\ \A w \in Worker : ~run[w].alone
  BY DEF Init, Idle
<1>2. \A l \in link : l \in Entity \X Definition
  BY DEF Init
<1>3. auto = {}
  BY DEF Init
<1>. QED  BY <1>1, <1>2, <1>3 DEF Paired, Settling

(***************************************************************************)
(* After a run that was left alone an orphan has a dead anchor, so every   *)
(* document whose code came back was healed (post_index.rs:204); after two *)
(* such runs no living document is linked to stale code                    *)
(* (stale_flagging.rs:73).  The second run is needed because the first     *)
(* makes the links that documents lack, to stale code too, after it has    *)
(* flagged; the invariant says that from then on a document lacks links    *)
(* only to code that a run has just added, which is live.                  *)
(***************************************************************************)
THEOREM OrphansDoSettle == Spec => []OrphansSettle
<1>1. ASSUME Settling, Lone PROVE OrphansSettle
  BY <1>1 DEF Settling, Lone, OrphansDead, NoneOrphaned, OrphansSettle
<1>. QED  BY <1>1, SettlingInit, SettlingNext, PairedNext, LoneInit, RunsInit, RowsInit,
             RowsNext, LoneNext, InformedNext, HandNext, SourcesNext, PTL DEF Spec

-----------------------------------------------------------------------------
(* Callers.                                                                *)

LEMMA OneIs ==
  ASSUME NEW names, NEW t, NEW s \in One(names, t)
  PROVE  \E n \in names : /\ n[1] = t /\ n[2] = s
                          /\ \A m \in names : m[1] = t => m[2] = s
<1>. DEFINE fit == {n \in names : n[1] = t}
<1>1. (\E n \in fit : fit = {n}) /\ s \in {n[2] : n \in fit}
  BY DEF One
<1>. QED  BY <1>1

\* A row that is found by its own name.
LEMMA OneOfItself ==
  ASSUME NEW names, NEW t, NEW s \in One(names, t), NEW k, NEW how,
         <<t, k, how>> \in names
  PROVE  s = k
<1>. DEFINE n == <<t, k, how>>
<1>1. n[1] = t /\ n[2] = k
  OBVIOUS
<1>. QED  BY <1>1, OneIs

LEMMA EdgeIs ==
  ASSUME NEW p, NEW names, NEW tails, NEW e \in Resolved(p, names, tails)
  PROVE  \E f \in DOMAIN p : \E r \in p[f].raw :
           /\ e.kind = r.kind /\ e.from \in One(names, Qualified(<<f, r.from>>))
           /\ e.to \in Target(names, tails, r.to)
<1>1. PICK f \in DOMAIN p :
        e \in UNION {{[kind |-> r.kind, from |-> s, to |-> t] :
                        s \in One(names, Qualified(<<f, r.from>>)),
                        t \in Target(names, tails, r.to)} : r \in p[f].raw}
  BY DEF Resolved
<1>2. PICK r \in p[f].raw :
        e \in {[kind |-> r.kind, from |-> s, to |-> t] :
                 s \in One(names, Qualified(<<f, r.from>>)), t \in Target(names, tails, r.to)}
  BY <1>1
<1>3. PICK s \in One(names, Qualified(<<f, r.from>>)), t \in Target(names, tails, r.to) :
        e = [kind |-> r.kind, from |-> s, to |-> t]
  BY <1>2
<1>. QED  BY <1>3

\* The definitions parsed are keys of the files read.
LEMMA DefinedIs ==
  ASSUME NEW p, DOMAIN p \subseteq File, NEW k \in Defined(p)
  PROVE  /\ k \in Key /\ k[1] \in DOMAIN p /\ (k[2] = Whole \/ k[2] \in Name)
         /\ k = <<k[1], k[2]>>
  BY DEF Defined, Key

LEMMA CallsAreDefined ==
  ASSUME NEW p, NEW f \in DOMAIN p, p[f] \in Source, NEW r \in p[f].raw, r.kind = "calls"
  PROVE  /\ r.from = Whole \/ r.from \in Name
         /\ <<f, r.from>> \in Defined(p)
<1>1. r.from = Whole \/ (r.from \in Name /\ p[f].defs[r.from] # NoDef)
  BY DEF Source, RawEdge
<1>. QED  BY <1>1 DEF Defined

\* The caller asks for what it is spelled like in its own file.
LEMMA Asks ==
  ASSUME NEW src, NEW r \in src.raw, r.kind = "calls", NEW f, NEW t,
         {r.to, Colon[r.to]} \cap
           ({Qualified(t), Title(t)} \cup Tails(Qualified(t)) \cup Tails(Title(t))) # {}
  PROVE  AsksFor(src, "calls", <<f, r.from>>, t)
  BY DEF AsksFor

\* An edge of a full scan.
LEMMA FullCall ==
  ASSUME NEW p, DOMAIN p \subseteq File, \A f \in DOMAIN p : p[f] \in Source,
         NEW e \in FullEdges(p), e.kind = "calls"
  PROVE  /\ e.from \in Key /\ e.from[1] \in DOMAIN p
         /\ AsksFor(p[e.from[1]], "calls", e.from, e.to)
<1>. DEFINE names == ParsedNames(p)
            tails == ParsedTails(p)
<1>1. e \notin Contains(p)
  <2>1. \A d \in Contains(p) : d.kind = "contains"
    BY DEF Contains
  <2>. QED  BY <2>1
<1>2. e \in Resolved(p, names, tails)
  BY <1>1 DEF FullEdges
<1>. HIDE DEF names, tails
<1>3. PICK f \in DOMAIN p : \E r \in p[f].raw :
        /\ e.kind = r.kind /\ e.from \in One(names, Qualified(<<f, r.from>>))
        /\ e.to \in Target(names, tails, r.to)
  BY <1>2, EdgeIs
<1>4. PICK r \in p[f].raw :
        /\ r.kind = "calls" /\ e.from \in One(names, Qualified(<<f, r.from>>))
        /\ e.to \in Target(names, tails, r.to)
  BY <1>3
<1>. DEFINE s == <<f, r.from>>
<1>5. s \in Defined(p)
  BY <1>4, CallsAreDefined
<1>6. e.from = s
  <2>1. <<Qualified(s), s, "name">> \in names
    BY <1>5 DEF ParsedNames, names
  <2>. HIDE DEF s
  <2>. QED  BY <1>4, <2>1, OneOfItself DEF s
<1>7. {r.to, Colon[r.to]} \cap
        ({Qualified(e.to), Title(e.to)} \cup Tails(Qualified(e.to)) \cup Tails(Title(e.to))) # {}
  <2>1. ASSUME e.to \in One(names, r.to) PROVE Qualified(e.to) = r.to
    <3>1. PICK n \in names : n[1] = r.to /\ n[2] = e.to
      BY <2>1, OneIs
    <3>2. PICK k : n = <<Qualified(k), k, "name">>
      BY DEF names, ParsedNames
    <3>. QED  BY <3>1, <3>2
  <2>2. ASSUME e.to \in One(tails, Colon[r.to]) PROVE Colon[r.to] \in Tails(Qualified(e.to))
    <3>1. PICK n \in tails : n[1] = Colon[r.to] /\ n[2] = e.to
      BY <2>2, OneIs
    <3>2. PICK k, t : t \in Tails(Qualified(k)) /\ n = <<t, k, "name">>
      BY DEF tails, ParsedTails
    <3>. QED  BY <3>1, <3>2
  <2>. QED  BY <1>4, <2>1, <2>2 DEF Target
<1>. QED  BY <1>4, <1>5, <1>6, <1>7, DefinedIs, Asks

\* An edge of an incremental sync, once the rows of what it parsed are there.
LEMMA DeltaCall ==
  ASSUME TitlesAgree, NEW p, DOMAIN p \subseteq File, \A f \in DOMAIN p : p[f] \in Source,
         \A k \in Defined(p) : row[k] # NoRow,
         NEW e \in DeltaEdges(p), e.kind = "calls"
  PROVE  /\ e.from \in Key /\ e.from[1] \in DOMAIN p
         /\ AsksFor(p[e.from[1]], "calls", e.from, e.to)
<1>. DEFINE names == KnownNames
            tails == KnownTails
<1>1. e \notin Contains(p)
  <2>1. \A d \in Contains(p) : d.kind = "contains"
    BY DEF Contains
  <2>. QED  BY <2>1
<1>2. e \in Resolved(p, names, tails)
  BY <1>1 DEF DeltaEdges
<1>3. \A n \in names : \E k \in KnownKeys :
        \/ n = <<Title(k), k, "title">>
        \/ k[2] = Whole /\ n = <<Path[k[1]], k, "path">>
  BY DEF KnownNames
<1>4. \A k \in KnownKeys : /\ <<Title(k), k, "title">> \in names
                           /\ k[2] = Whole => <<Path[k[1]], k, "path">> \in names
  BY DEF KnownNames
<1>5. \A n \in tails : \E k \in KnownKeys : \E t \in Tails(Title(k)) : n = <<t, k, "title">>
  BY DEF KnownTails
<1>. HIDE DEF names, tails
<1>6. PICK f \in DOMAIN p : \E r \in p[f].raw :
        /\ e.kind = r.kind /\ e.from \in One(names, Qualified(<<f, r.from>>))
        /\ e.to \in Target(names, tails, r.to)
  BY <1>2, EdgeIs
<1>7. PICK r \in p[f].raw :
        /\ r.kind = "calls" /\ e.from \in One(names, Qualified(<<f, r.from>>))
        /\ e.to \in Target(names, tails, r.to)
  BY <1>6
<1>. DEFINE s == <<f, r.from>>
<1>8. s \in Defined(p) /\ (r.from = Whole \/ r.from \in Name)
  BY <1>7, CallsAreDefined
<1>9. s \in KnownKeys /\ s \in Key
  BY <1>8, DefinedIs DEF KnownKeys
<1>10. e.from = s
  <2>1. CASE r.from = Whole
    <3>1. Qualified(s) = Path[f] /\ s[1] = f /\ s[2] = Whole
      BY <2>1 DEF Qualified
    <3>2. <<Path[f], s, "path">> \in names
      BY <1>4, <1>9, <3>1
    <3>. HIDE DEF s
    <3>. QED  BY <1>7, <3>1, <3>2, OneOfItself DEF s
  <2>2. CASE Title(s) = Qualified(s)
    <3>1. <<Qualified(s), s, "title">> \in names
      BY <1>4, <1>9, <2>2
    <3>. HIDE DEF s
    <3>. QED  BY <1>7, <3>1, OneOfItself DEF s
  <2>3. CASE r.from # Whole /\ Title(s) # Qualified(s)
    <3>1. s \in File \X Name
      BY <1>8, <2>3
    <3>2. \A j \in Key : Qualified(s) # Title(j) /\ Qualified(s) # Path[j[1]]
      BY <2>3, <3>1 DEF TitlesAgree
    <3>3. PICK n \in names : n[1] = Qualified(s)
      BY <1>7, OneIs
    <3>4. PICK k \in KnownKeys : n[1] = Title(k) \/ n[1] = Path[k[1]]
      BY <1>3
    <3>. QED  BY <3>2, <3>3, <3>4 DEF KnownKeys
  <2>. QED  BY <2>1, <2>2, <2>3
<1>11. {r.to, Colon[r.to]} \cap
        ({Qualified(e.to), Title(e.to)} \cup Tails(Qualified(e.to)) \cup Tails(Title(e.to))) # {}
  <2>1. ASSUME e.to \in One(names, r.to) PROVE r.to \in {Qualified(e.to), Title(e.to)}
    <3>1. PICK n \in names : n[1] = r.to /\ n[2] = e.to
      BY <2>1, OneIs
    <3>2. PICK k \in KnownKeys : \/ n = <<Title(k), k, "title">>
                                 \/ k[2] = Whole /\ n = <<Path[k[1]], k, "path">>
      BY <1>3
    <3>. QED  BY <3>1, <3>2 DEF Qualified
  <2>2. ASSUME e.to \in One(tails, Colon[r.to]) PROVE Colon[r.to] \in Tails(Title(e.to))
    <3>1. PICK n \in tails : n[1] = Colon[r.to] /\ n[2] = e.to
      BY <2>2, OneIs
    <3>2. PICK k \in KnownKeys : \E t \in Tails(Title(k)) : n = <<t, k, "title">>
      BY <1>5
    <3>. QED  BY <3>1, <3>2
  <2>. QED  BY <1>7, <2>1, <2>2 DEF Target
<1>12. AsksFor(p[f], "calls", s, e.to)
  BY <1>7, <1>11, Asks
<1>13. s[1] = f
  OBVIOUS
<1>. HIDE DEF s
<1>. QED  BY <1>9, <1>10, <1>12, <1>13

\* Whatever the rows, an edge starts at a key.
LEMMA NewFrom ==
  ASSUME NEW p, DOMAIN p \subseteq File, NEW e \in FullEdges(p) \cup DeltaEdges(p)
  PROVE  e.from \in Key
<1>1. CASE e \in Contains(p)
  <2>1. PICK k \in Defined(p) : e.from = <<k[1], Whole>>
    BY <1>1 DEF Contains
  <2>. QED  BY <2>1, DefinedIs DEF Key
<1>2. ASSUME NEW names, NEW tails, e \in Resolved(p, names, tails),
             \A n \in names : n[2] \in Key
      PROVE  e.from \in Key
  <2>1. \E t : e.from \in One(names, t)
    BY <1>2, EdgeIs
  <2>. QED  BY <1>2, <2>1, OneIs
<1>3. \A n \in ParsedNames(p) : n[2] \in Key
  BY DefinedIs DEF ParsedNames
<1>4. \A n \in KnownNames : n[2] \in Key
  BY DEF KnownNames, KnownKeys
<1>. QED  BY <1>1, <1>2, <1>3, <1>4 DEF FullEdges, DeltaEdges

\* What the edges say of callers in the files that are fresh.
Real ==
  /\ \A e \in edge : e.from \in Key
  /\ \A e \in edge : e.kind = "calls" /\ e.from[1] \in fresh /\ IsLive(e.from) =>
       AsksFor(work[e.from[1]], "calls", e.from, e.to)

\* What a run that is left alone knows between the rows and the edges: no
\* file it is about to vouch for is fresh, what it parsed has a row, and
\* nothing else in the files it parsed is live.
Synced ==
  \A w \in Worker : run[w].alone /\ run[w].pc = "edges" =>
    /\ run[w].full => fresh = {}
    /\ ~run[w].full =>
         /\ fresh \cap DOMAIN run[w].parsed = {}
         /\ \A k \in Defined(run[w].parsed) : row[k] # NoRow
         /\ \A k \in Key : k[1] \in DOMAIN run[w].parsed /\ k \notin Defined(run[w].parsed) =>
              ~IsLive(k)

LEMMA RealKept ==
  ASSUME Real, UNCHANGED edge,
         \A k \in Key : k[1] \in fresh' /\ IsLive(k)' =>
           k[1] \in fresh /\ IsLive(k) /\ work'[k[1]] = work[k[1]]
  PROVE  Real'
  BY DEF Real

\* The edges of a sync that was left alone.
LEMMA RealEdges ==
  ASSUME TitlesAgree, Runs, Real, Synced, NEW w \in Worker, SyncEdges(w)
  PROVE  Real'
<1>. DEFINE r == run[w]
            p == r.parsed
<1>1. DOMAIN p \subseteq File /\ \A f \in DOMAIN p : p[f] \in Source
  BY DEF Runs, RunOK
<1>2. /\ edge' = IF ~r.full THEN PatchedEdges(p)
                 ELSE IF r.failed = {} THEN RebuiltEdges(p) ELSE edge
      /\ fresh' = IF r.alone THEN fresh \cup Current(r) ELSE {}
      /\ UNCHANGED <<work, row>> /\ r.pc = "edges"
  BY DEF SyncEdges
<1>3. ASSUME NEW e \in edge' PROVE e.from \in Key
  <2>1. e \in edge \/ e \in FullEdges(p) \cup DeltaEdges(p)
    BY <1>2 DEF PatchedEdges, RebuiltEdges, EdgesWithout, Insertable
  <2>. QED  BY <1>1, <2>1, NewFrom DEF Real
<1>4. ASSUME NEW f \in Current(r)
      PROVE  /\ r.failed = {} /\ (f \in DOMAIN p => work[f] = p[f])
             /\ f \notin DOMAIN p => r.full
  BY DEF Current
<1>. SUFFICES ASSUME NEW e \in edge', e.kind = "calls", e.from[1] \in fresh', IsLive(e.from)
     PROVE  AsksFor(work[e.from[1]], "calls", e.from, e.to)
  BY <1>2, <1>3 DEF Real, IsLive
<1>5. r.alone /\ e.from[1] \in fresh \cup Current(r)
  BY <1>2
<1>. HIDE DEF r
<1>6. CASE r.full
  <2>1. e.from[1] \in Current(r)
    BY <1>2, <1>5, <1>6 DEF Synced, r
  <2>2. e \in FullEdges(p)
    BY <1>2, <1>4, <1>6, <2>1 DEF RebuiltEdges, Insertable
  <2>3. e.from[1] \in DOMAIN p /\ AsksFor(p[e.from[1]], "calls", e.from, e.to)
    BY <1>1, <2>2, FullCall
  <2>. QED  BY <1>4, <2>1, <2>3
<1>7. CASE ~r.full
  <2>1. /\ fresh \cap DOMAIN p = {}
        /\ \A k \in Defined(p) : row[k] # NoRow
        /\ \A k \in Key : k[1] \in DOMAIN p /\ k \notin Defined(p) => ~IsLive(k)
    BY <1>2, <1>5, <1>7 DEF Synced, r
  <2>2. e \in EdgesWithout(Defined(p)) \/ e \in DeltaEdges(p)
    BY <1>2, <1>7 DEF PatchedEdges, Insertable
  <2>3. CASE e \in DeltaEdges(p)
    <3>1. e.from[1] \in DOMAIN p /\ AsksFor(p[e.from[1]], "calls", e.from, e.to)
      BY <1>1, <2>1, <2>3, DeltaCall
    <3>. QED  BY <1>4, <1>5, <2>1, <3>1
  <2>4. CASE e \in EdgesWithout(Defined(p))
    <3>1. e \in edge /\ e.from \notin Defined(p)
      BY <2>4 DEF EdgesWithout
    <3>2. e.from[1] \in fresh
      BY <1>3, <1>4, <1>5, <1>7, <2>1, <3>1
    <3>. QED  BY <3>1, <3>2 DEF Real
  <2>. QED  BY <2>2, <2>3, <2>4
<1>. QED  BY <1>6, <1>7

LEMMA RealRows ==
  ASSUME Runs, Rows, Real, NEW w \in Worker, SyncRows(w)
  PROVE  Real'
<1>. DEFINE p == run[w].parsed
<1>1. /\ row' = IF run[w].full THEN SweptRows(p, run[w].failed) ELSE SyncedRows(p)
      /\ fresh' = IF run[w].alone /\ ~run[w].full THEN fresh \ DOMAIN p ELSE {}
      /\ UNCHANGED <<work, edge>>
  BY DEF SyncRows
<1>2. \A k \in Key : k[1] \notin DOMAIN p => SyncedRows(p)[k] = row[k]
  BY SyncedIs DEF Runs, RunOK
<1>. HIDE DEF p
<1>3. ASSUME NEW k \in Key, k[1] \in fresh', IsLive(k)'
      PROVE  k[1] \in fresh /\ IsLive(k)
  BY <1>1, <1>2, <1>3 DEF IsLive
<1>. QED  BY <1>1, <1>3, RealKept

LEMMA RealGone ==
  ASSUME Rows, Real, NEW w \in Worker, MarkGone(w)
  PROVE  Real'
<1>. DEFINE dead == {k \in Key : k[1] \in run[w].gone}
<1>1. /\ row' = Retired(row, dead) /\ UNCHANGED <<work, edge>>
      /\ fresh' = IF run[w].alone THEN fresh \cup (run[w].gone \ Present) ELSE {}
  BY DEF MarkGone
<1>2. \A k \in Key : /\ row'[k] = NoRow <=> row[k] = NoRow
                     /\ k \notin dead => row'[k] = row[k]
                     /\ k \in dead /\ row[k] # NoRow => ~row'[k].live
  BY <1>1, RetiredIs DEF Rows
<1>3. ASSUME NEW k \in Key, k[1] \in fresh', IsLive(k)'
      PROVE  k[1] \in fresh /\ IsLive(k)
  <2>1. row'[k] # NoRow /\ row'[k].live
    BY <1>3 DEF IsLive
  <2>2. k \notin dead
    BY <1>2, <2>1
  <2>. QED  BY <1>1, <1>2, <1>3, <2>1, <2>2 DEF IsLive
<1>. QED  BY <1>1, <1>3, RealKept

LEMMA RealNext ==
  ASSUME TitlesAgree, Sources, Runs, Rows, Real, Synced, [Next]_vars
  PROVE  Real'
<1>1. ASSUME UNCHANGED <<work, row, edge>>, fresh' \subseteq fresh
      PROVE  Real'
  BY <1>1, RealKept DEF IsLive
<1>2. ASSUME NEW w \in Worker, RunStep(w) PROVE Real'
  <2>1. CASE SyncRows(w) \/ SyncEdges(w) \/ MarkGone(w)
    BY <2>1, RealRows, RealEdges, RealGone
  <2>2. CASE ~(SyncRows(w) \/ SyncEdges(w) \/ MarkGone(w))
    BY <1>1, <1>2, <2>2 DEF RunStep, SyncAutoLinks, Declare, Reanchor, SelectOrphans,
       Flag, Repair, PickUnstamped, Fill, ClearDrift, Compare, RecordDrift, SeekHealed, Heal, graph
  <2>. QED  BY <2>1, <2>2
<1>3. ASSUME NEW w \in Worker, Begin(w) PROVE Real'
  BY <1>1, <1>3 DEF Begin, BeginIndex, BeginUnread, BeginReindex, BeginSave, BeginPass, Start,
     graph, history
<1>4. ASSUME NEW w \in Worker, Skip(w) \/ Crash(w) PROVE Real'
  BY <1>1, <1>4 DEF Skip, Crash, graph
<1>5. ASSUME NEW f \in File, Edit(f) PROVE Real'
  <2>1. \E c : work' = [work EXCEPT ![f] = c]
    BY <1>5 DEF Edit
  <2>2. fresh' = fresh \ {f} /\ UNCHANGED <<row, edge>>
    BY <1>5 DEF Edit
  <2>3. \A g \in File : g # f => work'[g] = work[g]
    BY <2>1 DEF Sources
  <2>4. \A k \in Key : k[1] \in File
    BY DEF Key
  <2>. QED  BY <2>2, <2>3, <2>4, RealKept DEF IsLive
<1>6. ASSUME NEW e \in Entity, Verify(e) \/ SetReferences(e) \/ MarkStale(e) PROVE Real'
  BY <1>1, <1>6 DEF Verify, SetReferences, MarkStale, Write, graph
<1>7. CASE Rest \/ UNCHANGED vars
  BY <1>1, <1>7 DEF Rest, vars, graph, history
<1>. QED  BY <1>2, <1>3, <1>4, <1>5, <1>6, <1>7 DEF Next

LEMMA SyncedRowsStep ==
  ASSUME Runs, Rows, Lone, NEW w \in Worker, run[w].alone, SyncRows(w)
  PROVE  Synced'
<1>. DEFINE l == run[w]
            p == l.parsed
            r == At(l, "edges")
<1>1. /\ row' = IF l.full THEN SweptRows(p, l.failed) ELSE SyncedRows(p)
      /\ fresh' = IF l.alone /\ ~l.full THEN fresh \ DOMAIN p ELSE {}
      /\ Goto(w, r) /\ l.pc # "idle"
  BY DEF SyncRows
<1>2. DOMAIN l = RunFields /\ DOMAIN p \subseteq File
  BY DEF Runs, RunOK
<1>3. /\ DOMAIN r = RunFields /\ r.alone = l.alone /\ r.parsed = p /\ r.pc = "edges"
      /\ r.full = l.full
  BY <1>2 DEF At, RunFields
<1>4. \A k \in Key :
        /\ k \in Defined(p) => SyncedRows(p)[k] # NoRow
        /\ k[1] \in DOMAIN p /\ k \notin Defined(p) =>
             SyncedRows(p)[k] = NoRow \/ ~SyncedRows(p)[k].live
  BY SyncedIs DEF Runs, RunOK
<1>5. \A k \in Defined(p) : k \in Key
  BY <1>2, DefinedIs
<1>. HIDE DEF r
<1>6. /\ \A v \in Worker : run'[v].alone => v = w
      /\ run'[w] = r
  BY <1>1, <1>3, Turns
<1>. HIDE DEF p, l
<1>7. /\ l.full => fresh' = {}
      /\ ~l.full => fresh' \cap DOMAIN p = {}
  BY <1>1
<1>8. ~l.full => /\ \A k \in Defined(p) : row'[k] # NoRow
                 /\ \A k \in Key : k[1] \in DOMAIN p /\ k \notin Defined(p) => ~IsLive(k)'
  BY <1>1, <1>4, <1>5 DEF IsLive
<1>. QED  BY <1>3, <1>6, <1>7, <1>8 DEF Synced

LEMMA SyncedNext ==
  ASSUME Sources, Runs, Rows, Lone, Synced, [Next]_vars
  PROVE  Synced'
<1>1. ASSUME UNCHANGED <<row, run>>, fresh' \subseteq fresh PROVE Synced'
  BY <1>1 DEF Synced, IsLive
<1>2. CASE Starts
  BY <1>2 DEF Starts, Synced
<1>3. CASE Disturbs
  BY <1>3 DEF Disturbs, Synced
<1>4. ASSUME NEW w \in Worker, run[w].alone, RunStep(w) PROVE Synced'
  <2>1. CASE SyncRows(w)
    BY <1>4, <2>1, SyncedRowsStep
  <2>2. CASE ~SyncRows(w)
    <3>1. PICK r : /\ Goto(w, r) /\ DOMAIN r = RunFields /\ r.alone = run[w].alone
                   /\ r.parsed = run[w].parsed \/ r.parsed = Idle.parsed
                   /\ r.pc # "edges" /\ run[w].pc # "idle"
      BY <1>4, <2>2, StepTurns
    <3>2. \A v \in Worker : run'[v].alone => v = w /\ r.pc # "idle"
      BY <3>1, Turns
    <3>3. r.pc # "idle" => run'[w] = r
      BY <3>1, Turns
    <3>. QED  BY <3>1, <3>2, <3>3 DEF Synced
  <2>. QED  BY <2>1, <2>2
<1>. QED  BY <1>1, <1>2, <1>3, <1>4, LoneNext DEF Quiet

LEMMA RealInit == Init => Real /\ Synced
<1>. SUFFICES ASSUME Init PROVE Real /\ Synced
  OBVIOUS
<1>. DEFINE p == Parse(Present)
<1>1. edge = FullEdges(p) /\ fresh = {} /\ run = [w \in Worker |-> Idle]
  BY DEF Init
<1>2. DOMAIN p \subseteq File
  BY ParseDomain
<1>. HIDE DEF p
<1>3. Real
  BY <1>1, <1>2, NewFrom DEF Real
<1>4. Synced
  BY <1>1, IdleIs DEF Synced
<1>. QED  BY <1>3, <1>4

\* The callers the graph names in fresh files are callers there, however the
\* files and the definitions in them are called, as long as titles and
\* qualified names are not mixed up between languages (TitlesAgree).
THEOREM CallersStayReal ==
  ASSUME TitlesAgree
  PROVE  Spec => []CallersAreReal
<1>. DEFINE Inv == Sources /\ Runs /\ Docs /\ Handed /\ Rows /\ Lone /\ Real /\ Synced
<1>1. Init => Inv
  BY RunsInit, RowsInit, LoneInit, RealInit
<1>2. Inv /\ [Next]_vars => Inv'
  BY HandNext, SourcesNext, RowsNext, LoneNext, RealNext, SyncedNext
<1>3. Inv => CallersAreReal
  BY DEF Real, CallersAreReal, Callers
<1>. QED  BY <1>1, <1>2, <1>3, PTL DEF Spec
=============================================================================
