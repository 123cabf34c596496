------------------------ MODULE Consolidation_proofs ------------------------
(***************************************************************************)
(* Theorems about Consolidation, for any observations, rule ids, passes    *)
(* and scenarios, any verdict of the models, any threshold and any number  *)
(* of faults.                                                              *)
(***************************************************************************)
EXTENDS Consolidation, WellFoundedInduction, TLAPS

-----------------------------------------------------------------------------
(* What writers and passes carry.                                          *)

WriterSteps == {"seed", "file", "sync", "check", "fetch", "lock", "record",
                "syncrecord", "done", "failed"}
WriterLocals == [pc : WriterSteps, dup : BOOLEAN, rejected : BOOLEAN, contra : SUBSET Obs]

Candidate == [ent : Obs, sup : SUBSET Entity]
Pair == [ent : Obs, by : Obs]

PassSteps == {"idle", "away", "edges", "next", "syncrule", "precheck", "vectors",
              "lock", "supersede", "syncsource"}
PassLocals == [pc : PassSteps, phase : {"promote", "merge"}, seen : SUBSET Obs,
               todo : SUBSET (Candidate \cup Pair), ent : Obs \cup {Nobody},
               by : Entity \cup {Nobody}]

Files == file \in [Entity -> Doc \cup {Nobody}] /\ row \in [Entity -> Doc \cup {Nobody}]

\* A pass has candidates of its phase; by its promotion it has made a rule.
PassOK(l) ==
  /\ l \in PassLocals
  /\ l.todo \subseteq IF l.phase = "promote" THEN Candidate ELSE Pair
  /\ l.pc \in {"idle", "away", "edges", "syncrule", "precheck"} => l.phase = "promote"
  /\ l.pc = "vectors" => l.phase = "merge"
  /\ l.pc \in {"syncrule", "precheck", "lock", "supersede", "syncsource"} =>
       l.ent \in Obs /\ l.by \in IF l.phase = "promote" THEN Rule ELSE Obs

\* What a pass works with has a row, and so has what it supersedes something by.
Known(l, files, rows) ==
  /\ \A o \in l.seen : rows[o] # Nobody
  /\ \A c \in l.todo : /\ rows[c.ent] # Nobody
                       /\ l.phase = "merge" => rows[c.by] # Nobody
  /\ l.pc \in {"syncrule", "precheck", "lock", "supersede", "syncsource"} => rows[l.ent] # Nobody
  /\ l.pc = "syncrule" => files[l.by] # Nobody
  /\ l.pc \in {"precheck", "lock", "supersede", "syncsource"} => rows[l.by] # Nobody

Locals ==
  /\ writer \in [Obs -> WriterLocals] /\ pass \in [Pass -> PassLocals]
  /\ \A w \in Obs : writer[w].pc \in {"sync", "check", "fetch", "lock", "record", "syncrecord", "done"}
                      => file[w] # Nobody
  /\ \A p \in Pass : PassOK(pass[p]) /\ Known(pass[p], file, row)

Rows == \A e \in Entity : row[e] # Nobody => file[e] # Nobody

-----------------------------------------------------------------------------
(* How files and rows change.                                              *)

\* No entity loses its file or its row.
Kept == \A e \in Entity : /\ file[e] # Nobody => file'[e] # Nobody
                          /\ row[e] # Nobody => row'[e] # Nobody

LEMMA KnownKept ==
  ASSUME Kept, NEW l, PassOK(l), Known(l, file, row)
  PROVE  Known(l, file', row')
  BY DEF Kept, Known, PassOK, PassLocals, Candidate, Pair, Entity

\* Each row that changes takes on its file, as the lattice allows.
RowsSynced ==
  /\ row' \in [Entity -> Doc \cup {Nobody}]
  /\ \A e \in Entity : \/ row'[e] = row[e]
                       \/ row'[e] = file[e] /\ file[e] # Nobody /\ Syncable(e)

LEMMA RowsSyncedKeeps ==
  ASSUME Files, Rows, RowsSynced, UNCHANGED file
  PROVE  Files' /\ Rows' /\ Kept
  BY DEF RowsSynced, Files, Rows, Kept

LEMMA SyncedIs ==
  ASSUME Files, NEW e \in Entity, row' = Synced(e)
  PROVE  RowsSynced /\ (file[e] # Nobody => row'[e] # Nobody)
<1>1. CASE file[e] # Nobody /\ Syncable(e)
  BY <1>1 DEF Synced, Files, RowsSynced
<1>2. CASE ~(file[e] # Nobody /\ Syncable(e))
  BY <1>2 DEF Synced, Syncable, Files, RowsSynced
<1>. QED  BY <1>1, <1>2

LEMMA IndexIs ==
  ASSUME Files, Index
  PROVE  RowsSynced
<1>1. \A e \in Entity : row'[e] = Synced(e)[e]
  BY DEF Index
<1>2. ASSUME NEW e \in Entity
      PROVE  \/ row'[e] = row[e]
             \/ row'[e] = file[e] /\ file[e] # Nobody /\ Syncable(e)
  BY <1>1 DEF Synced, Files
<1>3. row' = [e \in Entity |-> row'[e]] /\ \A e \in Entity : row'[e] \in Doc \cup {Nobody}
  BY <1>2 DEF Files, Index
<1>. QED  BY <1>2, <1>3 DEF RowsSynced

\* Records of files.
NewDoc(from, sup) == [status |-> "active", by |-> Nobody, from |-> from, sup |-> sup, contra |-> {}]

LEMMA NewDocIs ==
  ASSUME NEW from \in Obs \cup {Nobody}, NEW sup \in SUBSET Entity
  PROVE  NewDoc(from, sup) \in Doc /\ NewDoc(from, sup) # Nobody
<1>1. NewDoc(from, sup) \in Doc
  BY DEF NewDoc, Doc, Status
<1>. QED  BY <1>1, NobodyAssumption

LEMMA DocIs ==
  ASSUME NEW d \in Doc
  PROVE  /\ d # Nobody
         /\ \A s \in Status : [d EXCEPT !.status = s] \in Doc
         /\ \A s \in Status, b \in Entity : [d EXCEPT !.status = s, !.by = b] \in Doc
         /\ \A c \in SUBSET Entity : [d EXCEPT !.contra = c] \in Doc
  BY NobodyAssumption DEF Doc

-----------------------------------------------------------------------------
(* Type correctness.                                                       *)

LEMMA StoreInit == Init => Files /\ Locals /\ Rows
<1>. SUFFICES ASSUME Init PROVE Files /\ Locals /\ Rows
  OBVIOUS
<1>1. PICK here \in Scenario :
        /\ file = [e \in Entity |-> IF e \in here.seed THEN NewDoc(Nobody, Supports[e]) ELSE Nobody]
        /\ row = file
        /\ writer = [w \in Obs |-> [pc |-> IF w \in here.new THEN "file" ELSE "seed",
                                    dup |-> FALSE, rejected |-> FALSE, contra |-> {}]]
        /\ pass = [p \in Pass |-> IF p \in here.passes THEN Idle ELSE Away]
  BY DEF Init, NewDoc
<1>2. here.seed \subseteq Obs
  BY ScenarioAssumption
<1>3. \A e \in here.seed : NewDoc(Nobody, Supports[e]) \in Doc
  BY <1>2, NewDocIs, ObservationAssumption DEF Entity
<1>4. Files /\ Rows
  BY <1>1, <1>3 DEF Files, Rows
<1>5. Idle \in PassLocals /\ Away \in PassLocals
  BY DEF Idle, Away, PassLocals, PassSteps
<1>6. writer \in [Obs -> WriterLocals] /\ pass \in [Pass -> PassLocals]
  BY <1>1, <1>5 DEF WriterLocals, WriterSteps
<1>7. \A p \in Pass : PassOK(pass[p]) /\ Known(pass[p], file, row)
  BY <1>1, <1>5 DEF Idle, Away, PassOK, Known
<1>8. \A w \in Obs : writer[w].pc \in {"seed", "file"}
  BY <1>1
<1>. QED  BY <1>4, <1>6, <1>7, <1>8 DEF Locals

\* A writer goes on with other locals.
LEMMA WriterMoves ==
  ASSUME Files, Locals, Rows, NEW w \in Obs, NEW l \in WriterLocals,
         writer' = [writer EXCEPT ![w] = l], UNCHANGED pass,
         l.pc \in {"sync", "check", "fetch", "lock", "record", "syncrecord", "done"}
           => file'[w] # Nobody,
         Kept
  PROVE  Locals'
<1>1. writer' \in [Obs -> WriterLocals] /\ \A v \in Obs : v # w => writer'[v] = writer[v]
  BY DEF Locals
<1>2. writer'[w] = l
  BY DEF Locals
<1>3. \A v \in Obs : v \in Entity
  BY DEF Entity
<1>4. \A p \in Pass : Known(pass[p], file', row')
  BY KnownKept DEF Locals
<1>. QED  BY <1>1, <1>2, <1>3, <1>4 DEF Locals, Kept

LEMMA WriterStore ==
  ASSUME Files, Locals, Rows, NEW w \in Obs, WriterStep(w)
  PROVE  Files' /\ Locals' /\ Rows' /\ Kept
<1>. w \in Entity /\ writer[w] \in WriterLocals
  BY DEF Entity, Locals
<1>1. CASE WriteFile(w)
  <2>. DEFINE d == NewDoc(Nobody, Supports[w])
  <2>1. file' = [file EXCEPT ![w] = d]
    BY <1>1 DEF WriteFile, NewDoc
  <2>2. d \in Doc /\ d # Nobody
    BY NewDocIs, ObservationAssumption DEF Entity
  <2>. HIDE DEF d
  <2>3. Files' /\ Rows' /\ file'[w] # Nobody /\ Kept
    BY <1>1, <2>1, <2>2 DEF WriteFile, Files, Rows, Kept
  <2>4. PICK l : l = [writer[w] EXCEPT !.pc = "sync"]
    OBVIOUS
  <2>5. l \in WriterLocals /\ writer' = [writer EXCEPT ![w] = l] /\ UNCHANGED pass
    BY <1>1, <2>4 DEF WriteFile, WriterGo, WriterLocals, WriterSteps
  <2>. QED  BY <2>3, <2>5, WriterMoves
<1>2. CASE SyncFile(w)
  <2>1. PICK s \in {"check", "failed"} : WriterGo(w, s) /\ UNCHANGED <<file, pass>>
    BY <1>2 DEF SyncFile
  <2>2. row' = Synced(w) \/ UNCHANGED row
    BY <1>2 DEF SyncFile
  <2>3. Files' /\ Rows' /\ Kept
    BY <2>1, <2>2, SyncedIs, RowsSyncedKeeps DEF Files, Rows, Kept
  <2>4. PICK l : l = [writer[w] EXCEPT !.pc = s]
    OBVIOUS
  <2>5. l \in WriterLocals /\ writer' = [writer EXCEPT ![w] = l] /\ UNCHANGED pass
    BY <2>1, <2>4 DEF WriterGo, WriterLocals, WriterSteps
  <2>6. file'[w] # Nobody
    BY <1>2, <2>1 DEF SyncFile, WriterAt, Locals
  <2>. QED  BY <2>1, <2>3, <2>5, <2>6, WriterMoves
<1>3. CASE StoreAndCheck(w) \/ FetchAndClassify(w)
  <2>1. PICK l \in WriterLocals : writer' = [writer EXCEPT ![w] = l]
    <3>1. CASE StoreAndCheck(w)
      <4>1. PICK a, b \in BOOLEAN :
              writer' = [writer EXCEPT ![w] = [@ EXCEPT !.pc = "fetch", !.dup = a, !.rejected = b]]
        BY <3>1 DEF StoreAndCheck
      <4>2. [writer[w] EXCEPT !.pc = "fetch", !.dup = a, !.rejected = b] \in WriterLocals
        BY <4>1 DEF WriterLocals, WriterSteps
      <4>. QED  BY <4>1, <4>2
    <3>2. CASE FetchAndClassify(w)
      <4>1. PICK c \in SUBSET Obs, s \in {"done", "lock"} :
              writer' = [writer EXCEPT ![w] = [@ EXCEPT !.contra = c, !.pc = s]]
        BY <3>2 DEF FetchAndClassify, Contradicted
      <4>2. [writer[w] EXCEPT !.contra = c, !.pc = s] \in WriterLocals
        BY <4>1 DEF WriterLocals, WriterSteps
      <4>. QED  BY <4>1, <4>2
    <3>. QED  BY <1>3, <3>1, <3>2
  <2>2. UNCHANGED <<file, row, pass>> /\ file[w] # Nobody
    BY <1>3 DEF StoreAndCheck, FetchAndClassify, store, WriterAt, Locals
  <2>. QED  BY <2>1, <2>2, WriterMoves DEF Files, Rows, Kept
<1>4. CASE LockForRecord(w)
  <2>1. PICK s \in {"record", "done"} : WriterGo(w, s)
    BY <1>4 DEF LockForRecord
  <2>2. UNCHANGED <<file, row, pass>> /\ file[w] # Nobody
    BY <1>4 DEF LockForRecord, store, WriterAt, Locals
  <2>4. PICK l : l = [writer[w] EXCEPT !.pc = s]
    OBVIOUS
  <2>5. l \in WriterLocals /\ writer' = [writer EXCEPT ![w] = l]
    BY <2>1, <2>4 DEF WriterGo, WriterLocals, WriterSteps
  <2>. QED  BY <2>2, <2>5, WriterMoves DEF Files, Rows, Kept
<1>5. CASE RecordContradicts(w)
  <2>1. file[w] \in Doc /\ writer[w].contra \in SUBSET Entity
    BY <1>5 DEF RecordContradicts, WriterAt, Locals, Files, WriterLocals, Entity
  <2>2. PICK d : d = [file[w] EXCEPT !.contra = writer[w].contra]
    OBVIOUS
  <2>3. d \in Doc /\ d # Nobody /\ file' = [file EXCEPT ![w] = d]
    BY <1>5, <2>1, <2>2, DocIs DEF RecordContradicts
  <2>4. Files' /\ Rows' /\ file'[w] # Nobody /\ Kept
    BY <1>5, <2>3 DEF RecordContradicts, Files, Rows, Kept
  <2>5. PICK l : l = [writer[w] EXCEPT !.pc = "syncrecord"]
    OBVIOUS
  <2>6. l \in WriterLocals /\ writer' = [writer EXCEPT ![w] = l] /\ UNCHANGED pass
    BY <1>5, <2>5 DEF RecordContradicts, WriterGo, WriterLocals, WriterSteps
  <2>. QED  BY <2>4, <2>6, WriterMoves
<1>6. CASE SyncRecord(w)
  <2>1. (row' = Synced(w) \/ UNCHANGED row) /\ UNCHANGED <<file, pass>>
    BY <1>6 DEF SyncRecord
  <2>2. Files' /\ Rows' /\ Kept
    BY <2>1, SyncedIs, RowsSyncedKeeps DEF Files, Rows, Kept
  <2>3. PICK l : l = [writer[w] EXCEPT !.pc = "done"]
    OBVIOUS
  <2>4. l \in WriterLocals /\ writer' = [writer EXCEPT ![w] = l]
    BY <1>6, <2>3 DEF SyncRecord, WriterGo, WriterLocals, WriterSteps
  <2>5. file'[w] # Nobody
    BY <1>6, <2>1 DEF SyncRecord, WriterAt, Locals
  <2>. QED  BY <2>1, <2>2, <2>4, <2>5, WriterMoves
<1>. QED  BY <1>1, <1>2, <1>3, <1>4, <1>5, <1>6 DEF WriterStep

\* A pass goes on with other locals.
LEMMA PassMoves ==
  ASSUME Locals, NEW p \in Pass, NEW l, PassOK(l), Known(l, file', row'),
         pass' = [pass EXCEPT ![p] = l], UNCHANGED writer, Kept
  PROVE  Locals'
<1>1. pass' \in [Pass -> PassLocals] /\ \A q \in Pass : q # p => pass'[q] = pass[q]
  BY DEF Locals, PassOK
<1>2. pass'[p] = l
  BY DEF Locals
<1>3. \A q \in Pass : PassOK(pass'[q]) /\ Known(pass'[q], file', row')
  BY <1>1, <1>2, KnownKept DEF Locals
<1>4. \A v \in Obs : v \in Entity
  BY DEF Entity
<1>. QED  BY <1>1, <1>3, <1>4 DEF Locals, Kept

LEMMA PassStore ==
  ASSUME Files, Locals, Rows, NEW p \in Pass, PassStep(p)
  PROVE  Files' /\ Locals' /\ Rows' /\ Kept
<1>. DEFINE r == pass[p]
<1>. r \in PassLocals /\ PassOK(r) /\ Known(r, file, row)
  BY DEF Locals, PassOK
<1>. HIDE DEF r
<1>. DEFINE on == [r EXCEPT !.pc = "next", !.ent = Nobody, !.by = Nobody]
<1>0. PassOK(on) /\ Known(on, file, row)
  BY DEF PassOK, PassLocals, PassSteps, Known
<1>. HIDE DEF on
<1>1. CASE StartPass(p) \/ ReadEdges(p) \/ EndPromotion(p) \/ ReadPairs(p) \/ EndMerge(p)
  <2>1. PICK l : PassOK(l) /\ Known(l, file, row) /\ pass' = [pass EXCEPT ![p] = l]
    <3>1. CASE StartPass(p)
      <4>. DEFINE l == [r EXCEPT !.pc = "edges", !.seen = {o \in Obs : Active(o)}]
      <4>1. PassOK(l) /\ Known(l, file, row)
        BY <3>1 DEF StartPass, PassAt, PassOK, PassLocals, PassSteps, Known, Active, r
      <4>. QED  BY <3>1, <4>1 DEF StartPass, r
    <3>2. CASE ReadEdges(p)
      <4>. DEFINE t == PromotionCandidates(r.seen)
                  l == [r EXCEPT !.pc = "next", !.todo = t]
      <4>1. t \subseteq Candidate /\ \A c \in t : row[c.ent] # Nobody
        <5>1. \A o \in r.seen : o \in Obs /\ row[o] # Nobody
          BY DEF PassLocals, Known
        <5>2. \A o \in Obs : Supporters(o) \in SUBSET Entity
          BY DEF Supporters
        <5>. QED  BY <5>1, <5>2 DEF PromotionCandidates, Candidate
      <4>2. r.phase = "promote"
        BY <3>2 DEF ReadEdges, PassAt, Locals, PassOK, r
      <4>. HIDE DEF t
      <4>3. PassOK(l) /\ Known(l, file, row)
        BY <4>1, <4>2 DEF PassOK, PassLocals, PassSteps, Known
      <4>. QED  BY <3>2, <4>3 DEF ReadEdges, r, t
    <3>3. CASE EndPromotion(p)
      <4>. DEFINE l == [Idle EXCEPT !.pc = "vectors", !.phase = "merge",
                                    !.seen = {o \in Obs : Active(o)}]
      <4>1. PassOK(l) /\ Known(l, file, row)
        BY DEF PassOK, PassLocals, PassSteps, Idle, Known, Active
      <4>. QED  BY <3>3, <4>1 DEF EndPromotion
    <3>4. CASE ReadPairs(p)
      <4>. DEFINE t == MergeCandidates(r.seen)
                  l == [r EXCEPT !.pc = "next", !.seen = {}, !.todo = t]
      <4>1. t \subseteq Pair /\ \A c \in t : row[c.ent] # Nobody /\ row[c.by] # Nobody
        BY DEF MergeCandidates, Pair, PassLocals, Known
      <4>2. r.phase = "merge"
        BY <3>4 DEF ReadPairs, PassAt, Locals, PassOK, r
      <4>. HIDE DEF t
      <4>3. PassOK(l) /\ Known(l, file, row)
        BY <4>1, <4>2 DEF PassOK, PassLocals, PassSteps, Known
      <4>. QED  BY <3>4, <4>3 DEF ReadPairs, r, t
    <3>5. CASE EndMerge(p)
      <4>1. PassOK(Idle) /\ Known(Idle, file, row)
        BY DEF PassOK, PassLocals, PassSteps, Idle, Known
      <4>. QED  BY <3>5, <4>1 DEF EndMerge
    <3>. QED  BY <1>1, <3>1, <3>2, <3>3, <3>4, <3>5
  <2>2. UNCHANGED <<file, row, writer>>
    BY <1>1 DEF StartPass, ReadEdges, EndPromotion, ReadPairs, EndMerge, store
  <2>. QED  BY <2>1, <2>2, PassMoves DEF Files, Rows, Kept
<1>2. CASE WriteRule(p)
  <2>1. PICK c \in r.todo, u \in Rule :
          /\ file' = [file EXCEPT ![u] = NewDoc(c.ent, c.sup)]
          /\ pass' = [pass EXCEPT ![p] = [r EXCEPT !.pc = "syncrule", !.ent = c.ent, !.by = u,
                                                   !.todo = r.todo \ {c}]]
          /\ UNCHANGED <<row, writer>>
    BY <1>2 DEF WriteRule, NewDoc, r
  <2>2. r.phase = "promote" /\ c \in Candidate /\ u \in Entity
    BY <1>2, <2>1 DEF WriteRule, PassOK, Entity, r
  <2>3. NewDoc(c.ent, c.sup) \in Doc /\ NewDoc(c.ent, c.sup) # Nobody
    BY <2>2, NewDocIs DEF Candidate
  <2>4. Files' /\ Rows' /\ Kept
    BY <2>1, <2>2, <2>3 DEF Files, Rows, Kept
  <2>. DEFINE l == [r EXCEPT !.pc = "syncrule", !.ent = c.ent, !.by = u, !.todo = r.todo \ {c}]
  <2>5. PassOK(l)
    BY <2>1, <2>2 DEF PassOK, PassLocals, PassSteps, Candidate
  <2>6. Known(l, file', row')
    <3>1. Known(r, file', row') /\ file'[u] # Nobody /\ row'[c.ent] # Nobody
      BY <2>1, <2>2, <2>3, <2>4, KnownKept DEF Known, Candidate, Kept, Entity, Files
    <3>. QED  BY <2>1, <2>2, <3>1 DEF Known, PassLocals
  <2>7. pass' = [pass EXCEPT ![p] = l]
    BY <2>1
  <2>. HIDE DEF l
  <2>. QED  BY <2>1, <2>4, <2>5, <2>6, <2>7, PassMoves
<1>3. CASE SyncRule(p) \/ SyncSource(p)
  <2>1. r.by \in Entity /\ r.ent \in Entity /\ row[r.ent] # Nobody
        /\ (SyncRule(p) => r.by \in Rule /\ r.phase = "promote" /\ r.ent \in Obs)
    BY <1>3 DEF SyncRule, SyncSource, PassAt, PassOK, Known, Entity, r
  <2>2. UNCHANGED <<file, writer>> /\ (UNCHANGED row \/ \E e \in Entity : row' = Synced(e))
    BY <1>3, <2>1 DEF SyncRule, SyncSource, r
  <2>3. Files' /\ Rows' /\ Kept
    BY <2>2, SyncedIs, RowsSyncedKeeps DEF Files, Rows, Kept
  <2>4. CASE pass' = [pass EXCEPT ![p] = on]
    <3>1. Known(on, file', row')
      BY <1>0, <2>3, KnownKept
    <3>. QED  BY <1>0, <2>2, <2>3, <2>4, <3>1, PassMoves
  <2>5. CASE SyncRule(p) /\ row' = Synced(r.by) /\ pass' = [pass EXCEPT ![p] = [r EXCEPT !.pc = "precheck"]]
    <3>. DEFINE l == [r EXCEPT !.pc = "precheck"]
    <3>1. PassOK(l)
      BY <2>1, <2>5 DEF PassOK, PassLocals, PassSteps
    <3>2. file[r.by] # Nobody
      BY <2>5 DEF SyncRule, PassAt, Known, r
    <3>3. row'[r.by] # Nobody
      BY <2>1, <2>5, <3>2, SyncedIs
    <3>4. Known(r, file', row')
      BY <2>3, KnownKept
    <3>5. Known(l, file', row')
      BY <2>1, <2>3, <3>3, <3>4 DEF Known, Kept
    <3>. QED  BY <2>2, <2>3, <2>5, <3>1, <3>5, PassMoves
  <2>. QED  BY <1>3, <2>4, <2>5 DEF SyncRule, SyncSource, On, PassGo, r, on
<1>4. CASE NextPair(p)
  <2>1. PICK c \in r.todo :
          \/ pass' = [pass EXCEPT ![p] = [r EXCEPT !.pc = "lock", !.ent = c.ent, !.by = c.by,
                                                   !.todo = r.todo \ {c}]]
          \/ pass' = [pass EXCEPT ![p] = [r EXCEPT !.todo = r.todo \ {c}]]
    <3>1. PICK c \in r.todo :
            pass' = [pass EXCEPT ![p] =
              IF Precheck(c.ent)
              THEN [r EXCEPT !.pc = "lock", !.ent = c.ent, !.by = c.by, !.todo = r.todo \ {c}]
              ELSE [r EXCEPT !.todo = r.todo \ {c}]]
      BY <1>4 DEF NextPair, r
    <3>2. CASE Precheck(c.ent)
      BY <3>1, <3>2
    <3>3. CASE ~Precheck(c.ent)
      BY <3>1, <3>3
    <3>. QED  BY <3>2, <3>3
  <2>2. r.phase = "merge" /\ r.pc = "next" /\ c \in Pair
    BY <1>4, <2>1 DEF NextPair, PassAt, PassOK, r
  <2>3. PICK l : /\ pass' = [pass EXCEPT ![p] = l]
                 /\ \/ l = [r EXCEPT !.pc = "lock", !.ent = c.ent, !.by = c.by, !.todo = r.todo \ {c}]
                    \/ l = [r EXCEPT !.todo = r.todo \ {c}]
    BY <2>1
  <2>4. PassOK(l)
    <3>1. c.ent \in Obs /\ c.by \in Obs /\ c.by \in Entity
      BY <2>2 DEF Pair, Entity
    <3>. QED  BY <2>1, <2>2, <2>3, <3>1 DEF PassOK, PassLocals, PassSteps
  <2>5. Known(l, file, row)
    BY <2>1, <2>2, <2>3 DEF Known, PassLocals, Pair
  <2>6. UNCHANGED <<file, row, writer>>
    BY <1>4 DEF NextPair, store
  <2>. QED  BY <2>3, <2>4, <2>5, <2>6, PassMoves DEF Files, Rows, Kept
<1>5. CASE CheckSource(p) \/ LockForSupersede(p)
  <2>1. /\ r.ent \in Obs /\ (r.by \in IF r.phase = "promote" THEN Rule ELSE Obs)
        /\ row[r.ent] # Nobody /\ row[r.by] # Nobody
    BY <1>5 DEF CheckSource, LockForSupersede, PassAt, PassOK, Known, r
  <2>2. PICK l : /\ pass' = [pass EXCEPT ![p] = l]
                 /\ l = on \/ \E s \in {"lock", "supersede"} : l = [r EXCEPT !.pc = s]
    BY <1>5 DEF CheckSource, LockForSupersede, On, PassGo, r, on
  <2>3. PassOK(l) /\ Known(l, file, row)
    BY <1>0, <2>1, <2>2 DEF PassOK, PassLocals, PassSteps, Known
  <2>4. UNCHANGED <<file, row, writer>>
    BY <1>5 DEF CheckSource, LockForSupersede, store
  <2>. QED  BY <2>2, <2>3, <2>4, PassMoves DEF Files, Rows, Kept
<1>6. CASE Supersede(p)
  <2>1. /\ r.ent \in Obs /\ r.ent \in Entity /\ r.by \in Entity
        /\ row[r.ent] # Nobody /\ row[r.by] # Nobody
        /\ (r.by \in IF r.phase = "promote" THEN Rule ELSE Obs)
    BY <1>6 DEF Supersede, PassAt, PassOK, Known, Entity, r
  <2>2. PICK d : d = [file[r.ent] EXCEPT !.status = "superseded", !.by = r.by]
    OBVIOUS
  <2>3. file' = [file EXCEPT ![r.ent] = d] /\ UNCHANGED <<row, writer>>
    BY <1>6, <2>2 DEF Supersede, r
  <2>4. file[r.ent] \in Doc
    BY <2>1 DEF Rows, Files
  <2>5. d \in Doc /\ d # Nobody
    BY <2>1, <2>2, <2>4, DocIs DEF Status
  <2>6. Files' /\ Rows' /\ Kept
    BY <2>3, <2>5 DEF Files, Rows, Kept
  <2>. DEFINE l == [r EXCEPT !.pc = "syncsource"]
  <2>7. PassOK(l) /\ Known(l, file, row)
    BY <2>1 DEF PassOK, PassLocals, PassSteps, Known
  <2>8. pass' = [pass EXCEPT ![p] = l]
    BY <1>6 DEF Supersede, PassGo, r
  <2>. HIDE DEF l
  <2>9. Known(l, file', row')
    BY <2>6, <2>7, KnownKept
  <2>. QED  BY <2>3, <2>6, <2>7, <2>8, <2>9, PassMoves
<1>. QED  BY <1>1, <1>2, <1>3, <1>4, <1>5, <1>6 DEF PassStep

LEMMA LocalsKept ==
  ASSUME Locals, Kept, UNCHANGED <<writer, pass>>
  PROVE  Locals'
<1>1. \A v \in Obs : v \in Entity
  BY DEF Entity
<1>2. \A p \in Pass : Known(pass[p], file', row')
  BY KnownKept DEF Locals
<1>. QED  BY <1>1, <1>2 DEF Locals, Kept

LEMMA OtherStore ==
  ASSUME Files, Locals, Rows, Crash \/ Reject \/ Index \/ UNCHANGED vars
  PROVE  Files' /\ Locals' /\ Rows' /\ Kept
<1>1. CASE Crash
  <2>1. UNCHANGED <<file, row>>
    BY <1>1 DEF Crash, store
  <2>2. CASE \E w \in Obs : WriterGo(w, "failed") /\ UNCHANGED pass
    <3>1. PICK w \in Obs : WriterGo(w, "failed") /\ UNCHANGED pass
      BY <2>2
    <3>. DEFINE l == [writer[w] EXCEPT !.pc = "failed"]
    <3>2. l \in WriterLocals /\ l.pc = "failed"
      BY DEF Locals, WriterLocals, WriterSteps
    <3>3. writer' = [writer EXCEPT ![w] = l]
      BY <3>1 DEF WriterGo
    <3>. QED  BY <2>1, <3>1, <3>2, <3>3, WriterMoves DEF Files, Rows, Kept
  <2>3. CASE \E p \in Pass : pass' = [pass EXCEPT ![p] = Idle] /\ UNCHANGED writer
    <3>1. PassOK(Idle) /\ Known(Idle, file, row)
      BY DEF PassOK, PassLocals, PassSteps, Idle, Known
    <3>. QED  BY <2>1, <2>3, <3>1, PassMoves DEF Files, Rows, Kept
  <2>. QED  BY <1>1, <2>2, <2>3 DEF Crash
<1>2. CASE Reject
  <2>1. PICK e \in Entity :
          /\ Active(e)
          /\ file' = [file EXCEPT ![e].status = "rejected"]
          /\ row' = [row EXCEPT ![e] = [file[e] EXCEPT !.status = "rejected"]]
    BY <1>2 DEF Reject
  <2>2. PICK d : d = [file[e] EXCEPT !.status = "rejected"]
    OBVIOUS
  <2>3. file[e] \in Doc
    BY <2>1 DEF Active, Rows, Files
  <2>4. d \in Doc /\ d # Nobody /\ file' = [file EXCEPT ![e] = d] /\ row' = [row EXCEPT ![e] = d]
    BY <2>1, <2>2, <2>3, DocIs DEF Status
  <2>5. Files' /\ Rows' /\ Kept /\ UNCHANGED <<writer, pass>>
    BY <1>2, <2>4 DEF Reject, Files, Rows, Kept
  <2>. QED  BY <2>5, LocalsKept
<1>3. CASE Index
  <2>1. RowsSynced /\ UNCHANGED <<file, writer, pass>>
    BY <1>3, IndexIs DEF Index
  <2>. QED  BY <2>1, RowsSyncedKeeps, LocalsKept
<1>4. CASE UNCHANGED vars
  BY <1>4 DEF vars, store, Files, Rows, Locals, Kept
<1>. QED  BY <1>1, <1>2, <1>3, <1>4

LEMMA StoreNext ==
  Files /\ Locals /\ Rows /\ [Next]_vars => Files' /\ Locals' /\ Rows' /\ Kept
  BY WriterStore, PassStore, OtherStore DEF Next

-----------------------------------------------------------------------------
(* Supersession.                                                           *)

\* An observation is superseded by a rule or by an earlier observation that it
\* is similar to.
Later(e, b) ==
  /\ e \in Obs
  /\ b \in Rule \/ (b \in Obs /\ {e, b} \in Similar /\ Created[b] <= Created[e])

Claimed(d, e, rows) ==
  d # Nobody /\ d.status = "superseded" => Later(e, d.by) /\ rows[d.by] # Nobody

Chosen(l) ==
  /\ l.phase = "merge" => \A c \in l.todo : Later(c.ent, c.by)
  /\ l.pc \in {"precheck", "lock", "supersede", "syncsource"} => Later(l.ent, l.by)

Claims ==
  /\ \A e \in Entity : Claimed(file[e], e, row) /\ Claimed(row[e], e, row)
  /\ \A p \in Pass : Chosen(pass[p])

LEMMA LaterIs ==
  ASSUME NEW e, NEW b, Later(e, b)
  PROVE  e \in Entity /\ b \in Entity
  BY DEF Later, Entity

\* Every new file or row is claimed, and every pass that moves has chosen well.
LEMMA ClaimsStep ==
  ASSUME Claims, Kept,
         \A e \in Entity : file'[e] = file[e] \/ Claimed(file'[e], e, row),
         \A e \in Entity : row'[e] \in {row[e], file[e]} \/ Claimed(row'[e], e, row),
         \A p \in Pass : pass'[p] = pass[p] \/ Chosen(pass'[p])
  PROVE  Claims'
<1>1. ASSUME NEW d, NEW e, Claimed(d, e, row)
      PROVE  Claimed(d, e, row')
  BY <1>1, LaterIs DEF Claimed, Kept
<1>2. ASSUME NEW e \in Entity
      PROVE  Claimed(file'[e], e, row') /\ Claimed(row'[e], e, row')
  BY <1>1 DEF Claims
<1>3. \A p \in Pass : Chosen(pass'[p])
  BY DEF Claims
<1>. QED  BY <1>2, <1>3 DEF Claims

LEMMA ClaimsInit == Init => Claims
<1>. SUFFICES ASSUME Init PROVE Claims
  OBVIOUS
<1>1. PICK here \in Scenario :
        /\ file = [e \in Entity |-> IF e \in here.seed THEN NewDoc(Nobody, Supports[e]) ELSE Nobody]
        /\ row = file
        /\ pass = [p \in Pass |-> IF p \in here.passes THEN Idle ELSE Away]
  BY DEF Init, NewDoc
<1>2. \A e \in Entity : Claimed(file[e], e, row) /\ Claimed(row[e], e, row)
  BY <1>1 DEF Claimed, NewDoc
<1>3. \A p \in Pass : Chosen(pass[p])
  BY <1>1 DEF Idle, Away, Chosen
<1>. QED  BY <1>2, <1>3 DEF Claims

LEMMA WriterClaims ==
  ASSUME Files, Locals, Rows, Claims, Kept, NEW w \in Obs, WriterStep(w)
  PROVE  Claims'
<1>. w \in Entity
  BY DEF Entity
<1>1. UNCHANGED pass
  BY DEF WriterStep, WriteFile, SyncFile, StoreAndCheck, FetchAndClassify, LockForRecord,
         RecordContradicts, SyncRecord
<1>2. CASE WriteFile(w)
  <2>1. file' = [file EXCEPT ![w] = NewDoc(Nobody, Supports[w])] /\ UNCHANGED row
    BY <1>2 DEF WriteFile, NewDoc
  <2>2. Claimed(NewDoc(Nobody, Supports[w]), w, row)
    BY DEF Claimed, NewDoc
  <2>. QED  BY <1>1, <2>1, <2>2, ClaimsStep DEF Files
<1>3. CASE SyncFile(w) \/ SyncRecord(w)
  <2>1. UNCHANGED file /\ (UNCHANGED row \/ RowsSynced)
    BY <1>3, SyncedIs DEF SyncFile, SyncRecord
  <2>. QED  BY <1>1, <2>1, ClaimsStep DEF RowsSynced
<1>4. CASE RecordContradicts(w)
  <2>1. PICK d : d = [file[w] EXCEPT !.contra = writer[w].contra]
    OBVIOUS
  <2>2. file[w] \in Doc
    BY <1>4 DEF RecordContradicts, WriterAt, Locals, Files
  <2>3. Claimed(d, w, row)
    BY <2>1, <2>2, NobodyAssumption DEF Claims, Claimed, Doc
  <2>4. file' = [file EXCEPT ![w] = d] /\ UNCHANGED row
    BY <1>4, <2>1 DEF RecordContradicts
  <2>. QED  BY <1>1, <2>3, <2>4, ClaimsStep DEF Files
<1>5. CASE StoreAndCheck(w) \/ FetchAndClassify(w) \/ LockForRecord(w)
  <2>1. UNCHANGED <<file, row>>
    BY <1>5 DEF StoreAndCheck, FetchAndClassify, LockForRecord, store
  <2>. QED  BY <1>1, <2>1, ClaimsStep
<1>. QED  BY <1>2, <1>3, <1>4, <1>5 DEF WriterStep

LEMMA PassClaims ==
  ASSUME Files, Locals, Rows, Claims, Kept, NEW p \in Pass, PassStep(p)
  PROVE  Claims'
<1>. DEFINE r == pass[p]
<1>0. r \in PassLocals /\ PassOK(r) /\ Known(r, file, row) /\ Chosen(r)
  BY DEF Locals, Claims
<1>. HIDE DEF r
<1>. DEFINE on == [r EXCEPT !.pc = "next", !.ent = Nobody, !.by = Nobody]
<1>a. Chosen(on)
  BY <1>0 DEF Chosen, PassLocals
<1>. HIDE DEF on
<1>b. ASSUME NEW l, pass' = [pass EXCEPT ![p] = l], Chosen(l)
      PROVE  \A q \in Pass : pass'[q] = pass[q] \/ Chosen(pass'[q])
  BY <1>b DEF Locals
<1>1. CASE StartPass(p)
  <2>. DEFINE l == [r EXCEPT !.pc = "edges", !.seen = {o \in Obs : Active(o)}]
  <2>1. pass' = [pass EXCEPT ![p] = l] /\ UNCHANGED <<file, row>>
    BY <1>1 DEF StartPass, store, r
  <2>2. Chosen(l)
    BY <1>0 DEF Chosen, PassLocals
  <2>. HIDE DEF l
  <2>. QED  BY <1>b, <2>1, <2>2, ClaimsStep
<1>2. CASE ReadEdges(p)
  <2>. DEFINE t == PromotionCandidates(r.seen)
              l == [r EXCEPT !.pc = "next", !.todo = t]
  <2>. HIDE DEF t
  <2>1. pass' = [pass EXCEPT ![p] = l] /\ UNCHANGED <<file, row>> /\ r.pc = "edges"
    BY <1>2 DEF ReadEdges, PassAt, store, r, t
  <2>2. Chosen(l)
    BY <1>0, <2>1 DEF Chosen, PassLocals, PassOK
  <2>. HIDE DEF l
  <2>. QED  BY <1>b, <2>1, <2>2, ClaimsStep
<1>3. CASE WriteRule(p)
  <2>1. PICK c \in r.todo, u \in Rule :
          /\ file' = [file EXCEPT ![u] = NewDoc(c.ent, c.sup)]
          /\ pass' = [pass EXCEPT ![p] = [r EXCEPT !.pc = "syncrule", !.ent = c.ent, !.by = u,
                                                   !.todo = r.todo \ {c}]]
          /\ UNCHANGED row
    BY <1>3 DEF WriteRule, NewDoc, r
  <2>. DEFINE l == [r EXCEPT !.pc = "syncrule", !.ent = c.ent, !.by = u, !.todo = r.todo \ {c}]
  <2>2. Chosen(l)
    BY <1>0 DEF Chosen, PassLocals
  <2>3. Claimed(NewDoc(c.ent, c.sup), u, row) /\ u \in Entity
    BY DEF Claimed, NewDoc, Entity
  <2>4. pass' = [pass EXCEPT ![p] = l]
    BY <2>1
  <2>. HIDE DEF l
  <2>. QED  BY <1>b, <2>1, <2>2, <2>3, <2>4, ClaimsStep DEF Files
<1>4. CASE SyncRule(p) \/ SyncSource(p)
  <2>1. r.by \in Entity /\ r.ent \in Entity
    BY <1>0, <1>4 DEF SyncRule, SyncSource, PassAt, PassOK, Entity, r
  <2>2. UNCHANGED file /\ (UNCHANGED row \/ RowsSynced)
    BY <1>4, <2>1, SyncedIs DEF SyncRule, SyncSource, r
  <2>3. \/ pass' = [pass EXCEPT ![p] = on]
        \/ SyncRule(p) /\ pass' = [pass EXCEPT ![p] = [r EXCEPT !.pc = "precheck"]]
    BY <1>4 DEF SyncRule, SyncSource, On, PassGo, r, on
  <2>4. SyncRule(p) => Chosen([r EXCEPT !.pc = "precheck"])
    BY <1>0 DEF SyncRule, PassAt, PassOK, Chosen, Later, PassLocals, r
  <2>5. \A q \in Pass : pass'[q] = pass[q] \/ Chosen(pass'[q])
    BY <1>a, <1>b, <2>3, <2>4
  <2>. QED  BY <2>2, <2>5, ClaimsStep DEF RowsSynced
<1>5. CASE EndPromotion(p) \/ EndMerge(p)
  <2>1. PICK l : /\ pass' = [pass EXCEPT ![p] = l]
                 /\ \/ l = Idle
                    \/ l = [Idle EXCEPT !.pc = "vectors", !.phase = "merge",
                                        !.seen = {o \in Obs : Active(o)}]
    BY <1>5 DEF EndPromotion, EndMerge
  <2>2. /\ Idle.todo = {} /\ Idle.pc = "idle"
        /\ \A S : LET m == [Idle EXCEPT !.pc = "vectors", !.phase = "merge", !.seen = S]
                 IN  m.todo = {} /\ m.pc = "vectors"
    BY DEF Idle
  <2>3. l.todo = {} /\ l.pc \in {"idle", "vectors"}
    <3>1. CASE l = Idle
      BY <2>2, <3>1
    <3>2. CASE l # Idle
      <4>1. l = [Idle EXCEPT !.pc = "vectors", !.phase = "merge", !.seen = {o \in Obs : Active(o)}]
        BY <2>1, <3>2
      <4>. QED  BY <2>2, <4>1
    <3>. QED  BY <3>1, <3>2
  <2>5. Chosen(l)
    BY <2>3 DEF Chosen
  <2>4. UNCHANGED <<file, row>>
    BY <1>5 DEF EndPromotion, EndMerge, store
  <2>. QED  BY <1>b, <2>1, <2>4, <2>5, ClaimsStep
<1>6. CASE ReadPairs(p)
  <2>. DEFINE t == MergeCandidates(r.seen)
              l == [r EXCEPT !.pc = "next", !.seen = {}, !.todo = t]
  <2>1. \A c \in t : Later(c.ent, c.by)
    BY <1>0 DEF MergeCandidates, Later, PassLocals
  <2>. HIDE DEF t
  <2>2. pass' = [pass EXCEPT ![p] = l] /\ UNCHANGED <<file, row>>
    BY <1>6 DEF ReadPairs, store, r, t
  <2>3. Chosen(l)
    BY <1>0, <2>1 DEF Chosen, PassLocals
  <2>. HIDE DEF l
  <2>. QED  BY <1>b, <2>2, <2>3, ClaimsStep
<1>7. CASE NextPair(p)
  <2>1. PICK c \in r.todo :
          pass' = [pass EXCEPT ![p] =
            IF Precheck(c.ent)
            THEN [r EXCEPT !.pc = "lock", !.ent = c.ent, !.by = c.by, !.todo = r.todo \ {c}]
            ELSE [r EXCEPT !.todo = r.todo \ {c}]]
    BY <1>7 DEF NextPair, r
  <2>2. PICK l : /\ pass' = [pass EXCEPT ![p] = l]
                 /\ \/ l = [r EXCEPT !.pc = "lock", !.ent = c.ent, !.by = c.by, !.todo = r.todo \ {c}]
                    \/ l = [r EXCEPT !.todo = r.todo \ {c}]
    <3>1. CASE Precheck(c.ent)
      BY <2>1, <3>1
    <3>2. CASE ~Precheck(c.ent)
      BY <2>1, <3>2
    <3>. QED  BY <3>1, <3>2
  <2>3. r.phase = "merge" /\ UNCHANGED <<file, row>>
    BY <1>7 DEF NextPair, store, r
  <2>4. Chosen(l)
    BY <1>0, <2>2, <2>3 DEF Chosen, PassLocals
  <2>. QED  BY <1>b, <2>2, <2>3, <2>4, ClaimsStep
<1>8. CASE CheckSource(p) \/ LockForSupersede(p)
  <2>1. PICK l : /\ pass' = [pass EXCEPT ![p] = l]
                 /\ l = on \/ \E s \in {"lock", "supersede"} : l = [r EXCEPT !.pc = s]
    BY <1>8 DEF CheckSource, LockForSupersede, On, PassGo, r, on
  <2>2. r.pc \in {"precheck", "lock"} /\ UNCHANGED <<file, row>>
    BY <1>8 DEF CheckSource, LockForSupersede, PassAt, store, r
  <2>3. Chosen(l)
    BY <1>0, <1>a, <2>1, <2>2 DEF Chosen, PassLocals
  <2>. QED  BY <1>b, <2>1, <2>2, <2>3, ClaimsStep
<1>9. CASE Supersede(p)
  <2>1. r.ent \in Entity /\ Later(r.ent, r.by) /\ row[r.ent] # Nobody /\ row[r.by] # Nobody
    BY <1>0, <1>9, LaterIs DEF Supersede, PassAt, Chosen, Known, r
  <2>2. PICK d : d = [file[r.ent] EXCEPT !.status = "superseded", !.by = r.by]
    OBVIOUS
  <2>3. file[r.ent] \in Doc
    BY <2>1 DEF Rows, Files
  <2>4. d.by = r.by
    BY <2>2, <2>3 DEF Doc
  <2>5. Claimed(d, r.ent, row)
    BY <2>1, <2>4 DEF Claimed
  <2>6. file' = [file EXCEPT ![r.ent] = d] /\ UNCHANGED row
    BY <1>9, <2>2 DEF Supersede, r
  <2>. DEFINE l == [r EXCEPT !.pc = "syncsource"]
  <2>7. Chosen(l)
    BY <1>0, <2>1 DEF Chosen, PassLocals
  <2>8. pass' = [pass EXCEPT ![p] = l]
    BY <1>9 DEF Supersede, PassGo, r
  <2>. HIDE DEF l
  <2>. QED  BY <1>b, <2>5, <2>6, <2>7, <2>8, ClaimsStep DEF Files
<1>. QED  BY <1>1, <1>2, <1>3, <1>4, <1>5, <1>6, <1>7, <1>8, <1>9 DEF PassStep

LEMMA OtherClaims ==
  ASSUME Files, Locals, Rows, Claims, Kept, Crash \/ Reject \/ Index \/ UNCHANGED vars
  PROVE  Claims'
<1>1. CASE Crash
  <2>1. UNCHANGED <<file, row>>
    BY <1>1 DEF Crash, store
  <2>2. UNCHANGED pass \/ \E p \in Pass : pass' = [pass EXCEPT ![p] = Idle]
    BY <1>1 DEF Crash
  <2>3. Chosen(Idle)
    BY DEF Chosen, Idle
  <2>4. \A q \in Pass : pass'[q] = pass[q] \/ Chosen(pass'[q])
    BY <2>2, <2>3 DEF Locals
  <2>. QED  BY <2>1, <2>4, ClaimsStep
<1>2. CASE Reject
  <2>1. PICK e \in Entity :
          /\ Active(e)
          /\ file' = [file EXCEPT ![e].status = "rejected"]
          /\ row' = [row EXCEPT ![e] = [file[e] EXCEPT !.status = "rejected"]]
    BY <1>2 DEF Reject
  <2>2. PICK d : d = [file[e] EXCEPT !.status = "rejected"]
    OBVIOUS
  <2>3. file[e] \in Doc
    BY <2>1 DEF Active, Rows, Files
  <2>4. Claimed(d, e, row) /\ file' = [file EXCEPT ![e] = d] /\ row' = [row EXCEPT ![e] = d]
    BY <2>1, <2>2, <2>3 DEF Claimed, Doc
  <2>. QED  BY <1>2, <2>4, ClaimsStep DEF Reject, Files
<1>3. CASE Index
  BY <1>3, IndexIs, ClaimsStep DEF Index, RowsSynced
<1>4. CASE UNCHANGED vars
  BY <1>4, ClaimsStep DEF vars, store
<1>. QED  BY <1>1, <1>2, <1>3, <1>4

LEMMA ClaimsNext ==
  Files /\ Locals /\ Rows /\ Claims /\ [Next]_vars => Claims'
  BY StoreNext, WriterClaims, PassClaims, OtherClaims DEF Next

\* Two observations that say the same were not created at the same instant.
DistinctTimes == \A a, b \in Obs : {a, b} \in Similar => Created[a] # Created[b]

\* A set of observations has an earliest.
LEMMA EarliestExists ==
  ASSUME NEW S \in SUBSET Obs, S # {}
  PROVE  \E e \in S : \A x \in S : ~(Created[x] < Created[e])
<1>. DEFINE T == {Created[x] : x \in S}
            R == OpToRel(<, Nat)
<1>1. T \subseteq Nat /\ T # {}
  BY ObservationAssumption
<1>2. \A x, y \in Nat : x < y => <<x, y>> \in R
  BY DEF OpToRel
<1>3. IsWellFoundedOn(R, Nat)
  BY NatLessThanWellFounded
<1>. HIDE DEF R
<1>4. \E t \in T : \A u \in T : <<u, t>> \notin R
  BY <1>1, <1>3, WFMin
<1>. QED  BY <1>1, <1>2, <1>4

LEMMA ClaimsSurvive ==
  ASSUME DistinctTimes, Claims
  PROVE  ClaimSurvives
<1>. DEFINE gone == {e \in Entity : row[e] # Nobody /\ row[e].status = "superseded"}
<1>1. \A e \in gone : Later(e, row[e].by) /\ row[row[e].by] # Nobody
  BY DEF Claims, Claimed
<1>2. \A e \in gone : row[e].by # Nobody
  BY <1>1, LaterIs, NobodyAssumption
<1>3. ASSUME NEW S \in (SUBSET gone) \ {{}}, \A e \in S : row[e].by \in S
      PROVE  FALSE
  <2>1. \A e \in S : Later(e, row[e].by) /\ Later(row[e].by, row[row[e].by].by)
    BY <1>1, <1>3
  <2>2. \A e \in S : e \in Obs /\ row[e].by \in S \cap Obs
    BY <1>3, <2>1 DEF Later
  <2>3. \A e \in S : {e, row[e].by} \in Similar /\ Created[row[e].by] <= Created[e]
    BY <2>1, <2>2, IdAssumption DEF Later
  <2>4. \A e \in S : Created[row[e].by] < Created[e]
    <3>. SUFFICES ASSUME NEW e \in S PROVE Created[row[e].by] < Created[e]
      OBVIOUS
    <3>. DEFINE m == Created[row[e].by]
                n == Created[e]
    <3>1. m \in Nat /\ n \in Nat
      BY <2>2, ObservationAssumption
    <3>2. m # n
      BY <2>2, <2>3 DEF DistinctTimes
    <3>3. m <= n
      BY <2>3
    <3>. HIDE DEF m, n
    <3>4. m < n
      BY <3>1, <3>2, <3>3
    <3>. QED  BY <3>4 DEF m, n
  <2>5. S \in SUBSET Obs
    BY <1>3, <2>2
  <2>6. S # {}
    BY <1>3
  <2>. QED  BY <2>2, <2>4, <2>5, <2>6, EarliestExists
<1>. QED  BY <1>1, <1>2, <1>3 DEF ClaimSurvives

(***************************************************************************)
(* No claim is lost by consolidation (merge.rs:3, promote.rs:7): from a    *)
(* superseded entry, superseded_by leads, never in a circle, to one that   *)
(* is not superseded, whatever overlaps, fails or is rejected.  Duplicates *)
(* that were created at the same instant are left out: of such a pair      *)
(* merge.rs takes both orders, and supersedes each by the other.           *)
(***************************************************************************)
THEOREM ClaimsNeverLost ==
  ASSUME DistinctTimes
  PROVE  Spec => []ClaimSurvives
<1>1. Claims => ClaimSurvives
  BY ClaimsSurvive
<1>. QED  BY <1>1, StoreInit, StoreNext, ClaimsInit, ClaimsNext, PTL DEF Spec
-----------------------------------------------------------------------------
(* One observation, one rule.                                              *)

AtWork(l) == l.pc \notin {"idle", "away"}

RuleFor(files, r, o) == files[r] # Nobody /\ files[r].from = o

\* What a pass is about to promote has no rule yet, but for those nobody has
\* seen in the index; and it promotes nothing twice.
Fresh(l, files, late) ==
  /\ l.phase = "promote" => \A c, d \in l.todo : c.ent = d.ent => c = d
  /\ l.phase = "promote" /\ l.pc \in {"next", "syncrule", "precheck", "lock", "supersede", "syncsource"} =>
       \A c \in l.todo, r \in Rule : RuleFor(files, r, c.ent) => r \in late
  /\ l.pc = "syncrule" =>
       /\ RuleFor(files, l.by, l.ent)
       /\ \A c \in l.todo : c.ent # l.ent
       /\ \A r \in Rule \ {l.by} : RuleFor(files, r, l.ent) => r \in late

\* Unless its sync is missing, a rule is in the index, as its file says.
RulesIndexed ==
  \A r \in Rule : /\ row[r] # Nobody => row[r].from = file[r].from
                  /\ file[r] # Nobody => r \in unsynced \/ row[r] # Nobody

OnePass == \A p, q \in Pass : AtWork(pass[p]) /\ AtWork(pass[q]) => p = q

AllFresh == \A p \in Pass : Fresh(pass[p], file, unsynced)

Once == \A r, s \in Rule : /\ r # s /\ file[r] # Nobody /\ file[s] # Nobody
                           /\ file[r].from = file[s].from
                           => {r, s} \cap unsynced # {}

RuleInv == RulesIndexed /\ (overlap \/ (OnePass /\ AllFresh /\ Once))

LEMMA RulesInit == Init => RuleInv
<1>. SUFFICES ASSUME Init PROVE RuleInv
  OBVIOUS
<1>1. PICK here \in Scenario :
        /\ \A e \in Entity \ here.seed : file[e] = Nobody
        /\ row = file
        /\ pass = [p \in Pass |-> IF p \in here.passes THEN Idle ELSE Away]
  BY DEF Init
<1>2. \A r \in Rule : file[r] = Nobody /\ row[r] = Nobody
  BY <1>1, ScenarioAssumption, IdAssumption DEF Entity
<1>3. \A p \in Pass : ~AtWork(pass[p]) /\ Fresh(pass[p], file, unsynced)
  BY <1>1 DEF AtWork, Fresh, Idle, Away
<1>. QED  BY <1>2, <1>3 DEF RuleInv, RulesIndexed, OnePass, AllFresh, Once

\* The files of rules stay where they are, and say what they were derived from.
RuleFilesKept == \A r \in Rule : /\ file[r] # Nobody <=> file'[r] # Nobody
                                 /\ file[r] # Nobody => file'[r].from = file[r].from

RuleRowsKept == \A r \in Rule : /\ row[r] # Nobody => row'[r] # Nobody
                                /\ row'[r] # Nobody => row'[r].from = file'[r].from

LEMMA RowsSyncedRules ==
  ASSUME RulesIndexed, UNCHANGED file, RowsSynced \/ UNCHANGED row
  PROVE  RuleFilesKept /\ RuleRowsKept
  BY DEF RulesIndexed, RowsSynced, RuleFilesKept, RuleRowsKept, Entity

LEMMA RowsKeptRules ==
  ASSUME RulesIndexed, Rows, UNCHANGED row, RuleFilesKept
  PROVE  RuleRowsKept
  BY DEF RulesIndexed, Rows, RuleFilesKept, RuleRowsKept, Entity

\* An observation is not a rule: what happens to its file is nothing to rules.
LEMMA ObservationFile ==
  ASSUME Files, NEW o \in Obs, NEW d, file' = [file EXCEPT ![o] = d]
  PROVE  RuleFilesKept
  BY IdAssumption DEF RuleFilesKept, Files, Entity

LEMMA FreshKept ==
  ASSUME NEW l, PassOK(l), Fresh(l, file, unsynced), RuleFilesKept
  PROVE  Fresh(l, file', unsynced)
<1>1. \A r \in Rule : \A o : RuleFor(file', r, o) <=> RuleFor(file, r, o)
  BY DEF RuleFilesKept, RuleFor
<1>2. l.pc = "syncrule" => l.by \in Rule
  BY DEF PassOK
<1>. QED  BY <1>1, <1>2 DEF Fresh

\* A step that makes no rule, indexes none and starts no pass.
LEMMA RulesQuiet ==
  ASSUME Locals, RuleInv, UNCHANGED <<unsynced, overlap>>, RuleFilesKept, RuleRowsKept,
         \A q \in Pass : \/ pass'[q] = pass[q]
                         \/ /\ PassOK(pass'[q])
                            /\ AtWork(pass'[q]) => AtWork(pass[q])
                            /\ overlap \/ Fresh(pass'[q], file, unsynced)
  PROVE  RuleInv'
<1>1. RulesIndexed'
  BY DEF RuleInv, RulesIndexed, RuleFilesKept, RuleRowsKept
<1>2. CASE overlap
  BY <1>1, <1>2 DEF RuleInv
<1>3. CASE ~overlap
  <2>1. OnePass /\ AllFresh /\ Once
    BY <1>3 DEF RuleInv
  <2>2. OnePass'
    BY <1>3, <2>1 DEF OnePass, AtWork
  <2>3. AllFresh'
    <3>1. \A q \in Pass : PassOK(pass'[q]) /\ Fresh(pass'[q], file, unsynced)
      BY <1>3, <2>1 DEF AllFresh, Locals
    <3>2. \A q \in Pass : Fresh(pass'[q], file', unsynced)
      BY <3>1, FreshKept
    <3>. QED  BY <3>2 DEF AllFresh
  <2>4. Once'
    BY <2>1 DEF Once, RuleFilesKept
  <2>. QED  BY <1>1, <2>2, <2>3, <2>4 DEF RuleInv
<1>. QED  BY <1>2, <1>3

LEMMA WriterRules ==
  ASSUME Files, Locals, Rows, RuleInv, NEW w \in Obs, WriterStep(w)
  PROVE  RuleInv'
<1>. w \in Entity
  BY DEF Entity
<1>1. UNCHANGED <<pass, unsynced, overlap>>
  BY DEF WriterStep, WriteFile, SyncFile, StoreAndCheck, FetchAndClassify, LockForRecord,
         RecordContradicts, SyncRecord, history
<1>2. RuleFilesKept /\ RuleRowsKept
  <2>1. CASE WriteFile(w) \/ RecordContradicts(w)
    <3>1. UNCHANGED row /\ \E d : file' = [file EXCEPT ![w] = d]
      BY <2>1 DEF WriteFile, RecordContradicts
    <3>. QED  BY <3>1, ObservationFile, RowsKeptRules DEF RuleInv
  <2>2. CASE SyncFile(w) \/ SyncRecord(w)
    <3>1. UNCHANGED file /\ (UNCHANGED row \/ RowsSynced)
      BY <2>2, SyncedIs DEF SyncFile, SyncRecord
    <3>. QED  BY <3>1, RowsSyncedRules DEF RuleInv
  <2>3. CASE StoreAndCheck(w) \/ FetchAndClassify(w) \/ LockForRecord(w)
    <3>1. UNCHANGED <<file, row>>
      BY <2>3 DEF StoreAndCheck, FetchAndClassify, LockForRecord, store
    <3>. QED  BY <3>1, RowsSyncedRules DEF RuleInv
  <2>. QED  BY <2>1, <2>2, <2>3 DEF WriterStep
<1>. QED  BY <1>1, <1>2, RulesQuiet

LEMMA OtherRules ==
  ASSUME Files, Locals, Rows, RuleInv, Crash \/ Reject \/ Index \/ UNCHANGED vars
  PROVE  RuleInv'
<1>1. UNCHANGED <<unsynced, overlap>>
  BY DEF Crash, Reject, Index, vars, history
<1>2. CASE Crash
  <2>1. RuleFilesKept /\ RuleRowsKept
    BY <1>2, RowsSyncedRules DEF Crash, store, RuleInv
  <2>2. UNCHANGED pass \/ \E p \in Pass : pass' = [pass EXCEPT ![p] = Idle]
    BY <1>2 DEF Crash
  <2>3. PassOK(Idle) /\ ~AtWork(Idle) /\ Fresh(Idle, file, unsynced)
    BY DEF PassOK, PassLocals, PassSteps, AtWork, Fresh, Idle
  <2>4. \A q \in Pass : pass'[q] = pass[q] \/ pass'[q] = Idle
    BY <2>2 DEF Locals
  <2>. QED  BY <1>1, <2>1, <2>3, <2>4, RulesQuiet
<1>3. CASE Reject
  <2>1. PICK e \in Entity :
          /\ Active(e)
          /\ file' = [file EXCEPT ![e].status = "rejected"]
          /\ row' = [row EXCEPT ![e] = [file[e] EXCEPT !.status = "rejected"]]
    BY <1>3 DEF Reject
  <2>2. PICK d : d = [file[e] EXCEPT !.status = "rejected"]
    OBVIOUS
  <2>3. file[e] \in Doc
    BY <2>1 DEF Active, Rows, Files
  <2>4. d \in Doc /\ d # Nobody /\ d.from = file[e].from
    BY <2>2, <2>3, NobodyAssumption DEF Doc, Status
  <2>5. file' = [file EXCEPT ![e] = d] /\ row' = [row EXCEPT ![e] = d]
    BY <2>1, <2>2
  <2>6. RuleFilesKept /\ RuleRowsKept
    BY <2>3, <2>4, <2>5, NobodyAssumption
       DEF RuleFilesKept, RuleRowsKept, Files, Entity, RuleInv, RulesIndexed
  <2>. QED  BY <1>1, <1>3, <2>6, RulesQuiet DEF Reject
<1>4. CASE Index
  BY <1>1, <1>4, IndexIs, RowsSyncedRules, RulesQuiet DEF Index, RuleInv
<1>5. CASE UNCHANGED vars
  BY <1>1, <1>5, RowsSyncedRules, RulesQuiet DEF vars, store, RuleInv
<1>. QED  BY <1>2, <1>3, <1>4, <1>5
\* The steps of a pass that make no rule, index none and do not start it.
LEMMA PassRulesQuiet ==
  ASSUME Files, Locals, Rows, RuleInv, NEW p \in Pass, PassStep(p), Locals',
         ~StartPass(p), ~WriteRule(p), ~(SyncRule(p) /\ ~UNCHANGED unsynced)
  PROVE  RuleInv'
<1>. DEFINE r == pass[p]
<1>0. /\ r \in PassLocals /\ PassOK(r) /\ RulesIndexed
      /\ overlap \/ Fresh(r, file, unsynced)
      /\ \A q \in Pass : q # p => pass'[q] = pass[q]
  BY DEF Locals, PassStep, StartPass, ReadEdges, WriteRule, SyncRule, EndPromotion, ReadPairs,
         NextPair, EndMerge, CheckSource, LockForSupersede, Supersede, SyncSource, On, PassGo,
         RuleInv, AllFresh
<1>. HIDE DEF r
<1>. DEFINE on == [r EXCEPT !.pc = "next", !.ent = Nobody, !.by = Nobody]
<1>1. UNCHANGED <<unsynced, overlap>>
  BY DEF PassStep, StartPass, ReadEdges, WriteRule, SyncRule, EndPromotion, ReadPairs, NextPair,
         EndMerge, CheckSource, LockForSupersede, Supersede, SyncSource, history
<1>2. RuleFilesKept /\ RuleRowsKept
  <2>1. CASE Supersede(p)
    <3>1. r.ent \in Obs
      BY <1>0, <2>1 DEF Supersede, PassAt, PassOK, r
    <3>2. UNCHANGED row /\ \E d : file' = [file EXCEPT ![r.ent] = d]
      BY <2>1 DEF Supersede, r
    <3>. QED  BY <1>0, <3>1, <3>2, ObservationFile, RowsKeptRules
  <2>2. CASE SyncSource(p) \/ SyncRule(p)
    <3>1. r.ent \in Entity /\ r.by \in Entity
      BY <1>0, <2>2 DEF SyncRule, SyncSource, PassAt, PassOK, Entity, r
    <3>2. UNCHANGED file /\ (UNCHANGED row \/ RowsSynced)
      BY <2>2, <3>1, SyncedIs DEF SyncSource, SyncRule, r
    <3>. QED  BY <1>0, <3>2, RowsSyncedRules
  <2>3. CASE ~Supersede(p) /\ ~SyncSource(p) /\ ~SyncRule(p)
    <3>1. UNCHANGED <<file, row>>
      BY <2>3 DEF PassStep, StartPass, ReadEdges, EndPromotion, ReadPairs, NextPair,
                  EndMerge, CheckSource, LockForSupersede, store
    <3>. QED  BY <1>0, <3>1, RowsSyncedRules
  <2>. QED  BY <2>1, <2>2, <2>3
<1>3. AtWork(pass'[p]) => AtWork(r)
  <2>1. CASE EndMerge(p)
    <3>1. pass'[p] = Idle
      BY <2>1 DEF EndMerge, Locals
    <3>. QED  BY <3>1 DEF AtWork, Idle
  <2>2. CASE ~EndMerge(p)
    <3>1. \E s \in {"edges", "next", "syncrule", "vectors", "precheck", "lock", "supersede", "syncsource"} :
            PassAt(p, s)
      BY <2>2 DEF PassStep, StartPass, ReadEdges, WriteRule, SyncRule, EndPromotion, ReadPairs,
                  NextPair, CheckSource, LockForSupersede, Supersede, SyncSource
    <3>. QED  BY <3>1 DEF PassAt, AtWork, r
  <2>. QED  BY <2>1, <2>2
<1>4. overlap \/ Fresh(pass'[p], file, unsynced)
  <2>. SUFFICES ASSUME ~overlap PROVE Fresh(pass'[p], file, unsynced)
    OBVIOUS
  <2>0. Fresh(r, file, unsynced)
    BY <1>0
  <2>1. CASE ReadEdges(p)
    <3>. DEFINE t == PromotionCandidates(r.seen)
                l == [r EXCEPT !.pc = "next", !.todo = t]
    <3>1. \A c, d \in t : c.ent = d.ent => c = d
      BY DEF PromotionCandidates
    <3>2. ASSUME NEW c \in t, NEW u \in Rule, RuleFor(file, u, c.ent), u \notin unsynced
          PROVE  FALSE
      <4>1. row[u] # Nobody /\ row[u].from = c.ent
        BY <1>0, <3>2 DEF RulesIndexed, RuleFor
      <4>2. c.ent \in Obs /\ ~Promoted(c.ent)
        BY <1>0 DEF PromotionCandidates, PassLocals
      <4>3. u \in Entity \ {c.ent}
        BY <4>2, IdAssumption DEF Entity
      <4>. QED  BY <4>1, <4>2, <4>3 DEF Promoted
    <3>. HIDE DEF t
    <3>3. Fresh(l, file, unsynced)
      BY <1>0, <3>1, <3>2 DEF Fresh, PassLocals
    <3>4. pass' = [pass EXCEPT ![p] = l]
      BY <2>1 DEF ReadEdges, r, t
    <3>. HIDE DEF l
    <3>. QED  BY <3>3, <3>4 DEF Locals
  <2>2. CASE EndPromotion(p) \/ EndMerge(p)
    <3>1. \A S : Fresh([Idle EXCEPT !.pc = "vectors", !.phase = "merge", !.seen = S], file, unsynced)
      BY DEF Fresh, Idle
    <3>2. Fresh(Idle, file, unsynced)
      BY DEF Fresh, Idle
    <3>3. \/ pass'[p] = Idle
          \/ pass'[p] = [Idle EXCEPT !.pc = "vectors", !.phase = "merge", !.seen = {o \in Obs : Active(o)}]
      BY <2>2 DEF EndPromotion, EndMerge, Locals
    <3>. QED  BY <3>1, <3>2, <3>3
  <2>3. CASE ReadPairs(p) \/ NextPair(p)
    <3>1. r.phase = "merge" /\ r.pc # "syncrule"
      BY <1>0, <2>3 DEF ReadPairs, NextPair, PassAt, PassOK, r
    <3>2. PICK l \in PassLocals : /\ pass' = [pass EXCEPT ![p] = l]
                                  /\ l.phase = "merge" /\ l.pc # "syncrule"
      <4>1. CASE ReadPairs(p)
        <5>. DEFINE l == [r EXCEPT !.pc = "next", !.seen = {}, !.todo = MergeCandidates(r.seen)]
        <5>1. pass' = [pass EXCEPT ![p] = l] /\ l.phase = "merge" /\ l.pc # "syncrule"
          BY <1>0, <3>1, <4>1 DEF ReadPairs, PassLocals, r
        <5>. HIDE DEF l
        <5>2. l \in PassLocals
          BY <5>1 DEF Locals
        <5>. QED  BY <5>1, <5>2
      <4>2. CASE NextPair(p)
        <5>1. PICK c \in r.todo :
                pass' = [pass EXCEPT ![p] =
                  IF Precheck(c.ent)
                  THEN [r EXCEPT !.pc = "lock", !.ent = c.ent, !.by = c.by, !.todo = r.todo \ {c}]
                  ELSE [r EXCEPT !.todo = r.todo \ {c}]]
          BY <4>2 DEF NextPair, r
        <5>2. PICK l : /\ pass' = [pass EXCEPT ![p] = l]
                       /\ \/ l = [r EXCEPT !.pc = "lock", !.ent = c.ent, !.by = c.by, !.todo = r.todo \ {c}]
                          \/ l = [r EXCEPT !.todo = r.todo \ {c}]
          <6>1. CASE Precheck(c.ent)
            BY <5>1, <6>1
          <6>2. CASE ~Precheck(c.ent)
            BY <5>1, <6>2
          <6>. QED  BY <6>1, <6>2
        <5>3. l.phase = "merge" /\ l.pc # "syncrule"
          BY <1>0, <3>1, <5>2 DEF PassLocals
        <5>4. l \in PassLocals
          BY <5>2 DEF Locals
        <5>. QED  BY <5>2, <5>3, <5>4
      <4>. QED  BY <2>3, <4>1, <4>2
    <3>. QED  BY <3>2 DEF Fresh, Locals
  <2>4. CASE SyncRule(p) \/ CheckSource(p) \/ LockForSupersede(p) \/ Supersede(p) \/ SyncSource(p)
    <3>1. PICK l : /\ pass' = [pass EXCEPT ![p] = l]
                   /\ l = on \/ \E s \in {"precheck", "lock", "supersede", "syncsource"} : l = [r EXCEPT !.pc = s]
      BY <2>4 DEF SyncRule, CheckSource, LockForSupersede, Supersede, SyncSource, On, PassGo, r, on
    <3>2. r.pc \in {"syncrule", "precheck", "lock", "supersede", "syncsource"}
      BY <2>4 DEF SyncRule, CheckSource, LockForSupersede, Supersede, SyncSource, PassAt, r
    <3>3. l.pc \in {"next", "precheck", "lock", "supersede", "syncsource"}
          /\ l.todo = r.todo /\ l.phase = r.phase
      BY <1>0, <3>1 DEF PassLocals
    <3>4. pass'[p] = l
      BY <3>1 DEF Locals
    <3>. QED  BY <2>0, <3>2, <3>3, <3>4 DEF Fresh
  <2>. QED  BY <2>1, <2>2, <2>3, <2>4 DEF PassStep
<1>5. \A q \in Pass : PassOK(pass'[q])
  BY DEF Locals
<1>6. \A q \in Pass : \/ pass'[q] = pass[q]
                      \/ /\ PassOK(pass'[q])
                         /\ AtWork(pass'[q]) => AtWork(pass[q])
                         /\ overlap \/ Fresh(pass'[q], file, unsynced)
  BY <1>0, <1>3, <1>4, <1>5 DEF r
<1>. QED  BY <1>1, <1>2, <1>6, RulesQuiet
\* A pass that is not at work promotes nothing.
LEMMA FreshAway ==
  ASSUME NEW l, ~AtWork(l), NEW files, NEW late, NEW files2, NEW late2, Fresh(l, files, late)
  PROVE  Fresh(l, files2, late2)
  BY DEF Fresh, AtWork

LEMMA StartPassRules ==
  ASSUME Files, Locals, Rows, RuleInv, NEW p \in Pass, StartPass(p)
  PROVE  RuleInv'
<1>. DEFINE l == [pass[p] EXCEPT !.pc = "edges", !.seen = {o \in Obs : Active(o)}]
<1>1. /\ pass' = [pass EXCEPT ![p] = l]
      /\ UNCHANGED <<file, row, unsynced>>
      /\ overlap' = (overlap \/ \E q \in Pass : AtWork(pass[q]))
  BY DEF StartPass, store, PassAt, AtWork
<1>2. RulesIndexed'
  BY <1>1 DEF RuleInv, RulesIndexed
<1>3. CASE overlap \/ \E q \in Pass : AtWork(pass[q])
  BY <1>1, <1>2, <1>3 DEF RuleInv
<1>4. CASE ~overlap /\ \A q \in Pass : ~AtWork(pass[q])
  <2>1. OnePass /\ AllFresh /\ Once
    BY <1>4 DEF RuleInv
  <2>2. Fresh(l, file, unsynced)
    <3>1. /\ pass[p] \in PassLocals /\ PassOK(pass[p]) /\ pass[p].pc = "idle"
          /\ Fresh(pass[p], file, unsynced)
      BY <2>1 DEF Locals, AllFresh, StartPass, PassAt
    <3>2. l.pc = "edges" /\ l.phase = pass[p].phase /\ l.todo = pass[p].todo
      BY <3>1 DEF PassLocals
    <3>. QED  BY <3>1, <3>2 DEF Fresh
  <2>. HIDE DEF l
  <2>3. \A q \in Pass : pass'[q] = IF q = p THEN l ELSE pass[q]
    BY <1>1 DEF Locals
  <2>4. AllFresh'
    BY <1>1, <2>1, <2>2, <2>3 DEF AllFresh
  <2>5. OnePass'
    BY <1>4, <2>3 DEF OnePass
  <2>6. Once'
    BY <1>1, <2>1 DEF Once
  <2>. QED  BY <1>2, <2>4, <2>5, <2>6 DEF RuleInv
<1>. QED  BY <1>3, <1>4

LEMMA WriteRuleRules ==
  ASSUME Files, Locals, Rows, RuleInv, NEW p \in Pass, WriteRule(p)
  PROVE  RuleInv'
<1>. DEFINE r == pass[p]
<1>0. r \in PassLocals /\ PassOK(r) /\ r.phase = "promote" /\ r.pc = "next"
  BY DEF Locals, WriteRule, PassAt
<1>1. PICK c \in r.todo, u \in Rule :
        /\ file[u] = Nobody
        /\ file' = [file EXCEPT ![u] = NewDoc(c.ent, c.sup)]
        /\ unsynced' = unsynced \cup {u}
        /\ pass' = [pass EXCEPT ![p] = [r EXCEPT !.pc = "syncrule", !.ent = c.ent, !.by = u,
                                                 !.todo = r.todo \ {c}]]
        /\ UNCHANGED <<row, overlap>>
  BY DEF WriteRule, NewDoc
<1>. DEFINE l == [r EXCEPT !.pc = "syncrule", !.ent = c.ent, !.by = u, !.todo = r.todo \ {c}]
<1>2. c \in Candidate /\ u \in Entity
  BY <1>0, <1>1 DEF PassOK, Entity
<1>3. NewDoc(c.ent, c.sup) # Nobody /\ NewDoc(c.ent, c.sup).from = c.ent
  BY <1>2, NewDocIs DEF Candidate, NewDoc
<1>4. /\ file'[u] # Nobody /\ file'[u].from = c.ent
      /\ \A s \in Rule \ {u} : file'[s] = file[s]
  BY <1>1, <1>2, <1>3 DEF Files, Entity
<1>5. RulesIndexed'
  BY <1>1, <1>2, <1>4 DEF RuleInv, RulesIndexed, Rows, Entity
<1>6. CASE overlap
  BY <1>1, <1>5, <1>6 DEF RuleInv
<1>7. CASE ~overlap
  <2>1. OnePass /\ AllFresh /\ Once
    BY <1>7 DEF RuleInv
  <2>2. /\ l.phase = "promote" /\ l.pc = "syncrule" /\ l.ent = c.ent /\ l.by = u
        /\ l.todo = r.todo \ {c}
    BY <1>0 DEF PassLocals
  <2>3. pass' = [pass EXCEPT ![p] = l]
    BY <1>1
  <2>4. Fresh(r, file, unsynced) /\ AtWork(r)
    BY <1>0, <2>1 DEF AllFresh, AtWork
  <2>. HIDE DEF l, r
  <2>5. Fresh(l, file', unsynced')
    <3>1. \A d \in l.todo : d.ent # c.ent
      BY <1>0, <1>1, <2>2, <2>4 DEF Fresh
    <3>2. \A s \in Rule, d \in r.todo : RuleFor(file', s, d.ent) => s \in unsynced'
      BY <1>0, <1>1, <1>4, <2>4 DEF Fresh, RuleFor
    <3>3. RuleFor(file', u, c.ent)
      BY <1>4 DEF RuleFor
    <3>4. \A d, e \in l.todo : d.ent = e.ent => d = e
      BY <1>0, <2>2, <2>4 DEF Fresh
    <3>5. \A s \in Rule : RuleFor(file', s, c.ent) => s \in unsynced'
      BY <1>1, <3>2
    <3>. QED  BY <2>2, <3>1, <3>2, <3>3, <3>4, <3>5 DEF Fresh
  <2>6. \A q \in Pass \ {p} : pass'[q] = pass[q] /\ ~AtWork(pass[q])
    BY <2>1, <2>3, <2>4 DEF OnePass, Locals, r
  <2>7. pass'[p] = l
    BY <2>3 DEF Locals
  <2>8. AllFresh'
    <3>1. \A q \in Pass : Fresh(pass'[q], file', unsynced')
      BY <2>1, <2>5, <2>6, <2>7, FreshAway DEF AllFresh
    <3>. QED  BY <3>1 DEF AllFresh
  <2>9. OnePass'
    BY <2>6 DEF OnePass
  <2>10. Once'
    BY <1>1, <1>4, <2>1 DEF Once
  <2>. QED  BY <1>5, <2>8, <2>9, <2>10 DEF RuleInv
<1>. QED  BY <1>6, <1>7

LEMMA SyncRuleRules ==
  ASSUME Files, Locals, Rows, RuleInv, NEW p \in Pass, SyncRule(p), ~UNCHANGED unsynced
  PROVE  RuleInv'
<1>. DEFINE r == pass[p]
            l == [r EXCEPT !.pc = "precheck"]
<1>0. /\ r \in PassLocals /\ PassOK(r) /\ Known(r, file, row)
      /\ r.phase = "promote" /\ r.pc = "syncrule"
  BY DEF Locals, SyncRule, PassAt, PassOK
<1>1. /\ row' = Synced(r.by) /\ unsynced' = unsynced \ {r.by}
      /\ pass' = [pass EXCEPT ![p] = l] /\ UNCHANGED <<file, overlap>>
  BY DEF SyncRule, PassGo
<1>2. r.by \in Rule /\ r.by \in Entity /\ file[r.by] # Nobody
  BY <1>0 DEF PassOK, Known, Entity
<1>3. l.pc = "precheck" /\ l.phase = "promote" /\ l.todo = r.todo
  BY <1>0 DEF PassLocals
<1>. HIDE DEF r, l
<1>4. RowsSynced /\ row'[r.by] # Nobody
  BY <1>1, <1>2, SyncedIs
<1>5. RulesIndexed'
  <2>1. RuleRowsKept
    BY <1>1, <1>4, RowsSyncedRules DEF RuleInv
  <2>. QED  BY <1>1, <1>4, <2>1 DEF RuleInv, RulesIndexed, RuleRowsKept
<1>6. CASE overlap
  BY <1>1, <1>5, <1>6 DEF RuleInv
<1>7. CASE ~overlap
  <2>1. OnePass /\ AllFresh /\ Once
    BY <1>7 DEF RuleInv
  <2>2. Fresh(r, file, unsynced) /\ AtWork(r)
    BY <1>0, <2>1 DEF AllFresh, AtWork, r
  <2>3. Fresh(l, file, unsynced')
    <3>1. \A c \in r.todo, s \in Rule : RuleFor(file, s, c.ent) => s \in unsynced /\ s # r.by
      BY <1>0, <2>2 DEF Fresh, RuleFor
    <3>2. \A c, d \in r.todo : c.ent = d.ent => c = d
      BY <1>0, <2>2 DEF Fresh
    <3>. QED  BY <1>1, <1>3, <3>1, <3>2 DEF Fresh
  <2>4. \A q \in Pass \ {p} : pass'[q] = pass[q] /\ ~AtWork(pass[q])
    BY <1>1, <2>1, <2>2 DEF OnePass, Locals, r
  <2>5. pass'[p] = l
    BY <1>1 DEF Locals
  <2>6. AllFresh'
    <3>1. \A q \in Pass : Fresh(pass'[q], file, unsynced')
      BY <2>1, <2>3, <2>4, <2>5, FreshAway DEF AllFresh
    <3>. QED  BY <1>1, <3>1 DEF AllFresh
  <2>7. OnePass'
    BY <2>4 DEF OnePass
  <2>8. Once'
    <3>1. \A s \in Rule \ {r.by} : file[s] # Nobody /\ file[s].from = file[r.by].from => s \in unsynced
      BY <1>0, <2>2 DEF Fresh, RuleFor
    <3>2. SUFFICES ASSUME NEW s \in Rule, NEW t \in Rule, s # t, file[s] # Nobody, file[t] # Nobody,
                          file[s].from = file[t].from
                   PROVE  {s, t} \cap unsynced' # {}
      BY <1>1 DEF Once
    <3>3. {s, t} \cap unsynced # {}
      BY <2>1, <3>2 DEF Once
    <3>. QED  BY <1>1, <3>1, <3>2, <3>3
  <2>. QED  BY <1>5, <2>6, <2>7, <2>8 DEF RuleInv
<1>. QED  BY <1>6, <1>7

LEMMA RulesNext ==
  Files /\ Locals /\ Rows /\ RuleInv /\ [Next]_vars => RuleInv'
<1>. SUFFICES ASSUME Files, Locals, Rows, RuleInv, [Next]_vars PROVE RuleInv'
  OBVIOUS
<1>1. ASSUME NEW p \in Pass, PassStep(p) PROVE RuleInv'
  <2>1. Locals'
    BY <1>1, PassStore
  <2>. QED  BY <1>1, <2>1, StartPassRules, WriteRuleRules, SyncRuleRules, PassRulesQuiet
<1>. QED  BY <1>1, WriterRules, OtherRules DEF Next

(***************************************************************************)
(* Promotion makes a second rule of one observation only when two passes   *)
(* ran at once or the sync of the first rule's file is missing             *)
(* (promote.rs:116, :150).                                                 *)
(***************************************************************************)
THEOREM SecondRuleExplained == Spec => []SecondRuleNeedsCause
<1>1. RuleInv => SecondRuleNeedsCause
  BY DEF RuleInv, Once, SecondRuleNeedsCause
<1>. QED  BY <1>1, StoreInit, StoreNext, RulesInit, RulesNext, PTL DEF Spec
-----------------------------------------------------------------------------
(* One of two is warned.                                                   *)

Compared == {"fetch", "lock", "record", "syncrecord", "done"}
Classified == {"lock", "record", "syncrecord", "done"}

\* Nothing here makes an entry stale, the one status that leads back to active.
NoneStale == \A e \in Entity : /\ file[e] # Nobody => file[e].status # "stale"
                               /\ row[e] # Nobody => row[e].status # "stale"

\* A writer has a row before it looks for others, and a vector when it has looked.
Seen == \A w \in Obs : /\ writer[w].pc \in {"check"} \cup Compared => row[w] # Nobody
                       /\ writer[w].pc \in Compared /\ w \in Embeds => w \in vector

Alike(v, w) == \/ {v, w} \in SameTitle
               \/ {v, w} \in Similar /\ {v, w} \subseteq Embeds

Told == \A v, w \in Obs : v # w /\ Active(v) /\ Active(w) =>
  /\ writer[v].pc \in Compared /\ writer[w].pc \in Compared /\ Alike(v, w)
       => writer[v].dup \/ writer[w].dup
  /\ writer[v].pc \in Classified /\ writer[w].pc \in Classified /\ {v, w} \in Opposed
       => writer[v].contra \cup writer[w].contra # {}

WarnInv == NoneStale /\ Seen /\ Told

LEMMA WarnInit == Init => WarnInv
<1>. SUFFICES ASSUME Init PROVE WarnInv
  OBVIOUS
<1>1. PICK here \in Scenario :
        /\ file = [e \in Entity |-> IF e \in here.seed THEN NewDoc(Nobody, Supports[e]) ELSE Nobody]
        /\ row = file
        /\ \A w \in Obs : writer[w].pc \in {"seed", "file"}
  BY DEF Init, NewDoc
<1>2. \A e \in here.seed : NewDoc(Nobody, Supports[e]).status = "active"
  BY DEF NewDoc
<1>3. NoneStale
  BY <1>1, <1>2 DEF NoneStale
<1>. QED  BY <1>1, <1>3 DEF WarnInv, Seen, Told, Compared, Classified

NoRevival ==
  \A e \in Entity : row[e] # Nobody /\ row'[e].status = "active" => row[e].status = "active"

LEMMA RowsSyncedWarn ==
  ASSUME NoneStale, UNCHANGED file, RowsSynced \/ UNCHANGED row
  PROVE  NoneStale' /\ NoRevival
<1>1. \A s : CanMove(s, "active") => s = "stale"
  BY DEF CanMove
<1>. QED  BY <1>1 DEF NoneStale, NoRevival, RowsSynced, Syncable

\* A file that is not there, or is rewritten with a status but stale.
LEMMA FileWarn ==
  ASSUME Files, NoneStale, NEW e \in Entity, NEW d, d.status # "stale",
         file' = [file EXCEPT ![e] = d], UNCHANGED row
  PROVE  NoneStale' /\ NoRevival
  BY DEF Files, NoneStale, NoRevival

\* A step in which no writer compares or classifies.
LEMMA WarnQuiet ==
  ASSUME WarnInv, NoneStale', NoRevival, Kept, vector \subseteq vector',
         \A w \in Obs : /\ writer'[w].pc = "check" => row'[w] # Nobody
                        /\ writer'[w].pc \in Compared => /\ writer[w].pc \in Compared
                                                         /\ writer'[w].dup = writer[w].dup
                        /\ writer'[w].pc \in Classified => /\ writer[w].pc \in Classified
                                                           /\ writer'[w].contra = writer[w].contra
  PROVE  WarnInv'
<1>1. \A w \in Obs : w \in Entity
  BY DEF Entity
<1>2. Seen'
  BY <1>1 DEF WarnInv, Seen, Kept
<1>3. \A w \in Obs : writer[w].pc \in Compared \cup Classified /\ row'[w].status = "active" => Active(w)
  BY <1>1 DEF WarnInv, Seen, NoRevival, Active, Compared, Classified
<1>4. Told'
  <2>. SUFFICES ASSUME NEW v \in Obs, NEW w \in Obs, v # w,
                       row'[v].status = "active", row'[w].status = "active"
                PROVE  /\ writer'[v].pc \in Compared /\ writer'[w].pc \in Compared /\ Alike(v, w)
                            => writer'[v].dup \/ writer'[w].dup
                       /\ writer'[v].pc \in Classified /\ writer'[w].pc \in Classified
                          /\ {v, w} \in Opposed
                            => writer'[v].contra \cup writer'[w].contra # {}
    BY DEF Told, Active, Alike
  <2>1. ASSUME writer'[v].pc \in Compared, writer'[w].pc \in Compared, Alike(v, w)
        PROVE  writer'[v].dup \/ writer'[w].dup
    <3>1. Active(v) /\ Active(w) /\ writer[v].pc \in Compared /\ writer[w].pc \in Compared
      BY <1>3, <2>1
    <3>2. writer[v].dup \/ writer[w].dup
      BY <2>1, <3>1 DEF WarnInv, Told
    <3>. QED  BY <2>1, <3>2
  <2>2. ASSUME writer'[v].pc \in Classified, writer'[w].pc \in Classified, {v, w} \in Opposed
        PROVE  writer'[v].contra \cup writer'[w].contra # {}
    <3>1. Active(v) /\ Active(w) /\ writer[v].pc \in Classified /\ writer[w].pc \in Classified
      BY <1>3, <2>2
    <3>2. writer[v].contra \cup writer[w].contra # {}
      BY <2>2, <3>1 DEF WarnInv, Told
    <3>. QED  BY <2>2, <3>2
  <2>. QED  BY <2>1, <2>2
<1>. QED  BY <1>2, <1>4 DEF WarnInv

\* A writer that compares finds whoever compared before.
LEMMA CompareWarn ==
  ASSUME Files, Locals, Rows, WarnInv, NEW w \in Obs, StoreAndCheck(w)
  PROVE  WarnInv'
<1>. DEFINE known == IF w \in Embeds THEN vector ELSE {}
<1>1. /\ writer[w].pc = "check" /\ UNCHANGED <<file, row>>
      /\ vector' = vector \cup ({w} \cap Embeds)
      /\ writer' = [writer EXCEPT ![w] =
           [@ EXCEPT !.pc = "fetch", !.dup = Duplicates(w, known) # {},
                     !.rejected = RejectedMatches(w, known) # {}]]
  BY DEF StoreAndCheck, store, WriterAt
<1>2. /\ writer'[w].pc = "fetch" /\ writer'[w].dup = (Duplicates(w, known) # {})
      /\ \A v \in Obs \ {w} : writer'[v] = writer[v]
  BY <1>1 DEF Locals, WriterLocals
<1>3. NoneStale'
  BY <1>1 DEF WarnInv, NoneStale
<1>4. Seen'
  <2>. SUFFICES ASSUME NEW v \in Obs
                PROVE  /\ writer'[v].pc \in {"check"} \cup Compared => row'[v] # Nobody
                       /\ writer'[v].pc \in Compared /\ v \in Embeds => v \in vector'
    BY DEF Seen, Compared
  <2>1. CASE v = w
    BY <1>1, <1>2, <2>1 DEF WarnInv, Seen
  <2>2. CASE v # w
    BY <1>1, <1>2, <2>2 DEF WarnInv, Seen
  <2>. QED  BY <2>1, <2>2
<1>5. ASSUME NEW v \in Obs \ {w}, Active(v), writer[v].pc \in Compared, Alike(v, w)
      PROVE  writer'[w].dup
  <2>1. row[v] # Nobody /\ row[v].status = "active"
    BY <1>5 DEF Active
  <2>2. v \in Embeds => v \in vector
    BY <1>5 DEF WarnInv, Seen
  <2>3. v \in Duplicates(w, known)
    BY <1>5, <2>1, <2>2 DEF Duplicates, Matching, Alike
  <2>. QED  BY <1>2, <2>3
<1>6. Told'
  <2>. SUFFICES ASSUME NEW v \in Obs, NEW u \in Obs, v # u, Active(v), Active(u)
                PROVE  /\ writer'[v].pc \in Compared /\ writer'[u].pc \in Compared /\ Alike(v, u)
                            => writer'[v].dup \/ writer'[u].dup
                       /\ writer'[v].pc \in Classified /\ writer'[u].pc \in Classified
                          /\ {v, u} \in Opposed
                            => writer'[v].contra \cup writer'[u].contra # {}
    BY <1>1 DEF Told, Active, Alike
  <2>1. CASE v # w /\ u # w
    BY <1>2, <2>1 DEF WarnInv, Told
  <2>2. CASE v = w
    BY <1>2, <1>5, <2>2 DEF Classified, Alike
  <2>3. CASE u = w
    BY <1>2, <1>5, <2>3 DEF Classified, Alike
  <2>. QED  BY <2>1, <2>2, <2>3
<1>. QED  BY <1>3, <1>4, <1>6 DEF WarnInv

\* And one that classifies finds whoever classified before.
LEMMA ClassifyWarn ==
  ASSUME Files, Locals, Rows, WarnInv, NEW w \in Obs, FetchAndClassify(w)
  PROVE  WarnInv'
<1>. DEFINE found == Contradicted(w, {e \in Obs \ {w} : Active(e)})
<1>1. /\ writer[w].pc = "fetch" /\ UNCHANGED <<file, row, vector>>
      /\ writer' = [writer EXCEPT ![w] =
           [@ EXCEPT !.contra = found, !.pc = IF found = {} THEN "done" ELSE "lock"]]
  BY DEF FetchAndClassify, store, WriterAt
<1>2. /\ writer'[w].pc \in Classified /\ writer'[w].contra = found
      /\ writer'[w].dup = writer[w].dup
      /\ \A v \in Obs \ {w} : writer'[v] = writer[v]
  BY <1>1 DEF Locals, WriterLocals, Classified
<1>3. NoneStale'
  BY <1>1 DEF WarnInv, NoneStale
<1>4. writer[w].pc \in Compared
  BY <1>1 DEF Compared
<1>5. Seen'
  <2>. SUFFICES ASSUME NEW v \in Obs
                PROVE  /\ writer'[v].pc \in {"check"} \cup Compared => row'[v] # Nobody
                       /\ writer'[v].pc \in Compared /\ v \in Embeds => v \in vector'
    BY DEF Seen, Compared
  <2>1. CASE v = w
    BY <1>1, <1>2, <1>4, <2>1 DEF WarnInv, Seen, Compared, Classified
  <2>2. CASE v # w
    BY <1>1, <1>2, <2>2 DEF WarnInv, Seen
  <2>. QED  BY <2>1, <2>2
<1>6. ASSUME NEW v \in Obs \ {w}, Active(v), {v, w} \in Opposed
      PROVE  writer'[w].contra # {}
  <2>1. v \in found
    BY <1>6 DEF Contradicted
  <2>. QED  BY <1>2, <2>1
<1>7. Told'
  <2>. SUFFICES ASSUME NEW v \in Obs, NEW u \in Obs, v # u, Active(v), Active(u)
                PROVE  /\ writer'[v].pc \in Compared /\ writer'[u].pc \in Compared /\ Alike(v, u)
                            => writer'[v].dup \/ writer'[u].dup
                       /\ writer'[v].pc \in Classified /\ writer'[u].pc \in Classified
                          /\ {v, u} \in Opposed
                            => writer'[v].contra \cup writer'[u].contra # {}
    BY <1>1 DEF Told, Active, Alike
  <2>1. CASE v # w /\ u # w
    BY <1>2, <2>1 DEF WarnInv, Told
  <2>2. CASE v = w
    <3>1. u \in Obs \ {w} /\ writer'[u] = writer[u]
      BY <1>2, <2>2
    <3>2. {v, u} \in Opposed => writer'[v].contra # {}
      <4>1. {v, u} = {u, w}
        BY <2>2
      <4>. QED  BY <1>6, <2>2, <3>1, <4>1
    <3>. QED  BY <1>2, <1>4, <2>2, <3>1, <3>2 DEF WarnInv, Told
  <2>3. CASE u = w
    <3>1. v \in Obs \ {w} /\ writer'[v] = writer[v]
      BY <1>2, <2>3
    <3>2. {v, u} \in Opposed => writer'[u].contra # {}
      BY <1>6, <2>3, <3>1
    <3>. QED  BY <1>2, <1>4, <2>3, <3>1, <3>2 DEF WarnInv, Told
  <2>. QED  BY <2>1, <2>2, <2>3
<1>. QED  BY <1>3, <1>5, <1>7 DEF WarnInv
LEMMA WriterWarn ==
  ASSUME Files, Locals, Rows, WarnInv, Kept, NEW w \in Obs, WriterStep(w)
  PROVE  WarnInv'
<1>. w \in Entity /\ writer[w] \in WriterLocals
  BY DEF Entity, Locals
<1>. DEFINE Go(s) == writer' = [writer EXCEPT ![w].pc = s]
<1>0. ASSUME NEW s \in WriterSteps, Go(s), UNCHANGED vector, NoneStale', NoRevival,
             s = "check" => row'[w] # Nobody,
             s \in Compared => writer[w].pc \in Classified
      PROVE  WarnInv'
  <2>1. /\ writer'[w].pc = s /\ writer'[w].dup = writer[w].dup /\ writer'[w].contra = writer[w].contra
        /\ \A v \in Obs \ {w} : writer'[v] = writer[v]
    BY <1>0 DEF Locals, WriterLocals
  <2>2. \A v \in Obs : /\ writer'[v].pc = "check" => row'[v] # Nobody
                       /\ writer'[v].pc \in Compared => /\ writer[v].pc \in Compared
                                                        /\ writer'[v].dup = writer[v].dup
                       /\ writer'[v].pc \in Classified => /\ writer[v].pc \in Classified
                                                          /\ writer'[v].contra = writer[v].contra
    <3>. TAKE v \in Obs
    <3>1. CASE v = w
      BY <1>0, <2>1, <3>1 DEF Compared, Classified
    <3>2. CASE v # w
      <4>1. writer'[v] = writer[v] /\ v \in Entity
        BY <2>1, <3>2 DEF Entity
      <4>2. writer[v].pc = "check" => row[v] # Nobody
        BY DEF WarnInv, Seen
      <4>. QED  BY <4>1, <4>2 DEF Kept
    <3>. QED  BY <3>1, <3>2
  <2>. QED  BY <1>0, <2>2, WarnQuiet
<1>1. CASE WriteFile(w)
  <2>1. /\ file' = [file EXCEPT ![w] = NewDoc(Nobody, Supports[w])] /\ UNCHANGED <<row, vector>>
        /\ Go("sync")
    BY <1>1 DEF WriteFile, WriterGo, NewDoc
  <2>2. NewDoc(Nobody, Supports[w]).status # "stale"
    BY DEF NewDoc
  <2>3. NoneStale' /\ NoRevival
    BY <2>1, <2>2, FileWarn DEF WarnInv
  <2>. QED  BY <1>0, <2>1, <2>3 DEF WriterSteps, Compared
<1>2. CASE SyncFile(w)
  <2>1. UNCHANGED <<file, vector>> /\ file[w] # Nobody
    BY <1>2 DEF SyncFile, WriterAt, Locals
  <2>2. \/ row' = Synced(w) /\ Go("check")
        \/ UNCHANGED row /\ Go("failed")
    BY <1>2 DEF SyncFile, WriterGo
  <2>3. RowsSynced \/ UNCHANGED row
    BY <2>2, SyncedIs
  <2>4. NoneStale' /\ NoRevival
    BY <2>1, <2>3, RowsSyncedWarn DEF WarnInv
  <2>5. row' = Synced(w) => row'[w] # Nobody
    BY <2>1, SyncedIs
  <2>6. \/ row'[w] # Nobody /\ Go("check")
        \/ Go("failed")
    BY <2>2, <2>5
  <2>. QED  BY <1>0, <2>1, <2>4, <2>6 DEF WriterSteps, Compared
<1>3. CASE StoreAndCheck(w)
  BY <1>3, CompareWarn
<1>4. CASE FetchAndClassify(w)
  BY <1>4, ClassifyWarn
<1>5. CASE LockForRecord(w)
  <2>1. /\ UNCHANGED <<file, row, vector>> /\ writer[w].pc \in Classified
        /\ Go("record") \/ Go("done")
    BY <1>5 DEF LockForRecord, WriterGo, WriterAt, Classified, store
  <2>2. NoneStale' /\ NoRevival
    BY <2>1, RowsSyncedWarn DEF WarnInv
  <2>. QED  BY <1>0, <2>1, <2>2 DEF WriterSteps
<1>6. CASE RecordContradicts(w)
  <2>1. PICK d : d = [file[w] EXCEPT !.contra = writer[w].contra]
    OBVIOUS
  <2>2. /\ file' = [file EXCEPT ![w] = d] /\ UNCHANGED <<row, vector>> /\ Go("syncrecord")
        /\ writer[w].pc = "record"
    BY <1>6, <2>1 DEF RecordContradicts, WriterGo, WriterAt
  <2>3. file[w] \in Doc /\ file[w] # Nobody
    BY <2>2, NobodyAssumption DEF Locals, Files
  <2>4. d.status # "stale"
    BY <2>1, <2>3 DEF Doc, WarnInv, NoneStale
  <2>5. NoneStale' /\ NoRevival
    BY <2>2, <2>4, FileWarn DEF WarnInv
  <2>. QED  BY <1>0, <2>2, <2>5 DEF WriterSteps, Classified
<1>7. CASE SyncRecord(w)
  <2>1. /\ UNCHANGED <<file, vector>> /\ Go("done") /\ writer[w].pc = "syncrecord"
        /\ row' = Synced(w) \/ UNCHANGED row
    BY <1>7 DEF SyncRecord, WriterGo, WriterAt
  <2>2. NoneStale' /\ NoRevival
    BY <2>1, SyncedIs, RowsSyncedWarn DEF WarnInv
  <2>. QED  BY <1>0, <2>1, <2>2 DEF WriterSteps, Classified
<1>. QED  BY <1>1, <1>2, <1>3, <1>4, <1>5, <1>6, <1>7 DEF WriterStep

\* Nobody but writers warns.
LEMMA NoWriterWarn ==
  ASSUME WarnInv, NoneStale', NoRevival, Kept, UNCHANGED <<writer, vector>>
  PROVE  WarnInv'
<1>1. \A w \in Obs : writer[w].pc = "check" => row'[w] # Nobody
  BY DEF WarnInv, Seen, Kept, Entity
<1>. QED  BY <1>1, WarnQuiet

LEMMA PassWarn ==
  ASSUME Files, Locals, Rows, WarnInv, Kept, NEW p \in Pass, PassStep(p)
  PROVE  WarnInv'
<1>. DEFINE r == pass[p]
<1>0. r \in PassLocals /\ PassOK(r) /\ Known(r, file, row) /\ UNCHANGED <<writer, vector>>
  BY DEF Locals, PassStep, StartPass, ReadEdges, WriteRule, SyncRule, EndPromotion, ReadPairs,
         NextPair, EndMerge, CheckSource, LockForSupersede, Supersede, SyncSource
<1>. HIDE DEF r
<1>1. CASE WriteRule(p)
  <2>1. PICK c \in r.todo, u \in Rule : /\ file' = [file EXCEPT ![u] = NewDoc(c.ent, c.sup)]
                                        /\ UNCHANGED row
    BY <1>1 DEF WriteRule, NewDoc, r
  <2>2. NewDoc(c.ent, c.sup).status # "stale" /\ u \in Entity
    BY DEF NewDoc, Entity
  <2>3. NoneStale' /\ NoRevival
    BY <2>1, <2>2, FileWarn DEF WarnInv
  <2>. QED  BY <1>0, <2>3, NoWriterWarn
<1>2. CASE Supersede(p)
  <2>1. PICK d : d = [file[r.ent] EXCEPT !.status = "superseded", !.by = r.by]
    OBVIOUS
  <2>2. r.ent \in Entity /\ file[r.ent] \in Doc
    BY <1>0, <1>2 DEF Supersede, PassAt, PassOK, Known, Entity, Rows, Files, r
  <2>3. d.status # "stale"
    BY <2>1, <2>2 DEF Doc
  <2>4. file' = [file EXCEPT ![r.ent] = d] /\ UNCHANGED row
    BY <1>2, <2>1 DEF Supersede, r
  <2>5. NoneStale' /\ NoRevival
    BY <2>2, <2>3, <2>4, FileWarn DEF WarnInv
  <2>. QED  BY <1>0, <2>5, NoWriterWarn
<1>3. CASE SyncRule(p) \/ SyncSource(p)
  <2>1. r.ent \in Entity /\ r.by \in Entity
    BY <1>0, <1>3 DEF SyncRule, SyncSource, PassAt, PassOK, Entity, r
  <2>2. UNCHANGED file /\ (UNCHANGED row \/ RowsSynced)
    BY <1>3, <2>1, SyncedIs DEF SyncSource, SyncRule, r
  <2>. QED  BY <1>0, <2>2, RowsSyncedWarn, NoWriterWarn DEF WarnInv
<1>4. CASE ~WriteRule(p) /\ ~Supersede(p) /\ ~SyncRule(p) /\ ~SyncSource(p)
  <2>1. UNCHANGED <<file, row>>
    BY <1>4 DEF PassStep, StartPass, ReadEdges, EndPromotion, ReadPairs, NextPair, EndMerge,
                CheckSource, LockForSupersede, store
  <2>. QED  BY <1>0, <2>1, RowsSyncedWarn, NoWriterWarn DEF WarnInv
<1>. QED  BY <1>1, <1>2, <1>3, <1>4

LEMMA OtherWarn ==
  ASSUME Files, Locals, Rows, WarnInv, Kept, Crash \/ Reject \/ Index \/ UNCHANGED vars
  PROVE  WarnInv'
<1>1. CASE Crash
  <2>1. UNCHANGED <<file, row, vector>>
    BY <1>1 DEF Crash, store
  <2>2. NoneStale' /\ NoRevival
    BY <2>1, RowsSyncedWarn DEF WarnInv
  <2>3. \A w \in Obs : writer'[w] = writer[w] \/ writer'[w].pc = "failed"
    BY <1>1 DEF Crash, WriterGo, Locals, WriterLocals
  <2>4. \A w \in Obs : writer[w].pc = "check" => row[w] # Nobody
    BY DEF WarnInv, Seen
  <2>5. "failed" \notin {"check"} \cup Compared \cup Classified
    BY DEF Compared, Classified
  <2>. QED  BY <2>1, <2>2, <2>3, <2>4, <2>5, WarnQuiet
<1>2. CASE Reject
  <2>1. PICK e \in Entity :
          /\ Active(e)
          /\ file' = [file EXCEPT ![e].status = "rejected"]
          /\ row' = [row EXCEPT ![e] = [file[e] EXCEPT !.status = "rejected"]]
    BY <1>2 DEF Reject
  <2>2. PICK d : d = [file[e] EXCEPT !.status = "rejected"]
    OBVIOUS
  <2>3. file[e] \in Doc
    BY <2>1 DEF Active, Rows, Files
  <2>4. d.status = "rejected"
    BY <2>2, <2>3 DEF Doc
  <2>5. file' = [file EXCEPT ![e] = d] /\ row' = [row EXCEPT ![e] = d]
    BY <2>1, <2>2
  <2>6. NoneStale' /\ NoRevival
    BY <2>4, <2>5 DEF WarnInv, NoneStale, NoRevival, Files
  <2>. QED  BY <1>2, <2>6, NoWriterWarn DEF Reject
<1>3. CASE Index
  BY <1>3, IndexIs, RowsSyncedWarn, NoWriterWarn DEF Index, WarnInv
<1>4. CASE UNCHANGED vars
  BY <1>4, RowsSyncedWarn, NoWriterWarn DEF vars, store, WarnInv
<1>. QED  BY <1>1, <1>2, <1>3, <1>4

LEMMA WarnNext ==
  Files /\ Locals /\ Rows /\ WarnInv /\ [Next]_vars => WarnInv'
  BY StoreNext, WriterWarn, PassWarn, OtherWarn DEF Next

(***************************************************************************)
(* Of two duplicates, or of two observations that contradict each other,   *)
(* that are created at the same time, one caller at least is told          *)
(* (mcp/entity_helpers.rs: the row is synced before the checks look).      *)
(***************************************************************************)
THEOREM OneIsAlwaysWarned == Spec => []OneOfTwoIsWarned
<1>1. WarnInv => OneOfTwoIsWarned
  BY DEF WarnInv, Told, OneOfTwoIsWarned, Compared, Classified, Alike
<1>. QED  BY <1>1, StoreInit, StoreNext, WarnInit, WarnNext, PTL DEF Spec
-----------------------------------------------------------------------------
(* Types, and who holds the write lock.                                    *)

Bounds ==
  /\ vector \subseteq Obs /\ unsynced \subseteq Rule
  /\ faults \in 0 .. MaxFaults /\ overlap \in BOOLEAN

LEMMA BoundsInit == Init => Bounds /\ HolderAtWork
<1>. SUFFICES ASSUME Init PROVE Bounds /\ HolderAtWork
  OBVIOUS
<1>1. PICK here \in Scenario : vector = here.seed \cap Embeds
  BY DEF Init
<1>2. vector \subseteq Obs
  BY <1>1, ScenarioAssumption
<1>3. unsynced = {} /\ faults = 0 /\ overlap = FALSE /\ lock = Nobody
  BY DEF Init
<1>4. faults \in 0 .. MaxFaults
  BY <1>3, BoundAssumption
<1>5. overlap \in BOOLEAN
  BY <1>3
<1>. QED  BY <1>2, <1>3, <1>4, <1>5 DEF Bounds, HolderAtWork

LEMMA FaultBound == faults \in 0 .. MaxFaults /\ Fault => faults' \in 0 .. MaxFaults
  BY BoundAssumption DEF Fault

LEMMA BoundsNext ==
  ASSUME Locals, Bounds, [Next]_vars
  PROVE  Bounds'
<1>1. ASSUME NEW w \in Obs, WriterStep(w) PROVE Bounds'
  BY <1>1, FaultBound DEF WriterStep, WriteFile, SyncFile, StoreAndCheck, FetchAndClassify,
     LockForRecord, RecordContradicts, SyncRecord, Bounds, history
<1>2. ASSUME NEW p \in Pass, PassStep(p) PROVE Bounds'
  BY <1>2, FaultBound DEF PassStep, StartPass, ReadEdges, WriteRule, SyncRule, EndPromotion, ReadPairs,
     NextPair, EndMerge, CheckSource, LockForSupersede, Supersede, SyncSource, Bounds, history
<1>3. CASE Crash \/ Reject \/ Index \/ UNCHANGED vars
  BY <1>3, FaultBound DEF Crash, Reject, Index, vars, Bounds, history
<1>. QED  BY <1>1, <1>2, <1>3 DEF Next

LEMMA WriterHolder ==
  ASSUME Locals, HolderAtWork, NEW w \in Obs, WriterStep(w)
  PROVE  HolderAtWork'
<1>. w \notin Pass /\ w # Nobody
  BY IdAssumption, NobodyAssumption DEF Entity
<1>0. UNCHANGED pass /\ \A v \in Obs \ {w} : writer'[v] = writer[v]
  BY DEF WriterStep, WriteFile, SyncFile, StoreAndCheck, FetchAndClassify, LockForRecord,
         RecordContradicts, SyncRecord, WriterGo, Locals
<1>1. CASE lock' = Nobody
  BY <1>1 DEF HolderAtWork
<1>2. CASE lock' = w
  <2>1. writer'[w].pc \in {"record", "syncrecord"}
    BY <1>2 DEF WriterStep, WriteFile, SyncFile, StoreAndCheck, FetchAndClassify, LockForRecord,
       RecordContradicts, SyncRecord, WriterGo, WriterAt, Locals, WriterLocals, HolderAtWork
  <2>. QED  BY <1>2, <2>1 DEF HolderAtWork
<1>3. CASE lock' # Nobody /\ lock' # w
  <2>1. UNCHANGED lock
    BY <1>3 DEF WriterStep, WriteFile, SyncFile, StoreAndCheck, FetchAndClassify, LockForRecord,
       RecordContradicts, SyncRecord
  <2>. QED  BY <1>0, <1>3, <2>1 DEF HolderAtWork
<1>. QED  BY <1>1, <1>2, <1>3

LEMMA PassHolder ==
  ASSUME Locals, HolderAtWork, NEW p \in Pass, PassStep(p)
  PROVE  HolderAtWork'
<1>. p \notin Obs /\ p # Nobody
  BY IdAssumption, NobodyAssumption DEF Entity
<1>0. UNCHANGED writer /\ \A q \in Pass \ {p} : pass'[q] = pass[q]
  BY DEF PassStep, StartPass, ReadEdges, WriteRule, SyncRule, EndPromotion, ReadPairs, NextPair,
         EndMerge, CheckSource, LockForSupersede, Supersede, SyncSource, On, PassGo, Locals
<1>1. CASE lock' = Nobody
  BY <1>1 DEF HolderAtWork
<1>2. CASE lock' = p
  <2>1. CASE LockForSupersede(p) \/ Supersede(p)
    <3>1. pass'[p].pc \in {"supersede", "syncsource"}
      <4>1. CASE lock = Nobody
        BY <1>2, <2>1, <4>1 DEF LockForSupersede, Supersede, PassGo, PassAt, Locals, PassLocals
      <4>2. CASE lock # Nobody
        <5>1. lock = p
          BY <1>2, <2>1, <4>2 DEF LockForSupersede, Supersede
        <5>2. pass[p].pc \in {"supersede", "syncsource"}
          BY <4>2, <5>1 DEF HolderAtWork
        <5>. QED  BY <2>1, <5>2 DEF LockForSupersede, Supersede, PassGo, PassAt, Locals, PassLocals
      <4>. QED  BY <4>1, <4>2
    <3>. QED  BY <1>2, <3>1 DEF HolderAtWork
  <2>2. CASE SyncSource(p)
    BY <1>2, <2>2 DEF SyncSource
  <2>3. CASE ~LockForSupersede(p) /\ ~Supersede(p) /\ ~SyncSource(p)
    <3>1. lock = p
      BY <1>2, <2>3 DEF PassStep, StartPass, ReadEdges, WriteRule, SyncRule, EndPromotion, ReadPairs,
         NextPair, EndMerge, CheckSource
    <3>2. pass[p].pc \in {"supersede", "syncsource"}
      BY <3>1 DEF HolderAtWork
    <3>. QED  BY <2>3, <3>2 DEF PassStep, StartPass, ReadEdges, WriteRule, SyncRule, EndPromotion,
                  ReadPairs, NextPair, EndMerge, CheckSource, PassAt
  <2>. QED  BY <2>1, <2>2, <2>3
<1>3. CASE lock' # Nobody /\ lock' # p
  <2>1. UNCHANGED lock
    BY <1>3 DEF PassStep, StartPass, ReadEdges, WriteRule, SyncRule, EndPromotion, ReadPairs, NextPair,
         EndMerge, CheckSource, LockForSupersede, Supersede, SyncSource
  <2>. QED  BY <1>0, <1>3, <2>1 DEF HolderAtWork
<1>. QED  BY <1>1, <1>2, <1>3

LEMMA OtherHolder ==
  ASSUME Locals, HolderAtWork, Crash \/ Reject \/ Index \/ UNCHANGED vars
  PROVE  HolderAtWork'
<1>1. CASE Crash
  <2>1. CASE \E w \in Obs : WriterGo(w, "failed") /\ lock' = Released(w) /\ UNCHANGED pass
    BY <2>1, IdAssumption, NobodyAssumption DEF WriterGo, Released, HolderAtWork, Locals, Entity
  <2>2. CASE \E p \in Pass : pass' = [pass EXCEPT ![p] = Idle] /\ lock' = Released(p) /\ UNCHANGED writer
    BY <2>2, IdAssumption, NobodyAssumption DEF Released, HolderAtWork, Locals, Entity
  <2>. QED  BY <1>1, <2>1, <2>2 DEF Crash
<1>2. CASE Reject \/ Index \/ UNCHANGED vars
  BY <1>2 DEF Reject, Index, vars, HolderAtWork
<1>. QED  BY <1>1, <1>2

LEMMA HolderNext ==
  Locals /\ HolderAtWork /\ [Next]_vars => HolderAtWork'
  BY WriterHolder, PassHolder, OtherHolder DEF Next

(***************************************************************************)
(* Types; an entry in the index has a file; and the canonical-file write   *)
(* lock is held only by a process inside its read-modify-write.            *)
(***************************************************************************)
THEOREM TypeCorrect == Spec => []TypeOK
<1>1. Files /\ Rows /\ Bounds /\ HolderAtWork => TypeOK
  BY DEF Files, Rows, Bounds, TypeOK
<1>. QED  BY <1>1, StoreInit, StoreNext, BoundsInit, BoundsNext, HolderNext, PTL DEF Spec
=============================================================================
