-------------------------- MODULE Reindex_proofs --------------------------
(***************************************************************************)
(* Theorems about Reindex, for any number of files, names, bodies and      *)
(* workers and any bound on edits and faults.                              *)
(***************************************************************************)
EXTENDS Reindex, TLAPS

LEMMA IdleType == Idle \in Run /\ RunInOrder(Idle)
  BY DEF Idle, Run, RunInOrder

LEMMA InitType == Init => TypeOK
  BY ContentAssumption, BoundAssumption, IdleType DEF Init, TypeOK, Tree

\* One worker's run changes and stays in order.
LEMMA RunUpdate ==
  ASSUME NEW w \in Worker, NEW r \in Run, TypeOK, RunInOrder(r),
         run' = [run EXCEPT ![w] = r]
  PROVE  run' \in [Worker -> Run] /\ \A v \in Worker : RunInOrder(run'[v])
  BY DEF TypeOK

\* Only the history bit of runs changes.
LEMMA AloneOnly ==
  ASSUME NEW r \in Run, RunInOrder(r), NEW b \in BOOLEAN, b => r.pc # "idle",
         r.pc # "idle"
  PROVE  [r EXCEPT !.alone = b] \in Run /\ RunInOrder([r EXCEPT !.alone = b])
<1>. DEFINE u == [r EXCEPT !.alone = b]
<1>1. u \in Run
  BY DEF Run
<1>2. /\ u.pc = r.pc /\ u.kind = r.kind /\ u.base = r.base /\ u.full = r.full
      /\ u.todo = r.todo /\ u.read = r.read /\ u.failed = r.failed /\ u.pin = r.pin
      /\ u.known = r.known /\ u.gone = r.gone /\ u.marks = r.marks
  BY DEF Run
<1>. HIDE DEF u
<1>3. RunInOrder(u)
  BY <1>2 DEF RunInOrder
<1>. QED  BY <1>1, <1>3 DEF u

-----------------------------------------------------------------------------
(* Type correctness.                                                       *)

LEMMA TypeStart ==
  ASSUME TypeOK, NEW w \in Worker, NEW r \in Run, RunInOrder(r), r.pc # "idle", Start(w, r)
  PROVE  TypeOK'
<1>1. ASSUME NEW v \in Worker PROVE run'[v] \in Run /\ RunInOrder(run'[v])
  <2>1. CASE v = w
    <3>1. (Live = {}) \in BOOLEAN
      OBVIOUS
    <3>2. run'[v] = [r EXCEPT !.alone = (Live = {})]
      BY <2>1 DEF Start
    <3>. QED  BY <3>1, <3>2, AloneOnly
  <2>2. CASE v # w /\ run[v].pc = "idle"
    BY <2>2 DEF Start, TypeOK
  <2>3. CASE v # w /\ run[v].pc # "idle"
    <3>1. run'[v] = [run[v] EXCEPT !.alone = FALSE]
      BY <2>3 DEF Start
    <3>. QED  BY <3>1, <2>3, AloneOnly DEF TypeOK
  <2>. QED  BY <2>1, <2>2, <2>3
<1>2. run' \in [Worker -> Run]
  BY <1>1 DEF Start
<1>. QED  BY <1>1, <1>2 DEF Start, TypeOK, history

LEMMA TypeBegin ==
  ASSUME TypeOK, NEW w \in Worker, BeginIndex(w) \/ BeginReindex(w) \/ BeginSave(w)
  PROVE  TypeOK'
<1>1. CASE BeginIndex(w)
  <2>. DEFINE r == [Idle EXCEPT !.pc = "scan", !.kind = "index", !.full = TRUE]
  <2>1. r \in Run /\ RunInOrder(r) /\ r.pc # "idle"
    BY IdleType DEF Idle, Run, RunInOrder
  <2>. QED  BY <1>1, <2>1, TypeStart DEF BeginIndex
<1>2. CASE BeginReindex(w)
  <2>. DEFINE r == [Idle EXCEPT !.pc = "detect", !.kind = "reindex", !.base = baseline]
  <2>1. r \in Run /\ RunInOrder(r) /\ r.pc # "idle"
    BY IdleType DEF Idle, Run, RunInOrder, TypeOK
  <2>. QED  BY <1>2, <2>1, TypeStart DEF BeginReindex
<1>3. CASE BeginSave(w)
  <2>1. PICK f \in File :
          Start(w, [Idle EXCEPT !.pc = "read", !.kind = "save", !.todo = {f}])
    BY <1>3 DEF BeginSave
  <2>. DEFINE r == [Idle EXCEPT !.pc = "read", !.kind = "save", !.todo = {f}]
  <2>2. r \in Run
    BY IdleType DEF Run
  <2>3. /\ r.pc = "read" /\ r.kind = "save" /\ ~r.full /\ r.gone = {} /\ r.marks = {}
        /\ ~r.pin /\ r.todo = {f}
    BY DEF Idle
  <2>4. Start(w, r)
    BY <2>1
  <2>. HIDE DEF r
  <2>5. RunInOrder(r)
    BY <2>3 DEF RunInOrder
  <2>. QED  BY <2>2, <2>3, <2>4, <2>5, TypeStart
<1>. QED  BY <1>1, <1>2, <1>3

LEMMA TypeStep ==
  ASSUME TypeOK, NEW w \in Worker, NEW r \in Run, RunInOrder(r), Step(w, r)
  PROVE  TypeOK'
  BY RunUpdate DEF Step, TypeOK, history

LEMMA TypeWrite ==
  ASSUME TypeOK, NEW w \in Worker, NEW r \in Run, RunInOrder(r), r.pc # "idle",
         NEW rows \in [File \X Name -> Row \cup {NoRow}], NEW fs \in SUBSET File,
         WriteOrRefuse(w, r, rows, fs)
  PROVE  TypeOK'
<1>1. CASE Write(w, r, rows)
  BY <1>1, RunUpdate DEF Write, TypeOK, history
<1>2. CASE Refused(w, r, fs)
  <2>. DEFINE u == [r EXCEPT !.alone = FALSE]
  <2>1. u \in Run /\ RunInOrder(u) /\ run' = [run EXCEPT ![w] = u]
    BY <1>2, AloneOnly DEF Refused
  <2>. HIDE DEF u
  <2>2. run' \in [Worker -> Run] /\ \A v \in Worker : RunInOrder(run'[v])
    BY <2>1, RunUpdate
  <2>3. missed' \subseteq File /\ faults' \in Nat
    BY <1>2 DEF Refused, TypeOK
  <2>4. UNCHANGED <<work, head, baseline, row, raced, edits>>
    BY <1>2 DEF Refused
  <2>. QED  BY <2>2, <2>3, <2>4 DEF TypeOK
<1>. QED  BY <1>1, <1>2 DEF WriteOrRefuse

LEMMA StaleType ==
  ASSUME TypeOK, NEW k \in File \X Name
  PROVE  row[k] \in Row \cup {NoRow} /\ Stale(k) \in Row \cup {NoRow}
  BY DEF TypeOK, Stale, IsLive, Row

LEMMA FreshType ==
  ASSUME NEW r \in Run, NEW k \in File \X Name, Defines(r.read[k[1]], k[2])
  PROVE  Fresh(r, k) \in Row
<1>1. r.read[k[1]][k[2]] \in Body
  BY DEF Defines, Source
<1>. QED  BY <1>1 DEF Fresh, Row

LEMMA UpsertedType ==
  ASSUME TypeOK, NEW r \in Run
  PROVE  Upserted(r) \in [File \X Name -> Row \cup {NoRow}]
<1>. DEFINE skip(k) == \/ ~Defines(r.read[k[1]], k[2])
                       \/ r.known[k] = Fresh(r, k)
                       \/ r.known[k] = NoRow /\ row[k] # NoRow
            val(k) == IF skip(k) THEN row[k] ELSE Fresh(r, k)
<1>1. ASSUME NEW k \in File \X Name PROVE val(k) \in Row \cup {NoRow}
  <2>1. Defines(r.read[k[1]], k[2]) => Fresh(r, k) \in Row
    BY FreshType
  <2>. QED  BY <2>1, StaleType
<1>2. Upserted(r) = [k \in File \X Name |-> val(k)]
  BY DEF Upserted
<1>. HIDE DEF val
<1>. QED  BY <1>1, <1>2

LEMMA TypeIndex ==
  ASSUME TypeOK, NEW w \in Worker, Index(w)
  PROVE  TypeOK'
<1>. DEFINE r == run[w]
<1>0. r \in Run /\ RunInOrder(r)
  BY DEF TypeOK
<1>. HIDE DEF r
<1>1. CASE Scan(w)
  <2>. DEFINE u == [r EXCEPT !.pc = "read", !.todo = {f \in File \ Denied : work[f] # NoFile}]
  <2>1. u \in Run /\ RunInOrder(u)
    BY <1>0, <1>1 DEF Scan, Run, RunInOrder, Idle, r
  <2>. QED  BY <1>1, <2>1, TypeStep DEF Scan, r
<1>2. CASE Detect(w)
  <2>. DEFINE dead == Deleted(r.base, head, work)
              todo == Changed(r.base, head, work) \ dead
              u1 == [r EXCEPT !.pc = "scan", !.full = TRUE]
              u2 == [r EXCEPT !.pc = IF todo \cup dead = {} THEN "record" ELSE "read",
                              !.todo = todo, !.gone = dead]
  <2>0. dead \subseteq File /\ todo \subseteq File /\ todo \cap dead = {} /\ r.pc = "detect"
    BY <1>2 DEF Detect, Changed, Deleted, r
  <2>. HIDE DEF dead, todo
  <2>1. CASE r.base = NoTree
    <3>1. u1 \in Run /\ RunInOrder(u1)
      BY <1>0, <2>0, <2>1 DEF Run, RunInOrder, Idle
    <3>2. Step(w, u1)
      BY <1>2, <2>1 DEF Detect, r
    <3>. QED  BY <3>1, <3>2, TypeStep
  <2>2. CASE r.base # NoTree
    <3>0. r.kind # "save" \/ dead = {}
      BY <1>0, <2>0, <2>2 DEF RunInOrder
    <3>1. u2 \in Run /\ RunInOrder(u2)
      BY <1>0, <2>0, <2>2, <3>0 DEF Run, RunInOrder, Idle
    <3>2. Step(w, u2)
      BY <1>2, <2>2 DEF Detect, r, dead, todo
    <3>. QED  BY <3>1, <3>2, TypeStep
  <2>. QED  BY <2>1, <2>2
<1>3. ASSUME NEW f \in File, ReadFile(w, f) PROVE TypeOK'
  <2>. DEFINE u0 == [r EXCEPT !.todo = @ \ {f}]
              u1 == [u0 EXCEPT !.read[f] = work[f]]
              u2 == [u0 EXCEPT !.failed = @ \cup {f}]
              u3 == [u0 EXCEPT !.failed = @ \cup {f}, !.pin = TRUE]
  <2>0. r.pc = "read" /\ u0 \in Run /\ RunInOrder(u0)
    BY <1>0, <1>3 DEF ReadFile, Run, RunInOrder, r
  <2>1. CASE work[f] \in Source
    <3>1. u1 \in Run /\ RunInOrder(u1)
      BY <2>0, <2>1 DEF Run, RunInOrder, Idle
    <3>2. Step(w, u1)
      BY <1>3, <2>1, ContentAssumption DEF ReadFile, r
    <3>. QED  BY <3>1, <3>2, TypeStep
  <2>2. CASE work[f] = Garbled
    <3>1. u2 \in Run /\ RunInOrder(u2)
      BY <2>0 DEF Run, RunInOrder, Idle
    <3>2. Step(w, u2)
      BY <1>3, <2>2, ContentAssumption DEF ReadFile, r
    <3>. QED  BY <3>1, <3>2, TypeStep
  <2>3. CASE work[f] = NoFile
    <3>1. u3 \in Run /\ RunInOrder(u3)
      BY <2>0 DEF Run, RunInOrder, Idle
    <3>2. Step(w, u3)
      BY <1>3, <2>3, ContentAssumption DEF ReadFile, r
    <3>. QED  BY <3>1, <3>2, TypeStep
  <2>4. work[f] \in Content
    BY DEF TypeOK, Tree
  <2>. QED  BY <2>1, <2>2, <2>3, <2>4 DEF Content
<1>4. ASSUME NEW f \in File, ReadError(w, f) PROVE TypeOK'
  <2>. DEFINE u == [r EXCEPT !.todo = @ \ {f}, !.failed = @ \cup {f}, !.pin = TRUE]
  <2>1. u \in Run /\ RunInOrder(u)
    BY <1>0, <1>4 DEF ReadError, Run, RunInOrder, Idle, r
  <2>2. run' = [run EXCEPT ![w] = u]
    BY <1>4 DEF ReadError, r, TypeOK
  <2>. HIDE DEF u
  <2>3. run' \in [Worker -> Run] /\ \A v \in Worker : RunInOrder(run'[v])
    BY <2>1, <2>2, RunUpdate
  <2>. QED  BY <1>4, <2>3 DEF ReadError, TypeOK, history
<1>a. AfterUpsert(r) \in {"missing", "removed"} /\ (AfterUpsert(r) = "missing" => r.full)
  BY DEF AfterUpsert
<1>b. Parsed(r) \in SUBSET File
  BY DEF Parsed
<1>c. CASE ReadRows(w)
  <2>. DEFINE known == [k \in File \X Name |-> IF Defines(r.read[k[1]], k[2]) THEN row[k] ELSE NoRow]
              u == [r EXCEPT !.pc = "rows", !.known = known]
              c == [r EXCEPT !.pc = AfterUpsert(r)]
  <2>1. known \in [File \X Name -> Row \cup {NoRow}]
    BY StaleType
  <2>2. r.pc = "read" /\ r.todo = {} /\ (Step(w, u) \/ Refused(w, c, Parsed(r)))
    BY <1>c DEF ReadRows, r
  <2>. HIDE DEF known
  <2>3. u \in Run /\ RunInOrder(u)
    BY <1>0, <2>1, <2>2 DEF Run, RunInOrder, Idle
  <2>4. c \in Run /\ RunInOrder(c) /\ c.pc # "idle"
    BY <1>0, <1>a, <2>2 DEF Run, RunInOrder, Idle
  <2>5. row \in [File \X Name -> Row \cup {NoRow}]
    BY DEF TypeOK
  <2>. HIDE DEF u, c
  <2>. QED  BY <1>b, <2>2, <2>3, <2>4, <2>5, TypeStep, TypeWrite DEF WriteOrRefuse
<1>5. CASE Upsert(w)
  <2>. DEFINE u == [r EXCEPT !.pc = AfterUpsert(r), !.known = Idle.known]
  <2>0. Idle.known \in [File \X Name -> Row \cup {NoRow}]
    BY IdleType DEF Run
  <2>1. u \in Run /\ RunInOrder(u) /\ u.pc # "idle"
    BY <1>0, <1>5, <1>a, <2>0 DEF Upsert, Run, RunInOrder, Idle, r
  <2>2. WriteOrRefuse(w, u, Upserted(r), Parsed(r))
    BY <1>5 DEF Upsert, r
  <2>3. Upserted(r) \in [File \X Name -> Row \cup {NoRow}]
    BY <1>0, UpsertedType
  <2>. HIDE DEF u
  <2>. QED  BY <1>b, <2>1, <2>2, <2>3, TypeWrite
<1>6. CASE SelectMissing(w)
  <2>. DEFINE paths == MissingPaths(r)
              u == [r EXCEPT !.gone = paths, !.pc = IF paths = {} THEN "removed" ELSE "gone"]
  <2>0. paths \subseteq File /\ r.pc = "missing"
    BY <1>6 DEF SelectMissing, MissingPaths, r
  <2>. HIDE DEF paths
  <2>1. u \in Run /\ RunInOrder(u)
    BY <1>0, <2>0 DEF Run, RunInOrder, Idle
  <2>2. Step(w, u)
    BY <1>6 DEF SelectMissing, r, paths
  <2>. QED  BY <2>1, <2>2, TypeStep
<1>7. CASE MarkGone(w)
  <2>. DEFINE u == [r EXCEPT !.pc = IF r.full THEN "removed" ELSE "record"]
              rows == [k \in File \X Name |-> IF k[1] \in r.gone THEN Stale(k) ELSE row[k]]
  <2>1. u \in Run /\ RunInOrder(u) /\ u.pc # "idle"
    BY <1>0, <1>7 DEF MarkGone, Run, RunInOrder, Idle, r
  <2>2. rows \in [File \X Name -> Row \cup {NoRow}]
    BY StaleType
  <2>3. r.gone \in SUBSET File
    BY <1>0 DEF Run
  <2>4. WriteOrRefuse(w, u, rows, r.gone)
    BY <1>7 DEF MarkGone, r
  <2>. HIDE DEF u, rows
  <2>. QED  BY <2>1, <2>2, <2>3, <2>4, TypeWrite
<1>8. AfterMarks(r) \in {"gone", "record"}
  BY DEF AfterMarks
<1>9. CASE SelectRemoved(w)
  <2>. DEFINE ids == RemovedNames(r)
              u == [r EXCEPT !.marks = ids, !.pc = IF ids = {} THEN AfterMarks(r) ELSE "mark"]
  <2>0. ids \subseteq File \X Name /\ r.pc = "removed"
    BY <1>9 DEF SelectRemoved, RemovedNames, r
  <2>. HIDE DEF ids
  <2>1. u \in Run /\ RunInOrder(u)
    BY <1>0, <1>8, <2>0 DEF Run, RunInOrder, Idle
  <2>2. Step(w, u)
    BY <1>9 DEF SelectRemoved, r, ids
  <2>. QED  BY <2>1, <2>2, TypeStep
<1>10. CASE MarkRemoved(w)
  <2>. DEFINE u == [r EXCEPT !.marks = {}, !.pc = AfterMarks(r)]
              rows == [k \in File \X Name |-> IF k \in r.marks THEN Stale(k) ELSE row[k]]
              fs == {k[1] : k \in r.marks}
  <2>1. u \in Run /\ RunInOrder(u) /\ u.pc # "idle"
    BY <1>0, <1>8, <1>10 DEF MarkRemoved, Run, RunInOrder, Idle, r
  <2>2. rows \in [File \X Name -> Row \cup {NoRow}]
    BY StaleType
  <2>3. fs \in SUBSET File
    BY <1>0 DEF Run
  <2>4. WriteOrRefuse(w, u, rows, fs)
    BY <1>10 DEF MarkRemoved, r
  <2>. HIDE DEF u, rows, fs
  <2>. QED  BY <2>1, <2>2, <2>3, <2>4, TypeWrite
<1>11. CASE Record(w) \/ Crash(w)
  <2>1. run' \in [Worker -> Run] /\ \A v \in Worker : RunInOrder(run'[v])
    BY <1>11, IdleType, RunUpdate DEF Record, Crash
  <2>2. baseline' \in Tree \cup {NoTree} /\ raced' \subseteq File /\ missed' \subseteq File
    BY <1>11 DEF Record, Crash, TypeOK, history
  <2>. QED  BY <1>11, <2>1, <2>2 DEF Record, Crash, TypeOK
<1>. QED
  BY <1>1, <1>2, <1>3, <1>4, <1>c, <1>5, <1>6, <1>7, <1>9, <1>10, <1>11, TypeBegin DEF Index

\* What people and git do: a Move with trees.
LEMMA EnvMoves ==
  ASSUME TypeOK, Edit \/ Commit \/ Switch
  PROVE  \E wt \in Tree, h \in Tree : Move(wt, h)
<1>1. ASSUME NEW f \in File, NEW c \in Edited
      PROVE  [work EXCEPT ![f] = c] \in Tree
  BY <1>1, ContentAssumption DEF TypeOK, Tree
<1>2. ASSUME NEW fs \in SUBSET File
      PROVE  [f \in File |-> IF f \in fs THEN work[f] ELSE head[f]] \in Tree
  BY DEF TypeOK, Tree
<1>3. ASSUME NEW t \in [File -> Edited]
      PROVE  /\ t \in Tree
             /\ [f \in File |-> IF t[f] # head[f] THEN t[f] ELSE work[f]] \in Tree
  BY ContentAssumption DEF TypeOK, Tree
<1>4. work \in Tree /\ head \in Tree
  BY DEF TypeOK
<1>5. CASE Edit
  BY <1>1, <1>4, <1>5 DEF Edit
<1>6. CASE Commit
  BY <1>2, <1>4, <1>6 DEF Commit
<1>7. CASE Switch
  BY <1>3, <1>7 DEF Switch
<1>. QED  BY <1>5, <1>6, <1>7

LEMMA TypeMove ==
  ASSUME TypeOK, NEW wt \in Tree, NEW h \in Tree, Move(wt, h)
  PROVE  TypeOK'
<1>1. ASSUME NEW v \in Worker PROVE run'[v] \in Run /\ RunInOrder(run'[v])
  <2>1. CASE run[v].pc = "idle"
    BY <2>1 DEF Move, TypeOK
  <2>2. CASE run[v].pc # "idle"
    <3>1. run'[v] = [run[v] EXCEPT !.alone = FALSE]
      BY <2>2 DEF Move
    <3>. QED  BY <3>1, <2>2, AloneOnly DEF TypeOK
  <2>. QED  BY <2>1, <2>2
<1>2. run' \in [Worker -> Run]
  BY <1>1 DEF Move
<1>3. raced' \subseteq File /\ missed' \subseteq File
  BY DEF Move, Moved, Returned, Changed, TypeOK
<1>. QED  BY <1>1, <1>2, <1>3 DEF Move, TypeOK

LEMMA TypeNext == TypeOK /\ [Next]_vars => TypeOK'
<1>1. ASSUME TypeOK, UNCHANGED vars PROVE TypeOK'
  BY <1>1 DEF vars, history, TypeOK
<1>. QED  BY <1>1, TypeIndex, EnvMoves, TypeMove DEF Next

\* Every variable keeps its type, and every run in progress is in order: a run
\* that marks has marks, a save never scans, an incremental run has a baseline.
THEOREM TypeCorrect == Spec => []TypeOK
  BY InitType, TypeNext, PTL DEF Spec

-----------------------------------------------------------------------------
(***************************************************************************)
(* The invariant IInv.  Steps differ in what they touch: a start, a step   *)
(* of one run, a write of rows, an end, a move of people or git.           *)
(***************************************************************************)

LEMMA Facts ==
  ASSUME TypeOK
  PROVE  /\ \A v \in Worker : run[v] \in Run /\ RunInOrder(run[v])
         /\ \A f \in File : work[f] \in Content /\ head[f] \in Content
         /\ \A f \in File, n \in Name : row[<<f, n>>] \in Row \cup {NoRow}
         /\ NoFile \notin Source /\ Garbled \notin Source /\ Unread \notin Source
  BY ContentAssumption DEF TypeOK, Tree

LEMMA InitIInv == Init => IInv
  BY DEF Init, IInv, NothingSlips, Live, Idle

\* Run u knows no less than r.
Agrees(r, u) ==
  /\ u.pc = r.pc /\ u.kind = r.kind /\ u.base = r.base /\ u.full = r.full
  /\ u.todo = r.todo /\ u.read = r.read /\ u.failed = r.failed /\ u.pin = r.pin
  /\ u.known = r.known /\ u.gone = r.gone /\ u.marks = r.marks /\ (u.alone => r.alone)

\* Nothing changes about f.
Untouched(f) ==
  /\ work'[f] = work[f] /\ head'[f] = head[f]
  /\ \A n \in Name : row'[<<f, n>>] = row[<<f, n>>]

LEMMA KnowsSame ==
  ASSUME TypeOK, NEW v \in Worker, NEW f \in File, NEW r \in Run, RunKnows(r, f),
         Agrees(r, run'[v]), Untouched(f)
  PROVE  RunKnows(run[v], f)'
<1>. USE DEF Agrees, Untouched
<1>2. ReadCurrent(run[v], f)' /\ FailedThere(run[v], f)'
  BY DEF RunKnows, ReadCurrent, FailedThere
<1>3. Covered(run[v], f)'
  BY DEF RunKnows, Covered, Changed
<1>4. GoneThere(run[v], f)' /\ MarksThere(run[v], f)'
  BY DEF RunKnows, GoneThere, MarksThere, Defines
<1>a. SkipsKnown(run[v], f)'
  BY DEF RunKnows, SkipsKnown, Defines, Fresh
<1>5. UpsertDone(run[v], f)'
  BY DEF RunKnows, UpsertDone, DefinedLive, Defines
<1>6. SweepDone(run[v], f)' /\ MissingDone(run[v], f)'
  BY DEF RunKnows, SweepDone, MissingDone, UndefinedStale, IsLive, Defines
<1>. QED  BY <1>2, <1>3, <1>4, <1>a, <1>5, <1>6 DEF RunKnows

\* f is untouched, and so is the run but for its history bit.
LEMMA KnowsKept ==
  ASSUME TypeOK, NEW v \in Worker, NEW f \in File, RunKnows(run[v], f), Untouched(f),
         run'[v] = run[v] \/ run'[v] = [run[v] EXCEPT !.alone = FALSE]
  PROVE  RunKnows(run[v], f)'
<1>1. run[v] \in Run
  BY Facts
<1>2. Agrees(run[v], run'[v])
  BY <1>1 DEF Agrees, Run
<1>. QED  BY <1>1, <1>2, KnowsSame

LEMMA MirroredKept ==
  ASSUME NEW f \in File, Mirrored(f), Untouched(f)
  PROVE  Mirrored(f)'
  BY DEF Mirrored, Defines, IsLive, Untouched

LEMMA BaseKept ==
  ASSUME NEW v \in Worker, BaseMirrored(run[v]),
         run'[v].base = run[v].base, run'[v].kind = run[v].kind,
         UNCHANGED <<work, head, row>>, raced \subseteq raced', missed \subseteq missed'
  PROVE  BaseMirrored(run[v])'
<1>. SUFFICES ASSUME run[v].kind = "reindex", run[v].base # NoTree,
                     NEW f \in File, f \in (Accounted \ Changed(run[v].base, head, work))'
              PROVE  Mirrored(f)'
  BY DEF BaseMirrored, Accounted
<1>1. f \in Accounted \ Changed(run[v].base, head, work)
  BY DEF Accounted, Changed
<1>2. Mirrored(f) /\ Untouched(f)
  BY <1>1 DEF BaseMirrored, Untouched
<1>. QED  BY <1>2, MirroredKept

-----------------------------------------------------------------------------
(* Starting a run.                                                         *)

\* The parts of IInv that hold of each run in progress.
LEMMA Parts ==
  ASSUME IInv, NEW w \in Worker
  PROVE  /\ NothingSlips
         /\ run[w].alone => Live = {w}
         /\ run[w].pc # "idle" => BaseMirrored(run[w])
         /\ \A f \in File : run[w].pc # "idle" /\ Follows(w, f) => RunKnows(run[w], f)
  BY DEF IInv, Live

\* A run that has read nothing knows all there is to know.
LEMMA FreshKnows ==
  ASSUME TypeOK, NEW w \in Worker, NEW f \in File,
         LET r == run'[w] IN
           /\ r.pc \in {"scan", "detect", "read"}
           /\ r.pc = "read" => r.kind = "save" /\ ~r.full
           /\ r.pc = "detect" => ~r.full
           /\ r.pc = "scan" => r.full
           /\ r.read[f] = Unread /\ r.failed = {} /\ r.gone = {} /\ r.marks = {}
           /\ r.pc # "read" => r.todo = {}
  PROVE  RunKnows(run[w], f)'
  BY DEF RunKnows, ReadCurrent, FailedThere, Covered, GoneThere, MarksThere, SkipsKnown,
         UpsertDone, SweepDone, MissingDone

LEMMA StartIInv ==
  ASSUME TypeOK, IInv, NEW w \in Worker, NEW r \in Run, Start(w, r),
         r.pc \in {"scan", "detect", "read"}, ~r.alone,
         r.pc = "read" => r.kind = "save" /\ ~r.full,
         r.pc = "detect" => ~r.full,
         r.pc = "scan" => r.full,
         r.failed = {}, r.gone = {}, r.marks = {},
         \A f \in File : r.read[f] = Unread,
         r.pc # "read" => r.todo = {},
         r.base \in {NoTree, baseline}
  PROVE  IInv'
<1>. DEFINE u == [r EXCEPT !.alone = (Live = {})]
<1>1. /\ run'[w] = u /\ run[w].pc = "idle"
      /\ UNCHANGED <<work, head, baseline, row, raced, missed>>
  BY DEF Start, history
<1>2. /\ u.pc = r.pc /\ u.kind = r.kind /\ u.base = r.base /\ u.full = r.full
      /\ u.todo = r.todo /\ u.read = r.read /\ u.failed = r.failed
      /\ u.gone = r.gone /\ u.marks = r.marks /\ u.alone = (Live = {})
  BY DEF Run
<1>. HIDE DEF u
<1>3. ASSUME NEW v \in Worker, v # w
      PROVE  /\ run[v].pc = "idle" => run'[v] = run[v] /\ ~run[v].alone
             /\ run[v].pc # "idle" => run'[v] = [run[v] EXCEPT !.alone = FALSE]
             /\ run'[v].pc = run[v].pc /\ run'[v].base = run[v].base
             /\ run'[v].kind = run[v].kind /\ ~run'[v].alone
  <2>1. run[v].pc = "idle" => run'[v] = run[v] /\ ~run[v].alone
    BY <1>3, Facts DEF Start, RunInOrder, Idle
  <2>2. run[v].pc # "idle" => run'[v] = [run[v] EXCEPT !.alone = FALSE]
    BY <1>3 DEF Start
  <2>3. run[v] \in Run
    BY Facts
  <2>. QED  BY <2>1, <2>2, <2>3 DEF Run
<1>4. NothingSlips'
  BY <1>1, Parts DEF NothingSlips, Accounted, Changed, Mirrored, Defines, IsLive
<1>5. ASSUME NEW v \in Worker, run'[v].alone PROVE Live' = {v}
  <2>1. v = w /\ Live = {}
    BY <1>1, <1>2, <1>3, <1>5
  <2>2. run'[w].pc # "idle"
    BY <1>1, <1>2
  <2>3. \A x \in Worker : x # w => run'[x].pc = "idle"
    BY <1>3, <2>1 DEF Live
  <2>. QED  BY <2>1, <2>2, <2>3 DEF Live
<1>6. ASSUME NEW v \in Worker, run'[v].pc # "idle" PROVE BaseMirrored(run[v])'
  <2>1. CASE v = w
    <3>1. run'[w].base \in {NoTree, baseline}
      BY <1>1, <1>2
    <3>2. baseline' = baseline
      BY <1>1
    <3>. QED  BY <1>4, <2>1, <3>1, <3>2 DEF BaseMirrored, NothingSlips
  <2>2. CASE v # w
    BY <1>1, <1>3, <1>6, <2>2, Parts, BaseKept
  <2>. QED  BY <2>1, <2>2
<1>7. ASSUME NEW v \in Worker, run'[v].pc # "idle", NEW f \in File, Follows(v, f)'
      PROVE  RunKnows(run[v], f)'
  <2>1. CASE v = w
    BY <1>1, <1>2, <2>1, FreshKnows
  <2>2. CASE v # w
    <3>1. run[v].pc # "idle" /\ Follows(v, f)
      BY <1>1, <1>3, <1>7, <2>2 DEF Follows
    <3>2. RunKnows(run[v], f) /\ Untouched(f)
      BY <1>1, <3>1, Parts DEF Untouched
    <3>. QED  BY <1>3, <2>2, <3>1, <3>2, KnowsKept
  <2>. QED  BY <2>1, <2>2
<1>. QED  BY <1>4, <1>5, <1>6, <1>7 DEF IInv, Live

LEMMA BeginIInv ==
  ASSUME TypeOK, IInv, NEW w \in Worker, BeginIndex(w) \/ BeginReindex(w) \/ BeginSave(w)
  PROVE  IInv'
<1>1. CASE BeginIndex(w)
  <2>. DEFINE r == [Idle EXCEPT !.pc = "scan", !.kind = "index", !.full = TRUE]
  <2>1. r \in Run /\ Start(w, r)
    BY <1>1, IdleType DEF BeginIndex, Idle, Run
  <2>2. /\ r.pc = "scan" /\ r.full /\ r.failed = {} /\ r.gone = {} /\ r.marks = {}
        /\ r.todo = {} /\ r.base = NoTree /\ r.read = [f \in File |-> Unread] /\ ~r.alone
    BY DEF Idle
  <2>. HIDE DEF r
  <2>. QED  BY <2>1, <2>2, StartIInv
<1>2. CASE BeginReindex(w)
  <2>. DEFINE r == [Idle EXCEPT !.pc = "detect", !.kind = "reindex", !.base = baseline]
  <2>1. r \in Run /\ Start(w, r)
    BY <1>2, IdleType DEF BeginReindex, Idle, Run, TypeOK
  <2>2. /\ r.pc = "detect" /\ ~r.full /\ r.failed = {} /\ r.gone = {} /\ r.marks = {}
        /\ r.todo = {} /\ r.base = baseline /\ r.read = [f \in File |-> Unread] /\ ~r.alone
    BY DEF Idle
  <2>. HIDE DEF r
  <2>. QED  BY <2>1, <2>2, StartIInv
<1>3. CASE BeginSave(w)
  <2>0. PICK g \in File :
          Start(w, [Idle EXCEPT !.pc = "read", !.kind = "save", !.todo = {g}])
    BY <1>3 DEF BeginSave
  <2>. DEFINE r == [Idle EXCEPT !.pc = "read", !.kind = "save", !.todo = {g}]
  <2>1. r \in Run /\ Start(w, r)
    BY <2>0, IdleType DEF Idle, Run
  <2>2. /\ r.pc = "read" /\ r.kind = "save" /\ ~r.full /\ r.failed = {} /\ r.gone = {}
        /\ r.marks = {} /\ r.base = NoTree /\ r.read = [f \in File |-> Unread] /\ ~r.alone
    BY DEF Idle
  <2>. HIDE DEF r
  <2>. QED  BY <2>1, <2>2, StartIInv
<1>. QED  BY <1>1, <1>2, <1>3

-----------------------------------------------------------------------------
(* Steps that read: only the run of w changes.                             *)

LEMMA StepIInv ==
  ASSUME TypeOK, IInv, NEW w \in Worker, NEW u \in Run, run[w].pc # "idle", u.pc # "idle",
         run' = [run EXCEPT ![w] = u],
         UNCHANGED <<work, head, baseline, row, history>>,
         u.alone = run[w].alone, u.kind = run[w].kind, u.base = run[w].base,
         \A f \in File : Follows(w, f) => RunKnows(u, f)
  PROVE  IInv'
<1>1. run'[w] = u /\ \A v \in Worker : v # w => run'[v] = run[v]
  BY DEF TypeOK
<1>2. UNCHANGED <<raced, missed>>
  BY DEF history
<1>3. \A f \in File : Untouched(f)
  BY DEF Untouched
<1>4. NothingSlips'
  BY <1>2, Parts DEF NothingSlips, Accounted, Changed, Mirrored, Defines, IsLive
<1>5. Live' = Live /\ \A v \in Worker : run'[v].alone = run[v].alone
  BY <1>1 DEF Live
<1>6. ASSUME NEW v \in Worker, run'[v].pc # "idle" PROVE BaseMirrored(run[v])'
  <2>1. run[v].pc # "idle" /\ run'[v].base = run[v].base /\ run'[v].kind = run[v].kind
    BY <1>1, <1>6
  <2>. QED  BY <1>2, <2>1, Parts, BaseKept
<1>7. ASSUME NEW v \in Worker, run'[v].pc # "idle", NEW f \in File, Follows(v, f)'
      PROVE  RunKnows(run[v], f)'
  <2>0. Follows(v, f)
    BY <1>2, <1>5, <1>7 DEF Follows
  <2>1. CASE v = w
    BY <1>1, <1>3, <2>0, <2>1, KnowsSame DEF Agrees
  <2>2. CASE v # w
    BY <1>1, <1>3, <1>7, <2>0, <2>2, KnowsKept, Parts
  <2>. QED  BY <2>1, <2>2
<1>8. ASSUME NEW v \in Worker, run'[v].alone PROVE Live' = {v}
  BY <1>5, <1>8, Parts
<1>. QED  BY <1>4, <1>6, <1>7, <1>8 DEF IInv, Live

LEMMA ScanIInv ==
  ASSUME TypeOK, IInv, NEW w \in Worker, Scan(w)
  PROVE  IInv'
<1>. DEFINE r == run[w]
            u == [r EXCEPT !.pc = "read", !.todo = {f \in File \ Denied : work[f] # NoFile}]
<1>1. r \in Run /\ RunInOrder(r) /\ r.pc = "scan"
  BY Facts DEF Scan
<1>2. /\ u.pc = "read" /\ u.kind = r.kind /\ u.base = r.base /\ u.full = r.full
      /\ u.todo = {f \in File \ Denied : work[f] # NoFile} /\ u.read = r.read
      /\ u.failed = r.failed /\ u.pin = r.pin
      /\ u.gone = r.gone /\ u.marks = r.marks /\ u.alone = r.alone /\ u \in Run
  BY <1>1 DEF Run
<1>3. Step(w, u)
  BY DEF Scan
<1>. HIDE DEF u
<1>4. ASSUME NEW f \in File PROVE RunKnows(u, f)
  BY <1>1, <1>2
  DEF RunInOrder, RunKnows, ReadCurrent, FailedThere, Covered, GoneThere, MarksThere,
      SkipsKnown, UpsertDone, SweepDone, MissingDone
<1>. QED  BY <1>1, <1>2, <1>3, <1>4, StepIInv DEF Step

LEMMA DetectIInv ==
  ASSUME TypeOK, IInv, NEW w \in Worker, Detect(w)
  PROVE  IInv'
<1>. DEFINE r == run[w]
            dead == Deleted(r.base, head, work)
            todo == Changed(r.base, head, work) \ dead
            u1 == [r EXCEPT !.pc = "scan", !.full = TRUE]
            u2 == [r EXCEPT !.pc = IF todo \cup dead = {} THEN "record" ELSE "read",
                            !.todo = todo, !.gone = dead]
<1>1. r \in Run /\ RunInOrder(r) /\ r.pc = "detect"
  BY Facts DEF Detect
<1>2. /\ ~r.full /\ r.failed = {} /\ r.marks = {} /\ r.todo = {} /\ r.gone = {}
      /\ \A f \in File : r.read[f] = Unread
  BY <1>1 DEF RunInOrder
<1>3. CASE r.base = NoTree
  <2>1. /\ u1.pc = "scan" /\ u1.kind = r.kind /\ u1.base = r.base /\ u1.full
        /\ u1.todo = r.todo /\ u1.read = r.read /\ u1.failed = r.failed
        /\ u1.gone = r.gone /\ u1.marks = r.marks /\ u1.alone = r.alone /\ u1 \in Run
    BY <1>1 DEF Run
  <2>2. Step(w, u1)
    BY <1>3 DEF Detect
  <2>. HIDE DEF u1
  <2>3. ASSUME NEW f \in File PROVE RunKnows(u1, f)
    BY <1>2, <2>1
    DEF RunKnows, ReadCurrent, FailedThere, Covered, GoneThere, MarksThere,
        SkipsKnown, UpsertDone, SweepDone, MissingDone
  <2>. QED  BY <1>1, <2>1, <2>2, <2>3, StepIInv DEF Step
<1>4. CASE r.base # NoTree
  <2>0. /\ dead \subseteq File /\ todo \subseteq File
        /\ \A f \in Changed(r.base, head, work) : f \in todo \cup dead
        /\ \A f \in dead : head[f] = NoFile \/ work[f] = NoFile
    BY DEF Deleted, Changed
  <2>1. Step(w, u2)
    BY <1>4 DEF Detect
  <2>. HIDE DEF dead, todo
  <2>2. /\ u2.pc = IF todo \cup dead = {} THEN "record" ELSE "read"
        /\ u2.kind = r.kind /\ u2.base = r.base /\ ~u2.full
        /\ u2.todo = todo /\ u2.read = r.read /\ u2.failed = {}
        /\ u2.gone = dead /\ u2.marks = {} /\ u2.alone = r.alone /\ u2 \in Run
    BY <1>1, <1>2, <2>0 DEF Run
  <2>. HIDE DEF u2
  <2>3. ASSUME NEW f \in File PROVE RunKnows(u2, f)
    BY <1>2, <2>0, <2>2
    DEF RunKnows, ReadCurrent, FailedThere, Covered, GoneThere, MarksThere,
        SkipsKnown, UpsertDone, SweepDone, MissingDone
  <2>. QED  BY <1>1, <2>1, <2>2, <2>3, StepIInv DEF Step
<1>. QED  BY <1>3, <1>4

LEMMA ReadIInv ==
  ASSUME TypeOK, IInv, NEW w \in Worker, NEW g \in File, ReadFile(w, g) \/ ReadError(w, g)
  PROVE  IInv'
<1>. DEFINE r == run[w]
            u0 == [r EXCEPT !.todo = @ \ {g}]
            u1 == [u0 EXCEPT !.read[g] = work[g]]
            u2 == [u0 EXCEPT !.failed = @ \cup {g}]
            u3 == [u0 EXCEPT !.failed = @ \cup {g}, !.pin = TRUE]
<1>1. r \in Run /\ RunInOrder(r) /\ r.pc = "read" /\ g \in r.todo /\ g \notin r.gone
      /\ r.marks = {}
  BY Facts DEF ReadFile, ReadError, RunInOrder
<1>2. ASSUME NEW f \in File, Follows(w, f) PROVE RunKnows(r, f)
  BY <1>1, <1>2, Parts
<1>3. CASE ReadFile(w, g) /\ work[g] \in Source
  <2>1. /\ u1.pc = r.pc /\ u1.kind = r.kind /\ u1.base = r.base /\ u1.full = r.full
        /\ u1.todo = r.todo \ {g} /\ u1.failed = r.failed /\ u1.pin = r.pin
        /\ u1.read = [r.read EXCEPT ![g] = work[g]]
        /\ u1.gone = r.gone /\ u1.marks = r.marks /\ u1.alone = r.alone /\ u1 \in Run
    BY <1>1, <1>3 DEF Run
  <2>2. Step(w, u1)
    BY <1>3, ContentAssumption DEF ReadFile
  <2>. HIDE DEF u1
  <2>3. /\ u1.read[g] = work[g] /\ work[g] # Unread
        /\ \A f \in File : f # g => u1.read[f] = r.read[f]
    BY <1>1, <1>3, <2>1, ContentAssumption DEF Run
  <2>4. ASSUME NEW f \in File, Follows(w, f) PROVE RunKnows(u1, f)
    BY <1>1, <1>2, <2>1, <2>3, <2>4
    DEF RunKnows, ReadCurrent, FailedThere, Covered, GoneThere, MarksThere,
        SkipsKnown, UpsertDone, SweepDone, MissingDone
  <2>. QED  BY <1>1, <2>1, <2>2, <2>4, StepIInv DEF Step
<1>4. CASE ReadFile(w, g) /\ work[g] = Garbled
  <2>1. /\ u2.pc = r.pc /\ u2.kind = r.kind /\ u2.base = r.base /\ u2.full = r.full
        /\ u2.todo = r.todo \ {g} /\ u2.failed = r.failed \cup {g} /\ u2.pin = r.pin
        /\ u2.read = r.read
        /\ u2.gone = r.gone /\ u2.marks = r.marks /\ u2.alone = r.alone /\ u2 \in Run
    BY <1>1 DEF Run
  <2>2. Step(w, u2)
    BY <1>4, ContentAssumption DEF ReadFile
  <2>. HIDE DEF u2
  <2>3. ASSUME NEW f \in File, Follows(w, f) PROVE RunKnows(u2, f)
    BY <1>1, <1>2, <1>4, <2>1, <2>3, ContentAssumption
    DEF RunKnows, ReadCurrent, FailedThere, Covered, GoneThere, MarksThere,
        SkipsKnown, UpsertDone, SweepDone, MissingDone
  <2>. QED  BY <1>1, <2>1, <2>2, <2>3, StepIInv DEF Step
<1>5. CASE (ReadFile(w, g) /\ work[g] = NoFile) \/ ReadError(w, g)
  <2>1. /\ u3.pc = r.pc /\ u3.kind = r.kind /\ u3.base = r.base /\ u3.full = r.full
        /\ u3.todo = r.todo \ {g} /\ u3.failed = r.failed \cup {g} /\ u3.pin
        /\ u3.read = r.read
        /\ u3.gone = r.gone /\ u3.marks = r.marks /\ u3.alone = r.alone /\ u3 \in Run
    BY <1>1 DEF Run
  <2>2. ASSUME ReadError(w, g)
        PROVE  run' = [run EXCEPT ![w] = u3] /\ UNCHANGED <<work, head, baseline, row, history>>
    <3>1. run' = [run EXCEPT ![w] = u3]
      BY <2>2 DEF ReadError, TypeOK
    <3>2. UNCHANGED <<work, head, baseline, row, history>>
      BY <2>2 DEF ReadError
    <3>. QED  BY <3>1, <3>2
  <2>3. ASSUME ReadFile(w, g), work[g] = NoFile
        PROVE  run' = [run EXCEPT ![w] = u3] /\ UNCHANGED <<work, head, baseline, row, history>>
    <3>1. Step(w, u3)
      BY <2>3, ContentAssumption DEF ReadFile
    <3>. QED  BY <3>1 DEF Step
  <2>4. run' = [run EXCEPT ![w] = u3] /\ UNCHANGED <<work, head, baseline, row, history>>
    BY <1>5, <2>2, <2>3
  <2>. HIDE DEF u3
  <2>5. ASSUME NEW f \in File, Follows(w, f) PROVE RunKnows(u3, f)
    BY <1>1, <1>2, <2>1, <2>5
    DEF RunKnows, ReadCurrent, FailedThere, Covered, GoneThere, MarksThere,
        SkipsKnown, UpsertDone, SweepDone, MissingDone
  <2>. QED  BY <1>1, <2>1, <2>4, <2>5, StepIInv
<1>6. work[g] \in Source \cup {NoFile, Garbled}
  BY Facts DEF Content
<1>. QED  BY <1>3, <1>4, <1>5, <1>6

LEMMA SelectMissingIInv ==
  ASSUME TypeOK, IInv, NEW w \in Worker, SelectMissing(w)
  PROVE  IInv'
<1>. DEFINE r == run[w]
            paths == MissingPaths(r)
            u == [r EXCEPT !.gone = paths, !.pc = IF paths = {} THEN "removed" ELSE "gone"]
<1>1. r \in Run /\ RunInOrder(r) /\ r.pc = "missing"
  BY Facts DEF SelectMissing
<1>2. r.full /\ r.todo = {} /\ r.marks = {}
  BY <1>1 DEF RunInOrder
<1>3. Step(w, u)
  BY DEF SelectMissing
<1>4. /\ paths \subseteq File
      /\ \A f \in paths : r.read[f] = Unread /\ f \notin r.failed
      /\ \A f \in File \ paths :
           \/ f \in r.failed \/ r.read[f] # Unread \/ UndefinedStale(f)
  BY DEF MissingPaths, UndefinedStale
<1>. HIDE DEF paths
<1>5. /\ u.pc = IF paths = {} THEN "removed" ELSE "gone"
      /\ u.kind = r.kind /\ u.base = r.base /\ u.full
      /\ u.todo = {} /\ u.read = r.read /\ u.failed = r.failed /\ u.pin = r.pin
      /\ u.gone = paths /\ u.marks = {} /\ u.alone = r.alone /\ u \in Run
  BY <1>1, <1>2, <1>4 DEF Run
<1>. HIDE DEF u
<1>6. ASSUME NEW f \in File, Follows(w, f) PROVE RunKnows(u, f)
  <2>1. RunKnows(r, f)
    BY <1>1, <1>6, Parts
  <2>2. ReadCurrent(u, f) /\ FailedThere(u, f) /\ Covered(u, f)
    BY <1>1, <1>2, <1>5, <2>1 DEF RunKnows, ReadCurrent, FailedThere, Covered
  <2>3. GoneThere(u, f)
    BY <1>1, <1>2, <1>4, <1>5, <2>1 DEF RunKnows, GoneThere, Covered
  <2>4. MarksThere(u, f) /\ SkipsKnown(u, f) /\ UpsertDone(u, f) /\ SweepDone(u, f)
    BY <1>1, <1>5, <2>1 DEF RunKnows, MarksThere, SkipsKnown, UpsertDone, SweepDone
  <2>5. ASSUME work[f] = NoFile, f \notin paths PROVE UndefinedStale(f)
    <3>1. f \notin r.failed
      BY <1>2, <2>1, <2>5 DEF RunKnows, FailedThere
    <3>2. r.read[f] = Unread
      BY <1>1, <2>1, <2>5, ContentAssumption DEF RunKnows, ReadCurrent, Run
    <3>. QED  BY <1>4, <2>5, <3>1, <3>2
  <2>6. MissingDone(u, f)
    BY <1>5, <2>5 DEF MissingDone
  <2>. QED  BY <2>2, <2>3, <2>4, <2>6 DEF RunKnows
<1>. QED  BY <1>1, <1>3, <1>5, <1>6, StepIInv DEF Step

LEMMA SelectRemovedIInv ==
  ASSUME TypeOK, IInv, NEW w \in Worker, SelectRemoved(w)
  PROVE  IInv'
<1>. DEFINE r == run[w]
            ids == RemovedNames(r)
            u == [r EXCEPT !.marks = ids, !.pc = IF ids = {} THEN AfterMarks(r) ELSE "mark"]
<1>1. r \in Run /\ RunInOrder(r) /\ r.pc = "removed"
  BY Facts DEF SelectRemoved
<1>2. r.todo = {}
  BY <1>1 DEF RunInOrder
<1>3. Step(w, u)
  BY DEF SelectRemoved
<1>4. /\ ids \subseteq File \X Name
      /\ \A f \in File, n \in Name :
           <<f, n>> \in ids <=> r.read[f] # Unread /\ IsLive(<<f, n>>) /\ ~Defines(r.read[f], n)
  BY DEF RemovedNames
<1>5. AfterMarks(r) = IF ~r.full /\ r.gone # {} THEN "gone" ELSE "record"
  BY DEF AfterMarks
<1>. HIDE DEF ids
<1>6. /\ u.pc = IF ids = {} THEN AfterMarks(r) ELSE "mark"
      /\ u.kind = r.kind /\ u.base = r.base /\ u.full = r.full
      /\ u.todo = {} /\ u.read = r.read /\ u.failed = r.failed /\ u.pin = r.pin
      /\ u.gone = r.gone /\ u.marks = ids /\ u.alone = r.alone /\ u \in Run
  BY <1>1, <1>2, <1>4, <1>5 DEF Run
<1>. HIDE DEF u
<1>7. ASSUME NEW f \in File, Follows(w, f) PROVE RunKnows(u, f)
  <2>1. RunKnows(r, f)
    BY <1>1, <1>7, Parts
  <2>2. ReadCurrent(u, f) /\ FailedThere(u, f) /\ Covered(u, f) /\ GoneThere(u, f)
    BY <1>1, <1>2, <1>5, <1>6, <2>1
    DEF RunKnows, ReadCurrent, FailedThere, Covered, GoneThere
  <2>3. MarksThere(u, f)
    BY <1>4, <1>6, <2>1 DEF RunKnows, MarksThere, ReadCurrent
  <2>4. SkipsKnown(u, f) /\ UpsertDone(u, f)
    BY <1>1, <1>5, <1>6, <2>1 DEF RunKnows, SkipsKnown, UpsertDone
  <2>5. SweepDone(u, f)
    BY <1>4, <1>5, <1>6, <2>1 DEF RunKnows, SweepDone, ReadCurrent, UndefinedStale
  <2>6. MissingDone(u, f)
    BY <1>1, <1>5, <1>6, <2>1 DEF RunKnows, MissingDone
  <2>. QED  BY <2>2, <2>3, <2>4, <2>5, <2>6 DEF RunKnows
<1>. QED  BY <1>1, <1>3, <1>5, <1>6, <1>7, StepIInv DEF Step

-----------------------------------------------------------------------------
(* Steps that write rows.                                                  *)

\* What a write may do to a row: nothing, bring it up to date, or retire it
\* with cause.
GoodRow(f, n) ==
  \/ row'[<<f, n>>] = row[<<f, n>>]
  \/ Defines(work[f], n) /\ row'[<<f, n>>] = [live |-> TRUE, body |-> work[f][n]]
  \/ /\ ~IsLive(<<f, n>>)'
     /\ \/ f \in Denied \/ work[f] = NoFile \/ head[f] = NoFile
        \/ work[f] \in Source /\ work[f][n] = NoDef

\* f itself does not change, and its rows only for good.
Served(f) ==
  /\ work'[f] = work[f] /\ head'[f] = head[f]
  /\ \A n \in Name : GoodRow(f, n)

LEMMA UndefinedServed ==
  ASSUME NEW f \in File, Served(f), UndefinedStale(f)
  PROVE  UndefinedStale(f)'
  BY DEF Served, GoodRow, UndefinedStale, IsLive, Defines

LEMMA DefinedServed ==
  ASSUME NEW f \in File, Served(f), DefinedLive(f), f \notin Denied, head[f] # NoFile
  PROVE  DefinedLive(f)'
  BY ContentAssumption DEF Served, GoodRow, DefinedLive, IsLive, Defines

LEMMA MirroredServed ==
  ASSUME NEW f \in File, Served(f), Mirrored(f), f \notin Denied, head[f] = work[f]
  PROVE  Mirrored(f)'
<1>1. CASE work[f] = Garbled
  BY <1>1 DEF Served, Mirrored
<1>2. CASE work[f] # Garbled
  <2>1. UndefinedStale(f)' /\ DefinedLive(f)
    BY <1>2, UndefinedServed DEF Mirrored, UndefinedStale, DefinedLive
  <2>2. DefinedLive(f)'
    <3>1. CASE work[f] = NoFile
      BY <3>1, ContentAssumption DEF Served, DefinedLive, Defines
    <3>. QED  BY <2>1, <3>1, DefinedServed
  <2>. QED  BY <2>1, <2>2 DEF Mirrored, UndefinedStale, DefinedLive
<1>. QED  BY <1>1, <1>2

\* What another run knows about f survives the write.
LEMMA OthersKnow ==
  ASSUME TypeOK, NEW v \in Worker, NEW f \in File, RunKnows(run[v], f), Served(f),
         run'[v] = run[v], ~run[v].alone
  PROVE  RunKnows(run[v], f)'
<1>1. work'[f] = work[f] /\ head'[f] = head[f]
  BY DEF Served
<1>2. ReadCurrent(run[v], f)' /\ FailedThere(run[v], f)' /\ Covered(run[v], f)'
  BY <1>1 DEF RunKnows, ReadCurrent, FailedThere, Covered, Changed
<1>3. GoneThere(run[v], f)' /\ MarksThere(run[v], f)'
  BY <1>1 DEF RunKnows, GoneThere, MarksThere, Defines
<1>a. SkipsKnown(run[v], f)'
  <2>. SUFFICES ASSUME run[v].pc = "rows", head[f] # NoFile, f \notin Denied,
                       NEW n \in Name, Defines(run[v].read[f], n)
                PROVE  LET new == Fresh(run[v], <<f, n>>)
                       IN  /\ run[v].known[<<f, n>>] = new => row'[<<f, n>>] = new
                           /\ run[v].known[<<f, n>>] = NoRow => row'[<<f, n>>] \in {NoRow, new}
    BY <1>1 DEF SkipsKnown, Fresh, Defines
  <2>. DEFINE new == Fresh(run[v], <<f, n>>)
  <2>1. run[v].read[f] = work[f] /\ work[f] \in Source /\ work[f][n] # NoDef /\ work[f] # NoFile
    BY ContentAssumption DEF RunKnows, ReadCurrent, Defines
  <2>2. new = [live |-> TRUE, body |-> work[f][n]]
    BY <2>1 DEF Fresh
  <2>3. GoodRow(f, n)
    BY DEF Served
  <2>4. \/ row'[<<f, n>>] = row[<<f, n>>]
        \/ row'[<<f, n>>] = new
    BY <2>1, <2>2, <2>3 DEF GoodRow
  <2>. HIDE DEF new
  <2>5. /\ run[v].known[<<f, n>>] = new => row[<<f, n>>] = new
        /\ run[v].known[<<f, n>>] = NoRow => row[<<f, n>>] \in {NoRow, new}
    BY DEF RunKnows, SkipsKnown, new
  <2>. QED  BY <2>4, <2>5 DEF new
<1>4. UpsertDone(run[v], f)'
  BY <1>1, DefinedServed DEF RunKnows, UpsertDone
<1>5. SweepDone(run[v], f)'
  <2>1. ASSUME NEW n \in Name, ~Defines(work[f], n), IsLive(<<f, n>>)'
        PROVE  IsLive(<<f, n>>)
    BY <2>1 DEF Served, GoodRow, IsLive
  <2>2. \A n \in Name : Defines(work[f], n)' <=> Defines(work[f], n)
    BY <1>1 DEF Defines
  <2>. QED  BY <2>1, <2>2, UndefinedServed DEF RunKnows, SweepDone
<1>6. MissingDone(run[v], f)'
  BY <1>1, UndefinedServed DEF RunKnows, MissingDone
<1>. QED  BY <1>2, <1>3, <1>a, <1>4, <1>5, <1>6 DEF RunKnows

LEMMA WriteIInv ==
  ASSUME TypeOK, IInv, NEW w \in Worker, NEW u \in Run, run[w].pc # "idle", u.pc # "idle",
         run' = [run EXCEPT ![w] = u],
         UNCHANGED <<work, head, baseline>>,
         raced \subseteq raced', missed \subseteq missed',
         u.alone => run[w].alone, u.kind = run[w].kind, u.base = run[w].base,
         \A f \in File : Follows(w, f) => \A n \in Name : GoodRow(f, n),
         \A f \in File : Follows(w, f)' => RunKnows(run[w], f)'
  PROVE  IInv'
<1>1. run'[w] = u /\ \A v \in Worker : v # w => run'[v] = run[v]
  BY DEF TypeOK
<1>2. Live' = Live /\ w \in Live /\ \A v \in Worker : run'[v].alone => run[v].alone
  BY <1>1 DEF Live
<1>3. ASSUME NEW f \in Accounted PROVE Served(f)
  BY <1>3 DEF Accounted, Follows, Served
<1>4. NothingSlips'
  <2>. SUFFICES ASSUME baseline # NoTree,
                       NEW f \in File, f \in (Accounted \ Changed(baseline, head, work))'
                PROVE  Mirrored(f)'
    BY DEF NothingSlips, Accounted
  <2>1. f \in Accounted /\ f \notin Changed(baseline, head, work)
    BY DEF Accounted, Changed
  <2>2. Mirrored(f) /\ f \notin Denied /\ head[f] = work[f]
    BY <2>1, Parts DEF NothingSlips, Accounted, Changed
  <2>. QED  BY <1>3, <2>1, <2>2, MirroredServed
<1>5. ASSUME NEW v \in Worker, run'[v].pc # "idle" PROVE BaseMirrored(run[v])'
  <2>0. run[v].pc # "idle" /\ run'[v].base = run[v].base /\ run'[v].kind = run[v].kind
    BY <1>1, <1>5
  <2>. SUFFICES ASSUME run[v].kind = "reindex", run[v].base # NoTree,
                       NEW f \in File, f \in (Accounted \ Changed(run[v].base, head, work))'
                PROVE  Mirrored(f)'
    BY <2>0 DEF BaseMirrored, Accounted
  <2>1. f \in Accounted /\ f \notin Changed(run[v].base, head, work)
    BY <2>0 DEF Accounted, Changed
  <2>2. Mirrored(f) /\ f \notin Denied /\ head[f] = work[f]
    BY <2>0, <2>1, Parts DEF BaseMirrored, Accounted, Changed
  <2>. QED  BY <1>3, <2>1, <2>2, MirroredServed
<1>6. ASSUME NEW v \in Worker, run'[v].pc # "idle", NEW f \in File, Follows(v, f)'
      PROVE  RunKnows(run[v], f)'
  <2>1. CASE v = w
    BY <1>6, <2>1
  <2>2. CASE v # w
    <3>1. run'[v] = run[v] /\ v \in Live /\ ~run[v].alone
      BY <1>1, <1>2, <1>6, <2>2, Parts DEF Live
    <3>2. f \notin raced \cup missed
      BY <1>6, <3>1 DEF Follows
    <3>3. RunKnows(run[v], f) /\ Served(f)
      BY <3>1, <3>2, Parts DEF Follows, Served, Live
    <3>. QED  BY <3>1, <3>3, OthersKnow
  <2>. QED  BY <2>1, <2>2
<1>7. ASSUME NEW v \in Worker, run'[v].alone PROVE Live' = {v}
  BY <1>2, <1>7, Parts
<1>. QED  BY <1>4, <1>5, <1>6, <1>7 DEF IInv, Live

\* In each of the three statements, u is the run after it, and the rows of f
\* are as the statement leaves them.

LEMMA UpsertKnows ==
  ASSUME TypeOK, IInv, NEW w \in Worker, NEW f \in File, Follows(w, f),
         run[w].pc \in {"read", "rows"}, run[w].todo = {},
         LET r == run[w]
             u == run'[w]
         IN  /\ u.pc = AfterUpsert(r)
             /\ u.kind = r.kind /\ u.base = r.base /\ u.full = r.full
             /\ u.todo = r.todo /\ u.read = r.read /\ u.failed = r.failed /\ u.pin = r.pin
             /\ u.gone = r.gone /\ u.marks = r.marks /\ (u.alone => r.alone),
         work'[f] = work[f], head'[f] = head[f],
         run[w].read[f] # Unread => run[w].pc = "rows",
         \A n \in Name :
           row'[<<f, n>>] = IF run[w].pc = "rows" THEN Upserted(run[w])[<<f, n>>] ELSE row[<<f, n>>]
  PROVE  RunKnows(run[w], f)' /\ Served(f)
<1> DEFINE r == run[w]
<1>1. RunKnows(r, f) /\ r.marks = {} /\ r \in Run
  BY Facts, Parts DEF RunInOrder
<1>2. run'[w].pc \in {"missing", "removed"}
  BY DEF AfterUpsert
<1>3. r.read[f] # Unread => r.read[f] = work[f]
  BY <1>1 DEF RunKnows, ReadCurrent
<1>4. r.read[f] = Unread => \A n \in Name : ~Defines(r.read[f], n)
  BY ContentAssumption DEF Defines
<1>a. ASSUME NEW n \in Name
      PROVE  /\ ~Defines(r.read[f], n) => row'[<<f, n>>] = row[<<f, n>>]
             /\ Defines(r.read[f], n) =>
                  /\ r.pc = "rows" /\ Defines(work[f], n)
                  /\ Fresh(r, <<f, n>>) = [live |-> TRUE, body |-> work[f][n]]
                  /\ row'[<<f, n>>] = IF \/ r.known[<<f, n>>] = Fresh(r, <<f, n>>)
                                         \/ r.known[<<f, n>>] = NoRow /\ row[<<f, n>>] # NoRow
                                      THEN row[<<f, n>>] ELSE Fresh(r, <<f, n>>)
  <2>1. Defines(r.read[f], n) => r.pc = "rows" /\ Defines(work[f], n)
    BY <1>3, <1>4
  <2>2. Defines(r.read[f], n) => Fresh(r, <<f, n>>) = [live |-> TRUE, body |-> work[f][n]]
    BY <1>3, <1>4 DEF Fresh
  <2>3. r.pc = "rows" =>
          row'[<<f, n>>] = IF \/ ~Defines(r.read[f], n)
                              \/ r.known[<<f, n>>] = Fresh(r, <<f, n>>)
                              \/ r.known[<<f, n>>] = NoRow /\ row[<<f, n>>] # NoRow
                           THEN row[<<f, n>>] ELSE Fresh(r, <<f, n>>)
    BY DEF Upserted
  <2>. QED  BY <2>1, <2>2, <2>3
<1>b. ASSUME r.alone \/ (head[f] # NoFile /\ f \notin Denied), NEW n \in Name, Defines(r.read[f], n)
      PROVE  row'[<<f, n>>] = Fresh(r, <<f, n>>)
  <2>1. r.pc = "rows"
    BY <1>a, <1>b
  <2>2. /\ r.known[<<f, n>>] = Fresh(r, <<f, n>>) => row[<<f, n>>] = Fresh(r, <<f, n>>)
        /\ r.known[<<f, n>>] = NoRow => row[<<f, n>>] \in {NoRow, Fresh(r, <<f, n>>)}
    BY <1>1, <1>b, <2>1 DEF RunKnows, SkipsKnown
  <2>. QED  BY <1>a, <1>b, <2>2
<1>5. Served(f)
  <2>1. ASSUME NEW n \in Name PROVE GoodRow(f, n)
    BY <1>a DEF GoodRow
  <2>. QED  BY <2>1 DEF Served
<1>6. ReadCurrent(run[w], f)' /\ FailedThere(run[w], f)' /\ Covered(run[w], f)'
  BY <1>1, <1>2 DEF RunKnows, ReadCurrent, FailedThere, Covered, Changed
<1>7. GoneThere(run[w], f)' /\ MarksThere(run[w], f)'
  BY <1>1 DEF RunKnows, GoneThere, MarksThere
<1>8. UpsertDone(run[w], f)'
  <2>. SUFFICES ASSUME r.read[f] # Unread, r.alone \/ (head[f] # NoFile /\ f \notin Denied),
                       NEW n \in Name, Defines(work[f], n)
                PROVE  row'[<<f, n>>] = [live |-> TRUE, body |-> work[f][n]]
    BY DEF UpsertDone, DefinedLive, Defines
  <2>1. Defines(r.read[f], n)
    BY <1>3
  <2>. QED  BY <1>a, <1>b, <2>1
<1>9. SkipsKnown(run[w], f)' /\ SweepDone(run[w], f)' /\ MissingDone(run[w], f)'
  BY <1>2 DEF AfterUpsert, SkipsKnown, SweepDone, MissingDone
<1>. QED  BY <1>5, <1>6, <1>7, <1>8, <1>9 DEF RunKnows

LEMMA MarkGoneKnows ==
  ASSUME TypeOK, IInv, NEW w \in Worker, NEW f \in File, Follows(w, f),
         run[w].pc = "gone",
         LET r == run[w]
             u == run'[w]
         IN  /\ u.pc = (IF r.full THEN "removed" ELSE "record")
             /\ u.kind = r.kind /\ u.base = r.base /\ u.full = r.full
             /\ u.todo = r.todo /\ u.read = r.read /\ u.failed = r.failed /\ u.pin = r.pin
             /\ u.gone = r.gone /\ u.marks = r.marks /\ (u.alone => r.alone),
         work'[f] = work[f], head'[f] = head[f],
         \A n \in Name :
           row'[<<f, n>>] = IF f \in run[w].gone THEN Stale(<<f, n>>) ELSE row[<<f, n>>]
  PROVE  RunKnows(run[w], f)' /\ Served(f)
<1>1. RunKnows(run[w], f) /\ run[w].marks = {}
  BY Facts, Parts DEF RunInOrder
<1>2. ASSUME f \in run[w].gone, NEW n \in Name PROVE ~IsLive(<<f, n>>)'
  BY <1>2, Facts DEF Stale, IsLive, Row
<1>3. f \in run[w].gone => f \in Denied \/ work[f] = NoFile \/ head[f] = NoFile
  BY <1>1 DEF RunKnows, GoneThere
<1>4. Served(f)
  BY <1>2, <1>3 DEF Served, GoodRow
<1>5. ReadCurrent(run[w], f)' /\ FailedThere(run[w], f)' /\ Covered(run[w], f)'
  BY <1>1 DEF RunKnows, ReadCurrent, FailedThere, Covered, Changed
<1>6. GoneThere(run[w], f)' /\ MarksThere(run[w], f)'
  BY <1>1 DEF RunKnows, GoneThere, MarksThere
<1>7. run[w].read[f] # Unread => f \notin run[w].gone
  BY <1>1 DEF RunKnows, GoneThere
<1>8. UpsertDone(run[w], f)'
  BY <1>1, <1>7 DEF RunKnows, UpsertDone, DefinedLive, Defines
<1>a. SkipsKnown(run[w], f)'
  BY DEF SkipsKnown
<1>9. SweepDone(run[w], f)'
  BY <1>1, <1>7 DEF RunKnows, SweepDone, UndefinedStale, IsLive, Defines
<1>10. MissingDone(run[w], f)'
  <2>1. f \in run[w].gone => UndefinedStale(f)'
    BY <1>2 DEF UndefinedStale
  <2>2. f \notin run[w].gone /\ UndefinedStale(f) => UndefinedStale(f)'
    BY <1>4, UndefinedServed
  <2>. QED  BY <1>1, <2>1, <2>2 DEF RunKnows, MissingDone
<1>. QED  BY <1>4, <1>5, <1>6, <1>8, <1>a, <1>9, <1>10 DEF RunKnows

LEMMA MarkRemovedKnows ==
  ASSUME TypeOK, IInv, NEW w \in Worker, NEW f \in File, Follows(w, f),
         run[w].pc = "mark",
         LET r == run[w]
             u == run'[w]
         IN  /\ u.pc = AfterMarks(r)
             /\ u.kind = r.kind /\ u.base = r.base /\ u.full = r.full
             /\ u.todo = r.todo /\ u.read = r.read /\ u.failed = r.failed /\ u.pin = r.pin
             /\ u.gone = r.gone /\ u.marks = {} /\ (u.alone => r.alone),
         work'[f] = work[f], head'[f] = head[f],
         \A n \in Name :
           row'[<<f, n>>] = IF <<f, n>> \in run[w].marks THEN Stale(<<f, n>>)
                                                          ELSE row[<<f, n>>]
  PROVE  RunKnows(run[w], f)' /\ Served(f)
<1>0. run[w] \in Run /\ AfterMarks(run[w]) = IF ~run[w].full /\ run[w].gone # {}
                                               THEN "gone" ELSE "record"
  BY Facts DEF AfterMarks
<1>1. RunKnows(run[w], f)
  BY Parts
<1>2. ASSUME NEW n \in Name, <<f, n>> \in run[w].marks
      PROVE  ~IsLive(<<f, n>>)' /\ work[f] \in Source /\ work[f][n] = NoDef
  <2>1. ~IsLive(<<f, n>>)'
    BY <1>2, Facts DEF Stale, IsLive, Row
  <2>2. run[w].read[f] # Unread /\ run[w].read[f] = work[f] /\ ~Defines(work[f], n)
    BY <1>1, <1>2 DEF RunKnows, MarksThere, ReadCurrent
  <2>3. work[f] \in Source
    BY <1>0, <2>2 DEF Run
  <2>. QED  BY <2>1, <2>2, <2>3 DEF Defines
<1>3. Served(f)
  BY <1>2 DEF Served, GoodRow
<1>4. ReadCurrent(run[w], f)' /\ FailedThere(run[w], f)' /\ Covered(run[w], f)'
  BY <1>0, <1>1 DEF RunKnows, ReadCurrent, FailedThere, Covered, Changed
<1>5. GoneThere(run[w], f)' /\ MarksThere(run[w], f)'
  BY <1>1 DEF RunKnows, GoneThere, MarksThere
<1>6. UpsertDone(run[w], f)'
  <2>1. ASSUME DefinedLive(f) PROVE DefinedLive(f)'
    BY <1>2, <2>1 DEF DefinedLive, Defines
  <2>. QED  BY <1>1, <2>1 DEF RunKnows, UpsertDone
<1>a. SkipsKnown(run[w], f)'
  BY <1>0 DEF SkipsKnown
<1>7. SweepDone(run[w], f)'
  <2>1. ASSUME run[w].read[f] # Unread, NEW n \in Name, ~Defines(work[f], n)
        PROVE  ~IsLive(<<f, n>>)'
    BY <1>1, <1>2, <2>1 DEF RunKnows, SweepDone, IsLive
  <2>. QED  BY <1>0, <2>1 DEF SweepDone, UndefinedStale, Defines
<1>8. MissingDone(run[w], f)'
  BY <1>0, <1>1, <1>3, UndefinedServed DEF RunKnows, MissingDone
<1>. QED  BY <1>3, <1>4, <1>5, <1>6, <1>a, <1>7, <1>8 DEF RunKnows

\* A statement that is refused leaves the rows alone.
LEMMA UntouchedGood ==
  ASSUME NEW f \in File, row' = row
  PROVE  \A n \in Name : GoodRow(f, n)
  BY DEF GoodRow

LEMMA ReadRowsIInv ==
  ASSUME TypeOK, IInv, NEW w \in Worker, ReadRows(w)
  PROVE  IInv'
<1>. DEFINE r == run[w]
            known == [k \in File \X Name |-> IF Defines(r.read[k[1]], k[2]) THEN row[k] ELSE NoRow]
            v == [r EXCEPT !.pc = "rows", !.known = known]
            u == [r EXCEPT !.pc = AfterUpsert(r)]
            c == [u EXCEPT !.alone = FALSE]
            fs == Parsed(r)
<1>1. r \in Run /\ RunInOrder(r) /\ r.pc = "read" /\ r.todo = {}
  BY Facts DEF ReadRows
<1>2. Step(w, v) \/ Refused(w, u, fs)
  BY DEF ReadRows
<1>a. /\ known \in [File \X Name -> Row \cup {NoRow}]
      /\ \A f \in File, n \in Name :
           known[<<f, n>>] = IF Defines(r.read[f], n) THEN row[<<f, n>>] ELSE NoRow
  BY StaleType
<1>. HIDE DEF known
<1>b. /\ v.pc = "rows" /\ v.known = known /\ v.kind = r.kind /\ v.base = r.base /\ v.full = r.full
      /\ v.todo = {} /\ v.read = r.read /\ v.failed = r.failed /\ v.pin = r.pin
      /\ v.gone = r.gone /\ v.marks = r.marks /\ v.alone = r.alone /\ v \in Run
  BY <1>1, <1>a DEF Run
<1>3. AfterUpsert(r) \in {"missing", "removed"}
  BY DEF AfterUpsert
<1>4. /\ c.pc = AfterUpsert(r) /\ c.kind = r.kind /\ c.base = r.base /\ c.full = r.full
      /\ c.todo = r.todo /\ c.read = r.read /\ c.failed = r.failed /\ c.pin = r.pin
      /\ c.gone = r.gone /\ c.marks = r.marks /\ ~c.alone /\ c \in Run
  BY <1>1, <1>3 DEF Run
<1>. HIDE DEF v, c
<1>5. CASE Step(w, v)
  <2>1. ASSUME NEW f \in File, Follows(w, f) PROVE RunKnows(v, f)
    <3>1. RunKnows(r, f)
      BY <1>1, <2>1, Parts
    <3>2. SkipsKnown(v, f)
      BY <1>a, <1>b DEF SkipsKnown, Fresh
    <3>. QED  BY <1>1, <1>b, <3>1, <3>2
         DEF RunKnows, ReadCurrent, FailedThere, Covered, GoneThere, MarksThere,
             UpsertDone, SweepDone, MissingDone
  <2>. QED  BY <1>1, <1>5, <1>b, <2>1, StepIInv DEF Step
<1>6. CASE Refused(w, u, fs)
  <2>1. run' = [run EXCEPT ![w] = c] /\ run'[w] = c /\ missed' = missed \cup fs
        /\ UNCHANGED <<work, head, baseline, row, raced>>
    BY <1>6 DEF Refused, TypeOK, c
  <2>2. ASSUME NEW f \in File, Follows(w, f)' PROVE RunKnows(run[w], f)'
    <3>1. f \notin raced \cup missed /\ r.read[f] = Unread
      BY <1>4, <2>1, <2>2 DEF Follows, Parsed
    <3>2. ASSUME NEW n \in Name
          PROVE  row'[<<f, n>>] = row[<<f, n>>] /\ Upserted(r)[<<f, n>>] = row[<<f, n>>]
      BY <2>1, <3>1, ContentAssumption DEF Upserted, Defines
    <3>. QED  BY <1>1, <1>4, <2>1, <3>1, <3>2, UpsertKnows DEF Follows
  <2>3. c.pc # "idle" /\ r.pc # "idle"
    BY <1>1, <1>4 DEF AfterUpsert
  <2>. QED  BY <1>4, <2>1, <2>2, <2>3, UntouchedGood, WriteIInv
<1>. QED  BY <1>2, <1>5, <1>6

LEMMA UpsertIInv ==
  ASSUME TypeOK, IInv, NEW w \in Worker, Upsert(w)
  PROVE  IInv'
<1>. DEFINE r == run[w]
            u == [r EXCEPT !.pc = AfterUpsert(r), !.known = Idle.known]
            c == [u EXCEPT !.alone = FALSE]
            fs == Parsed(r)
<1>1. r \in Run /\ r.pc = "rows" /\ r.todo = {}
  BY Facts DEF Upsert, RunInOrder
<1>2. Write(w, u, Upserted(r)) \/ Refused(w, u, fs)
  BY DEF Upsert, WriteOrRefuse
<1>a. Idle.known \in [File \X Name -> Row \cup {NoRow}] /\ AfterUpsert(r) \in {"missing", "removed"}
  BY IdleType DEF Run, AfterUpsert
<1>3. /\ u.pc = AfterUpsert(r)
      /\ u.kind = r.kind /\ u.base = r.base /\ u.full = r.full
      /\ u.todo = r.todo /\ u.read = r.read /\ u.failed = r.failed /\ u.pin = r.pin
      /\ u.gone = r.gone /\ u.marks = r.marks /\ u.alone = r.alone /\ u \in Run
  BY <1>1, <1>a DEF Run
<1>. HIDE DEF u
<1>4. /\ c.pc = AfterUpsert(r) /\ c.kind = r.kind /\ c.base = r.base /\ c.full = r.full
      /\ c.todo = r.todo /\ c.read = r.read /\ c.failed = r.failed /\ c.pin = r.pin
      /\ c.gone = r.gone /\ c.marks = r.marks /\ ~c.alone /\ c \in Run
  BY <1>1, <1>3 DEF Run
<1>. HIDE DEF c
<1>5. CASE Write(w, u, Upserted(r))
  <2>1. run' = [run EXCEPT ![w] = u] /\ run'[w] = u /\ row' = Upserted(r)
        /\ UNCHANGED <<work, head, baseline, raced, missed>>
    BY <1>5 DEF Write, TypeOK, history
  <2>2. ASSUME NEW f \in File, Follows(w, f) PROVE RunKnows(run[w], f)' /\ Served(f)
    BY <1>1, <1>3, <2>1, <2>2, UpsertKnows
  <2>3. ASSUME NEW f \in File, Follows(w, f)' PROVE RunKnows(run[w], f)'
    BY <1>3, <2>1, <2>2, <2>3 DEF Follows
  <2>4. u.pc # "idle" /\ r.pc # "idle"
    BY <1>1, <1>3, <1>a
  <2>. QED  BY <1>3, <2>1, <2>2, <2>3, <2>4, WriteIInv DEF Served
<1>6. CASE Refused(w, u, fs)
  <2>1. run' = [run EXCEPT ![w] = c] /\ run'[w] = c /\ missed' = missed \cup fs
        /\ UNCHANGED <<work, head, baseline, row, raced>>
    BY <1>6 DEF Refused, TypeOK, c
  <2>2. ASSUME NEW f \in File, Follows(w, f)' PROVE RunKnows(run[w], f)'
    <3>1. f \notin raced \cup missed /\ r.read[f] = Unread
      BY <1>4, <2>1, <2>2 DEF Follows, Parsed
    <3>2. ASSUME NEW n \in Name
          PROVE  row'[<<f, n>>] = row[<<f, n>>] /\ Upserted(r)[<<f, n>>] = row[<<f, n>>]
      BY <2>1, <3>1, ContentAssumption DEF Upserted, Defines
    <3>. QED  BY <1>1, <1>4, <2>1, <3>1, <3>2, UpsertKnows DEF Follows
  <2>3. c.pc # "idle" /\ r.pc # "idle"
    BY <1>1, <1>4 DEF AfterUpsert
  <2>. QED  BY <1>4, <2>1, <2>2, <2>3, UntouchedGood, WriteIInv
<1>. QED  BY <1>2, <1>5, <1>6

LEMMA MarkGoneIInv ==
  ASSUME TypeOK, IInv, NEW w \in Worker, MarkGone(w)
  PROVE  IInv'
<1>. DEFINE r == run[w]
            u == [r EXCEPT !.pc = IF r.full THEN "removed" ELSE "record"]
            c == [u EXCEPT !.alone = FALSE]
            rows == [k \in File \X Name |-> IF k[1] \in r.gone THEN Stale(k) ELSE row[k]]
<1>1. r \in Run /\ r.pc = "gone"
  BY Facts DEF MarkGone
<1>2. Write(w, u, rows) \/ Refused(w, u, r.gone)
  BY DEF MarkGone, WriteOrRefuse
<1>3. /\ u.pc = (IF r.full THEN "removed" ELSE "record")
      /\ u.kind = r.kind /\ u.base = r.base /\ u.full = r.full
      /\ u.todo = r.todo /\ u.read = r.read /\ u.failed = r.failed /\ u.pin = r.pin
      /\ u.gone = r.gone /\ u.marks = r.marks /\ u.alone = r.alone /\ u \in Run
  BY <1>1 DEF Run
<1>. HIDE DEF u
<1>4. /\ c.pc = u.pc /\ c.kind = r.kind /\ c.base = r.base /\ c.full = r.full
      /\ c.todo = r.todo /\ c.read = r.read /\ c.failed = r.failed /\ c.pin = r.pin
      /\ c.gone = r.gone /\ c.marks = r.marks /\ ~c.alone /\ c \in Run
  BY <1>3 DEF Run
<1>0. ASSUME NEW f \in File, NEW n \in Name
      PROVE  rows[<<f, n>>] = IF f \in r.gone THEN Stale(<<f, n>>) ELSE row[<<f, n>>]
  OBVIOUS
<1>. HIDE DEF c, rows
<1>5. CASE Write(w, u, rows)
  <2>1. run' = [run EXCEPT ![w] = u] /\ run'[w] = u /\ row' = rows
        /\ UNCHANGED <<work, head, baseline, raced, missed>>
    BY <1>5 DEF Write, TypeOK, history
  <2>2. ASSUME NEW f \in File, Follows(w, f) PROVE RunKnows(run[w], f)' /\ Served(f)
    BY <1>0, <1>1, <1>3, <2>1, <2>2, MarkGoneKnows
  <2>3. ASSUME NEW f \in File, Follows(w, f)' PROVE RunKnows(run[w], f)'
    BY <1>3, <2>1, <2>2, <2>3 DEF Follows
  <2>4. u.pc # "idle" /\ r.pc # "idle"
    BY <1>1, <1>3
  <2>. QED  BY <1>3, <2>1, <2>2, <2>3, <2>4, WriteIInv DEF Served
<1>6. CASE Refused(w, u, r.gone)
  <2>1. run' = [run EXCEPT ![w] = c] /\ run'[w] = c /\ missed' = missed \cup r.gone
        /\ UNCHANGED <<work, head, baseline, row, raced>>
    BY <1>6 DEF Refused, TypeOK, c
  <2>2. ASSUME NEW f \in File, Follows(w, f)' PROVE RunKnows(run[w], f)'
    <3>1. f \notin raced \cup missed /\ f \notin r.gone
      BY <1>4, <2>1, <2>2 DEF Follows
    <3>. QED  BY <1>1, <1>3, <1>4, <2>1, <3>1, MarkGoneKnows DEF Follows
  <2>3. c.pc # "idle" /\ r.pc # "idle"
    BY <1>1, <1>3, <1>4
  <2>. QED  BY <1>4, <2>1, <2>2, <2>3, UntouchedGood, WriteIInv
<1>. QED  BY <1>2, <1>5, <1>6

LEMMA MarkRemovedIInv ==
  ASSUME TypeOK, IInv, NEW w \in Worker, MarkRemoved(w)
  PROVE  IInv'
<1>. DEFINE r == run[w]
            u == [r EXCEPT !.marks = {}, !.pc = AfterMarks(r)]
            c == [u EXCEPT !.alone = FALSE]
            rows == [k \in File \X Name |-> IF k \in r.marks THEN Stale(k) ELSE row[k]]
            fs == {k[1] : k \in r.marks}
<1>1. r \in Run /\ r.pc = "mark" /\ AfterMarks(r) \in {"gone", "record"}
  BY Facts DEF MarkRemoved, AfterMarks
<1>2. Write(w, u, rows) \/ Refused(w, u, fs)
  BY DEF MarkRemoved, WriteOrRefuse
<1>3. /\ u.pc = AfterMarks(r)
      /\ u.kind = r.kind /\ u.base = r.base /\ u.full = r.full
      /\ u.todo = r.todo /\ u.read = r.read /\ u.failed = r.failed /\ u.pin = r.pin
      /\ u.gone = r.gone /\ u.marks = {} /\ u.alone = r.alone /\ u \in Run
  BY <1>1 DEF Run
<1>. HIDE DEF u
<1>4. /\ c.pc = u.pc /\ c.kind = r.kind /\ c.base = r.base /\ c.full = r.full
      /\ c.todo = r.todo /\ c.read = r.read /\ c.failed = r.failed /\ c.pin = r.pin
      /\ c.gone = r.gone /\ c.marks = {} /\ ~c.alone /\ c \in Run
  BY <1>3 DEF Run
<1>0. /\ \A f \in File, n \in Name :
           rows[<<f, n>>] = IF <<f, n>> \in r.marks THEN Stale(<<f, n>>) ELSE row[<<f, n>>]
      /\ \A f \in File \ fs, n \in Name : <<f, n>> \notin r.marks
  OBVIOUS
<1>. HIDE DEF c, rows, fs
<1>5. CASE Write(w, u, rows)
  <2>1. run' = [run EXCEPT ![w] = u] /\ run'[w] = u /\ row' = rows
        /\ UNCHANGED <<work, head, baseline, raced, missed>>
    BY <1>5 DEF Write, TypeOK, history
  <2>2. ASSUME NEW f \in File, Follows(w, f) PROVE RunKnows(run[w], f)' /\ Served(f)
    BY <1>0, <1>1, <1>3, <2>1, <2>2, MarkRemovedKnows
  <2>3. ASSUME NEW f \in File, Follows(w, f)' PROVE RunKnows(run[w], f)'
    BY <1>3, <2>1, <2>2, <2>3 DEF Follows
  <2>4. u.pc # "idle" /\ r.pc # "idle"
    BY <1>1, <1>3
  <2>. QED  BY <1>3, <2>1, <2>2, <2>3, <2>4, WriteIInv DEF Served
<1>6. CASE Refused(w, u, fs)
  <2>1. run' = [run EXCEPT ![w] = c] /\ run'[w] = c /\ missed' = missed \cup fs
        /\ UNCHANGED <<work, head, baseline, row, raced>>
    BY <1>6 DEF Refused, TypeOK, c
  <2>2. ASSUME NEW f \in File, Follows(w, f)' PROVE RunKnows(run[w], f)'
    <3>1. f \notin raced \cup missed /\ f \notin fs
      BY <1>4, <2>1, <2>2 DEF Follows
    <3>. QED  BY <1>0, <1>1, <1>3, <1>4, <2>1, <3>1, MarkRemovedKnows DEF Follows
  <2>3. c.pc # "idle" /\ r.pc # "idle"
    BY <1>1, <1>3, <1>4
  <2>. QED  BY <1>4, <2>1, <2>2, <2>3, UntouchedGood, WriteIInv
<1>. QED  BY <1>2, <1>5, <1>6

-----------------------------------------------------------------------------
(* The end of a run, and the world outside.                                *)

\* At its end, what a run has answered for is as indexed: because it was
\* undisturbed, or because the file is one any run may touch.
LEMMA HandledMirrored ==
  ASSUME TypeOK, IInv, NEW w \in Worker, run[w].pc = "record",
         NEW f \in File, f \in Handled(run[w]), Follows(w, f),
         run[w].alone \/ (head[f] = work[f] /\ f \notin Denied)
  PROVE  Mirrored(f)
<1>1. RunKnows(run[w], f) /\ run[w] \in Run
  BY Facts, Parts
<1>2. CASE run[w].read[f] # Unread
  <2>1. run[w].read[f] = work[f] /\ work[f] \in Source
    BY <1>1, <1>2 DEF RunKnows, ReadCurrent, Run
  <2>2. run[w].alone \/ (head[f] # NoFile /\ f \notin Denied)
    BY <2>1, ContentAssumption
  <2>3. DefinedLive(f) /\ UndefinedStale(f)
    BY <1>1, <1>2, <2>2 DEF RunKnows, UpsertDone, SweepDone
  <2>. QED  BY <2>3 DEF Mirrored, DefinedLive, UndefinedStale
<1>3. CASE work[f] = NoFile /\ (run[w].full \/ f \in run[w].gone)
  <2>1. UndefinedStale(f)
    BY <1>1, <1>3 DEF RunKnows, MissingDone
  <2>. QED  BY <1>3, <2>1, ContentAssumption DEF Mirrored, UndefinedStale, Defines
<1>. QED  BY <1>2, <1>3 DEF Handled

\* The baseline never covers more than was indexed.
LEMMA RecordNothingSlips ==
  ASSUME TypeOK, IInv, NEW w \in Worker, Record(w)
  PROVE  NothingSlips'
<1>. DEFINE r == run[w]
<1>0. r \in Run /\ RunInOrder(r) /\ r.pc = "record"
      /\ UNCHANGED <<work, head, row>>
  BY Facts DEF Record
<1>. SUFFICES ASSUME baseline' # NoTree,
                     NEW f \in File, f \in (Accounted \ Changed(baseline, head, work))'
              PROVE  Mirrored(f)'
  BY DEF NothingSlips, Accounted
<1>1. f \notin Denied /\ f \notin raced' \cup missed' /\ head[f] = work[f]
      /\ baseline'[f] = head[f]
  BY <1>0 DEF Accounted, Changed
<1>2. f \in raced \cup missed => r.alone /\ f \in Handled(r)
  BY <1>1 DEF Record
<1>3. Follows(w, f)
  BY <1>2 DEF Follows
<1>4. RunKnows(r, f)
  BY <1>0, <1>3, Parts
<1>5. f \in Handled(r) => Mirrored(f)
  BY <1>0, <1>1, <1>3, HandledMirrored
<1>6. f \in r.failed /\ ~r.pin => Mirrored(f)
  BY <1>4 DEF RunKnows, FailedThere, Mirrored
<1>7. Mirrored(f)
  <2>1. CASE ~Records(r)
    <3>1. baseline' = baseline
      BY <2>1 DEF Record
    <3>2. f \in Accounted /\ f \notin Changed(baseline, head, work) => Mirrored(f)
      BY <3>1, Parts DEF NothingSlips
    <3>. QED  BY <1>1, <1>2, <1>5, <3>1, <3>2 DEF Accounted, Changed
  <2>2. CASE r.kind = "index" /\ r.failed = {}
    <3>1. r.full /\ r.todo = {}
      BY <1>0, <2>2 DEF RunInOrder
    <3>2. f \in Handled(r)
      BY <1>0, <1>1, <1>4, <2>2, <3>1 DEF RunKnows, Covered, Handled
    <3>. QED  BY <1>5, <3>2
  <2>3. CASE r.kind = "reindex" /\ ~r.full /\ ~r.pin
    <3>1. r.base # NoTree /\ r.todo = {}
      BY <1>0, <2>3 DEF RunInOrder
    <3>2. CASE f \notin Changed(r.base, head, work)
      <4>1. f \in Accounted => Mirrored(f)
        BY <1>0, <2>3, <3>1, <3>2, Parts DEF BaseMirrored
      <4>. QED  BY <1>1, <1>2, <1>5, <4>1 DEF Accounted
    <3>3. CASE f \in Changed(r.base, head, work)
      <4>1. f \in r.failed \/ r.read[f] # Unread \/ f \in r.gone
        BY <1>0, <1>4, <2>3, <3>1, <3>3 DEF RunKnows, Covered
      <4>2. f \in r.gone => work[f] = NoFile
        BY <1>1, <1>4, <2>3 DEF RunKnows, GoneThere
      <4>. QED  BY <1>5, <1>6, <2>3, <4>1, <4>2 DEF Handled
    <3>. QED  BY <3>2, <3>3
  <2>. QED  BY <2>1, <2>2, <2>3 DEF Records
<1>. QED  BY <1>0, <1>7, MirroredKept DEF Untouched

LEMMA EndIInv ==
  ASSUME TypeOK, IInv, NEW w \in Worker, Record(w) \/ Crash(w)
  PROVE  IInv'
<1>1. /\ run'[w] = Idle /\ UNCHANGED <<work, head, row>> /\ run[w].pc # "idle"
      /\ \A v \in Worker : v # w => run'[v] = run[v]
  BY DEF Record, Crash, TypeOK, Live
<1>2. ~run[w].alone => raced' = raced /\ missed' = missed
  BY DEF Record, Crash, history
<1>3. NothingSlips'
  <2>1. CASE Crash(w)
    BY <2>1, Parts
    DEF Crash, history, NothingSlips, Accounted, Changed, Mirrored, Defines, IsLive
  <2>. QED  BY <2>1, RecordNothingSlips
<1>4. \A f \in File : Untouched(f)
  BY <1>1 DEF Untouched
<1>5. ASSUME NEW v \in Worker, run'[v].pc # "idle"
      PROVE  v # w /\ run'[v] = run[v] /\ ~run[v].alone /\ ~run[w].alone
  BY <1>1, <1>5, Parts DEF Idle, Live
<1>6. ASSUME NEW v \in Worker, run'[v].pc # "idle" PROVE BaseMirrored(run[v])'
  BY <1>1, <1>2, <1>5, <1>6, Parts, BaseKept
<1>7. ASSUME NEW v \in Worker, run'[v].pc # "idle", NEW f \in File, Follows(v, f)'
      PROVE  RunKnows(run[v], f)'
  <2>1. run[v].pc # "idle" /\ Follows(v, f)
    BY <1>2, <1>5, <1>7 DEF Follows
  <2>. QED  BY <1>4, <1>5, <1>7, <2>1, Parts, KnowsKept
<1>8. ASSUME NEW v \in Worker, run'[v].alone PROVE Live' = {v}
  <2>1. run'[v].pc # "idle"
    <3>1. v # w /\ run'[v] = run[v]
      BY <1>1, <1>8 DEF Idle
    <3>. QED  BY <1>8, <3>1, Facts DEF RunInOrder, Idle
  <2>. QED  BY <1>5, <1>8, <2>1
<1>. QED  BY <1>3, <1>6, <1>7, <1>8 DEF IInv, Live

LEMMA MoveIInv ==
  ASSUME TypeOK, IInv, NEW wt \in Tree, NEW h \in Tree, Move(wt, h)
  PROVE  IInv'
<1>1. /\ work' = wt /\ head' = h /\ UNCHANGED <<baseline, row>>
      /\ raced \subseteq raced' /\ missed' = missed \cup Returned(wt, h)
      /\ Live # {} => Moved(wt, h) \subseteq raced'
  BY DEF Move
<1>2. ASSUME NEW v \in Worker
      PROVE  /\ ~run'[v].alone
             /\ run[v].pc = "idle" => run'[v] = run[v]
             /\ run[v].pc # "idle" => run'[v] = [run[v] EXCEPT !.alone = FALSE]
             /\ run'[v].pc = run[v].pc /\ run'[v].kind = run[v].kind
             /\ run'[v].base = run[v].base
  <2>1. run[v] \in Run /\ (run[v].pc = "idle" => ~run[v].alone)
    BY Facts DEF RunInOrder, Idle
  <2>2. run'[v] = IF run[v].pc = "idle" THEN run[v] ELSE [run[v] EXCEPT !.alone = FALSE]
    BY DEF Move
  <2>. QED  BY <2>1, <2>2 DEF Run
<1>3. ASSUME NEW f \in File, f \notin Moved(wt, h) PROVE Untouched(f)
  BY <1>1, <1>3 DEF Moved, Untouched
<1>4. NothingSlips'
  <2>. SUFFICES ASSUME baseline # NoTree,
                       NEW f \in File, f \in (Accounted \ Changed(baseline, head, work))'
                PROVE  Mirrored(f)'
    BY <1>1 DEF NothingSlips, Accounted
  <2>1. f \in Accounted /\ f \notin Changed(baseline, h, wt) /\ f \notin Returned(wt, h)
    BY <1>1 DEF Accounted, Changed
  <2>2. f \notin Changed(baseline, head, work)
    BY <2>1 DEF Returned
  <2>3. Mirrored(f)
    BY <2>1, <2>2 DEF IInv, NothingSlips
  <2>4. f \notin Moved(wt, h)
    BY <2>1, <2>2 DEF Changed, Moved
  <2>. QED  BY <1>3, <2>3, <2>4, MirroredKept
<1>5. ASSUME NEW v \in Worker, run'[v].pc # "idle", NEW f \in File, f \notin raced'
      PROVE  v \in Live /\ Untouched(f)
  BY <1>1, <1>2, <1>3, <1>5 DEF Live
<1>6. ASSUME NEW v \in Worker, run'[v].pc # "idle" PROVE BaseMirrored(run[v])'
  <2>. SUFFICES ASSUME run[v].kind = "reindex", run[v].base # NoTree,
                       NEW f \in File, f \in (Accounted \ Changed(run[v].base, head, work))'
                PROVE  Mirrored(f)'
    BY <1>2 DEF BaseMirrored, Accounted
  <2>1. f \in Accounted /\ f \notin raced'
    BY <1>1 DEF Accounted
  <2>2. Untouched(f) /\ v \in Live
    BY <1>5, <1>6, <2>1
  <2>3. f \notin Changed(run[v].base, head, work)
    BY <1>2, <2>2 DEF Changed, Untouched
  <2>4. Mirrored(f)
    BY <2>1, <2>2, <2>3, Parts DEF BaseMirrored, Live
  <2>. QED  BY <2>2, <2>4, MirroredKept
<1>7. ASSUME NEW v \in Worker, run'[v].pc # "idle", NEW f \in File, Follows(v, f)'
      PROVE  RunKnows(run[v], f)'
  <2>1. f \notin raced' /\ Follows(v, f)
    BY <1>1, <1>2, <1>7 DEF Follows
  <2>2. Untouched(f) /\ RunKnows(run[v], f)
    BY <1>5, <1>7, <2>1, Parts DEF Live
  <2>. QED  BY <1>2, <2>2, KnowsKept
<1>. QED  BY <1>2, <1>4, <1>6, <1>7 DEF IInv, Live

LEMMA NextIInv == TypeOK /\ IInv /\ [Next]_vars => IInv'
<1>1. ASSUME IInv, UNCHANGED vars PROVE IInv'
  <2>1. UNCHANGED <<work, head, baseline, row, run, raced, missed>>
    BY <1>1 DEF vars, history
  <2>. QED  BY <1>1, <2>1
       DEF IInv, NothingSlips, Accounted, Changed, Mirrored, Defines, IsLive, Live,
           BaseMirrored, Follows, RunKnows, ReadCurrent, FailedThere, Covered, GoneThere,
           MarksThere, SkipsKnown, UpsertDone, SweepDone, MissingDone, DefinedLive, UndefinedStale
<1>2. ASSUME TypeOK, IInv, NEW w \in Worker, Index(w) PROVE IInv'
  BY <1>2, BeginIInv, ScanIInv, DetectIInv, ReadIInv, ReadRowsIInv, UpsertIInv, SelectMissingIInv,
     MarkGoneIInv, SelectRemovedIInv, MarkRemovedIInv, EndIInv
  DEF Index
<1>. QED  BY <1>1, <1>2, EnvMoves, MoveIInv DEF Next

LEMMA Inductive == Spec => [](TypeOK /\ IInv)
<1>1. Init => TypeOK /\ IInv
  BY InitType, InitIInv
<1>2. TypeOK /\ IInv /\ [Next]_vars => (TypeOK /\ IInv)'
  BY TypeNext, NextIInv
<1>. QED  BY <1>1, <1>2, PTL DEF Spec

\* Nothing slips past the baseline: a file the next reindex would not look at
\* is indexed as it is, unless it changed while a run was in progress, went
\* back to its baseline content unseen, or lost a write to a busy database.
THEOREM BaselineSound == Spec => []NothingSlips
<1>1. IInv => NothingSlips
  BY DEF IInv
<1>. QED  BY <1>1, Inductive, PTL

\* Rows change in three statements only.
LEMMA OnlyWrites ==
  ASSUME TypeOK, [Next]_vars, row' # row
  PROVE  \E w \in Worker : Upsert(w) \/ MarkGone(w) \/ MarkRemoved(w)
<1>1. ASSUME NEW w \in Worker, BeginIndex(w) \/ BeginReindex(w) \/ BeginSave(w)
      PROVE  row' = row
  BY <1>1 DEF BeginIndex, BeginReindex, BeginSave, Start
<1>2. ASSUME NEW w \in Worker,
             Scan(w) \/ Detect(w) \/ ReadRows(w) \/ SelectMissing(w) \/ SelectRemoved(w)
      PROVE  row' = row
  BY <1>2 DEF Scan, Detect, ReadRows, SelectMissing, SelectRemoved, Step, Refused
<1>3. ASSUME NEW w \in Worker, NEW f \in File, ReadFile(w, f) \/ ReadError(w, f)
      PROVE  row' = row
  <2>1. CASE ReadFile(w, f)
    <3>1. work[f] \in Source \cup {NoFile, Garbled}
      BY Facts DEF Content
    <3>. QED  BY <2>1, <3>1 DEF ReadFile, Step
  <2>2. CASE ReadError(w, f)
    BY <2>2 DEF ReadError
  <2>. QED  BY <1>3, <2>1, <2>2
<1>4. ASSUME NEW w \in Worker, Record(w) \/ Crash(w) PROVE row' = row
  BY <1>4 DEF Record, Crash
<1>5. ASSUME Edit \/ Commit \/ Switch PROVE row' = row
  BY <1>5, EnvMoves DEF Move
<1>6. UNCHANGED vars => row' = row
  BY DEF vars
<1>. QED  BY <1>1, <1>2, <1>3, <1>4, <1>5, <1>6 DEF Next, Index

\* A step that takes a row from live to stale is a write, with cause.
LEMMA StaleForCause ==
  ASSUME TypeOK, IInv, [Next]_vars, NEW f \in Accounted, NEW n \in Name,
         head[f] # NoFile, work[f] # NoFile, IsLive(<<f, n>>), ~IsLive(<<f, n>>)'
  PROVE  work[f] \in Source /\ work[f][n] = NoDef
<1>0. f \in File /\ f \notin Denied /\ \A w \in Worker : Follows(w, f)
  BY DEF Accounted, Follows
<1>1. row' # row
  BY DEF IsLive
<1>2. PICK w \in Worker : Upsert(w) \/ MarkGone(w) \/ MarkRemoved(w)
  BY <1>1, OnlyWrites
<1>. DEFINE r == run[w]
<1>3. r \in Run /\ RunInOrder(r)
  BY Facts
<1>4. r.pc # "idle"
  BY <1>2 DEF Upsert, MarkGone, MarkRemoved
<1>5. RunKnows(r, f)
  BY <1>0, <1>4, Parts
<1>. HIDE DEF r
<1>6. CASE Upsert(w)
  <2>1. row' = Upserted(r)
    BY <1>1, <1>6 DEF Upsert, WriteOrRefuse, Write, Refused, r
  <2>2. row'[<<f, n>>] = row[<<f, n>>] \/ (Defines(r.read[f], n) /\ row'[<<f, n>>] = Fresh(r, <<f, n>>))
    BY <1>0, <2>1 DEF Upserted
  <2>3. Defines(r.read[f], n) => Fresh(r, <<f, n>>) # NoRow /\ Fresh(r, <<f, n>>).live
    <3>1. Defines(r.read[f], n) => Fresh(r, <<f, n>>) \in Row
      BY <1>0, <1>3, FreshType
    <3>. QED  BY <3>1, ContentAssumption DEF Fresh
  <2>. QED  BY <2>2, <2>3 DEF IsLive
<1>7. CASE MarkGone(w)
  <2>1. row' = [k \in File \X Name |-> IF k[1] \in r.gone THEN Stale(k) ELSE row[k]]
    BY <1>1, <1>7 DEF MarkGone, WriteOrRefuse, Write, Refused, r
  <2>2. f \in r.gone
    BY <1>0, <2>1 DEF IsLive
  <2>. QED  BY <1>0, <1>5, <2>2 DEF RunKnows, GoneThere
<1>8. CASE MarkRemoved(w)
  <2>1. row' = [k \in File \X Name |-> IF k \in r.marks THEN Stale(k) ELSE row[k]]
    BY <1>1, <1>8 DEF MarkRemoved, WriteOrRefuse, Write, Refused, r
  <2>2. <<f, n>> \in r.marks
    BY <1>0, <2>1 DEF IsLive
  <2>3. r.read[f] # Unread /\ r.read[f] = work[f] /\ ~Defines(work[f], n)
    BY <1>5, <2>2 DEF RunKnows, MarksThere, ReadCurrent
  <2>4. work[f] \in Source
    BY <1>0, <1>3, <2>3 DEF Run
  <2>. QED  BY <2>3, <2>4 DEF Defines
<1>. QED  BY <1>2, <1>6, <1>7, <1>8

\* No false stale mark: whatever failed to be read and whatever runs overlap,
\* a definition of a tracked file on disk goes stale only because the file is
\* readable and no longer has it.
THEOREM StaleOnlyIfRemoved == Spec => NoFalseStale
<1>1. TypeOK /\ IInv /\ [Next]_vars =>
        [\A f \in Accounted, n \in Name :
           /\ head[f] # NoFile /\ work[f] # NoFile
           /\ IsLive(<<f, n>>) /\ ~IsLive(<<f, n>>)'
           => work[f] \in Source /\ work[f][n] = NoDef]_vars
  BY StaleForCause
<1>. QED  BY <1>1, Inductive, PTL DEF Spec, NoFalseStale

\* A run that ends undisturbed leaves every file it answered for as indexed,
\* whatever earlier runs left behind.
THEOREM UndisturbedRunMirrors == Spec => AloneRunMirrors
<1>1. TypeOK /\ IInv /\ [Next]_vars =>
        [\A w \in Worker :
           /\ run[w].pc = "record" /\ run[w].alone /\ run'[w] = Idle
           => \A f \in Handled(run[w]) : Mirrored(f)]_vars
  BY HandledMirrored DEF Follows, Handled
<1>. QED  BY <1>1, Inductive, PTL DEF Spec, AloneRunMirrors
=============================================================================
