------------------------ MODULE MemoryStore_proofs ------------------------
(***************************************************************************)
(* Theorems about MemoryStore, for any number of entities, writers and     *)
(* full syncs and any bound on edits, faults and resets.                   *)
(***************************************************************************)
EXTENDS MemoryStore, TLAPS

-----------------------------------------------------------------------------
(***************************************************************************)
(* Lemmas on the sync of one row.                                          *)
(***************************************************************************)

LEMMA RowOfType == ASSUME NEW d \in Doc PROVE RowOf(d) \in Row
  BY DEF RowOf, Row, Doc

LEMMA SyncedType ==
  ASSUME NEW r \in Row \cup {NoRow}, NEW d \in Doc
  PROVE  Synced(r, d) \in Row \cup {NoRow}
  BY RowOfType DEF Synced

LEMMA FullSyncedType ==
  ASSUME NEW r \in Row \cup {NoRow}, NEW d \in File
  PROVE  FullSynced(r, d) \in Row \cup {NoRow}
<1>1. MarkedMissing(r) \in Row \cup {NoRow}
  BY DEF MarkedMissing, Row, Status
<1>. QED  BY <1>1, SyncedType DEF FullSynced, File

LEMMA PlanType ==
  ASSUME NEW t \in Task, NEW o \in Plan(t)
  PROVE  o \in Doc /\ file[t.ent] \in Doc
  BY DEF Plan, Rewrites

-----------------------------------------------------------------------------
LEMMA IdleTaskType == IdleTask \in Task /\ TaskInOrder(IdleTask)
  BY DEF IdleTask, Task, PC, File, TaskInOrder

LEMMA InitType == Init => TypeOK
  BY BoundAssumption, EntityAssumption, IdleTaskType DEF Init, TypeOK, File

\* One writer's task changes and stays in order.
LEMMA TaskUpdate ==
  ASSUME NEW p \in Writer, NEW t \in Task, TypeOK, TaskInOrder(t),
         task' = [task EXCEPT ![p] = t]
  PROVE  task' \in [Writer -> Task] /\ \A q \in Writer : TaskInOrder(task'[q])
  BY DEF TypeOK

-----------------------------------------------------------------------------
(***************************************************************************)
(* Type correctness: one step per action.                                  *)
(***************************************************************************)

\* An operation begins.
LEMMA TypeBegin ==
  ASSUME TypeOK, NEW p \in Writer, NEW e \in Entity, BeginOp(p, e)
  PROVE  TypeOK'
<1>1. ASSUME NEW o \in Op \ {"create"}, NEW c \in {"wait", "recheck", "syncread"},
             c = "syncread" <=> o = "save", Begin(p, o, e, c)
      PROVE  TypeOK'
  <2>. DEFINE t == [IdleTask EXCEPT !.pc = c, !.op = o, !.ent = e,
                      !.seen = IF HasRow(e) THEN row[e].status ELSE "none"]
  <2>1. (IF HasRow(e) THEN row[e].status ELSE "none") \in Status \cup {"none"}
    BY DEF HasRow, Row, TypeOK
  <2>2. t \in Task
    BY <2>1 DEF IdleTask, Task, File, PC
  <2>3. TaskInOrder(t)
    BY <1>1 DEF IdleTask, TaskInOrder, Locking, Op
  <2>4. task' \in [Writer -> Task] /\ \A q \in Writer : TaskInOrder(task'[q])
    BY <1>1, <2>2, <2>3, TaskUpdate DEF Begin
  <2>. QED  BY <1>1, <2>4 DEF Begin, TypeOK
<1>2. CASE CreateOpen(p, e)
  <2>1. PICK b \in Body :
          task' = [task EXCEPT ![p] = [IdleTask EXCEPT !.pc = "create", !.op = "create", !.ent = e,
                    !.out = [status |-> "active", orphan |-> FALSE, body |-> b]]]
    BY <1>2 DEF CreateOpen
  <2>. DEFINE d == [status |-> "active", orphan |-> FALSE, body |-> b]
              t == [IdleTask EXCEPT !.pc = "create", !.op = "create", !.ent = e, !.out = d]
  <2>2. d \in Doc
    BY DEF Doc, Status
  <2>3. t \in Task /\ TaskInOrder(t)
    BY <2>2 DEF IdleTask, Task, PC, Op, File, TaskInOrder
  <2>4. task' \in [Writer -> Task] /\ \A q \in Writer : TaskInOrder(task'[q])
    BY <2>1, <2>3, TaskUpdate
  <2>. QED  BY <1>2, <2>4 DEF CreateOpen, TypeOK, File
<1>3. {"reject", "merge", "prune", "flag", "heal", "verify", "update", "annotate", "save"}
        \subseteq Op \ {"create"}
  BY DEF Op
<1>. QED
  BY <1>1, <1>2, <1>3 DEF BeginOp, BeginReject, BeginMerge, BeginPrune, BeginFlag,
     BeginHeal, BeginVerify, BeginUpdate, BeginAnnotate, BeginSave

\* The steps that only move the writer on, give up, or end.
LEMMA TypeTask ==
  ASSUME TypeOK, NEW p \in Writer,
         \/ RecheckMerge(p) \/ TakeLock(p) \/ LockTimeout(p) \/ ReadDoc(p) \/ GiveUp(p)
         \/ SyncRead(p) \/ CommitBusy(p) \/ Finish(p) \/ Crash(p)
  PROVE  TypeOK'
<1>. DEFINE t == task[p]
<1>1. t \in Task /\ TaskInOrder(t)
  BY DEF TypeOK
<1>2. ASSUME TaskInOrder(t), t.pc \in {"syncread", "commit"}
      PROVE  SyncError(t) \in Task /\ TaskInOrder(SyncError(t))
  BY <1>1, <1>2 DEF SyncError, Task, PC, TaskInOrder, Locking, Op
<1>3. CASE RecheckMerge(p)
  <2>1. HasRow(t.ent) /\ t.ent \in Entity => row[t.ent].status \in Status
    BY DEF HasRow, Row, TypeOK
  <2>. DEFINE u == [t EXCEPT !.pc = "wait", !.seen = row[t.ent].status]
  <2>2. HasRow(t.ent) => u \in Task /\ TaskInOrder(u)
    BY <1>1, <1>3, <2>1 DEF RecheckMerge, Task, PC, TaskInOrder, Locking
  <2>3. task' \in [Writer -> Task] /\ \A q \in Writer : TaskInOrder(task'[q])
    BY <1>3, <2>2, TaskUpdate, IdleTaskType DEF RecheckMerge
  <2>. QED  BY <1>3, <2>3 DEF RecheckMerge, TypeOK
<1>4. CASE TakeLock(p)
  <2>. DEFINE u == [t EXCEPT !.pc = "read"]
  <2>1. u \in Task /\ TaskInOrder(u)
    BY <1>1, <1>4 DEF TakeLock, Task, PC, TaskInOrder, Locking
  <2>2. task' = [task EXCEPT ![p] = u]
    BY <1>4 DEF TakeLock
  <2>3. task' \in [Writer -> Task] /\ \A q \in Writer : TaskInOrder(task'[q])
    BY <2>1, <2>2, TaskUpdate
  <2>. QED  BY <1>4, <2>3 DEF TakeLock, TypeOK
<1>5. CASE LockTimeout(p) \/ GiveUp(p) \/ Finish(p) \/ Crash(p)
  <2>1. task' = [task EXCEPT ![p] = IdleTask]
    BY <1>5 DEF LockTimeout, GiveUp, Finish, Crash
  <2>2. task' \in [Writer -> Task] /\ \A q \in Writer : TaskInOrder(task'[q])
    BY <2>1, TaskUpdate, IdleTaskType
  <2>3. spent' \in [edits : 0 .. MaxEdits, faults : 0 .. MaxFaults, resets : 0 .. MaxResets]
    BY <1>5, BoundAssumption DEF LockTimeout, GiveUp, Finish, Crash, TypeOK
  <2>. QED  BY <1>5, <2>2, <2>3 DEF LockTimeout, GiveUp, Finish, Crash, Released, TypeOK
<1>6. CASE ReadDoc(p)
  <2>1. PICK o \in Plan(t) :
          task' = [task EXCEPT ![p] = [t EXCEPT !.pc = "write", !.doc = file[t.ent], !.out = o]]
    BY <1>6 DEF ReadDoc
  <2>. DEFINE u == [t EXCEPT !.pc = "write", !.doc = file[t.ent], !.out = o]
  <2>2. o \in Doc /\ file[t.ent] \in Doc
    BY <1>1, PlanType
  <2>3. u \in Task /\ TaskInOrder(u)
    BY <1>1, <1>6, <2>2 DEF ReadDoc, Task, PC, File, TaskInOrder, Locking
  <2>4. task' \in [Writer -> Task] /\ \A q \in Writer : TaskInOrder(task'[q])
    BY <2>1, <2>3, TaskUpdate
  <2>. QED  BY <1>6, <2>4 DEF ReadDoc, TypeOK
<1>7. CASE SyncRead(p)
  <2>. DEFINE d == file[t.ent]
              u == [t EXCEPT !.pc = "done", !.ok = TRUE]
              v == [t EXCEPT !.pc = "commit", !.snap = d]
  <2>1. t.ent \in Entity
    BY <1>1, <1>7 DEF SyncRead, TaskInOrder
  <2>2. d \in File
    BY <2>1 DEF TypeOK
  <2>3. u \in Task /\ TaskInOrder(u)
    BY <1>1, <1>7 DEF SyncRead, Task, PC, TaskInOrder, Locking
  <2>4. d \in Doc => v \in Task /\ TaskInOrder(v)
    BY <1>1, <1>7 DEF SyncRead, Task, PC, File, TaskInOrder, Locking
  <2>5. SyncError(t) \in Task /\ TaskInOrder(SyncError(t))
    BY <1>1, <1>2, <1>7 DEF SyncRead
  <2>6. \E x \in {u, v, SyncError(t)} :
          x \in Task /\ TaskInOrder(x) /\ task' = [task EXCEPT ![p] = x]
    BY <1>7, <2>2, <2>3, <2>4, <2>5 DEF SyncRead, File
  <2>7. task' \in [Writer -> Task] /\ \A q \in Writer : TaskInOrder(task'[q])
    BY <2>6, TaskUpdate
  <2>. QED  BY <1>7, <2>7 DEF SyncRead, TypeOK
<1>8. CASE CommitBusy(p)
  <2>1. task' = [task EXCEPT ![p] = SyncError(t)]
    BY <1>8 DEF CommitBusy
  <2>2. task' \in [Writer -> Task] /\ \A q \in Writer : TaskInOrder(task'[q])
    BY <1>1, <1>2, <1>8, <2>1, TaskUpdate DEF CommitBusy
  <2>3. spent' \in [edits : 0 .. MaxEdits, faults : 0 .. MaxFaults, resets : 0 .. MaxResets]
    BY <1>8, BoundAssumption DEF CommitBusy, TypeOK
  <2>. QED  BY <1>8, <2>2, <2>3 DEF CommitBusy, TypeOK
<1>. QED  BY <1>3, <1>4, <1>5, <1>6, <1>7, <1>8

\* The steps that write a file or a row on a writer's behalf.
LEMMA TypeWrite ==
  ASSUME TypeOK, NEW p \in Writer,
         \/ WriteDoc(p) \/ CreateWrite(p) \/ SyncCommit(p) \/ Rollback(p)
         \/ Tombstone(p) \/ Trim(p) \/ Unlink(p)
  PROVE  TypeOK'
<1>. DEFINE t == task[p]
<1>1. t \in Task /\ TaskInOrder(t)
  BY DEF TypeOK
<1>2. CASE WriteDoc(p)
  <2>. DEFINE u == [t EXCEPT !.pc = IF t.op = "prune" THEN "tombstone" ELSE "syncread"]
  <2>1. u \in Task /\ TaskInOrder(u) /\ t.out \in Doc
    BY <1>1, <1>2 DEF WriteDoc, Task, PC, TaskInOrder, Locking
  <2>2. task' = [task EXCEPT ![p] = u]
    BY <1>2 DEF WriteDoc
  <2>3. task' \in [Writer -> Task] /\ \A q \in Writer : TaskInOrder(task'[q])
    BY <2>1, <2>2, TaskUpdate
  <2>4. file' \in [Entity -> File] /\ aged' \subseteq Entity
    BY <1>2, <2>1 DEF WriteDoc, TypeOK, File
  <2>. QED  BY <1>2, <2>3, <2>4 DEF WriteDoc, TypeOK
<1>3. CASE CreateWrite(p)
  <2>. DEFINE u == [t EXCEPT !.pc = "syncread"]
  <2>1. u \in Task /\ TaskInOrder(u) /\ t.out \in Doc
    BY <1>1, <1>3 DEF CreateWrite, Task, PC, TaskInOrder, Locking
  <2>2. task' = [task EXCEPT ![p] = u]
    BY <1>3 DEF CreateWrite
  <2>3. task' \in [Writer -> Task] /\ \A q \in Writer : TaskInOrder(task'[q])
    BY <2>1, <2>2, TaskUpdate
  <2>4. file' \in [Entity -> File] /\ aged' \subseteq Entity
    BY <1>3, <2>1 DEF CreateWrite, TypeOK, File
  <2>. QED  BY <1>3, <2>3, <2>4 DEF CreateWrite, TypeOK
<1>4. CASE SyncCommit(p)
  <2>. DEFINE e == t.ent
              u == [t EXCEPT !.pc = "done", !.ok = TRUE]
  <2>1. t.snap \in Doc /\ e \in Entity
    BY <1>1, <1>4 DEF SyncCommit, TaskInOrder
  <2>2. Synced(row[e], t.snap) \in Row \cup {NoRow}
    BY <2>1, SyncedType DEF TypeOK
  <2>3. row' \in [Entity -> Row \cup {NoRow}]
    BY <1>4, <2>2 DEF SyncCommit, TypeOK
  <2>4. u \in Task /\ TaskInOrder(u)
    BY <1>1, <1>4 DEF SyncCommit, Task, PC, TaskInOrder, Locking
  <2>5. SyncError(t) \in Task /\ TaskInOrder(SyncError(t))
    BY <1>1, <1>4 DEF SyncCommit, SyncError, Task, PC, TaskInOrder, Locking, Op
  <2>6. \E x \in {u, SyncError(t)} : task' = [task EXCEPT ![p] = x]
    BY <1>4 DEF SyncCommit
  <2>7. task' \in [Writer -> Task] /\ \A q \in Writer : TaskInOrder(task'[q])
    BY <2>4, <2>5, <2>6, TaskUpdate
  <2>. QED  BY <1>4, <2>3, <2>7 DEF SyncCommit, TypeOK
<1>5. CASE Rollback(p)
  <2>. DEFINE u == [t EXCEPT !.pc = "done"]
  <2>1. u \in Task /\ TaskInOrder(u) /\ t.doc \in Doc
    BY <1>1, <1>5 DEF Rollback, Task, PC, TaskInOrder, Locking
  <2>2. task' = [task EXCEPT ![p] = u]
    BY <1>5 DEF Rollback
  <2>3. task' \in [Writer -> Task] /\ \A q \in Writer : TaskInOrder(task'[q])
    BY <2>1, <2>2, TaskUpdate
  <2>4. file' \in [Entity -> File]
    BY <1>5, <2>1 DEF Rollback, TypeOK, File
  <2>. QED  BY <1>5, <2>3, <2>4 DEF Rollback, TypeOK
<1>6. CASE Tombstone(p)
  <2>. DEFINE u == [t EXCEPT !.pc = "trim", !.ok = Prunable(row[t.ent])]
  <2>1. Prunable(row[t.ent]) \in BOOLEAN
    BY DEF Prunable
  <2>2. u \in Task /\ TaskInOrder(u)
    BY <1>1, <1>6, <2>1 DEF Tombstone, Task, PC, TaskInOrder, Locking
  <2>3. task' = [task EXCEPT ![p] = u]
    BY <1>6 DEF Tombstone
  <2>4. task' \in [Writer -> Task] /\ \A q \in Writer : TaskInOrder(task'[q])
    BY <2>2, <2>3, TaskUpdate
  <2>5. [status |-> "pruned", hash |-> NoHash] \in Row
    BY DEF Row, Status
  <2>6. row' \in [Entity -> Row \cup {NoRow}]
    BY <1>6, <2>5 DEF Tombstone, TypeOK
  <2>. QED  BY <1>6, <2>4, <2>6 DEF Tombstone, TypeOK
<1>7. CASE Trim(p)
  <2>1. PICK gone \in SUBSET Tombstones :
          /\ row' = [e \in Entity |-> IF e \in gone THEN NoRow ELSE row[e]]
          /\ task' = [task EXCEPT ![p] = [t EXCEPT !.pc = "unlink", !.gone = gone]]
    BY <1>7 DEF Trim
  <2>. DEFINE u == [t EXCEPT !.pc = "unlink", !.gone = gone]
  <2>2. u \in Task /\ TaskInOrder(u)
    BY <1>1, <1>7 DEF Trim, Tombstones, Task, PC, TaskInOrder, Locking
  <2>3. task' \in [Writer -> Task] /\ \A q \in Writer : TaskInOrder(task'[q])
    BY <2>1, <2>2, TaskUpdate
  <2>4. row' \in [Entity -> Row \cup {NoRow}]
    BY <2>1 DEF TypeOK
  <2>. QED  BY <1>7, <2>3, <2>4 DEF Trim, TypeOK
<1>8. CASE Unlink(p)
  <2>. DEFINE u == [t EXCEPT !.pc = "done", !.gone = {}]
  <2>1. u \in Task /\ TaskInOrder(u)
    BY <1>1, <1>8 DEF Unlink, Task, PC, TaskInOrder, Locking
  <2>2. task' = [task EXCEPT ![p] = u]
    BY <1>8 DEF Unlink
  <2>3. task' \in [Writer -> Task] /\ \A q \in Writer : TaskInOrder(task'[q])
    BY <2>1, <2>2, TaskUpdate
  <2>4. file' \in [Entity -> File]
    BY <1>8 DEF Unlink, TypeOK, File
  <2>. QED  BY <1>8, <2>3, <2>4 DEF Unlink, TypeOK
<1>. QED  BY <1>2, <1>3, <1>4, <1>5, <1>6, <1>7, <1>8

\* Full syncs, resets, people and the code.
LEMMA TypeEnvironment ==
  ASSUME TypeOK,
         \/ \E s \in Syncer : Scan(s) \/ FullCommit(s) \/ FullSyncLost(s)
         \/ Reset
         \/ \E e \in Entity : Edit(e) \/ Age(e)
         \/ \E e \in Knowledge : CodeChange(e)
         \/ UNCHANGED vars
  PROVE  TypeOK'
<1>1. ASSUME NEW s \in Syncer, Scan(s) PROVE TypeOK'
  BY <1>1 DEF Scan, TypeOK
<1>2. ASSUME NEW s \in Syncer, FullCommit(s) PROVE TypeOK'
  <2>1. scan[s] \in [Entity -> File]
    BY <1>2 DEF FullCommit, TypeOK
  <2>2. \A e \in Entity : FullSynced(row[e], scan[s][e]) \in Row \cup {NoRow}
    BY <2>1, FullSyncedType DEF TypeOK
  <2>. QED  BY <1>2, <2>2 DEF FullCommit, TypeOK
<1>3. ASSUME NEW s \in Syncer, FullSyncLost(s) PROVE TypeOK'
  <2>1. spent' \in [edits : 0 .. MaxEdits, faults : 0 .. MaxFaults, resets : 0 .. MaxResets]
    BY <1>3, BoundAssumption DEF FullSyncLost, TypeOK
  <2>. QED  BY <1>3, <2>1 DEF FullSyncLost, TypeOK
<1>4. CASE Reset
  <2>1. spent' \in [edits : 0 .. MaxEdits, faults : 0 .. MaxFaults, resets : 0 .. MaxResets]
    BY <1>4, BoundAssumption DEF Reset, TypeOK
  <2>. QED  BY <1>4, <2>1 DEF Reset, TypeOK
<1>5. ASSUME NEW e \in Entity, Edit(e) PROVE TypeOK'
  <2>1. spent' \in [edits : 0 .. MaxEdits, faults : 0 .. MaxFaults, resets : 0 .. MaxResets]
    BY <1>5, BoundAssumption DEF Edit, TypeOK
  <2>2. file' \in [Entity -> File]
    BY <1>5, FileAssumption DEF Edit, TypeOK
  <2>. QED  BY <1>5, <2>1, <2>2 DEF Edit, TypeOK
<1>6. ASSUME NEW e \in Entity, Age(e) PROVE TypeOK'
  BY <1>6 DEF Age, TypeOK
<1>7. ASSUME NEW e \in Knowledge, CodeChange(e) PROVE TypeOK'
  BY <1>7 DEF CodeChange, TypeOK
<1>8. CASE UNCHANGED vars
  BY <1>8 DEF vars, TypeOK
<1>. QED  BY <1>1, <1>2, <1>3, <1>4, <1>5, <1>6, <1>7, <1>8

LEMMA TypeStep == TypeOK /\ [Next]_vars => TypeOK'
<1>. SUFFICES ASSUME TypeOK, [Next]_vars PROVE TypeOK'
  OBVIOUS
<1>1. ASSUME NEW p \in Writer,
             (\E e \in Entity : BeginOp(p, e)) \/ Continue(p) \/ CommitBusy(p) \/ Crash(p)
      PROVE  TypeOK'
  BY <1>1, TypeBegin, TypeTask, TypeWrite DEF Continue
<1>. QED  BY <1>1, TypeEnvironment DEF Next

\* Every variable holds a value of its kind, and every operation holds what
\* its next step needs: a file it parsed under the lock, what it will write,
\* the parse it is about to commit.
THEOREM TypeCorrect == Spec => []TypeOK
BY InitType, TypeStep, PTL DEF Spec

\* A step of writer p.
Step(p) == (\E e \in Entity : BeginOp(p, e)) \/ Continue(p) \/ CommitBusy(p) \/ Crash(p)

-----------------------------------------------------------------------------
(***************************************************************************)
(* The rows.  Everything the index promises about one row follows from the *)
(* five ways in which a row can change.                                    *)
(***************************************************************************)

Tombstoned == [status |-> "pruned", hash |-> NoHash]

\* One row goes from r to q by a step that is not a reset.
RowMoves(r, q) ==
  \/ q = r
  \/ \E d \in Doc : q = Synced(r, d)
  \/ q = MarkedMissing(r)
  \/ Prunable(r) /\ q = Tombstoned
  \/ r # NoRow /\ r.status = "pruned" /\ q = NoRow

LEMMA RowStep ==
  ASSUME TypeOK, [Next]_vars
  PROVE  \/ Reset
         \/ \A e \in Entity : RowMoves(row[e], row'[e])
<1>1. ASSUME row' = row PROVE \A e \in Entity : RowMoves(row[e], row'[e])
  BY <1>1 DEF RowMoves
<1>2. ASSUME NEW p \in Writer, SyncCommit(p)
      PROVE  \A e \in Entity : RowMoves(row[e], row'[e])
  <2>1. TaskInOrder(task[p]) /\ row \in [Entity -> Row \cup {NoRow}]
    BY DEF TypeOK
  <2>2. task[p].snap \in Doc /\ task[p].ent \in Entity
    BY <1>2, <2>1 DEF SyncCommit, TaskInOrder
  <2>. QED  BY <1>2, <2>1, <2>2 DEF SyncCommit, RowMoves
<1>3. ASSUME NEW p \in Writer, Tombstone(p)
      PROVE  \A e \in Entity : RowMoves(row[e], row'[e])
  BY <1>3 DEF Tombstone, TypeOK, RowMoves, Tombstoned
<1>4. ASSUME NEW p \in Writer, Trim(p)
      PROVE  \A e \in Entity : RowMoves(row[e], row'[e])
  BY <1>4 DEF Trim, TypeOK, RowMoves, Tombstones, HasRow
<1>5. ASSUME NEW s \in Syncer, FullCommit(s)
      PROVE  \A e \in Entity : RowMoves(row[e], row'[e])
  <2>1. scan[s] \in [Entity -> File]
    BY <1>5 DEF FullCommit, TypeOK
  <2>2. \A e \in Entity : scan[s][e] \in Doc \cup {NoFile, Garbled}
    BY <2>1 DEF File
  <2>3. \A e \in Entity : RowMoves(row[e], FullSynced(row[e], scan[s][e]))
    BY <2>2 DEF FullSynced, RowMoves
  <2>. QED  BY <1>5, <2>3 DEF FullCommit
<1>6. ASSUME NEW p \in Writer, NEW e \in Entity, BeginOp(p, e) PROVE row' = row
  BY <1>6 DEF BeginOp, BeginReject, BeginMerge, BeginPrune, BeginFlag, BeginHeal,
     BeginVerify, BeginUpdate, BeginAnnotate, BeginSave, Begin, CreateOpen
<1>7. ASSUME NEW p \in Writer,
             \/ Continue(p) /\ ~SyncCommit(p) /\ ~Tombstone(p) /\ ~Trim(p)
             \/ CommitBusy(p) \/ Crash(p)
      PROVE  row' = row
  BY <1>7 DEF Continue, RecheckMerge, TakeLock, LockTimeout, ReadDoc, GiveUp, WriteDoc,
     CreateWrite, SyncRead, Rollback, Unlink, Finish, CommitBusy, Crash
<1>8. ASSUME \/ \E s \in Syncer : Scan(s) \/ FullSyncLost(s)
             \/ \E e \in Entity : Edit(e) \/ Age(e)
             \/ \E e \in Knowledge : CodeChange(e)
             \/ UNCHANGED vars
      PROVE  row' = row
  BY <1>8 DEF Scan, FullSyncLost, Edit, Age, CodeChange, vars
<1>9. CASE \E p \in Writer : (\E e \in Entity : BeginOp(p, e)) \/ Continue(p)
                              \/ CommitBusy(p) \/ Crash(p)
  BY <1>1, <1>2, <1>3, <1>4, <1>6, <1>7, <1>9
<1>. QED  BY <1>1, <1>5, <1>8, <1>9 DEF Next

-----------------------------------------------------------------------------
\* What a row says, given the file it was last synced from.
RowTells(r) ==
  r # NoRow /\ r.hash # NoHash =>
    \/ r.status = r.hash.status
    \/ r.status = "stale" /\ r.hash.status = "active"

LEMMA RowTellsKept ==
  ASSUME NEW r \in Row \cup {NoRow}, RowTells(r), NEW q, RowMoves(r, q)
  PROVE  RowTells(q)
<1>1. ASSUME NEW d \in Doc PROVE RowTells(Synced(r, d))
  BY FileAssumption DEF Synced, RowOf, RowTells, Doc
<1>2. RowTells(MarkedMissing(r))
  BY FileAssumption DEF MarkedMissing, RowTells, Row
<1>3. RowTells(Tombstoned)
  BY DEF Tombstoned, RowTells
<1>. QED  BY <1>1, <1>2, <1>3 DEF RowMoves, RowTells

\* The stale mark of a missing file is the only status the database holds on
\* its own account (sync_ops.rs): any other comes from the file last synced.
THEOREM OnlyStaleMarks == Spec => []OnlyStaleIsDbOnly
<1>. DEFINE Inv == \A e \in Entity : RowTells(row[e])
<1>1. Init => Inv
  BY DEF Init, RowTells
<1>2. TypeOK /\ Inv /\ [Next]_vars => Inv'
  <2>. SUFFICES ASSUME TypeOK, Inv, [Next]_vars PROVE Inv'
    OBVIOUS
  <2>1. CASE Reset
    BY <2>1 DEF Reset, RowTells
  <2>2. CASE \A e \in Entity : RowMoves(row[e], row'[e])
    BY <2>2, RowTellsKept DEF TypeOK
  <2>. QED  BY <2>1, <2>2, RowStep
<1>3. Inv => OnlyStaleIsDbOnly
  BY DEF RowTells, OnlyStaleIsDbOnly, HasRow
<1>. QED  BY <1>1, <1>2, <1>3, TypeCorrect, PTL DEF Spec

-----------------------------------------------------------------------------
\* A row that was synced from a file was not synced from a tombstone.
NotTombstone(r) == r # NoRow /\ r.hash # NoHash => r.hash.status # "pruned"

LEMMA NotTombstoneKept ==
  ASSUME NEW r \in Row \cup {NoRow}, NotTombstone(r), NEW q, RowMoves(r, q)
  PROVE  NotTombstone(q)
<1>1. ASSUME NEW d \in Doc PROVE NotTombstone(Synced(r, d))
  BY FileAssumption DEF Synced, RowOf, NotTombstone, Doc
<1>2. NotTombstone(MarkedMissing(r))
  BY FileAssumption DEF MarkedMissing, NotTombstone, Row
<1>3. NotTombstone(Tombstoned)
  BY DEF Tombstoned, NotTombstone
<1>. QED  BY <1>1, <1>2, <1>3 DEF RowMoves, NotTombstone

\* The full sync may skip a file only when nothing about its row is out of
\* date (sync_ops.rs): when the files it parsed are still what the disk holds,
\* its transaction settles every row.
THEOREM CleanSyncSettles == Spec => CleanScanSettles
<1>. DEFINE Inv == \A e \in Entity : NotTombstone(row[e])
            Clean(s) == scan[s] = file /\ scan'[s] = NoScan /\ spent' = spent
            Settles == \A s \in Syncer : Clean(s) => \A e \in Entity : Settled(e)'
<1>1. Init => Inv
  BY DEF Init, NotTombstone
<1>2. TypeOK /\ Inv /\ [Next]_vars => Inv'
  <2>. SUFFICES ASSUME TypeOK, Inv, [Next]_vars PROVE Inv'
    OBVIOUS
  <2>1. CASE Reset
    BY <2>1 DEF Reset, NotTombstone
  <2>2. CASE \A e \in Entity : RowMoves(row[e], row'[e])
    BY <2>2, NotTombstoneKept DEF TypeOK
  <2>. QED  BY <2>1, <2>2, RowStep
<1>3. TypeOK /\ Inv /\ [Next]_vars => [Settles]_vars
  <2>. SUFFICES ASSUME TypeOK, Inv, [Next]_vars, NEW s \in Syncer, Clean(s), NEW e \in Entity
                PROVE  Settled(e)'
    OBVIOUS
  <2>1. scan'[s] # scan[s]
    BY ProcessAssumption DEF TypeOK
  <2>2. FullCommit(s)
    <3>1. ASSUME NEW p \in Writer, Step(p) PROVE scan' = scan
      <4>1. CASE \E f \in Entity : BeginOp(p, f)
        BY <4>1 DEF BeginOp, BeginReject, BeginMerge, BeginPrune, BeginFlag, BeginHeal,
           BeginVerify, BeginUpdate, BeginAnnotate, BeginSave, Begin, CreateOpen
      <4>2. CASE Continue(p) \/ CommitBusy(p) \/ Crash(p)
        BY <4>2 DEF Continue, RecheckMerge, TakeLock, LockTimeout, ReadDoc, GiveUp, WriteDoc,
           CreateWrite, SyncRead, SyncCommit, Rollback, Tombstone, Trim, Unlink, Finish,
           CommitBusy, Crash
      <4>. QED  BY <3>1, <4>1, <4>2 DEF Step
    <3>2. ASSUME NEW r \in Syncer, FullSyncLost(r) PROVE FALSE
      <4>1. spent \in [edits : 0 .. MaxEdits, faults : 0 .. MaxFaults, resets : 0 .. MaxResets]
        BY DEF TypeOK
      <4>2. spent.faults \in 0 .. MaxFaults /\ MaxFaults \in Nat
        BY <4>1, BoundAssumption
      <4>3. spent' = [spent EXCEPT !.faults = @ + 1]
        BY <3>2 DEF FullSyncLost
      <4>4. spent'.faults = spent.faults + 1
        BY <4>1, <4>3
      <4>. QED  BY <4>2, <4>4
    <3>3. ASSUME NEW r \in Syncer, Scan(r) \/ FullCommit(r) PROVE FullCommit(s)
      BY <2>1, <3>3, ProcessAssumption DEF Scan, FullCommit, TypeOK
    <3>4. CASE Reset \/ (\E f \in Entity : Edit(f) \/ Age(f))
               \/ (\E f \in Knowledge : CodeChange(f)) \/ UNCHANGED vars
      BY <2>1, <3>4 DEF Reset, Edit, Age, CodeChange, vars
    <3>. QED  BY <2>1, <3>1, <3>2, <3>3, <3>4 DEF Next, Step
  <2>3. file' = file /\ row'[e] = FullSynced(row[e], file[e])
    BY <2>2 DEF FullCommit
  <2>4. row[e] \in Row \cup {NoRow} /\ file[e] \in File /\ NotTombstone(row[e])
    BY DEF TypeOK
  <2>5. CASE file[e] = NoFile
    BY <2>3, <2>4, <2>5, FileAssumption DEF FullSynced, MarkedMissing, Settled, HasRow, Row
  <2>6. CASE file[e] = Garbled
    BY <2>3, <2>6, FileAssumption DEF Settled
  <2>7. CASE file[e] \in Doc
    <3>1. row'[e] = Synced(row[e], file[e])
      BY <2>3, <2>7, FileAssumption DEF FullSynced
    <3>2. CASE Refused(row[e], file[e])
      BY <2>3, <2>7, <3>1, <3>2, FileAssumption DEF Synced, Settled
    <3>3. CASE ~Refused(row[e], file[e]) /\ Unchanged(row[e], file[e])
      <4>1. row'[e] = row[e] /\ row[e] \in Row
        BY <2>4, <3>1, <3>3 DEF Synced, Unchanged
      <4>2. row[e].hash = file[e] /\ row[e].status = file[e].status
        BY <3>3 DEF Unchanged
      <4>3. file[e].status # "pruned"
        BY <2>4, <2>7, <3>3, <4>2, FileAssumption DEF NotTombstone, Unchanged
      <4>4. row[e] = RowOf(file[e])
        BY <4>1, <4>2, <4>3 DEF RowOf, Row
      <4>. QED  BY <2>3, <2>7, <4>1, <4>4, FileAssumption DEF Settled, HasRow
    <3>4. CASE ~Refused(row[e], file[e]) /\ ~Unchanged(row[e], file[e])
      <4>1. row'[e] = RowOf(file[e]) /\ RowOf(file[e]) \in Row
        BY <2>7, <3>1, <3>4, RowOfType DEF Synced
      <4>. QED  BY <2>3, <2>7, <4>1, FileAssumption DEF Settled, HasRow
    <3>. QED  BY <3>2, <3>3, <3>4
  <2>. QED  BY <2>4, <2>5, <2>6, <2>7 DEF File
<1>. QED  BY <1>1, <1>2, <1>3, TypeCorrect, PTL DEF Spec, CleanScanSettles

-----------------------------------------------------------------------------
\* What a row shows of its status.
Shown(r) == IF r # NoRow THEN r.status ELSE Absent

LEMMA RowMovesEvolve ==
  ASSUME NEW r \in Row \cup {NoRow}, NEW q, RowMoves(r, q)
  PROVE  Derived!Evolves(Shown(r), Shown(q))
<1>. USE FileAssumption DEF Shown, Derived!Evolves, Derived!Status, Derived!CanMove
<1>1. ASSUME NEW d \in Doc PROVE Derived!Evolves(Shown(r), Shown(Synced(r, d)))
  <2>1. RowOf(d) \in Row /\ RowOf(d).status = d.status /\ d.status \in Status
    BY RowOfType DEF RowOf, Doc
  <2>2. CASE Refused(r, d) \/ Unchanged(r, d)
    BY <2>2 DEF Synced
  <2>3. CASE ~Refused(r, d) /\ ~Unchanged(r, d)
    BY <2>1, <2>3 DEF Synced, Refused, Row, Status, CanMove
  <2>. QED  BY <2>2, <2>3
<1>2. Derived!Evolves(Shown(r), Shown(MarkedMissing(r)))
  BY DEF MarkedMissing, Row, Status, CanMove
<1>3. Prunable(r) => Derived!Evolves(Shown(r), Shown(Tombstoned))
  <2>1. Tombstoned \in Row /\ Tombstoned.status = "pruned"
    BY DEF Tombstoned, Row, Status
  <2>. QED  BY <2>1 DEF Prunable, Row, Status
<1>. QED  BY <1>1, <1>2, <1>3 DEF RowMoves

\* The index refines DerivedStatus: whatever is written to the canonical files
\* and in whatever order syncs, prunes and stale marks run, the status a row
\* shows only ever moves along the lattice.
THEOREM IndexRefinesLattice == Spec => RowsFollowLattice
<1>1. Init => Derived!Init
  BY DEF Init, Derived!Init, StatusOf, HasRow
<1>2. TypeOK /\ TypeOK' /\ [Next]_vars => [Derived!Next]_StatusOf
  <2>. SUFFICES ASSUME TypeOK, TypeOK', [Next]_vars PROVE Derived!Next
    OBVIOUS
  <2>1. CASE Reset
    BY <2>1 DEF Reset, Derived!Next, Derived!Reset, StatusOf, HasRow
  <2>2. CASE \A e \in Entity : RowMoves(row[e], row'[e])
    <3>1. \A e \in Entity : StatusOf[e] = Shown(row[e]) /\ StatusOf'[e] = Shown(row'[e])
      BY DEF StatusOf, Shown, HasRow
    <3>2. \A e \in Entity : Derived!Evolves(StatusOf[e], StatusOf'[e])
      BY <2>2, <3>1, RowMovesEvolve DEF TypeOK
    <3>3. StatusOf' \in [Entity -> Status \cup {Absent}]
      BY DEF StatusOf, HasRow, TypeOK, Row
    <3>. QED  BY <3>2, <3>3 DEF Derived!Next, Derived!Transaction, Derived!Status, Status
  <2>. QED  BY <2>1, <2>2, RowStep
<1>. QED  BY <1>1, <1>2, TypeCorrect, PTL DEF Spec, RowsFollowLattice, Derived!Spec

-----------------------------------------------------------------------------
(***************************************************************************)
(* The canonical-file write lock.  LockedReadIsCurrent is not inductive:   *)
(* it needs that whoever is between reading a file and syncing it holds    *)
(* the lock, and that a written file stays what was written until the sync *)
(* is over (the rollback and the prune rely on it).                        *)
(***************************************************************************)

\* Steps of an operation taken with the lock held.
Holding(t) ==
  \/ t.pc \in {"read", "write", "rollback", "tombstone", "trim", "unlink"}
  \/ t.pc \in {"syncread", "commit", "done"} /\ Locking(t)

LockHeld == \A p \in Writer : Holding(task[p]) => lock = p

\* The file is still what this operation read, and later what it wrote.
Steady(p) ==
  task[p].ent \notin hand =>
    /\ task[p].pc = "write" => file[task[p].ent] = task[p].doc
    /\ task[p].pc \in {"syncread", "commit", "rollback", "tombstone"} /\ Locking(task[p]) =>
         file[task[p].ent] = task[p].out

\* A step of the full syncs, of people or of the code.
World ==
  \/ \E s \in Syncer : Scan(s) \/ FullCommit(s) \/ FullSyncLost(s)
  \/ Reset
  \/ \E e \in Entity : Edit(e) \/ Age(e)
  \/ \E e \in Knowledge : CodeChange(e)
  \/ UNCHANGED vars

LEMMA WorldFrame == World => task' = task /\ lock' = lock
  BY DEF World, Scan, FullCommit, FullSyncLost, Reset, Edit, Age, CodeChange, vars

\* A writer's step changes no other writer's task and no history of edits.
LEMMA StepFrame ==
  ASSUME TypeOK, NEW p \in Writer, Step(p)
  PROVE  hand' = hand /\ \A q \in Writer \ {p} : task'[q] = task[q]
<1>1. CASE \E e \in Entity : BeginOp(p, e)
  BY <1>1 DEF BeginOp, BeginReject, BeginMerge, BeginPrune, BeginFlag, BeginHeal,
     BeginVerify, BeginUpdate, BeginAnnotate, BeginSave, Begin, CreateOpen, TypeOK
<1>2. CASE RecheckMerge(p) \/ TakeLock(p) \/ LockTimeout(p) \/ ReadDoc(p) \/ GiveUp(p)
           \/ SyncRead(p) \/ CommitBusy(p) \/ Finish(p) \/ Crash(p)
  BY <1>2 DEF RecheckMerge, TakeLock, LockTimeout, ReadDoc, GiveUp, SyncRead, CommitBusy,
     Finish, Crash, TypeOK
<1>3. CASE WriteDoc(p) \/ CreateWrite(p) \/ SyncCommit(p) \/ Rollback(p)
           \/ Tombstone(p) \/ Trim(p) \/ Unlink(p)
  BY <1>3 DEF WriteDoc, CreateWrite, SyncCommit, Rollback, Tombstone, Trim, Unlink, TypeOK
<1>. QED  BY <1>1, <1>2, <1>3 DEF Step, Continue

\* A writer's step keeps the lock where it is, takes a free one, or gives up
\* what the writer itself may hold; and it holds the lock after the step only
\* if it had it before or has just taken it.
LEMMA StepLock ==
  ASSUME TypeOK, LockHeld, NEW p \in Writer, Step(p)
  PROVE  /\ lock' = lock \/ lock = Free \/ lock = p
         /\ Holding(task'[p]) => lock' = p
<1>. DEFINE t == task[p]
<1>1. t \in Task /\ TaskInOrder(t) /\ task \in [Writer -> Task]
  BY DEF TypeOK
<1>2. CASE \E e \in Entity : BeginOp(p, e)
  <2>1. lock' = lock
    BY <1>2 DEF BeginOp, BeginReject, BeginMerge, BeginPrune, BeginFlag, BeginHeal,
       BeginVerify, BeginUpdate, BeginAnnotate, BeginSave, Begin, CreateOpen
  <2>2. ASSUME NEW o \in Op, NEW e \in Entity, NEW c \in {"wait", "recheck", "syncread"},
               c = "syncread" => o = "save", Begin(p, o, e, c)
        PROVE  ~Holding(task'[p])
    <3>1. task'[p].pc = c /\ task'[p].op = o
      BY <1>1, <2>2 DEF Begin, IdleTask
    <3>. QED  BY <2>2, <3>1 DEF Holding, Locking
  <2>3. ASSUME NEW e \in Entity, CreateOpen(p, e) PROVE ~Holding(task'[p])
    <3>1. task'[p].pc = "create"
      BY <1>1, <2>3 DEF CreateOpen, IdleTask
    <3>. QED  BY <3>1 DEF Holding
  <2>4. {"reject", "merge", "prune", "flag", "heal", "verify", "update", "annotate", "save"} \subseteq Op
    BY DEF Op
  <2>5. ~Holding(task'[p])
    BY <1>2, <2>2, <2>3, <2>4 DEF BeginOp, BeginReject, BeginMerge, BeginPrune, BeginFlag,
       BeginHeal, BeginVerify, BeginUpdate, BeginAnnotate, BeginSave
  <2>. QED  BY <2>1, <2>5
<1>3. CASE LockTimeout(p) \/ GiveUp(p) \/ Finish(p) \/ Crash(p)
  <2>1. task'[p] = IdleTask
    BY <1>1, <1>3 DEF LockTimeout, GiveUp, Finish, Crash
  <2>2. ~Holding(task'[p])
    BY <2>1 DEF IdleTask, Holding
  <2>3. GiveUp(p) => lock = p
    BY DEF GiveUp, LockHeld, Holding
  <2>4. lock' = lock \/ lock = Free \/ lock = p
    BY <1>3, <2>3 DEF LockTimeout, GiveUp, Finish, Crash, Released
  <2>. QED  BY <2>2, <2>4
<1>4. CASE TakeLock(p)
  BY <1>4 DEF TakeLock
<1>5. CASE RecheckMerge(p)
  BY <1>1, <1>5 DEF RecheckMerge, Holding, Locking, IdleTask, Task
<1>6. CASE ReadDoc(p)
  BY <1>1, <1>6 DEF ReadDoc, Holding, LockHeld
<1>7. CASE WriteDoc(p)
  BY <1>1, <1>7 DEF WriteDoc, Holding, LockHeld
<1>8. CASE CreateWrite(p)
  <2>1. task'[p].op = "create" /\ task'[p].pc = "syncread" /\ lock' = lock
    BY <1>1, <1>8 DEF CreateWrite, TaskInOrder, Task
  <2>. QED  BY <2>1 DEF Holding, Locking
<1>9. CASE SyncRead(p) \/ SyncCommit(p) \/ CommitBusy(p)
  <2>1. lock' = lock /\ t.pc \in {"syncread", "commit"}
    BY <1>9 DEF SyncRead, SyncCommit, CommitBusy
  <2>. DEFINE u == [t EXCEPT !.pc = "done", !.ok = TRUE]
              v == [t EXCEPT !.pc = "commit", !.snap = file[t.ent]]
  <2>2. task'[p] = u \/ task'[p] = v \/ task'[p] = SyncError(t)
    BY <1>1, <1>9 DEF SyncRead, SyncCommit, CommitBusy
  <2>3. /\ u.op = t.op /\ v.op = t.op /\ SyncError(t).op = t.op
        /\ u.pc = "done" /\ v.pc = "commit"
        /\ SyncError(t).pc = IF t.op = "update" THEN "rollback" ELSE "done"
    BY <1>1 DEF SyncError, Task
  <2>4. task'[p].op = t.op /\ task'[p].pc \in {"commit", "done", "rollback"}
        /\ (task'[p].pc = "rollback" => t.op = "update")
    <3>. HIDE DEF u, v
    <3>. QED  BY <2>2, <2>3
  <2>5. Holding(task'[p]) => Holding(t)
    BY <2>1, <2>4 DEF Holding, Locking
  <2>. QED  BY <2>1, <2>5 DEF LockHeld
<1>10. CASE Rollback(p) \/ Tombstone(p) \/ Trim(p) \/ Unlink(p)
  <2>1. lock' = lock /\ Holding(t)
    BY <1>10 DEF Rollback, Tombstone, Trim, Unlink, Holding
  <2>. QED  BY <2>1 DEF LockHeld
<1>. QED  BY <1>2, <1>3, <1>4, <1>5, <1>6, <1>7, <1>8, <1>9, <1>10 DEF Step, Continue

LEMMA LockHeldStep == TypeOK /\ LockHeld /\ [Next]_vars => LockHeld'
<1>. SUFFICES ASSUME TypeOK, LockHeld, [Next]_vars PROVE LockHeld'
  OBVIOUS
<1>1. ASSUME NEW p \in Writer, Step(p) PROVE LockHeld'
  <2>. SUFFICES ASSUME NEW q \in Writer, Holding(task'[q]) PROVE lock' = q
    BY DEF LockHeld, Holding, Locking
  <2>1. CASE q = p
    BY <1>1, <2>1, StepLock
  <2>2. CASE q # p
    <3>1. lock = q
      BY <1>1, <2>2, StepFrame DEF LockHeld
    <3>. QED  BY <1>1, <2>2, <3>1, StepLock, ProcessAssumption
  <2>. QED  BY <2>1, <2>2
<1>2. CASE World
  BY <1>2, WorldFrame DEF LockHeld, Holding, Locking
<1>. QED  BY <1>1, <1>2 DEF Next, Step, World

\* The lock keeps the other writers off the file.
LEMMA HeldFileStays ==
  ASSUME TypeOK, LockHeld, NEW p \in Writer, Step(p), NEW q \in Writer \ {p}, Holding(task[q]),
         NEW e \in Entity, file[e] \in Doc
  PROVE  file'[e] = file[e]
<1>1. lock = q /\ ~Holding(task[p])
  BY ProcessAssumption DEF LockHeld
<1>2. ~WriteDoc(p) /\ ~Rollback(p) /\ ~Unlink(p)
  BY <1>1 DEF WriteDoc, Rollback, Unlink, Holding
<1>3. \/ file' = file
      \/ \E f \in Entity : CreateOpen(p, f)
      \/ CreateWrite(p)
  BY <1>2 DEF Step, Continue, BeginOp, BeginReject, BeginMerge, BeginPrune, BeginFlag,
     BeginHeal, BeginVerify, BeginUpdate, BeginAnnotate, BeginSave, Begin, RecheckMerge,
     TakeLock, LockTimeout, ReadDoc, GiveUp, SyncRead, SyncCommit, Tombstone, Trim,
     Finish, CommitBusy, Crash
<1>. QED  BY <1>3, FileAssumption DEF CreateOpen, CreateWrite, TypeOK

LEMMA OthersSteady ==
  ASSUME TypeOK, LockHeld, NEW p \in Writer, Step(p), NEW q \in Writer \ {p}, Steady(q)
  PROVE  Steady(q)'
<1>. DEFINE e == task[q].ent
<1>1. task'[q] = task[q] /\ hand' = hand
  BY StepFrame
<1>2. TaskInOrder(task[q])
  BY DEF TypeOK
<1>3. CASE ~Holding(task[q])
  BY <1>1, <1>3 DEF Steady, Holding, Locking
<1>4. CASE Holding(task[q])
  <2>1. file[e] \in Doc /\ e \in Entity => file'[e] = file[e]
    BY <1>4, HeldFileStays
  <2>2. CASE task[q].pc = "write"
    BY <1>1, <1>2, <2>1, <2>2 DEF Steady, TaskInOrder, Locking
  <2>3. CASE task[q].pc \in {"syncread", "commit", "rollback", "tombstone"} /\ Locking(task[q])
    BY <1>1, <1>2, <2>1, <2>3 DEF Steady, TaskInOrder, Locking
  <2>4. CASE /\ task[q].pc # "write"
             /\ ~(task[q].pc \in {"syncread", "commit", "rollback", "tombstone"} /\ Locking(task[q]))
    BY <1>1, <2>4 DEF Steady, Locking
  <2>. QED  BY <2>2, <2>3, <2>4
<1>. QED  BY <1>3, <1>4

\* A writer's own step.
LEMMA OwnSteady ==
  ASSUME TypeOK, LockHeld, NEW p \in Writer, Step(p), Steady(p)
  PROVE  Steady(p)'
<1>. DEFINE t == task[p]
            careful == \/ task'[p].pc = "write"
                       \/ task'[p].pc \in {"syncread", "commit", "rollback", "tombstone"}
                          /\ Locking(task'[p])
<1>1. t \in Task /\ TaskInOrder(t) /\ task \in [Writer -> Task]
  BY DEF TypeOK
<1>2. ASSUME ~careful PROVE Steady(p)'
  BY <1>2 DEF Steady, Locking
<1>3. CASE \E e \in Entity : BeginOp(p, e)
  <2>1. ~Holding(task[p])
    BY <1>3 DEF BeginOp, BeginReject, BeginMerge, BeginPrune, BeginFlag, BeginHeal,
       BeginVerify, BeginUpdate, BeginAnnotate, BeginSave, CreateOpen, Idle, Holding
  <2>2. ASSUME NEW o \in Op, NEW e \in Entity, NEW c \in {"wait", "recheck", "syncread"},
               c = "syncread" => o = "save", Begin(p, o, e, c)
        PROVE  ~careful
    <3>1. task'[p].pc = c /\ task'[p].op = o
      BY <1>1, <2>2 DEF Begin, IdleTask
    <3>. QED  BY <2>2, <3>1 DEF Locking
  <2>3. ASSUME NEW e \in Entity, CreateOpen(p, e) PROVE ~careful
    BY <1>1, <2>3 DEF CreateOpen, IdleTask
  <2>4. {"reject", "merge", "prune", "flag", "heal", "verify", "update", "annotate", "save"} \subseteq Op
    BY DEF Op
  <2>5. ~careful
    BY <1>3, <2>2, <2>3, <2>4 DEF BeginOp, BeginReject, BeginMerge, BeginPrune, BeginFlag,
       BeginHeal, BeginVerify, BeginUpdate, BeginAnnotate, BeginSave
  <2>. QED  BY <1>2, <2>5
<1>4. CASE RecheckMerge(p) \/ TakeLock(p) \/ LockTimeout(p) \/ GiveUp(p) \/ Finish(p)
           \/ Crash(p) \/ Rollback(p) \/ Tombstone(p) \/ Trim(p) \/ Unlink(p)
  <2>1. CASE LockTimeout(p) \/ GiveUp(p) \/ Finish(p) \/ Crash(p)
    <3>1. task'[p].pc = "idle"
      BY <1>1, <2>1 DEF LockTimeout, GiveUp, Finish, Crash, IdleTask
    <3>. QED  BY <1>2, <3>1
  <2>2. CASE RecheckMerge(p)
    <3>1. task'[p].pc \in {"wait", "idle"}
      BY <1>1, <2>2 DEF RecheckMerge, IdleTask, Task
    <3>. QED  BY <1>2, <3>1
  <2>3. CASE TakeLock(p) \/ Rollback(p) \/ Tombstone(p)
    <3>1. task'[p].pc \in {"read", "done", "trim"}
      BY <1>1, <2>3 DEF TakeLock, Rollback, Tombstone, Task
    <3>. QED  BY <1>2, <3>1
  <2>4. CASE Trim(p) \/ Unlink(p)
    <3>1. \E gone : \/ task'[p] = [t EXCEPT !.pc = "unlink", !.gone = gone]
                   \/ task'[p] = [t EXCEPT !.pc = "done", !.gone = gone]
      BY <1>1, <2>4 DEF Trim, Unlink
    <3>2. task'[p].pc \in {"unlink", "done"}
      BY <1>1, <3>1 DEF Task
    <3>. QED  BY <1>2, <3>2
  <2>. QED  BY <1>4, <2>1, <2>2, <2>3, <2>4
<1>5. CASE ReadDoc(p)
  <2>1. task'[p].pc = "write" /\ task'[p].ent = t.ent /\ task'[p].doc = file[t.ent] /\ file' = file
    BY <1>1, <1>5 DEF ReadDoc, Task
  <2>. QED  BY <2>1 DEF Steady
<1>6. CASE WriteDoc(p)
  <2>1. t.ent \in Entity
    BY <1>1, <1>6 DEF WriteDoc, TaskInOrder
  <2>2. /\ task'[p].pc \in {"tombstone", "syncread"} /\ task'[p].ent = t.ent
        /\ task'[p].out = t.out /\ file'[t.ent] = t.out
    BY <1>1, <1>6, <2>1 DEF WriteDoc, Task, TypeOK
  <2>. QED  BY <2>2 DEF Steady
<1>7. CASE CreateWrite(p)
  <2>1. task'[p].pc = "syncread" /\ task'[p].op = "create"
    BY <1>1, <1>7 DEF CreateWrite, TaskInOrder, Task
  <2>. QED  BY <1>2, <2>1 DEF Locking
<1>8. CASE SyncRead(p) \/ SyncCommit(p) \/ CommitBusy(p)
  <2>. DEFINE u == [t EXCEPT !.pc = "done", !.ok = TRUE]
              v == [t EXCEPT !.pc = "commit", !.snap = file[t.ent]]
  <2>1. task'[p] = u \/ task'[p] = v \/ task'[p] = SyncError(t)
    BY <1>1, <1>8 DEF SyncRead, SyncCommit, CommitBusy
  <2>2. /\ u.pc = "done"
        /\ v.pc = "commit" /\ v.op = t.op /\ v.ent = t.ent /\ v.out = t.out
        /\ SyncError(t).pc \in {"done", "rollback"} /\ SyncError(t).op = t.op
        /\ SyncError(t).ent = t.ent /\ SyncError(t).out = t.out
    BY <1>1 DEF SyncError, Task
  <2>3. file' = file /\ hand' = hand /\ t.pc \in {"syncread", "commit"}
    BY <1>8 DEF SyncRead, SyncCommit, CommitBusy
  <2>4. \/ ~careful
        \/ /\ task'[p].pc \in {"commit", "rollback"} /\ Locking(t)
           /\ task'[p].ent = t.ent /\ task'[p].out = t.out
    <3>. HIDE DEF u, v
    <3>. QED  BY <2>1, <2>2 DEF Locking
  <2>. QED  BY <1>2, <2>3, <2>4 DEF Steady
<1>. QED  BY <1>3, <1>4, <1>5, <1>6, <1>7, <1>8 DEF Step, Continue

\* Only people change a file without being a writer, and they leave a trace.
LEMMA WorldSteady ==
  ASSUME TypeOK, World, NEW q \in Writer, Steady(q)
  PROVE  Steady(q)'
<1>1. task' = task
  BY WorldFrame
<1>2. CASE \E e \in Entity : Edit(e)
  BY <1>1, <1>2 DEF Edit, Steady, Locking, TypeOK
<1>3. CASE ~\E e \in Entity : Edit(e)
  <2>1. file' = file /\ hand' = hand
    BY <1>3 DEF World, Scan, FullCommit, FullSyncLost, Reset, Age, CodeChange, vars
  <2>. QED  BY <1>1, <2>1 DEF Steady, Locking
<1>. QED  BY <1>2, <1>3

\* Whoever is in between holds the lock, and finds what it left.
LEMMA LockSteady == Spec => [](TypeOK /\ LockHeld /\ \A p \in Writer : Steady(p))
<1>. DEFINE Inv == LockHeld /\ \A p \in Writer : Steady(p)
<1>1. Init => Inv
  BY DEF Init, IdleTask, LockHeld, Holding, Steady
<1>2. TypeOK /\ Inv /\ [Next]_vars => Inv'
  <2>. SUFFICES ASSUME TypeOK, Inv, [Next]_vars PROVE Inv'
    OBVIOUS
  <2>1. LockHeld'
    BY LockHeldStep
  <2>2. ASSUME NEW q \in Writer PROVE Steady(q)'
    <3>1. ASSUME NEW p \in Writer, Step(p) PROVE Steady(q)'
      BY <3>1, OthersSteady, OwnSteady
    <3>2. CASE World
      BY <3>2, WorldSteady
    <3>. QED  BY <3>1, <3>2 DEF Next, Step, World
  <2>. QED  BY <2>1, <2>2
<1>. QED  BY <1>1, <1>2, TypeCorrect, PTL DEF Spec

\* The purpose of the canonical-file write lock (storage/mod.rs): no writer of
\* CogZ rewrites, restores or tombstones a file that another one has changed
\* since it read or wrote it; only people can get in between.
THEOREM NoLostUpdate == Spec => []LockedReadIsCurrent
<1>1. TypeOK /\ (\A p \in Writer : Steady(p)) => LockedReadIsCurrent
  BY DEF TypeOK, Steady, LockedReadIsCurrent, TaskInOrder
<1>. QED  BY <1>1, LockSteady, PTL

-----------------------------------------------------------------------------
(***************************************************************************)
(* The answer to a reject or a merge.  VerdictAcknowledged is not          *)
(* inductive: it needs that the sync committed what was written, and that  *)
(* a row with a verdict only ever becomes a tombstone while the lock is    *)
(* held, since the tombstones are trimmed and the database is reset under  *)
(* the lock.                                                               *)
(***************************************************************************)

Decides(t) == t.op \in {"reject", "merge"}

VerdictOf(t) == IF t.op = "reject" THEN "rejected" ELSE "superseded"

\* The row carries verdict s, or is its tombstone.
Carries(r, s) == r # NoRow /\ r.status \in {s, "pruned"}

Answered(p) ==
  Decides(task[p]) =>
    /\ task[p].pc \in {"recheck", "wait", "read", "write", "syncread", "commit", "done"}
    /\ task[p].pc \in {"write", "syncread", "commit", "done"} =>
         task[p].out \in Doc /\ task[p].out.status = VerdictOf(task[p])
    /\ task[p].ent \notin hand =>
         /\ task[p].pc = "commit" => task[p].snap = task[p].out
         /\ task[p].pc = "done" /\ task[p].ok =>
              /\ file[task[p].ent] = task[p].out
              /\ Carries(row[task[p].ent], VerdictOf(task[p]))

\* A verdict stays with its row, whatever is synced over it.
LEMMA CarriesKept ==
  ASSUME NEW r \in Row \cup {NoRow}, NEW s \in {"rejected", "superseded"}, Carries(r, s),
         NEW q, RowMoves(r, q), q # NoRow
  PROVE  Carries(q, s)
<1>1. ASSUME NEW d \in Doc PROVE Carries(Synced(r, d), s)
  <2>1. RowOf(d) \in Row /\ RowOf(d).status = d.status
    BY RowOfType DEF RowOf
  <2>2. CASE Refused(r, d) \/ Unchanged(r, d)
    BY <2>2 DEF Synced
  <2>3. CASE ~Refused(r, d) /\ ~Unchanged(r, d)
    BY <2>1, <2>3, FileAssumption DEF Synced, Refused, Carries, CanMove
  <2>. QED  BY <2>2, <2>3
<1>2. Carries(MarkedMissing(r), s)
  BY DEF MarkedMissing, Carries
<1>3. Tombstoned \in Row /\ Tombstoned.status = "pruned"
  BY DEF Tombstoned, Row, Status
<1>. QED  BY <1>1, <1>2, <1>3, FileAssumption DEF RowMoves, Carries

\* Only a reset and the trimming of tombstones take a row away.
LEMMA RowStays ==
  ASSUME TypeOK, [Next]_vars, ~Reset, \A p \in Writer : ~Trim(p),
         NEW e \in Entity, row[e] # NoRow
  PROVE  row'[e] # NoRow
<1>1. ASSUME NEW d \in Doc PROVE Synced(row[e], d) # NoRow
  BY RowOfType, FileAssumption DEF Synced
<1>2. MarkedMissing(row[e]) # NoRow
  <2>1. row[e] \in Row
    BY DEF TypeOK
  <2>2. [row[e] EXCEPT !.status = "stale"] \in Row
    BY <2>1 DEF Row, Status
  <2>. QED  BY <2>2, FileAssumption DEF MarkedMissing
<1>3. ASSUME NEW p \in Writer, SyncCommit(p) PROVE row'[e] # NoRow
  <2>1. TaskInOrder(task[p]) /\ row \in [Entity -> Row \cup {NoRow}]
    BY DEF TypeOK
  <2>2. task[p].snap \in Doc
    BY <1>3, <2>1 DEF SyncCommit, TaskInOrder
  <2>. QED  BY <1>1, <1>3, <2>1, <2>2 DEF SyncCommit
<1>4. ASSUME NEW p \in Writer, Tombstone(p) PROVE row'[e] # NoRow
  <2>1. [status |-> "pruned", hash |-> NoHash] \in Row
    BY DEF Row, Status
  <2>. QED  BY <1>4, <2>1, FileAssumption DEF Tombstone, TypeOK
<1>5. ASSUME NEW s \in Syncer, FullCommit(s) PROVE row'[e] # NoRow
  <2>1. scan[s] \in [Entity -> File]
    BY <1>5 DEF FullCommit, TypeOK
  <2>2. scan[s][e] \in Doc \cup {NoFile, Garbled}
    BY <2>1 DEF File
  <2>. QED  BY <1>1, <1>2, <1>5, <2>2 DEF FullCommit, FullSynced
<1>6. ASSUME NEW p \in Writer, NEW f \in Entity, BeginOp(p, f) PROVE row' = row
  BY <1>6 DEF BeginOp, BeginReject, BeginMerge, BeginPrune, BeginFlag, BeginHeal,
     BeginVerify, BeginUpdate, BeginAnnotate, BeginSave, Begin, CreateOpen
<1>7. ASSUME NEW p \in Writer,
             \/ Continue(p) /\ ~SyncCommit(p) /\ ~Tombstone(p) /\ ~Trim(p)
             \/ CommitBusy(p) \/ Crash(p)
      PROVE  row' = row
  BY <1>7 DEF Continue, RecheckMerge, TakeLock, LockTimeout, ReadDoc, GiveUp, WriteDoc,
     CreateWrite, SyncRead, Rollback, Unlink, Finish, CommitBusy, Crash
<1>8. CASE \E p \in Writer : (\E f \in Entity : BeginOp(p, f)) \/ Continue(p)
                              \/ CommitBusy(p) \/ Crash(p)
  BY <1>3, <1>4, <1>6, <1>7, <1>8
<1>9. CASE World
  BY <1>5, <1>9 DEF World, Scan, FullSyncLost, Edit, Age, CodeChange, vars
<1>. QED  BY <1>8, <1>9 DEF Next, World

LEMMA VerdictOfType ==
  ASSUME NEW t, Decides(t)
  PROVE  VerdictOf(t) \in {"rejected", "superseded"} /\ Locking(t)
  BY DEF Decides, VerdictOf, Locking

\* While the answer is given, nobody takes the row away.
LEMMA AnswerStays ==
  ASSUME TypeOK, LockHeld, [Next]_vars, NEW q \in Writer, Decides(task[q]), task[q].pc = "done",
         NEW e \in Entity, Carries(row[e], VerdictOf(task[q]))
  PROVE  Carries(row'[e], VerdictOf(task[q]))
<1>1. lock = q
  BY VerdictOfType DEF LockHeld, Holding
<1>2. ~Reset
  BY <1>1, ProcessAssumption DEF Reset
<1>3. ASSUME NEW p \in Writer PROVE ~Trim(p)
  BY <1>1 DEF Trim, LockHeld, Holding
<1>4. row'[e] # NoRow
  BY <1>2, <1>3, RowStays DEF Carries
<1>5. RowMoves(row[e], row'[e]) /\ row[e] \in Row \cup {NoRow}
  BY <1>2, RowStep DEF TypeOK
<1>. QED  BY <1>4, <1>5, VerdictOfType, CarriesKept

LEMMA OthersAnswered ==
  ASSUME TypeOK, LockHeld, [Next]_vars, NEW p \in Writer, Step(p), NEW q \in Writer \ {p},
         Answered(q)
  PROVE  Answered(q)'
<1>. DEFINE t == task[q]
<1>1. task'[q] = t /\ hand' = hand
  BY StepFrame
<1>2. ASSUME Decides(t), t.pc = "done", t.ok, t.ent \notin hand
      PROVE  file'[t.ent] = t.out /\ Carries(row'[t.ent], VerdictOf(t))
  <2>1. t.ent \in Entity
    BY <1>2 DEF TypeOK, TaskInOrder
  <2>2. file[t.ent] = t.out /\ t.out \in Doc /\ Carries(row[t.ent], VerdictOf(t))
    BY <1>2 DEF Answered
  <2>3. Holding(t)
    BY <1>2, VerdictOfType DEF Holding
  <2>. QED  BY <1>2, <2>1, <2>2, <2>3, HeldFileStays, AnswerStays
<1>. QED  BY <1>1, <1>2 DEF Answered, Decides, VerdictOf, Carries

LEMMA WorldAnswered ==
  ASSUME TypeOK, LockHeld, [Next]_vars, World, NEW q \in Writer, Answered(q)
  PROVE  Answered(q)'
<1>. DEFINE t == task[q]
<1>1. task' = task
  BY WorldFrame
<1>2. ASSUME NEW e \in Entity, e \notin hand'
      PROVE  e \notin hand /\ file'[e] = file[e]
  BY <1>2 DEF World, Scan, FullCommit, FullSyncLost, Reset, Edit, Age, CodeChange, vars, TypeOK
<1>3. ASSUME Decides(t), t.pc = "done", t.ok, t.ent \notin hand'
      PROVE  file'[t.ent] = t.out /\ Carries(row'[t.ent], VerdictOf(t))
  <2>1. t.ent \in Entity
    BY <1>3 DEF TypeOK, TaskInOrder
  <2>2. file[t.ent] = t.out /\ Carries(row[t.ent], VerdictOf(t))
    BY <1>2, <1>3, <2>1 DEF Answered
  <2>. QED  BY <1>2, <1>3, <2>1, <2>2, AnswerStays
<1>4. ASSUME Decides(t), t.pc = "commit", t.ent \notin hand' PROVE t.snap = t.out
  <2>1. t.ent \in Entity
    BY <1>4 DEF TypeOK, TaskInOrder
  <2>. QED  BY <1>2, <1>4, <2>1 DEF Answered
<1>. QED  BY <1>1, <1>3, <1>4 DEF Answered, Decides, VerdictOf, Carries

\* A writer's own step.
LEMMA OwnAnswered ==
  ASSUME TypeOK, LockHeld, NEW p \in Writer, Step(p), Steady(p), Answered(p)
  PROVE  Answered(p)'
<1>. DEFINE t == task[p]
<1>1. t \in Task /\ TaskInOrder(t) /\ task \in [Writer -> Task]
  BY DEF TypeOK
<1>2. ASSUME ~Decides(task'[p]) PROVE Answered(p)'
  BY <1>2 DEF Answered, Decides
<1>3. ASSUME task'[p].pc \in {"recheck", "wait", "read"} PROVE Answered(p)'
  BY <1>3 DEF Answered, Decides
<1>4. hand' = hand
  BY StepFrame
<1>5. CASE \E e \in Entity : BeginOp(p, e)
  <2>1. ASSUME NEW o \in Op, NEW e \in Entity, NEW c \in {"wait", "recheck", "syncread"},
               c = "syncread" => o = "save", Begin(p, o, e, c)
        PROVE  Answered(p)'
    <3>1. task'[p].pc = c /\ task'[p].op = o
      BY <1>1, <2>1 DEF Begin, IdleTask
    <3>. QED  BY <1>2, <1>3, <2>1, <3>1 DEF Decides
  <2>2. ASSUME NEW e \in Entity, CreateOpen(p, e) PROVE Answered(p)'
    <3>1. task'[p].op = "create"
      BY <1>1, <2>2 DEF CreateOpen, IdleTask
    <3>. QED  BY <1>2, <3>1 DEF Decides
  <2>3. {"reject", "merge", "prune", "flag", "heal", "verify", "update", "annotate", "save"} \subseteq Op
    BY DEF Op
  <2>. QED
    BY <1>5, <2>1, <2>2, <2>3 DEF BeginOp, BeginReject, BeginMerge, BeginPrune, BeginFlag,
       BeginHeal, BeginVerify, BeginUpdate, BeginAnnotate, BeginSave
<1>6. CASE LockTimeout(p) \/ GiveUp(p) \/ Finish(p) \/ Crash(p)
  <2>1. task'[p].op = "none"
    BY <1>1, <1>6 DEF LockTimeout, GiveUp, Finish, Crash, IdleTask
  <2>. QED  BY <1>2, <2>1 DEF Decides
<1>7. CASE RecheckMerge(p)
  <2>1. task'[p].pc = "wait" \/ task'[p].op = "none"
    BY <1>1, <1>7 DEF RecheckMerge, IdleTask, Task
  <2>. QED  BY <1>2, <1>3, <2>1 DEF Decides
<1>8. CASE TakeLock(p)
  <2>1. task'[p].pc = "read"
    BY <1>1, <1>8 DEF TakeLock, Task
  <2>. QED  BY <1>3, <2>1
<1>9. CASE ReadDoc(p)
  <2>1. PICK o \in Plan(t) :
          task' = [task EXCEPT ![p] = [t EXCEPT !.pc = "write", !.doc = file[t.ent], !.out = o]]
    BY <1>9 DEF ReadDoc
  <2>2. task'[p].pc = "write" /\ task'[p].out = o /\ task'[p].op = t.op
    BY <1>1, <2>1 DEF Task
  <2>3. o \in Doc /\ file[t.ent] \in Doc
    BY <1>1, PlanType
  <2>4. Decides(t) => o.status = VerdictOf(t)
    BY <2>3 DEF Plan, Rewrites, Decides, VerdictOf, Doc
  <2>. QED  BY <2>2, <2>3, <2>4 DEF Answered, Decides, VerdictOf
<1>10. CASE WriteDoc(p)
  <2>1. /\ task'[p].pc = IF t.op = "prune" THEN "tombstone" ELSE "syncread"
        /\ task'[p].out = t.out /\ task'[p].op = t.op /\ t.pc = "write"
    BY <1>1, <1>10 DEF WriteDoc, Task
  <2>. QED  BY <2>1 DEF Answered, Decides, VerdictOf
<1>11. CASE CreateWrite(p)
  <2>1. task'[p].op = "create"
    BY <1>1, <1>11 DEF CreateWrite, TaskInOrder, Task
  <2>. QED  BY <1>2, <2>1 DEF Decides
<1>12. CASE Rollback(p) \/ Tombstone(p) \/ Trim(p) \/ Unlink(p)
  <2>1. ~Decides(t)
    BY <1>12 DEF Rollback, Tombstone, Trim, Unlink, Answered
  <2>2. task'[p].op = t.op
    <3>1. CASE Rollback(p) \/ Tombstone(p)
      BY <1>1, <3>1 DEF Rollback, Tombstone, Task
    <3>2. CASE Trim(p) \/ Unlink(p)
      <4>1. \E gone : \/ task'[p] = [t EXCEPT !.pc = "unlink", !.gone = gone]
                     \/ task'[p] = [t EXCEPT !.pc = "done", !.gone = gone]
        BY <1>1, <3>2 DEF Trim, Unlink
      <4>. QED  BY <1>1, <4>1 DEF Task
    <3>. QED  BY <1>12, <3>1, <3>2
  <2>. QED  BY <1>2, <2>1, <2>2 DEF Decides
<1>. DEFINE ending(x) == /\ x.pc \in {"done", "rollback"} /\ x.op = t.op /\ x.ent = t.ent
                         /\ x.out = t.out
<1>13. t.op # "update" => SyncError(t).pc = "done"
  BY <1>1 DEF SyncError, Task
<1>14. ending(SyncError(t)) /\ SyncError(t).ok = FALSE
  BY <1>1 DEF SyncError, Task
<1>15. ASSUME task'[p] = SyncError(t), t.pc \in {"syncread", "commit"} PROVE Answered(p)'
  BY <1>13, <1>14, <1>15 DEF Answered, Decides, VerdictOf
<1>16. CASE CommitBusy(p)
  <2>1. task'[p] = SyncError(t) /\ t.pc = "commit"
    BY <1>1, <1>16 DEF CommitBusy
  <2>. QED  BY <1>15, <2>1
<1>17. CASE SyncRead(p)
  <2>. DEFINE u == [t EXCEPT !.pc = "done", !.ok = TRUE]
              v == [t EXCEPT !.pc = "commit", !.snap = file[t.ent]]
  <2>1. t.pc = "syncread"
    BY <1>17 DEF SyncRead
  <2>2. /\ v.pc = "commit" /\ v.op = t.op /\ v.ent = t.ent /\ v.out = t.out /\ v.snap = file[t.ent]
        /\ u.op = t.op /\ u.ent = t.ent /\ u.out = t.out /\ u.pc = "done"
    BY <1>1 DEF Task
  <2>3. \/ file[t.ent] = NoFile /\ task'[p] = u
        \/ task'[p] = SyncError(t)
        \/ task'[p] = v
    BY <1>1, <1>17 DEF SyncRead
  <2>4. ASSUME Decides(t) PROVE /\ t.out \in Doc /\ t.out.status = VerdictOf(t)
                                /\ t.ent \notin hand => file[t.ent] = t.out
    BY <2>1, <2>4, VerdictOfType DEF Answered, Steady
  <2>5. CASE file[t.ent] = NoFile /\ task'[p] = u
    <3>. HIDE DEF u
    <3>. QED  BY <1>4, <2>2, <2>4, <2>5, FileAssumption DEF Answered, Decides, VerdictOf
  <2>6. CASE task'[p] = v
    <3>. HIDE DEF v
    <3>. QED  BY <1>4, <2>2, <2>4, <2>6 DEF Answered, Decides, VerdictOf
  <2>. QED  BY <1>15, <2>1, <2>3, <2>5, <2>6
<1>18. CASE SyncCommit(p)
  <2>. DEFINE u == [t EXCEPT !.pc = "done", !.ok = TRUE]
              e == t.ent
  <2>1. t.pc = "commit" /\ e \in Entity /\ t.snap \in Doc
    BY <1>1, <1>18 DEF SyncCommit, TaskInOrder
  <2>2. u.op = t.op /\ u.ent = t.ent /\ u.out = t.out /\ u.pc = "done"
    BY <1>1 DEF Task
  <2>3. \/ task'[p] = SyncError(t)
        \/ ~Refused(row[e], t.snap) /\ task'[p] = u
    BY <1>1, <1>18 DEF SyncCommit
  <2>4. row'[e] = Synced(row[e], t.snap) /\ file' = file
    BY <1>18, <2>1 DEF SyncCommit, TypeOK
  <2>5. ASSUME Decides(t) PROVE /\ t.out \in Doc /\ t.out.status = VerdictOf(t)
                                /\ e \notin hand => file[e] = t.out /\ t.snap = t.out
    BY <2>1, <2>5, VerdictOfType DEF Answered, Steady
  <2>6. ~Refused(row[e], t.snap) => row'[e] # NoRow /\ row'[e].status = t.snap.status
    BY <2>1, <2>4, RowOfType, FileAssumption DEF Synced, Unchanged, RowOf
  <2>7. CASE ~Refused(row[e], t.snap) /\ task'[p] = u
    <3>. HIDE DEF u
    <3>. QED  BY <1>4, <2>2, <2>4, <2>5, <2>6, <2>7 DEF Answered, Decides, VerdictOf, Carries
  <2>. QED  BY <1>15, <2>1, <2>3, <2>7
<1>. QED
  BY <1>5, <1>6, <1>7, <1>8, <1>9, <1>10, <1>11, <1>12, <1>16, <1>17, <1>18 DEF Step, Continue

\* A reject or a merge that reports success has reached the canonical file and
\* the database, and until it has returned no sync with an older parse takes it
\* back (reject.rs, merge.rs): the row is at most made a tombstone.
THEOREM VerdictIsRecorded == Spec => []VerdictAcknowledged
<1>. DEFINE Held == TypeOK /\ LockHeld /\ \A p \in Writer : Steady(p)
            Inv  == \A p \in Writer : Answered(p)
<1>1. Init => Inv
  BY DEF Init, IdleTask, Answered, Decides
<1>2. Held /\ Inv /\ [Next]_vars => Inv'
  <2>. SUFFICES ASSUME Held, Inv, [Next]_vars, NEW q \in Writer PROVE Answered(q)'
    OBVIOUS
  <2>1. ASSUME NEW p \in Writer, Step(p) PROVE Answered(q)'
    BY <2>1, OthersAnswered, OwnAnswered
  <2>2. CASE World
    BY <2>2, WorldAnswered
  <2>. QED  BY <2>1, <2>2 DEF Next, Step, World
<1>3. TypeOK /\ Inv => VerdictAcknowledged
  BY DEF Answered, Decides, VerdictAcknowledged, Carries, HasRow
<1>. QED  BY <1>1, <1>2, <1>3, LockSteady, PTL DEF Spec

=============================================================================
