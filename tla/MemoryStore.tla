---------------------------- MODULE MemoryStore ----------------------------
(***************************************************************************)
(* The memory store of CogZ: canonical entity files under .cogz/, the      *)
(* SQLite row derived from each, and the processes that write them.        *)
(*                                                                         *)
(* Files are canonical and rows are derived: an operation takes the        *)
(* canonical-file write lock, reads the file, rewrites it, and syncs it    *)
(* into the database.  What it decides on, it usually read from the        *)
(* database before it took the lock.  Full syncs, the save hook, creation  *)
(* of a new entity and people (editors, git) take no lock at all.          *)
(*                                                                         *)
(* A Writer is a thread of control that runs one operation at a time (an   *)
(* MCP tool call, a CLI command, a step of the post-index pass, the save   *)
(* hook); a Syncer runs full syncs.                                        *)
(***************************************************************************)
EXTENDS StatusLattice, Naturals, FiniteSets

CONSTANTS
  Observation,    \* ids of observations: dated records
  Knowledge,      \* ids of knowledge entries: living claims about the code
  Body,           \* bodies an author may write
  Blank,          \* the empty body (and title) of a tombstone
  Pulled,         \* what an edit, a git checkout or a pull may leave at a path
  Writer, Syncer,
  NoEntity, NoFile, Garbled, NoRow, NoHash, NoScan, Free, Absent,
  MaxTombstones,  \* retention.tombstone_max_count
  MaxEdits,       \* bound: edits by people
  MaxFaults,      \* bound: crashes and busy commits
  MaxResets       \* bound: cogz reset

Entity == Observation \cup Knowledge

\* A parsed entity file.  orphan: stale_reason is "code_orphaned".
\* Timestamps, references and provenance stamps are left out: no step
\* decides on them, so rewriting only those leaves the record unchanged.
Doc == [status : Status, orphan : BOOLEAN, body : Body \cup {Blank}]

\* A path holds nothing, a parseable entity file, or something the parser or
\* the secret scan refuses.
File == Doc \cup {NoFile, Garbled}

\* A row: its status, and the file it was last synced from (content_hash
\* stands for the bytes; a tombstone has none).
Row == [status : Status, hash : Doc \cup {NoHash}]

ASSUME EntityAssumption ==
  /\ Observation \cap Knowledge = {}
  /\ NoEntity \notin Entity
ASSUME FileAssumption ==
  /\ NoFile \notin Doc /\ Garbled \notin Doc /\ NoFile # Garbled
  /\ NoHash \notin Doc /\ NoRow \notin Row /\ Absent \notin Status
  /\ Blank \notin Body /\ Pulled \subseteq File
ASSUME ProcessAssumption ==
  /\ Free \notin Writer
  /\ NoScan \notin [Entity -> File]
ASSUME BoundAssumption ==
  {MaxTombstones, MaxEdits, MaxFaults, MaxResets} \subseteq Nat

VARIABLES
  file,     \* [Entity -> File], the canonical files
  row,      \* [Entity -> Row \cup {NoRow}], the entities table
  live,     \* the knowledge entries whose code anchors are active rows
  lock,     \* holder of the canonical-file write lock, or Free
  task,     \* [Writer -> Task], where each writer is in its operation
  scan,     \* [Syncer -> ...], the files a full sync parsed in phase 1
  aged,     \* entities last written longer ago than the prune threshold
  born,     \* history: entities whose id has been minted
  hand,     \* history: entities whose file a person has touched
  spent     \* edits, faults and resets so far

store == <<file, row>>
vars  == <<file, row, live, lock, task, scan, aged, born, hand, spent>>

Op == {"reject", "merge", "prune", "flag", "heal", "verify", "update",
       "annotate", "create", "save"}

PC == {"idle", "recheck", "wait", "read", "write", "create", "syncread",
       "commit", "rollback", "tombstone", "trim", "unlink", "done"}

\* seen: the row status read before the lock; doc: the file read under the
\* lock; out: what will be written; snap: the file the sync step read;
\* ok: the operation reports success; gone: tombstones being removed.
Task == [pc : PC, op : Op \cup {"none"}, ent : Entity \cup {NoEntity},
         seen : Status \cup {"none"}, doc : File, out : File, snap : File,
         ok : BOOLEAN, gone : SUBSET Entity]

IdleTask == [pc |-> "idle", op |-> "none", ent |-> NoEntity, seen |-> "none",
             doc |-> NoFile, out |-> NoFile, snap |-> NoFile,
             ok |-> FALSE, gone |-> {}]

Init ==
  /\ file = [e \in Entity |-> NoFile]
  /\ row  = [e \in Entity |-> NoRow]
  /\ live = Knowledge
  /\ lock = Free
  /\ task = [p \in Writer |-> IdleTask]
  /\ scan = [s \in Syncer |-> NoScan]
  /\ aged = {} /\ born = {} /\ hand = {}
  /\ spent = [edits |-> 0, faults |-> 0, resets |-> 0]

-----------------------------------------------------------------------------
(***************************************************************************)
(* The sync of one parsed file into its row.                               *)
(***************************************************************************)

HasRow(e) == row[e] # NoRow

\* A file that claims to be a tombstone and still carries text.
FakeTombstone(d) == d.status = "pruned" /\ d.body # Blank

\* Mutant of Refused: the sync forgets the lattice.
RefusedFakesOnly(r, d) == FakeTombstone(d)

\* The sync of d over row r is an error: the row keeps what it has.
Refused(r, d) ==
  \/ FakeTombstone(d)
  \/ r # NoRow /\ r.status # d.status /\ ~CanMove(r.status, d.status)

\* Mutant of Unchanged: the bytes alone decide, so a row marked stale while
\* its file was away is skipped when the same bytes come back.
SameBytes(r, d) == r # NoRow /\ r.hash = d

Unchanged(r, d) == r # NoRow /\ r.hash = d /\ r.status = d.status

RowOf(d) == [status |-> d.status,
             hash   |-> IF d.status = "pruned" THEN NoHash ELSE d]

Synced(r, d) == IF Refused(r, d) \/ Unchanged(r, d) THEN r ELSE RowOf(d)

\* A full sync marks the row of a file it did not find.
MarkedMissing(r) ==
  IF r # NoRow /\ r.status = "active" THEN [r EXCEPT !.status = "stale"] ELSE r

\* Mutant of FullSynced: files that are gone are never noticed.
FullSyncedPresent(r, d) == IF d \in {NoFile, Garbled} THEN r ELSE Synced(r, d)

FullSynced(r, d) ==
  IF d = NoFile THEN MarkedMissing(r)
  ELSE IF d = Garbled THEN r
  ELSE Synced(r, d)

-----------------------------------------------------------------------------
(***************************************************************************)
(* Operations begin with a read of the database, outside the lock.         *)
(***************************************************************************)

Idle(p) == task[p].pc = "idle"

\* The writer starts operation o on e at step c, remembering the row status.
Begin(p, o, e, c) ==
  /\ task' = [task EXCEPT ![p] = [IdleTask EXCEPT
                !.pc = c, !.op = o, !.ent = e,
                !.seen = IF HasRow(e) THEN row[e].status ELSE "none"]]
  /\ UNCHANGED <<file, row, live, lock, scan, aged, born, hand, spent>>

\* reject_entity_file: the transition is pre-checked against the row.
BeginReject(p, e) ==
  /\ Idle(p) /\ HasRow(e) /\ CanMove(row[e].status, "rejected")
  /\ Begin(p, "reject", e, "wait")

\* find_merge_candidates pairs active observations only.
BeginMerge(p, e) ==
  /\ Idle(p) /\ e \in Observation /\ HasRow(e) /\ row[e].status = "active"
  /\ Begin(p, "merge", e, "recheck")

\* merge_one fetches the row again before it takes the lock.
RecheckMerge(p) ==
  /\ task[p].pc = "recheck"
  /\ LET e == task[p].ent IN
       task' = [task EXCEPT ![p] =
                 IF HasRow(e) /\ CanMove(row[e].status, "superseded")
                 THEN [@ EXCEPT !.pc = "wait", !.seen = row[e].status]
                 ELSE IdleTask]
  /\ UNCHANGED <<file, row, live, lock, scan, aged, born, hand, spent>>

\* find_prune_candidates
BeginPrune(p, e) ==
  /\ Idle(p) /\ e \in Observation \cap aged /\ HasRow(e)
  /\ row[e].status \in {"rejected", "superseded"}
  /\ Begin(p, "prune", e, "wait")

\* flag_stale_knowledge: active living entities anchored in stale code.
BeginFlag(p, e) ==
  /\ Idle(p) /\ e \in Knowledge \ live /\ HasRow(e) /\ row[e].status = "active"
  /\ Begin(p, "flag", e, "wait")

\* heal_stale_entities: every row that is stale.
BeginHeal(p, e) ==
  /\ Idle(p) /\ HasRow(e) /\ row[e].status = "stale"
  /\ Begin(p, "heal", e, "wait")

BeginVerify(p, e) ==
  /\ Idle(p) /\ HasRow(e)
  /\ Begin(p, "verify", e, "wait")

BeginUpdate(p, e) ==
  /\ Idle(p) /\ e \in Knowledge /\ HasRow(e)
  /\ Begin(p, "update", e, "wait")

\* Rewrites of references and stamps only: re-anchoring, provenance
\* backfill, recorded contradictions.
BeginAnnotate(p, e) ==
  /\ Idle(p) /\ HasRow(e)
  /\ Begin(p, "annotate", e, "wait")

\* The save hook syncs the saved file, without the lock.
BeginSave(p, e) ==
  /\ Idle(p) /\ file[e] # NoFile
  /\ Begin(p, "save", e, "syncread")

-----------------------------------------------------------------------------
(***************************************************************************)
(* The locked read-modify-write of the canonical file.                     *)
(***************************************************************************)

TakeLock(p) ==
  /\ task[p].pc = "wait" /\ lock = Free
  /\ lock' = p
  /\ task' = [task EXCEPT ![p].pc = "read"]
  /\ UNCHANGED <<file, row, live, scan, aged, born, hand, spent>>

\* The wait is bounded: the operation gives up on a held lock.
LockTimeout(p) ==
  /\ task[p].pc = "wait" /\ lock # Free
  /\ task' = [task EXCEPT ![p] = IdleTask]
  /\ UNCHANGED <<file, row, live, lock, scan, aged, born, hand, spent>>

AnchorsLive(e) == e \in Observation \cup live

Reactivated(d) == [d EXCEPT !.status = "active", !.orphan = FALSE]

\* What the operation writes when it read d under the lock; no value when it
\* leaves the file alone.  A verify that saw a stale row may leave it stale
\* when anchors are dead, unless its caller allowed dead references.
Rewrites(t, d) ==
  {o \in Doc :
     \/ t.op = "reject"   /\ o = [d EXCEPT !.status = "rejected"]
     \/ t.op = "merge"    /\ o = [d EXCEPT !.status = "superseded"]
     \/ t.op = "prune"    /\ o = [d EXCEPT !.status = "pruned", !.body = Blank]
     \/ t.op = "flag"     /\ o = [d EXCEPT !.status = "stale", !.orphan = TRUE]
     \/ t.op = "heal"     /\ d.orphan /\ AnchorsLive(t.ent) /\ o = Reactivated(d)
     \/ t.op = "verify"   /\ t.seen = "stale" /\ o = Reactivated(d)
     \/ t.op = "verify"   /\ (t.seen = "stale" => ~AnchorsLive(t.ent)) /\ o = d
     \/ t.op = "update"   /\ \E b \in Body : o = [d EXCEPT !.body = b]
     \/ t.op = "annotate" /\ o = d}

\* What there is to write, given what the path holds.
Plan(t) == IF file[t.ent] \in Doc THEN Rewrites(t, file[t.ent]) ELSE {}

ReadDoc(p) ==
  /\ task[p].pc = "read"
  /\ \E o \in Plan(task[p]) :
       task' = [task EXCEPT ![p] = [@ EXCEPT !.pc = "write", !.doc = file[task[p].ent], !.out = o]]
  /\ UNCHANGED <<file, row, live, lock, scan, aged, born, hand, spent>>

\* Nothing readable, or nothing to do: the lock goes and the operation ends.
GiveUp(p) ==
  /\ task[p].pc = "read" /\ Plan(task[p]) = {}
  /\ lock' = Free
  /\ task' = [task EXCEPT ![p] = IdleTask]
  /\ UNCHANGED <<file, row, live, scan, aged, born, hand, spent>>

\* Mutant of WriteDoc: the lock guard is dropped before the sync.
WriteDocAndUnlock(p) ==
  /\ task[p].pc = "write"
  /\ file' = [file EXCEPT ![task[p].ent] = task[p].out]
  /\ task' = [task EXCEPT ![p].pc = IF task[p].op = "prune" THEN "tombstone" ELSE "syncread"]
  /\ aged' = aged \ {task[p].ent}
  /\ lock' = Free
  /\ UNCHANGED <<row, live, scan, born, hand, spent>>

WriteDoc(p) ==
  /\ task[p].pc = "write"
  /\ file' = [file EXCEPT ![task[p].ent] = task[p].out]
  /\ task' = [task EXCEPT ![p].pc = IF task[p].op = "prune" THEN "tombstone" ELSE "syncread"]
  /\ aged' = aged \ {task[p].ent}
  /\ UNCHANGED <<row, live, lock, scan, born, hand, spent>>

-----------------------------------------------------------------------------
(***************************************************************************)
(* A new entity: the file is created and then filled, without the lock.    *)
(***************************************************************************)

\* create_new: from here the path exists and does not parse yet.
CreateOpen(p, e) ==
  /\ Idle(p) /\ e \notin born /\ file[e] = NoFile
  /\ file' = [file EXCEPT ![e] = Garbled]
  /\ born' = born \cup {e}
  /\ \E b \in Body :
       task' = [task EXCEPT ![p] = [IdleTask EXCEPT !.pc = "create", !.op = "create", !.ent = e,
                 !.out = [status |-> "active", orphan |-> FALSE, body |-> b]]]
  /\ UNCHANGED <<row, live, lock, scan, aged, hand, spent>>

\* The bytes go to the file that was opened, if it is still there.
CreateWrite(p) ==
  /\ task[p].pc = "create"
  /\ LET e == task[p].ent IN
       file' = [file EXCEPT ![e] = IF @ = Garbled THEN task[p].out ELSE @]
  /\ task' = [task EXCEPT ![p].pc = "syncread"]
  /\ aged' = aged \ {task[p].ent}
  /\ UNCHANGED <<row, live, lock, scan, born, hand, spent>>

-----------------------------------------------------------------------------
(***************************************************************************)
(* sync_single_file: read and parse, then one transaction on the row.      *)
(***************************************************************************)

\* Where an operation goes when its sync reported an error: update_knowledge
\* restores the bytes it read, every other caller returns.
SyncError(t) == [t EXCEPT !.pc = IF t.op = "update" THEN "rollback" ELSE "done",
                          !.ok = FALSE]

\* Mutant of SyncRead: a file that does not parse is synced all the same.
SyncReadUnparsed(p) ==
  /\ task[p].pc = "syncread"
  /\ task' = [task EXCEPT ![p] =
       IF file[task[p].ent] = NoFile THEN [@ EXCEPT !.pc = "done", !.ok = TRUE]
       ELSE [@ EXCEPT !.pc = "commit", !.snap = file[task[p].ent]]]
  /\ UNCHANGED <<file, row, live, lock, scan, aged, born, hand, spent>>

\* A path that is gone syncs nothing and reports no error.
SyncRead(p) ==
  /\ task[p].pc = "syncread"
  /\ LET d == file[task[p].ent] IN
       task' = [task EXCEPT ![p] =
         IF d = NoFile THEN [@ EXCEPT !.pc = "done", !.ok = TRUE]
         ELSE IF d = Garbled THEN SyncError(@)
         ELSE [@ EXCEPT !.pc = "commit", !.snap = d]]
  /\ UNCHANGED <<file, row, live, lock, scan, aged, born, hand, spent>>

\* Mutant of SyncCommit: the caller ignores the errors of the sync.
SyncCommitUnheard(p) ==
  /\ task[p].pc = "commit"
  /\ row' = [row EXCEPT ![task[p].ent] = Synced(@, task[p].snap)]
  /\ task' = [task EXCEPT ![p] = [@ EXCEPT !.pc = "done", !.ok = TRUE]]
  /\ UNCHANGED <<file, live, lock, scan, aged, born, hand, spent>>

SyncCommit(p) ==
  /\ task[p].pc = "commit"
  /\ LET e == task[p].ent
         d == task[p].snap IN
       /\ row' = [row EXCEPT ![e] = Synced(@, d)]
       /\ task' = [task EXCEPT ![p] =
            IF Refused(row[e], d) THEN SyncError(@)
            ELSE [@ EXCEPT !.pc = "done", !.ok = TRUE]]
  /\ UNCHANGED <<file, live, lock, scan, aged, born, hand, spent>>

\* The transaction loses to another process and nothing is written.
CommitBusy(p) ==
  /\ task[p].pc = "commit" /\ spent.faults < MaxFaults
  /\ task' = [task EXCEPT ![p] = SyncError(@)]
  /\ spent' = [spent EXCEPT !.faults = @ + 1]
  /\ UNCHANGED <<file, row, live, lock, scan, aged, born, hand>>

Rollback(p) ==
  /\ task[p].pc = "rollback"
  /\ file' = [file EXCEPT ![task[p].ent] = task[p].doc]
  /\ task' = [task EXCEPT ![p].pc = "done"]
  /\ UNCHANGED <<row, live, lock, scan, aged, born, hand, spent>>

-----------------------------------------------------------------------------
(***************************************************************************)
(* The database phase of a prune, still under the file lock.               *)
(***************************************************************************)

Prunable(r) == r # NoRow /\ r.status \in {"rejected", "superseded"}

\* Mutant of Tombstone: the content hash of the body survives.
TombstoneKeepsHash(p) ==
  /\ task[p].pc = "tombstone"
  /\ LET e == task[p].ent IN
       /\ row' = [row EXCEPT ![e] = IF Prunable(@) THEN [@ EXCEPT !.status = "pruned"] ELSE @]
       /\ task' = [task EXCEPT ![p].pc = "trim", ![p].ok = Prunable(row[e])]
  /\ UNCHANGED <<file, live, lock, scan, aged, born, hand, spent>>

Tombstone(p) ==
  /\ task[p].pc = "tombstone"
  /\ LET e == task[p].ent IN
       /\ row' = [row EXCEPT ![e] =
            IF Prunable(@) THEN [status |-> "pruned", hash |-> NoHash] ELSE @]
       /\ task' = [task EXCEPT ![p].pc = "trim", ![p].ok = Prunable(row[e])]
  /\ UNCHANGED <<file, live, lock, scan, aged, born, hand, spent>>

Tombstones == {e \in Entity : HasRow(e) /\ row[e].status = "pruned"}

\* enforce_tombstone_limit, rows first; which of the tombstones are the
\* oldest is left open.
Trim(p) ==
  /\ task[p].pc = "trim"
  /\ \E gone \in SUBSET Tombstones :
       /\ Cardinality(gone) = IF Cardinality(Tombstones) > MaxTombstones
                              THEN Cardinality(Tombstones) - MaxTombstones ELSE 0
       /\ row' = [e \in Entity |-> IF e \in gone THEN NoRow ELSE row[e]]
       /\ task' = [task EXCEPT ![p] = [@ EXCEPT !.pc = "unlink", !.gone = gone]]
  /\ UNCHANGED <<file, live, lock, scan, aged, born, hand, spent>>

\* ... then their files.
Unlink(p) ==
  /\ task[p].pc = "unlink"
  /\ file' = [e \in Entity |-> IF e \in task[p].gone THEN NoFile ELSE file[e]]
  /\ task' = [task EXCEPT ![p] = [@ EXCEPT !.pc = "done", !.gone = {}]]
  /\ UNCHANGED <<row, live, lock, scan, aged, born, hand, spent>>

Released(p) == IF lock = p THEN Free ELSE lock

\* The operation returns and drops the lock guard, if it has one.
Finish(p) ==
  /\ task[p].pc = "done"
  /\ lock' = Released(p)
  /\ task' = [task EXCEPT ![p] = IdleTask]
  /\ UNCHANGED <<file, row, live, scan, aged, born, hand, spent>>

\* The process dies: its memory and its flock go with it.
Crash(p) ==
  /\ ~Idle(p) /\ spent.faults < MaxFaults
  /\ lock' = Released(p)
  /\ task' = [task EXCEPT ![p] = IdleTask]
  /\ spent' = [spent EXCEPT !.faults = @ + 1]
  /\ UNCHANGED <<file, row, live, scan, aged, born, hand>>

-----------------------------------------------------------------------------
(***************************************************************************)
(* The full sync: parse every file, then one transaction over all rows.    *)
(***************************************************************************)

Scan(s) ==
  /\ scan[s] = NoScan
  /\ scan' = [scan EXCEPT ![s] = file]
  /\ UNCHANGED <<file, row, live, lock, task, aged, born, hand, spent>>

FullCommit(s) ==
  /\ scan[s] # NoScan
  /\ row' = [e \in Entity |-> FullSynced(row[e], scan[s][e])]
  /\ scan' = [scan EXCEPT ![s] = NoScan]
  /\ UNCHANGED <<file, live, lock, task, aged, born, hand, spent>>

\* A busy commit or a crash between the phases: nothing was written.
FullSyncLost(s) ==
  /\ scan[s] # NoScan /\ spent.faults < MaxFaults
  /\ scan' = [scan EXCEPT ![s] = NoScan]
  /\ spent' = [spent EXCEPT !.faults = @ + 1]
  /\ UNCHANGED <<file, row, live, lock, task, aged, born, hand>>

\* cogz reset deletes the database under the file lock.
Reset ==
  /\ lock = Free /\ spent.resets < MaxResets
  /\ row' = [e \in Entity |-> NoRow]
  /\ spent' = [spent EXCEPT !.resets = @ + 1]
  /\ UNCHANGED <<file, live, lock, task, scan, aged, born, hand>>

-----------------------------------------------------------------------------
(***************************************************************************)
(* The world: people edit, delete, restore and pull files; code changes.   *)
(***************************************************************************)

\* A pulled or restored file brings its own updated_at.
Edit(e) ==
  /\ spent.edits < MaxEdits
  /\ \E d \in Pulled \ {file[e]} : file' = [file EXCEPT ![e] = d]
  /\ born' = born \cup {e} /\ hand' = hand \cup {e}
  /\ spent' = [spent EXCEPT !.edits = @ + 1]
  /\ aged' \in {aged, aged \cup {e}}
  /\ UNCHANGED <<row, live, lock, task, scan>>

\* Days pass over an entity nobody works on: the threshold is at least a day
\* (config/validate.rs) and an operation waits ten seconds at most.
Age(e) ==
  /\ \A p \in Writer : task[p].ent # e
  /\ \A s \in Syncer : scan[s] = NoScan
  /\ aged' = aged \cup {e}
  /\ UNCHANGED <<file, row, live, lock, task, scan, born, hand, spent>>

CodeChange(e) ==
  /\ live' = IF e \in live THEN live \ {e} ELSE live \cup {e}
  /\ UNCHANGED <<file, row, lock, task, scan, aged, born, hand, spent>>

-----------------------------------------------------------------------------

BeginOp(p, e) ==
  \/ BeginReject(p, e) \/ BeginMerge(p, e) \/ BeginPrune(p, e) \/ BeginFlag(p, e)
  \/ BeginHeal(p, e) \/ BeginVerify(p, e) \/ BeginUpdate(p, e)
  \/ BeginAnnotate(p, e) \/ BeginSave(p, e) \/ CreateOpen(p, e)

\* What a writer does once its operation has begun.
Continue(p) ==
  \/ RecheckMerge(p) \/ TakeLock(p) \/ LockTimeout(p) \/ ReadDoc(p) \/ GiveUp(p)
  \/ WriteDoc(p) \/ CreateWrite(p) \/ SyncRead(p) \/ SyncCommit(p) \/ Rollback(p)
  \/ Tombstone(p) \/ Trim(p) \/ Unlink(p) \/ Finish(p)

Next ==
  \/ \E p \in Writer : (\E e \in Entity : BeginOp(p, e)) \/ Continue(p)
                       \/ CommitBusy(p) \/ Crash(p)
  \/ \E s \in Syncer : Scan(s) \/ FullCommit(s) \/ FullSyncLost(s)
  \/ Reset
  \/ \E e \in Entity : Edit(e) \/ Age(e)
  \/ \E e \in Knowledge : CodeChange(e)

Spec == Init /\ [][Next]_vars

\* An operation that has begun runs to its end, and full syncs keep coming
\* (the session hooks and every reindex run one).
Fairness ==
  /\ \A p \in Writer : WF_vars(Continue(p))
  /\ \A s \in Syncer : WF_vars(Scan(s)) /\ WF_vars(FullCommit(s))

FairSpec == Spec /\ Fairness

-----------------------------------------------------------------------------
(***************************************************************************)
(* Properties.                                                             *)
(***************************************************************************)

\* Operations that read and rewrite an existing file under the lock.
Locking(t) == t.op \notin {"none", "create", "save"}

\* A task holds what its place in the operation needs.
TaskInOrder(t) ==
  /\ t.pc # "idle" => t.ent \in Entity /\ t.op \in Op
  /\ t.pc \in {"recheck", "wait", "read", "write", "rollback", "tombstone", "trim", "unlink"} =>
       Locking(t)
  /\ t.pc \in {"write", "syncread", "commit", "rollback", "tombstone"} /\ Locking(t) =>
       t.doc \in Doc /\ t.out \in Doc
  /\ t.pc = "create" => t.op = "create" /\ t.out \in Doc
  /\ t.pc = "commit" => t.snap \in Doc

\* Every variable holds a value of its kind.
TypeOK ==
  /\ file \in [Entity -> File]
  /\ row \in [Entity -> Row \cup {NoRow}]
  /\ live \subseteq Knowledge
  /\ lock \in Writer \cup {Free}
  /\ task \in [Writer -> Task] /\ \A p \in Writer : TaskInOrder(task[p])
  /\ scan \in [Syncer -> [Entity -> File] \cup {NoScan}]
  /\ aged \subseteq Entity /\ born \subseteq Entity /\ hand \subseteq Entity
  /\ spent \in [edits : 0 .. MaxEdits, faults : 0 .. MaxFaults, resets : 0 .. MaxResets]

\* The row's status only ever moves along the lattice, whatever the
\* interleaving of locked writes, unlocked syncs and direct database writes
\* (tombstones, stale marks): the index implements DerivedStatus.
StatusOf == [e \in Entity |-> IF HasRow(e) THEN row[e].status ELSE Absent]
Derived == INSTANCE DerivedStatus WITH status <- StatusOf
RowsFollowLattice == Derived!Spec

\* No lost update between CogZ's own writers (storage/mod.rs: "prevent
\* concurrent writers from clobbering each other's changes"): when a writer is
\* about to rewrite a file, and when it is about to restore it, the file is
\* still what it read, or wrote, under the lock.
LockedReadIsCurrent ==
  \A p \in Writer : task[p].ent \notin hand =>
    /\ task[p].pc = "write" => file[task[p].ent] = task[p].doc
    /\ task[p].pc \in {"rollback", "tombstone"} => file[task[p].ent] = task[p].out

\* The text of a pruned observation never comes back into its canonical file:
\* no writer that read the file before the prune writes the old body after it.
TombstoneStaysEmpty ==
  \A e \in Observation \ hand :
    HasRow(e) /\ row[e].status = "pruned" /\ file[e] \in Doc => file[e].body = Blank

\* A reject or merge that reports success has reached both the canonical file
\* and the database, and no sync carrying an older parse took it back (it may
\* at most have made a tombstone of the row).
VerdictAcknowledged ==
  \A p \in Writer :
    LET t == task[p] IN
      t.pc = "done" /\ t.ok /\ t.op \in {"reject", "merge"} /\ t.ent \notin hand =>
        /\ file[t.ent] = t.out
        /\ HasRow(t.ent) /\ row[t.ent].status \in {t.out.status, "pruned"}

\* The only status the database holds on its own account is the stale mark of
\* a missing file (sync_ops.rs: "the only DB-only status write").
OnlyStaleIsDbOnly ==
  \A e \in Entity : HasRow(e) /\ row[e].hash # NoHash =>
    \/ row[e].status = row[e].hash.status
    \/ row[e].status = "stale" /\ row[e].hash.status = "active"

\* The row agrees with the file, or the file asks for a move the lattice
\* forbids (an error on every sync); no file, no active row.
Settled(e) ==
  IF file[e] = NoFile THEN HasRow(e) => row[e].status # "active"
  ELSE file[e] \in Doc =>
         \/ HasRow(e) /\ row[e] = RowOf(file[e])
         \/ Refused(row[e], file[e])

\* A full sync whose parse is still what the disk holds settles every row: it
\* may skip a file only when nothing about its row is out of date.
CleanScanSettles ==
  [][\A s \in Syncer :
       scan[s] = file /\ scan'[s] = NoScan /\ spent' = spent => \A e \in Entity : Settled(e)']_vars

\* Once the files stop changing, the index catches up with them for good.
EventuallySettled ==
  (<>[][file' = file]_vars) => <>[](\A e \in Entity : Settled(e))

\* Said of sync_ops.rs:193: a row is marked stale in the database only if the
\* file is genuinely missing from disk.
StaleMarkOnlyIfMissing ==
  [][\A e \in Entity :
       /\ HasRow(e) /\ row[e].status = "active"
       /\ row'[e] = [row[e] EXCEPT !.status = "stale"]
       => file[e] = NoFile]_vars

\* Said of prune.rs:171, where the files of trimmed tombstones are deleted "so
\* they don't recreate the entities on the next sync": no sync makes a row for
\* an entity that has no file.
NoRowWithoutFile ==
  [][\A e \in Entity : ~HasRow(e) /\ row'[e] # NoRow => file[e] # NoFile]_vars

\* Said of reject.rs:53: an illegal transition fails without modifying
\* anything.
FailedRejectLeavesFile ==
  \A p \in Writer :
    LET t == task[p] IN
      t.pc = "done" /\ ~t.ok /\ t.op = "reject" => file[t.ent] = t.doc

\* Said of stale_flagging.rs:66: already-stale or terminal entities are
\* skipped by the stale flagging, so it never overwrites a verdict.
FlagSkipsTerminal ==
  \A p \in Writer :
    task[p].op = "flag" /\ task[p].pc = "write" => task[p].doc.status \notin Verdict

=============================================================================
