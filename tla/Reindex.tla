------------------------------ MODULE Reindex ------------------------------
(***************************************************************************)
(* The code index of CogZ: rows for the definitions in the source files    *)
(* of a git repository, and the runs that bring them up to date.           *)
(*                                                                         *)
(* cogz index scans everything.  cogz reindex (and the background worker)  *)
(* diffs the recorded baseline commit with the work tree and processes     *)
(* only what git reports, or scans everything when there is no baseline.   *)
(* The save hook processes the one file it is told of.  No lock is held    *)
(* over a run: people edit, commit and switch branches meanwhile, and runs *)
(* overlap.                                                                *)
(*                                                                         *)
(* A commit is the tree it records, since only trees are compared.  The    *)
(* git index (staging area) is that of HEAD.  A name stands for a          *)
(* definition, and the entity of the file itself for one that every        *)
(* source has; a body is what the semantic hash sees of it.                *)
(***************************************************************************)
EXTENDS Naturals, FiniteSets

CONSTANTS
  File, Name, Body,
  NoDef,        \* the name is not defined in that source
  NoFile,       \* nothing at that path
  Garbled,      \* not UTF-8, over index.max_file_bytes, or no permission
  NoTree,       \* no baseline recorded
  NoRow, Unread,
  Denied,       \* files matched by [index].deny
  Edited,       \* what people and git leave at a path
  Worker,       \* processes and hook calls that index
  MaxEdits,     \* bound: edits, commits and branch switches
  MaxFaults     \* bound: crashes, transient read errors, busy writes

Source  == [Name -> Body \cup {NoDef}]
Content == Source \cup {NoFile, Garbled}
Tree    == [File -> Content]
Row     == [live : BOOLEAN, body : Body]

ASSUME ContentAssumption ==
  /\ NoFile \notin Source /\ Garbled \notin Source /\ NoFile # Garbled
  /\ NoDef \notin Body /\ Unread \notin Source
  /\ NoTree \notin Tree /\ NoRow \notin Row
  /\ Edited \subseteq Content /\ Denied \subseteq File
ASSUME BoundAssumption == MaxEdits \in Nat /\ MaxFaults \in Nat

VARIABLES
  work,      \* [File -> Content], the work tree
  head,      \* the tree of HEAD
  baseline,  \* the tree of last_indexed_commit, or NoTree
  row,       \* [File \X Name -> Row or NoRow]; a row that is not live is stale
  run,       \* [Worker -> Run]
  raced,     \* history: files that changed while a run was in progress
  missed,    \* history: files that returned to their baseline content, or
             \* whose rows the busy database refused
  edits, faults  \* counters for the bounds

history == <<raced, missed>>
vars == <<work, head, baseline, row, run, history, edits, faults>>

\* One index_code or reindex_files call in progress.
Run == [pc     : {"idle", "scan", "detect", "read", "rows", "missing", "gone",
                  "removed", "mark", "record"},
        kind   : {"index", "reindex", "save"},
        base   : Tree \cup {NoTree},             \* the baseline it read
        full   : BOOLEAN,                        \* index_code, not reindex_files
        todo   : SUBSET File,                    \* still to be read
        read   : [File -> Source \cup {Unread}], \* parsed so far
        failed : SUBSET File,                    \* failed_paths
        pin    : BOOLEAN,                        \* had_read_failures
        known  : [File \X Name -> Row \cup {NoRow}], \* existing_map
        gone   : SUBSET File,                    \* paths to mark stale
        marks  : SUBSET (File \X Name),          \* ids to mark stale
        alone  : BOOLEAN]   \* history: no other run, no change, no busy write

Idle == [pc |-> "idle", kind |-> "index", base |-> NoTree, full |-> FALSE,
         todo |-> {}, read |-> [f \in File |-> Unread], failed |-> {},
         known |-> [k \in File \X Name |-> NoRow],
         pin |-> FALSE, gone |-> {}, marks |-> {}, alone |-> FALSE]

Live == {w \in Worker : run[w].pc # "idle"}

Init ==
  /\ work \in [File -> Edited]
  /\ head = work
  /\ baseline = NoTree
  /\ row = [k \in File \X Name |-> NoRow]
  /\ run = [w \in Worker |-> Idle]
  /\ raced = {} /\ missed = {}
  /\ edits = 0 /\ faults = 0

-----------------------------------------------------------------------------
(* What git and the parser report.                                         *)

\* The files git reports against a base: a difference between base and HEAD,
\* or between HEAD and the work tree (untracked files are of the latter).
Changed(base, h, wt) == {f \in File : base[f] # h[f] \/ h[f] # wt[f]}

\* Reported as deleted: in base, and no longer tracked or no longer on disk.
\* An untracked file at such a path is not looked at again.
Deleted(base, h, wt) ==
  {f \in Changed(base, h, wt) :
     base[f] # NoFile /\ (h[f] = NoFile \/ wt[f] = NoFile)}

Defines(c, n) == c \in Source /\ c[n] # NoDef

IsLive(k) == row[k] # NoRow /\ row[k].live

\* The rows of f say what f says.  An unreadable file says nothing.
Mirrored(f) ==
  work[f] = Garbled \/
  \A n \in Name :
    IF Defines(work[f], n) THEN row[<<f, n>>] = [live |-> TRUE, body |-> work[f][n]]
                           ELSE ~IsLive(<<f, n>>)

-----------------------------------------------------------------------------
(* Starting a run.                                                         *)

Start(w, r) ==
  /\ run[w].pc = "idle"
  /\ run' = [v \in Worker |->
               IF v = w THEN [r EXCEPT !.alone = (Live = {})]
               ELSE IF run[v].pc = "idle" THEN run[v]
               ELSE [run[v] EXCEPT !.alone = FALSE]]
  /\ UNCHANGED <<work, head, baseline, row, history, edits, faults>>

\* cogz index: index_code.
BeginIndex(w) ==
  Start(w, [Idle EXCEPT !.pc = "scan", !.kind = "index", !.full = TRUE])

\* cogz reindex, reindex-bg: reindex_code reads the baseline.
BeginReindex(w) ==
  Start(w, [Idle EXCEPT !.pc = "detect", !.kind = "reindex", !.base = baseline])

\* The save hook: reindex_single_file, one file reported as modified.
BeginSave(w) == \E f \in File :
  Start(w, [Idle EXCEPT !.pc = "read", !.kind = "save", !.todo = {f}])

\* A step of worker w that leaves all but its run alone.
Step(w, r) ==
  /\ run' = [run EXCEPT ![w] = r]
  /\ UNCHANGED <<work, head, baseline, row, history, edits, faults>>

\* Phase 1 of index_code: the files on disk that the configuration admits.
Scan(w) ==
  LET r == run[w] IN
  /\ r.pc = "scan"
  /\ Step(w, [r EXCEPT !.pc = "read",
                       !.todo = {f \in File \ Denied : work[f] # NoFile}])

\* detect_changed_files, and the three arms of reindex_code.
Detect(w) ==
  LET r    == run[w]
      dead == Deleted(r.base, head, work)
      todo == Changed(r.base, head, work) \ dead
  IN  /\ r.pc = "detect"
      /\ IF r.base = NoTree
           THEN Step(w, [r EXCEPT !.pc = "scan", !.full = TRUE])
           ELSE Step(w, [r EXCEPT !.pc = IF todo \cup dead = {} THEN "record" ELSE "read",
                                  !.todo = todo, !.gone = dead])

-----------------------------------------------------------------------------
(* Reading.  Files are read one at a time; the order is left open.         *)

\* Mutant: a file that is not there is no failed path.
ReadFileUnlisted(w, f) ==
  LET r == [run[w] EXCEPT !.todo = @ \ {f}] IN
  /\ run[w].pc = "read" /\ f \in run[w].todo
  /\ CASE work[f] \in Source -> Step(w, [r EXCEPT !.read[f] = work[f]])
       [] work[f] = Garbled  -> Step(w, [r EXCEPT !.failed = @ \cup {f}])
       [] work[f] = NoFile   -> Step(w, [r EXCEPT !.pin = TRUE])

ReadFile(w, f) ==
  LET r == [run[w] EXCEPT !.todo = @ \ {f}] IN
  /\ run[w].pc = "read" /\ f \in run[w].todo
  /\ CASE work[f] \in Source -> Step(w, [r EXCEPT !.read[f] = work[f]])
       [] work[f] = Garbled  -> Step(w, [r EXCEPT !.failed = @ \cup {f}])
       [] work[f] = NoFile   -> Step(w, [r EXCEPT !.failed = @ \cup {f}, !.pin = TRUE])

\* An I/O error that another attempt may not meet.
ReadError(w, f) ==
  /\ run[w].pc = "read" /\ f \in run[w].todo
  /\ faults < MaxFaults
  /\ faults' = faults + 1
  /\ run' = [run EXCEPT ![w].todo = @ \ {f}, ![w].failed = @ \cup {f}, ![w].pin = TRUE]
  /\ UNCHANGED <<work, head, baseline, row, history, edits>>

-----------------------------------------------------------------------------
(* Writing the rows.  Each of these is a transaction or a statement of its *)
(* own; a busy database makes it fail, which is logged and forgotten.      *)

\* Statement of w done: the rows become rows, and the run goes on as r.
Write(w, r, rows) ==
  /\ run' = [run EXCEPT ![w] = r]
  /\ row' = rows
  /\ UNCHANGED <<work, head, baseline, history, edits, faults>>

\* The same statement refused, for the files fs.
Refused(w, r, fs) ==
  /\ faults < MaxFaults
  /\ faults' = faults + 1
  /\ run' = [run EXCEPT ![w] = [r EXCEPT !.alone = FALSE]]
  /\ missed' = missed \cup fs
  /\ UNCHANGED <<work, head, baseline, row, raced, edits>>

WriteOrRefuse(w, r, rows, fs) == Write(w, r, rows) \/ Refused(w, r, fs)

Stale(k) == IF IsLive(k) THEN [row[k] EXCEPT !.live = FALSE] ELSE row[k]

\* sync_entities_to_db reads the rows it is about to replace, and then writes
\* in one transaction, in which it does not look at them again.
Parsed(r) == {f \in File : r.read[f] # Unread}
AfterUpsert(r) == IF r.full THEN "missing" ELSE "removed"

ReadRows(w) ==
  LET r == run[w] IN
  /\ r.pc = "read" /\ r.todo = {}
  /\ \/ Step(w, [r EXCEPT !.pc = "rows",
                          !.known = [k \in File \X Name |->
                                       IF Defines(r.read[k[1]], k[2]) THEN row[k] ELSE NoRow]])
     \/ Refused(w, [r EXCEPT !.pc = AfterUpsert(r)], Parsed(r))

\* What the parse makes of row k.
Fresh(r, k) == [live |-> TRUE, body |-> r.read[k[1]][k[2]]]

\* Mutant: an update keeps the status of the row, stale ones included.
UpsertedAsWas(r) ==
  [k \in File \X Name |->
     IF Defines(r.read[k[1]], k[2])
       THEN [Fresh(r, k) EXCEPT !.live = row[k] = NoRow \/ row[k].live]
       ELSE row[k]]

\* What was known live with the same hash is skipped, what was not known and
\* is there by now refuses the insertion; the rest is inserted or updated,
\* and live.
Upserted(r) ==
  [k \in File \X Name |->
     IF \/ ~Defines(r.read[k[1]], k[2])
        \/ r.known[k] = Fresh(r, k)
        \/ r.known[k] = NoRow /\ row[k] # NoRow
       THEN row[k]
       ELSE Fresh(r, k)]

Upsert(w) ==
  LET r == run[w] IN
  /\ r.pc = "rows"
  /\ WriteOrRefuse(w, [r EXCEPT !.pc = AfterUpsert(r), !.known = Idle.known],
                   Upserted(r), Parsed(r))

\* Mutant: failed paths are swept like missing ones.
MissingOrFailed(r) ==
  {f \in File : r.read[f] = Unread /\ \E n \in Name : IsLive(<<f, n>>)}

\* The query of mark_stale_code_entities (full runs): paths with live rows
\* that are neither parsed nor failed.
MissingPaths(r) ==
  {f \in File \ r.failed : r.read[f] = Unread /\ \E n \in Name : IsLive(<<f, n>>)}

SelectMissing(w) ==
  LET r == run[w]
      paths == MissingPaths(r)
  IN  /\ r.pc = "missing"
      /\ Step(w, [r EXCEPT !.gone = paths, !.pc = IF paths = {} THEN "removed" ELSE "gone"])

\* mark_code_entities_stale_by_file_paths: the missing paths of a full run,
\* the deleted files of an incremental one.
MarkGone(w) ==
  LET r == run[w] IN
  /\ r.pc = "gone"
  /\ WriteOrRefuse(w, [r EXCEPT !.pc = IF r.full THEN "removed" ELSE "record"],
                   [k \in File \X Name |-> IF k[1] \in r.gone THEN Stale(k) ELSE row[k]],
                   r.gone)

AfterMarks(r) == IF ~r.full /\ r.gone # {} THEN "gone" ELSE "record"

\* The query of mark_stale_for_removed_entities: live rows of parsed files
\* whose definition is no longer in the parse.
RemovedNames(r) ==
  {k \in File \X Name :
     r.read[k[1]] # Unread /\ IsLive(k) /\ ~Defines(r.read[k[1]], k[2])}

SelectRemoved(w) ==
  LET r == run[w]
      ids == RemovedNames(r)
  IN  /\ r.pc = "removed"
      /\ Step(w, [r EXCEPT !.marks = ids, !.pc = IF ids = {} THEN AfterMarks(r) ELSE "mark"])

\* mark_entities_stale_by_ids.
MarkRemoved(w) ==
  LET r == run[w] IN
  /\ r.pc = "mark"
  /\ WriteOrRefuse(w, [r EXCEPT !.marks = {}, !.pc = AfterMarks(r)],
                   [k \in File \X Name |-> IF k \in r.marks THEN Stale(k) ELSE row[k]],
                   {k[1] : k \in r.marks})

-----------------------------------------------------------------------------
(* The end of a run.                                                       *)

\* Mutant: had_read_failures ignored.
RecordsAlways(r) == r.kind = "index" \/ (r.kind = "reindex" /\ ~r.full)

\* Whether the run records HEAD as the baseline: cogz index if no file failed,
\* an incremental cogz reindex if no failure was transient.
Records(r) ==
  \/ r.kind = "index" /\ r.failed = {}
  \/ r.kind = "reindex" /\ ~r.full /\ ~r.pin

\* The files this run has answered for.
Handled(r) ==
  {f \in File \ r.failed :
     \/ r.read[f] # Unread
     \/ work[f] = NoFile /\ (r.full \/ f \in r.gone)}

\* update_baseline, where the run gets to it, with HEAD as it is by now.
Record(w) ==
  LET r == run[w] IN
  /\ r.pc = "record"
  /\ baseline' = IF Records(r) THEN head ELSE baseline
  /\ run' = [run EXCEPT ![w] = Idle]
  /\ LET done == IF r.alone THEN Handled(r) ELSE {}
     IN  raced' = raced \ done /\ missed' = missed \ done
  /\ UNCHANGED <<work, head, row, edits, faults>>

\* The process dies; what it has committed stays.
Crash(w) ==
  /\ w \in Live
  /\ faults < MaxFaults
  /\ faults' = faults + 1
  /\ run' = [run EXCEPT ![w] = Idle]
  /\ UNCHANGED <<work, head, baseline, row, history, edits>>

-----------------------------------------------------------------------------
(* People and git.                                                         *)

\* The files whose content, or whose HEAD, changes.
Moved(wt, h) == {f \in File : wt[f] # work[f] \/ h[f] # head[f]}

\* The files git stops reporting although no run recorded them: they are back
\* to their baseline content.
Returned(wt, h) ==
  IF baseline = NoTree THEN {}
  ELSE Changed(baseline, head, work) \ Changed(baseline, h, wt)

Move(wt, h) ==
  /\ edits < MaxEdits
  /\ edits' = edits + 1
  /\ work' = wt /\ head' = h
  /\ <<wt, h>> # <<work, head>>
  /\ raced' = IF Live = {} THEN raced ELSE raced \cup Moved(wt, h)
  /\ missed' = missed \cup Returned(wt, h)
  /\ run' = [w \in Worker |->
               IF run[w].pc = "idle" THEN run[w] ELSE [run[w] EXCEPT !.alone = FALSE]]
  /\ UNCHANGED <<baseline, row, faults>>

\* A file is written, broken, restored or deleted.
Edit == \E f \in File, c \in Edited : Move([work EXCEPT ![f] = c], head)

\* git commit of some of the changed files.
Commit == \E fs \in SUBSET {f \in File : work[f] # head[f]} :
  Move(work, [f \in File |-> IF f \in fs THEN work[f] ELSE head[f]])

\* git switch, pull, merge: refused if it would overwrite a local change.
Switch == \E t \in [File -> Edited] :
  /\ \A f \in File : t[f] # head[f] => work[f] = head[f]
  /\ Move([f \in File |-> IF t[f] # head[f] THEN t[f] ELSE work[f]], t)

-----------------------------------------------------------------------------
Index(w) ==
  \/ BeginIndex(w) \/ BeginReindex(w) \/ BeginSave(w)
  \/ Scan(w) \/ Detect(w)
  \/ \E f \in File : ReadFile(w, f) \/ ReadError(w, f)
  \/ ReadRows(w) \/ Upsert(w) \/ SelectMissing(w) \/ MarkGone(w)
  \/ SelectRemoved(w) \/ MarkRemoved(w)
  \/ Record(w) \/ Crash(w)

Next == (\E w \in Worker : Index(w)) \/ Edit \/ Commit \/ Switch

Spec == Init /\ [][Next]_vars

-----------------------------------------------------------------------------
(* Properties.                                                             *)

\* Types; a run that is over has left nothing behind, a run that marks ids has
\* some, no file is both to be read and to be marked, and only a full run or
\* a diff against a recorded baseline goes past detection (index/mod.rs,
\* index/reindex.rs).
RunInOrder(r) ==
  /\ r.pc = "idle" => r = Idle
  /\ r.pc # "read" => r.todo = {}
  /\ r.pc = "mark" <=> r.marks # {}
  /\ r.pc = "detect" => r.kind = "reindex" /\ ~r.full
  /\ r.pc \in {"scan", "missing"} => r.full
  /\ r.pc \in {"scan", "detect"} =>
       r.gone = {} /\ r.failed = {} /\ \A f \in File : r.read[f] = Unread
  /\ r.todo \cap r.gone = {}
  /\ r.kind = "index" /\ r.pc # "idle" => r.full
  /\ r.kind = "reindex" /\ ~r.full /\ r.pc # "detect" => r.base # NoTree
  /\ r.kind = "save" => ~r.full /\ r.gone = {}
  /\ r.pin => r.failed # {}

TypeOK ==
  /\ work \in Tree /\ head \in Tree
  /\ baseline \in Tree \cup {NoTree}
  /\ row \in [File \X Name -> Row \cup {NoRow}]
  /\ run \in [Worker -> Run]
  /\ \A w \in Worker : RunInOrder(run[w])
  /\ raced \subseteq File /\ missed \subseteq File
  /\ edits \in Nat /\ faults \in Nat

\* The files the configuration admits and nothing untoward happened to.
Accounted == File \ (Denied \cup raced \cup missed)

\* Nothing slips past the baseline: a file the next reindex would not look at
\* is indexed as it is.  Crashes, partial read failures, overlapping runs and
\* the non-atomic statements of a run never lose a file; the exceptions are a
\* change while a run is in progress, a return to the baseline content that
\* no run saw, and a write the busy database refused (index/baseline.rs).
NothingSlips ==
  baseline # NoTree =>
    \A f \in Accounted \ Changed(baseline, head, work) : Mirrored(f)

\* No false stale mark: a definition of a tracked file on disk goes stale
\* only because the file is readable and no longer has it, whatever failed to
\* be read and whatever runs overlap (index/sync/db_sync.rs).
NoFalseStale ==
  [][\A f \in Accounted, n \in Name :
       /\ head[f] # NoFile /\ work[f] # NoFile
       /\ IsLive(<<f, n>>) /\ ~IsLive(<<f, n>>)'
       => work[f] \in Source /\ work[f][n] = NoDef]_vars

\* A run that ended undisturbed leaves every file it answered for as indexed,
\* what earlier crashed, refused or overlapping runs had left notwithstanding
\* (index/reindex.rs, index/sync/mod.rs).
AloneRunMirrors ==
  [][\A w \in Worker :
       /\ run[w].pc = "record" /\ run[w].alone /\ run'[w] = Idle
       => \A f \in Handled(run[w]) : Mirrored(f)]_vars

-----------------------------------------------------------------------------
(* Why they hold: what a run in progress knows about a file.               *)

\* Nothing has happened to f that run w could not see.
Follows(w, f) == run[w].alone \/ f \notin raced \cup missed

DefinedLive(f) == \A n \in Name : Defines(work[f], n) =>
                    row[<<f, n>>] = [live |-> TRUE, body |-> work[f][n]]
UndefinedStale(f) == \A n \in Name : ~Defines(work[f], n) => ~IsLive(<<f, n>>)

\* What the run has parsed is what is there.
ReadCurrent(r, f) == r.read[f] # Unread => r.read[f] = work[f]

\* What failed to be read, or is to be, was there for a full scan; and if no
\* failure was transient, it is unreadable.
FailedThere(r, f) ==
  /\ r.full /\ f \in r.todo \cup r.failed => work[f] # NoFile
  /\ f \in r.failed /\ ~r.pin => work[f] = Garbled

\* The files the run has to answer for are to be read, failed, read, or gone.
Covered(r, f) ==
  LET seen == f \in r.todo \cup r.failed \/ r.read[f] # Unread IN
  /\ r.full /\ r.pc # "scan" /\ f \notin Denied => seen \/ work[f] = NoFile
  /\ r.kind = "reindex" /\ ~r.full /\ r.pc # "detect" /\ f \in Changed(r.base, head, work)
       => seen \/ f \in r.gone

\* The paths to be marked are not parsed, and gone from the disk or from HEAD.
GoneThere(r, f) ==
  f \in r.gone =>
    /\ r.read[f] = Unread
    /\ r.full => work[f] = NoFile \/ f \in Denied
    /\ ~r.full => work[f] = NoFile \/ head[f] = NoFile

\* The ids to be marked are not defined in a file that was parsed.
MarksThere(r, f) == \A n \in Name :
  <<f, n>> \in r.marks => r.read[f] # Unread /\ ~Defines(work[f], n)

\* What the upsert will skip is up to date by now, and what it will insert is
\* not there, or up to date.
SkipsKnown(r, f) ==
  /\ r.pc = "rows"
  /\ r.alone \/ (head[f] # NoFile /\ f \notin Denied)
  => \A n \in Name : Defines(r.read[f], n) =>
       /\ r.known[<<f, n>>] = Fresh(r, <<f, n>>) => row[<<f, n>>] = Fresh(r, <<f, n>>)
       /\ r.known[<<f, n>>] = NoRow => row[<<f, n>>] \in {NoRow, Fresh(r, <<f, n>>)}

\* After the upsert, the definitions of a parsed file are live.
UpsertDone(r, f) ==
  /\ r.pc \in {"missing", "gone", "removed", "mark", "record"}
  /\ r.read[f] # Unread
  /\ r.alone \/ (head[f] # NoFile /\ f \notin Denied)
  => DefinedLive(f)

\* After the sweep of removed names, nothing else of it is.
SweepDone(r, f) ==
  r.read[f] # Unread =>
    /\ r.pc = "record" \/ (r.pc = "gone" /\ ~r.full) => UndefinedStale(f)
    /\ r.pc = "mark" => \A n \in Name :
         ~Defines(work[f], n) /\ IsLive(<<f, n>>) => <<f, n>> \in r.marks

\* After the marking of missing paths, a file that is not there has no live
\* rows.
MissingDone(r, f) ==
  work[f] = NoFile =>
    /\ r.full /\ r.pc \in {"removed", "mark", "record"} => UndefinedStale(f)
    /\ r.full /\ r.pc = "gone" /\ f \notin r.gone => UndefinedStale(f)
    /\ f \in r.gone /\ ~r.full /\ r.pc = "record" => UndefinedStale(f)

RunKnows(r, f) ==
  /\ ReadCurrent(r, f) /\ FailedThere(r, f) /\ Covered(r, f)
  /\ GoneThere(r, f) /\ MarksThere(r, f)
  /\ SkipsKnown(r, f) /\ UpsertDone(r, f) /\ SweepDone(r, f) /\ MissingDone(r, f)

\* A file that git does not report against the baseline a run has read.
BaseMirrored(r) ==
  r.kind = "reindex" /\ r.base # NoTree =>
    \A f \in Accounted \ Changed(r.base, head, work) : Mirrored(f)

\* The inductive invariant behind the three properties above.
IInv ==
  /\ NothingSlips
  /\ \A w \in Worker : run[w].alone => Live = {w}
  /\ \A w \in Live :
       /\ BaseMirrored(run[w])
       /\ \A f \in File : Follows(w, f) => RunKnows(run[w], f)

-----------------------------------------------------------------------------
(* What the code and its documents say, and a run refutes.                 *)

\* "The next `cogz reindex` will catch this file again via git diff"
\* (index/mod.rs): after a reindex that ended undisturbed and met no failure,
\* every file that did not change during an earlier run is indexed as it is.
NextReindexCatches ==
  [][\A w \in Worker :
       /\ run[w].pc = "record" /\ run[w].kind = "reindex"
       /\ run[w].alone /\ run[w].failed = {} /\ run'[w] = Idle
       => \A f \in File \ raced : Mirrored(f)]_vars

\* Files over the size limit "do not pin the incremental baseline"
\* (docs/configuration.md): an index that met only permanent failures records
\* its baseline.
SkipsDoNotPin ==
  [][\A w \in Worker :
       /\ run[w].pc = "record" /\ run[w].kind = "index"
       /\ ~run[w].pin /\ run'[w] = Idle /\ faults' = faults
       => baseline' = head]_vars

\* Deny patterns are "for files to exclude from indexing"
\* (docs/configuration.md): no row of such a file is ever live.
DeniedStayOut == \A f \in Denied, n \in Name : ~IsLive(<<f, n>>)
=============================================================================
