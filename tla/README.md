# A TLA+ development of CogZ

CogZ keeps what coding agents learn about a repository: observations, rules and
knowledge entries as Markdown files under `.cogz/`, and a SQLite index derived
from them (and from the source code) that search and context packs read.  This
directory holds TLA+ models of its protocols, the TLC configurations that check
them, and theorems about them that the TLA+ proof system checks.

Source lines below are relative to the crate, `src/` of the repository.

| module | what it models |
|---|---|
| `StatusLattice` | the statuses of an entity and the moves between them (`storage/status.rs`) |
| `DerivedStatus` | abstract specification: what the index promises about statuses |
| `MemoryStore`, `_proofs` | the store: canonical files, rows, the write lock, every writer, full syncs, crashes, resets, people |
| `Reindex`, `_proofs` | the code index: git, the work tree, rows of definitions, the baseline, full, incremental and single-file runs |
| `CodeGraph` | the tables of the code graph: how names become edges, in full and incrementally |
| `PostIndex`, `_proofs` | the rest of an index run: edges, links, and the drift pass over knowledge that refers to code |
| `ModelRuntime` | one ONNX model: lazy load, idle reap, inference, the downloads of library and files |
| `EmbeddingSync`, `_proofs` | background workers and the vectors they keep beside the rows |
| `Schema` | the ten migrations of a database file |
| `RepoServer`, `_proofs` | the repository cache of the MCP server, the opens behind it, the two-level file lock |
| `Consolidation`, `_proofs` | duplicates and contradictions on creation; promotion and merge |
| `HookSession`, `_proofs` | lifecycle hooks and tools of one session, the telemetry they record and the nudges mined from it |
| `Ranking` | fusion and ordering of search results |
| `Search` | one search, statement by statement |
| `ContextPack` | a context pack made from a search or a cold start |
| `Retrieval_proofs` | theorems about `ModelRuntime`, `Ranking`, `Search` and `ContextPack` |

`MC<module>.tla` and `MC<module>_<instance>.cfg` are the small instances for
TLC.  `PROJECT.json` lists components, runs, mutants, the map from definitions to
source lines, findings, hazards and theorems.

`DerivedStatus` is implemented by `MemoryStore`.  `RepoServer` extends `Schema`,
`PostIndex` extends `CodeGraph`, `ContextPack` extends `Search`, which extends
`Ranking`.  `StatusLattice` is shared by `MemoryStore`, `DerivedStatus` and
`Consolidation`.

## 1. The system

Several processes work on one repository at a time: an MCP server (`mcp/`, many
tool calls on threads), hooks (`hooks/`, a short process per editor event), the
command line (`commands/`), and detached background workers (`reindex-bg`,
`embed-bg`).  They share the file system and the database and nothing else.

| component | state | operations | interacts by | modelled in |
|---|---|---|---|---|
| status lattice (`storage/status.rs`) | - | `transition_status` | called by every status write | `StatusLattice` |
| canonical files (`files/`) | `.cogz/**/*.md` | parse, atomic write, sync one, sync all | files; rows through sync | `MemoryStore` |
| index (`storage/`) | SQLite tables `entities`, `edges`, `events`, vectors, `meta` | CRUD, tombstones, cascade delete | one connection mutex per process, SQLite between processes | all |
| write lock (`storage/mod.rs`) | in-process mutex and flock on `.cogz/.lock` | `file_lock` (bounded wait), drop | shared by every canonical writer | `MemoryStore`, `RepoServer` |
| rejection, verification (`files/reject.rs`, `index/verify.rs`) | - | reject, verify, batch verify | row read, lock, file, sync | `MemoryStore`, `PostIndex` |
| drift maintenance (`index/post_index.rs`, `stale_flagging.rs`, `reanchor.rs`, `drift.rs`) | `entity_drift` | re-anchor, flag, repair, backfill, recompute, heal | reads, then the lock, then writes | `PostIndex`, `MemoryStore` |
| consolidation (`consolidate/`) | - | dedup, contradict, promote, merge | the same; NLI and embedding models as oracles | `Consolidation`, `MemoryStore` |
| prune (`doctor/prune.rs`) | - | tombstone files, rows, trim | the same, then direct row writes | `MemoryStore` |
| MCP write path (`mcp/entity_helpers.rs`, `helpers.rs`, `update_knowledge.rs`) | - | create, update with rollback | new files without the lock, updates with it | `MemoryStore`, `Consolidation`, `EmbeddingSync` |
| MCP server (`mcp/server.rs`, `repo_cache.rs`) | cache of open repositories | open once, evict idle, recheck on a hit | `Arc`s held by tool calls | `RepoServer` |
| code index (`index/`) | code rows, edges, baseline commit | full index, incremental reindex, single file | git, the work tree, rows | `Reindex`, `CodeGraph`, `PostIndex` |
| background workers (`bg_lock.rs`, `commands/*_bg.rs`) | flock on `.cogz/.bg.lock` | reindex-bg, embed-bg | spawned by hooks and by each other | `EmbeddingSync` |
| embeddings (`embed/`, `storage/embeddings.rs`) | vectors, model runtimes, model files | load, reap, infer; fetch, store, repair missing | rows read before inference, vectors stored after | `ModelRuntime`, `EmbeddingSync` |
| search (`search/`) | access counts | hybrid search in seven statements | reads rows that others change | `Ranking`, `Search` |
| context packs (`context/`) | - | a pack under a token budget | the results of a search | `ContextPack` |
| hooks, events, usage, mining (`hooks/`, `storage/events.rs`, `usage.rs`, `mining_signals.rs`) | events, deliveries, entity usage | deliver, credit, close, sweep, nudge | a transaction per statement | `HookSession` |
| schema (`storage/schema.rs`) | schema version | migrations | once per open | `Schema`, `RepoServer` |
| co-change index (`index/cochange.rs`) | a derived table | rebuild and swap | git; read by search | - |
| the rest (parsers, config, harness writers, secret scan, update, CLI) | files written once | - | - | - |

Files are *canonical*, rows are *derived*.  A canonical writer reads a row
(which entity, which path, which status), takes the write lock, reads the file,
rewrites it by temp-file and rename, syncs that one file into the database in
one transaction, and drops the lock.  Three kinds of steps take no lock: the
full sync (`sync_inner`: parse everything, then one transaction), the save hook,
and the creation of a new file (`create_new`, then the bytes).  Prune writes the
row directly.  People and git change the files at any time.

### What is hard, and what makes each part correct

* **Store.**  Decisions are taken on rows read before the lock; unlocked syncs
  carry old parses; a process may die after any step; a commit may lose to
  another process.  Correct means: no lost update between CogZ's own writers;
  the status in the index only moves along the lattice; an acknowledged verdict
  stays; the index catches up with the files.
* **Code index.**  The baseline commit is read, diffed and advanced in separate
  steps while commits and edits happen; runs overlap; each run is a sequence of
  separate transactions, any of which may be refused; some files of a run cannot
  be read.  Correct: a file the next reindex would not look at is indexed as it
  is; a definition that exists is never retired; an undisturbed run puts its
  files in order.
* **Code graph and drift pass.**  A pass reads, takes the lock, writes: runs,
  people and `cogz verify` come between its steps.  Correct: a caller the graph
  names is one; after an undisturbed run the drift table is exact; knowledge
  follows relocated code; what a person attested or marked stays.
* **Models.**  Session, tokenizer and tracker have a mutex each; two processes
  download the same files; the library is initialised once.  Correct: no torn
  model, no link to half a download, every call returns.
* **Vectors.**  Inference takes seconds between fetch and store, workers hand
  work over and die.  Correct: a vector describes the content of its row or has
  a known reason not to; an entity without one gets one.
* **Server.**  Eviction, reopening and resets happen under calls that hold a
  state.  Correct: a call works on the current database and configuration; one
  writer per repository; the cache stays within its bound.
* **Consolidation.**  Several files per operation, overlapping passes, failed
  syncs.  Correct: no claim is lost, no observation becomes two rules, of two
  concurrent duplicates one caller is told, duplicates merge in the end.
* **Telemetry.**  Hooks of one session overlap and are killed.  Correct: nothing
  credits itself, one pack is open, a closed pack is settled, a suggestion is
  shown once.
* **Search and packs.**  Stages reorder one list in turn; a search is no
  transaction; a pack is cut, regrown and cut again.  Correct: an earned channel
  stays visible, a lead worth showing is shown, what is returned was live, a
  pack goes over its budget by no more than the marks of its cuts and less than
  a title.

`PROJECT.json` lists every hazard at its line, with the properties that cover it.
Where the code leaves a race open, the property bounds what the race may do and
does not exclude it: `NothingSlips`, `TornNeedsOverlap`, `StaleVectorHasCause`,
`StaleStateHasCause`, `CacheBounded`, `SecondRuleNeedsCause` and `NudgedOnce` each
name the overlap, fault or call that their hazard is about as the one excuse.
What they show is that nothing *else* leads there.

## 2. The runs

| run | instance | states | result |
|---|---|---|---|
| `store_records` | `MemoryStore`: 1 observation, 2 writers, 1 full sync, 1 fault, 1 reset | 725 375 | holds |
| `store_edits` | `MemoryStore`: 1 knowledge entry, 1 writer, 1 full sync, 2 edits, fairness | 387 500 | holds |
| `reindex_overlap` | `Reindex`: 1 file, 1 definition with 2 bodies or none, 2 workers, 2 edits, 1 fault | 2 747 490 | holds |
| `runtime_calls` | `ModelRuntime`: 2 calls of up to 2 chunks, 1 downloading process, 2 default models, 2 idle periods, 1 fault, fairness | 384 047 | holds |
| `embedding_vectors` | `EmbeddingSync`: 1 entity of each space, 2 contents, 2 processes, 1 command-line job, 1 fault, fairness | 427 379 | holds |
| `server_tools` | `RepoServer`: 2 repositories (databases of schema 2), 3 calls, a cache of 1, 1 change | 537 941 | holds |
| `consolidate_passes` | `Consolidation`: 3 observations, 2 rule ids, 3 scenarios, 1 fault, fairness | 221 608 | holds |
| `session_telemetry` | `HookSession`: 9 sessions of 3 calls, 2 processes, 2 files, 1 fault, 1 sweep | 447 018 | holds |
| `search_pack` | `ContextPack`: 6 entities, 324 queries, 1 status change during the search | 376 807 | holds |
| `post_index` | `PostIndex`: 2 files, 2 definitions, 1 document, 2 runs that may overlap, 2 events | 1 258 227 | holds |
| `graph_equivalence` | `PostIndex`, 1 worker | - | `IncrementalMatchesFull` is violated |
| `move_baseline` | `PostIndex`, 1 worker | - | `MoveKeepsBaseline` is violated |

Bounds on edits, faults, runs, resets and changes are guards of the actions
they bound; the theorems of section 13 hold for any value of them.  Each section
below says why its instance is large enough.  Symmetry is used for writers,
workers, calls and processes, and never in a run that checks liveness.

Deadlock is checked, but for two runs in which the system really stops: a
search ends with its pack (`search_pack`), a session with its last call
(`session_telemetry`).

Each property of a passing run has a mutant of the model, an operator next to
the one it replaces, that a plausible bug would produce (a lock dropped early,
a lattice check forgotten, an eviction one late, ...) and that makes TLC find
the property violated.

## 3. The store: `MemoryStore`

### State

| variable | in the program |
|---|---|
| `file[e]` | what the path of entity `e` holds: nothing, a parseable entity file (`Doc`), or something the parser or the secret scan refuses (`Garbled`) |
| `row[e]` | its row: status and `content_hash`; the hash stands for the bytes, so it is the `Doc` itself, and a tombstone has none |
| `live` | knowledge entries whose code anchors are active rows (moved by `CodeChange`) |
| `lock` | the holder of the canonical-file write lock |
| `task[p]` | where writer `p` is, what it read before the lock (`seen`), under it (`doc`), what it writes (`out`), what its sync parsed (`snap`) |
| `scan[s]` | what full sync `s` parsed in phase 1 |
| `aged` | entities last written longer ago than the prune threshold |
| `born`, `hand`, `spent` | history: ids minted, files touched by people, counters of edits, faults and resets |

A *writer* is one thread of control running one operation at a time.

### Actions and code

| steps | code |
|---|---|
| `BeginReject/Merge/Prune/Flag/Heal/Verify/Update/Annotate/Save` | the database read an operation decides on, with its guards |
| `RecheckMerge` | `merge_one` fetching the row again |
| `TakeLock`, `LockTimeout` | `file_lock`, `lock_file_bounded` |
| `ReadDoc`, `GiveUp` | the read under the lock; `Rewrites` says what each operation makes of the file |
| `WriteDoc` | temp file and rename (`files/atomic.rs`) |
| `CreateOpen`, `CreateWrite` | `create_new`, then `write_all`: in between the path exists and does not parse |
| `SyncRead`, `SyncCommit`, `CommitBusy` | `sync_single_file`: parse without the connection, then one transaction |
| `Rollback` | `update_knowledge_file` restoring the bytes it read |
| `Tombstone`, `Trim`, `Unlink` | the database phase of `run_prune` and `enforce_tombstone_limit`, which are separate statements and not a transaction |
| `Finish`, `Crash` | the guard is dropped; the process dies and its flock goes with it |
| `Scan`, `FullCommit`, `FullSyncLost` | the two phases of `sync_inner` |
| `Reset` | `cogz reset`, under the file lock |
| `Edit`, `Age`, `CodeChange` | people, git, the calendar, the code |

### What is abstracted

* Titles, bodies, references, tags, provenance stamps and timestamps: no step
  decides on them, except that a tombstone must be empty (`Blank`) and that
  `updated_at` ages (`aged`).  Rewrites of references and stamps only are the
  operation `annotate`.
* One path per entity.  A title change that moves a file, and two files with one
  id, are not modelled.
* An operation works on one entity.  A pass over many is a sequence of such
  operations, which allows more interleavings than one lock held over the batch.
* Observations are the dated records and `Knowledge` the living claims; an
  explicit `volatility` that contradicts the type is not modelled.
* Phase 1 of a full sync reads all files at one instant.  With one entity per
  instance this is exact, because one file is read once.
* An edit that breaks a file between the read and the write of a locked rewrite
  is overwritten by the rename, as in the code; the search for another path
  that `write_entity_file_atomic` does for knowledge then is left out.
* Reset empties the one database everybody uses.  In the program a process that
  had it open keeps the deleted file; what it still writes is lost with it.
* Which tombstones are the oldest is left open, and so is whether a pulled file
  is old (`Edit` chooses).
* An entity ages only while no operation or scan is in flight on it: the
  threshold is at least a day (`config/validate.rs:158`) and the lock wait ten
  seconds.

### Properties

| property | what it says |
|---|---|
| `TypeOK` | types, and each operation in progress has what its next step needs (`TaskInOrder`) |
| `RowsFollowLattice` | the store implements `DerivedStatus`: statuses in the index move along the lattice, a row vanishes only as a tombstone or by reset |
| `LockedReadIsCurrent` | no lost update: what a writer is about to rewrite, restore or tombstone is what it read or wrote under the lock, unless a person stepped in |
| `VerdictAcknowledged` | a reject or merge that reports success is in the file and in the row, whatever unlocked syncs were in flight |
| `OnlyStaleIsDbOnly` | any status in a row is that of the file it was last synced from, but for the stale mark of a missing file |
| `CleanScanSettles` | a full sync of files that did not change under it leaves every row in agreement (or with an error) |
| `EventuallySettled` | once the files stop changing, the index agrees with them for good |

`TombstoneStaysEmpty` (no late writer puts the text of a pruned observation
back) holds too, on the instance of `store_records`; no run states it, because
`RowsFollowLattice` and `VerdictAcknowledged` break with every change of the
code that breaks it.

### Bounds and fairness

One entity is enough for these properties because every step but the full sync,
the reset and the trim touches one entity, and those three treat each entity
alike; two writers and a scan give every pair of conflicting steps, and a third
party that the pair can race with.  One fault is enough to cut any operation at
any step.  Two edits let a file be broken or deleted and then restored.  With
`MaxTombstones = 1` a tombstone persists, with 0 it is trimmed at once.  Both
kinds of entities are covered: `store_records` has a record, `store_edits` a
living claim with its flagging, healing and verification.

Fairness (`FairSpec`): an operation that has begun runs on, since each is
straight-line code whose waits are bounded (a lock wait ends in `TakeLock` or
`LockTimeout`); and full syncs keep coming, since every session start, reindex
and index runs one.  Nothing is assumed of people, crashes or the code.

## 4. The code index: `Reindex`

### State

| variable | in the program |
|---|---|
| `work[f]`, `head[f]` | the file in the work tree and in the tree of HEAD: a source (which names it defines, with which body), nothing, or something that cannot be read now or later (`Garbled`: too large, not UTF-8, no permission) |
| `baseline` | the tree of `last_indexed_commit` in the table `meta`, or `NoTree` |
| `row[f, n]` | the row of definition `n` of file `f`: live (`active`) or stale, and the body its `content_hash` stands for |
| `run[w]` | where the `index_code`, `reindex_code` or `reindex_single_file` call of worker `w` is: what it diffed against, has to read, has parsed (`entities_by_file`), failed to read (`failed_paths`), the rows it found (`existing_map`), whether a failure pins the baseline (`had_read_failures`), the paths and ids it is about to mark |
| `raced`, `missed`, `run[w].alone` | history: files that changed while a run was in progress; files that returned to their baseline content or lost a write to a busy database; whether a run was undisturbed |

### Actions and code

| steps | code |
|---|---|
| `BeginIndex`, `BeginReindex`, `BeginSave` | `cogz index`; `cogz reindex` and `reindex-bg` reading the baseline; the save hook |
| `Detect` (`Changed`, `Deleted`) | `changed_source_files`: baseline to work tree, baseline to HEAD, untracked files, first mention wins; the three arms of `reindex_code` |
| `Scan` | `scan_source_files` with `[index].deny` (`[index].allow` and `.gitignore` only shrink or grow what is denied) |
| `ReadFile`, `ReadError` | the loop of `parse_source_files`, one file at a time, and which failures pin |
| `ReadRows` | the first statement of `sync_entities_to_db`: the existing rows of what was parsed; if it fails, nothing is written |
| `Upsert` | the transaction of `sync_entities_to_db`, which decides by the rows read before (`db_sync.rs:11`, `:35`): one that another process inserted meanwhile refuses the insertion, one that it changed meanwhile is skipped if it was right before |
| `SelectMissing`, `MarkGone` | `mark_stale_code_entities`: a query, then an update; for an incremental run the update is `mark_stale_for_deleted_files` |
| `SelectRemoved`, `MarkRemoved` | `mark_stale_for_removed_entities`: the same for definitions that left their file |
| `Refused` | the read of the rows or any of the three writes failing, which is logged and forgotten |
| `Record` | `should_update_baseline`, `update_baseline` with HEAD as it is by then |
| `Crash` | the process dies between any two steps |
| `Edit`, `Commit`, `Switch` | people and git |

### What is abstracted

* A commit is its tree, and git's staging area is that of HEAD.  Diffs compare
  trees only, so nothing else about history matters.
* A body is what the semantic hash sees.  A change that git reports and the hash
  does not (formatting) is read and skipped, with no effect on the rows.  The
  line numbers such a change moves are not modelled.
* The order in which files are read is open; in the code it is sorted.
* A repository without git takes the path of a missing baseline.
* Edges and auto-links hang on the rows and are in `CodeGraph` and `PostIndex`,
  embeddings in `EmbeddingSync`; co-change rows are not modelled.
* Edits and faults are bounded by the guards on `MaxEdits` and `MaxFaults`.

### Properties

| property | what it says |
|---|---|
| `TypeOK` | types, and every run in progress is in order (`RunInOrder`) |
| `NothingSlips` | a file that differs neither from the baseline nor from HEAD, and that the next reindex will therefore not look at, is indexed as it is.  Exactly three things excuse a file: it changed while a run was in progress, it returned to its baseline content, a busy database refused its rows.  An undisturbed run that handles the file ends the excuse |
| `NoFalseStale` | a definition of a tracked file on disk goes stale only if the file is readable and lacks it, whatever fails to be read and however runs overlap |
| `AloneRunMirrors` | an undisturbed run leaves every file it handled as indexed, whatever crashed, refused or overlapping runs left behind |

`NothingSlips` states the exceptions as history variables so that they are
visible: `baseline.rs:26` records the HEAD of after the run, so a commit made
meanwhile is lost from view, and `db_sync.rs:65` lets a refused commit pass.
`NoFalseStale` leaves out files HEAD does not track: one that is on disk again
where the baseline had a file is reported as deleted (`git_diff.rs:76`) and is
stale until the next full index.

### Bounds

One file suffices for races: every statement treats each file by itself, but for
what a run records and the queries over all rows, and those were checked with two
files and one worker (one body, 3 305 409 states) and are proved for any number.  Two edits
let a file change and change back, or be changed and committed; one fault cuts a
run at any step.  The start states are a clean checkout without a baseline; the
runs reach every other state through a first index.

## 5. Models: `ModelRuntime`

| variable | in the program |
|---|---|
| `model`, `wanted`, `fetching` | the configured registry entry, and the switches that turn it or downloads off |
| `lib`, `archive`, `ort` | the shared library file, the staged archive, the state of `ORT_INIT` |
| `files`, `flat` | the snapshot directory and whether the flat path links to it |
| `session`, `tokenizer`, `tracker` | the three separately locked parts of a loaded model |
| `guard` | the call that holds session and tokenizer for an inference |
| `pc`, `left`, `again` | per call: its step, the chunks left, whether it reloaded for this chunk |
| `pull` | per downloading process: its step |

`Call` and what follows are `embed`/`classify` with `try_load`: the look at the
session, the age, the reap under two locks in turn (`unload`), memory, the one
initialisation of the library (`ensure_ort`: find, fetch, verify, copy, init),
the files, the publication of session and tokenizer, and the inference chunk by
chunk with one reload each (`embed_chunk`).  `PullFile`, `Unlink`, `Link` are
`download_model` in other processes, `PeerInstall` the library copy, `Restart`
the death of the server.

| property | what it says |
|---|---|
| `LinkedIsLoadable` | a flat path only ever links to a directory its loader can load from; `is_model_cached` looks at nothing else, so a link made early would be for good |
| `TornNeedsOverlap` | a session without a tokenizer takes two overlapping calls; no failed load, killed download or idle period leaves one behind |
| `CallsEnd` | every call ends: no reload waits for a lock its caller holds, nobody waits for ever on the initialiser |

Two calls give every race between reaping, loading and inference; one process
that downloads beside the server gives every race on the paths; one fault kills
or fails any step.  The two default models are one of each loader.  Fairness is
strong, per call: a thread that runs is scheduled and a mutex that is released
over and over is granted in the end (the mutexes of the standard library promise
no order, so weak fairness would not do).  Nothing is assumed of downloads.

Not modelled: CUDA providers, the resource floor's arithmetic (`SeesMemory`
may refuse), and the flag behind `is_available`, which only the save hook asks.
The copy of the library goes straight to its final path (`download_ort`), so a
second process can open a partial file; the model has this as `"partial"`, and the
process then runs without vectors until it is started again.  A loaded NLI model
is never unloaded by idleness (`nli.rs:141`), although `README.md:210` and
`docs/configuration.md:102` say so of every model.

## 6. Vectors and workers: `EmbeddingSync`

| variable | in the program |
|---|---|
| `disk[e]`, `row[e]`, `vec[e]` | the content of an entity in the tree, in its row, and the one its vector was computed from, as versions |
| `lock` | `.cogz/.bg.lock` |
| `db`, `run[p].db` | the generation of the database file, and the one a job opened: a handle on a deleted file still works, on that file |
| `ready` | the model files are there |
| `run[p]` | the job of process `p`: reindex-bg, index, tool write, embed-bg or reset, its step, ids and batch |
| `saved`, `disturbed` | history: synced by a save hook and not embedded since; a job failed, was refused, or met another |

The steps are those of `reindex_bg::run`, `cogz index` and `embed_bg::run`:
lock, files, code, co-change, targets (`EmbedTargets`: synced or missing), fetch,
knowledge inline, code inline or handed to a detached embed-bg with
`--lock-held`.  `ToolWrite` is `write_and_sync` with its late embedding,
`SaveCanonical` and `SaveSource` the save hook, `StartReset` and `DropDatabase`
`cogz reset`.

| property | what it says |
|---|---|
| `ReindexIsAlone` | one reindex-bg works at a time from its first look to its last store, and no reset deletes the database under it |
| `StaleVectorHasCause` | a vector of an older content is there for one of three reasons: a save hook, a pass still on its way, or a job that failed or met another |
| `MissingVectorHeals` | an entity without a vector gets one, whatever dropped, refused or killed the pass that should have embedded it |

One entity of each space is enough, because a batch treats its entities alike and
the two spaces differ in their step; two processes overlap in every pair of jobs
and a hand-off needs both.  The fairness: jobs run on, sessions keep starting
(each spawns a reindex-bg), models are downloaded in the end.

The excuses of `StaleVectorHasCause` are real: a stale vector is only replaced
when its entity is synced again, since repair looks for missing vectors
(`storage/embeddings.rs:168`).  `SaveHookEmbeds`, the comment of
`handle_cogz_file_save`, is refuted on this model: the hook has just constructed
its runtime, whose flag says not loaded (`hooks/handlers.rs:95`,
`embed/onnx.rs:126`), so it never embeds.  An embed-bg started with
`--lock-held` holds no lock once its parent is gone (`bg_lock.rs:1`,
`commands/mod.rs:402`): a reset or a reindex-bg may run beside it, which
`ReindexIsAlone` therefore does not exclude.

## 7. The server: `Schema` and `RepoServer`

`Schema` has the ten migrations as operators on a database record: its version,
the tables and columns it has, and the vectors a migration moves (those of the
old single table, those of the two spaces, and their rowid map).  `Climbed` is
the sequence of `if current < n` of `migrate_inner`; `MigrateInner`
applies what a database lacks, `CheckVersion` is the check of an open, and
`InsertEmbedding` the write that relies on the map.

| variable of `RepoServer` | in the program |
|---|---|
| `conf[r]`, `file[r]`, `db[r]` | the modification time of `config.toml`; which database file is at the path; the contents of all of them, deleted ones included |
| `repos`, `order` | the map and the LRU list of `RepoCache`, under two mutexes |
| `mutex[s]`, `flock[r]` | the in-process mutex of a `Storage`, and the `Storage` whose lock file has the OS lock |
| `call[c]` | a tool call: its step, repository, state, and what was in place when it began (`since`, history) |
| `split` | history: a path came back between the two halves of its removal |

A call gets an entry (`Get`, `Stat`, `Touch`, or a removal in two halves), or
claims the slot and opens (`LoadConfig`, `OpenStorage` with all migrations in
one transaction, `Publish`, `List`, `EvictIfOverCapacity`), and then writes
under both locks (`LockMutex`, `LockFile`, `Write`, which drops them in the order
of `FileLockGuard`).  Others edit the configuration, reset, and index.

| property | what it says |
|---|---|
| `StaleStateHasCause` | a call works on a configuration or database older than those of its begin only through a state whose stamp was taken of something newer than it opened: the identity is read after the open |
| `OneWriter` | one canonical writer per repository, also between calls that share a `Storage` (one flock) and calls whose `Storage` was evicted or reopened |
| `VectorsMapped` | whatever version a file had, no vector is lost, doubled, in the wrong space or outside the rowid map |
| `CacheBounded` | between two evictions the cache holds no more than its limit, unless a path came back in the middle of its removal |

The stronger `NoWriteToDeadFile` (the comment at `repo_cache.rs:18`) is refuted:
a reset and an index between the open and the stamp leave a state that looks
current and writes to a deleted file.  `resolve_repo`'s removal of a stale
entry may also remove the slot another call is opening by then; both end up with
a state, one of them unlisted.

Two repositories fill a cache of one and evict each other; three calls are one
that opens, one that removes and one that waits; one change (an edit, a reset,
a failed open or a lock timeout) puts any two in disagreement.  The databases
start at version 2, the one with a single vector table, so that every migration
runs.  `CallsReturn` (every call ends, under `FairSpec`) was checked with the
same instance and is not a run.

## 8. Consolidation: `Consolidation`

State: files and rows as frontmatter records (status, `superseded_by`,
`derived_from`, supporters, contradictions), stored vectors, the write lock, and
the locals of writers and passes.  A writer is `write_and_sync` with its
checks: file, sync, embedding and comparison, candidates, the record of what
they contradict.  A pass is `run_promotion` and then `run_merge`: candidates and
edges in two reads, a rule file and its sync, the recheck, the lock, the
supersession and its sync, pair by pair.  Crashes, failed syncs, contended
locks, rejections and full syncs are `Fault`s.  Which pairs are similar, equal
in title or opposed is a constant: the models and the number gate are oracles.
The limits on candidates are left out: 100 active or rejected entries of a type
(`consolidate/dedup.rs:114`, `:167`) and 50 for contradictions
(`consolidate/contradict.rs:82`).  In a larger store the peer may be beyond them,
and then `OneOfTwoIsWarned` does not hold; the code logs that for duplicates.

| property | what it says |
|---|---|
| `ClaimSurvives` | from a superseded entry, `superseded_by` leads through entries with rows, never in a circle, to one that is not superseded |
| `SecondRuleNeedsCause` | one observation becomes two rules only when two passes overlapped or a rule's file was written and its sync failed |
| `OneOfTwoIsWarned` | of two duplicates (or contradicting observations) created at once, one caller at least is told |
| `DuplicatesMerge` | two active duplicates with vectors do not stay, as long as consolidation is run |

`ClaimSurvives` needs distinct creation times of duplicates (`DistinctTimes` in
the proofs).  With equal ones the test `<=` and the ordered keys of `seen_pairs`
make both orders of a pair candidates (`merge.rs:199-209`), `merge_one` rechecks
the entry it supersedes and not the survivor, and one pass supersedes each by the
other: the claim is lost.  Clocks have nanoseconds; files written by hand or
imported may share a time.  The excuses
of `SecondRuleNeedsCause` are real: promotion takes no lock and does not recheck,
and a failed sync of a rule hides it from the next pass; a source whose
supersession failed is not tried again, since its rule exists by then.  A rule's
supporting ids become edges too, so it counts as a supporter of the
observations that supported it (`promote.rs:78` speaks of observations only).

Three observations are a chain of duplicates, a duplicate of both kinds, a
supporter and a contradiction; two passes over two of them give every race of
promotion and merge, and one pass beside two creations every race with writers.
Fairness: processes run on, and `cogz consolidate` is run again and again; it
is what `DuplicatesMerge` says of a user who does.

## 9. Sessions: `HookSession`

State: the tables `events`, `deliveries` with `entity_usage` (one outcome per
entity), the process that serves each call, the day and the last sweep, and
history variables for who ran beside whom, who credited what and what was
suggested.  A call is a plan, the list of its database steps in the order the
code takes them (`PromptPlan`, `SavePlan`, `SearchPlan`, ...); a step is one
transaction, which may be given up (`with_busy_retry`), and a hook may be
killed between any two.  A session is a sequence of calls; calls overlap.

| property | what it says |
|---|---|
| `NoSelfCredit` | a call never credits what it delivers itself, but for `find_callers` of a recursive function, whose seed is among its results |
| `OnePackOpen` | two packs are open together only when their calls overlapped or something was lost |
| `ClosedIsSettled` | a row of a closed delivery is pending only if its call ran beside another |
| `NudgedOnce` | a suggestion is shown once a day across all surfaces, unless two calls mined at once or an impression was lost |

Sessions of three calls are long enough for each: a delivery, a use or a
boundary, and a call that looks back.  Nine sessions use every kind of call in
the roles the properties tell apart; two processes give every overlap.

Refuted here: `UnchartedIsUnused` (`mining_signals.rs:88`: the agent worked in
territory the pack did not cover).  A pack the agent pulls closes the one before
and leaves no event, so a later save of a file the first pack delivered counts
against it; `UnchartedNeedsPull` says that this is the only way, and holds.
Read in the code and not stated: `--record-only` session starts
(`configure/hook_payloads.rs:40`) record a pack as shown that was not printed,
against `storage/schema.rs:330`; `docs/integration/agent-setup.md:56` calls the forced
reindex of a session start debounced.  `hot_files` is not modelled.  The CLI's
`search` and `context` take the steps of their tools (`cli.rs`), `get_impact`
those of `PullPlan`, `find_orphans` those of `QueryPlan`.

## 10. Search and packs: `Ranking`, `Search`, `ContextPack`

`Ranking` is the arithmetic of one result list in thousandths: reciprocal rank
fusion of three lists per channel, the channels' weights from gradients and match
counts, the relevance floor, the drift demotion, the provenance boost,
diversification, diversity slots and the window quota.  Its helpers on lists
(`InOrder` lists a finite set in a strict order, `Ascending` is that for numbers,
`Keep` filters, `StableSort` sorts, `Fold` and `Total` fold) are recursive
functions or choices, so that they can be proved about.

`Search` runs the statements of `hybrid_search` in order, its `stage` being the one
that is next: lexical, vectors of both spaces, feedback, graph, ranking, gate
with access counts, graph expansion, siblings, history, append and cap.  A query
carries what the index would answer with every entity admitted; each statement
answers with the entities it admits when it runs, while `SyncStale` and
`SyncHeals` change their status.  `Reach` is the bounded walk over weighted edges.
History is cut at three times the limit after the filter by status and before
files are taken out of it, as in `hybrid_helpers.rs:66`.

`ContextPack` makes sections of the results, or of a cold start, and puts them
through the passes of `assemble`: sort, duplicates, tail compression, the
budget, regrowth, demotion, index.  A text is a sequence of lines, so that
overlap and excerpts mean something, and a line is what it says and its width:
four characters are a token, an excerpt ends in a marker line of its own width
(`context/compress.rs:250`), a cut ends inside a line.  A title costs `Title`
tokens and a pointer four.  `pack.demoted` is history: how many sections were cut
to an excerpt after the budget was spent.

| property | what it says |
|---|---|
| `EarnedChannelSeen` | slots and quota, one after the other, leave each channel that earned a fifth of the weight a place in the top window |
| `LeadsSurface` | a sibling or history member over the floor is shown, although channels claim candidates before they drop them; but for a history member the sibling channel dropped |
| `ReturnedWasLive` | a result was active at some moment of the search, whichever statement found it; siblings alone are not asked |
| `AccessMeansReturned` | access counts tell what was returned, and no entity is returned twice |
| `PackFits` | the sections go over the budget, or over the baseline if that is larger, only by less than a title (`context/compress.rs:154`: the last section keeps its title whatever is left) and by `Growth`, the size of a marker, for each section demoted after regrowth (`context/assemble.rs:222`: no second fit, and the marker may be wider than the lines it replaces); the index is only listed within the budget |

Six entities are one of each kind that a stage treats differently, with a file
that repeats its members, two knowledge entries that overlap, curated and
automatic links; a limit of 2 and a budget of 60 tokens make every list overflow.
The 324 queries are six lexical lists, two pairs of vector lists, three sets of
spaces, two gradients and both callers, plus inspections, cold starts and packs
without a baseline (`tiered_push` off).  The function ends in a brace, so that
demotion replaces a narrow line by a wide marker; sections are demoted, cut to
their title and listed until the budget is full, and some packs with a demoted section
go over it.

Of texts the model leaves out indentation, which `line_set` trims, and bytes: regrowth
compares lengths in bytes (`context/compress.rs:231`) where it estimates in characters,
so with multi-byte text a candidate may replace a content of more characters,
and the subtraction at `:237` may fall below zero.  A marker has one width, although the
number in it varies; the tail and a demoted section have one `Minimal`.

Refuted here.  `WindowQuotaMet` (`rank.rs:322`): what a quota promotes is
inserted at the end of the window and may push out better members of the same
channel (`rank.rs:383`).  `BaselineShips` (`assemble.rs:188`): sections are
sorted before duplicates are dropped, so a rule that the search already found
keeps its search section, which the budget may cut, and loses the one of the
baseline (`assemble.rs:171`, `:175`).  Also read there and followed by the model: drifted
items are demoted without a sort after it unless a later stage sorts; with a
limit of 1 the slots let the heavier channel win; a history member below the
floor as a sibling is lost; the cap gives history a quarter of the limit and may
drop history while other slots are free, up to 1.25 times the limit in all;
siblings ignore the status filter and history ignores a request for all
statuses.  Not modelled: strategies other than `detect`, filters by type, rows
deleted during a search, provenance stamps, formatting.

## 11. The code graph and the drift pass: `CodeGraph`, `PostIndex`

`CodeGraph` has the sources as parsed (definitions with a semantic hash, raw
edges with the text they name), the rows, the edges, the two name maps (a full
scan's, by qualified name among what it parsed; an incremental one's, by title
among all rows) and what a sync writes.  A name that fits two rows fits none.

| variable of `PostIndex` | in the program |
|---|---|
| `doc[e]` | a document and its row: status, `stale_reason`, references, `verified_against` |
| `link`, `auto`, `drift` | the edges `references` and `auto_references`, the table `entity_drift` |
| `run[w]` | an index, reindex, save or pass: its step and what it read |
| `fresh`, `calm`, `attested`, `hand` | history: files last synced undisturbed, undisturbed runs in a row, what verify stamped, what a person marked stale |

The steps are those of `index_code`, `reindex_code` and `reindex_single_file`
after reading (`SyncRows`, `SyncEdges`, `SyncAutoLinks`, `MarkGone`), then
`post_index`: `Declare`, `Reanchor`, `SelectOrphans` and `Flag`, `Repair`,
`PickUnstamped` and `Fill`, `ClearDrift`, `Compare` and `RecordDrift`,
`SeekHealed` and `Heal`.  `Skip` is a contended lock or a busy database at any of
them, `Crash` a death; `Verify`, `SetReferences`, `MarkStale`, `Edit` are others.
A read-modify-write under the lock is one step, and a document agrees with its
row; `MemoryStore` has what happens when it does not.

| property | what it says |
|---|---|
| `CallersAreReal` | a caller the graph names, of and in live code, does ask for something of that name |
| `DriftExact` | after an undisturbed run the drift table says exactly which references are gone, unvouched for or changed |
| `OrphansSettle` | after one undisturbed run every orphan has a dead anchor; after two, every document with a dead link is an orphan |
| `RelocationIsFollowed` | after an undisturbed run no document refers to dead code that lives at exactly one other place |
| `AttestationSurvives` | what verify stamped stays until the next verify or a move of the code |
| `HandStaleStays` | what a person marked stale stays so until verify |

`CallersAreReal` needs a tree whose languages agree on titles (`TitlesAgree`).  A
method `T::go` is titled `go` in Rust and Python (`tree_sitter/rust.rs:158`,
`tree_sitter/python.rs:118`) and `T::go` in JavaScript and Go
(`tree_sitter/javascript.rs:194`, `tree_sitter/go.rs:95`).  Where both meet, the
incremental map has the qualified name of the one as the title of the other, and
a call out of the first method is written as a call out of the second.  `Simple`
is therefore a function of file and name; the instances of the runs have one
language, the theorem has the hypothesis, and the instance with two is in
section 12.

The second run that `OrphansSettle` needs is real: auto-links are rebuilt before
the rows of deleted files go stale (`reindex.rs:89`, `:98`), and repaired edges
come after flagging.  `hand` does not count a mark made while a run is about to
flag the document: the flag is then written over the mark and a later pass heals
it (`stale_flagging.rs:114`, `drift.rs:29`).

Two files and two definitions (a function and a method that call each other) let
code move, be copied, be changed and be removed; two runs overlap or follow each
other; two events are an edit and a write by others, or a fault.  Documents refer
to definitions only; terminal statuses, parsing and the hash of a file's own row
are left out, and so are baselines of an older hash format.

Read and followed by the model: removed definitions keep their outgoing edges
on an incremental run; a file at the root of the repository enters the
incremental map twice, as title and as path, so that imports of it are lost; the
`.` in a name is never used as a fallback (`code_graph/mod.rs:137`); of two
baselines read for one key the greater hash wins; the backfill may stamp a
reference that is no longer declared.  `impact_set` truncates by id, not depth,
and `callers_of` has no status filter; neither changes state.

## 12. Findings

Two runs expect a violation, each of a statement the repository makes:

1. **`graph_equivalence`: an incremental graph is not the full one.**  Against
   `src/benchmark/reindex_equiv.py:2`.  The incremental name map is keyed by
   title, which of a method is its simple name, while a raw edge names its source
   by qualified name (`index/code_graph/incremental.rs:52`): every call out of a
   method is lost when its file is saved.
2. **`move_baseline`: a move counts as a verification.**  Against
   `index/drift.rs:9`.  Re-anchoring writes the current hash of moved code over
   the baseline (`index/reanchor.rs:205`), so a reference that had drifted before
   the move is up to date after it.

The following statements are false of the code as well and have no run of their
own.  Each stands in its module and is violated when it is named in a
configuration with the instance given.

| statement | instance | what happens |
|---|---|---|
| `StaleMarkOnlyIfMissing` (`files/sync_ops.rs:193`) | `MemoryStore`, 1 knowledge entry, 1 writer, 1 full sync | a full sync lists the directory first: a file created and synced in between gets its row marked stale and loses its vector; the next full sync repairs the status |
| `FlagSkipsTerminal` (`index/stale_flagging.rs:66`) | 1 knowledge entry, 2 writers | flagging decides on a row read before the lock and may overwrite a verdict in the file; the lattice keeps the row, so file and row disagree until a reset loses the verdict |
| `FailedRejectLeavesFile` (`files/reject.rs:53`) | 1 observation, 2 writers | a rejection that fails in its sync has already modified the file |
| `NoRowWithoutFile` (`doctor/prune.rs:171`) | 1 observation, 1 writer, 1 full sync, no tombstone kept | a trimmed tombstone is recreated by a full sync that parsed it before |
| `NextReindexCatches` (`index/mod.rs:190`) | `Reindex`, 1 file, 1 worker, 2 edits | a dirty file that was indexed and then restored differs from no tree git compares: no later reindex looks at it, a full index does |
| `SkipsDoNotPin` (`docs/configuration.md:170`, `index/parse.rs:38`) | 1 file, 1 worker, no edits | a file that is skipped for good pins the baseline of `cogz index`, and every reindex is a full scan then |
| `DeniedStayOut` (`docs/configuration.md:169`) | 1 denied file, 1 worker, 1 edit | incremental runs and the save hook index denied files |
| `SaveHookEmbeds` (`hooks/handlers.rs:95`) | that of `embedding_vectors` | the save hook never embeds |
| `CallersAreReal` without `TitlesAgree` (`index/code_graph/mod.rs:116`) | that of `post_index`, `T::go` titled `T::go` in one file, a third source that has only the method | a sync of the other file writes its method's calls to the method of this one |
| `ClaimSurvives` with equal ages (`consolidate/merge.rs:199`) | that of `consolidate_passes`, `Created` constant | one pass supersedes two entries by each other |
| `UnchartedIsUnused` (`storage/mining_signals.rs:88`) | that of `session_telemetry` | a used pack is called uncharted after a pulled one |
| `WindowQuotaMet` (`search/rank.rs:322`) | that of `search_pack` with `Limit = 4` | promoted members push out better ones of their own channel (`search/rank.rs:383`) |
| `BaselineShips` (`context/assemble.rs:188`) | that of `search_pack` with `Limit = 4` | a baseline rule that is also a result ships only if its section as a result fits |
| `PackUnderBudget` (`context/compress.rs:12`, "safe - packs come in under budget") | that of `search_pack` | a section cut to its title keeps the title (`context/compress.rs:154`), and a section demoted after regrowth grows by its marker (`context/assemble.rs:222`) |
| `NoWriteToDeadFile` (`mcp/repo_cache.rs:18`) | that of `server_tools` | a call writes to a deleted database |

`RowsFollowLattice` holds in all of these: the refusal in the sync layer is what
keeps the index sound while the canonical file is not.

## 13. What is proved

The theorems hold for any value of the constants that satisfies the assumptions
named; they say nothing about a bound.  Each invariant was checked by TLC on
small instances before it was proved.

### `MemoryStore`

For any sets of entities, writers and syncs, from `EntityAssumption`,
`FileAssumption`, `ProcessAssumption`, `BoundAssumption` (the kinds of values are
distinct, bounds are natural numbers):

| theorem | statement | argument |
|---|---|---|
| `TypeCorrect` | `Spec => []TypeOK` | inductive as it stands, because `TypeOK` carries `TaskInOrder`: what a task commits or restores was parsed.  Begin, task-only, writing and environment steps each have a lemma, with `TaskUpdate` for the one task that changes |
| `OnlyStaleMarks` | `Spec => []OnlyStaleIsDbOnly` | `RowStep`: besides a reset, a row changes in one of five ways (`RowMoves`); each keeps `RowTells` |
| `IndexRefinesLattice` | `Spec => RowsFollowLattice` | the same five ways are moves of `DerivedStatus` (`RowMovesEvolve`) under the mapping `StatusOf` |
| `CleanSyncSettles` | `Spec => CleanScanSettles` | an action property; needs that a row with a hash was not synced from a tombstone (`NotTombstone`), else the skip rule could keep a wrong row |
| `NoLostUpdate` | `Spec => []LockedReadIsCurrent` | not inductive: strengthened by `LockHeld` (whoever is between read and sync holds the lock) and `Steady` (a written file stays what was written until the sync is over, which rollback and prune rely on).  `OthersSteady` is mutual exclusion at work, `OwnSteady` the writer's own step, `WorldSteady` says only people interfere |
| `VerdictIsRecorded` | `Spec => []VerdictAcknowledged` | strengthened by `Answered`: the deciding task holds its verdict in `out`, has parsed just that before it commits, and once it reports success the file is `out` and the row carries the verdict or is its tombstone.  `CarriesKept`: no sync, locked or not, takes a verdict out of a row, because the lattice refuses it; that the file stays is `Steady` again |

### `Reindex`

For any files, names, bodies, workers, denied files and bounds, from
`ContentAssumption` and `BoundAssumption`:

| theorem | statement |
|---|---|
| `TypeCorrect` | `Spec => []TypeOK` |
| `BaselineSound` | `Spec => []NothingSlips` |
| `StaleOnlyIfRemoved` | `Spec => NoFalseStale` |
| `UndisturbedRunMirrors` | `Spec => AloneRunMirrors` |

The last three rest on one inductive invariant, `IInv`.  `NothingSlips` alone is
not inductive: that recording a baseline is sound depends on what the run has
done, and that another run cannot undo it depends on what *that* run knows.
`RunKnows(r, f)` says what run `r` knows of a file that nothing happened to:
what it parsed is what is there, what it is about to mark is really gone, every
file it has to answer for is to be read, failed, parsed or to be marked, and,
phase by phase, which rows are already right; between the read of the rows and
the transaction, that a row it will skip because of what it read is right
(`SkipsKnown`).  `BaseMirrored` says the same of
the files it did not need to look at.  `IInv` claims `RunKnows` for a file that
is neither `raced` nor `missed`, and for every file while the run is `alone`.

The proof has one lemma per kind of step.  A start, and a step that only reads,
concern one run (`StartIInv`, `StepIInv`).  A write does to each row nothing,
something right, or a retirement with cause (`GoodRow`); this is enough for
everybody else (`OthersKnow`, `MirroredServed`, `WriteIInv`), and each of the
three statements has a lemma for its own run (`UpsertKnows`, `MarkGoneKnows`,
`MarkRemovedKnows`).  A refused write is the same lemma for the files it did not
concern.  At the end, `HandledMirrored` shows that the files a run answered for
are mirrored, `RecordNothingSlips` that those are all the baseline adds, and
`MoveIInv` that people only touch files that become `raced` or `missed`.

### The others

| theorem | assumptions | inductive invariant and why |
|---|---|---|
| `ModelRuntime`: `TypeCorrect`, `Spec => [](TypeOK /\ Working /\ Installing)` | `ThreadAssumption`, `ChunksAssumption`, `RegistryAssumption` | a call counts its chunks down, so it must have one left (`Working`); the steps of `ORT_INIT` need that one call takes them and copies only what it verified (`Installing`) |
| `LinkMeansLoadable`, `Spec => []LinkedIsLoadable` | the same | a downloader that is about to link has fetched every file of its model (`Fetched`), and nobody removes a fetched file |
| `TearingTakesTwo`, `Spec => []TornNeedsOverlap` | the same | while no two calls were ever in progress at once (`Alone`), a session without a tokenizer is one the call in progress has just published, its tokenizer being next |
| `EmbeddingSync`: `TypeCorrect`, `Spec => []TypeOK` | `EntityAssumption`, `FreeAssumption`, `NoRowAssumption`, `VersionAssumption` | a job is a record whose batch is a function on entities |
| `WorkerIsAlone`, `Spec => []ReindexIsAlone` | the same | `LockHeld`: a reindex-bg from its lock to its last store, and a reset, hold the lock |
| `StaleVectorsAreDue`, `Spec => []StaleVectorHasCause` | the same | `Cause`: while nothing was disturbed at most one job is active, what it knows is `Current` (its batch is what the rows hold, on the database in use), and every stale vector is `Covered` by its ids or by a save; when none is active nothing but saves explains one |
| `RepoServer`: `StaleStatesExplained`, `Spec => []StaleStateHasCause` | `CallAssumption` | `Disk` (versions only grow and a database in use is the newest), `Shape` (what a call carries), `Sound` (a call was given a state that is as new as its begin, or whose stamp is newer than what it opened) |
| `OneWriterPerRepo`, `Spec => []OneWriter` | the same | `Locks`: past the mutex a call holds that of its `Storage`, when it writes its `Storage` holds the flock; two writers would have one `Storage`, hence one mutex, hence be one call |
| `CacheStaysBounded`, `Spec => []CacheBounded` | the same, `LimitAssumption` | `CacheInv`: a ready repository is listed unless a call is between publishing and listing it, or its path came back in the middle of a removal (`split`); the list has no path twice (`WithoutIs`, `TouchedIs`), and a call that leaves the loop of evictions saw it short enough (`ListBounds`) |
| `VectorsStayMapped`, `Spec => []VectorsMapped` | `VersionAssumption` | see below |
| `PostIndex`: `HandMarksStay`, `Spec => []HandStaleStays` | `GraphAssumption`, `PassAssumption` | `Handed`: a marked document is stale without being an orphan, and no run that selected it is about to flag it; needs that runs and documents are well formed (`Sources`, `Runs`, `Docs`) |
| `AttestationsStay`, `Spec => []AttestationSurvives` | the same | `Vouches`: what is attested is a baseline of the document, so that the fill of a pass, which writes where there is none, cannot replace it; a move takes away what was attested of the place it leaves |
| `DriftStaysExact`, `Spec => []DriftExact` | the same | `Lone` and `Informed`, see below |
| `RelocationsAreFollowed`, `Spec => []RelocationIsFollowed` | the same | the same |
| `OrphansDoSettle`, `Spec => []OrphansSettle` | the same | the same with `Paired` and `Settling` |
| `CallersStayReal`, `TitlesAgree` and `Spec` imply `[]CallersAreReal` | the same, and a tree in which `TitlesAgree` | `Real` (the property for every edge, whatever it leads to) and `Synced`, see below |
| `Consolidation`: `TypeCorrect`, `Spec => []TypeOK` | `ScenarioAssumption`, `IdAssumption`, `NobodyAssumption`, `ObservationAssumption`, `BoundAssumption` | with `Files`, `Locals`, `Rows`: what a writer or pass works with has a file, and past its fetch a row; `HolderAtWork`: who holds the write lock is inside its read-modify-write |
| `ClaimsNeverLost`, `DistinctTimes` and `Spec` imply `[]ClaimSurvives` | the same, and no two similar observations with one creation time | `Claims`: an entry, in file or row, is superseded by a rule or by an earlier observation, which has a row, and whatever a pass has chosen is so ordered (`Later`).  A circle would have an earliest member, superseded by none of the others |
| `SecondRuleExplained`, `Spec => []SecondRuleNeedsCause` | the same as for `TypeCorrect` | `RuleInv`: while no two passes overlapped at most one is at work, and what it is about to promote has no rule but those whose sync failed (`Fresh`), because its candidates were read from an index that has every rule whose sync did not fail (`RulesIndexed`) |
| `OneIsAlwaysWarned`, `Spec => []OneOfTwoIsWarned` | the same as for `TypeCorrect` | `WarnInv`: who compares has its row and vector in the index (`Seen`), so the later of two to compare finds the other (`Told`); nothing here revives an entry (`NoneStale`) |
| `HookSession`: `NobodyCreditsItself`, `Spec => []NoSelfCredit` | `SessionAssumption` | `CallInv` and `Credits` |
| `ClosingSettles`, `Spec => []ClosedIsSettled` | the same | `CallInv` and `Writing`: pending rows come late only from a call still writing its delivery |
| `WindowsDoNotOverlap`, `Spec => []OnePackOpen` | the same | `CallInv` and `Boundaries`: a call about to record a pack has closed every other, but those of calls it met |
| `SuggestedOnce`, `Spec => []NudgedOnce` | the same | `CallInv`, `Ledger` (what was suggested on a day is in its ledger, unless something was lost), `Showing` (what a call is about to show was not in the ledger when it looked) |
| `Search`: `SearchHolds`, `PackSpec => []SearchOK` | `RankingAssumption`, `SearchAssumption`, `QueriesAssumption`, `PackAssumption` | `SearchOK`, see below |
| `SeenThroughout`, `PackSpec => []EarnedChannelSeen` | the same | `SearchOK`, whose part on the ranked list is `PostMergeKeepsSlots` |
| `LiveThroughout`, `PackSpec => []ReturnedWasLive` | the same | `SearchOK`: every list is live when the query asks for that (`Live`), although `alive` grows under the search |
| `LeadsThroughout`, `PackSpec => []LeadsSurface` | the same | `SearchOK`: while history is next, all that was seen and not emitted are classes |
| `AccessThroughout`, `PackSpec => []AccessMeansReturned` | the same | `SearchOK`: what is emitted is never among the hits (`Found`), and once each |
| `ContextPack`: `FitsThroughout`, `PackSpec => []PackFits` | the same | `PackOK`: `SearchOK`, the first tier is a list of sections, a pack that is made is within those bounds (`AnyPackFits`) |

`VectorsStayMapped` is a proof about data as much as about interleavings.
`Level(n, d)` says what a database holds once migration `n` has run: vectors in
the single table before version 3, in the space of their entity from then on,
one for each, mapped from version 9.  Each migration takes a database one level
up (`Level1` to `Level10`), the sequence takes it from any level to any later one
(`ClimbedTo`), and an insertion, which deletes what the *map* names, keeps the
last level only because map and vectors agree (`InsertSane`).  The invariant is
`Filed` (every file is on the level of its version, deleted files included) and
`Opened` (what a call or the cache holds is a migrated file, and stays one:
`Lasting`), without which a call might write to a file of an older version.

`Lone` says that a run that is `alone` is the only one.  `Informed` says, step by
step, what such a run has in hand: the references as they are declared now, the
moves of the stale ones, the table emptied, its rows computed; any overlap or
author clears `alone`, and with it the claim.  `Settling` adds the links: once a run
has repaired them, the only links a document lacks are to live code
(`LackingLive`), so that the next run sees everything that is orphaned when it
flags; this is why `OrphansSettle` speaks of two runs.

`Synced` says what a run that is left alone knows between the rows and the edges:
none of the files it parsed is fresh, all it parsed has a row, nothing else in
those files is live.  So the edges it keeps start at rows that are dead or at
files it did not touch, and those it makes start where the call was read:
`FullCall` by the uniqueness of a qualified name, `DeltaCall` by that of a title,
which is where `TitlesAgree` comes in (section 11).

`CallInv` says where each call of a session stands: its remaining steps are the
end of the plan of its kind (`OnTrack`, `Place`), a plan has its steps in the
order the code takes them and the last ones once (`Sound`), concurrent calls have
met (`Meets`), the identifiers of both tables follow the clock (`Tables`), and a
delivery a call writes to is its own (`Owned`).

`SearchOK` says what a search knows between its statements.  The lists hold
entities of their channels, live if the query filters by status (`ListsOK`); the
hits repeat nothing and a channel that earned a slot shows in their window
(`RankedOK`); what was found beyond them is new, found once and live (`FoundOK`);
a lead is emitted or was dropped by the sibling channel (`LeadsOK`); what has
not happened yet left its variables empty, and the access counts are those of the
hits (`StagesOK`).  Three of the four properties speak of the end of a search, and
none is inductive without what the stages before it established.  There is one lemma per statement
(`FtsStepIs` to `AppendStepIs`); a change of status under the search only adds to
`alive`, which every part survives (`SyncIs`).

Below it lies what each operator does to a list of *any* length.  Ranking: demotion,
boost and diversification reorder (`DemotedIs`, `BoostedIs`, `DiversifiedIs`), a
slot moves one item up and shifts only those it passes (`MoveIs`, `SlotForIs`), the
second slot does not undo the first when the window has two places (`TwoSlots`),
a quota never fills the window with one channel while the other has a weight
(`QuotaIs`), and what it inserts leaves the window's channels in it
(`FillQuotaIs`); together `PostMergeKeepsSlots`.  The walk over links is a set of
trails after every hop (`WalkStepIs`, `ReachIs`).  Packs: every pass is a fold,
and `FoldIs` says that a measure which a step raises by no more than the cost of
one member ends no higher than the total cost, so that `PartitionDupsIs`,
`FitBudgetIs`, `RedupIs` and `PassIs` each need only their step.  `FitBudgetIs` is
where the budget comes in, `PassIs` shows that regrowth only takes what is left,
`ExcerptIs` that an excerpt exceeds its text by at most `Growth`, `RedupIs`
that demotion therefore adds at most `Growth` for each section it counts,
`PointersIs` that the index takes only what is left, and `AnyPackFits` puts the
passes together for any sections, lines and widths.  `PriorityIsAnOrder` shows that the comparison of sections is a
strict weak order, without which a sort would not be defined.

These are inductions over data.  The library's induction rules take an operator
as a parameter, which the provers cannot instantiate; here induction is
stated of sets instead (`NatInduct`: a set with 0 and every successor has every
number, from `WFMin`; `BoundInduct` the same up to a bound; `Recursion`: a function
that a step defines exists), and each use names the set of numbers it is about.

### Only model-checked

* Liveness: `EventuallySettled`, `CallsEnd`, `MissingVectorHeals`,
  `DuplicatesMerge`.  The prover has no rule for fairness over `ENABLED`.
* The two refuted statements, `IncrementalMatchesFull` and `MoveKeepsBaseline`.

Every other property of a passing run has a theorem.

## 14. Not modelled, and what is left

Not modelled, because there is no protocol in it: the parsers (`index/tree_sitter/`,
`files/frontmatter.rs`: text in, syntax out), configuration and harness writers
(`config/`, `configure/`, `init.rs`: files written once at start-up), the secret
scan (a pattern matcher; a file it refuses is `Garbled` in `MemoryStore`),
self-update and network, argument parsing and reports of the command line and
the doctor's read-only checks.

Not modelled, although it has state: the co-change index (`index/cochange.rs`).
It is rebuilt in a staging table that one transaction swaps in, and early returns
leave the old table; `Search` has its answers as the history of a query.

Hazards read in the code that no property covers:

| where | what |
|---|---|
| `storage/mod.rs:233` | the in-process mutex is taken without a bound, although the wait is documented as bounded; only the flock times out |
| `mcp/update_knowledge.rs:169` | a title change writes the new path and removes the old one after the sync: a crash in between leaves two files with one id |
| `mcp/update_knowledge.rs:183` | two updates of one entry compute embeddings after the lock and may store them in the other order |
| `files/sync.rs:328` | of two files with one id the first that a full sync parses wins, while a single-file sync takes either |
| `doctor/prune.rs:211` | rows of trimmed tombstones go before their files: a sync in between brings the row back (`Trim` and `Unlink` in the model; `NoRowWithoutFile` in section 12) |
| `index/git_diff.rs:53`, `:70` | the two diffs and the list of untracked files are taken one after the other, while the work tree may change |
| `index/git_diff.rs:85` | a file committed since the baseline and deleted from disk is reported as added, is not found, and pins the baseline |
| `hooks/reindex.rs:41` | the debounce looks at the age of a file and touches it in two steps: two hooks may both spawn a worker, which the worker lock then sorts out |
| `embed/runtime.rs:281` | the model library is copied straight to its final path, and only its existence is checked later: a kill in the copy leaves it broken for good |

Next: a model of the title change of a knowledge entry (two paths, one id); the
co-change index.
