--------------------------- MODULE EmbeddingSync ---------------------------
(***************************************************************************)
(* The background workers and the vectors they keep beside the rows        *)
(* (src/bg_lock.rs, commands/reindex_bg.rs, commands/embed_bg.rs,          *)
(* cli_embed.rs, files/embed_sync.rs, storage/embeddings.rs).              *)
(*                                                                         *)
(* An entity's content is a version number; a vector is known by the       *)
(* version it was computed from.  Every embedding pass reads contents in   *)
(* one transaction, infers without any lock, and stores in another.        *)
(* Vectors are repaired by absence only: an entity is embedded again when  *)
(* a pass has just synced it or when it has no vector at all.              *)
(***************************************************************************)
EXTENDS Naturals, FiniteSets

CONSTANTS
  Process,      \* processes, each running one job at a time
  Knowledge,    \* entities of the knowledge space (files under .cogz)
  Code,         \* entities of the code space; one stands for many
  Free,         \* nobody holds .bg.lock
  NoRow, NoVec, \* not in the database; no vector
  MaxVersion,   \* edits of one entity
  MaxJobs,      \* command line runs, tool calls and resets
  MaxFaults     \* failed inferences, failed mining, killed processes

Entity == Knowledge \cup Code
Version == 0 .. MaxVersion

ASSUME EntityAssumption == Knowledge \cap Code = {}
ASSUME FreeAssumption == Free \notin Process
ASSUME NoRowAssumption == NoRow \notin Nat /\ NoVec \notin Nat
ASSUME VersionAssumption == MaxVersion \in Nat

VARIABLES
  disk,       \* the version in the working tree
  row,        \* the version the database holds
  vec,        \* the version the stored vector was computed from
  lock,       \* the holder of .bg.lock
  db,         \* generation of the database file; a reset starts the next
  ready,      \* the model files are present
  run,        \* per process: its job
  saved,      \* entities a save hook synced and nobody embedded since
  disturbed,  \* a job failed, was refused, or met another job
  jobs, faults

vars == <<disk, row, vec, lock, db, ready, run, saved, disturbed,
          jobs, faults>>

Steps == {"idle", "lock", "open", "files", "code", "cochange", "target",
          "fetch", "embed", "store", "code_embed", "code_store", "drop"}

\* What a job carries: its kind and step, the ids it is to embed, the batch it
\* read, the space it is in, and the database it opened.
Job == [job : {"none", "reindex", "index", "tool", "embed", "reset"}, at : Steps,
        ids : SUBSET Entity, batch : UNION {[es -> Version] : es \in SUBSET Entity},
        space : SUBSET Entity, db : Nat]

NoBatch == [e \in {} |-> 0]
Idle == [job |-> "none", at |-> "idle", ids |-> {}, batch |-> NoBatch,
         space |-> {}, db |-> 0]

IsActive(p) == run[p].job # "none"

Set(p, r) == run' = [run EXCEPT ![p] = r]
Goto(p, step) == Set(p, [run[p] EXCEPT !.at = step])
Fault == faults < MaxFaults /\ faults' = faults + 1 /\ disturbed' = TRUE

\* A job ends; a lock it holds goes with the process.
Exit(p) ==
  /\ Set(p, Idle)
  /\ lock' = IF lock = p THEN Free ELSE lock

-----------------------------------------------------------------------------
(* The database as one handle sees it.                                     *)

\* A handle on a file that a reset deleted still works, on the deleted file.
Fresh(p) == run[p].db = db

\* The mutation: the heal set follows the syncs.
SyncedAndMissing(space) == {e \in space : row[e] # NoRow /\ row[e] # disk[e]}

\* Rows of the space that have no vector: the heal set.
IdsMissingEmbeddings(space) ==
  {e \in space : row[e] # NoRow /\ vec[e] = NoVec}

\* The mutation: the freshly synced ids are forgotten.
MissingOnly(synced, space) == IdsMissingEmbeddings(space)

\* Freshly synced entities and those that have no vector.
EmbedTargets(synced, space) == synced \cup IdsMissingEmbeddings(space)

\* Mirrors of disk in the database; the ids are what the sync reports.
Outdated(space) == {e \in space : row[e] # disk[e]}
SyncSpace(p, space) ==
  /\ row' = IF Fresh(p)
            THEN [e \in Entity |-> IF e \in space THEN disk[e] ELSE row[e]]
            ELSE row
  /\ saved' = IF Fresh(p) THEN saved \ Outdated(space) ELSE saved

\* delete_embedding and insert_embedding of a batch, in one transaction.
StoreEmbeddings(p, space) ==
  LET b == run[p].batch
      stored == DOMAIN b \cap space
  IN IF Fresh(p)
     THEN /\ vec' = [e \in Entity |-> IF e \in stored THEN b[e] ELSE vec[e]]
          /\ saved' = saved \ {e \in stored : b[e] = row[e]}
     ELSE UNCHANGED <<vec, saved>>

-----------------------------------------------------------------------------
(* What starts a job.                                                      *)

Start(p, r) ==
  /\ run[p] = Idle
  /\ Set(p, r)
  /\ disturbed' = (disturbed \/ \E q \in Process : IsActive(q))

Edit(e) ==
  /\ disk[e] < MaxVersion
  /\ disk' = [disk EXCEPT ![e] = @ + 1]
  /\ UNCHANGED <<row, vec, lock, db, ready, run, saved, disturbed,
                 jobs, faults>>

\* spawn_reindex_bg: session_start forces it; the debounce of prompt_submit can
\* only leave a spawn out.
SpawnReindexBg(p) ==
  /\ Start(p, [Idle EXCEPT !.job = "reindex", !.at = "lock"])
  /\ UNCHANGED <<disk, row, vec, lock, db, ready, saved, jobs, faults>>

\* cogz index and cogz reindex: the same passes, without the worker lock.
RunIndex(p) ==
  /\ jobs < MaxJobs
  /\ jobs' = jobs + 1
  /\ Start(p, [Idle EXCEPT !.job = "index", !.at = "files", !.db = db,
                 !.space = Knowledge])
  /\ UNCHANGED <<disk, row, vec, lock, db, ready, saved, faults>>

\* write_and_sync and update_knowledge: file and row change together under the
\* file lock; the embedding of what was written follows without it.
ToolWrite(p, e) ==
  /\ jobs < MaxJobs /\ disk[e] < MaxVersion
  /\ jobs' = jobs + 1
  /\ disk' = [disk EXCEPT ![e] = @ + 1]
  /\ row' = [row EXCEPT ![e] = disk[e] + 1]
  /\ saved' = saved \ {e}
  /\ Start(p, [Idle EXCEPT !.job = "tool", !.at = "embed", !.ids = {e},
                 !.batch = [x \in {e} |-> disk[e] + 1], !.space = {e},
                 !.db = db])
  /\ UNCHANGED <<vec, lock, db, ready, faults>>

\* The save hook syncs one file, and counts as done.
Resync(e) ==
  /\ row[e] # disk[e]
  /\ row' = [row EXCEPT ![e] = disk[e]]
  /\ saved' = saved \cup {e}
  /\ UNCHANGED <<disk, vec, lock, db, ready, run, disturbed, jobs,
                 faults>>

\* A file under .cogz is synced and then embedded if the model is available:
\* it never is, since it was just constructed.
SaveCanonical(e) == e \in Knowledge /\ Resync(e)

\* A source file is reindexed, and not embedded.
SaveSource(e) == e \in Code /\ Resync(e)

SaveHook(e) == SaveCanonical(e) \/ SaveSource(e)

\* cogz reset refuses to run under a held worker lock.
StartReset(p) ==
  /\ jobs < MaxJobs
  /\ jobs' = jobs + 1
  /\ lock = Free
  /\ lock' = p
  /\ Start(p, [Idle EXCEPT !.job = "reset", !.at = "drop"])
  /\ UNCHANGED <<disk, row, vec, db, ready, saved, faults>>

\* The database files are unlinked; the next process to open makes a new one.
DropDatabase(p) ==
  /\ run[p].at = "drop"
  /\ row' = [e \in Entity |-> NoRow]
  /\ vec' = [e \in Entity |-> NoVec]
  /\ db' = db + 1
  /\ saved' = {}
  /\ Exit(p)
  /\ UNCHANGED <<disk, ready, disturbed, jobs, faults>>

-----------------------------------------------------------------------------
(* The steps of a reindex, an index and an embed-bg.                       *)

\* The job opens the database and does its first work there.
Opened(p) ==
  [run[p] EXCEPT !.db = db,
                 !.at = IF run[p].job = "embed" THEN "fetch" ELSE "files",
                 !.space = IF run[p].job = "embed" THEN Code ELSE Entity]

\* The mutation: the guard is bound to nothing and dropped at once.
TakeLockAndDrop(p) ==
  /\ run[p].at = "lock"
  /\ Set(p, IF lock = Free THEN Opened(p) ELSE Idle)
  /\ disturbed' = (disturbed \/ lock # Free)
  /\ UNCHANGED <<disk, row, vec, lock, db, ready, saved, jobs, faults>>

\* try_acquire: a worker that finds the lock held exits, and an embed-bg drops
\* the ids it was spawned for.
TakeLock(p) ==
  /\ run[p].at = "lock"
  /\ IF lock = Free
     THEN lock' = p /\ Set(p, Opened(p)) /\ UNCHANGED disturbed
     ELSE Exit(p) /\ disturbed' = TRUE
  /\ UNCHANGED <<disk, row, vec, db, ready, saved, jobs, faults>>

\* With --lock-held an embed-bg takes no lock.
OpenDetached(p) ==
  /\ run[p].at = "open"
  /\ Set(p, Opened(p))
  /\ UNCHANGED <<disk, row, vec, lock, db, ready, saved, disturbed, jobs,
                 faults>>

\* sync_incremental: the canonical files.
SyncFiles(p) ==
  /\ run[p].at = "files"
  /\ SyncSpace(p, Knowledge)
  /\ Set(p, [run[p] EXCEPT !.ids = Outdated(Knowledge),
               !.at = IF run[p].job = "index" THEN "target" ELSE "code"])
  /\ UNCHANGED <<disk, vec, lock, db, ready, disturbed, jobs, faults>>

\* reindex_code: the source files.
ReindexCode(p) ==
  /\ run[p].at = "code"
  /\ SyncSpace(p, Code)
  /\ Set(p, [run[p] EXCEPT !.ids = @ \cup Outdated(Code),
               !.at = IF run[p].job = "index" THEN "target" ELSE "cochange"])
  /\ UNCHANGED <<disk, vec, lock, db, ready, disturbed, jobs, faults>>

\* A failed co-change pass ends reindex-bg before it embeds what it synced.
Cochange(p) ==
  /\ run[p].at = "cochange"
  /\ \/ Goto(p, "target") /\ UNCHANGED <<lock, disturbed, faults>>
     \/ Fault /\ Exit(p)
  /\ UNCHANGED <<disk, row, vec, db, ready, saved, jobs>>

Target(p) ==
  /\ run[p].at = "target"
  /\ Set(p, [run[p] EXCEPT !.at = "fetch",
               !.ids = IF Fresh(p) THEN EmbedTargets(@, run[p].space) ELSE @])
  /\ UNCHANGED <<disk, row, vec, lock, db, ready, saved, disturbed,
                 jobs, faults>>

\* embed_synced reads the contents in one go and partitions them by space.
Fetch(p) ==
  /\ run[p].at = "fetch"
  /\ LET found == {e \in run[p].ids : row[e] # NoRow}
     IN Set(p, [run[p] EXCEPT
                  !.batch = IF Fresh(p) THEN [e \in found |-> row[e]]
                            ELSE [e \in run[p].ids |-> 0],
                  !.at = IF run[p].job = "embed" THEN "code_embed" ELSE "embed"])
  /\ UNCHANGED <<disk, row, vec, lock, db, ready, saved, disturbed,
                 jobs, faults>>

\* Knowledge is embedded inline; without the model, or when the one batched
\* inference fails, its vectors are skipped.
EmbedKnowledge(p) ==
  /\ run[p].at = "embed"
  /\ \/ ready /\ Goto(p, "store") /\ UNCHANGED <<disturbed, faults>>
     \/ /\ ~ready /\ Goto(p, "code_embed")
        /\ disturbed' = TRUE /\ UNCHANGED faults
     \/ ready /\ Fault /\ Goto(p, "code_embed")
  /\ UNCHANGED <<disk, row, vec, lock, db, ready, saved, jobs>>

StoreKnowledge(p) ==
  /\ run[p].at = "store"
  /\ StoreEmbeddings(p, Knowledge)
  /\ Goto(p, "code_embed")
  /\ UNCHANGED <<disk, row, lock, db, ready, disturbed, jobs, faults>>

\* The end of embed_synced: index goes on with the source files.
EndPass(p) ==
  IF run[p].job = "index" /\ run[p].space = Knowledge
  THEN /\ Set(p, [run[p] EXCEPT !.at = "code", !.space = Code, !.ids = {},
                    !.batch = NoBatch])
       /\ UNCHANGED lock
  ELSE Exit(p)

\* Few code entities, or an embed-bg that is to embed them.
EmbedCodeInline(p) ==
  /\ run[p].at = "code_embed"
  /\ LET due == DOMAIN run[p].batch \cap Code # {}
     IN \/ ready /\ due /\ Goto(p, "code_store")
           /\ UNCHANGED <<lock, disturbed, faults>>
        \/ ~due /\ EndPass(p) /\ UNCHANGED <<disturbed, faults>>
        \/ ~ready /\ due /\ EndPass(p) /\ disturbed' = TRUE /\ UNCHANGED faults
        \/ ready /\ due /\ Fault /\ EndPass(p)
  /\ UNCHANGED <<disk, row, vec, db, ready, saved, jobs>>

StoreCode(p) ==
  /\ run[p].at = "code_store"
  /\ StoreEmbeddings(p, Code)
  /\ EndPass(p)
  /\ UNCHANGED <<disk, row, db, ready, disturbed, jobs, faults>>

\* Many: a detached embed-bg gets the ids, with --lock-held if the parent is
\* the worker; the parent ends, and its lock with it.
SpawnEmbedBg(p, q) ==
  /\ run[p].at = "code_embed" /\ run[p].job # "embed"
  /\ DOMAIN run[p].batch \cap Code # {} /\ ready
  /\ run[q] = Idle
  /\ LET lockHeld == run[p].job = "reindex"
     IN run' = [run EXCEPT
                  ![p] = Idle,
                  ![q] = [Idle EXCEPT !.job = "embed",
                            !.at = IF lockHeld THEN "open" ELSE "lock",
                            !.ids = DOMAIN run[p].batch \cap Code]]
  /\ lock' = IF lock = p THEN Free ELSE lock
  /\ UNCHANGED <<disk, row, vec, db, ready, saved, disturbed, jobs,
                 faults>>

Kill(p) ==
  /\ IsActive(p)
  /\ Fault
  /\ Exit(p)
  /\ UNCHANGED <<disk, row, vec, db, ready, saved, jobs>>

ModelArrives ==
  /\ ~ready
  /\ ready' = TRUE
  /\ UNCHANGED <<disk, row, vec, lock, db, run, saved, disturbed, jobs,
                 faults>>

-----------------------------------------------------------------------------
Init ==
  /\ disk = [e \in Entity |-> 0]
  /\ row = [e \in Entity |-> NoRow]
  /\ vec = [e \in Entity |-> NoVec]
  /\ lock = Free
  /\ db = 0
  /\ ready \in BOOLEAN
  /\ run = [p \in Process |-> Idle]
  /\ saved = {}
  /\ disturbed = FALSE
  /\ jobs = 0 /\ faults = 0

\* Every step of a job that has started.
JobStep(p) ==
  \/ TakeLock(p) \/ OpenDetached(p) \/ SyncFiles(p) \/ ReindexCode(p) \/ Cochange(p)
  \/ Target(p) \/ Fetch(p) \/ EmbedKnowledge(p) \/ StoreKnowledge(p)
  \/ EmbedCodeInline(p) \/ StoreCode(p) \/ DropDatabase(p)

Next ==
  \/ \E e \in Entity : Edit(e) \/ SaveHook(e)
  \/ \E p \in Process :
       \/ JobStep(p) \/ Kill(p) \/ SpawnReindexBg(p) \/ RunIndex(p) \/ StartReset(p)
       \/ \E e \in Knowledge : ToolWrite(p, e)
       \/ \E q \in Process \ {p} : SpawnEmbedBg(p, q)
  \/ ModelArrives

Spec == Init /\ [][Next]_vars

\* Processes that run are scheduled, people keep starting sessions, and the
\* models are downloaded in the end.
FairSpec ==
  /\ Spec
  /\ \A p \in Process : WF_vars(JobStep(p))
  /\ WF_vars(\E p \in Process : SpawnReindexBg(p))
  /\ WF_vars(ModelArrives)

-----------------------------------------------------------------------------
TypeOK ==
  /\ disk \in [Entity -> Version]
  /\ row \in [Entity -> Version \cup {NoRow}]
  /\ vec \in [Entity -> Version \cup {NoVec}]
  /\ lock \in Process \cup {Free}
  /\ ready \in BOOLEAN /\ disturbed \in BOOLEAN
  /\ db \in Nat
  /\ run \in [Process -> Job]
  /\ saved \subseteq Entity

Holding == {"files", "code", "cochange", "target", "fetch", "embed",
            "store", "code_embed", "code_store"}

\* .bg.lock keeps a reindex-bg alone with the database from its first look to
\* its last store: no second one works beside it, and no reset deletes the
\* database under it.
ReindexIsAlone ==
  \A p, q \in Process :
    /\ run[p].job = "reindex" /\ run[p].at \in Holding
    /\ \/ run[q].job = "reindex" /\ run[q].at \in Holding
       \/ run[q].job = "reset"
    => p = q

Stale(e) == row[e] # NoRow /\ vec[e] \notin {NoVec, row[e]}

\* A vector of an older content is there for one of three reasons: a save hook
\* synced the entity without embedding it, a pass that is to embed it is still
\* on its way, or some job failed, was refused or ran beside another.  A pass
\* that runs alone to its end replaces the vector of everything it synced.
StaleVectorHasCause ==
  \A e \in Entity : Stale(e) =>
    e \in saved \/ disturbed \/ \E p \in Process : e \in run[p].ids

\* An entity without a vector gets one: each pass looks for those, whatever
\* dropped, refused or killed the pass that should have embedded them.
MissingVectorHeals ==
  \A e \in Entity :
    row[e] # NoRow /\ vec[e] = NoVec ~> vec[e] # NoVec \/ row[e] = NoRow

\* What handle_cogz_file_save says of itself: it syncs a file under .cogz and
\* embeds it.  Stated for a save that meets no other job and finds the model.
SaveHookEmbeds ==
  [][\A e \in Knowledge :
       SaveHook(e) /\ ready /\ (\A p \in Process : ~IsActive(p))
       => vec'[e] = row'[e]]_vars
=============================================================================
