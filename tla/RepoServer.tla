----------------------------- MODULE RepoServer -----------------------------
(***************************************************************************)
(* The repository cache of the MCP server (src/mcp/repo_cache.rs,          *)
(* server.rs), the databases it opens (src/storage/mod.rs, Schema.tla) and *)
(* the lock every canonical write takes (Storage::file_lock).              *)
(*                                                                         *)
(* A call is one tool call on a blocking thread: it resolves its           *)
(* repository, through the cache or by opening it, and then writes.  Each  *)
(* of the server's mutexes (repos, lru_order, the models, a Storage's file *)
(* mutex) is held for one action, so a call is a sequence of actions.      *)
(* Other processes edit the configuration, delete the database             *)
(* ("cogz reset") and create it again ("cogz index").                      *)
(***************************************************************************)
EXTENDS Schema, FiniteSets

CONSTANTS
  Repo, Call,
  MaxCached,    \* MAX_CACHED_REPOS
  MaxChanges,   \* edits, resets, failed opens and failed locks
  Version,      \* the schema version of the first database files
  Nobody        \* the free value of a lock; no Storage

ASSUME CallAssumption == Nobody \notin Call
ASSUME LimitAssumption == MaxCached \in Nat
ASSUME VersionAssumption == Version \in 0 .. SchemaVersion + 1

VARIABLES
  conf,      \* repo -> version of config.toml (its mtime)
  file,      \* repo -> number of the database file at db_path, 0 when absent
  db,        \* repo -> contents of its database files, deleted ones included
  repos,     \* RepoCache.repos: repo -> entry
  order,     \* RepoCache.lru_order, least recently used first
  mutex,     \* Storage -> the call that holds its file mutex
  flock,     \* repo -> the Storage whose lock file holds the OS lock
  call,      \* call -> its locals
  split,     \* whether a removed path came back between the cache's mutexes
  changes

cache == <<repos, order, split>>
disk  == <<conf, file, db>>
locks == <<mutex, flock>>
vars  == <<disk, cache, locks, call, changes>>

Config == 1 .. MaxChanges + 1

Missing    == [kind |-> "missing"]
Opening(c) == [kind |-> "opening", by |-> c]
Ready(s)   == [kind |-> "ready", state |-> s]

\* RepoState.  A Storage is named by the call that opened it; `ino` is the
\* file its connection has open, `mtime` and `ident` what a hit compares.
RepoState == [storage : Call, repo : Repo, conf : Config, ino : 1 .. MaxChanges + 2,
              mtime : Config, ident : 0 .. MaxChanges + 2]

\* A call's state is built up field by field while it opens a repository.
NoState == [storage |-> Nobody]

-----------------------------------------------------------------------------
At(c, step) == call[c].pc = step

\* A call goes on at a step, with what the step needs to know.
Go(c, step, arg) == call' = [call EXCEPT ![c] = [@ EXCEPT !.pc = step, !.arg = arg]]

Goto(c, step) == Go(c, step, <<>>)

\* A call goes on with a repository state.
With(c, step, s) == call' = [call EXCEPT ![c] = [@ EXCEPT !.pc = step, !.state = s]]

\* A call returns, and its locals are gone.
Over == [pc |-> "over"]

Return(c) == call' = [call EXCEPT ![c] = Over]

\* Something another process does, or an open or a lock that fails.
Change == changes < MaxChanges /\ changes' = changes + 1

\* RepoCache::remove runs as two steps and then goes on at `next`.
GoRemove(c, r, next) == Go(c, "remove", [target |-> r, next |-> next])

\* order.retain(|p| p != r), for a list that has a path at most once.
Without(o, r) ==
  IF \A i \in DOMAIN o : o[i] # r THEN o
  ELSE LET n == CHOOSE i \in DOMAIN o : o[i] = r
       IN  [i \in 1 .. Len(o) - 1 |-> IF i < n THEN o[i] ELSE o[i + 1]]

\* touch_lru: the path moves to the most recently used end.
Touched(o, r) == Append(Without(o, r), r)

-----------------------------------------------------------------------------
\* A tool call names its repository.
Begin(c) ==
  /\ At(c, "idle")
  /\ \E r \in Repo :
       call' = [call EXCEPT ![c] = [pc |-> "get", repo |-> r, state |-> NoState,
                                    arg |-> <<>>, since |-> <<conf[r], file[r]>>]]
  /\ UNCHANGED <<disk, cache, locks, changes>>

\* RepoCache::get clones the entry under the map's mutex; while another call
\* opens the repository, it waits for that call's per-key mutex and looks again.
\* When there is no entry, begin_open takes the map and claims the slot, unless
\* another call has filled it, which sends this one back here.
Get(c) ==
  /\ At(c, "get")
  /\ LET r == call[c].repo
         e == repos[r]
     IN  \/ e.kind = "ready" /\ With(c, "stat", e.state) /\ UNCHANGED repos
         \/ /\ e.kind = "missing"
            /\ repos' = [repos EXCEPT ![r] = Opening(c)]
            /\ Goto(c, "config")
  /\ UNCHANGED <<disk, order, split, locks, changes>>

\* A check of the configuration alone.
SameConfig(s) == conf[s.repo] = s.mtime

\* A hit is good when neither the configuration nor the file has changed.
\* A state that recorded no identity is not asked for one.
StillCurrent(s) ==
  /\ conf[s.repo] = s.mtime
  /\ s.ident # 0 => file[s.repo] = s.ident

Stat(c) ==
  /\ At(c, "stat")
  /\ IF StillCurrent(call[c].state) THEN Goto(c, "touch")
     ELSE GoRemove(c, call[c].repo, "get")
  /\ UNCHANGED <<disk, cache, locks, changes>>

Touch(c) ==
  /\ At(c, "touch")
  /\ order' = Touched(order, call[c].repo)
  /\ Goto(c, "mutex")
  /\ UNCHANGED <<disk, repos, split, locks, changes>>

\* RepoCache::remove, under the one mutex and then under the other.
RemoveEntry(c) ==
  /\ At(c, "remove")
  /\ repos' = [repos EXCEPT ![call[c].arg.target] = Missing]
  /\ Go(c, "unlist", call[c].arg)
  /\ UNCHANGED <<disk, order, split, locks, changes>>

Unlist(c) ==
  /\ At(c, "unlist")
  /\ order' = Without(order, call[c].arg.target)
  /\ split' = (split \/ repos[call[c].arg.target].kind # "missing")
  /\ IF call[c].arg.next = "failed" THEN Return(c) ELSE Goto(c, call[c].arg.next)
  /\ UNCHANGED <<disk, repos, locks, changes>>

\* open_repo: read the configuration, look for the database it names.
LoadConfig(c) ==
  /\ At(c, "config")
  /\ LET r == call[c].repo
     IN  IF file[r] = 0 THEN GoRemove(c, r, "failed") /\ UNCHANGED changes
         ELSE \/ With(c, "open", [conf |-> conf[r]]) /\ UNCHANGED changes
              \/ Change /\ GoRemove(c, r, "failed")
  /\ UNCHANGED <<disk, cache, locks>>

\* Storage::open: SQLite creates a file that is gone by now.  The migrations
\* and the version read they depend on are one IMMEDIATE transaction; a lock
\* that stays busy or a failing step rolls all of it back.
OpenStorage(c) ==
  /\ At(c, "open")
  /\ LET r      == call[c].repo
         fresh  == file[r] = 0
         ino    == IF fresh THEN Len(db[r]) + 1 ELSE file[r]
         found  == IF fresh THEN EmptyFile ELSE db[r][ino]
         at(d)  == IF fresh THEN Append(db[r], d)
                   ELSE [db[r] EXCEPT ![ino] = d]
         new    == MigrateInner(found)
     IN  /\ file' = [file EXCEPT ![r] = ino]
         /\ \/ /\ db' = [db EXCEPT ![r] = at(new)]
               /\ IF CheckVersion(new) THEN With(c, "stamp", [conf |-> call[c].state.conf, ino |-> ino])
                  ELSE GoRemove(c, r, "failed")
               /\ UNCHANGED changes
            \/ /\ Change
               /\ db' = [db EXCEPT ![r] = at(found)]
               /\ GoRemove(c, r, "failed")
  /\ UNCHANGED <<conf, cache, locks>>

\* The modification time and the file identity are taken last, of whatever is
\* there by now; finish_open turns Opening into Ready and lists the path.
Publish(c) ==
  /\ At(c, "stamp")
  /\ LET r == call[c].repo
         s == [storage |-> c, repo |-> r, conf |-> call[c].state.conf,
               ino |-> call[c].state.ino, mtime |-> conf[r], ident |-> file[r]]
     IN  repos' = [repos EXCEPT ![r] = Ready(s)] /\ With(c, "list", s)
  /\ UNCHANGED <<disk, order, split, locks, changes>>

List(c) ==
  /\ At(c, "list")
  /\ order' = Touched(order, call[c].repo)
  /\ Goto(c, "trim")
  /\ UNCHANGED <<disk, repos, split, locks, changes>>

IsReady(i) == repos[order[i]].kind = "ready"

\* An eviction that starts one entry late.
EvictLate(c) ==
  /\ At(c, "trim")
  /\ \/ /\ Len(order) > MaxCached + 1
        /\ \E i \in DOMAIN order : /\ IsReady(i) /\ \A j \in 1 .. i - 1 : ~IsReady(j)
                                  /\ GoRemove(c, order[i], "trim")
     \/ /\ Len(order) <= MaxCached + 1 \/ \A i \in DOMAIN order : ~IsReady(i)
        /\ Goto(c, "mutex")
  /\ UNCHANGED <<disk, cache, locks, changes>>

\* evict_if_over_capacity: the least recently used Ready path, if any, goes.
EvictIfOverCapacity(c) ==
  /\ At(c, "trim")
  /\ \/ /\ Len(order) > MaxCached
        /\ \E i \in DOMAIN order : /\ IsReady(i) /\ \A j \in 1 .. i - 1 : ~IsReady(j)
                                  /\ GoRemove(c, order[i], "trim")
     \/ /\ Len(order) <= MaxCached \/ \A i \in DOMAIN order : ~IsReady(i)
        /\ Goto(c, "mutex")
  /\ UNCHANGED <<disk, cache, locks, changes>>

-----------------------------------------------------------------------------
(* The canonical write of the call, with the state it has resolved.        *)

Storage(c) == call[c].state.storage

\* file_lock: the in-process mutex of this Storage, without a bound.
LockMutex(c) ==
  /\ At(c, "mutex")
  /\ mutex[Storage(c)] = Nobody
  /\ mutex' = [mutex EXCEPT ![Storage(c)] = c]
  /\ Goto(c, "flock")
  /\ UNCHANGED <<disk, cache, flock, changes>>

\* lock_file_bounded: the OS lock belongs to the open file, so a Storage that
\* has it gets it again.  On a timeout the mutex guard is dropped.
LockFile(c) ==
  /\ At(c, "flock")
  /\ \/ /\ flock[call[c].repo] \in {Nobody, Storage(c)}
        /\ flock' = [flock EXCEPT ![call[c].repo] = Storage(c)]
        /\ Goto(c, "write")
        /\ UNCHANGED <<mutex, changes>>
     \/ /\ flock[call[c].repo] \notin {Nobody, Storage(c)}
        /\ Change
        /\ mutex' = [mutex EXCEPT ![Storage(c)] = Nobody]
        /\ Return(c)
        /\ UNCHANGED flock
  /\ UNCHANGED <<disk, cache>>

\* The write reaches the file the connection has open, deleted or not.
WriteRow(c) ==
  \E e \in Knowledge :
    db' = [db EXCEPT ![call[c].repo][call[c].state.ino] = InsertEmbedding(@, e)]

\* A guard whose fields are dropped before its own drop runs.
MutexFirst(c) ==
  \/ /\ At(c, "write")
     /\ WriteRow(c)
     /\ mutex' = [mutex EXCEPT ![Storage(c)] = Nobody]
     /\ Goto(c, "release")
     /\ UNCHANGED <<conf, file, cache, flock, changes>>
  \/ /\ At(c, "release")
     /\ flock' = [flock EXCEPT ![call[c].repo] = Nobody]
     /\ Return(c)
     /\ UNCHANGED <<disk, cache, mutex, changes>>

\* The write ends with the drop of its FileLockGuard, which releases the OS
\* lock; then the mutex guard inside it goes.
Write(c) ==
  \/ /\ At(c, "write")
     /\ WriteRow(c)
     /\ flock' = [flock EXCEPT ![call[c].repo] = Nobody]
     /\ Goto(c, "release")
     /\ UNCHANGED <<conf, file, cache, mutex, changes>>
  \/ /\ At(c, "release")
     /\ mutex' = [mutex EXCEPT ![Storage(c)] = Nobody]
     /\ Return(c)
     /\ UNCHANGED <<disk, cache, flock, changes>>

-----------------------------------------------------------------------------
(* Other processes.                                                        *)

\* Somebody edits config.toml.
EditConfig(r) ==
  /\ Change
  /\ conf' = [conf EXCEPT ![r] = @ + 1]
  /\ UNCHANGED <<file, db, cache, locks, call>>

\* "cogz reset" deletes the database under the canonical lock.
Reset(r) ==
  /\ Change
  /\ file[r] # 0
  /\ flock[r] = Nobody
  /\ file' = [file EXCEPT ![r] = 0]
  /\ UNCHANGED <<conf, db, cache, locks, call>>

\* "cogz index" creates it again.
Index(r) ==
  /\ file[r] = 0
  /\ db' = [db EXCEPT ![r] = Append(@, MigrateInner(EmptyFile))]
  /\ file' = [file EXCEPT ![r] = Len(db'[r])]
  /\ UNCHANGED <<conf, cache, locks, call, changes>>

-----------------------------------------------------------------------------
Init ==
  /\ conf = [r \in Repo |-> 1]
  /\ file = [r \in Repo |-> 1]
  /\ db = [r \in Repo |-> <<Legacy(Version, Entity)>>]
  /\ repos = [r \in Repo |-> Missing]
  /\ order = <<>>
  /\ mutex = [s \in Call |-> Nobody]
  /\ flock = [r \in Repo |-> Nobody]
  /\ call = [c \in Call |-> [pc |-> "idle"]]
  /\ split = FALSE
  /\ changes = 0

Resolve(c) ==
  \/ Begin(c) \/ Get(c) \/ Stat(c) \/ Touch(c)
  \/ RemoveEntry(c) \/ Unlist(c)

OpenRepo(c) ==
  \/ LoadConfig(c) \/ OpenStorage(c) \/ Publish(c)
  \/ List(c) \/ EvictIfOverCapacity(c)

CanonicalWrite(c) ==
  LockMutex(c) \/ LockFile(c) \/ Write(c)

CallStep(c) == Resolve(c) \/ OpenRepo(c) \/ CanonicalWrite(c)

\* Calls that are over leave the server idle.
Idle == (\A c \in Call : At(c, "over")) /\ UNCHANGED vars

Next ==
  \/ \E c \in Call : CallStep(c)
  \/ \E r \in Repo : EditConfig(r) \/ Reset(r) \/ Index(r)
  \/ Idle

Spec == Init /\ [][Next]_vars

\* A blocking thread runs until its call returns.
FairSpec == Spec /\ \A c \in Call : WF_vars(CallStep(c))

-----------------------------------------------------------------------------
\* The calls that have a repository state to work with.
Using(c) == call[c].pc \in {"mutex", "flock", "write", "release"}

TypeOK ==
  /\ conf \in [Repo -> Config]
  /\ \A r \in Repo : /\ file[r] \in 0 .. Len(db[r]) 
                     /\ \A i \in 1 .. Len(db[r]) : db[r][i] \in Database
                     /\ \/ repos[r] = Missing
                        \/ repos[r] \in {Opening(c) : c \in Call}
                        \/ repos[r].kind = "ready" /\ repos[r].state \in RepoState
  /\ \A i, j \in 1 .. Len(order) : order[i] \in Repo /\ (order[i] = order[j] => i = j)
  /\ mutex \in [Call -> Call \cup {Nobody}]
  /\ flock \in [Repo -> Call \cup {Nobody}]
  /\ \A c \in Call : Using(c) => call[c].state \in RepoState

\* A call never works on a configuration or a database older than those in
\* place when it began (the two staleness checks of RepoCache::get), except
\* through a state whose stamp was taken of something newer than it opened.
StaleStateHasCause ==
  \A c \in Call : Using(c) =>
    LET s == call[c].state
    IN  /\ s.conf >= call[c].since[1] \/ s.mtime # s.conf
        /\ s.ino >= call[c].since[2] \/ s.ident # s.ino

\* A call never writes to a database that was already deleted when the call
\* began (the comment on FileIdentity, repo_cache.rs:18).
NoWriteToDeadFile ==
  \A c \in Call : Using(c) => call[c].state.ino >= call[c].since[2]

\* file_lock keeps the calls of one repository apart, those that share a
\* Storage and those whose Storage was evicted or reopened in between.
OneWriter ==
  \A c, d \in Call :
    At(c, "write") /\ At(d, "write") /\ call[c].repo = call[d].repo => c = d

\* Whatever version a database file had when it was opened, no vector is lost
\* from its map, doubled, or left in the wrong space.
VectorsMapped ==
  \A r \in Repo : \A i \in 1 .. Len(db[r]) :
    db[r][i].version = SchemaVersion => Mapped(db[r][i])

\* Between two evictions the cache holds no more than its limit, unless a
\* path was opened again between the two halves of its removal.
CacheBounded ==
  \/ split
  \/ \E c \in Call : \/ call[c].pc \in {"list", "trim"}
                     \/ call[c].pc \in {"remove", "unlist"} /\ call[c].arg.next = "trim"
  \/ Cardinality({r \in Repo : repos[r].kind = "ready"}) <= MaxCached

\* Every tool call gets its repository or an error: neither the herd behind
\* an open nor the retries after a change keep it for ever.
CallsReturn ==
  \A c \in Call : ~At(c, "idle") ~> At(c, "over")
=============================================================================
