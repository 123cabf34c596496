--------------------------- MODULE Consolidation ---------------------------
(***************************************************************************)
(* What CogZ does about two entries that say the same or the opposite:     *)
(* the checks that run when an observation is created (consolidate/        *)
(* dedup.rs, contradict.rs), and the passes of "cogz consolidate"          *)
(* (promote.rs, merge.rs), which turn an observation with enough           *)
(* supporters into a rule and mark the later of two duplicates as          *)
(* superseded by the earlier.                                              *)
(*                                                                         *)
(* A writer and a pass decide on what they read from the database, hold no *)
(* lock while a model runs, and take the canonical-file write lock for     *)
(* each file they rewrite.  Embeddings and NLI verdicts are constants.     *)
(***************************************************************************)
EXTENDS StatusLattice, Naturals, FiniteSets

CONSTANTS
  Obs, Rule,       \* ids of observations, and the ids promotion may mint
  Created,         \* [Obs -> Nat], created_at
  Pass,            \* processes that run "cogz consolidate"
  Scenario,        \* who is at work: see Init
  Embeds,          \* observations a model could embed
  SameTitle,       \* pairs {a, b} whose titles match
  Similar,         \* pairs whose embeddings and NLI say the same
  Opposed,         \* pairs the number gate or NLI finds contradictory
  Supports,        \* [Obs -> SUBSET Obs], supporting_ids as the author gave it
  Threshold,       \* consolidation.promotion_threshold
  MaxFaults,       \* bound: crashes, failed syncs, locks not taken in time,
                   \* rejections and full syncs
  Nobody

Entity == Obs \cup Rule

\* The frontmatter fields refs.rs turns into edges.
Doc == [status : Status, by : Entity \cup {Nobody}, from : Obs \cup {Nobody},
        sup : SUBSET Entity, contra : SUBSET Entity]

ASSUME ScenarioAssumption ==
  Scenario \subseteq [seed : SUBSET Obs, new : SUBSET Obs, passes : SUBSET Pass]
ASSUME IdAssumption == Obs \cap Rule = {} /\ Obs \cap Pass = {}
ASSUME NobodyAssumption == Nobody \notin Entity \cup Pass \cup Doc
ASSUME ObservationAssumption ==
  Created \in [Obs -> Nat] /\ Supports \in [Obs -> SUBSET Obs]
ASSUME BoundAssumption == MaxFaults \in Nat

VARIABLES
  file, row,   \* entity -> record, or Nobody when there is none
  vector,      \* entities with a stored embedding
  lock,        \* holder of the canonical-file write lock
  writer,      \* writer -> its locals
  pass,        \* pass -> its locals
  unsynced,    \* history: rules whose first sync failed or never happened
  overlap,     \* history: a pass began while another was running
  faults

store   == <<file, row>>
history == <<unsynced, overlap>>
vars    == <<store, vector, lock, writer, pass, history, faults>>

Active(e) == row[e] # Nobody /\ row[e].status = "active"

\* Edges are read off the rows: here an entry names only entries that have a
\* row already, so no edge is dropped for want of its target.
Supporters(o) == {e \in Entity : row[e] # Nobody /\ o \in row[e].sup}

Promoted(o) == \E e \in Entity \ {o} : row[e] # Nobody /\ row[e].from = o

\* One of the bounded disturbances.
Fault == faults < MaxFaults /\ faults' = faults + 1

\* The lattice check of sync_single_file.
Syncable(e) == \/ row[e] = Nobody
               \/ row[e].status = file[e].status
               \/ CanMove(row[e].status, file[e].status)

Synced(e) == IF file[e] # Nobody /\ Syncable(e)
             THEN [row EXCEPT ![e] = file[e]] ELSE row

-----------------------------------------------------------------------------
(***************************************************************************)
(* A call that creates an observation: mcp/entity_helpers.rs.              *)
(***************************************************************************)
WriterAt(w, step) == writer[w].pc = step

WriterGo(w, step) == writer' = [writer EXCEPT ![w].pc = step]

\* The file is written first, without the lock.
WriteFile(w) ==
  /\ WriterAt(w, "file")
  /\ file' = [file EXCEPT ![w] = [status |-> "active", by |-> Nobody, from |-> Nobody,
                                  sup |-> Supports[w], contra |-> {}]]
  /\ WriterGo(w, "sync")
  /\ UNCHANGED <<row, vector, lock, pass, history, faults>>

\* A failed sync ends the call with an error.
SyncFile(w) ==
  /\ WriterAt(w, "sync")
  /\ \/ row' = Synced(w) /\ WriterGo(w, "check") /\ UNCHANGED faults
     \/ Fault /\ WriterGo(w, "failed") /\ UNCHANGED row
  /\ UNCHANGED <<file, vector, lock, pass, history>>

\* Mutant of Matching: it looks at older entries only.
OlderMatching(w, status, vectors) ==
  {e \in Obs : /\ row[e] # Nobody /\ row[e].status = status
               /\ Created[e] < Created[w]
               /\ {e, w} \in SameTitle \/ ({e, w} \in Similar /\ e \in vectors)}

\* Title match, then similarity; both against entries that have a row, of
\* which the code looks at 100 (dedup.rs:114, :167), here at all.
Matching(w, status, vectors) ==
  {e \in Obs \ {w} : /\ row[e] # Nobody /\ row[e].status = status
                     /\ \/ {e, w} \in SameTitle
                        \/ {e, w} \in Similar /\ e \in vectors}

Duplicates(w, vectors) == Matching(w, "active", vectors)

\* check_rejected_match: evidence, never a block.
RejectedMatches(w, vectors) == Matching(w, "rejected", vectors)

\* The embedding is stored and compared under one hold of the connection.
\* Without a model only titles are compared.
StoreAndCheck(w) ==
  /\ WriterAt(w, "check")
  /\ vector' = vector \cup ({w} \cap Embeds)
  /\ LET known == IF w \in Embeds THEN vector ELSE {}
     IN  writer' = [writer EXCEPT ![w] =
           [@ EXCEPT !.pc = "fetch", !.dup = Duplicates(w, known) # {},
                     !.rejected = RejectedMatches(w, known) # {}]]
  /\ UNCHANGED <<store, lock, pass, history, faults>>

\* classify_candidates, on the entries read: their texts decide.
Contradicted(w, candidates) == {e \in candidates : {e, w} \in Opposed}

\* The candidates are read under the connection, 50 of them (contradict.rs:82),
\* here all, then the models run without it, on what was read.
FetchAndClassify(w) ==
  /\ WriterAt(w, "fetch")
  /\ LET found == Contradicted(w, {e \in Obs \ {w} : Active(e)})
     IN  writer' = [writer EXCEPT ![w] =
           [@ EXCEPT !.contra = found, !.pc = IF found = {} THEN "done" ELSE "lock"]]
  /\ UNCHANGED <<store, vector, lock, pass, history, faults>>

\* The call reports the contradiction even when it cannot be recorded.
LockForRecord(w) ==
  /\ WriterAt(w, "lock")
  /\ \/ lock = Nobody /\ lock' = w /\ WriterGo(w, "record") /\ UNCHANGED faults
     \/ lock # Nobody /\ Fault /\ WriterGo(w, "done") /\ UNCHANGED lock
  /\ UNCHANGED <<store, vector, pass, history>>

\* record_contradictions: read, set the field, write.
RecordContradicts(w) ==
  /\ WriterAt(w, "record")
  /\ file' = [file EXCEPT ![w].contra = writer[w].contra]
  /\ WriterGo(w, "syncrecord")
  /\ UNCHANGED <<row, vector, lock, pass, history, faults>>

SyncRecord(w) ==
  /\ WriterAt(w, "syncrecord")
  /\ \/ row' = Synced(w) /\ UNCHANGED faults
     \/ Fault /\ UNCHANGED row
  /\ lock' = Nobody
  /\ WriterGo(w, "done")
  /\ UNCHANGED <<file, vector, pass, history>>

WriterStep(w) ==
  \/ WriteFile(w) \/ SyncFile(w) \/ StoreAndCheck(w) \/ FetchAndClassify(w)
  \/ LockForRecord(w) \/ RecordContradicts(w) \/ SyncRecord(w)

-----------------------------------------------------------------------------
(***************************************************************************)
(* A pass: run_promotion, then run_merge.                                  *)
(***************************************************************************)
Idle == [pc |-> "idle", phase |-> "promote", seen |-> {}, todo |-> {},
         ent |-> Nobody, by |-> Nobody]

Away == [Idle EXCEPT !.pc = "away"]

PassAt(p, step) == pass[p].pc = step

PassGo(p, step) == pass' = [pass EXCEPT ![p].pc = step]

\* On to the next candidate.
On(p) == pass' = [pass EXCEPT ![p] = [@ EXCEPT !.pc = "next", !.ent = Nobody, !.by = Nobody]]

\* The active observations, read in one access to the database.
StartPass(p) ==
  /\ PassAt(p, "idle")
  /\ pass' = [pass EXCEPT ![p] = [@ EXCEPT !.pc = "edges", !.seen = {o \in Obs : Active(o)}]]
  /\ overlap' = (overlap \/ \E q \in Pass : ~(PassAt(q, "idle") \/ PassAt(q, "away")))
  /\ UNCHANGED <<store, vector, lock, writer, unsynced, faults>>

\* Mutant of PromotionCandidates: it forgets the rules already derived.
SupportedAgain(seen) ==
  {[ent |-> o, sup |-> Supporters(o)] : o \in {x \in seen : Cardinality(Supporters(x)) >= Threshold}}

\* The edges are read in a second access.
PromotionCandidates(seen) ==
  {[ent |-> o, sup |-> Supporters(o)] :
     o \in {x \in seen : ~Promoted(x) /\ Cardinality(Supporters(x)) >= Threshold}}

ReadEdges(p) ==
  /\ PassAt(p, "edges")
  /\ pass' = [pass EXCEPT ![p] =
       [@ EXCEPT !.pc = "next", !.todo = PromotionCandidates(pass[p].seen)]]
  /\ UNCHANGED <<store, vector, lock, writer, history, faults>>

\* promote_one writes the file of a new rule first, without the lock.
WriteRule(p) ==
  /\ PassAt(p, "next") /\ pass[p].phase = "promote"
  /\ \E c \in pass[p].todo, r \in Rule :
       /\ file[r] = Nobody
       /\ file' = [file EXCEPT ![r] = [status |-> "active", by |-> Nobody, from |-> c.ent,
                                       sup |-> c.sup, contra |-> {}]]
       /\ unsynced' = unsynced \cup {r}
       /\ pass' = [pass EXCEPT ![p] = [@ EXCEPT !.pc = "syncrule", !.ent = c.ent, !.by = r,
                                                !.todo = pass[p].todo \ {c}]]
  /\ UNCHANGED <<row, vector, lock, writer, overlap, faults>>

SyncRule(p) ==
  /\ PassAt(p, "syncrule")
  /\ \/ /\ row' = Synced(pass[p].by)
        /\ unsynced' = unsynced \ {pass[p].by}
        /\ PassGo(p, "precheck")
        /\ UNCHANGED faults
     \/ Fault /\ On(p) /\ UNCHANGED <<row, unsynced>>
  /\ UNCHANGED <<file, vector, lock, writer, overlap>>

\* Promotion is over (or every id of Rule is used, a bound of the model).
EndPromotion(p) ==
  /\ PassAt(p, "next") /\ pass[p].phase = "promote"
  /\ pass[p].todo = {} \/ \A r \in Rule : file[r] # Nobody
  /\ pass' = [pass EXCEPT ![p] =
       [Idle EXCEPT !.pc = "vectors", !.phase = "merge", !.seen = {o \in Obs : Active(o)}]]
  /\ UNCHANGED <<store, vector, lock, writer, history, faults>>

\* Mutant of MergeCandidates: a pair in the order it was met.
EitherSurvives(seen) ==
  {c \in [ent : seen \cap vector, by : seen \cap vector] : {c.ent, c.by} \in Similar}

\* The earlier of two duplicates survives.
MergeCandidates(seen) ==
  {c \in [ent : seen \cap vector, by : seen \cap vector] :
     {c.ent, c.by} \in Similar /\ Created[c.by] <= Created[c.ent]}

\* Vectors and neighbours are read in one more access, and the NLI model, when it
\* is there, confirms the pairs; without it nothing merges.
ReadPairs(p) ==
  /\ PassAt(p, "vectors")
  /\ pass' = [pass EXCEPT ![p] =
       [@ EXCEPT !.pc = "next", !.seen = {}, !.todo = MergeCandidates(pass[p].seen)]]
  /\ UNCHANGED <<store, vector, lock, writer, history, faults>>

\* Mutant of Precheck: the file is asked, which a failed sync has left ahead.
PrecheckFile(e) == CanMove(file[e].status, "superseded")

\* merge_one and supersede_source look at the row's status before the lock.
\* The survivor is not looked at.
Precheck(e) == CanMove(row[e].status, "superseded")

NextPair(p) ==
  /\ PassAt(p, "next") /\ pass[p].phase = "merge"
  /\ \E c \in pass[p].todo :
       pass' = [pass EXCEPT ![p] =
         IF Precheck(c.ent)
         THEN [@ EXCEPT !.pc = "lock", !.ent = c.ent, !.by = c.by, !.todo = pass[p].todo \ {c}]
         ELSE [@ EXCEPT !.todo = pass[p].todo \ {c}]]
  /\ UNCHANGED <<store, vector, lock, writer, history, faults>>

CheckSource(p) ==
  /\ PassAt(p, "precheck")
  /\ IF Precheck(pass[p].ent) THEN PassGo(p, "lock") ELSE On(p)
  /\ UNCHANGED <<store, vector, lock, writer, history, faults>>

EndMerge(p) ==
  /\ PassAt(p, "next") /\ pass[p].phase = "merge" /\ pass[p].todo = {}
  /\ pass' = [pass EXCEPT ![p] = Idle]
  /\ UNCHANGED <<store, vector, lock, writer, history, faults>>

LockForSupersede(p) ==
  /\ PassAt(p, "lock")
  /\ \/ lock = Nobody /\ lock' = p /\ PassGo(p, "supersede") /\ UNCHANGED faults
     \/ lock # Nobody /\ Fault /\ On(p) /\ UNCHANGED lock
  /\ UNCHANGED <<store, vector, writer, history>>

Supersede(p) ==
  /\ PassAt(p, "supersede")
  /\ file' = [file EXCEPT ![pass[p].ent] =
       [@ EXCEPT !.status = "superseded", !.by = pass[p].by]]
  /\ PassGo(p, "syncsource")
  /\ UNCHANGED <<row, vector, lock, writer, history, faults>>

SyncSource(p) ==
  /\ PassAt(p, "syncsource")
  /\ \/ row' = Synced(pass[p].ent) /\ UNCHANGED faults
     \/ Fault /\ UNCHANGED row
  /\ lock' = Nobody
  /\ On(p)
  /\ UNCHANGED <<file, vector, writer, history>>

PassStep(p) ==
  \/ StartPass(p) \/ ReadEdges(p) \/ WriteRule(p) \/ SyncRule(p) \/ EndPromotion(p)
  \/ ReadPairs(p) \/ NextPair(p) \/ EndMerge(p)
  \/ CheckSource(p) \/ LockForSupersede(p) \/ Supersede(p) \/ SyncSource(p)

-----------------------------------------------------------------------------

\* A process dies; the system releases its lock.
Released(q) == IF lock = q THEN Nobody ELSE lock

Crash ==
  /\ Fault
  /\ \/ \E w \in Obs : /\ writer[w].pc \notin {"seed", "file", "done", "failed"}
                       /\ WriterGo(w, "failed")
                       /\ lock' = Released(w)
                       /\ UNCHANGED pass
     \/ \E p \in Pass : /\ ~(PassAt(p, "idle") \/ PassAt(p, "away"))
                        /\ pass' = [pass EXCEPT ![p] = Idle]
                        /\ lock' = Released(p)
                        /\ UNCHANGED writer
  /\ UNCHANGED <<store, vector, history>>

\* A person rejects an entry (the steps of this are MemoryStore's).
Reject ==
  /\ lock = Nobody
  /\ \E e \in Entity :
       /\ Active(e)
       /\ file' = [file EXCEPT ![e].status = "rejected"]
       /\ row' = [row EXCEPT ![e] = [file[e] EXCEPT !.status = "rejected"]]
  /\ Fault
  /\ UNCHANGED <<vector, lock, writer, pass, history>>

\* A full sync.
Index ==
  /\ row' = [e \in Entity |-> Synced(e)[e]]
  /\ row' # row
  /\ Fault
  /\ UNCHANGED <<file, vector, lock, writer, pass, history>>

\* In a scenario the observations of `seed` are there, those of `new` are being
\* created (a writer is named after its observation), and some passes run.
Init ==
  \E here \in Scenario :
    /\ file = [e \in Entity |->
         IF e \in here.seed THEN [status |-> "active", by |-> Nobody, from |-> Nobody,
                                  sup |-> Supports[e], contra |-> {}]
         ELSE Nobody]
    /\ row = file
    /\ vector = here.seed \cap Embeds
    /\ lock = Nobody
    /\ writer = [w \in Obs |-> [pc |-> IF w \in here.new THEN "file" ELSE "seed",
                                dup |-> FALSE, rejected |-> FALSE,
                                contra |-> {}]]
    /\ pass = [p \in Pass |-> IF p \in here.passes THEN Idle ELSE Away]
    /\ unsynced = {}
    /\ overlap = FALSE
    /\ faults = 0

Next ==
  \/ \E w \in Obs : WriterStep(w)
  \/ \E p \in Pass : PassStep(p)
  \/ Crash \/ Reject \/ Index

\* Processes run on, and "cogz consolidate" is run again and again.
Fairness ==
  /\ WF_vars(\E w \in Obs : WriterStep(w))
  /\ \A p \in Pass : WF_vars(PassStep(p))

Spec == Init /\ [][Next]_vars /\ Fairness

-----------------------------------------------------------------------------
HolderAtWork ==
  \/ lock = Nobody
  \/ lock \in Obs /\ writer[lock].pc \in {"record", "syncrecord"}
  \/ lock \in Pass /\ pass[lock].pc \in {"supersede", "syncsource"}

\* Types, and the lock is held by a process that is inside its write.
TypeOK ==
  /\ file \in [Entity -> Doc \cup {Nobody}]
  /\ row \in [Entity -> Doc \cup {Nobody}]
  /\ vector \subseteq Obs /\ unsynced \subseteq Rule
  /\ faults \in 0 .. MaxFaults /\ overlap \in BOOLEAN
  /\ \A e \in Entity : row[e] # Nobody => file[e] # Nobody
  /\ HolderAtWork

\* No claim is lost by consolidation: from a superseded entry, superseded_by
\* leads, through entries with rows and never in a circle, to one that is not
\* superseded (merge.rs:3, promote.rs:7).  A set of superseded entries that
\* holds the successor of each of its members would be a circle.
ClaimSurvives ==
  LET gone == {e \in Entity : row[e] # Nobody /\ row[e].status = "superseded"}
  IN  /\ \A e \in gone : row[e].by # Nobody /\ row[row[e].by] # Nobody
      /\ \A S \in (SUBSET gone) \ {{}} : \E e \in S : row[e].by \notin S

\* One observation becomes two rules only when two passes overlapped or the
\* file of a rule was written and its sync failed (promote.rs:116, :150).
SecondRuleNeedsCause ==
  \A r, s \in Rule :
    /\ r # s /\ file[r] # Nobody /\ file[s] # Nobody
    /\ file[r].from = file[s].from
    => overlap \/ {r, s} \cap unsynced # {}

\* Two observations created at once, both answered and still active: if they
\* are duplicates, or contradict, at least one of the two callers was told
\* (each syncs its own row before it looks for others).
OneOfTwoIsWarned ==
  \A v, w \in Obs :
    v # w /\ writer[v].pc = "done" /\ writer[w].pc = "done" /\ Active(v) /\ Active(w) =>
      /\ \/ {v, w} \in SameTitle
         \/ {v, w} \in Similar /\ {v, w} \subseteq Embeds
         => writer[v].dup \/ writer[w].dup
      /\ {v, w} \in Opposed => writer[v].contra \cup writer[w].contra # {}

\* Two active duplicates with embeddings do not stay: as long as consolidation
\* is run, one of them leaves (whatever failed on the way).
DuplicatesMerge ==
  \A pair \in Similar :
    pair \subseteq vector /\ (\A o \in pair : Active(o)) ~> \E o \in pair : ~Active(o)
=============================================================================
