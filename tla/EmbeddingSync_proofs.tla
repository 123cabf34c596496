------------------------ MODULE EmbeddingSync_proofs ------------------------
(***************************************************************************)
(* Theorems about EmbeddingSync, for any number of processes, entities,    *)
(* versions, jobs and faults.                                              *)
(***************************************************************************)
EXTENDS EmbeddingSync, TLAPS

-----------------------------------------------------------------------------
(* Type correctness.                                                       *)

Batch == UNION {[es -> Version] : es \in SUBSET Entity}

LEMMA BatchType ==
  ASSUME NEW b, DOMAIN b \in SUBSET Entity, b \in [DOMAIN b -> Version]
  PROVE  b \in Batch
  BY DEF Batch

LEMMA BatchIs ==
  ASSUME NEW b \in Batch
  PROVE  DOMAIN b \subseteq Entity /\ \A e \in DOMAIN b : b[e] \in Version
  BY DEF Batch

LEMMA NoBatchType == NoBatch \in Batch /\ DOMAIN NoBatch = {}
<1>1. DOMAIN NoBatch = {}
  BY DEF NoBatch
<1>2. NoBatch \in [DOMAIN NoBatch -> Version]
  BY <1>1 DEF NoBatch
<1>. QED  BY <1>1, <1>2, BatchType

LEMMA IdleType == Idle \in Job
  BY NoBatchType DEF Idle, Job, Steps, Batch

LEMMA JobIs ==
  Job = [job : {"none", "reindex", "index", "tool", "embed", "reset"}, at : Steps,
         ids : SUBSET Entity, batch : Batch, space : SUBSET Entity, db : Nat]
  BY DEF Job, Batch

\* A job takes on a step, ids, a batch, a space, a database.
LEMMA JobAt ==
  ASSUME NEW r \in Job, NEW s \in Steps
  PROVE  [r EXCEPT !.at = s] \in Job
  BY JobIs

LEMMA JobIds ==
  ASSUME NEW r \in Job, NEW s \in Steps, NEW ids \in SUBSET Entity
  PROVE  [r EXCEPT !.ids = ids, !.at = s] \in Job /\ [r EXCEPT !.at = s, !.ids = ids] \in Job
  BY JobIs

LEMMA JobBatch ==
  ASSUME NEW r \in Job, NEW s \in Steps, NEW b \in Batch
  PROVE  [r EXCEPT !.batch = b, !.at = s] \in Job
  BY JobIs

LEMMA JobOpen ==
  ASSUME NEW r \in Job, NEW s \in Steps, NEW sp \in SUBSET Entity, NEW d \in Nat
  PROVE  [r EXCEPT !.db = d, !.at = s, !.space = sp] \in Job
  BY JobIs

LEMMA JobPass ==
  ASSUME NEW r \in Job, NEW s \in Steps, NEW sp \in SUBSET Entity
  PROVE  [r EXCEPT !.at = s, !.space = sp, !.ids = {}, !.batch = NoBatch] \in Job
  BY JobIs, NoBatchType

LEMMA TypeInit == Init => TypeOK
<1>. SUFFICES ASSUME Init PROVE TypeOK
  OBVIOUS
<1>1. row \in [Entity -> Version \cup {NoRow}] /\ vec \in [Entity -> Version \cup {NoVec}]
  BY DEF Init
<1>2. disk \in [Entity -> Version]
  BY VersionAssumption DEF Init, Version
<1>3. run \in [Process -> Job]
  BY IdleType DEF Init
<1>4. disturbed \in BOOLEAN /\ lock \in Process \cup {Free} /\ saved \subseteq Entity
  BY Zenon DEF Init
<1>. QED  BY <1>1, <1>2, <1>3, <1>4 DEF Init, TypeOK

\* One job changes.
LEMMA SetType ==
  ASSUME TypeOK, NEW p \in Process, NEW r \in Job, Set(p, r)
  PROVE  run' \in [Process -> Job]
  BY DEF TypeOK, Set

LEMMA ExitType ==
  ASSUME TypeOK, NEW p \in Process, Exit(p)
  PROVE  run' \in [Process -> Job] /\ lock' \in Process \cup {Free}
  BY SetType, IdleType DEF Exit, TypeOK

LEMMA SyncType ==
  ASSUME TypeOK, NEW p \in Process, NEW space \in SUBSET Entity, SyncSpace(p, space)
  PROVE  row' \in [Entity -> Version \cup {NoRow}] /\ saved' \subseteq Entity
  BY DEF TypeOK, SyncSpace

LEMMA StoreType ==
  ASSUME TypeOK, NEW p \in Process, NEW space \in SUBSET Entity, StoreEmbeddings(p, space)
  PROVE  vec' \in [Entity -> Version \cup {NoVec}] /\ saved' \subseteq Entity
<1>1. run[p].batch \in Batch
  BY JobIs DEF TypeOK
<1>. QED  BY <1>1, BatchIs DEF TypeOK, StoreEmbeddings

LEMMA OpenedType ==
  ASSUME TypeOK, NEW p \in Process
  PROVE  Opened(p) \in Job
<1>1. PICK s \in {"fetch", "files"}, sp \in {Code, Entity} :
        Opened(p) = [run[p] EXCEPT !.db = db, !.at = s, !.space = sp]
  BY Zenon DEF Opened
<1>2. s \in Steps /\ sp \in SUBSET Entity
  BY DEF Steps, Entity
<1>3. run[p] \in Job /\ db \in Nat
  BY DEF TypeOK
<1>4. [run[p] EXCEPT !.db = db, !.at = s, !.space = sp] \in Job
  BY <1>2, <1>3, JobOpen, Zenon
<1>. QED  BY <1>1, <1>4, Zenon

\* A boolean that is what it was or true.
LEMMA DisturbedType ==
  ASSUME TypeOK, NEW b \in BOOLEAN, disturbed' = (disturbed \/ b)
  PROVE  disturbed' \in BOOLEAN
  BY Zenon DEF TypeOK

LEMMA StartType ==
  ASSUME TypeOK, NEW p \in Process, NEW r \in Job, Start(p, r)
  PROVE  run' \in [Process -> Job] /\ disturbed' \in BOOLEAN
<1>1. run' \in [Process -> Job]
  BY SetType DEF Start
<1>2. disturbed' \in BOOLEAN
  BY Zenon DEF TypeOK, Start
<1>. QED  BY <1>1, <1>2

LEMMA TypeBegin ==
  ASSUME TypeOK, NEW p \in Process, SpawnReindexBg(p) \/ RunIndex(p) \/ StartReset(p)
  PROVE  TypeOK'
<1>. USE IdleType, StartType, JobIs
<1>1. CASE SpawnReindexBg(p)
  <2>1. [Idle EXCEPT !.job = "reindex", !.at = "lock"] \in Job
    BY DEF Steps
  <2>. QED  BY <1>1, <2>1 DEF SpawnReindexBg, TypeOK
<1>2. CASE RunIndex(p)
  <2>1. [Idle EXCEPT !.job = "index", !.at = "files", !.db = db, !.space = Knowledge] \in Job
    BY DEF Steps, TypeOK, Entity
  <2>. QED  BY <1>2, <2>1 DEF RunIndex, TypeOK
<1>3. CASE StartReset(p)
  <2>1. [Idle EXCEPT !.job = "reset", !.at = "drop"] \in Job
    BY DEF Steps
  <2>. QED  BY <1>3, <2>1 DEF StartReset, TypeOK
<1>. QED  BY <1>1, <1>2, <1>3

LEMMA TypeWrite ==
  ASSUME TypeOK, NEW p \in Process, NEW e \in Knowledge, ToolWrite(p, e)
  PROVE  TypeOK'
<1>1. e \in Entity /\ disk[e] + 1 \in Version
  BY VersionAssumption DEF ToolWrite, TypeOK, Version, Entity
<1>. DEFINE b == [x \in {e} |-> disk[e] + 1]
            r == [Idle EXCEPT !.job = "tool", !.at = "embed", !.ids = {e}, !.batch = b,
                              !.space = {e}, !.db = db]
<1>2. b \in Batch
  BY <1>1, BatchType
<1>. HIDE DEF b
<1>3. r \in Job
  BY <1>1, <1>2, IdleType, JobIs DEF Steps, TypeOK
<1>4. Start(p, r)
  BY DEF ToolWrite, b
<1>. HIDE DEF r
<1>5. run' \in [Process -> Job] /\ disturbed' \in BOOLEAN
  BY <1>3, <1>4, StartType
<1>. QED  BY <1>1, <1>5 DEF ToolWrite, TypeOK

LEMMA TypeEdit ==
  ASSUME TypeOK, NEW e \in Entity, Edit(e) \/ SaveHook(e)
  PROVE  TypeOK'
  BY VersionAssumption DEF Edit, SaveHook, SaveCanonical, SaveSource, Resync, TypeOK, Version

LEMMA TypeSpawn ==
  ASSUME TypeOK, NEW p \in Process, NEW q \in Process \ {p}, SpawnEmbedBg(p, q)
  PROVE  TypeOK'
<1>1. PICK s \in {"open", "lock"} :
        run' = [run EXCEPT ![p] = Idle,
                           ![q] = [Idle EXCEPT !.job = "embed", !.at = s,
                                               !.ids = DOMAIN run[p].batch \cap Code]]
  BY DEF SpawnEmbedBg
<1>2. [Idle EXCEPT !.job = "embed", !.at = s, !.ids = DOMAIN run[p].batch \cap Code] \in Job
  BY IdleType, JobIs DEF Steps, Entity
<1>3. run' \in [Process -> Job]
  BY <1>1, <1>2, IdleType DEF TypeOK
<1>. QED  BY <1>3 DEF SpawnEmbedBg, TypeOK

\* A job goes on to a step, or ends.
LEMMA GotoType ==
  ASSUME TypeOK, NEW p \in Process, NEW s \in Steps, Goto(p, s)
  PROVE  run' \in [Process -> Job]
<1>1. [run[p] EXCEPT !.at = s] \in Job
  BY JobAt DEF TypeOK
<1>. QED  BY <1>1, SetType DEF Goto

LEMMA EndPassType ==
  ASSUME TypeOK, NEW p \in Process, EndPass(p)
  PROVE  run' \in [Process -> Job] /\ lock' \in Process \cup {Free}
<1>1. CASE Exit(p)
  BY <1>1, ExitType
<1>2. CASE /\ Set(p, [run[p] EXCEPT !.at = "code", !.space = Code, !.ids = {}, !.batch = NoBatch])
           /\ UNCHANGED lock
  <2>1. [run[p] EXCEPT !.at = "code", !.space = Code, !.ids = {}, !.batch = NoBatch] \in Job
    BY JobPass DEF TypeOK, Steps, Entity
  <2>. QED  BY <1>2, <2>1, SetType DEF TypeOK
<1>. QED  BY <1>1, <1>2, Zenon DEF EndPass

\* The ids a job can be given.
LEMMA IdsType ==
  ASSUME TypeOK, NEW p \in Process, NEW sp \in {Knowledge, Code, run[p].space}
  PROVE  /\ run[p].ids \in SUBSET Entity /\ run[p].batch \in Batch
         /\ Outdated(sp) \in SUBSET Entity
         /\ run[p].ids \cup Outdated(sp) \in SUBSET Entity
         /\ EmbedTargets(run[p].ids, sp) \in SUBSET Entity
<1>1. run[p].ids \in SUBSET Entity /\ run[p].space \in SUBSET Entity /\ run[p].batch \in Batch
  BY JobIs DEF TypeOK
<1>2. sp \in SUBSET Entity
  BY <1>1 DEF Entity
<1>. QED  BY <1>1, <1>2 DEF Outdated, EmbedTargets, IdsMissingEmbeddings

LEMMA FetchType ==
  ASSUME TypeOK, NEW p \in Process, Fetch(p)
  PROVE  run' \in [Process -> Job]
<1>. DEFINE found == {e \in run[p].ids : row[e] # NoRow}
            b == IF Fresh(p) THEN [e \in found |-> row[e]] ELSE [e \in run[p].ids |-> 0]
<1>1. run[p].ids \in SUBSET Entity
  BY IdsType
<1>2. b \in Batch
  <2>1. CASE Fresh(p)
    <3>1. b = [e \in found |-> row[e]]
      BY <2>1
    <3>2. found \in SUBSET Entity /\ \A e \in found : row[e] \in Version
      BY <1>1 DEF TypeOK
    <3>. QED  BY <3>1, <3>2, BatchType
  <2>2. CASE ~Fresh(p)
    <3>1. b = [e \in run[p].ids |-> 0]
      BY <2>2
    <3>. QED  BY <1>1, <3>1, BatchType, VersionAssumption DEF Version
  <2>. QED  BY <2>1, <2>2
<1>. HIDE DEF b
<1>3. PICK s \in Steps : Set(p, [run[p] EXCEPT !.batch = b, !.at = s])
  <2>1. CASE run[p].job = "embed"
    BY <2>1 DEF Fetch, Steps, b
  <2>2. CASE run[p].job # "embed"
    BY <2>2 DEF Fetch, Steps, b
  <2>. QED  BY <2>1, <2>2
<1>4. [run[p] EXCEPT !.batch = b, !.at = s] \in Job
  BY <1>2, JobBatch DEF TypeOK
<1>. QED  BY <1>3, <1>4, SetType

LEMMA TypeJob ==
  ASSUME TypeOK, NEW p \in Process, JobStep(p)
  PROVE  TypeOK'
<1>. {"files", "code", "cochange", "target", "fetch", "embed", "store",
      "code_embed", "code_store"} \subseteq Steps
  BY DEF Steps
<1>. Knowledge \in SUBSET Entity /\ Code \in SUBSET Entity /\ run[p] \in Job
  BY DEF Entity, TypeOK
<1>1. CASE TakeLock(p)
  <2>1. disturbed' \in BOOLEAN
    BY <1>1, Zenon DEF TakeLock, TypeOK
  <2>2. run' \in [Process -> Job] /\ lock' \in Process \cup {Free}
    BY <1>1, OpenedType, SetType, ExitType DEF TakeLock
  <2>. QED  BY <1>1, <2>1, <2>2 DEF TakeLock, TypeOK
<1>2. CASE OpenDetached(p)
  <2>1. run' \in [Process -> Job]
    BY <1>2, OpenedType, SetType DEF OpenDetached
  <2>. QED  BY <1>2, <2>1 DEF OpenDetached, TypeOK
<1>3. CASE SyncFiles(p)
  <2>1. PICK s \in {"target", "code"} :
          Set(p, [run[p] EXCEPT !.ids = Outdated(Knowledge), !.at = s])
    BY <1>3, Zenon DEF SyncFiles
  <2>2. run' \in [Process -> Job]
    BY <2>1, IdsType, JobIds, SetType
  <2>. QED  BY <1>3, <2>2, SyncType DEF SyncFiles, TypeOK
<1>4. CASE ReindexCode(p)
  <2>1. PICK s \in {"target", "cochange"} :
          Set(p, [run[p] EXCEPT !.ids = run[p].ids \cup Outdated(Code), !.at = s])
    BY <1>4 DEF ReindexCode
  <2>2. run' \in [Process -> Job]
    BY <2>1, IdsType, JobIds, SetType
  <2>. QED  BY <1>4, <2>2, SyncType DEF ReindexCode, TypeOK
<1>5. CASE Cochange(p)
  <2>1. run' \in [Process -> Job] /\ lock' \in Process \cup {Free}
    BY <1>5, GotoType, ExitType DEF Cochange, TypeOK
  <2>2. disturbed' \in BOOLEAN
    BY <1>5, Zenon DEF Cochange, Fault, TypeOK
  <2>. QED  BY <1>5, <2>1, <2>2 DEF Cochange, TypeOK
<1>6. CASE Target(p)
  <2>1. PICK ids \in {run[p].ids, EmbedTargets(run[p].ids, run[p].space)} :
          Set(p, [run[p] EXCEPT !.at = "fetch", !.ids = ids])
    <3>1. CASE Fresh(p)
      BY <1>6, <3>1 DEF Target
    <3>2. CASE ~Fresh(p)
      BY <1>6, <3>2 DEF Target
    <3>. QED  BY <3>1, <3>2
  <2>2. run' \in [Process -> Job]
    BY <2>1, IdsType, JobIds, SetType
  <2>. QED  BY <1>6, <2>2 DEF Target, TypeOK
<1>7. CASE Fetch(p)
  BY <1>7, FetchType DEF Fetch, TypeOK
<1>8. CASE EmbedKnowledge(p)
  <2>1. disturbed' \in BOOLEAN
    BY <1>8, Zenon DEF EmbedKnowledge, Fault, TypeOK
  <2>2. run' \in [Process -> Job]
    BY <1>8, GotoType DEF EmbedKnowledge
  <2>. QED  BY <1>8, <2>1, <2>2 DEF EmbedKnowledge, TypeOK
<1>9. CASE StoreKnowledge(p)
  <2>1. run' \in [Process -> Job]
    BY <1>9, GotoType DEF StoreKnowledge
  <2>. QED  BY <1>9, <2>1, StoreType DEF StoreKnowledge, TypeOK
<1>10. CASE EmbedCodeInline(p)
  <2>1. disturbed' \in BOOLEAN
    BY <1>10, Zenon DEF EmbedCodeInline, Fault, TypeOK
  <2>2. run' \in [Process -> Job] /\ lock' \in Process \cup {Free}
    BY <1>10, GotoType, EndPassType DEF EmbedCodeInline, TypeOK
  <2>. QED  BY <1>10, <2>1, <2>2 DEF EmbedCodeInline, TypeOK
<1>11. CASE StoreCode(p)
  BY <1>11, EndPassType, StoreType DEF StoreCode, TypeOK
<1>12. CASE DropDatabase(p)
  <2>1. row' \in [Entity -> Version \cup {NoRow}] /\ vec' \in [Entity -> Version \cup {NoVec}]
    BY <1>12 DEF DropDatabase
  <2>2. run' \in [Process -> Job] /\ lock' \in Process \cup {Free}
    BY <1>12, ExitType DEF DropDatabase
  <2>. QED  BY <1>12, <2>1, <2>2 DEF DropDatabase, TypeOK
<1>. QED
  BY <1>1, <1>2, <1>3, <1>4, <1>5, <1>6, <1>7, <1>8, <1>9, <1>10, <1>11, <1>12 DEF JobStep

LEMMA TypeNext == TypeOK /\ [Next]_vars => TypeOK'
<1>. SUFFICES ASSUME TypeOK, [Next]_vars PROVE TypeOK'
  OBVIOUS
<1>1. ASSUME NEW p \in Process, Kill(p) PROVE TypeOK'
  BY <1>1, ExitType DEF Kill, Fault, TypeOK
<1>2. CASE ModelArrives
  BY <1>2 DEF ModelArrives, TypeOK
<1>3. CASE UNCHANGED vars
  BY <1>3 DEF vars, TypeOK
<1>. QED
  BY <1>1, <1>2, <1>3, TypeBegin, TypeWrite, TypeEdit, TypeSpawn, TypeJob DEF Next

\* Every variable keeps its type, and every job in progress holds ids, a batch
\* and a database that its next step can work with.
THEOREM TypeCorrect == Spec => []TypeOK
  BY TypeInit, TypeNext, PTL DEF Spec

-----------------------------------------------------------------------------
(* The worker lock.                                                        *)

\* A reindex at work and a reset hold the lock; an embed-bg alone does without.
LockHeld ==
  \A p \in Process :
    /\ \/ run[p].job = "reindex" /\ run[p].at \in Holding
       \/ run[p].job = "reset"
       => lock = p
    /\ run[p].at = "open" => run[p].job = "embed"

\* A job goes on without taking or leaving the lock, or ends with it.
LEMMA HeldStep ==
  ASSUME TypeOK, LockHeld, NEW p \in Process, NEW r, Set(p, r), UNCHANGED lock,
         r.job = run[p].job, r.at # "open",
         r.job = "reindex" /\ r.at \in Holding => run[p].at \in Holding
  PROVE  LockHeld'
  BY DEF TypeOK, LockHeld, Set

LEMMA HeldExit ==
  ASSUME TypeOK, LockHeld, NEW p \in Process, Exit(p)
  PROVE  LockHeld'
  BY FreeAssumption DEF TypeOK, LockHeld, Exit, Set, Idle

LEMMA HeldStart ==
  ASSUME TypeOK, LockHeld, NEW p \in Process, NEW r, Start(p, r), UNCHANGED lock,
         r.job # "reset", r.job = "reindex" => r.at \notin Holding, r.at # "open"
  PROVE  LockHeld'
  BY DEF TypeOK, LockHeld, Start, Set

\* The steps after which a job still has the lock it had.
LEMMA AtIs ==
  ASSUME TypeOK, NEW p \in Process, NEW s
  PROVE  /\ [run[p] EXCEPT !.at = s].job = run[p].job
         /\ [run[p] EXCEPT !.at = s].at = s
  BY DEF TypeOK, Job

LEMMA OpenedIs ==
  ASSUME TypeOK, NEW p \in Process
  PROVE  /\ Opened(p).job = run[p].job /\ Opened(p).ids = run[p].ids
         /\ Opened(p).batch = run[p].batch /\ Opened(p).db = db
         /\ Opened(p).at = IF run[p].job = "embed" THEN "fetch" ELSE "files"
  BY DEF Opened, TypeOK, Job

LEMMA HeldJob ==
  ASSUME TypeOK, LockHeld, NEW p \in Process, JobStep(p)
  PROVE  LockHeld'
<1>. USE DEF Holding
<1>1. CASE TakeLock(p)
  <2>1. CASE lock = Free
    <3>1. /\ lock' = p /\ \A q \in Process : q # p => run'[q] = run[q]
          /\ run'[p] = Opened(p)
      BY <1>1, <2>1 DEF TakeLock, Set, TypeOK
    <3>2. Opened(p).at # "open"
      BY OpenedIs
    <3>. QED  BY <2>1, <3>1, <3>2, FreeAssumption DEF LockHeld
  <2>2. CASE lock # Free
    BY <1>1, <2>2, HeldExit DEF TakeLock
  <2>. QED  BY <2>1, <2>2
<1>2. CASE OpenDetached(p)
  <2>1. /\ run[p].job = "embed" /\ Set(p, Opened(p)) /\ UNCHANGED lock
    BY <1>2 DEF OpenDetached, LockHeld
  <2>. QED  BY <2>1, OpenedIs, HeldStep
<1>3. CASE SyncFiles(p) \/ ReindexCode(p) \/ Target(p) \/ Fetch(p)
  <2>1. run[p].at \in Holding /\ UNCHANGED lock
    BY <1>3 DEF SyncFiles, ReindexCode, Target, Fetch
  <2>2. \E r : Set(p, r) /\ r.job = run[p].job /\ r.at # "open"
    <3>1. CASE SyncFiles(p)
      <4>. DEFINE r == [run[p] EXCEPT !.ids = Outdated(Knowledge),
                             !.at = IF run[p].job = "index" THEN "target" ELSE "code"]
      <4>1. Set(p, r)
        BY <1>3, <3>1 DEF SyncFiles
      <4>2. r.job = run[p].job /\ r.at # "open"
        BY DEF TypeOK, Job
      <4>. HIDE DEF r
      <4>. QED  BY <4>1, <4>2
    <3>2. CASE ReindexCode(p)
      <4>. DEFINE r == [run[p] EXCEPT !.ids = @ \cup Outdated(Code),
                             !.at = IF run[p].job = "index" THEN "target" ELSE "cochange"]
      <4>1. Set(p, r)
        BY <1>3, <3>2 DEF ReindexCode
      <4>2. r.job = run[p].job /\ r.at # "open"
        BY DEF TypeOK, Job
      <4>. HIDE DEF r
      <4>. QED  BY <4>1, <4>2
    <3>3. CASE Target(p)
      <4>. DEFINE r == [run[p] EXCEPT !.at = "fetch",
                             !.ids = IF Fresh(p) THEN EmbedTargets(@, run[p].space) ELSE @]
      <4>1. Set(p, r)
        BY <1>3, <3>3 DEF Target
      <4>2. r.job = run[p].job /\ r.at # "open"
        BY DEF TypeOK, Job
      <4>. HIDE DEF r
      <4>. QED  BY <4>1, <4>2
    <3>4. CASE Fetch(p)
      <4>. DEFINE r == [run[p] EXCEPT
                  !.batch = IF Fresh(p) THEN [e \in {e \in run[p].ids : row[e] # NoRow} |-> row[e]]
                            ELSE [e \in run[p].ids |-> 0],
                  !.at = IF run[p].job = "embed" THEN "code_embed" ELSE "embed"]
      <4>1. Set(p, r)
        BY <1>3, <3>4 DEF Fetch
      <4>2. r.job = run[p].job /\ r.at # "open"
        BY DEF TypeOK, Job
      <4>. HIDE DEF r
      <4>. QED  BY <4>1, <4>2
    <3>. QED  BY <1>3, <3>1, <3>2, <3>3, <3>4
  <2>. QED  BY <2>1, <2>2, HeldStep
<1>4. CASE Cochange(p) \/ EmbedKnowledge(p) \/ StoreKnowledge(p)
  <2>1. run[p].at \in Holding
    BY <1>4 DEF Cochange, EmbedKnowledge, StoreKnowledge
  <2>2. ASSUME NEW s, Goto(p, s), s # "open", UNCHANGED lock PROVE LockHeld'
    BY <2>1, <2>2, AtIs, HeldStep DEF Goto
  <2>. QED  BY <1>4, <2>2, HeldExit DEF Cochange, EmbedKnowledge, StoreKnowledge
<1>5. CASE EmbedCodeInline(p) \/ StoreCode(p)
  <2>1. run[p].at \in Holding
    BY <1>5 DEF EmbedCodeInline, StoreCode
  <2>2. CASE Goto(p, "code_store") /\ UNCHANGED lock
    BY <2>1, <2>2, AtIs, HeldStep DEF Goto
  <2>3. CASE EndPass(p)
    <3>1. CASE Exit(p)
      BY <3>1, HeldExit
    <3>2. CASE ~Exit(p)
      <4>. DEFINE r == [run[p] EXCEPT !.at = "code", !.space = Code, !.ids = {}, !.batch = NoBatch]
      <4>1. Set(p, r) /\ UNCHANGED lock
        BY <2>3, <3>2 DEF EndPass
      <4>2. r.job = run[p].job /\ r.at # "open"
        BY DEF TypeOK, Job
      <4>. QED  BY <2>1, <4>1, <4>2, HeldStep
    <3>. QED  BY <3>1, <3>2
  <2>. QED  BY <1>5, <2>2, <2>3 DEF EmbedCodeInline, StoreCode
<1>6. CASE DropDatabase(p)
  BY <1>6, HeldExit DEF DropDatabase
<1>. QED  BY <1>1, <1>2, <1>3, <1>4, <1>5, <1>6 DEF JobStep

LEMMA HeldNext ==
  ASSUME TypeOK, LockHeld, [Next]_vars
  PROVE  LockHeld'
<1>1. ASSUME NEW e \in Entity, Edit(e) \/ SaveHook(e) PROVE LockHeld'
  BY <1>1 DEF Edit, SaveHook, SaveCanonical, SaveSource, Resync, LockHeld
<1>2. ASSUME NEW p \in Process, SpawnReindexBg(p) \/ RunIndex(p) PROVE LockHeld'
  BY <1>2, HeldStart DEF SpawnReindexBg, RunIndex, Idle, Holding
<1>3. ASSUME NEW p \in Process, StartReset(p) PROVE LockHeld'
  <2>1. lock = Free /\ lock' = p /\ \A q \in Process : q # p => run'[q] = run[q]
    BY <1>3 DEF StartReset, Start, Set, TypeOK
  <2>2. run'[p].at # "open"
    BY <1>3 DEF StartReset, Start, Set, TypeOK, Idle
  <2>. QED  BY <2>1, <2>2, FreeAssumption DEF LockHeld
<1>4. ASSUME NEW p \in Process, NEW e \in Knowledge, ToolWrite(p, e) PROVE LockHeld'
  BY <1>4, HeldStart DEF ToolWrite, Idle
<1>5. ASSUME NEW p \in Process, NEW q \in Process \ {p}, SpawnEmbedBg(p, q) PROVE LockHeld'
  <2>1. /\ \A o \in Process \ {p, q} : run'[o] = run[o]
        /\ run'[p] = Idle /\ run'[q].job = "embed"
        /\ lock' = IF lock = p THEN Free ELSE lock
    BY <1>5 DEF SpawnEmbedBg, Idle, TypeOK
  <2>. QED  BY <2>1 DEF LockHeld, Idle
<1>6. ASSUME NEW p \in Process, Kill(p) PROVE LockHeld'
  BY <1>6, HeldExit DEF Kill
<1>7. CASE ModelArrives \/ UNCHANGED vars
  BY <1>7 DEF ModelArrives, vars, LockHeld
<1>. QED  BY <1>1, <1>2, <1>3, <1>4, <1>5, <1>6, <1>7, HeldJob DEF Next

(***************************************************************************)
(* .bg.lock keeps a background reindex alone with the database: no second  *)
(* one works beside it and no reset deletes the database under it          *)
(* (bg_lock.rs:15, commands/mod.rs:402), whatever is killed.  Each of them *)
(* holds the lock, which has one holder.                                   *)
(***************************************************************************)
THEOREM WorkerIsAlone == Spec => []ReindexIsAlone
<1>1. Init => LockHeld
  BY DEF Init, LockHeld, Idle
<1>2. LockHeld => ReindexIsAlone
  BY DEF LockHeld, ReindexIsAlone
<1>. QED  BY <1>1, <1>2, HeldNext, TypeCorrect, PTL DEF Spec

-----------------------------------------------------------------------------
(* Stale vectors.                                                          *)

Outdates(e, rw, vc) == rw[e] # NoRow /\ vc[e] \notin {NoVec, rw[e]}

\* Every stale vector is due: its entity was saved, or is among a job's ids.
Covered(ids, rw, vc, sv) ==
  \A e \in Entity : Outdates(e, rw, vc) => e \in sv \/ e \in ids

\* A job nobody disturbed has the rows it read, or a save has replaced them; it
\* has read all it is to embed, and has stored its knowledge before its code.
Current(r, rw, vc, sv, d) ==
  /\ r.at \notin {"lock", "open", "drop"} => r.db = d
  /\ r.at \in {"lock", "open", "files"} /\ r.job # "embed" => r.ids = {}
  /\ r.job = "embed" =>
       r.ids \subseteq Code /\ r.at \in {"lock", "open", "fetch", "code_embed", "code_store"}
  /\ r.at \in {"embed", "store", "code_embed", "code_store"} =>
       /\ \A e \in DOMAIN r.batch : r.batch[e] = rw[e] \/ e \in sv
       /\ \A e \in r.ids : rw[e] = NoRow \/ e \in DOMAIN r.batch \/ e \in sv
  /\ r.at \in {"code_embed", "code_store"} =>
       \A e \in Knowledge : Outdates(e, rw, vc) => e \in sv

Cause ==
  /\ \A p \in Process : ~IsActive(p) => run[p] = Idle
  /\ ~disturbed =>
       /\ \A p, q \in Process : IsActive(p) /\ IsActive(q) => p = q
       /\ \A p \in Process : IsActive(p) =>
            Current(run[p], row, vec, saved, db) /\ Covered(run[p].ids, row, vec, saved)
       /\ (\A p \in Process : ~IsActive(p)) => Covered({}, row, vec, saved)

\* The only job goes on.
LEMMA CauseStep ==
  ASSUME TypeOK, Cause, NEW p \in Process, IsActive(p), NEW r, r.job # "none", Set(p, r),
         disturbed => disturbed',
         ~disturbed' => Current(r, row', vec', saved', db') /\ Covered(r.ids, row', vec', saved')
  PROVE  Cause'
<1>1. run'[p] = r /\ \A q \in Process : q # p => run'[q] = run[q]
  BY DEF Set, TypeOK
<1>2. \A q \in Process : IsActive(q)' <=> IsActive(q)
  BY <1>1 DEF IsActive
<1>3. \A q \in Process : ~IsActive(q)' => run'[q] = Idle
  BY <1>1, <1>2 DEF Cause
<1>4. ASSUME ~disturbed'
      PROVE  \A q \in Process : IsActive(q)' => q = p
  BY <1>2, <1>4 DEF Cause
<1>. QED  BY <1>1, <1>2, <1>3, <1>4 DEF Cause

\* The only job ends.
LEMMA CauseExit ==
  ASSUME TypeOK, Cause, NEW p \in Process, IsActive(p), Set(p, Idle),
         disturbed => disturbed',
         ~disturbed' => Covered({}, row', vec', saved')
  PROVE  Cause'
<1>1. run'[p] = Idle /\ \A q \in Process : q # p => run'[q] = run[q]
  BY DEF Set, TypeOK
<1>2. \A q \in Process : IsActive(q)' => q # p /\ IsActive(q)
  BY <1>1 DEF IsActive, Idle
<1>3. \A q \in Process : ~IsActive(q)' => run'[q] = Idle
  BY <1>1 DEF Cause, IsActive
<1>4. ASSUME ~disturbed' PROVE \A q \in Process : ~IsActive(q)'
  BY <1>2, <1>4 DEF Cause
<1>. QED  BY <1>3, <1>4 DEF Cause

\* A job starts: it is the only one, or is disturbed.
LEMMA CauseStart ==
  ASSUME TypeOK, Cause, NEW p \in Process, NEW r, r.job # "none", Start(p, r),
         Covered({}, row, vec, saved) =>
           Current(r, row', vec', saved', db') /\ Covered(r.ids, row', vec', saved')
  PROVE  Cause'
<1>1. run[p] = Idle /\ run'[p] = r /\ \A q \in Process : q # p => run'[q] = run[q]
  BY DEF Start, Set, TypeOK
<1>2. \A q \in Process : IsActive(q)' <=> q = p \/ IsActive(q)
  BY <1>1 DEF IsActive
<1>3. \A q \in Process : ~IsActive(q)' => run'[q] = Idle
  BY <1>1, <1>2 DEF Cause
<1>4. ASSUME ~disturbed'
      PROVE  ~disturbed /\ \A q \in Process : ~IsActive(q)
  BY <1>4 DEF Start
<1>. QED  BY <1>1, <1>2, <1>3, <1>4 DEF Cause

\* Only rows and saves change, or nothing of interest does.
LEMMA CauseSame ==
  ASSUME TypeOK, Cause, UNCHANGED <<run, db>>, disturbed => disturbed',
         ~disturbed' =>
           /\ \A p \in Process : Current(run[p], row, vec, saved, db)
                                 => Current(run[p], row', vec', saved', db)
           /\ \A ids \in SUBSET Entity : Covered(ids, row, vec, saved)
                                        => Covered(ids, row', vec', saved')
  PROVE  Cause'
<1>1. \A p \in Process : IsActive(p)' <=> IsActive(p)
  BY DEF IsActive
<1>2. \A p \in Process : run[p].ids \in SUBSET Entity
  BY DEF TypeOK, Job
<1>. QED  BY <1>1, <1>2 DEF Cause

\* A job that has read nothing yet.
LEMMA CurrentNew ==
  ASSUME NEW r, r.ids = {}, r.job # "embed", r.at \in {"lock", "files", "drop"},
         r.at = "files" => r.db = db', NEW rw, NEW vc, NEW sv
  PROVE  Current(r, rw, vc, sv, db')
  BY DEF Current

LEMMA CauseBegin ==
  ASSUME TypeOK, Cause, NEW p \in Process, SpawnReindexBg(p) \/ RunIndex(p) \/ StartReset(p)
  PROVE  Cause'
<1>1. UNCHANGED <<row, vec, saved, db>>
  BY DEF SpawnReindexBg, RunIndex, StartReset
<1>2. ASSUME NEW r, Start(p, r), r.job \in {"reindex", "index", "reset"}, r.ids = {},
             r.at \in {"lock", "files", "drop"}, r.at = "files" => r.db = db
      PROVE  Cause'
  <2>1. Current(r, row', vec', saved', db')
    BY <1>1, <1>2, CurrentNew
  <2>2. r.job # "none"
    BY <1>2
  <2>. QED  BY <1>1, <1>2, <2>1, <2>2, CauseStart
<1>3. CASE SpawnReindexBg(p)
  <2>. DEFINE r == [Idle EXCEPT !.job = "reindex", !.at = "lock"]
  <2>1. Start(p, r)
    BY <1>3 DEF SpawnReindexBg
  <2>2. r.job = "reindex" /\ r.ids = {} /\ r.at = "lock"
    BY DEF Idle
  <2>. HIDE DEF r
  <2>. QED  BY <2>1, <2>2, <1>2
<1>4. CASE RunIndex(p)
  <2>. DEFINE r == [Idle EXCEPT !.job = "index", !.at = "files", !.db = db, !.space = Knowledge]
  <2>1. Start(p, r)
    BY <1>4 DEF RunIndex
  <2>2. r.job = "index" /\ r.ids = {} /\ r.at = "files" /\ r.db = db
    BY DEF Idle
  <2>. HIDE DEF r
  <2>. QED  BY <2>1, <2>2, <1>2
<1>5. CASE StartReset(p)
  <2>. DEFINE r == [Idle EXCEPT !.job = "reset", !.at = "drop"]
  <2>1. Start(p, r)
    BY <1>5 DEF StartReset
  <2>2. r.job = "reset" /\ r.ids = {} /\ r.at = "drop"
    BY DEF Idle
  <2>. HIDE DEF r
  <2>. QED  BY <2>1, <2>2, <1>2
<1>. QED  BY <1>3, <1>4, <1>5

LEMMA CauseWrite ==
  ASSUME TypeOK, Cause, NEW p \in Process, NEW e \in Knowledge, ToolWrite(p, e)
  PROVE  Cause'
<1>. DEFINE r == [Idle EXCEPT !.job = "tool", !.at = "embed", !.ids = {e},
                              !.batch = [x \in {e} |-> disk[e] + 1], !.space = {e}, !.db = db]
<1>1. Start(p, r)
  BY DEF ToolWrite
<1>2. /\ r.job = "tool" /\ r.at = "embed" /\ r.ids = {e} /\ r.db = db
      /\ r.batch = [x \in {e} |-> disk[e] + 1]
  BY DEF Idle
<1>. HIDE DEF r
<1>3. /\ e \in Entity /\ row' = [row EXCEPT ![e] = disk[e] + 1]
      /\ saved' = saved \ {e} /\ UNCHANGED <<vec, db>>
  BY DEF ToolWrite, Entity
<1>4. Current(r, row', vec', saved', db')
  BY <1>2, <1>3 DEF Current, TypeOK
<1>5. Covered({}, row, vec, saved) => Covered(r.ids, row', vec', saved')
  BY <1>2, <1>3 DEF Covered, Outdates, TypeOK
<1>. QED  BY <1>1, <1>2, <1>4, <1>5, CauseStart

LEMMA CauseSave ==
  ASSUME TypeOK, Cause, NEW e \in Entity, SaveHook(e)
  PROVE  Cause'
<1>1. /\ row' = [row EXCEPT ![e] = disk[e]] /\ saved' = saved \cup {e}
      /\ UNCHANGED <<vec, db, run, disturbed>>
  BY DEF SaveHook, SaveCanonical, SaveSource, Resync
<1>2. \A x \in Entity : row'[x] = row[x] \/ x \in saved'
  BY <1>1 DEF TypeOK
<1>3. \A x \in Entity : Outdates(x, row', vec') => Outdates(x, row, vec) \/ x \in saved'
  BY <1>1, <1>2 DEF Outdates
<1>4. ASSUME NEW p \in Process, Current(run[p], row, vec, saved, db)
      PROVE  Current(run[p], row', vec', saved', db)
  <2>1. DOMAIN run[p].batch \subseteq Entity /\ run[p].ids \subseteq Entity
    BY BatchIs, JobIs DEF TypeOK
  <2>2. Knowledge \subseteq Entity
    BY DEF Entity
  <2>. QED  BY <1>1, <1>2, <1>3, <1>4, <2>1, <2>2 DEF Current
<1>5. ASSUME NEW ids \in SUBSET Entity, Covered(ids, row, vec, saved)
      PROVE  Covered(ids, row', vec', saved')
  BY <1>1, <1>3, <1>5 DEF Covered
<1>. QED  BY <1>1, <1>4, <1>5, CauseSame

LEMMA CauseSpawn ==
  ASSUME TypeOK, Cause, NEW p \in Process, NEW q \in Process \ {p}, SpawnEmbedBg(p, q)
  PROVE  Cause'
<1>. DEFINE ids == DOMAIN run[p].batch \cap Code
<1>1. UNCHANGED <<row, vec, saved, db, disturbed>> /\ run[q] = Idle /\ run[p].at = "code_embed"
  BY DEF SpawnEmbedBg
<1>. DEFINE r == [Idle EXCEPT !.job = "embed",
                              !.at = IF run[p].job = "reindex" THEN "open" ELSE "lock",
                              !.ids = ids]
<1>2. /\ run' = [run EXCEPT ![p] = Idle, ![q] = r]
      /\ r.job = "embed" /\ r.at \in {"open", "lock"} /\ r.ids = ids
  <2>1. run' = [run EXCEPT ![p] = Idle, ![q] = r]
    BY DEF SpawnEmbedBg
  <2>2. r.job = "embed" /\ r.at \in {"open", "lock"} /\ r.ids = ids
    BY DEF Idle
  <2>. QED  BY <2>1, <2>2
<1>. HIDE DEF r
<1>3. /\ run'[p] = Idle /\ run'[q] = r
      /\ \A o \in Process \ {p, q} : run'[o] = run[o]
  BY <1>2 DEF TypeOK
<1>4. IsActive(p)
  BY <1>1 DEF Cause, Idle
<1>5. ASSUME NEW o \in Process
      PROVE  IsActive(o)' <=> o = q \/ (o # p /\ IsActive(o))
  <2>1. Idle.job = "none" /\ p # q
    BY DEF Idle
  <2>. QED  BY <1>2, <1>3, <2>1 DEF IsActive
<1>6. \A o \in Process : ~IsActive(o)' => run'[o] = Idle
  BY <1>3, <1>5 DEF Cause
<1>7. ASSUME ~disturbed'
      PROVE  /\ \A o \in Process : IsActive(o)' => o = q
             /\ Current(r, row', vec', saved', db') /\ Covered(r.ids, row', vec', saved')
  <2>1. Current(run[p], row, vec, saved, db) /\ Covered(run[p].ids, row, vec, saved)
    BY <1>1, <1>4, <1>7 DEF Cause
  <2>2. \A o \in Process : IsActive(o)' => o = q
    BY <1>1, <1>4, <1>5, <1>7 DEF Cause
  <2>3. Current(r, row', vec', saved', db')
    BY <1>2 DEF Current
  <2>4. ASSUME NEW e \in Entity, Outdates(e, row, vec), e \notin saved
        PROVE  e \in ids
    <3>1. e \in Code
      BY <1>1, <2>1, <2>4 DEF Current, Entity
    <3>2. e \in DOMAIN run[p].batch
      BY <1>1, <2>1, <2>4 DEF Current, Covered, Outdates
    <3>. QED  BY <3>1, <3>2
  <2>. QED  BY <1>1, <1>2, <2>2, <2>3, <2>4 DEF Covered
<1>. QED  BY <1>3, <1>5, <1>6, <1>7 DEF Cause
\* A job at a step is the only one, if nobody was disturbed.
LEMMA CauseHere ==
  ASSUME TypeOK, Cause, NEW p \in Process, run[p].at # "idle"
  PROVE  /\ IsActive(p)
         /\ ~disturbed => Current(run[p], row, vec, saved, db)
                          /\ Covered(run[p].ids, row, vec, saved)
<1>1. IsActive(p)
  BY DEF Cause, Idle
<1>. QED  BY <1>1 DEF Cause

\* A job moves on with what it has.
LEMMA GotoIs ==
  ASSUME TypeOK, NEW p \in Process, NEW s, NEW r, r = [run[p] EXCEPT !.at = s]
  PROVE  /\ r.job = run[p].job /\ r.at = s /\ r.ids = run[p].ids
         /\ r.batch = run[p].batch /\ r.db = run[p].db
  BY DEF TypeOK, Job

LEMMA CauseOpen ==
  ASSUME TypeOK, Cause, LockHeld, NEW p \in Process, TakeLock(p) \/ OpenDetached(p)
  PROVE  Cause'
<1>1. run[p].at \in {"lock", "open"} /\ UNCHANGED <<row, vec, saved, db>>
      /\ (disturbed => disturbed')
  BY DEF TakeLock, OpenDetached
<1>2. IsActive(p) /\ (~disturbed => Current(run[p], row, vec, saved, db)
                                    /\ Covered(run[p].ids, row, vec, saved))
  BY <1>1, CauseHere
<1>3. CASE Set(p, Opened(p))
  <2>. DEFINE r == Opened(p)
  <2>1. /\ r.job = run[p].job /\ r.ids = run[p].ids /\ r.db = db
        /\ r.at = IF run[p].job = "embed" THEN "fetch" ELSE "files"
    BY OpenedIs
  <2>. HIDE DEF r
  <2>2. r.job # "none"
    BY <1>2, <2>1 DEF IsActive
  <2>3. ASSUME ~disturbed' PROVE Current(r, row', vec', saved', db')
    BY <1>1, <1>2, <2>1, <2>3 DEF Current
  <2>4. ASSUME ~disturbed' PROVE Covered(r.ids, row', vec', saved')
    BY <1>1, <1>2, <2>1, <2>4
  <2>. QED  BY <1>1, <1>2, <1>3, <2>2, <2>3, <2>4, CauseStep DEF r
<1>4. CASE TakeLock(p) /\ lock # Free
  BY <1>1, <1>2, <1>4, CauseExit DEF TakeLock, Exit
<1>. QED  BY <1>3, <1>4 DEF TakeLock, OpenDetached

\* A sync leaves what it changed to its own ids.
LEMMA SyncCovers ==
  ASSUME TypeOK, NEW p \in Process, NEW space \in SUBSET Entity, SyncSpace(p, space),
         Fresh(p), UNCHANGED vec, NEW ids, Covered(ids, row, vec, saved)
  PROVE  Covered(ids \cup Outdated(space), row', vec', saved')
<1>1. /\ row' = [e \in Entity |-> IF e \in space THEN disk[e] ELSE row[e]]
      /\ saved' = saved \ Outdated(space)
  BY DEF SyncSpace
<1>2. \A e \in Entity : row'[e] = row[e] \/ e \in Outdated(space)
  BY <1>1 DEF Outdated
<1>. QED  BY <1>1, <1>2 DEF Covered, Outdates

LEMMA CauseSync ==
  ASSUME TypeOK, Cause, NEW p \in Process, SyncFiles(p) \/ ReindexCode(p)
  PROVE  Cause'
<1>1. run[p].at \in {"files", "code"} /\ UNCHANGED <<vec, db, disturbed>>
  BY DEF SyncFiles, ReindexCode
<1>2. IsActive(p) /\ (~disturbed => Current(run[p], row, vec, saved, db)
                                    /\ Covered(run[p].ids, row, vec, saved))
  BY <1>1, CauseHere
<1>3. ASSUME NEW r, Set(p, r), NEW space \in SUBSET Entity, SyncSpace(p, space),
             r.job = run[p].job, r.db = run[p].db, r.at \in {"code", "target", "cochange"},
             r.ids = run[p].ids \cup Outdated(space)
      PROVE  Cause'
  <2>1. ASSUME ~disturbed'
        PROVE  Current(r, row', vec', saved', db') /\ Covered(r.ids, row', vec', saved')
    <3>1. Fresh(p) /\ run[p].job # "embed"
      BY <1>1, <1>2, <2>1 DEF Fresh, Current
    <3>2. Current(r, row', vec', saved', db')
      BY <1>1, <1>3, <3>1 DEF Current, Fresh
    <3>3. Covered(r.ids, row', vec', saved')
      BY <1>1, <1>2, <1>3, <2>1, <3>1, SyncCovers
    <3>. QED  BY <3>2, <3>3
  <2>2. r.job # "none"
    BY <1>2, <1>3 DEF IsActive
  <2>. QED  BY <1>1, <1>2, <1>3, <2>1, <2>2, CauseStep
<1>4. CASE SyncFiles(p)
  <2>. DEFINE r == [run[p] EXCEPT !.ids = Outdated(Knowledge),
                      !.at = IF run[p].job = "index" THEN "target" ELSE "code"]
  <2>1. Set(p, r) /\ SyncSpace(p, Knowledge) /\ run[p].at = "files"
    BY <1>4 DEF SyncFiles
  <2>2. /\ r.job = run[p].job /\ r.db = run[p].db /\ r.at \in {"code", "target"}
        /\ r.ids = Outdated(Knowledge)
    BY DEF TypeOK, Job
  <2>. HIDE DEF r
  <2>3. Knowledge \in SUBSET Entity
    BY DEF Entity
  <2>4. ASSUME ~disturbed
        PROVE  r.ids = run[p].ids \cup Outdated(Knowledge)
    <3>1. run[p].job # "embed" /\ run[p].ids = {}
      BY <1>2, <2>1, <2>4 DEF Current
    <3>. QED  BY <2>2, <3>1
  <2>5. CASE disturbed
    <3>1. r.job # "none"
      BY <1>2, <2>2 DEF IsActive
    <3>. QED  BY <1>1, <1>2, <2>1, <2>5, <3>1, CauseStep
  <2>6. CASE ~disturbed
    BY <1>3, <2>1, <2>2, <2>3, <2>4, <2>6
  <2>. QED  BY <2>5, <2>6
<1>5. CASE ReindexCode(p)
  <2>. DEFINE r == [run[p] EXCEPT !.ids = @ \cup Outdated(Code),
                      !.at = IF run[p].job = "index" THEN "target" ELSE "cochange"]
  <2>1. Set(p, r) /\ SyncSpace(p, Code)
    BY <1>5 DEF ReindexCode
  <2>2. /\ r.job = run[p].job /\ r.db = run[p].db /\ r.at \in {"target", "cochange"}
        /\ r.ids = run[p].ids \cup Outdated(Code)
    BY DEF TypeOK, Job
  <2>. HIDE DEF r
  <2>3. Code \in SUBSET Entity
    BY DEF Entity
  <2>. QED  BY <1>3, <2>1, <2>2, <2>3
<1>. QED  BY <1>4, <1>5

\* The rows, the vectors and the saves stay; the job goes on, or is disturbed.
LEMMA CauseGoto ==
  ASSUME TypeOK, Cause, NEW p \in Process, run[p].at # "idle", NEW s, Goto(p, s),
         UNCHANGED <<row, vec, saved, db>>, disturbed => disturbed',
         NEW r, r = [run[p] EXCEPT !.at = s],
         ~disturbed' => Current(r, row, vec, saved, db)
  PROVE  Cause'
<1>1. /\ r.job = run[p].job /\ r.ids = run[p].ids
  BY GotoIs
<1>2. IsActive(p) /\ (~disturbed => Covered(run[p].ids, row, vec, saved))
  BY CauseHere
<1>3. r.job # "none" /\ Set(p, r)
  BY <1>1, <1>2 DEF IsActive, Goto
<1>. QED  BY <1>1, <1>2, <1>3, CauseStep

LEMMA CauseCochange ==
  ASSUME TypeOK, Cause, NEW p \in Process, Cochange(p)
  PROVE  Cause'
<1>1. run[p].at = "cochange" /\ UNCHANGED <<row, vec, saved, db>>
  BY DEF Cochange
<1>2. IsActive(p) /\ (~disturbed => Current(run[p], row, vec, saved, db))
  BY <1>1, CauseHere
<1>3. CASE Goto(p, "target") /\ UNCHANGED disturbed
  <2>. DEFINE r == [run[p] EXCEPT !.at = "target"]
  <2>1. r.job = run[p].job /\ r.at = "target" /\ r.ids = run[p].ids /\ r.db = run[p].db
    BY GotoIs
  <2>. HIDE DEF r
  <2>2. ASSUME ~disturbed' PROVE Current(r, row, vec, saved, db)
    BY <1>1, <1>2, <1>3, <2>1, <2>2 DEF Current
  <2>. QED  BY <1>1, <1>3, <2>2, CauseGoto DEF r
<1>4. CASE Fault /\ Exit(p)
  BY <1>1, <1>2, <1>4, CauseExit DEF Exit, Fault
<1>. QED  BY <1>3, <1>4 DEF Cochange

LEMMA CauseTarget ==
  ASSUME TypeOK, Cause, NEW p \in Process, Target(p)
  PROVE  Cause'
<1>. DEFINE r == [run[p] EXCEPT !.at = "fetch",
                    !.ids = IF Fresh(p) THEN EmbedTargets(@, run[p].space) ELSE @]
<1>1. run[p].at = "target" /\ UNCHANGED <<row, vec, saved, db, disturbed>> /\ Set(p, r)
  BY DEF Target
<1>2. IsActive(p) /\ (~disturbed => Current(run[p], row, vec, saved, db)
                                    /\ Covered(run[p].ids, row, vec, saved))
  BY <1>1, CauseHere
<1>3. /\ r.job = run[p].job /\ r.at = "fetch" /\ r.db = run[p].db
      /\ run[p].ids \subseteq r.ids
  BY DEF TypeOK, Job, EmbedTargets
<1>. HIDE DEF r
<1>4. ASSUME ~disturbed' PROVE Current(r, row', vec', saved', db')
  BY <1>1, <1>2, <1>3, <1>4 DEF Current
<1>5. ASSUME ~disturbed' PROVE Covered(r.ids, row', vec', saved')
  BY <1>1, <1>2, <1>3, <1>5 DEF Covered
<1>6. r.job # "none"
  BY <1>2, <1>3 DEF IsActive
<1>. QED  BY <1>1, <1>2, <1>4, <1>5, <1>6, CauseStep

LEMMA CauseFetch ==
  ASSUME TypeOK, Cause, NEW p \in Process, Fetch(p)
  PROVE  Cause'
<1>. DEFINE found == {e \in run[p].ids : row[e] # NoRow}
            b == IF Fresh(p) THEN [e \in found |-> row[e]] ELSE [e \in run[p].ids |-> 0]
            r == [run[p] EXCEPT !.batch = b,
                    !.at = IF run[p].job = "embed" THEN "code_embed" ELSE "embed"]
<1>1. run[p].at = "fetch" /\ UNCHANGED <<row, vec, saved, db, disturbed>> /\ Set(p, r)
  BY DEF Fetch
<1>2. IsActive(p) /\ (~disturbed => Current(run[p], row, vec, saved, db)
                                    /\ Covered(run[p].ids, row, vec, saved))
  BY <1>1, CauseHere
<1>3. /\ r.job = run[p].job /\ r.db = run[p].db /\ r.ids = run[p].ids /\ r.batch = b
      /\ r.at = IF run[p].job = "embed" THEN "code_embed" ELSE "embed"
  BY DEF TypeOK, Job
<1>. HIDE DEF r
<1>4. ASSUME ~disturbed' PROVE Current(r, row', vec', saved', db')
  <2>1. Fresh(p)
    BY <1>1, <1>2, <1>4 DEF Fresh, Current
  <2>2. DOMAIN r.batch = found /\ \A e \in found : r.batch[e] = row[e]
    BY <1>3, <2>1
  <2>3. ASSUME run[p].job = "embed", NEW e \in Knowledge, Outdates(e, row, vec)
        PROVE  e \in saved
    <3>1. e \in Entity /\ e \notin Code
      BY EntityAssumption DEF Entity
    <3>. QED  BY <1>1, <1>2, <1>4, <2>3, <3>1 DEF Current, Covered
  <2>4. CASE run[p].job = "embed"
    <3>1. r.at = "code_embed" /\ r.ids \subseteq Code
      BY <1>1, <1>2, <1>3, <1>4, <2>4 DEF Current
    <3>. QED  BY <1>1, <1>2, <1>3, <1>4, <2>2, <2>3, <2>4, <3>1 DEF Current
  <2>5. CASE run[p].job # "embed"
    BY <1>1, <1>2, <1>3, <1>4, <2>2, <2>5 DEF Current
  <2>. QED  BY <2>4, <2>5
<1>5. ASSUME ~disturbed' PROVE Covered(r.ids, row', vec', saved')
  BY <1>1, <1>2, <1>3, <1>5
<1>6. r.job # "none"
  BY <1>2, <1>3 DEF IsActive
<1>. QED  BY <1>1, <1>2, <1>4, <1>5, <1>6, CauseStep

LEMMA CauseEmbed ==
  ASSUME TypeOK, Cause, NEW p \in Process, EmbedKnowledge(p)
  PROVE  Cause'
<1>1. run[p].at = "embed" /\ UNCHANGED <<row, vec, saved, db>> /\ (disturbed => disturbed')
  BY DEF EmbedKnowledge, Fault
<1>2. IsActive(p) /\ (~disturbed => Current(run[p], row, vec, saved, db))
  BY <1>1, CauseHere
<1>3. CASE Goto(p, "store") /\ UNCHANGED disturbed
  <2>. DEFINE r == [run[p] EXCEPT !.at = "store"]
  <2>1. /\ r.job = run[p].job /\ r.at = "store" /\ r.ids = run[p].ids
        /\ r.batch = run[p].batch /\ r.db = run[p].db
    BY GotoIs
  <2>. HIDE DEF r
  <2>2. ASSUME ~disturbed' PROVE Current(r, row, vec, saved, db)
    BY <1>1, <1>2, <1>3, <2>1, <2>2 DEF Current
  <2>. QED  BY <1>1, <1>3, <2>2, CauseGoto DEF r
<1>4. CASE Goto(p, "code_embed") /\ disturbed'
  BY <1>1, <1>4, CauseGoto
<1>. QED  BY <1>3, <1>4 DEF EmbedKnowledge, Fault

\* What a store leaves stale was saved meanwhile, or is of the other space.
LEMMA StoreIs ==
  ASSUME TypeOK, NEW p \in Process, NEW space \in SUBSET Entity, StoreEmbeddings(p, space),
         Fresh(p), UNCHANGED row, Covered(run[p].ids, row, vec, saved),
         \A e \in DOMAIN run[p].batch : run[p].batch[e] = row[e] \/ e \in saved,
         \A e \in run[p].ids : row[e] = NoRow \/ e \in DOMAIN run[p].batch \/ e \in saved
  PROVE  /\ \A e \in space : Outdates(e, row', vec') => e \in saved'
         /\ \A e \in Entity \ space : vec'[e] = vec[e] /\ (e \in saved <=> e \in saved')
         /\ \A e \in DOMAIN run[p].batch : run[p].batch[e] = row'[e] \/ e \in saved'
         /\ \A e \in run[p].ids : row'[e] = NoRow \/ e \in DOMAIN run[p].batch \/ e \in saved'
<1>. DEFINE b == run[p].batch
            stored == DOMAIN b \cap space
<1>1. /\ vec' = [e \in Entity |-> IF e \in stored THEN b[e] ELSE vec[e]]
      /\ saved' = saved \ {e \in stored : b[e] = row[e]}
  BY DEF StoreEmbeddings
<1>2. ASSUME NEW e \in space, Outdates(e, row', vec') PROVE e \in saved'
  <2>1. CASE e \in stored
    <3>1. vec'[e] = b[e] /\ b[e] # row[e] /\ e \in saved
      BY <1>1, <1>2, <2>1 DEF Outdates
    <3>. QED  BY <1>1, <3>1
  <2>2. CASE e \notin stored
    <3>1. Outdates(e, row, vec) /\ e \notin DOMAIN b
      BY <1>1, <1>2, <2>2 DEF Outdates
    <3>. QED  BY <1>1, <3>1, <2>2 DEF Covered, Outdates
  <2>. QED  BY <2>1, <2>2
<1>3. ASSUME NEW e \in Entity \ space PROVE vec'[e] = vec[e] /\ (e \in saved <=> e \in saved')
  BY <1>1
<1>4. ASSUME NEW e \in DOMAIN b PROVE b[e] = row'[e] \/ e \in saved'
  BY <1>1
<1>5. ASSUME NEW e \in run[p].ids PROVE row'[e] = NoRow \/ e \in DOMAIN b \/ e \in saved'
  BY <1>1
<1>. QED  BY <1>2, <1>3, <1>4, <1>5

LEMMA CauseStore ==
  ASSUME TypeOK, Cause, NEW p \in Process, StoreKnowledge(p)
  PROVE  Cause'
<1>. DEFINE r == [run[p] EXCEPT !.at = "code_embed"]
<1>1. /\ run[p].at = "store" /\ UNCHANGED <<row, db, disturbed>> /\ StoreEmbeddings(p, Knowledge)
      /\ Set(p, r)
  BY DEF StoreKnowledge, Goto
<1>2. IsActive(p) /\ (~disturbed => Current(run[p], row, vec, saved, db)
                                    /\ Covered(run[p].ids, row, vec, saved))
  BY <1>1, CauseHere
<1>3. /\ r.job = run[p].job /\ r.at = "code_embed" /\ r.ids = run[p].ids
      /\ r.batch = run[p].batch /\ r.db = run[p].db
  BY GotoIs
<1>. HIDE DEF r
<1>4. ASSUME ~disturbed'
      PROVE  Current(r, row', vec', saved', db') /\ Covered(r.ids, row', vec', saved')
  <2>1. /\ Fresh(p) /\ run[p].job # "embed" /\ Covered(run[p].ids, row, vec, saved)
        /\ \A e \in DOMAIN run[p].batch : run[p].batch[e] = row[e] \/ e \in saved
        /\ \A e \in run[p].ids : row[e] = NoRow \/ e \in DOMAIN run[p].batch \/ e \in saved
    BY <1>1, <1>2, <1>4 DEF Current, Fresh
  <2>2. Knowledge \in SUBSET Entity
    BY DEF Entity
  <2>3. /\ \A e \in Knowledge : Outdates(e, row', vec') => e \in saved'
        /\ \A e \in Entity \ Knowledge : vec'[e] = vec[e] /\ (e \in saved <=> e \in saved')
        /\ \A e \in DOMAIN run[p].batch : run[p].batch[e] = row'[e] \/ e \in saved'
        /\ \A e \in run[p].ids : row'[e] = NoRow \/ e \in DOMAIN run[p].batch \/ e \in saved'
    BY <1>1, <2>1, <2>2, StoreIs
  <2>4. Current(r, row', vec', saved', db')
    BY <1>1, <1>3, <2>1, <2>3 DEF Current, Fresh
  <2>5. Covered(r.ids, row', vec', saved')
    BY <1>1, <1>3, <2>1, <2>3 DEF Covered, Outdates
  <2>. QED  BY <2>4, <2>5
<1>5. r.job # "none"
  BY <1>2, <1>3 DEF IsActive
<1>. QED  BY <1>1, <1>2, <1>4, <1>5, CauseStep

\* A pass ends with nothing left to do; an index goes on with the source files.
LEMMA CauseEnd ==
  ASSUME TypeOK, Cause, NEW p \in Process, run[p].at \in {"code_embed", "code_store"},
         EndPass(p), UNCHANGED <<row, db>>, disturbed => disturbed',
         ~disturbed' => Covered({}, row', vec', saved')
  PROVE  Cause'
<1>1. IsActive(p) /\ (~disturbed => Current(run[p], row, vec, saved, db))
  BY CauseHere
<1>2. CASE Exit(p)
  BY <1>1, <1>2, CauseExit DEF Exit
<1>3. CASE ~Exit(p)
  <2>. DEFINE r == [run[p] EXCEPT !.at = "code", !.space = Code, !.ids = {}, !.batch = NoBatch]
  <2>1. Set(p, r) /\ run[p].job = "index"
    BY <1>3 DEF EndPass
  <2>2. r.job = run[p].job /\ r.at = "code" /\ r.ids = {} /\ r.db = run[p].db
    BY DEF TypeOK, Job
  <2>. HIDE DEF r
  <2>3. ASSUME ~disturbed' PROVE Current(r, row', vec', saved', db')
    BY <1>1, <2>1, <2>2, <2>3 DEF Current
  <2>. QED  BY <1>1, <2>1, <2>2, <2>3, CauseStep
<1>. QED  BY <1>2, <1>3

LEMMA CauseCode ==
  ASSUME TypeOK, Cause, NEW p \in Process, EmbedCodeInline(p) \/ StoreCode(p)
  PROVE  Cause'
<1>1. /\ run[p].at \in {"code_embed", "code_store"} /\ UNCHANGED <<row, db>>
      /\ (disturbed => disturbed')
  BY DEF EmbedCodeInline, StoreCode, Fault
<1>2. IsActive(p) /\ (~disturbed => Current(run[p], row, vec, saved, db)
                                    /\ Covered(run[p].ids, row, vec, saved))
  BY <1>1, CauseHere
<1>3. CASE EmbedCodeInline(p)
  <2>. DEFINE due == DOMAIN run[p].batch \cap Code # {}
  <2>1. UNCHANGED <<vec, saved>>
    BY <1>3 DEF EmbedCodeInline
  <2>2. CASE Goto(p, "code_store") /\ UNCHANGED disturbed
    <3>. DEFINE r == [run[p] EXCEPT !.at = "code_store"]
    <3>1. /\ r.job = run[p].job /\ r.at = "code_store" /\ r.ids = run[p].ids
          /\ r.batch = run[p].batch /\ r.db = run[p].db
      BY GotoIs
    <3>. HIDE DEF r
    <3>2. ASSUME ~disturbed' PROVE Current(r, row, vec, saved, db)
      BY <1>1, <1>2, <2>2, <3>1, <3>2 DEF Current
    <3>3. run[p].at # "idle"
      BY <1>1
    <3>. QED  BY <1>1, <2>1, <2>2, <3>2, <3>3, CauseGoto DEF r
  <2>3. CASE ~due /\ EndPass(p) /\ UNCHANGED disturbed
    <3>1. ASSUME ~disturbed', NEW e \in Entity, Outdates(e, row, vec)
          PROVE  e \in saved
      <4>1. CASE e \in Knowledge
        BY <1>1, <1>2, <2>3, <3>1, <4>1 DEF Current
      <4>2. CASE e \in Code
        BY <1>1, <1>2, <2>3, <3>1, <4>2 DEF Current, Covered, Outdates
      <4>. QED  BY <4>1, <4>2 DEF Entity
    <3>. QED  BY <1>1, <2>1, <2>3, <3>1, CauseEnd DEF Covered
  <2>4. CASE EndPass(p) /\ disturbed'
    BY <1>1, <2>4, CauseEnd
  <2>. QED  BY <1>3, <2>2, <2>3, <2>4 DEF EmbedCodeInline, Fault
<1>4. CASE StoreCode(p)
  <2>1. UNCHANGED disturbed /\ EndPass(p) /\ StoreEmbeddings(p, Code) /\ run[p].at = "code_store"
    BY <1>4 DEF StoreCode
  <2>2. ASSUME ~disturbed', NEW e \in Entity, Outdates(e, row', vec')
        PROVE  e \in saved'
    <3>1. /\ Fresh(p) /\ Covered(run[p].ids, row, vec, saved)
          /\ \A x \in DOMAIN run[p].batch : run[p].batch[x] = row[x] \/ x \in saved
          /\ \A x \in run[p].ids : row[x] = NoRow \/ x \in DOMAIN run[p].batch \/ x \in saved
          /\ \A x \in Knowledge : Outdates(x, row, vec) => x \in saved
      BY <1>2, <2>1, <2>2 DEF Current, Fresh
    <3>2. Code \in SUBSET Entity
      BY DEF Entity
    <3>3. /\ \A x \in Code : Outdates(x, row', vec') => x \in saved'
          /\ \A x \in Entity \ Code : vec'[x] = vec[x] /\ (x \in saved <=> x \in saved')
      BY <1>1, <2>1, <3>1, <3>2, StoreIs
    <3>4. CASE e \in Code
      BY <2>2, <3>3, <3>4
    <3>5. CASE e \notin Code
      <4>1. e \in Knowledge
        BY <3>5 DEF Entity
      <4>. QED  BY <1>1, <2>2, <3>1, <3>3, <3>5, <4>1 DEF Outdates
    <3>. QED  BY <3>4, <3>5
  <2>. QED  BY <1>1, <2>1, <2>2, CauseEnd DEF Covered
<1>. QED  BY <1>3, <1>4

LEMMA CauseDrop ==
  ASSUME TypeOK, Cause, NEW p \in Process, DropDatabase(p)
  PROVE  Cause'
<1>1. /\ run[p].at # "idle" /\ row' = [e \in Entity |-> NoRow] /\ UNCHANGED disturbed
      /\ Set(p, Idle)
  BY DEF DropDatabase, Exit
<1>2. Covered({}, row', vec', saved')
  BY <1>1 DEF Covered, Outdates
<1>. QED  BY <1>1, <1>2, CauseHere, CauseExit

LEMMA CauseNext ==
  ASSUME TypeOK, LockHeld, Cause, [Next]_vars
  PROVE  Cause'
<1>1. ASSUME NEW p \in Process, JobStep(p) PROVE Cause'
  BY <1>1, CauseOpen, CauseSync, CauseCochange, CauseTarget, CauseFetch, CauseEmbed,
     CauseStore, CauseCode, CauseDrop DEF JobStep
<1>2. ASSUME NEW p \in Process, Kill(p) PROVE Cause'
  BY <1>2, CauseExit DEF Kill, Fault, Exit
<1>3. ASSUME NEW e \in Entity, Edit(e) PROVE Cause'
  BY <1>3, CauseSame DEF Edit
<1>4. CASE ModelArrives \/ UNCHANGED vars
  BY <1>4, CauseSame DEF ModelArrives, vars
<1>. QED  BY <1>1, <1>2, <1>3, <1>4, CauseSave, CauseBegin, CauseWrite, CauseSpawn DEF Next

(***************************************************************************)
(* A vector of an older content is there only because a save hook synced   *)
(* the entity without embedding it, because a pass that is to embed it is  *)
(* on its way, or because a job failed, was refused or ran beside another  *)
(* (embed_sync.rs, cli_embed.rs:22).  A pass nobody disturbed has the      *)
(* database to itself from its sync to its last store, so whatever is      *)
(* stale is among its ids until it has stored it.                          *)
(***************************************************************************)
THEOREM StaleVectorsAreDue == Spec => []StaleVectorHasCause
<1>1. Init => LockHeld /\ Cause
  <2>1. Init => LockHeld
    BY DEF Init, LockHeld, Idle
  <2>2. Init => Cause
    BY DEF Init, Cause, IsActive, Idle, Covered, Outdates
  <2>. QED  BY <2>1, <2>2
<1>2. TypeOK /\ Cause => StaleVectorHasCause
  <2>. SUFFICES ASSUME TypeOK, Cause, NEW e \in Entity, Stale(e), ~disturbed
                PROVE  e \in saved \/ \E p \in Process : e \in run[p].ids
    BY DEF StaleVectorHasCause
  <2>1. Outdates(e, row, vec)
    BY DEF Stale, Outdates
  <2>. QED  BY <2>1 DEF Cause, Covered
<1>. QED  BY <1>1, <1>2, CauseNext, HeldNext, TypeCorrect, PTL DEF Spec
=============================================================================
