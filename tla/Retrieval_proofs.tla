------------------------- MODULE Retrieval_proofs -------------------------
(***************************************************************************)
(* Theorems about what answers a query: ModelRuntime, for any number of    *)
(* tool calls, downloading processes, chunks and faults; the operators of  *)
(* Ranking, for every list of scored items; Search and ContextPack, for    *)
(* any entities, links, scores, queries, budgets and settings.             *)
(***************************************************************************)
EXTENDS ModelRuntime, ContextPack, FiniteSetTheorems, TLAPS

-----------------------------------------------------------------------------
(* The model runtime.                                                      *)

\* A call in progress has chunks left.
Working == \A t \in Thread : pc[t] # "idle" => left[t] # 0

\* The steps of ORT_INIT: one call takes them, and copies only what it verified.
InitSteps == {"find_lib", "fetch", "verify", "copy", "copying", "init"}
Installing ==
  \A t \in Thread : pc[t] \in InitSteps =>
    /\ ort = "running"
    /\ \A u \in Thread : pc[u] \in InitSteps => u = t
    /\ pc[t] \in {"copy", "copying"} => archive = "good"

-----------------------------------------------------------------------------
(* Type correctness.                                                       *)

LEMMA TypeInit == Init => TypeOK /\ Working
<1>. SUFFICES ASSUME Init PROVE TypeOK /\ Working
  OBVIOUS
<1>1. model \in Lookup
  BY RegistryAssumption DEF Init
<1>2. wanted \in BOOLEAN
  BY Zenon DEF Init, Configured
<1>3. pc \in [Thread -> Steps] /\ pull \in [Puller -> PullSteps]
  BY DEF Init, Steps, PullSteps
<1>4. left \in [Thread -> 0 .. MaxChunks]
  BY ChunksAssumption DEF Init
<1>5. again \in [Thread -> BOOLEAN]
  BY DEF Init
<1>. QED
  BY <1>1, <1>2, <1>3, <1>4, <1>5 DEF Init, TypeOK, Working

\* A thread goes on to a step.
LEMMA MoveType ==
  ASSUME TypeOK, Working, NEW t \in Thread, pc[t] # "idle",
         NEW s \in Steps, s # "idle", Move(t, s)
  PROVE  /\ pc' \in [Thread -> Steps] /\ left' \in [Thread -> 0 .. MaxChunks]
         /\ again' \in [Thread -> BOOLEAN] /\ overlapped' \in BOOLEAN
         /\ Working'
<1>1. pc' \in [Thread -> Steps]
  BY DEF Move, Goto, TypeOK
<1>2. Working'
  BY DEF Move, Goto, TypeOK, Working
<1>. QED  BY <1>1, <1>2 DEF Move, TypeOK

\* A call is over.
LEMMA ReturnType ==
  ASSUME TypeOK, Working, NEW t \in Thread, Return(t)
  PROVE  /\ pc' \in [Thread -> Steps] /\ left' \in [Thread -> 0 .. MaxChunks]
         /\ again' \in [Thread -> BOOLEAN] /\ overlapped' \in BOOLEAN
         /\ Working'
<1>1. pc' \in [Thread -> Steps] /\ again' \in [Thread -> BOOLEAN]
  BY DEF Return, Goto, TypeOK, Steps
<1>2. left' \in [Thread -> 0 .. MaxChunks]
  BY ChunksAssumption DEF Return, TypeOK
<1>3. Working'
  BY DEF Return, Goto, TypeOK, Working
<1>. QED  BY <1>1, <1>2, <1>3 DEF Return, TypeOK

LEMMA TypeCall ==
  ASSUME TypeOK, Working, NEW t \in Thread, Call(t)
  PROVE  TypeOK' /\ Working'
<1>1. PICK n \in 1 .. (IF model.kind = "nli" THEN 1 ELSE MaxChunks) :
        left' = [left EXCEPT ![t] = n]
  BY DEF Call
<1>2. n \in 0 .. MaxChunks /\ n # 0
  BY ChunksAssumption
<1>. QED
  BY <1>1, <1>2 DEF Call, Goto, TypeOK, Working, Steps, setup, disk, library, loaded

\* Looking at what is loaded, reaping it.
LEMMA TypeReap ==
  ASSUME TypeOK, Working, NEW t \in Thread,
         \/ SeesSession(t) \/ SeesAge(t) \/ SeesConfigured(t)
         \/ DropSession(t) \/ DropTokenizer(t) \/ SeesMemory(t)
  PROVE  TypeOK' /\ Working'
<1>. USE MoveType, ReturnType DEF setup, disk, library, loaded, TypeOK
<1>. {"age", "configured", "drop_session", "drop_tokenizer", "memory", "acquire", "ort"} \subseteq Steps
  BY DEF Steps
<1>1. CASE SeesSession(t)
  BY <1>1 DEF SeesSession
<1>2. CASE SeesAge(t)
  BY <1>2 DEF SeesAge
<1>3. CASE SeesConfigured(t)
  BY <1>3 DEF SeesConfigured
<1>4. CASE DropSession(t)
  <2>1. session' \in BOOLEAN
    BY <1>4, Zenon DEF DropSession
  <2>2. Move(t, "drop_tokenizer") /\ pc[t] # "idle"
    BY <1>4 DEF DropSession
  <2>3. UNCHANGED <<setup, disk, library, tokenizer, tracker, guard, pull>>
    BY <1>4 DEF DropSession
  <2>. QED  BY <2>1, <2>2, <2>3
<1>5. CASE DropTokenizer(t)
  <2>1. tokenizer' \in BOOLEAN
    BY <1>5, Zenon DEF DropTokenizer
  <2>2. \E s \in {"memory", "configured"} : Move(t, s) /\ pc[t] # "idle"
    BY <1>5 DEF DropTokenizer
  <2>3. UNCHANGED <<setup, disk, library, session, tracker, guard, pull>>
    BY <1>5 DEF DropTokenizer
  <2>. QED  BY <2>1, <2>2, <2>3
<1>6. CASE SeesMemory(t)
  BY <1>6 DEF SeesMemory, Fault
<1>. QED  BY <1>1, <1>2, <1>3, <1>4, <1>5, <1>6

\* The shared library.
LEMMA TypeOrt ==
  ASSUME TypeOK, Working, Installing, NEW t \in Thread,
         \/ EnsureOrt(t) \/ FindLib(t) \/ FetchArchive(t) \/ VerifyArchive(t)
         \/ StartCopy(t) \/ FinishCopy(t) \/ InitOrt(t)
  PROVE  TypeOK' /\ Working'
<1>. USE MoveType, ReturnType DEF setup, disk, loaded, OrtVerdict
<1>. {"find_lib", "fetch", "verify", "copy", "copying", "init", "files"} \subseteq Steps
  BY DEF Steps
<1>1. CASE EnsureOrt(t)
  BY <1>1 DEF EnsureOrt, TypeOK
<1>2. CASE FindLib(t)
  BY <1>2 DEF FindLib, TypeOK
<1>3. CASE FetchArchive(t)
  BY <1>3 DEF FetchArchive, Fault, TypeOK
<1>4. CASE VerifyArchive(t)
  BY <1>4 DEF VerifyArchive, TypeOK
<1>5. CASE StartCopy(t)
  BY <1>5 DEF StartCopy, TypeOK
<1>6. CASE FinishCopy(t)
  <2>1. archive = "good"
    BY <1>6 DEF FinishCopy, Installing, InitSteps
  <2>. QED  BY <1>6, <2>1 DEF FinishCopy, TypeOK
<1>7. CASE InitOrt(t)
  BY <1>7 DEF InitOrt, TypeOK
<1>. QED  BY <1>1, <1>2, <1>3, <1>4, <1>5, <1>6, <1>7

\* Loading the files and running inference.
LEMMA TypeLoad ==
  ASSUME TypeOK, Working, NEW t \in Thread,
         \/ FindFiles(t) \/ SetSession(t) \/ SetTokenizer(t) \/ Touch(t)
         \/ Acquire(t) \/ Infer(t)
  PROVE  TypeOK' /\ Working'
<1>. USE MoveType, ReturnType DEF setup, disk, library
<1>. {"set_session", "set_tokenizer", "touch", "acquire", "infer", "check", "idle"} \subseteq Steps
  BY DEF Steps
<1>1. CASE FindFiles(t)
  BY <1>1 DEF FindFiles, loaded, TypeOK
<1>2. CASE SetSession(t)
  <2>1. session' \in BOOLEAN
    BY <1>2, Zenon DEF SetSession, TypeOK
  <2>2. pc[t] # "idle" /\ (Move(t, "set_tokenizer") \/ Return(t))
    BY <1>2 DEF SetSession
  <2>3. UNCHANGED <<setup, disk, library, tokenizer, tracker, guard, pull>>
    BY <1>2 DEF SetSession
  <2>. QED  BY <2>1, <2>2, <2>3 DEF TypeOK
<1>3. CASE SetTokenizer(t)
  <2>1. tokenizer' \in BOOLEAN
    BY <1>3, Zenon DEF SetTokenizer
  <2>2. pc[t] # "idle" /\ Move(t, "touch")
    BY <1>3 DEF SetTokenizer
  <2>3. UNCHANGED <<setup, disk, library, session, tracker, guard, pull>>
    BY <1>3 DEF SetTokenizer
  <2>. QED  BY <2>1, <2>2, <2>3 DEF TypeOK
<1>4. CASE Touch(t)
  BY <1>4 DEF Touch, TypeOK
<1>5. CASE Acquire(t)
  <2>. USE <1>5 DEF loaded
  <2>1. CASE Move(t, "infer") /\ guard' = t
    BY <2>1 DEF Acquire, TypeOK
  <2>2. CASE Return(t) /\ UNCHANGED guard
    BY <2>2 DEF Acquire, TypeOK
  <2>3. CASE again' = [again EXCEPT ![t] = TRUE] /\ Goto(t, "check") /\ UNCHANGED <<guard, left, overlapped>>
    <3>1. again' \in [Thread -> BOOLEAN]
      BY <2>3 DEF TypeOK
    <3>2. pc' \in [Thread -> Steps] /\ Working'
      BY <2>3 DEF Acquire, Goto, TypeOK, Working
    <3>. QED  BY <2>3, <3>1, <3>2 DEF Acquire, TypeOK
  <2>. QED  BY <2>1, <2>2, <2>3 DEF Acquire
<1>6. CASE Infer(t)
  <2>1. left[t] \in 1 .. MaxChunks
    BY <1>6, ChunksAssumption DEF Infer, TypeOK, Working
  <2>2. left' \in [Thread -> 0 .. MaxChunks]
    BY <1>6, <2>1, ChunksAssumption DEF Infer, TypeOK
  <2>3. again' \in [Thread -> BOOLEAN]
    BY <1>6 DEF Infer, TypeOK
  <2>4. pc' \in [Thread -> Steps]
    BY <1>6 DEF Infer, Goto, TypeOK
  <2>5. Working'
    BY <1>6, <2>1, ChunksAssumption DEF Infer, Goto, TypeOK, Working
  <2>. QED  BY <1>6, <2>2, <2>3, <2>4, <2>5 DEF Infer, loaded, TypeOK
<1>. QED  BY <1>1, <1>2, <1>3, <1>4, <1>5, <1>6

\* Other processes, time, the death of the server.
LEMMA TypeOthers ==
  ASSUME TypeOK, Working,
         \/ \E p \in Puller : \/ StartPull(p) \/ PullFile(p) \/ Unlink(p)
                              \/ Link(p) \/ PeerInstall(p) \/ KillPull(p)
         \/ GrowStale \/ Restart
  PROVE  TypeOK' /\ Working'
<1>. USE DEF setup, disk, library, loaded, calls
<1>1. ASSUME NEW p \in Puller, StartPull(p) \/ PullFile(p) \/ KillPull(p)
      PROVE  TypeOK' /\ Working'
  <2>1. pull' \in [Puller -> PullSteps]
    BY <1>1 DEF StartPull, PullFile, KillPull, PullSteps, TypeOK
  <2>. QED  BY <1>1, <2>1 DEF StartPull, PullFile, KillPull, TypeOK, Working
<1>2. ASSUME NEW p \in Puller, Unlink(p) \/ Link(p)
      PROVE  TypeOK' /\ Working'
  <2>1. pull' \in [Puller -> PullSteps]
    BY <1>2 DEF Unlink, Link, PullSteps, TypeOK
  <2>2. flat' \in BOOLEAN
    BY <1>2, Zenon DEF Unlink, Link
  <2>. QED  BY <1>2, <2>1, <2>2 DEF Unlink, Link, TypeOK, Working
<1>3. ASSUME NEW p \in Puller, PeerInstall(p)
      PROVE  TypeOK' /\ Working'
  <2>1. pull' \in [Puller -> PullSteps]
    BY <1>3 DEF PeerInstall, PullSteps, TypeOK
  <2>. QED  BY <1>3, <2>1 DEF PeerInstall, TypeOK, Working
<1>4. CASE GrowStale
  BY <1>4 DEF GrowStale, TypeOK, Working
<1>5. CASE Restart
  <2>1. session' \in BOOLEAN /\ tokenizer' \in BOOLEAN /\ overlapped' \in BOOLEAN
    BY <1>5, Zenon DEF Restart
  <2>2. /\ pc' \in [Thread -> Steps] /\ left' \in [Thread -> 0 .. MaxChunks]
        /\ again' \in [Thread -> BOOLEAN] /\ Working'
    BY <1>5, ChunksAssumption DEF Restart, Steps, Working
  <2>. QED  BY <1>5, <2>1, <2>2 DEF Restart, TypeOK
<1>. QED  BY <1>1, <1>2, <1>3, <1>4, <1>5

\* A call moves on outside the initializer.
LEMMA InstallingElsewhere ==
  ASSUME TypeOK, Installing, NEW t \in Thread, pc[t] \notin InitSteps,
         NEW s, pc' = [pc EXCEPT ![t] = s], s \notin InitSteps, UNCHANGED <<ort, archive>>
  PROVE  Installing'
  BY DEF TypeOK, Installing

\* The call in the initializer takes a step of it.
LEMMA InstallingStep ==
  ASSUME TypeOK, Installing, NEW t \in Thread, pc[t] \in InitSteps,
         NEW s, pc' = [pc EXCEPT ![t] = s], UNCHANGED ort,
         s \in {"copy", "copying"} => archive' = "good"
  PROVE  Installing'
  BY DEF TypeOK, Installing

\* The call in the initializer leaves it.
LEMMA InstallingOver ==
  ASSUME TypeOK, Installing, NEW t \in Thread, pc[t] \in InitSteps,
         NEW s, pc' = [pc EXCEPT ![t] = s], s \notin InitSteps
  PROVE  Installing'
  BY DEF TypeOK, Installing

LEMMA InstallingNext ==
  ASSUME TypeOK, Installing, [Next]_vars
  PROVE  Installing'
<1>. USE DEF InitSteps
<1>1. ASSUME NEW t \in Thread, Call(t)
      PROVE  Installing'
  BY <1>1, InstallingElsewhere DEF Call, Goto, library
<1>2. ASSUME NEW t \in Thread,
             \/ SeesSession(t) \/ SeesAge(t) \/ SeesConfigured(t) \/ DropSession(t)
             \/ DropTokenizer(t) \/ SeesMemory(t) \/ FindFiles(t) \/ SetSession(t)
             \/ SetTokenizer(t) \/ Touch(t) \/ Acquire(t) \/ Infer(t)
      PROVE  Installing'
  <2>1. /\ pc[t] \notin InitSteps /\ UNCHANGED <<ort, archive>>
        /\ \E s \in Steps \ InitSteps : Goto(t, s)
    BY <1>2 DEF SeesSession, SeesAge, SeesConfigured, DropSession, DropTokenizer, SeesMemory,
                FindFiles, SetSession, SetTokenizer, Touch, Acquire, Infer, Move, Return,
                library, Steps
  <2>. QED  BY <2>1, InstallingElsewhere DEF Goto
<1>3. ASSUME NEW t \in Thread, EnsureOrt(t)
      PROVE  Installing'
  <2>1. CASE ort = "unset"
    <3>1. \A u \in Thread : pc[u] \notin InitSteps
      BY <2>1 DEF Installing
    <3>. QED  BY <1>3, <2>1, <3>1 DEF EnsureOrt, Move, Goto, Installing, TypeOK
  <2>2. CASE ort # "unset"
    BY <1>3, <2>2, InstallingElsewhere DEF EnsureOrt, Move, Return, Goto
  <2>. QED  BY <2>1, <2>2
<1>4. ASSUME NEW t \in Thread, FindLib(t) \/ FetchArchive(t) \/ VerifyArchive(t) \/ InitOrt(t)
      PROVE  Installing'
  <2>1. CASE OrtVerdict(t, "ok") \/ OrtVerdict(t, "failed")
    <3>1. pc[t] \in InitSteps /\ \E s \in {"files", "idle"} : Goto(t, s)
      BY <1>4, <2>1
      DEF FindLib, FetchArchive, VerifyArchive, InitOrt, OrtVerdict, Move, Return
    <3>. QED  BY <3>1, InstallingOver DEF Goto
  <2>2. CASE ~(OrtVerdict(t, "ok") \/ OrtVerdict(t, "failed"))
    BY <1>4, <2>2, InstallingStep
    DEF FindLib, FetchArchive, VerifyArchive, InitOrt, Move, Goto, loaded
  <2>. QED  BY <2>1, <2>2
<1>5. ASSUME NEW t \in Thread, StartCopy(t)
      PROVE  Installing'
  BY <1>5, InstallingStep DEF StartCopy, Move, Goto, Installing
<1>6. ASSUME NEW t \in Thread, FinishCopy(t)
      PROVE  Installing'
  BY <1>6, InstallingStep DEF FinishCopy, Move, Goto
<1>7. ASSUME NEW p \in Puller,
             \/ StartPull(p) \/ PullFile(p) \/ Unlink(p)
             \/ Link(p) \/ PeerInstall(p) \/ KillPull(p)
      PROVE  Installing'
  <2>1. UNCHANGED <<pc, ort, archive>>
    BY <1>7 DEF StartPull, PullFile, Unlink, Link, PeerInstall, KillPull, calls, library
  <2>. QED  BY <2>1 DEF Installing
<1>8. CASE GrowStale \/ UNCHANGED vars
  <2>1. UNCHANGED <<pc, ort, archive>>
    BY <1>8 DEF GrowStale, vars, calls, library
  <2>. QED  BY <2>1 DEF Installing
<1>9. CASE Restart
  BY <1>9 DEF Restart, Installing
<1>. QED
  BY <1>1, <1>2, <1>3, <1>4, <1>5, <1>6, <1>7, <1>8, <1>9 DEF Next, CallStep

LEMMA TypeNext ==
  ASSUME TypeOK, Working, Installing, [Next]_vars
  PROVE  TypeOK' /\ Working'
<1>1. CASE UNCHANGED vars
  BY <1>1 DEF vars, setup, disk, library, loaded, calls, TypeOK, Working
<1>2. CASE Next
  BY <1>2, TypeCall, TypeReap, TypeOrt, TypeLoad, TypeOthers DEF Next, CallStep
<1>. QED  BY <1>1, <1>2

(***************************************************************************)
(* Every variable keeps its type; with it, the library file at the final   *)
(* path only ever holds what a verified download or another installation   *)
(* put there, whole or still in the middle of its copy (runtime.rs).       *)
(***************************************************************************)
THEOREM TypeCorrect == Spec => [](TypeOK /\ Working /\ Installing)
<1>1. Init => Installing
  BY DEF Init, Installing, InitSteps
<1>. QED  BY <1>1, TypeInit, TypeNext, InstallingNext, PTL DEF Spec

-----------------------------------------------------------------------------
(* Downloads.                                                              *)

\* What a download has fetched when it comes to a step, and what is linked.
Needed == {OnnxFilename(model.layout), "tokenizer.json"}
Fetched ==
  /\ \A p \in Puller : /\ pull[p] = "tokenizer" => OnnxFilename(model.layout) \in files
                       /\ pull[p] \in {"config", "unlink", "link"} => Needed \subseteq files
  /\ flat => Needed \subseteq files

\* Each loader accepts what the registry has a download fetch for it.
LEMMA LoaderAccepts ==
  ASSUME NEW m \in Lookup
  PROVE  OnnxFilename(m.layout) \in IF m.kind = "nli" THEN NliOnnxFiles ELSE EmbeddingOnnxFiles
  BY DEF Lookup, OnnxFilename, NliOnnxFiles, EmbeddingOnnxFiles

LEMMA FetchedNext ==
  ASSUME TypeOK, Fetched, [Next]_vars
  PROVE  Fetched'
<1>. USE DEF setup, disk, library, loaded, calls
<1>1. ASSUME NEW t \in Thread, Call(t) \/ CallStep(t)
      PROVE  Fetched'
  <2>1. UNCHANGED <<model, files, flat, pull>>
    BY <1>1
    DEF Call, CallStep, SeesSession, SeesAge, SeesConfigured, DropSession, DropTokenizer,
        SeesMemory, EnsureOrt, FindLib, FetchArchive, VerifyArchive, StartCopy, FinishCopy,
        InitOrt, FindFiles, SetSession, SetTokenizer, Touch, Acquire, Infer
  <2>. QED  BY <2>1 DEF Fetched, Needed
<1>2. ASSUME NEW p \in Puller, PullFile(p)
      PROVE  Fetched'
  BY <1>2 DEF PullFile, Fetched, Needed, TypeOK
<1>3. ASSUME NEW p \in Puller, StartPull(p) \/ PeerInstall(p) \/ KillPull(p)
      PROVE  Fetched'
  <2>1. /\ UNCHANGED <<model, files, flat>>
        /\ \E s \in {"onnx", "lib_copy", "lib_copying", "idle"} : pull' = [pull EXCEPT ![p] = s]
    BY <1>3 DEF StartPull, PeerInstall, KillPull
  <2>. QED  BY <2>1 DEF Fetched, Needed, TypeOK
<1>4. ASSUME NEW p \in Puller, Unlink(p) \/ Link(p)
      PROVE  Fetched'
  <2>1. /\ UNCHANGED <<model, files>>
        /\ pull[p] \in {"unlink", "link"}
        /\ \E s \in {"link", "idle"} : pull' = [pull EXCEPT ![p] = s]
    BY <1>4 DEF Unlink, Link
  <2>2. Needed \subseteq files
    BY <2>1, Zenon DEF Fetched
  <2>3. Needed' \subseteq files' /\ OnnxFilename(model.layout)' \in files'
    BY <2>1, <2>2 DEF Needed
  <2>. QED  BY <2>3 DEF Fetched
<1>5. CASE GrowStale \/ Restart \/ UNCHANGED vars
  BY <1>5 DEF GrowStale, Restart, vars, Fetched, Needed
<1>. QED  BY <1>1, <1>2, <1>3, <1>4, <1>5 DEF Next

(***************************************************************************)
(* A linked model is loadable (download.rs:169, is_model_cached): whatever *)
(* downloads race, fail or are killed, and whatever the server does.  The  *)
(* files a download has behind it at each step are the strengthening.      *)
(***************************************************************************)
THEOREM LinkMeansLoadable == Spec => []LinkedIsLoadable
<1>1. Init => Fetched
  BY DEF Init, Fetched
<1>2. TypeOK /\ Fetched => LinkedIsLoadable
  BY LoaderAccepts DEF TypeOK, Fetched, Needed, LinkedIsLoadable, ModelFilesExist, OnnxFiles
<1>. QED  BY <1>1, <1>2, FetchedNext, TypeCorrect, PTL DEF Spec

-----------------------------------------------------------------------------
(* Session and tokenizer.                                                  *)

\* Until two calls overlap, one call at most is in progress, and a session
\* without a tokenizer is one that it has just set.
Alone ==
  ~overlapped =>
    /\ \A t, u \in Thread : pc[t] # "idle" /\ pc[u] # "idle" => t = u
    /\ Torn => \E t \in Thread : pc[t] = "set_tokenizer"
    /\ \A t \in Thread : pc[t] = "drop_tokenizer" => ~session

\* A step that leaves session and tokenizer as they are.
LEMMA AloneStep ==
  ASSUME TypeOK, Alone, NEW t \in Thread, pc[t] \notin {"idle", "set_tokenizer"},
         NEW s, pc' = [pc EXCEPT ![t] = s], s # "drop_tokenizer",
         UNCHANGED <<session, tokenizer, overlapped>>
  PROVE  Alone'
<1>1. \A u \in Thread : pc'[u] # "idle" => pc[u] # "idle"
  BY DEF TypeOK
<1>2. \A u \in Thread : pc[u] = "set_tokenizer" => pc'[u] = "set_tokenizer"
  BY DEF TypeOK
<1>3. \A u \in Thread : pc'[u] = "drop_tokenizer" => pc[u] = "drop_tokenizer"
  BY DEF TypeOK
<1>. QED  BY <1>1, <1>2, <1>3 DEF Alone, Torn

LEMMA AloneNext ==
  ASSUME TypeOK, Alone, [Next]_vars
  PROVE  Alone'
<1>. USE DEF setup, disk, library, loaded
<1>1. ASSUME NEW t \in Thread, Call(t)
      PROVE  Alone'
  <2>1. UNCHANGED <<session, tokenizer>> /\ pc[t] = "idle" /\ pc' = [pc EXCEPT ![t] = "check"]
    BY <1>1 DEF Call, Goto
  <2>2. CASE \E u \in Thread : pc[u] # "idle"
    BY <1>1, <2>2 DEF Call, Alone
  <2>3. CASE \A u \in Thread : pc[u] = "idle"
    <3>1. ~overlapped' => ~overlapped
      BY <1>1 DEF Call
    <3>2. ~overlapped' => ~Torn'
      BY <2>1, <2>3, <3>1 DEF Alone, Torn
    <3>3. \A u \in Thread : pc'[u] # "idle" => u = t /\ pc'[u] = "check"
      BY <2>1, <2>3 DEF TypeOK
    <3>. QED  BY <3>2, <3>3 DEF Alone
  <2>. QED  BY <2>2, <2>3
<1>2. ASSUME NEW t \in Thread,
             \/ SeesSession(t) \/ SeesMemory(t)
             \/ EnsureOrt(t) \/ FindLib(t) \/ FetchArchive(t) \/ VerifyArchive(t)
             \/ StartCopy(t) \/ FinishCopy(t) \/ InitOrt(t)
             \/ FindFiles(t) \/ Touch(t) \/ Acquire(t) \/ Infer(t)
      PROVE  Alone'
  <2>1. /\ pc[t] \notin {"idle", "set_tokenizer"} /\ UNCHANGED <<session, tokenizer, overlapped>>
        /\ \E s \in Steps \ {"drop_tokenizer"} : pc' = [pc EXCEPT ![t] = s]
    BY <1>2 DEF SeesSession, SeesMemory, EnsureOrt, FindLib, FetchArchive, VerifyArchive,
                StartCopy, FinishCopy, InitOrt, FindFiles, Touch, Acquire, Infer,
                OrtVerdict, Move, Return, Goto, Steps
  <2>. QED  BY <2>1, AloneStep
<1>3. ASSUME NEW t \in Thread, SeesAge(t) \/ SeesConfigured(t)
      PROVE  Alone'
  <2>1. /\ pc[t] \notin {"idle", "set_tokenizer"} /\ UNCHANGED <<session, tokenizer, overlapped>>
        /\ \E s \in Steps \ {"drop_tokenizer"} : pc' = [pc EXCEPT ![t] = s]
    BY <1>3 DEF SeesAge, SeesConfigured, Move, Return, Goto, Steps
  <2>. QED  BY <2>1, AloneStep
<1>4. ASSUME NEW t \in Thread, DropSession(t)
      PROVE  Alone'
  <2>1. /\ pc' = [pc EXCEPT ![t] = "drop_tokenizer"] /\ pc[t] # "idle"
        /\ session' = FALSE /\ UNCHANGED overlapped
    BY <1>4 DEF DropSession, Move, Goto
  <2>. QED  BY <2>1 DEF Alone, Torn, TypeOK
<1>5. ASSUME NEW t \in Thread, DropTokenizer(t)
      PROVE  Alone'
  <2>1. /\ pc[t] = "drop_tokenizer" /\ UNCHANGED <<session, overlapped>>
        /\ \E s \in {"memory", "configured"} : pc' = [pc EXCEPT ![t] = s]
    BY <1>5 DEF DropTokenizer, Move, Goto
  <2>. QED  BY <2>1 DEF Alone, Torn, TypeOK
<1>6. ASSUME NEW t \in Thread, SetSession(t)
      PROVE  Alone'
  <2>1. CASE Move(t, "set_tokenizer") /\ session' = TRUE
    <3>1. /\ pc[t] = "set_session" /\ pc' = [pc EXCEPT ![t] = "set_tokenizer"]
          /\ UNCHANGED overlapped
      BY <1>6, <2>1 DEF SetSession, Move, Goto
    <3>2. ~overlapped' => \A u \in Thread : u # t => pc'[u] = "idle"
      BY <3>1 DEF Alone, TypeOK
    <3>3. pc'[t] = "set_tokenizer"
      BY <3>1 DEF TypeOK
    <3>. QED  BY <3>2, <3>3 DEF Alone
  <2>2. CASE ~(Move(t, "set_tokenizer") /\ session' = TRUE)
    BY <1>6, <2>2, AloneStep DEF SetSession, Return, Goto
  <2>. QED  BY <2>1, <2>2
<1>7. ASSUME NEW t \in Thread, SetTokenizer(t)
      PROVE  Alone'
  <2>1. /\ pc[t] = "set_tokenizer" /\ pc' = [pc EXCEPT ![t] = "touch"]
        /\ tokenizer' = TRUE /\ UNCHANGED <<session, overlapped>>
    BY <1>7 DEF SetTokenizer, Move, Goto
  <2>. QED  BY <2>1 DEF Alone, Torn, TypeOK
<1>8. ASSUME NEW p \in Puller,
             \/ StartPull(p) \/ PullFile(p) \/ Unlink(p)
             \/ Link(p) \/ PeerInstall(p) \/ KillPull(p)
      PROVE  Alone'
  <2>1. UNCHANGED <<pc, session, tokenizer, overlapped>>
    BY <1>8 DEF StartPull, PullFile, Unlink, Link, PeerInstall, KillPull, calls
  <2>. QED  BY <2>1 DEF Alone, Torn
<1>9. CASE GrowStale \/ UNCHANGED vars
  <2>1. UNCHANGED <<pc, session, tokenizer, overlapped>>
    BY <1>9 DEF GrowStale, vars, calls
  <2>. QED  BY <2>1 DEF Alone, Torn
<1>10. CASE Restart
  BY <1>10 DEF Restart, Alone, Torn
<1>. QED
  BY <1>1, <1>2, <1>3, <1>4, <1>5, <1>6, <1>7, <1>8, <1>9, <1>10 DEF Next, CallStep

(***************************************************************************)
(* A session without a tokenizer stays behind only after two calls of the  *)
(* server overlapped (onnx.rs:283): no failed load, expired TTL or restart *)
(* tears a model that one call at a time uses.                             *)
(***************************************************************************)
THEOREM TearingTakesTwo == Spec => []TornNeedsOverlap
<1>1. Init => Alone
  BY DEF Init, Alone, Torn
<1>2. Alone => TornNeedsOverlap
  BY DEF Alone, TornNeedsOverlap
<1>. QED  BY <1>1, <1>2, AloneNext, TypeCorrect, PTL DEF Spec

-----------------------------------------------------------------------------
(* Induction over the numbers, as a statement about sets, and the ranks of a finite strict order. *)

\* What holds of 0 and of each successor holds of every number.
LEMMA NatInduct ==
  ASSUME NEW T, 0 \in T, \A n \in Nat : n \in T => n + 1 \in T
  PROVE  Nat \subseteq T
<1>1. SUFFICES ASSUME NEW m \in Nat, m \notin T PROVE FALSE
  OBVIOUS
<1> DEFINE R == {p \in Nat \X Nat : p[1] < p[2]}
           M == Nat \ T
<1>2. IsWellFoundedOn(R, Nat)
  BY NatLessThanWellFounded DEF OpToRel
<1>3. M \subseteq Nat /\ M # {}
  BY <1>1
<1>4. \E x \in M : \A y \in M : ~(<<y, x>> \in R)
  <2> HIDE DEF R, M
  <2>. QED  BY <1>2, <1>3, WFMin
<1>5. PICK x \in M : \A y \in M : ~(y < x)
  BY <1>4
<1>6. x = 0 \/ (x - 1 \in Nat /\ x - 1 \in T)
  BY <1>5
<1>. QED  BY <1>6, <1>5

\* A strict total order.
Orders(R, S) ==
  /\ \A x \in S : <<x, x>> \notin R
  /\ \A x, y, z \in S : <<x, y>> \in R /\ <<y, z>> \in R => <<x, z>> \in R
  /\ \A x, y \in S : x # y => <<x, y>> \in R \/ <<y, x>> \in R

Below(x, R, S) == {y \in S : <<y, x>> \in R}

\* What is below x is fewer than what is below a larger y.
LEMMA BelowGrows ==
  ASSUME NEW S, IsFiniteSet(S), NEW R, Orders(R, S), NEW x \in S
  PROVE  /\ Cardinality(Below(x, R, S)) \in 0 .. Cardinality(S) - 1
         /\ \A z \in S : <<x, z>> \in R => Cardinality(Below(x, R, S)) < Cardinality(Below(z, R, S))
<1>0. Cardinality(S) \in Nat
  BY FS_CardinalityType
<1>1. ASSUME NEW z \in S PROVE IsFiniteSet(Below(z, R, S)) /\ Cardinality(Below(z, R, S)) \in Nat
  <2>1. Below(z, R, S) \in SUBSET S
    BY DEF Below
  <2>. QED  BY <2>1, FS_Subset, FS_CardinalityType
<1>2. Below(x, R, S) \in SUBSET S /\ x \notin Below(x, R, S)
  BY DEF Below, Orders
<1>3. Cardinality(Below(x, R, S)) <= Cardinality(S) /\ Cardinality(Below(x, R, S)) # Cardinality(S)
  BY <1>2, FS_Subset
<1>4. ASSUME NEW z \in S, <<x, z>> \in R PROVE Cardinality(Below(x, R, S)) < Cardinality(Below(z, R, S))
  <2>1. Below(x, R, S) \in SUBSET Below(z, R, S) /\ x \in Below(z, R, S)
    BY <1>4 DEF Below, Orders
  <2>2. Cardinality(Below(x, R, S)) <= Cardinality(Below(z, R, S)) /\ Cardinality(Below(x, R, S)) # Cardinality(Below(z, R, S))
    BY <2>1, <1>1, <1>2, FS_Subset
  <2>. QED  BY <2>2, <1>1
<1>. QED  BY <1>0, <1>1, <1>3, <1>4

\* Ranks in a finite strict order are the numbers from 0 on.
LEMMA Ranks ==
  ASSUME NEW S, IsFiniteSet(S), NEW R, Orders(R, S)
  PROVE  \A n \in 1 .. Cardinality(S) : \E x \in S : Cardinality(Below(x, R, S)) = n - 1
<1> DEFINE N == Cardinality(S)
           f == [x \in S |-> Cardinality(Below(x, R, S)) + 1]
<1>0. N \in Nat
  BY FS_CardinalityType
<1>1. \A x \in S : Cardinality(Below(x, R, S)) \in 0 .. N - 1
  BY BelowGrows
<1>2. f \in [S -> 1 .. N]
  BY <1>0, <1>1
<1>3. ASSUME NEW x \in S, NEW z \in S, x # z PROVE f[x] # f[z]
  <2>1. <<x, z>> \in R \/ <<z, x>> \in R
    BY <1>3 DEF Orders
  <2>2. Cardinality(Below(x, R, S)) # Cardinality(Below(z, R, S))
    BY <2>1, <1>1, BelowGrows
  <2>. QED  BY <2>2, <1>1
<1>4. f \in Injection(S, 1 .. N)
  <2> HIDE DEF f
  <2>. QED  BY <1>2, <1>3 DEF Injection, IsInjective
<1>5. IsFiniteSet(1 .. N) /\ Cardinality(1 .. N) = N
  BY <1>0, FS_Interval
<1>6. f \in Surjection(S, 1 .. N)
  <2> HIDE DEF f
  <2>. QED  BY <1>4, <1>5, FS_Injection
<1>7. ASSUME NEW n \in 1 .. N PROVE \E x \in S : Cardinality(Below(x, R, S)) = n - 1
  <2>1. PICK x \in S : f[x] = n
    BY <1>6 DEF Surjection
  <2>. QED  BY <2>1, <1>1
<1>. QED  BY <1>7

\* order lists S as R does.
Lists(order, S, R) ==
  /\ order \in [1 .. Cardinality(S) -> S]
  /\ \A x \in S : \E n \in 1 .. Cardinality(S) : order[n] = x
  /\ \A i, j \in 1 .. Cardinality(S) : i < j => <<order[i], order[j]>> \in R /\ order[i] # order[j]

\* A finite strict order has a listing.
LEMMA Ordered ==
  ASSUME NEW S, IsFiniteSet(S), NEW R, Orders(R, S),
         NEW order, order = [n \in 1 .. Cardinality(S) |-> CHOOSE x \in S : Cardinality(Below(x, R, S)) = n - 1]
  PROVE  Lists(order, S, R)
<1> DEFINE N == Cardinality(S)
           card(x) == Cardinality(Below(x, R, S))
<1>0. N \in Nat
  BY FS_CardinalityType
<1>1. ASSUME NEW n \in 1 .. N PROVE order[n] \in S /\ card(order[n]) = n - 1
  BY Ranks
<1>2. order \in [1 .. N -> S]
  BY <1>1
<1>3. ASSUME NEW x \in S PROVE \E n \in 1 .. N : order[n] = x
  <2>1. card(x) \in 0 .. N - 1
    BY BelowGrows
  <2>2. card(x) + 1 \in 1 .. N /\ (card(x) + 1) - 1 = card(x)
    BY <2>1, <1>0
  <2>3. order[card(x) + 1] \in S /\ card(order[card(x) + 1]) = card(x)
    BY <2>2, <1>1
  <2>4. \A z \in S : z # x => card(z) # card(x)
    <3> SUFFICES ASSUME NEW z \in S, z # x PROVE card(z) # card(x)
      OBVIOUS
    <3>1. card(x) \in Int /\ card(z) \in Int
      BY BelowGrows, <1>0
    <3>2. <<x, z>> \in R \/ <<z, x>> \in R
      BY DEF Orders
    <3>3. card(x) < card(z) \/ card(z) < card(x)
      BY <3>2, BelowGrows
    <3> HIDE DEF card
    <3>. QED  BY <3>1, <3>3
  <2>. QED  BY <2>2, <2>3, <2>4
<1>4. ASSUME NEW i \in 1 .. N, NEW j \in 1 .. N, i < j PROVE <<order[i], order[j]>> \in R /\ order[i] # order[j]
  <2>1. card(order[i]) < card(order[j]) /\ order[i] \in S /\ order[j] \in S /\ card(order[i]) \in Int /\ card(order[j]) \in Int
    BY <1>1, <1>4, <1>0
  <2>2. ~(<<order[j], order[i]>> \in R)
    <3> SUFFICES ASSUME <<order[j], order[i]>> \in R PROVE FALSE
      OBVIOUS
    <3>1. card(order[j]) < card(order[i])
      BY <2>1, BelowGrows
    <3> HIDE DEF card
    <3>. QED  BY <3>1, <2>1
  <2>3. order[i] # order[j]
    <3> SUFFICES ASSUME order[i] = order[j] PROVE FALSE
      OBVIOUS
    <3>1. card(order[i]) = card(order[j])
      OBVIOUS
    <3> HIDE DEF card
    <3>. QED  BY <2>1, <3>1
  <2> HIDE DEF card
  <2>. QED  BY <2>1, <2>2, <2>3 DEF Orders
<1>. QED  BY <1>2, <1>3, <1>4 DEF Lists

-----------------------------------------------------------------------------
(* A finite set listed in order.                                           *)

\* Numbers in their order.
Rising(at, S) ==
  /\ at \in [1 .. Cardinality(S) -> S]
  /\ \A x \in S : \E n \in 1 .. Cardinality(S) : at[n] = x
  /\ \A i, j \in 1 .. Cardinality(S) : i < j => at[i] < at[j]

\* Ascending lists a finite set of numbers from the smallest up.
LEMMA Ascends ==
  ASSUME NEW S \in SUBSET Int, IsFiniteSet(S)
  PROVE  Rising(Ascending(S), S)
<1> DEFINE R == {p \in S \X S : p[1] < p[2]}
           order == Ascending(S)
<1>1. Orders(R, S)
  BY DEF Orders
<1>2. \A x \in S : {y \in S : y < x} = Below(x, R, S)
  BY DEF Below
<1>3. order = [n \in 1 .. Cardinality(S) |-> CHOOSE x \in S : Cardinality({y \in S : y < x}) = n - 1]
  BY DEF InOrder, Ascending
<1>4. order = [n \in 1 .. Cardinality(S) |-> CHOOSE x \in S : Cardinality(Below(x, R, S)) = n - 1]
  BY <1>2, <1>3
<1>5. Lists(order, S, R)
  <2> HIDE DEF R, order
  <2>. QED  BY <1>1, <1>4, Ordered
<1>6. Rising(order, S)
  <2> HIDE DEF order
  <2>. QED  BY <1>5 DEF Lists, Rising
<1>. QED  BY <1>6

\* Items with a score and an id.
Item(items) == \A x \in items : x.score \in Int /\ x.id \in Int
\* No two items have one id.
Single(items) == \A x, y \in items : x.id = y.id => x = y

\* Sorted lists a finite set of items in the order Better.
LEMMA SortedLists ==
  ASSUME NEW S, IsFiniteSet(S), Item(S), Single(S)
  PROVE  /\ Sorted(S) \in [1 .. Cardinality(S) -> S]
         /\ \A x \in S : \E n \in 1 .. Cardinality(S) : Sorted(S)[n] = x
         /\ \A i, j \in 1 .. Cardinality(S) : Sorted(S)[i] = Sorted(S)[j] => i = j
<1> DEFINE R == {p \in S \X S : Better(p[1], p[2])}
           order == Sorted(S)
<1>1. Orders(R, S)
  <2>1. \A x \in S : <<x, x>> \notin R
    BY DEF Better, Item
  <2>2. \A x, y, z \in S : <<x, y>> \in R /\ <<y, z>> \in R => <<x, z>> \in R
    BY DEF Better, Item
  <2>3. \A x, y \in S : x # y => <<x, y>> \in R \/ <<y, x>> \in R
    <3> SUFFICES ASSUME NEW x \in S, NEW y \in S, x # y PROVE <<x, y>> \in R \/ <<y, x>> \in R
      OBVIOUS
    <3>1. x.id # y.id /\ x.id \in Int /\ y.id \in Int /\ x.score \in Int /\ y.score \in Int
      BY DEF Item, Single
    <3>2. Better(x, y) \/ Better(y, x)
      BY <3>1 DEF Better
    <3>. QED  BY <3>2
  <2> HIDE DEF R
  <2>. QED  BY <2>1, <2>2, <2>3 DEF Orders
<1>2. \A x \in S : {y \in S : Better(y, x)} = Below(x, R, S)
  BY DEF Below
<1>3. order = [n \in 1 .. Cardinality(S) |-> CHOOSE x \in S : Cardinality({y \in S : Better(y, x)}) = n - 1]
  BY DEF InOrder, Sorted
<1>4. order = [n \in 1 .. Cardinality(S) |-> CHOOSE x \in S : Cardinality(Below(x, R, S)) = n - 1]
  BY <1>2, <1>3
<1>5. Lists(order, S, R) /\ Cardinality(S) \in Nat
  <2> HIDE DEF R, order
  <2>. QED  BY <1>1, <1>4, Ordered, FS_CardinalityType
<1>6. \A i, j \in 1 .. Cardinality(S) : order[i] = order[j] => i = j
  <2> HIDE DEF R, order
  <2> SUFFICES ASSUME NEW i \in 1 .. Cardinality(S), NEW j \in 1 .. Cardinality(S), i # j PROVE order[i] # order[j]
    OBVIOUS
  <2>1. i < j \/ j < i
    BY <1>5
  <2>. QED  BY <2>1, <1>5 DEF Lists
<1>. QED  BY <1>5, <1>6 DEF Lists

\* The places of s that hold a member of S.
Kept(s, S) == {i \in DOMAIN s : s[i] \in S}

\* Keep lists those places upwards.
LEMMA KeepLists ==
  ASSUME NEW T, NEW s \in Seq(T), NEW S
  PROVE  /\ IsFiniteSet(Kept(s, S)) /\ Cardinality(Kept(s, S)) \in Nat /\ Cardinality(Kept(s, S)) <= Len(s)
         /\ Kept(s, S) \subseteq 1 .. Len(s)
         /\ \E at : /\ Rising(at, Kept(s, S))
                    /\ Keep(s, S) = [n \in 1 .. Cardinality(Kept(s, S)) |-> s[at[n]]]
<1> DEFINE K == Kept(s, S)
           at == Ascending(K)
           m == Len(s)
<1>1. m \in Nat /\ K \in SUBSET (1 .. m)
  BY DEF Kept
<1>2. IsFiniteSet(1 .. m) /\ Cardinality(1 .. m) = m
  <2>1. m \in Nat /\ 1 \in Int /\ m \in Int
    BY <1>1
  <2> HIDE DEF m
  <2>2. IsFiniteSet(1 .. m) /\ Cardinality(1 .. m) = IF 1 > m THEN 0 ELSE m - 1 + 1
    BY <2>1, FS_Interval
  <2>. QED  BY <2>1, <2>2
<1>3. IsFiniteSet(K) /\ Cardinality(K) <= m /\ Cardinality(K) \in Nat
  <2> HIDE DEF K, m
  <2>1. IsFiniteSet(K) /\ Cardinality(K) <= m
    BY <1>1, <1>2, FS_Subset
  <2>. QED  BY <2>1, FS_CardinalityType
<1>4. Rising(at, K)
  <2>1. K \in SUBSET Int
    BY <1>1
  <2> HIDE DEF K
  <2>. QED  BY <2>1, <1>3, Ascends
<1>5. DOMAIN at = 1 .. Cardinality(K)
  BY DEF InOrder, Ascending
<1>6. Keep(s, S) = [n \in DOMAIN at |-> s[at[n]]]
  BY DEF Keep, Kept
<1>. HIDE DEF at, K
<1>7. \E a : Rising(a, K) /\ Keep(s, S) = [n \in 1 .. Cardinality(K) |-> s[a[n]]]
  BY <1>4, <1>5, <1>6
<1>. QED  BY <1>1, <1>3, <1>7 DEF K

-----------------------------------------------------------------------------
(* Lists of results, none of them twice.                                   *)

\* Two results never have one id.
Hit == [id : Id, chan : Channels, score : Int]
HitList(s) == s \in Seq(Hit) /\ \A i, j \in DOMAIN s : s[i].id = s[j].id => i = j

\* A function on 1 .. n is a sequence of length n.
LEMMA FcnIsSeq ==
  ASSUME NEW S, NEW n \in Nat, NEW s \in [1 .. n -> S]
  PROVE  s \in Seq(S) /\ Len(s) = n /\ DOMAIN s = 1 .. n
OBVIOUS

\* Keep gives the members of S in s, and repeats none if s repeats none.
LEMMA KeepIs ==
  ASSUME NEW T, NEW s \in Seq(T), NEW S
  PROVE  /\ Keep(s, S) \in Seq(T \cap S) /\ Len(Keep(s, S)) <= Len(s)
         /\ Range(Keep(s, S)) = Range(s) \cap S
         /\ (\A i, j \in DOMAIN s : s[i] = s[j] => i = j) =>
               \A i, j \in DOMAIN Keep(s, S) : Keep(s, S)[i] = Keep(s, S)[j] => i = j
<1> DEFINE K == Kept(s, S)
           n == Cardinality(K)
           k == Keep(s, S)
<1>1. n \in Nat /\ n <= Len(s)
  BY KeepLists
<1>2. PICK at : Rising(at, K) /\ k = [i \in 1 .. n |-> s[at[i]]]
  BY KeepLists
<1> HIDE DEF k
<1> USE DEF Kept
<1>3. at \in [1 .. n -> K]
  BY <1>2 DEF Rising
<1>4. k \in [1 .. n -> T \cap S]
  BY <1>2, <1>3
<1>5. k \in Seq(T \cap S) /\ Len(k) = n /\ DOMAIN k = 1 .. n
  <2> HIDE DEF n, k
  <2>. QED  BY <1>1, <1>4, FcnIsSeq
<1>6. Range(k) = Range(s) \cap S
  <2>1. ASSUME NEW x \in Range(k) PROVE x \in Range(s) \cap S
    <3>1. PICK i \in 1 .. n : x = s[at[i]]
      BY <1>2, <1>5 DEF Range
    <3>. QED  BY <3>1, <1>3 DEF Range
  <2>2. ASSUME NEW x \in Range(s) \cap S PROVE x \in Range(k)
    <3>1. PICK i \in K : x = s[i]
      BY DEF Range
    <3>2. PICK j \in 1 .. n : at[j] = i
      BY <1>2 DEF Rising
    <3>. HIDE DEF k, n, K
    <3>. QED  BY <3>1, <3>2, <1>2, <1>5 DEF Range
  <2>. QED  BY <2>1, <2>2
<1>7. ASSUME \A i, j \in DOMAIN s : s[i] = s[j] => i = j, NEW i \in DOMAIN k, NEW j \in DOMAIN k, k[i] = k[j] PROVE i = j
  <2>1. i \in 1 .. n /\ j \in 1 .. n /\ s[at[i]] = s[at[j]]
    BY <1>5, <1>7, <1>2
  <2>2. at[i] \in DOMAIN s /\ at[j] \in DOMAIN s
    BY <1>3, <2>1
  <2>3. at[i] = at[j]
    BY <2>1, <2>2, <1>7
  <2>4. i < j => at[i] < at[j]
    BY <2>1, <1>2 DEF Rising
  <2>5. j < i => at[j] < at[i]
    BY <2>1, <1>2 DEF Rising
  <2>6. at[i] \in Int /\ i \in Int /\ j \in Int
    BY <2>2, <2>1, <1>1
  <2> HIDE DEF n, k, K
  <2>. QED  BY <2>3, <2>4, <2>5, <2>6
<1>. HIDE DEF k, n
<1>8. Len(k) <= Len(s)
  BY <1>1, <1>5
<1>9. (\A i, j \in DOMAIN s : s[i] = s[j] => i = j) => \A i, j \in DOMAIN k : k[i] = k[j] => i = j
  BY <1>7
<1>. QED  BY <1>5, <1>6, <1>8, <1>9 DEF k

\* A prefix.
LEMMA TakeIs ==
  ASSUME NEW T, NEW s \in Seq(T), NEW n \in Nat
  PROVE  /\ Take(s, n) \in Seq(T) /\ Len(Take(s, n)) <= n /\ Len(Take(s, n)) <= Len(s)
         /\ \A i \in DOMAIN Take(s, n) : i \in DOMAIN s /\ Take(s, n)[i] = s[i]
         /\ Range(Take(s, n)) \subseteq Range(s)
<1>1. Take(s, n) \in Seq(T) /\ Len(Take(s, n)) = (IF n < Len(s) THEN n ELSE Len(s))
  BY DEF Take
<1>2. \A i \in DOMAIN Take(s, n) : i \in DOMAIN s /\ Take(s, n)[i] = s[i]
  BY DEF Take
<1>. QED  BY <1>1, <1>2 DEF Range

\* Sorted results are a list without repetition.
LEMMA SortedHits ==
  ASSUME NEW S \in SUBSET Hit, IsFiniteSet(S), Single(S)
  PROVE  HitList(Sorted(S)) /\ Range(Sorted(S)) = S
<1> DEFINE n == Cardinality(S)
<1>0. Id \subseteq Nat
  BY SearchAssumption
<1>1. Item(S)
  <2> SUFFICES ASSUME NEW x \in S PROVE x.score \in Int /\ x.id \in Int
    BY DEF Item
  <2>1. x \in [id : Id, chan : Channels, score : Int]
    BY DEF Hit
  <2>2. x.score \in Int /\ x.id \in Id
    BY <2>1
  <2>3. x.id \in Nat
    BY <2>2, <1>0
  <2>. QED  BY <2>2, <2>3
<1>2. n \in Nat
  BY FS_CardinalityType
<1>3. /\ Sorted(S) \in [1 .. n -> S]
      /\ \A x \in S : \E i \in 1 .. n : Sorted(S)[i] = x
      /\ \A i, j \in 1 .. n : Sorted(S)[i] = Sorted(S)[j] => i = j
  BY <1>1, SortedLists
<1>. HIDE DEF n
<1>4. Sorted(S) \in Seq(S) /\ DOMAIN Sorted(S) = 1 .. n
  BY <1>2, <1>3, FcnIsSeq
<1>5. Sorted(S) \in Seq(Hit)
  BY <1>4
<1>6. Range(Sorted(S)) = S
  BY <1>3, <1>4 DEF Range
<1>7. \A i, j \in 1 .. n : Sorted(S)[i].id = Sorted(S)[j].id => i = j
  BY <1>3 DEF Single
<1>. QED  BY <1>4, <1>5, <1>6, <1>7 DEF HitList

\* Demotion reorders a list, and adds nothing to it.
LEMMA DemotedIs ==
  ASSUME NEW s, HitList(s)
  PROVE  HitList(Demoted(s)) /\ Ids(Range(Demoted(s))) = Ids(Range(s))
<1> DEFINE d == Demoted(s)
<1>0. ASSUME NEW i \in DOMAIN s PROVE d[i] \in Hit /\ d[i].id = s[i].id
  <2>0. s[i] \in Hit
    BY DEF HitList
  <2>1. s[i] \in [id : Id, chan : Channels, score : Int]
    BY <2>0 DEF Hit
  <2>2. (s[i].score * 7) \div 10 \in Int /\ s[i].score \in Int
    BY <2>1
  <2>3. CASE s[i].id \in Drifted
    BY <2>1, <2>2, <2>3 DEF Demoted, Hit
  <2>4. CASE s[i].id \notin Drifted
    BY <2>1, <2>4 DEF Demoted, Hit
  <2>. QED  BY <2>3, <2>4
<1>1. DOMAIN d = DOMAIN s /\ \A i \in DOMAIN s : d[i] \in Hit /\ d[i].id = s[i].id
  BY <1>0 DEF Demoted
<1>2. d \in Seq(Hit)
  <2>1. DOMAIN s = 1 .. Len(s) /\ Len(s) \in Nat
    BY DEF HitList
  <2>2. d \in [1 .. Len(s) -> Hit]
    BY <1>1, <2>1 DEF Demoted
  <2> HIDE DEF d
  <2>. QED  BY <2>1, <2>2, FcnIsSeq
<1>. HIDE DEF d
<1>3. HitList(d)
  BY <1>1, <1>2 DEF HitList
<1>4. Ids(Range(d)) = Ids(Range(s))
  BY <1>1 DEF Ids, Range
<1>. QED  BY <1>3, <1>4 DEF d

-----------------------------------------------------------------------------
(* Recursive functions and sums.                                           *)

\* Induction up to a bound.
LEMMA BoundInduct ==
  ASSUME NEW T, NEW m \in Nat, 0 \in T, \A n \in 0 .. m - 1 : n \in T => n + 1 \in T
  PROVE  0 .. m \subseteq T
<1> DEFINE U == {n \in Nat : n <= m => n \in T}
<1>1. 0 \in U
  OBVIOUS
<1>2. \A n \in Nat : n \in U => n + 1 \in U
  <2> SUFFICES ASSUME NEW n \in Nat, n \in U, n + 1 <= m PROVE n + 1 \in T
    OBVIOUS
  <2>1. n \in 0 .. m - 1 /\ n \in T
    OBVIOUS
  <2>. QED  BY <2>1
<1>3. Nat \subseteq U
  <2> HIDE DEF U
  <2>. QED  BY <1>1, <1>2, NatInduct
<1>. QED  BY <1>3

\* f starts with a and goes on as step says, m times.
Unfolds(f, A, a, step, m) ==
  f \in [0 .. m -> A] /\ f[0] = a /\ \A n \in 1 .. m : f[n] = step[<<n, f[n - 1]>>]

\* A function that step defines along 0 .. m exists and stays in A.
LEMMA Recursion ==
  ASSUME NEW A, NEW a \in A, NEW step \in [Nat \X A -> A], NEW m \in Nat
  PROVE  \E f : Unfolds(f, A, a, step, m)
<1> DEFINE T == {n \in Nat : \E f : Unfolds(f, A, a, step, n)}
<1>1. 0 \in T
  <2>1. Unfolds([k \in 0 .. 0 |-> a], A, a, step, 0)
    BY DEF Unfolds
  <2>. QED  BY <2>1
<1>2. ASSUME NEW n \in Nat, n \in T PROVE n + 1 \in T
  <2>1. PICK f : Unfolds(f, A, a, step, n)
    BY <1>2
  <2> DEFINE g == [k \in 0 .. n + 1 |-> IF k <= n THEN f[k] ELSE step[<<n + 1, f[n]>>]]
  <2>2. f[n] \in A /\ step[<<n + 1, f[n]>>] \in A
    BY <2>1 DEF Unfolds
  <2>3. g \in [0 .. n + 1 -> A]
    <3> SUFFICES ASSUME NEW k \in 0 .. n + 1 PROVE (IF k <= n THEN f[k] ELSE step[<<n + 1, f[n]>>]) \in A
      OBVIOUS
    <3>. QED  BY <2>1, <2>2 DEF Unfolds
  <2>4. g[0] = a
    BY <2>1 DEF Unfolds
  <2>5. ASSUME NEW k \in 1 .. n + 1 PROVE g[k] = step[<<k, g[k - 1]>>]
    <3>1. CASE k <= n
      <4>1. k \in 1 .. n /\ k \in 0 .. n + 1 /\ k - 1 \in 0 .. n + 1 /\ k - 1 <= n
        BY <3>1
      <4>2. g[k] = f[k] /\ g[k - 1] = f[k - 1]
        BY <4>1, <3>1
      <4>. QED  BY <4>1, <4>2, <2>1 DEF Unfolds
    <3>2. CASE k > n
      <4>1. k = n + 1 /\ k - 1 = n /\ n \in 0 .. n + 1 /\ ~(k <= n)
        BY <3>2
      <4>. QED  BY <4>1
    <3>. QED  BY <3>1, <3>2
  <2>6. Unfolds(g, A, a, step, n + 1)
    <3> HIDE DEF g
    <3>. QED  BY <2>3, <2>4, <2>5 DEF Unfolds
  <2>. QED  BY <2>6
<1>3. Nat \subseteq T
  <2> HIDE DEF T
  <2>. QED  BY <1>1, <1>2, NatInduct
<1>. QED  BY <1>3

\* Running sums.
Sums(g, s) ==
  g \in [0 .. Len(s) -> Int] /\ g[0] = 0 /\ \A n \in 1 .. Len(s) : g[n] = g[n - 1] + s[n]

\* Total is the last of the running sums.
LEMMA TotalSums ==
  ASSUME NEW s \in Seq(Int)
  PROVE  \E g : Sums(g, s) /\ Total(s) = g[Len(s)]
<1> DEFINE m == Len(s)
           step == [p \in Nat \X Int |-> IF p[1] \in 1 .. m THEN p[2] + s[p[1]] ELSE 0]
           IsAcc(f) == f = [n \in 0 .. m |-> IF n = 0 THEN 0 ELSE f[n - 1] + s[n]]
           acc == CHOOSE f : IsAcc(f)
<1>0. m \in Nat
  OBVIOUS
<1>1. step \in [Nat \X Int -> Int]
  OBVIOUS
<1>2. PICK f : Unfolds(f, Int, 0, step, m)
  <2>1. 0 \in Int
    OBVIOUS
  <2> HIDE DEF step, m
  <2>. QED  BY <1>0, <1>1, <2>1, Recursion
<1>3. \A n \in 1 .. m : f[n] = f[n - 1] + s[n]
  <2> SUFFICES ASSUME NEW n \in 1 .. m PROVE f[n] = f[n - 1] + s[n]
    OBVIOUS
  <2>1. n - 1 \in 0 .. m /\ n \in Nat
    BY <1>0
  <2>2. f[n - 1] \in Int /\ f[n] = step[<<n, f[n - 1]>>]
    BY <2>1, <1>2 DEF Unfolds
  <2>. QED  BY <2>1, <2>2
<1>4. IsAcc(f)
  <2>1. \A n \in 0 .. m : f[n] = IF n = 0 THEN 0 ELSE f[n - 1] + s[n]
    <3> SUFFICES ASSUME NEW n \in 0 .. m PROVE f[n] = IF n = 0 THEN 0 ELSE f[n - 1] + s[n]
      OBVIOUS
    <3>1. CASE n = 0
      BY <3>1, <1>2 DEF Unfolds
    <3>2. CASE n # 0
      <4>1. n \in 1 .. m
        BY <3>2, <1>0
      <4>. QED  BY <4>1, <3>2, <1>3
    <3>. QED  BY <3>1, <3>2
  <2>2. f \in [0 .. m -> Int]
    BY <1>2 DEF Unfolds
  <2>. QED  BY <2>1, <2>2
<1>5. IsAcc(acc)
  <2> HIDE DEF IsAcc
  <2>. QED  BY <1>4
<1>6. Total(s) = acc[m]
  BY DEF Total, Fold
<1>. HIDE DEF acc
<1>7. acc[0] = 0 /\ \A n \in 1 .. m : acc[n] = acc[n - 1] + s[n]
  BY <1>5, <1>0
<1>8. \A n \in 0 .. m : acc[n] \in Int
  <2> DEFINE T == {n \in Nat : acc[n] \in Int}
  <2>1. 0 \in T
    BY <1>7
  <2>2. ASSUME NEW n \in 0 .. m - 1, n \in T PROVE n + 1 \in T
    <3>1. n + 1 \in 1 .. m /\ (n + 1) - 1 = n /\ s[n + 1] \in Int /\ acc[n] \in Int /\ n + 1 \in Nat
      BY <1>0, <2>2
    <3>2. acc[n + 1] = acc[n] + s[n + 1]
      BY <3>1, <1>7
    <3>. QED  BY <3>1, <3>2
  <2>3. 0 .. m \subseteq T
    <3> HIDE DEF T, m
    <3>. QED  BY <1>0, <2>1, <2>2, BoundInduct
  <2>. QED  BY <2>3
<1>9. acc \in [0 .. m -> Int]
  BY <1>5, <1>8
<1>10. Sums(acc, s)
  BY <1>7, <1>9 DEF Sums
<1>. QED  BY <1>6, <1>10

\* There is one function of running sums.
LEMMA SumsUnique ==
  ASSUME NEW s \in Seq(Int), NEW t \in Seq(Int), NEW g, NEW h, Sums(g, s), Sums(h, t),
         Len(s) <= Len(t), \A i \in 1 .. Len(s) : s[i] = t[i]
  PROVE  \A n \in 0 .. Len(s) : g[n] = h[n]
<1> DEFINE T == {n \in Nat : g[n] = h[n]}
           m == Len(s)
<1>0. m \in Nat /\ Len(t) \in Nat
  OBVIOUS
<1>1. 0 \in T
  BY DEF Sums
<1>2. ASSUME NEW n \in 0 .. m - 1, n \in T PROVE n + 1 \in T
  <2>1. n + 1 \in 1 .. m /\ (n + 1) - 1 = n /\ n + 1 \in Nat /\ n + 1 \in 1 .. Len(t)
    BY <1>0
  <2>2. g[n + 1] = g[n] + s[n + 1] /\ h[n + 1] = h[n] + t[n + 1] /\ s[n + 1] = t[n + 1]
    BY <2>1 DEF Sums
  <2>. QED  BY <2>1, <2>2, <1>2
<1>3. 0 .. m \subseteq T
  <2> HIDE DEF T, m
  <2>. QED  BY <1>0, <1>1, <1>2, BoundInduct
<1>. QED  BY <1>3

\* A total of integers is an integer.
LEMMA TotalType ==
  ASSUME NEW s \in Seq(Int)
  PROVE  Total(s) \in Int
<1>1. PICK g : Sums(g, s) /\ Total(s) = g[Len(s)]
  BY TotalSums
<1>2. Len(s) \in 0 .. Len(s)
  OBVIOUS
<1>. QED  BY <1>1, <1>2 DEF Sums

-----------------------------------------------------------------------------
(* Extremes, square roots and ratios.                                      *)

\* The image of a finite set is finite.
LEMMA ImageFinite ==
  ASSUME NEW S, IsFiniteSet(S), NEW f, DOMAIN f = S, NEW T, T = {f[x] : x \in S}
  PROVE  IsFiniteSet(T)
<1> DEFINE h == [x \in S |-> f[x]]
<1>1. h \in Surjection(S, T)
  BY DEF Surjection
<1>. HIDE DEF h
<1>. QED  BY <1>1, FS_Surjection

\* What a sequence holds is a finite set.
LEMMA RangeFinite ==
  ASSUME NEW T, NEW s \in Seq(T)
  PROVE  IsFiniteSet(Range(s)) /\ IsFiniteSet(DOMAIN s)
<1> DEFINE m == Len(s)
<1>1. m \in Nat /\ m \in Int /\ 1 \in Int /\ DOMAIN s = 1 .. m
  OBVIOUS
<1>2. IsFiniteSet(1 .. m)
  <2> HIDE DEF m
  <2>. QED  BY <1>1, FS_Interval
<1>3. IsFiniteSet(DOMAIN s)
  BY <1>1, <1>2
<1>4. Range(s) = {s[i] : i \in DOMAIN s}
  BY DEF Range
<1>. QED  BY <1>3, <1>4, ImageFinite

\* A finite set of integers has a largest and a smallest member.
LEMMA Extremes ==
  ASSUME NEW S \in SUBSET Int, IsFiniteSet(S), S # {}
  PROVE  /\ Max(S) \in S /\ \A x \in S : x <= Max(S)
         /\ Min(S) \in S /\ \A x \in S : Min(S) <= x
<1> DEFINE N == Cardinality(S)
<1>1. N \in Nat /\ N # 0
  BY FS_CardinalityType, FS_EmptySet
<1>2. PICK at : Rising(at, S)
  BY Ascends
<1>3. at[1] \in S /\ at[N] \in S
  <2>1. 1 \in 1 .. N /\ N \in 1 .. N
    BY <1>1
  <2>. QED  BY <2>1, <1>2 DEF Rising
<1>4. ASSUME NEW x \in S PROVE at[1] <= x /\ x <= at[N]
  <2>1. PICK n \in 1 .. N : at[n] = x
    BY <1>2 DEF Rising
  <2>2. n = 1 \/ 1 < n
    BY <1>1
  <2>3. n = N \/ n < N
    BY <1>1
  <2>4. 1 < n => at[1] < at[n]
    BY <1>1, <1>2 DEF Rising
  <2>5. n < N => at[n] < at[N]
    BY <1>1, <1>2 DEF Rising
  <2>6. x \in Int /\ at[1] \in Int /\ at[N] \in Int
    BY <1>3
  <2>. HIDE DEF N
  <2>. QED  BY <2>1, <2>2, <2>3, <2>4, <2>5, <2>6
<1>5. Max(S) \in S /\ \A x \in S : Max(S) >= x
  BY <1>3, <1>4 DEF Max
<1>6. Min(S) \in S /\ \A x \in S : Min(S) <= x
  BY <1>3, <1>4 DEF Min
<1>. QED  BY <1>5, <1>6

\* Every number has an integer square root.
LEMMA SquareRoot ==
  ASSUME NEW N \in Nat, NEW top \in Nat, N < (top + 1) * (top + 1)
  PROVE  \E r \in 0 .. top : r * r <= N /\ N < (r + 1) * (r + 1)
<1> DEFINE A == {r \in Nat : N < (r + 1) * (r + 1)}
           R == {p \in Nat \X Nat : p[1] < p[2]}
<1>1. top \in A
  OBVIOUS
<1>2. \E r \in A : \A k \in A : ~(<<k, r>> \in R)
  <2>1. A \subseteq Nat /\ A # {}
    BY <1>1
  <2>2. IsWellFoundedOn(R, Nat)
    BY NatLessThanWellFounded DEF OpToRel
  <2>. HIDE DEF A, R
  <2>. QED  BY <2>1, <2>2, WFMin
<1>3. PICK r \in A : \A k \in A : ~(k < r)
  BY <1>2
<1>4. r \in Nat /\ N < (r + 1) * (r + 1) /\ r <= top
  BY <1>1, <1>3
<1>5. r * r <= N
  <2>1. CASE r = 0
    BY <2>1
  <2>2. CASE r # 0
    <3>1. r - 1 \in Nat /\ r - 1 \notin A
      BY <1>3, <1>4, <2>2
    <3>2. ~(N < (r - 1 + 1) * (r - 1 + 1))
      BY <3>1
    <3>3. r - 1 + 1 = r
      BY <1>4
    <3>4. ~(N < r * r)
      BY <3>2, <3>3
    <3>. QED  BY <3>4, <1>4
  <2>. QED  BY <2>1, <2>2
<1>. QED  BY <1>4, <1>5

\* Root is defined up to the limit, and at least one from one on.
LEMMA RootIs ==
  ASSUME NEW n \in 0 .. Limit
  PROVE  Root[n] \in Nat /\ (n > 0 => Root[n] > 0)
<1>0. Limit \in Nat /\ n \in Nat
  BY RankingAssumption
<1> DEFINE N == 1000000 * n
           top == 1000 * n
<1>1. N \in Nat /\ top \in Nat
  BY SMT, <1>0
<1>2. N < (top + 1) * (top + 1)
  <2>1. n * n >= n
    <3>1. n = 0 \/ n >= 1
      BY <1>0
    <3>. QED  BY <1>0, <3>1
  <2>2. (top + 1) * (top + 1) = 1000000 * (n * n) + 2000 * n + 1
    BY SMT, <1>0
  <2> DEFINE z == n * n
  <2>3. z \in Nat /\ z >= n
    BY <2>1, <1>0
  <2>4. (top + 1) * (top + 1) = 1000000 * z + 2000 * n + 1
    BY SMT, <2>2
  <2> HIDE DEF z
  <2>5. N < 1000000 * z + 2000 * n + 1
    BY SMT, <2>3, <1>0
  <2>. HIDE DEF N, top
  <2>. QED  BY SMT, <2>5, <2>4
<1>6. \E k \in 0 .. top : k * k <= N /\ N < (k + 1) * (k + 1)
  <2> HIDE DEF N, top
  <2>. QED  BY <1>1, <1>2, SquareRoot
<1>7. Root[n] \in 0 .. top /\ N < (Root[n] + 1) * (Root[n] + 1)
  <2>1. Root[n] = CHOOSE k \in 0 .. top : k * k <= N /\ N < (k + 1) * (k + 1)
    BY SMT DEF Root
  <2>. HIDE DEF N, top
  <2>. QED  BY <2>1, <1>6
<1>8. Root[n] \in Nat
  <2> HIDE DEF N, top
  <2>. QED  BY <1>7, <1>1
<1>9. ASSUME n > 0 PROVE Root[n] # 0
  <2> SUFFICES ASSUME Root[n] = 0 PROVE FALSE
    OBVIOUS
  <2>1. N < 1
    <3> HIDE DEF N, top
    <3>. QED  BY <1>7
  <2>. QED  BY SMT, <2>1, <1>9, <1>0
<1>. QED  BY <1>8, <1>9

\* Thousandths of a in a and b together.
Ratio(a, b) == (1000 * a) \div (a + b)
Thousandths == 0 .. 1000

\* A ratio of natural numbers is between 0 and 1000.
LEMMA Share ==
  ASSUME NEW a \in Nat, NEW b \in Nat, a + b > 0
  PROVE  Ratio(a, b) \in Thousandths
<1> DEFINE d == a + b
           k == (1000 * a) \div d
<1>1. d \in Nat /\ d > 0 /\ 1000 * a <= 1000 * d
  OBVIOUS
<1>2. k \in Int /\ d * k <= 1000 * a /\ 1000 * a < d * (k + 1)
  BY <1>1
<1>3. k >= 0
  <2>1. SUFFICES ASSUME k <= -1 PROVE FALSE
    BY <1>2
  <2>2. d * (k + 1) <= 0
    BY <1>1, <1>2, <2>1
  <2>. QED  BY <1>2, <2>2
<1>4. k <= 1000
  <2>1. SUFFICES ASSUME k >= 1001 PROVE FALSE
    BY <1>2
  <2>2. d * k >= d * 1001
    BY <1>1, <1>2, <2>1
  <2>. QED  BY <1>2, <2>2, <1>1
<1>. HIDE DEF k
<1>5. k \in 0 .. 1000
  BY <1>2, <1>3, <1>4
<1>. QED  BY <1>5 DEF k, Ratio, Thousandths

-----------------------------------------------------------------------------
(* The weights of the channels.                                            *)

\* Weights: thousandths that add up.
Weights == {Shares(n, 1000 - n) : n \in 0 .. 1000}

\* The signal of the two pools is in thousandths.
LEMMA PoolSignalIs ==
  ASSUME NEW a \in 0 .. Limit, NEW b \in 0 .. Limit
  PROVE  PoolSignal(a, b) \in Thousandths
<1>0. Limit \in Nat /\ a \in Nat /\ b \in Nat
  BY RankingAssumption
<1>1. CASE a + b = 0
  BY <1>1 DEF PoolSignal, Thousandths
<1>2. CASE a + b # 0
  <2>1. Root[a] \in Nat /\ Root[b] \in Nat /\ (a > 0 => Root[a] > 0) /\ (b > 0 => Root[b] > 0)
    BY RootIs
  <2>2. a > 0 \/ b > 0
    BY <1>0, <1>2
  <2>3. Root[a] + Root[b] > 0
    BY <2>1, <2>2
  <2> DEFINE x == Root[a]
             y == Root[b]
  <2>4. PoolSignal(a, b) = Ratio(x, y)
    BY <1>2 DEF PoolSignal, Ratio
  <2>5. x \in Nat /\ y \in Nat /\ x + y > 0
    BY <2>1, <2>3
  <2>. HIDE DEF x, y
  <2>6. Ratio(x, y) \in Thousandths
    BY Zenon, <2>5, Share
  <2>. QED  BY <2>4, <2>6
<1>. QED  BY <1>1, <1>2

\* Weights are natural numbers that add up to 1000.
LEMMA WeightsAdd ==
  ASSUME NEW w \in Weights
  PROVE  w.code \in Nat /\ w.knowledge \in Nat /\ w.code + w.knowledge = 1000
         /\ \A c \in Channels : w[c] \in Nat
<1>1. PICK n \in 0 .. 1000 : w = [code |-> n, knowledge |-> 1000 - n]
  BY DEF Weights, Shares
<1>2. w.code = n /\ w.knowledge = 1000 - n
  BY <1>1
<1>. QED  BY <1>2 DEF Channels

\* Proportions are weights.
LEMMA ProportionsIs ==
  ASSUME NEW g, NEW k, g.code \in Nat, g.knowledge \in Nat, k.code \in 0 .. Limit, k.knowledge \in 0 .. Limit
  PROVE  Proportions(g, k) \in Weights
<1> DEFINE pool == PoolSignal(k.code, k.knowledge)
           lex == Shares(pool, 1000 - pool)
           score == IF g.code = 0 /\ g.knowledge = 0 THEN lex
                    ELSE IF k.code + k.knowledge = 0 THEN g
                    ELSE [c \in Channels |-> (g[c] + lex[c]) \div 2]
           share == (1000 * score.code) \div (score.code + score.knowledge)
           code == IF share < Floor THEN Floor ELSE IF 1000 - share < Floor THEN 1000 - Floor ELSE share
<1>1. pool \in 0 .. 1000
  <2>1. pool \in Thousandths
    BY Zenon, PoolSignalIs
  <2> HIDE DEF pool
  <2>. QED  BY <2>1 DEF Thousandths
<1>2. score.code \in Nat /\ score.knowledge \in Nat
  <2> HIDE DEF pool
  <2>1. lex.code \in Nat /\ lex.knowledge \in Nat
    <3>1. lex.code = pool /\ lex.knowledge = 1000 - pool
      BY DEF Shares
    <3>2. pool \in Nat /\ 1000 - pool \in Nat
      <4> HIDE DEF lex, score, share, code
      <4>. QED  BY <1>1
    <3> HIDE DEF lex, score, share, code
    <3>. QED  BY <3>1, <3>2
  <2> HIDE DEF lex
  <2>2. CASE g.code = 0 /\ g.knowledge = 0
    BY <2>1, <2>2
  <2>3. CASE ~(g.code = 0 /\ g.knowledge = 0) /\ k.code + k.knowledge = 0
    BY <2>1, <2>3
  <2>4. CASE ~(g.code = 0 /\ g.knowledge = 0) /\ ~(k.code + k.knowledge = 0)
    <3>1. score.code = (g["code"] + lex["code"]) \div 2 /\ score.knowledge = (g["knowledge"] + lex["knowledge"]) \div 2
      BY <2>4 DEF Channels
    <3>2. (g["code"] + lex["code"]) \div 2 \in Nat
      BY <2>1
    <3>3. (g["knowledge"] + lex["knowledge"]) \div 2 \in Nat
      BY <2>1
    <3>. QED  BY <3>1, <3>2, <3>3
  <2>. QED  BY <2>2, <2>3, <2>4
<1>3. Proportions(g, k) = IF score.code = 0 /\ score.knowledge = 0 THEN Shares(500, 500) ELSE Shares(code, 1000 - code)
  BY DEF Proportions
<1>. HIDE DEF score
<1>4. CASE score.code = 0 /\ score.knowledge = 0
  <2>1. 1000 - 500 = 500 /\ 500 \in 0 .. 1000
    BY SMT
  <2>. QED  BY <1>3, <1>4, <2>1 DEF Weights
<1>5. CASE ~(score.code = 0 /\ score.knowledge = 0)
  <2> DEFINE x == score.code
             y == score.knowledge
  <2>5. x \in Nat /\ y \in Nat /\ x + y > 0
    <3>1. x \in Nat /\ y \in Nat /\ ~(x = 0 /\ y = 0)
      BY <1>2, <1>5
    <3> HIDE DEF x, y
    <3>. QED  BY <3>1
  <2>6. Ratio(x, y) \in Thousandths
    <3> HIDE DEF x, y
    <3>. QED  BY Zenon, <2>5, Share
  <2>1. Ratio(score.code, score.knowledge) \in 0 .. 1000
    BY <2>6 DEF Thousandths
  <2>0. share \in 0 .. 1000
    <3>1. share = Ratio(score.code, score.knowledge)
      BY DEF Ratio
    <3> HIDE DEF share
    <3>. QED  BY <2>1, <3>1
  <2> HIDE DEF share
  <2>2. code \in 0 .. 1000
    BY <2>0 DEF Floor
  <2> HIDE DEF code
  <2>3. Proportions(g, k) = Shares(code, 1000 - code)
    BY <1>3, <1>5
  <2>. QED  BY <2>2, <2>3 DEF Weights
<1>. QED  BY <1>4, <1>5

\* An in-degree is a natural number, its boost an integer.
LEMMA BoostIs ==
  ASSUME NEW x
  PROVE  InDegree(x) \in Nat /\ Boost(InDegree(x)) \in Int
<1>1. {e \in Curated : e[2] = x} \in SUBSET Curated
  OBVIOUS
<1>2. InDegree(x) \in Nat
  BY <1>1, RankingAssumption, FS_Subset, FS_CardinalityType DEF InDegree
<1>3. ASSUME NEW n \in Nat PROVE Boost(n) \in Int
  <2>1. CASE n = 0
    BY <2>1 DEF Boost
  <2>2. CASE n = 1
    BY <2>2 DEF Boost
  <2>3. CASE n = 2
    BY <2>3 DEF Boost
  <2>4. CASE n > 2
    BY <2>4 DEF Boost
  <2>. QED  BY <2>1, <2>2, <2>3, <2>4
<1>. QED  BY <1>2, <1>3

\* Boosting reorders a list, and adds nothing to it.
LEMMA BoostedIs ==
  ASSUME NEW s, HitList(s)
  PROVE  HitList(Boosted(s)) /\ Ids(Range(Boosted(s))) = Ids(Range(s))
<1> DEFINE lift(i) == [s[i] EXCEPT !.score = (s[i].score * Boost(InDegree(s[i].id))) \div 1000]
           S == {lift(i) : i \in DOMAIN s}
           f == [i \in DOMAIN s |-> lift(i)]
<1>0. s \in Seq(Hit)
  BY DEF HitList
<1>1. ASSUME NEW i \in DOMAIN s PROVE lift(i) \in Hit /\ lift(i).id = s[i].id
  <2>0. s[i] \in Hit
    BY <1>0
  <2>1. s[i] \in [id : Id, chan : Channels, score : Int]
    BY <2>0 DEF Hit
  <2> DEFINE b == Boost(InDegree(s[i].id))
  <2>2. b \in Int /\ s[i].score \in Int
    BY <2>1, BoostIs
  <2> HIDE DEF b
  <2>3. (s[i].score * b) \div 1000 \in Int
    BY SMT, <2>2
  <2>4. [s[i] EXCEPT !.score = (s[i].score * b) \div 1000] \in [id : Id, chan : Channels, score : Int]
    BY <2>1, <2>3
  <2>5. [s[i] EXCEPT !.score = (s[i].score * b) \div 1000].id = s[i].id
    BY <2>1
  <2>. QED  BY <2>4, <2>5 DEF b, Hit
<1>2. IsFiniteSet(S)
  <2>1. IsFiniteSet(DOMAIN s)
    BY <1>0, RangeFinite
  <2>2. DOMAIN f = DOMAIN s /\ S = {f[i] : i \in DOMAIN s}
    OBVIOUS
  <2> HIDE DEF f, S
  <2>. QED  BY <2>1, <2>2, ImageFinite
<1>. HIDE DEF lift
<1>3. S \in SUBSET Hit
  BY <1>1
<1>4. Single(S)
  <2> SUFFICES ASSUME NEW i \in DOMAIN s, NEW j \in DOMAIN s, lift(i).id = lift(j).id PROVE lift(i) = lift(j)
    BY DEF Single
  <2>1. s[i].id = s[j].id
    BY <1>1
  <2>2. i = j
    BY <2>1 DEF HitList
  <2>. QED  BY <2>2
<1>5. Ids(S) = Ids(Range(s))
  BY <1>1 DEF Ids, Range
<1>6. Boosted(s) = s \/ Boosted(s) = Sorted(S)
  BY DEF Boosted, lift
<1>. HIDE DEF S
<1>7. HitList(Sorted(S)) /\ Range(Sorted(S)) = S
  BY <1>2, <1>3, <1>4, SortedHits
<1>8. CASE Boosted(s) = s
  BY <1>8
<1>9. CASE Boosted(s) = Sorted(S)
  BY <1>9, <1>7, <1>5
<1>. QED  BY <1>6, <1>8, <1>9

-----------------------------------------------------------------------------
(* The channels fused into one list.                                       *)

\* Members of D with a score in N.
Scores(D, N) == [id : D, score : N]

\* What one list contributes to the score of an item is a natural number.
LEMMA ContributionIs ==
  ASSUME NEW T, NEW s \in Seq(T), NEW weight \in Nat, NEW x
  PROVE  Contribution(s, weight, x) \in Nat
<1>1. CASE x \notin Range(s)
  BY <1>1 DEF Contribution
<1>2. CASE x \in Range(s)
  <2> DEFINE k == CHOOSE i \in DOMAIN s : s[i] = x
  <2>1. \E i \in DOMAIN s : s[i] = x
    BY <1>2 DEF Range
  <2>2. k \in DOMAIN s
    BY <2>1
  <2>3. k \in Nat /\ k > 0
    BY <2>2
  <2>4. Contribution(s, weight, x) = (weight * 10000) \div (RrfK + k)
    BY <1>2 DEF Contribution
  <2> HIDE DEF k
  <2>5. RrfK + k \in Nat /\ RrfK + k > 0
    BY <2>3 DEF RrfK
  <2> DEFINE d == RrfK + k
             n == weight * 10000
  <2>6. n \in Nat
    BY SMT
  <2>7. n \div d \in Nat
    <3> HIDE DEF d, n
    <3>. QED  BY <2>5, <2>6 DEF d
  <2>. QED  BY <2>4, <2>7
<1>. QED  BY <1>1, <1>2

\* Fusion gives each item of the three lists one score.
LEMMA FusedIs ==
  ASSUME NEW D, NEW s \in Seq(D), NEW v \in Seq(D), NEW g \in Seq(D), NEW vw \in Nat
  PROVE  /\ Fused(s, v, vw, g) \in SUBSET Scores(D, Nat)
         /\ IsFiniteSet(Fused(s, v, vw, g)) /\ Single(Fused(s, v, vw, g))
         /\ Ids(Fused(s, v, vw, g)) = Range(s) \cup Range(v) \cup Range(g)
<1> DEFINE A == Range(s) \cup Range(v) \cup Range(g)
           sc(x) == Contribution(s, FtsWeight, x) + Contribution(v, vw, x) + Contribution(g, GraphWeight, x)
           f == [x \in A |-> [id |-> x, score |-> sc(x)]]
           F == Fused(s, v, vw, g)
<1>1. A \subseteq D
  BY DEF Range
<1>2. ASSUME NEW x PROVE sc(x) \in Nat
  <2>1. FtsWeight \in Nat /\ GraphWeight \in Nat
    BY DEF FtsWeight, GraphWeight
  <2>2. Contribution(s, FtsWeight, x) \in Nat
    BY <2>1, ContributionIs
  <2>3. Contribution(v, vw, x) \in Nat
    BY ContributionIs
  <2>4. Contribution(g, GraphWeight, x) \in Nat
    BY <2>1, ContributionIs
  <2>. QED  BY <2>2, <2>3, <2>4
<1>3. F = {f[x] : x \in A}
  BY DEF Fused
<1>4. IsFiniteSet(A)
  BY RangeFinite, FS_Union
<1>5. IsFiniteSet(F)
  <2>1. DOMAIN f = A
    OBVIOUS
  <2> HIDE DEF f, F, A
  <2>. QED  BY <1>3, <1>4, <2>1, ImageFinite
<1>. HIDE DEF sc
<1>9. ASSUME NEW x \in A PROVE f[x] \in Scores(D, Nat) /\ f[x].id = x
  <2>1. f[x] = [id |-> x, score |-> sc(x)]
    OBVIOUS
  <2>2. x \in D /\ sc(x) \in Nat
    BY <1>1, <1>2
  <2> HIDE DEF f
  <2>. QED  BY <2>1, <2>2 DEF Scores
<1>. HIDE DEF F, f, A
<1>6. F \in SUBSET Scores(D, Nat)
  BY <1>3, <1>9
<1>7. Single(F)
  BY <1>3, <1>9 DEF Single
<1>8. Ids(F) = A
  BY <1>3, <1>9 DEF Ids
<1>. QED  BY <1>5, <1>6, <1>7, <1>8 DEF F, A

\* Normalizing keeps the items and their ids.
LEMMA NormalizedIs ==
  ASSUME NEW D, NEW S \in SUBSET Scores(D, Nat), IsFiniteSet(S), Single(S)
  PROVE  /\ Normalized(S) \in SUBSET Scores(D, Int)
         /\ IsFiniteSet(Normalized(S)) /\ Single(Normalized(S)) /\ Ids(Normalized(S)) = Ids(S)
<1> DEFINE A == {x.score : x \in S}
           top == Max(A)
           f == [x \in S |-> [x EXCEPT !.score = (x.score * 1000) \div top]]
           N == Normalized(S)
<1>1. CASE \A x \in S : x.score = 0
  <2>1. N = S
    BY <1>1 DEF Normalized
  <2>2. S \in SUBSET Scores(D, Int)
    BY DEF Scores
  <2>. HIDE DEF N
  <2>. QED  BY <2>1, <2>2 DEF N
<1>2. CASE \E x \in S : x.score # 0
  <2>1. A \in SUBSET Nat /\ A # {}
    BY <1>2 DEF Scores
  <2>2. IsFiniteSet(A)
    <3> DEFINE h == [x \in S |-> x.score]
    <3>1. DOMAIN h = S /\ A = {h[x] : x \in S}
      OBVIOUS
    <3> HIDE DEF h, A
    <3>. QED  BY <3>1, ImageFinite
  <2>3. A \in SUBSET Int
    BY <2>1
  <2>4. top \in A /\ \A x \in A : x <= top
    <3> HIDE DEF A
    <3>. QED  BY <2>1, <2>2, <2>3, Extremes
  <2>5. top \in Nat
    BY <2>1, <2>4
  <2>6. top > 0
    <3>1. PICK x \in S : x.score # 0
      BY <1>2
    <3>2. x.score \in A
      OBVIOUS
    <3>3. x.score \in Nat /\ x.score <= top
      BY <3>2, <2>1, <2>4
    <3> HIDE DEF A, top
    <3>. QED  BY <3>1, <3>3, <2>5
  <2>. HIDE DEF top
  <2>7. ASSUME NEW x \in S PROVE f[x] \in Scores(D, Int) /\ f[x].id = x.id
    <3>1. x \in [id : D, score : Nat]
      BY DEF Scores
    <3>2. x.score \in Nat
      BY <3>1
    <3>3. (x.score * 1000) \div top \in Int
      BY SMT, <3>2, <2>5, <2>6
    <3> DEFINE z == (x.score * 1000) \div top
    <3>4. f[x] = [x EXCEPT !.score = z]
      OBVIOUS
    <3> HIDE DEF z, f
    <3>5. f[x] \in [id : D, score : Int] /\ f[x].id = x.id
      BY <3>1, <3>3, <3>4 DEF z
    <3>. QED  BY <3>5 DEF Scores
  <2>8. N = {f[x] : x \in S}
    <3>1. ~ \A x \in S : x.score = 0
      BY <1>2
    <3>2. N = {[x EXCEPT !.score = (x.score * 1000) \div top] : x \in S}
      BY <3>1 DEF Normalized, top
    <3>. QED  BY <3>2
  <2>9. DOMAIN f = S
    OBVIOUS
  <2>. HIDE DEF f, N
  <2>10. IsFiniteSet(N)
    BY <2>8, <2>9, ImageFinite
  <2>11. N \in SUBSET Scores(D, Int)
    BY <2>7, <2>8
  <2>12. Single(N)
    <3> SUFFICES ASSUME NEW x \in S, NEW y \in S, f[x].id = f[y].id PROVE f[x] = f[y]
      BY <2>8 DEF Single
    <3>1. x.id = y.id
      BY <2>7
    <3>. QED  BY <3>1 DEF Single
  <2>13. Ids(N) = Ids(S)
    BY <2>7, <2>8 DEF Ids
  <2>. QED  BY <2>10, <2>11, <2>12, <2>13 DEF N
<1>. QED  BY <1>1, <1>2

\* The entities of a channel.
InChannel(c) == {x \in Id : Chan(x) = c}

\* Items with their channel, weighted.
Tagged(items, c, n) == {[id |-> x.id, chan |-> c, score |-> (x.score * n) \div 1000] : x \in items}

\* Tagging gives every item its own channel and keeps the ids.
LEMMA TaggedIs ==
  ASSUME NEW c \in Channels, NEW S \in SUBSET Scores(InChannel(c), Int), IsFiniteSet(S), Single(S), NEW n \in Int
  PROVE  /\ IsFiniteSet(Tagged(S, c, n)) /\ Tagged(S, c, n) \in SUBSET Hit /\ Single(Tagged(S, c, n))
         /\ Ids(Tagged(S, c, n)) = Ids(S) /\ \A x \in Tagged(S, c, n) : x.chan = c /\ Chan(x.id) = c
<1> DEFINE f == [x \in S |-> [id |-> x.id, chan |-> c, score |-> (x.score * n) \div 1000]]
           N == Tagged(S, c, n)
<1>1. ASSUME NEW x \in S PROVE f[x] \in Hit /\ f[x].id = x.id /\ f[x].chan = c /\ Chan(x.id) = c
  <2>1. x \in [id : InChannel(c), score : Int]
    BY DEF Scores
  <2>2. x.score \in Int /\ x.id \in InChannel(c)
    BY <2>1
  <2>3. (x.score * n) \div 1000 \in Int
    BY SMT, <2>2
  <2>4. x.id \in Id /\ Chan(x.id) = c
    BY <2>2 DEF InChannel
  <2> DEFINE z == (x.score * n) \div 1000
  <2>5. f[x] = [id |-> x.id, chan |-> c, score |-> z]
    OBVIOUS
  <2> HIDE DEF z, f
  <2>. QED  BY <2>3, <2>4, <2>5 DEF z, Hit
<1>2. N = {f[x] : x \in S} /\ DOMAIN f = S
  BY DEF Tagged
<1>. HIDE DEF f, N
<1>3. IsFiniteSet(N)
  BY <1>2, ImageFinite
<1>4. N \in SUBSET Hit /\ \A x \in N : x.chan = c /\ Chan(x.id) = c
  BY <1>1, <1>2
<1>5. Single(N)
  <2> SUFFICES ASSUME NEW x \in S, NEW y \in S, f[x].id = f[y].id PROVE f[x] = f[y]
    BY <1>2 DEF Single
  <2>1. x.id = y.id
    BY <1>1
  <2>. QED  BY <2>1 DEF Single
<1>6. Ids(N) = Ids(S)
  BY <1>1, <1>2 DEF Ids
<1>. QED  BY <1>3, <1>4, <1>5, <1>6 DEF N

\* The merged channels are a list of results without repetition.
LEMMA MergedIs ==
  ASSUME NEW C \in SUBSET Scores(InChannel("code"), Int), IsFiniteSet(C), Single(C),
         NEW K \in SUBSET Scores(InChannel("knowledge"), Int), IsFiniteSet(K), Single(K), NEW w \in Weights
  PROVE  HitList(Merged(C, K, w)) /\ Ids(Range(Merged(C, K, w))) \subseteq Ids(C) \cup Ids(K)
<1> DEFINE A == Tagged(C, "code", w["code"])
           B == Tagged(K, "knowledge", w["knowledge"])
           M == {x \in A \cup B : x.score >= MinRelevance}
<1>1. w["code"] \in Int /\ w["knowledge"] \in Int /\ "code" \in Channels /\ "knowledge" \in Channels
  BY WeightsAdd DEF Channels
<1>2. /\ IsFiniteSet(A) /\ A \in SUBSET Hit /\ Single(A) /\ Ids(A) = Ids(C)
      /\ \A x \in A : x.chan = "code" /\ Chan(x.id) = "code"
  BY <1>1, TaggedIs
<1>3. /\ IsFiniteSet(B) /\ B \in SUBSET Hit /\ Single(B) /\ Ids(B) = Ids(K)
      /\ \A x \in B : x.chan = "knowledge" /\ Chan(x.id) = "knowledge"
  BY <1>1, TaggedIs
<1>4. Merged(C, K, w) = Sorted(M)
  BY DEF Merged, Tagged
<1>. HIDE DEF A, B
<1>5. IsFiniteSet(M)
  <2>1. IsFiniteSet(A \cup B) /\ M \in SUBSET (A \cup B)
    BY <1>2, <1>3, FS_Union
  <2>. QED  BY <2>1, FS_Subset
<1>6. M \in SUBSET Hit /\ M \subseteq A \cup B
  BY <1>2, <1>3
<1>7. Single(M)
  BY <1>2, <1>3 DEF Single
<1>8. Ids(M) \subseteq Ids(C) \cup Ids(K)
  BY <1>2, <1>3, <1>6 DEF Ids
<1>. HIDE DEF M
<1>9. HitList(Sorted(M)) /\ Range(Sorted(M)) = M
  BY <1>5, <1>6, <1>7, SortedHits
<1>. QED  BY <1>4, <1>8, <1>9

-----------------------------------------------------------------------------
(* Picking the best that is left, with its penalty.                        *)

\* A finite nonempty set has a first in a strict order.
LEMMA First ==
  ASSUME NEW S, IsFiniteSet(S), S # {}, NEW R, Orders(R, S)
  PROVE  \E x \in S : \A y \in S : y = x \/ <<x, y>> \in R
<1>1. Cardinality(S) \in Nat /\ Cardinality(S) # 0
  BY FS_CardinalityType, FS_EmptySet
<1>2. 1 \in 1 .. Cardinality(S) /\ 1 - 1 = 0
  BY <1>1
<1>3. PICK x \in S : Cardinality(Below(x, R, S)) = 1 - 1
  BY <1>2, Ranks
<1>4. Below(x, R, S) = {}
  <2>1. Below(x, R, S) \in SUBSET S
    BY DEF Below
  <2>2. IsFiniteSet(Below(x, R, S))
    BY <2>1, FS_Subset
  <2>. QED  BY <2>2, <1>2, <1>3, FS_EmptySet
<1>5. \A y \in S : y = x \/ <<x, y>> \in R
  BY <1>4 DEF Below, Orders
<1>. QED  BY <1>5

PenaltyOf(x, picked) == IF \E y \in Range(picked) : y.chan = x.chan /\ {x.id, y.id} \in Similar THEN 1000 ELSE 0
ValueOf(x, picked) == 7 * x.score - 3 * PenaltyOf(x, picked)
LeftOf(s, picked) == {i \in DOMAIN s : s[i].id \notin Ids(Range(picked))}
BestOf(s, picked) == CHOOSE i \in LeftOf(s, picked) : \A j \in LeftOf(s, picked) :
                        \/ ValueOf(s[i], picked) > ValueOf(s[j], picked)
                        \/ ValueOf(s[i], picked) = ValueOf(s[j], picked) /\ i <= j

\* The choice of the best exists: the largest value, and of those the first.
LEMMA BestIs ==
  ASSUME NEW s \in Seq(Hit), NEW picked, LeftOf(s, picked) # {}
  PROVE  BestOf(s, picked) \in LeftOf(s, picked)
<1> DEFINE L == LeftOf(s, picked)
           v == [i \in L |-> ValueOf(s[i], picked)]
           R == {p \in L \X L : v[p[1]] > v[p[2]] \/ (v[p[1]] = v[p[2]] /\ p[1] < p[2])}
<1>1. L \in SUBSET DOMAIN s /\ L \subseteq Int
  BY DEF LeftOf
<1>2. IsFiniteSet(L)
  BY <1>1, RangeFinite, FS_Subset
<1>3. v \in [L -> Int]
  <2> SUFFICES ASSUME NEW i \in L PROVE ValueOf(s[i], picked) \in Int
    OBVIOUS
  <2>1. s[i] \in Hit
    BY <1>1
  <2>2. s[i] \in [id : Id, chan : Channels, score : Int]
    BY <2>1 DEF Hit
  <2>3. s[i].score \in Int
    BY <2>2
  <2>4. PenaltyOf(s[i], picked) \in Int
    BY DEF PenaltyOf
  <2>. QED  BY <2>3, <2>4 DEF ValueOf
<1>4. \A i \in L : v[i] = ValueOf(s[i], picked)
  OBVIOUS
<1>5. Orders(R, L)
  <2> HIDE DEF L, v
  <2>. QED  BY <1>1, <1>3 DEF Orders
<1>6. PICK i \in L : \A j \in L : j = i \/ <<i, j>> \in R
  <2> HIDE DEF L, R
  <2>. QED  BY <1>2, <1>5, First DEF L
<1>7. \A j \in L : v[i] > v[j] \/ (v[i] = v[j] /\ i <= j)
  <2> SUFFICES ASSUME NEW j \in L PROVE v[i] > v[j] \/ (v[i] = v[j] /\ i <= j)
    OBVIOUS
  <2>0. i \in Int /\ j \in Int
    BY <1>1
  <2> HIDE DEF L, v
  <2>1. CASE j = i
    BY <2>1, <2>0
  <2>2. CASE <<i, j>> \in R
    BY <2>2, <2>0
  <2>. QED  BY <1>6, <2>1, <2>2
<1>8. \A j \in L : ValueOf(s[i], picked) > ValueOf(s[j], picked) \/ (ValueOf(s[i], picked) = ValueOf(s[j], picked) /\ i <= j)
  <2> HIDE DEF L, v
  <2>. QED  BY <1>4, <1>7
<1>. HIDE DEF v, R
<1>. QED  BY <1>8 DEF BestOf

\* n of the list's items, each once.
Picks(picked, n, s) ==
  HitList(picked) /\ Len(picked) = n /\ Range(picked) \subseteq Range(s)

\* Fewer than all picked: some are left.
LEMMA SomeLeft ==
  ASSUME NEW s, HitList(s), NEW n \in Nat, n < Len(s), NEW picked, Picks(picked, n, s)
  PROVE  LeftOf(s, picked) # {}
<1> SUFFICES ASSUME LeftOf(s, picked) = {} PROVE FALSE
  OBVIOUS
<1> DEFINE m == Len(s)
           f == [i \in 1 .. m |-> CHOOSE j \in 1 .. n : picked[j].id = s[i].id]
<1>1. m \in Nat /\ DOMAIN s = 1 .. m /\ DOMAIN picked = 1 .. n
  BY DEF HitList, Picks
<1>2. ASSUME NEW i \in 1 .. m PROVE f[i] \in 1 .. n /\ picked[f[i]].id = s[i].id
  <2>1. s[i].id \in Ids(Range(picked))
    BY <1>1 DEF LeftOf
  <2>2. \E j \in 1 .. n : picked[j].id = s[i].id
    BY <2>1, <1>1 DEF Ids, Range
  <2>. QED  BY <2>2
<1>3. f \in [1 .. m -> 1 .. n]
  BY <1>2
<1>. HIDE DEF f, m
<1>4. \A k \in Nat : IsFiniteSet(1 .. k) /\ Cardinality(1 .. k) = k
  <2> SUFFICES ASSUME NEW k \in Nat PROVE IsFiniteSet(1 .. k) /\ Cardinality(1 .. k) = k
    OBVIOUS
  <2>1. 1 \in Int /\ k \in Int
    OBVIOUS
  <2>2. IsFiniteSet(1 .. k) /\ Cardinality(1 .. k) = IF 1 > k THEN 0 ELSE k - 1 + 1
    BY <2>1, FS_Interval
  <2>. QED  BY <2>2
<1>5. PICK x \in 1 .. m, y \in 1 .. m : x # y /\ f[x] = f[y]
  <2>0. n < m
    BY DEF m
  <2>1. Cardinality(1 .. n) < Cardinality(1 .. m) /\ IsFiniteSet(1 .. n) /\ IsFiniteSet(1 .. m)
    BY <1>1, <1>4, <2>0
  <2> DEFINE S == 1 .. m
             T == 1 .. n
  <2>2. Cardinality(T) < Cardinality(S) /\ IsFiniteSet(T) /\ IsFiniteSet(S) /\ f \in [S -> T]
    BY <1>3, <2>1
  <2> HIDE DEF S, T
  <2>3. \E x, y \in S : x # y /\ f[x] = f[y]
    BY <2>2, FS_PigeonHole
  <2>. QED  BY <2>3 DEF S
<1>6. s[x].id = s[y].id
  BY <1>2, <1>5
<1>. QED  BY <1>5, <1>6, <1>1 DEF HitList

\* Picking the best of what is left picks one more.
LEMMA OneMore ==
  ASSUME NEW s, HitList(s), NEW n \in Nat, n < Len(s), NEW picked, Picks(picked, n, s)
  PROVE  Picks(Append(picked, s[BestOf(s, picked)]), n + 1, s)
<1> DEFINE b == BestOf(s, picked)
           p == Append(picked, s[b])
<1>1. b \in DOMAIN s /\ s[b].id \notin Ids(Range(picked))
  <2>1. BestOf(s, picked) \in LeftOf(s, picked)
    BY SomeLeft, BestIs DEF HitList
  <2>. QED  BY <2>1 DEF LeftOf
<1>. HIDE DEF b
<1>2. s[b] \in Hit /\ s[b] \in Range(s)
  BY <1>1 DEF HitList, Range
<1>3. picked \in Seq(Hit) /\ Len(picked) = n
  BY DEF Picks, HitList
<1>4. p \in Seq(Hit) /\ Len(p) = n + 1 /\ \A i \in 1 .. n + 1 : p[i] = IF i = n + 1 THEN s[b] ELSE picked[i]
  BY <1>2, <1>3
<1>. HIDE DEF p
<1>5. \A i \in 1 .. n : picked[i].id # s[b].id
  BY <1>1, <1>3 DEF Ids, Range
<1>6. \A i, j \in 1 .. n : picked[i].id = picked[j].id => i = j
  BY <1>3 DEF Picks, HitList
<1>7. \A i, j \in 1 .. n + 1 : p[i].id = p[j].id => i = j
  <2> SUFFICES ASSUME NEW i \in 1 .. n + 1, NEW j \in 1 .. n + 1, p[i].id = p[j].id PROVE i = j
    OBVIOUS
  <2>1. CASE i = n + 1 /\ j = n + 1
    BY <2>1
  <2>2. CASE i # n + 1 /\ j = n + 1
    <3>1. i \in 1 .. n /\ p[i] = picked[i] /\ p[j] = s[b]
      BY <1>4, <2>2
    <3>. QED  BY <3>1, <1>5
  <2>3. CASE i = n + 1 /\ j # n + 1
    <3>1. j \in 1 .. n /\ p[j] = picked[j] /\ p[i] = s[b]
      BY <1>4, <2>3
    <3>. QED  BY <3>1, <1>5
  <2>4. CASE i # n + 1 /\ j # n + 1
    <3>1. i \in 1 .. n /\ j \in 1 .. n /\ p[j] = picked[j] /\ p[i] = picked[i]
      BY <1>4, <2>4
    <3>. QED  BY <3>1, <1>6
  <2>. QED  BY <2>1, <2>2, <2>3, <2>4
<1>8. Range(p) \subseteq Range(s)
  <2> SUFFICES ASSUME NEW i \in 1 .. n + 1 PROVE p[i] \in Range(s)
    BY <1>4 DEF Range
  <2>1. CASE i = n + 1
    BY <2>1, <1>2, <1>4
  <2>2. CASE i # n + 1
    <3>1. i \in 1 .. n /\ p[i] = picked[i]
      BY <1>4, <2>2
    <3>2. picked[i] \in Range(picked)
      BY <3>1, <1>3 DEF Range
    <3>. QED  BY <3>1, <3>2 DEF Picks
  <2>. QED  BY <2>1, <2>2
<1>9. Picks(p, n + 1, s)
  BY <1>4, <1>7, <1>8 DEF Picks, HitList
<1>. QED  BY <1>9 DEF p, b

\* A round of diversification.
NextPick(s, picked) == Append(picked, s[BestOf(s, picked)])

\* g holds the picks after each round.
Rounds(g, s) ==
  g[0] = <<>> /\ \A n \in 1 .. Len(s) : LeftOf(s, g[n - 1]) # {} => g[n] = NextPick(s, g[n - 1])

\* After n rounds there are n picks.
LEMMA RoundsPick ==
  ASSUME NEW s, HitList(s), NEW g, Rounds(g, s)
  PROVE  \A n \in 0 .. Len(s) : Picks(g[n], n, s)
<1> DEFINE T == {n \in Nat : Picks(g[n], n, s)}
           m == Len(s)
<1>0. m \in Nat
  BY DEF HitList
<1>1. 0 \in T
  <2>1. g[0] = <<>>
    BY DEF Rounds
  <2>2. Picks(<<>>, 0, s)
    BY DEF Picks, HitList, Range
  <2>. QED  BY <2>1, <2>2
<1>2. ASSUME NEW n \in 0 .. m - 1, n \in T PROVE n + 1 \in T
  <2>1. n + 1 \in 1 .. m /\ (n + 1) - 1 = n /\ n \in Nat /\ n < m /\ n + 1 \in Nat
    BY <1>0
  <2>2. Picks(g[n], n, s)
    BY <1>2
  <2>3. LeftOf(s, g[n]) # {}
    BY <2>1, <2>2, SomeLeft
  <2>4. g[n + 1] = NextPick(s, g[n])
    BY <2>1, <2>3 DEF Rounds
  <2>5. Picks(NextPick(s, g[n]), n + 1, s)
    BY <2>1, <2>2, OneMore DEF NextPick
  <2>. QED  BY <2>1, <2>4, <2>5
<1>3. 0 .. m \subseteq T
  <2> HIDE DEF T, m
  <2>. QED  BY <1>0, <1>1, <1>2, BoundInduct
<1>. QED  BY <1>3

\* Diversified reorders a list: the same results, each once.
LEMMA DiversifiedIs ==
  ASSUME NEW s, HitList(s)
  PROVE  Picks(Diversified(s), Len(s), s)
<1> DEFINE m == Len(s)
           step == [p \in Nat \X Seq(Hit) |-> IF p[1] \in 1 .. m /\ LeftOf(s, p[2]) # {} THEN NextPick(s, p[2]) ELSE <<>>]
           IsAcc(f) == f = [n \in 0 .. m |-> IF n = 0 THEN <<>> ELSE NextPick(s, f[n - 1])]
           acc == CHOOSE f : IsAcc(f)
<1>0. m \in Nat /\ s \in Seq(Hit)
  BY DEF HitList
<1>1. step \in [Nat \X Seq(Hit) -> Seq(Hit)]
  <2> SUFFICES ASSUME NEW n \in Nat, NEW p \in Seq(Hit), LeftOf(s, p) # {} PROVE NextPick(s, p) \in Seq(Hit)
    OBVIOUS
  <2>1. BestOf(s, p) \in DOMAIN s
    BY <1>0, BestIs DEF LeftOf
  <2>2. s[BestOf(s, p)] \in Hit
    BY <1>0, <2>1
  <2>. QED  BY <2>2 DEF NextPick
<1>2. PICK f : Unfolds(f, Seq(Hit), <<>>, step, m)
  <2>1. <<>> \in Seq(Hit)
    OBVIOUS
  <2> HIDE DEF step, m
  <2>. QED  BY <1>0, <1>1, <2>1, Recursion
<1>3. Rounds(f, s)
  <2>1. f[0] = <<>>
    BY <1>2 DEF Unfolds
  <2>2. ASSUME NEW n \in 1 .. m, LeftOf(s, f[n - 1]) # {} PROVE f[n] = NextPick(s, f[n - 1])
    <3>1. n - 1 \in 0 .. m /\ n \in Nat
      BY <1>0
    <3>2. f[n - 1] \in Seq(Hit) /\ f[n] = step[<<n, f[n - 1]>>]
      BY <3>1, <1>2 DEF Unfolds
    <3>. QED  BY <3>1, <3>2, <2>2
  <2>. QED  BY <2>1, <2>2 DEF Rounds
<1>4. \A n \in 0 .. m : Picks(f[n], n, s)
  BY <1>3, RoundsPick
<1>5. IsAcc(f)
  <2>1. \A n \in 0 .. m : f[n] = IF n = 0 THEN <<>> ELSE NextPick(s, f[n - 1])
    <3> SUFFICES ASSUME NEW n \in 0 .. m PROVE f[n] = IF n = 0 THEN <<>> ELSE NextPick(s, f[n - 1])
      OBVIOUS
    <3>1. CASE n = 0
      BY <3>1, <1>3 DEF Rounds
    <3>2. CASE n # 0
      <4>1. n \in 1 .. m /\ n - 1 \in Nat /\ n - 1 < m /\ n - 1 \in 0 .. m
        BY <3>2, <1>0
      <4>2. LeftOf(s, f[n - 1]) # {}
        BY <4>1, <1>4, SomeLeft
      <4>. QED  BY <4>1, <4>2, <3>2, <1>3 DEF Rounds
    <3>. QED  BY <3>1, <3>2
  <2>2. f \in [0 .. m -> Seq(Hit)]
    BY <1>2 DEF Unfolds
  <2>. QED  BY <2>1, <2>2
<1>6. IsAcc(acc)
  <2> HIDE DEF IsAcc
  <2>. QED  BY <1>5
<1>7. Diversified(s) = acc[m]
  BY DEF Diversified, Fold, NextPick, BestOf, LeftOf, ValueOf, PenaltyOf
<1>. HIDE DEF acc
<1>8. Rounds(acc, s)
  <2>1. acc[0] = <<>>
    BY <1>6, <1>0
  <2>2. \A n \in 1 .. m : acc[n] = NextPick(s, acc[n - 1])
    BY <1>6, <1>0
  <2>. QED  BY <2>1, <2>2 DEF Rounds
<1>9. Picks(acc[m], m, s)
  BY <1>8, <1>0, RoundsPick
<1>. QED  BY <1>7, <1>9

-----------------------------------------------------------------------------
(* Moving a result up to its slot.                                         *)

\* Two sequences, one after the other.
LEMMA Joined ==
  ASSUME NEW T, NEW a \in Seq(T), NEW b \in Seq(T)
  PROVE  /\ a \o b \in Seq(T) /\ Len(a \o b) = Len(a) + Len(b) /\ DOMAIN (a \o b) = 1 .. Len(a) + Len(b)
         /\ \A i \in 1 .. Len(a) + Len(b) : (a \o b)[i] = IF i <= Len(a) THEN a[i] ELSE b[i - Len(a)]
OBVIOUS

\* A part of a sequence.
LEMMA Part ==
  ASSUME NEW T, NEW s \in Seq(T), NEW i \in Nat, NEW j \in Nat, 1 <= i, i <= j + 1, j <= Len(s)
  PROVE  /\ SubSeq(s, i, j) \in Seq(T) /\ Len(SubSeq(s, i, j)) = j - i + 1
         /\ DOMAIN SubSeq(s, i, j) = 1 .. j - i + 1
         /\ \A k \in 1 .. j - i + 1 : SubSeq(s, i, j)[k] = s[i + k - 1]
<1>1. SubSeq(s, i, j) \in Seq(T) /\ Len(SubSeq(s, i, j)) = j - i + 1
  BY Z3
<1>2. \A k \in 1 .. j - i + 1 : SubSeq(s, i, j)[k] = s[i + k - 1]
  BY Z3
<1>. QED  BY <1>1, <1>2

\* s with its item at m put at n.
Moved(s, m, n) == InsertAt(RemoveAt(s, m), n, s[m])

\* A move upwards keeps the results, and shifts only those it passes.
LEMMA MoveIs ==
  ASSUME NEW T, NEW s \in Seq(T), NEW m \in Nat, NEW n \in Nat, 1 <= n, n < m, m <= Len(s)
  PROVE  /\ Moved(s, m, n) \in Seq(T) /\ Len(Moved(s, m, n)) = Len(s)
         /\ \A i \in 1 .. Len(s) :
               Moved(s, m, n)[i] = IF i < n \/ i > m THEN s[i] ELSE IF i = n THEN s[m] ELSE s[i - 1]
<1> DEFINE r == RemoveAt(s, m)
           t == Moved(s, m, n)
<1>1. /\ r \in Seq(T) /\ Len(r) = Len(s) - 1
      /\ \A i \in 1 .. Len(s) - 1 : r[i] = IF i < m THEN s[i] ELSE s[i + 1]
  <2> DEFINE a == SubSeq(s, 1, m - 1)
             b == SubSeq(s, m + 1, Len(s))
  <2>0. m \in Nat /\ Len(s) \in Nat /\ m - 1 \in Nat /\ 1 <= m /\ m <= Len(s)
    OBVIOUS
  <2>1. a \in Seq(T) /\ Len(a) = m - 1 /\ \A k \in 1 .. m - 1 : a[k] = s[k]
    <3>1. /\ a \in Seq(T) /\ Len(a) = m - 1 - 1 + 1
          /\ \A k \in 1 .. m - 1 - 1 + 1 : a[k] = s[1 + k - 1]
      BY <2>0, Part
    <3>. QED  BY <2>0, <3>1
  <2>2. b \in Seq(T) /\ Len(b) = Len(s) - m /\ \A k \in 1 .. Len(s) - m : b[k] = s[m + k]
    <3>1. /\ b \in Seq(T) /\ Len(b) = Len(s) - (m + 1) + 1
          /\ \A k \in 1 .. Len(s) - (m + 1) + 1 : b[k] = s[m + 1 + k - 1]
      BY <2>0, Part
    <3>. QED  BY <2>0, <3>1
  <2>3. r = a \o b
    BY DEF RemoveAt
  <2>. HIDE DEF a, b, r
  <2>4. /\ r \in Seq(T) /\ Len(r) = Len(a) + Len(b)
        /\ \A i \in 1 .. Len(a) + Len(b) : r[i] = IF i <= Len(a) THEN a[i] ELSE b[i - Len(a)]
    BY <2>1, <2>2, <2>3, Joined
  <2>5. ASSUME NEW i \in 1 .. Len(s) - 1 PROVE r[i] = IF i < m THEN s[i] ELSE s[i + 1]
    <3>1. i \in 1 .. Len(a) + Len(b)
      BY <2>0, <2>1, <2>2
    <3>2. CASE i < m
      <4>1. i <= Len(a) /\ i \in 1 .. m - 1
        BY <2>0, <2>1, <3>2
      <4>. QED  BY <2>1, <2>4, <3>1, <3>2, <4>1
    <3>3. CASE ~(i < m)
      <4>1. ~(i <= Len(a)) /\ i - Len(a) \in 1 .. Len(s) - m /\ m + (i - Len(a)) = i + 1
        BY <2>0, <2>1, <3>3
      <4>2. r[i] = b[i - Len(a)]
        BY <2>4, <3>1, <4>1
      <4>. QED  BY <2>2, <3>3, <4>1, <4>2
    <3>. QED  BY <3>2, <3>3
  <2>. QED  BY <2>0, <2>1, <2>2, <2>4, <2>5
<1>2. t = SubSeq(r, 1, n - 1) \o <<s[m]>> \o SubSeq(r, n, Len(r))
  BY DEF InsertAt, Moved
<1>. HIDE DEF r, t
<1>3. s[m] \in T /\ Len(s) \in Nat /\ n \in Int /\ m \in Int
  OBVIOUS
<1> DEFINE a == SubSeq(r, 1, n - 1)
           b == SubSeq(r, n, Len(r))
           e == <<s[m]>>
<1>10. n \in Nat /\ Len(s) \in Nat /\ n - 1 \in Nat /\ 1 <= n /\ n <= Len(s) - 1
  OBVIOUS
<1>11. a \in Seq(T) /\ Len(a) = n - 1 /\ \A k \in 1 .. n - 1 : a[k] = r[k]
  <2>1. /\ a \in Seq(T) /\ Len(a) = n - 1 - 1 + 1
        /\ \A k \in 1 .. n - 1 - 1 + 1 : a[k] = r[1 + k - 1]
    BY <1>10, <1>1, Part
  <2>. QED  BY <1>10, <2>1
<1>12. b \in Seq(T) /\ Len(b) = Len(s) - n /\ \A k \in 1 .. Len(s) - n : b[k] = r[n + k - 1]
  <2>1. /\ b \in Seq(T) /\ Len(b) = Len(r) - n + 1
        /\ \A k \in 1 .. Len(r) - n + 1 : b[k] = r[n + k - 1]
    BY <1>10, <1>1, Part
  <2>. QED  BY <1>10, <1>1, <2>1
<1>13. e \in Seq(T) /\ Len(e) = 1 /\ e[1] = s[m]
  BY <1>3
<1>. HIDE DEF a, b, e
<1>14. /\ a \o e \in Seq(T) /\ Len(a \o e) = Len(a) + Len(e)
       /\ \A i \in 1 .. Len(a) + Len(e) : (a \o e)[i] = IF i <= Len(a) THEN a[i] ELSE e[i - Len(a)]
  BY <1>11, <1>13, Joined
<1>15. /\ t \in Seq(T) /\ Len(t) = Len(a \o e) + Len(b)
       /\ \A i \in 1 .. Len(a \o e) + Len(b) : t[i] = IF i <= Len(a \o e) THEN (a \o e)[i] ELSE b[i - Len(a \o e)]
  <2>1. t = (a \o e) \o b
    BY <1>2 DEF a, b, e
  <2> DEFINE ae == a \o e
  <2>2. ae \in Seq(T) /\ t = ae \o b
    BY <2>1, <1>14
  <2> HIDE DEF ae
  <2>3. /\ t \in Seq(T) /\ Len(t) = Len(ae) + Len(b)
        /\ \A i \in 1 .. Len(ae) + Len(b) : t[i] = IF i <= Len(ae) THEN ae[i] ELSE b[i - Len(ae)]
    BY <2>2, <1>12, Joined
  <2>. QED  BY <2>3 DEF ae
<1>16. Len(a \o e) = n
  BY <1>10, <1>11, <1>13, <1>14
<1>4. t \in Seq(T) /\ Len(t) = Len(s)
  BY <1>10, <1>12, <1>15, <1>16
<1>5. ASSUME NEW i \in 1 .. Len(s)
      PROVE  t[i] = IF i < n THEN r[i] ELSE IF i = n THEN s[m] ELSE r[i - 1]
  <2>0. i \in 1 .. Len(a \o e) + Len(b)
    BY <1>10, <1>12, <1>16
  <2>1. CASE i < n
    <3>1. t[i] = (a \o e)[i]
      BY <2>0, <2>1, <1>15, <1>16
    <3>2. i \in 1 .. n - 1 /\ i \in 1 .. Len(a) + Len(e) /\ i <= Len(a)
      BY <2>1, <1>10, <1>11, <1>13
    <3>3. (a \o e)[i] = a[i]
      BY <3>2, <1>14
    <3>. QED  BY <2>1, <3>1, <3>2, <3>3, <1>11
  <2>2. CASE i = n
    <3>1. t[i] = (a \o e)[i]
      BY <2>0, <2>2, <1>15, <1>16, <1>10
    <3>2. i \in 1 .. Len(a) + Len(e) /\ ~(i <= Len(a)) /\ i - Len(a) = 1
      BY <2>2, <1>10, <1>11, <1>13
    <3>3. (a \o e)[i] = e[1]
      BY <3>2, <1>14
    <3>. QED  BY <2>2, <3>1, <3>3, <1>13, <1>10
  <2>3. CASE i > n
    <3>1. t[i] = b[i - n]
      BY <2>0, <2>3, <1>15, <1>16, <1>10
    <3>2. i - n \in 1 .. Len(s) - n /\ n + (i - n) - 1 = i - 1
      BY <2>3, <1>10
    <3>. QED  BY <2>3, <3>1, <3>2, <1>12, <1>10
  <2>. QED  BY <2>1, <2>2, <2>3, <1>10
<1>6. ASSUME NEW i \in 1 .. Len(s)
      PROVE  t[i] = IF i < n \/ i > m THEN s[i] ELSE IF i = n THEN s[m] ELSE s[i - 1]
  <2>1. CASE i < n
    <3>1. t[i] = r[i] /\ i \in 1 .. Len(s) - 1 /\ i < m
      BY <1>5, <1>3, <2>1
    <3>. QED  BY <3>1, <1>1, <2>1
  <2>2. CASE i = n
    BY <1>5, <1>3, <2>2
  <2>3. CASE i > n /\ i <= m
    <3>1. t[i] = r[i - 1] /\ i - 1 \in 1 .. Len(s) - 1 /\ i - 1 < m
      BY <1>5, <1>3, <2>3
    <3>. QED  BY <3>1, <1>1, <2>3
  <2>4. CASE i > m
    <3>1. t[i] = r[i - 1] /\ i - 1 \in 1 .. Len(s) - 1 /\ ~(i - 1 < m) /\ i - 1 + 1 = i
      BY <1>5, <1>3, <2>4
    <3>. QED  BY <3>1, <1>1, <2>4
  <2>. QED  BY <1>3, <2>1, <2>2, <2>3, <2>4
<1>. QED  BY <1>4, <1>6 DEF t

\* The places of a channel.
LEMMA AtIs ==
  ASSUME NEW s, HitList(s), NEW c
  PROVE  At(s, c) \in SUBSET Nat /\ At(s, c) \in SUBSET Int /\ At(s, c) \subseteq 1 .. Len(s) /\ IsFiniteSet(At(s, c))
<1>1. At(s, c) \in SUBSET DOMAIN s /\ s \in Seq(Hit) /\ DOMAIN s = 1 .. Len(s)
  BY DEF At, HitList
<1>2. IsFiniteSet(At(s, c))
  BY <1>1, RangeFinite, FS_Subset
<1>. QED  BY <1>1, <1>2

\* A window is no longer than its list.
LEMMA TopWindowIs ==
  ASSUME NEW s, HitList(s)
  PROVE  TopWindow(s) \in Nat /\ TopWindow(s) <= Limit /\ TopWindow(s) <= Len(s)
<1>1. Len(s) \in Nat /\ Limit \in Nat
  BY RankingAssumption DEF HitList
<1> DEFINE S == {5, Limit, Len(s)}
<1>2. S \in SUBSET Nat /\ S \in SUBSET Int /\ S # {} /\ Limit \in S /\ Len(s) \in S
  BY <1>1
<1>3. IsFiniteSet(S)
  <2> DEFINE A == {5} \cup {Limit}
  <2>1. IsFiniteSet({5}) /\ IsFiniteSet({Limit}) /\ IsFiniteSet({Len(s)})
    BY FS_Singleton
  <2>2. IsFiniteSet(A)
    BY <2>1, FS_Union
  <2>3. S = A \cup {Len(s)}
    OBVIOUS
  <2> HIDE DEF A, S
  <2>. QED  BY <2>1, <2>2, <2>3, FS_Union
<1>4. TopWindow(s) = Min(S)
  BY DEF TopWindow
<1>. HIDE DEF S
<1>5. Min(S) \in S /\ \A x \in S : Min(S) <= x
  BY <1>2, <1>3, Extremes
<1>. QED  BY <1>2, <1>4, <1>5

\* What the slots of one channel do.
LEMMA SlotForIs ==
  ASSUME NEW s, HitList(s), NEW c \in Channels, NEW w
  PROVE  /\ HitList(SlotFor(s, c, w)) /\ Range(SlotFor(s, c, w)) = Range(s) /\ Len(SlotFor(s, c, w)) = Len(s)
         /\ \/ SlotFor(s, c, w) = s /\ (TopWindow(s) = 0 \/ ~Earned(c, w) \/ At(s, c) = {} \/ At(s, c) \cap 1 .. TopWindow(s) # {})
            \/ /\ TopWindow(s) > 0 /\ At(s, c) \cap 1 .. TopWindow(s) = {}
               /\ SlotFor(s, c, w)[TopWindow(s)].chan = c
               /\ \A i \in 1 .. TopWindow(s) - 1 : SlotFor(s, c, w)[i] = s[i]
<1> DEFINE n == TopWindow(s)
           m == Min(At(s, c))
           t == SlotFor(s, c, w)
<1>0. s \in Seq(Hit) /\ n \in Nat /\ n <= Len(s) /\ Len(s) \in Nat /\ DOMAIN s = 1 .. Len(s)
  BY TopWindowIs DEF HitList
<1>1. CASE n = 0 \/ ~Earned(c, w) \/ At(s, c) = {} \/ At(s, c) \cap 1 .. n # {}
  <2>1. t = s
    BY <1>1 DEF SlotFor
  <2>. QED  BY <2>1, <1>1
<1>2. CASE ~(n = 0 \/ ~Earned(c, w) \/ At(s, c) = {} \/ At(s, c) \cap 1 .. n # {})
  <2>1. t = Moved(s, m, n)
    BY <1>2 DEF SlotFor, Moved
  <2>2. m \in At(s, c)
    <3>1. At(s, c) \in SUBSET Int /\ IsFiniteSet(At(s, c)) /\ At(s, c) # {}
      BY <1>2, AtIs
    <3>. QED  BY <3>1, Extremes
  <2>3. m \in 1 .. Len(s) /\ s[m].chan = c
    BY <2>2, AtIs DEF At
  <2>. HIDE DEF n, m, t
  <2>4. n \in 1 .. m - 1 /\ m \in Nat /\ 1 <= n /\ n < m /\ m <= Len(s)
    BY <1>0, <1>2, <2>2, <2>3
  <2>5. /\ t \in Seq(Hit) /\ Len(t) = Len(s)
        /\ \A i \in 1 .. Len(s) : t[i] = IF i < n \/ i > m THEN s[i] ELSE IF i = n THEN s[m] ELSE s[i - 1]
    <3>1. /\ Moved(s, m, n) \in Seq(Hit) /\ Len(Moved(s, m, n)) = Len(s)
          /\ \A i \in 1 .. Len(s) :
                Moved(s, m, n)[i] = IF i < n \/ i > m THEN s[i] ELSE IF i = n THEN s[m] ELSE s[i - 1]
      <4>1. s \in Seq(Hit) /\ m \in Nat /\ n \in Nat /\ 1 <= n /\ n < m /\ m <= Len(s)
        BY <1>0, <2>4
      <4>. QED  BY <4>1, MoveIs
    <3>. QED  BY <2>1, <3>1
  <2> DEFINE from == [i \in 1 .. Len(s) |-> IF i < n \/ i > m THEN i ELSE IF i = n THEN m ELSE i - 1]
  <2>6. \A i \in 1 .. Len(s) : from[i] \in 1 .. Len(s) /\ t[i] = s[from[i]]
    <3> SUFFICES ASSUME NEW i \in 1 .. Len(s) PROVE from[i] \in 1 .. Len(s) /\ t[i] = s[from[i]]
      OBVIOUS
    <3>1. CASE i < n \/ i > m
      BY <3>1, <2>5
    <3>2. CASE i = n
      BY <3>2, <2>3, <2>4, <2>5
    <3>3. CASE i > n /\ i <= m
      <4>0. ~(i < n \/ i > m) /\ i # n
        BY <3>3, <2>4
      <4>1. from[i] = i - 1
        BY <4>0
      <4>3. t[i] = s[i - 1]
        BY <4>0, <2>5
      <4>2. i - 1 \in 1 .. Len(s)
        BY <3>3, <2>3, <2>4, <1>0
      <4>. QED  BY <4>1, <4>2, <4>3
    <3>. QED  BY <3>1, <3>2, <3>3, <2>3, <2>4
  <2>7. \A i, j \in 1 .. Len(s) : from[i] = from[j] => i = j
    BY <2>3, <2>4, <1>0
  <2>8. \A k \in 1 .. Len(s) : \E i \in 1 .. Len(s) : from[i] = k
    <3> SUFFICES ASSUME NEW k \in 1 .. Len(s) PROVE \E i \in 1 .. Len(s) : from[i] = k
      OBVIOUS
    <3>1. CASE k < n \/ k > m
      BY <3>1
    <3>2. CASE k = m
      BY <3>2, <2>3, <2>4
    <3>3. CASE n <= k /\ k < m
      <4>1. k + 1 \in 1 .. Len(s) /\ from[k + 1] = k
        BY <3>3, <2>3, <2>4, <1>0
      <4>. QED  BY <4>1
    <3>. QED  BY <3>1, <3>2, <3>3, <2>3, <2>4
  <2>. HIDE DEF from
  <2>9. DOMAIN t = 1 .. Len(s)
    BY <2>5
  <2>10. HitList(t)
    <3>1. \A i, j \in 1 .. Len(s) : t[i].id = t[j].id => i = j
      BY <2>6, <2>7, <1>0 DEF HitList
    <3>. QED  BY <3>1, <2>5, <2>9 DEF HitList
  <2>11. Range(t) = Range(s)
    <3>1. ASSUME NEW i \in 1 .. Len(s) PROVE t[i] \in Range(s)
      BY <2>6, <1>0 DEF Range
    <3>2. ASSUME NEW k \in 1 .. Len(s) PROVE s[k] \in Range(t)
      <4>1. PICK i \in 1 .. Len(s) : from[i] = k
        BY <2>8
      <4>2. t[i] = s[k]
        BY <2>6, <4>1
      <4>3. t[i] \in Range(t)
        BY <2>9 DEF Range
      <4>. QED  BY <4>2, <4>3
    <3>. QED  BY <3>1, <3>2, <2>9, <1>0 DEF Range
  <2>12. t[n].chan = c /\ \A i \in 1 .. n - 1 : t[i] = s[i]
    BY <2>3, <2>4, <2>5, <1>0
  <2>. QED  BY <2>5, <2>10, <2>11, <2>12, <1>0, <1>2 DEF n, t
<1>. QED  BY <1>1, <1>2

-----------------------------------------------------------------------------
(* The slots of both channels, and what a window keeps of them.            *)

\* Every channel that earned a slot of w shows in the first n of s.
Seen(s, w, n) == \A c \in Channels : Earned(c, w) /\ At(s, c) # {} => At(s, c) \cap 1 .. n # {}

\* A result's channel is one of the channels.
LEMMA ChannelOf ==
  ASSUME NEW s, HitList(s), NEW i \in 1 .. Len(s)
  PROVE  s[i].chan \in Channels
<1>1. s[i] \in Hit
  BY DEF HitList
<1>2. s[i] \in [id : Id, chan : Channels, score : Int]
  BY <1>1 DEF Hit
<1>. QED  BY <1>2

\* Lists of the same results have places for the same channels.
LEMMA SameRange ==
  ASSUME NEW s, NEW t, Range(s) = Range(t), NEW c, At(s, c) # {}
  PROVE  At(t, c) # {}
BY DEF Range, At

\* The slots of the two channels do not undo each other.
LEMMA TwoSlots ==
  ASSUME NEW s, HitList(s), NEW a \in Channels, NEW b \in Channels, a # b, NEW w,
         NEW u, u = SlotFor(SlotFor(s, a, w), b, w)
  PROVE  /\ HitList(u) /\ Range(u) = Range(s) /\ Len(u) = Len(s) /\ TopWindow(u) = TopWindow(s)
         /\ TopWindow(s) >= 2 => Seen(u, w, TopWindow(s))
<1> DEFINE t == SlotFor(s, a, w)
           n == TopWindow(s)
<1>1. HitList(t) /\ Range(t) = Range(s) /\ Len(t) = Len(s)
  BY SlotForIs
<1>2. \/ t = s /\ (n = 0 \/ ~Earned(a, w) \/ At(s, a) = {} \/ At(s, a) \cap 1 .. n # {})
      \/ n > 0 /\ At(s, a) \cap 1 .. n = {} /\ t[n].chan = a /\ \A i \in 1 .. n - 1 : t[i] = s[i]
  BY SlotForIs
<1>3. u = SlotFor(t, b, w)
  OBVIOUS
<1>4. TopWindow(t) = n
  BY <1>1 DEF TopWindow
<1>. HIDE DEF t
<1>5. HitList(u) /\ Range(u) = Range(t) /\ Len(u) = Len(t)
  BY <1>1, <1>3, SlotForIs
<1>6. \/ u = t /\ (TopWindow(t) = 0 \/ ~Earned(b, w) \/ At(t, b) = {} \/ At(t, b) \cap 1 .. TopWindow(t) # {})
      \/ /\ TopWindow(t) > 0 /\ At(t, b) \cap 1 .. TopWindow(t) = {} /\ u[TopWindow(t)].chan = b
         /\ \A i \in 1 .. TopWindow(t) - 1 : u[i] = t[i]
  BY <1>1, <1>3, SlotForIs
<1>7. TopWindow(u) = n
  BY <1>1, <1>5 DEF TopWindow
<1>8. n \in Nat /\ n <= Len(s) /\ Len(s) \in Nat /\ DOMAIN s = 1 .. Len(s) /\ DOMAIN t = 1 .. Len(s) /\ DOMAIN u = 1 .. Len(s)
  <2>1. n \in Nat /\ n <= Len(s)
    BY TopWindowIs
  <2>2. s \in Seq(Hit) /\ t \in Seq(Hit) /\ u \in Seq(Hit) /\ Len(t) = Len(s) /\ Len(u) = Len(s)
    BY <1>1, <1>5 DEF HitList
  <2>. HIDE DEF n
  <2>. QED  BY <2>1, <2>2
<1>. HIDE DEF n
<1>9. ASSUME n >= 2 PROVE Seen(u, w, n)
  <2>1. \A c \in Channels : c = a \/ c = b
    BY DEF Channels
  <2>2. Earned(a, w) /\ At(t, a) # {} => At(t, a) \cap 1 .. n # {}
    <3>1. CASE t = s /\ (n = 0 \/ ~Earned(a, w) \/ At(s, a) = {} \/ At(s, a) \cap 1 .. n # {})
      BY <3>1, <1>9
    <3>2. CASE n > 0 /\ t[n].chan = a
      <4>1. n \in At(t, a) /\ n \in 1 .. n
        BY <3>2, <1>8 DEF At
      <4>. QED  BY <4>1
    <3>. QED  BY <1>2, <3>1, <3>2
  <2>3. CASE u = t /\ (n = 0 \/ ~Earned(b, w) \/ At(t, b) = {} \/ At(t, b) \cap 1 .. n # {})
    BY <2>1, <2>2, <2>3, <1>9 DEF Seen
  <2>4. CASE At(t, b) \cap 1 .. n = {} /\ u[n].chan = b /\ \A i \in 1 .. n - 1 : u[i] = t[i]
    <3>1. n \in At(u, b) /\ n \in 1 .. n
      BY <2>4, <1>8, <1>9 DEF At
    <3>2. 1 \in At(u, a) /\ 1 \in 1 .. n
      <4>1. 1 \in 1 .. n - 1 /\ 1 \in 1 .. n /\ 1 \in 1 .. Len(t) /\ 1 \in DOMAIN t /\ 1 \in DOMAIN u
        BY <1>8, <1>9, <1>1
      <4>2. u[1] = t[1] /\ 1 \notin At(t, b)
        BY <2>4, <4>1
      <4>3. t[1].chan \in Channels
        BY <4>1, <1>1, ChannelOf
      <4>4. t[1].chan # b
        BY <4>1, <4>2 DEF At
      <4>5. t[1].chan = a
        BY <4>3, <4>4, <2>1
      <4>. QED  BY <4>1, <4>2, <4>5 DEF At
    <3>. QED  BY <2>1, <3>1, <3>2 DEF Seen
  <2>. QED  BY <1>6, <1>4, <2>3, <2>4
<1>. QED  BY <1>1, <1>5, <1>7, <1>9 DEF n

\* With the slots granted, every channel that earned one is in the window.
LEMMA DiversitySlotsIs ==
  ASSUME NEW s, HitList(s), NEW w, NEW u, u = DiversitySlots(s, w)
  PROVE  /\ HitList(u) /\ Range(u) = Range(s) /\ Len(u) = Len(s) /\ TopWindow(u) = TopWindow(s)
         /\ TopWindow(s) >= 2 => Seen(u, w, TopWindow(s))
<1>1. "code" \in Channels /\ "knowledge" \in Channels /\ "code" # "knowledge"
  BY DEF Channels
<1>2. u = SlotFor(SlotFor(s, "code", w), "knowledge", w) \/ u = SlotFor(SlotFor(s, "knowledge", w), "code", w)
  BY DEF DiversitySlots
<1>3. CASE u = SlotFor(SlotFor(s, "code", w), "knowledge", w)
  BY <1>1, <1>3, TwoSlots
<1>4. CASE u = SlotFor(SlotFor(s, "knowledge", w), "code", w)
  BY <1>1, <1>4, TwoSlots
<1>. QED  BY <1>2, <1>3, <1>4

\* The first of an ascending listing are the smallest.
LEMMA RisingPrefix ==
  ASSUME NEW K \in SUBSET Nat, NEW at, Rising(at, K), Cardinality(K) \in Nat, NEW k \in Nat,
         0 \notin K, 1 .. k \subseteq K
  PROVE  \A i \in 1 .. k : i <= Cardinality(K) /\ at[i] = i
<1> DEFINE N == Cardinality(K)
           T == {n \in Nat : \A i \in 1 .. n : i <= N /\ at[i] = i}
<1>1. 0 \in T
  OBVIOUS
<1>2. ASSUME NEW n \in 0 .. k - 1, n \in T PROVE n + 1 \in T
  <2>1. n \in Nat /\ n + 1 \in 1 .. k
    OBVIOUS
  <2>2. PICK p \in 1 .. N : at[p] = n + 1
    <3>1. n + 1 \in K
      BY <2>1
    <3>. QED  BY <3>1 DEF Rising
  <2>3. \A i \in 1 .. n : i <= N /\ at[i] = i
    BY <1>2
  <2>4. p > n /\ p \in Nat /\ p <= N
    <3>1. p \in 1 .. n => at[p] = p
      BY <2>3
    <3>. QED  BY <3>1, <2>1, <2>2
  <2>5. ~(p > n + 1)
    <3> SUFFICES ASSUME p > n + 1 PROVE FALSE
      OBVIOUS
    <3>1. n + 1 \in 1 .. N
      BY <2>1, <2>4
    <3>2. at[n + 1] < at[p] /\ at[n + 1] \in K
      BY <3>1, <2>2 DEF Rising
    <3> DEFINE j == at[n + 1]
    <3>3. j \in Nat /\ j # 0 /\ j < n + 1
      BY <3>2, <2>2
    <3> HIDE DEF j
    <3>4. j \in 1 .. n /\ j \in 1 .. N /\ at[j] = j
      BY <3>3, <2>1, <2>3, <3>1
    <3>5. at[j] < at[n + 1]
      BY <3>1, <3>3, <3>4 DEF Rising
    <3>6. j < j
      BY <3>4, <3>5 DEF j
    <3>. QED  BY <3>6, <3>3
  <2>6. p = n + 1
    BY <2>1, <2>4, <2>5
  <2>7. \A i \in 1 .. n + 1 : i <= N /\ at[i] = i
    <3> SUFFICES ASSUME NEW i \in 1 .. n + 1 PROVE i <= N /\ at[i] = i
      OBVIOUS
    <3>1. CASE i = n + 1
      BY <3>1, <2>2, <2>4, <2>6
    <3>2. CASE i # n + 1
      <4>1. i \in 1 .. n
        BY <3>2, <2>1
      <4>. QED  BY <4>1, <2>3
    <3>. QED  BY <3>1, <3>2
  <2>. QED  BY <2>1, <2>7
<1>3. 0 .. k \subseteq T
  <2> HIDE DEF T
  <2>. QED  BY <1>1, <1>2, BoundInduct
<1>4. k \in T
  <2>1. k \in 0 .. k
    OBVIOUS
  <2> HIDE DEF T
  <2>. QED  BY <1>3, <2>1
<1>. QED  BY <1>4

\* What is kept of a list without repetition has none.
LEMMA KeepHits ==
  ASSUME NEW s, HitList(s), NEW S
  PROVE  HitList(Keep(s, S)) /\ Range(Keep(s, S)) = Range(s) \cap S
<1>1. s \in Seq(Hit) /\ \A i, j \in DOMAIN s : s[i] = s[j] => i = j
  BY DEF HitList
<1> DEFINE k == Keep(s, S)
<1>2. /\ k \in Seq(Hit \cap S) /\ Range(k) = Range(s) \cap S
      /\ \A i, j \in DOMAIN k : k[i] = k[j] => i = j
  BY <1>1, KeepIs
<1>. HIDE DEF k
<1>3. k \in Seq(Hit)
  BY <1>2
<1>4. ASSUME NEW i \in DOMAIN k, NEW j \in DOMAIN k, k[i].id = k[j].id PROVE i = j
  <2>1. k[i] \in Range(s) /\ k[j] \in Range(s)
    BY <1>2 DEF Range
  <2>2. PICK x \in DOMAIN s : k[i] = s[x]
    BY <2>1 DEF Range
  <2>3. PICK y \in DOMAIN s : k[j] = s[y]
    BY <2>1 DEF Range
  <2>4. x = y
    BY <2>2, <2>3, <1>4 DEF HitList
  <2>. QED  BY <2>2, <2>3, <2>4, <1>2
<1>. QED  BY <1>2, <1>3, <1>4 DEF HitList, k

\* A prefix that is kept whole stays a prefix.
LEMMA KeepPrefix ==
  ASSUME NEW T, NEW s \in Seq(T), NEW S, NEW k \in Nat, k <= Len(s), \A i \in 1 .. k : s[i] \in S
  PROVE  Len(Keep(s, S)) >= k /\ \A i \in 1 .. k : Keep(s, S)[i] = s[i]
<1> DEFINE K == Kept(s, S)
           N == Cardinality(K)
           r == Keep(s, S)
<1>1. N \in Nat /\ K \subseteq 1 .. Len(s)
  BY KeepLists
<1>2. PICK at : Rising(at, K) /\ r = [n \in 1 .. N |-> s[at[n]]]
  BY KeepLists
<1>. HIDE DEF r
<1>3. 1 .. k \subseteq K /\ K \in SUBSET Nat /\ 0 \notin K
  BY <1>1 DEF Kept
<1>. HIDE DEF K
<1>4. \A i \in 1 .. k : i <= N /\ at[i] = i
  BY <1>1, <1>2, <1>3, RisingPrefix
<1>. HIDE DEF N
<1>5. \A i \in 1 .. k : r[i] = s[i]
  BY <1>1, <1>2, <1>4
<1>6. r \in Seq(T) /\ Len(r) = N
  <2>1. r \in [1 .. N -> T]
    <3>1. at \in [1 .. N -> K]
      BY <1>2 DEF Rising, N
    <3>2. K \subseteq DOMAIN s
      BY DEF Kept, K
    <3>3. \A n \in 1 .. N : s[at[n]] \in T
      BY <3>1, <3>2
    <3>. QED  BY <3>3, <1>2
  <2>. QED  BY <2>1, <1>1, FcnIsSeq
<1>7. N >= k
  <2>1. k = 0 \/ k \in 1 .. k
    OBVIOUS
  <2>. QED  BY <2>1, <1>4, <1>1
<1>. QED  BY <1>5, <1>6, <1>7 DEF r

-----------------------------------------------------------------------------
(* Filling a quota from beyond the window.                                 *)

\* r with h put in after its first k.
Spliced(r, h, k) == SubSeq(r, 1, k) \o h \o SubSeq(r, k + 1, Len(r))

\* t is r with the members of T put in after its first k.
IsSplice(t, r, h, k, T) ==
  /\ t \in Seq(T) /\ Len(t) = Len(r) + Len(h)
  /\ \A i \in 1 .. Len(r) + Len(h) :
        t[i] = IF i <= k THEN r[i] ELSE IF i <= k + Len(h) THEN h[i - k] ELSE r[i - Len(h)]

\* What a splice holds, and where.
LEMMA SpliceIs ==
  ASSUME NEW T, NEW r \in Seq(T), NEW h \in Seq(T), NEW k \in Nat, k <= Len(r)
  PROVE  IsSplice(Spliced(r, h, k), r, h, k, T)
<1> DEFINE a == SubSeq(r, 1, k)
           b == SubSeq(r, k + 1, Len(r))
           ah == a \o h
           t == Spliced(r, h, k)
<1>0. Len(r) \in Nat /\ Len(h) \in Nat /\ k + 1 \in Nat
  OBVIOUS
<1>1. a \in Seq(T) /\ Len(a) = k /\ \A i \in 1 .. k : a[i] = r[i]
  <2>1. /\ a \in Seq(T) /\ Len(a) = k - 1 + 1
        /\ \A i \in 1 .. k - 1 + 1 : a[i] = r[1 + i - 1]
    BY <1>0, Part
  <2>. QED  BY <2>1
<1>2. b \in Seq(T) /\ Len(b) = Len(r) - k /\ \A i \in 1 .. Len(r) - k : b[i] = r[k + i]
  <2>1. /\ b \in Seq(T) /\ Len(b) = Len(r) - (k + 1) + 1
        /\ \A i \in 1 .. Len(r) - (k + 1) + 1 : b[i] = r[k + 1 + i - 1]
    BY <1>0, Part
  <2>. QED  BY <2>1, <1>0
<1>3. t = ah \o b
  BY DEF Spliced
<1>. HIDE DEF a, b, t
<1>4. /\ ah \in Seq(T) /\ Len(ah) = k + Len(h)
      /\ \A i \in 1 .. k + Len(h) : ah[i] = IF i <= k THEN a[i] ELSE h[i - k]
  <2>1. /\ ah \in Seq(T) /\ Len(ah) = Len(a) + Len(h)
        /\ \A i \in 1 .. Len(a) + Len(h) : ah[i] = IF i <= Len(a) THEN a[i] ELSE h[i - Len(a)]
    BY <1>1, Joined
  <2>. HIDE DEF ah
  <2>. QED  BY <2>1, <1>1
<1>. HIDE DEF ah
<1>5. /\ t \in Seq(T) /\ Len(t) = Len(ah) + Len(b)
      /\ \A i \in 1 .. Len(ah) + Len(b) : t[i] = IF i <= Len(ah) THEN ah[i] ELSE b[i - Len(ah)]
  <2>1. ah \in Seq(T) /\ b \in Seq(T)
    BY <1>2, <1>4
  <2>. QED  BY <1>3, <2>1, Joined
<1>6. Len(t) = Len(r) + Len(h)
  BY <1>0, <1>2, <1>4, <1>5
<1>7. ASSUME NEW i \in 1 .. Len(r) + Len(h)
      PROVE  t[i] = IF i <= k THEN r[i] ELSE IF i <= k + Len(h) THEN h[i - k] ELSE r[i - Len(h)]
  <2>0. i \in 1 .. Len(ah) + Len(b)
    BY <1>0, <1>2, <1>4
  <2>1. CASE i <= k
    <3>1. i \in 1 .. k + Len(h) /\ i <= Len(ah) /\ i \in 1 .. k
      BY <2>1, <1>0, <1>4
    <3>. QED  BY <3>1, <2>0, <2>1, <1>1, <1>4, <1>5
  <2>2. CASE ~(i <= k) /\ i <= k + Len(h)
    <3>1. i \in 1 .. k + Len(h) /\ i <= Len(ah)
      BY <2>2, <1>0, <1>4
    <3>. QED  BY <3>1, <2>0, <2>2, <1>4, <1>5
  <2>3. CASE ~(i <= k) /\ ~(i <= k + Len(h))
    <3>1. ~(i <= Len(ah)) /\ i - Len(ah) \in 1 .. Len(r) - k /\ k + (i - Len(ah)) = i - Len(h)
      BY <2>3, <1>0, <1>4
    <3>2. t[i] = b[i - Len(ah)]
      BY <3>1, <2>0, <1>5
    <3>. QED  BY <3>1, <3>2, <2>3, <1>2
  <2>. QED  BY <2>1, <2>2, <2>3
<1>. QED  BY <1>5, <1>6, <1>7 DEF t, IsSplice

\* A splice of results that r lacks has no repetition.
LEMMA SpliceHits ==
  ASSUME NEW r, HitList(r), NEW h, HitList(h), NEW k \in Nat, k <= Len(r),
         \A i \in DOMAIN r, j \in DOMAIN h : r[i].id # h[j].id
  PROVE  HitList(Spliced(r, h, k)) /\ Range(Spliced(r, h, k)) = Range(r) \cup Range(h)
<1> DEFINE t == Spliced(r, h, k)
           m == Len(r)
           l == Len(h)
<1>0. r \in Seq(Hit) /\ h \in Seq(Hit) /\ m \in Nat /\ l \in Nat /\ DOMAIN r = 1 .. m /\ DOMAIN h = 1 .. l
  BY DEF HitList
<1>1. /\ t \in Seq(Hit) /\ Len(t) = m + l
      /\ \A i \in 1 .. m + l : t[i] = IF i <= k THEN r[i] ELSE IF i <= k + l THEN h[i - k] ELSE r[i - l]
  <2>1. r \in Seq(Hit) /\ h \in Seq(Hit) /\ k \in Nat /\ k <= Len(r)
    BY <1>0
  <2>2. IsSplice(t, r, h, k, Hit)
    BY <2>1, SpliceIs
  <2>. QED  BY <2>2 DEF IsSplice
<1>2. k <= m
  OBVIOUS
<1>. HIDE DEF t, m, l
<1>3. DOMAIN t = 1 .. m + l
  BY <1>1, <1>0
<1> DEFINE InH(i) == i > k /\ i <= k + l
           spot == [i \in 1 .. m + l |-> IF i <= k THEN i ELSE IF i <= k + l THEN i - k ELSE i - l]
<1>4. ASSUME NEW i \in 1 .. m + l, InH(i) PROVE spot[i] \in 1 .. l /\ t[i] = h[spot[i]]
  BY <1>0, <1>1, <1>2, <1>4
<1>13. ASSUME NEW i \in 1 .. m + l, ~InH(i) PROVE spot[i] \in 1 .. m /\ t[i] = r[spot[i]]
  <2>1. CASE i <= k
    BY <1>0, <1>1, <1>2, <2>1
  <2>2. CASE i > k /\ i > k + l
    BY <1>0, <1>1, <1>2, <2>2
  <2>. QED  BY <1>0, <1>13, <2>1, <2>2
<1>5. ASSUME NEW i \in 1 .. m + l, NEW j \in 1 .. m + l, spot[i] = spot[j], InH(i) <=> InH(j) PROVE i = j
  BY <1>0, <1>2, <1>5
<1>6. ASSUME NEW i \in 1 .. m PROVE \E j \in 1 .. m + l : spot[j] = i /\ ~InH(j)
  <2>1. CASE i <= k
    <3>1. i \in 1 .. m + l /\ spot[i] = i /\ ~InH(i)
      BY <2>1, <1>0, <1>2
    <3>. QED  BY <3>1
  <2>2. CASE i > k
    <3>1. i + l \in 1 .. m + l /\ spot[i + l] = i /\ ~InH(i + l)
      BY <2>2, <1>0, <1>2
    <3>. QED  BY <3>1
  <2>. QED  BY <2>1, <2>2, <1>0
<1>7. ASSUME NEW i \in 1 .. l PROVE \E j \in 1 .. m + l : spot[j] = i /\ InH(j)
  <2>1. i + k \in 1 .. m + l /\ spot[i + k] = i /\ InH(i + k)
    BY <1>0, <1>2
  <2>. QED  BY <2>1
<1>. HIDE DEF InH, spot
<1>8. ASSUME NEW i \in 1 .. m + l, NEW j \in 1 .. m + l, t[i].id = t[j].id PROVE i = j
  <2>1. CASE InH(i) /\ InH(j)
    <3>1. h[spot[i]].id = h[spot[j]].id /\ spot[i] \in 1 .. l /\ spot[j] \in 1 .. l
      BY <2>1, <1>4, <1>8
    <3>2. spot[i] = spot[j]
      BY <3>1, <1>0 DEF HitList
    <3>. QED  BY <2>1, <3>2, <1>5
  <2>2. CASE ~InH(i) /\ ~InH(j)
    <3>1. r[spot[i]].id = r[spot[j]].id /\ spot[i] \in 1 .. m /\ spot[j] \in 1 .. m
      BY <2>2, <1>13, <1>8
    <3>2. spot[i] = spot[j]
      BY <3>1, <1>0 DEF HitList
    <3>. QED  BY <2>2, <3>2, <1>5
  <2>3. CASE InH(i) /\ ~InH(j)
    <3>1. spot[i] \in 1 .. l /\ t[i] = h[spot[i]] /\ spot[j] \in 1 .. m /\ t[j] = r[spot[j]]
      BY <2>3, <1>4, <1>13
    <3>. QED  BY <3>1, <1>8, <1>0
  <2>4. CASE ~InH(i) /\ InH(j)
    <3>1. spot[j] \in 1 .. l /\ t[j] = h[spot[j]] /\ spot[i] \in 1 .. m /\ t[i] = r[spot[i]]
      BY <2>4, <1>4, <1>13
    <3>. QED  BY <3>1, <1>8, <1>0
  <2>. QED  BY <2>1, <2>2, <2>3, <2>4
<1>9. HitList(t)
  BY <1>1, <1>3, <1>8 DEF HitList
<1>10. Range(t) \subseteq Range(r) \cup Range(h)
  <2> SUFFICES ASSUME NEW i \in 1 .. m + l PROVE t[i] \in Range(r) \cup Range(h)
    BY <1>3 DEF Range
  <2>1. CASE InH(i)
    BY <2>1, <1>4, <1>0 DEF Range
  <2>2. CASE ~InH(i)
    BY <2>2, <1>13, <1>0 DEF Range
  <2>. QED  BY <2>1, <2>2
<1>11. Range(r) \subseteq Range(t)
  <2> SUFFICES ASSUME NEW i \in 1 .. m PROVE r[i] \in Range(t)
    BY <1>0 DEF Range
  <2>1. PICK j \in 1 .. m + l : spot[j] = i /\ ~InH(j)
    BY <1>6
  <2>2. t[j] = r[i]
    BY <2>1, <1>13
  <2>. QED  BY <2>2, <1>3 DEF Range
<1>12. Range(h) \subseteq Range(t)
  <2> SUFFICES ASSUME NEW i \in 1 .. l PROVE h[i] \in Range(t)
    BY <1>0 DEF Range
  <2>1. PICK j \in 1 .. m + l : spot[j] = i /\ InH(j)
    BY <1>7
  <2>2. t[j] = h[i]
    BY <2>1, <1>4
  <2>. QED  BY <2>2, <1>3 DEF Range
<1>. QED  BY <1>9, <1>10, <1>11, <1>12 DEF t

\* A quota leaves a place in the window to another channel with a weight.
LEMMA QuotaIs ==
  ASSUME NEW w \in Weights, NEW c \in Channels
  PROVE  /\ Quota(c, w) \in 0 .. Limit
         /\ \A d \in Channels \ {c} : w[d] > 0 /\ Limit > 0 => Quota(c, w) < Limit
<1> DEFINE x == w[c]
           z == x * Limit
<1>1. w.code \in Nat /\ w.knowledge \in Nat /\ w.code + w.knowledge = 1000 /\ \A d \in Channels : w[d] \in Nat
  BY WeightsAdd
<1>2. \A d \in Channels \ {c} : x + w[d] = 1000
  BY <1>1 DEF Channels
<1>3. \E d : d \in Channels \ {c}
  BY DEF Channels
<1>4. x \in 0 .. 1000 /\ Limit \in Nat
  <2>1. PICK d \in Channels : x + w[d] = 1000
    BY <1>2, <1>3
  <2>2. x \in Nat /\ w[d] \in Nat
    BY <1>1
  <2> HIDE DEF x
  <2>3. x \in 0 .. 1000
    BY <2>1, <2>2
  <2>. QED  BY <2>3, RankingAssumption
<1>5. Quota(c, w) = z \div 1000
  BY SMT, <1>1 DEF Quota
<1>. HIDE DEF x
<1>6. z \in Nat /\ z <= 1000 * Limit /\ (x < 1000 /\ Limit > 0 => z < 1000 * Limit)
  BY SMT, <1>4
<1>. HIDE DEF z
<1>7. z \div 1000 \in 0 .. Limit /\ (z < 1000 * Limit => z \div 1000 < Limit)
  BY SMT, <1>4, <1>6
<1>8. ASSUME NEW d \in Channels \ {c}, w[d] > 0, Limit > 0 PROVE Quota(c, w) < Limit
  <2>1. x < 1000
    BY <1>1, <1>2, <1>4, <1>8
  <2>. QED  BY <2>1, <1>5, <1>6, <1>7, <1>8
<1>. QED  BY <1>5, <1>7, <1>8

\* The places of a channel beyond the window.
BeyondWindow(s, c) == {i \in At(s, c) : i > Limit}

\* The items that fill a quota: distinct members of the channel from beyond the window.
Fills(chosen, s, c, k) ==
  /\ chosen \in Seq(At(s, c)) /\ Len(chosen) <= k
  /\ \A i \in DOMAIN chosen : chosen[i] > Limit
  /\ \A i, j \in DOMAIN chosen : chosen[i] = chosen[j] => i = j

\* The first k beyond the window fill a quota of k.
LEMMA ChosenIs ==
  ASSUME NEW s, HitList(s), NEW c, NEW k \in Nat
  PROVE  Fills(Take(Ascending(BeyondWindow(s, c)), k), s, c, k)
<1> DEFINE B == BeyondWindow(s, c)
           N == Cardinality(B)
           beyond == Ascending(B)
           chosen == Take(beyond, k)
<1>1. B \in SUBSET At(s, c) /\ B \in SUBSET Int /\ IsFiniteSet(B)
  <2>1. B \in SUBSET At(s, c)
    BY DEF BeyondWindow
  <2>2. At(s, c) \in SUBSET Int /\ IsFiniteSet(At(s, c))
    BY AtIs
  <2>. HIDE DEF B
  <2>. QED  BY <2>1, <2>2, FS_Subset
<1>2. N \in Nat
  BY <1>1, FS_CardinalityType
<1>3. Rising(beyond, B)
  <2> HIDE DEF B
  <2>. QED  BY <1>1, Ascends
<1>5. \A i \in B : i > Limit
  BY DEF BeyondWindow
<1>. HIDE DEF beyond, B, chosen
<1>6. beyond \in [1 .. N -> B]
  BY <1>3 DEF Rising
<1>. HIDE DEF N
<1>7. beyond \in Seq(B) /\ Len(beyond) = N /\ DOMAIN beyond = 1 .. N
  BY <1>2, <1>6, FcnIsSeq
<1>8. /\ chosen \in Seq(B) /\ Len(chosen) <= k
      /\ \A i \in DOMAIN chosen : i \in DOMAIN beyond /\ chosen[i] = beyond[i]
  BY <1>7, TakeIs DEF chosen
<1>9. \A i, j \in 1 .. N : beyond[i] = beyond[j] => i = j
  <2> SUFFICES ASSUME NEW i \in 1 .. N, NEW j \in 1 .. N, i # j PROVE beyond[i] # beyond[j]
    OBVIOUS
  <2>1. i < j \/ j < i
    BY <1>2
  <2>2. beyond[i] \in Int /\ beyond[j] \in Int
    BY <1>6, <1>1
  <2>. QED  BY <2>1, <2>2, <1>3 DEF Rising, N
<1>10. \A i, j \in DOMAIN chosen : chosen[i] = chosen[j] => i = j
  BY <1>7, <1>8, <1>9
<1>11. \A i \in DOMAIN chosen : chosen[i] \in B
  BY <1>8
<1>12. chosen \in Seq(At(s, c))
  <2>0. chosen \in Seq(B)
    BY <1>8
  <2>1. chosen \in [1 .. Len(chosen) -> B] /\ Len(chosen) \in Nat
    BY <2>0
  <2>2. chosen \in [1 .. Len(chosen) -> At(s, c)]
    BY <2>1, <1>1
  <2>. QED  BY <2>1, <2>2, FcnIsSeq
<1>13. Fills(chosen, s, c, k)
  BY <1>5, <1>8, <1>10, <1>11, <1>12 DEF Fills
<1>. QED  BY <1>13 DEF chosen, beyond, B

\* Filling a quota keeps the list a reordering, and the window's channels in it.
LEMMA FillQuotaIs ==
  ASSUME NEW s, HitList(s), Limit <= Len(s), NEW w \in Weights, NEW c \in Channels, NEW t, t = FillQuota(s, c, w)
  PROVE  /\ HitList(t) /\ Range(t) = Range(s) /\ Limit <= Len(t)
         /\ \A n \in 1 .. Limit : Seen(s, w, n) => Seen(t, w, n)
<1>0. Limit \in Nat /\ s \in Seq(Hit) /\ Len(s) \in Nat /\ DOMAIN s = 1 .. Len(s)
  BY RankingAssumption DEF HitList
<1> DEFINE Here == At(s, c) \cap 1 .. Limit
           present == Cardinality(Here)
           quota == Quota(c, w)
           chosen == Take(Ascending(BeyondWindow(s, c)), quota - present)
           C == {s[i] : i \in Range(chosen)}
           rest == Keep(s, Range(s) \ C)
           cut == Limit - Len(chosen)
           h == [i \in DOMAIN chosen |-> s[chosen[i]]]
<1>1. t = IF ~Earned(c, w) \/ present >= quota THEN s
          ELSE SubSeq(rest, 1, cut) \o h \o SubSeq(rest, cut + 1, Len(rest))
  BY DEF FillQuota, BeyondWindow
<1>2. IsFiniteSet(Here) /\ present \in Nat
  <2>1. Here \in SUBSET At(s, c) /\ IsFiniteSet(At(s, c))
    BY AtIs
  <2>. HIDE DEF Here
  <2>. QED  BY <2>1, FS_Subset, FS_CardinalityType
<1>3. quota \in Nat /\ quota <= Limit /\ \A d \in Channels \ {c} : w[d] > 0 /\ Limit > 0 => quota < Limit
  BY <1>0, QuotaIs
<1>. HIDE DEF present, quota
<1>4. CASE ~Earned(c, w) \/ present >= quota
  BY <1>1, <1>4
<1>5. CASE ~(~Earned(c, w) \/ present >= quota)
  <2>1. t = Spliced(rest, h, cut) /\ quota - present \in Nat
    <3>1. t = SubSeq(rest, 1, cut) \o h \o SubSeq(rest, cut + 1, Len(rest))
      BY <1>1, <1>5
    <3>2. quota - present \in Nat
      BY <1>2, <1>3, <1>5
    <3>. QED  BY <3>1, <3>2 DEF Spliced
  <2>2. /\ chosen \in Seq(At(s, c)) /\ Len(chosen) <= quota - present
        /\ \A i \in DOMAIN chosen : chosen[i] > Limit
        /\ \A i, j \in DOMAIN chosen : chosen[i] = chosen[j] => i = j
    <3> DEFINE k == quota - present
    <3>1. k \in Nat
      BY <2>1
    <3>2. Fills(Take(Ascending(BeyondWindow(s, c)), k), s, c, k)
      <4> HIDE DEF k
      <4>. QED  BY <3>1, ChosenIs
    <3>. QED  BY <3>2 DEF Fills
  <2>. HIDE DEF chosen
  <2>3. /\ DOMAIN chosen = 1 .. Len(chosen) /\ Len(chosen) \in Nat /\ cut \in Nat /\ cut <= Limit
        /\ \A i \in DOMAIN chosen : chosen[i] \in 1 .. Len(s) /\ s[chosen[i]].chan = c
    <3>1. DOMAIN chosen = 1 .. Len(chosen) /\ Len(chosen) \in Nat
      BY <2>2
    <3>2. ASSUME NEW i \in DOMAIN chosen PROVE chosen[i] \in 1 .. Len(s) /\ s[chosen[i]].chan = c
      <4>1. chosen[i] \in At(s, c)
        BY <2>2
      <4>. QED  BY <4>1, AtIs DEF At
    <3>3. cut \in Nat /\ cut <= Limit
      BY <3>1, <2>2, <1>0, <1>2, <1>3, <2>1
    <3>. QED  BY <3>1, <3>2, <3>3
  <2>4. h \in [1 .. Len(chosen) -> Hit]
    <3>1. \A i \in DOMAIN chosen : s[chosen[i]] \in Hit
      BY <1>0, <2>3
    <3>. QED  BY <3>1, <2>3
  <2>5. h \in Seq(Hit) /\ Len(h) = Len(chosen) /\ DOMAIN h = 1 .. Len(chosen)
    <3> HIDE DEF h
    <3>. QED  BY <2>3, <2>4, FcnIsSeq
  <2>6. \A i \in DOMAIN chosen : h[i] = s[chosen[i]]
    OBVIOUS
  <2>7. Range(h) = C
    BY DEF Range
  <2>8. C \subseteq Range(s)
    BY <2>3, <1>0 DEF Range
  <2>9. HitList(rest) /\ Range(rest) = Range(s) \cap (Range(s) \ C)
    <3> HIDE DEF C
    <3>. QED  BY KeepHits
  <2>10. \A i \in 1 .. Limit : s[i] \in Range(s) \ C
    <3> SUFFICES ASSUME NEW i \in 1 .. Limit, s[i] \in C PROVE FALSE
      BY <1>0 DEF Range
    <3>1. PICK j \in DOMAIN chosen : s[i] = s[chosen[j]]
      BY DEF Range
    <3>2. i = chosen[j]
      BY <3>1, <2>3, <1>0 DEF HitList
    <3>. QED  BY <3>2, <2>2, <1>0
  <2>. HIDE DEF C, h
  <2>11. Len(rest) >= Limit /\ \A i \in 1 .. Limit : rest[i] = s[i]
    BY <1>0, <2>10, KeepPrefix
  <2>. HIDE DEF rest, cut
  <2>12. HitList(h)
    <3>1. \A i, j \in 1 .. Len(chosen) : h[i].id = h[j].id => i = j
      <4> SUFFICES ASSUME NEW i \in 1 .. Len(chosen), NEW j \in 1 .. Len(chosen), h[i].id = h[j].id PROVE i = j
        OBVIOUS
      <4>1. s[chosen[i]].id = s[chosen[j]].id /\ chosen[i] \in 1 .. Len(s) /\ chosen[j] \in 1 .. Len(s)
        BY <2>3, <2>6
      <4>2. chosen[i] = chosen[j]
        BY <4>1, <1>0 DEF HitList
      <4>. QED  BY <4>2, <2>2, <2>3
    <3>. QED  BY <3>1, <2>5 DEF HitList
  <2>13. \A i \in DOMAIN rest, j \in DOMAIN h : rest[i].id # h[j].id
    <3> SUFFICES ASSUME NEW i \in DOMAIN rest, NEW j \in DOMAIN h, rest[i].id = h[j].id PROVE FALSE
      OBVIOUS
    <3>1. rest[i] \in Range(rest) /\ h[j] \in C
      BY <2>7 DEF Range
    <3>2. rest[i] \in Range(s) /\ rest[i] \notin C /\ h[j] \in Range(s)
      BY <3>1, <2>8, <2>9
    <3>3. PICK x \in DOMAIN s : rest[i] = s[x]
      BY <3>2 DEF Range
    <3>4. PICK y \in DOMAIN s : h[j] = s[y]
      BY <3>2 DEF Range
    <3>5. x = y
      BY <3>3, <3>4 DEF HitList
    <3>. QED  BY <3>1, <3>2, <3>3, <3>4, <3>5
  <2>14. rest \in Seq(Hit) /\ Len(rest) \in Nat /\ cut <= Len(rest)
    BY <1>0, <2>3, <2>9, <2>11 DEF HitList
  <2>15. HitList(t) /\ Range(t) = Range(rest) \cup Range(h)
    BY <2>1, <2>3, <2>9, <2>12, <2>13, <2>14, SpliceHits
  <2>16. Range(t) = Range(s)
    BY <2>7, <2>8, <2>9, <2>15
  <2>17. /\ Len(t) = Len(rest) + Len(h)
         /\ \A i \in 1 .. Len(rest) + Len(h) :
               t[i] = IF i <= cut THEN rest[i] ELSE IF i <= cut + Len(h) THEN h[i - cut] ELSE rest[i - Len(h)]
    <3>1. rest \in Seq(Hit) /\ h \in Seq(Hit) /\ cut \in Nat /\ cut <= Len(rest)
      BY <2>3, <2>5, <2>14
    <3>2. IsSplice(Spliced(rest, h, cut), rest, h, cut, Hit)
      BY <3>1, SpliceIs
    <3>3. IsSplice(t, rest, h, cut, Hit)
      BY <2>1, <3>2
    <3>. QED  BY <3>3 DEF IsSplice
  <2>18. Limit <= Len(t) /\ DOMAIN t = 1 .. Len(t) /\ Len(t) \in Nat
    BY <1>0, <2>3, <2>5, <2>11, <2>14, <2>15, <2>17 DEF HitList
  <2>19. ASSUME NEW i \in 1 .. Limit PROVE i <= cut => t[i] = s[i]
    <3>1. i \in 1 .. Len(rest) + Len(h)
      BY <1>0, <2>5, <2>3, <2>11, <2>14
    <3>. QED  BY <3>1, <2>11, <2>17
  <2>20. ASSUME NEW i \in 1 .. Limit, i > cut PROVE t[i].chan = c
    <3>1. i \in 1 .. Len(rest) + Len(h) /\ ~(i <= cut) /\ i <= cut + Len(h) /\ i - cut \in 1 .. Len(chosen)
      BY <1>0, <2>5, <2>3, <2>11, <2>14, <2>20 DEF cut
    <3>2. t[i] = h[i - cut]
      BY <3>1, <2>17
    <3>. QED  BY <3>1, <3>2, <2>3, <2>6
  <2>21. ASSUME NEW n \in 1 .. Limit, Seen(s, w, n), NEW d \in Channels, Earned(d, w), At(t, d) # {}
         PROVE  At(t, d) \cap 1 .. n # {}
    <3>1. At(s, d) # {}
      BY <2>16, <2>21, SameRange
    <3>2. At(s, d) \cap 1 .. n # {}
      BY <3>1, <2>21 DEF Seen
    <3> DEFINE P == At(s, d) \cap 1 .. n
               p == Min(P)
    <3>3. p \in P /\ \A x \in P : p <= x
      <4>1. P \in SUBSET Int /\ IsFiniteSet(P) /\ P # {}
        <5>1. P \in SUBSET At(s, d) /\ IsFiniteSet(At(s, d)) /\ At(s, d) \in SUBSET Int
          BY AtIs
        <5>2. P # {}
          BY <3>2
        <5> HIDE DEF P
        <5>. QED  BY <5>1, <5>2, FS_Subset
      <4> HIDE DEF P
      <4>. QED  BY <4>1, Extremes
    <3>. HIDE DEF p
    <3>4. p \in 1 .. n /\ p \in 1 .. Limit /\ s[p].chan = d /\ p \in DOMAIN t
      BY <3>3, <1>0, <2>18 DEF At
    <3>5. CASE p <= cut
      <4>1. t[p] = s[p]
        BY <3>4, <3>5, <2>19
      <4>. QED  BY <3>4, <4>1 DEF At
    <3>6. CASE p > cut /\ d = c
      <4>1. t[p].chan = d
        BY <3>4, <3>6, <2>20
      <4>. QED  BY <3>4, <4>1 DEF At
    <3>7. CASE d # c
      <4>1. 1 .. p - 1 \subseteq Here
        <5> SUFFICES ASSUME NEW i \in 1 .. p - 1 PROVE i \in At(s, c) /\ i \in 1 .. Limit
          OBVIOUS
        <5>1. i \in 1 .. Limit /\ i \in 1 .. n /\ i \in 1 .. Len(s) /\ i < p
          BY <3>4, <1>0
        <5>2. i \notin P
          BY <5>1, <3>3
        <5>3. s[i].chan # d
          BY <5>1, <5>2, <1>0 DEF At
        <5>4. s[i].chan \in Channels
          BY <5>1, ChannelOf
        <5>5. s[i].chan = c
          BY <5>3, <5>4, <3>7 DEF Channels
        <5>. QED  BY <5>1, <5>5, <1>0 DEF At
      <4>2. p - 1 <= present
        <5> DEFINE k == p - 1
        <5>1. k \in Nat /\ 1 \in Int /\ k \in Int
          BY <3>4
        <5>2. 1 .. k \in SUBSET Here
          BY <4>1
        <5> HIDE DEF Here, k
        <5>3. Cardinality(1 .. k) <= present
          BY <5>2, <1>2, FS_Subset DEF present
        <5>4. Cardinality(1 .. k) = IF 1 > k THEN 0 ELSE k - 1 + 1
          BY <5>1, FS_Interval
        <5>5. k <= present
          BY <5>1, <5>3, <5>4
        <5>. QED  BY <5>5 DEF k
      <4>3. w[d] > 0 /\ Limit > 0
        <5>1. w[d] \in Nat /\ w.code + w.knowledge = 1000 /\ 5 * w[d] >= w.code + w.knowledge
          BY <2>21, WeightsAdd DEF Earned
        <5>2. w[d] > 0
          BY SMT, <5>1
        <5>. QED  BY <5>2, <3>4, <1>0
      <4>4. quota < Limit
        BY <4>3, <3>7, <1>3
      <4>5. p <= cut
        BY <4>2, <4>4, <2>2, <2>3, <1>0, <1>2, <1>3, <3>4 DEF cut
      <4>. QED  BY <4>5, <3>5
    <3>8. p \in Nat /\ cut \in Nat
      BY <3>4, <2>3
    <3>. QED  BY <3>5, <3>6, <3>7, <3>8
  <2>22. \A n \in 1 .. Limit : Seen(s, w, n) => Seen(t, w, n)
    BY <2>21 DEF Seen
  <2>. QED  BY <2>15, <2>16, <2>18, <2>22
<1>. QED  BY <1>4, <1>5

\* The quotas of both channels keep the list a reordering.
LEMMA WindowQuotaIs ==
  ASSUME NEW s, HitList(s), NEW w \in Weights, NEW t, t = WindowQuota(s, w)
  PROVE  /\ HitList(t) /\ Range(t) = Range(s) /\ TopWindow(t) = TopWindow(s)
         /\ TopWindow(s) >= 1 /\ Seen(s, w, TopWindow(s)) => Seen(t, w, TopWindow(s))
<1>0. Limit \in Nat /\ Len(s) \in Nat
  BY RankingAssumption DEF HitList
<1>1. CASE Len(s) <= Limit \/ w.code + w.knowledge = 0
  BY <1>1 DEF WindowQuota
<1>2. CASE ~(Len(s) <= Limit \/ w.code + w.knowledge = 0)
  <2> DEFINE u == FillQuota(s, "code", w)
  <2>1. t = FillQuota(u, "knowledge", w)
    BY <1>2 DEF WindowQuota
  <2>2. "code" \in Channels /\ "knowledge" \in Channels /\ Limit <= Len(s)
    BY <1>0, <1>2 DEF Channels
  <2>3. HitList(u) /\ Range(u) = Range(s) /\ Limit <= Len(u) /\ \A n \in 1 .. Limit : Seen(s, w, n) => Seen(u, w, n)
    BY <2>2, FillQuotaIs
  <2>. HIDE DEF u
  <2>4. HitList(t) /\ Range(t) = Range(u) /\ Limit <= Len(t) /\ \A n \in 1 .. Limit : Seen(u, w, n) => Seen(t, w, n)
    BY <2>1, <2>2, <2>3, FillQuotaIs
  <2>5. TopWindow(s) \in Nat /\ TopWindow(s) <= Limit
    BY TopWindowIs
  <2>6. TopWindow(t) = TopWindow(s)
    <3> DEFINE Window3(l) == {5, Limit, l}
    <3>1. ASSUME NEW l \in Nat, Limit <= l PROVE Min({5, Limit, l}) = Min({5, Limit})
      <4>1. IsFiniteSet({5, Limit}) /\ IsFiniteSet({5, Limit, l})
        <5>1. {5, Limit} = {5} \cup {Limit} /\ {5, Limit, l} = {5, Limit} \cup {l}
          OBVIOUS
        <5>2. IsFiniteSet({5}) /\ IsFiniteSet({Limit}) /\ IsFiniteSet({l})
          BY FS_Singleton
        <5>3. IsFiniteSet({5} \cup {Limit})
          BY <5>2, FS_Union
        <5>4. IsFiniteSet({5, Limit})
          BY <5>1, <5>3
        <5>5. IsFiniteSet({5, Limit} \cup {l})
          BY <5>2, <5>4, FS_Union
        <5>. QED  BY <5>1, <5>4, <5>5
      <4> DEFINE X == {5, Limit}
                 Y == {5, Limit, l}
      <4>2. X \in SUBSET Int /\ Y \in SUBSET Int /\ X # {} /\ Y # {}
        BY <1>0
      <4>3. /\ Min(X) \in X /\ \A x \in X : Min(X) <= x
            /\ Min(Y) \in Y /\ \A x \in Y : Min(Y) <= x
        <5>1. IsFiniteSet(X) /\ IsFiniteSet(Y)
          BY <4>1
        <5> HIDE DEF X, Y
        <5>. QED  BY <4>2, <5>1, Extremes
      <4> DEFINE a == Min(X)
                 b == Min(Y)
      <4>4. (a = 5 \/ a = Limit) /\ a <= 5 /\ a <= Limit
        BY <4>3
      <4>5. (b = 5 \/ b = Limit \/ b = l) /\ b <= 5 /\ b <= Limit
        BY <4>3
      <4> HIDE DEF a, b
      <4>6. a = b
        BY <4>4, <4>5, <1>0, <3>1
      <4>. QED  BY <4>6 DEF a, b
    <3>2. Len(t) \in Nat /\ Limit <= Len(t) /\ Limit <= Len(s)
      BY <2>2, <2>4 DEF HitList
    <3>3. Min({5, Limit, Len(t)}) = Min({5, Limit}) /\ Min({5, Limit, Len(s)}) = Min({5, Limit})
      BY <3>1, <3>2, <1>0
    <3>. QED  BY <3>3 DEF TopWindow
  <2>7. TopWindow(s) >= 1 => TopWindow(s) \in 1 .. Limit
    BY <2>5, <1>0
  <2>. QED  BY <2>3, <2>4, <2>6, <2>7
<1>. QED  BY <1>1, <1>2

\* What the stages after the merge do to a list: nothing is repeated, nothing is
\* added, and each channel that earned a slot shows in the window, for every list,
\* weights, limit and drift, with or without vectors and quota (src/search/rank.rs).
THEOREM PostMergeKeepsSlots ==
  ASSUME NEW s, HitList(s), NEW w \in Weights, NEW vectors, NEW quota, NEW t, t = PostMerged(s, w, vectors, quota)
  PROVE  /\ HitList(t) /\ Ids(Range(t)) \subseteq Ids(Range(s))
         /\ TopWindow(t) >= 2 => Seen(t, w, TopWindow(t))
<1> DEFINE a == Boosted(s)
           b == IF vectors THEN Diversified(a) ELSE a
           c == DiversitySlots(b, w)
<1>1. HitList(a) /\ Ids(Range(a)) = Ids(Range(s))
  BY BoostedIs
<1>2. t = IF quota THEN WindowQuota(c, w) ELSE c
  BY DEF PostMerged
<1>. HIDE DEF a
<1>3. HitList(b) /\ Range(b) \subseteq Range(a)
  <2>1. Picks(Diversified(a), Len(a), a)
    BY <1>1, DiversifiedIs
  <2>. QED  BY <1>1, <2>1 DEF Picks
<1>. HIDE DEF b
<1>4. /\ HitList(c) /\ Range(c) = Range(b) /\ TopWindow(c) = TopWindow(b)
      /\ TopWindow(b) >= 2 => Seen(c, w, TopWindow(b))
  BY <1>3, DiversitySlotsIs
<1>. HIDE DEF c
<1>5. /\ HitList(t) /\ Range(t) = Range(c) /\ TopWindow(t) = TopWindow(c)
      /\ TopWindow(c) >= 2 => Seen(t, w, TopWindow(c))
  <2>1. CASE ~quota
    BY <2>1, <1>2, <1>4
  <2>2. CASE quota
    <3>1. t = WindowQuota(c, w) /\ TopWindow(c) \in Nat
      BY <2>2, <1>2, <1>4, TopWindowIs
    <3>2. /\ HitList(t) /\ Range(t) = Range(c) /\ TopWindow(t) = TopWindow(c)
          /\ TopWindow(c) >= 1 /\ Seen(c, w, TopWindow(c)) => Seen(t, w, TopWindow(c))
      BY <3>1, <1>4, WindowQuotaIs
    <3>. QED  BY <3>1, <3>2, <1>4
  <2>. QED  BY <2>1, <2>2
<1>6. Ids(Range(t)) \subseteq Ids(Range(a))
  BY <1>3, <1>4, <1>5 DEF Ids
<1>. QED  BY <1>1, <1>4, <1>5, <1>6

-----------------------------------------------------------------------------
(* The lists a search reads.                                               *)

\* The ways a lead is found.
Vias == {"walk", "sibling", "history", "terms", "deep", "weak"}
\* What is found beyond the hits.
Leads == [id : Id, score : Int, via : Vias]

\* Every entity of the list was active at some moment of the search, unless
\* the query asks for any status.
Live(S) == q.all \/ S \subseteq alive

\* A sequence over a set is one over a larger set.
LEMMA SeqUp ==
  ASSUME NEW A, NEW B, A \subseteq B, NEW s \in Seq(A)
  PROVE  s \in Seq(B)
<1>1. s \in [1 .. Len(s) -> A] /\ Len(s) \in Nat
  OBVIOUS
<1>2. s \in [1 .. Len(s) -> B]
  BY <1>1
<1>. QED  BY <1>1, <1>2, FcnIsSeq

\* Sorted is a sequence of exactly its items.
LEMMA SortedSeq ==
  ASSUME NEW T, NEW S \in SUBSET T, IsFiniteSet(S), Item(S), Single(S)
  PROVE  Sorted(S) \in Seq(T) /\ Range(Sorted(S)) = S
<1> DEFINE n == Cardinality(S)
<1>2. n \in Nat
  BY FS_CardinalityType
<1>3. /\ Sorted(S) \in [1 .. n -> S]
      /\ \A x \in S : \E i \in 1 .. n : Sorted(S)[i] = x
  BY SortedLists
<1>. HIDE DEF n
<1>4. Sorted(S) \in Seq(S) /\ DOMAIN Sorted(S) = 1 .. n
  BY <1>2, <1>3, FcnIsSeq
<1>5. Sorted(S) \in Seq(T)
  BY <1>4, SeqUp
<1>6. Range(Sorted(S)) = S
  BY <1>3, <1>4 DEF Range
<1>. QED  BY <1>5, <1>6

\* An answer holds entities of its source that the query admits.
LEMMA AnswerIs ==
  ASSUME NEW T \in SUBSET Id, NEW s \in Seq(T), NEW n \in Nat
  PROVE  /\ Answer(s, n) \in Seq(T) /\ Range(Answer(s, n)) \subseteq Range(s)
         /\ \A x \in Range(Answer(s, n)) : x \in Id /\ Admitted(x)
<1> DEFINE A == {x \in Id : Admitted(x)}
           k == Keep(s, A)
<1>1. k \in Seq(T \cap A) /\ Range(k) = Range(s) \cap A
  <2> HIDE DEF A
  <2>. QED  BY KeepIs
<1>2. Answer(s, n) = Take(k, n)
  BY DEF Answer
<1>. HIDE DEF k
<1>3. Take(k, n) \in Seq(T \cap A) /\ Range(Take(k, n)) \subseteq Range(k)
  <2> HIDE DEF A
  <2>. QED  BY <1>1, TakeIs
<1>4. Take(k, n) \in Seq(T)
  <2> HIDE DEF A
  <2>. QED  BY <1>3, SeqUp
<1>. QED  BY <1>1, <1>2, <1>3, <1>4

\* The part of a list in one channel.
LEMMA OfChanIs ==
  ASSUME NEW s \in Seq(Id), NEW c
  PROVE  OfChan(s, c) \in Seq(InChannel(c)) /\ Range(OfChan(s, c)) \subseteq Range(s) /\ Len(OfChan(s, c)) <= Len(s)
<1> DEFINE k == Keep(s, InChannel(c))
<1>1. OfChan(s, c) = k
  BY DEF OfChan, InChannel
<1>2. k \in Seq(Id \cap InChannel(c)) /\ Range(k) = Range(s) \cap InChannel(c) /\ Len(k) <= Len(s)
  BY KeepIs
<1>3. Id \cap InChannel(c) \subseteq InChannel(c)
  OBVIOUS
<1>. HIDE DEF k
<1>4. k \in Seq(InChannel(c))
  BY <1>2, <1>3, SeqUp
<1>. QED  BY <1>1, <1>2, <1>4

\* A total of as many integers as there are.
LEMMA SumIs ==
  ASSUME NEW n \in Nat, NEW s \in [1 .. n -> Int]
  PROVE  Total(s) \in Int
<1>1. s \in Seq(Int)
  BY FcnIsSeq
<1>. QED  BY <1>1, TotalType

\* Ids are numbers.
LEMMA IdNat == \A x \in Id : x \in Nat /\ x \in Int
BY SearchAssumption

\* Sets of entities are finite.
LEMMA IdFinite ==
  ASSUME NEW S \in SUBSET Id
  PROVE  IsFiniteSet(S)
BY SearchAssumption, FS_Subset

\* The entities of S with a score each.
LEMMA ScoredIs ==
  ASSUME NEW S \in SUBSET Id, NEW score, \A x \in S : score[x] \in Int,
         NEW L, L = {[id |-> x, score |-> score[x]] : x \in S}
  PROVE  /\ L \in SUBSET Scores(Id, Int) /\ IsFiniteSet(L) /\ Item(L) /\ Single(L) /\ Ids(L) = S
<1> DEFINE f == [x \in S |-> [id |-> x, score |-> score[x]]]
<1>1. L = {f[x] : x \in S} /\ DOMAIN f = S
  OBVIOUS
<1>2. \A x \in S : f[x] \in Scores(Id, Int) /\ f[x].id = x /\ f[x].score \in Int
  <2> SUFFICES ASSUME NEW x \in S PROVE f[x] \in Scores(Id, Int) /\ f[x].id = x /\ f[x].score \in Int
    OBVIOUS
  <2>1. f[x] = [id |-> x, score |-> score[x]] /\ x \in Id /\ score[x] \in Int
    OBVIOUS
  <2>. HIDE DEF f
  <2>. QED  BY <2>1 DEF Scores
<1>. HIDE DEF f
<1>3. IsFiniteSet(L)
  BY <1>1, IdFinite, ImageFinite
<1>4. Item(L)
  BY <1>1, <1>2, IdNat DEF Item
<1>5. L \in SUBSET Scores(Id, Int)
  BY <1>1, <1>2
<1>6. Single(L)
  BY <1>1, <1>2 DEF Single
<1>7. Ids(L) = S
  BY <1>1, <1>2 DEF Ids
<1>. QED  BY <1>3, <1>4, <1>5, <1>6, <1>7

\* The first of them in their order.
BestScored(S, score) == Take(Sorted({[id |-> x, score |-> score[x]] : x \in S}), Limit)

\* Their list has each once.
LEMMA BestScoredIs ==
  ASSUME NEW S \in SUBSET Id, NEW score, \A x \in S : score[x] \in Int
  PROVE  /\ BestScored(S, score) \in Seq(Scores(Id, Int)) /\ Single(Range(BestScored(S, score)))
         /\ Ids(Range(BestScored(S, score))) \subseteq S
<1> DEFINE L == {[id |-> x, score |-> score[x]] : x \in S}
           b == BestScored(S, score)
<1>1. L \in SUBSET Scores(Id, Int) /\ IsFiniteSet(L) /\ Item(L) /\ Single(L) /\ Ids(L) = S
  <2> DEFINE M == L
  <2>1. M = {[id |-> x, score |-> score[x]] : x \in S}
    OBVIOUS
  <2> HIDE DEF M
  <2>. QED  BY ScoredIs
<1>2. b = Take(Sorted(L), Limit)
  BY DEF BestScored
<1>. HIDE DEF L
<1>3. Sorted(L) \in Seq(Scores(Id, Int)) /\ Range(Sorted(L)) = L
  BY <1>1, SortedSeq
<1>4. Take(Sorted(L), Limit) \in Seq(Scores(Id, Int)) /\ Range(Take(Sorted(L), Limit)) \subseteq Range(Sorted(L))
  BY <1>3, RankingAssumption, TakeIs
<1>. HIDE DEF b
<1>5. b \in Seq(Scores(Id, Int)) /\ Range(b) \subseteq L
  BY <1>2, <1>3, <1>4
<1>6. Single(Range(b)) /\ Ids(Range(b)) \subseteq S
  BY <1>1, <1>5 DEF Single, Ids
<1>. QED  BY <1>5, <1>6 DEF b

-----------------------------------------------------------------------------
(* The graph channel.                                                      *)

\* The settings are natural numbers.
LEMMA Settings == MaxSeeds \in Nat /\ MaxHops \in Nat /\ Anchors \in Nat /\ MaxChanges \in Nat /\ Limit \in Nat /\ MinRelevance \in Nat
BY SearchAssumption, RankingAssumption

\* Seeds are entities, each with an integer weight.
LEMMA SeedWeightIs ==
  ASSUME fts \in Seq(Id), vec.code \in Seq(Id), vec.knowledge \in Seq(Id)
  PROVE  Seeds \subseteq Id /\ \A x \in Seeds : SeedWeight(x) \in Int
<1>1. Window \in Seq(Id)
  BY Settings, TakeIs DEF Window
<1> DEFINE a == Take(Window, MaxSeeds)
           b == Take(vec.code, MaxSeeds)
           c == Take(vec.knowledge, MaxSeeds)
<1>2. SeedLists = {a, b, c}
  BY DEF SeedLists
<1>3. a \in Seq(Id) /\ Len(a) <= MaxSeeds
  BY <1>1, Settings, TakeIs
<1>4. b \in Seq(Id) /\ Len(b) <= MaxSeeds
  BY Settings, TakeIs
<1>5. c \in Seq(Id) /\ Len(c) <= MaxSeeds
  BY Settings, TakeIs
<1>. HIDE DEF a, b, c
<1>6. ASSUME NEW l \in SeedLists PROVE l \in Seq(Id) /\ DOMAIN l \subseteq 1 .. MaxSeeds
  <2>1. l \in Seq(Id) /\ Len(l) <= MaxSeeds
    BY <1>2, <1>3, <1>4, <1>5
  <2>. QED  BY <2>1, Settings
<1>7. Seeds \subseteq Id
  BY <1>6 DEF Seeds, Range
<1>8. ASSUME NEW x \in Seeds PROVE SeedWeight(x) \in Int
  <2> DEFINE P == UNION {{j \in DOMAIN l : l[j] = x} : l \in SeedLists}
             f == [i \in P |-> (1000 * MaxSeeds) \div (MaxSeeds + i - 1)]
             W == {(1000 * MaxSeeds) \div (MaxSeeds + i - 1) : i \in P}
  <2>1. P \subseteq 1 .. MaxSeeds
    BY <1>6
  <2>2. P # {}
    BY DEF Seeds, Range
  <2>3. IsFiniteSet(P)
    <3> DEFINE m == MaxSeeds
    <3>1. 1 \in Int /\ m \in Int /\ P \in SUBSET (1 .. m)
      BY <2>1, Settings
    <3>2. IsFiniteSet(1 .. m)
      <4> HIDE DEF m
      <4>. QED  BY <3>1, FS_Interval
    <3> HIDE DEF P, m
    <3>. QED  BY <3>1, <3>2, FS_Subset
  <2>4. SeedWeight(x) = Max(W)
    BY DEF SeedWeight
  <2>5. ASSUME NEW i \in P PROVE f[i] \in Int
    <3>1. i \in Nat /\ i >= 1 /\ i <= MaxSeeds /\ MaxSeeds \in Nat
      <4>1. MaxSeeds \in Nat
        BY Settings
      <4>2. i \in 1 .. MaxSeeds
        BY <2>1
      <4>. QED  BY <4>1, <4>2
    <3> DEFINE d == MaxSeeds + i - 1
               e == 1000 * MaxSeeds
    <3>2. d \in Nat /\ d > 0 /\ e \in Nat
      BY <3>1
    <3>3. e \div d \in Int
      <4> HIDE DEF d, e
      <4>. QED  BY <3>2
    <3>. QED  BY <3>3
  <2>6. W = {f[i] : i \in P} /\ DOMAIN f = P
    <3> HIDE DEF P
    <3>. QED  OBVIOUS
  <2>. HIDE DEF W, f, P
  <2>7. IsFiniteSet(W)
    BY <2>3, <2>6, ImageFinite
  <2>8. W \in SUBSET Int /\ W # {}
    BY <2>2, <2>5, <2>6
  <2>9. Max(W) \in W
    BY <2>7, <2>8, Extremes
  <2>. QED  BY <2>4, <2>8, <2>9
<1>. QED  BY <1>7, <1>8

\* What a graph channel may answer: entities the query admits, with a score.
GraphOK(c) ==
  /\ c.direct \in Seq(Scores(Id, Int)) /\ c.weak \in Seq(Scores(Id, Int)) /\ Single(Range(c.weak))
  /\ \A x \in Ids(Range(c.direct)) \cup Ids(Range(c.weak)) : x \in Id /\ Admitted(x)

\* The graph channel's answer is such a list.
LEMMA GraphCandidatesIs ==
  ASSUME fts \in Seq(Id), vec.code \in Seq(Id), vec.knowledge \in Seq(Id)
  PROVE  GraphOK(GraphCandidates)
<1> DEFINE from == [s \in Seeds |-> Reach({s}, CuratedLinks, MaxHops)]
           reaching == [x \in Id |-> {s \in Seeds \ {x} : x \in DOMAIN from[s]}]
           Half(n) == IF n = 1 THEN 500 ELSE 250
           points(x) == LET by == Ascending(reaching[x])
                        IN [i \in DOMAIN by |-> (SeedWeight(by[i]) * Half(from[by[i]][x].hops)) \div 1000]
           score == [x \in Id |-> Total(points(x))]
           fit == {x \in Id \ Range(Window) : Admitted(x) /\ score[x] >= 200}
           direct == {x \in fit : \E s \in reaching[x] : DirectSeed(s)}
<1>1. GraphCandidates = [direct |-> BestScored(direct, score), weak |-> BestScored(fit \ direct, score)]
  BY DEF GraphCandidates, BestScored
<1>2. \A x \in Id : reaching[x] \subseteq Seeds
  OBVIOUS
<1>3. ASSUME NEW x \in Id PROVE Total(points(x)) \in Int
  <2> DEFINE S == reaching[x]
             n == Cardinality(S)
             by == Ascending(S)
             p == points(x)
  <2>1. S \subseteq Seeds /\ Seeds \subseteq Id
    BY <1>2, SeedWeightIs
  <2>2. S \in SUBSET Id /\ S \in SUBSET Int
    BY <2>1, IdNat
  <2>. HIDE DEF S
  <2>3. IsFiniteSet(S)
    BY <2>2, IdFinite
  <2>4. n \in Nat
    BY <2>3, FS_CardinalityType
  <2>5. Rising(by, S)
    BY <2>2, <2>3, Ascends
  <2>6. p = [i \in DOMAIN by |-> (SeedWeight(by[i]) * Half(from[by[i]][x].hops)) \div 1000]
    BY DEF S
  <2>. HIDE DEF by
  <2>7. by \in [1 .. n -> S]
    BY <2>5 DEF Rising
  <2>. HIDE DEF n, p, points, from
  <2>8. ASSUME NEW i \in 1 .. n PROVE (SeedWeight(by[i]) * Half(from[by[i]][x].hops)) \div 1000 \in Int
    <3>1. by[i] \in Seeds
      BY <2>1, <2>7
    <3> DEFINE a == SeedWeight(by[i])
               b == Half(from[by[i]][x].hops)
    <3>2. a \in Int
      BY <3>1, SeedWeightIs
    <3>3. b \in Int
      OBVIOUS
    <3> HIDE DEF a, b
    <3>4. (a * b) \div 1000 \in Int
      BY SMT, <3>2, <3>3
    <3>. QED  BY <3>4 DEF a, b
  <2>9. p \in [1 .. n -> Int]
    BY <2>6, <2>7, <2>8
  <2>10. Total(p) \in Int
    BY <2>4, <2>9, SumIs
  <2>. QED  BY <2>10 DEF p
<1>. HIDE DEF points
<1>4. \A x \in Id : score[x] \in Int
  BY <1>3
<1>5. direct \in SUBSET Id /\ fit \ direct \in SUBSET Id /\ \A x \in fit : x \in Id /\ Admitted(x)
  <2> HIDE DEF score, reaching
  <2>. QED  OBVIOUS
<1>. HIDE DEF score, reaching
<1>6. direct \subseteq fit
  OBVIOUS
<1> DEFINE weak == fit \ direct
<1>. HIDE DEF direct, fit
<1>7. weak \in SUBSET Id /\ weak \subseteq fit
  BY <1>5
<1>8. GraphCandidates = [direct |-> BestScored(direct, score), weak |-> BestScored(weak, score)]
  BY <1>1
<1>. HIDE DEF weak
<1>9. /\ BestScored(direct, score) \in Seq(Scores(Id, Int))
      /\ Ids(Range(BestScored(direct, score))) \subseteq direct
  BY <1>4, <1>5, BestScoredIs
<1>10. /\ BestScored(weak, score) \in Seq(Scores(Id, Int)) /\ Single(Range(BestScored(weak, score)))
       /\ Ids(Range(BestScored(weak, score))) \subseteq weak
  BY <1>4, <1>7, BestScoredIs
<1>. QED  BY <1>5, <1>6, <1>7, <1>8, <1>9, <1>10 DEF GraphOK

-----------------------------------------------------------------------------
(* The state of the lists, and their ranking.                              *)

\* What was read of the database.
ReadOK ==
  /\ q \in Queries /\ alive \subseteq Id
  /\ status \in [Id -> {"active", "stale"}] /\ \A x \in Id : status[x] = "active" => x \in alive

\* The lists hold entities of their channels, once each, live if the query asks for that.
ListsOK ==
  /\ fts \in Seq(Id) /\ Live(Range(fts)) /\ novel \in Seq(Id) /\ Live(Range(novel))
  /\ DOMAIN vec = Channels
  /\ \A c \in Channels : vec[c] \in Seq(InChannel(c)) /\ Live(Range(vec[c]))
  /\ \A c \in Channels : graph[c] \in Seq(InChannel(c)) /\ Live(Range(graph[c]))
  /\ graph.weak \in Seq(Scores(Id, Int)) /\ Single(Range(graph.weak)) /\ Live(Ids(Range(graph.weak)))

\* There are two channels, of entities.
LEMMA InChannelIs ==
  /\ "code" \in Channels /\ "knowledge" \in Channels
  /\ \A c : InChannel(c) \in SUBSET Id
BY DEF Channels, InChannel

\* The vector lists hold entities.
LEMMA VecIs ==
  ASSUME ListsOK
  PROVE  vec.code \in Seq(Id) /\ vec.knowledge \in Seq(Id)
<1>1. vec["code"] \in Seq(InChannel("code")) /\ vec["knowledge"] \in Seq(InChannel("knowledge"))
  BY InChannelIs DEF ListsOK
<1>2. vec["code"] \in Seq(Id)
  BY <1>1, InChannelIs, SeqUp
<1>3. vec["knowledge"] \in Seq(Id)
  BY <1>1, InChannelIs, SeqUp
<1>. QED  BY <1>2, <1>3

\* The window of full-text results is part of them, and within the limit.
LEMMA WindowIs ==
  ASSUME ListsOK
  PROVE  Window \in Seq(Id) /\ Range(Window) \subseteq Range(fts) /\ Len(Window) <= Limit
BY Settings, TakeIs DEF Window, ListsOK

\* A fused channel scores its own entities, each once.
LEMMA FusedChannelIs ==
  ASSUME ListsOK, NEW c \in Channels
  PROVE  /\ FusedChannel(c) \in SUBSET Scores(InChannel(c), Int)
         /\ IsFiniteSet(FusedChannel(c)) /\ Single(FusedChannel(c))
         /\ Live(Ids(FusedChannel(c)))
<1> DEFINE s == OfChan(Window, c)
           v == Take(vec[c], Limit)
           g == graph[c]
           n == IF c = "code" THEN CodeWeight ELSE KnowledgeWeight
           F == Fused(s, v, n, g)
<1>1. s \in Seq(InChannel(c)) /\ Range(s) \subseteq Range(fts)
  BY WindowIs, OfChanIs
<1>2. vec[c] \in Seq(InChannel(c)) /\ g \in Seq(InChannel(c))
  BY DEF ListsOK
<1>3. v \in Seq(InChannel(c)) /\ Range(v) \subseteq Range(vec[c])
  BY <1>2, Settings, TakeIs
<1>4. n \in Nat
  BY DEF CodeWeight, KnowledgeWeight
<1>5. FusedChannel(c) = Normalized(F)
  BY DEF FusedChannel
<1>6. Live(Range(fts)) /\ Live(Range(vec[c])) /\ Live(Range(g))
  BY DEF ListsOK
<1>. HIDE DEF s, v, g, n
<1>7. /\ F \in SUBSET Scores(InChannel(c), Nat) /\ IsFiniteSet(F) /\ Single(F)
      /\ Ids(F) = Range(s) \cup Range(v) \cup Range(g)
  BY <1>1, <1>2, <1>3, <1>4, FusedIs
<1>. HIDE DEF F
<1>8. /\ Normalized(F) \in SUBSET Scores(InChannel(c), Int)
      /\ IsFiniteSet(Normalized(F)) /\ Single(Normalized(F)) /\ Ids(Normalized(F)) = Ids(F)
  BY <1>7, NormalizedIs
<1>9. Live(Ids(F))
  BY <1>1, <1>3, <1>6, <1>7 DEF Live
<1>. QED  BY <1>5, <1>8, <1>9

\* The weights of a search are weights.
LEMMA ChannelWeightsIs ==
  ASSUME ReadOK, ListsOK
  PROVE  ChannelWeights \in Weights
<1>1. CASE q.spaces = {}
  <2>1. Shares(500, 500) = Shares(500, 1000 - 500) /\ 500 \in 0 .. 1000
    BY SMT
  <2>2. Shares(500, 500) \in Weights
    BY <2>1 DEF Weights
  <2>. QED  BY <2>2, <1>1 DEF ChannelWeights
<1>2. CASE q.spaces # {}
  <2> DEFINE g == [c \in Channels |-> IF vec[c] = <<>> THEN 0 ELSE q.grad[c]]
             k == [c \in Channels |-> Len(OfChan(Window, c))]
  <2>1. \A c \in Channels : g[c] \in Nat
    <3>1. QueryOK(q)
      BY QueriesAssumption DEF ReadOK
    <3>. QED  BY <3>1 DEF QueryOK
  <2>2. ASSUME NEW c \in Channels PROVE k[c] \in 0 .. Limit
    <3>1. OfChan(Window, c) \in Seq(InChannel(c)) /\ Len(OfChan(Window, c)) <= Len(Window) /\ Len(Window) <= Limit
      BY WindowIs, OfChanIs
    <3>2. Len(OfChan(Window, c)) \in Nat /\ Len(Window) \in Nat
      BY <3>1, WindowIs
    <3> DEFINE a == Len(OfChan(Window, c))
               b == Len(Window)
    <3>3. k[c] = a
      OBVIOUS
    <3>. HIDE DEF a, b, k
    <3>4. a \in Nat /\ b \in Nat /\ a <= b /\ b <= Limit
      BY <3>1, <3>2 DEF a, b
    <3>5. a \in 0 .. Limit
      BY <3>4, Settings
    <3>. QED  BY <3>3, <3>5
  <2>4. ChannelWeights = Proportions(g, k)
    BY <1>2 DEF ChannelWeights
  <2>. HIDE DEF g, k
  <2>5. g["code"] \in Nat /\ g["knowledge"] \in Nat /\ k["code"] \in 0 .. Limit /\ k["knowledge"] \in 0 .. Limit
    BY <2>1, <2>2, InChannelIs
  <2>6. Proportions(g, k) \in Weights
    BY <2>5, ProportionsIs
  <2>. QED  BY <2>4, <2>6
<1>. QED  BY <1>1, <1>2

\* The ranked hits: no repetition, and live if the query asks for that.
RankedOK ==
  /\ HitList(hits) /\ Live(Ids(Range(hits)))
  /\ TopWindow(ranked.list) >= 2 => Seen(ranked.list, ranked.weights, TopWindow(ranked.list))

\* A prefix of such hits.
LEMMA TakeHits ==
  ASSUME NEW s, HitList(s), NEW n \in Nat
  PROVE  HitList(Take(s, n)) /\ Ids(Range(Take(s, n))) \subseteq Ids(Range(s))
<1> DEFINE t == Take(s, n)
<1>1. /\ t \in Seq(Hit) /\ Range(t) \subseteq Range(s)
      /\ \A i \in DOMAIN t : i \in DOMAIN s /\ t[i] = s[i]
  <2>1. s \in Seq(Hit)
    BY DEF HitList
  <2>. QED  BY <2>1, TakeIs
<1>. HIDE DEF t
<1>2. HitList(t) /\ Ids(Range(t)) \subseteq Ids(Range(s))
  BY <1>1 DEF HitList, Ids
<1>. QED  BY <1>2 DEF t

\* Ranking makes such hits, and each channel that earned a slot shows in their window.
LEMMA RankStepIs ==
  ASSUME ReadOK, ListsOK, RankStep
  PROVE  RankedOK'
<1> DEFINE w == ChannelWeights
           C == FusedChannel("code")
           K == FusedChannel("knowledge")
           m == Merged(C, K, w)
           d == Demoted(m)
           l == PostMerged(d, w, q.spaces # {}, q.mode = "search")
<1>1. w \in Weights
  BY ChannelWeightsIs
<1>2. /\ C \in SUBSET Scores(InChannel("code"), Int) /\ IsFiniteSet(C) /\ Single(C) /\ Live(Ids(C))
      /\ K \in SUBSET Scores(InChannel("knowledge"), Int) /\ IsFiniteSet(K) /\ Single(K) /\ Live(Ids(K))
  BY InChannelIs, FusedChannelIs
<1>3. ranked' = [list |-> l, weights |-> w] /\ hits' = Take(l, Limit) /\ q' = q /\ alive' = alive
  BY DEF RankStep, dbVars
<1>. HIDE DEF w, C, K
<1>4. HitList(m) /\ Ids(Range(m)) \subseteq Ids(C) \cup Ids(K)
  BY <1>1, <1>2, MergedIs
<1>. HIDE DEF m
<1>5. HitList(d) /\ Ids(Range(d)) = Ids(Range(m))
  BY <1>4, DemotedIs
<1>. HIDE DEF d
<1>6. HitList(l) /\ Ids(Range(l)) \subseteq Ids(Range(d)) /\ (TopWindow(l) >= 2 => Seen(l, w, TopWindow(l)))
  BY <1>1, <1>5, PostMergeKeepsSlots
<1>. HIDE DEF l
<1>7. HitList(Take(l, Limit)) /\ Ids(Range(Take(l, Limit))) \subseteq Ids(Range(l))
  BY <1>6, Settings, TakeHits
<1>8. Live(Ids(Range(Take(l, Limit))))
  BY <1>2, <1>4, <1>5, <1>6, <1>7 DEF Live
<1>9. ranked'.list = l /\ ranked'.weights = w
  BY <1>3
<1>10. HitList(hits)'
  BY <1>3, <1>7 DEF HitList, Hit
<1>11. Live(Ids(Range(hits)))'
  BY <1>3, <1>8 DEF Live
<1>12. (TopWindow(ranked.list) >= 2 => Seen(ranked.list, ranked.weights, TopWindow(ranked.list)))'
  BY <1>6, <1>9
<1>. QED  BY <1>10, <1>11, <1>12 DEF RankedOK

-----------------------------------------------------------------------------
(* A walk along the links.                                                 *)

\* A link between entities.
Edge == [src : Id, dst : Id, weight : Int]

\* The links of a kind.
LEMMA LinksIs ==
  ASSUME NEW P \in SUBSET (Id \X Id), NEW w \in Int
  PROVE  Links(P, w) \in SUBSET Edge /\ IsFiniteSet(Links(P, w))
<1> DEFINE f == [e \in P |-> [src |-> e[1], dst |-> e[2], weight |-> w]]
<1>1. IsFiniteSet(P)
  <2>1. IsFiniteSet(Id)
    BY SearchAssumption
  <2>2. IsFiniteSet(Id \X Id)
    BY <2>1, FS_Product
  <2>. QED  BY <2>2, FS_Subset
<1>2. Links(P, w) = {f[e] : e \in P} /\ DOMAIN f = P
  BY DEF Links
<1>3. \A e \in P : f[e] \in Edge
  BY DEF Edge
<1>. HIDE DEF f
<1>4. IsFiniteSet(Links(P, w))
  BY <1>1, <1>2, ImageFinite
<1>. QED  BY <1>2, <1>3, <1>4

\* All of them, finitely many.
LEMMA AllLinksIs == AllLinks \in SUBSET Edge /\ IsFiniteSet(AllLinks)
<1>1. Curated \in SUBSET (Id \X Id) /\ AutoLinks \in SUBSET (Id \X Id) /\ Defines \in SUBSET (Id \X Id)
  BY SearchAssumption
<1>2. Links(Curated, 10) \in SUBSET Edge /\ IsFiniteSet(Links(Curated, 10))
  BY <1>1, LinksIs
<1>3. Links(AutoLinks, 7) \in SUBSET Edge /\ IsFiniteSet(Links(AutoLinks, 7))
  BY <1>1, LinksIs
<1>4. Links(Defines, 5) \in SUBSET Edge /\ IsFiniteSet(Links(Defines, 5))
  BY <1>1, LinksIs
<1> DEFINE A == Links(Curated, 10)
           B == Links(AutoLinks, 7)
           C == Links(Defines, 5)
           AB == A \cup B
<1>5. AllLinks = AB \cup C
  BY DEF AllLinks, CuratedLinks
<1>. HIDE DEF A, B, C
<1>6. IsFiniteSet(AB)
  BY <1>2, <1>3, FS_Union DEF A, B
<1>7. AB \in SUBSET Edge
  BY <1>2, <1>3 DEF A, B
<1>. HIDE DEF AB
<1>8. IsFiniteSet(AB \cup C) /\ AB \cup C \in SUBSET Edge
  BY <1>4, <1>6, <1>7, FS_Union DEF C
<1>. QED  BY <1>5, <1>8

\* What a walk has found: each node with the path that claimed it.
Trails(seeds) == UNION {[D -> [seed : seeds, hops : Nat, weight : Int]] : D \in SUBSET Id}

\* An edge seen from the frontier, the edges out of it, the claim of a node on an edge and one hop of the walk.
ParentIn(e, frontier) == IF e.src \in frontier THEN e.src ELSE e.dst
NeighbourOf(e, frontier) == IF e.src \in frontier THEN e.dst ELSE e.src
OutOf(found, frontier, links) == {e \in links : ParentIn(e, frontier) \in frontier /\ NeighbourOf(e, frontier) \notin DOMAIN found}
EdgesTo(x, found, frontier, links) == {e \in OutOf(found, frontier, links) : NeighbourOf(e, frontier) = x}
ClaimOf(x, found, frontier, links) ==
  CHOOSE e \in EdgesTo(x, found, frontier, links) : \A f \in EdgesTo(x, found, frontier, links) : Claims(e, f)
PathTo(x, found, frontier, links) ==
  LET p == found[ParentIn(ClaimOf(x, found, frontier, links), frontier)]
  IN [seed |-> p.seed, hops |-> p.hops + 1, weight |-> (p.weight * ClaimOf(x, found, frontier, links).weight) \div 10]
WalkStep(found, frontier, links) ==
  [x \in DOMAIN found \cup {NeighbourOf(e, frontier) : e \in OutOf(found, frontier, links)} |->
      IF x \in DOMAIN found THEN found[x] ELSE PathTo(x, found, frontier, links)]
\* The nodes the last hop reached.
Frontier(found, n) == {x \in DOMAIN found : found[x].hops = n - 1}

\* A node that can be reached has an edge that claims it.
LEMMA ClaimIs ==
  ASSUME NEW links \in SUBSET Edge, IsFiniteSet(links), NEW found, NEW frontier, NEW x,
         EdgesTo(x, found, frontier, links) # {}
  PROVE  ClaimOf(x, found, frontier, links) \in EdgesTo(x, found, frontier, links)
<1> DEFINE S == EdgesTo(x, found, frontier, links)
           R == {p \in S \X S : Claims(p[1], p[2]) /\ p[1] # p[2]}
<1>1. S \in SUBSET links
  BY DEF EdgesTo, OutOf
<1>2. IsFiniteSet(S)
  BY <1>1, FS_Subset
<1>3. ASSUME NEW e \in S PROVE e \in [src : Id, dst : Id, weight : Int] /\ e.src \in Int /\ e.dst \in Int /\ e.weight \in Int
  <2>1. e \in [src : Id, dst : Id, weight : Int]
    BY <1>1 DEF Edge
  <2>2. e.src \in Id /\ e.dst \in Id /\ e.weight \in Int
    BY <2>1
  <2>. QED  BY <2>1, <2>2, IdNat
<1>. HIDE DEF S
<1>4. \A e, f \in S : e.src = f.src /\ e.dst = f.dst /\ e.weight = f.weight => e = f
  BY <1>3
<1>5. Orders(R, S)
  <2>1. \A e \in S : <<e, e>> \notin R
    OBVIOUS
  <2>2. \A e, f, g \in S : <<e, f>> \in R /\ <<f, g>> \in R => <<e, g>> \in R
    <3> SUFFICES ASSUME NEW e \in S, NEW f \in S, NEW g \in S, <<e, f>> \in R, <<f, g>> \in R PROVE <<e, g>> \in R
      OBVIOUS
    <3>1. Claims(e, f) /\ Claims(f, g) /\ e # f /\ f # g
      OBVIOUS
    <3>2. /\ e.src \in Int /\ e.dst \in Int /\ e.weight \in Int /\ f.src \in Int /\ f.dst \in Int /\ f.weight \in Int
          /\ g.src \in Int /\ g.dst \in Int /\ g.weight \in Int
      BY <1>3
    <3>3. Claims(e, g)
      BY <3>1, <3>2 DEF Claims
    <3>4. e # g
      <4> SUFFICES ASSUME e = g PROVE FALSE
        OBVIOUS
      <4>1. e.src = f.src /\ e.dst = f.dst /\ e.weight = f.weight
        BY <3>1, <3>2 DEF Claims
      <4>. QED  BY <4>1, <1>4, <3>1
    <3>. QED  BY <3>3, <3>4
  <2>3. \A e, f \in S : e # f => <<e, f>> \in R \/ <<f, e>> \in R
    <3> SUFFICES ASSUME NEW e \in S, NEW f \in S, e # f PROVE <<e, f>> \in R \/ <<f, e>> \in R
      OBVIOUS
    <3>2. e.src \in Int /\ e.dst \in Int /\ e.weight \in Int /\ f.src \in Int /\ f.dst \in Int /\ f.weight \in Int
      BY <1>3
    <3>3. Claims(e, f) \/ Claims(f, e)
      BY <3>2 DEF Claims
    <3>. QED  BY <3>3
  <2>. HIDE DEF R
  <2>. QED  BY <2>1, <2>2, <2>3 DEF Orders
<1>6. PICK e \in S : \A f \in S : f = e \/ <<e, f>> \in R
  <2>1. S # {}
    BY DEF S
  <2> HIDE DEF R
  <2>. QED  BY <1>2, <1>5, <2>1, First
<1>7. \A f \in S : Claims(e, f)
  <2> SUFFICES ASSUME NEW f \in S PROVE Claims(e, f)
    OBVIOUS
  <2>1. CASE <<e, f>> \in R
    BY <2>1
  <2>2. CASE f = e
    <3>1. e.src \in Int /\ e.dst \in Int /\ e.weight \in Int
      BY <1>3
    <3>. QED  BY <2>2, <3>1 DEF Claims
  <2>. QED  BY <1>6, <2>1, <2>2
<1>8. ClaimOf(x, found, frontier, links) = CHOOSE z \in S : \A f \in S : Claims(z, f)
  BY DEF ClaimOf, S
<1>9. ClaimOf(x, found, frontier, links) \in S
  BY <1>7, <1>8
<1>. QED  BY <1>9 DEF S

\* A hop takes trails to trails.
LEMMA WalkStepIs ==
  ASSUME NEW links \in SUBSET Edge, IsFiniteSet(links), NEW seeds, NEW found \in Trails(seeds),
         NEW frontier \in SUBSET DOMAIN found
  PROVE  WalkStep(found, frontier, links) \in Trails(seeds)
<1> DEFINE P == [seed : seeds, hops : Nat, weight : Int]
           D == DOMAIN found \cup {NeighbourOf(e, frontier) : e \in OutOf(found, frontier, links)}
           f == WalkStep(found, frontier, links)
<1>1. DOMAIN found \in SUBSET Id /\ \A x \in DOMAIN found : found[x] \in P
  BY DEF Trails
<1>2. ASSUME NEW e \in OutOf(found, frontier, links)
      PROVE  e \in [src : Id, dst : Id, weight : Int] /\ NeighbourOf(e, frontier) \in Id /\ ParentIn(e, frontier) \in DOMAIN found /\ e.weight \in Int
  <2>1. e \in [src : Id, dst : Id, weight : Int]
    BY DEF OutOf, Edge
  <2>2. ParentIn(e, frontier) \in frontier
    BY DEF OutOf
  <2>. QED  BY <2>1, <2>2 DEF NeighbourOf
<1>3. D \in SUBSET Id
  BY <1>1, <1>2
<1>4. f = [x \in D |-> IF x \in DOMAIN found THEN found[x] ELSE PathTo(x, found, frontier, links)]
  BY DEF WalkStep
<1>5. ASSUME NEW x \in D, x \notin DOMAIN found PROVE PathTo(x, found, frontier, links) \in P
  <2>1. EdgesTo(x, found, frontier, links) # {}
    BY <1>5 DEF EdgesTo
  <2> DEFINE c == ClaimOf(x, found, frontier, links)
             p == found[ParentIn(c, frontier)]
             w == c.weight
  <2>2. c \in OutOf(found, frontier, links)
    BY <2>1, ClaimIs DEF EdgesTo
  <2>3. PathTo(x, found, frontier, links) = [seed |-> p.seed, hops |-> p.hops + 1, weight |-> (p.weight * w) \div 10]
    BY DEF PathTo
  <2>. HIDE DEF c
  <2>4. p \in P /\ w \in Int
    BY <1>1, <1>2, <2>2
  <2>. HIDE DEF p, w
  <2>5. p.seed \in seeds /\ p.hops \in Nat /\ p.weight \in Int
    BY <2>4
  <2>6. p.hops + 1 \in Nat /\ (p.weight * w) \div 10 \in Int
    BY <2>4, <2>5
  <2>. QED  BY <2>3, <2>5, <2>6
<1>. HIDE DEF D, f
<1>6. f \in [D -> P]
  BY <1>1, <1>4, <1>5
<1>. HIDE DEF P
<1>7. f \in Trails(seeds)
  BY <1>3, <1>6 DEF Trails, P
<1>. QED  BY <1>7 DEF f

\* So does a walk, whatever its number of hops.
LEMMA ReachIs ==
  ASSUME NEW links \in SUBSET Edge, IsFiniteSet(links), NEW seeds \in SUBSET Id, NEW hops \in Nat
  PROVE  Reach(seeds, links, hops) \in Trails(seeds)
<1> DEFINE A == Trails(seeds)
           start == [x \in seeds |-> [seed |-> x, hops |-> 0, weight |-> 1000]]
           s == [n \in 1 .. hops |-> n]
           m == Len(s)
           Op(f, n) == WalkStep(f, Frontier(f, n), links)
           step == [p \in Nat \X A |-> Op(p[2], p[1])]
           IsAcc(f) == f = [n \in 0 .. m |-> IF n = 0 THEN start ELSE Op(f[n - 1], s[n])]
           acc == CHOOSE f : IsAcc(f)
<1>0. m = hops /\ m \in Nat /\ \A n \in 1 .. m : s[n] = n
  <2>1. s \in [1 .. hops -> Nat]
    OBVIOUS
  <2>2. s \in Seq(Nat) /\ Len(s) = hops
    <3> HIDE DEF s
    <3>. QED  BY <2>1, FcnIsSeq
  <2>. QED  BY <2>2
<1>1. start \in A
  <2>1. start \in [seeds -> [seed : seeds, hops : Nat, weight : Int]]
    BY SMT
  <2> HIDE DEF start
  <2>. QED  BY <2>1 DEF Trails
<1>2. ASSUME NEW f \in A, NEW n PROVE Op(f, n) \in A
  <2>1. Frontier(f, n) \in SUBSET DOMAIN f
    BY DEF Frontier
  <2>. QED  BY <2>1, WalkStepIs
<1>3. step \in [Nat \X A -> A]
  <2> HIDE DEF A, Op
  <2>. QED  BY <1>2
<1>4. Reach(seeds, links, hops) = acc[m]
  BY DEF Reach, Fold, WalkStep, Frontier, OutOf, EdgesTo, ClaimOf, PathTo, ParentIn, NeighbourOf
<1>. HIDE DEF A, start, Op
<1>5. PICK f : Unfolds(f, A, start, step, m)
  <2> HIDE DEF step, m
  <2>. QED  BY <1>0, <1>1, <1>3, Recursion
<1>. HIDE DEF s, m
<1>6. IsAcc(f)
  <2>1. \A n \in 0 .. m : f[n] = IF n = 0 THEN start ELSE Op(f[n - 1], s[n])
    <3> SUFFICES ASSUME NEW n \in 0 .. m PROVE f[n] = IF n = 0 THEN start ELSE Op(f[n - 1], s[n])
      OBVIOUS
    <3>1. CASE n = 0
      BY <3>1, <1>5 DEF Unfolds
    <3>2. CASE n # 0
      <4>1. n \in 1 .. m /\ n - 1 \in 0 .. m /\ n \in Nat
        BY <3>2, <1>0
      <4>2. f[n - 1] \in A /\ f[n] = step[<<n, f[n - 1]>>] /\ s[n] = n
        BY <4>1, <1>0, <1>5 DEF Unfolds
      <4>. QED  BY <4>1, <4>2, <3>2
    <3>. QED  BY <3>1, <3>2
  <2>2. f \in [0 .. m -> A]
    BY <1>5 DEF Unfolds
  <2>. QED  BY <2>1, <2>2
<1>7. IsAcc(acc)
  <2> HIDE DEF IsAcc
  <2>. QED  BY <1>6
<1>. HIDE DEF acc
<1>8. acc[0] = start /\ \A n \in 1 .. m : acc[n] = Op(acc[n - 1], s[n])
  BY <1>7, <1>0
<1>9. 0 .. m \subseteq {n \in Nat : acc[n] \in A}
  <2> DEFINE T == {n \in Nat : acc[n] \in A}
  <2>1. 0 \in T
    BY <1>1, <1>8
  <2>2. ASSUME NEW n \in 0 .. m - 1, n \in T PROVE n + 1 \in T
    <3>1. n + 1 \in 1 .. m /\ (n + 1) - 1 = n /\ acc[n] \in A /\ n + 1 \in Nat
      BY <1>0, <2>2
    <3>2. acc[n + 1] = Op(acc[n], s[n + 1])
      BY <3>1, <1>8
    <3>3. Op(acc[n], s[n + 1]) \in A
      BY <3>1, <1>2
    <3>. QED  BY <3>1, <3>2, <3>3
  <2>3. 0 .. m \subseteq T
    <3> HIDE DEF T
    <3>. QED  BY <1>0, <2>1, <2>2, BoundInduct
  <2>. QED  BY <2>3
<1>10. acc[m] \in A
  BY <1>0, <1>9
<1>. QED  BY <1>4, <1>10 DEF A

-----------------------------------------------------------------------------
(* What is found beyond the hits.                                          *)

\* Leads, once each, none of them among the hits.
Found(S) == S \in SUBSET Leads /\ IsFiniteSet(S) /\ Single(S) /\ Ids(S) \cap Excluded = {}
\* Leads other than siblings are live if the query asks for that.
LiveLeads(S) == \A x \in S : x.via = "sibling" \/ q.all \/ x.id \in alive

\* A lead as a record.
LEMMA LeadIs ==
  ASSUME NEW x \in Id, NEW score \in Int, NEW via \in Vias
  PROVE  Lead(x, score, via) \in Leads /\ Lead(x, score, via).id = x /\ Lead(x, score, via).via = via
BY DEF Lead, Leads

\* Their names.
LEMMA ViasAre == \A v \in {"walk", "sibling", "history", "terms", "deep", "weak"} : v \in Vias
BY DEF Vias

\* Leads made one from each entity.
LEMMA LeadSet ==
  ASSUME NEW H, IsFiniteSet(H), NEW f, DOMAIN f = H, NEW S, S = {f[h] : h \in H},
         \A h \in H : f[h] \in Leads /\ f[h].id \notin Excluded,
         \A g, h \in H : f[g].id = f[h].id => g = h
  PROVE  Found(S)
<1>1. IsFiniteSet(S)
  BY ImageFinite
<1>2. S \in SUBSET Leads /\ Single(S)
  BY DEF Single
<1>3. Ids(S) \cap Excluded = {}
  BY DEF Ids
<1>. QED  BY <1>1, <1>2, <1>3 DEF Found

\* A relevance is an integer.
LEMMA RelevanceIs ==
  ASSUME HitList(hits), NEW x \in Excluded
  PROVE  Relevance(x) \in Int
<1>1. \E h \in Range(hits) : h.id = x
  BY DEF Excluded, Ids
<1> DEFINE h == CHOOSE h \in Range(hits) : h.id = x
<1>2. h \in Range(hits)
  BY <1>1
<1>3. Relevance(x) = h.score
  BY DEF Relevance
<1>. HIDE DEF h
<1>4. h \in Hit
  BY <1>2 DEF Range, HitList
<1>5. h \in [id : Id, chan : Channels, score : Int]
  BY <1>4 DEF Hit
<1>. QED  BY <1>3, <1>5

\* What is excluded are entities.
LEMMA ExcludedIs ==
  ASSUME HitList(hits)
  PROVE  Excluded \in SUBSET Id
<1> SUFFICES ASSUME NEW i \in DOMAIN hits PROVE hits[i].id \in Id
  BY DEF Excluded, Ids, Range
<1>1. hits[i] \in Hit
  BY DEF HitList
<1>2. hits[i] \in [id : Id, chan : Channels, score : Int]
  BY <1>1 DEF Hit
<1>. QED  BY <1>2

\* The walk finds entities it was allowed, not yet among the hits.
LEMMA ExpansionsIs ==
  ASSUME HitList(hits), NEW admitted \in SUBSET Id
  PROVE  /\ Found(Expansions(admitted))
         /\ \A c \in Expansions(admitted) : c.id \in admitted /\ c.via = "walk"
<1> DEFINE found == Reach(Excluded, AllLinks, MaxHops)
           D == (DOMAIN found \cap admitted) \ Excluded
           score(x) == (((Relevance(found[x].seed) * Decay(found[x].hops)) \div 1000) * found[x].weight) \div 1000
           f == [x \in D |-> Lead(x, score(x), "walk")]
<1>1. found \in Trails(Excluded)
  BY AllLinksIs, ExcludedIs, Settings, ReachIs
<1>2. Expansions(admitted) = {f[x] : x \in D} /\ DOMAIN f = D
  BY DEF Expansions
<1>. HIDE DEF found
<1>3. ASSUME NEW x \in D PROVE score(x) \in Int
  <2>1. x \in DOMAIN found
    OBVIOUS
  <2>2. found[x] \in [seed : Excluded, hops : Nat, weight : Int]
    BY <2>1, <1>1 DEF Trails
  <2>3. found[x].seed \in Excluded /\ found[x].weight \in Int
    BY <2>2
  <2> DEFINE a == Relevance(found[x].seed)
             b == Decay(found[x].hops)
             c == found[x].weight
  <2>4. a \in Int
    BY <2>3, RelevanceIs
  <2>5. b \in Int
    BY DEF Decay
  <2>6. c \in Int
    BY <2>3
  <2>. HIDE DEF a, b, c
  <2>7. (a * b) \div 1000 \in Int
    BY SMT, <2>4, <2>5
  <2> DEFINE d == (a * b) \div 1000
  <2>. HIDE DEF d
  <2>8. (d * c) \div 1000 \in Int
    BY SMT, <2>6, <2>7 DEF d
  <2>. QED  BY <2>8 DEF a, b, c, d
<1>4. D \in SUBSET Id /\ D \in SUBSET admitted /\ D \cap Excluded = {} /\ \A x \in D : x \in Id /\ x \notin Excluded
  OBVIOUS
<1>. HIDE DEF score, D
<1>5. ASSUME NEW x \in D PROVE f[x] \in Leads /\ f[x].id = x /\ f[x].via = "walk"
  <2> DEFINE n == score(x)
  <2>1. f[x] = Lead(x, n, "walk")
    OBVIOUS
  <2>2. x \in Id
    BY <1>4
  <2>3. n \in Int
    BY <1>3
  <2>. HIDE DEF f, n
  <2>4. Lead(x, n, "walk") \in Leads /\ Lead(x, n, "walk").id = x /\ Lead(x, n, "walk").via = "walk"
    BY <2>2, <2>3, LeadIs, ViasAre
  <2>. QED  BY <2>1, <2>4
<1>. HIDE DEF f
<1> DEFINE S == Expansions(admitted)
<1>. HIDE DEF S
<1>6. IsFiniteSet(D)
  BY <1>4, IdFinite
<1>7. S = {f[x] : x \in D}
  BY <1>2 DEF S
<1>8. Found(S)
  BY <1>2, <1>4, <1>5, <1>6, <1>7, LeadSet
<1>9. \A c \in S : c.id \in admitted /\ c.via = "walk"
  BY <1>4, <1>5, <1>7
<1>. QED  BY <1>8, <1>9 DEF S

\* The siblings found are classes,
LEMMA SiblingsIs ==
  ASSUME HitList(hits)
  PROVE  /\ Found(Siblings)
         /\ \A c \in Siblings : c.via = "sibling" /\ Kind[c.id] = "class"
<1> DEFINE anchors == Ids(Range(Take(hits, Anchors)))
           AnchorsOf(x) == {a \in anchors : \E f \in FileOf(a) : <<f, x>> \in Defines}
           Over(x) == IF x \in q.titled THEN 1 ELSE 0
           D == {y \in Id \ Excluded : Kind[y] = "class" /\ AnchorsOf(y) # {}}
           best(x) == Max({Relevance(a) : a \in AnchorsOf(x)})
           score(x) == (best(x) * (150 + 150 * Over(x))) \div 1000
           f == [x \in D |-> Lead(x, score(x), "sibling")]
<1>1. Siblings = {f[x] : x \in D} /\ DOMAIN f = D
  <2>1. Siblings = {Lead(x, score(x), "sibling") : x \in D}
    BY Zenon DEF Siblings
  <2>. HIDE DEF D, score
  <2>. QED  BY <2>1
<1>2. anchors \in SUBSET Excluded
  BY Settings, TakeHits DEF Excluded
<1>3. ASSUME NEW x \in D PROVE score(x) \in Int
  <2> DEFINE A == AnchorsOf(x)
             W == {Relevance(a) : a \in A}
             h == [a \in A |-> Relevance(a)]
  <2>1. A # {} /\ A \in SUBSET Excluded
    <3> HIDE DEF anchors
    <3>. QED  BY <1>2
  <2>2. IsFiniteSet(A)
    <3> HIDE DEF A
    <3>1. A \in SUBSET Id
      BY <2>1, ExcludedIs
    <3>. QED  BY <3>1, IdFinite
  <2>. HIDE DEF A
  <2>3. \A a \in A : Relevance(a) \in Int
    BY <2>1, RelevanceIs
  <2>4. W = {h[a] : a \in A} /\ DOMAIN h = A
    OBVIOUS
  <2>5. W \in SUBSET Int /\ W # {}
    BY <2>1, <2>3
  <2>. HIDE DEF W, h
  <2>6. IsFiniteSet(W)
    BY <2>2, <2>4, ImageFinite
  <2>7. Max(W) \in Int
    BY <2>5, <2>6, Extremes
  <2>8. best(x) \in Int
    BY <2>7 DEF W, A
  <2> DEFINE b == best(x)
             o == Over(x)
  <2>9. b \in Int /\ o \in Int
    BY <2>8
  <2>. HIDE DEF b, o
  <2>10. (b * (150 + 150 * o)) \div 1000 \in Int
    BY SMT, <2>9
  <2>. QED  BY <2>10 DEF b, o
<1>4. \A x \in D : x \in Id /\ x \notin Excluded /\ Kind[x] = "class"
  OBVIOUS
<1>. HIDE DEF score, D
<1>5. ASSUME NEW x \in D PROVE f[x] \in Leads /\ f[x].id = x /\ f[x].via = "sibling"
  <2> DEFINE n == score(x)
  <2>1. f[x] = Lead(x, n, "sibling")
    OBVIOUS
  <2>2. x \in Id
    BY <1>4
  <2>3. n \in Int
    BY <1>3
  <2>. HIDE DEF f, n
  <2>4. Lead(x, n, "sibling") \in Leads /\ Lead(x, n, "sibling").id = x /\ Lead(x, n, "sibling").via = "sibling"
    BY <2>2, <2>3, LeadIs, ViasAre
  <2>. QED  BY <2>1, <2>4
<1>. HIDE DEF f
<1> DEFINE S == Siblings
<1>. HIDE DEF S
<1>6. IsFiniteSet(D)
  <2>1. D \in SUBSET Id
    BY <1>4
  <2>. QED  BY <2>1, IdFinite
<1>7. S = {f[x] : x \in D}
  BY <1>1 DEF S
<1>8. Found(S)
  BY <1>1, <1>4, <1>5, <1>6, <1>7, LeadSet
<1>9. \A c \in S : c.via = "sibling" /\ Kind[c.id] = "class"
  BY <1>4, <1>5, <1>7
<1>. QED  BY <1>8, <1>9 DEF S

\* and the entities of history are live.
LEMMA HistoryIs ==
  ASSUME ReadOK
  PROVE  /\ Found(History)
         /\ \A c \in History : c.via = "history" /\ c.id \in alive
<1> DEFINE active == {h \in Range(q.history) : status[h.id] = "active"}
           Over(x) == IF x \in q.titled THEN 50 ELSE 0
           kept == Keep(q.history, active)
           page == Take(kept, 3 * Limit)
           H == {g \in Range(page) : g.id \notin Excluded /\ \E e \in FileOf(g.id) : status[e] = "active"}
           score(h) == 75 + (80 * h.idf) \div (h.idf + 3) + Over(h.id)
           f == [h \in H |-> Lead(h.id, score(h), "history")]
<1>1. History = {f[h] : h \in H} /\ DOMAIN f = H
  BY DEF History
<1>2. QueryOK(q)
  BY QueriesAssumption DEF ReadOK
<1>3. /\ q.history \in Seq([id : Id, idf : Nat])
      /\ \A i, j \in DOMAIN q.history : q.history[i].id = q.history[j].id => i = j
  BY <1>2 DEF QueryOK
<1>4. kept \in Seq([id : Id, idf : Nat] \cap active) /\ Range(kept) = Range(q.history) \cap active
  <2> HIDE DEF active
  <2>. QED  BY <1>3, KeepIs
<1>5. Range(page) \subseteq Range(kept)
  <2>1. 3 * Limit \in Nat
    BY Settings
  <2> DEFINE n == 3 * Limit
  <2>. HIDE DEF kept, n
  <2>. QED  BY <1>4, <2>1, TakeIs DEF n
<1>6. IsFiniteSet(H)
  <2>1. H \in SUBSET Range(q.history)
    <3> HIDE DEF page, kept
    <3>. QED  BY <1>4, <1>5
  <2>2. IsFiniteSet(Range(q.history))
    BY <1>3, RangeFinite
  <2>. HIDE DEF H
  <2>. QED  BY <2>1, <2>2, FS_Subset
<1>7. ASSUME NEW h \in H PROVE h \in Range(q.history) /\ status[h.id] = "active" /\ h.id \notin Excluded /\ h.id \in Id /\ h.idf \in Nat
  <2>1. h \in Range(page) /\ h.id \notin Excluded
    OBVIOUS
  <2>. HIDE DEF page
  <2>2. h \in Range(q.history) /\ h \in active
    BY <2>1, <1>4, <1>5
  <2>3. h \in [id : Id, idf : Nat]
    <3>1. PICK i \in DOMAIN q.history : h = q.history[i]
      BY <2>2 DEF Range
    <3> DEFINE X == [id : Id, idf : Nat]
               s == q.history
    <3>2. s \in Seq(X) /\ i \in DOMAIN s /\ h = s[i]
      BY <3>1, <1>3
    <3>. HIDE DEF X, s
    <3>3. h \in X
      BY <3>2
    <3>. QED  BY <3>3 DEF X
  <2>. QED  BY <2>1, <2>2, <2>3
<1>. HIDE DEF H
<1>8. ASSUME NEW h \in H PROVE f[h] \in Leads /\ f[h].id = h.id /\ f[h].via = "history"
  <2>1. f[h] = Lead(h.id, score(h), "history")
    OBVIOUS
  <2>. HIDE DEF f
  <2>2. h.id \in Id /\ h.idf \in Nat
    BY <1>7
  <2>3. score(h) \in Int
    <3> DEFINE a == h.idf
               o == Over(h.id)
    <3>1. a \in Nat /\ o \in Int
      BY <2>2
    <3>. HIDE DEF a, o
    <3>2. a + 3 \in Nat /\ a + 3 > 0 /\ 80 * a \in Nat
      BY <3>1
    <3>3. (80 * a) \div (a + 3) \in Int
      BY <3>2
    <3>4. 75 + (80 * a) \div (a + 3) + o \in Int
      BY <3>1, <3>3
    <3>. QED  BY <3>4 DEF a, o
  <2> DEFINE n == score(h)
             x == h.id
  <2>4. f[h] = Lead(x, n, "history") /\ n \in Int /\ x \in Id
    BY <2>1, <2>2, <2>3
  <2>. HIDE DEF score, n, x
  <2>6. "history" \in Vias
    BY ViasAre
  <2>5. Lead(x, n, "history") \in Leads /\ Lead(x, n, "history").id = x /\ Lead(x, n, "history").via = "history"
    BY <2>4, <2>6, LeadIs
  <2>. QED  BY <2>4, <2>5 DEF x
<1>. HIDE DEF f
<1>9. \A g, h \in H : f[g].id = f[h].id => g = h
  <2> SUFFICES ASSUME NEW g \in H, NEW h \in H, f[g].id = f[h].id PROVE g = h
    OBVIOUS
  <2>1. g.id = h.id /\ g \in Range(q.history) /\ h \in Range(q.history)
    BY <1>7, <1>8
  <2>. QED  BY <2>1, <1>3 DEF Range
<1> DEFINE S == History
<1>. HIDE DEF S
<1>10. S = {f[h] : h \in H}
  BY <1>1 DEF S
<1>11. \A h \in H : f[h] \in Leads /\ f[h].id \notin Excluded
  BY <1>7, <1>8
<1>12. Found(S)
  BY <1>1, <1>6, <1>9, <1>10, <1>11, LeadSet
<1>13. \A c \in S : c.via = "history" /\ c.id \in alive
  BY <1>7, <1>8, <1>10 DEF ReadOK
<1>. QED  BY <1>12, <1>13 DEF S

-----------------------------------------------------------------------------
(* The leads: top terms, deep results, weak results.                       *)

\* The score of the first hit is an integer.
LEMMA TopIs ==
  ASSUME HitList(hits), hits # <<>>
  PROVE  Top \in Int
<1>1. hits \in Seq(Hit)
  BY DEF HitList
<1>2. hits[1] \in Hit
  BY <1>1
<1>3. hits[1] \in [id : Id, chan : Channels, score : Int]
  BY <1>2 DEF Hit
<1>. QED  BY <1>3 DEF Top

\* The same score for every one of them.
LEMMA LeadAll ==
  ASSUME NEW D \in SUBSET Id, D \cap Excluded = {}, NEW n \in Int, NEW v \in Vias,
         q.all \/ D \subseteq alive
  PROVE  Found({Lead(x, n, v) : x \in D}) /\ LiveLeads({Lead(x, n, v) : x \in D})
<1> DEFINE f == [x \in D |-> Lead(x, n, v)]
           S == {Lead(x, n, v) : x \in D}
<1>1. S = {f[x] : x \in D} /\ DOMAIN f = D
  OBVIOUS
<1>2. \A x \in D : f[x] \in Leads /\ f[x].id = x
  BY LeadIs
<1>. HIDE DEF f
<1>3. IsFiniteSet(D)
  BY IdFinite
<1>. HIDE DEF S
<1>4. Found(S)
  BY <1>1, <1>2, <1>3, LeadSet
<1>5. LiveLeads(S)
  BY <1>1, <1>2 DEF LiveLeads
<1>. QED  BY <1>4, <1>5 DEF S

\* The leads by new terms are live if the query asks for that.
LEMMA NovelIs ==
  ASSUME ListsOK, RankedOK, hits # <<>>
  PROVE  Found(Novel) /\ LiveLeads(Novel)
<1> DEFINE D == Range(novel) \ Excluded
           t == Top
           n == (t * 3) \div 10
<1>1. D \in SUBSET Id /\ D \cap Excluded = {} /\ (q.all \/ D \subseteq alive)
  <2>1. Range(novel) \subseteq Id
    BY DEF ListsOK, Range
  <2>. QED  BY <2>1 DEF ListsOK, Live
<1>2. t \in Int
  BY TopIs DEF RankedOK
<1>3. Novel = {Lead(x, n, "terms") : x \in D}
  BY DEF Novel
<1>. HIDE DEF t, D
<1>4. n \in Int
  BY SMT, <1>2
<1>. HIDE DEF n
<1>5. "terms" \in Vias
  BY ViasAre
<1>. QED  BY <1>1, <1>3, <1>4, <1>5, LeadAll

\* So are those from deep in the graph channel,
LEMMA DeepIs ==
  ASSUME ReadOK, ListsOK, RankedOK, hits # <<>>
  PROVE  Found(Deep) /\ LiveLeads(Deep)
<1> DEFINE lists == {<<"fts", Beyond(fts)>>, <<"code", Beyond(vec.code)>>, <<"knowledge", Beyond(vec.knowledge)>>}
           D == {y \in Id \ Excluded : Cardinality({l \in lists : y \in Range(l[2])}) >= 2}
           t == Top
           n == t \div 4
<1>1. Deep = {Lead(x, n, "deep") : x \in D}
  BY DEF Deep
<1>2. D \in SUBSET Id /\ D \cap Excluded = {}
  OBVIOUS
<1>3. ASSUME NEW s \in Seq(Id), NEW x \in Range(Beyond(s)) PROVE x \in Range(s)
  <2>1. PICK i \in DOMAIN Beyond(s) : x = Beyond(s)[i]
    BY <1>3 DEF Range
  <2> DEFINE m == Limit + 1
             k == Len(s)
  <2>2. m \in Nat /\ m >= 1 /\ k \in Nat /\ s \in [1 .. k -> Id]
    BY Settings
  <2>3. Beyond(s) = SubSeq(s, m, k)
    BY DEF Beyond
  <2>. HIDE DEF m, k
  <2>4. SubSeq(s, m, k) = [j \in 1 .. (k - m) + 1 |-> s[j + m - 1]]
    BY <2>2
  <2>5. i \in 1 .. (k - m) + 1 /\ x = s[i + m - 1]
    BY <2>1, <2>3, <2>4
  <2>6. i + m - 1 \in DOMAIN s
    BY <2>5, <2>2
  <2>. QED  BY <2>5, <2>6 DEF Range
<1>4. fts \in Seq(Id) /\ vec.code \in Seq(Id) /\ vec.knowledge \in Seq(Id)
  BY VecIs DEF ListsOK
<1>5. ASSUME NEW y \in D PROVE y \in Range(fts) \/ y \in Range(vec.code) \/ y \in Range(vec.knowledge)
  <2> SUFFICES ASSUME y \notin Range(fts), y \notin Range(vec.code), y \notin Range(vec.knowledge) PROVE FALSE
    OBVIOUS
  <2> DEFINE M == {l \in lists : y \in Range(l[2])}
  <2>1. Cardinality(M) >= 2
    OBVIOUS
  <2>2. y \notin Range(Beyond(fts)) /\ y \notin Range(Beyond(vec.code)) /\ y \notin Range(Beyond(vec.knowledge))
    BY <1>3, <1>4
  <2>3. M = {}
    BY <2>2
  <2>. HIDE DEF M
  <2>4. Cardinality(M) = 0
    BY <2>3, FS_EmptySet
  <2>. QED  BY <2>1, <2>4
<1>. HIDE DEF D
<1>6. Live(Range(fts)) /\ Live(Range(vec.code)) /\ Live(Range(vec.knowledge))
  <2>1. Live(Range(vec["code"])) /\ Live(Range(vec["knowledge"]))
    BY InChannelIs DEF ListsOK
  <2>. QED  BY <2>1 DEF ListsOK
<1>7. q.all \/ D \subseteq alive
  BY <1>5, <1>6 DEF Live
<1>8. t \in Int
  BY TopIs DEF RankedOK
<1>. HIDE DEF t
<1>9. n \in Int
  BY SMT, <1>8
<1>. HIDE DEF n
<1>10. "deep" \in Vias
  BY ViasAre
<1>. QED  BY <1>1, <1>2, <1>7, <1>9, <1>10, LeadAll

\* and those from weak links.
LEMMA WeakIs ==
  ASSUME ListsOK, RankedOK, hits # <<>>
  PROVE  Found(Weak) /\ LiveLeads(Weak)
<1> DEFINE Clamped(s) == Min({1000, Max({500, s})})
           t == Top
           score(c) == (((t * 3) \div 10) * Clamped(c.score)) \div 1000
           D == {d \in Range(graph.weak) : d.id \notin Excluded}
           f == [c \in D |-> Lead(c.id, score(c), "weak")]
<1>1. Weak = {f[c] : c \in D} /\ DOMAIN f = D
  <2>1. Weak = {Lead(c.id, score(c), "weak") : c \in D}
    BY Zenon DEF Weak
  <2>. HIDE DEF D, score
  <2>. QED  BY <2>1
<1>2. graph.weak \in Seq(Scores(Id, Int)) /\ Single(Range(graph.weak)) /\ Live(Ids(Range(graph.weak)))
  BY DEF ListsOK
<1>3. \A c \in D : c \in Range(graph.weak) /\ c.id \notin Excluded
  OBVIOUS
<1>4. IsFiniteSet(D)
  <2>1. IsFiniteSet(Range(graph.weak))
    BY <1>2, RangeFinite
  <2>. QED  BY <2>1, FS_Subset
<1>5. t \in Int
  BY TopIs DEF RankedOK
<1>. HIDE DEF t
<1>6. ASSUME NEW s \in Int PROVE Clamped(s) \in Int
  <2> DEFINE A == {500, s}
             m == Max(A)
             B == {1000, m}
  <2>1. IsFiniteSet(A) /\ A \in SUBSET Int /\ A # {}
    <3>1. IsFiniteSet({500}) /\ IsFiniteSet({s})
      <4>1. \A x : IsFiniteSet({x})
        BY FS_Singleton
      <4>. QED  BY <4>1
    <3>2. A = {500} \cup {s}
      OBVIOUS
    <3>3. IsFiniteSet({500} \cup {s})
      BY <3>1, FS_Union
    <3>4. A # {} /\ 500 \in Int
      OBVIOUS
    <3>. HIDE DEF A
    <3>5. A \in SUBSET Int
      BY <3>2, <3>4
    <3>. QED  BY <3>2, <3>3, <3>4, <3>5
  <2>. HIDE DEF A
  <2>2. m \in Int
    BY <2>1, Extremes
  <2>. HIDE DEF m
  <2>3. IsFiniteSet(B) /\ B \in SUBSET Int /\ B # {}
    <3> DEFINE k == 1000
    <3>4. k \in Int /\ B = {k} \cup {m}
      BY SMT
    <3>. HIDE DEF k, B
    <3>1. IsFiniteSet({k}) /\ IsFiniteSet({m})
      <4>1. \A x : IsFiniteSet({x})
        BY FS_Singleton
      <4>. QED  BY <4>1
    <3>3. IsFiniteSet({k} \cup {m})
      BY <3>1, FS_Union
    <3>5. B = {k} \cup {m}
      BY <3>4
    <3>. QED  BY <3>5, <3>3, <3>4, <2>2
  <2>. HIDE DEF B
  <2>4. Min(B) \in Int
    BY <2>3, Extremes
  <2>. QED  BY <2>4 DEF B, m, A
<1>. HIDE DEF Clamped
<1>7. ASSUME NEW c \in D PROVE c.id \in Id /\ score(c) \in Int
  <2>1. c \in Scores(Id, Int)
    <3>1. PICK i \in DOMAIN graph.weak : c = graph.weak[i]
      BY <1>3 DEF Range
    <3>. QED  BY <3>1, <1>2
  <2>2. c.id \in Id /\ c.score \in Int
    BY <2>1 DEF Scores
  <2> DEFINE s == c.score
             k == Clamped(s)
  <2>3. k \in Int
    BY <2>2, <1>6
  <2>. HIDE DEF k
  <2>4. (t * 3) \div 10 \in Int
    BY SMT, <1>5
  <2> DEFINE d == (t * 3) \div 10
  <2>. HIDE DEF d
  <2>5. (d * k) \div 1000 \in Int
    BY SMT, <2>3, <2>4 DEF d
  <2>. QED  BY <2>2, <2>5 DEF d, k
<1>. HIDE DEF D, score
<1>8. ASSUME NEW c \in D PROVE f[c] \in Leads /\ f[c].id = c.id /\ f[c].via = "weak"
  <2> DEFINE n == score(c)
             x == c.id
  <2>1. f[c] = Lead(x, n, "weak") /\ n \in Int /\ x \in Id
    BY <1>7
  <2>. HIDE DEF f, n, x
  <2>2. Lead(x, n, "weak") \in Leads /\ Lead(x, n, "weak").id = x /\ Lead(x, n, "weak").via = "weak"
    BY <2>1, LeadIs, ViasAre
  <2>. QED  BY <2>1, <2>2 DEF x
<1>. HIDE DEF f
<1>9. \A c, d \in D : f[c].id = f[d].id => c = d
  BY <1>2, <1>3, <1>8 DEF Single
<1> DEFINE S == Weak
<1>. HIDE DEF S
<1>10. S = {f[c] : c \in D}
  BY <1>1 DEF S
<1>11. \A c \in D : f[c] \in Leads /\ f[c].id \notin Excluded
  BY <1>3, <1>8
<1>12. Found(S)
  BY <1>1, <1>4, <1>9, <1>10, <1>11, LeadSet
<1>13. LiveLeads(S)
  BY <1>2, <1>3, <1>8, <1>10 DEF LiveLeads, Live, Ids
<1>. QED  BY <1>12, <1>13 DEF S

\* What an expansion so far may be.
Claimed(e) == Found(e.out) /\ LiveLeads(e.out) /\ Ids(e.out) \subseteq e.seen

\* Emission adds leads that were not seen before, and no seen lead of enough relevance is lost.
LEMMA EmitIs ==
  ASSUME NEW e, Claimed(e), NEW C, Found(C), LiveLeads(C)
  PROVE  /\ Claimed(Emit(e, C))
         /\ e.out \subseteq Emit(e, C).out
         /\ Emit(e, C).seen = e.seen \cup Ids(C)
         /\ \A c \in C : c.score >= MinRelevance => c.id \in e.seen \/ c.id \in Ids(Emit(e, C).out)
<1> DEFINE fresh == {c \in C : c.id \notin e.seen}
           added == {c \in fresh : c.score >= MinRelevance}
           d == Emit(e, C)
<1>1. d.seen = e.seen \cup Ids(fresh) /\ d.out = e.out \cup added
  BY DEF Emit
<1>2. fresh \subseteq C /\ added \subseteq fresh /\ (\A c \in C : c \in fresh \/ c.id \in e.seen)
      /\ (\A c \in fresh : c.id \notin e.seen) /\ (\A c \in fresh : c.score >= MinRelevance => c \in added)
  OBVIOUS
<1>. HIDE DEF fresh, added, d
<1>3. IsFiniteSet(d.out)
  <2>1. IsFiniteSet(e.out) /\ IsFiniteSet(added)
    BY <1>2, FS_Subset DEF Found, Claimed
  <2>. QED  BY <1>1, <2>1, FS_Union
<1>4. d.out \in SUBSET Leads /\ Ids(d.out) \cap Excluded = {}
  BY <1>1, <1>2 DEF Claimed, Found, Ids
<1>5. Single(d.out)
  BY <1>1, <1>2 DEF Claimed, Found, Single, Ids
<1>6. LiveLeads(d.out)
  BY <1>1, <1>2 DEF Claimed, LiveLeads
<1>7. Ids(d.out) \subseteq d.seen
  BY <1>1, <1>2 DEF Claimed, Ids
<1>8. d.seen = e.seen \cup Ids(C)
  BY <1>1, <1>2 DEF Ids
<1>9. \A c \in C : c.score >= MinRelevance => c.id \in e.seen \/ c.id \in Ids(d.out)
  BY <1>1, <1>2 DEF Ids
<1>. QED  BY <1>1, <1>3, <1>4, <1>5, <1>6, <1>7, <1>8, <1>9 DEF d, Claimed, Found

\* Capping takes from an expansion and adds nothing.
LEMMA CappedIs ==
  ASSUME NEW out, Found(out)
  PROVE  Capped(out) \subseteq out
<1> DEFINE co == {c \in out : c.via = "history"}
           rest == out \ co
<1>1. out \in SUBSET Leads /\ IsFiniteSet(out) /\ Single(out)
  BY DEF Found
<1>2. \A x \in Leads : x.id \in Int /\ x.score \in Int
  BY IdNat DEF Leads
<1>3. co \subseteq out /\ rest \subseteq out
  OBVIOUS
<1>4. Capped(out) = out \/ Capped(out) = Range(Take(Sorted(co), Limit \div 4)) \cup Range(Take(Sorted(rest), Limit))
  BY DEF Capped
<1>. HIDE DEF co, rest
<1>5. ASSUME NEW S \in SUBSET out, NEW n \in Nat PROVE Range(Take(Sorted(S), n)) \subseteq out
  <2>1. IsFiniteSet(S) /\ Item(S) /\ Single(S)
    BY <1>1, <1>2, FS_Subset DEF Item, Single
  <2>2. Sorted(S) \in Seq(out) /\ Range(Sorted(S)) = S
    BY <2>1, SortedSeq
  <2>3. Range(Take(Sorted(S), n)) \subseteq Range(Sorted(S))
    BY <2>2, TakeIs
  <2>. QED  BY <2>2, <2>3
<1>6. Limit \in Nat /\ Limit \div 4 \in Nat
  BY Settings, SMT
<1>. QED  BY <1>3, <1>4, <1>5, <1>6

-----------------------------------------------------------------------------
(* The invariant of a search. *)

\* What is found is new, live and made of leads.
FoundOK ==
  /\ Found(walk) /\ LiveLeads(walk)
  /\ Claimed(emitted) /\ extra \subseteq emitted.out

\* What is appended came from what was found.
LeadsOK ==
  /\ \A c \in leads : c.id \in Ids(emitted.out) \/ (c.via = "history" /\ Kind[c.id] = "class")
  /\ stage = "history" => \A x \in emitted.seen : Kind[x] = "class"

\* Which variables are still empty at which stage, and what was counted as accessed.
Retrieving == {"cold", "fts", "knowledge", "code", "prf", "graph", "rank", "gate"}
Expanding == {"expand", "siblings", "history", "append"}
StagesOK ==
  /\ stage \in Retrieving \cup Expanding \cup {"done", "packed"}
  /\ stage = "cold" => q.mode = "cold_start"
  /\ stage \in Retrieving \cup {"expand"} => walk = {}
  /\ stage \in Retrieving \cup {"expand", "siblings"} => emitted = NoClaims /\ leads = {} /\ extra = {}
  /\ stage \in Expanding => hits # <<>>
  /\ q.mode # "cold_start" /\ stage \in Expanding \cup {"done"} =>
        accessed = IF q.record THEN Ids(Range(hits)) ELSE {}

\* All of it: the invariant.
SearchOK == ReadOK /\ ListsOK /\ RankedOK /\ FoundOK /\ StagesOK /\ LeadsOK

\* All but the hits.
NotHits == <<stage, q, fts, vec, novel, graph, walk, emitted, leads, extra, accessed>>

\* With nothing found, the parts about what was found hold.
LEMMA NothingFound ==
  /\ Found({}) /\ LiveLeads({}) /\ Claimed(NoClaims)
  /\ Ids({}) = {} /\ NoClaims.out = {} /\ NoClaims.seen = {}
<1>1. Found({}) /\ LiveLeads({}) /\ Ids({}) = {}
  BY FS_EmptySet DEF Found, Single, Ids, LiveLeads
<1>2. NoClaims.out = {} /\ NoClaims.seen = {}
  BY DEF NoClaims
<1>. QED  BY <1>1, <1>2 DEF Claimed

-----------------------------------------------------------------------------
(* What a step leaves as it is.                                            *)

\* Each part of the invariant depends on a few variables only.
LEMMA ReadStays ==
  ASSUME ReadOK, UNCHANGED <<status, alive, q>>
  PROVE  ReadOK'
BY DEF ReadOK

\* The lists stay as they are while entities become live.
LEMMA ListsStay ==
  ASSUME ListsOK, q' = q, alive \subseteq alive', UNCHANGED <<fts, novel, vec, graph>>
  PROVE  ListsOK'
<1>1. fts' = fts /\ novel' = novel /\ vec' = vec /\ graph' = graph
  OBVIOUS
<1>2. \A S : Live(S) => (q'.all \/ S \subseteq alive')
  BY DEF Live
<1>. QED  BY <1>1, <1>2 DEF ListsOK, Live, InChannel

\* So do the hits,
LEMMA RankedStays ==
  ASSUME RankedOK, q' = q, alive \subseteq alive', UNCHANGED <<hits, ranked>>
  PROVE  RankedOK'
<1>1. hits' = hits /\ ranked' = ranked
  OBVIOUS
<1>. QED  BY <1>1 DEF RankedOK, Live

\* and what was found.
LEMMA FoundStays ==
  ASSUME FoundOK, q' = q, alive \subseteq alive', UNCHANGED <<hits, walk, emitted, extra>>
  PROVE  FoundOK'
<1>1. hits' = hits /\ walk' = walk /\ emitted' = emitted /\ extra' = extra
  OBVIOUS
<1>. QED  BY <1>1 DEF FoundOK, Found, LiveLeads, Claimed, Excluded

\* Nothing was looked for beyond the hits yet.
LEMMA FoundNothing ==
  ASSUME walk' = {}, emitted' = NoClaims, extra' = {}
  PROVE  FoundOK'
<1>1. IsFiniteSet({}) /\ Single({}) /\ Ids({}) = {}
  BY FS_EmptySet DEF Single, Ids
<1>2. NoClaims.out = {} /\ NoClaims.seen = {}
  BY DEF NoClaims
<1>. QED  BY <1>1, <1>2 DEF FoundOK, Found, LiveLeads, Claimed

\* What was appended stays.
LEMMA LeadsStay ==
  ASSUME LeadsOK, UNCHANGED <<emitted, leads>>, stage' # "history" \/ stage' = stage
  PROVE  LeadsOK'
<1>1. emitted' = emitted /\ leads' = leads
  OBVIOUS
<1>. QED  BY <1>1 DEF LeadsOK

\* A change of the database under the search.
LEMMA SyncIs ==
  ASSUME SearchOK, Sync
  PROVE  SearchOK'
<1>1. PICK x \in Id : SyncStale(x) \/ SyncHeals(x)
  BY DEF Sync
<1>2. UNCHANGED searchVars /\ alive \subseteq alive'
  BY <1>1 DEF SyncStale, SyncHeals
<1>3. q' = q /\ stage' = stage /\ hits' = hits /\ walk' = walk /\ emitted' = emitted /\ extra' = extra
      /\ leads' = leads /\ accessed' = accessed /\ fts' = fts /\ novel' = novel /\ vec' = vec
      /\ graph' = graph /\ ranked' = ranked
  BY <1>2 DEF searchVars
<1>4. ReadOK'
  <2>1. CASE SyncStale(x)
    <3>1. status' = [status EXCEPT ![x] = "stale"] /\ alive' = alive
      BY <2>1 DEF SyncStale
    <3>. QED  BY <3>1, <1>3 DEF SearchOK, ReadOK
  <2>2. CASE SyncHeals(x)
    <3>1. status' = [status EXCEPT ![x] = "active"] /\ alive' = alive \cup {x}
      BY <2>2 DEF SyncHeals
    <3>. QED  BY <3>1, <1>3 DEF SearchOK, ReadOK
  <2>. QED  BY <1>1, <2>1, <2>2
<1>5. ListsOK'
  BY <1>2, <1>3, ListsStay DEF SearchOK
<1>6. RankedOK'
  BY <1>2, <1>3, RankedStays DEF SearchOK
<1>7. FoundOK'
  BY <1>2, <1>3, FoundStays DEF SearchOK
<1>8. StagesOK'
  BY <1>3 DEF SearchOK, StagesOK, Retrieving, Expanding
<1>9. LeadsOK'
  BY <1>3, LeadsStay DEF SearchOK
<1>. QED  BY <1>4, <1>5, <1>6, <1>7, <1>8, <1>9 DEF SearchOK

-----------------------------------------------------------------------------
(* The statements that read. *)

\* What was active when it was read was active at some moment.
LEMMA AdmittedLive ==
  ASSUME ReadOK, NEW S, \A x \in S : x \in Id /\ Admitted(x)
  PROVE  Live(S)
BY DEF ReadOK, Live, Admitted

\* An answer holds live entities if the query asks for that.
LEMMA AnswerLive ==
  ASSUME ReadOK, NEW T \in SUBSET Id, NEW s \in Seq(T), NEW n \in Nat
  PROVE  Answer(s, n) \in Seq(T) /\ Live(Range(Answer(s, n))) /\ Range(Answer(s, n)) \subseteq Id
<1>1. /\ Answer(s, n) \in Seq(T)
      /\ \A x \in Range(Answer(s, n)) : x \in Id /\ Admitted(x)
  BY AnswerIs
<1>2. Live(Range(Answer(s, n)))
  <2> DEFINE S == Range(Answer(s, n))
  <2>1. \A x \in S : x \in Id /\ Admitted(x)
    BY <1>1
  <2>. HIDE DEF S
  <2>2. Live(S)
    BY <2>1, AdmittedLive
  <2>. QED  BY <2>2 DEF S
<1>. QED  BY <1>1, <1>2

\* While nothing is found, only the lists move.
Reading == {"fts", "knowledge", "code", "prf", "graph"}
LEMMA ReadingIs ==
  ASSUME SearchOK, stage \in Reading, stage' \in Reading \cup {"rank"},
         UNCHANGED <<dbVars, q, ranked, hits, walk, emitted, leads, extra, accessed>>, ListsOK'
  PROVE  SearchOK'
<1>1. q' = q /\ status' = status /\ alive' = alive /\ hits' = hits /\ walk' = walk /\ emitted' = emitted
      /\ extra' = extra /\ leads' = leads /\ accessed' = accessed /\ ranked' = ranked
  BY DEF dbVars
<1>2. ReadOK'
  BY <1>1, ReadStays DEF SearchOK
<1>3. RankedOK'
  BY <1>1, RankedStays DEF SearchOK
<1>4. FoundOK'
  BY <1>1, FoundStays DEF SearchOK
<1>5. StagesOK'
  BY <1>1 DEF SearchOK, StagesOK, Retrieving, Expanding, Reading
<1>6. LeadsOK'
  BY <1>1, LeadsStay DEF SearchOK, Reading
<1>. QED  BY <1>2, <1>3, <1>4, <1>5, <1>6 DEF SearchOK

\* A query satisfies the assumption on queries.
LEMMA QueryIs ==
  ASSUME ReadOK
  PROVE  QueryOK(q)
BY QueriesAssumption DEF ReadOK

\* The full-text list.
LEMMA FtsStepIs ==
  ASSUME SearchOK, FtsStep
  PROVE  SearchOK'
<1> DEFINE a == Answer(q.fts, 3 * Limit)
           n == 3 * Limit
<1>1. ReadOK /\ ListsOK
  BY DEF SearchOK
<1>2. q.fts \in Seq(Id)
  BY <1>1, QueryIs DEF QueryOK
<1>3. a \in Seq(Id) /\ Live(Range(a))
  <2>1. n \in Nat
    BY Settings
  <2>2. a = Answer(q.fts, n)
    OBVIOUS
  <2>. HIDE DEF a, n
  <2>. QED  BY <2>1, <2>2, <1>1, <1>2, AnswerLive
<1>4. fts' = a /\ q' = q /\ alive' = alive /\ novel' = novel /\ vec' = vec /\ graph' = graph
  BY DEF FtsStep, dbVars
<1>. HIDE DEF a
<1>5. ListsOK'
  BY <1>1, <1>3, <1>4 DEF ListsOK, Live, InChannel
<1>. QED  BY <1>5, ReadingIs DEF FtsStep, Reading

\* The vector lists.
LEMMA VecStepIs ==
  ASSUME SearchOK, NEW c \in Channels, NEW next \in {"code", "prf"}, VecStep(c, next)
  PROVE  SearchOK'
<1> DEFINE l == IF c \in q.spaces THEN Nearest(c) ELSE <<>>
           n == 3 * Limit
<1>1. ReadOK /\ ListsOK
  BY DEF SearchOK
<1>2. q.vec[c] \in Seq(InChannel(c)) /\ InChannel(c) \in SUBSET Id
  BY <1>1, QueryIs, InChannelIs DEF QueryOK, InChannel
<1>3. l \in Seq(InChannel(c)) /\ Live(Range(l))
  <2>1. CASE c \in q.spaces
    <3>1. n \in Nat
      BY Settings
    <3>2. Nearest(c) = Answer(q.vec[c], n)
      BY DEF Nearest
    <3>. HIDE DEF n
    <3>3. Nearest(c) \in Seq(InChannel(c)) /\ Live(Range(Nearest(c)))
      BY <3>1, <3>2, <1>1, <1>2, AnswerLive
    <3>. QED  BY <2>1, <3>3
  <2>2. CASE c \notin q.spaces
    <3>1. <<>> \in Seq(InChannel(c)) /\ Range(<<>>) = {}
      BY DEF Range
    <3>. QED  BY <2>2, <3>1 DEF Live
  <2>. QED  BY <2>1, <2>2
<1>4. vec' = [vec EXCEPT ![c] = l] /\ q' = q /\ alive' = alive /\ novel' = novel /\ fts' = fts /\ graph' = graph
  BY DEF VecStep, dbVars
<1>. HIDE DEF l
<1>5. DOMAIN vec' = Channels /\ \A b \in Channels : vec'[b] = IF b = c THEN l ELSE vec[b]
  BY <1>1, <1>4 DEF ListsOK
<1>6. \A b \in Channels : vec'[b] \in Seq(InChannel(b)) /\ Live(Range(vec'[b]))
  BY <1>1, <1>3, <1>5 DEF ListsOK
<1>7. ListsOK'
  BY <1>1, <1>4, <1>5, <1>6 DEF ListsOK, Live, InChannel
<1>8. stage \in Reading /\ stage' \in Reading
  BY DEF VecStep, Reading, Channels
<1>. QED  BY <1>7, <1>8, ReadingIs DEF VecStep

\* The terms of the first results, asked again.
LEMMA PrfStepIs ==
  ASSUME SearchOK, PrfStep
  PROVE  SearchOK'
<1> DEFINE a == Answer(q.prf, Limit)
           X == Id \ Range(fts)
           k == Keep(a, X)
           l == IF fts = <<>> THEN <<>> ELSE k
<1>1. ReadOK /\ ListsOK
  BY DEF SearchOK
<1>2. q.prf \in Seq(Id)
  BY <1>1, QueryIs DEF QueryOK
<1>3. a \in Seq(Id) /\ Live(Range(a))
  BY <1>1, <1>2, Settings, AnswerLive
<1>4. novel' = l /\ q' = q /\ alive' = alive /\ fts' = fts /\ vec' = vec /\ graph' = graph
  BY DEF PrfStep, dbVars
<1>. HIDE DEF a
<1>5. k \in Seq(Id \cap X) /\ Range(k) = Range(a) \cap X
  <2> HIDE DEF X
  <2>. QED  BY <1>3, KeepIs
<1>6. Id \cap X \subseteq Id
  OBVIOUS
<1>. HIDE DEF k, X
<1>7. k \in Seq(Id) /\ Live(Range(k))
  BY <1>3, <1>5, <1>6, SeqUp DEF Live
<1>8. l \in Seq(Id) /\ Live(Range(l))
  <2>1. <<>> \in Seq(Id) /\ Range(<<>>) = {}
    BY DEF Range
  <2>. QED  BY <1>7, <2>1 DEF Live
<1>. HIDE DEF l
<1>9. ListsOK'
  BY <1>1, <1>4, <1>8 DEF ListsOK, Live, InChannel
<1>. QED  BY <1>9, ReadingIs DEF PrfStep, Reading

-----------------------------------------------------------------------------
(* The steps of a search after the lists.                                  *)

\* The graph channel.
LEMMA GraphStepIs ==
  ASSUME SearchOK, GraphStep
  PROVE  SearchOK'
<1> DEFINE c == GraphCandidates
           d == c.direct
           ids == [i \in DOMAIN d |-> d[i].id]
           a == OfChan(ids, "code")
           b == OfChan(ids, "knowledge")
<1>1. ReadOK /\ ListsOK
  BY DEF SearchOK
<1>2. /\ graph' = [code |-> a, knowledge |-> b, weak |-> c.weak]
      /\ q' = q /\ alive' = alive /\ novel' = novel /\ fts' = fts /\ vec' = vec
  BY DEF GraphStep, dbVars
<1>3. GraphOK(c)
  BY <1>1, VecIs, GraphCandidatesIs DEF ListsOK
<1>. HIDE DEF c
<1>4. d \in Seq(Scores(Id, Int)) /\ (\A x \in Ids(Range(d)) : x \in Id /\ Admitted(x))
  BY <1>3 DEF GraphOK
<1>5. c.weak \in Seq(Scores(Id, Int)) /\ Single(Range(c.weak)) /\ (\A x \in Ids(Range(c.weak)) : x \in Id /\ Admitted(x))
  BY <1>3 DEF GraphOK
<1>. HIDE DEF d
<1>6. ids \in Seq(Id) /\ Range(ids) = Ids(Range(d))
  <2> DEFINE m == Len(d)
  <2>1. m \in Nat /\ DOMAIN d = 1 .. m /\ DOMAIN ids = 1 .. m
    BY <1>4
  <2>. HIDE DEF m
  <2>2. ASSUME NEW i \in 1 .. m PROVE ids[i] = d[i].id /\ ids[i] \in Id
    <3>1. d[i] \in Scores(Id, Int) /\ ids[i] = d[i].id
      BY <1>4, <2>1
    <3>. QED  BY <3>1 DEF Scores
  <2>3. ids \in [1 .. m -> Id]
    BY <2>1, <2>2
  <2>4. ids \in Seq(Id)
    <3> HIDE DEF ids
    <3>. QED  BY <2>1, <2>3, FcnIsSeq
  <2>5. Range(ids) = Ids(Range(d))
    <3> HIDE DEF ids
    <3>. QED  BY <2>1, <2>2 DEF Range, Ids
  <2>. QED  BY <2>4, <2>5
<1>. HIDE DEF ids
<1>7. Live(Range(ids)) /\ Live(Ids(Range(c.weak)))
  <2> DEFINE D == Range(ids)
             W == Ids(Range(c.weak))
  <2>1. (\A x \in D : x \in Id /\ Admitted(x)) /\ (\A x \in W : x \in Id /\ Admitted(x))
    BY <1>4, <1>5, <1>6
  <2>. HIDE DEF D, W
  <2>2. Live(D) /\ Live(W)
    BY <1>1, <2>1, AdmittedLive
  <2>. QED  BY <2>2 DEF D, W
<1>8. a \in Seq(InChannel("code")) /\ Range(a) \subseteq Range(ids) /\ b \in Seq(InChannel("knowledge")) /\ Range(b) \subseteq Range(ids)
  BY <1>6, OfChanIs
<1>. HIDE DEF a, b
<1>9. Live(Range(a)) /\ Live(Range(b))
  BY <1>7, <1>8 DEF Live
<1>10. \A k \in Channels : graph'[k] \in Seq(InChannel(k)) /\ Live(Range(graph'[k]))
  BY <1>2, <1>8, <1>9 DEF Channels
<1>11. graph'.weak = c.weak
  BY <1>2
<1>12. ListsOK'
  BY <1>1, <1>2, <1>5, <1>7, <1>10, <1>11 DEF ListsOK, Live, InChannel
<1>. QED  BY <1>12, ReadingIs DEF GraphStep, Reading

\* Ranking keeps the invariant.
LEMMA RankStepKeeps ==
  ASSUME SearchOK, RankStep
  PROVE  SearchOK'
<1>1. q' = q /\ status' = status /\ alive' = alive /\ walk' = walk /\ emitted' = emitted /\ extra' = extra
      /\ leads' = leads /\ fts' = fts /\ novel' = novel /\ vec' = vec /\ graph' = graph /\ stage = "rank" /\ stage' = "gate"
  BY DEF RankStep, dbVars
<1>2. ReadOK'
  BY <1>1, ReadStays DEF SearchOK
<1>3. ListsOK'
  BY <1>1, ListsStay DEF SearchOK
<1>4. RankedOK'
  BY RankStepIs DEF SearchOK
<1>5. walk = {} /\ emitted = NoClaims /\ extra = {}
  BY <1>1 DEF SearchOK, StagesOK, Retrieving
<1>6. FoundOK'
  BY <1>1, <1>5, FoundNothing
<1>7. StagesOK'
  BY <1>1 DEF SearchOK, StagesOK, Retrieving, Expanding
<1>8. LeadsOK'
  BY <1>1, LeadsStay DEF SearchOK
<1>. QED  BY <1>2, <1>3, <1>4, <1>6, <1>7, <1>8 DEF SearchOK

\* The gate, which counts an access of what it returns.
LEMMA GateStepIs ==
  ASSUME SearchOK, GateStep
  PROVE  SearchOK'
<1>1. q' = q /\ status' = status /\ alive' = alive /\ walk' = walk /\ emitted' = emitted /\ extra' = extra
      /\ leads' = leads /\ fts' = fts /\ novel' = novel /\ vec' = vec /\ graph' = graph /\ ranked' = ranked
      /\ stage = "gate" /\ stage' = (IF hits' = <<>> THEN "done" ELSE "expand")
      /\ accessed' = (IF q.record THEN Ids(Range(hits')) ELSE {})
  BY DEF GateStep, dbVars
<1>2. hits' = <<>> \/ hits' = hits
  BY DEF GateStep
<1>3. ReadOK'
  BY <1>1, ReadStays DEF SearchOK
<1>4. ListsOK'
  BY <1>1, ListsStay DEF SearchOK
<1>5. RankedOK'
  <2>1. CASE hits' = hits
    BY <1>1, <2>1, RankedStays DEF SearchOK
  <2>2. CASE hits' = <<>>
    <3>1. HitList(<<>>) /\ Ids(Range(<<>>)) = {}
      BY DEF HitList, Ids, Range
    <3>. QED  BY <1>1, <2>2, <3>1 DEF RankedOK, SearchOK, Live
  <2>. QED  BY <1>2, <2>1, <2>2
<1>6. walk = {} /\ emitted = NoClaims /\ extra = {} /\ leads = {}
  BY <1>1 DEF SearchOK, StagesOK, Retrieving
<1>7. FoundOK'
  BY <1>1, <1>6, FoundNothing
<1>8. StagesOK'
  BY <1>1, <1>6 DEF SearchOK, StagesOK, Retrieving, Expanding
<1>9. LeadsOK'
  BY <1>1, LeadsStay DEF SearchOK
<1>. QED  BY <1>3, <1>4, <1>5, <1>7, <1>8, <1>9 DEF SearchOK

\* While the hits are expanded, they and the lists stay.
LEMMA ExpandingIs ==
  ASSUME SearchOK, UNCHANGED <<dbVars, q, fts, vec, novel, graph, ranked, hits>>
  PROVE  ReadOK' /\ ListsOK' /\ RankedOK'
<1>1. q' = q /\ status' = status /\ alive' = alive /\ hits' = hits /\ ranked' = ranked
      /\ fts' = fts /\ novel' = novel /\ vec' = vec /\ graph' = graph
  BY DEF dbVars
<1>2. ReadOK'
  BY <1>1, ReadStays DEF SearchOK
<1>3. ListsOK'
  BY <1>1, ListsStay DEF SearchOK
<1>4. RankedOK'
  BY <1>1, RankedStays DEF SearchOK
<1>. QED  BY <1>2, <1>3, <1>4

\* What the next state has found, when it is typed and live.
LEMMA FoundNext ==
  ASSUME Found(walk'), LiveLeads(walk'), Claimed(emitted'), extra' \subseteq emitted'.out, UNCHANGED <<dbVars, q, hits>>
  PROVE  FoundOK'
<1>1. q' = q /\ alive' = alive /\ hits' = hits
  BY DEF dbVars
<1>. QED  BY <1>1 DEF FoundOK, Found, LiveLeads, Claimed, Excluded

\* The walk out of the hits.
LEMMA ExpandStepIs ==
  ASSUME SearchOK, ExpandStep
  PROVE  SearchOK'
<1> DEFINE A == {x \in Id : Admitted(x)}
           E == Expansions(A)
<1>1. walk' = E /\ emitted' = emitted /\ leads' = leads /\ extra' = extra /\ accessed' = accessed
      /\ q' = q /\ hits' = hits /\ stage = "expand" /\ stage' = "siblings"
  BY DEF ExpandStep
<1>2. ReadOK' /\ ListsOK' /\ RankedOK'
  BY ExpandingIs DEF ExpandStep
<1>3. HitList(hits) /\ ReadOK /\ Claimed(emitted) /\ extra \subseteq emitted.out
  BY DEF SearchOK, RankedOK, FoundOK
<1>4. A \in SUBSET Id /\ \A x \in A : x \in Id /\ Admitted(x)
  OBVIOUS
<1>. HIDE DEF A
<1>5. Live(A)
  BY <1>3, <1>4, AdmittedLive
<1>6. Found(E) /\ \A c \in E : c.id \in A
  BY <1>3, <1>4, ExpansionsIs
<1>. HIDE DEF E
<1>7. LiveLeads(E)
  BY <1>5, <1>6 DEF Live, LiveLeads
<1>8. FoundOK'
  BY <1>1, <1>3, <1>6, <1>7, FoundNext DEF ExpandStep
<1>9. StagesOK'
  BY <1>1 DEF SearchOK, StagesOK, Retrieving, Expanding
<1>10. LeadsOK'
  BY <1>1, LeadsStay DEF SearchOK
<1>. QED  BY <1>2, <1>8, <1>9, <1>10 DEF SearchOK

\* The siblings of the hits.
LEMMA SiblingStepIs ==
  ASSUME SearchOK, SiblingStep
  PROVE  SearchOK'
<1> DEFINE S == Siblings
           e == Emit(emitted, S)
<1>1. emitted' = e /\ walk' = walk /\ extra' = extra /\ leads' = {c \in S : c.score >= MinRelevance}
      /\ accessed' = accessed /\ q' = q /\ hits' = hits /\ stage = "siblings" /\ stage' = "history"
  BY DEF SiblingStep
<1>2. ReadOK' /\ ListsOK' /\ RankedOK'
  BY ExpandingIs DEF SiblingStep
<1>3. HitList(hits) /\ Claimed(emitted) /\ extra \subseteq emitted.out /\ Found(walk) /\ LiveLeads(walk)
  BY DEF SearchOK, RankedOK, FoundOK
<1>4. Found(S) /\ \A c \in S : c.via = "sibling" /\ Kind[c.id] = "class"
  BY <1>3, SiblingsIs
<1>. HIDE DEF S
<1>5. LiveLeads(S)
  BY <1>4 DEF LiveLeads
<1>6. /\ Claimed(e) /\ emitted.out \subseteq e.out /\ e.seen = emitted.seen \cup Ids(S)
      /\ \A c \in S : c.score >= MinRelevance => c.id \in emitted.seen \/ c.id \in Ids(e.out)
  BY <1>3, <1>4, <1>5, EmitIs
<1>. HIDE DEF e
<1>7. FoundOK'
  BY <1>1, <1>3, <1>6, FoundNext DEF SiblingStep
<1>8. StagesOK'
  BY <1>1 DEF SearchOK, StagesOK, Retrieving, Expanding
<1>9. emitted.seen = {}
  BY <1>1 DEF SearchOK, StagesOK, NoClaims
<1>10. LeadsOK'
  BY <1>1, <1>4, <1>6, <1>9 DEF LeadsOK, Ids
<1>. QED  BY <1>2, <1>7, <1>8, <1>10 DEF SearchOK

\* The history of the hits.
LEMMA HistoryStepIs ==
  ASSUME SearchOK, HistoryStep
  PROVE  SearchOK'
<1> DEFINE S == History
           e == Emit(emitted, S)
<1>1. emitted' = e /\ walk' = walk /\ extra' = extra /\ leads' = leads \cup {c \in S : c.score >= MinRelevance}
      /\ accessed' = accessed /\ q' = q /\ hits' = hits /\ stage = "history" /\ stage' = "append"
  BY DEF HistoryStep
<1>2. ReadOK' /\ ListsOK' /\ RankedOK'
  BY ExpandingIs DEF HistoryStep
<1>3. ReadOK /\ Claimed(emitted) /\ extra \subseteq emitted.out /\ Found(walk) /\ LiveLeads(walk)
  BY DEF SearchOK, FoundOK
<1>4. Found(S) /\ \A c \in S : c.via = "history" /\ c.id \in alive
  BY <1>3, HistoryIs
<1>. HIDE DEF S
<1>5. LiveLeads(S)
  BY <1>4 DEF LiveLeads
<1>6. /\ Claimed(e) /\ emitted.out \subseteq e.out
      /\ \A c \in S : c.score >= MinRelevance => c.id \in emitted.seen \/ c.id \in Ids(e.out)
  BY <1>3, <1>4, <1>5, EmitIs
<1>. HIDE DEF e
<1>7. FoundOK'
  <2>1. extra \subseteq e.out
    BY <1>3, <1>6
  <2>. QED  BY <1>1, <1>3, <1>6, <2>1, FoundNext DEF HistoryStep
<1>8. StagesOK'
  BY <1>1 DEF SearchOK, StagesOK, Retrieving, Expanding
<1>9. /\ \A x \in emitted.seen : Kind[x] = "class"
      /\ \A c \in leads : c.id \in Ids(emitted.out) \/ (c.via = "history" /\ Kind[c.id] = "class")
  BY <1>1 DEF SearchOK, LeadsOK
<1>10. Ids(emitted.out) \subseteq Ids(e.out)
  BY <1>6 DEF Ids
<1>11. LeadsOK'
  BY <1>1, <1>4, <1>6, <1>9, <1>10 DEF LeadsOK
<1>. QED  BY <1>2, <1>7, <1>8, <1>11 DEF SearchOK

\* The leads, appended.
LEMMA AppendStepIs ==
  ASSUME SearchOK, AppendStep
  PROVE  SearchOK'
<1> DEFINE e == Emit(emitted, walk)
           f == Emit(e, Novel)
           g == Emit(f, Deep)
           h == Emit(g, Weak)
<1>1. emitted' = h /\ walk' = walk /\ extra' = Capped(h.out) /\ leads' = leads
      /\ accessed' = accessed /\ q' = q /\ hits' = hits /\ stage = "append" /\ stage' = "done"
  BY DEF AppendStep
<1>2. ReadOK' /\ ListsOK' /\ RankedOK'
  BY ExpandingIs DEF AppendStep
<1>3. ReadOK /\ ListsOK /\ RankedOK /\ hits # <<>> /\ Claimed(emitted) /\ Found(walk) /\ LiveLeads(walk)
  BY <1>1 DEF SearchOK, FoundOK, StagesOK, Expanding
<1>4. Claimed(e) /\ emitted.out \subseteq e.out
  BY <1>3, EmitIs
<1>. HIDE DEF e
<1>5. Claimed(f) /\ e.out \subseteq f.out
  BY <1>3, <1>4, NovelIs, EmitIs
<1>. HIDE DEF f
<1>6. Claimed(g) /\ f.out \subseteq g.out
  BY <1>3, <1>5, DeepIs, EmitIs
<1>. HIDE DEF g
<1>7. Claimed(h) /\ g.out \subseteq h.out
  BY <1>3, <1>6, WeakIs, EmitIs
<1>. HIDE DEF h
<1>8. Capped(h.out) \subseteq h.out
  BY <1>7, CappedIs DEF Claimed
<1>9. FoundOK'
  BY <1>1, <1>3, <1>7, <1>8, FoundNext DEF AppendStep
<1>10. StagesOK'
  BY <1>1 DEF SearchOK, StagesOK, Retrieving, Expanding
<1>11. \A c \in leads : c.id \in Ids(emitted.out) \/ (c.via = "history" /\ Kind[c.id] = "class")
  BY DEF SearchOK, LeadsOK
<1>12. Ids(emitted.out) \subseteq Ids(h.out)
  BY <1>4, <1>5, <1>6, <1>7 DEF Ids
<1>13. LeadsOK'
  BY <1>1, <1>11, <1>12 DEF LeadsOK
<1>. QED  BY <1>2, <1>9, <1>10, <1>13 DEF SearchOK

-----------------------------------------------------------------------------
(* Every step of a search, and its theorems.                               *)

\* The invariant holds at the start,
LEMMA SearchInitOK ==
  ASSUME SearchInit
  PROVE  SearchOK
<1>1. /\ q \in Queries /\ status \in [Id -> {"active", "stale"}] /\ alive = {x \in Id : status[x] = "active"}
      /\ stage = (IF q.mode = "cold_start" THEN "cold" ELSE "fts")
      /\ fts = <<>> /\ vec = Nothing /\ novel = <<>>
      /\ graph = [code |-> <<>>, knowledge |-> <<>>, weak |-> <<>>]
      /\ ranked.list = <<>> /\ hits = <<>> /\ walk = {} /\ emitted = NoClaims /\ leads = {} /\ extra = {} /\ accessed = {}
  BY DEF SearchInit
<1>2. ReadOK
  BY <1>1 DEF ReadOK
<1>3. \A S : <<>> \in Seq(S)
  OBVIOUS
<1>4. Range(<<>>) = {} /\ Ids({}) = {} /\ Live({}) /\ Single({})
  BY DEF Range, Ids, Live, Single
<1>5. ListsOK
  <2>1. DOMAIN vec = Channels /\ \A c \in Channels : vec[c] = <<>>
    BY <1>1 DEF Nothing
  <2>2. (\A c \in Channels : graph[c] = <<>>) /\ graph.weak = <<>>
    BY <1>1 DEF Channels
  <2>. QED  BY <1>1, <1>3, <1>4, <2>1, <2>2 DEF ListsOK
<1>6. RankedOK
  <2>1. HitList(hits) /\ HitList(ranked.list)
    BY <1>1, <1>3 DEF HitList
  <2>2. ~(TopWindow(ranked.list) >= 2)
    <3> DEFINE A == {5, Limit, 0}
               L == {Limit}
    <3>1. Len(<<>>) = 0
      OBVIOUS
    <3>2. TopWindow(ranked.list) = Min(A)
      BY <1>1, <3>1 DEF TopWindow
    <3>3. A \in SUBSET Int /\ 0 \in A /\ A # {}
      BY Settings
    <3>4. IsFiniteSet({5}) /\ IsFiniteSet({0}) /\ IsFiniteSet(L)
      BY FS_Singleton
    <3>5. A = ({5} \cup L) \cup {0}
      OBVIOUS
    <3>6. IsFiniteSet({5} \cup L)
      BY <3>4, FS_Union
    <3>7. IsFiniteSet(({5} \cup L) \cup {0})
      BY <3>4, <3>6, FS_Union
    <3>. HIDE DEF A
    <3>8. Min(A) \in Int /\ Min(A) <= 0
      BY <3>3, <3>5, <3>7, Extremes
    <3>. QED  BY <3>2, <3>8
  <2>. QED  BY <1>1, <1>4, <2>1, <2>2 DEF RankedOK
<1>7. FoundOK
  BY <1>1, NothingFound DEF FoundOK
<1>8. StagesOK
  BY <1>1 DEF StagesOK, Retrieving, Expanding
<1>9. LeadsOK
  BY <1>1 DEF LeadsOK
<1>. QED  BY <1>2, <1>5, <1>6, <1>7, <1>8, <1>9 DEF SearchOK

\* and every step of a search keeps it,
LEMMA SearchNextOK ==
  ASSUME SearchOK, SearchNext
  PROVE  SearchOK'
<1>1. CASE FtsStep
  BY <1>1, FtsStepIs
<1>2. CASE VecStep("knowledge", "code")
  BY <1>2, VecStepIs, InChannelIs
<1>3. CASE VecStep("code", "prf")
  BY <1>3, VecStepIs, InChannelIs
<1>4. CASE PrfStep
  BY <1>4, PrfStepIs
<1>5. CASE GraphStep
  BY <1>5, GraphStepIs
<1>6. CASE RankStep
  BY <1>6, RankStepKeeps
<1>7. CASE GateStep
  BY <1>7, GateStepIs
<1>8. CASE ExpandStep
  BY <1>8, ExpandStepIs
<1>9. CASE SiblingStep
  BY <1>9, SiblingStepIs
<1>10. CASE HistoryStep
  BY <1>10, HistoryStepIs
<1>11. CASE AppendStep
  BY <1>11, AppendStepIs
<1>. QED  BY <1>1, <1>2, <1>3, <1>4, <1>5, <1>6, <1>7, <1>8, <1>9, <1>10, <1>11 DEF SearchNext

\* A step that leaves the search as it is, but for the stage after its end
\* and the access counts of an orientation.
LEMMA AroundIs ==
  ASSUME SearchOK, UNCHANGED <<dbVars, q, fts, vec, novel, graph, ranked, hits, walk, emitted, leads, extra>>,
         \/ stage = "cold" /\ stage' = "done"
         \/ stage' = stage /\ accessed' = accessed
         \/ stage' = "packed" /\ stage = "done"
  PROVE  SearchOK'
<1>1. walk' = walk /\ emitted' = emitted /\ extra' = extra /\ leads' = leads /\ q' = q /\ hits' = hits /\ alive' = alive
  BY DEF dbVars
<1>2. ReadOK' /\ ListsOK' /\ RankedOK'
  BY ExpandingIs
<1>3. FoundOK'
  BY <1>1, FoundStays DEF SearchOK
<1>4. StagesOK'
  BY <1>1 DEF SearchOK, StagesOK, Retrieving, Expanding
<1>5. LeadsOK'
  BY <1>1, LeadsStay DEF SearchOK
<1>. QED  BY <1>2, <1>3, <1>4, <1>5 DEF SearchOK

\* as does every step around it: a write, an orientation, a pack.
LEMMA PackNextOK ==
  ASSUME SearchOK, [PackNext]_<<dbVars, searchVars, packVars>>
  PROVE  SearchOK'
<1>1. CASE SearchNext
  BY <1>1, SearchNextOK
<1>2. CASE Sync
  BY <1>2, SyncIs
<1>3. CASE ColdStart
  BY <1>3, AroundIs DEF ColdStart
<1>4. CASE ReadBaseline
  BY <1>4, AroundIs DEF ReadBaseline, searchVars
<1>5. CASE Assemble
  BY <1>5, AroundIs DEF Assemble
<1>6. CASE UNCHANGED <<dbVars, searchVars, packVars>>
  BY <1>6, AroundIs DEF searchVars
<1>. QED  BY <1>1, <1>2, <1>3, <1>4, <1>5, <1>6 DEF PackNext

\* A search's state fits together: its lists hold entities of their channels,
\* live when the query asks for that; every channel that earned a slot shows in
\* the ranked window; what is found beyond the hits is new, found once and live;
\* leads come from what was emitted; what is counted as accessed is the hits.
\* The properties below follow from it; none of them is inductive without it.
THEOREM SearchHolds == PackSpec => []SearchOK
<1>1. PackInit => SearchOK
  BY SearchInitOK DEF PackInit
<1>2. SearchOK /\ [PackNext]_<<dbVars, searchVars, packVars>> => SearchOK'
  BY PackNextOK
<1>. QED  BY <1>1, <1>2, PTL DEF PackSpec

\* A channel with enough weight for a slot shows in the window of the ranked
\* list whenever it answered anything, whatever demotion, boost, diversification,
\* slots and quotas did to the order after the merge (post_merge,
\* src/search/rank.rs), for every list, every weight and every limit..
THEOREM SeenThroughout == PackSpec => []EarnedChannelSeen
<1>1. SearchOK => EarnedChannelSeen
  BY DEF SearchOK, RankedOK, EarnedChannelSeen, Seen
<1>. QED  BY <1>1, SearchHolds, PTL

\* A sibling or history member worth showing surfaces, although the channels
\* claim entities one after the other and drop what scores below the floor: only
\* a class that the sibling channel dropped is lost to history.
THEOREM LeadsThroughout == PackSpec => []LeadsSurface
<1>1. SearchOK => LeadsSurface
  BY DEF SearchOK, LeadsOK, LeadsSurface
<1>. QED  BY <1>1, SearchHolds, PTL

\* With the status filter on, a result or an expansion was active at some moment
\* of the search, although the database changes between its statements; siblings
\* alone are read without the filter.
THEOREM LiveThroughout == PackSpec => []ReturnedWasLive
<1>1. SearchOK => ReturnedWasLive
  <2> SUFFICES ASSUME SearchOK, ~q.all, NEW r \in Range(hits) \cup {x \in extra : x.via # "sibling"}
               PROVE  r.id \in alive
    BY DEF ReturnedWasLive
  <2>1. Live(Ids(Range(hits))) /\ extra \subseteq emitted.out /\ LiveLeads(emitted.out)
    BY DEF SearchOK, RankedOK, FoundOK, Claimed
  <2>. QED  BY <2>1 DEF Live, LiveLeads, Ids
<1>. QED  BY <1>1, SearchHolds, PTL

\* When a search ends, the accesses it recorded are those of its hits, or none,
\* and what it appended is neither among them nor appended twice.
THEOREM AccessThroughout == PackSpec => []AccessMeansReturned
<1>1. SearchOK => AccessMeansReturned
  <2> SUFFICES ASSUME SearchOK, stage = "done", q.mode # "cold_start"
               PROVE  /\ accessed = (IF q.record THEN Ids(Range(hits)) ELSE {})
                      /\ Cardinality(Ids(extra)) = Cardinality(extra)
                      /\ Ids(extra) \cap Ids(Range(hits)) = {}
    BY DEF AccessMeansReturned
  <2>1. accessed = (IF q.record THEN Ids(Range(hits)) ELSE {})
    BY DEF SearchOK, StagesOK
  <2>2. extra \subseteq emitted.out /\ IsFiniteSet(emitted.out) /\ Single(emitted.out) /\ Ids(emitted.out) \cap Excluded = {}
    BY DEF SearchOK, FoundOK, Claimed, Found
  <2>3. Cardinality(Ids(extra)) = Cardinality(extra)
    <3> DEFINE f == [x \in extra |-> x.id]
    <3>1. f \in Bijection(extra, Ids(extra))
      <4>1. f \in [extra -> Ids(extra)]
        BY DEF Ids
      <4>2. \A x, y \in extra : f[x] = f[y] => x = y
        BY <2>2 DEF Single
      <4>3. \A y \in Ids(extra) : \E x \in extra : f[x] = y
        BY DEF Ids
      <4>. QED  BY <4>1, <4>2, <4>3 DEF Bijection, Injection, IsInjective, Surjection
    <3>2. IsFiniteSet(extra)
      BY <2>2, FS_Subset
    <3>3. ExistsBijection(extra, Ids(extra))
      BY <3>1 DEF ExistsBijection
    <3>. QED  BY <3>2, <3>3, FS_Bijection, FS_CardinalityType
  <2>4. Ids(extra) \cap Ids(Range(hits)) = {}
    BY <2>2 DEF Ids, Excluded
  <2>. QED  BY <2>1, <2>3, <2>4
<1>. QED  BY <1>1, SearchHolds, PTL

-----------------------------------------------------------------------------
(* Largest and smallest of two.                                            *)

\* The larger of two numbers.
LEMMA MaxTwo ==
  ASSUME NEW a \in Int, NEW b \in Int
  PROVE  Max({a, b}) = (IF a >= b THEN a ELSE b)
<1> DEFINE S == {a, b}
<1>1. IsFiniteSet({a}) /\ IsFiniteSet({b})
  BY FS_Singleton
<1>2. S = {a} \cup {b}
  OBVIOUS
<1>3. IsFiniteSet({a} \cup {b})
  BY <1>1, FS_Union
<1>4. S \in SUBSET Int /\ S # {} /\ a \in S /\ b \in S
  OBVIOUS
<1>5. \A x \in S : x = a \/ x = b
  OBVIOUS
<1>. HIDE DEF S
<1>6. Max(S) \in S /\ \A x \in S : x <= Max(S)
  BY <1>2, <1>3, <1>4, Extremes
<1> DEFINE k == Max(S)
<1>8. (k = a \/ k = b) /\ a <= k /\ b <= k
  BY <1>4, <1>5, <1>6
<1>. HIDE DEF k
<1>9. k = (IF a >= b THEN a ELSE b)
  BY <1>8
<1>7. Max(S) = (IF a >= b THEN a ELSE b)
  BY <1>9 DEF k
<1>. QED  BY <1>7 DEF S

\* The smaller of two numbers.
LEMMA MinTwo ==
  ASSUME NEW a \in Int, NEW b \in Int
  PROVE  Min({a, b}) = (IF a <= b THEN a ELSE b)
<1> DEFINE S == {a, b}
<1>1. IsFiniteSet({a}) /\ IsFiniteSet({b})
  BY FS_Singleton
<1>2. S = {a} \cup {b}
  OBVIOUS
<1>3. IsFiniteSet({a} \cup {b})
  BY <1>1, FS_Union
<1>4. S \in SUBSET Int /\ S # {} /\ a \in S /\ b \in S
  OBVIOUS
<1>5. \A x \in S : x = a \/ x = b
  OBVIOUS
<1>. HIDE DEF S
<1>6. Min(S) \in S /\ \A x \in S : Min(S) <= x
  BY <1>2, <1>3, <1>4, Extremes
<1> DEFINE k == Min(S)
<1>8. (k = a \/ k = b) /\ k <= a /\ k <= b
  BY <1>4, <1>5, <1>6
<1>. HIDE DEF k
<1>9. k = (IF a <= b THEN a ELSE b)
  BY <1>8
<1>7. Min(S) = (IF a <= b THEN a ELSE b)
  BY <1>9 DEF k
<1>. QED  BY <1>7 DEF S

-----------------------------------------------------------------------------
(* Folds. *)

\* Wherever acc is in A, it goes on as step says.
Goes(acc, A, a, step, s) ==
  acc[0] = a /\ \A n \in 1 .. Len(s) : acc[n - 1] \in A => acc[n] = step[<<acc[n - 1], s[n]>>]

\* Some function is what a fold goes through.
LEMMA FoldExists ==
  ASSUME NEW A, NEW a \in A, NEW T, NEW s \in Seq(T), NEW step \in [A \X T -> A]
  PROVE  \E f : f \in [0 .. Len(s) -> A] /\ Goes(f, A, a, step, s)
<1> DEFINE m == Len(s)
           go == [p \in Nat \X A |-> IF p[1] \in 1 .. m THEN step[<<p[2], s[p[1]]>>] ELSE a]
<1>0. m \in Nat /\ \A n \in 1 .. m : s[n] \in T
  OBVIOUS
<1>. HIDE DEF m
<1>1. go \in [Nat \X A -> A]
  <2> SUFFICES ASSUME NEW p \in Nat \X A PROVE (IF p[1] \in 1 .. m THEN step[<<p[2], s[p[1]]>>] ELSE a) \in A
    OBVIOUS
  <2>. QED  BY <1>0
<1>2. PICK f : Unfolds(f, A, a, go, m)
  <2> HIDE DEF go
  <2>. QED  BY <1>0, <1>1, Recursion
<1>3. \A n \in 1 .. m : f[n] = step[<<f[n - 1], s[n]>>]
  <2> SUFFICES ASSUME NEW n \in 1 .. m PROVE f[n] = step[<<f[n - 1], s[n]>>]
    OBVIOUS
  <2>1. n - 1 \in 0 .. m /\ n \in Nat
    BY <1>0
  <2>2. f[n - 1] \in A /\ f[n] = go[<<n, f[n - 1]>>]
    <3> HIDE DEF go
    <3>. QED  BY <2>1, <1>2 DEF Unfolds
  <2>. QED  BY <2>1, <2>2
<1>. QED  BY <1>2, <1>3 DEF Unfolds, Goes, m

\* The costs of a sequence's members.
Costs(cost, s) == [i \in DOMAIN s |-> cost[s[i]]]
\* A step raises phi by no more than the member's cost.
Bounded(phi, step, cost, A, T) == \A p \in A, x \in T : phi[step[<<p, x>>]] <= phi[p] + cost[x]

\* A measure that no step raises by more than the cost of what it takes is
\* raised by no more than the total cost.
LEMMA FoldIs ==
  ASSUME NEW A, NEW a \in A, NEW T, NEW s \in Seq(T), NEW step \in [A \X T -> A],
         NEW acc, Goes(acc, A, a, step, s),
         NEW phi \in [A -> Int], NEW cost, \A x \in T : cost[x] \in Int,
         Bounded(phi, step, cost, A, T)
  PROVE  /\ acc[Len(s)] \in A
         /\ phi[acc[Len(s)]] <= phi[a] + Total(Costs(cost, s))
<1> DEFINE m == Len(s)
           c == [i \in DOMAIN s |-> cost[s[i]]]
<1>0. m \in Nat /\ \A n \in 1 .. m : s[n] \in T
  OBVIOUS
<1>1. c \in Seq(Int) /\ Len(c) = m /\ \A n \in 1 .. m : c[n] = cost[s[n]]
  <2>1. c \in [1 .. m -> Int]
    OBVIOUS
  <2>2. \A n \in 1 .. m : c[n] = cost[s[n]]
    OBVIOUS
  <2>. HIDE DEF c, m
  <2>. QED  BY <1>0, <2>1, <2>2, FcnIsSeq
<1>. HIDE DEF c
<1>2. PICK g : Sums(g, c) /\ Total(c) = g[m]
  BY <1>1, TotalSums
<1>3. g[0] = 0 /\ (\A n \in 1 .. m : g[n] = g[n - 1] + c[n]) /\ g \in [0 .. m -> Int]
  BY <1>1, <1>2 DEF Sums
<1>4. acc[0] = a /\ \A n \in 1 .. m : acc[n - 1] \in A => acc[n] = step[<<acc[n - 1], s[n]>>]
  BY DEF Goes
<1>. HIDE DEF m
<1> DEFINE U == {n \in Nat : acc[n] \in A /\ phi[acc[n]] <= phi[a] + g[n]}
<1>5. 0 \in U
  BY <1>3, <1>4
<1>6. ASSUME NEW n \in 0 .. m - 1, n \in U PROVE n + 1 \in U
  <2>1. n + 1 \in 1 .. m /\ (n + 1) - 1 = n /\ n + 1 \in Nat /\ n \in 0 .. m
    BY <1>0
  <2>2. acc[n] \in A /\ phi[acc[n]] <= phi[a] + g[n]
    BY <1>6
  <2>3. acc[n + 1] = step[<<acc[n], s[n + 1]>>] /\ s[n + 1] \in T
    BY <2>1, <2>2, <1>0, <1>4
  <2>4. acc[n + 1] \in A /\ phi[acc[n + 1]] <= phi[acc[n]] + cost[s[n + 1]]
    BY <2>2, <2>3 DEF Bounded
  <2>5. g[n + 1] = g[n] + cost[s[n + 1]] /\ g[n] \in Int /\ cost[s[n + 1]] \in Int
    BY <2>1, <2>3, <1>1, <1>3
  <2>6. phi[acc[n]] \in Int /\ phi[acc[n + 1]] \in Int /\ phi[a] \in Int
    BY <2>2, <2>4
  <2>7. phi[acc[n + 1]] <= phi[a] + g[n + 1]
    BY <2>2, <2>4, <2>5, <2>6
  <2>. QED  BY <2>1, <2>4, <2>7
<1>7. 0 .. m \subseteq U
  <2> HIDE DEF U
  <2>. QED  BY <1>0, <1>5, <1>6, BoundInduct
<1>8. m \in U
  BY <1>0, <1>7
<1>. QED  BY <1>2, <1>8 DEF c, m, Costs

-----------------------------------------------------------------------------
(* The widths of texts. *)

\* A width is the last of the running sums of the lines' widths.
LEMMA WideSums ==
  ASSUME NEW l \in Seq(Line)
  PROVE  \E g : g \in [0 .. Len(l) -> Nat] /\ g[0] = 0 /\ g[Len(l)] = Wide(l)
                /\ \A n \in 1 .. Len(l) : g[n] = g[n - 1] + (l[n].width + 1)
<1> DEFINE m == Len(l)
           c == [i \in DOMAIN l |-> l[i].width + 1]
<1>0. m \in Nat /\ DOMAIN l = 1 .. m /\ \A n \in 1 .. m : l[n] \in Line
  OBVIOUS
<1>1. \A n \in 1 .. m : l[n].width \in Nat /\ l[n].width + 1 \in Int
  BY <1>0 DEF Line
<1>2. Wide(l) = Total(c)
  BY DEF Wide
<1>3. c \in [1 .. m -> Int] /\ \A n \in 1 .. m : c[n] = l[n].width + 1
  BY <1>0, <1>1
<1>. HIDE DEF c, m
<1>4. c \in Seq(Int) /\ Len(c) = m
  BY <1>0, <1>3, FcnIsSeq
<1>5. PICK g : Sums(g, c) /\ Total(c) = g[m]
  BY <1>4, TotalSums
<1>6. g \in [0 .. m -> Int] /\ g[0] = 0 /\ \A n \in 1 .. m : g[n] = g[n - 1] + (l[n].width + 1)
  BY <1>3, <1>4, <1>5 DEF Sums
<1> DEFINE U == {n \in Nat : g[n] \in Nat}
<1>7. 0 \in U
  BY <1>6
<1>8. ASSUME NEW n \in 0 .. m - 1, n \in U PROVE n + 1 \in U
  <2>1. n + 1 \in 1 .. m /\ (n + 1) - 1 = n /\ n + 1 \in Nat
    BY <1>0
  <2>2. g[n] \in Nat /\ g[n + 1] = g[n] + (l[n + 1].width + 1)
    BY <1>6, <1>8, <2>1
  <2>3. l[n + 1].width \in Nat
    BY <1>1, <2>1
  <2> DEFINE a == g[n]
             b == g[n + 1]
             z == l[n + 1].width
  <2>4. a \in Nat /\ z \in Nat /\ b = a + (z + 1)
    BY <2>2, <2>3
  <2>. HIDE DEF a, b, z
  <2>5. b \in Nat
    BY <2>4
  <2>. QED  BY <2>1, <2>5 DEF b
<1>9. 0 .. m \subseteq U
  <2> HIDE DEF U
  <2>. QED  BY <1>0, <1>7, <1>8, BoundInduct
<1>10. g \in [0 .. m -> Nat]
  BY <1>6, <1>9
<1>. QED  BY <1>2, <1>5, <1>6, <1>10 DEF m

\* The width of the first lines of a text.
LEMMA WideOfFirst ==
  ASSUME NEW l \in Seq(Line), NEW t \in Seq(Line), Len(t) <= Len(l), \A i \in 1 .. Len(t) : t[i] = l[i],
         NEW g, g[0] = 0, \A n \in 1 .. Len(l) : g[n] = g[n - 1] + (l[n].width + 1)
  PROVE  Wide(t) = g[Len(t)]
<1> DEFINE m == Len(t)
           k == Len(l)
<1>0. m \in Nat /\ k \in Nat /\ m <= k
  OBVIOUS
<1>1. PICK h : h \in [0 .. m -> Nat] /\ h[0] = 0 /\ h[m] = Wide(t) /\ \A n \in 1 .. m : h[n] = h[n - 1] + (t[n].width + 1)
  BY WideSums
<1>2. \A i \in 1 .. m : t[i] = l[i]
  OBVIOUS
<1>3. \A n \in 1 .. k : g[n] = g[n - 1] + (l[n].width + 1)
  OBVIOUS
<1>. HIDE DEF m, k
<1> DEFINE U == {n \in Nat : h[n] = g[n]}
<1>4. 0 \in U
  BY <1>1
<1>5. ASSUME NEW n \in 0 .. m - 1, n \in U PROVE n + 1 \in U
  <2>1. n + 1 \in 1 .. m /\ (n + 1) - 1 = n /\ n + 1 \in Nat /\ n + 1 \in 1 .. k
    BY <1>0
  <2>2. h[n + 1] = h[n] + (t[n + 1].width + 1) /\ g[n + 1] = g[n] + (l[n + 1].width + 1) /\ t[n + 1] = l[n + 1]
    BY <2>1, <1>1, <1>2, <1>3
  <2>3. h[n + 1] = g[n + 1]
    BY <1>5, <2>2
  <2>. QED  BY <2>1, <2>3
<1>6. 0 .. m \subseteq U
  <2> HIDE DEF U
  <2>. QED  BY <1>0, <1>4, <1>5, BoundInduct
<1>7. m \in U
  BY <1>0, <1>6
<1>. QED  BY <1>1, <1>7 DEF m

\* One line more adds its width and a break; the first lines are no wider than all.
LEMMA WideIs ==
  ASSUME NEW l \in Seq(Line)
  PROVE  /\ Wide(l) \in Nat /\ (l # <<>> => Wide(l) >= 1) /\ (l = <<>> => Wide(l) = 0)
         /\ \A x \in Line : Append(l, x) \in Seq(Line) /\ Wide(Append(l, x)) = Wide(l) + (x.width + 1)
         /\ \A n \in 0 .. Len(l) : /\ SubSeq(l, 1, n) \in Seq(Line) /\ Len(SubSeq(l, 1, n)) = n
                                   /\ Wide(SubSeq(l, 1, n)) \in Nat /\ Wide(SubSeq(l, 1, n)) <= Wide(l)
<1> DEFINE m == Len(l)
<1>0. m \in Nat
  OBVIOUS
<1>1. PICK g : g \in [0 .. m -> Nat] /\ g[0] = 0 /\ g[m] = Wide(l) /\ \A n \in 1 .. m : g[n] = g[n - 1] + (l[n].width + 1)
  BY WideSums
<1>a. \A n \in 1 .. m : l[n].width \in Nat
  <2> SUFFICES ASSUME NEW n \in 1 .. m PROVE l[n].width \in Nat
    OBVIOUS
  <2>1. l[n] \in Line
    OBVIOUS
  <2>. QED  BY <2>1 DEF Line
<1>2. Wide(l) \in Nat
  BY <1>0, <1>1
<1>3. l = <<>> => Wide(l) = 0
  BY <1>1
<1>4. l # <<>> => Wide(l) >= 1
  <2> SUFFICES ASSUME l # <<>> PROVE Wide(l) >= 1
    OBVIOUS
  <2>1. m \in 1 .. m /\ m - 1 \in 0 .. m
    BY <1>0
  <2>2. g[m] = g[m - 1] + (l[m].width + 1) /\ g[m - 1] \in Nat /\ l[m].width \in Nat
    BY <2>1, <1>1, <1>a
  <2>. QED  BY <2>2, <1>1
<1>5. ASSUME NEW x \in Line PROVE Append(l, x) \in Seq(Line) /\ Wide(Append(l, x)) = Wide(l) + (x.width + 1)
  <2> DEFINE t == Append(l, x)
  <2>1. t \in Seq(Line) /\ Len(t) = m + 1 /\ t[m + 1] = x /\ \A i \in 1 .. m : t[i] = l[i]
    OBVIOUS
  <2>. HIDE DEF t
  <2>2. PICK h : h \in [0 .. Len(t) -> Nat] /\ h[0] = 0 /\ h[Len(t)] = Wide(t)
                 /\ \A n \in 1 .. Len(t) : h[n] = h[n - 1] + (t[n].width + 1)
    BY <2>1, WideSums
  <2>3. Len(l) <= Len(t) /\ \A i \in 1 .. Len(l) : l[i] = t[i]
    BY <2>1
  <2>4. Wide(l) = h[m]
    BY <2>1, <2>2, <2>3, WideOfFirst
  <2>5. m + 1 \in 1 .. Len(t) /\ (m + 1) - 1 = m
    BY <1>0, <2>1
  <2>. QED  BY <2>1, <2>2, <2>4, <2>5 DEF t
<1>6. ASSUME NEW n \in 0 .. m
      PROVE  /\ SubSeq(l, 1, n) \in Seq(Line) /\ Len(SubSeq(l, 1, n)) = n
             /\ Wide(SubSeq(l, 1, n)) \in Nat /\ Wide(SubSeq(l, 1, n)) <= Wide(l)
  <2> DEFINE t == SubSeq(l, 1, n)
  <2>1. t \in Seq(Line) /\ Len(t) = n /\ \A i \in 1 .. n : t[i] = l[i]
    OBVIOUS
  <2>. HIDE DEF t
  <2>2. Wide(t) = g[n]
    BY <1>0, <1>1, <2>1, WideOfFirst
  <2>. HIDE DEF m
  <2> DEFINE U == {k \in Nat : g[n + k] \in Nat /\ g[n] <= g[n + k]}
             d == m - n
  <2>3. n \in Nat /\ d \in Nat /\ n + d = m /\ n + 0 = n /\ g[n] \in Nat
    BY <1>0, <1>1
  <2>4. 0 \in U
    BY <2>3
  <2>5. ASSUME NEW k \in 0 .. d - 1, k \in U PROVE k + 1 \in U
    <3>1. n + (k + 1) \in 1 .. m /\ (n + (k + 1)) - 1 = n + k /\ k + 1 \in Nat
      BY <2>3
    <3>2. g[n + (k + 1)] = g[n + k] + (l[n + (k + 1)].width + 1) /\ l[n + (k + 1)].width \in Nat
      BY <3>1, <1>1, <1>a
    <3> DEFINE a == g[n + k]
               b == g[n + (k + 1)]
               w == l[n + (k + 1)].width
    <3>3. a \in Nat /\ g[n] <= a /\ b = a + (w + 1) /\ w \in Nat
      BY <2>5, <3>2
    <3>. HIDE DEF a, b, w
    <3>4. b \in Nat /\ g[n] <= b
      BY <2>3, <3>3
    <3>. QED  BY <3>1, <3>4 DEF b
  <2>6. 0 .. d \subseteq U
    <3> HIDE DEF U, d
    <3>. QED  BY <2>3, <2>4, <2>5, BoundInduct
  <2>7. d \in U
    BY <2>3, <2>6
  <2>8. g[n] <= g[m]
    BY <2>3, <2>7
  <2>. QED  BY <1>1, <2>1, <2>2, <2>3, <2>8 DEF t
<1>. QED  BY <1>2, <1>3, <1>4, <1>5, <1>6

\* Characters and tokens are natural numbers, four of the one to one of the other.
LEMMA CharsIs ==
  ASSUME NEW l \in Seq(Line)
  PROVE  /\ Chars(l) \in Nat /\ Est(l) \in Nat /\ 4 * Est(l) <= Chars(l) /\ Chars(l) <= 4 * Est(l) + 3
         /\ (l # <<>> => Chars(l) = Wide(l) - 1)
<1>1. Wide(l) \in Nat /\ (l # <<>> => Wide(l) >= 1)
  BY WideIs
<1>2. Chars(l) \in Nat /\ (l # <<>> => Chars(l) = Wide(l) - 1)
  BY <1>1 DEF Chars
<1> DEFINE c == Chars(l)
<1>3. c \in Nat /\ Est(l) = c \div 4
  BY <1>2 DEF Est
<1>. HIDE DEF c
<1>4. Est(l) \in Nat /\ 4 * Est(l) <= c /\ c <= 4 * Est(l) + 3
  BY <1>3
<1>. QED  BY <1>2, <1>4 DEF c

\* The tokens that an excerpt may add hold its marker.
LEMMA GrowthIs == Growth \in Nat /\ Marker \in Nat /\ Marker <= 4 * Growth
<1>1. Marker \in Nat
  BY PackAssumption
<1>. QED  BY <1>1 DEF Growth

\* An excerpt of a text may be larger by its marker.
LEMMA ExcerptIs ==
  ASSUME NEW l \in Seq(Line), NEW n \in Nat
  PROVE  Excerpt(l, n) \in Seq(Line) /\ Est(Excerpt(l, n)) <= Est(l) + Growth
<1> DEFINE m == Len(l)
           h == SubSeq(l, 1, n)
           k == More + m - n
           y == [is |-> k, width |-> Marker]
           e == Excerpt(l, n)
<1>0. m \in Nat
  OBVIOUS
<1>g. Growth \in Nat /\ Marker \in Nat /\ Marker <= 4 * Growth
  BY GrowthIs
<1>1. CASE m <= n
  <2>1. e = l
    BY <1>1 DEF Excerpt
  <2>2. Est(l) \in Nat
    BY CharsIs
  <2>. QED  BY <1>g, <2>1, <2>2
<1>2. CASE ~(m <= n)
  <2>1. n \in 0 .. m
    BY <1>0, <1>2
  <2>2. h \in Seq(Line) /\ Wide(h) \in Nat /\ Wide(h) + 1 <= Wide(l)
    <3>1. h \in Seq(Line) /\ Wide(h) \in Nat
      BY <2>1, WideIs
    <3> DEFINE z == l[n + 1]
               f == SubSeq(l, 1, n + 1)
    <3>a. n + 1 \in 1 .. m
      <4>. HIDE DEF m
      <4>. QED  BY <1>0, <1>2
    <3>b. z \in Line
      BY <3>a
    <3>2. n + 1 \in 0 .. m /\ z \in Line /\ z.width \in Nat
      <4>. HIDE DEF z, m
      <4>. QED  BY <1>0, <3>a, <3>b DEF Line
    <3>3. f = Append(h, z)
      BY <3>a
    <3>4. Wide(f) <= Wide(l) /\ Wide(l) \in Nat
      BY <3>2, WideIs
    <3>. HIDE DEF h, z, f
    <3>5. Wide(f) = Wide(h) + (z.width + 1)
      BY <3>1, <3>2, <3>3, WideIs
    <3>. QED  BY <3>1, <3>2, <3>4, <3>5
  <2>3. k \in Nat
    BY SMT, <1>0, <1>2 DEF More
  <2>4. e = Append(h, y)
    BY <1>2 DEF Excerpt
  <2>. HIDE DEF k
  <2>5. y \in Line /\ y.width = Marker
    BY <1>g, <2>3 DEF Line
  <2>. HIDE DEF h, y
  <2>6. e \in Seq(Line) /\ Wide(e) = Wide(h) + (Marker + 1)
    BY <2>2, <2>4, <2>5, WideIs
  <2>7. e # <<>> /\ l # <<>>
    BY <1>0, <1>2, <2>2, <2>4
  <2>. HIDE DEF e
  <2>8. /\ Chars(e) = Wide(e) - 1 /\ Chars(l) = Wide(l) - 1
        /\ Est(e) \in Nat /\ 4 * Est(e) <= Chars(e)
        /\ Est(l) \in Nat /\ Chars(l) <= 4 * Est(l) + 3
    BY <2>6, <2>7, CharsIs
  <2>9. Wide(l) \in Nat
    BY WideIs
  <2> DEFINE a == Est(e)
             b == Est(l)
             c == Wide(l)
             d == Wide(h)
  <2>a. d + Marker <= 4 * b + 3 + Marker /\ 4 * a <= d + Marker
    <3>1. c - 1 <= 4 * b + 3 /\ 4 * a <= (d + (Marker + 1)) - 1 /\ d + 1 <= c
      BY <2>2, <2>6, <2>8
    <3>2. a \in Nat /\ b \in Nat /\ c \in Nat /\ d \in Nat
      BY <2>2, <2>8, <2>9
    <3>. HIDE DEF a, b, c, d
    <3>. QED  BY <1>g, <3>1, <3>2
  <2>b. a \in Nat /\ b \in Nat /\ d \in Nat
    BY <2>2, <2>8
  <2>. HIDE DEF a, b, c, d
  <2>10. 4 * a <= 4 * b + 4 * Growth + 3
    BY <1>g, <2>a, <2>b
  <2>11. Est(e) <= Est(l) + Growth
    <3>1. a <= b + Growth
      BY <1>g, <2>b, <2>10
    <3>. QED  BY <3>1 DEF a, b
  <2>. QED  BY <2>6, <2>11 DEF e
<1>. QED  BY <1>0, <1>1, <1>2

\* What is cut to a budget fits it.
LEMMA TruncatedIs ==
  ASSUME NEW l \in Seq(Line), NEW n \in Nat
  PROVE  Truncated(l, n) \in Seq(Line) /\ Est(Truncated(l, n)) <= n
<1> DEFINE m == Len(l)
           S == {k \in 0 .. m : Wide(SubSeq(l, 1, k)) <= 4 * n - 3}
           w == Max(S)
           h == SubSeq(l, 1, w)
           y == [is |-> Cut + l[w + 1].is, width |-> 4 * n - Wide(h)]
           t == Truncated(l, n)
<1>0. m \in Nat
  OBVIOUS
<1>1. CASE n = 0
  <2>1. t = <<>>
    BY <1>1 DEF Truncated
  <2>2. <<>> \in Seq(Line) /\ Chars(<<>>) = 0
    BY DEF Chars
  <2>3. Est(<<>>) \in Nat /\ 4 * Est(<<>>) <= 0
    BY <2>2, CharsIs
  <2>4. Est(<<>>) = 0
    BY <2>3
  <2>. HIDE DEF t
  <2>5. t \in Seq(Line) /\ Est(t) = 0
    BY <2>1, <2>2, <2>4
  <2>6. Est(t) <= n
    BY <2>5
  <2>. QED  BY <2>5, <2>6 DEF t
<1>2. CASE n # 0 /\ Chars(l) <= 4 * n
  <2>1. t = l
    BY <1>2 DEF Truncated
  <2>2. Est(l) \in Nat /\ 4 * Est(l) <= Chars(l) /\ Chars(l) \in Nat
    BY CharsIs
  <2>3. Est(l) <= n
    BY <1>2, <2>2
  <2>. QED  BY <2>1, <2>3
<1>3. CASE n # 0 /\ ~(Chars(l) <= 4 * n)
  <2>1. S \in SUBSET Int /\ IsFiniteSet(S)
    <3>1. IsFiniteSet(0 .. m)
      BY <1>0, FS_Interval
    <3>2. S \subseteq 0 .. m
      OBVIOUS
    <3>. QED  BY <3>1, <3>2, FS_Subset
  <2>2. 0 \in S
    <3>1. 0 \in 0 .. m /\ SubSeq(l, 1, 0) = <<>>
      BY <1>0
    <3>2. Wide(<<>>) = 0
      <4>1. <<>> \in Seq(Line)
        OBVIOUS
      <4>. QED  BY <4>1, WideIs
    <3> DEFINE z == Wide(SubSeq(l, 1, 0))
    <3>3. z = 0
      BY <3>1, <3>2
    <3>. HIDE DEF z
    <3>4. z <= 4 * n - 3
      BY <3>3, <1>3
    <3>. QED  BY <3>1, <3>4 DEF z
  <2>3. w \in S
    <3> HIDE DEF S
    <3>. QED  BY <2>1, <2>2, Extremes
  <2>4. w \in 0 .. m /\ Wide(h) <= 4 * n - 3
    BY <2>3
  <2>5. t = Append(h, y)
    BY <1>3 DEF Truncated
  <2>. HIDE DEF w, S
  <2>6. h \in Seq(Line) /\ Wide(h) \in Nat
    BY <2>4, WideIs
  <2>7. w + 1 \in 1 .. m
    <3>1. CASE w = m
      <4>1. h = l
        BY <3>1
      <4>2. l # <<>> => Chars(l) = Wide(l) - 1
        BY CharsIs
      <4>3. l = <<>> => Chars(l) = 0
        BY DEF Chars
      <4> DEFINE a == Chars(l)
                 b == Wide(h)
      <4>4. (a = 0 \/ a = b - 1) /\ b <= 4 * n - 3 /\ ~(a <= 4 * n) /\ b \in Nat
        BY <1>3, <2>4, <2>6, <4>1, <4>2, <4>3
      <4>. HIDE DEF a, b
      <4>5. FALSE
        BY <4>4
      <4>. QED  BY <4>5
    <3>2. CASE w # m
      BY <1>0, <2>4, <3>2
    <3>. QED  BY <3>1, <3>2
  <2>. HIDE DEF h
  <2>8. l[w + 1].is \in Nat
    <3>1. l[w + 1] \in Line
      BY <2>7
    <3>. QED  BY <3>1 DEF Line
  <2>9. 4 * n - Wide(h) \in Nat
    BY <2>4, <2>6
  <2>a. Cut + l[w + 1].is \in Nat
    BY SMT, <2>8 DEF Cut
  <2>10. y \in Line /\ y.width = 4 * n - Wide(h)
    BY <2>9, <2>a DEF Line
  <2>. HIDE DEF y, t
  <2>11. t \in Seq(Line) /\ Wide(t) = Wide(h) + (y.width + 1) /\ t # <<>>
    BY <2>5, <2>6, <2>10, WideIs
  <2>12. Chars(t) = Wide(t) - 1 /\ Est(t) \in Nat /\ 4 * Est(t) <= Chars(t)
    BY <2>11, CharsIs
  <2>13. Est(t) <= n
    BY <2>6, <2>10, <2>11, <2>12
  <2>. QED  BY <2>11, <2>13 DEF t
<1>. QED  BY <1>1, <1>2, <1>3

-----------------------------------------------------------------------------
(* The sections of a pack and their sizes.                                 *)

\* The sections: their sources, their lines, their tokens.
Sources == {"identity", "rule", "knowledge", "observation", "code_map", "knowledge_index"} \cup CodeKinds
Sections == [source : Sources, id : Int, lines : Seq(Line), score : Int, tier : {"baseline", "full"}]
Sec == {x \in Sections : x.source \in CodeKinds => x.id \in Id}
Cost == [x \in Sec |-> Tokens(x)]

\* A section's fields.
LEMMA SecIs ==
  ASSUME NEW x \in Sec
  PROVE  /\ x \in Sections /\ x.source \in Sources /\ x.id \in Int /\ x.lines \in Seq(Line) /\ x.score \in Int
         /\ x.tier \in {"baseline", "full"} /\ (x.source \in CodeKinds => x.id \in Id)
         /\ Est(x.lines) \in Nat /\ Tokens(x) = Title + Est(x.lines) /\ Tokens(x) \in Nat /\ Tokens(x) >= 1
         /\ Title \in Nat /\ Title >= 1
<1>1. x \in Sections /\ (x.source \in CodeKinds => x.id \in Id)
  BY DEF Sec
<1>2. x.source \in Sources /\ x.id \in Int /\ x.lines \in Seq(Line) /\ x.score \in Int /\ x.tier \in {"baseline", "full"}
  BY <1>1 DEF Sections
<1>3. Est(x.lines) \in Nat /\ Title \in Nat /\ Title >= 1
  <2> DEFINE l == x.lines
  <2>1. l \in Seq(Line)
    BY <1>2
  <2>. HIDE DEF l
  <2>2. Est(l) \in Nat
    BY <2>1, CharsIs
  <2>. QED  BY <2>2, PackAssumption DEF l
<1>. QED  BY <1>1, <1>2, <1>3 DEF Tokens

\* A section with other lines.
LEMMA Relined ==
  ASSUME NEW x \in Sec, NEW l \in Seq(Line), NEW y, y = [x EXCEPT !.lines = l]
  PROVE  y \in Sec /\ y.tier = x.tier /\ y.source = x.source /\ y.id = x.id /\ y.lines = l /\ Tokens(y) = Title + Est(l)
<1>1. x \in Sections /\ (x.source \in CodeKinds => x.id \in Id)
  BY DEF Sec
<1>2. y \in Sections /\ y.tier = x.tier /\ y.source = x.source /\ y.id = x.id /\ y.lines = l
  BY <1>1 DEF Sections
<1>. QED  BY <1>1, <1>2 DEF Sec, Tokens

\* A size is the last of the running sums of tokens.
LEMMA SizeSums ==
  ASSUME NEW s \in Seq(Sec)
  PROVE  /\ Size(s) = Total(Costs(Cost, s))
         /\ \E g : g \in [0 .. Len(s) -> Nat] /\ g[0] = 0 /\ g[Len(s)] = Size(s)
                   /\ \A n \in 1 .. Len(s) : g[n] = g[n - 1] + Tokens(s[n])
<1> DEFINE m == Len(s)
           c == [i \in DOMAIN s |-> Tokens(s[i])]
<1>0. m \in Nat /\ DOMAIN s = 1 .. m /\ \A n \in 1 .. m : s[n] \in Sec
  OBVIOUS
<1>1. ASSUME NEW n \in 1 .. m PROVE c[n] = Tokens(s[n]) /\ Tokens(s[n]) \in Nat /\ Cost[s[n]] = Tokens(s[n])
  <2>1. s[n] \in Sec
    BY <1>0
  <2>. QED  BY <2>1, <1>0, SecIs DEF Cost
<1>2. Size(s) = Total(c)
  BY DEF Size
<1>3. c = [i \in DOMAIN s |-> Cost[s[i]]]
  BY <1>0, <1>1
<1>4. c \in [1 .. m -> Int]
  <2>1. DOMAIN c = 1 .. m /\ c = [i \in 1 .. m |-> Tokens(s[i])]
    BY <1>0
  <2>2. ASSUME NEW n \in 1 .. m PROVE Tokens(s[n]) \in Int
    <3>1. Tokens(s[n]) \in Nat
      BY <1>1
    <3>. QED  BY <3>1
  <2>. QED  BY <2>1, <2>2
<1>5. Size(s) = Total(Costs(Cost, s))
  BY <1>2, <1>3 DEF Costs
<1>. HIDE DEF c, m
<1>6. c \in Seq(Int) /\ Len(c) = m
  BY <1>0, <1>4, FcnIsSeq
<1>7. PICK g : Sums(g, c) /\ Total(c) = g[m]
  BY <1>6, TotalSums
<1>8. g \in [0 .. m -> Int] /\ g[0] = 0 /\ \A n \in 1 .. m : g[n] = g[n - 1] + Tokens(s[n])
  BY <1>1, <1>6, <1>7 DEF Sums
<1>9. 0 .. m \subseteq {n \in Nat : g[n] \in Nat}
  <2> DEFINE U == {n \in Nat : g[n] \in Nat}
  <2>1. 0 \in U
    BY <1>8
  <2>2. ASSUME NEW n \in 0 .. m - 1, n \in U PROVE n + 1 \in U
    <3>1. n + 1 \in 1 .. m /\ (n + 1) - 1 = n /\ n + 1 \in Nat
      BY <1>0
    <3>. QED  BY <2>2, <3>1, <1>1, <1>8
  <2>3. 0 .. m \subseteq U
    <3> HIDE DEF U
    <3>. QED  BY <1>0, <2>1, <2>2, BoundInduct
  <2>. QED  BY <2>3
<1>10. g \in [0 .. m -> Nat]
  BY <1>8, <1>9
<1>. QED  BY <1>2, <1>5, <1>7, <1>8, <1>10 DEF m

\* A size is a natural number.
LEMMA SizeNat ==
  ASSUME NEW s \in Seq(Sec)
  PROVE  Size(s) \in Nat
<1>1. PICK g : g \in [0 .. Len(s) -> Nat] /\ g[Len(s)] = Size(s)
  BY SizeSums
<1>2. Len(s) \in 0 .. Len(s)
  OBVIOUS
<1>. QED  BY <1>1, <1>2

\* No sections, no size.
LEMMA SizeEmpty == Size(<<>>) = 0 /\ <<>> \in Seq(Sec)
<1>1. <<>> \in Seq(Sec) /\ Len(<<>>) = 0
  OBVIOUS
<1>. QED  BY <1>1, SizeSums

\* The sizes of two sequences, one after the other, add up.
LEMMA SizeJoined ==
  ASSUME NEW s \in Seq(Sec), NEW t \in Seq(Sec)
  PROVE  s \o t \in Seq(Sec) /\ Size(s \o t) = Size(s) + Size(t)
<1> DEFINE j == s \o t
           m == Len(s)
           k == Len(t)
<1>0. m \in Nat /\ k \in Nat
  OBVIOUS
<1>1. /\ j \in Seq(Sec) /\ Len(j) = m + k
      /\ (\A i \in 1 .. m : j[i] = s[i])
      /\ \A i \in 1 .. k : j[m + i] = t[i]
  OBVIOUS
<1>2. PICK g : g \in [0 .. m -> Nat] /\ g[0] = 0 /\ g[m] = Size(s) /\ \A n \in 1 .. m : g[n] = g[n - 1] + Tokens(s[n])
  BY SizeSums
<1>3. PICK h : h \in [0 .. k -> Nat] /\ h[0] = 0 /\ h[k] = Size(t) /\ \A n \in 1 .. k : h[n] = h[n - 1] + Tokens(t[n])
  BY SizeSums
<1>. HIDE DEF j
<1>4. PICK f : f \in [0 .. Len(j) -> Nat] /\ f[0] = 0 /\ f[Len(j)] = Size(j)
               /\ \A n \in 1 .. Len(j) : f[n] = f[n - 1] + Tokens(j[n])
  BY <1>1, SizeSums
<1>. HIDE DEF m, k
<1>5. f[m + k] = Size(j) /\ f[0] = 0 /\ \A n \in 1 .. m + k : f[n] = f[n - 1] + Tokens(j[n])
  BY <1>1, <1>4
<1>6. f[m] = Size(s)
  <2> DEFINE U == {n \in Nat : f[n] = g[n]}
  <2>1. 0 \in U
    BY <1>2, <1>5
  <2>2. ASSUME NEW n \in 0 .. m - 1, n \in U PROVE n + 1 \in U
    <3>1. n + 1 \in 1 .. m /\ (n + 1) - 1 = n /\ n + 1 \in Nat /\ n + 1 \in 1 .. m + k
      BY <1>0
    <3>2. f[n + 1] = f[n] + Tokens(j[n + 1]) /\ g[n + 1] = g[n] + Tokens(s[n + 1]) /\ j[n + 1] = s[n + 1]
      BY <3>1, <1>1, <1>2, <1>5
    <3>. QED  BY <2>2, <3>1, <3>2
  <2>3. 0 .. m \subseteq U
    <3> HIDE DEF U
    <3>. QED  BY <1>0, <2>1, <2>2, BoundInduct
  <2>4. m \in U
    BY <1>0, <2>3
  <2>. QED  BY <2>4, <1>2
<1>7. f[m + k] = f[m] + h[k]
  <2> DEFINE U == {n \in Nat : f[m + n] = f[m] + h[n]}
  <2>0. f[m] \in Nat
    BY <1>0, <1>1, <1>4
  <2>1. 0 \in U
    BY <1>0, <1>3, <2>0
  <2>2. ASSUME NEW n \in 0 .. k - 1, n \in U PROVE n + 1 \in U
    <3>1. n + 1 \in 1 .. k /\ (n + 1) - 1 = n /\ n + 1 \in Nat /\ m + (n + 1) \in 1 .. m + k
          /\ (m + (n + 1)) - 1 = m + n /\ n \in 0 .. k
      BY <1>0
    <3>2. f[m + (n + 1)] = f[m + n] + Tokens(j[m + (n + 1)]) /\ h[n + 1] = h[n] + Tokens(t[n + 1]) /\ j[m + (n + 1)] = t[n + 1]
      BY <3>1, <1>1, <1>3, <1>5
    <3>3. h[n] \in Nat
      BY <3>1, <1>3
    <3>4. Tokens(t[n + 1]) \in Nat
      <4>1. t[n + 1] \in Sec
        BY <3>1 DEF k
      <4>. QED  BY <4>1, SecIs
    <3> DEFINE a == Tokens(t[n + 1])
    <3>5. f[m + n] = f[m] + h[n] /\ f[m + (n + 1)] = f[m + n] + a /\ h[n + 1] = h[n] + a
      BY <2>2, <3>2
    <3>. HIDE DEF a
    <3>6. f[m + (n + 1)] = f[m] + h[n + 1]
      BY <3>3, <3>4, <3>5, <2>0 DEF a
    <3>. QED  BY <3>1, <3>6
  <2>3. 0 .. k \subseteq U
    <3> HIDE DEF U
    <3>. QED  BY <1>0, <2>1, <2>2, BoundInduct
  <2>4. k \in U
    BY <1>0, <2>3
  <2>. QED  BY <2>4
<1>. QED  BY <1>1, <1>3, <1>5, <1>6, <1>7 DEF j

\* The size of one section is its tokens.
LEMMA SizeOne ==
  ASSUME NEW x \in Sec
  PROVE  Size(<<x>>) = Tokens(x) /\ <<x>> \in Seq(Sec)
<1> DEFINE s == <<x>>
<1>1. s \in Seq(Sec) /\ Len(s) = 1 /\ s[1] = x
  OBVIOUS
<1>. HIDE DEF s
<1>2. PICK g : g \in [0 .. Len(s) -> Nat] /\ g[0] = 0 /\ g[Len(s)] = Size(s)
               /\ \A n \in 1 .. Len(s) : g[n] = g[n - 1] + Tokens(s[n])
  BY <1>1, SizeSums
<1>3. g[1] = g[0] + Tokens(x)
  BY <1>1, <1>2
<1>4. Size(s) = Tokens(x)
  BY <1>1, <1>2, <1>3, SecIs
<1>. QED  BY <1>1, <1>4 DEF s

\* One section more adds its tokens.
LEMMA SizeAppended ==
  ASSUME NEW s \in Seq(Sec), NEW x \in Sec
  PROVE  Append(s, x) \in Seq(Sec) /\ Size(Append(s, x)) = Size(s) + Tokens(x)
<1>1. Append(s, x) = s \o <<x>>
  OBVIOUS
<1>. QED  BY <1>1, SizeOne, SizeJoined

\* Sections of one kind.
LEMMA SizeIn ==
  ASSUME NEW B \in SUBSET Sec, NEW s \in Seq(B)
  PROVE  /\ s \in Seq(Sec) /\ Size(s) \in Nat /\ Size(s) = Total(Costs(Cost, s))
         /\ \A x \in B : Append(s, x) \in Seq(B) /\ Size(Append(s, x)) = Size(s) + Tokens(x)
<1>1. s \in Seq(Sec)
  BY SeqUp
<1>2. \A x \in B : Append(s, x) \in Seq(B)
  OBVIOUS
<1>. QED  BY <1>1, <1>2, SizeNat, SizeSums, SizeAppended

\* Cost is the tokens of a section.
LEMMA CostIs == \A x \in Sec : Cost[x] = Tokens(x) /\ Cost[x] \in Nat /\ Cost[x] \in Int
<1> SUFFICES ASSUME NEW x \in Sec PROVE Cost[x] = Tokens(x) /\ Tokens(x) \in Nat
  OBVIOUS
<1>. QED  BY SecIs DEF Cost

\* Whether a section belongs depends on its tier alone.
Closed(B) == B \in SUBSET Sec /\ \A x \in B, y \in Sec : y.tier = x.tier => y \in B

-----------------------------------------------------------------------------
(* A section cut to fewer tokens.                                          *)

-----------------------------------------------------------------------------
(* The first of two that overlap stays. *)

\* Two sequences: what is kept and what overlaps it.
Parts(B) == [kept : Seq(B), dups : Seq(B)]
PartStep(acc, x) ==
  IF \E k \in Range(acc.kept) : Overlapping(x, k)
  THEN [acc EXCEPT !.dups = Append(@, x)]
  ELSE [acc EXCEPT !.kept = Append(@, x)]

\* A step adds a section to one or the other.
LEMMA PartStepIs ==
  ASSUME NEW B \in SUBSET Sec, NEW a \in Parts(B), NEW x \in B
  PROVE  /\ PartStep(a, x) \in Parts(B)
         /\ Size(PartStep(a, x).kept) + Size(PartStep(a, x).dups) = Size(a.kept) + Size(a.dups) + Tokens(x)
<1> DEFINE b == PartStep(a, x)
<1>1. a.kept \in Seq(B) /\ a.dups \in Seq(B) /\ Size(a.kept) \in Nat /\ Size(a.dups) \in Nat
  BY SizeIn DEF Parts
<1>2. Tokens(x) \in Nat
  BY SecIs
<1>3. \/ b = [a EXCEPT !.dups = Append(@, x)]
      \/ b = [a EXCEPT !.kept = Append(@, x)]
  BY DEF PartStep
<1>4. \/ b.kept = a.kept /\ b.dups = Append(a.dups, x)
      \/ b.kept = Append(a.kept, x) /\ b.dups = a.dups
  BY <1>3 DEF Parts
<1>5. b = [kept |-> b.kept, dups |-> b.dups]
  BY <1>3 DEF Parts
<1>. HIDE DEF b
<1>6. b.kept \in Seq(B) /\ b.dups \in Seq(B)
  BY <1>1, <1>4, SizeIn
<1>7. b \in Parts(B)
  BY <1>5, <1>6 DEF Parts
<1>8. Size(b.kept) + Size(b.dups) = Size(a.kept) + Size(a.dups) + Tokens(x)
  <2>1. CASE b.kept = a.kept /\ b.dups = Append(a.dups, x)
    <3>1. Size(b.dups) = Size(a.dups) + Tokens(x)
      BY <2>1, <1>1, SizeIn
    <3>. QED  BY <2>1, <3>1, <1>1, <1>2
  <2>2. CASE b.kept = Append(a.kept, x) /\ b.dups = a.dups
    <3>1. Size(b.kept) = Size(a.kept) + Tokens(x)
      BY <2>2, <1>1, SizeIn
    <3>. QED  BY <2>2, <3>1, <1>1, <1>2
  <2>. QED  BY <1>4, <2>1, <2>2
<1>. QED  BY <1>7, <1>8 DEF b

\* Both parts together are no larger than the whole.
LEMMA PartitionDupsIs ==
  ASSUME NEW B \in SUBSET Sec, NEW s \in Seq(B)
  PROVE  /\ PartitionDups(s) \in Parts(B)
         /\ Size(PartitionDups(s).kept) + Size(PartitionDups(s).dups) <= Size(s)
<1> DEFINE m == Len(s)
           A == Parts(B)
           base == [kept |-> <<>>, dups |-> <<>>]
           step == [p \in A \X B |-> PartStep(p[1], p[2])]
           phi == [p \in A |-> Size(p.kept) + Size(p.dups)]
           IsAcc(f) == f = [n \in 0 .. m |-> IF n = 0 THEN base ELSE PartStep(f[n - 1], s[n])]
           acc == CHOOSE f : IsAcc(f)
<1>0. m \in Nat /\ \A n \in 1 .. m : s[n] \in B
  OBVIOUS
<1>1. base \in A
  BY DEF Parts
<1>2. step \in [A \X B -> A]
  BY PartStepIs
<1>3. phi \in [A -> Int]
  <2>1. ASSUME NEW p \in A PROVE Size(p.kept) + Size(p.dups) \in Int
    <3>1. p.kept \in Seq(B) /\ p.dups \in Seq(B)
      BY DEF Parts
    <3>2. Size(p.kept) \in Nat /\ Size(p.dups) \in Nat
      BY <3>1, SizeIn
    <3>. QED  BY <3>2
  <2>. QED  BY <2>1
<1>5. \A p \in A, x \in B : step[<<p, x>>] = PartStep(p, x)
  OBVIOUS
<1>6. phi[base] = 0
  BY <1>1, SizeEmpty
<1>7. \A p \in A : phi[p] = Size(p.kept) + Size(p.dups)
  OBVIOUS
<1>8. PartitionDups(s) = acc[m]
  BY DEF PartitionDups, Fold, PartStep
<1>. HIDE DEF step, phi, base, m
<1>4. Bounded(phi, step, Cost, A, B)
  <2> SUFFICES ASSUME NEW p \in A, NEW x \in B PROVE phi[step[<<p, x>>]] <= phi[p] + Cost[x]
    BY DEF Bounded
  <2>1. step[<<p, x>>] = PartStep(p, x) /\ Cost[x] = Tokens(x)
    BY <1>5, CostIs
  <2>2. phi[step[<<p, x>>]] = phi[p] + Tokens(x)
    BY <1>7, <2>1, PartStepIs
  <2>3. phi[p] \in Int /\ Tokens(x) \in Int
    <3>1. Tokens(x) \in Nat
      BY SecIs
    <3>. QED  BY <1>3, <3>1
  <2>. QED  BY <2>1, <2>2, <2>3
<1>. HIDE DEF A
<1>9. PICK f : f \in [0 .. Len(s) -> A] /\ Goes(f, A, base, step, s)
  BY <1>1, <1>2, FoldExists
<1>10. IsAcc(f)
  <2>1. ASSUME NEW n \in 0 .. m PROVE f[n] = IF n = 0 THEN base ELSE PartStep(f[n - 1], s[n])
    <3>1. CASE n = 0
      BY <3>1, <1>9 DEF Goes
    <3>2. CASE n # 0
      <4>1. n \in 1 .. m /\ n - 1 \in 0 .. m /\ s[n] \in B
        BY <3>2, <1>0
      <4>2. f[n - 1] \in A /\ f[n] = step[<<f[n - 1], s[n]>>]
        BY <4>1, <1>9 DEF Goes, m
      <4>. QED  BY <4>1, <4>2, <3>2, <1>5
    <3>. QED  BY <3>1, <3>2
  <2>. QED  BY <2>1, <1>9 DEF m
<1>11. IsAcc(acc)
  <2> HIDE DEF IsAcc
  <2>. QED  BY <1>10
<1>. HIDE DEF acc
<1>12. Goes(acc, A, base, step, s)
  <2>1. acc[0] = base
    BY <1>0, <1>11
  <2>2. ASSUME NEW n \in 1 .. m, acc[n - 1] \in A PROVE acc[n] = step[<<acc[n - 1], s[n]>>]
    <3>1. acc[n] = PartStep(acc[n - 1], s[n]) /\ s[n] \in B
      BY <1>0, <1>11
    <3>. QED  BY <3>1, <2>2, <1>5
  <2>. QED  BY <2>1, <2>2 DEF Goes, m
<1>13. acc[Len(s)] \in A /\ phi[acc[Len(s)]] <= phi[base] + Total(Costs(Cost, s))
  <2>1. \A x \in B : Cost[x] \in Int
    BY CostIs
  <2>. QED  BY <1>1, <1>2, <1>3, <1>4, <1>12, <2>1, FoldIs
<1>14. Total(Costs(Cost, s)) = Size(s) /\ Size(s) \in Nat
  BY SizeIn
<1>. QED  BY <1>6, <1>7, <1>8, <1>13, <1>14 DEF A, m

-----------------------------------------------------------------------------
(* Sections admitted while they fit.                                       *)

\* What a pack of budget b may be, half made: while there is room, its size
\* is what was used.
AtMost(b) == IF b = 0 THEN 0 ELSE b + Title - 1
Fits(b) ==
  {p \in [kept : Seq(Sec), dropped : Seq(Sec), used : Nat] :
     /\ p.used <= b /\ Size(p.kept) <= AtMost(b) /\ (p.used < b => Size(p.kept) = p.used)
     /\ b = 0 => p.kept = <<>>}

\* One more section offered.
FitStep(acc, x, b) ==
  IF acc.used + Tokens(x) <= b
  THEN [acc EXCEPT !.kept = Append(@, x), !.used = @ + Tokens(x)]
  ELSE IF acc.used < b
  THEN [acc EXCEPT !.kept = Append(@, [x EXCEPT !.lines = Truncated(@, Max({0, b - acc.used - Title}))]),
                   !.used = b]
  ELSE [acc EXCEPT !.dropped = Append(@, x)]

\* It is taken whole, cut, or dropped.
LEMMA FitStepIs ==
  ASSUME NEW b \in Nat, NEW p \in Fits(b), NEW x \in Sec
  PROVE  FitStep(p, x, b) \in Fits(b)
<1> DEFINE r == FitStep(p, x, b)
           t == Tokens(x)
           u == p.used
           z == Size(p.kept)
<1>1. /\ p \in [kept : Seq(Sec), dropped : Seq(Sec), used : Nat] /\ u <= b /\ z <= AtMost(b) /\ (u < b => z = u) /\ (b = 0 => p.kept = <<>>)
  BY DEF Fits
<1>2. p.kept \in Seq(Sec) /\ p.dropped \in Seq(Sec) /\ u \in Nat /\ z \in Nat
  BY <1>1, SizeNat
<1>3. t \in Nat /\ t >= 1 /\ Title \in Nat /\ Title >= 1
  BY SecIs
<1>. HIDE DEF t
<1>4. CASE u + t <= b
  <2>1. r = [p EXCEPT !.kept = Append(@, x), !.used = @ + t]
    BY <1>4 DEF FitStep, t
  <2> DEFINE k == Append(p.kept, x)
  <2>2. k \in Seq(Sec) /\ Size(k) = z + t
    BY <1>2, SizeAppended DEF t
  <2>. HIDE DEF k
  <2>3. r = [kept |-> k, dropped |-> p.dropped, used |-> u + t]
    BY <2>1, <1>1 DEF k
  <2>. HIDE DEF r, u, z
  <2>4. z = u
    BY <1>1, <1>2, <1>3, <1>4
  <2>5. Size(k) = u + t /\ u + t \in Nat /\ u + t <= b + Title - 1 /\ b # 0
    BY <2>2, <2>4, <1>2, <1>3, <1>4
  <2>6. r.kept = k /\ r.used = u + t /\ r \in [kept : Seq(Sec), dropped : Seq(Sec), used : Nat]
    BY <2>2, <2>3, <2>5, <1>2
  <2>. QED  BY <2>5, <2>6, <1>4 DEF Fits, AtMost, r
<1>5. CASE ~(u + t <= b) /\ u < b
  <2> DEFINE n == Max({0, b - u - Title})
             l == Truncated(x.lines, n)
             y == [x EXCEPT !.lines = l]
             k == Append(p.kept, y)
  <2>1. r = [p EXCEPT !.kept = Append(@, [x EXCEPT !.lines = Truncated(@, n)]), !.used = b]
    BY <1>5 DEF FitStep, t
  <2>2. n = (IF 0 >= b - u - Title THEN 0 ELSE b - u - Title)
    <3> DEFINE c == b - u - Title
    <3>1. c \in Int
      BY <1>2, <1>3
    <3>. HIDE DEF c
    <3>2. Max({0, c}) = (IF 0 >= c THEN 0 ELSE c)
      BY <3>1, MaxTwo
    <3>. QED  BY <3>2 DEF c
  <2>3. x.lines \in Seq(Line) /\ x \in Sections
    BY SecIs
  <2>4. [x EXCEPT !.lines = Truncated(@, n)] = y
    BY <2>3 DEF Sections
  <2>. HIDE DEF n
  <2>5. n \in Nat /\ n <= (IF 0 >= b - u - Title THEN 0 ELSE b - u - Title)
    BY <2>2, <1>2, <1>3
  <2>6. l \in Seq(Line) /\ Est(l) <= n
    BY <2>3, <2>5, TruncatedIs
  <2>7. Est(l) \in Nat
    BY <2>6, CharsIs
  <2>. HIDE DEF l
  <2>8. y \in Sec /\ Tokens(y) = Title + Est(l)
    BY <2>6, Relined
  <2>9. r = [p EXCEPT !.kept = Append(@, y), !.used = b]
    BY <2>1, <2>4
  <2>. HIDE DEF y
  <2>10. k \in Seq(Sec) /\ Size(k) = z + Tokens(y)
    BY <1>2, <2>8, SizeAppended
  <2>11. r = [kept |-> k, dropped |-> p.dropped, used |-> b]
    BY <2>9, <1>1
  <2>. HIDE DEF k, r, u, z
  <2> DEFINE m == Est(l)
  <2>12. Size(k) = z + Title + m /\ m \in Nat /\ m <= n
    BY <2>6, <2>7, <2>8, <2>10, <1>2, <1>3
  <2>. HIDE DEF m
  <2>13. z = u
    BY <1>1, <1>5
  <2>14. Size(k) <= b + Title - 1 /\ b # 0
    BY <2>5, <2>12, <2>13, <1>2, <1>3, <1>5
  <2>15. r.kept = k /\ r.used = b /\ r \in [kept : Seq(Sec), dropped : Seq(Sec), used : Nat]
    BY <2>10, <2>11, <1>2 DEF k
  <2>. QED  BY <2>14, <2>15 DEF Fits, AtMost, r
<1>6. CASE ~(u + t <= b) /\ ~(u < b)
  <2>1. r = [p EXCEPT !.dropped = Append(@, x)]
    BY <1>6 DEF FitStep, t
  <2> DEFINE d == Append(p.dropped, x)
  <2>3. d \in Seq(Sec)
    BY <1>2, SizeAppended
  <2>. HIDE DEF d
  <2>4. r = [kept |-> p.kept, dropped |-> d, used |-> p.used]
    BY <2>1, <1>1 DEF d
  <2>. HIDE DEF r
  <2>2. r.kept = p.kept /\ r.used = p.used /\ r \in [kept : Seq(Sec), dropped : Seq(Sec), used : Nat]
    BY <2>3, <2>4, <1>2
  <2>. QED  BY <2>2, <1>1 DEF Fits, r
<1>. QED  BY <1>4, <1>5, <1>6

\* So what fits a budget is what a pack of it may be.
LEMMA FitBudgetIs ==
  ASSUME NEW s \in Seq(Sec), NEW b \in Nat
  PROVE  FitBudget(s, b) \in Fits(b)
<1> DEFINE m == Len(s)
           A == Fits(b)
           base == [kept |-> <<>>, dropped |-> <<>>, used |-> 0]
           step == [p \in A \X Sec |-> FitStep(p[1], p[2], b)]
           phi == [p \in A |-> 0]
           IsAcc(f) == f = [n \in 0 .. m |-> IF n = 0 THEN base ELSE FitStep(f[n - 1], s[n], b)]
           acc == CHOOSE f : IsAcc(f)
<1>0. m \in Nat
  OBVIOUS
<1>1. base \in A
  <2>1. base \in [kept : Seq(Sec), dropped : Seq(Sec), used : Nat] /\ base.used = 0 /\ base.kept = <<>>
    OBVIOUS
  <2>2. 0 <= AtMost(b)
    BY PackAssumption DEF AtMost
  <2>. HIDE DEF base
  <2>. QED  BY <2>1, <2>2, SizeEmpty DEF Fits
<1>2. step \in [A \X Sec -> A]
  BY FitStepIs
<1>3. phi \in [A -> Int] /\ \A x \in Sec : Cost[x] \in Int
  BY CostIs
<1>4. Bounded(phi, step, Cost, A, Sec)
  <2> SUFFICES ASSUME NEW p \in A, NEW x \in Sec PROVE phi[step[<<p, x>>]] <= phi[p] + Cost[x]
    BY DEF Bounded
  <2>1. step[<<p, x>>] \in A
    BY <1>2
  <2>2. phi[step[<<p, x>>]] = 0 /\ phi[p] = 0
    BY <2>1
  <2>3. Cost[x] = Tokens(x) /\ Tokens(x) \in Nat
    BY SecIs DEF Cost
  <2>. HIDE DEF phi, step
  <2>. QED  BY <2>2, <2>3
<1>5. \A p \in A, x \in Sec : step[<<p, x>>] = FitStep(p, x, b)
  OBVIOUS
<1>8. FitBudget(s, b) = acc[m]
  BY DEF FitBudget, Fold, FitStep
<1>. HIDE DEF step, phi, base, A
<1>9. PICK f : f \in [0 .. m -> A] /\ Goes(f, A, base, step, s)
  BY <1>1, <1>2, FoldExists
<1>10. IsAcc(f)
  <2>1. ASSUME NEW n \in 0 .. m PROVE f[n] = IF n = 0 THEN base ELSE FitStep(f[n - 1], s[n], b)
    <3>1. CASE n = 0
      BY <3>1, <1>9 DEF Goes
    <3>2. CASE n # 0
      <4>1. n \in 1 .. m /\ n - 1 \in 0 .. m /\ s[n] \in Sec
        BY <3>2, <1>0
      <4>2. f[n - 1] \in A /\ f[n] = step[<<f[n - 1], s[n]>>]
        BY <4>1, <1>9 DEF Goes
      <4>. QED  BY <4>1, <4>2, <3>2, <1>5
    <3>. QED  BY <3>1, <3>2
  <2>. QED  BY <2>1, <1>9
<1>11. IsAcc(acc)
  <2> HIDE DEF IsAcc
  <2>. QED  BY <1>10
<1>. HIDE DEF acc
<1>12. Goes(acc, A, base, step, s)
  <2>1. acc[0] = base
    BY <1>0, <1>11
  <2>2. ASSUME NEW n \in 1 .. m, acc[n - 1] \in A PROVE acc[n] = step[<<acc[n - 1], s[n]>>]
    <3>1. acc[n] = FitStep(acc[n - 1], s[n], b) /\ s[n] \in Sec
      BY <1>0, <1>11
    <3>. QED  BY <3>1, <2>2, <1>5
  <2>. QED  BY <2>1, <2>2 DEF Goes
<1>13. acc[m] \in A
  BY <1>1, <1>2, <1>3, <1>4, <1>12, FoldIs
<1>. QED  BY <1>8, <1>13 DEF A

-----------------------------------------------------------------------------
(* What regrowth made overlap again. *)

\* Two sequences, what stays and what is dropped, and how many of the first were cut.
Again(B) == [kept : Seq(B), over : Seq(B), demoted : Nat]
Small(x) == [x EXCEPT !.lines = Excerpt(@, Minimal)]
AgainStep(acc, x) ==
  IF \E k \in Range(acc.kept) : Overlapping(Small(x), k)
  THEN [acc EXCEPT !.over = Append(@, Small(x))]
  ELSE [acc EXCEPT !.kept = Append(@, Small(x)), !.demoted = @ + 1]

\* A section cut to the minimum may be larger by the marker's tokens.
LEMMA SmallIs ==
  ASSUME NEW x \in Sec
  PROVE  Small(x) \in Sec /\ Small(x).tier = x.tier /\ Tokens(Small(x)) <= Tokens(x) + Growth
<1> DEFINE l == Excerpt(x.lines, Minimal)
<1>1. x.lines \in Seq(Line) /\ x \in Sections /\ Minimal \in Nat
  BY SecIs, PackAssumption
<1>2. l \in Seq(Line) /\ Est(l) <= Est(x.lines) + Growth
  BY <1>1, ExcerptIs
<1>3. Small(x) = [x EXCEPT !.lines = l]
  BY <1>1 DEF Small, Sections
<1>. HIDE DEF l
<1>4. Small(x) \in Sec /\ Small(x).tier = x.tier /\ Tokens(Small(x)) = Title + Est(l)
  BY <1>2, <1>3, Relined
<1>5. Tokens(x) = Title + Est(x.lines) /\ Est(x.lines) \in Nat /\ Title \in Nat
  BY SecIs
<1>6. Est(l) \in Nat /\ Growth \in Nat
  BY <1>2, CharsIs, GrowthIs
<1>7. Title + Est(l) <= Title + Est(x.lines) + Growth
  BY <1>2, <1>5, <1>6
<1>. QED  BY <1>4, <1>5, <1>7

\* What a pack is over its limit by, but for what demotion may add.
Net(p) == Size(p.kept) - Growth * p.demoted

\* A step adds a section to one or the other, and at most its tokens to the net size.
LEMMA AgainStepIs ==
  ASSUME NEW B, Closed(B), NEW p \in Again(B), NEW x \in B
  PROVE  /\ AgainStep(p, x) \in Again(B)
         /\ Net(p) \in Int /\ Net(AgainStep(p, x)) \in Int
         /\ Net(AgainStep(p, x)) <= Net(p) + Tokens(x)
<1> DEFINE r == AgainStep(p, x)
           y == Small(x)
           o == Append(p.over, y)
           k == Append(p.kept, y)
           d == p.demoted
<1>0. B \in SUBSET Sec /\ x \in Sec
  BY DEF Closed
<1>1. p.kept \in Seq(B) /\ p.over \in Seq(B) /\ d \in Nat /\ Size(p.kept) \in Nat
  BY <1>0, SizeIn DEF Again
<1>2. y \in B /\ Tokens(y) <= Tokens(x) + Growth /\ Tokens(x) \in Nat /\ Tokens(y) \in Nat
  BY <1>0, SmallIs, SecIs DEF Closed
<1>3. \/ r = [p EXCEPT !.over = Append(@, y)]
      \/ r = [p EXCEPT !.kept = Append(@, y), !.demoted = @ + 1]
  BY DEF AgainStep
<1>. HIDE DEF y
<1>4. \/ r = [kept |-> p.kept, over |-> o, demoted |-> d]
      \/ r = [kept |-> k, over |-> p.over, demoted |-> d + 1]
  BY <1>3 DEF Again
<1>. HIDE DEF r, d
<1>5. o \in Seq(B) /\ k \in Seq(B) /\ Size(k) = Size(p.kept) + Tokens(y)
  BY <1>0, <1>1, <1>2, SizeIn
<1>. HIDE DEF o, k
<1>6. r \in Again(B)
  BY <1>1, <1>4, <1>5 DEF Again
<1>7. (r.kept = p.kept /\ r.demoted = d) \/ (r.kept = k /\ r.demoted = d + 1)
  BY <1>4
<1> DEFINE a == Tokens(x)
           b == Tokens(y)
           z == Size(p.kept)
           w == Size(r.kept)
           e == r.demoted
<1>8. (w = z /\ e = d) \/ (w = z + b /\ e = d + 1)
  BY <1>5, <1>7
<1>9. a \in Nat /\ b \in Nat /\ z \in Nat /\ b <= a + Growth /\ d \in Nat /\ Growth \in Nat
  BY <1>1, <1>2, GrowthIs
<1>. HIDE DEF a, b, z, w, e
<1>10. Growth * d \in Int /\ Growth * (d + 1) = Growth * d + Growth
  BY <1>9
<1> DEFINE i == Growth * d
<1>11. i \in Int /\ ((w = z /\ Growth * e = i) \/ (w = z + b /\ Growth * e = i + Growth))
  BY <1>8, <1>10
<1>. HIDE DEF i
<1>12. z - i \in Int /\ w - Growth * e \in Int /\ w - Growth * e <= (z - i) + a
  BY <1>9, <1>11
<1>13. Net(p) = z - i /\ Net(r) = w - Growth * e
  BY DEF Net, z, i, w, e, d
<1>14. Net(p) \in Int /\ Net(r) \in Int /\ Net(r) <= Net(p) + a
  BY <1>12, <1>13
<1>. QED  BY <1>6, <1>14 DEF r, a

\* Deduplicating again may add a marker for each section that it cuts, and no more.
LEMMA RedupIs ==
  ASSUME NEW B, Closed(B), NEW s \in Seq(B)
  PROVE  Redup(s) \in Again(B) /\ Size(Redup(s).kept) <= Size(s) + Growth * Redup(s).demoted
<1> DEFINE parts == PartitionDups(s)
           d == parts.dups
           m == Len(d)
           A == Again(B)
           base == [kept |-> parts.kept, over |-> <<>>, demoted |-> 0]
           step == [p \in A \X B |-> AgainStep(p[1], p[2])]
           phi == [p \in A |-> Net(p)]
           IsAcc(f) == f = [n \in 0 .. m |-> IF n = 0 THEN base ELSE AgainStep(f[n - 1], d[n])]
           acc == CHOOSE f : IsAcc(f)
<1>a. B \in SUBSET Sec
  BY DEF Closed
<1>0. parts \in Parts(B) /\ Size(parts.kept) + Size(parts.dups) <= Size(s)
  BY <1>a, PartitionDupsIs
<1>8. Redup(s) = acc[m]
  BY DEF Redup, Fold, AgainStep, Small
<1>. HIDE DEF parts
<1>1. parts.kept \in Seq(B) /\ d \in Seq(B)
  BY <1>0 DEF Parts
<1>17. Size(parts.kept) + Size(d) <= Size(s)
  BY <1>0
<1>. HIDE DEF d
<1>2. m \in Nat /\ \A n \in 1 .. m : d[n] \in B
  BY <1>1
<1>3. base \in A /\ base.kept = parts.kept /\ base.demoted = 0
  BY <1>1 DEF Again
<1>4. step \in [A \X B -> A] /\ \A p \in A, x \in B : step[<<p, x>>] = AgainStep(p, x)
  BY AgainStepIs
<1>5. phi \in [A -> Int] /\ \A x \in B : Cost[x] \in Int
  <2>1. ASSUME NEW p \in A PROVE Net(p) \in Int
    <3>1. p.kept \in Seq(B) /\ p.demoted \in Nat
      BY DEF Again
    <3>2. Size(p.kept) \in Nat
      BY <1>a, <3>1, SizeIn
    <3>3. Growth * p.demoted \in Int
      BY <3>1, GrowthIs
    <3>. QED  BY <3>2, <3>3 DEF Net
  <2>. QED  BY <1>a, <2>1, CostIs
<1>6. \A p \in A : phi[p] = Net(p)
  OBVIOUS
<1>. HIDE DEF step, phi, base, m
<1>7. Bounded(phi, step, Cost, A, B)
  <2> SUFFICES ASSUME NEW p \in A, NEW x \in B PROVE phi[step[<<p, x>>]] <= phi[p] + Cost[x]
    BY DEF Bounded
  <2>1. step[<<p, x>>] = AgainStep(p, x) /\ Cost[x] = Tokens(x)
    BY <1>4, <1>a, CostIs
  <2>2. AgainStep(p, x) \in A /\ Net(AgainStep(p, x)) <= Net(p) + Tokens(x)
    BY AgainStepIs
  <2>3. phi[step[<<p, x>>]] = Net(AgainStep(p, x)) /\ phi[p] = Net(p)
    BY <1>6, <2>1, <2>2
  <2>. QED  BY <2>1, <2>2, <2>3
<1>. HIDE DEF A
<1>9. PICK f : f \in [0 .. Len(d) -> A] /\ Goes(f, A, base, step, d)
  BY <1>1, <1>3, <1>4, FoldExists
<1>10. IsAcc(f)
  <2>1. ASSUME NEW n \in 0 .. m PROVE f[n] = IF n = 0 THEN base ELSE AgainStep(f[n - 1], d[n])
    <3>1. CASE n = 0
      BY <3>1, <1>9 DEF Goes
    <3>2. CASE n # 0
      <4>1. n \in 1 .. m /\ n - 1 \in 0 .. m /\ d[n] \in B
        BY <3>2, <1>2
      <4>2. f[n - 1] \in A /\ f[n] = step[<<f[n - 1], d[n]>>]
        BY <4>1, <1>9 DEF Goes, m
      <4>. QED  BY <4>1, <4>2, <3>2, <1>4
    <3>. QED  BY <3>1, <3>2
  <2>. QED  BY <2>1, <1>9 DEF m
<1>11. IsAcc(acc)
  <2> HIDE DEF IsAcc
  <2>. QED  BY <1>10
<1>. HIDE DEF acc
<1>12. Goes(acc, A, base, step, d)
  <2>1. acc[0] = base
    BY <1>2, <1>11
  <2>2. ASSUME NEW n \in 1 .. m, acc[n - 1] \in A PROVE acc[n] = step[<<acc[n - 1], d[n]>>]
    <3>1. acc[n] = AgainStep(acc[n - 1], d[n]) /\ d[n] \in B
      BY <1>2, <1>11
    <3>. QED  BY <3>1, <2>2, <1>4
  <2>. QED  BY <2>1, <2>2 DEF Goes, m
<1>13. acc[Len(d)] \in A /\ phi[acc[Len(d)]] <= phi[base] + Total(Costs(Cost, d))
  BY <1>1, <1>3, <1>4, <1>5, <1>7, <1>12, FoldIs
<1>14. Total(Costs(Cost, d)) = Size(d) /\ Size(d) \in Nat
  BY <1>a, <1>1, SizeIn
<1>15. Redup(s) \in A /\ Net(Redup(s)) <= Net(base) + Size(d)
  BY <1>3, <1>6, <1>8, <1>13, <1>14 DEF m
<1>16. Size(parts.kept) \in Nat /\ Size(Redup(s).kept) \in Nat /\ Size(s) \in Nat /\ Redup(s).demoted \in Nat
  BY <1>a, <1>1, <1>15, SizeIn DEF Again, A
<1> DEFINE a == Size(parts.kept)
           b == Size(d)
           c == Size(Redup(s).kept)
           e == Size(s)
           g == Growth * Redup(s).demoted
<1>20. Net(base) = a /\ Net(Redup(s)) = c - g /\ g \in Int
  <2>1. Growth * 0 = 0 /\ Growth * Redup(s).demoted \in Int
    BY <1>16, GrowthIs
  <2>2. a - 0 = a
    BY <1>16
  <2>. QED  BY <1>3, <2>1, <2>2 DEF Net
<1>18. c - g <= a + b /\ a + b <= e /\ a \in Nat /\ b \in Nat /\ c \in Nat /\ e \in Nat /\ g \in Int
  BY <1>14, <1>15, <1>16, <1>17, <1>20
<1>. HIDE DEF a, b, c, e, g
<1>19. c <= e + g
  BY <1>18
<1>. QED  BY <1>15, <1>19 DEF A, c, e, g

-----------------------------------------------------------------------------
(* Regrowth. *)

\* A section regrown, one pass over the sections, and its steps.
GrowOf(x, used, capped, b) ==
  LET want == IF capped THEN Excerpt(Text[x.id], Relaxed) ELSE Text[x.id]
      room == b - used + Est(x.lines)
      candidate == IF Est(want) > room THEN Truncated(want, room) ELSE want
  IN IF x.source \in CodeKinds /\ used < b /\ Chars(candidate) > Chars(x.lines)
     THEN [x EXCEPT !.lines = candidate] ELSE x
PassStep(acc, x, capped, b) ==
  LET y == GrowOf(x, acc.used, capped, b)
  IN [kept |-> Append(acc.kept, y), used |-> acc.used + Est(y.lines) - Est(x.lines)]
PassOf(t, capped, b) ==
  LET Op(acc, x) == PassStep(acc, x, capped, b)
      acc[n \in 0 .. Len(t)] == IF n = 0 THEN [kept |-> <<>>, used |-> Size(t)] ELSE Op(acc[n - 1], t[n])
  IN acc[Len(t)].kept

\* Regrowth is two passes.
LEMMA RelaxIs ==
  ASSUME NEW s, NEW b
  PROVE  Relax(s, b) = PassOf(PassOf(s, TRUE, b), FALSE, b)
BY ZenonT(60) DEF Relax, Fold, PassOf, PassStep, GrowOf

\* What grows, grows into room that is left.
LEMMA GrowIs ==
  ASSUME NEW x \in Sec, NEW used \in Int, NEW b \in Nat, NEW capped \in BOOLEAN
  PROVE  LET y == GrowOf(x, used, capped, b)
         IN /\ y \in Sec /\ y.tier = x.tier /\ Est(y.lines) \in Nat
            /\ Est(y.lines) = Est(x.lines) \/ used + Est(y.lines) - Est(x.lines) <= b
<1> DEFINE want == IF capped THEN Excerpt(Text[x.id], Relaxed) ELSE Text[x.id]
           c == Est(x.lines)
           room == b - used + c
           fits == IF Est(want) > room THEN Truncated(want, room) ELSE want
           y == GrowOf(x, used, capped, b)
<1>1. c \in Nat /\ (x.source \in CodeKinds => x.id \in Id)
  BY SecIs
<1>2. y = (IF x.source \in CodeKinds /\ used < b /\ Chars(fits) > Chars(x.lines) THEN [x EXCEPT !.lines = fits] ELSE x)
  BY DEF GrowOf
<1>3. CASE x.source \in CodeKinds /\ used < b /\ Chars(fits) > Chars(x.lines)
  <2>1. Text[x.id] \in Seq(Line) /\ Relaxed \in Nat
    BY <1>1, <1>3, PackAssumption
  <2>2. want \in Seq(Line)
    BY <2>1, ExcerptIs
  <2>3. y = [x EXCEPT !.lines = fits]
    BY <1>2, <1>3
  <2>. HIDE DEF want, y, c
  <2>4. room \in Nat
    BY <1>1, <1>3
  <2>. HIDE DEF room
  <2>5. Est(want) \in Nat
    BY <2>2, CharsIs
  <2>6. fits \in Seq(Line) /\ Est(fits) <= room
    <3>1. CASE Est(want) > room
      <4>1. fits = Truncated(want, room)
        BY <3>1
      <4>. HIDE DEF fits
      <4>. QED  BY <2>2, <2>4, <4>1, TruncatedIs
    <3>2. CASE ~(Est(want) > room)
      <4>1. fits = want
        BY <3>2
      <4>. HIDE DEF fits
      <4>. QED  BY <2>2, <2>4, <2>5, <3>2, <4>1
    <3>. QED  BY <3>1, <3>2
  <2>. HIDE DEF fits
  <2>7. Est(fits) \in Nat
    BY <2>6, CharsIs
  <2>8. y \in Sec /\ y.tier = x.tier /\ y.lines = fits
    BY <2>3, <2>6, Relined
  <2> DEFINE e == Est(fits)
  <2>9. e \in Nat /\ e <= room
    BY <2>6, <2>7
  <2>. HIDE DEF e
  <2>10. used + e - c <= b
    BY <1>1, <2>9 DEF room
  <2>. QED  BY <2>7, <2>8, <2>10 DEF y, c, e
<1>4. CASE ~(x.source \in CodeKinds /\ used < b /\ Chars(fits) > Chars(x.lines))
  <2>1. y = x
    BY <1>2, <1>4
  <2>. HIDE DEF y, fits, want
  <2>. QED  BY <1>1, <2>1 DEF y
<1>. QED  BY <1>3, <1>4

\* A pass half made: what is used, never more than the limit k.
Grown(B, k) == {p \in [kept : Seq(B), used : Int] : p.used <= k}

\* A step keeps what is used within the limit, and its distance to the size.
LEMMA PassStepIs ==
  ASSUME NEW B, Closed(B), NEW b \in Nat, NEW k \in Int, b <= k, NEW capped \in BOOLEAN,
         NEW p \in Grown(B, k), NEW x \in B
  PROVE  /\ PassStep(p, x, capped, b) \in Grown(B, k)
         /\ Size(PassStep(p, x, capped, b).kept) - PassStep(p, x, capped, b).used = Size(p.kept) - p.used + Tokens(x)
<1> DEFINE r == PassStep(p, x, capped, b)
           u == p.used
           y == GrowOf(x, u, capped, b)
           j == Append(p.kept, y)
           v == u + Est(y.lines) - Est(x.lines)
<1>0. B \in SUBSET Sec /\ x \in Sec
  BY DEF Closed
<1>1. p.kept \in Seq(B) /\ u \in Int /\ u <= k
  BY DEF Grown
<1>2. Size(p.kept) \in Nat
  BY <1>0, <1>1, SizeIn
<1>3. r = [kept |-> j, used |-> v]
  BY DEF PassStep
<1>. HIDE DEF u
<1>4. /\ y \in Sec /\ y.tier = x.tier /\ Est(y.lines) \in Nat
      /\ Est(y.lines) = Est(x.lines) \/ u + Est(y.lines) - Est(x.lines) <= b
  BY <1>0, <1>1, GrowIs
<1>5. Est(x.lines) \in Nat /\ Tokens(x) = Title + Est(x.lines) /\ Tokens(y) = Title + Est(y.lines) /\ Title \in Nat
  BY <1>0, <1>4, SecIs
<1>. HIDE DEF y
<1>6. y \in B
  BY <1>0, <1>4 DEF Closed
<1>7. j \in Seq(B) /\ Size(j) = Size(p.kept) + Tokens(y)
  BY <1>0, <1>1, <1>6, SizeIn
<1>. HIDE DEF j, r
<1> DEFINE a == Est(x.lines)
           c == Est(y.lines)
           z == Size(p.kept)
           w == Size(j)
<1>8. /\ a \in Nat /\ c \in Nat /\ z \in Nat /\ w = z + (Title + c) /\ v = u + c - a
      /\ (c = a \/ u + c - a <= b) /\ Tokens(x) = Title + a
  BY <1>2, <1>4, <1>5, <1>7
<1>. HIDE DEF a, c, z, w, v
<1>9. v \in Int /\ v <= k /\ w - v = z - u + (Title + a)
  BY <1>1, <1>5, <1>8
<1>10. r \in Grown(B, k)
  BY <1>3, <1>7, <1>9 DEF Grown
<1>11. r.kept = j /\ r.used = v
  BY <1>3
<1>. QED  BY <1>8, <1>9, <1>10, <1>11 DEF r, u, w, z

\* So does a pass.
LEMMA PassIs ==
  ASSUME NEW B, Closed(B), NEW s \in Seq(B), NEW b \in Nat, NEW k \in Int, b <= k, Size(s) <= k, NEW capped \in BOOLEAN
  PROVE  PassOf(s, capped, b) \in Seq(B) /\ Size(PassOf(s, capped, b)) <= k
<1> DEFINE m == Len(s)
           A == Grown(B, k)
           base == [kept |-> <<>>, used |-> Size(s)]
           step == [p \in A \X B |-> PassStep(p[1], p[2], capped, b)]
           phi == [p \in A |-> Size(p.kept) - p.used]
           IsAcc(f) == f = [n \in 0 .. m |-> IF n = 0 THEN base ELSE PassStep(f[n - 1], s[n], capped, b)]
           acc == CHOOSE f : IsAcc(f)
<1>a. B \in SUBSET Sec
  BY DEF Closed
<1>b. Size(s) \in Nat /\ Total(Costs(Cost, s)) = Size(s)
  BY <1>a, SizeIn
<1>0. m \in Nat /\ \A n \in 1 .. m : s[n] \in B
  OBVIOUS
<1>1. base \in A
  BY <1>b DEF Grown
<1>2. step \in [A \X B -> A]
  BY PassStepIs
<1>3. phi \in [A -> Int]
  <2>1. ASSUME NEW p \in A PROVE Size(p.kept) - p.used \in Int
    <3>1. p.kept \in Seq(B) /\ p.used \in Int
      BY DEF Grown
    <3>2. Size(p.kept) \in Nat
      BY <1>a, <3>1, SizeIn
    <3>. QED  BY <3>1, <3>2
  <2>. QED  BY <2>1
<1>5. \A p \in A, x \in B : step[<<p, x>>] = PassStep(p, x, capped, b)
  OBVIOUS
<1>6. phi[base] = 0 - Size(s)
  <2>1. base.kept = <<>> /\ base.used = Size(s) /\ phi[base] = Size(base.kept) - base.used
    BY <1>1
  <2>. HIDE DEF phi, base
  <2>. QED  BY <2>1, SizeEmpty
<1>7. \A p \in A : phi[p] = Size(p.kept) - p.used
  OBVIOUS
<1>8. PassOf(s, capped, b) = acc[m].kept
  BY DEF PassOf
<1>. HIDE DEF step, phi, base, m
<1>4. Bounded(phi, step, Cost, A, B)
  <2> SUFFICES ASSUME NEW p \in A, NEW x \in B PROVE phi[step[<<p, x>>]] <= phi[p] + Cost[x]
    BY DEF Bounded
  <2>1. step[<<p, x>>] = PassStep(p, x, capped, b) /\ Cost[x] = Tokens(x) /\ Cost[x] \in Int
    BY <1>5, <1>a, CostIs
  <2>2. PassStep(p, x, capped, b) \in A
        /\ Size(PassStep(p, x, capped, b).kept) - PassStep(p, x, capped, b).used = Size(p.kept) - p.used + Tokens(x)
    BY PassStepIs
  <2>3. phi[step[<<p, x>>]] = phi[p] + Cost[x]
    BY <1>7, <2>1, <2>2
  <2>4. phi[p] \in Int
    BY <1>3
  <2>. QED  BY <2>1, <2>3, <2>4
<1>. HIDE DEF A
<1>9. PICK f : f \in [0 .. Len(s) -> A] /\ Goes(f, A, base, step, s)
  BY <1>1, <1>2, FoldExists
<1>10. IsAcc(f)
  <2>1. ASSUME NEW n \in 0 .. m PROVE f[n] = IF n = 0 THEN base ELSE PassStep(f[n - 1], s[n], capped, b)
    <3>1. CASE n = 0
      BY <3>1, <1>9 DEF Goes
    <3>2. CASE n # 0
      <4>1. n \in 1 .. m /\ n - 1 \in 0 .. m /\ s[n] \in B
        BY <3>2, <1>0
      <4>2. f[n - 1] \in A /\ f[n] = step[<<f[n - 1], s[n]>>]
        BY <4>1, <1>9 DEF Goes, m
      <4>. QED  BY <4>1, <4>2, <3>2, <1>5
    <3>. QED  BY <3>1, <3>2
  <2>. QED  BY <2>1, <1>9 DEF m
<1>11. IsAcc(acc)
  <2> HIDE DEF IsAcc
  <2>. QED  BY <1>10
<1>. HIDE DEF acc
<1>12. Goes(acc, A, base, step, s)
  <2>1. acc[0] = base
    BY <1>0, <1>11
  <2>2. ASSUME NEW n \in 1 .. m, acc[n - 1] \in A PROVE acc[n] = step[<<acc[n - 1], s[n]>>]
    <3>1. acc[n] = PassStep(acc[n - 1], s[n], capped, b) /\ s[n] \in B
      BY <1>0, <1>11
    <3>. QED  BY <3>1, <2>2, <1>5
  <2>. QED  BY <2>1, <2>2 DEF Goes, m
<1>13. acc[Len(s)] \in A /\ phi[acc[Len(s)]] <= phi[base] + Total(Costs(Cost, s))
  <2>1. \A x \in B : Cost[x] \in Int
    BY <1>a, CostIs
  <2>. QED  BY <1>1, <1>2, <1>3, <1>4, <1>12, <2>1, FoldIs
<1> DEFINE q1 == acc[m]
<1>14. q1 \in A /\ Size(q1.kept) - q1.used <= 0 - Size(s) + Size(s)
  BY <1>6, <1>7, <1>13, <1>b DEF m
<1>. HIDE DEF q1
<1>15. q1.kept \in Seq(B) /\ q1.used \in Int /\ q1.used <= k
  BY <1>14 DEF A, Grown
<1>16. Size(q1.kept) \in Nat
  BY <1>a, <1>15, SizeIn
<1>17. Size(q1.kept) <= k
  BY <1>14, <1>15, <1>16, <1>b
<1>. QED  BY <1>8, <1>15, <1>17 DEF q1

-----------------------------------------------------------------------------
(* The order of priority, compression of the tail, the index.              *)

\* A priority is a number.
LEMMA PriorityIs ==
  ASSUME NEW x \in Sec
  PROVE  Priority(x) \in Int
BY DEF Priority

\* Before is a strict weak order.
THEOREM PriorityIsAnOrder ==
  /\ \A x \in Sec : ~Before(x, x)
  /\ \A x, y, z \in Sec : Before(x, y) /\ Before(y, z) => Before(x, z)
  /\ \A x, y, z \in Sec : ~Before(x, y) /\ ~Before(y, z) => ~Before(x, z)
<1>1. \A x \in Sec : x.score \in Int /\ x.id \in Int /\ Priority(x) \in Int
  BY SecIs, PriorityIs
<1>2. CASE q.mode = "cold_start"
  <2>1. \A x, y \in Sec : Before(x, y) <=>
          \/ Priority(x) < Priority(y)
          \/ Priority(x) = Priority(y) /\ (x.score > y.score \/ (x.score = y.score /\ x.id < y.id))
    BY <1>1, <1>2 DEF Before, Better
  <2>. QED  BY <1>1, <2>1
<1>3. CASE q.mode # "cold_start"
  <2>1. \A x, y \in Sec : Before(x, y) <=>
          \/ x.score > y.score
          \/ x.score = y.score /\ (Priority(x) < Priority(y) \/ (Priority(x) = Priority(y) /\ x.id < y.id))
    BY <1>1, <1>3 DEF Before
  <2>. QED  BY <1>1, <2>1
<1>. QED  BY <1>2, <1>3

\* i comes before j in the stable order.
Earlier(s, i, j) == Before(s[i], s[j]) \/ (~Before(s[j], s[i]) /\ i < j)

\* Sorting by priority gives sections, because the order is a strict weak one.
LEMMA ByPriorityIs ==
  ASSUME NEW s \in Seq(Sec)
  PROVE  ByPriority(s) \in Seq(Sec)
<1> DEFINE m == Len(s)
           D == DOMAIN s
           N == Cardinality(D)
           R == {p \in D \X D : Earlier(s, p[1], p[2])}
           order == [n \in 1 .. N |-> CHOOSE x \in D : Cardinality({y \in D : Earlier(s, y, x)}) = n - 1]
           t == [n \in DOMAIN order |-> s[order[n]]]
<1>0. m \in Nat /\ D = 1 .. m /\ \A i \in D : s[i] \in Sec /\ i \in Int
  OBVIOUS
<1>1. IsFiniteSet(D)
  BY RangeFinite
<1>2. ByPriority(s) = t
  BY DEF ByPriority, StableSort, InOrder, Earlier
<1>. HIDE DEF D
<1>3. Orders(R, D)
  <2>1. \A i \in D : ~Earlier(s, i, i)
    BY <1>0, PriorityIsAnOrder DEF Earlier
  <2>2. ASSUME NEW i \in D, NEW j \in D, NEW k \in D, Earlier(s, i, j), Earlier(s, j, k) PROVE Earlier(s, i, k)
    <3> DEFINE x == s[i]
               y == s[j]
               z == s[k]
    <3>1. x \in Sec /\ y \in Sec /\ z \in Sec /\ i \in Int /\ j \in Int /\ k \in Int
      BY <1>0
    <3>2. (Before(x, y) \/ (~Before(y, x) /\ i < j)) /\ (Before(y, z) \/ (~Before(z, y) /\ j < k))
      BY <2>2 DEF Earlier
    <3>. HIDE DEF x, y, z
    <3>3. /\ Before(x, y) /\ Before(y, z) => Before(x, z)
          /\ ~Before(z, y) /\ ~Before(y, x) => ~Before(z, x)
          /\ ~Before(x, z) /\ ~Before(z, y) => ~Before(x, y)
          /\ ~Before(y, x) /\ ~Before(x, z) => ~Before(y, z)
      BY <3>1, PriorityIsAnOrder
    <3>4. Before(x, z) \/ (~Before(z, x) /\ i < k)
      BY <3>1, <3>2, <3>3
    <3>. QED  BY <3>4 DEF Earlier, x, z
  <2>3. \A i, j \in D : i # j => Earlier(s, i, j) \/ Earlier(s, j, i)
    BY <1>0, PriorityIsAnOrder DEF Earlier
  <2>. QED  BY <2>1, <2>2, <2>3 DEF Orders
<1>4. \A x \in D : {y \in D : Earlier(s, y, x)} = Below(x, R, D)
  BY DEF Below
<1>5. order = [n \in 1 .. N |-> CHOOSE x \in D : Cardinality(Below(x, R, D)) = n - 1]
  <2> HIDE DEF R, N
  <2> DEFINE o == order
             e(n) == CHOOSE x \in D : Cardinality({y \in D : Earlier(s, y, x)}) = n - 1
             b(n) == CHOOSE x \in D : Cardinality(Below(x, R, D)) = n - 1
  <2>1. o = [n \in 1 .. N |-> e(n)]
    OBVIOUS
  <2>2. \A n : e(n) = b(n)
    BY <1>4
  <2>. HIDE DEF o, e, b
  <2>3. o = [n \in 1 .. N |-> b(n)]
    BY <2>1, <2>2
  <2>. QED  BY <2>3 DEF o, b
<1>6. Lists(order, D, R)
  <2> HIDE DEF R, order
  <2>. QED  BY <1>1, <1>3, <1>5, Ordered
<1>7. N \in Nat
  BY <1>1, FS_CardinalityType
<1>8. order \in [1 .. N -> D]
  <2> HIDE DEF R, order
  <2>. QED  BY <1>6 DEF Lists
<1>. HIDE DEF order, N
<1>9. t \in [1 .. N -> Sec]
  <2>1. DOMAIN order = 1 .. N
    BY <1>8
  <2>2. ASSUME NEW n \in 1 .. N PROVE s[order[n]] \in Sec
    BY <1>0, <1>8
  <2>. QED  BY <2>1, <2>2
<1>. HIDE DEF t
<1>10. t \in Seq(Sec)
  BY <1>7, <1>9, FcnIsSeq
<1>. QED  BY <1>2, <1>10

\* Compression gives sections.
LEMMA CompressTailIs ==
  ASSUME NEW s \in Seq(Sec)
  PROVE  CompressTail(s) \in Seq(Sec)
<1> DEFINE m == Len(s)
           t == CompressTail(s)
<1>0. m \in Nat /\ DOMAIN s = 1 .. m /\ \A i \in 1 .. m : s[i] \in Sec
  OBVIOUS
<1>1. \A i \in 1 .. m : [s[i] EXCEPT !.lines = Excerpt(@, Minimal)] \in Sec
  <2> SUFFICES ASSUME NEW i \in 1 .. m PROVE [s[i] EXCEPT !.lines = Excerpt(@, Minimal)] \in Sec
    OBVIOUS
  <2>1. s[i] \in Sec
    BY <1>0
  <2>2. Small(s[i]) \in Sec
    BY <2>1, SmallIs
  <2>. QED  BY <2>2 DEF Small
<1>2. t \in [1 .. m -> Sec]
  BY <1>0, <1>1 DEF CompressTail
<1>3. t \in Seq(Sec)
  <2> HIDE DEF t, m
  <2>. QED  BY <1>0, <1>2, FcnIsSeq
<1>. QED  BY <1>3

\* What stays of a sequence of sections.
LEMMA KeepSec ==
  ASSUME NEW s \in Seq(Sec), NEW S
  PROVE  Keep(s, S) \in Seq(Sec \cap S) /\ Keep(s, S) \in Seq(Sec)
<1>1. Keep(s, S) \in Seq(Sec \cap S)
  BY KeepIs
<1>2. Sec \cap S \subseteq Sec
  OBVIOUS
<1>. QED  BY <1>1, <1>2, SeqUp

\* The index of a pack takes only what is left.
LEMMA PointersIs ==
  ASSUME NEW over \in Seq(Sec), NEW kept, Size(kept) \in Nat
  PROVE  LET l == Len(Pointers(over, kept))
         IN l \in Nat /\ (l = 0 \/ Size(kept) + Title + 4 * l <= Budget) /\ (l = 0 => Pointers(over, kept) = <<>>)
<1> DEFINE z == Size(kept)
           c == Budget - z - Title
           x == Max({0, c})
           room == x \div 4
           k == Min({room, MaxPointers})
           b == ByScore(over)
           list == Take(b, k)
           p == Pointers(over, kept)
<1>1. p = [i \in DOMAIN list |-> list[i].id]
  BY DEF Pointers
<1>2. z \in Nat /\ Budget \in Nat /\ Title \in Nat /\ MaxPointers \in Nat
  BY PackAssumption
<1>3. b \in Seq({b[i] : i \in DOMAIN b})
  <2> DEFINE E(i, j) == Better(over[i], over[j]) \/ (~Better(over[j], over[i]) /\ i < j)
             D == DOMAIN over
             N == Cardinality(D)
             order == [n \in 1 .. N |-> CHOOSE y \in D : Cardinality({w \in D : E(w, y)}) = n - 1]
             T == {b[i] : i \in DOMAIN b}
  <2>1. b = [n \in DOMAIN order |-> over[order[n]]]
    BY DEF ByScore, StableSort, InOrder
  <2>2. N \in Nat
    BY RangeFinite, FS_CardinalityType
  <2>3. DOMAIN order = 1 .. N
    OBVIOUS
  <2>. HIDE DEF order, N, b
  <2>4. DOMAIN b = 1 .. N /\ b = [n \in 1 .. N |-> b[n]]
    BY <2>1, <2>3
  <2>5. b \in [1 .. N -> T]
    BY <2>4
  <2>6. b \in Seq(T)
    <3> HIDE DEF T
    <3>. QED  BY <2>2, <2>5, FcnIsSeq
  <2>. QED  BY <2>6
<1>. HIDE DEF b, z
<1>4. c \in Int
  BY <1>2
<1>. HIDE DEF c
<1>5. x = (IF 0 >= c THEN 0 ELSE c)
  BY <1>4, MaxTwo
<1>. HIDE DEF x
<1>6. room \in Nat /\ 4 * room <= x /\ x \in Nat
  BY <1>4, <1>5
<1>. HIDE DEF room
<1>7. k = (IF room <= MaxPointers THEN room ELSE MaxPointers)
  BY <1>2, <1>6, MinTwo
<1>. HIDE DEF k
<1>8. k \in Nat /\ k <= room
  BY <1>2, <1>6, <1>7
<1>9. list \in Seq({b[i] : i \in DOMAIN b}) /\ Len(list) <= k
  BY <1>3, <1>8, TakeIs
<1> DEFINE l == Len(list)
<1>10. l \in Nat /\ DOMAIN list = 1 .. l /\ l <= k
  BY <1>9
<1>. HIDE DEF list, l, p
<1>11. DOMAIN p = 1 .. l /\ p = [i \in 1 .. l |-> list[i].id]
  BY <1>1, <1>10
<1>12. Len(p) = l
  <2>1. p \in [1 .. l -> {p[i] : i \in 1 .. l}]
    BY <1>11
  <2>. QED  BY <1>10, <2>1, FcnIsSeq
<1>13. l = 0 \/ z + Title + 4 * l <= Budget
  BY <1>2, <1>5, <1>6, <1>8, <1>10 DEF c
<1>14. l = 0 => p = <<>>
  BY <1>11
<1>. QED  BY <1>10, <1>12, <1>13, <1>14 DEF p, z

-----------------------------------------------------------------------------
(* A pack put together.                                                    *)

\* Keeping everything changes nothing.
LEMMA KeepAll ==
  ASSUME NEW T, NEW s \in Seq(T), NEW S, \A i \in DOMAIN s : s[i] \in S
  PROVE  Keep(s, S) = s
<1> DEFINE k == Len(s)
           r == Keep(s, S)
<1>1. k \in Nat /\ s \in [1 .. k -> T] /\ \A i \in 1 .. k : s[i] \in S
  OBVIOUS
<1>2. Len(r) >= k /\ \A i \in 1 .. k : r[i] = s[i]
  BY <1>1, KeepPrefix
<1>3. r \in Seq(T \cap S) /\ Len(r) <= Len(s)
  BY KeepIs
<1>. HIDE DEF r
<1>4. Len(r) = k
  BY <1>1, <1>2, <1>3
<1>5. r \in [1 .. k -> T \cap S]
  BY <1>3, <1>4
<1>6. r = s
  <2>. HIDE DEF k
  <2>. QED  BY <1>1, <1>2, <1>5
<1>. QED  BY <1>6 DEF r

\* The sections of the baseline in a pack.
InBase(p, tiered) == Keep(p.sections, {s \in Range(p.sections) : tiered /\ s.tier = "baseline"})

\* A pack is within its budget, or its baseline's size, but for what demotion
\* added; with an index it is within its budget.
WithinBudget(p, tiered) ==
  /\ Size(p.sections) <= Max({Budget + Title - 1, Size(InBase(p, tiered))}) + Growth * p.demoted
  /\ p.pointers = <<>> \/ Size(p.sections) + (Title + 4 * Len(p.pointers)) <= Budget

\* The sections of the baseline.
Base == {x \in Sec : x.tier = "baseline"}

\* The baseline, and all sections, are closed under tier.
LEMMA AllClosed == Closed(Base) /\ Closed(Sec) /\ Base \in SUBSET Sec
BY DEF Closed, Base

\* Sections within the limit, or all of them the baseline's.
LEMMA WithinIs ==
  ASSUME NEW p, NEW over \in Seq(Sec), NEW tiered, p.sections \in Seq(Sec), p.pointers = Pointers(over, p.sections),
         p.demoted \in Nat,
         Size(p.sections) <= Budget + Title - 1 + Growth * p.demoted \/ (tiered = TRUE /\ p.sections \in Seq(Base))
  PROVE  WithinBudget(p, tiered)
<1> DEFINE z == Size(p.sections)
           b == Size(InBase(p, tiered))
           m == Budget + Title - 1
           g == Growth * p.demoted
           l == Len(p.pointers)
<1>1. Budget \in Nat /\ Title \in Nat /\ Title >= 1
  BY PackAssumption
<1>2. z \in Nat /\ b \in Nat
  BY KeepSec, SizeNat DEF InBase
<1>3. l \in Nat /\ (l = 0 \/ z + Title + 4 * l <= Budget) /\ (l = 0 => p.pointers = <<>>)
  BY <1>2, PointersIs
<1>4. g \in Nat
  <2> DEFINE d == p.demoted
  <2>1. d \in Nat /\ Growth \in Nat
    BY GrowthIs
  <2>. HIDE DEF d
  <2>2. Growth * d \in Nat
    BY <2>1
  <2>. QED  BY <2>2 DEF d
<1>5. z <= m + g \/ z = b
  <2>1. CASE tiered = TRUE /\ p.sections \in Seq(Base)
    <3> DEFINE s == p.sections
               S == {x \in Range(s) : tiered /\ x.tier = "baseline"}
    <3>1. s \in Seq(Base)
      BY <2>1
    <3>. HIDE DEF s
    <3>2. \A j \in DOMAIN s : s[j] \in S
      <4> SUFFICES ASSUME NEW j \in DOMAIN s PROVE s[j] \in S
        OBVIOUS
      <4>1. s[j] \in Base
        BY <3>1
      <4>. QED  BY <4>1, <2>1 DEF Base, Range
    <3>. HIDE DEF S
    <3>3. Keep(s, S) = s
      BY <3>1, <3>2, KeepAll
    <3>. QED  BY <3>3 DEF s, S, InBase
  <2>2. CASE Size(p.sections) <= Budget + Title - 1 + Growth * p.demoted
    BY <2>2
  <2>. QED  BY <2>1, <2>2
<1>. HIDE DEF z, b, l, m, g
<1>6. m \in Int
  BY <1>1 DEF m
<1>7. Max({m, b}) = (IF m >= b THEN m ELSE b)
  BY <1>2, <1>6, MaxTwo
<1>8. z <= (IF m >= b THEN m ELSE b) + g
  BY <1>2, <1>4, <1>5, <1>6
<1>9. p.pointers = <<>> \/ z + (Title + 4 * l) <= Budget
  <2> SUFFICES ASSUME p.pointers # <<>> PROVE z + (Title + 4 * l) <= Budget
    OBVIOUS
  <2>1. z + Title + 4 * l <= Budget
    BY <1>3
  <2>. QED  BY <2>1, <1>1, <1>2, <1>3
<1>. QED  BY <1>7, <1>8, <1>9 DEF WithinBudget, z, b, m, g, l

\* Whatever sections go in, the pack that comes out is within its budget or is
\* its baseline, over which each section that was cut after regrowth may go by
\* its marker; with an index it is within its budget (src/context/assemble.rs).
THEOREM AnyPackFits ==
  ASSUME NEW baseline \in Seq(Sec), NEW sections \in Seq(Sec)
  PROVE  WithinBudget(Assembled(baseline, sections), Tiered)
<1> DEFINE tiered == Tiered
           full == HasFullContent(sections)
           all == ByPriority(baseline \o sections)
           first == PartitionDups(all)
           ships == {s \in Range(first.kept) : tiered /\ s.tier = "baseline"}
           others == Range(first.kept) \ ships
           base == Keep(first.kept, ships)
           tier1 == Keep(first.kept, others)
           n == Max({0, Budget - Size(base)})
           fit == FitBudget(CompressTail(tier1), n)
           G == base \o fit.kept
           grown == IF full THEN Redup(Relax(G, Budget)) ELSE [kept |-> G, over |-> <<>>, demoted |-> 0]
           over == first.dups \o fit.dropped \o grown.over
           p == Assembled(baseline, sections)
           m == Budget + Title - 1
<1>1. p = [sections |-> grown.kept, pointers |-> Pointers(over, grown.kept), demoted |-> grown.demoted]
  BY Zenon DEF Assembled
<1>2. Budget \in Nat /\ Title \in Nat /\ Title >= 1
  BY PackAssumption
<1>3. all \in Seq(Sec)
  <2>1. baseline \o sections \in Seq(Sec)
    BY SizeJoined
  <2>. QED  BY <2>1, ByPriorityIs
<1>. HIDE DEF p, all
<1>4. first.kept \in Seq(Sec) /\ first.dups \in Seq(Sec)
  <2>1. first \in Parts(Sec)
    BY <1>3, PartitionDupsIs
  <2>. QED  BY <2>1 DEF Parts
<1>. HIDE DEF first
<1>5. base \in Seq(Base) /\ base \in Seq(Sec) /\ (~tiered => base = <<>>)
  <2>1. base \in Seq(Sec \cap ships) /\ base \in Seq(Sec)
    <3> HIDE DEF ships
    <3>. QED  BY <1>4, KeepSec
  <2>2. Sec \cap ships \subseteq Base
    BY DEF Base
  <2>3. ~tiered => Sec \cap ships = {}
    OBVIOUS
  <2>. HIDE DEF ships, base
  <2>4. base \in Seq(Base)
    BY <2>1, <2>2, SeqUp
  <2>5. ASSUME ~tiered PROVE base = <<>>
    <3>1. base \in Seq({})
      BY <2>1, <2>3, <2>5
    <3>. QED  BY <3>1
  <2>. QED  BY <2>1, <2>4, <2>5
<1>. HIDE DEF others
<1>6. tier1 \in Seq(Sec)
  BY <1>4, KeepSec
<1>. HIDE DEF tier1, base
<1>7. Size(base) \in Nat
  BY <1>5, SizeNat
<1>8. n = (IF 0 >= Budget - Size(base) THEN 0 ELSE Budget - Size(base))
  <2> DEFINE c == Budget - Size(base)
  <2>1. c \in Int
    BY <1>2, <1>7
  <2>. HIDE DEF c
  <2>2. Max({0, c}) = (IF 0 >= c THEN 0 ELSE c)
    BY <2>1, MaxTwo
  <2>. QED  BY <2>2 DEF c
<1>. HIDE DEF n
<1>9. n \in Nat
  BY <1>2, <1>7, <1>8
<1>10. fit \in Fits(n)
  BY <1>6, <1>9, CompressTailIs, FitBudgetIs
<1>. HIDE DEF fit
<1>11. fit.kept \in Seq(Sec) /\ fit.dropped \in Seq(Sec) /\ Size(fit.kept) <= AtMost(n) /\ (n = 0 => fit.kept = <<>>)
  BY <1>10 DEF Fits
<1>12. G \in Seq(Sec) /\ Size(G) = Size(base) + Size(fit.kept) /\ Size(fit.kept) \in Nat
  BY <1>5, <1>11, SizeJoined, SizeNat
<1>13. n = 0 => G = base
  BY <1>5, <1>11
<1>. HIDE DEF G
<1>14. n # 0 => Size(G) <= m
  <2> SUFFICES ASSUME n # 0 PROVE Size(G) <= m
    OBVIOUS
  <2> DEFINE a == Size(base)
             f == Size(fit.kept)
             g == Size(G)
  <2>1. f <= n + Title - 1 /\ n = Budget - a /\ g = a + f /\ a \in Nat /\ f \in Nat
    BY <1>2, <1>7, <1>8, <1>11, <1>12 DEF AtMost
  <2>. HIDE DEF a, f, g
  <2>2. g <= Budget + Title - 1
    BY <2>1, <1>2, <1>9
  <2>. QED  BY <2>2 DEF g
<1>15. m \in Int /\ Budget <= m
  BY <1>2
<1>. HIDE DEF m
<1>a. tiered \in BOOLEAN
  BY DEF Tiered
<1>16. grown.kept \in Seq(Sec) /\ grown.over \in Seq(Sec) /\ grown.demoted \in Nat
       /\ (Size(grown.kept) <= m + Growth * grown.demoted \/ (tiered = TRUE /\ grown.kept \in Seq(Base)))
  <2>1. CASE full
    <3>0. grown = Redup(Relax(G, Budget))
      BY <2>1
    <3>. HIDE DEF grown
    <3>1. CASE Size(G) <= m
      <4>1. PassOf(G, TRUE, Budget) \in Seq(Sec) /\ Size(PassOf(G, TRUE, Budget)) <= m
        BY <3>1, <1>2, <1>12, <1>15, AllClosed, PassIs
      <4>2. PassOf(PassOf(G, TRUE, Budget), FALSE, Budget) \in Seq(Sec) /\ Size(PassOf(PassOf(G, TRUE, Budget), FALSE, Budget)) <= m
        BY <4>1, <1>2, <1>15, AllClosed, PassIs
      <4> DEFINE R == Relax(G, Budget)
      <4>3. R \in Seq(Sec) /\ Size(R) <= m
        BY <4>2, RelaxIs
      <4>. HIDE DEF R
      <4>4. Redup(R) \in Again(Sec) /\ Size(Redup(R).kept) <= Size(R) + Growth * Redup(R).demoted
        BY <4>3, AllClosed, RedupIs
      <4>5. Redup(R).kept \in Seq(Sec) /\ Redup(R).over \in Seq(Sec) /\ Redup(R).demoted \in Nat
        BY <4>4 DEF Again
      <4>6. Size(Redup(R).kept) <= m + Growth * Redup(R).demoted
        <5> DEFINE c == Size(Redup(R).kept)
                   d == Size(R)
                   g == Growth * Redup(R).demoted
        <5>1. c \in Nat /\ d \in Nat /\ c <= d + g /\ d <= m
          BY <4>3, <4>4, <4>5, SizeNat
        <5>2. g \in Int
          BY <4>5, GrowthIs
        <5>. HIDE DEF c, d, g
        <5>3. c <= m + g
          BY <5>1, <5>2, <1>15
        <5>. QED  BY <5>3 DEF c, g
      <4>. QED  BY <3>0, <4>5, <4>6 DEF R
    <3>2. CASE ~(Size(G) <= m)
      <4>0. tiered = TRUE /\ G = base
        <5>1. n = 0 /\ G = base
          BY <3>2, <1>13, <1>14
        <5>2. ~tiered => Size(G) = 0
          BY <5>1, <1>5, SizeEmpty
        <5>3. 0 <= m
          BY <1>2, <1>15
        <5>. QED  BY <5>1, <5>2, <5>3, <3>2, <1>a
      <4> DEFINE k == IF Size(base) >= Budget THEN Size(base) ELSE Budget
      <4>1. base \in Seq(Base) /\ k \in Int /\ Budget <= k /\ Size(base) <= k
        BY <1>2, <1>5, <1>7
      <4>. HIDE DEF k
      <4>2. PassOf(base, TRUE, Budget) \in Seq(Base) /\ Size(PassOf(base, TRUE, Budget)) <= k
        BY <4>1, <1>2, AllClosed, PassIs
      <4>3. PassOf(PassOf(base, TRUE, Budget), FALSE, Budget) \in Seq(Base)
        BY <4>1, <4>2, <1>2, AllClosed, PassIs
      <4> DEFINE R == Relax(base, Budget)
      <4>4. R \in Seq(Base)
        BY <4>3, RelaxIs
      <4>. HIDE DEF R
      <4>5. Redup(R) \in Again(Base)
        BY <4>4, AllClosed, RedupIs
      <4>6. Redup(R).kept \in Seq(Base) /\ Redup(R).over \in Seq(Base) /\ Redup(R).demoted \in Nat
        BY <4>5 DEF Again
      <4>7. Redup(R).kept \in Seq(Sec) /\ Redup(R).over \in Seq(Sec)
        BY <4>6, AllClosed, SeqUp
      <4>8. grown = Redup(R)
        BY <3>0, <4>0 DEF R
      <4>. QED  BY <4>0, <4>6, <4>7, <4>8
    <3>. QED  BY <3>1, <3>2
  <2>2. CASE ~full
    <3>1. grown.kept = G /\ grown.over = <<>> /\ grown.demoted = 0
      BY <2>2
    <3>. HIDE DEF grown
    <3>2. CASE Size(G) <= m
      <4>1. Growth * 0 = 0
        BY GrowthIs
      <4>2. m + 0 = m
        BY <1>15
      <4>. QED  BY <3>1, <3>2, <4>1, <4>2, <1>12, SizeEmpty
    <3>3. CASE ~(Size(G) <= m)
      <4>1. n = 0 /\ G = base
        BY <3>3, <1>13, <1>14
      <4>2. ~tiered => Size(G) = 0
        BY <4>1, <1>5, SizeEmpty
      <4>3. 0 <= m
        BY <1>2, <1>15
      <4>4. tiered = TRUE
        BY <4>2, <4>3, <3>3, <1>a
      <4>. QED  BY <3>1, <4>1, <4>4, <1>5, <1>12, SizeEmpty
    <3>. QED  BY <3>2, <3>3
  <2>. QED  BY <2>1, <2>2
<1>. HIDE DEF grown
<1>17. over \in Seq(Sec)
  <2>1. first.dups \o fit.dropped \in Seq(Sec)
    BY <1>4, <1>11, SizeJoined
  <2>. QED  BY <2>1, <1>16, SizeJoined
<1>. HIDE DEF over, tiered
<1>18. p.sections = grown.kept /\ p.pointers = Pointers(over, grown.kept) /\ p.demoted = grown.demoted
  BY <1>1
<1>19. WithinBudget(p, tiered)
  BY <1>16, <1>17, <1>18, WithinIs DEF m
<1>. QED  BY <1>19 DEF p, tiered

-----------------------------------------------------------------------------
(* The sections that go in. *)

\* A section as it is made.
LEMMA SectionIs ==
  ASSUME NEW source \in Sources, NEW id \in Int, NEW lines \in Seq(Line), NEW rel \in Int,
         NEW tier \in {"baseline", "full"}, source \in CodeKinds => id \in Id
  PROVE  Section(source, id, lines, rel, tier) \in Sec
<1> DEFINE x == Section(source, id, lines, rel, tier)
<1>1. x = [source |-> source, id |-> id, lines |-> lines, score |-> rel, tier |-> tier]
  BY DEF Section
<1>. HIDE DEF x
<1>2. x \in Sections /\ x.source = source /\ x.id = id
  BY <1>1 DEF Sections
<1>. QED  BY <1>2 DEF Sec, x

\* The names of sources and tiers.
LEMMA SourcesAre ==
  /\ \A x \in {"identity", "rule", "knowledge", "code_map", "knowledge_index"} : x \in Sources /\ x \notin CodeKinds
  /\ \A x \in Id : Kind[x] \in Sources
  /\ "baseline" \in {"baseline", "full"} /\ "full" \in {"baseline", "full"}
<1>1. \A x \in Id : Kind[x] \in CodeKinds \cup {"rule", "knowledge", "observation"}
  BY SearchAssumption
<1>. QED  BY <1>1 DEF Sources, CodeKinds

\* A line of a listing is a line.
LEMMA NameIs == \A n \in Nat : Name(n) \in Line
BY DEF Name, Line

\* The identity section.
LEMMA IdentityIs == Identity \in Sec
<1> DEFINE x == Name(0)
<1>2. x \in Line
  BY NameIs
<1>. HIDE DEF x
<1>3. <<x>> \in Seq(Line) /\ 0 \in Int
  BY <1>2
<1>1. <<Name(0)>> \in Seq(Line) /\ 0 \in Int
  BY <1>3 DEF x
<1>. QED  BY <1>1, SourcesAre, SectionIs DEF Identity

\* Entities by any score, best first.
LEMMA BestFirstIs ==
  ASSUME NEW S \in SUBSET Id, NEW score, \A x \in S : score[x] \in Int
  PROVE  Sorted({[id |-> x, score |-> score[x]] : x \in S}) \in Seq(Scores(Id, Int))
<1> DEFINE L == {[id |-> x, score |-> score[x]] : x \in S}
<1>1. L \in SUBSET Scores(Id, Int) /\ IsFiniteSet(L) /\ Item(L) /\ Single(L)
  BY ScoredIs
<1>2. Sorted({[id |-> x, score |-> score[x]] : x \in S}) = Sorted(L)
  OBVIOUS
<1>. HIDE DEF L
<1>. QED  BY <1>1, <1>2, SortedSeq

\* Entities of a kind, best first.
LEMMA ByCompositeIs ==
  ASSUME NEW kind
  PROVE  ByComposite(kind) \in Seq(Scores(Id, Int))
<1> DEFINE S == {y \in Id : Kind[y] = kind /\ Shown(y)}
           c == Composite
<1>1. ByComposite(kind) = Sorted({[id |-> x, score |-> c[x]] : x \in S})
  BY DEF ByComposite
<1>2. S \in SUBSET Id /\ \A x \in S : c[x] \in Int
  BY PackAssumption
<1>. HIDE DEF S, c
<1>3. Sorted({[id |-> x, score |-> c[x]] : x \in S}) \in Seq(Scores(Id, Int))
  BY <1>2, BestFirstIs
<1>. QED  BY <1>1, <1>3

\* Such a list as sections.
LEMMA ScoredSections ==
  ASSUME NEW list \in Seq(Scores(Id, Int)), NEW kind \in {"rule", "knowledge"}
  PROVE  Scored(list, kind) \in Seq(Sec)
<1> DEFINE m == Len(list)
           t == Scored(list, kind)
<1>0. m \in Nat /\ DOMAIN list = 1 .. m /\ \A i \in 1 .. m : list[i] \in Scores(Id, Int)
  OBVIOUS
<1>1. t = [i \in 1 .. m |-> Section(kind, list[i].id, Text[list[i].id], list[i].score, "baseline")]
  BY <1>0 DEF Scored
<1>2. ASSUME NEW i \in 1 .. m PROVE Section(kind, list[i].id, Text[list[i].id], list[i].score, "baseline") \in Sec
  <2> DEFINE x == list[i].id
             n == list[i].score
  <2>1. x \in Id /\ n \in Int
    BY <1>0 DEF Scores
  <2>. HIDE DEF x, n
  <2>2. x \in Int /\ Text[x] \in Seq(Line)
    BY <2>1, IdNat, PackAssumption
  <2>3. kind \in Sources
    BY SourcesAre
  <2>4. Section(kind, x, Text[x], n, "baseline") \in Sec
    BY <2>1, <2>2, <2>3, SourcesAre, SectionIs
  <2>. QED  BY <2>4 DEF x, n
<1>. HIDE DEF t, m
<1>3. t \in [1 .. m -> Sec]
  BY <1>1, <1>2
<1>4. t \in Seq(Sec)
  BY <1>0, <1>3, FcnIsSeq
<1>. QED  BY <1>4 DEF t

\* What goes into a pack are sections: the rules,
LEMMA RulesAre == RuleSections \in Seq(Sec)
<1> DEFINE l == Take(ByComposite("rule"), BaselineRules)
<1>1. BaselineRules \in Nat
  BY PackAssumption
<1>2. l \in Seq(Scores(Id, Int))
  BY <1>1, ByCompositeIs, TakeIs
<1>. QED  BY <1>2, ScoredSections DEF RuleSections

\* the code map,
LEMMA CodeMapIs == CodeMap \in Seq(Sec)
<1> DEFINE S == {x \in Id : Kind[x] = "file" /\ Shown(x)}
           listed == Ascending(S)
           paths == [i \in DOMAIN listed |-> Name(listed[i])]
<1>1. S \in SUBSET Id
  OBVIOUS
<1>2. CodeMap = (IF listed = <<>> THEN <<>> ELSE <<Section("code_map", 0, paths, 0, "baseline")>>)
  BY DEF CodeMap
<1>. HIDE DEF S
<1>3. IsFiniteSet(S) /\ S \in SUBSET Nat /\ S \in SUBSET Int
  BY <1>1, IdFinite, IdNat
<1>4. Rising(listed, S) /\ Cardinality(S) \in Nat
  BY <1>3, Ascends, FS_CardinalityType
<1>. HIDE DEF listed
<1>5. DOMAIN listed = 1 .. Cardinality(S) /\ \A i \in 1 .. Cardinality(S) : listed[i] \in Nat
  BY <1>3, <1>4 DEF Rising
<1>a. \A i \in 1 .. Cardinality(S) : Name(listed[i]) \in Line
  BY <1>5, NameIs
<1>b. paths \in [1 .. Cardinality(S) -> Line]
  BY <1>5, <1>a
<1>. HIDE DEF paths
<1>6. paths \in Seq(Line)
  BY <1>4, <1>b, FcnIsSeq
<1>7. Section("code_map", 0, paths, 0, "baseline") \in Sec
  <2>1. 0 \in Int
    OBVIOUS
  <2>. QED  BY <1>6, <2>1, SourcesAre, SectionIs
<1>. QED  BY <1>2, <1>7, SizeOne, SizeEmpty

\* the knowledge,
LEMMA KnowledgeIs == KnowledgeSections \in Seq(Sec)
<1> DEFINE all == ByComposite("knowledge")
           m == Len(all)
           rest == [i \in 1 .. m - 1 |-> Name(all[i + 1].id)]
           one == Scored(Take(all, 1), "knowledge")
           two == IF rest = <<>> THEN <<>> ELSE <<Section("knowledge_index", 0, rest, 0, "baseline")>>
<1>1. KnowledgeSections = one \o two
  BY DEF KnowledgeSections
<1>2. all \in Seq(Scores(Id, Int))
  BY ByCompositeIs
<1>. HIDE DEF all
<1>3. m \in Nat
  BY <1>2
<1>4. one \in Seq(Sec)
  <2>1. Take(all, 1) \in Seq(Scores(Id, Int))
    BY <1>2, TakeIs
  <2>. QED  BY <2>1, ScoredSections
<1>5. rest \in Seq(Line)
  <2>1. ASSUME NEW i \in 1 .. m - 1 PROVE Name(all[i + 1].id) \in Line
    <3>1. i + 1 \in 1 .. m
      BY <1>3
    <3>2. all[i + 1] \in Scores(Id, Int)
      BY <1>2, <3>1
    <3>3. all[i + 1].id \in Nat
      BY <3>2, IdNat DEF Scores
    <3>. QED  BY <3>3, NameIs
  <2>. HIDE DEF m
  <2>2. rest \in [1 .. m - 1 -> Line]
    BY <2>1
  <2> DEFINE k == IF m = 0 THEN 0 ELSE m - 1
  <2>3. k \in Nat /\ 1 .. m - 1 = 1 .. k
    BY <1>3
  <2>. HIDE DEF rest, k
  <2>4. rest \in [1 .. k -> Line]
    BY <2>2, <2>3
  <2>. QED  BY <2>3, <2>4, FcnIsSeq
<1>. HIDE DEF rest, one
<1>6. Section("knowledge_index", 0, rest, 0, "baseline") \in Sec
  <2>1. 0 \in Int
    OBVIOUS
  <2>. QED  BY <1>5, <2>1, SourcesAre, SectionIs
<1>7. two \in Seq(Sec)
  BY <1>6, SizeOne, SizeEmpty
<1>. HIDE DEF two
<1>. QED  BY <1>1, <1>4, <1>7, SizeJoined

\* and all of a cold pack.
LEMMA ColdIs == ColdSections \in Seq(Sec)
<1>1. <<Identity>> \in Seq(Sec)
  BY IdentityIs, SizeOne
<1>2. <<Identity>> \o CodeMap \in Seq(Sec)
  BY <1>1, CodeMapIs, SizeJoined
<1>3. (<<Identity>> \o CodeMap) \o RuleSections \in Seq(Sec)
  BY <1>2, RulesAre, SizeJoined
<1>4. ((<<Identity>> \o CodeMap) \o RuleSections) \o KnowledgeSections \in Seq(Sec)
  BY <1>3, KnowledgeIs, SizeJoined
<1>. QED  BY <1>4 DEF ColdSections

\* The baseline of a task pack.
LEMMA BaselineIs == <<Identity>> \o RuleSections \in Seq(Sec)
BY IdentityIs, SizeOne, RulesAre, SizeJoined

\* What a search returned, as sections.
LEMMA ResultIs ==
  ASSUME NEW r, r.id \in Id, r.score \in Int
  PROVE  ResultSection(r) \in Sec
<1> DEFINE x == r.id
           l == IF Chan(x) = "code" THEN Excerpt(Text[x], Short) ELSE Text[x]
<1>1. x \in Int /\ Text[x] \in Seq(Line) /\ Short \in Nat
  BY IdNat, PackAssumption
<1>2. l \in Seq(Line)
  BY <1>1, ExcerptIs
<1>3. ResultSection(r) = Section(Kind[x], x, l, r.score, "full")
  BY DEF ResultSection
<1>4. Kind[x] \in Sources
  BY SourcesAre
<1>. HIDE DEF l
<1>. QED  BY <1>1, <1>2, <1>3, <1>4, SourcesAre, SectionIs

\* The results of a search as sections.
LEMMA ResultsAre ==
  ASSUME SearchOK
  PROVE  ResultSections \in Seq(Sec)
<1> DEFINE R == {r \in Hit \cup Leads : r.id \in Id /\ r.score \in Int}
           e == Sorted(extra)
           results == hits \o e
           m == Len(results)
           t == ResultSections
<1>1. hits \in Seq(Hit) /\ Hit \subseteq R
  <2>1. Hit \subseteq R
    <3> SUFFICES ASSUME NEW h \in Hit PROVE h.id \in Id /\ h.score \in Int
      OBVIOUS
    <3>1. h \in [id : Id, chan : Channels, score : Int]
      BY DEF Hit
    <3>. QED  BY <3>1
  <2>. QED  BY <2>1 DEF SearchOK, RankedOK, HitList
<1>2. extra \in SUBSET Leads /\ IsFiniteSet(extra) /\ Single(extra)
  <2>1. extra \subseteq emitted.out /\ emitted.out \in SUBSET Leads /\ IsFiniteSet(emitted.out) /\ Single(emitted.out)
    BY DEF SearchOK, FoundOK, Claimed, Found
  <2>2. IsFiniteSet(extra)
    BY <2>1, FS_Subset
  <2>. QED  BY <2>1, <2>2 DEF Single
<1>3. Leads \subseteq R
  BY DEF Leads
<1>4. Item(extra)
  BY <1>2, IdNat DEF Item, Leads
<1>5. e \in Seq(Leads)
  BY <1>2, <1>4, SortedSeq
<1>. HIDE DEF R, e
<1>6. hits \in Seq(R) /\ e \in Seq(R)
  BY <1>1, <1>3, <1>5, SeqUp
<1>7. results \in Seq(R)
  BY <1>6
<1>8. t = [i \in DOMAIN results |-> ResultSection(results[i])]
  BY DEF ResultSections, e
<1>. HIDE DEF results, t
<1>9. m \in Nat /\ DOMAIN results = 1 .. m /\ \A i \in 1 .. m : results[i] \in R
  BY <1>7
<1>. HIDE DEF m
<1>10. \A i \in 1 .. m : ResultSection(results[i]) \in Sec
  BY <1>9, ResultIs DEF R
<1>11. t \in [1 .. m -> Sec]
  BY <1>8, <1>9, <1>10
<1>12. t \in Seq(Sec)
  BY <1>9, <1>11, FcnIsSeq
<1>. QED  BY <1>12 DEF t

-----------------------------------------------------------------------------
(* The invariant of a pack. *)

\* The invariant of a pack: that of its search, sections in the first tier, and a pack within its budget.
PackOK == SearchOK /\ tier0 \in Seq(Sec) /\ (stage = "packed" => WithinBudget(pack, Tiered))

\* It holds at the start,
LEMMA PackInitOK ==
  ASSUME PackInit
  PROVE  PackOK
<1>1. SearchOK
  BY SearchInitOK DEF PackInit
<1>2. stage # "packed"
  BY DEF PackInit, SearchInit
<1>. QED  BY <1>1, <1>2, SizeEmpty DEF PackOK, PackInit

\* A step that makes no pack and reads no section.
LEMMA NoPack ==
  ASSUME PackOK, SearchOK', UNCHANGED packVars, stage' = "packed" => stage = "packed" /\ q' = q
  PROVE  PackOK'
<1>1. tier0' = tier0 /\ pack' = pack
  BY DEF packVars
<1>. QED  BY <1>1 DEF PackOK, WithinBudget, InBase, Size, Tokens, Tiered

\* and every step keeps it.
LEMMA PackStepOK ==
  ASSUME PackOK, [PackNext]_<<dbVars, searchVars, packVars>>
  PROVE  PackOK'
<1>1. SearchOK /\ SearchOK'
  BY PackNextOK DEF PackOK
<1>2. CASE SearchNext /\ UNCHANGED packVars
  <2>1. stage' # "packed"
    BY <1>2 DEF SearchNext, FtsStep, VecStep, PrfStep, GraphStep, RankStep, GateStep, ExpandStep, SiblingStep, HistoryStep, AppendStep
  <2>. QED  BY <1>1, <1>2, <2>1, NoPack
<1>3. CASE Sync /\ UNCHANGED packVars
  <2>1. UNCHANGED searchVars
    BY <1>3 DEF Sync, SyncStale, SyncHeals
  <2>. QED  BY <1>1, <1>3, <2>1, NoPack DEF searchVars
<1>4. CASE ColdStart
  <2>1. tier0' = ColdSections /\ stage' = "done" /\ ColdSections \in Seq(Sec)
    BY <1>4, ColdIs DEF ColdStart
  <2>2. tier0' \in Seq(Sec)
    BY <2>1
  <2>. QED  BY <1>1, <2>1, <2>2 DEF PackOK, Sec, Sections
<1>5. CASE ReadBaseline
  <2>1. tier0' = <<Identity>> \o RuleSections /\ stage' = "done" /\ <<Identity>> \o RuleSections \in Seq(Sec)
    BY <1>5, BaselineIs DEF ReadBaseline, searchVars
  <2>2. tier0' \in Seq(Sec)
    BY <2>1
  <2>. QED  BY <1>1, <2>1, <2>2 DEF PackOK, Sec, Sections
<1>6. CASE Assemble
  <2>1. q' = q /\ tier0' = tier0 /\ pack' = (IF q.mode = "task" THEN Assembled(tier0, ResultSections) ELSE Assembled(<<>>, tier0))
    BY <1>6 DEF Assemble
  <2>2. tier0 \in Seq(Sec) /\ ResultSections \in Seq(Sec)
    BY <1>1, ResultsAre DEF PackOK
  <2>3. WithinBudget(pack', Tiered)
    BY <2>1, <2>2, SizeEmpty, AnyPackFits
  <2>4. WithinBudget(pack, Tiered)'
    BY <2>1, <2>3 DEF WithinBudget, InBase, Size, Tokens, Tiered
  <2>. QED  BY <1>1, <2>1, <2>2, <2>4 DEF PackOK, Sec, Sections
<1>7. CASE UNCHANGED <<dbVars, searchVars, packVars>>
  BY <1>1, <1>7, NoPack DEF searchVars
<1>. QED  BY <1>2, <1>3, <1>4, <1>5, <1>6, <1>7 DEF PackNext

\* A pack stays within its budget, over which one section cut down to its title
\* may go by less than that title, the baseline of a task pack may go alone, and
\* each section demoted after regrowth may go by the tokens of its marker, for
\* nothing fits the pack again; with an index it is within its budget.  So it is
\* for all entities, texts, widths, budgets and settings
\* (src/context/compress.rs, src/context/assemble.rs).
THEOREM FitsThroughout == PackSpec => []PackFits
<1>1. PackInit => PackOK
  BY PackInitOK
<1>2. PackOK /\ [PackNext]_<<dbVars, searchVars, packVars>> => PackOK'
  BY PackStepOK
<1>3. PackOK => PackFits
  BY DEF PackOK, PackFits, WithinBudget, InBase
<1>. QED  BY <1>1, <1>2, <1>3, PTL DEF PackSpec

=============================================================================
