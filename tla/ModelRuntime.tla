---------------------------- MODULE ModelRuntime ----------------------------
(***************************************************************************)
(* One lazily loaded ONNX model of a server process (src/embed/onnx.rs,    *)
(* nli.rs), the shared library every model needs (runtime.rs), and the     *)
(* files another process downloads for it (download.rs, registry.rs).      *)
(*                                                                         *)
(* Tool calls are threads.  The session, the tokenizer and the idle        *)
(* tracker each have a mutex of their own, so loading and reaping are      *)
(* sequences of separately locked steps.  (The flag behind is_available,   *)
(* set last by a load and cleared last by a reap, is asked by the save     *)
(* hook alone: see EmbeddingSync.)                                         *)
(***************************************************************************)
EXTENDS Naturals, FiniteSets

CONSTANTS
  Thread,       \* tool calls of the server process that use the model
  Puller,       \* processes that run "cogz models download" or an index
  Registry,     \* the models a run may configure: [kind, layout] records
  MaxChunks,    \* chunks of the longest embed call
  MaxStale,     \* how often the idle TTL runs out
  MaxFaults,    \* failed fetches, failed loads, killed processes
  Nobody        \* the free value of a lock

ASSUME ThreadAssumption == Nobody \notin Thread
ASSUME ChunksAssumption == MaxChunks \in Nat \ {0}

VARIABLES
  model,      \* the configured model
  wanted,     \* FALSE: force_fts_only, or code_embeddings off for a code model
  fetching,   \* whether the library may be downloaded (embedding.auto_download)
  lib,        \* the library file: "absent", "partial" or "whole"
  archive,    \* the staged download: "none", "bad" or "good"
  files,      \* files present in the snapshot directory
  flat,       \* whether the flat path links to the snapshot
  ort,        \* ORT_INIT: "unset", "running", "ok" or "failed"
  session, tokenizer,
  tracker,    \* IdleTracker: "never", "fresh" or "stale"
  guard,      \* the thread holding session and tokenizer for inference
  pc, left, again,   \* per tool call
  overlapped, \* whether two calls overlapped since the server started
  pull,       \* per downloading process: its step
  stales, faults

disk    == <<files, flat>>
library == <<lib, archive, ort>>
loaded  == <<session, tokenizer, tracker>>
calls   == <<pc, left, again, overlapped>>
setup   == <<model, wanted, fetching>>
vars    == <<setup, disk, library, loaded, guard, calls, pull, stales, faults>>

Steps == {"idle", "check", "age", "configured", "drop_session",
          "drop_tokenizer", "memory", "ort", "find_lib",
          "fetch", "verify", "copy", "copying", "init", "files",
          "set_session", "set_tokenizer", "touch",
          "acquire", "infer"}
PullSteps == {"idle", "onnx", "tokenizer", "config", "unlink", "link",
              "lib_copy", "lib_copying"}

-----------------------------------------------------------------------------
(* The registry and the paths.                                             *)

\* The file a download fetches for a layout.
OnnxFilename(layout) ==
  CASE layout = "RootModel"               -> "model.onnx"
    [] layout = "RootOptimized"           -> "model_optimized.onnx"
    [] layout = "OnnxSubdir"              -> "onnx/model.onnx"
    [] layout = "OnnxSubdirQuantizedAvx2" -> "onnx/model_quint8_avx2.onnx"

\* The files the embedding loader accepts.
EmbeddingOnnxFiles == {"model_optimized.onnx", "model.onnx",
                       "onnx/model_quantized.onnx", "onnx/model.onnx"}

\* The files the NLI loader accepts.
NliOnnxFiles == {"onnx/model_quint8_avx2.onnx", "onnx/model.onnx", "model.onnx"}

OnnxFiles == IF model.kind = "nli" THEN NliOnnxFiles ELSE EmbeddingOnnxFiles

\* What the loader needs to see under the flat path.
ModelFilesExist ==
  flat /\ files \cap OnnxFiles # {} /\ "tokenizer.json" \in files

\* The registry entries: which kind of model each is and where its file lies.
Lookup == {[kind |-> "code",      layout |-> "OnnxSubdir"],
           [kind |-> "knowledge", layout |-> "RootOptimized"],
           [kind |-> "nli",       layout |-> "OnnxSubdirQuantizedAvx2"],
           [kind |-> "nli",       layout |-> "OnnxSubdir"]}

ASSUME RegistryAssumption == Registry \subseteq Lookup

\* force_fts_only and code_embeddings leave the model directory empty.
Configured(ftsOnly, codeEmbeddings) ==
  ~ftsOnly /\ (model.kind = "code" => codeEmbeddings)

-----------------------------------------------------------------------------
Goto(t, step) == pc' = [pc EXCEPT ![t] = step]

\* A call fails: the caller gets a reason and goes on without vectors.
Return(t) ==
  /\ Goto(t, "idle")
  /\ left' = [left EXCEPT ![t] = 0]
  /\ again' = [again EXCEPT ![t] = FALSE]
  /\ UNCHANGED overlapped

Move(t, step) == Goto(t, step) /\ UNCHANGED <<left, again, overlapped>>

Fault == faults < MaxFaults /\ faults' = faults + 1

Torn == session /\ ~tokenizer

\* embed or classify: a code or knowledge model embeds chunk by chunk.
Call(t) ==
  /\ pc[t] = "idle"
  /\ \E n \in 1 .. (IF model.kind = "nli" THEN 1 ELSE MaxChunks) :
       left' = [left EXCEPT ![t] = n]
  /\ Goto(t, "check")
  /\ again' = [again EXCEPT ![t] = FALSE]
  /\ overlapped' = (overlapped \/ \E u \in Thread : pc[u] # "idle")
  /\ UNCHANGED <<setup, disk, library, loaded, guard, pull, stales, faults>>

\* try_load looks at the session under its mutex, which inference holds.
SeesSession(t) ==
  /\ pc[t] = "check"
  /\ guard = Nobody
  /\ Move(t, IF session THEN "age" ELSE "configured")
  /\ UNCHANGED <<setup, disk, library, loaded, guard, pull, stales, faults>>

\* A loaded embedding model is reaped when idle; a loaded NLI model never is.
SeesAge(t) ==
  /\ pc[t] = "age"
  /\ IF model.kind # "nli" /\ tracker = "stale"
     THEN Move(t, "drop_session") /\ UNCHANGED tracker
     ELSE Move(t, "acquire") /\ tracker' = "fresh"
  /\ UNCHANGED <<setup, disk, library, session, tokenizer, guard,
                 pull, stales, faults>>

\* The empty model directory; nli.rs looks at the tracker only here.
SeesConfigured(t) ==
  /\ pc[t] = "configured"
  /\ IF ~wanted THEN Return(t)
     ELSE Move(t, IF model.kind = "nli" /\ tracker = "stale"
                  THEN "drop_session" ELSE "memory")
  /\ UNCHANGED <<setup, disk, library, loaded, guard, pull, stales, faults>>

\* unload: one mutex after the other.
DropSession(t) ==
  /\ pc[t] = "drop_session"
  /\ guard = Nobody
  /\ session' = FALSE
  /\ Move(t, "drop_tokenizer")
  /\ UNCHANGED <<setup, disk, library, tokenizer, tracker, guard,
                 pull, stales, faults>>

DropTokenizer(t) ==
  /\ pc[t] = "drop_tokenizer"
  /\ guard = Nobody
  /\ tokenizer' = FALSE
  /\ Move(t, IF model.kind = "nli" THEN "memory" ELSE "configured")
  /\ UNCHANGED <<setup, disk, library, session, tracker, guard,
                 pull, stales, faults>>

\* has_enough_memory: below the floor the load is refused.
SeesMemory(t) ==
  /\ pc[t] = "memory"
  /\ \/ Move(t, "ort") /\ UNCHANGED faults
     \/ Fault /\ Return(t)
  /\ UNCHANGED <<setup, disk, library, loaded, guard, pull, stales>>

-----------------------------------------------------------------------------
(* ensure_ort: one thread runs the initializer, the others wait for it.    *)

EnsureOrt(t) ==
  /\ pc[t] = "ort"
  /\ \/ ort = "ok" /\ Move(t, "files") /\ UNCHANGED ort
     \/ ort = "failed" /\ Return(t) /\ UNCHANGED ort
     \/ ort = "unset" /\ ort' = "running" /\ Move(t, "find_lib")
  /\ UNCHANGED <<setup, disk, lib, archive, loaded, guard, pull, stales, faults>>

\* The verdict of the process, for good.
OrtVerdict(t, v) ==
  /\ ort' = v
  /\ IF v = "ok" THEN Move(t, "files") ELSE Return(t)

\* A file at the path is taken for the library, whatever it holds.
LibExists == lib # "absent"

FindLib(t) ==
  /\ pc[t] = "find_lib"
  /\ IF LibExists THEN Move(t, "init") /\ UNCHANGED ort
     ELSE IF fetching THEN Move(t, "fetch") /\ UNCHANGED ort
     ELSE OrtVerdict(t, "failed")
  /\ UNCHANGED <<setup, disk, lib, archive, loaded, guard, pull, stales, faults>>

\* The archive is downloaded into a private staging directory.
FetchArchive(t) ==
  /\ pc[t] = "fetch"
  /\ \/ archive' = "good" /\ Move(t, "verify") /\ UNCHANGED <<ort, faults>>
     \/ Fault /\ archive' = "bad" /\ Move(t, "verify") /\ UNCHANGED ort
     \/ Fault /\ OrtVerdict(t, "failed") /\ UNCHANGED archive
  /\ UNCHANGED <<setup, disk, lib, loaded, guard, pull, stales>>

\* Fail closed on a hash that differs from the pinned one.
VerifyArchive(t) ==
  /\ pc[t] = "verify"
  /\ IF archive = "good" THEN Move(t, "copy") /\ UNCHANGED <<ort, archive>>
     ELSE OrtVerdict(t, "failed") /\ archive' = "none"
  /\ UNCHANGED <<setup, disk, lib, loaded, guard, pull, stales, faults>>

\* fs::copy straight onto the final path: a partial file first.
StartCopy(t) ==
  /\ pc[t] = "copy"
  /\ lib' = "partial"
  /\ Move(t, "copying")
  /\ UNCHANGED <<setup, disk, archive, ort, loaded, guard, pull, stales, faults>>

FinishCopy(t) ==
  /\ pc[t] = "copying"
  /\ lib' = IF archive = "good" THEN "whole" ELSE "foreign"
  /\ archive' = "none"
  /\ Move(t, "init")
  /\ UNCHANGED <<setup, disk, ort, loaded, guard, pull, stales, faults>>

\* init_from and commit; a library that is not whole cannot be opened.
InitOrt(t) ==
  /\ pc[t] = "init"
  /\ OrtVerdict(t, IF lib = "partial" THEN "failed" ELSE "ok")
  /\ UNCHANGED <<setup, disk, lib, archive, loaded, guard, pull, stales, faults>>

-----------------------------------------------------------------------------
(* Loading the files and running inference.                                *)

FindFiles(t) ==
  /\ pc[t] = "files"
  /\ IF ModelFilesExist THEN Move(t, "set_session") ELSE Return(t)
  /\ UNCHANGED <<setup, disk, library, loaded, guard, pull, stales, faults>>

\* The session and tokenizer are built first; either build may fail.
SetSession(t) ==
  /\ pc[t] = "set_session"
  /\ \/ /\ guard = Nobody
        /\ session' = TRUE
        /\ Move(t, "set_tokenizer")
        /\ UNCHANGED faults
     \/ Fault /\ Return(t) /\ UNCHANGED session
  /\ UNCHANGED <<setup, disk, library, tokenizer, tracker, guard,
                 pull, stales>>

\* The mutation: the tokenizer is parsed after the session is published.
SetTokenizerOrFail(t) ==
  /\ pc[t] = "set_tokenizer"
  /\ guard = Nobody
  /\ \/ tokenizer' = TRUE /\ Move(t, "touch") /\ UNCHANGED faults
     \/ Fault /\ Return(t) /\ UNCHANGED tokenizer
  /\ UNCHANGED <<setup, disk, library, session, tracker, guard, pull, stales>>

SetTokenizer(t) ==
  /\ pc[t] = "set_tokenizer"
  /\ guard = Nobody
  /\ tokenizer' = TRUE
  /\ Move(t, "touch")
  /\ UNCHANGED <<setup, disk, library, session, tracker, guard,
                 pull, stales, faults>>

Touch(t) ==
  /\ pc[t] = "touch"
  /\ tracker' = "fresh"
  /\ Move(t, "acquire")
  /\ UNCHANGED <<setup, disk, library, session, tokenizer, guard,
                 pull, stales, faults>>

\* The mutation: the reload is tried again and again.
AcquireOrReload(t) ==
  /\ pc[t] = "acquire"
  /\ guard = Nobody
  /\ \/ /\ session /\ tokenizer
        /\ guard' = t
        /\ Move(t, "infer")
     \/ /\ ~(session /\ tokenizer)
        /\ Move(t, "check")
        /\ UNCHANGED guard
  /\ UNCHANGED <<setup, disk, library, loaded, pull, stales, faults>>

\* Both locks are taken; a model gone meanwhile is reloaded once.
Acquire(t) ==
  /\ pc[t] = "acquire"
  /\ guard = Nobody
  /\ \/ /\ session /\ tokenizer
        /\ guard' = t
        /\ Move(t, "infer")
     \/ /\ ~(session /\ tokenizer) /\ ~again[t]
        /\ again' = [again EXCEPT ![t] = TRUE]
        /\ Goto(t, "check")
        /\ UNCHANGED <<guard, left, overlapped>>
     \/ /\ ~(session /\ tokenizer) /\ again[t]
        /\ Return(t)
        /\ UNCHANGED guard
  /\ UNCHANGED <<setup, disk, library, loaded, pull, stales, faults>>

\* One chunk; the next takes the locks again without another try_load.
Infer(t) ==
  /\ pc[t] = "infer"
  /\ guard' = Nobody
  /\ left' = [left EXCEPT ![t] = @ - 1]
  /\ again' = [again EXCEPT ![t] = FALSE]
  /\ Goto(t, IF left[t] = 1 THEN "idle" ELSE "acquire")
  /\ UNCHANGED <<setup, disk, library, loaded, overlapped, pull, stales, faults>>

-----------------------------------------------------------------------------
(* Downloads by other processes, time, and the death of the server.        *)

\* download_one and auto_download_models skip a model whose flat path exists.
StartPull(p) ==
  /\ pull[p] = "idle"
  /\ ~flat
  /\ pull' = [pull EXCEPT ![p] = "onnx"]
  /\ UNCHANGED <<setup, disk, library, loaded, guard, calls, stales, faults>>

\* The mutation: the link is made as soon as the model file is there.
PullFileAndLink(p) ==
  /\ pull[p] \in {"onnx", "tokenizer", "config"}
  /\ files' = files \cup {IF pull[p] = "onnx" THEN OnnxFilename(model.layout)
                          ELSE "tokenizer.json"}
  /\ flat' = TRUE
  /\ pull' = [pull EXCEPT ![p] = IF @ = "onnx" THEN "tokenizer" ELSE "unlink"]
  /\ UNCHANGED <<setup, library, loaded, guard, calls, stales, faults>>

\* download_model: the model file, the tokenizer, and config.json if it exists.
PullFile(p) ==
  /\ pull[p] \in {"onnx", "tokenizer", "config"}
  /\ LET file == CASE pull[p] = "onnx"      -> OnnxFilename(model.layout)
                   [] pull[p] = "tokenizer" -> "tokenizer.json"
                   [] pull[p] = "config"    -> "config.json"
         next == CASE pull[p] = "onnx"      -> "tokenizer"
                   [] pull[p] = "tokenizer" -> "config"
                   [] pull[p] = "config"    -> "unlink"
     IN \/ /\ files' = files \cup {file}
           /\ pull' = [pull EXCEPT ![p] = next]
           /\ UNCHANGED faults
        \/ /\ Fault
           /\ pull' = [pull EXCEPT ![p] = IF @ = "config" THEN next ELSE "idle"]
           /\ UNCHANGED files
  /\ UNCHANGED <<setup, flat, library, loaded, guard, calls, stales>>

\* The old link goes before the new one is made.
Unlink(p) ==
  /\ pull[p] = "unlink"
  /\ flat' = FALSE
  /\ pull' = [pull EXCEPT ![p] = "link"]
  /\ UNCHANGED <<setup, files, library, loaded, guard, calls, stales, faults>>

\* A link that another process made first is an error; the link stays.
Link(p) ==
  /\ pull[p] = "link"
  /\ flat' = TRUE
  /\ pull' = [pull EXCEPT ![p] = "idle"]
  /\ UNCHANGED <<setup, files, library, loaded, guard, calls, stales, faults>>

\* A process that indexes needs the library too and installs it the same way:
\* it looked for the file before it downloaded, and looks no more.
PeerInstall(p) ==
  /\ \/ /\ pull[p] = "idle" /\ ~LibExists /\ fetching
        /\ pull' = [pull EXCEPT ![p] = "lib_copy"]
        /\ UNCHANGED lib
     \/ /\ pull[p] = "lib_copy"
        /\ pull' = [pull EXCEPT ![p] = "lib_copying"]
        /\ lib' = "partial"
     \/ /\ pull[p] = "lib_copying"
        /\ pull' = [pull EXCEPT ![p] = "idle"]
        /\ lib' = "whole"
  /\ UNCHANGED <<setup, disk, archive, ort, loaded, guard, calls, stales, faults>>

\* A download is killed; hf-hub's finished files stay.
KillPull(p) ==
  /\ pull[p] # "idle"
  /\ Fault
  /\ pull' = [pull EXCEPT ![p] = "idle"]
  /\ UNCHANGED <<setup, disk, library, loaded, guard, calls, stales>>

\* The TTL passes without a touch.
GrowStale ==
  /\ tracker = "fresh"
  /\ stales < MaxStale
  /\ tracker' = "stale"
  /\ stales' = stales + 1
  /\ UNCHANGED <<setup, disk, library, session, tokenizer, guard,
                 calls, pull, faults>>

\* The server is killed and started again: memory is lost, the disk stays.
Restart ==
  /\ Fault
  /\ ort' = "unset" /\ archive' = "none"
  /\ session' = FALSE /\ tokenizer' = FALSE
  /\ tracker' = "never"
  /\ guard' = Nobody
  /\ pc' = [t \in Thread |-> "idle"]
  /\ left' = [t \in Thread |-> 0]
  /\ again' = [t \in Thread |-> FALSE]
  /\ overlapped' = FALSE
  /\ UNCHANGED <<setup, disk, lib, pull, stales>>

-----------------------------------------------------------------------------
Init ==
  /\ model \in Registry
  /\ \E f, c \in BOOLEAN : wanted = Configured(f, c)
  /\ fetching \in BOOLEAN
  /\ lib = "absent"
  /\ archive = "none"
  /\ files = {} /\ flat = FALSE
  /\ ort = "unset"
  /\ session = FALSE /\ tokenizer = FALSE
  /\ tracker = "never"
  /\ guard = Nobody
  /\ pc = [t \in Thread |-> "idle"]
  /\ left = [t \in Thread |-> 0]
  /\ again = [t \in Thread |-> FALSE]
  /\ overlapped = FALSE
  /\ pull = [p \in Puller |-> "idle"]
  /\ stales = 0 /\ faults = 0

\* Every step of a call after its start.
CallStep(t) ==
  \/ SeesSession(t) \/ SeesAge(t) \/ SeesConfigured(t)
  \/ DropSession(t) \/ DropTokenizer(t)
  \/ SeesMemory(t) \/ EnsureOrt(t) \/ FindLib(t) \/ FetchArchive(t)
  \/ VerifyArchive(t) \/ StartCopy(t) \/ FinishCopy(t) \/ InitOrt(t)
  \/ FindFiles(t) \/ SetSession(t) \/ SetTokenizer(t)
  \/ Touch(t) \/ Acquire(t) \/ Infer(t)

Next ==
  \/ \E t \in Thread : Call(t) \/ CallStep(t)
  \/ \E p \in Puller : \/ StartPull(p) \/ PullFile(p) \/ Unlink(p)
                       \/ Link(p) \/ PeerInstall(p) \/ KillPull(p)
  \/ GrowStale
  \/ Restart

Spec == Init /\ [][Next]_vars

\* A thread that runs is scheduled, and a mutex released over and over is
\* granted in the end; nothing is assumed of downloads or of new calls.
FairSpec == Spec /\ \A t \in Thread : SF_vars(CallStep(t))

-----------------------------------------------------------------------------
TypeOK ==
  /\ model \in Lookup
  /\ wanted \in BOOLEAN /\ fetching \in BOOLEAN
  /\ lib \in {"absent", "partial", "whole"}
  /\ archive \in {"none", "bad", "good"}
  /\ flat \in BOOLEAN
  /\ ort \in {"unset", "running", "ok", "failed"}
  /\ session \in BOOLEAN /\ tokenizer \in BOOLEAN
  /\ tracker \in {"never", "fresh", "stale"}
  /\ guard \in Thread \cup {Nobody}
  /\ pc \in [Thread -> Steps]
  /\ left \in [Thread -> 0 .. MaxChunks]
  /\ again \in [Thread -> BOOLEAN]
  /\ overlapped \in BOOLEAN
  /\ pull \in [Puller -> PullSteps]

\* A flat path is only ever linked to a directory the loader can load from:
\* is_model_cached looks at nothing but the path, and a model it takes for
\* cached is never downloaded again, whatever was killed or raced before.
LinkedIsLoadable == flat => ModelFilesExist

\* A model with a session and no tokenizer, which refuses every call until it
\* is idle (an NLI model until the server stops), takes two overlapping calls:
\* no failed load, killed download or expired TTL leaves one behind.
TornNeedsOverlap ==
  Torn /\ (\A t \in Thread : pc[t] = "idle") => overlapped

\* Every call ends, with vectors or a reason: reloading never waits for a lock
\* the caller still holds, and nobody waits forever on the initializer.
CallsEnd == \A t \in Thread : pc[t] # "idle" ~> pc[t] = "idle"
=============================================================================
