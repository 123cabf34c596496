------------------------- MODULE RepoServer_proofs -------------------------
(***************************************************************************)
(* Theorems about RepoServer, for any number of repositories and calls,    *)
(* any cache size, and any changes made by other processes.                *)
(***************************************************************************)
EXTENDS RepoServer, SequenceTheorems, FiniteSetTheorems, TLAPS

-----------------------------------------------------------------------------
(* The disk: a configuration's version and the number of database files    *)
(* only grow, and a database that is there is the newest.                  *)

IsSeq(s) == \E S : s \in Seq(S)

Disk ==
  /\ conf \in [Repo -> Nat] /\ file \in [Repo -> Nat]
  /\ db = [r \in Repo |-> db[r]]
  /\ \A r \in Repo : /\ IsSeq(db[r]) /\ Len(db[r]) \in Nat \ {0}
                     /\ file[r] \in {0, Len(db[r])}

Grows == \A r \in Repo : conf'[r] >= conf[r] /\ Len(db'[r]) >= Len(db[r])

LEMMA SeqLen ==
  ASSUME NEW s, IsSeq(s)
  PROVE  Len(s) \in Nat
  BY DEF IsSeq

LEMMA SeqAppend ==
  ASSUME NEW s, IsSeq(s), NEW x
  PROVE  IsSeq(Append(s, x)) /\ Len(Append(s, x)) = Len(s) + 1
<1>1. PICK S : s \in Seq(S)
  BY DEF IsSeq
<1>2. s \in Seq(S \cup {x}) /\ x \in S \cup {x}
  BY <1>1
<1>3. Append(s, x) \in Seq(S \cup {x}) /\ Len(Append(s, x)) = Len(s) + 1
  BY <1>2, AppendProperties
<1>. QED  BY <1>3 DEF IsSeq

Put(s, i, x) == [s EXCEPT ![i] = x]

LEMMA SeqPut ==
  ASSUME NEW s, IsSeq(s), NEW i, NEW x
  PROVE  IsSeq(Put(s, i, x)) /\ Len(Put(s, i, x)) = Len(s)
<1>. DEFINE t == Put(s, i, x)
<1>1. PICK S : s \in Seq(S)
  BY DEF IsSeq
<1>2. s \in Seq(S \cup {x}) /\ x \in S \cup {x}
  BY <1>1
<1>3. CASE i \in 1 .. Len(s)
  <2>1. t \in Seq(S \cup {x}) /\ Len(t) = Len(s)
    BY <1>2, <1>3, ExceptSeq DEF Put
  <2>. QED  BY <2>1 DEF IsSeq
<1>4. CASE i \notin 1 .. Len(s)
  <2>1. DOMAIN s = 1 .. Len(s) /\ s = [j \in DOMAIN s |-> s[j]]
    BY <1>1
  <2>2. t = s
    BY <1>4, <2>1 DEF Put
  <2>. QED  BY <2>2
<1>. QED  BY <1>3, <1>4

\* One database gets a new file, or one of its files new contents.
LEMMA DiskFile ==
  ASSUME Disk, NEW r, NEW s, db' = [db EXCEPT ![r] = s], UNCHANGED conf,
         r \in Repo => IsSeq(s) /\ Len(s) >= Len(db[r]),
         \/ UNCHANGED file /\ (r \in Repo => Len(s) = Len(db[r]))
         \/ file' = [file EXCEPT ![r] = Len(s)]
  PROVE  Disk' /\ Grows
<1>1. db' = [x \in Repo |-> db'[x]] /\ \A x \in Repo : db'[x] = IF x = r THEN s ELSE db[x]
  BY DEF Disk
<1>2. ASSUME NEW x \in Repo
      PROVE  IsSeq(db'[x]) /\ Len(db'[x]) \in Nat \ {0} /\ Len(db'[x]) >= Len(db[x])
  <2>1. IsSeq(db'[x]) /\ Len(db'[x]) >= Len(db[x]) /\ Len(db[x]) \in Nat \ {0}
    BY <1>1 DEF Disk
  <2>2. Len(db'[x]) \in Nat
    BY <2>1, SeqLen
  <2>. QED  BY <2>1, <2>2
<1>3. file' \in [Repo -> Nat] /\ \A x \in Repo : file'[x] \in {0, Len(db'[x])}
  <2>1. r \in Repo => Len(s) \in Nat
    BY SeqLen
  <2>. QED  BY <1>1, <2>1 DEF Disk
<1>4. conf' \in [Repo -> Nat] /\ \A x \in Repo : conf'[x] >= conf[x]
  BY DEF Disk
<1>. QED  BY <1>1, <1>2, <1>3, <1>4 DEF Disk, Grows

LEMMA DiskSame ==
  ASSUME Disk, UNCHANGED <<conf, db>>,
         UNCHANGED file \/ \E r \in Repo : file' = [file EXCEPT ![r] = 0]
  PROVE  Disk' /\ Grows
<1>1. file' \in [Repo -> Nat] /\ \A r \in Repo : file'[r] \in {0, Len(db[r])}
  BY DEF Disk
<1>2. \A r \in Repo : conf'[r] >= conf[r] /\ Len(db'[r]) >= Len(db[r])
  BY DEF Disk
<1>. QED  BY <1>1, <1>2 DEF Disk, Grows

LEMMA DiskNext ==
  ASSUME Disk, [Next]_vars
  PROVE  Disk' /\ Grows
<1>1. ASSUME NEW c \in Call, Resolve(c) PROVE UNCHANGED disk
  BY <1>1 DEF Resolve, Begin, Get, Stat, Touch, RemoveEntry, Unlist
<1>2. ASSUME NEW c \in Call, LoadConfig(c) \/ Publish(c) \/ List(c) \/ EvictIfOverCapacity(c)
      PROVE  UNCHANGED disk
  BY <1>2 DEF LoadConfig, Publish, List, EvictIfOverCapacity
<1>3. ASSUME NEW c \in Call, LockMutex(c) \/ LockFile(c) PROVE UNCHANGED disk
  BY <1>3 DEF LockMutex, LockFile
<1>4. ASSUME NEW c \in Call, Write(c) PROVE Disk' /\ Grows
  <2>1. CASE UNCHANGED disk
    BY <2>1, DiskSame DEF disk
  <2>2. ASSUME NEW e \in Knowledge, UNCHANGED <<conf, file>>,
               db' = [db EXCEPT ![call[c].repo][call[c].state.ino] = InsertEmbedding(@, e)]
        PROVE  Disk' /\ Grows
    <3>. DEFINE r == call[c].repo
                i == call[c].state.ino
                s == [db[r] EXCEPT ![i] = InsertEmbedding(db[r][i], e)]
    <3>1. db' = [db EXCEPT ![r] = s]
      BY <2>2
    <3>2. ASSUME r \in Repo PROVE IsSeq(s) /\ Len(s) = Len(db[r]) /\ Len(db[r]) \in Nat
      <4>. DEFINE x == InsertEmbedding(db[r][i], e)
                  q == db[r]
      <4>1. s = Put(q, i, x) /\ IsSeq(q) /\ Len(q) \in Nat
        BY <3>2 DEF Disk, Put
      <4>. HIDE DEF x, q, s
      <4>2. IsSeq(s) /\ Len(s) = Len(q)
        BY <4>1, SeqPut
      <4>. QED  BY <4>1, <4>2 DEF q
    <3>. HIDE DEF s, r
    <3>3. r \in Repo => IsSeq(s) /\ Len(s) >= Len(db[r]) /\ Len(s) = Len(db[r])
      BY <3>2
    <3>. QED  BY <2>2, <3>1, <3>3, DiskFile
  <2>. QED  BY <1>4, <2>1, <2>2 DEF Write, WriteRow, disk
<1>5. ASSUME NEW c \in Call, OpenStorage(c) PROVE Disk' /\ Grows
  <2>. DEFINE r     == call[c].repo
              fresh == file[r] = 0
              ino   == IF fresh THEN Len(db[r]) + 1 ELSE file[r]
              at(d) == IF fresh THEN Append(db[r], d) ELSE [db[r] EXCEPT ![ino] = d]
  <2>1. UNCHANGED conf /\ file' = [file EXCEPT ![r] = ino] /\ \E d : db' = [db EXCEPT ![r] = at(d)]
    BY <1>5 DEF OpenStorage
  <2>2. PICK d : db' = [db EXCEPT ![r] = at(d)]
    BY <2>1
  <2>3. CASE r \notin Repo
    <3>1. db' = db /\ file' = file
      BY <2>1, <2>2, <2>3 DEF Disk
    <3>. QED  BY <2>1, <3>1, DiskSame
  <2>4. CASE r \in Repo
    <3>1. IsSeq(db[r]) /\ Len(db[r]) \in Nat /\ file[r] \in {0, Len(db[r])}
      BY <2>4 DEF Disk
    <3>2. IsSeq(at(d)) /\ Len(at(d)) = ino /\ ino >= Len(db[r])
      <4>1. CASE fresh
        BY <3>1, <4>1, SeqAppend
      <4>2. CASE ~fresh
        <5>1. at(d) = Put(db[r], ino, d) /\ ino = Len(db[r])
          BY <3>1, <4>2 DEF Put
        <5>. HIDE DEF at, ino
        <5>2. IsSeq(at(d)) /\ Len(at(d)) = Len(db[r])
          BY <3>1, <5>1, SeqPut
        <5>. QED  BY <3>1, <5>1, <5>2
      <4>. QED  BY <4>1, <4>2
    <3>. HIDE DEF at, ino
    <3>. QED  BY <2>1, <2>2, <3>2, DiskFile
  <2>. QED  BY <2>3, <2>4
<1>6. ASSUME NEW r \in Repo, EditConfig(r) PROVE Disk' /\ Grows
  <2>1. conf' = [conf EXCEPT ![r] = @ + 1] /\ UNCHANGED <<file, db>>
    BY <1>6 DEF EditConfig
  <2>2. conf' \in [Repo -> Nat] /\ \A x \in Repo : conf'[x] >= conf[x]
    BY <2>1 DEF Disk
  <2>3. \A x \in Repo : Len(db'[x]) >= Len(db[x])
    BY <2>1 DEF Disk
  <2>. QED  BY <2>1, <2>2, <2>3 DEF Disk, Grows
<1>7. ASSUME NEW r \in Repo, Reset(r) PROVE Disk' /\ Grows
  BY <1>7, DiskSame DEF Reset
<1>8. ASSUME NEW r \in Repo, Index(r) PROVE Disk' /\ Grows
  <2>. DEFINE s == Append(db[r], MigrateInner(EmptyFile))
  <2>1. db' = [db EXCEPT ![r] = s] /\ file' = [file EXCEPT ![r] = Len(db'[r])] /\ UNCHANGED conf
    BY <1>8 DEF Index
  <2>2. db'[r] = s
    BY <2>1 DEF Disk
  <2>3. IsSeq(s) /\ Len(s) >= Len(db[r])
    BY SeqAppend DEF Disk
  <2>. HIDE DEF s
  <2>. QED  BY <2>1, <2>2, <2>3, DiskFile
<1>9. CASE Idle \/ UNCHANGED vars
  BY <1>9, DiskSame DEF Idle, vars, disk
<1>. QED  BY <1>1, <1>2, <1>3, <1>4, <1>5, <1>6, <1>7, <1>8, <1>9, DiskSame
          DEF Next, CallStep, OpenRepo, CanonicalWrite, disk

-----------------------------------------------------------------------------
(* The shape of what the calls and the cache hold.                         *)

\* A call that has begun carries five fields.
Locals(l) == DOMAIN l = {"pc", "repo", "state", "arg", "since"}

\* A repository state of a repository.
IsState(s, r) ==
  /\ s.storage \in Call /\ s.repo = r
  /\ s.conf \in Nat /\ s.mtime \in Nat /\ s.ident \in Nat /\ s.ino \in Nat \ {0}

\* The steps at which a call has one, those of a removal, and the others.
Stateful == {"stat", "touch", "list", "trim", "mutex", "flock", "write", "release"}
Removing == {"remove", "unlist"}
Steps    == Stateful \cup Removing \cup {"get", "config", "open", "stamp"}

Begun(l) ==
  /\ Locals(l)
  /\ l.pc \in Steps /\ l.repo \in Repo
  /\ l.since[1] \in Nat /\ l.since[2] \in Nat
  /\ l.pc \in Stateful => IsState(l.state, l.repo)
  /\ l.pc \in Removing =>
       /\ l.arg.next \in {"get", "failed", "trim"}
       /\ l.arg.next = "trim" => IsState(l.state, l.repo)
  /\ l.pc \in {"open", "stamp"} => l.state.conf \in Nat
  /\ l.pc = "stamp" => l.state.ino \in Nat \ {0}

Shape ==
  /\ call = [c \in Call |-> call[c]]
  /\ \A c \in Call : call[c] \in {[pc |-> "idle"], Over} \/ Begun(call[c])
  /\ repos = [r \in Repo |-> repos[r]]
  /\ \A r \in Repo : repos[r].kind = "ready" => IsState(repos[r].state, r)

\* The other calls keep their locals.
Others(c) == \A d \in Call : d # c => call'[d] = call[d]

LEMMA BegunAt ==
  ASSUME Shape, NEW c \in Call, call[c].pc \in Steps
  PROVE  Begun(call[c])
<1>1. CASE call[c] = [pc |-> "idle"]
  BY <1>1 DEF Steps, Stateful, Removing
<1>2. CASE call[c] = Over
  BY <1>2 DEF Steps, Stateful, Removing, Over
<1>. QED  BY <1>1, <1>2 DEF Shape

\* What a step leaves in the locals.
Went(l, s, a) == [l EXCEPT !.pc = s, !.arg = a]
Took(l, s, t) == [l EXCEPT !.pc = s, !.state = t]

LEMMA WentIs ==
  ASSUME NEW l, Locals(l), NEW s, NEW a
  PROVE  /\ Locals(Went(l, s, a)) /\ Went(l, s, a).pc = s /\ Went(l, s, a).arg = a
         /\ Went(l, s, a).repo = l.repo /\ Went(l, s, a).since = l.since
         /\ Went(l, s, a).state = l.state
  BY DEF Locals, Went

LEMMA TookIs ==
  ASSUME NEW l, Locals(l), NEW s, NEW t
  PROVE  /\ Locals(Took(l, s, t)) /\ Took(l, s, t).pc = s /\ Took(l, s, t).state = t
         /\ Took(l, s, t).repo = l.repo /\ Took(l, s, t).since = l.since
         /\ Took(l, s, t).arg = l.arg
  BY DEF Locals, Took

LEMMA GoIs ==
  ASSUME Shape, NEW c \in Call, call[c].pc \in Steps, NEW s, NEW a, Go(c, s, a)
  PROVE  /\ call' = [d \in Call |-> call'[d]] /\ Others(c)
         /\ Locals(call'[c]) /\ call'[c].pc = s /\ call'[c].arg = a
         /\ call'[c].state = call[c].state /\ call'[c].repo = call[c].repo
         /\ call'[c].since = call[c].since
<1>. DEFINE m == Went(call[c], s, a)
<1>1. call' = [call EXCEPT ![c] = m]
  BY DEF Go, Went
<1>2. Locals(call[c])
  BY BegunAt DEF Begun
<1>3. /\ Locals(m) /\ m.pc = s /\ m.repo = call[c].repo /\ m.since = call[c].since
      /\ m.arg = a /\ m.state = call[c].state
  BY <1>2, WentIs
<1>. HIDE DEF m
<1>4. call' = [d \in Call |-> call'[d]] /\ Others(c) /\ call'[c] = m
  BY <1>1 DEF Shape, Others
<1>. QED  BY <1>3, <1>4

LEMMA WithIs ==
  ASSUME Shape, NEW c \in Call, call[c].pc \in Steps, NEW s, NEW t, With(c, s, t)
  PROVE  /\ call' = [d \in Call |-> call'[d]] /\ Others(c)
         /\ Locals(call'[c]) /\ call'[c].pc = s /\ call'[c].state = t
         /\ call'[c].arg = call[c].arg /\ call'[c].repo = call[c].repo
         /\ call'[c].since = call[c].since
<1>. DEFINE m == Took(call[c], s, t)
<1>1. call' = [call EXCEPT ![c] = m]
  BY DEF With, Took
<1>2. Locals(call[c])
  BY BegunAt DEF Begun
<1>3. /\ Locals(m) /\ m.pc = s /\ m.repo = call[c].repo /\ m.since = call[c].since
      /\ m.arg = call[c].arg /\ m.state = t
  BY <1>2, TookIs
<1>. HIDE DEF m
<1>4. call' = [d \in Call |-> call'[d]] /\ Others(c) /\ call'[c] = m
  BY <1>1 DEF Shape, Others
<1>. QED  BY <1>3, <1>4

LEMMA ReturnIs ==
  ASSUME Shape, NEW c \in Call, Return(c)
  PROVE  call' = [d \in Call |-> call'[d]] /\ Others(c) /\ call'[c] = Over
  BY DEF Shape, Return, Others

-----------------------------------------------------------------------------
(* What a call works with is no older than what was there when it began.   *)

Own(l) == l.pc \in {"list", "trim"} \/ (l.pc \in Removing /\ l.arg.next = "trim")

Newer(l, cf, d) ==
  /\ l.since[1] <= cf[l.repo] /\ l.since[2] <= Len(d[l.repo])
  /\ l.pc \in {"open", "stamp"} \/ Own(l) => l.state.conf >= l.since[1]
  /\ l.pc = "stamp" \/ Own(l) => l.state.ino >= l.since[2]
  /\ l.pc \in {"touch", "mutex", "flock", "write", "release"} =>
       /\ l.state.conf >= l.since[1] \/ l.state.mtime # l.state.conf
       /\ l.state.ino >= l.since[2] \/ l.state.ident # l.state.ino

Sound == \A c \in Call : call[c].pc \in Steps => Newer(call[c], conf, db)

LEMMA NewerGrows ==
  ASSUME Disk, Disk', Grows, NEW l, Begun(l), Newer(l, conf, db)
  PROVE  Newer(l, conf', db')
<1>1. /\ conf[l.repo] \in Nat /\ conf'[l.repo] \in Nat /\ conf'[l.repo] >= conf[l.repo]
      /\ Len(db[l.repo]) \in Nat /\ Len(db'[l.repo]) \in Nat
      /\ Len(db'[l.repo]) >= Len(db[l.repo])
  BY DEF Begun, Disk, Grows
<1>2. l.since[1] \in Nat /\ l.since[2] \in Nat
  BY DEF Begun
<1>. QED  BY <1>1, <1>2 DEF Newer

\* A step of one call, which leaves the cache alone or changes one entry.
LEMMA StepCall ==
  ASSUME Disk, Disk', Grows, Shape, Sound, NEW c \in Call,
         call' = [d \in Call |-> call'[d]], Others(c),
         call'[c] = Over \/ (Begun(call'[c]) /\ Newer(call'[c], conf', db')),
         \/ UNCHANGED repos
         \/ \E r, e : /\ repos' = [repos EXCEPT ![r] = e]
                      /\ r \in Repo /\ e.kind = "ready" => IsState(e.state, r)
  PROVE  Shape' /\ Sound'
<1>1. \A d \in Call : call'[d] \in {[pc |-> "idle"], Over} \/ Begun(call'[d])
  BY DEF Shape, Others
<1>2. /\ repos' = [r \in Repo |-> repos'[r]]
      /\ \A r \in Repo : repos'[r].kind = "ready" => IsState(repos'[r].state, r)
  BY DEF Shape
<1>3. Over.pc \notin Steps
  BY DEF Over, Steps, Stateful, Removing
<1>4. ASSUME NEW d \in Call, call'[d].pc \in Steps
      PROVE  Newer(call'[d], conf', db')
  <2>1. CASE d = c
    BY <1>3, <1>4, <2>1
  <2>2. CASE d # c
    <3>1. call'[d] = call[d]
      BY <2>2 DEF Others
    <3>2. Begun(call[d]) /\ Newer(call[d], conf, db)
      BY <1>4, <3>1, BegunAt DEF Sound
    <3>. QED  BY <3>1, <3>2, NewerGrows
  <2>. QED  BY <2>1, <2>2
<1>. QED  BY <1>1, <1>2, <1>4 DEF Shape, Sound

LEMMA SameCalls ==
  ASSUME Disk, Disk', Grows, Shape, Sound, UNCHANGED <<call, repos>>
  PROVE  Shape' /\ Sound'
<1>1. ASSUME NEW d \in Call, call'[d].pc \in Steps
      PROVE  Newer(call'[d], conf', db')
  BY <1>1, BegunAt, NewerGrows DEF Sound
<1>. QED  BY <1>1 DEF Shape, Sound

\* What holds of a call at a step.
LEMMA HereIs ==
  ASSUME Shape, Sound, NEW c \in Call, NEW s \in Steps, At(c, s)
  PROVE  call[c].pc = s /\ Begun(call[c]) /\ Newer(call[c], conf, db)
  BY BegunAt DEF At, Sound

LEMMA StepBegin ==
  ASSUME Disk, Disk', Grows, Shape, Sound, NEW c \in Call, Begin(c)
  PROVE  Shape' /\ Sound'
<1>1. PICK r \in Repo : call' = [call EXCEPT ![c] = [pc |-> "get", repo |-> r, state |-> NoState,
                                    arg |-> <<>>, since |-> <<conf[r], file[r]>>]]
  BY DEF Begin
<1>2. UNCHANGED <<conf, db, repos>>
  BY DEF Begin, disk, cache
<1>. DEFINE m == [pc |-> "get", repo |-> r, state |-> NoState,
                  arg |-> <<>>, since |-> <<conf[r], file[r]>>]
<1>3. /\ Locals(m) /\ m.pc = "get" /\ m.repo = r /\ m.since[1] = conf[r] /\ m.since[2] = file[r]
  BY DEF Locals
<1>. HIDE DEF m
<1>4. call' = [d \in Call |-> call'[d]] /\ Others(c) /\ call'[c] = m
  BY <1>1 DEF Shape, Others, m
<1>5. /\ conf[r] \in Nat /\ file[r] \in Nat /\ file[r] \in {0, Len(db[r])} /\ Len(db[r]) \in Nat
  BY DEF Disk
<1>6. Begun(m)
  BY <1>3, <1>5 DEF Begun, Steps, Stateful, Removing
<1>7. Newer(m, conf', db')
  BY <1>2, <1>3, <1>5 DEF Newer, Own, Removing
<1>. QED  BY <1>2, <1>4, <1>6, <1>7, StepCall

LEMMA StepGet ==
  ASSUME Disk, Disk', Grows, Shape, Sound, NEW c \in Call, Get(c)
  PROVE  Shape' /\ Sound'
<1>. DEFINE r == call[c].repo
<1>1. At(c, "get") /\ UNCHANGED <<conf, db>>
  BY DEF Get, disk
<1>2. call[c].pc = "get" /\ Begun(call[c]) /\ Newer(call[c], conf, db)
  BY <1>1, HereIs DEF Steps
<1>3. r \in Repo
  BY <1>2 DEF Begun
<1>. DEFINE m == call'[c]
<1>4. CASE repos[r].kind = "ready" /\ With(c, "stat", repos[r].state) /\ UNCHANGED repos
  <2>1. /\ call' = [d \in Call |-> call'[d]] /\ Others(c)
        /\ Locals(m) /\ m.pc = "stat" /\ m.state = repos[r].state
        /\ m.repo = r /\ m.since = call[c].since
    BY <1>2, <1>4, WithIs DEF Begun
  <2>. HIDE DEF m, r
  <2>2. IsState(m.state, m.repo)
    BY <1>3, <1>4, <2>1 DEF Shape
  <2>3. Begun(m) /\ Newer(m, conf', db')
    BY <1>1, <1>2, <1>3, <2>1, <2>2 DEF Begun, Newer, Own, Steps, Stateful, Removing, r
  <2>. QED  BY <1>4, <2>1, <2>3, StepCall DEF m
<1>5. CASE repos' = [repos EXCEPT ![r] = Opening(c)] /\ Goto(c, "config")
  <2>1. /\ call' = [d \in Call |-> call'[d]] /\ Others(c)
        /\ Locals(m) /\ m.pc = "config"
        /\ m.repo = r /\ m.since = call[c].since
    BY <1>2, <1>5, GoIs DEF Begun, Goto
  <2>. DEFINE e == Opening(c)
  <2>2. e.kind # "ready"
    BY DEF Opening
  <2>. HIDE DEF m, r, e
  <2>3. Begun(m) /\ Newer(m, conf', db')
    BY <1>1, <1>2, <1>3, <2>1 DEF Begun, Newer, Own, Steps, Stateful, Removing, r
  <2>4. \E x, y : repos' = [repos EXCEPT ![x] = y]
                  /\ (x \in Repo /\ y.kind = "ready" => IsState(y.state, x))
    BY <1>5, <2>2 DEF e
  <2>. QED  BY <2>1, <2>3, <2>4, StepCall DEF m
<1>. QED  BY <1>4, <1>5 DEF Get

\* A call goes on with the state it has, if it has one.
LEMMA StepGo ==
  ASSUME Disk, Disk', Grows, Shape, Sound, NEW c \in Call, NEW s \in Steps, NEW a, Go(c, s, a),
         call[c].pc \in Steps, UNCHANGED <<conf, db>>,
         UNCHANGED repos \/ \E r : repos' = [repos EXCEPT ![r] = Missing],
         s \in {"get", "config"} \cup Removing \/ call[c].pc \in Stateful \/ Own(call[c]),
         s \in Removing => /\ a.next \in {"get", "failed", "trim"}
                           /\ a.next = "trim" => Own(call[c]),
         s \in {"list", "trim"} => Own(call[c]),
         s # "open" /\ s # "stamp",
         s \in {"mutex", "flock", "write", "release", "touch"} =>
           \/ Own(call[c]) \/ call[c].pc \in {"touch", "mutex", "flock", "write", "release"}
           \/ /\ call[c].state.conf >= call[c].since[1]
                 \/ call[c].state.mtime # call[c].state.conf
              /\ call[c].state.ino >= call[c].since[2]
                 \/ call[c].state.ident # call[c].state.ino
  PROVE  Shape' /\ Sound'
<1>. DEFINE m == call'[c]
            l == call[c]
<1>1. /\ call' = [d \in Call |-> call'[d]] /\ Others(c)
      /\ Locals(m) /\ m.pc = s /\ m.arg = a /\ m.state = l.state
      /\ m.repo = l.repo /\ m.since = l.since
  BY GoIs
<1>2. Begun(l) /\ Newer(l, conf, db)
  BY BegunAt DEF Sound
<1>3. Own(l) \/ l.pc \in Stateful => IsState(l.state, l.repo)
  BY <1>2 DEF Begun, Own, Stateful, Removing
<1>. HIDE DEF m, l
<1>4. s \in Stateful \/ (s \in Removing /\ a.next = "trim") => IsState(m.state, m.repo)
  BY <1>1, <1>3 DEF l, Stateful, Removing
<1>5. Begun(m)
  BY <1>1, <1>2, <1>4 DEF Begun, Stateful, Removing
<1>6. Newer(m, conf', db')
  <2>1. m.since[1] <= conf'[m.repo] /\ m.since[2] <= Len(db'[m.repo])
    BY <1>1, <1>2 DEF Newer
  <2>2. Own(l) => l.state.conf >= l.since[1] /\ l.state.ino >= l.since[2]
    BY <1>2 DEF Newer
  <2>3. Own(m) => Own(l)
    BY <1>1 DEF Own, Removing, l
  <2>4. l.pc \in {"touch", "mutex", "flock", "write", "release"} =>
          /\ l.state.conf >= l.since[1] \/ l.state.mtime # l.state.conf
          /\ l.state.ino >= l.since[2] \/ l.state.ident # l.state.ino
    BY <1>2 DEF Newer
  <2>. QED  BY <1>1, <2>1, <2>2, <2>3, <2>4 DEF Newer, l
<1>7. UNCHANGED repos \/ \E x, y : repos' = [repos EXCEPT ![x] = y]
                  /\ (x \in Repo /\ y.kind = "ready" => IsState(y.state, x))
  <2>1. Missing.kind # "ready"
    BY DEF Missing
  <2>. QED  BY <2>1
<1>. QED  BY <1>1, <1>5, <1>6, <1>7, StepCall DEF m

LEMMA StepEnd ==
  ASSUME Disk, Disk', Grows, Shape, Sound, NEW c \in Call, Return(c), UNCHANGED repos
  PROVE  Shape' /\ Sound'
  BY ReturnIs, StepCall

LEMMA StepCache ==
  ASSUME Disk, Disk', Grows, Shape, Sound, NEW c \in Call,
         Stat(c) \/ Touch(c) \/ RemoveEntry(c) \/ Unlist(c) \/ List(c) \/ EvictIfOverCapacity(c)
  PROVE  Shape' /\ Sound'
<1>. USE DEF Steps, Stateful, Removing
<1>1. UNCHANGED <<conf, db>>
  BY DEF Stat, Touch, RemoveEntry, Unlist, List, EvictIfOverCapacity, disk
<1>2. CASE Stat(c)
  <2>1. call[c].pc = "stat" /\ Begun(call[c]) /\ Newer(call[c], conf, db) /\ UNCHANGED repos
    BY <1>2, HereIs DEF Stat, cache
  <2>2. CASE StillCurrent(call[c].state) /\ Goto(c, "touch")
    <3>. DEFINE s == call[c].state
                l == call[c]
    <3>1. /\ IsState(s, l.repo) /\ l.repo \in Repo /\ l.since[1] \in Nat /\ l.since[2] \in Nat
          /\ l.since[1] <= conf[l.repo] /\ l.since[2] <= Len(db[l.repo])
      BY <2>1 DEF Begun, Newer
    <3>2. conf[l.repo] = s.mtime /\ (s.ident # 0 => file[l.repo] = s.ident)
      BY <2>2, <3>1 DEF StillCurrent, IsState
    <3>3. file[l.repo] \in {0, Len(db[l.repo])}
      BY <3>1 DEF Disk
    <3>4. s.conf >= l.since[1] \/ s.mtime # s.conf
      BY <3>1, <3>2 DEF IsState
    <3>5. s.ino >= l.since[2] \/ s.ident # s.ino
      BY <3>1, <3>2, <3>3 DEF IsState
    <3>. QED  BY <1>1, <2>1, <2>2, <3>4, <3>5, StepGo DEF Goto
  <2>3. CASE GoRemove(c, call[c].repo, "get")
    <3>. DEFINE a == [target |-> call[c].repo, next |-> "get"]
    <3>1. Go(c, "remove", a) /\ a.next = "get"
      BY <2>3 DEF GoRemove
    <3>. HIDE DEF a
    <3>. QED  BY <1>1, <2>1, <3>1, StepGo
  <2>. QED  BY <1>2, <2>2, <2>3 DEF Stat
<1>3. CASE Touch(c)
  <2>1. call[c].pc = "touch" /\ UNCHANGED repos /\ Go(c, "mutex", <<>>)
    BY <1>3 DEF Touch, At, Goto
  <2>. QED  BY <1>1, <2>1, StepGo
<1>4. CASE RemoveEntry(c)
  <2>1. /\ call[c].pc = "remove" /\ Go(c, "unlist", call[c].arg)
        /\ \E r : repos' = [repos EXCEPT ![r] = Missing]
    BY <1>4 DEF RemoveEntry, At
  <2>2. Begun(call[c])
    BY <2>1, BegunAt
  <2>3. /\ call[c].arg.next \in {"get", "failed", "trim"}
        /\ call[c].arg.next = "trim" => Own(call[c])
    BY <2>1, <2>2 DEF Begun, Own
  <2>. QED  BY <1>1, <2>1, <2>3, StepGo
<1>5. CASE Unlist(c)
  <2>1. call[c].pc = "unlist" /\ UNCHANGED repos
    BY <1>5 DEF Unlist, At
  <2>2. Begun(call[c])
    BY <2>1, BegunAt
  <2>3. call[c].arg.next \in {"get", "failed", "trim"}
    BY <2>1, <2>2 DEF Begun
  <2>4. CASE call[c].arg.next = "failed"
    BY <1>5, <2>1, <2>4, StepEnd DEF Unlist
  <2>5. CASE call[c].arg.next = "get"
    <3>1. Go(c, "get", <<>>)
      BY <1>5, <2>5 DEF Unlist, Goto
    <3>. QED  BY <1>1, <2>1, <3>1, StepGo
  <2>6. CASE call[c].arg.next = "trim"
    <3>1. Go(c, "trim", <<>>) /\ Own(call[c])
      BY <1>5, <2>1, <2>6 DEF Unlist, Goto, Own
    <3>. QED  BY <1>1, <2>1, <3>1, StepGo
  <2>. QED  BY <2>3, <2>4, <2>5, <2>6
<1>6. CASE List(c)
  <2>1. call[c].pc = "list" /\ UNCHANGED repos /\ Go(c, "trim", <<>>) /\ Own(call[c])
    BY <1>6 DEF List, At, Goto, Own
  <2>. QED  BY <1>1, <2>1, StepGo
<1>7. CASE EvictIfOverCapacity(c)
  <2>1. call[c].pc = "trim" /\ UNCHANGED repos /\ Own(call[c])
    BY <1>7 DEF EvictIfOverCapacity, At, cache, Own
  <2>2. \/ Goto(c, "mutex")
        \/ \E r : GoRemove(c, r, "trim")
    BY <1>7 DEF EvictIfOverCapacity
  <2>3. CASE Goto(c, "mutex")
    BY <1>1, <2>1, <2>3, StepGo DEF Goto
  <2>4. ASSUME NEW r, GoRemove(c, r, "trim") PROVE Shape' /\ Sound'
    <3>. DEFINE a == [target |-> r, next |-> "trim"]
    <3>1. Go(c, "remove", a) /\ a.next = "trim"
      BY <2>4 DEF GoRemove
    <3>. HIDE DEF a
    <3>. QED  BY <1>1, <2>1, <3>1, StepGo
  <2>. QED  BY <2>2, <2>3, <2>4
<1>. QED  BY <1>2, <1>3, <1>4, <1>5, <1>6, <1>7

\* A failed open: the entry is to go, and the call returns after it.
LEMMA StepFail ==
  ASSUME Disk, Disk', Grows, Shape, Sound, NEW c \in Call, NEW r, GoRemove(c, r, "failed"),
         call[c].pc \in Steps, UNCHANGED repos
  PROVE  Shape' /\ Sound'
<1>. DEFINE m == call'[c]
            a == [target |-> r, next |-> "failed"]
<1>1. Go(c, "remove", a) /\ a.next = "failed"
  BY DEF GoRemove
<1>. HIDE DEF a
<1>2. /\ call' = [d \in Call |-> call'[d]] /\ Others(c)
      /\ Locals(m) /\ m.pc = "remove" /\ m.arg.next = "failed"
      /\ m.repo = call[c].repo /\ m.since = call[c].since
  BY <1>1, GoIs
<1>3. Begun(call[c]) /\ Newer(call[c], conf', db')
  BY BegunAt, NewerGrows DEF Sound
<1>. HIDE DEF m
<1>4. Begun(m)
  BY <1>2, <1>3 DEF Begun, Steps, Stateful, Removing
<1>5. Newer(m, conf', db')
  BY <1>2, <1>3 DEF Newer, Own
<1>. QED  BY <1>2, <1>4, <1>5, StepCall DEF m

LEMMA StepLoad ==
  ASSUME Disk, Disk', Grows, Shape, Sound, NEW c \in Call, LoadConfig(c)
  PROVE  Shape' /\ Sound'
<1>. DEFINE l == call[c]
            m == call'[c]
            t == [conf |-> conf[l.repo]]
<1>1. l.pc = "config" /\ Begun(l) /\ Newer(l, conf, db) /\ UNCHANGED <<conf, db, repos>>
  BY HereIs DEF LoadConfig, cache, disk, Steps
<1>2. l.pc \in Steps
  BY <1>1 DEF Begun
<1>3. (\E r : GoRemove(c, r, "failed")) \/ With(c, "open", t)
  BY DEF LoadConfig
<1>4. CASE With(c, "open", t)
  <2>1. t.conf = conf[l.repo]
    OBVIOUS
  <2>2. /\ call' = [d \in Call |-> call'[d]] /\ Others(c)
        /\ Locals(m) /\ m.pc = "open" /\ m.state = t
        /\ m.repo = l.repo /\ m.since = l.since
    BY <1>2, <1>4, WithIs
  <2>. HIDE DEF t, m
  <2>3. l.repo \in Repo /\ conf[l.repo] \in Nat /\ l.since[1] \in Nat /\ l.since[2] \in Nat
        /\ l.since[1] <= conf[l.repo] /\ l.since[2] <= Len(db[l.repo])
    BY <1>1 DEF Begun, Disk, Newer
  <2>. HIDE DEF l
  <2>4. Begun(m)
    BY <2>1, <2>2, <2>3 DEF Begun, Steps, Stateful, Removing
  <2>5. Newer(m, conf', db')
    BY <1>1, <2>1, <2>2, <2>3 DEF Newer, Own, Removing
  <2>. QED  BY <1>1, <2>2, <2>4, <2>5, StepCall DEF m
<1>5. ASSUME NEW r, GoRemove(c, r, "failed") PROVE Shape' /\ Sound'
  BY <1>1, <1>2, <1>5, StepFail
<1>. QED  BY <1>3, <1>4, <1>5

LEMMA StepOpen ==
  ASSUME Disk, Disk', Grows, Shape, Sound, NEW c \in Call, OpenStorage(c)
  PROVE  Shape' /\ Sound'
<1>. DEFINE l   == call[c]
            m   == call'[c]
            ino == IF file[l.repo] = 0 THEN Len(db[l.repo]) + 1 ELSE file[l.repo]
            t   == [conf |-> l.state.conf, ino |-> ino]
<1>1. l.pc = "open" /\ Begun(l) /\ Newer(l, conf, db) /\ UNCHANGED repos
  BY HereIs DEF OpenStorage, cache, Steps
<1>2. l.pc \in Steps
  BY <1>1 DEF Begun
<1>3. (\E r : GoRemove(c, r, "failed")) \/ With(c, "stamp", t)
  BY DEF OpenStorage
<1>4. CASE With(c, "stamp", t)
  <2>1. t.conf = l.state.conf /\ t.ino = ino
    OBVIOUS
  <2>2. /\ call' = [d \in Call |-> call'[d]] /\ Others(c)
        /\ Locals(m) /\ m.pc = "stamp" /\ m.state = t
        /\ m.repo = l.repo /\ m.since = l.since
    BY <1>2, <1>4, WithIs
  <2>3. /\ l.repo \in Repo /\ l.since[1] \in Nat /\ l.since[2] \in Nat
        /\ l.since[2] <= Len(db[l.repo]) /\ l.state.conf \in Nat /\ l.state.conf >= l.since[1]
    BY <1>1 DEF Begun, Newer
  <2>4. Len(db[l.repo]) \in Nat /\ file[l.repo] \in {0, Len(db[l.repo])}
    BY <2>3 DEF Disk
  <2>5. ino \in Nat \ {0} /\ ino >= l.since[2]
    BY <2>3, <2>4
  <2>6. Newer(l, conf', db')
    BY <1>1, NewerGrows
  <2>7. l.since[1] <= conf'[l.repo] /\ l.since[2] <= Len(db'[l.repo])
    BY <2>6 DEF Newer
  <2>. HIDE DEF t, m, l, ino
  <2>8. Begun(m)
    BY <2>1, <2>2, <2>3, <2>5 DEF Begun, Steps, Stateful, Removing
  <2>9. Newer(m, conf', db')
    BY <2>1, <2>2, <2>3, <2>5, <2>7 DEF Newer, Own, Removing
  <2>. QED  BY <1>1, <2>2, <2>8, <2>9, StepCall DEF m
<1>5. ASSUME NEW r, GoRemove(c, r, "failed") PROVE Shape' /\ Sound'
  BY <1>1, <1>2, <1>5, StepFail
<1>. QED  BY <1>3, <1>4, <1>5

LEMMA StepPublish ==
  ASSUME Disk, Disk', Grows, Shape, Sound, NEW c \in Call, Publish(c)
  PROVE  Shape' /\ Sound'
<1>. DEFINE l == call[c]
            m == call'[c]
            t == [storage |-> c, repo |-> l.repo, conf |-> l.state.conf,
                  ino |-> l.state.ino, mtime |-> conf[l.repo], ident |-> file[l.repo]]
<1>1. l.pc = "stamp" /\ Begun(l) /\ Newer(l, conf, db) /\ UNCHANGED <<conf, db>>
  BY HereIs DEF Publish, disk, Steps
<1>2. l.pc \in Steps
  BY <1>1 DEF Begun
<1>3. repos' = [repos EXCEPT ![l.repo] = Ready(t)] /\ With(c, "list", t)
  BY DEF Publish
<1>4. /\ call' = [d \in Call |-> call'[d]] /\ Others(c)
      /\ Locals(m) /\ m.pc = "list" /\ m.state = t
      /\ m.repo = l.repo /\ m.since = l.since
  BY <1>2, <1>3, WithIs
<1>5. /\ t.storage = c /\ t.repo = l.repo /\ t.conf = l.state.conf /\ t.ino = l.state.ino
      /\ t.mtime = conf[l.repo] /\ t.ident = file[l.repo]
  OBVIOUS
<1>6. /\ l.repo \in Repo /\ l.state.conf \in Nat /\ l.state.ino \in Nat \ {0}
      /\ l.since[1] \in Nat /\ l.since[2] \in Nat
  BY <1>1 DEF Begun
<1>7. /\ l.since[1] <= conf[l.repo] /\ l.since[2] <= Len(db[l.repo])
      /\ l.state.conf >= l.since[1] /\ l.state.ino >= l.since[2]
  BY <1>1 DEF Newer
<1>8. conf[l.repo] \in Nat /\ file[l.repo] \in Nat
  BY <1>6 DEF Disk
<1>. DEFINE e == Ready(t)
<1>9. e.state = t
  BY DEF Ready
<1>. HIDE DEF t, m, l, e
<1>10. IsState(t, l.repo)
  BY <1>5, <1>6, <1>8 DEF IsState
<1>11. Begun(m)
  BY <1>4, <1>6, <1>10 DEF Begun, Steps, Stateful, Removing
<1>12. Newer(m, conf', db')
  BY <1>1, <1>4, <1>5, <1>7 DEF Newer, Own
<1>13. \E x, y : repos' = [repos EXCEPT ![x] = y]
                 /\ (x \in Repo /\ y.kind = "ready" => IsState(y.state, x))
  BY <1>3, <1>9, <1>10 DEF e
<1>. QED  BY <1>4, <1>11, <1>12, <1>13, StepCall DEF m

LEMMA StepLock ==
  ASSUME Disk, Disk', Grows, Shape, Sound, NEW c \in Call, LockMutex(c) \/ LockFile(c)
  PROVE  Shape' /\ Sound'
<1>1. UNCHANGED <<conf, db, repos>> /\ call[c].pc \in {"mutex", "flock"}
  BY DEF LockMutex, LockFile, disk, cache, At
<1>2. Return(c) \/ Go(c, "flock", <<>>) \/ Go(c, "write", <<>>)
  BY DEF LockMutex, LockFile, Goto
<1>3. call[c].pc \in Steps /\ "flock" \in Steps /\ "write" \in Steps
  BY <1>1 DEF Steps, Stateful
<1>4. call[c].pc \in Stateful /\ "flock" \notin Removing /\ "write" \notin Removing
  BY <1>1 DEF Stateful, Removing
<1>. QED  BY <1>1, <1>2, <1>3, <1>4, StepEnd, StepGo

LEMMA StepWrite ==
  ASSUME Disk, Disk', Grows, Shape, Sound, NEW c \in Call, Write(c)
  PROVE  Shape' /\ Sound'
<1>1. UNCHANGED <<conf, repos>> /\ call[c].pc \in {"write", "release"}
  BY DEF Write, disk, cache, At
<1>2. CASE Return(c)
  BY <1>1, <1>2, StepEnd
<1>3. CASE Go(c, "release", <<>>) /\ call[c].pc = "write"
  <2>. DEFINE l == call[c]
              m == call'[c]
  <2>1. l.pc \in Steps
    BY <1>3 DEF Steps, Stateful
  <2>2. Begun(l) /\ Newer(l, conf', db')
    BY <2>1, BegunAt, NewerGrows DEF Sound
  <2>3. /\ call' = [d \in Call |-> call'[d]] /\ Others(c)
        /\ Locals(m) /\ m.pc = "release" /\ m.state = l.state
        /\ m.repo = l.repo /\ m.since = l.since
    BY <1>3, <2>1, GoIs
  <2>4. l.pc = "write"
    BY <1>3
  <2>. HIDE DEF m, l
  <2>5. Begun(m) /\ Newer(m, conf', db')
    BY <2>2, <2>3, <2>4 DEF Begun, Newer, Own, Steps, Stateful, Removing
  <2>. QED  BY <1>1, <2>3, <2>5, StepCall DEF m
<1>. QED  BY <1>2, <1>3 DEF Write, Goto, At

LEMMA StepNext ==
  ASSUME Disk, Shape, Sound, [Next]_vars
  PROVE  Disk' /\ Shape' /\ Sound'
<1>1. Disk' /\ Grows
  BY DiskNext
<1>2. ASSUME NEW c \in Call, CallStep(c) PROVE Shape' /\ Sound'
  BY <1>1, <1>2, StepBegin, StepGet, StepCache, StepLoad, StepOpen, StepPublish, StepLock,
     StepWrite DEF CallStep, Resolve, OpenRepo, CanonicalWrite
<1>3. ASSUME NEW r \in Repo, EditConfig(r) \/ Reset(r) \/ Index(r) PROVE Shape' /\ Sound'
  <2>1. UNCHANGED <<call, repos>>
    BY <1>3 DEF EditConfig, Reset, Index, cache
  <2>. QED  BY <1>1, <2>1, SameCalls
<1>4. CASE Idle \/ UNCHANGED vars
  <2>1. UNCHANGED <<call, repos>>
    BY <1>4 DEF Idle, vars, cache
  <2>. QED  BY <1>1, <2>1, SameCalls
<1>. QED  BY <1>1, <1>2, <1>3, <1>4 DEF Next

LEMMA StepInit == Init => Disk /\ Shape /\ Sound
<1>. SUFFICES ASSUME Init PROVE Disk /\ Shape /\ Sound
  OBVIOUS
<1>1. Disk
  <2>. DEFINE s == <<Legacy(Version, Entity)>>
  <2>1. IsSeq(s) /\ Len(s) = 1
    <3>1. s \in Seq({Legacy(Version, Entity)})
      OBVIOUS
    <3>. QED  BY <3>1 DEF IsSeq
  <2>2. db = [r \in Repo |-> s] /\ conf = [r \in Repo |-> 1] /\ file = [r \in Repo |-> 1]
    BY DEF Init
  <2>. HIDE DEF s
  <2>3. db = [r \in Repo |-> db[r]] /\ \A r \in Repo : db[r] = s
    BY <2>2
  <2>4. ASSUME NEW r \in Repo
        PROVE  IsSeq(db[r]) /\ Len(db[r]) \in Nat \ {0} /\ file[r] \in {0, Len(db[r])}
    <3>1. db[r] = s
      BY <2>3
    <3>2. file[r] = 1
      BY <2>2
    <3>3. IsSeq(db[r]) /\ Len(db[r]) = 1
      BY <2>1, <3>1
    <3>. QED  BY <3>2, <3>3
  <2>5. conf \in [Repo -> Nat] /\ file \in [Repo -> Nat]
    BY <2>2
  <2>. QED  BY <2>3, <2>4, <2>5 DEF Disk
<1>2. call = [c \in Call |-> [pc |-> "idle"]] /\ repos = [r \in Repo |-> Missing]
  BY DEF Init
<1>3. Missing.kind # "ready" /\ "idle" \notin Steps
  BY DEF Missing, Steps, Stateful, Removing
<1>. QED  BY <1>1, <1>2, <1>3 DEF Shape, Sound

(***************************************************************************)
(* A tool call works on a configuration and a database no older than those *)
(* in place when it began, or its state was stamped with something newer   *)
(* than it had opened (RepoCache::get, repo_cache.rs:156).  A version only *)
(* grows and a database that is there is the newest, so a hit whose stamps *)
(* match is current, and a state just opened was read after the call began.*)
(***************************************************************************)
THEOREM StaleStatesExplained == Spec => []StaleStateHasCause
<1>1. Shape /\ Sound => StaleStateHasCause
  <2>. SUFFICES ASSUME Shape, Sound, NEW c \in Call, Using(c)
                PROVE  /\ \/ call[c].state.conf >= call[c].since[1]
                          \/ call[c].state.mtime # call[c].state.conf
                       /\ \/ call[c].state.ino >= call[c].since[2]
                          \/ call[c].state.ident # call[c].state.ino
    BY DEF StaleStateHasCause
  <2>1. call[c].pc \in {"mutex", "flock", "write", "release"}
    BY DEF Using
  <2>2. call[c].pc \in Steps
    BY <2>1 DEF Steps, Stateful
  <2>. QED  BY <2>1, <2>2 DEF Sound, Newer
<1>. QED  BY <1>1, StepInit, StepNext, PTL DEF Spec

-----------------------------------------------------------------------------
(* The two levels of the file lock.                                        *)

Locked == {"flock", "write", "release"}

Locks ==
  /\ mutex \in [Call -> Call \cup {Nobody}] /\ flock \in [Repo -> Call \cup {Nobody}]
  /\ \A c \in Call : call[c].pc \in Locked => mutex[Storage(c)] = c
  /\ \A c \in Call : call[c].pc = "write" => flock[call[c].repo] = Storage(c)

\* A step of one call that touches no lock and does not come to hold one.
LEMMA LocksCall ==
  ASSUME Locks, NEW c \in Call, Others(c), UNCHANGED locks, call'[c].pc \notin Locked
  PROVE  Locks'
  BY DEF Locks, locks, Others, Storage, Locked

LEMMA LocksGo ==
  ASSUME Shape, Locks, NEW c \in Call, call[c].pc \in Steps, UNCHANGED locks, NEW s, s \notin Locked
  PROVE  /\ \A a : Go(c, s, a) => Locks'
         /\ \A t : With(c, s, t) => Locks'
<1>1. ASSUME NEW a, Go(c, s, a) PROVE Locks'
  <2>1. Others(c) /\ call'[c].pc = s
    BY <1>1, GoIs
  <2>. QED  BY <2>1, LocksCall
<1>2. ASSUME NEW t, With(c, s, t) PROVE Locks'
  <2>1. Others(c) /\ call'[c].pc = s
    BY <1>2, WithIs
  <2>. QED  BY <2>1, LocksCall
<1>. QED  BY <1>1, <1>2

LEMMA LocksResolve ==
  ASSUME Shape, Locks, NEW c \in Call, Resolve(c) \/ OpenRepo(c)
  PROVE  Locks'
<1>. USE DEF Locked
<1>1. UNCHANGED locks
  BY DEF Resolve, OpenRepo, Begin, Get, Stat, Touch, RemoveEntry, Unlist,
         LoadConfig, OpenStorage, Publish, List, EvictIfOverCapacity
<1>2. CASE Begin(c)
  <2>1. PICK r \in Repo : call' = [call EXCEPT ![c] = [pc |-> "get", repo |-> r, state |-> NoState,
                                      arg |-> <<>>, since |-> <<conf[r], file[r]>>]]
    BY <1>2 DEF Begin
  <2>2. Others(c) /\ call'[c].pc = "get"
    BY <2>1 DEF Shape, Others
  <2>. QED  BY <1>1, <2>2, LocksCall
<1>3. CASE Return(c)
  BY <1>1, <1>3, ReturnIs, LocksCall DEF Over
<1>4. CASE ~Begin(c) /\ ~Return(c)
  <2>1. call[c].pc \in Steps
    BY <1>4 DEF Resolve, OpenRepo, Get, Stat, Touch, RemoveEntry, Unlist, LoadConfig,
                OpenStorage, Publish, List, EvictIfOverCapacity, At, Steps, Stateful, Removing
  <2>2. CASE Get(c) \/ Stat(c) \/ Touch(c)
    <3>1. \/ \E t : With(c, "stat", t)
          \/ \E a : Go(c, "config", a)
          \/ \E a : Go(c, "touch", a)
          \/ \E a : Go(c, "remove", a)
          \/ \E a : Go(c, "mutex", a)
      BY <2>2 DEF Get, Stat, Touch, Goto, GoRemove
    <3>. QED  BY <1>1, <2>1, <3>1, LocksGo
  <2>3. CASE RemoveEntry(c)
    BY <1>1, <2>1, <2>3, LocksGo DEF RemoveEntry
  <2>4. CASE Unlist(c)
    <3>1. Begun(call[c]) /\ call[c].pc = "unlist"
      BY <2>1, <2>4, BegunAt DEF Unlist, At
    <3>2. call[c].arg.next \in {"get", "failed", "trim"}
      BY <3>1 DEF Begun, Removing
    <3>3. \E a : Go(c, call[c].arg.next, a)
      BY <1>4, <2>4 DEF Unlist, Goto
    <3>. QED  BY <1>1, <2>1, <3>2, <3>3, LocksGo
  <2>5. CASE LoadConfig(c) \/ OpenStorage(c) \/ Publish(c)
    <3>1. \/ \E t : With(c, "open", t)
          \/ \E t : With(c, "stamp", t)
          \/ \E t : With(c, "list", t)
          \/ \E a : Go(c, "remove", a)
      BY <2>5 DEF LoadConfig, OpenStorage, Publish, GoRemove
    <3>. QED  BY <1>1, <2>1, <3>1, LocksGo
  <2>6. CASE List(c) \/ EvictIfOverCapacity(c)
    <3>1. \/ \E a : Go(c, "trim", a)
          \/ \E a : Go(c, "remove", a)
          \/ \E a : Go(c, "mutex", a)
      BY <2>6 DEF List, EvictIfOverCapacity, Goto, GoRemove
    <3>. QED  BY <1>1, <2>1, <3>1, LocksGo
  <2>. QED  BY <1>4, <2>2, <2>3, <2>4, <2>5, <2>6 DEF Resolve, OpenRepo
<1>. QED  BY <1>2, <1>3, <1>4

LEMMA LocksWrite ==
  ASSUME Shape, Locks, NEW c \in Call, CanonicalWrite(c)
  PROVE  Locks'
<1>. DEFINE st == Storage(c)
            r  == call[c].repo
<1>1. call[c].pc \in {"mutex", "flock", "write", "release"}
  BY DEF CanonicalWrite, LockMutex, LockFile, Write, At
<1>2. call[c].pc \in Steps /\ call[c].pc \in Stateful
  BY <1>1 DEF Steps, Stateful
<1>3. r \in Repo /\ st \in Call
  BY <1>2, BegunAt DEF Begun, IsState, Storage
<1>4. c # Nobody /\ \A d \in Call : d # Nobody
  BY CallAssumption
<1>5. ASSUME NEW s, Go(c, s, <<>>)
      PROVE  Others(c) /\ call'[c].pc = s /\ Storage(c)' = st /\ call'[c].repo = r
  BY <1>2, <1>5, GoIs DEF Storage
<1>6. ASSUME Return(c)
      PROVE  Others(c) /\ call'[c].pc = "over"
  BY <1>6, ReturnIs DEF Over
<1>. HIDE DEF st, r
<1>7. CASE LockMutex(c)
  <2>1. /\ call[c].pc = "mutex" /\ mutex[st] = Nobody /\ mutex' = [mutex EXCEPT ![st] = c]
        /\ UNCHANGED flock /\ Go(c, "flock", <<>>)
    BY <1>7 DEF LockMutex, At, Goto, st
  <2>2. Others(c) /\ call'[c].pc = "flock" /\ Storage(c)' = st
    BY <1>5, <2>1
  <2>. QED  BY <1>3, <1>4, <2>1, <2>2 DEF Locks, Others, Storage, Locked
<1>8. CASE LockFile(c)
  <2>1. call[c].pc = "flock" /\ mutex[st] = c
    BY <1>8 DEF LockFile, At, Locks, Locked, st
  <2>2. CASE /\ flock' = [flock EXCEPT ![r] = st] /\ Go(c, "write", <<>>) /\ UNCHANGED mutex
             /\ flock[r] \in {Nobody, st}
    <3>1. Others(c) /\ call'[c].pc = "write" /\ Storage(c)' = st /\ call'[c].repo = r
      BY <1>5, <2>2
    <3>2. ASSUME NEW d \in Call, d # c, call[d].pc = "write" PROVE call[d].repo # r
      <4>1. mutex[Storage(d)] = d /\ flock[call[d].repo] = Storage(d)
        BY <3>2 DEF Locks, Locked
      <4>2. call[d].repo = r => Storage(d) \in {Nobody, st}
        BY <2>2, <4>1
      <4>3. Storage(d) \in Call
        <5>1. call[d].pc \in Steps /\ call[d].pc \in Stateful
          BY <3>2 DEF Steps, Stateful
        <5>. QED  BY <5>1, BegunAt DEF Begun, IsState, Storage
      <4>. QED  BY <1>4, <2>1, <3>2, <4>1, <4>2, <4>3
    <3>. QED  BY <1>3, <2>1, <2>2, <3>1, <3>2 DEF Locks, Others, Storage, Locked
  <2>3. CASE /\ mutex' = [mutex EXCEPT ![st] = Nobody] /\ Return(c) /\ UNCHANGED flock
    <3>1. Others(c) /\ call'[c].pc = "over"
      BY <1>6, <2>3
    <3>. QED  BY <1>3, <2>1, <2>3, <3>1 DEF Locks, Others, Storage, Locked
  <2>. QED  BY <1>8, <2>2, <2>3 DEF LockFile, Goto, st, r
<1>9. CASE Write(c)
  <2>1. mutex[st] = c
    BY <1>9 DEF Write, At, Locks, Locked, st
  <2>2. CASE /\ call[c].pc = "write" /\ flock' = [flock EXCEPT ![r] = Nobody]
             /\ Go(c, "release", <<>>) /\ UNCHANGED mutex
    <3>1. Others(c) /\ call'[c].pc = "release" /\ Storage(c)' = st
      BY <1>5, <2>2
    <3>2. ASSUME NEW d \in Call, d # c, call[d].pc = "write" PROVE call[d].repo # r
      <4>1. mutex[Storage(d)] = d /\ flock[call[d].repo] = Storage(d) /\ flock[r] = st
        BY <2>2, <3>2 DEF Locks, Locked, st, r
      <4>. QED  BY <2>1, <3>2, <4>1
    <3>. QED  BY <1>3, <2>1, <2>2, <3>1, <3>2 DEF Locks, Others, Storage, Locked
  <2>3. CASE mutex' = [mutex EXCEPT ![st] = Nobody] /\ Return(c) /\ UNCHANGED flock
    <3>1. Others(c) /\ call'[c].pc = "over"
      BY <1>6, <2>3
    <3>. QED  BY <1>3, <2>1, <2>3, <3>1 DEF Locks, Others, Storage, Locked
  <2>. QED  BY <1>9, <2>2, <2>3 DEF Write, Goto, At, st, r
<1>. QED  BY <1>7, <1>8, <1>9 DEF CanonicalWrite

LEMMA LocksNext ==
  ASSUME Shape, Locks, [Next]_vars
  PROVE  Locks'
<1>1. ASSUME NEW r \in Repo, EditConfig(r) \/ Reset(r) \/ Index(r) PROVE Locks'
  <2>1. UNCHANGED <<call, locks>>
    BY <1>1 DEF EditConfig, Reset, Index
  <2>. QED  BY <2>1 DEF Locks, locks, Storage
<1>2. CASE Idle \/ UNCHANGED vars
  <2>1. UNCHANGED <<call, locks>>
    BY <1>2 DEF Idle, vars
  <2>. QED  BY <2>1 DEF Locks, locks, Storage
<1>. QED  BY <1>1, <1>2, LocksResolve, LocksWrite DEF Next, CallStep

(***************************************************************************)
(* Two calls never write canonical files of one repository at once         *)
(* (Storage::file_lock, storage/mod.rs:233): calls that share a Storage are *)
(* kept apart by its mutex, and calls whose Storage was evicted or opened   *)
(* again in between by the OS lock on the file.                             *)
(***************************************************************************)
THEOREM OneWriterPerRepo == Spec => []OneWriter
<1>1. Init => Locks
  <2>. SUFFICES ASSUME Init PROVE Locks
    OBVIOUS
  <2>1. \A c \in Call : call[c].pc = "idle"
    BY DEF Init
  <2>2. mutex \in [Call -> Call \cup {Nobody}] /\ flock \in [Repo -> Call \cup {Nobody}]
    BY DEF Init
  <2>. QED  BY <2>1, <2>2 DEF Locks, Locked
<1>2. Locks => OneWriter
  <2>. SUFFICES ASSUME Locks, NEW c \in Call, NEW d \in Call, call[c].pc = "write",
                       call[d].pc = "write", call[c].repo = call[d].repo
                PROVE  c = d
    BY DEF OneWriter, At
  <2>1. mutex[Storage(c)] = c /\ mutex[Storage(d)] = d /\ Storage(c) = Storage(d)
    BY DEF Locks, Locked
  <2>. QED  BY <2>1
<1>. QED  BY <1>1, <1>2, StepInit, StepNext, LocksNext, PTL DEF Spec
-----------------------------------------------------------------------------
(* The size of the cache.                                                  *)

Cached == {r \in Repo : repos[r].kind = "ready"}

Has(o, r) == \E i \in DOMAIN o : o[i] = r

Distinct(o) == o \in Seq(Repo) /\ \A i, j \in DOMAIN o : o[i] = o[j] => i = j

\* A cached repository is listed, or the call that published it is about to.
ListedOrDue == \A r \in Cached : Has(order, r) \/ \E c \in Call : At(c, "list") /\ call[c].repo = r

Evicting == \E c \in Call : Own(call[c])

CacheInv ==
  /\ Distinct(order)
  /\ split \/ (ListedOrDue /\ (Evicting \/ Cardinality(Cached) <= MaxCached))

LEMMA WithoutIs ==
  ASSUME NEW o, Distinct(o), NEW r
  PROVE  /\ Distinct(Without(o, r))
         /\ \A x : Has(Without(o, r), x) <=> Has(o, x) /\ x # r
<1>0. o \in Seq(Repo) /\ DOMAIN o = 1 .. Len(o) /\ Len(o) \in Nat
  BY DEF Distinct
<1>1. CASE \A i \in DOMAIN o : o[i] # r
  BY <1>1 DEF Without, Has
<1>2. CASE \E i \in DOMAIN o : o[i] = r
  <2>. DEFINE n == CHOOSE i \in DOMAIN o : o[i] = r
              w == [i \in 1 .. Len(o) - 1 |-> IF i < n THEN o[i] ELSE o[i + 1]]
  <2>1. n \in 1 .. Len(o) /\ o[n] = r
    BY <1>0, <1>2
  <2>2. Without(o, r) = w
    BY <1>2 DEF Without
  <2>. HIDE DEF n
  <2>3. DOMAIN w = 1 .. Len(o) - 1
        /\ \A i \in 1 .. Len(o) - 1 : w[i] = IF i < n THEN o[i] ELSE o[i + 1]
    OBVIOUS
  <2>4. \A i \in 1 .. Len(o) : o[i] \in Repo
    BY <1>0
  <2>5. w \in Seq(Repo)
    BY <1>0, <2>1, <2>4
  <2>. HIDE DEF w
  <2>6. \A i, j \in 1 .. Len(o) : o[i] = o[j] => i = j
    BY <1>0 DEF Distinct
  <2>7. ASSUME NEW i \in DOMAIN w, NEW j \in DOMAIN w, w[i] = w[j]
        PROVE  i = j
    <3>1. PICK k \in 1 .. Len(o) : w[i] = o[k] /\ k = IF i < n THEN i ELSE i + 1
      BY <1>0, <2>1, <2>3
    <3>2. PICK m \in 1 .. Len(o) : w[j] = o[m] /\ m = IF j < n THEN j ELSE j + 1
      BY <1>0, <2>1, <2>3
    <3>3. k = m
      BY <2>6, <2>7, <3>1, <3>2
    <3>. QED  BY <1>0, <2>1, <2>3, <3>1, <3>2, <3>3
  <2>8. ASSUME NEW x
        PROVE  Has(w, x) <=> Has(o, x) /\ x # r
    <3>1. ASSUME NEW i \in DOMAIN w, w[i] = x
          PROVE  Has(o, x) /\ x # r
      <4>1. PICK k \in 1 .. Len(o) : w[i] = o[k] /\ k # n
        BY <1>0, <2>1, <2>3
      <4>. QED  BY <1>0, <2>1, <2>6, <3>1, <4>1 DEF Has
    <3>2. ASSUME NEW m \in 1 .. Len(o), o[m] = x, x # r
          PROVE  Has(w, x)
      <4>1. m # n /\ m \in Nat /\ n \in Nat
        BY <1>0, <2>1, <3>2
      <4>2. CASE m < n
        BY <1>0, <2>1, <2>3, <3>2, <4>1, <4>2 DEF Has
      <4>3. CASE m > n
        <5>1. m - 1 \in 1 .. Len(o) - 1 /\ ~(m - 1 < n) /\ (m - 1) + 1 = m
          BY <1>0, <2>1, <4>1, <4>3
        <5>2. w[m - 1] = x
          BY <2>3, <3>2, <5>1
        <5>. QED  BY <2>3, <5>1, <5>2 DEF Has
      <4>. QED  BY <4>1, <4>2, <4>3
    <3>. QED  BY <1>0, <3>1, <3>2 DEF Has
  <2>. QED  BY <2>2, <2>5, <2>7, <2>8 DEF Distinct
<1>. QED  BY <1>1, <1>2

LEMMA TouchedIs ==
  ASSUME NEW o, Distinct(o), NEW r \in Repo
  PROVE  /\ Distinct(Touched(o, r))
         /\ \A x : Has(Touched(o, r), x) <=> Has(o, x) \/ x = r
<1>. DEFINE w == Without(o, r)
            t == Append(w, r)
<1>1. Distinct(w) /\ \A x : Has(w, x) <=> Has(o, x) /\ x # r
  BY WithoutIs
<1>. HIDE DEF w
<1>2. w \in Seq(Repo) /\ Len(w) \in Nat
  BY <1>1 DEF Distinct
<1>3. /\ t \in Seq(Repo) /\ DOMAIN t = 1 .. Len(w) + 1 /\ t[Len(w) + 1] = r
      /\ \A i \in 1 .. Len(w) : t[i] = w[i]
  BY <1>2
<1>. HIDE DEF t
<1>4. \A i \in 1 .. Len(w) : w[i] # r
  BY <1>1, <1>2 DEF Has
<1>5. ASSUME NEW i \in DOMAIN t, NEW j \in DOMAIN t, t[i] = t[j]
      PROVE  i = j
  <2>1. \A k \in DOMAIN t : k \in 1 .. Len(w) \/ k = Len(w) + 1
    BY <1>2, <1>3
  <2>2. CASE i \in 1 .. Len(w) /\ j \in 1 .. Len(w)
    BY <1>1, <1>2, <1>3, <1>5, <2>2 DEF Distinct
  <2>. QED  BY <1>3, <1>4, <1>5, <2>1, <2>2
<1>6. \A x : Has(t, x) <=> Has(w, x) \/ x = r
  BY <1>2, <1>3 DEF Has
<1>. QED  BY <1>1, <1>3, <1>5, <1>6 DEF Distinct, Touched, w, t

\* What is listed is no more than the list is long.
LEMMA ListBounds ==
  ASSUME NEW o \in Seq(Repo), NEW S, \A r \in S : Has(o, r)
  PROVE  IsFiniteSet(S) /\ Cardinality(S) \in Nat /\ Cardinality(S) <= Len(o)
<1>. DEFINE I == 1 .. Len(o)
            T == {o[i] : i \in I}
<1>1. o \in [I -> T] /\ Len(o) \in Nat /\ DOMAIN o = I
  OBVIOUS
<1>2. o \in Surjection(I, T)
  BY <1>1 DEF Surjection
<1>3. IsFiniteSet(I) /\ Cardinality(I) = Len(o)
  BY <1>1, FS_Interval
<1>4. IsFiniteSet(T) /\ Cardinality(T) <= Cardinality(I)
  BY <1>2, <1>3, FS_Surjection
<1>5. S \in SUBSET T
  BY <1>1 DEF Has
<1>6. IsFiniteSet(S) /\ Cardinality(S) <= Cardinality(T)
  BY <1>4, <1>5, FS_Subset
<1>7. Cardinality(S) \in Nat /\ Cardinality(T) \in Nat
  BY <1>4, <1>6, FS_CardinalityType
<1>. HIDE DEF T, I
<1>. QED  BY <1>1, <1>3, <1>4, <1>6, <1>7
\* A step of one call.  It drops from the cache, or it evicts, and when it
\* stops evicting the list is short or has nothing to evict.
LEMMA CacheCall ==
  ASSUME CacheInv, NEW c \in Call, Others(c), split => split', Distinct(order'),
         \A r \in Repo : repos'[r].kind = "ready" =>
           \/ call'[c].pc = "list" /\ call'[c].repo = r
           \/ /\ repos[r].kind = "ready"
              /\ Has(order, r) => split' \/ Has(order', r)
              /\ call[c].pc = "list" /\ call[c].repo = r => Has(order', r),
         \/ Own(call'[c])
         \/ /\ \A r \in Repo : repos'[r].kind = "ready" => repos[r].kind = "ready"
            /\ Own(call[c]) => /\ call[c].pc = "trim"
                               /\ Len(order) <= MaxCached \/ \A i \in DOMAIN order : ~IsReady(i)
  PROVE  CacheInv'
<1>1. CASE split'
  BY <1>1 DEF CacheInv
<1>2. CASE ~split'
  <2>1. ListedOrDue /\ (Evicting \/ Cardinality(Cached) <= MaxCached) /\ order \in Seq(Repo)
    BY <1>2 DEF CacheInv, Distinct
  <2>2. ListedOrDue'
    <3>. SUFFICES ASSUME NEW r \in Repo, repos'[r].kind = "ready"
                  PROVE  Has(order', r) \/ \E d \in Call : call'[d].pc = "list" /\ call'[d].repo = r
      BY DEF ListedOrDue, Cached, At
    <3>1. CASE call'[c].pc = "list" /\ call'[c].repo = r
      BY <3>1
    <3>2. CASE ~(call'[c].pc = "list" /\ call'[c].repo = r)
      <4>1. r \in Cached
        BY <3>2 DEF Cached
      <4>2. CASE Has(order, r)
        BY <1>2, <3>2, <4>2
      <4>3. ASSUME NEW d \in Call, call[d].pc = "list", call[d].repo = r
            PROVE  Has(order', r) \/ (call'[d].pc = "list" /\ call'[d].repo = r)
        BY <3>2, <4>3 DEF Others
      <4>. QED  BY <2>1, <4>1, <4>2, <4>3 DEF ListedOrDue, At
    <3>. QED  BY <3>1, <3>2
  <2>3. Evicting' \/ Cardinality(Cached') <= MaxCached
    <3>1. CASE Own(call'[c]) \/ \E d \in Call : d # c /\ Own(call[d])
      BY <3>1 DEF Evicting, Others
    <3>2. CASE ~Own(call'[c]) /\ \A d \in Call : d # c => ~Own(call[d])
      <4>1. Cached' \in SUBSET Cached
        BY <3>2 DEF Cached
      <4>2. \A r \in Cached : Has(order, r)
        <5>1. \A d \in Call : ~At(d, "list")
          BY <3>2 DEF At, Own
        <5>. QED  BY <2>1, <5>1 DEF ListedOrDue
      <4>3. IsFiniteSet(Cached) /\ Cardinality(Cached) \in Nat /\ Cardinality(Cached) <= Len(order)
        BY <2>1, <4>2, ListBounds
      <4>4. Cardinality(Cached) <= MaxCached
        <5>1. CASE ~Own(call[c])
          BY <2>1, <3>2, <5>1 DEF Evicting
        <5>2. CASE Own(call[c]) /\ Len(order) <= MaxCached
          BY <2>1, <4>3, <5>2, LimitAssumption
        <5>3. CASE \A i \in DOMAIN order : ~IsReady(i)
          <6>1. Cached = {}
            BY <4>2, <5>3 DEF Has, IsReady, Cached
          <6>. QED  BY <6>1, FS_EmptySet, LimitAssumption
        <5>. QED  BY <3>2, <5>1, <5>2, <5>3
      <4>5. Cardinality(Cached') <= Cardinality(Cached) /\ Cardinality(Cached') \in Nat
        BY <4>1, <4>3, FS_Subset, FS_CardinalityType
      <4>. QED  BY <4>3, <4>4, <4>5, LimitAssumption
    <3>. QED  BY <3>1, <3>2
  <2>. QED  BY <2>2, <2>3 DEF CacheInv
<1>. QED  BY <1>1, <1>2

\* A step that does not touch the cache, and is not part of an eviction.
LEMMA CacheQuiet ==
  ASSUME CacheInv, NEW c \in Call, Others(c), ~Own(call[c]), UNCHANGED <<order, split>>,
         \A r \in Repo : repos'[r].kind = "ready" => repos[r].kind = "ready"
  PROVE  CacheInv'
<1>1. Distinct(order') /\ call[c].pc # "list"
  BY DEF CacheInv, Own
<1>. QED  BY <1>1, CacheCall

LEMMA CacheStep ==
  ASSUME Shape, Sound, CacheInv, NEW c \in Call, CallStep(c)
  PROVE  CacheInv'
<1>1. CASE Begin(c)
  <2>1. Others(c) /\ UNCHANGED cache /\ ~Own(call[c])
    BY <1>1 DEF Begin, Others, Shape, At, Own, Removing
  <2>. QED  BY <2>1, CacheQuiet DEF cache
<1>2. CASE LoadConfig(c) \/ OpenStorage(c) \/ Stat(c) \/ LockMutex(c) \/ LockFile(c) \/ Write(c)
  <2>1. call[c].pc \in {"config", "open", "stat", "mutex", "flock", "write", "release"} /\ UNCHANGED cache
    BY <1>2 DEF LoadConfig, OpenStorage, Stat, LockMutex, LockFile, Write, At
  <2>2. Others(c)
    BY <1>2 DEF LoadConfig, OpenStorage, Stat, LockMutex, LockFile, Write, Go, Goto, GoRemove, With,
                Return, Others, Shape
  <2>. QED  BY <2>1, <2>2, CacheQuiet DEF cache, Own, Removing
<1>3. CASE Get(c)
  <2>1. call[c].pc = "get" /\ UNCHANGED <<order, split>> /\ Others(c)
    BY <1>3 DEF Get, At, Go, Goto, With, Others, Shape
  <2>2. Opening(c).kind # "ready"
    BY DEF Opening
  <2>3. \A r \in Repo : repos'[r].kind = "ready" => repos[r].kind = "ready"
    BY <1>3, <2>2 DEF Get, Shape
  <2>. QED  BY <2>1, <2>3, CacheQuiet DEF Own, Removing
<1>4. CASE RemoveEntry(c)
  <2>1. call[c].pc = "remove" /\ UNCHANGED <<order, split>>
        /\ repos' = [repos EXCEPT ![call[c].arg.target] = Missing] /\ Go(c, "unlist", call[c].arg)
    BY <1>4 DEF RemoveEntry, At
  <2>2. Others(c) /\ call'[c].pc = "unlist" /\ call'[c].arg = call[c].arg
    BY <2>1, GoIs DEF Steps, Removing
  <2>3. \A r \in Repo : repos'[r].kind = "ready" => repos[r].kind = "ready"
    BY <2>1 DEF Shape, Missing
  <2>4. Own(call[c]) => Own(call'[c])
    BY <2>1, <2>2 DEF Own, Removing
  <2>5. Distinct(order')
    BY <2>1 DEF CacheInv
  <2>. QED  BY <2>1, <2>2, <2>3, <2>4, <2>5, CacheCall
<1>5. CASE Unlist(c)
  <2>. DEFINE t == call[c].arg.target
  <2>1. /\ call[c].pc = "unlist" /\ UNCHANGED repos /\ order' = Without(order, t)
        /\ split' = (split \/ repos[t].kind # "missing")
        /\ IF call[c].arg.next = "failed" THEN Return(c) ELSE Goto(c, call[c].arg.next)
    BY <1>5 DEF Unlist, At
  <2>. HIDE DEF t
  <2>2. Distinct(order') /\ \A x : Has(order', x) <=> Has(order, x) /\ x # t
    BY <2>1, WithoutIs DEF CacheInv
  <2>3. \A r \in Repo : repos'[r].kind = "ready" /\ Has(order, r) => split' \/ Has(order', r)
    BY <2>1, <2>2
  <2>4. Others(c) /\ (Own(call[c]) => Own(call'[c]))
    <3>1. CASE call[c].arg.next = "failed"
      BY <2>1, <3>1, ReturnIs DEF Own
    <3>2. CASE call[c].arg.next # "failed"
      <4>1. Others(c) /\ call'[c].pc = call[c].arg.next
        BY <2>1, <3>2, GoIs DEF Goto, Steps, Removing
      <4>. QED  BY <2>1, <4>1 DEF Own
    <3>. QED  BY <3>1, <3>2
  <2>. QED  BY <2>1, <2>2, <2>3, <2>4, CacheCall
<1>6. CASE Touch(c) \/ List(c)
  <2>1. /\ call[c].pc \in {"touch", "list"} /\ UNCHANGED <<repos, split>>
        /\ order' = Touched(order, call[c].repo)
        /\ \/ call[c].pc = "touch" /\ Goto(c, "mutex")
           \/ call[c].pc = "list" /\ Goto(c, "trim")
    BY <1>6 DEF Touch, List, At
  <2>2. call[c].repo \in Repo
    BY <2>1, BegunAt DEF Begun, Steps, Stateful
  <2>3. Distinct(order') /\ \A x : Has(order', x) <=> Has(order, x) \/ x = call[c].repo
    BY <2>1, <2>2, TouchedIs DEF CacheInv
  <2>4. Others(c) /\ (call[c].pc = "list" => call'[c].pc = "trim")
    BY <2>1, GoIs DEF Goto, Steps, Stateful
  <2>5. Own(call'[c]) \/ ~Own(call[c])
    BY <2>1, <2>4 DEF Own, Removing
  <2>. QED  BY <2>1, <2>3, <2>4, <2>5, CacheCall
<1>7. CASE Publish(c)
  <2>1. /\ call[c].pc = "stamp" /\ UNCHANGED <<order, split>>
        /\ \E s : repos' = [repos EXCEPT ![call[c].repo] = Ready(s)] /\ With(c, "list", s)
    BY <1>7 DEF Publish, At
  <2>2. Others(c) /\ call'[c].pc = "list" /\ call'[c].repo = call[c].repo
    BY <2>1, WithIs DEF Steps
  <2>3. \A r \in Repo : repos'[r].kind = "ready" => r = call[c].repo \/ repos[r].kind = "ready"
    BY <2>1 DEF Shape
  <2>4. Own(call'[c]) /\ Distinct(order')
    BY <2>1, <2>2 DEF Own, CacheInv
  <2>. QED  BY <2>1, <2>2, <2>3, <2>4, CacheCall
<1>8. CASE EvictIfOverCapacity(c)
  <2>1. call[c].pc = "trim" /\ UNCHANGED cache
    BY <1>8 DEF EvictIfOverCapacity, At
  <2>2. \/ \E r : GoRemove(c, r, "trim")
        \/ /\ Len(order) <= MaxCached \/ \A i \in DOMAIN order : ~IsReady(i)
           /\ Goto(c, "mutex")
    BY <1>8 DEF EvictIfOverCapacity
  <2>3. Distinct(order')
    BY <2>1 DEF cache, CacheInv
  <2>4. CASE \E r : GoRemove(c, r, "trim")
    <3>1. PICK r : GoRemove(c, r, "trim")
      BY <2>4
    <3>2. Others(c) /\ call'[c].pc = "remove" /\ call'[c].arg.next = "trim"
      BY <2>1, <3>1, GoIs DEF GoRemove, Steps, Stateful
    <3>. QED  BY <2>1, <2>3, <3>2, CacheCall DEF Own, Removing, cache
  <2>5. CASE /\ Len(order) <= MaxCached \/ \A i \in DOMAIN order : ~IsReady(i)
             /\ Goto(c, "mutex")
    <3>1. Others(c)
      BY <2>1, <2>5, GoIs DEF Goto, Steps, Stateful
    <3>. QED  BY <2>1, <2>3, <2>5, <3>1, CacheCall DEF cache
  <2>. QED  BY <2>2, <2>4, <2>5
<1>. QED  BY <1>1, <1>2, <1>3, <1>4, <1>5, <1>6, <1>7, <1>8
          DEF CallStep, Resolve, OpenRepo, CanonicalWrite

LEMMA CacheNext ==
  ASSUME Shape, Sound, CacheInv, [Next]_vars
  PROVE  CacheInv'
<1>1. CASE UNCHANGED <<cache, call>>
  BY <1>1 DEF cache, CacheInv, ListedOrDue, Evicting, Cached, At
<1>2. CASE \E c \in Call : CallStep(c)
  BY <1>2, CacheStep
<1>. QED  BY <1>1, <1>2 DEF Next, EditConfig, Reset, Index, Idle, vars

(***************************************************************************)
(* Between two evictions the cache holds no more than MAX_CACHED_REPOS     *)
(* repositories (repo_cache.rs:16), however many calls open, remove and    *)
(* evict at once, unless one was opened again between the two halves of    *)
(* its removal.                                                            *)
(***************************************************************************)
THEOREM CacheStaysBounded == Spec => []CacheBounded
<1>1. Init => CacheInv
  <2>. SUFFICES ASSUME Init PROVE CacheInv
    OBVIOUS
  <2>1. Distinct(order)
    BY DEF Init, Distinct
  <2>2. Cached = {}
    BY DEF Init, Cached, Missing
  <2>. QED  BY <2>1, <2>2, FS_EmptySet, LimitAssumption DEF CacheInv, ListedOrDue
<1>2. CacheInv => CacheBounded
  BY DEF CacheInv, CacheBounded, Evicting, Own, Removing, Cached
<1>. QED  BY <1>1, <1>2, StepInit, StepNext, CacheNext, PTL DEF Spec
-----------------------------------------------------------------------------
(* The ladder of migrations keeps every vector in one place.               *)

\* Every vector is in the space of its entity, and an entity has one.
OnePlace(vec) ==
  /\ \A v \in vec : v[2] = SpaceOf(v[1])
  /\ \A v, w \in vec : v[1] = w[1] => v = w

\* What a database holds once migration n has run: vectors in the single
\* table until version 3, in the spaces from then on, mapped from version 9.
Level(n, d) ==
  /\ d \in Database
  /\ n < 3 => d.vec = {} /\ (d.old # {} => "single" \in d.tables)
  /\ n >= 3 => d.old = {} /\ OnePlace(d.vec)
  /\ n < 9 => d.map = {}
  /\ n >= 9 => d.map = d.vec

\* Two databases that hold the same vectors in the same places.
Alike(d, e) ==
  /\ e \in Database
  /\ e.old = d.old /\ e.vec = d.vec /\ e.map = d.map
  /\ "single" \in d.tables => "single" \in e.tables

LEMMA LevelAlike ==
  ASSUME NEW n \in 1 .. 10, n # 3, n # 9, NEW d, Level(n - 1, d), NEW e, Alike(d, e)
  PROVE  Level(n, e)
<1>1. (n < 3 <=> n - 1 < 3) /\ (n >= 3 <=> n - 1 >= 3)
  OBVIOUS
<1>2. (n < 9 <=> n - 1 < 9) /\ (n >= 9 <=> n - 1 >= 9)
  OBVIOUS
<1>. QED  BY <1>1, <1>2 DEF Level, Alike

LEMMA HavingIs ==
  ASSUME NEW d \in Database, NEW ts \in SUBSET Tables
  PROVE  /\ Having(d, ts) \in Database
         /\ Having(d, ts).version = d.version /\ Having(d, ts).tables = d.tables \cup ts
         /\ Having(d, ts).old = d.old /\ Having(d, ts).vec = d.vec /\ Having(d, ts).map = d.map
  BY DEF Having, Database

LEMMA LevelHaving ==
  ASSUME NEW n \in 1 .. 10, n # 3, n # 9, NEW d, Level(n - 1, d), NEW ts \in SUBSET Tables
  PROVE  Level(n, Having(d, ts))
<1>1. d \in Database
  BY DEF Level
<1>2. Alike(d, Having(d, ts))
  BY <1>1, HavingIs DEF Alike
<1>. QED  BY <1>2, LevelAlike

\* Version 3 moves the vectors of the single table to their spaces.
LEMMA Level3 ==
  ASSUME NEW d, Level(2, d)
  PROVE  Level(3, V3(d))
<1>. DEFINE s    == Having(d, {"spaces"})
            rows == {<<e, SpaceOf(e), 1>> : e \in d.old}
            e3   == [s EXCEPT !.vec = @ \cup rows, !.old = {}, !.tables = @ \ {"single"}]
<1>1. d \in Database /\ d.vec = {} /\ d.map = {} /\ (d.old # {} => "single" \in d.tables)
  BY DEF Level
<1>2. /\ s \in Database /\ s.old = d.old /\ s.vec = {} /\ s.map = {}
  <2>1. {"spaces"} \in SUBSET Tables
    BY DEF Tables
  <2>. HIDE DEF s
  <2>. QED  BY <1>1, <2>1, HavingIs DEF s
<1>3. CASE "single" \notin d.tables
  <2>1. V3(d) = s
    BY <1>3 DEF V3
  <2>2. s.old = {}
    BY <1>1, <1>2, <1>3
  <2>3. OnePlace(s.vec)
    BY <1>2 DEF OnePlace
  <2>. HIDE DEF s
  <2>. QED  BY <1>2, <2>1, <2>2, <2>3 DEF Level
<1>4. CASE "single" \in d.tables
  <2>1. V3(d) = e3
    BY <1>4 DEF V3
  <2>2. rows \subseteq Row
    <3>1. d.old \subseteq Entity
      BY <1>1 DEF Database
    <3>2. \A x \in Entity : SpaceOf(x) \in Spaces
      BY DEF SpaceOf, Spaces
    <3>. QED  BY <3>1, <3>2 DEF Row
  <2>3. OnePlace(rows)
    <3>1. ASSUME NEW v \in rows PROVE v = <<v[1], SpaceOf(v[1]), 1>>
      OBVIOUS
    <3>. HIDE DEF rows
    <3>2. \A v \in rows : v[2] = SpaceOf(v[1])
      BY <3>1
    <3>. QED  BY <3>1, <3>2 DEF OnePlace
  <2>. HIDE DEF s, rows
  <2>4. e3 \in Database /\ e3.old = {} /\ e3.vec = rows /\ e3.map = {}
    BY <1>2, <2>2 DEF Database
  <2>. HIDE DEF e3
  <2>. QED  BY <2>1, <2>3, <2>4 DEF Level
<1>. QED  BY <1>3, <1>4

\* Version 9 maps what the spaces hold.
LEMMA Level9 ==
  ASSUME NEW d, Level(8, d)
  PROVE  Level(9, V9(d))
<1>. DEFINE s == Having(d, {"vec_rowid"})
            e == [s EXCEPT !.map = @ \cup d.vec]
<1>1. d \in Database /\ d.old = {} /\ OnePlace(d.vec) /\ d.map = {}
  BY DEF Level
<1>2. s \in Database /\ s.old = {} /\ s.vec = d.vec /\ s.map = {}
  <2>1. {"vec_rowid"} \in SUBSET Tables
    BY DEF Tables
  <2>. HIDE DEF s
  <2>. QED  BY <1>1, <2>1, HavingIs DEF s
<1>3. V9(d) = e
  BY DEF V9
<1>4. d.vec \subseteq Row
  BY <1>1 DEF Database
<1>. HIDE DEF s
<1>5. e \in Database /\ e.old = {} /\ e.vec = d.vec /\ e.map = d.vec
  BY <1>2, <1>4 DEF Database
<1>. HIDE DEF e
<1>. QED  BY <1>1, <1>3, <1>5 DEF Level

LEMMA Level10 ==
  ASSUME NEW d, Level(9, d)
  PROVE  Level(10, V10(d))
<1>. DEFINE s == Having(d, {"search_terms", "fts3"})
            e == [s EXCEPT !.tables = @ \ {"fts"}]
<1>1. d \in Database
  BY DEF Level
<1>2. /\ s \in Database /\ s.old = d.old /\ s.vec = d.vec /\ s.map = d.map
      /\ s.tables = d.tables \cup {"search_terms", "fts3"}
  <2>1. {"search_terms", "fts3"} \in SUBSET Tables
    BY DEF Tables
  <2>. HIDE DEF s
  <2>. QED  BY <1>1, <2>1, HavingIs DEF s
<1>3. V10(d) = e
  BY DEF V10
<1>. HIDE DEF s
<1>4. Alike(d, e)
  BY <1>2 DEF Alike, Database
<1>. HIDE DEF e
<1>. QED  BY <1>3, <1>4, LevelAlike

\* The other migrations add tables and columns.
LEMMA Level1 ==
  ASSUME NEW d, Level(0, d)
  PROVE  Level(1, V1(d))
<1>1. {"entities", "fts", "spaces"} \in SUBSET Tables
  BY DEF Tables
<1>. QED  BY <1>1, LevelHaving DEF V1

LEMMA Level2 ==
  ASSUME NEW d, Level(1, d)
  PROVE  Level(2, V2(d))
<1>1. {"meta"} \in SUBSET Tables
  BY DEF Tables
<1>. QED  BY <1>1, LevelHaving DEF V2

LEMMA Level4 ==
  ASSUME NEW d, Level(3, d)
  PROVE  Level(4, V4(d))
<1>1. {"deliveries"} \in SUBSET Tables
  BY DEF Tables
<1>. QED  BY <1>1, LevelHaving DEF V4

LEMMA Level5 ==
  ASSUME NEW d, Level(4, d)
  PROVE  Level(5, V5(d))
<1>1. {"tier"} \in SUBSET Tables
  BY DEF Tables
<1>. QED  BY <1>1, LevelHaving DEF V5

LEMMA Level6 ==
  ASSUME NEW d, Level(5, d)
  PROVE  Level(6, V6(d))
<1>1. {"drift"} \in SUBSET Tables
  BY DEF Tables
<1>. QED  BY <1>1, LevelHaving DEF V6

LEMMA Level7 ==
  ASSUME NEW d, Level(6, d)
  PROVE  Level(7, V7(d))
<1>1. {"cochange"} \in SUBSET Tables
  BY DEF Tables
<1>. QED  BY <1>1, LevelHaving DEF V7

LEMMA Level8 ==
  ASSUME NEW d, Level(7, d)
  PROVE  Level(8, V8(d))
<1>1. {"created_at"} \in SUBSET Tables
  BY DEF Tables
<1>. QED  BY <1>1, LevelHaving DEF V8

\* The level reached after migration n, on the way from one to another.
Reached(n, from, to) == IF n < from THEN from ELSE IF n > to THEN to ELSE n

LEMMA ClimbedTo ==
  ASSUME NEW from \in 0 .. 10, NEW to \in 0 .. 11, from <= to, NEW d, Level(from, d)
  PROVE  Level(Reached(10, from, to), Climbed(d, from, to))
<1>. DEFINE d1 == IF from < 1 /\ 1 <= to THEN V1(d) ELSE d
            d2 == IF from < 2 /\ 2 <= to THEN V2(d1) ELSE d1
            d3 == IF from < 3 /\ 3 <= to THEN V3(d2) ELSE d2
            d4 == IF from < 4 /\ 4 <= to THEN V4(d3) ELSE d3
            d5 == IF from < 5 /\ 5 <= to THEN V5(d4) ELSE d4
            d6 == IF from < 6 /\ 6 <= to THEN V6(d5) ELSE d5
            d7 == IF from < 7 /\ 7 <= to THEN V7(d6) ELSE d6
            d8 == IF from < 8 /\ 8 <= to THEN V8(d7) ELSE d7
            d9 == IF from < 9 /\ 9 <= to THEN V9(d8) ELSE d8
            d10 == IF from < 10 /\ 10 <= to THEN V10(d9) ELSE d9
<1>11. Climbed(d, from, to) = d10
  BY DEF Climbed
<1>. HIDE DEF d1, d2, d3, d4, d5, d6, d7, d8, d9, d10
<1>0. Level(Reached(0, from, to), d)
  <2>1. Reached(0, from, to) = from
    BY DEF Reached
  <2>. QED  BY <2>1
<1>1. Level(Reached(1, from, to), d1)
  <2>1. Level(0, d) => Level(1, V1(d))
    BY Level1
  <2>2. d1 = IF from < 1 /\ 1 <= to THEN V1(d) ELSE d
    BY DEF d1
  <2>3. IF from < 1 /\ 1 <= to
        THEN Reached(0, from, to) = 0 /\ Reached(1, from, to) = 1
        ELSE Reached(1, from, to) = Reached(0, from, to)
    BY DEF Reached
  <2>. QED  BY <1>0, <2>1, <2>2, <2>3
<1>2. Level(Reached(2, from, to), d2)
  <2>1. Level(1, d1) => Level(2, V2(d1))
    BY Level2
  <2>2. d2 = IF from < 2 /\ 2 <= to THEN V2(d1) ELSE d1
    BY DEF d2
  <2>3. IF from < 2 /\ 2 <= to
        THEN Reached(1, from, to) = 1 /\ Reached(2, from, to) = 2
        ELSE Reached(2, from, to) = Reached(1, from, to)
    BY DEF Reached
  <2>. QED  BY <1>1, <2>1, <2>2, <2>3
<1>3. Level(Reached(3, from, to), d3)
  <2>1. Level(2, d2) => Level(3, V3(d2))
    BY Level3
  <2>2. d3 = IF from < 3 /\ 3 <= to THEN V3(d2) ELSE d2
    BY DEF d3
  <2>3. IF from < 3 /\ 3 <= to
        THEN Reached(2, from, to) = 2 /\ Reached(3, from, to) = 3
        ELSE Reached(3, from, to) = Reached(2, from, to)
    BY DEF Reached
  <2>. QED  BY <1>2, <2>1, <2>2, <2>3
<1>4. Level(Reached(4, from, to), d4)
  <2>1. Level(3, d3) => Level(4, V4(d3))
    BY Level4
  <2>2. d4 = IF from < 4 /\ 4 <= to THEN V4(d3) ELSE d3
    BY DEF d4
  <2>3. IF from < 4 /\ 4 <= to
        THEN Reached(3, from, to) = 3 /\ Reached(4, from, to) = 4
        ELSE Reached(4, from, to) = Reached(3, from, to)
    BY DEF Reached
  <2>. QED  BY <1>3, <2>1, <2>2, <2>3
<1>5. Level(Reached(5, from, to), d5)
  <2>1. Level(4, d4) => Level(5, V5(d4))
    BY Level5
  <2>2. d5 = IF from < 5 /\ 5 <= to THEN V5(d4) ELSE d4
    BY DEF d5
  <2>3. IF from < 5 /\ 5 <= to
        THEN Reached(4, from, to) = 4 /\ Reached(5, from, to) = 5
        ELSE Reached(5, from, to) = Reached(4, from, to)
    BY DEF Reached
  <2>. QED  BY <1>4, <2>1, <2>2, <2>3
<1>6. Level(Reached(6, from, to), d6)
  <2>1. Level(5, d5) => Level(6, V6(d5))
    BY Level6
  <2>2. d6 = IF from < 6 /\ 6 <= to THEN V6(d5) ELSE d5
    BY DEF d6
  <2>3. IF from < 6 /\ 6 <= to
        THEN Reached(5, from, to) = 5 /\ Reached(6, from, to) = 6
        ELSE Reached(6, from, to) = Reached(5, from, to)
    BY DEF Reached
  <2>. QED  BY <1>5, <2>1, <2>2, <2>3
<1>7. Level(Reached(7, from, to), d7)
  <2>1. Level(6, d6) => Level(7, V7(d6))
    BY Level7
  <2>2. d7 = IF from < 7 /\ 7 <= to THEN V7(d6) ELSE d6
    BY DEF d7
  <2>3. IF from < 7 /\ 7 <= to
        THEN Reached(6, from, to) = 6 /\ Reached(7, from, to) = 7
        ELSE Reached(7, from, to) = Reached(6, from, to)
    BY DEF Reached
  <2>. QED  BY <1>6, <2>1, <2>2, <2>3
<1>8. Level(Reached(8, from, to), d8)
  <2>1. Level(7, d7) => Level(8, V8(d7))
    BY Level8
  <2>2. d8 = IF from < 8 /\ 8 <= to THEN V8(d7) ELSE d7
    BY DEF d8
  <2>3. IF from < 8 /\ 8 <= to
        THEN Reached(7, from, to) = 7 /\ Reached(8, from, to) = 8
        ELSE Reached(8, from, to) = Reached(7, from, to)
    BY DEF Reached
  <2>. QED  BY <1>7, <2>1, <2>2, <2>3
<1>9. Level(Reached(9, from, to), d9)
  <2>1. Level(8, d8) => Level(9, V9(d8))
    BY Level9
  <2>2. d9 = IF from < 9 /\ 9 <= to THEN V9(d8) ELSE d8
    BY DEF d9
  <2>3. IF from < 9 /\ 9 <= to
        THEN Reached(8, from, to) = 8 /\ Reached(9, from, to) = 9
        ELSE Reached(9, from, to) = Reached(8, from, to)
    BY DEF Reached
  <2>. QED  BY <1>8, <2>1, <2>2, <2>3
<1>10. Level(Reached(10, from, to), d10)
  <2>1. Level(9, d9) => Level(10, V10(d9))
    BY Level10
  <2>2. d10 = IF from < 10 /\ 10 <= to THEN V10(d9) ELSE d9
    BY DEF d10
  <2>3. IF from < 10 /\ 10 <= to
        THEN Reached(9, from, to) = 9 /\ Reached(10, from, to) = 10
        ELSE Reached(10, from, to) = Reached(9, from, to)
    BY DEF Reached
  <2>. QED  BY <1>9, <2>1, <2>2, <2>3
<1>. QED  BY <1>10, <1>11

\* A database file: what its version promises, or one of a newer binary.
Sane(d) == d \in Database /\ (d.version <= SchemaVersion => Level(d.version, d))

LEMMA SaneMapped ==
  ASSUME NEW d, Sane(d), d.version = SchemaVersion
  PROVE  Mapped(d)
<1>1. Level(10, d)
  BY DEF Sane, SchemaVersion
<1>. QED  BY <1>1 DEF Level, OnePlace, Mapped

LEMMA EmptySane == Sane(EmptyFile)
<1>1. EmptyFile \in Database
  BY DEF EmptyFile, Database, SchemaVersion
<1>. QED  BY <1>1 DEF EmptyFile, Sane, Level, SchemaVersion

\* A new version leaves a database on its level.
LEMMA LevelVersion ==
  ASSUME NEW n, NEW d, Level(n, d), NEW v \in 0 .. SchemaVersion + 1
  PROVE  /\ Level(n, [d EXCEPT !.version = v])
         /\ [d EXCEPT !.version = v].version = v
<1>. DEFINE e == [d EXCEPT !.version = v]
<1>1. d \in Database
  BY DEF Level
<1>2. /\ e \in Database /\ e.version = v /\ e.tables = d.tables
      /\ e.old = d.old /\ e.vec = d.vec /\ e.map = d.map
  BY <1>1 DEF Database
<1>. HIDE DEF e
<1>3. Level(n, e)
  BY <1>2 DEF Level
<1>. QED  BY <1>2, <1>3 DEF e

LEMMA MigrateSane ==
  ASSUME NEW d, Sane(d)
  PROVE  /\ Sane(MigrateInner(d))
         /\ d.version >= SchemaVersion => MigrateInner(d) = d
<1>1. d.version \in 0 .. 11 /\ SchemaVersion = 10
  BY DEF Sane, Database, SchemaVersion
<1>2. CASE d.version >= SchemaVersion
  BY <1>2 DEF MigrateInner
<1>3. CASE d.version < SchemaVersion
  <2>. DEFINE v == d.version
              e == Climbed(d, v, 10)
              f == [e EXCEPT !.version = 10]
  <2>1. ~(v >= SchemaVersion)
    BY <1>1, <1>3
  <2>2. MigrateInner(d) = f
    BY <1>1, <2>1 DEF MigrateInner
  <2>3. v \in 0 .. 10 /\ v <= 10 /\ 10 \in 0 .. 11 /\ Level(v, d)
    BY <1>1, <1>3 DEF Sane
  <2>. HIDE DEF v
  <2>4. Level(Reached(10, v, 10), e)
    BY <2>3, ClimbedTo
  <2>5. Reached(10, v, 10) = 10
    BY <2>3 DEF Reached
  <2>. HIDE DEF e
  <2>6. 10 \in 0 .. SchemaVersion + 1 /\ Level(10, e)
    BY <1>1, <2>4, <2>5
  <2>7. Level(10, f) /\ f.version = 10
    BY <2>6, LevelVersion
  <2>. HIDE DEF f
  <2>8. Sane(f)
    BY <1>1, <2>7 DEF Sane, Level
  <2>. QED  BY <2>1, <2>2, <2>8 DEF v
<1>. QED  BY <1>1, <1>2, <1>3

\* What an older release left: its level, and vectors of the entities.
LEMMA LegacySane ==
  ASSUME NEW v \in 0 .. SchemaVersion + 1, NEW es \in SUBSET Entity
  PROVE  Sane(Legacy(v, es))
<1>. DEFINE b    == Climbed(EmptyFile, 0, v)
            rows == {<<e, SpaceOf(e), 1>> : e \in es}
            f    == [b EXCEPT !.version = v, !.old = es,
                              !.tables = (@ \ {"spaces"}) \cup {"single"}]
            g    == [b EXCEPT !.version = v, !.vec = rows,
                              !.map = IF v < 9 THEN {} ELSE rows]
<1>1. SchemaVersion = 10 /\ v \in 0 .. 11
  BY DEF SchemaVersion
<1>2. Level(0, EmptyFile)
  BY EmptySane DEF Sane, EmptyFile, SchemaVersion
<1>3. Level(Reached(10, 0, v), b)
  BY <1>1, <1>2, ClimbedTo
<1>4. Legacy(v, es) = IF v < 3 THEN f ELSE g
  BY DEF Legacy
<1>5. OnePlace(rows) /\ rows \subseteq Row
  <2>1. \A x \in Entity : SpaceOf(x) \in Spaces
    BY DEF SpaceOf, Spaces
  <2>2. ASSUME NEW w \in rows PROVE w = <<w[1], SpaceOf(w[1]), 1>> /\ w \in Row
    BY <2>1 DEF Row
  <2>. HIDE DEF rows
  <2>3. \A w \in rows : w[2] = SpaceOf(w[1])
    BY <2>2
  <2>. QED  BY <2>2, <2>3 DEF OnePlace
<1>. HIDE DEF b, rows
<1>6. b \in Database
  BY <1>3 DEF Level
<1>7. CASE v < 3
  <2>1. Reached(10, 0, v) = v
    BY <1>1, <1>7 DEF Reached
  <2>2. b.vec = {} /\ b.map = {}
    BY <1>1, <1>3, <1>7, <2>1 DEF Level
  <2>3. /\ f \in Database /\ f.version = v /\ f.vec = {} /\ f.map = {}
        /\ f.tables = (b.tables \ {"spaces"}) \cup {"single"}
    <3>1. (b.tables \ {"spaces"}) \cup {"single"} \in SUBSET Tables
      BY <1>6 DEF Database, Tables
    <3>. QED  BY <1>6, <2>2, <3>1 DEF Database
  <2>. HIDE DEF f, g
  <2>4. Level(v, f)
    BY <1>1, <1>7, <2>3 DEF Level
  <2>. QED  BY <1>4, <1>7, <2>3, <2>4 DEF Sane
<1>8. CASE v >= 3
  <2>1. Reached(10, 0, v) \in 3 .. 10
    BY <1>1, <1>8 DEF Reached
  <2>2. b.old = {}
    BY <1>3, <2>1 DEF Level
  <2>3. /\ g \in Database /\ g.version = v /\ g.vec = rows /\ g.old = {}
        /\ g.map = IF v < 9 THEN {} ELSE rows
    BY <1>5, <1>6, <2>2 DEF Database
  <2>. HIDE DEF f, g
  <2>4. Level(v, g)
    BY <1>1, <1>5, <1>8, <2>3 DEF Level
  <2>5. ~(v < 3)
    BY <1>1, <1>8
  <2>. QED  BY <1>4, <2>3, <2>4, <2>5 DEF Sane
<1>. QED  BY <1>1, <1>7, <1>8

\* The row a vector replaces is the one the map names.
LEMMA InsertSane ==
  ASSUME NEW d, Sane(d), d.version = SchemaVersion, NEW e \in Knowledge
  PROVE  Sane(InsertEmbedding(d, e)) /\ InsertEmbedding(d, e).version = SchemaVersion
<1>. DEFINE kept == d.vec \ {v \in d.map : v[1] = e}
            row  == <<e, SpaceOf(e), IF <<e, SpaceOf(e), 1>> \in kept THEN 2 ELSE 1>>
            f    == [d EXCEPT !.vec = kept \cup {row},
                              !.map = {v \in @ : v[1] # e} \cup {row}]
<1>1. SchemaVersion = 10 /\ d \in Database /\ d.old = {} /\ OnePlace(d.vec) /\ d.map = d.vec
  BY DEF Sane, SchemaVersion, Level
<1>2. InsertEmbedding(d, e) = f
  BY DEF InsertEmbedding
<1>3. kept = {v \in d.vec : v[1] # e}
  BY <1>1
<1>4. row \in Row /\ row[1] = e /\ row[2] = SpaceOf(e)
  <2>1. SpaceOf(e) \in Spaces /\ e \in Entity
    BY DEF SpaceOf, Spaces, Entity
  <2>. QED  BY <2>1 DEF Row
<1>5. kept \subseteq Row
  BY <1>1 DEF Database
<1>6. {v \in d.map : v[1] # e} = kept
  BY <1>1, <1>3
<1>. HIDE DEF kept, row
<1>7. /\ f \in Database /\ f.version = 10 /\ f.old = {}
      /\ f.vec = kept \cup {row} /\ f.map = kept \cup {row}
  BY <1>1, <1>4, <1>5, <1>6 DEF Database
<1>8. OnePlace(kept \cup {row})
  BY <1>1, <1>3, <1>4 DEF OnePlace
<1>. HIDE DEF f
<1>9. Level(10, f)
  BY <1>7, <1>8 DEF Level
<1>. QED  BY <1>1, <1>2, <1>7, <1>9 DEF Sane

-----------------------------------------------------------------------------
(* Every file is sane, and those the server holds are migrated.            *)

\* A database file of a repository that has been migrated.
Migrated(r, i, d) == i \in 1 .. Len(d[r]) /\ d[r][i].version = SchemaVersion

Filed == \A r \in Repo : \A i \in 1 .. Len(db[r]) : Sane(db[r][i])

\* The file a call or an entry of the cache works with.
Held(l, d) ==
  l.pc = "stamp" \/ l.pc \in Stateful \/ Own(l) => Migrated(l.repo, l.state.ino, d)

Opened ==
  /\ \A c \in Call : call[c].pc \in Steps => Held(call[c], db)
  /\ \A r \in Repo : repos[r].kind = "ready" => Migrated(r, repos[r].state.ino, db)

\* A migrated file stays one.
Lasting == \A r \in Repo : \A i : Migrated(r, i, db) => Migrated(r, i, db')

LEMMA FiledFile ==
  ASSUME Disk, Filed, NEW r \in Repo, NEW s, db' = [db EXCEPT ![r] = s],
         Len(s) \in Nat, Len(s) >= Len(db[r]),
         \A i \in 1 .. Len(s) : Sane(s[i]),
         \A i \in 1 .. Len(db[r]) :
           db[r][i].version = SchemaVersion => s[i].version = SchemaVersion
  PROVE  Filed' /\ Lasting
<1>1. \A x \in Repo : db'[x] = IF x = r THEN s ELSE db[x]
  BY DEF Disk
<1>2. ASSUME NEW x \in Repo, NEW i \in 1 .. Len(db'[x]) PROVE Sane(db'[x][i])
  <2>1. CASE x = r
    <3>1. db'[x] = s
      BY <1>1, <2>1
    <3>. QED  BY <1>2, <3>1
  <2>2. CASE x # r
    BY <1>1, <1>2, <2>2 DEF Filed
  <2>. QED  BY <2>1, <2>2
<1>3. ASSUME NEW x \in Repo, NEW i, Migrated(x, i, db) PROVE Migrated(x, i, db')
  <2>1. CASE x = r
    <3>1. db'[x] = s
      BY <1>1, <2>1
    <3>2. Len(db[r]) \in Nat
      BY DEF Disk
    <3>3. i \in 1 .. Len(db[r]) /\ db[r][i].version = SchemaVersion
      BY <1>3, <2>1 DEF Migrated
    <3>4. i \in 1 .. Len(s) /\ s[i].version = SchemaVersion
      BY <3>2, <3>3
    <3>. QED  BY <3>1, <3>4 DEF Migrated
  <2>2. CASE x # r
    <3>1. db'[x] = db[x]
      BY <1>1, <2>2
    <3>. QED  BY <1>3, <3>1 DEF Migrated
  <2>. QED  BY <2>1, <2>2
<1>4. \A x \in Repo : \A i \in 1 .. Len(db'[x]) : Sane(db'[x][i])
  BY <1>2
<1>5. Filed'
  BY <1>4 DEF Filed
<1>. QED  BY <1>3, <1>5 DEF Lasting

\* A file more.
LEMMA FiledAppend ==
  ASSUME Disk, Filed, NEW r \in Repo, NEW d, Sane(d), db' = [db EXCEPT ![r] = Append(db[r], d)]
  PROVE  /\ Filed' /\ Lasting
         /\ d.version = SchemaVersion => Migrated(r, Len(db[r]) + 1, db')
<1>. DEFINE q == db[r]
            s == Append(q, d)
            n == Len(q)
<1>1. IsSeq(q) /\ n \in Nat
  BY DEF Disk
<1>2. PICK S : q \in Seq(S)
  BY <1>1 DEF IsSeq
<1>3. q \in Seq(S \cup {d}) /\ d \in S \cup {d}
  BY <1>2
<1>4. Len(s) = n + 1 /\ s[n + 1] = d /\ \A i \in 1 .. n : s[i] = q[i]
  BY <1>3, AppendProperties
<1>5. \A i \in 1 .. n : Sane(q[i])
  BY DEF Filed
<1>6. db' = [db EXCEPT ![r] = s] /\ db'[r] = s
  BY DEF Disk
<1>. HIDE DEF s, n
<1>7. \A i \in 1 .. Len(s) : Sane(s[i])
  <2>1. ASSUME NEW i \in 1 .. Len(s) PROVE Sane(s[i])
    <3>1. i \in 1 .. n \/ i = n + 1
      BY <1>1, <1>4
    <3>. QED  BY <1>4, <1>5, <3>1
  <2>. QED  BY <2>1
<1>8. n = Len(db[r]) /\ Len(s) \in Nat /\ Len(s) >= Len(db[r])
  BY <1>1, <1>4 DEF n
<1>9. \A i \in 1 .. Len(db[r]) :
        db[r][i].version = SchemaVersion => s[i].version = SchemaVersion
  BY <1>4, <1>8
<1>. HIDE DEF q
<1>10. Filed' /\ Lasting
  BY <1>6, <1>7, <1>8, <1>9, FiledFile
<1>11. n + 1 \in 1 .. Len(db'[r]) /\ db'[r][n + 1] = d
  BY <1>1, <1>4, <1>6
<1>. QED  BY <1>8, <1>10, <1>11 DEF Migrated

\* New contents for a file that is there.
LEMMA FiledPut ==
  ASSUME Disk, Filed, NEW r \in Repo, NEW k \in 1 .. Len(db[r]), NEW d, Sane(d),
         db[r][k].version = SchemaVersion => d.version = SchemaVersion,
         db' = [db EXCEPT ![r] = Put(db[r], k, d)]
  PROVE  /\ Filed' /\ Lasting
         /\ d.version = SchemaVersion => Migrated(r, k, db')
<1>. DEFINE q == db[r]
            s == Put(q, k, d)
<1>1. IsSeq(q) /\ Len(q) \in Nat
  BY DEF Disk
<1>2. IsSeq(s) /\ Len(s) = Len(q)
  BY <1>1, SeqPut
<1>3. PICK S : q \in Seq(S)
  BY <1>1 DEF IsSeq
<1>4. \A i \in 1 .. Len(q) : s[i] = IF i = k THEN d ELSE q[i]
  BY <1>3 DEF Put
<1>5. \A i \in 1 .. Len(q) : Sane(q[i])
  BY DEF Filed
<1>6. db' = [db EXCEPT ![r] = s] /\ db'[r] = s
  BY DEF Disk
<1>. HIDE DEF s
<1>7. \A i \in 1 .. Len(s) : Sane(s[i])
  BY <1>2, <1>4, <1>5
<1>8. \A i \in 1 .. Len(db[r]) :
        db[r][i].version = SchemaVersion => s[i].version = SchemaVersion
  BY <1>4
<1>9. Filed' /\ Lasting
  <2>1. Len(s) \in Nat /\ Len(s) >= Len(db[r])
    BY <1>1, <1>2
  <2>. QED  BY <1>6, <1>7, <1>8, <2>1, FiledFile
<1>10. k \in 1 .. Len(db'[r]) /\ db'[r][k] = d
  BY <1>2, <1>4, <1>6
<1>. QED  BY <1>9, <1>10 DEF Migrated

LEMMA FiledSame ==
  ASSUME Filed, UNCHANGED db
  PROVE  Filed' /\ Lasting
  BY DEF Filed, Lasting

\* A write reaches a migrated file.
LEMMA FiledWrite ==
  ASSUME Disk, Shape, Filed, Opened, NEW c \in Call, Write(c)
  PROVE  Filed' /\ Lasting
<1>1. CASE UNCHANGED disk
  BY <1>1, FiledSame DEF disk
<1>2. ASSUME NEW e \in Knowledge, At(c, "write"),
             db' = [db EXCEPT ![call[c].repo][call[c].state.ino] = InsertEmbedding(@, e)]
      PROVE  Filed' /\ Lasting
  <2>. DEFINE r == call[c].repo
              k == call[c].state.ino
              d == InsertEmbedding(db[r][k], e)
  <2>1. call[c].pc = "write" /\ call[c].pc \in Steps /\ call[c].pc \in Stateful
    BY <1>2 DEF At, Steps, Stateful
  <2>2. r \in Repo /\ Migrated(r, k, db)
    BY <2>1, BegunAt DEF Begun, Opened, Held
  <2>3. db' = [db EXCEPT ![r] = Put(db[r], k, d)]
    BY <1>2 DEF Put
  <2>. HIDE DEF r, k
  <2>4. k \in 1 .. Len(db[r]) /\ db[r][k].version = SchemaVersion /\ Sane(db[r][k])
    BY <2>2 DEF Migrated, Filed
  <2>5. Sane(d) /\ d.version = SchemaVersion
    BY <2>4, InsertSane
  <2>. HIDE DEF d
  <2>. QED  BY <2>2, <2>3, <2>4, <2>5, FiledPut
<1>. QED  BY <1>1, <1>2 DEF Write, WriteRow, disk

\* An open migrates what it found, or leaves it.
LEMMA FiledOpen ==
  ASSUME Disk, Shape, Filed, Opened, NEW c \in Call, OpenStorage(c)
  PROVE  /\ Filed' /\ Lasting
         /\ \/ \E r : GoRemove(c, r, "failed")
            \/ \E t : With(c, "stamp", t) /\ Migrated(call[c].repo, t.ino, db')
<1>. DEFINE r     == call[c].repo
            fresh == file[r] = 0
            ino   == IF fresh THEN Len(db[r]) + 1 ELSE file[r]
            found == IF fresh THEN EmptyFile ELSE db[r][ino]
            at(d) == IF fresh THEN Append(db[r], d) ELSE [db[r] EXCEPT ![ino] = d]
            new   == MigrateInner(found)
            t     == [conf |-> call[c].state.conf, ino |-> ino]
<1>1. \/ /\ db' = [db EXCEPT ![r] = at(new)]
         /\ IF CheckVersion(new) THEN With(c, "stamp", t) ELSE GoRemove(c, r, "failed")
      \/ /\ db' = [db EXCEPT ![r] = at(found)]
         /\ GoRemove(c, r, "failed")
  BY DEF OpenStorage
<1>2. call[c].pc = "open" /\ call[c].pc \in Steps
  BY DEF OpenStorage, At, Steps
<1>3. r \in Repo
  BY <1>2, BegunAt DEF Begun
<1>4. Len(db[r]) \in Nat \ {0} /\ file[r] \in {0, Len(db[r])} /\ t.ino = ino
  BY <1>3 DEF Disk
<1>. HIDE DEF r, t
<1>5. ~fresh => ino \in 1 .. Len(db[r])
  BY <1>4
<1>6. Sane(found)
  <2>1. CASE fresh
    BY <2>1, EmptySane
  <2>2. CASE ~fresh
    BY <1>3, <1>5, <2>2 DEF Filed
  <2>. QED  BY <2>1, <2>2
<1>7. Sane(new) /\ (found.version >= SchemaVersion => new = found)
  <2>. HIDE DEF found
  <2>. QED  BY <1>6, MigrateSane
<1>8. ~fresh => found = db[r][ino]
  OBVIOUS
<1>. HIDE DEF found, new
<1>9. ASSUME NEW d, Sane(d), db' = [db EXCEPT ![r] = at(d)],
             found.version = SchemaVersion => d.version = SchemaVersion
      PROVE  Filed' /\ Lasting /\ (d.version = SchemaVersion => Migrated(r, ino, db'))
  <2>1. CASE fresh
    <3>1. db' = [db EXCEPT ![r] = Append(db[r], d)] /\ ino = Len(db[r]) + 1
      BY <1>9, <2>1
    <3>. HIDE DEF at, ino
    <3>. QED  BY <1>3, <1>9, <3>1, FiledAppend
  <2>2. CASE ~fresh
    <3>1. db' = [db EXCEPT ![r] = Put(db[r], ino, d)]
      BY <1>9, <2>2 DEF Put
    <3>2. ino \in 1 .. Len(db[r]) /\ (db[r][ino].version = SchemaVersion => d.version = SchemaVersion)
      BY <1>5, <1>8, <1>9, <2>2
    <3>. HIDE DEF at, ino
    <3>. QED  BY <1>3, <1>9, <3>1, <3>2, FiledPut
  <2>. QED  BY <2>1, <2>2
<1>10. CASE db' = [db EXCEPT ![r] = at(found)] /\ GoRemove(c, r, "failed")
  <2>. HIDE DEF at
  <2>. QED  BY <1>6, <1>9, <1>10
<1>11. found.version = SchemaVersion => new.version = SchemaVersion
  BY <1>7 DEF SchemaVersion
<1>12. CASE /\ db' = [db EXCEPT ![r] = at(new)]
            /\ IF CheckVersion(new) THEN With(c, "stamp", t) ELSE GoRemove(c, r, "failed")
  <2>. HIDE DEF at
  <2>1. Filed' /\ Lasting /\ (new.version = SchemaVersion => Migrated(r, ino, db'))
    BY <1>7, <1>9, <1>11, <1>12
  <2>2. CASE CheckVersion(new)
    <3>1. With(c, "stamp", t) /\ Migrated(r, t.ino, db')
      BY <1>4, <1>12, <2>1, <2>2 DEF CheckVersion
    <3>. QED  BY <2>1, <3>1 DEF r
  <2>3. CASE ~CheckVersion(new)
    BY <1>12, <2>1, <2>3
  <2>. QED  BY <2>2, <2>3
<1>. QED  BY <1>1, <1>10, <1>12

LEMMA FiledNext ==
  ASSUME Disk, Shape, Filed, Opened, [Next]_vars
  PROVE  Filed' /\ Lasting
<1>1. ASSUME NEW c \in Call, Resolve(c) PROVE UNCHANGED db
  BY <1>1 DEF Resolve, Begin, Get, Stat, Touch, RemoveEntry, Unlist, disk
<1>2. ASSUME NEW c \in Call, LoadConfig(c) \/ Publish(c) \/ List(c) \/ EvictIfOverCapacity(c)
      PROVE  UNCHANGED db
  BY <1>2 DEF LoadConfig, Publish, List, EvictIfOverCapacity, disk
<1>3. ASSUME NEW c \in Call, LockMutex(c) \/ LockFile(c) PROVE UNCHANGED db
  BY <1>3 DEF LockMutex, LockFile, disk
<1>4. ASSUME NEW r \in Repo, EditConfig(r) \/ Reset(r) PROVE UNCHANGED db
  BY <1>4 DEF EditConfig, Reset
<1>5. ASSUME NEW r \in Repo, Index(r) PROVE Filed' /\ Lasting
  <2>. DEFINE d == MigrateInner(EmptyFile)
  <2>1. Sane(d) /\ db' = [db EXCEPT ![r] = Append(db[r], d)]
    BY <1>5, EmptySane, MigrateSane DEF Index
  <2>. HIDE DEF d
  <2>. QED  BY <2>1, FiledAppend
<1>6. CASE Idle \/ UNCHANGED vars
  <2>1. UNCHANGED db
    BY <1>6 DEF Idle, vars, disk
  <2>. QED  BY <2>1, FiledSame
<1>7. ASSUME UNCHANGED db PROVE Filed' /\ Lasting
  BY <1>7, FiledSame
<1>. QED  BY <1>1, <1>2, <1>3, <1>4, <1>5, <1>6, <1>7, FiledWrite, FiledOpen
          DEF Next, CallStep, OpenRepo, CanonicalWrite

\* A step of one call, which leaves the cache alone or changes one entry.
LEMMA OpenedCall ==
  ASSUME Shape, Opened, Lasting, NEW c \in Call, Others(c),
         call'[c].pc \in Steps => Held(call'[c], db'),
         \/ UNCHANGED repos
         \/ \E r, e : /\ repos' = [repos EXCEPT ![r] = e]
                      /\ r \in Repo /\ e.kind = "ready" => Migrated(r, e.state.ino, db')
  PROVE  Opened'
<1>1. ASSUME NEW d \in Call, call'[d].pc \in Steps PROVE Held(call'[d], db')
  <2>1. CASE d = c
    BY <1>1, <2>1
  <2>2. CASE d # c
    <3>1. call'[d] = call[d]
      BY <2>2 DEF Others
    <3>2. Held(call[d], db) /\ call[d].repo \in Repo
      BY <1>1, <3>1, BegunAt DEF Opened, Begun
    <3>. QED  BY <3>1, <3>2 DEF Held, Lasting
  <2>. QED  BY <2>1, <2>2
<1>2. ASSUME NEW r \in Repo, repos'[r].kind = "ready"
      PROVE  Migrated(r, repos'[r].state.ino, db')
  <2>1. repos[r].kind = "ready" => Migrated(r, repos[r].state.ino, db')
    BY DEF Opened, Lasting
  <2>2. CASE UNCHANGED repos
    BY <1>2, <2>1, <2>2
  <2>3. ASSUME NEW x, NEW e, repos' = [repos EXCEPT ![x] = e],
               x \in Repo /\ e.kind = "ready" => Migrated(x, e.state.ino, db')
        PROVE  Migrated(r, repos'[r].state.ino, db')
    <3>1. repos'[r] = IF r = x THEN e ELSE repos[r]
      BY <2>3 DEF Shape
    <3>. QED  BY <1>2, <2>1, <2>3, <3>1
  <2>. QED  BY <2>2, <2>3
<1>3. \A d \in Call : call'[d].pc \in Steps => Held(call'[d], db')
  BY <1>1
<1>4. \A r \in Repo : repos'[r].kind = "ready" => Migrated(r, repos'[r].state.ino, db')
  BY <1>2
<1>. QED  BY <1>3, <1>4 DEF Opened

LEMMA OpenedSame ==
  ASSUME Shape, Opened, Lasting, UNCHANGED <<call, repos>>
  PROVE  Opened'
<1>1. ASSUME NEW d \in Call, call[d].pc \in Steps PROVE Held(call[d], db')
  <2>1. Held(call[d], db) /\ call[d].repo \in Repo
    BY <1>1, BegunAt DEF Opened, Begun
  <2>. QED  BY <2>1 DEF Held, Lasting
<1>2. ASSUME NEW r \in Repo, repos[r].kind = "ready" PROVE Migrated(r, repos[r].state.ino, db')
  BY <1>2 DEF Opened, Lasting
<1>3. /\ \A d \in Call : call'[d].pc \in Steps => Held(call'[d], db')
      /\ \A r \in Repo : repos'[r].kind = "ready" => Migrated(r, repos'[r].state.ino, db')
  BY <1>1, <1>2
<1>. QED  BY <1>3 DEF Opened

\* A call goes on with the state it has, if it needs one.
LEMMA OpenedGo ==
  ASSUME Shape, Opened, Lasting, NEW c \in Call, NEW s, NEW a, Go(c, s, a),
         call[c].pc \in Steps, s # "stamp",
         s \in Stateful \/ (s \in Removing /\ a.next = "trim") =>
           call[c].pc \in Stateful \/ Own(call[c]),
         UNCHANGED repos \/ \E r : repos' = [repos EXCEPT ![r] = Missing]
  PROVE  Opened'
<1>. DEFINE l == call[c]
            m == call'[c]
<1>1. /\ Others(c) /\ m.pc = s /\ m.arg = a /\ m.state = l.state /\ m.repo = l.repo
  BY GoIs
<1>2. l.repo \in Repo /\ Held(l, db)
  BY BegunAt DEF Begun, Opened
<1>. HIDE DEF m
<1>3. m.pc \in Stateful \/ Own(m) => l.pc \in Stateful \/ Own(l)
  BY <1>1 DEF Own, Stateful
<1>. HIDE DEF l
<1>4. Held(m, db')
  BY <1>1, <1>2, <1>3 DEF Held, Lasting
<1>5. Others(c) /\ (call'[c].pc \in Steps => Held(call'[c], db'))
  BY <1>1, <1>4 DEF m
<1>6. CASE UNCHANGED repos
  BY <1>5, <1>6, OpenedCall
<1>7. ASSUME NEW r, repos' = [repos EXCEPT ![r] = Missing] PROVE Opened'
  <2>1. Missing.kind # "ready"
    BY DEF Missing
  <2>2. \E x, y : repos' = [repos EXCEPT ![x] = y]
                  /\ (x \in Repo /\ y.kind = "ready" => Migrated(x, y.state.ino, db'))
    BY <1>7, <2>1
  <2>. QED  BY <1>5, <2>2, OpenedCall
<1>. QED  BY <1>6, <1>7

LEMMA OpenedEnd ==
  ASSUME Shape, Opened, Lasting, NEW c \in Call, Return(c), UNCHANGED repos
  PROVE  Opened'
<1>1. Others(c) /\ call'[c] = Over
  BY ReturnIs
<1>2. Over.pc \notin Steps
  BY DEF Over, Steps, Stateful, Removing
<1>. QED  BY <1>1, <1>2, OpenedCall

LEMMA OpenedBegin ==
  ASSUME Shape, Opened, Lasting, NEW c \in Call, Begin(c)
  PROVE  Opened'
<1>1. PICK r \in Repo : call' = [call EXCEPT ![c] = [pc |-> "get", repo |-> r, state |-> NoState,
                                    arg |-> <<>>, since |-> <<conf[r], file[r]>>]]
  BY DEF Begin
<1>. DEFINE m == [pc |-> "get", repo |-> r, state |-> NoState,
                  arg |-> <<>>, since |-> <<conf[r], file[r]>>]
<1>2. m.pc = "get"
  OBVIOUS
<1>3. Others(c) /\ call'[c] = m /\ UNCHANGED repos
  BY <1>1 DEF Shape, Others, Begin, cache
<1>. HIDE DEF m
<1>4. Held(m, db')
  BY <1>2 DEF Held, Own, Stateful, Removing
<1>. QED  BY <1>3, <1>4, OpenedCall

LEMMA OpenedGet ==
  ASSUME Shape, Opened, Lasting, NEW c \in Call, Get(c)
  PROVE  Opened'
<1>. DEFINE r == call[c].repo
            m == call'[c]
<1>1. call[c].pc = "get" /\ call[c].pc \in Steps
  BY DEF Get, At, Steps
<1>2. r \in Repo
  BY <1>1, BegunAt DEF Begun
<1>3. CASE repos[r].kind = "ready" /\ With(c, "stat", repos[r].state) /\ UNCHANGED repos
  <2>1. Others(c) /\ m.pc = "stat" /\ m.state = repos[r].state /\ m.repo = r
    BY <1>1, <1>3, WithIs
  <2>. HIDE DEF m, r
  <2>2. Migrated(m.repo, m.state.ino, db')
    BY <1>2, <1>3, <2>1 DEF Opened, Lasting
  <2>3. Held(m, db')
    BY <2>2 DEF Held
  <2>. QED  BY <1>3, <2>1, <2>3, OpenedCall DEF m
<1>4. CASE repos' = [repos EXCEPT ![r] = Opening(c)] /\ Goto(c, "config")
  <2>. DEFINE e == Opening(c)
  <2>1. Others(c) /\ m.pc = "config" /\ e.kind # "ready"
    BY <1>1, <1>4, GoIs DEF Goto, Opening
  <2>. HIDE DEF m, e
  <2>2. Held(m, db')
    BY <2>1 DEF Held, Own, Stateful, Removing
  <2>3. \E x, y : repos' = [repos EXCEPT ![x] = y]
                  /\ (x \in Repo /\ y.kind = "ready" => Migrated(x, y.state.ino, db'))
    BY <1>4, <2>1 DEF e
  <2>. QED  BY <2>1, <2>2, <2>3, OpenedCall DEF m
<1>. QED  BY <1>3, <1>4 DEF Get

LEMMA OpenedFail ==
  ASSUME Shape, Opened, Lasting, NEW c \in Call, NEW r, GoRemove(c, r, "failed"),
         call[c].pc \in Steps, UNCHANGED repos
  PROVE  Opened'
<1>. DEFINE a == [target |-> r, next |-> "failed"]
<1>1. Go(c, "remove", a) /\ a.next = "failed"
  BY DEF GoRemove
<1>. HIDE DEF a
<1>2. "remove" \notin Stateful
  BY DEF Stateful
<1>. QED  BY <1>1, <1>2, OpenedGo

LEMMA OpenedCache ==
  ASSUME Shape, Opened, Lasting, NEW c \in Call,
         Stat(c) \/ Touch(c) \/ RemoveEntry(c) \/ Unlist(c) \/ List(c) \/ EvictIfOverCapacity(c)
  PROVE  Opened'
<1>. USE DEF Steps, Stateful, Removing
<1>1. CASE Stat(c)
  <2>1. call[c].pc = "stat" /\ UNCHANGED repos
    BY <1>1 DEF Stat, At, cache
  <2>2. CASE Goto(c, "touch")
    BY <2>1, <2>2, OpenedGo DEF Goto
  <2>3. CASE GoRemove(c, call[c].repo, "get")
    <3>. DEFINE a == [target |-> call[c].repo, next |-> "get"]
    <3>1. Go(c, "remove", a) /\ a.next = "get"
      BY <2>3 DEF GoRemove
    <3>. HIDE DEF a
    <3>. QED  BY <2>1, <3>1, OpenedGo
  <2>. QED  BY <1>1, <2>2, <2>3 DEF Stat
<1>2. CASE Touch(c)
  <2>1. call[c].pc = "touch" /\ UNCHANGED repos /\ Go(c, "mutex", <<>>)
    BY <1>2 DEF Touch, At, Goto
  <2>. QED  BY <2>1, OpenedGo
<1>3. CASE RemoveEntry(c)
  <2>1. /\ call[c].pc = "remove" /\ Go(c, "unlist", call[c].arg)
        /\ \E r : repos' = [repos EXCEPT ![r] = Missing]
    BY <1>3 DEF RemoveEntry, At
  <2>2. call[c].arg.next = "trim" => Own(call[c])
    BY <2>1 DEF Own
  <2>. QED  BY <2>1, <2>2, OpenedGo
<1>4. CASE Unlist(c)
  <2>1. call[c].pc = "unlist" /\ UNCHANGED repos
    BY <1>4 DEF Unlist, At
  <2>2. call[c].arg.next \in {"get", "failed", "trim"}
    BY <2>1, BegunAt DEF Begun
  <2>3. CASE call[c].arg.next = "failed"
    BY <1>4, <2>1, <2>3, OpenedEnd DEF Unlist
  <2>4. CASE call[c].arg.next = "get"
    <3>1. Go(c, "get", <<>>)
      BY <1>4, <2>4 DEF Unlist, Goto
    <3>. QED  BY <2>1, <3>1, OpenedGo
  <2>5. CASE call[c].arg.next = "trim"
    <3>1. Go(c, "trim", <<>>) /\ Own(call[c])
      BY <1>4, <2>1, <2>5 DEF Unlist, Goto, Own
    <3>. QED  BY <2>1, <3>1, OpenedGo
  <2>. QED  BY <2>2, <2>3, <2>4, <2>5
<1>5. CASE List(c)
  <2>1. call[c].pc = "list" /\ UNCHANGED repos /\ Go(c, "trim", <<>>)
    BY <1>5 DEF List, At, Goto
  <2>. QED  BY <2>1, OpenedGo
<1>6. CASE EvictIfOverCapacity(c)
  <2>1. call[c].pc = "trim" /\ UNCHANGED repos
    BY <1>6 DEF EvictIfOverCapacity, At, cache
  <2>2. \/ Goto(c, "mutex")
        \/ \E r : GoRemove(c, r, "trim")
    BY <1>6 DEF EvictIfOverCapacity
  <2>3. CASE Goto(c, "mutex")
    BY <2>1, <2>3, OpenedGo DEF Goto
  <2>4. ASSUME NEW r, GoRemove(c, r, "trim") PROVE Opened'
    <3>. DEFINE a == [target |-> r, next |-> "trim"]
    <3>1. Go(c, "remove", a) /\ a.next = "trim"
      BY <2>4 DEF GoRemove
    <3>. HIDE DEF a
    <3>. QED  BY <2>1, <3>1, OpenedGo
  <2>. QED  BY <2>2, <2>3, <2>4
<1>. QED  BY <1>1, <1>2, <1>3, <1>4, <1>5, <1>6

LEMMA OpenedLoad ==
  ASSUME Shape, Opened, Lasting, NEW c \in Call, LoadConfig(c)
  PROVE  Opened'
<1>. DEFINE t == [conf |-> conf[call[c].repo]]
            m == call'[c]
<1>1. call[c].pc \in Steps /\ UNCHANGED repos
  BY DEF LoadConfig, At, Steps, cache
<1>2. (\E r : GoRemove(c, r, "failed")) \/ With(c, "open", t)
  BY DEF LoadConfig
<1>3. CASE With(c, "open", t)
  <2>1. Others(c) /\ m.pc = "open"
    BY <1>1, <1>3, WithIs
  <2>. HIDE DEF m
  <2>2. Held(m, db')
    BY <2>1 DEF Held, Own, Stateful, Removing
  <2>. QED  BY <1>1, <2>1, <2>2, OpenedCall DEF m
<1>. QED  BY <1>1, <1>2, <1>3, OpenedFail

LEMMA OpenedOpen ==
  ASSUME Disk, Shape, Filed, Opened, NEW c \in Call, OpenStorage(c)
  PROVE  Opened'
<1>1. call[c].pc \in Steps /\ UNCHANGED repos
  BY DEF OpenStorage, At, Steps, cache
<1>2. Lasting
  BY FiledOpen
<1>3. ASSUME NEW t, With(c, "stamp", t), Migrated(call[c].repo, t.ino, db')
      PROVE  Opened'
  <2>. DEFINE m == call'[c]
  <2>1. Others(c) /\ m.pc = "stamp" /\ m.state = t /\ m.repo = call[c].repo
    BY <1>1, <1>3, WithIs
  <2>. HIDE DEF m
  <2>2. Held(m, db')
    BY <1>3, <2>1 DEF Held
  <2>. QED  BY <1>1, <1>2, <2>1, <2>2, OpenedCall DEF m
<1>. QED  BY <1>1, <1>2, <1>3, FiledOpen, OpenedFail

LEMMA OpenedPublish ==
  ASSUME Shape, Opened, Lasting, NEW c \in Call, Publish(c)
  PROVE  Opened'
<1>. DEFINE l == call[c]
            m == call'[c]
            t == [storage |-> c, repo |-> l.repo, conf |-> l.state.conf,
                  ino |-> l.state.ino, mtime |-> conf[l.repo], ident |-> file[l.repo]]
            e == Ready(t)
<1>1. l.pc = "stamp" /\ l.pc \in Steps
  BY DEF Publish, At, Steps
<1>2. repos' = [repos EXCEPT ![l.repo] = e] /\ With(c, "list", t)
  BY DEF Publish
<1>3. Others(c) /\ m.pc = "list" /\ m.state = t /\ m.repo = l.repo
  BY <1>1, <1>2, WithIs
<1>4. t.ino = l.state.ino /\ e.state = t
  BY DEF Ready
<1>5. l.repo \in Repo /\ Held(l, db)
  BY <1>1, BegunAt DEF Begun, Opened
<1>. HIDE DEF t, e, m, l
<1>6. Migrated(l.repo, t.ino, db')
  BY <1>1, <1>4, <1>5 DEF Held, Lasting
<1>7. Held(m, db')
  BY <1>3, <1>6 DEF Held
<1>8. \E x, y : repos' = [repos EXCEPT ![x] = y]
                /\ (x \in Repo /\ y.kind = "ready" => Migrated(x, y.state.ino, db'))
  BY <1>2, <1>4, <1>6
<1>. QED  BY <1>3, <1>7, <1>8, OpenedCall DEF m

LEMMA OpenedWrite ==
  ASSUME Shape, Opened, Lasting, NEW c \in Call, LockMutex(c) \/ LockFile(c) \/ Write(c)
  PROVE  Opened'
<1>1. UNCHANGED repos /\ call[c].pc \in {"mutex", "flock", "write", "release"}
  BY DEF LockMutex, LockFile, Write, cache, At
<1>2. Return(c) \/ \E s \in {"flock", "write", "release"} : Go(c, s, <<>>)
  BY DEF LockMutex, LockFile, Write, Goto
<1>3. call[c].pc \in Steps /\ call[c].pc \in Stateful
  BY <1>1 DEF Steps, Stateful
<1>. QED  BY <1>1, <1>2, <1>3, OpenedEnd, OpenedGo

LEMMA OpenedNext ==
  ASSUME Disk, Shape, Filed, Opened, [Next]_vars
  PROVE  Filed' /\ Opened'
<1>1. Filed' /\ Lasting
  BY FiledNext
<1>2. ASSUME NEW c \in Call, CallStep(c) PROVE Opened'
  BY <1>1, <1>2, OpenedBegin, OpenedGet, OpenedCache, OpenedLoad, OpenedOpen, OpenedPublish,
     OpenedWrite DEF CallStep, Resolve, OpenRepo, CanonicalWrite
<1>3. ASSUME NEW r \in Repo, EditConfig(r) \/ Reset(r) \/ Index(r) PROVE Opened'
  <2>1. UNCHANGED <<call, repos>>
    BY <1>3 DEF EditConfig, Reset, Index, cache
  <2>. QED  BY <1>1, <2>1, OpenedSame
<1>4. CASE Idle \/ UNCHANGED vars
  <2>1. UNCHANGED <<call, repos>>
    BY <1>4 DEF Idle, vars, cache
  <2>. QED  BY <1>1, <2>1, OpenedSame
<1>. QED  BY <1>1, <1>2, <1>3, <1>4 DEF Next

LEMMA OpenedInit == Init => Filed /\ Opened
<1>. SUFFICES ASSUME Init PROVE Filed /\ Opened
  OBVIOUS
<1>. DEFINE d == Legacy(Version, Entity)
<1>1. Sane(d)
  BY LegacySane, VersionAssumption
<1>2. db = [r \in Repo |-> <<d>>]
  BY DEF Init
<1>. HIDE DEF d
<1>3. \A r \in Repo : \A i \in 1 .. Len(db[r]) : Sane(db[r][i])
  BY <1>1, <1>2
<1>4. call = [c \in Call |-> [pc |-> "idle"]] /\ repos = [r \in Repo |-> Missing]
  BY DEF Init
<1>5. Missing.kind # "ready" /\ "idle" \notin Steps
  BY DEF Missing, Steps, Stateful, Removing
<1>. QED  BY <1>3, <1>4, <1>5 DEF Filed, Opened

(***************************************************************************)
(* No migration and no write loses, doubles or misplaces a vector, from    *)
(* whatever version the first database has (schema.rs:41, embeddings.rs:49):*)
(* every vector of a migrated file is in the space of its entity and is    *)
(* the one the rowid map names, also in files deleted while a call still   *)
(* has them open, and after opens that failed halfway.                     *)
(***************************************************************************)
THEOREM VectorsStayMapped == Spec => []VectorsMapped
<1>1. Filed => VectorsMapped
  BY SaneMapped DEF Filed, VectorsMapped
<1>. DEFINE IInv == (Disk /\ Shape /\ Sound) /\ (Filed /\ Opened)
<1>2. Init => IInv
  BY StepInit, OpenedInit
<1>3. IInv /\ [Next]_vars => IInv'
  BY StepNext, OpenedNext
<1>. QED  BY <1>1, <1>2, <1>3, PTL DEF Spec
=============================================================================
