----------------------- MODULE HookSession_proofs -----------------------
(***************************************************************************)
(* What holds of every session of calls, whatever the calls are and        *)
(* however their steps interleave: no call credits what it delivers        *)
(* itself, two packs are open together only when their calls overlapped,   *)
(* a closed delivery is settled, and a suggestion is shown once a day.     *)
(*                                                                         *)
(* The proofs share one account of a running call: what it still has to do *)
(* is the end of its plan, so its place in the plan says which steps lie   *)
(* behind it.                                                              *)
(***************************************************************************)
EXTENDS HookSession, Integers, TLAPS

Kinds == Hooks \cup Tools

StepName == {"record", "detect", "hit", "convert", "close", "pack", "rows", "log",
             "mine", "impress", "sweep"}

-----------------------------------------------------------------------------
(***************************************************************************)
(* The plans.                                                              *)
(***************************************************************************)

\* The plan of each kind of call.
LEMMA Plans ==
  /\ Plan("start") = StartPlan
  /\ Plan("prompt") = PromptPlan
  /\ Plan("tool") = ToolPlan
  /\ Plan("save") = SavePlan
  /\ Plan("end") = EndPlan
  /\ Plan("context") = ContextPlan
  /\ Plan("search") = SearchPlan
  /\ Plan("query") = QueryPlan
  /\ Plan("pull") = PullPlan
  /\ Plan("cite") = CitePlan
  /\ Plan("verdict") = VerdictPlan
  BY DEF Plan

\* What every plan keeps to: a step that depends on another follows it at once,
\* a pack comes after the close that makes it a boundary, and no step that may
\* be skipped over is the last.
Sound(P, k) ==
  /\ P \in Seq(StepName) /\ P # <<>>
  /\ \A i \in 1 .. Len(P) : P[i] = "rows" => i > 1 /\ P[i - 1] = "pack"
  /\ \A i \in 1 .. Len(P) : P[i] = "impress" => i > 1 /\ P[i - 1] = "mine"
  /\ \A i \in 1 .. Len(P) : P[i] = "pack" => i < Len(P) /\ P[i + 1] = "rows"
  /\ \A i \in 1 .. Len(P) : P[i] = "mine" => i < Len(P) /\ P[i + 1] = "impress"
  /\ \A i, j \in 1 .. Len(P) : P[i] = "pack" /\ P[j] = "pack" => i = j
  /\ \A i, j \in 1 .. Len(P) : P[i] = "hit" /\ P[j] = "pack" => i < j \/ k = "pull"
  /\ \A i \in 1 .. Len(P) : P[i] = "convert" => DeliveryKind(k) # "pack"
  /\ \A i \in 1 .. Len(P) :
       P[i] = "pack" /\ DeliveryKind(k) = "pack" => i > 1 /\ P[i - 1] = "close"

\* What a save or a result list delivers is not a pack.
LEMMA Destinations ==
  /\ DeliveryKind("save") # "pack" /\ DeliveryKind("search") # "pack"
  /\ DeliveryKind("query") # "pack" /\ DeliveryKind("pull") = "pull"
  BY DEF DeliveryKind

\* Every plan is sound.
LEMMA PlansSound == \A k \in Kinds : Sound(Plan(k), k)
  <1>1. Sound(StartPlan, "start")
    BY Destinations DEF StartPlan, Sound, StepName
  <1>2. Sound(PromptPlan, "prompt")
    BY Destinations DEF PromptPlan, Sound, StepName
  <1>3. Sound(ToolPlan, "tool")
    BY Destinations DEF ToolPlan, Sound, StepName
  <1>4. Sound(SavePlan, "save")
    BY Destinations DEF SavePlan, Sound, StepName
  <1>5. Sound(EndPlan, "end")
    BY Destinations DEF EndPlan, Sound, StepName
  <1>6. Sound(ContextPlan, "context")
    BY Destinations DEF ContextPlan, Sound, StepName
  <1>7. Sound(SearchPlan, "search")
    BY Destinations DEF SearchPlan, Sound, StepName
  <1>8. Sound(QueryPlan, "query")
    BY Destinations DEF QueryPlan, Sound, StepName
  <1>9. Sound(PullPlan, "pull")
    BY Destinations DEF PullPlan, Sound, StepName
  <1>10. Sound(CitePlan, "cite")
    BY Destinations DEF CitePlan, Sound, StepName
  <1>11. Sound(VerdictPlan, "verdict")
    BY Destinations DEF VerdictPlan, Sound, StepName
  <1> QED
    BY <1>1, <1>2, <1>3, <1>4, <1>5, <1>6, <1>7, <1>8, <1>9, <1>10, <1>11,
       Plans DEF Kinds, Hooks, Tools

-----------------------------------------------------------------------------
(***************************************************************************)
(* Where a call stands.                                                    *)
(***************************************************************************)

\* The place in its plan of the step a call is about to take.
Place(r) == Len(Plan(r.kind)) + 1 - Len(r.todo)

\* What a call still has to do is the end of its plan.
OnTrack(r) ==
  /\ r.kind \in Kinds
  /\ r.todo \in Seq(StepName)
  /\ Len(r.todo) <= Len(Plan(r.kind))
  /\ \A j \in 1 .. Len(r.todo) : r.todo[j] = Plan(r.kind)[Place(r) + j - 1]

\* A call on its track that is not over takes the step of its place.
LEMMA Standing ==
  ASSUME NEW r, OnTrack(r), r.todo # <<>>
  PROVE  /\ Sound(Plan(r.kind), r.kind)
         /\ Place(r) \in 1 .. Len(Plan(r.kind))
         /\ Head(r.todo) = Plan(r.kind)[Place(r)]
  <1>1. Sound(Plan(r.kind), r.kind)
    BY PlansSound DEF OnTrack
  <1>2. /\ Plan(r.kind) \in Seq(StepName)
        /\ Len(Plan(r.kind)) \in Nat
    BY <1>1 DEF Sound
  <1>3. /\ Len(r.todo) \in Nat \ {0}
        /\ Head(r.todo) = r.todo[1]
    BY DEF OnTrack
  <1>4. Place(r) \in 1 .. Len(Plan(r.kind))
    BY <1>2, <1>3 DEF Place, OnTrack
  <1>5. r.todo[1] = Plan(r.kind)[Place(r) + 1 - 1]
    BY <1>3 DEF OnTrack
  <1> QED
    BY <1>1, <1>3, <1>4, <1>5

\* The fewer steps are left, the further on the place.
LEMMA Further ==
  ASSUME NEW r, NEW s, NEW n \in Nat, s.kind = r.kind, Len(s.todo) = Len(r.todo) - n,
         Len(Plan(r.kind)) \in Nat, Len(r.todo) \in Nat
  PROVE  Place(s) = Place(r) + n
  BY DEF Place

\* s is r with its first n steps dropped.
Drops(s, r, n) ==
  /\ s.kind = r.kind
  /\ n <= Len(r.todo)
  /\ s.todo \in Seq(StepName)
  /\ Len(s.todo) = Len(r.todo) - n
  /\ \A j \in 1 .. Len(s.todo) : s.todo[j] = r.todo[j + n]

\* A call that drops its first steps stays on its track.
LEMMA Onward ==
  ASSUME NEW r, OnTrack(r), NEW s, NEW n \in Nat, Drops(s, r, n)
  PROVE  OnTrack(s) /\ Place(s) = Place(r) + n
  <1>1. Len(Plan(r.kind)) \in Nat /\ Len(r.todo) \in Nat
    BY PlansSound DEF OnTrack, Sound
  <1>2. Place(s) = Place(r) + n
    BY <1>1, Further DEF Drops
  <1>3. ASSUME NEW j \in 1 .. Len(s.todo)
        PROVE  s.todo[j] = Plan(s.kind)[Place(s) + j - 1]
    <2>1. /\ j + n \in 1 .. Len(r.todo)
          /\ s.todo[j] = r.todo[j + n]
      BY <1>1 DEF Drops
    <2>2. r.todo[j + n] = Plan(r.kind)[Place(r) + (j + n) - 1]
      BY <2>1 DEF OnTrack
    <2>3. Place(r) \in Int
      BY <1>1 DEF Place
    <2>4. Place(r) + (j + n) - 1 = Place(s) + j - 1
      BY <1>1, <1>2, <2>3
    <2> QED
      BY <2>1, <2>2, <2>4 DEF Drops
  <1>4. Len(s.todo) <= Len(Plan(s.kind))
    BY <1>1 DEF OnTrack, Drops
  <1>5. s.kind \in Kinds /\ s.todo \in Seq(StepName)
    BY DEF OnTrack, Drops
  <1>6. OnTrack(s)
    BY <1>3, <1>4, <1>5 DEF OnTrack
  <1> QED
    BY <1>2, <1>6

\* What Tail leaves.
LEMMA Dropping ==
  ASSUME NEW q \in Seq(StepName), q # <<>>
  PROVE  \E t \in Seq(StepName) : /\ t = Tail(q)
                                  /\ Len(q) \in Nat \ {0}
                                  /\ Len(t) = Len(q) - 1
                                  /\ \A j \in 1 .. Len(t) : t[j] = q[j + 1]
  <1>1. /\ Len(q) \in Nat \ {0}
        /\ Tail(q) \in Seq(StepName)
        /\ Len(Tail(q)) = Len(q) - 1
    OBVIOUS
  <1>2. \A j \in 1 .. Len(q) - 1 : Tail(q)[j] = q[j + 1]
    OBVIOUS
  <1> QED
    BY <1>1, <1>2

\* One step on.
LEMMA OneOn ==
  ASSUME NEW r, OnTrack(r), r.todo # <<>>,
         NEW s, s.kind = r.kind, s.todo = Tail(r.todo)
  PROVE  OnTrack(s) /\ Place(s) = Place(r) + 1
  <1>1. PICK q \in Seq(StepName) : q = r.todo
    BY DEF OnTrack
  <1>2. PICK t \in Seq(StepName) : /\ t = Tail(q)
                                  /\ Len(q) \in Nat \ {0}
                                  /\ Len(t) = Len(q) - 1
                                  /\ \A j \in 1 .. Len(t) : t[j] = q[j + 1]
    BY <1>1, Dropping
  <1>3. s.todo = t
    BY <1>1, <1>2
  <1>4. Drops(s, r, 1)
    BY <1>1, <1>2, <1>3 DEF Drops
  <1> QED
    BY <1>4, Onward

\* Two steps on, past a step that is left out.
LEMMA TwoOn ==
  ASSUME NEW r, OnTrack(r), r.todo # <<>>, Head(r.todo) \in {"pack", "mine"},
         NEW s, s.kind = r.kind, s.todo = Tail(Tail(r.todo))
  PROVE  OnTrack(s) /\ Place(s) = Place(r) + 2
  <1> DEFINE u == [kind |-> r.kind, todo |-> Tail(r.todo)]
  <1>1. OnTrack(u) /\ Place(u) = Place(r) + 1
    BY OneOn
  <1>2. /\ Place(r) < Len(Plan(r.kind)) /\ Place(r) \in Nat
        /\ Len(Plan(r.kind)) \in Nat
    BY Standing DEF Sound
  <1>3. u.kind = r.kind /\ u.todo = Tail(r.todo)
    OBVIOUS
  <1> HIDE DEF u
  <1>4. u.todo # <<>>
    <2>1. SUFFICES ASSUME u.todo = <<>> PROVE FALSE
      OBVIOUS
    <2>2. Place(u) = Len(Plan(r.kind)) + 1 - Len(u.todo)
      BY <1>3 DEF Place
    <2>3. Len(u.todo) = 0
      BY <2>1
    <2> QED
      BY <1>1, <1>2, <2>2, <2>3
  <1>5. s.kind = u.kind /\ s.todo = Tail(u.todo)
    BY <1>3
  <1>6. OnTrack(s) /\ Place(s) = Place(u) + 1
    BY <1>1, <1>4, <1>5, OneOn
  <1> QED
    BY <1>1, <1>2, <1>6

-----------------------------------------------------------------------------
(***************************************************************************)
(* The calls that run.                                                     *)
(***************************************************************************)

\* The fields of a call, whatever they hold.
Shaped(r) ==
  r = [no |-> r.no, todo |-> r.todo, kind |-> r.kind, file |-> r.file,
       names |-> r.names, bad |-> r.bad, event |-> r.event, found |-> r.found,
       delivery |-> r.delivery, given |-> r.given, fresh |-> r.fresh]

Calls ==
  /\ session \in Seq(Call) /\ calls \in Nat /\ day \in Nat /\ faults \in Nat
  /\ DOMAIN run = Proc
  /\ \A p \in Proc : Shaped(run[p])
  /\ \A p \in Proc : run[p].todo # <<>> => run[p].no \in 1 .. calls /\ OnTrack(run[p])

\* Calls that run at the same time are different ones, and have met.
Meets ==
  \A p, q \in Proc :
    p # q /\ run[p].todo # <<>> /\ run[q].todo # <<>>
      => run[p].no # run[q].no /\ {run[p].no, run[q].no} \in met

\* A step of p: the other calls stay as they are, and p's is further on.  Only a
\* pack step changes its delivery, only a mine step what it is about to show.
Advances(p) ==
  /\ p \in Running
  /\ DOMAIN run' = Proc
  /\ \A q \in Proc : q # p => run'[q] = run[q]
  /\ Shaped(run'[p])
  /\ run'[p].todo # <<>> =>
       /\ OnTrack(run'[p])
       /\ run'[p].no = run[p].no
       /\ run'[p].kind = run[p].kind
       /\ \/ Place(run'[p]) = Place(run[p]) + 1
          \/ Place(run'[p]) = Place(run[p]) + 2 /\ (At(p, "pack") \/ At(p, "mine"))
       /\ At(p, "pack") \/ run'[p].delivery = run[p].delivery
       /\ At(p, "mine") \/ run'[p].fresh = run[p].fresh

\* A call that a step leaves with its number, kind and steps has advanced.
LEMMA Proceeds ==
  ASSUME Calls, NEW p \in Proc, p \in Running,
         NEW r, Shaped(r), r.no = run[p].no, r.kind = run[p].kind,
         At(p, "pack") \/ r.delivery = run[p].delivery,
         At(p, "mine") \/ r.fresh = run[p].fresh,
         \/ Next1(p, r)
         \/ Next2(p, r) /\ (At(p, "pack") \/ At(p, "mine"))
  PROVE  /\ Advances(p)
         /\ run'[p].todo # <<>> =>
              run'[p].delivery = r.delivery /\ run'[p].fresh = r.fresh
  <1>1. /\ run[p].todo # <<>> /\ OnTrack(run[p]) /\ DOMAIN run = Proc
        /\ Shaped(Idle) /\ Idle.todo = <<>>
    BY DEF Calls, Running, Idle, Shaped
  <1>2. PICK rest : /\ Proceed(p, r, rest)
                    /\ \/ rest = Tail(run[p].todo)
                       \/ /\ rest = Tail(Tail(run[p].todo))
                          /\ At(p, "pack") \/ At(p, "mine")
    BY DEF Next1, Next2
  <1> DEFINE s == [r EXCEPT !.todo = rest]
  <1>3. /\ run'[p] = IF rest = <<>> THEN Idle ELSE s
        /\ DOMAIN run' = Proc
        /\ \A q \in Proc : q # p => run'[q] = run[q]
    BY <1>1, <1>2 DEF Proceed
  <1>4. /\ Shaped(s) /\ s.no = run[p].no /\ s.kind = run[p].kind /\ s.todo = rest
        /\ s.delivery = r.delivery /\ s.fresh = r.fresh
    BY DEF Shaped
  <1> HIDE DEF s
  <1>5. /\ OnTrack(s)
        /\ \/ Place(s) = Place(run[p]) + 1
           \/ Place(s) = Place(run[p]) + 2 /\ (At(p, "pack") \/ At(p, "mine"))
    <2>1. CASE rest = Tail(run[p].todo)
      BY <1>1, <1>4, <2>1, OneOn
    <2>2. CASE rest = Tail(Tail(run[p].todo)) /\ (At(p, "pack") \/ At(p, "mine"))
      <3>1. Head(run[p].todo) \in {"pack", "mine"}
        BY <2>2 DEF At
      <3> QED
        BY <1>1, <1>4, <2>2, <3>1, TwoOn
    <2> QED
      BY <1>2, <2>1, <2>2
  <1>6. CASE rest = <<>>
    BY <1>1, <1>3, <1>6 DEF Advances
  <1>7. CASE rest # <<>>
    BY <1>3, <1>4, <1>5, <1>7 DEF Advances
  <1> QED
    BY <1>6, <1>7

\* A call at a step runs.
LEMMA AtRuns ==
  ASSUME Calls, NEW p \in Proc, NEW x, At(p, x)
  PROVE  /\ p \in Running /\ Shaped(run[p]) /\ OnTrack(run[p])
         /\ run[p].no \in 1 .. calls
         /\ Sound(Plan(run[p].kind), run[p].kind)
         /\ Place(run[p]) \in 1 .. Len(Plan(run[p].kind))
         /\ Plan(run[p].kind)[Place(run[p])] = x
  BY Standing DEF Calls, At, Running

\* Every step advances the call that takes it.
LEMMA StepAdvances ==
  ASSUME Calls, NEW p \in Proc, Step(p)
  PROVE  Advances(p)
  <1>1. ASSUME NEW x, At(p, x), \/ Next1(p, run[p])
                                \/ Next2(p, run[p]) /\ x \in {"pack", "mine"}
        PROVE  Advances(p)
    BY <1>1, AtRuns, Proceeds
  <1>2. ASSUME RecordEvent(p) PROVE Advances(p)
    <2>1. At(p, "record") /\ p \in Running /\ Shaped(run[p])
      BY <1>2, AtRuns DEF RecordEvent
    <2>2. PICK r : /\ r = [run[p] EXCEPT !.event = NextId(event)]
                   /\ Next1(p, r) \/ Next1(p, run[p])
      BY <1>2 DEF RecordEvent, GiveUp
    <2>3. /\ Shaped(r) /\ r.no = run[p].no /\ r.kind = run[p].kind
          /\ r.delivery = run[p].delivery /\ r.fresh = run[p].fresh
      BY <2>1, <2>2 DEF Shaped
    <2> QED
      BY <1>1, <2>1, <2>2, <2>3, Proceeds
  <1>3. ASSUME Detect(p) PROVE Advances(p)
    <2>1. At(p, "detect") /\ p \in Running /\ Shaped(run[p])
      BY <1>3, AtRuns DEF Detect
    <2>2. PICK r : /\ r = [run[p] EXCEPT !.found = Touched(run[p])]
                   /\ Next1(p, r)
      BY <1>3 DEF Detect
    <2>3. /\ Shaped(r) /\ r.no = run[p].no /\ r.kind = run[p].kind
          /\ r.delivery = run[p].delivery /\ r.fresh = run[p].fresh
      BY <2>1, <2>2 DEF Shaped
    <2> QED
      BY <2>1, <2>2, <2>3, Proceeds
  <1>4. ASSUME RecordHits(p) PROVE Advances(p)
    BY <1>1, <1>4 DEF RecordHits, GiveUp
  <1>5. ASSUME ConvertPointers(p) PROVE Advances(p)
    BY <1>1, <1>5 DEF ConvertPointers, GiveUp
  <1>6. ASSUME CloseDeliveries(p) PROVE Advances(p)
    BY <1>1, <1>6 DEF CloseDeliveries, GiveUp
  <1>7. ASSUME Deliver(p) PROVE Advances(p)
    <2>1. At(p, "pack") /\ p \in Running /\ Shaped(run[p])
      BY <1>7, AtRuns DEF Deliver
    <2>2. CASE \E g \in Given(run[p]) :
                 Next1(p, [run[p] EXCEPT !.given = g, !.delivery = NextId(delivery)])
      <3>1. PICK g, r : /\ r = [run[p] EXCEPT !.given = g, !.delivery = NextId(delivery)]
                        /\ Next1(p, r)
        BY <2>2
      <3>2. /\ Shaped(r) /\ r.no = run[p].no /\ r.kind = run[p].kind
            /\ r.fresh = run[p].fresh
        BY <2>1, <3>1 DEF Shaped
      <3> QED
        BY <2>1, <3>1, <3>2, Proceeds
    <2>3. CASE Next2(p, run[p])
      BY <1>1, <2>1, <2>3
    <2> QED
      BY <1>7, <2>2, <2>3 DEF Deliver
  <1>8. ASSUME RecordDelivered(p) PROVE Advances(p)
    BY <1>1, <1>8 DEF RecordDelivered, GiveUp
  <1>9. ASSUME LogSearch(p) PROVE Advances(p)
    BY <1>1, <1>9 DEF LogSearch, GiveUp
  <1>10. ASSUME Mine(p) PROVE Advances(p)
    <2>1. At(p, "mine") /\ p \in Running /\ Shaped(run[p])
      BY <1>10, AtRuns DEF Mine
    <2>2. PICK f, r : /\ r = [run[p] EXCEPT !.fresh = f]
                      /\ Next1(p, r) \/ Next2(p, r)
      BY <1>10 DEF Mine
    <2>3. /\ Shaped(r) /\ r.no = run[p].no /\ r.kind = run[p].kind
          /\ r.delivery = run[p].delivery
      BY <2>1, <2>2 DEF Shaped
    <2> QED
      BY <2>1, <2>2, <2>3, Proceeds
  <1>11. ASSUME Impress(p) PROVE Advances(p)
    BY <1>1, <1>11 DEF Impress, GiveUp
  <1>12. ASSUME Sweep(p) PROVE Advances(p)
    BY <1>1, <1>12 DEF Sweep
  <1> QED
    BY <1>2, <1>3, <1>4, <1>5, <1>6, <1>7, <1>8, <1>9, <1>10, <1>11, <1>12 DEF Step

\* A call that begins stands at the first step of its plan.
LEMMA BeginStarts ==
  ASSUME Calls, NEW p \in Proc, Begin(p)
  PROVE  /\ p \notin Running
         /\ DOMAIN run' = Proc
         /\ \A q \in Proc : q # p => run'[q] = run[q]
         /\ Shaped(run'[p]) /\ OnTrack(run'[p])
         /\ run'[p].no = calls + 1
         /\ Place(run'[p]) = 1
  <1> DEFINE c == session[calls + 1]
  <1>1. PICK r, f :
          /\ p \notin Running
          /\ run' = [run EXCEPT ![p] = r]
          /\ r = [Idle EXCEPT !.no = calls + 1, !.todo = Plan(c.kind), !.kind = c.kind,
                    !.file = c.file, !.names = c.names, !.bad = c.bad, !.found = f]
    BY DEF Begin
  <1>2. c.kind \in Kinds
    <2>1. calls + 1 \in 1 .. Len(session)
      BY DEF Begin, Calls
    <2>2. c \in Call
      BY <2>1 DEF Calls
    <2> QED
      BY <2>2 DEF Call, Kinds
  <1>3. Shaped(r) /\ r.no = calls + 1 /\ r.kind = c.kind /\ r.todo = Plan(c.kind)
    BY <1>1 DEF Shaped, Idle
  <1>4. run'[p] = r /\ DOMAIN run' = Proc /\ \A q \in Proc : q # p => run'[q] = run[q]
    BY <1>1 DEF Calls
  <1> HIDE DEF c
  <1>5. Plan(c.kind) \in Seq(StepName) /\ Len(Plan(c.kind)) \in Nat
    BY <1>2, PlansSound DEF Sound
  <1>6. Place(r) = 1
    BY <1>3, <1>5 DEF Place
  <1>7. OnTrack(r)
    BY <1>2, <1>3, <1>5, <1>6 DEF OnTrack
  <1> QED
    BY <1>1, <1>3, <1>4, <1>6, <1>7

\* What a step of one call leaves alone.
LEMMA StepKeeps ==
  ASSUME Calls, NEW p \in Proc, Step(p)
  PROVE  /\ UNCHANGED <<session, calls, day, met>>
         /\ faults' = faults \/ faults' = faults + 1
  <1> USE DEF GiveUp, Fault, history
  <1>1. CASE RecordEvent(p)
    BY <1>1 DEF RecordEvent
  <1>2. CASE Detect(p)
    BY <1>2 DEF Detect
  <1>3. CASE RecordHits(p)
    BY <1>3 DEF RecordHits
  <1>4. CASE ConvertPointers(p)
    BY <1>4 DEF ConvertPointers
  <1>5. CASE CloseDeliveries(p)
    BY <1>5 DEF CloseDeliveries
  <1>6. CASE Deliver(p)
    BY <1>6 DEF Deliver
  <1>7. CASE RecordDelivered(p)
    BY <1>7 DEF RecordDelivered
  <1>8. CASE LogSearch(p)
    BY <1>8 DEF LogSearch
  <1>9. CASE Mine(p)
    BY <1>9 DEF Mine
  <1>10. CASE Impress(p)
    BY <1>10 DEF Impress
  <1>11. CASE Sweep(p)
    BY <1>11 DEF Sweep
  <1> QED
    BY <1>1, <1>2, <1>3, <1>4, <1>5, <1>6, <1>7, <1>8, <1>9, <1>10, <1>11 DEF Step

\* The steps of the next-state relation, one by one.
LEMMA Cases ==
  ASSUME [Next]_vars
  PROVE  \/ UNCHANGED vars
         \/ TimePasses
         \/ \E p \in Proc : Begin(p)
         \/ \E p \in Proc : Step(p)
         \/ \E p \in Proc : Kill(p)
  BY DEF Next

\* Every call that runs has a number of its own and keeps to its plan.
LEMMA CallsNext ==
  ASSUME Calls, [Next]_vars
  PROVE  Calls'
  <1>1. CASE UNCHANGED vars
    BY <1>1 DEF Calls, vars
  <1>2. CASE TimePasses
    BY <1>2 DEF Calls, TimePasses
  <1>3. ASSUME NEW p \in Proc, Begin(p)
        PROVE  Calls'
    <2>1. /\ calls' = calls + 1 /\ UNCHANGED <<session, day, faults>>
      BY <1>3 DEF Begin
    <2>2. ASSUME NEW q \in Proc
          PROVE  /\ Shaped(run'[q])
                 /\ run'[q].todo # <<>> => run'[q].no \in 1 .. calls' /\ OnTrack(run'[q])
      BY <1>3, <2>1, BeginStarts DEF Calls
    <2> QED
      BY <1>3, <2>1, <2>2, BeginStarts DEF Calls
  <1>4. ASSUME NEW p \in Proc, Step(p)
        PROVE  Calls'
    <2>1. Advances(p)
      BY <1>4, StepAdvances
    <2>2. UNCHANGED <<session, calls, day>> /\ faults' \in Nat
      BY <1>4, StepKeeps DEF Calls
    <2>3. ASSUME NEW q \in Proc
          PROVE  /\ Shaped(run'[q])
                 /\ run'[q].todo # <<>> => run'[q].no \in 1 .. calls' /\ OnTrack(run'[q])
      BY <2>1, <2>2 DEF Calls, Advances, Running
    <2> QED
      BY <2>1, <2>2, <2>3 DEF Calls, Advances
  <1>5. ASSUME NEW p \in Proc, Kill(p)
        PROVE  Calls'
    <2>1. /\ run' = [run EXCEPT ![p] = Idle] /\ UNCHANGED <<session, calls, day>>
          /\ faults' = faults + 1
      BY <1>5 DEF Kill, Fault
    <2>2. Shaped(Idle) /\ Idle.todo = <<>>
      BY DEF Shaped, Idle
    <2> QED
      BY <2>1, <2>2 DEF Calls
  <1> QED
    BY <1>1, <1>2, <1>3, <1>4, <1>5, Cases

\* Calls that run at the same time have met.
LEMMA MeetsNext ==
  ASSUME Calls, Meets, [Next]_vars
  PROVE  Meets'
  <1>1. CASE UNCHANGED vars
    BY <1>1 DEF Meets, vars, history
  <1>2. CASE TimePasses
    BY <1>2 DEF Meets, Running, TimePasses
  <1>3. ASSUME NEW p \in Proc, Begin(p)
        PROVE  Meets'
    <2>1. met' = met \cup {{run[q].no, calls + 1} : q \in Running}
      BY <1>3 DEF Begin
    <2>2. \A q \in Proc : q # p => run'[q] = run[q]
      BY <1>3, BeginStarts
    <2>3. run'[p].no = calls + 1
      BY <1>3, BeginStarts
    <2>4. SUFFICES ASSUME NEW q \in Proc, NEW s \in Proc, q # s,
                          run'[q].todo # <<>>, run'[s].todo # <<>>
                   PROVE  run'[q].no # run'[s].no /\ {run'[q].no, run'[s].no} \in met'
      BY DEF Meets, Running
    <2>5. CASE q = p
      <3>1. s \in Running /\ run'[s] = run[s] /\ run[s].no \in 1 .. calls /\ calls \in Nat
        BY <2>2, <2>4, <2>5 DEF Running, Calls
      <3>2. {run[s].no, calls + 1} \in met'
        BY <2>1, <3>1
      <3>3. {run[s].no, calls + 1} = {calls + 1, run[s].no}
        OBVIOUS
      <3> QED
        BY <2>3, <2>5, <3>1, <3>2, <3>3
    <2>6. CASE s = p
      <3>1. q \in Running /\ run'[q] = run[q] /\ run[q].no \in 1 .. calls /\ calls \in Nat
        BY <2>2, <2>4, <2>6 DEF Running, Calls
      <3>2. {run[q].no, calls + 1} \in met'
        BY <2>1, <3>1
      <3> QED
        BY <2>3, <2>6, <3>1, <3>2
    <2>7. CASE q # p /\ s # p
      BY <2>1, <2>2, <2>4, <2>7 DEF Meets, Running
    <2> QED
      BY <2>5, <2>6, <2>7
  <1>4. ASSUME NEW p \in Proc, Step(p)
        PROVE  Meets'
    <2>1. Advances(p) /\ met' = met
      BY <1>4, StepAdvances, StepKeeps
    <2>2. \A q \in Proc : run'[q].todo # <<>> => q \in Running /\ run'[q].no = run[q].no
      BY <2>1 DEF Advances, Running
    <2> QED
      BY <2>1, <2>2 DEF Meets, Running
  <1>5. ASSUME NEW p \in Proc, Kill(p)
        PROVE  Meets'
    <2>1. /\ run' = [run EXCEPT ![p] = Idle] /\ met' = met
      BY <1>5 DEF Kill, history
    <2>2. Idle.todo = <<>>
      BY DEF Idle
    <2>3. \A q \in Proc : run'[q].todo # <<>> => q \in Running /\ run'[q] = run[q]
      BY <2>1, <2>2 DEF Calls, Running
    <2> QED
      BY <2>1, <2>3 DEF Meets, Running
  <1> QED
    BY <1>1, <1>2, <1>3, <1>4, <1>5, Cases

\* A step that leaves out the next one is two on.
LEMMA Skips ==
  ASSUME Calls, NEW p \in Proc, NEW r, Shaped(r), r.kind = run[p].kind,
         At(p, "pack") \/ At(p, "mine"), Next2(p, r), run'[p].todo # <<>>
  PROVE  Place(run'[p]) = Place(run[p]) + 2
  <1>1. /\ run[p].todo # <<>> /\ OnTrack(run[p]) /\ DOMAIN run = Proc
        /\ Head(run[p].todo) \in {"pack", "mine"}
        /\ Idle.todo = <<>>
    BY DEF Calls, At, Idle
  <1> DEFINE rest == Tail(Tail(run[p].todo))
             s == [r EXCEPT !.todo = rest]
  <1>2. run'[p] = IF rest = <<>> THEN Idle ELSE s
    BY <1>1 DEF Next2, Proceed
  <1>3. s.kind = run[p].kind /\ s.todo = rest
    BY DEF Shaped
  <1> HIDE DEF s
  <1>4. run'[p] = s
    BY <1>1, <1>2
  <1> QED
    BY <1>1, <1>3, <1>4, TwoOn

\* Where a call stands after a step tells where it stood before.
LEMMA Before ==
  ASSUME Calls, NEW p \in Proc, Advances(p), NEW x, At(p, x)'
  PROVE  /\ x \in {"rows", "impress"} =>
              /\ x = "rows" => At(p, "pack")
              /\ x = "impress" => At(p, "mine")
              /\ Place(run'[p]) = Place(run[p]) + 1
         /\ x = "pack" /\ DeliveryKind(run'[p].kind) = "pack" => At(p, "close")
  <1>1. /\ run[p].todo # <<>> /\ OnTrack(run[p])
        /\ run'[p].todo # <<>> /\ OnTrack(run'[p])
        /\ run'[p].kind = run[p].kind
        /\ Head(run'[p].todo) = x
        /\ \/ Place(run'[p]) = Place(run[p]) + 1
           \/ Place(run'[p]) = Place(run[p]) + 2 /\ (At(p, "pack") \/ At(p, "mine"))
    <2>1. run'[p].todo # <<>> /\ Head(run'[p].todo) = x
      BY DEF At
    <2>2. run[p].todo # <<>> /\ OnTrack(run[p])
      BY DEF Advances, Running, Calls
    <2> QED
      BY <2>1, <2>2 DEF Advances
  <1> DEFINE P == Plan(run[p].kind)
             i == Place(run[p])
             j == Place(run'[p])
  <1>2. /\ Sound(P, run[p].kind)
        /\ i \in 1 .. Len(P) /\ Head(run[p].todo) = P[i]
        /\ j \in 1 .. Len(P) /\ P[j] = x
    BY <1>1, Standing
  <1>3. Len(P) \in Nat
    BY <1>2 DEF Sound
  <1>4. \A y : P[i] = y => At(p, y)
    BY <1>1, <1>2 DEF At
  <1>5. j = i + 2 => P[i + 1] \in {"rows", "impress"}
    BY <1>1, <1>2, <1>3 DEF At, Sound
  <1>9. (j = i + 1 \/ j = i + 2) /\ i \in Int
    BY <1>1, <1>2
  <1> HIDE DEF P, i, j
  <1>6. CASE x = "rows"
    <2>1. P[j - 1] = "pack" /\ j - 1 \in 1 .. Len(P)
      BY <1>2, <1>3, <1>6 DEF Sound
    <2>2. j = i + 1
      BY <1>5, <1>9, <2>1
    <2> QED
      BY <1>2, <1>3, <1>4, <1>6, <2>1, <2>2 DEF i, j
  <1>7. CASE x = "impress"
    <2>1. P[j - 1] = "mine" /\ j - 1 \in 1 .. Len(P)
      BY <1>2, <1>3, <1>7 DEF Sound
    <2>2. j = i + 1
      BY <1>5, <1>9, <2>1
    <2> QED
      BY <1>2, <1>3, <1>4, <1>7, <2>1, <2>2 DEF i, j
  <1>8. CASE x = "pack" /\ DeliveryKind(run'[p].kind) = "pack"
    <2>1. P[j - 1] = "close" /\ j - 1 \in 1 .. Len(P)
      BY <1>1, <1>2, <1>3, <1>8 DEF Sound
    <2>2. j = i + 1
      BY <1>5, <1>9, <2>1
    <2> QED
      BY <1>2, <1>3, <1>4, <1>8, <2>1, <2>2
  <1> QED
    BY <1>6, <1>7, <1>8

\* A call does not begin at a step that follows another.
LEMMA FirstStep ==
  ASSUME Calls, NEW p \in Proc, Begin(p), NEW x, At(p, x)'
  PROVE  /\ x \notin {"rows", "impress"}
         /\ ~(x = "pack" /\ DeliveryKind(run'[p].kind) = "pack")
  <1>1. OnTrack(run'[p]) /\ run'[p].todo # <<>> /\ Place(run'[p]) = 1
    BY BeginStarts DEF At
  <1>2. /\ Sound(Plan(run'[p].kind), run'[p].kind)
        /\ 1 \in 1 .. Len(Plan(run'[p].kind))
        /\ Plan(run'[p].kind)[1] = x
    BY <1>1, Standing DEF At
  <1> QED
    BY <1>2 DEF Sound

-----------------------------------------------------------------------------
(***************************************************************************)
(* The tables.                                                             *)
(***************************************************************************)

\* A table's ids follow the clock, and one of them is the last.
Dated(table, now) ==
  /\ \A i \in DOMAIN table : i \in Nat /\ table[i].day \in Nat /\ table[i].day <= now
  /\ \A i, j \in DOMAIN table : i < j => table[i].day <= table[j].day
  /\ DOMAIN table = {} \/ \E m \in DOMAIN table : \A j \in DOMAIN table : j <= m

\* A new row is numbered after all that are there.
LEMMA NewId ==
  ASSUME NEW t, NEW now \in Nat, Dated(t, now)
  PROVE  NextId(t) \in Nat /\ \A j \in DOMAIN t : j < NextId(t)
  <1>1. CASE DOMAIN t = {}
    BY <1>1 DEF NextId
  <1>2. CASE DOMAIN t # {}
    <2>1. PICK m : /\ m = CHOOSE i \in DOMAIN t : \A j \in DOMAIN t : j <= i
                   /\ m \in DOMAIN t /\ \A j \in DOMAIN t : j <= m
      BY <1>2 DEF Dated
    <2>2. NextId(t) = 1 + m
      BY <1>2, <2>1 DEF NextId
    <2> QED
      BY <2>1, <2>2 DEF Dated
  <1> QED
    BY <1>1, <1>2

\* What an insert changes.
LEMMA Inserts ==
  ASSUME NEW t, NEW now \in Nat, Dated(t, now), NEW row, row.day = now
  PROVE  /\ Dated(Insert(t, row), now)
         /\ DOMAIN Insert(t, row) = DOMAIN t \cup {NextId(t)}
         /\ NextId(t) \notin DOMAIN t
         /\ Insert(t, row)[NextId(t)] = row
         /\ \A j \in DOMAIN t : Insert(t, row)[j] = t[j]
  <1>1. PICK n \in Nat : n = NextId(t) /\ \A j \in DOMAIN t : j < n
    BY NewId
  <1>2. PICK u : /\ u = Insert(t, row)
                 /\ u = [i \in DOMAIN t \cup {n} |-> IF i = n THEN row ELSE t[i]]
    BY <1>1 DEF Insert
  <1>3. n \notin DOMAIN t
    BY <1>1
  <1>4. DOMAIN u = DOMAIN t \cup {n} /\ u[n] = row /\ \A j \in DOMAIN t : u[j] = t[j]
    BY <1>2, <1>3
  <1>5. \A i \in DOMAIN u : i \in Nat /\ u[i].day \in Nat /\ u[i].day <= now
    BY <1>4 DEF Dated
  <1>6. ASSUME NEW i \in DOMAIN u, NEW j \in DOMAIN u, i < j
        PROVE  u[i].day <= u[j].day
    <2>1. i \in Nat /\ j \in Nat
      BY <1>5
    <2>2. i # n
      BY <1>1, <1>4, <1>6, <2>1
    <2>3. CASE j = n
      BY <1>4, <1>5, <2>3
    <2>4. CASE j # n
      BY <1>4, <1>6, <2>2, <2>4 DEF Dated
    <2> QED
      BY <2>3, <2>4
  <1>7. \E m \in DOMAIN u : \A j \in DOMAIN u : j <= m
    <2>1. \A j \in DOMAIN u : j <= n
      BY <1>1, <1>4 DEF Dated
    <2> QED
      BY <1>4, <2>1
  <1> QED
    BY <1>1, <1>2, <1>3, <1>4, <1>5, <1>6, <1>7 DEF Dated

\* A sweep takes the oldest ids.
LEMMA Sweeps ==
  ASSUME NEW t, day \in Nat, Dated(t, day)
  PROVE  /\ Dated(Without(t, Expired(t)), day)
         /\ DOMAIN Without(t, Expired(t)) \subseteq DOMAIN t
         /\ \A i \in DOMAIN t : t[i].day = day => i \in DOMAIN Without(t, Expired(t))
         /\ \A i \in DOMAIN Without(t, Expired(t)) : Without(t, Expired(t))[i] = t[i]
  <1>1. PICK u : /\ u = Without(t, Expired(t))
                 /\ u = [i \in DOMAIN t \ Expired(t) |-> t[i]]
    BY DEF Without
  <1>2. \A i \in DOMAIN t : t[i].day = day => i \in DOMAIN u
    BY <1>1 DEF Expired
  <1>3. \A i \in DOMAIN u : i \in DOMAIN t /\ u[i] = t[i] /\ u[i].day = day
    BY <1>1 DEF Dated, Expired
  <1>4. DOMAIN u = {} \/ \E m \in DOMAIN u : \A j \in DOMAIN u : j <= m
    <2>1. SUFFICES ASSUME NEW k \in DOMAIN u
                   PROVE  \E m \in DOMAIN u : \A j \in DOMAIN u : j <= m
      OBVIOUS
    <2>2. PICK m \in DOMAIN t : \A j \in DOMAIN t : j <= m
      BY <1>3, <2>1 DEF Dated
    <2>3. k \in Nat /\ m \in Nat /\ t[m].day \in Nat /\ t[m].day <= day /\ k <= m
      BY <1>3, <2>1, <2>2 DEF Dated
    <2>4. t[m].day = day
      BY <1>3, <2>1, <2>2, <2>3 DEF Dated
    <2> QED
      BY <1>2, <1>3, <2>2, <2>4
  <1> QED
    BY <1>1, <1>2, <1>3, <1>4 DEF Dated

\* A table whose rows keep their days stays dated, and so it does when the clock
\* moves on.
LEMMA StaysDated ==
  ASSUME NEW t, NEW u, NEW now \in Nat, NEW then \in Nat, now <= then, Dated(t, now),
         DOMAIN u = DOMAIN t, \A i \in DOMAIN t : u[i].day = t[i].day
  PROVE  Dated(u, then)
  BY DEF Dated

\* The fields of a delivery's row, whatever they hold.
ShapedRow(r) ==
  /\ r = [kind |-> r.kind, event |-> r.event, closed |-> r.closed, rows |-> r.rows,
          by |-> r.by, day |-> r.day]
  /\ r.rows = [e \in Entity |-> r.rows[e]]

\* Both tables follow the clock, and a delivery's call has begun.
Tables ==
  /\ Dated(event, day) /\ Dated(delivery, day)
  /\ \A d \in DOMAIN delivery : ShapedRow(delivery[d]) /\ delivery[d].by \in 1 .. calls

\* A row that is written again: what it is of stays, and so does its closed flag
\* unless a close sets it; only the call that delivered it adds pending entries.
Rewritten(p, d) ==
  LET old == delivery[d]
      new == delivery'[d]
  IN  /\ ShapedRow(new)
      /\ new.kind = old.kind /\ new.by = old.by /\ new.day = old.day
      /\ \/ new = old
         \/ /\ At(p, "close") /\ new.closed
            /\ \A e \in Entity : new.rows[e] # "pending"
         \/ /\ new.closed = old.closed
            /\ \A e \in Entity :
                 new.rows[e] = "pending"
                   => old.rows[e] = "pending" \/ (At(p, "rows") /\ d = run[p].delivery)

\* What a step does to the deliveries: it rewrites rows, adds one, or sweeps.
Rewrites(p) ==
  DOMAIN delivery' = DOMAIN delivery /\ \A d \in DOMAIN delivery : Rewritten(p, d)

Delivers(p) ==
  \E r : /\ At(p, "pack") /\ ShapedRow(r) /\ ~r.closed
         /\ r.kind = DeliveryKind(run[p].kind) /\ r.by = run[p].no /\ r.day = day
         /\ \A e \in Entity : r.rows[e] # "pending"
         /\ run'[p].todo # <<>> => run'[p].delivery = NextId(delivery)
         /\ delivery' = Insert(delivery, r)

\* A row that a step leaves as it is.
LEMMA Untouched ==
  ASSUME Tables, NEW p, NEW d \in DOMAIN delivery, delivery'[d] = delivery[d]
  PROVE  Rewritten(p, d)
  BY DEF Rewritten, Tables

\* Deliveries a step leaves as they are.
LEMMA NothingRewritten ==
  ASSUME Tables, NEW p, delivery' = delivery
  PROVE  Rewrites(p)
  BY Untouched DEF Rewrites

\* Crediting turns pending entries into hits and nothing else.
LEMMA CreditRewrites ==
  ASSUME Tables, NEW p \in Proc, NEW among, NEW ids, Credit(p, among, ids)
  PROVE  Rewrites(p)
  <1> SUFFICES ASSUME NEW d \in DOMAIN delivery
               PROVE  Rewritten(p, d)
    BY DEF Credit, Rewrites
  <1>1. ShapedRow(delivery[d])
    BY DEF Tables
  <1>2. PICK new, hits :
          /\ new = delivery'[d]
          /\ new = [delivery[d] EXCEPT !.rows = hits]
          /\ hits = [e \in Entity |->
                      IF d \in among /\ e \in ids /\ Creditable(d, e)
                      THEN "hit" ELSE delivery[d].rows[e]]
    BY DEF Credit
  <1>3. /\ new.kind = delivery[d].kind /\ new.by = delivery[d].by
        /\ new.day = delivery[d].day /\ new.closed = delivery[d].closed
        /\ new.event = delivery[d].event /\ new.rows = hits
        /\ new = [kind |-> new.kind, event |-> new.event, closed |-> new.closed,
                  rows |-> new.rows, by |-> new.by, day |-> new.day]
    BY <1>1, <1>2 DEF ShapedRow
  <1>4. hits = [e \in Entity |-> hits[e]]
    BY <1>2
  <1>5. \A e \in Entity : new.rows[e] = "pending" => delivery[d].rows[e] = "pending"
    BY <1>2, <1>3
  <1>6. ShapedRow(new)
    BY <1>3, <1>4 DEF ShapedRow
  <1> QED
    BY <1>2, <1>3, <1>5, <1>6 DEF Rewritten

\* A close settles what is open.
LEMMA CloseRewrites ==
  ASSUME Tables, NEW p \in Proc, At(p, "close"),
         delivery' = [d \in DOMAIN delivery |->
                        IF d \in Open
                        THEN [delivery[d] EXCEPT !.closed = TRUE, !.rows = ClosedRows(@)]
                        ELSE delivery[d]]
  PROVE  Rewrites(p) /\ \A d \in DOMAIN delivery' : delivery'[d].closed
  <1> SUFFICES ASSUME NEW d \in DOMAIN delivery
               PROVE  Rewritten(p, d) /\ delivery'[d].closed
    BY DEF Rewrites
  <1>1. ShapedRow(delivery[d])
    BY DEF Tables
  <1>2. CASE d \notin Open
    <2>1. delivery'[d] = delivery[d] /\ delivery[d].closed
      BY <1>2 DEF Open
    <2> QED
      BY <2>1, Untouched
  <1>3. CASE d \in Open
    <2>1. PICK new, misses :
            /\ new = delivery'[d]
            /\ new = [delivery[d] EXCEPT !.closed = TRUE, !.rows = misses]
            /\ misses = [e \in Entity |-> IF delivery[d].rows[e] = "pending" THEN "miss"
                                         ELSE delivery[d].rows[e]]
      BY <1>3 DEF ClosedRows
    <2>2. /\ new.kind = delivery[d].kind /\ new.by = delivery[d].by
          /\ new.day = delivery[d].day /\ new.closed
          /\ new.rows = misses
          /\ new = [kind |-> new.kind, event |-> new.event, closed |-> new.closed,
                    rows |-> new.rows, by |-> new.by, day |-> new.day]
      BY <1>1, <2>1 DEF ShapedRow
    <2>3. misses = [e \in Entity |-> misses[e]]
      BY <2>1
    <2>4. \A e \in Entity : misses[e] # "pending"
      BY <2>1
    <2>5. ShapedRow(new)
      BY <2>2, <2>3 DEF ShapedRow
    <2>6. delivery'[d].closed
      BY <2>1, <2>2
    <2>7. \A e \in Entity : delivery'[d].rows[e] # "pending"
      <3>1. delivery'[d].rows = misses
        BY <2>1, <2>2
      <3> QED
        BY <2>4, <3>1
    <2>8. /\ delivery'[d].kind = delivery[d].kind /\ delivery'[d].by = delivery[d].by
          /\ delivery'[d].day = delivery[d].day
      BY <2>1, <2>2
    <2>9. ShapedRow(delivery'[d])
      BY <2>1, <2>5
    <2> QED
      BY <2>6, <2>7, <2>8, <2>9 DEF Rewritten
  <1> QED
    BY <1>2, <1>3

\* The entries of a delivery are added to its row alone.
LEMMA RecordRewrites ==
  ASSUME Tables, NEW p \in Proc, At(p, "rows"),
         delivery' = [delivery EXCEPT ![run[p].delivery].rows =
                        [e \in Entity |-> IF e \in run[p].given THEN "pending" ELSE @[e]]]
  PROVE  Rewrites(p)
  <1> SUFFICES ASSUME NEW d \in DOMAIN delivery
               PROVE  Rewritten(p, d)
    BY DEF Rewrites
  <1>1. ShapedRow(delivery[d])
    BY DEF Tables
  <1>2. CASE d # run[p].delivery
    BY <1>2, Untouched
  <1>3. CASE d = run[p].delivery
    <2>1. PICK new, rows :
            /\ new = delivery'[d]
            /\ new = [delivery[d] EXCEPT !.rows = rows]
            /\ rows = [e \in Entity |-> IF e \in run[p].given THEN "pending"
                                       ELSE delivery[d].rows[e]]
      BY <1>3
    <2>2. /\ new.kind = delivery[d].kind /\ new.by = delivery[d].by
          /\ new.day = delivery[d].day /\ new.closed = delivery[d].closed
          /\ new.rows = rows
          /\ new = [kind |-> new.kind, event |-> new.event, closed |-> new.closed,
                    rows |-> new.rows, by |-> new.by, day |-> new.day]
      BY <1>1, <2>1 DEF ShapedRow
    <2>3. rows = [e \in Entity |-> rows[e]]
      BY <2>1
    <2>4. ShapedRow(new)
      BY <2>2, <2>3 DEF ShapedRow
    <2> QED
      BY <1>3, <2>1, <2>2, <2>4 DEF Rewritten
  <1> QED
    BY <1>2, <1>3

\* A sweep that fails after the usage rows has emptied those of old deliveries.
LEMMA ResetRewrites ==
  ASSUME Tables, NEW p \in Proc, delivery' = SweptRows(delivery)
  PROVE  Rewrites(p)
  <1> SUFFICES ASSUME NEW d \in DOMAIN delivery
               PROVE  Rewritten(p, d)
    BY DEF Rewrites, SweptRows
  <1>1. ShapedRow(delivery[d])
    BY DEF Tables
  <1>2. CASE d \notin Expired(delivery)
    BY <1>2, Untouched DEF SweptRows
  <1>3. CASE d \in Expired(delivery)
    <2>1. PICK new, rows :
            /\ new = delivery'[d]
            /\ new = [delivery[d] EXCEPT !.rows = rows]
            /\ rows = [e \in Entity |-> "none"]
      BY <1>3 DEF SweptRows, NoRows
    <2>2. /\ new.kind = delivery[d].kind /\ new.by = delivery[d].by
          /\ new.day = delivery[d].day /\ new.closed = delivery[d].closed
          /\ new.rows = rows
          /\ new = [kind |-> new.kind, event |-> new.event, closed |-> new.closed,
                    rows |-> new.rows, by |-> new.by, day |-> new.day]
      BY <1>1, <2>1 DEF ShapedRow
    <2>3. rows = [e \in Entity |-> rows[e]]
      BY <2>1
    <2>4. ShapedRow(new)
      BY <2>2, <2>3 DEF ShapedRow
    <2> QED
      BY <2>1, <2>2, <2>4 DEF Rewritten
  <1> QED
    BY <1>2, <1>3

\* A delivery that is made is new, open and empty.
LEMMA DeliverDelivers ==
  ASSUME Calls, NEW p \in Proc, Deliver(p)
  PROVE  Delivers(p) \/ (delivery' = delivery /\ Next2(p, run[p]))
  <1>1. At(p, "pack") /\ p \in Running /\ Shaped(run[p])
    BY AtRuns DEF Deliver
  <1>2. ASSUME NEW g \in Given(run[p]),
               delivery' = Insert(delivery,
                 [kind |-> DeliveryKind(run[p].kind), event |-> run[p].event,
                  closed |-> FALSE, rows |-> NoRows, by |-> run[p].no, day |-> day]),
               Next1(p, [run[p] EXCEPT !.given = g, !.delivery = NextId(delivery)])
        PROVE  Delivers(p)
    <2>1. PICK r : r = [kind |-> DeliveryKind(run[p].kind), event |-> run[p].event,
                        closed |-> FALSE, rows |-> NoRows, by |-> run[p].no, day |-> day]
      OBVIOUS
    <2>2. /\ ShapedRow(r) /\ ~r.closed
          /\ r.kind = DeliveryKind(run[p].kind) /\ r.by = run[p].no /\ r.day = day
          /\ \A e \in Entity : r.rows[e] # "pending"
      BY <2>1 DEF ShapedRow, NoRows
    <2>3. PICK s : s = [run[p] EXCEPT !.given = g, !.delivery = NextId(delivery)]
      OBVIOUS
    <2>4. /\ Shaped(s) /\ s.no = run[p].no /\ s.kind = run[p].kind
          /\ s.fresh = run[p].fresh /\ s.delivery = NextId(delivery)
      BY <1>1, <2>3 DEF Shaped
    <2>5. run'[p].todo # <<>> => run'[p].delivery = NextId(delivery)
      BY <1>1, <1>2, <2>3, <2>4, Proceeds
    <2> QED
      BY <1>1, <1>2, <2>1, <2>2, <2>5 DEF Delivers
  <1> QED
    BY <1>2 DEF Deliver

\* A sweep that ran its course over the deliveries.
Cleans == delivery' = Without(delivery, Expired(delivery))

\* What a step does to the deliveries.
LEMMA StepDeliveries ==
  ASSUME Calls, Tables, NEW p \in Proc, Step(p)
  PROVE  Rewrites(p) \/ Delivers(p) \/ Cleans
  <1>1. CASE RecordEvent(p)
    BY <1>1, NothingRewritten DEF RecordEvent, GiveUp, tables
  <1>2. CASE Detect(p)
    BY <1>2, NothingRewritten DEF Detect, tables
  <1>3. CASE RecordHits(p)
    BY <1>3, NothingRewritten, CreditRewrites DEF RecordHits, GiveUp, tables
  <1>4. CASE ConvertPointers(p)
    BY <1>4, NothingRewritten, CreditRewrites DEF ConvertPointers, GiveUp, tables
  <1>5. CASE CloseDeliveries(p)
    BY <1>5, NothingRewritten, CloseRewrites DEF CloseDeliveries, GiveUp, tables
  <1>6. CASE Deliver(p)
    BY <1>6, NothingRewritten, DeliverDelivers
  <1>7. CASE RecordDelivered(p)
    BY <1>7, NothingRewritten, RecordRewrites DEF RecordDelivered, GiveUp, tables
  <1>8. CASE LogSearch(p)
    BY <1>8, NothingRewritten DEF LogSearch, GiveUp, tables
  <1>9. CASE Mine(p)
    BY <1>9, NothingRewritten DEF Mine, tables
  <1>10. CASE Impress(p)
    BY <1>10, NothingRewritten DEF Impress, GiveUp, tables
  <1>11. CASE Sweep(p)
    BY <1>11, NothingRewritten, ResetRewrites DEF Sweep, tables, Cleans
  <1> QED
    BY <1>1, <1>2, <1>3, <1>4, <1>5, <1>6, <1>7, <1>8, <1>9, <1>10, <1>11 DEF Step

\* What a step does to the events: it leaves them, adds one of today, or sweeps.
LEMMA StepEvents ==
  ASSUME NEW p \in Proc, Step(p)
  PROVE  \/ event' = event
         \/ \E r : r.day = day /\ event' = Insert(event, r)
         \/ event' = Without(event, Expired(event))
  <1> USE DEF GiveUp, tables
  <1>1. CASE RecordEvent(p)
    BY <1>1 DEF RecordEvent, EventRow
  <1>2. CASE Detect(p)
    BY <1>2 DEF Detect
  <1>3. CASE RecordHits(p)
    BY <1>3 DEF RecordHits
  <1>4. CASE ConvertPointers(p)
    BY <1>4 DEF ConvertPointers
  <1>5. CASE CloseDeliveries(p)
    BY <1>5 DEF CloseDeliveries
  <1>6. CASE Deliver(p)
    BY <1>6 DEF Deliver
  <1>7. CASE RecordDelivered(p)
    BY <1>7 DEF RecordDelivered
  <1>8. CASE LogSearch(p)
    BY <1>8 DEF LogSearch, EventRow
  <1>9. CASE Mine(p)
    BY <1>9 DEF Mine
  <1>10. CASE Impress(p)
    BY <1>10 DEF Impress, EventRow
  <1>11. CASE Sweep(p)
    BY <1>11 DEF Sweep
  <1> QED
    BY <1>1, <1>2, <1>3, <1>4, <1>5, <1>6, <1>7, <1>8, <1>9, <1>10, <1>11 DEF Step

\* Where the rows of a step's outcome come from: an old row of the same call, or
\* the row that is new.
LEMMA Origins ==
  ASSUME Calls, Tables, NEW p \in Proc, Step(p), NEW d \in DOMAIN delivery'
  PROVE  \/ /\ d \in DOMAIN delivery /\ Rewritten(p, d)
         \/ /\ d = NextId(delivery) /\ d \notin DOMAIN delivery
            /\ At(p, "pack") /\ ShapedRow(delivery'[d]) /\ ~delivery'[d].closed
            /\ delivery'[d].kind = DeliveryKind(run[p].kind)
            /\ delivery'[d].by = run[p].no /\ delivery'[d].day = day
            /\ \A e \in Entity : delivery'[d].rows[e] # "pending"
            /\ run'[p].todo # <<>> => run'[p].delivery = d
  <1>1. CASE Rewrites(p)
    BY <1>1 DEF Rewrites
  <1>2. CASE Delivers(p)
    <2>1. PICK r : /\ At(p, "pack") /\ ShapedRow(r) /\ ~r.closed
                   /\ r.kind = DeliveryKind(run[p].kind) /\ r.by = run[p].no
                   /\ r.day = day /\ \A e \in Entity : r.rows[e] # "pending"
                   /\ run'[p].todo # <<>> => run'[p].delivery = NextId(delivery)
                   /\ delivery' = Insert(delivery, r)
      BY <1>2 DEF Delivers
    <2>2. /\ DOMAIN delivery' = DOMAIN delivery \cup {NextId(delivery)}
          /\ NextId(delivery) \notin DOMAIN delivery
          /\ delivery'[NextId(delivery)] = r
          /\ \A j \in DOMAIN delivery : delivery'[j] = delivery[j]
      <3>1. day \in Nat /\ Dated(delivery, day)
        BY DEF Tables, Calls
      <3>2. r.day = day
        BY <2>1
      <3>3. /\ DOMAIN Insert(delivery, r) = DOMAIN delivery \cup {NextId(delivery)}
            /\ NextId(delivery) \notin DOMAIN delivery
            /\ Insert(delivery, r)[NextId(delivery)] = r
            /\ \A j \in DOMAIN delivery : Insert(delivery, r)[j] = delivery[j]
        BY <3>1, <3>2, Inserts
      <3>4. delivery' = Insert(delivery, r)
        BY <2>1
      <3> QED
        BY <3>3, <3>4
    <2>3. CASE d \in DOMAIN delivery
      BY <2>2, <2>3, Untouched
    <2>4. CASE d = NextId(delivery)
      BY <2>1, <2>2, <2>4
    <2> QED
      BY <2>2, <2>3, <2>4
  <1>3. CASE Cleans
    <2>1. d \in DOMAIN delivery /\ delivery'[d] = delivery[d]
      BY <1>3, Sweeps DEF Cleans, Tables, Calls
    <2> QED
      BY <2>1, Untouched
  <1> QED
    BY <1>1, <1>2, <1>3, StepDeliveries

\* The tables stay in order.
LEMMA TablesNext ==
  ASSUME Calls, Tables, [Next]_vars
  PROVE  Tables'
  <1>0. day \in Nat /\ calls \in Nat
    BY DEF Calls
  <1>1. ASSUME UNCHANGED <<event, delivery>>, calls' \in Nat, calls <= calls',
               day' \in Nat, day <= day'
        PROVE  Tables'
    <2>1. Dated(event, day') /\ Dated(delivery, day')
      BY <1>0, <1>1, StaysDated DEF Tables
    <2> QED
      BY <1>0, <1>1, <2>1 DEF Tables
  <1>2. CASE UNCHANGED vars
    BY <1>0, <1>1, <1>2 DEF vars, tables
  <1>3. CASE TimePasses
    BY <1>0, <1>1, <1>3 DEF TimePasses, tables
  <1>4. ASSUME NEW p \in Proc, Begin(p)
        PROVE  Tables'
    BY <1>0, <1>1, <1>4 DEF Begin, tables
  <1>5. ASSUME NEW p \in Proc, Step(p)
        PROVE  Tables'
    <2>1. UNCHANGED <<calls, day>>
      BY <1>5, StepKeeps
    <2>2. Dated(event', day)
      <3>1. Dated(event, day)
        BY DEF Tables
      <3>2. ASSUME NEW r, r.day = day, event' = Insert(event, r)
            PROVE  Dated(event', day)
        <4>1. Dated(Insert(event, r), day)
          BY <1>0, <3>1, <3>2, Inserts
        <4> QED
          BY <3>2, <4>1
      <3>3. ASSUME event' = Without(event, Expired(event))
            PROVE  Dated(event', day)
        <4>1. Dated(Without(event, Expired(event)), day)
          BY <1>0, <3>1, Sweeps
        <4> QED
          BY <3>3, <4>1
      <3> QED
        BY <1>5, <3>1, <3>2, <3>3, StepEvents
    <2>3. Dated(delivery', day)
      <3>1. Dated(delivery, day)
        BY DEF Tables
      <3>2. CASE Rewrites(p)
        <4>1. /\ DOMAIN delivery' = DOMAIN delivery
              /\ \A d \in DOMAIN delivery : delivery'[d].day = delivery[d].day
          BY <3>2 DEF Rewrites, Rewritten
        <4> QED
          BY <1>0, <3>1, <4>1, StaysDated
      <3>3. CASE Delivers(p)
        <4>1. PICK r : r.day = day /\ delivery' = Insert(delivery, r)
          BY <3>3 DEF Delivers
        <4>2. Dated(Insert(delivery, r), day)
          BY <1>0, <3>1, <4>1, Inserts
        <4> QED
          BY <4>1, <4>2
      <3>4. CASE Cleans
        BY <1>0, <3>1, <3>4, Sweeps DEF Cleans
      <3> QED
        BY <1>5, <3>2, <3>3, <3>4, StepDeliveries
    <2>4. ASSUME NEW d \in DOMAIN delivery'
          PROVE  ShapedRow(delivery'[d]) /\ delivery'[d].by \in 1 .. calls
      <3>1. CASE d \in DOMAIN delivery /\ Rewritten(p, d)
        BY <3>1 DEF Rewritten, Tables
      <3>2. CASE ShapedRow(delivery'[d]) /\ delivery'[d].by = run[p].no /\ At(p, "pack")
        BY <3>2, AtRuns
      <3> QED
        BY <1>5, <2>4, <3>1, <3>2, Origins
    <2> QED
      BY <2>1, <2>2, <2>3, <2>4 DEF Tables
  <1>6. ASSUME NEW p \in Proc, Kill(p)
        PROVE  Tables'
    BY <1>0, <1>1, <1>6 DEF Kill, tables
  <1> QED
    BY <1>2, <1>3, <1>4, <1>5, <1>6, Cases

-----------------------------------------------------------------------------
(***************************************************************************)
(* No call credits what it delivers itself.                                *)
(***************************************************************************)

\* What a running call has delivered is of its kind, and the pack step lies
\* behind it.
Owned ==
  \A p \in Proc, d \in DOMAIN delivery :
    run[p].todo # <<>> /\ delivery[d].by = run[p].no =>
      /\ delivery[d].kind = DeliveryKind(run[p].kind)
      /\ \E m \in 1 .. Place(run[p]) - 1 : Plan(run[p].kind)[m] = "pack"

\* A hit is of a delivery that is there, and of another call's or of a pull.
Credits ==
  \A x \in credited : /\ x[1] \in DOMAIN delivery
                      /\ delivery[x[1]].by = x[3] => delivery[x[1]].kind = "pull"

\* A call owns what it delivers.
LEMMA OwnedNext ==
  ASSUME Calls, Meets, Tables, Owned, [Next]_vars
  PROVE  Owned'
  <1>1. CASE UNCHANGED vars
    BY <1>1 DEF Owned, vars, tables
  <1>2. CASE TimePasses
    BY <1>2 DEF Owned, TimePasses, tables
  <1>3. ASSUME NEW p \in Proc, Begin(p)
        PROVE  Owned'
    <2>1. delivery' = delivery
      BY <1>3 DEF Begin, tables
    <2>2. /\ run'[p].no = calls + 1
          /\ \A q \in Proc : q # p => run'[q] = run[q]
      BY <1>3, BeginStarts
    <2>3. \A d \in DOMAIN delivery : delivery[d].by # calls + 1
      BY DEF Tables, Calls
    <2> QED
      BY <2>1, <2>2, <2>3 DEF Owned
  <1>4. ASSUME NEW p \in Proc, Step(p)
        PROVE  Owned'
    <2>1. Advances(p)
      BY <1>4, StepAdvances
    <2>2. SUFFICES ASSUME NEW q \in Proc, NEW d \in DOMAIN delivery',
                          run'[q].todo # <<>>, delivery'[d].by = run'[q].no
                   PROVE  /\ delivery'[d].kind = DeliveryKind(run'[q].kind)
                          /\ \E m \in 1 .. Place(run'[q]) - 1 :
                               Plan(run'[q].kind)[m] = "pack"
      BY DEF Owned
    <2>3. /\ run[q].todo # <<>> /\ run'[q].no = run[q].no /\ run'[q].kind = run[q].kind
          /\ q # p => run'[q] = run[q]
      BY <2>1, <2>2 DEF Advances, Running
    <2>4. /\ Place(run[q]) \in Nat /\ Place(run'[q]) \in Nat
          /\ Place(run[q]) <= Place(run'[q])
          /\ q = p => Place(run[q]) < Place(run'[q])
      <3>1. Place(run[q]) \in Nat
        BY <2>3, Standing DEF Calls
      <3> QED
        BY <2>1, <2>2, <2>3, <3>1 DEF Advances
    <2>5. CASE d \in DOMAIN delivery /\ Rewritten(p, d)
      <3>1. delivery[d].by = run[q].no /\ delivery'[d].kind = delivery[d].kind
        BY <2>2, <2>3, <2>5 DEF Rewritten
      <3>2. /\ delivery[d].kind = DeliveryKind(run[q].kind)
            /\ \E m \in 1 .. Place(run[q]) - 1 : Plan(run[q].kind)[m] = "pack"
        BY <2>3, <2>5, <3>1 DEF Owned
      <3> QED
        BY <2>3, <2>4, <3>1, <3>2
    <2>6. CASE /\ At(p, "pack") /\ delivery'[d].kind = DeliveryKind(run[p].kind)
               /\ delivery'[d].by = run[p].no
      <3>1. q = p
        BY <2>1, <2>2, <2>3, <2>6 DEF Meets, Advances, Running
      <3>2. /\ Plan(run[p].kind)[Place(run[p])] = "pack"
            /\ Place(run[p]) \in 1 .. Len(Plan(run[p].kind))
        BY <2>6, AtRuns
      <3> QED
        BY <2>3, <2>4, <2>6, <3>1, <3>2
    <2> QED
      BY <1>4, <2>2, <2>5, <2>6, Origins
  <1>5. ASSUME NEW p \in Proc, Kill(p)
        PROVE  Owned'
    <2>1. run' = [run EXCEPT ![p] = Idle] /\ delivery' = delivery
      BY <1>5 DEF Kill, tables
    <2>2. \A q \in Proc : run'[q].todo # <<>> => run'[q] = run[q]
      BY <2>1 DEF Calls, Idle
    <2> QED
      BY <2>1, <2>2 DEF Owned
  <1> QED
    BY <1>1, <1>2, <1>3, <1>4, <1>5, Cases

\* What a credit adds: open deliveries among those given, for the call that looks.
LEMMA CreditAdds ==
  ASSUME NEW p \in Proc, NEW among, NEW ids, Credit(p, among, ids),
         NEW x \in credited', x \notin credited
  PROVE  /\ x[1] \in among /\ x[1] \in DOMAIN delivery /\ x[3] = run[p].no
         /\ DOMAIN delivery' = DOMAIN delivery
  <1>1. PICK y \in among \X ids : /\ Creditable(y[1], y[2])
                                  /\ x = <<y[1], y[2], run[p].no>>
    BY DEF Credit
  <1>2. x[1] = y[1] /\ x[3] = run[p].no /\ y[1] \in among
    BY <1>1
  <1> QED
    BY <1>1, <1>2 DEF Creditable, Open, Credit

\* Whom a step credits: nobody new, or deliveries a hit or a conversion found.
LEMMA StepCredits ==
  ASSUME Calls, Tables, NEW p \in Proc, Step(p), NEW x \in credited'
  PROVE  \/ x \in credited /\ (x[1] \in DOMAIN delivery => x[1] \in DOMAIN delivery')
         \/ /\ x[1] \in DOMAIN delivery /\ x[1] \in DOMAIN delivery' /\ x[3] = run[p].no
            /\ At(p, "hit") \/ (At(p, "convert") /\ delivery[x[1]].kind = "pack")
  <1>0. Rewrites(p) => DOMAIN delivery' = DOMAIN delivery
    BY DEF Rewrites
  <1>1. CASE RecordEvent(p)
    BY <1>1 DEF RecordEvent, GiveUp, tables
  <1>2. CASE Detect(p)
    BY <1>2 DEF Detect, tables, history
  <1>3. CASE RecordHits(p)
    <2>1. CASE Credit(p, DOMAIN delivery, run[p].found)
      <3>1. At(p, "hit") /\ DOMAIN delivery' = DOMAIN delivery
        BY <1>3, <2>1 DEF RecordHits, Credit
      <3> QED
        BY <2>1, <3>1, CreditAdds
    <2> QED
      BY <1>3, <2>1 DEF RecordHits, GiveUp, tables
  <1>4. CASE ConvertPointers(p)
    <2>1. ASSUME NEW among, among = {d \in DOMAIN delivery : delivery[d].kind = "pack"},
                 Credit(p, among, run[p].given \cap Pointer), x \notin credited
          PROVE  /\ x[1] \in DOMAIN delivery /\ x[1] \in DOMAIN delivery'
                 /\ x[3] = run[p].no /\ delivery[x[1]].kind = "pack"
      BY <2>1, CreditAdds
    <2>2. At(p, "convert")
      BY <1>4 DEF ConvertPointers
    <2>3. ASSUME NEW among, Credit(p, among, run[p].given \cap Pointer)
          PROVE  DOMAIN delivery' = DOMAIN delivery
      BY <2>3 DEF Credit
    <2>4. CASE Credit(p, {d \in DOMAIN delivery : delivery[d].kind = "pack"},
                     run[p].given \cap Pointer)
      BY <2>1, <2>2, <2>3, <2>4
    <2> QED
      BY <1>4, <2>4 DEF ConvertPointers, GiveUp, tables
  <1>5. CASE CloseDeliveries(p)
    BY <1>5 DEF CloseDeliveries, GiveUp, tables
  <1>6. CASE Deliver(p)
    <2>1. credited' = credited
      BY <1>6 DEF Deliver, history
    <2>2. CASE Delivers(p)
      <3>1. DOMAIN delivery \subseteq DOMAIN delivery'
        BY <2>2 DEF Delivers, Insert
      <3> QED
        BY <2>1, <3>1
    <2> QED
      BY <1>6, <2>1, <2>2, DeliverDelivers
  <1>7. CASE RecordDelivered(p)
    BY <1>7 DEF RecordDelivered, GiveUp, tables
  <1>8. CASE LogSearch(p)
    BY <1>8 DEF LogSearch, GiveUp, tables
  <1>9. CASE Mine(p)
    BY <1>9 DEF Mine, tables, history
  <1>10. CASE Impress(p)
    BY <1>10 DEF Impress, GiveUp, tables
  <1>11. CASE Sweep(p)
    BY <1>11 DEF Sweep
  <1> QED
    BY <1>1, <1>2, <1>3, <1>4, <1>5, <1>6, <1>7, <1>8, <1>9, <1>10, <1>11 DEF Step

\* A call that looks for hits has delivered nothing yet, unless it is a pull; one
\* that converts pointers has delivered no pack.
LEMMA LooksBeforeIt ==
  ASSUME Calls, Owned, NEW p \in Proc, NEW d \in DOMAIN delivery,
         delivery[d].by = run[p].no,
         At(p, "hit") \/ (At(p, "convert") /\ delivery[d].kind = "pack")
  PROVE  delivery[d].kind = "pull"
  <1>1. /\ run[p].todo # <<>> /\ run[p].kind \in Kinds
        /\ Sound(Plan(run[p].kind), run[p].kind)
        /\ Place(run[p]) \in 1 .. Len(Plan(run[p].kind))
        /\ At(p, "hit") => Plan(run[p].kind)[Place(run[p])] = "hit"
        /\ At(p, "convert") => Plan(run[p].kind)[Place(run[p])] = "convert"
    BY AtRuns DEF At, OnTrack
  <1>2. delivery[d].kind = DeliveryKind(run[p].kind)
    BY <1>1 DEF Owned
  <1>3. PICK m \in 1 .. Place(run[p]) - 1 : Plan(run[p].kind)[m] = "pack"
    BY <1>1 DEF Owned
  <1>4. m \in 1 .. Len(Plan(run[p].kind)) /\ ~(Place(run[p]) < m)
    BY <1>1, <1>3 DEF Sound
  <1>5. CASE At(p, "hit")
    <2>1. run[p].kind = "pull"
      BY <1>1, <1>3, <1>4, <1>5 DEF Sound
    <2> QED
      BY <1>2, <2>1, Destinations
  <1>6. CASE At(p, "convert") /\ delivery[d].kind = "pack"
    BY <1>1, <1>2, <1>6 DEF Sound
  <1> QED
    BY <1>5, <1>6

\* Every hit is of another call's delivery, or of a pull.
LEMMA CreditsNext ==
  ASSUME Calls, Tables, Owned, Credits, [Next]_vars
  PROVE  Credits'
  <1>1. CASE UNCHANGED vars
    BY <1>1 DEF Credits, vars, tables, history
  <1>2. CASE TimePasses
    BY <1>2 DEF Credits, TimePasses, tables
  <1>3. ASSUME NEW p \in Proc, Begin(p)
        PROVE  Credits'
    BY <1>3 DEF Credits, Begin, tables
  <1>4. ASSUME NEW p \in Proc, Step(p)
        PROVE  Credits'
    <2>1. SUFFICES ASSUME NEW x \in credited'
                   PROVE  /\ x[1] \in DOMAIN delivery'
                          /\ delivery'[x[1]].by = x[3] => delivery'[x[1]].kind = "pull"
      BY DEF Credits
    <2>2. /\ x[1] \in DOMAIN delivery /\ x[1] \in DOMAIN delivery'
          /\ delivery[x[1]].by = x[3] => delivery[x[1]].kind = "pull"
      BY <1>4, <2>1, StepCredits, LooksBeforeIt DEF Credits
    <2>3. Rewritten(p, x[1])
      BY <1>4, <2>2, Origins
    <2> QED
      BY <2>2, <2>3 DEF Rewritten
  <1>5. ASSUME NEW p \in Proc, Kill(p)
        PROVE  Credits'
    BY <1>5 DEF Credits, Kill, tables, history
  <1> QED
    BY <1>1, <1>2, <1>3, <1>4, <1>5, Cases

\* The part of the invariants that every argument below needs.
CallInv == Calls /\ Meets /\ Tables /\ Owned

\* Before the first call there is nothing.
LEMMA CallInit ==
  ASSUME Init
  PROVE  CallInv
  <1>1. Shaped(Idle) /\ Idle.todo = <<>>
    BY DEF Shaped, Idle
  <1>2. session \in Seq(Call)
    BY SessionAssumption DEF Init
  <1>3. /\ \A p \in Proc : run[p] = Idle
        /\ DOMAIN run = Proc /\ calls = 0 /\ day = 0 /\ faults = 0
        /\ DOMAIN event = {} /\ DOMAIN delivery = {}
    BY DEF Init
  <1>4. Calls
    BY <1>1, <1>2, <1>3 DEF Calls
  <1>5. Meets /\ Owned
    BY <1>1, <1>3 DEF Meets, Owned
  <1>6. Tables
    BY <1>3 DEF Tables, Dated
  <1> QED
    BY <1>4, <1>5, <1>6 DEF CallInv

\* Every step keeps it.
LEMMA CallNext ==
  ASSUME CallInv, [Next]_vars
  PROVE  CallInv'
  BY CallsNext, MeetsNext, TablesNext, OwnedNext DEF CallInv

(***************************************************************************)
(* Whatever the calls are and however they interleave, none of them        *)
(* credits an entity for what it delivers itself: hits are looked for      *)
(* before a prompt's pack and a save's rules are recorded (lifecycle.rs),  *)
(* and a result list converts pointers of packs only.  A pull is the       *)
(* exception the code makes.                                               *)
(***************************************************************************)
THEOREM NobodyCreditsItself == Spec => []NoSelfCredit
  <1>1. Init => CallInv /\ Credits
    BY CallInit DEF Init, Credits
  <1>2. CallInv /\ Credits /\ [Next]_vars => (CallInv /\ Credits)'
    BY CallNext, CreditsNext DEF CallInv
  <1>3. CallInv /\ Credits => NoSelfCredit
    BY DEF Credits, NoSelfCredit
  <1> QED
    BY <1>1, <1>2, <1>3, PTL DEF Spec

-----------------------------------------------------------------------------
(***************************************************************************)
(* A closed delivery is settled.                                           *)
(***************************************************************************)

\* The delivery whose entries a call is about to write is its own, of today, and
\* closed only by a call that ran beside it.
Writing ==
  \A p \in Proc : At(p, "rows") =>
    /\ run[p].delivery \in DOMAIN delivery
    /\ delivery[run[p].delivery].by = run[p].no
    /\ delivery[run[p].delivery].day = day
    /\ delivery[run[p].delivery].closed => MetAnyone(run[p].no)

\* Calls that have met, stay met.
LEMMA MetGrows ==
  ASSUME [Next]_vars
  PROVE  met \subseteq met'
  <1>1. CASE UNCHANGED vars
    BY <1>1 DEF vars, history
  <1>2. CASE TimePasses
    BY <1>2 DEF TimePasses
  <1>3. ASSUME NEW p \in Proc, Begin(p)
        PROVE  met \subseteq met'
    BY <1>3 DEF Begin
  <1>4. ASSUME NEW p \in Proc, Step(p)
        PROVE  met \subseteq met'
    <2> USE DEF history
    <2>1. CASE RecordEvent(p)
      BY <2>1 DEF RecordEvent
    <2>2. CASE Detect(p) \/ Mine(p)
      BY <2>2 DEF Detect, Mine
    <2>3. CASE RecordHits(p) \/ ConvertPointers(p)
      BY <2>3 DEF RecordHits, ConvertPointers
    <2>4. CASE CloseDeliveries(p) \/ RecordDelivered(p)
      BY <2>4 DEF CloseDeliveries, RecordDelivered
    <2>5. CASE Deliver(p)
      BY <2>5 DEF Deliver
    <2>6. CASE LogSearch(p) \/ Impress(p) \/ Sweep(p)
      BY <2>6 DEF LogSearch, Impress, Sweep
    <2> QED
      BY <1>4, <2>1, <2>2, <2>3, <2>4, <2>5, <2>6 DEF Step
  <1>5. ASSUME NEW p \in Proc, Kill(p)
        PROVE  met \subseteq met'
    BY <1>5 DEF Kill, history
  <1> QED
    BY <1>1, <1>2, <1>3, <1>4, <1>5, Cases

\* A call that takes a pack step delivers.
LEMMA OnlyDelivers ==
  ASSUME NEW p \in Proc, Step(p), At(p, "pack")
  PROVE  Deliver(p)
  BY DEF Step, At, RecordEvent, Detect, RecordHits, ConvertPointers, CloseDeliveries,
         RecordDelivered, LogSearch, Mine, Impress, Sweep

\* A call that comes to write entries has just made the delivery.
LEMMA ComesToWrite ==
  ASSUME CallInv, NEW p \in Proc, Step(p), At(p, "rows")'
  PROVE  /\ run'[p].delivery \in DOMAIN delivery'
         /\ delivery'[run'[p].delivery].by = run'[p].no
         /\ delivery'[run'[p].delivery].day = day
         /\ ~delivery'[run'[p].delivery].closed
  <1>1. Advances(p) /\ Calls /\ Tables
    BY StepAdvances DEF CallInv
  <1>2. At(p, "pack") /\ Place(run'[p]) = Place(run[p]) + 1
    BY <1>1, Before
  <1>3. Deliver(p)
    BY <1>2, OnlyDelivers
  <1>4. Shaped(run[p]) /\ run'[p].todo # <<>> /\ Place(run[p]) \in Nat
    BY <1>1, <1>2, AtRuns DEF At
  <1>5. ~Next2(p, run[p])
    BY <1>1, <1>2, <1>4, Skips
  <1>6. PICK r : /\ ~r.closed /\ r.by = run[p].no /\ r.day = day
                 /\ run'[p].delivery = NextId(delivery)
                 /\ delivery' = Insert(delivery, r)
    BY <1>1, <1>3, <1>4, <1>5, DeliverDelivers DEF Delivers
  <1>7. /\ DOMAIN Insert(delivery, r) = DOMAIN delivery \cup {NextId(delivery)}
        /\ Insert(delivery, r)[NextId(delivery)] = r
    <2>1. day \in Nat /\ Dated(delivery, day) /\ r.day = day
      BY <1>1, <1>6 DEF Calls, Tables
    <2> QED
      BY <2>1, Inserts
  <1>8. run'[p].no = run[p].no
    BY <1>1, <1>4 DEF Advances
  <1> QED
    BY <1>6, <1>7, <1>8

\* A delivery of today outlives every step.
LEMMA TodayStays ==
  ASSUME CallInv, NEW p \in Proc, Step(p), NEW d \in DOMAIN delivery,
         delivery[d].day = day
  PROVE  d \in DOMAIN delivery' /\ Rewritten(p, d)
  <1>1. Calls /\ Tables /\ day \in Nat /\ Dated(delivery, day)
    BY DEF CallInv, Calls, Tables
  <1>2. CASE Rewrites(p)
    BY <1>2 DEF Rewrites
  <1>3. CASE Delivers(p)
    <2>1. d \in DOMAIN delivery'
      BY <1>3 DEF Delivers, Insert
    <2> QED
      BY <1>1, <2>1, Origins
  <1>4. CASE Cleans
    <2>1. d \in DOMAIN delivery'
      BY <1>1, <1>4, Sweeps DEF Cleans
    <2> QED
      BY <1>1, <2>1, Origins
  <1> QED
    BY <1>1, <1>2, <1>3, <1>4, StepDeliveries

\* What the calls are about to write stays theirs.
LEMMA WritingNext ==
  ASSUME CallInv, Writing, [Next]_vars
  PROVE  Writing'
  <1>0. Calls /\ Meets
    BY DEF CallInv
  <1>1. CASE UNCHANGED vars
    BY <1>1 DEF Writing, At, MetAnyone, vars, tables, history
  <1>2. CASE TimePasses
    BY <1>2 DEF Writing, At, Running, TimePasses
  <1>3. ASSUME NEW p \in Proc, Begin(p)
        PROVE  Writing'
    <2>1. delivery' = delivery /\ day' = day /\ met \subseteq met'
      BY <1>3 DEF Begin, tables
    <2>2. SUFFICES ASSUME NEW q \in Proc, At(q, "rows")'
                   PROVE  /\ run'[q].delivery \in DOMAIN delivery'
                          /\ delivery'[run'[q].delivery].by = run'[q].no
                          /\ delivery'[run'[q].delivery].day = day'
                          /\ delivery'[run'[q].delivery].closed =>
                               \E pair \in met' : run'[q].no \in pair
      BY DEF Writing, MetAnyone
    <2>3. q # p
      BY <1>0, <1>3, <2>2, FirstStep
    <2>4. run'[q] = run[q]
      BY <1>0, <1>3, <2>3, BeginStarts
    <2>5. At(q, "rows")
      BY <2>2, <2>4 DEF At
    <2> QED
      BY <2>1, <2>4, <2>5 DEF Writing, MetAnyone
  <1>4. ASSUME NEW p \in Proc, Step(p)
        PROVE  Writing'
    <2>1. day' = day /\ met' = met /\ Advances(p)
      BY <1>0, <1>4, StepKeeps, StepAdvances
    <2>2. SUFFICES ASSUME NEW q \in Proc, At(q, "rows")'
                   PROVE  /\ run'[q].delivery \in DOMAIN delivery'
                          /\ delivery'[run'[q].delivery].by = run'[q].no
                          /\ delivery'[run'[q].delivery].day = day'
                          /\ delivery'[run'[q].delivery].closed =>
                               \E pair \in met' : run'[q].no \in pair
      BY DEF Writing, MetAnyone
    <2>3. CASE q = p
      BY <1>4, <2>1, <2>2, <2>3, ComesToWrite
    <2>4. CASE q # p
      <3>1. run'[q] = run[q] /\ p \in Running
        BY <2>1, <2>4 DEF Advances
      <3>2. At(q, "rows")
        BY <2>2, <3>1 DEF At
      <3> DEFINE d == run[q].delivery
      <3>3. /\ d \in DOMAIN delivery /\ delivery[d].by = run[q].no
            /\ delivery[d].day = day
            /\ delivery[d].closed => MetAnyone(run[q].no)
        BY <3>2 DEF Writing
      <3>4. d \in DOMAIN delivery' /\ Rewritten(p, d)
        BY <1>4, <3>3, TodayStays
      <3>5. \E pair \in met' : run[q].no \in pair
        <4>1. {run[p].no, run[q].no} \in met
          BY <1>0, <2>4, <3>1, <3>2 DEF Meets, Running, At
        <4> QED
          BY <2>1, <4>1
      <3> QED
        BY <2>1, <3>1, <3>3, <3>4, <3>5 DEF Rewritten
    <2> QED
      BY <2>3, <2>4
  <1>5. ASSUME NEW p \in Proc, Kill(p)
        PROVE  Writing'
    <2>1. /\ delivery' = delivery /\ day' = day /\ met' = met
          /\ run' = [run EXCEPT ![p] = Idle]
      BY <1>5 DEF Kill, tables, history
    <2>2. \A q \in Proc : run'[q].todo # <<>> => run'[q] = run[q]
      BY <1>0, <2>1 DEF Calls, Idle
    <2> QED
      BY <2>1, <2>2 DEF Writing, At, MetAnyone
  <1> QED
    BY <1>1, <1>2, <1>3, <1>4, <1>5, Cases

\* Entries still pending in a closed delivery arrived beside the call that closed it.
LEMMA SettledNext ==
  ASSUME CallInv, Writing, ClosedIsSettled, [Next]_vars
  PROVE  ClosedIsSettled'
  <1>0. Calls /\ Tables /\ met \subseteq met'
    BY MetGrows DEF CallInv
  <1>1. ASSUME delivery' = delivery
        PROVE  ClosedIsSettled'
    BY <1>0, <1>1 DEF ClosedIsSettled, MetAnyone
  <1>2. ASSUME NEW p \in Proc, Step(p)
        PROVE  ClosedIsSettled'
    <2>1. SUFFICES ASSUME NEW d \in DOMAIN delivery', NEW e \in Entity,
                          delivery'[d].closed, delivery'[d].rows[e] = "pending"
                   PROVE  \E pair \in met' : delivery'[d].by \in pair
      BY DEF ClosedIsSettled, MetAnyone
    <2>2. d \in DOMAIN delivery /\ Rewritten(p, d)
      BY <1>0, <1>2, <2>1, Origins
    <2>3. /\ delivery'[d].by = delivery[d].by /\ delivery[d].closed
          /\ delivery[d].rows[e] = "pending" \/ (At(p, "rows") /\ d = run[p].delivery)
      BY <2>1, <2>2 DEF Rewritten
    <2>4. MetAnyone(delivery[d].by)
      BY <2>2, <2>3 DEF ClosedIsSettled, Writing
    <2> QED
      BY <1>0, <2>3, <2>4 DEF MetAnyone
  <1> QED
    BY <1>1, <1>2, Cases DEF vars, tables, TimePasses, Begin, Kill

(***************************************************************************)
(* Whatever the calls are and however they interleave, an entry stays      *)
(* pending in a closed delivery only when the call that delivered it ran   *)
(* beside another: record_delivered is a transaction after                 *)
(* record_delivery (usage.rs), and only a close between the two can leave  *)
(* its entries behind.                                                     *)
(***************************************************************************)
THEOREM ClosingSettles == Spec => []ClosedIsSettled
  <1> DEFINE Inv == CallInv /\ Writing /\ ClosedIsSettled
  <1>1. Init => Inv
    <2>1. ASSUME Init PROVE Writing
      BY <2>1 DEF Init, Writing, At, Idle
    <2>2. ASSUME Init PROVE ClosedIsSettled
      BY <2>2 DEF Init, ClosedIsSettled
    <2> QED
      BY <2>1, <2>2, CallInit
  <1>2. Inv /\ [Next]_vars => Inv'
    BY CallNext, WritingNext, SettledNext
  <1> QED
    BY <1>1, <1>2, PTL DEF Spec

-----------------------------------------------------------------------------
(***************************************************************************)
(* The delivery window is pack-to-pack.                                    *)
(***************************************************************************)

\* Between its close and its pack a call finds open only the packs of calls that
\* run beside it, unless its close was given up or a hook killed.
Boundaries ==
  \A p \in Proc, c \in DOMAIN delivery :
    /\ At(p, "pack") /\ DeliveryKind(run[p].kind) = "pack"
    /\ ~delivery[c].closed /\ delivery[c].kind = "pack"
    => {delivery[c].by, run[p].no} \in met \/ faults > 0

\* A call that comes to its pack has closed all that was open.
LEMMA ComesToPack ==
  ASSUME CallInv, NEW p \in Proc, Step(p), At(p, "pack")',
         DeliveryKind(run'[p].kind) = "pack", ~(faults' > 0)
  PROVE  \A c \in DOMAIN delivery' : delivery'[c].closed
  <1>1. Calls /\ Tables /\ Advances(p)
    BY StepAdvances DEF CallInv
  <1>2. At(p, "close")
    BY <1>1, Before
  <1>3. CloseDeliveries(p)
    BY <1>2 DEF Step, At, RecordEvent, Detect, RecordHits, ConvertPointers, Deliver,
         RecordDelivered, LogSearch, Mine, Impress, Sweep
  <1>4. faults' # faults + 1
    BY <1>1 DEF Calls
  <1> QED
    BY <1>1, <1>2, <1>3, <1>4, CloseRewrites DEF CloseDeliveries, GiveUp, Fault

\* The boundaries stay.
LEMMA BoundariesNext ==
  ASSUME CallInv, Boundaries, [Next]_vars
  PROVE  Boundaries'
  <1>0. Calls /\ Meets /\ Tables /\ faults \in Nat
    BY DEF CallInv, Calls
  <1>1. CASE UNCHANGED vars
    BY <1>1 DEF Boundaries, At, vars, tables, history
  <1>2. CASE TimePasses
    BY <1>2 DEF Boundaries, At, Running, TimePasses
  <1>3. ASSUME NEW p \in Proc, Begin(p)
        PROVE  Boundaries'
    <2>1. delivery' = delivery /\ faults' = faults /\ met \subseteq met'
      BY <1>3 DEF Begin, tables
    <2>2. SUFFICES ASSUME NEW q \in Proc, NEW c \in DOMAIN delivery',
                          At(q, "pack")', DeliveryKind(run'[q].kind) = "pack",
                          ~delivery'[c].closed, delivery'[c].kind = "pack"
                   PROVE  {delivery'[c].by, run'[q].no} \in met' \/ faults' > 0
      BY DEF Boundaries
    <2>3. q # p
      BY <1>0, <1>3, <2>2, FirstStep
    <2>4. run'[q] = run[q]
      BY <1>0, <1>3, <2>3, BeginStarts
    <2>5. At(q, "pack")
      BY <2>2, <2>4 DEF At
    <2> QED
      BY <2>1, <2>2, <2>4, <2>5 DEF Boundaries
  <1>4. ASSUME NEW p \in Proc, Step(p)
        PROVE  Boundaries'
    <2>1. met' = met /\ (faults > 0 => faults' > 0) /\ Advances(p)
      BY <1>0, <1>4, StepKeeps, StepAdvances
    <2>2. SUFFICES ASSUME NEW q \in Proc, NEW c \in DOMAIN delivery',
                          At(q, "pack")', DeliveryKind(run'[q].kind) = "pack",
                          ~delivery'[c].closed, delivery'[c].kind = "pack"
                   PROVE  {delivery'[c].by, run'[q].no} \in met' \/ faults' > 0
      BY DEF Boundaries
    <2>3. CASE q = p
      BY <1>4, <2>2, <2>3, ComesToPack
    <2>4. CASE q # p
      <3>1. run'[q] = run[q] /\ p \in Running
        BY <2>1, <2>4 DEF Advances
      <3>2. At(q, "pack") /\ q \in Running
        BY <2>2, <3>1 DEF At, Running
      <3>3. CASE c \in DOMAIN delivery /\ Rewritten(p, c)
        <4>1. /\ ~delivery[c].closed /\ delivery[c].kind = "pack"
              /\ delivery'[c].by = delivery[c].by
          BY <2>2, <3>3 DEF Rewritten
        <4> QED
          BY <2>1, <2>2, <3>1, <3>2, <3>3, <4>1 DEF Boundaries
      <3>4. CASE delivery'[c].by = run[p].no
        <4>1. {run[p].no, run[q].no} \in met
          BY <1>0, <2>4, <3>1, <3>2 DEF Meets, Running
        <4> QED
          BY <2>1, <3>1, <3>4, <4>1
      <3> QED
        BY <1>0, <1>4, <2>2, <3>3, <3>4, Origins
    <2> QED
      BY <2>3, <2>4
  <1>5. ASSUME NEW p \in Proc, Kill(p)
        PROVE  Boundaries'
    <2>1. faults' > 0
      BY <1>0, <1>5 DEF Kill, Fault
    <2> QED
      BY <2>1 DEF Boundaries
  <1> QED
    BY <1>1, <1>2, <1>3, <1>4, <1>5, Cases

\* Two packs are open together only beside each other.
LEMMA WindowNext ==
  ASSUME CallInv, Boundaries, OnePackOpen, [Next]_vars
  PROVE  OnePackOpen'
  <1>0. Calls /\ Tables /\ met \subseteq met' /\ faults \in Nat
    BY MetGrows DEF CallInv, Calls
  <1>1. ASSUME delivery' = delivery, faults' = faults
        PROVE  OnePackOpen'
    BY <1>0, <1>1 DEF OnePackOpen, Open
  <1>2. ASSUME NEW p \in Proc, Kill(p)
        PROVE  OnePackOpen'
    <2>1. faults' > 0
      BY <1>0, <1>2 DEF Kill, Fault
    <2> QED
      BY <2>1 DEF OnePackOpen
  <1>3. ASSUME NEW p \in Proc, Step(p)
        PROVE  OnePackOpen'
    <2>1. faults > 0 => faults' > 0
      BY <1>0, <1>3, StepKeeps
    <2> DEFINE OpenPack(d) == ~delivery[d].closed /\ delivery[d].kind = "pack"
    <2>2. SUFFICES ASSUME NEW c \in DOMAIN delivery', NEW d \in DOMAIN delivery', c < d,
                          ~delivery'[c].closed, delivery'[c].kind = "pack",
                          ~delivery'[d].closed, delivery'[d].kind = "pack"
                   PROVE  {delivery'[c].by, delivery'[d].by} \in met' \/ faults' > 0
      BY DEF OnePackOpen, Open
    <2>3. ASSUME NEW b \in DOMAIN delivery', ~delivery'[b].closed,
                 delivery'[b].kind = "pack"
          PROVE  \/ /\ b \in DOMAIN delivery /\ OpenPack(b)
                    /\ delivery'[b].by = delivery[b].by
                 \/ /\ b = NextId(delivery) /\ b \notin DOMAIN delivery
                    /\ At(p, "pack") /\ DeliveryKind(run[p].kind) = "pack"
                    /\ delivery'[b].by = run[p].no
      BY <1>0, <1>3, <2>3, Origins DEF Rewritten
    <2>4. ASSUME NEW a \in DOMAIN delivery, OpenPack(a), delivery'[a].by = delivery[a].by,
                 NEW b \in DOMAIN delivery', At(p, "pack"),
                 DeliveryKind(run[p].kind) = "pack", delivery'[b].by = run[p].no
          PROVE  /\ {delivery'[a].by, delivery'[b].by} \in met' \/ faults' > 0
                 /\ {delivery'[b].by, delivery'[a].by} \in met' \/ faults' > 0
      <3>1. {delivery[a].by, run[p].no} \in met \/ faults > 0
        BY <2>4 DEF Boundaries
      <3>2. {delivery[a].by, run[p].no} = {run[p].no, delivery[a].by}
        OBVIOUS
      <3> QED
        BY <1>0, <2>1, <2>4, <3>1, <3>2
    <2>5. CASE c \in DOMAIN delivery /\ OpenPack(c) /\ delivery'[c].by = delivery[c].by
      <3>1. CASE d \in DOMAIN delivery /\ OpenPack(d) /\ delivery'[d].by = delivery[d].by
        BY <1>0, <2>1, <2>2, <2>5, <3>1 DEF OnePackOpen, Open
      <3>2. CASE /\ At(p, "pack") /\ DeliveryKind(run[p].kind) = "pack"
                 /\ delivery'[d].by = run[p].no
        BY <2>2, <2>4, <2>5, <3>2
      <3> QED
        BY <2>2, <2>3, <3>1, <3>2
    <2>6. CASE /\ c = NextId(delivery) /\ c \notin DOMAIN delivery
               /\ At(p, "pack") /\ DeliveryKind(run[p].kind) = "pack"
               /\ delivery'[c].by = run[p].no
      <3>1. d \in DOMAIN delivery /\ OpenPack(d) /\ delivery'[d].by = delivery[d].by
        <4>1. c \in Nat
          BY <1>0, <2>6, NewId DEF Tables, Calls
        <4>2. d # NextId(delivery)
          BY <2>2, <2>6, <4>1
        <4> QED
          BY <2>2, <2>3, <4>2
      <3> QED
        BY <2>2, <2>4, <2>6, <3>1
    <2> QED
      BY <2>2, <2>3, <2>5, <2>6
  <1> QED
    BY <1>1, <1>2, <1>3, Cases DEF vars, tables, TimePasses, Begin

(***************************************************************************)
(* Whatever the calls are and however they interleave, two packs are open  *)
(* together only when their calls ran at the same time, or when a write    *)
(* was given up or a hook killed: a pack is recorded right after the close *)
(* of all that was open (lifecycle.rs).                                    *)
(***************************************************************************)
THEOREM WindowsDoNotOverlap == Spec => []OnePackOpen
  <1> DEFINE Inv == CallInv /\ Boundaries /\ OnePackOpen
  <1>1. Init => Inv
    <2>1. ASSUME Init PROVE DOMAIN delivery = {}
      BY <2>1 DEF Init
    <2> QED
      BY <2>1, CallInit DEF Boundaries, OnePackOpen, Open
  <1>2. Inv /\ [Next]_vars => Inv'
    BY CallNext, BoundariesNext, WindowNext
  <1> QED
    BY <1>1, <1>2, PTL DEF Spec

-----------------------------------------------------------------------------
(***************************************************************************)
(* A suggestion is shown once a day.                                       *)
(***************************************************************************)

\* What was shown today is in the ledger, unless an impression was lost.
Ledger ==
  faults = 0 =>
    \A m \in nudged : \E i \in DOMAIN event :
      event[i].type = "nudge" /\ event[i].day = day /\ m[1] \in event[i].prints

\* What a call is about to show was shown only by calls that ran beside it.
Showing ==
  \A p \in Proc, m \in nudged :
    At(p, "impress") /\ m[1] \in run[p].fresh /\ m[2] # run[p].no
      => {m[2], run[p].no} \in met \/ faults > 0

\* What a step shows, and that it leaves the impression unless it gives up.
LEMMA StepNudges ==
  ASSUME NEW p \in Proc, Step(p)
  PROVE  \/ nudged' = nudged
         \/ /\ At(p, "impress")
            /\ nudged' = nudged \cup {<<f, run[p].no>> : f \in run[p].fresh}
            /\ \/ event' = Insert(event, EventRow("nudge", p, FALSE, run[p].fresh))
               \/ faults' = faults + 1
  <1> USE DEF history
  <1>1. CASE RecordEvent(p)
    BY <1>1 DEF RecordEvent
  <1>2. CASE Detect(p) \/ Mine(p)
    BY <1>2 DEF Detect, Mine
  <1>3. CASE RecordHits(p) \/ ConvertPointers(p)
    BY <1>3 DEF RecordHits, ConvertPointers
  <1>4. CASE CloseDeliveries(p) \/ RecordDelivered(p)
    BY <1>4 DEF CloseDeliveries, RecordDelivered
  <1>5. CASE Deliver(p)
    BY <1>5 DEF Deliver
  <1>6. CASE LogSearch(p) \/ Sweep(p)
    BY <1>6 DEF LogSearch, Sweep
  <1>7. CASE Impress(p)
    BY <1>7 DEF Impress, GiveUp, Fault
  <1> QED
    BY <1>1, <1>2, <1>3, <1>4, <1>5, <1>6, <1>7 DEF Step

\* Whom a suggestion that is new was shown by.
LEMMA NewNudges ==
  ASSUME NEW p \in Proc, Step(p), NEW k \in nudged', k \notin nudged
  PROVE  At(p, "impress") /\ k[2] = run[p].no /\ k[1] \in run[p].fresh
  <1>1. At(p, "impress") /\ k \in {<<f, run[p].no>> : f \in run[p].fresh}
    BY StepNudges
  <1>2. PICK f \in run[p].fresh : k = <<f, run[p].no>>
    BY <1>1
  <1> QED
    BY <1>1, <1>2

\* The ledger stays complete.
LEMMA LedgerNext ==
  ASSUME CallInv, Ledger, [Next]_vars
  PROVE  Ledger'
  <1>0. Calls /\ Tables /\ faults \in Nat
    BY DEF CallInv, Calls
  <1>1. CASE UNCHANGED vars
    BY <1>1 DEF Ledger, vars, tables, history
  <1>2. CASE TimePasses
    BY <1>2 DEF Ledger, TimePasses
  <1>3. ASSUME NEW p \in Proc, Begin(p)
        PROVE  Ledger'
    BY <1>3 DEF Ledger, Begin, tables
  <1>4. ASSUME NEW p \in Proc, Step(p)
        PROVE  Ledger'
    <2>1. day' = day /\ (faults' = faults \/ faults' = faults + 1)
      BY <1>0, <1>4, StepKeeps
    <2>2. SUFFICES ASSUME faults' = 0, NEW m \in nudged'
                   PROVE  \E i \in DOMAIN event' : /\ event'[i].type = "nudge"
                                                   /\ event'[i].day = day
                                                   /\ m[1] \in event'[i].prints
      BY <2>1 DEF Ledger
    <2>3. faults = 0 /\ faults' # faults + 1
      BY <1>0, <2>1, <2>2
    <2>4. day \in Nat /\ Dated(event, day)
      BY <1>0 DEF Calls, Tables
    <2>7. ASSUME NEW r, r.day = day
          PROVE  /\ DOMAIN Insert(event, r) = DOMAIN event \cup {NextId(event)}
                 /\ Insert(event, r)[NextId(event)] = r
      BY <2>4, <2>7, Inserts
    <2>5. CASE m \in nudged
      <3>1. PICK i \in DOMAIN event : /\ event[i].type = "nudge" /\ event[i].day = day
                                      /\ m[1] \in event[i].prints
        BY <2>3, <2>5 DEF Ledger
      <3>2. ASSUME NEW r, r.day = day, event' = Insert(event, r)
            PROVE  i \in DOMAIN event' /\ event'[i] = event[i]
        <4>1. /\ DOMAIN Insert(event, r) = DOMAIN event \cup {NextId(event)}
              /\ \A j \in DOMAIN event : Insert(event, r)[j] = event[j]
          BY <2>4, <3>2, Inserts
        <4> QED
          BY <3>1, <3>2, <4>1
      <3>3. ASSUME event' = Without(event, Expired(event))
            PROVE  i \in DOMAIN event' /\ event'[i] = event[i]
        <4>1. /\ i \in DOMAIN Without(event, Expired(event))
              /\ Without(event, Expired(event))[i] = event[i]
          BY <2>4, <3>1, Sweeps
        <4> QED
          BY <3>3, <4>1
      <3>4. i \in DOMAIN event' /\ event'[i] = event[i]
        BY <1>4, <3>1, <3>2, <3>3, StepEvents
      <3> QED
        BY <3>1, <3>4
    <2>6. CASE m \notin nudged
      <3>1. PICK r : /\ r = EventRow("nudge", p, FALSE, run[p].fresh)
                     /\ event' = Insert(event, r)
                     /\ m \in {<<f, run[p].no>> : f \in run[p].fresh}
        BY <1>4, <2>2, <2>3, <2>6, StepNudges
      <3>2. /\ r.type = "nudge" /\ r.day = day /\ r.prints = run[p].fresh
            /\ m[1] \in run[p].fresh
        BY <3>1 DEF EventRow
      <3>3. /\ DOMAIN Insert(event, r) = DOMAIN event \cup {NextId(event)}
            /\ Insert(event, r)[NextId(event)] = r
        BY <2>7, <3>2
      <3> QED
        BY <3>1, <3>2, <3>3
    <2> QED
      BY <2>5, <2>6
  <1>5. ASSUME NEW p \in Proc, Kill(p)
        PROVE  Ledger'
    <2>1. faults' # 0
      BY <1>0, <1>5 DEF Kill, Fault
    <2> QED
      BY <2>1 DEF Ledger
  <1> QED
    BY <1>1, <1>2, <1>3, <1>4, <1>5, Cases

\* A call that comes to show suggestions has found them outside the ledger.
LEMMA ComesToShow ==
  ASSUME CallInv, Ledger, NEW p \in Proc, Step(p), At(p, "impress")',
         NEW m \in nudged, m[1] \in run'[p].fresh
  PROVE  faults > 0
  <1>1. Calls /\ Advances(p) /\ faults \in Nat
    BY StepAdvances DEF CallInv, Calls
  <1>2. At(p, "mine")
    BY <1>1, Before
  <1>3. Mine(p)
    BY <1>2 DEF Step, At, RecordEvent, Detect, RecordHits, ConvertPointers,
         CloseDeliveries, Deliver, RecordDelivered, LogSearch, Impress, Sweep
  <1>4. p \in Running /\ Shaped(run[p]) /\ run'[p].todo # <<>>
    BY <1>1, <1>2, AtRuns DEF At
  <1>5. PICK fresh, r : /\ fresh = Candidates \ ShownPrints(run[p].kind)
                        /\ r = [run[p] EXCEPT !.fresh = fresh]
                        /\ Next1(p, r) \/ Next2(p, r)
    BY <1>3 DEF Mine
  <1>6. /\ Shaped(r) /\ r.no = run[p].no /\ r.kind = run[p].kind
        /\ r.delivery = run[p].delivery /\ r.fresh = fresh
    BY <1>4, <1>5 DEF Shaped
  <1>7. run'[p].fresh = fresh
    BY <1>1, <1>2, <1>4, <1>5, <1>6, Proceeds
  <1>8. m[1] \notin ShownPrints(run[p].kind)
    BY <1>5, <1>7
  <1>9. SUFFICES ASSUME faults = 0 PROVE FALSE
    BY <1>1
  <1>10. PICK i \in DOMAIN event : /\ event[i].type = "nudge" /\ event[i].day = day
                                   /\ m[1] \in event[i].prints
    BY <1>9 DEF Ledger
  <1> QED
    BY <1>8, <1>10 DEF ShownPrints, Today

\* What the calls are about to show stays fresh.
LEMMA ShowingNext ==
  ASSUME CallInv, Ledger, Showing, [Next]_vars
  PROVE  Showing'
  <1>0. Calls /\ Meets /\ faults \in Nat
    BY DEF CallInv, Calls
  <1>1. CASE UNCHANGED vars
    BY <1>1 DEF Showing, At, vars, history
  <1>2. CASE TimePasses
    BY <1>2 DEF Showing, TimePasses
  <1>3. ASSUME NEW p \in Proc, Begin(p)
        PROVE  Showing'
    <2>1. nudged' = nudged /\ faults' = faults /\ met \subseteq met'
      BY <1>3 DEF Begin
    <2>2. SUFFICES ASSUME NEW q \in Proc, NEW m \in nudged', At(q, "impress")',
                          m[1] \in run'[q].fresh, m[2] # run'[q].no
                   PROVE  {m[2], run'[q].no} \in met' \/ faults' > 0
      BY DEF Showing
    <2>3. q # p
      BY <1>0, <1>3, <2>2, FirstStep
    <2>4. run'[q] = run[q]
      BY <1>0, <1>3, <2>3, BeginStarts
    <2>5. At(q, "impress")
      BY <2>2, <2>4 DEF At
    <2> QED
      BY <2>1, <2>2, <2>4, <2>5 DEF Showing
  <1>4. ASSUME NEW p \in Proc, Step(p)
        PROVE  Showing'
    <2>1. met' = met /\ (faults > 0 => faults' > 0) /\ Advances(p)
      BY <1>0, <1>4, StepKeeps, StepAdvances
    <2>2. SUFFICES ASSUME NEW q \in Proc, NEW m \in nudged', At(q, "impress")',
                          m[1] \in run'[q].fresh, m[2] # run'[q].no
                   PROVE  {m[2], run'[q].no} \in met' \/ faults' > 0
      BY DEF Showing
    <2>3. CASE q = p
      <3>1. At(p, "mine")
        BY <1>0, <2>1, <2>2, <2>3, Before
      <3>2. nudged' = nudged
        BY <1>4, <3>1, StepNudges DEF At
      <3> QED
        BY <1>4, <2>1, <2>2, <2>3, <3>2, ComesToShow
    <2>4. CASE q # p
      <3>1. run'[q] = run[q] /\ p \in Running
        BY <2>1, <2>4 DEF Advances
      <3>2. At(q, "impress") /\ q \in Running
        BY <2>2, <3>1 DEF At, Running
      <3>3. CASE m \in nudged
        BY <2>1, <2>2, <3>1, <3>2, <3>3 DEF Showing
      <3>4. CASE m \notin nudged
        <4>1. m[2] = run[p].no
          BY <1>4, <2>2, <3>4, NewNudges
        <4>2. {run[p].no, run[q].no} \in met
          BY <1>0, <2>4, <3>1, <3>2 DEF Meets, Running
        <4> QED
          BY <2>1, <3>1, <4>1, <4>2
      <3> QED
        BY <3>3, <3>4
    <2> QED
      BY <2>3, <2>4
  <1>5. ASSUME NEW p \in Proc, Kill(p)
        PROVE  Showing'
    <2>1. faults' > 0
      BY <1>0, <1>5 DEF Kill, Fault
    <2> QED
      BY <2>1 DEF Showing
  <1> QED
    BY <1>1, <1>2, <1>3, <1>4, <1>5, Cases

\* Two calls show the same only beside each other.
LEMMA NudgedNext ==
  ASSUME CallInv, Showing, NudgedOnce, [Next]_vars
  PROVE  NudgedOnce'
  <1>0. Calls /\ met \subseteq met' /\ faults \in Nat
    BY MetGrows DEF CallInv, Calls
  <1>1. ASSUME nudged' = nudged, faults' = faults
        PROVE  NudgedOnce'
    BY <1>0, <1>1 DEF NudgedOnce
  <1>2. CASE TimePasses
    BY <1>2 DEF TimePasses, NudgedOnce
  <1>3. ASSUME NEW p \in Proc, Kill(p)
        PROVE  NudgedOnce'
    <2>1. faults' > 0
      BY <1>0, <1>3 DEF Kill, Fault
    <2> QED
      BY <2>1 DEF NudgedOnce
  <1>4. ASSUME NEW p \in Proc, Step(p)
        PROVE  NudgedOnce'
    <2>1. faults > 0 => faults' > 0
      BY <1>0, <1>4, StepKeeps
    <2>2. SUFFICES ASSUME NEW m \in nudged', NEW n \in nudged', m[1] = n[1], m[2] # n[2]
                   PROVE  {m[2], n[2]} \in met' \/ faults' > 0
      BY DEF NudgedOnce
    <2>3. ASSUME NEW k \in nudged', k \notin nudged
          PROVE  At(p, "impress") /\ k[2] = run[p].no /\ k[1] \in run[p].fresh
      BY <1>4, <2>3, NewNudges
    <2>4. ASSUME NEW k \in nudged', k \notin nudged, NEW l \in nudged, k[1] = l[1],
                 k[2] # l[2]
          PROVE  /\ {k[2], l[2]} \in met' \/ faults' > 0
                 /\ {l[2], k[2]} \in met' \/ faults' > 0
      <3>1. {l[2], k[2]} \in met \/ faults > 0
        BY <2>3, <2>4 DEF Showing
      <3>2. {l[2], k[2]} = {k[2], l[2]}
        OBVIOUS
      <3> QED
        BY <1>0, <2>1, <3>1, <3>2
    <2>5. CASE m \in nudged /\ n \in nudged
      BY <1>0, <2>1, <2>2, <2>5 DEF NudgedOnce
    <2> QED
      BY <2>2, <2>3, <2>4, <2>5
  <1> QED
    BY <1>1, <1>2, <1>3, <1>4, Cases DEF vars, history, Begin

(***************************************************************************)
(* Whatever the calls are and however they interleave, a suggestion is     *)
(* shown by two calls of a day only when they ran at the same time, or     *)
(* when an impression was lost: the ledger of what was shown is one for    *)
(* every surface (nudge.rs).                                               *)
(***************************************************************************)
THEOREM SuggestedOnce == Spec => []NudgedOnce
  <1> DEFINE Inv == CallInv /\ Ledger /\ Showing /\ NudgedOnce
  <1>1. Init => Inv
    <2>1. ASSUME Init PROVE nudged = {}
      BY <2>1 DEF Init
    <2> QED
      BY <2>1, CallInit DEF Ledger, Showing, NudgedOnce
  <1>2. Inv /\ [Next]_vars => Inv'
    BY CallNext, LedgerNext, ShowingNext, NudgedNext
  <1> QED
    BY <1>1, <1>2, PTL DEF Spec
=============================================================================
