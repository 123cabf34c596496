---------------------------- MODULE HookSession ----------------------------
(***************************************************************************)
(* A session as CogZ's telemetry sees it: lifecycle hooks (hooks/          *)
(* lifecycle.rs), each a process of its own that the coding agent starts,  *)
(* and MCP tools (mcp/tools_search.rs, tools_query.rs, tools_graph.rs,     *)
(* tools_write.rs) or their CLI twins.                                     *)
(* They record what they hand to the agent, credit what it then touches,   *)
(* and mine the record for suggestions that ride on their output.          *)
(*                                                                         *)
(* Every statement is a transaction of its own, so calls interleave        *)
(* between any two.  A write that stays busy through its retries is given  *)
(* up, and a hook that runs out of time is killed.                         *)
(***************************************************************************)
EXTENDS Naturals, Sequences, FiniteSets

CONSTANTS
  Proc,         \* processes, each serving one call at a time
  Session,      \* sequences of calls that may arrive: see Call
  Entity, File,
  OnFile,       \* [File -> SUBSET Entity], entities whose file_path it is
  RulesOn,      \* [File -> SUBSET Entity], active rules referencing those
  Pack,         \* sets of entities a pack or a result list may hold
  Pointer,      \* entities a pack lists in its pointer index only
  RecurringMin, \* hits that make an entity "recurring"
  MaxFaults,    \* bound: writes given up, packs not assembled, hooks killed
  MaxDay        \* bound: times every retention and suppress window elapses

Hooks == {"start", "prompt", "tool", "save", "end"}
Tools == {"context", "search", "query", "pull", "cite", "verdict"}
NoFile == "no file"

\* file: the path a hook reports.  names: the entities its text names, the entity
\* a graph query asks about, the references of a record that is written.  bad: the
\* tool result is an error.
Call == [kind : Hooks \cup Tools, file : File \cup {NoFile},
         names : SUBSET Entity, bad : BOOLEAN]

ASSUME SessionAssumption == Session \subseteq Seq(Call)
ASSUME FileAssumption ==
  /\ NoFile \notin File
  /\ OnFile \in [File -> SUBSET Entity]
  /\ RulesOn \in [File -> SUBSET Entity]

VARIABLES
  session,   \* the calls of this run, in the order they begin
  event,     \* id -> row of the events table
  delivery,  \* id -> row of deliveries, with its entity_usage rows
  run,       \* process -> the call it serves
  calls,     \* calls begun
  day,
  lastSweep, \* meta last_telemetry_sweep
  faults,
  met,       \* history: pairs of calls that ran at the same time
  credited,  \* history: <<delivery, entity, call that made it a hit>>
  nudged     \* history: <<fingerprint, call that put it in its output>>

tables  == <<event, delivery>>
history == <<met, credited, nudged>>
vars    == <<session, tables, run, calls, day, lastSweep, faults, history>>

Outcome == {"none", "pending", "hit", "miss"}
NoRows  == [e \in Entity |-> "none"]

\* The next INTEGER PRIMARY KEY.
NextId(table) == 1 + (IF DOMAIN table = {} THEN 0
                      ELSE CHOOSE i \in DOMAIN table : \A j \in DOMAIN table : j <= i)

Insert(table, row) ==
  [i \in DOMAIN table \cup {NextId(table)} |-> IF i = NextId(table) THEN row ELSE table[i]]

Without(table, gone) == [i \in DOMAIN table \ gone |-> table[i]]

Open == {d \in DOMAIN delivery : ~delivery[d].closed}

Idle == [no |-> 0, todo |-> <<>>, kind |-> "none", file |-> NoFile, names |-> {},
         bad |-> FALSE, event |-> 0, found |-> {}, delivery |-> 0, given |-> {},
         fresh |-> {}]

-----------------------------------------------------------------------------
(***************************************************************************)
(* The order of a call's database steps.                                   *)
(***************************************************************************)

\* Mutant of PromptPlan: the new pack is recorded before the prompt's hits.
PromptPlanPackFirst ==
  <<"record", "close", "pack", "rows", "detect", "hit", "mine", "impress", "sweep">>

\* A prompt is evidence for what was delivered before it, then a boundary.
PromptPlan ==
  <<"record", "detect", "hit", "close", "pack", "rows", "mine", "impress", "sweep">>

StartPlan == <<"record", "close", "pack", "rows", "mine", "impress", "sweep">>

ToolPlan == <<"record", "detect", "hit", "mine", "impress", "sweep">>

\* A save counts as a use of what was delivered, then delivers its rules.
SavePlan ==
  <<"record", "detect", "hit", "pack", "rows", "mine", "impress", "sweep">>

EndPlan == <<"record", "mine", "impress", "close", "sweep">>

\* Mutant of ContextPlan: a pack pulled by the agent is no boundary.
ContextPlanNoClose == <<"pack", "rows", "mine", "impress">>

\* A pack the agent pulls is a delivery boundary, but leaves no event.
ContextPlan == <<"close", "pack", "rows", "mine", "impress">>

SearchPlan == <<"pack", "rows", "convert", "log", "mine", "impress">>

\* A query by type, or for what nothing calls.
QueryPlan == <<"pack", "rows", "convert">>

\* The callers or the impact of an entity: to ask about it is to use it.
PullPlan == <<"pack", "rows", "hit", "convert">>

\* A record that is created or updated: its references are used.
CitePlan == <<"hit">>

\* A verify or a reject delivers nothing, but nudges.
VerdictPlan == <<"mine", "impress">>

Plan(kind) ==
  CASE kind = "start"   -> StartPlan
    [] kind = "prompt"  -> PromptPlan
    [] kind = "tool"    -> ToolPlan
    [] kind = "save"    -> SavePlan
    [] kind = "end"     -> EndPlan
    [] kind = "context" -> ContextPlan
    [] kind = "search"  -> SearchPlan
    [] kind = "query"   -> QueryPlan
    [] kind = "pull"    -> PullPlan
    [] kind = "cite"    -> CitePlan
    [] kind = "verdict" -> VerdictPlan

Running == {p \in Proc : run[p].todo # <<>>}

Begin(p) ==
  /\ p \notin Running
  /\ calls < Len(session)
  /\ calls' = calls + 1
  /\ LET c == session[calls + 1] IN
       run' = [run EXCEPT ![p] =
                 [Idle EXCEPT !.no = calls + 1, !.todo = Plan(c.kind), !.kind = c.kind,
                              !.file = c.file, !.names = c.names, !.bad = c.bad,
                              !.found = IF c.kind \in {"pull", "cite"} THEN c.names ELSE {}]]
  /\ met' = met \cup {{run[q].no, calls + 1} : q \in Running}
  /\ UNCHANGED <<session, tables, day, lastSweep, faults, credited, nudged>>

At(p, step) == run[p].todo # <<>> /\ Head(run[p].todo) = step

\* The step is over; the last one ends the call.
Proceed(p, r, rest) ==
  run' = [run EXCEPT ![p] = IF rest = <<>> THEN Idle ELSE [r EXCEPT !.todo = rest]]

Next1(p, r) == Proceed(p, r, Tail(run[p].todo))
Next2(p, r) == Proceed(p, r, Tail(Tail(run[p].todo)))

Fault == faults < MaxFaults /\ faults' = faults + 1

\* with_busy_retry gave up: the step's write is dropped, the call goes on.
GiveUp(p) == Fault /\ Next1(p, run[p]) /\ UNCHANGED <<tables, credited>>

-----------------------------------------------------------------------------
(***************************************************************************)
(* What each step does.                                                    *)
(***************************************************************************)
EventRow(type, p, empty, prints) ==
  [type |-> type, file |-> run[p].file, bad |-> run[p].bad, empty |-> empty,
   prints |-> prints, by |-> run[p].no, day |-> day]

\* The event_id is None when the event could not be recorded.
RecordEvent(p) ==
  /\ At(p, "record")
  /\ \/ /\ event' = Insert(event, EventRow(run[p].kind, p, FALSE, {}))
        /\ Next1(p, [run[p] EXCEPT !.event = NextId(event)])
        /\ UNCHANGED <<delivery, faults, credited>>
     \/ GiveUp(p)
  /\ UNCHANGED <<session, calls, day, lastSweep, met, nudged>>

\* Entities on the path, and pending ones that the text names.
Touched(r) ==
  (IF r.file \in File THEN OnFile[r.file] ELSE {})
    \cup {e \in r.names : \E d \in Open : delivery[d].rows[e] = "pending"}

Detect(p) ==
  /\ At(p, "detect")
  /\ Next1(p, [run[p] EXCEPT !.found = Touched(run[p])])
  /\ UNCHANGED <<session, tables, calls, day, lastSweep, faults, history>>

\* Only pending rows of open deliveries can become hits.
Creditable(d, e) == d \in Open /\ delivery[d].rows[e] = "pending"

\* The rows of ids in the given deliveries become hits.
Credit(p, among, ids) ==
  /\ delivery' = [d \in DOMAIN delivery |->
                    [delivery[d] EXCEPT !.rows =
                       [e \in Entity |-> IF d \in among /\ e \in ids /\ Creditable(d, e)
                                         THEN "hit" ELSE @[e]]]]
  /\ credited' = credited \cup
       {<<x[1], x[2], run[p].no>> : x \in {y \in among \X ids : Creditable(y[1], y[2])}}

RecordHits(p) ==
  /\ At(p, "hit")
  /\ \/ /\ Credit(p, DOMAIN delivery, run[p].found)
        /\ Next1(p, run[p])
        /\ UNCHANGED <<event, faults>>
     \/ run[p].found # {} /\ GiveUp(p)
  /\ UNCHANGED <<session, calls, day, lastSweep, met, nudged>>

\* A result list that shows a pending pointer again converts it.
ConvertPointers(p) ==
  /\ At(p, "convert")
  /\ \/ /\ Credit(p, {d \in DOMAIN delivery : delivery[d].kind = "pack"},
                run[p].given \cap Pointer)
        /\ Next1(p, run[p])
        /\ UNCHANGED <<event, faults>>
     \/ GiveUp(p)
  /\ UNCHANGED <<session, calls, day, lastSweep, met, nudged>>

\* Mutant of ClosedRows: the rows are left pending.
ClosedRowsKept(rows) == rows

ClosedRows(rows) == [e \in Entity |-> IF rows[e] = "pending" THEN "miss" ELSE rows[e]]

\* What was pending in an open delivery is a miss; one transaction.
CloseDeliveries(p) ==
  /\ At(p, "close")
  /\ \/ /\ delivery' = [d \in DOMAIN delivery |->
                          IF d \in Open
                          THEN [delivery[d] EXCEPT !.closed = TRUE, !.rows = ClosedRows(@)]
                          ELSE delivery[d]]
        /\ Next1(p, run[p])
        /\ UNCHANGED <<event, faults, credited>>
     \/ GiveUp(p)
  /\ UNCHANGED <<session, calls, day, lastSweep, met, nudged>>

\* What the call hands out: a pack, a result list, or the rules of the file.
Given(r) ==
  CASE r.kind = "save" -> {RulesOn[r.file]}
    [] r.kind = "pull" -> Pack \cup {r.names}  \* a recursive function calls itself
    [] r.kind \in {"search", "query"} -> Pack \cup {{}}
    [] OTHER -> Pack

DeliveryKind(kind) ==
  CASE kind \in {"start", "prompt", "context"} -> "pack"
    [] kind = "save" -> "scoped"
    [] kind = "query" -> "pull"
    [] OTHER -> kind

\* A save with no rule on its file delivers nothing.  A pack that could not be
\* assembled, or whose delivery could not be recorded, has no rows either.
Deliver(p) ==
  /\ At(p, "pack")
  /\ \/ \E g \in Given(run[p]) :
          /\ ~(run[p].kind = "save" /\ g = {})
          /\ delivery' = Insert(delivery,
               [kind |-> DeliveryKind(run[p].kind), event |-> run[p].event, closed |-> FALSE,
                rows |-> NoRows, by |-> run[p].no, day |-> day])
          /\ Next1(p, [run[p] EXCEPT !.given = g, !.delivery = NextId(delivery)])
          /\ UNCHANGED faults
     \/ /\ run[p].kind = "save" /\ RulesOn[run[p].file] = {}
        /\ Next2(p, run[p])
        /\ UNCHANGED <<delivery, faults>>
     \/ Fault /\ Next2(p, run[p]) /\ UNCHANGED delivery
  /\ UNCHANGED <<session, event, calls, day, lastSweep, history>>

\* The entries of a delivery, pending; a transaction after the delivery's own.
RecordDelivered(p) ==
  /\ At(p, "rows")
  /\ \/ /\ delivery' = [delivery EXCEPT ![run[p].delivery].rows =
                          [e \in Entity |-> IF e \in run[p].given THEN "pending" ELSE @[e]]]
        /\ Next1(p, run[p])
        /\ UNCHANGED <<event, faults, credited>>
     \/ GiveUp(p)
  /\ UNCHANGED <<session, calls, day, lastSweep, met, nudged>>

\* search_performed: the query and how much it returned.
LogSearch(p) ==
  /\ At(p, "log")
  /\ \/ /\ event' = Insert(event, EventRow("search", p, run[p].given = {}, {}))
        /\ Next1(p, run[p])
        /\ UNCHANGED <<delivery, faults, credited>>
     \/ GiveUp(p)
  /\ UNCHANGED <<session, calls, day, lastSweep, met, nudged>>

-----------------------------------------------------------------------------
(***************************************************************************)
(* Mining: storage/mining_signals.rs.  The windows end when a day does.    *)
(***************************************************************************)
Today(i) == i \in DOMAIN event /\ event[i].day = day

Boundary(i) == event[i].type \in {"start", "prompt", "end"}

\* file_save events between event i and the next prompt or session boundary.
SavesAfter(i) ==
  {s \in DOMAIN event : /\ s > i /\ event[s].type = "save"
                        /\ \A b \in DOMAIN event : b > i /\ Boundary(b) => s < b}

Indexed(s) == event[s].file \in File /\ OnFile[event[s].file] # {}

IndexedSaves(i) == {s \in SavesAfter(i) : Indexed(s)}

\* Packs that nothing was ever hit in, followed by work on indexed files.
UnchartedEdits ==
  {<<"uncharted", d>> : d \in
     {d \in DOMAIN delivery : /\ delivery[d].kind = "pack" /\ delivery[d].day = day
                              /\ delivery[d].event \in DOMAIN event
                              /\ \A e \in Entity : delivery[d].rows[e] # "hit"
                              /\ IndexedSaves(delivery[d].event) # {}}}

SearchMisses ==
  {<<"miss", i>> : i \in {i \in DOMAIN event : /\ event[i].type = "search" /\ Today(i)
                                               /\ event[i].empty /\ IndexedSaves(i) # {}}}

RecurringUse ==
  {<<"recurring", e>> : e \in
     {e \in Entity : Cardinality({d \in DOMAIN delivery :
                                    delivery[d].day = day /\ delivery[d].rows[e] = "hit"})
                     >= RecurringMin}}

\* A failed tool call, then a clean one: one candidate per tool.
ErrorFixes ==
  IF \E i, j \in DOMAIN event : /\ i < j /\ Today(i) /\ Today(j)
                                /\ event[i].type = "tool" /\ event[j].type = "tool"
                                /\ event[i].bad /\ ~event[j].bad
  THEN {<<"fix", 0>>} ELSE {}

Candidates == UnchartedEdits \cup SearchMisses \cup RecurringUse \cup ErrorFixes

\* Mutant of ShownPrints: the ledger of the call's own surface only.
ShownPrintsBySurface(kind) ==
  UNION {event[i].prints : i \in {i \in DOMAIN event : Today(i) /\ event[i].type = kind}}

\* What write_nudge_shown events of the last day list, whatever the surface.
ShownPrints(kind) ==
  UNION {event[i].prints : i \in {i \in DOMAIN event : Today(i) /\ event[i].type = "nudge"}}

\* Nothing fresh, no impression.
Mine(p) ==
  /\ At(p, "mine")
  /\ LET fresh == Candidates \ ShownPrints(run[p].kind)
         r     == [run[p] EXCEPT !.fresh = fresh]
     IN  IF fresh = {} THEN Next2(p, r) ELSE Next1(p, r)
  /\ UNCHANGED <<session, tables, calls, day, lastSweep, faults, history>>

\* The suggestions are shown even when the impression cannot be recorded.
Impress(p) ==
  /\ At(p, "impress")
  /\ nudged' = nudged \cup {<<f, run[p].no>> : f \in run[p].fresh}
  /\ \/ /\ event' = Insert(event, EventRow("nudge", p, FALSE, run[p].fresh))
        /\ Next1(p, run[p])
        /\ UNCHANGED <<delivery, faults, credited>>
     \/ GiveUp(p)
  /\ UNCHANGED <<session, calls, day, lastSweep, met>>

-----------------------------------------------------------------------------
Expired(table) == {i \in DOMAIN table : table[i].day < day}

SweptRows(table) == [d \in DOMAIN table |-> IF d \in Expired(table)
                                             THEN [table[d] EXCEPT !.rows = NoRows]
                                             ELSE table[d]]

\* Usage rows, deliveries, events: three deletes, and then the gate moves.  A
\* sweep that fails in between is repeated by the next hook.
Sweep(p) ==
  /\ At(p, "sweep")
  /\ \/ /\ lastSweep = day
        /\ UNCHANGED <<tables, lastSweep, faults>>
     \/ /\ lastSweep # day
        /\ delivery' = Without(delivery, Expired(delivery))
        /\ event' = Without(event, Expired(event))
        /\ lastSweep' = day
        /\ UNCHANGED faults
     \/ /\ lastSweep # day
        /\ Fault
        /\ delivery' \in {delivery, SweptRows(delivery), Without(delivery, Expired(delivery))}
        /\ UNCHANGED <<event, lastSweep>>
  /\ credited' = {x \in credited : x[1] \in DOMAIN delivery'}
  /\ Next1(p, run[p])
  /\ UNCHANGED <<session, calls, day, met, nudged>>

\* The agent's time limit for the hook.
Kill(p) ==
  /\ p \in Running
  /\ Fault
  /\ run' = [run EXCEPT ![p] = Idle]
  /\ UNCHANGED <<session, tables, calls, day, lastSweep, history>>

\* Thirty quiet days.
TimePasses ==
  /\ Running = {} /\ day < MaxDay
  /\ day' = day + 1
  /\ nudged' = {}
  /\ UNCHANGED <<session, tables, run, calls, lastSweep, faults, met, credited>>

Init ==
  /\ session \in Session
  /\ event = <<>> /\ delivery = <<>>
  /\ run = [p \in Proc |-> Idle]
  /\ calls = 0 /\ day = 0 /\ lastSweep = 0 /\ faults = 0
  /\ met = {} /\ credited = {} /\ nudged = {}

Step(p) ==
  \/ RecordEvent(p) \/ Detect(p) \/ RecordHits(p) \/ ConvertPointers(p)
  \/ CloseDeliveries(p) \/ Deliver(p) \/ RecordDelivered(p) \/ LogSearch(p)
  \/ Mine(p) \/ Impress(p) \/ Sweep(p)

Next == TimePasses \/ \E p \in Proc : Begin(p) \/ Step(p) \/ Kill(p)

Spec == Init /\ [][Next]_vars

-----------------------------------------------------------------------------
Fingerprint == {"uncharted", "miss", "recurring", "fix"} \X (Entity \cup 0 .. 3 * Len(session))

\* Types, and what the tables may not lose: a delivery's call and its event
\* precede it, and only a pack's rows are resolved by more than a touch.
TypeOK ==
  /\ \A i \in DOMAIN event : event[i] \in
       [type : Hooks \cup {"search", "nudge"}, file : File \cup {NoFile}, bad : BOOLEAN,
        empty : BOOLEAN, prints : SUBSET Fingerprint, by : 1 .. calls, day : 0 .. day]
  /\ \A d \in DOMAIN delivery : delivery[d] \in
       [kind : {"pack", "scoped", "search", "pull"}, event : 0 .. 3 * Len(session),
        closed : BOOLEAN, rows : [Entity -> Outcome], by : 1 .. calls, day : 0 .. day]
  /\ \A p \in Proc : /\ run[p].found \subseteq Entity
                      /\ run[p].given \subseteq Entity
                      /\ run[p].fresh \subseteq Fingerprint
                      /\ At(p, "rows") => delivery[run[p].delivery].by = run[p].no
  /\ calls \in 0 .. Len(session) /\ day \in 0 .. MaxDay /\ lastSweep \in 0 .. day
  /\ faults \in 0 .. MaxFaults

MetAnyone(n) == \E pair \in met : n \in pair

(***************************************************************************)
(* A call never credits what it delivers itself: hits are looked for       *)
(* before a prompt's pack and a save's rules are recorded (lifecycle.rs:   *)
(* 206-235, 320-330).  The exception is find_callers of a function that    *)
(* calls itself: the seed is among its own results (tools_graph.rs:36-42). *)
(***************************************************************************)
NoSelfCredit ==
  \A x \in credited :
    delivery[x[1]].by = x[3] => delivery[x[1]].kind = "pull"

(***************************************************************************)
(* "The delivery window is pack-to-pack" (lifecycle.rs:210-213): two packs *)
(* are open together only when their calls ran at the same time, or when a *)
(* write was given up or a hook killed.                                    *)
(***************************************************************************)
OnePackOpen ==
  \A c, d \in Open :
    c < d /\ delivery[c].kind = "pack" /\ delivery[d].kind = "pack"
      => {delivery[c].by, delivery[d].by} \in met \/ faults > 0

(***************************************************************************)
(* A closed delivery is settled: a row of it is still pending only if the  *)
(* call that closed it ran beside the call that delivered it, whose        *)
(* entries then arrive late and can never become hits or misses            *)
(* (usage.rs:156-169 between record_delivery and record_delivered).        *)
(***************************************************************************)
ClosedIsSettled ==
  \A d \in DOMAIN delivery, e \in Entity :
    delivery[d].closed /\ delivery[d].rows[e] = "pending"
      => MetAnyone(delivery[d].by)

(***************************************************************************)
(* A suggestion is shown once a day across every surface (nudge.rs:27-31), *)
(* unless two calls mined at the same time or an impression was lost.      *)
(***************************************************************************)
NudgedOnce ==
  \A m, n \in nudged : m[1] = n[1] /\ m[2] # n[2] => {m[2], n[2]} \in met \/ faults > 0

\* A suggestion says that nothing a pack delivered was used, while an earlier
\* save of that window touched an entity the pack delivered.
Misjudged(d, n) ==
  \E s \in IndexedSaves(delivery[d].event) :
    /\ event[s].by <= n
    /\ \E e \in OnFile[event[s].file] : delivery[d].rows[e] # "none"
    /\ ~MetAnyone(event[s].by)

Judged == {x \in nudged : x[1][1] = "uncharted" /\ x[1][2] \in DOMAIN delivery}

Pulled(d, n) == \E c \in DOMAIN delivery : /\ delivery[c].kind = "pack" /\ c > d
                                          /\ delivery[c].event = 0 /\ delivery[c].by <= n

(***************************************************************************)
(* "The agent worked in territory the pack didn't cover"                   *)
(* (mining_signals.rs:88-90) is said of a pack only when no save of its    *)
(* window touched what it delivered.  Refuted: get_context closes the pack *)
(* and leaves no boundary event, so a later save of a delivered file       *)
(* counts against a pack it can no longer credit.                          *)
(***************************************************************************)
UnchartedIsUnused ==
  \A x \in Judged : Misjudged(x[1][2], x[2])
    => faults > 0 \/ MetAnyone(delivery[x[1][2]].by) \/ MetAnyone(x[2])

\* The same, for packs no get_context closed.
UnchartedNeedsPull ==
  \A x \in Judged : Misjudged(x[1][2], x[2])
    => \/ faults > 0 \/ MetAnyone(delivery[x[1][2]].by) \/ MetAnyone(x[2])
       \/ Pulled(x[1][2], x[2])
=============================================================================
