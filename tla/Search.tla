------------------------------- MODULE Search -------------------------------
(***************************************************************************)
(* One search (src/search/hybrid.rs), statement by statement, while syncs  *)
(* of other processes change the status of what it reads: it is no         *)
(* transaction.  What an index would answer with every entity admitted is  *)
(* part of the query; each statement answers with those it admits when it  *)
(* runs.  Both callers modelled, the search tool and the context pack, ask *)
(* for test entities too and for every type, so neither filter is here.    *)
(***************************************************************************)
EXTENDS Ranking

CONSTANTS
    Id,                 \* the entities: numbers, in the order of their ids
    Kind,               \* Id -> "file", "class", "function", "rule", "observation"
    Defines,            \* contains edges: pairs <<file, member>>
    AutoLinks,          \* pairs linked by an auto-reference
    MaxSeeds, MaxHops,  \* the graph channel's seeds per list, and every walk's hops
    Anchors,            \* hits whose file is looked through for siblings
    Queries,            \* what may be asked, see QueryOK
    MaxChanges          \* bound: status changes during the search

VARIABLES
    stage, q,
    status,             \* Id -> "active" or "stale"
    changes,            \* status changes so far
    alive,              \* entities that were active at some moment of this search
    fts, vec, novel,    \* the lexical list, the two vector lists, the feedback list
    graph,              \* graph candidates: code, knowledge, weak
    ranked,             \* the merged list and the channels' weights
    hits,               \* the direct results
    walk,               \* what the graph expansion found
    emitted,            \* the expansion so far: ids claimed, and what was kept
    leads,              \* siblings and history members over the floor
    extra,              \* the expanded results
    accessed            \* entities whose access count was raised

dbVars == <<status, changes, alive>>
searchVars == <<stage, q, fts, vec, novel, graph, ranked, hits, walk, emitted, leads, extra, accessed>>

CodeKinds == {"file", "class", "function"}
Chan(x) == IF Kind[x] \in CodeKinds THEN "code" ELSE "knowledge"
OfChan(s, c) == Keep(s, {x \in Id : Chan(x) = c})

\* resolve_status_filter, then "status = ?" in SQL.
Admitted(x) == q.all \/ status[x] = "active"
Answer(list, n) == Take(Keep(list, {x \in Id : Admitted(x)}), n)

Nothing == [c \in Channels |-> <<>>]
NoClaims == [seen |-> {}, out |-> {}]

-----------------------------------------------------------------------------
(* Walks over the edges. *)

Links(pairs, w) == {[src |-> e[1], dst |-> e[2], weight |-> w] : e \in pairs}
CuratedLinks == Links(Curated, 10)
AllLinks == CuratedLinks \cup Links(AutoLinks, 7) \cup Links(Defines, 5)

\* The order in which edges claim a node.
Claims(e, f) ==
    \/ e.weight > f.weight
    \/ e.weight = f.weight /\ e.src < f.src
    \/ e.weight = f.weight /\ e.src = f.src /\ e.dst <= f.dst

\* expand_with_paths: every node within some hops of the seeds, with the
\* seed, the length and the weight (in thousandths) of the path that claimed
\* it.  The walk goes through entities of any status.
Reach(seeds, links, hops) ==
    LET Step(found, frontier) ==
            LET Parent(e) == IF e.src \in frontier THEN e.src ELSE e.dst
                Neighbour(e) == IF e.src \in frontier THEN e.dst ELSE e.src
                out == {e \in links : Parent(e) \in frontier /\ Neighbour(e) \notin DOMAIN found}
                To(x) == {e \in out : Neighbour(e) = x}
                Claim(x) == CHOOSE e \in To(x) : \A f \in To(x) : Claims(e, f)
                Path(x) == LET p == found[Parent(Claim(x))]
                           IN [seed |-> p.seed, hops |-> p.hops + 1,
                               weight |-> (p.weight * Claim(x).weight) \div 10]
            IN [x \in DOMAIN found \cup {Neighbour(e) : e \in out} |->
                   IF x \in DOMAIN found THEN found[x] ELSE Path(x)]
    IN Fold(LAMBDA found, n : Step(found, {x \in DOMAIN found : found[x].hops = n - 1}),
            [x \in seeds |-> [seed |-> x, hops |-> 0, weight |-> 1000]],
            [n \in 1 .. hops |-> n])

-----------------------------------------------------------------------------
(* The database changes under the search. *)

SyncStale(x) ==
    /\ stage # "done" /\ changes < MaxChanges /\ status[x] = "active"
    /\ status' = [status EXCEPT ![x] = "stale"]
    /\ changes' = changes + 1
    /\ UNCHANGED <<alive, searchVars>>

SyncHeals(x) ==
    /\ stage # "done" /\ changes < MaxChanges /\ status[x] = "stale"
    /\ status' = [status EXCEPT ![x] = "active"]
    /\ changes' = changes + 1
    /\ alive' = alive \cup {x}
    /\ UNCHANGED searchVars

-----------------------------------------------------------------------------
(* Retrieval. *)

FtsStep ==
    /\ stage = "fts"
    /\ fts' = Answer(q.fts, 3 * Limit)
    /\ stage' = "knowledge"
    /\ UNCHANGED <<dbVars, q, vec, novel, graph, ranked, hits, walk, emitted, leads, extra, accessed>>

\* The nearest entities of a space, after the filters.
Nearest(c) == Answer(q.vec[c], 3 * Limit)

\* knn_channel, for one space; no vector, no list.
VecStep(c, next) ==
    /\ stage = c
    /\ vec' = [vec EXCEPT ![c] = IF c \in q.spaces THEN Nearest(c) ELSE <<>>]
    /\ stage' = next
    /\ UNCHANGED <<dbVars, q, fts, novel, graph, ranked, hits, walk, emitted, leads, extra, accessed>>

\* Pseudo-relevance feedback: a second lexical search, for what is new in it.
PrfStep ==
    /\ stage = "prf"
    /\ novel' = IF fts = <<>> THEN <<>>
                ELSE Keep(Answer(q.prf, Limit), Id \ Range(fts))
    /\ stage' = "graph"
    /\ UNCHANGED <<dbVars, q, fts, vec, graph, ranked, hits, walk, emitted, leads, extra, accessed>>

Window == Take(fts, Limit)
Beyond(s) == SubSeq(s, Limit + 1, Len(s))

\* The best rank weight a seed has in any list.
SeedLists == {Take(Window, MaxSeeds), Take(vec.code, MaxSeeds), Take(vec.knowledge, MaxSeeds)}
Seeds == UNION {Range(l) : l \in SeedLists}
SeedWeight(x) ==
    Max({(1000 * MaxSeeds) \div (MaxSeeds + i - 1) :
            i \in UNION {{j \in DOMAIN l : l[j] = x} : l \in SeedLists}})

\* A lexical hit is a direct seed, a vector hit if it is similar enough.
DirectSeed(x) ==
    \/ x \in Range(Window)
    \/ x \in q.near /\ \E c \in Channels : x \in Range(Take(vec[c], MaxSeeds))

\* graph_retrieve: scores add up over seeds; half per hop.
GraphCandidates ==
    LET from == [s \in Seeds |-> Reach({s}, CuratedLinks, MaxHops)]
        reaching == [x \in Id |-> {s \in Seeds \ {x} : x \in DOMAIN from[s]}]
        Half(h) == IF h = 1 THEN 500 ELSE 250
        score == [x \in Id |->
                     LET by == Ascending(reaching[x])
                     IN Total([i \in DOMAIN by |-> (SeedWeight(by[i]) * Half(from[by[i]][x].hops)) \div 1000])]
        fit == {x \in Id \ Range(Window) : Admitted(x) /\ score[x] >= 200}
        direct == {x \in fit : \E s \in reaching[x] : DirectSeed(s)}
        Best(S) == Take(Sorted({[id |-> x, score |-> score[x]] : x \in S}), Limit)
    IN [direct |-> Best(direct), weak |-> Best(fit \ direct)]

GraphStep ==
    /\ stage = "graph"
    /\ LET c == GraphCandidates
           ids == [i \in DOMAIN c.direct |-> c.direct[i].id]
       IN graph' = [code |-> OfChan(ids, "code"), knowledge |-> OfChan(ids, "knowledge"), weak |-> c.weak]
    /\ stage' = "rank"
    /\ UNCHANGED <<dbVars, q, fts, vec, novel, ranked, hits, walk, emitted, leads, extra, accessed>>

-----------------------------------------------------------------------------
(* Ranking. *)

\* resolve_channel_weights under the default strategy, "detect".
ChannelWeights ==
    IF q.spaces = {} THEN Shares(500, 500)
    ELSE Proportions([c \in Channels |-> IF vec[c] = <<>> THEN 0 ELSE q.grad[c]],
                     [c \in Channels |-> Len(OfChan(Window, c))])

FusedChannel(c) ==
    Normalized(Fused(OfChan(Window, c), Take(vec[c], Limit),
                     IF c = "code" THEN CodeWeight ELSE KnowledgeWeight, graph[c]))

RankStep ==
    /\ stage = "rank"
    /\ LET w == ChannelWeights
           merged == Demoted(Merged(FusedChannel("code"), FusedChannel("knowledge"), w))
           list == PostMerged(merged, w, q.spaces # {}, q.mode = "search")
       IN /\ ranked' = [list |-> list, weights |-> w]
          /\ hits' = Take(list, Limit)
    /\ stage' = "gate"
    /\ UNCHANGED <<dbVars, q, fts, vec, novel, graph, walk, emitted, leads, extra, accessed>>

\* The answer-evidence gate of the search tool: the head carries the terms.
Silenced == q.mode = "search" /\ Ids(Range(hits)) \cap q.answers = {}

\* A plausible slip: the counts raised before the gate.
GateStepCountsFirst ==
    /\ stage = "gate"
    /\ accessed' = IF q.record THEN Ids(Range(hits)) ELSE {}
    /\ hits' = IF Silenced THEN <<>> ELSE hits
    /\ stage' = IF hits' = <<>> THEN "done" ELSE "expand"
    /\ UNCHANGED <<dbVars, q, fts, vec, novel, graph, ranked, walk, emitted, leads, extra>>

\* The gate, the access counts of the direct results, and the way on.
GateStep ==
    /\ stage = "gate"
    /\ hits' = IF Silenced THEN <<>> ELSE hits
    /\ accessed' = IF q.record THEN Ids(Range(hits')) ELSE {}
    /\ stage' = IF hits' = <<>> THEN "done" ELSE "expand"
    /\ UNCHANGED <<dbVars, q, fts, vec, novel, graph, ranked, walk, emitted, leads, extra>>

-----------------------------------------------------------------------------
(* Expansion.  Each channel claims its candidates and then drops those     *)
(* below the floor: a claimed one is not looked at again.                  *)

Relevance(x) == (CHOOSE h \in Range(hits) : h.id = x).score
Lead(x, score, via) == [id |-> x, score |-> score, via |-> via]
Excluded == Ids(Range(hits))

Emit(e, candidates) ==
    LET fresh == {c \in candidates : c.id \notin e.seen}
    IN [seen |-> e.seen \cup Ids(fresh), out |-> e.out \cup {c \in fresh : c.score >= MinRelevance}]

\* The generic expansion: three tenths per hop, times the edge weights.
Decay(hops) == IF hops = 1 THEN 300 ELSE 90
Expansions(admitted) ==
    LET found == Reach(Excluded, AllLinks, MaxHops)
    IN {Lead(x, (((Relevance(found[x].seed) * Decay(found[x].hops)) \div 1000) * found[x].weight) \div 1000, "walk") :
            x \in (DOMAIN found \cap admitted) \ Excluded}

\* Plausible slips: the walk admits any status; it claims at once.
ExpandStepAny ==
    /\ stage = "expand"
    /\ walk' = Expansions(Id)
    /\ stage' = "siblings"
    /\ UNCHANGED <<dbVars, q, fts, vec, novel, graph, ranked, hits, emitted, leads, extra, accessed>>

ExpandStepClaims ==
    /\ stage = "expand"
    /\ walk' = Expansions({x \in Id : Admitted(x)})
    /\ emitted' = Emit(NoClaims, walk')
    /\ stage' = "siblings"
    /\ UNCHANGED <<dbVars, q, fts, vec, novel, graph, ranked, hits, leads, extra, accessed>>

\* expand_with_paths for the hits; nothing is claimed yet.
ExpandStep ==
    /\ stage = "expand"
    /\ walk' = Expansions({x \in Id : Admitted(x)})
    /\ stage' = "siblings"
    /\ UNCHANGED <<dbVars, q, fts, vec, novel, graph, ranked, hits, emitted, leads, extra, accessed>>

FileOf(x) == IF Kind[x] = "file" THEN {x} ELSE {e[1] : e \in {d \in Defines : d[2] = x}}

\* emit_sibling_expansions: the classes of the anchors' files, of any status.
Siblings ==
    LET anchors == Ids(Range(Take(hits, Anchors)))
        AnchorsOf(x) == {a \in anchors : \E f \in FileOf(a) : <<f, x>> \in Defines}
        Overlap(x) == IF x \in q.titled THEN 1 ELSE 0
    IN {Lead(x, (Max({Relevance(a) : a \in AnchorsOf(x)}) * (150 + 150 * Overlap(x))) \div 1000, "sibling") :
            x \in {y \in Id \ Excluded : Kind[y] = "class" /\ AnchorsOf(y) # {}}}

SiblingStep ==
    /\ stage = "siblings"
    /\ emitted' = Emit(emitted, Siblings)
    /\ leads' = {c \in Siblings : c.score >= MinRelevance}
    /\ stage' = "history"
    /\ UNCHANGED <<dbVars, q, fts, vec, novel, graph, ranked, hits, walk, extra, accessed>>

\* emit_cochange_expansions: active members of files with an active file
\* entity, whatever status the caller asked for.
History ==
    LET active == {h \in Range(q.history) : status[h.id] = "active"}
        Fit(h) == h.id \notin Excluded /\ \E f \in FileOf(h.id) : status[f] = "active"
        Overlap(x) == IF x \in q.titled THEN 50 ELSE 0
    IN {Lead(h.id, 75 + (80 * h.idf) \div (h.idf + 3) + Overlap(h.id), "history") :
            h \in {g \in Range(Take(Keep(q.history, active), 3 * Limit)) : Fit(g)}}

HistoryStep ==
    /\ stage = "history"
    /\ emitted' = Emit(emitted, History)
    /\ leads' = leads \cup {c \in History : c.score >= MinRelevance}
    /\ stage' = "append"
    /\ UNCHANGED <<dbVars, q, fts, vec, novel, graph, ranked, hits, walk, extra, accessed>>

Top == hits[1].score
Novel == {Lead(x, (Top * 3) \div 10, "terms") : x \in Range(novel) \ Excluded}

\* Ranked beyond the limit in two lists.
Deep ==
    LET lists == {<<"fts", Beyond(fts)>>, <<"code", Beyond(vec.code)>>, <<"knowledge", Beyond(vec.knowledge)>>}
    IN {Lead(x, Top \div 4, "deep") :
            x \in {y \in Id \ Excluded : Cardinality({l \in lists : y \in Range(l[2])}) >= 2}}

Weak ==
    LET Clamped(s) == Min({1000, Max({500, s})})
    IN {Lead(c.id, (((Top * 3) \div 10) * Clamped(c.score)) \div 1000, "weak") :
            c \in {d \in Range(graph.weak) : d.id \notin Excluded}}

\* The cap: history keeps a quarter of the limit, the rest the limit.
Capped(out) ==
    LET co == {c \in out : c.via = "history"}
    IN IF Cardinality(out) <= Limit THEN out
       ELSE Range(Take(Sorted(co), Limit \div 4)) \cup Range(Take(Sorted(out \ co), Limit))

AppendStep ==
    /\ stage = "append"
    /\ emitted' = Emit(Emit(Emit(Emit(emitted, walk), Novel), Deep), Weak)
    /\ extra' = Capped(emitted'.out)
    /\ stage' = "done"
    /\ UNCHANGED <<dbVars, q, fts, vec, novel, graph, ranked, hits, walk, leads, accessed>>

-----------------------------------------------------------------------------
SearchNext ==
    \/ FtsStep
    \/ VecStep("knowledge", "code")
    \/ VecStep("code", "prf")
    \/ PrfStep
    \/ GraphStep
    \/ RankStep
    \/ GateStep
    \/ ExpandStep
    \/ SiblingStep
    \/ HistoryStep
    \/ AppendStep

Sync == \E x \in Id : SyncStale(x) \/ SyncHeals(x)

\* Seeds per list, hops and anchors are small settings; the entities of the
\* history come from a GROUP BY of their ids.
ASSUME SearchAssumption ==
    /\ Id \subseteq Nat /\ IsFiniteSet(Id)
    /\ Kind \in [Id -> CodeKinds \cup {"rule", "knowledge", "observation"}]
    /\ Curated \cup AutoLinks \cup Defines \subseteq Id \X Id
    /\ {MaxSeeds, MaxHops, Anchors, MaxChanges} \subseteq Nat

QueryOK(r) ==
    /\ r.fts \in Seq(Id) /\ r.prf \in Seq(Id)
    /\ r.near \cup r.titled \cup r.answers \subseteq Id
    /\ r.spaces \subseteq Channels
    /\ \A c \in Channels : r.vec[c] \in Seq({x \in Id : Chan(x) = c}) /\ r.grad[c] \in Nat
    /\ r.history \in Seq([id : Id, idf : Nat])
    /\ \A i, j \in DOMAIN r.history : r.history[i].id = r.history[j].id => i = j
    /\ r.mode \in {"search", "task", "cold_start"}
    /\ r.all \in BOOLEAN /\ r.record \in BOOLEAN

ASSUME QueriesAssumption == \A r \in Queries : QueryOK(r)

SearchInit ==
    /\ q \in Queries
    /\ status \in {s \in [Id -> {"active", "stale"}] : Cardinality({x \in Id : s[x] = "stale"}) <= 1}
    /\ changes = 0
    /\ alive = {x \in Id : status[x] = "active"}
    /\ stage = IF q.mode = "cold_start" THEN "cold" ELSE "fts"
    /\ fts = <<>> /\ vec = Nothing /\ novel = <<>>
    /\ graph = [code |-> <<>>, knowledge |-> <<>>, weak |-> <<>>]
    /\ ranked = [list |-> <<>>, weights |-> Shares(500, 500)]
    /\ hits = <<>> /\ walk = {} /\ emitted = NoClaims /\ leads = {} /\ extra = {} /\ accessed = {}

-----------------------------------------------------------------------------
(* What a search promises. *)

\* Diversity slots and window quota, one after the other, leave each channel
\* that earned a fifth of the weight one place in the top window.
EarnedChannelSeen ==
    LET n == TopWindow(ranked.list)
    IN n >= 2 => \A c \in Channels :
          Earned(c, ranked.weights) /\ At(ranked.list, c) # {} => At(ranked.list, c) \cap 1 .. n # {}

\* A window quota fills the channel's share of the results as far as the
\* channel has members (rank.rs:322): a member of its own is not pushed out.
WindowQuotaMet ==
    q.mode = "search" /\ stage = "gate" => \A c \in Channels :
        Earned(c, ranked.weights) =>
            LET have == Cardinality(At(ranked.list, c))
                due == Quota(c, ranked.weights)
            IN Cardinality(At(ranked.list, c) \cap 1 .. Min({Limit, Len(ranked.list)})) >= Min({have, due})

\* A sibling or history member worth showing is not lost because another
\* channel claimed it first and dropped it below the floor -- but for a
\* history member that the sibling channel dropped.
LeadsSurface ==
    stage = "done" => \A c \in leads :
        c.id \in Ids(emitted.out) \/ (c.via = "history" /\ Kind[c.id] = "class")

\* Whatever statement found it, a result was active at some moment of the
\* search; siblings alone are not asked for their status.
ReturnedWasLive ==
    stage = "done" /\ ~q.all =>
        \A r \in Range(hits) \cup {x \in extra : x.via # "sibling"} : r.id \in alive

\* Access counts tell what was returned: a silenced or inspecting search
\* raises none, and no entity is a direct result and an expansion.
AccessMeansReturned ==
    stage = "done" /\ q.mode # "cold_start" =>
        /\ accessed = IF q.record THEN Ids(Range(hits)) ELSE {}
        /\ Cardinality(Ids(extra)) = Cardinality(extra)
        /\ Ids(extra) \cap Ids(Range(hits)) = {}
=============================================================================
