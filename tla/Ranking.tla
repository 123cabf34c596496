------------------------------ MODULE Ranking ------------------------------
(***************************************************************************)
(* How one search puts its direct results in order: reciprocal rank fusion *)
(* of each channel's lists, the weights of the two channels, the relevance *)
(* floor, and the stages after the merge (src/search/rrf.rs, balance.rs,   *)
(* rank.rs).  Entities are numbers, in the order of their ids; an item is  *)
(* [id, chan, score].  A score is a number of thousandths, a weight a      *)
(* number of thousandths too.                                              *)
(***************************************************************************)
EXTENDS Integers, FiniteSets, SequencesExt

CONSTANTS
    Limit,              \* results wanted
    MinRelevance,       \* the relevance floor, in thousandths
    Drifted,            \* entities whose references moved since they were verified
    Curated,            \* pairs <<source, target>> linked by a person
    Similar             \* sets of two entities whose embeddings are close

Channels == {"code", "knowledge"}

ASSUME RankingAssumption == Limit \in Nat /\ MinRelevance \in Nat /\ IsFiniteSet(Curated)

\* The members of a finite set, each after the ones that are less.
InOrder(S, Less(_, _)) ==
    [n \in 1 .. Cardinality(S) |-> CHOOSE x \in S : Cardinality({y \in S : Less(y, x)}) = n - 1]

Ascending(S) == InOrder(S, <)

\* What of s is in S, in the order of s.
Keep(s, S) ==
    LET at == Ascending({i \in DOMAIN s : s[i] \in S})
    IN [n \in DOMAIN at |-> s[at[n]]]

\* sort_by is stable.
StableSort(s, Less(_, _)) ==
    LET Earlier(i, j) == Less(s[i], s[j]) \/ (~Less(s[j], s[i]) /\ i < j)
        order == InOrder(DOMAIN s, Earlier)
    IN [n \in DOMAIN order |-> s[order[n]]]

Fold(Op(_, _), base, s) ==
    LET acc[n \in 0 .. Len(s)] == IF n = 0 THEN base ELSE Op(acc[n - 1], s[n])
    IN acc[Len(s)]
Total(s) == Fold(LAMBDA n, x : n + x, 0, s)

Better(a, b) == a.score > b.score \/ (a.score = b.score /\ a.id < b.id)
Sorted(items) == InOrder(items, Better)
Ids(items) == {x.id : x \in items}
Take(s, n) == SubSeq(s, 1, IF n < Len(s) THEN n ELSE Len(s))

-----------------------------------------------------------------------------
(* Fusion.  Weights in hundredths. *)

RrfK == 60
FtsWeight == 30
KnowledgeWeight == 40
CodeWeight == 30
GraphWeight == 35

Contribution(list, weight, x) ==
    IF x \in Range(list)
    THEN (weight * 10000) \div (RrfK + (CHOOSE i \in DOMAIN list : list[i] = x))
    ELSE 0

\* fuse: the lexical list, the vector list and the graph list of one channel.
Fused(fts, vec, vecWeight, graph) ==
    {[id |-> x, score |-> Contribution(fts, FtsWeight, x) + Contribution(vec, vecWeight, x)
                            + Contribution(graph, GraphWeight, x)] :
        x \in Range(fts) \cup Range(vec) \cup Range(graph)}

Normalized(items) ==
    LET top == Max({x.score : x \in items})
    IN IF \A x \in items : x.score = 0 THEN items ELSE {[x EXCEPT !.score = (x.score * 1000) \div top] : x \in items}

-----------------------------------------------------------------------------
(* The weights of the channels. *)

\* Thousands of square roots: a channel has at most Limit matches.
Root == [n \in 0 .. Limit |->
            CHOOSE r \in 0 .. 1000 * n : r * r <= 1000000 * n /\ 1000000 * n < (r + 1) * (r + 1)]

\* fts_pool_signal: code's share of the lexical matches.
PoolSignal(nCode, nKnowledge) ==
    IF nCode + nKnowledge = 0 THEN 500
    ELSE (1000 * Root[nCode]) \div (Root[nCode] + Root[nKnowledge])

Floor == 200            \* min_source_proportion
Shares(code, knowledge) == [code |-> code, knowledge |-> knowledge]

\* detect_proportions: grad is the gradient of each channel's distances (0
\* without a vector search), count its lexical matches.
Proportions(grad, count) ==
    LET pool == PoolSignal(count.code, count.knowledge)
        fts == Shares(pool, 1000 - pool)
        score == IF grad.code = 0 /\ grad.knowledge = 0 THEN fts
                 ELSE IF count.code + count.knowledge = 0 THEN grad
                 ELSE [c \in Channels |-> (grad[c] + fts[c]) \div 2]
        share == (1000 * score.code) \div (score.code + score.knowledge)
    IN IF score.code = 0 /\ score.knowledge = 0 THEN Shares(500, 500)
       ELSE LET code == IF share < Floor THEN Floor
                        ELSE IF 1000 - share < Floor THEN 1000 - Floor ELSE share
            IN Shares(code, 1000 - code)

-----------------------------------------------------------------------------
(* The merge and what follows it. *)

\* Both channels under their weights, what falls below the floor dropped.
Merged(code, knowledge, w) ==
    LET Of(items, c) == {[id |-> x.id, chan |-> c, score |-> (x.score * w[c]) \div 1000] : x \in items}
    IN Sorted({x \in Of(code, "code") \cup Of(knowledge, "knowledge") : x.score >= MinRelevance})

\* Drifted knowledge loses 30% of its score; the list is not sorted again.
Demoted(s) ==
    [i \in DOMAIN s |-> IF s[i].id \in Drifted THEN [s[i] EXCEPT !.score = (s[i].score * 7) \div 10] ELSE s[i]]

\* 1 + 0.3 ln(1 + n), in thousandths, for n links.
InDegree(x) == Cardinality({e \in Curated : e[2] = x})
Boost(n) == <<1000, 1208, 1330, 1416>>[(IF n < 3 THEN n ELSE 3) + 1]

\* The provenance prior; the list is sorted again if any item has a link.
Boosted(s) ==
    IF \A i \in DOMAIN s : InDegree(s[i].id) = 0 THEN s
    ELSE Sorted({[s[i] EXCEPT !.score = (s[i].score * Boost(InDegree(s[i].id))) \div 1000] : i \in DOMAIN s})

\* mmr_rerank: each round takes the item of greatest value, the first of equals.
Diversified(s) ==
    LET Penalty(x, picked) ==
            IF \E y \in Range(picked) : y.chan = x.chan /\ {x.id, y.id} \in Similar THEN 1000 ELSE 0
        Value(x, picked) == 7 * x.score - 3 * Penalty(x, picked)
        Left(picked) == {i \in DOMAIN s : s[i].id \notin Ids(Range(picked))}
        Best(picked) == CHOOSE i \in Left(picked) : \A j \in Left(picked) :
                            \/ Value(s[i], picked) > Value(s[j], picked)
                            \/ Value(s[i], picked) = Value(s[j], picked) /\ i <= j
    IN Fold(LAMBDA picked, x : Append(picked, s[Best(picked)]), <<>>, s)

\* A channel earns presence by a fifth of the weight (top_diversity_share).
Earned(c, w) == w.code + w.knowledge > 0 /\ 5 * w[c] >= w.code + w.knowledge
At(s, c) == {i \in DOMAIN s : s[i].chan = c}
TopWindow(s) == Min({5, Limit, Len(s)})

\* The channel's best item moves into the last place of the top window.
SlotFor(s, c, w) ==
    LET n == TopWindow(s)
    IN IF n = 0 \/ ~Earned(c, w) \/ At(s, c) = {} \/ At(s, c) \cap 1 .. n # {} THEN s
       ELSE InsertAt(RemoveAt(s, Min(At(s, c))), n, s[Min(At(s, c))])

\* A plausible slip: inserting after the window.
DiversitySlotsAfter(s, w) ==
    LET PastFor(t, c) ==
            LET n == TopWindow(t)
            IN IF n = 0 \/ ~Earned(c, w) \/ At(t, c) = {} \/ At(t, c) \cap 1 .. n # {} THEN t
               ELSE InsertAt(RemoveAt(t, Min(At(t, c))), Min({n + 1, Len(t)}), t[Min(At(t, c))])
    IN PastFor(PastFor(s, "knowledge"), "code")

\* apply_diversity_slots: the channel of less weight first.
DiversitySlots(s, w) ==
    IF w.code <= w.knowledge
    THEN SlotFor(SlotFor(s, "code", w), "knowledge", w)
    ELSE SlotFor(SlotFor(s, "knowledge", w), "code", w)

Quota(c, w) == (w[c] * Limit) \div (w.code + w.knowledge)

\* The channel's best items from beyond the window become its last places.
FillQuota(s, c, w) ==
    LET present == Cardinality(At(s, c) \cap 1 .. Limit)
        beyond == Ascending({i \in At(s, c) : i > Limit})
        chosen == Take(beyond, Quota(c, w) - present)
        rest == Keep(s, Range(s) \ {s[i] : i \in Range(chosen)})
        cut == Limit - Len(chosen)
    IN IF ~Earned(c, w) \/ present >= Quota(c, w) THEN s
       ELSE SubSeq(rest, 1, cut) \o [i \in DOMAIN chosen |-> s[chosen[i]]] \o SubSeq(rest, cut + 1, Len(rest))

\* apply_window_quota.
WindowQuota(s, w) ==
    IF Len(s) <= Limit \/ w.code + w.knowledge = 0 THEN s
    ELSE FillQuota(FillQuota(s, "code", w), "knowledge", w)

\* apply_post_merge.
PostMerged(s, w, vectors, quota) ==
    LET boosted == Boosted(s)
        diverse == IF vectors THEN Diversified(boosted) ELSE boosted
        slotted == DiversitySlots(diverse, w)
    IN IF quota THEN WindowQuota(slotted, w) ELSE slotted
=============================================================================
