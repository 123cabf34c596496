---------------------------- MODULE ContextPack ----------------------------
(***************************************************************************)
(* A context pack (src/context/assemble.rs): the results of a search, or   *)
(* the orientation of a cold start, made into sections, deduplicated, cut  *)
(* to a token budget, regrown into what is left of it, and what did not    *)
(* fit listed as pointers.  A text is a sequence of lines; a line is what  *)
(* it says and its width in characters, and four characters are a token.   *)
(* The excerpt lengths and ranks of the code are small constants here.     *)
(***************************************************************************)
EXTENDS Search

CONSTANTS
    Text,               \* Id -> sequence of lines
    Composite,          \* Id -> composite score of a rule or knowledge entry
    BaselineRules,      \* rules in the baseline
    Budget,             \* tokens of a pack
    Short, Relaxed,     \* lines of a summary, and of a regrown one
    Minimal,            \* lines of a tail or demoted section
    TailRank,           \* sections before the tail
    Title,              \* tokens of a title
    Marker,             \* characters of "... (n more lines)"
    MaxPointers         \* lines of the index

\* What a line says is a number, below More; indentation is left out.
Line == [is : Nat, width : Nat]

ASSUME PackAssumption ==
    /\ Text \in [Id -> Seq(Line)] /\ Composite \in [Id -> Int]
    /\ {BaselineRules, Budget, Short, Relaxed, Minimal, TailRank, MaxPointers, Marker} \subseteq Nat
    /\ Title \in Nat \ {0}
    /\ \A r \in Queries : r.tiered \in BOOLEAN

VARIABLES
    tier0,              \* the baseline sections
    pack                \* the pack: sections, pointers, and how many sections
                        \* were cut again when the budget was full (history)

packVars == <<tier0, pack>>

More == 1000            \* "... (n more lines)" is the line More + n
Cut == 2000             \* a line cut short is the line Cut + n

Section(source, id, lines, rel, tier) ==
    [source |-> source, id |-> id, lines |-> lines, score |-> rel, tier |-> tier]

Priority(s) ==
    CASE s.source = "identity" -> 0
      [] s.source = "rule" -> 1
      [] s.source = "knowledge" -> 2
      [] s.source \in CodeKinds -> 3
      [] OTHER -> 5

\* sort_by_priority.
Before(a, b) ==
    LET tie == IF Priority(a) # Priority(b) THEN Priority(a) < Priority(b) ELSE a.id < b.id
    IN IF q.mode = "cold_start"
       THEN IF Priority(a) # Priority(b) THEN Priority(a) < Priority(b) ELSE Better(a, b)
       ELSE a.score > b.score \/ (a.score = b.score /\ tie)

ByPriority(s) == StableSort(s, Before)
ByScore(s) == StableSort(s, Better)

\* Every line with the break after it; a text has none after its last line.
Wide(lines) == Total([i \in DOMAIN lines |-> lines[i].width + 1])
Chars(lines) == IF lines = <<>> THEN 0 ELSE Wide(lines) - 1

\* estimate_tokens, section_tokens.
Est(lines) == Chars(lines) \div 4
Tokens(s) == Title + Est(s.lines)
Size(s) == Total([i \in DOMAIN s |-> Tokens(s[i])])

\* excerpt_lines: the marker may be wider than the lines it stands for.
Excerpt(lines, n) ==
    IF Len(lines) <= n THEN lines
    ELSE Append(SubSeq(lines, 1, n), [is |-> More + Len(lines) - n, width |-> Marker])

\* The tokens by which an excerpt may exceed its text.
Growth == (Marker + 3) \div 4

\* truncate_to_tokens: all but the last three characters of n tokens, then
\* an ellipsis; what remains of the line it falls in is another line.
Truncated(lines, n) ==
    LET whole == Max({k \in 0 .. Len(lines) : Wide(SubSeq(lines, 1, k)) <= 4 * n - 3})
        kept == SubSeq(lines, 1, whole)
    IN IF n = 0 THEN <<>>
       ELSE IF Chars(lines) <= 4 * n THEN lines
       ELSE Append(kept, [is |-> Cut + lines[whole + 1].is, width |-> 4 * n - Wide(kept)])

-----------------------------------------------------------------------------
(* Sections. *)

\* A line of a listing.
Name(n) == [is |-> n, width |-> 12]

Identity == Section("identity", 0, <<Name(0)>>, 0, "baseline")

Shown(x) == q.all \/ status[x] = "active"
ByComposite(kind) == Sorted({[id |-> x, score |-> Composite[x]] : x \in {y \in Id : Kind[y] = kind /\ Shown(y)}})
Scored(list, kind) == [i \in DOMAIN list |-> Section(kind, list[i].id, Text[list[i].id], list[i].score, "baseline")]

\* baseline_rules.
RuleSections == Scored(Take(ByComposite("rule"), BaselineRules), "rule")

\* search_result_to_section: code is summarized.
ResultSection(r) ==
    Section(Kind[r.id], r.id, IF Chan(r.id) = "code" THEN Excerpt(Text[r.id], Short) ELSE Text[r.id], r.score, "full")
ResultSections ==
    LET results == hits \o Sorted(extra)
    IN [i \in DOMAIN results |-> ResultSection(results[i])]

\* cold_start_sections: identity, code map, rules, the best knowledge entry,
\* the titles of the others.
CodeMap ==
    LET files == Ascending({x \in Id : Kind[x] = "file" /\ Shown(x)})
    IN IF files = <<>> THEN <<>>
       ELSE <<Section("code_map", 0, [i \in DOMAIN files |-> Name(files[i])], 0, "baseline")>>
KnowledgeSections ==
    LET all == ByComposite("knowledge")
        rest == [i \in 1 .. Len(all) - 1 |-> Name(all[i + 1].id)]
    IN Scored(Take(all, 1), "knowledge")
       \o IF rest = <<>> THEN <<>> ELSE <<Section("knowledge_index", 0, rest, 0, "baseline")>>
ColdSections == <<Identity>> \o CodeMap \o RuleSections \o KnowledgeSections

-----------------------------------------------------------------------------
(* The passes over the sections. *)

\* line_set: a brace or a blank line says nothing.
Lines(s) == {l.is : l \in {x \in Range(s.lines) : x.width > 3}}
Overlapping(a, b) ==
    /\ Lines(a) # {} /\ Lines(b) # {}
    /\ 2 * Cardinality(Lines(a) \cap Lines(b)) >= Cardinality(Lines(a) \cup Lines(b))

\* partition_dups: the first of two that overlap stays.
PartitionDups(s) ==
    Fold(LAMBDA acc, x :
                 IF \E k \in Range(acc.kept) : Overlapping(x, k)
                 THEN [acc EXCEPT !.dups = Append(@, x)]
                 ELSE [acc EXCEPT !.kept = Append(@, x)],
             [kept |-> <<>>, dups |-> <<>>], s)

CompressTail(s) ==
    [i \in DOMAIN s |-> IF i > TailRank /\ (s[i].source \in CodeKinds \cup {"rule", "knowledge"})
                        THEN [s[i] EXCEPT !.lines = Excerpt(@, Minimal)] ELSE s[i]]

\* fit_budget: the first section that does not fit is cut, the others dropped.
FitBudget(s, budget) ==
    Fold(LAMBDA acc, x :
                 IF acc.used + Tokens(x) <= budget
                 THEN [acc EXCEPT !.kept = Append(@, x), !.used = @ + Tokens(x)]
                 ELSE IF acc.used < budget
                 THEN [acc EXCEPT !.kept = Append(@, [x EXCEPT !.lines =
                                      Truncated(@, Max({0, budget - acc.used - Title}))]),
                                  !.used = budget]
                 ELSE [acc EXCEPT !.dropped = Append(@, x)],
             [kept |-> <<>>, dropped |-> <<>>, used |-> 0], s)

\* A plausible slip: regrowth without regard to the budget.
RelaxFully(s, budget) ==
    [i \in DOMAIN s |-> IF s[i].source \in CodeKinds THEN [s[i] EXCEPT !.lines = Text[s[i].id]] ELSE s[i]]

\* relax_code_sections: two passes over the code of the results, first to a
\* relaxed excerpt, then to the whole text, each cut to the room there is.
Relax(s, budget) ==
    LET Grown(x, used, capped) ==
            LET want == IF capped THEN Excerpt(Text[x.id], Relaxed) ELSE Text[x.id]
                room == budget - used + Est(x.lines)
                candidate == IF Est(want) > room THEN Truncated(want, room) ELSE want
            IN IF x.source \in CodeKinds /\ used < budget /\ Chars(candidate) > Chars(x.lines)
               THEN [x EXCEPT !.lines = candidate] ELSE x
        Pass(t, capped) ==
            Fold(LAMBDA acc, x :
                         LET y == Grown(x, acc.used, capped)
                         IN [kept |-> Append(acc.kept, y), used |-> acc.used + Est(y.lines) - Est(x.lines)],
                     [kept |-> <<>>, used |-> Size(t)], t).kept
    IN Pass(Pass(s, TRUE), FALSE)

\* What regrowth made overlap again is cut to a minimal excerpt, or dropped
\* if that overlaps too.  The budget is not looked at again, and an excerpt
\* may be larger than what it is made from.
Redup(s) ==
    LET parts == PartitionDups(s)
    IN Fold(LAMBDA acc, x :
                    LET small == [x EXCEPT !.lines = Excerpt(@, Minimal)]
                    IN IF \E k \in Range(acc.kept) : Overlapping(small, k)
                       THEN [acc EXCEPT !.over = Append(@, small)]
                       ELSE [acc EXCEPT !.kept = Append(@, small), !.demoted = @ + 1],
                [kept |-> parts.kept, over |-> <<>>, demoted |-> 0], parts.dups)

\* The index: a title, then a line of four tokens per pointer while they fit.
Pointers(over, kept) ==
    LET room == Max({0, Budget - Size(kept) - Title}) \div 4
        list == Take(ByScore(over), Min({room, MaxPointers}))
    IN [i \in DOMAIN list |-> list[i].id]

\* context.tiered_push; only the sections of results have full content to
\* regrow, and only if one of them is code are the last two passes run.
Tiered == q.mode = "task" /\ q.tiered
HasFullContent(sections) == \E s \in Range(sections) : s.source \in CodeKinds

Assembled(baseline, sections) ==
    LET first == PartitionDups(ByPriority(baseline \o sections))
        ships == {s \in Range(first.kept) : Tiered /\ s.tier = "baseline"}
        base == Keep(first.kept, ships)
        tier1 == Keep(first.kept, Range(first.kept) \ ships)
        fit == FitBudget(CompressTail(tier1), Max({0, Budget - Size(base)}))
        grown == IF HasFullContent(sections) THEN Redup(Relax(base \o fit.kept, Budget))
                 ELSE [kept |-> base \o fit.kept, over |-> <<>>, demoted |-> 0]
    IN [sections |-> grown.kept,
        pointers |-> Pointers(first.dups \o fit.dropped \o grown.over, grown.kept),
        demoted |-> grown.demoted]

-----------------------------------------------------------------------------
(* The actions: the orientation or the baseline is read, the pack is made. *)

ColdStart ==
    /\ stage = "cold"
    /\ tier0' = ColdSections
    /\ accessed' = IF q.record THEN {s.id : s \in {t \in Range(tier0') : t.source \in {"rule", "knowledge"}}} ELSE {}
    /\ stage' = "done"
    /\ UNCHANGED <<dbVars, q, fts, vec, novel, graph, ranked, hits, walk, emitted, leads, extra, pack>>

ReadBaseline ==
    /\ stage = "done" /\ Tiered /\ tier0 = <<>>
    /\ tier0' = <<Identity>> \o RuleSections
    /\ UNCHANGED <<dbVars, searchVars, pack>>

Assemble ==
    /\ stage = "done"
    /\ tier0 # <<>> \/ (q.mode = "task" /\ ~q.tiered)
    /\ pack' = IF q.mode = "task" THEN Assembled(tier0, ResultSections) ELSE Assembled(<<>>, tier0)
    /\ stage' = "packed"
    /\ UNCHANGED <<dbVars, q, fts, vec, novel, graph, ranked, hits, walk, emitted, leads, extra, accessed, tier0>>

PackInit ==
    /\ SearchInit
    /\ tier0 = <<>>
    /\ pack = [sections |-> <<>>, pointers |-> <<>>, demoted |-> 0]

PackNext ==
    \/ (SearchNext \/ Sync) /\ UNCHANGED packVars
    \/ ColdStart
    \/ ReadBaseline
    \/ Assemble

PackSpec == PackInit /\ [][PackNext]_<<dbVars, searchVars, packVars>>

-----------------------------------------------------------------------------
(* What a pack promises. *)

\* After deduplication, compression and regrowth a pack is within its budget,
\* over which the baseline alone may go, or one section cut down to its title
\* by less than that title.  Deduplicating again (assemble.rs:222) looks at no
\* budget: each section cut to a minimal excerpt then may add the marker of
\* the excerpt, and nothing else adds anything.  The index never takes a pack
\* over its budget.
PackFits ==
    stage = "packed" =>
        LET base == Keep(pack.sections, {s \in Range(pack.sections) : Tiered /\ s.tier = "baseline"})
            index == Title + 4 * Len(pack.pointers)
        IN /\ Size(pack.sections) <= Max({Budget + Title - 1, Size(base)}) + Growth * pack.demoted
           /\ pack.pointers = <<>> \/ Size(pack.sections) + index <= Budget

\* "safe - packs come in under budget" (compress.rs:12), but for a baseline
\* that is larger by itself.
PackUnderBudget ==
    stage = "packed" =>
        LET base == Keep(pack.sections, {s \in Range(pack.sections) : Tiered /\ s.tier = "baseline"})
        IN Size(pack.sections) <= Max({Budget, Size(base)})

\* The baseline of a task pack ships unconditionally (assemble.rs:188): every
\* rule in it is a section of the pack, or a section of the pack says the same.
BaselineShips ==
    stage = "packed" /\ Tiered =>
        \A s \in Range(tier0) : \E t \in Range(pack.sections) : t = s \/ Overlapping(s, t)
=============================================================================
