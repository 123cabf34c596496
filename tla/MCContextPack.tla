--------------------------- MODULE MCContextPack ---------------------------
(***************************************************************************)
(* A repository of one source file (1) with a class (2) and a function     *)
(* (3), a rule (4) and two knowledge entries (5, 6).                       *)
(***************************************************************************)
EXTENDS ContextPack

MCId == 1 .. 6
MCKind == <<"file", "class", "function", "rule", "knowledge", "knowledge">>
MCDefines == {<<1, 2>>, <<1, 3>>}
MCCurated == {<<5, 3>>, <<4, 2>>}
MCAuto == {<<6, 1>>}
MCDrifted == {5}
MCSimilar == {{5, 6}}

Of(lines) == [i \in DOMAIN lines |-> [is |-> lines[i][1], width |-> lines[i][2]]]

\* The function, whose last line is a brace, and the class, as the file has
\* them after a header and a blank line; two knowledge entries that overlap.
Function == <<<<31, 24>>, <<32, 20>>, <<33, 1>>>>
Class == <<<<21, 24>>, <<22, 16>>>>
MCText == <<Of(<<<<11, 20>>, <<12, 0>>>> \o Function \o Class), Of(Class), Of(Function), Of(<<<<41, 20>>, <<42, 20>>>>),
            Of(<<<<51, 24>>, <<52, 24>>, <<53, 24>>>>), Of(<<<<51, 24>>, <<52, 24>>>>)>>
MCComposite == <<0, 0, 0, 300, 500, 400>>

Lists == {<<>>, <<3>>, <<3, 4, 5>>, <<4, 6>>, <<5, 6, 2, 3>>, <<3, 1, 2, 6>>}
Vectors == {[code |-> <<3, 1, 2>>, knowledge |-> <<6, 5, 4>>], [code |-> <<2>>, knowledge |-> <<4, 5>>]}

\* Which channel stands out, and which vector hits are near enough to lead on.
Gradients == {<<[code |-> 800, knowledge |-> 100], {}>>, <<[code |-> 100, knowledge |-> 700], {5}>>}

Query(f, s, v, g, t, a, m, p) ==
    [fts |-> f, spaces |-> s, vec |-> v, grad |-> g[1], near |-> g[2], prf |-> <<6, 2>>,
     history |-> <<[id |-> 2, idf |-> 1], [id |-> 3, idf |-> 3]>>,
     titled |-> t, answers |-> {3, 4}, all |-> a, mode |-> m, record |-> m # "cold_start", tiered |-> p]

\* The search tool, the context pack with and without its baseline, and one
\* cold start.
MCQueries ==
    {Query(f, s, v, g, t, FALSE, m, TRUE) :
        f \in Lists, s \in {{}, {"knowledge"}, Channels}, v \in Vectors, g \in Gradients,
        t \in {{}, {2}}, m \in {"search", "task"}}
    \cup {Query(<<3, 4, 5>>, Channels, v, g, {}, TRUE, m, TRUE) :
              v \in Vectors, g \in Gradients, m \in {"search", "task", "cold_start"}}
    \cup {Query(f, Channels, v, g, {}, FALSE, "task", FALSE) : f \in Lists, v \in Vectors, g \in Gradients}
=============================================================================
