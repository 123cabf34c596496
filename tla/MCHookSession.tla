--------------------------- MODULE MCHookSession ---------------------------
(* File f has one entity, the entry, and a rule that references it; nothing  *)
(* is known about g.  A pack holds the entry as a pointer, or both.          *)
EXTENDS HookSession, TLC

CONSTANTS entry, rule, f, g

MCEntity == {entry, rule}
MCFile == {f, g}
MCOnFile == [x \in MCFile |-> IF x = f THEN {entry} ELSE {}]
MCRulesOn == [x \in MCFile |-> IF x = f THEN {rule} ELSE {}]
MCPack == {{entry}, {entry, rule}}

Of(kind, file, names, bad) ==
  [kind |-> kind, file |-> file, names |-> names, bad |-> bad]

Start == Of("start", NoFile, {}, FALSE)
Prompt == Of("prompt", NoFile, {rule}, FALSE)
Fails == Of("tool", NoFile, {entry}, TRUE)
Works == Of("tool", NoFile, {}, FALSE)
Save == Of("save", f, {}, FALSE)
Chore == Of("save", g, {}, FALSE)
End == Of("end", NoFile, {}, FALSE)
Context == Of("context", NoFile, {}, FALSE)
Search == Of("search", NoFile, {}, FALSE)
Query == Of("query", NoFile, {}, FALSE)
Pull == Of("pull", NoFile, {entry}, FALSE)
Cite == Of("cite", NoFile, {entry}, FALSE)
Verdict == Of("verdict", NoFile, {}, FALSE)

MCSession == {<<Prompt, Cite, Save>>, <<Start, Search, Save>>, <<Prompt, Pull, End>>,
              <<Fails, Works, Works>>, <<Query, Prompt, Fails>>, <<Start, Context, Save>>,
              <<Chore, Save, Pull>>, <<Query, Cite, Verdict>>, <<Context, Save, Verdict>>}
MCSym == Permutations(Proc)
=============================================================================
