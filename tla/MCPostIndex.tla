---------------------------- MODULE MCPostIndex ----------------------------
EXTENDS PostIndex, TLC

CONSTANTS a, b, note, w1, w2

helper == "helper"
method == "T::go"

TheFiles == {a, b}
TheNames == {helper, method}
TheTexts == {helper, method, "go", "src/a.rs", "src/b.rs", "a.rs", "b.rs"}
ThePath     == [f \in TheFiles |-> IF f = a THEN "src/a.rs" ELSE "src/b.rs"]
TheFileName == [f \in TheFiles |-> IF f = a THEN "a.rs" ELSE "b.rs"]
TheSimple   == [k \in TheFiles \X TheNames |-> IF k[2] = method THEN "go" ELSE k[2]]
TheColon    == [t \in TheTexts |-> IF t = method THEN "go" ELSE t]
TheDot      == [t \in TheTexts |-> t]

Src(h, m, calls) ==
  [defs |-> [n \in TheNames |-> IF n = helper THEN h ELSE m], raw |-> calls]
Call(n, t) == [kind |-> "calls", from |-> n, to |-> t]

\* Nothing; a helper and a method that call each other; the next version of
\* the helper, alone, which calls nothing.
Both    == Src(1, 2, {Call(helper, method), Call(method, helper)})
Changed == Src(2, NoDef, {})
TheEdited == {NoFile, Both, Changed}

\* One file is there to begin with; edits make the other.
TheStart == {[f \in TheFiles |-> IF f = a THEN Both ELSE NoFile]}

TheMention == [e \in {note} |-> {"a.rs"}]
Symmetry   == Permutations({w1, w2})
TheRefs    == {{}, {<<a, helper>>}}
=============================================================================
