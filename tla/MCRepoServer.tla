---------------------------- MODULE MCRepoServer ----------------------------
(* Instances of RepoServer for TLC.                                        *)
EXTENDS RepoServer

CONSTANTS r1, r2, c1, c2, c3, fn, note

OneRepo    == {r1}
TwoRepos   == {r1, r2}
ThreeCalls == {c1, c2, c3}
OneSymbol  == {fn}
OneNote    == {note}

Symmetric == Permutations(ThreeCalls) \cup Permutations(TwoRepos)
=============================================================================
