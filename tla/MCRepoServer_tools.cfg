\* Three tool calls on two repositories, a cache of one entry.
SPECIFICATION Spec
SYMMETRY Symmetric
CONSTANTS
  r1 = r1  r2 = r2  c1 = c1  c2 = c2  c3 = c3  fn = fn  note = note
  Nobody = Nobody
  Repo <- TwoRepos
  Call <- ThreeCalls
  Code <- OneSymbol
  Knowledge <- OneNote
  Version = 2
  MaxCached = 1
  MaxChanges = 1
INVARIANTS
  StaleStateHasCause
  OneWriter
  VectorsMapped
  CacheBounded
