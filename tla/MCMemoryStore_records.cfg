\* One observation, two writers, one full sync in flight, one fault, one reset.
SPECIFICATION Spec
CONSTANTS
  w1 = w1
  w2 = w2
  b1 = b1
  b2 = b2
  Pulled <- SomePulls
  Writer <- TwoWriters
  Syncer = {s1}
  Observation = {o1}
  Knowledge = {}
  Body = {b1}
  Blank = Blank
  NoEntity = NoEntity
  NoFile = NoFile
  Garbled = Garbled
  NoRow = NoRow
  NoHash = NoHash
  NoScan = NoScan
  Free = Free
  Absent = Absent
  MaxTombstones = 1
  MaxEdits = 0
  MaxFaults = 1
  MaxResets = 1
INVARIANTS
  TypeOK
  LockedReadIsCurrent
  VerdictAcknowledged
  OnlyStaleIsDbOnly
PROPERTIES
  RowsFollowLattice
SYMMETRY Symmetry
