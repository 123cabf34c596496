\* People edit, break, delete and restore the file of one knowledge entry while
\* one writer and full syncs run.
SPECIFICATION FairSpec
CONSTANTS
  w1 = w1
  w2 = w2
  b1 = b1
  b2 = b2
  Pulled <- SomePulls
  Writer = {w1}
  Syncer = {s1}
  Observation = {}
  Knowledge = {k1}
  Body = {b1}
  Blank = Blank
  NoEntity = NoEntity
  NoFile = NoFile
  Garbled = Garbled
  NoRow = NoRow
  NoHash = NoHash
  NoScan = NoScan
  Free = Free
  Absent = Absent
  MaxTombstones = 0
  MaxEdits = 2
  MaxFaults = 0
  MaxResets = 0
PROPERTIES
  CleanScanSettles
  EventuallySettled
