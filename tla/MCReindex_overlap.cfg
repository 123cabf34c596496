SPECIFICATION Spec
CONSTANTS
  f1 = f1  w1 = w1  w2 = w2  d = d  b1 = b1  b2 = b2
  NoDef = NoDef  NoFile = NoFile  Garbled = Garbled  NoTree = NoTree
  NoRow = NoRow  Unread = Unread
  File <- OneFile
  Name <- OneName
  Body <- TwoBodies
  Denied = {}
  Edited <- AnyEdits
  Worker <- TwoWorkers
  MaxEdits = 2
  MaxFaults = 1
SYMMETRY Symmetry
INVARIANTS TypeOK NothingSlips
PROPERTIES NoFalseStale AloneRunMirrors
