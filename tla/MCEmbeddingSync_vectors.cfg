\* One entity of each space, two edits' worth of versions, two processes.
SPECIFICATION FairSpec
CONSTANTS
  p1 = p1  p2 = p2  p3 = p3  k1 = k1  c1 = c1
  Free = Free  NoRow = NoRow  NoVec = NoVec
  Process <- TwoProcesses
  Knowledge <- OneKnowledge
  Code <- OneCode
  MaxVersion = 1
  MaxJobs = 1
  MaxFaults = 1
INVARIANTS
  ReindexIsAlone
  StaleVectorHasCause
PROPERTIES
  MissingVectorHeals
