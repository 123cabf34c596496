SPECIFICATION Spec
CONSTANTS
  Proc = {h1, h2}
  Session <- MCSession
  Entity <- MCEntity
  File <- MCFile
  OnFile <- MCOnFile
  RulesOn <- MCRulesOn
  Pack <- MCPack
  Pointer = {entry}
  entry = entry
  rule = rule
  f = f
  g = g
  RecurringMin = 2
  MaxFaults = 1
  MaxDay = 1
SYMMETRY MCSym
INVARIANTS NoSelfCredit OnePackOpen ClosedIsSettled NudgedOnce
CHECK_DEADLOCK FALSE
