SPECIFICATION Spec
CONSTANTS
  a = a
  b = b
  note = note
  w1 = w1
  w2 = w2
  NoDef = NoDef
  NoFile = NoFile
  NoRow = NoRow
  None = None
  Whole = Whole
  File <- TheFiles
  Name <- TheNames
  Text <- TheTexts
  Path <- ThePath
  FileName <- TheFileName
  Simple <- TheSimple
  Colon <- TheColon
  Dot <- TheDot
  Body = {1, 2}
  Edited <- TheEdited
  Started <- TheStart
  Entity = {note}
  Record = {}
  Mention <- TheMention
  RefChoice <- TheRefs
  Worker = {w1}
  MaxRuns = 2
  MaxEvents = 2
INVARIANT IncrementalMatchesFull
