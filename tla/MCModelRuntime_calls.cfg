\* Two tool calls of one server, one downloading process, one fault.
SPECIFICATION FairSpec
CONSTANTS
  t1 = t1  t2 = t2  q1 = q1
  Nobody = Nobody
  Thread <- TwoThreads
  Puller <- OnePuller
  Registry <- DefaultModels
  MaxChunks = 2
  MaxStale = 2
  MaxFaults = 1
INVARIANTS
  LinkedIsLoadable
  TornNeedsOverlap
PROPERTIES
  CallsEnd
