SPECIFICATION PackSpec
CONSTANTS
    MinRelevance = 50
    Drifted <- MCDrifted
    Curated <- MCCurated
    Similar <- MCSimilar
    Id <- MCId
    Kind <- MCKind
    Defines <- MCDefines
    AutoLinks <- MCAuto
    Limit = 2
    MaxSeeds = 2
    MaxHops = 2
    Anchors = 2
    Queries <- MCQueries
    MaxChanges = 1
    Text <- MCText
    Composite <- MCComposite
    BaselineRules = 1
    Budget = 60
    Short = 3
    Relaxed = 4
    Minimal = 2
    TailRank = 3
    Title = 3
    Marker = 18
    MaxPointers = 3
INVARIANT EarnedChannelSeen
INVARIANT LeadsSurface
INVARIANT ReturnedWasLive
INVARIANT AccessMeansReturned
INVARIANT PackFits
CHECK_DEADLOCK FALSE
