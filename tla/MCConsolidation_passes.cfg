SPECIFICATION Spec
CONSTANTS
  Obs <- MCObs
  Rule = {11, 12}
  Created <- MCCreated
  Pass <- MCPass
  Scenario <- MCScenario
  Embeds <- MCObs
  SameTitle <- MCSameTitle
  Similar <- MCSimilar
  Opposed <- MCOpposed
  Supports <- MCSupports
  Threshold = 1
  MaxFaults = 1
  Nobody = Nobody
INVARIANTS ClaimSurvives SecondRuleNeedsCause OneOfTwoIsWarned
PROPERTY DuplicatesMerge
