CONSTANTS
  Axes <- MCAxes
  Base <- MCBase
  NoValue = NoValue
  MaxCases = 4
  Window = 1
  RateNum = 0
  RateDen = 1
  MinCases = 3
  Guest <- MCGuest
  RightGuest <- MCRightGuest
  Options <- MCOptions
  Inherited <- MCInherited
  MaxTriage = 2
  Scale = 12
  None = None
  MaxFaults = 2
SPECIFICATION FairSpec
INVARIANTS ExplorationSound VerdictSound
PROPERTIES StageFinal 
CHECK_DEADLOCK FALSE
