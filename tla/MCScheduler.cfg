CONSTANTS
  Campaigns = {1, 2, 3, 4}
  Projects = {1, 2}
  ProjectOf <- MCProjectOf
  Priority <- MCPriority
  Reserve <- MCReserve
  Weight <- MCWeight
  ProjectMax <- MCProjectMax
  Budget <- MCBudget
  Timed = {3}
  WallProjects = {2}
  GlobalMax = 2
  Pids = {1, 2, 3, 4, 5}
  Survive = FALSE
  MaxCrash = 1
  MaxMarks = 1
SPECIFICATION FairSpec
INVARIANTS LimitsKept CleanExit FairShare
PROPERTIES TerminalImmutable AllSettled
