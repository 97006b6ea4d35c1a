CONSTANTS
  Campaigns = {1, 2, 3}
  Projects = {1, 2}
  ProjectOf <- MCProjectOf
  Priority <- MCPriority
  Reserve <- MCReserve
  Weight <- MCWeight
  ProjectMax <- MCProjectMax
  Budget <- MCBudget
  Timed = {}
  WallProjects = {}
  GlobalMax = 2
  Pids = {1, 2, 3, 4, 5}
  Survive = TRUE
  MaxCrash = 1
  MaxMarks = 0
SPECIFICATION Spec
INVARIANT GlobalCap
