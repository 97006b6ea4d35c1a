SPECIFICATION FairSpec
CONSTANTS
  hA = hA hB = hB doc = doc file = file
  c1 = c1 c2 = c2 v1 = v1 v2 = v2 None = None
  HostList <- MCHostList Slots <- MCSlots NJobs = 2
  Doc <- MCDoc Input <- MCInput Tagged <- MCTagged Asks <- MCAsksBuiltin Unicorn = {hB} Retries = 1
  Contents = {c1, c2} Versions = {v1, v2} Installed <- MCInstalled Succeeds <- MCSucceeds
  LiveUpgrade = FALSE
  MaxRuns = 2 MaxFaults = 2
INVARIANT SummaryAgrees FailoverCovers
PROPERTY ImplementsCache RunEnds
CHECK_DEADLOCK FALSE
