CONSTANTS
  Ids = {1, 2}
  Prio <- MCPrio
  Pids = {1, 2, 3}
  Clients = {c1}
  MaxActive = 1
  UntilIdle = FALSE
  Commands = {}
  Racing = {}
  CrashPoints = {"launched"}
  MaxCrash = 1
  MaxSignal = 0
  MaxCommand = 0
  MaxEdit = 0
  MaxTotal = 1
SPECIFICATION Spec
INVARIANT OneLiveChildPerItem
