CONSTANTS
  Ids = {1, 2}
  Prio <- MCPrio
  Pids = {1, 2, 3}
  Clients = {c1}
  MaxActive = 1
  UntilIdle = TRUE
  Commands = {"cancel", "cancel-all", "pause", "resume", "drain"}
  Racing = {"pause", "resume", "drain"}
  CrashPoints = {"recover", "top", "cancel", "reap", "dispatch", "telemetry", "save", "append", "mark"}
  MaxCrash = 1
  MaxSignal = 1
  MaxCommand = 2
  MaxEdit = 1
  MaxTotal = 3
SPECIFICATION FairSpec
INVARIANTS OneLiveChildPerItem ChildrenAccounted HistoryFaithful
PROPERTIES TerminalStays CancelSticks DrainStops QueuedSettles
