CONSTANTS
  Procs = {p1, p2, p3}
  SerialStart = FALSE
  Subs = {s1}
  Names = {n1}
  SerialSubmit = TRUE
SPECIFICATION RootSpec
INVARIANT MutualExclusion
CHECK_DEADLOCK FALSE
