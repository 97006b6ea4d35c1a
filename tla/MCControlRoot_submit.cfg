CONSTANTS
  Procs = {p1}
  SerialStart = TRUE
  Subs = {s1, s2, s3}
  Names = {n1}
  SerialSubmit = FALSE
SPECIFICATION RootSpec
INVARIANT UniqueSeq
CHECK_DEADLOCK FALSE
