CONSTANTS
  ByteBits = 2
  NumRegs = 13
  LineBytes = 8
  RedZone = 8
  StackAlign = 4
  StubLimit = 12
  Calls <- MCCalls
  Procs = {p1, p2, p3}
  SerialStart = TRUE
  Subs = {s1, s2, s3}
  Names = {n1}
  SerialSubmit = TRUE
  Objects = {o1}
  NotThere = NotThere
  Garbled = Garbled
  PartCopied = PartCopied
  QuietControl = TRUE
  MaxItems = 1
  MaxBackups = 2
  MaxBackupFaults = 2
  t1 = t1
  Tokens = {t1, t2}
  FirstTokens <- FirstTokensDef
  Requests = {r1, r2}
  Endpoints = {"/v1/evidence/query"}
  Servers = {server}
  Admins = {admin1}
  Nobody = Nobody
  TornRecord = TornRecord
  SerialAdmin = TRUE
  MaxCommands = 2
  MaxCrashes = 1
  jd = jd
  jf = jf
  jc1 = jc1
  jc2 = jc2
  je1 = je1
  je2 = je2
  JobCount = 2
  JobDoc <- JobDocDef
  JobInput <- JobInputDef
  JobContents = {jc1, jc2}
  JobEngines = {je1, je2}
  JobSucceeds <- JobSucceedsDef
  Parallel = 2
  NoRecord = NoRecord
  MaxOrchRuns = 2
  MaxOrchFaults = 2
  Archives = {"r1", "r2", "r3", "r4", "r5", "r6"}
  Holds <- HoldsDef
  FirstRelease = "r1"
  VersionFile = 2
  Channel <- ChannelDef
  NoPin = 0
  TornZip = TornZip
  TornTx = TornTx
  ReapplyTorn = FALSE
  MaxUpCommands = 3
  MaxUpFaults = 2
  Documents = {"trace1", "trace2", "result", "evidence", "case", "campaign", "triage", "claim1", "claim2"}
  Doc <- DocDef
  Sources = {"x.json", "y.json"}
  Forced = {"none", "ta"}
  NoTarget = "none"
  MaxIngests = 2
SPECIFICATION LabSpec
INVARIANTS CallsCompute MutualExclusion UniqueSeq RevocationHolds AuditComplete UpgradeRecoverable GraphConverges ReuseSound
PROPERTIES XerExact StopsExact WritesConfined StaleLockReplaced 
