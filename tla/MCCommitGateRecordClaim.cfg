SPECIFICATION GateSpec
CONSTANTS
  s1 = s1  s2 = s2  s3 = s3  gone = gone
  c1 = c1  w1 = w1  w2 = w2  a1 = a1  p1 = p1
  sh1 = sh1  hk = hk
  Missing = Missing  Corrupt = Corrupt  Unsealed = Unsealed
  Undeclared = Undeclared  Fails = Fails  NoOutput = NoOutput
  NoWasm = NoWasm  NoArt = NoArt  NoDir = gone
  Sources = {s1, s2, gone}
  Wasms = {w1, w2}
  Builds <- MCBuilds
  Audits <- Scans
  AuditOf <- MCAuditOf
  Grave <- MCGrave
  Artifacts = {a1}
  AtRoot = {}
  Commands = {c1}
  Projects = {p1}
  Procs = {sh1, hk}
  Gate = hk
  Cli = {"record", "verify"}
  AllowDirty = {FALSE}
  MaxCommits = 3
  MaxEdits = 2
  MaxStarts = 3
  MaxInstalls = 1
INVARIANTS
  RerecordHelps
CHECK_DEADLOCK FALSE
