SPECIFICATION Spec
CONSTANTS
  s1 = s1  s2 = s2  gone = gone
  c1 = c1  c2 = c2
  w1 = w1  w2 = w2
  a1 = a1  a2 = a2
  p1 = p1  p2 = p2
  sh1 = sh1  sh2 = sh2
  Missing = Missing  Corrupt = Corrupt  Unsealed = Unsealed
  Undeclared = Undeclared  Fails = Fails  NoOutput = NoOutput
  NoWasm = NoWasm  NoArt = NoArt  NoDir = gone
  Sources = {s1, s2, gone}
  Wasms = {w1, w2}
  Builds <- MCBuilds
  Audits <- Scans
  AuditOf <- MCAuditOf
  Artifacts = {a1, a2}
  AtRoot = {a1}
  Commands = {c1}
  Projects = {p1, p2}
  Procs = {sh1}
  Cli = {"record", "verify"}
  AllowDirty = {TRUE, FALSE}
  MaxCommits = 2
  MaxEdits = 2
  MaxStarts = 2
INVARIANTS
  VerifySound
  RecordSound
CHECK_DEADLOCK FALSE
