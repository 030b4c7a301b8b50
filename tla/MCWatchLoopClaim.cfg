SPECIFICATION FairSpec
CONSTANTS
  f1 = f1  f2 = f2  c1 = c1  c2 = c2
  h1 = h1  h2 = h2  sh1 = sh1  sh2 = sh2
  Absent = Absent  Unreadable = Unreadable  Unknown = Unknown
  Torn = Torn  NoConfig = {"none"}
  Paths = {f1}
  Contents = {c1, c2}
  Starter = {f1}
  Hooks = {h1}
  Procs = {sh1}
  Modes = {"daemon"}
  MaxEdits = 2
  MaxStarts = 1
PROPERTY UntilInterrupted
CHECK_DEADLOCK FALSE
