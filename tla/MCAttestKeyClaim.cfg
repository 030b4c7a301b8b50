SPECIFICATION Spec
CONSTANTS
  n1 = n1  n2 = n2  k1 = k1  k2 = k2  a1 = a1  a2 = a2
  w1 = w1  w2 = w2  d1 = d1  d2 = d2  e1 = e1  sh1 = sh1  sh2 = sh2
  Unsealed = Unsealed  Absent = Absent  Torn = Torn  NoKey = NoKey
  Names = {n1, n2}
  Keys = {k1}
  Artifacts = {a1}
  Wasms = {w1}
  Details = {d1}
  Extras = {e1}
  Procs = {sh1}
  MaxEdits = 0
  MaxStarts = 1
PROPERTIES
  KeygenKeepsKey
CHECK_DEADLOCK FALSE
