\* Every answer, record, artifact and contract id of the module.
SPECIFICATION FormatsSpec
CONSTANTS
  a1 = a1
  a2 = a2
  None = None
  Error = Error
  HashLen = 2
  Padding = 1
  Artifacts = {a1, a2}
  Tokens <- const_Tokens
  Served <- const_Served
  Update <- const_Update
  Wasm <- const_Wasm
  Answers <- const_Answers
  Texts <- const_Texts
  Records <- const_Records
  w1 = w1
  w2 = w2
  w3 = w3
  Wasms = {w1, w2, w3}
  Default = Default
  MaxLen = 4
  Delays <- const_Delays
  LastDay = 146097
INVARIANTS
  SimulationCorrect
  DecodersCorrect
PROPERTIES
  FollowsCalendar
CHECK_DEADLOCK FALSE
