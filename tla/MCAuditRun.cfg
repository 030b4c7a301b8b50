SPECIFICATION FairSpec
CONSTANTS
  w1 = w1  w2 = w2  w3 = w3
  Foreign = Foreign  Malformed = Malformed
  NoSeal = {"none"}  Corrupt = {"corrupt"}  NoWasm = NoWasm
  Wasms = {w1, w2, w3}
  Others = {Foreign, Malformed}
  Batches <- MCBatches
  Sealings = {{"none"}, {"corrupt"}, {w1}}
  Asked = {2}
  EmptyPages = TRUE
  MaxLedger = 3
  PageLimit = 2
  MaxPages = 2
INVARIANTS
  TypeOK
  TrueLineage
  ConsistentIsComplete
  VerdictFollowsLedger
PROPERTY AuditEnds
CHECK_DEADLOCK FALSE
