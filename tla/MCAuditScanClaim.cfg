SPECIFICATION Spec
CONSTANTS
  w1 = w1  w2 = w2  w3 = w3
  Foreign = Foreign  Malformed = Malformed
  NoSeal = {"none"}  Corrupt = {"corrupt"}  NoWasm = NoWasm
  Wasms = {w1, w2}
  Others = {}
  Batches <- MCBatches
  Sealings <- MCSealings
  Asked = {}
  EmptyPages = TRUE
  MaxLedger = 3
  PageLimit = 2
  MaxPages = 3
INVARIANTS
  ScanExact
CHECK_DEADLOCK FALSE
