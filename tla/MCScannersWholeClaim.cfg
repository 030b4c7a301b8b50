SPECIFICATION ScannersSpec
CONSTANTS
  MaxDepth = 3
  Files <- MCFiles
  None = None
  Base = 4
  Word = 64
  MaxGroups = 3
  Unreachable = 0
  NoModule = NoModule
  Header <- const_Header
  Function <- const_Function
  Memory <- const_Memory
  Export <- const_Export
  Code <- const_Code
  End <- const_End
  Inputs <- const_Inputs
INVARIANTS
  WholeFunctions
CHECK_DEADLOCK FALSE
