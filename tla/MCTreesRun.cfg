\* Every project, every command line of analyze and every tree of the module, one
\* edit and one output during the walk of the digest.
SPECIFICATION TreesSpec
CONSTANTS
  Names <- MCNames
  Depth = 2
  Kinds = {"none", "cdylib"}
  Workspaces <- MCWorkspaces
  NoTable = NoTable  Absent = Absent  HandWritten = HandWritten
  Placeholder <- MCPlaceholder
  MaxSegments = 2
  Manifest <- MCManifest
  Root <- MCRoot
  Entries <- MCEntries
  Children <- MCChildren
  Trees <- MCTrees
  Kind <- MCKind
  Rank <- MCRank
  Raw <- MCRaw
  Directive <- MCDirective
  Binary <- MCBinary
  Grade <- MCGrade
  Ignorable = {"target"}
  Default = Default  Unread = Unread
  Link = Link
  NoFile = NoFile
  NewLine = NewLine
  Text = Text
  MaxEdits = 1
  MaxOutputs = 1
  Order <- const_Order
  SkipDirs <- const_SkipDirs
  SkipFiles <- const_SkipFiles
  OwnFiles <- const_OwnFiles
  Contents <- const_Contents
  InitTrees <- const_InitTrees
INVARIANTS
  ScaffoldCorrect
  AnalysisCorrect
  NothingPassedOver
  DigestCorrect
  OneChangeSeen
PROPERTIES
  LoadedIsUsable
  SealsAllOrNothing
CHECK_DEADLOCK FALSE
