SPECIFICATION Spec
CONSTANTS
  None = None
  Unreadable = Unreadable
  Broken = Broken
  RootDir <- MCRootDir
  EditedLine <- MCEditedLine
  Workspaces <- MCWorkspaces
  MaxSnapshots = 2
  MaxLog = 1
CHECK_DEADLOCK FALSE
INVARIANTS
  AnalysisTypeOK
  UsedIsNotFlagged
  GeneratedIsNotFlagged
  RelativeMeansThatFolder
  IgnoreFileDecides
  ReadyMissesNothing
  OneCopyIsSpared
  OverridesAreLocal
  OffIsSilent
  AggregateIsBetween
  RewrittenNamesKeeper
  AuditLogIsSuffix
  AuditedHasSnapshot
PROPERTIES
  GateIsSound
  EditsSurvive
