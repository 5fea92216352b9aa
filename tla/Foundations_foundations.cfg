SPECIFICATION Spec
CONSTANTS
  MaxArchiveDepth = 2
  MaxFindings = 2
  Sizes <- MCSizes
  MaxFiles = 4
  MaxArchives = 2
  MaxEntries = 2
  MaxBytes = 1
  Worlds <- MCWorlds
  Letters = {"a"}
  MaxScript = 3
  MaxElements = 1
  IdSpace = 3
  MaxSubId = 7
  MaxLines = 2
  Kinds <- MCKinds
  Values <- MCValues
  Physical <- MCPhysical
  FreezeMax <- MCFreezeMax
  FreezeFloor <- MCFreezeFloor
  Limit = 2
  MaxOutput = 8
  BatchBytes = 20
  MinChunk = 2
  Fixed = 10
  Slack = 4
  Frame = 1
  MaxText = 9
  Inventories <- MCInventories
  Options <- MCOptions
  Writers = {w1, w2}
  Readers = {r1}
  Length = 2
  FileBounds <- MCFileBounds
  MaxStream = 4
  Configs <- MCConfigs
  Programs <- MCPrograms
  Models <- MCModels
  MaxChanges = 1
  MaxTagMoves = 2
  SystemConfigs = {"/etc/makepkg.conf"}
  CommandLines <- MCCommandLines
  Reports <- MCReports
INVARIANTS
  CompleteMeansNothingWasMissed ArchivesShareTheLimits BindingDecidesChange
  StaticChecksumsAreBashs NamespaceIdsAreSound CommandsKeepToTheirTerms
  FilesAreReadAndWrittenWhole ReviewsAreSoundlyExchanged
CHECK_DEADLOCK FALSE
