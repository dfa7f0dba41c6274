SPECIFICATION Spec
CONSTANTS
  None = None
  Refused = Refused
  MaxEntries = 3
  Entries <- MCEntries
  Defaults <- MCDefaults
  Empty <- MCEmpty
  Below <- MCBelow
  Documents <- MCDocuments
  MaxSources = 2
  Policies <- MCPolicies
  Interval = 2
  Newest = 2
  MaxChanges = 2
  FirstReleases <- MCFirstReleases
  Installs <- MCInstalls
  Settings <- MCSettings
  CfgPaths <- MCCfgPaths
  ConfigFiles <- MCConfigFiles
  EnvFiles <- MCEnvFiles
  Environment <- MCEnvironment
  Directories = 2
  FilesIn = 2
  Readings = 3
  BeginsWith <- MCBegins
  Asked = {"none", "web", "webshop"}
  Names = {"site", "setup"}
  Collections = {"debops.debops", "my.own"}
  CollectionDirs = 2
  ViewCollections <- MCViewCollections
  PlaybookSets <- MCPlaybookSets
  Listed = {"--diff", "--check"}
  Valued = {"-l"}
  Joined = {"--limit=x"}
  GlobalVars <- MCGlobalVars
  MaxArguments = 4
  MaxPlaybooks = 3
INVARIANT SortIsRight
INVARIANT FiltersAgree
INVARIANT CommandsAreControlled
INVARIANT AcceptedMeansSaid
INVARIANT SaidWasSo
INVARIANT ReadAsMerged
INVARIANT ArgumentsKept
PROPERTY OnlyItself
PROPERTY AskedOncePerInterval
PROPERTY FilesHaveTheirSay
CHECK_DEADLOCK FALSE
