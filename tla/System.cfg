SPECIFICATION Spec
CHECK_DEADLOCK FALSE
CONSTANTS
  MaxUpgrades = 2
  MaxFaults = 3
  MaxCrashes = 1
  VersionsBefore <- InstalledVersions
  Releases <- ReleasedVersions
  MaxStarts = 3
  Keys = {"j", "k"}
  Actions = {"f", "g"}
  SystemKeys = {"q", "w"}
  MaxEvents = 5
  SyncTasks = {"task"}
  Attempts = 2
  Size = 2
  MaxRequests = 1
  MaxWrites = 2
  MaxNow = 3
  MaxSessions = 2
  Sustained = 3
  MaxSamples = 4
  Patches <- PatchedSettings
  MaxPatches = 2
  MaxRefreshes = 1
  BackupEdits = {"merge"}
  BackupUsers = {"user"}
  Spacing = 2
  Interval = 2
  BackupsToKeep = 1
  MaxSettings = 2
  MaxZips = 3
  TrayWindows = {"w", "x"}
  TrayClicks = {"t"}
  TrayGroups <- GroupsOfTray
  MaxChoices = 3
  MaxSpeedCalls = 3
  MaxConns = 3
  LightThreads = {tray, second}
  MaxLightAsks = 2
  MaxTimers = 2
  DavTasks = {"t", "u"}
  DavOperations = {"upload", "download"}
  MaxSaves = 2
  MaxDavOperations = 2
  MaxCalls = 3
  Procs = {"a", "b", "c"}
  ServerPorts = {1, 2}
  MaxForeign = 1
  Count = 3
  Urls = {"u", "v"}
  ProviderNames = {"d"}
  Outside = "out"
  NoUrl = "-"
  UpdateTasks = {"t", "u"}
  Docs = {"a", "b"}
  DefaultDoc = "default"
  DocLooks <- LooksOf
  AcceptedDocs <- AcceptedBy
  SavedItems <- ItemsBefore
  MaxUpdateCalls = 2
  MaxUpdateFaults = 1
  SelectorGroups = {"g"}
  Selectable = {"g"}
  ProxyNodes = {"a", "b"}
  NodeProfiles = {"p", "q"}
  NoProxyNode = "-"
  SavedSelections <- RecordsBefore
  MaxRestorations = 2
  MaxSelections = 1
  MaxChanges = 1
  LastPort = 4
  ReservedPorts = {2}
  MaxPortRetries = 3
  MaxPortSaves = 1
  ProbedPlatforms = {"macos", "linux", "windows"}
  ListenerPorts = {1, 2}
  AskedPorts <- PortsAskedFor
  DnsTasks = {"t", "u"}
  DnsProfiles = {"p", "q"}
  FirstProfile = "p"
  DnsSources = {"s", "r"}
  NoDns = "-"
  SavedSources <- SourcesBefore
  MaxAsks = 2
  MaxMakes = 1
  MaxNews = 1
  MaxDnsStarts = 1
INVARIANTS ProxyFollows  ProfilesAgree  ProvidersWhole GivenUpForCause  DesktopFollows     
