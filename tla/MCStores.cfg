CONSTANTS
  Scenes = {"logs", "previews", "commits", "config", "lookup"}
  Names <- MCNames
  Inodes = {1, 2, 3, 4}
  Contents <- MCContents
  Writers = {1, 2}
  NoFile = 0
  Torn = {"torn"}
  LogJobs = {1, 2, 3}
  Gone = {"gone"}
  remote <- MCRemote
  NoChunk = {"none"}
  NoLogJob = 0
  MaxAsks = 2
  MaxLogFaults = 1
  Workflows = {"ci", "cd"}
  MaxFailures = 1
  Runs = {1, 2, 3, 4}
  head <- MCHead
  treeOf <- MCTree
  Lost = {"c3"}
  Backfillers = {1, 2}
  Limit = 2
  NoTree = NoTree
  NoCommit = NoCommit
  MaxPasses = 2
  MaxCuts = 1
  Paths = {1, 2}
  Texts = {"a", "b"}
  Absent = Absent
  Auditors = {1, 2}
  MaxEdits = 2
  MaxAudits = 3
  Uses = {"a", "b", "c", "d", "gone", "checkout", "docker"}
  Known = {"checkout"}
  nested <- MCNested
  Leaves = {"d"}
  Unparsed = {"docker"}
  roots <- MCRoots
  MAX_LOOKUPS = 6
  MAX_DEPTH = 3
  Tries = 3
  MaxTrouble = 3
SPECIFICATION Spec
CHECK_DEADLOCK FALSE
INVARIANTS
  TypeOK
  LogsReadable
  FetchedOnce
  SnapshotReadable
  TreesFilled
  LatestIsLastRead
  HistoryIsWhatWasSeen
  IndexComplete
  MissingIsMissing
PROPERTIES
  TreesStay
  PassesAdvance
