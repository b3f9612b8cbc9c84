CONSTANTS
  NoRow = NoRow
  NoEtag = NoEtag
  RepoRow = RepoRow
  NoWrite = NoWrite
  p1 = p1
  p2 = p2
  Runs = {1}
  Pollers = {p1}
  Handlers = {}
  Limit <- Ample
  WithJobs = {p1}
  proc <- Apart
  Subscribed = {}
  LastStage <- AllEnd
  MaxEvents = 0
  MaxFaults = 1
SPECIFICATION Spec
INVARIANT CursorCoversEveryRun
