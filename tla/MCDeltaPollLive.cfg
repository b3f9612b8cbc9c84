CONSTANTS
  NoRow = NoRow
  NoEtag = NoEtag
  RepoRow = RepoRow
  NoWrite = NoWrite
  p1 = p1
  p2 = p2
  Runs = {1, 2}
  Pollers = {p1, p2}
  Handlers = {h}
  Limit <- Ample
  WithJobs = {p1, p2}
  proc <- Apart
  Subscribed = {"workflow_run", "workflow_job"}
  LastStage <- AllStay
  MaxEvents = 1
  MaxFaults = 0
SPECIFICATION FairSpec
PROPERTY SlotComesBack
