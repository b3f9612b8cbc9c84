CONSTANTS
  NoRow = NoRow
  NoEtag = NoEtag
  RepoRow = RepoRow
  NoWrite = NoWrite
  p1 = p1
  p2 = p2
  Runs = {1, 2}
  Pollers = {p1, p2}
  Handlers = {h}
  Limit <- Seeded
  WithJobs = {p1, p2}
  proc <- Apart
  Subscribed = {"workflow_job"}
  LastStage <- SecondStarts
  MaxEvents = 1
  MaxFaults = 1
SPECIFICATION Spec
INVARIANTS
  TypeOK
  CursorCoversJobs
  JobsHaveRuns
PROPERTY StartsKept
