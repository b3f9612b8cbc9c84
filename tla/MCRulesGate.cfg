CONSTANTS
  Scenes = {"history"}
  WorkflowFiles = {1, 2}
  ConfigJobs <- MCConfigJobs
  MaxJobs = 2
  JobSteps <- MCJobSteps
  manifest <- MCManifest
  Runners = {"custom"}
  MaxSteps = 4
  main = main
  dev = dev
  Refs <- MCRefs
  MaxRuns = 3
  MaxTime = 3
  MaxReruns = 1
  MaxShown = 1
  MAX_PLAUSIBLE = 2
  Layouts <- MCLayouts
  Ends = {"lf", "crlf"}
  Nodes = {1, 2, 3, 4}
  Graphs <- MCGraphs
  LegSets <- MCLegSets
  Artifacts <- MCArtifacts
  Keys <- MCKeys
  Targets <- MCTargets
  Flows = {"ci", "cd"}
  Gated = {"cd"}
  Legs = {"a", "b"}
  MinRuns = 2
  MinFailures = 2
  MaxLedger = 2
SPECIFICATION Spec
CHECK_DEADLOCK FALSE
INVARIANT OthersCaughtIt
