CONSTANTS
  Scenes = {"names", "cache", "runs", "text", "path", "ignore", "history"}
  WorkflowFiles = {1}
  ConfigJobs <- MCConfigJobs
  MaxJobs = 3
  JobSteps <- MCJobSteps
  manifest <- MCManifest
  Runners = {"custom"}
  MaxSteps = 4
  main = main
  dev = dev
  Refs <- MCRefs
  MaxRuns = 3
  MaxTime = 3
  MaxReruns = 1
  MaxShown = 1
  MAX_PLAUSIBLE = 2
  Layouts <- MCLayouts
  Ends = {"lf", "crlf"}
  Nodes = {1, 2, 3, 4}
  Graphs <- MCGraphs
  LegSets <- MCLegSets
  Artifacts <- MCArtifacts
  Keys <- MCKeys
  Targets <- MCTargets
  Flows = {"ci", "cd"}
  Gated = {"cd"}
  Legs = {"a", "b"}
  MinRuns = 2
  MinFailures = 2
  MaxLedger = 2
SYMMETRY RefSymmetry
SPECIFICATION Spec
CHECK_DEADLOCK FALSE
INVARIANTS
  TypeOK
  StepsOfOwnJob
  FindingsStandUp
  FixesStick
  WasteIsSaved
  LongestPath
  SpansAddUp
  PolicyIsHonoured
  NeverAlone
