CONSTANTS
  l1 = l1
  l2 = l2
  l3 = l3
  p1 = p1
  p2 = p2
  Jobs = {1, 2, 3, 4, 5, 6, 7}
  Repos = {r1}
  Deliveries = {}
  Seed <- FirstIds
  NoPayload = NoPayload
  NoJob = NoJob
  NoDelivery = NoDelivery
  Loops = {l1, l3}
  Procs = {p1, p2}
  proc <- Apart
  Drainers = {p2}
  Threads = {}
  LEASE = 2
  JOB_TIMEOUT = 1
  GRACE = 1
  POLL_INTERVAL = 2
  RetryDelays = {1}
  MaxDelay = 2
  HORIZON = 0
  MAX_ATTEMPTS = 1
  MaxFaults = 1
SPECIFICATION Spec
VIEW View
INVARIANTS
  LeaseExclusive
  PollChainAlive
  FanOutBounded
PROPERTY DrainsBeforeExit
