CONSTANTS
  l1 = l1
  l2 = l2
  l3 = l3
  p1 = p1
  p2 = p2
  Jobs = {1, 2, 3}
  Repos = {}
  Deliveries = {d1, d2}
  Seed <- FirstIds
  NoPayload = NoPayload
  NoJob = NoJob
  NoDelivery = NoDelivery
  Loops = {l1, l3}
  Procs = {p1, p2}
  proc <- Apart
  Drainers = {}
  Threads = {t1, t2}
  LEASE = 1
  JOB_TIMEOUT = 1
  GRACE = 0
  POLL_INTERVAL = 1
  RetryDelays = {1}
  MaxDelay = 1
  HORIZON = 0
  MAX_ATTEMPTS = 1
  MaxFaults = 2
SPECIFICATION Spec
VIEW View
SYMMETRY Symmetry
INVARIANTS
  TypeOK
  ReceivedIsQueuedOnce
  EventAppliedOrExhausted
PROPERTY KeepsLedger
