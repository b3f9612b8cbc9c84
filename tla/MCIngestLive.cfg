CONSTANTS
  l1 = l1
  l2 = l2
  l3 = l3
  p1 = p1
  p2 = p2
  Jobs = {1, 2, 3, 4}
  Repos = {r1}
  Deliveries = {d1}
  Seed <- FirstIds
  NoPayload = NoPayload
  NoJob = NoJob
  NoDelivery = NoDelivery
  Loops = {l1}
  Procs = {p1}
  proc <- Together
  Drainers = {}
  Threads = {t1}
  LEASE = 1
  JOB_TIMEOUT = 0
  GRACE = 0
  POLL_INTERVAL = 1
  RetryDelays = {1}
  MaxDelay = 1
  HORIZON = 0
  MAX_ATTEMPTS = 1
  MaxFaults = 1
SPECIFICATION FairSpec
PROPERTIES
  EventsSettle
  PollsRecur
