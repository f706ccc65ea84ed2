SPECIFICATION ServicesSpec
CONSTANTS
  x1 = x1  x2 = x2  x3 = x3
  Threads = {x1, x2}  QueryOf <- MCQueryOf  CacheSize = 1  WindowSize = 2  Threshold = 2  MaxCooldown = 3
  SlotUsers = {x1, x2}  SlotSweepers = {x3}  SlotHost <- MCSlotHost  NoUser = NoUser  MaxSlotDeaths = 1
  Waiters = {x1, x2}  QueueHost <- MCQueueHost  QueuePrio <- MCQueuePrio
  NoWaiter = NoWaiter  MaxWaits = 3  MaxQueueDeaths = 1
  Holders = {x1, x2, x3}  NoHolder = NoHolder  MaxHolderDeaths = 1
  Agents = {x1, x2}  StaleMissCount = 2  MaxAgentDeaths = 1
  Pushers = {x1, x2}  MaxPushes = 2  MaxClock = 2  MaxFiles = 1
  BridgeProcs = {x1, x2}  Malformed = {2}  BridgeBatch = 2  StreamLength = 3  MaxEntries = 4  MaxBridgeFaults = 1
  MaxGpuEvents = 3  MaxReadFailures = 1
  Runs = {x1, x2}  NoRun = NoRun  RemoteRetries = 1  MaxSecond = 1  MaxStarts = 0  MaxCallerDeaths = 1
  Instances = {x1, x2}  Profiles = {x1, x2}  Backlogs = {0, 1}  QueueThreshold = 1
  MaxInstances = 1  SpawnCooldown = 1  MaxLimit = 1
  Workers = {x1, x2}  Edits = {x1}  MaxGitFailures = 1
INVARIANTS SlotsExclusive AnswersTrue ServicesTypeOK
PROPERTIES SlotsPassOn  NewsArrives WaitersServed
CHECK_DEADLOCK FALSE
