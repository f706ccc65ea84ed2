SPECIFICATION TasksSpec
CONSTANTS
  x1 = x1  x2 = x2  x3 = x3
  RedisTasks = {x1, x2}  SubsOf <- MCSubsOf  RedisWorkers = {x1, x2}  RedisClerks = {x2}  MaxRedisFaults = 1
  SubHosts = {x1, x2}  NoHost = NoHost  SubCount = 2  MaxSubDeaths = 1
  Generators = {x1, x2}  MaxCommits = 2  MaxIds = 3
  AutoTasks = {x1, x2, x3}  TierOf <- MCTierOf  CheapTasks = {x2}  Estimated = {x1}  AutoHosts = {x1}
  NoTask = NoTask  Passes = {x1, x2}  MaxConcurrent = 1  FailureLimit = 1  MaxAutoRetries = 1
  Alarms = {x1, x2}  KindOf <- MCKindOf  Blocked = {x2}  PoolSize = 1  Cooldown = 1  MissCount = 1
  MaxMonitorFaults = 2  MaxPool = 3
  Sessions = {x1, x2, x3}  StatusHosts = {x1, x3}  SessionsOf <- MCSessionsOf  AgentHosts = {x1}
  SpecTasks = {x1, x2, x3}  SpecWorkers = {x1, x2}  NoWorker = NoWorker  NoKey = NoKey
  IdempotencyKey <- MCIdempotencyKey  SpecPriority <- MCSpecPriority  SpecAge <- MCSpecAge  Able <- MCAble
 
PROPERTIES NoneTwice 
CHECK_DEADLOCK FALSE
