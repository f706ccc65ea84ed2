SPECIFICATION RecoverySpec
CONSTANTS
  w1 = w1  w2 = w2  w3 = w3  r1 = r1  r2 = r2  t1 = t1  t2 = t2
  i1 = i1  i2 = i2  i3 = i3  i4 = i4  i5 = i5
  Workers = {w1}
  Recoverers = {r1, r2}
  Tasks = {t1}
  Inodes = {i1, i2, i3}
  NoInode = NoInode  NoTask = NoTask  Nobody = Nobody
  Recovery = {"cleanup", "requeue"}
  Silent = {w1}
  MaxRetries = 1  MaxDeaths = 0  MaxOutages = 1
  x1 = x1  x2 = x2  x3 = x3
  Clients = {x1, x2}  NoClient = NoClient  MaxFailovers = 2  MaxLedgerWrites = 1  MaxMirror = 3
  Runs = {x1, x2}  NoRun = NoRun  RemoteRetries = 1  MaxSecond = 1  MaxStarts = 3  MaxCallerDeaths = 1
  Dispatches = {x1, x2}  RatedHosts = {x3}  Raters = {x1, x2}  TimeoutTicks = 2  MaxRatingClock = 2
  KeyAgents = {x1, x2}  MaxKeyDeaths = 1
  Reporters = {x1, x2}  Resolver = x3  NoCaller = NoCaller  MaxReports = 1
  Mails = {x1, x2, x3}  MailFrom <- MCMailFrom  MailTo <- MCMailTo  MailHosts = {x1, x2}
  Everybody = Everybody  RuleMails = {x1, x2}  MaxMailSecond = 1
SYMMETRY Symmetry
INVARIANTS BoundsKept  DuplicateOnlyInTransit
CHECK_DEADLOCK FALSE
