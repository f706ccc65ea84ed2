SPECIFICATION FairSpec
CONSTANTS
  c1 = c1  c2 = c2  c3 = c3  o1 = o1  t1 = t1  t2 = t2
  Claimers = {c1, c2}
  Operators = {o1}
  Tasks = {t1, t2}
  Nobody = Nobody  NoTask = NoTask
  Rank <- TwoRanks  Needs <- GpuNeeds  Has <- GpuHas
  Facade = FALSE  Sweeps = TRUE  ByHand = FALSE
  MaxDeaths = 1
INVARIANT TypeOK
PROPERTIES ImplementsLifecycle FirstResultStays NoDoubleBooking UnstartedComesBack
CHECK_DEADLOCK FALSE
