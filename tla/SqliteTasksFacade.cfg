SPECIFICATION Spec
CONSTANTS
  c1 = c1  c2 = c2  c3 = c3  o1 = o1  t1 = t1  t2 = t2
  Claimers = {c1, c2}
  Operators = {o1}
  Tasks = {t1}
  Nobody = Nobody  NoTask = NoTask
  Rank <- OneRank  Needs <- NoNeeds  Has <- GpuHas
  Facade = TRUE  Sweeps = FALSE  ByHand = FALSE
  MaxDeaths = 0
PROPERTY NoDoubleBooking
CHECK_DEADLOCK FALSE
