SPECIFICATION Spec
CONSTANTS
  plan = plan  test = test  check = check  back = back  side = side  cli = cli
  g1 = g1  g2 = g2  h1 = h1  NoGpu = NoGpu  NoCall = NoCall
  Calls = {plan, test, check, back, side}
  Stages = {plan, test, check}
  Detached = {back, side}
  Tracked = {back, side}
  Pollers = {cli}
  Twins = {test}
  Gpus = {g1, g2}
  HostOf <- MCHostOf
  Wants <- MCWants
  Needs <- MCNeeds
  LoopTo <- MCLoopTo
  MaxIter = 2
  Apart = TRUE
  MaxId = 5
  MaxFaults = 1
INVARIANTS TypeOK RowsOwned WorktreeKept  CompletedMeansAll
CHECK_DEADLOCK FALSE
PROPERTIES StageAfterNeeds PipelineEnds EndsNoticed
