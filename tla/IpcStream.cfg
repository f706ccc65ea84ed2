SPECIFICATION RpcSpec
CONSTANTS
  a1 = a1  a2 = a2  o1 = o1  v1 = v1  m1 = m1  m2 = m2  c1 = c1
  Agents = {a1, a2}  Channel = Channel
  Nobody = Nobody  NoMsg = NoMsg  Idle = Idle
  Msgs = {c1}  To <- MCTo  Calls = {c1}  Streamed = {c1}  Chunks = 1
  Watchers = {}  Operators = {}  Silent = {}
  N = 1  MaxFaults = 0  MaxJobs = 0  MaxSent = 1
INVARIANTS StreamComplete
CHECK_DEADLOCK FALSE
