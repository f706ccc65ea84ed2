SPECIFICATION RpcFair
CONSTANTS
  a1 = a1  a2 = a2  o1 = o1  v1 = v1  m1 = m1  m2 = m2  c1 = c1
  Agents = {a1, a2}  Channel = Channel
  Nobody = Nobody  NoMsg = NoMsg  Idle = Idle
  Msgs = {m1, m2, c1}  To <- MCTo  Calls = {c1}  Streamed = {}  Chunks = 1
  Watchers = {v1}  Operators = {o1}  Silent = {a1}
  N = 3  MaxFaults = 1  MaxJobs = 2  MaxSent = 1
CONSTRAINT Apart
INVARIANTS RpcTypeOK MessagesKept HeartbeatingReachable ResolvedIsGone HeardWasAnswered
PROPERTIES MessagesArrive
CHECK_DEADLOCK FALSE
