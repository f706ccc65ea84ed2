----------------------------- MODULE AgentKeys -----------------------------
(***************************************************************************)
(* registry_redis.py over redis_client.py: the same agents as hashes with  *)
(* a TTL.  HSET and EXPIRE are two commands, and a beat looks first        *)
(* whether the hash is there.                                              *)
(***************************************************************************)
EXTENDS Naturals, FiniteSets

CONSTANTS
  KeyAgents,
  MaxKeyDeaths   \* bound

ASSUME AgentKeysAssumption == MaxKeyDeaths \in Nat

VARIABLES
  keyRun,     \* out, in, beating: EXISTS said yes, hset: EXPIRE is still to come, stopping, dead
  agentKey    \* none; kept: the hash has no TTL; timed

agentKeyVars == <<keyRun, agentKey>>

AgentKeysTypeOK ==
  /\ keyRun \in [KeyAgents -> {"out", "in", "beating", "hset", "stopping", "dead"}]
  /\ agentKey \in [KeyAgents -> {"none", "kept", "timed"}]

AgentKeysInit ==
  /\ keyRun = [a \in KeyAgents |-> "out"]
  /\ agentKey = [a \in KeyAgents |-> "none"]

KeyRuns(a, from, to) == keyRun[a] = from /\ keyRun' = [keyRun EXCEPT ![a] = to]
KeyIs(a, s) == agentKey' = [agentKey EXCEPT ![a] = s]
KeyHset(a) == KeyIs(a, IF agentKey[a] = "none" THEN "kept" ELSE agentKey[a])

\* register_agent
KeyRegister(a) == KeyRuns(a, "out", "hset") /\ KeyHset(a)

\* Mutant: a beat without EXPIRE.
KeyBeatKept(a) == KeyRuns(a, "beating", "in") /\ KeyHset(a)

\* heartbeat: without a hash it returns False, which nobody looks at.
KeyBeat(a) ==
  /\ agentKey[a] # "none"
  /\ KeyRuns(a, "in", "beating")
  /\ UNCHANGED agentKey
KeyBeatHset(a) == KeyRuns(a, "beating", "hset") /\ KeyHset(a)

\* update_agent does not look.
KeyUpdate(a) == KeyRuns(a, "in", "hset") /\ KeyHset(a)

\* The EXPIRE of register_agent, heartbeat and update_agent.
KeyExpire(a) ==
  /\ KeyRuns(a, "hset", "in")
  /\ KeyIs(a, IF agentKey[a] = "none" THEN "none" ELSE "timed")

KeyUnregister(a) ==
  \/ KeyRuns(a, "in", "stopping") /\ UNCHANGED agentKey
  \/ KeyRuns(a, "stopping", "out") /\ KeyIs(a, "none")

\* AGENT_TTL passes.
KeyTimesOut(a) ==
  /\ agentKey[a] = "timed"
  /\ KeyIs(a, "none")
  /\ UNCHANGED keyRun
KeyAgentDies(a) ==
  /\ keyRun[a] \notin {"out", "dead"}
  /\ Cardinality({b \in KeyAgents : keyRun[b] = "dead"}) < MaxKeyDeaths
  /\ keyRun' = [keyRun EXCEPT ![a] = "dead"]
  /\ UNCHANGED agentKey

AgentKeysNext ==
  \E a \in KeyAgents :
    \/ KeyRegister(a) \/ KeyBeat(a) \/ KeyBeatHset(a) \/ KeyUpdate(a) \/ KeyExpire(a)
    \/ KeyUnregister(a) \/ KeyTimesOut(a) \/ KeyAgentDies(a)

-----------------------------------------------------------------------------
\* "Redis TTL handles staleness": a hash without a TTL is one whose agent is
\* about to set it, or died before, which is the one way to be listed for ever.
KeysExpire == \A a \in KeyAgents : agentKey[a] = "kept" => keyRun[a] \in {"hset", "dead"}
=============================================================================
