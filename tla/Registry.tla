------------------------------ MODULE Registry ------------------------------
(***************************************************************************)
(* The agents of the swarm: their files under agents/ (registry.py), the   *)
(* sessions that register, beat and deregister them (session.py), and the  *)
(* cleanup of stale ones with its tracker file.                            *)
(***************************************************************************)
EXTENDS Naturals, FiniteSets

CONSTANTS
  Agents,
  StaleMissCount,   \* STALE_MISS_COUNT
  MaxAgentDeaths    \* bound

ASSUME RegistryAssumption ==
  StaleMissCount \in Nat \ {0} /\ MaxAgentDeaths \in Nat

VARIABLES
  agentRun,     \* out, in a session, stopping, late: left in the middle of a beat, or dead
  agentFile,    \* none, fresh, stale
  missCount,    \* .stale-tracker.json
  cleaner       \* of cleanup_stale: where it is, the counts it read first and
                \* those it is to save, and the agents still to be removed

registryVars == <<agentRun, agentFile, missCount, cleaner>>

Counts == [Agents -> 0..StaleMissCount]   \* 0: no entry; the count stops mattering there
NoCounts == [a \in Agents |-> 0]
Resting == [at |-> "rest", old |-> NoCounts, new |-> NoCounts, todo |-> {}, cleaned |-> {}]

RegistryTypeOK ==
  /\ agentRun \in [Agents -> {"out", "in", "stopping", "late", "dead"}]
  /\ agentFile \in [Agents -> {"none", "fresh", "stale"}]
  /\ missCount \in Counts
  /\ cleaner \in [at : {"rest", "loaded", "seen", "remove"}, old : Counts, new : Counts,
                  todo : SUBSET Agents, cleaned : SUBSET Agents]

RegistryInit ==
  /\ agentRun = [a \in Agents |-> "out"]
  /\ agentFile = [a \in Agents |-> "none"]
  /\ missCount = NoCounts
  /\ cleaner = Resting

-----------------------------------------------------------------------------
AgentGoes(a, from, to) == agentRun[a] = from /\ agentRun' = [agentRun EXCEPT ![a] = to]
FileIs(a, s) == agentFile' = [agentFile EXCEPT ![a] = s]

\* SwarmSession.start: register() and the heartbeat thread.
SessionStart(a) ==
  /\ AgentGoes(a, "out", "in")
  /\ FileIs(a, "fresh")
  /\ UNCHANGED <<missCount, cleaner>>

\* heartbeat() and update_agent() write the file, whether it is there or not.
FileBeat(a) ==
  /\ AgentGoes(a, "in", "in")
  /\ FileIs(a, "fresh")
  /\ UNCHANGED <<missCount, cleaner>>

\* end() or the exit handler: _cleanup() waits five seconds for the thread,
\* and removes the file; the thread may still be in the middle of a write.
SessionStop(a) ==
  /\ AgentGoes(a, "in", "stopping")
  /\ UNCHANGED <<agentFile, missCount, cleaner>>
FileDeregister(a) ==
  /\ \E to \in {"out", "late"} : AgentGoes(a, "stopping", to)
  /\ FileIs(a, "none")
  /\ UNCHANGED <<missCount, cleaner>>
LateBeat(a) ==
  /\ AgentGoes(a, "late", "out")
  /\ FileIs(a, "fresh")
  /\ UNCHANGED <<missCount, cleaner>>

\* No beat for STALE_THRESHOLD: the agent is gone, or its host hangs.
FileAges(a) ==
  /\ agentFile[a] = "fresh"
  /\ FileIs(a, "stale")
  /\ UNCHANGED <<agentRun, missCount, cleaner>>
AgentDies(a) ==
  /\ agentRun[a] \notin {"out", "dead"}
  /\ Cardinality({b \in Agents : agentRun[b] = "dead"}) < MaxAgentDeaths
  /\ agentRun' = [agentRun EXCEPT ![a] = "dead"]
  /\ UNCHANGED <<agentFile, missCount, cleaner>>

-----------------------------------------------------------------------------
\* cleanup_stale reads the tracker; get_stale_agents reads it again, looks at
\* every file, ...
CleanLoad ==
  /\ cleaner.at = "rest"
  /\ cleaner' = [Resting EXCEPT !.at = "loaded", !.old = missCount]
  /\ UNCHANGED <<agentRun, agentFile, missCount>>
Counted(a) ==
  CASE agentFile[a] = "none"  -> missCount[a]
    [] agentFile[a] = "fresh" -> 0
    [] agentFile[a] = "stale" -> IF missCount[a] < StaleMissCount THEN missCount[a] + 1 ELSE missCount[a]
CleanScan ==
  /\ cleaner.at = "loaded"
  /\ LET new == [a \in Agents |-> Counted(a)]
     IN  cleaner' = [cleaner EXCEPT !.at = "seen", !.new = new,
                       !.todo = {a \in Agents : agentFile[a] = "stale" /\ new[a] = StaleMissCount}]
  /\ UNCHANGED <<agentRun, agentFile, missCount>>

\* ... and saves its counts.
CleanSave ==
  /\ cleaner.at = "seen"
  /\ missCount' = cleaner.new
  /\ cleaner' = [cleaner EXCEPT !.at = "remove", !.new = NoCounts]
  /\ UNCHANGED <<agentRun, agentFile>>
CleanRemove(a) ==
  /\ cleaner.at = "remove" /\ a \in cleaner.todo
  /\ FileIs(a, "none")
  /\ cleaner' = [cleaner EXCEPT !.todo = @ \ {a}, !.cleaned = @ \union {a}]
  /\ UNCHANGED <<agentRun, missCount>>

\* Mutant: the counts that were read first are saved every time.
CleanEndAlways ==
  /\ cleaner.at = "remove" /\ cleaner.todo = {}
  /\ missCount' = [a \in Agents |-> IF a \in cleaner.cleaned THEN 0 ELSE cleaner.old[a]]
  /\ cleaner' = Resting
  /\ UNCHANGED <<agentRun, agentFile>>

\* Only if it removed somebody, cleanup_stale saves the counts it read first:
\* what the scan counted or reset for the others is undone.
CleanEnd ==
  /\ cleaner.at = "remove" /\ cleaner.todo = {}
  /\ missCount' = IF cleaner.cleaned = {} THEN missCount
                  ELSE [a \in Agents |-> IF a \in cleaner.cleaned THEN 0 ELSE cleaner.old[a]]
  /\ cleaner' = Resting
  /\ UNCHANGED <<agentRun, agentFile>>

-----------------------------------------------------------------------------
RegistryNext ==
  \/ \E a \in Agents :
       \/ SessionStart(a) \/ FileBeat(a) \/ SessionStop(a) \/ FileDeregister(a) \/ LateBeat(a)
       \/ FileAges(a) \/ AgentDies(a) \/ CleanRemove(a)
  \/ CleanLoad \/ CleanScan \/ CleanSave \/ CleanEnd

CleanStep == CleanLoad \/ CleanScan \/ CleanSave \/ CleanEnd \/ \E a \in Agents : CleanRemove(a)

\* Sessions beat and calls end, time passes, and somebody cleans up.
RegistryFairness ==
  /\ \A a \in Agents : WF_registryVars(FileBeat(a)) /\ WF_registryVars(FileAges(a))
  /\ WF_registryVars(CleanStep)

-----------------------------------------------------------------------------
\* A dead agent leaves the registry, although the cleanups that remove
\* others take back what they counted for it.
DeadAgentsLeave ==
  \A a \in Agents :
    (agentRun[a] = "dead" /\ agentFile[a] # "none") ~> agentFile[a] = "none"

\* An agent that is removed while it lives, because it beat between the scan
\* and the removal, is registered again.
LivingComeBack ==
  \A a \in Agents : agentRun[a] = "in" ~> (agentRun[a] # "in" \/ agentFile[a] = "fresh")
=============================================================================
