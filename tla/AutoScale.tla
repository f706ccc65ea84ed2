------------------------------ MODULE AutoScale ------------------------------
(***************************************************************************)
(* launcher.py and rate_limiter.py: an AutoScaler counts the pending tasks *)
(* and the agents that beat, and starts one Claude instance per cooldown   *)
(* with a profile that has not run into a limit.  An instance counts as an *)
(* agent only once it has registered.                                      *)
(***************************************************************************)
EXTENDS Naturals, FiniteSets

CONSTANTS
  Instances,       \* names for the instances that run at one time
  Profiles,
  Backlogs,        \* sizes of the queue, a set of numbers
  QueueThreshold,  \* 3
  MaxInstances,    \* 5
  SpawnCooldown,   \* in ticks of the clock
  MaxLimit         \* bound on the length of a limit, in ticks

ASSUME ScaleAssumption ==
  /\ IsFiniteSet(Instances) /\ Backlogs \subseteq Nat
  /\ {QueueThreshold, MaxInstances, SpawnCooldown, MaxLimit} \subseteq Nat

VARIABLES
  backlog,    \* the number of files in tasks/pending
  instance,   \* none, starting, live, or gone with its heartbeat still recent
  untilSpawn, \* ticks until spawn_cooldown has passed since _last_spawn_time
  limit,      \* RateLimitTracker._limits: the last event of a profile, and the ticks it has left
  counted,    \* what check_and_scale has counted: [queue, agents], or not
  spawnedPids \* _spawned_pids

scaleVars == <<backlog, instance, untilSpawn, limit, counted, spawnedPids>>

NotCounted == [queue |-> 0, agents |-> 0, is |-> FALSE]
ScaleTypeOK ==
  /\ backlog \in Backlogs
  /\ instance \in [Instances -> {"none", "starting", "live", "gone"}]
  /\ untilSpawn \in 0..SpawnCooldown
  /\ limit \in [Profiles -> [kind : {"never", "timed", "permanent"}, left : 0..MaxLimit]]
  /\ counted \in [queue : Backlogs \union {0}, agents : 0..Cardinality(Instances), is : BOOLEAN]
  /\ spawnedPids \subseteq Instances

ScaleInit ==
  /\ backlog \in Backlogs
  /\ instance = [i \in Instances |-> "none"]
  /\ untilSpawn = 0
  /\ limit = [p \in Profiles |-> [kind |-> "never", left |-> 0]]
  /\ counted = NotCounted
  /\ spawnedPids = {}

-----------------------------------------------------------------------------
\* get_active_agent_count: the heartbeats younger than five minutes.
ActiveAgents == Cardinality({i \in Instances : instance[i] \in {"live", "gone"}})

\* Mutant: an event of a profile counts after its cooldown too.
AvailableNeverLimited(p) == limit[p].kind = "never"

\* is_available: no event, or one whose cooldown is over; 0.0 is permanent.
Available(p) == limit[p].kind # "permanent" /\ limit[p].left = 0

\* get_best_profile: one that never had a limit if there is one.
BestProfiles ==
  LET available == {p \in Profiles : Available(p)}
      neverLimited == {p \in available : limit[p].kind = "never"}
  IN  IF neverLimited # {} THEN neverLimited ELSE available

\* check_and_scale, its two counts.
CountQueue ==
  /\ ~counted.is
  /\ counted' = [queue |-> backlog, agents |-> ActiveAgents, is |-> TRUE]
  /\ UNCHANGED <<backlog, instance, untilSpawn, limit, spawnedPids>>

\* should_scale, on what was counted.
ShouldScale ==
  /\ counted.queue >= QueueThreshold
  /\ counted.agents < MaxInstances
  /\ untilSpawn = 0
  /\ \E p \in Profiles : Available(p)

\* spawn_instance; Popen may fail, and the cooldown then does not start.  The
\* PIDs stay until somebody asks for the status.
Spawns(i, cooldown) ==
  /\ instance[i] = "none" /\ BestProfiles # {}
  /\ instance' = [instance EXCEPT ![i] = "starting"]
  /\ untilSpawn' = cooldown
  /\ spawnedPids' = spawnedPids \union {i}

\* Mutant: the time of the last spawn is not kept.
ScaleHasty ==
  /\ counted.is /\ ShouldScale
  /\ \E i \in Instances : Spawns(i, 0)
  /\ counted' = NotCounted
  /\ UNCHANGED <<backlog, limit>>

\* check_and_scale, when it scales up.
ScaleUp ==
  /\ counted.is /\ ShouldScale
  /\ \E i \in Instances : Spawns(i, SpawnCooldown)
  /\ counted' = NotCounted
  /\ UNCHANGED <<backlog, limit>>
SpawnFails ==
  /\ counted.is /\ ShouldScale
  /\ counted' = NotCounted
  /\ UNCHANGED <<backlog, instance, untilSpawn, limit, spawnedPids>>

NoScale ==
  /\ counted.is /\ ~ShouldScale
  /\ counted' = NotCounted
  /\ UNCHANGED <<backlog, instance, untilSpawn, limit, spawnedPids>>

\* detect_rate_limit and record: the last event of a profile replaces the one
\* before, a permanent one included.
RecordLimit(p) ==
  /\ \E event \in [kind : {"timed"}, left : 1..MaxLimit] \union [kind : {"permanent"}, left : {0}] :
       limit' = [limit EXCEPT ![p] = event]
  /\ UNCHANGED <<backlog, instance, untilSpawn, counted, spawnedPids>>

\* cleanup_dead_processes, which status calls.
CleanupPids ==
  /\ spawnedPids' = {i \in spawnedPids : instance[i] \in {"starting", "live"}}
  /\ UNCHANGED <<backlog, instance, untilSpawn, limit, counted>>

-----------------------------------------------------------------------------
\* An instance registers, and ends; a dead agent's heartbeat grows old.
InstanceRegisters(i) ==
  /\ instance[i] = "starting" /\ instance' = [instance EXCEPT ![i] = "live"]
  /\ UNCHANGED <<backlog, untilSpawn, limit, counted, spawnedPids>>
InstanceEnds(i) ==
  /\ instance[i] = "live" /\ instance' = [instance EXCEPT ![i] = "gone"]
  /\ UNCHANGED <<backlog, untilSpawn, limit, counted, spawnedPids>>
HeartbeatOld(i) ==
  /\ instance[i] = "gone" /\ instance' = [instance EXCEPT ![i] = "none"]
  /\ UNCHANGED <<backlog, untilSpawn, limit, counted, spawnedPids>>
BacklogChanges ==
  /\ backlog' \in Backlogs
  /\ UNCHANGED <<instance, untilSpawn, limit, counted, spawnedPids>>

\* A tick: instances register within a cooldown, and a check takes no time.
LimitTick ==
  /\ ~counted.is
  /\ untilSpawn = 1 => \A i \in Instances : instance[i] # "starting"
  /\ untilSpawn' = IF untilSpawn = 0 THEN 0 ELSE untilSpawn - 1
  /\ limit' = [p \in Profiles |-> [limit[p] EXCEPT !.left = IF @ = 0 THEN 0 ELSE @ - 1]]
  /\ UNCHANGED <<backlog, instance, counted, spawnedPids>>

ScaleNext ==
  \/ CountQueue \/ ScaleUp \/ SpawnFails \/ NoScale \/ CleanupPids
  \/ \E p \in Profiles : RecordLimit(p)
  \/ \E i \in Instances : InstanceRegisters(i) \/ InstanceEnds(i) \/ HeartbeatOld(i)
  \/ BacklogChanges \/ LimitTick

\* The loop goes on checking, time passes, instances register, and Popen does
\* not fail for ever.
ScaleFairness ==
  /\ WF_scaleVars(CountQueue) /\ WF_scaleVars(NoScale)
  /\ SF_scaleVars(ScaleUp) /\ SF_scaleVars(LimitTick)
  /\ \A i \in Instances : WF_scaleVars(InstanceRegisters(i))

-----------------------------------------------------------------------------
\* "max concurrent agents": no more instances are started and alive than the
\* limit, although one that is starting is not counted.
InstancesBounded ==
  Cardinality({i \in Instances : instance[i] \in {"starting", "live"}}) <= MaxInstances

\* A queue over the threshold gets an instance, unless it is served, the limit
\* of instances is reached or every profile is limited.
BacklogScales ==
  (backlog >= QueueThreshold) ~>
    \/ backlog < QueueThreshold
    \/ ActiveAgents >= MaxInstances
    \/ \E i \in Instances : instance[i] = "starting"
    \/ \A p \in Profiles : limit[p].kind = "permanent" \/ limit[p].left > 0
=============================================================================
