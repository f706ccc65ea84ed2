------------------------------- MODULE MCTasks -------------------------------
(***************************************************************************)
(* What creates, splits, hands out and watches tasks beside the file board *)
(* (TaskBoard), each with a small instance.  As in MCServices a behaviour  *)
(* runs one of the components, which share no state in these models.       *)
(***************************************************************************)
EXTENDS RedisBoard, SubTasks, WorkIntake, AutoDispatch, HealthMonitor, HostStatus, SpecQueue

CONSTANTS x1, x2, x3   \* tasks, workers, hosts, alarms
ASSUME Names == Cardinality({x1, x2, x3}) = 3

\* The task x1 may be decomposed into the other; x1 is urgent, the others are
\* three tiers below it; the alarm x1 is about the share, x2 about a metric;
\* two sessions run on the host x1; x3 of the queue of swarm_spec has no key.
MCSubsOf == [t \in RedisTasks |-> IF t = x1 THEN RedisTasks \ {x1} ELSE {}]
MCTierOf == [t \in AutoTasks |-> IF t = x1 THEN 0 ELSE 3]
MCSessionsOf == [h \in StatusHosts |-> IF h = x1 THEN {x1, x2} ELSE {x3}]
MCIdempotencyKey == [t \in SpecTasks |-> IF t = x3 THEN NoKey ELSE 1]
MCSpecPriority == [t \in SpecTasks |-> IF t = x1 THEN 1 ELSE 2]
MCSpecAge == [t \in SpecTasks |-> 0]
MCAble == [w \in SpecWorkers |-> IF w = x1 THEN SpecTasks ELSE SpecTasks \ {x1}]
MCKindOf == [t \in Alarms |-> IF t = x1 THEN "nfs" ELSE "prom"]

VARIABLE part   \* the component that runs in this behaviour

tasksVars == <<part, redisVars, subVars, intakeVars, autoVars, healthVars, hostVars, specVars>>

On(p) == part = p
\* The components share no state: the others stay as they are.
Stays(p, v) == IF part = p THEN TRUE ELSE UNCHANGED v
OthersStay ==
  /\ UNCHANGED part
  /\ Stays("redisTasks", redisVars) /\ Stays("subTasks", subVars)
  /\ Stays("intake", intakeVars) /\ Stays("dispatcher", autoVars)
  /\ Stays("monitor", healthVars) /\ Stays("hosts", hostVars) /\ Stays("specQueue", specVars)

TasksInit ==
  /\ part \in {"redisTasks", "subTasks", "intake", "dispatcher", "monitor", "hosts", "specQueue"}
  /\ RedisBoardInit /\ SubInit /\ IntakeInit /\ AutoInit /\ HealthInit
  /\ HostStatusInit /\ SpecQueueInit

TasksNext ==
  \/ On("redisTasks") /\ RedisBoardNext /\ OthersStay
  \/ On("subTasks") /\ SubNext /\ OthersStay
  \/ On("intake") /\ IntakeNext /\ OthersStay
  \/ On("dispatcher") /\ AutoNext /\ OthersStay
  \/ On("monitor") /\ HealthNext /\ OthersStay
  \/ On("hosts") /\ HostStatusNext /\ OthersStay
  \/ On("specQueue") /\ SpecQueueNext /\ OthersStay

\* The fairness of the components, each where it runs.
TasksFairness ==
  /\ \A w \in RedisWorkers :
       /\ WF_redisVars(On("redisTasks") /\ RedisGoesOn(w))
       /\ WF_redisVars(On("redisTasks") /\ RedisEnds(w))
  /\ SF_redisVars(On("redisTasks") /\ \E w \in RedisWorkers, t \in RedisTasks : ClaimNext(w, t))
  /\ \A h \in SubHosts : WF_subVars(On("subTasks") /\ SubStep(h))
  /\ \A k \in Subs : WF_subVars(On("subTasks") /\ RequeueSub(k))
  /\ \A t \in AutoTasks : WF_autoVars(On("dispatcher") /\ DeadlineRequeues(t))
  /\ WF_healthVars(On("monitor") /\ MonitorStep) /\ WF_healthVars(On("monitor") /\ ChecksEnd)
  /\ WF_healthVars(On("monitor") /\ MinutesPass)
  /\ WF_healthVars(On("monitor") /\ shareHangs /\ ShareFlips)
  /\ \A s \in Sessions : WF_hostVars(On("hosts") /\ HookStep(s))
  /\ \A h \in StatusHosts :
       WF_hostVars(On("hosts") /\ StatusAges(h)) /\ WF_hostVars(On("hosts") /\ AgentRecord(h))

TasksSpec == TasksInit /\ [][TasksNext]_tasksVars /\ TasksFairness

-----------------------------------------------------------------------------
\* The types, and: no task falls out of the stores or is handed out twice,
\* in Redis (redis_client, task_queue), among the files of a decomposed parent
\* (swarm_lib), and between a scan and its tasks (work_generator); and passes
\* that overlap claim no more than a cap each (auto_dispatch); and late calls do not
\* duplicate or revive tasks of the queue of swarm_spec.
TasksKept ==
  /\ RedisBoardTypeOK /\ SubTypeOK /\ IntakeTypeOK /\ AutoTypeOK /\ HealthTypeOK
  /\ HostStatusTypeOK /\ SpecTypeOK
  /\ RedisFindable /\ ScriptClaimsOnce
  /\ ParentKept /\ ParentAfterSubs
  /\ SeenIsProposed
  /\ CapPerPass
  /\ OnePerKey /\ DiscardedRest /\ HolderOnRecord

\* A task number is given once although the directories are listed one after
\* the other (swarm_lib), and a remediation runs once in a cooldown although
\* monitors crash and lose their files (health_monitor).
NoneTwice == FreshNumbers /\ OncePerCooldown

\* What was taken up is finished or handed back: tasks in Redis, decomposed
\* parents, tasks claimed for a dispatch that failed, and alarms;
\* and a host where nobody runs any more is shown so (swarm_lib).
TasksSettle ==
  /\ On("redisTasks") => RedisSettles
  /\ On("subTasks") => ParentSettles
  /\ On("dispatcher") => ClaimedInVainReturns
  /\ On("monitor") => AlarmsHandled
  /\ On("hosts") => EmptyHostsShown
=============================================================================
