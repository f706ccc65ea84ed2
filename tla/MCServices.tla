----------------------------- MODULE MCServices -----------------------------
(***************************************************************************)
(* The components around the task board, each with a small instance.  They *)
(* share no state with each other, so a behaviour runs one of them, which  *)
(* part names, and the run covers the behaviours of each.                  *)
(***************************************************************************)
EXTENDS PromQuery, LockSlots, SlotQueue, RedisSlots, Registry, WorkerBeats,
        EventBus, BridgeStream, FleetGpuView, RemoteSession, AutoScale, Broker

CONSTANTS x1, x2, x3   \* users, threads, agents, hosts, ... of every component
ASSUME Names == Cardinality({x1, x2, x3}) = 3

\* Each thread checks a rule with a query of its own; x2 and x3 share a host.
MCQueryOf == [t \in Threads |-> t]
MCSlotHost == [u \in SlotUsers \union SlotSweepers |-> IF u = x1 THEN x1 ELSE x2]
MCQueueHost == [u \in Waiters |-> x1]
MCQueuePrio == [u \in Waiters |-> IF u = x1 THEN 1 ELSE 2]

VARIABLE part   \* the component that runs in this behaviour

servicesVars == <<part, promVars, slotVars, queueVars, redisSlotVars, registryVars, beatVars, busVars,
  bridgeVars, viewVars, remoteVars, scaleVars, brokerVars>>

On(p) == part = p
\* The components share no state: the others stay as they are.
Stays(p, v) == IF part = p THEN TRUE ELSE UNCHANGED v
OthersStay ==
  /\ UNCHANGED part
  /\ Stays("prom", promVars) /\ Stays("slot", slotVars) /\ Stays("queue", queueVars)
  /\ Stays("key", redisSlotVars) /\ Stays("registry", registryVars)
  /\ Stays("beats", beatVars) /\ Stays("events", busVars) /\ Stays("bridge", bridgeVars)
  /\ Stays("gpuView", viewVars) /\ Stays("remote", remoteVars) /\ Stays("scale", scaleVars)
  /\ Stays("broker", brokerVars)

ServicesInit ==
  /\ part \in {"prom", "slot", "queue", "key", "registry", "beats", "events", "bridge",
              "gpuView", "remote", "scale", "broker"}
  /\ PromInit /\ SlotInit /\ QueueInit /\ RedisSlotInit /\ RegistryInit /\ BeatsInit
  /\ BusInit /\ BridgeInit /\ ViewInit /\ RemoteInit /\ ScaleInit /\ BrokerInit
  /\ On("beats") \/ hbUp
  /\ On("scale") \/ backlog = 0

ServicesNext ==
  \/ On("prom") /\ PromNext /\ OthersStay
  \/ On("slot") /\ SlotNext /\ OthersStay
  \/ On("queue") /\ QueueNext /\ OthersStay
  \/ On("key") /\ RedisSlotNext /\ OthersStay
  \/ On("registry") /\ RegistryNext /\ OthersStay
  \/ On("beats") /\ BeatsNext /\ OthersStay
  \/ On("events") /\ BusNext /\ OthersStay
  \/ On("bridge") /\ BridgeNext /\ OthersStay
  \/ On("gpuView") /\ ViewNext /\ OthersStay
  \/ On("remote") /\ RemoteNext /\ OthersStay
  \/ On("scale") /\ ScaleNext /\ OthersStay
  \/ On("broker") /\ BrokerNext /\ OthersStay

\* The fairness of the components, each where it runs.
ServicesFairness ==
  /\ \A t \in Threads : WF_promVars(On("prom") /\ PromAsk(t))
  /\ \A i \in 1..CacheSize : WF_promVars(On("prom") /\ CacheExpire(i))
  /\ WF_promVars(On("prom") /\ CoolDown)
  /\ WF_slotVars(On("slot") /\ BeatAges) /\ WF_slotVars(On("slot") /\ DeadlinePasses)
  /\ \A u \in SlotUsers :
       /\ WF_slotVars(On("slot") /\ (SlotOpen(u) \/ SlotLock(u) \/ SlotWrite(u) \/ SlotClaimed(u)))
       /\ WF_slotVars(On("slot") /\ (BeatTruncate(u) \/ BeatWrite(u) \/ ReleaseClear(u)))
  /\ \A s \in SlotSweepers :
       WF_slotVars(On("slot") /\ SlotJudge(s)) /\ WF_slotVars(On("slot") /\ SlotClear(s))
  /\ \A u \in Waiters : WF_queueVars(On("queue") /\ QueueStep(u))
  /\ WF_queueVars(On("queue") /\ SlotOfDeadFreed)
  /\ WF_redisSlotVars(On("key") /\ KeyExpires)
  /\ \A n \in Agents :
       /\ WF_registryVars(On("registry") /\ FileBeat(n))
       /\ WF_registryVars(On("registry") /\ FileAges(n))
  /\ WF_registryVars(On("registry") /\ CleanStep)
  /\ \A s \in {"redis", "file"} : WF_beatVars(On("beats") /\ RecordAges(s))
  /\ WF_beatVars(On("beats") /\ RecordExpires) /\ WF_beatVars(On("beats") /\ ReapDead)
  /\ WF_busVars(On("events") /\ WatchStep)
  /\ \A h \in Pushers : WF_busVars(On("events") /\ (EventStamp(h) \/ EventWrite(h)))
  /\ \A p \in BridgeProcs : WF_bridgeVars(On("bridge") /\ ListenStep(p))
  /\ WF_viewVars(On("gpuView") /\ ReadFrom) /\ WF_viewVars(On("gpuView") /\ (ReadReturns \/ Apply))
  /\ \A r \in Runs :
       WF_remoteVars(On("remote") /\ AgentStops(r)) /\ WF_remoteVars(On("remote") /\ CallerLeaves(r))
  /\ \A s \in 0..MaxSecond : WF_remoteVars(On("remote") /\ CheckStatus(s))
  /\ WF_scaleVars(On("scale") /\ CountQueue) /\ WF_scaleVars(On("scale") /\ NoScale)
  /\ SF_scaleVars(On("scale") /\ ScaleUp) /\ SF_scaleVars(On("scale") /\ LimitTick)
  /\ \A i \in Instances : WF_scaleVars(On("scale") /\ InstanceRegisters(i))
  /\ \A w \in Workers : WF_brokerVars(On("broker") /\ GitSteps(w))

ServicesSpec == ServicesInit /\ [][ServicesNext]_servicesVars /\ ServicesFairness

-----------------------------------------------------------------------------
\* Every component's variables keep their types.
ServicesTypeOK ==
  /\ PromTypeOK /\ SlotTypeOK /\ QueueTypeOK /\ RedisSlotTypeOK /\ RegistryTypeOK
  /\ BeatsTypeOK /\ BusTypeOK /\ BridgeTypeOK /\ ViewTypeOK /\ RemoteTypeOK
  /\ ScaleTypeOK /\ BrokerTypeOK

\* What the code has against two users of one GPU slot: the flock around the
\* write of a lock file (gpu_slots.claim_slot), and a key in Redis that names
\* who holds it (gpu_slots_redis).
SlotsExclusive == WritersExclude /\ KeyNamesHolder

\* What is told or decided is so: a commit that was answered is at the origin
\* (credential_broker), an event goes to one callback (ipc_bridge), a host is
\* refused for the last news only (gpu_events_consumer), a closed breaker
\* starts afresh, and instances that are starting do not exceed the limit
\* although nobody counts them (launcher).
AnswersTrue ==
  AnsweredIsPushed /\ HandledOnce /\ RefusedForCause /\ ClosedForgets /\ InstancesBounded

\* A slot passes on: from one holder to the next only through being free
\* (Redis) and to the first of those who wait for it (the queue file); that
\* of a dead user comes back, by its PID, heartbeat or deadline, or by the
\* TTL; and the dead in the queue file do not stand in a waiter's way.
SlotsPassOn ==
  /\ ClaimsOnlyFree /\ FirstWins
  /\ On("slot") => SlotComesBack
  /\ On("key") => KeyComesBack
  /\ On("queue") => DeadDoNotBlock

\* Dead agents and workers are found, although cleanups undo each other's
\* counts; living ones that were removed come back, and a worker that pings is
\* called dead only while its last ping is out of reach.
AgentsTracked ==
  /\ VerdictsRight
  /\ On("registry") => DeadAgentsLeave /\ LivingComeBack
  /\ On("beats") => DeadFound

\* News arrives: pushes through the event bus, events through the bridge to
\* the IPC streams, and the GPU events of a host, each with the exceptions
\* its module names.
NewsArrives ==
  /\ On("events") => CommitsArrive
  /\ On("bridge") => EventsHandled
  /\ On("gpuView") => ViewCatchesUp

\* Whoever waits is served or told: a backlog (launcher), a client of the
\* broker, who started a remote run, and the rules once Prometheus is back.
WaitersServed ==
  /\ On("scale") => BacklogScales
  /\ On("broker") => CallsEnd
  /\ On("remote") => EndIsTold
  /\ On("prom") => PromRecovers
=============================================================================
