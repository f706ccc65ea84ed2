----------------------------- MODULE AutoDispatch -----------------------------
(***************************************************************************)
(* auto_dispatch.py: a pass looks at the pending tasks in the order of     *)
(* their tiers, preempts for a P0, counts the claimed ones, and claims and *)
(* dispatches while there is room.  The scheduler and the command line     *)
(* start passes of their own, each with a new AutoDispatcher; the deadline *)
(* rule of the health monitor brings back what was claimed in vain.        *)
(***************************************************************************)
EXTENDS Naturals, FiniteSets

CONSTANTS
  AutoTasks,
  TierOf,           \* 0..5: P0 to P5
  CheapTasks,       \* those of the model tier that every mode allows
  Estimated,        \* those with estimated_minutes, which have a deadline
  AutoHosts,
  NoTask,
  Passes,           \* process_pending_tasks calls that may run at once
  MaxConcurrent,    \* max_concurrent_dispatches
  FailureLimit,     \* QUARANTINE_FAILURE_THRESHOLD
  MaxAutoRetries    \* of requeue_task

ASSUME AutoAssumption ==
  /\ IsFiniteSet(AutoTasks) /\ IsFiniteSet(Passes) /\ AutoHosts # {}
  /\ TierOf \in [AutoTasks -> 0..5]
  /\ CheapTasks \subseteq AutoTasks /\ Estimated \subseteq AutoTasks /\ NoTask \notin AutoTasks
  /\ {MaxConcurrent, FailureLimit} \subseteq Nat \ {0} /\ MaxAutoRetries \in Nat

VARIABLES
  autoTask,      \* where each task is
  autoRetries,
  autoAgent,     \* tasks that an agent works on
  autoPass

autoVars == <<autoTask, autoRetries, autoAgent, autoPass>>

NoPass == [at |-> "rest", todo |-> {}, victims |-> {}, active |-> 0, task |-> NoTask,
           host |-> CHOOSE h \in AutoHosts : TRUE, failures |-> [h \in AutoHosts |-> 0]]

AutoTypeOK ==
  /\ autoTask \in [AutoTasks -> {"pending", "claimed", "completed", "preempted"}]
  /\ autoRetries \in [AutoTasks -> 0..MaxAutoRetries]
  /\ autoAgent \subseteq AutoTasks
  /\ autoPass \in [Passes -> [at : {"rest", "urgent", "interrupt", "counted", "dispatch"},
                              todo : SUBSET AutoTasks, victims : SUBSET AutoTasks, active : 0..MaxConcurrent,
                              task : AutoTasks \union {NoTask}, host : AutoHosts,
                              failures : [AutoHosts -> 0..FailureLimit]]]

AutoInit ==
  /\ autoTask = [t \in AutoTasks |-> "pending"]
  /\ autoRetries = [t \in AutoTasks |-> 0]
  /\ autoAgent = {}
  /\ autoPass = [d \in Passes |-> NoPass]

-----------------------------------------------------------------------------
AutoIn(stage) == {t \in AutoTasks : autoTask[t] = stage}
PassIs(d, r) == autoPass' = [autoPass EXCEPT ![d] = r]
PassEnds(d) == PassIs(d, NoPass)

\* A new dispatcher reads the mode, which set_mode changes at any time, and
\* goes on when it is not off and a human was seen; it ranks what is pending.
\* Tasks whose model the mode does not allow are skipped, but may be urgent.
AutoAllowed(m) == IF m = "full" THEN AutoTasks ELSE CheapTasks
PassStart(d) ==
  /\ autoPass[d].at = "rest" /\ AutoIn("pending") # {}
  /\ \E m \in {"haiku_only", "full"} :
       PassIs(d, [NoPass EXCEPT !.at = IF \E p \in AutoIn("pending") : TierOf[p] = 0
                                         THEN "urgent" ELSE "interrupt",
                                !.todo = AutoIn("pending") \intersect AutoAllowed(m)])
  /\ UNCHANGED <<autoTask, autoRetries, autoAgent>>

\* interrupt_for_priority for a P0 of the list: the claimed tasks two tiers
\* below it are listed, ...
PassInterrupts(d) ==
  /\ autoPass[d].at = "urgent"
  /\ PassIs(d, [autoPass[d] EXCEPT !.at = "interrupt",
                   !.victims = {t \in AutoIn("claimed") : TierOf[t] >= 2}])
  /\ UNCHANGED <<autoTask, autoRetries, autoAgent>>

\* ... and moved away from under their agents, if they are still there.
PassPreempts(d, t) ==
  /\ autoPass[d].at = "interrupt" /\ t \in autoPass[d].victims
  /\ autoTask' = IF autoTask[t] = "claimed" THEN [autoTask EXCEPT ![t] = "preempted"] ELSE autoTask
  /\ PassIs(d, [autoPass[d] EXCEPT !.victims = @ \ {t}])
  /\ UNCHANGED <<autoRetries, autoAgent>>

\* The claimed tasks are counted once.
PassCounts(d) ==
  /\ autoPass[d].at = "interrupt" /\ autoPass[d].victims = {}
  /\ LET active == Cardinality(AutoIn("claimed"))
     IN  IF active >= MaxConcurrent THEN PassEnds(d)
         ELSE PassIs(d, [autoPass[d] EXCEPT !.at = "counted", !.active = active])
  /\ UNCHANGED <<autoTask, autoRetries, autoAgent>>

\* The next task: skipped, if no host has what it requires, or if that host is
\* in quarantine.
First(d) == {t \in autoPass[d].todo : \A u \in autoPass[d].todo : TierOf[t] <= TierOf[u]}
PassSkips(d, t) ==
  /\ autoPass[d].at = "counted" /\ autoPass[d].active < MaxConcurrent /\ t \in First(d)
  /\ PassIs(d, [autoPass[d] EXCEPT !.todo = @ \ {t}])
  /\ UNCHANGED <<autoTask, autoRetries, autoAgent>>

\* claim_task; one that is no longer pending is skipped, ...
PassClaims(d, t) ==
  /\ autoPass[d].at = "counted" /\ autoPass[d].active < MaxConcurrent /\ t \in First(d)
  /\ autoTask[t] = "pending"
  /\ \E h \in AutoHosts :
       /\ autoPass[d].failures[h] < FailureLimit
       /\ PassIs(d, [autoPass[d] EXCEPT !.at = "dispatch", !.todo = @ \ {t}, !.task = t, !.host = h])
  /\ autoTask' = [autoTask EXCEPT ![t] = "claimed"]
  /\ UNCHANGED <<autoRetries, autoAgent>>

\* Mutant: a dispatch does not count before the next pass.
PassDispatchesUncounted(d) ==
  /\ autoPass[d].at = "dispatch"
  /\ autoAgent' = autoAgent \union {autoPass[d].task}
  /\ PassIs(d, [autoPass[d] EXCEPT !.at = "counted", !.task = NoTask])
  /\ UNCHANGED <<autoTask, autoRetries>>

\* ... and dispatch(), which starts an agent, fails, or raises; a task whose
\* dispatch failed stays claimed.
PassDispatches(d) ==
  /\ autoPass[d].at = "dispatch"
  /\ LET h == autoPass[d].host
         next(failures) ==
           IF autoPass[d].active + 1 >= MaxConcurrent THEN PassEnds(d)
           ELSE PassIs(d, [autoPass[d] EXCEPT !.at = "counted", !.task = NoTask,
                             !.active = @ + 1, !.failures[h] = failures])
     IN  \/ autoAgent' = autoAgent \union {autoPass[d].task} /\ next(0)
         \/ next(autoPass[d].failures[h] + 1) /\ UNCHANGED autoAgent
         \/ PassEnds(d) /\ UNCHANGED autoAgent
  /\ UNCHANGED <<autoTask, autoRetries>>

\* A pass ends with its list, or because it dies.
PassStops(d) ==
  /\ autoPass[d].at # "rest"
  /\ PassEnds(d)
  /\ UNCHANGED <<autoTask, autoRetries, autoAgent>>

-----------------------------------------------------------------------------
\* The agent ends: the task is completed on its behalf, or stays claimed; one
\* that was preempted or requeued works on until then.
AgentEnds(t) ==
  /\ t \in autoAgent
  /\ autoAgent' = autoAgent \ {t}
  /\ \/ UNCHANGED autoTask
     \/ autoTask[t] = "claimed" /\ autoTask' = [autoTask EXCEPT ![t] = "completed"]
  /\ UNCHANGED <<autoRetries, autoPass>>

\* Mutant: only tasks with a process to kill are requeued.
DeadlineRequeuesOwned(t) ==
  /\ autoTask[t] = "claimed" /\ t \in Estimated \intersect autoAgent /\ autoRetries[t] < MaxAutoRetries
  /\ autoTask' = [autoTask EXCEPT ![t] = "pending"]
  /\ autoRetries' = [autoRetries EXCEPT ![t] = @ + 1]
  /\ UNCHANGED <<autoAgent, autoPass>>

\* The rule task_deadline, twice the estimate after the claim.
DeadlineRequeues(t) ==
  /\ autoTask[t] = "claimed" /\ t \in Estimated /\ autoRetries[t] < MaxAutoRetries
  /\ autoTask' = [autoTask EXCEPT ![t] = "pending"]
  /\ autoRetries' = [autoRetries EXCEPT ![t] = @ + 1]
  /\ UNCHANGED <<autoAgent, autoPass>>

AutoNext ==
  \/ \E d \in Passes :
       \/ PassStart(d) \/ PassInterrupts(d) \/ PassCounts(d) \/ PassDispatches(d) \/ PassStops(d)
       \/ \E t \in AutoTasks : PassPreempts(d, t) \/ PassSkips(d, t) \/ PassClaims(d, t)
  \/ \E t \in AutoTasks : AgentEnds(t) \/ DeadlineRequeues(t)

\* The monitor runs the rule.
AutoFairness == \A t \in AutoTasks : WF_autoVars(DeadlineRequeues(t))

-----------------------------------------------------------------------------
\* The count is taken once and the claims follow: overlapping passes exceed
\* max_concurrent, but never by more than one cap each.
CapPerPass == Cardinality(AutoIn("claimed")) <= MaxConcurrent * Cardinality(Passes)

\* A task claimed for a dispatch that failed, raised or died, or whose agent
\* ended in vain, does not stay claimed, as long as it has a deadline and
\* retries left.
ClaimedInVainReturns ==
  \A t \in Estimated :
    (autoTask[t] = "claimed" /\ t \notin autoAgent /\ autoRetries[t] < MaxAutoRetries)
      ~> (autoTask[t] # "claimed" \/ autoRetries[t] = MaxAutoRetries)
=============================================================================
