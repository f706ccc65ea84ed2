---------------------------- MODULE HealthMonitor ----------------------------
(***************************************************************************)
(* The health monitor (health_monitor.py) with its rules, remediations and *)
(* event log: a cycle runs the checks of all rules in a small pool, and    *)
(* what they find is acted on, at most once in a cooldown, and logged.     *)
(* Ages stand for the times that are compared with the cooldown; an alarm  *)
(* is a rule together with the host that it found.                         *)
(***************************************************************************)
EXTENDS Naturals, FiniteSets, Sequences, SequencesExt

CONSTANTS
  Alarms,
  KindOf,            \* nfs: the check reads the share; prom: a query; down: Prometheus itself
  Blocked,           \* alarms whose service is not on the allowlist
  PoolSize,          \* threads of the executor
  Cooldown,
  MissCount,         \* miss_count of the rule prometheus_down
  MaxMonitorFaults,  \* bound: outages of the share and of Prometheus, lost files, crashes
  MaxPool            \* bound: checks waiting

ASSUME HealthAssumption ==
  /\ KindOf \in [Alarms -> {"nfs", "prom", "down", "local"}]
  /\ Blocked \subseteq Alarms /\ IsFiniteSet(Alarms)
  /\ {PoolSize, Cooldown, MissCount} \subseteq Nat \ {0} /\ {MaxMonitorFaults, MaxPool} \subseteq Nat

VARIABLES
  faulty,       \* the alarms whose condition is met
  shareHangs,   \* reads of the share do not return
  promGone,     \* Prometheus does not answer
  promMisses,   \* _prom_consecutive_failures
  pool,         \* the executor: the first PoolSize entries run
  monitor,      \* where the main thread is
  lastAction,   \* the age of an alarm's last action in memory, file and log,
                \* and the truth: when it was last acted on
  unsaved,      \* the last save of the cooldowns failed
  forgotten,    \* alarms acted on without any record left after crashes
  monitorFaults

healthVars == <<faulty, shareHangs, promGone, promMisses, pool, monitor, lastAction, unsaved,
                forgotten, monitorFaults>>

Never == Cooldown + 1                \* no entry
Places == {"memory", "file", "log", "truth"}
MonitorIdle == [at |-> "rest", waits |-> {}, found |-> {}, alarm |-> "none", acted |-> FALSE]

HealthTypeOK ==
  /\ faulty \subseteq Alarms
  /\ {shareHangs, promGone, unsaved} \subseteq BOOLEAN
  /\ promMisses \in 0..MissCount
  /\ pool \in Seq([alarm : Alarms, fresh : BOOLEAN]) /\ Len(pool) <= MaxPool
  /\ monitor \in [at : {"rest", "cycle", "act", "record", "log", "crashed"}, waits : SUBSET Alarms,
                  found : SUBSET Alarms, alarm : Alarms \union {"none"}, acted : BOOLEAN]
  /\ lastAction \in [Places -> [Alarms -> 0..Never]]
  /\ forgotten \subseteq Alarms
  /\ monitorFaults \in 0..MaxMonitorFaults

HealthInit ==
  /\ faulty = {} /\ shareHangs = FALSE /\ promGone = FALSE /\ promMisses = 0
  /\ pool = <<>>
  /\ monitor = MonitorIdle
  /\ lastAction = [p \in Places |-> [a \in Alarms |-> Never]]
  /\ unsaved = FALSE
  /\ forgotten = {} /\ monitorFaults = 0

-----------------------------------------------------------------------------
worldVars == <<faulty, shareHangs, promGone>>
ghostVars == <<unsaved, forgotten, monitorFaults>>
Aged(p, a, age) == lastAction' = [lastAction EXCEPT ![p][a] = age]

\* _run_cycle: Prometheus is asked once for all rules, its failures are
\* counted, and a check is submitted for every rule; queries only when it
\* answers.  Sequences of checks are in the order of RULES.
Submitted == IF promGone THEN {a \in Alarms : KindOf[a] # "prom"} ELSE Alarms
CycleStart ==
  /\ monitor.at = "rest"
  /\ Len(pool) + Cardinality(Submitted) <= MaxPool
  /\ promMisses' = IF ~promGone THEN 0 ELSE IF promMisses < MissCount THEN promMisses + 1 ELSE promMisses
  /\ pool' = pool \o [i \in 1..Cardinality(Submitted) |->
                        [alarm |-> SetToSeq(Submitted)[i], fresh |-> TRUE]]
  /\ monitor' = [MonitorIdle EXCEPT !.at = "cycle", !.waits = Submitted]
  /\ UNCHANGED <<worldVars, lastAction, ghostVars>>

PromCheck(a) == a \in faulty /\ ~promGone
DownCheck(a) == promMisses = MissCount
ShareCheck(a) == a \in faulty
LocalCheck(a) == a \in faulty
Triggered(a) ==
  CASE KindOf[a] = "prom"  -> PromCheck(a)
    [] KindOf[a] = "down"  -> DownCheck(a)
    [] KindOf[a] = "nfs"   -> ShareCheck(a)
    [] KindOf[a] = "local" -> LocalCheck(a)

\* Mutant: a check that its cycle has given up keeps its thread.
CheckEndsFresh(i) ==
  /\ i \in 1..PoolSize /\ i <= Len(pool) /\ pool[i].fresh
  /\ ~(KindOf[pool[i].alarm] = "nfs" /\ shareHangs)
  /\ pool' = RemoveAt(pool, i)
  /\ LET a == pool[i].alarm
     IN  monitor' = [monitor EXCEPT !.waits = @ \ {a},
                       !.found = IF Triggered(a) THEN @ \union {a} ELSE @]
  /\ UNCHANGED <<worldVars, promMisses, lastAction, ghostVars>>

\* A check ends in one of the threads; what it finds is for the cycle that
\* submitted it.
CheckEnds(i) ==
  /\ i \in 1..PoolSize /\ i <= Len(pool)
  /\ ~(KindOf[pool[i].alarm] = "nfs" /\ shareHangs)
  /\ pool' = RemoveAt(pool, i)
  /\ LET a == pool[i].alarm
     IN  monitor' = IF ~pool[i].fresh THEN monitor
                    ELSE [monitor EXCEPT !.waits = @ \ {a},
                            !.found = IF Triggered(a) THEN @ \union {a} ELSE @]
  /\ UNCHANGED <<worldVars, promMisses, lastAction, ghostVars>>

\* as_completed gives up after 45 seconds: the cycle ends, its checks still
\* occupy the pool, and their results go nowhere.
CycleEnd ==
  /\ monitor.at = "cycle" /\ monitor.found = {}
  /\ \/ monitor.waits = {}
     \/ \E i \in 1..Len(pool) : KindOf[pool[i].alarm] = "nfs" /\ shareHangs
  /\ monitor' = MonitorIdle
  /\ pool' = [i \in 1..Len(pool) |-> [pool[i] EXCEPT !.fresh = FALSE]]
  /\ UNCHANGED <<worldVars, promMisses, lastAction, ghostVars>>

-----------------------------------------------------------------------------
\* Mutant: only the memory is asked.
InCooldownMemory(a) == lastAction["memory"][a] < Cooldown

\* _in_cooldown: the memory, and the event log for what is not in it.
InCooldown(a) ==
  LET last == IF lastAction["memory"][a] = Never THEN "log" ELSE "memory"
  IN  lastAction[last][a] < Cooldown

\* _handle_triggered: skipped, or acted on.
HandleSkip(a) ==
  /\ monitor.at = "cycle" /\ a \in monitor.found /\ InCooldown(a)
  /\ monitor' = [monitor EXCEPT !.at = "log", !.alarm = a, !.found = @ \ {a}, !.acted = FALSE]
  /\ UNCHANGED <<worldVars, promMisses, pool, lastAction, ghostVars>>
HandleAct(a) ==
  /\ monitor.at = "cycle" /\ a \in monitor.found /\ ~InCooldown(a)
  /\ monitor' = [monitor EXCEPT !.at = "act", !.alarm = a, !.found = @ \ {a}]
  /\ UNCHANGED <<worldVars, promMisses, pool, lastAction, ghostVars>>

\* RemediationEngine.execute, whatever its result; the allowlist raises
\* ValueError, and then nothing is recorded but the event.
Execute ==
  /\ monitor.at = "act"
  /\ Aged("truth", monitor.alarm, 0)
  /\ monitor' = [monitor EXCEPT !.at = IF monitor.alarm \in Blocked THEN "log" ELSE "record",
                                !.acted = TRUE]
  /\ UNCHANGED <<worldVars, promMisses, pool, ghostVars>>

\* _record_action; a save that fails is passed over.
RecordAction ==
  /\ monitor.at = "record"
  /\ LET memory == [lastAction["memory"] EXCEPT ![monitor.alarm] = 0]
     IN  \/ /\ lastAction' = [lastAction EXCEPT !["memory"] = memory, !["file"] = memory]
            /\ unsaved' = FALSE /\ UNCHANGED monitorFaults
         \/ /\ monitorFaults < MaxMonitorFaults
            /\ lastAction' = [lastAction EXCEPT !["memory"] = memory]
            /\ unsaved' = TRUE /\ monitorFaults' = monitorFaults + 1
  /\ monitor' = [monitor EXCEPT !.at = "log"]
  /\ UNCHANGED <<worldVars, promMisses, pool, forgotten>>

\* EventLog.record; last_action_time looks only at events with an action.
LogEvent ==
  /\ monitor.at = "log"
  /\ IF monitor.acted THEN Aged("log", monitor.alarm, 0) ELSE UNCHANGED lastAction
  /\ monitor' = [monitor EXCEPT !.at = "cycle", !.alarm = "none", !.acted = FALSE]
  /\ UNCHANGED <<worldVars, promMisses, pool, ghostVars>>

-----------------------------------------------------------------------------
\* Between two cycles the ages grow; what they are beyond the cooldown makes
\* no difference.
Older(age) == IF age < Cooldown THEN age + 1 ELSE age
MinutesPass ==
  /\ monitor.at = "rest"
  /\ lastAction' = [p \in Places |-> [a \in Alarms |-> Older(lastAction[p][a])]]
  /\ UNCHANGED <<worldVars, promMisses, pool, monitor, ghostVars>>

HealthFault == monitorFaults < MaxMonitorFaults /\ monitorFaults' = monitorFaults + 1
AlarmFlips(a) ==
  /\ KindOf[a] # "down"
  /\ faulty' = IF a \in faulty THEN faulty \ {a} ELSE faulty \union {a}
  /\ UNCHANGED <<shareHangs, promGone, promMisses, pool, monitor, lastAction, ghostVars>>
ShareFlips ==
  /\ IF shareHangs THEN UNCHANGED monitorFaults ELSE HealthFault
  /\ shareHangs' = ~shareHangs
  /\ UNCHANGED <<faulty, promGone, promMisses, pool, monitor, lastAction, unsaved, forgotten>>
PromFlips ==
  /\ IF promGone THEN UNCHANGED monitorFaults ELSE HealthFault
  /\ promGone' = ~promGone
  /\ UNCHANGED <<faulty, shareHangs, promMisses, pool, monitor, lastAction, unsaved, forgotten>>

MonitorCrashes ==
  /\ monitor.at # "crashed" /\ HealthFault
  /\ forgotten' = forgotten
       \union (IF monitor.at = "record" \/ (monitor.at = "log" /\ monitor.alarm \in Blocked)
                 THEN {monitor.alarm} ELSE {})
       \union (IF unsaved THEN Alarms ELSE {})
  /\ monitor' = [monitor EXCEPT !.at = "crashed", !.waits = {}, !.found = {}]
  /\ pool' = <<>>
  /\ UNCHANGED <<worldVars, promMisses, lastAction, unsaved>>

\* __init__ after a restart: _load_cooldowns, or nothing if the file cannot
\* be read; then an action whose event a crash kept out of the log, this one
\* or an earlier one, is forgotten, too.
Unlogged == {a \in Alarms : lastAction["truth"][a] < lastAction["log"][a]}
MonitorRestarts ==
  /\ monitor.at = "crashed"
  /\ \/ /\ lastAction' = [lastAction EXCEPT !["memory"] = lastAction["file"]]
        /\ UNCHANGED <<forgotten, monitorFaults>>
     \/ /\ HealthFault
        /\ lastAction' = [lastAction EXCEPT !["memory"] = [a \in Alarms |-> Never]]
        /\ forgotten' = forgotten \union Unlogged
  /\ monitor' = MonitorIdle
  /\ promMisses' = 0 /\ unsaved' = FALSE
  /\ UNCHANGED <<worldVars, pool>>

MonitorStep ==
  \/ CycleStart \/ CycleEnd \/ Execute \/ RecordAction \/ LogEvent \/ MonitorRestarts
  \/ \E a \in Alarms : HandleSkip(a) \/ HandleAct(a)
ChecksEnd == \E i \in 1..PoolSize : CheckEnds(i)

HealthNext ==
  \/ MonitorStep \/ ChecksEnd \/ MinutesPass
  \/ ShareFlips \/ PromFlips \/ MonitorCrashes
  \/ \E a \in Alarms : AlarmFlips(a)

\* The daemon and its threads go on, and the share comes back.
HealthFairness ==
  /\ WF_healthVars(MonitorStep) /\ WF_healthVars(ChecksEnd)
  /\ WF_healthVars(MinutesPass) /\ WF_healthVars(shareHangs /\ ShareFlips)

-----------------------------------------------------------------------------
\* "An action is not repeated within its cooldown", across restarts and with
\* the file of cooldowns lost, except where a crash came between the action
\* and the first record of it, the last save had failed, or the file was lost
\* while a crash had kept the event out of the log.
OncePerCooldown ==
  [][\A a \in Alarms :
       (lastAction'["truth"][a] = 0 /\ monitor.at = "act" /\ monitor.alarm = a) =>
         lastAction["truth"][a] >= Cooldown \/ a \in forgotten]_healthVars

\* A condition that lasts is acted on, also after the checks of a hanging
\* share have filled the pool for several cycles.
AlarmsHandled ==
  \A a \in Alarms :
    (a \in faulty /\ lastAction["truth"][a] >= Cooldown)
      ~> (a \notin faulty \/ lastAction["truth"][a] < Cooldown \/ promGone)
=============================================================================
