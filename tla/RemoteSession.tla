--------------------------- MODULE RemoteSession ---------------------------
(***************************************************************************)
(* remote_session.py: an execution plan, and its run on another host over  *)
(* ssh, in the background or while the caller waits.  The files of a run   *)
(* are named by the second and the host, so two runs may share them.  A    *)
(* run that fails or times out in the foreground has its task requeued;    *)
(* after a timeout the agent on the other host goes on.                    *)
(***************************************************************************)
EXTENDS Naturals, FiniteSets

CONSTANTS
  Runs,
  NoRun,
  RemoteRetries,   \* 3
  MaxSecond,       \* bound on the clock
  MaxStarts,       \* bound on started; above RemoteRetries + 1
  MaxCallerDeaths  \* bound

ASSUME RemoteAssumption ==
  NoRun \notin Runs /\ {RemoteRetries, MaxSecond, MaxStarts, MaxCallerDeaths} \subseteq Nat

VARIABLES
  second,
  run,        \* where the caller of a run is, its second, and what was planned
  agent,      \* the process of a run: none, works, good, bad; lost: its ssh was killed
  pidFile,    \* the run whose PID is in the .pid file of a second
  remoteTask, \* the directories of the one task the runs are for, and its _retries
  started,    \* foreground runs that were started for it
  told,       \* runs whose end check_dispatch_status has told
  shared      \* runs that have the files of their second in common

remoteVars == <<second, run, agent, pidFile, remoteTask, started, told, shared>>

Complexities == {"trivial", "simple", "moderate", "complex", "exploratory"}
Strategies == {"remote_dispatch", "remote_session"}
NotRun == [at |-> "new", id |-> 0, strategy |-> "remote_dispatch", limited |-> TRUE]

RemoteTypeOK ==
  /\ second \in 0..MaxSecond
  /\ run \in [Runs -> [at : {"new", "planned", "spawned", "watched", "left", "waits", "requeue", "written", "dead"},
                       id : 0..MaxSecond, strategy : Strategies, limited : BOOLEAN]]
  /\ agent \in [Runs -> {"none", "works", "good", "bad", "lost"}]
  /\ pidFile \in [0..MaxSecond -> Runs \union {NoRun}]
  /\ remoteTask \in [in : SUBSET {"pending", "claimed", "completed"}, retries : 0..RemoteRetries]
  /\ started \in 0..MaxStarts
  /\ told \subseteq Runs /\ shared \subseteq Runs

RemoteInit ==
  /\ second = 0
  /\ run = [r \in Runs |-> NotRun]
  /\ agent = [r \in Runs |-> "none"]
  /\ pidFile = [s \in 0..MaxSecond |-> NoRun]
  /\ remoteTask = [in |-> {"pending"}, retries |-> 0]
  /\ started = 0
  /\ told = {} /\ shared = {}

-----------------------------------------------------------------------------
RunTo(r, from, to) == run[r].at = from /\ run' = [run EXCEPT ![r].at = to]
RunOver(r, from) == run[r].at = from /\ run' = [run EXCEPT ![r] = NotRun]

\* _needs_interactive: a keyword, or what is complex.
Interactive(c, keyword) == keyword \/ c \in {"complex", "exploratory"}

\* Mutant: complexity first, and only what is exploratory gets a session.
StrategyByComplexity(c, keyword) ==
  IF c = "exploratory" THEN "remote_session" ELSE "remote_dispatch"

\* plan_execution, for another host, without force_strategy
Strategy(c, keyword) ==
  IF Interactive(c, keyword) THEN "remote_session" ELSE "remote_dispatch"

\* turn_map: 0 is unlimited.
Limited(c, keyword) == ~Interactive(c, keyword)

\* execute_plan: a plan for another host is written to its file; a local one
\* goes back to the caller, and changes nothing.
\* The name of a run that is over serves for another once its agent has ended.
PlanRun(r) ==
  /\ run[r].at = "new" /\ agent[r] \in {"none", "good", "bad"}
  /\ \E c \in Complexities, keyword \in BOOLEAN :
       LET s == Strategy(c, keyword)
       IN  run' = [run EXCEPT ![r] = [at |-> "planned", id |-> second,
                                      strategy |-> s, limited |-> Limited(c, keyword)]]
  /\ agent' = [agent EXCEPT ![r] = "none"]
  /\ LET same == {q \in Runs \ {r} : run[q].at # "new" /\ run[q].id = second}
     IN  shared' = IF same = {} THEN shared \ {r} ELSE shared \union same \union {r}
  /\ UNCHANGED <<second, pidFile, remoteTask, started, told>>

\* In the background: Popen, and then the .pid file.
Spawned(r) ==
  /\ RunTo(r, "planned", "spawned")
  /\ agent' = [agent EXCEPT ![r] = "works"]
  /\ UNCHANGED <<second, pidFile, remoteTask, started, told, shared>>
PidWritten(r) ==
  /\ RunTo(r, "spawned", "watched")
  /\ pidFile' = [pidFile EXCEPT ![run[r].id] = r]
  /\ UNCHANGED <<second, agent, remoteTask, started, told, shared>>

\* In the foreground: subprocess.run.
RunAndWait(r) ==
  /\ "pending" \in remoteTask.in /\ started < MaxStarts
  /\ RunTo(r, "planned", "waits")
  /\ agent' = [agent EXCEPT ![r] = "works"]
  /\ remoteTask' = [remoteTask EXCEPT !.in = (@ \ {"pending"}) \union {"claimed"}]
  /\ started' = started + 1
  /\ UNCHANGED <<second, pidFile, told, shared>>

\* The agent ends; one that has a claimed task may have completed it.
AgentStops(r) ==
  /\ agent[r] \in {"works", "lost"}
  /\ \E how \in {"good", "bad"} :
       /\ agent' = [agent EXCEPT ![r] = how]
       /\ IF how = "good" /\ (run[r].at = "waits" \/ agent[r] = "lost") /\ "claimed" \in remoteTask.in
            THEN remoteTask' = [remoteTask EXCEPT !.in = (@ \ {"claimed"}) \union {"completed"}]
            ELSE UNCHANGED remoteTask
  /\ UNCHANGED <<second, run, pidFile, started, told, shared>>

RunReturns(r) ==
  /\ agent[r] \in {"good", "bad"}
  /\ IF agent[r] = "good" THEN RunOver(r, "waits") ELSE RunTo(r, "waits", "requeue")
  /\ UNCHANGED <<second, agent, pidFile, remoteTask, started, told, shared>>
\* TimeoutExpired kills the ssh client only.
RunTimesOut(r) ==
  /\ agent[r] = "works"
  /\ RunTo(r, "waits", "requeue")
  /\ agent' = [agent EXCEPT ![r] = "lost"]
  /\ UNCHANGED <<second, pidFile, remoteTask, started, told, shared>>

\* Mutant: the retry is not counted.
RequeueUncounted(r) ==
  /\ IF "claimed" \in remoteTask.in
       THEN RunTo(r, "requeue", "written") /\ remoteTask' = [remoteTask EXCEPT !.in = @ \union {"pending"}]
       ELSE RunOver(r, "requeue") /\ UNCHANGED remoteTask
  /\ UNCHANGED <<second, agent, pidFile, started, told, shared>>

\* _auto_requeue_task: a claimed task with retries left is written to pending, ...
RequeueTask(r) ==
  /\ IF "claimed" \in remoteTask.in /\ remoteTask.retries < RemoteRetries
       THEN /\ RunTo(r, "requeue", "written")
            /\ remoteTask' = [in |-> remoteTask.in \union {"pending"}, retries |-> remoteTask.retries + 1]
       ELSE RunOver(r, "requeue") /\ UNCHANGED remoteTask
  /\ UNCHANGED <<second, agent, pidFile, started, told, shared>>
\* ... and removed from claimed.
RequeueRemoves(r) ==
  /\ RunOver(r, "written")
  /\ remoteTask' = [remoteTask EXCEPT !.in = @ \ {"claimed"}]
  /\ UNCHANGED <<second, agent, pidFile, started, told, shared>>

\* The caller of a background run, a command, ends; until then the process of
\* the run stays as a zombie, which psutil calls running.
CallerLeaves(r) ==
  /\ RunTo(r, "watched", "left")
  /\ UNCHANGED <<second, agent, pidFile, remoteTask, started, told, shared>>
\* The process with the PID in the file of this second is gone.
Gone(s) ==
  /\ pidFile[s] # NoRun
  /\ agent[pidFile[s]] \in {"good", "bad"} /\ run[pidFile[s]].at \in {"left", "dead"}

\* Mutant: an end is only told of a run whose plan names a task, and no plan does.
CheckStatusOfTask(s) ==
  /\ Gone(s)
  /\ told' = told
  /\ UNCHANGED <<second, run, agent, pidFile, remoteTask, started, shared>>

\* check_dispatch_status: failed, once the process is gone, however it ended;
\* the plan file has no task_id, so nothing is requeued.
CheckStatus(s) ==
  /\ Gone(s)
  /\ told' = told \union {pidFile[s]}
  /\ UNCHANGED <<second, run, agent, pidFile, remoteTask, started, shared>>

\* The processes have sessions of their own, and outlive their caller.
CallerDies(r) ==
  /\ run[r].at \in {"spawned", "watched", "waits", "requeue", "written"}
  /\ Cardinality({q \in Runs : run[q].at = "dead"}) < MaxCallerDeaths
  /\ run' = [run EXCEPT ![r].at = "dead"]
  /\ UNCHANGED <<second, agent, pidFile, remoteTask, started, told, shared>>
RemoteSecond ==
  /\ second < MaxSecond /\ second' = second + 1
  /\ UNCHANGED <<run, agent, pidFile, remoteTask, started, told, shared>>

RemoteNext ==
  \/ \E r \in Runs :
       \/ PlanRun(r) \/ Spawned(r) \/ PidWritten(r) \/ RunAndWait(r) \/ AgentStops(r)
       \/ RunReturns(r) \/ RunTimesOut(r) \/ RequeueTask(r) \/ RequeueRemoves(r) \/ CallerLeaves(r) \/ CallerDies(r)
  \/ \E s \in 0..MaxSecond : CheckStatus(s)
  \/ RemoteSecond

\* Agents end, callers return, and somebody asks for the status.
RemoteFairness ==
  /\ \A r \in Runs : WF_remoteVars(AgentStops(r)) /\ WF_remoteVars(CallerLeaves(r))
  /\ \A s \in 0..MaxSecond : WF_remoteVars(CheckStatus(s))

-----------------------------------------------------------------------------
\* "straightforward task -- one-shot dispatch is sufficient": a one-shot
\* dispatch always has a limit of turns, and a session never.
OneShotLimited ==
  \A r \in Runs : run[r].limited <=> run[r].strategy = "remote_dispatch"

\* A task whose runs fail or time out is handed out once and RemoteRetries
\* times more, also when callers die between writing and removing it.
HandedOutBounded == started <= RemoteRetries + 1

\* The end of a background run is told to whoever asks, unless another run of
\* the same second took its files.
EndIsTold ==
  \A r \in Runs : run[r].at = "watched" ~> (r \in told \/ r \in shared)
=============================================================================
