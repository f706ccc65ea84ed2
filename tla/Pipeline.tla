------------------------------- MODULE Pipeline -------------------------------
(***************************************************************************)
(* PipelineExecutor.execute of pipeline.py on top of dispatch(): the       *)
(* stages run batch by batch in dependency order, the stages of a batch in *)
(* parallel threads, each as a synchronous call; a stage that fails alone  *)
(* in its batch may send the pipeline back to an earlier stage.            *)
(***************************************************************************)
EXTENDS BackgroundRegistry

CONSTANTS
  Stages,   \* calls that a pipeline makes
  Needs,    \* depends_on of each stage
  LoopTo,   \* loop_to of each stage, or NoCall
  MaxIter,  \* max_iterations
  Apart     \* bound: no background dispatches beside a pipeline

ASSUME PipelineAssumption ==
  /\ Stages \subseteq Calls \ Detached
  /\ Needs \in [Stages -> SUBSET Stages]
  /\ LoopTo \in [Stages -> Stages \union {NoCall}]
  /\ \A s \in Stages : LoopTo[s] # s
  /\ MaxIter \in Nat /\ Apart \in BOOLEAN

\* validate() refuses a dependency cycle: any set of stages has one that needs no other of it.
ASSUME AcyclicAssumption ==
  \A S \in SUBSET Stages : S # {} => \E s \in S : Needs[s] \intersect S = {}

VARIABLES
  exec,    \* off; next: before a batch; running; completed or failed
  ordered, \* stages in the batches so far
  batch,   \* stages of the batch
  round,   \* stages under way: the batch, or one of the two stages of a loop
  todo,    \* those of the round that have not started
  iter,    \* the loop's iteration
  verdict, \* result of each stage's last execution
  passed,  \* stages that completed at least once
  ctx      \* context.outputs: the call whose output was recalled for a stage

pipelineVars == <<exec, ordered, batch, round, todo, iter, verdict, passed, ctx>>
vars == <<dispatchVars, registryVars, pipelineVars>>

PipelineTypeOK ==
  /\ exec \in {"off", "next", "running", "completed", "failed"}
  /\ ordered \subseteq Stages /\ batch \subseteq ordered
  /\ round \subseteq Stages /\ todo \subseteq round
  /\ iter \in (0..MaxIter) \union {1}
  /\ verdict \in [Stages -> {"none", "ok", "bad"}]
  /\ passed \subseteq Stages
  /\ ctx \in [Stages -> Calls \union {NoCall}]

TypeOK == DispatchTypeOK /\ RegistryTypeOK /\ PipelineTypeOK

Init ==
  /\ DispatchInit /\ RegistryInit
  /\ exec \in {"off", "next"}
  /\ ordered = {} /\ batch = {} /\ round = {} /\ todo = {}
  /\ iter = 0
  /\ verdict = [s \in Stages |-> "none"]
  /\ passed = {}
  /\ ctx = [s \in Stages |-> NoCall]

-----------------------------------------------------------------------------
(* Executing a pipeline *)

\* Mutant: every stage that has not been ordered is ready.
ReadyAll == Stages \ ordered

\* topological_order; a dependency cycle, which validate() refuses, has no next batch.
Ready == {s \in Stages \ ordered : Needs[s] \subseteq ordered}

NextBatch ==
  /\ exec = "next"
  /\ IF Ready = {}
     THEN exec' = "completed" /\ UNCHANGED <<ordered, batch, round, todo, iter>>
     ELSE /\ exec' = "running"
          /\ ordered' = ordered \union Ready
          /\ batch' = Ready /\ round' = Ready /\ todo' = Ready
          /\ iter' = 1
  /\ UNCHANGED <<dispatchVars, registryVars, verdict, passed, ctx>>

\* execute_stage: the prompt is rendered, and dispatch() called.
StartStage(s) ==
  /\ exec = "running" /\ s \in todo
  /\ Begin(s)
  /\ todo' = todo \ {s}
  /\ UNCHANGED <<registryVars, exec, ordered, batch, round, iter, verdict, passed, ctx>>

\* No host has what the stage requires: it fails without a call.
NoHost(s) ==
  /\ exec = "running" /\ s \in todo /\ MayFail(s)
  /\ faulty' = faulty \union {s}
  /\ todo' = todo \ {s}
  /\ verdict' = [verdict EXCEPT ![s] = "bad"]
  /\ ctx' = [ctx EXCEPT ![s] = NoCall]
  /\ call' = [call EXCEPT ![s] = [Outside EXCEPT !.at = "done", !.id = call[s].id]]
  /\ UNCHANGED <<clock, rows, trees, job, record, pidfile, output, registryVars,
                 exec, ordered, batch, round, iter, passed>>

\* Mutant: an exception of dispatch() is not caught, and ends the thread.
CollectReturned(s) ==
  /\ exec = "running" /\ s \in round \ todo
  /\ call[s].at = "returned"
  /\ LET ok == call[s].result = "completed"
     IN  /\ verdict' = [verdict EXCEPT ![s] = IF ok THEN "ok" ELSE "bad"]
         /\ ctx' = [ctx EXCEPT ![s] = IF ok THEN output[call[s].id] ELSE NoCall]
         /\ passed' = IF ok THEN passed \union {s} ELSE passed
  /\ call' = [call EXCEPT ![s] = [Outside EXCEPT !.at = "done", !.id = call[s].id]]
  /\ job' = [job EXCEPT ![s] = IF @ = "running" THEN @ ELSE "none"]
  /\ UNCHANGED <<clock, rows, trees, record, pidfile, output, faulty, registryVars,
                 exec, ordered, batch, round, todo, iter>>

\* The end of execute_stage: the output is recalled from the file of the dispatch id.
\* What is left of the call, an ended process included, is forgotten.
Collect(s) ==
  /\ exec = "running" /\ s \in round \ todo
  /\ call[s].at \in {"returned", "dead"}
  /\ LET ok == call[s].at = "returned" /\ call[s].result = "completed"
     IN  /\ verdict' = [verdict EXCEPT ![s] = IF ok THEN "ok" ELSE "bad"]
         /\ ctx' = [ctx EXCEPT ![s] = IF ok THEN output[call[s].id] ELSE NoCall]
         /\ passed' = IF ok THEN passed \union {s} ELSE passed
  /\ call' = [call EXCEPT ![s] = [Outside EXCEPT !.at = "done", !.id = call[s].id]]
  /\ job' = [job EXCEPT ![s] = IF @ = "running" THEN @ ELSE "none"]
  /\ UNCHANGED <<clock, rows, trees, record, pidfile, output, faulty, registryVars,
                 exec, ordered, batch, round, todo, iter>>

\* Mutant: the last result of a parallel batch overwrites the failure of an earlier one.
SucceededLast == \E s \in batch : verdict[s] = "ok"

RoundOver == exec = "running" /\ todo = {} /\ \A s \in round : call[s].at = "done"
Succeeded == \A s \in batch : verdict[s] = "ok"

\* A stage that failed alone in its batch, with iterations left, goes back to LoopTo.
MayLoop(s) == batch = {s} /\ verdict[s] = "bad" /\ LoopTo[s] # NoCall /\ iter < MaxIter

Again(s) == round' = {s} /\ todo' = {s}

Loop ==
  /\ RoundOver /\ round = batch
  /\ \E s \in batch : MayLoop(s) /\ Again(LoopTo[s])
  /\ iter' = iter + 1
  /\ UNCHANGED <<dispatchVars, registryVars, exec, ordered, batch, verdict, passed, ctx>>

\* The re-run of the earlier stage is not looked at before the later one is run again.
BackFromLoop ==
  /\ RoundOver /\ round # batch
  /\ \E s \in batch : Again(s)
  /\ UNCHANGED <<dispatchVars, registryVars, exec, ordered, batch, iter, verdict, passed, ctx>>

BatchOver ==
  /\ RoundOver /\ round = batch
  /\ \A s \in batch : ~MayLoop(s)
  /\ exec' = IF Succeeded THEN "next" ELSE "failed"
  /\ UNCHANGED <<dispatchVars, registryVars, ordered, batch, round, todo, iter, verdict, passed, ctx>>

-----------------------------------------------------------------------------
(* The system *)

\* Calls outside of a pipeline.
Start(d) ==
  /\ d \notin Stages /\ call[d].at = "off"
  /\ Apart => exec = "off"
  /\ Begin(d)
  /\ UNCHANGED <<registryVars, pipelineVars>>

CallStep(d)  == Step(d) /\ UNCHANGED <<registryVars, pipelineVars>>
CallFault(d) == Fault(d) /\ UNCHANGED <<registryVars, pipelineVars>>
AgentEnds(d) == JobEnds(d) /\ UNCHANGED <<registryVars, pipelineVars>>
Tracking(d)  == d \in Tracked /\ RegistryStep(d) /\ UNCHANGED pipelineVars
Polling(p)   == PollerStep(p) /\ UNCHANGED pipelineVars
Using(p)     == (Open(p) \/ Cancel(p) \/ Cleanup(p)) /\ UNCHANGED pipelineVars

PipelineStep ==
  \/ NextBatch \/ Loop \/ BackFromLoop \/ BatchOver
  \/ \E s \in Stages : StartStage(s) \/ NoHost(s) \/ Collect(s)

Next ==
  \/ \E d \in Calls :
       Start(d) \/ CallStep(d) \/ CallFault(d) \/ AgentEnds(d) \/ Tracking(d)
  \/ \E p \in Pollers : Polling(p) \/ Using(p)
  \/ PipelineStep

\* While a call or a pipeline can go on, one of them does: a process that runs goes on,
\* and an agent that is waited for ends or is killed when its time is up.  Nobody has
\* to call dispatch() or the registry, but a poller that polls goes on doing so.
Fairness ==
  /\ WF_vars(PipelineStep \/ \E d \in Calls : CallStep(d) \/ Tracking(d))
  /\ \A p \in Pollers : WF_vars(Polling(p))

Spec == Init /\ [][Next]_vars /\ Fairness

-----------------------------------------------------------------------------
(* What a pipeline promises *)

\* A stage starts only after every stage it depends on has completed, through failures
\* of parallel stages and loops.  It is so where loops go back to a stage that was needed,
\* as those of the pipelines there are: validate() does not look at loop_to, and a loop to
\* a later stage would run that one before what it depends on.
StageAfterNeeds ==
  [][\A s \in Stages : ~InProgress(s) /\ InProgress(s)' => Needs[s] \subseteq passed]_vars

\* A pipeline that is reported completed ran every stage, each completed, and the stage
\* that was sent back for did complete in the end.
CompletedMeansAll ==
  exec = "completed" =>
    /\ passed = Stages
    /\ \A s \in Stages : verdict[s] # "ok" => \E t \in Stages : LoopTo[t] = s

\* Every pipeline ends, through failures, time-outs and loops.
PipelineEnds == exec = "next" ~> exec \in {"completed", "failed"}

\* The output of a stage that later stages get ("output text from a named stage") is
\* what that stage wrote.
StageGetsOwnOutput == \A s \in Stages : ctx[s] \in {s, NoCall}

=============================================================================
