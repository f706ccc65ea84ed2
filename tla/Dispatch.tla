------------------------------ MODULE Dispatch ------------------------------
(***************************************************************************)
(* dispatch() of hydra_dispatch.py with what it calls: the GPU scheduler   *)
(* (gpu_scheduler_v2.py over the tables of gpu_discovery.py), the git      *)
(* worktrees of worktree_dispatch.py, the ssh process that runs the agent, *)
(* and the files of the dispatch directory: record, PID and output.        *)
(*                                                                         *)
(* Every call runs in a process or thread of its own.  One SQL statement,  *)
(* one git or ssh command, one file written is a step.  Which GPU has room *)
(* is what nvidia-smi said: each schedule() asks again, so any unallocated *)
(* GPU may or may not have it.  A dispatch id is the host and the second   *)
(* of the call; all calls here go to one host, so the id is the second.    *)
(***************************************************************************)
EXTENDS Naturals, FiniteSets

CONSTANTS
  Calls,     \* the calls of dispatch() under way
  Detached,  \* those with background=True
  Twins,     \* those that may fall into the same second as the call before
  Gpus, NoGpu,
  HostOf,    \* the host a GPU is in
  NoCall,
  Wants,     \* what a call may ask for, see Plans
  MaxId,     \* bound: the seconds in which calls are made
  MaxFaults  \* bound: the calls that die, that a command fails, or that find no host

\* gpu: no GPU, one, or so much memory that GPUs may be combined; tree: project_dir is set.
Plans == [gpu : {"none", "one", "many"}, tree : BOOLEAN]
Ids   == 1..MaxId
Hosts == {HostOf[g] : g \in Gpus}

ASSUME CallsAssumption ==
  /\ Detached \subseteq Calls /\ Twins \subseteq Calls
  /\ NoCall \notin Calls /\ NoGpu \notin Gpus
  /\ Wants \in [Calls -> SUBSET Plans]
  /\ MaxId \in Nat /\ MaxFaults \in Nat

VARIABLES
  call,    \* where a call is, and its local variables
  clock,   \* the second of the latest call
  rows,    \* gpu_allocations with released_at NULL: <<gpu, call>>
  trees,   \* the worktree and branch of an id: the call that made it
  job,     \* the local ssh process of a call
  record,  \* <id>.yaml: status and exit_code
  pidfile, \* <id>.pid: the call whose process it names
  output,  \* <id>.output: the call whose output it holds
  faulty   \* calls that something of this kind happened to

dispatchVars == <<call, clock, rows, trees, job, record, pidfile, output, faulty>>

Scheduling == {"prefer", "best", "combine", "hosts", "each", "check", "insert", "undo"}
Starting   == {"tree", "record", "spawn", "pid", "run", "wait"}
Ending     == {"release", "merge", "final"}
InCall     == Scheduling \union Starting \union Ending

Outside ==
  [at |-> "off", goal |-> "best", aim |-> NoGpu, seen |-> {}, todo |-> {}, held |-> {},
   id |-> 0, plan |-> [gpu |-> "none", tree |-> FALSE], tree |-> FALSE, result |-> "running"]

NoRecord == [status |-> "none", exit |-> "unset"]

CallStates ==
  [at : {"off", "returned", "opened", "done", "dead"} \union InCall,
   goal : {"prefer", "best", "combine"}, aim : Gpus \union {NoGpu},
   seen : SUBSET Gpus, todo : SUBSET Gpus, held : SUBSET Gpus,
   id : 0..MaxId, plan : Plans, tree : BOOLEAN,
   result : {"running", "completed", "failed"}]

DispatchTypeOK ==
  /\ call \in [Calls -> CallStates]
  /\ clock \in 0..MaxId
  /\ rows \subseteq Gpus \X Calls
  /\ trees \in [Ids -> Calls \union {NoCall}]
  /\ job \in [Calls -> {"none", "running", "ok", "bad", "killed"}]
  /\ record \in [Ids -> [status : {"none", "running", "completed", "failed"},
                         exit : {"unset", "ok", "bad"}]]
  /\ pidfile \in [Ids -> Calls \union {NoCall}]
  /\ output \in [Ids -> Calls \union {NoCall}]
  /\ faulty \subseteq Calls

DispatchInit ==
  /\ call = [d \in Calls |-> Outside]
  /\ clock = 0
  /\ rows = {}
  /\ trees = [i \in Ids |-> NoCall]
  /\ job = [d \in Calls |-> "none"]
  /\ record = [i \in Ids |-> NoRecord]
  /\ pidfile = [i \in Ids |-> NoCall]
  /\ output = [i \in Ids |-> NoCall]
  /\ faulty = {}

-----------------------------------------------------------------------------
(* Helpers *)

Unallocated == {g \in Gpus : \A r \in rows : r[1] # g}
RowsOf(d) == {r \in rows : r[2] = d}

\* release_gpu closes every open row of the GPU, whoever opened it.
Release(g) == rows' = {r \in rows : r[1] # g}

MayFail(d) == d \in faulty \/ Cardinality(faulty) < MaxFaults

\* What schedule() tries after goal found no GPU.
After(c) ==
  CASE c.at = "prefer" \/ (c.at = "check" /\ c.goal = "prefer") -> "best"
    [] c.goal = "combine" /\ c.at = "check" -> "each"
    [] OTHER -> IF c.plan.gpu = "many" THEN "combine" ELSE "tree"

-----------------------------------------------------------------------------
(* Choosing an id, a host and GPUs *)

Begin(d) ==
  /\ call[d].at \in {"off", "done"}
  /\ \E i \in Ids, p \in Wants[d] :
       /\ i = clock + 1 \/ (d \in Twins /\ i = clock)
       /\ clock' = i
       /\ call' = [call EXCEPT ![d] = [Outside EXCEPT
                     !.at = IF p.gpu = "none" THEN "tree" ELSE "prefer", !.id = i, !.plan = p]]
  /\ job' = [job EXCEPT ![d] = "none"]
  /\ UNCHANGED <<rows, trees, record, pidfile, output, faulty>>

\* get_available_gpus for the preferred host, then for the whole fleet.
Look(d) ==
  /\ call[d].at \in {"prefer", "best"}
  /\ \/ \E g \in Unallocated :
          call' = [call EXCEPT ![d] = [@ EXCEPT !.at = "check", !.goal = call[d].at, !.aim = g]]
     \/ call' = [call EXCEPT ![d].at = After(call[d])]
  /\ UNCHANGED <<clock, rows, trees, job, record, pidfile, output, faulty>>

\* _try_multi_gpu reads the unallocated GPUs once, then goes from host to host.
LookForMany(d) ==
  /\ call[d].at = "combine"
  /\ call' = [call EXCEPT ![d] =
                  [@ EXCEPT !.at = "hosts", !.goal = "combine", !.seen = Unallocated]]
  /\ UNCHANGED <<clock, rows, trees, job, record, pidfile, output, faulty>>

PickHost(d) ==
  /\ call[d].at = "hosts"
  /\ \/ \E h \in Hosts :
          LET here == {g \in call[d].seen : HostOf[g] = h}
          IN  /\ Cardinality(here) >= 2
              /\ call' = [call EXCEPT ![d] =
                              [@ EXCEPT !.at = "each", !.todo = here, !.seen = call[d].seen \ here]]
     \/ call' = [call EXCEPT ![d] = [@ EXCEPT !.at = "tree", !.seen = {}]]
  /\ UNCHANGED <<clock, rows, trees, job, record, pidfile, output, faulty>>

Each(d) ==
  /\ call[d].at = "each"
  /\ \/ \E g \in call[d].todo :
          call' = [call EXCEPT ![d] =
                      [@ EXCEPT !.at = "check", !.aim = g, !.todo = call[d].todo \ {g}]]
     \/ /\ call[d].todo = {} /\ Cardinality(call[d].held) >= 2
        /\ call' = [call EXCEPT ![d] = [@ EXCEPT !.at = "tree", !.seen = {}]]
     \/ /\ call[d].todo = {} /\ Cardinality(call[d].held) < 2
        /\ call' = [call EXCEPT ![d].at = "undo"]
  /\ UNCHANGED <<clock, rows, trees, job, record, pidfile, output, faulty>>

\* allocate_gpu: the SELECT runs outside of the transaction that the INSERT opens.
Check(d) ==
  /\ call[d].at = "check"
  /\ \/ /\ call[d].aim \in Unallocated
        /\ call' = [call EXCEPT ![d].at = "insert"]
     \/ /\ call[d].aim \notin Unallocated
        /\ call' = [call EXCEPT ![d] = [@ EXCEPT !.at = After(call[d]), !.aim = NoGpu]]
  /\ UNCHANGED <<clock, rows, trees, job, record, pidfile, output, faulty>>

Insert(d) ==
  /\ call[d].at = "insert"
  /\ rows' = rows \union {<<call[d].aim, d>>}
  /\ call' = [call EXCEPT ![d] = [@ EXCEPT
                  !.at = IF call[d].goal = "combine" THEN "each" ELSE "tree",
                  !.held = call[d].held \union {call[d].aim}, !.aim = NoGpu]]
  /\ UNCHANGED <<clock, trees, job, record, pidfile, output, faulty>>

\* Mutant: the GPU that was allocated before the attempt failed is forgotten.
UndoForgets(d) ==
  /\ call[d].at = "undo"
  /\ call' = [call EXCEPT ![d] = [@ EXCEPT !.at = "hosts", !.held = {}]]
  /\ UNCHANGED <<clock, rows, trees, job, record, pidfile, output, faulty>>

\* Fewer than two GPUs of the host: give back the one that was allocated.
Undo(d) ==
  /\ call[d].at = "undo"
  /\ IF call[d].held = {}
     THEN call' = [call EXCEPT ![d].at = "hosts"] /\ UNCHANGED rows
     ELSE \E g \in call[d].held :
            Release(g) /\ call' = [call EXCEPT ![d].held = @ \ {g}]
  /\ UNCHANGED <<clock, trees, job, record, pidfile, output, faulty>>

\* The database is locked, or unreadable: dispatch() goes on without a GPU.
SchedulerFails(d) ==
  /\ call[d].at \in Scheduling /\ MayFail(d)
  /\ faulty' = faulty \union {d}
  /\ call' = [call EXCEPT ![d] = [@ EXCEPT !.at = "tree", !.aim = NoGpu, !.seen = {},
                                           !.todo = {}, !.held = {}]]
  /\ UNCHANGED <<clock, rows, trees, job, record, pidfile, output>>

Schedule(d) ==
  Look(d) \/ LookForMany(d) \/ PickHost(d) \/ Each(d) \/ Check(d) \/ Insert(d) \/ Undo(d)

-----------------------------------------------------------------------------
(* Preparing and running the agent *)

\* Mutant: an existing branch is taken over (git worktree add -B).
CreateTreeOver(d) ==
  /\ call[d].at = "tree"
  /\ trees' = IF call[d].plan.tree THEN [trees EXCEPT ![call[d].id] = d] ELSE trees
  /\ call' = [call EXCEPT ![d] = [@ EXCEPT !.at = "record", !.tree = call[d].plan.tree]]
  /\ UNCHANGED <<clock, rows, job, record, pidfile, output, faulty>>

\* git worktree add fails when the branch is there: dispatch() then works in project_dir.
CreateTree(d) ==
  /\ call[d].at = "tree"
  /\ LET i == call[d].id
         made == call[d].plan.tree /\ trees[i] = NoCall
     IN  \/ /\ trees' = IF made THEN [trees EXCEPT ![i] = d] ELSE trees
            /\ call' = [call EXCEPT ![d] = [@ EXCEPT !.at = "record", !.tree = made]]
            /\ UNCHANGED faulty
         \* The command times out: the worktree may be there, dispatch() does not know.
         \/ /\ call[d].plan.tree /\ MayFail(d)
            /\ faulty' = faulty \union {d}
            /\ \/ made /\ trees' = [trees EXCEPT ![i] = d]
               \/ UNCHANGED trees
            /\ call' = [call EXCEPT ![d].at = "record"]
  /\ UNCHANGED <<clock, rows, job, record, pidfile, output>>

SaveRecord(d) ==
  /\ call[d].at = "record"
  /\ record' = [record EXCEPT ![call[d].id] = [status |-> "running", exit |-> "unset"]]
  /\ call' = [call EXCEPT ![d].at = IF d \in Detached THEN "spawn" ELSE "run"]
  /\ UNCHANGED <<clock, rows, trees, job, pidfile, output, faulty>>

\* In the background: Popen with the output file, which open() has emptied.
Spawn(d) ==
  /\ call[d].at = "spawn"
  /\ job' = [job EXCEPT ![d] = "running"]
  /\ output' = [output EXCEPT ![call[d].id] = d]
  /\ call' = [call EXCEPT ![d].at = "pid"]
  /\ UNCHANGED <<clock, rows, trees, record, pidfile, faulty>>

WritePid(d) ==
  /\ call[d].at = "pid"
  /\ pidfile' = [pidfile EXCEPT ![call[d].id] = d]
  /\ call' = [call EXCEPT ![d].at = "release"]
  /\ UNCHANGED <<clock, rows, trees, job, record, output, faulty>>

Run(d) ==
  /\ call[d].at = "run"
  /\ job' = [job EXCEPT ![d] = "running"]
  /\ call' = [call EXCEPT ![d].at = "wait"]
  /\ UNCHANGED <<clock, rows, trees, record, pidfile, output, faulty>>

\* Mutant: the end of the process counts, not its return code.
WaitIgnoresCode(d) ==
  /\ call[d].at = "wait" /\ job[d] \in {"ok", "bad"}
  /\ output' = [output EXCEPT ![call[d].id] = d]
  /\ call' = [call EXCEPT ![d] = [@ EXCEPT !.at = "release", !.result = "completed"]]
  /\ UNCHANGED <<clock, rows, trees, job, record, pidfile, faulty>>

\* Mutant: the result is the return code.
WaitRawCode(d) ==
  /\ call[d].at = "wait" /\ job[d] \in {"ok", "bad"}
  /\ output' = [output EXCEPT ![call[d].id] = d]
  /\ call' = [call EXCEPT ![d] = [@ EXCEPT !.at = "release", !.result = job[d]]]
  /\ UNCHANGED <<clock, rows, trees, job, record, pidfile, faulty>>

Wait(d) ==
  /\ call[d].at = "wait" /\ job[d] \in {"ok", "bad"}
  /\ output' = [output EXCEPT ![call[d].id] = d]
  /\ call' = [call EXCEPT ![d] = [@ EXCEPT
                  !.at = "release",
                  !.result = IF job[d] = "ok" THEN "completed" ELSE "failed"]]
  /\ UNCHANGED <<clock, rows, trees, job, record, pidfile, faulty>>

\* subprocess.run kills ssh after timeout_minutes; no output is kept.
Timeout(d) ==
  /\ call[d].at = "wait" /\ job[d] = "running"
  /\ job' = [job EXCEPT ![d] = "killed"]
  /\ call' = [call EXCEPT ![d] = [@ EXCEPT !.at = "release", !.result = "failed"]]
  /\ UNCHANGED <<clock, rows, trees, record, pidfile, output, faulty>>

JobEnds(d) ==
  /\ job[d] = "running"
  /\ \E r \in {"ok", "bad"} : job' = [job EXCEPT ![d] = r]
  /\ UNCHANGED <<call, clock, rows, trees, record, pidfile, output, faulty>>

-----------------------------------------------------------------------------
(* Ending a call *)

\* Mutant: GPUs are released when the agent succeeded.
ReleaseOnSuccess(d) ==
  /\ call[d].at = "release"
  /\ IF call[d].held # {} /\ call[d].result # "failed"
     THEN \E g \in call[d].held :
            Release(g) /\ call' = [call EXCEPT ![d].held = @ \ {g}]
     ELSE call' = [call EXCEPT ![d].at = "merge"] /\ UNCHANGED rows
  /\ UNCHANGED <<clock, trees, job, record, pidfile, output, faulty>>

\* One GPU after the other; an error leaves the rest allocated.
ReleaseGpus(d) ==
  /\ call[d].at = "release"
  /\ \/ \E g \in call[d].held :
          /\ Release(g)
          /\ call' = [call EXCEPT ![d].held = @ \ {g}]
          /\ UNCHANGED faulty
     \/ /\ call[d].held = {}
        /\ call' = [call EXCEPT ![d].at = "merge"]
        /\ UNCHANGED <<rows, faulty>>
     \/ /\ call[d].held # {} /\ MayFail(d)
        /\ faulty' = faulty \union {d}
        /\ call' = [call EXCEPT ![d] = [@ EXCEPT !.at = "merge", !.held = {}]]
        /\ UNCHANGED rows
  /\ UNCHANGED <<clock, trees, job, record, pidfile, output>>

\* merge_worktree removes the worktree and its branch; a conflict preserves both.
Merge(d) ==
  /\ call[d].at = "merge"
  /\ \/ trees' = IF call[d].tree THEN [trees EXCEPT ![call[d].id] = NoCall] ELSE trees
     \/ call[d].tree /\ UNCHANGED trees
  /\ call' = [call EXCEPT ![d] = [@ EXCEPT !.at = "final", !.tree = FALSE]]
  /\ UNCHANGED <<clock, rows, job, record, pidfile, output, faulty>>

\* exit_code keeps its default of -1 unless the job was waited for and ended.
Final(d) ==
  /\ call[d].at = "final"
  /\ record' = [record EXCEPT ![call[d].id] =
       [status |-> call[d].result,
        exit   |-> IF d \notin Detached /\ job[d] \in {"ok", "bad"} THEN job[d] ELSE "unset"]]
  /\ call' = [call EXCEPT ![d].at = "returned"]
  /\ UNCHANGED <<clock, rows, trees, job, pidfile, output, faulty>>

\* dispatch() raises (the record cannot be written, ssh not started), or its process dies.
Abort(d) ==
  /\ call[d].at \in InCall /\ MayFail(d)
  /\ faulty' = faulty \union {d}
  /\ call' = [call EXCEPT ![d] = [Outside EXCEPT !.at = "dead", !.id = call[d].id,
                                                 !.result = "failed"]]
  /\ UNCHANGED <<clock, rows, trees, job, record, pidfile, output>>

Step(d) ==
  \/ Schedule(d) \/ CreateTree(d) \/ SaveRecord(d)
  \/ Spawn(d) \/ WritePid(d) \/ Run(d) \/ Wait(d) \/ Timeout(d)
  \/ ReleaseGpus(d) \/ Merge(d) \/ Final(d)

Fault(d) == SchedulerFails(d) \/ Abort(d)

-----------------------------------------------------------------------------
(* What a call promises *)

InProgress(d) == call[d].at \in InCall
Alone(d) == \A e \in Calls \ {d} : call[e].id # call[d].id

\* Every allocation in the database belongs to a call that is under way and will
\* release it, also when GPUs are combined, given back and tried again on the next
\* host; only a failed command or a dead dispatcher leaves a GPU allocated.
RowsOwned ==
  \A r \in rows : r[2] \in faulty \/ (InProgress(r[2]) /\ r[1] \in call[r[2]].held)

\* The worktree in which a call works stays there until its agent has ended, even if
\* another call of the same second fails to create it, goes on in the project
\* directory and ends first.  Only calls that wait for their agent promise this.
WorktreeKept ==
  \A d \in Calls \ Detached :
    call[d].at \in {"record", "run", "wait"} /\ call[d].tree => trees[call[d].id] = d

\* The record of a call that returned says how its agent ended; a call whose agent
\* failed or was killed is never on record as completed.
RecordTellsResult ==
  \A d \in Calls \ Detached :
    call[d].at = "returned" /\ Alone(d) =>
      (record[call[d].id].status = "completed" <=> job[d] = "ok")

\* However the agents that use them end, there is always a time again at which no GPU
\* is allocated, but for those that a failure left allocated.
GpusComeBack == []<>(\A r \in rows : r[2] \in faulty)

=============================================================================
