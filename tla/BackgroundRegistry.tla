-------------------------- MODULE BackgroundRegistry --------------------------
(***************************************************************************)
(* background_registry.py: the file of tracked background dispatches.      *)
(* Every user has an instance of its own, which read the whole file when   *)
(* it was made and writes the whole file at every save: a dispatcher that  *)
(* registers its call (dispatch_from_spec), and the pollers, who poll,     *)
(* cancel and clean up.  A PID is the call whose ssh process it names; PIDs *)
(* are not reused here.  The PID file is there whenever dispatch() has     *)
(* returned, so an entry without a PID does not occur.                     *)
(***************************************************************************)
EXTENDS Dispatch

CONSTANTS
  Tracked,  \* background calls whose caller asked for tracking
  Pollers   \* long-lived users of the registry

ASSUME RegistryAssumption == Tracked \subseteq Detached /\ Pollers \intersect Calls = {}

VARIABLES
  disk,    \* background-registry.yaml: the entry of each dispatch id
  mem,     \* _tasks of each user's instance
  poller   \* open: has an instance; todo: entries poll() has yet to look at; newly: it found some

registryVars == <<disk, mem, poller>>

Users   == Tracked \union Pollers
Absent  == [status |-> "absent", pid |-> NoCall]
Entries == [status : {"absent", "running", "completed", "failed", "canceled"},
            pid : Calls \union {NoCall}]
Resting == [open |-> FALSE, todo |-> {}, newly |-> FALSE]

RegistryTypeOK ==
  /\ disk \in [Ids -> Entries]
  /\ mem \in [Users -> [Ids -> Entries]]
  /\ poller \in [Pollers -> [open : BOOLEAN, todo : SUBSET Ids, newly : BOOLEAN]]

RegistryInit ==
  /\ disk = [i \in Ids |-> Absent]
  /\ mem = [u \in Users |-> [i \in Ids |-> Absent]]
  /\ poller = [p \in Pollers |-> Resting]

Alive(pid) == job[pid] = "running"
Running(u) == {i \in Ids : mem[u][i].status = "running"}
Finished   == {"completed", "failed"}

\* dispatch_from_spec makes an instance, ...
OpenToRegister(d) ==
  /\ d \in Tracked /\ call[d].at = "returned"
  /\ mem' = [mem EXCEPT ![d] = disk]
  /\ call' = [call EXCEPT ![d].at = "opened"]
  /\ UNCHANGED <<clock, rows, trees, job, record, pidfile, output, faulty, disk, poller>>

\* ... adds the dispatch, writes everything back and drops the instance.
Register(d) ==
  /\ call[d].at = "opened"
  /\ LET i == call[d].id
     IN  disk' = [mem[d] EXCEPT ![i] = [status |-> "running", pid |-> pidfile[i]]]
  /\ mem' = [mem EXCEPT ![d] = [i \in Ids |-> Absent]]
  /\ call' = [call EXCEPT ![d] = [Outside EXCEPT !.at = "done", !.id = call[d].id]]
  /\ UNCHANGED <<clock, rows, trees, job, record, pidfile, output, faulty, poller>>

Open(p) ==
  /\ poller[p].todo = {} /\ ~poller[p].newly
  /\ mem' = [mem EXCEPT ![p] = disk]
  /\ poller' = [poller EXCEPT ![p].open = TRUE]
  /\ UNCHANGED <<dispatchVars, disk>>

Poll(p) ==
  /\ poller[p].open /\ poller[p].todo = {} /\ ~poller[p].newly
  /\ Running(p) # {}
  /\ poller' = [poller EXCEPT ![p].todo = Running(p)]
  /\ UNCHANGED <<dispatchVars, disk, mem>>

\* Mutant: the record is read without a look at the PID.
PollOneBlind(p) ==
  \E i \in poller[p].todo :
    /\ poller' = [poller EXCEPT ![p].todo = @ \ {i}, ![p].newly = TRUE]
    /\ LET status == IF record[i].exit = "ok" THEN "completed" ELSE "failed"
       IN  /\ mem' = [mem EXCEPT ![p][i].status = status]
           /\ record' = [record EXCEPT ![i].status = status]
    /\ UNCHANGED <<call, clock, rows, trees, job, pidfile, output, faulty, disk>>

\* Mutant: without an exit code in the record a dead task is left for the next poll.
PollOneLater(p) ==
  \E i \in poller[p].todo :
    LET ended == ~Alive(mem[p][i].pid) /\ record[i].exit # "unset"
        status == IF record[i].exit = "ok" THEN "completed" ELSE "failed"
    IN  /\ poller' = [poller EXCEPT ![p].todo = @ \ {i}, ![p].newly = @ \/ ended]
        /\ mem' = IF ended THEN [mem EXCEPT ![p][i].status = status] ELSE mem
        /\ record' = IF ended THEN [record EXCEPT ![i].status = status] ELSE record
        /\ UNCHANGED <<call, clock, rows, trees, job, pidfile, output, faulty, disk>>

\* The record holds an exit_code from the start, so the default of 0 is never taken:
\* anything but a recorded 0 makes the task failed.
PollOne(p) ==
  \E i \in poller[p].todo :
    /\ poller' = [poller EXCEPT ![p].todo = @ \ {i},
                                ![p].newly = @ \/ ~Alive(mem[p][i].pid)]
    /\ IF Alive(mem[p][i].pid)
       THEN UNCHANGED <<mem, record>>
       ELSE LET status == IF record[i].exit = "ok" THEN "completed" ELSE "failed"
            IN  /\ mem' = [mem EXCEPT ![p][i].status = status]
                /\ record' = [record EXCEPT ![i].status = status]
    /\ UNCHANGED <<call, clock, rows, trees, job, pidfile, output, faulty, disk>>

PollSave(p) ==
  /\ poller[p].newly /\ poller[p].todo = {}
  /\ disk' = mem[p]
  /\ poller' = [poller EXCEPT ![p].newly = FALSE]
  /\ UNCHANGED <<dispatchVars, mem>>

\* SIGTERM, then the entry is closed; the record is left as it is.
Cancel(p) ==
  /\ poller[p].todo = {} /\ ~poller[p].newly
  /\ \E i \in Running(p) :
       /\ LET pid == mem[p][i].pid
          IN  job' = IF Alive(pid) THEN [job EXCEPT ![pid] = "killed"] ELSE job
       /\ mem' = [mem EXCEPT ![p][i].status = "canceled"]
       /\ disk' = mem'[p]
  /\ UNCHANGED <<call, clock, rows, trees, record, pidfile, output, faulty, poller>>

\* Entries closed for longer than max_age_hours.
Cleanup(p) ==
  /\ poller[p].todo = {} /\ ~poller[p].newly
  /\ \E old \in SUBSET {i \in Ids : mem[p][i].status \in Finished \union {"canceled"}} :
       /\ old # {}
       /\ mem' = [mem EXCEPT ![p] = [i \in Ids |-> IF i \in old THEN Absent ELSE @[i]]]
       /\ disk' = mem'[p]
  /\ UNCHANGED <<dispatchVars, poller>>

PollerStep(p) == Poll(p) \/ PollOne(p) \/ PollSave(p)
RegistryStep(d) == OpenToRegister(d) \/ Register(d)

-----------------------------------------------------------------------------

\* A dispatch the registry calls finished, in the file or in anyone's instance, has
\* indeed ended: no dead PID is seen before the agent is gone, whatever older copies
\* of the file are written back over it.
FinishedHasExited ==
  \A i \in Ids, copy \in {disk} \union {mem[u] : u \in Users} :
    copy[i].status \in Finished => ~Alive(copy[i].pid)

\* What the record and the registry say of an agent that ended is so.
EndsRecorded == RecordTellsResult /\ FinishedHasExited

\* What poll() says of a task it closes agrees with how its agent ended ("Check PIDs,
\* return newly completed"): an agent that exited with 0 is not reported as failed.
PollTellsResult ==
  \A u \in Users, i \in Ids :
    mem[u][i].status = "failed" => job[mem[u][i].pid] # "ok"

\* A poller that goes on polling learns of every end of a task that it knows.
EndsAreSeen ==
  \A p \in Pollers : []<>(\A i \in Running(p) : Alive(mem[p][i].pid))

=============================================================================
