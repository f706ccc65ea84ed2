------------------------------ MODULE TaskBoard ------------------------------
(***************************************************************************)
(* The NFS task board of swarm_lib.py: a task is a YAML file that moves    *)
(* between the directories tasks/pending, tasks/claimed, tasks/completed   *)
(* and tasks/preempted.  Workers (one agent session per host) claim and    *)
(* complete tasks; three other paths move claimed files back to pending:   *)
(* cleanup_stale_nodes, the crash handler of a session that is signalled,  *)
(* and requeue_task of the health monitor's remediations.                  *)
(*                                                                         *)
(* A file operation (write to .tmp and rename, unlink, flock) is one step; *)
(* between two of them any other process may run, a worker may die, and    *)
(* the NFS server may go away.  A directory is the set of the tasks whose  *)
(* file it holds; of a file's content only claimed_by (owner) and _retries *)
(* (tries) are kept.                                                       *)
(***************************************************************************)
EXTENDS Naturals, FiniteSets

CONSTANTS
  Tasks,       \* task identifiers, all pending at the start
  Workers,     \* agent sessions, one per host, named by their host
  Recoverers,  \* processes that run `swarm cleanup` or a remediation
  Inodes,      \* inodes the .lock files of tasks/pending can have
  NoInode,     \* no lock file, or no open descriptor
  NoTask,      \* the process works on no task
  Nobody,      \* claimed_by of a file that is not there; holder of no lock
  Recovery,    \* the recovery paths in use, a subset of Paths
  MaxRetries,  \* the retry cap (3 in the code)
  Silent,      \* bound: the hosts whose status file may grow old
  MaxDeaths,   \* bound: how often a session may be killed
  MaxOutages   \* bound: how often NFS may become unhealthy

Paths == {"cleanup", "crash", "requeue", "preempt"}
Procs == Workers \union Recoverers

ASSUME NamesAssumption ==
  /\ Workers \intersect Recoverers = {}
  /\ Nobody \notin Procs
  /\ NoTask \notin Tasks
  /\ NoInode \notin Inodes
ASSUME BoundsAssumption ==
  /\ Recovery \subseteq Paths /\ Silent \subseteq Workers
  /\ MaxRetries \in Nat /\ MaxDeaths \in Nat /\ MaxOutages \in Nat

VARIABLES
  pending, claimed, completed, preempted,  \* the files in tasks/<directory>
  owner,         \* claimed_by in tasks/claimed/<t>.yaml
  pTries,        \* _retries in tasks/pending/<t>.yaml
  cTries,        \* _retries in tasks/claimed/<t>.yaml
  localClaimed,  \* ~/.swarm-tasks/claimed of every host
  localCompleted,\* ~/.swarm-tasks/completed of every host
  localTries,    \* _retries in ~/.swarm-tasks/claimed/<t>.yaml
  lockFile,      \* the inode tasks/pending/<t>.lock names
  holder,        \* the process holding the flock of an inode
  status,        \* the host's status file: state, and whether it is old
  nfsUp,         \* whether NFS accepts reads and writes
  executing,     \* <<w, t>>: w's claim_task(t) returned, it works on t
  pc, job, fd, tries, mode, todo, cleaned, \* where each process is
  deaths, outages

boardVars  == <<pending, claimed, completed, preempted, owner, pTries, cTries>>
localVars  == <<localClaimed, localCompleted, localTries>>
lockVars   == <<lockFile, holder>>
procVars   == <<pc, job, fd, tries, mode, todo, cleaned>>
envVars    == <<nfsUp, deaths, outages>>
vars == <<pending, claimed, completed, preempted, owner, pTries, cTries,
          localClaimed, localCompleted, localTries, lockFile, holder, status, nfsUp,
          executing, pc, job, fd, tries, mode, todo, cleaned, deaths, outages>>

ClaimSteps    == {"open", "lock", "write", "remove", "unlink"}
CompleteSteps == {"cwrite", "cremove"}
RequeueSteps  == {"scan", "ropen", "rwrite", "rremove"}
Modes         == {"none", "nfs", "local", "cleanup", "crash", "requeue"}

TypeOK ==
  /\ pending \subseteq Tasks /\ claimed \subseteq Tasks
  /\ completed \subseteq Tasks /\ preempted \subseteq Tasks
  /\ owner \in [Tasks -> Workers \union {Nobody}]
  /\ pTries \in [Tasks -> Nat] /\ cTries \in [Tasks -> Nat]
  /\ localClaimed \in [Workers -> SUBSET Tasks]
  /\ localCompleted \in [Workers -> SUBSET Tasks]
  /\ localTries \in [Workers -> [Tasks -> Nat]]
  /\ lockFile \in [Tasks -> Inodes \union {NoInode}]
  /\ holder \in [Inodes -> Procs \union {Nobody}]
  /\ status \in [Workers -> {"active", "stale", "idle", "offline"}]
  /\ nfsUp \in BOOLEAN
  /\ executing \subseteq Workers \X Tasks
  /\ pc \in [Procs -> {"idle", "dead"} \union ClaimSteps
                      \union CompleteSteps \union RequeueSteps]
  /\ job \in [Procs -> Tasks \union {NoTask}]
  /\ fd \in [Procs -> Inodes \union {NoInode}]
  /\ tries \in [Procs -> Nat]
  /\ mode \in [Procs -> Modes]
  /\ todo \in [Procs -> SUBSET Tasks]
  /\ cleaned \in [Procs -> SUBSET Workers]
  /\ deaths \in 0..MaxDeaths /\ outages \in 0..MaxOutages

Init ==
  /\ pending = Tasks
  /\ claimed = {} /\ completed = {} /\ preempted = {}
  /\ owner = [t \in Tasks |-> Nobody]
  /\ pTries = [t \in Tasks |-> 0] /\ cTries = [t \in Tasks |-> 0]
  /\ localClaimed = [w \in Workers |-> {}]
  /\ localCompleted = [w \in Workers |-> {}]
  /\ localTries = [w \in Workers |-> [t \in Tasks |-> 0]]
  /\ lockFile = [t \in Tasks |-> NoInode]
  /\ holder = [i \in Inodes |-> Nobody]
  /\ status = [w \in Workers |-> "active"]
  /\ nfsUp = TRUE
  /\ executing = {}
  /\ pc = [p \in Procs |-> "idle"]
  /\ job = [p \in Procs |-> NoTask]
  /\ fd = [p \in Procs |-> NoInode]
  /\ tries = [p \in Procs |-> 0]
  /\ mode = [p \in Procs |-> "none"]
  /\ todo = [p \in Procs |-> {}]
  /\ cleaned = [p \in Procs |-> {}]
  /\ deaths = 0 /\ outages = 0

-----------------------------------------------------------------------------
(* Helpers *)

\* A process leaves the operation it was in.
Return(p) ==
  /\ pc' = [pc EXCEPT ![p] = "idle"]
  /\ job' = [job EXCEPT ![p] = NoTask]
  /\ fd' = [fd EXCEPT ![p] = NoInode]
  /\ tries' = [tries EXCEPT ![p] = 0]
  /\ mode' = [mode EXCEPT ![p] = "none"]

Goto(p, step) == pc' = [pc EXCEPT ![p] = step]

\* Mutant: the flock is never released.
UnlockLeaks(p) == UNCHANGED holder

\* Closing the descriptor, or exiting, releases the flock.
Unlock(p) == holder' = [i \in Inodes |-> IF holder[i] = p THEN Nobody ELSE holder[i]]

\* touch and open(lock_path, "w"): the file's inode, or a new one.
OpenLock(p, t) ==
  \/ /\ lockFile[t] # NoInode
     /\ fd' = [fd EXCEPT ![p] = lockFile[t]]
     /\ UNCHANGED lockFile
  \/ /\ lockFile[t] = NoInode
     /\ \E i \in Inodes :
          /\ \A q \in Procs : fd[q] # i
          /\ \A u \in Tasks : lockFile[u] # i
          /\ lockFile' = [lockFile EXCEPT ![t] = i]
          /\ fd' = [fd EXCEPT ![p] = i]

WriteClaimed(t, w, n) ==
  /\ claimed' = claimed \union {t}
  /\ owner' = [owner EXCEPT ![t] = w]
  /\ cTries' = [cTries EXCEPT ![t] = n]

\* Mutant: os.remove of the claimed file is left out.
RemoveClaimedSkipped(t) == UNCHANGED <<claimed, owner, cTries>>

RemoveClaimed(t) ==
  /\ claimed' = claimed \ {t}
  /\ owner' = [owner EXCEPT ![t] = Nobody]
  /\ cTries' = [cTries EXCEPT ![t] = 0]

\* Mutant: os.remove(src) of claim_task is left out.
RemovePendingSkipped(t) == UNCHANGED <<pending, pTries>>

RemovePending(t) ==
  /\ pending' = pending \ {t}
  /\ pTries' = [pTries EXCEPT ![t] = 0]

\* os.rename over tasks/pending/<t>.yaml
WritePending(t, n) ==
  /\ pending' = pending \union {t}
  /\ pTries' = [pTries EXCEPT ![t] = n]

WriteLocalClaimed(w, t, n) ==
  /\ localClaimed' = [localClaimed EXCEPT ![w] = @ \union {t}]
  /\ localTries' = [localTries EXCEPT ![w][t] = n]

RemoveLocalClaimed(w, t) ==
  /\ localClaimed' = [localClaimed EXCEPT ![w] = @ \ {t}]
  /\ localTries' = [localTries EXCEPT ![w][t] = 0]

-----------------------------------------------------------------------------
(* claim_task *)

\* The first src.exists(); FileNotFoundError when it is not there.
ClaimCheck(w, t) ==
  /\ pc[w] = "idle" /\ nfsUp /\ t \in pending
  /\ Goto(w, "open")
  /\ job' = [job EXCEPT ![w] = t]
  /\ UNCHANGED <<boardVars, localVars, lockVars, envVars, status, executing,
                 fd, tries, mode, todo, cleaned>>

ClaimOpen(w) ==
  /\ pc[w] = "open" /\ nfsUp
  /\ OpenLock(w, job[w])
  /\ Goto(w, "lock")
  /\ UNCHANGED <<boardVars, localVars, holder, envVars, status, executing,
                 job, tries, mode, todo, cleaned>>

\* Mutant: src is not looked for again under the lock.
ClaimLockNoRecheck(w) ==
  /\ pc[w] = "lock" /\ nfsUp
  /\ holder[fd[w]] = Nobody
  /\ holder' = [holder EXCEPT ![fd[w]] = w]
  /\ tries' = [tries EXCEPT ![w] = pTries[job[w]]]
  /\ Goto(w, "write")
  /\ UNCHANGED <<boardVars, localVars, lockFile, envVars, status, executing,
                 job, fd, mode, todo, cleaned>>

\* Mutant: the pending file is taken away before the claimed one is written.
ClaimLockRemovesFirst(w) ==
  /\ pc[w] = "lock" /\ nfsUp /\ job[w] \in pending
  /\ holder[fd[w]] = Nobody
  /\ holder' = [holder EXCEPT ![fd[w]] = w]
  /\ tries' = [tries EXCEPT ![w] = pTries[job[w]]]
  /\ RemovePending(job[w])
  /\ Goto(w, "write")
  /\ UNCHANGED <<claimed, owner, cTries, completed, preempted, localVars, lockFile,
                 envVars, status, executing, job, fd, mode, todo, cleaned>>

\* flock, then src.exists() again under the lock, and the read of the file.
ClaimLock(w) ==
  /\ pc[w] = "lock" /\ nfsUp
  /\ holder[fd[w]] = Nobody
  /\ \/ /\ job[w] \in pending
        /\ holder' = [holder EXCEPT ![fd[w]] = w]
        /\ tries' = [tries EXCEPT ![w] = pTries[job[w]]]
        /\ Goto(w, "write")
        /\ UNCHANGED <<job, fd, mode>>
     \/ /\ job[w] \notin pending
        /\ Return(w)
        /\ UNCHANGED holder
  /\ UNCHANGED <<boardVars, localVars, lockFile, envVars, status, executing,
                 todo, cleaned>>

ClaimWrite(w) ==
  /\ pc[w] = "write" /\ nfsUp
  /\ WriteClaimed(job[w], w, tries[w])
  /\ Goto(w, "remove")
  /\ UNCHANGED <<pending, pTries, completed, preempted, localVars, lockVars,
                 envVars, status, executing, job, fd, tries, mode, todo, cleaned>>

\* os.remove(src), then the flock is released.
ClaimRemove(w) ==
  /\ pc[w] = "remove" /\ nfsUp /\ job[w] \in pending
  /\ RemovePending(job[w])
  /\ Unlock(w)
  /\ Goto(w, "unlink")
  /\ UNCHANGED <<claimed, owner, cTries, completed, preempted, localVars,
                 lockFile, envVars, status, executing, job, fd, tries, mode,
                 todo, cleaned>>

\* The write or the remove raised and NFS is unhealthy: the claim goes to
\* ~/.swarm-tasks.  Removing src fails silently, unless NFS is back by then.
ClaimFallback(w) ==
  /\ pc[w] \in {"write", "remove"} /\ ~nfsUp
  /\ WriteLocalClaimed(w, job[w], tries[w])
  /\ \/ UNCHANGED <<pending, pTries, nfsUp>>
     \/ RemovePending(job[w]) /\ nfsUp' = TRUE
  /\ Unlock(w)
  /\ Goto(w, "unlink")
  /\ UNCHANGED <<claimed, owner, cTries, completed, preempted, localCompleted,
                 lockFile, deaths, outages, status, executing, job, fd, tries,
                 mode, todo, cleaned>>

\* Mutant: the task is reported after the locals are gone.
ClaimUnlinkForgets(w) ==
  /\ pc[w] = "unlink" /\ nfsUp
  /\ lockFile' = [lockFile EXCEPT ![job[w]] = NoInode]
  /\ Return(w)
  /\ executing' = executing \union {<<w, job'[w]>>}
  /\ UNCHANGED <<boardVars, localVars, holder, envVars, status, todo, cleaned>>

\* lock_path.unlink, outside the lock; then claim_task returns the task.
ClaimUnlink(w) ==
  /\ pc[w] = "unlink" /\ nfsUp
  /\ lockFile' = [lockFile EXCEPT ![job[w]] = NoInode]
  /\ executing' = executing \union {<<w, job[w]>>}
  /\ Return(w)
  /\ UNCHANGED <<boardVars, localVars, holder, envVars, status, todo, cleaned>>

\* Every exception claim_task lets out: NFS fails outside the inner try, the
\* write failed but the health probe succeeds, or src is gone at os.remove.
ClaimRaise(w) ==
  /\ \/ pc[w] \in ClaimSteps /\ ~nfsUp
     \/ pc[w] = "remove" /\ nfsUp /\ job[w] \notin pending
  /\ Unlock(w)
  /\ Return(w)
  /\ UNCHANGED <<boardVars, localVars, lockFile, envVars, status, executing,
                 todo, cleaned>>

-----------------------------------------------------------------------------
(* complete_task *)

\* Which claimed file is there: on NFS, else in the host's local fallback,
\* else FileNotFoundError, and the worker gives the task up.
CompleteCheck(w, t) ==
  /\ pc[w] = "idle" /\ nfsUp /\ <<w, t>> \in executing
  /\ \/ /\ t \in claimed \/ t \in localClaimed[w]
        /\ mode' = [mode EXCEPT ![w] = IF t \in claimed THEN "nfs" ELSE "local"]
        /\ job' = [job EXCEPT ![w] = t]
        /\ Goto(w, "cwrite")
        /\ UNCHANGED executing
     \/ /\ t \notin claimed /\ t \notin localClaimed[w]
        /\ executing' = executing \ {<<w, t>>}
        /\ UNCHANGED <<mode, job, pc>>
  /\ UNCHANGED <<boardVars, localVars, lockVars, envVars, status, fd, tries,
                 todo, cleaned>>

\* Mutant: src is removed without a result.
CompleteWriteSkipped(w) ==
  /\ pc[w] = "cwrite" /\ nfsUp
  /\ Goto(w, "cremove")
  /\ UNCHANGED <<boardVars, localVars, lockVars, envVars, status, executing, job,
                 fd, tries, mode, todo, cleaned>>

CompleteWrite(w) ==
  /\ pc[w] = "cwrite" /\ nfsUp
  /\ completed' = completed \union {job[w]}
  /\ Goto(w, "cremove")
  /\ UNCHANGED <<pending, pTries, claimed, owner, cTries, preempted, localVars,
                 lockVars, envVars, status, executing, job, fd, tries, mode,
                 todo, cleaned>>

\* os.remove(src); it raises when the claimed file is gone, after the
\* completed file was written, so the worker is done with the task anyway.
CompleteRemove(w) ==
  /\ pc[w] = "cremove" /\ nfsUp
  /\ \/ mode[w] = "nfs" /\ RemoveClaimed(job[w]) /\ UNCHANGED localVars
     \/ /\ mode[w] = "local"
        /\ RemoveLocalClaimed(w, job[w])
        /\ UNCHANGED <<claimed, owner, cTries, localCompleted>>
  /\ executing' = executing \ {<<w, job[w]>>}
  /\ Return(w)
  /\ UNCHANGED <<pending, pTries, completed, preempted, lockVars, envVars,
                 status, todo, cleaned>>

\* NFS unhealthy: the result goes to ~/.swarm-tasks/completed; removing src
\* succeeds when it is the local file, or NFS is back by then.
CompleteFallback(w) ==
  /\ pc[w] \in CompleteSteps /\ ~nfsUp
  /\ localCompleted' = [localCompleted EXCEPT ![w] = @ \union {job[w]}]
  /\ \/ /\ mode[w] = "local" /\ RemoveLocalClaimed(w, job[w])
        /\ UNCHANGED <<claimed, owner, cTries, nfsUp>>
     \/ /\ mode[w] = "nfs" /\ RemoveClaimed(job[w]) /\ nfsUp' = TRUE
        /\ UNCHANGED <<localClaimed, localTries>>
     \/ /\ mode[w] = "nfs"
        /\ UNCHANGED <<claimed, owner, cTries, nfsUp, localClaimed, localTries>>
  /\ executing' = executing \ {<<w, job[w]>>}
  /\ Return(w)
  /\ UNCHANGED <<pending, pTries, completed, preempted, lockVars, deaths,
                 outages, status, todo, cleaned>>

\* The write failed but the health probe succeeds: complete_task raises and
\* the worker still has the task.
CompleteRaise(w) ==
  /\ pc[w] \in CompleteSteps /\ ~nfsUp
  /\ Return(w)
  /\ UNCHANGED <<boardVars, localVars, lockVars, envVars, status, executing,
                 todo, cleaned>>
-----------------------------------------------------------------------------
(* Heartbeats, sessions and the recovery of claimed tasks *)

\* _reconcile_local_tasks: local files go back to NFS unless one is there.
Reconcile(w) ==
  LET back == localClaimed[w] \ claimed
  IN  /\ claimed' = claimed \union back
      /\ owner' = [t \in Tasks |-> IF t \in back THEN w ELSE owner[t]]
      /\ cTries' = [t \in Tasks |-> IF t \in back THEN localTries[w][t] ELSE cTries[t]]
      /\ completed' = completed \union localCompleted[w]
      /\ localClaimed' = [localClaimed EXCEPT ![w] = {}]
      /\ localCompleted' = [localCompleted EXCEPT ![w] = {}]
      /\ localTries' = [localTries EXCEPT ![w] = [t \in Tasks |-> 0]]

\* mark_stale_nodes: every other active node with an old file goes offline.
MarkStale(w, own) ==
  status' = [v \in Workers |-> IF v = w THEN own
                               ELSE IF status[v] = "stale" THEN "offline"
                               ELSE status[v]]

\* The status file of w gets older than the threshold.
AgeOut(w) ==
  /\ w \in Silent /\ status[w] = "active"
  /\ status' = [status EXCEPT ![w] = "stale"]
  /\ UNCHANGED <<boardVars, localVars, lockVars, envVars, executing, procVars>>

\* The heartbeat hook rewrites the state it finds with a fresh timestamp.
Heartbeat(w) ==
  /\ pc[w] # "dead" /\ mode[w] # "crash" /\ nfsUp
  /\ Reconcile(w)
  /\ MarkStale(w, IF status[w] = "stale" THEN "active" ELSE status[w])
  /\ UNCHANGED <<pending, pTries, preempted, lockVars, envVars, executing, procVars>>

SessionStart(w) ==
  /\ pc[w] \in {"idle", "dead"} /\ nfsUp
  /\ Reconcile(w)
  /\ MarkStale(w, "active")
  /\ Goto(w, "idle")
  /\ UNCHANGED <<pending, pTries, preempted, lockVars, envVars, executing,
                 job, fd, tries, mode, todo, cleaned>>

\* The session ends normally: its claimed tasks only cause a warning.
SessionEnd(w) ==
  /\ pc[w] = "idle" /\ nfsUp /\ deaths < MaxDeaths
  /\ Reconcile(w)
  /\ status' = [status EXCEPT ![w] = "idle"]
  /\ executing' = {e \in executing : e[1] # w}
  /\ Goto(w, "dead")
  /\ deaths' = deaths + 1
  /\ UNCHANGED <<pending, pTries, preempted, lockVars, nfsUp, outages,
                 job, fd, tries, mode, todo, cleaned>>

\* SIGKILL, a power failure: nothing is cleaned up, the flock is released.
Die(w) ==
  /\ pc[w] # "dead" /\ deaths < MaxDeaths
  /\ pc' = [pc EXCEPT ![w] = "dead"]
  /\ job' = [job EXCEPT ![w] = NoTask]
  /\ fd' = [fd EXCEPT ![w] = NoInode]
  /\ tries' = [tries EXCEPT ![w] = 0]
  /\ mode' = [mode EXCEPT ![w] = "none"]
  /\ todo' = [todo EXCEPT ![w] = {}]
  /\ Unlock(w)
  /\ executing' = {e \in executing : e[1] # w}
  /\ deaths' = deaths + 1
  /\ UNCHANGED <<boardVars, localVars, lockFile, status, nfsUp, outages, cleaned>>

\* SIGTERM, SIGINT, SIGHUP: _handle_crash marks the node idle and starts
\* _release_claimed_tasks over every file in tasks/claimed.
CrashSignal(w) ==
  /\ "crash" \in Recovery /\ pc[w] # "dead" /\ mode[w] # "crash"
  /\ nfsUp /\ deaths < MaxDeaths
  /\ Reconcile(w)
  /\ status' = [status EXCEPT ![w] = "idle"]
  /\ executing' = {e \in executing : e[1] # w}
  /\ Goto(w, "scan")
  /\ mode' = [mode EXCEPT ![w] = "crash"]
  /\ todo' = [todo EXCEPT ![w] = claimed']
  /\ deaths' = deaths + 1
  /\ UNCHANGED <<pending, pTries, preempted, lockVars, nfsUp, outages, job, fd,
                 tries, cleaned>>

\* The crash handler is through the files it saw: sys.exit.
CrashExit(w) ==
  /\ pc[w] = "scan" /\ mode[w] = "crash" /\ todo[w] = {}
  /\ pc' = [pc EXCEPT ![w] = "dead"]
  /\ job' = [job EXCEPT ![w] = NoTask]
  /\ fd' = [fd EXCEPT ![w] = NoInode]
  /\ tries' = [tries EXCEPT ![w] = 0]
  /\ mode' = [mode EXCEPT ![w] = "none"]
  /\ Unlock(w)
  /\ UNCHANGED <<boardVars, localVars, lockFile, envVars, status, executing,
                 todo, cleaned>>

\* cleanup_stale_nodes: the stale nodes whose process cannot be seen alive
\* become idle, then the claimed files are listed.
CleanupStart(r) ==
  /\ "cleanup" \in Recovery /\ pc[r] = "idle" /\ nfsUp
  /\ \E stale \in SUBSET {w \in Workers : status[w] = "stale"} :
       /\ stale # {}
       /\ status' = [w \in Workers |-> IF w \in stale THEN "idle" ELSE status[w]]
       /\ cleaned' = [cleaned EXCEPT ![r] = stale]
  /\ todo' = [todo EXCEPT ![r] = claimed]
  /\ mode' = [mode EXCEPT ![r] = "cleanup"]
  /\ Goto(r, "scan")
  /\ UNCHANGED <<boardVars, localVars, lockVars, envVars, executing, job, fd, tries>>

CleanupEnd(r) ==
  /\ pc[r] = "scan" /\ mode[r] = "cleanup" /\ todo[r] = {}
  /\ Return(r)
  /\ cleaned' = [cleaned EXCEPT ![r] = {}]
  /\ UNCHANGED <<boardVars, localVars, lockVars, envVars, status, executing, todo>>

\* Mutant: off by one in the retry cap.
RequeueStartOneMore(r, t) ==
  /\ "requeue" \in Recovery /\ pc[r] = "idle" /\ nfsUp
  /\ t \in claimed /\ cTries[t] <= MaxRetries
  /\ job' = [job EXCEPT ![r] = t]
  /\ tries' = [tries EXCEPT ![r] = cTries[t] + 1]
  /\ mode' = [mode EXCEPT ![r] = "requeue"]
  /\ Goto(r, "rwrite")
  /\ UNCHANGED <<boardVars, localVars, lockVars, envVars, status, executing,
                 fd, todo, cleaned>>

\* requeue_task (and remote_session._auto_requeue_task): one claimed task
\* below the retry cap.
RequeueStart(r, t) ==
  /\ "requeue" \in Recovery /\ pc[r] = "idle" /\ nfsUp
  /\ t \in claimed /\ cTries[t] < MaxRetries
  /\ job' = [job EXCEPT ![r] = t]
  /\ tries' = [tries EXCEPT ![r] = cTries[t] + 1]
  /\ mode' = [mode EXCEPT ![r] = "requeue"]
  /\ Goto(r, "rwrite")
  /\ UNCHANGED <<boardVars, localVars, lockVars, envVars, status, executing,
                 fd, todo, cleaned>>

\* The loop over the listed files reads the next one and decides.
RequeueRead(p, t) ==
  LET n == cTries[t] + 1
      takes == IF mode[p] = "cleanup" THEN owner[t] \in cleaned[p] /\ n <= MaxRetries
                                      ELSE TRUE
  IN  /\ pc[p] = "scan" /\ nfsUp /\ t \in todo[p] /\ t \in claimed
      /\ todo' = [todo EXCEPT ![p] = @ \ {t}]
      /\ \/ /\ takes
            /\ job' = [job EXCEPT ![p] = t]
            /\ tries' = [tries EXCEPT ![p] = n]
            /\ Goto(p, IF mode[p] = "cleanup" THEN "ropen" ELSE "rwrite")
         \/ ~takes /\ UNCHANGED <<job, tries, pc>>
      /\ UNCHANGED <<boardVars, localVars, lockVars, envVars, status,
                     executing, fd, mode, cleaned>>

\* The file is gone: the crash handler goes on with the next one, the
\* exception ends cleanup_stale_nodes.
RequeueMissing(p, t) ==
  /\ pc[p] = "scan" /\ nfsUp /\ t \in todo[p] /\ t \notin claimed
  /\ IF mode[p] = "cleanup"
       THEN /\ Return(p)
            /\ todo' = [todo EXCEPT ![p] = {}]
            /\ cleaned' = [cleaned EXCEPT ![p] = {}]
       ELSE /\ todo' = [todo EXCEPT ![p] = @ \ {t}]
            /\ UNCHANGED <<pc, job, fd, tries, mode, cleaned>>
  /\ UNCHANGED <<boardVars, localVars, lockVars, envVars, status, executing>>

\* _locked_write_yaml takes the lock file claim_task uses (and leaves it).
RequeueOpen(r) ==
  /\ pc[r] = "ropen" /\ nfsUp
  /\ OpenLock(r, job[r])
  /\ Goto(r, "rwrite")
  /\ UNCHANGED <<boardVars, localVars, holder, envVars, status, executing,
                 job, tries, mode, todo, cleaned>>

\* The pending file is written; cleanup waits for the flock first and
\* releases it with the write, the other two paths take no lock.
RequeueWrite(p) ==
  /\ pc[p] = "rwrite" /\ nfsUp
  /\ mode[p] = "cleanup" => holder[fd[p]] = Nobody
  /\ WritePending(job[p], tries[p])
  /\ fd' = [fd EXCEPT ![p] = IF mode[p] = "cleanup" THEN NoInode ELSE @]
  /\ Goto(p, "rremove")
  /\ UNCHANGED <<claimed, owner, cTries, completed, preempted, localVars,
                 lockVars, envVars, status, executing, job, tries, mode, todo,
                 cleaned>>

\* os.remove of the claimed file, whatever claim it holds by now; only in
\* cleanup_stale_nodes does its absence raise.
RequeueRemove(p) ==
  /\ pc[p] = "rremove" /\ nfsUp
  /\ RemoveClaimed(job[p])
  /\ \/ /\ mode[p] = "requeue"
        /\ Return(p) /\ UNCHANGED <<todo, cleaned>>
     \/ /\ mode[p] = "cleanup" /\ job[p] \notin claimed
        /\ Return(p)
        /\ todo' = [todo EXCEPT ![p] = {}]
        /\ cleaned' = [cleaned EXCEPT ![p] = {}]
     \/ /\ mode[p] = "crash" \/ (mode[p] = "cleanup" /\ job[p] \in claimed)
        /\ Goto(p, "scan")
        /\ job' = [job EXCEPT ![p] = NoTask]
        /\ tries' = [tries EXCEPT ![p] = 0]
        /\ UNCHANGED <<fd, mode, todo, cleaned>>
  /\ UNCHANGED <<pending, pTries, completed, preempted, localVars, lockVars,
                 envVars, status, executing>>

\* NFS fails in the middle of a recovery: the crash handler logs it and goes
\* on with the next file, the other two paths end.
RequeueRaise(p) ==
  /\ ~nfsUp
  /\ \/ /\ mode[p] \in {"cleanup", "requeue"} /\ pc[p] \in RequeueSteps
        /\ Return(p)
        /\ todo' = [todo EXCEPT ![p] = {}]
        /\ cleaned' = [cleaned EXCEPT ![p] = {}]
     \/ /\ mode[p] = "crash" /\ pc[p] \in {"rwrite", "rremove"}
        /\ Goto(p, "scan")
        /\ job' = [job EXCEPT ![p] = NoTask]
        /\ tries' = [tries EXCEPT ![p] = 0]
        /\ UNCHANGED <<fd, mode, todo, cleaned>>
     \/ /\ mode[p] = "crash" /\ pc[p] = "scan"
        /\ \E t \in todo[p] : todo' = [todo EXCEPT ![p] = @ \ {t}]
        /\ UNCHANGED <<pc, job, fd, tries, mode, cleaned>>
  /\ UNCHANGED <<boardVars, localVars, lockVars, envVars, status, executing>>

\* AutoDispatcher._preempt_task: the file moves to tasks/preempted.
Preempt(t) ==
  /\ "preempt" \in Recovery /\ t \in claimed /\ nfsUp
  /\ preempted' = preempted \union {t}
  /\ RemoveClaimed(t)
  /\ UNCHANGED <<pending, pTries, completed, localVars, lockVars, envVars,
                 status, executing, procVars>>

Outage ==
  /\ nfsUp /\ outages < MaxOutages
  /\ nfsUp' = FALSE /\ outages' = outages + 1
  /\ UNCHANGED <<boardVars, localVars, lockVars, deaths, status, executing, procVars>>

NfsBack ==
  /\ ~nfsUp /\ nfsUp' = TRUE
  /\ UNCHANGED <<boardVars, localVars, lockVars, deaths, outages, status,
                 executing, procVars>>

-----------------------------------------------------------------------------
ClaimStep(w) ==
  \/ ClaimOpen(w) \/ ClaimLock(w) \/ ClaimWrite(w) \/ ClaimRemove(w)
  \/ ClaimFallback(w) \/ ClaimUnlink(w) \/ ClaimRaise(w)

CompleteStep(w) ==
  \/ CompleteWrite(w) \/ CompleteRemove(w) \/ CompleteFallback(w) \/ CompleteRaise(w)

Session(w) ==
  AgeOut(w) \/ Heartbeat(w) \/ SessionStart(w) \/ SessionEnd(w) \/ Die(w)

RecoveryStep(p) ==
  \/ RequeueWrite(p) \/ RequeueRemove(p) \/ RequeueRaise(p)
  \/ \E t \in Tasks : RequeueRead(p, t) \/ RequeueMissing(p, t)

Next ==
  \/ \E w \in Workers :
       \/ \E t \in Tasks : ClaimCheck(w, t) \/ CompleteCheck(w, t)
       \/ ClaimStep(w) \/ CompleteStep(w) \/ Session(w)
       \/ CrashSignal(w) \/ CrashExit(w)
  \/ \E r \in Recoverers :
       \/ CleanupStart(r) \/ CleanupEnd(r) \/ RequeueOpen(r)
       \/ \E t \in Tasks : RequeueStart(r, t)
  \/ \E p \in Procs : RecoveryStep(p)
  \/ \E t \in Tasks : Preempt(t)
  \/ Outage \/ NfsBack

Spec == Init /\ [][Next]_vars
-----------------------------------------------------------------------------
(* Properties *)

\* Every created task keeps a file somewhere: on the board, or in a host's
\* local fallback.  The code removes the old file only after it wrote the
\* new one ("write to pending/ FIRST (safe ordering)", crash_handler.py).
NoTaskLost ==
  \A t \in Tasks :
    \/ t \in pending \union claimed \union completed \union preempted
    \/ \E w \in Workers : t \in localClaimed[w] \union localCompleted[w]

\* As long as NFS did not fail, a task is worked on by one session at a
\* time: what the flock on pending/<t>.lock and the second src.exists() of
\* claim_task are for.  (A claim that falls back to a local file leaves the
\* pending file where it is.)
ExclusiveExecution ==
  outages = 0 =>
    \A v, w \in Workers, t \in Tasks :
      <<v, t>> \in executing /\ <<w, t>> \in executing => v = w

\* A task whose result is on the board is not offered for claiming again.
CompletedNotPending == outages = 0 => completed \intersect pending = {}

\* The claimed file names the session that works on the task: what keeps a
\* second claimer from overwriting claimed_by between write and remove.
ClaimedByExecutor ==
  outages = 0 => \A w \in Workers, t \in claimed : <<w, t>> \in executing => owner[t] = w

\* Who works on a task is who claimed it, and what is done is not claimed again.
ClaimsSound == CompletedNotPending /\ ClaimedByExecutor

\* complete_task never overwrites a result that is already in completed/.
ResultWrittenOnce ==
  [][\A w \in Workers : pc[w] = "cwrite" /\ pc'[w] = "cremove" /\ outages = 0
                        => job[w] \notin completed]_vars

\* A task is in pending/ and in claimed/ at once only while the process that
\* put it there is about to remove the other file: what is left on a quiet
\* board is one file per task, unless a session was killed or NFS failed
\* in between.
DuplicateOnlyInTransit ==
  \A t \in pending \intersect claimed :
    deaths + outages > 0 \/ \E p \in Procs : pc[p] \in {"remove", "rremove"} /\ job[p] = t

\* The retry cap of cleanup_stale_nodes and requeue_task, also when several
\* of them requeue the same task; only the crash handler, which has no cap,
\* passes it, by one for every session it ends.
RetriesCapped ==
  \A t \in Tasks : pTries[t] <= MaxRetries + deaths /\ cTries[t] <= MaxRetries + deaths

\* A session that exits through the crash handler, and is not killed in it,
\* while NFS is up leaves no claim behind.
CrashReleasesOwnClaims ==
  [][\A w \in Workers : mode[w] = "crash" /\ pc'[w] = "dead" /\ deaths' = deaths /\ outages = 0
                        => \A t \in claimed : owner[t] # w]_vars

\* A claim or completion that started ends: nobody waits for the flock for
\* ever, also when its holder dies or unlinks the lock file.
OperationsEnd ==
  \A w \in Workers :
    pc[w] \in ClaimSteps \union CompleteSteps ~> pc[w] \in {"idle", "dead"}

\* With sessions and an NFS server that stay up, every task is completed,
\* unless a more urgent one preempted it.
EveryTaskSettles == <>[](Tasks = completed \union preempted) \/ <>(deaths + outages > 0)

\* `swarm cleanup` "checks each active/busy node: if no heartbeat update
\* within threshold and the registered PID is dead, [it] resets node to idle
\* and requeues any claimed tasks back to pending" (swarm_cli.py).
OrphansRequeued ==
  \A w \in Workers, t \in Tasks :
    (pc[w] = "dead" /\ status[w] = "stale" /\ t \in claimed /\ owner[t] = w
       /\ cTries[t] < MaxRetries)
      ~> (t \notin claimed \/ owner[t] # w \/ pc[w] # "dead")

\* Sessions keep working and `swarm cleanup` is run again and again; deaths,
\* outages, ageing, preemption and new claims after a restart are not forced.
Fairness ==
  /\ \A w \in Workers :
       /\ WF_vars(ClaimStep(w)) /\ WF_vars(CompleteStep(w))
       /\ WF_vars(\E t \in Tasks : CompleteCheck(w, t))
       /\ WF_vars(\E t \in Tasks : ClaimCheck(w, t))
       /\ WF_vars(CrashExit(w))
  /\ \A r \in Recoverers : WF_vars(CleanupStart(r)) /\ WF_vars(RequeueOpen(r)) /\ WF_vars(CleanupEnd(r))
  /\ \A p \in Procs : WF_vars(RecoveryStep(p))

FairSpec == Spec /\ Fairness
=============================================================================
