--------------------------- MODULE TaskBoardProofs ---------------------------
(***************************************************************************)
(* What TLC checks of TaskBoard on two or three sessions, proved for any   *)
(* number of sessions, recoverers, tasks and lock inodes.                  *)
(***************************************************************************)
EXTENDS TaskBoard, FiniteSetTheorems, TLAPS

-----------------------------------------------------------------------------
(* Type correctness, with every recovery path in use *)

\* A process inside an operation has a task to operate on.
JobInv ==
  \A p \in Procs :
    pc[p] \in ClaimSteps \union CompleteSteps \union {"ropen", "rwrite", "rremove"}
      => job[p] \in Tasks

TypeInv == TypeOK /\ JobInv

LEMMA TypeInit == Init => TypeInv
  BY BoundsAssumption DEF Init, TypeInv, TypeOK, JobInv, ClaimSteps,
     CompleteSteps, RequeueSteps, Modes

LEMMA LocalTriesReset ==
  ASSUME localTries \in [Workers -> [Tasks -> Nat]], NEW w \in Workers, NEW t \in Tasks
  PROVE  [localTries EXCEPT ![w][t] = 0] \in [Workers -> [Tasks -> Nat]]
<1>1. [localTries EXCEPT ![w][t] = 0] = [localTries EXCEPT ![w] = [localTries[w] EXCEPT ![t] = 0]]
  OBVIOUS
<1>2. [localTries[w] EXCEPT ![t] = 0] \in [Tasks -> Nat]
  OBVIOUS
<1> QED
  BY <1>1, <1>2

LEMMA TypeNext == TypeInv /\ [Next]_vars => TypeInv'
<1> SUFFICES ASSUME TypeInv, [Next]_vars PROVE TypeInv'
  OBVIOUS
<1> USE DEF TypeInv, TypeOK, JobInv, Procs, ClaimSteps, CompleteSteps,
        RequeueSteps, Modes, boardVars, localVars, lockVars, procVars, envVars,
        Goto, Return
<1>1. ASSUME NEW w \in Workers, NEW t \in Tasks, ClaimCheck(w, t) PROVE TypeInv'
  BY <1>1 DEF ClaimCheck
<1>2. ASSUME NEW w \in Workers, ClaimOpen(w) PROVE TypeInv'
  <2>1. CASE lockFile[job[w]] # NoInode
    BY <1>2, <2>1 DEF ClaimOpen, OpenLock
  <2>2. CASE lockFile[job[w]] = NoInode
    <3>1. PICK i \in Inodes : /\ lockFile' = [lockFile EXCEPT ![job[w]] = i]
                             /\ fd' = [fd EXCEPT ![w] = i]
      BY <1>2, <2>2 DEF ClaimOpen, OpenLock
    <3> QED
      BY <1>2, <3>1 DEF ClaimOpen
  <2> QED
    BY <2>1, <2>2
<1>3. ASSUME NEW w \in Workers, ClaimLock(w) PROVE TypeInv'
  <2>1. CASE job[w] \in pending
    <3>1. /\ pc' = [pc EXCEPT ![w] = "write"]
          /\ holder' = [holder EXCEPT ![fd[w]] = w]
          /\ tries' = [tries EXCEPT ![w] = pTries[job[w]]]
          /\ UNCHANGED <<job, fd, mode>>
      BY <1>3, <2>1 DEF ClaimLock
    <3>2. holder' \in [Inodes -> Procs \union {Nobody}]
      BY <3>1
    <3>3. tries' \in [Procs -> Nat]
      BY <3>1, <2>1
    <3> QED
      BY <1>3, <3>1, <3>2, <3>3, <2>1 DEF ClaimLock
  <2>2. CASE job[w] \notin pending
    <3>1. Return(w) /\ UNCHANGED holder
      BY <1>3, <2>2 DEF ClaimLock
    <3> QED
      BY <1>3, <3>1 DEF ClaimLock
  <2> QED
    BY <2>1, <2>2
<1>4. ASSUME NEW w \in Workers, ClaimWrite(w) PROVE TypeInv'
  BY <1>4 DEF ClaimWrite, WriteClaimed
<1>5. ASSUME NEW w \in Workers, ClaimRemove(w) PROVE TypeInv'
  BY <1>5 DEF ClaimRemove, RemovePending, Unlock
<1>6. ASSUME NEW w \in Workers, ClaimFallback(w) PROVE TypeInv'
  <2>1. pending' \subseteq Tasks /\ pTries' \in [Tasks -> Nat]
    BY <1>6 DEF ClaimFallback, RemovePending
  <2>2. nfsUp' \in BOOLEAN
    BY <1>6, Zenon DEF ClaimFallback
  <2> QED
    BY <1>6, <2>1, <2>2 DEF ClaimFallback, WriteLocalClaimed, Unlock
<1>7. ASSUME NEW w \in Workers, ClaimUnlink(w) PROVE TypeInv'
  BY <1>7 DEF ClaimUnlink
<1>8. ASSUME NEW w \in Workers, ClaimRaise(w) PROVE TypeInv'
  BY <1>8 DEF ClaimRaise, Unlock
<1>9. ASSUME NEW w \in Workers, NEW t \in Tasks, CompleteCheck(w, t) PROVE TypeInv'
  <2>1. CASE t \in claimed \/ t \in localClaimed[w]
    <3>1. /\ mode' = [mode EXCEPT ![w] = IF t \in claimed THEN "nfs" ELSE "local"]
          /\ job' = [job EXCEPT ![w] = t]
          /\ pc' = [pc EXCEPT ![w] = "cwrite"]
          /\ UNCHANGED executing
      BY <1>9, <2>1 DEF CompleteCheck
    <3>2. mode' \in [Procs -> Modes]
      BY <3>1
    <3> QED
      BY <1>9, <3>1, <3>2 DEF CompleteCheck
  <2>2. CASE ~(t \in claimed \/ t \in localClaimed[w])
    <3>1. executing' = executing \ {<<w, t>>} /\ UNCHANGED <<mode, job, pc>>
      BY <1>9, <2>2 DEF CompleteCheck
    <3> QED
      BY <1>9, <3>1 DEF CompleteCheck
  <2> QED
    BY <2>1, <2>2
<1>10. ASSUME NEW w \in Workers, CompleteWrite(w) PROVE TypeInv'
  BY <1>10 DEF CompleteWrite
<1>11. ASSUME NEW w \in Workers, CompleteRemove(w) PROVE TypeInv'
  <2>1. CASE mode[w] = "nfs"
    BY <1>11, <2>1, SMTT(20) DEF CompleteRemove, RemoveClaimed
  <2>2. CASE mode[w] = "local"
    <3>1. RemoveLocalClaimed(w, job[w]) /\ UNCHANGED <<claimed, owner, cTries, localCompleted>>
      BY <1>11, <2>2 DEF CompleteRemove
    <3>2. localTries' \in [Workers -> [Tasks -> Nat]]
      <4>1. job[w] \in Tasks
        BY <1>11 DEF CompleteRemove
      <4> QED
        BY <3>1, <4>1, LocalTriesReset DEF RemoveLocalClaimed
    <3>3. localClaimed' \in [Workers -> SUBSET Tasks]
      BY <3>1 DEF RemoveLocalClaimed
    <3> QED
      BY <1>11, <3>1, <3>2, <3>3 DEF CompleteRemove
  <2> QED
    BY <1>11, <2>1, <2>2 DEF CompleteRemove
<1>12. ASSUME NEW w \in Workers, CompleteFallback(w) PROVE TypeInv'
  <2>1. job[w] \in Tasks
    BY <1>12 DEF CompleteFallback
  <2>2. claimed' \subseteq Tasks /\ owner' \in [Tasks -> Workers \union {Nobody}]
        /\ cTries' \in [Tasks -> Nat]
    <3>1. CASE RemoveClaimed(job[w])
      BY <3>1 DEF RemoveClaimed
    <3>2. CASE UNCHANGED <<claimed, owner, cTries>>
      BY <3>2
    <3> QED
      BY <1>12, <3>1, <3>2 DEF CompleteFallback
  <2>3. nfsUp' \in BOOLEAN
    BY <1>12, Zenon DEF CompleteFallback
  <2>4. localTries' \in [Workers -> [Tasks -> Nat]]
    BY <1>12, <2>1, LocalTriesReset DEF CompleteFallback, RemoveLocalClaimed
  <2>5. localClaimed' \in [Workers -> SUBSET Tasks]
    <3>1. CASE RemoveLocalClaimed(w, job[w])
      BY <3>1 DEF RemoveLocalClaimed
    <3>2. CASE UNCHANGED localClaimed
      BY <3>2
    <3> QED
      BY <1>12, <3>1, <3>2 DEF CompleteFallback
  <2>6. localCompleted' \in [Workers -> SUBSET Tasks]
    BY <1>12, <2>1 DEF CompleteFallback
  <2>7. JobInv'
    BY <1>12 DEF CompleteFallback
  <2> QED
    BY <1>12, <2>2, <2>3, <2>4, <2>5, <2>6, <2>7 DEF CompleteFallback
<1>13. ASSUME NEW w \in Workers, CompleteRaise(w) PROVE TypeInv'
  BY <1>13 DEF CompleteRaise
<1>14. ASSUME NEW w \in Workers, AgeOut(w) PROVE TypeInv'
  BY <1>14 DEF AgeOut
<1>15. ASSUME NEW w \in Workers, Heartbeat(w) PROVE TypeInv'
  BY <1>15 DEF Heartbeat, Reconcile, MarkStale
<1>16. ASSUME NEW w \in Workers, SessionStart(w) PROVE TypeInv'
  BY <1>16 DEF SessionStart, Reconcile, MarkStale
<1>17. ASSUME NEW w \in Workers, SessionEnd(w) PROVE TypeInv'
  BY <1>17, BoundsAssumption DEF SessionEnd, Reconcile
<1>18. ASSUME NEW w \in Workers, Die(w) PROVE TypeInv'
  BY <1>18, BoundsAssumption DEF Die, Unlock
<1>19. ASSUME NEW w \in Workers, CrashSignal(w) PROVE TypeInv'
  BY <1>19, BoundsAssumption DEF CrashSignal, Reconcile
<1>20. ASSUME NEW w \in Workers, CrashExit(w) PROVE TypeInv'
  BY <1>20 DEF CrashExit, Unlock
<1>21. ASSUME NEW r \in Recoverers, CleanupStart(r) PROVE TypeInv'
  BY <1>21 DEF CleanupStart
<1>22. ASSUME NEW r \in Recoverers, CleanupEnd(r) PROVE TypeInv'
  BY <1>22 DEF CleanupEnd
<1>23. ASSUME NEW r \in Recoverers, NEW t \in Tasks, RequeueStart(r, t) PROVE TypeInv'
  BY <1>23 DEF RequeueStart
<1>24. ASSUME NEW p \in Procs, NEW t \in Tasks, RequeueRead(p, t) PROVE TypeInv'
  <2>1. CASE /\ job' = [job EXCEPT ![p] = t]
             /\ tries' = [tries EXCEPT ![p] = cTries[t] + 1]
             /\ pc' = [pc EXCEPT ![p] = IF mode[p] = "cleanup" THEN "ropen" ELSE "rwrite"]
    BY <1>24, <2>1 DEF RequeueRead
  <2>2. CASE UNCHANGED <<job, tries, pc>>
    BY <1>24, <2>2 DEF RequeueRead
  <2> QED
    BY <1>24, <2>1, <2>2 DEF RequeueRead
<1>25. ASSUME NEW p \in Procs, NEW t \in Tasks, RequeueMissing(p, t) PROVE TypeInv'
  <2>1. CASE mode[p] = "cleanup"
    <3>1. /\ Return(p)
          /\ todo' = [todo EXCEPT ![p] = {}]
          /\ cleaned' = [cleaned EXCEPT ![p] = {}]
      BY <1>25, <2>1 DEF RequeueMissing
    <3>2. todo' \in [Procs -> SUBSET Tasks] /\ cleaned' \in [Procs -> SUBSET Workers]
      BY <3>1
    <3> QED
      BY <1>25, <3>1, <3>2 DEF RequeueMissing
  <2>2. CASE mode[p] # "cleanup"
    BY <1>25, <2>2 DEF RequeueMissing
  <2> QED
    BY <2>1, <2>2
<1>26. ASSUME NEW p \in Procs, RequeueOpen(p) PROVE TypeInv'
  <2>1. CASE lockFile[job[p]] # NoInode
    BY <1>26, <2>1 DEF RequeueOpen, OpenLock
  <2>2. CASE lockFile[job[p]] = NoInode
    <3>1. PICK i \in Inodes : /\ lockFile' = [lockFile EXCEPT ![job[p]] = i]
                             /\ fd' = [fd EXCEPT ![p] = i]
      BY <1>26, <2>2 DEF RequeueOpen, OpenLock
    <3> QED
      BY <1>26, <3>1 DEF RequeueOpen
  <2> QED
    BY <2>1, <2>2
<1>27. ASSUME NEW p \in Procs, RequeueWrite(p) PROVE TypeInv'
  BY <1>27 DEF RequeueWrite, WritePending
<1>28. ASSUME NEW p \in Procs, RequeueRemove(p) PROVE TypeInv'
  <2>1. CASE pc'[p] = "idle"
    <3>1. pc' = [pc EXCEPT ![p] = "idle"] /\ job' = [job EXCEPT ![p] = NoTask]
          /\ fd' = [fd EXCEPT ![p] = NoInode] /\ tries' = [tries EXCEPT ![p] = 0]
          /\ mode' = [mode EXCEPT ![p] = "none"]
      BY <1>28, <2>1 DEF RequeueRemove
    <3>2. todo' \in [Procs -> SUBSET Tasks] /\ cleaned' \in [Procs -> SUBSET Workers]
      BY <1>28 DEF RequeueRemove
    <3> QED
      BY <1>28, <3>1, <3>2 DEF RequeueRemove, RemoveClaimed
  <2>2. CASE pc'[p] # "idle"
    <3>1. pc' = [pc EXCEPT ![p] = "scan"] /\ job' = [job EXCEPT ![p] = NoTask]
          /\ tries' = [tries EXCEPT ![p] = 0] /\ UNCHANGED <<fd, mode, todo, cleaned>>
      BY <1>28, <2>2 DEF RequeueRemove
    <3> QED
      BY <1>28, <3>1 DEF RequeueRemove, RemoveClaimed
  <2> QED
    BY <2>1, <2>2
<1>29. ASSUME NEW p \in Procs, RequeueRaise(p) PROVE TypeInv'
  <2>1. CASE mode[p] \in {"cleanup", "requeue"}
    <3>1. /\ Return(p)
          /\ todo' = [todo EXCEPT ![p] = {}]
          /\ cleaned' = [cleaned EXCEPT ![p] = {}]
      BY <1>29, <2>1 DEF RequeueRaise
    <3>2. todo' \in [Procs -> SUBSET Tasks] /\ cleaned' \in [Procs -> SUBSET Workers]
      BY <3>1
    <3> QED
      BY <1>29, <3>1, <3>2 DEF RequeueRaise
  <2>2. CASE mode[p] = "crash" /\ pc[p] \in {"rwrite", "rremove"}
    <3>1. /\ pc' = [pc EXCEPT ![p] = "scan"] /\ job' = [job EXCEPT ![p] = NoTask]
          /\ tries' = [tries EXCEPT ![p] = 0] /\ UNCHANGED <<fd, mode, todo, cleaned>>
      BY <1>29, <2>2 DEF RequeueRaise
    <3> QED
      BY <1>29, <3>1 DEF RequeueRaise
  <2>3. CASE mode[p] = "crash" /\ pc[p] = "scan"
    <3>1. /\ UNCHANGED <<pc, job, fd, tries, mode, cleaned>>
          /\ \E t \in todo[p] : todo' = [todo EXCEPT ![p] = @ \ {t}]
      BY <1>29, <2>3 DEF RequeueRaise
    <3>2. todo' \in [Procs -> SUBSET Tasks]
      BY <3>1
    <3> QED
      BY <1>29, <3>1, <3>2 DEF RequeueRaise
  <2> QED
    BY <1>29, <2>1, <2>2, <2>3 DEF RequeueRaise
<1>30. ASSUME NEW t \in Tasks, Preempt(t) PROVE TypeInv'
  BY <1>30 DEF Preempt, RemoveClaimed
<1>31. CASE Outage
  <2>1. nfsUp' \in BOOLEAN
    BY <1>31, Zenon DEF Outage
  <2>2. outages' \in 0..MaxOutages
    BY <1>31, BoundsAssumption DEF Outage
  <2> QED
    BY <1>31, <2>1, <2>2 DEF Outage
<1>32. CASE NfsBack
  BY <1>32 DEF NfsBack
<1>33. CASE UNCHANGED vars
  BY <1>33 DEF vars
<1> QED
  BY <1>1, <1>2, <1>3, <1>4, <1>5, <1>6, <1>7, <1>8, <1>9, <1>10, <1>11,
     <1>12, <1>13, <1>14, <1>15, <1>16, <1>17, <1>18, <1>19, <1>20, <1>21,
     <1>22, <1>23, <1>24, <1>25, <1>26, <1>27, <1>28, <1>29, <1>30, <1>31,
     <1>32, <1>33 DEF Next, ClaimStep, CompleteStep, Session, RecoveryStep, Procs

\* In every deployment the board's variables keep their types.
THEOREM TypeCorrect == Spec => []TypeOK
<1>1. Spec => []TypeInv
  BY TypeInit, TypeNext, PTL DEF Spec
<1>2. TypeInv => TypeOK
  BY DEF TypeInv
<1> QED
  BY <1>1, <1>2, PTL
-----------------------------------------------------------------------------
(* No task is lost while no recovery path moves claimed files back *)

\* The task has a file outside tasks/pending.
Kept(t) ==
  \/ t \in claimed \union completed \union preempted
  \/ \E w \in Workers : t \in localClaimed[w] \union localCompleted[w]

\* What makes the removals of claim_task and complete_task safe: the task's
\* next file is there before the remove of the old one is reached.
WrittenFirst ==
  \A w \in Workers :
    /\ pc[w] = "remove" => Kept(job[w])
    /\ pc[w] = "cremove" => job[w] \in completed

\* No process is in cleanup_stale_nodes, a crash handler or requeue_task.
NoRequeue == \A p \in Procs : pc[p] \notin RequeueSteps

LossInv == TypeInv /\ NoRequeue /\ WrittenFirst /\ NoTaskLost

\* The steps that are left when claimed files only go to preempted/.
QuietStep ==
  \/ \E w \in Workers :
       \/ \E t \in Tasks : ClaimCheck(w, t) \/ CompleteCheck(w, t)
       \/ ClaimStep(w) \/ CompleteStep(w) \/ Session(w)
  \/ \E t \in Tasks : Preempt(t)
  \/ Outage \/ NfsBack \/ UNCHANGED vars

LEMMA OnlyQuietSteps ==
  ASSUME Recovery \subseteq {"preempt"}, NoRequeue, [Next]_vars
  PROVE  QuietStep
<1>1. ASSUME NEW w \in Workers, CrashSignal(w) \/ CrashExit(w) PROVE FALSE
  BY <1>1 DEF CrashSignal, CrashExit, NoRequeue, RequeueSteps, Procs
<1>2. ASSUME NEW r \in Recoverers,
             \/ CleanupStart(r) \/ CleanupEnd(r) \/ RequeueOpen(r)
             \/ \E t \in Tasks : RequeueStart(r, t)
      PROVE  FALSE
  BY <1>2 DEF CleanupStart, CleanupEnd, RequeueOpen, RequeueStart, NoRequeue, RequeueSteps, Procs
<1>3. ASSUME NEW p \in Procs, RecoveryStep(p) PROVE FALSE
  BY <1>3 DEF RecoveryStep, RequeueWrite, RequeueRemove, RequeueRaise,
     RequeueRead, RequeueMissing, NoRequeue, RequeueSteps
<1> QED
  BY <1>1, <1>2, <1>3 DEF Next, QuietStep

LEMMA LossInit == Init => LossInv
  BY TypeInit DEF Init, LossInv, NoRequeue, RequeueSteps, WrittenFirst, NoTaskLost, Procs

\* A file outside tasks/pending is never removed before the next one is there.
LEMMA KeptStays ==
  ASSUME LossInv, QuietStep, NEW u \in Tasks, Kept(u)
  PROVE  Kept(u)'
<1> USE DEF Kept
<1>a. TypeOK /\ WrittenFirst
  BY DEF LossInv, TypeInv
<1>0. CASE UNCHANGED <<claimed, completed, preempted, localClaimed, localCompleted>>
  BY <1>0
<1>1. ASSUME NEW w \in Workers, ClaimWrite(w) PROVE Kept(u)'
  BY <1>1, <1>a DEF ClaimWrite, WriteClaimed, localVars
<1>2. ASSUME NEW w \in Workers, ClaimFallback(w) PROVE Kept(u)'
  BY <1>2, <1>a DEF ClaimFallback, WriteLocalClaimed, TypeOK
<1>3. ASSUME NEW w \in Workers, CompleteWrite(w) PROVE Kept(u)'
  BY <1>3, <1>a DEF CompleteWrite, localVars
<1>4. ASSUME NEW w \in Workers, CompleteRemove(w) PROVE Kept(u)'
  <2>1. job[w] \in completed' /\ completed' = completed /\ preempted' = preempted
    BY <1>4, <1>a DEF CompleteRemove, WrittenFirst
  <2>2. claimed \ {job[w]} \subseteq claimed'
    BY <1>4 DEF CompleteRemove, RemoveClaimed
  <2>3. ASSUME NEW v \in Workers
        PROVE  /\ localClaimed[v] \ {job[w]} \subseteq localClaimed'[v]
               /\ localCompleted[v] = localCompleted'[v]
    <3>1. CASE UNCHANGED localVars
      BY <3>1 DEF localVars
    <3>2. CASE RemoveLocalClaimed(w, job[w]) /\ UNCHANGED localCompleted
      BY <1>a, <3>2 DEF RemoveLocalClaimed, TypeOK
    <3> QED
      BY <1>4, <3>1, <3>2 DEF CompleteRemove
  <2> QED
    BY <2>1, <2>2, <2>3
<1>5. ASSUME NEW w \in Workers, CompleteFallback(w) PROVE Kept(u)'
  <2>1. job[w] \in localCompleted'[w] /\ completed' = completed /\ preempted' = preempted
    BY <1>5, <1>a DEF CompleteFallback, TypeOK
  <2>2. claimed \ {job[w]} \subseteq claimed'
    BY <1>5 DEF CompleteFallback, RemoveClaimed
  <2>3. ASSUME NEW v \in Workers
        PROVE  /\ localClaimed[v] \ {job[w]} \subseteq localClaimed'[v]
               /\ localCompleted[v] \subseteq localCompleted'[v]
    BY <1>5, <1>a DEF CompleteFallback, RemoveLocalClaimed, TypeOK
  <2> QED
    BY <2>1, <2>2, <2>3
<1>6. ASSUME NEW w \in Workers, Heartbeat(w) PROVE Kept(u)'
  BY <1>6, <1>a DEF Heartbeat, Reconcile, TypeOK
<1>7. ASSUME NEW w \in Workers, SessionStart(w) PROVE Kept(u)'
  BY <1>7, <1>a DEF SessionStart, Reconcile, TypeOK
<1>8. ASSUME NEW w \in Workers, SessionEnd(w) PROVE Kept(u)'
  BY <1>8, <1>a DEF SessionEnd, Reconcile, TypeOK
<1>9. ASSUME NEW t \in Tasks, Preempt(t) PROVE Kept(u)'
  BY <1>9, <1>a DEF Preempt, RemoveClaimed, localVars
<1> QED
  BY <1>0, <1>1, <1>2, <1>3, <1>4, <1>5, <1>6, <1>7, <1>8, <1>9
     DEF QuietStep, ClaimStep, CompleteStep, Session, ClaimCheck, ClaimOpen, ClaimLock,
         ClaimRemove, ClaimUnlink, ClaimRaise, CompleteCheck, CompleteRaise, AgeOut, Die,
         Outage, NfsBack, boardVars, localVars, vars

LEMMA LossNext ==
  ASSUME Recovery \subseteq {"preempt"}, LossInv, [Next]_vars
  PROVE  LossInv'
<1>0. TypeInv' /\ QuietStep
  BY TypeNext, OnlyQuietSteps DEF LossInv
<1>a. \A u \in Tasks : Kept(u) => Kept(u)'
  BY <1>0, KeptStays
<1> SUFFICES NoRequeue' /\ WrittenFirst' /\ pending \subseteq pending' \union {u \in Tasks : Kept(u)'}
  BY <1>0, <1>a DEF LossInv, NoTaskLost, Kept
<1> DEFINE Goal == /\ NoRequeue' /\ WrittenFirst'
                   /\ pending \subseteq pending' \union {u \in Tasks : Kept(u)'}
<1> USE DEF LossInv, NoRequeue, WrittenFirst, TypeInv, TypeOK, JobInv, ClaimSteps, CompleteSteps,
        Procs, RequeueSteps, boardVars, localVars, procVars, Goto, Return
<1>1. ASSUME NEW w \in Workers, NEW t \in Tasks, ClaimCheck(w, t) PROVE Goal
  BY <1>1, <1>a DEF ClaimCheck
<1>2. ASSUME NEW w \in Workers, ClaimOpen(w) PROVE Goal
  BY <1>2, <1>a DEF ClaimOpen
<1>3. ASSUME NEW w \in Workers, ClaimLock(w) PROVE Goal
  BY <1>3, <1>a, SMTT(30) DEF ClaimLock
<1>4. ASSUME NEW w \in Workers, ClaimWrite(w) PROVE Goal
  BY <1>4, <1>a DEF ClaimWrite, WriteClaimed, Kept
<1>5. ASSUME NEW w \in Workers, ClaimRemove(w) PROVE Goal
  BY <1>5, <1>a DEF ClaimRemove, RemovePending
<1>6. ASSUME NEW w \in Workers, ClaimFallback(w) PROVE Goal
  <2>1. Kept(job[w])'
    BY <1>6 DEF ClaimFallback, WriteLocalClaimed, Kept
  <2> QED
    BY <1>6, <1>a, <2>1 DEF ClaimFallback, RemovePending
<1>7. ASSUME NEW w \in Workers, ClaimUnlink(w) PROVE Goal
  BY <1>7, <1>a DEF ClaimUnlink
<1>8. ASSUME NEW w \in Workers, ClaimRaise(w) PROVE Goal
  BY <1>8, <1>a DEF ClaimRaise
<1>9. ASSUME NEW w \in Workers, NEW t \in Tasks, CompleteCheck(w, t) PROVE Goal
  BY <1>9, <1>a DEF CompleteCheck
<1>10. ASSUME NEW w \in Workers, CompleteWrite(w) PROVE Goal
  BY <1>10, <1>a DEF CompleteWrite
<1>11. ASSUME NEW w \in Workers, CompleteRemove(w) PROVE Goal
  BY <1>11, <1>a DEF CompleteRemove
<1>12. ASSUME NEW w \in Workers, CompleteFallback(w) PROVE Goal
  BY <1>12, <1>a DEF CompleteFallback
<1>13. ASSUME NEW w \in Workers, CompleteRaise(w) PROVE Goal
  BY <1>13, <1>a DEF CompleteRaise
<1>14. ASSUME NEW w \in Workers, AgeOut(w) PROVE Goal
  BY <1>14, <1>a DEF AgeOut
<1>15. ASSUME NEW w \in Workers, Heartbeat(w) PROVE Goal
  BY <1>15, <1>a DEF Heartbeat, Reconcile
<1>16. ASSUME NEW w \in Workers, SessionStart(w) PROVE Goal
  BY <1>16, <1>a DEF SessionStart, Reconcile
<1>17. ASSUME NEW w \in Workers, SessionEnd(w) PROVE Goal
  BY <1>17, <1>a DEF SessionEnd, Reconcile
<1>18. ASSUME NEW w \in Workers, Die(w) PROVE Goal
  BY <1>18, <1>a DEF Die
<1>19. ASSUME NEW t \in Tasks, Preempt(t) PROVE Goal
  BY <1>19, <1>a DEF Preempt
<1>20. CASE Outage \/ NfsBack \/ UNCHANGED vars
  BY <1>20, <1>a DEF Outage, NfsBack, vars
<1> HIDE DEF Goal
<1> QED
  BY <1>0, <1>1, <1>2, <1>3, <1>4, <1>5, <1>6, <1>7, <1>8, <1>9, <1>10, <1>11, <1>12, <1>13, <1>14,
       <1>15, <1>16, <1>17, <1>18, <1>19, <1>20
     DEF QuietStep, ClaimStep, CompleteStep, Session, Goal

\* claim_task and complete_task lose no task, whatever sessions die and
\* however often NFS goes away, while files only move on to preempted/.
THEOREM NoLossWithoutRequeue ==
  ASSUME Recovery \subseteq {"preempt"}
  PROVE  Spec => []NoTaskLost
<1>1. LossInv /\ [Next]_vars => LossInv'
  BY LossNext
<1>2. Spec => []LossInv
  BY LossInit, <1>1, PTL DEF Spec
<1>3. LossInv => NoTaskLost
  BY DEF LossInv
<1> QED
  BY <1>2, <1>3, PTL

-----------------------------------------------------------------------------
(* One session per task while NFS stays healthy and nothing is requeued *)

\* claim_task of t is past the point where t is no longer offered, or it
\* has returned and w works on t.
Done(w, t) == <<w, t>> \in executing \/ (pc[w] = "unlink" /\ job[w] = t)

\* No file is in a local fallback, and there is no reason for one.
NoFallback ==
  /\ nfsUp
  /\ \A w \in Workers : localClaimed[w] = {} /\ localCompleted[w] = {}

\* The lock file a claimer has open is the one every later claimer opens,
\* for as long as the task is pending; and who is past flock has the lock.
LockInv ==
  \A w \in Workers :
    /\ pc[w] \in {"lock", "write", "remove"}
         => /\ fd[w] \in Inodes
            /\ job[w] \in pending => lockFile[job[w]] = fd[w]
    /\ pc[w] \in {"write", "remove"} => holder[fd[w]] = w /\ job[w] \in pending

\* Who is done claiming t is alone with it, and the claimed file names it.
DoneInv ==
  \A w \in Workers, t \in Tasks :
    Done(w, t) => /\ t \notin pending
                  /\ \A v \in Workers : Done(v, t) => v = w
                  /\ t \in claimed => owner[t] = w
                  /\ t \in completed => pc[w] = "cremove" /\ job[w] = t

\* The claim written under the lock is still the claimer's when src goes.
WriteInv ==
  \A w \in Workers :
    /\ pc[w] = "remove" /\ job[w] \in claimed => owner[job[w]] = w
    /\ pc[w] \in CompleteSteps => <<w, job[w]>> \in executing

DoneNotPending == completed \intersect pending = {}

ClaimInv ==
  /\ TypeInv /\ NoRequeue /\ NoFallback
  /\ LockInv /\ DoneInv /\ WriteInv /\ DoneNotPending

LEMMA ClaimInit == Init => ClaimInv
  BY TypeInit DEF Init, ClaimInv, NoRequeue, RequeueSteps, NoFallback, LockInv, DoneInv,
     WriteInv, DoneNotPending, Done, CompleteSteps, Procs

\* Two sessions past flock for the same task: they hold the same inode.
LEMMA LockUnique ==
  ASSUME LockInv, NEW v \in Workers, NEW w \in Workers,
         pc[v] \in {"write", "remove"}, pc[w] \in {"write", "remove"}, job[v] = job[w]
  PROVE  v = w
  BY DEF LockInv

LEMMA ClaimNext ==
  ASSUME Recovery \subseteq {"preempt"}, outages = 0, outages' = 0, ClaimInv, [Next]_vars
  PROVE  ClaimInv'
<1>0. TypeInv' /\ QuietStep
  BY TypeNext, OnlyQuietSteps DEF ClaimInv
<1>a. nfsUp /\ LockInv /\ DoneInv /\ WriteInv
  BY DEF ClaimInv, NoFallback
<1> DEFINE Goal == NoRequeue' /\ NoFallback' /\ LockInv' /\ DoneInv' /\ WriteInv' /\ DoneNotPending'
<1> SUFFICES Goal
  BY <1>0 DEF ClaimInv
<1> USE DEF ClaimInv, TypeInv, TypeOK, Procs, boardVars, localVars, lockVars, procVars, envVars,
     Goto, Return
<1>1. ASSUME NEW w \in Workers, NEW t \in Tasks, ClaimCheck(w, t) PROVE Goal
  <2>1. NoRequeue' /\ NoFallback'
    BY <1>1 DEF ClaimCheck, NoRequeue, NoFallback, RequeueSteps
  <2>2. LockInv'
    BY <1>1, <1>a, LockUnique, NamesAssumption DEF ClaimCheck, LockInv, DoneInv, Done
  <2>3. DoneInv'
    BY <1>1, <1>a, LockUnique DEF ClaimCheck, LockInv, DoneInv, WriteInv, Done, CompleteSteps,
         NoFallback, DoneNotPending
  <2>4. WriteInv'
    BY <1>1, <1>a, LockUnique DEF ClaimCheck, LockInv, WriteInv, CompleteSteps, NoFallback
  <2>5. DoneNotPending'
    BY <1>1, <1>a DEF ClaimCheck, DoneNotPending, DoneInv, WriteInv, Done, CompleteSteps, NoFallback
  <2> QED
    BY <2>1, <2>2, <2>3, <2>4, <2>5
<1>2. ASSUME NEW w \in Workers, ClaimOpen(w) PROVE Goal
  <2>1. NoRequeue' /\ NoFallback'
    BY <1>2 DEF ClaimOpen, OpenLock, NoRequeue, NoFallback, RequeueSteps
  <2>2. LockInv'
    <3>1. CASE lockFile[job[w]] # NoInode
      BY <1>2, <3>1, <1>a DEF ClaimOpen, OpenLock, LockInv, JobInv, ClaimSteps
    <3>2. CASE lockFile[job[w]] = NoInode
      <4>1. PICK i \in Inodes : /\ lockFile' = [lockFile EXCEPT ![job[w]] = i]
                               /\ fd' = [fd EXCEPT ![w] = i]
        BY <1>2, <3>2 DEF ClaimOpen, OpenLock
      <4>2. job[w] \in Tasks
        BY <1>2 DEF ClaimOpen, JobInv, ClaimSteps
      <4>3. ASSUME NEW v \in Workers, v # w, pc[v] \in {"lock", "write", "remove"},
                   job[v] \in pending
            PROVE  job[v] # job[w]
        BY <1>a, <3>2, <4>3, NamesAssumption DEF LockInv
      <4> QED
        BY <1>2, <4>1, <4>2, <4>3, <1>a DEF ClaimOpen, LockInv
    <3> QED
      BY <3>1, <3>2
  <2>3. DoneInv'
    BY <1>2, <1>a, LockUnique DEF ClaimOpen, OpenLock, LockInv, DoneInv, WriteInv, Done,
         CompleteSteps, NoFallback, DoneNotPending
  <2>4. WriteInv'
    BY <1>2, <1>a, LockUnique DEF ClaimOpen, OpenLock, LockInv, WriteInv, CompleteSteps, NoFallback
  <2>5. DoneNotPending'
    BY <1>2, <1>a DEF ClaimOpen, OpenLock, DoneNotPending, DoneInv, WriteInv, Done, CompleteSteps,
         NoFallback
  <2> QED
    BY <2>1, <2>2, <2>3, <2>4, <2>5
<1>3. ASSUME NEW w \in Workers, ClaimLock(w) PROVE Goal
  <2>1. NoRequeue' /\ NoFallback'
    BY <1>3 DEF ClaimLock, NoRequeue, NoFallback, RequeueSteps
  <2>2. LockInv'
    BY <1>3, <1>a, LockUnique, NamesAssumption DEF ClaimLock, LockInv, DoneInv, Done
  <2>3. DoneInv'
    BY <1>3, <1>a, LockUnique DEF ClaimLock, LockInv, DoneInv, WriteInv, Done, CompleteSteps,
         NoFallback, DoneNotPending
  <2>4. WriteInv'
    BY <1>3, <1>a, LockUnique DEF ClaimLock, LockInv, WriteInv, CompleteSteps, NoFallback
  <2>5. DoneNotPending'
    BY <1>3, <1>a DEF ClaimLock, DoneNotPending, DoneInv, WriteInv, Done, CompleteSteps, NoFallback
  <2> QED
    BY <2>1, <2>2, <2>3, <2>4, <2>5
<1>4. ASSUME NEW w \in Workers, ClaimWrite(w) PROVE Goal
  <2>1. NoRequeue' /\ NoFallback'
    BY <1>4 DEF ClaimWrite, WriteClaimed, NoRequeue, NoFallback, RequeueSteps
  <2>2. LockInv'
    BY <1>4, <1>a, LockUnique, NamesAssumption DEF ClaimWrite, WriteClaimed, LockInv, DoneInv, Done
  <2>3. DoneInv'
    BY <1>4, <1>a, LockUnique DEF ClaimWrite, WriteClaimed, LockInv, DoneInv, WriteInv, Done,
         CompleteSteps, NoFallback, DoneNotPending
  <2>4. WriteInv'
    BY <1>4, <1>a, LockUnique DEF ClaimWrite, WriteClaimed, LockInv, WriteInv, CompleteSteps,
         NoFallback
  <2>5. DoneNotPending'
    BY <1>4, <1>a DEF ClaimWrite, WriteClaimed, DoneNotPending, DoneInv, WriteInv, Done,
         CompleteSteps, NoFallback
  <2> QED
    BY <2>1, <2>2, <2>3, <2>4, <2>5
<1>5. ASSUME NEW w \in Workers, ClaimRemove(w) PROVE Goal
  <2>1. NoRequeue' /\ NoFallback'
    BY <1>5 DEF ClaimRemove, RemovePending, Unlock, NoRequeue, NoFallback, RequeueSteps
  <2>2. LockInv'
    BY <1>5, <1>a, LockUnique, NamesAssumption
       DEF ClaimRemove, RemovePending, Unlock, LockInv, DoneInv, Done
  <2>3. DoneInv'
    BY <1>5, <1>a, LockUnique DEF ClaimRemove, RemovePending, Unlock, LockInv, DoneInv, WriteInv,
         Done, CompleteSteps, NoFallback, DoneNotPending
  <2>4. WriteInv'
    BY <1>5, <1>a, LockUnique DEF ClaimRemove, RemovePending, Unlock, LockInv, WriteInv,
         CompleteSteps, NoFallback
  <2>5. DoneNotPending'
    BY <1>5, <1>a DEF ClaimRemove, RemovePending, Unlock, DoneNotPending, DoneInv, WriteInv, Done,
         CompleteSteps, NoFallback
  <2> QED
    BY <2>1, <2>2, <2>3, <2>4, <2>5
<1>6. ASSUME NEW w \in Workers, ClaimUnlink(w) PROVE Goal
  <2>1. NoRequeue' /\ NoFallback'
    BY <1>6 DEF ClaimUnlink, NoRequeue, NoFallback, RequeueSteps
  <2>2. LockInv'
    BY <1>6, <1>a, LockUnique, NamesAssumption, ZenonT(30) DEF ClaimUnlink, LockInv, DoneInv, Done
  <2>3. DoneInv'
    BY <1>6, <1>a, LockUnique DEF ClaimUnlink, LockInv, DoneInv, WriteInv, Done, CompleteSteps,
         NoFallback, DoneNotPending
  <2>4. WriteInv'
    BY <1>6, <1>a, LockUnique DEF ClaimUnlink, LockInv, WriteInv, CompleteSteps, NoFallback
  <2>5. DoneNotPending'
    BY <1>6, <1>a DEF ClaimUnlink, DoneNotPending, DoneInv, WriteInv, Done, CompleteSteps,
         NoFallback
  <2> QED
    BY <2>1, <2>2, <2>3, <2>4, <2>5
<1>7. ASSUME NEW w \in Workers, NEW t \in Tasks, CompleteCheck(w, t) PROVE Goal
  <2>1. NoRequeue' /\ NoFallback'
    BY <1>7 DEF CompleteCheck, NoRequeue, NoFallback, RequeueSteps
  <2>2. LockInv'
    BY <1>7, <1>a, LockUnique, NamesAssumption DEF CompleteCheck, LockInv, DoneInv, Done
  <2>3. DoneInv'
    BY <1>7, <1>a, LockUnique DEF CompleteCheck, LockInv, DoneInv, WriteInv, Done, CompleteSteps,
         NoFallback, DoneNotPending
  <2>4. WriteInv'
    <3>1. CASE executing' = executing
      BY <1>7, <3>1, <1>a DEF CompleteCheck, WriteInv, CompleteSteps, NoFallback
    <3>2. CASE executing' = executing \ {<<w, t>>} /\ UNCHANGED <<job, pc>>
      BY <1>7, <3>2, <1>a DEF CompleteCheck, WriteInv, CompleteSteps
    <3> QED
      BY <1>7, <3>1, <3>2 DEF CompleteCheck
  <2>5. DoneNotPending'
    BY <1>7, <1>a DEF CompleteCheck, DoneNotPending, DoneInv, WriteInv, Done, CompleteSteps,
         NoFallback
  <2> QED
    BY <2>1, <2>2, <2>3, <2>4, <2>5
<1>8. ASSUME NEW w \in Workers, CompleteWrite(w) PROVE Goal
  <2>1. NoRequeue' /\ NoFallback'
    BY <1>8 DEF CompleteWrite, NoRequeue, NoFallback, RequeueSteps
  <2>2. LockInv'
    BY <1>8, <1>a, LockUnique, NamesAssumption DEF CompleteWrite, LockInv, DoneInv, Done
  <2>3. DoneInv'
    BY <1>8, <1>a, LockUnique, ZenonT(30)
       DEF CompleteWrite, LockInv, DoneInv, WriteInv, Done, CompleteSteps, NoFallback,
        DoneNotPending
  <2>4. WriteInv'
    BY <1>8, <1>a, LockUnique DEF CompleteWrite, LockInv, WriteInv, CompleteSteps, NoFallback
  <2>5. DoneNotPending'
    BY <1>8, <1>a DEF CompleteWrite, DoneNotPending, DoneInv, WriteInv, Done, CompleteSteps,
         NoFallback
  <2> QED
    BY <2>1, <2>2, <2>3, <2>4, <2>5
<1>9. ASSUME NEW w \in Workers, CompleteRemove(w) PROVE Goal
  <2>1. NoRequeue' /\ NoFallback'
    <3>1. NoRequeue' /\ nfsUp' /\ localCompleted' = localCompleted
      BY <1>9, <1>a DEF CompleteRemove, RemoveLocalClaimed, NoRequeue, RequeueSteps
    <3>2. ASSUME NEW v \in Workers PROVE localClaimed'[v] = {}
      BY <1>9, SMTT(20) DEF CompleteRemove, RemoveLocalClaimed, NoFallback
    <3> QED
      BY <3>1, <3>2 DEF NoFallback
  <2>2. LockInv'
    BY <1>9, <1>a, LockUnique, NamesAssumption
       DEF CompleteRemove, RemoveClaimed, RemoveLocalClaimed, LockInv, DoneInv, Done
  <2>3. DoneInv'
    BY <1>9, <1>a, LockUnique DEF CompleteRemove, RemoveClaimed, RemoveLocalClaimed, LockInv,
         DoneInv, WriteInv, Done, CompleteSteps, NoFallback, DoneNotPending
  <2>4. WriteInv'
    BY <1>9, <1>a, LockUnique DEF CompleteRemove, RemoveClaimed, RemoveLocalClaimed, LockInv,
         WriteInv, CompleteSteps, NoFallback
  <2>5. DoneNotPending'
    BY <1>9, <1>a DEF CompleteRemove, RemoveClaimed, RemoveLocalClaimed, DoneNotPending, DoneInv,
         WriteInv, Done, CompleteSteps, NoFallback
  <2> QED
    BY <2>1, <2>2, <2>3, <2>4, <2>5
<1>10. ASSUME NEW w \in Workers, AgeOut(w) PROVE Goal
  <2>1. NoRequeue' /\ NoFallback'
    BY <1>10 DEF AgeOut, NoRequeue, NoFallback, RequeueSteps
  <2>2. LockInv'
    BY <1>10, <1>a, LockUnique, NamesAssumption DEF AgeOut, LockInv, DoneInv, Done
  <2>3. DoneInv'
    BY <1>10, <1>a, LockUnique DEF AgeOut, LockInv, DoneInv, WriteInv, Done, CompleteSteps,
         NoFallback, DoneNotPending
  <2>4. WriteInv'
    BY <1>10, <1>a, LockUnique DEF AgeOut, LockInv, WriteInv, CompleteSteps, NoFallback
  <2>5. DoneNotPending'
    BY <1>10, <1>a DEF AgeOut, DoneNotPending, DoneInv, WriteInv, Done, CompleteSteps, NoFallback
  <2> QED
    BY <2>1, <2>2, <2>3, <2>4, <2>5
<1>11. ASSUME NEW w \in Workers, Heartbeat(w) PROVE Goal
  <2>1. NoRequeue' /\ NoFallback'
    BY <1>11 DEF Heartbeat, Reconcile, NoRequeue, NoFallback, RequeueSteps
  <2>2. LockInv'
    BY <1>11, <1>a, LockUnique, NamesAssumption DEF Heartbeat, Reconcile, LockInv, DoneInv, Done
  <2>3. DoneInv'
    BY <1>11, <1>a, LockUnique DEF Heartbeat, Reconcile, LockInv, DoneInv, WriteInv, Done,
         CompleteSteps, NoFallback, DoneNotPending
  <2>4. WriteInv'
    BY <1>11, <1>a, LockUnique DEF Heartbeat, Reconcile, LockInv, WriteInv, CompleteSteps,
         NoFallback
  <2>5. DoneNotPending'
    BY <1>11, <1>a DEF Heartbeat, Reconcile, DoneNotPending, DoneInv, WriteInv, Done,
         CompleteSteps, NoFallback
  <2> QED
    BY <2>1, <2>2, <2>3, <2>4, <2>5
<1>12. ASSUME NEW w \in Workers, SessionStart(w) PROVE Goal
  <2>1. NoRequeue' /\ NoFallback'
    BY <1>12 DEF SessionStart, Reconcile, NoRequeue, NoFallback, RequeueSteps
  <2>2. LockInv'
    BY <1>12, <1>a, LockUnique, NamesAssumption DEF SessionStart, Reconcile, LockInv, DoneInv, Done
  <2>3. DoneInv'
    BY <1>12, <1>a, LockUnique DEF SessionStart, Reconcile, LockInv, DoneInv, WriteInv, Done,
         CompleteSteps, NoFallback, DoneNotPending
  <2>4. WriteInv'
    BY <1>12, <1>a, LockUnique DEF SessionStart, Reconcile, LockInv, WriteInv, CompleteSteps,
         NoFallback
  <2>5. DoneNotPending'
    BY <1>12, <1>a DEF SessionStart, Reconcile, DoneNotPending, DoneInv, WriteInv, Done,
         CompleteSteps, NoFallback
  <2> QED
    BY <2>1, <2>2, <2>3, <2>4, <2>5
<1>13. ASSUME NEW w \in Workers, SessionEnd(w) PROVE Goal
  <2>1. NoRequeue' /\ NoFallback'
    BY <1>13 DEF SessionEnd, Reconcile, NoRequeue, NoFallback, RequeueSteps
  <2>2. LockInv'
    BY <1>13, <1>a, LockUnique, NamesAssumption DEF SessionEnd, Reconcile, LockInv, DoneInv, Done
  <2>3. DoneInv'
    BY <1>13, <1>a, LockUnique DEF SessionEnd, Reconcile, LockInv, DoneInv, WriteInv, Done,
         CompleteSteps, NoFallback, DoneNotPending
  <2>4. WriteInv'
    BY <1>13, <1>a, LockUnique DEF SessionEnd, Reconcile, LockInv, WriteInv, CompleteSteps,
         NoFallback
  <2>5. DoneNotPending'
    BY <1>13, <1>a DEF SessionEnd, Reconcile, DoneNotPending, DoneInv, WriteInv, Done,
         CompleteSteps, NoFallback
  <2> QED
    BY <2>1, <2>2, <2>3, <2>4, <2>5
<1>14. ASSUME NEW w \in Workers, Die(w) PROVE Goal
  <2>1. NoRequeue' /\ NoFallback'
    BY <1>14 DEF Die, Unlock, NoRequeue, NoFallback, RequeueSteps
  <2>2. LockInv'
    BY <1>14, <1>a, LockUnique, NamesAssumption DEF Die, Unlock, LockInv, DoneInv, Done
  <2>3. DoneInv'
    BY <1>14, <1>a, LockUnique DEF Die, Unlock, LockInv, DoneInv, WriteInv, Done, CompleteSteps,
         NoFallback, DoneNotPending
  <2>4. WriteInv'
    BY <1>14, <1>a, LockUnique DEF Die, Unlock, LockInv, WriteInv, CompleteSteps, NoFallback
  <2>5. DoneNotPending'
    BY <1>14, <1>a DEF Die, Unlock, DoneNotPending, DoneInv, WriteInv, Done, CompleteSteps,
         NoFallback
  <2> QED
    BY <2>1, <2>2, <2>3, <2>4, <2>5
<1>15. ASSUME NEW t \in Tasks, Preempt(t) PROVE Goal
  <2>1. NoRequeue' /\ NoFallback'
    BY <1>15 DEF Preempt, RemoveClaimed, NoRequeue, NoFallback, RequeueSteps
  <2>2. LockInv'
    BY <1>15, <1>a, LockUnique, NamesAssumption DEF Preempt, RemoveClaimed, LockInv, DoneInv, Done
  <2>3. DoneInv'
    BY <1>15, <1>a, LockUnique DEF Preempt, RemoveClaimed, LockInv, DoneInv, WriteInv, Done,
         CompleteSteps, NoFallback, DoneNotPending
  <2>4. WriteInv'
    BY <1>15, <1>a, LockUnique DEF Preempt, RemoveClaimed, LockInv, WriteInv, CompleteSteps,
         NoFallback
  <2>5. DoneNotPending'
    BY <1>15, <1>a DEF Preempt, RemoveClaimed, DoneNotPending, DoneInv, WriteInv, Done,
         CompleteSteps, NoFallback
  <2> QED
    BY <2>1, <2>2, <2>3, <2>4, <2>5
<1>16. ASSUME NEW w \in Workers,
              ClaimFallback(w) \/ CompleteFallback(w) \/ CompleteRaise(w)
       PROVE  FALSE
  BY <1>16, <1>a DEF ClaimFallback, CompleteFallback, CompleteRaise
<1>17. ASSUME NEW w \in Workers, ClaimRaise(w) PROVE FALSE
  BY <1>17, <1>a DEF ClaimRaise, LockInv
<1>18. ASSUME Outage \/ NfsBack PROVE FALSE
  BY <1>18, <1>a DEF Outage, NfsBack
<1>19. CASE UNCHANGED vars
  BY <1>19, <1>a DEF vars, NoRequeue, NoFallback, LockInv, DoneInv, WriteInv, Done, DoneNotPending
<1> HIDE DEF Goal
<1> QED
  BY <1>0, <1>1, <1>2, <1>3, <1>4, <1>5, <1>6, <1>7, <1>8, <1>9, <1>10, <1>11, <1>12, <1>13, <1>14,
       <1>15, <1>16, <1>17, <1>18, <1>19
     DEF QuietStep, ClaimStep, CompleteStep, Session

\* Outages are counted, so that none is forgotten.
LEMMA OutagesCounted ==
  ASSUME Recovery \subseteq {"preempt"}, TypeInv, NoRequeue, [Next]_vars, outages' = 0
  PROVE  outages = 0
<1>1. QuietStep
  BY OnlyQuietSteps
<1>2. CASE Outage
  BY <1>2 DEF Outage, TypeInv, TypeOK
<1>3. CASE outages' = outages
  BY <1>3
<1> QED
  BY <1>1, <1>2, <1>3, ZenonT(40)
     DEF QuietStep, ClaimStep, CompleteStep, Session, vars, envVars,
         ClaimCheck, ClaimOpen, ClaimLock, ClaimWrite, ClaimRemove, ClaimFallback, ClaimUnlink,
         ClaimRaise, CompleteCheck, CompleteWrite, CompleteRemove, CompleteFallback,
         CompleteRaise, AgeOut, Heartbeat, SessionStart, SessionEnd, Die, Preempt, NfsBack

\* What is proved of the time before the first outage.
CalmInv == LossInv /\ (outages = 0 => ClaimInv)

LEMMA CalmHolds == ASSUME Recovery \subseteq {"preempt"} PROVE Spec => []CalmInv
<1>1. Init => CalmInv
  BY ClaimInit, LossInit DEF CalmInv
<1>2. CalmInv /\ [Next]_vars => CalmInv'
  <2> SUFFICES ASSUME CalmInv, [Next]_vars PROVE CalmInv'
    OBVIOUS
  <2>1. LossInv'
    BY LossNext DEF CalmInv
  <2>2. ASSUME outages' = 0 PROVE ClaimInv'
    BY <2>2, OutagesCounted, ClaimNext DEF CalmInv, LossInv
  <2> QED
    BY <2>1, <2>2 DEF CalmInv
<1> QED
  BY <1>1, <1>2, PTL DEF Spec

\* While NFS is healthy and claimed files only move on to preempted/, the
\* lock file of claim_task does what it is for, though it is unlinked by
\* every claimer and created again by the next: a task has one session.
THEOREM OneSessionPerTask ==
  ASSUME Recovery \subseteq {"preempt"}
  PROVE  Spec => [](ExclusiveExecution /\ ClaimedByExecutor)
<1>1. CalmInv => ExclusiveExecution /\ ClaimedByExecutor
  BY DEF CalmInv, ClaimInv, DoneInv, Done, ExclusiveExecution, ClaimedByExecutor, TypeInv, TypeOK
<1> QED
  BY CalmHolds, <1>1, PTL

\* And nobody else can take it: the claimed file keeps the name of that
\* session, and a task with a result is no longer in pending/.
THEOREM ClaimsAreSound ==
  ASSUME Recovery \subseteq {"preempt"}
  PROVE  Spec => []ClaimsSound
<1>1. CalmInv => ClaimsSound
  BY DEF CalmInv, ClaimInv, DoneInv, Done, CompletedNotPending, DoneNotPending, ClaimedByExecutor,
         ClaimsSound, TypeInv, TypeOK
<1> QED
  BY CalmHolds, <1>1, PTL

\* Under the same conditions a completed task is never offered again, and
\* complete_task never replaces a result that is on the board.
THEOREM CompletedOnce ==
  ASSUME Recovery \subseteq {"preempt"}
  PROVE  Spec => []CompletedNotPending /\ ResultWrittenOnce
<1> DEFINE Written == \A w \in Workers : pc[w] = "cwrite" /\ pc'[w] = "cremove" /\ outages = 0
                                          => job[w] \notin completed
<1>1. CalmInv => CompletedNotPending
  BY DEF CalmInv, ClaimInv, CompletedNotPending, DoneNotPending
<1>2. CalmInv => [Written]_vars
  <2> SUFFICES ASSUME CalmInv, outages = 0, NEW w \in Workers, pc[w] = "cwrite"
               PROVE  job[w] \notin completed
    OBVIOUS
  <2>1. job[w] \in Tasks /\ <<w, job[w]>> \in executing
    BY DEF CalmInv, ClaimInv, TypeInv, JobInv, WriteInv, CompleteSteps, Procs
  <2> QED
    BY <2>1 DEF CalmInv, ClaimInv, DoneInv, Done
<1> QED
  BY CalmHolds, <1>1, <1>2, PTL DEF Spec, ResultWrittenOnce
-----------------------------------------------------------------------------
(* One file per task on a quiet board, with every recovery path in use *)

\* Until a session ends or NFS fails there is no fallback file to reconcile.
NoFaultYet == deaths = 0 /\ outages = 0
NoLocalClaim == nfsUp /\ \A w \in Workers : localClaimed[w] = {}
DuplicateInv == TypeInv /\ (NoFaultYet => NoLocalClaim /\ DuplicateOnlyInTransit)

\* Deaths and outages are counted, so that none is forgotten.
LEMMA FaultsCounted ==
  ASSUME TypeInv, [Next]_vars, NoFaultYet'
  PROVE  NoFaultYet
<1>1. deaths \in Nat /\ outages \in Nat
  BY BoundsAssumption DEF TypeInv, TypeOK
<1>2. ASSUME NEW w \in Workers, SessionEnd(w) \/ Die(w) \/ CrashSignal(w) PROVE FALSE
  BY <1>1, <1>2 DEF SessionEnd, Die, CrashSignal, NoFaultYet
<1>3. CASE Outage
  BY <1>1, <1>3 DEF Outage, NoFaultYet
<1>4. CASE UNCHANGED <<deaths, outages>>
  BY <1>4 DEF NoFaultYet
<1>5. ASSUME NEW w \in Workers, ClaimStep(w) PROVE UNCHANGED <<deaths, outages>>
  BY <1>5 DEF ClaimStep, ClaimOpen, ClaimLock, ClaimWrite, ClaimRemove, ClaimFallback,
     ClaimUnlink, ClaimRaise, envVars
<1>6. ASSUME NEW w \in Workers, CompleteStep(w) PROVE UNCHANGED <<deaths, outages>>
  BY <1>6 DEF CompleteStep, CompleteWrite, CompleteRemove, CompleteFallback, CompleteRaise, envVars
<1>7. ASSUME NEW w \in Workers, NEW t \in Tasks, ClaimCheck(w, t) \/ CompleteCheck(w, t)
      PROVE  UNCHANGED <<deaths, outages>>
  BY <1>7 DEF ClaimCheck, CompleteCheck, envVars
<1>8. ASSUME NEW w \in Workers, AgeOut(w) \/ Heartbeat(w) \/ SessionStart(w) \/ CrashExit(w)
      PROVE  UNCHANGED <<deaths, outages>>
  BY <1>8 DEF AgeOut, Heartbeat, SessionStart, CrashExit, envVars
<1>9. ASSUME NEW r \in Recoverers,
             \/ CleanupStart(r) \/ CleanupEnd(r) \/ RequeueOpen(r)
             \/ \E t \in Tasks : RequeueStart(r, t)
      PROVE  UNCHANGED <<deaths, outages>>
  BY <1>9 DEF CleanupStart, CleanupEnd, RequeueOpen, RequeueStart, envVars
<1>10. ASSUME NEW p \in Procs, RecoveryStep(p) PROVE UNCHANGED <<deaths, outages>>
  BY <1>10 DEF RecoveryStep, RequeueWrite, RequeueRemove, RequeueRaise, RequeueRead,
     RequeueMissing, envVars
<1>11. ASSUME NEW t \in Tasks, Preempt(t) PROVE UNCHANGED <<deaths, outages>>
  BY <1>11 DEF Preempt, envVars
<1>12. ASSUME NfsBack \/ UNCHANGED vars PROVE UNCHANGED <<deaths, outages>>
  BY <1>12 DEF NfsBack, vars
<1> QED
  BY <1>2, <1>3, <1>4, <1>5, <1>6, <1>7, <1>8, <1>9, <1>10, <1>11, <1>12 DEF Next, Session

\* The process of a duplicate that a step does not touch is where it was, and
\* whoever puts a second file on the board is about to remove the first.
LEMMA DuplicateStep ==
  ASSUME TypeInv, NoFaultYet, NoLocalClaim, DuplicateOnlyInTransit, [Next]_vars, NoFaultYet'
  PROVE  NoLocalClaim' /\ DuplicateOnlyInTransit'
<1> DEFINE InTransit(t) == \E p \in Procs : pc[p] \in {"remove", "rremove"} /\ job[p] = t
           Goal == /\ NoLocalClaim'
                   /\ \A t \in pending' \intersect claimed' :
                        \E p \in Procs : pc'[p] \in {"remove", "rremove"} /\ job'[p] = t
<1> SUFFICES Goal
  BY DEF DuplicateOnlyInTransit
<1>a. \A t \in pending \intersect claimed : InTransit(t)
  BY DEF DuplicateOnlyInTransit, NoFaultYet
<1>b. Workers \subseteq Procs /\ Recoverers \subseteq Procs
  BY DEF Procs
<1> USE DEF NoLocalClaim, TypeInv, TypeOK, JobInv, ClaimSteps, CompleteSteps,
        RequeueSteps, boardVars, localVars, procVars, envVars, Goto, Return
<1>1. ASSUME NEW w \in Workers, NEW t \in Tasks, ClaimCheck(w, t) PROVE Goal
  BY <1>1, <1>a, <1>b DEF ClaimCheck
<1>2. ASSUME NEW w \in Workers, ClaimOpen(w) PROVE Goal
  BY <1>2, <1>a, <1>b DEF ClaimOpen
<1>3. ASSUME NEW w \in Workers, ClaimLock(w) PROVE Goal
  BY <1>3, <1>a, <1>b, ZenonT(40) DEF ClaimLock
<1>4. ASSUME NEW w \in Workers, ClaimWrite(w) PROVE Goal
  BY <1>4, <1>a, <1>b DEF ClaimWrite, WriteClaimed
<1>5. ASSUME NEW w \in Workers, ClaimRemove(w) PROVE Goal
  BY <1>5, <1>a, <1>b DEF ClaimRemove, RemovePending
<1>6. ASSUME NEW w \in Workers, ClaimUnlink(w) PROVE Goal
  BY <1>6, <1>a, <1>b DEF ClaimUnlink
<1>7. ASSUME NEW w \in Workers, ClaimRaise(w) PROVE Goal
  BY <1>7, <1>a, <1>b DEF ClaimRaise
<1>8. ASSUME NEW w \in Workers, NEW t \in Tasks, CompleteCheck(w, t) PROVE Goal
  BY <1>8, <1>a, <1>b DEF CompleteCheck
<1>9. ASSUME NEW w \in Workers, CompleteWrite(w) PROVE Goal
  BY <1>9, <1>a, <1>b DEF CompleteWrite
<1>10. ASSUME NEW w \in Workers, CompleteRemove(w) PROVE Goal
  <2>1. claimed' \subseteq claimed /\ pending' = pending /\ nfsUp' = nfsUp /\ pc[w] = "cremove"
    BY <1>10 DEF CompleteRemove, RemoveClaimed
  <2>2. \A v \in Workers : localClaimed'[v] = {}
    <3>1. CASE UNCHANGED localVars
      BY <3>1
    <3>2. CASE RemoveLocalClaimed(w, job[w])
      BY <3>2 DEF RemoveLocalClaimed
    <3> QED
      BY <1>10, <3>1, <3>2 DEF CompleteRemove
  <2>3. \A p \in Procs \ {w} : pc'[p] = pc[p] /\ job'[p] = job[p]
    BY <1>10 DEF CompleteRemove
  <2> QED
    BY <2>1, <2>2, <2>3, <1>a
<1>11. ASSUME NEW w \in Workers, AgeOut(w) PROVE Goal
  BY <1>11, <1>a, <1>b DEF AgeOut
<1>12. ASSUME NEW w \in Workers, Heartbeat(w) PROVE Goal
  BY <1>12, <1>a, <1>b DEF Heartbeat, Reconcile
<1>13. ASSUME NEW w \in Workers, SessionStart(w) PROVE Goal
  BY <1>13, <1>a, <1>b DEF SessionStart, Reconcile
<1>14. ASSUME NEW w \in Workers, SessionEnd(w) \/ Die(w) \/ CrashSignal(w) PROVE FALSE
  BY <1>14 DEF SessionEnd, Die, CrashSignal, NoFaultYet
<1>15. ASSUME NEW w \in Workers, CrashExit(w) PROVE Goal
  BY <1>15, <1>a, <1>b DEF CrashExit
<1>16. ASSUME NEW r \in Recoverers, CleanupStart(r) \/ CleanupEnd(r) PROVE Goal
  <2>1. CASE CleanupStart(r)
    BY <2>1, <1>a, <1>b DEF CleanupStart
  <2>2. CASE CleanupEnd(r)
    BY <2>2, <1>a, <1>b DEF CleanupEnd
  <2> QED
    BY <1>16, <2>1, <2>2
<1>17. ASSUME NEW r \in Recoverers, NEW t \in Tasks, RequeueStart(r, t) PROVE Goal
  BY <1>17, <1>a, <1>b DEF RequeueStart
<1>18. ASSUME NEW p \in Procs, NEW t \in Tasks, RequeueRead(p, t) PROVE Goal
  BY <1>18, <1>a DEF RequeueRead
<1>19. ASSUME NEW p \in Procs, NEW t \in Tasks, RequeueMissing(p, t) PROVE Goal
  BY <1>19, <1>a DEF RequeueMissing
<1>20. ASSUME NEW r \in Recoverers, RequeueOpen(r) PROVE Goal
  BY <1>20, <1>a, <1>b DEF RequeueOpen
<1>21. ASSUME NEW p \in Procs, RequeueWrite(p) PROVE Goal
  BY <1>21, <1>a DEF RequeueWrite, WritePending
<1>22. ASSUME NEW p \in Procs, RequeueRemove(p) PROVE Goal
  BY <1>22, <1>a, SMTT(30) DEF RequeueRemove, RemoveClaimed
<1>23. ASSUME NEW t \in Tasks, Preempt(t) PROVE Goal
  BY <1>23, <1>a DEF Preempt, RemoveClaimed
<1>24. ASSUME NEW w \in Workers, ClaimFallback(w) \/ CompleteFallback(w) \/ CompleteRaise(w)
       PROVE  FALSE
  BY <1>24 DEF ClaimFallback, CompleteFallback, CompleteRaise
<1>25. ASSUME NEW p \in Procs, RequeueRaise(p) PROVE FALSE
  BY <1>25 DEF RequeueRaise
<1>26. ASSUME Outage \/ NfsBack PROVE FALSE
  BY <1>26 DEF Outage, NfsBack, NoFaultYet
<1>27. CASE UNCHANGED vars
  BY <1>27, <1>a DEF vars
<1> HIDE DEF Goal
<1> QED
  BY <1>1, <1>2, <1>3, <1>4, <1>5, <1>6, <1>7, <1>8, <1>9, <1>10, <1>11, <1>12, <1>13, <1>14,
     <1>15, <1>16, <1>17, <1>18, <1>19, <1>20, <1>21, <1>22, <1>23, <1>24, <1>25, <1>26, <1>27
     DEF Next, ClaimStep, CompleteStep, Session, RecoveryStep

\* Whatever claims, completions, cleanups, remediations and preemptions do to
\* each other, a task in pending/ and in claimed/ at once has a process that
\* is about to remove one of the two: only a death or an outage leaves both.
THEOREM DuplicatesAreInTransit == Spec => []DuplicateOnlyInTransit
<1>1. Init => DuplicateInv
  BY TypeInit DEF Init, DuplicateInv, NoFaultYet, NoLocalClaim, DuplicateOnlyInTransit
<1>2. DuplicateInv /\ [Next]_vars => DuplicateInv'
  <2> SUFFICES ASSUME DuplicateInv, [Next]_vars PROVE DuplicateInv'
    OBVIOUS
  <2>1. TypeInv'
    BY TypeNext DEF DuplicateInv
  <2>2. ASSUME NoFaultYet' PROVE (NoLocalClaim /\ DuplicateOnlyInTransit)'
    <3>1. NoFaultYet /\ TypeInv
      BY <2>2, FaultsCounted DEF DuplicateInv
    <3> QED
      BY <2>2, <3>1, DuplicateStep DEF DuplicateInv
  <2> QED
    BY <2>1, <2>2 DEF DuplicateInv
<1>3. DuplicateInv => DuplicateOnlyInTransit
  <2>1. TypeInv => deaths \in Nat /\ outages \in Nat
    BY BoundsAssumption DEF TypeInv, TypeOK
  <2> QED
    BY <2>1 DEF DuplicateInv, DuplicateOnlyInTransit, NoFaultYet
<1> QED
  BY <1>1, <1>2, <1>3, PTL DEF Spec
-----------------------------------------------------------------------------
(* The retry cap, with every recovery path in use *)

\* The crash handlers that have yet to come to the file of t: each of them
\* may add one to its count, whatever that is by then.
Owing(t) == {p \in Procs : mode[p] = "crash" /\ t \in todo[p]}

\* No copy of the count of t, in a file or in a process, exceeds n.
Within(t, n) ==
  /\ pTries[t] <= n /\ cTries[t] <= n
  /\ \A w \in Workers : localTries[w][t] <= n
  /\ \A p \in Procs : job[p] = t => tries[p] <= n

\* A process that takes a task up carries no count of an earlier one.
RestInv ==
  \A p \in Procs : /\ pc[p] \in {"idle", "dead"} => tries[p] = 0
                   /\ pc[p] = "scan" => mode[p] \in {"cleanup", "crash"}

OwingInv == \A t \in Tasks : IsFiniteSet(Owing(t)) /\ Cardinality(Owing(t)) <= deaths

\* What the sessions that ended have added, and what their handlers may add.
RetryInv ==
  /\ TypeInv /\ RestInv /\ OwingInv
  /\ \A t \in Tasks : Within(t, MaxRetries + deaths - Cardinality(Owing(t)))

LEMMA RestNext == ASSUME TypeInv, RestInv, [Next]_vars PROVE RestInv'
<1> USE DEF TypeInv, TypeOK, RestInv, ClaimSteps, CompleteSteps, RequeueSteps, procVars, Goto,
     Return
<1>a. Workers \subseteq Procs /\ Recoverers \subseteq Procs
  BY DEF Procs
<1>1. ASSUME NEW w \in Workers, NEW t \in Tasks, ClaimCheck(w, t) PROVE RestInv'
  BY <1>1, <1>a DEF ClaimCheck
<1>2. ASSUME NEW w \in Workers, ClaimOpen(w) PROVE RestInv'
  BY <1>2, <1>a DEF ClaimOpen
<1>3. ASSUME NEW w \in Workers, ClaimLock(w) PROVE RestInv'
  BY <1>3, <1>a DEF ClaimLock
<1>4. ASSUME NEW w \in Workers, ClaimWrite(w) PROVE RestInv'
  BY <1>4, <1>a DEF ClaimWrite
<1>5. ASSUME NEW w \in Workers, ClaimRemove(w) PROVE RestInv'
  BY <1>5, <1>a DEF ClaimRemove
<1>6. ASSUME NEW w \in Workers, ClaimFallback(w) PROVE RestInv'
  BY <1>6, <1>a DEF ClaimFallback
<1>7. ASSUME NEW w \in Workers, ClaimUnlink(w) PROVE RestInv'
  BY <1>7, <1>a DEF ClaimUnlink
<1>8. ASSUME NEW w \in Workers, ClaimRaise(w) PROVE RestInv'
  BY <1>8, <1>a DEF ClaimRaise
<1>9. ASSUME NEW w \in Workers, NEW t \in Tasks, CompleteCheck(w, t) PROVE RestInv'
  BY <1>9, <1>a DEF CompleteCheck
<1>10. ASSUME NEW w \in Workers, CompleteWrite(w) PROVE RestInv'
  BY <1>10, <1>a DEF CompleteWrite
<1>11. ASSUME NEW w \in Workers, CompleteRemove(w) PROVE RestInv'
  BY <1>11, <1>a DEF CompleteRemove
<1>12. ASSUME NEW w \in Workers, CompleteFallback(w) PROVE RestInv'
  BY <1>12, <1>a DEF CompleteFallback
<1>13. ASSUME NEW w \in Workers, CompleteRaise(w) PROVE RestInv'
  BY <1>13, <1>a DEF CompleteRaise
<1>14. ASSUME NEW w \in Workers, AgeOut(w) PROVE RestInv'
  BY <1>14, <1>a DEF AgeOut
<1>15. ASSUME NEW w \in Workers, Heartbeat(w) PROVE RestInv'
  BY <1>15, <1>a DEF Heartbeat
<1>16. ASSUME NEW w \in Workers, SessionStart(w) PROVE RestInv'
  BY <1>16, <1>a DEF SessionStart
<1>17. ASSUME NEW w \in Workers, SessionEnd(w) PROVE RestInv'
  BY <1>17, <1>a DEF SessionEnd
<1>18. ASSUME NEW w \in Workers, Die(w) PROVE RestInv'
  BY <1>18, <1>a DEF Die
<1>19. ASSUME NEW w \in Workers, CrashSignal(w) PROVE RestInv'
  BY <1>19, <1>a DEF CrashSignal
<1>20. ASSUME NEW w \in Workers, CrashExit(w) PROVE RestInv'
  BY <1>20, <1>a DEF CrashExit
<1>21. ASSUME NEW r \in Recoverers, CleanupStart(r) PROVE RestInv'
  BY <1>21, <1>a DEF CleanupStart
<1>22. ASSUME NEW r \in Recoverers, CleanupEnd(r) PROVE RestInv'
  BY <1>22, <1>a DEF CleanupEnd
<1>23. ASSUME NEW r \in Recoverers, NEW t \in Tasks, RequeueStart(r, t) PROVE RestInv'
  BY <1>23, <1>a DEF RequeueStart
<1>24. ASSUME NEW p \in Procs, NEW t \in Tasks, RequeueRead(p, t) PROVE RestInv'
  BY <1>24, <1>a DEF RequeueRead
<1>25. ASSUME NEW p \in Procs, NEW t \in Tasks, RequeueMissing(p, t) PROVE RestInv'
  <2>1. CASE mode[p] = "cleanup"
    <3>1. pc' = [pc EXCEPT ![p] = "idle"] /\ tries' = [tries EXCEPT ![p] = 0]
          /\ mode' = [mode EXCEPT ![p] = "none"]
      BY <1>25, <2>1 DEF RequeueMissing
    <3> QED
      BY <3>1
  <2>2. CASE mode[p] # "cleanup"
    BY <1>25, <2>2 DEF RequeueMissing
  <2> QED
    BY <2>1, <2>2
<1>26. ASSUME NEW r \in Recoverers, RequeueOpen(r) PROVE RestInv'
  BY <1>26, <1>a DEF RequeueOpen
<1>27. ASSUME NEW p \in Procs, RequeueWrite(p) PROVE RestInv'
  BY <1>27, <1>a DEF RequeueWrite
<1>28. ASSUME NEW p \in Procs, RequeueRemove(p) PROVE RestInv'
  BY <1>28, <1>a DEF RequeueRemove
<1>29. ASSUME NEW p \in Procs, RequeueRaise(p) PROVE RestInv'
  BY <1>29, <1>a DEF RequeueRaise
<1>30. ASSUME NEW t \in Tasks, Preempt(t) PROVE RestInv'
  BY <1>30, <1>a DEF Preempt
<1>31. CASE Outage \/ NfsBack \/ UNCHANGED vars
  BY <1>31, <1>a DEF Outage, NfsBack, vars
<1> QED
  BY <1>1, <1>2, <1>3, <1>4, <1>5, <1>6, <1>7, <1>8, <1>9, <1>10, <1>11, <1>12, <1>13, <1>14,
       <1>15, <1>16, <1>17, <1>18, <1>19, <1>20, <1>21, <1>22, <1>23, <1>24, <1>25, <1>26, <1>27,
       <1>28, <1>29, <1>30, <1>31
     DEF Next, ClaimStep, CompleteStep, Session, RecoveryStep

\* A step copies counts; only a crash handler that comes to t writes a higher
\* one than the cap and every copy there is.
LEMMA WithinNext ==
  ASSUME TypeInv, RestInv, [Next]_vars, NEW u \in Tasks, NEW n \in Nat, NEW m \in Nat,
         MaxRetries <= n, n <= m, Within(u, n),
         \A p \in Procs : mode[p] = "crash" /\ RequeueRead(p, u) => n < m
  PROVE  Within(u, m)'
<1> DEFINE Goal == /\ pTries'[u] <= m /\ cTries'[u] <= m
                   /\ \A v \in Workers : localTries'[v][u] <= m
                   /\ \A q \in Procs : job'[q] = u => tries'[q] <= m
<1> SUFFICES Goal
  BY DEF Within
<1>b. /\ pTries[u] <= m /\ cTries[u] <= m
      /\ \A v \in Workers : localTries[v][u] <= m
      /\ \A q \in Procs : job[q] = u => tries[q] <= m
  BY DEF Within, TypeInv, TypeOK
<1>c. Workers \subseteq Procs /\ Recoverers \subseteq Procs /\ NoTask \notin Tasks
  BY NamesAssumption DEF Procs
<1> USE DEF TypeInv, TypeOK, RestInv, JobInv, ClaimSteps, CompleteSteps, RequeueSteps,
        boardVars, localVars, procVars, Goto, Return
<1>1. ASSUME NEW w \in Workers, NEW t \in Tasks, ClaimCheck(w, t) PROVE Goal
  BY <1>1, <1>b, <1>c DEF ClaimCheck
<1>2. ASSUME NEW w \in Workers, ClaimOpen(w) PROVE Goal
  BY <1>2, <1>b, <1>c DEF ClaimOpen
<1>3. ASSUME NEW w \in Workers, ClaimLock(w) PROVE Goal
  BY <1>3, <1>b, <1>c, SMTT(30) DEF ClaimLock
<1>4. ASSUME NEW w \in Workers, ClaimWrite(w) PROVE Goal
  BY <1>4, <1>b, <1>c DEF ClaimWrite, WriteClaimed
<1>5. ASSUME NEW w \in Workers, ClaimRemove(w) PROVE Goal
  BY <1>5, <1>b, <1>c DEF ClaimRemove, RemovePending
<1>6. ASSUME NEW w \in Workers, ClaimFallback(w) PROVE Goal
  BY <1>6, <1>b, <1>c DEF ClaimFallback, WriteLocalClaimed, RemovePending
<1>7. ASSUME NEW w \in Workers, ClaimUnlink(w) PROVE Goal
  BY <1>7, <1>b, <1>c DEF ClaimUnlink
<1>8. ASSUME NEW w \in Workers, ClaimRaise(w) PROVE Goal
  BY <1>8, <1>b, <1>c DEF ClaimRaise
<1>9. ASSUME NEW w \in Workers, NEW t \in Tasks, CompleteCheck(w, t) PROVE Goal
  BY <1>9, <1>b, <1>c DEF CompleteCheck
<1>10. ASSUME NEW w \in Workers, CompleteWrite(w) PROVE Goal
  BY <1>10, <1>b, <1>c DEF CompleteWrite
<1>11. ASSUME NEW w \in Workers, CompleteRemove(w) PROVE Goal
  <2>1. /\ cTries'[u] \in {0, cTries[u]} /\ pTries' = pTries
        /\ \A q \in Procs : job'[q] = u => job[q] = u /\ tries'[q] = tries[q]
    BY <1>11, <1>c DEF CompleteRemove, RemoveClaimed
  <2>2. ASSUME NEW v \in Workers PROVE localTries'[v][u] <= m
    <3>1. localTries'[v][u] \in {0, localTries[v][u]}
      BY <1>11, SMTT(30) DEF CompleteRemove, RemoveLocalClaimed
    <3> QED
      BY <3>1, <1>b
  <2>3. cTries'[u] <= m /\ pTries'[u] <= m
    BY <2>1, <1>b
  <2> QED
    BY <2>1, <2>2, <2>3, <1>b
<1>12. ASSUME NEW w \in Workers, CompleteFallback(w) PROVE Goal
  <2>1. /\ pTries' = pTries
        /\ \A q \in Procs : job'[q] = u => job[q] = u /\ tries'[q] = tries[q]
    BY <1>12, <1>c DEF CompleteFallback
  <2>2. ASSUME NEW v \in Workers PROVE localTries'[v][u] <= m
    <3>1. localTries'[v][u] \in {0, localTries[v][u]}
      BY <1>12 DEF CompleteFallback, RemoveLocalClaimed
    <3> QED
      BY <3>1, <1>b
  <2>3. cTries'[u] <= m /\ pTries'[u] <= m
    <3>1. cTries'[u] \in {0, cTries[u]}
      BY <1>12 DEF CompleteFallback, RemoveClaimed
    <3> QED
      BY <2>1, <3>1, <1>b
  <2> QED
    BY <2>1, <2>2, <2>3, <1>b
<1>13. ASSUME NEW w \in Workers, CompleteRaise(w) PROVE Goal
  BY <1>13, <1>b, <1>c DEF CompleteRaise
<1>14. ASSUME NEW w \in Workers, AgeOut(w) PROVE Goal
  BY <1>14, <1>b, <1>c DEF AgeOut
<1>15. ASSUME NEW w \in Workers, Heartbeat(w) PROVE Goal
  BY <1>15, <1>b, <1>c DEF Heartbeat, Reconcile
<1>16. ASSUME NEW w \in Workers, SessionStart(w) PROVE Goal
  BY <1>16, <1>b, <1>c DEF SessionStart, Reconcile
<1>17. ASSUME NEW w \in Workers, SessionEnd(w) PROVE Goal
  BY <1>17, <1>b, <1>c DEF SessionEnd, Reconcile
<1>18. ASSUME NEW w \in Workers, Die(w) PROVE Goal
  BY <1>18, <1>b, <1>c DEF Die
<1>19. ASSUME NEW w \in Workers, CrashSignal(w) PROVE Goal
  BY <1>19, <1>b, <1>c DEF CrashSignal, Reconcile
<1>20. ASSUME NEW w \in Workers, CrashExit(w) PROVE Goal
  BY <1>20, <1>b, <1>c DEF CrashExit
<1>21. ASSUME NEW r \in Recoverers, CleanupStart(r) PROVE Goal
  BY <1>21, <1>b, <1>c DEF CleanupStart
<1>22. ASSUME NEW r \in Recoverers, CleanupEnd(r) PROVE Goal
  BY <1>22, <1>b, <1>c DEF CleanupEnd
<1>23. ASSUME NEW r \in Recoverers, NEW t \in Tasks, RequeueStart(r, t) PROVE Goal
  <2>1. t = u => cTries[u] + 1 <= MaxRetries
    BY <1>23, BoundsAssumption DEF RequeueStart
  <2>2. \A q \in Procs : job'[q] = u => (q = r /\ t = u /\ tries'[q] = cTries[u] + 1)
                                        \/ (job[q] = u /\ tries'[q] = tries[q])
    BY <1>23, <1>c DEF RequeueStart
  <2> QED
    BY <1>23, <1>b, <2>1, <2>2, BoundsAssumption DEF RequeueStart
<1>24. ASSUME NEW p \in Procs, NEW t \in Tasks, RequeueRead(p, t) PROVE Goal
  <2>1. \/ UNCHANGED <<job, tries>>
        \/ job' = [job EXCEPT ![p] = t] /\ tries' = [tries EXCEPT ![p] = cTries[t] + 1]
    BY <1>24 DEF RequeueRead
  <2>2. ASSUME t = u, tries' = [tries EXCEPT ![p] = cTries[t] + 1], job' = [job EXCEPT ![p] = t]
        PROVE  cTries[u] + 1 <= m
    <3>1. CASE mode[p] = "crash"
      <4>1. n < m /\ cTries[u] <= n
        BY <1>24, <2>2, <3>1 DEF Within
      <4> QED
        BY <4>1
    <3>2. CASE mode[p] = "cleanup"
      <4>1. cTries[t] + 1 <= MaxRetries \/ UNCHANGED <<job, tries>>
        BY <1>24, <3>2 DEF RequeueRead
      <4>2. UNCHANGED tries => cTries[t] + 1 = tries[p]
        BY <2>2
      <4>3. UNCHANGED job => job[p] = u
        BY <2>2
      <4> QED
        BY <1>b, <2>2, <4>1, <4>2, <4>3, BoundsAssumption
    <3> QED
      BY <1>24, <3>1, <3>2 DEF RequeueRead
  <2> QED
    BY <1>24, <1>b, <2>1, <2>2 DEF RequeueRead
<1>25. ASSUME NEW p \in Procs, NEW t \in Tasks, RequeueMissing(p, t) PROVE Goal
  BY <1>25, <1>b, <1>c DEF RequeueMissing
<1>26. ASSUME NEW r \in Recoverers, RequeueOpen(r) PROVE Goal
  BY <1>26, <1>b, <1>c DEF RequeueOpen
<1>27. ASSUME NEW p \in Procs, RequeueWrite(p) PROVE Goal
  BY <1>27, <1>b, <1>c DEF RequeueWrite, WritePending
<1>28. ASSUME NEW p \in Procs, RequeueRemove(p) PROVE Goal
  BY <1>28, <1>b, <1>c DEF RequeueRemove, RemoveClaimed
<1>29. ASSUME NEW p \in Procs, RequeueRaise(p) PROVE Goal
  BY <1>29, <1>b, <1>c DEF RequeueRaise
<1>30. ASSUME NEW t \in Tasks, Preempt(t) PROVE Goal
  BY <1>30, <1>b, <1>c DEF Preempt, RemoveClaimed
<1>31. CASE Outage \/ NfsBack \/ UNCHANGED vars
  BY <1>31, <1>b, <1>c DEF Outage, NfsBack, vars
<1> HIDE DEF Goal
<1> QED
  BY <1>1, <1>2, <1>3, <1>4, <1>5, <1>6, <1>7, <1>8, <1>9, <1>10, <1>11, <1>12, <1>13, <1>14,
       <1>15, <1>16, <1>17, <1>18, <1>19, <1>20, <1>21, <1>22, <1>23, <1>24, <1>25, <1>26, <1>27,
       <1>28, <1>29, <1>30, <1>31
     DEF Next, ClaimStep, CompleteStep, Session, RecoveryStep

\* Only a session that ends adds to the handlers that owe t a visit, and a
\* handler that has come to t has no second one to make.
LEMMA OwingNext ==
  ASSUME TypeInv, RestInv, [Next]_vars, NEW u \in Tasks
  PROVE  \/ /\ Owing(u)' \subseteq Owing(u) /\ deaths' \in {deaths, deaths + 1}
            /\ \A p \in Procs : mode[p] = "crash" /\ RequeueRead(p, u)
                                  => p \in Owing(u) /\ p \notin Owing(u)'
         \/ /\ \E w \in Workers : Owing(u)' \subseteq Owing(u) \union {w} /\ CrashSignal(w)
            /\ deaths' = deaths + 1
<1> DEFINE Goal == \/ /\ Owing(u)' \subseteq Owing(u) /\ deaths' \in {deaths, deaths + 1}
                      /\ \A p \in Procs : mode[p] = "crash" /\ RequeueRead(p, u)
                                            => p \in Owing(u) /\ p \notin Owing(u)'
                   \/ /\ \E w \in Workers : Owing(u)' \subseteq Owing(u) \union {w} /\ CrashSignal(w)
                      /\ deaths' = deaths + 1
<1>0. ASSUME Owing(u)' \subseteq Owing(u), deaths' \in {deaths, deaths + 1} PROVE Goal
  <2>1. ASSUME NEW p \in Procs, mode[p] = "crash", RequeueRead(p, u)
        PROVE  p \in Owing(u) /\ p \notin Owing(u)'
    BY <2>1 DEF RequeueRead, Owing, TypeInv, TypeOK
  <2> QED
    BY <1>0, <2>1
<1>c. Workers \subseteq Procs /\ Recoverers \subseteq Procs
  BY DEF Procs
<1> SUFFICES Goal
  OBVIOUS
<1> HIDE DEF Goal
<1> USE DEF TypeInv, TypeOK, RestInv, RequeueSteps, procVars, envVars, Goto, Return, Owing
<1>1. ASSUME NEW w \in Workers, NEW t \in Tasks, ClaimCheck(w, t) PROVE Goal
  BY <1>1, <1>0, <1>c DEF ClaimCheck
<1>2. ASSUME NEW w \in Workers, ClaimOpen(w) PROVE Goal
  BY <1>2, <1>0, <1>c DEF ClaimOpen
<1>3. ASSUME NEW w \in Workers, ClaimLock(w) PROVE Goal
  BY <1>3, <1>0, <1>c DEF ClaimLock
<1>4. ASSUME NEW w \in Workers, ClaimWrite(w) PROVE Goal
  BY <1>4, <1>0, <1>c DEF ClaimWrite
<1>5. ASSUME NEW w \in Workers, ClaimRemove(w) PROVE Goal
  BY <1>5, <1>0, <1>c DEF ClaimRemove
<1>6. ASSUME NEW w \in Workers, ClaimFallback(w) PROVE Goal
  BY <1>6, <1>0, <1>c DEF ClaimFallback
<1>7. ASSUME NEW w \in Workers, ClaimUnlink(w) PROVE Goal
  BY <1>7, <1>0, <1>c DEF ClaimUnlink
<1>8. ASSUME NEW w \in Workers, ClaimRaise(w) PROVE Goal
  BY <1>8, <1>0, <1>c DEF ClaimRaise
<1>9. ASSUME NEW w \in Workers, NEW t \in Tasks, CompleteCheck(w, t) PROVE Goal
  BY <1>9, <1>0, <1>c DEF CompleteCheck
<1>10. ASSUME NEW w \in Workers, CompleteWrite(w) PROVE Goal
  BY <1>10, <1>0, <1>c DEF CompleteWrite
<1>11. ASSUME NEW w \in Workers, CompleteRemove(w) PROVE Goal
  BY <1>11, <1>0, <1>c DEF CompleteRemove
<1>12. ASSUME NEW w \in Workers, CompleteFallback(w) PROVE Goal
  BY <1>12, <1>0, <1>c DEF CompleteFallback
<1>13. ASSUME NEW w \in Workers, CompleteRaise(w) PROVE Goal
  BY <1>13, <1>0, <1>c DEF CompleteRaise
<1>14. ASSUME NEW w \in Workers, AgeOut(w) PROVE Goal
  BY <1>14, <1>0, <1>c DEF AgeOut
<1>15. ASSUME NEW w \in Workers, Heartbeat(w) PROVE Goal
  BY <1>15, <1>0, <1>c DEF Heartbeat
<1>16. ASSUME NEW w \in Workers, SessionStart(w) PROVE Goal
  BY <1>16, <1>0, <1>c DEF SessionStart
<1>17. ASSUME NEW w \in Workers, SessionEnd(w) PROVE Goal
  BY <1>17, <1>0, <1>c DEF SessionEnd
<1>18. ASSUME NEW w \in Workers, Die(w) PROVE Goal
  BY <1>18, <1>0, <1>c DEF Die
<1>19. ASSUME NEW w \in Workers, CrashSignal(w) PROVE Goal
  BY <1>19, <1>c DEF CrashSignal, Goal
<1>20. ASSUME NEW w \in Workers, CrashExit(w) PROVE Goal
  BY <1>20, <1>0, <1>c DEF CrashExit
<1>21. ASSUME NEW r \in Recoverers, CleanupStart(r) PROVE Goal
  BY <1>21, <1>0, <1>c DEF CleanupStart
<1>22. ASSUME NEW r \in Recoverers, CleanupEnd(r) PROVE Goal
  BY <1>22, <1>0, <1>c DEF CleanupEnd
<1>23. ASSUME NEW r \in Recoverers, NEW t \in Tasks, RequeueStart(r, t) PROVE Goal
  BY <1>23, <1>0, <1>c DEF RequeueStart
<1>24. ASSUME NEW p \in Procs, NEW t \in Tasks, RequeueRead(p, t) PROVE Goal
  BY <1>24, <1>0, <1>c DEF RequeueRead
<1>25. ASSUME NEW p \in Procs, NEW t \in Tasks, RequeueMissing(p, t) PROVE Goal
  <2>1. CASE mode[p] = "cleanup"
    <3>1. mode' = [mode EXCEPT ![p] = "none"] /\ todo' = [todo EXCEPT ![p] = {}]
      BY <1>25, <2>1 DEF RequeueMissing
    <3> QED
      BY <1>25, <1>0, <3>1 DEF RequeueMissing
  <2>2. CASE mode[p] # "cleanup"
    BY <1>25, <1>0, <2>2 DEF RequeueMissing
  <2> QED
    BY <2>1, <2>2
<1>26. ASSUME NEW r \in Recoverers, RequeueOpen(r) PROVE Goal
  BY <1>26, <1>0, <1>c DEF RequeueOpen
<1>27. ASSUME NEW p \in Procs, RequeueWrite(p) PROVE Goal
  BY <1>27, <1>0, <1>c DEF RequeueWrite
<1>28. ASSUME NEW p \in Procs, RequeueRemove(p) PROVE Goal
  BY <1>28, <1>0, <1>c DEF RequeueRemove
<1>29. ASSUME NEW p \in Procs, RequeueRaise(p) PROVE Goal
  <2>1. \A q \in Procs : todo'[q] \subseteq todo[q] /\ mode'[q] \in {mode[q], "none"}
    BY <1>29 DEF RequeueRaise
  <2> QED
    BY <1>29, <1>0, <2>1 DEF RequeueRaise
<1>30. ASSUME NEW t \in Tasks, Preempt(t) PROVE Goal
  BY <1>30, <1>0 DEF Preempt
<1>31. CASE Outage \/ NfsBack \/ UNCHANGED vars
  BY <1>31, <1>0 DEF Outage, NfsBack, vars
<1> QED
  BY <1>1, <1>2, <1>3, <1>4, <1>5, <1>6, <1>7, <1>8, <1>9, <1>10, <1>11, <1>12, <1>13, <1>14,
       <1>15, <1>16, <1>17, <1>18, <1>19, <1>20, <1>21, <1>22, <1>23, <1>24, <1>25, <1>26, <1>27,
       <1>28, <1>29, <1>30, <1>31
     DEF Next, ClaimStep, CompleteStep, Session, RecoveryStep

LEMMA RetryNext == RetryInv /\ [Next]_vars => RetryInv'
<1> SUFFICES ASSUME RetryInv, [Next]_vars PROVE RetryInv'
  OBVIOUS
<1>1. TypeInv' /\ RestInv'
  BY TypeNext, RestNext DEF RetryInv
<1> SUFFICES ASSUME NEW u \in Tasks
             PROVE  /\ IsFiniteSet(Owing(u)') /\ Cardinality(Owing(u)') <= deaths'
                    /\ Within(u, MaxRetries + deaths - Cardinality(Owing(u)))'
  BY <1>1 DEF RetryInv, OwingInv
<1>2. PICK before : before = Owing(u)
  OBVIOUS
<1>3. PICK after : after = Owing(u)'
  OBVIOUS
<1>4. IsFiniteSet(before) /\ Cardinality(before) \in Nat /\ Cardinality(before) <= deaths
  BY <1>2, FS_CardinalityType DEF RetryInv, OwingInv
<1>5. deaths \in Nat /\ MaxRetries \in Nat
  BY BoundsAssumption DEF RetryInv, TypeInv, TypeOK
<1>6. PICK n : n = MaxRetries + deaths - Cardinality(before)
  OBVIOUS
<1>7. n \in Nat /\ MaxRetries <= n /\ Within(u, n)
  BY <1>2, <1>4, <1>5, <1>6 DEF RetryInv
<1>8. CASE /\ after \subseteq before /\ deaths' \in {deaths, deaths + 1}
           /\ \A p \in Procs : mode[p] = "crash" /\ RequeueRead(p, u) => p \in before /\ p \notin after
  <2>1. IsFiniteSet(after) /\ Cardinality(after) \in Nat /\ Cardinality(after) <= Cardinality(before)
    BY <1>4, <1>8, FS_Subset, FS_CardinalityType
  <2>2. PICK m : m = MaxRetries + deaths' - Cardinality(after)
    OBVIOUS
  <2>3. m \in Nat /\ n <= m
    BY <1>4, <1>5, <1>6, <1>8, <2>1, <2>2
  <2>4. ASSUME NEW p \in Procs, mode[p] = "crash", RequeueRead(p, u) PROVE n < m
    <3>1. p \in before /\ after \subseteq before \ {p}
      BY <1>8, <2>4
    <3>2. IsFiniteSet(before \ {p}) /\ Cardinality(before \ {p}) = Cardinality(before) - 1
      BY <1>4, <3>1, FS_RemoveElement
    <3>3. Cardinality(after) <= Cardinality(before) - 1
      BY <3>1, <3>2, FS_Subset
    <3> QED
      BY <1>4, <1>5, <1>6, <1>8, <2>1, <2>2, <3>3
  <2>5. Within(u, m)'
    BY <1>7, <2>3, <2>4, WithinNext DEF RetryInv
  <2> QED
    BY <1>3, <1>4, <1>5, <1>8, <2>1, <2>2, <2>5 DEF Within
<1>9. CASE /\ \E w \in Workers : after \subseteq before \union {w} /\ CrashSignal(w)
           /\ deaths' = deaths + 1
  <2>1. PICK w \in Workers : after \subseteq before \union {w} /\ CrashSignal(w)
    BY <1>9
  <2>2. IsFiniteSet(before \union {w}) /\ Cardinality(before \union {w}) <= Cardinality(before) + 1
    <3>1. /\ IsFiniteSet(before \union {w})
          /\ \/ Cardinality(before \union {w}) = Cardinality(before)
             \/ Cardinality(before \union {w}) = Cardinality(before) + 1
      BY <1>4, FS_AddElement
    <3> QED
      BY <1>4, <3>1
  <2>3. /\ IsFiniteSet(after) /\ Cardinality(after) \in Nat
        /\ Cardinality(after) <= Cardinality(before) + 1
    <3>1. Cardinality(after) <= Cardinality(before \union {w}) /\ IsFiniteSet(after)
      BY <2>1, <2>2, FS_Subset
    <3> QED
      BY <1>4, <2>2, <3>1, FS_CardinalityType
  <2>4. PICK m : m = MaxRetries + deaths' - Cardinality(after)
    OBVIOUS
  <2>5. m \in Nat /\ n <= m
    BY <1>4, <1>5, <1>6, <1>9, <2>3, <2>4
  <2>6. ASSUME NEW p \in Procs, RequeueRead(p, u) PROVE FALSE
    BY <1>5, <1>9, <2>6 DEF RequeueRead, envVars
  <2>7. Within(u, m)'
    BY <1>7, <2>5, <2>6, WithinNext DEF RetryInv
  <2> QED
    BY <1>3, <1>4, <1>5, <1>9, <2>3, <2>4, <2>7 DEF Within
<1> QED
  BY <1>2, <1>3, <1>8, <1>9, OwingNext DEF RetryInv

\* However cleanups, crash handlers and remediations that run at once read
\* one count and write another, none of them takes a task's retries past the
\* cap by more than one for every session that ended.
THEOREM RetriesAreCapped == Spec => []RetriesCapped
<1>1. Init => RetryInv
  <2> SUFFICES ASSUME Init PROVE RetryInv
    OBVIOUS
  <2>a. IsFiniteSet({}) /\ Cardinality({}) = 0
    BY FS_EmptySet
  <2>1. TypeInv /\ RestInv
    BY TypeInit DEF Init, RestInv
  <2>2. \A t \in Tasks : Owing(t) = {}
    BY DEF Init, Owing
  <2>3. OwingInv /\ deaths = 0
    <3>1. deaths = 0 /\ \A t \in Tasks : IsFiniteSet(Owing(t)) /\ Cardinality(Owing(t)) = 0
      BY <2>2, <2>a DEF Init
    <3> QED
      BY <3>1 DEF OwingInv
  <2> QED
    <3>1. ASSUME NEW t \in Tasks PROVE Within(t, MaxRetries + deaths - Cardinality(Owing(t)))
      <4>1. MaxRetries + deaths - Cardinality(Owing(t)) = MaxRetries
        BY <2>a, <2>2, <2>3, BoundsAssumption
      <4>2. Within(t, MaxRetries)
        BY BoundsAssumption DEF Init, Within
      <4> QED
        BY <4>1, <4>2
    <3> QED
      BY <2>1, <2>3, <3>1 DEF RetryInv
<1>2. RetryInv => RetriesCapped
  <2> SUFFICES ASSUME RetryInv, NEW t \in Tasks
               PROVE  pTries[t] <= MaxRetries + deaths /\ cTries[t] <= MaxRetries + deaths
    BY DEF RetriesCapped
  <2>1. Cardinality(Owing(t)) \in Nat
    BY FS_CardinalityType DEF RetryInv, OwingInv
  <2>2. deaths \in Nat /\ MaxRetries \in Nat /\ pTries[t] \in Nat /\ cTries[t] \in Nat
    BY BoundsAssumption DEF RetryInv, TypeInv, TypeOK
  <2> QED
    BY <2>1, <2>2 DEF RetryInv, Within
<1> QED
  BY <1>1, <1>2, RetryNext, PTL DEF Spec
-----------------------------------------------------------------------------
(* What a crash handler leaves behind, with every recovery path in use *)

\* Each claim of a session in the crash handler is one that it has yet to
\* come to or is giving back, whoever else writes to the board meanwhile.
HandlerInv(w) ==
  /\ pc[w] \in {"scan", "rwrite", "rremove"}
  /\ outages = 0 =>
       \A t \in claimed : owner[t] = w => t \in todo[w] \/ (pc[w] # "scan" /\ job[w] = t)

CrashInv ==
  /\ TypeInv
  /\ outages = 0 => nfsUp
  /\ \A w \in Workers : mode[w] = "crash" => HandlerInv(w)

\* Who leaves the crash handler for good, and is not killed, has ended it.
LEMMA OnlyExitEnds ==
  ASSUME TypeInv, Next, NEW x \in Workers, pc[x] # "dead", pc[x] # "idle",
         pc'[x] = "dead", deaths' = deaths
  PROVE  CrashExit(x)
<1>b. Workers \subseteq Procs /\ Recoverers \subseteq Procs /\ deaths \in Nat
  BY BoundsAssumption DEF TypeInv, TypeOK, Procs
<1> USE DEF TypeInv, TypeOK, RequeueSteps, procVars, Goto, Return
<1>1. ASSUME NEW w \in Workers, NEW t \in Tasks, ClaimCheck(w, t) PROVE FALSE
  BY <1>1, <1>b DEF ClaimCheck
<1>2. ASSUME NEW w \in Workers, ClaimOpen(w) PROVE FALSE
  BY <1>2, <1>b DEF ClaimOpen
<1>3. ASSUME NEW w \in Workers, ClaimLock(w) PROVE FALSE
  BY <1>3, <1>b DEF ClaimLock
<1>4. ASSUME NEW w \in Workers, ClaimWrite(w) PROVE FALSE
  BY <1>4, <1>b DEF ClaimWrite
<1>5. ASSUME NEW w \in Workers, ClaimRemove(w) PROVE FALSE
  BY <1>5, <1>b DEF ClaimRemove
<1>6. ASSUME NEW w \in Workers, ClaimFallback(w) PROVE FALSE
  BY <1>6, <1>b DEF ClaimFallback
<1>7. ASSUME NEW w \in Workers, ClaimUnlink(w) PROVE FALSE
  BY <1>7, <1>b DEF ClaimUnlink
<1>8. ASSUME NEW w \in Workers, ClaimRaise(w) PROVE FALSE
  BY <1>8, <1>b DEF ClaimRaise
<1>9. ASSUME NEW w \in Workers, NEW t \in Tasks, CompleteCheck(w, t) PROVE FALSE
  BY <1>9, <1>b DEF CompleteCheck
<1>10. ASSUME NEW w \in Workers, CompleteWrite(w) PROVE FALSE
  BY <1>10, <1>b DEF CompleteWrite
<1>11. ASSUME NEW w \in Workers, CompleteRemove(w) PROVE FALSE
  BY <1>11, <1>b DEF CompleteRemove
<1>12. ASSUME NEW w \in Workers, CompleteFallback(w) PROVE FALSE
  BY <1>12, <1>b DEF CompleteFallback
<1>13. ASSUME NEW w \in Workers, CompleteRaise(w) PROVE FALSE
  BY <1>13, <1>b DEF CompleteRaise
<1>14. ASSUME NEW w \in Workers, AgeOut(w) PROVE FALSE
  BY <1>14, <1>b DEF AgeOut
<1>15. ASSUME NEW w \in Workers, Heartbeat(w) PROVE FALSE
  BY <1>15, <1>b DEF Heartbeat
<1>16. ASSUME NEW w \in Workers, SessionStart(w) PROVE FALSE
  BY <1>16, <1>b DEF SessionStart
<1>17. ASSUME NEW w \in Workers, SessionEnd(w) PROVE FALSE
  BY <1>17, <1>b DEF SessionEnd
<1>18. ASSUME NEW w \in Workers, Die(w) PROVE FALSE
  BY <1>18, <1>b DEF Die
<1>19. ASSUME NEW w \in Workers, CrashSignal(w) PROVE FALSE
  BY <1>19, <1>b DEF CrashSignal
<1>20. ASSUME NEW w \in Workers, CrashExit(w) PROVE CrashExit(x)
  BY <1>20, <1>b DEF CrashExit
<1>21. ASSUME NEW r \in Recoverers, CleanupStart(r) PROVE FALSE
  BY <1>21, <1>b DEF CleanupStart
<1>22. ASSUME NEW r \in Recoverers, CleanupEnd(r) PROVE FALSE
  BY <1>22, <1>b DEF CleanupEnd
<1>23. ASSUME NEW r \in Recoverers, NEW t \in Tasks, RequeueStart(r, t) PROVE FALSE
  BY <1>23, <1>b DEF RequeueStart
<1>24. ASSUME NEW p \in Procs, NEW t \in Tasks, RequeueRead(p, t) PROVE FALSE
  BY <1>24, <1>b DEF RequeueRead
<1>25. ASSUME NEW p \in Procs, NEW t \in Tasks, RequeueMissing(p, t) PROVE FALSE
  BY <1>25, <1>b DEF RequeueMissing
<1>26. ASSUME NEW r \in Recoverers, RequeueOpen(r) PROVE FALSE
  BY <1>26, <1>b DEF RequeueOpen
<1>27. ASSUME NEW p \in Procs, RequeueWrite(p) PROVE FALSE
  BY <1>27, <1>b DEF RequeueWrite
<1>28. ASSUME NEW p \in Procs, RequeueRemove(p) PROVE FALSE
  BY <1>28, <1>b DEF RequeueRemove
<1>29. ASSUME NEW p \in Procs, RequeueRaise(p) PROVE FALSE
  BY <1>29, <1>b DEF RequeueRaise
<1>30. ASSUME NEW t \in Tasks, Preempt(t) PROVE FALSE
  BY <1>30, <1>b DEF Preempt
<1>31. ASSUME Outage \/ NfsBack PROVE FALSE
  BY <1>31, <1>b DEF Outage, NfsBack
<1> QED
  BY <1>1, <1>2, <1>3, <1>4, <1>5, <1>6, <1>7, <1>8, <1>9, <1>10, <1>11, <1>12, <1>13, <1>14,
       <1>15, <1>16, <1>17, <1>18, <1>19, <1>20, <1>21, <1>22, <1>23, <1>24, <1>25, <1>26, <1>27,
       <1>28, <1>29, <1>30, <1>31
     DEF Next, ClaimStep, CompleteStep, Session, RecoveryStep

\* Nobody else puts a claim of the session on the board.
LEMMA CrashNext == CrashInv /\ [Next]_vars => CrashInv'
<1> SUFFICES ASSUME CrashInv, [Next]_vars PROVE CrashInv'
  OBVIOUS
<1> DEFINE Goal ==
      /\ outages' = 0 => nfsUp'
      /\ \A v \in Workers :
           mode'[v] = "crash" =>
             /\ pc'[v] \in {"scan", "rwrite", "rremove"}
             /\ outages' = 0 =>
                  \A u \in claimed' : owner'[u] = v => \/ u \in todo'[v]
                                                       \/ pc'[v] # "scan" /\ job'[v] = u
<1> SUFFICES Goal
  BY TypeNext DEF CrashInv, HandlerInv
<1>a. /\ outages = 0 => nfsUp
      /\ \A v \in Workers : mode[v] = "crash" => HandlerInv(v)
  BY DEF CrashInv
<1>b. Workers \subseteq Procs /\ Recoverers \subseteq Procs /\ Nobody \notin Workers
  BY NamesAssumption DEF Procs
<1>c. TypeOK /\ JobInv
  BY DEF CrashInv, TypeInv
<1> USE DEF TypeOK, JobInv, HandlerInv, ClaimSteps, CompleteSteps, RequeueSteps,
        boardVars, localVars, procVars, envVars, Goto, Return
<1>1. ASSUME NEW w \in Workers, NEW t \in Tasks, ClaimCheck(w, t) PROVE Goal
  BY <1>1, <1>a, <1>b, <1>c DEF ClaimCheck
<1>2. ASSUME NEW w \in Workers, ClaimOpen(w) PROVE Goal
  BY <1>2, <1>a, <1>b, <1>c DEF ClaimOpen
<1>3. ASSUME NEW w \in Workers, ClaimLock(w) PROVE Goal
  BY <1>3, <1>a, <1>b, <1>c DEF ClaimLock
<1>4. ASSUME NEW w \in Workers, ClaimWrite(w) PROVE Goal
  BY <1>4, <1>a, <1>b, <1>c DEF ClaimWrite, WriteClaimed
<1>5. ASSUME NEW w \in Workers, ClaimRemove(w) PROVE Goal
  BY <1>5, <1>a, <1>b, <1>c DEF ClaimRemove
<1>6. ASSUME NEW w \in Workers, ClaimFallback(w) PROVE Goal
  BY <1>6, <1>a, <1>b, <1>c DEF ClaimFallback
<1>7. ASSUME NEW w \in Workers, ClaimUnlink(w) PROVE Goal
  BY <1>7, <1>a, <1>b, <1>c DEF ClaimUnlink
<1>8. ASSUME NEW w \in Workers, ClaimRaise(w) PROVE Goal
  BY <1>8, <1>a, <1>b, <1>c DEF ClaimRaise
<1>9. ASSUME NEW w \in Workers, NEW t \in Tasks, CompleteCheck(w, t) PROVE Goal
  BY <1>9, <1>a, <1>b, <1>c DEF CompleteCheck
<1>10. ASSUME NEW w \in Workers, CompleteWrite(w) PROVE Goal
  BY <1>10, <1>a, <1>b, <1>c DEF CompleteWrite
<1>11. ASSUME NEW w \in Workers, CompleteRemove(w) PROVE Goal
  BY <1>11, <1>a, <1>b, <1>c DEF CompleteRemove, RemoveClaimed
<1>12. ASSUME NEW w \in Workers, CompleteFallback(w) PROVE Goal
  BY <1>12, <1>a, <1>b, <1>c DEF CompleteFallback, RemoveClaimed
<1>13. ASSUME NEW w \in Workers, CompleteRaise(w) PROVE Goal
  BY <1>13, <1>a, <1>b, <1>c DEF CompleteRaise
<1>14. ASSUME NEW w \in Workers, AgeOut(w) PROVE Goal
  BY <1>14, <1>a, <1>b, <1>c DEF AgeOut
<1>15. ASSUME NEW w \in Workers, Heartbeat(w) PROVE Goal
  BY <1>15, <1>a, <1>b, <1>c DEF Heartbeat, Reconcile
<1>16. ASSUME NEW w \in Workers, SessionStart(w) PROVE Goal
  BY <1>16, <1>a, <1>b, <1>c DEF SessionStart, Reconcile
<1>17. ASSUME NEW w \in Workers, SessionEnd(w) PROVE Goal
  BY <1>17, <1>a, <1>b, <1>c DEF SessionEnd, Reconcile
<1>18. ASSUME NEW w \in Workers, Die(w) PROVE Goal
  BY <1>18, <1>a, <1>b, <1>c DEF Die
<1>19. ASSUME NEW w \in Workers, CrashSignal(w) PROVE Goal
  BY <1>19, <1>a, <1>b, <1>c DEF CrashSignal, Reconcile
<1>20. ASSUME NEW w \in Workers, CrashExit(w) PROVE Goal
  BY <1>20, <1>a, <1>b, <1>c DEF CrashExit
<1>21. ASSUME NEW r \in Recoverers, CleanupStart(r) PROVE Goal
  BY <1>21, <1>a, <1>b, <1>c DEF CleanupStart
<1>22. ASSUME NEW r \in Recoverers, CleanupEnd(r) PROVE Goal
  BY <1>22, <1>a, <1>b, <1>c DEF CleanupEnd
<1>23. ASSUME NEW r \in Recoverers, NEW t \in Tasks, RequeueStart(r, t) PROVE Goal
  BY <1>23, <1>a, <1>b, <1>c DEF RequeueStart
<1>24. ASSUME NEW p \in Procs, NEW t \in Tasks, RequeueRead(p, t) PROVE Goal
  BY <1>24, <1>a, <1>b, <1>c DEF RequeueRead
<1>25. ASSUME NEW p \in Procs, NEW t \in Tasks, RequeueMissing(p, t) PROVE Goal
  BY <1>25, <1>a, <1>b, <1>c, SMTT(30) DEF RequeueMissing
<1>26. ASSUME NEW r \in Recoverers, RequeueOpen(r) PROVE Goal
  BY <1>26, <1>a, <1>b, <1>c DEF RequeueOpen
<1>27. ASSUME NEW p \in Procs, RequeueWrite(p) PROVE Goal
  BY <1>27, <1>a, <1>b, <1>c DEF RequeueWrite
<1>28. ASSUME NEW p \in Procs, RequeueRemove(p) PROVE Goal
  BY <1>28, <1>a, <1>b, <1>c DEF RequeueRemove, RemoveClaimed
<1>29. ASSUME NEW p \in Procs, RequeueRaise(p) PROVE Goal
  BY <1>29, <1>a, <1>b, <1>c DEF RequeueRaise
<1>30. ASSUME NEW t \in Tasks, Preempt(t) PROVE Goal
  BY <1>30, <1>a, <1>b, <1>c DEF Preempt, RemoveClaimed
<1>31. CASE Outage
  <2>1. outages' # 0 /\ UNCHANGED procVars
    BY <1>31, <1>c, BoundsAssumption DEF Outage
  <2> QED
    BY <2>1, <1>a
<1>32. CASE NfsBack \/ UNCHANGED vars
  BY <1>32, <1>a, <1>b, <1>c DEF NfsBack, vars
<1> HIDE DEF Goal
<1> QED
  BY <1>1, <1>2, <1>3, <1>4, <1>5, <1>6, <1>7, <1>8, <1>9, <1>10, <1>11, <1>12, <1>13, <1>14,
       <1>15, <1>16, <1>17, <1>18, <1>19, <1>20, <1>21, <1>22, <1>23, <1>24, <1>25, <1>26, <1>27,
       <1>28, <1>29, <1>30, <1>31, <1>32
     DEF Next, ClaimStep, CompleteStep, Session, RecoveryStep

\* A crash handler that gets to its end has given back every claim of its
\* session, although others claim, complete and requeue meanwhile.
THEOREM CrashesReleaseClaims == Spec => CrashReleasesOwnClaims
<1> DEFINE Released ==
      \A w \in Workers : mode[w] = "crash" /\ pc'[w] = "dead" /\ deaths' = deaths /\ outages = 0
                           => \A t \in claimed : owner[t] # w
<1>1. Init => CrashInv
  BY TypeInit DEF Init, CrashInv, Procs
<1>2. CrashInv /\ [Next]_vars => [Released]_vars
  <2> SUFFICES ASSUME CrashInv, Next, NEW w \in Workers, mode[w] = "crash", pc'[w] = "dead",
                      deaths' = deaths, outages = 0
               PROVE  \A t \in claimed : owner[t] # w
    OBVIOUS
  <2>1. pc[w] # "dead" /\ pc[w] # "idle" /\ TypeInv
    BY DEF CrashInv, HandlerInv
  <2>2. CrashExit(w)
    BY <2>1, OnlyExitEnds
  <2>3. todo[w] = {} /\ pc[w] = "scan"
    BY <2>2 DEF CrashExit
  <2> QED
    BY <2>3 DEF CrashInv, HandlerInv
<1> QED
  BY <1>1, <1>2, CrashNext, PTL DEF Spec, CrashReleasesOwnClaims
=============================================================================
