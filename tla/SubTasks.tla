------------------------------ MODULE SubTasks ------------------------------
(***************************************************************************)
(* Decomposition (swarm_lib.py): a pending parent is split into sub-tasks, *)
(* which hosts claim and complete; whoever completes one looks whether it  *)
(* was the last, and then completes the parent.  The claim of a sub-task   *)
(* is one step here; TaskBoard has its steps.                              *)
(***************************************************************************)
EXTENDS Naturals, FiniteSets

CONSTANTS
  SubHosts,
  NoHost,
  SubCount,       \* sub-tasks of the parent
  MaxSubDeaths    \* bound

ASSUME SubAssumption ==
  NoHost \notin SubHosts /\ SubCount \in Nat \ {0} /\ MaxSubDeaths \in Nat

Subs == 1..SubCount

VARIABLES
  parentIn,      \* the directories that hold the parent's file
  subIn,         \* and those that hold each sub-task's
  subHolder,     \* who claimed it
  parentLock,    \* who holds the parent's .lock
  subHost,       \* each host: where it is, and the sub-task at hand
  missedChecks   \* sub-tasks whose completion was not followed by a check of the
                 \* decomposed parent: the host failed, or came too early

subVars == <<parentIn, subIn, subHolder, parentLock, subHost, missedChecks>>

SubTypeOK ==
  /\ parentIn \subseteq {"pending", "claimed", "decomposed", "completed"}
  /\ subIn \in [Subs -> SUBSET {"pending", "claimed", "completed"}]
  /\ subHolder \in [Subs -> SubHosts \union {NoHost}]
  /\ parentLock \in SubHosts \union {NoHost}
  /\ subHost \in [SubHosts -> [at : {"idle", "dead", "claimLock", "claimed", "splitLock", "split",
                                     "decomposed", "work", "written", "check", "read", "all"},
                               sub : 0..SubCount, did : 0..SubCount]]
  /\ missedChecks \subseteq Subs

SubIdle == [at |-> "idle", sub |-> 0, did |-> 0]

SubInit ==
  /\ parentIn = {"pending"}
  /\ subIn = [k \in Subs |-> {}]
  /\ subHolder = [k \in Subs |-> NoHost]
  /\ parentLock = NoHost
  /\ subHost = [h \in SubHosts |-> SubIdle]
  /\ missedChecks = {}

-----------------------------------------------------------------------------
HostAt(h, pc) == subHost[h].at = pc
HostTo(h, pc) == subHost' = [subHost EXCEPT ![h].at = pc]
HostRests(h) == subHost' = [subHost EXCEPT ![h] = SubIdle]

\* decompose_task and claim_task: is the parent there?  Then the flock.
ParentWanted(h, pc) ==
  /\ HostAt(h, "idle") /\ "pending" \in parentIn
  /\ pc \in {"claimLock", "splitLock"}
  /\ HostTo(h, pc)
  /\ UNCHANGED <<parentIn, subIn, subHolder, parentLock, missedChecks>>
ParentLocked(h, from, to) ==
  /\ HostAt(h, from) /\ parentLock = NoHost
  /\ IF "pending" \in parentIn
       THEN /\ subHost' = [subHost EXCEPT ![h] = [at |-> to, sub |-> 1, did |-> 0]]
            /\ parentLock' = h
       ELSE HostRests(h) /\ UNCHANGED parentLock     \* it raises
  /\ UNCHANGED <<parentIn, subIn, subHolder, missedChecks>>

ClaimParentStep(h) ==
  \/ ParentLocked(h, "claimLock", "claimed")
  \/ /\ HostAt(h, "claimed")
     /\ parentIn' = (parentIn \union {"claimed"}) \ {"pending"}
     /\ parentLock' = NoHost
     /\ HostRests(h)
     /\ UNCHANGED <<subIn, subHolder, missedChecks>>

\* One file per sub-task, written whether it is there or not; ...
SplitSub(h) ==
  /\ HostAt(h, "split") /\ subHost[h].sub \in Subs
  /\ LET k == subHost[h].sub
     IN  /\ subIn' = [subIn EXCEPT ![k] = @ \union {"pending"}]
         /\ subHost' = [subHost EXCEPT ![h].sub = IF k = SubCount THEN 0 ELSE k + 1]
  /\ UNCHANGED <<parentIn, subHolder, parentLock, missedChecks>>

\* Mutant: the parent leaves pending and is written nowhere else.
WriteDecomposedLost(h) ==
  /\ HostAt(h, "split") /\ subHost[h].sub = 0
  /\ parentIn' = parentIn \ {"pending"}
  /\ HostTo(h, "decomposed")
  /\ UNCHANGED <<subIn, subHolder, parentLock, missedChecks>>

\* ... then the parent, with their names, ...
WriteDecomposed(h) ==
  /\ HostAt(h, "split") /\ subHost[h].sub = 0
  /\ parentIn' = parentIn \union {"decomposed"}
  /\ HostTo(h, "decomposed")
  /\ UNCHANGED <<subIn, subHolder, parentLock, missedChecks>>

\* ... and the pending file goes.
SplitEnd(h) ==
  /\ HostAt(h, "decomposed")
  /\ parentIn' = parentIn \ {"pending"}
  /\ parentLock' = NoHost
  /\ HostRests(h)
  /\ UNCHANGED <<subIn, subHolder, missedChecks>>

-----------------------------------------------------------------------------
ClaimSub(h, k) ==
  /\ HostAt(h, "idle") /\ "pending" \in subIn[k]
  /\ subIn' = [subIn EXCEPT ![k] = (@ \union {"claimed"}) \ {"pending"}]
  /\ subHolder' = [subHolder EXCEPT ![k] = h]
  /\ subHost' = [subHost EXCEPT ![h] = [at |-> "work", sub |-> k, did |-> k]]
  /\ UNCHANGED <<parentIn, parentLock, missedChecks>>

\* The first complete_task: the completed file, ...
CompleteWrite(h) ==
  /\ HostAt(h, "work")
  /\ subIn' = [subIn EXCEPT ![subHost[h].sub] = @ \union {"completed"}]
  /\ HostTo(h, "written")
  /\ UNCHANGED <<parentIn, subHolder, parentLock, missedChecks>>

\* Mutant: only the last sub-task of the list looks at its parent.
CompleteRemoveLast(h) ==
  /\ HostAt(h, "written")
  /\ LET k == subHost[h].sub
     IN  /\ subIn' = [subIn EXCEPT ![k] = @ \ {"claimed"}]
         /\ IF k = SubCount THEN HostTo(h, "check") ELSE HostRests(h)
  /\ UNCHANGED <<parentIn, subHolder, parentLock, missedChecks>>

\* ... then the claimed one goes; if it is gone already (the sub-task was
\* written twice), the remove raises and the parent is not checked.
CompleteRemove(h) ==
  /\ HostAt(h, "written")
  /\ LET k == subHost[h].sub
     IN  IF "claimed" \in subIn[k]
           THEN /\ subIn' = [subIn EXCEPT ![k] = @ \ {"claimed"}]
                /\ HostTo(h, "check")
                /\ UNCHANGED missedChecks
           ELSE HostRests(h) /\ missedChecks' = missedChecks \union {k} /\ UNCHANGED subIn
  /\ UNCHANGED <<parentIn, subHolder, parentLock>>

\* check_parent_completion: there and readable (it may go in between, then
\* the read raises).  The sub-tasks can be claimed before their parent has left
\* pending, and nobody checks again for those that are completed by then; ...
LookAtParent(h) ==
  /\ HostAt(h, "check")
  /\ IF "decomposed" \in parentIn
       THEN /\ subHost' = [subHost EXCEPT ![h].at = "read", ![h].sub = 1]
            /\ UNCHANGED missedChecks
       ELSE /\ HostRests(h)
            /\ missedChecks' = IF "pending" \in parentIn THEN missedChecks \union {subHost[h].did}
                               ELSE missedChecks
  /\ UNCHANGED <<parentIn, subIn, subHolder, parentLock>>

\* Mutant: one completed sub-task is enough.
LookAtSubAny(h) ==
  /\ HostAt(h, "read")
  /\ IF \E k \in Subs : "completed" \in subIn[k] THEN HostTo(h, "all") ELSE HostRests(h)
  /\ UNCHANGED <<parentIn, subIn, subHolder, parentLock, missedChecks>>

\* ... every sub-task in turn, ...
LookAtSub(h) ==
  /\ HostAt(h, "read")
  /\ LET k == subHost[h].sub
     IN  IF "completed" \notin subIn[k] THEN HostRests(h)
         ELSE IF k = SubCount THEN HostTo(h, "all")
         ELSE subHost' = [subHost EXCEPT ![h].sub = k + 1]
  /\ UNCHANGED <<parentIn, subIn, subHolder, parentLock, missedChecks>>

\* ... the completed parent is written, and the decomposed one goes: two hosts
\* may do both, and the second remove raises.
CheckWrite(h) ==
  /\ HostAt(h, "all") /\ subHost[h].sub # 0
  /\ parentIn' = parentIn \union {"completed"}
  /\ subHost' = [subHost EXCEPT ![h].sub = 0]
  /\ UNCHANGED <<subIn, subHolder, parentLock, missedChecks>>
CheckRemove(h) ==
  /\ HostAt(h, "all") /\ subHost[h].sub = 0
  /\ parentIn' = parentIn \ {"decomposed"}
  /\ HostRests(h)
  /\ UNCHANGED <<subIn, subHolder, parentLock, missedChecks>>

-----------------------------------------------------------------------------
\* A host dies: its flock is free.  What it had claimed is requeued.
SubHostDies(h) ==
  /\ ~HostAt(h, "idle") /\ ~HostAt(h, "dead")
  /\ Cardinality({g \in SubHosts : HostAt(g, "dead")}) < MaxSubDeaths
  /\ subHost' = [subHost EXCEPT ![h] = [SubIdle EXCEPT !.at = "dead"]]
  /\ parentLock' = IF parentLock = h THEN NoHost ELSE parentLock
  /\ missedChecks' = missedChecks \union {k \in Subs : k = subHost[h].did /\ "completed" \in subIn[k]}
  /\ UNCHANGED <<parentIn, subIn, subHolder>>
RequeueSub(k) ==
  /\ "claimed" \in subIn[k] /\ subHolder[k] # NoHost /\ HostAt(subHolder[k], "dead")
  /\ subIn' = [subIn EXCEPT ![k] = (@ \union {"pending"}) \ {"claimed"}]
  /\ UNCHANGED <<parentIn, subHolder, parentLock, subHost, missedChecks>>

SubStep(h) ==
  \/ ClaimParentStep(h)
  \/ ParentLocked(h, "splitLock", "split") \/ SplitSub(h) \/ WriteDecomposed(h) \/ SplitEnd(h)
  \/ CompleteWrite(h) \/ CompleteRemove(h)
  \/ LookAtParent(h) \/ LookAtSub(h) \/ CheckWrite(h) \/ CheckRemove(h)
  \/ \E k \in Subs : ClaimSub(h, k)

SubNext ==
  \/ \E h \in SubHosts :
       SubStep(h) \/ SubHostDies(h) \/ \E pc \in {"claimLock", "splitLock"} : ParentWanted(h, pc)
  \/ \E k \in Subs : RequeueSub(k)

SubFairness ==
  /\ \A h \in SubHosts : WF_subVars(SubStep(h))
  /\ \A k \in Subs : WF_subVars(RequeueSub(k))

-----------------------------------------------------------------------------
\* The parent is always in some directory, whoever dies in the middle of
\* moving it.
ParentKept == parentIn # {}

\* "Check if all subtasks of a decomposed parent are complete": the parent is
\* completed only when every sub-task is, although the files are looked at one
\* by one and decomposition may start anew after a crash.
ParentAfterSubs == "completed" \in parentIn => \A k \in Subs : "completed" \in subIn[k]

\* Each of the last hosts writes its own file before it looks at the others':
\* one of them sees all, and completes the parent, unless a host failed
\* between the two, or looked before the parent was decomposed.
ParentSettles ==
  "decomposed" \in parentIn ~> ("completed" \in parentIn \/ missedChecks # {})
=============================================================================
