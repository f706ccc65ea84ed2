---------------------------- MODULE SqliteTasks ----------------------------
(***************************************************************************)
(* The task queue over the SQLite backend: sqlite_backend.py, whose        *)
(* statements are transactions, and TaskQueue of task_queue.py, which      *)
(* reads a task with get() and saves it with a second call.  Claimers      *)
(* claim, start and finish tasks and may die; operators requeue tasks by   *)
(* hand and run requeue_stale, possibly at once.                           *)
(***************************************************************************)
EXTENDS Naturals, FiniteSets

CONSTANTS
  Tasks, Claimers, Operators,
  Nobody,     \* claimed_by = ''
  NoTask,     \* a process is in no call
  Rank,       \* a task's place in ORDER BY priority, created_at
  Needs,      \* the capabilities a task requires
  Has,        \* the capabilities a claimer has
  Facade,     \* whether claim_matching is called on TaskQueue
  Sweeps,     \* whether requeue_stale is run
  ByHand,     \* whether operators requeue tasks by hand
  MaxDeaths   \* bound: how many claimers die

ASSUME QueueAssumption ==
  /\ Nobody \notin Claimers /\ NoTask \notin Tasks
  /\ Claimers \intersect Operators = {}
  /\ Rank \in [Tasks -> Nat]
  /\ Facade \in BOOLEAN /\ Sweeps \in BOOLEAN /\ ByHand \in BOOLEAN
  /\ MaxDeaths \in Nat

Procs  == Claimers \union Operators
States == {"pending", "claimed", "running", "completed", "failed"}
Calls  == {"claim", "start", "complete", "fail", "requeue"}

VARIABLES
  state, claimedBy,  \* the columns of a row
  old,               \* claimed rows whose claimed_at is older than the TTL
  result,            \* the result column: the claimer that completed it
  given,             \* <<c, t>>: c was handed t and is not done with it
  call, job,         \* the TaskQueue call a process is in, after its get()
  seen,              \* the rows requeue_stale selected
  dead

vars == <<state, claimedBy, old, result, given, call, job, seen, dead>>

TypeOK ==
  /\ state \in [Tasks -> States]
  /\ claimedBy \in [Tasks -> Claimers \union {Nobody}]
  /\ old \subseteq Tasks
  /\ result \in [Tasks -> Claimers \union {Nobody}]
  /\ given \subseteq Claimers \X Tasks
  /\ call \in [Procs -> Calls \union {"none"}]
  /\ job \in [Procs -> Tasks \union {NoTask}]
  /\ seen \in [Operators -> SUBSET Tasks]
  /\ dead \subseteq Claimers

Init ==
  /\ state = [t \in Tasks |-> "pending"]
  /\ claimedBy = [t \in Tasks |-> Nobody]
  /\ old = {}
  /\ result = [t \in Tasks |-> Nobody]
  /\ given = {}
  /\ call = [p \in Procs |-> "none"]
  /\ job = [p \in Procs |-> NoTask]
  /\ seen = [o \in Operators |-> {}]
  /\ dead = {}

-----------------------------------------------------------------------------
Idle(p)     == call[p] = "none" /\ p \notin dead
Pending     == {t \in Tasks : state[t] = "pending"}
Runnable(c) == {t \in Pending : Needs[t] \subseteq Has[c]}
First(S)    == {t \in S : \A u \in S : Rank[t] <= Rank[u]}

\* UPDATE ... SET state = 'claimed' in the transaction that found the row.
Take(c, t) ==
  /\ state' = [state EXCEPT ![t] = "claimed"]
  /\ claimedBy' = [claimedBy EXCEPT ![t] = c]
  /\ old' = old \ {t}
  /\ given' = given \union {<<c, t>>}
  /\ UNCHANGED <<result, call, job, seen, dead>>

\* Mutant: the row is not looked for in state pending.
ClaimByIdUnchecked(c, t) == Idle(c) /\ state[t] # "completed" /\ Take(c, t)

\* claim(claimer), and claim(claimer, task_id).
Claim(c) ==
  /\ Idle(c)
  /\ \E t \in First(Pending) : Take(c, t)
ClaimById(c, t) == Idle(c) /\ t \in Pending /\ Take(c, t)

\* SQLiteTaskBackend.claim_matching
ClaimMatching(c) ==
  /\ Idle(c) /\ ~Facade
  /\ \E t \in First(Runnable(c)) : Take(c, t)

\* The get() and the check of state of a TaskQueue method.  claim_matching
\* lists the pending rows before it gets them one by one, so the row it
\* takes need not be the first any more.
Ask(p, m, t) ==
  /\ Idle(p)
  /\ CASE m = "claim"    -> Facade /\ p \in Claimers /\ t \in Runnable(p)
       [] m = "requeue"  -> ByHand /\ p \in Operators /\ state[t] # "completed"
       [] m = "start"    -> <<p, t>> \in given /\ state[t] = "claimed"
       [] OTHER          -> <<p, t>> \in given /\ state[t] \in {"claimed", "running"}
  /\ call' = [call EXCEPT ![p] = m]
  /\ job' = [job EXCEPT ![p] = t]
  /\ UNCHANGED <<state, claimedBy, old, result, given, seen, dead>>

\* A method's get() finds a state it does not accept: it returns None, and
\* the claimer gives the task up.
AskInVain(c, t) ==
  /\ Idle(c) /\ <<c, t>> \in given /\ state[t] \notin {"claimed", "running"}
  /\ given' = given \ {<<c, t>>}
  /\ UNCHANGED <<state, claimedBy, old, result, call, job, seen, dead>>

\* Mutant: complete and fail do not look at the state.
ValidFromAny(m) ==
  CASE m = "start" -> {"claimed"}
    [] m \in {"complete", "fail"} -> States
    [] m = "requeue" -> States \ {"completed"}
    [] OTHER -> {}

\* _transition and requeue: the update and its WHERE clause.
ValidFrom(m) ==
  CASE m = "start" -> {"claimed"}
    [] m \in {"complete", "fail"} -> {"claimed", "running"}
    [] m = "requeue" -> States \ {"completed"}
    [] OTHER -> {}

\* Mutant: fail writes a state that is not in the CHECK of the column.
NewStateMisspelt(m) ==
  CASE m = "start" -> "running" [] m = "complete" -> "completed"
    [] m = "fail" -> "error"    [] OTHER -> "pending"

NewState(m) ==
  CASE m = "start" -> "running" [] m = "complete" -> "completed"
    [] m = "fail" -> "failed"   [] OTHER -> "pending"

\* _save of the task get() returned; for a claim it does nothing, and the
\* method returns the task as claimed.
Save(p) ==
  LET m == call[p]
      t == job[p]
      hit == state[t] \in ValidFrom(m)
  IN  /\ m # "none" /\ p \notin dead
      /\ state' = IF hit THEN [state EXCEPT ![t] = NewState(m)] ELSE state
      /\ claimedBy' = IF hit /\ m = "requeue" THEN [claimedBy EXCEPT ![t] = Nobody]
                                              ELSE claimedBy
      /\ old' = IF hit THEN old \ {t} ELSE old
      /\ result' = IF hit /\ m = "complete" THEN [result EXCEPT ![t] = p] ELSE result
      /\ given' = CASE m = "claim" -> given \union {<<p, t>>}
                    [] m \in {"complete", "fail"} -> given \ {<<p, t>>}
                    [] OTHER -> given
      /\ call' = [call EXCEPT ![p] = "none"]
      /\ job' = [job EXCEPT ![p] = NoTask]
      /\ UNCHANGED <<seen, dead>>

\* Mutant: requeue_stale selects running tasks only.
SweepSelectRunning(o) ==
  /\ Sweeps /\ seen[o] = {}
  /\ seen' = [seen EXCEPT ![o] = {t \in old : state[t] = "running"}]
  /\ seen'[o] # {}
  /\ UNCHANGED <<state, claimedBy, old, result, given, call, job, dead>>

\* The SELECT of requeue_stale; it ends before the first UPDATE begins.
SweepSelect(o) ==
  /\ Sweeps /\ seen[o] = {}
  /\ seen' = [seen EXCEPT ![o] = {t \in old : state[t] = "claimed"}]
  /\ seen'[o] # {}
  /\ UNCHANGED <<state, claimedBy, old, result, given, call, job, dead>>

\* Its UPDATEs, one transaction: they look at no state.
SweepUpdate(o) ==
  /\ seen[o] # {}
  /\ state' = [t \in Tasks |-> IF t \in seen[o] THEN "pending" ELSE state[t]]
  /\ claimedBy' = [t \in Tasks |-> IF t \in seen[o] THEN Nobody ELSE claimedBy[t]]
  /\ old' = old \ seen[o]
  /\ seen' = [seen EXCEPT ![o] = {}]
  /\ UNCHANGED <<result, given, call, job, dead>>

\* claimed_at passes the TTL (nobody looks at the age of other rows).
Age(t) ==
  /\ state[t] = "claimed" /\ t \notin old
  /\ old' = old \union {t}
  /\ UNCHANGED <<state, claimedBy, result, given, call, job, seen, dead>>

Die(c) ==
  /\ c \notin dead /\ Cardinality(dead) < MaxDeaths
  /\ dead' = dead \union {c}
  /\ given' = {g \in given : g[1] # c}
  /\ call' = [call EXCEPT ![c] = "none"]
  /\ job' = [job EXCEPT ![c] = NoTask]
  /\ UNCHANGED <<state, claimedBy, old, result, seen>>

Next ==
  \/ \E c \in Claimers : Claim(c) \/ ClaimMatching(c) \/ Die(c)
  \/ \E c \in Claimers, t \in Tasks : ClaimById(c, t) \/ AskInVain(c, t)
  \/ \E p \in Procs : Save(p) \/ \E m \in Calls, t \in Tasks : Ask(p, m, t)
  \/ \E o \in Operators : SweepSelect(o) \/ SweepUpdate(o)
  \/ \E t \in Tasks : Age(t)

Spec == Init /\ [][Next]_vars

\* Time passes and requeue_stale is run again and again.
FairSpec ==
  /\ Spec
  /\ \A t \in Tasks : WF_vars(Age(t))
  /\ \A o \in Operators : WF_vars(SweepSelect(o)) /\ WF_vars(SweepUpdate(o)) /\ WF_vars(Save(o))
  /\ \A c \in Claimers : WF_vars(Save(c))

-----------------------------------------------------------------------------
Lifecycle == INSTANCE TaskLifecycle WITH holder <- claimedBy, Resurrects <- Sweeps

\* The rows, with the calls of TaskQueue racing over them, behave like the
\* lifecycle the queue promises: although every method reads first and
\* saves later, the WHERE clause of the update keeps a late save from
\* changing a row that moved on.  The update of requeue_stale has no such
\* clause: where it runs, a completed task may come back.
ImplementsLifecycle == Lifecycle!Spec

\* The result of a completed task is the one of the first completion
\* (complete() of a second claimer is a lost race, not an overwrite).
FirstResultStays ==
  [][\A t \in Tasks : state[t] = "completed" /\ state'[t] = "completed"
                      => result'[t] = result[t]]_vars

\* "Uses BEGIN IMMEDIATE for write-lock atomicity - no double-booking":
\* a task is handed to one claimer at a time; a second one gets it only
\* after it was requeued.
NoDoubleBooking ==
  [][\A c \in Claimers, t \in Tasks :
       <<c, t>> \in given' \ given
         => state[t] = "pending" /\ state'[t] = "claimed" /\ claimedBy'[t] = c]_vars

\* "10 minutes - requeue if uncompleted": the task of a claimer that died
\* before it started comes back.
UnstartedComesBack ==
  \A c \in Claimers, t \in Tasks :
    (c \in dead /\ state[t] = "claimed" /\ claimedBy[t] = c)
      ~> ~(state[t] = "claimed" /\ claimedBy[t] = c)
=============================================================================
