------------------------- MODULE SqliteTasksProofs -------------------------
(***************************************************************************)
(* Theorems about the task queue over SQLite.                              *)
(***************************************************************************)
EXTENDS SqliteTasks, TLAPS

\* What the TaskQueue calls in progress are about.
CallInv ==
  \A p \in Procs : /\ call[p] # "none" => job[p] \in Tasks
                   /\ call[p] \notin {"none", "requeue"} => p \in Claimers

\* Only a requeue_stale that may run has selected rows.
SweepInv == ~Sweeps => \A o \in Operators : seen[o] = {}

LEMMA TypeInit == Init => TypeOK /\ CallInv /\ SweepInv
BY QueueAssumption DEF Init, TypeOK, CallInv, SweepInv, Procs, States, Calls

LEMMA SaveTyped ==
  ASSUME TypeOK, CallInv, NEW p \in Procs, Save(p)
  PROVE  /\ job[p] \in Tasks /\ call[p] \in Calls
         /\ call[p] \in {"claim", "complete", "fail"} => p \in Claimers
<1>1. call[p] # "none"
  BY DEF Save
<1>2. call[p] \in Calls \union {"none"}
  BY DEF TypeOK
<1> QED
  BY <1>1, <1>2 DEF CallInv

\* One step keeps the types, whoever takes it.
LEMMA TypeNext == TypeOK /\ CallInv /\ [Next]_vars => TypeOK' /\ CallInv'
<1> SUFFICES ASSUME TypeOK, CallInv, [Next]_vars PROVE TypeOK' /\ CallInv'
  OBVIOUS
<1> USE QueueAssumption DEF TypeOK, CallInv, Procs
<1>take. ASSUME NEW c \in Claimers, NEW t \in Tasks, Take(c, t) PROVE TypeOK' /\ CallInv'
  BY <1>take DEF Take, States
<1>1. ASSUME NEW c \in Claimers, Claim(c) \/ ClaimMatching(c) PROVE TypeOK' /\ CallInv'
  BY <1>1, <1>take DEF Claim, ClaimMatching, First, Runnable, Pending
<1>2. ASSUME NEW c \in Claimers, NEW t \in Tasks, ClaimById(c, t) PROVE TypeOK' /\ CallInv'
  BY <1>2, <1>take DEF ClaimById
<1>3. ASSUME NEW c \in Claimers, Die(c) PROVE TypeOK' /\ CallInv'
  BY <1>3 DEF Die
<1>4. ASSUME NEW c \in Claimers, NEW t \in Tasks, AskInVain(c, t) PROVE TypeOK' /\ CallInv'
  BY <1>4 DEF AskInVain
<1>5. ASSUME NEW p \in Procs, Save(p) PROVE TypeOK' /\ CallInv'
  <2>1. job[p] \in Tasks /\ call[p] \in Calls
    BY <1>5, SaveTyped
  <2>2. NewState(call[p]) \in States
    BY DEF NewState, States
  <2>3. call[p] \in {"claim", "complete", "fail"} => p \in Claimers
    BY <1>5, SaveTyped
  <2>4. state' \in [Tasks -> States]
    BY <1>5, <2>1, <2>2 DEF Save
  <2>5. claimedBy' \in [Tasks -> Claimers \union {Nobody}]
    BY <1>5, <2>1 DEF Save
  <2>6. old' \subseteq Tasks
    BY <1>5 DEF Save
  <2>7. result' \in [Tasks -> Claimers \union {Nobody}]
    BY <1>5, <2>1, <2>3 DEF Save
  <2>8. given' \subseteq Claimers \X Tasks
    BY <1>5, <2>1, <2>3 DEF Save
  <2>9. /\ call' \in [Procs -> Calls \union {"none"}]
        /\ job' \in [Procs -> Tasks \union {NoTask}]
        /\ UNCHANGED <<seen, dead>>
    BY <1>5 DEF Save
  <2>10. CallInv'
    BY <1>5 DEF Save
  <2> QED
    BY <2>4, <2>5, <2>6, <2>7, <2>8, <2>9, <2>10
<1>6. ASSUME NEW p \in Procs, NEW m \in Calls, NEW t \in Tasks, Ask(p, m, t)
      PROVE TypeOK' /\ CallInv'
  <2>1. m # "requeue" => p \in Claimers
    BY <1>6 DEF Ask, Calls
  <2>2. TypeOK'
    BY <1>6 DEF Ask
  <2>3. CallInv'
    BY <1>6, <2>1 DEF Ask
  <2> QED
    BY <2>2, <2>3
<1>7. ASSUME NEW o \in Operators, SweepSelect(o) \/ SweepUpdate(o) PROVE TypeOK' /\ CallInv'
  BY <1>7 DEF SweepSelect, SweepUpdate, States
<1>8. ASSUME NEW t \in Tasks, Age(t) PROVE TypeOK' /\ CallInv'
  BY <1>8 DEF Age
<1>9. CASE UNCHANGED vars
  BY <1>9 DEF vars
<1> QED
  BY <1>1, <1>2, <1>3, <1>4, <1>5, <1>6, <1>7, <1>8, <1>9 DEF Next

\* The rows keep their type, whatever calls are in progress.
THEOREM TypeCorrect == Spec => []TypeOK
<1>1. TypeOK /\ CallInv /\ [Next]_vars => (TypeOK /\ CallInv)'
  BY TypeNext
<1> QED
  BY TypeInit, <1>1, PTL DEF Spec

-----------------------------------------------------------------------------
\* Whatever its get() returned, the save of a TaskQueue method is a step of
\* the lifecycle or changes no row.
LEMMA SaveRefines ==
  ASSUME TypeOK, CallInv, NEW p \in Procs, Save(p)
  PROVE  [Lifecycle!Next]_<<state, claimedBy>>
<1> DEFINE m == call[p]
           t == job[p]
<1>1. t \in Tasks /\ m \in Calls
  BY SaveTyped
<1>2. CASE state[t] \notin ValidFrom(m)
  BY <1>2 DEF Save
<1>3. CASE m = "requeue" /\ state[t] \in ValidFrom(m)
  <2>1. state[t] # "completed"
    BY <1>3 DEF ValidFrom
  <2>2. /\ state' = [u \in Tasks |-> IF u \in {t} THEN "pending" ELSE state[u]]
        /\ claimedBy' = [u \in Tasks |-> IF u \in {t} THEN Nobody ELSE claimedBy[u]]
    BY <1>1, <1>3 DEF Save, NewState, TypeOK
  <2>3. Lifecycle!Requeue({t})
    BY <2>1, <2>2 DEF Lifecycle!Requeue
  <2> QED
    BY <1>1, <2>3 DEF Lifecycle!Next
<1>4. CASE m = "start" /\ state[t] \in ValidFrom(m)
  BY <1>1, <1>4 DEF Save, ValidFrom, NewState, Lifecycle!Start, Lifecycle!Next
<1>5. CASE m \in {"complete", "fail"} /\ state[t] \in ValidFrom(m)
  <2>1. NewState(m) \in {"completed", "failed"} /\ state[t] \in {"claimed", "running"}
    BY <1>5 DEF ValidFrom, NewState
  <2> QED
    BY <1>1, <1>5, <2>1 DEF Save, Lifecycle!Finish, Lifecycle!Next
<1>6. CASE m = "claim"
  BY <1>2, <1>6 DEF ValidFrom
<1> QED
  BY <1>1, <1>2, <1>3, <1>4, <1>5, <1>6 DEF Calls

LEMMA StepRefines ==
  ASSUME TypeOK, CallInv, SweepInv, [Next]_vars
  PROVE  [Lifecycle!Next]_<<state, claimedBy>> /\ SweepInv'
<1>take. ASSUME NEW c \in Claimers, NEW t \in Pending, Take(c, t)
         PROVE  [Lifecycle!Next]_<<state, claimedBy>> /\ SweepInv'
  BY <1>take DEF Take, Pending, SweepInv, Lifecycle!Claim, Lifecycle!Next
<1>1. ASSUME NEW c \in Claimers, Claim(c) \/ ClaimMatching(c)
      PROVE  [Lifecycle!Next]_<<state, claimedBy>> /\ SweepInv'
  BY <1>1, <1>take DEF Claim, ClaimMatching, First, Runnable
<1>2. ASSUME NEW c \in Claimers, NEW t \in Tasks, ClaimById(c, t)
      PROVE  [Lifecycle!Next]_<<state, claimedBy>> /\ SweepInv'
  BY <1>2, <1>take DEF ClaimById
<1>3. ASSUME NEW p \in Procs, Save(p)
      PROVE  [Lifecycle!Next]_<<state, claimedBy>> /\ SweepInv'
  BY <1>3, SaveRefines DEF Save, SweepInv
<1>4. ASSUME NEW o \in Operators, SweepUpdate(o)
      PROVE  [Lifecycle!Next]_<<state, claimedBy>> /\ SweepInv'
  <2>1. Sweeps /\ seen[o] \subseteq Tasks
    BY <1>4, QueueAssumption DEF SweepUpdate, SweepInv, TypeOK
  <2>2. Lifecycle!Requeue(seen[o])
    BY <1>4, <2>1 DEF SweepUpdate, Lifecycle!Requeue
  <2> QED
    BY <2>1, <2>2 DEF Lifecycle!Next, SweepInv
<1>5. ASSUME NEW o \in Operators, SweepSelect(o)
      PROVE  [Lifecycle!Next]_<<state, claimedBy>> /\ SweepInv'
  BY <1>5 DEF SweepSelect, SweepInv
<1>6. CASE \/ \E c \in Claimers : Die(c) \/ \E t \in Tasks : AskInVain(c, t)
           \/ \E p \in Procs, m \in Calls, t \in Tasks : Ask(p, m, t)
           \/ \E t \in Tasks : Age(t)
           \/ UNCHANGED vars
  BY <1>6 DEF Die, AskInVain, Ask, Age, vars, SweepInv
<1> QED
  BY <1>1, <1>2, <1>3, <1>4, <1>5, <1>6 DEF Next

\* The rows behave like the task lifecycle: every method of TaskQueue reads
\* first and saves later, and the WHERE clause of the update keeps a late
\* save from changing a row that moved on in between; only where
\* requeue_stale runs may a completed task come back.
THEOREM RowsFollowLifecycle == Spec => ImplementsLifecycle
<1>1. Init => Lifecycle!Init
  BY DEF Init, Lifecycle!Init
<1>2. TypeOK /\ CallInv /\ SweepInv /\ [Next]_vars
      => (TypeOK /\ CallInv /\ SweepInv)' /\ [Lifecycle!Next]_<<state, claimedBy>>
  BY TypeNext, StepRefines
<1> QED
  BY TypeInit, <1>1, <1>2, PTL DEF Spec, ImplementsLifecycle, Lifecycle!Spec

\* On the backend itself a task is handed to a claimer only in the step
\* that takes it from pending to claimed.
THEOREM NoDoubleBookingBackend == ASSUME ~Facade PROVE Spec => NoDoubleBooking
<1> DEFINE Quiet == \A p \in Procs : call[p] # "claim"
           Booked == \A c \in Claimers, t \in Tasks :
                       <<c, t>> \in given' \ given
                         => state[t] = "pending" /\ state'[t] = "claimed" /\ claimedBy'[t] = c
<1>1. Init => Quiet
  BY DEF Init
<1>2. ASSUME TypeOK, Quiet, [Next]_vars PROVE Quiet' /\ Booked
  <2>take. ASSUME NEW c \in Claimers, NEW t \in Pending, Take(c, t) PROVE Quiet' /\ Booked
    BY <1>2, <2>take DEF Take, Pending, TypeOK
  <2>1. ASSUME NEW c \in Claimers, Claim(c) \/ ClaimMatching(c) PROVE Quiet' /\ Booked
    BY <2>1, <2>take DEF Claim, ClaimMatching, First, Runnable
  <2>2. ASSUME NEW c \in Claimers, NEW t \in Tasks, ClaimById(c, t) PROVE Quiet' /\ Booked
    BY <2>2, <2>take DEF ClaimById
  <2>3. ASSUME NEW p \in Procs, Save(p) PROVE Quiet' /\ Booked
    <3>1. given' \subseteq given
      BY <1>2, <2>3 DEF Save
    <3>2. Quiet'
      BY <1>2, <2>3 DEF Save, TypeOK
    <3> QED
      BY <3>1, <3>2
  <2>4. ASSUME NEW p \in Procs, NEW m \in Calls, NEW t \in Tasks, Ask(p, m, t)
        PROVE  Quiet' /\ Booked
    <3>1. m # "claim"
      BY <2>4 DEF Ask
    <3> QED
      BY <1>2, <2>4, <3>1 DEF Ask, TypeOK
  <2>5. ASSUME NEW c \in Claimers, Die(c) PROVE Quiet' /\ Booked
    BY <1>2, <2>5 DEF Die, TypeOK
  <2>6. CASE \/ \E c \in Claimers, t \in Tasks : AskInVain(c, t)
             \/ \E o \in Operators : SweepSelect(o) \/ SweepUpdate(o)
             \/ \E t \in Tasks : Age(t)
             \/ UNCHANGED vars
    BY <1>2, <2>6 DEF AskInVain, SweepSelect, SweepUpdate, Age, vars
  <2> QED
    BY <1>2, <2>1, <2>2, <2>3, <2>4, <2>5, <2>6 DEF Next
<1>3. TypeOK /\ CallInv /\ Quiet /\ [Next]_vars => (TypeOK /\ CallInv /\ Quiet)' /\ [Booked]_vars
  BY <1>2, TypeNext
<1> QED
  BY TypeInit, <1>1, <1>3, PTL DEF Spec, NoDoubleBooking

\* Only the save of a complete() writes a result, and its WHERE clause finds
\* no row that is completed: whoever answers second changes nothing, also
\* where requeue_stale runs.
THEOREM ResultsStay == Spec => FirstResultStays
<1> DEFINE Stays == \A t \in Tasks : state[t] = "completed" /\ state'[t] = "completed"
                                       => result'[t] = result[t]
<1>1. ASSUME TypeOK, CallInv, Next PROVE Stays
  <2>1. ASSUME NEW p \in Procs, Save(p) PROVE Stays
    <3>1. CASE state[job[p]] \in ValidFrom(call[p]) /\ call[p] = "complete"
      <4>1. state[job[p]] # "completed"
        BY <3>1 DEF ValidFrom
      <4>2. \A t \in Tasks \ {job[p]} : result'[t] = result[t]
        BY <2>1, <3>1 DEF Save, TypeOK
      <4> QED
        BY <4>1, <4>2
    <3>2. CASE ~(state[job[p]] \in ValidFrom(call[p]) /\ call[p] = "complete")
      BY <2>1, <3>2 DEF Save
    <3> QED
      BY <3>1, <3>2
  <2>2. CASE result' = result
    BY <2>2
  <2> QED
    BY <1>1, <2>1, <2>2 DEF Next, Claim, ClaimMatching, ClaimById, Take, AskInVain, Ask,
       SweepSelect, SweepUpdate, Age, Die
<1>2. TypeOK /\ CallInv /\ [Next]_vars => (TypeOK /\ CallInv)' /\ [Stays]_vars
  BY <1>1, TypeNext
<1> QED
  BY TypeInit, <1>2, PTL DEF Spec, FirstResultStays
=============================================================================
