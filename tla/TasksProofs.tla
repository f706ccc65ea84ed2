---------------------------- MODULE TasksProofs ----------------------------
(***************************************************************************)
(* What MCTasks checks on its small instance, for any tasks, workers,      *)
(* hosts, generators, passes and alarms: each of the components has an     *)
(* inductive invariant of its own, and they run side by side.              *)
(***************************************************************************)
EXTENDS MCTasks, FiniteSetTheorems, SequenceTheorems, WellFoundedInduction, TLAPS

\* The elements of a finite set, in some order.
LEMMA Listed ==
  ASSUME NEW S, IsFiniteSet(S)
  PROVE  /\ SetToSeq(S) \in [1..Cardinality(S) -> S] /\ IsInjective(SetToSeq(S))
         /\ SetToSeq(S) \in Seq(S) /\ Len(SetToSeq(S)) = Cardinality(S) /\ Cardinality(S) \in Nat
<1>1. Cardinality(S) \in Nat /\ ExistsBijection(1..Cardinality(S), S)
  BY FS_CardinalityType
<1>2. \E f \in [1..Cardinality(S) -> S] : IsInjective(f)
  BY <1>1 DEF ExistsBijection, Bijection, Injection
<1>3. SetToSeq(S) \in [1..Cardinality(S) -> S] /\ IsInjective(SetToSeq(S))
  BY <1>2 DEF SetToSeq
<1> QED
  BY <1>1, <1>3

LEMMA RemoveOne ==
  ASSUME NEW T, NEW s \in Seq(T), NEW i \in DOMAIN s
  PROVE  RemoveAt(s, i) \in Seq(T) /\ Len(RemoveAt(s, i)) = Len(s) - 1
<1>1. /\ SubSeq(s, 1, i - 1) \in Seq(T) /\ Len(SubSeq(s, 1, i - 1)) = i - 1
      /\ SubSeq(s, i + 1, Len(s)) \in Seq(T) /\ Len(SubSeq(s, i + 1, Len(s))) = Len(s) - i
  BY SubSeqProperties
<1> DEFINE front == SubSeq(s, 1, i - 1)  back == SubSeq(s, i + 1, Len(s))
<1>2. i \in 1..Len(s) /\ Len(s) \in Nat
  OBVIOUS
<1>3. front \o back \in Seq(T) /\ Len(front \o back) = Len(front) + Len(back)
  <2> HIDE DEF front, back
  <2>1. front \in Seq(T) /\ back \in Seq(T)
    BY <1>1 DEF front, back
  <2> QED
    BY <2>1, ConcatProperties
<1>4. RemoveAt(s, i) = front \o back
  BY DEF RemoveAt
<1>5. Len(front) + Len(back) = Len(s) - 1
  BY <1>1, <1>2, SMTT(30)
<1> QED
  BY <1>3, <1>4, <1>5

\* A set of numbers has a least one, and a bounded one a greatest.
LEMMA LeastNat == ASSUME NEW T, T \subseteq Nat, T # {} PROVE \E x \in T : \A y \in T : x <= y
<1> DEFINE R == OpToRel(<, Nat)
<1>1. IsWellFoundedOn(R, Nat)
  BY NatLessThanWellFounded
<1>2. \A y, x \in Nat : y < x => <<y, x>> \in R
  BY DEF OpToRel
<1> HIDE DEF R
<1>3. PICK x \in T : \A y \in T : ~(<<y, x>> \in R)
  BY <1>1, WFMin
<1>4. \A y \in T : ~(y < x)
  BY <1>2, <1>3
<1>5. \A y \in T : x <= y
  BY <1>4
<1> QED
  BY <1>5

LEMMA Greatest ==
  ASSUME NEW n \in Nat, NEW S, S \subseteq 0..n, S # {}
  PROVE  MaxOf(S) \in S /\ \A m \in S : m <= MaxOf(S)
<1> DEFINE T == {n - m : m \in S}
<1>0. \A m \in S : m \in Nat /\ n - m \in Nat
  OBVIOUS
<1>1. T \subseteq Nat /\ T # {}
  BY <1>0
<1>2. PICK x \in T : \A y \in T : x <= y
  BY <1>1, LeastNat
<1>3. PICK m \in S : x = n - m
  OBVIOUS
<1>4. \A k \in S : k <= m
  <2>1. \A k \in S : n - k \in T
    OBVIOUS
  <2> HIDE DEF T
  <2> QED
    <3> SUFFICES ASSUME NEW k \in S PROVE k <= m
      OBVIOUS
    <3>1. n - m <= n - k
      BY <1>2, <1>3, <2>1
    <3> QED
      BY <1>0, <3>1
<1> QED
  BY <1>3, <1>4 DEF MaxOf

-----------------------------------------------------------------------------
\* The tasks in Redis.
StageSet == ToSet(Stages)
WorkCalls == [at : {"works"}, task : RedisTasks, by : {"script", "id"}]
StepCalls == [at : {"scored", "popped", "decompose", "parent"}, task : RedisTasks]
SaveStates == {"pending", "claimed", "running", "completed", "failed"}
SaveCalls == [at : {"save"}, task : RedisTasks, to : SaveStates, rest : Seq(StageSet)]
ListCalls == [at : {"split", "check"}, task : RedisTasks, rest : Seq(RedisTasks)]
WorkerCalls == {NoCall} \union WorkCalls \union StepCalls \union SaveCalls \union ListCalls

Busy(w, t) == rworker[w].at # "idle" /\ rworker[w].task = t
Saving(w, t) == rworker[w].at = "save" /\ rworker[w].task = t
Holding(w, t) == rworker[w].at \in {"works", "popped"} /\ rworker[w].task = t
Splitting(w) == rworker[w].at \in {"decompose", "split"}
Indexed(t) == \E s \in StageSet : t \in redisIndex[s]
FromScript(w, t) ==
  \/ rworker[w].at = "popped" /\ rworker[w].task = t
  \/ rworker[w].at = "works" /\ rworker[w].by = "script" /\ rworker[w].task = t

RedisTypes ==
  /\ redisState \in [RedisTasks -> HashStates]
  /\ redisIndex \in [StageSet -> SUBSET RedisTasks]
  /\ rworker \in [RedisWorkers -> WorkerCalls]
  /\ redisRequeues \in 0..MaxRedisFaults
  /\ redisCut \subseteq RedisTasks /\ redisMixed \subseteq RedisTasks

\* A task that does not exist yet is nobody's, and nowhere.
NoneUntouched ==
  \A t \in RedisTasks : redisState[t] = "none" => ~Indexed(t) /\ \A w \in RedisWorkers : ~Busy(w, t)
\* Sub-tasks are created by one user, each once.
SplitsOnce ==
  /\ \A v, w \in RedisWorkers : Splitting(v) /\ Splitting(w) => v = w
  /\ \A w \in RedisWorkers :
       /\ rworker[w].at = "decompose" =>
            SubsOf[rworker[w].task] # {} /\ \A u \in SubsOf[rworker[w].task] : redisState[u] = "none"
       /\ rworker[w].at = "split" =>
            /\ rworker[w].rest # <<>> /\ IsInjective(rworker[w].rest)
            /\ \A i \in 1..Len(rworker[w].rest) : redisState[rworker[w].rest[i]] = "none"

\* Of a task whose calls were not cut and whose saves did not mix: what is
\* still to be executed is indexed, or some call will index it; and a save that
\* will not, of a failed task or a running one, has somebody beside it who does.
TaskHeld(t) ==
  /\ \A v, w \in RedisWorkers : Saving(v, t) /\ Saving(w, t) => v = w
  /\ redisState[t] = "pending" =>
       \/ Indexed(t)
       \/ \E w \in RedisWorkers : rworker[w].at = "decompose" /\ rworker[w].task = t
       \/ \E w \in RedisWorkers : Saving(w, t)
  /\ redisState[t] = "claimed" =>
       \/ Indexed(t)
       \/ \E w \in RedisWorkers : Holding(w, t)
       \/ \E w \in RedisWorkers : Saving(w, t) /\ rworker[w].to # "failed"
  /\ \A w \in RedisWorkers : Saving(w, t) =>
       /\ rworker[w].to \in {"failed", "running"} => redisState[t] # "pending"
       /\ rworker[w].to = "failed" /\ redisState[t] = "claimed" => \E v \in RedisWorkers : Holding(v, t)

\* Without a requeue nothing that the script handed out is pending again.
ScriptOnce ==
  redisRequeues = 0 =>
    /\ \A w \in RedisWorkers : rworker[w].at = "save" => rworker[w].to # "pending"
    /\ \A w \in RedisWorkers, t \in RedisTasks : FromScript(w, t) => t \notin redisIndex["pending"]
    /\ \A v, w \in RedisWorkers, t \in RedisTasks : FromScript(v, t) /\ FromScript(w, t) => v = w

Sound(t) == t \notin redisCut \union redisMixed
RedisInv ==
  /\ RedisTypes /\ NoneUntouched /\ SplitsOnce /\ ScriptOnce
  /\ \A t \in RedisTasks : Sound(t) => TaskHeld(t)

LEMMA StagesAre ==
  /\ StageSet = {"pending", "claimed", "completed"} /\ Stages \in Seq(StageSet)
  /\ StageSet \subseteq HashStates
<1>1. StageSet = {"pending", "claimed", "completed"}
  BY DEF StageSet, ToSet, Stages
<1> QED
  BY <1>1 DEF Stages, HashStates

\* What the calls of the workers are made of.
LEMMA CallFields ==
  ASSUME NEW r \in WorkerCalls
  PROVE  /\ r.at # "idle" => r.task \in RedisTasks
         /\ r.at = "save" => r \in SaveCalls
         /\ r.at \in {"split", "check"} => r \in ListCalls
         /\ r.at = "works" => r \in WorkCalls
         /\ r.at \in {"scored", "popped", "decompose", "parent"} => r \in StepCalls
         /\ r.at \in {"idle", "scored", "popped", "works", "save", "decompose", "split", "check", "parent"}
<1>1. CASE r = NoCall
  BY <1>1 DEF NoCall
<1>2. CASE r \in WorkCalls
  BY <1>2 DEF WorkCalls
<1>3. CASE r \in StepCalls
  BY <1>3 DEF StepCalls
<1>4. CASE r \in SaveCalls
  BY <1>4 DEF SaveCalls
<1>5. CASE r \in ListCalls
  BY <1>5 DEF ListCalls
<1> QED
  BY <1>1, <1>2, <1>3, <1>4, <1>5 DEF WorkerCalls

LEMMA NewCalls ==
  ASSUME NEW t \in RedisTasks
  PROVE  /\ NoCall \in WorkerCalls /\ NoCall.at = "idle"
         /\ \A by \in {"script", "id"} : /\ Works(t, by) \in WorkerCalls /\ Works(t, by).at = "works"
                                         /\ Works(t, by).task = t /\ Works(t, by).by = by
         /\ \A at \in {"scored", "popped", "decompose", "parent"} :
              Call(at, t) \in WorkerCalls /\ Call(at, t).at = at /\ Call(at, t).task = t
         /\ \A q : \A s \in SaveStates :
              q = [at |-> "save", task |-> t, to |-> s, rest |-> Stages] =>
                q \in WorkerCalls /\ q.at = "save" /\ q.task = t /\ q.to = s
         /\ \A q : \A at \in {"split", "check"}, rest \in Seq(RedisTasks) :
              q = [at |-> at, task |-> t, rest |-> rest] =>
                q \in WorkerCalls /\ q.at = at /\ q.task = t /\ q.rest = rest
<1>1. NoCall \in WorkerCalls /\ NoCall.at = "idle"
  BY DEF NoCall, WorkerCalls
<1>2. ASSUME NEW by \in {"script", "id"}
      PROVE  /\ Works(t, by) \in WorkerCalls /\ Works(t, by).at = "works"
             /\ Works(t, by).task = t /\ Works(t, by).by = by
  <2>1. Works(t, by) \in WorkCalls
    BY DEF Works, WorkCalls
  <2> QED
    BY <2>1 DEF Works, WorkerCalls
<1>3. ASSUME NEW at \in {"scored", "popped", "decompose", "parent"}
      PROVE  Call(at, t) \in WorkerCalls /\ Call(at, t).at = at /\ Call(at, t).task = t
  <2>1. Call(at, t) \in StepCalls
    BY DEF Call, StepCalls
  <2> QED
    BY <2>1 DEF Call, WorkerCalls
<1>4. ASSUME NEW s \in SaveStates, NEW q, q = [at |-> "save", task |-> t, to |-> s, rest |-> Stages]
      PROVE  q \in WorkerCalls /\ q.at = "save" /\ q.task = t /\ q.to = s
  <2>1. q \in SaveCalls
    BY <1>4, StagesAre DEF SaveCalls
  <2> QED
    BY <1>4, <2>1 DEF WorkerCalls
<1>5. ASSUME NEW at \in {"split", "check"}, NEW rest \in Seq(RedisTasks), NEW q,
             q = [at |-> at, task |-> t, rest |-> rest]
      PROVE  q \in WorkerCalls /\ q.at = at /\ q.task = t /\ q.rest = rest
  <2>1. q \in ListCalls
    BY <1>5 DEF ListCalls
  <2> QED
    BY <1>5, <2>1 DEF WorkerCalls
<1> QED
  BY <1>1, <1>2, <1>3, <1>4, <1>5

\* A call with less to do.
LEMMA LessToDo ==
  /\ \A r \in SaveCalls : r.rest # <<>> =>
       \A q : q = [r EXCEPT !.rest = Tail(@)] =>
         q \in SaveCalls /\ q.at = "save" /\ q.task = r.task /\ q.to = r.to
  /\ \A r \in ListCalls : r.rest # <<>> =>
       \A q : q = [r EXCEPT !.rest = Tail(@)] =>
         q \in ListCalls /\ q.at = r.at /\ q.task = r.task /\ q.rest = Tail(r.rest)
<1>1. ASSUME NEW r \in SaveCalls, r.rest # <<>>, NEW q, q = [r EXCEPT !.rest = Tail(@)]
      PROVE  q \in SaveCalls /\ q.at = "save" /\ q.task = r.task /\ q.to = r.to
  <2>1. r.rest \in Seq(StageSet)
    BY DEF SaveCalls
  <2>2. Tail(r.rest) \in Seq(StageSet)
    BY <1>1, <2>1
  <2> QED
    BY <1>1, <2>2 DEF SaveCalls
<1>2. ASSUME NEW r \in ListCalls, r.rest # <<>>, NEW q, q = [r EXCEPT !.rest = Tail(@)]
      PROVE  q \in ListCalls /\ q.at = r.at /\ q.task = r.task /\ q.rest = Tail(r.rest)
  <2>1. r.rest \in Seq(RedisTasks)
    BY DEF ListCalls
  <2>2. Tail(r.rest) \in Seq(RedisTasks)
    BY <1>2, <2>1
  <2> QED
    BY <1>2, <2>2 DEF ListCalls
<1> QED
  BY <1>1, <1>2

LEMMA RedisStarts == RedisBoardInit => RedisInv
<1> SUFFICES ASSUME RedisBoardInit PROVE RedisInv
  OBVIOUS
<1> USE StagesAre DEF RedisBoardInit
<1>1. \A w \in RedisWorkers : rworker[w] = NoCall /\ rworker[w].at = "idle"
  BY DEF NoCall
<1>2. /\ redisState \in [RedisTasks -> HashStates]
      /\ \A t \in RedisTasks : redisState[t] = IF t \in SubTasks THEN "none" ELSE "pending"
  BY DEF HashStates
<1>3. /\ redisIndex \in [StageSet -> SUBSET RedisTasks]
      /\ redisIndex["pending"] = RedisTasks \ SubTasks
      /\ \A s \in StageSet : s # "pending" => redisIndex[s] = {}
  BY DEF StageSet
<1>4. RedisTypes
  <2>1. rworker \in [RedisWorkers -> WorkerCalls]
    BY DEF WorkerCalls
  <2> QED
    BY <1>2, <1>3, <2>1, RedisBoardAssumption DEF RedisTypes
<1>5. NoneUntouched
  BY <1>1, <1>2, <1>3 DEF NoneUntouched, Busy, Indexed
<1>6. SplitsOnce
  BY <1>1 DEF SplitsOnce, Splitting
<1>7. ScriptOnce
  BY <1>1 DEF ScriptOnce, FromScript
<1>8. ASSUME NEW t \in RedisTasks PROVE TaskHeld(t)
  BY <1>1, <1>2, <1>3 DEF TaskHeld, Saving, Indexed
<1> QED
  BY <1>4, <1>5, <1>6, <1>7, <1>8 DEF RedisInv

\* The three kinds of writes.
LEMMA CallWritten ==
  ASSUME RedisTypes, NEW w \in RedisWorkers, NEW r \in WorkerCalls, Becomes(w, r)
  PROVE  /\ rworker' \in [RedisWorkers -> WorkerCalls] /\ rworker'[w] = r
         /\ \A v \in RedisWorkers : v # w => rworker'[v] = rworker[v]
BY DEF RedisTypes, Becomes

LEMMA HashWritten ==
  ASSUME RedisTypes, NEW t \in RedisTasks, NEW s \in HashStates, Hset(t, s)
  PROVE  /\ redisState' \in [RedisTasks -> HashStates] /\ redisState'[t] = s
         /\ \A u \in RedisTasks : u # t => redisState'[u] = redisState[u]
BY DEF RedisTypes, Hset

LEMMA IndexWritten ==
  ASSUME RedisTypes, NEW t \in RedisTasks, NEW s \in StageSet
  PROVE  /\ \A q : q = [redisIndex EXCEPT ![s] = @ \union {t}] =>
              /\ q \in [StageSet -> SUBSET RedisTasks] /\ t \in q[s]
              /\ \A u \in RedisTasks, p \in StageSet : u # t \/ p # s => (u \in q[p] <=> u \in redisIndex[p])
         /\ \A q : q = [redisIndex EXCEPT ![s] = @ \ {t}] =>
              /\ q \in [StageSet -> SUBSET RedisTasks] /\ t \notin q[s]
              /\ \A u \in RedisTasks, p \in StageSet : u # t \/ p # s => (u \in q[p] <=> u \in redisIndex[p])
<1>1. redisIndex \in [StageSet -> SUBSET RedisTasks]
  BY DEF RedisTypes
<1> QED
  BY <1>1

LEMMA IndexMoved ==
  ASSUME RedisTypes, NEW t \in RedisTasks, NEW from \in StageSet, NEW to \in StageSet,
         from # to, Moves(t, from, to)
  PROVE  /\ redisIndex' \in [StageSet -> SUBSET RedisTasks] /\ t \in redisIndex'[to] /\ t \notin redisIndex'[from]
         /\ \A u \in RedisTasks, p \in StageSet :
              u # t \/ p \notin {from, to} => (u \in redisIndex'[p] <=> u \in redisIndex[p])
<1>1. redisIndex \in [StageSet -> SUBSET RedisTasks]
  BY DEF RedisTypes
<1>2. redisIndex' = [redisIndex EXCEPT ![from] = redisIndex[from] \ {t}, ![to] = redisIndex[to] \union {t}]
  BY <1>1 DEF Moves
<1> QED
  BY <1>1, <1>2

LEMMA InvTyped ==
  ASSUME RedisInv
  PROVE  /\ RedisTypes /\ redisState \in [RedisTasks -> HashStates]
         /\ redisIndex \in [StageSet -> SUBSET RedisTasks]
         /\ \A w \in RedisWorkers :
              rworker[w] \in WorkerCalls /\ (rworker[w].at # "idle" => rworker[w].task \in RedisTasks)
BY CallFields DEF RedisInv, RedisTypes

\* What a call on task u does to the other tasks, and what is left to show.
LEMMA NoneStays ==
  ASSUME RedisInv, NEW w \in RedisWorkers, NEW u \in RedisTasks, NEW x \in RedisTasks,
         \A v \in RedisWorkers : v # w => rworker'[v] = rworker[v],
         rworker'[w].at # "idle" => rworker'[w].task = u,
         redisState'[u] # "none", redisState'[x] # "none",
         \A t \in RedisTasks : t # x => redisState'[t] = redisState[t],
         \A t \in RedisTasks, s \in StageSet : t \notin {u, x} => (t \in redisIndex'[s] => t \in redisIndex[s])
  PROVE  NoneUntouched'
BY InvTyped DEF RedisInv, NoneUntouched, Busy, Indexed

LEMMA SplitsStay ==
  ASSUME RedisInv, NEW w \in RedisWorkers,
         \A v \in RedisWorkers : v # w => rworker'[v] = rworker[v],
         rworker'[w].at \notin {"decompose", "split"},
         \A t \in RedisTasks : redisState[t] = "none" => redisState'[t] = "none"
  PROVE  SplitsOnce'
<1> USE InvTyped
<1>1. SplitsOnce
  BY DEF RedisInv
<1>2. \A t \in RedisTasks : SubsOf[t] \subseteq RedisTasks
  BY RedisBoardAssumption
<1>3. ASSUME NEW v \in RedisWorkers, Splitting(v)' PROVE v # w /\ rworker'[v] = rworker[v] /\ Splitting(v)
  BY <1>3 DEF Splitting
<1>4. ASSUME NEW v \in RedisWorkers, rworker'[v].at = "decompose"
      PROVE  SubsOf[rworker'[v].task] # {} /\ \A t \in SubsOf[rworker'[v].task] : redisState'[t] = "none"
  <2>1. rworker'[v] = rworker[v] /\ rworker[v].task \in RedisTasks
    BY <1>3, <1>4 DEF Splitting
  <2> QED
    BY <1>1, <1>2, <1>4, <2>1 DEF SplitsOnce
<1>5. ASSUME NEW v \in RedisWorkers, rworker'[v].at = "split"
      PROVE  /\ rworker'[v].rest # <<>> /\ IsInjective(rworker'[v].rest)
             /\ \A i \in 1..Len(rworker'[v].rest) : redisState'[rworker'[v].rest[i]] = "none"
  <2>1. rworker'[v] = rworker[v] /\ rworker[v].at = "split"
    BY <1>3, <1>5 DEF Splitting
  <2>2. rworker[v].rest \in Seq(RedisTasks)
    BY <2>1, CallFields DEF ListCalls
  <2>3. \A i \in 1..Len(rworker[v].rest) : rworker[v].rest[i] \in RedisTasks
    BY <2>2
  <2> QED
    BY <1>1, <2>1, <2>3 DEF SplitsOnce
<1>6. \A v, k \in RedisWorkers : Splitting(v)' /\ Splitting(k)' => v = k
  BY <1>1, <1>3 DEF SplitsOnce
<1> QED
  BY <1>4, <1>5, <1>6 DEF SplitsOnce

LEMMA ScriptStays ==
  ASSUME RedisInv, NEW w \in RedisWorkers,
         redisRequeues' = redisRequeues,
         \A v \in RedisWorkers : v # w => rworker'[v] = rworker[v],
         redisRequeues = 0 /\ rworker'[w].at = "save" => rworker'[w].to # "pending",
         \A t \in RedisTasks : FromScript(w, t)' => FromScript(w, t),
         \A t \in RedisTasks : redisRequeues = 0 /\ t \in redisIndex'["pending"] =>
            t \in redisIndex["pending"] \/ \A v \in RedisWorkers : ~FromScript(v, t)
  PROVE  ScriptOnce'
<1>1. ScriptOnce
  BY DEF RedisInv
<1>2. \A v \in RedisWorkers, t \in RedisTasks : FromScript(v, t)' => FromScript(v, t)
  BY DEF FromScript
<1> QED
  BY <1>1, <1>2 DEF ScriptOnce

LEMMA HeldElsewhere ==
  ASSUME NEW w \in RedisWorkers, NEW t \in RedisTasks, TaskHeld(t),
         redisState'[t] = redisState[t],
         \A s \in StageSet : t \in redisIndex[s] => t \in redisIndex'[s],
         \A v \in RedisWorkers : v # w => rworker'[v] = rworker[v],
         rworker[w].at \in {"decompose", "save", "works", "popped"} => rworker[w].task # t,
         rworker'[w].at = "save" => rworker'[w].task # t
  PROVE  TaskHeld(t)'
BY DEF TaskHeld, Saving, Holding, Indexed

LEMMA CallKeeps ==
  ASSUME RedisInv, NEW w \in RedisWorkers, NEW u \in RedisTasks, NEW r \in WorkerCalls, Becomes(w, r),
         rworker[w].at # "idle" => rworker[w].task = u,
         r.at # "idle" => r.task = u,
         redisState' \in [RedisTasks -> HashStates], redisState'[u] # "none",
         \A t \in RedisTasks : t # u => redisState'[t] = redisState[t],
         redisIndex' \in [StageSet -> SUBSET RedisTasks],
         \A t \in RedisTasks, s \in StageSet : t # u => (t \in redisIndex'[s] <=> t \in redisIndex[s]),
         redisRequeues' \in 0..MaxRedisFaults,
         redisCut' \subseteq RedisTasks, redisCut \subseteq redisCut',
         redisMixed' \subseteq RedisTasks, redisMixed \subseteq redisMixed',
         SplitsOnce', ScriptOnce',
         Sound(u) /\ Sound(u)' /\ TaskHeld(u) => TaskHeld(u)'
  PROVE  RedisInv'
<1>1. /\ rworker' \in [RedisWorkers -> WorkerCalls] /\ rworker'[w] = r
      /\ \A v \in RedisWorkers : v # w => rworker'[v] = rworker[v]
  BY InvTyped, CallWritten
<1>2. RedisTypes'
  BY <1>1 DEF RedisTypes
<1>3. NoneUntouched'
  BY <1>1, NoneStays
<1>4. ASSUME NEW t \in RedisTasks, Sound(t)' PROVE TaskHeld(t)'
  <2>1. Sound(t) /\ TaskHeld(t)
    BY <1>4 DEF Sound, RedisInv
  <2>2. CASE t = u
    BY <1>4, <2>1, <2>2
  <2>3. CASE t # u
    BY <1>1, <2>1, <2>3, HeldElsewhere
  <2> QED
    BY <2>2, <2>3
<1> QED
  BY <1>2, <1>3, <1>4 DEF RedisInv

LEMMA TaskExists ==
  ASSUME RedisInv
  PROVE  /\ \A w \in RedisWorkers : rworker[w].at # "idle" =>
              rworker[w].task \in RedisTasks /\ redisState[rworker[w].task] # "none"
         /\ \A t \in RedisTasks, s \in StageSet : t \in redisIndex[s] => redisState[t] # "none"
BY InvTyped DEF RedisInv, NoneUntouched, Busy, Indexed

LEMMA NoneOnly ==
  ASSUME RedisInv, NEW u \in RedisTasks, redisState[u] # "none",
         \A t \in RedisTasks : t # u => redisState'[t] = redisState[t]
  PROVE  \A t \in RedisTasks : redisState[t] = "none" => redisState'[t] = "none"
OBVIOUS

LEMMA Counted ==
  ASSUME RedisInv
  PROVE  redisRequeues \in 0..MaxRedisFaults /\ redisCut \subseteq RedisTasks /\ redisMixed \subseteq RedisTasks
         /\ MaxRedisFaults \in Nat
BY RedisBoardAssumption DEF RedisInv, RedisTypes

LEMMA ClaimNextKeeps ==
  ASSUME RedisInv, NEW w \in RedisWorkers, NEW t \in RedisTasks, ClaimNext(w, t)
  PROVE  RedisInv'
<1> USE InvTyped, Counted, StagesAre
<1>1. /\ rworker[w].at = "idle" /\ t \in redisIndex["pending"] /\ Moves(t, "pending", "claimed")
      /\ Hset(t, "claimed") /\ UNCHANGED <<redisRequeues, redisCut, redisMixed>>
  BY DEF ClaimNext
<1>2. PICK r \in WorkerCalls : /\ Becomes(w, r) /\ r.at \in {"works", "popped"} /\ r.task = t
  BY NewCalls DEF ClaimNext
<1>3. /\ rworker'[w] = r /\ \A v \in RedisWorkers : v # w => rworker'[v] = rworker[v]
  BY <1>2, CallWritten
<1>4. /\ redisState' \in [RedisTasks -> HashStates] /\ redisState'[t] = "claimed"
      /\ \A u \in RedisTasks : u # t => redisState'[u] = redisState[u]
  BY <1>1, HashWritten DEF HashStates
<1>5. /\ redisIndex' \in [StageSet -> SUBSET RedisTasks] /\ t \in redisIndex'["claimed"] /\ t \notin redisIndex'["pending"]
      /\ \A u \in RedisTasks, p \in StageSet : u # t => (u \in redisIndex'[p] <=> u \in redisIndex[p])
  BY <1>1, IndexMoved
<1>6. redisState[t] # "none"
  BY <1>1, TaskExists
<1>7. SplitsOnce'
  BY <1>2, <1>3, <1>4, <1>6, NoneOnly, SplitsStay
<1>8. ScriptOnce'
  <2>1. SUFFICES ASSUME redisRequeues = 0, ScriptOnce PROVE ScriptOnce'
    BY <1>1 DEF ScriptOnce, RedisInv
  <2>2. \A v \in RedisWorkers : ~FromScript(v, t)
    BY <1>1, <2>1 DEF ScriptOnce
  <2>3. \A u \in RedisTasks : FromScript(w, u)' => u = t
    BY <1>2, <1>3 DEF FromScript
  <2>4. \A v \in RedisWorkers, u \in RedisTasks : v # w /\ FromScript(v, u)' => FromScript(v, u)
    BY <1>3 DEF FromScript
  <2>5. \A v \in RedisWorkers, u \in RedisTasks : FromScript(v, u)' => u \notin redisIndex'["pending"]
    BY <1>5, <2>1, <2>3, <2>4 DEF ScriptOnce
  <2>6. \A v, k \in RedisWorkers, u \in RedisTasks : FromScript(v, u)' /\ FromScript(k, u)' => v = k
    BY <2>1, <2>2, <2>3, <2>4 DEF ScriptOnce
  <2>7. \A v \in RedisWorkers : rworker'[v].at = "save" => rworker'[v].to # "pending"
    BY <1>2, <1>3, <2>1 DEF ScriptOnce
  <2> QED
    BY <2>5, <2>6, <2>7 DEF ScriptOnce
<1>9. TaskHeld(t) => TaskHeld(t)'
  BY <1>2, <1>3, <1>4, <1>5 DEF TaskHeld, Saving, Holding, Indexed
<1> QED
  BY <1>1, <1>2, <1>4, <1>5, <1>7, <1>8, <1>9, CallKeeps

LEMMA ClaimSaveKeeps ==
  ASSUME RedisInv, NEW w \in RedisWorkers, ClaimSave(w)
  PROVE  RedisInv'
<1> USE InvTyped, Counted, StagesAre
<1>1. PICK t \in RedisTasks : /\ rworker[w].at = "popped" /\ rworker[w].task = t /\ redisState[t] # "none"
                              /\ Hset(t, "claimed") /\ Becomes(w, Works(t, "script"))
                              /\ UNCHANGED <<redisIndex, redisRequeues, redisCut, redisMixed>>
  BY TaskExists DEF ClaimSave
<1>2. PICK r \in WorkerCalls : r = Works(t, "script") /\ r.at = "works" /\ r.task = t /\ r.by = "script"
  BY NewCalls
<1>3. /\ rworker'[w] = r /\ \A v \in RedisWorkers : v # w => rworker'[v] = rworker[v]
  BY <1>1, <1>2, CallWritten
<1>4. /\ redisState' \in [RedisTasks -> HashStates] /\ redisState'[t] = "claimed"
      /\ \A u \in RedisTasks : u # t => redisState'[u] = redisState[u]
  BY <1>1, HashWritten DEF HashStates
<1>5. SplitsOnce'
  BY <1>1, <1>2, <1>3, <1>4, NoneOnly, SplitsStay
<1>6. ScriptOnce'
  <2>1. \A u \in RedisTasks : FromScript(w, u)' => FromScript(w, u)
    BY <1>1, <1>2, <1>3 DEF FromScript
  <2> QED
    BY <1>1, <1>2, <1>3, <2>1, ScriptStays
<1>7. TaskHeld(t) => TaskHeld(t)'
  BY <1>1, <1>2, <1>3, <1>4 DEF TaskHeld, Saving, Holding, Indexed
<1> QED
  BY <1>1, <1>2, <1>4, <1>5, <1>6, <1>7, CallKeeps

LEMMA ClaimByIdKeeps ==
  ASSUME RedisInv, NEW w \in RedisWorkers, NEW t \in RedisTasks, ClaimById(w, t)
  PROVE  RedisInv'
<1> USE InvTyped, Counted, StagesAre
<1>1. /\ rworker[w].at = "idle" /\ t \in redisIndex["pending"] /\ Becomes(w, Call("scored", t))
      /\ UNCHANGED <<redisState, redisIndex, redisRequeues, redisCut, redisMixed>>
  BY DEF ClaimById
<1>2. PICK r \in WorkerCalls : r = Call("scored", t) /\ r.at = "scored" /\ r.task = t
  BY NewCalls
<1>3. /\ rworker'[w] = r /\ \A v \in RedisWorkers : v # w => rworker'[v] = rworker[v]
  BY <1>1, <1>2, CallWritten
<1>4. redisState[t] # "none"
  BY <1>1, TaskExists
<1>5. SplitsOnce'
  BY <1>1, <1>2, <1>3, SplitsStay
<1>6. ScriptOnce'
  <2>1. \A u \in RedisTasks : FromScript(w, u)' => FromScript(w, u)
    BY <1>2, <1>3 DEF FromScript
  <2> QED
    BY <1>1, <1>2, <1>3, <2>1, ScriptStays
<1>7. TaskHeld(t) => TaskHeld(t)'
  BY <1>1, <1>2, <1>3 DEF TaskHeld, Saving, Holding, Indexed
<1> QED
  BY <1>1, <1>2, <1>4, <1>5, <1>6, <1>7, CallKeeps

LEMMA ClaimMoveKeeps ==
  ASSUME RedisInv, NEW w \in RedisWorkers, ClaimMove(w)
  PROVE  RedisInv'
<1> USE InvTyped, Counted, StagesAre
<1>1. PICK t \in RedisTasks : /\ rworker[w].at = "scored" /\ rworker[w].task = t /\ redisState[t] # "none"
                              /\ Moves(t, "pending", "claimed")
                              /\ Hset(t, "claimed") /\ Becomes(w, Works(t, "id"))
                              /\ UNCHANGED <<redisRequeues, redisCut, redisMixed>>
  BY TaskExists DEF ClaimMove
<1>2. PICK r \in WorkerCalls : r = Works(t, "id") /\ r.at = "works" /\ r.task = t /\ r.by = "id"
  BY NewCalls
<1>3. /\ rworker'[w] = r /\ \A v \in RedisWorkers : v # w => rworker'[v] = rworker[v]
  BY <1>1, <1>2, CallWritten
<1>4. /\ redisState' \in [RedisTasks -> HashStates] /\ redisState'[t] = "claimed"
      /\ \A u \in RedisTasks : u # t => redisState'[u] = redisState[u]
  BY <1>1, HashWritten DEF HashStates
<1>5. /\ redisIndex' \in [StageSet -> SUBSET RedisTasks] /\ t \in redisIndex'["claimed"] /\ t \notin redisIndex'["pending"]
      /\ \A u \in RedisTasks, p \in StageSet : u # t => (u \in redisIndex'[p] <=> u \in redisIndex[p])
  BY <1>1, IndexMoved
<1>6. SplitsOnce'
  BY <1>1, <1>2, <1>3, <1>4, NoneOnly, SplitsStay
<1>7. ScriptOnce'
  <2>1. \A u \in RedisTasks : FromScript(w, u)' => FromScript(w, u)
    BY <1>2, <1>3 DEF FromScript
  <2>2. \A u \in RedisTasks : u \in redisIndex'["pending"] => u \in redisIndex["pending"]
    BY <1>5
  <2> QED
    BY <1>1, <1>2, <1>3, <2>1, <2>2, ScriptStays
<1>8. TaskHeld(t) => TaskHeld(t)'
  BY <1>1, <1>2, <1>3, <1>4, <1>5 DEF TaskHeld, Saving, Holding, Indexed
<1> QED
  BY <1>1, <1>2, <1>4, <1>5, <1>6, <1>7, <1>8, CallKeeps

LEMMA CompleteKeeps ==
  ASSUME RedisInv, NEW w \in RedisWorkers, CompleteInRedis(w)
  PROVE  RedisInv'
<1> USE InvTyped, Counted, StagesAre
<1>1. PICK t \in RedisTasks : /\ rworker[w].at = "works" /\ rworker[w].task = t /\ redisState[t] # "none"
                              /\ Moves(t, "claimed", "completed")
                              /\ Hset(t, "completed") /\ Becomes(w, NoCall)
                              /\ UNCHANGED <<redisRequeues, redisCut, redisMixed>>
  BY TaskExists DEF CompleteInRedis
<1>2. PICK r \in WorkerCalls : r = NoCall /\ r.at = "idle"
  BY NewCalls
<1>3. /\ rworker'[w] = r /\ \A v \in RedisWorkers : v # w => rworker'[v] = rworker[v]
  BY <1>1, <1>2, CallWritten
<1>4. /\ redisState' \in [RedisTasks -> HashStates] /\ redisState'[t] = "completed"
      /\ \A u \in RedisTasks : u # t => redisState'[u] = redisState[u]
  BY <1>1, HashWritten DEF HashStates
<1>5. /\ redisIndex' \in [StageSet -> SUBSET RedisTasks]
      /\ \A u \in RedisTasks, p \in StageSet : u # t \/ p = "pending" => (u \in redisIndex'[p] <=> u \in redisIndex[p])
  BY <1>1, IndexMoved
<1>6. SplitsOnce'
  BY <1>1, <1>2, <1>3, <1>4, NoneOnly, SplitsStay
<1>7. ScriptOnce'
  <2>1. \A u \in RedisTasks : FromScript(w, u)' => FromScript(w, u)
    BY <1>2, <1>3 DEF FromScript
  <2>2. \A u \in RedisTasks : u \in redisIndex'["pending"] => u \in redisIndex["pending"]
    BY <1>5
  <2> QED
    BY <1>1, <1>2, <1>3, <2>1, <2>2, ScriptStays
<1>8. TaskHeld(t) => TaskHeld(t)'
  BY <1>1, <1>2, <1>3, <1>4, <1>5 DEF TaskHeld, Saving, Holding, Indexed
<1> QED
  BY <1>1, <1>2, <1>4, <1>5, <1>6, <1>7, <1>8, CallKeeps

LEMMA SaveInVainKeeps ==
  ASSUME RedisInv, NEW w \in RedisWorkers, SaveInVain(w)
  PROVE  RedisInv'
<1> USE InvTyped, Counted, StagesAre
<1>1. PICK t \in RedisTasks : /\ rworker[w].at = "works" /\ rworker[w].task = t /\ redisState[t] # "none"
                              /\ redisState[t] # "claimed" /\ Becomes(w, NoCall)
                              /\ UNCHANGED <<redisState, redisIndex, redisRequeues, redisCut, redisMixed>>
  BY TaskExists DEF SaveInVain
<1>2. PICK r \in WorkerCalls : r = NoCall /\ r.at = "idle"
  BY NewCalls
<1>3. /\ rworker'[w] = r /\ \A v \in RedisWorkers : v # w => rworker'[v] = rworker[v]
  BY <1>1, <1>2, CallWritten
<1>4. SplitsOnce'
  BY <1>1, <1>2, <1>3, SplitsStay
<1>5. ScriptOnce'
  <2>1. \A u \in RedisTasks : FromScript(w, u)' => FromScript(w, u)
    BY <1>2, <1>3 DEF FromScript
  <2> QED
    BY <1>1, <1>2, <1>3, <2>1, ScriptStays
<1>6. TaskHeld(t) => TaskHeld(t)'
  BY <1>1, <1>2, <1>3 DEF TaskHeld, Saving, Holding, Indexed
<1> QED
  BY <1>1, <1>2, <1>4, <1>5, <1>6, CallKeeps

LEMMA MixedGrows ==
  ASSUME RedisInv, NEW t \in RedisTasks
  PROVE  /\ redisMixed \subseteq Mixed(t) /\ Mixed(t) \subseteq RedisTasks
         /\ t \notin Mixed(t) => \A v \in RedisWorkers : ~Saving(v, t)
BY Counted DEF Mixed, Saving

LEMMA QueueSaveKeeps ==
  ASSUME RedisInv, NEW w \in RedisWorkers, NEW t \in RedisTasks,
         NEW s \in {"claimed", "running", "completed", "failed"}, QueueSave(w, t, s)
  PROVE  RedisInv'
<1> USE InvTyped, Counted, StagesAre
<1>1. /\ Saves(w, t, s) /\ Hset(t, s) /\ redisMixed' = Mixed(t)
      /\ UNCHANGED <<redisIndex, redisRequeues, redisCut>>
  BY DEF QueueSave
<1>2. s \in HashStates
  BY DEF HashStates
<1> s \in SaveStates
  BY DEF SaveStates
<1>3. PICK r \in WorkerCalls : /\ Becomes(w, r) /\ r.at = "save" /\ r.task = t /\ r.to = s
  BY NewCalls DEF QueueSave
<1>4. /\ rworker'[w] = r /\ \A v \in RedisWorkers : v # w => rworker'[v] = rworker[v]
  BY <1>3, CallWritten
<1>5. /\ redisState' \in [RedisTasks -> HashStates] /\ redisState'[t] = s
      /\ \A u \in RedisTasks : u # t => redisState'[u] = redisState[u]
  BY <1>1, <1>2, HashWritten
<1>6. /\ rworker[w].at \in {"idle", "works"} /\ (rworker[w].at # "idle" => rworker[w].task = t)
      /\ redisState[t] # "none"
  BY <1>1 DEF Saves
<1>7. SplitsOnce'
  BY <1>3, <1>4, <1>5, <1>6, NoneOnly, SplitsStay
<1>8. ScriptOnce'
  <2>1. \A u \in RedisTasks : FromScript(w, u)' => FromScript(w, u)
    BY <1>3, <1>4 DEF FromScript
  <2> QED
    BY <1>1, <1>3, <1>4, <2>1, ScriptStays
<1>9. Sound(t)' /\ TaskHeld(t) => TaskHeld(t)'
  <2>1. Sound(t)' => \A v \in RedisWorkers : ~Saving(v, t)
    BY <1>1, MixedGrows DEF Sound
  <2> QED
    BY <1>3, <1>4, <1>5, <2>1 DEF TaskHeld, Saving, Holding, Indexed
<1> QED
  BY <1>1, <1>3, <1>5, <1>6, <1>7, <1>8, <1>9, MixedGrows, CallKeeps

LEMMA RequeueKeeps ==
  ASSUME RedisInv, NEW w \in RedisWorkers, NEW t \in RedisTasks, QueueRequeue(w, t)
  PROVE  RedisInv'
<1> USE InvTyped, Counted, StagesAre
<1>1. /\ rworker[w].at = "idle" /\ redisState[t] # "none" /\ Hset(t, "pending") /\ redisMixed' = Mixed(t)
      /\ FaultsLeft /\ redisRequeues' = redisRequeues + 1 /\ UNCHANGED <<redisIndex, redisCut>>
  BY DEF QueueRequeue
<1>2. PICK r \in WorkerCalls : /\ Becomes(w, r) /\ r.at = "save" /\ r.task = t /\ r.to = "pending"
  BY NewCalls DEF QueueRequeue, SaveStates
<1>3. /\ rworker'[w] = r /\ \A v \in RedisWorkers : v # w => rworker'[v] = rworker[v]
  BY <1>2, CallWritten
<1>4. /\ redisState' \in [RedisTasks -> HashStates] /\ redisState'[t] = "pending"
      /\ \A u \in RedisTasks : u # t => redisState'[u] = redisState[u]
  BY <1>1, HashWritten DEF HashStates
<1>5. SplitsOnce'
  BY <1>1, <1>2, <1>3, <1>4, NoneOnly, SplitsStay
<1>6. redisRequeues' \in 0..MaxRedisFaults /\ redisRequeues' # 0
  <2>1. IsFiniteSet(redisCut)
    BY RedisBoardAssumption, FS_Subset
  <2>2. Cardinality(redisCut) \in Nat
    BY <2>1, FS_CardinalityType
  <2> QED
    BY <1>1, <2>2 DEF FaultsLeft
<1>7. ScriptOnce'
  BY <1>6 DEF ScriptOnce
<1>8. Sound(t)' /\ TaskHeld(t) => TaskHeld(t)'
  <2>1. Sound(t)' => \A v \in RedisWorkers : ~Saving(v, t)
    BY <1>1, MixedGrows DEF Sound
  <2> QED
    BY <1>2, <1>3, <1>4, <2>1 DEF TaskHeld, Saving, Holding, Indexed
<1> QED
  BY <1>1, <1>2, <1>4, <1>5, <1>6, <1>7, <1>8, MixedGrows, CallKeeps

LEMMA SaveRemoveKeeps ==
  ASSUME RedisInv, NEW w \in RedisWorkers, SaveRemove(w)
  PROVE  RedisInv'
<1> USE InvTyped, Counted, StagesAre
<1>1. PICK t \in RedisTasks : /\ rworker[w].at = "save" /\ rworker[w].task = t /\ redisState[t] # "none"
                              /\ rworker[w].rest # <<>> /\ rworker[w] \in SaveCalls
                              /\ UNCHANGED <<redisState, redisRequeues, redisCut, redisMixed>>
  BY TaskExists, CallFields DEF SaveRemove
<1>2. PICK r \in WorkerCalls : Becomes(w, r) /\ r.at = "save" /\ r.task = t /\ r.to = rworker[w].to
  <2>1. \A r : r = [rworker[w] EXCEPT !.rest = Tail(@)] =>
          r \in SaveCalls /\ r.at = "save" /\ r.task = t /\ r.to = rworker[w].to
    BY <1>1, LessToDo
  <2> QED
    BY <2>1 DEF SaveRemove, WorkerCalls
<1>3. /\ rworker'[w] = r /\ \A v \in RedisWorkers : v # w => rworker'[v] = rworker[v]
  BY <1>2, CallWritten
<1>4. /\ redisIndex' \in [StageSet -> SUBSET RedisTasks]
      /\ \A u \in RedisTasks, p \in StageSet : u # t => (u \in redisIndex'[p] <=> u \in redisIndex[p])
      /\ \A u \in RedisTasks, p \in StageSet : u \in redisIndex'[p] => u \in redisIndex[p]
  <2>1. PICK s \in StageSet : s = Head(rworker[w].rest)
    <3>1. rworker[w].rest \in Seq(StageSet)
      BY <1>1 DEF SaveCalls
    <3> QED
      BY <1>1, <3>1
  <2>2. redisIndex' = [redisIndex EXCEPT ![s] = @ \ {t}]
    BY <1>1, <2>1 DEF SaveRemove
  <2>3. /\ redisIndex' \in [StageSet -> SUBSET RedisTasks] /\ t \notin redisIndex'[s]
        /\ \A u \in RedisTasks, p \in StageSet : u # t \/ p # s => (u \in redisIndex'[p] <=> u \in redisIndex[p])
    BY <2>2, IndexWritten
  <2> QED
    BY <2>3
<1>5. SplitsOnce'
  BY <1>1, <1>2, <1>3, SplitsStay
<1>6. ScriptOnce'
  <2>1. \A u \in RedisTasks : FromScript(w, u)' => FromScript(w, u)
    BY <1>2, <1>3 DEF FromScript
  <2>2. redisRequeues = 0 => rworker[w].to # "pending"
    BY <1>1 DEF ScriptOnce, RedisInv
  <2> QED
    BY <1>1, <1>2, <1>3, <1>4, <2>1, <2>2, ScriptStays
\* The save itself is the witness, or the one who holds the task beside it.
<1>7. TaskHeld(t) => TaskHeld(t)'
  BY <1>1, <1>2, <1>3 DEF TaskHeld, Saving, Holding
<1> QED
  BY <1>1, <1>2, <1>4, <1>5, <1>6, <1>7, CallKeeps

LEMMA SaveAddKeeps ==
  ASSUME RedisInv, NEW w \in RedisWorkers, SaveAdd(w)
  PROVE  RedisInv'
<1> USE InvTyped, Counted, StagesAre
<1>1. PICK t \in RedisTasks, s \in SaveStates :
        /\ rworker[w].at = "save" /\ rworker[w].task = t /\ rworker[w].to = s /\ redisState[t] # "none"
        /\ redisIndex' = IF s \in StageSet THEN [redisIndex EXCEPT ![s] = @ \union {t}] ELSE redisIndex
        /\ Becomes(w, IF s \in {"claimed", "running"} THEN Works(t, "id") ELSE NoCall)
        /\ UNCHANGED <<redisState, redisRequeues, redisCut, redisMixed>>
  <2>1. rworker[w].at = "save" /\ rworker[w] \in SaveCalls
    BY CallFields DEF SaveAdd
  <2>2. rworker[w].to \in SaveStates
    BY <2>1 DEF SaveCalls
  <2> QED
    BY <2>1, <2>2, TaskExists DEF SaveAdd, StageSet
<1>2. PICK r \in WorkerCalls : /\ Becomes(w, r) /\ r.at \in {"works", "idle"}
                               /\ r.at = "works" => r.task = t /\ r.by = "id"
                               /\ s \in {"claimed", "running"} => r.at = "works"
  BY <1>1, NewCalls
<1>3. /\ rworker'[w] = r /\ \A v \in RedisWorkers : v # w => rworker'[v] = rworker[v]
  BY <1>2, CallWritten
<1>4. /\ redisIndex' \in [StageSet -> SUBSET RedisTasks]
      /\ s \in StageSet => t \in redisIndex'[s]
      /\ \A u \in RedisTasks, p \in StageSet : u # t \/ p # s => (u \in redisIndex'[p] <=> u \in redisIndex[p])
      /\ \A u \in RedisTasks, p \in StageSet : u \in redisIndex[p] => u \in redisIndex'[p]
  <2>1. CASE s \in StageSet
    BY <1>1, <2>1, IndexWritten
  <2>2. CASE s \notin StageSet
    BY <1>1, <2>2
  <2> QED
    BY <2>1, <2>2
<1>5. SplitsOnce'
  BY <1>1, <1>2, <1>3, SplitsStay
<1>6. ScriptOnce'
  <2>1. \A u \in RedisTasks : FromScript(w, u)' => FromScript(w, u)
    BY <1>2, <1>3 DEF FromScript
  <2>2. redisRequeues = 0 => s # "pending"
    BY <1>1 DEF ScriptOnce, RedisInv
  <2>3. \A u \in RedisTasks : redisRequeues = 0 /\ u \in redisIndex'["pending"] => u \in redisIndex["pending"]
    BY <1>4, <2>2
  <2> QED
    BY <1>1, <1>2, <1>3, <2>1, <2>3, ScriptStays
\* This was the only save of the task: it is indexed now, or somebody works on it.
<1>7. TaskHeld(t) => TaskHeld(t)'
  <2> SUFFICES ASSUME TaskHeld(t) PROVE TaskHeld(t)'
    OBVIOUS
  <2>1. \A v \in RedisWorkers : ~Saving(v, t)'
    BY <1>1, <1>2, <1>3 DEF TaskHeld, Saving
  <2>2. CASE s \in StageSet
    BY <1>4, <2>1, <2>2 DEF TaskHeld, Indexed
  <2>3. CASE s \notin StageSet
    <3>1. s \in {"failed", "running"} => redisState[t] # "pending"
      BY <1>1 DEF TaskHeld, Saving
    <3>2. s = "running" => Holding(w, t)'
      BY <1>2, <1>3 DEF Holding
    <3>3. s = "failed" /\ redisState[t] = "claimed" => \E v \in RedisWorkers : Holding(v, t)'
      BY <1>1, <1>3 DEF TaskHeld, Saving, Holding
    <3>4. s \in {"failed", "running"}
      BY <2>3 DEF SaveStates
    <3>5. Indexed(t) => Indexed(t)'
      BY <1>4 DEF Indexed
    <3>6. \A v \in RedisWorkers : Holding(v, t) => Holding(v, t)'
      BY <1>1, <1>3 DEF Holding
    <3> QED
      BY <1>1, <2>1, <3>1, <3>2, <3>3, <3>4, <3>5, <3>6 DEF TaskHeld
  <2> QED
    BY <2>2, <2>3
<1> QED
  BY <1>1, <1>2, <1>4, <1>5, <1>6, <1>7, CallKeeps

LEMMA DecomposeKeeps ==
  ASSUME RedisInv, NEW w \in RedisWorkers, NEW t \in RedisTasks, Decompose(w, t)
  PROVE  RedisInv'
<1> USE InvTyped, Counted, StagesAre
<1>1. /\ rworker[w].at = "idle" /\ SubsOf[t] # {} /\ redisState[t] = "pending"
      /\ \A v \in RedisWorkers : ~Splitting(v)
      /\ \A sub \in SubsOf[t] : redisState[sub] = "none"
      /\ redisIndex' = [redisIndex EXCEPT !["pending"] = @ \ {t}] /\ Becomes(w, Call("decompose", t))
      /\ UNCHANGED <<redisState, redisRequeues, redisCut, redisMixed>>
  BY DEF Decompose, Splitting
<1>2. PICK r \in WorkerCalls : r = Call("decompose", t) /\ r.at = "decompose" /\ r.task = t
  BY NewCalls
<1>3. /\ rworker'[w] = r /\ \A v \in RedisWorkers : v # w => rworker'[v] = rworker[v]
  BY <1>1, <1>2, CallWritten
<1>4. /\ redisIndex' \in [StageSet -> SUBSET RedisTasks]
      /\ \A u \in RedisTasks, p \in StageSet : u # t => (u \in redisIndex'[p] <=> u \in redisIndex[p])
      /\ \A u \in RedisTasks : u \in redisIndex'["pending"] => u \in redisIndex["pending"]
  <2>1. /\ redisIndex' \in [StageSet -> SUBSET RedisTasks] /\ t \notin redisIndex'["pending"]
        /\ \A u \in RedisTasks, p \in StageSet :
             u # t \/ p # "pending" => (u \in redisIndex'[p] <=> u \in redisIndex[p])
    BY <1>1, IndexWritten
  <2> QED
    BY <2>1
<1>5. SplitsOnce'
  <2>1. \A v \in RedisWorkers : Splitting(v)' => v = w
    BY <1>1, <1>3 DEF Splitting
  <2>2. rworker'[w].at = "decompose" /\ rworker'[w].task = t
    BY <1>2, <1>3
  <2>3. \A v \in RedisWorkers : rworker'[v].at \in {"decompose", "split"} => v = w
    BY <2>1 DEF Splitting
  <2> QED
    BY <1>1, <2>1, <2>2, <2>3 DEF SplitsOnce
<1>6. ScriptOnce'
  <2>1. \A u \in RedisTasks : FromScript(w, u)' => FromScript(w, u)
    BY <1>2, <1>3 DEF FromScript
  <2> QED
    BY <1>1, <1>2, <1>3, <1>4, <2>1, ScriptStays
<1>7. TaskHeld(t) => TaskHeld(t)'
  <2>1. redisState'[t] = "pending"
    BY <1>1
  <2> QED
    BY <1>1, <1>2, <1>3, <2>1 DEF TaskHeld, Saving
<1> QED
  BY <1>1, <1>2, <1>4, <1>5, <1>6, <1>7, CallKeeps

LEMMA SubsListed ==
  ASSUME NEW t \in RedisTasks
  PROVE  /\ SetToSeq(SubsOf[t]) \in Seq(RedisTasks) /\ IsInjective(SetToSeq(SubsOf[t]))
         /\ \A i \in 1..Len(SetToSeq(SubsOf[t])) : SetToSeq(SubsOf[t])[i] \in SubsOf[t]
         /\ SubsOf[t] # {} => SetToSeq(SubsOf[t]) # <<>>
<1>1. SubsOf[t] \subseteq RedisTasks /\ IsFiniteSet(SubsOf[t])
  BY RedisBoardAssumption, FS_Subset
<1> DEFINE s == SetToSeq(SubsOf[t])
<1>2. s \in Seq(SubsOf[t]) /\ IsInjective(s) /\ Len(s) = Cardinality(SubsOf[t])
  BY <1>1, Listed
<1>3. SubsOf[t] # {} => Cardinality(SubsOf[t]) # 0
  BY <1>1, FS_EmptySet
<1> HIDE DEF s
<1>4. s \in Seq(RedisTasks) /\ \A i \in 1..Len(s) : s[i] \in SubsOf[t]
  BY <1>1, <1>2
<1>5. SubsOf[t] # {} => s # <<>>
  BY <1>2, <1>3
<1> QED
  BY <1>2, <1>4, <1>5 DEF s

LEMMA MarkDecomposedKeeps ==
  ASSUME RedisInv, NEW w \in RedisWorkers, MarkDecomposed(w)
  PROVE  RedisInv'
<1> USE InvTyped, Counted, StagesAre
<1>1. PICK t \in RedisTasks :
        /\ rworker[w].at = "decompose" /\ rworker[w].task = t /\ redisState[t] # "none"
        /\ Hset(t, "decomposed")
        /\ Becomes(w, [at |-> "split", task |-> t, rest |-> SetToSeq(SubsOf[t])])
        /\ UNCHANGED <<redisIndex, redisRequeues, redisCut, redisMixed>>
  BY TaskExists DEF MarkDecomposed
<1>2. PICK r \in WorkerCalls : /\ Becomes(w, r) /\ r.at = "split" /\ r.task = t
                               /\ r.rest = SetToSeq(SubsOf[t])
  BY <1>1, NewCalls, SubsListed
<1>3. /\ rworker'[w] = r /\ \A v \in RedisWorkers : v # w => rworker'[v] = rworker[v]
  BY <1>2, CallWritten
<1>4. /\ redisState' \in [RedisTasks -> HashStates] /\ redisState'[t] = "decomposed"
      /\ \A u \in RedisTasks : u # t => redisState'[u] = redisState[u]
  BY <1>1, HashWritten DEF HashStates
<1>5. SplitsOnce'
  <2>1. SplitsOnce
    BY DEF RedisInv
  <2>2. \A v \in RedisWorkers : Splitting(v)' => v = w
    BY <1>1, <1>3, <2>1 DEF Splitting, SplitsOnce
  <2>3. SubsOf[t] # {} /\ \A u \in SubsOf[t] : redisState[u] = "none"
    BY <1>1, <2>1 DEF SplitsOnce
  <2>4. \A u \in SubsOf[t] : redisState'[u] = "none"
    <3>1. SubsOf[t] \subseteq RedisTasks /\ t \notin SubsOf[t]
      BY <1>1, <2>3, RedisBoardAssumption
    <3> QED
      BY <1>4, <2>3, <3>1
  <2>5. /\ r.rest # <<>> /\ IsInjective(r.rest)
        /\ \A i \in 1..Len(r.rest) : redisState'[r.rest[i]] = "none"
    BY <1>2, <2>3, <2>4, SubsListed
  <2>6. \A v \in RedisWorkers : rworker'[v].at \in {"decompose", "split"} => v = w
    BY <2>2 DEF Splitting
  <2> QED
    BY <1>2, <1>3, <2>2, <2>5, <2>6 DEF SplitsOnce
<1>6. ScriptOnce'
  <2>1. \A u \in RedisTasks : FromScript(w, u)' => FromScript(w, u)
    BY <1>2, <1>3 DEF FromScript
  <2> QED
    BY <1>1, <1>2, <1>3, <2>1, ScriptStays
<1>7. TaskHeld(t) => TaskHeld(t)'
  BY <1>1, <1>2, <1>3, <1>4 DEF TaskHeld, Saving, Holding
<1> QED
  BY <1>1, <1>2, <1>4, <1>5, <1>6, <1>7, CallKeeps

\* The one action that touches another task than that of its call: one which
\* nobody has heard of.
LEMMA CreateSubKeeps ==
  ASSUME RedisInv, NEW w \in RedisWorkers, CreateSub(w)
  PROVE  RedisInv'
<1> USE InvTyped, Counted, StagesAre
<1>1. PICK t \in RedisTasks : /\ rworker[w].at = "split" /\ rworker[w].task = t /\ redisState[t] # "none"
                              /\ rworker[w] \in ListCalls
                              /\ UNCHANGED <<redisRequeues, redisCut, redisMixed>>
  BY TaskExists, CallFields DEF CreateSub
<1>2. PICK todo \in Seq(RedisTasks) :
        /\ todo = rworker[w].rest /\ todo # <<>> /\ IsInjective(todo)
        /\ \A i \in 1..Len(todo) : redisState[todo[i]] = "none"
  <2>1. rworker[w].rest \in Seq(RedisTasks)
    BY <1>1 DEF ListCalls
  <2> QED
    BY <1>1, <2>1 DEF RedisInv, SplitsOnce
<1>3. PICK sub \in RedisTasks : sub = Head(todo) /\ redisState[sub] = "none" /\ sub # t
  <2>1. Head(todo) = todo[1] /\ 1 \in 1..Len(todo) /\ Head(todo) \in RedisTasks
    BY <1>2
  <2> QED
    BY <1>1, <1>2, <2>1
<1>4. /\ \A v \in RedisWorkers : ~Busy(v, sub)
      /\ \A s \in StageSet : sub \notin redisIndex[s]
  BY <1>3 DEF RedisInv, NoneUntouched, Indexed
<1>5. /\ Hset(sub, "pending") /\ redisIndex' = [redisIndex EXCEPT !["pending"] = @ \union {sub}]
      /\ Becomes(w, IF Tail(todo) = <<>> THEN NoCall ELSE [rworker[w] EXCEPT !.rest = Tail(todo)])
  BY <1>2, <1>3 DEF CreateSub
<1>6. /\ redisState' \in [RedisTasks -> HashStates] /\ redisState'[sub] = "pending"
      /\ \A u \in RedisTasks : u # sub => redisState'[u] = redisState[u]
  BY <1>5, HashWritten DEF HashStates
<1>7. /\ redisIndex' \in [StageSet -> SUBSET RedisTasks] /\ sub \in redisIndex'["pending"]
      /\ \A u \in RedisTasks, p \in StageSet : u # sub => (u \in redisIndex'[p] <=> u \in redisIndex[p])
  BY <1>5, IndexWritten
<1>8. PICK r \in WorkerCalls : /\ Becomes(w, r) /\ r.at \in {"idle", "split"}
                               /\ r.at = "split" => r.task = t /\ r.rest = Tail(todo) /\ Tail(todo) # <<>>
  <2>1. \A q : q = [rworker[w] EXCEPT !.rest = Tail(todo)] =>
          q \in ListCalls /\ q.at = "split" /\ q.task = t /\ q.rest = Tail(todo)
    <3>1. [rworker[w] EXCEPT !.rest = Tail(@)] = [rworker[w] EXCEPT !.rest = Tail(todo)]
      BY <1>1, <1>2 DEF ListCalls
    <3> QED
      BY <1>1, <1>2, <3>1, LessToDo
  <2>2. CASE Tail(todo) = <<>>
    BY <1>5, <2>2, NewCalls
  <2>3. CASE Tail(todo) # <<>>
    BY <1>5, <2>1, <2>3 DEF WorkerCalls
  <2> QED
    BY <2>2, <2>3
<1>9. /\ rworker' \in [RedisWorkers -> WorkerCalls] /\ rworker'[w] = r
      /\ \A v \in RedisWorkers : v # w => rworker'[v] = rworker[v]
  BY <1>8, CallWritten
<1>10. RedisTypes'
  BY <1>1, <1>6, <1>7, <1>9 DEF RedisTypes, RedisInv
<1>11. NoneUntouched'
  BY <1>1, <1>6, <1>7, <1>8, <1>9, NoneStays
<1>12. SplitsOnce'
  <2>1. SplitsOnce
    BY DEF RedisInv
  <2>2. \A v \in RedisWorkers : Splitting(v)' => v = w
    BY <1>1, <1>9, <2>1 DEF Splitting, SplitsOnce
  <2>3. /\ IsInjective(Tail(todo))
        /\ \A i \in 1..Len(Tail(todo)) : redisState'[Tail(todo)[i]] = "none"
    <3>1. /\ Len(Tail(todo)) = Len(todo) - 1
          /\ \A i \in 1..Len(Tail(todo)) : Tail(todo)[i] = todo[i + 1] /\ i + 1 \in 1..Len(todo)
          /\ DOMAIN Tail(todo) = 1..Len(Tail(todo)) /\ DOMAIN todo = 1..Len(todo)
      BY <1>2
    <3>2. \A i, j \in 1..Len(todo) : todo[i] = todo[j] => i = j
      BY <1>2, <3>1 DEF IsInjective
    <3>3. ASSUME NEW i \in 1..Len(Tail(todo)) PROVE redisState'[Tail(todo)[i]] = "none"
      <4>1. todo[i + 1] \in RedisTasks /\ redisState[todo[i + 1]] = "none" /\ todo[1] = sub
        BY <1>2, <1>3, <3>1
      <4>2. 1 \in 1..Len(todo) /\ i + 1 # 1
        BY <1>2
      <4>3. todo[i + 1] # sub
        BY <3>1, <3>2, <4>1, <4>2
      <4> QED
        BY <1>6, <3>1, <4>1, <4>3
    <3>4. IsInjective(Tail(todo))
      <4>1. \A i, j \in 1..Len(Tail(todo)) : Tail(todo)[i] = Tail(todo)[j] => i = j
        <5> SUFFICES ASSUME NEW i \in 1..Len(Tail(todo)), NEW j \in 1..Len(Tail(todo)),
                            Tail(todo)[i] = Tail(todo)[j]
                     PROVE  i = j
          OBVIOUS
        <5>1. i + 1 = j + 1
          BY <3>1, <3>2
        <5> QED
          BY <5>1
      <4> QED
        BY <3>1, <4>1 DEF IsInjective
    <3> QED
      BY <3>3, <3>4
  <2>4. \A v \in RedisWorkers : rworker'[v].at \in {"decompose", "split"} => v = w
    BY <2>2 DEF Splitting
  <2> QED
    BY <1>8, <1>9, <2>2, <2>3, <2>4 DEF SplitsOnce
<1>13. ScriptOnce'
  <2>1. \A u \in RedisTasks : FromScript(w, u)' => FromScript(w, u)
    BY <1>8, <1>9 DEF FromScript
  <2>2. \A v \in RedisWorkers : ~FromScript(v, sub)
    BY <1>4 DEF FromScript, Busy
  <2>3. rworker'[w].at # "save"
    BY <1>8, <1>9
  <2> QED
    BY <1>1, <1>7, <1>9, <2>1, <2>2, <2>3, ScriptStays
<1>14. ASSUME NEW u \in RedisTasks, Sound(u)' PROVE TaskHeld(u)'
  <2>1. TaskHeld(u)
    BY <1>1, <1>14 DEF Sound, RedisInv
  <2>2. CASE u = sub
    <3>1. \A v \in RedisWorkers : ~Saving(v, u)'
      BY <1>4, <1>8, <1>9, <2>2 DEF Saving, Busy
    <3>2. Indexed(u)'
      BY <1>7, <2>2 DEF Indexed
    <3> QED
      BY <3>1, <3>2 DEF TaskHeld
  <2>3. CASE u # sub
    BY <1>1, <1>6, <1>7, <1>8, <1>9, <2>1, <2>3, HeldElsewhere
  <2> QED
    BY <2>2, <2>3
<1> QED
  BY <1>10, <1>11, <1>12, <1>13, <1>14 DEF RedisInv

LEMMA CheckParentKeeps ==
  ASSUME RedisInv, NEW w \in RedisWorkers, NEW t \in RedisTasks, CheckParent(w, t)
  PROVE  RedisInv'
<1> USE InvTyped, Counted, StagesAre
<1>1. /\ rworker[w].at = "idle" /\ redisState[t] = "decomposed"
      /\ Becomes(w, [at |-> "check", task |-> t, rest |-> SetToSeq(SubsOf[t])])
      /\ UNCHANGED <<redisState, redisIndex, redisRequeues, redisCut, redisMixed>>
  BY DEF CheckParent
<1>2. PICK r \in WorkerCalls : Becomes(w, r) /\ r.at = "check" /\ r.task = t
  BY <1>1, NewCalls, SubsListed
<1>3. /\ rworker'[w] = r /\ \A v \in RedisWorkers : v # w => rworker'[v] = rworker[v]
  BY <1>2, CallWritten
<1>4. SplitsOnce'
  BY <1>1, <1>2, <1>3, SplitsStay
<1>5. ScriptOnce'
  <2>1. \A u \in RedisTasks : FromScript(w, u)' => FromScript(w, u)
    BY <1>2, <1>3 DEF FromScript
  <2> QED
    BY <1>1, <1>2, <1>3, <2>1, ScriptStays
<1>6. TaskHeld(t) => TaskHeld(t)'
  BY <1>1, <1>2, <1>3 DEF TaskHeld, Saving
<1> QED
  BY <1>1, <1>2, <1>4, <1>5, <1>6, CallKeeps

LEMMA CheckSubKeeps ==
  ASSUME RedisInv, NEW w \in RedisWorkers, CheckSub(w)
  PROVE  RedisInv'
<1> USE InvTyped, Counted, StagesAre
<1>1. PICK t \in RedisTasks : /\ rworker[w].at = "check" /\ rworker[w].task = t /\ redisState[t] # "none"
                              /\ rworker[w].rest # <<>> /\ rworker[w] \in ListCalls
                              /\ UNCHANGED <<redisState, redisIndex, redisRequeues, redisCut, redisMixed>>
  BY TaskExists, CallFields DEF CheckSub
<1>2. PICK r \in WorkerCalls : Becomes(w, r) /\ r.at \in {"check", "idle"} /\ (r.at = "check" => r.task = t)
  <2>1. \A q : q = [rworker[w] EXCEPT !.rest = Tail(@)] => q \in ListCalls /\ q.at = "check" /\ q.task = t
    BY <1>1, LessToDo
  <2>2. \/ Becomes(w, NoCall)
        \/ \E q : q = [rworker[w] EXCEPT !.rest = Tail(@)] /\ Becomes(w, q)
    BY DEF CheckSub
  <2> QED
    BY <1>1, <2>1, <2>2, NewCalls DEF WorkerCalls
<1>3. /\ rworker'[w] = r /\ \A v \in RedisWorkers : v # w => rworker'[v] = rworker[v]
  BY <1>2, CallWritten
<1>4. SplitsOnce'
  BY <1>1, <1>2, <1>3, SplitsStay
<1>5. ScriptOnce'
  <2>1. \A u \in RedisTasks : FromScript(w, u)' => FromScript(w, u)
    BY <1>2, <1>3 DEF FromScript
  <2> QED
    BY <1>1, <1>2, <1>3, <2>1, ScriptStays
<1>6. TaskHeld(t) => TaskHeld(t)'
  BY <1>1, <1>2, <1>3 DEF TaskHeld, Saving, Holding, Indexed
<1> QED
  BY <1>1, <1>2, <1>4, <1>5, <1>6, CallKeeps

LEMMA ParentIndexedKeeps ==
  ASSUME RedisInv, NEW w \in RedisWorkers, ParentIndexed(w)
  PROVE  RedisInv'
<1> USE InvTyped, Counted, StagesAre
<1>1. PICK t \in RedisTasks : /\ rworker[w].at = "check" /\ rworker[w].task = t /\ redisState[t] # "none"
                              /\ redisIndex' = [redisIndex EXCEPT !["completed"] = @ \union {t}]
                              /\ Becomes(w, Call("parent", t))
                              /\ UNCHANGED <<redisState, redisRequeues, redisCut, redisMixed>>
  BY TaskExists DEF ParentIndexed
<1>2. PICK r \in WorkerCalls : r = Call("parent", t) /\ r.at = "parent" /\ r.task = t
  BY NewCalls
<1>3. /\ rworker'[w] = r /\ \A v \in RedisWorkers : v # w => rworker'[v] = rworker[v]
  BY <1>1, <1>2, CallWritten
<1>4. /\ redisIndex' \in [StageSet -> SUBSET RedisTasks] /\ t \in redisIndex'["completed"]
      /\ \A u \in RedisTasks, p \in StageSet : u # t \/ p # "completed" => (u \in redisIndex'[p] <=> u \in redisIndex[p])
  BY <1>1, IndexWritten
<1>5. SplitsOnce'
  BY <1>1, <1>2, <1>3, SplitsStay
<1>6. ScriptOnce'
  <2>1. \A u \in RedisTasks : FromScript(w, u)' => FromScript(w, u)
    BY <1>2, <1>3 DEF FromScript
  <2>2. \A u \in RedisTasks : u \in redisIndex'["pending"] => u \in redisIndex["pending"]
    BY <1>4
  <2> QED
    BY <1>1, <1>2, <1>3, <2>1, <2>2, ScriptStays
<1>7. TaskHeld(t) => TaskHeld(t)'
  BY <1>1, <1>2, <1>3, <1>4 DEF TaskHeld, Saving, Holding, Indexed
<1> QED
  BY <1>1, <1>2, <1>4, <1>5, <1>6, <1>7, CallKeeps

LEMMA ParentCompletedKeeps ==
  ASSUME RedisInv, NEW w \in RedisWorkers, ParentCompleted(w)
  PROVE  RedisInv'
<1> USE InvTyped, Counted, StagesAre
<1>1. PICK t \in RedisTasks : /\ rworker[w].at = "parent" /\ rworker[w].task = t /\ redisState[t] # "none"
                              /\ Hset(t, "completed") /\ Becomes(w, NoCall)
                              /\ UNCHANGED <<redisIndex, redisRequeues, redisCut, redisMixed>>
  BY TaskExists DEF ParentCompleted
<1>2. PICK r \in WorkerCalls : r = NoCall /\ r.at = "idle"
  BY NewCalls
<1>3. /\ rworker'[w] = r /\ \A v \in RedisWorkers : v # w => rworker'[v] = rworker[v]
  BY <1>1, <1>2, CallWritten
<1>4. /\ redisState' \in [RedisTasks -> HashStates] /\ redisState'[t] = "completed"
      /\ \A u \in RedisTasks : u # t => redisState'[u] = redisState[u]
  BY <1>1, HashWritten DEF HashStates
<1>5. SplitsOnce'
  BY <1>1, <1>2, <1>3, <1>4, NoneOnly, SplitsStay
<1>6. ScriptOnce'
  <2>1. \A u \in RedisTasks : FromScript(w, u)' => FromScript(w, u)
    BY <1>2, <1>3 DEF FromScript
  <2> QED
    BY <1>1, <1>2, <1>3, <2>1, ScriptStays
<1>7. TaskHeld(t) => TaskHeld(t)'
  BY <1>1, <1>2, <1>3, <1>4 DEF TaskHeld, Saving
<1> QED
  BY <1>1, <1>2, <1>4, <1>5, <1>6, <1>7, CallKeeps

LEMMA CallDiesKeeps ==
  ASSUME RedisInv, NEW w \in RedisWorkers, RedisCallDies(w)
  PROVE  RedisInv'
<1> USE InvTyped, Counted, StagesAre
<1>1. PICK t \in RedisTasks : /\ rworker[w].task = t /\ redisState[t] # "none"
                              /\ redisCut' = redisCut \union {t} /\ Becomes(w, NoCall)
                              /\ UNCHANGED <<redisState, redisIndex, redisRequeues, redisMixed>>
  BY TaskExists DEF RedisCallDies
<1>2. PICK r \in WorkerCalls : r = NoCall /\ r.at = "idle"
  BY NewCalls
<1>3. /\ rworker'[w] = r /\ \A v \in RedisWorkers : v # w => rworker'[v] = rworker[v]
  BY <1>1, <1>2, CallWritten
<1>4. SplitsOnce'
  BY <1>1, <1>2, <1>3, SplitsStay
<1>5. ScriptOnce'
  <2>1. \A u \in RedisTasks : FromScript(w, u)' => FromScript(w, u)
    BY <1>2, <1>3 DEF FromScript
  <2> QED
    BY <1>1, <1>2, <1>3, <2>1, ScriptStays
<1>6. ~Sound(t)'
  BY <1>1 DEF Sound
<1> QED
  BY <1>1, <1>2, <1>4, <1>5, <1>6, CallKeeps

LEMMA RedisKept == RedisInv /\ [RedisBoardNext]_redisVars => RedisInv'
<1> SUFFICES ASSUME RedisInv, [RedisBoardNext]_redisVars PROVE RedisInv'
  OBVIOUS
<1>1. CASE UNCHANGED redisVars
  BY <1>1 DEF redisVars, RedisInv, RedisTypes, NoneUntouched, SplitsOnce, ScriptOnce, Sound, TaskHeld,
     Busy, Saving, Holding, Splitting, Indexed, FromScript
<1>2. ASSUME NEW w \in RedisWorkers, RedisGoesOn(w) PROVE RedisInv'
  BY <1>2, ClaimSaveKeeps, ClaimMoveKeeps, SaveRemoveKeeps, SaveAddKeeps, MarkDecomposedKeeps, CreateSubKeeps,
     CheckSubKeeps, ParentIndexedKeeps, ParentCompletedKeeps DEF RedisGoesOn
<1>3. ASSUME NEW w \in RedisWorkers, RedisEnds(w) PROVE RedisInv'
  BY <1>3, CompleteKeeps, SaveInVainKeeps, QueueSaveKeeps DEF RedisEnds
<1>4. ASSUME NEW w \in RedisWorkers, NEW t \in RedisTasks,
             \/ ClaimNext(w, t) \/ ClaimById(w, t) \/ QueueRequeue(w, t)
             \/ QueueSave(w, t, "claimed") \/ QueueSave(w, t, "running")
             \/ Decompose(w, t) \/ CheckParent(w, t)
      PROVE  RedisInv'
  BY <1>4, ClaimNextKeeps, ClaimByIdKeeps, RequeueKeeps, QueueSaveKeeps, DecomposeKeeps, CheckParentKeeps
<1> QED
  BY <1>1, <1>2, <1>3, <1>4, CallDiesKeeps DEF RedisBoardNext

LEMMA RedisPromises ==
  ASSUME RedisInv
  PROVE  RedisBoardTypeOK /\ RedisFindable /\ ScriptClaimsOnce
<1>1. RedisBoardTypeOK
  BY InvTyped, CallFields DEF RedisInv, RedisTypes, RedisBoardTypeOK, StageSet
<1>2. RedisFindable
  <2> SUFFICES ASSUME NEW t \in RedisTasks \ (redisCut \union redisMixed),
                      redisState[t] \in {"pending", "claimed"}
               PROVE  Indexed(t) \/ \E w \in RedisWorkers : rworker[w].at # "idle" /\ rworker[w].task = t
    BY DEF RedisFindable, Indexed, StageSet
  <2>1. TaskHeld(t)
    BY DEF RedisInv, Sound
  <2> QED
    BY <2>1 DEF TaskHeld, Saving, Holding
<1>3. ScriptClaimsOnce
  <2>1. \A w \in RedisWorkers, t \in RedisTasks : Works(t, "script") = rworker[w] => FromScript(w, t)
    BY NewCalls DEF FromScript
  <2> QED
    BY <2>1 DEF RedisInv, ScriptOnce, ScriptClaimsOnce
<1> QED
  BY <1>1, <1>2, <1>3

-----------------------------------------------------------------------------
\* Decomposed parents.  What a host has seen completed stays completed, and a
\* host removes the parent from a directory when it is in another.
HostKnows(h) ==
  /\ HostAt(h, "work") \/ HostAt(h, "written") => subHost[h].sub \in Subs /\ subHost[h].did \in Subs
  /\ HostAt(h, "check") => subHost[h].did \in Subs
  /\ HostAt(h, "read") =>
       /\ subHost[h].sub \in Subs
       /\ \A k \in 1..(subHost[h].sub - 1) : "completed" \in subIn[k]
  /\ HostAt(h, "all") => \A k \in Subs : "completed" \in subIn[k]
  /\ HostAt(h, "all") /\ subHost[h].sub = 0 => "completed" \in parentIn
  /\ HostAt(h, "decomposed") => "decomposed" \in parentIn \/ "completed" \in parentIn

SubInv ==
  /\ SubTypeOK /\ ParentKept /\ ParentAfterSubs
  /\ \A h \in SubHosts : HostKnows(h)

LEMMA SubStarts == SubInit => SubInv
BY SubAssumption DEF SubInit, SubInv, SubTypeOK, ParentKept, ParentAfterSubs, HostKnows, HostAt, SubIdle, Subs

SubAts == {"idle", "dead", "claimLock", "claimed", "splitLock", "split", "decomposed", "work",
           "written", "check", "read", "all"}
SubHostRecords == [at : SubAts, sub : 0..SubCount, did : 0..SubCount]

LEMMA HostMovesOK ==
  ASSUME SubTypeOK, NEW h \in SubHosts
  PROVE  /\ \A r \in SubHostRecords :
              [subHost EXCEPT ![h] = r] \in [SubHosts -> SubHostRecords]
         /\ \A pc \in SubAts : HostTo(h, pc) => subHost' \in [SubHosts -> SubHostRecords]
         /\ \A n \in 0..SubCount :
              [subHost EXCEPT ![h].sub = n] \in [SubHosts -> SubHostRecords]
         /\ HostRests(h) => subHost' \in [SubHosts -> SubHostRecords]
<1>1. subHost \in [SubHosts -> SubHostRecords]
  BY DEF SubTypeOK, SubHostRecords, SubAts
<1>2. \A r \in SubHostRecords : [subHost EXCEPT ![h] = r] \in [SubHosts -> SubHostRecords]
  BY <1>1
<1>3. \A pc \in SubAts : HostTo(h, pc) => subHost' \in [SubHosts -> SubHostRecords]
  BY <1>1 DEF HostTo, SubHostRecords
<1>4. \A n \in 0..SubCount : [subHost EXCEPT ![h].sub = n] \in [SubHosts -> SubHostRecords]
  BY <1>1 DEF SubHostRecords
<1>5. SubIdle \in SubHostRecords
  BY SubAssumption DEF SubIdle, SubHostRecords, SubAts
<1> QED
  BY <1>2, <1>3, <1>4, <1>5 DEF HostRests

LEMMA SubTypesKept == SubInv /\ SubNext => SubTypeOK'
<1> SUFFICES ASSUME SubInv, SubNext PROVE SubTypeOK'
  OBVIOUS
<1> USE SubAssumption DEF SubInv, Subs
<1>1. ASSUME NEW h \in SubHosts PROVE
        /\ \A n \in 0..SubCount : [subHost EXCEPT ![h].sub = n] \in [SubHosts -> SubHostRecords]
        /\ HostRests(h) => subHost' \in [SubHosts -> SubHostRecords]
        /\ \A pc \in SubAts : HostTo(h, pc) => subHost' \in [SubHosts -> SubHostRecords]
        /\ \A pc \in SubAts, k \in 0..SubCount, d \in 0..SubCount :
             [subHost EXCEPT ![h] = [at |-> pc, sub |-> k, did |-> d]] \in [SubHosts -> SubHostRecords]
        /\ subHost[h].sub \in 0..SubCount /\ subHost[h].did \in 0..SubCount
  <2>1. \A pc \in SubAts, k \in 0..SubCount, d \in 0..SubCount :
          [at |-> pc, sub |-> k, did |-> d] \in SubHostRecords
    BY DEF SubHostRecords
  <2> QED
    BY <2>1, HostMovesOK DEF SubTypeOK
<1>2. SubTypeOK' <=>
        /\ parentIn' \subseteq {"pending", "claimed", "decomposed", "completed"}
        /\ subIn' \in [1..SubCount -> SUBSET {"pending", "claimed", "completed"}]
        /\ subHolder' \in [1..SubCount -> SubHosts \union {NoHost}]
        /\ parentLock' \in SubHosts \union {NoHost}
        /\ subHost' \in [SubHosts -> SubHostRecords]
        /\ missedChecks' \subseteq 1..SubCount
  BY DEF SubTypeOK, SubHostRecords, SubAts
<1>3. /\ parentIn \subseteq {"pending", "claimed", "decomposed", "completed"}
      /\ subIn \in [1..SubCount -> SUBSET {"pending", "claimed", "completed"}]
      /\ subHolder \in [1..SubCount -> SubHosts \union {NoHost}]
      /\ parentLock \in SubHosts \union {NoHost}
      /\ subHost \in [SubHosts -> SubHostRecords]
      /\ missedChecks \subseteq 1..SubCount
  BY DEF SubTypeOK, SubHostRecords, SubAts
<1>4. ASSUME NEW h \in SubHosts, NEW pc \in {"claimLock", "splitLock"}, ParentWanted(h, pc) PROVE SubTypeOK'
  BY <1>1, <1>2, <1>3, <1>4 DEF ParentWanted, SubAts
<1>5. ASSUME NEW h \in SubHosts, SubStep(h) PROVE SubTypeOK'
  <2>1. CASE ClaimParentStep(h)
    <3>1. CASE ParentLocked(h, "claimLock", "claimed")
      BY <1>1, <1>2, <1>3, <3>1 DEF ParentLocked, SubAts
    <3>2. CASE ~ParentLocked(h, "claimLock", "claimed")
      BY <1>1, <1>2, <1>3, <2>1, <3>2 DEF ClaimParentStep
    <3> QED
      BY <3>1, <3>2
  <2>2. CASE ParentLocked(h, "splitLock", "split")
    BY <1>1, <1>2, <1>3, <2>2 DEF ParentLocked, SubAts
  <2>3. CASE SplitSub(h)
    <3>1. subHost' \in [SubHosts -> SubHostRecords]
      BY <1>1, <2>3 DEF SplitSub
    <3> QED
      BY <3>1, <1>2, <1>3, <2>3 DEF SplitSub
  <2>4. CASE WriteDecomposed(h)
    BY <1>1, <1>2, <1>3, <2>4 DEF WriteDecomposed, SubAts
  <2>5. CASE SplitEnd(h)
    BY <1>1, <1>2, <1>3, <2>5 DEF SplitEnd
  <2>6. CASE CompleteWrite(h)
    BY <1>1, <1>2, <1>3, <2>6 DEF CompleteWrite, SubAts
  <2>7. CASE CompleteRemove(h)
    <3>1. subHost[h].sub \in 1..SubCount
      BY <2>7 DEF CompleteRemove, HostKnows, HostAt
    <3> QED
      BY <1>1, <1>2, <1>3, <2>7, <3>1 DEF CompleteRemove, SubAts
  <2>8. CASE LookAtParent(h)
    <3>1. subHost[h].did \in 1..SubCount
      BY <2>8 DEF LookAtParent, HostKnows, HostAt
    <3>2. "decomposed" \in parentIn =>
            subHost' = [subHost EXCEPT ![h] = [at |-> "read", sub |-> 1, did |-> subHost[h].did]]
      BY <2>8, <1>3 DEF LookAtParent, SubHostRecords
    <3>3. subHost' \in [SubHosts -> SubHostRecords]
      <4>1. [subHost EXCEPT ![h] = [at |-> "read", sub |-> 1, did |-> subHost[h].did]]
              \in [SubHosts -> SubHostRecords]
        <5>1. "read" \in SubAts /\ 1 \in 0..SubCount
          BY DEF SubAts
        <5> QED
          BY <1>1, <5>1
      <4> QED
        BY <1>1, <2>8, <3>2, <4>1 DEF LookAtParent
    <3> QED
      BY <1>2, <1>3, <2>8, <3>1, <3>3 DEF LookAtParent
  <2>9. CASE LookAtSub(h)
    <3>1. subHost' \in [SubHosts -> SubHostRecords]
      <4>1. subHost[h].sub # SubCount => subHost[h].sub + 1 \in 0..SubCount
        BY <1>1
      <4>2. subHost[h].sub # SubCount =>
              [subHost EXCEPT ![h].sub = subHost[h].sub + 1] \in [SubHosts -> SubHostRecords]
        BY <1>1, <4>1
      <4>3. "all" \in SubAts
        BY DEF SubAts
      <4>4. \/ HostRests(h) \/ HostTo(h, "all")
            \/ /\ subHost[h].sub # SubCount
               /\ subHost' = [subHost EXCEPT ![h].sub = subHost[h].sub + 1]
        BY <2>9 DEF LookAtSub
      <4> QED
        BY <1>1, <4>2, <4>3, <4>4
    <3> QED
      BY <3>1, <1>2, <1>3, <2>9 DEF LookAtSub
  <2>10. CASE CheckWrite(h)
    <3>1. subHost' \in [SubHosts -> SubHostRecords]
      <4>1. 0 \in 0..SubCount
        OBVIOUS
      <4> QED
        BY <1>1, <2>10, <4>1 DEF CheckWrite
    <3> QED
      BY <1>2, <1>3, <2>10, <3>1 DEF CheckWrite
  <2>11. CASE CheckRemove(h)
    BY <1>1, <1>2, <1>3, <2>11 DEF CheckRemove
  <2>12. ASSUME NEW j \in Subs, ClaimSub(h, j) PROVE SubTypeOK'
    BY <1>1, <1>2, <1>3, <2>12 DEF ClaimSub, SubAts
  <2> QED
    BY <1>5, <2>1, <2>2, <2>3, <2>4, <2>5, <2>6, <2>7, <2>8, <2>9, <2>10, <2>11, <2>12 DEF SubStep
<1>6. ASSUME NEW h \in SubHosts, SubHostDies(h) PROVE SubTypeOK'
  <2>1. [SubIdle EXCEPT !.at = "dead"] = [at |-> "dead", sub |-> 0, did |-> 0]
    BY DEF SubIdle
  <2> QED
    BY <1>1, <1>2, <1>3, <1>6, <2>1 DEF SubHostDies, SubAts
<1>7. ASSUME NEW k \in Subs, RequeueSub(k) PROVE SubTypeOK'
  BY <1>2, <1>3, <1>7 DEF RequeueSub
<1> QED
  BY <1>4, <1>5, <1>6, <1>7 DEF SubNext

\* Completed files of sub-tasks, and of the parent, are never removed.
LEMMA CompletedStays ==
  SubInv /\ SubNext =>
    /\ \A k \in Subs : "completed" \in subIn[k] => "completed" \in subIn'[k]
    /\ "completed" \in parentIn => "completed" \in parentIn'
<1> SUFFICES ASSUME SubInv, SubNext
             PROVE  /\ \A k \in Subs : "completed" \in subIn[k] => "completed" \in subIn'[k]
                    /\ "completed" \in parentIn => "completed" \in parentIn'
  OBVIOUS
<1>1. ASSUME NEW k \in Subs, "completed" \in subIn[k] PROVE "completed" \in subIn'[k]
  <2> USE <1>1 DEF SubInv, SubTypeOK
  <2>1. ASSUME NEW h \in SubHosts, SplitSub(h) PROVE "completed" \in subIn'[k]
    BY <2>1 DEF SplitSub
  <2>2. ASSUME NEW h \in SubHosts, CompleteWrite(h) PROVE "completed" \in subIn'[k]
    BY <2>2 DEF CompleteWrite
  <2>3. ASSUME NEW h \in SubHosts, CompleteRemove(h) PROVE "completed" \in subIn'[k]
    BY <2>3 DEF CompleteRemove
  <2>4. ASSUME NEW h \in SubHosts, NEW j \in Subs, ClaimSub(h, j) PROVE "completed" \in subIn'[k]
    BY <2>4 DEF ClaimSub
  <2>5. ASSUME NEW j \in Subs, RequeueSub(j) PROVE "completed" \in subIn'[k]
    BY <2>5 DEF RequeueSub
  <2>6. \/ \E h \in SubHosts : \/ SplitSub(h) \/ CompleteWrite(h) \/ CompleteRemove(h)
                               \/ \E j \in Subs : ClaimSub(h, j)
        \/ \E j \in Subs : RequeueSub(j)
        \/ UNCHANGED subIn
    BY DEF SubNext, SubStep, ParentWanted, ClaimParentStep, ParentLocked, WriteDecomposed,
         SplitEnd, LookAtParent, LookAtSub, CheckWrite, CheckRemove, SubHostDies
  <2> QED
    BY <2>1, <2>2, <2>3, <2>4, <2>5, <2>6
<1>2. "completed" \in parentIn => "completed" \in parentIn'
  BY DEF SubNext, SubStep, ParentWanted, ClaimParentStep, ParentLocked, SplitSub, WriteDecomposed,
         SplitEnd, CompleteWrite, CompleteRemove, LookAtParent, LookAtSub, CheckWrite, CheckRemove,
         ClaimSub, SubHostDies, RequeueSub
<1> QED
  BY <1>1, <1>2

LEMMA DecomposedStays ==
  SubInv /\ SubNext =>
    ("decomposed" \in parentIn => "decomposed" \in parentIn' \/ "completed" \in parentIn')
<1> SUFFICES ASSUME SubInv, SubNext, "decomposed" \in parentIn
             PROVE  "decomposed" \in parentIn' \/ "completed" \in parentIn'
  OBVIOUS
<1>1. ASSUME NEW h \in SubHosts, CheckRemove(h) PROVE "completed" \in parentIn'
  BY <1>1 DEF CheckRemove, SubInv, HostKnows
<1>2. (~\E h \in SubHosts : CheckRemove(h)) => "decomposed" \in parentIn'
  BY DEF SubNext, SubStep, ParentWanted, ClaimParentStep, ParentLocked, SplitSub, WriteDecomposed,
         SplitEnd, CompleteWrite, CompleteRemove, LookAtParent, LookAtSub, CheckWrite,
         ClaimSub, SubHostDies, RequeueSub
<1> QED
  BY <1>1, <1>2

\* A host that does nothing in a step knows what it knew.
LEMMA OthersKnow ==
  ASSUME SubInv, SubNext, NEW g \in SubHosts, subHost'[g] = subHost[g]
  PROVE  HostKnows(g)'
<1>1. HostKnows(g)
  BY DEF SubInv
<1>2. subHost[g].sub \in 0..SubCount
  BY DEF SubInv, SubTypeOK
<1>3. \A k \in 1..(subHost[g].sub - 1) : k \in Subs
  BY <1>2, SubAssumption DEF Subs
<1> QED
  BY <1>1, <1>3, CompletedStays, DecomposedStays DEF HostKnows, HostAt

LEMMA SubKept == SubInv /\ [SubNext]_subVars => SubInv'
<1> SUFFICES ASSUME SubInv, [SubNext]_subVars PROVE SubInv'
  OBVIOUS
<1>1. CASE UNCHANGED subVars
  BY <1>1 DEF subVars, SubInv, SubTypeOK, ParentKept, ParentAfterSubs, HostKnows, HostAt
<1>2. CASE SubNext
  <2>1. SubTypeOK'
    BY <1>2, SubTypesKept
  <2>2. ParentKept'
    <3>1. ASSUME NEW h \in SubHosts, SplitEnd(h) PROVE ParentKept'
      BY <3>1 DEF SplitEnd, SubInv, HostKnows, ParentKept
    <3>2. ASSUME NEW h \in SubHosts, CheckRemove(h) PROVE ParentKept'
      BY <3>2 DEF CheckRemove, SubInv, HostKnows, ParentKept
    <3>3. \/ \E h \in SubHosts : \/ SplitEnd(h) \/ CheckRemove(h) \/ ClaimParentStep(h)
                                 \/ WriteDecomposed(h) \/ CheckWrite(h)
          \/ UNCHANGED parentIn
      BY <1>2 DEF SubNext, SubStep, ParentWanted, ParentLocked, SplitSub, CompleteWrite, CompleteRemove,
           LookAtParent, LookAtSub, ClaimSub, SubHostDies, RequeueSub
    <3>4. ASSUME NEW h \in SubHosts, ClaimParentStep(h) \/ WriteDecomposed(h) \/ CheckWrite(h)
          PROVE  ParentKept'
      BY <3>4 DEF SubInv, ParentKept, ClaimParentStep, ParentLocked, WriteDecomposed, CheckWrite
    <3> QED
      BY <3>1, <3>2, <3>3, <3>4 DEF SubInv, ParentKept
  <2>3. ParentAfterSubs'
    <3>1. ASSUME NEW h \in SubHosts, CheckWrite(h) PROVE \A k \in Subs : "completed" \in subIn[k]
      BY <3>1 DEF CheckWrite, SubInv, HostKnows
    <3>2. \/ \E h \in SubHosts : CheckWrite(h)
          \/ "completed" \in parentIn' => "completed" \in parentIn
      <4>1. \/ \E h \in SubHosts : \/ SplitEnd(h) \/ CheckRemove(h) \/ ClaimParentStep(h)
                                   \/ WriteDecomposed(h) \/ CheckWrite(h)
            \/ UNCHANGED parentIn
        BY <1>2 DEF SubNext, SubStep, ParentWanted, ParentLocked, SplitSub, CompleteWrite, CompleteRemove,
             LookAtParent, LookAtSub, ClaimSub, SubHostDies, RequeueSub
      <4> QED
        BY <4>1 DEF SplitEnd, CheckRemove, ClaimParentStep, ParentLocked, WriteDecomposed
    <3> QED
      BY <1>2, <3>1, <3>2, CompletedStays DEF SubInv, ParentAfterSubs
  <2>4. ASSUME NEW g \in SubHosts PROVE HostKnows(g)'
    <3> USE SubAssumption DEF SubInv, SubTypeOK, HostTo, HostAt, HostRests, SubIdle, Subs
    <3> PICK at, j, did : /\ subHost[g] = [at |-> at, sub |-> j, did |-> did]
                          /\ at \in {"idle", "dead", "claimLock", "claimed", "splitLock", "split",
                                     "decomposed", "work", "written", "check", "read", "all"}
                          /\ j \in 0..SubCount /\ did \in 0..SubCount
      OBVIOUS
    <3>1. CASE subHost'[g] = subHost[g]
      BY <1>2, <3>1, OthersKnow
    <3>2. CASE \E pc \in {"claimLock", "splitLock"} : ParentWanted(g, pc)
      BY <3>2 DEF ParentWanted, HostKnows
    <3>3. CASE ClaimParentStep(g) \/ ParentLocked(g, "splitLock", "split")
      BY <3>3 DEF ClaimParentStep, ParentLocked, HostKnows
    <3>4. CASE SplitSub(g) \/ SplitEnd(g)
      BY <3>4 DEF SplitSub, SplitEnd, HostKnows
    <3>5. CASE WriteDecomposed(g)
      BY <3>5 DEF WriteDecomposed, HostKnows
    <3>6. CASE CompleteWrite(g)
      BY <3>6 DEF CompleteWrite, HostKnows
    <3>7. CASE CompleteRemove(g)
      <4>1. did \in Subs \/ ~HostAt(g, "written")
        BY DEF HostKnows
      <4> QED
        BY <3>7, <4>1 DEF CompleteRemove, HostKnows
    <3>8. CASE LookAtParent(g)
      BY <3>8 DEF LookAtParent, HostKnows
    <3>9. CASE LookAtSub(g)
      BY <3>9 DEF LookAtSub, HostKnows
    <3>10. CASE CheckWrite(g)
      BY <3>10 DEF CheckWrite, HostKnows
    <3>11. CASE CheckRemove(g) \/ SubHostDies(g)
      BY <3>11 DEF CheckRemove, SubHostDies, HostKnows
    <3>12. CASE \E k \in Subs : ClaimSub(g, k)
      BY <3>12 DEF ClaimSub, HostKnows
    <3>13. \/ subHost'[g] = subHost[g]
           \/ SubStep(g) \/ SubHostDies(g) \/ \E pc \in {"claimLock", "splitLock"} : ParentWanted(g, pc)
      <4>1. ASSUME NEW h \in SubHosts, h # g,
                   SubStep(h) \/ SubHostDies(h) \/ \E pc \in {"claimLock", "splitLock"} : ParentWanted(h, pc)
            PROVE  subHost'[g] = subHost[g]
        BY <4>1 DEF SubStep, ParentWanted, ClaimParentStep, ParentLocked, SplitSub, WriteDecomposed,
             SplitEnd, CompleteWrite, CompleteRemove, LookAtParent, LookAtSub, CheckWrite, CheckRemove,
             ClaimSub, SubHostDies
      <4>2. ASSUME NEW k \in Subs, RequeueSub(k) PROVE subHost'[g] = subHost[g]
        BY <4>2 DEF RequeueSub
      <4> QED
        BY <1>2, <4>1, <4>2 DEF SubNext
    <3> QED
      BY <3>1, <3>2, <3>3, <3>4, <3>5, <3>6, <3>7, <3>8, <3>9, <3>10, <3>11, <3>12, <3>13 DEF SubStep
  <2> QED
    BY <2>1, <2>2, <2>3, <2>4 DEF SubInv
<1> QED
  BY <1>1, <1>2

-----------------------------------------------------------------------------
\* How tasks come to the board.  A generator that lists the directories, and
\* was not disturbed, has counted every task of those behind it: the tasks only
\* move to directories still to come, or to such where it has counted them.
HasCounted(g) ==
  gen[g].alone =>
    /\ gen[g].at = "number" /\ gen[g].looked \in 1..3
    /\ \A h \in Generators \ {g} : ~Numbering(h)
    /\ \A i \in Ids, n \in 1..gen[g].looked : intake[i].stage = ListedStages[n] => i <= gen[g].top
NotYet(g) == gen[g].at # "number" => gen[g].looked = 0

IntakeInv ==
  /\ IntakeTypeOK /\ SeenIsProposed
  /\ \A g \in Generators : HasCounted(g) /\ NotYet(g)

GenRecords == [at : {"rest", "save", "dedup", "number"}, saw : Commits, looked : 0..3, top : 0..MaxIds,
               alone : BOOLEAN]

LEMMA IntakeStarts == IntakeInit => IntakeInv
<1> SUFFICES ASSUME IntakeInit PROVE IntakeInv
  OBVIOUS
<1> USE IntakeAssumption DEF IntakeInit, Ids, Commits
<1>1. IntakeTypeOK
  <2>1. GenIdle \in GenRecords
    BY DEF GenIdle, GenRecords
  <2>2. NoFile \in [stage : {"none", "pending", "claimed", "completed"}, of : Commits]
    BY DEF NoFile
  <2>3. headAt \in Commits /\ scanned \in Commits /\ workLost \in BOOLEAN
    <3>1. headAt = 0 /\ scanned = 0 /\ workLost = FALSE /\ MaxCommits \in Nat
      OBVIOUS
    <3>2. headAt \in Commits /\ scanned \in Commits
      BY <3>1 DEF Commits
    <3>3. workLost \in BOOLEAN
      BY <3>1
    <3> QED
      BY <3>2, <3>3
  <2>4. gen \in [Generators -> GenRecords]
    BY <2>1
  <2>5. intake \in [Ids -> [stage : {"none", "pending", "claimed", "completed"}, of : Commits]]
    BY <2>2
  <2> QED
    BY <2>3, <2>4, <2>5 DEF IntakeTypeOK, GenRecords
<1>2. SeenIsProposed
  BY DEF SeenIsProposed
<1>3. \A g \in Generators : HasCounted(g) /\ NotYet(g)
  BY DEF HasCounted, NotYet, GenIdle
<1> QED
  BY <1>1, <1>2, <1>3 DEF IntakeInv

\* What a look at one directory makes of a generator's record.
LEMMA LookOK ==
  ASSUME IntakeTypeOK, NEW g \in Generators, gen[g].looked < 3
  PROVE  LET n   == gen[g].looked + 1
             top == MaxOf({gen[g].top} \union {i \in Ids : intake[i].stage = ListedStages[n]})
         IN  /\ n \in 1..3 /\ top \in 0..MaxIds /\ gen[g].top <= top
             /\ \A i \in Ids : intake[i].stage = ListedStages[n] => i <= top
<1> DEFINE n == gen[g].looked + 1
           S == {gen[g].top} \union {i \in Ids : intake[i].stage = ListedStages[n]}
<1>1. gen[g].looked \in 0..3 /\ gen[g].top \in 0..MaxIds /\ MaxIds \in Nat
  BY IntakeAssumption DEF IntakeTypeOK
<1>2. S \subseteq 0..MaxIds /\ S # {}
  BY <1>1 DEF Ids
<1>3. MaxOf(S) \in S /\ \A m \in S : m <= MaxOf(S)
  <2> HIDE DEF S
  <2> QED
    BY <1>1, <1>2, Greatest
<1> QED
  BY <1>1, <1>2, <1>3

\* What a step makes of the record of the generator that takes it.
LEMMA GenMoves ==
  ASSUME IntakeTypeOK, NEW g \in Generators
  PROVE  /\ GenRests(g) =>
              /\ gen' \in [Generators -> GenRecords]
              /\ gen'[g].at = "rest" /\ gen'[g].looked = 0 /\ gen'[g].alone = FALSE
              /\ \A h \in Generators : h # g => gen'[h] = gen[h]
         /\ GenScan(g) =>
              /\ gen' \in [Generators -> GenRecords]
              /\ gen'[g].at = "save" /\ gen'[g].looked = 0 /\ gen'[g].alone = FALSE
              /\ \A h \in Generators : h # g => gen'[h] = gen[h]
         /\ \A at \in {"dedup", "number"} : GenIs(g, [gen[g] EXCEPT !.at = at]) =>
              /\ gen' \in [Generators -> GenRecords]
              /\ gen'[g].at = at /\ gen'[g].saw = gen[g].saw
              /\ gen'[g].looked = gen[g].looked /\ gen'[g].alone = gen[g].alone
              /\ \A h \in Generators : h # g => gen'[h] = gen[h]
<1> USE IntakeAssumption
<1>1. gen \in [Generators -> GenRecords] /\ headAt \in Commits
  BY DEF IntakeTypeOK, GenRecords
<1>2. \A r \in GenRecords : GenIs(g, r) =>
        /\ gen' \in [Generators -> GenRecords] /\ gen'[g] = r
        /\ \A h \in Generators : h # g => gen'[h] = gen[h]
  BY <1>1 DEF GenIs
<1>3. GenIdle \in GenRecords
  BY DEF GenIdle, GenRecords, Commits
<1>4. GenIdle.at = "rest" /\ GenIdle.looked = 0 /\ GenIdle.alone = FALSE
  BY DEF GenIdle
<1>5. GenRests(g) =>
        /\ gen' \in [Generators -> GenRecords]
        /\ gen'[g].at = "rest" /\ gen'[g].looked = 0 /\ gen'[g].alone = FALSE
        /\ \A h \in Generators : h # g => gen'[h] = gen[h]
  BY <1>2, <1>3, <1>4 DEF GenRests
<1>6. GenScan(g) =>
        /\ gen' \in [Generators -> GenRecords]
        /\ gen'[g].at = "save" /\ gen'[g].looked = 0 /\ gen'[g].alone = FALSE
        /\ \A h \in Generators : h # g => gen'[h] = gen[h]
  <2> DEFINE r == [GenIdle EXCEPT !.at = "save", !.saw = headAt]
  <2>1. r \in GenRecords /\ r.at = "save" /\ r.looked = GenIdle.looked /\ r.alone = GenIdle.alone
    BY <1>1, <1>3 DEF GenRecords
  <2>2. GenScan(g) => GenIs(g, r)
    BY DEF GenScan
  <2> HIDE DEF r
  <2> QED
    BY <1>2, <1>4, <2>1, <2>2
<1>7. ASSUME NEW at \in {"dedup", "number"}, GenIs(g, [gen[g] EXCEPT !.at = at])
      PROVE  /\ gen' \in [Generators -> GenRecords]
             /\ gen'[g].at = at /\ gen'[g].saw = gen[g].saw
             /\ gen'[g].looked = gen[g].looked /\ gen'[g].alone = gen[g].alone
             /\ \A h \in Generators : h # g => gen'[h] = gen[h]
  <2> DEFINE r == [gen[g] EXCEPT !.at = at]
  <2>1. /\ r \in GenRecords /\ r.at = at /\ r.saw = gen[g].saw
        /\ r.looked = gen[g].looked /\ r.alone = gen[g].alone
    BY <1>1 DEF GenRecords
  <2>2. GenIs(g, r)
    BY <1>7
  <2> HIDE DEF r
  <2> QED
    BY <1>2, <2>1, <2>2
<1> QED
  BY <1>5, <1>6, <1>7

\* And a look at a directory.
LEMMA GenLooks ==
  ASSUME IntakeTypeOK, NEW g \in Generators, NumberLook(g)
  PROVE  LET n   == gen[g].looked + 1
             top == MaxOf({gen[g].top} \union {i \in Ids : intake[i].stage = ListedStages[n]})
         IN  /\ gen' \in [Generators -> GenRecords]
             /\ gen[g].at = "number" /\ gen'[g].at = "number" /\ gen'[g].saw = gen[g].saw
             /\ gen'[g].looked = n /\ gen'[g].top = top
             /\ gen'[g].alone = IF n = 1 THEN NobodyElse(g) ELSE gen[g].alone
             /\ \A h \in Generators \ {g} :
                  /\ gen'[h].at = gen[h].at /\ gen'[h].saw = gen[h].saw
                  /\ gen'[h].looked = gen[h].looked /\ gen'[h].alone = FALSE
<1> DEFINE n == gen[g].looked + 1
           t == MaxOf({gen[g].top} \union {i \in Ids : intake[i].stage = ListedStages[n]})
           r == [gen[g] EXCEPT !.looked = n, !.top = t, !.alone = IF n = 1 THEN NobodyElse(g) ELSE @]
<1>1. n \in 1..3 /\ t \in 0..MaxIds
  BY LookOK DEF NumberLook
<1>2. gen \in [Generators -> GenRecords]
  BY DEF IntakeTypeOK, GenRecords
<1>3. NobodyElse(g) \in BOOLEAN
  BY DEF NobodyElse
<1>4. gen' = [h \in Generators |-> IF h = g THEN r ELSE [gen[h] EXCEPT !.alone = FALSE]]
  BY DEF NumberLook
<1>5. /\ r \in GenRecords /\ r.at = gen[g].at /\ r.saw = gen[g].saw /\ r.looked = n /\ r.top = t
      /\ r.alone = IF n = 1 THEN NobodyElse(g) ELSE gen[g].alone
  <2> HIDE DEF n, t
  <2>1. PICK b \in BOOLEAN : b = NobodyElse(g)
    BY <1>3
  <2>2. PICK q \in GenRecords : q = gen[g]
    BY <1>2
  <2>3. n \in 0..3
    BY <1>1
  <2>4. /\ r.at = gen[g].at /\ r.saw = gen[g].saw /\ r.looked = n /\ r.top = t
        /\ r.alone = IF n = 1 THEN NobodyElse(g) ELSE gen[g].alone
    BY <2>2 DEF GenRecords
  <2>5. r = [q EXCEPT !.looked = n, !.top = t, !.alone = IF n = 1 THEN b ELSE @]
    BY <2>1, <2>2
  <2>6. r \in GenRecords
    <3> HIDE DEF r
    <3> QED
      BY <1>1, <2>3, <2>5 DEF GenRecords
  <2> QED
    BY <2>4, <2>6
<1>6. \A h \in Generators : [gen[h] EXCEPT !.alone = FALSE] \in GenRecords
  BY <1>2 DEF GenRecords
<1> HIDE DEF n, t, r
<1>7. gen' \in [Generators -> GenRecords] /\ gen'[g] = r
  BY <1>4, <1>5, <1>6
<1>8. \A h \in Generators \ {g} :
        /\ gen'[h].at = gen[h].at /\ gen'[h].saw = gen[h].saw
        /\ gen'[h].looked = gen[h].looked /\ gen'[h].alone = FALSE
  <2>1. \A h \in Generators \ {g} : gen'[h] = [gen[h] EXCEPT !.alone = FALSE]
    BY <1>4
  <2> QED
    BY <1>2, <2>1 DEF GenRecords
<1>9. gen[g].at = "number"
  BY DEF NumberLook, GenAt
<1> QED
  BY <1>5, <1>7, <1>8, <1>9 DEF n, t

LEMMA IntakeTypesKept == IntakeInv /\ IntakeNext => IntakeTypeOK'
<1> SUFFICES ASSUME IntakeInv, IntakeNext PROVE IntakeTypeOK'
  OBVIOUS
<1> USE IntakeAssumption DEF IntakeInv, Commits, Ids
<1>1. CASE CommitComes
  BY <1>1 DEF CommitComes, IntakeTypeOK
<1>2. ASSUME NEW g \in Generators, GenStep(g) \/ GenDies(g) PROVE IntakeTypeOK'
  <2>1. gen' \in [Generators -> GenRecords]
    BY <1>2, GenMoves, GenLooks
       DEF GenStep, GenSave, GenDedup, GenPreview, CreateTask, GenDies
  <2>2. /\ headAt' \in Commits /\ scanned' \in Commits /\ workLost' \in BOOLEAN
        /\ intake' \in [Ids -> [stage : {"none", "pending", "claimed", "completed"}, of : Commits]]
    <3>1. gen[g].saw \in Commits /\ gen[g].top \in 0..MaxIds
      BY DEF IntakeTypeOK
    <3>2. CASE CreateTask(g)
      BY <3>1, <3>2 DEF CreateTask, IntakeTypeOK
    <3>3. CASE GenSave(g)
      BY <3>1, <3>3 DEF GenSave, IntakeTypeOK
    <3>4. CASE GenDedup(g)
      BY <3>4 DEF GenDedup, IntakeTypeOK
    <3> QED
      BY <1>2, <3>2, <3>3, <3>4 DEF GenStep, GenScan, GenPreview, NumberLook, GenDies, IntakeTypeOK
  <2> QED
    BY <2>1, <2>2 DEF IntakeTypeOK, GenRecords
<1>3. ASSUME NEW i \in Ids, NEW from, NEW to \in {"pending", "claimed", "completed"}, TaskMoves(i, from, to)
      PROVE  IntakeTypeOK'
  <2>1. gen' \in [Generators -> GenRecords]
    BY <1>3 DEF TaskMoves, IntakeTypeOK, GenRecords
  <2> QED
    BY <1>3, <2>1, ZenonT(40) DEF TaskMoves, IntakeTypeOK, GenRecords
<1> QED
  BY <1>1, <1>2, <1>3 DEF IntakeNext

LEMMA NotYetKept == IntakeInv /\ IntakeNext => \A g \in Generators : NotYet(g)'
<1> SUFFICES ASSUME IntakeInv, IntakeNext, NEW g \in Generators PROVE NotYet(g)'
  OBVIOUS
<1> USE IntakeAssumption DEF IntakeInv
<1>1. ASSUME NEW h \in Generators, NumberLook(h) PROVE NotYet(g)'
  <2>1. CASE h = g
    BY <1>1, <2>1, GenLooks DEF NotYet
  <2>2. CASE h # g
    BY <1>1, <2>2, GenLooks DEF NotYet
  <2> QED
    BY <2>1, <2>2
<1>2. ASSUME NEW h \in Generators, GenScan(h) \/ GenPreview(h) \/ CreateTask(h) \/ GenDies(h)
      PROVE  NotYet(g)'
  BY <1>2, GenMoves DEF GenPreview, CreateTask, GenDies, NotYet
<1>3. ASSUME NEW h \in Generators, GenSave(h) \/ GenDedup(h) PROVE NotYet(g)'
  <2>1. gen[h].looked = 0
    BY <1>3 DEF GenSave, GenDedup, GenAt, NotYet
  <2>2. GenSave(h) => GenIs(h, [gen[h] EXCEPT !.at = "dedup"])
    BY DEF GenSave
  <2>3. GenDedup(h) => GenIs(h, [gen[h] EXCEPT !.at = "number"]) \/ GenRests(h)
    BY DEF GenDedup
  <2> QED
    BY <1>3, <2>1, <2>2, <2>3, GenMoves DEF NotYet
<1>4. CASE CommitComes
  BY <1>4 DEF CommitComes, NotYet
<1>5. ASSUME NEW i \in Ids, NEW from, NEW to, TaskMoves(i, from, to) PROVE NotYet(g)'
  <2>1. gen'[g].at = gen[g].at /\ gen'[g].looked = gen[g].looked
    BY <1>5 DEF TaskMoves, IntakeTypeOK
  <2> QED
    BY <2>1 DEF NotYet
<1> QED
  BY <1>1, <1>2, <1>3, <1>4, <1>5 DEF IntakeNext, GenStep

LEMMA LostStays == ASSUME IntakeNext PROVE workLost => workLost'
<1>1. ASSUME NEW g \in Generators, GenStep(g) \/ GenDies(g) PROVE workLost => workLost'
  <2>1. GenDedup(g) => workLost' = TRUE \/ workLost' = workLost
    BY DEF GenDedup
  <2>2. CreateTask(g) => (workLost => workLost')
    BY DEF CreateTask
  <2>3. GenScan(g) \/ GenSave(g) \/ NumberLook(g) => workLost' = workLost
    BY DEF GenScan, GenSave, NumberLook
  <2>4. GenPreview(g) \/ GenDies(g) => workLost' = TRUE
    BY DEF GenPreview, GenDies
  <2> QED
    BY <1>1, <2>1, <2>2, <2>3, <2>4 DEF GenStep
<1>2. CommitComes => workLost' = workLost
  BY DEF CommitComes
<1>3. \A i \in Ids, from, to \in {"pending", "claimed", "completed"} :
        TaskMoves(i, from, to) => workLost' = workLost
  BY DEF TaskMoves
<1> QED
  BY <1>1, <1>2, <1>3 DEF IntakeNext

LEMMA SeenKept == IntakeInv /\ IntakeNext => SeenIsProposed'
<1> SUFFICES ASSUME IntakeInv, IntakeNext, ~workLost, ~workLost',
                    NEW c \in 1..scanned'
             PROVE  \/ \E i \in Ids : intake'[i].stage # "none" /\ intake'[i].of >= c
                    \/ \E g \in Generators : gen'[g].at \in {"save", "dedup", "number"} /\ gen'[g].saw >= c
  BY LostStays DEF SeenIsProposed
<1> USE IntakeAssumption DEF IntakeInv, IntakeTypeOK, SeenIsProposed, Commits, Ids
<1> DEFINE Proposed == \/ \E i \in Ids : intake'[i].stage # "none" /\ intake'[i].of >= c
                       \/ \E g \in Generators :
                            gen'[g].at \in {"save", "dedup", "number"} /\ gen'[g].saw >= c
<1> SUFFICES Proposed
  OBVIOUS
<1>1. CASE CommitComes
  BY <1>1 DEF CommitComes
<1>2. ASSUME NEW g \in Generators, GenScan(g) PROVE Proposed
  BY <1>2 DEF GenScan, GenAt, GenIs, GenIdle
<1>3. ASSUME NEW g \in Generators, GenSave(g) PROVE Proposed
  <2>1. gen'[g].at = "dedup" /\ gen'[g].saw = gen[g].saw /\ scanned' = gen[g].saw
    BY <1>3 DEF GenSave, GenIs
  <2>2. gen[g].saw \in 0..MaxCommits
    OBVIOUS
  <2> QED
    BY <2>1, <2>2
<1>4. ASSUME NEW g \in Generators, GenDedup(g) PROVE Proposed
  <2>1. gen' = [gen EXCEPT ![g] = [gen[g] EXCEPT !.at = "number"]] /\ UNCHANGED <<intake, scanned>>
    BY <1>4 DEF GenDedup, GenIs
  <2> QED
    BY <2>1
<1>5. ASSUME NEW g \in Generators, NumberLook(g) PROVE Proposed
  <2>1. \A h \in Generators : gen'[h].at = gen[h].at /\ gen'[h].saw = gen[h].saw
    BY <1>5 DEF NumberLook
  <2>2. UNCHANGED <<intake, scanned>>
    BY <1>5 DEF NumberLook
  <2> QED
    BY <2>1, <2>2
<1>6. ASSUME NEW g \in Generators, CreateTask(g) PROVE Proposed
  <2> DEFINE i == gen[g].top + 1
  <2>0. gen[g].top \in 0..MaxIds /\ gen[g].top < MaxIds
    BY <1>6 DEF CreateTask
  <2>1. i \in Ids /\ intake[i].stage = "none" /\ intake'[i] = [stage |-> "pending", of |-> gen[g].saw]
    <3>1. i \in Ids
      BY <2>0
    <3> QED
      BY <1>6, <3>1 DEF CreateTask
  <2>2. \A j \in Ids : j # i => intake'[j] = intake[j]
    BY <1>6 DEF CreateTask
  <2>3. \A h \in Generators : h # g => gen'[h] = gen[h]
    BY <1>6 DEF CreateTask, GenRests, GenIs
  <2>4. c \in 1..scanned
    BY <1>6 DEF CreateTask
  <2>5. ASSUME NEW j \in Ids, intake[j].stage # "none", intake[j].of >= c PROVE Proposed
    BY <2>1, <2>2, <2>5
  <2>6. ASSUME NEW h \in Generators, h # g, gen[h].at \in {"save", "dedup", "number"}, gen[h].saw >= c
        PROVE  Proposed
    BY <2>3, <2>6
  <2>7. ASSUME gen[g].saw >= c PROVE Proposed
    <3>1. intake'[i].stage # "none" /\ intake'[i].of >= c
      BY <2>1, <2>7
    <3> QED
      BY <2>1, <3>1
  <2> QED
    BY <2>4, <2>5, <2>6, <2>7
<1>7. ASSUME NEW i \in Ids, NEW from \in {"pending", "claimed"}, NEW to \in {"pending", "claimed", "completed"},
             TaskMoves(i, from, to)
      PROVE  Proposed
  <2>1. \A h \in Generators : gen'[h].at = gen[h].at /\ gen'[h].saw = gen[h].saw
    BY <1>7 DEF TaskMoves
  <2>2. \A j \in Ids : /\ intake'[j].of = intake[j].of
                       /\ intake[j].stage # "none" => intake'[j].stage # "none"
    BY <1>7 DEF TaskMoves
  <2>3. UNCHANGED scanned
    BY <1>7 DEF TaskMoves
  <2> QED
    BY <2>1, <2>2, <2>3
<1>8. ~\E g \in Generators : GenPreview(g) \/ GenDies(g)
  BY DEF GenPreview, GenDies
<1> QED
  BY <1>1, <1>2, <1>3, <1>4, <1>5, <1>6, <1>7, <1>8 DEF IntakeNext, GenStep

\* A generator that is alone is not disturbed by the others' steps.
LEMMA CountedKept == IntakeInv /\ IntakeNext => \A g \in Generators : HasCounted(g)'
<1> SUFFICES ASSUME IntakeInv, IntakeNext, NEW g \in Generators, gen'[g].alone PROVE HasCounted(g)'
  BY DEF HasCounted
<1> USE IntakeAssumption DEF IntakeInv, Ids
<1>1. HasCounted(g) /\ \A i \in Ids : intake[i].stage \in {"none", "pending", "claimed", "completed"}
  BY DEF IntakeTypeOK
<1>2. CASE CommitComes
  BY <1>1, <1>2 DEF CommitComes, HasCounted, Numbering, GenAt
<1>3. ASSUME NEW h \in Generators, NumberLook(h) PROVE HasCounted(g)'
  <2>1. h = g
    BY <1>3, GenLooks
  <2> DEFINE n == gen[g].looked + 1
             t == MaxOf({gen[g].top} \union {i \in Ids : intake[i].stage = ListedStages[n]})
  <2>2. /\ n \in 1..3 /\ t \in 0..MaxIds /\ gen[g].top <= t
        /\ \A i \in Ids : intake[i].stage = ListedStages[n] => i <= t
    BY <1>3, <2>1, LookOK DEF NumberLook
  <2>3. /\ gen'[g].looked = n /\ gen'[g].top = t /\ gen'[g].at = "number"
        /\ gen'[g].alone = IF n = 1 THEN NobodyElse(g) ELSE gen[g].alone
    BY <1>3, <2>1, GenLooks
  <2>4. /\ gen'[g].looked = n /\ gen'[g].top = t /\ gen'[g].at = "number"
        /\ n = 1 => NobodyElse(g)
        /\ n # 1 => gen[g].alone
    BY <2>3
  <2> HIDE DEF t
  <2>5. \A k \in Generators \ {g} : ~Numbering(k)
    BY <1>1, <2>4 DEF HasCounted, NobodyElse
  <2>6. \A k \in Generators \ {g} : gen'[k].at = gen[k].at /\ gen'[k].looked = gen[k].looked
    BY <1>3, <2>1, GenLooks
  <2>7. \A k \in Generators \ {g} : ~Numbering(k)'
    BY <2>5, <2>6 DEF Numbering, GenAt
  <2>8. gen[g].looked \in 0..3 /\ gen[g].top \in 0..MaxIds
    BY DEF IntakeTypeOK
  <2>9. \A i \in Ids, m \in 1..n : intake[i].stage = ListedStages[m] => i <= t
    <3> SUFFICES ASSUME NEW i \in Ids, NEW m \in 1..n, intake[i].stage = ListedStages[m] PROVE i <= t
      OBVIOUS
    <3>1. CASE m = n
      BY <2>2, <3>1
    <3>2. CASE m # n
      <4>1. n # 1 /\ m \in 1..gen[g].looked
        BY <2>2, <2>4, <2>8, <3>2
      <4>2. i <= gen[g].top
        BY <1>1, <2>4, <4>1 DEF HasCounted
      <4> QED
        BY <4>2, <2>2, <2>8
    <3> QED
      BY <3>1, <3>2
  <2>10. UNCHANGED intake
    BY <1>3 DEF NumberLook
  <2> QED
    BY <2>2, <2>4, <2>7, <2>9, <2>10 DEF HasCounted
<1>4. ASSUME NEW h \in Generators,
             GenScan(h) \/ GenSave(h) \/ GenDedup(h) \/ GenPreview(h) \/ CreateTask(h) \/ GenDies(h)
      PROVE  HasCounted(g)'
  <2>1. h # g
    <3> SUFFICES ASSUME h = g PROVE FALSE
      OBVIOUS
    <3>1. gen[g].alone => gen[g].at = "number"
      BY <1>1 DEF HasCounted
    <3>2. GenScan(g) \/ GenPreview(g) \/ CreateTask(g) \/ GenDies(g) => gen'[g].alone = FALSE
      BY GenMoves DEF GenPreview, CreateTask, GenDies
    <3>3. GenSave(g) \/ GenDedup(g) =>
            /\ gen'[g].alone = FALSE \/ gen'[g].alone = gen[g].alone
            /\ gen[g].at # "number"
      <4>1. GenSave(g) => gen[g].at = "save" /\ GenIs(g, [gen[g] EXCEPT !.at = "dedup"])
        BY DEF GenSave, GenAt
      <4>2. GenDedup(g) => /\ gen[g].at = "dedup"
                           /\ GenIs(g, [gen[g] EXCEPT !.at = "number"]) \/ GenRests(g)
        BY DEF GenDedup, GenAt
      <4> QED
        BY <4>1, <4>2, GenMoves
    <3> QED
      BY <1>4, <3>1, <3>2, <3>3
  <2>2. gen'[g] = gen[g] /\ \A k \in Generators : k # h => gen'[k] = gen[k]
    BY <1>4, <2>1, GenMoves DEF GenSave, GenDedup, GenPreview, CreateTask, GenDies
  <2>3. ~Numbering(h) /\ \A k \in Generators \ {g} : ~Numbering(k)
    BY <1>1, <2>1, <2>2 DEF HasCounted
  <2>4. ~CreateTask(h)
    BY <2>3 DEF CreateTask, Numbering
  <2>5. UNCHANGED intake
    BY <1>4, <2>4 DEF GenScan, GenSave, GenDedup, GenPreview, GenDies
  <2>6. ~Numbering(h)'
    <3>1. GenScan(h) \/ GenPreview(h) \/ GenDies(h) => gen'[h].at # "number"
      BY GenMoves DEF GenPreview, GenDies
    <3>2. GenSave(h) \/ GenDedup(h) => gen'[h].looked = 0
      <4>1. GenSave(h) => gen[h].at = "save" /\ GenIs(h, [gen[h] EXCEPT !.at = "dedup"])
        BY DEF GenSave, GenAt
      <4>2. GenDedup(h) => /\ gen[h].at = "dedup"
                           /\ GenIs(h, [gen[h] EXCEPT !.at = "number"]) \/ GenRests(h)
        BY DEF GenDedup, GenAt
      <4>3. gen[h].at # "number" => gen[h].looked = 0
        BY DEF NotYet
      <4> QED
        <5>1. GenRests(h) => gen'[h].looked = 0
          BY GenMoves
        <5>2. GenIs(h, [gen[h] EXCEPT !.at = "dedup"]) \/ GenIs(h, [gen[h] EXCEPT !.at = "number"])
                => gen'[h].looked = gen[h].looked
          BY GenMoves
        <5> QED
          BY <4>1, <4>2, <4>3, <5>1, <5>2
    <3> QED
      BY <1>4, <2>4, <3>1, <3>2 DEF Numbering, GenAt
  <2>7. \A k \in Generators \ {g} : ~Numbering(k)'
    BY <2>2, <2>3, <2>6 DEF Numbering, GenAt
  <2> QED
    BY <1>1, <2>2, <2>5, <2>7 DEF HasCounted
<1>5. ASSUME NEW i \in Ids, TaskMoves(i, "claimed", "pending") PROVE HasCounted(g)'
  BY <1>5 DEF TaskMoves, IntakeTypeOK
<1>6. ASSUME NEW j \in Ids, TaskMoves(j, "pending", "claimed") \/ TaskMoves(j, "claimed", "completed")
      PROVE  HasCounted(g)'
  <2>1. UNCHANGED gen
    BY <1>6 DEF TaskMoves
  <2>2. PICK n \in 1..2 : /\ intake[j].stage = ListedStages[n]
                          /\ intake' = [intake EXCEPT ![j].stage = ListedStages[n + 1]]
    <3>1. CASE TaskMoves(j, "pending", "claimed")
      <4>1. ListedStages[1] = "pending" /\ ListedStages[1 + 1] = "claimed" /\ 1 \in 1..2
        BY DEF ListedStages
      <4>2. intake[j].stage = ListedStages[1] /\ intake' = [intake EXCEPT ![j].stage = ListedStages[1 + 1]]
        BY <3>1, <4>1 DEF TaskMoves
      <4> QED
        BY <4>1, <4>2
    <3>2. CASE TaskMoves(j, "claimed", "completed")
      <4>1. ListedStages[2] = "claimed" /\ ListedStages[2 + 1] = "completed" /\ 2 \in 1..2
        BY DEF ListedStages
      <4>2. intake[j].stage = ListedStages[2] /\ intake' = [intake EXCEPT ![j].stage = ListedStages[2 + 1]]
        BY <3>2, <4>1 DEF TaskMoves
      <4> QED
        BY <4>1, <4>2
    <3> QED
      BY <1>6, <3>1, <3>2
  <2>3. \A m \in 1..3 : ListedStages[m] = ListedStages[n + 1] => m = n + 1
    BY DEF ListedStages
  <2>4. gen[g].looked \in 1..3 /\ \A k \in Generators \ {g} : ~Numbering(k)
    BY <1>1, <2>1 DEF HasCounted
  <2>5. ASSUME NEW i \in Ids, NEW m \in 1..gen[g].looked, intake'[i].stage = ListedStages[m]
        PROVE  i <= gen[g].top
    <3>1. CASE i = j
      <4>1. intake'[j].stage = ListedStages[n + 1]
        BY <2>2 DEF IntakeTypeOK
      <4>2. m = n + 1
        BY <2>3, <2>4, <2>5, <3>1, <4>1
      <4>3. n \in 1..gen[g].looked
        BY <2>4, <4>2
      <4> QED
        BY <1>1, <2>1, <2>2, <3>1, <4>3 DEF HasCounted
    <3>2. CASE i # j
      <4>1. intake'[i] = intake[i]
        BY <2>2, <3>2 DEF IntakeTypeOK
      <4> QED
        BY <1>1, <2>1, <2>5, <4>1 DEF HasCounted
    <3> QED
      BY <3>1, <3>2
  <2> QED
    BY <1>1, <2>1, <2>4, <2>5 DEF HasCounted, Numbering, GenAt
<1> QED
  BY <1>2, <1>3, <1>4, <1>5, <1>6 DEF IntakeNext, GenStep

LEMMA IntakeKept == IntakeInv /\ [IntakeNext]_intakeVars => IntakeInv'
<1>1. IntakeInv /\ UNCHANGED intakeVars => IntakeInv'
  BY DEF IntakeInv, intakeVars, IntakeTypeOK, SeenIsProposed, HasCounted, NotYet, Numbering, GenAt
<1> QED
  BY <1>1, IntakeTypesKept, SeenKept, CountedKept, NotYetKept DEF IntakeInv

LEMMA NumberIsFree ==
  ASSUME IntakeInv, NEW i \in Ids, NEW g \in Generators, CreateTask(g), gen[g].alone, intake'[i] # intake[i]
  PROVE  intake[i].stage = "none"
<1> USE IntakeAssumption DEF IntakeInv, Ids
<1>1. i = gen[g].top + 1
  BY DEF CreateTask, IntakeTypeOK
<1>2. gen[g].looked = 3 /\ gen[g].top \in 0..MaxIds
  BY DEF CreateTask, IntakeTypeOK
<1>3. \A n \in 1..3 : intake[i].stage # ListedStages[n]
  BY <1>1, <1>2 DEF HasCounted
<1>4. ListedStages[1] = "pending" /\ ListedStages[2] = "claimed" /\ ListedStages[3] = "completed"
  BY DEF ListedStages
<1>5. intake[i].stage \in {"none", "pending", "claimed", "completed"}
  BY DEF IntakeTypeOK
<1> QED
  BY <1>3, <1>4, <1>5

-----------------------------------------------------------------------------
\* Overlapping passes.  Each pass that has counted has seats left: what the
\* cap leaves above the tasks claimed when it counted.  The claimed tasks and
\* the seats that are left together are never more than all the seats.
Seats == Passes \X (1..MaxConcurrent)
MayClaim(d, n) ==
  \/ autoPass[d].at = "counted" /\ n > autoPass[d].active
  \/ autoPass[d].at = "dispatch" /\ n > autoPass[d].active + 1
Room == {x \in Seats : MayClaim(x[1], x[2])}

PassRecords ==
  [at : {"rest", "urgent", "interrupt", "counted", "dispatch"},
   todo : SUBSET AutoTasks, victims : SUBSET AutoTasks, active : 0..MaxConcurrent,
   task : AutoTasks \union {NoTask}, host : AutoHosts,
   failures : [AutoHosts -> 0..FailureLimit]]
PassBounded(d) ==
  /\ autoPass[d].at \in {"counted", "dispatch"} => autoPass[d].active < MaxConcurrent
  /\ autoPass[d].at = "dispatch" =>
       autoPass[d].failures[autoPass[d].host] < FailureLimit /\ autoPass[d].task \in AutoTasks

AutoInv ==
  /\ AutoTypeOK
  /\ \A d \in Passes : PassBounded(d)
  /\ Cardinality(AutoIn("claimed")) + Cardinality(Room) <= Cardinality(Seats)

LEMMA AutoFinite ==
  /\ IsFiniteSet(Seats) /\ Cardinality(Seats) = MaxConcurrent * Cardinality(Passes)
  /\ Cardinality(Seats) \in Nat
  /\ \A S \in SUBSET AutoTasks : IsFiniteSet(S) /\ Cardinality(S) \in Nat
  /\ \A S \in SUBSET Seats : IsFiniteSet(S) /\ Cardinality(S) \in Nat
  /\ AutoIn("claimed") \in SUBSET AutoTasks /\ Room \in SUBSET Seats
<1>1. MaxConcurrent \in Nat /\ IsFiniteSet(1..MaxConcurrent) /\ Cardinality(1..MaxConcurrent) = MaxConcurrent
  <2>1. MaxConcurrent \in Nat \ {0}
    BY AutoAssumption
  <2> QED
    BY <2>1, FS_Interval
<1>2. IsFiniteSet(Passes) /\ Cardinality(Passes) \in Nat
  BY AutoAssumption, FS_CardinalityType
<1>3. IsFiniteSet(Seats) /\ Cardinality(Seats) = Cardinality(Passes) * MaxConcurrent
  BY <1>1, <1>2, FS_Product DEF Seats
<1>4. Cardinality(Seats) = MaxConcurrent * Cardinality(Passes)
  BY <1>1, <1>2, <1>3
<1>5. Cardinality(Seats) \in Nat
  BY <1>3, FS_CardinalityType
<1>6. \A S \in SUBSET AutoTasks : IsFiniteSet(S) /\ Cardinality(S) \in Nat
  BY AutoAssumption, FS_Subset, FS_CardinalityType
<1>7. \A S \in SUBSET Seats : IsFiniteSet(S) /\ Cardinality(S) \in Nat
  BY <1>3, FS_Subset, FS_CardinalityType
<1> QED
  BY <1>3, <1>4, <1>5, <1>6, <1>7 DEF AutoIn, Room

LEMMA NoPassOK == NoPass \in PassRecords /\ NoPass.at = "rest"
<1>1. (CHOOSE h \in AutoHosts : TRUE) \in AutoHosts
  BY AutoAssumption
<1>2. [h \in AutoHosts |-> 0] \in [AutoHosts -> 0..FailureLimit]
  BY AutoAssumption
<1> QED
  BY <1>1, <1>2, AutoAssumption DEF NoPass, PassRecords

LEMMA AutoStarts == AutoInit => AutoInv
<1> SUFFICES ASSUME AutoInit PROVE AutoInv
  OBVIOUS
<1>1. AutoTypeOK
  BY NoPassOK, AutoAssumption DEF AutoInit, AutoTypeOK, PassRecords
<1>2. \A d \in Passes : autoPass[d].at = "rest"
  BY NoPassOK DEF AutoInit
<1>3. AutoIn("claimed") = {} /\ Room = {}
  BY <1>2 DEF AutoInit, AutoIn, Room, MayClaim, Seats
<1> QED
  BY <1>1, <1>2, <1>3, FS_EmptySet, AutoFinite DEF AutoInv, PassBounded

\* A step that neither claims a task nor gives a pass more room.
LEMMA NoMore ==
  ASSUME AutoInv, AutoIn("claimed")' \subseteq AutoIn("claimed"), Room' \subseteq Room
  PROVE  Cardinality(AutoIn("claimed")') + Cardinality(Room') <= Cardinality(Seats)
<1> PICK C : C = AutoIn("claimed")'
  OBVIOUS
<1> PICK R : R = Room'
  OBVIOUS
<1>1. Cardinality(C) \in Nat /\ Cardinality(C) <= Cardinality(AutoIn("claimed"))
  BY AutoFinite, FS_Subset
<1>2. Cardinality(R) \in Nat /\ Cardinality(R) <= Cardinality(Room)
  BY AutoFinite, FS_Subset
<1>3. Cardinality(C) + Cardinality(R) <= Cardinality(Seats)
  BY <1>1, <1>2, AutoFinite DEF AutoInv
<1> QED
  BY <1>3

LEMMA AutoTypesKept == AutoInv /\ AutoNext => AutoTypeOK' /\ \A d \in Passes : PassBounded(d)'
<1> SUFFICES ASSUME AutoInv, AutoNext PROVE AutoTypeOK' /\ \A d \in Passes : PassBounded(d)'
  OBVIOUS
<1> USE AutoAssumption DEF AutoInv, AutoIn
<1>1. autoPass \in [Passes -> PassRecords]
  BY DEF AutoTypeOK, PassRecords
<1>2. ASSUME NEW d \in Passes, NEW r \in PassRecords, PassIs(d, r),
             r.at \in {"counted", "dispatch"} => r.active < MaxConcurrent,
             r.at = "dispatch" => r.failures[r.host] < FailureLimit /\ r.task \in AutoTasks
      PROVE  autoPass' \in [Passes -> PassRecords] /\ \A c \in Passes : PassBounded(c)'
  BY <1>1, <1>2 DEF PassIs, PassBounded
<1>3. ASSUME NEW d \in Passes, PassEnds(d)
      PROVE  autoPass' \in [Passes -> PassRecords] /\ \A c \in Passes : PassBounded(c)'
  BY <1>2, <1>3, NoPassOK DEF PassEnds
<1>4. ASSUME NEW d \in Passes, PassStart(d)
      PROVE  autoPass' \in [Passes -> PassRecords] /\ \A c \in Passes : PassBounded(c)'
  <2>1. PICK m \in {"haiku_only", "full"}, at \in {"urgent", "interrupt"} :
           PassIs(d, [NoPass EXCEPT !.at = at, !.todo = AutoIn("pending") \intersect AutoAllowed(m)])
    BY <1>4 DEF PassStart
  <2> DEFINE r == [NoPass EXCEPT !.at = at, !.todo = AutoIn("pending") \intersect AutoAllowed(m)]
  <2>2. r \in PassRecords /\ r.at = at
    BY NoPassOK DEF PassRecords
  <2> HIDE DEF r
  <2> QED
    BY <1>2, <2>1, <2>2 DEF r
<1>5. ASSUME NEW d \in Passes, PassInterrupts(d) \/ (\E t \in AutoTasks : PassPreempts(d, t))
      PROVE  autoPass' \in [Passes -> PassRecords] /\ \A c \in Passes : PassBounded(c)'
  <2>1. PICK v \in SUBSET AutoTasks : PassIs(d, [autoPass[d] EXCEPT !.at = "interrupt", !.victims = v])
    <3>1. ASSUME PassInterrupts(d)
          PROVE  \E v \in SUBSET AutoTasks : PassIs(d, [autoPass[d] EXCEPT !.at = "interrupt", !.victims = v])
      BY <3>1 DEF PassInterrupts
    <3>2. ASSUME NEW t \in AutoTasks, PassPreempts(d, t)
          PROVE  \E v \in SUBSET AutoTasks : PassIs(d, [autoPass[d] EXCEPT !.at = "interrupt", !.victims = v])
      <4> DEFINE v == autoPass[d].victims \ {t}
      <4>1. [autoPass[d] EXCEPT !.victims = @ \ {t}] = [autoPass[d] EXCEPT !.at = "interrupt", !.victims = v]
        BY <1>1, <3>2 DEF PassPreempts, PassRecords
      <4>2. v \in SUBSET AutoTasks
        BY <1>1 DEF PassRecords
      <4> QED
        BY <3>2, <4>1, <4>2 DEF PassPreempts
    <3> QED
      BY <1>5, <3>1, <3>2
  <2> DEFINE r == [autoPass[d] EXCEPT !.at = "interrupt", !.victims = v]
  <2>2. r \in PassRecords /\ r.at = "interrupt"
    BY <1>1 DEF PassRecords
  <2> HIDE DEF r
  <2> QED
    BY <1>2, <2>1, <2>2 DEF r
<1>6. ASSUME NEW d \in Passes, PassCounts(d)
      PROVE  autoPass' \in [Passes -> PassRecords] /\ \A c \in Passes : PassBounded(c)'
  <2> DEFINE active == Cardinality(AutoIn("claimed"))
             r == [autoPass[d] EXCEPT !.at = "counted", !.active = active]
  <2>1. active \in Nat
    BY AutoFinite
  <2> HIDE DEF active
  <2>2. active < MaxConcurrent => r \in PassRecords /\ r.at = "counted" /\ r.active = active
    <3>1. active < MaxConcurrent => active \in 0..MaxConcurrent
      BY <2>1
    <3>2. autoPass[d] \in PassRecords
      BY <1>1
    <3>3. \A n \in 0..MaxConcurrent :
            LET q == [autoPass[d] EXCEPT !.at = "counted", !.active = n]
            IN  q \in PassRecords /\ q.at = "counted" /\ q.active = n
      BY <3>2 DEF PassRecords
    <3> QED
      BY <3>1, <3>3
  <2>3. PassEnds(d) \/ (active < MaxConcurrent /\ PassIs(d, r))
    BY <1>6, <2>1 DEF PassCounts, active
  <2> HIDE DEF r
  <2> QED
    BY <1>2, <1>3, <2>2, <2>3
<1>7. ASSUME NEW d \in Passes, NEW t \in AutoTasks, PassSkips(d, t)
      PROVE  autoPass' \in [Passes -> PassRecords] /\ \A c \in Passes : PassBounded(c)'
  <2> DEFINE r == [autoPass[d] EXCEPT !.todo = @ \ {t}]
  <2>1. r \in PassRecords /\ r.at = "counted" /\ r.active < MaxConcurrent
    BY <1>1, <1>7 DEF PassRecords, PassSkips
  <2> HIDE DEF r
  <2> QED
    BY <1>2, <1>7, <2>1 DEF r, PassSkips
<1>8. ASSUME NEW d \in Passes, NEW t \in AutoTasks, PassClaims(d, t)
      PROVE  autoPass' \in [Passes -> PassRecords] /\ \A c \in Passes : PassBounded(c)'
  <2>1. PICK h \in AutoHosts :
          /\ autoPass[d].failures[h] < FailureLimit
          /\ PassIs(d, [autoPass[d] EXCEPT !.at = "dispatch", !.todo = @ \ {t}, !.task = t, !.host = h])
    BY <1>8 DEF PassClaims
  <2> DEFINE r == [autoPass[d] EXCEPT !.at = "dispatch", !.todo = @ \ {t}, !.task = t, !.host = h]
  <2>2. /\ r \in PassRecords /\ r.at = "dispatch" /\ r.host = h /\ r.task = t
        /\ r.failures = autoPass[d].failures /\ r.active = autoPass[d].active
    BY <1>1 DEF PassRecords
  <2>3. autoPass[d].active < MaxConcurrent
    BY <1>8 DEF PassClaims
  <2> HIDE DEF r
  <2> QED
    BY <1>2, <2>1, <2>2, <2>3 DEF r
<1>9. ASSUME NEW d \in Passes, PassDispatches(d)
      PROVE  autoPass' \in [Passes -> PassRecords] /\ \A c \in Passes : PassBounded(c)'
  <2> DEFINE h == autoPass[d].host
             r(n) == [autoPass[d] EXCEPT !.at = "counted", !.task = NoTask, !.active = @ + 1, !.failures[h] = n]
  <2>1. PassEnds(d) \/ \E n \in {0, autoPass[d].failures[h] + 1} :
                         ~(autoPass[d].active + 1 >= MaxConcurrent) /\ PassIs(d, r(n))
    BY <1>9 DEF PassDispatches
  <2>2. /\ h \in AutoHosts /\ autoPass[d].failures[h] \in 0..FailureLimit
        /\ autoPass[d].failures[h] < FailureLimit /\ autoPass[d].active \in 0..MaxConcurrent
    BY <1>1, <1>9 DEF PassRecords, PassDispatches, PassBounded
  <2>3. ASSUME NEW n \in 0..FailureLimit, ~(autoPass[d].active + 1 >= MaxConcurrent), PassIs(d, r(n))
        PROVE  autoPass' \in [Passes -> PassRecords] /\ \A c \in Passes : PassBounded(c)'
    <3>1. autoPass[d].active + 1 \in 0..MaxConcurrent /\ autoPass[d].active + 1 < MaxConcurrent
      BY <2>2, <2>3
    <3>2. [autoPass[d].failures EXCEPT ![h] = n] \in [AutoHosts -> 0..FailureLimit]
      BY <1>1, <2>2 DEF PassRecords
    <3>3. r(n) = [autoPass[d] EXCEPT !.at = "counted", !.task = NoTask, !.active = autoPass[d].active + 1,
                                   !.failures = [autoPass[d].failures EXCEPT ![h] = n]]
      BY <1>1 DEF PassRecords
    <3>4. r(n) \in PassRecords /\ r(n).at = "counted" /\ r(n).active = autoPass[d].active + 1
      <4>1. autoPass[d] \in PassRecords
        BY <1>1
      <4>2. \A a \in 0..MaxConcurrent, f \in [AutoHosts -> 0..FailureLimit] : \A q :
              q = [autoPass[d] EXCEPT !.at = "counted", !.task = NoTask, !.active = a, !.failures = f]
                => q \in PassRecords /\ q.at = "counted" /\ q.active = a
        BY <4>1 DEF PassRecords
      <4> QED
        <5> DEFINE a == autoPass[d].active + 1  f == [autoPass[d].failures EXCEPT ![h] = n]
        <5>1. a \in 0..MaxConcurrent /\ f \in [AutoHosts -> 0..FailureLimit]
          BY <3>1, <3>2
        <5>2. r(n) = [autoPass[d] EXCEPT !.at = "counted", !.task = NoTask, !.active = a, !.failures = f]
          BY <3>3
        <5> HIDE DEF a, f, r
        <5>3. r(n) \in PassRecords /\ r(n).at = "counted" /\ r(n).active = a
          BY <4>2, <5>1, <5>2
        <5> QED
          BY <5>3 DEF a
    <3> HIDE DEF r
    <3> QED
      BY <1>2, <2>3, <3>1, <3>4
  <2>4. 0 \in 0..FailureLimit /\ autoPass[d].failures[h] + 1 \in 0..FailureLimit
    BY <2>2
  <2> QED
    BY <1>3, <2>1, <2>3, <2>4
<1>10. ASSUME NEW d \in Passes, PassStops(d)
       PROVE  autoPass' \in [Passes -> PassRecords] /\ \A c \in Passes : PassBounded(c)'
  BY <1>3, <1>10 DEF PassStops
<1>11. ASSUME NEW t \in AutoTasks, AgentEnds(t) \/ DeadlineRequeues(t)
       PROVE  autoPass' \in [Passes -> PassRecords] /\ \A c \in Passes : PassBounded(c)'
  BY <1>1, <1>11 DEF AgentEnds, DeadlineRequeues, PassBounded
<1>12. autoPass' \in [Passes -> PassRecords] /\ \A c \in Passes : PassBounded(c)'
  BY <1>4, <1>5, <1>6, <1>7, <1>8, <1>9, <1>10, <1>11 DEF AutoNext
<1>13. /\ autoTask' \in [AutoTasks -> {"pending", "claimed", "completed", "preempted"}]
       /\ autoRetries' \in [AutoTasks -> 0..MaxAutoRetries] /\ autoAgent' \subseteq AutoTasks
  <2> USE DEF AutoTypeOK
  <2>1. ASSUME NEW d \in Passes, NEW t \in AutoTasks, PassPreempts(d, t) \/ PassSkips(d, t) \/ PassClaims(d, t)
        PROVE  /\ autoTask' \in [AutoTasks -> {"pending", "claimed", "completed", "preempted"}]
               /\ UNCHANGED <<autoRetries, autoAgent>>
    <3>1. CASE PassPreempts(d, t)
      BY <3>1 DEF PassPreempts
    <3>2. CASE PassSkips(d, t)
      BY <3>2 DEF PassSkips
    <3>3. CASE PassClaims(d, t)
      BY <3>3 DEF PassClaims
    <3> QED
      BY <2>1, <3>1, <3>2, <3>3
  <2>2. ASSUME NEW d \in Passes, PassDispatches(d)
        PROVE  autoAgent' \subseteq AutoTasks /\ UNCHANGED <<autoTask, autoRetries>>
    <3>1. autoPass[d].task \in AutoTasks
      BY <2>2 DEF PassDispatches, PassBounded
    <3> QED
      BY <2>2, <3>1 DEF PassDispatches
  <2>3. ASSUME NEW t \in AutoTasks, AgentEnds(t) \/ DeadlineRequeues(t)
        PROVE  /\ autoTask' \in [AutoTasks -> {"pending", "claimed", "completed", "preempted"}]
               /\ autoRetries' \in [AutoTasks -> 0..MaxAutoRetries] /\ autoAgent' \subseteq AutoTasks
    BY <2>3 DEF AgentEnds, DeadlineRequeues
  <2> QED
    BY <2>1, <2>2, <2>3 DEF AutoNext, PassStart, PassInterrupts, PassCounts, PassStops
<1> QED
  BY <1>12, <1>13 DEF AutoTypeOK, PassRecords

\* What a step of one pass does to the room of all.
LEMMA RoomOfOne ==
  ASSUME AutoInv, NEW d \in Passes, \A c \in Passes \ {d} : autoPass'[c] = autoPass[c],
         NEW x \in Room'
  PROVE  x \in Seats /\ (x \in Room \/ x[1] = d)
BY DEF Room, Seats, MayClaim

LEMMA CapKept ==
  AutoInv /\ AutoNext => Cardinality(AutoIn("claimed")') + Cardinality(Room') <= Cardinality(Seats)
<1> SUFFICES ASSUME AutoInv, AutoNext
             PROVE  Cardinality(AutoIn("claimed")') + Cardinality(Room') <= Cardinality(Seats)
  OBVIOUS
<1> USE AutoAssumption
<1>1. autoPass \in [Passes -> PassRecords]
      /\ autoTask \in [AutoTasks -> {"pending", "claimed", "completed", "preempted"}]
  BY DEF AutoInv, AutoTypeOK, PassRecords
\* A pass that rests, or looks at the tasks again, has no room.
<1>2. ASSUME NEW d \in Passes, NEW r, PassIs(d, r), r.at \notin {"counted", "dispatch"}
      PROVE  Room' \subseteq Room
  BY <1>1, <1>2 DEF PassIs, Room, Seats, MayClaim
<1>3. ASSUME NEW d \in Passes, PassEnds(d) PROVE Room' \subseteq Room
  <2>1. NoPass.at \notin {"counted", "dispatch"}
    BY NoPassOK
  <2> QED
    BY <1>2, <1>3, <2>1 DEF PassEnds
<1>4. ASSUME NEW d \in Passes, PassStart(d) PROVE Room' \subseteq Room
  <2>1. PICK m \in {"haiku_only", "full"}, at \in {"urgent", "interrupt"} :
           PassIs(d, [NoPass EXCEPT !.at = at, !.todo = AutoIn("pending") \intersect AutoAllowed(m)])
    BY <1>4 DEF PassStart
  <2>2. [NoPass EXCEPT !.at = at, !.todo = AutoIn("pending") \intersect AutoAllowed(m)].at = at
    BY NoPassOK DEF PassRecords
  <2> QED
    BY <1>2, <2>1, <2>2
<1>5. ASSUME NEW d \in Passes, PassInterrupts(d) PROVE Room' \subseteq Room
  <2>1. [autoPass[d] EXCEPT !.at = "interrupt",
           !.victims = {t \in AutoIn("claimed") : TierOf[t] >= 2}].at = "interrupt"
    BY <1>1 DEF PassRecords
  <2> QED
    BY <1>2, <1>5, <2>1 DEF PassInterrupts
<1>6. ASSUME NEW d \in Passes, NEW t \in AutoTasks, PassPreempts(d, t)
      PROVE  Room' \subseteq Room /\ AutoIn("claimed")' \subseteq AutoIn("claimed")
  <2>1. [autoPass[d] EXCEPT !.victims = @ \ {t}].at = "interrupt"
    BY <1>1, <1>6 DEF PassPreempts, PassRecords
  <2>2. Room' \subseteq Room
    BY <1>2, <1>6, <2>1 DEF PassPreempts
  <2>3. AutoIn("claimed")' \subseteq AutoIn("claimed")
    BY <1>1, <1>6 DEF PassPreempts, AutoIn
  <2> QED
    BY <2>2, <2>3
\* A pass that skips a task, or has dispatched one, has the room it had.
<1>7. ASSUME NEW d \in Passes, NEW r, PassIs(d, r), r.at = "counted", r.active \in Nat,
             \/ autoPass[d].at = "counted" /\ r.active = autoPass[d].active
             \/ autoPass[d].at = "dispatch" /\ r.active = autoPass[d].active + 1
      PROVE  Room' \subseteq Room
  BY <1>1, <1>7 DEF PassIs, Room, Seats, MayClaim
<1>8. ASSUME NEW d \in Passes, NEW t \in AutoTasks, PassSkips(d, t) PROVE Room' \subseteq Room
  <2> DEFINE r == [autoPass[d] EXCEPT !.todo = @ \ {t}]
  <2>1. r.at = "counted" /\ r.active = autoPass[d].active /\ r.active \in Nat /\ autoPass[d].at = "counted"
    BY <1>1, <1>8 DEF PassSkips, PassRecords
  <2>2. PassIs(d, r)
    BY <1>8 DEF PassSkips
  <2> HIDE DEF r
  <2> QED
    BY <1>7, <2>1, <2>2
<1>9. ASSUME NEW d \in Passes, PassDispatches(d) PROVE Room' \subseteq Room
  <2> DEFINE h == autoPass[d].host
             r(n) == [autoPass[d] EXCEPT !.at = "counted", !.task = NoTask, !.active = @ + 1, !.failures[h] = n]
  <2>1. PassEnds(d) \/ \E n \in {0, autoPass[d].failures[h] + 1} : PassIs(d, r(n))
    BY <1>9 DEF PassDispatches
  <2>2. ASSUME NEW n, PassIs(d, r(n)) PROVE Room' \subseteq Room
    <3>1. r(n).at = "counted" /\ r(n).active = autoPass[d].active + 1 /\ r(n).active \in Nat
      BY <1>1 DEF PassRecords
    <3>2. autoPass[d].at = "dispatch"
      BY <1>9 DEF PassDispatches
    <3> HIDE DEF r
    <3> QED
      BY <1>7, <2>2, <3>1, <3>2
  <2> HIDE DEF r
  <2> QED
    BY <1>3, <2>1, <2>2
\* A claim takes a task and a seat.
<1>10. ASSUME NEW d \in Passes, NEW t \in AutoTasks, PassClaims(d, t)
       PROVE  Cardinality(AutoIn("claimed")') + Cardinality(Room') <= Cardinality(Seats)
  <2>1. PICK h \in AutoHosts :
          PassIs(d, [autoPass[d] EXCEPT !.at = "dispatch", !.todo = @ \ {t}, !.task = t, !.host = h])
    BY <1>10 DEF PassClaims
  <2> DEFINE r == [autoPass[d] EXCEPT !.at = "dispatch", !.todo = @ \ {t}, !.task = t, !.host = h]
             seat == <<d, autoPass[d].active + 1>>
  <2>2. r.at = "dispatch" /\ r.active = autoPass[d].active /\ PassIs(d, r)
    BY <1>1, <2>1 DEF PassRecords
  <2>3. autoPass[d].at = "counted" /\ autoPass[d].active \in 0..(MaxConcurrent - 1)
    BY <1>1, <1>10 DEF PassClaims, PassRecords
  <2> HIDE DEF r
  <2>4. seat \in Room /\ Room' \subseteq Room \ {seat}
    <3>1. autoPass[d].active + 1 \in 1..MaxConcurrent
      BY <2>3
    <3>2. seat \in Room
      BY <2>3, <3>1 DEF Room, Seats, MayClaim
    <3>3. seat \notin Room'
      BY <1>1, <2>2, <2>3 DEF Room, MayClaim, PassIs
    <3>4. Room' \subseteq Room
      BY <1>1, <2>2, <2>3 DEF Room, Seats, MayClaim, PassIs
    <3> QED
      BY <3>2, <3>3, <3>4
  <2>5. AutoIn("claimed")' = AutoIn("claimed") \union {t} /\ t \notin AutoIn("claimed")
    BY <1>1, <1>10 DEF PassClaims, AutoIn
  <2> PICK C : C = AutoIn("claimed")'
    OBVIOUS
  <2> PICK R : R = Room'
    OBVIOUS
  <2>6. Cardinality(C) = Cardinality(AutoIn("claimed")) + 1
    BY <2>5, AutoFinite, FS_AddElement
  <2>7. IsFiniteSet(Room) /\ Cardinality(Room) \in Nat
    BY AutoFinite
  <2>8. IsFiniteSet(Room \ {seat}) /\ Cardinality(Room \ {seat}) = Cardinality(Room) - 1
    <3> HIDE DEF seat
    <3> QED
      BY <2>4, <2>7, FS_RemoveElement
  <2>9. Cardinality(R) \in Nat /\ Cardinality(R) <= Cardinality(Room \ {seat})
    <3> HIDE DEF seat
    <3>1. R \in SUBSET (Room \ {seat})
      BY <2>4
    <3> QED
      BY <2>8, <3>1, FS_Subset, FS_CardinalityType
  <2>10. Cardinality(C) + Cardinality(R) <= Cardinality(Seats)
    BY <2>6, <2>7, <2>8, <2>9, AutoFinite DEF AutoInv
  <2> QED
    BY <2>10
\* A pass that counts takes the seats that the claimed tasks leave of its own.
<1>11. ASSUME NEW d \in Passes, PassCounts(d)
       PROVE  Cardinality(AutoIn("claimed")') + Cardinality(Room') <= Cardinality(Seats)
  <2>1. AutoIn("claimed")' = AutoIn("claimed")
    BY <1>11 DEF PassCounts, AutoIn
  <2>2. CASE PassEnds(d)
    BY <1>3, <2>1, <2>2, NoMore
  <2>3. CASE ~PassEnds(d)
    <3> DEFINE active == Cardinality(AutoIn("claimed"))
               r == [autoPass[d] EXCEPT !.at = "counted", !.active = active]
               taken == {d} \X (1..active)
    <3>1. active \in Nat
      BY AutoFinite
    <3>2. active < MaxConcurrent /\ PassIs(d, r)
      BY <1>11, <2>3, <3>1 DEF PassCounts
    <3> HIDE DEF active
    <3>3. r.at = "counted" /\ r.active = active
      BY <1>1 DEF PassRecords
    <3> HIDE DEF r
    <3>4. taken \subseteq Seats
      BY <3>1, <3>2 DEF Seats
    <3>5. Room' \subseteq Seats \ taken
      BY <1>1, <3>1, <3>2, <3>3 DEF Room, Seats, MayClaim, PassIs
    <3>6. IsFiniteSet(taken) /\ Cardinality(taken) = active
      <4>1. IsFiniteSet({d}) /\ Cardinality({d}) = 1
        BY FS_Singleton
      <4>2. IsFiniteSet(1..active) /\ Cardinality(1..active) = active
        <5>1. active \in Int /\ 1 \in Int
          BY <3>1
        <5>2. IsFiniteSet(1..active) /\ Cardinality(1..active) = IF 1 > active THEN 0 ELSE active - 1 + 1
          BY <5>1, FS_Interval
        <5> QED
          BY <3>1, <5>2
      <4>3. Cardinality(taken) = 1 * active /\ IsFiniteSet(taken)
        BY <4>1, <4>2, FS_Product
      <4> QED
        BY <3>1, <4>3
    <3> HIDE DEF taken
    <3>7. IsFiniteSet(Seats \ taken) /\ Cardinality(Seats \ taken) = Cardinality(Seats) - active
      <4>1. Seats \intersect taken = taken
        BY <3>4
      <4> QED
        BY <3>6, <4>1, AutoFinite, FS_Difference
    <3> PICK R : R = Room'
      OBVIOUS
    <3>8. Cardinality(R) \in Nat /\ Cardinality(R) <= Cardinality(Seats \ taken)
      <4>1. R \in SUBSET (Seats \ taken)
        BY <3>5
      <4> QED
        BY <3>7, <4>1, FS_Subset, FS_CardinalityType
    <3>9. active + Cardinality(R) <= Cardinality(Seats)
      BY <3>1, <3>7, <3>8, AutoFinite
    <3>10. Cardinality(AutoIn("claimed")') = active
      BY <2>1 DEF active
    <3> QED
      BY <3>9, <3>10
  <2> QED
    BY <2>2, <2>3
<1>12. ASSUME NEW t \in AutoTasks, AgentEnds(t) \/ DeadlineRequeues(t)
       PROVE  Room' \subseteq Room /\ AutoIn("claimed")' \subseteq AutoIn("claimed")
  <2>1. UNCHANGED autoPass
    BY <1>12 DEF AgentEnds, DeadlineRequeues
  <2>2. AutoIn("claimed")' \subseteq AutoIn("claimed")
    BY <1>1, <1>12 DEF AgentEnds, DeadlineRequeues, AutoIn
  <2> QED
    BY <2>1, <2>2 DEF Room, MayClaim, Seats
<1>13. ASSUME NEW d \in Passes, PassStart(d) \/ PassInterrupts(d) \/ PassDispatches(d) \/ PassStops(d)
                               \/ \E t \in AutoTasks : PassSkips(d, t)
       PROVE  AutoIn("claimed")' \subseteq AutoIn("claimed")
  <2>1. UNCHANGED autoTask
    BY <1>13 DEF PassStart, PassInterrupts, PassDispatches, PassStops, PassSkips
  <2> QED
    BY <2>1 DEF AutoIn
<1>14. ASSUME NEW d \in Passes, PassStops(d) PROVE Room' \subseteq Room
  BY <1>3, <1>14 DEF PassStops
<1> QED
  BY <1>4, <1>5, <1>6, <1>8, <1>9, <1>10, <1>11, <1>12, <1>13, <1>14, NoMore DEF AutoNext

LEMMA AutoKept == AutoInv /\ [AutoNext]_autoVars => AutoInv'
<1>1. AutoInv /\ UNCHANGED autoVars => AutoInv'
  BY DEF AutoInv, autoVars, AutoTypeOK, PassBounded, AutoIn, Room, MayClaim, Seats
<1>2. AutoInv /\ AutoNext => AutoInv'
  <2>1. Cardinality(Seats)' = Cardinality(Seats)
    BY DEF Seats
  <2> QED
    BY <2>1, AutoTypesKept, CapKept DEF AutoInv
<1> QED
  BY <1>1, <1>2

LEMMA CapHolds == AutoInv => CapPerPass
<1> SUFFICES ASSUME AutoInv PROVE CapPerPass
  OBVIOUS
<1>1. Cardinality(Room) \in Nat /\ Cardinality(AutoIn("claimed")) \in Nat
  BY AutoFinite
<1>2. Cardinality(AutoIn("claimed")) <= Cardinality(Seats)
  BY <1>1, AutoFinite DEF AutoInv
<1> QED
  BY <1>2, AutoFinite DEF CapPerPass

-----------------------------------------------------------------------------
\* The health monitor.  What the memory knows of an alarm, or else the log, is
\* no older than the last action, and so is what the file knows as long as the
\* memory was saved; but not while an action still goes without a record.
Kept(p, a) ==
  \/ lastAction[p][a] <= lastAction["truth"][a]
  \/ lastAction["truth"][a] >= Cooldown
OnRecord(p, a) == IF lastAction[p][a] = Never THEN Kept("log", a) ELSE Kept(p, a)
Unrecorded(a) ==
  /\ monitor.alarm = a
  /\ monitor.at = "record" \/ (monitor.at = "log" /\ monitor.acted /\ a \in Blocked)

MonitorKnows ==
  /\ monitor.at \in {"act", "record", "log"} => monitor.alarm \in Alarms
  /\ monitor.at = "record" => monitor.alarm \notin Blocked
  /\ monitor.at = "crashed" /\ unsaved => Alarms \subseteq forgotten
  /\ \A a \in Blocked : lastAction["memory"][a] = Never /\ lastAction["file"][a] = Never
AlarmOnRecord(a) ==
  a \notin forgotten =>
    /\ ~Unrecorded(a) => OnRecord("memory", a) /\ (unsaved \/ OnRecord("file", a))
    /\ monitor.at = "act" /\ monitor.alarm = a => lastAction["truth"][a] >= Cooldown

HealthInv ==
  /\ HealthTypeOK /\ MonitorKnows
  /\ \A a \in Alarms : AlarmOnRecord(a)

MonitorRecords ==
  [at : {"rest", "cycle", "act", "record", "log", "crashed"}, waits : SUBSET Alarms,
   found : SUBSET Alarms, alarm : Alarms \union {"none"}, acted : BOOLEAN]
PoolEntries == [alarm : Alarms, fresh : BOOLEAN]
Ages == [Places -> [Alarms -> 0..Never]]

LEMMA HealthNumbers ==
  /\ Cooldown \in Nat /\ Cooldown > 0 /\ MissCount \in Nat /\ PoolSize \in Nat
  /\ MaxMonitorFaults \in Nat /\ MaxPool \in Nat /\ Never \in Nat /\ Never > Cooldown
BY HealthAssumption DEF Never

LEMMA IdleMonitor ==
  /\ MonitorIdle \in MonitorRecords
  /\ MonitorIdle.at = "rest" /\ MonitorIdle.alarm = "none" /\ MonitorIdle.acted = FALSE
<1>1. MonitorIdle \in MonitorRecords
  BY DEF MonitorIdle, MonitorRecords
<1>2. MonitorIdle.at = "rest" /\ MonitorIdle.alarm = "none" /\ MonitorIdle.acted = FALSE
  BY DEF MonitorIdle
<1> QED
  BY <1>1, <1>2

LEMMA HealthStarts == HealthInit => HealthInv
<1> SUFFICES ASSUME HealthInit PROVE HealthInv
  OBVIOUS
<1> USE HealthNumbers DEF HealthInit
<1>1. lastAction \in Ages /\ \A p \in Places, a \in Alarms : lastAction[p][a] = Never
  BY DEF Ages
<1>2. HealthTypeOK
  <2>1. pool \in Seq(PoolEntries) /\ Len(pool) = 0
    BY EmptySeq
  <2>2. monitor \in MonitorRecords
    BY IdleMonitor
  <2>3. faulty \subseteq Alarms /\ {shareHangs, promGone, unsaved} \subseteq BOOLEAN
        /\ forgotten \subseteq Alarms
    OBVIOUS
  <2>4. promMisses \in 0..MissCount /\ monitorFaults \in 0..MaxMonitorFaults
    OBVIOUS
  <2> QED
    BY <1>1, <2>1, <2>2, <2>3, <2>4 DEF HealthTypeOK, PoolEntries, MonitorRecords, Ages
<1>3. MonitorKnows
  BY <1>1, IdleMonitor, HealthAssumption DEF MonitorKnows, Places
<1>4. ASSUME NEW a \in Alarms PROVE AlarmOnRecord(a)
  <2>1. OnRecord("memory", a) /\ OnRecord("file", a)
    BY <1>1 DEF OnRecord, Kept, Places
  <2> QED
    BY <2>1, IdleMonitor DEF AlarmOnRecord
<1> QED
  BY <1>2, <1>3, <1>4 DEF HealthInv

\* Types, one variable at a time.
LEMMA MonitorTyped == HealthInv /\ HealthNext => monitor' \in MonitorRecords
<1> SUFFICES ASSUME HealthInv, HealthNext PROVE monitor' \in MonitorRecords
  OBVIOUS
<1>1. monitor \in MonitorRecords
  BY DEF HealthInv, HealthTypeOK, MonitorRecords
<1>2. \A a \in Alarms, acted \in BOOLEAN, at \in {"act", "log"}, f \in SUBSET Alarms :
        /\ [monitor EXCEPT !.at = at, !.alarm = a, !.found = f] \in MonitorRecords
        /\ [monitor EXCEPT !.at = at, !.alarm = a, !.found = f, !.acted = acted] \in MonitorRecords
  BY <1>1 DEF MonitorRecords
<1>3. \A w, f \in SUBSET Alarms : [monitor EXCEPT !.waits = w, !.found = f] \in MonitorRecords
  BY <1>1 DEF MonitorRecords
<1>4. monitor.found \in SUBSET Alarms /\ monitor.waits \in SUBSET Alarms
  BY <1>1 DEF MonitorRecords
<1>5. ASSUME CycleStart PROVE monitor' \in MonitorRecords
  <2>1. Submitted \in SUBSET Alarms
    BY DEF Submitted
  <2>2. \A w \in SUBSET Alarms : [MonitorIdle EXCEPT !.at = "cycle", !.waits = w] \in MonitorRecords
    BY IdleMonitor DEF MonitorRecords
  <2> QED
    BY <1>5, <2>1, <2>2 DEF CycleStart
<1>6. ASSUME CycleEnd \/ MonitorRestarts PROVE monitor' \in MonitorRecords
  BY <1>6, IdleMonitor DEF CycleEnd, MonitorRestarts
<1>7. ASSUME NEW i \in 1..PoolSize, CheckEnds(i) PROVE monitor' \in MonitorRecords
  <2> DEFINE a == pool[i].alarm
  <2>1. a \in Alarms
    <3>1. pool \in Seq(PoolEntries) /\ i \in 1..Len(pool)
      BY <1>7, HealthNumbers DEF CheckEnds, HealthInv, HealthTypeOK, PoolEntries
    <3>2. pool[i] \in PoolEntries
      BY <3>1
    <3> QED
      BY <3>2 DEF PoolEntries
  <2>2. monitor' = monitor \/ \E w, f \in SUBSET Alarms : monitor' = [monitor EXCEPT !.waits = w, !.found = f]
    <3>1. monitor.waits \ {a} \in SUBSET Alarms
      BY <1>4
    <3>2. (IF Triggered(a) THEN monitor.found \union {a} ELSE monitor.found) \in SUBSET Alarms
      BY <1>4, <2>1
    <3>3. monitor' = IF ~pool[i].fresh THEN monitor
                     ELSE [monitor EXCEPT !.waits = monitor.waits \ {a},
                             !.found = IF Triggered(a) THEN monitor.found \union {a} ELSE monitor.found]
      BY <1>7, <1>1 DEF CheckEnds, MonitorRecords
    <3> HIDE DEF a
    <3> QED
      BY <3>1, <3>2, <3>3
  <2> QED
    BY <1>1, <1>3, <2>2
<1>8. ASSUME NEW a \in Alarms, HandleSkip(a) \/ HandleAct(a) PROVE monitor' \in MonitorRecords
  <2>1. monitor.found \ {a} \in SUBSET Alarms
    BY <1>4
  <2>2. [monitor EXCEPT !.at = "log", !.alarm = a, !.found = @ \ {a}, !.acted = FALSE]
          = [monitor EXCEPT !.at = "log", !.alarm = a, !.found = monitor.found \ {a}, !.acted = FALSE]
    BY <1>1 DEF MonitorRecords
  <2>3. [monitor EXCEPT !.at = "act", !.alarm = a, !.found = @ \ {a}]
          = [monitor EXCEPT !.at = "act", !.alarm = a, !.found = monitor.found \ {a}]
    BY <1>1 DEF MonitorRecords
  <2>4. HandleSkip(a) => monitor' \in MonitorRecords
    BY <1>2, <2>1, <2>2, ZenonT(40) DEF HandleSkip
  <2>5. HandleAct(a) => monitor' \in MonitorRecords
    BY <1>2, <2>1, <2>3 DEF HandleAct
  <2> QED
    BY <1>8, <2>4, <2>5
<1>9. ASSUME Execute PROVE monitor' \in MonitorRecords
  <2>1. \A at \in {"log", "record"}, b \in BOOLEAN : [monitor EXCEPT !.at = at, !.acted = b] \in MonitorRecords
    BY <1>1 DEF MonitorRecords
  <2> QED
    BY <1>9, <2>1 DEF Execute
<1>10. ASSUME RecordAction PROVE monitor' \in MonitorRecords
  BY <1>1, <1>10 DEF RecordAction, MonitorRecords
<1>11. ASSUME LogEvent PROVE monitor' \in MonitorRecords
  <2>1. \A b \in BOOLEAN : [monitor EXCEPT !.at = "cycle", !.alarm = "none", !.acted = b] \in MonitorRecords
    BY <1>1 DEF MonitorRecords
  <2> QED
    BY <1>11, <2>1 DEF LogEvent
<1>12. ASSUME MonitorCrashes PROVE monitor' \in MonitorRecords
  BY <1>1, <1>12 DEF MonitorCrashes, MonitorRecords
<1>13. ASSUME MinutesPass \/ ShareFlips \/ PromFlips \/ \E a \in Alarms : AlarmFlips(a)
       PROVE  monitor' \in MonitorRecords
  BY <1>1, <1>13 DEF MinutesPass, ShareFlips, PromFlips, AlarmFlips
<1> QED
  BY <1>5, <1>6, <1>7, <1>8, <1>9, <1>10, <1>11, <1>12, <1>13 DEF HealthNext, MonitorStep, ChecksEnd

LEMMA PoolTyped == HealthInv /\ HealthNext => pool' \in Seq(PoolEntries) /\ Len(pool') <= MaxPool
<1> SUFFICES ASSUME HealthInv, HealthNext PROVE pool' \in Seq(PoolEntries) /\ Len(pool') <= MaxPool
  OBVIOUS
<1>1. pool \in Seq(PoolEntries) /\ Len(pool) <= MaxPool /\ MaxPool \in Nat
  BY HealthNumbers DEF HealthInv, HealthTypeOK, PoolEntries
<1>2. ASSUME CycleStart PROVE pool' \in Seq(PoolEntries) /\ Len(pool') <= MaxPool
  <2> DEFINE n == Cardinality(Submitted)
             more == [i \in 1..n |-> [alarm |-> SetToSeq(Submitted)[i], fresh |-> TRUE]]
  <2>1. IsFiniteSet(Submitted) /\ Submitted \subseteq Alarms
    BY HealthAssumption, FS_Subset DEF Submitted
  <2>2. n \in Nat /\ SetToSeq(Submitted) \in [1..n -> Submitted]
    BY <2>1, Listed
  <2>3. pool' = pool \o more /\ Len(pool) + n <= MaxPool
    BY <1>2 DEF CycleStart
  <2> HIDE DEF n
  <2>4. \A i \in 1..n : [alarm |-> SetToSeq(Submitted)[i], fresh |-> TRUE] \in PoolEntries
    BY <2>1, <2>2 DEF PoolEntries
  <2>5. more \in Seq(PoolEntries) /\ Len(more) = n
    BY <2>2, <2>4
  <2> HIDE DEF more
  <2>6. pool \o more \in Seq(PoolEntries) /\ Len(pool \o more) = Len(pool) + Len(more)
    BY <1>1, <2>5, ConcatProperties
  <2> QED
    BY <2>3, <2>5, <2>6
<1>3. ASSUME NEW i \in 1..PoolSize, CheckEnds(i) PROVE pool' \in Seq(PoolEntries) /\ Len(pool') <= MaxPool
  <2>1. i \in DOMAIN pool /\ pool' = RemoveAt(pool, i)
    BY <1>1, <1>3, HealthNumbers DEF CheckEnds
  <2>2. RemoveAt(pool, i) \in Seq(PoolEntries) /\ Len(RemoveAt(pool, i)) = Len(pool) - 1
    BY <1>1, <2>1, RemoveOne
  <2> QED
    BY <1>1, <2>1, <2>2
<1>4. ASSUME CycleEnd PROVE pool' \in Seq(PoolEntries) /\ Len(pool') <= MaxPool
  <2>1. \A i \in 1..Len(pool) : [pool[i] EXCEPT !.fresh = FALSE] \in PoolEntries
    <3>1. \A r \in PoolEntries : [r EXCEPT !.fresh = FALSE] \in PoolEntries
      BY DEF PoolEntries
    <3>2. \A i \in 1..Len(pool) : pool[i] \in PoolEntries
      BY <1>1
    <3> QED
      BY <3>1, <3>2
  <2>2. [i \in 1..Len(pool) |-> [pool[i] EXCEPT !.fresh = FALSE]] \in Seq(PoolEntries)
        /\ Len([i \in 1..Len(pool) |-> [pool[i] EXCEPT !.fresh = FALSE]]) = Len(pool)
    BY <1>1, <2>1
  <2> QED
    BY <1>1, <1>4, <2>2 DEF CycleEnd
<1>5. ASSUME MonitorCrashes PROVE pool' \in Seq(PoolEntries) /\ Len(pool') <= MaxPool
  <2>1. <<>> \in Seq(PoolEntries) /\ Len(<<>>) = 0
    BY EmptySeq
  <2> QED
    BY <1>1, <1>5, <2>1 DEF MonitorCrashes
<1>6. CycleStart \/ CycleEnd \/ MonitorCrashes \/ (\E i \in 1..PoolSize : CheckEnds(i)) \/ UNCHANGED pool
  BY DEF HealthNext, MonitorStep, ChecksEnd, Execute, RecordAction, LogEvent, MonitorRestarts, HandleSkip,
     HandleAct, MinutesPass, ShareFlips, PromFlips, AlarmFlips
<1> QED
  BY <1>1, <1>2, <1>3, <1>4, <1>5, <1>6

\* Which steps write the ages, and how.
LEMMA AgesTyped == HealthInv /\ HealthNext => lastAction' \in Ages
<1> SUFFICES ASSUME HealthInv, HealthNext PROVE lastAction' \in Ages
  OBVIOUS
<1> USE HealthNumbers
<1>1. lastAction \in Ages
  BY DEF HealthInv, HealthTypeOK, Ages
<1>2. \A p \in Places, f \in [Alarms -> 0..Never] : [lastAction EXCEPT ![p] = f] \in Ages
  BY <1>1 DEF Ages
<1>3. \A a : \A p \in Places : [lastAction[p] EXCEPT ![a] = 0] \in [Alarms -> 0..Never]
  <2>1. \A a : \A g \in [Alarms -> 0..Never] : [g EXCEPT ![a] = 0] \in [Alarms -> 0..Never]
    <3>1. 0 \in 0..Never
      OBVIOUS
    <3> TAKE a
    <3> TAKE g \in [Alarms -> 0..Never]
    <3>2. DOMAIN g = Alarms /\ \A b \in Alarms : g[b] \in 0..Never
      OBVIOUS
    <3> QED
      BY ONLY <3>1, <3>2, g \in [Alarms -> 0..Never]
  <2>2. \A p \in Places : lastAction[p] \in [Alarms -> 0..Never]
    BY <1>1 DEF Ages
  <2> QED
    BY <2>1, <2>2
<1>4. \A a : \A p \in Places : [lastAction EXCEPT ![p][a] = 0] \in Ages
  BY <1>1, <1>3 DEF Ages
<1>5. "truth" \in Places /\ "log" \in Places /\ "memory" \in Places /\ "file" \in Places
  BY DEF Places
<1>6. Execute => lastAction' \in Ages
  <2>1. Execute => \E a : lastAction' = [lastAction EXCEPT !["truth"][a] = 0]
    BY DEF Execute, Aged
  <2> QED
    BY <1>4, <1>5, <2>1
<1>7. LogEvent => lastAction' \in Ages
  BY <1>1, <1>4, <1>5 DEF LogEvent, Aged
<1>8. ASSUME RecordAction PROVE lastAction' \in Ages
  <2> DEFINE memory == [lastAction["memory"] EXCEPT ![monitor.alarm] = 0]
  <2>1. memory \in [Alarms -> 0..Never]
    BY <1>3, <1>5
  <2>2. \/ lastAction' = [lastAction EXCEPT !["memory"] = memory, !["file"] = memory]
        \/ lastAction' = [lastAction EXCEPT !["memory"] = memory]
    BY <1>8 DEF RecordAction
  <2> HIDE DEF memory
  <2>3. [lastAction EXCEPT !["memory"] = memory, !["file"] = memory] \in Ages
    BY <1>1, <2>1 DEF Ages
  <2> QED
    BY <1>2, <1>5, <2>1, <2>2, <2>3
<1>9. ASSUME MinutesPass PROVE lastAction' \in Ages
  <2>1. \A n \in 0..Never : Older(n) \in 0..Never
    BY DEF Older
  <2>2. \A p \in Places, a \in Alarms : Older(lastAction[p][a]) \in 0..Never
    BY <1>1, <2>1 DEF Ages
  <2> QED
    BY <1>9, <2>2 DEF MinutesPass, Ages
<1>10. ASSUME MonitorRestarts PROVE lastAction' \in Ages
  <2>1. lastAction["file"] \in [Alarms -> 0..Never] /\ [a \in Alarms |-> Never] \in [Alarms -> 0..Never]
    BY <1>1, <1>5 DEF Ages
  <2> QED
    BY <1>2, <1>5, <1>10, <2>1 DEF MonitorRestarts
<1>11. Execute \/ LogEvent \/ RecordAction \/ MinutesPass \/ MonitorRestarts \/ UNCHANGED lastAction
  BY DEF HealthNext, MonitorStep, ChecksEnd, CycleStart, CycleEnd, MonitorCrashes, HandleSkip, CheckEnds,
     HandleAct, ShareFlips, PromFlips, AlarmFlips
<1> QED
  BY <1>1, <1>6, <1>7, <1>8, <1>9, <1>10, <1>11

LEMMA HealthTypesKept == HealthInv /\ HealthNext => HealthTypeOK'
<1> SUFFICES ASSUME HealthInv, HealthNext PROVE HealthTypeOK'
  OBVIOUS
<1> USE HealthNumbers
<1>1. /\ faulty \subseteq Alarms /\ shareHangs \in BOOLEAN /\ promGone \in BOOLEAN /\ unsaved \in BOOLEAN
      /\ promMisses \in 0..MissCount /\ forgotten \subseteq Alarms /\ monitorFaults \in 0..MaxMonitorFaults
  BY DEF HealthInv, HealthTypeOK
<1>2. faulty' \subseteq Alarms
  <2>1. ASSUME NEW a \in Alarms, AlarmFlips(a) PROVE faulty' \subseteq Alarms
    BY <1>1, <2>1 DEF AlarmFlips
  <2>2. (\E a \in Alarms : AlarmFlips(a)) \/ UNCHANGED faulty
    BY DEF HealthNext, MonitorStep, ChecksEnd, CycleStart, CycleEnd, MonitorCrashes, HandleSkip, CheckEnds,
       HandleAct, ShareFlips, PromFlips, Execute, RecordAction, LogEvent, MonitorRestarts, MinutesPass,
       worldVars
  <2> QED
    BY <1>1, <2>1, <2>2
<1>3. shareHangs' \in BOOLEAN /\ promGone' \in BOOLEAN
  BY <1>1 DEF HealthNext, MonitorStep, ChecksEnd, CycleStart, CycleEnd, MonitorCrashes, HandleSkip, CheckEnds,
     HandleAct, ShareFlips, PromFlips, Execute, RecordAction, LogEvent, MonitorRestarts, MinutesPass,
     AlarmFlips, worldVars
<1>4. unsaved' \in BOOLEAN
  BY <1>1 DEF HealthNext, MonitorStep, ChecksEnd, CycleStart, CycleEnd, MonitorCrashes, HandleSkip, CheckEnds,
     HandleAct, ShareFlips, PromFlips, Execute, RecordAction, LogEvent, MonitorRestarts, MinutesPass,
     AlarmFlips, ghostVars
<1>5. promMisses' \in 0..MissCount
  <2>1. CycleStart => promMisses' \in 0..MissCount
    BY <1>1 DEF CycleStart
  <2>2. CycleStart \/ promMisses' = 0 \/ UNCHANGED promMisses
    BY DEF HealthNext, MonitorStep, ChecksEnd, CycleEnd, MonitorCrashes, HandleSkip, CheckEnds,
       HandleAct, ShareFlips, PromFlips, Execute, RecordAction, LogEvent, MonitorRestarts, MinutesPass,
       AlarmFlips
  <2> QED
    BY <1>1, <2>1, <2>2
<1>6. forgotten' \subseteq Alarms
  <2>1. MonitorCrashes => forgotten' \subseteq Alarms
    BY <1>1 DEF MonitorCrashes, HealthInv, MonitorKnows
  <2>2. MonitorRestarts => forgotten' \subseteq Alarms
    BY <1>1 DEF MonitorRestarts, Unlogged
  <2>3. MonitorCrashes \/ MonitorRestarts \/ UNCHANGED forgotten
    BY DEF HealthNext, MonitorStep, ChecksEnd, CycleStart, CycleEnd, HandleSkip, CheckEnds,
       HandleAct, ShareFlips, PromFlips, Execute, RecordAction, LogEvent, MinutesPass, AlarmFlips, ghostVars
  <2> QED
    BY <1>1, <2>1, <2>2, <2>3
<1>7. monitorFaults' \in 0..MaxMonitorFaults
  <2>1. monitorFaults' = monitorFaults \/ (monitorFaults < MaxMonitorFaults /\ monitorFaults' = monitorFaults + 1)
    BY DEF HealthNext, MonitorStep, ChecksEnd, CycleStart, CycleEnd, MonitorCrashes, HandleSkip, CheckEnds,
       HandleAct, ShareFlips, PromFlips, Execute, RecordAction, LogEvent, MonitorRestarts, MinutesPass,
       AlarmFlips, ghostVars, HealthFault
  <2> QED
    BY <1>1, <2>1
<1> QED
  BY <1>2, <1>3, <1>4, <1>5, <1>6, <1>7, MonitorTyped, PoolTyped, AgesTyped
     DEF HealthTypeOK, MonitorRecords, PoolEntries, Ages

\* What a write leaves of the ages.
LEMMA Cells ==
  ASSUME lastAction \in Ages
  PROVE  /\ \A b : \A p, q \in Places, a \in Alarms :
              [lastAction EXCEPT ![p][b] = 0][q][a] = IF q = p /\ a = b THEN 0 ELSE lastAction[q][a]
         /\ \A f : \A p, q \in Places, a \in Alarms :
              [lastAction EXCEPT ![p] = f][q][a] = IF q = p THEN f[a] ELSE lastAction[q][a]
         /\ \A f : \A p, q, r \in Places, a \in Alarms :
              [lastAction EXCEPT ![p] = f, ![r] = f][q][a]
                = IF q \in {p, r} THEN f[a] ELSE lastAction[q][a]
         /\ \A b : \A p \in Places, a \in Alarms :
              [lastAction[p] EXCEPT ![b] = 0][a] = IF a = b THEN 0 ELSE lastAction[p][a]
BY DEF Ages

LEMMA AgesInt ==
  ASSUME HealthInv
  PROVE  /\ \A p \in Places, a \in Alarms : lastAction[p][a] \in Nat
         /\ {"truth", "log", "memory", "file"} \subseteq Places /\ lastAction \in Ages
<1>1. lastAction \in Ages
  BY DEF HealthInv, HealthTypeOK, Ages
<1>2. \A p \in Places, a \in Alarms : lastAction[p][a] \in 0..Never
  BY <1>1 DEF Ages
<1>3. {"truth", "log", "memory", "file"} \subseteq Places
  BY DEF Places
<1> QED
  BY <1>1, <1>2, <1>3, HealthNumbers

LEMMA KnowsKept == HealthInv /\ HealthNext => MonitorKnows'
<1> SUFFICES ASSUME HealthInv, HealthNext PROVE MonitorKnows'
  OBVIOUS
<1> USE AgesInt
<1>1. monitor \in MonitorRecords /\ MonitorKnows /\ Blocked \subseteq Alarms
  BY HealthAssumption DEF HealthInv, HealthTypeOK, MonitorRecords
<1> DEFINE Named == monitor.at \in {"act", "record", "log"} => monitor.alarm \in Alarms
           Allowed == monitor.at = "record" => monitor.alarm \notin Blocked
           Lost == monitor.at = "crashed" /\ unsaved => Alarms \subseteq forgotten
           Unwritten == \A a \in Blocked : lastAction["memory"][a] = Never /\ lastAction["file"][a] = Never
<1>2. Named /\ Allowed /\ Lost /\ Unwritten
  BY <1>1 DEF MonitorKnows
<1>3. ASSUME CycleStart \/ CycleEnd PROVE MonitorKnows'
  <2>1. monitor'.at \in {"cycle", "rest"}
    BY <1>3, IdleMonitor DEF CycleStart, CycleEnd, MonitorRecords
  <2> QED
    BY <1>2, <1>3, <2>1 DEF MonitorKnows, CycleStart, CycleEnd
<1>4. ASSUME NEW i \in 1..PoolSize, CheckEnds(i) PROVE MonitorKnows'
  <2>1. monitor'.at = monitor.at /\ monitor'.alarm = monitor.alarm
    BY <1>1, <1>4 DEF CheckEnds, MonitorRecords
  <2> QED
    BY <1>2, <1>4, <2>1 DEF MonitorKnows, CheckEnds, ghostVars
<1>5. ASSUME NEW a \in Alarms, HandleSkip(a) \/ HandleAct(a) PROVE MonitorKnows'
  <2>1. monitor'.at \in {"log", "act"} /\ monitor'.alarm = a
    BY <1>1, <1>5 DEF HandleSkip, HandleAct, MonitorRecords
  <2>2. UNCHANGED lastAction
    BY <1>5 DEF HandleSkip, HandleAct
  <2> QED
    BY <1>2, <2>1, <2>2 DEF MonitorKnows
<1>6. ASSUME Execute PROVE MonitorKnows'
  <2>1. /\ monitor'.at = (IF monitor.alarm \in Blocked THEN "log" ELSE "record")
        /\ monitor'.alarm = monitor.alarm /\ monitor.alarm \in Alarms
    BY <1>1, <1>2, <1>6 DEF Execute, MonitorRecords
  <2>2. \A a \in Alarms : lastAction'["memory"][a] = lastAction["memory"][a]
                           /\ lastAction'["file"][a] = lastAction["file"][a]
    BY <1>6, Cells DEF Execute, Aged
  <2> QED
    BY <1>1, <1>2, <2>1, <2>2 DEF MonitorKnows
<1>7. ASSUME RecordAction PROVE MonitorKnows'
  <2>1. monitor'.at = "log" /\ monitor'.alarm = monitor.alarm /\ monitor.alarm \in Alarms \ Blocked
    BY <1>1, <1>2, <1>7 DEF RecordAction, MonitorRecords
  <2> DEFINE memory == [lastAction["memory"] EXCEPT ![monitor.alarm] = 0]
  <2>2. \/ lastAction' = [lastAction EXCEPT !["memory"] = memory, !["file"] = memory]
        \/ lastAction' = [lastAction EXCEPT !["memory"] = memory]
    BY <1>7 DEF RecordAction
  <2>3. \A a \in Blocked : memory[a] = Never
    BY <1>1, <1>2, <2>1, Cells
  <2> HIDE DEF memory
  <2>4. Unwritten'
    BY <1>1, <1>2, <2>2, <2>3, Cells
  <2> QED
    BY <2>1, <2>4 DEF MonitorKnows
<1>8. ASSUME LogEvent PROVE MonitorKnows'
  <2>1. monitor'.at = "cycle"
    BY <1>1, <1>8 DEF LogEvent, MonitorRecords
  <2>2. \A a \in Alarms : lastAction'["memory"][a] = lastAction["memory"][a]
                           /\ lastAction'["file"][a] = lastAction["file"][a]
    BY <1>8, Cells DEF LogEvent, Aged
  <2> QED
    BY <1>1, <1>2, <2>1, <2>2 DEF MonitorKnows
<1>9. ASSUME MinutesPass PROVE MonitorKnows'
  <2>1. Older(Never) = Never
    BY HealthNumbers DEF Older
  <2>2. Unwritten'
    BY <1>1, <1>2, <1>9, <2>1 DEF MinutesPass
  <2> QED
    BY <1>2, <1>9, <2>2 DEF MonitorKnows, MinutesPass, ghostVars
<1>10. ASSUME MonitorCrashes PROVE MonitorKnows'
  <2>1. monitor'.at = "crashed" /\ (unsaved => Alarms \subseteq forgotten')
    BY <1>1, <1>10 DEF MonitorCrashes, MonitorRecords
  <2> QED
    BY <1>2, <1>10, <2>1 DEF MonitorKnows, MonitorCrashes
<1>11. ASSUME MonitorRestarts PROVE MonitorKnows'
  <2>1. monitor'.at = "rest"
    BY <1>11, IdleMonitor DEF MonitorRestarts
  <2> DEFINE forgets == [a \in Alarms |-> Never]
  <2>2. \/ lastAction' = [lastAction EXCEPT !["memory"] = lastAction["file"]]
        \/ lastAction' = [lastAction EXCEPT !["memory"] = forgets]
    BY <1>11 DEF MonitorRestarts
  <2>3. \A a \in Blocked : forgets[a] = Never
    BY <1>1
  <2> HIDE DEF forgets
  <2>4. Unwritten'
    BY <1>1, <1>2, <2>2, <2>3, Cells
  <2> QED
    BY <2>1, <2>4 DEF MonitorKnows
<1>12. ASSUME ShareFlips \/ PromFlips \/ \E a \in Alarms : AlarmFlips(a) PROVE MonitorKnows'
  BY <1>2, <1>12 DEF MonitorKnows, ShareFlips, PromFlips, AlarmFlips, ghostVars
<1> QED
  BY <1>3, <1>4, <1>5, <1>6, <1>7, <1>8, <1>9, <1>10, <1>11, <1>12
     DEF HealthNext, MonitorStep, ChecksEnd

\* An alarm of which nothing is written, and that is not at its act, stays on
\* record.
LEMMA Undisturbed ==
  ASSUME NEW a \in Alarms, AlarmOnRecord(a), lastAction' = lastAction, unsaved' = unsaved,
         a \notin forgotten' => a \notin forgotten,
         a \notin forgotten' /\ Unrecorded(a) => Unrecorded(a)',
         monitor'.at = "act" /\ monitor'.alarm = a => monitor.at = "act" /\ monitor.alarm = a
  PROVE  AlarmOnRecord(a)'
BY DEF AlarmOnRecord, OnRecord, Kept

LEMMA OnRecordKept ==
  ASSUME HealthInv, HealthNext, NEW a \in Alarms PROVE AlarmOnRecord(a)'
<1> USE AgesInt, HealthNumbers
<1>1. monitor \in MonitorRecords /\ MonitorKnows /\ AlarmOnRecord(a)
  BY DEF HealthInv, HealthTypeOK, MonitorRecords
<1>2. ASSUME CycleStart \/ CycleEnd PROVE AlarmOnRecord(a)'
  <2>1. monitor'.at \in {"cycle", "rest"} /\ monitor.at \in {"cycle", "rest"}
    BY <1>2, IdleMonitor DEF CycleStart, CycleEnd, MonitorRecords
  <2>2. ~Unrecorded(a)
    BY <2>1 DEF Unrecorded
  <2> QED
    BY <1>1, <1>2, <2>1, <2>2, Undisturbed DEF CycleStart, CycleEnd, ghostVars
<1>3. ASSUME NEW i \in 1..PoolSize, CheckEnds(i) PROVE AlarmOnRecord(a)'
  <2>1. monitor'.at = monitor.at /\ monitor'.alarm = monitor.alarm /\ monitor'.acted = monitor.acted
    BY <1>1, <1>3 DEF CheckEnds, MonitorRecords
  <2>2. Unrecorded(a)' = Unrecorded(a)
    BY <2>1 DEF Unrecorded
  <2>3. UNCHANGED <<lastAction, ghostVars>>
    BY <1>3 DEF CheckEnds
  <2> QED
    BY <1>1, <2>1, <2>2, <2>3, Undisturbed DEF ghostVars
<1>4. ASSUME NEW b \in Alarms, HandleSkip(b) PROVE AlarmOnRecord(a)'
  <2>1. monitor'.at = "log" /\ monitor.at = "cycle"
    BY <1>1, <1>4 DEF HandleSkip, MonitorRecords
  <2>2. ~Unrecorded(a)
    BY <2>1 DEF Unrecorded
  <2> QED
    BY <1>1, <1>4, <2>1, <2>2, Undisturbed DEF HandleSkip, ghostVars
<1>5. ASSUME NEW b \in Alarms, HandleAct(b) PROVE AlarmOnRecord(a)'
  <2>1. monitor'.at = "act" /\ monitor'.alarm = b /\ monitor.at = "cycle"
    BY <1>1, <1>5 DEF HandleAct, MonitorRecords
  <2>2. ~Unrecorded(a)
    BY <2>1 DEF Unrecorded
  <2>3. lastAction' = lastAction /\ unsaved' = unsaved /\ forgotten' = forgotten
    BY <1>5 DEF HandleAct, ghostVars
  <2>4. ASSUME a \notin forgotten, b = a PROVE lastAction["truth"][a] >= Cooldown
    <3>1. OnRecord("memory", a)
      BY <1>1, <2>2, <2>4 DEF AlarmOnRecord
    <3>2. PICK p \in {"log", "memory"} : Kept(p, a) /\ ~(lastAction[p][a] < Cooldown)
      BY <1>5, <2>4, <3>1 DEF HandleAct, InCooldown, OnRecord
    <3> QED
      BY <3>2 DEF Kept
  <2> QED
    BY <1>1, <2>1, <2>2, <2>3, <2>4 DEF AlarmOnRecord, OnRecord, Kept
<1>6. ASSUME Execute PROVE AlarmOnRecord(a)'
  <2>1. /\ monitor'.at \in {"log", "record"} /\ monitor'.alarm = monitor.alarm /\ monitor'.acted = TRUE
        /\ monitor'.at = "log" => monitor.alarm \in Blocked
        /\ monitor.at = "act"
    BY <1>1, <1>6 DEF Execute, MonitorRecords
  <2>2. CASE monitor.alarm = a
    <3>1. Unrecorded(a)'
      BY <2>1, <2>2 DEF Unrecorded
    <3> QED
      BY <2>1, <3>1 DEF AlarmOnRecord
  <2>3. CASE monitor.alarm # a
    <3>1. \A p \in Places : lastAction'[p][a] = lastAction[p][a]
      BY <1>6, <2>3, Cells DEF Execute, Aged
    <3>2. ~Unrecorded(a) /\ unsaved' = unsaved /\ forgotten' = forgotten
      BY <1>6, <2>3 DEF Unrecorded, Execute, ghostVars
    <3> QED
      BY <1>1, <2>1, <3>1, <3>2 DEF AlarmOnRecord, OnRecord, Kept
  <2> QED
    BY <2>2, <2>3
<1>7. ASSUME RecordAction PROVE AlarmOnRecord(a)'
  <2>1. /\ monitor'.at = "log" /\ monitor'.alarm = monitor.alarm
        /\ monitor.alarm \notin Blocked /\ monitor.at = "record"
    BY <1>1, <1>7 DEF RecordAction, MonitorRecords, MonitorKnows
  <2> DEFINE memory == [lastAction["memory"] EXCEPT ![monitor.alarm] = 0]
  <2>2. \/ lastAction' = [lastAction EXCEPT !["memory"] = memory, !["file"] = memory]
        \/ lastAction' = [lastAction EXCEPT !["memory"] = memory] /\ unsaved'
    BY <1>7 DEF RecordAction
  <2>3. memory[a] = IF monitor.alarm = a THEN 0 ELSE lastAction["memory"][a]
    BY Cells
  <2> HIDE DEF memory
  <2>4. /\ lastAction'["memory"][a] = memory[a]
        /\ lastAction'["file"][a] = memory[a] \/ unsaved'
        /\ lastAction'["log"][a] = lastAction["log"][a]
        /\ lastAction'["truth"][a] = lastAction["truth"][a]
    BY <2>2, Cells
  <2>5. forgotten' = forgotten
    BY <1>7 DEF RecordAction
  <2>6. CASE monitor.alarm = a
    BY <2>1, <2>3, <2>4, <2>6 DEF AlarmOnRecord, OnRecord, Kept
  <2>7. CASE monitor.alarm # a
    <3>1. ~Unrecorded(a)
      BY <2>7 DEF Unrecorded
    <3> QED
      BY <1>1, <2>1, <2>3, <2>4, <2>5, <2>7, <3>1 DEF AlarmOnRecord, OnRecord, Kept
  <2> QED
    BY <2>6, <2>7
<1>8. ASSUME LogEvent PROVE AlarmOnRecord(a)'
  <2>1. monitor'.at = "cycle" /\ monitor.at = "log" /\ unsaved' = unsaved /\ forgotten' = forgotten
    BY <1>1, <1>8 DEF LogEvent, MonitorRecords, ghostVars
  <2>2. CASE monitor.acted /\ monitor.alarm = a
    <3>1. /\ lastAction'["log"][a] = 0
          /\ \A p \in {"memory", "file", "truth"} : lastAction'[p][a] = lastAction[p][a]
      <4>1. lastAction' = [lastAction EXCEPT !["log"][monitor.alarm] = 0]
        BY <1>8, <2>2 DEF LogEvent, Aged
      <4> QED
        BY <2>2, <4>1, Cells
    <3>2. CASE a \in Blocked
      BY <1>1, <2>1, <3>1, <3>2 DEF MonitorKnows, AlarmOnRecord, OnRecord, Kept
    <3>3. CASE a \notin Blocked
      <4>1. ~Unrecorded(a)
        BY <2>1, <3>3 DEF Unrecorded
      <4> QED
        BY <1>1, <2>1, <3>1, <4>1 DEF AlarmOnRecord, OnRecord, Kept
    <3> QED
      BY <3>2, <3>3
  <2>3. CASE ~(monitor.acted /\ monitor.alarm = a)
    <3>1. ~Unrecorded(a)
      BY <2>1, <2>3 DEF Unrecorded
    <3>2. \A p \in Places : lastAction'[p][a] = lastAction[p][a]
      <4>1. lastAction' = lastAction \/ (/\ lastAction' = [lastAction EXCEPT !["log"][monitor.alarm] = 0]
                                       /\ monitor.alarm # a)
        BY <1>8, <2>3 DEF LogEvent, Aged
      <4>2. ASSUME lastAction' = [lastAction EXCEPT !["log"][monitor.alarm] = 0], monitor.alarm # a, NEW p \in Places
            PROVE  lastAction'[p][a] = lastAction[p][a]
        BY <4>2, Cells
      <4> QED
        BY <4>1, <4>2
    <3> QED
      BY <1>1, <2>1, <3>1, <3>2 DEF AlarmOnRecord, OnRecord, Kept
  <2> QED
    BY <2>2, <2>3
<1>9. ASSUME MinutesPass PROVE AlarmOnRecord(a)'
  <2>1. monitor.at = "rest" /\ monitor' = monitor /\ unsaved' = unsaved /\ forgotten' = forgotten
    BY <1>9 DEF MinutesPass, ghostVars
  <2>2. ~Unrecorded(a)
    BY <2>1 DEF Unrecorded
  <2>3. \A p \in Places : lastAction'[p][a] = Older(lastAction[p][a])
    BY <1>9 DEF MinutesPass
  <2>4. \A n \in Nat : /\ Older(n) \in Nat
                       /\ n >= Cooldown => Older(n) = n
                       /\ Older(n) = Never <=> n = Never
                       /\ \A k \in Nat : n <= k => Older(n) <= Older(k)
    BY DEF Older, Never
  <2>5. \A p \in Places : Kept(p, a) => Kept(p, a)'
    <3> SUFFICES ASSUME NEW p \in Places, Kept(p, a) PROVE Kept(p, a)'
      OBVIOUS
    <3>1. PICK n, t \in Nat : n = lastAction[p][a] /\ t = lastAction["truth"][a]
      OBVIOUS
    <3>2. lastAction'[p][a] = Older(n) /\ lastAction'["truth"][a] = Older(t)
      BY <2>3, <3>1
    <3>3. n <= t \/ t >= Cooldown
      BY <3>1 DEF Kept
    <3>4. Older(n) <= Older(t) \/ Older(t) >= Cooldown
      <4>1. n <= t => Older(n) <= Older(t)
        BY <2>4
      <4>2. t >= Cooldown => Older(t) >= Cooldown
        BY <2>4
      <4> QED
        BY <3>3, <4>1, <4>2
    <3> QED
      BY <3>2, <3>4 DEF Kept
  <2>6. \A p \in Places : OnRecord(p, a) => OnRecord(p, a)'
    BY <2>3, <2>4, <2>5 DEF OnRecord
  <2> QED
    BY <1>1, <2>1, <2>2, <2>6 DEF AlarmOnRecord
<1>10. ASSUME MonitorCrashes PROVE AlarmOnRecord(a)'
  <2>1. monitor'.at = "crashed" /\ lastAction' = lastAction /\ unsaved' = unsaved
    BY <1>1, <1>10 DEF MonitorCrashes, MonitorRecords
  <2>2. forgotten \subseteq forgotten' /\ (Unrecorded(a) => a \in forgotten')
    BY <1>10 DEF MonitorCrashes, Unrecorded
  <2> QED
    BY <1>1, <2>1, <2>2, Undisturbed
<1>11. ASSUME MonitorRestarts PROVE AlarmOnRecord(a)'
  <2>1. monitor'.at = "rest" /\ monitor.at = "crashed" /\ unsaved' = FALSE
    BY <1>11, IdleMonitor DEF MonitorRestarts
  <2>2. ~Unrecorded(a) /\ forgotten \subseteq forgotten'
    BY <1>11, <2>1 DEF Unrecorded, MonitorRestarts
  <2>3. SUFFICES ASSUME a \notin forgotten' PROVE OnRecord("memory", a)' /\ OnRecord("file", a)'
    BY <2>1 DEF AlarmOnRecord
  <2>4. OnRecord("file", a)
    BY <1>1, <2>1, <2>2, <2>3 DEF AlarmOnRecord, MonitorKnows
  <2>5. CASE lastAction' = [lastAction EXCEPT !["memory"] = lastAction["file"]]
    <3>1. /\ lastAction'["memory"][a] = lastAction["file"][a]
          /\ \A p \in {"log", "file", "truth"} : lastAction'[p][a] = lastAction[p][a]
      BY <2>5, Cells
    <3> QED
      BY <2>4, <3>1 DEF OnRecord, Kept
  <2>6. CASE /\ lastAction' = [lastAction EXCEPT !["memory"] = [b \in Alarms |-> Never]]
             /\ forgotten' = forgotten \union Unlogged
    <3> DEFINE forgets == [b \in Alarms |-> Never]
    <3>1. /\ lastAction'["memory"][a] = Never
          /\ \A p \in {"log", "file", "truth"} : lastAction'[p][a] = lastAction[p][a]
      <4>1. lastAction' = [lastAction EXCEPT !["memory"] = forgets] /\ forgets[a] = Never
        BY <2>6
      <4> HIDE DEF forgets
      <4> QED
        BY <4>1, Cells
    <3>2. lastAction["log"][a] <= lastAction["truth"][a]
      BY <2>3, <2>6 DEF Unlogged
    <3> QED
      BY <2>4, <3>1, <3>2 DEF OnRecord, Kept
  <2> QED
    BY <1>11, <2>5, <2>6 DEF MonitorRestarts
<1>12. ASSUME ShareFlips \/ PromFlips \/ \E b \in Alarms : AlarmFlips(b) PROVE AlarmOnRecord(a)'
  <2>1. UNCHANGED <<lastAction, monitor, unsaved, forgotten>>
    BY <1>12 DEF ShareFlips, PromFlips, AlarmFlips, ghostVars
  <2> QED
    BY <1>1, <2>1, Undisturbed DEF Unrecorded
<1> QED
  BY <1>2, <1>3, <1>4, <1>5, <1>6, <1>7, <1>8, <1>9, <1>10, <1>11, <1>12
     DEF HealthNext, MonitorStep, ChecksEnd

LEMMA HealthKept == HealthInv /\ [HealthNext]_healthVars => HealthInv'
<1>1. HealthInv /\ HealthNext => HealthInv'
  BY HealthTypesKept, KnowsKept, OnRecordKept DEF HealthInv
<1>2. HealthInv /\ UNCHANGED healthVars => HealthInv'
  BY DEF HealthInv, HealthTypeOK, MonitorKnows, AlarmOnRecord, OnRecord, Kept, Unrecorded, healthVars
<1> QED
  BY <1>1, <1>2

LEMMA ActsOnce ==
  ASSUME HealthInv, NEW a \in Alarms, monitor.at = "act", monitor.alarm = a
  PROVE  lastAction["truth"][a] >= Cooldown \/ a \in forgotten
BY DEF HealthInv, AlarmOnRecord

-----------------------------------------------------------------------------
\* The status files of the hosts: what a hook writes is a state, and it is the
\* file of a host.
HookRecords == [at : At, saw : States, todo : SUBSET StatusHosts]
FileRecords == [state : States, recent : BOOLEAN]

LEMMA HostsStart == HostStatusInit => HostStatusTypeOK
BY DEF HostStatusInit, HostStatusTypeOK, States, At

LEMMA HooksMove ==
  ASSUME HostStatusTypeOK, NEW s \in Sessions, NEW from, NEW to \in At, NEW saw \in States,
         NEW todo \in SUBSET StatusHosts, Hook(s, from, to, saw, todo)
  PROVE  hook' \in [Sessions -> HookRecords]
<1>1. [at |-> to, saw |-> saw, todo |-> todo] \in HookRecords
  BY DEF HookRecords
<1>2. hook \in [Sessions -> HookRecords]
  BY DEF HostStatusTypeOK, HookRecords
<1>3. \A q \in HookRecords : [hook EXCEPT ![s] = q] \in [Sessions -> HookRecords]
  BY <1>2
<1> QED
  BY <1>1, <1>3 DEF Hook

LEMMA FilesWritten ==
  ASSUME HostStatusTypeOK
  PROVE  /\ \A s \in Sessions, state \in States :
              WritesOwn(s, state) => hostFile' \in [StatusHosts -> FileRecords]
         /\ \A h \in StatusHosts, state \in States :
              [hostFile EXCEPT ![h] = Now(state)] \in [StatusHosts -> FileRecords]
         /\ \A s \in Sessions : HostOfSession(s) \in StatusHosts
<1>1. hostFile \in [StatusHosts -> FileRecords]
  BY DEF HostStatusTypeOK, FileRecords
<1>2. \A state \in States : Now(state) \in FileRecords
  BY DEF Now, FileRecords
<1>3. \A h \in StatusHosts, state \in States :
        [hostFile EXCEPT ![h] = Now(state)] \in [StatusHosts -> FileRecords]
  BY <1>1, <1>2
<1>4. \A s \in Sessions : HostOfSession(s) \in StatusHosts
  BY HostStatusAssumption DEF HostOfSession
<1> QED
  BY <1>3, <1>4 DEF WritesOwn

LEMMA HostsKept == HostStatusTypeOK /\ [HostStatusNext]_hostVars => HostStatusTypeOK'
<1> SUFFICES ASSUME HostStatusTypeOK, [HostStatusNext]_hostVars PROVE HostStatusTypeOK'
  OBVIOUS
<1> DEFINE FilesOK == hostFile \in [StatusHosts -> FileRecords]
           BeatsOK == agentBeat \in [StatusHosts -> {"none", "recent", "old"}]
           HooksOK == hook \in [Sessions -> HookRecords]
<1>1. HostStatusTypeOK <=> FilesOK /\ BeatsOK /\ HooksOK
  BY DEF HostStatusTypeOK, FileRecords, HookRecords
<1>2. HostStatusTypeOK' <=> FilesOK' /\ BeatsOK' /\ HooksOK'
  BY DEF HostStatusTypeOK, FileRecords, HookRecords
<1> HIDE DEF FilesOK, BeatsOK, HooksOK
<1>3. {"none", "active", "idle", "offline"} \subseteq States
      /\ {"off", "on", "beat", "mark", "marking", "ended"} \subseteq At
      /\ {} \in SUBSET StatusHosts
  BY DEF States, At
<1>4. ASSUME NEW s \in Sessions PROVE hook[s].saw \in States /\ hook[s].todo \in SUBSET StatusHosts
  BY DEF HostStatusTypeOK
<1>5. ASSUME NEW h \in StatusHosts PROVE hostFile[h].state \in States
  BY DEF HostStatusTypeOK
<1>6. CASE UNCHANGED hostVars
  BY <1>1, <1>2, <1>6 DEF hostVars, FilesOK, BeatsOK, HooksOK
<1>7. ASSUME NEW s \in Sessions, HookStart(s) \/ HookEnd(s) PROVE HostStatusTypeOK'
  <2>1. HooksOK'
    BY <1>3, <1>7, HooksMove DEF HookStart, HookEnd, HooksOK
  <2>2. FilesOK'
    BY <1>3, <1>7, FilesWritten DEF HookStart, HookEnd, FilesOK
  <2> QED
    BY <1>1, <1>2, <1>7, <2>1, <2>2 DEF HookStart, HookEnd, BeatsOK
<1>8. ASSUME NEW s \in Sessions, BeatStart(s) PROVE HostStatusTypeOK'
  <2>1. hostFile[HostOfSession(s)].state \in States
    BY <1>5, FilesWritten
  <2>2. HooksOK'
    BY <1>3, <1>8, <2>1, HooksMove DEF BeatStart, HooksOK
  <2> QED
    BY <1>1, <1>2, <1>8, <2>2 DEF BeatStart, FilesOK, BeatsOK
<1>9. ASSUME NEW s \in Sessions, BeatEnd(s) PROVE HostStatusTypeOK'
  <2>1. HooksOK'
    BY <1>3, <1>9, HooksMove DEF BeatEnd, HooksOK
  <2>2. FilesOK'
    BY <1>1, <1>4, <1>9, FilesWritten DEF BeatEnd, FilesOK
  <2> QED
    BY <1>1, <1>2, <1>9, <2>1, <2>2 DEF BeatEnd, BeatsOK
<1>10. ASSUME NEW s \in Sessions, MarkRead(s) PROVE HostStatusTypeOK'
  <2>1. PICK silent \in SUBSET StatusHosts :
          Hook(s, "mark", IF silent = {} THEN "on" ELSE "marking", "none", silent)
    BY <1>10 DEF MarkRead
  <2>2. HooksOK'
    BY <1>3, <2>1, HooksMove DEF HooksOK
  <2> QED
    BY <1>1, <1>2, <1>10, <2>2 DEF MarkRead, FilesOK, BeatsOK
<1>11. ASSUME NEW s \in Sessions, MarkWrite(s) PROVE HostStatusTypeOK'
  <2>1. PICK h \in hook[s].todo :
          /\ Hook(s, "marking", IF hook[s].todo = {h} THEN "on" ELSE "marking", "none", hook[s].todo \ {h})
          /\ hostFile' = [hostFile EXCEPT ![h] = Now("offline")]
          /\ UNCHANGED agentBeat
    BY <1>11 DEF MarkWrite
  <2>2. h \in StatusHosts /\ hook[s].todo \ {h} \in SUBSET StatusHosts
    BY <1>4, <2>1
  <2>3. HooksOK'
    BY <1>3, <2>1, <2>2, HooksMove DEF HooksOK
  <2>4. FilesOK'
    BY <1>3, <2>1, <2>2, FilesWritten DEF FilesOK
  <2> QED
    BY <1>1, <1>2, <2>1, <2>3, <2>4 DEF BeatsOK
<1>12. ASSUME NEW s \in Sessions, SessionKilled(s) PROVE HostStatusTypeOK'
  <2>1. Hook(s, hook[s].at, "ended", "none", {}) /\ UNCHANGED <<hostFile, agentBeat>>
    BY <1>12 DEF SessionKilled, Hook
  <2>2. HooksOK'
    BY <1>3, <2>1, HooksMove DEF HooksOK
  <2> QED
    BY <1>1, <1>2, <2>1, <2>2 DEF FilesOK, BeatsOK
<1>13. ASSUME NEW h \in StatusHosts, StatusAges(h) PROVE HostStatusTypeOK'
  <2>1. FilesOK'
    BY <1>1, <1>13 DEF StatusAges, FilesOK, FileRecords
  <2> QED
    BY <1>1, <1>2, <1>13, <2>1 DEF StatusAges, BeatsOK, HooksOK
<1>14. ASSUME NEW h \in StatusHosts, AgentRecord(h) PROVE HostStatusTypeOK'
  BY <1>1, <1>2, <1>14 DEF AgentRecord, FilesOK, BeatsOK, HooksOK
<1> QED
  BY <1>6, <1>7, <1>8, <1>9, <1>10, <1>11, <1>12, <1>13, <1>14 DEF HostStatusNext, HookStep

-----------------------------------------------------------------------------
\* The queue of swarm_spec.
SpecInv == SpecTypeOK /\ OnePerKey /\ DiscardedRest /\ HolderOnRecord

LEMMA StartsSound == SpecQueueInit => SpecInv
BY SpecQueueAssumption
   DEF SpecQueueInit, SpecInv, SpecTypeOK, OnePerKey, DiscardedRest, HolderOnRecord, Stored, SpecStates

\* Every call keeps the four parts together: a task enters circulation only
\* by enqueue, which looks at the keys, and leaves it for good by nack.
LEMMA CallsKeepInv == SpecInv /\ [SpecQueueNext]_specVars => SpecInv'
<1> SUFFICES ASSUME SpecInv, [SpecQueueNext]_specVars PROVE SpecInv'
  OBVIOUS
<1> USE SpecQueueAssumption DEF SpecInv, SpecTypeOK, SpecStates
<1>1. CASE UNCHANGED specVars
  BY <1>1 DEF specVars, OnePerKey, DiscardedRest, HolderOnRecord, Stored
<1>2. ASSUME NEW t \in SpecTasks, Enqueue(t) PROVE SpecInv'
  <2>1. SpecTypeOK'
    BY <1>2 DEF Enqueue
  <2>2. OnePerKey'
    <3> SUFFICES ASSUME NEW u \in SpecTasks, NEW v \in SpecTasks,
                        u \in (Stored \ discarded)', v \in (Stored \ discarded)',
                        IdempotencyKey[u] # NoKey, IdempotencyKey[u] = IdempotencyKey[v]
                 PROVE  u = v
      BY DEF OnePerKey, Stored
    <3>1. \A w \in SpecTasks : w # t /\ w \in (Stored \ discarded)' => w \in Stored \ discarded
      BY <1>2 DEF Enqueue, Stored
    <3>2. u # t /\ v # t => u = v
      BY <3>1 DEF OnePerKey
    <3>3. (u = t \/ v = t) => u = v
      BY <1>2, <3>1 DEF Enqueue
    <3> QED
      BY <3>2, <3>3
  <2>3. DiscardedRest' /\ HolderOnRecord'
    <3>1. DiscardedRest'
      BY <1>2 DEF Enqueue, DiscardedRest
    <3>2. ASSUME IdempotencyKey[t] # NoKey PROVE t \notin Stored \ discarded
      BY <1>2, <3>2 DEF Enqueue
    <3>3. IdempotencyKey[t] # NoKey => specState[t] # "claimed" /\ dequeuedBy[t] = NoWorker
      BY <3>2 DEF Stored, DiscardedRest, HolderOnRecord
    <3> QED
      BY <1>2, <3>1, <3>3 DEF Enqueue, HolderOnRecord
  <2> QED
    BY <2>1, <2>2, <2>3
<1>3. ASSUME NEW t \in SpecTasks, NEW w \in SpecWorkers, Dequeue(w, t) PROVE SpecInv'
  <2>1. Stored' = Stored /\ t \notin discarded
    BY <1>3 DEF Dequeue, Stored, Eligible
  <2> QED
    BY <1>3, <2>1 DEF Dequeue, OnePerKey, DiscardedRest, HolderOnRecord
<1>4. ASSUME NEW t \in SpecTasks, Ack(t) \/ NackRetry(t) \/ NackDiscard(t) PROVE SpecInv'
  <2>1. Stored' = Stored /\ discarded \subseteq discarded' /\ t \in Stored
    BY <1>4 DEF Ack, NackRetry, NackDiscard, Stored
  <2>2. SpecTypeOK' /\ specState'[t] # "claimed" /\ dequeuedBy'[t] = NoWorker
    BY <1>4 DEF Ack, NackRetry, NackDiscard
  <2>3. \A u \in SpecTasks \ {t} : specState'[u] = specState[u] /\ dequeuedBy'[u] = dequeuedBy[u]
    BY <1>4 DEF Ack, NackRetry, NackDiscard
  <2>4. OnePerKey'
    BY <2>1 DEF OnePerKey
  <2>5. DiscardedRest'
    BY <1>4, <2>2, <2>3 DEF Ack, NackRetry, NackDiscard, DiscardedRest
  <2> QED
    BY <2>2, <2>3, <2>4, <2>5 DEF HolderOnRecord
<1> QED
  BY <1>1, <1>2, <1>3, <1>4 DEF SpecQueueNext

\* Deduplication, discarding and the record of who holds a task are safe
\* against late, repeated and misdirected calls.
THEOREM CallsInAnyOrder == SpecQueueSpec => [](OnePerKey /\ DiscardedRest /\ HolderOnRecord)
<1>1. SpecInv => OnePerKey /\ DiscardedRest /\ HolderOnRecord
  BY DEF SpecInv
<1> QED
  BY StartsSound, CallsKeepInv, <1>1, PTL DEF SpecQueueSpec

-----------------------------------------------------------------------------
\* The components side by side.
LEMMA Beginnings ==
  TasksInit => /\ RedisBoardInit /\ SubInit /\ IntakeInit /\ AutoInit /\ HealthInit
               /\ HostStatusInit /\ SpecQueueInit
BY DEF TasksInit

LEMMA Apart ==
  [TasksNext]_tasksVars
    => /\ [RedisBoardNext]_redisVars /\ [SubNext]_subVars /\ [IntakeNext]_intakeVars
       /\ [AutoNext]_autoVars /\ [HealthNext]_healthVars /\ [HostStatusNext]_hostVars
       /\ [SpecQueueNext]_specVars
<1> SUFFICES ASSUME [TasksNext]_tasksVars
             PROVE  /\ [RedisBoardNext]_redisVars /\ [SubNext]_subVars /\ [IntakeNext]_intakeVars
                    /\ [AutoNext]_autoVars /\ [HealthNext]_healthVars /\ [HostStatusNext]_hostVars
                    /\ [SpecQueueNext]_specVars
  OBVIOUS
<1>1. CASE UNCHANGED tasksVars
  BY <1>1 DEF tasksVars
<1>2. CASE TasksNext
  BY <1>2 DEF TasksNext, OthersStay, Stays, On
<1> QED
  BY <1>1, <1>2

TasksInv ==
  /\ RedisInv /\ SubInv /\ IntakeInv /\ AutoInv /\ HealthInv /\ HostStatusTypeOK /\ SpecInv

LEMMA TasksStay == TasksSpec => []TasksInv
<1>1. TasksInit => TasksInv
  BY Beginnings, RedisStarts, SubStarts, IntakeStarts, AutoStarts, HealthStarts, HostsStart, StartsSound
     DEF TasksInv
<1>2. TasksInv /\ [TasksNext]_tasksVars => TasksInv'
  BY Apart, RedisKept, SubKept, IntakeKept, AutoKept, HealthKept, HostsKept, CallsKeepInv DEF TasksInv
<1> QED
  BY <1>1, <1>2, PTL DEF TasksSpec

\* No task falls out of the stores or is handed out twice, for whatever calls run
\* at once in whatever order.
THEOREM TasksAreKept == TasksSpec => []TasksKept
<1>1. TasksInv => TasksKept
  BY RedisPromises, CapHolds DEF TasksInv, SubInv, IntakeInv, AutoInv, HealthInv, SpecInv, TasksKept
<1> QED
  BY TasksStay, <1>1, PTL

\* A number is given to one task, and an alarm is acted on once in a cooldown,
\* for any number of generators, alarms, crashes and lost files.
THEOREM NothingTwice == TasksSpec => NoneTwice
<1> DEFINE Fresh == \A i \in Ids, g \in Generators :
                      (CreateTask(g) /\ gen[g].alone /\ intake'[i] # intake[i]) => intake[i].stage = "none"
           Once == \A a \in Alarms :
                     (lastAction'["truth"][a] = 0 /\ monitor.at = "act" /\ monitor.alarm = a) =>
                       lastAction["truth"][a] >= Cooldown \/ a \in forgotten
<1>1. TasksInv => Fresh
  BY NumberIsFree DEF TasksInv
<1>2. TasksInv => Once
  BY ActsOnce DEF TasksInv
<1>3. TasksInv /\ [TasksNext]_tasksVars => [Fresh]_intakeVars /\ [Once]_healthVars
  BY <1>1, <1>2
<1> QED
  BY TasksStay, <1>3, PTL DEF TasksSpec, NoneTwice, FreshNumbers, OncePerCooldown
=============================================================================
