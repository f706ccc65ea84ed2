----------------------------- MODULE RedisBoard -----------------------------
(***************************************************************************)
(* The tasks in Redis: redis_client.py, and its two users, which share the *)
(* keys: swarm_redis.py, the backend of the command line, and TaskQueue of *)
(* task_queue.py.  A task is a hash, whose field state is redisState, and  *)
(* a member of the sorted sets tasks:pending, tasks:claimed and            *)
(* tasks:completed.  MULTI/EXEC pipelines and the Lua script are one step; *)
(* every other command is a step of its own.                               *)
(***************************************************************************)
EXTENDS Naturals, FiniteSets, Sequences, SequencesExt

CONSTANTS
  RedisTasks,
  SubsOf,             \* the sub-tasks a task may be decomposed into; {} for most
  RedisWorkers,
  RedisClerks,        \* the workers that requeue, decompose and check parents
  MaxRedisFaults      \* bound: requeues, and calls whose process dies between two commands

ASSUME RedisBoardAssumption ==
  /\ IsFiniteSet(RedisTasks) /\ SubsOf \in [RedisTasks -> SUBSET RedisTasks]
  /\ RedisClerks \subseteq RedisWorkers /\ MaxRedisFaults \in Nat

VARIABLES
  redisState,      \* HGET task:<id> state; none: no such hash
  redisIndex,      \* the sorted sets
  rworker,         \* the call a worker is in: its task, the task's new state, the
                   \* commands or tasks still to come, and how it got its claim
  redisRequeues,
  redisCut,        \* tasks for which a call was cut
  redisMixed       \* tasks for which one save began during another

redisVars == <<redisState, redisIndex, rworker, redisRequeues, redisCut, redisMixed>>

Stages == <<"pending", "claimed", "completed">>
HashStates == {"none", "pending", "claimed", "running", "completed", "failed", "decomposed"}
SubTasks == UNION {SubsOf[t] : t \in RedisTasks}
NoCall == [at |-> "idle"]
Call(at, t) == [at |-> at, task |-> t]
Works(t, by) == [at |-> "works", task |-> t, by |-> by]

RedisBoardTypeOK ==
  /\ redisState \in [RedisTasks -> HashStates]
  /\ redisIndex \in [ToSet(Stages) -> SUBSET RedisTasks]
  /\ \A w \in RedisWorkers :
       rworker[w].at \in {"idle", "scored", "popped", "works", "save", "decompose", "split", "check", "parent"}
  /\ redisRequeues \in 0..MaxRedisFaults
  /\ redisCut \subseteq RedisTasks /\ redisMixed \subseteq RedisTasks

\* Every task is created before, but the sub-tasks.
RedisBoardInit ==
  /\ redisState = [t \in RedisTasks |-> IF t \in SubTasks THEN "none" ELSE "pending"]
  /\ redisIndex = [s \in ToSet(Stages) |-> IF s = "pending" THEN RedisTasks \ SubTasks ELSE {}]
  /\ rworker = [w \in RedisWorkers |-> NoCall]
  /\ redisRequeues = 0
  /\ redisCut = {}
  /\ redisMixed = {}

-----------------------------------------------------------------------------
Becomes(w, call) == rworker' = [rworker EXCEPT ![w] = call]
Hset(t, s) == redisState' = [redisState EXCEPT ![t] = s]
\* ZREM from one set and ZADD to the other.
Moves(t, from, to) ==
  redisIndex' = [redisIndex EXCEPT ![from] = @ \ {t}, ![to] = @ \union {t}]

\* Mutant: the script reads the first pending task and leaves it there.
ClaimNextPeek(w, t) ==
  /\ rworker[w].at = "idle" /\ t \in redisIndex["pending"]
  /\ redisIndex' = [redisIndex EXCEPT !["claimed"] = @ \union {t}]
  /\ Hset(t, "claimed")
  /\ Becomes(w, Works(t, "script")) \/ Becomes(w, Call("popped", t))
  /\ UNCHANGED <<redisRequeues, redisCut, redisMixed>>

\* CLAIM_SCRIPT pops the task with the lowest score, which may be any;
\* TaskQueue then reads the hash and saves it as claimed once more.
ClaimNext(w, t) ==
  /\ rworker[w].at = "idle" /\ t \in redisIndex["pending"]
  /\ Moves(t, "pending", "claimed")
  /\ Hset(t, "claimed")
  /\ Becomes(w, Works(t, "script")) \/ Becomes(w, Call("popped", t))
  /\ UNCHANGED <<redisRequeues, redisCut, redisMixed>>
ClaimSave(w) ==
  /\ rworker[w].at = "popped"
  /\ Hset(rworker[w].task, "claimed")
  /\ Becomes(w, Works(rworker[w].task, "script"))
  /\ UNCHANGED <<redisIndex, redisRequeues, redisCut, redisMixed>>

\* swarm_redis.claim_task: the ZSCORE, and a pipeline that moves the task
\* wherever it is by then.
ClaimById(w, t) ==
  /\ rworker[w].at = "idle" /\ t \in redisIndex["pending"]
  /\ Becomes(w, Call("scored", t))
  /\ UNCHANGED <<redisState, redisIndex, redisRequeues, redisCut, redisMixed>>
ClaimMove(w) ==
  /\ rworker[w].at = "scored"
  /\ Moves(rworker[w].task, "pending", "claimed")
  /\ Hset(rworker[w].task, "claimed")
  /\ Becomes(w, Works(rworker[w].task, "id"))
  /\ UNCHANGED <<redisRequeues, redisCut, redisMixed>>

\* complete_task: one pipeline, whatever the state of the task is.
CompleteInRedis(w) ==
  /\ rworker[w].at = "works"
  /\ Moves(rworker[w].task, "claimed", "completed")
  /\ Hset(rworker[w].task, "completed")
  /\ Becomes(w, NoCall)
  /\ UNCHANGED <<redisRequeues, redisCut, redisMixed>>

-----------------------------------------------------------------------------
\* TaskQueue reads the task, checks its state, and saves it with one HSET,
\* a ZREM for every set and a ZADD.  A claim by id is made of an idle
\* worker, start, complete and fail of one that works on the task.
Saves(w, t, s) ==
  \/ s = "claimed" /\ rworker[w].at = "idle" /\ redisState[t] = "pending"
  \/ s = "running" /\ rworker[w].at = "works" /\ rworker[w].task = t /\ redisState[t] = "claimed"
  \/ s \in {"completed", "failed"} /\ rworker[w].at = "works" /\ rworker[w].task = t
     /\ redisState[t] \in {"claimed", "running"}
FaultsLeft == redisRequeues + Cardinality(redisCut) < MaxRedisFaults
Mixed(t) ==
  IF \E v \in RedisWorkers : rworker[v].at = "save" /\ rworker[v].task = t
    THEN redisMixed \union {t} ELSE redisMixed
QueueSave(w, t, s) ==
  /\ Saves(w, t, s)
  /\ Hset(t, s)
  /\ Becomes(w, [at |-> "save", task |-> t, to |-> s, rest |-> Stages])
  /\ redisMixed' = Mixed(t)
  /\ UNCHANGED <<redisIndex, redisRequeues, redisCut>>
\* complete() or fail() of a task that is no longer claimed returns None.
SaveInVain(w) ==
  /\ rworker[w].at = "works" /\ redisState[rworker[w].task] \notin {"claimed", "running"}
  /\ Becomes(w, NoCall)
  /\ UNCHANGED <<redisState, redisIndex, redisRequeues, redisCut, redisMixed>>
\* requeue, by hand or from requeue_stale.
QueueRequeue(w, t) ==
  /\ w \in RedisClerks /\ rworker[w].at = "idle" /\ FaultsLeft
  /\ redisState[t] \notin {"none", "completed"}
  /\ redisRequeues' = redisRequeues + 1
  /\ Hset(t, "pending")
  /\ Becomes(w, [at |-> "save", task |-> t, to |-> "pending", rest |-> Stages])
  /\ redisMixed' = Mixed(t)
  /\ UNCHANGED <<redisIndex, redisCut>>
SaveRemove(w) ==
  /\ rworker[w].at = "save" /\ rworker[w].rest # <<>>
  /\ redisIndex' = [redisIndex EXCEPT ![Head(rworker[w].rest)] = @ \ {rworker[w].task}]
  /\ Becomes(w, [rworker[w] EXCEPT !.rest = Tail(@)])
  /\ UNCHANGED <<redisState, redisRequeues, redisCut, redisMixed>>
SaveAdd(w) ==
  LET t == rworker[w].task  s == rworker[w].to
  IN  /\ rworker[w].at = "save" /\ rworker[w].rest = <<>>
      /\ redisIndex' = IF s \in ToSet(Stages) THEN [redisIndex EXCEPT ![s] = @ \union {t}]
                                              ELSE redisIndex
      /\ Becomes(w, IF s \in {"claimed", "running"} THEN Works(t, "id") ELSE NoCall)
      /\ UNCHANGED <<redisState, redisRequeues, redisCut, redisMixed>>

-----------------------------------------------------------------------------
\* decompose_task: the parent leaves tasks:pending, whatever its state is,
\* then its hash says decomposed, then the sub-tasks are created one by one.
\* One user decomposes a task once.
Decompose(w, t) ==
  /\ w \in RedisClerks /\ rworker[w].at = "idle" /\ SubsOf[t] # {} /\ redisState[t] = "pending"
  /\ \A v \in RedisWorkers : rworker[v].at \notin {"decompose", "split"}
  /\ \A sub \in SubsOf[t] : redisState[sub] = "none"
  /\ redisIndex' = [redisIndex EXCEPT !["pending"] = @ \ {t}]
  /\ Becomes(w, Call("decompose", t))
  /\ UNCHANGED <<redisState, redisRequeues, redisCut, redisMixed>>
MarkDecomposed(w) ==
  /\ rworker[w].at = "decompose"
  /\ Hset(rworker[w].task, "decomposed")
  /\ Becomes(w, [at |-> "split", task |-> rworker[w].task, rest |-> SetToSeq(SubsOf[rworker[w].task])])
  /\ UNCHANGED <<redisIndex, redisRequeues, redisCut, redisMixed>>
CreateSub(w) ==
  /\ rworker[w].at = "split"
  /\ LET sub == Head(rworker[w].rest)
         rest == Tail(rworker[w].rest)
     IN  /\ Hset(sub, "pending")
         /\ redisIndex' = [redisIndex EXCEPT !["pending"] = @ \union {sub}]
         /\ Becomes(w, IF rest = <<>> THEN NoCall ELSE [rworker[w] EXCEPT !.rest = rest])
  /\ UNCHANGED <<redisRequeues, redisCut, redisMixed>>

\* check_parent_completion reads the sub-tasks one by one, then adds the
\* parent to tasks:completed, then marks it.
CheckParent(w, t) ==
  /\ w \in RedisClerks /\ rworker[w].at = "idle" /\ SubsOf[t] # {} /\ redisState[t] = "decomposed"
  /\ Becomes(w, [at |-> "check", task |-> t, rest |-> SetToSeq(SubsOf[t])])
  /\ UNCHANGED <<redisState, redisIndex, redisRequeues, redisCut, redisMixed>>
CheckSub(w) ==
  /\ rworker[w].at = "check" /\ rworker[w].rest # <<>>
  /\ Becomes(w, IF redisState[Head(rworker[w].rest)] = "completed"
                THEN [rworker[w] EXCEPT !.rest = Tail(@)] ELSE NoCall)
  /\ UNCHANGED <<redisState, redisIndex, redisRequeues, redisCut, redisMixed>>
ParentIndexed(w) ==
  /\ rworker[w].at = "check" /\ rworker[w].rest = <<>>
  /\ redisIndex' = [redisIndex EXCEPT !["completed"] = @ \union {rworker[w].task}]
  /\ Becomes(w, Call("parent", rworker[w].task))
  /\ UNCHANGED <<redisState, redisRequeues, redisCut, redisMixed>>
ParentCompleted(w) ==
  /\ rworker[w].at = "parent"
  /\ Hset(rworker[w].task, "completed")
  /\ Becomes(w, NoCall)
  /\ UNCHANGED <<redisIndex, redisRequeues, redisCut, redisMixed>>

\* The process of a call dies between two commands.
RedisCallDies(w) ==
  /\ rworker[w].at \notin {"idle", "works", "check"} /\ FaultsLeft
  /\ redisCut' = redisCut \union {rworker[w].task}
  /\ Becomes(w, NoCall)
  /\ UNCHANGED <<redisState, redisIndex, redisRequeues, redisMixed>>

RedisGoesOn(w) ==
  \/ ClaimSave(w) \/ ClaimMove(w) \/ SaveRemove(w) \/ SaveAdd(w)
  \/ MarkDecomposed(w) \/ CreateSub(w) \/ CheckSub(w) \/ ParentIndexed(w) \/ ParentCompleted(w)
RedisEnds(w) ==
  \/ CompleteInRedis(w) \/ SaveInVain(w)
  \/ \E t \in RedisTasks, s \in {"completed", "failed"} : QueueSave(w, t, s)

RedisBoardNext ==
  \E w \in RedisWorkers :
    \/ RedisGoesOn(w) \/ RedisEnds(w) \/ RedisCallDies(w)
    \/ \E t \in RedisTasks :
         \/ ClaimNext(w, t) \/ ClaimById(w, t) \/ QueueRequeue(w, t)
         \/ QueueSave(w, t, "claimed") \/ QueueSave(w, t, "running")
         \/ Decompose(w, t) \/ CheckParent(w, t)

\* Calls go on, work ends, and somebody asks for the next task.
RedisBoardFairness ==
  /\ \A w \in RedisWorkers :
       WF_redisVars(RedisGoesOn(w)) /\ WF_redisVars(RedisEnds(w))
  /\ SF_redisVars(\E w \in RedisWorkers, t \in RedisTasks : ClaimNext(w, t))

-----------------------------------------------------------------------------
\* A task that is still to be executed is in one of the sorted sets, where
\* claims and sweeps look for it, or in the hands of a worker: late pipelines,
\* and completions in the middle of a requeue, drop none.  Calls that were
\* cut do, and so does a save that removes what another has just added.
RedisFindable ==
  \A t \in RedisTasks \ (redisCut \union redisMixed) :
    redisState[t] \in {"pending", "claimed"} =>
      \/ \E s \in ToSet(Stages) : t \in redisIndex[s]
      \/ \E w \in RedisWorkers : rworker[w].at # "idle" /\ rworker[w].task = t

\* CLAIM_SCRIPT hands one task to one worker, as long as nothing is
\* requeued: claims by id, and completions of such claims, do not change that.
ScriptClaimsOnce ==
  redisRequeues = 0 =>
    \A v, w \in RedisWorkers, t \in RedisTasks :
      v # w => ~(Works(t, "script") = rworker[v] /\ Works(t, "script") = rworker[w])

\* A created task is executed, unless a call for it was cut or two saves
\* mixed: a late pipeline or save of another worker may set a completed task
\* back to claimed or pending, and then it is completed again.
RedisSettles ==
  \A t \in RedisTasks :
    redisState[t] # "none" ~>
      \/ redisState[t] \in {"completed", "failed", "decomposed"}
      \/ t \in redisCut \union redisMixed
=============================================================================
