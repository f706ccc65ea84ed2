------------------------------ MODULE SpecQueue ------------------------------
(***************************************************************************)
(* The in-memory queue behind the protocol of swarm_spec                   *)
(* (swarm_spec_impl/task_queue.py).  Nothing checks who calls: enqueue,    *)
(* ack and nack may name any task in any state, so a late ack or nack of a *)
(* worker that lost its task, and a second enqueue, are ordinary steps.    *)
(***************************************************************************)
EXTENDS Integers

CONSTANTS
  SpecTasks, SpecWorkers, NoWorker,
  IdempotencyKey,   \* of a task: its key, or NoKey
  NoKey,
  SpecPriority,     \* of a task: the higher goes first
  SpecAge,          \* of a task: created_at; the older goes first among equals
  Able              \* of a worker: the tasks whose capabilities it has one of

ASSUME SpecQueueAssumption ==
  /\ NoWorker \notin SpecWorkers
  /\ SpecPriority \in [SpecTasks -> Int] /\ SpecAge \in [SpecTasks -> Int]
  /\ Able \in [SpecWorkers -> SUBSET SpecTasks]

VARIABLES
  specState,   \* _tasks: the state of a task
  dequeuedBy,  \* _dequeued
  discarded    \* _discarded

specVars == <<specState, dequeuedBy, discarded>>

SpecStates == {"unknown", "pending", "claimed", "completed", "failed"}

SpecTypeOK ==
  /\ specState \in [SpecTasks -> SpecStates]
  /\ dequeuedBy \in [SpecTasks -> SpecWorkers \union {NoWorker}]
  /\ discarded \subseteq SpecTasks

SpecQueueInit ==
  /\ specState = [t \in SpecTasks |-> "unknown"]
  /\ dequeuedBy = [t \in SpecTasks |-> NoWorker]
  /\ discarded = {}

-----------------------------------------------------------------------------
Stored == {t \in SpecTasks : specState[t] # "unknown"}

\* enqueue: a task whose key is that of a stored one, other than a discarded
\* one, is not stored again; without a key it is made pending, also a second time.
Enqueue(t) ==
  /\ ~\E u \in Stored \ discarded : IdempotencyKey[t] # NoKey /\ IdempotencyKey[u] = IdempotencyKey[t]
  /\ specState' = [specState EXCEPT ![t] = "pending"]
  /\ UNCHANGED <<dequeuedBy, discarded>>

\* dequeue: the first of those pending that w is able to do.
Eligible(w) == {t \in Able[w] : specState[t] = "pending" /\ t \notin discarded}
GoesBefore(t, u) ==
  \/ SpecPriority[t] > SpecPriority[u]
  \/ SpecPriority[t] = SpecPriority[u] /\ SpecAge[t] < SpecAge[u]
Dequeue(w, t) ==
  /\ t \in Eligible(w) /\ ~\E u \in Eligible(w) : GoesBefore(u, t)
  /\ specState' = [specState EXCEPT ![t] = "claimed"]
  /\ dequeuedBy' = [dequeuedBy EXCEPT ![t] = w]
  /\ UNCHANGED discarded

Ack(t) ==
  /\ t \in Stored
  /\ specState' = [specState EXCEPT ![t] = "completed"]
  /\ dequeuedBy' = [dequeuedBy EXCEPT ![t] = NoWorker]
  /\ UNCHANGED discarded

\* Mutant: a retry takes the task out of the discarded ones.
NackRetryForgives(t) ==
  /\ t \in Stored
  /\ specState' = [specState EXCEPT ![t] = "pending"]
  /\ dequeuedBy' = [dequeuedBy EXCEPT ![t] = NoWorker]
  /\ discarded' = discarded \ {t}

\* nack with retry: pending again; without: out of circulation for good.
NackRetry(t) ==
  /\ t \in Stored
  /\ specState' = [specState EXCEPT ![t] = "pending"]
  /\ dequeuedBy' = [dequeuedBy EXCEPT ![t] = NoWorker]
  /\ UNCHANGED discarded
NackDiscard(t) ==
  /\ t \in Stored
  /\ specState' = [specState EXCEPT ![t] = "failed"]
  /\ dequeuedBy' = [dequeuedBy EXCEPT ![t] = NoWorker]
  /\ discarded' = discarded \union {t}

SpecQueueNext ==
  \E t \in SpecTasks :
    \/ Enqueue(t) \/ Ack(t) \/ NackRetry(t) \/ NackDiscard(t)
    \/ \E w \in SpecWorkers : Dequeue(w, t)

SpecQueueSpec == SpecQueueInit /\ [][SpecQueueNext]_specVars

-----------------------------------------------------------------------------
\* "Enforces idempotency_key deduplication": of the tasks that share a key
\* one at most is in circulation, whatever was acknowledged or discarded.
OnePerKey ==
  \A t, u \in Stored \ discarded :
    IdempotencyKey[t] # NoKey /\ IdempotencyKey[t] = IdempotencyKey[u] => t = u

\* "discard if retry=False": no worker works on a discarded task, although
\* a late nack or another enqueue may make it pending.
DiscardedRest == \A t \in discarded : specState[t] # "claimed"

\* A worker is on record for a task with a key as long as it works on it.
\* (One without a key may be enqueued, and handed out, while it is worked on.)
HolderOnRecord ==
  \A t \in SpecTasks : IdempotencyKey[t] # NoKey =>
    (specState[t] = "claimed" <=> dequeuedBy[t] # NoWorker)
=============================================================================
