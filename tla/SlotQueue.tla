------------------------------ MODULE SlotQueue ------------------------------
(***************************************************************************)
(* gpu_slots.wait_for_slot: the queue file of one GPU slot.  Every change  *)
(* reads the whole file and writes it back later, without a lock: waiters  *)
(* register, clean out the dead of their own host at every poll, claim     *)
(* when they are at the head of what they read, and take themselves out.   *)
(* The claim itself (LockSlots) is one step here.                          *)
(***************************************************************************)
EXTENDS Naturals, Sequences, SequencesExt, FiniteSets

CONSTANTS
  Waiters,
  QueueHost,    \* the host of a waiter
  QueuePrio,    \* its priority: the lower goes first
  NoWaiter,
  MaxWaits,     \* bound: calls of wait_for_slot
  MaxQueueDeaths

ASSUME QueueFileAssumption ==
  /\ NoWaiter \notin Waiters /\ QueuePrio \in [Waiters -> Nat]
  /\ MaxWaits \in Nat /\ MaxQueueDeaths \in Nat

VARIABLES
  queueFile,   \* queue-N.json: entries in order
  queueTaken,  \* who has the slot
  waiter,      \* at; saw: the queue it read; since: its requested_at
  waits,       \* calls so far, and the clock of requested_at
  queueDead

queueVars == <<queueFile, queueTaken, waiter, waits, queueDead>>

QEntries == [by : Waiters, since : 1..MaxWaits]
Waiting  == {"dirty", "add", "poll", "dirtyPoll", "polled", "won", "leave", "left"}
Away     == [at |-> "idle", saw |-> <<>>, since |-> 0]

QueueTypeOK ==
  /\ queueFile \in Seq(QEntries)
  /\ queueTaken \in Waiters \union {NoWaiter}
  /\ \A u \in Waiters : /\ waiter[u].at \in Waiting \union {"idle", "uses"}
                        /\ waiter[u].saw \in Seq(QEntries) /\ waiter[u].since \in 0..MaxWaits
  /\ waits \in 0..MaxWaits
  /\ queueDead \subseteq Waiters

QueueInit ==
  /\ queueFile = <<>>
  /\ queueTaken = NoWaiter
  /\ waiter = [u \in Waiters |-> Away]
  /\ waits = 0
  /\ queueDead = {}

-----------------------------------------------------------------------------
\* Mutant: entries are kept until their waiter takes them out.
CleanNone(u) == queueFile

\* [e for e in q if e is one of these]
Only(q, these) ==
  LET kept[i \in 0..Len(q)] ==
        IF i = 0 THEN <<>>
        ELSE IF q[i] \in these THEN Append(kept[i - 1], q[i]) ELSE kept[i - 1]
  IN  kept[Len(q)]

\* _clean_queue: without the dead of the reader's host.
Clean(u) == Only(queueFile, {e \in QEntries : ~(QueueHost[e.by] = QueueHost[u] /\ e.by \in queueDead)})
Others(q, u) == Only(q, {e \in QEntries : e.by # u})

\* _queue_key: by priority, then by requested_at; the file is sorted.
Goes1st(e, f) == \/ QueuePrio[e.by] < QueuePrio[f.by]
                 \/ QueuePrio[e.by] = QueuePrio[f.by] /\ e.since <= f.since
Inserted(q, f) ==
  LET before == {e \in QEntries : Goes1st(e, f)}
  IN  Only(q, before) \o <<f>> \o Only(q, QEntries \ before)

Waits(u, from, to, saw) ==
  /\ u \notin queueDead /\ waiter[u].at = from
  /\ waiter' = [waiter EXCEPT ![u] = [at |-> to, saw |-> saw, since |-> waiter[u].since]]

\* The call, and the first _clean_queue, which saves only what it changed.
Enter(u) ==
  /\ u \notin queueDead /\ waiter[u].at = "idle" /\ waits < MaxWaits
  /\ waits' = waits + 1
  /\ waiter' = [waiter EXCEPT ![u] =
       [at |-> IF Clean(u) = queueFile THEN "add" ELSE "dirty", saw |-> Clean(u), since |-> waits']]
  /\ UNCHANGED <<queueFile, queueTaken, queueDead>>
SaveClean(u) ==
  /\ Waits(u, "dirty", "add", waiter[u].saw) \/ Waits(u, "dirtyPoll", "polled", waiter[u].saw)
  /\ queueFile' = waiter[u].saw
  /\ UNCHANGED <<queueTaken, waits, queueDead>>
Add(u) ==
  /\ Waits(u, "add", "poll", <<>>)
  /\ LET q == waiter[u].saw
     IN  queueFile' = IF \E e \in ToSet(q) : e.by = u THEN queueFile
                      ELSE Inserted(q, [by |-> u, since |-> waiter[u].since])
  /\ UNCHANGED <<queueTaken, waits, queueDead>>

Poll(u) ==
  /\ Waits(u, "poll", IF Clean(u) = queueFile THEN "polled" ELSE "dirtyPoll", Clean(u))
  /\ UNCHANGED <<queueFile, queueTaken, waits, queueDead>>

AtHead(u) == waiter[u].saw # <<>> /\ Head(waiter[u].saw).by = u

\* At the head of what it read, and the slot is free: the claim.
Win(u) ==
  /\ AtHead(u) /\ queueTaken = NoWaiter
  /\ Waits(u, "polled", "won", Others(waiter[u].saw, u))
  /\ queueTaken' = u
  /\ UNCHANGED <<queueFile, waits, queueDead>>
NotYet(u) ==
  /\ ~(AtHead(u) /\ queueTaken = NoWaiter)
  /\ Waits(u, "polled", "poll", <<>>)
  /\ UNCHANGED <<queueFile, queueTaken, waits, queueDead>>
SaveWon(u) ==
  /\ Waits(u, "won", "leave", <<>>)
  /\ queueFile' = waiter[u].saw
  /\ UNCHANGED <<queueTaken, waits, queueDead>>
WaitTimesOut(u) ==
  /\ Waits(u, "poll", "leave", <<>>)
  /\ UNCHANGED <<queueFile, queueTaken, waits, queueDead>>

\* The finally: clause.
LeaveRead(u) ==
  /\ Waits(u, "leave", "left", Others(queueFile, u))
  /\ UNCHANGED <<queueFile, queueTaken, waits, queueDead>>
LeaveWrite(u) ==
  /\ Waits(u, "left", IF queueTaken = u THEN "uses" ELSE "idle", <<>>)
  /\ queueFile' = waiter[u].saw
  /\ UNCHANGED <<queueTaken, waits, queueDead>>

GiveBack(u) ==
  /\ Waits(u, "uses", "idle", <<>>)
  /\ queueTaken' = NoWaiter
  /\ UNCHANGED <<queueFile, waits, queueDead>>

\* A waiter dies; the slot of a dead one is released as stale some time.
WaiterDies(u) ==
  /\ u \notin queueDead /\ Cardinality(queueDead) < MaxQueueDeaths
  /\ queueDead' = queueDead \union {u}
  /\ waiter' = [waiter EXCEPT ![u] = Away]
  /\ UNCHANGED <<queueFile, queueTaken, waits>>
SlotOfDeadFreed ==
  /\ queueTaken \in queueDead
  /\ queueTaken' = NoWaiter
  /\ UNCHANGED <<queueFile, waiter, waits, queueDead>>

QueueStep(u) ==
  \/ SaveClean(u) \/ Add(u) \/ Poll(u) \/ Win(u) \/ NotYet(u) \/ SaveWon(u)
  \/ WaitTimesOut(u) \/ LeaveRead(u) \/ LeaveWrite(u) \/ GiveBack(u)

QueueNext ==
  \/ \E u \in Waiters : Enter(u) \/ QueueStep(u) \/ WaiterDies(u)
  \/ SlotOfDeadFreed

\* A call goes on; nothing is asked of its deadline, which may be far away.
QueueFairness ==
  /\ \A u \in Waiters : WF_queueVars(QueueStep(u))
  /\ WF_queueVars(SlotOfDeadFreed)

-----------------------------------------------------------------------------
HasEntry(u) == \E e \in ToSet(queueFile) : e.by = u

\* Nobody else is in a call, and the others in the file are dead ones of u's host.
BehindDead(u) ==
  \A v \in Waiters \ {u} : /\ waiter[v].at = "idle"
                           /\ HasEntry(v) => v \in queueDead /\ QueueHost[v] = QueueHost[u]

\* "Remove stale queue entries (dead PIDs on this host)": the entries of the
\* dead do not stand in the way.  Who is in the queue behind nobody else does
\* not need its deadline to come back, also where a waiter wrote back a queue
\* it had read before the others died, and where the slot's user died.
DeadDoNotBlock ==
  \A u \in Waiters :
    (waiter[u].at \in Waiting /\ HasEntry(u) /\ BehindDead(u))
      ~> (waiter[u].at \notin Waiting \/ ~BehindDead(u))

\* The slot is only won from the head: whoever goes first among the waiters
\* alive that the winner had read has it.
FirstWins ==
  [][\A u \in Waiters :
       queueTaken' = u /\ queueTaken # u
         => \A e \in ToSet(waiter[u].saw) :
              \A f \in ToSet(waiter[u].saw) : f.by = u => Goes1st(f, e)]_queueVars
=============================================================================
