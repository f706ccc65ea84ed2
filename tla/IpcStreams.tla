----------------------------- MODULE IpcStreams -----------------------------
(***************************************************************************)
(* hydra-ipc over Redis (src/ipc): who is registered, the entries of the   *)
(* inbox, channel and dead-letter streams, and the SQLite mirror of the    *)
(* dead-letter queue.  A step is one Redis command, pipeline or script, or *)
(* one SQLite statement; a call of the Python code is several of them.     *)
(*                                                                         *)
(* Stream entries are numbered as XADD creates them.  Left out: the        *)
(* MAXLEN of the streams and count=10 of a read (never reached here), the  *)
(* project sets, metrics, and recv with auto_ack=False.                    *)
(***************************************************************************)
EXTENDS Naturals, FiniteSets

CONSTANTS
  Agents,      \* processes that register; an id holds the pid, so is not reused
  Channel,     \* a channel with one consumer group all agents read
  Msgs,        \* envelopes
  To,          \* the recipient of each envelope: an agent or Channel
  Watchers,    \* processes that list the agents: session start, `hydra-ipc status`
  Operators,   \* processes that sweep an inbox or run the dlq commands
  N,           \* bound: entries ever added to a stream
  Silent,      \* agents that registered with auto_heartbeat=False
  MaxFaults,   \* bound: crashes, failed commands, lapsed TTLs
  MaxJobs,     \* bound: sweeps, requeues, purges and prunes
  MaxSent,     \* bound: envelopes sent
  Nobody, NoMsg, Idle

Entries == 1 .. N
Boxes == Agents \union {Channel}

ASSUME StreamsAssumption ==
  /\ N \in Nat /\ MaxFaults \in Nat /\ MaxJobs \in Nat /\ MaxSent \in Nat
  /\ To \in [Msgs -> Boxes] /\ Channel \notin Agents
  /\ NoMsg \notin Msgs /\ Nobody \notin Boxes /\ Silent \subseteq Agents

VARIABLES
  index,     \* the set ipc:agents:index
  hash,      \* agents whose hash ipc:agent:<id> exists
  lapsed,    \* agents whose hash went away at some time
  place,     \* of an entry: free, new, pending, acked (in an inbox or channel), dlq, gone
  msg, box, reader,   \* of an entry: its envelope, its stream, its consumer
  row,       \* of a DLQ entry in SQLite: none, open, requeued, purged, expired
  sent, expired,      \* envelopes
  got,       \* <<a, m>>: recv or consume of a returned m
  dropped,   \* envelopes a reader acked unread because their TTL was over
  discarded, \* envelopes purged or pruned from the DLQ
  at, batch, from,    \* of an agent: its call, the entries it read, from where
  job, todo, item, copy,   \* of an operator: its call, entries left, this one, its DLQ copy
  verdict,   \* of an operator: the resolution it is about to record
  ids, stale, \* of a watcher: agents it listed (Idle: none), those without a hash
  faults, jobs

presence == <<index, hash, lapsed>>
streams  == <<place, msg, box, reader>>
fates    == <<got, dropped, discarded>>
agentVars == <<at, batch, from>>
dlqJob   == <<job, todo, item, copy, verdict>>
looking  == <<ids, stale>>
vars == <<presence, streams, row, sent, expired, fates, agentVars, dlqJob,
          looking, faults, jobs>>

AgentCalls == {"off", "joining", "on", "reading", "acking", "leaving", "dead"}
Jobs == {"none", "sweep", "persist", "sweepack", "readd", "delete", "trim", "mark"}
Verdicts == {"none", "requeued", "purged", "expired"}

TypeOK ==
  /\ index \subseteq Agents /\ hash \subseteq Agents /\ lapsed \subseteq Agents
  /\ place \in [Entries -> {"free", "new", "pending", "acked", "dlq", "gone"}]
  /\ msg \in [Entries -> Msgs \union {NoMsg}]
  /\ box \in [Entries -> Boxes \union {Nobody}]
  /\ reader \in [Entries -> Agents \union {Nobody}]
  /\ row \in [Entries -> Verdicts \union {"open"}]
  /\ sent \subseteq Msgs /\ expired \subseteq Msgs
  /\ got \subseteq Agents \X Msgs /\ dropped \subseteq Msgs /\ discarded \subseteq Msgs
  /\ at \in [Agents -> AgentCalls]
  /\ batch \in [Agents -> SUBSET Entries] /\ from \in [Agents -> Boxes \union {Nobody}]
  /\ job \in [Operators -> Jobs] /\ todo \in [Operators -> SUBSET Entries]
  /\ item \in [Operators -> 0 .. N] /\ copy \in [Operators -> 0 .. N]
  /\ verdict \in [Operators -> Verdicts]
  /\ ids \in [Watchers -> (SUBSET Agents) \union {Idle}]
  /\ stale \in [Watchers -> SUBSET Agents]
  /\ faults \in 0 .. MaxFaults /\ jobs \in 0 .. MaxJobs

Init ==
  /\ index = {} /\ hash = {} /\ lapsed = {}
  /\ place = [e \in Entries |-> "free"] /\ msg = [e \in Entries |-> NoMsg]
  /\ box = [e \in Entries |-> Nobody] /\ reader = [e \in Entries |-> Nobody]
  /\ row = [e \in Entries |-> "none"]
  /\ sent = {} /\ expired = {} /\ got = {} /\ dropped = {} /\ discarded = {}
  /\ at = [a \in Agents |-> "off"] /\ batch = [a \in Agents |-> {}]
  /\ from = [a \in Agents |-> Nobody]
  /\ job = [o \in Operators |-> "none"] /\ todo = [o \in Operators |-> {}]
  /\ item = [o \in Operators |-> 0] /\ copy = [o \in Operators |-> 0]
  /\ verdict = [o \in Operators |-> "none"]
  /\ ids = [v \in Watchers |-> Idle] /\ stale = [v \in Watchers |-> {}]
  /\ faults = 0 /\ jobs = 0

Fault == faults < MaxFaults /\ faults' = faults + 1
-----------------------------------------------------------------------------
(* Presence: register, deregister, the TTL of the agent hash *)

\* Mutant: register enters the agent in the index before it writes the hash.
RegisterIndexFirst(a) ==
  /\ \/ /\ at[a] = "off" \/ (at[a] = "on" /\ a \notin hash \intersect index)
        /\ index' = index \union {a} /\ hash' = hash
        /\ at' = [at EXCEPT ![a] = "joining"]
     \/ /\ at[a] = "joining"
        /\ hash' = hash \union {a} /\ index' = index
        /\ at' = [at EXCEPT ![a] = "on"]
  /\ UNCHANGED <<lapsed, streams, row, sent, expired, fates, batch, from, dlqJob,
                 looking, faults, jobs>>

\* register: the hash is written first, then the index.  (Registering again
\* while both are there changes nothing.)
Register(a) ==
  /\ \/ /\ at[a] = "off" \/ (at[a] = "on" /\ a \notin hash \intersect index)
        /\ hash' = hash \union {a} /\ index' = index
        /\ at' = [at EXCEPT ![a] = "joining"]
     \/ /\ at[a] = "joining"
        /\ index' = index \union {a} /\ hash' = hash
        /\ at' = [at EXCEPT ![a] = "on"]
  /\ UNCHANGED <<lapsed, streams, row, sent, expired, fates, batch, from, dlqJob,
                 looking, faults, jobs>>

\* deregister: out of the index, then the hash is deleted.  The inbox stays.
DeregisterIndex(a) ==
  /\ at[a] = "on"
  /\ index' = index \ {a}
  /\ at' = [at EXCEPT ![a] = "leaving"]
  /\ UNCHANGED <<hash, lapsed, streams, row, sent, expired, fates, batch, from, dlqJob,
                 looking, faults, jobs>>

DeregisterHash(a) ==
  /\ at[a] = "leaving"
  /\ hash' = hash \ {a} /\ lapsed' = lapsed \union {a}
  /\ at' = [at EXCEPT ![a] = "off"]
  /\ UNCHANGED <<index, streams, row, sent, expired, fates, batch, from, dlqJob,
                 looking, faults, jobs>>

\* A killed process neither deregisters nor sends another heartbeat.
Crash(a) ==
  /\ at[a] \notin {"off", "dead"} /\ Fault
  /\ at' = [at EXCEPT ![a] = "dead"]
  /\ batch' = [batch EXCEPT ![a] = {}] /\ from' = [from EXCEPT ![a] = Nobody]
  /\ UNCHANGED <<presence, streams, row, sent, expired, fates, dlqJob, looking, jobs>>

\* The hash runs out of its TTL: of a dead agent, or of one nobody refreshes
\* (refresh_heartbeat does not bring a hash back).
HashExpires(a) ==
  /\ a \in hash
  /\ \/ at[a] = "dead" /\ faults' = faults
     \/ a \in Silent /\ at[a] # "dead" /\ Fault
  /\ hash' = hash \ {a} /\ lapsed' = lapsed \union {a}
  /\ UNCHANGED <<index, streams, row, sent, expired, fates, agentVars, dlqJob,
                 looking, jobs>>

\* list_agents and cleanup_stale: the index is read, ...
Look(v) ==
  /\ ids[v] = Idle /\ index # {}
  /\ ids' = [ids EXCEPT ![v] = index]
  /\ UNCHANGED <<presence, streams, row, sent, expired, fates, agentVars, dlqJob, stale,
                 faults, jobs>>

\* ... the hashes of those in it are looked up (in one pipeline; cleanup_stale
\* asks for one after the other), ...
LookUp(v) ==
  /\ ids[v] \notin {Idle, {}}
  /\ stale' = [stale EXCEPT ![v] = ids[v] \ hash]
  /\ ids' = [ids EXCEPT ![v] = {}]
  /\ UNCHANGED <<presence, streams, row, sent, expired, fates, agentVars, dlqJob,
                 faults, jobs>>

\* Mutant: the stale ids are reported and stay in the index.
ForgetNothing(v) ==
  /\ ids[v] = {}
  /\ ids' = [ids EXCEPT ![v] = Idle]
  /\ stale' = [stale EXCEPT ![v] = {}]
  /\ UNCHANGED <<presence, streams, row, sent, expired, fates, agentVars, dlqJob, faults,
                 jobs>>

\* ... and those without one leave the index, whatever happened meanwhile.
Forget(v) ==
  /\ ids[v] = {}
  /\ index' = index \ stale[v]
  /\ ids' = [ids EXCEPT ![v] = Idle]
  /\ stale' = [stale EXCEPT ![v] = {}]
  /\ UNCHANGED <<hash, lapsed, streams, row, sent, expired, fates, agentVars, dlqJob,
                 faults, jobs>>
-----------------------------------------------------------------------------
(* Sending and receiving *)

\* XADD: the next entry, in an inbox or channel ("new") or in the DLQ.
NewEntry == CHOOSE e \in Entries : place[e] = "free" /\ \A f \in Entries : place[f] = "free" => e <= f

Add(p, b, m) ==
  /\ \E e \in Entries : place[e] = "free"
  /\ place' = [place EXCEPT ![NewEntry] = p]
  /\ msg' = [msg EXCEPT ![NewEntry] = m]
  /\ box' = [box EXCEPT ![NewEntry] = b]
  /\ UNCHANGED reader

\* SEND_ATOMIC: into the inbox if the index has the recipient, else into the
\* DLQ (with no row in SQLite).  A publish goes to the channel.
Send(m) ==
  /\ m \notin sent /\ Cardinality(sent) < MaxSent
  /\ sent' = sent \union {m}
  /\ IF To[m] = Channel \/ To[m] \in index
       THEN Add("new", To[m], m)
       ELSE Add("dlq", Nobody, m)
  /\ UNCHANGED <<presence, row, expired, fates, agentVars, dlqJob, looking, faults, jobs>>

\* The TTL of a direct message passes; published ones have none.
Expire(m) ==
  /\ m \in sent \ expired /\ To[m] # Channel /\ Fault
  /\ expired' = expired \union {m}
  /\ UNCHANGED <<presence, streams, row, sent, fates, agentVars, dlqJob, looking, jobs>>

\* Mutant: any reader of the group is handed the entries pending there.
OwnPendingAny(a, b) == {e \in Entries : place[e] = "pending" /\ box[e] = b}

\* XREADGROUP with id 0: the entries this consumer read and did not ack.
OwnPending(a, b) == {e \in Entries : place[e] = "pending" /\ box[e] = b /\ reader[e] = a}

Unread(b) == {e \in Entries : place[e] = "new" /\ box[e] = b}

\* Mutant: recv reads new messages only when none were pending, and none
\* that were.
ReadPendingSkipped(a, b) ==
  /\ at[a] = "on" /\ b \in {a, Channel}
  /\ Unread(b) # {}
  /\ batch' = [batch EXCEPT ![a] = {}]
  /\ from' = [from EXCEPT ![a] = b]
  /\ at' = [at EXCEPT ![a] = "reading"]
  /\ UNCHANGED <<presence, streams, row, sent, expired, fates, dlqJob, looking, faults, jobs>>

\* recv and consume read what is pending first, ...  (A call that finds
\* nothing changes nothing and is left out.)
ReadPending(a, b) ==
  /\ at[a] = "on" /\ b \in {a, Channel}
  /\ OwnPending(a, b) \union Unread(b) # {}
  /\ batch' = [batch EXCEPT ![a] = OwnPending(a, b)]
  /\ from' = [from EXCEPT ![a] = b]
  /\ at' = [at EXCEPT ![a] = "reading"]
  /\ UNCHANGED <<presence, streams, row, sent, expired, fates, dlqJob, looking, faults, jobs>>

\* ... then what is new, which makes it pending for this consumer.
ReadNew(a) ==
  /\ at[a] = "reading"
  /\ LET new == Unread(from[a])
     IN  /\ place' = [e \in Entries |-> IF e \in new THEN "pending" ELSE place[e]]
         /\ reader' = [e \in Entries |-> IF e \in new THEN a ELSE reader[e]]
         /\ batch' = [batch EXCEPT ![a] = @ \union new]
         /\ at' = [at EXCEPT ![a] = IF batch[a] \union new = {} THEN "on" ELSE "acking"]
  /\ UNCHANGED <<presence, msg, box, row, sent, expired, fates, from, dlqJob, looking,
                 faults, jobs>>

\* All that was read is acked, and returned unless its TTL is over.
Ack(a) ==
  LET read == {msg[e] : e \in batch[a]}
  IN  /\ at[a] = "acking"
      /\ place' = [e \in Entries |-> IF e \in batch[a] /\ place[e] = "pending"
                                       THEN "acked" ELSE place[e]]
      /\ got' = got \union {<<a, m>> : m \in read \ expired}
      /\ dropped' = dropped \union (read \intersect expired)
      /\ at' = [at EXCEPT ![a] = "on"]
      /\ batch' = [batch EXCEPT ![a] = {}] /\ from' = [from EXCEPT ![a] = Nobody]
      /\ UNCHANGED <<presence, msg, box, reader, row, sent, expired, discarded, dlqJob,
                     looking, faults, jobs>>

\* A Redis command of the call fails: the exception goes to the caller.
RecvFails(a) ==
  /\ at[a] \in {"reading", "acking"} /\ Fault
  /\ at' = [at EXCEPT ![a] = "on"]
  /\ batch' = [batch EXCEPT ![a] = {}] /\ from' = [from EXCEPT ![a] = Nobody]
  /\ UNCHANGED <<presence, streams, row, sent, expired, fates, dlqJob, looking, jobs>>
-----------------------------------------------------------------------------
(* The dead-letter queue *)

Start(o, j, entries) ==
  /\ job[o] = "none" /\ jobs < MaxJobs /\ entries # {}
  /\ jobs' = jobs + 1
  /\ job' = [job EXCEPT ![o] = j]
  /\ todo' = [todo EXCEPT ![o] = entries]

Done(o) ==
  /\ job' = [job EXCEPT ![o] = "none"]
  /\ todo' = [todo EXCEPT ![o] = {}]
  /\ item' = [item EXCEPT ![o] = 0] /\ copy' = [copy EXCEPT ![o] = 0]
  /\ verdict' = [verdict EXCEPT ![o] = "none"]

\* Mutant: sweep_pending acks what it listed before it adds it to the DLQ.
SweepListAcks(o, a) ==
  /\ \E idle \in SUBSET {e \in Entries : place[e] = "pending" /\ box[e] = a} :
       /\ Start(o, "sweep", idle)
       /\ place' = [e \in Entries |-> IF e \in idle THEN "acked" ELSE place[e]]
  /\ UNCHANGED <<presence, msg, box, reader, row, sent, expired, fates, agentVars, item,
                 copy, verdict, looking, faults>>

\* sweep_pending: the entries of an inbox that were pending for a minute.
SweepList(o, a) ==
  /\ \E idle \in SUBSET {e \in Entries : place[e] = "pending" /\ box[e] = a} :
       Start(o, "sweep", idle)
  /\ UNCHANGED <<presence, streams, row, sent, expired, fates, agentVars, item, copy, verdict,
                 looking, faults>>

\* The next one is read from the inbox, where it still is, and added to the DLQ.
SweepAdd(o, e) ==
  /\ job[o] = "sweep" /\ e \in todo[o]
  /\ Add("dlq", Nobody, msg[e])
  /\ item' = [item EXCEPT ![o] = e]
  /\ copy' = [copy EXCEPT ![o] = NewEntry]
  /\ job' = [job EXCEPT ![o] = "persist"]
  /\ UNCHANGED <<presence, row, sent, expired, fates, agentVars, todo, verdict, looking,
                 faults, jobs>>

\* INSERT OR IGNORE of the new entry.
SweepPersist(o) ==
  /\ job[o] = "persist"
  /\ row' = [row EXCEPT ![copy[o]] = IF @ = "none" THEN "open" ELSE @]
  /\ job' = [job EXCEPT ![o] = "sweepack"]
  /\ UNCHANGED <<presence, streams, sent, expired, fates, agentVars, todo, item, copy, verdict,
                 looking, faults, jobs>>

\* XACK, which finds nothing if the reader acked first.
SweepAck(o) ==
  /\ job[o] = "sweepack"
  /\ place' = [place EXCEPT ![item[o]] = IF @ = "pending" THEN "acked" ELSE @]
  /\ IF todo[o] = {item[o]}
       THEN Done(o)
       ELSE /\ job' = [job EXCEPT ![o] = "sweep"]
            /\ todo' = [todo EXCEPT ![o] = @ \ {item[o]}]
            /\ item' = [item EXCEPT ![o] = 0] /\ copy' = [copy EXCEPT ![o] = 0]
            /\ UNCHANGED verdict
  /\ UNCHANGED <<presence, msg, box, reader, row, sent, expired, fates, agentVars,
                 looking, faults, jobs>>

\* requeue: one entry is read by its id, ...
RequeueRead(o, e) ==
  /\ place[e] = "dlq"
  /\ Start(o, "readd", {e})
  /\ verdict' = [verdict EXCEPT ![o] = "requeued"]
  /\ UNCHANGED <<presence, streams, row, sent, expired, fates, agentVars, item, copy, looking,
                 faults>>

\* ... added to the inbox of its recipient or of another one, ...
RequeueAdd(o, a) ==
  /\ job[o] = "readd"
  /\ \E e \in todo[o] : Add("new", a, msg[e])
  /\ job' = [job EXCEPT ![o] = "delete"]
  /\ UNCHANGED <<presence, row, sent, expired, fates, agentVars, todo, item, copy, verdict,
                 looking, faults, jobs>>

\* Mutant: the row is marked before the entry is deleted.
DeleteMarksFirst(o) ==
  /\ job[o] = "delete"
  /\ row' = [e \in Entries |-> IF e \in todo[o] /\ row[e] = "open" THEN verdict[o] ELSE row[e]]
  /\ job' = [job EXCEPT ![o] = "mark"]
  /\ UNCHANGED <<presence, streams, sent, expired, fates, agentVars, todo, item, copy, verdict,
                 looking, faults, jobs>>

\* ... and deleted, as purge deletes the old entries it read.
Delete(o) ==
  /\ job[o] = "delete"
  /\ place' = [e \in Entries |-> IF e \in todo[o] /\ place[e] = "dlq" THEN "gone" ELSE place[e]]
  /\ discarded' = IF verdict[o] = "requeued" THEN discarded
                  ELSE discarded \union {msg[e] : e \in {f \in todo[o] : place[f] = "dlq"}}
  /\ job' = [job EXCEPT ![o] = "mark"]
  /\ UNCHANGED <<presence, msg, box, reader, row, sent, expired, got, dropped, agentVars,
                 todo, item, copy, verdict, looking, faults, jobs>>

\* purge and prune_old_messages list the entries older than a limit.
PurgeList(o) ==
  /\ \E old \in SUBSET {e \in Entries : place[e] = "dlq"} :
       \/ Start(o, "delete", old) /\ verdict' = [verdict EXCEPT ![o] = "purged"]
       \/ Start(o, "trim", old) /\ verdict' = [verdict EXCEPT ![o] = "expired"]
  /\ UNCHANGED <<presence, streams, row, sent, expired, fates, agentVars, item, copy, looking,
                 faults>>

\* XTRIM MINID with approximate=True: the oldest ones, perhaps not all.
Trim(o) ==
  /\ job[o] = "trim"
  /\ \E k \in 0 .. N :
       LET cut == {e \in todo[o] : e <= k /\ place[e] = "dlq"}
       IN  /\ place' = [e \in Entries |-> IF e \in cut THEN "gone" ELSE place[e]]
           /\ discarded' = discarded \union {msg[e] : e \in cut}
  /\ job' = [job EXCEPT ![o] = "mark"]
  /\ UNCHANGED <<presence, msg, box, reader, row, sent, expired, got, dropped, agentVars,
                 todo, item, copy, verdict, looking, faults, jobs>>

\* mark_resolved and mark_resolved_bulk: WHERE resolution IS NULL.
Mark(o) ==
  /\ job[o] = "mark"
  /\ row' = [e \in Entries |-> IF e \in todo[o] /\ row[e] = "open" THEN verdict[o] ELSE row[e]]
  /\ Done(o)
  /\ UNCHANGED <<presence, streams, sent, expired, fates, agentVars, looking, faults, jobs>>

OperatorDies(o) ==
  /\ job[o] # "none" /\ Fault
  /\ Done(o)
  /\ UNCHANGED <<presence, streams, row, sent, expired, fates, agentVars, looking, jobs>>
-----------------------------------------------------------------------------
Receive(a) ==
  (\E b \in Boxes : ReadPending(a, b)) \/ ReadNew(a)

WatcherStep(v) == LookUp(v) \/ Forget(v)

OperatorStep(o) ==
  \/ (\E e \in Entries : SweepAdd(o, e)) \/ SweepPersist(o) \/ SweepAck(o)
  \/ (\E a \in Agents : RequeueAdd(o, a)) \/ Delete(o) \/ Trim(o) \/ Mark(o)

\* Everything but the steps the RPC layer builds on: Send, Ack, Crash.
Others ==
  \/ \E a \in Agents :
       \/ Register(a) \/ DeregisterIndex(a) \/ DeregisterHash(a)
       \/ HashExpires(a) \/ Receive(a) \/ RecvFails(a)
  \/ \E m \in Msgs : Expire(m)
  \/ \E v \in Watchers : Look(v) \/ WatcherStep(v)
  \/ \E o \in Operators :
       \/ OperatorStep(o) \/ OperatorDies(o) \/ PurgeList(o)
       \/ (\E a \in Agents : SweepList(o, a)) \/ (\E e \in Entries : RequeueRead(o, e))

Next ==
  \/ Others
  \/ (\E m \in Msgs : Send(m)) \/ (\E a \in Agents : Ack(a) \/ Crash(a))

Spec == Init /\ [][Next]_vars
-----------------------------------------------------------------------------
(* Properties *)

\* An envelope that was sent is in an inbox, the channel or the dead-letter
\* queue until some call returned it, found its TTL over, or purged it.
NothingLost ==
  \A m \in sent :
    \/ \E e \in Entries : msg[e] = m /\ place[e] \in {"new", "pending", "dlq"}
    \/ m \in dropped \union discarded \/ \E a \in Agents : <<a, m>> \in got

\* "each message is delivered to exactly one subscriber (competing consumers
\* pattern)" (channels.consume): also after a failed read, which is repeated.
CompetingConsumers ==
  \A m \in Msgs : To[m] = Channel =>
    \A a, b \in Agents : <<a, m>> \in got /\ <<b, m>> \in got => a = b

\* A message is kept until somebody takes it, and no two take it from the channel.
MessagesKept == NothingLost /\ CompetingConsumers

\* An agent whose hash never lapsed since it registered can be sent to,
\* whoever cleans up stale index entries meanwhile.
HeartbeatingReachable ==
  \A a \in Agents \ lapsed : at[a] \in {"on", "reading", "acking"} => a \in index

\* The SQLite mirror resolves an entry only once it has left the DLQ: a row
\* says requeued when the message is in an inbox again, purged when it is
\* deleted.  (prune_old_messages records more than XTRIM removed.)
ResolvedIsGone ==
  \A e \in Entries :
    /\ row[e] \in {"requeued", "purged"} => place[e] # "dlq"
    /\ row[e] = "requeued" =>
         \E f \in Entries : f > e /\ msg[f] = msg[e] /\ place[f] \in {"new", "pending", "acked"}
=============================================================================
