------------------------------- MODULE IpcRpc -------------------------------
(***************************************************************************)
(* Request and response over hydra-ipc (src/ipc/rpc.py) on top of the      *)
(* streams: a request is an envelope in the target's inbox, its answers    *)
(* are pushed to a Redis list named after it, which the caller pops.       *)
(* Left out: error responses, callers that die, and ipc:rpc:pending, which *)
(* only cleanup_expired_rpcs reads, which nothing calls.                   *)
(***************************************************************************)
EXTENDS IpcStreams, Sequences

CONSTANTS
  Calls,     \* the envelopes that are requests
  Streamed,  \* those whose caller uses request_stream
  Chunks     \* chunks of a streamed answer; the final marker comes on top

ASSUME RpcAssumption ==
  Calls \subseteq Msgs /\ Streamed \subseteq Calls /\ Chunks \in Nat
  /\ \A c \in Calls : To[c] \in Agents

VARIABLES
  call,     \* of a request: none, waiting, done, timeout
  replies,  \* the list ipc:rpc:resp:<id>: the numbers of the parts in it
  heard,    \* what the caller popped
  part      \* of an inbox entry: the part its handler sends next, 0 if it has none

rpcVars == <<call, replies, heard, part>>
allVars == <<vars, rpcVars>>

Parts(c) == IF c \in Streamed THEN Chunks + 1 ELSE 1

RpcTypeOK ==
  /\ TypeOK
  /\ call \in [Calls -> {"none", "waiting", "done", "timeout"}]
  /\ replies \in [Calls -> Seq(0 .. Chunks + 1)] /\ heard \in [Calls -> Seq(0 .. Chunks + 1)]
  /\ part \in [Entries -> 0 .. Chunks + 2]

RpcInit ==
  /\ Init
  /\ call = [c \in Calls |-> "none"]
  /\ replies = [c \in Calls |-> <<>>] /\ heard = [c \in Calls |-> <<>>]
  /\ part = [e \in Entries |-> 0]

\* Mutant: the placeholder that creates the list is not popped again.
RequestPlaceholder(c) ==
  /\ c \notin sent /\ Cardinality(sent) < MaxSent
  /\ sent' = sent \union {c}
  /\ Add("new", To[c], c)
  /\ call' = [call EXCEPT ![c] = "waiting"]
  /\ replies' = [replies EXCEPT ![c] = <<0>>]
  /\ UNCHANGED <<presence, row, expired, fates, agentVars, dlqJob, looking, faults, jobs,
                 heard, part>>

\* RPC_REQUEST_ATOMIC: into the target's inbox, whether or not it is registered.
Request(c) ==
  /\ c \notin sent /\ Cardinality(sent) < MaxSent
  /\ sent' = sent \union {c}
  /\ Add("new", To[c], c)
  /\ call' = [call EXCEPT ![c] = "waiting"]
  /\ replies' = [replies EXCEPT ![c] = <<>>]
  /\ UNCHANGED <<presence, row, expired, fates, agentVars, dlqJob, looking, faults, jobs,
                 heard, part>>

\* The requests recv returns are handled, each time one is returned.
AckAndHandle(a) ==
  /\ Ack(a)
  /\ part' = [e \in Entries |->
                IF e \in batch[a] /\ msg[e] \in Calls \ expired THEN 1 ELSE part[e]]
  /\ UNCHANGED <<call, replies, heard>>

\* The handlers of a killed agent end with it.
CrashAndDrop(a) ==
  /\ Crash(a)
  /\ part' = [e \in Entries |-> IF reader[e] = a THEN 0 ELSE part[e]]
  /\ UNCHANGED <<call, replies, heard>>

\* Mutant: the handler goes on after the last part.
RespondForever(e) ==
  LET c == msg[e]
  IN  /\ part[e] > 0 /\ at[reader[e]] \notin {"off", "dead"}
      /\ replies' = [replies EXCEPT ![c] = <<part[e]>> \o @]
      /\ part' = [part EXCEPT ![e] = @ + 1]
      /\ UNCHANGED <<vars, call, heard>>

\* respond, respond_stream: LPUSH of the next part; the last part of a
\* stream is its final marker.  Nobody asks whether the caller still waits.
Respond(e) ==
  LET c == msg[e]
  IN  /\ part[e] > 0 /\ at[reader[e]] \notin {"off", "dead"}
      /\ replies' = [replies EXCEPT ![c] = <<part[e]>> \o @]
      /\ part' = [part EXCEPT ![e] = IF @ = Parts(c) THEN 0 ELSE @ + 1]
      /\ UNCHANGED <<vars, call, heard>>

Answered(c, head) == c \notin Streamed \/ head = Parts(c)

\* BLPOP: a plain request ends with the first answer, a streamed one with
\* the final marker.
Hear(c) ==
  /\ call[c] = "waiting" /\ replies[c] # <<>>
  /\ heard' = [heard EXCEPT ![c] = Append(@, Head(replies[c]))]
  /\ replies' = [replies EXCEPT ![c] = Tail(@)]
  /\ IF Answered(c, Head(replies[c]))
       THEN call' = [call EXCEPT ![c] = "done"] ELSE UNCHANGED call
  /\ UNCHANGED <<vars, part>>

\* RPCTimeout, or an exception of the blocked BLPOP: a plain request found
\* the list empty, a streamed one is past its deadline, whatever the list
\* holds by then.
Timeout(c) ==
  /\ call[c] = "waiting"
  /\ c \in Streamed \/ replies[c] = <<>>
  /\ call' = [call EXCEPT ![c] = "timeout"]
  /\ UNCHANGED <<vars, replies, heard, part>>

RpcNext ==
  \/ Others /\ UNCHANGED rpcVars
  \/ (\E m \in Msgs \ Calls : Send(m)) /\ UNCHANGED rpcVars
  \/ \E a \in Agents : AckAndHandle(a) \/ CrashAndDrop(a)
  \/ \E e \in Entries : Respond(e)
  \/ \E c \in Calls : Request(c) \/ Hear(c) \/ Timeout(c)

RpcSpec == RpcInit /\ [][RpcNext]_allVars

\* An agent goes on with the call it is in.
Proceed(a) ==
  \/ ((at[a] = "joining" /\ Register(a)) \/ ReadNew(a)) /\ UNCHANGED rpcVars
  \/ AckAndHandle(a)

\* A registration that started ends, agents poll their inbox again and
\* again, TTLs run out and the agents are listed now and then.  Nobody has
\* to send, sweep, requeue or answer.
RpcFair ==
  /\ RpcSpec
  /\ \A a \in Agents :
       /\ SF_allVars(ReadPending(a, a) /\ UNCHANGED rpcVars)
       /\ WF_allVars(Proceed(a))
       /\ WF_allVars(at[a] = "dead" /\ HashExpires(a) /\ UNCHANGED rpcVars)
  /\ \A v \in Watchers : WF_allVars((WatcherStep(v) \/ Look(v)) /\ UNCHANGED rpcVars)
-----------------------------------------------------------------------------
(* Properties *)

\* What a caller hears was sent by a handler of its own request: some agent
\* received the request, and the part exists.
HeardWasAnswered ==
  \A c \in Calls : heard[c] # <<>> =>
    /\ \E a \in Agents : <<a, c>> \in got
    /\ \A i \in DOMAIN heard[c] : heard[c][i] \in 1 .. Parts(c)

\* An agent that polls and stays gets, or finds expired, what is in its
\* inbox, also when a read failed half way.
InboxDrains ==
  \A e \in Entries :
    (place[e] \in {"new", "pending"} /\ box[e] \in Agents /\ at[box[e]] \notin {"off", "dead"})
      ~> (place[e] = "acked" \/ (box[e] \in Agents => at[box[e]] \in {"off", "leaving", "dead"}))

\* A dead agent leaves the index, so that messages to it go to the DLQ.
DeadForgotten == \A a \in Agents : at[a] = "dead" ~> a \notin index

\* Whoever can be reached is served, and who cannot is no address any more.
MessagesArrive == InboxDrains /\ DeadForgotten

\* request_stream "Yields Envelope objects for each chunk until final=True":
\* a caller that heard the final marker heard every chunk before it.
StreamComplete ==
  \A c \in Streamed : call[c] = "done" => \A k \in 1 .. Chunks : \E i \in DOMAIN heard[c] : heard[c][i] = k
=============================================================================
