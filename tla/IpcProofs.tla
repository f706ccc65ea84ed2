------------------------------ MODULE IpcProofs ------------------------------
(***************************************************************************)
(* What hydra-ipc promises of its streams and of RPC, for any number of    *)
(* agents, watchers, operators, envelopes and faults.                      *)
(*                                                                         *)
(* The heart of it is QueueInv: a copy of an envelope always has a higher  *)
(* number than the entry it was copied from, so of the copies that several *)
(* operators make and remove, in whatever order, the last one is removed   *)
(* only after a reader or a purge has settled the envelope.                *)
(***************************************************************************)
EXTENDS IpcRpc, SequenceTheorems, TLAPS

Kept    == {"new", "pending", "dlq"}
Inboxed == {"new", "pending", "acked"}

\* Entries are taken in the order of their numbers.
FillsUp == \E k \in 0 .. N : \A e \in Entries : place[e] = "free" <=> e > k

Settled(m) == m \in dropped \union discarded \/ \E a \in Agents : <<a, m>> \in got

\* The envelope of e does not depend on e: it is settled, or in a later entry.
KeptLater(e) ==
  Settled(msg[e]) \/ \E f \in Entries : f > e /\ msg[f] = msg[e] /\ place[f] \in Kept
InboxedLater(e) == \E f \in Entries : f > e /\ msg[f] = msg[e] /\ place[f] \in Inboxed

Copying == {"persist", "sweepack"}

\* What an operator knows of the entries it works on.
Works(o) ==
  /\ \A e \in todo[o] : place[e] # "free"
  /\ job[o] \in Copying =>
       /\ item[o] \in todo[o] /\ copy[o] \in Entries /\ place[copy[o]] # "free"
       /\ \A e \in todo[o] : e = item[o] => KeptLater(e)
  /\ job[o] \in {"none", "sweep"} \union Copying => verdict[o] = "none"
  /\ job[o] = "readd" => verdict[o] = "requeued"
  /\ verdict[o] = "requeued" => \E e \in Entries : todo[o] = {e}
  /\ job[o] = "delete" => verdict[o] \in {"requeued", "purged"}
  /\ job[o] = "trim" => verdict[o] = "expired"
  /\ job[o] = "delete" /\ verdict[o] = "requeued" => \A e \in todo[o] : KeptLater(e)
  /\ job[o] \in {"delete", "mark"} /\ verdict[o] = "requeued" => \A e \in todo[o] : InboxedLater(e)
  /\ job[o] = "mark" /\ verdict[o] # "expired" => \A e \in todo[o] : place[e] # "dlq"

\* The row of e, see ResolvedIsGone.
Resolved(e) ==
  /\ row[e] \in {"requeued", "purged"} => place[e] # "dlq"
  /\ row[e] = "requeued" => InboxedLater(e)

QueueInv ==
  /\ FillsUp
  /\ \A e \in Entries : place[e] = "free" => row[e] = "none"
  /\ \A o \in Operators : Works(o)
  /\ NothingLost /\ \A e \in Entries : Resolved(e)

Published(e) == place[e] # "free" /\ To[msg[e]] = Channel

\* A published envelope has one entry, which never leaves the channel for the DLQ, and
\* whose one reader is the only one to return it.
ChannelInv ==
  /\ \A e \in Entries : place[e] # "free" => msg[e] \in sent
  /\ \A e \in Entries : Published(e) => box[e] = Channel /\ place[e] \in Inboxed
  /\ \A e, f \in Entries : Published(e) /\ Published(f) /\ msg[e] = msg[f] => e = f
  /\ \A o \in Operators : \A e \in todo[o] : ~Published(e)
  /\ \A a \in Agents : \A e \in batch[a] : place[e] \in {"pending", "acked"} /\ reader[e] = a
  /\ \A a \in Agents, m \in Msgs : <<a, m>> \in got /\ To[m] = Channel =>
       \E e \in Entries : msg[e] = m /\ place[e] \in {"pending", "acked"} /\ reader[e] = a

\* An agent in the index, or on a watcher's list, has a hash unless it lapsed: so what
\* a watcher removes has lapsed.
PresenceInv ==
  /\ index \subseteq hash \union lapsed
  /\ \A v \in Watchers :
       stale[v] \subseteq lapsed /\ (ids[v] # Idle => ids[v] \subseteq hash \union lapsed)
  /\ \A a \in Agents \ lapsed :
       /\ at[a] \in {"joining", "on", "reading", "acking"} => a \in hash
       /\ at[a] \in {"on", "reading", "acking"} => a \in index

Received(c) == \E a \in Agents : <<a, c>> \in got

\* What is in a list, or was popped from it, was sent by a handler of the request.
Answers(c) ==
  /\ replies[c] \in Seq(1 .. Parts(c)) /\ heard[c] \in Seq(1 .. Parts(c))
  /\ replies[c] # <<>> \/ heard[c] # <<>> => Received(c)

Handled(e) ==
  part[e] > 0 =>
    place[e] # "free" /\ msg[e] \in Calls /\ part[e] <= Parts(msg[e]) /\ Received(msg[e])

AnswerInv == (\A c \in Calls : Answers(c)) /\ (\A e \in Entries : Handled(e))

Inv == RpcTypeOK /\ QueueInv /\ ChannelInv /\ PresenceInv /\ AnswerInv

\* The bounds of the entries' numbers.
LEMMA EntriesAreNumbers == N \in Nat /\ Entries \subseteq Nat /\ \A e \in Entries : e >= 1 /\ e <= N
  BY StreamsAssumption DEF Entries

\* XADD takes the next number.
LEMMA NextIsNew ==
  ASSUME FillsUp, \E e \in Entries : place[e] = "free"
  PROVE  /\ NewEntry \in Entries /\ place[NewEntry] = "free"
         /\ \A e \in Entries : place[e] = "free" <=> e >= NewEntry
<1>1. PICK k \in 0 .. N : \A e \in Entries : place[e] = "free" <=> e > k
  BY DEF FillsUp
<1>2. k + 1 \in Entries /\ \A e \in Entries : place[e] = "free" <=> e >= k + 1
  BY <1>1, StreamsAssumption DEF Entries
<1>3. \E e \in Entries : place[e] = "free" /\ \A f \in Entries : place[f] = "free" => e <= f
  BY <1>2, EntriesAreNumbers
<1>4. NewEntry \in Entries /\ place[NewEntry] = "free" /\ \A f \in Entries : place[f] = "free" => NewEntry <= f
  BY <1>3, Zenon DEF NewEntry
<1>5. NewEntry = k + 1
  BY <1>2, <1>4, EntriesAreNumbers
<1> QED
  BY <1>2, <1>4, <1>5

\* Types, for the steps below the RPC layer.
LEMMA TypesStep == ASSUME Inv, Others, UNCHANGED rpcVars PROVE RpcTypeOK'
<1> USE StreamsAssumption DEF TypeOK, AgentCalls, Jobs, Verdicts, presence, streams, fates, agentVars, dlqJob, looking
<1>0. /\ TypeOK /\ QueueInv
      /\ \A e \in Entries : place[e] # "free" => msg[e] \in Msgs
  BY DEF Inv, RpcTypeOK, ChannelInv
<1>1. ASSUME NEW a \in Agents, Register(a) PROVE TypeOK'
  BY <1>0, <1>1 DEF Register
<1>2. ASSUME NEW a \in Agents, DeregisterIndex(a) PROVE TypeOK'
  BY <1>0, <1>2 DEF DeregisterIndex
<1>3. ASSUME NEW a \in Agents, DeregisterHash(a) PROVE TypeOK'
  BY <1>0, <1>3 DEF DeregisterHash
<1>4. ASSUME NEW a \in Agents, HashExpires(a) PROVE TypeOK'
  BY <1>0, <1>4 DEF HashExpires, Fault
<1>5. ASSUME NEW a \in Agents, NEW b \in Boxes, ReadPending(a, b) PROVE TypeOK'
  BY <1>0, <1>5 DEF ReadPending, OwnPending
<1>6. ASSUME NEW a \in Agents, ReadNew(a) PROVE TypeOK'
  BY <1>0, <1>6 DEF ReadNew, Unread
<1>7. ASSUME NEW a \in Agents, RecvFails(a) PROVE TypeOK'
  BY <1>0, <1>7 DEF RecvFails, Fault
<1>8. ASSUME NEW m \in Msgs, Expire(m) PROVE TypeOK'
  BY <1>0, <1>8 DEF Expire, Fault
<1>9. ASSUME NEW v \in Watchers, Look(v) PROVE TypeOK'
  BY <1>0, <1>9 DEF Look
<1>10. ASSUME NEW v \in Watchers, LookUp(v) PROVE TypeOK'
  BY <1>0, <1>10 DEF LookUp
<1>11. ASSUME NEW v \in Watchers, Forget(v) PROVE TypeOK'
  BY <1>0, <1>11 DEF Forget
<1>12. ASSUME NEW o \in Operators, NEW e \in Entries, SweepAdd(o, e) PROVE TypeOK'
  <2>1. NewEntry \in Entries
    BY <1>0, <1>12, NextIsNew DEF SweepAdd, Add, QueueInv
  <2> QED
    BY <1>0, <1>12, <2>1, EntriesAreNumbers DEF SweepAdd, Add
<1>13. ASSUME NEW o \in Operators, SweepPersist(o) PROVE TypeOK'
  BY <1>0, <1>13 DEF SweepPersist
<1>14. ASSUME NEW o \in Operators, SweepAck(o) PROVE TypeOK'
  <2>1. place' \in [Entries -> {"free", "new", "pending", "acked", "dlq", "gone"}]
    BY <1>0, <1>14 DEF SweepAck
  <2>2. CASE Done(o)
    BY <1>0, <1>14, <2>1, <2>2, EntriesAreNumbers DEF SweepAck, Done
  <2>3. CASE ~Done(o)
    BY <1>0, <1>14, <2>1, <2>3, EntriesAreNumbers, SMTT(30) DEF SweepAck
  <2> QED
    BY <2>2, <2>3
<1>15. ASSUME NEW o \in Operators, NEW a \in Agents, RequeueAdd(o, a) PROVE TypeOK'
  <2>1. PICK e \in todo[o] : Add("new", a, msg[e])
    BY <1>15 DEF RequeueAdd
  <2>2. e \in Entries /\ a \in Boxes
    BY <1>0 DEF Boxes
  <2> QED
    BY <1>0, <1>15, <2>1, <2>2 DEF RequeueAdd, Add
<1>16. ASSUME NEW o \in Operators, Delete(o) PROVE TypeOK'
  BY <1>0, <1>16 DEF Delete
<1>17. ASSUME NEW o \in Operators, Trim(o) PROVE TypeOK'
  BY <1>0, <1>17 DEF Trim
<1>18. ASSUME NEW o \in Operators, Mark(o) PROVE TypeOK'
  BY <1>0, <1>18 DEF Mark, Done
<1>19. ASSUME NEW o \in Operators, OperatorDies(o) PROVE TypeOK'
  BY <1>0, <1>19 DEF OperatorDies, Done, Fault
<1>20. ASSUME NEW o \in Operators, PurgeList(o) PROVE TypeOK'
  BY <1>0, <1>20, SMTT(30) DEF PurgeList, Start
<1>21. ASSUME NEW o \in Operators, NEW a \in Agents, SweepList(o, a) PROVE TypeOK'
  BY <1>0, <1>21 DEF SweepList, Start
<1>22. ASSUME NEW o \in Operators, NEW e \in Entries, RequeueRead(o, e) PROVE TypeOK'
  BY <1>0, <1>22 DEF RequeueRead, Start
<1> QED
  BY <1>1, <1>2, <1>3, <1>4, <1>5, <1>6, <1>7, <1>8, <1>9, <1>10, <1>11, <1>12, <1>13, <1>14,
     <1>15, <1>16, <1>17, <1>18, <1>19, <1>20, <1>21, <1>22
     DEF Inv, Others, Receive, WatcherStep, OperatorStep, RpcTypeOK, rpcVars
-----------------------------------------------------------------------------

\* What a step does to the entries: none is forgotten, and one that leaves the inboxes
\* and the DLQ has a reader, was discarded, or (only x) has a later copy.
Advances(x) ==
  /\ got \subseteq got' /\ dropped \subseteq dropped' /\ discarded \subseteq discarded'
  /\ \A e \in Entries : place[e] # "free" =>
       /\ place'[e] # "free" /\ msg'[e] = msg[e]
       /\ place[e] # "dlq" => place'[e] # "dlq"
       /\ place[e] \in Inboxed => place'[e] \in Inboxed
       /\ place[e] \in Kept => place'[e] \in Kept \/ Settled(msg[e])' \/ (e = x /\ KeptLater(e))

\* Advances gives up no envelope that a later entry keeps ...
LEMMA KeptStays ==
  ASSUME RpcTypeOK, NEW x \in Nat, Advances(x), NEW e \in Entries, place[e] # "free", KeptLater(e)
  PROVE  KeptLater(e)'
<1>1. Settled(msg[e]) => Settled(msg[e])'
  BY DEF Advances, Settled
<1>2. msg'[e] = msg[e]
  BY DEF Advances
<1>3. ASSUME NEW f \in Entries, f > e, msg[f] = msg[e], place[f] \in Kept
      PROVE  KeptLater(e)'
  <2>1. place[f] # "free"
    BY <1>3 DEF Kept
  <2>2. CASE f = x /\ KeptLater(f)
    <3>1. CASE Settled(msg[f])
      BY <1>1, <1>2, <1>3, <3>1 DEF KeptLater
    <3>2. CASE \E g \in Entries : g > f /\ msg[g] = msg[f] /\ place[g] \in Kept
      <4>1. PICK g \in Entries : g > f /\ msg[g] = msg[f] /\ place[g] \in Kept
        BY <3>2
      <4>2. g # x /\ g > e /\ place[g] # "free"
        BY <1>3, <2>2, <4>1, EntriesAreNumbers DEF Kept
      <4>3. msg'[g] = msg'[e] /\ (place'[g] \in Kept \/ Settled(msg[g])')
        BY <1>2, <1>3, <4>1, <4>2 DEF Advances
      <4> QED
        BY <4>2, <4>3, <4>1, <1>3, <1>2 DEF KeptLater, Advances, Settled
    <3> QED
      BY <2>2, <3>1, <3>2 DEF KeptLater
  <2>3. CASE place'[f] \in Kept \/ Settled(msg[f])'
    BY <1>2, <1>3, <2>1, <2>3 DEF KeptLater, Advances, Settled
  <2> QED
    BY <1>3, <2>1, <2>2, <2>3 DEF Advances
<1> QED
  BY <1>1, <1>2, <1>3 DEF KeptLater, Settled

\* ... or that a later entry of an inbox holds, ...
LEMMA InboxedStays ==
  ASSUME NEW x, Advances(x), NEW e \in Entries, place[e] # "free", InboxedLater(e)
  PROVE  InboxedLater(e)'
  BY DEF InboxedLater, Advances, Inboxed

Rests(o) ==
  /\ job'[o] = job[o] /\ todo'[o] = todo[o] /\ verdict'[o] = verdict[o]
  /\ item'[o] = item[o] /\ copy'[o] = copy[o]

\* ... so that what an operator knows stays true while others work.
LEMMA WorksStays ==
  ASSUME RpcTypeOK, NEW x \in Nat, Advances(x), NEW o \in Operators, Works(o), Rests(o)
  PROVE  Works(o)'
<1> USE DEF Rests
<1>1. todo[o] \subseteq Entries /\ \A e \in todo[o] : place[e] # "free"
  BY DEF RpcTypeOK, TypeOK, Works
<1>2. \A e \in todo[o] : /\ place'[e] # "free"
                         /\ place[e] # "dlq" => place'[e] # "dlq"
                         /\ KeptLater(e) => KeptLater(e)'
                         /\ InboxedLater(e) => InboxedLater(e)'
  BY <1>1, KeptStays, InboxedStays DEF Advances
<1>3. copy[o] \in Entries /\ place[copy[o]] # "free" => place'[copy[o]] # "free"
  BY DEF Advances
<1> QED
  BY <1>1, <1>2, <1>3 DEF Works

\* All that has to be shown of a step for QueueInv.
LEMMA QueueStep ==
  ASSUME Inv, FillsUp', NEW x \in Nat, Advances(x), \A p \in Operators : Works(p)' \/ Rests(p),
         \A e \in Entries : row'[e] = row[e] \/ (place[e] # "free" /\ Resolved(e)'),
         \A m \in sent' : m \in sent \/ \E e \in Entries : msg'[e] = m /\ place'[e] \in Kept
  PROVE  QueueInv'
<1>1. ASSUME NEW e \in Entries, place'[e] = "free" PROVE row'[e] = "none"
  BY <1>1 DEF Inv, QueueInv, Advances
<1>2. ASSUME NEW p \in Operators PROVE Works(p)'
  BY WorksStays DEF Inv, QueueInv
<1>3. ASSUME NEW e \in Entries PROVE Resolved(e)'
  <2>1. CASE row'[e] = row[e] /\ place[e] = "free"
    BY <2>1 DEF Inv, QueueInv, Resolved
  <2>2. CASE row'[e] = row[e] /\ place[e] # "free"
    BY <2>2, InboxedStays DEF Inv, QueueInv, Resolved, Advances
  <2> QED
    BY <2>1, <2>2
<1>4. ASSUME NEW m \in sent
      PROVE  Settled(m)' \/ \E e \in Entries : msg'[e] = m /\ place'[e] \in Kept
  <2>1. CASE Settled(m)
    BY <2>1 DEF Advances, Settled
  <2>2. ASSUME NEW e \in Entries, msg[e] = m, place[e] \in Kept
        PROVE  Settled(m)' \/ \E f \in Entries : msg'[f] = m /\ place'[f] \in Kept
    <3>1. place[e] # "free"
      BY <2>2 DEF Kept
    <3>2. CASE KeptLater(e)
      <4>1. KeptLater(e)' /\ msg'[e] = m
        BY <2>2, <3>1, <3>2, KeptStays DEF Advances, Inv
      <4> QED
        BY <4>1 DEF KeptLater
    <3> QED
      BY <2>2, <3>1, <3>2 DEF Advances
  <2> QED
    BY <2>1, <2>2 DEF Inv, QueueInv, NothingLost, Settled, Kept
<1>5. NothingLost'
  BY <1>4 DEF NothingLost, Settled, Kept
<1> QED
  BY <1>1, <1>2, <1>3, <1>5 DEF QueueInv

\* A step that touches neither entries nor operators.
LEMMA Quiet ==
  ASSUME Inv, UNCHANGED <<streams, row, sent, dlqJob>>,
         got \subseteq got', dropped \subseteq dropped', discarded \subseteq discarded'
  PROVE  QueueInv'
<1>1. FillsUp' /\ Advances(0)
  BY DEF Inv, QueueInv, FillsUp, Advances, streams
<1>2. \A p \in Operators : Rests(p)
  BY DEF Rests, dlqJob
<1> QED
  BY <1>1, <1>2, QueueStep

\* XADD: the new entry comes after all others.
LEMMA Adding ==
  ASSUME Inv, NEW p \in {"new", "dlq"}, NEW b, NEW m, Add(p, b, m), UNCHANGED fates
  PROVE  /\ FillsUp' /\ Advances(0)
         /\ NewEntry \in Entries /\ place[NewEntry] = "free" /\ msg'[NewEntry] = m
         /\ place'[NewEntry] = p /\ box'[NewEntry] = b
         /\ \A e \in Entries \ {NewEntry} :
              place'[e] = place[e] /\ msg'[e] = msg[e] /\ box'[e] = box[e]
         /\ \A e \in Entries : place[e] # "free" => NewEntry > e /\ e # NewEntry
<1>1. /\ NewEntry \in Entries /\ place[NewEntry] = "free"
      /\ \A e \in Entries : place[e] = "free" <=> e >= NewEntry
  BY NextIsNew DEF Inv, QueueInv, Add
<1> DEFINE n == NewEntry
<1> HIDE DEF n
<1>2. /\ place' = [place EXCEPT ![n] = p] /\ msg' = [msg EXCEPT ![n] = m]
      /\ box' = [box EXCEPT ![n] = b]
  BY DEF Add, n
<1>3. /\ place'[n] = p /\ msg'[n] = m /\ box'[n] = b
      /\ \A e \in Entries \ {n} : place'[e] = place[e] /\ msg'[e] = msg[e] /\ box'[e] = box[e]
  BY <1>1, <1>2 DEF Inv, RpcTypeOK, TypeOK, n
<1>4. n \in 0 .. N /\ \A e \in Entries : place'[e] = "free" <=> e > n
  BY <1>1, <1>3, EntriesAreNumbers DEF n
<1>5. FillsUp'
  BY <1>4 DEF FillsUp
<1>6. Advances(0)
  BY <1>1, <1>3 DEF Advances, fates, n
<1> QED
  BY <1>1, <1>3, <1>5, <1>6, EntriesAreNumbers DEF n

\* A step that adds no entry, and moves none out of "free".
LEMMA SameEntries ==
  ASSUME FillsUp, \A e \in Entries : place'[e] = "free" <=> place[e] = "free"
  PROVE  FillsUp'
  BY DEF FillsUp

\* No step loses an envelope or resolves a row too early.
LEMMA QueueNext == ASSUME Inv, [RpcNext]_allVars PROVE QueueInv'
<1>0. /\ FillsUp /\ TypeOK /\ \A o \in Operators : Works(o)
      /\ \A e \in Entries : place[e] # "free" => msg[e] \in Msgs
  BY DEF Inv, QueueInv, RpcTypeOK, TypeOK, ChannelInv
<1>1. ASSUME NEW m \in Msgs, sent' = sent \union {m}, NEW p \in {"new", "dlq"}, NEW b,
             Add(p, b, m), UNCHANGED <<row, fates, dlqJob>>
      PROVE  QueueInv'
  <2>1. FillsUp' /\ Advances(0) /\ NewEntry \in Entries /\ msg'[NewEntry] = m /\ place'[NewEntry] \in Kept
    BY <1>1, Adding DEF Kept
  <2>2. \A o \in Operators : Rests(o)
    BY <1>1 DEF Rests, dlqJob
  <2> QED
    BY <1>1, <2>1, <2>2, QueueStep
<1>2. ASSUME NEW m \in Msgs, Send(m) PROVE QueueInv'
  BY <1>1, <1>2 DEF Send
<1>3. ASSUME NEW c \in Calls, Request(c) PROVE QueueInv'
  BY <1>1, <1>3, RpcAssumption DEF Request
<1>4. ASSUME NEW o \in Operators, NEW e \in Entries, SweepAdd(o, e) PROVE QueueInv'
  <2>1. Add("dlq", Nobody, msg[e]) /\ UNCHANGED <<row, fates, sent>>
        /\ e \in todo[o] /\ place[e] # "free" /\ verdict[o] = "none"
    BY <1>0, <1>4 DEF SweepAdd, Works
  <2>2. /\ FillsUp' /\ Advances(0) /\ NewEntry \in Entries /\ msg'[NewEntry] = msg[e]
        /\ place'[NewEntry] = "dlq" /\ NewEntry > e
    BY <2>1, Adding
  <2>3. /\ job'[o] = "persist" /\ item'[o] = e /\ copy'[o] = NewEntry
        /\ todo'[o] = todo[o] /\ verdict'[o] = verdict[o]
        /\ \A p \in Operators \ {o} : Rests(p)
    BY <1>0, <1>4 DEF SweepAdd, Rests, TypeOK
  <2>4. KeptLater(e)'
    <3>1. msg'[e] = msg[e]
      BY <2>1, <2>2 DEF Advances
    <3> QED
      BY <2>2, <3>1 DEF KeptLater, Kept
  <2>5. todo[o] \subseteq Entries
    BY <1>0 DEF TypeOK
  <2>6. Works(o)'
    BY <1>0, <2>1, <2>2, <2>3, <2>4, <2>5 DEF Works, Copying, Advances
  <2> QED
    BY <2>1, <2>2, <2>3, <2>6, QueueStep
<1>5. ASSUME NEW o \in Operators, SweepPersist(o) PROVE QueueInv'
  <2>1. FillsUp' /\ Advances(0) /\ UNCHANGED sent
    BY <1>0, <1>5 DEF SweepPersist, FillsUp, Advances, streams, fates
  <2>2. \A p \in Operators \ {o} : Rests(p)
    BY <1>0, <1>5 DEF SweepPersist, Rests, TypeOK
  <2>3. Works(o)'
    <3>1. \A e \in todo[o] : KeptLater(e) => KeptLater(e)'
      BY <1>0, <1>5 DEF SweepPersist, KeptLater, Settled, streams, fates
    <3>2. /\ job'[o] = "sweepack" /\ todo'[o] = todo[o] /\ verdict'[o] = verdict[o]
          /\ item'[o] = item[o] /\ copy'[o] = copy[o] /\ place' = place
      BY <1>0, <1>5 DEF SweepPersist, TypeOK, streams
    <3> QED
      BY <1>0, <1>5, <3>1, <3>2 DEF SweepPersist, Works, Copying
  <2>4. \A e \in Entries : row'[e] = row[e] \/ (place[e] # "free" /\ row'[e] = "open")
    BY <1>0, <1>5 DEF SweepPersist, Works, Copying, TypeOK
  <2>5. \A e \in Entries : row'[e] = row[e] \/ (place[e] # "free" /\ Resolved(e)')
    BY <2>4 DEF Resolved
  <2> QED
    BY <2>1, <2>2, <2>3, <2>5, QueueStep
<1>6. ASSUME NEW o \in Operators, SweepAck(o) PROVE QueueInv'
  <2> DEFINE x == item[o]
  <2>1. x \in todo[o] /\ x \in Entries /\ x \in Nat /\ KeptLater(x) /\ place[x] # "free"
    BY <1>0, <1>6, EntriesAreNumbers DEF SweepAck, Works, Copying, TypeOK
  <2>2. /\ place' = [place EXCEPT ![x] = IF @ = "pending" THEN "acked" ELSE @]
        /\ UNCHANGED <<msg, fates, sent, row>>
    BY <1>6 DEF SweepAck
  <2>3. \A p \in Operators \ {o} : Rests(p)
    BY <1>0, <1>6 DEF SweepAck, Done, Rests, TypeOK
  <2>4. Works(o)'
    <3>1. todo'[o] \subseteq todo[o] /\ job'[o] \in {"none", "sweep"}
          /\ verdict'[o] = "none"
      BY <1>0, <1>6 DEF SweepAck, Done, Works, Copying, TypeOK
    <3>2. \A e \in todo[o] : place'[e] # "free"
      BY <1>0, <2>1, <2>2 DEF Works, TypeOK
    <3> QED
      BY <3>1, <3>2 DEF Works, Copying
  <2> HIDE DEF x
  <2>5. Advances(x) /\ FillsUp'
    BY <1>0, <2>1, <2>2, SameEntries DEF Advances, TypeOK, Kept, Inboxed, fates
  <2> QED
    BY <2>1, <2>2, <2>3, <2>4, <2>5, QueueStep
<1>7. ASSUME NEW o \in Operators, NEW a \in Agents, RequeueAdd(o, a) PROVE QueueInv'
  <2>1. PICK e \in Entries : todo[o] = {e} /\ verdict[o] = "requeued"
    BY <1>0, <1>7 DEF RequeueAdd, Works
  <2>2. Add("new", a, msg[e]) /\ UNCHANGED <<row, fates, sent>> /\ place[e] # "free"
    BY <1>0, <1>7, <2>1 DEF RequeueAdd, Works
  <2>3. /\ FillsUp' /\ Advances(0) /\ NewEntry \in Entries /\ msg'[NewEntry] = msg[e]
        /\ place'[NewEntry] = "new" /\ NewEntry > e
    BY <2>2, Adding
  <2>4. /\ job'[o] = "delete" /\ todo'[o] = {e} /\ verdict'[o] = "requeued"
        /\ \A p \in Operators \ {o} : Rests(p)
    BY <1>0, <1>7, <2>1 DEF RequeueAdd, Rests, TypeOK
  <2>5. msg'[e] = msg[e] /\ place'[e] # "free"
    BY <2>2, <2>3 DEF Advances
  <2>6. KeptLater(e)' /\ InboxedLater(e)'
    BY <2>3, <2>5 DEF KeptLater, InboxedLater, Kept, Inboxed
  <2>7. Works(o)'
    BY <2>4, <2>5, <2>6 DEF Works, Copying
  <2> QED
    BY <2>2, <2>3, <2>4, <2>7, QueueStep
<1>8. ASSUME NEW o \in Operators, Delete(o) PROVE QueueInv'
  <2>1. /\ \A e \in Entries : place'[e] = IF e \in todo[o] /\ place[e] = "dlq" THEN "gone" ELSE place[e]
        /\ UNCHANGED <<msg, got, dropped, sent, row>>
        /\ discarded' = IF verdict[o] = "requeued" THEN discarded
                        ELSE discarded \union {msg[e] : e \in {f \in todo[o] : place[f] = "dlq"}}
    BY <1>8 DEF Delete
  <2>2. /\ job'[o] = "mark" /\ todo'[o] = todo[o] /\ verdict'[o] = verdict[o]
        /\ \A p \in Operators \ {o} : Rests(p)
    BY <1>0, <1>8 DEF Delete, Rests, TypeOK
  <2>3. FillsUp'
    BY <1>0, <2>1, SameEntries
  <2>4. PICK x \in Nat : Advances(x)
    <3>1. CASE verdict[o] = "requeued"
      <4>1. PICK x \in Entries : todo[o] = {x} /\ KeptLater(x)
        BY <1>0, <1>8, <3>1 DEF Works, Delete
      <4>2. Advances(x)
        BY <2>1, <3>1, <4>1 DEF Advances, Kept, Inboxed
      <4> QED
        BY <4>2, EntriesAreNumbers
    <3>2. CASE verdict[o] # "requeued"
      <4>1. Advances(0)
        BY <2>1, <3>2 DEF Advances, Kept, Inboxed, Settled
      <4> QED
        BY <4>1
    <3> QED
      BY <3>1, <3>2
  <2>5. todo[o] \subseteq Entries /\ \A e \in todo[o] : place[e] # "free" /\ place'[e] # "dlq"
    BY <1>0, <2>1 DEF TypeOK, Works
  <2>6. verdict[o] = "requeued" => \A e \in todo[o] : InboxedLater(e)'
    BY <1>0, <1>8, <2>4, <2>5, InboxedStays DEF Works, Delete
  <2>7. Works(o)'
    BY <1>0, <2>2, <2>4, <2>5, <2>6 DEF Works, Copying, Advances
  <2> QED
    BY <2>1, <2>2, <2>3, <2>4, <2>7, QueueStep
<1>9. ASSUME NEW o \in Operators, Trim(o) PROVE QueueInv'
  <2>1. PICK k \in 0 .. N :
          LET cut == {e \in todo[o] : e <= k /\ place[e] = "dlq"}
          IN  /\ place' = [e \in Entries |-> IF e \in cut THEN "gone" ELSE place[e]]
              /\ discarded' = discarded \union {msg[e] : e \in cut}
    BY <1>9 DEF Trim
  <2>2. /\ \A e \in Entries : place'[e] = place[e] \/
             (place[e] = "dlq" /\ place'[e] = "gone" /\ msg[e] \in discarded')
        /\ discarded \subseteq discarded' /\ UNCHANGED <<msg, got, dropped, sent, row>>
    BY <1>9, <2>1 DEF Trim
  <2>3. FillsUp' /\ Advances(0)
    BY <1>0, <2>2, SameEntries DEF Advances, Kept, Inboxed, Settled
  <2>4. /\ job'[o] = "mark" /\ todo'[o] = todo[o] /\ verdict'[o] = "expired"
        /\ \A p \in Operators \ {o} : Rests(p)
    BY <1>0, <1>9 DEF Trim, Rests, TypeOK, Works
  <2>5. Works(o)'
    BY <1>0, <2>3, <2>4 DEF Works, Copying, Advances, TypeOK
  <2> QED
    BY <2>2, <2>3, <2>4, <2>5, QueueStep
<1>10. ASSUME NEW o \in Operators, Done(o), UNCHANGED <<streams, sent, fates>>,
              \A e \in Entries : row'[e] = row[e] \/ (place[e] # "free" /\ Resolved(e)')
       PROVE  QueueInv'
  <2>1. FillsUp' /\ Advances(0)
    BY <1>0, <1>10 DEF FillsUp, Advances, streams, fates
  <2>2. Works(o)' /\ \A p \in Operators \ {o} : Rests(p)
    BY <1>0, <1>10 DEF Done, Works, Copying, Rests, TypeOK
  <2> QED
    BY <1>10, <2>1, <2>2, QueueStep
<1>11. ASSUME NEW o \in Operators, Mark(o) PROVE QueueInv'
  <2>1. \A e \in Entries : row'[e] = IF e \in todo[o] /\ row[e] = "open" THEN verdict[o] ELSE row[e]
    BY <1>11 DEF Mark
  <2>2. ASSUME NEW e \in todo[o] PROVE place[e] # "free" /\ (row'[e] = verdict[o] => Resolved(e)')
    <3>1. /\ place[e] # "free"
          /\ verdict[o] # "expired" => place[e] # "dlq"
          /\ verdict[o] = "requeued" => InboxedLater(e)
      BY <1>0, <1>11, <2>2 DEF Mark, Works
    <3>2. place'[e] = place[e] /\ (InboxedLater(e) => InboxedLater(e)')
      BY <1>11 DEF Mark, streams, InboxedLater
    <3> QED
      BY <3>1, <3>2 DEF Resolved
  <2> QED
    BY <1>10, <1>11, <2>1, <2>2 DEF Mark
<1>12. ASSUME NEW o \in Operators, OperatorDies(o) PROVE QueueInv'
  BY <1>10, <1>12 DEF OperatorDies
<1>13. ASSUME NEW o \in Operators, NEW j, NEW old \in SUBSET Entries, Start(o, j, old),
              UNCHANGED <<streams, sent, fates, row>>,
              \A e \in old : place[e] # "free", j \in {"sweep", "readd", "delete", "trim"},
              \A p \in Operators \ {o} : verdict'[p] = verdict[p],
              UNCHANGED <<item, copy>>,
              j = "sweep" => verdict'[o] = verdict[o],
              j = "readd" => verdict'[o] = "requeued",
              j = "delete" => verdict'[o] = "purged",
              j = "trim" => verdict'[o] = "expired",
              verdict'[o] = "requeued" => \E e \in Entries : old = {e}
       PROVE  QueueInv'
  <2>1. FillsUp' /\ Advances(0) /\ UNCHANGED place
    BY <1>0, <1>13 DEF FillsUp, Advances, streams, fates
  <2>2. \A p \in Operators \ {o} : Rests(p)
    BY <1>0, <1>13 DEF Start, Rests, TypeOK
  <2>3. job'[o] = j /\ todo'[o] = old
    BY <1>0, <1>13 DEF Start, TypeOK
  <2>4. Works(o)'
    BY <1>0, <1>13, <2>1, <2>3 DEF Works, Copying, Start
  <2> QED
    BY <1>13, <2>1, <2>2, <2>4, QueueStep
<1>14. ASSUME NEW o \in Operators, PurgeList(o) PROVE QueueInv'
  <2>1. PICK old \in SUBSET {e \in Entries : place[e] = "dlq"} :
          \/ Start(o, "delete", old) /\ verdict' = [verdict EXCEPT ![o] = "purged"]
          \/ Start(o, "trim", old) /\ verdict' = [verdict EXCEPT ![o] = "expired"]
    BY <1>14 DEF PurgeList
  <2>2. UNCHANGED <<streams, sent, fates, row, item, copy>>
    BY <1>14 DEF PurgeList
  <2>3. old \in SUBSET Entries /\ \A e \in old : place[e] # "free"
    OBVIOUS
  <2> QED
    BY <1>0, <1>13, <2>1, <2>2, <2>3 DEF TypeOK
<1>15. ASSUME NEW o \in Operators, NEW a \in Agents, SweepList(o, a) PROVE QueueInv'
  <2>1. PICK idle \in SUBSET {e \in Entries : place[e] = "pending" /\ box[e] = a} :
          Start(o, "sweep", idle)
    BY <1>15 DEF SweepList
  <2>2. UNCHANGED <<streams, sent, fates, row, item, copy, verdict>>
    BY <1>15 DEF SweepList
  <2>3. /\ idle \in SUBSET Entries /\ \A e \in idle : place[e] # "free"
        /\ verdict[o] = "none"
    BY <1>0, <2>1 DEF Start, Works
  <2> QED
    BY <1>0, <1>13, <2>1, <2>2, <2>3 DEF TypeOK
<1>16. ASSUME NEW o \in Operators, NEW e \in Entries, RequeueRead(o, e) PROVE QueueInv'
  <2>1. /\ Start(o, "readd", {e}) /\ place[e] # "free"
        /\ verdict'[o] = "requeued" /\ \A p \in Operators \ {o} : verdict'[p] = verdict[p]
        /\ UNCHANGED <<streams, sent, fates, row, item, copy>>
    BY <1>0, <1>16 DEF RequeueRead, TypeOK
  <2> QED
    BY <1>13, <2>1
<1>17. ASSUME NEW a \in Agents, ReadNew(a) PROVE QueueInv'
  <2>1. /\ \A e \in Entries : place'[e] = place[e] \/ (place[e] = "new" /\ place'[e] = "pending")
        /\ UNCHANGED <<msg, fates, sent, row, dlqJob>>
    BY <1>17 DEF ReadNew, Unread
  <2>2. FillsUp' /\ Advances(0)
    BY <1>0, <2>1, SameEntries DEF Advances, Kept, Inboxed, fates
  <2> QED
    BY <2>1, <2>2, QueueStep DEF Rests, dlqJob
<1>18. ASSUME NEW a \in Agents, Ack(a) PROVE QueueInv'
  <2>1. /\ \A e \in Entries : place'[e] = place[e] \/
             (place[e] = "pending" /\ place'[e] = "acked" /\ e \in batch[a])
        /\ UNCHANGED <<msg, discarded, sent, row, dlqJob>>
        /\ got \subseteq got' /\ dropped \subseteq dropped'
    BY <1>18 DEF Ack
  <2>2. \A e \in batch[a] : msg[e] \in dropped' \/ <<a, msg[e]>> \in got'
    BY <1>18 DEF Ack
  <2>3. FillsUp' /\ Advances(0)
    BY <1>0, <2>1, <2>2, SameEntries DEF Advances, Kept, Inboxed, Settled
  <2> QED
    BY <2>1, <2>3, QueueStep DEF Rests, dlqJob
<1>19. ASSUME UNCHANGED <<streams, row, sent, dlqJob, fates>> PROVE QueueInv'
  BY <1>19, Quiet DEF fates
<1>20. ASSUME NEW a \in Agents,
              \/ Register(a) \/ DeregisterIndex(a) \/ DeregisterHash(a) \/ HashExpires(a)
              \/ (\E b \in Boxes : ReadPending(a, b)) \/ RecvFails(a) \/ Crash(a)
       PROVE  QueueInv'
  BY <1>19, <1>20
     DEF Register, DeregisterIndex, DeregisterHash, HashExpires, ReadPending, RecvFails, Crash,
         presence, streams, fates, dlqJob
<1>21. ASSUME NEW v \in Watchers, Look(v) \/ LookUp(v) \/ Forget(v) PROVE QueueInv'
  BY <1>19, <1>21 DEF Look, LookUp, Forget
<1>22. ASSUME NEW m \in Msgs, Expire(m) PROVE QueueInv'
  BY <1>19, <1>22 DEF Expire
<1>23. CASE UNCHANGED vars
  BY <1>19, <1>23 DEF vars
<1>24. CASE Others
  BY <1>4, <1>5, <1>6, <1>7, <1>8, <1>9, <1>11, <1>12, <1>14, <1>15, <1>16, <1>17, <1>20, <1>21,
     <1>22, <1>24 DEF Others, Receive, WatcherStep, OperatorStep
<1> QED
  BY <1>2, <1>3, <1>18, <1>20, <1>23, <1>24
     DEF RpcNext, AckAndHandle, CrashAndDrop, Respond, Hear, Timeout, allVars
-----------------------------------------------------------------------------

\* No step takes an agent that did not lapse out of the index.
LEMMA PresenceNext == ASSUME Inv, [RpcNext]_allVars PROVE PresenceInv'
<1>0. TypeOK /\ PresenceInv
  BY DEF Inv, RpcTypeOK
<1>1. ASSUME NEW a \in Agents, Register(a) PROVE PresenceInv'
  BY <1>0, <1>1 DEF Register, TypeOK, AgentCalls, PresenceInv, looking
<1>2. ASSUME NEW a \in Agents, DeregisterIndex(a) PROVE PresenceInv'
  BY <1>0, <1>2 DEF DeregisterIndex, TypeOK, AgentCalls, PresenceInv, looking
<1>3. ASSUME NEW a \in Agents, DeregisterHash(a) PROVE PresenceInv'
  BY <1>0, <1>3 DEF DeregisterHash, TypeOK, AgentCalls, PresenceInv, looking
<1>4. ASSUME NEW a \in Agents, HashExpires(a) PROVE PresenceInv'
  BY <1>0, <1>4 DEF HashExpires, TypeOK, AgentCalls, PresenceInv, looking, agentVars
<1>5. ASSUME NEW v \in Watchers, Look(v) PROVE PresenceInv'
  BY <1>0, <1>5 DEF Look, TypeOK, PresenceInv, presence, agentVars
<1>6. ASSUME NEW v \in Watchers, LookUp(v) PROVE PresenceInv'
  BY <1>0, <1>6 DEF LookUp, TypeOK, PresenceInv, presence, agentVars
<1>7. ASSUME NEW v \in Watchers, Forget(v) PROVE PresenceInv'
  BY <1>0, <1>7 DEF Forget, TypeOK, PresenceInv, agentVars
\* An agent that is registered goes from one call of its own to the next.
<1>8. ASSUME UNCHANGED <<presence, looking>>,
             \A a \in Agents : \/ at'[a] = at[a] \/ at'[a] = "dead"
                               \/ {at[a], at'[a]} \subseteq {"on", "reading", "acking"}
      PROVE  PresenceInv'
  BY <1>0, <1>8 DEF PresenceInv, presence, looking
<1>9. ASSUME NEW a \in Agents,
             \/ (\E b \in Boxes : ReadPending(a, b)) \/ ReadNew(a) \/ RecvFails(a)
             \/ Ack(a) \/ Crash(a)
      PROVE  PresenceInv'
  <2>1. UNCHANGED <<presence, looking>> /\ \A b \in Agents \ {a} : at'[b] = at[b]
    BY <1>0, <1>9 DEF ReadPending, ReadNew, RecvFails, Ack, Crash, TypeOK
  <2>2. at'[a] = "dead" \/ {at[a], at'[a]} \subseteq {"on", "reading", "acking"}
    BY <1>0, <1>9 DEF ReadPending, ReadNew, RecvFails, Ack, Crash, TypeOK
  <2> QED
    BY <1>8, <2>1, <2>2
<1>10. CASE UNCHANGED <<presence, looking, at>>
  BY <1>8, <1>10
<1>11. ASSUME NEW o \in Operators,
              \/ OperatorStep(o) \/ OperatorDies(o) \/ PurgeList(o)
              \/ (\E a \in Agents : SweepList(o, a)) \/ (\E e \in Entries : RequeueRead(o, e))
       PROVE  PresenceInv'
  BY <1>10, <1>11 DEF OperatorStep, SweepAdd, SweepPersist, SweepAck, RequeueAdd, Delete, Trim,
                      Mark, OperatorDies, PurgeList, SweepList, RequeueRead, agentVars
<1>12. ASSUME NEW m \in Msgs, Expire(m) \/ Send(m) PROVE PresenceInv'
  BY <1>10, <1>12 DEF Expire, Send, agentVars
<1>13. ASSUME NEW c \in Calls, Request(c) PROVE PresenceInv'
  BY <1>10, <1>13 DEF Request, agentVars
<1>14. CASE UNCHANGED vars
  BY <1>10, <1>14 DEF vars, agentVars
<1>15. CASE Others
  BY <1>1, <1>2, <1>3, <1>4, <1>5, <1>6, <1>7, <1>9, <1>11, <1>12, <1>15
     DEF Others, Receive, WatcherStep
<1> QED
  BY <1>9, <1>12, <1>13, <1>14, <1>15
     DEF RpcNext, AckAndHandle, CrashAndDrop, Respond, Hear, Timeout, allVars

\* No step gives a published envelope a second reader.
LEMMA ChannelNext == ASSUME Inv, [RpcNext]_allVars PROVE ChannelInv'
<1>0. TypeOK /\ ChannelInv
  BY DEF Inv, RpcTypeOK
\* Entries stay where they are, and nobody has read more.
<1>1. ASSUME UNCHANGED <<streams, sent, got>>,
             \A o \in Operators : todo'[o] \subseteq todo[o] \/ \A e \in todo'[o] : ~Published(e),
             \A a \in Agents : batch'[a] \subseteq batch[a]
      PROVE  ChannelInv'
  BY <1>0, <1>1 DEF ChannelInv, Published, streams
\* Entries that are not published change their place.
<1>2. ASSUME UNCHANGED <<msg, box, reader, sent, got, batch>>,
             \A e \in Entries : \/ place'[e] = place[e]
                                \/ place[e] = "pending" /\ place'[e] = "acked"
                                \/ place[e] = "dlq" /\ place'[e] = "gone",
             \A o \in Operators : todo'[o] \subseteq todo[o]
      PROVE  ChannelInv'
  <2>1. \A e \in Entries : Published(e)' => Published(e)
    BY <1>2 DEF Published
  <2>2. (\A e \in Entries : place[e] # "free" => msg[e] \in sent)'
    BY <1>0, <1>2 DEF ChannelInv
  <2>3. (\A e \in Entries : Published(e) => box[e] = Channel /\ place[e] \in Inboxed)'
    BY <1>0, <1>2, <2>1 DEF ChannelInv, Inboxed
  <2>4. (\A e, f \in Entries : Published(e) /\ Published(f) /\ msg[e] = msg[f] => e = f)'
    BY <1>0, <1>2, <2>1 DEF ChannelInv
  <2>5. (\A o \in Operators : \A e \in todo[o] : ~Published(e))'
    BY <1>0, <1>2, <2>1 DEF ChannelInv, TypeOK
  <2>6. (\A a \in Agents : \A e \in batch[a] : place[e] \in {"pending", "acked"} /\ reader[e] = a)'
    BY <1>0, <1>2 DEF ChannelInv, TypeOK
  <2>7. (\A a \in Agents, m \in Msgs : <<a, m>> \in got /\ To[m] = Channel =>
          \E e \in Entries : msg[e] = m /\ place[e] \in {"pending", "acked"} /\ reader[e] = a)'
    BY <1>0, <1>2 DEF ChannelInv
  <2> QED
    BY <2>2, <2>3, <2>4, <2>5, <2>6, <2>7 DEF ChannelInv
<1>3. ASSUME NEW p \in {"new", "dlq"}, NEW b, NEW m \in Msgs, Add(p, b, m),
             UNCHANGED <<fates, batch, todo>>, sent \subseteq sent', m \in sent',
             To[m] = Channel => b = Channel /\ p = "new" /\ m \notin sent
      PROVE  ChannelInv'
  <2>1. PICK n \in Entries :
          /\ place[n] = "free" /\ msg'[n] = m /\ place'[n] = p /\ box'[n] = b
          /\ \A e \in Entries \ {n} :
               place'[e] = place[e] /\ msg'[e] = msg[e] /\ box'[e] = box[e]
    BY <1>3, Adding
  <2>2. UNCHANGED <<reader, got>>
    BY <1>3 DEF Add, fates
  <2>3. ~Published(n)
    BY <2>1 DEF Published
  <2>4. \A e \in Entries \ {n} : Published(e)' <=> Published(e)
    BY <2>1 DEF Published
  <2>5. Published(n)' => b = Channel /\ p = "new" /\ m \notin sent
    BY <1>3, <2>1 DEF Published
  <2>6. (\A e \in Entries : place[e] # "free" => msg[e] \in sent)'
    BY <1>0, <1>3, <2>1 DEF ChannelInv
  <2>7. (\A e \in Entries : Published(e) => box[e] = Channel /\ place[e] \in Inboxed)'
    BY <1>0, <2>1, <2>4, <2>5 DEF ChannelInv, Inboxed
  <2>8. \A e \in Entries \ {n} : Published(e)' /\ Published(n)' => msg'[e] # msg'[n]
    BY <1>0, <2>1, <2>4, <2>5 DEF ChannelInv, Published
  <2>9. (\A e, f \in Entries : Published(e) /\ Published(f) /\ msg[e] = msg[f] => e = f)'
    BY <1>0, <2>1, <2>4, <2>8 DEF ChannelInv
  <2>10. (\A o \in Operators : \A e \in todo[o] : ~Published(e))'
    <3>1. \A o \in Operators : n \notin todo[o] /\ todo[o] \subseteq Entries
      BY <2>1 DEF Inv, QueueInv, Works, RpcTypeOK, TypeOK
    <3> QED
      BY <1>0, <1>3, <2>4, <3>1 DEF ChannelInv
  <2>11. (\A a \in Agents : \A e \in batch[a] : place[e] \in {"pending", "acked"} /\ reader[e] = a)'
    <3>1. \A a \in Agents : n \notin batch[a] /\ batch[a] \subseteq Entries
      BY <1>0, <2>1 DEF ChannelInv, TypeOK
    <3> QED
      BY <1>0, <1>3, <2>1, <2>2, <3>1 DEF ChannelInv
  <2>12. (\A a \in Agents, c \in Msgs : <<a, c>> \in got /\ To[c] = Channel =>
           \E e \in Entries : msg[e] = c /\ place[e] \in {"pending", "acked"} /\ reader[e] = a)'
    <3>1. ASSUME NEW a \in Agents, NEW c \in Msgs, <<a, c>> \in got, To[c] = Channel
          PROVE  \E e \in Entries : msg'[e] = c /\ place'[e] \in {"pending", "acked"} /\ reader'[e] = a
      <4>1. PICK e \in Entries : msg[e] = c /\ place[e] \in {"pending", "acked"} /\ reader[e] = a
        BY <1>0, <3>1 DEF ChannelInv
      <4>2. e # n
        BY <2>1, <4>1
      <4> QED
        BY <2>1, <2>2, <4>1, <4>2
    <3> QED
      BY <2>2, <3>1
  <2> QED
    BY <2>6, <2>7, <2>9, <2>10, <2>11, <2>12 DEF ChannelInv
<1>4. ASSUME NEW m \in Msgs, Send(m) PROVE ChannelInv'
  <2>1. /\ sent' = sent \union {m} /\ m \notin sent /\ UNCHANGED <<fates, batch, todo>>
        /\ \/ Add("new", To[m], m)
           \/ To[m] # Channel /\ Add("dlq", Nobody, m)
    BY <1>4 DEF Send, agentVars, dlqJob
  <2> QED
    BY <1>3, <2>1
<1>5. ASSUME NEW c \in Calls, Request(c) PROVE ChannelInv'
  <2>1. c \in Msgs /\ To[c] # Channel
    BY RpcAssumption, StreamsAssumption
  <2>2. /\ sent' = sent \union {c} /\ Add("new", To[c], c) /\ UNCHANGED <<fates, batch, todo>>
    BY <1>5 DEF Request, agentVars, dlqJob
  <2> QED
    BY <1>3, <2>1, <2>2
<1>6. ASSUME NEW o \in Operators, NEW e \in todo[o], NEW p \in {"new", "dlq"}, NEW b,
             Add(p, b, msg[e]), UNCHANGED <<fates, batch, todo, sent>>
      PROVE  ChannelInv'
  <2>1. e \in Entries /\ place[e] # "free" /\ ~Published(e)
    BY <1>0 DEF ChannelInv, TypeOK, Inv, QueueInv, Works
  <2>2. msg[e] \in sent /\ msg[e] \in Msgs /\ To[msg[e]] # Channel
    BY <1>0, <2>1 DEF ChannelInv, TypeOK, Published
  <2> QED
    BY <1>3, <1>6, <2>2
<1>7. ASSUME NEW o \in Operators, OperatorStep(o) PROVE ChannelInv'
  <2>1. ASSUME NEW e \in Entries, SweepAdd(o, e) PROVE ChannelInv'
    BY <1>6, <2>1 DEF SweepAdd, agentVars
  <2>2. CASE SweepPersist(o)
    BY <1>1, <2>2 DEF SweepPersist, fates, agentVars
  <2>3. CASE SweepAck(o)
    <3>1. \A p \in Operators : todo'[p] \subseteq todo[p]
      BY <1>0, <2>3 DEF SweepAck, Done, TypeOK
    <3>2. \A e \in Entries : place'[e] = place[e] \/ (place[e] = "pending" /\ place'[e] = "acked")
      BY <1>0, <2>3 DEF SweepAck, TypeOK
    <3> QED
      BY <1>2, <2>3, <3>1, <3>2 DEF SweepAck, fates, agentVars
  <2>4. ASSUME NEW a \in Agents, RequeueAdd(o, a) PROVE ChannelInv'
    <3>1. PICK e \in todo[o] : Add("new", a, msg[e])
      BY <2>4 DEF RequeueAdd
    <3>2. UNCHANGED <<fates, batch, todo, sent>>
      BY <2>4 DEF RequeueAdd, agentVars
    <3> QED
      BY <1>6, <3>1, <3>2
  <2>5. CASE Delete(o)
    BY <1>0, <1>2, <2>5 DEF Delete, agentVars
  <2>6. CASE Trim(o)
    BY <1>0, <1>2, <2>6 DEF Trim, agentVars
  <2>7. CASE Mark(o)
    BY <1>0, <1>1, <2>7 DEF Mark, Done, TypeOK, fates, agentVars
  <2> QED
    BY <1>7, <2>1, <2>2, <2>3, <2>4, <2>5, <2>6, <2>7 DEF OperatorStep
<1>8. ASSUME NEW o \in Operators, OperatorDies(o) PROVE ChannelInv'
  BY <1>0, <1>1, <1>8 DEF OperatorDies, Done, TypeOK, fates, agentVars
<1>9. ASSUME NEW o \in Operators, NEW j, NEW es \in SUBSET Entries, Start(o, j, es),
             UNCHANGED <<streams, sent, got, batch>>, \A e \in es : ~Published(e)
      PROVE  ChannelInv'
  <2>1. \A p \in Operators : todo'[p] = todo[p] \/ todo'[p] = es
    BY <1>0, <1>9 DEF Start, TypeOK
  <2> QED
    BY <1>1, <1>9, <2>1
<1>10. \A e \in Entries : place[e] = "dlq" \/ box[e] \in Agents => ~Published(e)
  BY <1>0, StreamsAssumption DEF ChannelInv, Inboxed
<1>11. ASSUME NEW o \in Operators, PurgeList(o) PROVE ChannelInv'
  BY <1>9, <1>10, <1>11 DEF PurgeList, fates, agentVars
<1>12. ASSUME NEW o \in Operators, NEW a \in Agents, SweepList(o, a) PROVE ChannelInv'
  BY <1>9, <1>10, <1>12 DEF SweepList, fates, agentVars
<1>13. ASSUME NEW o \in Operators, NEW e \in Entries, RequeueRead(o, e) PROVE ChannelInv'
  BY <1>9, <1>10, <1>13 DEF RequeueRead, fates, agentVars
<1>14. ASSUME NEW a \in Agents, NEW b \in Boxes, ReadPending(a, b) PROVE ChannelInv'
  <2>1. UNCHANGED <<streams, sent, got, todo>>
    BY <1>14 DEF ReadPending, fates, dlqJob
  <2>2. /\ batch'[a] = OwnPending(a, b)
        /\ \A c \in Agents \ {a} : batch'[c] = batch[c]
    BY <1>0, <1>14 DEF ReadPending, TypeOK
  <2> QED
    BY <1>0, <2>1, <2>2 DEF ChannelInv, Published, streams, OwnPending
<1>15. ASSUME NEW a \in Agents, ReadNew(a) PROVE ChannelInv'
  <2> DEFINE new == Unread(from[a])
  <2>1. /\ \A e \in Entries : place'[e] = IF e \in new THEN "pending" ELSE place[e]
        /\ \A e \in Entries : reader'[e] = IF e \in new THEN a ELSE reader[e]
        /\ batch'[a] = batch[a] \union new
        /\ \A c \in Agents \ {a} : batch'[c] = batch[c]
        /\ UNCHANGED <<msg, box, sent, got, todo>>
    BY <1>0, <1>15 DEF ReadNew, fates, dlqJob, TypeOK
  <2>2. new \subseteq Entries /\ \A e \in new : place[e] = "new"
    BY DEF Unread
  <2> HIDE DEF new
  <2>3. \A e \in Entries : /\ place[e] = "free" <=> place'[e] = "free"
                           /\ Published(e)' <=> Published(e)
    BY <2>1, <2>2 DEF Published
  <2>4. (\A e \in Entries : Published(e) => box[e] = Channel /\ place[e] \in Inboxed)'
    BY <1>0, <2>1, <2>3 DEF ChannelInv, Inboxed
  <2>5. \A c \in Agents : \A e \in batch'[c] : place'[e] \in {"pending", "acked"} /\ reader'[e] = c
    BY <1>0, <2>1, <2>2 DEF ChannelInv, TypeOK
  <2>6. \A e \in Entries : place[e] \in {"pending", "acked"} =>
          place'[e] = place[e] /\ reader'[e] = reader[e]
    BY <2>1, <2>2
  <2> QED
    BY <1>0, <2>1, <2>3, <2>4, <2>5, <2>6 DEF ChannelInv, TypeOK
<1>16. ASSUME NEW a \in Agents, Ack(a) PROVE ChannelInv'
  <2>1. /\ \A e \in Entries : \/ place'[e] = place[e]
                              \/ place[e] = "pending" /\ place'[e] = "acked"
        /\ batch'[a] = {} /\ \A c \in Agents \ {a} : batch'[c] = batch[c]
        /\ UNCHANGED <<msg, box, reader, sent, todo>>
        /\ got' = got \union {<<a, m>> : m \in {msg[e] : e \in batch[a]} \ expired}
    BY <1>0, <1>16 DEF Ack, dlqJob, TypeOK
  <2>2. \A e \in Entries : Published(e)' <=> Published(e)
    BY <2>1 DEF Published
  <2>3. (\A e \in Entries : Published(e) => box[e] = Channel /\ place[e] \in Inboxed)'
    BY <1>0, <2>1, <2>2 DEF ChannelInv, Inboxed
  <2>4. \A c \in Agents : \A e \in batch'[c] : place'[e] \in {"pending", "acked"} /\ reader'[e] = c
    BY <1>0, <2>1 DEF ChannelInv, TypeOK
  <2>5. ASSUME NEW c \in Agents, NEW m \in Msgs, <<c, m>> \in got', To[m] = Channel
        PROVE  \E e \in Entries : msg'[e] = m /\ place'[e] \in {"pending", "acked"} /\ reader'[e] = c
    <3>1. CASE <<c, m>> \in got
      BY <1>0, <2>1, <2>5, <3>1 DEF ChannelInv
    <3>2. CASE c = a /\ \E e \in batch[a] : m = msg[e]
      BY <1>0, <2>1, <3>2 DEF ChannelInv, TypeOK
    <3> QED
      BY <2>1, <2>5, <3>1, <3>2
  <2>6. (\A e \in Entries : place[e] # "free" => msg[e] \in sent)'
    BY <1>0, <2>1 DEF ChannelInv
  <2>7. (\A o \in Operators : \A e \in todo[o] : ~Published(e))'
    BY <1>0, <2>1, <2>2 DEF ChannelInv, TypeOK
  <2> QED
    BY <1>0, <2>1, <2>2, <2>3, <2>4, <2>5, <2>6, <2>7 DEF ChannelInv
<1>17. CASE UNCHANGED <<streams, sent, got, todo, batch>>
  BY <1>1, <1>17
<1>18. ASSUME NEW a \in Agents, Crash(a) \/ RecvFails(a) PROVE ChannelInv'
  BY <1>0, <1>1, <1>18 DEF Crash, RecvFails, fates, dlqJob, TypeOK
<1>19. ASSUME NEW a \in Agents,
              Register(a) \/ DeregisterIndex(a) \/ DeregisterHash(a) \/ HashExpires(a)
       PROVE  ChannelInv'
  BY <1>17, <1>19 DEF Register, DeregisterIndex, DeregisterHash, HashExpires, fates, dlqJob, agentVars
<1>20. ASSUME NEW v \in Watchers, Look(v) \/ LookUp(v) \/ Forget(v) PROVE ChannelInv'
  BY <1>17, <1>20 DEF Look, LookUp, Forget, fates, dlqJob, agentVars
<1>21. ASSUME NEW m \in Msgs, Expire(m) PROVE ChannelInv'
  BY <1>17, <1>21 DEF Expire, fates, dlqJob, agentVars
<1>22. CASE UNCHANGED vars
  BY <1>17, <1>22 DEF vars, fates, dlqJob, agentVars
<1>23. CASE Others
  BY <1>7, <1>8, <1>11, <1>12, <1>13, <1>14, <1>15, <1>18, <1>19, <1>20, <1>21, <1>23
     DEF Others, Receive, WatcherStep
<1> QED
  BY <1>4, <1>5, <1>16, <1>18, <1>22, <1>23
     DEF RpcNext, AckAndHandle, CrashAndDrop, Respond, Hear, Timeout, allVars
-----------------------------------------------------------------------------

\* An answer has at least one part.
LEMMA PartsAreCounted == \A c \in Calls : Parts(c) \in Nat /\ 1 <= Parts(c) /\ Parts(c) <= Chunks + 1
  BY RpcAssumption DEF Parts

\* Whatever happens, an entry keeps its envelope, and what was received stays received.
LEMMA EntriesStay ==
  ASSUME Inv, [RpcNext]_allVars
  PROVE  /\ got \subseteq got'
         /\ \A e \in Entries : place[e] # "free" => place'[e] # "free" /\ msg'[e] = msg[e]
<1> DEFINE Stay == /\ got \subseteq got'
                  /\ \A e \in Entries : place[e] # "free" => place'[e] # "free" /\ msg'[e] = msg[e]
<1> SUFFICES Stay
  OBVIOUS
<1>0. TypeOK
  BY DEF Inv, RpcTypeOK
<1>1. CASE UNCHANGED <<place, msg, got>>
  BY <1>1
<1>2. ASSUME NEW p \in {"new", "dlq"}, NEW b, NEW m, Add(p, b, m), UNCHANGED fates PROVE Stay
  BY <1>2, Adding DEF Advances
<1>3. ASSUME NEW o \in Operators, OperatorStep(o) PROVE Stay
  <2>1. ASSUME NEW e \in Entries, SweepAdd(o, e) PROVE Stay
    BY <1>2, <2>1 DEF SweepAdd
  <2>2. ASSUME NEW a \in Agents, RequeueAdd(o, a) PROVE Stay
    BY <1>2, <2>2 DEF RequeueAdd
  <2>3. CASE SweepPersist(o) \/ Mark(o)
    BY <1>1, <2>3 DEF SweepPersist, Mark, streams, fates
  <2>4. CASE SweepAck(o)
    BY <1>0, <2>4 DEF SweepAck, TypeOK, fates
  <2>5. CASE Delete(o) \/ Trim(o)
    BY <1>0, <2>5 DEF Delete, Trim, TypeOK
  <2> QED
    BY <1>3, <2>1, <2>2, <2>3, <2>4, <2>5 DEF OperatorStep
<1>4. ASSUME NEW o \in Operators,
             \/ OperatorDies(o) \/ PurgeList(o)
             \/ (\E a \in Agents : SweepList(o, a)) \/ (\E e \in Entries : RequeueRead(o, e))
      PROVE  Stay
  BY <1>1, <1>4 DEF OperatorDies, PurgeList, SweepList, RequeueRead, streams, fates
<1>5. ASSUME NEW a \in Agents,
             \/ Register(a) \/ DeregisterIndex(a) \/ DeregisterHash(a) \/ HashExpires(a)
             \/ (\E b \in Boxes : ReadPending(a, b)) \/ RecvFails(a) \/ Crash(a)
      PROVE  Stay
  BY <1>1, <1>5 DEF Register, DeregisterIndex, DeregisterHash, HashExpires, ReadPending, RecvFails,
                    Crash, streams, fates
<1>6. ASSUME NEW a \in Agents, ReadNew(a) \/ Ack(a) PROVE Stay
  BY <1>0, <1>6 DEF ReadNew, Ack, TypeOK, fates
<1>7. ASSUME NEW m \in Msgs, Expire(m) \/ Send(m) PROVE Stay
  BY <1>1, <1>2, <1>7 DEF Expire, Send, streams, fates
<1>8. ASSUME NEW c \in Calls, Request(c) PROVE Stay
  BY <1>2, <1>8 DEF Request
<1>9. ASSUME NEW v \in Watchers, Look(v) \/ LookUp(v) \/ Forget(v) PROVE Stay
  BY <1>1, <1>9 DEF Look, LookUp, Forget, streams, fates
<1>10. CASE UNCHANGED vars
  BY <1>1, <1>10 DEF vars, streams, fates
<1>11. CASE Others
  BY <1>3, <1>4, <1>5, <1>6, <1>7, <1>9, <1>11 DEF Others, Receive, WatcherStep
<1> HIDE DEF Stay
<1> QED
  BY <1>5, <1>6, <1>7, <1>8, <1>9, <1>10, <1>11
     DEF RpcNext, AckAndHandle, CrashAndDrop, Respond, Hear, Timeout, allVars

\* A handler that sends nothing, or ends.
LEMMA HandledStays ==
  ASSUME Inv, [RpcNext]_allVars, NEW e \in Entries, part'[e] = part[e] \/ part'[e] = 0
  PROVE  Handled(e)'
<1>1. Handled(e)
  BY DEF Inv, AnswerInv
<1>2. CASE part'[e] = part[e] /\ part[e] > 0
  BY <1>1, <1>2, EntriesStay DEF Handled, Received
<1> QED
  BY <1>2 DEF Handled

\* A list that nobody pushes to or pops from.
LEMMA AnswersStay ==
  ASSUME Inv, [RpcNext]_allVars, NEW c \in Calls, replies'[c] = replies[c], heard'[c] = heard[c]
  PROVE  Answers(c)'
  BY EntriesStay DEF Inv, AnswerInv, Answers, Received

\* No step answers a request nobody received, or with a part that does not exist.
LEMMA AnswerNext == ASSUME Inv, [RpcNext]_allVars PROVE AnswerInv'
<1> USE RpcAssumption
<1>0. RpcTypeOK /\ AnswerInv /\ TypeOK /\ QueueInv /\ ChannelInv
  BY DEF Inv, RpcTypeOK
<1>1. CASE UNCHANGED rpcVars
  BY <1>1, HandledStays, AnswersStay DEF AnswerInv, rpcVars
<1>2. ASSUME NEW a \in Agents, AckAndHandle(a) PROVE AnswerInv'
  <2>1. ASSUME NEW e \in Entries PROVE Handled(e)'
    <3>1. CASE part'[e] = part[e]
      BY <3>1, HandledStays
    <3>2. CASE e \in batch[a] /\ msg[e] \in Calls \ expired /\ part'[e] = 1
      <4>1. place'[e] # "free" /\ msg'[e] = msg[e]
        BY <1>0, <3>2, EntriesStay DEF ChannelInv
      <4>2. <<a, msg[e]>> \in got'
        BY <1>2, <3>2 DEF AckAndHandle, Ack
      <4> QED
        BY <3>2, <4>1, <4>2, PartsAreCounted DEF Handled, Received
    <3> QED
      BY <1>2, <3>1, <3>2 DEF AckAndHandle
  <2> QED
    BY <1>2, <2>1, AnswersStay DEF AckAndHandle, AnswerInv
<1>3. ASSUME NEW a \in Agents, CrashAndDrop(a) PROVE AnswerInv'
  BY <1>3, HandledStays, AnswersStay DEF CrashAndDrop, AnswerInv
<1>4. ASSUME NEW e \in Entries, Respond(e) PROVE AnswerInv'
  <2>1. PICK c \in Calls :
          c = msg[e] /\ Received(c) /\ part[e] \in 1 .. Parts(c) /\ place[e] # "free"
    BY <1>0, <1>4 DEF Respond, AnswerInv, Handled, RpcTypeOK
  <2>2. /\ replies' = [replies EXCEPT ![c] = <<part[e]>> \o @]
        /\ part' = [part EXCEPT ![e] = IF @ = Parts(c) THEN 0 ELSE @ + 1]
        /\ UNCHANGED <<msg, place, got, heard>>
    BY <1>4, <2>1 DEF Respond, vars, streams, fates
  <2>3. Received(c)'
    BY <2>1, <2>2 DEF Received
  <2>4. Handled(e)'
    <3>1. part'[e] = IF part[e] = Parts(c) THEN 0 ELSE part[e] + 1
      BY <1>0, <2>2 DEF RpcTypeOK
    <3> QED
      BY <2>1, <2>2, <2>3, <3>1, PartsAreCounted DEF Handled
  <2>5. ASSUME NEW f \in Entries \ {e} PROVE Handled(f)'
    BY <1>0, <2>2, HandledStays DEF RpcTypeOK
  <2>6. ASSUME NEW d \in Calls \ {c} PROVE Answers(d)'
    BY <1>0, <2>2, AnswersStay DEF RpcTypeOK
  <2>7. replies[c] \in Seq(1 .. Parts(c)) /\ heard[c] \in Seq(1 .. Parts(c))
    BY <1>0 DEF AnswerInv, Answers
  <2>8. <<part[e]>> \o replies[c] \in Seq(1 .. Parts(c))
    BY <2>1, <2>7, ConcatProperties
  <2>9. replies'[c] = <<part[e]>> \o replies[c] /\ heard'[c] = heard[c]
    BY <1>0, <2>2 DEF RpcTypeOK
  <2>10. Answers(c)'
    BY <2>3, <2>7, <2>8, <2>9 DEF Answers, Parts
  <2> QED
    BY <2>4, <2>5, <2>6, <2>10 DEF AnswerInv
<1>5. ASSUME NEW c \in Calls, Request(c) PROVE AnswerInv'
  <2>1. replies'[c] = <<>> /\ heard'[c] = heard[c] /\ got' = got
    BY <1>0, <1>5 DEF Request, RpcTypeOK, fates
  <2>2. Answers(c)'
    BY <1>0, <2>1, EmptySeq DEF AnswerInv, Answers, Received, Parts
  <2>3. ASSUME NEW d \in Calls \ {c} PROVE Answers(d)'
    BY <1>0, <1>5, AnswersStay DEF Request, RpcTypeOK
  <2> QED
    BY <1>5, <2>2, <2>3, HandledStays DEF Request, AnswerInv
<1>6. ASSUME NEW c \in Calls, Hear(c) PROVE AnswerInv'
  <2>1. /\ replies[c] # <<>> /\ heard[c] \in Seq(1 .. Parts(c)) /\ Received(c)
        /\ replies[c] \in Seq(1 .. Parts(c))
    BY <1>0, <1>6 DEF Hear, AnswerInv, Answers
  <2>2. /\ Head(replies[c]) \in 1 .. Parts(c) /\ Tail(replies[c]) \in Seq(1 .. Parts(c))
        /\ Append(heard[c], Head(replies[c])) \in Seq(1 .. Parts(c))
    BY <2>1, HeadTailProperties, AppendProperties
  <2>3. replies'[c] = Tail(replies[c]) /\ heard'[c] = Append(heard[c], Head(replies[c]))
    BY <1>0, <1>6 DEF Hear, RpcTypeOK
  <2>4. Received(c)'
    BY <2>1, EntriesStay DEF Received
  <2>5. Answers(c)'
    BY <2>2, <2>3, <2>4 DEF Answers, Parts
  <2>6. ASSUME NEW d \in Calls \ {c} PROVE Answers(d)'
    BY <1>0, <1>6, AnswersStay DEF Hear, RpcTypeOK
  <2> QED
    BY <1>6, <2>5, <2>6, HandledStays DEF Hear, AnswerInv
<1>7. ASSUME NEW c \in Calls, Timeout(c) PROVE AnswerInv'
  BY <1>7, HandledStays, AnswersStay DEF Timeout, AnswerInv
<1> QED
  BY <1>1, <1>2, <1>3, <1>4, <1>5, <1>6, <1>7 DEF RpcNext, allVars

\* Types, for all steps.
LEMMA RpcTypesNext == ASSUME Inv, [RpcNext]_allVars PROVE RpcTypeOK'
<1> USE RpcAssumption, StreamsAssumption
<1>0. RpcTypeOK /\ AnswerInv /\ TypeOK /\ QueueInv /\ ChannelInv
  BY DEF Inv, RpcTypeOK
<1>1. CASE UNCHANGED allVars
  BY <1>0, <1>1 DEF RpcTypeOK, TypeOK, allVars, vars, rpcVars, presence, streams, fates,
                    agentVars, dlqJob, looking
<1>2. ASSUME NEW m \in Msgs, NEW p \in {"new", "dlq"}, NEW b \in Boxes \union {Nobody}, Add(p, b, m),
             sent' = sent \union {m},
             UNCHANGED <<presence, row, expired, fates, agentVars, dlqJob, looking, faults, jobs>>
      PROVE  TypeOK'
  BY <1>0, <1>2 DEF Add, TypeOK, presence, fates, agentVars, dlqJob, looking
<1>3. ASSUME NEW m \in Msgs, Send(m), UNCHANGED rpcVars PROVE RpcTypeOK'
  <2>1. To[m] \in Boxes
    OBVIOUS
  <2> QED
    BY <1>0, <1>2, <1>3, <2>1 DEF Send, RpcTypeOK, rpcVars
<1>4. ASSUME NEW c \in Calls, Request(c) PROVE RpcTypeOK'
  <2>1. TypeOK'
    BY <1>2, <1>4 DEF Request, Boxes
  <2> QED
    BY <1>0, <1>4, <2>1, EmptySeq DEF Request, RpcTypeOK
<1>5. ASSUME NEW a \in Agents, AckAndHandle(a) PROVE RpcTypeOK'
  <2>1. \A e \in batch[a] : msg[e] \in Msgs
    BY <1>0 DEF ChannelInv, TypeOK
  <2>2. TypeOK'
    BY <1>0, <1>5, <2>1
       DEF AckAndHandle, Ack, TypeOK, AgentCalls, presence, dlqJob, looking
  <2> QED
    BY <1>0, <1>5, <2>2 DEF AckAndHandle, RpcTypeOK
<1>6. ASSUME NEW a \in Agents, CrashAndDrop(a) PROVE RpcTypeOK'
  <2>1. TypeOK'
    BY <1>0, <1>6 DEF CrashAndDrop, Crash, Fault, TypeOK, AgentCalls, presence, streams, fates,
                      dlqJob, looking
  <2> QED
    BY <1>0, <1>6, <2>1 DEF CrashAndDrop, RpcTypeOK
<1>7. ASSUME UNCHANGED vars PROVE TypeOK'
  BY <1>0, <1>7 DEF vars, TypeOK, presence, streams, fates, agentVars, dlqJob, looking
<1>8. ASSUME AnswerInv', NEW c \in Calls
      PROVE  replies'[c] \in Seq(0 .. Chunks + 1) /\ heard'[c] \in Seq(0 .. Chunks + 1)
  <2>1. replies'[c] \in Seq(1 .. Parts(c)) /\ heard'[c] \in Seq(1 .. Parts(c))
    BY <1>8 DEF AnswerInv, Answers, Parts
  <2>2. 1 .. Parts(c) \subseteq 0 .. Chunks + 1
    BY PartsAreCounted
  <2> QED
    BY <2>1, <2>2, SeqMonotonic
<1>9. ASSUME NEW e \in Entries, Respond(e) PROVE RpcTypeOK'
  <2>1. msg[e] \in Calls /\ part[e] <= Parts(msg[e])
    BY <1>0, <1>9 DEF Respond, AnswerInv, Handled
  <2>2. part' \in [Entries -> 0 .. Chunks + 2]
    BY <1>0, <1>9, <2>1, PartsAreCounted DEF Respond, RpcTypeOK
  <2>3. replies' \in [Calls -> Seq(0 .. Chunks + 1)]
    BY <1>0, <1>8, <1>9, AnswerNext DEF Respond, RpcTypeOK, RpcNext
  <2> QED
    BY <1>0, <1>7, <1>9, <2>2, <2>3 DEF Respond, RpcTypeOK
<1>10. ASSUME NEW c \in Calls, Hear(c) PROVE RpcTypeOK'
  <2>1. replies' \in [Calls -> Seq(0 .. Chunks + 1)] /\ heard' \in [Calls -> Seq(0 .. Chunks + 1)]
    BY <1>0, <1>8, <1>10, AnswerNext DEF Hear, RpcTypeOK, RpcNext
  <2> QED
    BY <1>0, <1>7, <1>10, <2>1 DEF Hear, RpcTypeOK
<1>11. ASSUME NEW c \in Calls, Timeout(c) PROVE RpcTypeOK'
  BY <1>0, <1>7, <1>11 DEF Timeout, RpcTypeOK
<1> QED
  BY <1>1, <1>3, <1>4, <1>5, <1>6, <1>9, <1>10, <1>11, TypesStep DEF RpcNext

-----------------------------------------------------------------------------

\* The invariant holds of empty streams.
LEMMA InitInv == RpcInit => Inv
<1> SUFFICES ASSUME RpcInit PROVE Inv
  OBVIOUS
<1> USE StreamsAssumption, RpcAssumption DEF RpcInit, Init
<1>1. TypeOK
  BY DEF TypeOK, AgentCalls, Jobs, Verdicts
<1>2. RpcTypeOK
  BY <1>1, EmptySeq DEF RpcTypeOK
<1>3. FillsUp
  <2>1. 0 \in 0 .. N /\ \A e \in Entries : place[e] = "free" <=> e > 0
    BY EntriesAreNumbers
  <2> QED
    BY <2>1 DEF FillsUp
<1>4. QueueInv
  BY <1>3 DEF QueueInv, Works, Copying, NothingLost, Resolved
<1>5. ChannelInv
  BY DEF ChannelInv, Published
<1>6. PresenceInv
  BY DEF PresenceInv
<1>7. AnswerInv
  BY EmptySeq DEF AnswerInv, Answers, Handled
<1> QED
  BY <1>2, <1>4, <1>5, <1>6, <1>7 DEF Inv

\* Every step preserves it.
LEMMA NextInv == Inv /\ [RpcNext]_allVars => Inv'
  BY RpcTypesNext, QueueNext, ChannelNext, PresenceNext, AnswerNext DEF Inv

\* The inductive invariant holds in every reachable state.
THEOREM Invariance == RpcSpec => []Inv
  BY InitInv, NextInv, PTL DEF RpcSpec

\* The types of the streams, jobs and calls, in every reachable state.
THEOREM RpcTypes == RpcSpec => []RpcTypeOK
<1>1. Inv => RpcTypeOK
  BY DEF Inv
<1> QED
  BY <1>1, Invariance, PTL

\* However many operators sweep, requeue, purge and die at once, an envelope that was sent
\* is in a stream until somebody got it, its TTL ran out, or it was purged; and no two
\* agents get the same published one, after any failed read.
THEOREM MessagesStay == RpcSpec => []MessagesKept
<1>1. Inv => NothingLost
  BY DEF Inv, QueueInv
<1>2. Inv => CompetingConsumers
  <2> SUFFICES ASSUME Inv, NEW m \in Msgs, To[m] = Channel, NEW a \in Agents, NEW b \in Agents,
                      <<a, m>> \in got, <<b, m>> \in got
               PROVE  a = b
    BY DEF CompetingConsumers
  <2>1. PICK e \in Entries : msg[e] = m /\ place[e] \in {"pending", "acked"} /\ reader[e] = a
    BY DEF Inv, ChannelInv
  <2>2. PICK f \in Entries : msg[f] = m /\ place[f] \in {"pending", "acked"} /\ reader[f] = b
    BY DEF Inv, ChannelInv
  <2>3. e = f
    BY <2>1, <2>2 DEF Inv, ChannelInv, Published
  <2> QED
    BY <2>1, <2>2, <2>3
<1>3. Inv => MessagesKept
  BY <1>1, <1>2 DEF MessagesKept
<1> QED
  BY <1>3, Invariance, PTL

\* Listing and cleaning up stale agents never makes one unreachable whose hash has been
\* there since it registered, whatever was read before it did.
THEOREM HeartbeatSuffices == RpcSpec => []HeartbeatingReachable
<1>1. Inv => HeartbeatingReachable
  BY DEF Inv, PresenceInv, HeartbeatingReachable
<1> QED
  BY <1>1, Invariance, PTL

\* A row that SQLite shows as requeued or purged is of an entry that left the DLQ, and a
\* requeued one came to an inbox, also when several operators resolve the same entry.
THEOREM RowsAreTrue == RpcSpec => []ResolvedIsGone
<1>1. Inv => ResolvedIsGone
  BY DEF Inv, QueueInv, ResolvedIsGone, Resolved, InboxedLater, Inboxed
<1> QED
  BY <1>1, Invariance, PTL

\* What a caller pops from the list of its request was sent by an agent that received
\* this request, and is a part of the answer.
THEOREM AnswersAreHeard == RpcSpec => []HeardWasAnswered
<1>1. Inv => HeardWasAnswered
  <2> SUFFICES ASSUME Inv, NEW c \in Calls, heard[c] # <<>>
               PROVE  /\ \E a \in Agents : <<a, c>> \in got
                      /\ \A i \in DOMAIN heard[c] : heard[c][i] \in 1 .. Parts(c)
    BY DEF HeardWasAnswered
  <2>1. heard[c] \in Seq(1 .. Parts(c)) /\ Received(c)
    BY DEF Inv, AnswerInv, Answers
  <2>2. DOMAIN heard[c] = 1 .. Len(heard[c])
    BY <2>1, LenProperties
  <2> QED
    BY <2>1, <2>2, ElementOfSeq DEF Received
<1> QED
  BY <1>1, Invariance, PTL

=============================================================================
