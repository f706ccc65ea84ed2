--------------------------- MODULE ServicesProofs ---------------------------
(***************************************************************************)
(* The components around the task board, for any instances.  Each has an   *)
(* inductive invariant of its own, proved from its own Init and Next; the  *)
(* last section puts them together, which is where it is used that a step  *)
(* of one component changes the variables of no other.                     *)
(***************************************************************************)
EXTENDS MCServices, FiniteSetTheorems, SequenceTheorems, WellFoundedInduction, TLAPS

\* A set of numbers has a least one.
LEMMA LeastNat == ASSUME NEW T, T \subseteq Nat, T # {} PROVE \E x \in T : \A y \in T : x <= y
<1> DEFINE R == OpToRel(<, Nat)
<1>1. IsWellFoundedOn(R, Nat)
  BY NatLessThanWellFounded
<1>2. \A y, x \in Nat : y < x => <<y, x>> \in R
  BY DEF OpToRel
<1> HIDE DEF R
<1>3. PICK x \in T : \A y \in T : ~(<<y, x>> \in R)
  BY <1>1, WFMin
<1>4. \A y \in T : ~(y < x)
  BY <1>2, <1>3
<1>5. \A y \in T : x <= y
  BY <1>4
<1> QED
  BY <1>5

-----------------------------------------------------------------------------
\* The store and its breaker.
CacheOK(c) == c \in Seq(CacheEntries) /\ Len(c) <= CacheSize

LEMMA RemoveOne ==
  ASSUME NEW T, NEW s \in Seq(T), NEW i \in DOMAIN s
  PROVE  RemoveAt(s, i) \in Seq(T) /\ Len(RemoveAt(s, i)) = Len(s) - 1
<1>1. /\ SubSeq(s, 1, i - 1) \in Seq(T) /\ Len(SubSeq(s, 1, i - 1)) = i - 1
      /\ SubSeq(s, i + 1, Len(s)) \in Seq(T) /\ Len(SubSeq(s, i + 1, Len(s))) = Len(s) - i
  BY SubSeqProperties
<1> DEFINE front == SubSeq(s, 1, i - 1)  back == SubSeq(s, i + 1, Len(s))
<1>2. i \in 1..Len(s) /\ Len(s) \in Nat
  OBVIOUS
<1>3. front \o back \in Seq(T) /\ Len(front \o back) = Len(front) + Len(back)
  <2> HIDE DEF front, back
  <2>1. front \in Seq(T) /\ back \in Seq(T)
    BY <1>1 DEF front, back
  <2> QED
    BY <2>1, ConcatProperties
<1>4. RemoveAt(s, i) = front \o back
  BY DEF RemoveAt
<1>5. Len(front) + Len(back) = Len(s) - 1
  BY <1>1, <1>2, SMTT(30)
<1> QED
  BY <1>3, <1>4, <1>5

LEMMA WithoutOK ==
  ASSUME CacheOK(cache), NEW q
  PROVE  /\ CacheOK(Without(q))
         /\ \A e \in CacheEntries :
              (Without(q) # cache \/ Len(cache) < CacheSize) => CacheOK(Append(Without(q), e))
         /\ \A e \in CacheEntries :
              LET c == Append(Without(q), e)
              IN  CacheOK(IF Len(c) > CacheSize THEN Tail(c) ELSE c)
<1> USE PromAssumption
<1>1. Without(q) \in Seq(CacheEntries) /\ Len(Without(q)) <= Len(cache)
      /\ (Without(q) = cache \/ Len(Without(q)) = Len(cache) - 1)
  <2> DEFINE at == {i \in DOMAIN cache : cache[i].query = q}
  <2>1. CASE at = {}
    BY <2>1 DEF Without, CacheOK
  <2>2. CASE at # {}
    <3>1. PICK i \in DOMAIN cache : Without(q) = RemoveAt(cache, i)
      BY <2>2 DEF Without
    <3> QED
      BY <3>1, RemoveOne DEF CacheOK
  <2> QED
    BY <2>1, <2>2
<1>2. ASSUME NEW e \in CacheEntries
      PROVE  /\ Append(Without(q), e) \in Seq(CacheEntries)
             /\ Len(Append(Without(q), e)) = Len(Without(q)) + 1
  BY <1>1, AppendProperties
<1>3. ASSUME NEW e \in CacheEntries, NEW c, c = Append(Without(q), e), Len(c) > CacheSize
      PROVE  Tail(c) \in Seq(CacheEntries) /\ Len(Tail(c)) = Len(c) - 1
  BY <1>2, <1>3, HeadTailProperties
<1> QED
  BY <1>1, <1>2, <1>3 DEF CacheOK

PromInv == PromTypeOK /\ ClosedForgets

LEMMA PromStarts == PromInit => PromInv
BY PromAssumption DEF PromInit, PromInv, PromTypeOK, ClosedForgets, Closed

LEMMA RecordedOK ==
  ASSUME NEW w \in Seq(BOOLEAN), Len(w) <= WindowSize, NEW failed \in BOOLEAN,
         breaker.window = w
  PROVE  Recorded(failed) \in Seq(BOOLEAN) /\ Len(Recorded(failed)) <= WindowSize
<1> USE PromAssumption
<1>1. Append(w, failed) \in Seq(BOOLEAN) /\ Len(Append(w, failed)) = Len(w) + 1
  BY AppendProperties
<1>2. Len(Append(w, failed)) > WindowSize
        => Tail(Append(w, failed)) \in Seq(BOOLEAN) /\ Len(Tail(Append(w, failed))) = Len(w)
  BY <1>1, HeadTailProperties
<1>3. Recorded(failed) = IF Len(Append(w, failed)) > WindowSize THEN Tail(Append(w, failed))
                                                               ELSE Append(w, failed)
  BY DEF Recorded
<1>4. Len(w) \in Nat /\ WindowSize \in Nat
  BY LenProperties, PromAssumption
<1> DEFINE a == Append(w, failed)
<1>5. CASE Len(a) > WindowSize
  <2>1. Recorded(failed) = Tail(a)
    BY <1>3, <1>5
  <2> QED
    BY <1>2, <1>5, <2>1
<1>6. CASE ~(Len(a) > WindowSize)
  <2>1. Recorded(failed) = a
    BY <1>3, <1>6
  <2>2. Len(a) \in Nat /\ Len(a) <= WindowSize
    BY <1>1, <1>4, <1>6
  <2> QED
    BY <1>1, <2>1, <2>2
<1> QED
  BY <1>5, <1>6

\* A closed breaker was just reset, or has its cooldown unchanged; only an
\* open one is doubled.
LEMMA PromKept == PromInv /\ [PromNext]_promVars => PromInv'
<1> SUFFICES ASSUME PromInv, [PromNext]_promVars PROVE PromInv'
  OBVIOUS
<1> USE PromAssumption DEF PromInv, PromTypeOK, ClosedForgets
<1>a. CacheOK(cache)
  BY DEF CacheOK
<1>b. PICK s \in {"CLOSED", "OPEN", "HALF_OPEN"}, w \in Seq(BOOLEAN), d \in 1..MaxCooldown,
           o \in BOOLEAN :
        /\ breaker = [state |-> s, window |-> w, cooldown |-> d, cooled |-> o]
        /\ Len(w) <= WindowSize
        /\ s = "CLOSED" => d = 1
  OBVIOUS
<1>1. CASE UNCHANGED promVars
  BY <1>1 DEF promVars
<1>2. ASSUME NEW t \in Threads, PromHit(t) PROVE PromInv'
  <2>1. PICK e \in ToSet(cache) : /\ e.query = QueryOf[t] /\ Goes(t, "idle", "answered", e.good)
                                  /\ cache' = Append(Without(e.query), e)
    BY <1>2 DEF PromHit
  <2>2. PICK i \in DOMAIN cache : e = cache[i]
    BY DEF ToSet
  <2>3. e \in CacheEntries
    BY <2>2
  <2>4. Without(e.query) # cache
    <3>1. PICK j \in DOMAIN cache : Without(e.query) = RemoveAt(cache, j)
      BY <2>2 DEF Without
    <3> QED
      BY <3>1, RemoveOne
  <2>5. CacheOK(cache')
    BY <1>a, <2>1, <2>3, <2>4, WithoutOK
  <2> QED
    BY <1>2, <2>1, <2>3, <2>5 DEF PromHit, Goes, CacheOK, CacheEntries
<1>3. ASSUME NEW t \in Threads, PromMiss(t) PROVE PromInv'
  <2>1. CacheOK(cache')
    BY <1>3, <1>a, WithoutOK DEF PromMiss
  <2> QED
    BY <1>3, <2>1 DEF PromMiss, Goes, CacheOK
<1>4. ASSUME NEW t \in Threads, TryHalfOpen(t) PROVE PromInv'
  BY <1>4, <1>b DEF TryHalfOpen, Goes
<1>5. ASSUME NEW t \in Threads, ReadState(t) PROVE PromInv'
  BY <1>5 DEF ReadState, Goes
<1>6. ASSUME NEW t \in Threads, PromReply(t) PROVE PromInv'
  BY <1>6 DEF PromReply, Goes
<1>7. ASSUME NEW t \in Threads, PromRecord(t) PROVE PromInv'
  <2>1. PICK g \in BOOLEAN : asker[t].good = g
    OBVIOUS
  <2>2. \A failed \in BOOLEAN : Recorded(failed) \in Seq(BOOLEAN) /\ Len(Recorded(failed)) <= WindowSize
    BY <1>b, RecordedOK
  <2> DEFINE OK(b) == /\ b \in [state : {"CLOSED", "OPEN", "HALF_OPEN"}, window : Seq(BOOLEAN),
                                cooldown : 1..MaxCooldown, cooled : BOOLEAN]
                      /\ Len(b.window) <= WindowSize
                      /\ b.state = "CLOSED" => b.cooldown = 1
  <2>3. OK(OnSuccess)
    <3>1. CASE s = "HALF_OPEN"
      BY <1>b, <3>1, EmptySeq DEF OnSuccess, Closed
    <3>2. CASE s # "HALF_OPEN"
      BY <1>b, <2>2, <3>2 DEF OnSuccess
    <3> QED
      BY <3>1, <3>2
  <2>4. OK(OnFailure)
    <3>1. CASE s = "HALF_OPEN"
      BY <1>b, <3>1, EmptySeq DEF OnFailure
    <3>2. CASE s # "HALF_OPEN"
      BY <1>b, <2>2, <3>2 DEF OnFailure
    <3> QED
      BY <3>1, <3>2
  <2>5. OK(breaker')
    BY <1>7, <2>1, <2>3, <2>4 DEF PromRecord
  <2> QED
    BY <1>7, <2>1, <2>5 DEF PromRecord, Goes
<1>8. ASSUME NEW t \in Threads, PromPut(t) PROVE PromInv'
  <2>1. PICK g \in BOOLEAN : asker[t].good = g
    OBVIOUS
  <2>2. [query |-> QueryOf[t], good |-> g, expired |-> FALSE] \in CacheEntries
    BY DEF CacheEntries, PromQueries
  <2>3. CacheOK(cache')
    BY <1>8, <1>a, <2>1, <2>2, WithoutOK DEF PromPut
  <2> QED
    BY <1>8, <2>1, <2>3 DEF PromPut, Goes, CacheOK
<1>9. ASSUME NEW t \in Threads, PromReturn(t) PROVE PromInv'
  BY <1>9 DEF PromReturn, Goes
<1>10. ASSUME NEW i \in 1..CacheSize, CacheExpire(i) PROVE PromInv'
  <2>1. i \in DOMAIN cache /\ cache[i] \in CacheEntries
    BY <1>10 DEF CacheExpire
  <2>2. [cache[i] EXCEPT !.expired = TRUE] \in CacheEntries
    BY <2>1 DEF CacheEntries
  <2>3. cache' \in Seq(CacheEntries) /\ Len(cache') = Len(cache)
    BY <1>10, <2>1, <2>2, ExceptSeq DEF CacheExpire
  <2> QED
    BY <1>10, <2>3 DEF CacheExpire
<1>11. CASE CoolDown
  BY <1>11, <1>b DEF CoolDown
<1>12. CASE PromFlips
  BY <1>12 DEF PromFlips
<1> QED
  BY <1>1, <1>2, <1>3, <1>4, <1>5, <1>6, <1>7, <1>8, <1>9, <1>10, <1>11, <1>12 DEF PromNext, PromAsk

-----------------------------------------------------------------------------
\* The lock file of a slot: the flock is taken when it is free, and given up by
\* the one who has it or with that process.
SlotInv == SlotTypeOK /\ WritersExclude

LEMMA SlotStarts == SlotInit => SlotInv
BY SlotAssumption DEF SlotInit, SlotInv, SlotTypeOK, WritersExclude, Empty, Contents

LEMMA SlotKept == SlotInv /\ [SlotNext]_slotVars => SlotInv'
<1> SUFFICES ASSUME SlotInv, [SlotNext]_slotVars PROVE SlotInv'
  OBVIOUS
<1> USE SlotAssumption DEF SlotInv, SlotTypeOK, WritersExclude, SlotMoves
<1>e. Empty \in Contents /\ \A u \in SlotUsers : Fresh(u) \in Contents
  BY DEF Empty, Contents, Fresh
<1>1. CASE UNCHANGED slotVars
  BY <1>1 DEF slotVars
<1>2. ASSUME NEW u \in SlotUsers, SlotCheck(u) \/ SlotOpen(u) PROVE SlotInv'
  BY <1>2, <1>e DEF SlotCheck, SlotOpen
<1>3. ASSUME NEW u \in SlotUsers, SlotLock(u) PROVE SlotInv'
  <2>1. CASE slotFlock = NoUser
    BY <1>3, <2>1, <1>e DEF SlotLock
  <2>2. CASE slotFlock # NoUser
    BY <1>3, <2>2, <1>e DEF SlotLock
  <2> QED
    BY <2>1, <2>2
<1>4. ASSUME NEW u \in SlotUsers, SlotWrite(u) PROVE SlotInv'
  BY <1>4, <1>e DEF SlotWrite
<1>5. ASSUME NEW u \in SlotUsers, SlotClaimed(u) PROVE SlotInv'
  BY <1>5, <1>e DEF SlotClaimed
<1>6. ASSUME NEW u \in SlotUsers, BeatRead(u) \/ BeatTruncate(u) PROVE SlotInv'
  BY <1>6, <1>e DEF BeatRead, BeatTruncate
<1>7. ASSUME NEW u \in SlotUsers, BeatWrite(u) PROVE SlotInv'
  <2>1. slotUser[u].saw \in Contents
    OBVIOUS
  <2>2. [slotUser[u].saw EXCEPT !.old = FALSE] \in Contents
    BY <2>1 DEF Contents
  <2> QED
    BY <1>7, <1>e, <2>2 DEF BeatWrite
<1>8. ASSUME NEW u \in SlotUsers, ReleaseRead(u) PROVE SlotInv'
  <2>1. PICK to \in {"idle", "releases"} : SlotMoves(u, "holds", to, Empty)
    BY <1>8 DEF ReleaseRead
  <2> QED
    BY <1>8, <1>e, <2>1 DEF ReleaseRead
<1>9. ASSUME NEW u \in SlotUsers, ReleaseClear(u) PROVE SlotInv'
  BY <1>9, <1>e DEF ReleaseClear
<1>10. ASSUME NEW s \in SlotSweepers, SlotJudge(s) \/ SlotClear(s) PROVE SlotInv'
  BY <1>10, <1>e DEF SlotJudge, SlotClear
<1>11. CASE BeatAges \/ DeadlinePasses
  BY <1>11 DEF BeatAges, DeadlinePasses, Contents
<1>12. ASSUME NEW u \in SlotUsers, SlotDie(u) PROVE SlotInv'
  BY <1>12, <1>e DEF SlotDie
<1> QED
  BY <1>1, <1>2, <1>3, <1>4, <1>5, <1>6, <1>7, <1>8, <1>9, <1>10, <1>11, <1>12
     DEF SlotNext, SlotStep

-----------------------------------------------------------------------------
\* The registry.
LEMMA RegistryStarts == RegistryInit => RegistryTypeOK
BY RegistryAssumption DEF RegistryInit, RegistryTypeOK, Resting, NoCounts, Counts

LEMMA RegistryKept == RegistryTypeOK /\ [RegistryNext]_registryVars => RegistryTypeOK'
<1> SUFFICES ASSUME RegistryTypeOK, [RegistryNext]_registryVars PROVE RegistryTypeOK'
  OBVIOUS
<1> USE RegistryAssumption DEF RegistryTypeOK, AgentGoes, FileIs
<1>c. NoCounts \in Counts
  BY DEF NoCounts, Counts
<1>1. CASE UNCHANGED registryVars
  BY <1>1 DEF registryVars
<1>2. ASSUME NEW a \in Agents, SessionStart(a) \/ FileBeat(a) \/ SessionStop(a) PROVE RegistryTypeOK'
  BY <1>2 DEF SessionStart, FileBeat, SessionStop
<1>3. ASSUME NEW a \in Agents, FileDeregister(a) \/ LateBeat(a) PROVE RegistryTypeOK'
  BY <1>3 DEF FileDeregister, LateBeat
<1>4. ASSUME NEW a \in Agents, FileAges(a) \/ AgentDies(a) \/ CleanRemove(a) PROVE RegistryTypeOK'
  <2>1. CASE FileAges(a)
    BY <2>1 DEF FileAges
  <2>2. CASE AgentDies(a)
    BY <2>2 DEF AgentDies
  <2>3. CASE CleanRemove(a)
    BY <2>3 DEF CleanRemove
  <2> QED
    BY <1>4, <2>1, <2>2, <2>3
<1>5. CASE CleanLoad
  BY <1>5, <1>c DEF CleanLoad, Resting
<1>6. CASE CleanScan
  <2>1. ASSUME NEW a \in Agents PROVE Counted(a) \in 0..StaleMissCount
    <3>1. missCount[a] \in 0..StaleMissCount
      BY DEF Counts
    <3>2. agentFile[a] \in {"none", "fresh", "stale"}
      OBVIOUS
    <3> QED
      BY <3>1, <3>2 DEF Counted
  <2> DEFINE new == [a \in Agents |-> Counted(a)]
  <2>2. new \in Counts
    BY <2>1 DEF Counts
  <2> HIDE DEF new
  <2>3. cleaner' = [cleaner EXCEPT !.at = "seen", !.new = new,
                       !.todo = {a \in Agents : agentFile[a] = "stale" /\ new[a] = StaleMissCount}]
    BY <1>6 DEF CleanScan, new
  <2> QED
    BY <1>6, <2>2, <2>3 DEF CleanScan
<1>7. CASE CleanSave
  BY <1>7, <1>c DEF CleanSave
<1>8. CASE CleanEnd
  <2>1. cleaner.old \in Counts
    OBVIOUS
  <2>2. [a \in Agents |-> IF a \in cleaner.cleaned THEN 0 ELSE cleaner.old[a]] \in Counts
    BY <2>1 DEF Counts
  <2> QED
    BY <1>8, <1>c, <2>2 DEF CleanEnd, Resting
<1> QED
  BY <1>1, <1>2, <1>3, <1>4, <1>5, <1>6, <1>7, <1>8 DEF RegistryNext

-----------------------------------------------------------------------------
\* The heartbeat of a task: a worker that works finds its last ping fresh where
\* it went.
BeatsInv == BeatsTypeOK /\ (hbWorker = "works" => hbRecord[hbLast] = "fresh")

LEMMA BeatsStart == BeatsInit => BeatsInv
BY DEF BeatsInit, BeatsInv, BeatsTypeOK

LEMMA BeatsKept == BeatsInv /\ [BeatsNext]_beatVars => BeatsInv'
<1> SUFFICES ASSUME BeatsInv, [BeatsNext]_beatVars PROVE BeatsInv'
  OBVIOUS
<1> USE DEF BeatsInv, BeatsTypeOK
<1>w. WriteBeat /\ UNCHANGED hbWorker
        => /\ hbRecord' \in [{"redis", "file"} -> {"none", "fresh", "old"}]
           /\ hbLast' \in {"redis", "file"} /\ hbRecord'[hbLast'] = "fresh"
  <2> SUFFICES ASSUME WriteBeat, UNCHANGED hbWorker
               PROVE  /\ hbRecord' \in [{"redis", "file"} -> {"none", "fresh", "old"}]
                      /\ hbLast' \in {"redis", "file"} /\ hbRecord'[hbLast'] = "fresh"
    OBVIOUS
  <2>1. PICK last \in {"redis", "file"} : last = hbLast'
    BY DEF WriteBeat
  <2> QED
    BY <2>1 DEF WriteBeat
<1>1. CASE UNCHANGED beatVars
  BY <1>1 DEF beatVars
<1>2. CASE Ping
  BY <1>2, <1>w DEF Ping
<1>3. CASE UpdateProgress
  <2>1. CASE ReadBeat = "none"
    BY <1>3, <2>1 DEF UpdateProgress
  <2>2. CASE ReadBeat # "none"
    BY <1>3, <2>2, <1>w DEF UpdateProgress
  <2> QED
    BY <2>1, <2>2
<1>4. CASE WorkerEnds
  BY <1>4 DEF WorkerEnds
<1>5. ASSUME NEW s \in {"redis", "file"}, RecordAges(s) PROVE BeatsInv'
  BY <1>5 DEF RecordAges
<1>6. CASE RecordExpires
  BY <1>6 DEF RecordExpires
<1>7. CASE ProgressAges \/ RedisFlipsBeat
  BY <1>7 DEF ProgressAges, RedisFlipsBeat
<1>8. CASE ReapDead \/ ReapStuck
  BY <1>8 DEF ReapDead, ReapStuck
<1> QED
  BY <1>1, <1>2, <1>3, <1>4, <1>5, <1>6, <1>7, <1>8 DEF BeatsNext

\* The dispatcher's verdict, from that.
LEMMA VerdictStep ==
  BeatsInv /\ [BeatsNext]_beatVars
    => (hbVerdict' = "dead" /\ hbVerdict # "dead" /\ hbWorker = "works"
          => hbUp # (hbLast = "redis"))
<1> SUFFICES ASSUME BeatsInv, [BeatsNext]_beatVars,
                    hbVerdict' = "dead", hbVerdict # "dead", hbWorker = "works"
             PROVE  hbUp # (hbLast = "redis")
  OBVIOUS
<1>1. ReapDead
  BY DEF BeatsNext, beatVars, Ping, UpdateProgress, WorkerEnds, RecordExpires, ProgressAges,
         RedisFlipsBeat, RecordAges, ReapStuck
<1>2. ReadBeat # "fresh"
  BY <1>1 DEF ReapDead, IsAlive
<1>3. CASE hbLast = "redis"
  BY <1>2, <1>3 DEF BeatsInv, BeatsTypeOK, ReadBeat
<1>4. CASE hbLast = "file"
  BY <1>2, <1>4 DEF BeatsInv, BeatsTypeOK, ReadBeat
<1> QED
  BY <1>3, <1>4 DEF BeatsInv, BeatsTypeOK

-----------------------------------------------------------------------------
\* The broker: between its commit and its answer, what a request has to show
\* is committed or pushed, whatever other requests do meanwhile.
Kept(w) ==
  /\ request[w].at = "commit" => \E e \in Edits : edit[e] \in {"committed", "pushed"}
  /\ request[w].at = "head" => /\ request[w].head # {}
                               /\ \A e \in request[w].head : edit[e] \in {"committed", "pushed"}
  /\ request[w].at = "ok" => /\ request[w].head # {}
                             /\ \A e \in request[w].head : edit[e] = "pushed"
BrokerInv == BrokerTypeOK /\ \A w \in Workers : Kept(w)

LEMMA BrokerStarting == BrokerInit => BrokerInv
BY BrokerAssumption DEF BrokerInit, BrokerInv, BrokerTypeOK, Kept, NoRequest

LEMMA BrokerKept == BrokerInv /\ [BrokerNext]_brokerVars => BrokerInv'
<1> SUFFICES ASSUME BrokerInv, [BrokerNext]_brokerVars PROVE BrokerInv'
  OBVIOUS
<1> USE BrokerAssumption DEF BrokerInv, BrokerTypeOK, Kept, StepTo, MoveEdits
<1>1. CASE UNCHANGED brokerVars
  BY <1>1 DEF brokerVars
<1>2. ASSUME NEW e \in Edits, EditFile(e) PROVE BrokerInv'
  BY <1>2 DEF EditFile
<1>3. ASSUME NEW w \in Workers, CallBroker(w) \/ CallTimesOut(w) PROVE BrokerInv'
  BY <1>3, SMTT(30) DEF CallBroker, CallTimesOut
<1>4. ASSUME NEW w \in Workers, GitStatus(w) PROVE BrokerInv'
  <2>1. PICK to \in {"error", "status"} : StepTo(w, "read", to)
    BY <1>4 DEF GitStatus
  <2> QED
    BY <1>4, <2>1 DEF GitStatus
<1>5. ASSUME NEW w \in Workers, GitAdd(w) PROVE BrokerInv'
  <2>1. edit' \in [Edits -> {"none", "dirty", "staged", "committed", "pushed"}]
    BY <1>5 DEF GitAdd
  <2>2. \A e \in Edits : /\ edit[e] = "pushed" => edit'[e] = "pushed"
                         /\ edit[e] = "committed" => edit'[e] = "committed"
    BY <1>5 DEF GitAdd
  <2> QED
    BY <1>5, <2>1, <2>2 DEF GitAdd
<1>6. ASSUME NEW w \in Workers, GitCommit(w) PROVE BrokerInv'
  <2>1. edit' \in [Edits -> {"none", "dirty", "staged", "committed", "pushed"}]
    BY <1>6 DEF GitCommit
  <2>2. \A e \in Edits : /\ edit[e] = "pushed" => edit'[e] = "pushed"
                         /\ edit[e] = "committed" => edit'[e] = "committed"
                         /\ edit[e] = "staged" => edit'[e] = "committed"
    BY <1>6 DEF GitCommit
  <2>3. PICK to \in {"error", "commit"} :
          /\ StepTo(w, "add", to)
          /\ to = "commit" => \E e \in Edits : edit[e] = "staged"
    BY <1>6 DEF GitCommit, EditsAt
  <2> QED
    BY <1>6, <2>1, <2>2, <2>3 DEF GitCommit
<1>7. ASSUME NEW w \in Workers, GitHead(w) PROVE BrokerInv'
  <2> DEFINE head == EditsAt("committed") \union EditsAt("pushed")
  <2>1. head \subseteq Edits /\ head # {} /\ \A e \in head : edit[e] \in {"committed", "pushed"}
    BY <1>7 DEF GitHead, EditsAt
  <2>2. /\ request' = [request EXCEPT ![w] = [at |-> "head", head |-> head]]
        /\ UNCHANGED <<brokerUp, edit, response, gitFailures>>
    BY <1>7 DEF GitHead
  <2> HIDE DEF head
  <2> QED
    BY <2>1, <2>2
<1>8. ASSUME NEW w \in Workers, GitPush(w) PROVE BrokerInv'
  <2>1. edit' \in [Edits -> {"none", "dirty", "staged", "committed", "pushed"}]
    BY <1>8 DEF GitPush
  <2>2. \A e \in Edits : edit[e] \in {"committed", "pushed"} => edit'[e] = "pushed"
    BY <1>8 DEF GitPush
  <2> QED
    BY <1>8, <2>1, <2>2 DEF GitPush
<1>9. ASSUME NEW w \in Workers, GitFails(w) PROVE BrokerInv'
  BY <1>9 DEF GitFails
<1>10. ASSUME NEW w \in Workers, AnswerClient(w) PROVE BrokerInv'
  BY <1>10 DEF AnswerClient, NoRequest
<1>11. CASE BrokerStops
  <2>1. PICK cancelled \in SUBSET Workers :
          /\ request' = [w \in Workers |-> IF w \in cancelled THEN NoRequest ELSE request[w]]
          /\ response' = [w \in Workers |->
               IF w \in cancelled /\ response[w] = "waits" THEN "closed" ELSE response[w]]
    BY <1>11 DEF BrokerStops
  <2>2. \A w \in Workers : request'[w] = NoRequest \/ request'[w] = request[w]
    BY <2>1
  <2>3. request' \in [Workers -> [at : {"none", "read", "status", "add", "commit", "head", "ok", "error"},
                                  head : SUBSET Edits]]
    BY <2>1 DEF NoRequest
  <2>4. response' \in [Workers -> {"none", "waits", "ok", "error", "closed", "timeout"}]
    BY <2>1
  <2>5. \A w \in Workers : Kept(w)'
    BY <1>11, <2>2 DEF BrokerStops, NoRequest
  <2> QED
    BY <1>11, <2>3, <2>4, <2>5 DEF BrokerStops
<1>12. CASE BrokerStarts
  BY <1>12 DEF BrokerStarts
<1> QED
  BY <1>1, <1>2, <1>3, <1>4, <1>5, <1>6, <1>7, <1>8, <1>9, <1>10, <1>11, <1>12
     DEF BrokerNext, GitSteps

LEMMA BrokerAnswers == BrokerInv => AnsweredIsPushed
BY DEF BrokerInv, BrokerTypeOK, Kept, AnsweredIsPushed, EditsAt

-----------------------------------------------------------------------------
\* The key of a slot is all the state the slot has; what a holder believes of
\* itself matters only while the key names it.
SlotKeyInv == RedisSlotTypeOK /\ KeyNamesHolder

LEMMA KeyStarts == RedisSlotInit => SlotKeyInv
BY RedisSlotAssumption DEF RedisSlotInit, SlotKeyInv, RedisSlotTypeOK, KeyNamesHolder

\* Only claim_gpu_slot names somebody; a holder that stops holding while it
\* is named has deleted the key or is dead.
LEMMA KeyKept == SlotKeyInv /\ [RedisSlotNext]_redisSlotVars => SlotKeyInv'
<1> SUFFICES ASSUME SlotKeyInv, [RedisSlotNext]_redisSlotVars PROVE SlotKeyInv'
  OBVIOUS
<1> USE RedisSlotAssumption DEF SlotKeyInv, RedisSlotTypeOK, KeyNamesHolder, HolderGoes
<1>1. CASE UNCHANGED redisSlotVars
  BY <1>1 DEF redisSlotVars
<1>2. ASSUME NEW u \in Holders, SlotAsk(u) \/ SlotGiveUp(u) PROVE SlotKeyInv'
  BY <1>2 DEF SlotAsk, SlotGiveUp
<1>3. ASSUME NEW u \in Holders, ClaimKey(u) PROVE SlotKeyInv'
  BY <1>3 DEF ClaimKey
<1>4. ASSUME NEW u \in Holders, ReleaseGet(u) PROVE SlotKeyInv'
  BY <1>4 DEF ReleaseGet
<1>5. ASSUME NEW u \in Holders, ReleaseDel(u) PROVE SlotKeyInv'
  BY <1>5 DEF ReleaseDel
<1>6. ASSUME NEW u \in Holders, HolderDies(u) PROVE SlotKeyInv'
  BY <1>6 DEF HolderDies
<1>7. CASE KeyExpires
  BY <1>7 DEF KeyExpires
<1> QED
  BY <1>1, <1>2, <1>3, <1>4, <1>5, <1>6, <1>7 DEF RedisSlotNext

\* A slot the key shows as taken is held: by its claimer, until that releases
\* it, or by a dead one, until the TTL.
THEOREM KeyIsTruthful == RedisSlotSpec => []KeyNamesHolder
<1>1. SlotKeyInv => KeyNamesHolder
  BY DEF SlotKeyInv
<1> QED
  BY KeyStarts, KeyKept, <1>1, PTL DEF RedisSlotSpec

LEMMA ClaimStep ==
  ASSUME SlotKeyInv, [RedisSlotNext]_redisSlotVars, NEW u \in Holders,
         holderAt[u] # "holds", holderAt'[u] = "holds"
  PROVE  \A v \in Holders \ {u} : slotKey # v /\ slotKey' # v
<1>1. ClaimKey(u)
  BY DEF SlotKeyInv, RedisSlotTypeOK, RedisSlotNext, HolderGoes, SlotAsk, SlotGiveUp, ClaimKey,
         ReleaseGet, ReleaseDel, HolderDies, KeyExpires, redisSlotVars
<1> QED
  BY <1>1, RedisSlotAssumption DEF ClaimKey

-----------------------------------------------------------------------------
\* The event bus: a file is named after the newest one there is, so the names
\* and the pushes still under way are as many as there were pushes.
Pushing == {h \in Pushers : pusher[h].at # "idle"}
BusInv ==
  /\ BusTypeOK
  /\ \A h \in Pushing : pusher[h].commit \in 1..MaxPushes
  /\ IsFiniteSet(Pushing) /\ Cardinality(Pushing) <= remoteHead
  /\ \A e \in eventFiles : e.name + Cardinality(Pushing) <= remoteHead

LEMMA BusStarts == BusInit => BusInv
<1> SUFFICES ASSUME BusInit PROVE BusInv
  OBVIOUS
<1>1. IsFiniteSet({}) /\ Cardinality({}) = 0
  BY FS_EmptySet
<1>2. Pushing = {}
  BY DEF BusInit, Pushing, PushIdle
<1>3. MaxPushes \in Nat /\ MaxClock \in Nat
  BY BusAssumption
<1>4. BusTypeOK
  <2>1. pusher \in [Pushers -> [at : {"idle", "pushed", "stamped"}, commit : 0..MaxPushes,
                                stamp : 0..MaxClock]]
    BY <1>3 DEF BusInit, PushIdle
  <2>2. 0 \in 0..MaxClock /\ 0 \in 0..MaxPushes /\ 0 \in 0..0
    BY <1>3
  <2> QED
    BY <2>1, <2>2 DEF BusInit, BusTypeOK
<1> QED
  BY <1>1, <1>2, <1>4 DEF BusInit, BusInv

LEMMA NameIsFree ==
  ASSUME BusInv
  PROVE  NewestName \in Nat /\ NewestName + Cardinality(Pushing) <= remoteHead
<1>1. Cardinality(Pushing) \in Nat /\ remoteHead \in Nat /\ MaxPushes \in Nat
  BY BusAssumption, FS_CardinalityType DEF BusInv, BusTypeOK
<1>2. CASE eventFiles = {}
  BY <1>1, <1>2 DEF NewestName, BusInv
<1>3. CASE eventFiles # {}
  <2> DEFINE T == {k \in Nat : \E e \in eventFiles : e.name = MaxPushes - k}
  <2>1. \A e \in eventFiles : e.name \in 1..MaxPushes
    BY DEF BusInv, BusTypeOK
  <2>2. PICK f \in eventFiles : TRUE
    BY <1>3
  <2>3. MaxPushes - f.name \in Nat /\ f.name = MaxPushes - (MaxPushes - f.name)
    BY <2>1, <1>1
  <2>4. T # {} /\ T \subseteq Nat
    BY <2>2, <2>3
  <2> HIDE DEF T
  <2>5. PICK k \in T : \A j \in T : k <= j
    BY <2>4, LeastNat
  <2>6. PICK e \in eventFiles : e.name = MaxPushes - k
    BY <2>5 DEF T
  <2>7. ASSUME NEW g \in eventFiles PROVE g.name <= e.name
    <3>1. MaxPushes - g.name \in T
      BY <2>1, <2>7, <1>1 DEF T
    <3>2. k \in Nat /\ g.name \in Nat
      BY <2>1, <2>7, <2>5 DEF T
    <3> QED
      BY <2>5, <2>6, <3>1, <3>2, <1>1
  <2>8. \E n \in 1..MaxPushes : /\ \E g \in eventFiles : g.name = n
                                /\ \A g \in eventFiles : g.name <= n
    BY <2>1, <2>6, <2>7
  <2>9. PICK g \in eventFiles : g.name = NewestName
    BY <1>3, <2>8 DEF NewestName
  <2> QED
    BY <2>1, <2>9, <1>1 DEF BusInv
<1> QED
  BY <1>2, <1>3

LEMMA BusKept == BusInv /\ [BusNext]_busVars => BusInv'
<1> SUFFICES ASSUME BusInv, [BusNext]_busVars PROVE BusInv'
  OBVIOUS
<1>n. /\ MaxPushes \in Nat /\ MaxClock \in Nat /\ remoteHead \in Nat /\ remoteHead <= MaxPushes
      /\ localHead \in 0..remoteHead /\ busClock \in 0..MaxClock
  BY BusAssumption DEF BusInv, BusTypeOK
<1>c. Cardinality(Pushing) \in Nat /\ IsFiniteSet(Pushing)
  BY FS_CardinalityType DEF BusInv
\* Who pushes does not change.
<1>s. ASSUME BusTypeOK', Pushing' = Pushing, \A h \in Pushing : pusher'[h].commit = pusher[h].commit,
             remoteHead' = remoteHead, eventFiles' \subseteq eventFiles
      PROVE  BusInv'
  BY <1>s DEF BusInv
<1>1. CASE UNCHANGED busVars
  BY <1>1, <1>s DEF busVars, BusInv, BusTypeOK, Pushing
<1>2. ASSUME NEW h \in Pushers, Push(h) PROVE BusInv'
  <2>1. /\ pusher[h].at = "idle" /\ remoteHead < MaxPushes /\ remoteHead' = remoteHead + 1
        /\ pusher' = [pusher EXCEPT ![h] = [at |-> "pushed", commit |-> remoteHead + 1, stamp |-> 0]]
        /\ UNCHANGED <<busClock, localHead, eventFiles, watcher, lastCheck, unpulled, lateEvents>>
    BY <1>2 DEF Push
  <2>2. PICK P : P = Pushing'
    OBVIOUS
  <2>3. h \notin Pushing /\ P = Pushing \union {h}
    BY <2>1, <2>2 DEF Pushing, BusInv, BusTypeOK
  <2>4. IsFiniteSet(P) /\ Cardinality(P) = Cardinality(Pushing) + 1
    BY <2>3, <1>c, FS_AddElement
  <2>5. BusTypeOK'
    BY <2>1, <1>n DEF BusInv, BusTypeOK
  <2>6. \A g \in P : pusher'[g].commit \in 1..MaxPushes
    BY <2>1, <2>3, <1>n DEF BusInv, BusTypeOK, Pushing
  <2>7. \A e \in eventFiles : e.name \in Nat
    BY DEF BusInv, BusTypeOK
  <2>8. /\ Cardinality(P) <= remoteHead'
        /\ \A e \in eventFiles' : e.name + Cardinality(P) <= remoteHead'
    BY <2>1, <2>4, <2>7, <1>n, <1>c DEF BusInv
  <2> QED
    BY <2>2, <2>4, <2>5, <2>6, <2>8 DEF BusInv
<1>3. ASSUME NEW h \in Pushers, EventStamp(h) PROVE BusInv'
  <2>1. BusTypeOK'
    BY <1>3, <1>n DEF EventStamp, BusInv, BusTypeOK, Checking
  <2>2. Pushing' = Pushing /\ \A g \in Pushing : pusher'[g].commit = pusher[g].commit
    BY <1>3 DEF EventStamp, BusInv, BusTypeOK, Pushing
  <2> QED
    BY <1>3, <2>1, <2>2, <1>s DEF EventStamp
<1>4. ASSUME NEW h \in Pushers, EventWrite(h) PROVE BusInv'
  <2> DEFINE new == [commit |-> pusher[h].commit, stamp |-> pusher[h].stamp, name |-> 1 + NewestName]
  <2>1. /\ pusher[h].at = "stamped" /\ eventFiles' = eventFiles \union {new}
        /\ pusher' = [pusher EXCEPT ![h] = PushIdle]
        /\ UNCHANGED <<busClock, remoteHead, localHead, watcher, lastCheck, unpulled>>
        /\ lateEvents' \in BOOLEAN
    BY <1>4 DEF EventWrite, Checking, BusInv, BusTypeOK
  <2>2. PICK P : P = Pushing'
    OBVIOUS
  <2>3. h \in Pushing /\ P = Pushing \ {h}
    BY <2>1, <2>2 DEF Pushing, BusInv, BusTypeOK, PushIdle
  <2>4. IsFiniteSet(P) /\ Cardinality(P) = Cardinality(Pushing) - 1
    BY <2>3, <1>c, FS_RemoveElement
  <2>5. NewestName \in Nat /\ NewestName + Cardinality(Pushing) <= remoteHead
    BY NameIsFree
  <2>6. Cardinality(Pushing) >= 1
    <3>1. P = {} \/ Cardinality(P) \in Nat
      BY <2>4, FS_CardinalityType
    <3>2. Cardinality({}) = 0
      BY FS_EmptySet
    <3> QED
      BY <2>4, <3>1, <3>2, <1>c
  <2>7. /\ new \in [commit : 1..MaxPushes, stamp : 0..MaxClock, name : 1..MaxPushes]
        /\ new.name = 1 + NewestName
    BY <2>3, <2>5, <2>6, <1>n, <1>c DEF BusInv, BusTypeOK, Pushing
  <2> HIDE DEF new
  <2>8. BusTypeOK'
    BY <2>1, <2>7, <1>n DEF BusInv, BusTypeOK, PushIdle
  <2>9. \A g \in P : pusher'[g].commit \in 1..MaxPushes
    BY <2>1, <2>3 DEF BusInv, BusTypeOK, Pushing
  <2>10. \A e \in eventFiles : e.name \in Nat /\ e.name + Cardinality(Pushing) <= remoteHead
    BY DEF BusInv, BusTypeOK
  <2>11. /\ Cardinality(P) <= remoteHead'
         /\ \A e \in eventFiles' : e.name + Cardinality(P) <= remoteHead'
    BY <2>1, <2>4, <2>5, <2>7, <2>10, <1>n, <1>c
  <2> QED
    BY <2>2, <2>4, <2>8, <2>9, <2>11 DEF BusInv
<1>5. ASSUME NEW h \in Pushers, PusherDies(h) PROVE BusInv'
  <2>1. /\ h \in Pushing /\ pusher' = [pusher EXCEPT ![h] = PushIdle]
        /\ unpulled' = unpulled \union {pusher[h].commit}
        /\ UNCHANGED <<busClock, remoteHead, localHead, eventFiles, watcher, lastCheck, lateEvents>>
    BY <1>5 DEF PusherDies, Pushing
  <2>2. PICK P : P = Pushing'
    OBVIOUS
  <2>3. P = Pushing \ {h}
    BY <2>1, <2>2 DEF Pushing, BusInv, BusTypeOK, PushIdle
  <2>4. IsFiniteSet(P) /\ Cardinality(P) = Cardinality(Pushing) - 1
    BY <2>1, <2>3, <1>c, FS_RemoveElement
  <2>5. BusTypeOK'
    <3>1. pusher[h].commit \in 1..MaxPushes
      BY <2>1 DEF BusInv
    <3>3. pusher' \in [Pushers -> [at : {"idle", "pushed", "stamped"}, commit : 0..MaxPushes,
                                   stamp : 0..MaxClock]]
      BY <2>1, <1>n DEF BusInv, BusTypeOK, PushIdle
    <3>4. unpulled' \subseteq 1..MaxPushes
      BY <2>1, <3>1 DEF BusInv, BusTypeOK
    <3> QED
      BY <2>1, <3>3, <3>4 DEF BusInv, BusTypeOK
  <2>6. \A g \in P : pusher'[g].commit \in 1..MaxPushes
    BY <2>1, <2>3 DEF BusInv, BusTypeOK, Pushing
  <2>7. \A e \in eventFiles : e.name \in Nat /\ e.name + Cardinality(Pushing) <= remoteHead
    BY DEF BusInv, BusTypeOK
  <2>8. /\ Cardinality(P) <= remoteHead'
        /\ \A e \in eventFiles' : e.name + Cardinality(P) <= remoteHead'
    BY <2>1, <2>4, <2>7, <1>n, <1>c DEF BusInv
  <2> QED
    BY <2>2, <2>4, <2>5, <2>6, <2>8 DEF BusInv
<1>6. CASE WatchQuery
  <2>1. BusTypeOK' /\ UNCHANGED <<pusher, remoteHead, eventFiles>>
    BY <1>6, <1>n DEF WatchQuery, BusInv, BusTypeOK
  <2> QED
    BY <2>1, <1>s DEF Pushing
<1>7. CASE WatchPull
  <2>1. UNCHANGED <<busClock, remoteHead, eventFiles, pusher, lastCheck, lateEvents>>
    BY <1>7 DEF WatchPull
  <2>2. localHead' \in 0..remoteHead /\ unpulled' \subseteq 1..MaxPushes
    BY <1>7, <1>n DEF WatchPull, BusInv, BusTypeOK
  <2>3. watcher' \in [at : {"waits", "queried", "pulled"}, pull : BOOLEAN]
    BY <1>7 DEF WatchPull, BusInv, BusTypeOK
  <2>4. BusTypeOK'
    BY <2>1, <2>2, <2>3 DEF BusInv, BusTypeOK
  <2> QED
    BY <2>1, <2>4, <1>s DEF Pushing
<1>8. CASE WatchMark \/ SessionPulls \/ SecondPasses
  <2>1. BusTypeOK' /\ UNCHANGED <<pusher, remoteHead, eventFiles>>
    <3>1. CASE WatchMark
      BY <3>1, <1>n DEF WatchMark, BusInv, BusTypeOK
    <3>2. CASE SessionPulls
      BY <3>2, <1>n DEF SessionPulls, BusInv, BusTypeOK
    <3>3. CASE SecondPasses
      BY <3>3, <1>n DEF SecondPasses, BusInv, BusTypeOK
    <3> QED
      BY <1>8, <3>1, <3>2, <3>3
  <2> QED
    BY <2>1, <1>s DEF Pushing
<1>9. CASE RotateEvents
  <2>1. PICK e \in eventFiles :
          /\ eventFiles' = eventFiles \ {e}
          /\ unpulled' = IF e.stamp < lastCheck THEN unpulled ELSE unpulled \union {e.commit}
    BY <1>9 DEF RotateEvents
  <2>2. UNCHANGED <<busClock, remoteHead, localHead, pusher, watcher, lastCheck, lateEvents>>
    BY <1>9 DEF RotateEvents
  <2>3. BusTypeOK'
    BY <2>1, <2>2, <1>n DEF BusInv, BusTypeOK
  <2> QED
    BY <2>1, <2>2, <2>3, <1>s DEF Pushing
<1> QED
  BY <1>1, <1>2, <1>3, <1>4, <1>5, <1>6, <1>7, <1>8, <1>9 DEF BusNext, WatchStep

-----------------------------------------------------------------------------
\* The remote runs: a requeue is counted, and the count ends at the retries.
LEMMA RemoteStarts == RemoteInit => RemoteTypeOK
BY RemoteAssumption DEF RemoteInit, RemoteTypeOK, NotRun, Strategies

LEMMA RemoteKept == RemoteTypeOK /\ [RemoteNext]_remoteVars => RemoteTypeOK'
<1> SUFFICES ASSUME RemoteTypeOK, [RemoteNext]_remoteVars PROVE RemoteTypeOK'
  OBVIOUS
<1> USE RemoteAssumption
<1>n. RemoteRetries \in Nat /\ MaxSecond \in Nat /\ MaxStarts \in Nat /\ second \in 0..MaxSecond
  BY DEF RemoteTypeOK
<1> HIDE RemoteAssumption
<1> USE DEF RemoteTypeOK, RunTo, RunOver
<1>r. NotRun \in [at : {"new"}, id : 0..MaxSecond, strategy : Strategies, limited : BOOLEAN]
  BY <1>n DEF NotRun, Strategies
<1>t. PICK in \in SUBSET {"pending", "claimed", "completed"}, tries \in 0..RemoteRetries :
        remoteTask = [in |-> in, retries |-> tries]
  OBVIOUS
<1>1. CASE UNCHANGED remoteVars
  BY <1>1 DEF remoteVars
<1>2. ASSUME NEW r \in Runs, PlanRun(r) PROVE RemoteTypeOK'
  <2>1. PICK c \in Complexities, keyword \in BOOLEAN :
          run' = [run EXCEPT ![r] = [at |-> "planned", id |-> second,
                                     strategy |-> Strategy(c, keyword), limited |-> Limited(c, keyword)]]
    BY <1>2 DEF PlanRun
  <2>2. Strategy(c, keyword) \in Strategies /\ Limited(c, keyword) \in BOOLEAN
    BY DEF Strategy, Limited, Interactive, Strategies
  <2>3. run' \in [Runs -> [at : {"new", "planned", "spawned", "watched", "left", "waits", "requeue",
                                 "written", "dead"},
                           id : 0..MaxSecond, strategy : Strategies, limited : BOOLEAN]]
    BY <2>1, <2>2, <1>n
  <2>4. shared' \subseteq Runs
    BY <1>2 DEF PlanRun
  <2> QED
    BY <1>2, <2>3, <2>4 DEF PlanRun
<1> DEFINE At == {"new", "planned", "spawned", "watched", "left", "waits", "requeue", "written", "dead"}
           RunType == [Runs -> [at : At, id : 0..MaxSecond, strategy : Strategies, limited : BOOLEAN]]
<1>o. ASSUME NEW r \in Runs, \/ run' = [run EXCEPT ![r] = NotRun]
                            \/ \E to \in At : run' = [run EXCEPT ![r].at = to]
      PROVE  run' \in RunType
  <2>1. run \in RunType
    OBVIOUS
  <2>2. CASE run' = [run EXCEPT ![r] = NotRun]
    BY <1>r, <2>1, <2>2
  <2>3. ASSUME NEW to \in At, run' = [run EXCEPT ![r].at = to] PROVE run' \in RunType
    BY <2>1, <2>3
  <2> QED
    BY <1>o, <2>2, <2>3
<1>3. ASSUME NEW r \in Runs, Spawned(r) \/ PidWritten(r) PROVE RemoteTypeOK'
  <2>1. run' \in RunType
    BY <1>3, <1>o DEF Spawned, PidWritten
  <2>2. run[r].id \in 0..MaxSecond
    OBVIOUS
  <2>3. /\ agent' \in [Runs -> {"none", "works", "good", "bad", "lost"}]
        /\ pidFile' \in [0..MaxSecond -> Runs \union {NoRun}]
        /\ UNCHANGED <<second, remoteTask, started, told, shared>>
    <3>1. CASE Spawned(r)
      BY <3>1 DEF Spawned
    <3>2. CASE PidWritten(r)
      <4>1. pidFile' = [pidFile EXCEPT ![run[r].id] = r]
        BY <3>2 DEF PidWritten
      <4>2. pidFile' \in [0..MaxSecond -> Runs \union {NoRun}]
        BY <4>1
      <4> QED
        BY <3>2, <4>2 DEF PidWritten
    <3> QED
      BY <1>3, <3>1, <3>2
  <2> QED
    BY <2>1, <2>3
<1>4. ASSUME NEW r \in Runs, RunAndWait(r) PROVE RemoteTypeOK'
  <2>1. remoteTask' = [in |-> (in \ {"pending"}) \union {"claimed"}, retries |-> tries]
    BY <1>4, <1>t DEF RunAndWait
  <2> QED
    <3>1. run' \in RunType
      BY <1>4, <1>o DEF RunAndWait
    <3>2. agent' \in [Runs -> {"none", "works", "good", "bad", "lost"}] /\ started' \in 0..MaxStarts
      BY <1>4, <1>n DEF RunAndWait
    <3>3. remoteTask' \in [in : SUBSET {"pending", "claimed", "completed"}, retries : 0..RemoteRetries]
      BY <2>1, <1>t
    <3> QED
      BY <1>4, <3>1, <3>2, <3>3 DEF RunAndWait
<1>5. ASSUME NEW r \in Runs, AgentStops(r) PROVE RemoteTypeOK'
  <2>1. \/ UNCHANGED remoteTask
        \/ remoteTask' = [in |-> (in \ {"claimed"}) \union {"completed"}, retries |-> tries]
    BY <1>5, <1>t DEF AgentStops
  <2>2. agent' \in [Runs -> {"none", "works", "good", "bad", "lost"}]
    BY <1>5 DEF AgentStops
  <2>3. UNCHANGED <<second, run, pidFile, started, told, shared>>
    BY <1>5 DEF AgentStops
  <2>4. remoteTask' \in [in : SUBSET {"pending", "claimed", "completed"}, retries : 0..RemoteRetries]
    <3>1. CASE UNCHANGED remoteTask
      BY <3>1
    <3>2. CASE remoteTask' = [in |-> (in \ {"claimed"}) \union {"completed"}, retries |-> tries]
      BY <3>2
    <3> QED
      BY <2>1, <3>1, <3>2
  <2> QED
    BY <2>2, <2>3, <2>4
<1>6. ASSUME NEW r \in Runs, RunReturns(r) PROVE RemoteTypeOK'
  <2>1. run' \in RunType
    BY <1>6, <1>o DEF RunReturns
  <2> QED
    BY <1>6, <2>1 DEF RunReturns
<1>7. ASSUME NEW r \in Runs, RunTimesOut(r) PROVE RemoteTypeOK'
  BY <1>7, SMTT(30) DEF RunTimesOut
<1>8. ASSUME NEW r \in Runs, RequeueTask(r) PROVE RemoteTypeOK'
  <2>1. UNCHANGED <<second, agent, pidFile, started, told, shared>>
    BY <1>8 DEF RequeueTask
  <2>2. CASE "claimed" \in remoteTask.in /\ remoteTask.retries < RemoteRetries
    <3>1. /\ remoteTask' = [in |-> in \union {"pending"}, retries |-> tries + 1]
          /\ RunTo(r, "requeue", "written")
      BY <1>8, <2>2, <1>t DEF RequeueTask
    <3>2. tries + 1 \in 0..RemoteRetries
      BY <1>t, <1>n, <2>2
    <3> QED
      BY <2>1, <3>1, <3>2, ZenonT(40)
  <2>3. CASE ~("claimed" \in remoteTask.in /\ remoteTask.retries < RemoteRetries)
    BY <1>8, <1>r, <2>1, <2>3, SMTT(30) DEF RequeueTask
  <2> QED
    BY <2>2, <2>3
<1>9. ASSUME NEW r \in Runs, RequeueRemoves(r) PROVE RemoteTypeOK'
  <2>1. remoteTask' = [in |-> in \ {"claimed"}, retries |-> tries]
    BY <1>9, <1>t DEF RequeueRemoves
  <2> QED
    BY <1>9, <1>r, <2>1 DEF RequeueRemoves
<1>10. ASSUME NEW r \in Runs, CallerLeaves(r) \/ CallerDies(r) PROVE RemoteTypeOK'
  <2>1. PICK to \in {"left", "dead"} : run' = [run EXCEPT ![r].at = to]
    BY <1>10 DEF CallerLeaves, CallerDies
  <2>2. UNCHANGED <<second, agent, pidFile, remoteTask, started, told, shared>>
    BY <1>10 DEF CallerLeaves, CallerDies
  <2>3. run' \in RunType
    BY <2>1, <1>o
  <2> QED
    BY <2>2, <2>3
<1>11. ASSUME NEW s \in 0..MaxSecond, CheckStatus(s) PROVE RemoteTypeOK'
  BY <1>11 DEF CheckStatus, Gone
<1>12. CASE RemoteSecond
  BY <1>12, <1>n DEF RemoteSecond
<1> QED
  BY <1>1, <1>2, <1>3, <1>4, <1>5, <1>6, <1>7, <1>8, <1>9, <1>10, <1>11, <1>12 DEF RemoteNext

-----------------------------------------------------------------------------
\* The bridge: an entry that a process has in hand was delivered, is there once,
\* and neither with another process nor handled already.
Listings == [at : {"idle", "read", "call"}, batch : Seq(BridgeEntries), events : Seq(BridgeEntries)]
Listed(l, e) == \/ \E i \in 1..Len(l.batch) : l.batch[i] = e
                \/ \E i \in 1..Len(l.events) : l.events[i] = e
Distinct(l) ==
  /\ \A i, j \in 1..Len(l.batch) : i # j => l.batch[i] # l.batch[j]
  /\ \A i, j \in 1..Len(l.events) : i # j => l.events[i] # l.events[j]
  /\ \A i \in 1..Len(l.batch), j \in 1..Len(l.events) : l.batch[i] # l.events[j]

BridgeInv ==
  /\ BridgeTypeOK
  /\ \A p \in BridgeProcs : Distinct(listener[p])
  /\ \A p \in BridgeProcs, e \in BridgeEntries :
       Listed(listener[p], e) =>
         /\ e <= delivered /\ handled[e] = 0
         /\ \A q \in BridgeProcs \ {p} : ~Listed(listener[q], e)
  /\ \A e \in BridgeEntries : handled[e] <= 1 /\ (handled[e] > 0 => e <= delivered)

LEMMA BridgeStarts == BridgeInit => BridgeInv
<1> SUFFICES ASSUME BridgeInit PROVE BridgeInv
  OBVIOUS
<1>1. Listening \in Listings /\ Distinct(Listening) /\ \A e \in BridgeEntries : ~Listed(Listening, e)
  BY DEF Listening, Listings, Distinct, Listed
<1> QED
  BY <1>1, BridgeAssumption DEF BridgeInit, BridgeInv, BridgeTypeOK, BridgeEntries, Listings

\* One process changes what it has in hand, and takes nothing from elsewhere.
LEMMA Relisted ==
  ASSUME BridgeInv, NEW p \in BridgeProcs, NEW l \in Listings, Distinct(l),
         \A e \in BridgeEntries : Listed(l, e) => Listed(listener[p], e),
         listener' = [listener EXCEPT ![p] = l],
         UNCHANGED <<published, delivered, handled>>, unheard' \subseteq BridgeEntries
  PROVE  BridgeInv'
<1> USE BridgeAssumption DEF BridgeInv, BridgeTypeOK, Listings
<1>1. BridgeTypeOK'
  OBVIOUS
<1>2. \A q \in BridgeProcs : listener'[q] = IF q = p THEN l ELSE listener[q]
  OBVIOUS
<1> QED
  BY <1>1, <1>2

LEMMA Parsed ==
  ASSUME NEW l \in Listings, Distinct(l), l.batch # <<>>, NEW m,
         \/ m = [l EXCEPT !.batch = Tail(l.batch)]
         \/ m = [l EXCEPT !.batch = Tail(l.batch), !.events = Append(l.events, Head(l.batch))]
  PROVE  m \in Listings /\ Distinct(m) /\ \A e : Listed(m, e) => Listed(l, e)
<1> DEFINE h == Head(l.batch)  t == Tail(l.batch)  a == Append(l.events, h)
<1>1. /\ l.batch \in Seq(BridgeEntries) /\ l.events \in Seq(BridgeEntries)
      /\ Len(l.batch) \in Nat /\ Len(l.events) \in Nat
  BY DEF Listings
<1>2. /\ h \in BridgeEntries /\ t \in Seq(BridgeEntries) /\ Len(t) = Len(l.batch) - 1
      /\ h = l.batch[1] /\ Len(l.batch) >= 1
      /\ \A i \in 1..Len(t) : t[i] = l.batch[i + 1]
  BY <1>1
<1>3. /\ a \in Seq(BridgeEntries) /\ Len(a) = Len(l.events) + 1
      /\ \A i \in 1..Len(l.events) : a[i] = l.events[i]
      /\ a[Len(l.events) + 1] = h
  BY <1>1, <1>2, AppendProperties
<1> HIDE DEF h, t, a
<1>6. /\ \A i \in 1..Len(t) : i + 1 \in 1..Len(l.batch) /\ i + 1 # 1
      /\ \A i, j \in 1..Len(t) : i # j => i + 1 # j + 1
  BY <1>1, <1>2
<1>7. /\ \A i, j \in 1..Len(t) : i # j => t[i] # t[j]
      /\ \A i \in 1..Len(t), j \in 1..Len(l.events) : t[i] # l.events[j]
      /\ \A i \in 1..Len(t) : t[i] # h
      /\ \A j \in 1..Len(l.events) : l.events[j] # h
  <2>1. \A i, j \in 1..Len(t) : i # j => t[i] # t[j]
    BY <1>2, <1>6 DEF Distinct
  <2>2. \A i \in 1..Len(t), j \in 1..Len(l.events) : t[i] # l.events[j]
    BY <1>2, <1>6 DEF Distinct
  <2>3. 1 \in 1..Len(l.batch)
    BY <1>1, <1>2
  <2>4. \A i \in 1..Len(t) : t[i] # h
    BY <1>2, <1>6, <2>3 DEF Distinct
  <2>5. \A j \in 1..Len(l.events) : l.events[j] # h
    BY <1>2, <2>3 DEF Distinct
  <2> QED
    BY <2>1, <2>2, <2>4, <2>5
<1>8. /\ \A e : (\E i \in 1..Len(t) : t[i] = e) => Listed(l, e)
      /\ Listed(l, h)
  <2>1. 1 \in 1..Len(l.batch)
    BY <1>1, <1>2
  <2> QED
    BY <1>2, <1>6, <2>1 DEF Listed
<1>4. CASE m = [l EXCEPT !.batch = t]
  <2>1. m \in Listings /\ m.batch = t /\ m.events = l.events
    BY <1>4, <1>2 DEF Listings
  <2>2. Distinct(m)
    BY <1>7, <2>1 DEF Distinct
  <2>3. \A e : Listed(m, e) => Listed(l, e)
    BY <1>8, <2>1 DEF Listed
  <2> QED
    BY <2>1, <2>2, <2>3
<1>5. CASE m = [l EXCEPT !.batch = t, !.events = a]
  <2>1. m \in Listings /\ m.batch = t /\ m.events = a
    BY <1>5, <1>2, <1>3 DEF Listings
  <2>2. ASSUME NEW i \in 1..Len(a)
        PROVE  (i \in 1..Len(l.events) /\ a[i] = l.events[i]) \/ (i = Len(l.events) + 1 /\ a[i] = h)
    BY <1>1, <1>3
  <2>3. Distinct(m)
    <3>1. \A i, j \in 1..Len(a) : i # j => a[i] # a[j]
      BY <1>7, <2>2 DEF Distinct
    <3>2. \A i \in 1..Len(t), j \in 1..Len(a) : t[i] # a[j]
      BY <1>7, <2>2
    <3> QED
      BY <1>7, <2>1, <3>1, <3>2 DEF Distinct
  <2>4. \A e : Listed(m, e) => Listed(l, e)
    <3> SUFFICES ASSUME NEW e, Listed(m, e) PROVE Listed(l, e)
      OBVIOUS
    <3>1. CASE \E i \in 1..Len(t) : t[i] = e
      BY <1>8, <3>1
    <3>2. CASE \E i \in 1..Len(a) : a[i] = e
      BY <1>8, <2>2, <3>2 DEF Listed
    <3> QED
      BY <2>1, <3>1, <3>2 DEF Listed
  <2> QED
    BY <2>1, <2>3, <2>4
<1> QED
  BY <1>4, <1>5 DEF h, t, a

LEMMA BridgeKept == BridgeInv /\ [BridgeNext]_bridgeVars => BridgeInv'
<1> SUFFICES ASSUME BridgeInv, [BridgeNext]_bridgeVars PROVE BridgeInv'
  OBVIOUS
<1> USE BridgeAssumption
<1>t. /\ BridgeTypeOK /\ \A p \in BridgeProcs : listener[p] \in Listings /\ Distinct(listener[p])
      /\ published \in Nat /\ delivered \in Nat /\ MaxEntries \in Nat
      /\ published <= MaxEntries /\ delivered <= published
      /\ BridgeEntries \subseteq Nat
  BY DEF BridgeInv, BridgeTypeOK, Listings, BridgeEntries
<1>e. Listening \in Listings /\ Distinct(Listening) /\ \A e \in BridgeEntries : ~Listed(Listening, e)
  BY DEF Listening, Listings, Distinct, Listed
<1>1. CASE UNCHANGED bridgeVars
  BY <1>1 DEF bridgeVars, BridgeInv, BridgeTypeOK
<1>2. CASE Publish
  <2>1. /\ published' = published + 1 /\ published < MaxEntries /\ unheard' \subseteq BridgeEntries
        /\ UNCHANGED <<delivered, listener, handled>>
    BY <1>2, <1>t DEF Publish, BridgeTypeOK
  <2> QED
    BY <2>1, <1>t DEF BridgeInv, BridgeTypeOK
<1>3. ASSUME NEW p \in BridgeProcs, BridgeRead(p) PROVE BridgeInv'
  <2> DEFINE first == IF published > delivered + StreamLength THEN published - StreamLength ELSE delivered
             last  == IF published > first + BridgeBatch THEN first + BridgeBatch ELSE published
             b == [i \in 1..(last - first) |-> first + i]
             l == [at |-> "read", batch |-> b, events |-> <<>>]
  <2>1. /\ first \in Nat /\ last \in Nat /\ delivered <= first /\ first < last /\ last <= published
        /\ delivered' = last /\ listener' = [listener EXCEPT ![p] = l]
        /\ UNCHANGED <<published, handled, unheard>>
    BY <1>3, <1>t DEF BridgeRead
  <2> HIDE DEF first, last
  <2>2. \A i \in 1..(last - first) : first + i \in BridgeEntries
    BY <2>1, <1>t DEF BridgeEntries
  <2>3. b \in Seq(BridgeEntries) /\ Len(b) = last - first /\ \A i \in 1..(last - first) : b[i] = first + i
    BY <2>1, <2>2
  <2> HIDE DEF b
  <2>4. /\ l \in Listings /\ Distinct(l)
        /\ \A e : Listed(l, e) => \E i \in 1..(last - first) : e = first + i
    <3>1. l.batch = b /\ l.events = <<>> /\ l \in Listings
      BY <2>3, EmptySeq DEF Listings
    <3>2. \A i, j \in 1..Len(b) : i # j => b[i] # b[j]
      BY <2>1, <2>3
    <3>3. Len(<<>>) = 0
      OBVIOUS
    <3>4. Distinct(l)
      BY <3>1, <3>2, <3>3 DEF Distinct
    <3>5. \A e : Listed(l, e) => \E i \in 1..(last - first) : e = first + i
      BY <2>3, <3>1, <3>3 DEF Listed
    <3> QED
      BY <3>1, <3>4, <3>5
  <2>5. \A e : Listed(l, e) => e > delivered /\ e <= last
    BY <2>1, <2>4, <1>t
  <2> HIDE DEF l
  <2>6. BridgeTypeOK'
    BY <2>1, <2>4, <1>t DEF BridgeTypeOK, Listings
  <2>7. \A q \in BridgeProcs : listener'[q] = IF q = p THEN l ELSE listener[q]
    BY <2>1, <1>t DEF BridgeTypeOK
  <2>8. \A q \in BridgeProcs : Distinct(listener'[q])
    BY <2>4, <2>7, <1>t
  <2>9. \A e \in BridgeEntries : handled[e] > 0 => e <= delivered
    BY DEF BridgeInv
  <2>10. ASSUME NEW q \in BridgeProcs, NEW e \in BridgeEntries, Listed(listener'[q], e)
         PROVE  e <= delivered' /\ handled'[e] = 0 /\ \A r \in BridgeProcs \ {q} : ~Listed(listener'[r], e)
    <3>1. e \in Nat /\ handled[e] \in Nat
      BY <1>t DEF BridgeTypeOK
    <3>2. CASE q = p
      <4>1. e > delivered /\ e <= last
        BY <2>5, <2>7, <2>10, <3>2
      <4>2. \A r \in BridgeProcs : ~Listed(listener[r], e)
        BY <4>1, <3>1, <1>t DEF BridgeInv
      <4> QED
        BY <4>1, <4>2, <3>1, <3>2, <2>1, <2>7, <2>9, <1>t
    <3>3. CASE q # p
      <4>1. Listed(listener[q], e)
        BY <2>7, <2>10, <3>3
      <4>2. e <= delivered /\ handled[e] = 0 /\ \A r \in BridgeProcs \ {q} : ~Listed(listener[r], e)
        BY <4>1 DEF BridgeInv
      <4>3. ~Listed(l, e)
        BY <4>2, <2>5, <3>1, <1>t
      <4> QED
        BY <4>2, <4>3, <2>1, <2>7, <3>1, <1>t
    <3> QED
      BY <3>2, <3>3
  <2>11. \A e \in BridgeEntries : handled'[e] <= 1 /\ (handled'[e] > 0 => e <= delivered')
    BY <2>1, <1>t DEF BridgeInv
  <2> QED
    BY <2>6, <2>8, <2>10, <2>11 DEF BridgeInv
<1>4. ASSUME NEW p \in BridgeProcs, ParseAck(p) PROVE BridgeInv'
  <2> DEFINE l == listener[p]
             m == [l EXCEPT !.batch = Tail(@),
                            !.events = IF Head(l.batch) \in Malformed THEN @ ELSE Append(@, Head(l.batch))]
  <2>1. /\ l.batch # <<>> /\ listener' = [listener EXCEPT ![p] = m]
        /\ UNCHANGED <<published, delivered, handled, unheard>>
    BY <1>4 DEF ParseAck
  <2>2. l \in Listings /\ Distinct(l)
    BY <1>t
  <2>3. \/ m = [l EXCEPT !.batch = Tail(l.batch)]
        \/ m = [l EXCEPT !.batch = Tail(l.batch), !.events = Append(l.events, Head(l.batch))]
    BY <2>2 DEF Listings
  <2> HIDE DEF m, l
  <2>4. m \in Listings /\ Distinct(m) /\ \A e : Listed(m, e) => Listed(l, e)
    BY <2>1, <2>2, <2>3, Parsed
  <2> QED
    BY <2>1, <2>4, <1>t, Relisted DEF l, BridgeTypeOK
<1>5. ASSUME NEW p \in BridgeProcs, ConsumeFails(p) PROVE BridgeInv'
  <2>1. unheard' \subseteq BridgeEntries
    BY <1>5, <1>t DEF ConsumeFails, InHand, BridgeTypeOK
  <2> QED
    BY <1>5, <1>e, <2>1, Relisted DEF ConsumeFails
<1>6. ASSUME NEW p \in BridgeProcs, ConsumeReturns(p) PROVE BridgeInv'
  <2> DEFINE l == [listener[p] EXCEPT !.at = "call"]
  <2>1. l \in Listings /\ l.batch = listener[p].batch /\ l.events = listener[p].events
    BY <1>t DEF Listings
  <2>2. listener' = [listener EXCEPT ![p] = l] /\ UNCHANGED <<published, delivered, handled, unheard>>
    BY <1>6 DEF ConsumeReturns
  <2> HIDE DEF l
  <2>3. Distinct(l) /\ \A e : Listed(l, e) => Listed(listener[p], e)
    BY <1>t, <2>1 DEF Distinct, Listed
  <2> QED
    BY <2>1, <2>2, <2>3, <1>t, Relisted DEF BridgeTypeOK
<1>7. ASSUME NEW p \in BridgeProcs, Callback(p), listener[p].events = <<>> PROVE BridgeInv'
  BY <1>7, <1>e, <1>t, Relisted DEF Callback, BridgeTypeOK
<1>8. ASSUME NEW p \in BridgeProcs, Callback(p), listener[p].events # <<>> PROVE BridgeInv'
  <2> DEFINE h == Head(listener[p].events)
             l == [listener[p] EXCEPT !.events = Tail(listener[p].events)]
  <2>1. /\ listener' = [listener EXCEPT ![p] = l] /\ handled' = [handled EXCEPT ![h] = @ + 1]
        /\ UNCHANGED <<published, delivered, unheard>>
    BY <1>8 DEF Callback
  <2>2. /\ listener[p].batch \in Seq(BridgeEntries) /\ listener[p].events \in Seq(BridgeEntries)
        /\ listener[p] \in Listings
    BY <1>t DEF Listings
  <2>3. /\ h \in BridgeEntries /\ h = listener[p].events[1] /\ Len(listener[p].events) >= 1
        /\ Len(listener[p].events) \in Nat
        /\ Tail(listener[p].events) \in Seq(BridgeEntries)
        /\ Len(Tail(listener[p].events)) = Len(listener[p].events) - 1
        /\ \A i \in 1..Len(Tail(listener[p].events)) : Tail(listener[p].events)[i] = listener[p].events[i + 1]
    BY <1>8, <2>2
  <2>4. l \in Listings /\ l.batch = listener[p].batch /\ l.events = Tail(listener[p].events)
    BY <2>2, <2>3 DEF Listings
  <2> HIDE DEF h, l
  <2>5. Listed(listener[p], h)
    BY <2>3 DEF Listed
  <2>6. Distinct(listener[p])
    BY <1>t
  <2>7. Distinct(l) /\ ~Listed(l, h) /\ \A e : Listed(l, e) => Listed(listener[p], e)
    <3> DEFINE was == listener[p].events  rest == Tail(listener[p].events)
    <3>1. \A i \in 1..Len(rest) : i + 1 \in 1..Len(was) /\ i + 1 # 1 /\ rest[i] = was[i + 1]
      BY <2>3
    <3>2. 1 \in 1..Len(was) /\ h = was[1] /\ l.events = rest /\ l.batch = listener[p].batch
      BY <2>3, <2>4
    <3> HIDE DEF was, rest
    <3>3. /\ \A i, j \in 1..Len(was) : i # j => was[i] # was[j]
          /\ \A i, j \in 1..Len(l.batch) : i # j => l.batch[i] # l.batch[j]
          /\ \A i \in 1..Len(l.batch), j \in 1..Len(was) : l.batch[i] # was[j]
      BY <2>6, <3>2 DEF Distinct, was
    <3>4. \A i, j \in 1..Len(rest) : i # j => rest[i] # rest[j]
      BY <3>1, <3>3
    <3>5. \A i \in 1..Len(l.batch), j \in 1..Len(rest) : l.batch[i] # rest[j]
      BY <3>1, <3>3
    <3>6. Distinct(l)
      BY <3>2, <3>3, <3>4, <3>5 DEF Distinct
    <3>7. ~Listed(l, h)
      <4>1. \A i \in 1..Len(rest) : rest[i] # h
        BY <3>1, <3>2, <3>3
      <4>2. \A i \in 1..Len(l.batch) : l.batch[i] # h
        BY <3>2, <3>3
      <4> QED
        BY <3>2, <4>1, <4>2 DEF Listed
    <3>8. \A e : Listed(l, e) => Listed(listener[p], e)
      BY <3>1, <3>2 DEF Listed, was
    <3> QED
      BY <3>6, <3>7, <3>8
  <2>8. handled[h] = 0 /\ h <= delivered /\ \A q \in BridgeProcs \ {p} : ~Listed(listener[q], h)
    BY <2>3, <2>5 DEF BridgeInv
  <2>9. /\ handled' \in [BridgeEntries -> Nat] /\ handled'[h] = 1
        /\ \A e \in BridgeEntries \ {h} : handled'[e] = handled[e]
    BY <2>1, <2>3, <2>8, <1>t DEF BridgeTypeOK
  <2>10. \A q \in BridgeProcs : listener'[q] = IF q = p THEN l ELSE listener[q]
    BY <2>1, <1>t DEF BridgeTypeOK
  <2>11. BridgeTypeOK'
    BY <2>1, <2>4, <2>9, <1>t DEF BridgeTypeOK, Listings
  <2>12. \A q \in BridgeProcs : Distinct(listener'[q])
    BY <2>7, <2>10, <1>t
  <2>13. \A q \in BridgeProcs, e \in BridgeEntries :
           Listed(listener'[q], e) => e # h /\ Listed(listener[q], e)
    BY <2>7, <2>8, <2>10
  <2>14. \A q \in BridgeProcs, e \in BridgeEntries :
           Listed(listener'[q], e) =>
             /\ e <= delivered' /\ handled'[e] = 0
             /\ \A r \in BridgeProcs \ {q} : ~Listed(listener'[r], e)
    BY <2>1, <2>9, <2>13 DEF BridgeInv
  <2>15. \A e \in BridgeEntries : handled'[e] <= 1 /\ (handled'[e] > 0 => e <= delivered')
    BY <2>1, <2>8, <2>9 DEF BridgeInv
  <2> QED
    BY <2>11, <2>12, <2>14, <2>15 DEF BridgeInv
<1> QED
  BY <1>1, <1>2, <1>3, <1>4, <1>5, <1>6, <1>7, <1>8 DEF BridgeNext, ListenStep

-----------------------------------------------------------------------------
\* The view of a host: while it shows a host as high (or in a crash loop), the
\* last word on that since the first event it saw says so.
LastWord(e, kinds) ==
  \E n \in 1..viewRead.last :
    /\ n >= firstRead /\ n <= Len(gpuStream) /\ gpuStream[n] = e
    /\ \A m \in (n + 1)..viewRead.last : gpuStream[m] \notin kinds
Vram == {"vram_high", "vram_normal"}
Pod == {"pod_crashloop", "pod_ready"}

ViewInv ==
  /\ ViewTypeOK
  /\ viewRead.last <= Len(gpuStream) /\ firstRead <= viewRead.last
  /\ viewRead.at = "apply" => viewRead.last < viewRead.upTo /\ viewRead.upTo <= Len(gpuStream)
  /\ firstRead = 0 => ~view.high /\ ~view.crash
  /\ view.high => LastWord("vram_high", Vram)
  /\ view.crash => LastWord("pod_crashloop", Pod)

LEMMA ViewStarts == ViewInit => ViewInv
<1> SUFFICES ASSUME ViewInit PROVE ViewInv
  OBVIOUS
<1>1. gpuStream = <<>> /\ gpuStream \in Seq(GpuEvents) /\ Len(gpuStream) = 0
  BY EmptySeq DEF ViewInit
<1>2. view.high = FALSE /\ view.crash = FALSE
  BY DEF ViewInit, Unknown
<1> QED
  BY <1>1, <1>2, GpuViewAssumption DEF ViewInit, ViewInv, ViewTypeOK, Unknown

\* An event is one word more.
LEMMA NextWord ==
  ASSUME ViewInv, NEW e, NEW kinds, NEW n \in Nat, n = viewRead.last + 1, n <= Len(gpuStream),
         gpuStream' = gpuStream, viewRead'.last = n, firstRead' \in {firstRead, n},
         firstRead # 0 => firstRead' = firstRead,
         \/ gpuStream[n] = e
         \/ gpuStream[n] \notin kinds /\ firstRead # 0 /\ LastWord(e, kinds)
  PROVE  LastWord(e, kinds)'
<1> USE GpuViewAssumption
<1>1. /\ viewRead.last \in Nat /\ firstRead \in Nat /\ Len(gpuStream) \in Nat
      /\ firstRead <= viewRead.last
  BY DEF ViewInv, ViewTypeOK
<1>2. CASE gpuStream[n] = e
  BY <1>1, <1>2 DEF LastWord
<1>3. CASE gpuStream[n] \notin kinds /\ firstRead # 0 /\ LastWord(e, kinds)
  <2>1. PICK k \in 1..viewRead.last :
          /\ k >= firstRead /\ k <= Len(gpuStream) /\ gpuStream[k] = e
          /\ \A m \in (k + 1)..viewRead.last : gpuStream[m] \notin kinds
    BY <1>3 DEF LastWord
  <2>2. \A m \in (k + 1)..n : m = n \/ m \in (k + 1)..viewRead.last
    BY <1>1
  <2>3. k \in 1..n
    BY <1>1
  <2> QED
    BY <1>1, <1>3, <2>1, <2>2, <2>3 DEF LastWord
<1> QED
  BY <1>2, <1>3

LEMMA ViewKept == ViewInv /\ [ViewNext]_viewVars => ViewInv'
<1> SUFFICES ASSUME ViewInv, [ViewNext]_viewVars PROVE ViewInv'
  OBVIOUS
<1> USE GpuViewAssumption
<1>n. MaxGpuEvents \in Nat /\ MaxReadFailures \in Nat
  OBVIOUS
<1> HIDE GpuViewAssumption
<1>r. PICK at \in {"between", "blocked", "apply", "ended"}, l \in 0..MaxGpuEvents, u \in 0..MaxGpuEvents :
        viewRead = [at |-> at, last |-> l, upTo |-> u]
  BY DEF ViewInv, ViewTypeOK
<1>v. PICK known \in BOOLEAN, beat \in BOOLEAN, high \in BOOLEAN, crash \in BOOLEAN :
        view = [known |-> known, beat |-> beat, high |-> high, crash |-> crash]
  BY DEF ViewInv, ViewTypeOK
<1>t. /\ gpuStream \in Seq(GpuEvents) /\ Len(gpuStream) <= MaxGpuEvents /\ Len(gpuStream) \in Nat
      /\ firstRead \in 0..MaxGpuEvents /\ readFailures \in 0..MaxReadFailures
      /\ l <= Len(gpuStream) /\ firstRead <= l /\ l \in Nat /\ u \in Nat
      /\ at = "apply" => l < u /\ u <= Len(gpuStream)
      /\ firstRead = 0 => ~high /\ ~crash
      /\ high => LastWord("vram_high", Vram)
      /\ crash => LastWord("pod_crashloop", Pod)
  BY <1>n, <1>r, <1>v DEF ViewInv, ViewTypeOK
<1>1. CASE UNCHANGED viewVars
  BY <1>1 DEF viewVars, ViewInv, ViewTypeOK, LastWord
<1>2. ASSUME NEW e \in GpuEvents, GpuEvent(e) PROVE ViewInv'
  <2>1. /\ gpuStream' = Append(gpuStream, e) /\ Len(gpuStream) < MaxGpuEvents
        /\ UNCHANGED <<viewRead, view, firstRead, readFailures>>
    BY <1>2 DEF GpuEvent
  <2>2. PICK s : s = gpuStream'
    OBVIOUS
  <2>3. /\ s \in Seq(GpuEvents) /\ Len(s) = Len(gpuStream) + 1
        /\ \A i \in 1..Len(gpuStream) : s[i] = gpuStream[i]
    BY <1>t, <2>1, <2>2, AppendProperties
  <2>4. ASSUME NEW k, NEW kinds, LastWord(k, kinds) PROVE LastWord(k, kinds)'
    <3>1. PICK i \in 1..viewRead.last :
            /\ i >= firstRead /\ i <= Len(gpuStream) /\ gpuStream[i] = k
            /\ \A m \in (i + 1)..viewRead.last : gpuStream[m] \notin kinds
      BY <2>4 DEF LastWord
    <3>2. i \in 1..Len(gpuStream) /\ \A m \in (i + 1)..viewRead.last : m \in 1..Len(gpuStream)
      BY <1>r, <1>t, <3>1
    <3> QED
      BY <1>t, <2>1, <2>2, <2>3, <3>1, <3>2 DEF LastWord
  <2>5. ViewTypeOK'
    BY <1>n, <1>t, <1>r, <1>v, <2>1, <2>2, <2>3 DEF ViewTypeOK
  <2> QED
    BY <1>t, <1>r, <1>v, <2>1, <2>2, <2>3, <2>4, <2>5 DEF ViewInv
<1>3. CASE ReadFrom
  <2>1. CASE firstRead = 0
    <3>1. /\ viewRead' = [at |-> "blocked", last |-> Len(gpuStream), upTo |-> u]
          /\ UNCHANGED <<gpuStream, view, firstRead, readFailures>>
      BY <1>3, <2>1, <1>r DEF ReadFrom
    <3>2. ViewTypeOK'
      BY <3>1, <1>n, <1>v, <1>t DEF ViewTypeOK
    <3> QED
      BY <3>1, <3>2, <2>1, <1>v, <1>t DEF ViewInv
  <2>2. CASE firstRead # 0
    BY <1>3, <2>2, <1>n, <1>r, <1>v, <1>t DEF ReadFrom, ViewInv, ViewTypeOK, LastWord
  <2> QED
    BY <2>1, <2>2
<1>4. CASE ReadReturns
  <2>1. /\ viewRead' = [at |-> "apply", last |-> l, upTo |-> Len(gpuStream)] /\ l < Len(gpuStream)
        /\ UNCHANGED <<gpuStream, view, firstRead, readFailures>>
    BY <1>4, <1>r DEF ReadReturns
  <2>2. ViewTypeOK'
    BY <2>1, <1>n, <1>v, <1>t DEF ViewTypeOK
  <2> QED
    BY <2>1, <2>2, <1>r, <1>v, <1>t DEF ViewInv, LastWord
<1>5. CASE ReadEmpty
  BY <1>5, <1>n, <1>r, <1>v, <1>t DEF ReadEmpty, ViewInv, ViewTypeOK, LastWord
<1>6. CASE BeatGoesStale
  BY <1>6, <1>n, <1>r, <1>v, <1>t, ZenonT(40) DEF BeatGoesStale, ViewInv, ViewTypeOK, LastWord
<1>7. CASE Apply /\ gpuStream[l + 1] = "broken"
  BY <1>7, <1>n, <1>r, <1>v, <1>t DEF Apply, ViewInv, ViewTypeOK, LastWord
<1>8. CASE Apply /\ gpuStream[l + 1] # "broken"
  <2> DEFINE n == l + 1  e == gpuStream[n]
  <2>1. /\ at = "apply" /\ gpuStream' = gpuStream /\ readFailures' = readFailures
        /\ viewRead' = [viewRead EXCEPT !.last = n, !.at = IF n = viewRead.upTo THEN "between" ELSE @]
        /\ view' = Applied(e) /\ firstRead' = IF firstRead = 0 THEN n ELSE firstRead
    BY <1>8, <1>r DEF Apply
  <2>2. n \in 1..Len(gpuStream) /\ e \in GpuEvents /\ n \in 1..MaxGpuEvents
    BY <2>1, <1>n, <1>t
  <2> HIDE DEF e
  <2>3. \E to \in {"between", "apply"} :
          /\ viewRead' = [at |-> to, last |-> n, upTo |-> u]
          /\ to = "apply" => n < u
    <3>1. CASE n = u
      BY <2>1, <3>1, <1>r, <1>t
    <3>2. CASE n # u
      <4>1. n < u
        BY <2>1, <3>2, <1>t
      <4>2. viewRead' = [at |-> "apply", last |-> n, upTo |-> u]
        BY <2>1, <3>2, <1>r
      <4> QED
        BY <4>1, <4>2
    <3> QED
      BY <3>1, <3>2
  <2>4. PICK h \in BOOLEAN, c \in BOOLEAN, b \in BOOLEAN :
          /\ view' = [known |-> TRUE, beat |-> b, high |-> h, crash |-> c]
          /\ h => e = "vram_high" \/ (high /\ e \notin Vram)
          /\ c => e = "pod_crashloop" \/ (crash /\ e \notin Pod)
    BY <2>1, <2>2, <1>v DEF Applied, GpuEvents, Vram, Pod
  <2>5. firstRead' \in {firstRead, n} /\ (firstRead # 0 => firstRead' = firstRead) /\ firstRead' # 0
        /\ firstRead' \in 0..MaxGpuEvents /\ firstRead' <= n
    BY <2>1, <2>2, <1>t
  <2>6. h => LastWord("vram_high", Vram)'
    BY <2>1, <2>2, <2>3, <2>4, <2>5, <1>r, <1>t, NextWord DEF e
  <2>7. c => LastWord("pod_crashloop", Pod)'
    BY <2>1, <2>2, <2>3, <2>4, <2>5, <1>r, <1>t, NextWord DEF e
  <2>8. ViewTypeOK'
    BY <2>1, <2>2, <2>3, <2>4, <2>5, <1>t DEF ViewTypeOK
  <2> QED
    <3>1. /\ viewRead'.last = n /\ n <= Len(gpuStream)
          /\ viewRead'.at = "apply" => n < viewRead'.upTo /\ viewRead'.upTo <= Len(gpuStream)
      <4>1. PICK to \in {"between", "apply"} :
              viewRead' = [at |-> to, last |-> n, upTo |-> u] /\ (to = "apply" => n < u)
        BY <2>3
      <4>2. u <= Len(gpuStream) /\ n <= Len(gpuStream)
        BY <2>1, <2>2, <1>t
      <4> QED
        BY <4>1, <4>2
    <3>2. view'.high = h /\ view'.crash = c
      BY <2>4
    <3> QED
      BY <2>1, <2>5, <2>6, <2>7, <2>8, <3>1, <3>2 DEF ViewInv
<1> QED
  BY <1>1, <1>2, <1>3, <1>4, <1>5, <1>6, <1>7, <1>8 DEF ViewNext

LEMMA RefusalsHold == ViewInv => RefusedForCause
<1> SUFFICES ASSUME ViewInv, firstRead # 0, ~CanSchedule
             PROVE  \/ \E n \in LastOf({"vram_high", "vram_normal"}) : gpuStream[n] = "vram_high"
                    \/ \E n \in LastOf({"pod_crashloop", "pod_ready"}) : gpuStream[n] = "pod_crashloop"
  BY DEF RefusedForCause
<1>1. view.high \/ view.crash
  BY DEF CanSchedule
<1>2. CASE view.high
  BY <1>2 DEF ViewInv, LastWord, LastOf, Vram
<1>3. CASE view.crash
  BY <1>3 DEF ViewInv, LastWord, LastOf, Pod
<1> QED
  BY <1>1, <1>2, <1>3

-----------------------------------------------------------------------------
\* The auto-scaler: while a spawn is possible, whoever was started has
\* registered, so the agents that were counted are all there are.
Running == {i \in Instances : instance[i] \in {"starting", "live"}}
ScaleInv ==
  /\ ScaleTypeOK
  /\ untilSpawn = 0 => \A i \in Instances : instance[i] # "starting"
  /\ counted.is /\ untilSpawn = 0 => Cardinality(Running) <= counted.agents
  /\ Cardinality(Running) <= MaxInstances

LEMMA RunningFinite ==
  IsFiniteSet(Running) /\ Cardinality(Running) \in Nat /\ Cardinality(Running) <= Cardinality(Instances)
<1>1. Running \subseteq Instances /\ IsFiniteSet(Instances)
  BY ScaleAssumption DEF Running
<1>2. IsFiniteSet(Running) /\ Cardinality(Running) <= Cardinality(Instances)
  BY <1>1, FS_Subset
<1> QED
  BY <1>2, FS_CardinalityType

LEMMA AgentsFinite == ActiveAgents \in 0..Cardinality(Instances)
<1> DEFINE A == {i \in Instances : instance[i] \in {"live", "gone"}}
<1>1. A \subseteq Instances /\ IsFiniteSet(Instances)
  BY ScaleAssumption
<1>2. IsFiniteSet(A) /\ Cardinality(A) <= Cardinality(Instances)
  BY <1>1, FS_Subset
<1>3. Cardinality(A) \in Nat /\ Cardinality(Instances) \in Nat
  BY <1>1, <1>2, FS_CardinalityType
<1> QED
  BY <1>2, <1>3 DEF ActiveAgents

LEMMA ScaleStarts == ScaleInit => ScaleInv
<1> SUFFICES ASSUME ScaleInit PROVE ScaleInv
  OBVIOUS
<1>1. Running = {} /\ Cardinality({}) = 0
  BY FS_EmptySet DEF ScaleInit, Running
<1>2. Cardinality(Instances) \in Nat
  BY ScaleAssumption, FS_CardinalityType
<1>3. ScaleTypeOK
  BY <1>2, ScaleAssumption DEF ScaleInit, ScaleTypeOK, NotCounted
<1> QED
  BY <1>1, <1>3, ScaleAssumption DEF ScaleInit, ScaleInv, NotCounted

LEMMA ScaleKept == ASSUME SpawnCooldown > 0 PROVE ScaleInv /\ [ScaleNext]_scaleVars => ScaleInv'
<1> SUFFICES ASSUME ScaleInv, [ScaleNext]_scaleVars PROVE ScaleInv'
  OBVIOUS
<1> USE ScaleAssumption
<1>n. /\ MaxInstances \in Nat /\ SpawnCooldown \in Nat /\ MaxLimit \in Nat /\ Backlogs \subseteq Nat
      /\ Cardinality(Instances) \in Nat
  BY FS_CardinalityType
<1>t. ScaleTypeOK /\ untilSpawn \in Nat
  BY <1>n DEF ScaleInv, ScaleTypeOK
<1>f. IsFiniteSet(Running) /\ Cardinality(Running) \in Nat
  BY RunningFinite
\* Nobody starts, and those who run are still there or fewer.
<1>r. ASSUME ScaleTypeOK', counted' = counted \/ ~counted'.is, untilSpawn' = untilSpawn,
             Running' \subseteq Running,
             untilSpawn = 0 => \A i \in Instances : instance'[i] # "starting"
      PROVE  ScaleInv'
  <2>1. PICK R : R = Running'
    OBVIOUS
  <2>2. IsFiniteSet(R) /\ Cardinality(R) <= Cardinality(Running) /\ Cardinality(R) \in Nat
    BY <1>f, <1>r, <2>1, FS_Subset, FS_CardinalityType
  <2>3. counted.is /\ untilSpawn = 0 => counted.agents \in Nat
    BY <1>t, <1>n DEF ScaleTypeOK
  <2> QED
    BY <1>n, <1>f, <1>r, <2>1, <2>2, <2>3 DEF ScaleInv
<1>1. CASE UNCHANGED scaleVars
  BY <1>1, <1>r, <1>t DEF scaleVars, ScaleInv, ScaleTypeOK, Running
<1>2. CASE CountQueue
  <2>1. counted' = [queue |-> backlog, agents |-> ActiveAgents, is |-> TRUE]
        /\ UNCHANGED <<backlog, instance, untilSpawn, limit, spawnedPids>>
    BY <1>2 DEF CountQueue
  <2>2. ScaleTypeOK'
    BY <2>1, <1>t, AgentsFinite DEF ScaleTypeOK
  <2>3. ASSUME untilSpawn = 0 PROVE Cardinality(Running) <= ActiveAgents
    <3> DEFINE A == {i \in Instances : instance[i] \in {"live", "gone"}}
    <3>1. Running \subseteq A /\ A \subseteq Instances
      BY <2>3 DEF ScaleInv, Running
    <3>2. IsFiniteSet(A)
      BY <3>1, FS_Subset
    <3> HIDE DEF A
    <3>3. Cardinality(Running) <= Cardinality(A)
      BY <3>1, <3>2, FS_Subset
    <3> QED
      BY <3>3 DEF A, ActiveAgents
  <2> QED
    BY <2>1, <2>2, <2>3 DEF ScaleInv, Running
<1>3. CASE ScaleUp
  <2>1. PICK i \in Instances : Spawns(i, SpawnCooldown)
    BY <1>3 DEF ScaleUp
  <2>2. /\ counted.is /\ untilSpawn = 0 /\ counted.agents < MaxInstances /\ counted' = NotCounted
        /\ UNCHANGED <<backlog, limit>>
    BY <1>3 DEF ScaleUp, ShouldScale
  <2>3. /\ instance[i] = "none" /\ instance' = [instance EXCEPT ![i] = "starting"]
        /\ untilSpawn' = SpawnCooldown /\ spawnedPids' = spawnedPids \union {i}
    BY <2>1 DEF Spawns
  <2>4. ScaleTypeOK'
    BY <2>2, <2>3, <1>t, <1>n DEF ScaleTypeOK, NotCounted
  <2>5. PICK R : R = Running'
    OBVIOUS
  <2>6. i \notin Running /\ R = Running \union {i}
    BY <2>3, <2>5, <1>t DEF Running, ScaleTypeOK
  <2>7. Cardinality(R) = Cardinality(Running) + 1
    BY <2>6, <1>f, FS_AddElement
  <2>8. counted.agents \in Nat /\ Cardinality(Running) <= counted.agents
    BY <2>2, <1>t, <1>n DEF ScaleInv, ScaleTypeOK
  <2> QED
    BY <2>2, <2>3, <2>4, <2>5, <2>7, <2>8, <1>n, <1>f DEF ScaleInv, NotCounted
<1>4. CASE SpawnFails \/ NoScale
  <2>1. counted' = NotCounted /\ UNCHANGED <<backlog, instance, untilSpawn, limit, spawnedPids>>
    BY <1>4 DEF SpawnFails, NoScale
  <2>2. ScaleTypeOK'
    BY <2>1, <1>t, <1>n DEF ScaleTypeOK, NotCounted
  <2> QED
    BY <2>1, <2>2, <1>r DEF NotCounted, Running, ScaleInv
<1>5. CASE CleanupPids
  <2>1. ScaleTypeOK' /\ UNCHANGED <<backlog, instance, untilSpawn, limit, counted>>
    BY <1>5, <1>t DEF CleanupPids, ScaleTypeOK
  <2> QED
    BY <2>1, <1>r DEF Running, ScaleInv
<1>6. ASSUME NEW p \in Profiles, RecordLimit(p) PROVE ScaleInv'
  <2>1. /\ limit' \in [Profiles -> [kind : {"never", "timed", "permanent"}, left : 0..MaxLimit]]
        /\ UNCHANGED <<backlog, instance, untilSpawn, counted, spawnedPids>>
    BY <1>6, <1>t, <1>n DEF RecordLimit, ScaleTypeOK
  <2>2. ScaleTypeOK'
    BY <2>1, <1>t DEF ScaleTypeOK
  <2> QED
    BY <2>1, <2>2, <1>r DEF Running, ScaleInv
<1>7. ASSUME NEW i \in Instances, InstanceRegisters(i) \/ InstanceEnds(i) \/ HeartbeatOld(i)
      PROVE  ScaleInv'
  <2>1. PICK to \in {"live", "gone", "none"} :
          /\ instance' = [instance EXCEPT ![i] = to]
          /\ to = "live" => instance[i] = "starting"
          /\ UNCHANGED <<backlog, untilSpawn, limit, counted, spawnedPids>>
    BY <1>7 DEF InstanceRegisters, InstanceEnds, HeartbeatOld
  <2>2. ScaleTypeOK'
    BY <2>1, <1>t DEF ScaleTypeOK
  <2>3. Running' \subseteq Running
    BY <2>1, <1>t DEF Running, ScaleTypeOK
  <2>4. untilSpawn = 0 => \A j \in Instances : instance'[j] # "starting"
    BY <2>1, <1>t DEF ScaleTypeOK, ScaleInv
  <2> QED
    BY <2>1, <2>2, <2>3, <2>4, <1>r
<1>8. CASE BacklogChanges
  <2>1. ScaleTypeOK' /\ UNCHANGED <<instance, untilSpawn, limit, counted, spawnedPids>>
    BY <1>8, <1>t DEF BacklogChanges, ScaleTypeOK
  <2> QED
    BY <2>1, <1>r DEF Running, ScaleInv
<1>9. CASE LimitTick
  <2>1. /\ ~counted.is /\ UNCHANGED <<backlog, instance, counted, spawnedPids>>
        /\ untilSpawn = 1 => \A i \in Instances : instance[i] # "starting"
        /\ untilSpawn' = IF untilSpawn = 0 THEN 0 ELSE untilSpawn - 1
    BY <1>9 DEF LimitTick
  <2>2. limit' \in [Profiles -> [kind : {"never", "timed", "permanent"}, left : 0..MaxLimit]]
    <3>1. \A p \in Profiles : limit[p] \in [kind : {"never", "timed", "permanent"}, left : 0..MaxLimit]
      BY <1>t DEF ScaleTypeOK
    <3>2. \A p \in Profiles : [limit[p] EXCEPT !.left = IF @ = 0 THEN 0 ELSE @ - 1]
                                \in [kind : {"never", "timed", "permanent"}, left : 0..MaxLimit]
      BY <3>1, <1>n
    <3> QED
      BY <1>9, <3>2 DEF LimitTick
  <2>3. ScaleTypeOK'
    BY <2>1, <2>2, <1>t, <1>n DEF ScaleTypeOK
  <2> QED
    BY <2>1, <2>3, <1>t, <1>n DEF ScaleInv, Running
<1> QED
  BY <1>1, <1>2, <1>3, <1>4, <1>5, <1>6, <1>7, <1>8, <1>9 DEF ScaleNext

LEMMA ScaleBounded == ScaleInv => InstancesBounded
BY DEF ScaleInv, InstancesBounded, Running

-----------------------------------------------------------------------------
\* The queue file: what is kept of a sequence, in its order.
KeepStep(g, q, these, i) ==
  g[i] = IF i = 0 THEN <<>> ELSE IF q[i] \in these THEN Append(g[i - 1], q[i]) ELSE g[i - 1]
Keeping(q, these) ==
  CHOOSE g : g = [i \in 0..Len(q) |-> IF i = 0 THEN <<>>
                                      ELSE IF q[i] \in these THEN Append(g[i - 1], q[i]) ELSE g[i - 1]]

LEMMA OnlyIsKept == ASSUME NEW q, NEW these PROVE Only(q, these) = Keeping(q, these)[Len(q)]
BY DEF Only, Keeping

LEMMA KeptExists ==
  ASSUME NEW n \in Nat, NEW q, NEW these, NEW m \in Nat
  PROVE  \E g : DOMAIN g = 0..n /\ \A i \in 0..n : i <= m => KeepStep(g, q, these, i)
<1> DEFINE To(k, g) == DOMAIN g = 0..n /\ \A i \in 0..n : i <= k => KeepStep(g, q, these, i)
           C == {k \in Nat : ~\E g : To(k, g)}
<1>1. SUFFICES ASSUME C # {} PROVE FALSE
  OBVIOUS
<1> HIDE DEF To
<1>2. C \subseteq Nat
  OBVIOUS
<1>3. PICK k \in C : \A j \in C : k <= j
  BY <1>1, <1>2, LeastNat
<1>4. k \in Nat
  BY <1>2
<1>5. CASE k = 0
  <2> DEFINE g == [i \in 0..n |-> <<>>]
  <2>1. DOMAIN g = 0..n /\ g[0] = <<>>
    OBVIOUS
  <2> HIDE DEF g
  <2>2. \A i \in 0..n : i <= 0 => i = 0
    OBVIOUS
  <2>3. To(0, g)
    BY <2>1, <2>2 DEF To, KeepStep
  <2> QED
    BY <1>5, <2>3
<1>6. CASE k # 0
  <2>1. k - 1 \in Nat /\ ~(k <= k - 1)
    BY <1>4, <1>6
  <2>2. PICK g : To(k - 1, g)
    BY <1>3, <2>1
  <2> DEFINE h == [i \in 0..n |-> IF i = 0 THEN <<>>
                     ELSE IF q[i] \in these THEN Append(g[i - 1], q[i]) ELSE g[i - 1]]
  <2>3. \A i \in 0..n : i <= k - 1 => h[i] = g[i]
    BY <2>2 DEF To, KeepStep
  <2>4. DOMAIN h = 0..n /\ \A i \in 0..n : h[i] = IF i = 0 THEN <<>>
                     ELSE IF q[i] \in these THEN Append(g[i - 1], q[i]) ELSE g[i - 1]
    OBVIOUS
  <2> HIDE DEF h
  <2>5. ASSUME NEW i \in 0..n, i <= k PROVE KeepStep(h, q, these, i)
    <3>1. CASE i = 0
      BY <3>1, <2>4 DEF KeepStep
    <3>2. CASE i # 0
      <4>1. i - 1 \in 0..n /\ i - 1 <= k - 1
        BY <2>5, <3>2, <1>4
      <4>2. h[i - 1] = g[i - 1]
        BY <4>1, <2>3
      <4> QED
        BY <4>2, <3>2, <2>4 DEF KeepStep
    <3> QED
      BY <3>1, <3>2
  <2>6. To(k, h)
    BY <2>4, <2>5 DEF To
  <2> QED
    BY <2>6
<1> QED
  BY <1>5, <1>6

LEMMA KeptSteps ==
  ASSUME NEW n \in Nat, NEW q, Len(q) = n, NEW these
  PROVE  \A i \in 0..n : KeepStep(Keeping(q, these), q, these, i)
<1> DEFINE Is(g) == g = [i \in 0..Len(q) |-> IF i = 0 THEN <<>>
                           ELSE IF q[i] \in these THEN Append(g[i - 1], q[i]) ELSE g[i - 1]]
<1>1. PICK g : DOMAIN g = 0..n /\ \A i \in 0..n : i <= n => KeepStep(g, q, these, i)
  BY KeptExists
<1> DEFINE h == [i \in 0..n |-> g[i]]
<1>2. \A i \in 0..n : h[i] = g[i] /\ (i # 0 => i - 1 \in 0..n)
  OBVIOUS
<1>3. h = [i \in 0..n |-> IF i = 0 THEN <<>>
                          ELSE IF q[i] \in these THEN Append(h[i - 1], q[i]) ELSE h[i - 1]]
  <2>1. \A i \in 0..n : g[i] = IF i = 0 THEN <<>>
                          ELSE IF q[i] \in these THEN Append(h[i - 1], q[i]) ELSE h[i - 1]
    BY <1>1, <1>2 DEF KeepStep
  <2> QED
    BY <2>1
<1> HIDE DEF h
<1>4. Is(h)
  BY <1>3
<1>5. Is(Keeping(q, these))
  <2>1. Keeping(q, these) = CHOOSE f : Is(f)
    BY DEF Keeping
  <2> HIDE DEF Is
  <2> QED
    BY <1>4, <2>1
<1> QED
  BY <1>5 DEF KeepStep

\* What is kept are members in their order, of those that are to be kept.
InOrder(kept, q, these, n) ==
  /\ kept \in Seq(QEntries)
  /\ \A a \in 1..Len(kept) : kept[a] \in these /\ \E k \in 1..n : kept[a] = q[k]
  /\ \A a, b \in 1..Len(kept) :
       a < b => \E k, l \in 1..n : k < l /\ kept[a] = q[k] /\ kept[b] = q[l]

LEMMA OneMoreInOrder ==
  ASSUME NEW q \in Seq(QEntries), NEW these, NEW n \in 1..Len(q), NEW kept,
         InOrder(kept, q, these, n - 1), q[n] \in these
  PROVE  InOrder(Append(kept, q[n]), q, these, n)
<1> DEFINE more == Append(kept, q[n])
<1>1. kept \in Seq(QEntries) /\ q[n] \in QEntries
  BY DEF InOrder
<1>2. /\ more \in Seq(QEntries) /\ Len(more) = Len(kept) + 1 /\ Len(kept) \in Nat
      /\ more[Len(kept) + 1] = q[n] /\ \A a \in 1..Len(kept) : more[a] = kept[a]
  BY <1>1, AppendProperties
<1> HIDE DEF more
<1>3. \A a \in 1..Len(more) : a \in 1..Len(kept) \/ a = Len(kept) + 1
  BY <1>2
<1>4. 1..(n - 1) \subseteq 1..n /\ n \in 1..n /\ \A k \in 1..(n - 1) : k < n
  OBVIOUS
<1>5. \A a \in 1..Len(more) : more[a] \in these /\ \E k \in 1..n : more[a] = q[k]
  <2> SUFFICES ASSUME NEW a \in 1..Len(more)
               PROVE  more[a] \in these /\ \E k \in 1..n : more[a] = q[k]
    OBVIOUS
  <2>1. CASE a \in 1..Len(kept)
    <3>1. kept[a] \in these
      BY <2>1 DEF InOrder
    <3>2. PICK k \in 1..(n - 1) : kept[a] = q[k]
      BY <2>1 DEF InOrder
    <3> QED
      BY <1>2, <1>4, <2>1, <3>1, <3>2
  <2>2. CASE a = Len(kept) + 1
    BY <1>2, <1>4, <2>2
  <2> QED
    BY <1>3, <2>1, <2>2
<1>6. ASSUME NEW a \in 1..Len(more), NEW b \in 1..Len(more), a < b
      PROVE  \E k, l \in 1..n : k < l /\ more[a] = q[k] /\ more[b] = q[l]
  <2>1. a \in 1..Len(kept)
    BY <1>2, <1>6
  <2>2. CASE b \in 1..Len(kept)
    <3>1. PICK k \in 1..(n - 1), l \in 1..(n - 1) : k < l /\ kept[a] = q[k] /\ kept[b] = q[l]
      BY <1>6, <2>1, <2>2 DEF InOrder
    <3> QED
      BY <1>2, <1>4, <2>1, <2>2, <3>1
  <2>3. CASE b = Len(kept) + 1
    <3>1. PICK k \in 1..(n - 1) : kept[a] = q[k]
      BY <2>1 DEF InOrder
    <3> QED
      BY <1>2, <1>4, <2>1, <2>3, <3>1
  <2> QED
    BY <1>3, <2>2, <2>3
<1> QED
  BY <1>2, <1>5, <1>6 DEF InOrder, more

LEMMA OnlyInOrder ==
  ASSUME NEW q \in Seq(QEntries), NEW these
  PROVE  InOrder(Only(q, these), q, these, Len(q))
<1> DEFINE h == Keeping(q, these)
           n == Len(q)
           C == {i \in 0..n : ~InOrder(h[i], q, these, i)}
<1>1. n \in Nat /\ \A i \in 0..n : KeepStep(h, q, these, i)
  BY KeptSteps
<1>2. Only(q, these) = h[n]
  BY OnlyIsKept
<1> HIDE DEF h
<1>3. C = {}
  <2>1. SUFFICES ASSUME C # {} PROVE FALSE
    OBVIOUS
  <2>2. C \subseteq Nat
    BY <1>1
  <2> HIDE DEF C
  <2>3. PICK i \in C : \A j \in C : i <= j
    BY <2>1, <2>2, LeastNat
  <2>4. i \in 0..n /\ ~InOrder(h[i], q, these, i)
    BY <2>3 DEF C
  <2>5. CASE i = 0
    <3>1. h[i] = <<>>
      BY <2>4, <2>5, <1>1 DEF KeepStep
    <3> QED
      BY <2>4, <2>5, <3>1 DEF InOrder
  <2>6. CASE i # 0
    <3>1. i - 1 \in 0..n /\ ~(i <= i - 1) /\ i \in 1..n
      BY <2>4, <2>6, <1>1
    <3>2. InOrder(h[i - 1], q, these, i - 1)
      BY <2>3, <3>1 DEF C
    <3>3. h[i] = IF q[i] \in these THEN Append(h[i - 1], q[i]) ELSE h[i - 1]
      BY <1>1, <2>4, <2>6 DEF KeepStep
    <3>4. CASE q[i] \in these
      BY <2>4, <3>1, <3>2, <3>3, <3>4, OneMoreInOrder
    <3>5. CASE q[i] \notin these
      <4>1. 1..(i - 1) \subseteq 1..i
        BY <3>1
      <4> QED
        BY <2>4, <3>2, <3>3, <3>5, <4>1 DEF InOrder
    <3> QED
      BY <3>4, <3>5
  <2> QED
    BY <2>5, <2>6
<1>4. n \in 0..n
  BY <1>1
<1> QED
  BY <1>2, <1>3, <1>4

\* The queue file is sorted, and nobody is in it twice.
QueueOrder(q) == \A i, j \in 1..Len(q) : i < j => Goes1st(q[i], q[j]) /\ q[i].by # q[j].by

LEMMA GoesInOrder ==
  \A e, f, g \in QEntries : /\ Goes1st(e, e) /\ (Goes1st(e, f) \/ Goes1st(f, e))
                            /\ Goes1st(e, f) /\ Goes1st(f, g) => Goes1st(e, g)
<1>1. \A e \in QEntries : e.by \in Waiters /\ QueuePrio[e.by] \in Nat /\ e.since \in Nat
  BY QueueFileAssumption DEF QEntries
<1> QED
  BY <1>1 DEF Goes1st

LEMMA OnlyOrdered ==
  ASSUME NEW q \in Seq(QEntries), QueueOrder(q), NEW these
  PROVE  /\ Only(q, these) \in Seq(QEntries) /\ QueueOrder(Only(q, these))
         /\ \A a \in 1..Len(Only(q, these)) :
              Only(q, these)[a] \in these /\ \E k \in 1..Len(q) : Only(q, these)[a] = q[k]
<1> DEFINE kept == Only(q, these)
<1>1. InOrder(kept, q, these, Len(q))
  BY OnlyInOrder
<1> HIDE DEF kept
<1>2. ASSUME NEW a \in 1..Len(kept), NEW b \in 1..Len(kept), a < b
      PROVE  Goes1st(kept[a], kept[b]) /\ kept[a].by # kept[b].by
  <2>1. PICK k \in 1..Len(q), l \in 1..Len(q) : k < l /\ kept[a] = q[k] /\ kept[b] = q[l]
    BY <1>1, <1>2 DEF InOrder
  <2> QED
    BY <2>1 DEF QueueOrder
<1>3. QueueOrder(kept)
  BY <1>2 DEF QueueOrder
<1> QED
  BY <1>1, <1>3 DEF InOrder, kept

LEMMA InsertedOrdered ==
  ASSUME NEW q \in Seq(QEntries), QueueOrder(q), NEW f \in QEntries, \A k \in 1..Len(q) : q[k].by # f.by
  PROVE  Inserted(q, f) \in Seq(QEntries) /\ QueueOrder(Inserted(q, f))
<1> DEFINE before == {e \in QEntries : Goes1st(e, f)}
           after == QEntries \ before
           A == Only(q, before)
           B == Only(q, after)
           r == Inserted(q, f)
           m == Len(A)
<1> HIDE DEF before, after
<1>1. /\ A \in Seq(QEntries) /\ QueueOrder(A)
      /\ \A a \in 1..m : A[a] \in before /\ \E k \in 1..Len(q) : A[a] = q[k]
  BY OnlyOrdered
<1>2. /\ B \in Seq(QEntries) /\ QueueOrder(B)
      /\ \A b \in 1..Len(B) : B[b] \in after /\ \E k \in 1..Len(q) : B[b] = q[k]
  BY OnlyOrdered
<1>3. r = A \o <<f>> \o B
  BY DEF Inserted, before, after
<1>4. m \in Nat /\ Len(B) \in Nat
  BY <1>1, <1>2
<1>b. \A e \in before : e \in QEntries /\ Goes1st(e, f)
  BY DEF before
<1>n. \A e \in after : e \in QEntries /\ ~Goes1st(e, f)
  BY DEF after, before
<1> HIDE DEF A, B, r
<1>5. /\ A \o <<f>> \in Seq(QEntries) /\ Len(A \o <<f>>) = m + 1
      /\ \A i \in 1..m : (A \o <<f>>)[i] = A[i]
      /\ (A \o <<f>>)[m + 1] = f
  BY <1>1, <1>4, ConcatProperties
<1>6. /\ r \in Seq(QEntries) /\ Len(r) = m + 1 + Len(B)
      /\ \A i \in 1..m : r[i] = A[i]
      /\ r[m + 1] = f
      /\ \A i \in (m + 2)..(m + 1 + Len(B)) : r[i] = B[i - (m + 1)]
  BY <1>2, <1>3, <1>4, <1>5, ConcatProperties
<1> HIDE DEF m
<1>7. \A a \in 1..m : A[a] \in QEntries /\ Goes1st(A[a], f) /\ A[a].by # f.by
  BY <1>1, <1>b
<1>8. \A b \in 1..Len(B) : B[b] \in QEntries /\ Goes1st(f, B[b]) /\ f.by # B[b].by
  BY <1>2, <1>n, GoesInOrder
<1>9. ASSUME NEW a \in 1..m, NEW b \in 1..Len(B)
      PROVE  Goes1st(A[a], B[b]) /\ A[a].by # B[b].by
  <2>1. Goes1st(A[a], B[b])
    BY <1>7, <1>8, GoesInOrder
  <2>2. PICK k \in 1..Len(q), l \in 1..Len(q) : A[a] = q[k] /\ B[b] = q[l]
    BY <1>1, <1>2 DEF m
  <2>3. k # l
    <3>1. Goes1st(A[a], f) /\ ~Goes1st(B[b], f)
      BY <1>1, <1>2, <1>b, <1>n DEF m
    <3> QED
      BY <2>2, <3>1
  <2>4. k \in Int /\ l \in Int
    OBVIOUS
  <2>5. k < l \/ l < k
    BY <2>3, <2>4
  <2> QED
    BY <2>1, <2>2, <2>5 DEF QueueOrder
<1>10. ASSUME NEW i \in 1..Len(r), NEW j \in 1..Len(r), i < j
       PROVE  Goes1st(r[i], r[j]) /\ r[i].by # r[j].by
  <2>1. CASE j \in 1..m
    <3>1. i \in 1..m
      BY <1>4, <1>10, <2>1 DEF m
    <3> QED
      <4>1. Goes1st(A[i], A[j]) /\ A[i].by # A[j].by
        BY <1>1, <1>10, <2>1, <3>1 DEF QueueOrder, m
      <4> QED
        BY <1>6, <2>1, <3>1, <4>1
  <2>2. CASE j = m + 1
    <3>1. i \in 1..m
      BY <1>4, <1>10, <2>2 DEF m
    <3> QED
      BY <1>6, <1>7, <2>2, <3>1
  <2>3. CASE j \in (m + 2)..(m + 1 + Len(B))
    <3>1. j - (m + 1) \in 1..Len(B) /\ r[j] = B[j - (m + 1)]
      BY <1>4, <1>6, <2>3 DEF m
    <3>2. CASE i \in 1..m
      BY <1>6, <1>9, <3>1, <3>2
    <3>3. CASE i = m + 1
      BY <1>6, <1>8, <3>1, <3>3
    <3>4. CASE i \in (m + 2)..(m + 1 + Len(B))
      <4>1. i - (m + 1) \in 1..Len(B) /\ r[i] = B[i - (m + 1)] /\ i - (m + 1) < j - (m + 1)
        BY <1>4, <1>6, <1>10, <3>4, <2>3 DEF m
      <4> QED
        BY <1>2, <3>1, <4>1 DEF QueueOrder
    <3> QED
      BY <1>4, <1>6, <3>2, <3>3, <3>4 DEF m
  <2> QED
    BY <1>4, <1>6, <2>1, <2>2, <2>3 DEF m
<1> QED
  BY <1>6, <1>10 DEF QueueOrder, r

QueueRecords == [at : Waiting \union {"idle", "uses"}, saw : Seq(QEntries), since : 0..MaxWaits]
QueueInv ==
  /\ queueFile \in Seq(QEntries) /\ QueueOrder(queueFile)
  /\ queueTaken \in Waiters \union {NoWaiter} /\ waits \in 0..MaxWaits /\ queueDead \subseteq Waiters
  /\ waiter \in [Waiters -> QueueRecords]
  /\ \A u \in Waiters : QueueOrder(waiter[u].saw) /\ (waiter[u].at # "idle" => waiter[u].since # 0)

LEMMA QueueSays == QueueInv => QueueTypeOK
<1>1. \A r \in QueueRecords : /\ r.at \in Waiting \union {"idle", "uses"}
                              /\ r.saw \in Seq(QEntries) /\ r.since \in 0..MaxWaits
  BY DEF QueueRecords
<1> QED
  BY <1>1 DEF QueueInv, QueueTypeOK

LEMMA NobodyQueues == <<>> \in Seq(QEntries) /\ QueueOrder(<<>>)
<1>1. Len(<<>>) = 0 /\ <<>> \in Seq(QEntries)
  OBVIOUS
<1> QED
  BY <1>1 DEF QueueOrder

LEMMA QueueStarts == QueueInit => QueueInv
<1>1. Away \in QueueRecords /\ Away.at = "idle" /\ Away.saw = <<>>
  BY QueueFileAssumption, NobodyQueues DEF Away, QueueRecords
<1> QED
  BY <1>1, NobodyQueues, QueueFileAssumption DEF QueueInit, QueueInv

\* A waiter goes on with a queue in its order.
LEMMA WaiterGoesOn ==
  ASSUME QueueInv, NEW u \in Waiters, NEW from, NEW to \in Waiting \union {"idle", "uses"}, from # "idle",
         NEW saw \in Seq(QEntries), QueueOrder(saw), Waits(u, from, to, saw),
         queueFile' \in Seq(QEntries), QueueOrder(queueFile'), queueTaken' \in Waiters \union {NoWaiter},
         UNCHANGED <<waits, queueDead>>
  PROVE  QueueInv'
<1> DEFINE new == [at |-> to, saw |-> saw, since |-> waiter[u].since]
<1>1. waiter' = [waiter EXCEPT ![u] = new] /\ waiter[u].at = from
  BY DEF Waits
<1>2. waiter \in [Waiters -> QueueRecords] /\ waiter[u] \in QueueRecords
  BY DEF QueueInv
<1>3. waiter[u].since \in 0..MaxWaits /\ waiter[u].since # 0
  BY <1>1, <1>2 DEF QueueInv, QueueRecords
<1>4. new \in QueueRecords /\ new.saw = saw /\ new.since # 0
  BY <1>3 DEF QueueRecords
<1> HIDE DEF new
<1>5. waiter' \in [Waiters -> QueueRecords]
  BY <1>1, <1>2, <1>4
<1>6. \A v \in Waiters : QueueOrder(waiter'[v].saw) /\ (waiter'[v].at # "idle" => waiter'[v].since # 0)
  <2>1. waiter'[u] = new /\ \A v \in Waiters \ {u} : waiter'[v] = waiter[v]
    BY <1>1, <1>2
  <2> QED
    BY <1>4, <2>1 DEF QueueInv
<1> QED
  BY <1>5, <1>6 DEF QueueInv

LEMMA QueueKept == QueueInv /\ [QueueNext]_queueVars => QueueInv'
<1> SUFFICES ASSUME QueueInv, [QueueNext]_queueVars PROVE QueueInv'
  OBVIOUS
<1>q. /\ queueFile \in Seq(QEntries) /\ QueueOrder(queueFile)
      /\ queueTaken \in Waiters \union {NoWaiter} /\ waits \in 0..MaxWaits /\ queueDead \subseteq Waiters
      /\ waiter \in [Waiters -> QueueRecords]
      /\ \A u \in Waiters : QueueOrder(waiter[u].saw) /\ (waiter[u].at # "idle" => waiter[u].since # 0)
  BY DEF QueueInv
<1>r. \A u \in Waiters : /\ waiter[u] \in QueueRecords /\ waiter[u].saw \in Seq(QEntries)
                         /\ waiter[u].since \in 0..MaxWaits
  BY <1>q DEF QueueRecords
<1>c. \A u \in Waiters : Clean(u) \in Seq(QEntries) /\ QueueOrder(Clean(u))
  BY <1>q, OnlyOrdered DEF Clean
<1>o. \A u \in Waiters : \A q \in Seq(QEntries) : QueueOrder(q)
        => Others(q, u) \in Seq(QEntries) /\ QueueOrder(Others(q, u))
  BY OnlyOrdered DEF Others
<1>w. {"dirty", "add", "poll", "dirtyPoll", "polled", "won", "leave", "left", "idle", "uses"}
        = Waiting \union {"idle", "uses"}
  BY DEF Waiting
<1>1. CASE UNCHANGED queueVars
  BY <1>1 DEF QueueInv, queueVars
<1>2. ASSUME NEW u \in Waiters, Enter(u) PROVE QueueInv'
  <2> DEFINE new == [at |-> IF Clean(u) = queueFile THEN "add" ELSE "dirty",
                     saw |-> Clean(u), since |-> waits']
  <2>1. /\ waits < MaxWaits /\ waits' = waits + 1 /\ waiter' = [waiter EXCEPT ![u] = new]
        /\ UNCHANGED <<queueFile, queueTaken, queueDead>>
    BY <1>2 DEF Enter
  <2>2. waits' \in 0..MaxWaits /\ waits' # 0
    BY <1>q, <2>1, QueueFileAssumption
  <2>3. new \in QueueRecords /\ QueueOrder(new.saw) /\ new.since # 0
    BY <1>c, <1>w, <2>2 DEF QueueRecords
  <2> HIDE DEF new
  <2>4. waiter' \in [Waiters -> QueueRecords] /\ waiter'[u] = new
        /\ \A v \in Waiters \ {u} : waiter'[v] = waiter[v]
    BY <1>q, <2>1, <2>3
  <2>5. \A v \in Waiters : QueueOrder(waiter'[v].saw) /\ (waiter'[v].at # "idle" => waiter'[v].since # 0)
    BY <1>q, <2>3, <2>4
  <2> QED
    BY <1>q, <2>1, <2>2, <2>4, <2>5 DEF QueueInv
<1>3. ASSUME NEW u \in Waiters, SaveClean(u) PROVE QueueInv'
  <2>1. /\ queueFile' = waiter[u].saw /\ UNCHANGED <<queueTaken, waits, queueDead>>
        /\ queueFile' \in Seq(QEntries) /\ QueueOrder(queueFile')
    BY <1>3, <1>q, <1>r DEF SaveClean
  <2>2. CASE Waits(u, "dirty", "add", waiter[u].saw)
    BY <1>q, <1>r, <1>w, <2>1, <2>2, WaiterGoesOn
  <2>3. CASE Waits(u, "dirtyPoll", "polled", waiter[u].saw)
    BY <1>q, <1>r, <1>w, <2>1, <2>3, WaiterGoesOn
  <2> QED
    BY <1>3, <2>2, <2>3 DEF SaveClean
<1>4. ASSUME NEW u \in Waiters, Add(u) PROVE QueueInv'
  <2> DEFINE q == waiter[u].saw  f == [by |-> u, since |-> waiter[u].since]
  <2>1. /\ Waits(u, "add", "poll", <<>>) /\ UNCHANGED <<queueTaken, waits, queueDead>>
        /\ queueFile' = IF \E e \in ToSet(q) : e.by = u THEN queueFile ELSE Inserted(q, f)
    BY <1>4 DEF Add
  <2>2. waiter[u].since # 0
    BY <1>q, <2>1 DEF Waits
  <2>3. f \in QEntries /\ f.by = u
    BY <1>r, <2>2 DEF QEntries
  <2>4. CASE ~\E e \in ToSet(q) : e.by = u
    <3>1. \A k \in 1..Len(q) : q[k].by # f.by
      BY <2>3, <2>4 DEF ToSet
    <3>2. Inserted(q, f) \in Seq(QEntries) /\ QueueOrder(Inserted(q, f))
      <4> HIDE DEF q, f
      <4>1. q \in Seq(QEntries) /\ QueueOrder(q)
        BY <1>q, <1>r DEF q
      <4> QED
        BY <2>3, <3>1, <4>1, InsertedOrdered
    <3> QED
      BY <2>1, <2>4, <3>2, <1>w, NobodyQueues, WaiterGoesOn, <1>q
  <2>5. CASE \E e \in ToSet(q) : e.by = u
    BY <2>1, <2>5, <1>w, NobodyQueues, WaiterGoesOn, <1>q
  <2> QED
    BY <2>4, <2>5
<1>5. ASSUME NEW u \in Waiters, Poll(u) PROVE QueueInv'
  <2> DEFINE to == IF Clean(u) = queueFile THEN "polled" ELSE "dirtyPoll"
  <2>1. Waits(u, "poll", to, Clean(u)) /\ UNCHANGED <<queueFile, queueTaken, waits, queueDead>>
    BY <1>5 DEF Poll
  <2>2. to \in Waiting \union {"idle", "uses"}
    BY <1>w
  <2> HIDE DEF to
  <2> QED
    BY <1>q, <1>c, <2>1, <2>2, WaiterGoesOn
<1>6. ASSUME NEW u \in Waiters, Win(u) PROVE QueueInv'
  <2>1. /\ Waits(u, "polled", "won", Others(waiter[u].saw, u))
        /\ queueTaken' = u /\ UNCHANGED <<queueFile, waits, queueDead>>
    BY <1>6 DEF Win
  <2>2. Others(waiter[u].saw, u) \in Seq(QEntries) /\ QueueOrder(Others(waiter[u].saw, u))
    BY <1>q, <1>r, <1>o
  <2> QED
    BY <1>q, <1>w, <2>1, <2>2, WaiterGoesOn
<1>7. ASSUME NEW u \in Waiters, NotYet(u) PROVE QueueInv'
  BY <1>7, <1>q, <1>w, NobodyQueues, WaiterGoesOn DEF NotYet
<1>8. ASSUME NEW u \in Waiters, SaveWon(u) PROVE QueueInv'
  <2>1. /\ Waits(u, "won", "leave", <<>>) /\ queueFile' = waiter[u].saw
        /\ UNCHANGED <<queueTaken, waits, queueDead>>
    BY <1>8 DEF SaveWon
  <2> QED
    BY <1>q, <1>r, <1>w, <2>1, NobodyQueues, WaiterGoesOn
<1>9. ASSUME NEW u \in Waiters, WaitTimesOut(u) PROVE QueueInv'
  BY <1>9, <1>q, <1>w, NobodyQueues, WaiterGoesOn DEF WaitTimesOut
<1>10. ASSUME NEW u \in Waiters, LeaveRead(u) PROVE QueueInv'
  <2>1. /\ Waits(u, "leave", "left", Others(queueFile, u))
        /\ UNCHANGED <<queueFile, queueTaken, waits, queueDead>>
    BY <1>10 DEF LeaveRead
  <2>2. Others(queueFile, u) \in Seq(QEntries) /\ QueueOrder(Others(queueFile, u))
    BY <1>q, <1>o
  <2> QED
    BY <1>q, <1>w, <2>1, <2>2, WaiterGoesOn
<1>11. ASSUME NEW u \in Waiters, LeaveWrite(u) PROVE QueueInv'
  <2> DEFINE to == IF queueTaken = u THEN "uses" ELSE "idle"
  <2>1. /\ Waits(u, "left", to, <<>>) /\ queueFile' = waiter[u].saw
        /\ UNCHANGED <<queueTaken, waits, queueDead>>
    BY <1>11 DEF LeaveWrite
  <2>2. to \in Waiting \union {"idle", "uses"}
    OBVIOUS
  <2> HIDE DEF to
  <2> QED
    BY <1>q, <1>r, <2>1, <2>2, NobodyQueues, WaiterGoesOn
<1>12. ASSUME NEW u \in Waiters, GiveBack(u) PROVE QueueInv'
  BY <1>12, <1>q, <1>w, NobodyQueues, WaiterGoesOn DEF GiveBack
<1>13. ASSUME NEW u \in Waiters, WaiterDies(u) PROVE QueueInv'
  <2>1. /\ queueDead' = queueDead \union {u} /\ waiter' = [waiter EXCEPT ![u] = Away]
        /\ UNCHANGED <<queueFile, queueTaken, waits>>
    BY <1>13 DEF WaiterDies
  <2>2. Away \in QueueRecords /\ Away.at = "idle" /\ QueueOrder(Away.saw)
    BY QueueFileAssumption, NobodyQueues DEF Away, QueueRecords
  <2>3. waiter' \in [Waiters -> QueueRecords] /\ waiter'[u] = Away
        /\ \A v \in Waiters \ {u} : waiter'[v] = waiter[v]
    BY <1>q, <2>1, <2>2
  <2> QED
    BY <1>q, <2>1, <2>2, <2>3 DEF QueueInv
<1>14. CASE SlotOfDeadFreed
  BY <1>14, <1>q DEF SlotOfDeadFreed, QueueInv
<1> QED
  BY <1>1, <1>2, <1>3, <1>4, <1>5, <1>6, <1>7, <1>8, <1>9, <1>10, <1>11, <1>12, <1>13, <1>14
     DEF QueueNext, QueueStep

\* Who takes the slot is the head of what it read, which is in order.
LEMMA WinnerGoesFirst ==
  ASSUME QueueInv, [QueueNext]_queueVars,
         NEW u \in Waiters, queueTaken' = u, queueTaken # u,
         NEW e \in ToSet(waiter[u].saw), NEW f \in ToSet(waiter[u].saw), f.by = u
  PROVE  Goes1st(f, e)
<1> DEFINE q == waiter[u].saw
<1>1. AtHead(u)
  BY QueueFileAssumption DEF QueueNext, QueueStep, queueVars, Enter, SaveClean, Add, Poll, Win, NotYet, SaveWon,
    WaitTimesOut, LeaveRead, LeaveWrite, GiveBack, WaiterDies, SlotOfDeadFreed
<1>2. q \in Seq(QEntries) /\ QueueOrder(q)
  BY DEF QueueInv, QueueRecords
<1>3. Len(q) \in Nat /\ Len(q) # 0 /\ q[1].by = u
  BY <1>1, <1>2 DEF AtHead
<1>4. PICK i, j \in 1..Len(q) : e = q[i] /\ f = q[j]
  BY DEF ToSet
<1> HIDE DEF q
<1>5. 1 \in 1..Len(q) /\ 1 <= j /\ 1 <= i
  BY <1>3
<1>6. j = 1
  BY <1>2, <1>3, <1>4, <1>5 DEF QueueOrder
<1>7. CASE i = 1
  <2>1. e \in QEntries /\ f = e
    BY <1>2, <1>4, <1>6, <1>7
  <2> QED
    BY <2>1, GoesInOrder
<1>8. CASE i # 1
  BY <1>2, <1>4, <1>5, <1>6, <1>8 DEF QueueOrder
<1> QED
  BY <1>7, <1>8

-----------------------------------------------------------------------------
\* All together.
LEMMA Beginnings ==
  ServicesInit => /\ PromInit /\ SlotInit /\ QueueInit /\ RedisSlotInit /\ RegistryInit /\ BeatsInit
                  /\ BusInit /\ BridgeInit /\ ViewInit /\ RemoteInit /\ ScaleInit /\ BrokerInit
BY DEF ServicesInit

LEMMA Apart ==
  [ServicesNext]_servicesVars
    => /\ [PromNext]_promVars /\ [SlotNext]_slotVars /\ [QueueNext]_queueVars
       /\ [RedisSlotNext]_redisSlotVars
       /\ [RegistryNext]_registryVars /\ [BeatsNext]_beatVars /\ [BusNext]_busVars
       /\ [BridgeNext]_bridgeVars /\ [ViewNext]_viewVars /\ [RemoteNext]_remoteVars
       /\ [ScaleNext]_scaleVars /\ [BrokerNext]_brokerVars
<1> SUFFICES ASSUME [ServicesNext]_servicesVars
             PROVE  /\ [PromNext]_promVars /\ [SlotNext]_slotVars /\ [QueueNext]_queueVars
                    /\ [RedisSlotNext]_redisSlotVars
                    /\ [RegistryNext]_registryVars /\ [BeatsNext]_beatVars /\ [BusNext]_busVars
                    /\ [BridgeNext]_bridgeVars /\ [ViewNext]_viewVars /\ [RemoteNext]_remoteVars
                    /\ [ScaleNext]_scaleVars /\ [BrokerNext]_brokerVars
  OBVIOUS
<1>1. CASE UNCHANGED servicesVars
  BY <1>1 DEF servicesVars
<1>2. CASE ServicesNext
  BY <1>2 DEF ServicesNext, OthersStay, Stays, On
<1> QED
  BY <1>1, <1>2

LEMMA SlotsStay == ServicesSpec => [](SlotInv /\ SlotKeyInv)
<1>1. ServicesInit => SlotInv /\ SlotKeyInv
  BY Beginnings, SlotStarts, KeyStarts
<1>2. SlotInv /\ SlotKeyInv /\ [ServicesNext]_servicesVars => (SlotInv /\ SlotKeyInv)'
  BY Apart, SlotKept, KeyKept
<1> QED
  BY <1>1, <1>2, PTL DEF ServicesSpec

\* "Returns True if claimed successfully": what is left of it for a lock file is
\* that two claims never write it together, and for the key in Redis that it
\* names nobody who has let go.
THEOREM SlotsAreExclusive == ServicesSpec => []SlotsExclusive
<1>1. SlotInv /\ SlotKeyInv => SlotsExclusive
  BY DEF SlotInv, SlotKeyInv, SlotsExclusive
<1> QED
  BY SlotsStay, <1>1, PTL

OthersInv ==
  /\ PromInv /\ RegistryTypeOK /\ BeatsInv /\ BusInv /\ BridgeInv /\ ViewInv /\ RemoteTypeOK
  /\ BrokerInv

LEMMA OthersKeep == ServicesSpec => []OthersInv
<1>1. ServicesInit => OthersInv
  BY Beginnings, PromStarts, RegistryStarts, BeatsStart, BusStarts, BridgeStarts, ViewStarts,
     RemoteStarts, BrokerStarting DEF OthersInv
<1>2. OthersInv /\ [ServicesNext]_servicesVars => OthersInv'
  BY Apart, PromKept, RegistryKept, BeatsKept, BusKept, BridgeKept, ViewKept, RemoteKept, BrokerKept
     DEF OthersInv
<1> QED
  BY <1>1, <1>2, PTL DEF ServicesSpec

LEMMA ScaleStays == ASSUME SpawnCooldown > 0 PROVE ServicesSpec => []ScaleInv
<1>1. ServicesInit => ScaleInv
  BY Beginnings, ScaleStarts
<1>2. ScaleInv /\ [ServicesNext]_servicesVars => ScaleInv'
  BY Apart, ScaleKept
<1> QED
  BY <1>1, <1>2, PTL DEF ServicesSpec

\* What is told or decided is so, for any number of processes, commits, events,
\* queries and instances.  Without a cooldown the launcher would start as many
\* instances as it makes checks before the first has registered.
THEOREM AnswersAreTrue == ASSUME SpawnCooldown > 0 PROVE ServicesSpec => []AnswersTrue
<1>1. OthersInv /\ ScaleInv => AnswersTrue
  BY BrokerAnswers, RefusalsHold, ScaleBounded
     DEF OthersInv, PromInv, BridgeInv, HandledOnce, AnswersTrue
<1> QED
  BY OthersKeep, ScaleStays, <1>1, PTL

LEMMA QueueStays == ServicesSpec => []QueueInv
<1>1. ServicesInit => QueueInv
  BY Beginnings, QueueStarts
<1>2. QueueInv /\ [ServicesNext]_servicesVars => QueueInv'
  BY Apart, QueueKept
<1> QED
  BY <1>1, <1>2, PTL DEF ServicesSpec

\* The types of every component: the cooldown of the breaker has its maximum, the
\* cache its size, the counts of missed beats and of requeues theirs, the files of
\* the events one name each, and who registers in the queue file has its
\* requested_at.
THEOREM ServicesTyped == ASSUME SpawnCooldown > 0 PROVE ServicesSpec => []ServicesTypeOK
<1>1. SlotInv /\ SlotKeyInv /\ OthersInv /\ ScaleInv
        => /\ PromTypeOK /\ SlotTypeOK /\ RedisSlotTypeOK /\ RegistryTypeOK
           /\ BeatsTypeOK /\ BusTypeOK /\ BridgeTypeOK /\ ViewTypeOK /\ RemoteTypeOK
           /\ ScaleTypeOK /\ BrokerTypeOK
  BY DEF SlotInv, SlotKeyInv, OthersInv, ScaleInv, PromInv, BeatsInv, BusInv, BridgeInv, ViewInv,
       BrokerInv
<1>2. SlotInv /\ SlotKeyInv /\ OthersInv /\ ScaleInv /\ QueueInv => ServicesTypeOK
  BY <1>1, QueueSays DEF ServicesTypeOK
<1> QED
  BY SlotsStay, OthersKeep, ScaleStays, QueueStays, <1>2, PTL

\* A slot passes from one to the next only through being free, and to the first
\* of those who wait.  claim_slot returns True to one caller per life of the key,
\* although a late DEL may end the life of a key that names somebody else;
\* wait_for_slot claims at the head of a copy of the queue file, and however the
\* reads and writes of that file fall, and whoever dies between them, every copy is
\* in the order of _queue_key with nobody in it twice, so that who is at the head
\* goes before everybody it read of.
THEOREM SlotsPassInOrder == ServicesSpec => ClaimsOnlyFree /\ FirstWins
<1> DEFINE OnlyFree == \A u \in Holders :
                         holderAt[u] # "holds" /\ holderAt'[u] = "holds"
                           => \A v \in Holders \ {u} : slotKey # v /\ slotKey' # v
           First == \A u \in Waiters :
                      queueTaken' = u /\ queueTaken # u
                        => \A e \in ToSet(waiter[u].saw) :
                             \A f \in ToSet(waiter[u].saw) : f.by = u => Goes1st(f, e)
<1>1. SlotKeyInv /\ [ServicesNext]_servicesVars => [OnlyFree]_redisSlotVars
  BY Apart, ClaimStep
<1>2. QueueInv /\ [ServicesNext]_servicesVars => [First]_queueVars
  BY Apart, WinnerGoesFirst
<1> QED
  BY SlotsStay, QueueStays, <1>1, <1>2, PTL DEF ServicesSpec, FirstWins, ClaimsOnlyFree

\* reap_dead_workers, for whatever Redis and the worker do: a worker that pings is
\* found dead only while the record of its last ping is out of reach.
THEOREM VerdictsAreRight == ServicesSpec => VerdictsRight
<1> DEFINE Right == hbVerdict' = "dead" /\ hbVerdict # "dead" /\ hbWorker = "works"
                      => hbUp # (hbLast = "redis")
<1>1. OthersInv /\ [ServicesNext]_servicesVars => [Right]_beatVars
  BY Apart, VerdictStep DEF OthersInv
<1> QED
  BY OthersKeep, <1>1, PTL DEF ServicesSpec, VerdictsRight
=============================================================================
