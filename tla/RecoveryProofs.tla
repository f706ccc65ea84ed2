--------------------------- MODULE RecoveryProofs ---------------------------
(***************************************************************************)
(* The components beside the recoveries of the board, for any instances:   *)
(* the cascade of stores, remote runs, ratings, the agents' keys, the file *)
(* of blockers and the messages of the board.  Each has an inductive       *)
(* invariant of its own; the last section puts them together.              *)
(***************************************************************************)
EXTENDS MCRecovery, TaskBoardProofs, FiniteSetTheorems, SequenceTheorems, WellFoundedInduction, TLAPS

-----------------------------------------------------------------------------
\* The agents' keys.
KeyInv == AgentKeysTypeOK /\ KeysExpire

LEMMA KeysStart == AgentKeysInit => KeyInv
BY DEF AgentKeysInit, KeyInv, AgentKeysTypeOK, KeysExpire

LEMMA KeysKept == KeyInv /\ [AgentKeysNext]_agentKeyVars => KeyInv'
<1> SUFFICES ASSUME KeyInv, [AgentKeysNext]_agentKeyVars PROVE KeyInv'
  OBVIOUS
<1> USE DEF KeyInv, AgentKeysTypeOK, KeysExpire, KeyRuns, KeyIs, KeyHset
<1>1. CASE UNCHANGED agentKeyVars
  BY <1>1 DEF agentKeyVars
<1>2. ASSUME NEW a \in KeyAgents, KeyRegister(a) PROVE KeyInv'
  BY <1>2 DEF KeyRegister
<1>3. ASSUME NEW a \in KeyAgents, KeyBeat(a) PROVE KeyInv'
  BY <1>3 DEF KeyBeat
<1>4. ASSUME NEW a \in KeyAgents, KeyBeatHset(a) PROVE KeyInv'
  BY <1>4 DEF KeyBeatHset
<1>5. ASSUME NEW a \in KeyAgents, KeyUpdate(a) PROVE KeyInv'
  BY <1>5 DEF KeyUpdate
<1>6. ASSUME NEW a \in KeyAgents, KeyExpire(a) PROVE KeyInv'
  BY <1>6 DEF KeyExpire
<1>7. ASSUME NEW a \in KeyAgents, KeyUnregister(a) PROVE KeyInv'
  BY <1>7 DEF KeyUnregister
<1>8. ASSUME NEW a \in KeyAgents, KeyTimesOut(a) PROVE KeyInv'
  BY <1>8 DEF KeyTimesOut
<1>9. ASSUME NEW a \in KeyAgents, KeyAgentDies(a) PROVE KeyInv'
  BY <1>9 DEF KeyAgentDies
<1> QED
  BY <1>1, <1>2, <1>3, <1>4, <1>5, <1>6, <1>7, <1>8, <1>9 DEF AgentKeysNext

-----------------------------------------------------------------------------
\* Remote runs.  Each time the task became pending again a retry was counted.
RunRecords == [at : {"new", "planned", "spawned", "watched", "left", "waits", "requeue", "written", "dead"},
               id : 0..MaxSecond, strategy : Strategies, limited : BOOLEAN]
CallersInv ==
  /\ second \in 0..MaxSecond /\ run \in [Runs -> RunRecords]
  /\ agent \in [Runs -> {"none", "works", "good", "bad", "lost"}]
  /\ pidFile \in [0..MaxSecond -> Runs \union {NoRun}]
  /\ told \subseteq Runs /\ shared \subseteq Runs
  /\ OneShotLimited

TaskPlaces == SUBSET {"pending", "claimed", "completed"}
HandedOut(places, retries, n) == n <= IF "pending" \in places THEN retries ELSE retries + 1
CountInv ==
  /\ remoteTask \in [in : TaskPlaces, retries : 0..RemoteRetries]
  /\ started \in 0..MaxStarts
  /\ HandedOut(remoteTask.in, remoteTask.retries, started)

RemoteInv == CallersInv /\ CountInv

LEMMA RemoteSays == RemoteInv => RemoteTypeOK /\ OneShotLimited /\ HandedOutBounded
BY RemoteAssumption DEF RemoteInv, CallersInv, CountInv, RunRecords, TaskPlaces, HandedOut, RemoteTypeOK,
                        HandedOutBounded

LEMMA RemoteStarts == RemoteInit => RemoteInv
BY RemoteAssumption
   DEF RemoteInit, RemoteInv, CallersInv, CountInv, RunRecords, TaskPlaces, HandedOut, NotRun, Strategies,
       OneShotLimited

\* A run that goes on, or is over, keeps the limit that goes with its strategy.
LEMMA RunChanges ==
  ASSUME CallersInv, NEW r \in Runs, NEW c \in RunRecords, run' = [run EXCEPT ![r] = c],
         c.limited <=> c.strategy = "remote_dispatch"
  PROVE  run' \in [Runs -> RunRecords] /\ OneShotLimited'
BY DEF CallersInv, OneShotLimited

LEMMA RunGoes ==
  ASSUME CallersInv, NEW r \in Runs,
         NEW to \in {"new", "planned", "spawned", "watched", "left", "waits", "requeue", "written", "dead"},
         run' = [run EXCEPT ![r].at = to]
  PROVE  run' \in [Runs -> RunRecords] /\ OneShotLimited'
<1> DEFINE c == [run[r] EXCEPT !.at = to]
<1>1. c \in RunRecords /\ (c.limited <=> c.strategy = "remote_dispatch")
  <2>1. run[r] \in RunRecords /\ (run[r].limited <=> run[r].strategy = "remote_dispatch")
    BY DEF CallersInv, OneShotLimited
  <2> QED
    BY <2>1 DEF RunRecords
<1>2. run' = [run EXCEPT ![r] = c]
  BY DEF CallersInv
<1> HIDE DEF c
<1> QED
  BY <1>1, <1>2, RunChanges

LEMMA RunEnds ==
  ASSUME CallersInv, NEW r \in Runs, run' = [run EXCEPT ![r] = NotRun]
  PROVE  run' \in [Runs -> RunRecords] /\ OneShotLimited'
<1>1. NotRun \in RunRecords /\ (NotRun.limited <=> NotRun.strategy = "remote_dispatch")
  BY RemoteAssumption DEF NotRun, RunRecords, Strategies
<1> QED
  BY <1>1, RunChanges

LEMMA CallersKept == CallersInv /\ [RemoteNext]_remoteVars => CallersInv'
<1> SUFFICES ASSUME CallersInv, [RemoteNext]_remoteVars PROVE CallersInv'
  OBVIOUS
<1> DEFINE Moved == run' \in [Runs -> RunRecords] /\ OneShotLimited'
<1>n. MaxSecond \in Nat /\ second \in 0..MaxSecond
  BY RemoteAssumption DEF CallersInv
<1>s. UNCHANGED run => Moved
  BY DEF CallersInv, OneShotLimited
<1>1. CASE UNCHANGED remoteVars
  BY <1>1, <1>s DEF CallersInv, remoteVars
<1>2. ASSUME NEW r \in Runs, PlanRun(r) PROVE CallersInv'
  <2>1. PICK c \in Complexities, keyword \in BOOLEAN :
          run' = [run EXCEPT ![r] = [at |-> "planned", id |-> second,
                                     strategy |-> Strategy(c, keyword), limited |-> Limited(c, keyword)]]
    BY <1>2 DEF PlanRun
  <2> DEFINE new == [at |-> "planned", id |-> second,
                     strategy |-> Strategy(c, keyword), limited |-> Limited(c, keyword)]
  <2>2. /\ Strategy(c, keyword) \in Strategies /\ Limited(c, keyword) \in BOOLEAN
        /\ Limited(c, keyword) <=> Strategy(c, keyword) = "remote_dispatch"
    BY DEF Strategy, Limited, Interactive, Strategies
  <2>3. new \in RunRecords /\ (new.limited <=> new.strategy = "remote_dispatch")
    BY <2>2, <1>n DEF RunRecords
  <2>4. Moved
    <3> HIDE DEF new
    <3> QED
      BY <2>1, <2>3, RunChanges DEF new
  <2>5. shared' \subseteq Runs /\ agent' \in [Runs -> {"none", "works", "good", "bad", "lost"}]
    BY <1>2 DEF PlanRun, CallersInv
  <2> QED
    BY <1>2, <2>4, <2>5 DEF PlanRun, CallersInv
<1>3. ASSUME NEW r \in Runs, Spawned(r) \/ RunAndWait(r) \/ RunTimesOut(r) PROVE CallersInv'
  <2>1. /\ \E to \in {"spawned", "waits", "requeue"} : run' = [run EXCEPT ![r].at = to]
        /\ agent' \in [Runs -> {"none", "works", "good", "bad", "lost"}]
        /\ UNCHANGED <<second, pidFile, told, shared>>
    BY <1>3 DEF Spawned, RunAndWait, RunTimesOut, RunTo, CallersInv
  <2> QED
    BY <2>1, RunGoes DEF CallersInv
<1>4. ASSUME NEW r \in Runs, PidWritten(r) PROVE CallersInv'
  <2>1. Moved
    BY <1>4, RunGoes DEF PidWritten, RunTo
  <2> QED
    BY <1>4, <2>1 DEF PidWritten, CallersInv
<1>5. ASSUME NEW r \in Runs, AgentStops(r) PROVE CallersInv'
  BY <1>5, <1>s DEF AgentStops, CallersInv
<1>6. ASSUME NEW r \in Runs, \/ RunReturns(r) \/ RequeueTask(r) \/ RequeueRemoves(r)
                             \/ CallerLeaves(r) \/ CallerDies(r)
      PROVE  CallersInv'
  <2>1. /\ \/ run' = [run EXCEPT ![r] = NotRun]
           \/ \E to \in {"requeue", "written", "left", "dead"} : run' = [run EXCEPT ![r].at = to]
        /\ UNCHANGED <<second, agent, pidFile, told, shared>>
    BY <1>6 DEF RunReturns, RequeueTask, RequeueRemoves, CallerLeaves, CallerDies, RunTo, RunOver
  <2> QED
    BY <2>1, RunGoes, RunEnds DEF CallersInv
<1>7. ASSUME NEW s \in 0..MaxSecond, CheckStatus(s) PROVE CallersInv'
  BY <1>7, <1>s DEF CheckStatus, Gone, CallersInv
<1>8. CASE RemoteSecond
  BY <1>8, <1>n, <1>s DEF RemoteSecond, CallersInv
<1> QED
  BY <1>1, <1>2, <1>3, <1>4, <1>5, <1>6, <1>7, <1>8 DEF RemoteNext

\* What the steps do to the task: taken up, completed, written back, removed.
TaskMoves ==
  LET in == remoteTask.in  retries == remoteTask.retries
  IN  \/ UNCHANGED <<remoteTask, started>>
      \/ /\ "pending" \in in /\ started < MaxStarts /\ started' = started + 1
         /\ remoteTask' = [in |-> (in \ {"pending"}) \union {"claimed"}, retries |-> retries]
      \/ /\ \/ remoteTask' = [in |-> (in \ {"claimed"}) \union {"completed"}, retries |-> retries]
            \/ remoteTask' = [in |-> in \ {"claimed"}, retries |-> retries]
            \/ /\ retries < RemoteRetries
               /\ remoteTask' = [in |-> in \union {"pending"}, retries |-> retries + 1]
         /\ UNCHANGED started

LEMMA TaskSteps == ASSUME CountInv, [RemoteNext]_remoteVars PROVE TaskMoves
<1> USE DEF TaskMoves
<1>t. remoteTask = [in |-> remoteTask.in, retries |-> remoteTask.retries]
  BY DEF CountInv
<1>1. CASE UNCHANGED remoteVars
  BY <1>1 DEF remoteVars
<1>2. ASSUME NEW r \in Runs, RunAndWait(r) PROVE TaskMoves
  BY <1>2, <1>t DEF RunAndWait
<1>3. ASSUME NEW r \in Runs, AgentStops(r) PROVE TaskMoves
  BY <1>3, <1>t DEF AgentStops
<1>4. ASSUME NEW r \in Runs, RequeueTask(r) \/ RequeueRemoves(r) PROVE TaskMoves
  BY <1>4, <1>t DEF RequeueTask, RequeueRemoves
<1>5. ASSUME NEW r \in Runs, \/ PlanRun(r) \/ Spawned(r) \/ PidWritten(r) \/ RunReturns(r)
                             \/ RunTimesOut(r) \/ CallerLeaves(r) \/ CallerDies(r)
      PROVE  TaskMoves
  BY <1>5 DEF PlanRun, Spawned, PidWritten, RunReturns, RunTimesOut, CallerLeaves, CallerDies
<1>6. CASE RemoteSecond \/ \E s \in 0..MaxSecond : CheckStatus(s)
  BY <1>6 DEF CheckStatus, RemoteSecond
<1> QED
  BY <1>1, <1>2, <1>3, <1>4, <1>5, <1>6 DEF RemoteNext

LEMMA CountKept == CountInv /\ [RemoteNext]_remoteVars => CountInv'
<1> SUFFICES ASSUME CountInv, [RemoteNext]_remoteVars PROVE CountInv'
  OBVIOUS
<1> DEFINE in == remoteTask.in  retries == remoteTask.retries
<1>1. /\ in \in TaskPlaces /\ retries \in 0..RemoteRetries /\ started \in 0..MaxStarts
      /\ HandedOut(in, retries, started)
      /\ RemoteRetries \in Nat /\ MaxStarts \in Nat
  BY RemoteAssumption DEF CountInv
<1>2. CASE UNCHANGED <<remoteTask, started>>
  BY <1>2 DEF CountInv
<1>3. ASSUME "pending" \in in, started < MaxStarts, started' = started + 1,
             remoteTask' = [in |-> (in \ {"pending"}) \union {"claimed"}, retries |-> retries]
      PROVE  CountInv'
  BY <1>1, <1>3 DEF CountInv, HandedOut, TaskPlaces
<1>4. ASSUME UNCHANGED started,
             \/ remoteTask' = [in |-> (in \ {"claimed"}) \union {"completed"}, retries |-> retries]
             \/ remoteTask' = [in |-> in \ {"claimed"}, retries |-> retries]
      PROVE  CountInv'
  BY <1>1, <1>4 DEF CountInv, HandedOut, TaskPlaces
<1>5. ASSUME UNCHANGED started, retries < RemoteRetries,
             remoteTask' = [in |-> in \union {"pending"}, retries |-> retries + 1]
      PROVE  CountInv'
  BY <1>1, <1>5 DEF CountInv, HandedOut, TaskPlaces
<1> QED
  BY <1>2, <1>3, <1>4, <1>5, TaskSteps DEF TaskMoves

LEMMA RemoteKept == RemoteInv /\ [RemoteNext]_remoteVars => RemoteInv'
BY CallersKept, CountKept DEF RemoteInv

-----------------------------------------------------------------------------
\* Induction without an operator: a set of numbers, or of subsets of a finite
\* set, that is not empty has a least one.
LEMMA LeastNumber ==
  ASSUME NEW T \in SUBSET Nat, T # {}
  PROVE  \E m \in T : \A k \in T : ~(k < m)
<1> DEFINE R == OpToRel(<, Nat)
<1>1. IsWellFoundedOn(R, Nat)
  BY NatLessThanWellFounded
<1>2. \A a, b \in Nat : <<a, b>> \in R <=> a < b
  BY DEF OpToRel
<1> HIDE DEF R
<1>3. PICK m \in T : \A k \in T : ~(<<k, m>> \in R)
  BY <1>1, WFMin
<1>4. \A k \in T : ~(k < m)
  BY <1>2, <1>3
<1> QED
  BY <1>4

LEMMA LeastSubset ==
  ASSUME NEW S, IsFiniteSet(S), NEW C \in SUBSET SUBSET S, C # {}
  PROVE  \E s \in C : \A t \in C : t \subseteq s => t = s
<1> DEFINE R == StrictSubsetOrdering(S)
<1>1. IsWellFoundedOn(R, SUBSET S)
  BY FS_StrictSubsetOrderingWellFounded, FS_FiniteSubsetsOfFinite
<1>2. \A a, b \in SUBSET S : <<a, b>> \in R <=> a \subseteq b /\ a # b
  BY DEF StrictSubsetOrdering
<1> HIDE DEF R
<1>3. PICK s \in C : \A t \in C : ~(<<t, s>> \in R)
  BY <1>1, WFMin
<1> QED
  BY <1>2, <1>3

-----------------------------------------------------------------------------
\* Powers of two.
PowersTo(n, g) == \A k \in 0..n : g[k] = IF k = 0 THEN 1 ELSE 2 * g[k - 1]

LEMMA PowersExist == \A n \in Nat : \E g \in [Nat -> Nat] : PowersTo(n, g)
<1> DEFINE C == {n \in Nat : ~\E g \in [Nat -> Nat] : PowersTo(n, g)}
<1> SUFFICES ASSUME C # {} PROVE FALSE
  OBVIOUS
<1>1. PICK n \in C : \A k \in C : ~(k < n)
  BY LeastNumber
<1>2. CASE n = 0
  <2>1. PowersTo(0, [k \in Nat |-> 1])
    BY DEF PowersTo
  <2> QED
    BY <1>2, <2>1
<1>3. CASE n # 0
  <2>1. n - 1 \in Nat /\ n - 1 \notin C
    <3>1. n \in Nat /\ n - 1 < n
      OBVIOUS
    <3>2. n - 1 \in Nat
      BY <3>1, <1>3
    <3> QED
      BY <1>1, <3>1, <3>2
  <2>2. PICK g \in [Nat -> Nat] : PowersTo(n - 1, g)
    BY <2>1
  <2> DEFINE h == [k \in Nat |-> IF k = 0 THEN 1 ELSE 2 * g[k - 1]]
  <2>3. h \in [Nat -> Nat]
    OBVIOUS
  <2>4. \A k \in 0..(n - 1) : h[k] = g[k]
    BY <2>2 DEF PowersTo
  <2>5. PowersTo(n, h)
    BY <2>1, <2>4 DEF PowersTo
  <2> QED
    BY <2>3, <2>5
<1> QED
  BY <1>2, <1>3

LEMMA PowersAgree ==
  ASSUME NEW n \in Nat, NEW g, NEW h, PowersTo(n, g), PowersTo(n, h)
  PROVE  \A k \in 0..n : g[k] = h[k]
<1> DEFINE C == {k \in 0..n : g[k] # h[k]}
<1> SUFFICES ASSUME C # {} PROVE FALSE
  OBVIOUS
<1>1. PICK k \in C : \A j \in C : ~(j < k)
  <2>1. C \in SUBSET Nat
    OBVIOUS
  <2> QED
    BY <2>1, LeastNumber
<1>2. CASE k = 0
  BY <1>2 DEF PowersTo
<1>3. CASE k # 0
  <2>1. k - 1 \in 0..n /\ k - 1 \notin C
    BY <1>1, <1>3
  <2> QED
    BY <1>3, <2>1 DEF PowersTo
<1> QED
  BY <1>2, <1>3

LEMMA TwoToType == \A n \in Nat : TwoTo[n] \in Nat
<1> DEFINE f == [n \in Nat |-> (CHOOSE g \in [Nat -> Nat] : PowersTo(n, g))[n]]
           Is(g) == g = [n \in Nat |-> IF n = 0 THEN 1 ELSE 2 * g[n - 1]]
<1>1. \A n \in Nat : /\ (CHOOSE g \in [Nat -> Nat] : PowersTo(n, g)) \in [Nat -> Nat]
                     /\ PowersTo(n, CHOOSE g \in [Nat -> Nat] : PowersTo(n, g))
  BY PowersExist
<1>2. f \in [Nat -> Nat]
  BY <1>1
<1>3. ASSUME NEW n \in Nat PROVE f[n] = IF n = 0 THEN 1 ELSE 2 * f[n - 1]
  <2> DEFINE g == CHOOSE g0 \in [Nat -> Nat] : PowersTo(n, g0)
             h == CHOOSE g0 \in [Nat -> Nat] : PowersTo(n - 1, g0)
  <2>1. PowersTo(n, g) /\ f[n] = g[n]
    BY <1>1
  <2>2. CASE n = 0
    BY <2>1, <2>2 DEF PowersTo
  <2>3. CASE n # 0
    <3>1. n - 1 \in Nat /\ n - 1 \in 0..(n - 1)
      BY <2>3
    <3>2. PowersTo(n - 1, h) /\ f[n - 1] = h[n - 1]
      BY <1>1, <3>1
    <3> HIDE DEF f, g, h
    <3>3. PowersTo(n - 1, g)
      BY <2>1 DEF PowersTo
    <3>4. g[n - 1] = h[n - 1]
      BY <3>1, <3>2, <3>3, PowersAgree
    <3>5. g[n] = 2 * g[n - 1]
      BY <2>1, <2>3 DEF PowersTo
    <3> QED
      BY <2>1, <2>3, <3>2, <3>4, <3>5
  <2> QED
    BY <2>2, <2>3
<1> HIDE DEF f
<1>4. Is(f)
  BY <1>2, <1>3
<1>5. Is(TwoTo)
  <2>1. TwoTo = CHOOSE g : Is(g)
    BY DEF TwoTo
  <2> HIDE DEF Is
  <2> QED
    BY <1>4, <2>1
<1>6. \A n \in Nat : TwoTo[n] = IF n = 0 THEN 1 ELSE 2 * TwoTo[n - 1]
  BY <1>5
<1> HIDE DEF Is
<1> DEFINE C == {n \in Nat : TwoTo[n] \notin Nat}
<1> SUFFICES ASSUME C # {} PROVE FALSE
  OBVIOUS
<1>7. PICK k \in C : \A j \in C : ~(j < k)
  BY LeastNumber
<1>8. CASE k = 0
  BY <1>6, <1>8
<1>9. CASE k # 0
  <2>1. k - 1 \in Nat /\ k - 1 \notin C
    BY <1>7, <1>9
  <2> QED
    BY <2>1, <1>6, <1>9
<1> QED
  BY <1>8, <1>9

-----------------------------------------------------------------------------
\* Sums over a finite set, which add the values of one member after the other.
First(s) == CHOOSE x \in s : TRUE
SumIs(f, g, s) == g[s] = IF s = {} THEN 0 ELSE f[First(s)] + g[s \ {First(s)}]
Sums(f, S) ==
  CHOOSE g : g = [s \in SUBSET S |-> IF s = {} THEN 0 ELSE f[First(s)] + g[s \ {First(s)}]]

LEMMA SumsExist ==
  ASSUME NEW S, IsFiniteSet(S), NEW f \in [S -> Nat], NEW n \in Nat
  PROVE  \E g \in [SUBSET S -> Nat] : \A s \in SUBSET S : Cardinality(s) <= n => SumIs(f, g, s)
<1> DEFINE To(m, g) == \A s \in SUBSET S : Cardinality(s) <= m => SumIs(f, g, s)
           C == {m \in Nat : ~\E g \in [SUBSET S -> Nat] : To(m, g)}
<1> SUFFICES ASSUME C # {} PROVE FALSE
  OBVIOUS
<1> HIDE DEF To
<1>0. C \in SUBSET Nat
  OBVIOUS
<1>1. PICK m \in C : \A k \in C : ~(k < m)
  BY <1>0, LeastNumber
<1>m. m \in Nat
  BY <1>0
<1>2. \A s \in SUBSET S : s # {} => First(s) \in s
  BY DEF First
<1>3. \A s \in SUBSET S : /\ Cardinality(s) \in Nat /\ (Cardinality(s) = 0 <=> s = {})
                          /\ s # {} => Cardinality(s \ {First(s)}) = Cardinality(s) - 1
  BY <1>2, FS_Subset, FS_CardinalityType, FS_EmptySet, FS_RemoveElement
<1>4. CASE m = 0
  <2> DEFINE g == [s \in SUBSET S |-> 0]
  <2>1. g \in [SUBSET S -> Nat] /\ g[{}] = 0
    OBVIOUS
  <2>2. ASSUME NEW s \in SUBSET S, Cardinality(s) <= 0 PROVE s = {}
    <3>1. Cardinality(s) \in Nat /\ (Cardinality(s) = 0 <=> s = {})
      BY <1>3
    <3> QED
      BY <3>1, <2>2
  <2> HIDE DEF g
  <2>3. To(0, g)
    BY <2>1, <2>2 DEF SumIs, To
  <2> QED
    BY <1>4, <2>1, <2>3
<1>5. CASE m # 0
  <2>1. m - 1 \in Nat /\ m - 1 \notin C
    <3>1. m - 1 \in Nat /\ m - 1 < m
      BY <1>m, <1>5
    <3> QED
      BY <1>1, <3>1
  <2>2. PICK g \in [SUBSET S -> Nat] : To(m - 1, g)
    BY <2>1
  <2> DEFINE h == [s \in SUBSET S |-> IF s = {} THEN 0 ELSE f[First(s)] + g[s \ {First(s)}]]
  <2>3. h \in [SUBSET S -> Nat]
    BY <1>2
  <2>4. \A s \in SUBSET S : Cardinality(s) <= m - 1 => h[s] = g[s]
    BY <2>2 DEF SumIs, To
  <2>5. \A s \in SUBSET S : s # {} /\ Cardinality(s) <= m => h[s \ {First(s)}] = g[s \ {First(s)}]
    <3> SUFFICES ASSUME NEW s \in SUBSET S, s # {}, Cardinality(s) <= m
                 PROVE  h[s \ {First(s)}] = g[s \ {First(s)}]
      OBVIOUS
    <3>1. Cardinality(s \ {First(s)}) <= m - 1 /\ s \ {First(s)} \in SUBSET S
      BY <1>3, <1>m
    <3> HIDE DEF h
    <3> QED
      BY <3>1, <2>4
  <2>6. \A s \in SUBSET S : h[s] = IF s = {} THEN 0 ELSE f[First(s)] + g[s \ {First(s)}]
    OBVIOUS
  <2> HIDE DEF h
  <2>7. To(m, h)
    BY <2>5, <2>6 DEF SumIs, To
  <2> QED
    BY <2>3, <2>7
<1> QED
  BY <1>4, <1>5 DEF To

LEMMA SumsType ==
  ASSUME NEW S, IsFiniteSet(S), NEW f \in [S -> Nat]
  PROVE  /\ Sums(f, S) \in [SUBSET S -> Nat]
         /\ \A s \in SUBSET S : SumIs(f, Sums(f, S), s)
<1> DEFINE Is(g) == g = [s \in SUBSET S |-> IF s = {} THEN 0 ELSE f[First(s)] + g[s \ {First(s)}]]
           n == Cardinality(S)
<1>1. \A s \in SUBSET S : s # {} => First(s) \in s
  BY DEF First
<1>2. n \in Nat /\ \A s \in SUBSET S : Cardinality(s) <= n
  BY FS_Subset, FS_CardinalityType
<1> HIDE DEF n
<1>3. PICK g \in [SUBSET S -> Nat] : \A s \in SUBSET S : SumIs(f, g, s)
  BY <1>2, SumsExist
<1>4. Is(g)
  BY <1>3 DEF SumIs
<1>5. Is(Sums(f, S))
  <2>1. Sums(f, S) = CHOOSE h : Is(h)
    BY DEF Sums
  <2> HIDE DEF Is
  <2> QED
    BY <1>4, <2>1
<1> DEFINE h == Sums(f, S)
<1>6. h = [s \in SUBSET S |-> IF s = {} THEN 0 ELSE f[First(s)] + h[s \ {First(s)}]]
  BY <1>5
<1> HIDE DEF h
<1>7. \A s \in SUBSET S : SumIs(f, h, s)
  BY <1>6 DEF SumIs
<1> DEFINE C == {s \in SUBSET S : h[s] # g[s]}
<1>8. C = {}
  <2> SUFFICES ASSUME C # {} PROVE FALSE
    OBVIOUS
  <2>1. PICK s \in C : \A t \in C : t \subseteq s => t = s
    <3>1. C \in SUBSET SUBSET S /\ C # {}
      OBVIOUS
    <3> HIDE DEF C
    <3> QED
      BY <3>1, LeastSubset
  <2>2. CASE s = {}
    BY <2>2, <1>3, <1>7 DEF SumIs
  <2>3. CASE s # {}
    <3>1. s \ {First(s)} \in SUBSET S /\ s \ {First(s)} \notin C
      BY <2>1, <2>3, <1>1
    <3> QED
      BY <2>3, <3>1, <1>3, <1>7 DEF SumIs
  <2> QED
    BY <2>2, <2>3
<1>9. h \in [SUBSET S -> Nat]
  BY <1>6, <1>8
<1> QED
  BY <1>7, <1>9 DEF h

LEMMA SumFunctionIs == ASSUME NEW f PROVE SumFunction(f) = Sums(f, DOMAIN f)[DOMAIN f]
BY DEF SumFunction, SumFunctionOnSet, FoldFunctionOnSet, MapThenFoldSet, Sums, First

\* A sum is a natural number, and is no less if no summand is.
LEMMA SumType ==
  ASSUME NEW S, IsFiniteSet(S), NEW f \in [S -> Nat]
  PROVE  SumFunction(f) \in Nat
<1>1. SumFunction(f) = Sums(f, S)[S]
  BY SumFunctionIs
<1>2. Sums(f, S) \in [SUBSET S -> Nat]
  BY SumsType
<1> QED
  BY <1>1, <1>2

LEMMA SumGrows ==
  ASSUME NEW S, IsFiniteSet(S), NEW f \in [S -> Nat], NEW g \in [S -> Nat],
         \A x \in S : f[x] <= g[x]
  PROVE  SumFunction(f) <= SumFunction(g)
<1> DEFINE F == Sums(f, S)
           G == Sums(g, S)
<1>1. \A s \in SUBSET S : s # {} => First(s) \in s
  BY DEF First
<1>2. /\ F \in [SUBSET S -> Nat] /\ G \in [SUBSET S -> Nat]
      /\ \A s \in SUBSET S : SumIs(f, F, s) /\ SumIs(g, G, s)
  BY SumsType
<1>3. SumFunction(f) = F[S] /\ SumFunction(g) = G[S]
  BY SumFunctionIs
<1> HIDE DEF F, G
<1> DEFINE C == {s \in SUBSET S : ~(F[s] <= G[s])}
<1>4. C = {}
  <2> SUFFICES ASSUME C # {} PROVE FALSE
    OBVIOUS
  <2>1. PICK s \in C : \A t \in C : t \subseteq s => t = s
    <3>1. C \in SUBSET SUBSET S /\ C # {}
      OBVIOUS
    <3> HIDE DEF C
    <3> QED
      BY <3>1, LeastSubset
  <2>2. CASE s = {}
    <3>1. F[s] = 0 /\ G[s] = 0
      BY <2>2, <1>2 DEF SumIs
    <3> QED
      BY <3>1, <2>1
  <2>3. CASE s # {}
    <3>1. s \ {First(s)} \in SUBSET S /\ s \ {First(s)} \notin C /\ First(s) \in S
      BY <2>1, <2>3, <1>1
    <3>2. F[s] = f[First(s)] + F[s \ {First(s)}] /\ G[s] = g[First(s)] + G[s \ {First(s)}]
      BY <2>3, <1>2 DEF SumIs
    <3> QED
      BY <3>1, <3>2, <1>2
  <2> QED
    BY <2>2, <2>3
<1> QED
  BY <1>3, <1>4

-----------------------------------------------------------------------------
\* The scores, of any finite number of rows that have ended.
EndedRows == [is : {"ok", "bad"}, host : RatedHosts, start : 0..MaxRatingClock, end : 0..MaxRatingClock]
Rows(ms) ==
  /\ IsFiniteSet(DOMAIN ms) /\ ms \in [DOMAIN ms -> EndedRows]
  /\ \A d \in DOMAIN ms : ms[d].start <= ms[d].end
OnClock == ratingClock \in 0..MaxRatingClock

LEMMA DecayType == ASSUME OnClock, NEW m, m.start \in 0..MaxRatingClock PROVE Decay(m) \in Nat
<1>1. MaxRatingClock - (ratingClock - m.start) \in Nat
  BY RatingsAssumption DEF OnClock
<1> QED
  BY <1>1, TwoToType DEF Decay

LEMMA RowTypes ==
  ASSUME OnClock, NEW ms, Rows(ms), NEW d \in DOMAIN ms
  PROVE  /\ Decay(ms[d]) \in Nat /\ Took(ms[d]) \in Nat
         /\ Successes(ms[d]) \in Nat /\ Successes(ms[d]) <= Decay(ms[d])
<1>1. ms[d] \in EndedRows /\ ms[d].start <= ms[d].end
  BY DEF Rows
<1>2. /\ ms[d].start \in 0..MaxRatingClock /\ ms[d].end \in 0..MaxRatingClock
  BY <1>1 DEF EndedRows
<1>3. Decay(ms[d]) \in Nat
  BY <1>2, DecayType
<1>4. Took(ms[d]) \in Nat
  BY <1>1, <1>2, RatingsAssumption DEF Took
<1> QED
  BY <1>3, <1>4 DEF Successes

LEMMA GoodOfTotal ==
  ASSUME OnClock, NEW ms, Rows(ms)
  PROVE  Total(ms) \in Nat /\ Good(ms) \in 0..Total(ms)
<1> DEFINE D == DOMAIN ms
           total == [d \in D |-> Decay(ms[d])]
           good == [d \in D |-> Successes(ms[d])]
<1>1. /\ total \in [D -> Nat] /\ good \in [D -> Nat] /\ \A d \in D : good[d] <= total[d]
  BY RowTypes
<1>2. Total(ms) = SumFunction(total) /\ Good(ms) = SumFunction(good)
  BY DEF Total, Good, Weigh
<1>3. IsFiniteSet(D)
  BY DEF Rows
<1> HIDE DEF D, total, good
<1>4. SumFunction(total) \in Nat /\ SumFunction(good) \in Nat /\ SumFunction(good) <= SumFunction(total)
  BY <1>1, <1>3, SumType, SumGrows
<1> QED
  BY <1>2, <1>4

\* A share: it lies between none and all.
IsShare(s) == s.of \in Nat /\ s.is \in 0..s.of

LEMMA DurationIsShare == ASSUME OnClock, NEW ms, Rows(ms) PROVE IsShare(Duration(ms))
<1> DEFINE timed == {d \in DOMAIN ms : Took(ms[d]) > 0}
           weigh == [d \in timed |-> TimeoutTicks * Decay(ms[d])]
           ratio == [d \in timed |-> Took(ms[d]) * Decay(ms[d])]
           weights == SumFunction(weigh)
           ratios == SumFunction(ratio)
<1>1. IsFiniteSet(timed)
  BY FS_Subset DEF Rows
<1>2. \A i, j \in Nat : i * j \in Nat
  OBVIOUS
<1>3. weigh \in [timed -> Nat] /\ ratio \in [timed -> Nat]
  BY <1>2, RowTypes, RatingsAssumption
<1> HIDE DEF weigh, ratio, timed
<1>4. weights \in Nat /\ ratios \in Nat
  BY <1>1, <1>3, SumType
<1> HIDE DEF weights, ratios
<1>5. DurationScore(ratios, weights) \in 0..weights
  BY <1>4 DEF DurationScore
<1>6. Duration(ms) = IF weights = 0 THEN [of |-> 1, is |-> 1]
                     ELSE [of |-> weights, is |-> DurationScore(ratios, weights)]
  BY DEF Duration, weights, ratios, weigh, ratio, timed
<1> QED
  BY <1>4, <1>5, <1>6 DEF IsShare

LEMMA ThroughputIsShare == ASSUME OnClock, NEW ms, Rows(ms) PROVE IsShare(Throughput(ms))
<1> DEFINE took == [d \in DOMAIN ms |-> Took(ms[d])]
           hours == SumFunction(took)
           number == Cardinality({d \in DOMAIN ms : ms[d].is = "ok"})
<1>1. took \in [DOMAIN ms -> Nat] /\ IsFiniteSet(DOMAIN ms)
  BY RowTypes DEF Rows
<1>2. number \in Nat
  BY <1>1, FS_Subset, FS_CardinalityType
<1> HIDE DEF took
<1>3. hours \in Nat
  BY <1>1, SumType
<1>4. Throughput(ms) = IF hours = 0 THEN [of |-> 2, is |-> 0]
        ELSE [of |-> 2 * hours, is |-> IF number > 2 * hours THEN 2 * hours ELSE number]
  BY DEF Throughput, Weigh, took
<1> HIDE DEF hours, number
<1> QED
  BY <1>2, <1>3, <1>4 DEF IsShare

LEMMA ProductsGrow ==
  \A a, b, c, d \in Nat : a <= b /\ c <= d => a * c \in Nat /\ b * d \in Nat /\ a * c <= b * d
OBVIOUS

LEMMA CompositeInRange ==
  ASSUME OnClock, NEW ms, Rows(ms)
  PROVE  LET c == Composite(ms) IN c.of \in Nat /\ c.is \in 0..c.of
<1> DEFINE total == Total(ms)
           good == Good(ms)
           took == Duration(ms)
           done == Throughput(ms)
           all == total * took.of * done.of
           rate == good * took.of * done.of
           pace == total * took.is * done.of
           rest == total * took.of * done.is
<1>1. total \in Nat /\ good \in 0..total /\ IsShare(took) /\ IsShare(done)
  BY GoodOfTotal, DurationIsShare, ThroughputIsShare
<1>2. Composite(ms) = [of |-> 20 * total * took.of * done.of,
        is |-> (7 + 4) * good * took.of * done.of + 5 * total * took.is * done.of
                 + 4 * total * took.of * done.is]
  BY DEF Composite
<1> HIDE DEF total, good, took, done
<1>3. total * took.of \in Nat /\ good * took.of \in 0..(total * took.of)
      /\ total * took.is \in 0..(total * took.of)
  BY <1>1, ProductsGrow DEF IsShare
<1>4. all \in Nat /\ rate \in 0..all /\ pace \in 0..all /\ rest \in 0..all
  BY <1>1, <1>3, ProductsGrow DEF IsShare
<1>5. Composite(ms).of = 20 * all /\ Composite(ms).is = 11 * rate + 5 * pace + 4 * rest
  BY <1>1, <1>2 DEF IsShare
<1> HIDE DEF all, rate, pace, rest
<1> QED
  BY <1>4, <1>5

\* The same rows, one of them a success: nothing changes but what counts successes.
LEMMA SuccessChanges ==
  ASSUME OnClock, NEW ms, Rows(ms), NEW d \in DOMAIN ms, ms[d].is = "bad"
  PROVE  LET now == [ms EXCEPT ![d].is = "ok"] IN
           /\ Rows(now) /\ Total(now) = Total(ms) /\ Good(ms) <= Good(now)
           /\ Duration(now) = Duration(ms)
           /\ Throughput(now).of = Throughput(ms).of /\ Throughput(ms).is <= Throughput(now).is
<1> DEFINE now == [ms EXCEPT ![d].is = "ok"]
           D == DOMAIN ms
<1>1. /\ ms[d] \in EndedRows /\ IsFiniteSet(D)
      /\ now = [ms EXCEPT ![d] = [ms[d] EXCEPT !.is = "ok"]]
  BY DEF Rows, EndedRows
<1>2. /\ DOMAIN now = D /\ now[d].is = "ok"
      /\ \A x \in D : /\ now[x].start = ms[x].start /\ now[x].end = ms[x].end
                      /\ x # d => now[x] = ms[x]
  BY <1>1 DEF EndedRows
<1>3. Rows(now)
  <2>1. [ms[d] EXCEPT !.is = "ok"] \in EndedRows
    BY <1>1 DEF EndedRows
  <2>2. now \in [D -> EndedRows]
    BY <1>1, <2>1 DEF Rows
  <2> QED
    BY <1>1, <1>2, <2>2 DEF Rows
<1> HIDE DEF now
<1>4. \A x \in D : Decay(now[x]) = Decay(ms[x]) /\ Took(now[x]) = Took(ms[x])
  BY <1>2 DEF Decay, Took
<1>5. Total(now) = Total(ms)
  <2>1. [x \in DOMAIN now |-> Decay(now[x])] = [x \in DOMAIN ms |-> Decay(ms[x])]
    BY <1>2, <1>4
  <2> QED
    BY <2>1 DEF Total, Weigh
<1>6. Good(ms) <= Good(now)
  <2> DEFINE was == [x \in D |-> Successes(ms[x])]
             is == [x \in D |-> Successes(now[x])]
  <2>1. was \in [D -> Nat] /\ is \in [D -> Nat]
    BY <1>2, <1>3, RowTypes
  <2>2. \A x \in D : was[x] <= is[x]
    <3>1. \A x \in D : Decay(now[x]) \in Nat /\ Successes(ms[x]) \in Nat
      BY <1>2, <1>3, RowTypes
    <3>2. Successes(ms[d]) = 0
      BY DEF Successes
    <3>3. Successes(now[d]) \in Nat
      BY <1>2, <1>3, RowTypes
    <3> QED
      BY <1>2, <3>1, <3>2, <3>3
  <2>3. Good(ms) = SumFunction(was) /\ Good(now) = SumFunction(is)
    BY <1>2 DEF Good, Weigh
  <2> HIDE DEF was, is
  <2> QED
    BY <1>1, <2>1, <2>2, <2>3, SumGrows
<1>7. Duration(now) = Duration(ms)
  <2>1. {x \in DOMAIN now : Took(now[x]) > 0} = {x \in DOMAIN ms : Took(ms[x]) > 0}
    BY <1>2, <1>4
  <2> DEFINE timed == {x \in DOMAIN ms : Took(ms[x]) > 0}
  <2>2. /\ [x \in timed |-> TimeoutTicks * Decay(now[x])] = [x \in timed |-> TimeoutTicks * Decay(ms[x])]
        /\ [x \in timed |-> Took(now[x]) * Decay(now[x])] = [x \in timed |-> Took(ms[x]) * Decay(ms[x])]
    BY <1>4
  <2> HIDE DEF timed
  <2> QED
    BY <2>1, <2>2 DEF Duration, timed
<1>8. Throughput(now).of = Throughput(ms).of /\ Throughput(ms).is <= Throughput(now).is
  <2> DEFINE hours == SumFunction([x \in D |-> Took(ms[x])])
             before == {x \in D : ms[x].is = "ok"}
             after == {x \in D : now[x].is = "ok"}
  <2>1. [x \in DOMAIN now |-> Took(now[x])] = [x \in D |-> Took(ms[x])]
    BY <1>2, <1>4
  <2>2. before \subseteq after /\ IsFiniteSet(before) /\ IsFiniteSet(after)
    BY <1>1, <1>2, FS_Subset
  <2>3. /\ Cardinality(before) \in Nat /\ Cardinality(after) \in Nat
        /\ Cardinality(before) <= Cardinality(after)
    BY <2>2, FS_Subset, FS_CardinalityType
  <2>4. hours \in Nat
    <3>1. [x \in D |-> Took(ms[x])] \in [D -> Nat]
      BY RowTypes
    <3> QED
      BY <1>1, <3>1, SumType
  <2>5. /\ Throughput(ms) = IF hours = 0 THEN [of |-> 2, is |-> 0]
             ELSE [of |-> 2 * hours, is |-> IF Cardinality(before) > 2 * hours THEN 2 * hours
                                            ELSE Cardinality(before)]
        /\ Throughput(now) = IF hours = 0 THEN [of |-> 2, is |-> 0]
             ELSE [of |-> 2 * hours, is |-> IF Cardinality(after) > 2 * hours THEN 2 * hours
                                            ELSE Cardinality(after)]
    BY <1>2, <2>1 DEF Throughput, Weigh
  <2> HIDE DEF hours, before, after
  <2> QED
    BY <2>3, <2>4, <2>5
<1> QED
  BY <1>3, <1>5, <1>6, <1>7, <1>8 DEF now

LEMMA SuccessRaisesRank ==
  ASSUME OnClock, NEW ms, Rows(ms), NEW d \in DOMAIN ms, ms[d].is = "bad"
  PROVE  LET was == Rank(ms)
             were == Rank([ms EXCEPT ![d].is = "ok"])
         IN  were.of = was.of /\ was.is <= were.is
<1> DEFINE now == [ms EXCEPT ![d].is = "ok"]
           total == Total(ms)
           took == Duration(ms)
           done == Throughput(ms)
           more == Throughput(now)
           c == Composite(ms)
           e == Composite(now)
<1>1. /\ Rows(now) /\ Total(now) = total /\ Good(ms) <= Good(now) /\ Duration(now) = took
      /\ more.of = done.of /\ done.is <= more.is
  BY SuccessChanges
<1>2. /\ total \in Nat /\ Good(ms) \in 0..total /\ Good(now) \in 0..total
      /\ IsShare(took) /\ IsShare(done) /\ IsShare(more)
  BY <1>1, GoodOfTotal, DurationIsShare, ThroughputIsShare
<1> HIDE DEF now, took, done, more, total
<1>3. Availability(ms) \in Nat /\ Availability(now) \in Nat /\ Availability(ms) <= Availability(now)
  BY <1>1, <1>2 DEF Availability, total
<1>4. /\ c.of = 20 * total * took.of * done.of
      /\ c.is = (7 + 4) * Good(ms) * took.of * done.of + 5 * total * took.is * done.of
                 + 4 * total * took.of * done.is
      /\ e.of = 20 * total * took.of * done.of
      /\ e.is = (7 + 4) * Good(now) * took.of * done.of + 5 * total * took.is * done.of
                 + 4 * total * took.of * more.is
  BY <1>1 DEF Composite, total, took, done, more
<1>5. c.of \in Nat /\ c.is \in Nat /\ e.is \in Nat
  BY <1>1, CompositeInRange
<1>6. c.is <= e.is
  <2>1. /\ total * took.of \in Nat /\ Good(ms) * took.of \in Nat /\ Good(now) * took.of \in Nat
        /\ Good(ms) * took.of <= Good(now) * took.of /\ total * took.is \in Nat
    <3>1. /\ total \in Nat /\ took.of \in Nat /\ took.is \in Nat
          /\ Good(ms) \in Nat /\ Good(now) \in Nat /\ Good(ms) <= Good(now)
      BY <1>1, <1>2 DEF IsShare
    <3> QED
      BY <3>1, ProductsGrow
  <2>2. /\ Good(ms) * took.of * done.of \in Nat /\ Good(now) * took.of * done.of \in Nat
        /\ Good(ms) * took.of * done.of <= Good(now) * took.of * done.of
        /\ total * took.is * done.of \in Nat
        /\ total * took.of * done.is \in Nat /\ total * took.of * more.is \in Nat
        /\ total * took.of * done.is <= total * took.of * more.is
    BY <1>1, <1>2, <2>1, ProductsGrow DEF IsShare
  <2>3. /\ c.is = 11 * (Good(ms) * took.of * done.of) + 5 * (total * took.is * done.of)
                   + 4 * (total * took.of * done.is)
        /\ e.is = 11 * (Good(now) * took.of * done.of) + 5 * (total * took.is * done.of)
                   + 4 * (total * took.of * more.is)
    BY <1>2, <1>4 DEF IsShare
  <2> QED
    BY <2>2, <2>3
<1> HIDE DEF c, e
<1>7. /\ Rank(ms) = [of |-> 200 * c.of, is |-> 70 * c.is + 5 * Availability(ms) * c.of]
      /\ Rank(now) = [of |-> 200 * e.of, is |-> 70 * e.is + 5 * Availability(now) * e.of]
  BY DEF Rank, c, e
<1>8. Rank(now).of = Rank(ms).of /\ Rank(ms).is <= Rank(now).is
  <2>1. /\ Availability(ms) * c.of \in Nat /\ Availability(now) * c.of \in Nat
        /\ Availability(ms) * c.of <= Availability(now) * c.of
    BY <1>3, <1>5, ProductsGrow
  <2>2. /\ 5 * Availability(ms) * c.of = 5 * (Availability(ms) * c.of)
        /\ 5 * Availability(now) * c.of = 5 * (Availability(now) * c.of)
    BY <1>3, <1>5
  <2>3. e.of = c.of
    BY <1>4
  <2> QED
    BY <1>5, <1>6, <1>7, <2>1, <2>2, <2>3
<1> QED
  BY <1>8 DEF now

-----------------------------------------------------------------------------
\* The ratings.  What was saved, or read and not saved yet, misses only what ended
\* in the tick of the reading or later.
Knows(known, ended, ends, time) == \A d \in ended : ends[d].end < time => d \in known
RatingInv ==
  /\ RatingsTypeOK
  /\ \A h \in RatedHosts : rating[h].is =>
       rating[h].at <= ratingClock /\ Knows(rating[h].known, Ended(h), metric, rating[h].at)
  /\ \A p \in Raters, h \in RatedHosts : rater[p].at \in {"read", "answered"} /\ rater[p].host = h =>
       Knows(rater[p].known, Ended(h), metric, ratingClock)

LEMMA RatingsSay == RatingInv => RatingsCurrent
BY DEF RatingInv, RatingsTypeOK, RatingsCurrent, Knows

LEMMA RatingsStart == RatingsInit => RatingInv
<1> SUFFICES ASSUME RatingsInit PROVE RatingInv
  OBVIOUS
<1>1. /\ NoMetric.host \in RatedHosts
      /\ NoMetric \in [is : {"none"}, host : RatedHosts, start : {0}, end : {0}]
  BY RatingsAssumption DEF NoMetric
<1>2. 0 \in 0..MaxRatingClock
  BY RatingsAssumption
<1> QED
  BY <1>1, <1>2 DEF RatingsInit, RatingInv, RatingsTypeOK, RaterIdle, NoRating, Ended

LEMMA RatingsKept == RatingInv /\ [RatingsNext]_ratingVars => RatingInv'
<1> SUFFICES ASSUME RatingInv, [RatingsNext]_ratingVars PROVE RatingInv'
  OBVIOUS
<1> DEFINE Metrics == [is : {"none", "open", "ok", "bad"}, host : RatedHosts,
                       start : 0..MaxRatingClock, end : 0..MaxRatingClock]
           RaterRecords == [at : {"idle", "stale", "read", "answered"}, host : RatedHosts,
                            known : SUBSET Dispatches]
           Ratings == [is : BOOLEAN, known : SUBSET Dispatches, at : 0..MaxRatingClock]
<1>n. MaxRatingClock \in Nat /\ ratingClock \in 0..MaxRatingClock
  BY RatingsAssumption DEF RatingInv, RatingsTypeOK
<1>t. /\ metric \in [Dispatches -> Metrics] /\ rating \in [RatedHosts -> Ratings]
      /\ rater \in [Raters -> RaterRecords]
  BY DEF RatingInv, RatingsTypeOK
<1>o. /\ \A h \in RatedHosts : rating[h].is =>
           rating[h].at <= ratingClock /\ Knows(rating[h].known, Ended(h), metric, rating[h].at)
      /\ \A p \in Raters, h \in RatedHosts : rater[p].at \in {"read", "answered"} /\ rater[p].host = h =>
           Knows(rater[p].known, Ended(h), metric, ratingClock)
  BY DEF RatingInv
\* A step that leaves the metrics is right if what it makes the raters and rows know is.
<1>g. ASSUME UNCHANGED metric, ratingClock' = ratingClock \/ UNCHANGED <<rating, rater>>,
             rating' \in [RatedHosts -> Ratings], rater' \in [Raters -> RaterRecords],
             ratingClock' \in 0..MaxRatingClock,
             \A h \in RatedHosts : rating'[h].is =>
               rating'[h].at <= ratingClock' /\ Knows(rating'[h].known, Ended(h), metric, rating'[h].at),
             \A p \in Raters, h \in RatedHosts :
               rater'[p].at \in {"read", "answered"} /\ rater'[p].host = h =>
                 Knows(rater'[p].known, Ended(h), metric, ratingClock')
      PROVE  RatingInv'
  <2>1. \A h \in RatedHosts : Ended(h)' = Ended(h)
    BY <1>g DEF Ended
  <2> QED
    BY <1>g, <1>t, <2>1 DEF RatingInv, RatingsTypeOK
<1>1. CASE UNCHANGED ratingVars
  BY <1>1, <1>g, <1>o, <1>n, <1>t DEF ratingVars
<1>2. ASSUME NEW d \in Dispatches, NEW h \in RatedHosts, RecordStart(d, h) PROVE RatingInv'
  <2>1. /\ metric' = [metric EXCEPT ![d] = [is |-> "open", host |-> h, start |-> ratingClock, end |-> 0]]
        /\ UNCHANGED <<ratingClock, rating, rater>> /\ metric[d].is = "none"
    BY <1>2 DEF RecordStart
  <2>2. metric' \in [Dispatches -> Metrics]
    <3>1. [is |-> "open", host |-> h, start |-> ratingClock, end |-> 0] \in Metrics
      BY <1>n
    <3> QED
      BY <2>1, <3>1, <1>t
  <2>3. \A g \in RatedHosts : Ended(g)' = Ended(g) /\ \A e \in Ended(g) : metric'[e] = metric[e]
    BY <2>1, <1>t DEF Ended
  <2>4. \A g \in RatedHosts : \A known, time :
          Knows(known, Ended(g), metric, time) => Knows(known, Ended(g)', metric', time)
    BY <2>3 DEF Knows
  <2>5. RatingsTypeOK'
    BY <2>1, <2>2 DEF RatingInv, RatingsTypeOK
  <2> QED
    BY <2>1, <2>4, <2>5, <1>o DEF RatingInv
<1>3. ASSUME NEW d \in Dispatches, RecordEnd(d) PROVE RatingInv'
  <2>1. PICK how \in {"ok", "bad"} : metric' = [metric EXCEPT ![d].is = how, ![d].end = ratingClock]
    BY <1>3 DEF RecordEnd
  <2>2. UNCHANGED <<ratingClock, rating, rater>> /\ metric[d].is = "open"
    BY <1>3 DEF RecordEnd
  <2> DEFINE ended == [metric[d] EXCEPT !.is = how, !.end = ratingClock]
  <2>3. metric' = [metric EXCEPT ![d] = ended]
    BY <2>1, <1>t
  <2>4. ended \in Metrics /\ ended.end = ratingClock
    <3>1. metric[d] \in Metrics
      BY <1>t
    <3> QED
      BY <3>1, <1>n
  <2> HIDE DEF ended
  <2>5. metric' \in [Dispatches -> Metrics]
    BY <2>3, <2>4, <1>t
  <2>6. metric'[d].end = ratingClock /\ \A e \in Dispatches \ {d} : metric'[e] = metric[e]
    BY <2>3, <2>4, <1>t
  <2>7. \A g \in RatedHosts, time \in 0..ratingClock : \A known :
          Knows(known, Ended(g), metric, time) => Knows(known, Ended(g)', metric', time)
    <3>1. \A time \in 0..ratingClock : ~(ratingClock < time)
      BY <1>n
    <3> QED
      BY <2>6, <3>1 DEF Knows, Ended
  <2>8. RatingsTypeOK'
    BY <2>2, <2>5 DEF RatingInv, RatingsTypeOK
  <2>9. ratingClock \in 0..ratingClock /\ \A g \in RatedHosts : rating[g].is => rating[g].at \in 0..ratingClock
    BY <1>t, <1>o, <1>n
  <2> QED
    BY <2>2, <2>7, <2>8, <2>9, <1>o DEF RatingInv
<1>4. ASSUME NEW p \in Raters, NEW h \in RatedHosts, AskRating(p, h) PROVE RatingInv'
  <2>1. UNCHANGED <<ratingClock, metric, rating>>
    BY <1>4 DEF AskRating
  <2>2. \/ /\ rating[h].is /\ rating[h].at = ratingClock
           /\ rater' = [rater EXCEPT ![p] = [at |-> "answered", host |-> h, known |-> rating[h].known]]
        \/ rater' = [rater EXCEPT ![p] = [at |-> "stale", host |-> h, known |-> {}]]
    BY <1>4 DEF AskRating
  <2>3. rater' \in [Raters -> RaterRecords]
    <3>1. rating[h].known \in SUBSET Dispatches
      BY <1>t
    <3> QED
      BY <2>2, <3>1, <1>t
  <2>4. \A q \in Raters, g \in RatedHosts :
          rater'[q].at \in {"read", "answered"} /\ rater'[q].host = g =>
            Knows(rater'[q].known, Ended(g), metric, ratingClock)
    <3>1. \A q \in Raters \ {p} : rater'[q] = rater[q]
      BY <2>2, <1>t
    <3>2. \/ rater'[p].at \notin {"answered", "read"}
          \/ /\ rater'[p].host = h /\ rater'[p].known = rating[h].known
             /\ rating[h].is /\ rating[h].at = ratingClock
      BY <2>2, <1>t
    <3> QED
      BY <3>1, <3>2, <1>o
  <2> QED
    BY <2>1, <2>3, <2>4, <1>g, <1>o, <1>t, <1>n
<1>5. ASSUME NEW p \in Raters, ComputeReads(p) PROVE RatingInv'
  <2>1. /\ UNCHANGED <<ratingClock, metric, rating>> /\ rater[p] \in RaterRecords
        /\ rater' = [rater EXCEPT ![p].at = "read", ![p].known = Ended(rater[p].host)]
    BY <1>5, <1>t DEF ComputeReads
  <2>2. \A g \in RatedHosts : Ended(g) \in SUBSET Dispatches /\ Knows(Ended(g), Ended(g), metric, ratingClock)
    BY DEF Ended, Knows
  <2>3. /\ rater'[p].at = "read" /\ rater'[p].host = rater[p].host
        /\ rater'[p].known = Ended(rater[p].host)
        /\ \A q \in Raters \ {p} : rater'[q] = rater[q]
    BY <2>1, <1>t
  <2>4. rater' \in [Raters -> RaterRecords]
    <3>1. [rater[p] EXCEPT !.at = "read", !.known = Ended(rater[p].host)] \in RaterRecords
      BY <2>1, <2>2
    <3>2. rater' = [rater EXCEPT ![p] = [rater[p] EXCEPT !.at = "read", !.known = Ended(rater[p].host)]]
      BY <2>1, <1>t
    <3> QED
      BY <3>1, <3>2, <1>t
  <2>5. \A q \in Raters, g \in RatedHosts :
          rater'[q].at \in {"read", "answered"} /\ rater'[q].host = g =>
            Knows(rater'[q].known, Ended(g), metric, ratingClock)
    <3>1. \A g \in RatedHosts : rater'[p].host = g => Knows(rater'[p].known, Ended(g), metric, ratingClock)
      BY <2>2, <2>3
    <3> QED
      BY <2>3, <3>1, <1>o
  <2> QED
    BY <2>1, <2>4, <2>5, <1>g, <1>o, <1>t, <1>n
<1>6. ASSUME NEW p \in Raters, SaveRating(p) PROVE RatingInv'
  <2>1. /\ UNCHANGED <<ratingClock, metric>> /\ rater[p].at = "read"
        /\ rating' = [rating EXCEPT ![rater[p].host] =
             [is |-> TRUE, known |-> rater[p].known, at |-> ratingClock]]
        /\ rater' = [rater EXCEPT ![p].at = "answered"]
    BY <1>6 DEF SaveRating
  <2>2. /\ rater[p].host \in RatedHosts /\ rater[p].known \in SUBSET Dispatches
        /\ Knows(rater[p].known, Ended(rater[p].host), metric, ratingClock)
    BY <2>1, <1>o, <1>t
  <2>3. rater' \in [Raters -> RaterRecords] /\ rating' \in [RatedHosts -> Ratings]
    BY <2>1, <2>2, <1>t, <1>n
  <2>4. \A q \in Raters, g \in RatedHosts :
          rater'[q].at \in {"read", "answered"} /\ rater'[q].host = g =>
            Knows(rater'[q].known, Ended(g), metric, ratingClock)
    BY <2>1, <1>o, <1>t
  <2>5. \A g \in RatedHosts : rating'[g].is =>
          rating'[g].at <= ratingClock /\ Knows(rating'[g].known, Ended(g), metric, rating'[g].at)
    BY <2>1, <2>2, <1>o, <1>t, <1>n
  <2> QED
    BY <2>1, <2>3, <2>4, <2>5, <1>g, <1>n
<1>7. ASSUME NEW p \in Raters, RatingUsed(p) PROVE RatingInv'
  <2>1. UNCHANGED <<ratingClock, metric, rating>> /\ rater' = [rater EXCEPT ![p] = RaterIdle]
    BY <1>7 DEF RatingUsed
  <2>2. RaterIdle \in RaterRecords /\ RaterIdle.at = "idle"
    <3>1. NoMetric.host \in RatedHosts
      BY RatingsAssumption DEF NoMetric
    <3> QED
      BY <3>1 DEF RaterIdle
  <2>3. rater' \in [Raters -> RaterRecords]
    BY <2>1, <2>2, <1>t
  <2>4. \A q \in Raters, g \in RatedHosts :
          rater'[q].at \in {"read", "answered"} /\ rater'[q].host = g =>
            Knows(rater'[q].known, Ended(g), metric, ratingClock)
    BY <2>1, <2>2, <1>o, <1>t
  <2> QED
    BY <2>1, <2>3, <2>4, <1>g, <1>o, <1>t, <1>n
<1>8. CASE RatingTick
  <2>1. /\ UNCHANGED <<metric, rating, rater>> /\ ratingClock' = ratingClock + 1
        /\ ratingClock' \in 0..MaxRatingClock /\ \A p \in Raters : rater[p].at = "idle"
    BY <1>8, <1>n DEF RatingTick
  <2>2. \A h \in RatedHosts : rating[h].is => rating[h].at <= ratingClock'
    BY <2>1, <1>o, <1>t, <1>n
  <2> QED
    BY <2>1, <2>2, <1>g, <1>o, <1>t
<1> QED
  BY <1>1, <1>2, <1>3, <1>4, <1>5, <1>6, <1>7, <1>8 DEF RatingsNext

\* Dispatches end after they started, and only finitely many have been recorded.
Recorded == {d \in Dispatches : metric[d].is # "none"}
TimesInv ==
  /\ RatingsTypeOK /\ IsFiniteSet(Recorded)
  /\ \A d \in Dispatches : /\ metric[d].start <= ratingClock
                           /\ metric[d].is \in {"ok", "bad"} => metric[d].start <= metric[d].end

LEMMA TimesStart == RatingsInit => TimesInv
<1> SUFFICES ASSUME RatingsInit PROVE TimesInv
  OBVIOUS
<1>1. RatingsTypeOK
  BY RatingsStart DEF RatingInv
<1>2. Recorded = {} /\ \A d \in Dispatches : metric[d].start = 0 /\ metric[d].is = "none"
  BY DEF RatingsInit, Recorded, NoMetric
<1>3. ratingClock = 0
  BY DEF RatingsInit
<1> QED
  BY <1>1, <1>2, <1>3, FS_EmptySet DEF TimesInv

LEMMA TimesKept == TimesInv /\ RatingsTypeOK' /\ [RatingsNext]_ratingVars => TimesInv'
<1> SUFFICES ASSUME TimesInv, RatingsTypeOK', [RatingsNext]_ratingVars PROVE TimesInv'
  OBVIOUS
<1>t. /\ metric \in [Dispatches -> [is : {"none", "open", "ok", "bad"}, host : RatedHosts,
                                    start : 0..MaxRatingClock, end : 0..MaxRatingClock]]
      /\ ratingClock \in 0..MaxRatingClock /\ MaxRatingClock \in Nat
  BY RatingsAssumption DEF TimesInv, RatingsTypeOK
<1>i. /\ IsFiniteSet(Recorded)
      /\ \A d \in Dispatches : /\ metric[d].start <= ratingClock
                               /\ metric[d].is \in {"ok", "bad"} => metric[d].start <= metric[d].end
  BY DEF TimesInv
<1>1. ASSUME UNCHANGED metric, ratingClock' \in 0..MaxRatingClock, ratingClock <= ratingClock'
      PROVE  TimesInv'
  <2>1. Recorded' = Recorded
    BY <1>1 DEF Recorded
  <2>2. \A d \in Dispatches : metric[d].start <= ratingClock'
    BY <1>1, <1>t, <1>i
  <2> QED
    BY <1>1, <2>1, <2>2, <1>i DEF TimesInv
<1>2. ASSUME NEW d \in Dispatches, NEW h \in RatedHosts, RecordStart(d, h) PROVE TimesInv'
  <2>1. /\ metric' = [metric EXCEPT ![d] = [is |-> "open", host |-> h, start |-> ratingClock, end |-> 0]]
        /\ ratingClock' = ratingClock
    BY <1>2 DEF RecordStart
  <2>2. /\ metric'[d].is = "open" /\ metric'[d].start = ratingClock
        /\ \A e \in Dispatches \ {d} : metric'[e] = metric[e]
    BY <2>1, <1>t
  <2>3. Recorded' = Recorded \union {d}
    BY <2>2 DEF Recorded
  <2>4. IsFiniteSet(Recorded')
    BY <2>3, <1>i, FS_AddElement
  <2>5. ratingClock <= ratingClock
    BY <1>t
  <2> QED
    BY <2>1, <2>2, <2>4, <2>5, <1>i DEF TimesInv
<1>3. ASSUME NEW d \in Dispatches, RecordEnd(d) PROVE TimesInv'
  <2>1. PICK how \in {"ok", "bad"} : metric' = [metric EXCEPT ![d].is = how, ![d].end = ratingClock]
    BY <1>3 DEF RecordEnd
  <2>2. metric[d].is = "open" /\ ratingClock' = ratingClock
    BY <1>3 DEF RecordEnd
  <2>3. metric' = [metric EXCEPT ![d] = [metric[d] EXCEPT !.is = how, !.end = ratingClock]]
    BY <2>1, <1>t
  <2>4. /\ metric'[d].is = how /\ metric'[d].start = metric[d].start /\ metric'[d].end = ratingClock
        /\ \A e \in Dispatches \ {d} : metric'[e] = metric[e]
    BY <2>3, <1>t
  <2>5. Recorded' = Recorded
    BY <2>2, <2>4 DEF Recorded
  <2> QED
    BY <2>2, <2>4, <2>5, <1>i DEF TimesInv
<1>4. CASE UNCHANGED ratingVars
  BY <1>4, <1>1, <1>t DEF ratingVars
<1>5. ASSUME NEW p \in Raters, NEW h \in RatedHosts, AskRating(p, h) PROVE TimesInv'
  BY <1>5, <1>1, <1>t DEF AskRating
<1>6. ASSUME NEW p \in Raters, ComputeReads(p) \/ SaveRating(p) \/ RatingUsed(p) PROVE TimesInv'
  BY <1>6, <1>1, <1>t DEF ComputeReads, SaveRating, RatingUsed
<1>7. CASE RatingTick
  BY <1>7, <1>1, <1>t DEF RatingTick
<1> QED
  BY <1>2, <1>3, <1>4, <1>5, <1>6, <1>7 DEF RatingsNext

LEMMA RecordsAreRows == ASSUME TimesInv, NEW h \in RatedHosts PROVE Rows(Record(h)) /\ OnClock
<1>1. Ended(h) \subseteq Recorded
  BY DEF Ended, Recorded
<1>2. IsFiniteSet(Ended(h))
  BY <1>1, FS_Subset DEF TimesInv
<1>3. DOMAIN Record(h) = Ended(h) /\ \A d \in Ended(h) : Record(h)[d] = metric[d]
  BY DEF Record
<1>4. \A d \in Ended(h) : metric[d] \in EndedRows /\ metric[d].start <= metric[d].end
  BY DEF Ended, TimesInv, RatingsTypeOK, EndedRows
<1>5. Record(h) \in [Ended(h) -> EndedRows]
  BY <1>4 DEF Record
<1> QED
  BY <1>2, <1>3, <1>4, <1>5 DEF Rows, OnClock, TimesInv, RatingsTypeOK

LEMMA ScoresSay == TimesInv => ScoresInRange /\ SuccessNeverHurts
<1> SUFFICES ASSUME TimesInv PROVE ScoresInRange /\ SuccessNeverHurts
  OBVIOUS
<1>1. ASSUME NEW h \in RatedHosts
      PROVE  LET c == Composite(Record(h)) IN 0 <= c.is /\ c.is <= c.of
  <2>1. Composite(Record(h)).of \in Nat /\ Composite(Record(h)).is \in 0..Composite(Record(h)).of
    BY RecordsAreRows, CompositeInRange
  <2> QED
    BY <2>1
<1>2. ASSUME NEW h \in RatedHosts, NEW d \in Ended(h), metric[d].is = "bad"
      PROVE  LET was == Rank(Record(h))
                 were == Rank([Record(h) EXCEPT ![d].is = "ok"])
             IN  were.of = was.of /\ was.is <= were.is
  <2>1. d \in DOMAIN Record(h) /\ Record(h)[d].is = "bad"
    BY <1>2 DEF Record
  <2> QED
    BY <2>1, RecordsAreRows, SuccessRaisesRank
<1> QED
  BY <1>1, <1>2 DEF ScoresInRange, SuccessNeverHurts

-----------------------------------------------------------------------------
\* The messages.  A file is that of a message that was sent, under the name it got.
Readings == [at : {"no", "own", "all", "clear", "move"}, rule : BOOLEAN,
             list : SUBSET MailFile, file : SUBSET MailFile]
MailInv ==
  /\ MailTypeOK /\ MailKept
  /\ reading \in [MailHosts -> Readings]
  /\ \A f \in inboxes \union archive : mail[f.mail].at = "sent" /\ mail[f.mail].second = f.second

LEMMA MailStarts == MailInit => MailInv
BY MailAssumption DEF MailInit, MailInv, MailTypeOK, MailKept, NotReading, Readings

\* Only the reading of h changes: by what it lists or is at.
LEMMA ReadingGoes ==
  ASSUME MailInv, NEW h \in MailHosts, NEW c \in Readings, reading' = [reading EXCEPT ![h] = c]
  PROVE  /\ reading' \in [MailHosts -> Readings]
         /\ UNCHANGED <<inboxes, archive, mail, mailSecond>> => MailInv'
<1>1. reading' \in [MailHosts -> Readings]
  BY DEF MailInv
<1> QED
  BY <1>1 DEF MailInv, MailTypeOK, MailKept, Readings

LEMMA MailStays == MailInv /\ [MailNext]_mailVars => MailInv'
<1> SUFFICES ASSUME MailInv, [MailNext]_mailVars PROVE MailInv'
  OBVIOUS
<1> USE DEF Readings
<1> DEFINE Mailings == [at : {"new", "named", "sent"}, second : 0..MaxMailSecond]
<1>t. /\ inboxes \subseteq MailFile /\ archive \subseteq MailFile
      /\ mail \in [Mails -> Mailings]
      /\ reading \in [MailHosts -> Readings]
      /\ mailSecond \in 0..MaxMailSecond /\ MaxMailSecond \in Nat
      /\ NotReading \in Readings
  BY MailAssumption DEF MailInv, MailTypeOK, NotReading
<1>f. /\ \A f \in inboxes \union archive : /\ f.mail \in Mails
                                           /\ mail[f.mail].at = "sent" /\ mail[f.mail].second = f.second
      /\ MailKept
  BY <1>t DEF MailInv, MailFile
<1>1. CASE UNCHANGED mailVars
  BY <1>1 DEF mailVars, MailInv, MailTypeOK, MailKept
<1>2. CASE MailTick
  BY <1>2, <1>t DEF MailTick, MailInv, MailTypeOK, MailKept
<1>3. ASSUME NEW m \in Mails, NameMail(m) PROVE MailInv'
  <2>1. /\ mail[m].at = "new" /\ mail' = [mail EXCEPT ![m] = [at |-> "named", second |-> mailSecond]]
        /\ UNCHANGED <<inboxes, archive, mailSecond, reading>>
    BY <1>3 DEF NameMail
  <2>2. mail' \in [Mails -> Mailings] /\ mail'[m].at = "named"
        /\ \A n \in Mails \ {m} : mail'[n] = mail[n]
    BY <2>1, <1>t
  <2>3. MailKept'
    BY <2>1, <2>2, <1>f DEF MailKept
  <2>4. \A f \in inboxes \union archive : mail'[f.mail] = mail[f.mail]
    BY <2>1, <2>2, <1>f
  <2> QED
    BY <2>1, <2>2, <2>3, <2>4, <1>t, <1>f DEF MailInv, MailTypeOK
<1>4. ASSUME NEW m \in Mails, WriteMail(m) PROVE MailInv'
  <2> DEFINE f == [box |-> MailTo[m], second |-> mail[m].second, mail |-> m]
  <2>1. /\ mail[m].at = "named" /\ mail' = [mail EXCEPT ![m].at = "sent"]
        /\ inboxes' = {e \in inboxes : ~(e.box = f.box /\ SameName(e, f))} \union {f}
        /\ UNCHANGED <<archive, mailSecond, reading>>
    BY <1>4 DEF WriteMail
  <2>2. f \in MailFile /\ f.mail = m /\ f.second = mail[m].second
    BY <1>t, MailAssumption DEF MailFile, Boxes
  <2>3. /\ mail' \in [Mails -> Mailings] /\ mail'[m].at = "sent" /\ mail'[m].second = mail[m].second
        /\ \A n \in Mails \ {m} : mail'[n] = mail[n]
    BY <2>1, <1>t
  <2> HIDE DEF f
  <2>4. f \in inboxes' /\ inboxes' \subseteq MailFile
    BY <2>1, <2>2, <1>t
  <2>5. \A g \in inboxes' \union archive' : mail'[g.mail].at = "sent" /\ mail'[g.mail].second = g.second
    BY <2>1, <2>2, <2>3, <1>f
\* A file that f replaces is of its sender and second.
  <2>6. ASSUME NEW n \in Mails, mail'[n].at = "sent"
        PROVE  \/ \E g \in inboxes' \union archive' : g.mail = n
               \/ \E k \in Mails \ {n} :
                    MailFrom[k] = MailFrom[n] /\ mail'[k].at = "sent" /\ mail'[k].second = mail'[n].second
    <3>1. CASE n = m
      BY <3>1, <2>2, <2>4
    <3>2. CASE n # m
      <4>1. mail[n].at = "sent" /\ mail'[n].second = mail[n].second
        BY <3>2, <2>3, <2>6
      <4>2. CASE \E g \in inboxes \union archive : g.mail = n
        <5>1. PICK g \in inboxes \union archive : g.mail = n
          BY <4>2
        <5>2. CASE g \in inboxes' \union archive'
          BY <5>1, <5>2
        <5>3. CASE g \notin inboxes' \union archive'
          <6>1. SameName(g, f)
            BY <5>1, <5>3, <2>1
          <6>2. MailFrom[m] = MailFrom[n] /\ mail'[m].second = mail'[n].second
            BY <6>1, <5>1, <4>1, <2>2, <2>3, <1>f DEF SameName
          <6> QED
            BY <6>2, <3>2, <2>3
        <5> QED
          BY <5>2, <5>3
      <4>3. CASE \E k \in Mails \ {n} :
                   MailFrom[k] = MailFrom[n] /\ mail[k].at = "sent" /\ mail[k].second = mail[n].second
        BY <4>1, <4>3, <2>1, <2>3
      <4> QED
        BY <4>1, <4>2, <4>3, <1>f DEF MailKept
    <3> QED
      BY <3>1, <3>2
  <2>7. MailKept'
    BY <2>6 DEF MailKept
  <2> QED
    BY <2>1, <2>3, <2>4, <2>5, <2>7, <1>t DEF MailInv, MailTypeOK
<1>5. ASSUME NEW h \in MailHosts, ListOwn(h) PROVE MailInv'
  <2>1. PICK rule \in BOOLEAN :
          reading' = [reading EXCEPT ![h] =
            [at |-> "own", rule |-> rule, list |-> {e \in inboxes : e.box = h}, file |-> {}]]
    BY <1>5 DEF ListOwn
  <2>2. [at |-> "own", rule |-> rule, list |-> {e \in inboxes : e.box = h}, file |-> {}] \in Readings
    BY <1>t
  <2> QED
    BY <1>5, <2>1, <2>2, ReadingGoes DEF ListOwn
<1>6. ASSUME NEW h \in MailHosts, ListAll(h) PROVE MailInv'
  <2> DEFINE all == reading[h].list \union {e \in inboxes : e.box = Everybody}
             list == IF reading[h].rule THEN {e \in all : e.mail \in RuleMails} ELSE all
             c == [reading[h] EXCEPT !.at = "clear", !.list = list]
  <2>1. reading' = [reading EXCEPT ![h] = c]
    BY <1>6, <1>t DEF ListAll
  <2>2. list \in SUBSET MailFile
    BY <1>t
  <2>3. c \in Readings
    <3> HIDE DEF list
    <3> QED
      BY <2>2, <1>t
  <2> HIDE DEF c
  <2> QED
    BY <1>6, <2>1, <2>3, ReadingGoes DEF ListAll
<1>7. ASSUME NEW h \in MailHosts, LookAtFile(h) PROVE MailInv'
  <2>1. PICK e \in reading[h].list :
          reading' = [reading EXCEPT ![h].list = @ \ {e},
                        ![h].at = IF Present(e) = {} THEN "clear" ELSE "move", ![h].file = {e}]
    BY <1>7 DEF LookAtFile
  <2> DEFINE at == IF Present(e) = {} THEN "clear" ELSE "move"
             c == [reading[h] EXCEPT !.list = @ \ {e}, !.at = at, !.file = {e}]
  <2>2. reading' = [reading EXCEPT ![h] = c]
    BY <2>1, <1>t
  <2>3. c \in Readings
    <3>1. at \in {"clear", "move"} /\ reading[h] \in Readings /\ e \in MailFile
      BY <1>t
    <3> HIDE DEF at
    <3> QED
      BY <3>1
  <2> HIDE DEF c
  <2> QED
    BY <1>7, <2>2, <2>3, ReadingGoes DEF LookAtFile
<1>8. ASSUME NEW h \in MailHosts, ListDone(h) PROVE MailInv'
  BY <1>8, <1>t, ReadingGoes DEF ListDone
<1>9. ASSUME NEW h \in MailHosts, MoveFile(h) PROVE MailInv'
  <2>1. PICK e \in reading[h].file :
          IF Present(e) = {}
          THEN /\ reading' = [reading EXCEPT ![h] = NotReading]
               /\ UNCHANGED <<inboxes, archive>>
          ELSE /\ archive' = {f \in archive : ~SameName(e, f)} \union Present(e)
               /\ inboxes' = inboxes \ Present(e)
               /\ reading' = [reading EXCEPT ![h].at = "clear", ![h].file = {}]
    BY <1>9 DEF MoveFile
  <2>2. UNCHANGED <<mail, mailSecond>>
    BY <1>9 DEF MoveFile
  <2>3. CASE Present(e) = {}
    BY <2>1, <2>2, <2>3, <1>t, ReadingGoes
  <2>4. CASE Present(e) # {}
    <3>1. /\ archive' = {f \in archive : ~SameName(e, f)} \union Present(e)
          /\ inboxes' = inboxes \ Present(e)
          /\ reading' = [reading EXCEPT ![h].at = "clear", ![h].file = {}]
      BY <2>1, <2>4
    <3>2. Present(e) \subseteq inboxes /\ \A g \in Present(e) : SameName(e, g)
      BY DEF Present, SameName
    <3>3. reading' \in [MailHosts -> Readings]
      <4> DEFINE c == [reading[h] EXCEPT !.at = "clear", !.file = {}]
      <4>1. reading' = [reading EXCEPT ![h] = c]
        BY <3>1, <1>t
      <4>2. c \in Readings
        BY <1>t
      <4> HIDE DEF c
      <4> QED
        BY <4>1, <4>2, ReadingGoes
    <3>4. inboxes' \union archive' \subseteq inboxes \union archive
      BY <3>1, <3>2
    <3>5. inboxes' \subseteq MailFile /\ archive' \subseteq MailFile
      BY <3>1, <3>2, <1>t
\* What is moved replaces files of the same sender and second.
    <3>6. ASSUME NEW n \in Mails, NEW g \in inboxes \union archive, g.mail = n
          PROVE  \/ \E k \in inboxes' \union archive' : k.mail = n
                 \/ \E k \in Mails \ {n} :
                      MailFrom[k] = MailFrom[n] /\ mail[k].at = "sent" /\ mail[k].second = mail[n].second
      <4>1. CASE g \in inboxes' \union archive'
        BY <3>6, <4>1
      <4>2. CASE g \notin inboxes' \union archive'
        <5>1. SameName(e, g)
          BY <3>1, <4>2
        <5>2. PICK k \in Present(e) : TRUE
          BY <2>4
        <5>3. SameName(e, k) /\ k \in inboxes /\ k \in archive'
          BY <3>1, <3>2
        <5>4. k.second = g.second /\ MailFrom[k.mail] = MailFrom[n]
          BY <5>1, <5>3, <3>6 DEF SameName
        <5>5. k.mail \in Mails /\ mail[k.mail].at = "sent" /\ mail[k.mail].second = mail[n].second
          BY <5>3, <5>4, <3>6, <1>f
        <5> QED
          BY <5>3, <5>4, <5>5
      <4> QED
        BY <4>1, <4>2
    <3>7. MailKept'
      BY <3>6, <2>2, <1>f DEF MailKept
    <3> QED
      BY <2>2, <3>3, <3>4, <3>5, <3>7, <1>t, <1>f DEF MailInv, MailTypeOK
  <2> QED
    BY <2>3, <2>4
<1> QED
  BY <1>1, <1>2, <1>3, <1>4, <1>5, <1>6, <1>7, <1>8, <1>9 DEF MailNext

-----------------------------------------------------------------------------
\* The blockers.
Busy(p) == caller[p].at \notin {"idle", "polls"}
Finds(list) == (\A b \in reported : InFile(list, b)) /\ (\A b \in resolved : Solved(list, b))

\* The call of p, if none other is under way: before its dump the file has what
\* was reported and resolved; after it the file is empty, and p has all that.
TurnOf(p) ==
  LET c == caller[p]
  IN  /\ c.at \in {"opened", "locked", "read"} =>
           /\ Finds(blockersFile.list)
           /\ p = Resolver => InFile(blockersFile.list, c.about)
      /\ c.at = "read" => c.list = blockersFile.list
      /\ c.at \in {"dumped", "unlocked"} =>
           /\ blockersFile.list = <<>> /\ Finds(c.list)
           /\ IF p = Resolver THEN Solved(c.list, c.about) ELSE InFile(c.list, c.about)

CallRecords == [at : {"idle", "opened", "locked", "read", "dumped", "unlocked", "polls"},
                list : Seq(Entries), about : Blockers \union {<<>>}]

CollabInv ==
  /\ CollabTypeOK
  /\ caller \in [Callers -> CallRecords]
  /\ blockersFile \in [list : Seq(Entries), readable : BOOLEAN]
  /\ \A p \in Callers : Busy(p) => caller[p].about \in Blockers
  /\ ~overlapped =>
       /\ blockersFile.readable
       /\ \A p \in Callers, q \in Callers : Busy(p) /\ Busy(q) => p = q
       /\ \A p \in Callers : Busy(p) => TurnOf(p)
       /\ Quiet => Finds(blockersFile.list)

LEMMA CollabSays == CollabInv => CollabTypeOK /\ TurnsPersist
BY DEF CollabInv, TurnsPersist, Finds, ReadBlockers

LEMMA CollabStarts == CollabInit => CollabInv
<1> SUFFICES ASSUME CollabInit PROVE CollabInv
  OBVIOUS
<1>1. blockersFile = [list |-> <<>>, readable |-> TRUE] /\ <<>> \in Seq(Entries)
  BY DEF CollabInit
<1>2. \A p \in Callers : caller[p] = CallIdle
  BY DEF CollabInit
<1>3. CallIdle \in CallRecords /\ CallIdle.at = "idle"
  BY <1>1 DEF CallIdle, CallRecords
<1>4. caller \in [Callers -> CallRecords]
  BY <1>3 DEF CollabInit
<1>5. \A p \in Callers : ~Busy(p)
  BY <1>2, <1>3 DEF Busy
<1>6. /\ collabLock = NoCaller /\ reported = {} /\ resolved = {} /\ overlapped = FALSE
  BY DEF CollabInit
<1>7. blockersFile \in [list : Seq(Entries), readable : BOOLEAN] /\ Finds(blockersFile.list)
  BY <1>1, <1>6 DEF Finds
<1>8. CollabTypeOK
  BY <1>2, <1>3, <1>6, <1>7 DEF CollabTypeOK, CallRecords
<1> QED
  BY <1>1, <1>4, <1>5, <1>6, <1>7, <1>8 DEF CollabInv

\* An entry of a list is one of the longer list, and one that is changed keeps its name.
LEMMA AppendFinds ==
  ASSUME NEW list \in Seq(Entries), NEW e \in Entries
  PROVE  /\ Append(list, e) \in Seq(Entries)
         /\ InFile(Append(list, e), e.id)
         /\ \A b : InFile(list, b) => InFile(Append(list, e), b)
         /\ \A b : Solved(list, b) => Solved(Append(list, e), b)
<1> DEFINE new == Append(list, e)
<1>1. /\ new \in Seq(Entries) /\ Len(list) + 1 \in DOMAIN new /\ new[Len(list) + 1] = e
      /\ \A i \in DOMAIN list : i \in DOMAIN new /\ new[i] = list[i]
  OBVIOUS
<1> HIDE DEF new
<1>2. e \in ToSet(new) /\ ToSet(list) \subseteq ToSet(new)
  BY <1>1 DEF ToSet
<1> QED
  BY <1>1, <1>2 DEF InFile, Solved, new

LEMMA SolveFinds ==
  ASSUME NEW list \in Seq(Entries), NEW b \in Blockers, InFile(list, b),
         NEW new, new = [i \in DOMAIN list |->
                           IF list[i].id = b THEN [list[i] EXCEPT !.resolved = TRUE] ELSE list[i]]
  PROVE  /\ new \in Seq(Entries)
         /\ Solved(new, b)
         /\ \A c : InFile(list, c) => InFile(new, c)
         /\ \A c : Solved(list, c) => Solved(new, c)
<1>1. \A i \in DOMAIN list : list[i] \in Entries
  OBVIOUS
<1>2. \A i \in DOMAIN list : /\ new[i] \in Entries /\ new[i].id = list[i].id
                             /\ list[i].id = b \/ list[i].resolved => new[i].resolved
  <2>1. \A x \in Entries : LET y == [x EXCEPT !.resolved = TRUE]
                           IN  y \in Entries /\ y.id = x.id /\ y.resolved
    BY DEF Entries
  <2> QED
    BY <1>1, <2>1
<1>3. DOMAIN new = DOMAIN list /\ new \in Seq(Entries)
  <2>1. DOMAIN list = 1..Len(list) /\ Len(list) \in Nat
    OBVIOUS
  <2>2. new \in [1..Len(list) -> Entries]
    BY <2>1, <1>2
  <2> QED
    BY <2>1, <2>2, SeqDef
<1>4. \A c : InFile(list, c) => InFile(new, c)
  BY <1>2, <1>3 DEF InFile, ToSet
<1>5. \A c : Solved(list, c) => Solved(new, c)
  BY <1>2, <1>3 DEF Solved, ToSet
<1>6. Solved(new, b)
  BY <1>2, <1>3 DEF InFile, Solved, ToSet
<1> QED
  BY <1>3, <1>4, <1>5, <1>6

\* A step of the call p goes on, in the turn of p or in an overlap.
LEMMA CallStep ==
  ASSUME CollabInv, NEW p \in Callers, NEW c \in CallRecords, caller' = [caller EXCEPT ![p] = c],
         NEW busy, busy = (c.at \notin {"idle", "polls"}),
         busy => c.about \in Blockers,
         overlapped => overlapped', overlapped' \in BOOLEAN,
         blockersFile' \in [list : Seq(Entries), readable : BOOLEAN],
         collabLock' \in Callers \union {NoCaller},
         reported' \subseteq Blockers, resolved' \subseteq Blockers,
         ~overlapped' => blockersFile'.readable,
         ~overlapped' /\ busy => (Busy(p) \/ Quiet) /\ TurnOf(p)',
         ~overlapped' /\ ~busy /\ Busy(p) => Finds(blockersFile.list)',
         ~overlapped' /\ ~Busy(p) => UNCHANGED <<blockersFile, reported, resolved>>
  PROVE  CollabInv'
<1>1. /\ caller' \in [Callers -> CallRecords] /\ caller'[p] = c
      /\ \A q \in Callers \ {p} : caller'[q] = caller[q]
  BY DEF CollabInv, CallRecords
<1>2. \A q \in Callers : Busy(q)' => caller'[q].about \in Blockers
  BY <1>1 DEF CollabInv, Busy
<1>3. ASSUME ~overlapped'
      PROVE  /\ \A q \in Callers, r \in Callers : Busy(q)' /\ Busy(r)' => q = r
             /\ \A q \in Callers : Busy(q)' => TurnOf(q)'
             /\ Quiet' => Finds(blockersFile.list)'
  <2>1. /\ \A q \in Callers, r \in Callers : Busy(q) /\ Busy(r) => q = r
        /\ \A q \in Callers : Busy(q) => TurnOf(q)
        /\ Quiet => Finds(blockersFile.list)
    BY <1>3 DEF CollabInv
  <2>2. \A q \in Callers \ {p} : (Busy(q)' <=> Busy(q)) /\ caller'[q] = caller[q]
    BY <1>1 DEF Busy
  <2>3. Busy(p)' <=> busy
    BY <1>1 DEF Busy
  <2>4. Quiet <=> \A q \in Callers : ~Busy(q)
    BY DEF Quiet, Busy
  <2>5. Quiet' <=> \A q \in Callers : ~Busy(q)'
    BY DEF Quiet, Busy
  <2>6. CASE Busy(p) \/ busy
    BY <1>3, <2>1, <2>2, <2>3, <2>4, <2>5, <2>6
  <2>7. CASE ~Busy(p) /\ ~busy
    <3>1. \A q \in Callers : Busy(q)' => TurnOf(q)'
      <4> SUFFICES ASSUME NEW q \in Callers, Busy(q)' PROVE TurnOf(q)'
        OBVIOUS
      <4>1. caller'[q] = caller[q] /\ TurnOf(q)
        BY <2>1, <2>2, <2>3, <2>7
      <4> QED
        BY <1>3, <2>7, <4>1 DEF TurnOf, Finds
    <3>2. Finds(blockersFile.list)' <=> Finds(blockersFile.list)
      BY <1>3, <2>7 DEF Finds
    <3> QED
      BY <2>1, <2>2, <2>3, <2>4, <2>5, <2>7, <3>1, <3>2
  <2> QED
    BY <2>6, <2>7
<1> QED
  BY <1>1, <1>2, <1>3 DEF CollabInv, CollabTypeOK, CallRecords

LEMMA CollabKept == CollabInv /\ [CollabNext]_collabVars => CollabInv'
<1> SUFFICES ASSUME CollabInv, [CollabNext]_collabVars PROVE CollabInv'
  OBVIOUS
<1>t. /\ caller \in [Callers -> CallRecords] /\ \A p \in Callers : caller[p] \in CallRecords
      /\ blockersFile \in [list : Seq(Entries), readable : BOOLEAN]
      /\ collabLock \in Callers \union {NoCaller}
      /\ reported \subseteq Blockers /\ resolved \subseteq Blockers /\ overlapped \in BOOLEAN
      /\ \A p \in Callers : Busy(p) => caller[p].about \in Blockers
      /\ CallIdle \in CallRecords /\ CallIdle.at = "idle" /\ <<>> \in Seq(Entries)
  <2>1. CallIdle \in CallRecords /\ CallIdle.at = "idle"
    BY DEF CallIdle, CallRecords
  <2> QED
    BY <2>1 DEF CollabInv, CollabTypeOK
<1>b. ~overlapped => /\ blockersFile.readable
                     /\ \A p \in Callers : Busy(p) => TurnOf(p)
                     /\ Quiet => Finds(blockersFile.list)
  BY DEF CollabInv
<1>1. CASE UNCHANGED collabVars
  BY <1>1 DEF collabVars, CollabInv, CollabTypeOK, Busy, TurnOf, Finds, Quiet
<1>2. ASSUME NEW p \in Callers, NEW b \in Blockers, CollabOpen(p, b) PROVE CollabInv'
  <2> DEFINE c == [at |-> "opened", list |-> <<>>, about |-> b]
  <2>1. /\ caller' = [caller EXCEPT ![p] = c] /\ caller[p].at = "idle"
        /\ overlapped' = (overlapped \/ \E q \in Callers : caller[q].at \notin {"idle", "polls"})
        /\ UNCHANGED <<blockersFile, collabLock, reported, resolved>>
        /\ p = Resolver => InFile(ReadBlockers, b)
    BY <1>2 DEF CollabOpen, CallIs
  <2>2. c \in CallRecords /\ c.at = "opened" /\ c.about = b
    BY <1>t DEF CallRecords
  <2>3. (overlapped => overlapped') /\ overlapped' \in BOOLEAN /\ (~overlapped' => ~overlapped /\ Quiet)
    BY <2>1, <1>t DEF Quiet
  <2> HIDE DEF c
  <2>4. caller'[p] = c
    BY <2>1, <1>t
  <2>5. ASSUME ~overlapped' PROVE TurnOf(p)'
    BY <2>1, <2>2, <2>3, <2>4, <2>5, <1>b DEF TurnOf, Finds, ReadBlockers
  <2>6. ~Busy(p) /\ (~overlapped' => blockersFile'.readable)
    BY <2>1, <2>3, <1>b DEF Busy
  <2>7. c.at \notin {"idle", "polls"} /\ c.about \in Blockers
    BY <2>2
  <2> QED
    BY <2>1, <2>2, <2>3, <2>5, <2>6, <2>7, <1>t, CallStep
<1>3. ASSUME NEW p \in Callers, CollabFlock(p) \/ CollabUnlock(p) PROVE CollabInv'
  <2>1. PICK to \in {"locked", "unlocked"} :
          /\ caller[p].at = IF to = "locked" THEN "opened" ELSE "dumped"
          /\ caller' = [caller EXCEPT ![p] = [caller[p] EXCEPT !.at = to]]
          /\ UNCHANGED <<blockersFile, reported, resolved, overlapped>>
          /\ collabLock' \in Callers \union {NoCaller}
    BY <1>3 DEF CollabFlock, CollabUnlock, CallGoes, CallIs
  <2> DEFINE c == [caller[p] EXCEPT !.at = to]
  <2>2. /\ c \in CallRecords /\ c.at = to /\ c.list = caller[p].list /\ c.about = caller[p].about
        /\ Busy(p) /\ c.at \notin {"idle", "polls"}
    BY <2>1, <1>t DEF CallRecords, Busy
  <2>3. caller' = [caller EXCEPT ![p] = c]
    BY <2>1
  <2> HIDE DEF c
  <2>4. caller'[p] = c
    BY <2>3, <1>t
  <2>5. ASSUME ~overlapped' PROVE TurnOf(p)'
    BY <2>1, <2>2, <2>4, <2>5, <1>b DEF TurnOf, Finds
  <2>6. c.about \in Blockers /\ Busy(p) /\ c.at \notin {"idle", "polls"}
    BY <2>2, <1>t
  <2>7. /\ ~overlapped' => blockersFile'.readable
        /\ overlapped' = overlapped /\ overlapped \in BOOLEAN
        /\ blockersFile' \in [list : Seq(Entries), readable : BOOLEAN]
        /\ collabLock' \in Callers \union {NoCaller}
        /\ reported' \subseteq Blockers /\ resolved' \subseteq Blockers
    BY <2>1, <1>t, <1>b
  <2>8. c \in CallRecords
    BY <2>2
  <2> QED
    BY <2>3, <2>5, <2>6, <2>7, <2>8, CallStep
<1>4. ASSUME NEW p \in Callers, CollabRead(p) PROVE CollabInv'
  <2>1. caller[p].at = "locked" /\ UNCHANGED <<blockersFile, reported, resolved, overlapped>> /\ Busy(p)
    BY <1>4 DEF CollabRead, Busy
  <2>2. CASE blockersFile.readable
    <3> DEFINE c == [caller[p] EXCEPT !.at = "read", !.list = blockersFile.list]
    <3>1. caller' = [caller EXCEPT ![p] = c] /\ UNCHANGED collabLock
      BY <1>4, <2>2 DEF CollabRead, CallIs
    <3>2. /\ c \in CallRecords /\ c.at = "read" /\ c.list = blockersFile.list /\ c.about = caller[p].about
      BY <1>t DEF CallRecords
    <3> HIDE DEF c
    <3>3. caller'[p] = c
      BY <3>1, <1>t
    <3>4. ASSUME ~overlapped' PROVE TurnOf(p)'
      BY <2>1, <3>2, <3>3, <3>4, <1>b DEF TurnOf, Finds
    <3> QED
      BY <2>1, <3>1, <3>2, <3>4, <1>t, <1>b, CallStep
  <2>3. CASE ~blockersFile.readable
    <3>1. caller' = [caller EXCEPT ![p] = CallIdle] /\ collabLock' = NoCaller /\ overlapped
      BY <1>4, <2>3, <1>b DEF CollabRead, CallIs
    <3> QED
      BY <2>1, <3>1, <1>t, CallStep
  <2> QED
    BY <2>2, <2>3
<1>5. ASSUME NEW p \in Callers, CollabDump(p) PROVE CollabInv'
  <2> DEFINE c == [caller[p] EXCEPT !.at = "dumped", !.list = Changed(p)]
             b == caller[p].about
             list == caller[p].list
  <2>1. /\ caller[p].at = "read" /\ Busy(p) /\ caller' = [caller EXCEPT ![p] = c]
        /\ blockersFile' = [list |-> <<>>, readable |-> TRUE]
        /\ UNCHANGED <<collabLock, reported, resolved, overlapped>>
    BY <1>5 DEF CollabDump, CallIs, Busy
  <2>2. b \in Blockers /\ list \in Seq(Entries)
    BY <2>1, <1>t DEF CallRecords
  <2> HIDE DEF list, b
  <2>3. ASSUME p # Resolver \/ InFile(list, b)
        PROVE  /\ Changed(p) \in Seq(Entries)
               /\ IF p = Resolver THEN Solved(Changed(p), b) ELSE InFile(Changed(p), b)
               /\ \A d : InFile(list, d) => InFile(Changed(p), d)
               /\ \A d : Solved(list, d) => Solved(Changed(p), d)
    <3>1. CASE p = Resolver
      <4>1. Changed(p) = [i \in DOMAIN list |->
                            IF list[i].id = b THEN [list[i] EXCEPT !.resolved = TRUE] ELSE list[i]]
        BY <3>1 DEF Changed, list, b
      <4> QED
        BY <2>2, <2>3, <3>1, <4>1, SolveFinds
    <3>2. CASE p # Resolver
      <4>1. Changed(p) = Append(list, [id |-> b, resolved |-> FALSE])
        BY <3>2 DEF Changed, list, b
      <4>2. [id |-> b, resolved |-> FALSE] \in Entries
        BY <2>2 DEF Entries
      <4> QED
        BY <2>2, <3>2, <4>1, <4>2, AppendFinds
    <3> QED
      BY <3>1, <3>2
  <2>4. Changed(p) \in Seq(Entries)
    <3>1. CASE p # Resolver
      BY <2>3, <3>1
    <3>2. CASE p = Resolver
      <4>1. DOMAIN list = 1..Len(list) /\ Len(list) \in Nat /\ \A i \in DOMAIN list : list[i] \in Entries
        BY <2>2
      <4>2. \A x \in Entries : [x EXCEPT !.resolved = TRUE] \in Entries
        BY DEF Entries
      <4>3. Changed(p) = [i \in DOMAIN list |->
                            IF list[i].id = b THEN [list[i] EXCEPT !.resolved = TRUE] ELSE list[i]]
        BY <3>2 DEF Changed, list, b
      <4>4. Changed(p) \in [1..Len(list) -> Entries]
        BY <4>1, <4>2, <4>3
      <4> QED
        BY <4>1, <4>4, SeqDef
    <3> QED
      BY <3>1, <3>2
  <2>5. c \in CallRecords /\ c.at = "dumped" /\ c.list = Changed(p) /\ c.about = b
    BY <2>4, <1>t DEF CallRecords, b
  <2> HIDE DEF c
  <2>6. caller'[p] = c
    BY <2>1, <1>t
  <2>7. ASSUME ~overlapped' PROVE TurnOf(p)'
    <3>1. list = blockersFile.list /\ Finds(list) /\ (p = Resolver => InFile(list, b))
      BY <2>1, <2>7, <1>b DEF TurnOf, list, b
    <3> QED
      BY <2>1, <2>3, <2>5, <2>6, <3>1 DEF TurnOf, Finds
  <2>8. blockersFile' \in [list : Seq(Entries), readable : BOOLEAN] /\ blockersFile'.readable
    BY <2>1, <1>t
  <2> QED
    BY <2>1, <2>2, <2>5, <2>7, <2>8, <1>t, CallStep
<1>6. ASSUME NEW p \in Callers, CollabClose(p) PROVE CollabInv'
  <2> DEFINE mine == caller[p].list
             there == blockersFile.list
             b == caller[p].about
  <2>1. /\ caller[p].at = "unlocked" /\ Busy(p) /\ Returns(p) /\ UNCHANGED <<collabLock, overlapped>>
    BY <1>6 DEF CollabClose, Busy
  <2>2. \/ Len(mine) >= Len(there) /\ blockersFile' = [list |-> mine, readable |-> TRUE]
        \/ /\ ~(Len(mine) >= Len(there))
           /\ \E whole \in BOOLEAN :
                blockersFile' = [list |-> mine \o SubSeq(there, Len(mine) + 1, Len(there)), readable |-> whole]
    BY <1>6 DEF CollabClose
  <2>3. mine \in Seq(Entries) /\ there \in Seq(Entries) /\ b \in Blockers
    BY <2>1, <1>t DEF CallRecords
  <2>4. blockersFile' \in [list : Seq(Entries), readable : BOOLEAN]
    <3> HIDE DEF mine, there
    <3>1. /\ Len(mine) \in Nat /\ Len(there) \in Nat
          /\ SubSeq(there, Len(mine) + 1, Len(there)) \in Seq(Entries)
      BY <2>3
    <3>2. mine \o SubSeq(there, Len(mine) + 1, Len(there)) \in Seq(Entries)
      BY <2>3, <3>1, ConcatProperties
    <3>3. ASSUME NEW l \in Seq(Entries), NEW whole \in BOOLEAN
          PROVE  [list |-> l, readable |-> whole] \in [list : Seq(Entries), readable : BOOLEAN]
      OBVIOUS
    <3> QED
      BY <2>2, <2>3, <3>2, <3>3
  <2>5. PICK c \in CallRecords : /\ caller' = [caller EXCEPT ![p] = c] /\ c.at \in {"idle", "polls"}
                                 /\ IF p = Resolver THEN resolved' = resolved \union {b} /\ UNCHANGED reported
                                    ELSE reported' = reported \union {b} /\ UNCHANGED resolved
    <3>1. CASE p = Resolver
      BY <2>1, <3>1, <1>t DEF Returns, CallIs
    <3>2. CASE p # Resolver
      <4>1. [caller[p] EXCEPT !.at = "polls", !.list = <<>>] \in CallRecords
        BY <1>t DEF CallRecords
      <4>2. [caller[p] EXCEPT !.at = "polls", !.list = <<>>].at = "polls"
        BY <1>t DEF CallRecords
      <4> QED
        BY <2>1, <3>2, <4>1, <4>2 DEF Returns, CallIs
    <3> QED
      BY <3>1, <3>2
  <2>6. ASSUME ~overlapped' PROVE blockersFile'.readable /\ Finds(blockersFile.list)'
    <3>1. /\ there = <<>> /\ Finds(mine)
          /\ IF p = Resolver THEN Solved(mine, b) ELSE InFile(mine, b)
      BY <2>1, <2>6, <1>b DEF TurnOf
    <3>2. blockersFile' = [list |-> mine, readable |-> TRUE]
      <4>1. Len(mine) \in Nat /\ Len(there) = 0
        BY <2>3, <3>1
      <4>2. Len(mine) >= Len(there)
        BY <4>1
      <4> HIDE DEF mine, there
      <4> QED
        BY <2>2, <4>2
    <3> QED
      BY <2>5, <3>1, <3>2 DEF Finds
  <2>7. reported' \subseteq Blockers /\ resolved' \subseteq Blockers
    BY <2>3, <2>5, <1>t
  <2> QED
    BY <2>1, <2>4, <2>5, <2>6, <2>7, <1>t, CallStep
<1>7. ASSUME NEW p \in Callers, PollEnds(p) PROVE CollabInv'
  <2>1. /\ caller' = [caller EXCEPT ![p] = CallIdle] /\ ~Busy(p)
        /\ UNCHANGED <<blockersFile, collabLock, reported, resolved, overlapped>>
    BY <1>7 DEF PollEnds, CallIs, Busy
  <2> QED
    BY <2>1, <1>t, <1>b, CallStep
<1> QED
  BY <1>1, <1>2, <1>3, <1>4, <1>5, <1>6, <1>7 DEF CollabNext

-----------------------------------------------------------------------------
\* The cascade.
ClientPlaces == {"idle", "claimCb", "claimSqlite", "named", "clearCb", "releaseSqlite"}

\* What holds while one store has decided alone.
Decides ==
  /\ LedgerCurrent
  /\ trust = "redis" =>
       /\ storeUp["redis"]
       /\ slotHeld \subseteq {slotIn["redis"]}
       /\ \A u \in Clients : client[u] \in {"idle", "named"}
       /\ \A u \in Clients : client[u] = "named" => u \in slotHeld
  /\ trust = "sqlite" =>
       /\ ~storeUp["redis"] /\ ~storeUp["cb"] /\ mirror = <<>>
       /\ kept # NoClient =>
            /\ slotHeld = {kept} /\ slotIn["sqlite"] = kept
            /\ client[kept] \in {"idle", "named", "releaseSqlite"}
            /\ \A u \in Clients \ {kept} : client[u] \in {"idle", "claimCb"}

CascadeInv == CascadeTypeOK /\ Decides

LEMMA CascadeSays == CascadeInv => CascadeTypeOK /\ LedgerCurrent /\ OneSlotHolder
<1> SUFFICES ASSUME CascadeInv PROVE CascadeTypeOK /\ LedgerCurrent /\ OneSlotHolder
  OBVIOUS
<1>1. ASSUME trust = "redis" PROVE Cardinality(slotHeld) <= 1
  <2>1. slotHeld \subseteq {slotIn["redis"]}
    BY <1>1 DEF CascadeInv, Decides
  <2>2. slotHeld = {} \/ slotHeld = {slotIn["redis"]}
    BY <2>1
  <2>3. Cardinality({}) = 0 /\ Cardinality({slotIn["redis"]}) = 1
    BY FS_EmptySet, FS_Singleton
  <2> QED
    BY <2>2, <2>3
<1> QED
  BY <1>1 DEF CascadeInv, Decides, OneSlotHolder

LEMMA CascadeStarts == CascadeInit => CascadeInv
BY CascadeAssumption, EmptySeq DEF CascadeInit, CascadeInv, Decides, CascadeTypeOK, LedgerCurrent, Stores, SomeClient

LEMMA RemoveOne ==
  ASSUME NEW T, NEW s \in Seq(T), NEW i \in DOMAIN s
  PROVE  RemoveAt(s, i) \in Seq(T) /\ Len(RemoveAt(s, i)) = Len(s) - 1
<1>1. /\ SubSeq(s, 1, i - 1) \in Seq(T) /\ Len(SubSeq(s, 1, i - 1)) = i - 1
      /\ SubSeq(s, i + 1, Len(s)) \in Seq(T) /\ Len(SubSeq(s, i + 1, Len(s))) = Len(s) - i
  BY SubSeqProperties
<1> DEFINE front == SubSeq(s, 1, i - 1)  back == SubSeq(s, i + 1, Len(s))
<1>2. i \in 1..Len(s) /\ Len(s) \in Nat
  OBVIOUS
<1>3. front \o back \in Seq(T) /\ Len(front \o back) = Len(front) + Len(back)
  <2> HIDE DEF front, back
  <2>1. front \in Seq(T) /\ back \in Seq(T)
    BY <1>1 DEF front, back
  <2> QED
    BY <2>1, ConcatProperties
<1>4. RemoveAt(s, i) = front \o back
  BY DEF RemoveAt
<1>5. Len(front) + Len(back) = Len(s) - 1
  BY <1>1, <1>2, SMTT(30)
<1> HIDE DEF front, back
<1> QED
  BY <1>3, <1>4, <1>5

\* The types of a call's step: it moves, and a holder or the mirror changes.
LEMMA ClientTypes ==
  ASSUME CascadeTypeOK, NEW u \in Clients, NEW to \in ClientPlaces,
         client' = [client EXCEPT ![u] = to], UNCHANGED <<ledgerIn, ledgerDone, netVars>>,
         \/ UNCHANGED slotIn
         \/ \E s \in Stores, v \in SomeClient : slotIn' = [slotIn EXCEPT ![s] = v],
         UNCHANGED <<slotHeld, kept>> \/ Gets(u) \/ Loses(u),
         \/ UNCHANGED mirror
         \/ /\ Len(mirror) < MaxMirror
            /\ \E j \in {"claim", "release"} : mirror' = Append(mirror, [job |-> j, by |-> u])
  PROVE  CascadeTypeOK'
<1>1. slotIn' \in [Stores -> SomeClient] /\ client' \in [Clients -> ClientPlaces]
  BY DEF CascadeTypeOK, ClientPlaces
<1>2. slotHeld' \subseteq Clients /\ kept' \in SomeClient
  BY DEF CascadeTypeOK, Gets, Loses, SomeClient
<1>3. mirror' \in Seq(MirrorJobs) /\ Len(mirror') <= MaxMirror
  <2>1. CASE UNCHANGED mirror
    BY <2>1 DEF CascadeTypeOK, ClientPlaces
  <2>2. ASSUME Len(mirror) < MaxMirror, NEW j \in {"claim", "release"},
               mirror' = Append(mirror, [job |-> j, by |-> u])
        PROVE  mirror' \in Seq(MirrorJobs) /\ Len(mirror') <= MaxMirror
    <3>1. [job |-> j, by |-> u] \in MirrorJobs
      BY DEF MirrorJobs
    <3>2. mirror \in Seq(MirrorJobs) /\ MaxMirror \in Nat
      BY CascadeAssumption DEF CascadeTypeOK, ClientPlaces
    <3>3. \A x \in MirrorJobs : Append(mirror, x) \in Seq(MirrorJobs) /\ Len(Append(mirror, x)) = Len(mirror) + 1
      BY <3>2
    <3>4. Len(mirror) \in Nat
      BY <3>2
    <3> QED
      BY <2>2, <3>1, <3>2, <3>3, <3>4
  <2> QED
    BY <2>1, <2>2
<1> QED
  BY <1>1, <1>2, <1>3 DEF CascadeTypeOK, netVars, ClientPlaces

LEMMA CascadeTyped == CascadeTypeOK /\ [CascadeNext]_cascadeVars => CascadeTypeOK'
<1> SUFFICES ASSUME CascadeTypeOK, [CascadeNext]_cascadeVars PROVE CascadeTypeOK'
  OBVIOUS
<1>n. /\ MaxFailovers \in Nat /\ MaxLedgerWrites \in Nat /\ MaxMirror \in Nat
      /\ {"redis", "cb", "sqlite"} = Stores /\ NoClient \in SomeClient /\ Clients \subseteq SomeClient
  BY CascadeAssumption DEF Stores, SomeClient
<1>1. CASE UNCHANGED cascadeVars
  BY <1>1 DEF cascadeVars, CascadeTypeOK
<1>2. ASSUME NEW u \in Clients,
             \/ ClaimInRedis(u) \/ ClaimQueryCb(u) \/ ClaimAssertCb(u) \/ ClaimReadSqlite(u) \/ ClaimWriteSqlite(u)
             \/ ReleaseAsk(u) \/ ReleaseInRedis(u) \/ ReleaseQueryCb(u) \/ ReleaseClearCb(u) \/ ReleaseInSqlite(u)
      PROVE  CascadeTypeOK'
  <2>1. /\ \E to \in ClientPlaces : client' = [client EXCEPT ![u] = to]
        /\ UNCHANGED <<ledgerIn, ledgerDone, netVars>>
    BY <1>2 DEF ClientPlaces, ClientGoes, ClaimInRedis, ClaimQueryCb, ClaimAssertCb, ClaimReadSqlite,
       ClaimWriteSqlite, ReleaseAsk, ReleaseInRedis, ReleaseQueryCb, ReleaseClearCb, ReleaseInSqlite
  <2>2. \/ UNCHANGED slotIn
        \/ \E s \in Stores, v \in SomeClient : slotIn' = [slotIn EXCEPT ![s] = v]
    <3>1. slotIn["sqlite"] \in SomeClient
      BY <1>n DEF CascadeTypeOK, ClientPlaces
    <3> QED
      BY <1>2, <1>n, <3>1 DEF Holds, ClaimInRedis, ClaimQueryCb, ClaimAssertCb, ClaimReadSqlite,
         ClaimWriteSqlite, ReleaseAsk, ReleaseInRedis, ReleaseQueryCb, ReleaseClearCb, ReleaseInSqlite
  <2>3. UNCHANGED <<slotHeld, kept>> \/ Gets(u) \/ Loses(u)
    BY <1>2 DEF ClaimInRedis, ClaimQueryCb, ClaimAssertCb, ClaimReadSqlite,
       ClaimWriteSqlite, ReleaseAsk, ReleaseInRedis, ReleaseQueryCb, ReleaseClearCb, ReleaseInSqlite
  <2>4. \/ UNCHANGED mirror
        \/ /\ Len(mirror) < MaxMirror
           /\ \E j \in {"claim", "release"} : mirror' = Append(mirror, [job |-> j, by |-> u])
    BY <1>2 DEF ClaimInRedis, ClaimQueryCb, ClaimAssertCb, ClaimReadSqlite,
       ClaimWriteSqlite, ReleaseAsk, ReleaseInRedis, ReleaseQueryCb, ReleaseClearCb, ReleaseInSqlite
  <2> QED
    BY <2>1, <2>2, <2>3, <2>4, ClientTypes
<1>3. CASE LedgerWrite
  <2>1. /\ ledgerDone < MaxLedgerWrites /\ Len(mirror) < MaxMirror /\ ledgerDone' = ledgerDone + 1
        /\ UNCHANGED <<slotIn, client, slotHeld, netVars, kept>>
    BY <1>3 DEF LedgerWrite
  <2>2. /\ \E s \in Stores : ledgerIn' = [ledgerIn EXCEPT ![s] = ledgerDone']
        /\ \/ UNCHANGED mirror
           \/ mirror' = Append(mirror, [job |-> "write", version |-> ledgerDone'])
    BY <1>3, <1>n DEF LedgerWrite
  <2>3. ledgerDone' \in 1..MaxLedgerWrites
    BY <2>1, <1>n DEF CascadeTypeOK, ClientPlaces
  <2>4. ledgerIn' \in [Stores -> 0..MaxLedgerWrites]
    BY <2>2, <2>3, <1>n DEF CascadeTypeOK, ClientPlaces
  <2>5. mirror' \in Seq(MirrorJobs) /\ Len(mirror') <= MaxMirror
    <3>1. [job |-> "write", version |-> ledgerDone'] \in MirrorJobs
      BY <2>3 DEF MirrorJobs
    <3>2. \A x \in MirrorJobs : Append(mirror, x) \in Seq(MirrorJobs) /\ Len(Append(mirror, x)) = Len(mirror) + 1
      BY DEF CascadeTypeOK, ClientPlaces
    <3>3. Len(mirror) \in Nat /\ mirror \in Seq(MirrorJobs)
      BY DEF CascadeTypeOK, ClientPlaces
    <3> QED
      BY <2>1, <2>2, <3>1, <3>2, <3>3, <1>n
  <2> QED
    BY <2>1, <2>3, <2>4, <2>5, <1>n DEF CascadeTypeOK, netVars
<1>4. ASSUME NEW s \in {"redis", "cb"}, Flips(s),
             trust' \in {"redis", "sqlite", "none"}, kept' \in SomeClient
      PROVE  CascadeTypeOK'
  <2>1. storeUp' \in [{"redis", "cb"} -> BOOLEAN]
    BY <1>4, Zenon DEF Flips, CascadeTypeOK
  <2>2. failovers' \in 0..MaxFailovers
    BY <1>4, <1>n DEF Flips, CascadeTypeOK
  <2> QED
    BY <1>4, <2>1, <2>2 DEF Flips, CascadeTypeOK
<1>5. CASE RedisFlips \/ CbFlips
  <2>1. slotIn["redis"] \in SomeClient
    BY <1>n DEF CascadeTypeOK, ClientPlaces
  <2>2. trust' \in {"redis", "sqlite", "none"} /\ kept' \in SomeClient
    BY <1>5, <1>n, <2>1 DEF RedisFlips, CbFlips, CascadeTypeOK
  <2> QED
    BY <1>4, <1>5, <2>2 DEF RedisFlips, CbFlips
<1>6. ASSUME NEW i \in 1..2, MirrorRun(i) PROVE CascadeTypeOK'
  <2> DEFINE m == mirror[i]
             by == IF m.job = "claim" /\ FreeFor("sqlite", m.by) THEN m.by
                   ELSE IF m.job = "release" /\ slotIn["sqlite"] = m.by THEN NoClient ELSE slotIn["sqlite"]
  <2>1. /\ i <= Len(mirror) /\ mirror' = RemoveAt(mirror, i)
        /\ slotIn' = [slotIn EXCEPT !["sqlite"] = by]
        /\ ledgerIn' = IF m.job = "write" THEN [ledgerIn EXCEPT !["sqlite"] = m.version] ELSE ledgerIn
        /\ UNCHANGED <<client, slotHeld, ledgerDone, netVars, kept>>
    BY <1>6 DEF MirrorRun
  <2>2. mirror \in Seq(MirrorJobs) /\ i \in DOMAIN mirror /\ m \in MirrorJobs
    BY <2>1 DEF CascadeTypeOK, ClientPlaces
  <2>3. /\ m.job \in {"claim", "release"} => m.by \in Clients
        /\ m.job = "write" => m.version \in 1..MaxLedgerWrites
    BY <2>2 DEF MirrorJobs
  <2>4. by \in SomeClient
    BY <2>3, <1>n DEF CascadeTypeOK, ClientPlaces
  <2> HIDE DEF m, by
  <2>5. slotIn' \in [Stores -> SomeClient] /\ ledgerIn' \in [Stores -> 0..MaxLedgerWrites]
    BY <2>1, <2>3, <2>4, <1>n DEF CascadeTypeOK, ClientPlaces
  <2>6. mirror' \in Seq(MirrorJobs) /\ Len(mirror') <= MaxMirror
    <3>1. RemoveAt(mirror, i) \in Seq(MirrorJobs) /\ Len(RemoveAt(mirror, i)) = Len(mirror) - 1
      BY <2>2, RemoveOne
    <3>2. Len(mirror) \in Nat /\ Len(mirror) <= MaxMirror
      BY <2>2 DEF CascadeTypeOK, ClientPlaces
    <3> QED
      BY <2>1, <3>1, <3>2, <1>n
  <2> QED
    BY <2>1, <2>5, <2>6 DEF CascadeTypeOK, netVars
<1>7. ASSUME NEW s \in Stores, CascadeExpires(s) PROVE CascadeTypeOK'
  <2>1. slotIn' \in [Stores -> SomeClient] /\ failovers' \in 0..MaxFailovers
    BY <1>7, <1>n DEF CascadeExpires, Holds, CascadeTypeOK
  <2> QED
    BY <1>7, <2>1 DEF CascadeExpires, CascadeTypeOK
<1> QED
  BY <1>1, <1>2, <1>3, <1>5, <1>6, <1>7 DEF CascadeNext

LEMMA RedisDecides ==
  ASSUME CascadeTypeOK, Decides, [CascadeNext]_cascadeVars, trust = "redis", trust' = "redis"
  PROVE  Decides'
<1> SUFFICES /\ storeUp'["redis"]
             /\ slotHeld' \subseteq {slotIn'["redis"]}
             /\ \A u \in Clients : client'[u] \in {"idle", "named"}
             /\ \A u \in Clients : client'[u] = "named" => u \in slotHeld'
             /\ ledgerIn'["redis"] = ledgerDone'
  BY DEF Decides, LedgerCurrent
<1>t. /\ storeUp["redis"] /\ slotHeld \subseteq {slotIn["redis"]}
      /\ \A u \in Clients : client[u] \in {"idle", "named"}
      /\ \A u \in Clients : client[u] = "named" => u \in slotHeld
      /\ ledgerIn["redis"] = ledgerDone
      /\ client \in [Clients -> ClientPlaces] /\ slotHeld \subseteq Clients /\ NoClient \notin Clients
      /\ slotIn \in [{"redis", "cb", "sqlite"} -> SomeClient]
      /\ ledgerIn \in [{"redis", "cb", "sqlite"} -> 0..MaxLedgerWrites]
      /\ storeUp \in [{"redis", "cb"} -> BOOLEAN]
  BY CascadeAssumption DEF Decides, LedgerCurrent, CascadeTypeOK, Stores, ClientPlaces
<1>1. CASE UNCHANGED cascadeVars
  BY <1>1, <1>t DEF cascadeVars
<1>2. ASSUME NEW u \in Clients, ClaimInRedis(u) PROVE Decides'
  <2>1. slotHeld' = {u} /\ slotIn'["redis"] = u
    BY <1>2, <1>t DEF ClaimInRedis, Gets, Holds
  <2> QED
    BY <1>2, <1>t, <2>1 DEF ClaimInRedis, ClientGoes, netVars, Decides, LedgerCurrent
<1>3. ASSUME NEW u \in Clients, ReleaseAsk(u) PROVE Decides'
  BY <1>3, <1>t DEF ReleaseAsk, ClientGoes, Loses, netVars, Decides, LedgerCurrent
<1>4. ASSUME NEW u \in Clients, ReleaseInRedis(u) PROVE Decides'
  <2>1. slotHeld' = {}
    BY <1>4, <1>t DEF ReleaseInRedis, ClientGoes, Loses
  <2>2. \A v \in Clients \ {u} : client'[v] = "idle"
    BY <1>4, <1>t DEF ReleaseInRedis, ClientGoes
  <2>3. client'[u] = "idle"
    BY <1>4, <1>t DEF ReleaseInRedis, ClientGoes
  <2> QED
    BY <1>4, <1>t, <2>1, <2>2, <2>3 DEF ReleaseInRedis, netVars, Decides, LedgerCurrent
<1>5. ASSUME NEW u \in Clients,
             \/ ClaimQueryCb(u) \/ ClaimAssertCb(u) \/ ClaimReadSqlite(u) \/ ClaimWriteSqlite(u)
             \/ ReleaseQueryCb(u) \/ ReleaseClearCb(u) \/ ReleaseInSqlite(u)
      PROVE  FALSE
  BY <1>5, <1>t DEF ClaimQueryCb, ClaimAssertCb, ClaimReadSqlite, ClaimWriteSqlite, ReleaseQueryCb,
     ReleaseClearCb, ReleaseInSqlite, ClientGoes
<1>6. CASE LedgerWrite
  BY <1>6, <1>t DEF LedgerWrite, netVars
<1>7. CASE RedisFlips
  BY <1>7 DEF RedisFlips
<1>8. CASE CbFlips
  BY <1>8, <1>t DEF CbFlips, Flips
<1>9. ASSUME NEW i \in 1..2, MirrorRun(i) PROVE Decides'
  <2>1. slotIn'["redis"] = slotIn["redis"] /\ ledgerIn'["redis"] = ledgerIn["redis"]
    BY <1>9, <1>t DEF MirrorRun
  <2> QED
    BY <1>9, <1>t, <2>1 DEF MirrorRun, netVars, Decides, LedgerCurrent
<1>10. ASSUME NEW s \in Stores, CascadeExpires(s) PROVE FALSE
  BY <1>10 DEF CascadeExpires
<1> QED
  BY <1>1, <1>2, <1>3, <1>4, <1>5, <1>6, <1>7, <1>8, <1>9, <1>10 DEF CascadeNext, Decides, LedgerCurrent

\* Redis and the CB fail while the mirror is complete.
LEMMA SqliteTakesOver ==
  ASSUME CascadeTypeOK, Decides, [CascadeNext]_cascadeVars, trust # "sqlite", trust' = "sqlite"
  PROVE  Decides'
<1>1. RedisFlips
  BY DEF CascadeNext, cascadeVars, netVars, CbFlips, LedgerWrite, MirrorRun, CascadeExpires,
     ClaimInRedis, ClaimQueryCb, ClaimAssertCb, ClaimReadSqlite, ClaimWriteSqlite, ReleaseAsk,
     ReleaseInRedis, ReleaseQueryCb, ReleaseClearCb, ReleaseInSqlite
<1>2. /\ trust = "redis" /\ ~storeUp["cb"] /\ MirrorCurrent
      /\ storeUp' = [storeUp EXCEPT !["redis"] = ~@]
      /\ UNCHANGED <<slotIn, ledgerIn, mirror, client, slotHeld, ledgerDone>>
      /\ kept' = IF slotIn["redis"] \in slotHeld THEN slotIn["redis"] ELSE NoClient
  BY <1>1 DEF RedisFlips, Flips
<1>3. ~storeUp'["redis"] /\ ~storeUp'["cb"]
  BY <1>2 DEF Decides, CascadeTypeOK
<1>4. mirror' = <<>> /\ ledgerIn'["sqlite"] = ledgerDone'
  BY <1>2 DEF Decides, LedgerCurrent, MirrorCurrent
<1>5. ASSUME kept' # NoClient
      PROVE  /\ slotHeld' = {kept'} /\ slotIn'["sqlite"] = kept'
             /\ client'[kept'] \in {"idle", "named", "releaseSqlite"}
             /\ \A u \in Clients \ {kept'} : client'[u] \in {"idle", "claimCb"}
  <2>1. kept' = slotIn["redis"] /\ kept' \in slotHeld /\ slotHeld = {kept'} /\ kept' \in Clients
    BY <1>2, <1>5 DEF Decides, CascadeTypeOK
  <2> QED
    BY <1>2, <2>1 DEF Decides, MirrorCurrent
<1> QED
  BY <1>3, <1>4, <1>5 DEF Decides, LedgerCurrent

LEMMA SqliteDecides ==
  ASSUME CascadeTypeOK, Decides, [CascadeNext]_cascadeVars, trust = "sqlite", trust' = "sqlite"
  PROVE  Decides'
<1> DEFINE Keeps == kept' # NoClient =>
                      /\ slotHeld' = {kept'} /\ slotIn'["sqlite"] = kept'
                      /\ client'[kept'] \in {"idle", "named", "releaseSqlite"}
                      /\ \A u \in Clients \ {kept'} : client'[u] \in {"idle", "claimCb"}
           Rest == /\ ~storeUp'["redis"] /\ ~storeUp'["cb"] /\ mirror' = <<>>
                   /\ ledgerIn'["sqlite"] = ledgerDone'
<1> SUFFICES Keeps /\ Rest
  BY DEF Decides, LedgerCurrent
<1>t. /\ ~storeUp["redis"] /\ ~storeUp["cb"] /\ mirror = <<>> /\ ledgerIn["sqlite"] = ledgerDone
      /\ kept # NoClient =>
           /\ slotHeld = {kept} /\ slotIn["sqlite"] = kept
           /\ client[kept] \in {"idle", "named", "releaseSqlite"}
           /\ \A u \in Clients \ {kept} : client[u] \in {"idle", "claimCb"}
      /\ client \in [Clients -> ClientPlaces] /\ slotHeld \subseteq Clients /\ NoClient \notin Clients
      /\ kept \in Clients \union {NoClient}
      /\ slotIn \in [{"redis", "cb", "sqlite"} -> SomeClient]
      /\ ledgerIn \in [{"redis", "cb", "sqlite"} -> 0..MaxLedgerWrites]
  BY CascadeAssumption DEF Decides, LedgerCurrent, CascadeTypeOK, Stores, SomeClient, ClientPlaces
<1>1. CASE UNCHANGED cascadeVars
  BY <1>1, <1>t DEF cascadeVars
<1>2. ASSUME NEW u \in Clients,
             ClaimInRedis(u) \/ ClaimAssertCb(u) \/ ReleaseAsk(u) \/ ReleaseInRedis(u)
      PROVE  FALSE
  BY <1>2, <1>t DEF ClaimInRedis, ClaimAssertCb, ReleaseAsk, ReleaseInRedis
<1>3. ASSUME NEW u \in Clients, ClaimQueryCb(u) PROVE Keeps /\ Rest
  BY <1>3, <1>t DEF ClaimQueryCb, ClientGoes, netVars
<1>4. ASSUME NEW u \in Clients, ClaimReadSqlite(u) PROVE Keeps /\ Rest
  <2>1. kept # NoClient => u # kept /\ ~FreeFor("sqlite", u)
    BY <1>4, <1>t DEF ClaimReadSqlite, ClientGoes, FreeFor
  <2> QED
    BY <1>4, <1>t, <2>1 DEF ClaimReadSqlite, ClientGoes, netVars
<1>5. ASSUME NEW u \in Clients, ClaimWriteSqlite(u) PROVE Keeps /\ Rest
  <2>1. kept = NoClient
    BY <1>5, <1>t DEF ClaimWriteSqlite, ClientGoes
  <2> QED
    BY <1>5, <1>t, <2>1 DEF ClaimWriteSqlite, Gets, netVars
<1>6. ASSUME NEW u \in Clients, ReleaseQueryCb(u) PROVE Keeps /\ Rest
  <2>1. client' = [client EXCEPT ![u] = "releaseSqlite"] /\ u \in slotHeld
    BY <1>6, <1>t DEF ReleaseQueryCb, ClientGoes
  <2> QED
    BY <1>6, <1>t, <2>1 DEF ReleaseQueryCb, netVars
<1>7. ASSUME NEW u \in Clients, ReleaseClearCb(u) PROVE Keeps /\ Rest
  <2>1. kept = NoClient
    BY <1>7, <1>t DEF ReleaseClearCb, ClientGoes
  <2> QED
    BY <1>7, <1>t, <2>1 DEF ReleaseClearCb, netVars
<1>8. ASSUME NEW u \in Clients, ReleaseInSqlite(u) PROVE Keeps /\ Rest
  <2>1. kept' = NoClient
    BY <1>8, <1>t DEF ReleaseInSqlite, ClientGoes, Loses
  <2> QED
    BY <1>8, <1>t, <2>1 DEF ReleaseInSqlite, netVars
<1>9. CASE LedgerWrite
  BY <1>9, <1>t DEF LedgerWrite, netVars
<1>10. CASE RedisFlips \/ CbFlips
  BY <1>10 DEF RedisFlips, CbFlips
<1>11. ASSUME NEW i \in 1..2, MirrorRun(i) PROVE FALSE
  BY <1>11, <1>t DEF MirrorRun
<1>12. ASSUME NEW s \in Stores, CascadeExpires(s) PROVE FALSE
  BY <1>12 DEF CascadeExpires
<1> QED
  BY <1>1, <1>2, <1>3, <1>4, <1>5, <1>6, <1>7, <1>8, <1>9, <1>10, <1>11, <1>12 DEF CascadeNext

LEMMA CascadeKept == CascadeInv /\ [CascadeNext]_cascadeVars => CascadeInv'
<1> SUFFICES ASSUME CascadeInv, [CascadeNext]_cascadeVars PROVE CascadeInv'
  OBVIOUS
<1>1. CascadeTypeOK /\ Decides
  BY DEF CascadeInv
<1>2. CascadeTypeOK'
  BY <1>1, CascadeTyped
<1>3. Decides'
  <2>1. CASE trust' = "redis"
    <3>1. trust = "redis"
      BY <2>1 DEF CascadeNext, cascadeVars, netVars, RedisFlips, CbFlips, LedgerWrite, MirrorRun,
         CascadeExpires, ClaimInRedis, ClaimQueryCb, ClaimAssertCb, ClaimReadSqlite, ClaimWriteSqlite,
         ReleaseAsk, ReleaseInRedis, ReleaseQueryCb, ReleaseClearCb, ReleaseInSqlite
    <3> QED
      BY <1>1, <2>1, <3>1, RedisDecides
  <2>2. CASE trust' = "sqlite"
    BY <1>1, <2>2, SqliteTakesOver, SqliteDecides
  <2>3. CASE trust' \notin {"redis", "sqlite"}
    BY <1>2, <2>3 DEF Decides, LedgerCurrent, CascadeTypeOK
  <2> QED
    BY <2>1, <2>2, <2>3
<1> QED
  BY <1>2, <1>3 DEF CascadeInv

-----------------------------------------------------------------------------
\* All together.
LEMMA Beginnings ==
  RecoveryInit => CascadeInit /\ RemoteInit /\ RatingsInit /\ AgentKeysInit /\ CollabInit /\ MailInit
BY DEF RecoveryInit

LEMMA Apart ==
  [RecoveryNext]_recoveryVars
    => /\ [CascadeNext]_cascadeVars /\ [RemoteNext]_remoteVars /\ [RatingsNext]_ratingVars
       /\ [AgentKeysNext]_agentKeyVars /\ [CollabNext]_collabVars /\ [MailNext]_mailVars
<1> SUFFICES ASSUME [RecoveryNext]_recoveryVars
             PROVE  /\ [CascadeNext]_cascadeVars /\ [RemoteNext]_remoteVars /\ [RatingsNext]_ratingVars
                    /\ [AgentKeysNext]_agentKeyVars /\ [CollabNext]_collabVars /\ [MailNext]_mailVars
  OBVIOUS
<1>1. CASE UNCHANGED recoveryVars
  BY <1>1 DEF recoveryVars
<1>2. CASE RecoveryNext
  BY <1>2 DEF RecoveryNext, OthersStay, Stays, On
<1> QED
  BY <1>1, <1>2

AllInv == CascadeInv /\ RemoteInv /\ RatingInv /\ TimesInv /\ KeyInv /\ CollabInv /\ MailInv

LEMMA AllStay == RecoverySpec => []AllInv
<1>1. RecoveryInit => AllInv
  BY Beginnings, CascadeStarts, RemoteStarts, RatingsStart, TimesStart, KeysStart, CollabStarts,
     MailStarts DEF AllInv
<1>2. AllInv /\ [RecoveryNext]_recoveryVars => AllInv'
  BY Apart, CascadeKept, RemoteKept, RatingsKept, TimesKept, KeysKept, CollabKept, MailStays
     DEF AllInv, RatingInv
<1> QED
  BY <1>1, <1>2, PTL DEF RecoverySpec

\* What was stored last is what is found, for any number of clients, workers, raters,
\* agents and messages and however often Redis and the CB fail: in the store that alone
\* decides, in the file of blockers by calls that take turns, in a rating of the hour,
\* in the agents' keys, and in an inbox or the archive; and the types of all of them.
THEOREM StoresAreCurrent == RecoverySpec => []StoresCurrent
<1>1. AllInv => StoresCurrent
  BY CascadeSays, RemoteSays, RatingsSay, CollabSays
     DEF AllInv, StoresCurrent, RatingInv, KeyInv, MailInv
<1> QED
  BY AllStay, <1>1, PTL

\* The board runs by its own specification, or not at all.
LEMMA BoardRuns == RecoverySpec => Spec
<1>1. RecoveryInit => Init
  BY DEF RecoveryInit
<1>2. [RecoveryNext]_recoveryVars => [Next]_vars
  <2>1. CASE UNCHANGED recoveryVars
    BY <2>1 DEF recoveryVars
  <2>2. CASE RecoveryNext
    BY <2>2 DEF RecoveryNext, OthersStay, Stays, On
  <2> QED
    BY <2>1, <2>2
<1> QED
  BY <1>1, <1>2, PTL DEF RecoverySpec, Spec

\* What is counted stays in its bounds, whoever counts and however often: the retries of
\* a recovered task, whose count is read in one place and written in another; those of
\* _auto_requeue_task, so that a task run on another host is handed out once and
\* RemoteRetries times more, and only the runs that are one shot have limited turns; and
\* compute_rating's score of any finite number of dispatches is between 0 and 1000, where
\* a success in place of a failure lowers no host's rank.
THEOREM BoundsAreKept == RecoverySpec => []BoundsKept
<1>1. AllInv => HandedOutBounded /\ OneShotLimited /\ ScoresInRange /\ SuccessNeverHurts
  BY RemoteSays, ScoresSay DEF AllInv
<1>2. AllInv /\ RetriesCapped => BoundsKept
  BY <1>1 DEF BoundsKept
<1> QED
  BY AllStay, BoardRuns, RetriesAreCapped, <1>2, PTL
=============================================================================
