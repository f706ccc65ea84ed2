--------------------------- MODULE PipelineProofs ---------------------------
(***************************************************************************)
(* What dispatch() promises of GPUs and worktrees, and what the records,   *)
(* the registry and a pipeline say of how agents ended: for any calls,     *)
(* stages, pollers and GPUs, and whatever fails.                           *)
(***************************************************************************)
EXTENDS Pipeline, TLAPS

\* The places at which a call may know a worktree of its own.
Working == (Starting \union Ending) \ {"tree", "final"}

\* What holds of the local variables of a call, wherever it is.
Sound(c) ==
  /\ c.at \in InCall => c.id \in Ids
  /\ c.at \in {"check", "insert"} => c.aim \in Gpus
  /\ c.at \in {"merge", "final"} => c.held = {}
  /\ c.tree => c.at \in Working

\* A worktree that a call knows is there and its own: git refuses a second one.
TreeInv == \A d \in Calls : call[d].tree => trees[call[d].id] = d

CallInv ==
  /\ call \in [Calls -> CallStates]
  /\ \A d \in Calls : Sound(call[d])
  /\ RowsOwned
  /\ TreeInv

Inv == DispatchTypeOK /\ CallInv

LEMMA InitInv == Init => Inv
  BY CallsAssumption
     DEF Init, DispatchInit, Inv, CallInv, DispatchTypeOK, CallStates, Sound, RowsOwned, TreeInv,
          Outside, Plans, NoRecord, Ids, InCall, Scheduling, Starting, Ending

-----------------------------------------------------------------------------

\* When only the call d changes, what is asked of the others follows from what its step
\* does to the tables: it opens no rows but its own, and takes no other call's worktree.
LEMMA OneCall ==
  ASSUME Inv, NEW d \in Calls, NEW c \in CallStates, call' = [call EXCEPT ![d] = c],
         Sound(c), faulty \subseteq faulty', rows' \subseteq Gpus \X Calls,
         \A r \in rows' : r \in rows \/ r[2] = d,
         \A r \in rows' : r[2] = d => d \in faulty' \/ (c.at \in InCall /\ r[1] \in c.held),
         \A i \in Ids : trees'[i] = trees[i] \/ trees[i] \in {NoCall, d},
         c.tree => trees'[c.id] = d
  PROVE  CallInv'
<1> USE CallsAssumption
<1>1. /\ call' \in [Calls -> CallStates]
      /\ call'[d] = c /\ \A e \in Calls \ {d} : call'[e] = call[e]
  BY DEF Inv, DispatchTypeOK
<1>2. ASSUME NEW e \in Calls PROVE Sound(call[e])'
  <2>1. CASE e = d
    BY <1>1, <2>1 DEF Sound, Ids
  <2>2. CASE e # d
    BY <1>1, <2>2 DEF Inv, CallInv, Sound, Ids
  <2> QED
    BY <2>1, <2>2
<1>3. ASSUME NEW r \in rows'
      PROVE  r[2] \in faulty' \/ (InProgress(r[2])' /\ r[1] \in call'[r[2]].held)
  <2>1. CASE r[2] = d
    BY <1>1, <2>1 DEF InProgress
  <2>2. CASE r[2] # d
    BY <1>1, <2>2 DEF Inv, CallInv, RowsOwned, InProgress
  <2> QED
    BY <2>1, <2>2
<1>4. ASSUME NEW e \in Calls, call'[e].tree PROVE trees'[call'[e].id] = e
  <2>1. CASE e = d
    BY <1>1, <1>4, <2>1
  <2>2. CASE e # d
    <3>1. call[e].tree /\ trees[call[e].id] = e /\ Sound(call[e])
      BY <1>1, <1>4, <2>2 DEF Inv, CallInv, TreeInv
    <3>2. call[e].id \in Ids
      BY <3>1 DEF Sound, Working, InCall
    <3> QED
      BY <1>1, <2>2, <3>1, <3>2
  <2> QED
    BY <2>1, <2>2
<1>5. RowsOwned'
  BY <1>3 DEF RowsOwned
<1>6. TreeInv'
  BY <1>4 DEF TreeInv
<1> QED
  BY <1>1, <1>2, <1>5, <1>6 DEF CallInv

\* Most steps only move the call on.
LEMMA Moves ==
  ASSUME Inv, NEW d \in Calls, NEW c \in CallStates, call' = [call EXCEPT ![d] = c],
         UNCHANGED <<rows, trees, faulty>>, Sound(c),
         call[d].at \in InCall => c.at \in InCall /\ c.held = call[d].held,
         c.tree => call[d].tree /\ c.id = call[d].id
  PROVE  CallInv'
<1>1. \A r \in rows : r[2] = d => d \in faulty \/ (c.at \in InCall /\ r[1] \in c.held)
  BY DEF Inv, CallInv, RowsOwned, InProgress
<1>2. c.tree => trees[c.id] = d
  BY DEF Inv, CallInv, TreeInv
<1>3. rows \subseteq Gpus \X Calls
  BY DEF Inv, DispatchTypeOK
<1> QED
  BY <1>1, <1>2, <1>3, OneCall

\* The steps that change nothing of a call but where it is.
LEMMA Goes ==
  ASSUME Inv, NEW d \in Calls, NEW a \in InCall, call' = [call EXCEPT ![d].at = a],
         UNCHANGED <<rows, trees, faulty>>, call[d].at \in InCall,
         a \in {"check", "insert"} => call[d].aim \in Gpus,
         a \in {"merge", "final"} => call[d].held = {},
         call[d].tree => a \in Working
  PROVE  CallInv'
<1> DEFINE c == [call[d] EXCEPT !.at = a]
<1>1. call[d] \in CallStates /\ Sound(call[d])
  BY DEF Inv, CallInv
<1>2. /\ c \in CallStates /\ c.at = a /\ c.held = call[d].held
      /\ c.tree = call[d].tree /\ c.id = call[d].id /\ c.aim = call[d].aim
  BY <1>1 DEF CallStates
<1>3. Sound(c)
  BY <1>1, <1>2 DEF Sound
<1>4. call' = [call EXCEPT ![d] = c]
  OBVIOUS
<1> HIDE DEF c
<1> QED
  BY <1>2, <1>3, <1>4, Moves

-----------------------------------------------------------------------------

LEMMA AfterPlaces == \A c \in CallStates : After(c) \in {"best", "each", "combine", "tree"}
  BY DEF After

LEMMA NextInv == Inv /\ [Next]_vars => Inv'
<1> SUFFICES ASSUME Inv, [Next]_vars PROVE Inv'
  OBVIOUS
<1> USE CallsAssumption
<1>0. /\ \A d \in Calls : call[d] \in CallStates /\ Sound(call[d])
      /\ DispatchTypeOK /\ RowsOwned /\ TreeInv
  BY DEF Inv, CallInv
<1>1. ASSUME NEW d \in Calls, Begin(d) PROVE Inv'
  <2>1. PICK i \in Ids, p \in Wants[d] :
          /\ clock' = i
          /\ call' = [call EXCEPT ![d] = [Outside EXCEPT
                        !.at = IF p.gpu = "none" THEN "tree" ELSE "prefer", !.id = i, !.plan = p]]
    BY <1>1 DEF Begin
  <2> DEFINE c == [Outside EXCEPT !.at = IF p.gpu = "none" THEN "tree" ELSE "prefer",
                                  !.id = i, !.plan = p]
  <2>2. c \in CallStates
    <3>1. i \in 0..MaxId /\ p \in Plans
      BY DEF Ids
    <3> QED
      BY <3>1 DEF CallStates, Outside, InCall, Scheduling, Starting
  <2>3. Sound(c) /\ ~c.tree
    BY DEF Sound, Outside, InCall, Scheduling, Starting
  <2>4. call[d].at \notin InCall
    BY <1>1 DEF Begin, InCall, Scheduling, Starting, Ending
  <2>5. call' = [call EXCEPT ![d] = c] /\ UNCHANGED <<rows, trees, faulty>>
    BY <1>1, <2>1 DEF Begin
  <2> HIDE DEF c
  <2>6. CallInv'
    BY <2>2, <2>3, <2>4, <2>5, Moves
  <2> QED
    BY <1>1, <2>1, <2>6 DEF Inv, CallInv, DispatchTypeOK, Begin, Ids
<1>2. ASSUME NEW d \in Calls, Look(d) PROVE Inv'
  <2>1. ~call[d].tree /\ call[d].at \in InCall /\ call[d].at \in {"prefer", "best"}
    BY <1>0, <1>2 DEF Look, Sound, InCall, Scheduling, Starting, Ending, Working
  <2>2. CASE call' = [call EXCEPT ![d].at = After(call[d])]
    <3>1. After(call[d]) \in InCall \ {"check", "insert", "merge", "final"}
      BY <1>0, AfterPlaces DEF InCall, Scheduling, Starting
    <3> QED
      BY <1>2, <2>1, <2>2, <3>1, Goes DEF Inv, CallInv, DispatchTypeOK, Look
  <2>3. ASSUME NEW g \in Unallocated,
               call' = [call EXCEPT ![d] =
                           [@ EXCEPT !.at = "check", !.goal = call[d].at, !.aim = g]]
        PROVE Inv'
    <3> DEFINE c == [call[d] EXCEPT !.at = "check", !.goal = call[d].at, !.aim = g]
    <3>1. /\ c \in CallStates /\ Sound(c) /\ c.at \in InCall
          /\ c.held = call[d].held /\ c.tree = call[d].tree
      BY <1>0, <2>1, ZenonT(40) DEF CallStates, Unallocated, Sound, InCall, Scheduling
    <3>2. call' = [call EXCEPT ![d] = c] /\ UNCHANGED <<rows, trees, faulty>>
      BY <1>2, <2>3 DEF Look
    <3> HIDE DEF c
    <3>3. CallInv'
      BY <2>1, <3>1, <3>2, Moves
    <3> QED
      BY <1>2, <3>3 DEF Inv, CallInv, DispatchTypeOK, Look
  <2> QED
    BY <1>2, <2>2, <2>3 DEF Look
<1>3. ASSUME NEW d \in Calls, LookForMany(d) PROVE Inv'
  <2>1. ~call[d].tree
    BY <1>0, <1>3 DEF LookForMany, Sound, Starting, Ending, Working
  <2> DEFINE c == [call[d] EXCEPT !.at = "hosts", !.goal = "combine", !.seen = Unallocated]
  <2>2. /\ c \in CallStates /\ Sound(c) /\ c.at \in InCall
        /\ c.held = call[d].held /\ c.tree = call[d].tree
    BY <1>0, <1>3, <2>1, ZenonT(40) DEF LookForMany, CallStates, Unallocated, Sound, InCall, Scheduling
  <2>3. call' = [call EXCEPT ![d] = c] /\ UNCHANGED <<rows, trees, faulty>>
    BY <1>3 DEF LookForMany
  <2> HIDE DEF c
  <2>4. CallInv'
    BY <2>1, <2>2, <2>3, Moves
  <2> QED
    BY <1>3, <2>4 DEF Inv, CallInv, DispatchTypeOK, LookForMany
<1>4. ASSUME NEW d \in Calls, PickHost(d) PROVE Inv'
  <2>1. ~call[d].tree /\ call[d].at \in InCall
    BY <1>0, <1>4 DEF PickHost, Sound, InCall, Scheduling, Starting, Ending, Working
  <2>2. ASSUME NEW c \in CallStates, Sound(c), c.at \in InCall, c.held = call[d].held, ~c.tree,
               call' = [call EXCEPT ![d] = c]
        PROVE Inv'
    <3>1. CallInv'
      BY <1>4, <2>1, <2>2, Moves DEF PickHost
    <3> QED
      BY <1>4, <3>1 DEF Inv, CallInv, DispatchTypeOK, PickHost
  <2>3. CASE call' = [call EXCEPT ![d] = [@ EXCEPT !.at = "tree", !.seen = {}]]
    <3> DEFINE c == [call[d] EXCEPT !.at = "tree", !.seen = {}]
    <3>1. c \in CallStates /\ Sound(c) /\ c.at \in InCall /\ c.held = call[d].held /\ ~c.tree
      BY <1>0, <2>1, ZenonT(40) DEF CallStates, Sound, InCall, Starting
    <3>2. call' = [call EXCEPT ![d] = c]
      BY <2>3
    <3> HIDE DEF c
    <3> QED
      BY <2>2, <3>1, <3>2
  <2>4. ASSUME NEW here \in SUBSET call[d].seen,
               call' = [call EXCEPT ![d] =
                           [@ EXCEPT !.at = "each", !.todo = here, !.seen = call[d].seen \ here]]
        PROVE Inv'
    <3> DEFINE c == [call[d] EXCEPT !.at = "each", !.todo = here, !.seen = call[d].seen \ here]
    <3>1. c \in CallStates /\ Sound(c) /\ c.at \in InCall /\ c.held = call[d].held /\ ~c.tree
      BY <1>0, <2>1, ZenonT(40) DEF CallStates, Sound, InCall, Scheduling
    <3>2. call' = [call EXCEPT ![d] = c]
      BY <1>0, <2>4 DEF CallStates
    <3> HIDE DEF c
    <3> QED
      BY <2>2, <3>1, <3>2
  <2>5. CASE \E h \in Hosts : LET here == {g \in call[d].seen : HostOf[g] = h}
                             IN  call' = [call EXCEPT ![d] =
               [@ EXCEPT !.at = "each", !.todo = here, !.seen = call[d].seen \ here]]
    <3>1. PICK h \in Hosts : LET here == {g \in call[d].seen : HostOf[g] = h}
                            IN  call' = [call EXCEPT ![d] =
               [@ EXCEPT !.at = "each", !.todo = here, !.seen = call[d].seen \ here]]
      BY <2>5
    <3> DEFINE here == {g \in call[d].seen : HostOf[g] = h}
    <3>2. here \in SUBSET call[d].seen
      OBVIOUS
    <3>3. call' = [call EXCEPT ![d] =
                     [@ EXCEPT !.at = "each", !.todo = here, !.seen = call[d].seen \ here]]
      BY <3>1
    <3> HIDE DEF here
    <3> QED
      BY <2>4, <3>2, <3>3
  <2> QED
    BY <1>4, <2>3, <2>5 DEF PickHost
<1>5. ASSUME NEW d \in Calls, Each(d) PROVE Inv'
  <2>1. ~call[d].tree /\ call[d].at \in InCall
    BY <1>0, <1>5 DEF Each, Sound, InCall, Scheduling, Starting, Ending, Working
  <2>2. ASSUME NEW c \in CallStates, Sound(c), c.at \in InCall, c.held = call[d].held, ~c.tree,
               call' = [call EXCEPT ![d] = c]
        PROVE Inv'
    <3>1. CallInv'
      BY <1>5, <2>1, <2>2, Moves DEF Each
    <3> QED
      BY <1>5, <3>1 DEF Inv, CallInv, DispatchTypeOK, Each
  <2>3. ASSUME NEW g \in call[d].todo,
               call' = [call EXCEPT ![d] =
                           [@ EXCEPT !.at = "check", !.aim = g, !.todo = call[d].todo \ {g}]]
        PROVE Inv'
    <3> DEFINE c == [call[d] EXCEPT !.at = "check", !.aim = g, !.todo = call[d].todo \ {g}]
    <3>1. c \in CallStates /\ Sound(c) /\ c.at \in InCall /\ c.held = call[d].held /\ ~c.tree
      BY <1>0, <2>1, ZenonT(40) DEF CallStates, Sound, InCall, Scheduling
    <3>2. call' = [call EXCEPT ![d] = c]
      BY <1>0, <2>3 DEF CallStates
    <3> HIDE DEF c
    <3> QED
      BY <2>2, <3>1, <3>2
  <2>4. CASE call' = [call EXCEPT ![d] = [@ EXCEPT !.at = "tree", !.seen = {}]]
    <3> DEFINE c == [call[d] EXCEPT !.at = "tree", !.seen = {}]
    <3>1. c \in CallStates /\ Sound(c) /\ c.at \in InCall /\ c.held = call[d].held /\ ~c.tree
      BY <1>0, <2>1, ZenonT(40) DEF CallStates, Sound, InCall, Starting
    <3>2. call' = [call EXCEPT ![d] = c]
      BY <2>4
    <3> HIDE DEF c
    <3> QED
      BY <2>2, <3>1, <3>2
  <2>5. CASE call' = [call EXCEPT ![d].at = "undo"]
    <3>1. CallInv'
      BY <1>5, <2>1, <2>5, Goes DEF Each, InCall, Scheduling
    <3> QED
      BY <1>5, <3>1 DEF Inv, CallInv, DispatchTypeOK, Each
  <2> QED
    BY <1>5, <2>3, <2>4, <2>5 DEF Each
<1>6. ASSUME NEW d \in Calls, Check(d) PROVE Inv'
  <2>1. ~call[d].tree /\ call[d].at \in InCall /\ call[d].aim \in Gpus
    BY <1>0, <1>6 DEF Check, Sound, InCall, Scheduling, Starting, Ending, Working
  <2>2. CASE call' = [call EXCEPT ![d].at = "insert"]
    <3>1. CallInv'
      BY <1>6, <2>1, <2>2, Goes DEF Check, InCall, Scheduling
    <3> QED
      BY <1>6, <3>1 DEF Inv, CallInv, DispatchTypeOK, Check
  <2>3. CASE call' = [call EXCEPT ![d] = [@ EXCEPT !.at = After(call[d]), !.aim = NoGpu]]
    <3> DEFINE c == [call[d] EXCEPT !.at = After(call[d]), !.aim = NoGpu]
    <3>1. c \in CallStates /\ Sound(c) /\ c.at \in InCall /\ c.held = call[d].held /\ ~c.tree
      BY <1>0, <2>1, AfterPlaces, ZenonT(40) DEF CallStates, Sound, InCall, Scheduling, Starting
    <3>2. call' = [call EXCEPT ![d] = c] /\ UNCHANGED <<rows, trees, faulty>>
      BY <1>6, <2>3 DEF Check
    <3> HIDE DEF c
    <3>3. CallInv'
      BY <3>1, <3>2, Moves
    <3> QED
      BY <1>6, <3>3 DEF Inv, CallInv, DispatchTypeOK, Check
  <2> QED
    BY <1>6, <2>2, <2>3 DEF Check
<1>7. ASSUME NEW d \in Calls, Insert(d) PROVE Inv'
  <2>1. ~call[d].tree /\ call[d].at \in InCall /\ call[d].aim \in Gpus
    BY <1>0, <1>7 DEF Insert, Sound, InCall, Scheduling, Starting, Ending, Working
  <2> DEFINE c == [call[d] EXCEPT
                     !.at = IF call[d].goal = "combine" THEN "each" ELSE "tree",
                     !.held = call[d].held \union {call[d].aim}, !.aim = NoGpu]
  <2>2. /\ c \in CallStates /\ Sound(c) /\ c.at \in InCall /\ ~c.tree
        /\ c.held = call[d].held \union {call[d].aim}
    BY <1>0, <2>1, ZenonT(40) DEF CallStates, Sound, InCall, Scheduling, Starting
  <2>3. /\ call' = [call EXCEPT ![d] = c] /\ rows' = rows \union {<<call[d].aim, d>>}
        /\ UNCHANGED <<trees, faulty>>
    BY <1>0, <1>7 DEF Insert, CallStates
  <2> HIDE DEF c
  <2>4. rows' \subseteq Gpus \X Calls
    BY <1>0, <2>1, <2>3 DEF DispatchTypeOK
  <2>5. ASSUME NEW r \in rows', r[2] = d PROVE d \in faulty' \/ r[1] \in c.held
    BY <1>0, <2>2, <2>3, <2>5 DEF RowsOwned, InProgress
  <2>6. \A r \in rows' : r \in rows \/ r[2] = d
    BY <2>3
  <2>7. CallInv'
    BY <2>2, <2>3, <2>4, <2>5, <2>6, OneCall
  <2> QED
    BY <1>7, <2>4, <2>7 DEF Inv, CallInv, DispatchTypeOK, Insert
<1>8. ASSUME NEW d \in Calls, NEW g, call[d].at \in InCall, Release(g),
             call' = [call EXCEPT ![d].held = @ \ {g}],
             UNCHANGED <<clock, trees, job, record, pidfile, output, faulty>>
      PROVE Inv'
  <2> DEFINE c == [call[d] EXCEPT !.held = @ \ {g}]
  <2>1. /\ c \in CallStates /\ c.at = call[d].at /\ c.held = call[d].held \ {g}
        /\ c.tree = call[d].tree /\ c.id = call[d].id /\ c.aim = call[d].aim
    BY <1>0 DEF CallStates
  <2>2. call' = [call EXCEPT ![d] = c]
    BY <1>8
  <2> HIDE DEF c
  <2>3. Sound(c)
    BY <1>0, <2>1 DEF Sound
  <2>4. rows' \subseteq rows /\ \A r \in rows' : r[1] # g
    BY <1>8 DEF Release
  <2>5. \A r \in rows' : r[2] = d => d \in faulty' \/ r[1] \in c.held
    BY <1>0, <1>8, <2>1, <2>4 DEF RowsOwned, InProgress
  <2>6. rows' \subseteq Gpus \X Calls
    BY <1>0, <2>4 DEF DispatchTypeOK
  <2>7. c.tree => trees[c.id] = d
    BY <1>0, <2>1 DEF TreeInv
  <2>8. CallInv'
    BY <1>8, <2>1, <2>2, <2>3, <2>4, <2>5, <2>6, <2>7, OneCall
  <2> QED
    BY <1>8, <2>6, <2>8 DEF Inv, CallInv, DispatchTypeOK
<1>9. ASSUME NEW d \in Calls, Undo(d) PROVE Inv'
  <2>1. ~call[d].tree /\ call[d].at \in InCall
    BY <1>0, <1>9 DEF Undo, Sound, InCall, Scheduling, Starting, Ending, Working
  <2>2. CASE call' = [call EXCEPT ![d].at = "hosts"] /\ UNCHANGED rows
    <3>1. CallInv'
      BY <1>9, <2>1, <2>2, Goes DEF Undo, InCall, Scheduling
    <3> QED
      BY <1>9, <2>2, <3>1 DEF Inv, CallInv, DispatchTypeOK, Undo
  <2> QED
    BY <1>8, <1>9, <2>1, <2>2 DEF Undo
<1>10. ASSUME NEW d \in Calls, SchedulerFails(d) PROVE Inv'
  <2>1. ~call[d].tree /\ call[d].at \in InCall
    BY <1>0, <1>10 DEF SchedulerFails, Sound, InCall, Scheduling, Starting, Ending, Working
  <2> DEFINE c == [call[d] EXCEPT !.at = "tree", !.aim = NoGpu, !.seen = {},
                                  !.todo = {}, !.held = {}]
  <2>2. c \in CallStates /\ Sound(c) /\ ~c.tree
    BY <1>0, <2>1, ZenonT(40) DEF CallStates, Sound, InCall, Starting
  <2>3. /\ call' = [call EXCEPT ![d] = c] /\ faulty' = faulty \union {d}
        /\ UNCHANGED <<rows, trees>>
    BY <1>10 DEF SchedulerFails
  <2> HIDE DEF c
  <2>4. rows \subseteq Gpus \X Calls
    BY <1>0 DEF DispatchTypeOK
  <2>5. CallInv'
    BY <2>2, <2>3, <2>4, OneCall
  <2> QED
    BY <1>10, <2>5 DEF Inv, CallInv, DispatchTypeOK, SchedulerFails
<1>11. ASSUME NEW d \in Calls, CreateTree(d) PROVE Inv'
  <2>1. /\ ~call[d].tree /\ call[d].at = "tree" /\ call[d].at \in InCall /\ call[d].id \in Ids
        /\ call[d].plan.tree \in BOOLEAN
    BY <1>0, <1>11 DEF CreateTree, Sound, CallStates, Plans, InCall, Starting, Working
  <2> DEFINE i == call[d].id
             made == call[d].plan.tree /\ trees[i] = NoCall
  <2>2. \A j \in Ids : [trees EXCEPT ![i] = d][j] = trees[j] \/ j = i
    BY <1>0 DEF DispatchTypeOK
  <2>3. made => [trees EXCEPT ![i] = d] \in [Ids -> Calls \union {NoCall}]
                /\ [trees EXCEPT ![i] = d][i] = d
    BY <1>0, <2>1 DEF DispatchTypeOK
  <2>4. /\ trees' \in [Ids -> Calls \union {NoCall}]
        /\ \A j \in Ids : trees'[j] = trees[j] \/ trees[j] \in {NoCall, d}
    BY <1>0, <1>11, <2>2, <2>3 DEF CreateTree, DispatchTypeOK
  <2>5. rows \subseteq Gpus \X Calls
    BY <1>0 DEF DispatchTypeOK
  <2>6. \A r \in rows : r[2] = d => d \in faulty \/ r[1] \in call[d].held
    BY <1>0 DEF RowsOwned, InProgress
  <2>7. ASSUME NEW c \in CallStates, c.at = "record", c.held = call[d].held, c.id = i,
               c.tree => trees'[i] = d, call' = [call EXCEPT ![d] = c],
               faulty \subseteq faulty', faulty' \subseteq Calls
        PROVE Inv'
    <3>1. UNCHANGED rows
      BY <1>11 DEF CreateTree
    <3>2. Sound(c) /\ c.at \in InCall
      BY <2>1, <2>7 DEF Sound, InCall, Starting, Working
    <3>3. CallInv'
      BY <2>4, <2>5, <2>6, <2>7, <3>1, <3>2, OneCall
    <3> QED
      BY <1>11, <2>4, <2>7, <3>3 DEF Inv, CallInv, DispatchTypeOK, CreateTree
  <2>8. CASE /\ trees' = IF made THEN [trees EXCEPT ![i] = d] ELSE trees
             /\ call' = [call EXCEPT ![d] = [@ EXCEPT !.at = "record", !.tree = made]]
             /\ UNCHANGED faulty
    <3> DEFINE c == [call[d] EXCEPT !.at = "record", !.tree = made]
    <3>1. /\ c \in CallStates /\ c.at = "record" /\ c.held = call[d].held
          /\ c.id = i /\ c.tree = made
      BY <1>0, <2>1, ZenonT(40) DEF CallStates, InCall, Starting
    <3>2. call' = [call EXCEPT ![d] = c]
      BY <2>8
    <3> HIDE DEF c
    <3>3. c.tree => trees'[i] = d
      BY <2>3, <2>8, <3>1
    <3> QED
      BY <1>0, <2>7, <2>8, <3>1, <3>2, <3>3 DEF DispatchTypeOK
  <2>9. CASE faulty' = faulty \union {d} /\ call' = [call EXCEPT ![d].at = "record"]
    <3> DEFINE c == [call[d] EXCEPT !.at = "record"]
    <3>1. c \in CallStates /\ c.at = "record" /\ c.held = call[d].held /\ c.id = i /\ ~c.tree
      BY <1>0, <2>1 DEF CallStates, InCall, Starting
    <3>2. call' = [call EXCEPT ![d] = c]
      BY <2>9
    <3> HIDE DEF c
    <3> QED
      BY <1>0, <2>7, <2>9, <3>1, <3>2 DEF DispatchTypeOK
  <2> QED
    BY <1>11, <2>8, <2>9 DEF CreateTree
<1>12. ASSUME NEW d \in Calls, SaveRecord(d) \/ Spawn(d) \/ WritePid(d) \/ Run(d) PROVE Inv'
  <2>1. PICK a \in {"spawn", "run", "pid", "release", "wait"} : call' = [call EXCEPT ![d].at = a]
    BY <1>12 DEF SaveRecord, Spawn, WritePid, Run
  <2>2. a \in InCall /\ call[d].at \in InCall /\ a \in Working
    BY <1>12 DEF SaveRecord, Spawn, WritePid, Run, InCall, Starting, Ending, Working
  <2>3. UNCHANGED <<rows, trees, faulty>>
    BY <1>12 DEF SaveRecord, Spawn, WritePid, Run
  <2>4. CallInv'
    BY <2>1, <2>2, <2>3, Goes
  <2>5. CASE SaveRecord(d)
    BY <2>4, <2>5 DEF Inv, CallInv, DispatchTypeOK, SaveRecord
  <2>6. CASE Spawn(d)
    BY <2>4, <2>6 DEF Inv, CallInv, DispatchTypeOK, Spawn
  <2>7. CASE WritePid(d)
    BY <2>4, <2>7 DEF Inv, CallInv, DispatchTypeOK, WritePid
  <2>8. CASE Run(d)
    BY <2>4, <2>8 DEF Inv, CallInv, DispatchTypeOK, Run
  <2> QED
    BY <1>12, <2>5, <2>6, <2>7, <2>8
<1>13. ASSUME NEW d \in Calls, Wait(d) \/ Timeout(d) PROVE Inv'
  <2>1. PICK r \in {"completed", "failed"} :
          call' = [call EXCEPT ![d] = [@ EXCEPT !.at = "release", !.result = r]]
    BY <1>13 DEF Wait, Timeout
  <2> DEFINE c == [call[d] EXCEPT !.at = "release", !.result = r]
  <2>2. /\ c \in CallStates /\ Sound(c) /\ c.at \in InCall
        /\ c.held = call[d].held /\ c.tree = call[d].tree /\ c.id = call[d].id
    BY <1>0, <1>13, ZenonT(40) DEF Wait, Timeout, CallStates, Sound, InCall, Starting, Ending, Working
  <2>3. call' = [call EXCEPT ![d] = c] /\ UNCHANGED <<rows, trees, faulty>>
    BY <1>13, <2>1 DEF Wait, Timeout
  <2> HIDE DEF c
  <2>4. CallInv'
    BY <2>2, <2>3, Moves
  <2> QED
    BY <1>13, <2>4 DEF Inv, CallInv, DispatchTypeOK, Wait, Timeout
<1>14. ASSUME NEW d \in Calls, ReleaseGpus(d) PROVE Inv'
  <2>1. call[d].at \in InCall
    BY <1>14 DEF ReleaseGpus, InCall, Ending
  <2>2. CASE /\ call[d].held = {} /\ call' = [call EXCEPT ![d].at = "merge"]
             /\ UNCHANGED <<rows, faulty>>
    <3>1. CallInv'
      BY <1>14, <2>1, <2>2, Goes DEF ReleaseGpus, InCall, Ending, Working
    <3> QED
      BY <1>14, <2>2, <3>1 DEF Inv, CallInv, DispatchTypeOK, ReleaseGpus
  <2>3. CASE /\ call[d].held # {} /\ MayFail(d) /\ faulty' = faulty \union {d}
             /\ call' = [call EXCEPT ![d] = [@ EXCEPT !.at = "merge", !.held = {}]]
             /\ UNCHANGED rows
    <3> DEFINE c == [call[d] EXCEPT !.at = "merge", !.held = {}]
    <3>1. c \in CallStates /\ Sound(c) /\ c.tree = call[d].tree /\ c.id = call[d].id
      BY <1>0, <2>1 DEF CallStates, Sound, InCall, Ending, Working
    <3>2. call' = [call EXCEPT ![d] = c] /\ UNCHANGED trees
      BY <1>14, <2>3 DEF ReleaseGpus
    <3> HIDE DEF c
    <3>3. rows \subseteq Gpus \X Calls /\ (c.tree => trees[c.id] = d)
      BY <1>0, <3>1 DEF DispatchTypeOK, TreeInv
    <3>4. CallInv'
      BY <2>3, <3>1, <3>2, <3>3, OneCall
    <3> QED
      BY <1>14, <2>3, <3>4 DEF Inv, CallInv, DispatchTypeOK, ReleaseGpus
  <2> QED
    BY <1>8, <1>14, <2>1, <2>2, <2>3 DEF ReleaseGpus
<1>15. ASSUME NEW d \in Calls, Merge(d) PROVE Inv'
  <2> DEFINE c == [call[d] EXCEPT !.at = "final", !.tree = FALSE]
  <2>1. /\ c \in CallStates /\ Sound(c) /\ ~c.tree /\ c.at \in InCall /\ c.held = call[d].held
        /\ call[d].at \in InCall
    BY <1>0, <1>15, ZenonT(40) DEF Merge, CallStates, Sound, InCall, Ending
  <2>2. call' = [call EXCEPT ![d] = c] /\ UNCHANGED <<rows, faulty>>
    BY <1>15 DEF Merge
  <2> HIDE DEF c
  <2>3. /\ trees' \in [Ids -> Calls \union {NoCall}]
        /\ \A i \in Ids : trees'[i] = trees[i] \/ trees[i] \in {NoCall, d}
    <3>1. CASE UNCHANGED trees
      BY <1>0, <3>1 DEF DispatchTypeOK
    <3>2. CASE call[d].tree /\ trees' = [trees EXCEPT ![call[d].id] = NoCall]
      BY <1>0, <3>2 DEF DispatchTypeOK, TreeInv
    <3> QED
      BY <1>15, <3>1, <3>2 DEF Merge
  <2>4. rows \subseteq Gpus \X Calls
    BY <1>0 DEF DispatchTypeOK
  <2>5. \A r \in rows : r[2] = d => d \in faulty \/ r[1] \in c.held
    BY <1>0, <2>1 DEF RowsOwned, InProgress
  <2>6. CallInv'
    BY <2>1, <2>2, <2>3, <2>4, <2>5, OneCall
  <2> QED
    BY <1>15, <2>3, <2>6 DEF Inv, CallInv, DispatchTypeOK, Merge
<1>16. ASSUME NEW d \in Calls, Final(d) PROVE Inv'
  <2> DEFINE c == [call[d] EXCEPT !.at = "returned"]
  <2>1. c \in CallStates /\ Sound(c) /\ ~c.tree /\ call[d].held = {}
    BY <1>0, <1>16 DEF Final, CallStates, Sound, InCall, Scheduling, Starting, Ending, Working
  <2>2. call' = [call EXCEPT ![d] = c] /\ UNCHANGED <<rows, trees, faulty>>
    BY <1>16 DEF Final
  <2> HIDE DEF c
  <2>3. rows \subseteq Gpus \X Calls /\ \A r \in rows : r[2] = d => d \in faulty
    BY <1>0, <2>1 DEF DispatchTypeOK, RowsOwned
  <2>4. CallInv'
    BY <2>1, <2>2, <2>3, OneCall
  <2>5. call[d].result \in {"running", "completed", "failed"}
    BY <1>0 DEF CallStates
  <2> QED
    BY <1>16, <2>4, <2>5 DEF Inv, CallInv, DispatchTypeOK, Final
<1>17. ASSUME NEW d \in Calls, Abort(d) PROVE Inv'
  <2> DEFINE c == [Outside EXCEPT !.at = "dead", !.id = call[d].id, !.result = "failed"]
  <2>1. c \in CallStates /\ Sound(c) /\ ~c.tree
    BY <1>0 DEF CallStates, Sound, Outside, Plans, InCall, Scheduling, Starting, Ending
  <2>2. /\ call' = [call EXCEPT ![d] = c] /\ faulty' = faulty \union {d}
        /\ UNCHANGED <<rows, trees>>
    BY <1>17 DEF Abort
  <2> HIDE DEF c
  <2>3. rows \subseteq Gpus \X Calls
    BY <1>0 DEF DispatchTypeOK
  <2>4. CallInv'
    BY <2>1, <2>2, <2>3, OneCall
  <2> QED
    BY <1>17, <2>4 DEF Inv, CallInv, DispatchTypeOK, Abort
<1>18. ASSUME NEW d \in Calls, OpenToRegister(d) PROVE Inv'
  <2> DEFINE c == [call[d] EXCEPT !.at = "opened"]
  <2>1. c \in CallStates /\ Sound(c) /\ ~c.tree /\ call[d].at \notin InCall
    BY <1>0, <1>18
       DEF OpenToRegister, CallStates, Sound, InCall, Scheduling, Starting, Ending, Working
  <2>2. call' = [call EXCEPT ![d] = c] /\ UNCHANGED <<rows, trees, faulty>>
    BY <1>18 DEF OpenToRegister
  <2> HIDE DEF c
  <2>3. CallInv'
    BY <2>1, <2>2, Moves
  <2> QED
    BY <1>18, <2>3 DEF Inv, CallInv, DispatchTypeOK, OpenToRegister
<1>19. ASSUME NEW d \in Calls, Register(d) \/ Collect(d) PROVE Inv'
  <2> DEFINE c == [Outside EXCEPT !.at = "done", !.id = call[d].id]
  <2>1. c \in CallStates /\ Sound(c) /\ ~c.tree /\ call[d].at \notin InCall
    BY <1>0, <1>19 DEF Register, Collect, CallStates, Sound, Outside, Plans,
                       InCall, Scheduling, Starting, Ending
  <2>2. call' = [call EXCEPT ![d] = c] /\ UNCHANGED <<rows, trees, faulty>>
    BY <1>19 DEF Register, Collect
  <2> HIDE DEF c
  <2>3. CallInv'
    BY <2>1, <2>2, Moves
  <2> QED
    BY <1>19, <2>3 DEF Inv, CallInv, DispatchTypeOK, Register, Collect
<1>20. ASSUME NEW d \in Calls, NoHost(d) PROVE Inv'
  <2> DEFINE c == [Outside EXCEPT !.at = "done", !.id = call[d].id]
  <2>1. c \in CallStates /\ Sound(c) /\ ~c.tree
    BY <1>0 DEF CallStates, Sound, Outside, Plans, InCall, Scheduling, Starting, Ending
  <2>2. /\ call' = [call EXCEPT ![d] = c] /\ faulty' = faulty \union {d}
        /\ UNCHANGED <<rows, trees>>
    BY <1>20 DEF NoHost
  <2> HIDE DEF c
  <2>3. rows \subseteq Gpus \X Calls
    BY <1>0 DEF DispatchTypeOK
  <2>4. CallInv'
    BY <2>1, <2>2, <2>3, OneCall
  <2> QED
    BY <1>20, <2>4 DEF Inv, CallInv, DispatchTypeOK, NoHost
<1>21. ASSUME UNCHANGED <<call, rows, trees, faulty>>, DispatchTypeOK' PROVE Inv'
  BY <1>0, <1>21 DEF Inv, CallInv, Sound, RowsOwned, InProgress, TreeInv, DispatchTypeOK
<1>22. ASSUME NEW d \in Calls, JobEnds(d) PROVE Inv'
  BY <1>0, <1>21, <1>22 DEF JobEnds, DispatchTypeOK
<1>23. ASSUME NEW p \in Pollers, PollOne(p) PROVE Inv'
  BY <1>0, <1>21, <1>23 DEF PollOne, DispatchTypeOK
<1>24. ASSUME NEW p \in Pollers, Cancel(p) PROVE Inv'
  BY <1>0, <1>21, <1>24 DEF Cancel, DispatchTypeOK
<1>25. CASE UNCHANGED dispatchVars
  BY <1>0, <1>21, <1>25 DEF dispatchVars, DispatchTypeOK
<1>26. ASSUME NEW d \in Calls,
              Start(d) \/ CallStep(d) \/ CallFault(d) \/ AgentEnds(d) \/ Tracking(d)
       PROVE Inv'
  BY <1>1, <1>2, <1>3, <1>4, <1>5, <1>6, <1>7, <1>9, <1>10, <1>11, <1>12, <1>13, <1>14, <1>15,
     <1>16, <1>17, <1>18, <1>19, <1>22, <1>26
     DEF Start, CallStep, CallFault, AgentEnds, Tracking, Step, Schedule, Fault, RegistryStep
<1>27. ASSUME NEW p \in Pollers, Polling(p) \/ Using(p) PROVE Inv'
  BY <1>23, <1>24, <1>25, <1>27 DEF Polling, Using, PollerStep, Poll, PollSave, Open, Cleanup
<1>28. ASSUME PipelineStep PROVE Inv'
  BY <1>1, <1>19, <1>20, <1>25, <1>28, PipelineAssumption
     DEF PipelineStep, NextBatch, Loop, BackFromLoop, BatchOver, StartStage
<1> QED
  BY <1>25, <1>26, <1>27, <1>28 DEF Next, vars

THEOREM Invariance == Spec => []Inv
  BY InitInv, NextInv, PTL DEF Spec

\* The types of the dispatchers' variables, in every reachable state.
THEOREM DispatchTypes == Spec => []DispatchTypeOK
<1>1. Inv => DispatchTypeOK
  BY DEF Inv
<1> QED
  BY <1>1, Invariance, PTL

\* Whatever calls combine, try, lose and give back GPUs at the same time, every open
\* allocation is that of a call under way which will release it, unless a command of
\* that call failed or its process died.
THEOREM RowsAreOwned == Spec => []RowsOwned
<1>1. Inv => RowsOwned
  BY DEF Inv, CallInv
<1> QED
  BY <1>1, Invariance, PTL

\* The worktree of a call that waits for its agent is never removed by another call,
\* not even by one with the same dispatch id.
THEOREM WorktreeStays == Spec => []WorktreeKept
<1>1. Inv => WorktreeKept
  BY DEF Inv, CallInv, TreeInv, WorktreeKept
<1> QED
  BY <1>1, Invariance, PTL

-----------------------------------------------------------------------------
\* How agents ended.

\* The places of a background call after its process was spawned and its PID written.
Ran == {"release", "merge", "final", "returned", "opened", "done", "dead"}

\* A PID of the background call e, which has spawned its only process, is that of the id i.
Known(e, i) == e \in Detached /\ call[e].id = i /\ call[e].at \in Ran

\* Where a call may be; the stages that are under way are those of the round.
AtPlace(d) ==
  /\ d \in Detached => call[d].at \notin {"run", "wait"}
  /\ d \notin Detached => call[d].at \notin {"spawn", "pid", "opened"}
  /\ call[d].at = "off" => call[d].id = 0
  /\ call[d].at \notin {"off", "done"} => call[d].id \in Ids
  /\ d \in Detached /\ call[d].at \in Ran \ {"done", "dead"} => pidfile[call[d].id] # NoCall
  /\ d \in Stages /\ call[d].at \notin {"off", "done"} => exec = "running" /\ d \in round \ todo

PlaceInv == \A d \in Calls : AtPlace(d)

\* An entry of the registry, in the file or in an instance, names a process that has been
\* spawned, and is closed when that process has ended.
EntryKnown(entry, i) ==
  /\ entry.status # "absent" => Known(entry.pid, i)
  /\ entry.status \in Finished => job[entry.pid] # "running"

FileInv ==
  /\ \A i \in Ids : pidfile[i] # NoCall => Known(pidfile[i], i)
  /\ \A i \in Ids : EntryKnown(disk[i], i)
  /\ \A u \in Users, i \in Ids : EntryKnown(mem[u][i], i)
  /\ \A p \in Pollers : \A i \in poller[p].todo : mem[p][i].status = "running"

\* The result of a call is that of its process.
TellsResult(d) ==
  call[d].at \in Ending \union {"returned"} =>
    job[d] # "running" /\ (call[d].result = "completed" <=> job[d] = "ok")

\* A stage of the round that has not started keeps the id of its last execution, and does
\* not write to the record of that id any more.
OnlyTodo(d) == \A e \in Calls \ {d} : call[e].id = call[d].id => e \in todo

Recorded(d) ==
  call[d].at = "returned" /\ OnlyTodo(d) => record[call[d].id].status = call[d].result

\* Only the stages of a pipeline are called again, under another id.  A foreground call
\* beside a pipeline could have the id of a stage, whose record overwrites its own, and
\* have it for itself when the stage runs again.
NoMixing == Apart \/ Calls \ Detached \subseteq Stages

RecordInv ==
  /\ \A d \in Calls \ Detached : TellsResult(d)
  /\ Apart /\ exec # "off" => \A d \in Calls \ Stages : call[d].at = "off"
  /\ NoMixing => \A d \in Calls \ Detached : Recorded(d)

\* Verdicts that do not keep a pipeline from completing.
Settled(s) == verdict[s] = "ok" \/ \E t \in Stages : LoopTo[t] = s

OrderInv ==
  /\ \A s \in ordered : Needs[s] \subseteq ordered \ batch
  /\ ordered \ batch \subseteq passed
  /\ \A s \in ordered \ batch : Settled(s)
  /\ exec \in {"next", "completed"} => ordered \subseteq passed
  /\ exec \in {"next", "completed"} => \A s \in ordered : Settled(s)
  /\ exec = "completed" => ordered = Stages
  /\ \A s \in Stages : verdict[s] = "ok" => s \in passed
  /\ round # batch => exec = "running" /\ \E t \in batch : batch = {t} /\ round = {LoopTo[t]}

OutInv ==
  Inv /\ RegistryTypeOK /\ PipelineTypeOK /\ PlaceInv /\ FileInv /\ RecordInv /\ OrderInv

-----------------------------------------------------------------------------
(* The initial states *)

LEMMA OutInit == Init => OutInv
<1> SUFFICES ASSUME Init PROVE OutInv
  OBVIOUS
<1> USE CallsAssumption, RegistryAssumption, PipelineAssumption DEF Init
<1>1. Inv
  BY InitInv
<1>2. RegistryTypeOK /\ PipelineTypeOK
  BY DEF RegistryInit, RegistryTypeOK, PipelineTypeOK, Entries, Absent, Resting, Users
<1>3. PlaceInv
  BY DEF DispatchInit, PlaceInv, AtPlace, Outside, Ran
<1>4. FileInv
  BY DEF DispatchInit, RegistryInit, FileInv, EntryKnown, Absent, Resting, Finished, Users
<1>5. RecordInv
  BY DEF DispatchInit, RecordInv, TellsResult, Recorded, Outside, Ending
<1>6. OrderInv
  BY DEF OrderInv
<1> QED
  BY <1>1, <1>2, <1>3, <1>4, <1>5, <1>6 DEF OutInv

-----------------------------------------------------------------------------
(* Steps of dispatch() *)

\* A step of dispatch() changes its own call and process, and the files of its own id.
OwnStep(d) ==
  /\ call[d].at \in InCall /\ call'[d].at \in InCall \union {"returned", "dead"}
  /\ call'[d].id = call[d].id
  /\ \A e \in Calls \ {d} : call'[e] = call[e] /\ job'[e] = job[e]
  /\ \A i \in Ids \ {call[d].id} : record'[i] = record[i]
  /\ \/ UNCHANGED pidfile
     \/ d \in Detached /\ call'[d].at \in Ran /\ pidfile' = [pidfile EXCEPT ![call[d].id] = d]

\* What it makes of its own call.
OwnPlace(d) ==
  /\ call[d].at \in Ran => call'[d].at \in Ran /\ job'[d] = job[d]
  /\ d \in Detached => call'[d].at \notin {"run", "wait"}
  /\ d \notin Detached => call'[d].at \notin {"spawn", "pid"}
  /\ d \in Detached /\ call'[d].at \in Ran \ {"dead"} =>
       call[d].at \in Ran \/ pidfile' = [pidfile EXCEPT ![call[d].id] = d]
  /\ d \notin Detached => TellsResult(d)'
  /\ call'[d].at = "returned" => record'[call[d].id].status = call'[d].result

LEMMA OwnCall ==
  ASSUME OutInv, NEW d \in Calls, OwnStep(d), OwnPlace(d), UNCHANGED <<registryVars, pipelineVars>>
  PROVE  PlaceInv' /\ FileInv' /\ RecordInv' /\ OrderInv'
<1> USE CallsAssumption, RegistryAssumption, PipelineAssumption
<1>0. /\ call \in [Calls -> CallStates] /\ job \in [Calls -> {"none", "running", "ok", "bad", "killed"}]
      /\ pidfile \in [Ids -> Calls \union {NoCall}] /\ DOMAIN record = Ids
      /\ call[d].id \in Ids /\ AtPlace(d) /\ todo \subseteq round /\ round \subseteq Stages
      /\ 0 \notin Ids
  BY DEF OutInv, Inv, CallInv, Sound, DispatchTypeOK, PlaceInv, PipelineTypeOK, Ids, OwnStep
<1>1. /\ \A e \in Calls \ {d} : call'[e] = call[e] /\ job'[e] = job[e]
      /\ \A i \in Ids \ {call[d].id} : record'[i] = record[i] /\ pidfile'[i] = pidfile[i]
      /\ UNCHANGED <<disk, mem, poller, exec, ordered, batch, round, todo, verdict, passed>>
  BY <1>0 DEF OwnStep, registryVars, pipelineVars
<1>2. ASSUME NEW e \in Detached, NEW i, Known(e, i)
      PROVE  Known(e, i)' /\ job'[e] = job[e]
  BY <1>1, <1>2 DEF Known, OwnStep, OwnPlace
<1>3. pidfile'[call[d].id] \in {pidfile[call[d].id], d}
  BY <1>0 DEF OwnStep
<1>4. FileInv'
  <2>1. ASSUME NEW i \in Ids, pidfile'[i] # NoCall PROVE Known(pidfile[i], i)'
    <3>1. CASE pidfile'[i] = pidfile[i]
      <4>1. Known(pidfile[i], i)
        BY <2>1, <3>1 DEF OutInv, FileInv
      <4>2. pidfile[i] \in Detached
        BY <4>1 DEF Known
      <4>3. PICK e \in Detached : e = pidfile[i]
        BY <4>2
      <4> QED
        BY <1>2, <3>1, <4>1, <4>3 DEF Known
    <3>2. CASE pidfile'[i] # pidfile[i]
      BY <1>0, <1>1, <3>2 DEF Known, OwnStep
    <3> QED
      BY <3>1, <3>2
  <2>2. ASSUME NEW i, NEW entry, EntryKnown(entry, i), entry.status \in Finished => entry.status # "absent"
        PROVE  EntryKnown(entry, i)'
    BY <1>2, <2>2 DEF EntryKnown, Known
  <2>3. "absent" \notin Finished
    BY DEF Finished
  <2>4. ASSUME NEW i \in Ids PROVE EntryKnown(disk[i], i)'
    <3>1. PICK entry : entry = disk[i]
      OBVIOUS
    <3>2. EntryKnown(entry, i)'
      BY <2>2, <2>3, <3>1 DEF OutInv, FileInv
    <3> QED
      BY <1>1, <3>1, <3>2 DEF EntryKnown, Known
  <2>5. ASSUME NEW u \in Users, NEW i \in Ids PROVE EntryKnown(mem[u][i], i)'
    <3>1. PICK entry : entry = mem[u][i]
      OBVIOUS
    <3>2. EntryKnown(entry, i)'
      BY <2>2, <2>3, <3>1 DEF OutInv, FileInv
    <3> QED
      BY <1>1, <3>1, <3>2 DEF EntryKnown, Known
  <2> QED
    BY <1>1, <2>1, <2>4, <2>5 DEF OutInv, FileInv, Users
<1>5. PlaceInv'
  <2>1. ASSUME NEW e \in Calls \ {d} PROVE AtPlace(e)'
    <3>1. call'[e] = call[e] /\ AtPlace(e) /\ UNCHANGED <<exec, round, todo>>
      BY <1>1 DEF OutInv, PlaceInv
    <3>2. call[e].id \in Ids => pidfile'[call[e].id] \in {pidfile[call[e].id], d}
      BY <1>1, <1>3
    <3>3. d # NoCall
      OBVIOUS
    <3> QED
      BY <3>1, <3>2, <3>3 DEF AtPlace, Ran
  <2>2. AtPlace(d)'
    <3>1. d \in Detached /\ call'[d].at \in Ran \ {"done", "dead"} => pidfile'[call[d].id] # NoCall
      BY <1>0, <1>3 DEF AtPlace, OwnStep, OwnPlace, InCall, Scheduling, Starting, Ending, Ran
    <3>2. d \in Stages => exec = "running" /\ d \in round \ todo
      BY <1>0 DEF AtPlace, OwnStep, InCall, Scheduling, Starting, Ending
    <3>3. call'[d].at \notin {"opened", "off", "done"}
      BY DEF OwnStep, InCall, Scheduling, Starting, Ending
    <3> QED
      BY <1>0, <1>1, <3>1, <3>2, <3>3 DEF AtPlace, OwnStep, OwnPlace
  <2> QED
    BY <2>1, <2>2 DEF PlaceInv
<1>6. RecordInv'
  <2>1. ASSUME NEW e \in Calls \ Detached PROVE TellsResult(e)'
    BY <1>1 DEF OutInv, RecordInv, TellsResult, OwnPlace
  <2>2. d \notin todo /\ call[d].at # "off"
    BY <1>0 DEF AtPlace, OwnStep, InCall, Scheduling, Starting, Ending
  <2>3. ASSUME NEW e \in Calls \ Detached, NoMixing PROVE Recorded(e)'
    <3>1. CASE e = d
      BY <3>1 DEF Recorded, OwnStep, OwnPlace
    <3>2. CASE e # d
      <4>1. SUFFICES ASSUME call'[e].at = "returned", OnlyTodo(e)'
                     PROVE  record'[call'[e].id].status = call'[e].result
        BY DEF Recorded
      <4>2. call[e].at = "returned" /\ OnlyTodo(e)
        BY <1>1, <3>2, <4>1 DEF OnlyTodo, OwnStep
      <4>3. call[e].id # call[d].id /\ call[e].id \in Ids
        BY <2>2, <3>2, <4>2 DEF OnlyTodo, OutInv, PlaceInv, AtPlace
      <4> QED
        BY <1>1, <2>3, <3>2, <4>2, <4>3 DEF OutInv, RecordInv, Recorded
    <3> QED
      BY <3>1, <3>2
  <2>4. ASSUME Apart, exec # "off", NEW e \in Calls \ Stages PROVE call'[e].at = "off"
    BY <1>1, <2>2, <2>4 DEF OutInv, RecordInv
  <2> QED
    BY <1>1, <2>1, <2>3, <2>4 DEF RecordInv
<1>7. OrderInv'
  BY <1>1 DEF OutInv, OrderInv, Settled
<1> QED
  BY <1>4, <1>5, <1>6, <1>7

LEMMA ScheduleSteps ==
  ASSUME OutInv, NEW d \in Calls, Schedule(d) \/ CreateTree(d) \/ SchedulerFails(d)
  PROVE  /\ call[d].at \in Scheduling \union {"tree"}
         /\ call'[d].at \in Scheduling \union {"tree", "record"} /\ call'[d].id = call[d].id
         /\ \A e \in Calls \ {d} : call'[e] = call[e]
         /\ UNCHANGED <<job, record, pidfile>>
<1>0. call \in [Calls -> CallStates]
  BY DEF OutInv, Inv, CallInv
<1> DEFINE Goal == /\ call'[d].at \in Scheduling \union {"tree", "record"}
                   /\ call'[d].id = call[d].id
                   /\ \A e \in Calls \ {d} : call'[e] = call[e]
<1>1. CASE Look(d)
  <2>1. ASSUME call' = [call EXCEPT ![d].at = After(call[d])] PROVE Goal
    BY <1>0, <2>1, AfterPlaces DEF Scheduling, CallStates
  <2>2. ASSUME NEW g,
               call' = [call EXCEPT ![d] = [@ EXCEPT !.at = "check", !.goal = call[d].at, !.aim = g]]
        PROVE  Goal
    BY <1>0, <2>2 DEF Scheduling, CallStates
  <2> HIDE DEF Goal
  <2>3. Goal
    BY <1>1, <2>1, <2>2 DEF Look
  <2> QED
    BY <1>1, <2>3 DEF Look, Scheduling, Goal
<1>2. CASE LookForMany(d)
  BY <1>0, <1>2 DEF LookForMany, Scheduling, CallStates
<1>3. CASE PickHost(d)
  <2>1. ASSUME call' = [call EXCEPT ![d] = [@ EXCEPT !.at = "tree", !.seen = {}]] PROVE Goal
    BY <1>0, <2>1 DEF Scheduling, CallStates
  <2>2. ASSUME NEW here, NEW rest,
               call' = [call EXCEPT ![d] = [@ EXCEPT !.at = "each", !.todo = here, !.seen = rest]]
        PROVE  Goal
    BY <1>0, <2>2 DEF Scheduling, CallStates
  <2> HIDE DEF Goal
  <2>3. Goal
    BY <1>3, <2>1, <2>2 DEF PickHost
  <2> QED
    BY <1>3, <2>3 DEF PickHost, Scheduling, Goal
<1>4. CASE Each(d)
  <2>1. ASSUME call' = [call EXCEPT ![d] = [@ EXCEPT !.at = "tree", !.seen = {}]] PROVE Goal
    BY <1>0, <2>1 DEF Scheduling, CallStates
  <2>2. ASSUME call' = [call EXCEPT ![d].at = "undo"] PROVE Goal
    BY <1>0, <2>2 DEF Scheduling, CallStates
  <2>3. ASSUME NEW g, NEW rest,
               call' = [call EXCEPT ![d] = [@ EXCEPT !.at = "check", !.aim = g, !.todo = rest]]
        PROVE  Goal
    BY <1>0, <2>3 DEF Scheduling, CallStates
  <2> HIDE DEF Goal
  <2>4. Goal
    BY <1>4, <2>1, <2>2, <2>3 DEF Each
  <2> QED
    BY <1>4, <2>4 DEF Each, Scheduling, Goal
<1>5. CASE Check(d)
  <2>1. ASSUME call' = [call EXCEPT ![d].at = "insert"] PROVE Goal
    BY <1>0, <2>1 DEF Scheduling, CallStates
  <2>2. ASSUME call' = [call EXCEPT ![d] = [@ EXCEPT !.at = After(call[d]), !.aim = NoGpu]] PROVE Goal
    BY <1>0, <2>2, AfterPlaces DEF Scheduling, CallStates
  <2> HIDE DEF Goal
  <2>3. Goal
    BY <1>5, <2>1, <2>2 DEF Check
  <2> QED
    BY <1>5, <2>3 DEF Check, Scheduling, Goal
<1>6. CASE Insert(d)
  BY <1>0, <1>6 DEF Insert, Scheduling, CallStates
<1>7. CASE Undo(d)
  BY <1>0, <1>7 DEF Undo, Scheduling, CallStates
<1>8. CASE CreateTree(d)
  BY <1>0, <1>8, ZenonT(40) DEF CreateTree, Scheduling, CallStates
<1>9. CASE SchedulerFails(d)
  BY <1>0, <1>9 DEF SchedulerFails, Scheduling, CallStates
<1> QED
  BY <1>1, <1>2, <1>3, <1>4, <1>5, <1>6, <1>7, <1>8, <1>9 DEF Schedule

LEMMA OwnSteps ==
  ASSUME OutInv, NEW d \in Calls, Step(d) \/ Fault(d)
  PROVE  OwnStep(d) /\ OwnPlace(d)
<1>0. /\ call \in [Calls -> CallStates]
      /\ job \in [Calls -> {"none", "running", "ok", "bad", "killed"}]
      /\ DOMAIN record = Ids /\ AtPlace(d)
      /\ d \notin Detached => TellsResult(d)
      /\ call[d].at \in InCall => call[d].id \in Ids
  BY DEF OutInv, Inv, CallInv, Sound, DispatchTypeOK, PlaceInv, RecordInv
<1> USE DEF OwnStep, OwnPlace, InCall, Starting, Ending, Ran, CallStates, AtPlace, TellsResult
<1>1. CASE Schedule(d) \/ CreateTree(d) \/ SchedulerFails(d)
  BY <1>1, ScheduleSteps DEF Scheduling
<1>2. CASE SaveRecord(d)
  BY <1>0, <1>2 DEF SaveRecord
<1>3. CASE Spawn(d)
  BY <1>0, <1>3 DEF Spawn
<1>4. CASE WritePid(d)
  BY <1>0, <1>4 DEF WritePid
<1>5. CASE Run(d)
  BY <1>0, <1>5 DEF Run
<1>6. CASE Wait(d)
  BY <1>0, <1>6 DEF Wait
<1>7. CASE Timeout(d)
  BY <1>0, <1>7 DEF Timeout
<1>8. CASE ReleaseGpus(d)
  <2>1. CASE \E g \in call[d].held : call' = [call EXCEPT ![d].held = @ \ {g}]
    BY <1>0, <1>8, <2>1 DEF ReleaseGpus
  <2>2. CASE call' = [call EXCEPT ![d].at = "merge"]
    BY <1>0, <1>8, <2>2 DEF ReleaseGpus
  <2>3. CASE call' = [call EXCEPT ![d] = [@ EXCEPT !.at = "merge", !.held = {}]]
    BY <1>0, <1>8, <2>3 DEF ReleaseGpus
  <2> QED
    BY <1>8, <2>1, <2>2, <2>3 DEF ReleaseGpus
<1>9. CASE Merge(d)
  BY <1>0, <1>9 DEF Merge
<1>10. CASE Final(d)
  BY <1>0, <1>10 DEF Final
<1>11. CASE Abort(d)
  BY <1>0, <1>11 DEF Abort, Outside
<1> QED
  BY <1>1, <1>2, <1>3, <1>4, <1>5, <1>6, <1>7, <1>8, <1>9, <1>10, <1>11 DEF Step, Fault

LEMMA CallSteps ==
  ASSUME OutInv, NEW d \in Calls, Step(d) \/ Fault(d), UNCHANGED <<registryVars, pipelineVars>>
  PROVE  PlaceInv' /\ FileInv' /\ RecordInv' /\ OrderInv'
  BY OwnSteps, OwnCall

-----------------------------------------------------------------------------
(* Steps of the agents and of the users of the registry *)

\* Where no call moves, only processes end, and records change only where a background call
\* has the id.
LEMMA SameCalls ==
  ASSUME OutInv, UNCHANGED <<call, pidfile, pipelineVars>>,
         \A e \in Calls : job'[e] = job[e] \/ (job[e] = "running" /\ job'[e] # "running"),
         \A e \in Calls \ Detached : job'[e] = job[e] \/ call[e].at \notin Ending \union {"returned"},
         \A i \in Ids : record'[i] = record[i] \/ \E e \in Calls : Known(e, i)
  PROVE  /\ PlaceInv' /\ RecordInv' /\ OrderInv'
         /\ \A i \in Ids : pidfile'[i] # NoCall => Known(pidfile[i], i)'
         /\ \A entry, i : EntryKnown(entry, i) => EntryKnown(entry, i)'
<1> USE CallsAssumption, RegistryAssumption, PipelineAssumption DEF pipelineVars
<1>1. PlaceInv' /\ OrderInv'
  BY DEF OutInv, PlaceInv, AtPlace, OrderInv, Settled
<1>2. \A i \in Ids : pidfile'[i] # NoCall => Known(pidfile[i], i)'
  BY DEF OutInv, FileInv, Known
<1>3. ASSUME NEW entry, NEW i, EntryKnown(entry, i) PROVE EntryKnown(entry, i)'
  <2>1. entry.status \in Finished => entry.status # "absent"
    BY DEF Finished
  <2>2. entry.status # "absent" => entry.pid \in Calls
    BY <1>3 DEF EntryKnown, Known
  <2> QED
    BY <1>3, <2>1, <2>2 DEF EntryKnown, Known
<1>4. ASSUME NEW d \in Calls \ Detached, NoMixing PROVE Recorded(d)'
  <2>1. SUFFICES ASSUME call[d].at = "returned", OnlyTodo(d)
                 PROVE  record'[call[d].id].status = call[d].result
    BY DEF Recorded, OnlyTodo
  <2>2. call[d].id \in Ids /\ todo \subseteq Stages
    BY <2>1 DEF OutInv, PlaceInv, AtPlace, PipelineTypeOK
  <2>3. \A e \in Calls : ~Known(e, call[d].id)
    BY <2>1, <2>2 DEF Known, OnlyTodo
  <2>4. record'[call[d].id] = record[call[d].id]
    BY <2>2, <2>3
  <2> QED
    BY <1>4, <2>1, <2>4 DEF OutInv, RecordInv, Recorded
<1>5. \A d \in Calls \ Detached : TellsResult(d)'
  BY DEF OutInv, RecordInv, TellsResult
<1>6. Apart /\ exec' # "off" => \A d \in Calls \ Stages : call'[d].at = "off"
  BY DEF OutInv, RecordInv
<1>7. RecordInv'
  BY <1>4, <1>5, <1>6 DEF RecordInv
<1> QED
  BY <1>1, <1>2, <1>3, <1>7

\* The copies of the registry after a step are copies before it, with sound changes.
LEMMA Copies ==
  ASSUME OutInv,
         \A i \in Ids : pidfile'[i] # NoCall => Known(pidfile[i], i)',
         \A entry, i : EntryKnown(entry, i) => EntryKnown(entry, i)',
         \A i \in Ids : \/ EntryKnown(disk'[i], i) \/ \E u \in Users : disk'[i] = mem[u][i]
                        \/ disk'[i] = disk[i],
         \A u \in Users, i \in Ids :
           \/ EntryKnown(mem'[u][i], i) \/ mem'[u][i] = mem[u][i] \/ mem'[u][i] = disk[i],
         \A p \in Pollers : \A i \in poller'[p].todo : mem'[p][i].status = "running"
  PROVE  FileInv'
<1>1. ASSUME NEW i \in Ids PROVE EntryKnown(disk[i], i)'
  <2>1. PICK entry : entry = disk'[i]
    OBVIOUS
  <2>2. EntryKnown(entry, i)
    BY <2>1 DEF OutInv, FileInv
  <2>3. EntryKnown(entry, i)'
    BY <2>2
  <2> QED
    BY <2>1, <2>3 DEF EntryKnown, Known
<1>2. ASSUME NEW u \in Users, NEW i \in Ids PROVE EntryKnown(mem[u][i], i)'
  <2>1. PICK entry : entry = mem'[u][i]
    OBVIOUS
  <2>2. EntryKnown(entry, i)
    BY <2>1 DEF OutInv, FileInv
  <2>3. EntryKnown(entry, i)'
    BY <2>2
  <2> QED
    BY <2>1, <2>3 DEF EntryKnown, Known
<1> QED
  BY <1>1, <1>2 DEF FileInv

LEMMA AgentSteps ==
  ASSUME OutInv, NEW d \in Calls, JobEnds(d), UNCHANGED <<registryVars, pipelineVars>>
  PROVE  PlaceInv' /\ FileInv' /\ RecordInv' /\ OrderInv'
<1>1. job \in [Calls -> {"none", "running", "ok", "bad", "killed"}]
  BY DEF OutInv, Inv, DispatchTypeOK
<1>2. \A e \in Calls : job'[e] = job[e] \/ (job[e] = "running" /\ job'[e] # "running")
  BY <1>1 DEF JobEnds
<1>3. \A e \in Calls \ Detached : job'[e] = job[e] \/ call[e].at \notin Ending \union {"returned"}
  BY <1>2 DEF OutInv, RecordInv, TellsResult
<1>4. UNCHANGED <<call, pidfile, record, disk, mem, poller, pipelineVars>>
  BY DEF JobEnds, registryVars
<1>5. /\ PlaceInv' /\ RecordInv' /\ OrderInv'
      /\ \A i \in Ids : pidfile'[i] # NoCall => Known(pidfile[i], i)'
      /\ \A entry, i : EntryKnown(entry, i) => EntryKnown(entry, i)'
  BY <1>2, <1>3, <1>4, SameCalls
<1>6. FileInv'
  BY <1>4, <1>5, Copies DEF OutInv, FileInv
<1> QED
  BY <1>5, <1>6

LEMMA PollerSteps ==
  ASSUME OutInv, NEW p \in Pollers, Polling(p) \/ Using(p)
  PROVE  RegistryTypeOK' /\ PlaceInv' /\ FileInv' /\ RecordInv' /\ OrderInv'
<1> DEFINE Goal == RegistryTypeOK' /\ PlaceInv' /\ FileInv' /\ RecordInv' /\ OrderInv'
<1>0. /\ job \in [Calls -> {"none", "running", "ok", "bad", "killed"}] /\ DOMAIN record = Ids
      /\ disk \in [Ids -> Entries] /\ mem \in [Users -> [Ids -> Entries]] /\ p \in Users
      /\ poller \in [Pollers -> [open : BOOLEAN, todo : SUBSET Ids, newly : BOOLEAN]]
      /\ \A i \in Ids : EntryKnown(disk[i], i)
      /\ \A u \in Users, i \in Ids : EntryKnown(mem[u][i], i)
      /\ \A q \in Pollers : \A i \in poller[q].todo : mem[q][i].status = "running"
  BY DEF OutInv, Inv, DispatchTypeOK, RegistryTypeOK, FileInv, Users
<1>1. UNCHANGED <<call, pidfile, pipelineVars>>
  BY DEF Polling, Using, PollerStep, Poll, PollOne, PollSave, Open, Cancel, Cleanup, dispatchVars
<1>2. ASSUME RegistryTypeOK',
             \A e \in Calls : job'[e] = job[e] \/ (job[e] = "running" /\ job'[e] # "running"),
             \A e \in Calls \ Detached : job'[e] = job[e],
             \A i \in Ids : record'[i] = record[i] \/ \E e \in Calls : Known(e, i),
             \A i \in Ids : \/ EntryKnown(disk'[i], i) \/ \E u \in Users : disk'[i] = mem[u][i]
                            \/ disk'[i] = disk[i],
             \A u \in Users, i \in Ids :
               \/ EntryKnown(mem'[u][i], i) \/ mem'[u][i] = mem[u][i] \/ mem'[u][i] = disk[i],
             \A q \in Pollers : \A i \in poller'[q].todo : mem'[q][i].status = "running"
      PROVE  Goal
  <2>1. /\ PlaceInv' /\ RecordInv' /\ OrderInv'
        /\ \A i \in Ids : pidfile'[i] # NoCall => Known(pidfile[i], i)'
        /\ \A entry, i : EntryKnown(entry, i) => EntryKnown(entry, i)'
    BY <1>1, <1>2, SameCalls
  <2>2. FileInv'
    BY <1>2, <2>1, Copies
  <2> QED
    BY <1>2, <2>1, <2>2 DEF Goal
<1> SUFFICES Goal
  BY DEF Goal
<1> HIDE DEF Goal
<1>3. CASE Open(p)
  <2>1. RegistryTypeOK'
    BY <1>0, <1>3 DEF Open, RegistryTypeOK
  <2>2. /\ \A u \in Users, i \in Ids : mem'[u][i] = mem[u][i] \/ mem'[u][i] = disk[i]
        /\ UNCHANGED <<job, record, disk>>
    BY <1>0, <1>3 DEF Open, dispatchVars
  <2>3. \A q \in Pollers : \A i \in poller'[q].todo : mem'[q][i].status = "running"
    BY <1>0, <1>3 DEF Open, Users
  <2> QED
    BY <1>2, <2>1, <2>2, <2>3
<1>4. CASE Poll(p)
  <2>1. RegistryTypeOK'
    BY <1>0, <1>4 DEF Poll, RegistryTypeOK, Running
  <2>2. UNCHANGED <<job, record, disk, mem>>
    BY <1>4 DEF Poll, dispatchVars
  <2>3. \A q \in Pollers : \A i \in poller'[q].todo : mem'[q][i].status = "running"
    BY <1>0, <1>4 DEF Poll, Running
  <2> QED
    BY <1>2, <2>1, <2>2, <2>3
<1>5. CASE PollOne(p)
  <2>1. PICK i \in poller[p].todo :
          /\ poller' = [poller EXCEPT ![p].todo = @ \ {i},
                                      ![p].newly = @ \/ ~Alive(mem[p][i].pid)]
          /\ IF Alive(mem[p][i].pid)
             THEN UNCHANGED <<mem, record>>
             ELSE LET status == IF record[i].exit = "ok" THEN "completed" ELSE "failed"
                  IN  /\ mem' = [mem EXCEPT ![p][i].status = status]
                      /\ record' = [record EXCEPT ![i].status = status]
          /\ UNCHANGED <<job, disk>>
    BY <1>5 DEF PollOne
  <2>2. /\ i \in Ids /\ mem[p][i].status = "running" /\ EntryKnown(mem[p][i], i)
        /\ Known(mem[p][i].pid, i) /\ mem[p][i] \in Entries
    BY <1>0 DEF EntryKnown
  <2>3. poller' \in [Pollers -> [open : BOOLEAN, todo : SUBSET Ids, newly : BOOLEAN]]
    <3>1. PICK b \in BOOLEAN :
            poller' = [poller EXCEPT ![p].todo = @ \ {i}, ![p].newly = @ \/ b]
      BY <2>1 DEF Alive
    <3>2. /\ (poller[p].newly \/ b) \in BOOLEAN /\ poller[p].todo \ {i} \in SUBSET Ids
          /\ poller[p] \in [open : BOOLEAN, todo : SUBSET Ids, newly : BOOLEAN]
      BY <1>0
    <3> QED
      BY <1>0, <3>1, <3>2
  <2>4. \A q \in Pollers : poller'[q].todo \subseteq poller[q].todo /\ i \notin poller'[p].todo
    <3>1. poller'[p].todo = poller[p].todo \ {i}
      BY <1>0, <2>1
    <3>2. \A q \in Pollers \ {p} : poller'[q] = poller[q]
      BY <1>0, <2>1
    <3> QED
      BY <3>1, <3>2
  <2>5. CASE Alive(mem[p][i].pid)
    BY <1>0, <1>2, <2>1, <2>3, <2>4, <2>5 DEF RegistryTypeOK
  <2>6. CASE ~Alive(mem[p][i].pid)
    <3>1. PICK status \in {"completed", "failed"} :
            /\ mem' = [mem EXCEPT ![p][i].status = status]
            /\ record' = [record EXCEPT ![i].status = status]
      BY <2>1, <2>6
    <3> DEFINE closed == [mem[p][i] EXCEPT !.status = status]
    <3>2. closed \in Entries /\ EntryKnown(closed, i)
      BY <2>2, <2>6 DEF Entries, EntryKnown, Alive
    <3>3. mem' = [mem EXCEPT ![p] = [mem[p] EXCEPT ![i] = closed]]
      BY <3>1
    <3> HIDE DEF closed
    <3>4. /\ mem' \in [Users -> [Ids -> Entries]] /\ mem'[p][i] = closed
          /\ \A u \in Users, k \in Ids : mem'[u][k] = mem[u][k] \/ (u = p /\ k = i)
      BY <1>0, <2>2, <3>2, <3>3
    <3>5. \A k \in Ids : record'[k] = record[k] \/ k = i
      BY <1>0, <3>1
    <3>6. RegistryTypeOK'
      BY <1>0, <2>1, <2>3, <3>4 DEF RegistryTypeOK
    <3>7. \A q \in Pollers : \A k \in poller'[q].todo : mem'[q][k].status = "running"
      BY <1>0, <2>4, <3>4 DEF Users
    <3>8. \E e \in Calls : Known(e, i)
      BY <2>2, CallsAssumption DEF Known
    <3> QED
      BY <1>2, <2>1, <3>2, <3>4, <3>5, <3>6, <3>7, <3>8
  <2> QED
    BY <2>5, <2>6
<1>6. CASE PollSave(p)
  <2>1. RegistryTypeOK'
    BY <1>0, <1>6 DEF PollSave, RegistryTypeOK
  <2>2. disk' = mem[p] /\ UNCHANGED <<job, record, mem>>
    BY <1>6 DEF PollSave, dispatchVars
  <2>3. \A q \in Pollers : \A i \in poller'[q].todo : mem'[q][i].status = "running"
    BY <1>0, <1>6, <2>2 DEF PollSave
  <2> QED
    BY <1>0, <1>2, <2>1, <2>2, <2>3
<1>7. CASE Cancel(p)
  <2>1. PICK i \in Running(p) :
          /\ job' = IF Alive(mem[p][i].pid) THEN [job EXCEPT ![mem[p][i].pid] = "killed"] ELSE job
          /\ mem' = [mem EXCEPT ![p][i].status = "canceled"]
          /\ disk' = mem'[p]
          /\ UNCHANGED <<record, poller>>
    BY <1>7 DEF Cancel
  <2>2. /\ i \in Ids /\ mem[p][i].status = "running" /\ EntryKnown(mem[p][i], i)
        /\ Known(mem[p][i].pid, i) /\ mem[p][i] \in Entries
    BY <1>0, <2>1, SMTT(30) DEF Running, EntryKnown
  <2> DEFINE closed == [mem[p][i] EXCEPT !.status = "canceled"]
  <2>3. closed \in Entries /\ EntryKnown(closed, i)
    BY <2>2 DEF Entries, EntryKnown, Finished
  <2>4. mem' = [mem EXCEPT ![p] = [mem[p] EXCEPT ![i] = closed]]
    BY <2>1
  <2> HIDE DEF closed
  <2>5. /\ mem' \in [Users -> [Ids -> Entries]] /\ mem'[p][i] = closed
        /\ \A u \in Users, k \in Ids : mem'[u][k] = mem[u][k] \/ (u = p /\ k = i)
    BY <1>0, <2>2, <2>3, <2>4
  <2>6. RegistryTypeOK'
    BY <1>0, <2>1, <2>5 DEF RegistryTypeOK
  <2>7. mem[p][i].pid \in Detached
    BY <2>2 DEF Known
  <2>8. /\ \A e \in Calls : job'[e] = job[e] \/ (job[e] = "running" /\ job'[e] # "running")
        /\ \A e \in Calls \ Detached : job'[e] = job[e]
    BY <1>0, <2>1, <2>7 DEF Alive
  <2>9. \A q \in Pollers : \A k \in poller'[q].todo : mem'[q][k].status = "running"
    BY <1>0, <1>7, <2>1, <2>5 DEF Cancel, Users
  <2>10. \A k \in Ids : EntryKnown(disk'[k], k) \/ disk'[k] = mem[p][k]
    BY <1>0, <2>1, <2>3, <2>5
  <2>11. \A u \in Users, k \in Ids : EntryKnown(mem'[u][k], k) \/ mem'[u][k] = mem[u][k]
    BY <2>3, <2>5
  <2>12. UNCHANGED record
    BY <2>1
  <2> QED
    BY <1>0, <1>2, <2>6, <2>8, <2>9, <2>10, <2>11, <2>12
<1>8. CASE Cleanup(p)
  <2>1. PICK old \in SUBSET Ids :
          /\ mem' = [mem EXCEPT ![p] = [i \in Ids |-> IF i \in old THEN Absent ELSE @[i]]]
          /\ disk' = mem'[p]
          /\ UNCHANGED <<job, record, poller>>
    BY <1>8 DEF Cleanup, dispatchVars
  <2>2. Absent \in Entries /\ \A i \in Ids : EntryKnown(Absent, i)
    BY DEF Absent, Entries, EntryKnown, Finished
  <2>3. /\ mem' \in [Users -> [Ids -> Entries]]
        /\ \A u \in Users, k \in Ids : mem'[u][k] = mem[u][k] \/ (u = p /\ mem'[u][k] = Absent)
    BY <1>0, <2>1, <2>2
  <2>4. RegistryTypeOK'
    BY <1>0, <2>1, <2>3 DEF RegistryTypeOK
  <2>5. \A q \in Pollers : \A k \in poller'[q].todo : mem'[q][k].status = "running"
    BY <1>0, <1>8, <2>1, <2>3 DEF Cleanup, Users
  <2> QED
    BY <1>0, <1>2, <2>1, <2>2, <2>3, <2>4, <2>5
<1> QED
  BY <1>3, <1>4, <1>5, <1>6, <1>7, <1>8 DEF Polling, Using, PollerStep

-----------------------------------------------------------------------------
(* Steps of the callers: tracking, and the stages of a pipeline *)

\* A call leaves dispatch(), or is forgotten, under the id that it has.
LEMMA Leaves ==
  ASSUME OutInv, NEW d \in Calls, call'[d].id = call[d].id,
         call'[d].at \in {"opened", "done"}, call'[d].at = "opened" => call[d].at = "returned",
         d \notin Detached => d \in Stages /\ call'[d].at = "done",
         d \in Detached => call[d].at \in Ran /\ job'[d] = job[d],
         \A e \in Calls \ {d} : call'[e] = call[e] /\ job'[e] = job[e],
         UNCHANGED <<record, pidfile, exec, round>>, todo' \subseteq todo
  PROVE  /\ PlaceInv' /\ RecordInv'
         /\ \A i \in Ids : pidfile'[i] # NoCall => Known(pidfile[i], i)'
         /\ \A entry, i : EntryKnown(entry, i) => EntryKnown(entry, i)'
<1> USE CallsAssumption, RegistryAssumption, PipelineAssumption
<1>1. PlaceInv'
  <2>1. ASSUME NEW e \in Calls \ {d} PROVE AtPlace(e)'
    BY DEF OutInv, PlaceInv, AtPlace
  <2>2. AtPlace(d)'
    BY DEF OutInv, PlaceInv, AtPlace, Ran
  <2> QED
    BY <2>1, <2>2 DEF PlaceInv
<1>2. ASSUME NEW e, NEW i, Known(e, i) PROVE Known(e, i)' /\ job'[e] = job[e]
  <2>1. e \in Calls
    BY <1>2 DEF Known
  <2> QED
    BY <1>2, <2>1 DEF Known, Ran
<1>3. \A i \in Ids : pidfile'[i] # NoCall => Known(pidfile[i], i)'
  <2>1. SUFFICES ASSUME NEW i \in Ids, pidfile[i] # NoCall PROVE Known(pidfile[i], i)'
    OBVIOUS
  <2>2. PICK e : e = pidfile[i]
    OBVIOUS
  <2>3. Known(e, i)'
    BY <1>2, <2>1, <2>2 DEF OutInv, FileInv
  <2> QED
    BY <2>2, <2>3 DEF Known
<1>4. ASSUME NEW entry, NEW i, EntryKnown(entry, i) PROVE EntryKnown(entry, i)'
  <2>1. entry.status \in Finished => entry.status # "absent"
    BY DEF Finished
  <2> QED
    BY <1>2, <1>4, <2>1 DEF EntryKnown
<1>5. \A e \in Calls \ Detached : TellsResult(e)'
  BY DEF OutInv, RecordInv, TellsResult, Ending
<1>6. ASSUME NEW e \in Calls \ Detached, NoMixing PROVE Recorded(e)'
  <2>1. SUFFICES ASSUME call'[e].at = "returned", OnlyTodo(e)'
                 PROVE  record'[call'[e].id].status = call'[e].result
    BY DEF Recorded
  <2>2. e # d /\ call'[e] = call[e]
    BY <2>1
  <2>3. OnlyTodo(e)
    BY <2>1, <2>2 DEF OnlyTodo
  <2> QED
    BY <1>6, <2>1, <2>2, <2>3 DEF OutInv, RecordInv, Recorded
<1>7. Apart /\ exec' # "off" => \A e \in Calls \ Stages : call'[e].at = "off"
  BY DEF OutInv, RecordInv, Ran
<1> QED
  BY <1>1, <1>3, <1>4, <1>5, <1>6, <1>7 DEF RecordInv

LEMMA TrackingSteps ==
  ASSUME OutInv, NEW d \in Calls, Tracking(d)
  PROVE  RegistryTypeOK' /\ PlaceInv' /\ FileInv' /\ RecordInv' /\ OrderInv'
<1> USE CallsAssumption, RegistryAssumption, PipelineAssumption
<1>0. /\ call \in [Calls -> CallStates] /\ pidfile \in [Ids -> Calls \union {NoCall}]
      /\ disk \in [Ids -> Entries] /\ mem \in [Users -> [Ids -> Entries]]
      /\ poller \in [Pollers -> [open : BOOLEAN, todo : SUBSET Ids, newly : BOOLEAN]]
      /\ AtPlace(d) /\ d \in Tracked /\ d \in Users /\ d \in Detached
      /\ \A i \in Ids : EntryKnown(disk[i], i)
      /\ \A p \in Pollers : \A i \in poller[p].todo : mem[p][i].status = "running"
  BY DEF Tracking, OutInv, Inv, DispatchTypeOK, RegistryTypeOK, PlaceInv, FileInv, Users
<1>1. OrderInv'
  BY DEF Tracking, pipelineVars, OutInv, OrderInv, Settled
<1>2. CASE OpenToRegister(d)
  <2>1. /\ call'[d].id = call[d].id /\ call'[d].at = "opened" /\ call[d].at = "returned"
        /\ \A e \in Calls \ {d} : call'[e] = call[e]
        /\ UNCHANGED <<job, record, pidfile, disk, poller, exec, round, todo>>
    BY <1>0, <1>2 DEF OpenToRegister, CallStates, Tracking, pipelineVars
  <2>2. /\ PlaceInv' /\ RecordInv'
        /\ \A i \in Ids : pidfile'[i] # NoCall => Known(pidfile[i], i)'
        /\ \A entry, i : EntryKnown(entry, i) => EntryKnown(entry, i)'
    BY <1>0, <2>1, Leaves DEF Ran
  <2>3. mem' = [mem EXCEPT ![d] = disk]
    BY <1>2 DEF OpenToRegister
  <2>4. \A u \in Users, i \in Ids : mem'[u][i] = mem[u][i] \/ mem'[u][i] = disk[i]
    BY <1>0, <2>3
  <2>5. \A p \in Pollers : mem'[p] = mem[p]
    BY <1>0, <2>3 DEF Users
  <2>6. FileInv'
    BY <1>0, <2>1, <2>2, <2>4, <2>5, Copies
  <2>7. RegistryTypeOK'
    BY <1>0, <2>1, <2>3 DEF RegistryTypeOK
  <2> QED
    BY <1>1, <2>2, <2>6, <2>7
<1>3. CASE Register(d)
  <2>1. /\ call'[d].id = call[d].id /\ call'[d].at = "done" /\ call[d].at = "opened"
        /\ \A e \in Calls \ {d} : call'[e] = call[e]
        /\ UNCHANGED <<job, record, pidfile, poller, exec, round, todo>>
    BY <1>0, <1>3 DEF Register, CallStates, Tracking, pipelineVars, Outside
  <2>2. /\ PlaceInv' /\ RecordInv'
        /\ \A i \in Ids : pidfile'[i] # NoCall => Known(pidfile[i], i)'
        /\ \A entry, i : EntryKnown(entry, i) => EntryKnown(entry, i)'
    BY <1>0, <2>1, Leaves DEF Ran
  <2> DEFINE i == call[d].id
             new == [status |-> "running", pid |-> pidfile[i]]
  <2>3. i \in Ids /\ pidfile[i] # NoCall
    BY <1>0, <2>1 DEF AtPlace, Ran
  <2>4. new \in Entries /\ EntryKnown(new, i)
    BY <1>0, <2>3 DEF Entries, EntryKnown, Finished, OutInv, FileInv
  <2>5. /\ disk' = [mem[d] EXCEPT ![i] = new]
        /\ mem' = [mem EXCEPT ![d] = [k \in Ids |-> Absent]]
    BY <1>3 DEF Register
  <2> HIDE DEF new
  <2>6. Absent \in Entries /\ \A k \in Ids : EntryKnown(Absent, k)
    BY DEF Absent, Entries, EntryKnown, Finished
  <2>7. \A k \in Ids : EntryKnown(disk'[k], k) \/ disk'[k] = mem[d][k]
    BY <1>0, <2>3, <2>4, <2>5
  <2>8. /\ \A u \in Users, k \in Ids : mem'[u][k] = mem[u][k] \/ mem'[u][k] = Absent
        /\ \A p \in Pollers : mem'[p] = mem[p]
    BY <1>0, <2>5 DEF Users
  <2>9. FileInv'
    BY <1>0, <2>1, <2>2, <2>6, <2>7, <2>8, Copies
  <2>10. RegistryTypeOK'
    BY <1>0, <2>1, <2>3, <2>4, <2>5, <2>6 DEF RegistryTypeOK
  <2> QED
    BY <1>1, <2>2, <2>9, <2>10
<1> QED
  BY <1>2, <1>3 DEF Tracking, RegistryStep

\* A call begins under an id of its own choice, which may be that of another call.
LEMMA Begins ==
  ASSUME OutInv, NEW d \in Calls, Begin(d), UNCHANGED <<registryVars, exec, round>>,
         \/ d \notin Stages /\ call[d].at = "off" /\ (Apart => exec = "off") /\ UNCHANGED todo
         \/ d \in todo /\ exec = "running" /\ todo' = todo \ {d}
  PROVE  PlaceInv' /\ FileInv' /\ RecordInv'
<1> USE CallsAssumption, RegistryAssumption, PipelineAssumption
<1>0. /\ call \in [Calls -> CallStates] /\ 0 \notin Ids
      /\ job \in [Calls -> {"none", "running", "ok", "bad", "killed"}]
      /\ todo \subseteq round /\ round \subseteq Stages
  BY DEF OutInv, Inv, CallInv, DispatchTypeOK, PipelineTypeOK, Ids
<1>1. /\ call'[d].at \in {"tree", "prefer"} /\ call'[d].id \in Ids /\ job'[d] = "none"
      /\ \A e \in Calls \ {d} : call'[e] = call[e] /\ job'[e] = job[e]
      /\ UNCHANGED <<record, pidfile, disk, mem, poller>>
  <2>1. PICK i \in Ids, p \in Wants[d] :
          call' = [call EXCEPT ![d] = [Outside EXCEPT
                      !.at = IF p.gpu = "none" THEN "tree" ELSE "prefer", !.id = i, !.plan = p]]
    BY DEF Begin
  <2>2. call'[d] = [Outside EXCEPT
                      !.at = IF p.gpu = "none" THEN "tree" ELSE "prefer", !.id = i, !.plan = p]
    BY <1>0, <2>1
  <2>3. call'[d].at \in {"tree", "prefer"} /\ call'[d].id = i
    BY <2>2 DEF Outside
  <2>4. \A e \in Calls \ {d} : call'[e] = call[e]
    BY <1>0, <2>1
  <2>5. job'[d] = "none" /\ \A e \in Calls \ {d} : job'[e] = job[e]
    BY <1>0 DEF Begin
  <2> QED
    BY <2>3, <2>4, <2>5 DEF Begin, registryVars
<1>2. PlaceInv'
  <2>1. ASSUME NEW e \in Calls \ {d} PROVE AtPlace(e)'
    BY <1>1 DEF OutInv, PlaceInv, AtPlace
  <2>2. AtPlace(d)'
    BY <1>0, <1>1 DEF AtPlace, Ran
  <2> QED
    BY <2>1, <2>2 DEF PlaceInv
<1>3. ~(d \in Detached /\ call[d].at \in Ran)
  BY <1>0 DEF Ran
<1>4. ASSUME NEW e, NEW i, Known(e, i) PROVE Known(e, i)' /\ job'[e] = job[e]
  <2>1. e \in Calls \ {d}
    BY <1>3, <1>4 DEF Known
  <2> QED
    BY <1>1, <1>4, <2>1 DEF Known
<1>5. \A i \in Ids : pidfile'[i] # NoCall => Known(pidfile[i], i)'
  <2>1. SUFFICES ASSUME NEW i \in Ids, pidfile[i] # NoCall PROVE Known(pidfile[i], i)'
    BY <1>1
  <2>2. PICK e : e = pidfile[i]
    OBVIOUS
  <2>3. Known(e, i)'
    BY <1>4, <2>1, <2>2 DEF OutInv, FileInv
  <2> QED
    BY <1>1, <2>2, <2>3 DEF Known
<1>6. ASSUME NEW entry, NEW i, EntryKnown(entry, i) PROVE EntryKnown(entry, i)'
  <2>1. entry.status \in Finished => entry.status # "absent"
    BY DEF Finished
  <2> QED
    BY <1>4, <1>6, <2>1 DEF EntryKnown
<1>7. FileInv'
  <2>1. \A p \in Pollers : \A i \in poller'[p].todo : mem'[p][i].status = "running"
    BY <1>1 DEF OutInv, FileInv
  <2> QED
    BY <1>1, <1>5, <1>6, <2>1, Copies
<1>8. \A e \in Calls \ Detached : TellsResult(e)'
  BY <1>1 DEF OutInv, RecordInv, TellsResult, Ending
<1>9. ASSUME NEW e \in Calls \ Detached, NoMixing PROVE Recorded(e)'
  <2>1. SUFFICES ASSUME call'[e].at = "returned", OnlyTodo(e)'
                 PROVE  record'[call'[e].id].status = call'[e].result
    BY DEF Recorded
  <2>2. e # d /\ call'[e] = call[e] /\ call[e].id \in Ids
    BY <1>1, <2>1 DEF OutInv, PlaceInv, AtPlace
  <2>3. call[d].id = call[e].id => d \in todo
    BY <1>0, <2>2 DEF OutInv, PlaceInv, AtPlace
  <2>4. OnlyTodo(e)
    BY <1>1, <2>1, <2>2, <2>3 DEF OnlyTodo
  <2> QED
    BY <1>1, <1>9, <2>1, <2>2, <2>4 DEF OutInv, RecordInv, Recorded
<1>10. Apart /\ exec' # "off" => \A e \in Calls \ Stages : call'[e].at = "off"
  BY <1>0, <1>1 DEF OutInv, RecordInv
<1> QED
  BY <1>2, <1>7, <1>8, <1>9, <1>10 DEF RecordInv

LEMMA StartSteps ==
  ASSUME OutInv, NEW d \in Calls, Start(d) \/ (d \in Stages /\ StartStage(d))
  PROVE  RegistryTypeOK' /\ PipelineTypeOK' /\ PlaceInv' /\ FileInv' /\ RecordInv' /\ OrderInv'
<1>1. UNCHANGED <<exec, ordered, batch, round, iter, verdict, passed, ctx, registryVars>>
  BY DEF Start, StartStage, pipelineVars
<1>2. todo' \subseteq todo
  BY DEF Start, StartStage, pipelineVars
<1>3. RegistryTypeOK' /\ PipelineTypeOK'
  BY <1>1, <1>2 DEF OutInv, RegistryTypeOK, PipelineTypeOK, registryVars
<1>4. OrderInv'
  BY <1>1 DEF OutInv, OrderInv, Settled
<1>5. PlaceInv' /\ FileInv' /\ RecordInv'
  BY <1>1, Begins DEF Start, StartStage, pipelineVars
<1> QED
  BY <1>3, <1>4, <1>5

LEMMA StageEnds ==
  ASSUME OutInv, NEW s \in Stages, NoHost(s) \/ Collect(s)
  PROVE  RegistryTypeOK' /\ PipelineTypeOK' /\ PlaceInv' /\ FileInv' /\ RecordInv' /\ OrderInv'
<1> USE CallsAssumption, RegistryAssumption, PipelineAssumption
<1>0. /\ call \in [Calls -> CallStates] /\ s \in Calls \ Detached
      /\ job \in [Calls -> {"none", "running", "ok", "bad", "killed"}]
      /\ output \in [Ids -> Calls \union {NoCall}]
      /\ PipelineTypeOK /\ OrderInv /\ AtPlace(s)
  BY DEF OutInv, Inv, CallInv, DispatchTypeOK, PlaceInv
<1>1. /\ exec = "running" /\ s \in round /\ todo' \subseteq todo
      /\ UNCHANGED <<record, pidfile, registryVars, exec, ordered, batch, round, iter>>
  BY <1>0 DEF NoHost, Collect, PipelineTypeOK
<1>2. /\ call'[s].at = "done" /\ call'[s].id = call[s].id
      /\ \A e \in Calls \ {s} : call'[e] = call[e] /\ job'[e] = job[e]
  <2>1. call' = [call EXCEPT ![s] = [Outside EXCEPT !.at = "done", !.id = call[s].id]]
    BY DEF NoHost, Collect
  <2>2. call'[s] = [Outside EXCEPT !.at = "done", !.id = call[s].id]
    BY <1>0, <2>1
  <2>3. \A e \in Calls \ {s} : call'[e] = call[e]
    BY <1>0, <2>1
  <2>4. \A e \in Calls \ {s} : job'[e] = job[e]
    BY <1>0 DEF NoHost, Collect
  <2> QED
    BY <2>2, <2>3, <2>4 DEF Outside
<1>3. /\ PlaceInv' /\ RecordInv'
      /\ \A i \in Ids : pidfile'[i] # NoCall => Known(pidfile[i], i)'
      /\ \A entry, i : EntryKnown(entry, i) => EntryKnown(entry, i)'
  BY <1>0, <1>1, <1>2, Leaves
<1>4. FileInv'
  <2>1. \A p \in Pollers : \A i \in poller'[p].todo : mem'[p][i].status = "running"
    BY <1>1 DEF OutInv, FileInv, registryVars
  <2> QED
    BY <1>1, <1>3, <2>1, Copies DEF registryVars
<1>5. PICK v \in {"ok", "bad"}, o \in Calls \union {NoCall} :
        /\ verdict' = [verdict EXCEPT ![s] = v] /\ ctx' = [ctx EXCEPT ![s] = o]
        /\ passed' = IF v = "ok" THEN passed \union {s} ELSE passed
  <2>1. CASE NoHost(s)
    BY <2>1 DEF NoHost
  <2>2. CASE Collect(s)
    <3>1. call[s].id \in Ids
      BY <1>0, <2>2 DEF Collect, AtPlace
    <3>2. output[call[s].id] \in Calls \union {NoCall}
      BY <1>0, <3>1
    <3>3. CASE call[s].at = "returned" /\ call[s].result = "completed"
      BY <2>2, <3>2, <3>3 DEF Collect
    <3>4. CASE ~(call[s].at = "returned" /\ call[s].result = "completed")
      BY <2>2, <3>4 DEF Collect
    <3> QED
      BY <3>3, <3>4
  <2> QED
    BY <2>1, <2>2
<1>6. RegistryTypeOK' /\ PipelineTypeOK'
  BY <1>0, <1>1, <1>5 DEF OutInv, RegistryTypeOK, PipelineTypeOK, registryVars
<1>7. /\ verdict'[s] = v /\ \A t \in Stages \ {s} : verdict'[t] = verdict[t]
      /\ passed \subseteq passed' /\ (v = "ok" => s \in passed') /\ passed' \subseteq passed \union {s}
  BY <1>0, <1>5 DEF PipelineTypeOK
<1>8. \A t \in Stages : Settled(t) /\ t # s => Settled(t)'
  BY <1>7 DEF Settled
<1>9. s \in batch \/ Settled(s)'
  <2>1. CASE round = batch
    BY <1>1, <2>1
  <2>2. CASE round # batch
    BY <1>0, <1>1, <2>2 DEF OrderInv, Settled, PipelineTypeOK
  <2> QED
    BY <2>1, <2>2
<1>10. OrderInv'
  <2>1. \A t \in ordered \ batch : Settled(t)'
    BY <1>0, <1>8, <1>9 DEF OrderInv, PipelineTypeOK
  <2>2. \A t \in Stages : verdict'[t] = "ok" => t \in passed'
    BY <1>0, <1>7 DEF OrderInv
  <2>3. ordered \ batch \subseteq passed'
    BY <1>0, <1>7 DEF OrderInv
  <2> QED
    BY <1>0, <1>1, <2>1, <2>2, <2>3 DEF OrderInv
<1> QED
  BY <1>3, <1>4, <1>6, <1>10

-----------------------------------------------------------------------------
(* Steps from batch to batch *)

\* Between the rounds no call answers whose record a stage could write again.
LEMMA NobodyReturned ==
  ASSUME OutInv, exec # "off", exec # "running" \/ RoundOver
  PROVE  /\ \A s \in Stages : call[s].at \in {"off", "done"}
         /\ NoMixing => \A d \in Calls \ Detached : call[d].at # "returned"
<1> USE PipelineAssumption
<1>1. \A s \in Stages : call[s].at \in {"off", "done"}
  BY DEF OutInv, PlaceInv, AtPlace, RoundOver
<1> QED
  BY <1>1 DEF NoMixing, OutInv, RecordInv

\* A pipeline without a next batch has ordered all stages.
LEMMA AllOrdered == Ready = {} /\ ordered \subseteq Stages => ordered = Stages
<1> SUFFICES ASSUME Ready = {}, ordered \subseteq Stages, Stages \ ordered # {} PROVE FALSE
  OBVIOUS
<1>1. PICK s \in Stages \ ordered : Needs[s] \intersect (Stages \ ordered) = {}
  BY AcyclicAssumption
<1>2. Needs[s] \subseteq ordered
  BY <1>1, PipelineAssumption
<1> QED
  BY <1>1, <1>2 DEF Ready

LEMMA BatchSteps ==
  ASSUME OutInv, NextBatch \/ Loop \/ BackFromLoop \/ BatchOver
  PROVE  RegistryTypeOK' /\ PipelineTypeOK' /\ PlaceInv' /\ FileInv' /\ RecordInv' /\ OrderInv'
<1> USE PipelineAssumption
<1>0. PipelineTypeOK /\ OrderInv
  BY DEF OutInv
<1>1. /\ UNCHANGED <<call, job, record, pidfile, disk, mem, poller, verdict, passed, ctx>>
      /\ exec # "off" /\ exec' # "off" /\ (exec # "running" \/ RoundOver)
  BY DEF NextBatch, Loop, BackFromLoop, BatchOver, dispatchVars, registryVars, RoundOver
<1>2. RegistryTypeOK' /\ FileInv'
  BY <1>1 DEF OutInv, RegistryTypeOK, FileInv, EntryKnown, Known
<1>3. PlaceInv'
  BY <1>1, NobodyReturned DEF OutInv, PlaceInv, AtPlace
<1>4. RecordInv'
  <2>1. \A d \in Calls \ Detached : TellsResult(d)'
    BY <1>1 DEF OutInv, RecordInv, TellsResult
  <2>2. NoMixing => \A d \in Calls \ Detached : Recorded(d)'
    BY <1>1, NobodyReturned DEF Recorded
  <2>3. Apart => \A d \in Calls \ Stages : call'[d].at = "off"
    BY <1>1 DEF OutInv, RecordInv
  <2> QED
    BY <2>1, <2>2, <2>3 DEF RecordInv
<1>5. CASE NextBatch
  <2>1. CASE Ready = {}
    BY <1>0, <1>1, <1>2, <1>3, <1>4, <1>5, <2>1, AllOrdered
       DEF NextBatch, PipelineTypeOK, OrderInv, Settled
  <2>2. CASE Ready # {}
    <3>1. /\ exec = "next" /\ exec' = "running" /\ ordered' = ordered \union Ready
          /\ batch' = Ready /\ round' = Ready /\ todo' = Ready /\ iter' = 1
      BY <1>5, <2>2 DEF NextBatch
    <3>2. Ready \subseteq Stages \ ordered /\ \A s \in Ready : Needs[s] \subseteq ordered
      BY DEF Ready
    <3>3. PipelineTypeOK'
      BY <1>0, <1>1, <3>1, <3>2 DEF PipelineTypeOK
    <3>4. OrderInv'
      BY <1>0, <1>1, <3>1, <3>2 DEF OrderInv, Settled
    <3> QED
      BY <1>2, <1>3, <1>4, <3>3, <3>4
  <2> QED
    BY <2>1, <2>2
<1>6. CASE Loop
  <2>1. PICK s \in batch : MayLoop(s) /\ Again(LoopTo[s])
    BY <1>6 DEF Loop
  <2>2. LoopTo[s] \in Stages /\ batch = {s} /\ round' = {LoopTo[s]} /\ todo' = round'
    BY <1>0, <2>1 DEF MayLoop, Again, PipelineTypeOK
  <2>3. iter' \in (0..MaxIter) \union {1}
    BY <1>0, <1>6, <2>1 DEF Loop, MayLoop, PipelineTypeOK
  <2>4. UNCHANGED <<exec, ordered, batch>> /\ exec = "running"
    BY <1>6 DEF Loop, RoundOver
  <2>5. PipelineTypeOK'
    BY <1>0, <1>1, <2>2, <2>3, <2>4 DEF PipelineTypeOK
  <2>6. OrderInv'
    BY <1>0, <1>1, <2>2, <2>4 DEF OrderInv, Settled
  <2> QED
    BY <1>2, <1>3, <1>4, <2>5, <2>6
<1>7. CASE BackFromLoop
  <2>1. PICK s \in batch : Again(s)
    BY <1>7 DEF BackFromLoop
  <2>2. batch = {s} /\ round' = batch /\ todo' = batch
    BY <1>0, <1>7, <2>1 DEF BackFromLoop, Again, OrderInv
  <2>3. UNCHANGED <<exec, ordered, batch, iter>>
    BY <1>7 DEF BackFromLoop
  <2>4. PipelineTypeOK'
    BY <1>0, <1>1, <2>2, <2>3 DEF PipelineTypeOK
  <2>5. OrderInv'
    BY <1>0, <1>1, <2>2, <2>3 DEF OrderInv, Settled
  <2> QED
    BY <1>2, <1>3, <1>4, <2>4, <2>5
<1>8. CASE BatchOver
  <2>1. /\ UNCHANGED <<ordered, batch, round, todo, iter>> /\ round = batch
        /\ exec' = IF Succeeded THEN "next" ELSE "failed"
    BY <1>8 DEF BatchOver
  <2>2. PipelineTypeOK'
    BY <1>0, <1>1, <2>1 DEF PipelineTypeOK
  <2>3. exec' # "completed" /\ (exec' = "next" => Succeeded)
    BY <2>1
  <2>4. Succeeded => ordered \subseteq passed /\ \A s \in ordered : Settled(s)
    BY <1>0 DEF Succeeded, OrderInv, Settled, PipelineTypeOK
  <2>5. OrderInv'
    BY <1>0, <1>1, <2>1, <2>3, <2>4 DEF OrderInv, Settled
  <2> QED
    BY <1>2, <1>3, <1>4, <2>2, <2>5
<1> QED
  BY <1>5, <1>6, <1>7, <1>8

-----------------------------------------------------------------------------
(* What follows *)

LEMMA OutNext == OutInv /\ [Next]_vars => OutInv'
<1> SUFFICES ASSUME OutInv, [Next]_vars PROVE OutInv'
  OBVIOUS
<1>1. Inv'
  BY NextInv DEF OutInv
<1>2. ASSUME UNCHANGED <<registryVars, pipelineVars>>
      PROVE  RegistryTypeOK' /\ PipelineTypeOK'
  BY <1>2 DEF OutInv, RegistryTypeOK, PipelineTypeOK, registryVars, pipelineVars
<1>3. ASSUME UNCHANGED pipelineVars PROVE PipelineTypeOK'
  BY <1>3 DEF OutInv, PipelineTypeOK, pipelineVars
<1>4. ASSUME NEW d \in Calls,
             Start(d) \/ CallStep(d) \/ CallFault(d) \/ AgentEnds(d) \/ Tracking(d)
      PROVE  OutInv'
  <2>1. CASE Start(d)
    BY <1>1, <2>1, StartSteps DEF OutInv
  <2>2. CASE CallStep(d) \/ CallFault(d)
    BY <1>1, <1>2, <2>2, CallSteps DEF OutInv, CallStep, CallFault
  <2>3. CASE AgentEnds(d)
    BY <1>1, <1>2, <2>3, AgentSteps DEF OutInv, AgentEnds
  <2>4. CASE Tracking(d)
    BY <1>1, <1>3, <2>4, TrackingSteps DEF OutInv, Tracking
  <2> QED
    BY <1>4, <2>1, <2>2, <2>3, <2>4
<1>5. ASSUME NEW p \in Pollers, Polling(p) \/ Using(p) PROVE OutInv'
  BY <1>1, <1>3, <1>5, PollerSteps DEF OutInv, Polling, Using
<1>6. CASE PipelineStep
  <2>1. CASE NextBatch \/ Loop \/ BackFromLoop \/ BatchOver
    BY <1>1, <2>1, BatchSteps DEF OutInv
  <2>2. ASSUME NEW s \in Stages, StartStage(s) PROVE OutInv'
    BY <1>1, <2>2, StartSteps, PipelineAssumption DEF OutInv
  <2>3. ASSUME NEW s \in Stages, NoHost(s) \/ Collect(s) PROVE OutInv'
    BY <1>1, <2>3, StageEnds DEF OutInv
  <2> QED
    BY <1>6, <2>1, <2>2, <2>3 DEF PipelineStep
<1>7. CASE UNCHANGED vars
  <2>1. UNCHANGED <<call, job, record, pidfile, registryVars, pipelineVars>>
    BY <1>7 DEF vars, dispatchVars
  <2>2. PlaceInv' /\ RecordInv' /\ OrderInv'
    BY <2>1, SameCalls
  <2>3. FileInv'
    BY <2>1 DEF OutInv, FileInv, EntryKnown, Known, registryVars
  <2> QED
    BY <1>1, <1>2, <2>1, <2>2, <2>3 DEF OutInv
<1> QED
  BY <1>4, <1>5, <1>6, <1>7 DEF Next

THEOREM OutInvariance == Spec => []OutInv
  BY OutInit, OutNext, PTL DEF Spec

\* Every variable of the dispatchers, the registry and the pipeline keeps its type.
THEOREM AllTypes == Spec => []TypeOK
<1>1. OutInv => TypeOK
  BY DEF OutInv, Inv, TypeOK
<1> QED
  BY <1>1, OutInvariance, PTL

\* The record of a foreground call that returned says how its agent ended, as long as no
\* stage of a pipeline can write the record of a call beside it; and no registry entry
\* says that an agent has ended which is still running, whatever copies of the file
\* pollers and dispatchers write over each other.
THEOREM EndsAreRecorded == Spec => [](FinishedHasExited /\ (NoMixing => EndsRecorded))
<1>1. OutInv => FinishedHasExited /\ (NoMixing => EndsRecorded)
  <2> SUFFICES ASSUME OutInv PROVE FinishedHasExited /\ (NoMixing => EndsRecorded)
    OBVIOUS
  <2>1. ASSUME NoMixing, NEW d \in Calls \ Detached, call[d].at = "returned", Alone(d)
        PROVE  record[call[d].id].status = "completed" <=> job[d] = "ok"
    BY <2>1 DEF OutInv, RecordInv, Recorded, OnlyTodo, Alone, TellsResult
  <2>2. ASSUME NEW i \in Ids, NEW copy \in {disk} \union {mem[u] : u \in Users},
               copy[i].status \in Finished
        PROVE  ~Alive(copy[i].pid)
    BY <2>2 DEF OutInv, FileInv, EntryKnown, Alive
  <2> QED
    BY <2>1, <2>2 DEF EndsRecorded, RecordTellsResult, FinishedHasExited
<1> QED
  BY <1>1, OutInvariance, PTL

\* A pipeline is reported completed only when every stage ran and completed, through
\* failures of parallel stages and loops.
THEOREM CompletedIsAll == Spec => []CompletedMeansAll
<1>1. OutInv => CompletedMeansAll
  BY DEF OutInv, PipelineTypeOK, OrderInv, CompletedMeansAll, Settled
<1> QED
  BY <1>1, OutInvariance, PTL

\* Where a loop goes back to: a stage that its own stage depends on, directly or not, that
\* is, which is in every closed set of stages with what its stage needs.
Closed(S) == \A s \in S : Needs[s] \subseteq S
LoopsBack ==
  \A t \in Stages : LoopTo[t] # NoCall =>
    \A S \in SUBSET Stages : Needs[t] \subseteq S /\ Closed(S) => LoopTo[t] \in S

\* A stage starts only after every stage it depends on has completed, in every pipeline
\* whose loops go back.
THEOREM NeedsComeFirst == LoopsBack => (Spec => StageAfterNeeds)
<1> SUFFICES ASSUME LoopsBack PROVE Spec => StageAfterNeeds
  OBVIOUS
<1> DEFINE A == \A s \in Stages : ~InProgress(s) /\ InProgress(s)' => Needs[s] \subseteq passed
<1> USE CallsAssumption, RegistryAssumption, PipelineAssumption
<1>1. ASSUME OutInv, [Next]_vars PROVE A
  <2>0. call \in [Calls -> CallStates]
    BY <1>1 DEF OutInv, Inv, CallInv
  <2>1. ASSUME NEW d \in Calls, call[d].at \in InCall \/ call'[d].at \in {"opened", "done"} \/ d \notin Stages,
               \A e \in Calls \ {d} : call'[e] = call[e]
        PROVE  A
    BY <2>1 DEF InProgress, InCall, Scheduling, Starting, Ending
  <2>2. ASSUME UNCHANGED call PROVE A
    BY <2>2 DEF InProgress
  <2>3. ASSUME NEW s \in Stages, StartStage(s) PROVE A
    <3>1. s \in round /\ OrderInv /\ PipelineTypeOK
      BY <1>1, <2>3 DEF StartStage, OutInv, PipelineTypeOK
    <3>2. CASE s \in ordered
      <4>1. Needs[s] \subseteq passed
        BY <3>1, <3>2 DEF OrderInv
      <4>2. \A e \in Calls \ {s} : call'[e] = call[e]
        BY <2>0, <2>3 DEF StartStage, Begin
      <4> QED
        BY <4>1, <4>2 DEF InProgress
    <3>3. CASE s \notin ordered
      <4>1. PICK t \in batch : batch = {t} /\ round = {LoopTo[t]}
        BY <3>1, <3>3 DEF OrderInv, PipelineTypeOK
      <4>2. t \in Stages /\ Needs[t] \subseteq ordered /\ Closed(ordered) /\ ordered \in SUBSET Stages
        BY <3>1, <4>1 DEF OrderInv, PipelineTypeOK, Closed
      <4>3. LoopTo[t] \in ordered
        BY <3>1, <4>1, <4>2 DEF LoopsBack
      <4> QED
        BY <3>1, <3>3, <4>1, <4>3
    <3> QED
      BY <3>2, <3>3
  <2>4. ASSUME NEW d \in Calls, Step(d) \/ Fault(d) PROVE A
    <3>1. OwnStep(d)
      BY <1>1, <2>4, OwnSteps
    <3> QED
      BY <2>1, <3>1 DEF OwnStep
  <2>5. ASSUME NEW d \in Calls, Start(d) PROVE A
    <3>1. \A e \in Calls \ {d} : call'[e] = call[e]
      BY <2>0, <2>5 DEF Start, Begin
    <3> QED
      BY <2>1, <2>5, <3>1 DEF Start
  <2>6. ASSUME NEW d \in Calls, Tracking(d) PROVE A
    <3>1. d \in Detached
      BY <2>6 DEF Tracking
    <3>2. \A e \in Calls \ {d} : call'[e] = call[e]
      BY <2>0, <2>6 DEF Tracking, RegistryStep, OpenToRegister, Register
    <3> QED
      BY <2>1, <3>1, <3>2
  <2>7. ASSUME NEW s \in Stages, NoHost(s) \/ Collect(s) PROVE A
    <3>1. call' = [call EXCEPT ![s] = [Outside EXCEPT !.at = "done", !.id = call[s].id]]
      BY <2>7 DEF NoHost, Collect
    <3>2. call'[s].at = "done" /\ \A e \in Calls \ {s} : call'[e] = call[e]
      <4>1. call'[s] = [Outside EXCEPT !.at = "done", !.id = call[s].id]
        BY <2>0, <3>1
      <4> QED
        BY <2>0, <3>1, <4>1 DEF Outside
    <3> QED
      BY <2>1, <3>2
  <2>8. ASSUME NEW p \in Pollers, Polling(p) \/ Using(p) PROVE UNCHANGED call
    BY <2>8 DEF Polling, Using, PollerStep, Poll, PollOne, PollSave, Open, Cancel, Cleanup, dispatchVars
  <2>9. ASSUME NEW d \in Calls, AgentEnds(d) PROVE UNCHANGED call
    BY <2>9 DEF AgentEnds, JobEnds
  <2>10. ASSUME NextBatch \/ Loop \/ BackFromLoop \/ BatchOver \/ UNCHANGED vars PROVE UNCHANGED call
    BY <2>10 DEF NextBatch, Loop, BackFromLoop, BatchOver, vars, dispatchVars
  <2> HIDE DEF A
  <2> QED
    BY <1>1, <2>2, <2>3, <2>4, <2>5, <2>6, <2>7, <2>8, <2>9, <2>10
       DEF Next, PipelineStep, CallStep, CallFault
<1>2. OutInv /\ [Next]_vars => [A]_vars
  BY <1>1
<1> HIDE DEF A
<1>3. Spec => [][A]_vars
  BY <1>2, OutInvariance, PTL DEF Spec
<1> QED
  BY <1>3 DEF StageAfterNeeds, A
=============================================================================
