------------------------------ MODULE WorkIntake ------------------------------
(***************************************************************************)
(* How tasks come to the board: the work generator (work_generator.py)     *)
(* proposes one for each new commit and each new day and remembers in its  *)
(* scan state how far it looked; create_task (swarm_lib.py) gives the task *)
(* the next free number, which it finds by listing the directories one     *)
(* after the other while tasks move between them.                          *)
(***************************************************************************)
EXTENDS Naturals, FiniteSets

CONSTANTS
  Generators,
  MaxCommits,    \* bound: commits (or days) that come
  MaxIds         \* bound: task numbers

ASSUME IntakeAssumption == {MaxCommits, MaxIds} \subseteq Nat

Ids == 1..MaxIds
Commits == 0..MaxCommits
ListedStages == <<"pending", "claimed", "completed">>   \* in the order of _next_task_id

VARIABLES
  headAt,      \* the newest commit
  scanned,     \* last_commit in git-scan-state.yaml
  intake,      \* the task of each number: its stage, and the commit it is for
  gen,         \* where each generator is
  workLost     \* a run that was only to show its proposals, died, found the
               \* title taken, or shared a number with another, took some work away

intakeVars == <<headAt, scanned, intake, gen, workLost>>

NoFile == [stage |-> "none", of |-> 0]
GenIdle == [at |-> "rest", saw |-> 0, looked |-> 0, top |-> 0, alone |-> FALSE]

IntakeTypeOK ==
  /\ headAt \in Commits /\ scanned \in Commits
  /\ intake \in [Ids -> [stage : {"none", "pending", "claimed", "completed"}, of : Commits]]
  /\ gen \in [Generators -> [at : {"rest", "save", "dedup", "number"}, saw : Commits,
                             looked : 0..3, top : 0..MaxIds, alone : BOOLEAN]]
  /\ workLost \in BOOLEAN

IntakeInit ==
  /\ headAt = 0 /\ scanned = 0
  /\ intake = [i \in Ids |-> NoFile]
  /\ gen = [g \in Generators |-> GenIdle]
  /\ workLost = FALSE

-----------------------------------------------------------------------------
GenAt(g, pc) == gen[g].at = pc
GenIs(g, r) == gen' = [gen EXCEPT ![g] = r]
GenRests(g) == GenIs(g, GenIdle)

CommitComes ==
  /\ headAt < MaxCommits /\ headAt' = headAt + 1
  /\ UNCHANGED <<scanned, intake, gen, workLost>>

\* scan_git_changes compares with the state it loads; nothing new, nothing to
\* propose, ...
GenScan(g) ==
  /\ GenAt(g, "rest") /\ headAt # scanned
  /\ GenIs(g, [GenIdle EXCEPT !.at = "save", !.saw = headAt])
  /\ UNCHANGED <<headAt, scanned, intake, workLost>>

\* Mutant: the newest commit is asked for again.
GenSaveHead(g) ==
  /\ GenAt(g, "save")
  /\ scanned' = headAt
  /\ GenIs(g, [gen[g] EXCEPT !.at = "dedup"])
  /\ UNCHANGED <<headAt, intake, workLost>>

\* ... and saves the state before any task exists.
GenSave(g) ==
  /\ GenAt(g, "save")
  /\ scanned' = gen[g].saw
  /\ GenIs(g, [gen[g] EXCEPT !.at = "dedup"])
  /\ UNCHANGED <<headAt, intake, workLost>>

\* deduplicate: the title does not name the commit, so a task that is already
\* being worked on for an earlier commit stands for the new one.
Taken == {i \in Ids : intake[i].stage \in {"pending", "claimed"}}
GenDedup(g) ==
  /\ GenAt(g, "dedup")
  /\ IF Taken = {} THEN GenIs(g, [gen[g] EXCEPT !.at = "number"]) /\ UNCHANGED workLost
     ELSE GenRests(g) /\ workLost' = TRUE
  /\ UNCHANGED <<headAt, scanned, intake>>

\* Without --apply the proposals are shown, and the run ends.
GenPreview(g) ==
  /\ GenAt(g, "dedup") /\ Taken = {}
  /\ GenRests(g) /\ workLost' = TRUE
  /\ UNCHANGED <<headAt, scanned, intake>>

-----------------------------------------------------------------------------
Numbering(g) == GenAt(g, "number") /\ gen[g].looked > 0
NobodyElse(g) == \A k \in Generators \ {g} : ~Numbering(k)
MaxOf(S) == CHOOSE n \in S : \A m \in S : m <= n

\* Mutant: the directories are listed in the opposite order.
NumberLookBack(g) ==
  /\ GenAt(g, "number") /\ gen[g].looked < 3
  /\ LET n   == gen[g].looked + 1
         top == MaxOf({gen[g].top} \union {i \in Ids : intake[i].stage = ListedStages[4 - n]})
     IN  gen' = [h \in Generators |->
                   IF h = g THEN [gen[g] EXCEPT !.looked = n, !.top = top,
                       !.alone = IF n = 1 THEN NobodyElse(g) ELSE @]
                   ELSE [gen[h] EXCEPT !.alone = FALSE]]
  /\ UNCHANGED <<headAt, scanned, intake, workLost>>

\* _next_task_id lists one directory after the other, ...
NumberLook(g) ==
  /\ GenAt(g, "number") /\ gen[g].looked < 3
  /\ LET n   == gen[g].looked + 1
         top == MaxOf({gen[g].top} \union {i \in Ids : intake[i].stage = ListedStages[n]})
     IN  gen' = [h \in Generators |->
                   IF h = g THEN [gen[g] EXCEPT !.looked = n, !.top = top,
                       !.alone = IF n = 1 THEN NobodyElse(g) ELSE @]
                   ELSE [gen[h] EXCEPT !.alone = FALSE]]
  /\ UNCHANGED <<headAt, scanned, intake, workLost>>

\* ... and create_task writes the file of the next number, whether there is one
\* or not.
CreateTask(g) ==
  /\ GenAt(g, "number") /\ gen[g].looked = 3 /\ gen[g].top < MaxIds
  /\ intake' = [intake EXCEPT ![gen[g].top + 1] = [stage |-> "pending", of |-> gen[g].saw]]
  /\ workLost' = (workLost \/ intake[gen[g].top + 1].stage # "none")
  /\ GenRests(g)
  /\ UNCHANGED <<headAt, scanned>>

GenDies(g) ==
  /\ ~GenAt(g, "rest")
  /\ GenRests(g) /\ workLost' = TRUE
  /\ UNCHANGED <<headAt, scanned, intake>>

\* The tasks' own life; a requeue goes against the order of the listing.
TaskMoves(i, from, to) ==
  /\ intake[i].stage = from
  /\ intake' = [intake EXCEPT ![i].stage = to]
  /\ gen' = IF to = "pending" THEN [g \in Generators |-> [gen[g] EXCEPT !.alone = FALSE]] ELSE gen
  /\ UNCHANGED <<headAt, scanned, workLost>>

GenStep(g) == GenScan(g) \/ GenSave(g) \/ GenDedup(g) \/ GenPreview(g) \/ NumberLook(g) \/ CreateTask(g)
IntakeNext ==
  \/ CommitComes
  \/ \E g \in Generators : GenStep(g) \/ GenDies(g)
  \/ \E i \in Ids : \/ TaskMoves(i, "pending", "claimed") \/ TaskMoves(i, "claimed", "completed")
                    \/ TaskMoves(i, "claimed", "pending")

-----------------------------------------------------------------------------
\* Numbers are not given twice to those who create one task after the other,
\* although the board is listed directory by directory: tasks move in the
\* order of the listing.  (A requeue moves the other way, and a preempted task
\* is not listed at all.)
FreshNumbers ==
  [][\A i \in Ids, g \in Generators :
       (CreateTask(g) /\ gen[g].alone /\ intake'[i] # intake[i]) => intake[i].stage = "none"]_intakeVars

\* What the scan state counts as seen is the business of some task, or of a
\* generator that is about to create it, unless it was taken away.
SeenIsProposed ==
  workLost \/ \A c \in 1..scanned :
    \/ \E i \in Ids : intake[i].stage # "none" /\ intake[i].of >= c
    \/ \E g \in Generators : gen[g].at \in {"save", "dedup", "number"} /\ gen[g].saw >= c

\* "Without --apply, shows proposed tasks without creating them" (swarm_cli.py
\* 805): what a dry run has shown can still be proposed by the next run.
DryRunTakesNothing ==
  [][\A g \in Generators : GenPreview(g) => scanned < gen[g].saw]_intakeVars
=============================================================================
