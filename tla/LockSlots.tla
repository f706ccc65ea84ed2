------------------------------ MODULE LockSlots ------------------------------
(***************************************************************************)
(* gpu_slots.py: the lock file of one GPU slot.  A claim reads the file,   *)
(* opens it for writing, which empties it, and only then asks for the      *)
(* flock, which goes when claim_slot returns and its file is collected.    *)
(* An empty file, or none, is a free slot.  The PID in the file is read    *)
(* with int() up to the first ":", which the format never lets succeed, so *)
(* a file that names anyone refuses every claim.  Heartbeat, release and   *)
(* the release of stale slots read the file and write it later.            *)
(***************************************************************************)
EXTENDS Naturals, FiniteSets

CONSTANTS
  SlotUsers, SlotSweepers,
  SlotHost,        \* the host of each user and sweeper
  NoUser,          \* the file is empty
  MaxSlotDeaths    \* bound: how many users die

ASSUME SlotAssumption ==
  /\ NoUser \notin SlotUsers /\ SlotUsers \intersect SlotSweepers = {}
  /\ MaxSlotDeaths \in Nat

VARIABLES
  slotFile,   \* the content: who is named, whether the heartbeat is old, the deadline past
  slotFlock,  \* who has the flock
  slotUser,   \* where a user is, and the content it has read
  judging,    \* sweepers that found the slot stale
  slotDead

slotVars == <<slotFile, slotFlock, slotUser, judging, slotDead>>

Empty    == [by |-> NoUser, old |-> FALSE, late |-> FALSE]
Contents == [by : SlotUsers \union {NoUser}, old : BOOLEAN, late : BOOLEAN]
Fresh(u) == [by |-> u, old |-> FALSE, late |-> FALSE]

SlotTypeOK ==
  /\ slotFile \in Contents
  /\ slotFlock \in SlotUsers \union {NoUser}
  /\ slotUser \in [SlotUsers -> [at : {"idle", "free", "opened", "locked", "written", "holds",
                                       "beats", "truncated", "releases"}, saw : Contents]]
  /\ judging \subseteq SlotSweepers
  /\ slotDead \subseteq SlotUsers

SlotInit ==
  /\ slotFile = Empty
  /\ slotFlock = NoUser
  /\ slotUser = [u \in SlotUsers |-> [at |-> "idle", saw |-> Empty]]
  /\ judging = {}
  /\ slotDead = {}

-----------------------------------------------------------------------------
SlotMoves(u, from, to, saw) ==
  /\ u \notin slotDead /\ slotUser[u].at = from
  /\ slotUser' = [slotUser EXCEPT ![u] = [at |-> to, saw |-> saw]]

\* claim_slot: the check of the content, ...
SlotCheck(u) ==
  /\ slotFile.by = NoUser
  /\ SlotMoves(u, "idle", "free", Empty)
  /\ UNCHANGED <<slotFile, slotFlock, judging, slotDead>>

\* ... open(lock_path, "w"), ...
SlotOpen(u) ==
  /\ SlotMoves(u, "free", "opened", Empty)
  /\ slotFile' = Empty
  /\ UNCHANGED <<slotFlock, judging, slotDead>>

\* Mutant: LOCK_SH.
SlotLockShared(u) ==
  /\ SlotMoves(u, "opened", "locked", Empty)
  /\ slotFlock' = u
  /\ UNCHANGED <<slotFile, judging, slotDead>>

\* ... the flock, or False, ...
SlotLock(u) ==
  /\ IF slotFlock = NoUser
       THEN SlotMoves(u, "opened", "locked", Empty) /\ slotFlock' = u
       ELSE SlotMoves(u, "opened", "idle", Empty) /\ UNCHANGED slotFlock
  /\ UNCHANGED <<slotFile, judging, slotDead>>

\* ... the write, and the return, which gives the flock up.
SlotWrite(u) ==
  /\ SlotMoves(u, "locked", "written", Empty)
  /\ slotFile' = Fresh(u)
  /\ UNCHANGED <<slotFlock, judging, slotDead>>
SlotClaimed(u) ==
  /\ SlotMoves(u, "written", "holds", Empty)
  /\ slotFlock' = NoUser
  /\ UNCHANGED <<slotFile, judging, slotDead>>

Ours(u, content) == content.by # NoUser /\ SlotHost[content.by] = SlotHost[u]

\* heartbeat_slot: it reads whoever of its host is named, and write_text
\* opens the file, which empties it, and writes that user back.
BeatRead(u) ==
  /\ Ours(u, slotFile)
  /\ SlotMoves(u, "holds", "beats", slotFile)
  /\ UNCHANGED <<slotFile, slotFlock, judging, slotDead>>
BeatTruncate(u) ==
  /\ SlotMoves(u, "beats", "truncated", slotUser[u].saw)
  /\ slotFile' = Empty
  /\ UNCHANGED <<slotFlock, judging, slotDead>>
BeatWrite(u) ==
  /\ SlotMoves(u, "truncated", "holds", Empty)
  /\ slotFile' = [slotUser[u].saw EXCEPT !.old = FALSE]
  /\ UNCHANGED <<slotFlock, judging, slotDead>>

\* release_slot: False for a slot another host has; else the file is
\* emptied, whichever process of this host it names by now.
ReleaseRead(u) ==
  /\ SlotMoves(u, "holds", IF slotFile.by # NoUser /\ ~Ours(u, slotFile)
                             THEN "idle" ELSE "releases", Empty)
  /\ UNCHANGED <<slotFile, slotFlock, judging, slotDead>>
ReleaseClear(u) ==
  /\ SlotMoves(u, "releases", "idle", Empty)
  /\ slotFile' = Empty
  /\ UNCHANGED <<slotFlock, judging, slotDead>>

-----------------------------------------------------------------------------
\* is_slot_stale or is_slot_expired
SlotStale(s) ==
  /\ slotFile.by # NoUser
  /\ \/ slotFile.old \/ slotFile.late
     \/ slotFile.by \in slotDead /\ SlotHost[slotFile.by] = SlotHost[s]

\* Mutant: only a dead PID of this host counts.
SlotJudgeByPid(s) ==
  /\ slotFile.by \in slotDead /\ SlotHost[slotFile.by] = SlotHost[s]
  /\ judging' = judging \union {s}
  /\ UNCHANGED <<slotFile, slotFlock, slotUser, slotDead>>

\* release_stale_slots: the checks, and later the file is emptied.
SlotJudge(s) ==
  /\ s \notin judging /\ SlotStale(s)
  /\ judging' = judging \union {s}
  /\ UNCHANGED <<slotFile, slotFlock, slotUser, slotDead>>
SlotClear(s) ==
  /\ s \in judging
  /\ judging' = judging \ {s}
  /\ slotFile' = Empty
  /\ UNCHANGED <<slotFlock, slotUser, slotDead>>

\* Time passes over the threshold, and over the deadline.
BeatAges ==
  /\ slotFile.by # NoUser /\ ~slotFile.old
  /\ slotFile' = [slotFile EXCEPT !.old = TRUE]
  /\ UNCHANGED <<slotFlock, slotUser, judging, slotDead>>
DeadlinePasses ==
  /\ slotFile.by # NoUser /\ ~slotFile.late
  /\ slotFile' = [slotFile EXCEPT !.late = TRUE]
  /\ UNCHANGED <<slotFlock, slotUser, judging, slotDead>>

\* The kernel drops the flock of a process that dies.
SlotDie(u) ==
  /\ u \notin slotDead /\ Cardinality(slotDead) < MaxSlotDeaths
  /\ slotDead' = slotDead \union {u}
  /\ slotUser' = [slotUser EXCEPT ![u] = [at |-> "idle", saw |-> Empty]]
  /\ slotFlock' = IF slotFlock = u THEN NoUser ELSE slotFlock
  /\ UNCHANGED <<slotFile, judging>>

SlotStep(u) ==
  \/ SlotCheck(u) \/ SlotOpen(u) \/ SlotLock(u) \/ SlotWrite(u) \/ SlotClaimed(u)
  \/ BeatRead(u) \/ BeatTruncate(u) \/ BeatWrite(u) \/ ReleaseRead(u) \/ ReleaseClear(u)

SlotNext ==
  \/ \E u \in SlotUsers : SlotStep(u) \/ SlotDie(u)
  \/ \E s \in SlotSweepers : SlotJudge(s) \/ SlotClear(s)
  \/ BeatAges \/ DeadlinePasses

\* Calls in progress end, time passes and release_stale_slots is run again
\* and again.
SlotFairness ==
  /\ \A u \in SlotUsers :
       /\ WF_slotVars(SlotOpen(u) \/ SlotLock(u) \/ SlotWrite(u) \/ SlotClaimed(u))
       /\ WF_slotVars(BeatTruncate(u) \/ BeatWrite(u) \/ ReleaseClear(u))
  /\ WF_slotVars(BeatAges) /\ WF_slotVars(DeadlinePasses)
  /\ \A s \in SlotSweepers : WF_slotVars(SlotJudge(s)) /\ WF_slotVars(SlotClear(s))

-----------------------------------------------------------------------------
\* "Returns True if claimed successfully, False if already held": two users
\* never both have the slot.  The code does not keep this.
OneHolder ==
  \A u, v \in SlotUsers : slotUser[u].at = "holds" /\ slotUser[v].at = "holds" => u = v

\* What the flock does give: two users are never between their flock and
\* their return together, so what one writes is not mixed with the other's.
WritersExclude ==
  \A u \in SlotUsers \ slotDead :
    slotUser[u].at \in {"locked", "written"} <=> slotFlock = u

\* "Auto-release": a slot that names a dead user is given back, whether by
\* its PID, its heartbeat or its deadline.
SlotComesBack ==
  \A u \in SlotUsers : (u \in slotDead /\ slotFile.by = u) ~> slotFile.by # u
=============================================================================
