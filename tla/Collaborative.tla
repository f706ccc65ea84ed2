--------------------------- MODULE Collaborative ---------------------------
(***************************************************************************)
(* collaborative.py: blockers.yaml of one session.  Workers report, the    *)
(* orchestrator resolves, both under _locked_file, and workers poll        *)
(* without the lock.  A call truncates the file at once, but what it dumps *)
(* stays in the buffer of its file object until close(), which comes after *)
(* the unlock; it is then written at offset 0 over whatever is there.      *)
(***************************************************************************)
EXTENDS Naturals, Sequences, SequencesExt

CONSTANTS
  Reporters,    \* workers; each reports the blocker of its name
  Resolver,     \* the orchestrator
  NoCaller,
  MaxReports    \* bound: blockers of each worker

ASSUME CollabAssumption ==
  Resolver \notin Reporters /\ NoCaller \notin Reporters \union {Resolver} /\ MaxReports \in Nat

VARIABLES
  blockersFile,   \* its list; readable: the YAML is whole
  collabLock,     \* who has the flock
  caller,         \* where each call is, the list it read or dumped, and the blocker it is about
  reported,       \* blockers whose write_blocker returned
  resolved,       \* blockers whose resolve_blocker returned
  overlapped      \* two calls were between their open and their close together

collabVars == <<blockersFile, collabLock, caller, reported, resolved, overlapped>>

Callers == Reporters \union {Resolver}
Blockers == Reporters \X (1..MaxReports)
Entries == [id : Blockers, resolved : BOOLEAN]
CallIdle == [at |-> "idle", list |-> <<>>, about |-> <<>>]

CollabTypeOK ==
  /\ blockersFile.list \in Seq(Entries) /\ blockersFile.readable \in BOOLEAN
  /\ collabLock \in Callers \union {NoCaller}
  /\ \A p \in Callers : /\ caller[p].at \in {"idle", "opened", "locked", "read", "dumped", "unlocked", "polls"}
                        /\ caller[p].list \in Seq(Entries)
                        /\ caller[p].about \in Blockers \union {<<>>}
  /\ reported \subseteq Blockers /\ resolved \subseteq Blockers
  /\ overlapped \in BOOLEAN

CollabInit ==
  /\ blockersFile = [list |-> <<>>, readable |-> TRUE]
  /\ collabLock = NoCaller
  /\ caller = [p \in Callers |-> CallIdle]
  /\ reported = {} /\ resolved = {}
  /\ overlapped = FALSE

-----------------------------------------------------------------------------
CallIs(p, r) == caller' = [caller EXCEPT ![p] = r]
CallGoes(p, from, to) == caller[p].at = from /\ CallIs(p, [caller[p] EXCEPT !.at = to])
InFile(list, b) == \E e \in ToSet(list) : e.id = b
Solved(list, b) == \E e \in ToSet(list) : e.id = b /\ e.resolved

\* read_blockers, without the lock: nothing, if it cannot be read.
ReadBlockers == IF blockersFile.readable THEN blockersFile.list ELSE <<>>

\* write_blocker, and resolve_blocker of an open blocker that read_blockers
\* returned: the open, ...
CollabOpen(p, b) ==
  /\ caller[p].at = "idle"
  /\ IF p = Resolver THEN InFile(ReadBlockers, b) /\ ~Solved(ReadBlockers, b)
     ELSE b[1] = p /\ b \notin reported /\ \A i \in 1..(b[2] - 1) : <<p, i>> \in reported
  /\ CallIs(p, [at |-> "opened", list |-> <<>>, about |-> b])
  /\ overlapped' = (overlapped \/ \E q \in Callers : caller[q].at \notin {"idle", "polls"})
  /\ UNCHANGED <<blockersFile, collabLock, reported, resolved>>

\* ... the flock, ...
CollabFlock(p) ==
  /\ collabLock = NoCaller
  /\ CallGoes(p, "opened", "locked")
  /\ collabLock' = p
  /\ UNCHANGED <<blockersFile, reported, resolved, overlapped>>

\* ... the read, which raises if the YAML is broken, ...
CollabRead(p) ==
  /\ caller[p].at = "locked"
  /\ IF blockersFile.readable
       THEN /\ CallIs(p, [caller[p] EXCEPT !.at = "read", !.list = blockersFile.list])
            /\ UNCHANGED collabLock
       ELSE CallIs(p, CallIdle) /\ collabLock' = NoCaller
  /\ UNCHANGED <<blockersFile, reported, resolved, overlapped>>

\* Mutant: a report does not keep the entries it read.
ChangedAlone(p) == <<[id |-> caller[p].about, resolved |-> p = Resolver]>>

\* ... the change, the truncate and the dump, ...
Changed(p) ==
  LET b == caller[p].about  list == caller[p].list
  IN  IF p = Resolver
        THEN [i \in DOMAIN list |-> IF list[i].id = b THEN [list[i] EXCEPT !.resolved = TRUE] ELSE list[i]]
        ELSE Append(list, [id |-> b, resolved |-> FALSE])
CollabDump(p) ==
  /\ caller[p].at = "read"
  /\ CallIs(p, [caller[p] EXCEPT !.at = "dumped", !.list = Changed(p)])
  /\ blockersFile' = [list |-> <<>>, readable |-> TRUE]
  /\ UNCHANGED <<collabLock, reported, resolved, overlapped>>

\* ... the unlock, ...
CollabUnlock(p) ==
  /\ CallGoes(p, "dumped", "unlocked")
  /\ collabLock' = NoCaller
  /\ UNCHANGED <<blockersFile, reported, resolved, overlapped>>

Returns(p) ==
  LET b == caller[p].about
  IN  IF p = Resolver
        THEN CallIs(p, CallIdle) /\ resolved' = resolved \union {b} /\ UNCHANGED reported
        ELSE CallIs(p, [caller[p] EXCEPT !.at = "polls", !.list = <<>>])
             /\ reported' = reported \union {b} /\ UNCHANGED resolved

\* ... and the close, which writes: what is longer than this text keeps its
\* tail, as entries or as broken YAML.
CollabClose(p) ==
  /\ caller[p].at = "unlocked"
  /\ LET mine == caller[p].list  n == Len(mine)  there == blockersFile.list
     IN  IF n >= Len(there) THEN blockersFile' = [list |-> mine, readable |-> TRUE]
         ELSE \E whole \in BOOLEAN :
                blockersFile' = [list |-> mine \o SubSeq(there, n + 1, Len(there)), readable |-> whole]
  /\ Returns(p)
  /\ UNCHANGED <<collabLock, overlapped>>

\* poll_for_resolution: it is resolved, or the time is over.
PollEnds(p) ==
  /\ caller[p].at = "polls"
  /\ CallIs(p, CallIdle)
  /\ UNCHANGED <<blockersFile, collabLock, reported, resolved, overlapped>>

CollabNext ==
  \E p \in Callers :
    \/ \E b \in Blockers : CollabOpen(p, b)
    \/ CollabFlock(p) \/ CollabRead(p) \/ CollabDump(p) \/ CollabUnlock(p) \/ CollabClose(p)
    \/ PollEnds(p)

CollabSpec == CollabInit /\ [][CollabNext]_collabVars

-----------------------------------------------------------------------------
Quiet == \A p \in Callers : caller[p].at \in {"idle", "polls"}

\* "Two threads writing blockers simultaneously -- both should persist"
\* (test_collaborative_locking.py:64): between calls every blocker whose
\* report returned is in the file.  The code does not keep this.
ReportsPersist == Quiet => \A b \in reported : InFile(ReadBlockers, b)

\* Calls that take turns lose nothing: every report and every resolution that
\* returned is found by who looks next.
TurnsPersist ==
  Quiet /\ ~overlapped =>
    /\ \A b \in reported : InFile(ReadBlockers, b)
    /\ \A b \in resolved : Solved(ReadBlockers, b)
=============================================================================
