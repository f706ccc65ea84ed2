------------------------------ MODULE EventBus ------------------------------
(***************************************************************************)
(* The event bus in files (events.py) and the repositories that follow it  *)
(* (sync_engine.py): a host pushes and emits a commit event; the watcher   *)
(* of another host asks for the events since its last check, pulls, and    *)
(* then notes the time.  An event takes its timestamp, in seconds, before  *)
(* its file is named and written; a query reads the files newest name      *)
(* first and stops at the first timestamp that is too old.                 *)
(***************************************************************************)
EXTENDS Naturals, FiniteSets

CONSTANTS
  Pushers,     \* hosts that push to the project
  MaxPushes,   \* bound
  MaxClock,    \* bound on the clock, in seconds
  MaxFiles     \* of rotate

ASSUME BusAssumption == {MaxPushes, MaxClock} \subseteq Nat /\ MaxFiles \in Nat \ {0}

VARIABLES
  busClock,
  remoteHead,   \* pushes so far; a commit is its number
  localHead,    \* what the watcher's host has pulled
  eventFiles,   \* the commit of each file, its timestamp and its place by name
  pusher,       \* where a push is, its commit and the timestamp of its event
  watcher,      \* where a check is, and whether it found something to pull
  lastCheck,
  unpulled,     \* commits whose pusher died, whose pull failed or whose event was rotated too soon
  lateEvents    \* some event was under way while a check was

busVars == <<busClock, remoteHead, localHead, eventFiles, pusher, watcher, lastCheck, unpulled, lateEvents>>

PushIdle == [at |-> "idle", commit |-> 0, stamp |-> 0]
Checking == watcher.at # "waits"

BusTypeOK ==
  /\ busClock \in 0..MaxClock /\ lastCheck \in 0..MaxClock
  /\ remoteHead \in 0..MaxPushes /\ localHead \in 0..remoteHead
  /\ eventFiles \subseteq [commit : 1..MaxPushes, stamp : 0..MaxClock, name : 1..MaxPushes]
  /\ pusher \in [Pushers -> [at : {"idle", "pushed", "stamped"}, commit : 0..MaxPushes,
                             stamp : 0..MaxClock]]
  /\ watcher \in [at : {"waits", "queried", "pulled"}, pull : BOOLEAN]
  /\ unpulled \subseteq 1..MaxPushes /\ lateEvents \in BOOLEAN

BusInit ==
  /\ busClock = 0 /\ lastCheck = 0
  /\ remoteHead = 0 /\ localHead = 0
  /\ eventFiles = {}
  /\ pusher = [h \in Pushers |-> PushIdle]
  /\ watcher = [at |-> "waits", pull |-> FALSE]
  /\ unpulled = {} /\ lateEvents = FALSE

-----------------------------------------------------------------------------
\* git_push: the push, ...
Push(h) ==
  /\ pusher[h].at = "idle" /\ remoteHead < MaxPushes
  /\ remoteHead' = remoteHead + 1
  /\ pusher' = [pusher EXCEPT ![h] = [at |-> "pushed", commit |-> remoteHead', stamp |-> 0]]
  /\ UNCHANGED <<busClock, localHead, eventFiles, watcher, lastCheck, unpulled, lateEvents>>

\* ... and emit: the timestamp, ...
EventStamp(h) ==
  /\ pusher[h].at = "pushed"
  /\ pusher' = [pusher EXCEPT ![h].at = "stamped", ![h].stamp = busClock]
  /\ lateEvents' = (lateEvents \/ Checking)
  /\ UNCHANGED <<busClock, remoteHead, localHead, eventFiles, watcher, lastCheck, unpulled>>

NewestName == IF eventFiles = {} THEN 0
              ELSE CHOOSE n \in 1..MaxPushes : /\ \E e \in eventFiles : e.name = n
                                               /\ \A e \in eventFiles : e.name <= n

\* ... the name, and the file.  (A reader skips one that is half written.)
EventWrite(h) ==
  /\ pusher[h].at = "stamped"
  /\ eventFiles' = eventFiles \union
       {[commit |-> pusher[h].commit, stamp |-> pusher[h].stamp, name |-> 1 + NewestName]}
  /\ pusher' = [pusher EXCEPT ![h] = PushIdle]
  /\ lateEvents' = (lateEvents \/ Checking)
  /\ UNCHANGED <<busClock, remoteHead, localHead, watcher, lastCheck, unpulled>>

PusherDies(h) ==
  /\ pusher[h].at # "idle"
  /\ pusher' = [pusher EXCEPT ![h] = PushIdle]
  /\ unpulled' = unpulled \union {pusher[h].commit}
  /\ UNCHANGED <<busClock, remoteHead, localHead, eventFiles, watcher, lastCheck, lateEvents>>

-----------------------------------------------------------------------------
\* Mutant: only what is newer than the last check.
EventsAfter(since) ==
  {e \in eventFiles : \A f \in eventFiles : f.name >= e.name => f.stamp > since}

\* query(since): it stops at the first file that is too old.
EventsSince(since) ==
  {e \in eventFiles : \A f \in eventFiles : f.name >= e.name => f.stamp >= since}

\* process_commit_events: the query, ...
WatchQuery ==
  /\ watcher.at = "waits"
  /\ watcher' = [at |-> "queried", pull |-> EventsSince(lastCheck) # {}]
  /\ lateEvents' = (lateEvents \/ \E h \in Pushers : pusher[h].at = "stamped")
  /\ UNCHANGED <<busClock, remoteHead, localHead, eventFiles, pusher, lastCheck, unpulled>>

\* ... the pull, whose failure is not looked at again, ...
WatchPull ==
  /\ watcher.at = "queried"
  /\ watcher' = [watcher EXCEPT !.at = "pulled"]
  /\ \/ watcher.pull /\ localHead' = remoteHead /\ UNCHANGED unpulled
     \/ watcher.pull /\ unpulled' = unpulled \union 1..remoteHead /\ UNCHANGED localHead
     \/ ~watcher.pull /\ UNCHANGED <<localHead, unpulled>>
  /\ UNCHANGED <<busClock, remoteHead, eventFiles, pusher, lastCheck, lateEvents>>

\* ... and _last_check.
WatchMark ==
  /\ watcher.at = "pulled"
  /\ lastCheck' = busClock
  /\ watcher' = [at |-> "waits", pull |-> FALSE]
  /\ UNCHANGED <<busClock, remoteHead, localHead, eventFiles, pusher, unpulled, lateEvents>>

\* SwarmSession.start pulls every project.
SessionPulls ==
  /\ localHead' = remoteHead
  /\ UNCHANGED <<busClock, remoteHead, eventFiles, pusher, watcher, lastCheck, unpulled, lateEvents>>

\* rotate moves the oldest files away.
RotateEvents ==
  /\ Cardinality(eventFiles) > MaxFiles
  /\ \E e \in eventFiles :
       /\ \A f \in eventFiles : e.name <= f.name
       /\ eventFiles' = eventFiles \ {e}
       /\ unpulled' = IF e.stamp < lastCheck THEN unpulled ELSE unpulled \union {e.commit}
  /\ UNCHANGED <<busClock, remoteHead, localHead, pusher, watcher, lastCheck, lateEvents>>

SecondPasses ==
  /\ busClock < MaxClock /\ busClock' = busClock + 1
  /\ UNCHANGED <<remoteHead, localHead, eventFiles, pusher, watcher, lastCheck, unpulled, lateEvents>>

WatchStep == WatchQuery \/ WatchPull \/ WatchMark
BusNext ==
  \/ \E h \in Pushers : Push(h) \/ EventStamp(h) \/ EventWrite(h) \/ PusherDies(h)
  \/ WatchStep \/ SessionPulls \/ RotateEvents \/ SecondPasses

\* The loop of the watcher goes on, and so does a push.
BusFairness ==
  /\ WF_busVars(WatchStep)
  /\ \A h \in Pushers : WF_busVars(EventStamp(h) \/ EventWrite(h))

-----------------------------------------------------------------------------
\* "Pull repos that got commits from other hosts since a timestamp": although
\* timestamps have seconds and the watcher notes the time after its pull, no
\* push is overlooked unless some event was stamped or written during a
\* check, or the push, the pull or the rotation went wrong for it.
CommitsArrive ==
  \A c \in 1..MaxPushes : remoteHead >= c ~> (localHead >= c \/ c \in unpulled \/ lateEvents)
=============================================================================
