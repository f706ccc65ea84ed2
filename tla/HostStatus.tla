----------------------------- MODULE HostStatus -----------------------------
(***************************************************************************)
(* The status files of the hosts (swarm_lib) under the hooks of the        *)
(* sessions (swarm_cli hooks): a host has one file, however many sessions  *)
(* run on it, a heartbeat reads it and writes it back, and every hook      *)
(* marks the silent hosts offline from what it read of all of them.        *)
(***************************************************************************)
EXTENDS Naturals

CONSTANTS
  SessionsOf,   \* of a host: the sessions that run on it, each once
  Sessions,
  StatusHosts,
  AgentHosts    \* bound: the hosts that have agents in the registry

ASSUME HostStatusAssumption ==
  /\ SessionsOf \in [StatusHosts -> SUBSET Sessions]
  /\ AgentHosts \subseteq StatusHosts
  /\ \A s \in Sessions : \E h \in StatusHosts : s \in SessionsOf[h]

VARIABLES
  hostFile,    \* status/<host>.json: state, and whether updated_at is recent
  agentBeat,   \* the newest last_heartbeat of the registry's agents on a host
  hook         \* of a session: where it is, the state it read, the hosts it marks

hostVars == <<hostFile, agentBeat, hook>>

States == {"none", "active", "idle", "offline"}
At     == {"off", "on", "beat", "mark", "marking", "ended"}

HostStatusTypeOK ==
  /\ hostFile \in [StatusHosts -> [state : States, recent : BOOLEAN]]
  /\ agentBeat \in [StatusHosts -> {"none", "recent", "old"}]
  /\ hook \in [Sessions -> [at : At, saw : States, todo : SUBSET StatusHosts]]

HostStatusInit ==
  /\ hostFile = [h \in StatusHosts |-> [state |-> "none", recent |-> FALSE]]
  /\ agentBeat = [h \in StatusHosts |-> "none"]
  /\ hook = [s \in Sessions |-> [at |-> "off", saw |-> "none", todo |-> {}]]

-----------------------------------------------------------------------------
HostOfSession(s) == CHOOSE h \in StatusHosts : s \in SessionsOf[h]
Now(state) == [state |-> state, recent |-> TRUE]

\* A hook of session s goes from one step to the next.
Hook(s, from, to, saw, todo) ==
  /\ hook[s].at = from
  /\ hook' = [hook EXCEPT ![s] = [at |-> to, saw |-> saw, todo |-> todo]]
WritesOwn(s, state) == hostFile' = [hostFile EXCEPT ![HostOfSession(s)] = Now(state)]

\* hook_session_start: update_status(state="active"), then mark_stale_nodes.
HookStart(s) ==
  /\ Hook(s, "off", "mark", "none", {})
  /\ WritesOwn(s, "active")
  /\ UNCHANGED agentBeat

\* hook_heartbeat: get_status; update_status writes the state that was read
\* with a new time, and nothing if there was no file.
BeatStart(s) ==
  /\ Hook(s, "on", "beat", hostFile[HostOfSession(s)].state, {})
  /\ UNCHANGED <<hostFile, agentBeat>>
BeatEnd(s) ==
  /\ Hook(s, "beat", "mark", "none", {})
  /\ IF hook[s].saw = "none" THEN UNCHANGED hostFile ELSE WritesOwn(s, hook[s].saw)
  /\ UNCHANGED agentBeat

\* hook_session_end, and _mark_node_idle of the crash handler.
HookEnd(s) ==
  /\ Hook(s, "on", "ended", "none", {})
  /\ WritesOwn(s, "idle")
  /\ UNCHANGED agentBeat

\* get_all_status puts the time of a newer heartbeat of the registry in the
\* place of updated_at, with that agent's state: an old one may say idle.
SeemsSilent(h) ==
  hostFile[h].state = "active" /\ ~hostFile[h].recent /\ agentBeat[h] # "recent"
MarkRead(s) ==
  /\ \E idle \in SUBSET {h \in StatusHosts : agentBeat[h] = "old"} :
       LET silent == {h \in StatusHosts \ idle : SeemsSilent(h)}
       IN  Hook(s, "mark", IF silent = {} THEN "on" ELSE "marking", "none", silent)
  /\ UNCHANGED <<hostFile, agentBeat>>

\* Mutant: the entry is written back with the state it had.
MarkWriteSame(s) ==
  \E h \in hook[s].todo :
    /\ Hook(s, "marking", IF hook[s].todo = {h} THEN "on" ELSE "marking", "none", hook[s].todo \ {h})
    /\ hostFile' = [hostFile EXCEPT ![h] = Now("active")]
    /\ UNCHANGED agentBeat

\* Offline is written over whatever the host wrote since; the host's own
\* heartbeats then keep it offline until its next session starts.
MarkWrite(s) ==
  \E h \in hook[s].todo :
    /\ Hook(s, "marking", IF hook[s].todo = {h} THEN "on" ELSE "marking", "none", hook[s].todo \ {h})
    /\ hostFile' = [hostFile EXCEPT ![h] = Now("offline")]
    /\ UNCHANGED agentBeat

-----------------------------------------------------------------------------
StatusAges(h) ==
  /\ hostFile[h].recent
  /\ hostFile' = [hostFile EXCEPT ![h].recent = FALSE]
  /\ UNCHANGED <<agentBeat, hook>>

\* The agents of the registry: they beat while a session runs; a record that
\* is old is removed some time (Registry).
Runs1(h) == \E s \in SessionsOf[h] : hook[s].at \notin {"off", "ended"}
AgentRecord(h) ==
  /\ h \in AgentHosts
  /\ \/ Runs1(h) /\ agentBeat' = [agentBeat EXCEPT ![h] = "recent"]
     \/ agentBeat[h] = "recent" /\ agentBeat' = [agentBeat EXCEPT ![h] = "old"]
     \/ agentBeat[h] = "old" /\ agentBeat' = [agentBeat EXCEPT ![h] = "none"]
  /\ UNCHANGED <<hostFile, hook>>

SessionKilled(s) ==
  /\ hook[s].at \notin {"off", "ended"}
  /\ hook' = [hook EXCEPT ![s] = [at |-> "ended", saw |-> "none", todo |-> {}]]
  /\ UNCHANGED <<hostFile, agentBeat>>

HookStep(s) == BeatStart(s) \/ BeatEnd(s) \/ MarkRead(s) \/ MarkWrite(s)

HostStatusNext ==
  \/ \E s \in Sessions : HookStart(s) \/ HookStep(s) \/ HookEnd(s) \/ SessionKilled(s)
  \/ \E h \in StatusHosts : StatusAges(h) \/ AgentRecord(h)

\* Running sessions beat, and what nobody writes grows old.
HostStatusFairness ==
  /\ \A s \in Sessions : WF_hostVars(HookStep(s))
  /\ \A h \in StatusHosts : WF_hostVars(StatusAges(h)) /\ WF_hostVars(AgentRecord(h))

-----------------------------------------------------------------------------
\* "Mark active nodes as offline if their status is older than threshold": a
\* host on which nobody runs is shown idle or offline some time, as long as
\* some session runs elsewhere, although a heartbeat may write active over
\* what the end of another session of the host wrote.
EmptyHostsShown ==
  \A h \in StatusHosts :
    ~Runs1(h) ~> \/ hostFile[h].state # "active" \/ Runs1(h)
                 \/ \A k \in StatusHosts : ~Runs1(k)

\* A host is shown offline only while nothing runs on it: the code does not
\* keep this.
OfflineIsEmpty ==
  \A h \in StatusHosts : Runs1(h) ~> (hostFile[h].state = "active" \/ ~Runs1(h))
=============================================================================
