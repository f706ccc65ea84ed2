------------------------------ MODULE Cascade ------------------------------
(***************************************************************************)
(* state_store_cascade.py: one slot and one task of the ledger, kept in    *)
(* Redis, in the Context Bridge (CB) when Redis is down, and in SQLite     *)
(* when both are.  Only Redis writes are mirrored, to SQLite, by an        *)
(* executor with two threads; what is written after a fail-over is never   *)
(* carried back.  The retry window of _try_redis is the time in which an   *)
(* outage does not count.                                                  *)
(***************************************************************************)
EXTENDS Naturals, FiniteSets, Sequences, SequencesExt

CONSTANTS
  Clients,
  NoClient,
  MaxFailovers,      \* bound: outages and returns of Redis and the CB, and expiries
  MaxLedgerWrites,   \* bound
  MaxMirror          \* bound: jobs waiting in the executor

ASSUME CascadeAssumption ==
  NoClient \notin Clients /\ {MaxFailovers, MaxLedgerWrites, MaxMirror} \subseteq Nat

VARIABLES
  storeUp,     \* redis, cb: does it answer
  slotIn,      \* the live holder of the slot in redis, cb and sqlite
  ledgerIn,    \* the version of the task in each of them; 0: none
  mirror,      \* jobs of the executor
  client,      \* where a call is
  slotHeld,    \* who was told that the slot is theirs
  ledgerDone,  \* the last version whose write returned True
  failovers,
  trust,       \* the store that alone has decided until now; none: no more one
  kept         \* the holder when trust passed from redis to sqlite, while it holds

cascadeVars == <<storeUp, slotIn, ledgerIn, mirror, client, slotHeld, ledgerDone, failovers, trust, kept>>
netVars == <<storeUp, failovers, trust>>

Stores == {"redis", "cb", "sqlite"}
SomeClient == Clients \union {NoClient}
MirrorJobs == [job : {"claim", "release"}, by : Clients] \union [job : {"write"}, version : 1..MaxLedgerWrites]

CascadeTypeOK ==
  /\ storeUp \in [{"redis", "cb"} -> BOOLEAN]
  /\ slotIn \in [Stores -> SomeClient]
  /\ ledgerIn \in [Stores -> 0..MaxLedgerWrites]
  /\ mirror \in Seq(MirrorJobs) /\ Len(mirror) <= MaxMirror
  /\ client \in [Clients -> {"idle", "claimCb", "claimSqlite", "named", "clearCb", "releaseSqlite"}]
  /\ slotHeld \subseteq Clients
  /\ ledgerDone \in 0..MaxLedgerWrites /\ failovers \in 0..MaxFailovers
  /\ trust \in {"redis", "sqlite", "none"} /\ kept \in SomeClient

CascadeInit ==
  /\ storeUp \in [{"redis", "cb"} -> BOOLEAN] /\ storeUp["redis"]
  /\ slotIn = [s \in Stores |-> NoClient]
  /\ ledgerIn = [s \in Stores |-> 0]
  /\ mirror = <<>>
  /\ client = [u \in Clients |-> "idle"]
  /\ slotHeld = {}
  /\ ledgerDone = 0 /\ failovers = 0
  /\ trust = "redis" /\ kept = NoClient

-----------------------------------------------------------------------------
ClientGoes(u, from, to) == client[u] = from /\ client' = [client EXCEPT ![u] = to]
Gets(u) == slotHeld' = slotHeld \union {u} /\ kept' = kept
Loses(u) == slotHeld' = slotHeld \ {u} /\ kept' = IF kept = u THEN NoClient ELSE kept
Holds(s, u) == slotIn' = [slotIn EXCEPT ![s] = u]
FreeFor(s, u) == slotIn[s] \in {NoClient, u}

\* claim_slot: SET NX EX, and the mirror job.
ClaimInRedis(u) ==
  /\ u \notin slotHeld /\ storeUp["redis"] /\ slotIn["redis"] = NoClient
  /\ Len(mirror) < MaxMirror
  /\ ClientGoes(u, "idle", "idle") /\ Gets(u)
  /\ Holds("redis", u)
  /\ mirror' = Append(mirror, [job |-> "claim", by |-> u])
  /\ UNCHANGED <<ledgerIn, ledgerDone, netVars>>

\* Redis is down: the CB is asked.  No answer looks like a free slot.
ClaimQueryCb(u) ==
  /\ u \notin slotHeld /\ ~storeUp["redis"] /\ (storeUp["cb"] => FreeFor("cb", u))
  /\ ClientGoes(u, "idle", "claimCb")
  /\ UNCHANGED <<slotIn, ledgerIn, mirror, slotHeld, ledgerDone, netVars, kept>>
ClaimAssertCb(u) ==
  /\ storeUp["cb"]
  /\ ClientGoes(u, "claimCb", "idle") /\ Gets(u)
  /\ Holds("cb", u)
  /\ UNCHANGED <<ledgerIn, mirror, ledgerDone, netVars>>

\* Mutant: the row is replaced whoever it names.
ClaimReadSqliteBlind(u) ==
  /\ ~storeUp["cb"]
  /\ ClientGoes(u, "claimCb", "claimSqlite")
  /\ UNCHANGED <<slotIn, ledgerIn, mirror, slotHeld, ledgerDone, netVars, kept>>

\* slot_claim: a SELECT takes no lock, and the INSERT OR REPLACE looks no more.
ClaimReadSqlite(u) ==
  /\ ~storeUp["cb"]
  /\ ClientGoes(u, "claimCb", IF FreeFor("sqlite", u) THEN "claimSqlite" ELSE "idle")
  /\ UNCHANGED <<slotIn, ledgerIn, mirror, slotHeld, ledgerDone, netVars, kept>>
ClaimWriteSqlite(u) ==
  /\ ClientGoes(u, "claimSqlite", "idle") /\ Gets(u)
  /\ Holds("sqlite", u)
  /\ UNCHANGED <<ledgerIn, mirror, ledgerDone, netVars>>

-----------------------------------------------------------------------------
\* release_slot of a holder: GET, then DEL of what is there and the mirror
\* job; a slot that names another is not released.
ReleaseAsk(u) ==
  /\ u \in slotHeld /\ storeUp["redis"]
  /\ IF slotIn["redis"] = u
       THEN ClientGoes(u, "idle", "named") /\ UNCHANGED <<slotHeld, kept>>
       ELSE ClientGoes(u, "idle", "idle") /\ Loses(u)
  /\ UNCHANGED <<slotIn, ledgerIn, mirror, ledgerDone, netVars>>
ReleaseInRedis(u) ==
  /\ storeUp["redis"] /\ Len(mirror) < MaxMirror
  /\ ClientGoes(u, "named", "idle") /\ Loses(u)
  /\ Holds("redis", NoClient)
  /\ mirror' = IF slotIn["redis"] = NoClient THEN mirror
               ELSE Append(mirror, [job |-> "release", by |-> u])
  /\ UNCHANGED <<ledgerIn, ledgerDone, netVars>>

\* Redis is down, or went down before the DEL.
ReleaseQueryCb(u) ==
  /\ u \in slotHeld /\ ~storeUp["redis"]
  /\ \E from \in {"idle", "named"} :
       ClientGoes(u, from, IF storeUp["cb"] /\ slotIn["cb"] = u THEN "clearCb" ELSE "releaseSqlite")
  /\ UNCHANGED <<slotIn, ledgerIn, mirror, slotHeld, ledgerDone, netVars, kept>>
ReleaseClearCb(u) ==
  /\ IF storeUp["cb"]
       THEN ClientGoes(u, "clearCb", "idle") /\ Holds("cb", NoClient) /\ Loses(u)
       ELSE ClientGoes(u, "clearCb", "releaseSqlite") /\ UNCHANGED <<slotIn, slotHeld, kept>>
  /\ UNCHANGED <<ledgerIn, mirror, ledgerDone, netVars>>
ReleaseInSqlite(u) ==
  /\ ClientGoes(u, "releaseSqlite", "idle") /\ Loses(u)
  /\ Holds("sqlite", IF slotIn["sqlite"] = u THEN NoClient ELSE slotIn["sqlite"])
  /\ UNCHANGED <<ledgerIn, mirror, ledgerDone, netVars>>

-----------------------------------------------------------------------------
\* Mutant: with both down the write is acknowledged and goes nowhere.
LedgerWriteDropped ==
  /\ ledgerDone < MaxLedgerWrites /\ Len(mirror) < MaxMirror
  /\ ledgerDone' = ledgerDone + 1
  /\ ledgerIn' = IF storeUp["redis"] THEN [ledgerIn EXCEPT !["redis"] = ledgerDone'] ELSE ledgerIn
  /\ mirror' = IF storeUp["redis"] THEN Append(mirror, [job |-> "write", version |-> ledgerDone'])
                                   ELSE mirror
  /\ UNCHANGED <<slotIn, client, slotHeld, netVars, kept>>

\* ledger_write
LedgerWrite ==
  /\ ledgerDone < MaxLedgerWrites /\ Len(mirror) < MaxMirror
  /\ ledgerDone' = ledgerDone + 1
  /\ LET s == IF storeUp["redis"] THEN "redis" ELSE IF storeUp["cb"] THEN "cb" ELSE "sqlite"
     IN  /\ ledgerIn' = [ledgerIn EXCEPT ![s] = ledgerDone']
         /\ mirror' = IF s = "redis" THEN Append(mirror, [job |-> "write", version |-> ledgerDone'])
                                     ELSE mirror
  /\ UNCHANGED <<slotIn, client, slotHeld, netVars, kept>>

\* A job of the executor, one of the two its threads have; a claim that finds
\* another holder is dropped without a word.
MirrorRun(i) ==
  /\ i \in 1..2 /\ i <= Len(mirror)
  /\ LET m == mirror[i]
     IN  /\ slotIn' = [slotIn EXCEPT !["sqlite"] =
               IF m.job = "claim" /\ FreeFor("sqlite", m.by) THEN m.by
               ELSE IF m.job = "release" /\ @ = m.by THEN NoClient ELSE @]
         /\ ledgerIn' = IF m.job = "write" THEN [ledgerIn EXCEPT !["sqlite"] = m.version] ELSE ledgerIn
  /\ mirror' = RemoveAt(mirror, i)
  /\ UNCHANGED <<client, slotHeld, ledgerDone, netVars, kept>>

\* The slot's TTL runs out in one of the stores.
CascadeExpires(s) ==
  /\ slotIn[s] # NoClient /\ failovers < MaxFailovers
  /\ Holds(s, NoClient)
  /\ failovers' = failovers + 1 /\ trust' = "none"
  /\ UNCHANGED <<storeUp, ledgerIn, mirror, client, slotHeld, ledgerDone, kept>>

MirrorCurrent ==
  mirror = <<>> /\ slotIn["sqlite"] = slotIn["redis"] /\ ledgerIn["sqlite"] = ledgerIn["redis"]
Flips(s) ==
  /\ failovers < MaxFailovers /\ failovers' = failovers + 1
  /\ storeUp' = [storeUp EXCEPT ![s] = ~@]
  /\ UNCHANGED <<slotIn, ledgerIn, mirror, client, slotHeld, ledgerDone>>
\* trust and kept only tell what the properties are about.
RedisFlips ==
  /\ Flips("redis")
  /\ trust' = IF trust = "redis" /\ ~storeUp["cb"] /\ MirrorCurrent THEN "sqlite" ELSE "none"
  /\ kept' = IF trust' = "sqlite" /\ slotIn["redis"] \in slotHeld THEN slotIn["redis"] ELSE NoClient
CbFlips ==
  /\ Flips("cb")
  /\ trust' = IF trust = "sqlite" THEN "none" ELSE trust
  /\ UNCHANGED kept

CascadeNext ==
  \/ \E u \in Clients :
       \/ ClaimInRedis(u) \/ ClaimQueryCb(u) \/ ClaimAssertCb(u) \/ ClaimReadSqlite(u) \/ ClaimWriteSqlite(u)
       \/ ReleaseAsk(u) \/ ReleaseInRedis(u) \/ ReleaseQueryCb(u) \/ ReleaseClearCb(u) \/ ReleaseInSqlite(u)
  \/ LedgerWrite \/ RedisFlips \/ CbFlips
  \/ \E i \in 1..2 : MirrorRun(i)
  \/ \E s \in Stores : CascadeExpires(s)

-----------------------------------------------------------------------------
\* "Claim a named slot atomically": while Redis has answered from the
\* beginning nobody shares the slot, and when Redis and the CB are down, the
\* claim that was mirrored in time keeps everybody else out until it is
\* released.  (Without the condition it does not: a CB that is up, or a late
\* or overtaken mirror job, makes the slot look free.)
OneSlotHolder ==
  /\ trust = "redis" => Cardinality(slotHeld) <= 1
  /\ trust = "sqlite" /\ kept # NoClient => slotHeld = {kept}

\* ledger_read finds what was written last, in Redis, or, once the mirror
\* was complete when both others failed, in SQLite.
LedgerCurrent == trust # "none" => ledgerIn[trust] = ledgerDone
=============================================================================
