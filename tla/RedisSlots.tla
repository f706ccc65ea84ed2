----------------------------- MODULE RedisSlots -----------------------------
(***************************************************************************)
(* gpu_slots_redis.py over redis_client.py: one GPU slot as the key        *)
(* gpu:slot:N, set with NX and EX.  Nothing refreshes the key, so a holder *)
(* that works longer than GPU_SLOT_TTL loses it without a word, and a      *)
(* release is a GET and, if it named the caller, a DEL.                    *)
(***************************************************************************)
EXTENDS Naturals, FiniteSets

CONSTANTS
  Holders,
  NoHolder,
  MaxHolderDeaths   \* bound: how many holders die

ASSUME RedisSlotAssumption == NoHolder \notin Holders /\ MaxHolderDeaths \in Nat

VARIABLES
  slotKey,     \* the value of gpu:slot:N; NoHolder: no such key
  holderAt,    \* idle, waits (claim_slot with a timeout), holds, releases (GET named it)
  holderDead

redisSlotVars == <<slotKey, holderAt, holderDead>>

RedisSlotTypeOK ==
  /\ slotKey \in Holders \union {NoHolder}
  /\ holderAt \in [Holders -> {"idle", "waits", "holds", "releases"}]
  /\ holderDead \subseteq Holders

RedisSlotInit ==
  /\ slotKey = NoHolder
  /\ holderAt = [u \in Holders |-> "idle"]
  /\ holderDead = {}

HolderGoes(u, from, to) ==
  /\ u \notin holderDead /\ holderAt[u] = from
  /\ holderAt' = [holderAt EXCEPT ![u] = to]

\* claim_slot: it polls until the deadline.
SlotAsk(u)    == HolderGoes(u, "idle", "waits") /\ UNCHANGED <<slotKey, holderDead>>
SlotGiveUp(u) == HolderGoes(u, "waits", "idle") /\ UNCHANGED <<slotKey, holderDead>>

\* Mutant: SET without NX.
ClaimKeyOver(u) ==
  /\ HolderGoes(u, "waits", "holds")
  /\ slotKey' = u
  /\ UNCHANGED holderDead

\* claim_gpu_slot: SET NX EX.
ClaimKey(u) ==
  /\ slotKey = NoHolder
  /\ HolderGoes(u, "waits", "holds")
  /\ slotKey' = u
  /\ UNCHANGED holderDead

\* release_gpu_slot: the GET, and the DEL of whatever is there by then.
ReleaseGet(u) ==
  /\ HolderGoes(u, "holds", IF slotKey = u THEN "releases" ELSE "idle")
  /\ UNCHANGED <<slotKey, holderDead>>
ReleaseDel(u) ==
  /\ HolderGoes(u, "releases", "idle")
  /\ slotKey' = NoHolder
  /\ UNCHANGED holderDead

\* Mutant: the key has no expiry once its holder is gone.
KeyExpiresAlive ==
  /\ slotKey \in Holders \ holderDead
  /\ slotKey' = NoHolder
  /\ UNCHANGED <<holderAt, holderDead>>

\* GPU_SLOT_TTL passes.
KeyExpires ==
  /\ slotKey # NoHolder
  /\ slotKey' = NoHolder
  /\ UNCHANGED <<holderAt, holderDead>>

HolderDies(u) ==
  /\ u \notin holderDead /\ Cardinality(holderDead) < MaxHolderDeaths
  /\ holderDead' = holderDead \union {u}
  /\ holderAt' = [holderAt EXCEPT ![u] = "idle"]
  /\ UNCHANGED slotKey

RedisSlotNext ==
  \/ \E u \in Holders : \/ SlotAsk(u) \/ SlotGiveUp(u) \/ ClaimKey(u)
                        \/ ReleaseGet(u) \/ ReleaseDel(u) \/ HolderDies(u)
  \/ KeyExpires

RedisSlotFairness == WF_redisSlotVars(KeyExpires)

RedisSlotSpec == RedisSlotInit /\ [][RedisSlotNext]_redisSlotVars

-----------------------------------------------------------------------------
\* The key names somebody who claimed it and, unless dead, has not returned
\* from a release since: a free slot is never shown as held.
KeyNamesHolder ==
  slotKey # NoHolder => slotKey \in holderDead \/ holderAt[slotKey] \in {"holds", "releases"}

\* "Claim a GPU slot atomically": the slot goes from one holder to another
\* only through being free, so while a key lives nobody else is told True.
ClaimsOnlyFree ==
  [][\A u \in Holders :
       holderAt[u] # "holds" /\ holderAt'[u] = "holds"
         => \A v \in Holders \ {u} : slotKey # v /\ slotKey' # v]_redisSlotVars

\* A dead holder's slot comes back.
KeyComesBack == \A u \in Holders : (u \in holderDead /\ slotKey = u) ~> slotKey # u
=============================================================================
