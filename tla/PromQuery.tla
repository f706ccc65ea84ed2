------------------------------ MODULE PromQuery ------------------------------
(***************************************************************************)
(* HealthMonitor._prom_query: a Prometheus query behind the circuit        *)
(* breaker of prom_circuit_breaker.py and the cache of ttl_cache.py, asked *)
(* by the threads that check the rules.  Both keep their state under a     *)
(* lock of their own and run the query outside it; the state of the        *)
(* breaker is read without the lock.  Time is two facts: an answer in the  *)
(* cache has expired, and the cooldown of the open breaker is over.        *)
(***************************************************************************)
EXTENDS Naturals, Sequences, SequencesExt

CONSTANTS
  Threads,      \* of the monitor's executor
  QueryOf,      \* the query of the rule a thread checks
  CacheSize,    \* max_size
  WindowSize,   \* window_size
  Threshold,    \* failure_threshold
  MaxCooldown   \* max_cooldown_seconds, in units of the initial cooldown

ASSUME PromAssumption ==
  /\ CacheSize \in Nat \ {0} /\ WindowSize \in Nat /\ Threshold \in 1..WindowSize
  /\ MaxCooldown \in Nat \ {0}

VARIABLES
  promUp,    \* Prometheus answers
  breaker,   \* state, window (TRUE is a failure), cooldown; cooled: the cooldown is over
  cache,     \* entries in LRU order; good: an answer, not the [] of a failure
  asker      \* where a thread is, and whether the answer it has is good

promVars == <<promUp, breaker, cache, asker>>

PromQueries == {QueryOf[t] : t \in Threads}
CacheEntries == [query : PromQueries, good : BOOLEAN, expired : BOOLEAN]
Closed == [state |-> "CLOSED", window |-> <<>>, cooldown |-> 1, cooled |-> FALSE]

PromTypeOK ==
  /\ promUp \in BOOLEAN
  /\ breaker \in [state : {"CLOSED", "OPEN", "HALF_OPEN"}, window : Seq(BOOLEAN),
                  cooldown : 1..MaxCooldown, cooled : BOOLEAN]
  /\ Len(breaker.window) <= WindowSize
  /\ cache \in Seq(CacheEntries) /\ Len(cache) <= CacheSize
  /\ asker \in [Threads -> [at : {"idle", "missed", "called", "sent", "back", "got", "answered"},
                            good : BOOLEAN]]

PromInit ==
  /\ promUp = TRUE
  /\ breaker = Closed
  /\ cache = <<>>
  /\ asker = [t \in Threads |-> [at |-> "idle", good |-> FALSE]]

-----------------------------------------------------------------------------
\* The store without its entry of q, if there is one.
Without(q) ==
  LET at == {i \in DOMAIN cache : cache[i].query = q}
  IN  IF at = {} THEN cache ELSE RemoveAt(cache, CHOOSE i \in at : TRUE)
Goes(t, from, to, good) ==
  /\ asker[t].at = from
  /\ asker' = [asker EXCEPT ![t] = [at |-> to, good |-> good]]

\* _CacheStore.get: a hit moves to the end, an expired entry is removed.
PromHit(t) ==
  \E e \in ToSet(cache) :
    /\ e.query = QueryOf[t] /\ ~e.expired
    /\ Goes(t, "idle", "answered", e.good)
    /\ cache' = Append(Without(e.query), e)
    /\ UNCHANGED <<promUp, breaker>>
PromMiss(t) ==
  /\ \A e \in ToSet(cache) : e.query = QueryOf[t] => e.expired
  /\ Goes(t, "idle", "missed", FALSE)
  /\ cache' = Without(QueryOf[t])
  /\ UNCHANGED <<promUp, breaker>>

\* call(): _maybe_transition_to_half_open under the lock, ...
TryHalfOpen(t) ==
  /\ Goes(t, "missed", "called", FALSE)
  /\ breaker' = IF breaker.state = "OPEN" /\ breaker.cooled
                THEN [breaker EXCEPT !.state = "HALF_OPEN"] ELSE breaker
  /\ UNCHANGED <<promUp, cache>>

\* ... then the state again, without it: CircuitBreakerOpen becomes an empty answer.
ReadState(t) ==
  /\ Goes(t, "called", IF breaker.state = "OPEN" THEN "got" ELSE "sent", FALSE)
  /\ UNCHANGED <<promUp, breaker, cache>>

\* The request and its answer, or its failure.
PromReply(t) ==
  /\ Goes(t, "sent", "back", promUp)
  /\ UNCHANGED <<promUp, breaker, cache>>

Recorded(failed) ==
  LET w == Append(breaker.window, failed)
  IN  IF Len(w) > WindowSize THEN Tail(w) ELSE w

\* Mutant: a success in HALF_OPEN closes the breaker and keeps the cooldown.
OnSuccessKeepingCooldown ==
  IF breaker.state = "HALF_OPEN" THEN [Closed EXCEPT !.cooldown = breaker.cooldown]
                                 ELSE [breaker EXCEPT !.window = Recorded(FALSE)]

\* Mutant: a success in HALF_OPEN is only counted.
OnSuccessCounted == [breaker EXCEPT !.window = Recorded(FALSE)]

\* _record_success
OnSuccess ==
  IF breaker.state = "HALF_OPEN" THEN Closed
                                 ELSE [breaker EXCEPT !.window = Recorded(FALSE)]

\* Mutant: the doubled cooldown has no maximum.
OnFailureUncapped ==
  IF breaker.state = "HALF_OPEN"
    THEN [state |-> "OPEN", window |-> <<>>, cooled |-> FALSE, cooldown |-> 2 * breaker.cooldown]
    ELSE [breaker EXCEPT !.window = Recorded(TRUE), !.state = "OPEN", !.cooled = FALSE]

\* _record_failure: a failed probe doubles the cooldown; otherwise the
\* failures in the window are counted, whatever the state is by now, so
\* that a late failure starts the cooldown of an open breaker again.
OnFailure ==
  IF breaker.state = "HALF_OPEN"
    THEN [state |-> "OPEN", window |-> <<>>, cooled |-> FALSE,
          cooldown |-> IF 2 * breaker.cooldown > MaxCooldown THEN MaxCooldown
                                                             ELSE 2 * breaker.cooldown]
    ELSE IF Len(SelectSeq(Recorded(TRUE), LAMBDA f : f)) >= Threshold
           THEN [breaker EXCEPT !.window = Recorded(TRUE), !.state = "OPEN", !.cooled = FALSE]
           ELSE [breaker EXCEPT !.window = Recorded(TRUE)]

PromRecord(t) ==
  /\ Goes(t, "back", "got", asker[t].good)
  /\ breaker' = IF asker[t].good THEN OnSuccess ELSE OnFailure
  /\ UNCHANGED <<promUp, cache>>

\* _CacheStore.put: whatever _prom_query returned is kept, and the least
\* recently used entry beyond max_size is dropped.
PromPut(t) ==
  /\ Goes(t, "got", "answered", asker[t].good)
  /\ LET c == Append(Without(QueryOf[t]),
                     [query |-> QueryOf[t], good |-> asker[t].good, expired |-> FALSE])
     IN  cache' = IF Len(c) > CacheSize THEN Tail(c) ELSE c
  /\ UNCHANGED <<promUp, breaker>>

PromReturn(t) ==
  /\ Goes(t, "answered", "idle", FALSE)
  /\ UNCHANGED <<promUp, breaker, cache>>

-----------------------------------------------------------------------------
\* The TTL of an entry runs out; the cooldown is over; Prometheus comes and goes.
CacheExpire(i) ==
  /\ i <= Len(cache) /\ ~cache[i].expired
  /\ cache' = [cache EXCEPT ![i].expired = TRUE]
  /\ UNCHANGED <<promUp, breaker, asker>>
CoolDown ==
  /\ breaker.state = "OPEN" /\ ~breaker.cooled
  /\ breaker' = [breaker EXCEPT !.cooled = TRUE]
  /\ UNCHANGED <<promUp, cache, asker>>
PromFlips == promUp' = ~promUp /\ UNCHANGED <<breaker, cache, asker>>

PromAsk(t) ==
  \/ PromHit(t) \/ PromMiss(t) \/ TryHalfOpen(t) \/ ReadState(t) \/ PromReply(t)
  \/ PromRecord(t) \/ PromPut(t) \/ PromReturn(t)

PromNext ==
  \/ \E t \in Threads : PromAsk(t)
  \/ \E i \in 1..CacheSize : CacheExpire(i)
  \/ CoolDown \/ PromFlips

\* The monitor asks again and again, and time passes.
PromFairness ==
  /\ \A t \in Threads : WF_promVars(PromAsk(t))
  /\ \A i \in 1..CacheSize : WF_promVars(CacheExpire(i))
  /\ WF_promVars(CoolDown)

-----------------------------------------------------------------------------
\* "If it succeeds the breaker CLOSES": a closed breaker has forgotten the
\* cooldowns that were doubled before, whichever of the calls that got
\* through the half-open breaker together ended first.
ClosedForgets == breaker.state = "CLOSED" => breaker.cooldown = 1

\* Once Prometheus answers for good, the breaker closes and every answer
\* the rules get is one: neither calls that began before, nor the empty
\* answers kept in the cache, keep an outage alive.
PromRecovers ==
  <>[]promUp => <>[](/\ breaker.state = "CLOSED"
                     /\ \A t \in Threads : asker[t].at = "answered" => asker[t].good)
=============================================================================
