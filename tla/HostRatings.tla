----------------------------- MODULE HostRatings -----------------------------
(***************************************************************************)
(* performance_rating.py: the metrics of dispatches in SQLite, the rating  *)
(* of a host computed from them and kept for an hour, and the ranking of   *)
(* hosts that dispatch uses.  Only a dispatch that is waited for records   *)
(* its end.  Scores are kept as fractions, so that nothing is rounded; the *)
(* decay of a metric is halved with every tick, and a tick is at least the *)
(* hour a rating is kept.                                                  *)
(***************************************************************************)
EXTENDS Integers, FiniteSets, Functions

CONSTANTS
  Dispatches,
  RatedHosts,
  Raters,         \* processes that ask for ratings
  TimeoutTicks,   \* the estimate of a dispatch: its timeout
  MaxRatingClock  \* bound on the clock

ASSUME RatingsAssumption ==
  RatedHosts # {} /\ TimeoutTicks \in Nat \ {0} /\ MaxRatingClock \in Nat

VARIABLES
  ratingClock,
  metric,   \* performance_metrics: the row of a dispatch
  rating,   \* host_ratings: the rows it was computed from, and last_computed
  rater     \* where a process is in get_rating, and the rows it has read

ratingVars == <<ratingClock, metric, rating, rater>>

NoMetric == [is |-> "none", host |-> CHOOSE h \in RatedHosts : TRUE, start |-> 0, end |-> 0]
NoRating == [is |-> FALSE, known |-> {}, at |-> 0]
RaterIdle == [at |-> "idle", host |-> NoMetric.host, known |-> {}]

RatingsTypeOK ==
  /\ ratingClock \in 0..MaxRatingClock
  /\ metric \in [Dispatches -> [is : {"none", "open", "ok", "bad"}, host : RatedHosts,
                                start : 0..MaxRatingClock, end : 0..MaxRatingClock]]
  /\ rating \in [RatedHosts -> [is : BOOLEAN, known : SUBSET Dispatches, at : 0..MaxRatingClock]]
  /\ rater \in [Raters -> [at : {"idle", "stale", "read", "answered"}, host : RatedHosts,
                           known : SUBSET Dispatches]]

RatingsInit ==
  /\ ratingClock = 0
  /\ metric = [d \in Dispatches |-> NoMetric]
  /\ rating = [h \in RatedHosts |-> NoRating]
  /\ rater = [p \in Raters |-> RaterIdle]

-----------------------------------------------------------------------------
\* record_dispatch_start; record_dispatch_end finds the row by its dispatch.
RecordStart(d, h) ==
  /\ metric[d].is = "none"
  /\ metric' = [metric EXCEPT ![d] = [is |-> "open", host |-> h, start |-> ratingClock, end |-> 0]]
  /\ UNCHANGED <<ratingClock, rating, rater>>
RecordEnd(d) ==
  /\ metric[d].is = "open"
  /\ \E how \in {"ok", "bad"} :
       metric' = [metric EXCEPT ![d].is = how, ![d].end = ratingClock]
  /\ UNCHANGED <<ratingClock, rating, rater>>

Ended(h) == {d \in Dispatches : metric[d].is \in {"ok", "bad"} /\ metric[d].host = h}

\* get_rating: what was saved less than an hour ago is the answer.
AskRating(p, h) ==
  /\ rater[p].at = "idle"
  /\ rater' = [rater EXCEPT ![p] =
       IF rating[h].is /\ rating[h].at = ratingClock
         THEN [at |-> "answered", host |-> h, known |-> rating[h].known]
         ELSE [at |-> "stale", host |-> h, known |-> {}]]
  /\ UNCHANGED <<ratingClock, metric, rating>>
\* compute_rating reads the rows ...
ComputeReads(p) ==
  /\ rater[p].at = "stale"
  /\ rater' = [rater EXCEPT ![p].at = "read", ![p].known = Ended(rater[p].host)]
  /\ UNCHANGED <<ratingClock, metric, rating>>

\* Mutant: a rating that is there already is stamped, and not replaced.
SaveKeepsOld(p) ==
  /\ rater[p].at = "read"
  /\ LET h == rater[p].host
         new == [is |-> TRUE, known |-> IF rating[h].is THEN rating[h].known ELSE rater[p].known,
                 at |-> ratingClock]
     IN  /\ rating' = [rating EXCEPT ![h] = new]
         /\ rater' = [rater EXCEPT ![p].at = "answered"]
  /\ UNCHANGED <<ratingClock, metric>>

\* ... and _save_rating writes what it made of them, stamped with the time now;
\* somebody else may have saved a later reading meanwhile.
SaveRating(p) ==
  /\ rater[p].at = "read"
  /\ rating' = [rating EXCEPT ![rater[p].host] = [is |-> TRUE, known |-> rater[p].known, at |-> ratingClock]]
  /\ rater' = [rater EXCEPT ![p].at = "answered"]
  /\ UNCHANGED <<ratingClock, metric>>
RatingUsed(p) ==
  /\ rater[p].at = "answered"
  /\ rater' = [rater EXCEPT ![p] = RaterIdle]
  /\ UNCHANGED <<ratingClock, metric, rating>>
\* A rating is computed and used within a tick.
RatingTick ==
  /\ ratingClock < MaxRatingClock /\ \A p \in Raters : rater[p].at = "idle"
  /\ ratingClock' = ratingClock + 1
  /\ UNCHANGED <<metric, rating, rater>>

RatingsNext ==
  \/ \E d \in Dispatches, h \in RatedHosts : RecordStart(d, h)
  \/ \E d \in Dispatches : RecordEnd(d)
  \/ \E p \in Raters, h \in RatedHosts : AskRating(p, h)
  \/ \E p \in Raters : ComputeReads(p) \/ SaveRating(p) \/ RatingUsed(p)
  \/ RatingTick

-----------------------------------------------------------------------------
\* compute_rating, over the rows of a host as records.  A score is a pair of a
\* share and what it is a share of.
TwoTo[n \in Nat] == IF n = 0 THEN 1 ELSE 2 * TwoTo[n - 1]
Decay(m) == TwoTo[MaxRatingClock - (ratingClock - m.start)]
Took(m) == m.end - m.start
Weigh(ms, F(_)) == SumFunction([d \in DOMAIN ms |-> F(ms[d])])

\* Mutant: the successes are the failures.
SuccessesSwapped(m) == IF m.is = "ok" THEN 0 ELSE Decay(m)
\* weighted_success
Successes(m) == IF m.is = "ok" THEN Decay(m) ELSE 0

Total(ms) == Weigh(ms, Decay)
Good(ms)  == Weigh(ms, Successes)

\* Mutant: without the bounds.
DurationUnclamped(ratios, weights) == 2 * weights - ratios
\* max(0, min(1000, 1000 * (2 - average ratio))), of 1000
DurationScore(ratios, weights) ==
  LET score == 2 * weights - ratios
  IN  IF score < 0 THEN 0 ELSE IF score > weights THEN weights ELSE score

\* Of what took no time there is no ratio to its estimate.
Duration(ms) ==
  LET timed == {d \in DOMAIN ms : Took(ms[d]) > 0}
      weights == SumFunction([d \in timed |-> TimeoutTicks * Decay(ms[d])])
      ratios == SumFunction([d \in timed |-> Took(ms[d]) * Decay(ms[d])])
  IN  IF weights = 0 THEN [of |-> 1, is |-> 1]
      ELSE [of |-> weights, is |-> DurationScore(ratios, weights)]

\* min(1000, 1000 * completed / hours / 2)
Throughput(ms) ==
  LET hours == Weigh(ms, Took)
      completed == Cardinality({d \in DOMAIN ms : ms[d].is = "ok"})
  IN  IF hours = 0 THEN [of |-> 2, is |-> 0]
      ELSE [of |-> 2 * hours, is |-> IF completed > 2 * hours THEN 2 * hours ELSE completed]

\* Of 20: 7 for the completion rate and 4 for the rate without errors, which are
\* the same, 5 for the duration and 4 for the throughput.
Composite(ms) ==
  LET total == Total(ms)
      good == Good(ms)
      took == Duration(ms)
      done == Throughput(ms)
  IN  [of |-> 20 * total * took.of * done.of,
       is |-> (7 + 4) * good * took.of * done.of
              + 5 * total * took.is * done.of + 4 * total * took.of * done.is]

\* scored_host_selection: the share of a host's score that its record decides;
\* the error rate moves it between 2, 5 and 8 of 10.
Availability(ms) ==
  LET total == Total(ms)
      bad == total - Good(ms)
  IN  IF 10 * bad > 3 * total THEN 2 ELSE IF 20 * bad < total THEN 8 ELSE 5
Rank(ms) ==
  LET c == Composite(ms)
  IN  [of |-> 200 * c.of, is |-> 70 * c.is + 5 * Availability(ms) * c.of]

-----------------------------------------------------------------------------
Record(h) == [d \in Ended(h) |-> metric[d]]

\* A composite score lies between 0 and 1000, whatever the dispatches took.
ScoresInRange ==
  \A h \in RatedHosts :
    Ended(h) # {} => LET c == Composite(Record(h)) IN 0 <= c.is /\ c.is <= c.of

\* A dispatch that succeeds instead of failing never lowers the rank of a host.
SuccessNeverHurts ==
  \A h \in RatedHosts : \A d \in Ended(h) :
    metric[d].is = "bad" =>
      LET was == Rank(Record(h))
          were == Rank([Record(h) EXCEPT ![d].is = "ok"])
      IN  were.of = was.of /\ was.is <= were.is

\* A rating that is given out misses no dispatch that ended before the hour in
\* which it was computed.
RatingsCurrent ==
  \A p \in Raters :
    rater[p].at = "answered" =>
      \A d \in Ended(rater[p].host) : metric[d].end < ratingClock => d \in rater[p].known
=============================================================================
