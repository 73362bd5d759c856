------------------------------ MODULE RateLimiter ------------------------------
(***************************************************************************)
(* checkRateLimit() of lib/security/rateLimit.ts: one transaction counts   *)
(* the bucket's events of the last window and, below the limit, inserts    *)
(* one more.  Neither statement locks anything, so concurrent callers all  *)
(* see the same count.                                                     *)
(***************************************************************************)
EXTENDS Naturals, FiniteSets

CONSTANTS Callers,   \* requests that are checked
          Buckets,   \* bucket keys
          NoBucket,
          Limit      \* [Buckets -> Nat]: hits allowed in a window

ASSUME CallersAssumption == IsFiniteSet(Callers) /\ Callers # {}
ASSUME NoBucketAssumption == NoBucket \notin Buckets
ASSUME LimitAssumption == Limit \in [Buckets -> Nat \ {0}]

VARIABLES hits,     \* auth_rate_limit_events younger than the window, by bucket
          counting  \* the bucket a caller has counted and not yet recorded in

LimiterTypeOK ==
  /\ hits \in [Buckets -> Nat]
  /\ counting \in [Callers -> Buckets \union {NoBucket}]

LimiterInit ==
  /\ hits = [b \in Buckets |-> 0]
  /\ counting = [c \in Callers |-> NoBucket]

\* Mutant: the comparison is off by one.
OverLimitByOne(b) == hits[b] > Limit[b]

\* SELECT count(*): RateLimitExceededError.
OverLimit(b) == hits[b] >= Limit[b]

CountHits(c, b) ==
  /\ counting[c] = NoBucket
  /\ ~OverLimit(b)
  /\ counting' = [counting EXCEPT ![c] = b]
  /\ UNCHANGED hits

\* The INSERT and COMMIT.
RecordHit(c) ==
  /\ counting[c] # NoBucket
  /\ hits' = [hits EXCEPT ![counting[c]] = @ + 1]
  /\ counting' = [counting EXCEPT ![c] = NoBucket]

\* The transaction is rolled back: the caller's process or connection is gone.
AbandonHit(c) ==
  /\ counting' = [counting EXCEPT ![c] = NoBucket]
  /\ UNCHANGED hits

\* An event grows older than the window (and is deleted four windows later).
HitExpires(b) ==
  /\ hits[b] > 0
  /\ hits' = [hits EXCEPT ![b] = @ - 1]
  /\ UNCHANGED counting

Undecided(b) == {c \in Callers : counting[c] = b}

\* The limit is exceeded by concurrency alone: in any window, a bucket admits no
\* more than its limit and one request for every other that was being checked.
RateOvershoot == \A b \in Buckets :
  hits[b] + Cardinality(Undecided(b)) <= Limit[b] + Cardinality(Callers) - 1
==============================================================================
