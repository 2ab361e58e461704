------------------------------- MODULE RateLimit -------------------------------
(* The limit on the requests of a caller: a bucket of tokens per key, made     *)
(* when the first request of the key finds none, refilled by the time that     *)
(* went by whenever a request takes from it.  The table of buckets and each    *)
(* bucket have a lock of their own, so a request is three steps: it looks the  *)
(* bucket up, makes it if there was none, and takes a token.                   *)
EXTENDS Naturals, Sequences

CONSTANTS LimitKeys,  \* keys: a project or an address
          LimitReqs,  \* requests at once
          Burst,      \* tokens of a full bucket
          Period,     \* ticks in which a token is refilled
          MaxTicks    \* bound: the clock

VARIABLES
  ticks,     \* the clock
  limiters,  \* the bucket of a key, 0 before there is one
  buckets,   \* buckets made: their tokens, counted in ticks, and when they were refilled
  judging,   \* requests: where they are, their key and bucket, and the seconds a refused one is told
  admitted   \* history: the times at which requests of a key were admitted

limitVars == <<ticks, limiters, buckets, judging, admitted>>

AtGate == [pc |-> "out", key |-> "none", rl |-> 0, retry |-> 0]

LimitInit ==
  /\ ticks = 0 /\ buckets = <<>> /\ limiters = [k \in LimitKeys |-> 0]
  /\ judging = [r \in LimitReqs |-> AtGate] /\ admitted = [k \in LimitKeys |-> <<>>]

Tick == ticks < MaxTicks /\ ticks' = ticks + 1 /\ UNCHANGED <<limiters, buckets, judging, admitted>>

\* rateLimitMiddleware, with the look-up under the read lock of get.
Arrive(r, k) ==
  /\ judging[r].pc = "out"
  /\ judging' = [judging EXCEPT ![r] =
       [pc |-> IF limiters[k] = 0 THEN "missed" ELSE "found", key |-> k,
        rl |-> limiters[k], retry |-> 0]]
  /\ UNCHANGED <<ticks, limiters, buckets, admitted>>

newRateLimiter == [tokens |-> Burst * Period, lastRefill |-> ticks]

MakeBucket(r, rl, made) ==
  /\ buckets' = made
  /\ limiters' = [limiters EXCEPT ![judging[r].key] = rl]
  /\ judging' = [judging EXCEPT ![r] = [@ EXCEPT !.pc = "found", !.rl = rl]]
  /\ UNCHANGED <<ticks, admitted>>

\* get under the write lock, which looks again.
\* Mutant of get: it does not.
getUnchecked(r) ==
  /\ judging[r].pc = "missed"
  /\ MakeBucket(r, Len(buckets) + 1, Append(buckets, newRateLimiter))

get(r) ==
  /\ judging[r].pc = "missed"
  /\ \/ /\ limiters[judging[r].key] = 0
        /\ MakeBucket(r, Len(buckets) + 1, Append(buckets, newRateLimiter))
     \/ /\ limiters[judging[r].key] # 0
        /\ MakeBucket(r, limiters[judging[r].key], buckets)

Least(a, b) == IF a < b THEN a ELSE b

\* Mutant of Filled: a bucket has no upper end.
FilledOver(b) == b.tokens + (ticks - b.lastRefill)

Filled(b) == Least(Burst * Period, b.tokens + (ticks - b.lastRefill))

\* A token is taken when there is a whole one; the request goes on.
allow(r) ==
  LET j == judging[r]  full == Filled(buckets[j.rl])  may == full >= Period IN
    /\ j.pc = "found"
    /\ buckets' = [buckets EXCEPT ![j.rl] =
         [tokens |-> IF may THEN full - Period ELSE full, lastRefill |-> ticks]]
    /\ judging' = [judging EXCEPT ![r] = IF may THEN AtGate ELSE [j EXCEPT !.pc = "refused"]]
    /\ admitted' = IF may THEN [admitted EXCEPT ![j.key] = Append(@, ticks)] ELSE admitted
    /\ UNCHANGED <<ticks, limiters>>

\* A refused request is told when to come again, from the bucket as it is by then.
resetIn(b) == IF b.tokens >= Period THEN 0 ELSE Period - b.tokens

Refuse(r) ==
  /\ judging[r].pc = "refused"
  /\ judging' = [judging EXCEPT ![r] = [AtGate EXCEPT !.retry = resetIn(buckets[judging[r].rl])]]
  /\ UNCHANGED <<ticks, limiters, buckets, admitted>>

LimitNext ==
  \/ Tick
  \/ \E r \in LimitReqs : (\E k \in LimitKeys : Arrive(r, k)) \/ get(r) \/ allow(r) \/ Refuse(r)

LimitSpec == LimitInit /\ [][LimitNext]_limitVars

------------------------------------------------------------------------------
LimitTypeOK ==
  /\ ticks \in 0..MaxTicks /\ limiters \in [LimitKeys -> 0..Len(buckets)]
  /\ \A b \in DOMAIN buckets : buckets[b].tokens \in 0..(Burst * Period)
  /\ \A r \in LimitReqs : judging[r].rl \in 0..Len(buckets) /\ judging[r].retry \in 0..Period
  /\ \A k \in LimitKeys : \A i \in DOMAIN admitted[k] : admitted[k][i] \in 0..MaxTicks

\* From any admitted request of a key to any later one no more are admitted
\* than a burst and what the time between them refills, however requests that
\* find no bucket come together.
AdmittedWithinRate ==
  \A k \in LimitKeys : \A i, j \in DOMAIN admitted[k] :
    i <= j => (j - i + 1) * Period <= Burst * Period + (admitted[k][j] - admitted[k][i])
==============================================================================
