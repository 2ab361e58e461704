------------------------------ MODULE Node_proofs ------------------------------
(* Proofs about Node: the limit on requests, the execution of a function, the  *)
(* request log, backups and the next time of a schedule.  Each has an          *)
(* invariant of its own; the node's is their conjunction, since a step of one  *)
(* leaves the others alone.                                                    *)
EXTENDS Node, TLAPS, WellFoundedInduction

LEMMA NodeParameters ==
  /\ Burst \in Nat /\ Period \in Nat /\ MaxTicks \in Nat /\ MaxCalls \in Nat
  /\ ChanSize \in Nat /\ MaxLogSize \in Nat /\ MaxLogged \in Nat
  /\ MaxLogBackups \in Nat \ {0} /\ MaxSeconds \in Nat \ {0} /\ MaxChanges \in Nat \ {0}
  BY NodeAssumption DEF NodeBounds

LEMMA SeqFacts ==
  ASSUME NEW S, NEW s \in Seq(S)
  PROVE  Len(s) \in Nat /\ DOMAIN s = 1..Len(s) /\ \A i \in 1..Len(s) : s[i] \in S
  OBVIOUS

------------------------------------------------------------------------------
(* The limit on requests.                                                      *)

Full == Burst * Period
BucketRecord == [tokens : 0..Full, lastRefill : 0..MaxTicks]
JudgedRequest == [pc : {"out", "missed", "found", "refused"}, key : LimitKeys \cup {"none"},
                  rl : Nat, retry : 0..Period]

LimitTyped ==
  /\ ticks \in 0..MaxTicks /\ limiters \in [LimitKeys -> Nat]
  /\ buckets \in Seq(BucketRecord) /\ judging \in [LimitReqs -> JudgedRequest]
  /\ admitted \in [LimitKeys -> Seq(0..MaxTicks)]

(* A key's bucket is there, was refilled in the past and is no other key's; a  *)
(* request that found a bucket has that of its key.                            *)
BucketsAreOwn ==
  /\ \A k \in LimitKeys : limiters[k] <= Len(buckets)
  /\ \A k, m \in LimitKeys : k # m /\ limiters[k] # 0 => limiters[k] # limiters[m]
  /\ \A b \in DOMAIN buckets : buckets[b].lastRefill <= ticks
  /\ \A r \in LimitReqs :
       /\ judging[r].pc \in {"missed", "found", "refused"} => judging[r].key \in LimitKeys
       /\ judging[r].pc \in {"found", "refused"} =>
            judging[r].rl # 0 /\ judging[r].rl = limiters[judging[r].key]
       /\ judging[r].rl <= Len(buckets)

(* What was admitted since an admitted request and what is left in the bucket  *)
(* since are no more than a burst and the refills between.                     *)
Spent(times, b) ==
  \A i \in DOMAIN times :
    /\ times[i] <= b.lastRefill
    /\ (Len(times) - i + 1) * Period + b.tokens <= Full + (b.lastRefill - times[i])

WithinRate(times) ==
  \A i, j \in DOMAIN times : i <= j => (j - i + 1) * Period <= Full + (times[j] - times[i])

SpentIsRefilled ==
  \A k \in LimitKeys :
    /\ limiters[k] = 0 => admitted[k] = <<>>
    /\ limiters[k] # 0 => Spent(admitted[k], buckets[limiters[k]])
    /\ WithinRate(admitted[k])

LimitInv == LimitTyped /\ BucketsAreOwn /\ SpentIsRefilled

LEMMA FullIsNat == Full \in Nat
  BY NodeParameters DEF Full

LEMMA OneMore == ASSUME NEW x \in Int PROVE (x + 1) * Period = x * Period + Period
  BY NodeParameters

LEMMA FillingIsCounted ==
  ASSUME NEW x \in Int, NEW tokens \in Int, NEW full \in Int, NEW now \in Int, NEW last \in Int,
         NEW then \in Int, NEW most \in Int,
         x + tokens <= most + (last - then), full <= tokens + (now - last)
  PROVE  x + full <= most + (now - then)
  OBVIOUS

(* A bucket filled up to now and what it still has when a token was taken.     *)
LEMMA TakingIsCounted ==
  ASSUME ticks \in 0..MaxTicks, NEW times \in Seq(0..MaxTicks), NEW b \in BucketRecord,
         b.lastRefill <= ticks, Spent(times, b), WithinRate(times),
         NEW c \in BucketRecord, c.lastRefill = ticks
  PROVE  /\ c.tokens = Limiter!Filled(b) => Spent(times, c)
         /\ Limiter!Filled(b) >= Period /\ c.tokens = Limiter!Filled(b) - Period =>
              Spent(Append(times, ticks), c) /\ WithinRate(Append(times, ticks))
  <1> DEFINE full == Limiter!Filled(b)
             n == Len(times)
             more == Append(times, ticks)
  <1>1. /\ b.tokens \in 0..Full /\ b.lastRefill \in 0..MaxTicks /\ c.tokens \in 0..Full
        /\ n \in Nat /\ DOMAIN times = 1..n
        /\ \A i \in 1..n : times[i] \in 0..MaxTicks
    BY SeqFacts DEF BucketRecord
  <1>2. Period \in Nat /\ Full \in Nat /\ MaxTicks \in Nat /\ ticks \in Nat
    BY NodeParameters, FullIsNat
  <1>3. full \in 0..Full /\ full <= b.tokens + (ticks - b.lastRefill)
    <2>1. full = IF Full < b.tokens + (ticks - b.lastRefill) THEN Full ELSE b.tokens + (ticks - b.lastRefill)
      BY DEF Limiter!Filled, Limiter!Least, Full
    <2> QED BY <1>1, <1>2, <2>1
  <1>4. \A i \in 1..n : (n - i + 1) * Period \in Int
    BY <1>1, <1>2
  <1>5. \A i \in 1..n : times[i] <= b.lastRefill
                        /\ (n - i + 1) * Period + b.tokens <= Full + (b.lastRefill - times[i])
    BY <1>1 DEF Spent
  <1>6. \A i \in 1..n : (n - i + 1) * Period + full <= Full + (ticks - times[i]) /\ times[i] <= ticks
    <2> SUFFICES ASSUME NEW i \in 1..n
                 PROVE  (n - i + 1) * Period + full <= Full + (ticks - times[i]) /\ times[i] <= ticks
      OBVIOUS
    <2> DEFINE x == (n - i + 1) * Period
    <2>1. x \in Int /\ times[i] <= b.lastRefill /\ x + b.tokens <= Full + (b.lastRefill - times[i])
          /\ times[i] \in 0..MaxTicks
      BY <1>1, <1>4, <1>5
    <2> HIDE DEF x, full, n
    <2>2. /\ b.tokens \in Int /\ full \in Int /\ ticks \in Int /\ b.lastRefill \in Int
          /\ times[i] \in Int /\ Full \in Int
      BY <1>1, <1>2, <1>3, <2>1
    <2>3. x + full <= Full + (ticks - times[i])
      BY <1>3, <2>1, <2>2, FillingIsCounted
    <2>4. times[i] <= ticks
      BY <2>1, <2>2
    <2> QED BY <2>3, <2>4 DEF x
  <1>7. ASSUME c.tokens = full PROVE Spent(times, c)
    <2> HIDE DEF full
    <2> QED BY <1>1, <1>6, <1>7 DEF Spent
  <1>8. ASSUME full >= Period, c.tokens = full - Period
        PROVE  Spent(more, c) /\ WithinRate(more)
    <2>1. /\ Len(more) = n + 1 /\ DOMAIN more = 1..(n + 1) /\ more[n + 1] = ticks
          /\ \A i \in 1..n : more[i] = times[i]
      BY <1>1
    <2> HIDE DEF full, n, more
    <2>2. ASSUME NEW i \in 1..(n + 1)
          PROVE  /\ more[i] <= ticks
                 /\ (n + 1 - i + 1) * Period + c.tokens <= Full + (ticks - more[i])
                 /\ (n + 1 - i + 1) * Period <= Full + (ticks - more[i])
      <3>1. CASE i = n + 1
        <4>1. (n + 1 - i + 1) * Period = Period
          BY <1>1, <1>2, <3>1
        <4> QED BY <1>1, <1>2, <1>3, <1>8, <2>1, <3>1, <4>1
      <3>2. CASE i \in 1..n
        <4>1. (n + 1 - i + 1) * Period = (n - i + 1) * Period + Period
          <5>1. n - i + 1 \in Int /\ n + 1 - i + 1 = (n - i + 1) + 1
            BY <1>1, <3>2
          <5> QED BY <5>1, OneMore
        <4>2. (n - i + 1) * Period + full <= Full + (ticks - more[i]) /\ more[i] <= ticks
          BY <1>6, <2>1, <3>2
        <4>3. (n - i + 1) * Period \in Int /\ more[i] \in Int
          BY <1>1, <1>4, <2>1, <3>2
        <4> QED BY <1>1, <1>2, <1>3, <1>8, <4>1, <4>2, <4>3
      <3> QED BY <1>1, <3>1, <3>2
    <2>3. Spent(more, c)
      <3>1. SUFFICES ASSUME NEW i \in 1..(n + 1)
                     PROVE /\ more[i] <= c.lastRefill
                           /\ (Len(more) - i + 1) * Period + c.tokens <= Full + (c.lastRefill - more[i])
        BY <2>1 DEF Spent
      <3>2. Len(more) - i + 1 = n + 1 - i + 1
        BY <1>1, <2>1
      <3> QED BY <2>2, <3>2
    <2>4. WithinRate(more)
      <3>1. SUFFICES ASSUME NEW i \in 1..(n + 1), NEW j \in 1..(n + 1), i <= j
                     PROVE  (j - i + 1) * Period <= Full + (more[j] - more[i])
        BY <2>1 DEF WithinRate
      <3>2. CASE j = n + 1
        <4>1. j - i + 1 = n + 1 - i + 1 /\ more[j] = ticks
          BY <1>1, <2>1, <3>2
        <4> QED BY <2>2, <4>1
      <3>3. CASE j # n + 1
        <4>1. i \in 1..n /\ j \in 1..n
          BY <1>1, <3>1, <3>3
        <4>2. (j - i + 1) * Period <= Full + (times[j] - times[i])
          BY <1>1, <3>1, <4>1 DEF WithinRate
        <4> QED BY <2>1, <4>1, <4>2
      <3> QED BY <3>2, <3>3
    <2> QED BY <2>3, <2>4
  <1> QED BY <1>7, <1>8

LEMMA LimitStart == Limiter!LimitInit => LimitInv
  <1> SUFFICES ASSUME Limiter!LimitInit PROVE LimitInv
    OBVIOUS
  <1>1. /\ ticks = 0 /\ buckets = <<>> /\ limiters = [k \in LimitKeys |-> 0]
        /\ judging = [r \in LimitReqs |-> Limiter!AtGate] /\ admitted = [k \in LimitKeys |-> <<>>]
    BY DEF Limiter!LimitInit
  <1>2. Limiter!AtGate \in JudgedRequest /\ Limiter!AtGate.pc = "out" /\ Limiter!AtGate.rl = 0
    BY NodeParameters DEF Limiter!AtGate, JudgedRequest
  <1>3. LimitTyped
    BY <1>1, <1>2, NodeParameters DEF LimitTyped
  <1>4. BucketsAreOwn
    BY <1>1, <1>2 DEF BucketsAreOwn
  <1>5. SpentIsRefilled
    BY <1>1 DEF SpentIsRefilled, WithinRate
  <1> QED BY <1>3, <1>4, <1>5 DEF LimitInv

(* A request is judged; nothing else changes.                                  *)
LEMMA JudgingKeeps ==
  ASSUME LimitInv, NEW r \in LimitReqs, NEW j \in JudgedRequest,
         judging' = [judging EXCEPT ![r] = j],
         UNCHANGED <<ticks, limiters, buckets, admitted>>,
         j.pc \in {"missed", "found", "refused"} => j.key \in LimitKeys,
         j.pc \in {"found", "refused"} => j.rl # 0 /\ j.rl = limiters[j.key],
         j.rl <= Len(buckets)
  PROVE  LimitInv'
  <1>1. LimitTyped'
    BY DEF LimitInv, LimitTyped
  <1>2. \A q \in LimitReqs : judging'[q] = IF q = r THEN j ELSE judging[q]
    BY DEF LimitInv, LimitTyped
  <1>3. BucketsAreOwn'
    BY <1>2 DEF LimitInv, BucketsAreOwn
  <1>4. SpentIsRefilled'
    BY DEF LimitInv, SpentIsRefilled
  <1> QED BY <1>1, <1>3, <1>4 DEF LimitInv

LEMMA TickKeeps == ASSUME LimitInv, Limiter!Tick PROVE LimitInv'
  <1>1. /\ ticks \in 0..MaxTicks /\ ticks' \in 0..MaxTicks /\ ticks <= ticks'
        /\ UNCHANGED <<limiters, buckets, judging, admitted>>
    BY NodeParameters DEF LimitInv, LimitTyped, Limiter!Tick
  <1>2. LimitTyped'
    BY <1>1 DEF LimitInv, LimitTyped
  <1>3. BucketsAreOwn'
    <2>1. \A b \in DOMAIN buckets : buckets[b].lastRefill \in 0..MaxTicks /\ buckets[b].lastRefill <= ticks
      <3>1. buckets \in Seq(BucketRecord) /\ \A b \in DOMAIN buckets : buckets[b].lastRefill <= ticks
        BY DEF LimitInv, LimitTyped, BucketsAreOwn
      <3>2. \A b \in DOMAIN buckets : buckets[b] \in BucketRecord
        BY <3>1, SeqFacts
      <3> QED BY <3>1, <3>2 DEF BucketRecord
    <2>2. \A b \in DOMAIN buckets : buckets[b].lastRefill <= ticks'
      BY <1>1, <2>1
    <2> QED BY <1>1, <2>2 DEF LimitInv, BucketsAreOwn
  <1>4. SpentIsRefilled'
    BY <1>1 DEF LimitInv, SpentIsRefilled
  <1> QED BY <1>2, <1>3, <1>4 DEF LimitInv

LEMMA ArriveKeeps ==
  ASSUME LimitInv, NEW r \in LimitReqs, NEW k \in LimitKeys, Limiter!Arrive(r, k)
  PROVE  LimitInv'
  <1> DEFINE j == [pc |-> IF limiters[k] = 0 THEN "missed" ELSE "found", key |-> k,
                   rl |-> limiters[k], retry |-> 0]
  <1>1. limiters[k] \in Nat /\ limiters[k] <= Len(buckets)
    BY DEF LimitInv, LimitTyped, BucketsAreOwn
  <1>2. j \in JudgedRequest
    BY <1>1, NodeParameters DEF JudgedRequest
  <1>3. judging' = [judging EXCEPT ![r] = j] /\ UNCHANGED <<ticks, limiters, buckets, admitted>>
    BY DEF Limiter!Arrive
  <1>4. /\ j.pc \in {"missed", "found", "refused"} => j.key \in LimitKeys
        /\ j.pc \in {"found", "refused"} => j.rl # 0 /\ j.rl = limiters[j.key]
        /\ j.rl <= Len(buckets)
    BY <1>1
  <1> HIDE DEF j
  <1> QED BY <1>2, <1>3, <1>4, JudgingKeeps

LEMMA RefuseKeeps ==
  ASSUME LimitInv, NEW r \in LimitReqs, Limiter!Refuse(r)
  PROVE  LimitInv'
  <1> DEFINE b == buckets[judging[r].rl]
             j == [Limiter!AtGate EXCEPT !.retry = Limiter!resetIn(b)]
  <1>1. b.tokens \in Nat
    <2>1. judging[r].rl \in Nat /\ judging[r].rl # 0 /\ judging[r].rl <= Len(buckets)
      BY DEF LimitInv, LimitTyped, JudgedRequest, BucketsAreOwn, Limiter!Refuse
    <2>2. buckets \in Seq(BucketRecord)
      BY DEF LimitInv, LimitTyped
    <2>3. b \in BucketRecord
      BY <2>1, <2>2
    <2> QED BY <2>3 DEF BucketRecord
  <1>2. Limiter!resetIn(b) \in 0..Period
    BY <1>1, NodeParameters DEF Limiter!resetIn
  <1>3. j \in JudgedRequest /\ j.pc = "out" /\ j.rl = 0
    BY <1>2 DEF Limiter!AtGate, JudgedRequest
  <1>4. judging' = [judging EXCEPT ![r] = j] /\ UNCHANGED <<ticks, limiters, buckets, admitted>>
    BY DEF Limiter!Refuse
  <1>5. 0 <= Len(buckets)
    BY DEF LimitInv, LimitTyped
  <1> HIDE DEF j
  <1> QED BY <1>3, <1>4, <1>5, JudgingKeeps

(* Under the write lock the bucket of the key is found, or made and full.      *)
LEMMA GetKeeps ==
  ASSUME LimitInv, NEW r \in LimitReqs, Limiter!get(r)
  PROVE  LimitInv'
  <1> DEFINE k == judging[r].key
             new == Limiter!newRateLimiter
             n == Len(buckets)
  <1>1. /\ k \in LimitKeys /\ judging[r] \in JudgedRequest /\ judging[r].pc = "missed"
        /\ ticks \in 0..MaxTicks /\ buckets \in Seq(BucketRecord) /\ n \in Nat /\ DOMAIN buckets = 1..n
        /\ limiters \in [LimitKeys -> Nat] /\ judging \in [LimitReqs -> JudgedRequest]
        /\ admitted \in [LimitKeys -> Seq(0..MaxTicks)]
    BY DEF LimitInv, LimitTyped, BucketsAreOwn, Limiter!get
  <1>2. CASE limiters[k] # 0
    <2> DEFINE j == [judging[r] EXCEPT !.pc = "found", !.rl = limiters[k]]
    <2>1. judging' = [judging EXCEPT ![r] = j] /\ limiters' = [limiters EXCEPT ![k] = limiters[k]]
          /\ UNCHANGED <<ticks, buckets, admitted>>
      BY <1>1, <1>2 DEF Limiter!get, Limiter!MakeBucket
    <2>2. limiters' = limiters
      BY <1>1, <2>1
    <2>3. limiters[k] \in Nat /\ limiters[k] <= n
      BY <1>1 DEF LimitInv, BucketsAreOwn
    <2>4. j \in JudgedRequest
      BY <1>1, <2>3 DEF JudgedRequest
    <2>5. j.pc = "found" /\ j.key = k /\ j.rl = limiters[k]
      BY <1>1 DEF JudgedRequest
    <2> HIDE DEF j, k
    <2> QED BY <1>1, <1>2, <2>1, <2>2, <2>3, <2>4, <2>5, JudgingKeeps
  <1>3. CASE limiters[k] = 0
    <2> DEFINE j == [judging[r] EXCEPT !.pc = "found", !.rl = n + 1]
    <2>1. /\ judging' = [judging EXCEPT ![r] = j] /\ limiters' = [limiters EXCEPT ![k] = n + 1]
          /\ buckets' = Append(buckets, new) /\ UNCHANGED <<ticks, admitted>>
      BY <1>1, <1>3 DEF Limiter!get, Limiter!MakeBucket
    <2>2. new \in BucketRecord /\ new.lastRefill = ticks
      BY <1>1, FullIsNat DEF Limiter!newRateLimiter, BucketRecord, Full
    <2>3. j \in JudgedRequest
      <3>1. n + 1 \in Nat
        BY <1>1
      <3> HIDE DEF n, k
      <3> QED BY <1>1, <3>1 DEF JudgedRequest
    <2>4. j.pc = "found" /\ j.key = k /\ j.rl = n + 1
      BY <1>1 DEF JudgedRequest
    <2> HIDE DEF j, k, new, n
    <2>5. /\ Len(buckets') = n + 1 /\ DOMAIN buckets' = 1..(n + 1) /\ buckets' \in Seq(BucketRecord)
          /\ buckets'[n + 1] = new /\ \A b \in 1..n : buckets'[b] = buckets[b]
      BY <1>1, <2>1, <2>2 DEF n
    <2>6. LimitTyped'
      BY <1>1, <2>1, <2>3, <2>5 DEF LimitTyped
    <2>7. \A m \in LimitKeys : limiters'[m] = IF m = k THEN n + 1 ELSE limiters[m]
      BY <1>1, <2>1
    <2>8. \A q \in LimitReqs : judging'[q] = IF q = r THEN j ELSE judging[q]
      BY <1>1, <2>1
    <2>9. /\ \A m \in LimitKeys : limiters[m] \in Nat /\ limiters[m] <= n
          /\ \A q \in LimitReqs : judging[q].rl \in Nat /\ judging[q].rl <= n
      BY <1>1 DEF LimitInv, BucketsAreOwn, JudgedRequest, n
    <2>10. BucketsAreOwn'
      <3>1. \A m \in LimitKeys : limiters'[m] <= Len(buckets')
        BY <1>1, <2>5, <2>7, <2>9
      <3>2. \A x, m \in LimitKeys : x # m /\ limiters'[x] # 0 => limiters'[x] # limiters'[m]
        <4>1. \A x, m \in LimitKeys : x # m /\ limiters[x] # 0 => limiters[x] # limiters[m]
          BY DEF LimitInv, BucketsAreOwn
        <4>2. ASSUME NEW x \in LimitKeys, NEW m \in LimitKeys, x # m, limiters'[x] # 0
              PROVE  limiters'[x] # limiters'[m]
          <5>1. CASE x = k
            BY <1>1, <2>7, <2>9, <4>2, <5>1
          <5>2. CASE m = k
            BY <1>1, <2>7, <2>9, <4>2, <5>2
          <5>3. CASE x # k /\ m # k
            BY <2>7, <4>1, <4>2, <5>3
          <5> QED BY <5>1, <5>2, <5>3
        <4> QED BY <4>2
      <3>3. \A b \in DOMAIN buckets' : buckets'[b].lastRefill <= ticks'
        <4>1. \A b \in 1..n : buckets[b].lastRefill <= ticks
          BY <1>1 DEF LimitInv, BucketsAreOwn, n
        <4>2. new.lastRefill <= ticks
          BY <1>1, <2>2
        <4> QED BY <1>1, <2>1, <2>2, <2>5, <4>1, <4>2
      <3>4. ASSUME NEW q \in LimitReqs
            PROVE  /\ judging'[q].pc \in {"missed", "found", "refused"} => judging'[q].key \in LimitKeys
                   /\ judging'[q].pc \in {"found", "refused"} =>
                        judging'[q].rl # 0 /\ judging'[q].rl = limiters'[judging'[q].key]
                   /\ judging'[q].rl <= Len(buckets')
        <4>1. CASE q = r
          BY <1>1, <2>4, <2>5, <2>7, <2>8, <4>1
        <4>2. CASE q # r
          <5>1. judging'[q] = judging[q]
            BY <2>8, <4>2
          <5>2. /\ judging[q].pc \in {"missed", "found", "refused"} => judging[q].key \in LimitKeys
                /\ judging[q].pc \in {"found", "refused"} =>
                     judging[q].rl # 0 /\ judging[q].rl = limiters[judging[q].key]
            BY DEF LimitInv, BucketsAreOwn
          <5>3. judging[q].pc \in {"found", "refused"} => judging[q].key # k
            BY <1>3, <5>2
          <5> QED BY <1>1, <2>5, <2>7, <2>9, <5>1, <5>2, <5>3
        <4> QED BY <4>1, <4>2
      <3> QED BY <3>1, <3>2, <3>3, <3>4 DEF BucketsAreOwn
    <2>11. SpentIsRefilled'
      <3> SUFFICES ASSUME NEW m \in LimitKeys
                   PROVE  /\ limiters'[m] = 0 => admitted'[m] = <<>>
                          /\ limiters'[m] # 0 => Spent(admitted'[m], buckets'[limiters'[m]])
                          /\ WithinRate(admitted'[m])
        BY DEF SpentIsRefilled, Spent, WithinRate
      <3>1. /\ admitted'[m] = admitted[m] /\ WithinRate(admitted[m])
            /\ limiters[m] = 0 => admitted[m] = <<>>
            /\ limiters[m] # 0 => Spent(admitted[m], buckets[limiters[m]])
        BY <2>1 DEF LimitInv, SpentIsRefilled
      <3>2. CASE m = k
        <4>1. limiters'[m] = n + 1 /\ admitted'[m] = <<>>
          BY <1>3, <2>7, <3>1, <3>2
        <4>2. n + 1 # 0 /\ Spent(<<>>, buckets'[n + 1])
          BY <1>1 DEF Spent
        <4> QED BY <3>1, <4>1, <4>2
      <3>3. CASE m # k
        <4>1. limiters'[m] = limiters[m] /\ (limiters[m] # 0 => buckets'[limiters[m]] = buckets[limiters[m]])
          BY <1>1, <2>5, <2>7, <2>9, <3>3
        <4> QED BY <3>1, <4>1
      <3> QED BY <3>2, <3>3
    <2> QED BY <2>6, <2>10, <2>11 DEF LimitInv
  <1> QED BY <1>2, <1>3

LEMMA AllowKeeps ==
  ASSUME LimitInv, NEW r \in LimitReqs, Limiter!allow(r)
  PROVE  LimitInv'
  <1>1. PICK k \in LimitKeys, x \in Nat, n \in Nat :
          /\ k = judging[r].key /\ x = judging[r].rl /\ x = limiters[k] /\ x \in 1..n
          /\ n = Len(buckets) /\ DOMAIN buckets = 1..n
    <2>1. buckets \in Seq(BucketRecord) /\ judging[r] \in JudgedRequest /\ judging[r].pc = "found"
      BY DEF LimitInv, LimitTyped, Limiter!allow
    <2>2. Len(buckets) \in Nat /\ DOMAIN buckets = 1..Len(buckets)
      BY <2>1, SeqFacts
    <2>3. judging[r].rl \in Nat
      BY <2>1 DEF JudgedRequest
    <2>4. /\ judging[r].key \in LimitKeys /\ judging[r].rl # 0 /\ judging[r].rl = limiters[judging[r].key]
          /\ judging[r].rl <= Len(buckets)
      BY <2>1 DEF LimitInv, BucketsAreOwn
    <2>5. judging[r].rl \in 1..Len(buckets)
      BY <2>2, <2>3, <2>4
    <2> QED BY <2>2, <2>3, <2>4, <2>5
  <1>2. PICK full : full = Limiter!Filled(buckets[x])
    OBVIOUS
  <1>3. PICK may : may = (full >= Period)
    OBVIOUS
  <1>4. /\ ticks \in 0..MaxTicks /\ buckets \in Seq(BucketRecord) /\ buckets[x] \in BucketRecord
        /\ limiters \in [LimitKeys -> Nat] /\ judging \in [LimitReqs -> JudgedRequest]
        /\ admitted \in [LimitKeys -> Seq(0..MaxTicks)] /\ judging[r] \in JudgedRequest
        /\ judging[r].pc = "found"
    BY <1>1 DEF LimitInv, LimitTyped, Limiter!allow
  <1>5. buckets[x].lastRefill <= ticks
    BY <1>1 DEF LimitInv, BucketsAreOwn
  <1>6. full \in 0..Full
    <2>1. full = IF Full < buckets[x].tokens + (ticks - buckets[x].lastRefill) THEN Full
                 ELSE buckets[x].tokens + (ticks - buckets[x].lastRefill)
      BY <1>2 DEF Limiter!Filled, Limiter!Least, Full
    <2>2. buckets[x].tokens \in 0..Full /\ buckets[x].lastRefill \in 0..MaxTicks
      BY <1>4 DEF BucketRecord
    <2>3. PICK had \in 0..Full, since0 \in 0..MaxTicks : had = buckets[x].tokens /\ since0 = buckets[x].lastRefill
      BY <2>2
    <2>4. PICK now \in 0..MaxTicks : now = ticks
      BY <1>4
    <2>5. since0 <= now /\ full = IF Full < had + (now - since0) THEN Full ELSE had + (now - since0)
      BY <1>5, <2>1, <2>3, <2>4
    <2>6. Full \in Nat /\ MaxTicks \in Nat
      BY FullIsNat, NodeParameters
    <2> QED BY <2>5, <2>6
  <1>7. PICK c : c = [tokens |-> IF full >= Period THEN full - Period ELSE full, lastRefill |-> ticks]
    OBVIOUS
  <1>8. /\ c \in BucketRecord /\ c.lastRefill = ticks
        /\ full >= Period => c.tokens = full - Period
        /\ ~(full >= Period) => c.tokens = full
    BY <1>4, <1>6, <1>7, FullIsNat, NodeParameters DEF BucketRecord
  <1>9. PICK j : j = IF full >= Period THEN Limiter!AtGate ELSE [judging[r] EXCEPT !.pc = "refused"]
    OBVIOUS
  <1>10. /\ j \in JudgedRequest
         /\ (j.pc = "out" /\ j.rl = 0) \/ (j.pc = "refused" /\ j.key = k /\ j.rl = x)
    <2>1. CASE full >= Period
      <3>1. Limiter!AtGate \in JudgedRequest /\ Limiter!AtGate.pc = "out" /\ Limiter!AtGate.rl = 0
        BY NodeParameters DEF JudgedRequest, Limiter!AtGate
      <3> QED BY <1>9, <2>1, <3>1
    <2>2. CASE ~(full >= Period)
      <3>1. j = [judging[r] EXCEPT !.pc = "refused"]
        BY <1>9, <2>2
      <3>2. j \in JudgedRequest
        BY <1>4, <3>1 DEF JudgedRequest
      <3>3. j.pc = "refused" /\ j.key = k /\ j.rl = x
        BY <1>1, <1>4, <3>1 DEF JudgedRequest
      <3> QED BY <3>2, <3>3
    <2> QED BY <2>1, <2>2
  <1>11. PICK times : times = IF full >= Period THEN Append(admitted[k], ticks) ELSE admitted[k]
    OBVIOUS
  <1>12. times \in Seq(0..MaxTicks)
    <2>1. admitted[k] \in Seq(0..MaxTicks) /\ Append(admitted[k], ticks) \in Seq(0..MaxTicks)
      BY <1>4
    <2> QED BY <1>11, <2>1
  <1>13. /\ buckets' = [buckets EXCEPT ![x] = c] /\ judging' = [judging EXCEPT ![r] = j]
         /\ admitted' = [admitted EXCEPT ![k] = times] /\ UNCHANGED <<ticks, limiters>>
    <2>1. /\ buckets' = [buckets EXCEPT ![x] =
               [tokens |-> IF full >= Period THEN full - Period ELSE full, lastRefill |-> ticks]]
          /\ judging' = [judging EXCEPT ![r] = IF full >= Period THEN Limiter!AtGate
                                               ELSE [judging[r] EXCEPT !.pc = "refused"]]
          /\ admitted' = IF full >= Period THEN [admitted EXCEPT ![k] = Append(@, ticks)] ELSE admitted
          /\ UNCHANGED <<ticks, limiters>>
      BY <1>1, <1>2 DEF Limiter!allow
    <2>2. admitted' = [admitted EXCEPT ![k] = times]
      BY <1>4, <1>11, <2>1
    <2> QED BY <1>7, <1>9, <2>1, <2>2
  <1>14. /\ Spent(admitted[k], buckets[x]) /\ WithinRate(admitted[k])
    BY <1>1 DEF LimitInv, SpentIsRefilled
  <1>15. Spent(times, c) /\ WithinRate(times)
    <2>1. /\ c.tokens = full => Spent(admitted[k], c)
          /\ full >= Period /\ c.tokens = full - Period =>
               Spent(Append(admitted[k], ticks), c) /\ WithinRate(Append(admitted[k], ticks))
      <3>1. admitted[k] \in Seq(0..MaxTicks)
        BY <1>4
      <3> QED BY <1>2, <1>4, <1>5, <1>8, <1>14, <3>1, TakingIsCounted
    <2> QED BY <1>8, <1>11, <1>14, <2>1
  <1>16. /\ buckets' \in Seq(BucketRecord) /\ Len(buckets') = n /\ DOMAIN buckets' = 1..n
         /\ \A b \in 1..n : buckets'[b] = IF b = x THEN c ELSE buckets[b]
    BY <1>1, <1>4, <1>8, <1>13
  <1>17. LimitTyped'
    BY <1>4, <1>10, <1>12, <1>13, <1>16 DEF LimitTyped
  <1>18. \A q \in LimitReqs : judging'[q] = IF q = r THEN j ELSE judging[q]
    BY <1>4, <1>13
  <1>19. BucketsAreOwn'
    <2>1. \A b \in 1..n : buckets'[b].lastRefill <= ticks
      <3>1. \A b \in 1..n : buckets[b].lastRefill <= ticks
        BY <1>1 DEF LimitInv, BucketsAreOwn
      <3>2. ticks <= ticks
        BY <1>4
      <3> QED BY <1>8, <1>16, <3>1, <3>2
    <2>2. ASSUME NEW q \in LimitReqs
          PROVE  /\ judging'[q].pc \in {"missed", "found", "refused"} => judging'[q].key \in LimitKeys
                 /\ judging'[q].pc \in {"found", "refused"} =>
                      judging'[q].rl # 0 /\ judging'[q].rl = limiters[judging'[q].key]
                 /\ judging'[q].rl <= n
      <3>1. CASE q = r
        BY <1>1, <1>10, <1>18, <3>1
      <3>2. CASE q # r
        BY <1>1, <1>18, <3>2 DEF LimitInv, BucketsAreOwn
      <3> QED BY <3>1, <3>2
    <2>3. /\ \A m \in LimitKeys : limiters[m] <= n
          /\ \A y, m \in LimitKeys : y # m /\ limiters[y] # 0 => limiters[y] # limiters[m]
      BY <1>1 DEF LimitInv, BucketsAreOwn
    <2> QED BY <1>13, <1>16, <2>1, <2>2, <2>3 DEF BucketsAreOwn
  <1>20. SpentIsRefilled'
    <2> SUFFICES ASSUME NEW m \in LimitKeys
                 PROVE  /\ limiters'[m] = 0 => admitted'[m] = <<>>
                        /\ limiters'[m] # 0 => Spent(admitted'[m], buckets'[limiters'[m]])
                        /\ WithinRate(admitted'[m])
      BY DEF SpentIsRefilled, Spent, WithinRate
    <2>1. limiters'[m] = limiters[m]
      BY <1>13
    <2>2. CASE m = k
      <3>1. admitted'[m] = times /\ limiters[m] = x /\ x # 0 /\ buckets'[x] = c
        BY <1>1, <1>4, <1>13, <1>16, <2>2
      <3> QED BY <1>15, <2>1, <3>1
    <2>3. CASE m # k
      <3>1. /\ admitted'[m] = admitted[m] /\ WithinRate(admitted[m])
            /\ limiters[m] = 0 => admitted[m] = <<>>
            /\ limiters[m] # 0 => Spent(admitted[m], buckets[limiters[m]])
        BY <1>4, <1>13, <2>3 DEF LimitInv, SpentIsRefilled
      <3>2. limiters[m] # 0 => limiters[m] # x /\ limiters[m] \in 1..n
        BY <1>1, <1>4, <2>3 DEF LimitInv, BucketsAreOwn
      <3>3. limiters[m] # 0 => buckets'[limiters[m]] = buckets[limiters[m]]
        BY <1>16, <3>2
      <3> QED BY <2>1, <3>1, <3>3
    <2> QED BY <2>2, <2>3
  <1> QED BY <1>17, <1>19, <1>20 DEF LimitInv

LEMMA LimitKeeps == LimitInv /\ Limiter!LimitNext => LimitInv'
  BY TickKeeps, ArriveKeeps, GetKeeps, AllowKeeps, RefuseKeeps DEF Limiter!LimitNext

LEMMA LimitSays == LimitInv => Limiter!LimitTypeOK /\ Limiter!AdmittedWithinRate
  <1> SUFFICES ASSUME LimitInv PROVE Limiter!LimitTypeOK /\ Limiter!AdmittedWithinRate
    OBVIOUS
  <1>1. /\ Len(buckets) \in Nat /\ limiters \in [LimitKeys -> Nat] /\ buckets \in Seq(BucketRecord)
        /\ \A k \in LimitKeys : limiters[k] <= Len(buckets)
        /\ \A r \in LimitReqs : judging[r] \in JudgedRequest /\ judging[r].rl <= Len(buckets)
    BY DEF LimitInv, LimitTyped, BucketsAreOwn
  <1>2. limiters \in [LimitKeys -> 0..Len(buckets)]
    BY <1>1
  <1>3. \A b \in DOMAIN buckets : buckets[b].tokens \in 0..(Burst * Period)
    <2>1. \A b \in DOMAIN buckets : buckets[b] \in BucketRecord
      BY <1>1, SeqFacts
    <2> QED BY <2>1 DEF BucketRecord, Full
  <1>4. \A r \in LimitReqs : judging[r].rl \in 0..Len(buckets) /\ judging[r].retry \in 0..Period
    BY <1>1 DEF JudgedRequest
  <1>5. \A k \in LimitKeys : \A i \in DOMAIN admitted[k] : admitted[k][i] \in 0..MaxTicks
    <2>1. \A k \in LimitKeys : admitted[k] \in Seq(0..MaxTicks)
      BY DEF LimitInv, LimitTyped
    <2> QED BY <2>1, SeqFacts
  <1>6. Limiter!LimitTypeOK
    BY <1>2, <1>3, <1>4, <1>5 DEF LimitInv, LimitTyped, Limiter!LimitTypeOK
  <1>7. Limiter!AdmittedWithinRate
    BY DEF LimitInv, SpentIsRefilled, WithinRate, Limiter!AdmittedWithinRate, Full
  <1> QED BY <1>6, <1>7

------------------------------------------------------------------------------
(* The execution of a function.                                                *)

(* A host call of the function is counted by the parent when it was carried    *)
(* out and by the function when it had the answer.                             *)
CallsAgree ==
  /\ effects = made + IF call \in {"answered", "lost"} THEN 1 ELSE 0
  /\ made + (IF call = "none" THEN 0 ELSE 1) <= MaxCalls

(* Where the parent is, the worker is not ahead of it nor behind; an answer    *)
(* stands only of a worker that stopped, and a success of one without a call.  *)
WorkersAgree ==
  /\ parent = "start" => worker = "none" /\ ~sampling
  /\ worker = "none" => ~dialed /\ parent \in {"start", "done"}
  /\ ~dialed => call = "none" /\ answer = "none" /\ worker \notin {"running", "stopped"}
  /\ parent \in {"start", "handshake"} => made = 0 /\ call \in {"none", "sent"}
  /\ answer # "none" => worker \in {"stopped", "gone"}
  /\ answer = "success" => call = "none"
  /\ parent # "done" => outcome = "none"
  /\ parent = "done" => worker \in {"none", "gone"}
  /\ parent = "done" /\ outcome = "success" => answer = "success"
  /\ parent = "done" /\ sampling => outcome = "timeout" /\ made = 0

WorkerInv == Worker!WorkerTypeOK /\ CallsAgree /\ WorkersAgree

LEMMA WorkerStart == Worker!WorkerInit => WorkerInv
  <1> SUFFICES ASSUME Worker!WorkerInit PROVE WorkerInv
    OBVIOUS
  <1> USE NodeParameters DEF Worker!WorkerInit
  <1>1. Worker!WorkerTypeOK
    <2>1. dialed \in BOOLEAN /\ expired \in BOOLEAN /\ sampling \in BOOLEAN
      OBVIOUS
    <2>2. parent \in {"start", "handshake", "wait", "done"}
      OBVIOUS
    <2>3. made \in 0..MaxCalls /\ effects \in 0..MaxCalls
      OBVIOUS
    <2>4. worker \in {"none", "started", "running", "stopped", "gone"}
      OBVIOUS
    <2> QED BY <2>1, <2>2, <2>3, <2>4 DEF Worker!WorkerTypeOK
  <1>2. CallsAgree
    BY DEF CallsAgree
  <1>3. WorkersAgree
    BY DEF WorkersAgree
  <1> QED BY <1>1, <1>2, <1>3 DEF WorkerInv

(* The steps of the parent, and those of the worker.                           *)
LEMMA ParentKeeps ==
  ASSUME WorkerInv,
         \/ Worker!runIsolatedSubprocess \/ Worker!Handshake \/ Worker!HandshakeTimesOut
         \/ Worker!ParentDeadline \/ Worker!Wait \/ Worker!serveHostRPC \/ Worker!dispatchHostCall
  PROVE  WorkerInv'
  <1> USE NodeParameters DEF WorkerInv, Worker!WorkerTypeOK, CallsAgree, WorkersAgree, Worker!Returns
  <1>1. CASE Worker!runIsolatedSubprocess
    <2>1. UNCHANGED <<dialed, answer, call, made, effects, expired>>
      BY <1>1 DEF Worker!runIsolatedSubprocess
    <2>2. CASE parent' = "handshake" /\ worker' = "started" /\ sampling' = TRUE /\ UNCHANGED outcome
      BY <1>1, <2>1, <2>2 DEF Worker!runIsolatedSubprocess
    <2>3. CASE parent' = "done" /\ outcome' = "error" /\ UNCHANGED <<worker, sampling>>
      BY <1>1, <2>1, <2>3 DEF Worker!runIsolatedSubprocess
    <2> QED BY <1>1, <2>2, <2>3 DEF Worker!runIsolatedSubprocess
  <1>2. CASE Worker!Handshake
    BY <1>2 DEF Worker!Handshake
  <1>3. CASE Worker!HandshakeTimesOut
    BY <1>3 DEF Worker!HandshakeTimesOut
  <1>4. CASE Worker!ParentDeadline
    BY <1>4 DEF Worker!ParentDeadline
  <1>5. CASE Worker!Wait
    BY <1>5 DEF Worker!Wait
  <1>6. CASE Worker!serveHostRPC
    BY <1>6 DEF Worker!serveHostRPC
  <1>7. CASE Worker!dispatchHostCall
    BY <1>7 DEF Worker!dispatchHostCall
  <1> QED BY <1>1, <1>2, <1>3, <1>4, <1>5, <1>6, <1>7

LEMMA ChildKeeps ==
  ASSUME WorkerInv,
         \/ Worker!WorkerMain \/ Worker!HostCall \/ Worker!HostReturns \/ Worker!FunctionEnds
         \/ Worker!WorkerDeadline \/ Worker!Interrupted \/ Worker!WorkerExits
  PROVE  WorkerInv'
  <1> USE NodeParameters DEF WorkerInv, Worker!WorkerTypeOK, CallsAgree, WorkersAgree
  <1>1. CASE Worker!WorkerMain
    BY <1>1 DEF Worker!WorkerMain
  <1>2. CASE Worker!HostCall
    BY <1>2 DEF Worker!HostCall
  <1>3. CASE Worker!HostReturns
    BY <1>3 DEF Worker!HostReturns
  <1>4. CASE Worker!FunctionEnds
    BY <1>4 DEF Worker!FunctionEnds
  <1>5. CASE Worker!WorkerDeadline
    BY <1>5 DEF Worker!WorkerDeadline
  <1>6. CASE Worker!Interrupted
    BY <1>6 DEF Worker!Interrupted
  <1>7. CASE Worker!WorkerExits
    BY <1>7 DEF Worker!WorkerExits
  <1> QED BY <1>1, <1>2, <1>3, <1>4, <1>5, <1>6, <1>7

LEMMA WorkerKeeps == WorkerInv /\ Worker!WorkerNext => WorkerInv'
  BY ParentKeeps, ChildKeeps DEF Worker!WorkerNext

LEMMA WorkerSays == WorkerInv => Worker!WorkerTypeOK /\ Worker!SuccessIsComplete
  BY DEF WorkerInv, Worker!WorkerTypeOK, CallsAgree, WorkersAgree, Worker!SuccessIsComplete

------------------------------------------------------------------------------
(* The request log.                                                            *)

Settled == MaxLogBackups + 1
Kept == 0..MaxLogBackups

Rising(s) == \A a, b \in 1..Len(s) : a < b => s[a] < s[b]
Before(s, u) == \A a \in 1..Len(s), b \in 1..Len(u) : s[a] < u[b]

(* A file of numbers of requests, in order; the n-th entry is that of the n-th *)
(* request or of a later one, which bounds the length of the file.             *)
Ordered(s) == s \in Seq(Nat) /\ Rising(s) /\ \A a \in 1..Len(s) : s[a] \in a..logged

(* What is in the channel comes after all that was written.                    *)
EntriesInOrder ==
  /\ logged \in 0..MaxLogged
  /\ channel \in Seq(Nat) /\ Len(channel) <= ChanSize /\ Rising(channel)
  /\ \A c \in 1..Len(channel) : channel[c] \in 1..logged
  /\ files \in Seq(Seq(Nat))
  /\ \A f \in 1..Len(files) : Ordered(files[f]) /\ Before(files[f], channel)

WriterTyped ==
  /\ paths \in [Kept -> 0..Len(files)] /\ handle \in 0..Len(files)
  /\ exposed \subseteq 0..Len(files)
  /\ shifting \in Kept \cup {Settled} /\ shifting # MaxLogBackups
  /\ flushing \in [ClearReqs -> Kept \cup {Settled}]
  /\ logSize \in 0..MaxLogged
  /\ handle # 0 => logSize = Len(files[handle])

(* No file is at two paths, a file at a later path is older, and the writer    *)
(* has none open that was rotated.                                             *)
PathsInOrder ==
  /\ \A i, j \in Kept : i < j /\ paths[i] # 0 /\ paths[j] # 0 =>
       paths[i] # paths[j] /\ Before(files[paths[j]], files[paths[i]])
  /\ handle # 0 => \A j \in Kept : j > 0 => paths[j] # handle

(* A clearing leaves the writer no file open but those it opens meanwhile.     *)
OpenIsListed ==
  /\ handle # 0 => handle = paths[0] \/ handle \in exposed
  /\ handle # 0 /\ Requests!Clearing => handle \in exposed

LogInv == EntriesInOrder /\ WriterTyped /\ PathsInOrder /\ OpenIsListed

LEMMA LogNames == Requests!Settled = Settled /\ Requests!Kept = Kept /\ Requests!NoFile = 0
  BY DEF Requests!Settled, Settled, Requests!Kept, Kept, Requests!NoFile

LEMMA KeptFacts ==
  /\ MaxLogBackups \in Nat /\ MaxLogBackups > 0 /\ Settled \in Nat /\ Settled \notin Kept
  /\ 0 \in Kept /\ 1 \in Kept /\ Kept \subseteq Nat
  /\ \A i \in Kept : i # MaxLogBackups => i + 1 \in Kept
  /\ \A i \in Kept : i # 0 => i - 1 \in Kept /\ i - 1 # MaxLogBackups
  /\ MaxLogBackups - 1 \in Kept /\ MaxLogBackups - 1 # MaxLogBackups
  BY NodeParameters DEF Settled, Kept

LEMMA LogStart == Requests!LogInit => LogInv
  <1> SUFFICES ASSUME Requests!LogInit PROVE LogInv
    OBVIOUS
  <1>1. /\ logged = 0 /\ channel = <<>> /\ files = <<>> /\ paths = [i \in Kept |-> 0]
        /\ handle = 0 /\ logSize = 0 /\ shifting = Settled /\ exposed = {}
        /\ flushing = [c \in ClearReqs |-> Settled]
    BY LogNames DEF Requests!LogInit
  <1>2. EntriesInOrder
    BY <1>1, NodeParameters DEF EntriesInOrder, Rising
  <1>3. WriterTyped
    BY <1>1, NodeParameters, KeptFacts DEF WriterTyped
  <1>4. PathsInOrder
    BY <1>1 DEF PathsInOrder
  <1>5. OpenIsListed
    BY <1>1 DEF OpenIsListed
  <1> QED BY <1>2, <1>3, <1>4, <1>5 DEF LogInv

(* The number of a request comes after all others.                             *)
LEMMA LoggingKeeps == ASSUME LogInv, Requests!log PROVE LogInv'
  <1>1. /\ logged \in 0..MaxLogged /\ logged' = logged + 1 /\ logged' \in 0..MaxLogged
        /\ UNCHANGED <<paths, files, handle, logSize, shifting, flushing, exposed>>
        /\ channel' = channel \/ (Len(channel) < ChanSize /\ channel' = Append(channel, logged'))
    BY NodeParameters DEF LogInv, EntriesInOrder, Requests!log
  <1>2. /\ channel \in Seq(Nat) /\ Len(channel) <= ChanSize /\ Rising(channel)
        /\ \A c \in 1..Len(channel) : channel[c] \in 1..logged
        /\ files \in Seq(Seq(Nat)) /\ Len(files) \in Nat
        /\ \A f \in 1..Len(files) : Ordered(files[f]) /\ Before(files[f], channel)
    BY DEF LogInv, EntriesInOrder
  <1>3. \A f \in 1..Len(files) : files[f] \in Seq(Nat) /\ \A a \in 1..Len(files[f]) : files[f][a] \in a..logged
    BY <1>2 DEF Ordered
  <1>4. \A f \in 1..Len(files) : Ordered(files[f])'
    <2> SUFFICES ASSUME NEW f \in 1..Len(files) PROVE Ordered(files[f])'
      OBVIOUS
    <2>1. \A a \in 1..Len(files[f]) : files[f][a] \in a..(logged + 1)
      <3> SUFFICES ASSUME NEW a \in 1..Len(files[f]) PROVE files[f][a] \in a..(logged + 1)
        OBVIOUS
      <3>1. files[f][a] \in a..logged /\ Len(files[f]) \in Nat
        BY <1>3
      <3> QED BY <1>1, <3>1
    <2> QED BY <1>1, <1>2, <2>1 DEF Ordered, Rising
  <1>5. CASE channel' = channel
    <2>1. \A c \in 1..Len(channel) : channel[c] \in 1..(logged + 1)
      BY <1>1, <1>2
    <2>2. EntriesInOrder'
      BY <1>1, <1>2, <1>4, <1>5, <2>1 DEF EntriesInOrder, Rising, Before
    <2> QED BY <1>1, <2>2 DEF LogInv, WriterTyped, PathsInOrder, Before, OpenIsListed, Requests!Clearing, Requests!Settled
  <1>6. CASE Len(channel) < ChanSize /\ channel' = Append(channel, logged')
    <2>1. PICK n \in Nat : n = Len(channel)
      BY <1>2
    <2>2. /\ Len(channel') = n + 1 /\ channel'[n + 1] = logged + 1 /\ channel' \in Seq(Nat)
          /\ \A c \in 1..n : channel'[c] = channel[c] /\ channel[c] \in 1..logged
      BY <1>1, <1>2, <1>6, <2>1
    <2>3. Len(channel') <= ChanSize
      BY <1>6, <2>1, <2>2, NodeParameters
    <2>4. Rising(channel)'
      <3> SUFFICES ASSUME NEW a \in 1..(n + 1), NEW b \in 1..(n + 1), a < b PROVE channel'[a] < channel'[b]
        BY <2>2 DEF Rising
      <3>1. CASE b = n + 1
        <4>1. a \in 1..n
          BY <3>1
        <4>2. channel'[a] \in 1..logged
          BY <2>2, <4>1
        <4> QED BY <1>1, <2>2, <3>1, <4>2
      <3>2. CASE b # n + 1
        <4>1. a \in 1..n /\ b \in 1..n
          BY <3>2
        <4> QED BY <1>2, <2>1, <2>2, <4>1 DEF Rising
      <3> QED BY <3>1, <3>2
    <2>5. \A c \in 1..(n + 1) : channel'[c] \in 1..(logged + 1)
      <3> SUFFICES ASSUME NEW c \in 1..(n + 1) PROVE channel'[c] \in 1..(logged + 1)
        OBVIOUS
      <3>1. CASE c = n + 1
        BY <1>1, <2>2, <3>1
      <3>2. CASE c \in 1..n
        <4>1. channel'[c] \in 1..logged
          BY <2>2, <3>2
        <4> QED BY <1>1, <4>1
      <3> QED BY <3>1, <3>2
    <2>6. ASSUME NEW f \in 1..Len(files) PROVE Before(files[f], channel)'
      <3> SUFFICES ASSUME NEW a \in 1..Len(files[f]), NEW b \in 1..(n + 1) PROVE files[f][a] < channel'[b]
        BY <1>1, <2>2 DEF Before
      <3>1. CASE b = n + 1
        <4>1. files[f][a] \in a..logged /\ Len(files[f]) \in Nat
          BY <1>3
        <4> QED BY <1>1, <2>2, <3>1, <4>1
      <3>2. CASE b \in 1..n
        BY <1>2, <2>1, <2>2, <3>2 DEF Before
      <3> QED BY <3>1, <3>2
    <2>7. EntriesInOrder'
      <3>1. \A f \in 1..Len(files') : Ordered(files[f])' /\ Before(files[f], channel)'
        BY <1>1, <1>4, <2>6
      <3>2. \A c \in 1..Len(channel') : channel'[c] \in 1..logged'
        BY <1>1, <2>2, <2>5
      <3> QED BY <1>1, <1>2, <2>2, <2>3, <2>4, <3>1, <3>2 DEF EntriesInOrder
    <2> QED BY <1>1, <2>7 DEF LogInv, WriterTyped, PathsInOrder, Before, OpenIsListed, Requests!Clearing, Requests!Settled
  <1> QED BY <1>1, <1>5, <1>6

(* A file takes the number of a request later than its own.                    *)
LEMMA OrderedGrows ==
  ASSUME logged \in Nat, NEW s, Ordered(s), NEW x \in 1..logged, \A a \in 1..Len(s) : s[a] < x
  PROVE  /\ Append(s, x) \in Seq(Nat) /\ Len(Append(s, x)) = Len(s) + 1 /\ Len(s) \in Nat
         /\ Ordered(Append(s, x)) /\ Len(s) + 1 <= logged
         /\ \A a \in 1..Len(s) : Append(s, x)[a] = s[a]
         /\ Append(s, x)[Len(s) + 1] = x
  <1>1. s \in Seq(Nat) /\ Rising(s) /\ x \in Nat
    BY DEF Ordered
  <1>2. PICK n \in Nat : n = Len(s)
    BY <1>1
  <1>3. PICK longer : longer = Append(s, x)
    OBVIOUS
  <1>4. /\ longer \in Seq(Nat) /\ Len(longer) = n + 1 /\ longer[n + 1] = x
        /\ \A a \in 1..n : longer[a] = s[a]
    BY <1>1, <1>2, <1>3
  <1>5. n + 1 <= x
    <2>1. CASE n = 0
      BY <2>1
    <2>2. CASE n # 0
      <3>1. n \in 1..n
        BY <2>2
      <3>2. s[n] \in n..logged /\ s[n] < x
        BY <1>2, <3>1 DEF Ordered
      <3> QED BY <3>2
    <2> QED BY <2>1, <2>2
  <1>6. \A a \in 1..(n + 1) : longer[a] \in a..logged
    <2> SUFFICES ASSUME NEW a \in 1..(n + 1) PROVE longer[a] \in a..logged
      OBVIOUS
    <2>1. CASE a = n + 1
      BY <1>4, <1>5, <2>1
    <2>2. CASE a \in 1..n
      BY <1>2, <1>4, <2>2 DEF Ordered
    <2> QED BY <2>1, <2>2
  <1>7. Rising(longer)
    <2> SUFFICES ASSUME NEW a \in 1..(n + 1), NEW b \in 1..(n + 1), a < b PROVE longer[a] < longer[b]
      BY <1>4 DEF Rising
    <2>1. CASE b = n + 1
      <3>1. a \in 1..n
        BY <2>1
      <3> QED BY <1>2, <1>4, <2>1, <3>1
    <2>2. CASE b # n + 1
      <3>1. a \in 1..n /\ b \in 1..n
        BY <2>2
      <3> QED BY <1>1, <1>2, <1>4, <3>1 DEF Rising
    <2> QED BY <2>1, <2>2
  <1>8. Ordered(longer)
    BY <1>4, <1>6, <1>7 DEF Ordered
  <1>9. n + 1 <= logged
    BY <1>5
  <1> QED BY <1>2, <1>3, <1>4, <1>8, <1>9

(* The first entry of the channel goes to the file that is open, to the log    *)
(* that is there, or to a new one.                                             *)
LEMMA WriteGrows ==
  ASSUME LogInv, Requests!write
  PROVE  \E f \in 1..(Len(files) + 1), old \in Seq(Nat), x \in 1..logged :
           /\ f = (IF handle # 0 THEN handle ELSE IF paths[0] # 0 THEN paths[0] ELSE Len(files) + 1)
           /\ old = (IF f <= Len(files) THEN files[f] ELSE <<>>)
           /\ channel # <<>> /\ x = Head(channel) /\ channel' = Tail(channel)
           /\ Ordered(old) /\ (\A a \in 1..Len(old) : old[a] < x)
           /\ Len(files') = (IF f <= Len(files) THEN Len(files) ELSE Len(files) + 1)
           /\ files' \in Seq(Seq(Nat)) /\ files'[f] = Append(old, x)
           /\ \A g \in 1..Len(files) : g # f => files'[g] = files[g]
           /\ handle' = f /\ logSize' = Len(old) + 1 /\ logSize' \in 0..MaxLogged
           /\ paths' = (IF f <= Len(files) THEN paths ELSE [paths EXCEPT ![0] = f])
           /\ exposed' = (IF handle = 0 /\ Requests!Clearing THEN exposed \cup {f} ELSE exposed)
           /\ shifting' = (IF logSize' >= MaxLogSize THEN MaxLogBackups - 1 ELSE Settled)
           /\ UNCHANGED <<logged, flushing>>
  <1>1. PICK n \in Nat : n = Len(files)
    BY DEF LogInv, EntriesInOrder
  <1>2. /\ logged \in Nat /\ logged <= MaxLogged /\ channel \in Seq(Nat) /\ files \in Seq(Seq(Nat))
        /\ \A g \in 1..n : Ordered(files[g]) /\ Before(files[g], channel)
        /\ paths[0] \in 0..n /\ handle \in 0..n /\ channel # <<>>
        /\ handle # 0 => logSize = Len(files[handle])
    BY <1>1, KeptFacts, NodeParameters DEF LogInv, EntriesInOrder, WriterTyped, Requests!write
  <1>3. PICK x : x = Head(channel)
    OBVIOUS
  <1>4. x \in 1..logged /\ 1 \in 1..Len(channel) /\ x = channel[1]
    <2>1. 1 \in 1..Len(channel) /\ x = channel[1]
      BY <1>2, <1>3
    <2> QED BY <2>1 DEF LogInv, EntriesInOrder
  <1>5. PICK f : f = Requests!Opened
    OBVIOUS
  <1>6. f = (IF handle # 0 THEN handle ELSE IF paths[0] # 0 THEN paths[0] ELSE n + 1) /\ f \in 1..(n + 1)
    BY <1>1, <1>2, <1>5 DEF Requests!Opened, Requests!NoFile
  <1>7. PICK old : old = (IF f <= n THEN files[f] ELSE <<>>)
    OBVIOUS
  <1>8. Ordered(old) /\ \A a \in 1..Len(old) : old[a] < x
    <2>1. CASE f <= n
      <3>1. f \in 1..n /\ old = files[f]
        BY <1>6, <1>7, <2>1
      <3> QED BY <1>2, <1>4, <3>1 DEF Before
    <2>2. CASE ~(f <= n)
      <3>1. old = <<>>
        BY <1>7, <2>2
      <3> QED BY <3>1 DEF Ordered, Rising
    <2> QED BY <2>1, <2>2
  <1>9. /\ old \in Seq(Nat) /\ Append(old, x) \in Seq(Nat) /\ Len(Append(old, x)) = Len(old) + 1
        /\ Len(old) \in Nat /\ Len(old) + 1 <= logged
    BY <1>2, <1>4, <1>8, OrderedGrows DEF Ordered
  <1>10. PICK grown : grown = IF f > n THEN Append(files, <<x>>) ELSE [files EXCEPT ![f] = Append(@, x)]
    OBVIOUS
  <1>11. /\ Len(grown) = (IF f <= n THEN n ELSE n + 1) /\ grown \in Seq(Seq(Nat))
         /\ grown[f] = Append(old, x) /\ \A g \in 1..n : g # f => grown[g] = files[g]
    <2>1. CASE f <= n
      <3>1. f \in 1..n /\ old = files[f] /\ grown = [files EXCEPT ![f] = Append(old, x)]
        BY <1>6, <1>7, <1>10, <2>1
      <3> QED BY <1>1, <1>2, <1>9, <2>1, <3>1
    <2>2. CASE ~(f <= n)
      <3>1. f = n + 1 /\ old = <<>> /\ grown = Append(files, <<x>>)
        BY <1>6, <1>7, <1>10, <2>2
      <3>2. <<x>> \in Seq(Nat) /\ Append(old, x) = <<x>>
        BY <1>4, <3>1
      <3> QED BY <1>1, <1>2, <2>2, <3>1, <3>2
    <2> QED BY <2>1, <2>2
  <1>12. PICK size : size = IF handle # 0 THEN logSize + 1 ELSE Len(grown[f])
    OBVIOUS
  <1>13. size = Len(old) + 1
    <2>1. CASE handle # 0
      BY <1>2, <1>6, <1>7, <1>12, <2>1
    <2>2. CASE handle = 0
      BY <1>9, <1>11, <1>12, <2>2
    <2> QED BY <2>1, <2>2
  <1>14. /\ channel' = Tail(channel) /\ files' = grown /\ handle' = f /\ logSize' = size
         /\ paths' = (IF f > n THEN [paths EXCEPT ![0] = f] ELSE paths)
         /\ exposed' = (IF handle = 0 /\ Requests!Clearing THEN exposed \cup {f} ELSE exposed)
         /\ shifting' = (IF size >= MaxLogSize THEN MaxLogBackups - 1 ELSE Settled)
         /\ UNCHANGED <<logged, flushing>>
    BY <1>1, <1>3, <1>5, <1>10, <1>12 DEF Requests!write, Requests!NoFile, Requests!Settled, Settled
  <1>15. paths' = (IF f <= n THEN paths ELSE [paths EXCEPT ![0] = f])
    BY <1>6, <1>14
  <1>16. size \in 0..MaxLogged
    BY <1>2, <1>9, <1>13, NodeParameters
  <1>17. f \in 1..(Len(files) + 1) /\ old \in Seq(Nat) /\ x \in 1..logged
    BY <1>1, <1>4, <1>6, <1>9
  <1>18. /\ f = (IF handle # 0 THEN handle ELSE IF paths[0] # 0 THEN paths[0] ELSE Len(files) + 1)
         /\ old = (IF f <= Len(files) THEN files[f] ELSE <<>>)
    BY <1>1, <1>6, <1>7
  <1>19. channel # <<>> /\ x = Head(channel) /\ channel' = Tail(channel)
    BY <1>2, <1>3, <1>14
  <1>20. /\ Len(files') = (IF f <= Len(files) THEN Len(files) ELSE Len(files) + 1)
         /\ files' \in Seq(Seq(Nat)) /\ files'[f] = Append(old, x)
         /\ \A g \in 1..Len(files) : g # f => files'[g] = files[g]
    BY <1>1, <1>11, <1>14
  <1>21. /\ handle' = f /\ logSize' = Len(old) + 1 /\ logSize' \in 0..MaxLogged
         /\ paths' = (IF f <= Len(files) THEN paths ELSE [paths EXCEPT ![0] = f])
         /\ exposed' = (IF handle = 0 /\ Requests!Clearing THEN exposed \cup {f} ELSE exposed)
         /\ shifting' = (IF logSize' >= MaxLogSize THEN MaxLogBackups - 1 ELSE Settled)
         /\ UNCHANGED <<logged, flushing>>
    BY <1>1, <1>13, <1>14, <1>15, <1>16
  <1> QED BY <1>8, <1>17, <1>18, <1>19, <1>20, <1>21

LEMMA WriteKeeps == ASSUME LogInv, Requests!write PROVE LogInv'
  <1> DEFINE n == Len(files)
  <1>1. n \in Nat
    BY DEF LogInv, EntriesInOrder
  <1>2. PICK f \in 1..(n + 1), old \in Seq(Nat), x \in 1..logged :
           /\ f = (IF handle # 0 THEN handle ELSE IF paths[0] # 0 THEN paths[0] ELSE n + 1)
           /\ old = (IF f <= n THEN files[f] ELSE <<>>)
           /\ channel # <<>> /\ x = Head(channel) /\ channel' = Tail(channel)
           /\ Ordered(old) /\ (\A a \in 1..Len(old) : old[a] < x)
           /\ Len(files') = (IF f <= n THEN n ELSE n + 1)
           /\ files' \in Seq(Seq(Nat)) /\ files'[f] = Append(old, x)
           /\ \A g \in 1..n : g # f => files'[g] = files[g]
           /\ handle' = f /\ logSize' = Len(old) + 1 /\ logSize' \in 0..MaxLogged
           /\ paths' = (IF f <= n THEN paths ELSE [paths EXCEPT ![0] = f])
           /\ exposed' = (IF handle = 0 /\ Requests!Clearing THEN exposed \cup {f} ELSE exposed)
           /\ shifting' = (IF logSize' >= MaxLogSize THEN MaxLogBackups - 1 ELSE Settled)
           /\ UNCHANGED <<logged, flushing>>
    BY WriteGrows
  <1> HIDE DEF n
  <1>3. PICK m \in Nat : m = Len(files')
    BY <1>1, <1>2
  <1>4. n <= m /\ f \in 1..m /\ (\A g \in 1..m : g # f => g \in 1..n)
    <2>1. m = IF f <= n THEN n ELSE n + 1
      BY <1>2, <1>3
    <2>2. f \in 1..(n + 1)
      OBVIOUS
    <2>3. CASE f <= n
      BY <1>1, <2>1, <2>2, <2>3
    <2>4. CASE ~(f <= n)
      BY <1>1, <2>1, <2>2, <2>4
    <2> QED BY <2>3, <2>4
  <1>5. /\ logged \in Nat /\ logged \in 0..MaxLogged /\ channel \in Seq(Nat) /\ Len(channel) <= ChanSize
        /\ Rising(channel) /\ (\A c \in 1..Len(channel) : channel[c] \in 1..logged)
        /\ \A g \in 1..n : Ordered(files[g]) /\ Before(files[g], channel)
    BY DEF LogInv, EntriesInOrder, n
  <1>6. /\ Append(old, x) \in Seq(Nat) /\ Len(Append(old, x)) = Len(old) + 1 /\ Len(old) \in Nat
        /\ Ordered(Append(old, x))
        /\ \A a \in 1..Len(old) : Append(old, x)[a] = old[a]
        /\ Append(old, x)[Len(old) + 1] = x
    <2>1. logged \in Nat /\ Ordered(old) /\ x \in 1..logged /\ \A a \in 1..Len(old) : old[a] < x
      BY <1>2, <1>5
    <2> QED BY <2>1, OrderedGrows
  <1>7. PICK c \in Nat : c + 1 = Len(channel)
    <2>1. Len(channel) \in Nat /\ Len(channel) # 0
      BY <1>2, <1>5
    <2>2. Len(channel) - 1 \in Nat /\ (Len(channel) - 1) + 1 = Len(channel)
      BY <2>1
    <2> QED BY <2>2
  <1>8. /\ channel' \in Seq(Nat) /\ Len(channel') = c /\ x = channel[1]
        /\ \A i \in 1..c : channel'[i] = channel[i + 1]
    BY <1>2, <1>5, <1>7
  <1>9. \A i \in 1..c : i + 1 \in 1..(c + 1) /\ 1 \in 1..(c + 1) /\ 1 < i + 1
    OBVIOUS
  <1>10. EntriesInOrder'
    <2>1. Rising(channel)'
      <3> SUFFICES ASSUME NEW a \in 1..c, NEW b \in 1..c, a < b PROVE channel'[a] < channel'[b]
        BY <1>8 DEF Rising
      <3>1. a + 1 \in 1..(c + 1) /\ b + 1 \in 1..(c + 1) /\ a + 1 < b + 1
        OBVIOUS
      <3> QED BY <1>5, <1>7, <1>8, <3>1 DEF Rising
    <2>2. \A i \in 1..c : channel'[i] \in 1..logged
      BY <1>5, <1>7, <1>8, <1>9
    <2>3. c <= ChanSize
      BY <1>5, <1>7, NodeParameters
    <2>4. \A i \in 1..c : x < channel'[i]
      BY <1>5, <1>7, <1>8, <1>9 DEF Rising
    <2>5. ASSUME NEW g \in 1..m PROVE Ordered(files[g])' /\ Before(files[g], channel)'
      <3>1. CASE g = f
        <4>1. Ordered(files[g])'
          BY <1>2, <1>6, <3>1 DEF Ordered
        <4>2. Before(files[g], channel)'
          <5>3. files'[g] = Append(old, x) /\ Len(files'[g]) = Len(old) + 1 /\ Len(channel') = c
            BY <1>2, <1>6, <1>8, <3>1
          <5> SUFFICES ASSUME NEW a \in 1..(Len(old) + 1), NEW b \in 1..c
                       PROVE  Append(old, x)[a] < channel'[b]
            BY <5>3 DEF Before
          <5>1. CASE a = Len(old) + 1
            BY <1>6, <2>4, <5>1
          <5>2. CASE a # Len(old) + 1
            <6>1. a \in 1..Len(old)
              BY <1>6, <5>2
            <6>2. Append(old, x)[a] = old[a] /\ old[a] < x /\ x < channel'[b]
              BY <1>2, <1>6, <2>4, <6>1
            <6>3. old[a] \in Nat /\ x \in Nat /\ channel'[b] \in Nat
              <7>1. old \in Seq(Nat) /\ channel' \in Seq(Nat) /\ b \in 1..Len(channel') /\ x \in 1..logged
                BY <1>8, <5>3
              <7> QED BY <6>1, <7>1, SeqFacts, SMTT(30)
            <6> QED BY <6>2, <6>3
          <5> QED BY <5>1, <5>2
        <4> QED BY <4>1, <4>2
      <3>2. CASE g # f
        <4>1. g \in 1..n /\ files'[g] = files[g]
          BY <1>2, <1>4, <3>2
        <4>2. Ordered(files[g])'
          BY <1>2, <1>5, <4>1 DEF Ordered
        <4>3. Before(files[g], channel)'
          <5> SUFFICES ASSUME NEW a \in 1..Len(files[g]), NEW b \in 1..c PROVE files[g][a] < channel'[b]
            BY <1>8, <4>1 DEF Before
          <5> QED BY <1>5, <1>7, <1>8, <1>9, <4>1 DEF Before
        <4> QED BY <4>2, <4>3
      <3> QED BY <3>1, <3>2
    <2>6. \A g \in 1..Len(files') : Ordered(files[g])' /\ Before(files[g], channel)'
      BY <1>3, <2>5
    <2> QED BY <1>2, <1>5, <1>8, <2>1, <2>2, <2>3, <2>6 DEF EntriesInOrder
  <1>11. /\ paths \in [Kept -> 0..n] /\ handle \in 0..n /\ exposed \subseteq 0..n
         /\ flushing \in [ClearReqs -> Kept \cup {Settled}]
    BY DEF LogInv, WriterTyped, n
  <1>12. /\ paths' \in [Kept -> 0..m] /\ \A i \in Kept : i # 0 => paths'[i] = paths[i]
         /\ handle = 0 => paths'[0] = f
         /\ handle # 0 => paths' = paths /\ f = handle
    <2>1. \A i \in 0..n : i \in 0..m
      BY <1>1, <1>3, <1>4
    <2>2. CASE f <= n
      <3>1. paths' = paths
        BY <1>2, <2>2
      <3>2. handle = 0 => paths[0] = f
        BY <1>2, <2>2
      <3>3. paths \in [Kept -> 0..m]
        BY <1>11, <2>1
      <3> QED BY <1>2, <3>1, <3>2, <3>3
    <2>3. CASE ~(f <= n)
      <3>1. f = n + 1 /\ f \in 0..m /\ paths' = [paths EXCEPT ![0] = f] /\ handle = 0
        BY <1>1, <1>2, <1>3, <1>4, <1>11, <2>3
      <3> QED BY <1>11, <2>1, <3>1, KeptFacts
    <2> QED BY <2>2, <2>3
  <1>13. WriterTyped'
    <2>1. exposed' \subseteq 0..m /\ handle' \in 0..m
      <3>1. f \in 0..m /\ \A i \in 0..n : i \in 0..m
        BY <1>1, <1>3, <1>4
      <3>2. exposed \subseteq 0..m
        BY <1>11, <3>1
      <3>3. exposed' = exposed \/ exposed' = exposed \cup {f}
        BY <1>2
      <3> QED BY <1>2, <3>1, <3>2, <3>3
    <2>2. shifting' \in Kept \cup {Settled} /\ shifting' # MaxLogBackups
      BY <1>2, KeptFacts
    <2>3. logSize' \in 0..MaxLogged /\ logSize' = Len(files'[handle'])
      BY <1>2, <1>6
    <2> QED BY <1>2, <1>3, <1>11, <1>12, <2>1, <2>2, <2>3 DEF WriterTyped
  <1>14. PathsInOrder'
    <2>1. \A j \in Kept : j # 0 => paths'[j] = paths[j] /\ paths[j] # f
      <3> SUFFICES ASSUME NEW j \in Kept, j # 0 PROVE paths[j] # f
        BY <1>12
      <3>1. j > 0 /\ 0 < j
        BY KeptFacts
      <3>2. CASE handle # 0
        BY <1>12, <3>1, <3>2 DEF LogInv, PathsInOrder
      <3>3. CASE handle = 0 /\ paths[0] # 0
        <4>1. f = paths[0]
          BY <1>2, <3>3
        <4> QED BY <3>1, <3>3, <4>1, KeptFacts DEF LogInv, PathsInOrder
      <3>4. CASE handle = 0 /\ paths[0] = 0
        <4>1. f = n + 1 /\ paths[j] \in 0..n
          BY <1>2, <1>11, <3>4
        <4> QED BY <1>1, <4>1
      <3> QED BY <3>2, <3>3, <3>4
    <2>2. ASSUME NEW i \in Kept, NEW j \in Kept, i < j, paths'[i] # 0, paths'[j] # 0
          PROVE  paths'[i] # paths'[j] /\ Before(files'[paths'[j]], files'[paths'[i]])
      <3>1. j # 0 /\ paths'[j] = paths[j] /\ paths[j] # f /\ paths[j] \in 1..n /\ files'[paths[j]] = files[paths[j]]
        <4>1. j # 0
          BY <2>2, KeptFacts
        <4>2. paths'[j] = paths[j] /\ paths[j] # f /\ paths[j] # 0 /\ paths[j] \in 0..n
          BY <1>11, <2>1, <2>2, <4>1
        <4>3. paths[j] \in 1..n
          BY <1>1, <4>2
        <4> QED BY <1>2, <4>1, <4>2, <4>3
      <3>2. CASE paths'[i] = f
        <4>1. Before(files[paths[j]], Append(old, x))
          <5> SUFFICES ASSUME NEW a \in 1..Len(files[paths[j]]), NEW b \in 1..(Len(old) + 1)
                       PROVE  files[paths[j]][a] < Append(old, x)[b]
            BY <1>6 DEF Before
          <5>1. CASE b = Len(old) + 1
            <6>1. files[paths[j]][a] < channel[1]
              <7>1. Before(files[paths[j]], channel) /\ 1 \in 1..Len(channel)
                BY <1>5, <1>7, <3>1
              <7> QED BY <7>1 DEF Before
            <6> QED BY <1>6, <1>8, <5>1, <6>1
          <5>2. CASE b # Len(old) + 1
            <6>1. b \in 1..Len(old)
              BY <1>6, <5>2
            <6>2. f <= n /\ old = files[f]
              BY <1>2, <6>1
            <6>3. i # 0 => paths[i] = f
              BY <2>1, <3>2
            <6>4. paths[i] = f
              BY <1>2, <1>12, <3>2, <6>2, <6>3
            <6>5. Before(files[paths[j]], files[paths[i]])
              BY <2>2, <3>1, <3>2, <6>4 DEF LogInv, PathsInOrder
            <6> QED BY <1>6, <6>1, <6>2, <6>4, <6>5 DEF Before
          <5> QED BY <5>1, <5>2
        <4> QED BY <1>2, <3>1, <3>2, <4>1
      <3>3. CASE paths'[i] # f
        <4>1. paths'[i] = paths[i] /\ paths[i] \in 1..n
          BY <1>2, <1>11, <1>12, <2>1, <2>2, <3>3, SMTT(30)
        <4>2. files'[paths[i]] = files[paths[i]]
          BY <1>2, <3>3, <4>1
        <4> QED BY <2>2, <3>1, <4>1, <4>2 DEF LogInv, PathsInOrder
      <3> QED BY <3>2, <3>3
    <2>3. \A j \in Kept : j > 0 => paths'[j] # handle'
      <3>1. handle' = f /\ \A j \in Kept : j > 0 => j # 0
        BY <1>2, KeptFacts
      <3> QED BY <2>1, <3>1
    <2> QED BY <2>2, <2>3 DEF PathsInOrder, Before
  <1>15. OpenIsListed'
    <2>1. Requests!Clearing' <=> Requests!Clearing
      BY <1>2 DEF Requests!Clearing, Requests!Settled
    <2>2. CASE handle = 0
      <3>1. handle' = paths'[0]
        BY <1>2, <1>12, <2>2
      <3>2. Requests!Clearing => handle' \in exposed'
        BY <1>2, <2>2
      <3> QED BY <2>1, <3>1, <3>2 DEF OpenIsListed
    <2>3. CASE handle # 0
      <3>1. handle' = handle /\ paths' = paths /\ exposed' = exposed
        BY <1>2, <1>12, <2>3
      <3> QED BY <2>1, <3>1 DEF LogInv, OpenIsListed
    <2> QED BY <2>2, <2>3
  <1> QED BY <1>10, <1>13, <1>14, <1>15 DEF LogInv

(* The channel loses its first entries, or all: what is left is as it was.     *)
LEMMA ChannelShrinks ==
  ASSUME LogInv, channel # <<>>, channel' = Tail(channel), UNCHANGED <<logged, files>>
  PROVE  EntriesInOrder'
  <1>1. /\ logged \in 0..MaxLogged /\ channel \in Seq(Nat) /\ Len(channel) <= ChanSize
        /\ Rising(channel) /\ (\A c \in 1..Len(channel) : channel[c] \in 1..logged)
        /\ files \in Seq(Seq(Nat))
        /\ \A g \in 1..Len(files) : Ordered(files[g]) /\ Before(files[g], channel)
    BY DEF LogInv, EntriesInOrder
  <1>2. PICK c \in Nat : c + 1 = Len(channel)
    <2>1. Len(channel) \in Nat /\ Len(channel) # 0
      BY <1>1
    <2>2. Len(channel) - 1 \in Nat /\ (Len(channel) - 1) + 1 = Len(channel)
      BY <2>1
    <2> QED BY <2>2
  <1>3. /\ channel' \in Seq(Nat) /\ Len(channel') = c
        /\ \A i \in 1..c : channel'[i] = channel[i + 1]
    BY <1>1, <1>2
  <1>4. \A i \in 1..c : i + 1 \in 1..(c + 1)
    OBVIOUS
  <1>5. Rising(channel)'
    <2> SUFFICES ASSUME NEW a \in 1..c, NEW b \in 1..c, a < b PROVE channel'[a] < channel'[b]
      BY <1>3 DEF Rising
    <2>1. a + 1 \in 1..(c + 1) /\ b + 1 \in 1..(c + 1) /\ a + 1 < b + 1
      OBVIOUS
    <2> QED BY <1>1, <1>2, <1>3, <2>1 DEF Rising
  <1>6. \A i \in 1..c : channel'[i] \in 1..logged
    BY <1>1, <1>2, <1>3, <1>4
  <1>7. c <= ChanSize
    BY <1>1, <1>2, NodeParameters
  <1>8. ASSUME NEW g \in 1..Len(files) PROVE Ordered(files[g])' /\ Before(files[g], channel)'
    <2>1. Ordered(files[g])'
      BY <1>1 DEF Ordered
    <2>2. Before(files[g], channel)'
      <3> SUFFICES ASSUME NEW a \in 1..Len(files[g]), NEW b \in 1..c PROVE files[g][a] < channel'[b]
        BY <1>3 DEF Before
      <3> QED BY <1>1, <1>2, <1>3, <1>4 DEF Before
    <2> QED BY <2>1, <2>2
  <1> QED BY <1>1, <1>3, <1>5, <1>6, <1>7, <1>8 DEF EntriesInOrder

LEMMA WriteFailsKeeps == ASSUME LogInv, Requests!writeFails PROVE LogInv'
  <1>1. /\ channel # <<>> /\ channel' = Tail(channel)
        /\ UNCHANGED <<logged, paths, files, handle, logSize, shifting, flushing, exposed>>
    BY DEF Requests!writeFails
  <1>2. EntriesInOrder'
    BY <1>1, ChannelShrinks
  <1> QED BY <1>1, <1>2
          DEF LogInv, WriterTyped, PathsInOrder, Before, OpenIsListed, Requests!Clearing, Requests!Settled

(* Files are renamed in order, or removed; the writer closes its file, or none *)
(* is taken from the log but in a clearing or a deletion.                      *)
LEMMA PathsKeep ==
  ASSUME LogInv, EntriesInOrder', UNCHANGED files,
         paths' \in [Kept -> 0..Len(files)],
         \A i, j \in Kept : i < j /\ paths'[i] # 0 /\ paths'[j] # 0 =>
           \E k, l \in Kept : k < l /\ paths[k] = paths'[i] /\ paths[l] = paths'[j],
         handle' = 0 \/ (handle' = handle /\ \A j \in Kept : paths'[j] \in {paths[j], 0}),
         exposed' \subseteq 0..Len(files), exposed \subseteq exposed',
         shifting' \in Kept \cup {Settled}, shifting' # MaxLogBackups,
         flushing' \in [ClearReqs -> Kept \cup {Settled}],
         logSize' \in 0..MaxLogged, handle' # 0 => logSize' = logSize,
         handle' # 0 => handle' \in exposed' \/ (handle' = paths'[0] /\ (Requests!Clearing' <=> Requests!Clearing))
  PROVE  LogInv'
  <1>1. /\ handle \in 0..Len(files) /\ files \in Seq(Seq(Nat)) /\ Len(files) \in Nat
        /\ handle # 0 => logSize = Len(files[handle])
    BY DEF LogInv, EntriesInOrder, WriterTyped
  <1>2. WriterTyped'
    BY <1>1 DEF WriterTyped
  <1>3. PathsInOrder'
    <2>1. ASSUME NEW i \in Kept, NEW j \in Kept, i < j, paths'[i] # 0, paths'[j] # 0
          PROVE  paths'[i] # paths'[j] /\ Before(files[paths'[j]], files[paths'[i]])
      <3>1. PICK k \in Kept, l \in Kept : k < l /\ paths[k] = paths'[i] /\ paths[l] = paths'[j]
        BY <2>1
      <3>2. paths[k] # paths[l] /\ Before(files[paths[l]], files[paths[k]])
        BY <2>1, <3>1 DEF LogInv, PathsInOrder
      <3> QED BY <3>1, <3>2
    <2>2. handle' # 0 => \A j \in Kept : j > 0 => paths'[j] # handle'
      BY DEF LogInv, PathsInOrder
    <2> QED BY <2>1, <2>2 DEF PathsInOrder, Before
  <1>4. OpenIsListed'
    <2>1. ASSUME handle' # 0, Requests!Clearing' PROVE handle' \in exposed'
      <3>1. CASE handle' = paths'[0] /\ (Requests!Clearing' <=> Requests!Clearing)
        <4>1. handle \in exposed
          BY <2>1, <3>1 DEF LogInv, OpenIsListed
        <4> QED BY <2>1, <4>1
      <3> QED BY <2>1, <3>1
    <2>2. handle' # 0 => handle' = paths'[0] \/ handle' \in exposed'
      OBVIOUS
    <2> QED BY <2>1, <2>2 DEF OpenIsListed
  <1> QED BY <1>2, <1>3, <1>4 DEF LogInv

LEMMA EntriesKept ==
  ASSUME EntriesInOrder, UNCHANGED <<logged, channel, files>>
  PROVE  EntriesInOrder'
  BY DEF EntriesInOrder, Ordered, Rising, Before

LEMMA RotateKeeps == ASSUME LogInv, Requests!rotate PROVE LogInv'
  <1>1. PICK i \in Kept : i = shifting /\ i # MaxLogBackups
    BY DEF LogInv, WriterTyped, Requests!rotate, Requests!Settled, Settled
  <1>2. /\ paths' = (IF paths[i] = 0 THEN paths ELSE [paths EXCEPT ![i + 1] = paths[i], ![i] = 0])
        /\ shifting' = (IF i = 0 THEN Settled ELSE i - 1) /\ handle' = 0 /\ logSize' = 0
        /\ UNCHANGED <<logged, channel, files, flushing, exposed>>
    BY <1>1 DEF Requests!rotate, Requests!Renamed, Requests!NoFile, Requests!Settled, Settled
  <1>3. EntriesInOrder'
    BY <1>2, EntriesKept DEF LogInv
  <1>4. /\ paths \in [Kept -> 0..Len(files)] /\ Len(files) \in Nat /\ exposed \subseteq 0..Len(files)
        /\ flushing \in [ClearReqs -> Kept \cup {Settled}]
    BY DEF LogInv, WriterTyped, EntriesInOrder
  <1>5. i \in Nat /\ i + 1 \in Kept /\ i + 1 # i
    BY <1>1, KeptFacts
  <1>6. /\ paths' \in [Kept -> 0..Len(files)]
        /\ \A a \in Kept : paths'[a] = IF paths[i] = 0 THEN paths[a]
                                         ELSE IF a = i + 1 THEN paths[i] ELSE IF a = i THEN 0 ELSE paths[a]
    <2>1. CASE paths[i] = 0
      BY <1>2, <1>4, <2>1
    <2>2. CASE paths[i] # 0
      <3>1. paths' = [paths EXCEPT ![i + 1] = paths[i], ![i] = 0]
        BY <1>2, <2>2
      <3>2. paths[i] \in 0..Len(files) /\ 0 \in 0..Len(files)
        BY <1>4
      <3> QED BY <1>4, <1>5, <2>2, <3>1, <3>2
    <2> QED BY <2>1, <2>2
  <1>7. ASSUME NEW a \in Kept, NEW b \in Kept, a < b, paths'[a] # 0, paths'[b] # 0
        PROVE  \E k, l \in Kept : k < l /\ paths[k] = paths'[a] /\ paths[l] = paths'[b]
    <2>1. a \in Nat /\ b \in Nat /\ i \in Nat
      BY <1>5, KeptFacts
    <2>2. CASE paths[i] = 0
      BY <1>6, <1>7, <2>2
    <2>3. CASE paths[i] # 0 /\ a = i + 1
      <3>1. b # i + 1 /\ b # i /\ i < b
        BY <1>7, <2>1, <2>3
      <3>2. paths'[a] = paths[i] /\ paths'[b] = paths[b]
        BY <1>6, <2>3, <3>1
      <3> QED BY <1>1, <3>1, <3>2
    <2>4. CASE paths[i] # 0 /\ b = i + 1
      <3>1. a # i
        BY <1>5, <1>6, <1>7, <2>4
      <3>2. a < i /\ a # i + 1
        BY <1>7, <2>1, <2>4, <3>1
      <3>3. paths'[a] = paths[a] /\ paths'[b] = paths[i]
        BY <1>6, <2>4, <3>1, <3>2
      <3> QED BY <1>1, <3>2, <3>3
    <2>5. CASE paths[i] # 0 /\ a # i + 1 /\ b # i + 1
      <3>1. paths'[a] = paths[a] /\ paths'[b] = paths[b]
        BY <1>6, <1>7, <2>5
      <3> QED BY <1>7, <3>1
    <2> QED BY <2>2, <2>3, <2>4, <2>5
  <1>8. shifting' \in Kept \cup {Settled} /\ shifting' # MaxLogBackups
    BY <1>1, <1>2, KeptFacts
  <1>9. logSize' \in 0..MaxLogged
    BY <1>2, NodeParameters
  <1> QED BY <1>2, <1>3, <1>4, <1>6, <1>7, <1>8, <1>9, PathsKeep, SMTT(30)

LEMMA ClearingKeeps ==
  ASSUME LogInv, NEW c \in ClearReqs, Requests!invalidate(c) \/ Requests!handleFlushLogs(c)
  PROVE  LogInv'
  <1>1. /\ paths \in [Kept -> 0..Len(files)] /\ Len(files) \in Nat /\ exposed \subseteq 0..Len(files)
        /\ flushing \in [ClearReqs -> Kept \cup {Settled}] /\ logSize \in 0..MaxLogged
        /\ shifting \in Kept \cup {Settled} /\ shifting # MaxLogBackups
    BY DEF LogInv, WriterTyped, EntriesInOrder
  <1>2. CASE Requests!invalidate(c)
    <2>1. /\ handle' = 0 /\ logSize' \in {logSize, 0} /\ flushing' = [flushing EXCEPT ![c] = 1]
          /\ UNCHANGED <<logged, channel, paths, files, shifting, exposed>>
      BY <1>2 DEF Requests!invalidate, Requests!NoFile
    <2>2. EntriesInOrder'
      BY <2>1, EntriesKept DEF LogInv
    <2>3. flushing' \in [ClearReqs -> Kept \cup {Settled}]
      BY <1>1, <2>1, KeptFacts
    <2>4. logSize' \in 0..MaxLogged
      BY <1>1, <2>1, NodeParameters
    <2> QED BY <1>1, <2>1, <2>2, <2>3, <2>4, PathsKeep
  <1>3. CASE Requests!handleFlushLogs(c)
    <2>1. PICK i \in Kept : i = flushing[c]
      BY <1>1, <1>3 DEF Requests!handleFlushLogs, Requests!Settled, Settled
    <2>2. /\ paths' = [paths EXCEPT ![i] = 0]
          /\ flushing' = [flushing EXCEPT ![c] =
               IF i = 0 THEN Settled ELSE IF i = MaxLogBackups THEN 0 ELSE i + 1]
          /\ UNCHANGED <<logged, channel, files, handle, logSize, shifting, exposed>>
      BY <1>3, <2>1 DEF Requests!handleFlushLogs, Requests!NoFile, Requests!Settled, Settled
    <2>3. Requests!Clearing
      BY <1>3 DEF Requests!handleFlushLogs, Requests!Clearing
    <2>4. EntriesInOrder'
      BY <2>2, EntriesKept DEF LogInv
    <2>5. flushing' \in [ClearReqs -> Kept \cup {Settled}]
      <3>1. (IF i = 0 THEN Settled ELSE IF i = MaxLogBackups THEN 0 ELSE i + 1) \in Kept \cup {Settled}
        BY KeptFacts
      <3> QED BY <1>1, <2>2, <3>1
    <2>6. paths' \in [Kept -> 0..Len(files)] /\ \A j \in Kept : paths'[j] \in {paths[j], 0}
      BY <1>1, <2>2
    <2>7. handle # 0 => handle \in exposed
      BY <2>3 DEF LogInv, OpenIsListed
    <2>8. \A a, b \in Kept : a < b /\ paths'[a] # 0 /\ paths'[b] # 0 =>
            \E k, l \in Kept : k < l /\ paths[k] = paths'[a] /\ paths[l] = paths'[b]
      BY <2>6
    <2> QED BY <1>1, <2>2, <2>4, <2>5, <2>6, <2>7, <2>8, PathsKeep
  <1> QED BY <1>2, <1>3

LEMMA RemovingKeeps == ASSUME LogInv, Requests!DirectoryIsRemoved PROVE LogInv'
  <1>1. /\ paths' = [i \in Kept |-> 0] /\ exposed' = exposed \cup {handle}
        /\ UNCHANGED <<logged, channel, files, handle, logSize, shifting, flushing>>
    BY LogNames DEF Requests!DirectoryIsRemoved
  <1>2. /\ Len(files) \in Nat /\ exposed \subseteq 0..Len(files) /\ handle \in 0..Len(files)
        /\ flushing \in [ClearReqs -> Kept \cup {Settled}] /\ logSize \in 0..MaxLogged
        /\ shifting \in Kept \cup {Settled} /\ shifting # MaxLogBackups
    BY DEF LogInv, WriterTyped, EntriesInOrder
  <1>3. EntriesInOrder'
    BY <1>1, EntriesKept DEF LogInv
  <1>4. paths' \in [Kept -> 0..Len(files)] /\ \A j \in Kept : paths'[j] = 0
    BY <1>1, <1>2
  <1> QED BY <1>1, <1>2, <1>3, <1>4, PathsKeep

LEMMA StopKeeps == ASSUME LogInv, Requests!Stop PROVE LogInv'
  <1>1. /\ channel' = <<>> /\ handle' = 0 /\ logSize' = 0 /\ shifting' = Settled
        /\ flushing' = [c \in ClearReqs |-> Settled] /\ UNCHANGED <<logged, paths, files, exposed>>
    BY LogNames DEF Requests!Stop
  <1>2. /\ Len(files) \in Nat /\ exposed \subseteq 0..Len(files) /\ paths \in [Kept -> 0..Len(files)]
    BY DEF LogInv, WriterTyped, EntriesInOrder
  <1>3. EntriesInOrder'
    <2>1. /\ channel' \in Seq(Nat) /\ Len(channel') = 0 /\ 0 <= ChanSize
          /\ \A a \in 1..Len(channel') : FALSE
      BY <1>1, NodeParameters
    <2> QED BY <1>1, <2>1, SMTT(30) DEF LogInv, EntriesInOrder, Ordered, Rising, Before
  <1>4. shifting' \in Kept \cup {Settled} /\ shifting' # MaxLogBackups /\ logSize' \in 0..MaxLogged
        /\ flushing' \in [ClearReqs -> Kept \cup {Settled}]
    BY <1>1, NodeParameters DEF Settled
  <1> QED BY <1>1, <1>2, <1>3, <1>4, PathsKeep

LEMMA LogKeeps == LogInv /\ Requests!LogNext => LogInv'
  BY LoggingKeeps, WriteKeeps, WriteFailsKeeps, RotateKeeps, ClearingKeeps, RemovingKeeps, StopKeeps
  DEF Requests!LogNext, Requests!clientRequestLoggerMiddleware, Requests!projectLogger

LEMMA LogSays ==
  LogInv => Requests!LogTypeOK /\ Requests!WrittenIsListed /\ Requests!LogIsInOrder
  <1> SUFFICES ASSUME LogInv
               PROVE  Requests!LogTypeOK /\ Requests!WrittenIsListed /\ Requests!LogIsInOrder
    OBVIOUS
  <1>1. Requests!LogTypeOK
    <2>1. \A i \in Kept \cup {Settled} : i \in 0..Settled
      BY NodeParameters DEF Kept, Settled
    <2>2. flushing \in [ClearReqs -> 0..Settled] /\ shifting \in 0..Settled
      BY <2>1 DEF LogInv, WriterTyped
    <2> QED BY <2>2, LogNames DEF LogInv, WriterTyped, EntriesInOrder, Requests!LogTypeOK
  <1>2. Requests!WrittenIsListed
    BY DEF LogInv, OpenIsListed, Requests!WrittenIsListed, Requests!NoFile
  <1>3. Requests!LogIsInOrder
    <2>1. ASSUME NEW i \in Kept
          PROVE  /\ paths[i] = 0 => Requests!Entries(i) = <<>>
                 /\ paths[i] # 0 => /\ Requests!Entries(i) = files[paths[i]] /\ Ordered(files[paths[i]])
      <3>1. paths[i] # 0 => paths[i] \in 1..Len(files)
        BY DEF LogInv, WriterTyped, EntriesInOrder
      <3> QED BY <3>1 DEF LogInv, EntriesInOrder, Requests!Entries, Requests!NoFile
    <2>2. ASSUME NEW i \in Kept, NEW a \in DOMAIN Requests!Entries(i), NEW b \in DOMAIN Requests!Entries(i), a < b
          PROVE  Requests!Entries(i)[a] < Requests!Entries(i)[b]
      <3>1. paths[i] # 0
        BY <2>1, <2>2
      <3>2. /\ Requests!Entries(i) = files[paths[i]] /\ files[paths[i]] \in Seq(Nat)
            /\ Rising(files[paths[i]])
        BY <2>1, <3>1 DEF Ordered
      <3>3. a \in 1..Len(files[paths[i]]) /\ b \in 1..Len(files[paths[i]])
        BY <2>2, <3>2, SeqFacts
      <3> QED BY <2>2, <3>2, <3>3 DEF Rising
    <2>3. ASSUME NEW i \in Kept, NEW j \in Kept, i < j,
                 NEW a \in DOMAIN Requests!Entries(i), NEW b \in DOMAIN Requests!Entries(j)
          PROVE  Requests!Entries(j)[b] < Requests!Entries(i)[a]
      <3>1. paths[i] # 0 /\ paths[j] # 0
        BY <2>1, <2>3
      <3>2. Before(files[paths[j]], files[paths[i]])
        BY <2>3, <3>1 DEF LogInv, PathsInOrder
      <3>3. a \in 1..Len(files[paths[i]]) /\ b \in 1..Len(files[paths[j]])
        BY <2>1, <2>3, <3>1, SMTT(30) DEF Ordered
      <3> QED BY <2>1, <3>1, <3>2, <3>3 DEF Before
    <2> QED BY <2>2, <2>3, LogNames DEF Requests!LogIsInOrder
  <1> QED BY <1>1, <1>2, <1>3

------------------------------------------------------------------------------
(* Backups.                                                                    *)

Names == 1..MaxSeconds
Makers == Timers \cup Consoles
States == 0..MaxChanges
SavedBackup == [there : BOOLEAN, master : SUBSET (SavedProjects \cup {"_master"}),
                parts : [SavedProjects -> States \X States]]
MakerState == [pc : {"rest", "master", "projects", "copy"}, name : 0..MaxSeconds,
               listed : SUBSET SavedProjects, todo : SUBSET SavedProjects,
               half : SavedProjects \cup {"none"}]
Completed == [name : Names, listed : SUBSET SavedProjects]

BackupsTyped ==
  /\ second \in Names /\ live \in [SavedProjects -> -1..MaxChanges]
  /\ saved \in [Names -> SavedBackup] /\ making \in [Makers -> MakerState]
  /\ finished \subseteq Completed /\ since \in [Names -> [SavedProjects -> Int]]
  /\ mixed \subseteq Names /\ unopened \subseteq Names \X SavedProjects

(* A backup is there while nobody deleted it, and one maker at most works on   *)
(* it, none once it was completed; but for those named in mixed.               *)
BackupsAreOwn ==
  /\ \A m \in Makers :
       /\ making[m].todo \subseteq making[m].listed
       /\ making[m].name <= second
       /\ making[m].pc # "rest" => making[m].name # 0
       /\ making[m].name # 0 /\ making[m].name \notin mixed => saved[making[m].name].there
       /\ making[m].pc = "master" => making[m].todo = making[m].listed
  /\ \A f \in finished : f.name \notin mixed => saved[f.name].there
  /\ \A m, k \in Makers : m # k /\ making[m].pc # "rest" /\ making[k].pc # "rest"
                          /\ making[m].name = making[k].name => making[m].name \in mixed
  /\ \A m \in Makers, f \in finished :
       making[m].pc # "rest" /\ making[m].name = f.name => f.name \in mixed

(* The checkpoint of the master is not younger than the projects are.          *)
MasterIsOlder == \A n \in Names, p \in SavedProjects : live[p] = -1 \/ since[n][p] <= live[p]

IsWhole(n, p) ==
  LET part == saved[n].parts[p]
  IN <<n, p>> \in unopened \/ (part[1] = part[2] /\ part[1] >= since[n][p] /\ part[1] > 0)

(* What a maker has done, and what was completed, is whole.                    *)
DoneIsWhole ==
  /\ \A m \in Makers : making[m].pc = "projects" /\ making[m].name \notin mixed =>
       \A p \in (making[m].listed \ making[m].todo) \cap saved[making[m].name].master :
         IsWhole(making[m].name, p)
  /\ \A f \in finished : f.name \notin mixed =>
       \A p \in f.listed \cap saved[f.name].master : IsWhole(f.name, p)

BackupInv == BackupsTyped /\ BackupsAreOwn /\ MasterIsOlder /\ DoneIsWhole

LEMMA BackupNames == Copies!Names = Names /\ Copies!Makers = Makers /\ Copies!Gone = -1
  BY DEF Copies!Names, Names, Copies!Makers, Makers, Copies!Gone

LEMMA NameFacts ==
  /\ MaxSeconds \in Nat /\ MaxChanges \in Nat /\ Names \subseteq Nat /\ 1 \in Names
  /\ \A n \in Names : n # 0 /\ n \in 0..MaxSeconds
  /\ \A n \in 0..MaxSeconds : n # 0 => n \in Names
  /\ 0 \in States /\ \A x \in -1..MaxChanges : x > 0 => x \in States
  BY NodeParameters DEF Names, States

LEMMA NothingIsKept ==
  /\ Copies!NoBackup \in SavedBackup /\ Copies!NoBackup.master = {} /\ Copies!NoBackup.there = FALSE
  /\ Copies!Still \in MakerState /\ Copies!Still.pc = "rest" /\ Copies!Still.name = 0
  /\ Copies!Still.listed = {} /\ Copies!Still.todo = {}
  /\ Copies!None \in [SavedProjects -> Int] /\ \A p \in SavedProjects : Copies!None[p] = 0
  <1>1. [p \in SavedProjects |-> <<0, 0>>] \in [SavedProjects -> States \X States]
    BY NameFacts
  <1>2. Copies!NoBackup \in SavedBackup /\ Copies!NoBackup.master = {} /\ Copies!NoBackup.there = FALSE
    BY <1>1 DEF Copies!NoBackup, SavedBackup
  <1>3. Copies!Still \in MakerState /\ Copies!Still.pc = "rest" /\ Copies!Still.name = 0
        /\ Copies!Still.listed = {} /\ Copies!Still.todo = {}
    BY NameFacts DEF Copies!Still, MakerState
  <1>4. Copies!None \in [SavedProjects -> Int] /\ \A p \in SavedProjects : Copies!None[p] = 0
    BY DEF Copies!None
  <1> QED BY <1>2, <1>3, <1>4

LEMMA BackupStart == Copies!BackupInit => BackupInv
  <1> SUFFICES ASSUME Copies!BackupInit PROVE BackupInv
    OBVIOUS
  <1>1. /\ second = 1 /\ live \in [SavedProjects -> {0, 1}]
        /\ saved = [n \in Names |-> Copies!NoBackup] /\ making = [m \in Makers |-> Copies!Still]
        /\ finished = {} /\ since = [n \in Names |-> Copies!None] /\ unopened = {} /\ mixed = {}
    BY BackupNames DEF Copies!BackupInit
  <1>2. BackupsTyped
    <2>1. live \in [SavedProjects -> -1..MaxChanges]
      <3>1. 0 \in -1..MaxChanges /\ 1 \in -1..MaxChanges
        BY NodeParameters
      <3> QED BY <1>1, <3>1
    <2> QED BY <1>1, <2>1, NameFacts, NothingIsKept DEF BackupsTyped
  <1>3. BackupsAreOwn
    BY <1>1, NothingIsKept DEF BackupsAreOwn
  <1>4. MasterIsOlder
    <2>1. \A p \in SavedProjects : live[p] \in {0, 1}
      BY <1>1
    <2> QED BY <1>1, <2>1, NothingIsKept DEF MasterIsOlder
  <1>5. DoneIsWhole
    BY <1>1, NothingIsKept DEF DoneIsWhole
  <1> QED BY <1>2, <1>3, <1>4, <1>5 DEF BackupInv

(* The clock ticks and the files of projects change or go, which no backup     *)
(* notices.                                                                    *)
LEMMA FilesKeep ==
  ASSUME BackupInv, second' \in Names, second <= second', live' \in [SavedProjects -> -1..MaxChanges],
         \A p \in SavedProjects : live'[p] = -1 \/ (live[p] # -1 /\ live[p] <= live'[p]),
         UNCHANGED <<saved, making, finished, since, unopened, mixed>>
  PROVE  BackupInv'
  <1>1. BackupsTyped'
    BY DEF BackupInv, BackupsTyped
  <1>2. BackupsAreOwn'
    <2>1. \A m \in Makers : making[m].name <= second'
      <3>1. \A m \in Makers : making[m] \in MakerState
        BY DEF BackupInv, BackupsTyped
      <3>2. \A m \in Makers : making[m].name \in 0..MaxSeconds /\ making[m].name <= second
        BY <3>1 DEF BackupInv, BackupsAreOwn, MakerState
      <3>3. second \in Nat /\ second' \in Nat /\ \A m \in Makers : making[m].name \in Nat
        BY <3>2, NameFacts DEF BackupInv, BackupsTyped
      <3> QED BY <3>2, <3>3
    <2> QED BY <2>1 DEF BackupInv, BackupsAreOwn
  <1>3. MasterIsOlder'
    <2> SUFFICES ASSUME NEW n \in Names, NEW p \in SavedProjects, live'[p] # -1
                 PROVE  since[n][p] <= live'[p]
      BY DEF MasterIsOlder
    <2>1. since[n][p] \in Int /\ live[p] \in Int /\ live'[p] \in Int
      BY DEF BackupInv, BackupsTyped
    <2>2. since[n][p] <= live[p] /\ live[p] <= live'[p]
      BY DEF BackupInv, MasterIsOlder
    <2> QED BY <2>1, <2>2
  <1>4. DoneIsWhole'
    <2>1. \A n, p : IsWhole(n, p)' <=> IsWhole(n, p)
      BY DEF IsWhole
    <2>2. DoneIsWhole /\ UNCHANGED <<saved, making, finished, mixed>>
      BY DEF BackupInv
    <2> QED BY <2>1, <2>2, ZenonT(40) DEF DoneIsWhole
  <1> QED BY <1>1, <1>2, <1>3, <1>4 DEF BackupInv

LEMMA ClockKeeps == ASSUME BackupInv, Copies!ClockTicks PROVE BackupInv'
  <1>1. /\ second < MaxSeconds /\ second' = second + 1
        /\ UNCHANGED <<live, saved, making, finished, since, unopened, mixed>>
    BY DEF Copies!ClockTicks
  <1>2. second \in Names /\ live \in [SavedProjects -> -1..MaxChanges]
    BY DEF BackupInv, BackupsTyped
  <1>3. second' \in Names /\ second <= second'
    BY <1>1, <1>2, NodeParameters DEF Names
  <1>4. \A p \in SavedProjects : live'[p] = -1 \/ (live[p] # -1 /\ live[p] <= live'[p])
    BY <1>1, <1>2
  <1> QED BY <1>1, <1>2, <1>3, <1>4, FilesKeep

LEMMA FilesChangeKeeps ==
  ASSUME BackupInv, NEW p \in SavedProjects, Copies!FilesChange(p) \/ Copies!ProjectIsDeleted(p)
  PROVE  BackupInv'
  <1>1. /\ \/ live' = [live EXCEPT ![p] = live[p] + 1] /\ live[p] \in 0..(MaxChanges - 1)
           \/ live' = [live EXCEPT ![p] = -1]
        /\ UNCHANGED <<second, saved, making, finished, since, unopened, mixed>>
    BY DEF Copies!FilesChange, Copies!ProjectIsDeleted, Copies!Gone
  <1>2. second \in Names /\ live \in [SavedProjects -> -1..MaxChanges]
    BY DEF BackupInv, BackupsTyped
  <1>3. live' \in [SavedProjects -> -1..MaxChanges]
    <2>1. live[p] \in 0..(MaxChanges - 1) => live[p] + 1 \in -1..MaxChanges
      BY NodeParameters
    <2>2. -1 \in -1..MaxChanges
      BY NodeParameters
    <2> QED BY <1>1, <1>2, <2>1, <2>2
  <1>4. \A q \in SavedProjects : live'[q] = -1 \/ (live[q] # -1 /\ live[q] <= live'[q])
    <2> SUFFICES ASSUME NEW q \in SavedProjects PROVE live'[q] = -1 \/ (live[q] # -1 /\ live[q] <= live'[q])
      OBVIOUS
    <2>1. live[q] \in Int
      BY <1>2
    <2>2. q # p => live'[q] = live[q]
      BY <1>1, <1>2
    <2>3. live'[p] = -1 \/ (live[p] \in 0..(MaxChanges - 1) /\ live'[p] = live[p] + 1)
      BY <1>1, <1>2
    <2> QED BY <2>1, <2>2, <2>3, NodeParameters
  <1>5. second' \in Names /\ second <= second'
    BY <1>1, <1>2, NameFacts
  <1> QED BY <1>1, <1>3, <1>4, <1>5, FilesKeep

(* A step of a maker that is at work: it touches no backup but its own.        *)
LEMMA MakerKeeps ==
  ASSUME BackupInv, NEW m \in Makers, NEW n \in Names,
         making[m].pc # "rest", n = making[m].name,
         making' \in [Makers -> MakerState], \A k \in Makers : k # m => making'[k] = making[k],
         making'[m].name = n, making'[m].todo \subseteq making'[m].listed,
         making'[m].pc # "master" \/ making'[m].todo = making'[m].listed,
         saved' \in [Names -> SavedBackup], \A k \in Names : k # n => saved'[k] = saved[k],
         saved'[n].there \/ saved' = saved,
         since' \in [Names -> [SavedProjects -> Int]], \A k \in Names : k # n => since'[k] = since[k],
         since' = since \/ since'[n] = live,
         unopened \subseteq unopened', unopened' \subseteq Names \X SavedProjects,
         finished \subseteq finished', finished' \subseteq Completed,
         \A f \in finished' : f \in finished \/ (f.name = n /\ making'[m].pc = "rest"),
         making'[m].pc = "projects" /\ n \notin mixed =>
           \A p \in (making'[m].listed \ making'[m].todo) \cap saved'[n].master : IsWhole(n, p)',
         \A f \in finished' : f \in finished \/ n \in mixed \/
           \A p \in f.listed \cap saved'[n].master : IsWhole(n, p)',
         UNCHANGED <<second, live, mixed>>
  PROVE  BackupInv'
  <1>1. BackupsTyped'
    BY DEF BackupInv, BackupsTyped
  <1>2. /\ \A k \in Makers : making[k] \in MakerState /\ making[k].name \in 0..MaxSeconds
        /\ \A f \in finished' : f.name \in Names
        /\ \A k \in Makers : making[k].pc # "rest" => making[k].name # 0
    BY DEF BackupInv, BackupsTyped, BackupsAreOwn, MakerState, Completed
  <1>3. n \notin mixed => saved[n].there
    BY NameFacts DEF BackupInv, BackupsAreOwn
  <1>4. \A k \in Makers : k # m /\ making[k].pc # "rest" /\ making[k].name = n => n \in mixed
    BY DEF BackupInv, BackupsAreOwn
  <1>5. \A f \in finished : f.name = n => n \in mixed
    BY DEF BackupInv, BackupsAreOwn
  <1>6. BackupsAreOwn'
    <2>1. ASSUME NEW k \in Makers
          PROVE  /\ making'[k].todo \subseteq making'[k].listed
                 /\ making'[k].name <= second'
                 /\ making'[k].pc # "rest" => making'[k].name # 0
                 /\ making'[k].name # 0 /\ making'[k].name \notin mixed' => saved'[making'[k].name].there
                 /\ making'[k].pc = "master" => making'[k].todo = making'[k].listed
      <3>1. CASE k = m
        <4>1. n <= second
          BY DEF BackupInv, BackupsAreOwn
        <4> QED BY <1>3, <3>1, <4>1, NameFacts
      <3>2. CASE k # m
        <4>1. making'[k] = making[k]
          BY <3>2
        <4>2. /\ making[k].todo \subseteq making[k].listed /\ making[k].name <= second
              /\ making[k].pc # "rest" => making[k].name # 0
              /\ making[k].name # 0 /\ making[k].name \notin mixed => saved[making[k].name].there
              /\ making[k].pc = "master" => making[k].todo = making[k].listed
          BY DEF BackupInv, BackupsAreOwn
        <4>3. making[k].name # 0 /\ making[k].name \notin mixed => saved'[making[k].name].there
          BY <1>2, <1>3, <4>2, NameFacts
        <4> QED BY <4>1, <4>2, <4>3
      <3> QED BY <3>1, <3>2
    <2>2. ASSUME NEW f \in finished', f.name \notin mixed' PROVE saved'[f.name].there
      <3>1. CASE f.name = n
        BY <1>3, <2>2, <3>1
      <3>2. CASE f.name # n
        <4>1. f \in finished /\ saved'[f.name] = saved[f.name]
          BY <1>2, <3>2
        <4> QED BY <2>2, <4>1 DEF BackupInv, BackupsAreOwn
      <3> QED BY <3>1, <3>2
    <2>3. ASSUME NEW a \in Makers, NEW b \in Makers, a # b, making'[a].pc # "rest", making'[b].pc # "rest",
                 making'[a].name = making'[b].name
          PROVE  making'[a].name \in mixed'
      <3>1. CASE a = m
        BY <1>4, <2>3, <3>1
      <3>2. CASE b = m
        BY <1>4, <2>3, <3>2
      <3>3. CASE a # m /\ b # m
        BY <2>3, <3>3 DEF BackupInv, BackupsAreOwn
      <3> QED BY <3>1, <3>2, <3>3
    <2>4. ASSUME NEW k \in Makers, NEW f \in finished', making'[k].pc # "rest", making'[k].name = f.name
          PROVE  f.name \in mixed'
      <3>1. CASE k = m
        BY <1>5, <2>4, <3>1
      <3>2. CASE k # m /\ f \in finished
        BY <2>4, <3>2 DEF BackupInv, BackupsAreOwn
      <3>3. CASE k # m /\ f \notin finished
        BY <1>4, <2>4, <3>3
      <3> QED BY <3>1, <3>2, <3>3
    <2> QED BY <2>1, <2>2, <2>3, <2>4 DEF BackupsAreOwn
  <1>7. MasterIsOlder'
    <2> SUFFICES ASSUME NEW k \in Names, NEW p \in SavedProjects, live[p] # -1 PROVE since'[k][p] <= live[p]
      BY DEF MasterIsOlder
    <2>1. since[k][p] <= live[p] /\ live[p] \in Int
      BY DEF BackupInv, MasterIsOlder, BackupsTyped
    <2>2. CASE since' = since \/ k # n
      BY <2>1, <2>2
    <2>3. CASE since'[n] = live /\ k = n
      BY <2>1, <2>3
    <2> QED BY <2>2, <2>3
  <1>8. DoneIsWhole'
    <2>1. ASSUME NEW k \in Names, k # n, NEW p \in SavedProjects, IsWhole(k, p) PROVE IsWhole(k, p)'
      <3>1. saved'[k] = saved[k] /\ since'[k] = since[k]
        BY <2>1
      <3> QED BY <2>1, <3>1 DEF IsWhole
    <2>2. ASSUME NEW k \in Makers, making'[k].pc = "projects", making'[k].name \notin mixed',
                 NEW x, x = making'[k].name,
                 NEW p \in (making'[k].listed \ making'[k].todo) \cap saved'[x].master
          PROVE  IsWhole(x, p)'
      <3>1. CASE k = m
        <4>1. x = n /\ n \notin mixed
          BY <2>2, <3>1
        <4> QED BY <2>2, <3>1, <4>1
      <3>2. CASE k # m
        <4>1. making'[k] = making[k] /\ x = making[k].name /\ x \in Names /\ x # n
          BY <1>2, <1>4, <2>2, <3>2, NameFacts
        <4>2. saved'[x] = saved[x]
          BY <4>1
        <4>3. p \in SavedProjects
          BY <1>2, <2>2, <4>1 DEF MakerState
        <4>4. IsWhole(x, p)
          BY <2>2, <4>1, <4>2 DEF BackupInv, DoneIsWhole
        <4> QED BY <2>1, <4>1, <4>3, <4>4
      <3> QED BY <3>1, <3>2
    <2>3. ASSUME NEW f \in finished', f.name \notin mixed', NEW p \in f.listed \cap saved'[f.name].master
          PROVE  IsWhole(f.name, p)'
      <3>1. CASE f.name = n
        <4>1. f \notin finished
          BY <1>5, <2>3, <3>1
        <4> QED BY <2>3, <3>1, <4>1
      <3>2. CASE f.name # n
        <4>1. f \in finished /\ f.name \in Names /\ saved'[f.name] = saved[f.name]
          BY <1>2, <3>2
        <4>2. p \in SavedProjects
          BY <2>3, <4>1 DEF BackupInv, BackupsTyped, Completed
        <4>3. IsWhole(f.name, p)
          BY <2>3, <4>1 DEF BackupInv, DoneIsWhole
        <4> QED BY <2>1, <3>2, <4>1, <4>2, <4>3
      <3> QED BY <3>1, <3>2
    <2> QED BY <2>2, <2>3 DEF DoneIsWhole, IsWhole
  <1> QED BY <1>1, <1>6, <1>7, <1>8 DEF BackupInv

(* What a maker at work is, before it makes a step.                            *)
LEMMA MakerFacts ==
  ASSUME BackupInv, NEW m \in Makers, making[m].pc # "rest"
  PROVE  /\ making[m] \in MakerState /\ making[m].name \in Names
         /\ making[m].todo \subseteq making[m].listed
         /\ making[m].pc \in {"rest", "master", "projects", "copy"}
         /\ making[m].listed \subseteq SavedProjects /\ making[m].half \in SavedProjects \cup {"none"}
         /\ making \in [Makers -> MakerState] /\ saved \in [Names -> SavedBackup]
         /\ saved[making[m].name] \in SavedBackup
         /\ saved[making[m].name].master \subseteq SavedProjects \cup {"_master"}
         /\ saved[making[m].name].parts \in [SavedProjects -> States \X States]
         /\ since \in [Names -> [SavedProjects -> Int]] /\ live \in [SavedProjects -> -1..MaxChanges]
         /\ finished \subseteq Completed /\ unopened \subseteq Names \X SavedProjects
  <1>1. /\ making \in [Makers -> MakerState] /\ saved \in [Names -> SavedBackup]
        /\ since \in [Names -> [SavedProjects -> Int]] /\ live \in [SavedProjects -> -1..MaxChanges]
        /\ finished \subseteq Completed /\ unopened \subseteq Names \X SavedProjects
        /\ making[m].todo \subseteq making[m].listed /\ making[m].name # 0
    BY DEF BackupInv, BackupsTyped, BackupsAreOwn
  <1>2. making[m] \in MakerState
    BY <1>1
  <1>3. /\ making[m].pc \in {"rest", "master", "projects", "copy"} /\ making[m].name \in 0..MaxSeconds
        /\ making[m].listed \subseteq SavedProjects /\ making[m].half \in SavedProjects \cup {"none"}
    BY <1>2 DEF MakerState
  <1>4. making[m].name \in Names
    BY <1>1, <1>3, NameFacts
  <1>5. saved[making[m].name] \in SavedBackup
    BY <1>1, <1>4
  <1>6. /\ saved[making[m].name].master \subseteq SavedProjects \cup {"_master"}
        /\ saved[making[m].name].parts \in [SavedProjects -> States \X States]
    BY <1>5 DEF SavedBackup
  <1> QED BY <1>1, <1>2, <1>3, <1>4, <1>5, <1>6

(* A maker that ends, or fails, rests under the name of its backup.            *)
LEMMA EndingRests ==
  ASSUME BackupInv, NEW m \in Makers, making[m].pc # "rest", Copies!Ends(m)
  PROVE  /\ making' \in [Makers -> MakerState] /\ \A k \in Makers : k # m => making'[k] = making[k]
         /\ making'[m].pc = "rest" /\ making'[m].name = making[m].name
         /\ making'[m].todo = {} /\ making'[m].listed = {}
  <1>1. making[m].name \in 0..MaxSeconds /\ making \in [Makers -> MakerState]
    BY MakerFacts, NameFacts
  <1>2. PICK job : job = [Copies!Still EXCEPT !.name = making[m].name]
    OBVIOUS
  <1>3. job \in MakerState /\ job.pc = "rest" /\ job.name = making[m].name /\ job.todo = {} /\ job.listed = {}
    <2>1. job = [pc |-> "rest", name |-> making[m].name, listed |-> {}, todo |-> {}, half |-> "none"]
      BY <1>2 DEF Copies!Still
    <2> QED BY <1>1, <2>1 DEF MakerState
  <1>4. making' = [making EXCEPT ![m] = job]
    BY <1>2 DEF Copies!Ends
  <1> QED BY <1>1, <1>3, <1>4

LEMMA GoingGoes ==
  ASSUME BackupInv, NEW m \in Makers, making[m].pc # "rest", NEW pc \in {"rest", "master", "projects", "copy"},
         NEW todo \in SUBSET SavedProjects, Copies!Goes(m, pc, todo)
  PROVE  /\ making' \in [Makers -> MakerState] /\ \A k \in Makers : k # m => making'[k] = making[k]
         /\ making'[m].pc = pc /\ making'[m].name = making[m].name
         /\ making'[m].todo = todo /\ making'[m].listed = making[m].listed
  <1>1. making[m] \in MakerState /\ making \in [Makers -> MakerState]
    BY MakerFacts
  <1>2. PICK job : job = [making[m] EXCEPT !.pc = pc, !.todo = todo]
    OBVIOUS
  <1>3. job \in MakerState
    BY <1>1, <1>2 DEF MakerState
  <1>4. job.pc = pc /\ job.name = making[m].name /\ job.todo = todo /\ job.listed = making[m].listed
    BY <1>1, <1>2 DEF MakerState
  <1>5. making' = [making EXCEPT ![m] = job]
    BY <1>1, <1>2 DEF Copies!Goes
  <1> QED BY <1>1, <1>3, <1>4, <1>5

(* A maker begins: it shares its second with another only if the backup is     *)
(* there, which mixes the two.                                                 *)
LEMMA BeginsKeeps ==
  ASSUME BackupInv, NEW m \in Makers, NEW pc \in {"master", "copy"}, Copies!Begins(m, pc)
  PROVE  BackupInv'
  <1>1. /\ making[m].pc = "rest" /\ making[m].name < second
        /\ making' = [making EXCEPT ![m] =
             [pc |-> pc, name |-> second, listed |-> Copies!Existing, todo |-> Copies!Existing, half |-> "none"]]
        /\ saved' = [saved EXCEPT ![second].there = TRUE]
        /\ mixed' = IF saved[second].there THEN mixed \cup {second} ELSE mixed
        /\ UNCHANGED <<second, live, finished, since, unopened>>
    BY DEF Copies!Begins
  <1>2. /\ second \in Names /\ making \in [Makers -> MakerState] /\ saved \in [Names -> SavedBackup]
        /\ mixed \subseteq Names /\ finished \subseteq Completed
    BY DEF BackupInv, BackupsTyped
  <1>3. PICK n \in Names : n = second
    BY <1>2
  <1>4. PICK old \in SUBSET SavedProjects : old = Copies!Existing
    BY DEF Copies!Existing
  <1>5. PICK job : job = [pc |-> pc, name |-> n, listed |-> old, todo |-> old, half |-> "none"]
    OBVIOUS
  <1>6. job \in MakerState
    BY <1>5, NameFacts DEF MakerState
  <1>7. PICK b : b = [saved[n] EXCEPT !.there = TRUE]
    OBVIOUS
  <1>8. saved[n] \in SavedBackup
    BY <1>2
  <1>9. b \in SavedBackup /\ b.there /\ b.master = saved[n].master /\ b.parts = saved[n].parts
    BY <1>7, <1>8 DEF SavedBackup
  <1>10. making' = [making EXCEPT ![m] = job] /\ saved' = [saved EXCEPT ![n] = b]
    BY <1>1, <1>3, <1>4, <1>5, <1>7
  <1>11. /\ making' \in [Makers -> MakerState] /\ making'[m] = job
         /\ \A k \in Makers : k # m => making'[k] = making[k]
         /\ saved' \in [Names -> SavedBackup] /\ saved'[n] = b
         /\ \A k \in Names : k # n => saved'[k] = saved[k]
    BY <1>2, <1>6, <1>9, <1>10
  <1>12. /\ mixed \subseteq mixed' /\ mixed' \subseteq Names
         /\ saved[n].there => n \in mixed'
    BY <1>1, <1>2, <1>3
  <1>13. /\ \A k \in Makers : making[k].name = n => n \in mixed'
         /\ \A f \in finished : f.name = n => n \in mixed'
    BY <1>12, NameFacts DEF BackupInv, BackupsAreOwn
  <1>14. \A k \in Names : /\ saved'[k].master = saved[k].master /\ saved'[k].parts = saved[k].parts
                          /\ saved[k].there => saved'[k].there
    BY <1>9, <1>11
  <1>15. /\ \A k \in Makers : making[k].name \in 0..MaxSeconds
         /\ \A f \in finished : f.name \in Names /\ f.listed \subseteq SavedProjects
    BY <1>2 DEF MakerState, Completed
  <1>16. BackupsTyped'
    BY <1>1, <1>11, <1>12 DEF BackupInv, BackupsTyped
  <1>17. BackupsAreOwn'
    <2>1. ASSUME NEW k \in Makers
          PROVE  /\ making'[k].todo \subseteq making'[k].listed
                 /\ making'[k].name <= second'
                 /\ making'[k].pc # "rest" => making'[k].name # 0
                 /\ making'[k].name # 0 /\ making'[k].name \notin mixed' => saved'[making'[k].name].there
                 /\ making'[k].pc = "master" => making'[k].todo = making'[k].listed
      <3>1. CASE k = m
        <4>1. making'[k] = job
          BY <1>11, <3>1
        <4>2. job.todo = old /\ job.listed = old /\ job.name = n
          BY <1>5
        <4>3. n <= second' /\ n # 0 /\ saved'[n].there
          BY <1>1, <1>3, <1>9, <1>11, NameFacts
        <4> QED BY <4>1, <4>2, <4>3
      <3>2. CASE k # m
        <4>1. making'[k] = making[k]
          BY <1>11, <3>2
        <4>2. /\ making[k].todo \subseteq making[k].listed /\ making[k].name <= second
              /\ making[k].pc # "rest" => making[k].name # 0
              /\ making[k].name # 0 /\ making[k].name \notin mixed => saved[making[k].name].there
              /\ making[k].pc = "master" => making[k].todo = making[k].listed
          BY DEF BackupInv, BackupsAreOwn
        <4>3. making[k].name # 0 /\ making[k].name \notin mixed' => saved'[making[k].name].there
          BY <1>12, <1>14, <1>15, <4>2, NameFacts
        <4> QED BY <1>1, <4>1, <4>2, <4>3
      <3> QED BY <3>1, <3>2
    <2>2. ASSUME NEW f \in finished', f.name \notin mixed' PROVE saved'[f.name].there
      <3>1. f \in finished /\ f.name \in Names /\ f.name \notin mixed
        BY <1>1, <1>12, <1>15, <2>2
      <3>2. saved[f.name].there
        BY <3>1 DEF BackupInv, BackupsAreOwn
      <3> QED BY <1>14, <3>1, <3>2
    <2>3. ASSUME NEW k \in Makers, NEW l \in Makers, k # l, making'[k].pc # "rest", making'[l].pc # "rest",
                 making'[k].name = making'[l].name
          PROVE  making'[k].name \in mixed'
      <3>0. job.name = n
        BY <1>5
      <3>1. CASE k = m
        BY <1>11, <1>13, <2>3, <3>0, <3>1
      <3>2. CASE l = m
        BY <1>11, <1>13, <2>3, <3>0, <3>2
      <3>3. CASE k # m /\ l # m
        <4>1. making[k].name \in mixed
          BY <1>11, <2>3, <3>3 DEF BackupInv, BackupsAreOwn
        <4> QED BY <1>11, <1>12, <3>3, <4>1
      <3> QED BY <3>1, <3>2, <3>3
    <2>4. ASSUME NEW k \in Makers, NEW f \in finished', making'[k].pc # "rest", making'[k].name = f.name
          PROVE  f.name \in mixed'
      <3>0. job.name = n /\ f \in finished
        BY <1>1, <1>5
      <3>1. CASE k = m
        BY <1>11, <1>13, <2>4, <3>0, <3>1
      <3>2. CASE k # m
        <4>1. f.name \in mixed
          BY <1>11, <2>4, <3>0, <3>2 DEF BackupInv, BackupsAreOwn
        <4> QED BY <1>12, <4>1
      <3> QED BY <3>1, <3>2
    <2> QED BY <2>1, <2>2, <2>3, <2>4 DEF BackupsAreOwn
  <1>18. MasterIsOlder'
    BY <1>1 DEF BackupInv, MasterIsOlder
  <1>19. DoneIsWhole'
    <2>1. ASSUME NEW k \in Names, NEW p \in SavedProjects, IsWhole(k, p) PROVE IsWhole(k, p)'
      BY <1>1, <1>14, <2>1 DEF IsWhole
    <2>2. ASSUME NEW k \in Makers, making'[k].pc = "projects", making'[k].name \notin mixed',
                 NEW x, x = making'[k].name,
                 NEW p \in (making'[k].listed \ making'[k].todo) \cap saved'[x].master
          PROVE  IsWhole(x, p)'
      <3>1. k # m
        BY <1>5, <1>11, <2>2
      <3>2. making'[k] = making[k] /\ making[k] \in MakerState
        BY <1>2, <1>11, <3>1
      <3>3. x \in Names /\ p \in SavedProjects
        BY <1>15, <2>2, <3>2, NameFacts DEF BackupInv, BackupsAreOwn, MakerState
      <3>4. saved'[x].master = saved[x].master
        BY <1>14, <3>3
      <3>5. IsWhole(x, p)
        BY <1>12, <2>2, <3>2, <3>4 DEF BackupInv, DoneIsWhole
      <3> QED BY <2>1, <3>3, <3>5
    <2>3. ASSUME NEW f \in finished', f.name \notin mixed', NEW p \in f.listed \cap saved'[f.name].master
          PROVE  IsWhole(f.name, p)'
      <3>1. f \in finished /\ f.name \in Names /\ p \in SavedProjects /\ f.name \notin mixed
        BY <1>1, <1>12, <1>15, <2>3
      <3>2. p \in f.listed \cap saved[f.name].master
        BY <1>14, <2>3, <3>1
      <3>3. IsWhole(f.name, p)
        BY <3>1, <3>2 DEF BackupInv, DoneIsWhole
      <3> QED BY <2>1, <3>1, <3>3
    <2> QED BY <2>2, <2>3 DEF DoneIsWhole, IsWhole
  <1> QED BY <1>16, <1>17, <1>18, <1>19 DEF BackupInv

(* A maker fails, or ends without a result.                                    *)
LEMMA FailingKeeps ==
  ASSUME BackupInv, NEW m \in Makers, making[m].pc # "rest", Copies!Ends(m),
         UNCHANGED <<second, live, saved, finished, since, unopened, mixed>>
  PROVE  BackupInv'
  <1>1. PICK n \in Names : n = making[m].name
    BY MakerFacts
  <1>2. /\ making' \in [Makers -> MakerState] /\ \A k \in Makers : k # m => making'[k] = making[k]
        /\ making'[m].pc = "rest" /\ making'[m].name = n /\ making'[m].todo = {} /\ making'[m].listed = {}
    BY <1>1, EndingRests
  <1>3. /\ saved \in [Names -> SavedBackup] /\ since \in [Names -> [SavedProjects -> Int]]
        /\ unopened \subseteq Names \X SavedProjects /\ finished \subseteq Completed
    BY MakerFacts
  <1> QED BY <1>1, <1>2, <1>3, MakerKeeps

LEMMA CheckpointMasterKeeps ==
  ASSUME BackupInv, NEW m \in Makers, Copies!CheckpointMaster(m)
  PROVE  BackupInv'
  <1>1. PICK n \in Names : n = making[m].name
    BY MakerFacts DEF Copies!CheckpointMaster
  <1>2. /\ making[m].pc = "master" /\ UNCHANGED <<second, live, finished, unopened, mixed>>
        /\ \/ /\ saved' = [saved EXCEPT ![n].there = TRUE, ![n].master = Copies!Existing \cup {"_master"}]
              /\ since' = [since EXCEPT ![n] = live] /\ Copies!Goes(m, "projects", making[m].todo)
           \/ Copies!Ends(m) /\ UNCHANGED <<saved, since>>
    BY <1>1 DEF Copies!CheckpointMaster
  <1>3. CASE Copies!Ends(m) /\ UNCHANGED <<saved, since>>
    BY <1>2, <1>3, FailingKeeps
  <1>4. CASE /\ saved' = [saved EXCEPT ![n].there = TRUE, ![n].master = Copies!Existing \cup {"_master"}]
             /\ since' = [since EXCEPT ![n] = live] /\ Copies!Goes(m, "projects", making[m].todo)
    <2>1. /\ making[m].todo \in SUBSET SavedProjects /\ making[m].todo = making[m].listed
          /\ saved \in [Names -> SavedBackup] /\ saved[n] \in SavedBackup
          /\ since \in [Names -> [SavedProjects -> Int]] /\ live \in [SavedProjects -> -1..MaxChanges]
          /\ finished \subseteq Completed /\ unopened \subseteq Names \X SavedProjects
      BY <1>1, <1>2, MakerFacts DEF BackupInv, BackupsAreOwn
    <2>2. PICK todo \in SUBSET SavedProjects : todo = making[m].todo
      BY <2>1
    <2>3. /\ making' \in [Makers -> MakerState] /\ \A k \in Makers : k # m => making'[k] = making[k]
          /\ making'[m].pc = "projects" /\ making'[m].name = making[m].name
          /\ making'[m].todo = todo /\ making'[m].listed = making[m].listed
      BY <1>2, <1>4, <2>2, GoingGoes
    <2>4. PICK b : b = [saved[n] EXCEPT !.there = TRUE, !.master = Copies!Existing \cup {"_master"}]
      OBVIOUS
    <2>5. b \in SavedBackup /\ b.there
      <3>1. Copies!Existing \cup {"_master"} \in SUBSET (SavedProjects \cup {"_master"})
        BY DEF Copies!Existing
      <3> QED BY <2>1, <2>4, <3>1 DEF SavedBackup
    <2>6. saved' = [saved EXCEPT ![n] = b]
      BY <1>4, <2>1, <2>4
    <2>7. /\ saved' \in [Names -> SavedBackup] /\ \A k \in Names : k # n => saved'[k] = saved[k]
          /\ saved'[n].there
      BY <2>1, <2>5, <2>6
    <2>8. live \in [SavedProjects -> Int]
      BY <2>1
    <2>9. /\ since' \in [Names -> [SavedProjects -> Int]] /\ since'[n] = live
          /\ \A k \in Names : k # n => since'[k] = since[k]
      BY <1>4, <2>1, <2>8
    <2>10. making'[m].listed \ making'[m].todo = {}
      BY <2>1, <2>2, <2>3
    <2> QED BY <1>1, <1>2, <2>1, <2>2, <2>3, <2>7, <2>9, <2>10, MakerKeeps
  <1> QED BY <1>2, <1>3, <1>4

LEMMA CheckpointProjectKeeps ==
  ASSUME BackupInv, NEW m \in Makers, NEW p \in SavedProjects, Copies!CheckpointProject(m, p)
  PROVE  BackupInv'
  <1>1. PICK n \in Names : n = making[m].name
    BY MakerFacts DEF Copies!CheckpointProject
  <1>2. PICK left \in SUBSET SavedProjects : left = making[m].todo \ {p}
    BY MakerFacts DEF Copies!CheckpointProject
  <1>3. /\ making[m].pc = "projects" /\ p \in making[m].todo
        /\ UNCHANGED <<second, live, finished, since, mixed>>
        /\ \/ /\ unopened' = unopened \cup {<<n, p>>} /\ Copies!Goes(m, "projects", left) /\ UNCHANGED saved
           \/ /\ live[p] > 0
              /\ saved' = [saved EXCEPT ![n].there = TRUE, ![n].parts[p] = <<live[p], live[p]>>]
              /\ Copies!Goes(m, "projects", left) /\ UNCHANGED unopened
           \/ Copies!Ends(m) /\ UNCHANGED <<saved, unopened>>
    BY <1>1, <1>2 DEF Copies!CheckpointProject, Copies!Backup
  <1>4. CASE Copies!Ends(m) /\ UNCHANGED <<saved, unopened>>
    BY <1>3, <1>4, FailingKeeps
  <1>5. ASSUME Copies!Goes(m, "projects", left),
               saved' \in [Names -> SavedBackup], \A k \in Names : k # n => saved'[k] = saved[k],
               saved'[n].there \/ saved' = saved, saved'[n].master = saved[n].master,
               \A q \in SavedProjects : q # p => saved'[n].parts[q] = saved[n].parts[q],
               unopened \subseteq unopened', unopened' \subseteq Names \X SavedProjects,
               IsWhole(n, p)'
        PROVE  BackupInv'
    <2>1. /\ making' \in [Makers -> MakerState] /\ \A k \in Makers : k # m => making'[k] = making[k]
          /\ making'[m].pc = "projects" /\ making'[m].name = making[m].name
          /\ making'[m].todo = left /\ making'[m].listed = making[m].listed
      BY <1>3, <1>5, GoingGoes
    <2>2. /\ since \in [Names -> [SavedProjects -> Int]] /\ finished \subseteq Completed
          /\ making[m].todo \subseteq making[m].listed /\ making[m].listed \subseteq SavedProjects
      BY <1>3, MakerFacts
    <2>3. ASSUME n \notin mixed, NEW q \in (making'[m].listed \ making'[m].todo) \cap saved'[n].master
          PROVE  IsWhole(n, q)'
      <3>1. CASE q = p
        BY <1>5, <3>1
      <3>2. CASE q # p
        <4>1. q \in (making[m].listed \ making[m].todo) \cap saved[n].master /\ q \in SavedProjects
          BY <1>2, <1>5, <2>1, <2>2, <2>3, <3>2
        <4>2. IsWhole(n, q)
          BY <1>1, <1>3, <2>3, <4>1 DEF BackupInv, DoneIsWhole
        <4>3. saved'[n].parts[q] = saved[n].parts[q] /\ since' = since
          BY <1>3, <1>5, <3>2, <4>1
        <4> QED BY <1>5, <4>2, <4>3 DEF IsWhole
      <3> QED BY <3>1, <3>2
    <2>4. /\ making'[m].name = n /\ making'[m].todo \subseteq making'[m].listed
          /\ making[m].pc # "rest" /\ making'[m].pc # "master" /\ making'[m].pc # "rest"
      BY <1>1, <1>2, <1>3, <2>1, <2>2
    <2>5. /\ since' \in [Names -> [SavedProjects -> Int]] /\ since' = since
          /\ finished' \subseteq Completed /\ finished \subseteq finished'
          /\ \A f \in finished' : f \in finished
          /\ UNCHANGED <<second, live, mixed>>
      BY <1>3, <2>2
    <2>6. making' \in [Makers -> MakerState] /\ \A k \in Makers : k # m => making'[k] = making[k]
      BY <2>1
    <2>7. making'[m].pc = "projects" /\ n \notin mixed =>
            \A q \in (making'[m].listed \ making'[m].todo) \cap saved'[n].master : IsWhole(n, q)'
      BY <2>3
    <2>8. /\ \A f \in finished' : f \in finished \/ (f.name = n /\ making'[m].pc = "rest")
          /\ \A f \in finished' : f \in finished \/ n \in mixed \/
               \A q \in f.listed \cap saved'[n].master : IsWhole(n, q)'
      BY <2>5
    <2>9. /\ saved' \in [Names -> SavedBackup] /\ \A k \in Names : k # n => saved'[k] = saved[k]
          /\ saved'[n].there \/ saved' = saved
          /\ \A k \in Names : k # n => since'[k] = since[k]
          /\ unopened \subseteq unopened' /\ unopened' \subseteq Names \X SavedProjects
      BY <1>5, <2>5
    <2> QED BY <1>1, <2>4, <2>5, <2>6, <2>7, <2>8, <2>9, MakerKeeps
  <1>6. CASE unopened' = unopened \cup {<<n, p>>} /\ Copies!Goes(m, "projects", left) /\ UNCHANGED saved
    <2>1. /\ saved \in [Names -> SavedBackup] /\ unopened \subseteq Names \X SavedProjects
      BY <1>3, MakerFacts
    <2>2. IsWhole(n, p)'
      BY <1>6 DEF IsWhole
    <2> QED BY <1>5, <1>6, <2>1, <2>2
  <1>7. CASE /\ live[p] > 0
             /\ saved' = [saved EXCEPT ![n].there = TRUE, ![n].parts[p] = <<live[p], live[p]>>]
             /\ Copies!Goes(m, "projects", left) /\ UNCHANGED unopened
    <2>1. /\ saved \in [Names -> SavedBackup] /\ unopened \subseteq Names \X SavedProjects
          /\ saved[n] \in SavedBackup /\ live \in [SavedProjects -> -1..MaxChanges]
          /\ since \in [Names -> [SavedProjects -> Int]]
      BY <1>1, <1>3, MakerFacts
    <2>2. live[p] \in States /\ live[p] \in Int /\ since[n][p] \in Int
      BY <1>7, <2>1, NameFacts
    <2>3. PICK two : two = <<live[p], live[p]>>
      OBVIOUS
    <2>4. two \in States \X States /\ two[1] = live[p] /\ two[2] = live[p]
      BY <2>2, <2>3
    <2>5. PICK b : b = [saved[n] EXCEPT !.there = TRUE, !.parts[p] = two]
      OBVIOUS
    <2>6. saved[n].parts \in [SavedProjects -> States \X States]
      BY <2>1 DEF SavedBackup
    <2>7. PICK copies : copies = [saved[n].parts EXCEPT ![p] = two]
      OBVIOUS
    <2>8. /\ copies \in [SavedProjects -> States \X States] /\ copies[p] = two
          /\ \A q \in SavedProjects : q # p => copies[q] = saved[n].parts[q]
      BY <2>4, <2>6, <2>7
    <2>9. b = [saved[n] EXCEPT !.there = TRUE, !.parts = copies]
      BY <2>5, <2>7
    <2>10. b \in SavedBackup /\ b.there /\ b.master = saved[n].master /\ b.parts = copies
      BY <2>1, <2>8, <2>9 DEF SavedBackup
    <2>11. saved' = [saved EXCEPT ![n] = b]
      BY <1>7, <2>1, <2>3, <2>5
    <2>12. /\ saved' \in [Names -> SavedBackup] /\ saved'[n] = b
           /\ \A k \in Names : k # n => saved'[k] = saved[k]
      BY <2>1, <2>10, <2>11
    <2>13. since[n][p] <= live[p]
      BY <1>7, <2>2 DEF BackupInv, MasterIsOlder
    <2>14. IsWhole(n, p)'
      BY <1>3, <1>7, <2>2, <2>4, <2>8, <2>10, <2>12, <2>13 DEF IsWhole
    <2> QED BY <1>5, <1>7, <2>1, <2>8, <2>10, <2>12, <2>14
  <1> QED BY <1>3, <1>4, <1>6, <1>7

LEMMA CompletionKeeps ==
  ASSUME BackupInv, NEW m \in Makers, Copies!BackupCompletes(m)
  PROVE  BackupInv'
  <1>1. PICK n \in Names : n = making[m].name
    BY MakerFacts DEF Copies!BackupCompletes
  <1>2. PICK all \in SUBSET SavedProjects : all = making[m].listed
    BY MakerFacts DEF Copies!BackupCompletes
  <1>3. PICK done : done = [name |-> n, listed |-> all]
    OBVIOUS
  <1>4. done \in Completed /\ done.name = n /\ done.listed = all
    BY <1>3 DEF Completed
  <1>5. /\ making[m].pc = "projects" /\ making[m].todo = {} /\ Copies!Ends(m)
        /\ finished' = finished \cup {done}
        /\ UNCHANGED <<second, live, saved, since, unopened, mixed>>
    BY <1>1, <1>2, <1>3 DEF Copies!BackupCompletes
  <1>6. /\ making' \in [Makers -> MakerState] /\ \A k \in Makers : k # m => making'[k] = making[k]
        /\ making'[m].pc = "rest" /\ making'[m].name = n /\ making'[m].todo = {} /\ making'[m].listed = {}
    BY <1>1, <1>5, EndingRests
  <1>7. /\ saved \in [Names -> SavedBackup] /\ since \in [Names -> [SavedProjects -> Int]]
        /\ unopened \subseteq Names \X SavedProjects /\ finished \subseteq Completed
    BY <1>5, MakerFacts
  <1>8. ASSUME NEW f \in finished', f \notin finished, n \notin mixed, NEW p \in f.listed \cap saved'[n].master
        PROVE  IsWhole(n, p)'
    <2>1. f = done
      BY <1>5, <1>8
    <2>2. p \in (making[m].listed \ making[m].todo) \cap saved[n].master
      BY <1>2, <1>4, <1>5, <1>8, <2>1
    <2>3. IsWhole(n, p)
      BY <1>1, <1>5, <1>8, <2>2 DEF BackupInv, DoneIsWhole
    <2> QED BY <1>5, <2>3 DEF IsWhole
  <1>9. \A f \in finished' : f \in finished \/ (f.name = n /\ making'[m].pc = "rest")
    BY <1>4, <1>5, <1>6
  <1>10. \A f \in finished' : f \in finished \/ n \in mixed \/
           \A p \in f.listed \cap saved'[n].master : IsWhole(n, p)'
    BY <1>8
  <1>11. finished \subseteq finished' /\ finished' \subseteq Completed
    BY <1>4, <1>5, <1>7
  <1> QED BY <1>1, <1>5, <1>6, <1>7, <1>9, <1>10, <1>11, MakerKeeps

LEMMA CopyEnds == ASSUME BackupInv, NEW m \in Makers, Copies!CopyCompletes(m) PROVE BackupInv'
  <1>1. making[m].pc # "rest" /\ Copies!Ends(m) /\ UNCHANGED <<second, live, saved, finished, since, unopened, mixed>>
    BY DEF Copies!CopyCompletes
  <1> QED BY <1>1, FailingKeeps

LEMMA PairChanges ==
  ASSUME NEW pair \in States \X States, NEW i \in {1, 2}, NEW v \in States
  PROVE  [pair EXCEPT ![i] = v] \in States \X States
  <1>1. PICK a \in States, b \in States : pair = <<a, b>>
    OBVIOUS
  <1>2. CASE i = 1
    <2>1. [pair EXCEPT ![i] = v] = <<v, b>>
      BY <1>1, <1>2
    <2> QED BY <2>1
  <1>3. CASE i = 2
    <2>1. [pair EXCEPT ![i] = v] = <<a, v>>
      BY <1>1, <1>3
    <2> QED BY <2>1
  <1> QED BY <1>2, <1>3

(* A file is copied, or the copy of the project fails.                         *)
LEMMA CopyKeeps ==
  ASSUME BackupInv, NEW m \in Makers, NEW p \in SavedProjects, Copies!copyDir(m, p)
  PROVE  BackupInv'
  <1>1. PICK n \in Names : n = making[m].name
    BY MakerFacts DEF Copies!copyDir
  <1>2. PICK left \in SUBSET SavedProjects : left = making[m].todo \ {p}
    BY MakerFacts DEF Copies!copyDir
  <1>3. PICK i \in {1, 2} : i = IF making[m].half = p THEN 2 ELSE 1
    OBVIOUS
  <1>4. /\ making[m].pc = "copy" /\ p \in making[m].todo
        /\ UNCHANGED <<second, live, finished, since, unopened, mixed>>
        /\ \/ /\ live[p] > 0
              /\ saved' = [saved EXCEPT ![n].there = TRUE, ![n].parts[p][i] = live[p]]
              /\ making' = IF making[m].half = p THEN [making EXCEPT ![m].half = "none", ![m].todo = left]
                           ELSE [making EXCEPT ![m].half = p]
           \/ making' = [making EXCEPT ![m].half = "none", ![m].todo = left] /\ UNCHANGED saved
    BY <1>1, <1>2, <1>3 DEF Copies!copyDir
  <1>5. /\ making[m] \in MakerState /\ making \in [Makers -> MakerState] /\ saved \in [Names -> SavedBackup]
        /\ saved[n] \in SavedBackup /\ live \in [SavedProjects -> -1..MaxChanges]
        /\ since \in [Names -> [SavedProjects -> Int]] /\ unopened \subseteq Names \X SavedProjects
        /\ finished \subseteq Completed /\ making[m].todo \subseteq making[m].listed
    BY <1>1, <1>4, MakerFacts
  <1>6. PICK next : next = [making[m] EXCEPT !.half = "none", !.todo = left]
    OBVIOUS
  <1>7. PICK halfway : halfway = [making[m] EXCEPT !.half = p]
    OBVIOUS
  <1>8. next \in MakerState /\ next.pc = "copy" /\ next.name = n /\ next.todo = left /\ next.listed = making[m].listed
    BY <1>1, <1>4, <1>5, <1>6 DEF MakerState
  <1>9. /\ halfway \in MakerState /\ halfway.pc = "copy" /\ halfway.name = n
        /\ halfway.todo = making[m].todo /\ halfway.listed = making[m].listed
    BY <1>1, <1>4, <1>5, <1>7 DEF MakerState
  <1>10. making' = [making EXCEPT ![m] = next] \/ making' = [making EXCEPT ![m] = halfway]
    BY <1>4, <1>5, <1>6, <1>7
  <1>11. /\ making' \in [Makers -> MakerState] /\ \A k \in Makers : k # m => making'[k] = making[k]
         /\ making'[m].pc = "copy" /\ making'[m].name = n /\ making'[m].todo \subseteq making'[m].listed
    BY <1>2, <1>5, <1>8, <1>9, <1>10
  <1>12. /\ saved' \in [Names -> SavedBackup] /\ \A k \in Names : k # n => saved'[k] = saved[k]
         /\ saved'[n].there \/ saved' = saved
    <2>1. CASE UNCHANGED saved
      BY <1>5, <2>1
    <2>2. CASE live[p] > 0 /\ saved' = [saved EXCEPT ![n].there = TRUE, ![n].parts[p][i] = live[p]]
      <3>1. live[p] \in States
        BY <1>5, <2>2, NameFacts
      <3>2. saved[n].parts \in [SavedProjects -> States \X States]
        BY <1>5 DEF SavedBackup
      <3>3. PICK pair : pair = [saved[n].parts[p] EXCEPT ![i] = live[p]]
        OBVIOUS
      <3>4. saved[n].parts[p] \in States \X States
        BY <3>2
      <3>5. pair \in States \X States
        BY <3>1, <3>3, <3>4, PairChanges
      <3>6. PICK copies : copies = [saved[n].parts EXCEPT ![p] = pair]
        OBVIOUS
      <3>7. copies \in [SavedProjects -> States \X States]
        BY <3>2, <3>5, <3>6
      <3>8. PICK b : b = [saved[n] EXCEPT !.there = TRUE, !.parts = copies]
        OBVIOUS
      <3>9. b \in SavedBackup /\ b.there
        BY <1>5, <3>7, <3>8 DEF SavedBackup
      <3>10. b = [saved[n] EXCEPT !.there = TRUE, !.parts[p][i] = live[p]]
        BY <3>3, <3>6, <3>8
      <3>11. saved' = [saved EXCEPT ![n] = b]
        BY <1>5, <2>2, <3>10
      <3> QED BY <1>5, <3>9, <3>11
    <2> QED BY <1>4, <2>1, <2>2
  <1> QED BY <1>1, <1>4, <1>5, <1>11, <1>12, MakerKeeps

(* A deleted backup is among the mixed ones, so nothing is said of it.         *)
LEMMA DeletionKeeps ==
  ASSUME BackupInv, NEW n \in Names, Copies!handleDeleteBackup(n)
  PROVE  BackupInv'
  <1>1. /\ saved' = [saved EXCEPT ![n] = Copies!NoBackup] /\ mixed' = mixed \cup {n}
        /\ UNCHANGED <<second, live, making, finished, since, unopened>>
    BY DEF Copies!handleDeleteBackup
  <1>2. /\ saved \in [Names -> SavedBackup] /\ making \in [Makers -> MakerState] /\ mixed \subseteq Names
        /\ finished \subseteq Completed
    BY DEF BackupInv, BackupsTyped
  <1>3. saved' \in [Names -> SavedBackup] /\ \A k \in Names : k # n => saved'[k] = saved[k]
    BY <1>1, <1>2, NothingIsKept
  <1>4. /\ \A k \in Makers : making[k].name \in 0..MaxSeconds /\ making[k].listed \subseteq SavedProjects
        /\ \A f \in finished : f.name \in Names /\ f.listed \subseteq SavedProjects
    BY <1>2 DEF MakerState, Completed
  <1>5. BackupsTyped'
    BY <1>1, <1>2, <1>3 DEF BackupInv, BackupsTyped
  <1>6. BackupsAreOwn'
    <2>1. ASSUME NEW k \in Makers, making[k].name # 0, making[k].name \notin mixed'
          PROVE  saved'[making[k].name].there
      <3>1. saved[making[k].name].there /\ making[k].name # n /\ making[k].name \in Names
        BY <1>1, <1>4, <2>1, NameFacts DEF BackupInv, BackupsAreOwn
      <3> QED BY <1>3, <3>1
    <2>2. ASSUME NEW f \in finished, f.name \notin mixed' PROVE saved'[f.name].there
      <3>1. saved[f.name].there /\ f.name # n /\ f.name \in Names
        BY <1>1, <1>4, <2>2 DEF BackupInv, BackupsAreOwn
      <3> QED BY <1>3, <3>1
    <2> QED BY <1>1, <2>1, <2>2 DEF BackupInv, BackupsAreOwn
  <1>7. MasterIsOlder'
    BY <1>1 DEF BackupInv, MasterIsOlder
  <1>8. DoneIsWhole'
    <2>1. ASSUME NEW k \in Names, k # n, NEW p \in SavedProjects, IsWhole(k, p) PROVE IsWhole(k, p)'
      BY <1>1, <1>3, <2>1 DEF IsWhole
    <2>2. ASSUME NEW k \in Makers, making'[k].pc = "projects", making'[k].name \notin mixed',
                 NEW x, x = making'[k].name,
                 NEW p \in (making'[k].listed \ making'[k].todo) \cap saved'[x].master
          PROVE  IsWhole(x, p)'
      <3>1. x = making[k].name /\ x # n /\ x \notin mixed /\ p \in SavedProjects
        BY <1>1, <1>4, <2>2
      <3>2. x \in Names
        BY <1>1, <1>4, <2>2, <3>1, NameFacts DEF BackupInv, BackupsAreOwn
      <3>3. IsWhole(x, p)
        BY <1>1, <1>3, <2>2, <3>1, <3>2 DEF BackupInv, DoneIsWhole
      <3> QED BY <2>1, <3>1, <3>2, <3>3
    <2>3. ASSUME NEW f \in finished', f.name \notin mixed', NEW p \in f.listed \cap saved'[f.name].master
          PROVE  IsWhole(f.name, p)'
      <3>1. f \in finished /\ f.name \in Names /\ f.name # n /\ f.name \notin mixed /\ p \in SavedProjects
        BY <1>1, <1>4, <2>3
      <3>2. IsWhole(f.name, p)
        BY <1>3, <2>3, <3>1 DEF BackupInv, DoneIsWhole
      <3> QED BY <2>1, <3>1, <3>2
    <2> QED BY <2>2, <2>3 DEF DoneIsWhole, IsWhole
  <1> QED BY <1>5, <1>6, <1>7, <1>8 DEF BackupInv

LEMMA BackupKeeps == BackupInv /\ (Copies!BackupNext \/ UNCHANGED copiesVars) => BackupInv'
  <1> SUFFICES ASSUME BackupInv, Copies!BackupNext \/ UNCHANGED copiesVars PROVE BackupInv'
    OBVIOUS
  <1>1. CASE UNCHANGED copiesVars
    <2>1. UNCHANGED <<second, live, saved, making, finished, since, unopened, mixed>>
      BY <1>1 DEF copiesVars
    <2>2. second \in Names /\ second \in Nat /\ live \in [SavedProjects -> -1..MaxChanges]
      BY NameFacts DEF BackupInv, BackupsTyped
    <2>3. /\ second' \in Names /\ second <= second' /\ live' \in [SavedProjects -> -1..MaxChanges]
          /\ \A p \in SavedProjects : live'[p] = -1 \/ (live[p] # -1 /\ live[p] <= live'[p])
      BY <2>1, <2>2
    <2> QED BY <2>1, <2>3, FilesKeep
  <1>2. CASE Copies!ClockTicks
    BY <1>2, ClockKeeps
  <1>3. ASSUME NEW p \in SavedProjects, Copies!FilesChange(p) \/ Copies!ProjectIsDeleted(p) PROVE BackupInv'
    BY <1>3, FilesChangeKeeps
  <1>4. ASSUME NEW m \in Makers,
               \/ Copies!runBackupScheduler(m) \/ Copies!handleCreateBackup(m)
               \/ Copies!CheckpointMaster(m) \/ Copies!BackupCompletes(m) \/ Copies!CopyCompletes(m)
               \/ \E p \in SavedProjects : Copies!CheckpointProject(m, p) \/ Copies!copyDir(m, p)
        PROVE  BackupInv'
    <2>1. CASE Copies!runBackupScheduler(m) \/ Copies!handleCreateBackup(m)
      BY <2>1, BeginsKeeps DEF Copies!runBackupScheduler, Copies!handleCreateBackup
    <2>2. CASE Copies!CheckpointMaster(m) \/ Copies!BackupCompletes(m) \/ Copies!CopyCompletes(m)
      BY <2>2, CheckpointMasterKeeps, CompletionKeeps, CopyEnds
    <2>3. CASE \E p \in SavedProjects : Copies!CheckpointProject(m, p) \/ Copies!copyDir(m, p)
      BY <2>3, CheckpointProjectKeeps, CopyKeeps
    <2> QED BY <1>4, <2>1, <2>2, <2>3
  <1>5. ASSUME NEW n \in Names, Copies!handleDeleteBackup(n) PROVE BackupInv'
    BY <1>5, DeletionKeeps
  <1>6. CASE Copies!BackupNext
    BY <1>2, <1>3, <1>4, <1>5, <1>6, BackupNames DEF Copies!BackupNext, Makers
  <1> QED BY <1>1, <1>6

LEMMA BackupSays == BackupInv => Copies!BackupTypeOK /\ Copies!BackupsAreWhole
  <1> SUFFICES ASSUME BackupInv PROVE Copies!BackupTypeOK /\ Copies!BackupsAreWhole
    OBVIOUS
  <1>1. Copies!BackupTypeOK
    <2>1. /\ second \in Names /\ live \in [SavedProjects -> -1..MaxChanges] /\ mixed \subseteq Names
          /\ unopened \subseteq Names \X SavedProjects
          /\ saved \in [Names -> SavedBackup] /\ making \in [Makers -> MakerState]
      BY DEF BackupInv, BackupsTyped
    <2>2. \A n \in Names : saved[n].master \subseteq SavedProjects \cup {"_master"}
      BY <2>1 DEF SavedBackup
    <2>3. \A n \in Names : saved[n].parts \in [SavedProjects -> (0..MaxChanges) \X (0..MaxChanges)]
      BY <2>1 DEF SavedBackup, States
    <2>4. \A m \in Makers : making[m].half \in SavedProjects \cup {"none"}
      BY <2>1 DEF MakerState
    <2>5. \A m \in Makers : making[m].todo \subseteq making[m].listed
      BY DEF BackupInv, BackupsAreOwn
    <2> QED BY <2>1, <2>2, <2>3, <2>4, <2>5, BackupNames DEF Copies!BackupTypeOK
  <1>2. Copies!BackupsAreWhole
    BY DEF BackupInv, DoneIsWhole, IsWhole, Copies!BackupsAreWhole
  <1> QED BY <1>1, <1>2

------------------------------------------------------------------------------
(* The next time of a schedule.                                                *)

CalendarEnd == Len(FirstDay)

\* The times the search has passed hold none of the expression.
PassedHoldNone == \A m \in Nat : from < m /\ m < t => ~Schedule!Matches(m)

CronInv ==
  /\ Schedule!CronTypeOK /\ from < t /\ PassedHoldNone
  /\ \/ found = Schedule!Unknown
     \/ found = t /\ t < Schedule!TwoYearsAfter(from) /\ Schedule!Matches(t)
     \/ Schedule!Times = {}

(* Where a number falls among the multiples of another.                        *)
LEMMA DivFacts ==
  ASSUME NEW n \in Nat, NEW d \in Nat \ {0}
  PROVE  n \div d \in Nat /\ (n \div d) * d <= n /\ n < (n \div d + 1) * d
  OBVIOUS

LEMMA TimesGrow ==
  ASSUME NEW q \in Nat, NEW r \in Nat, NEW d \in Nat, q <= r
  PROVE  q * d <= r * d
  OBVIOUS

LEMMA DivIs ==
  ASSUME NEW n \in Nat, NEW d \in Nat \ {0}, NEW q \in Nat, q * d <= n, n < (q + 1) * d
  PROVE  n \div d = q
  OBVIOUS

LEMMA DivBelow ==
  ASSUME NEW n \in Nat, NEW d \in Nat \ {0}, NEW q \in Nat, n < q * d
  PROVE  n \div d < q
  <1>1. PICK e \in Nat : e = n \div d /\ e * d <= n
    BY DivFacts
  <1>2. CASE q <= e
    <2>1. q * d <= e * d
      BY <1>1, <1>2, TimesGrow
    <2>2. q * d \in Nat /\ e * d \in Nat
      BY <1>1
    <2> QED BY <1>1, <2>1, <2>2
  <1> QED BY <1>1, <1>2

LEMMA DivGrows ==
  ASSUME NEW n \in Nat, NEW m \in Nat, NEW d \in Nat \ {0}, n <= m
  PROVE  n \div d <= m \div d
  <1>1. PICK e \in Nat : e = m \div d /\ m < (e + 1) * d
    BY DivFacts
  <1>2. n < (e + 1) * d
    <2>1. (e + 1) * d \in Nat
      BY <1>1
    <2> QED BY <1>1, <2>1
  <1>3. n \div d < e + 1 /\ n \div d \in Nat
    BY <1>1, <1>2, DivBelow, DivFacts
  <1> QED BY <1>1, <1>3

LEMMA DivStays ==
  ASSUME NEW n \in Nat, NEW m \in Nat, NEW d \in Nat \ {0}, n <= m, m < (n \div d + 1) * d
  PROVE  m \div d = n \div d
  <1>1. n \div d \in Nat /\ m \div d \in Nat /\ n \div d <= m \div d
    BY DivFacts, DivGrows
  <1>2. m \div d < n \div d + 1
    BY <1>1, DivBelow
  <1> QED BY <1>1, <1>2

LEMMA CalendarFacts ==
  /\ MinutesPerHour \in Nat \ {0} /\ Schedule!MinutesPerDay \in Nat \ {0}
  /\ MonthsPerYear \in Nat \ {0} /\ CalendarEnd \in Nat /\ CalendarEnd > 1
  /\ FirstDay[1] = 0 /\ Froms \subseteq Nat
  /\ \A k \in 1..CalendarEnd : FirstDay[k] \in Nat
  /\ \A k, l \in 1..CalendarEnd : k < l => FirstDay[k] < FirstDay[l]
  /\ Schedule!Months = 1..(CalendarEnd - 1)
  /\ \A m \in Froms : Schedule!TwoYearsAfter(m) \in 0..(FirstDay[CalendarEnd] * Schedule!MinutesPerDay)
  <1>1. /\ MinutesPerHour \in Nat \ {0} /\ HoursPerDay \in Nat \ {0} /\ MonthsPerYear \in Nat \ {0}
        /\ FirstDay \in Seq(Nat) /\ Schedule!Months # {} /\ FirstDay[1] = 0 /\ Froms \subseteq Nat
        /\ \A k, l \in DOMAIN FirstDay : k < l => FirstDay[k] < FirstDay[l]
        /\ \A m \in Froms : Schedule!TwoYearsAfter(m) \in 0..(FirstDay[Len(FirstDay)] * Schedule!MinutesPerDay)
    BY CalendarAssumption DEF Schedule!Calendar
  <1>2. Schedule!MinutesPerDay \in Nat \ {0}
    BY <1>1 DEF Schedule!MinutesPerDay
  <1>3. /\ CalendarEnd \in Nat /\ DOMAIN FirstDay = 1..CalendarEnd
        /\ \A k \in 1..CalendarEnd : FirstDay[k] \in Nat
    BY <1>1, SeqFacts DEF CalendarEnd
  <1>4. Schedule!Months = 1..(CalendarEnd - 1)
    BY DEF Schedule!Months, CalendarEnd
  <1>5. CalendarEnd > 1
    BY <1>1, <1>3, <1>4
  <1>6. /\ \A k, l \in 1..CalendarEnd : k < l => FirstDay[k] < FirstDay[l]
        /\ \A m \in Froms : Schedule!TwoYearsAfter(m) \in 0..(FirstDay[CalendarEnd] * Schedule!MinutesPerDay)
    BY <1>1, <1>3 DEF CalendarEnd
  <1> QED BY <1>1, <1>2, <1>3, <1>4, <1>5, <1>6

(* Every day before the end of the calendar is in one of its months, and in no *)
(* other.                                                                      *)
LEMMA DayHasMonth ==
  ASSUME NEW d \in Nat, d < FirstDay[CalendarEnd]
  PROVE  \E k \in Schedule!Months : FirstDay[k] <= d /\ d < FirstDay[k + 1]
  <1> DEFINE R == OpToRel(<, Nat)
             Later == {k \in 1..CalendarEnd : d < FirstDay[k]}
  <1>1. IsWellFoundedOn(R, Nat)
    BY NatLessThanWellFounded
  <1>2. \A x, y \in Nat : <<x, y>> \in R <=> x < y
    BY DEF OpToRel
  <1>3. Later \subseteq Nat /\ Later # {}
    BY CalendarFacts
  <1>4. PICK l \in Later : \A k \in Later : ~(<<k, l>> \in R)
    <2> HIDE DEF R, Later
    <2> QED BY <1>1, <1>3, WFMin
  <1>5. l \in 1..CalendarEnd /\ d < FirstDay[l] /\ l # 1
    <2>1. l \in 1..CalendarEnd /\ d < FirstDay[l]
      BY <1>4
    <2>2. CASE l = 1
      <3>1. d < 0
        BY <2>1, <2>2, CalendarFacts
      <3> QED BY <3>1
    <2> QED BY <2>1, <2>2
  <1>6. l - 1 \in Schedule!Months /\ l - 1 \in 1..CalendarEnd /\ l - 1 < l /\ (l - 1) + 1 = l
    BY <1>5, CalendarFacts
  <1>7. ~(d < FirstDay[l - 1])
    <2>1. CASE d < FirstDay[l - 1]
      <3>1. l - 1 \in Later /\ l - 1 \in Nat /\ l \in Nat
        BY <1>5, <1>6, <2>1
      <3>2. <<l - 1, l>> \in R
        <4> HIDE DEF R, Later
        <4> QED BY <1>2, <1>6, <3>1
      <3> QED BY <1>4, <3>1, <3>2
    <2> QED BY <2>1
  <1>8. FirstDay[l - 1] \in Nat
    BY <1>6, CalendarFacts
  <1>9. FirstDay[l - 1] <= d
    BY <1>7, <1>8
  <1> QED BY <1>5, <1>6, <1>9

LEMMA OneMonth ==
  ASSUME NEW d \in Nat, NEW k \in Schedule!Months, NEW l \in Schedule!Months,
         FirstDay[k] <= d, d < FirstDay[k + 1], FirstDay[l] <= d, d < FirstDay[l + 1]
  PROVE  k = l
  <1>1. ASSUME NEW i \in Schedule!Months, NEW j \in Schedule!Months, i < j,
               d < FirstDay[i + 1], FirstDay[j] <= d
        PROVE  FALSE
    <2>1. i + 1 \in 1..CalendarEnd /\ j \in 1..CalendarEnd /\ i + 1 <= j
      BY <1>1, CalendarFacts
    <2>2. FirstDay[i + 1] <= FirstDay[j] /\ FirstDay[i + 1] \in Nat /\ FirstDay[j] \in Nat
      BY <2>1, CalendarFacts, SMTT(30)
    <2> QED BY <1>1, <2>2
  <1>2. ~(k < l) /\ ~(l < k)
    BY <1>1
  <1>3. k \in Int /\ l \in Int
    BY CalendarFacts
  <1> QED BY <1>2, <1>3

LEMMA DayFacts ==
  ASSUME NEW m \in Nat
  PROVE  /\ Schedule!Day(m) \in Nat
         /\ Schedule!Day(m) * Schedule!MinutesPerDay <= m
         /\ m < (Schedule!Day(m) + 1) * Schedule!MinutesPerDay
  BY CalendarFacts, DivFacts DEF Schedule!Day

LEMMA MonthFacts ==
  ASSUME NEW m \in Nat, Schedule!Day(m) < FirstDay[CalendarEnd]
  PROVE  /\ Schedule!MonthOf(m) \in Schedule!Months
         /\ FirstDay[Schedule!MonthOf(m)] <= Schedule!Day(m)
         /\ Schedule!Day(m) < FirstDay[Schedule!MonthOf(m) + 1]
         /\ \A k \in Schedule!Months :
              FirstDay[k] <= Schedule!Day(m) /\ Schedule!Day(m) < FirstDay[k + 1] => Schedule!MonthOf(m) = k
  <1>1. Schedule!Day(m) \in Nat
    BY DayFacts
  <1>2. \E k \in Schedule!Months : FirstDay[k] <= Schedule!Day(m) /\ Schedule!Day(m) < FirstDay[k + 1]
    BY <1>1, DayHasMonth
  <1>3. /\ Schedule!MonthOf(m) \in Schedule!Months
        /\ FirstDay[Schedule!MonthOf(m)] <= Schedule!Day(m)
        /\ Schedule!Day(m) < FirstDay[Schedule!MonthOf(m) + 1]
    BY <1>2 DEF Schedule!MonthOf
  <1> QED BY <1>1, <1>3, OneMonth

LEMMA InCalendar ==
  ASSUME NEW m \in Nat, NEW f \in Froms, m < Schedule!TwoYearsAfter(f)
  PROVE  Schedule!Day(m) < FirstDay[CalendarEnd]
  <1>1. PICK w \in Nat \ {0} : w = Schedule!MinutesPerDay
    BY CalendarFacts
  <1>2. PICK q \in Nat : q = FirstDay[CalendarEnd]
    BY CalendarFacts
  <1>3. Schedule!TwoYearsAfter(f) \in 0..(q * w) /\ q * w \in Nat
    BY <1>1, <1>2, CalendarFacts
  <1>4. m < q * w
    BY <1>3
  <1> QED BY <1>1, <1>2, <1>4, DivBelow DEF Schedule!Day

(* The times to the next month, to the next day and to the next hour share     *)
(* their month, day and hour.                                                  *)
LEMMA MonthStays ==
  ASSUME NEW n \in Nat, NEW m \in Nat, n <= m, Schedule!Day(n) < FirstDay[CalendarEnd],
         m < Schedule!NextMonth(n)
  PROVE  Schedule!MonthOf(m) = Schedule!MonthOf(n)
  <1>1. PICK w \in Nat \ {0} : w = Schedule!MinutesPerDay
    BY CalendarFacts
  <1>2. PICK k \in Schedule!Months : k = Schedule!MonthOf(n) /\ FirstDay[k] <= Schedule!Day(n)
    BY MonthFacts
  <1>3. k + 1 \in 1..CalendarEnd /\ k \in 1..CalendarEnd
    BY CalendarFacts
  <1>4. PICK q \in Nat : q = FirstDay[k + 1]
    BY <1>3, CalendarFacts
  <1>5. m < q * w
    BY <1>1, <1>2, <1>4 DEF Schedule!NextMonth
  <1>6. Schedule!Day(m) < q
    BY <1>1, <1>5, DivBelow DEF Schedule!Day
  <1>7. Schedule!Day(n) <= Schedule!Day(m)
    BY <1>1, DivGrows DEF Schedule!Day
  <1>8. /\ Schedule!Day(n) \in Nat /\ Schedule!Day(m) \in Nat /\ FirstDay[k] \in Nat
        /\ q <= FirstDay[CalendarEnd] /\ FirstDay[CalendarEnd] \in Nat
    <2>1. Schedule!Day(n) \in Nat /\ Schedule!Day(m) \in Nat
      BY DayFacts
    <2>2. FirstDay[k] \in Nat /\ FirstDay[CalendarEnd] \in Nat
      BY <1>3, CalendarFacts
    <2>3. CASE k + 1 = CalendarEnd
      BY <1>4, <2>1, <2>2, <2>3
    <2>4. CASE k + 1 # CalendarEnd
      <3>1. k + 1 < CalendarEnd /\ CalendarEnd \in 1..CalendarEnd
        BY <1>3, <2>4, CalendarFacts
      <3>2. q < FirstDay[CalendarEnd]
        BY <1>3, <1>4, <3>1, CalendarFacts
      <3> QED BY <1>4, <2>1, <2>2, <3>2
    <2> QED BY <2>3, <2>4
  <1>9. FirstDay[k] <= Schedule!Day(m) /\ Schedule!Day(m) < FirstDay[CalendarEnd]
    BY <1>2, <1>6, <1>7, <1>8
  <1> QED BY <1>2, <1>4, <1>6, <1>9, MonthFacts

LEMMA DayStays ==
  ASSUME NEW n \in Nat, NEW m \in Nat, n <= m, m < Schedule!NextDay(n)
  PROVE  Schedule!Day(m) = Schedule!Day(n) /\ Schedule!MonthOf(m) = Schedule!MonthOf(n)
  <1>1. Schedule!Day(m) = Schedule!Day(n)
    BY CalendarFacts, DivStays DEF Schedule!NextDay, Schedule!Day
  <1> QED BY <1>1 DEF Schedule!MonthOf

LEMMA HourStays ==
  ASSUME NEW n \in Nat, NEW m \in Nat, n <= m, m < Schedule!NextHour(n)
  PROVE  m \div MinutesPerHour = n \div MinutesPerHour
  BY CalendarFacts, DivStays DEF Schedule!NextHour

(* Each goes forward.                                                          *)
LEMMA SkipsGoForward ==
  ASSUME NEW n \in Nat, Schedule!Day(n) < FirstDay[CalendarEnd]
  PROVE  /\ Schedule!NextMonth(n) \in Nat /\ n < Schedule!NextMonth(n)
         /\ Schedule!NextDay(n) \in Nat /\ n < Schedule!NextDay(n)
         /\ Schedule!NextHour(n) \in Nat /\ n < Schedule!NextHour(n)
  <1>1. PICK w \in Nat \ {0} : w = Schedule!MinutesPerDay
    BY CalendarFacts
  <1>2. PICK d \in Nat : d = Schedule!Day(n) /\ n < (d + 1) * w
    BY <1>1, DayFacts
  <1>3. PICK k \in Schedule!Months : k = Schedule!MonthOf(n) /\ d < FirstDay[k + 1]
    BY <1>2, MonthFacts
  <1>4. k + 1 \in 1..CalendarEnd
    BY CalendarFacts
  <1>5. PICK q \in Nat : q = FirstDay[k + 1] /\ d + 1 <= q
    BY <1>2, <1>3, <1>4, CalendarFacts
  <1>6. Schedule!NextDay(n) = (d + 1) * w /\ Schedule!NextMonth(n) = q * w
    BY <1>1, <1>2, <1>3, <1>5 DEF Schedule!NextDay, Schedule!NextMonth
  <1>7. (d + 1) * w <= q * w /\ (d + 1) * w \in Nat /\ q * w \in Nat
    BY <1>2, <1>5, TimesGrow
  <1>8. Schedule!NextHour(n) \in Nat /\ n < Schedule!NextHour(n)
    <2>1. PICK h \in Nat : h = n \div MinutesPerHour /\ n < (h + 1) * MinutesPerHour
      BY CalendarFacts, DivFacts
    <2> QED BY <2>1, CalendarFacts DEF Schedule!NextHour
  <1> QED BY <1>2, <1>6, <1>7, <1>8

LEMMA CronStart == Schedule!CronInit => CronInv
  BY CalendarFacts DEF Schedule!CronInit, CronInv, Schedule!CronTypeOK, PassedHoldNone, Schedule!Unknown

LEMMA MatchesKeep ==
  ASSUME expr' = expr, NEW m
  PROVE  Schedule!Matches(m)' <=> Schedule!Matches(m)
  BY DEF Schedule!Matches, Schedule!MonthMatches, Schedule!DayMatches, Schedule!HourMatches,
         Schedule!MinuteMatches, Schedule!parse, Schedule!parseField

LEMMA TimesKeep ==
  ASSUME expr' = expr, from' = from
  PROVE  Schedule!Times' = Schedule!Times
  BY MatchesKeep DEF Schedule!Times

(* The search goes on from a time before which there is none of the expression.*)
LEMMA SkippingKeeps ==
  ASSUME CronInv, UNCHANGED <<expr, from, found>>, found = Schedule!Unknown, t' \in Nat, t < t',
         \A m \in Nat : t <= m /\ m < t' => ~Schedule!Matches(m)
  PROVE  CronInv'
  <1>1. t \in Nat /\ from \in Nat /\ from < t
    BY CalendarFacts DEF CronInv, Schedule!CronTypeOK
  <1>2. Schedule!CronTypeOK'
    BY DEF CronInv, Schedule!CronTypeOK
  <1>3. PassedHoldNone'
    <2> SUFFICES ASSUME NEW m \in Nat, from < m, m < t' PROVE ~Schedule!Matches(m)
      BY MatchesKeep DEF PassedHoldNone
    <2>1. CASE m < t
      BY <2>1 DEF CronInv, PassedHoldNone
    <2>2. CASE t <= m
      BY <2>2
    <2> QED BY <1>1, <2>1, <2>2
  <1>4. from' < t' /\ found' = Schedule!Unknown
    BY <1>1
  <1> QED BY <1>2, <1>3, <1>4 DEF CronInv, Schedule!Unknown

LEMMA SearchKeeps == ASSUME CronInv, Schedule!Search PROVE CronInv'
  <1>1. /\ t \in Nat /\ from \in Froms /\ t < Schedule!TwoYearsAfter(from)
        /\ found = Schedule!Unknown /\ UNCHANGED <<expr, from>>
    BY DEF CronInv, Schedule!CronTypeOK, Schedule!Search
  <1>2. Schedule!Day(t) < FirstDay[CalendarEnd]
    BY <1>1, InCalendar
  <1>3. CASE ~Schedule!MonthMatches(t) /\ t' = Schedule!NextMonth(t) /\ UNCHANGED found
    <2>1. ASSUME NEW m \in Nat, t <= m, m < t' PROVE ~Schedule!Matches(m)
      <3>1. Schedule!MonthOf(m) = Schedule!MonthOf(t)
        BY <1>1, <1>2, <1>3, <2>1, MonthStays
      <3> QED BY <1>3, <3>1 DEF Schedule!Matches, Schedule!MonthMatches
    <2> QED BY <1>1, <1>2, <1>3, <2>1, SkipsGoForward, SkippingKeeps
  <1>4. CASE ~Schedule!DayMatches(t) /\ t' = Schedule!NextDay(t) /\ UNCHANGED found
    <2>1. ASSUME NEW m \in Nat, t <= m, m < t' PROVE ~Schedule!Matches(m)
      <3>1. Schedule!Day(m) = Schedule!Day(t) /\ Schedule!MonthOf(m) = Schedule!MonthOf(t)
        BY <1>1, <1>4, <2>1, DayStays
      <3> QED BY <1>4, <3>1 DEF Schedule!Matches, Schedule!DayMatches, Schedule!DayOfMonth
    <2> QED BY <1>1, <1>2, <1>4, <2>1, SkipsGoForward, SkippingKeeps
  <1>5. CASE ~Schedule!HourMatches(t) /\ t' = Schedule!NextHour(t) /\ UNCHANGED found
    <2>1. ASSUME NEW m \in Nat, t <= m, m < t' PROVE ~Schedule!Matches(m)
      <3>1. m \div MinutesPerHour = t \div MinutesPerHour
        BY <1>1, <1>5, <2>1, HourStays
      <3> QED BY <1>5, <3>1 DEF Schedule!Matches, Schedule!HourMatches
    <2> QED BY <1>1, <1>2, <1>5, <2>1, SkipsGoForward, SkippingKeeps
  <1>6. CASE ~Schedule!MinuteMatches(t) /\ t' = t + 1 /\ UNCHANGED found
    <2>1. ASSUME NEW m \in Nat, t <= m, m < t' PROVE ~Schedule!Matches(m)
      <3>1. m = t
        BY <1>1, <1>6, <2>1
      <3> QED BY <1>6, <3>1 DEF Schedule!Matches
    <2>2. t' \in Nat /\ t < t'
      BY <1>1, <1>6
    <2> QED BY <1>1, <1>6, <2>1, <2>2, SkippingKeeps
  <1>7. CASE Schedule!Matches(t) /\ found' = t /\ UNCHANGED t
    <2>1. Schedule!CronTypeOK' /\ from' < t'
      BY <1>1, <1>7 DEF CronInv, Schedule!CronTypeOK
    <2>2. PassedHoldNone'
      BY <1>1, <1>7, MatchesKeep DEF CronInv, PassedHoldNone
    <2>3. Schedule!Matches(t)' /\ (t < Schedule!TwoYearsAfter(from))' /\ found' = t'
      <3>1. Schedule!Matches(t)'
        BY <1>1, <1>7 DEF Schedule!Matches, Schedule!MonthMatches, Schedule!DayMatches,
           Schedule!HourMatches, Schedule!MinuteMatches, Schedule!parse, Schedule!parseField
      <3> QED BY <1>1, <1>7, <3>1
    <2> QED BY <2>1, <2>2, <2>3 DEF CronInv
  <1> QED BY <1>3, <1>4, <1>5, <1>6, <1>7 DEF Schedule!Search, Schedule!Matches

LEMMA GiveUpKeeps == ASSUME CronInv, Schedule!GiveUp PROVE CronInv'
  <1>1. /\ t \in Nat /\ from \in Froms /\ from \in Nat /\ Schedule!TwoYearsAfter(from) <= t
        /\ UNCHANGED <<expr, from, t>> /\ found' = from + MinutesPerHour
        /\ Schedule!TwoYearsAfter(from) \in Int
    BY CalendarFacts DEF CronInv, Schedule!CronTypeOK, Schedule!GiveUp
  <1>2. Schedule!CronTypeOK' /\ from' < t'
    BY <1>1, CalendarFacts DEF CronInv, Schedule!CronTypeOK
  <1>3. PassedHoldNone'
    BY <1>1, MatchesKeep DEF CronInv, PassedHoldNone
  <1>4. Schedule!Times = {}
    <2> SUFFICES ASSUME NEW m \in Schedule!Times PROVE FALSE
      OBVIOUS
    <2>1. m \in (from + 1)..(Schedule!TwoYearsAfter(from) - 1) /\ Schedule!Matches(m)
      BY DEF Schedule!Times
    <2>2. m \in Nat /\ from < m /\ m < t
      BY <1>1, <2>1
    <2> QED BY <2>1, <2>2 DEF CronInv, PassedHoldNone
  <1>5. Schedule!Times' = {}
    BY <1>1, <1>4, TimesKeep
  <1> QED BY <1>2, <1>3, <1>5 DEF CronInv

LEMMA CronRests == CronInv /\ UNCHANGED scheduleVars => CronInv'
  <1> SUFFICES ASSUME CronInv, UNCHANGED <<expr, from, t, found>> PROVE CronInv'
    BY DEF scheduleVars
  <1>1. Schedule!CronTypeOK' /\ from' < t'
    BY DEF CronInv, Schedule!CronTypeOK
  <1>2. PassedHoldNone'
    BY MatchesKeep DEF CronInv, PassedHoldNone
  <1>3. (\/ found = Schedule!Unknown
         \/ found = t /\ t < Schedule!TwoYearsAfter(from) /\ Schedule!Matches(t)
         \/ Schedule!Times = {})'
    <2>1. CASE found = Schedule!Unknown
      BY <2>1 DEF Schedule!Unknown
    <2>2. CASE found = t /\ t < Schedule!TwoYearsAfter(from) /\ Schedule!Matches(t)
      BY <2>2 DEF Schedule!Matches, Schedule!MonthMatches, Schedule!DayMatches,
         Schedule!HourMatches, Schedule!MinuteMatches, Schedule!parse, Schedule!parseField
    <2>3. CASE Schedule!Times = {}
      BY <2>3, TimesKeep
    <2> QED BY <2>1, <2>2, <2>3 DEF CronInv
  <1> QED BY <1>1, <1>2, <1>3 DEF CronInv

LEMMA CronKeeps == CronInv /\ (Schedule!CronNext \/ UNCHANGED scheduleVars) => CronInv'
  BY SearchKeeps, GiveUpKeeps, CronRests DEF Schedule!CronNext

LEMMA CronSays == CronInv => Schedule!CronTypeOK /\ Schedule!NextIsFirst
  <1> SUFFICES ASSUME CronInv, found # Schedule!Unknown, Schedule!Times # {}
               PROVE  found \in Schedule!Times /\ \A m \in Schedule!Times : found <= m
    BY DEF CronInv, Schedule!NextIsFirst
  <1>1. /\ t \in Nat /\ from \in Nat /\ from < t /\ found = t /\ Schedule!Matches(t)
        /\ t < Schedule!TwoYearsAfter(from) /\ Schedule!TwoYearsAfter(from) \in Int
    BY CalendarFacts DEF CronInv, Schedule!CronTypeOK
  <1>2. found \in Schedule!Times
    BY <1>1 DEF Schedule!Times
  <1>3. ASSUME NEW m \in Schedule!Times PROVE found <= m
    <2>1. m \in (from + 1)..(Schedule!TwoYearsAfter(from) - 1) /\ Schedule!Matches(m)
      BY DEF Schedule!Times
    <2>2. m \in Nat /\ from < m
      BY <1>1, <2>1
    <2>3. ~(m < t)
      BY <2>1, <2>2 DEF CronInv, PassedHoldNone
    <2> QED BY <1>1, <2>2, <2>3
  <1> QED BY <1>2, <1>3

------------------------------------------------------------------------------
(* The node.                                                                   *)

NodeInv == LimitInv /\ WorkerInv /\ LogInv /\ BackupInv /\ CronInv

LEMMA NodeStart == Init => NodeInv
  BY LimitStart, WorkerStart, LogStart, BackupStart, CronStart DEF Init, PartsInit, NodeInv

LEMMA LimitRests == LimitInv /\ UNCHANGED limiterVars => LimitInv'
  <1> SUFFICES ASSUME LimitInv, UNCHANGED limiterVars PROVE LimitInv'
    OBVIOUS
  <1>1. UNCHANGED <<ticks, limiters, buckets, judging, admitted>>
    BY DEF limiterVars
  <1>2. LimitTyped'
    BY <1>1 DEF LimitInv, LimitTyped
  <1>3. BucketsAreOwn'
    BY <1>1 DEF LimitInv, BucketsAreOwn
  <1>4. SpentIsRefilled'
    BY <1>1 DEF LimitInv, SpentIsRefilled
  <1> QED BY <1>2, <1>3, <1>4 DEF LimitInv

LEMMA WorkerRests == WorkerInv /\ UNCHANGED workerVars => WorkerInv'
  BY DEF workerVars, WorkerInv, Worker!WorkerTypeOK, CallsAgree, WorkersAgree

LEMMA LogRests == LogInv /\ UNCHANGED requestsVars => LogInv'
  <1> SUFFICES ASSUME LogInv, UNCHANGED requestsVars PROVE LogInv'
    OBVIOUS
  <1>1. UNCHANGED <<logged, channel, paths, files, handle, logSize, shifting, flushing, exposed>>
    BY DEF requestsVars
  <1>2. EntriesInOrder'
    BY <1>1 DEF LogInv, EntriesInOrder, Ordered
  <1>3. WriterTyped'
    BY <1>1 DEF LogInv, WriterTyped
  <1>4. PathsInOrder'
    BY <1>1 DEF LogInv, PathsInOrder
  <1>5. OpenIsListed'
    BY <1>1 DEF LogInv, OpenIsListed, Requests!Clearing
  <1> QED BY <1>2, <1>3, <1>4, <1>5 DEF LogInv

LEMMA NodeKeeps == NodeInv /\ [Next]_nodeVars => NodeInv'
  <1> SUFFICES ASSUME NodeInv, [Next]_nodeVars PROVE NodeInv'
    OBVIOUS
  <1>1. /\ Limiter!LimitNext \/ UNCHANGED limiterVars
        /\ Worker!WorkerNext \/ UNCHANGED workerVars
        /\ Requests!LogNext \/ UNCHANGED requestsVars
        /\ Copies!BackupNext \/ UNCHANGED copiesVars
        /\ Schedule!CronNext \/ UNCHANGED scheduleVars
    BY DEF Next, nodeVars, LimiterStep, WorkerStep, RequestsStep, CopiesStep, ScheduleStep
  <1> QED
    BY <1>1, LimitKeeps, LimitRests, WorkerKeeps, WorkerRests, LogKeeps, LogRests, BackupKeeps,
       CronKeeps DEF NodeInv

LEMMA NodeSays == NodeInv => TypeOK /\ ReportsAreTrue
  BY LimitSays, WorkerSays, LogSays, BackupSays, CronSays DEF NodeInv, TypeOK, ReportsAreTrue

(* The invariant of what a node keeps while it serves.                         *)
THEOREM NodeInductive == Spec => []NodeInv
  BY NodeStart, NodeKeeps, PTL DEF Spec

(* The state of the rate limiter, of a function's run, of the request log, of  *)
(* the backups and of the search for the next time keeps its types.            *)
THEOREM NodeTypeCorrect == Spec => []TypeOK
  <1>1. NodeInv => TypeOK
    BY NodeSays
  <1> QED BY <1>1, NodeInductive, PTL

(* RateLimiter admits within the rate of a key; execOnce reports as a success  *)
(* only a run that came to its end with all its host calls; the request log    *)
(* lists what it wrote, in order; a completed backup has one state of each     *)
(* project, but for the overlaps named in the modules; and cronexpr.Next skips *)
(* no time of its expression: for any limits, counts, number of callers,       *)
(* calendar and expression.                                                    *)
THEOREM ReportsStayTrue == Spec => []ReportsAreTrue
  <1>1. NodeInv => ReportsAreTrue
    BY NodeSays
  <1> QED BY <1>1, NodeInductive, PTL
==============================================================================
