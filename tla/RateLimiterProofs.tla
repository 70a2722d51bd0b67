------------------------- MODULE RateLimiterProofs -------------------------
(***************************************************************************)
(* Proofs about RateLimiter, for any number of handlers and tenants, any   *)
(* rate, stall and clock bound, and any time to live; only what evictions  *)
(* cost (TenantIsBounded) asks that it is long enough.                     *)
(***************************************************************************)
EXTENDS RateLimiter, FiniteSetTheorems, TLAPS

\* A refilled bucket is no fuller than its capacity, nor than the elapsed time
\* explains.
LEMMA RefillBound ==
    ASSUME NEW x \in [tokens : Int, lastUpdate : Time, lastAccess : Time], NEW n \in Time
    PROVE  /\ Refill(x, n) \in [tokens : Int, lastUpdate : Time, lastAccess : Time]
           /\ Refill(x, n).lastUpdate = n
           /\ Refill(x, n).tokens <= maxTokens
           /\ Refill(x, n).tokens <= x.tokens + (n - x.lastUpdate)
<1>1. maxTokens \in Int
  BY LimiterAssumption DEF maxTokens, Second
<1>2. n \in Int /\ x.lastUpdate \in Int /\ x.tokens \in Int
  BY LimiterAssumption DEF Time
<1> HIDE DEF Time, maxTokens
<1> QED
  BY <1>1, <1>2 DEF Refill

\* Charging a bucket leaves its times alone.
LEMMA ChargeType ==
    ASSUME NEW x \in [tokens : Int, lastUpdate : Time, lastAccess : Time]
    PROVE  /\ Charge(x) \in [tokens : Int, lastUpdate : Time, lastAccess : Time]
           /\ Charge(x).tokens = x.tokens - Cost
           /\ Charge(x).lastUpdate = x.lastUpdate /\ Charge(x).lastAccess = x.lastAccess
<1> Cost \in Int
  BY LimiterAssumption
<1> HIDE DEF Time
<1> QED
  BY DEF Charge

\* What one more request adds to the history.
LEMMA SpendType ==
    ASSUME NEW c \in [Time \X Time -> Nat], NEW n \in Time
    PROVE  /\ Spend(c, n) \in [Time \X Time -> Nat]
           /\ \A s, e \in Time :
                Spend(c, n)[<<s, e>>] = c[<<s, e>>] + IF s <= n /\ n <= e THEN Cost ELSE 0
<1> Cost \in Nat
  BY LimiterAssumption
<1> HIDE DEF Time
<1> QED
  BY DEF Spend

\* Every step keeps the types and the shape of the pointers.
LEMMA TypeStep == TypeOK /\ PointerShape /\ [Next]_vars => TypeOK' /\ PointerShape'
<1> SUFFICES ASSUME TypeOK, PointerShape, [Next]_vars PROVE TypeOK' /\ PointerShape'
  OBVIOUS
<1> USE LimiterAssumption DEF TypeOK, PointerShape, handlerVars
<1>1. CASE Tick
  <2>1. clock' \in Time
    BY <1>1 DEF Tick, Time
  <2> QED
    BY <1>1, <2>1 DEF Tick
<1>2. ASSUME NEW h \in Handlers, NEW t \in Tenants, ReadClock(h, t) PROVE TypeOK' /\ PointerShape'
  BY <1>2 DEF ReadClock
<1>3. ASSUME NEW h \in Handlers, Found(h) PROVE TypeOK' /\ PointerShape'
  <2>1. limiters[tenant[h]] \in 0..MaxBuckets /\ limiters[tenant[h]] \in 1..made
    BY <1>3 DEF Found
  <2>2. TypeOK'
    BY <1>3, <2>1 DEF Found
  <2>3. PointerShape'
    BY <1>3, <2>1 DEF Found
  <2> QED
    BY <2>2, <2>3
<1>4. ASSUME NEW h \in Handlers, NewBucket(h) PROVE TypeOK' /\ PointerShape'
  <2>1. maxTokens \in Int /\ made + 1 \in Buckets
    BY <1>4 DEF NewBucket, maxTokens, Second, Buckets
  <2> DEFINE new == [tokens |-> maxTokens, lastUpdate |-> now[h], lastAccess |-> now[h]]
  <2>2. new \in [tokens : Int, lastUpdate : Time, lastAccess : Time]
    BY <2>1
  <2> HIDE DEF new
  <2>3. bucket' \in [Buckets -> [tokens : Int, lastUpdate : Time, lastAccess : Time]]
    BY <1>4, <2>1, <2>2 DEF NewBucket, new
  <2>4. TypeOK'
    <3>1. made + 1 \in 0..MaxBuckets
      BY <1>4 DEF NewBucket
    <3>2. limiters' \in [Tenants -> 0..MaxBuckets] /\ b' \in [Handlers -> 0..MaxBuckets] /\ made' \in 0..MaxBuckets
      BY <1>4, <3>1 DEF NewBucket
    <3>3. pc' \in [Handlers -> {"idle", "lookup", "take"}]
      BY <1>4 DEF NewBucket
    <3> QED
      BY <1>4, <2>3, <3>2, <3>3 DEF NewBucket
  <2>5. PointerShape'
    BY <1>4, <2>1 DEF NewBucket
  <2> QED
    BY <2>4, <2>5
<1>5. ASSUME NEW h \in Handlers, Allowed(h) PROVE TypeOK' /\ PointerShape'
  <2> DEFINE x == Refill(bucket[b[h]], now[h])
  <2>1. b[h] \in Buckets
    BY <1>5 DEF Allowed, Buckets
  <2>2. x \in [tokens : Int, lastUpdate : Time, lastAccess : Time]
    BY <2>1, RefillBound
  <2>3. Charge(x) \in [tokens : Int, lastUpdate : Time, lastAccess : Time]
    BY <2>2, ChargeType
  <2>4. Spend(spent[b[h]], now[h]) \in [Time \X Time -> Nat]
    BY <2>1, SpendType
  <2> HIDE DEF x
  <2>5. bucket' = [bucket EXCEPT ![b[h]] = Charge(x)]
    BY <1>5 DEF Allowed, x
  <2>6. spent' \in [Buckets -> [Time \X Time -> Nat]]
    BY <1>5, <2>1, <2>4 DEF Allowed
  <2>7. now' \in [Handlers -> Time] /\ b' \in [Handlers -> 0..MaxBuckets]
    BY <1>5 DEF Allowed, Return, Time
  <2>8. given' \in [Tenants -> [Time \X Time -> Nat]]
    <3>1. Spend(given[tenant[h]], now[h]) \in [Time \X Time -> Nat]
      BY SpendType
    <3> QED
      BY <1>5, <3>1 DEF Allowed
  <2>9. bucket' \in [Buckets -> [tokens : Int, lastUpdate : Time, lastAccess : Time]]
    BY <2>3, <2>5
  <2>10. TypeOK'
    BY <1>5, <2>6, <2>7, <2>8, <2>9 DEF Allowed, Return
  <2> QED
    BY <1>5, <2>10 DEF Allowed, Return
<1>6. ASSUME NEW h \in Handlers, Refused(h) PROVE TypeOK' /\ PointerShape'
  <2> DEFINE x == Refill(bucket[b[h]], now[h])
  <2>1. b[h] \in Buckets
    BY <1>6 DEF Refused, Buckets
  <2>2. x \in [tokens : Int, lastUpdate : Time, lastAccess : Time]
    BY <2>1, RefillBound
  <2> HIDE DEF x
  <2>3. bucket' = [bucket EXCEPT ![b[h]] = x]
    BY <1>6 DEF Refused, x
  <2>4. now' \in [Handlers -> Time] /\ b' \in [Handlers -> 0..MaxBuckets]
    BY <1>6 DEF Refused, Return, Time
  <2> QED
    <3>1. bucket' \in [Buckets -> [tokens : Int, lastUpdate : Time, lastAccess : Time]]
      BY <2>2, <2>3
    <3>2. TypeOK'
      BY <1>6, <2>4, <3>1 DEF Refused, Return
    <3>3. PointerShape'
      BY <1>6 DEF Refused, Return
    <3> QED
      BY <3>2, <3>3
<1>7. CASE StartCleanup
  BY <1>7 DEF StartCleanup
<1>8. ASSUME NEW t \in Tenants, Visit(t) PROVE TypeOK' /\ PointerShape'
  <2>1. limiters' \in [Tenants -> 0..MaxBuckets] /\ scan' \in SUBSET Tenants
    BY <1>8 DEF Visit
  <2>2. TypeOK'
    BY <1>8, <2>1 DEF Visit
  <2>3. \A u \in Tenants : u # t => limiters'[u] = limiters[u]
    BY <1>8 DEF Visit
  <2>4. \A u \in Tenants : limiters'[u] \in 0..made'
    BY <1>8 DEF Visit
  <2>5. scan' \subseteq {u \in Tenants : limiters'[u] # 0}
    BY <1>8, <2>3 DEF Visit
  <2>6. PointerShape'
    BY <1>8, <2>4, <2>5 DEF Visit
  <2> QED
    BY <2>2, <2>6
<1>9. CASE UNCHANGED vars
  BY <1>9 DEF vars
<1> QED
  BY <1>1, <1>2, <1>3, <1>4, <1>5, <1>6, <1>7, <1>8, <1>9 DEF Next, Handle

\* What a bucket gave and still has stays within its capacity and the refill.
LEMMA BudgetStep == Inv /\ [Next]_vars => Budget' /\ BucketBound'
<1> SUFFICES ASSUME Inv, [Next]_vars PROVE Budget' /\ BucketBound'
  OBVIOUS
<1>0. /\ TypeOK /\ PointerShape /\ Budget /\ BucketBound
      /\ maxTokens \in Nat /\ Cost \in Nat /\ \A n \in Time : n \in Nat
      /\ Buckets \subseteq Nat /\ made \in Nat
  <2>1. TypeOK /\ PointerShape /\ Budget /\ BucketBound
    BY DEF Inv
  <2>2. maxTokens \in Nat /\ Cost \in Nat /\ \A n \in Time : n \in Nat
    BY LimiterAssumption DEF maxTokens, Second, Time
  <2>3. Buckets \subseteq Nat /\ made \in Nat
    BY <2>1, LimiterAssumption DEF TypeOK, Buckets
  <2> QED
    BY <2>1, <2>2, <2>3
<1>1. CASE UNCHANGED <<bucket, spent, made>>
  BY <1>0, <1>1 DEF Budget, BucketBound
<1>2. ASSUME NEW h \in Handlers, NewBucket(h) PROVE Budget' /\ BucketBound'
  <2>1. /\ spent' = spent /\ made' = made + 1 /\ made + 1 \in Buckets
        /\ \A i \in Buckets : i # made + 1 => bucket'[i] = bucket[i]
    <3>1. made + 1 \in Buckets
      BY <1>0, <1>2, LimiterAssumption DEF NewBucket, Buckets
    <3> QED
      BY <1>0, <1>2, <3>1 DEF NewBucket, TypeOK
  <2>2. \A s, e \in Time : spent[made + 1][<<s, e>>] = 0
    <3>1. made + 1 > made
      BY <1>0
    <3> QED
      BY <1>0, <2>1, <3>1 DEF Budget
  <2>3. ASSUME NEW i \in Buckets, NEW s \in Time, NEW e \in Time
        PROVE  /\ i > made' => spent'[i][<<s, e>>] = 0
               /\ s <= e /\ spent'[i][<<s, e>>] > 0
                  => spent'[i][<<s, e>>] + bucket'[i].tokens <= maxTokens + (bucket'[i].lastUpdate - s)
    BY <1>0, <2>1, <2>2 DEF Budget
  <2> QED
    BY <1>0, <2>1, <2>3 DEF Budget, BucketBound
<1>3. ASSUME NEW h \in Handlers, Allowed(h) \/ Refused(h) PROVE Budget' /\ BucketBound'
  <2> DEFINE n == now[h]
             k == b[h]
             old == bucket[k]
             x == Refill(old, n)
  <2>1. k \in Buckets /\ k <= made /\ n \in Time /\ made' = made
    BY <1>0, <1>3 DEF Allowed, Refused, PointerShape, TypeOK, Buckets
  <2>2. old \in [tokens : Int, lastUpdate : Time, lastAccess : Time] /\ spent[k] \in [Time \X Time -> Nat]
    BY <1>0, <2>1 DEF TypeOK
  <2>3. /\ x \in [tokens : Int, lastUpdate : Time, lastAccess : Time]
        /\ x.lastUpdate = n /\ x.tokens <= maxTokens /\ x.tokens <= old.tokens + (n - old.lastUpdate)
    BY <2>1, <2>2, RefillBound
  <2>4. \A i \in Buckets : i # k => bucket'[i] = bucket[i] /\ spent'[i] = spent[i]
    BY <1>0, <1>3 DEF Allowed, Refused, TypeOK
  <2> HIDE DEF x
  <2>5. ASSUME Allowed(h), NEW s \in Time, NEW e \in Time
        PROVE  /\ s <= e /\ spent'[k][<<s, e>>] > 0
                  => spent'[k][<<s, e>>] + bucket'[k].tokens <= maxTokens + (bucket'[k].lastUpdate - s)
               /\ s <= e => spent'[k][<<s, e>>] <= maxTokens + (e - s)
    <3>1. x.tokens >= Cost /\ bucket'[k] = Charge(x) /\ spent'[k] = Spend(spent[k], n)
      BY <1>0, <2>1, <2>5 DEF Allowed, TypeOK, x
    <3>2. bucket'[k].tokens = x.tokens - Cost /\ bucket'[k].lastUpdate = n
      BY <2>3, <3>1, ChargeType
    <3>3. spent'[k][<<s, e>>] = spent[k][<<s, e>>] + IF s <= n /\ n <= e THEN Cost ELSE 0
      <4>1. \A t1, t2 \in Time :
              Spend(spent[k], n)[<<t1, t2>>] = spent[k][<<t1, t2>>] + IF t1 <= n /\ n <= t2 THEN Cost ELSE 0
        BY <2>1, <2>2, SpendType
      <4> QED
        BY <2>5, <3>1, <4>1
    <3>4. /\ spent[k][<<s, e>>] \in Nat
          /\ x.tokens \in Int /\ old.tokens \in Int /\ old.lastUpdate \in Nat /\ n \in Nat /\ s \in Nat /\ e \in Nat
      BY <1>0, <2>1, <2>2, <2>3
    <3>5. /\ s <= e /\ spent[k][<<s, e>>] > 0
             => spent[k][<<s, e>>] + old.tokens <= maxTokens + (old.lastUpdate - s)
          /\ s <= e => spent[k][<<s, e>>] <= maxTokens + (e - s)
      BY <1>0, <2>1 DEF Budget, BucketBound
    <3> HIDE DEF n, k, old
    <3> QED
      BY <1>0, <2>3, <3>1, <3>2, <3>3, <3>4, <3>5
  <2>6. ASSUME Refused(h), NEW s \in Time, NEW e \in Time
        PROVE  /\ s <= e /\ spent'[k][<<s, e>>] > 0
                  => spent'[k][<<s, e>>] + bucket'[k].tokens <= maxTokens + (bucket'[k].lastUpdate - s)
               /\ s <= e => spent'[k][<<s, e>>] <= maxTokens + (e - s)
    <3>1. bucket'[k] = x /\ spent' = spent
      BY <1>0, <2>1, <2>6 DEF Refused, TypeOK, x
    <3>4. /\ spent[k][<<s, e>>] \in Nat
          /\ x.tokens \in Int /\ old.tokens \in Int /\ old.lastUpdate \in Nat /\ n \in Nat /\ s \in Nat /\ e \in Nat
      BY <1>0, <2>1, <2>2, <2>3
    <3>5. /\ s <= e /\ spent[k][<<s, e>>] > 0
             => spent[k][<<s, e>>] + old.tokens <= maxTokens + (old.lastUpdate - s)
          /\ s <= e => spent[k][<<s, e>>] <= maxTokens + (e - s)
      BY <1>0, <2>1 DEF Budget, BucketBound
    <3> HIDE DEF n, k, old
    <3> QED
      BY <1>0, <2>3, <3>1, <3>4, <3>5
  <2> HIDE DEF n, k, old
  <2>7. ASSUME NEW i \in Buckets, NEW s \in Time, NEW e \in Time
        PROVE  /\ i > made' => spent'[i][<<s, e>>] = 0
               /\ s <= e /\ spent'[i][<<s, e>>] > 0
                  => spent'[i][<<s, e>>] + bucket'[i].tokens <= maxTokens + (bucket'[i].lastUpdate - s)
               /\ s <= e => spent'[i][<<s, e>>] <= maxTokens + (e - s)
    <3>1. CASE i = k
      BY <1>0, <1>3, <2>1, <2>5, <2>6, <3>1
    <3>2. CASE i # k
      BY <1>0, <2>1, <2>4, <3>2 DEF Budget, BucketBound
    <3> QED
      BY <3>1, <3>2
  <2> QED
    BY <2>7 DEF Budget, BucketBound
<1>4. \/ UNCHANGED <<bucket, spent, made>>
      \/ \E h \in Handlers : NewBucket(h) \/ Allowed(h) \/ Refused(h)
  BY DEF Next, Handle, Tick, ReadClock, Found, StartCleanup, Visit, vars
<1> QED
  BY <1>1, <1>2, <1>3, <1>4

\* A handler's reading is never ahead of the clock, and a longer interval holds more.
LEMMA PastStep == Inv /\ [Next]_vars => ReadingsArePast' /\ Monotone'
<1> SUFFICES ASSUME Inv, [Next]_vars PROVE ReadingsArePast' /\ Monotone'
  OBVIOUS
<1>0. /\ TypeOK /\ PointerShape /\ ReadingsArePast /\ Monotone
      /\ Cost \in Nat /\ \A n \in Time : n \in Nat
  BY LimiterAssumption DEF Inv, Time
<1>1. ReadingsArePast'
  <2>1. CASE Tick
    BY <1>0, <2>1 DEF Tick, handlerVars, ReadingsArePast, TypeOK
  <2>2. ASSUME NEW h \in Handlers, NEW t \in Tenants, ReadClock(h, t) PROVE ReadingsArePast'
    BY <1>0, <2>2 DEF ReadClock, ReadingsArePast, TypeOK
  <2>3. ASSUME NEW h \in Handlers, Allowed(h) \/ Refused(h) PROVE ReadingsArePast'
    <3>1. now' = [now EXCEPT ![h] = 0] /\ clock' = clock
      BY <2>3 DEF Allowed, Refused, Return
    <3> QED
      BY <1>0, <3>1 DEF ReadingsArePast, TypeOK
  <2>4. ASSUME UNCHANGED <<now, clock>> PROVE ReadingsArePast'
    BY <1>0, <2>4 DEF ReadingsArePast
  <2> QED
    BY <2>1, <2>2, <2>3, <2>4 DEF Next, Handle, Found, NewBucket, StartCleanup, Visit, handlerVars, vars
<1>2. Monotone'
  <2>1. ASSUME NEW h \in Handlers, Allowed(h) PROVE Monotone'
    <3> DEFINE n == now[h]
               k == b[h]
    <3>0. k \in Buckets /\ n \in Time
      BY <1>0, <2>1 DEF Allowed, PointerShape, TypeOK, Buckets
    <3>1. k \in Buckets /\ n \in Time /\ spent[k] \in [Time \X Time -> Nat]
      BY <1>0, <3>0 DEF TypeOK
    <3>2. spent' = [spent EXCEPT ![k] = Spend(spent[k], n)]
      BY <2>1 DEF Allowed
    <3>3. \A s, e \in Time : Spend(spent[k], n)[<<s, e>>] = spent[k][<<s, e>>] + IF s <= n /\ n <= e THEN Cost ELSE 0
      BY <3>1, SpendType
    <3>4. spent'[k] = Spend(spent[k], n) /\ \A i \in Buckets : i # k => spent'[i] = spent[i]
      BY <1>0, <3>1, <3>2 DEF TypeOK
    <3>5. ASSUME NEW s \in Time, NEW e \in Time, NEW f \in Time, e <= f
          PROVE  spent'[k][<<s, e>>] <= spent'[k][<<s, f>>]
      <4>1. spent[k][<<s, e>>] <= spent[k][<<s, f>>] /\ spent[k][<<s, e>>] \in Nat /\ spent[k][<<s, f>>] \in Nat
        BY <1>0, <3>1, <3>5 DEF Monotone
      <4>2. n \in Nat /\ e \in Nat /\ f \in Nat /\ s \in Nat
        BY <1>0, <3>1
      <4>3. /\ spent'[k][<<s, e>>] = spent[k][<<s, e>>] + IF s <= n /\ n <= e THEN Cost ELSE 0
            /\ spent'[k][<<s, f>>] = spent[k][<<s, f>>] + IF s <= n /\ n <= f THEN Cost ELSE 0
        BY <3>3, <3>4
      <4> HIDE DEF n, k
      <4> QED
        BY <1>0, <3>5, <4>1, <4>2, <4>3
    <3> HIDE DEF n, k
    <3> QED
      BY <1>0, <3>4, <3>5 DEF Monotone
  <2>2. ASSUME UNCHANGED spent PROVE Monotone'
    BY <1>0, <2>2 DEF Monotone
  <2> QED
    BY <2>1, <2>2 DEF Next, Handle, Tick, ReadClock, Found, NewBucket, Refused, StartCleanup, Visit, vars
<1> QED
  BY <1>1, <1>2

\* What a refill leaves, exactly.
LEMMA RefillValue ==
    ASSUME NEW x \in [tokens : Int, lastUpdate : Time, lastAccess : Time], NEW n \in Time
    PROVE  /\ Refill(x, n).lastUpdate = n /\ Refill(x, n).lastAccess = n
           /\ \/ Refill(x, n).tokens = maxTokens
              \/ Refill(x, n).tokens = x.tokens + (n - x.lastUpdate)
  BY DEF Refill

\* A bucket is a record of numbers.
LEMMA BucketNumbers ==
    ASSUME TypeOK, NEW i \in Buckets, NEW s \in Time
    PROVE  /\ bucket[i] \in [tokens : Int, lastUpdate : Time, lastAccess : Time]
           /\ bucket[i].tokens \in Int /\ bucket[i].lastUpdate \in Nat
           /\ spent[i][<<s, clock>>] \in Nat /\ clock \in Nat /\ s \in Nat
<1>1. \A n \in Time : n \in Nat
  BY LimiterAssumption DEF Time
<1>2. /\ bucket[i] \in [tokens : Int, lastUpdate : Time, lastAccess : Time]
      /\ spent[i] \in [Time \X Time -> Nat] /\ clock \in Time
  BY DEF TypeOK
<1> HIDE DEF Time
<1> QED
  BY <1>1, <1>2

(***************************************************************************)
(* What a bucket gave and has does not fall below its fair share.  A       *)
(* refill leaves tokens - lastUpdate alone unless it fills the bucket; a   *)
(* grant moves Cost from the tokens to the history of every interval that  *)
(* holds the reading, and one before the interval leaves tokens >= 0.      *)
(***************************************************************************)
LEMMA FairStep == Inv /\ [Next]_vars => Fair'
<1> SUFFICES ASSUME Inv, [Next]_vars PROVE Fair'
  OBVIOUS
<1>0. /\ TypeOK /\ PointerShape /\ ReadingsArePast /\ Monotone /\ Fair
      /\ maxTokens \in Nat /\ Cost \in Nat \ {0} /\ Cost <= maxTokens
      /\ Buckets \subseteq Nat /\ made \in Nat
  <2>1. TypeOK /\ PointerShape /\ ReadingsArePast /\ Monotone /\ Fair
    BY DEF Inv
  <2>2. \A r, c \in Nat \ {0} : r * c \in Nat /\ c <= r * c
    BY SMT
  <2>3. maxTokens \in Nat /\ Cost <= maxTokens /\ Cost \in Nat \ {0}
    BY <2>2, LimiterAssumption DEF maxTokens, Second
  <2>4. Buckets \subseteq Nat /\ made \in Nat
    BY <2>1, LimiterAssumption DEF TypeOK, Buckets
  <2> QED
    BY <2>1, <2>3, <2>4
<1>1. CASE UNCHANGED <<bucket, spent, made, clock>>
  BY <1>0, <1>1 DEF Fair
<1>2. CASE Tick
  <2> SUFFICES ASSUME NEW i \in Buckets, NEW s \in Time, i <= made
               PROVE  LET worth == spent[i][<<s, clock + 1>>] + bucket[i].tokens - bucket[i].lastUpdate
                      IN  worth >= maxTokens - (clock + 1) \/ (s > 0 /\ worth >= 1 - s)
    BY <1>2 DEF Tick, Fair
  <2>1. /\ bucket[i].tokens \in Int /\ bucket[i].lastUpdate \in Nat
        /\ spent[i][<<s, clock>>] \in Nat /\ clock \in Nat /\ s \in Nat
    BY <1>0, BucketNumbers
  <2>2. clock + 1 \in Time /\ clock \in Time
    BY <1>0, <1>2, LimiterAssumption DEF Tick, Time, TypeOK
  <2>3. spent[i][<<s, clock>>] <= spent[i][<<s, clock + 1>>] /\ spent[i][<<s, clock + 1>>] \in Nat
    BY <1>0, <2>1, <2>2 DEF Monotone, TypeOK
  <2>4. LET worth == spent[i][<<s, clock>>] + bucket[i].tokens - bucket[i].lastUpdate
        IN  worth >= maxTokens - clock \/ (s > 0 /\ worth >= 1 - s)
    BY <1>0 DEF Fair
  <2> QED
    BY <1>0, <2>1, <2>3, <2>4
<1>3. ASSUME NEW h \in Handlers, NewBucket(h) PROVE Fair'
  <2>1. /\ spent' = spent /\ made' = made + 1 /\ clock' = clock /\ made + 1 \in Buckets
        /\ bucket'[made + 1].tokens = maxTokens /\ bucket'[made + 1].lastUpdate = now[h]
        /\ \A i \in Buckets : i # made + 1 => bucket'[i] = bucket[i]
    <3>1. made + 1 \in Buckets
      BY <1>0, <1>3, LimiterAssumption DEF NewBucket, Buckets
    <3> QED
      BY <1>0, <1>3, <3>1 DEF NewBucket, TypeOK
  <2>2. now[h] \in Nat /\ now[h] <= clock
    BY <1>0, LimiterAssumption DEF ReadingsArePast, TypeOK, Time
  <2>3. ASSUME NEW i \in Buckets, NEW s \in Time, i <= made'
        PROVE  LET worth == spent'[i][<<s, clock'>>] + bucket'[i].tokens - bucket'[i].lastUpdate
               IN  worth >= maxTokens - clock' \/ (s > 0 /\ worth >= 1 - s)
    <3>1. spent[i][<<s, clock>>] \in Nat /\ clock \in Nat
      BY <1>0, BucketNumbers
    <3>2. CASE i = made + 1
      BY <1>0, <2>1, <2>2, <3>1, <3>2
    <3>3. CASE i # made + 1
      BY <1>0, <2>1, <2>3, <3>3 DEF Fair
    <3> QED
      BY <3>2, <3>3
  <2> QED
    BY <2>3 DEF Fair
<1>4. ASSUME NEW h \in Handlers, Allowed(h) \/ Refused(h) PROVE Fair'
  <2> DEFINE n == now[h]
             k == b[h]
             old == bucket[k]
             x == Refill(old, n)
  <2>1. k \in Buckets /\ k <= made /\ n \in Time /\ made' = made /\ clock' = clock
    BY <1>0, <1>4 DEF Allowed, Refused, PointerShape, TypeOK, Buckets
  <2>2. n \in Nat /\ n <= clock
    BY <1>0, LimiterAssumption DEF ReadingsArePast, TypeOK, Time
  <2>3. old \in [tokens : Int, lastUpdate : Time, lastAccess : Time] /\ spent[k] \in [Time \X Time -> Nat] /\ clock \in Time
    BY <1>0, <2>1 DEF TypeOK
  <2>4. /\ x \in [tokens : Int, lastUpdate : Time, lastAccess : Time] /\ x.tokens \in Int
        /\ x.lastUpdate = n /\ (x.tokens = maxTokens \/ x.tokens = old.tokens + (n - old.lastUpdate))
    BY <2>1, <2>3, RefillBound, RefillValue
  <2>5. \A i \in Buckets : i # k => bucket'[i] = bucket[i] /\ spent'[i] = spent[i]
    BY <1>0, <1>4 DEF Allowed, Refused, TypeOK
  <2> HIDE DEF x
  <2>6. ASSUME NEW s \in Time
        PROVE  LET worth == spent'[k][<<s, clock>>] + bucket'[k].tokens - bucket'[k].lastUpdate
               IN  worth >= maxTokens - clock \/ (s > 0 /\ worth >= 1 - s)
    <3>1. /\ old.tokens \in Int /\ old.lastUpdate \in Nat
          /\ spent[k][<<s, clock>>] \in Nat /\ clock \in Nat /\ s \in Nat
      BY <1>0, <2>1, BucketNumbers
    <3>2. LET worth == spent[k][<<s, clock>>] + old.tokens - old.lastUpdate
          IN  worth >= maxTokens - clock \/ (s > 0 /\ worth >= 1 - s)
      BY <1>0, <2>1 DEF Fair
    <3>3. CASE Allowed(h)
      <4>1. x.tokens >= Cost /\ bucket'[k] = Charge(x) /\ spent'[k] = Spend(spent[k], n)
        BY <1>0, <2>1, <3>3 DEF Allowed, TypeOK, x
      <4>2. bucket'[k].tokens = x.tokens - Cost /\ bucket'[k].lastUpdate = n
        BY <2>4, <4>1, ChargeType
      <4>3. spent'[k][<<s, clock>>] = spent[k][<<s, clock>>] + IF s <= n /\ n <= clock THEN Cost ELSE 0
        <5>1. \A t1, t2 \in Time :
                Spend(spent[k], n)[<<t1, t2>>] = spent[k][<<t1, t2>>] + IF t1 <= n /\ n <= t2 THEN Cost ELSE 0
          BY <2>1, <2>3, SpendType
        <5> QED
          BY <2>3, <2>6, <4>1, <5>1
      <4> HIDE DEF n, k, old
      <4>4. CASE s <= n
        BY <1>0, <2>2, <2>4, <3>1, <3>2, <4>1, <4>2, <4>3, <4>4
      <4>5. CASE s > n
        BY <1>0, <2>2, <2>4, <3>1, <4>1, <4>2, <4>3, <4>5
      <4> QED
        BY <2>2, <3>1, <4>4, <4>5
    <3>4. CASE Refused(h)
      <4>1. bucket'[k] = x /\ spent' = spent /\ x.tokens < Cost
        BY <1>0, <2>1, <3>4 DEF Refused, TypeOK, x
      <4> HIDE DEF n, k, old
      <4> QED
        BY <1>0, <2>2, <2>4, <3>1, <3>2, <4>1
    <3> QED
      BY <1>4, <3>3, <3>4
  <2> HIDE DEF n, k, old
  <2>7. ASSUME NEW i \in Buckets, NEW s \in Time, i <= made
        PROVE  LET worth == spent'[i][<<s, clock>>] + bucket'[i].tokens - bucket'[i].lastUpdate
               IN  worth >= maxTokens - clock \/ (s > 0 /\ worth >= 1 - s)
    <3>1. CASE i = k
      BY <2>6, <3>1
    <3>2. CASE i # k
      BY <1>0, <2>5, <2>7, <3>2 DEF Fair
    <3> QED
      BY <3>1, <3>2
  <2> QED
    BY <2>1, <2>7 DEF Fair
<1>5. \/ UNCHANGED <<bucket, spent, made, clock>> \/ Tick
      \/ \E h \in Handlers : NewBucket(h) \/ Allowed(h) \/ Refused(h)
  BY DEF Next, Handle, ReadClock, Found, StartCleanup, Visit, vars
<1> QED
  BY <1>1, <1>2, <1>3, <1>4, <1>5

(***************************************************************************)
(* Inv holds in every reachable state of the limiter.                      *)
(***************************************************************************)
THEOREM Invariance == Spec => []Inv
<1>1. Init => Inv
  <2> SUFFICES ASSUME Init PROVE Inv
    OBVIOUS
  <2>1. SomeTenant \in Tenants
    BY LimiterAssumption DEF SomeTenant
  <2>2. 0 \in Time /\ Empty \in [tokens : Int, lastUpdate : Time, lastAccess : Time]
    BY LimiterAssumption DEF Time, Empty
  <2>3. TypeOK /\ PointerShape
    <3>1. given \in [Tenants -> [Time \X Time -> Nat]] /\ spent \in [Buckets -> [Time \X Time -> Nat]]
      BY DEF Init
    <3> QED
      BY LimiterAssumption, <2>1, <2>2, <3>1 DEF Init, TypeOK, PointerShape
  <2>4. Budget /\ BucketBound
    <3>1. \A i \in Buckets, s, e \in Time : spent[i][<<s, e>>] = 0
      BY DEF Init
    <3>2. maxTokens \in Nat /\ \A n \in Time : n \in Nat
      BY LimiterAssumption DEF maxTokens, Second, Time
    <3> QED
      BY <3>1, <3>2 DEF Budget, BucketBound
  <2>5. ReadingsArePast /\ Monotone
    BY DEF Init, ReadingsArePast, Monotone
  <2>6. Fair
    BY LimiterAssumption DEF Init, Fair, Buckets
  <2> QED
    BY <2>3, <2>4, <2>5, <2>6 DEF Inv
<1>2. Inv /\ [Next]_vars => Inv'
  BY TypeStep, BudgetStep, PastStep, FairStep DEF Inv
<1> QED
  BY <1>1, <1>2, PTL DEF Spec

(***************************************************************************)
(* In any interval a bucket gives at most its capacity and the refill of   *)
(* the interval, in whatever order stale clock readings reach it.          *)
(***************************************************************************)
THEOREM BucketIsBounded == Spec => []BucketBound
<1>1. Inv => BucketBound
  BY DEF Inv
<1> QED
  BY <1>1, Invariance, PTL

(***************************************************************************)
(* allow refuses a request only when its bucket gave a full second's worth *)
(* in the last second, up to what refills since the request read the       *)
(* clock, for any number of handlers that overtake one another.            *)
(***************************************************************************)
THEOREM RefusalIsFair == Spec => FairRefusal
<1> DEFINE from == IF clock < Second THEN 0 ELSE clock - Second + 1
<1>1. ASSUME Inv, [Next]_vars, NEW h \in Handlers, pc[h] = "take", pc'[h] = "idle", spent' = spent
      PROVE  spent[b[h]][<<from, clock>>] + (clock - now[h]) > Second - Cost
  <2> DEFINE n == now[h]
             k == b[h]
             old == bucket[k]
             x == Refill(old, n)
  <2>0. /\ TypeOK /\ PointerShape /\ ReadingsArePast /\ Fair
        /\ maxTokens \in Nat /\ Second = maxTokens /\ Cost \in Nat \ {0} /\ Cost <= maxTokens
    <3>1. \A r, c \in Nat \ {0} : r * c \in Nat /\ c <= r * c
      BY SMT
    <3> QED
      BY <1>1, <3>1, LimiterAssumption DEF Inv, maxTokens, Second
  <2>1. k \in Buckets /\ k <= made /\ n \in Time /\ n \in Nat
    BY <1>1, <2>0, LimiterAssumption DEF PointerShape, TypeOK, Buckets, Time
  <2>2. old \in [tokens : Int, lastUpdate : Time, lastAccess : Time] /\ spent[k] \in [Time \X Time -> Nat] /\ clock \in Time
    BY <2>0, <2>1 DEF TypeOK
  <2>3. ~Allowed(h)
    <3>1. ASSUME Allowed(h) PROVE FALSE
      <4>1. spent'[k] = Spend(spent[k], n)
        BY <2>0, <2>1, <3>1 DEF Allowed, TypeOK
      <4>2. Spend(spent[k], n)[<<n, n>>] = spent[k][<<n, n>>] + Cost
        <5>1. \A t1, t2 \in Time :
                Spend(spent[k], n)[<<t1, t2>>] = spent[k][<<t1, t2>>] + IF t1 <= n /\ n <= t2 THEN Cost ELSE 0
          BY <2>1, <2>2, SpendType
        <5> QED
          BY <2>1, <5>1
      <4>3. spent[k][<<n, n>>] \in Nat
        BY <2>1, <2>2
      <4>4. spent[k][<<n, n>>] = spent[k][<<n, n>>] + Cost
        BY <1>1, <4>1, <4>2
      <4> HIDE DEF n, k
      <4> QED
        BY <2>0, <4>3, <4>4
    <3> QED
      BY <3>1
  <2>5. Refused(h)
    <3>1. ASSUME NEW g \in Handlers, Allowed(g) \/ Refused(g) \/ Found(g) \/ NewBucket(g) \/ (\E t \in Tenants : ReadClock(g, t)),
                 g # h
          PROVE  FALSE
      BY <1>1, <2>0, <3>1 DEF Allowed, Refused, Found, NewBucket, ReadClock, Return, TypeOK
    <3>2. ~Found(h) /\ ~NewBucket(h) /\ ~(\E t \in Tenants : ReadClock(h, t))
      BY <1>1 DEF Found, NewBucket, ReadClock
    <3>3. pc' # pc
      BY <1>1
    <3> QED
      BY <1>1, <2>3, <3>1, <3>2, <3>3 DEF Next, Handle, Tick, StartCleanup, Visit, handlerVars, vars
  <2>6. x.tokens < Cost /\ x.tokens \in Int /\ (x.tokens = maxTokens \/ x.tokens = old.tokens + (n - old.lastUpdate))
    BY <2>1, <2>2, <2>5, RefillBound, RefillValue DEF Refused
  <2>7. from \in Time /\ clock \in Nat
    BY <2>0, <2>2, LimiterAssumption DEF Time
  <2>8. old.tokens \in Int /\ old.lastUpdate \in Nat /\ spent[k][<<from, clock>>] \in Nat /\ from \in Nat
    BY <2>0, <2>1, <2>7, BucketNumbers
  <2>9. LET worth == spent[k][<<from, clock>>] + old.tokens - old.lastUpdate
        IN  worth >= maxTokens - clock \/ (from > 0 /\ worth >= 1 - from)
    BY <2>0, <2>1, <2>7 DEF Fair
  <2>10. from > 0 => 1 - from = maxTokens - clock
    BY <2>0, <2>7
  <2> HIDE DEF from, x, n, k, old
  <2>11. spent[k][<<from, clock>>] + (clock - n) > Second - Cost
    BY <2>0, <2>1, <2>6, <2>7, <2>8, <2>9, <2>10
  <2> QED
    BY <2>11 DEF n, k
<1>2. Inv /\ [Next]_vars =>
        [\A h \in Handlers :
           LET from_ == IF clock < Second THEN 0 ELSE clock - Second + 1
           IN  pc[h] = "take" /\ pc'[h] = "idle" /\ spent' = spent
               => spent[b[h]][<<from_, clock>>] + (clock - now[h]) > Second - Cost]_vars
  BY <1>1
<1> QED
  BY <1>2, Invariance, PTL DEF Spec, FairRefusal

-----------------------------------------------------------------------------
(* A tenant and all its buckets.                                           *)

\* The units that a set of handlers may take, one request each.
Weight(S) == Cost * Cardinality(S)

\* The weight of sets of handlers.
LEMMA WeightFacts ==
    /\ Spare \in Nat /\ Weight({}) = 0
    /\ \A S \in SUBSET Handlers : Weight(S) \in Nat /\ Weight(S) <= Spare
    /\ \A S \in SUBSET Handlers, h \in Handlers : Weight(S \ {h}) <= Weight(S)
    /\ \A S \in SUBSET Handlers : \A h \in S : Weight(S \ {h}) = Weight(S) - Cost
<1>1. \A c, j, k \in Nat : c * j \in Nat /\ (j <= k => c * j <= c * k) /\ c * 0 = 0
  BY SMT
<1>2. \A c \in Nat, k \in Nat \ {0} : c * (k - 1) = c * k - c
  BY SMT
<1>3. Cost \in Nat /\ IsFiniteSet(Handlers) /\ Cardinality(Handlers) \in Nat
  BY LimiterAssumption, FS_CardinalityType
<1>4. ASSUME NEW S \in SUBSET Handlers
      PROVE  /\ IsFiniteSet(S) /\ Cardinality(S) \in Nat /\ Cardinality(S) <= Cardinality(Handlers)
  BY <1>3, FS_Subset, FS_CardinalityType
<1>5. ASSUME NEW S \in SUBSET Handlers, NEW h \in S
      PROVE  Weight(S \ {h}) = Weight(S) - Cost
  <2>1. IsFiniteSet(S) /\ Cardinality(S) \in Nat
    BY <1>4
  <2>2. Cardinality(S \ {h}) = Cardinality(S) - 1
    BY <2>1, FS_RemoveElement
  <2>3. Cardinality(S) \in Nat \ {0}
    BY <2>1, FS_EmptySet
  <2>4. Cost * (Cardinality(S) - 1) = Cost * Cardinality(S) - Cost
    BY <1>2, <1>3, <2>3
  <2> QED
    BY <2>2, <2>4 DEF Weight
<1>6. ASSUME NEW S \in SUBSET Handlers
      PROVE  Weight(S) \in Nat /\ Weight(S) <= Spare
  BY <1>1, <1>3, <1>4 DEF Weight, Spare
<1>7. ASSUME NEW S \in SUBSET Handlers, NEW h \in Handlers
      PROVE  Weight(S \ {h}) <= Weight(S)
  <2>1. CASE h \in S
    BY <1>3, <1>5, <1>6, <2>1
  <2>2. CASE h \notin S
    <3>1. S \ {h} = S
      BY <2>2
    <3> QED
      BY <1>6, <3>1
  <2> QED
    BY <2>1, <2>2
<1>8. Weight({}) = 0 /\ Spare \in Nat
  BY <1>1, <1>3, FS_EmptySet DEF Weight, Spare
<1> QED
  BY <1>5, <1>6, <1>7, <1>8

\* The numbers of a tenant and an interval.
LEMMA TenantNumbers ==
    ASSUME TypeOK, NEW t \in Tenants, NEW s \in Time, NEW e \in Time
    PROVE  /\ s \in Nat /\ e \in Nat /\ clock \in Nat /\ MaxStall \in Nat /\ TTL \in Nat
           /\ maxTokens \in Nat /\ Cost \in Nat /\ Spare \in Nat
           /\ given[t][<<s, e>>] \in Nat
           /\ Stale(t, s, e) \in SUBSET Handlers
           /\ Weight(Stale(t, s, e)) \in Nat /\ Weight(Stale(t, s, e)) <= Spare
           /\ Claim(t, s, e) = given[t][<<s, e>>] + Weight(Stale(t, s, e))
           /\ limiters[t] \in Nat /\ made \in Nat
           /\ \A h \in Handlers : now[h] \in Nat
           /\ \A i \in Buckets : bucket[i].tokens \in Int /\ bucket[i].lastUpdate \in Nat /\ bucket[i].lastAccess \in Nat
<1>1. \A n \in Time : n \in Nat
  BY LimiterAssumption DEF Time
<1>2. maxTokens \in Nat /\ Cost \in Nat /\ MaxStall \in Nat /\ TTL \in Nat
  BY LimiterAssumption DEF maxTokens, Second
<1>3. given[t] \in [Time \X Time -> Nat] /\ clock \in Time
  BY DEF TypeOK
<1>4. given[t][<<s, e>>] \in Nat
  BY <1>3
<1>5. Stale(t, s, e) \in SUBSET Handlers
  BY DEF Stale
<1>6. Weight(Stale(t, s, e)) \in Nat /\ Weight(Stale(t, s, e)) <= Spare /\ Spare \in Nat
  BY <1>5, WeightFacts
<1>7. Claim(t, s, e) = given[t][<<s, e>>] + Weight(Stale(t, s, e))
  BY DEF Claim, Weight
<1>8. limiters[t] \in Nat /\ made \in Nat /\ \A h \in Handlers : now[h] \in Nat
  BY <1>1, LimiterAssumption DEF TypeOK
<1>9. \A i \in Buckets : bucket[i].tokens \in Int /\ bucket[i].lastUpdate \in Nat /\ bucket[i].lastAccess \in Nat
  BY <1>1 DEF TypeOK
<1> QED
  BY <1>1, <1>2, <1>3, <1>4, <1>5, <1>6, <1>7, <1>8, <1>9

\* Handlers are not later than MaxStall, and a bucket is not far below zero.
LEMMA PunctualStep == Inv /\ Punctual /\ [Next]_vars => Punctual'
<1> SUFFICES ASSUME Inv, Punctual, [Next]_vars PROVE Punctual'
  OBVIOUS
<1>0. TypeOK /\ PointerShape /\ ReadingsArePast /\ TypeOK'
  BY TypeStep DEF Inv
<1>1. /\ clock \in Nat /\ clock' \in Nat /\ MaxStall \in Nat /\ maxTokens \in Nat /\ Cost \in Nat /\ cleanNow \in Nat
      /\ \A h \in Handlers : now[h] \in Nat
      /\ \A i \in Buckets : bucket[i].tokens \in Int /\ bucket[i].lastUpdate \in Nat
  <2>1. \A n \in Time : n \in Nat
    BY LimiterAssumption DEF Time
  <2>2. maxTokens \in Nat /\ Cost \in Nat /\ MaxStall \in Nat
    BY LimiterAssumption DEF maxTokens, Second
  <2> QED
    BY <1>0, <2>1, <2>2 DEF TypeOK
<1>2. CASE Tick
  <2>1. /\ clock' = clock + 1 /\ UNCHANGED <<pc, now, bucket, cleanNow>>
        /\ \A h \in Handlers : pc[h] # "idle" => clock - now[h] < MaxStall
    BY <1>2 DEF Tick, handlerVars
  <2>2. ASSUME NEW h \in Handlers, pc[h] # "idle" PROVE clock + 1 - now[h] <= MaxStall
    BY <1>1, <2>1, <2>2
  <2>3. ASSUME NEW i \in Buckets
        PROVE  /\ bucket[i].lastAccess = bucket[i].lastUpdate
               /\ bucket[i].tokens >= bucket[i].lastUpdate - (clock + 1) /\ bucket[i].tokens >= 0 - MaxStall
    BY <1>1 DEF Punctual
  <2>4. cleanNow <= clock + 1
    BY <1>1 DEF Punctual
  <2>5. pc' = pc /\ now' = now /\ bucket' = bucket /\ cleanNow' = cleanNow /\ clock' = clock + 1
    BY <2>1
  <2>6. ASSUME NEW h \in Handlers, pc'[h] # "idle" PROVE clock' - now'[h] <= MaxStall
    <3>1. pc[h] # "idle" /\ now'[h] = now[h] /\ clock' = clock + 1
      BY <2>5, <2>6
    <3>2. clock + 1 - now[h] <= MaxStall
      BY <2>2, <3>1
    <3> QED
      BY <1>1, <3>1, <3>2
  <2>7. ASSUME NEW i \in Buckets
        PROVE  /\ bucket'[i].lastAccess = bucket'[i].lastUpdate
               /\ bucket'[i].tokens >= bucket'[i].lastUpdate - clock' /\ bucket'[i].tokens >= 0 - MaxStall
    BY <2>3, <2>5
  <2>8. cleanNow' <= clock'
    BY <2>4, <2>5
  <2> QED
    BY <2>6, <2>7, <2>8 DEF Punctual
<1>3. ASSUME NEW h \in Handlers, NEW t \in Tenants, ReadClock(h, t) PROVE Punctual'
  <2>1. clock - clock <= MaxStall
    BY <1>1
  <2>2. \A g \in Handlers : pc'[g] # "idle" => clock - now'[g] <= MaxStall
    BY <1>0, <1>3, <2>1 DEF ReadClock, Punctual, TypeOK
  <2> QED
    BY <1>3, <2>2 DEF ReadClock, Punctual
<1>4. ASSUME NEW h \in Handlers, Found(h) PROVE Punctual'
  <2>1. \A g \in Handlers : pc'[g] # "idle" => pc[g] # "idle"
    BY <1>0, <1>4 DEF Found, TypeOK
  <2> QED
    BY <1>4, <2>1 DEF Found, Punctual
<1>5. ASSUME NEW h \in Handlers, NewBucket(h) PROVE Punctual'
  <2>1. \A g \in Handlers : pc'[g] # "idle" => pc[g] # "idle"
    BY <1>0, <1>5 DEF NewBucket, TypeOK
  <2>2. now[h] <= clock
    BY <1>0 DEF ReadingsArePast
  <2>3. made + 1 \in Buckets
    BY <1>0, <1>5, LimiterAssumption DEF NewBucket, Buckets, TypeOK
  <2>4. /\ bucket'[made + 1] = [tokens |-> maxTokens, lastUpdate |-> now[h], lastAccess |-> now[h]]
        /\ \A i \in Buckets : i # made + 1 => bucket'[i] = bucket[i]
    BY <1>0, <1>5, <2>3 DEF NewBucket, TypeOK
  <2>5. maxTokens >= now[h] - clock /\ maxTokens >= 0 - MaxStall
    BY <1>1, <2>2
  <2>6. ASSUME NEW i \in Buckets
        PROVE  /\ bucket'[i].lastAccess = bucket'[i].lastUpdate
               /\ bucket'[i].tokens >= bucket'[i].lastUpdate - clock /\ bucket'[i].tokens >= 0 - MaxStall
    <3>1. CASE i = made + 1
      BY <2>4, <2>5, <3>1
    <3>2. CASE i # made + 1
      BY <2>4, <3>2 DEF Punctual
    <3> QED
      BY <3>1, <3>2
  <2> QED
    BY <1>5, <2>1, <2>6 DEF NewBucket, Punctual
<1>6. ASSUME NEW h \in Handlers, Allowed(h) \/ Refused(h) PROVE Punctual'
  <2> DEFINE n == now[h]
             k == b[h]
             old == bucket[k]
             x == Refill(old, n)
  <2>1. /\ pc[h] = "take" /\ pc' = [pc EXCEPT ![h] = "idle"] /\ now' = [now EXCEPT ![h] = 0]
        /\ UNCHANGED <<clock, cleanNow>>
    BY <1>6 DEF Allowed, Refused, Return
  <2>2. k \in Buckets /\ n \in Time /\ n <= clock /\ clock - n <= MaxStall /\ n \in Nat
    BY <1>0, <1>1, <2>1 DEF PointerShape, TypeOK, Buckets, ReadingsArePast, Punctual
  <2>3. old \in [tokens : Int, lastUpdate : Time, lastAccess : Time]
    BY <1>0, <2>2 DEF TypeOK
  <2>4. /\ x \in [tokens : Int, lastUpdate : Time, lastAccess : Time] /\ x.tokens \in Int
        /\ x.lastUpdate = n /\ x.lastAccess = n
        /\ (x.tokens = maxTokens \/ x.tokens = old.tokens + (n - old.lastUpdate))
    BY <2>2, <2>3, RefillBound, RefillValue
  <2>5. old.tokens >= old.lastUpdate - clock /\ old.tokens \in Int /\ old.lastUpdate \in Nat
    BY <1>1, <2>2 DEF Punctual
  <2>6. \A i \in Buckets : i # k => bucket'[i] = bucket[i]
    BY <1>0, <1>6 DEF Allowed, Refused, TypeOK
  <2> HIDE DEF x
  <2>7. bucket'[k] = x \/ (x.tokens >= Cost /\ bucket'[k] = Charge(x))
    BY <1>0, <1>6, <2>2 DEF Allowed, Refused, TypeOK, x
  <2>8. /\ bucket'[k].lastUpdate = n /\ bucket'[k].lastAccess = n
        /\ bucket'[k].tokens = x.tokens \/ (x.tokens >= Cost /\ bucket'[k].tokens = x.tokens - Cost)
    BY <2>4, <2>7, ChargeType
  <2> HIDE DEF n, k, old
  <2>9. bucket'[k].tokens >= n - clock /\ bucket'[k].tokens >= 0 - MaxStall
    BY <1>1, <2>2, <2>4, <2>5, <2>8
  <2>10. ASSUME NEW i \in Buckets
         PROVE  /\ bucket'[i].lastAccess = bucket'[i].lastUpdate
                /\ bucket'[i].tokens >= bucket'[i].lastUpdate - clock /\ bucket'[i].tokens >= 0 - MaxStall
    <3>1. CASE i = k
      BY <2>8, <2>9, <3>1
    <3>2. CASE i # k
      BY <2>6, <3>2 DEF Punctual
    <3> QED
      BY <3>1, <3>2
  <2>11. \A g \in Handlers : pc'[g] # "idle" => pc[g] # "idle" /\ now'[g] = now[g]
    BY <1>0, <2>1 DEF TypeOK
  <2> QED
    BY <2>1, <2>10, <2>11 DEF Punctual
<1>7. CASE StartCleanup
  BY <1>1, <1>7 DEF StartCleanup, Punctual, handlerVars
<1>8. CASE UNCHANGED <<pc, now, bucket, clock, cleanNow>>
  BY <1>8 DEF Punctual
<1> QED
  BY <1>2, <1>3, <1>4, <1>5, <1>6, <1>7, <1>8 DEF Next, Handle, Visit, handlerVars, vars

\* Nothing happened to the tenant, and time may have passed.
LEMMA QuietAt ==
    ASSUME TypeOK, TypeOK', NEW t \in Tenants, NEW s \in Time, NEW e \in Time,
           Covered(t, s, e), Recent(t, s, e), Bounded(t, s, e),
           limiters'[t] = limiters[t], limiters[t] # 0 => bucket'[limiters[t]] = bucket[limiters[t]],
           given'[t] = given[t], Stale(t, s, e)' = Stale(t, s, e),
           \A h \in Stale(t, s, e) : now'[h] = now[h], clock' >= clock
    PROVE  Covered(t, s, e)' /\ Recent(t, s, e)' /\ Bounded(t, s, e)'
<1>1. /\ s \in Nat /\ clock \in Nat /\ MaxStall \in Nat /\ Spare \in Nat /\ clock' \in Nat
      /\ Claim(t, s, e) \in Nat
  <2>1. clock' \in Nat
    BY LimiterAssumption DEF TypeOK, Time
  <2>2. given[t][<<s, e>>] \in Nat /\ Weight(Stale(t, s, e)) \in Nat
        /\ Claim(t, s, e) = given[t][<<s, e>>] + Weight(Stale(t, s, e))
    BY TenantNumbers
  <2>3. Claim(t, s, e) \in Nat
    BY <2>2
  <2> QED
    BY <2>1, <2>3, TenantNumbers
<1>2. Claim(t, s, e)' = Claim(t, s, e)
  BY DEF Claim
<1>3. Bounded(t, s, e)'
  BY <1>2 DEF Bounded
<1>4. Covered(t, s, e)'
  <2>1. CASE Claim(t, s, e) <= Spare
    BY <1>2, <2>1 DEF Covered
  <2>2. CASE limiters[t] # 0 /\ Claim(t, s, e) + bucket[limiters[t]].tokens
                                <= Spare + maxTokens + (bucket[limiters[t]].lastUpdate - s)
    BY <1>2, <2>2 DEF Covered
  <2>3. CASE limiters[t] = 0 /\ Claim(t, s, e) <= Spare + (clock - MaxStall - s)
    <3>1. Claim(t, s, e) <= Spare + (clock' - MaxStall - s)
      BY <1>1, <2>3
    <3> QED
      BY <1>2, <2>3, <3>1 DEF Covered
  <2> QED
    BY <2>1, <2>2, <2>3 DEF Covered
<1>5. Recent(t, s, e)'
  <2>1. given[t][<<s, e>>] > 0 => s <= clock'
    BY <1>1 DEF Recent
  <2> QED
    BY <2>1 DEF Recent
<1> QED
  BY <1>3, <1>4, <1>5

\* A tenant's bucket was evicted: it had been idle for longer than a refill.
LEMMA EvictAt ==
    ASSUME TypeOK, PointerShape, Punctual, ReadingsArePast,
           NEW t \in Tenants, NEW s \in Time, NEW e \in Time,
           Covered(t, s, e), Recent(t, s, e), Bounded(t, s, e),
           limiters[t] # 0, limiters'[t] = 0, cleanNow - bucket[limiters[t]].lastAccess > TTL,
           UNCHANGED <<given, clock, handlerVars>>
    PROVE  Covered(t, s, e)' /\ Recent(t, s, e)' /\ Bounded(t, s, e)'
<1> DEFINE x == bucket[limiters[t]]
           G == given[t][<<s, e>>]
           W == Weight(Stale(t, s, e))
           V == Weight(Stale(t, s, e)')
<1>1. limiters[t] \in Buckets
  BY LimiterAssumption DEF PointerShape, TypeOK, Buckets
<1>2. /\ s \in Nat /\ e \in Nat /\ clock \in Nat /\ MaxStall \in Nat /\ TTL \in Nat /\ maxTokens \in Nat
      /\ Spare \in Nat /\ G \in Nat /\ W \in Nat
      /\ x.tokens \in Int /\ x.lastUpdate \in Nat
  BY <1>1, TenantNumbers
<1>3. Stale(t, s, e)' \in SUBSET Handlers
  BY DEF Stale
<1>4. V \in Nat /\ V <= Spare
  BY <1>3, WeightFacts
<1>5. x.lastUpdate + TTL < clock /\ x.tokens >= 0 - MaxStall
  <2>1. x.lastAccess = x.lastUpdate /\ cleanNow <= clock /\ x.tokens >= 0 - MaxStall
    BY <1>1 DEF Punctual
  <2>2. cleanNow \in Nat
    BY LimiterAssumption DEF TypeOK, Time
  <2> QED
    BY <1>2, <2>1, <2>2
<1>6. maxTokens + 2 * MaxStall + Spare <= TTL + 1
  BY EvictionAssumption DEF Spare, maxTokens
<1>7. Claim(t, s, e) = G + W /\ Claim(t, s, e)' = G + V
  <2>1. Claim(t, s, e)' = G + V
    BY DEF Claim, Weight
  <2> QED
    BY <2>1, TenantNumbers
<1>8. G > 0 => s <= clock /\ s <= x.lastUpdate + MaxStall
  BY DEF Recent
<1>9. G + W <= Spare \/ G + W + x.tokens <= Spare + maxTokens + (x.lastUpdate - s)
  BY <1>7 DEF Covered
<1>10. s <= e => G + W <= maxTokens + (e - s) + Spare
  BY <1>7 DEF Bounded
<1> HIDE DEF x, G, W, V
<1>11. G + V <= Spare \/ G + V <= Spare + (clock - MaxStall - s)
  <2>1. CASE G = 0
    BY <1>2, <1>4, <2>1
  <2>2. CASE G > 0 /\ G + W <= Spare
    BY <1>2, <1>4, <1>5, <1>6, <1>8, <2>2
  <2>3. CASE G + W + x.tokens <= Spare + maxTokens + (x.lastUpdate - s)
    BY <1>2, <1>4, <1>5, <1>6, <2>3
  <2> QED
    BY <1>2, <1>9, <2>1, <2>2, <2>3
<1>12. Covered(t, s, e)'
  BY <1>7, <1>11 DEF Covered
<1>13. Recent(t, s, e)'
  BY <1>8 DEF Recent, G
<1>14. s <= e => G + V <= maxTokens + (e - s) + Spare
  <2>1. CASE Stale(t, s, e)' = {}
    <3>1. V = 0
      BY <2>1, WeightFacts DEF V
    <3> QED
      BY <1>2, <1>10, <3>1
  <2>2. CASE Stale(t, s, e)' # {}
    <3>1. PICK h \in Handlers : pc[h] = "take" /\ now[h] <= e
      BY <2>2 DEF Stale, handlerVars
    <3>2. clock - now[h] <= MaxStall /\ now[h] \in Nat
      BY <3>1, TenantNumbers DEF Punctual
    <3>3. clock - MaxStall <= e
      BY <1>2, <3>1, <3>2
    <3> QED
      BY <1>2, <1>4, <1>11, <3>3
  <2> QED
    BY <2>1, <2>2
<1>15. Bounded(t, s, e)'
  BY <1>7, <1>14 DEF Bounded
<1> QED
  BY <1>12, <1>13, <1>15

\* A new bucket takes the place of the one that was evicted.
LEMMA NewAt ==
    ASSUME TypeOK, PointerShape, Punctual, ReadingsArePast, NEW h \in Handlers, NewBucket(h),
           NEW t \in Tenants, NEW s \in Time, NEW e \in Time, t = tenant[h],
           Covered(t, s, e), Recent(t, s, e), Bounded(t, s, e), Stale(t, s, e)' = Stale(t, s, e)
    PROVE  Covered(t, s, e)' /\ Recent(t, s, e)' /\ Bounded(t, s, e)'
<1>1. /\ pc[h] = "lookup" /\ limiters[t] = 0 /\ limiters'[t] = made + 1 /\ made + 1 \in Buckets
      /\ bucket'[made + 1].tokens = maxTokens /\ bucket'[made + 1].lastUpdate = now[h]
      /\ UNCHANGED <<given, clock, now>>
  <2>1. made + 1 \in Buckets
    BY LimiterAssumption DEF NewBucket, Buckets, TypeOK
  <2> QED
    BY <2>1 DEF NewBucket, TypeOK
<1>2. /\ s \in Nat /\ e \in Nat /\ clock \in Nat /\ MaxStall \in Nat /\ maxTokens \in Nat
      /\ Spare \in Nat /\ now[h] \in Nat /\ made \in Nat
  BY TenantNumbers
<1>3. Claim(t, s, e)' = Claim(t, s, e) /\ Claim(t, s, e) \in Nat
  <2>1. Claim(t, s, e)' = Claim(t, s, e)
    BY <1>1 DEF Claim
  <2>2. given[t][<<s, e>>] \in Nat /\ Weight(Stale(t, s, e)) \in Nat
        /\ Claim(t, s, e) = given[t][<<s, e>>] + Weight(Stale(t, s, e))
    BY TenantNumbers
  <2> QED
    BY <2>1, <2>2
<1>4. clock - now[h] <= MaxStall
  BY <1>1 DEF Punctual
<1>5. limiters'[t] # 0
  BY <1>1, <1>2
<1>6. Covered(t, s, e)'
  <2>1. CASE Claim(t, s, e) <= Spare
    BY <1>3, <2>1 DEF Covered
  <2>2. CASE Claim(t, s, e) <= Spare + (clock - MaxStall - s)
    <3>1. Claim(t, s, e) + maxTokens <= Spare + maxTokens + (now[h] - s)
      BY <1>2, <1>3, <1>4, <2>2
    <3> QED
      BY <1>1, <1>3, <1>5, <3>1 DEF Covered
  <2> QED
    BY <1>1, <2>1, <2>2 DEF Covered
<1>7. Recent(t, s, e)'
  <2>1. clock <= now[h] + MaxStall
    BY <1>2, <1>4
  <2>2. given[t][<<s, e>>] > 0 => s <= clock /\ s <= now[h] + MaxStall
    BY <1>2, <2>1 DEF Recent
  <2>3. ASSUME NEW g \in Stale(t, s, e) PROVE now[g] <= now[h] + MaxStall
    <3>1. now[g] \in Nat /\ now[g] <= clock
      BY TenantNumbers DEF Stale, ReadingsArePast
    <3> QED
      BY <1>2, <2>1, <3>1
  <2> QED
    BY <1>1, <2>2, <2>3 DEF Recent
<1>8. Bounded(t, s, e)'
  BY <1>3 DEF Bounded
<1> QED
  BY <1>6, <1>7, <1>8

\* What a request does to the bucket it holds.
LEMMA TakenFrom ==
    ASSUME TypeOK, PointerShape, NEW h \in Handlers, Allowed(h) \/ Refused(h)
    PROVE  /\ pc[h] = "take" /\ b[h] \in Buckets /\ bucket'[b[h]].lastUpdate = now[h]
           /\ bucket'[b[h]].tokens \in Int
           /\ bucket'[b[h]].tokens <= bucket[b[h]].tokens + (now[h] - bucket[b[h]].lastUpdate)
           /\ Allowed(h) => /\ bucket'[b[h]].tokens >= 0 /\ bucket'[b[h]].tokens <= maxTokens - Cost
                            /\ bucket'[b[h]].tokens <= bucket[b[h]].tokens + (now[h] - bucket[b[h]].lastUpdate) - Cost
           /\ \A i \in Buckets : i # b[h] => bucket'[i] = bucket[i]
           /\ UNCHANGED <<clock, limiters>>
<1> DEFINE n == now[h]
           k == b[h]
           old == bucket[k]
           x == Refill(old, n)
<1>1. pc[h] = "take" /\ UNCHANGED <<clock, limiters>> /\ \A i \in Buckets : i # k => bucket'[i] = bucket[i]
  BY DEF Allowed, Refused, TypeOK
<1>2. k \in Buckets /\ n \in Time /\ n \in Nat
  BY <1>1, LimiterAssumption DEF PointerShape, TypeOK, Buckets, Time
<1>3. old \in [tokens : Int, lastUpdate : Time, lastAccess : Time] /\ old.tokens \in Int /\ old.lastUpdate \in Nat
  BY <1>2, LimiterAssumption DEF TypeOK, Time
<1>4. /\ x \in [tokens : Int, lastUpdate : Time, lastAccess : Time] /\ x.tokens \in Int
      /\ x.lastUpdate = n /\ x.tokens <= maxTokens /\ x.tokens <= old.tokens + (n - old.lastUpdate)
  BY <1>2, <1>3, RefillBound
<1> HIDE DEF x
<1>5. /\ Allowed(h) => x.tokens >= Cost /\ bucket'[k] = Charge(x)
      /\ Refused(h) => bucket'[k] = x
  BY <1>2 DEF Allowed, Refused, TypeOK, x
<1>6. Charge(x).tokens = x.tokens - Cost /\ Charge(x).lastUpdate = n
  BY <1>4, ChargeType
<1>7. Cost \in Nat /\ maxTokens \in Nat
  BY LimiterAssumption DEF maxTokens, Second
<1> HIDE DEF n, k, old
<1>8. CASE Allowed(h)
  <2>1. bucket'[k].tokens = x.tokens - Cost /\ bucket'[k].lastUpdate = n /\ x.tokens >= Cost
    BY <1>5, <1>6, <1>8
  <2>2. /\ bucket'[k].tokens \in Int /\ bucket'[k].tokens >= 0 /\ bucket'[k].tokens <= maxTokens - Cost
        /\ bucket'[k].tokens <= old.tokens + (n - old.lastUpdate) - Cost
        /\ bucket'[k].tokens <= old.tokens + (n - old.lastUpdate)
    BY <1>2, <1>3, <1>4, <1>7, <2>1
  <2> QED
    BY <1>1, <1>2, <2>1, <2>2 DEF n, k, old
<1>9. CASE Refused(h) /\ ~Allowed(h)
  BY <1>1, <1>2, <1>4, <1>5, <1>9 DEF n, k, old
<1> QED
  BY <1>8, <1>9

\* What a request does to the counts: it is no longer stale, and a granted
\* one is given to its tenant in the intervals of its reading.
LEMMA GivenTo ==
    ASSUME TypeOK, PointerShape, NEW h \in Handlers, Allowed(h) \/ Refused(h),
           NEW t \in Tenants, NEW s \in Time, NEW e \in Time
    PROVE  /\ Stale(t, s, e)' = Stale(t, s, e) \ {h}
           /\ \A g \in Stale(t, s, e)' : now'[g] = now[g]
           /\ given'[t][<<s, e>>] = given[t][<<s, e>>]
                 + IF Allowed(h) /\ tenant[h] = t /\ s <= now[h] /\ now[h] <= e THEN Cost ELSE 0
<1>1. /\ pc' = [pc EXCEPT ![h] = "idle"] /\ now' = [now EXCEPT ![h] = 0] /\ b' = [b EXCEPT ![h] = 0]
      /\ UNCHANGED <<tenant, limiters>>
  BY DEF Allowed, Refused, Return
<1>2. Stale(t, s, e)' = Stale(t, s, e) \ {h}
  BY <1>1 DEF Stale, TypeOK
<1>3. \A g \in Stale(t, s, e)' : now'[g] = now[g]
  BY <1>1, <1>2 DEF Stale, TypeOK
<1>4. given[t] \in [Time \X Time -> Nat] /\ given[t][<<s, e>>] \in Nat /\ now[h] \in Time /\ tenant[h] \in Tenants
  BY DEF TypeOK
<1>5. CASE Allowed(h)
  <2>1. given' = [given EXCEPT ![tenant[h]] = Spend(given[tenant[h]], now[h])]
    BY <1>5 DEF Allowed
  <2>2. CASE tenant[h] = t
    <3>1. given'[t] = Spend(given[t], now[h])
      BY <2>1, <2>2 DEF TypeOK
    <3>2. \A t1, t2 \in Time :
             Spend(given[t], now[h])[<<t1, t2>>]
               = given[t][<<t1, t2>>] + IF t1 <= now[h] /\ now[h] <= t2 THEN Cost ELSE 0
      BY <1>4, SpendType
    <3> QED
      BY <1>2, <1>3, <1>5, <2>2, <3>1, <3>2
  <2>3. CASE tenant[h] # t
    <3>1. given'[t] = given[t]
      BY <2>1, <2>3 DEF TypeOK
    <3> QED
      BY <1>2, <1>3, <1>4, <2>3, <3>1
  <2> QED
    BY <2>2, <2>3
<1>6. CASE ~Allowed(h)
  <2>1. given' = given
    BY <1>6 DEF Refused
  <2> QED
    BY <1>2, <1>3, <1>4, <1>6, <2>1
<1> QED
  BY <1>5, <1>6

\* A request of any tenant, granted or refused.
LEMMA TakeAt ==
    ASSUME TypeOK, PointerShape, Punctual, ReadingsArePast, NEW h \in Handlers, Allowed(h) \/ Refused(h),
           NEW t \in Tenants, NEW s \in Time, NEW e \in Time,
           Covered(t, s, e), Recent(t, s, e), Bounded(t, s, e)
    PROVE  Covered(t, s, e)' /\ Recent(t, s, e)' /\ Bounded(t, s, e)'
<1> DEFINE i == limiters[t]
           x == bucket[i]
           y == bucket'[i]
           n == now[h]
           G == given[t][<<s, e>>]
           F == given'[t][<<s, e>>]
           W == Weight(Stale(t, s, e))
           V == Weight(Stale(t, s, e)')
           mine == Allowed(h) /\ tenant[h] = t /\ s <= n /\ n <= e
<1>1. /\ s \in Nat /\ e \in Nat /\ clock \in Nat /\ MaxStall \in Nat /\ maxTokens \in Nat
      /\ Cost \in Nat /\ Spare \in Nat /\ G \in Nat /\ W \in Nat /\ n \in Nat /\ i \in Nat
  BY TenantNumbers
<1>2. /\ pc[h] = "take" /\ b[h] \in Buckets /\ clock' = clock /\ limiters' = limiters
      /\ clock - n <= MaxStall /\ n <= clock
  BY TakenFrom DEF Punctual, ReadingsArePast
<1>3. i # 0 => i \in Buckets /\ x.tokens \in Int /\ x.lastUpdate \in Nat
  <2>1. i # 0 => i \in Buckets
    BY LimiterAssumption DEF PointerShape, TypeOK, Buckets
  <2> QED
    BY <2>1, TenantNumbers
<1>4. /\ Stale(t, s, e)' = Stale(t, s, e) \ {h} /\ Stale(t, s, e) \in SUBSET Handlers
      /\ \A g \in Stale(t, s, e)' : now'[g] = now[g]
      /\ F = G + IF mine THEN Cost ELSE 0
  BY GivenTo, TenantNumbers
<1>5. V \in Nat /\ V <= W
  <2>1. Stale(t, s, e)' \in SUBSET Handlers
    BY <1>4
  <2> QED
    BY <1>4, <2>1, WeightFacts
<1>6. Claim(t, s, e) = G + W /\ Claim(t, s, e)' = F + V
  <2>1. Claim(t, s, e)' = F + V
    BY DEF Claim, Weight
  <2> QED
    BY <2>1, TenantNumbers
<1>7. mine /\ b[h] # i => V = W - Cost
  <2>1. mine /\ b[h] # i => h \in Stale(t, s, e)
    BY <1>2 DEF Stale
  <2> QED
    BY <1>4, <2>1, WeightFacts
<1>8. i # 0 /\ b[h] # i => y = x
  BY <1>3, TakenFrom
<1>9. /\ i # 0 /\ b[h] = i
         => y.lastUpdate = n /\ y.tokens \in Int /\ y.tokens <= x.tokens + (n - x.lastUpdate)
      /\ i # 0 /\ b[h] = i /\ mine
         => y.tokens >= 0 /\ y.tokens <= maxTokens - Cost /\ y.tokens <= x.tokens + (n - x.lastUpdate) - Cost
  BY TakenFrom
<1>10. /\ G + W <= Spare
          \/ (i # 0 /\ G + W + x.tokens <= Spare + maxTokens + (x.lastUpdate - s))
          \/ (i = 0 /\ G + W <= Spare + (clock - MaxStall - s))
       /\ s <= e => G + W <= maxTokens + (e - s) + Spare
  BY <1>6 DEF Covered, Bounded
<1>11. /\ G > 0 => s <= clock /\ (i # 0 => s <= x.lastUpdate + MaxStall)
       /\ i # 0 => \A g \in Stale(t, s, e) : now[g] <= x.lastUpdate + MaxStall
  BY DEF Recent
<1>12. b[h] # 0 /\ b[h] \in Nat
  BY <1>2, LimiterAssumption DEF Buckets
<1>13. \A g \in Stale(t, s, e) : now[g] \in Nat /\ now[g] <= clock
  BY TenantNumbers DEF Stale, ReadingsArePast
<1>14. mine /\ b[h] # i => h \in Stale(t, s, e)
  BY <1>2 DEF Stale
<1>15. mine => s <= n /\ n <= e
  OBVIOUS
<1> HIDE DEF i, x, y, n, G, F, W, V, mine
<1>16. CASE mine /\ b[h] = i
  <2>1. i # 0 /\ F = G + Cost
    BY <1>4, <1>12, <1>16
  <2>2. F + V + y.tokens <= Spare + maxTokens + (y.lastUpdate - s)
    BY <1>1, <1>3, <1>5, <1>9, <1>10, <1>15, <1>16, <2>1
  <2>3. Covered(t, s, e)'
    <3>1. F + V + bucket'[limiters'[t]].tokens <= Spare + maxTokens + (bucket'[limiters'[t]].lastUpdate - s)
      BY <1>2, <2>2 DEF y, i
    <3> QED
      BY <1>2, <1>6, <2>1, <3>1 DEF Covered, i
  <2>4. Bounded(t, s, e)'
    <3>1. F + V <= maxTokens + (e - s) + Spare
      <4>1. F \in Nat
        BY <1>1, <2>1
      <4> QED
        BY <1>1, <1>5, <1>9, <1>15, <1>16, <2>1, <2>2, <4>1
    <3> QED
      BY <1>6, <3>1 DEF Bounded
  <2>5. Recent(t, s, e)'
    <3>1. s <= clock /\ s <= y.lastUpdate + MaxStall
      BY <1>1, <1>2, <1>9, <1>15, <1>16, <2>1
    <3>2. \A g \in Stale(t, s, e) : now[g] <= y.lastUpdate + MaxStall
      BY <1>1, <1>2, <1>9, <1>13, <1>16, <2>1
    <3> QED
      BY <1>2, <1>4, <3>1, <3>2 DEF Recent, y, i
  <2> QED
    BY <2>3, <2>4, <2>5
<1>17. CASE ~(mine /\ b[h] = i)
  <2>1. F + V <= G + W /\ F \in Nat
    BY <1>1, <1>4, <1>5, <1>7, <1>17
  <2>2. i # 0 => /\ y.tokens \in Int /\ y.lastUpdate \in Nat
                 /\ y.tokens - y.lastUpdate <= x.tokens - x.lastUpdate
    BY <1>1, <1>3, <1>8, <1>9
  <2>3. Covered(t, s, e)'
    <3>1. \/ F + V <= Spare
          \/ i # 0 /\ F + V + y.tokens <= Spare + maxTokens + (y.lastUpdate - s)
          \/ i = 0 /\ F + V <= Spare + (clock - MaxStall - s)
      BY <1>1, <1>3, <1>5, <1>10, <2>1, <2>2
    <3> QED
      BY <1>2, <1>6, <3>1 DEF Covered, y, i
  <2>4. Bounded(t, s, e)'
    <3>1. s <= e => F + V <= maxTokens + (e - s) + Spare
      BY <1>1, <1>5, <1>10, <2>1
    <3> QED
      BY <1>6, <3>1 DEF Bounded
  <2>5. Recent(t, s, e)'
    <3>1. F > 0 => s <= clock /\ (i # 0 => s <= y.lastUpdate + MaxStall)
      <4>1. CASE mine
        <5>1. s <= n /\ n <= clock
          BY <1>2, <1>15, <4>1 DEF n
        <5>2. i # 0 => y = x /\ n <= x.lastUpdate + MaxStall
          BY <1>8, <1>11, <1>14, <1>17, <4>1 DEF n
        <5> QED
          BY <1>1, <1>3, <5>1, <5>2
      <4>2. CASE ~mine
        <5>1. F = G
          BY <1>1, <1>4, <4>2
        <5>2. i # 0 => y = x \/ y.lastUpdate = n
          BY <1>8, <1>9
        <5>3. clock - n <= MaxStall
          BY <1>2 DEF n
        <5> QED
          BY <1>1, <1>3, <1>11, <5>1, <5>2, <5>3
      <4> QED
        BY <4>1, <4>2
    <3>2. i # 0 => \A g \in Stale(t, s, e) : now[g] <= y.lastUpdate + MaxStall
      <4>1. i # 0 => y = x \/ y.lastUpdate = n
        BY <1>8, <1>9
      <4>2. clock <= n + MaxStall
        BY <1>1, <1>2 DEF n
      <4> QED
        BY <1>1, <1>11, <1>13, <4>1, <4>2
    <3> QED
      BY <1>2, <1>4, <3>1, <3>2 DEF Recent, y, i, F
  <2> QED
    BY <2>3, <2>4, <2>5
<1> QED
  BY <1>16, <1>17

\* Every step keeps what a tenant can claim covered.
LEMMA TenantStep == Inv /\ TenantInv /\ [Next]_vars => TenantInv'
<1> SUFFICES ASSUME Inv, TenantInv, [Next]_vars,
                    NEW t \in Tenants, NEW s \in Time, NEW e \in Time
             PROVE  Covered(t, s, e)' /\ Recent(t, s, e)' /\ Bounded(t, s, e)'
  BY PunctualStep DEF TenantInv
<1>1. /\ TypeOK /\ PointerShape /\ ReadingsArePast /\ TypeOK' /\ Punctual
      /\ Covered(t, s, e) /\ Recent(t, s, e) /\ Bounded(t, s, e)
  BY TypeStep DEF Inv, TenantInv
<1>2. clock \in Nat /\ made \in Nat /\ clock + 1 >= clock /\ clock >= clock
  <2>1. clock \in Nat /\ made \in Nat
    BY <1>1, TenantNumbers
  <2> QED
    BY <2>1
<1>3. limiters[t] # 0 => limiters[t] \in Buckets /\ limiters[t] # made + 1
  BY <1>1, LimiterAssumption DEF PointerShape, TypeOK, Buckets
<1>4. CASE Tick
  <2>1. clock' >= clock /\ UNCHANGED <<limiters, bucket, given, pc, tenant, now, b>>
    BY <1>2, <1>4 DEF Tick, handlerVars
  <2>2. Stale(t, s, e)' = Stale(t, s, e)
    BY <2>1 DEF Stale
  <2> QED
    BY <1>1, <2>1, <2>2, QuietAt
<1>5. ASSUME NEW h \in Handlers, NEW u \in Tenants, ReadClock(h, u)
      PROVE  Covered(t, s, e)' /\ Recent(t, s, e)' /\ Bounded(t, s, e)'
  <2>1. /\ clock' >= clock /\ UNCHANGED <<limiters, bucket, given, b>> /\ pc[h] = "idle"
        /\ pc' = [pc EXCEPT ![h] = "lookup"] /\ tenant' = [tenant EXCEPT ![h] = u] /\ now' = [now EXCEPT ![h] = clock]
    BY <1>2, <1>5 DEF ReadClock
  <2>2. Stale(t, s, e)' = Stale(t, s, e)
    BY <1>1, <2>1 DEF Stale, TypeOK
  <2>3. \A g \in Stale(t, s, e) : now'[g] = now[g]
    BY <1>1, <2>1 DEF Stale, TypeOK
  <2> QED
    BY <1>1, <2>1, <2>2, <2>3, QuietAt
<1>6. ASSUME NEW h \in Handlers, Found(h)
      PROVE  Covered(t, s, e)' /\ Recent(t, s, e)' /\ Bounded(t, s, e)'
  <2>1. /\ clock' >= clock /\ UNCHANGED <<limiters, bucket, given, tenant, now>> /\ pc[h] = "lookup"
        /\ pc' = [pc EXCEPT ![h] = "take"] /\ b' = [b EXCEPT ![h] = limiters[tenant[h]]]
    BY <1>2, <1>6 DEF Found
  <2>2. Stale(t, s, e)' = Stale(t, s, e)
    BY <1>1, <2>1 DEF Stale, TypeOK
  <2> QED
    BY <1>1, <2>1, <2>2, QuietAt
<1>7. ASSUME NEW h \in Handlers, NewBucket(h)
      PROVE  Covered(t, s, e)' /\ Recent(t, s, e)' /\ Bounded(t, s, e)'
  <2>1. /\ clock' >= clock /\ UNCHANGED <<given, tenant, now>> /\ pc[h] = "lookup" /\ limiters[tenant[h]] = 0
        /\ pc' = [pc EXCEPT ![h] = "take"] /\ b' = [b EXCEPT ![h] = made + 1]
        /\ limiters' = [limiters EXCEPT ![tenant[h]] = made + 1]
    BY <1>2, <1>7 DEF NewBucket
  <2>2. \A g \in Handlers : pc[g] = "take" => b[g] # 0 /\ b[g] # made + 1
    BY <1>1, <1>2 DEF PointerShape
  <2>3. Stale(t, s, e)' = Stale(t, s, e)
    BY <1>1, <2>1, <2>2 DEF Stale, TypeOK
  <2>4. CASE tenant[h] = t
    BY <1>1, <1>7, <2>3, <2>4, NewAt
  <2>5. CASE tenant[h] # t
    <3>1. limiters'[t] = limiters[t] /\ (limiters[t] # 0 => bucket'[limiters[t]] = bucket[limiters[t]])
      BY <1>1, <1>3, <1>7, <2>1, <2>5 DEF NewBucket, TypeOK
    <3> QED
      BY <1>1, <2>1, <2>3, <3>1, QuietAt
  <2> QED
    BY <2>4, <2>5
<1>8. ASSUME NEW h \in Handlers, Allowed(h) \/ Refused(h)
      PROVE  Covered(t, s, e)' /\ Recent(t, s, e)' /\ Bounded(t, s, e)'
  BY <1>1, <1>8, TakeAt
<1>9. CASE StartCleanup \/ UNCHANGED vars
  <2>1. clock' >= clock /\ UNCHANGED <<limiters, bucket, given, pc, tenant, now, b>>
    BY <1>2, <1>9 DEF StartCleanup, vars, handlerVars
  <2>2. Stale(t, s, e)' = Stale(t, s, e)
    BY <2>1 DEF Stale
  <2> QED
    BY <1>1, <2>1, <2>2, QuietAt
<1>10. ASSUME NEW u \in Tenants, Visit(u)
       PROVE  Covered(t, s, e)' /\ Recent(t, s, e)' /\ Bounded(t, s, e)'
  <2>1. /\ clock' = clock /\ UNCHANGED <<bucket, given, handlerVars>>
    BY <1>10 DEF Visit
  <2>2. CASE limiters'[t] = limiters[t]
    <3>1. Stale(t, s, e)' = Stale(t, s, e)
      BY <2>1, <2>2 DEF Stale, handlerVars
    <3> QED
      BY <1>1, <1>2, <2>1, <2>2, <3>1, QuietAt DEF handlerVars
  <2>3. CASE limiters'[t] # limiters[t]
    <3>1. /\ t = u /\ u \in scan /\ limiters'[t] = 0 /\ cleanNow - bucket[limiters[t]].lastAccess > TTL
      BY <1>1, <1>10, <2>3 DEF Visit, TypeOK
    <3>2. limiters[t] # 0
      BY <2>3, <3>1
    <3> QED
      BY <1>1, <2>1, <3>1, <3>2, EvictAt
  <2> QED
    BY <2>2, <2>3
<1> QED
  BY <1>4, <1>5, <1>6, <1>7, <1>8, <1>9, <1>10 DEF Next, Handle

(***************************************************************************)
(* A tenant gets no second burst from an evicted bucket, beyond one        *)
(* request for each handler that still holds it, however often its buckets *)
(* are evicted and however its handlers and cleanup interleave.            *)
(***************************************************************************)
THEOREM TenantIsBounded == Spec => []TenantBound
<1>1. Init => TenantInv
  <2> SUFFICES ASSUME Init PROVE TenantInv
    OBVIOUS
  <2>1. Punctual
    <3>1. \A i \in Buckets : bucket[i] = Empty
      BY DEF Init
    <3>2. Empty.tokens = 0 /\ Empty.lastUpdate = 0 /\ Empty.lastAccess = 0 /\ MaxStall \in Nat
      BY LimiterAssumption DEF Empty
    <3>3. \A i \in Buckets : /\ bucket[i].lastAccess = bucket[i].lastUpdate
                             /\ bucket[i].tokens >= bucket[i].lastUpdate - clock /\ bucket[i].tokens >= 0 - MaxStall
      BY <3>1, <3>2 DEF Init
    <3> QED
      BY <3>3 DEF Init, Punctual
  <2>2. ASSUME NEW t \in Tenants, NEW s \in Time, NEW e \in Time
        PROVE  Covered(t, s, e) /\ Recent(t, s, e) /\ Bounded(t, s, e)
    <3>1. Stale(t, s, e) = {} /\ given[t][<<s, e>>] = 0 /\ limiters[t] = 0
      BY DEF Init, Stale
    <3>2. Claim(t, s, e) = 0 /\ Spare \in Nat
      <4>1. Weight({}) = 0 /\ Spare \in Nat
        BY WeightFacts
      <4> QED
        BY <3>1, <4>1 DEF Claim, Weight
    <3>3. s \in Nat /\ e \in Nat /\ maxTokens \in Nat
      BY LimiterAssumption DEF Time, maxTokens, Second
    <3>4. Covered(t, s, e)
      BY <3>2 DEF Covered
    <3>5. Recent(t, s, e)
      BY <3>1 DEF Recent
    <3>6. Bounded(t, s, e)
      BY <3>2, <3>3 DEF Bounded
    <3> QED
      BY <3>4, <3>5, <3>6
  <2> QED
    BY <2>1, <2>2 DEF TenantInv
<1>2. Inv /\ TenantInv => TenantBound
  <2> SUFFICES ASSUME Inv, TenantInv, NEW t \in Tenants, NEW s \in Time, NEW e \in Time, s <= e
               PROVE  given[t][<<s, e>>] <= maxTokens + (e - s) + Spare
    BY DEF TenantBound, Spare
  <2>1. /\ s \in Nat /\ e \in Nat /\ maxTokens \in Nat /\ Spare \in Nat /\ given[t][<<s, e>>] \in Nat
        /\ Weight(Stale(t, s, e)) \in Nat
        /\ Claim(t, s, e) = given[t][<<s, e>>] + Weight(Stale(t, s, e))
    BY TenantNumbers DEF Inv
  <2>2. Claim(t, s, e) <= maxTokens + (e - s) + Spare
    BY DEF TenantInv, Bounded
  <2> QED
    BY <2>1, <2>2
<1> QED
  BY <1>1, <1>2, TenantStep, Invariance, PTL DEF Spec
=============================================================================
