---------------------------- MODULE RateLimiter ----------------------------
(***************************************************************************)
(* The token buckets of internal/api/middleware/ratelimit.go.              *)
(*                                                                         *)
(* allow reads the clock, looks its bucket up under rl.mu, and refills and *)
(* takes from the bucket under b.mu: three steps, between which the clock  *)
(* moves, other handlers run and the cleanup goroutine removes buckets.    *)
(* A handler may therefore use a bucket that is no longer in the map, and  *)
(* a reading of the clock older than the bucket's last update.             *)
(*                                                                         *)
(* A tick is the time in which a bucket refills by one unit and a request  *)
(* costs Cost units, so a second is Rps * Cost ticks, which is also the    *)
(* capacity of a bucket.  The code's float64 tokens are exact here.        *)
(***************************************************************************)
EXTENDS Integers, FiniteSets

CONSTANTS
    Handlers,       \* requests in progress at the same time
    Tenants,
    Rps,            \* rps: requests per second
    Cost,           \* units per token
    TTL,            \* bucketTTL, in ticks
    MaxStall,       \* bound: ticks a handler may take from its clock reading on
    MaxTime,        \* bound: the clock
    MaxBuckets      \* bound: buckets ever created

ASSUME LimiterAssumption ==
    /\ Rps \in Nat \ {0} /\ Cost \in Nat \ {0}
    /\ IsFiniteSet(Handlers) /\ Tenants # {}
    /\ TTL \in Nat /\ MaxStall \in Nat /\ MaxTime \in Nat /\ MaxBuckets \in Nat

VARIABLES
    clock,
    limiters,   \* the map: a tenant's bucket, 0 for none
    made,       \* the buckets created so far
    bucket,     \* the buckets, those no longer in the map included
    pc,         \* where each handler is in allow
    tenant,     \* allow's argument
    now,        \* allow's reading of the clock
    b,          \* allow's pointer to the bucket
    scan,       \* the tenants cleanup still visits under rl.mu
    cleanNow,   \* cleanup's reading of the clock
    spent,      \* history: the units a bucket gave to requests, by the interval
                \* in which they read the clock
    given       \* history: the same for a tenant, from all its buckets

handlerVars == <<pc, tenant, now, b>>
vars == <<clock, limiters, made, bucket, handlerVars, scan, cleanNow, spent, given>>

Second == Rps * Cost
maxTokens == Second
Time == 0..MaxTime
Buckets == 1..MaxBuckets

\* An idle bucket is kept until it is full again, however late its handlers
\* are, and each of them costs a token: five minutes against a second's refill.
ASSUME EvictionAssumption == Second + 2 * MaxStall + Cost * Cardinality(Handlers) <= TTL + 1

-----------------------------------------------------------------------------
Tick ==
    /\ clock < MaxTime
    /\ \A h \in Handlers : pc[h] # "idle" => clock - now[h] < MaxStall
    /\ clock' = clock + 1
    /\ UNCHANGED <<limiters, made, bucket, handlerVars, scan, cleanNow, spent, given>>

\* allow: the clock is read before any lock is taken.
ReadClock(h, t) ==
    /\ pc[h] = "idle"
    /\ pc' = [pc EXCEPT ![h] = "lookup"]
    /\ tenant' = [tenant EXCEPT ![h] = t]
    /\ now' = [now EXCEPT ![h] = clock]
    /\ UNCHANGED <<clock, limiters, made, bucket, b, scan, cleanNow, spent, given>>

\* The tenant's bucket is in the map: keep the pointer and release rl.mu.
Found(h) ==
    /\ pc[h] = "lookup" /\ scan = {}
    /\ limiters[tenant[h]] # 0
    /\ b' = [b EXCEPT ![h] = limiters[tenant[h]]]
    /\ pc' = [pc EXCEPT ![h] = "take"]
    /\ UNCHANGED <<clock, limiters, made, bucket, tenant, now, scan, cleanNow, spent, given>>

\* Mutant: a new bucket starts without tokens.
NewBucketEmpty(h) ==
    /\ pc[h] = "lookup" /\ scan = {}
    /\ limiters[tenant[h]] = 0
    /\ made < MaxBuckets
    /\ made' = made + 1
    /\ bucket' = [bucket EXCEPT ![made + 1] =
                    [tokens |-> 0, lastUpdate |-> now[h], lastAccess |-> now[h]]]
    /\ limiters' = [limiters EXCEPT ![tenant[h]] = made + 1]
    /\ b' = [b EXCEPT ![h] = made + 1]
    /\ pc' = [pc EXCEPT ![h] = "take"]
    /\ UNCHANGED <<clock, tenant, now, scan, cleanNow, spent, given>>

\* It is not: a full bucket is created.
NewBucket(h) ==
    /\ pc[h] = "lookup" /\ scan = {}
    /\ limiters[tenant[h]] = 0
    /\ made < MaxBuckets
    /\ made' = made + 1
    /\ bucket' = [bucket EXCEPT ![made + 1] =
                    [tokens |-> maxTokens, lastUpdate |-> now[h], lastAccess |-> now[h]]]
    /\ limiters' = [limiters EXCEPT ![tenant[h]] = made + 1]
    /\ b' = [b EXCEPT ![h] = made + 1]
    /\ pc' = [pc EXCEPT ![h] = "take"]
    /\ UNCHANGED <<clock, tenant, now, scan, cleanNow, spent, given>>

\* Mutant: the refill counts as consumed time only when it is positive.
RefillForward(x, time) ==
    LET elapsed == IF time > x.lastUpdate THEN time - x.lastUpdate ELSE 0
        sum == x.tokens + elapsed
    IN  [tokens |-> IF sum > maxTokens THEN maxTokens ELSE sum,
         lastUpdate |-> time, lastAccess |-> time]

\* The bucket x as of a handler's reading of the clock.  The elapsed time is
\* negative when a later reading got to the bucket first.
Refill(x, time) ==
    LET sum == x.tokens + (time - x.lastUpdate)
    IN  [tokens |-> IF sum > maxTokens THEN maxTokens ELSE sum,
         lastUpdate |-> time, lastAccess |-> time]

Charge(x) == [x EXCEPT !.tokens = @ - Cost]

\* The history: one more request in every interval with this reading.
Spend(counts, time) ==
    [w \in DOMAIN counts |-> counts[w] + IF w[1] <= time /\ time <= w[2] THEN Cost ELSE 0]

Return(h) ==
    /\ pc' = [pc EXCEPT ![h] = "idle"]
    /\ now' = [now EXCEPT ![h] = 0]
    /\ b' = [b EXCEPT ![h] = 0]
    /\ UNCHANGED tenant

\* Under b.mu: refill, and take a token if there is one.
Allowed(h) ==
    /\ pc[h] = "take"
    /\ LET x == Refill(bucket[b[h]], now[h])
       IN  /\ x.tokens >= Cost
           /\ bucket' = [bucket EXCEPT ![b[h]] = Charge(x)]
    /\ spent' = [spent EXCEPT ![b[h]] = Spend(@, now[h])]
    /\ given' = [given EXCEPT ![tenant[h]] = Spend(@, now[h])]
    /\ Return(h)
    /\ UNCHANGED <<clock, limiters, made, scan, cleanNow>>

Refused(h) ==
    /\ pc[h] = "take"
    /\ LET x == Refill(bucket[b[h]], now[h])
       IN  /\ x.tokens < Cost
           /\ bucket' = [bucket EXCEPT ![b[h]] = x]
    /\ Return(h)
    /\ UNCHANGED <<clock, limiters, made, scan, cleanNow, spent, given>>

\* cleanup: take rl.mu and read the clock ...
StartCleanup ==
    /\ scan = {}
    /\ scan' = {t \in Tenants : limiters[t] # 0}
    /\ scan' # {}
    /\ cleanNow' = clock
    /\ UNCHANGED <<clock, limiters, made, bucket, handlerVars, spent, given>>

\* Mutant: the comparison is the wrong way round.
VisitBackwards(t) ==
    /\ t \in scan
    /\ scan' = scan \ {t}
    /\ limiters' = IF cleanNow - bucket[limiters[t]].lastAccess < TTL
                   THEN [limiters EXCEPT ![t] = 0] ELSE limiters
    /\ UNCHANGED <<clock, made, bucket, handlerVars, cleanNow, spent, given>>

\* ... and visit the buckets one by one, each under its own lock.
Visit(t) ==
    /\ t \in scan
    /\ scan' = scan \ {t}
    /\ limiters' = IF cleanNow - bucket[limiters[t]].lastAccess > TTL
                   THEN [limiters EXCEPT ![t] = 0] ELSE limiters
    /\ UNCHANGED <<clock, made, bucket, handlerVars, cleanNow, spent, given>>

-----------------------------------------------------------------------------
SomeTenant == CHOOSE t \in Tenants : TRUE
Empty == [tokens |-> 0, lastUpdate |-> 0, lastAccess |-> 0]

Init ==
    /\ clock = 0
    /\ limiters = [t \in Tenants |-> 0]
    /\ made = 0
    /\ bucket = [i \in Buckets |-> Empty]
    /\ pc = [h \in Handlers |-> "idle"]
    /\ tenant = [h \in Handlers |-> SomeTenant]
    /\ now = [h \in Handlers |-> 0]
    /\ b = [h \in Handlers |-> 0]
    /\ scan = {} /\ cleanNow = 0
    /\ spent = [i \in Buckets |-> [w \in Time \X Time |-> 0]]
    /\ given = [t \in Tenants |-> [w \in Time \X Time |-> 0]]

Handle(h) ==
    \/ \E t \in Tenants : ReadClock(h, t)
    \/ Found(h) \/ NewBucket(h) \/ Allowed(h) \/ Refused(h)

Next ==
    \/ Tick
    \/ \E h \in Handlers : Handle(h)
    \/ StartCleanup
    \/ \E t \in Tenants : Visit(t)

Spec == Init /\ [][Next]_vars

-----------------------------------------------------------------------------
TypeOK ==
    /\ clock \in Time /\ made \in 0..MaxBuckets
    /\ limiters \in [Tenants -> 0..MaxBuckets]
    /\ bucket \in [Buckets -> [tokens : Int, lastUpdate : Time, lastAccess : Time]]
    /\ pc \in [Handlers -> {"idle", "lookup", "take"}]
    /\ tenant \in [Handlers -> Tenants]
    /\ now \in [Handlers -> Time]
    /\ b \in [Handlers -> 0..MaxBuckets]
    /\ scan \in SUBSET Tenants /\ cleanNow \in Time
    /\ spent \in [Buckets -> [Time \X Time -> Nat]]
    /\ given \in [Tenants -> [Time \X Time -> Nat]]

(***************************************************************************)
(* In any interval a bucket gives no more than its capacity and what the   *)
(* interval refills, in whatever order the handlers of the interval reach  *)
(* it: a stale reading of the clock takes the refill back.                 *)
(***************************************************************************)
BucketBound ==
    \A i \in Buckets, s, e \in Time : s <= e => spent[i][<<s, e>>] <= maxTokens + (e - s)

(***************************************************************************)
(* The eviction of idle buckets gives a tenant no second burst, except for *)
(* the handlers that looked the old bucket up before it was evicted: one   *)
(* request each.  docs/api.md promises "a burst of 10,000 requests"; this  *)
(* is how far the code can exceed it.                                      *)
(***************************************************************************)
TenantBound ==
    \A t \in Tenants, s, e \in Time :
        s <= e => given[t][<<s, e>>] <= maxTokens + (e - s) + Cost * Cardinality(Handlers)

(***************************************************************************)
(* A request is refused only when its bucket gave a full second's worth of *)
(* tokens during the last second, less what refills in the time since the  *)
(* request read the clock: a later reading that reached the bucket first   *)
(* costs it no more than that, however many handlers overtake it.          *)
(***************************************************************************)
FairRefusal ==
    [][\A h \in Handlers :
         LET from == IF clock < Second THEN 0 ELSE clock - Second + 1
         IN  pc[h] = "take" /\ pc'[h] = "idle" /\ spent' = spent
             => spent[b[h]][<<from, clock>>] + (clock - now[h]) > Second - Cost]_vars

-----------------------------------------------------------------------------
(***************************************************************************)
(* The inductive invariant.  A handler that takes holds a bucket that was  *)
(* created.  For every interval in which a bucket has given anything, what *)
(* it gave and what it still has is at most its capacity and the refill    *)
(* from the start of the interval to its last update: this quantity never  *)
(* grows, as a refill moves tokens and lastUpdate together.  For the same  *)
(* reason what it gave from a time on and what it has is not less than     *)
(* what a bucket that was full just now, or empty at that time, would have *)
(* (Fair).                                                                 *)
(***************************************************************************)
PointerShape ==
    /\ \A h \in Handlers : pc[h] = "take" => b[h] \in 1..made
    /\ \A t \in Tenants : limiters[t] \in 0..made
    /\ scan \subseteq {t \in Tenants : limiters[t] # 0}

Budget ==
    \A i \in Buckets, s, e \in Time :
        /\ i > made => spent[i][<<s, e>>] = 0
        /\ s <= e /\ spent[i][<<s, e>>] > 0
           => spent[i][<<s, e>>] + bucket[i].tokens <= maxTokens + (bucket[i].lastUpdate - s)

ReadingsArePast == \A h \in Handlers : now[h] <= clock

\* A longer interval holds more.
Monotone ==
    \A i \in Buckets, s, e, f \in Time : e <= f => spent[i][<<s, e>>] <= spent[i][<<s, f>>]

Fair ==
    \A i \in Buckets, s \in Time :
        LET worth == spent[i][<<s, clock>>] + bucket[i].tokens - bucket[i].lastUpdate
        IN  i <= made => worth >= maxTokens - clock \/ (s > 0 /\ worth >= 1 - s)

\* The conjunction that every step of a handler and of cleanup preserves.
Inv == TypeOK /\ PointerShape /\ Budget /\ BucketBound /\ ReadingsArePast /\ Monotone /\ Fair

(***************************************************************************)
(* The second one, about a tenant and all its buckets.  Handlers are not   *)
(* later than MaxStall, and neither is a bucket much below zero.           *)
(***************************************************************************)
Punctual ==
    /\ \A h \in Handlers : pc[h] # "idle" => clock - now[h] <= MaxStall
    /\ \A i \in Buckets :
        /\ bucket[i].lastAccess = bucket[i].lastUpdate
        /\ bucket[i].tokens >= bucket[i].lastUpdate - clock /\ bucket[i].tokens >= 0 - MaxStall
    /\ cleanNow <= clock

\* The handlers whose bucket has left the map, with a reading in the interval.
Stale(t, s, e) == {h \in Handlers : pc[h] = "take" /\ tenant[h] = t /\ b[h] # limiters[t] /\ s <= now[h] /\ now[h] <= e}

\* What the tenant was given in the interval or can still get by them.
Claim(t, s, e) == given[t][<<s, e>>] + Cost * Cardinality(Stale(t, s, e))

Spare == Cost * Cardinality(Handlers)

\* The claim is what the stale handlers are allowed; or else the tenant's
\* bucket has paid for the rest, or there has been time to refill it.
Covered(t, s, e) ==
    LET x == bucket[limiters[t]]
    IN  \/ Claim(t, s, e) <= Spare
        \/ limiters[t] # 0 /\ Claim(t, s, e) + x.tokens <= Spare + maxTokens + (x.lastUpdate - s)
        \/ limiters[t] = 0 /\ Claim(t, s, e) <= Spare + (clock - MaxStall - s)

\* A bucket in the map is not much older than what was given or is claimed.
Recent(t, s, e) ==
    LET x == bucket[limiters[t]]
    IN  /\ given[t][<<s, e>>] > 0 => s <= clock /\ (limiters[t] # 0 => s <= x.lastUpdate + MaxStall)
        /\ limiters[t] # 0 => \A h \in Stale(t, s, e) : now[h] <= x.lastUpdate + MaxStall

Bounded(t, s, e) == s <= e => Claim(t, s, e) <= maxTokens + (e - s) + Spare

\* What every step preserves, given Inv.
TenantInv ==
    /\ Punctual
    /\ \A t \in Tenants, s, e \in Time : Covered(t, s, e) /\ Recent(t, s, e) /\ Bounded(t, s, e)
=============================================================================
