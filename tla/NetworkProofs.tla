--------------------------- MODULE NetworkProofs ---------------------------
(***************************************************************************)
(* Proofs about how a daemon meets its network: the guards at its edge,    *)
(* the keys it keeps for its peers, whom it finds, dials and trusts.       *)
(*                                                                         *)
(* Of the guards none of the guarantees is inductive as it stands.  When   *)
(* an envelope is handled again depends on what the replay cache holds,    *)
(* or when it forgot it; the bound on the rate in every window needs the   *)
(* tokens left to be part of the account; and the breaker's needs its own  *)
(* count to be the number of failures in a row.                            *)
(***************************************************************************)
EXTENDS Guards, Peers, Discovery, Transport, FiniteSetTheorems, SequenceTheorems,
        WellFoundedInduction, TLAPS

-----------------------------------------------------------------------------
(* The guards, for any lifetimes, rates, thresholds and spans. *)

GuardNext == ReplayNext \/ RateNext \/ BreakerNext \/ BudgetNext

UsageRow == [id : UsageIds, tokens : 1..2, at : 0..MaxNow]

\* The rest of the types.
GuardHistoryOK ==
    /\ handled \in [Envelopes -> Seq(0..MaxNow)]
    /\ bucket = NoBucket \/ (bucket \in [tokens : 0..BucketSize, lastRefill : 0..now])
    /\ allowed \in Seq(0..now)
    /\ streak \in Nat
    /\ usage \subseteq UsageRow

\* An envelope handled once is in the cache, or has been out of it only since
\* the cache's retention passed.
CacheRemembers ==
    \A m \in Envelopes :
        /\ m \notin DOMAIN envelope => handled[m] = <<>>
        /\ Len(handled[m]) = 1 =>
              /\ handled[m][1] <= now
              /\ \/ seen[m] = handled[m][1]
                 \/ seen[m] = Never /\ handled[m][1] < now - SeenFor

\* From every request on, what was let through and the tokens that are left
\* come from a full bucket and the refills since; an address without a bucket
\* has been idle for long enough to have earned a full one.
TokensAreAccounted ==
    \A i \in 1..Len(allowed) :
        IF bucket = NoBucket
        THEN Len(allowed) - i + 1 <= RefillRate * (now - allowed[i])
        ELSE /\ allowed[i] <= bucket.lastRefill
             /\ Len(allowed) - i + 1 + bucket.tokens
                   <= BucketSize + RefillRate * (bucket.lastRefill - allowed[i])

\* The breaker counts the failures in a row, and a closed one few.
BreakerCounts ==
    /\ circuit.failures = streak
    /\ circuit.state = "closed" => circuit.failures < FailureThreshold

GuardIInv ==
    /\ GuardTypeOK /\ GuardHistoryOK
    /\ CacheRemembers /\ HandledOnce
    /\ TokensAreAccounted /\ RateBounded
    /\ BreakerCounts

-----------------------------------------------------------------------------
LEMMA GuardConstants ==
    /\ Ttls \subseteq Nat
    /\ BucketSize \in Nat \ {0} /\ RefillRate \in Nat \ {0} /\ BucketIdle \in Nat \ {0}
    /\ FailureThreshold \in Nat \ {0} /\ ResetTimeout \in Nat \ {0} /\ MaxNow \in Nat \ {0}
    /\ SeenFor \in Nat /\ Hour \in Nat /\ Day \in Nat /\ Week \in Nat
    /\ Hour <= Day /\ Day <= Week
  BY GuardsAssumption DEF GuardsAssumption

\* A bucket idle for long enough to be dropped is full.
LEMMA IdleIsFull == BucketIdle * RefillRate >= BucketSize
  BY GuardsAssumption DEF GuardsAssumption

LEMMA MinOfTwo ==
    ASSUME NEW a \in Int, NEW b \in Int
    PROVE  Min({a, b}) = IF a <= b THEN a ELSE b
  <1> DEFINE c == IF a <= b THEN a ELSE b
  <1>1. c \in {a, b} /\ \A y \in {a, b} : c <= y
    OBVIOUS
  <1>2. \A x \in {a, b} : (\A y \in {a, b} : x <= y) => x = c
    OBVIOUS
  <1> HIDE DEF c
  <1>3. Min({a, b}) = c
    BY <1>1, <1>2 DEF Min
  <1> QED BY <1>3 DEF c

LEMMA Distributes ==
    ASSUME NEW r \in Int, NEW a \in Int, NEW b \in Int
    PROVE  r * (a + b) = r * a + r * b /\ r * a \in Int /\ r * b \in Int
  OBVIOUS

LEMMA BelowTwo == ASSUME NEW n \in Nat, n < 2 PROVE n \in {0, 1}
  OBVIOUS

LEMMA AllowedTimes ==
    ASSUME GuardIInv
    PROVE  /\ now \in 0..MaxNow /\ now \in Nat /\ allowed \in Seq(0..now) /\ Len(allowed) \in Nat
           /\ \A i \in 1..Len(allowed) : allowed[i] \in 0..now
  <1>1. now \in 0..MaxNow /\ now \in Nat
    BY GuardConstants DEF GuardIInv, GuardTypeOK
  <1>2. allowed \in Seq(0..now)
    BY DEF GuardIInv, GuardHistoryOK
  <1> QED BY <1>1, <1>2

LEMMA GuardInitIInv == GuardInit => GuardIInv
  <1> SUFFICES ASSUME GuardInit PROVE GuardIInv
    OBVIOUS
  <1> USE GuardConstants
  <1>1. now \in 0..MaxNow /\ now = 0
    BY DEF GuardInit
  <1>2. DOMAIN envelope = {}
    BY DEF GuardInit
  <1>3. circuit \in Circuit /\ circuit.failures = 0
    BY <1>1 DEF GuardInit, Circuit
  <1>4. bucket = NoBucket /\ bucket.tokens \in -1..BucketSize
    BY DEF GuardInit, NoBucket, Never
  <1>5. seen \in [Envelopes -> Int] /\ inflight \in Nat
    BY DEF GuardInit, Never
  <1>6. GuardTypeOK
    BY <1>1, <1>2, <1>3, <1>4, <1>5 DEF GuardTypeOK
  <1>7. GuardHistoryOK
    <2>1. <<>> \in Seq(0..MaxNow) /\ <<>> \in Seq(0..now)
      OBVIOUS
    <2> QED BY <1>4, <2>1 DEF GuardInit, GuardHistoryOK
  <1>8. CacheRemembers /\ HandledOnce
    BY <1>2 DEF GuardInit, CacheRemembers, HandledOnce
  <1>9. TokensAreAccounted /\ RateBounded
    BY DEF GuardInit, TokensAreAccounted, RateBounded
  <1>10. BreakerCounts
    BY <1>3 DEF GuardInit, BreakerCounts
  <1> QED BY <1>6, <1>7, <1>8, <1>9, <1>10 DEF GuardIInv

-----------------------------------------------------------------------------
(* The clock. *)

LEMMA ClockKeeps == GuardIInv /\ Clock => GuardIInv'
  <1> SUFFICES ASSUME GuardIInv, Clock PROVE GuardIInv'
    OBVIOUS
  <1> USE GuardConstants
  <1>1. /\ now' = now + 1 /\ now < MaxNow /\ now \in 0..MaxNow
        /\ UNCHANGED <<envelope, seen, handled, bucket, allowed, circuit, inflight, streak, usage>>
    BY DEF Clock, replayVars, rateVars, breakerVars, GuardIInv, GuardTypeOK
  <1>2. GuardTypeOK'
    BY <1>1 DEF GuardIInv, GuardTypeOK
  <1>3. GuardHistoryOK'
    <2>1. 0..now \subseteq 0..now'
      BY <1>1
    <2>2. allowed \in Seq(0..now')
      BY <2>1, <1>1 DEF GuardIInv, GuardHistoryOK
    <2>3. bucket = NoBucket \/ (bucket \in [tokens : 0..BucketSize, lastRefill : 0..now'])
      BY <2>1 DEF GuardIInv, GuardHistoryOK
    <2> QED BY <1>1, <2>2, <2>3 DEF GuardIInv, GuardHistoryOK
  <1>4. CacheRemembers'
    BY <1>1 DEF GuardIInv, CacheRemembers, GuardHistoryOK
  <1>5. HandledOnce' /\ BreakerCounts' /\ RateBounded'
    BY <1>1 DEF GuardIInv, HandledOnce, BreakerCounts, RateBounded
  <1>6. TokensAreAccounted'
    <2> SUFFICES ASSUME NEW i \in 1..Len(allowed), bucket = NoBucket
                 PROVE  Len(allowed) - i + 1 <= RefillRate * (now' - allowed[i])
      BY <1>1 DEF TokensAreAccounted, GuardIInv
    <2>1. allowed[i] \in 0..now /\ Len(allowed) \in Nat
      BY AllowedTimes
    <2>2. Len(allowed) - i + 1 <= RefillRate * (now - allowed[i])
      BY DEF GuardIInv, TokensAreAccounted
    <2>3. RefillRate * (now' - allowed[i]) = RefillRate * (now - allowed[i]) + RefillRate
      <3>1. now - allowed[i] \in Int /\ now' - allowed[i] = now - allowed[i] + 1
        BY <1>1, <2>1
      <3>2. RefillRate * (now - allowed[i] + 1) = RefillRate * (now - allowed[i]) + RefillRate * 1
        BY <3>1, Distributes
      <3> QED BY <3>1, <3>2
    <2>4. RefillRate * (now - allowed[i]) \in Int
      BY <1>1, <2>1
    <2> QED BY <1>1, <2>1, <2>2, <2>3, <2>4
  <1> QED BY <1>2, <1>3, <1>4, <1>5, <1>6 DEF GuardIInv

-----------------------------------------------------------------------------
(* The replay cache and the lifetime of envelopes. *)

\* What the other guards keep when only the envelopes move.
LEMMA ReplayFrame ==
    ASSUME GuardIInv, UNCHANGED <<now, bucket, allowed, circuit, inflight, streak, usage>>
    PROVE  /\ TokensAreAccounted' /\ RateBounded' /\ BreakerCounts'
           /\ handled' \in [Envelopes -> Seq(0..MaxNow)] => GuardHistoryOK'
           /\ (seen' \in [Envelopes -> Int] /\ envelope' = envelope) => GuardTypeOK'
  <1>1. TokensAreAccounted'
    BY DEF GuardIInv, TokensAreAccounted
  <1>2. RateBounded' /\ BreakerCounts'
    BY DEF GuardIInv, RateBounded, BreakerCounts
  <1>3. handled' \in [Envelopes -> Seq(0..MaxNow)] => GuardHistoryOK'
    BY DEF GuardIInv, GuardHistoryOK
  <1>4. (seen' \in [Envelopes -> Int] /\ envelope' = envelope) => GuardTypeOK'
    BY DEF GuardIInv, GuardTypeOK
  <1> QED BY <1>1, <1>2, <1>3, <1>4

LEMMA EnvelopeTimes ==
    ASSUME GuardIInv, NEW m \in DOMAIN envelope
    PROVE  /\ m \in Envelopes /\ envelope[m].created \in Int /\ envelope[m].ttl \in Nat
  <1>1. m \in Envelopes /\ envelope[m] \in Envelope
    BY DEF GuardIInv, GuardTypeOK
  <1>2. envelope[m].ttl \in Ttls /\ envelope[m].created \in -1..(MaxNow + 1)
    BY <1>1 DEF Envelope
  <1>3. envelope[m].created \in Int
    BY <1>2, GuardConstants
  <1> QED BY <1>1, <1>2, <1>3, GuardConstants

LEMMA SendKeeps ==
    ASSUME GuardIInv, NEW m \in Envelopes, NEW ttl \in Ttls, NEW skew \in {-1, 0, 1},
           Send(m, ttl, skew)
    PROVE  GuardIInv'
  <1> USE GuardConstants
  <1> DEFINE e == [created |-> now + skew, ttl |-> ttl]
  <1>1. /\ m \notin DOMAIN envelope
        /\ envelope' = [x \in DOMAIN envelope \cup {m} |-> IF x = m THEN e ELSE envelope[x]]
        /\ UNCHANGED <<now, seen, handled, bucket, allowed, circuit, inflight, streak, usage>>
    BY DEF Send, rateVars, breakerVars
  <1>2. now \in 0..MaxNow
    BY DEF GuardIInv, GuardTypeOK
  <1>3. e \in Envelope
    BY <1>2 DEF Envelope
  <1> HIDE DEF e
  <1>4. DOMAIN envelope' = DOMAIN envelope \cup {m} /\ envelope'[m] = e
        /\ \A x \in DOMAIN envelope : envelope'[x] = envelope[x]
    BY <1>1
  <1>5. GuardTypeOK'
    BY <1>1, <1>3, <1>4 DEF GuardIInv, GuardTypeOK
  <1>6. GuardHistoryOK' /\ TokensAreAccounted' /\ RateBounded' /\ BreakerCounts'
    <2>1. handled' \in [Envelopes -> Seq(0..MaxNow)]
      BY <1>1 DEF GuardIInv, GuardHistoryOK
    <2> QED BY <1>1, <2>1, ReplayFrame
  <1>7. CacheRemembers'
    BY <1>1, <1>4 DEF GuardIInv, CacheRemembers
  <1>8. HandledOnce'
    <2>1. handled[m] = <<>>
      BY <1>1 DEF GuardIInv, CacheRemembers
    <2> QED BY <1>1, <1>4, <2>1 DEF GuardIInv, HandledOnce
  <1> QED BY <1>5, <1>6, <1>7, <1>8 DEF GuardIInv

\* A second handling: the lifetime has passed since the first one, or the cache
\* has let go of the key. If the lifetime has not run out by then, the envelope
\* was made after the first handling.
LEMMA DeliverKeeps ==
    ASSUME GuardIInv, NEW m \in Envelopes, Deliver(m)
    PROVE  GuardIInv'
  <1> USE GuardConstants
  <1>1. /\ m \in DOMAIN envelope /\ Len(handled[m]) < 2
        /\ envelope[m].ttl > 0 => now - envelope[m].created <= envelope[m].ttl
        /\ seen[m] = Never \/ ~(now - seen[m] < envelope[m].ttl)
        /\ seen' = [seen EXCEPT ![m] = now]
        /\ handled' = [handled EXCEPT ![m] = Append(handled[m], now)]
        /\ UNCHANGED <<now, envelope, bucket, allowed, circuit, inflight, streak, usage>>
    BY DEF Deliver, Fresh, IsReplay, rateVars, breakerVars
  <1>2. now \in 0..MaxNow /\ now \in Int /\ seen \in [Envelopes -> Int]
    BY DEF GuardIInv, GuardTypeOK
  <1>3. handled \in [Envelopes -> Seq(0..MaxNow)] /\ handled[m] \in Seq(0..MaxNow)
        /\ Len(handled[m]) \in {0, 1}
    <2>1. handled \in [Envelopes -> Seq(0..MaxNow)]
      BY DEF GuardIInv, GuardHistoryOK
    <2>2. handled[m] \in Seq(0..MaxNow)
      BY <2>1
    <2>3. Len(handled[m]) \in Nat
      BY <2>2
    <2>4. Len(handled[m]) < 2
      BY <1>1
    <2>5. Len(handled[m]) \in {0, 1}
      BY <2>3, <2>4, BelowTwo
    <2> QED BY <2>1, <2>2, <2>5
  <1>4. /\ Append(handled[m], now) \in Seq(0..MaxNow)
        /\ Len(Append(handled[m], now)) = Len(handled[m]) + 1
        /\ Append(handled[m], now)[1] = IF Len(handled[m]) = 0 THEN now ELSE handled[m][1]
    BY <1>2, <1>3
  <1>5. handled' \in [Envelopes -> Seq(0..MaxNow)] /\ seen' \in [Envelopes -> Int]
        /\ seen'[m] = now /\ handled'[m] = Append(handled[m], now)
        /\ \A k \in Envelopes \ {m} : handled'[k] = handled[k] /\ seen'[k] = seen[k]
    BY <1>1, <1>2, <1>3, <1>4
  <1>6. GuardTypeOK' /\ GuardHistoryOK' /\ TokensAreAccounted' /\ RateBounded' /\ BreakerCounts'
    BY <1>1, <1>5, ReplayFrame
  <1>7. CacheRemembers'
    <2> SUFFICES ASSUME NEW k \in Envelopes
                 PROVE  /\ k \notin DOMAIN envelope => handled'[k] = <<>>
                        /\ Len(handled'[k]) = 1 =>
                              /\ handled'[k][1] <= now
                              /\ \/ seen'[k] = handled'[k][1]
                                 \/ seen'[k] = Never /\ handled'[k][1] < now - SeenFor
      BY <1>1 DEF CacheRemembers
    <2>1. CASE k = m
      <3>1. ASSUME Len(handled'[m]) = 1 PROVE handled'[m][1] = now
        BY <1>3, <1>4, <1>5, <3>1
      <3> QED BY <1>1, <1>2, <1>5, <2>1, <3>1
    <2>2. CASE k # m
      BY <1>5, <2>2 DEF GuardIInv, CacheRemembers
    <2> QED BY <2>1, <2>2
  <1>8. ASSUME Len(handled[m]) = 1
        PROVE  /\ now - handled[m][1] >= envelope[m].ttl \/ now - handled[m][1] > SeenFor
               /\ envelope[m].ttl \in 1..SeenFor => envelope[m].created >= handled[m][1]
    <2>1. /\ handled[m][1] \in Int
          /\ seen[m] = handled[m][1] \/ (seen[m] = Never /\ handled[m][1] < now - SeenFor)
      BY <1>3, <1>8 DEF GuardIInv, CacheRemembers
    <2>2. handled[m][1] \in 0..MaxNow
      <3>1. 1 \in 1..Len(handled[m])
        BY <1>8
      <3> QED BY <1>3, <3>1, ElementOfSeq
    <2>3. handled[m][1] # Never
      BY <2>2 DEF Never
    <2>4. envelope[m].created \in Int /\ envelope[m].ttl \in Nat
      BY <1>1, EnvelopeTimes
    <2>5. CASE seen[m] = handled[m][1]
      BY <1>1, <1>2, <2>1, <2>3, <2>4, <2>5
    <2>6. CASE seen[m] = Never /\ handled[m][1] < now - SeenFor
      BY <1>1, <1>2, <2>1, <2>4, <2>6
    <2> QED BY <2>1, <2>5, <2>6
  <1>9. HandledOnce'
    <2> SUFFICES ASSUME NEW k \in DOMAIN envelope, Len(handled'[k]) > 1
                 PROVE  /\ \/ handled'[k][2] - handled'[k][1] >= envelope[k].ttl
                           \/ handled'[k][2] - handled'[k][1] > SeenFor
                        /\ envelope[k].ttl \in 1..SeenFor
                              => envelope[k].created >= handled'[k][1]
      BY <1>1 DEF HandledOnce
    <2>1. CASE k = m
      <3>1. Len(handled[m]) = 1
        BY <1>3, <1>4, <1>5, <2>1
      <3>2. handled'[m][1] = handled[m][1]
        BY <1>4, <1>5, <3>1
      <3>3. handled'[m][2] = now
        <4> DEFINE h == handled[m]
        <4>1. h \in Seq(0..MaxNow) /\ Len(h) + 1 = 2 /\ handled'[m] = Append(h, now)
          BY <1>3, <1>5, <3>1
        <4> HIDE DEF h
        <4>2. Append(h, now)[Len(h) + 1] = now
          BY <1>2, <4>1, AppendProperties
        <4> QED BY <4>1, <4>2
      <3> QED BY <1>8, <2>1, <3>1, <3>2, <3>3
    <2>2. CASE k # m
      BY <1>5, <2>2, EnvelopeTimes DEF GuardIInv, HandledOnce
    <2> QED BY <2>1, <2>2
  <1> QED BY <1>6, <1>7, <1>9 DEF GuardIInv

LEMMA CleanupSeenKeeps ==
    ASSUME GuardIInv, CleanupSeen
    PROVE  GuardIInv'
  <1> USE GuardConstants
  <1>1. /\ seen' = [m \in Envelopes |-> IF seen[m] < now - SeenFor THEN Never ELSE seen[m]]
        /\ UNCHANGED <<now, envelope, handled, bucket, allowed, circuit, inflight, streak, usage>>
    BY DEF CleanupSeen, rateVars, breakerVars
  <1>2. now \in Int /\ seen \in [Envelopes -> Int] /\ Never \in Int
    BY DEF GuardIInv, GuardTypeOK, Never
  <1>3. seen' \in [Envelopes -> Int]
    BY <1>1, <1>2
  <1>4. handled' \in [Envelopes -> Seq(0..MaxNow)]
    BY <1>1 DEF GuardIInv, GuardHistoryOK
  <1>5. GuardTypeOK' /\ GuardHistoryOK' /\ TokensAreAccounted' /\ RateBounded' /\ BreakerCounts'
    BY <1>1, <1>3, <1>4, ReplayFrame
  <1>6. CacheRemembers'
    BY <1>1, <1>2 DEF GuardIInv, CacheRemembers
  <1>7. HandledOnce'
    BY <1>1 DEF GuardIInv, HandledOnce
  <1> QED BY <1>5, <1>6, <1>7 DEF GuardIInv

-----------------------------------------------------------------------------
(* The token bucket. *)

LEMMA RateFrame ==
    ASSUME GuardIInv, UNCHANGED <<now, envelope, seen, handled, circuit, inflight, streak, usage>>,
           bucket' = NoBucket \/ bucket' \in [tokens : 0..BucketSize, lastRefill : 0..now],
           allowed' \in Seq(0..now)
    PROVE  GuardTypeOK' /\ GuardHistoryOK' /\ CacheRemembers' /\ HandledOnce' /\ BreakerCounts'
  <1>1. bucket'.tokens \in -1..BucketSize
    BY GuardConstants DEF NoBucket, Never
  <1>2. GuardTypeOK'
    BY <1>1 DEF GuardIInv, GuardTypeOK
  <1>3. GuardHistoryOK'
    BY DEF GuardIInv, GuardHistoryOK
  <1>4. CacheRemembers' /\ HandledOnce' /\ BreakerCounts'
    BY DEF GuardIInv, CacheRemembers, HandledOnce, BreakerCounts
  <1> QED BY <1>2, <1>3, <1>4

\* The bucket as the request finds it: its tokens and what was let through come
\* from a full bucket and the refills up to now.
LEMMA CurrentEffect ==
    ASSUME GuardIInv
    PROVE  /\ Current \in [tokens : 0..BucketSize, lastRefill : 0..now]
           /\ Current.lastRefill = now
           /\ \A i \in 1..Len(allowed) :
                 Len(allowed) - i + 1 + Current.tokens
                    <= BucketSize + RefillRate * (now - allowed[i])
  <1> USE GuardConstants
  <1>0. now \in Nat /\ now \in 0..now
    BY AllowedTimes
  <1>1. CASE bucket = NoBucket
    <2>1. Current = [tokens |-> BucketSize, lastRefill |-> now]
      BY <1>1 DEF Current
    <2>2. /\ Current \in [tokens : 0..BucketSize, lastRefill : 0..now]
          /\ Current.lastRefill = now /\ Current.tokens = BucketSize
      BY <1>0, <2>1
    <2>3. ASSUME NEW i \in 1..Len(allowed)
          PROVE  Len(allowed) - i + 1 + BucketSize <= BucketSize + RefillRate * (now - allowed[i])
      <3>1. Len(allowed) - i + 1 <= RefillRate * (now - allowed[i])
        BY <1>1 DEF GuardIInv, TokensAreAccounted
      <3>2. Len(allowed) \in Nat /\ i \in Int /\ RefillRate * (now - allowed[i]) \in Int
        BY <1>0, AllowedTimes, Distributes
      <3> QED BY <3>1, <3>2
    <2> QED BY <2>2, <2>3
  <1>2. CASE bucket # NoBucket
    <2> DEFINE t == bucket.tokens
               l == bucket.lastRefill
               n == t + (now - l) * RefillRate
    <2>1. t \in 0..BucketSize /\ l \in 0..now
      BY <1>2 DEF GuardIInv, GuardHistoryOK
    <2>2. (now - l) * RefillRate \in Nat /\ (now - l) * RefillRate = RefillRate * (now - l)
      BY <1>0, <2>1
    <2>3. Current = [tokens |-> Min({BucketSize, n}), lastRefill |-> now]
      BY <1>2 DEF Current, Refilled
    <2>4. n \in Nat
      BY <2>1, <2>2
    <2>5. Min({BucketSize, n}) \in 0..BucketSize /\ Min({BucketSize, n}) <= n
      BY <2>4, MinOfTwo
    <2> HIDE DEF n
    <2>6. /\ Current \in [tokens : 0..BucketSize, lastRefill : 0..now]
          /\ Current.lastRefill = now /\ Current.tokens \in 0..BucketSize /\ Current.tokens <= n
      BY <1>0, <2>3, <2>5
    <2>7. ASSUME NEW i \in 1..Len(allowed)
          PROVE  Len(allowed) - i + 1 + Current.tokens <= BucketSize + RefillRate * (now - allowed[i])
      <3>1. Len(allowed) - i + 1 + t <= BucketSize + RefillRate * (l - allowed[i])
        BY <1>2 DEF GuardIInv, TokensAreAccounted
      <3>2. Len(allowed) \in Nat /\ i \in Int /\ allowed[i] \in Int /\ now \in Int /\ l \in Int /\ t \in Int
        BY <1>0, <2>1, AllowedTimes
      <3>3. RefillRate * ((l - allowed[i]) + (now - l))
               = RefillRate * (l - allowed[i]) + RefillRate * (now - l)
        <4>1. l - allowed[i] \in Int /\ now - l \in Int
          BY <3>2
        <4> HIDE DEF l
        <4> QED BY <4>1, Distributes
      <3>4. (l - allowed[i]) + (now - l) = now - allowed[i]
        BY <3>2
      <3>5. RefillRate * (now - allowed[i]) = RefillRate * (l - allowed[i]) + RefillRate * (now - l)
        BY <3>3, <3>4
      <3>6. n = t + RefillRate * (now - l)
        BY <2>2 DEF n
      <3>7. RefillRate * (l - allowed[i]) \in Int /\ RefillRate * (now - l) \in Int
        BY <3>2
      <3> DEFINE x == RefillRate * (l - allowed[i])
                 y == RefillRate * (now - l)
      <3>8. Len(allowed) - i + 1 + t <= BucketSize + x /\ Current.tokens <= t + y
        BY <2>6, <3>1, <3>6
      <3>9. x \in Int /\ y \in Int /\ Current.tokens \in Int
        BY <2>6, <3>7
      <3> HIDE DEF t, l, x, y
      <3>10. Len(allowed) - i + 1 + Current.tokens <= BucketSize + (x + y)
        BY <3>2, <3>8, <3>9
      <3> QED BY <3>5, <3>10 DEF x, y
    <2> QED BY <2>6, <2>7
  <1> QED BY <1>1, <1>2

LEMMA AllowKeeps ==
    ASSUME GuardIInv, Allow
    PROVE  GuardIInv'
  <1> USE GuardConstants
  <1> DEFINE n == Len(allowed)
             c == Current
  <1>1. /\ c \in [tokens : 0..BucketSize, lastRefill : 0..now] /\ c.lastRefill = now
        /\ \A i \in 1..n : n - i + 1 + c.tokens <= BucketSize + RefillRate * (now - allowed[i])
    BY CurrentEffect
  <1>2. UNCHANGED <<now, envelope, seen, handled, circuit, inflight, streak, usage>>
    BY DEF Allow, replayVars, breakerVars
  <1>3. /\ now \in Nat /\ allowed \in Seq(0..now) /\ n \in Nat
        /\ \A i \in 1..n : allowed[i] \in 0..now
    BY AllowedTimes
  <1>4. c # NoBucket /\ ([c EXCEPT !.tokens = c.tokens - 1] # NoBucket \/ c.tokens = 0)
    BY <1>1 DEF NoBucket, Never
  <1>5. CASE c.tokens >= 1
    <2> DEFINE b == [c EXCEPT !.tokens = c.tokens - 1]
    <2>1. bucket' = b /\ allowed' = Append(allowed, now)
      BY <1>5 DEF Allow
    <2>2. /\ b \in [tokens : 0..BucketSize, lastRefill : 0..now] /\ b.lastRefill = now
          /\ b.tokens = c.tokens - 1 /\ b.tokens \in Nat /\ c.tokens \in 1..BucketSize
      BY <1>1, <1>5
    <2>3. b # NoBucket
      BY <2>2 DEF NoBucket, Never
    <2>4. /\ allowed' \in Seq(0..now) /\ Len(allowed') = n + 1 /\ allowed'[n + 1] = now
          /\ \A i \in 1..n : allowed'[i] = allowed[i]
      BY <1>3, <2>1
    <2> HIDE DEF b, c
    <2>5. GuardTypeOK' /\ GuardHistoryOK' /\ CacheRemembers' /\ HandledOnce' /\ BreakerCounts'
      BY <1>2, <2>1, <2>2, <2>4, RateFrame
    <2>6. ASSUME NEW i \in 1..(n + 1)
          PROVE  /\ allowed'[i] \in 0..now
                 /\ n + 1 - i + 1 + b.tokens <= BucketSize + RefillRate * (now - allowed'[i])
      <3>1. CASE i = n + 1
        <4>1. allowed'[i] = now /\ now - now = 0 /\ RefillRate * 0 = 0
          BY <1>3, <2>4, <3>1
        <4> QED BY <1>3, <2>2, <3>1, <4>1
      <3>2. CASE i \in 1..n
        <4>1. n - i + 1 + c.tokens <= BucketSize + RefillRate * (now - allowed[i])
          BY <1>1, <3>2
        <4>2. allowed'[i] = allowed[i] /\ allowed[i] \in 0..now
          BY <1>3, <2>4, <3>2
        <4>3. RefillRate * (now - allowed[i]) \in Int
          BY <1>3, <4>2
        <4> DEFINE x == RefillRate * (now - allowed[i])
        <4>4. n - i + 1 + c.tokens <= BucketSize + x /\ x \in Int
          BY <4>1, <4>3
        <4> HIDE DEF x, n
        <4>5. n + 1 - i + 1 + b.tokens <= BucketSize + x
          BY <1>3, <2>2, <4>4
        <4> QED BY <4>2, <4>5 DEF x
      <3> QED BY <1>3, <3>1, <3>2
    <2>7. TokensAreAccounted'
      <3>1. bucket' # NoBucket /\ bucket' = b /\ Len(allowed') = n + 1
        BY <2>1, <2>3, <2>4
      <3>2. SUFFICES ASSUME NEW i \in 1..Len(allowed')
                     PROVE  /\ allowed'[i] <= bucket'.lastRefill
                            /\ Len(allowed') - i + 1 + bucket'.tokens
                                  <= BucketSize + RefillRate * (bucket'.lastRefill - allowed'[i])
        BY <3>1, Zenon DEF TokensAreAccounted
      <3>3. /\ allowed'[i] \in 0..now
            /\ n + 1 - i + 1 + b.tokens <= BucketSize + RefillRate * (now - allowed'[i])
        BY <2>6, <3>1
      <3>4. allowed'[i] <= now
        BY <1>3, <3>3
      <3> QED BY <2>2, <3>1, <3>3, <3>4
    <2>8. RateBounded'
      <3> SUFFICES ASSUME NEW i \in 1..(n + 1), NEW j \in 1..(n + 1), i <= j
                   PROVE  j - i + 1 <= BucketSize + RefillRate * (allowed'[j] - allowed'[i])
        BY <2>4 DEF RateBounded
      <3>1. CASE j = n + 1
        <4> DEFINE x == RefillRate * (now - allowed'[i])
        <4>1. n + 1 - i + 1 + b.tokens <= BucketSize + x
          BY <2>6
        <4>2. x \in Int
          BY <1>3, <2>6
        <4>3. RefillRate * (allowed'[j] - allowed'[i]) = x
          BY <2>4, <3>1
        <4> HIDE DEF x, n
        <4>4. j - i + 1 <= BucketSize + x
          BY <1>3, <2>2, <3>1, <4>1, <4>2
        <4> QED BY <4>3, <4>4
      <3>2. CASE i \in 1..n /\ j \in 1..n
        <4>1. i \in DOMAIN allowed /\ j \in DOMAIN allowed
          BY <1>3, <3>2
        <4> QED BY <2>4, <3>2, <4>1 DEF GuardIInv, RateBounded
      <3>3. j = n + 1 \/ (i \in 1..n /\ j \in 1..n)
        <4> HIDE DEF n
        <4> QED BY <1>3
      <3> QED BY <3>1, <3>2, <3>3
    <2> QED BY <2>5, <2>7, <2>8 DEF GuardIInv
  <1>6. CASE ~(c.tokens >= 1)
    <2>1. bucket' = c /\ allowed' = allowed
      BY <1>6 DEF Allow
    <2>2. c # NoBucket
      BY <1>1 DEF NoBucket, Never
    <2> HIDE DEF c
    <2>3. GuardTypeOK' /\ GuardHistoryOK' /\ CacheRemembers' /\ HandledOnce' /\ BreakerCounts'
      BY <1>1, <1>2, <1>3, <2>1, RateFrame
    <2>4. TokensAreAccounted'
      <3> SUFFICES ASSUME NEW i \in 1..n
                   PROVE  /\ allowed[i] <= c.lastRefill
                          /\ n - i + 1 + c.tokens <= BucketSize + RefillRate * (c.lastRefill - allowed[i])
        <4>1. bucket' # NoBucket /\ bucket' = c /\ allowed' = allowed
          BY <2>1, <2>2
        <4> QED BY <4>1 DEF TokensAreAccounted
      <3>1. allowed[i] <= now
        BY <1>3
      <3> QED BY <1>1, <3>1
    <2>5. RateBounded'
      BY <2>1 DEF GuardIInv, RateBounded
    <2> QED BY <2>3, <2>4, <2>5 DEF GuardIInv
  <1> QED BY <1>5, <1>6

LEMMA CleanupBucketKeeps ==
    ASSUME GuardIInv, CleanupBucket
    PROVE  GuardIInv'
  <1> USE GuardConstants
  <1> DEFINE n == Len(allowed)
             t == bucket.tokens
             l == bucket.lastRefill
  <1>1. /\ bucket # NoBucket /\ l < now - BucketIdle
        /\ bucket' = NoBucket
        /\ UNCHANGED <<now, allowed, envelope, seen, handled, circuit, inflight, streak, usage>>
    BY DEF CleanupBucket, replayVars, breakerVars
  <1>2. /\ now \in Nat /\ allowed \in Seq(0..now) /\ n \in Nat
        /\ \A i \in 1..n : allowed[i] \in 0..now
    BY AllowedTimes
  <1>3. t \in 0..BucketSize /\ l \in 0..now
    BY <1>1 DEF GuardIInv, GuardHistoryOK
  <1>4. GuardTypeOK' /\ GuardHistoryOK' /\ CacheRemembers' /\ HandledOnce' /\ BreakerCounts'
    BY <1>1, <1>2, RateFrame
  <1>5. RateBounded'
    BY <1>1 DEF GuardIInv, RateBounded
  <1>6. TokensAreAccounted'
    <2> SUFFICES ASSUME NEW i \in 1..n PROVE n - i + 1 <= RefillRate * (now - allowed[i])
      BY <1>1 DEF TokensAreAccounted
    <2> DEFINE idle == now - l - BucketIdle
    <2>1. n - i + 1 + t <= BucketSize + RefillRate * (l - allowed[i])
      BY <1>1 DEF GuardIInv, TokensAreAccounted
    <2>2. l \in Int /\ t \in Nat /\ now \in Int /\ allowed[i] \in Int /\ idle \in Nat /\ i \in Int
      BY <1>1, <1>2, <1>3
    <2>3. now - allowed[i] = (l - allowed[i]) + (BucketIdle + idle)
      BY <2>2
    <2>4. l - allowed[i] \in Int /\ BucketIdle + idle \in Int
      BY <2>2
    <2> HIDE DEF idle, l, t
    <2>5. RefillRate * (now - allowed[i])
             = RefillRate * (l - allowed[i]) + RefillRate * (BucketIdle + idle)
      BY <2>3, <2>4, Distributes
    <2>6. RefillRate * (BucketIdle + idle) = RefillRate * BucketIdle + RefillRate * idle
      BY <2>2, Distributes
    <2>7. RefillRate * idle \in Nat /\ RefillRate * BucketIdle = BucketIdle * RefillRate
      BY <2>2
    <2>8. RefillRate * BucketIdle \in Int /\ RefillRate * (l - allowed[i]) \in Int
      BY <2>4
    <2> DEFINE x == RefillRate * (l - allowed[i])
               y == RefillRate * BucketIdle
               z == RefillRate * idle
    <2>9. /\ x \in Int /\ y \in Int /\ z \in Nat /\ y >= BucketSize
          /\ n - i + 1 + t <= BucketSize + x
          /\ RefillRate * (now - allowed[i]) = x + (y + z)
      BY <2>1, <2>5, <2>6, <2>7, <2>8, IdleIsFull
    <2> HIDE DEF n, x, y, z
    <2>10. n - i + 1 <= x + (y + z)
      BY <1>2, <2>2, <2>9
    <2> QED BY <2>9, <2>10 DEF n
  <1> QED BY <1>4, <1>5, <1>6 DEF GuardIInv

\* A removed peer has nothing on its account.
LEMMA RemovePeerKeeps ==
    ASSUME GuardIInv, RemovePeer
    PROVE  GuardIInv'
  <1>1. /\ bucket' = NoBucket /\ allowed' = <<>>
        /\ UNCHANGED <<now, envelope, seen, handled, circuit, inflight, streak, usage>>
    BY DEF RemovePeer, replayVars, breakerVars
  <1>2. GuardTypeOK' /\ GuardHistoryOK' /\ CacheRemembers' /\ HandledOnce' /\ BreakerCounts'
    <2>1. allowed' \in Seq(0..now)
      BY <1>1
    <2> QED BY <1>1, <2>1, RateFrame
  <1>3. TokensAreAccounted' /\ RateBounded'
    BY <1>1 DEF TokensAreAccounted, RateBounded
  <1> QED BY <1>2, <1>3 DEF GuardIInv

-----------------------------------------------------------------------------
(* The circuit breaker and the budget. *)

LEMMA BreakerFrame ==
    ASSUME GuardIInv, UNCHANGED <<now, envelope, seen, handled, bucket, allowed>>,
           circuit' \in Circuit, inflight' \in Nat, streak' \in Nat, usage' \subseteq UsageRow,
           BreakerCounts'
    PROVE  GuardIInv'
  <1>1. GuardTypeOK'
    BY DEF GuardIInv, GuardTypeOK
  <1>2. GuardHistoryOK'
    BY DEF GuardIInv, GuardHistoryOK
  <1>3. CacheRemembers' /\ HandledOnce'
    BY DEF GuardIInv, CacheRemembers, HandledOnce
  <1>4. TokensAreAccounted'
    BY DEF GuardIInv, TokensAreAccounted
  <1>5. RateBounded'
    BY DEF GuardIInv, RateBounded
  <1> QED BY <1>1, <1>2, <1>3, <1>4, <1>5 DEF GuardIInv

LEMMA BreakerKeeps ==
    ASSUME GuardIInv, CanExecute \/ RecordSuccess \/ RecordFailure \/ ResetCircuit
    PROVE  GuardIInv'
  <1>1. /\ circuit \in Circuit /\ inflight \in Nat /\ streak \in Nat /\ now \in 0..MaxNow
        /\ circuit.failures = streak /\ usage \subseteq UsageRow
        /\ circuit.state = "closed" => circuit.failures < FailureThreshold
    BY DEF GuardIInv, GuardTypeOK, GuardHistoryOK, BreakerCounts
  <1>2. UNCHANGED <<now, envelope, seen, handled, bucket, allowed, usage>>
    BY DEF CanExecute, RecordSuccess, RecordFailure, ResetCircuit, replayVars, rateVars
  <1>3. FailureThreshold \in Nat \ {0}
    BY GuardConstants
  <1>4. CASE CanExecute
    <2>1. circuit' = [circuit EXCEPT !.state = IF @ = "open" THEN "half_open" ELSE @]
          /\ inflight' = inflight + 1 /\ streak' = streak
      BY <1>4 DEF CanExecute
    <2>2. circuit' \in Circuit /\ circuit'.failures = circuit.failures
          /\ (circuit'.state = "closed" => circuit.state = "closed")
      BY <1>1, <2>1 DEF Circuit
    <2> QED BY <1>1, <1>2, <2>1, <2>2, BreakerFrame DEF BreakerCounts
  <1>5. CASE RecordSuccess
    <2>1. /\ circuit' = [circuit EXCEPT !.state = IF @ = "half_open" THEN "closed" ELSE @,
                                        !.failures = 0]
          /\ inflight > 0 /\ inflight' = inflight - 1 /\ streak' = 0
      BY <1>5 DEF RecordSuccess
    <2>2. circuit' \in Circuit /\ circuit'.failures = 0
      BY <1>1, <2>1 DEF Circuit
    <2> QED BY <1>1, <1>2, <1>3, <2>1, <2>2, BreakerFrame DEF BreakerCounts
  <1>6. CASE RecordFailure
    <2> DEFINE n == circuit.failures + 1
    <2>1. /\ circuit' = IF circuit.state = "half_open" \/ n >= FailureThreshold
                        THEN [state |-> "open", failures |-> n, openedAt |-> now]
                        ELSE [circuit EXCEPT !.failures = n]
          /\ inflight > 0 /\ inflight' = inflight - 1 /\ streak' = streak + 1
      BY <1>6 DEF RecordFailure
    <2>2. n \in Nat /\ n = streak + 1
      BY <1>1 DEF Circuit
    <2> HIDE DEF n
    <2>3. circuit' \in Circuit /\ circuit'.failures = n
          /\ (circuit'.state = "closed" => n < FailureThreshold)
      BY <1>1, <1>3, <2>1, <2>2 DEF Circuit
    <2> QED BY <1>1, <1>2, <2>1, <2>2, <2>3, BreakerFrame DEF BreakerCounts
  <1>7. CASE ResetCircuit
    <2>1. /\ circuit' = [circuit EXCEPT !.state = "closed", !.failures = 0]
          /\ inflight' = inflight /\ streak' = 0
      BY <1>7 DEF ResetCircuit
    <2>2. circuit' \in Circuit /\ circuit'.failures = 0
      BY <1>1, <2>1 DEF Circuit
    <2> QED BY <1>1, <1>2, <1>3, <2>1, <2>2, BreakerFrame DEF BreakerCounts
  <1> QED BY <1>4, <1>5, <1>6, <1>7

LEMMA BudgetKeeps ==
    ASSUME GuardIInv,
           \/ \E id \in UsageIds, n \in 1..2 : \E at \in 0..now : Report(id, n, at)
           \/ Prune
    PROVE  GuardIInv'
  <1>1. /\ circuit \in Circuit /\ inflight \in Nat /\ streak \in Nat /\ now \in 0..MaxNow
        /\ usage \subseteq UsageRow /\ BreakerCounts
    BY DEF GuardIInv, GuardTypeOK, GuardHistoryOK
  <1>2. UNCHANGED <<now, envelope, seen, handled, bucket, allowed, circuit, inflight, streak>>
    BY DEF Report, Prune, replayVars, rateVars, breakerVars
  <1>3. BreakerCounts'
    BY <1>1, <1>2 DEF BreakerCounts
  <1>4. usage' \subseteq UsageRow
    <2>1. ASSUME NEW id \in UsageIds, NEW n \in 1..2, NEW at \in 0..now, Report(id, n, at)
          PROVE  usage' \subseteq UsageRow
      <3>1. at \in 0..MaxNow
        BY <1>1, GuardConstants
      <3>2. [id |-> id, tokens |-> n, at |-> at] \in UsageRow
        BY <3>1 DEF UsageRow
      <3> QED BY <1>1, <2>1, <3>2 DEF Report
    <2>2. CASE Prune
      BY <1>1, <2>2 DEF Prune, Pruned
    <2> QED BY <2>1, <2>2
  <1> QED BY <1>1, <1>2, <1>3, <1>4, BreakerFrame

\* The inductive step.
LEMMA GuardStep == GuardIInv /\ [GuardNext]_guardVars => GuardIInv'
  <1> SUFFICES ASSUME GuardIInv, [GuardNext]_guardVars PROVE GuardIInv'
    OBVIOUS
  <1>1. CASE UNCHANGED guardVars
    <2>1. UNCHANGED <<now, envelope, seen, handled, bucket, allowed, circuit, inflight, streak, usage>>
      BY <1>1 DEF guardVars
    <2>2. circuit \in Circuit /\ inflight \in Nat /\ streak \in Nat /\ usage \subseteq UsageRow
      BY DEF GuardIInv, GuardTypeOK, GuardHistoryOK
    <2>3. BreakerCounts'
      BY <2>1 DEF GuardIInv, BreakerCounts
    <2> QED BY <2>1, <2>2, <2>3, BreakerFrame
  <1>2. CASE ReplayNext
    BY <1>2, SendKeeps, DeliverKeeps, CleanupSeenKeeps, ClockKeeps DEF ReplayNext
  <1>3. CASE RateNext
    BY <1>3, AllowKeeps, CleanupBucketKeeps, RemovePeerKeeps, ClockKeeps DEF RateNext
  <1>4. CASE BreakerNext
    BY <1>4, BreakerKeeps, ClockKeeps DEF BreakerNext
  <1>5. CASE BudgetNext
    BY <1>5, BudgetKeeps, ClockKeeps DEF BudgetNext
  <1> QED BY <1>1, <1>2, <1>3, <1>4, <1>5 DEF GuardNext

-----------------------------------------------------------------------------
(* What follows. *)

LEMMA PruneChangesNothing ==
    ASSUME GuardIInv PROVE PruneKeepsStatus
  <1>1. now \in Int /\ \A r \in usage : r.at \in Int
    BY GuardConstants DEF GuardIInv, GuardTypeOK, GuardHistoryOK, UsageRow
  <1>2. Within(Pruned(usage), Hour) = Within(usage, Hour)
    BY <1>1, GuardConstants DEF Within, Pruned
  <1>3. Within(Pruned(usage), Day) = Within(usage, Day)
    BY <1>1, GuardConstants DEF Within, Pruned
  <1> QED BY <1>2, <1>3 DEF PruneKeepsStatus, BudgetStatus

LEMMA GuardGuarantees ==
    GuardIInv => GuardTypeOK /\ HandledOnce /\ RateBounded /\ BreakerIsFair /\ PruneKeepsStatus
  <1>1. GuardIInv => BreakerIsFair
    BY GuardConstants DEF GuardIInv, BreakerCounts, BreakerIsFair, GuardHistoryOK, GuardTypeOK, Circuit
  <1> QED BY <1>1, PruneChangesNothing DEF GuardIInv

\* The guards bound what they are there to bound: an envelope's second
\* handling, with any lifetime or none, the rate in every window without a
\* removal, the failures of a closed circuit, and a budget that pruning leaves
\* as it was (replay.ts, ratelimit.ts, circuit-breaker.ts,
\* budget-guard.ts).
THEOREM GuardsGuarantee ==
    GuardInit /\ [][GuardNext]_guardVars =>
        [](GuardTypeOK /\ HandledOnce /\ RateBounded /\ BreakerIsFair /\ PruneKeepsStatus)
  BY GuardGuarantees, GuardInitIInv, GuardStep, PTL

-----------------------------------------------------------------------------
(* Keys of peers, the reconciler and the daemon client's retries. *)

\* What the learner's actions read and write.
LearnerRow == [peer : KnownPeers, endpoint : Addresses, via : {"inbound", "fallback", "boot"},
               attempt : 1..MaxFetchAttempts]
LearnIInv ==
    /\ where \in [KnownPeers -> Addresses]
    /\ DOMAIN seenPeers = KnownPeers
    /\ \A p \in KnownPeers : seenPeers[p].key \in KnownPeers \cup {"none"}
    /\ learners \subseteq LearnerRow
    /\ KeyIsOwners

\* One step of recordAuthenticatedSeen, whichever entries it drops.
LEMMA RecordSeenKeeps ==
    ASSUME LearnIInv, NEW p \in KnownPeers, NEW e, RecordSeen(p, e)
    PROVE  /\ DOMAIN seenPeers' = KnownPeers
           /\ \A q \in KnownPeers : \/ q = p /\ seenPeers'[q] = e
                                    \/ seenPeers'[q] = NoSeen
                                    \/ seenPeers'[q] = seenPeers[q]
  <1> DEFINE live(q) == IF q = p THEN e
                        ELSE IF peerClock - seenPeers[q].last > SeenTtl THEN NoSeen ELSE seenPeers[q]
  <1>1. \/ seenPeers' = [q \in KnownPeers |-> live(q)]
        \/ \E o : seenPeers' = [q \in KnownPeers |-> IF q = o THEN NoSeen ELSE live(q)]
    BY DEF RecordSeen
  <1> QED BY <1>1

LEMMA LearnInitIInv == PeersInit => LearnIInv
  <1> SUFFICES ASSUME PeersInit PROVE LearnIInv
    OBVIOUS
  <1>1. (CHOOSE a \in Addresses : TRUE) \in Addresses
    BY PeersAssumption
  <1> QED BY <1>1 DEF PeersInit, LearnIInv, KeyIsOwners, NoSeen

LEMMA LearnStep == LearnIInv /\ [LearnNext]_learnVars => LearnIInv'
  <1> SUFFICES ASSUME LearnIInv, [LearnNext]_learnVars PROVE LearnIInv'
    OBVIOUS
  <1>0. MaxFetchAttempts \in Nat /\ 1 \in 1..MaxFetchAttempts
    BY PeersAssumption
  <1>1. ASSUME NEW p \in KnownPeers, NEW sender \in KnownPeers, LearnInbound(p, sender)
        PROVE  LearnIInv'
    <2>1. \A a \in Addresses, via \in {"inbound", "fallback", "boot"} :
              Learner(p, a, via) \in LearnerRow
      BY <1>0 DEF Learner, LearnerRow
    <2>2. where[p] \in Addresses
      BY DEF LearnIInv
    <2>3. learners' \subseteq LearnerRow
      BY <1>1, <2>1, <2>2 DEF LearnInbound, LearnIInv
    <2> QED BY <1>1, <2>3 DEF LearnInbound, LearnIInv, KeyIsOwners
  <1>2. ASSUME NEW p \in KnownPeers, RelearnPeer(p) PROVE LearnIInv'
    <2>1. learners' \subseteq LearnerRow
      <3>1. bootTargets[p].endpoint \in Addresses
        BY <1>2, PeersAssumption DEF RelearnPeer, isReLearnHostAllowed
      <3>2. Learner(p, bootTargets[p].endpoint, "boot") \in LearnerRow
        BY <1>0, <3>1 DEF Learner, LearnerRow
      <3> QED BY <1>2, <3>2 DEF RelearnPeer, LearnIInv
    <2> QED BY <1>2, <2>1 DEF RelearnPeer, LearnIInv, KeyIsOwners
  <1>3. ASSUME NEW p \in KnownPeers, PeerMoves(p) PROVE LearnIInv'
    BY <1>3 DEF PeerMoves, LearnIInv, KeyIsOwners
  <1>4. ASSUME NEW l \in learners, CardArrives(l) PROVE LearnIInv'
    <2>1. PICK p \in KnownPeers :
             IF cardAccepted(l, p)
             THEN RecordSeen(l.peer, [key |-> p, endpoint |-> l.endpoint,
                                      fp |-> l.via # "boot", last |-> peerClock])
             ELSE UNCHANGED seenPeers
      BY <1>4 DEF CardArrives
    <2>2. where' = where /\ \A k \in learners' : k \in learners
      BY <1>4 DEF CardArrives
    <2>3. CASE cardAccepted(l, p)
      <3> DEFINE e == [key |-> p, endpoint |-> l.endpoint, fp |-> l.via # "boot", last |-> peerClock]
      <3>1. p = l.peer /\ RecordSeen(p, e) /\ e.key = p
        BY <2>1, <2>3 DEF cardAccepted
      <3> HIDE DEF e
      <3>2. /\ DOMAIN seenPeers' = KnownPeers
            /\ \A q \in KnownPeers : \/ q = p /\ seenPeers'[q] = e
                                     \/ seenPeers'[q] = NoSeen
                                     \/ seenPeers'[q] = seenPeers[q]
        BY <3>1, RecordSeenKeeps
      <3> QED BY <2>2, <3>1, <3>2 DEF LearnIInv, KeyIsOwners, NoSeen
    <2>4. CASE ~cardAccepted(l, p)
      BY <2>1, <2>2, <2>4 DEF LearnIInv, KeyIsOwners
    <2> QED BY <2>3, <2>4
  <1>5. ASSUME NEW l \in learners, FetchThrows(l) PROVE LearnIInv'
    <2>1. learners' \subseteq LearnerRow
      <3>1. l \in LearnerRow /\ l.attempt \in 1..MaxFetchAttempts
        BY DEF LearnIInv, LearnerRow
      <3>2. ASSUME l.attempt < MaxFetchAttempts
            PROVE  [l EXCEPT !.attempt = l.attempt + 1] \in LearnerRow
        <4>1. l.attempt + 1 \in 1..MaxFetchAttempts
          BY <1>0, <3>1, <3>2
        <4> QED BY <3>1, <4>1 DEF LearnerRow
      <3>3. \/ learners' = learners \ {l}
            \/ /\ l.attempt < MaxFetchAttempts
               /\ learners' = (learners \ {l}) \cup {[l EXCEPT !.attempt = l.attempt + 1]}
        BY <1>5 DEF FetchThrows
      <3> QED BY <3>2, <3>3 DEF LearnIInv
    <2> QED BY <1>5, <2>1 DEF FetchThrows, LearnIInv, KeyIsOwners
  <1>6. CASE FlushPeerCache
    BY <1>6 DEF FlushPeerCache, LearnIInv, KeyIsOwners
  <1>7. CASE Reboot
    BY <1>7 DEF Reboot, LearnIInv, KeyIsOwners, NoSeen
  <1>8. CASE PeerTime
    BY <1>8 DEF PeerTime, LearnIInv, KeyIsOwners
  <1>9. CASE UNCHANGED learnVars
    BY <1>9 DEF learnVars, LearnIInv, KeyIsOwners
  <1> QED BY <1>1, <1>2, <1>3, <1>4, <1>5, <1>6, <1>7, <1>8, <1>9 DEF LearnNext

\* The key kept for a peer is that peer's own, whoever listens at its address
\* by then (inbound-peer-learner.ts, boot-relearn.ts).
THEOREM KeyIsOwnersHolds == PeersInit /\ [][LearnNext]_learnVars => []KeyIsOwners
  <1>1. LearnIInv => KeyIsOwners
    BY DEF LearnIInv
  <1> QED BY <1>1, LearnInitIInv, LearnStep, PTL

\* The reconciler is off only before its start, hence never when stopped.
ReconcilerIInv ==
    /\ reconciler \in [pending : SUBSET StaticPeers, todo : SUBSET StaticPeers,
                       state : {"off", "timer", "running", "ended"}, stopped : BOOLEAN,
                       ticks : 0..StartupTicks]
    /\ ReconcilerKeepsOn

LEMMA ReconcilerInitIInv == PeersInit => ReconcilerIInv
  BY PeersAssumption DEF PeersInit, ReconcilerIInv, ReconcilerKeepsOn

LEMMA ReconcilerStep == ReconcilerIInv /\ [ReconcilerNext]_reconciler => ReconcilerIInv'
  <1> SUFFICES ASSUME ReconcilerIInv, [ReconcilerNext]_reconciler PROVE ReconcilerIInv'
    OBVIOUS
  <1> USE DEF ReconcilerIInv, ReconcilerKeepsOn
  <1>1. CASE ReconcilerStarts
    BY <1>1 DEF ReconcilerStarts
  <1>2. CASE TickFires
    BY <1>2 DEF TickFires
  <1>3. CASE TickEnds
    <2>1. CASE reconciler.stopped
      BY <1>3, <2>1 DEF TickEnds
    <2>2. CASE ~reconciler.stopped
      <3>1. reconciler.ticks < StartupTicks => reconciler.ticks + 1 \in 0..StartupTicks
        BY PeersAssumption
      <3>2. StartupTicks \in Nat /\ reconciler.ticks \in 0..StartupTicks
        BY PeersAssumption
      <3> DEFINE t == IF reconciler.ticks >= StartupTicks THEN reconciler.ticks ELSE reconciler.ticks + 1
                 P == IF reconciler.ticks >= StartupTicks THEN StaticPeers ELSE reconciler.pending
      <3>3. t \in 0..StartupTicks /\ P \in SUBSET StaticPeers
        BY <3>1, <3>2
      <3>4. reconciler' = [reconciler EXCEPT !.state = "timer", !.ticks = t, !.pending = P]
        BY <1>3, <2>2 DEF TickEnds
      <3> HIDE DEF t, P
      <3> QED BY <2>2, <3>3, <3>4
    <2> QED BY <2>1, <2>2
  <1>4. CASE ReconcilerStop
    BY <1>4 DEF ReconcilerStop
  <1>5. ASSUME NEW p \in StaticPeers, ConnectOnce(p) PROVE ReconcilerIInv'
    BY <1>5 DEF ConnectOnce
  <1>6. CASE UNCHANGED reconciler
    BY <1>6
  <1> QED BY <1>1, <1>2, <1>3, <1>4, <1>5, <1>6 DEF ReconcilerNext

\* The calls carried out are at most the attempts made.
ClientIInv ==
    /\ request \in [state : {"idle", "sent", "over"}, attempt : 0..MaxRetries, done : Nat,
                    answer : {"none", "ok", "error"}]
    /\ request.state = "idle" => request.done = 0
    /\ request.state = "sent" => request.done <= request.attempt
    /\ request.state \in {"idle", "sent"} => request.answer = "none"
    /\ RetriesAreBounded

LEMMA ClientInitIInv == PeersInit => ClientIInv
  BY PeersAssumption DEF PeersInit, ClientIInv, RetriesAreBounded

LEMMA ClientStep == ClientIInv /\ [ClientNext]_request => ClientIInv'
  <1> SUFFICES ASSUME ClientIInv, [ClientNext]_request PROVE ClientIInv'
    OBVIOUS
  <1>0. MaxRetries \in Nat
    BY PeersAssumption
  <1>1. CASE SendRequest
    BY <1>0, <1>1 DEF SendRequest, ClientIInv, RetriesAreBounded
  <1>2. ASSUME NEW effect \in 0..1, NEW outcome \in {"ok", "retryable", "fatal", "network", "timeout"},
               RequestSettles(effect, outcome)
        PROVE  ClientIInv'
    <2> DEFINE retry == outcome \in {"retryable", "network"} /\ request.attempt < MaxRetries
    <2>0. /\ request.state = "sent" /\ (outcome = "ok" => effect = 1)
          /\ request.answer = "none" /\ request.attempt \in Nat /\ request.attempt <= MaxRetries
          /\ request.done \in Nat /\ request.done <= request.attempt
      BY <1>0, <1>2 DEF RequestSettles, ClientIInv
    <2>1. PICK a \in 0..MaxRetries, d \in Nat, s \in {"sent", "over"}, w \in {"none", "ok", "error"} :
                            /\ a = (IF retry THEN request.attempt + 1 ELSE request.attempt)
                            /\ d = request.done + effect
                            /\ s = (IF retry THEN "sent" ELSE "over")
                            /\ w = (IF retry THEN request.answer ELSE IF outcome = "ok" THEN "ok" ELSE "error")
      BY <1>0, <2>0
    <2>2. request' = [request EXCEPT !.done = d, !.attempt = a, !.state = s, !.answer = w]
      BY <1>2, <2>1 DEF RequestSettles
    <2>3. /\ request' \in [state : {"idle", "sent", "over"}, attempt : 0..MaxRetries, done : Nat,
                           answer : {"none", "ok", "error"}]
          /\ request'.done = d /\ request'.attempt = a /\ request'.state = s /\ request'.answer = w
      BY <2>2 DEF ClientIInv
    <2> QED BY <1>0, <2>0, <2>1, <2>3 DEF ClientIInv, RetriesAreBounded
  <1>3. CASE UNCHANGED request
    BY <1>3 DEF ClientIInv, RetriesAreBounded
  <1> QED BY <1>1, <1>2, <1>3 DEF ClientNext

-----------------------------------------------------------------------------
(* Dials and streams of the libp2p node. *)

\* A stream somebody opened has the protocol it was opened for.
StreamsAreNamed == \A s \in StreamIds : streams[s].by # "none" => streams[s].protocol \in Protocols

TransportIInv == TransportTypeOK /\ DialedOnce /\ StreamsAreCounted /\ StreamsAreNamed

Open(q) == {s \in StreamIds : streams[s].protocol = q /\ ~streams[s].closed}

LEMMA TransportInitIInv == TransportInit => TransportIInv
  <1> SUFFICES ASSUME TransportInit PROVE TransportIInv
    OBVIOUS
  <1> USE TransportAssumption
  <1>1. Cardinality(StreamIds) \in Nat
    BY FS_CardinalityType
  <1>2. TransportTypeOK
    <2>1. /\ dials \in [P2pPeers -> 0..MaxDials]
          /\ openStreams \in [Protocols -> 0..Cardinality(StreamIds)]
      BY <1>1 DEF TransportInit
    <2>2. streams \in [StreamIds -> [by : {"none", "us", "them"}, protocol : Protocols \cup {"none"},
                                    closed : BOOLEAN]]
      BY DEF TransportInit, NoStream
    <2> QED BY <2>1, <2>2 DEF TransportInit, TransportTypeOK
  <1>3. DialedOnce
    BY DEF TransportInit, DialedOnce
  <1>4. StreamsAreCounted
    <2>1. \A q \in Protocols : {s \in StreamIds : streams[s].protocol = q /\ ~streams[s].closed} = {}
      BY DEF TransportInit, NoStream
    <2> QED BY <2>1, FS_EmptySet DEF TransportInit, StreamsAreCounted
  <1>5. StreamsAreNamed
    BY DEF TransportInit, NoStream, StreamsAreNamed
  <1> QED BY <1>2, <1>3, <1>4, <1>5 DEF TransportIInv

\* Steps that leave the streams alone.
LEMMA StreamsRest ==
    ASSUME TransportIInv, UNCHANGED <<streams, openStreams>>
    PROVE  /\ streams' \in [StreamIds -> [by : {"none", "us", "them"},
                                          protocol : Protocols \cup {"none"}, closed : BOOLEAN]]
           /\ openStreams' \in [Protocols -> 0..Cardinality(StreamIds)]
           /\ StreamsAreCounted' /\ StreamsAreNamed'
  BY DEF TransportIInv, TransportTypeOK, StreamsAreCounted, StreamsAreNamed

\* Steps that leave the dials alone.
LEMMA DialsRest ==
    ASSUME TransportIInv, UNCHANGED <<p2pStage, p2pStopped, peerStore, dialingPeers, dials, p2pConnected>>
    PROVE  /\ p2pStage' \in {"off", "created", "scan", "up"} /\ p2pStopped' \in BOOLEAN
           /\ peerStore' \subseteq P2pPeers /\ dialingPeers' \subseteq P2pPeers
           /\ dials' \in [P2pPeers -> 0..MaxDials]
           /\ p2pConnected' \subseteq P2pPeers
           /\ DialedOnce'
  BY DEF TransportIInv, TransportTypeOK, DialedOnce

\* A peer is dialled only if no dial to it is under way.
LEMMA AutoDialStep ==
    ASSUME TransportIInv, NEW found \in SUBSET P2pPeers, AutoDial(found), UNCHANGED p2pStopped
    PROVE  /\ dials' \in [P2pPeers -> 0..MaxDials] /\ dialingPeers' \subseteq P2pPeers
           /\ DialedOnce'
  <1> DEFINE D == dialed(found)
  <1>1. /\ D \subseteq P2pPeers \ {SelfPeer} /\ (p2pStopped => D = {}) /\ D \cap dialingPeers = {}
    BY DEF dialed
  <1>2. /\ \A p \in D : dials[p] < MaxDials
        /\ dialingPeers' = dialingPeers \cup D
        /\ dials' = [p \in P2pPeers |-> IF p \in D THEN dials[p] + 1 ELSE dials[p]]
    BY DEF AutoDial
  <1> HIDE DEF D
  <1>3. /\ dials \in [P2pPeers -> 0..MaxDials] /\ dialingPeers \subseteq P2pPeers /\ MaxDials \in Nat
        /\ \A p \in P2pPeers : dials[p] <= 1
        /\ dials[SelfPeer] = 0 /\ SelfPeer \in P2pPeers
        /\ ~p2pStopped => dialingPeers = {p \in P2pPeers : dials[p] > 0}
    BY TransportAssumption DEF TransportIInv, TransportTypeOK, DialedOnce
  <1>4. \A p \in D : dials[p] = 0
    BY <1>1, <1>3
  <1>5. \A p \in P2pPeers : dials'[p] = IF p \in D THEN 1 ELSE dials[p]
    BY <1>1, <1>2, <1>3, <1>4
  <1>6. \A p \in D : 1 \in 0..MaxDials
    BY <1>1, <1>2, <1>3, <1>4
  <1>7. dials' \in [P2pPeers -> 0..MaxDials] /\ dialingPeers' \subseteq P2pPeers
    BY <1>1, <1>2, <1>3, <1>4, <1>6
  <1>8. (\A p \in P2pPeers : dials'[p] <= 1) /\ dials'[SelfPeer] = 0
    BY <1>1, <1>3, <1>5
  <1>9. ~p2pStopped' => dialingPeers' = {p \in P2pPeers : dials'[p] > 0}
    BY <1>1, <1>2, <1>3, <1>5
  <1> QED BY <1>7, <1>8, <1>9 DEF DialedOnce

\* A stream that is opened is counted.
LEMMA StreamOpens ==
    ASSUME TransportIInv, NEW s \in StreamIds, NEW q \in Protocols, NEW by \in {"us", "them"},
           streams[s] = NoStream,
           streams' = [streams EXCEPT ![s] = [by |-> by, protocol |-> q, closed |-> FALSE]],
           openStreams' = onStreamOpened(q)
    PROVE  /\ streams' \in [StreamIds -> [by : {"none", "us", "them"},
                                          protocol : Protocols \cup {"none"}, closed : BOOLEAN]]
           /\ openStreams' \in [Protocols -> 0..Cardinality(StreamIds)]
           /\ StreamsAreCounted' /\ StreamsAreNamed'
  <1>1. /\ streams \in [StreamIds -> [by : {"none", "us", "them"},
                                      protocol : Protocols \cup {"none"}, closed : BOOLEAN]]
        /\ openStreams \in [Protocols -> 0..Cardinality(StreamIds)]
        /\ \A r \in Protocols : openStreams[r] = Cardinality(Open(r))
        /\ IsFiniteSet(StreamIds) /\ "none" \notin Protocols
    BY TransportAssumption DEF TransportIInv, TransportTypeOK, StreamsAreCounted, Open
  <1>2. streams' \in [StreamIds -> [by : {"none", "us", "them"},
                                    protocol : Protocols \cup {"none"}, closed : BOOLEAN]]
    BY <1>1
  <1>3. /\ s \notin Open(q) /\ Open(q)' = Open(q) \cup {s}
        /\ \A r \in Protocols \ {q} : Open(r)' = Open(r)
    BY <1>1 DEF Open, NoStream
  <1>4. \A r \in Protocols : Open(r) \subseteq StreamIds /\ Open(r)' \subseteq StreamIds
    BY DEF Open
  <1>5. \A r \in Protocols : /\ IsFiniteSet(Open(r)) /\ IsFiniteSet(Open(r)')
                             /\ Cardinality(Open(r)') <= Cardinality(StreamIds)
                             /\ Cardinality(Open(r)') \in Nat /\ Cardinality(StreamIds) \in Nat
    BY <1>1, <1>4, FS_Subset, FS_CardinalityType
  <1>6. Cardinality(Open(q)') = Cardinality(Open(q)) + 1
    BY <1>3, <1>5, FS_AddElement
  <1>7. openStreams' = [openStreams EXCEPT ![q] = openStreams[q] + 1]
    BY DEF onStreamOpened
  <1>8. \A r \in Protocols : openStreams'[r] = Cardinality(Open(r)')
    BY <1>1, <1>3, <1>6, <1>7
  <1>9. openStreams' \in [Protocols -> 0..Cardinality(StreamIds)]
    <2>1. \A r \in Protocols : openStreams'[r] \in 0..Cardinality(StreamIds)
      BY <1>5, <1>8
    <2>2. openStreams' = [r \in Protocols |-> openStreams'[r]]
      BY <1>1, <1>7
    <2> QED BY <2>1, <2>2
  <1>10. StreamsAreNamed'
    BY <1>1 DEF TransportIInv, StreamsAreNamed
  <1> QED BY <1>2, <1>8, <1>9, <1>10 DEF StreamsAreCounted, Open

\* An open stream that is closed is counted down, and the count was not zero.
LEMMA StreamCloses ==
    ASSUME TransportIInv, NEW s \in StreamIds, streams[s].by # "none", ~streams[s].closed,
           streams[s].protocol \in Protocols,
           streams' = [streams EXCEPT ![s].closed = TRUE],
           openStreams' = onStreamClosed(streams[s].protocol)
    PROVE  /\ streams' \in [StreamIds -> [by : {"none", "us", "them"},
                                          protocol : Protocols \cup {"none"}, closed : BOOLEAN]]
           /\ openStreams' \in [Protocols -> 0..Cardinality(StreamIds)]
           /\ StreamsAreCounted' /\ StreamsAreNamed'
  <1>1. /\ streams \in [StreamIds -> [by : {"none", "us", "them"},
                                      protocol : Protocols \cup {"none"}, closed : BOOLEAN]]
        /\ openStreams \in [Protocols -> 0..Cardinality(StreamIds)]
        /\ \A r \in Protocols : openStreams[r] = Cardinality(Open(r))
        /\ IsFiniteSet(StreamIds)
    BY TransportAssumption DEF TransportIInv, TransportTypeOK, StreamsAreCounted, Open
  <1> DEFINE q == streams[s].protocol
  <1>2. streams' \in [StreamIds -> [by : {"none", "us", "them"},
                                    protocol : Protocols \cup {"none"}, closed : BOOLEAN]]
    BY <1>1
  <1>3. /\ s \in Open(q) /\ Open(q)' = Open(q) \ {s}
        /\ \A r \in Protocols \ {q} : Open(r)' = Open(r)
    BY <1>1 DEF Open
  <1>4. \A r \in Protocols : Open(r) \subseteq StreamIds /\ Open(r)' \subseteq StreamIds
    BY DEF Open
  <1>5. \A r \in Protocols : /\ IsFiniteSet(Open(r)) /\ IsFiniteSet(Open(r)')
                             /\ Cardinality(Open(r)') <= Cardinality(StreamIds)
                             /\ Cardinality(Open(r)') \in Nat /\ Cardinality(StreamIds) \in Nat
                             /\ Cardinality(Open(r)) \in Nat
    BY <1>1, <1>4, FS_Subset, FS_CardinalityType
  <1>6. Cardinality(Open(q)') = Cardinality(Open(q)) - 1
    BY <1>3, <1>5, FS_RemoveElement
  <1>7. openStreams' = [openStreams EXCEPT ![q] = IF openStreams[q] = 0 THEN 0 ELSE openStreams[q] - 1]
    BY DEF onStreamClosed
  <1>8. \A r \in Protocols : openStreams'[r] = Cardinality(Open(r)')
    BY <1>1, <1>3, <1>5, <1>6, <1>7
  <1>9. openStreams' \in [Protocols -> 0..Cardinality(StreamIds)]
    <2>1. \A r \in Protocols : openStreams'[r] \in 0..Cardinality(StreamIds)
      BY <1>5, <1>8
    <2>2. openStreams' = [r \in Protocols |-> openStreams'[r]]
      BY <1>1, <1>7
    <2> QED BY <2>1, <2>2
  <1>10. StreamsAreNamed'
    BY <1>1 DEF TransportIInv, StreamsAreNamed
  <1> QED BY <1>2, <1>8, <1>9, <1>10 DEF StreamsAreCounted, Open

LEMMA TransportStep == TransportIInv /\ [TransportNext]_p2pVars => TransportIInv'
  <1> SUFFICES ASSUME TransportIInv, [TransportNext]_p2pVars PROVE TransportIInv'
    OBVIOUS
  <1> USE TransportAssumption
  <1>t. /\ p2pStage \in {"off", "created", "scan", "up"} /\ p2pStopped \in BOOLEAN
        /\ peerStore \subseteq P2pPeers /\ dialingPeers \subseteq P2pPeers
        /\ dials \in [P2pPeers -> 0..MaxDials]
        /\ p2pConnected \subseteq P2pPeers
        /\ streams \in [StreamIds -> [by : {"none", "us", "them"}, protocol : Protocols \cup {"none"},
                                      closed : BOOLEAN]]
        /\ \A p \in P2pPeers : dials[p] <= 1
        /\ dials[SelfPeer] = 0
        /\ ~p2pStopped => dialingPeers = {p \in P2pPeers : dials[p] > 0}
    BY DEF TransportIInv, TransportTypeOK, DialedOnce
  <1>1. CASE CreateNode \/ NodeReady
    <2>1. /\ p2pStage' \in {"created", "scan"}
          /\ UNCHANGED <<p2pStopped, peerStore, dialingPeers, dials, p2pConnected, streams, openStreams>>
      BY <1>1 DEF CreateNode, NodeReady
    <2> QED BY <1>t, <2>1, StreamsRest DEF TransportIInv, TransportTypeOK, DialedOnce
  <1>2. CASE DialKnownPeers
    <2>1. /\ p2pStage' = "up" /\ AutoDial(peerStore)
          /\ UNCHANGED <<p2pStopped, peerStore, p2pConnected, streams, openStreams>>
      BY <1>2 DEF DialKnownPeers
    <2>2. dials' \in [P2pPeers -> 0..MaxDials] /\ dialingPeers' \subseteq P2pPeers /\ DialedOnce'
      BY <1>t, <2>1, AutoDialStep
    <2> QED BY <1>t, <2>1, <2>2, StreamsRest DEF TransportIInv, TransportTypeOK
  <1>3. ASSUME NEW p \in P2pPeers, PeerDiscovered(p) PROVE TransportIInv'
    <2>1. /\ peerStore' = peerStore \cup {p} /\ AutoDial({p})
          /\ UNCHANGED <<p2pStage, p2pStopped, p2pConnected, streams, openStreams>>
      BY <1>3 DEF PeerDiscovered
    <2>2. dials' \in [P2pPeers -> 0..MaxDials] /\ dialingPeers' \subseteq P2pPeers /\ DialedOnce'
      BY <1>t, <2>1, AutoDialStep
    <2> QED BY <1>t, <2>1, <2>2, StreamsRest DEF TransportIInv, TransportTypeOK
  <1>4. ASSUME NEW p \in P2pPeers, NEW ok \in BOOLEAN, DialSettles(p, ok) PROVE TransportIInv'
    <2>1. /\ dials[p] = 1 /\ dials' = [dials EXCEPT ![p] = 0] /\ dialingPeers' = dialingPeers \ {p}
          /\ p2pConnected' \subseteq P2pPeers
          /\ UNCHANGED <<p2pStage, p2pStopped, peerStore, streams, openStreams>>
      <3>1. dials[p] \in 0..MaxDials /\ dials[p] > 0 /\ dials[p] <= 1 /\ MaxDials \in Nat
        BY <1>t, <1>4 DEF DialSettles
      <3>2. dials[p] = 1 /\ dials[p] - 1 = 0
        BY <3>1
      <3>3. dials' = [dials EXCEPT ![p] = 0]
        BY <1>4, <3>2 DEF DialSettles
      <3> QED BY <1>t, <1>4, <3>2, <3>3 DEF DialSettles
    <2>2. \A r \in P2pPeers : dials'[r] = IF r = p THEN 0 ELSE dials[r]
      BY <1>t, <2>1
    <2>3. dials' \in [P2pPeers -> 0..MaxDials] /\ dialingPeers' \subseteq P2pPeers
      <3>1. 0 \in 0..MaxDials
        OBVIOUS
      <3> QED BY <1>t, <2>1, <3>1
    <2>4. DialedOnce'
      BY <1>t, <2>1, <2>2 DEF DialedOnce
    <2> QED BY <1>t, <2>1, <2>3, <2>4, StreamsRest DEF TransportIInv, TransportTypeOK
  <1>5. ASSUME NEW p \in P2pPeers, PeerConnects(p) \/ PeerDisconnects(p) PROVE TransportIInv'
    <2>1. /\ p2pConnected' \subseteq P2pPeers
          /\ UNCHANGED <<p2pStage, p2pStopped, peerStore, dialingPeers, dials, streams, openStreams>>
      BY <1>t, <1>5 DEF PeerConnects, PeerDisconnects
    <2> QED BY <1>t, <2>1, StreamsRest DEF TransportIInv, TransportTypeOK, DialedOnce
  <1>6. CASE StopRuntime
    BY <1>t, <1>6, StreamsRest DEF StopRuntime, TransportIInv, TransportTypeOK, DialedOnce
  <1>7. ASSUME NEW s \in StreamIds, NEW q \in Protocols, DialProtocol(s, q) \/ IncomingStream(s, q)
        PROVE  TransportIInv'
    <2>1. PICK by \in {"us", "them"} :
             /\ streams[s] = NoStream
             /\ streams' = [streams EXCEPT ![s] = [by |-> by, protocol |-> q, closed |-> FALSE]]
             /\ openStreams' = onStreamOpened(q)
             /\ UNCHANGED <<p2pStage, p2pStopped, peerStore, dialingPeers, dials, p2pConnected>>
      BY <1>7 DEF DialProtocol, IncomingStream
    <2>2. /\ streams' \in [StreamIds -> [by : {"none", "us", "them"},
                                         protocol : Protocols \cup {"none"}, closed : BOOLEAN]]
          /\ openStreams' \in [Protocols -> 0..Cardinality(StreamIds)]
          /\ StreamsAreCounted' /\ StreamsAreNamed'
      BY <2>1, StreamOpens
    <2> QED BY <2>1, <2>2, DialsRest DEF TransportIInv, TransportTypeOK
  <1>8. ASSUME NEW s \in StreamIds, CloseWrapped(s) \/ HandlerEnds(s) PROVE TransportIInv'
    <2>1. /\ streams[s].by # "none" /\ streams' = [streams EXCEPT ![s].closed = TRUE]
          /\ UNCHANGED <<p2pStage, p2pStopped, peerStore, dialingPeers, dials, p2pConnected>>
          /\ streams[s].closed => openStreams' = openStreams
          /\ ~streams[s].closed => openStreams' = onStreamClosed(streams[s].protocol)
      BY <1>8 DEF CloseWrapped, HandlerEnds
    <2>2. CASE streams[s].closed
      <3>1. streams' = streams
        <4>1. [streams[s] EXCEPT !.closed = TRUE] = streams[s]
          BY <1>t, <2>2
        <4> QED BY <1>t, <2>1, <4>1
      <3> QED BY <2>1, <2>2, <3>1, DialsRest, StreamsRest DEF TransportIInv, TransportTypeOK
    <2>3. CASE ~streams[s].closed
      <3>1. streams[s].protocol \in Protocols
        BY <2>1 DEF TransportIInv, StreamsAreNamed
      <3>2. /\ streams' \in [StreamIds -> [by : {"none", "us", "them"},
                                           protocol : Protocols \cup {"none"}, closed : BOOLEAN]]
            /\ openStreams' \in [Protocols -> 0..Cardinality(StreamIds)]
            /\ StreamsAreCounted' /\ StreamsAreNamed'
        BY <2>1, <2>3, <3>1, StreamCloses
      <3> QED BY <2>1, <3>2, DialsRest DEF TransportIInv, TransportTypeOK
    <2> QED BY <2>2, <2>3
  <1>9. CASE UNCHANGED p2pVars
    BY <1>9, StreamsRest, DialsRest DEF p2pVars, TransportIInv, TransportTypeOK
  <1> QED BY <1>1, <1>2, <1>3, <1>4, <1>5, <1>6, <1>7, <1>8, <1>9 DEF TransportNext

\* One dial to a peer at a time, none to the node itself, a peer whose dial
\* failed is dialled again, and the streams reported are the streams open, with
\* any number of peers, protocols and streams (libp2p-runtime.ts).
THEOREM DialsAndStreamsAreCounted ==
    TransportInit /\ [][TransportNext]_p2pVars => [](TransportTypeOK /\ DialedOnce /\ StreamsAreCounted)
  <1>1. TransportIInv => TransportTypeOK /\ DialedOnce /\ StreamsAreCounted
    BY DEF TransportIInv
  <1> QED BY <1>1, TransportInitIInv, TransportStep, PTL

-----------------------------------------------------------------------------
(* Identities, pins and the election. *)

\* A set of at most one element has no two.
LEMMA AtMostOne ==
    ASSUME NEW S, IsFiniteSet(S), Cardinality(S) <= 1, NEW x \in S, NEW y \in S
    PROVE  x = y
  <1> SUFFICES ASSUME x # y PROVE FALSE
    OBVIOUS
  <1>1. IsFiniteSet({x}) /\ Cardinality({x}) = 1
    BY FS_Singleton
  <1>2. IsFiniteSet({x} \cup {y}) /\ Cardinality({x} \cup {y}) = 2
    <2>1. y \notin {x}
      OBVIOUS
    <2>2. /\ IsFiniteSet({x} \cup {y})
          /\ Cardinality({x} \cup {y}) = IF y \in {x} THEN Cardinality({x}) ELSE Cardinality({x}) + 1
      BY <1>1, FS_AddElement, Zenon
    <2> QED BY <1>1, <2>1, <2>2
  <1>3. Cardinality({x} \cup {y}) <= Cardinality(S) /\ Cardinality(S) \in Nat
    BY FS_Subset, FS_CardinalityType
  <1> QED BY <1>2, <1>3

\* A set of naturals has a least element.
LEMMA LeastMember ==
    ASSUME NEW S \in SUBSET Nat, S # {}
    PROVE  \E n \in S : \A m \in S : n <= m
  <1> DEFINE R == OpToRel(<, Nat)
  <1>1. IsWellFoundedOn(R, Nat)
    BY NatLessThanWellFounded
  <1>2. \A x, y \in Nat : <<x, y>> \in R <=> x < y
    BY DEF OpToRel
  <1> HIDE DEF R
  <1>3. PICK x \in S : \A y \in S : ~(<<y, x>> \in R)
    BY <1>1, WFMin
  <1>4. ASSUME NEW y \in S PROVE x <= y
    <2>1. x \in Nat /\ y \in Nat /\ ~(y < x)
      BY <1>2, <1>3
    <2> QED BY <2>1
  <1> QED BY <1>4

\* The identity a node emits is the one its certificate attests, if it names
\* only one that is canonical.
LEMMA EmittedIsAttested ==
    ASSUME NEW in, NEW S, in.sans \in Seq(S), in.peerId \in {None, "p"},
           \A i, j \in 1..Len(in.sans) : in.sans[i] \in Canonical /\ in.sans[j] \in Canonical => i = j
    PROVE  /\ authorized(emitted(in), canonicalCertSan(in.sans))
           /\ emitted(in) \in Canonical => attested(in.sans, in.attesting) = emitted(in)
  <1>1. CASE emitted(in) = "host"
    BY <1>1 DEF authorized, Canonical
  <1>2. CASE emitted(in) # "host"
    <2> DEFINE K == {k \in 1..Len(in.sans) : in.sans[k] \in Canonical}
               first == {k \in 1..Len(in.sans) :
                           in.sans[k] \in Canonical /\ \A j \in 1..(k - 1) : in.sans[j] \notin Canonical}
    <2>1. /\ in.attesting /\ emitted(in) = "p" /\ in.peerId = "p"
          /\ \E k \in 1..Len(in.sans) : in.sans[k] = "p"
      BY <1>2 DEF emitted, None
    <2>2. PICK k0 \in K : in.sans[k0] = "p"
      BY <2>1 DEF Canonical
    <2>4. first # {}
      <3>1. K \in SUBSET Nat /\ K # {}
        BY <2>2
      <3>2. PICK k \in K : \A m \in K : k <= m
        <4> HIDE DEF K
        <4> QED BY <3>1, LeastMember
      <3>3. k \in 1..Len(in.sans) /\ in.sans[k] \in Canonical
        BY <3>2
      <3>4. ASSUME NEW j \in 1..(k - 1), in.sans[j] \in Canonical PROVE FALSE
        <4>1. j \in 1..Len(in.sans) /\ ~(k <= j)
          BY <3>3
        <4> QED BY <3>2, <3>4, <4>1
      <3> QED BY <3>3, <3>4
    <2>5. (CHOOSE k \in first : TRUE) \in K
      <3>1. (CHOOSE k \in first : TRUE) \in first
        <4> HIDE DEF first
        <4> QED BY <2>4
      <3> HIDE DEF first
      <3>2. first \subseteq K
        BY DEF first
      <3> QED BY <3>1, <3>2
    <2>6. (CHOOSE k \in first : TRUE) = k0
      <3> HIDE DEF first
      <3> QED BY <2>2, <2>5
    <2>7. canonicalCertSan(in.sans) = in.sans[CHOOSE k \in first : TRUE]
      BY <2>4 DEF canonicalCertSan
    <2>8. canonicalCertSan(in.sans) = "p"
      <3> HIDE DEF first
      <3> QED BY <2>2, <2>6, <2>7
    <2> QED BY <2>1, <2>8 DEF authorized, attested, Canonical
  <1> QED BY <1>1, <1>2

\* The mask of a prefix keeps exactly its first bits, at any width.
LEMMA MaskKeepsPrefix ==
    ASSUME NEW ip \in Ip, NEW base \in Ip, NEW prefix \in 0..AddressBits, prefix # 0
    PROVE  masked(ip, prefix) = masked(base, prefix) <=> \A k \in 1..prefix : ip[k] = base[k]
  <1>1. shiftCount(prefix) = AddressBits - prefix
    <2>1. AddressBits - prefix \in 0..(AddressBits - 1) /\ AddressBits \in Nat \ {0}
      BY DiscoveryAssumption
    <2> QED BY <2>1 DEF shiftCount
  <1>2. AddressBits \in Nat /\ AddressBits - (AddressBits - prefix) = prefix
    BY DiscoveryAssumption
  <1>3. \A a \in Ip : masked(a, prefix) = [k \in 1..AddressBits |-> IF k <= prefix THEN a[k] ELSE 0]
    BY <1>1, <1>2 DEF masked
  <1>4. \A k \in 1..prefix : k \in 1..AddressBits /\ k <= prefix
    BY <1>2
  <1>5. ASSUME masked(ip, prefix) = masked(base, prefix), NEW k \in 1..prefix PROVE ip[k] = base[k]
    <2>1. masked(ip, prefix)[k] = ip[k] /\ masked(base, prefix)[k] = base[k]
      BY <1>3, <1>4
    <2> QED BY <1>5, <2>1
  <1>6. ASSUME \A k \in 1..prefix : ip[k] = base[k] PROVE masked(ip, prefix) = masked(base, prefix)
    <2>1. \A k \in 1..AddressBits : k <= prefix => ip[k] = base[k]
      BY <1>2, <1>6
    <2> QED BY <1>3, <2>1
  <1> QED BY <1>5, <1>6

\* ipInCidr is the prefix test for addresses of any width, prefix 0 and the full
\* width included (discovery-policy.ts).
THEOREM CidrIsPrefixHolds == CidrIsPrefix
  <1> SUFFICES ASSUME NEW ip \in Ip, NEW base \in Ip, NEW prefix \in 0..AddressBits
               PROVE  ipInCidr(ip, [base |-> base, prefix |-> prefix]) <=>
                          \A k \in 1..prefix : ip[k] = base[k]
    BY DEF CidrIsPrefix
  <1>1. CASE prefix = 0
    BY <1>1 DEF ipInCidr
  <1>2. CASE prefix # 0
    BY <1>2, MaskKeepsPrefix DEF ipInCidr
  <1> QED BY <1>1, <1>2

\* The mesh address is the address of an external interface the policy allows.
MeshIpIsAllowed ==
    net.meshIp # NoIp => \E k \in 1..2 : /\ ~net.ifaces[k].internal /\ net.ifaces[k].addr = net.meshIp
                                         /\ isPeerIpAllowed(net.meshIp, net.policy)

\* What a publisher and its browser know in each state.
NetIInv ==
    \/ net = [state |-> "start"]
    \/ /\ net.state \in {"configured", "refused", "up", "published", "browsed"}
       /\ \E i, j \in Interface : net.ifaces = <<i, j>>
       /\ net.policy \in NetworkPolicy /\ net.tls \in BOOLEAN
       /\ net.state # "configured" => MeshIpIsAllowed
       /\ net.state = "published" => net.records = {k \in 1..2 :
              ~net.ifaces[k].internal /\ (net.meshIp = NoIp \/ net.ifaces[k].addr = net.meshIp)}
       /\ FoundWhereAllowed

\* The pins, and what has been accepted for a host that has none: no
\* certificate with exactly one identity.
DiscoveryIInv ==
    /\ NetIInv
    /\ EmittedIsAccepted
    /\ pins \in [Hosts -> {None, "p", "q"}]
    /\ admitted \in [Hosts -> SUBSET SUBSET {"p", "q"}]
    /\ PinHolds
    /\ \A h \in Hosts : pins[h] = None => \A cert \in admitted[h] : Cardinality(cert) # 1
    /\ views \in [MeshMembers -> [coordinator : MeshMembers, expected : SUBSET MeshMembers,
                                  current : SUBSET MeshMembers, lost : SUBSET MeshMembers,
                                  state : {"healthy", "isolated", "partitioned", "degraded"}]]

LEMMA DiscoveryInitIInv == DiscoveryInit => DiscoveryIInv
  <1> SUFFICES ASSUME DiscoveryInit PROVE DiscoveryIInv
    OBVIOUS
  <1>1. /\ pins \in [Hosts -> {None, "p", "q"}] /\ admitted \in [Hosts -> SUBSET SUBSET {"p", "q"}]
        /\ \A h \in Hosts : pins[h] = None /\ admitted[h] = {}
    BY DEF DiscoveryInit
  <1>2. views \in [MeshMembers -> [coordinator : MeshMembers, expected : SUBSET MeshMembers,
                                  current : SUBSET MeshMembers, lost : SUBSET MeshMembers,
                                  state : {"healthy", "isolated", "partitioned", "degraded"}]]
    BY DEF DiscoveryInit
  <1> QED BY <1>1, <1>2 DEF DiscoveryInit, DiscoveryIInv, NetIInv, EmittedIsAccepted, PinHolds

\* An interface is ranked by a number, so there is a best one.
LEMMA MeshIpIsFromUsable ==
    ASSUME NEW i \in Interface, NEW j \in Interface, NEW policy \in NetworkPolicy,
           NEW meshIp, meshIp = getMeshIp(<<i, j>>, policy), meshIp # NoIp
    PROVE  \E k \in selectMeshInterfaces(<<i, j>>, policy) : <<i, j>>[k].addr = meshIp
  <1> DEFINE ifaces == <<i, j>>
             usable == selectMeshInterfaces(ifaces, policy)
             rank(k) == ifaceRank(ifaces[k].name, policy)
             best(k) == \A l \in usable \ {k} : rank(k) < rank(l) \/ (rank(k) = rank(l) /\ k < l)
  <1>1. usable \subseteq 1..2
    BY DEF selectMeshInterfaces
  <1>2. usable # {} /\ meshIp = ifaces[CHOOSE k \in usable : best(k)].addr
    BY DEF getMeshIp
  <1>3. \A k \in 1..2 : rank(k) \in Int
    <2>1. policy.preferred = <<>> \/ policy.preferred = <<"wlan0">>
      BY DEF NetworkPolicy
    <2>2. \A k \in 1..2 : ifaces[k].name \in {"docker0", "eth0", "wlan0"}
      BY DEF Interface
    <2>3. ASSUME NEW name \in {"docker0", "eth0", "wlan0"} PROVE ifaceRank(name, policy) \in Int
      <3>1. Len(policy.preferred) \in Nat
        BY <2>1
      <3>2. CASE \E k \in 1..Len(policy.preferred) : policy.preferred[k] = name
        BY <3>1, <3>2 DEF ifaceRank
      <3>3. CASE ~\E k \in 1..Len(policy.preferred) : policy.preferred[k] = name
        BY <3>1, <3>3 DEF ifaceRank
      <3> QED BY <3>2, <3>3
    <2> QED BY <2>2, <2>3
  <1> HIDE DEF usable, rank, ifaces
  <1>4. \E k \in usable : best(k)
    <2>1. rank(1) \in Int /\ rank(2) \in Int
      BY <1>3
    <2>2. usable = {1} \/ usable = {2} \/ usable = {1, 2}
      <3>1. usable # {} /\ \A k \in usable : k = 1 \/ k = 2
        BY <1>1, <1>2
      <3>2. CASE 1 \notin usable
        BY <3>1, <3>2
      <3>3. CASE 2 \notin usable
        BY <3>1, <3>3
      <3>4. CASE 1 \in usable /\ 2 \in usable
        BY <3>1, <3>4
      <3> QED BY <3>2, <3>3, <3>4
    <2>3. CASE usable = {1}
      BY <2>3
    <2>4. CASE usable = {2}
      BY <2>4
    <2>5. CASE usable = {1, 2} /\ rank(1) <= rank(2)
      <3>1. best(1)
        BY <2>1, <2>5
      <3> QED BY <2>5, <3>1
    <2>6. CASE usable = {1, 2} /\ rank(2) < rank(1)
      <3>1. best(2)
        BY <2>1, <2>6
      <3> QED BY <2>6, <3>1
    <2> QED BY <2>1, <2>2, <2>3, <2>4, <2>5, <2>6
  <1>5. (CHOOSE k \in usable : best(k)) \in usable
    <2> HIDE DEF best
    <2> QED BY <1>4
  <1> QED BY <1>2, <1>5 DEF usable, ifaces

\* Along configure, construct, publish and browse the addresses stay within the policy.
LEMMA NetStep == NetIInv /\ NetNext => NetIInv'
  <1> SUFFICES ASSUME NetIInv, NetNext PROVE NetIInv'
    OBVIOUS
  <1>1. CASE Configure
    <2>1. PICK i \in Interface, j \in Interface, policy \in NetworkPolicy, tls \in BOOLEAN :
              net' = [state |-> "configured", ifaces |-> <<i, j>>, policy |-> policy, tls |-> tls]
      BY <1>1 DEF Configure
    <2> QED BY <2>1 DEF NetIInv, FoundWhereAllowed
  <1>2. CASE ConstructDiscovery
    <2>1. PICK i \in Interface, j \in Interface : net.ifaces = <<i, j>>
      BY <1>2 DEF ConstructDiscovery, NetIInv
    <2>2. net.policy \in NetworkPolicy /\ net.tls \in BOOLEAN
      BY <1>2 DEF ConstructDiscovery, NetIInv
    <2>3. /\ net'.state \in {"refused", "up"}
          /\ net'.ifaces = net.ifaces /\ net'.policy = net.policy /\ net'.tls = net.tls
          /\ net'.meshIp = getMeshIp(net.ifaces, net.policy)
      BY <1>2, Zenon DEF ConstructDiscovery
    <2>4. MeshIpIsAllowed'
      <3> SUFFICES ASSUME net'.meshIp # NoIp
                   PROVE  \E k \in 1..2 : /\ ~net.ifaces[k].internal /\ net.ifaces[k].addr = net'.meshIp
                                          /\ isPeerIpAllowed(net'.meshIp, net.policy)
        BY <2>3 DEF MeshIpIsAllowed
      <3>1. PICK k \in selectMeshInterfaces(net.ifaces, net.policy) : net.ifaces[k].addr = net'.meshIp
        BY <2>1, <2>2, <2>3, MeshIpIsFromUsable
      <3>2. /\ k \in 1..2 /\ ~net.ifaces[k].internal
            /\ net.policy.cidrs # {} => \E c \in net.policy.cidrs : ipInCidr(net.ifaces[k].addr, c)
        BY <2>1 DEF selectMeshInterfaces
      <3> QED BY <3>1, <3>2 DEF isPeerIpAllowed
    <2> QED BY <2>1, <2>2, <2>3, <2>4 DEF NetIInv, FoundWhereAllowed
  <1>3. CASE Publish
    <2>1. PICK i \in Interface, j \in Interface : net.ifaces = <<i, j>>
      BY <1>3 DEF Publish, NetIInv
    <2>2. net.policy \in NetworkPolicy /\ net.tls \in BOOLEAN /\ MeshIpIsAllowed
      BY <1>3 DEF Publish, NetIInv
    <2>3. /\ net'.state = "published"
          /\ net'.ifaces = net.ifaces /\ net'.policy = net.policy /\ net'.tls = net.tls
          /\ net'.meshIp = net.meshIp
          /\ net'.records = {k \in 1..Len(net.ifaces) :
                 ~net.ifaces[k].internal /\ (net.meshIp = NoIp \/ net.ifaces[k].addr = net.meshIp)}
      BY <1>3, Zenon DEF Publish
    <2>4. Len(net.ifaces) = 2
      BY <2>1
    <2>5. MeshIpIsAllowed'
      BY <2>2, <2>3 DEF MeshIpIsAllowed
    <2> QED BY <2>1, <2>2, <2>3, <2>4, <2>5 DEF NetIInv, FoundWhereAllowed
  <1>4. CASE Browse
    <2>1. PICK i \in Interface, j \in Interface : net.ifaces = <<i, j>>
      BY <1>4 DEF Browse, NetIInv
    <2>2. /\ net.policy \in NetworkPolicy /\ net.tls \in BOOLEAN /\ MeshIpIsAllowed
          /\ net.records = {k \in 1..2 :
                 ~net.ifaces[k].internal /\ (net.meshIp = NoIp \/ net.ifaces[k].addr = net.meshIp)}
      BY <1>4 DEF Browse, NetIInv
    <2> DEFINE shown == {k \in net.records : isPeerIpAllowed(net.ifaces[k].addr, net.policy)}
               first == CHOOSE k \in shown : \A l \in shown : k <= l
               ignored == \/ shown = {} /\ (net.records # {} \/ net.policy.cidrs # {})
                          \/ net.policy.requireTls /\ ~net.tls
    <2>3. /\ net'.state = "browsed"
          /\ net'.ifaces = net.ifaces /\ net'.policy = net.policy /\ net'.tls = net.tls
          /\ net'.meshIp = net.meshIp /\ net'.records = net.records
          /\ net'.peer = IF ignored THEN NoIp ELSE IF shown = {} THEN HostName ELSE net.ifaces[first].addr
      BY <1>4, Zenon DEF Browse
    <2>4. shown \subseteq 1..2 /\ (shown # {} => first \in shown)
      <3>1. shown \subseteq 1..2
        BY <2>2
      <3>2. shown # {} => \E k \in shown : \A l \in shown : k <= l
        <4> HIDE DEF shown
        <4>1. \A k \in shown : k = 1 \/ k = 2
          BY <3>1
        <4>2. CASE 1 \in shown
          <5>1. \A l \in shown : 1 <= l
            BY <4>1
          <5> QED BY <4>2, <5>1
        <4>3. CASE 1 \notin shown
          <5>1. \A l \in shown : l = 2 /\ 2 <= l
            BY <4>1, <4>3
          <5> QED BY <5>1
        <4> QED BY <4>2, <4>3
      <3> HIDE DEF shown
      <3> QED BY <3>1, <3>2
    <2>5. MeshIpIsAllowed'
      BY <2>2, <2>3 DEF MeshIpIsAllowed
    <2>6. ASSUME net'.peer # NoIp, net.policy.cidrs # {}
          PROVE  \E ip \in Ip, c \in net.policy.cidrs :
                     net'.peer = ip /\ \A k \in 1..c.prefix : ip[k] = c.base[k]
      <3>1. shown # {} /\ net'.peer = net.ifaces[first].addr
        BY <2>3, <2>6
      <3>2. /\ isPeerIpAllowed(net.ifaces[first].addr, net.policy)
            /\ net.ifaces[first].addr \in Ip
        <4>1. first \in shown
          BY <2>4, <3>1
        <4> HIDE DEF first
        <4> QED BY <2>1, <2>4, <4>1 DEF Interface
      <3>3. PICK c \in net.policy.cidrs : ipInCidr(net'.peer, c)
        BY <2>6, <3>1, <3>2 DEF isPeerIpAllowed
      <3>4. c \in Cidr
        BY <2>2, <3>3 DEF NetworkPolicy
      <3>5. c.base \in Ip /\ c.prefix \in 0..AddressBits /\ c = [base |-> c.base, prefix |-> c.prefix]
        BY <3>4 DEF Cidr
      <3>6. net'.peer \in Ip /\ ipInCidr(net'.peer, [base |-> c.base, prefix |-> c.prefix])
        BY <3>1, <3>2, <3>3, <3>5
      <3>7. \A k \in 1..c.prefix : net'.peer[k] = c.base[k]
        BY <3>5, <3>6, CidrIsPrefixHolds DEF CidrIsPrefix
      <3> QED BY <3>3, <3>6, <3>7
    <2>7. ASSUME net.meshIp # NoIp, net.policy.requireTls => net.tls PROVE net'.peer = net.meshIp
      <3>1. \A k \in net.records : net.ifaces[k].addr = net.meshIp
        BY <2>2, <2>7
      <3>2. shown # {} /\ \A k \in shown : net.ifaces[k].addr = net.meshIp
        <4>1. PICK k \in 1..2 : /\ ~net.ifaces[k].internal /\ net.ifaces[k].addr = net.meshIp
                                /\ isPeerIpAllowed(net.meshIp, net.policy)
          BY <2>2, <2>7 DEF MeshIpIsAllowed
        <4>2. k \in shown
          BY <2>2, <4>1
        <4> QED BY <3>1, <4>2
      <3>3. first \in shown
        BY <2>4, <3>2
      <3> HIDE DEF shown, first
      <3> QED BY <2>3, <2>7, <3>2, <3>3
    <2>8. FoundWhereAllowed'
      <3>1. net'.policy = net.policy /\ net'.meshIp = net.meshIp /\ net'.tls = net.tls
        BY <2>3
      <3> QED BY <2>6, <2>7, <3>1 DEF FoundWhereAllowed
    <2> HIDE DEF shown, first, ignored
    <2> QED BY <2>1, <2>2, <2>3, <2>5, <2>8 DEF NetIInv
  <1> QED BY <1>1, <1>2, <1>3, <1>4 DEF NetNext

\* A step of another part leaves what the net knows as it was.
LEMMA NetRests == NetIInv /\ UNCHANGED net => NetIInv'
  BY DEF NetIInv, MeshIpIsAllowed, FoundWhereAllowed

\* The pin of a host is the identity of the first certificate that named just
\* one, and what is accepted later names it.
LEMMA HandshakeKeeps ==
    ASSUME DiscoveryIInv, NEW h \in Hosts, NEW cert \in SUBSET {"p", "q"}, Handshake(h, cert)
    PROVE  DiscoveryIInv'
  <1>1. /\ pins' = [pins EXCEPT ![h] = pinAfter(h, cert)]
        /\ admitted' = [admitted EXCEPT ![h] = admitted[h] \cup {cert}]
        /\ cert # {} /\ (pins[h] # None => pins[h] \in cert)
        /\ UNCHANGED <<net, attestation, views>>
    BY DEF Handshake, verifiedServer
  <1>2. pinAfter(h, cert) \in {None, "p", "q"}
    <2>1. (CHOOSE id \in cert : TRUE) \in {"p", "q"}
      <3>1. (CHOOSE id \in cert : TRUE) \in cert
        BY <1>1
      <3> QED BY <3>1
    <2>2. pins[h] \in {None, "p", "q"}
      BY DEF DiscoveryIInv
    <2> QED BY <2>1, <2>2 DEF pinAfter
  <1>3. /\ pins' \in [Hosts -> {None, "p", "q"}]
        /\ admitted' \in [Hosts -> SUBSET SUBSET {"p", "q"}]
        /\ pins'[h] = pinAfter(h, cert) /\ admitted'[h] = admitted[h] \cup {cert}
        /\ \A i \in Hosts \ {h} : pins'[i] = pins[i] /\ admitted'[i] = admitted[i]
    BY <1>1, <1>2 DEF DiscoveryIInv
  <1>4. /\ pins'[h] # None => /\ {pins'[h]} \in admitted'[h]
                              /\ \A c \in admitted'[h] : Cardinality(c) = 1 => pins'[h] \in c
        /\ pins'[h] = None => \A c \in admitted'[h] : Cardinality(c) # 1
    <2>1. CASE pins[h] # None
      <3>1. pins'[h] = pins[h]
        BY <1>3, <2>1 DEF pinAfter
      <3> QED BY <1>1, <1>3, <2>1, <3>1 DEF DiscoveryIInv, PinHolds
    <2>2. CASE pins[h] = None /\ Cardinality(cert) = 1
      <3>1. PICK id \in cert : id = CHOOSE x \in cert : TRUE
        BY <1>1
      <3>2. pins'[h] = id /\ id # None
        BY <1>3, <2>2, <3>1 DEF pinAfter, None
      <3>3. cert = {id}
        <4>1. IsFiniteSet({"p"}) /\ IsFiniteSet({"p"} \cup {"q"})
          BY FS_Singleton, FS_AddElement
        <4>2. {"p"} \cup {"q"} = {"p", "q"}
          OBVIOUS
        <4>3. IsFiniteSet(cert)
          BY <4>1, <4>2, FS_Subset
        <4> QED BY <2>2, <4>3, AtMostOne
      <3> QED BY <1>3, <2>2, <3>2, <3>3 DEF DiscoveryIInv
    <2>3. CASE pins[h] = None /\ Cardinality(cert) # 1
      <3>1. pins'[h] = None
        BY <1>3, <2>3 DEF pinAfter
      <3> QED BY <1>3, <2>3, <3>1 DEF DiscoveryIInv
    <2> QED BY <2>1, <2>2, <2>3
  <1>5. PinHolds' /\ \A i \in Hosts : pins'[i] = None => \A c \in admitted'[i] : Cardinality(c) # 1
    <2>1. ASSUME NEW i \in Hosts, i # h
          PROVE  /\ pins'[i] # None => /\ {pins'[i]} \in admitted'[i]
                                       /\ \A c \in admitted'[i] : Cardinality(c) = 1 => pins'[i] \in c
                 /\ pins'[i] = None => \A c \in admitted'[i] : Cardinality(c) # 1
      BY <1>3, <2>1 DEF DiscoveryIInv, PinHolds
    <2> QED BY <1>4, <2>1 DEF PinHolds
  <1> QED BY <1>1, <1>3, <1>5, NetRests DEF DiscoveryIInv, EmittedIsAccepted

\* Whom a node elects is itself or one of those it sees.
LEMMA Elects ==
    ASSUME NEW n \in MeshMembers, NEW others \in SUBSET MeshMembers
    PROVE  elect(n, others) \in MeshMembers
  <1> DEFINE S == others \cup {n}
  <1>1. S \in SUBSET Nat /\ S # {} /\ S \subseteq MeshMembers
    BY DiscoveryAssumption
  <1> HIDE DEF S
  <1>2. PICK m \in S : \A o \in S : m <= o
    BY <1>1, LeastMember
  <1>3. \A o \in S : joinedAt(m) < joinedAt(o) \/ (joinedAt(m) = joinedAt(o) /\ m <= o)
    <2> SUFFICES ASSUME NEW o \in S PROVE m \div 2 <= o \div 2 /\ m \div 2 \in Int /\ o \div 2 \in Int
      BY <1>2 DEF joinedAt
    <2>1. m \in Nat /\ o \in Nat /\ m <= o
      BY <1>1, <1>2
    <2> QED BY <2>1
  <1>4. (CHOOSE x \in S : \A o \in S : joinedAt(x) < joinedAt(o)
                                       \/ (joinedAt(x) = joinedAt(o) /\ x <= o)) \in S
    BY <1>3
  <1> QED BY <1>1, <1>4 DEF elect, S

LEMMA DiscoveryStep ==
    DiscoveryIInv /\ [NetNext \/ InputNext \/ PinNext \/ ViewNext]_discoveryVars => DiscoveryIInv'
  <1> SUFFICES ASSUME DiscoveryIInv, [NetNext \/ InputNext \/ PinNext \/ ViewNext]_discoveryVars
               PROVE  DiscoveryIInv'
    OBVIOUS
  <1>1. CASE NetNext
    <2>1. UNCHANGED <<attestation, pins, admitted, loads, views>>
      BY <1>1 DEF NetNext, Configure, ConstructDiscovery, Publish, Browse
    <2>2. NetIInv'
      BY <1>1, NetStep DEF DiscoveryIInv
    <2> QED BY <2>1, <2>2 DEF DiscoveryIInv, EmittedIsAccepted, PinHolds
  <1>2. CASE ChooseTarget
    BY <1>2, NetRests DEF ChooseTarget, DiscoveryIInv, EmittedIsAccepted, PinHolds
  <1>3. CASE ResolveIdentity
    <2>1. PICK in \in IdentityInput : attestation' = {decision(in)}
      BY <1>3 DEF ResolveIdentity
    <2>2. in.sans \in Seq({"p", "q", "host"}) /\ in.peerId \in {None, "p"}
      <3>1. /\ in.peerId \in {None, "p"}
            /\ \/ in.sans = <<>>
               \/ \E u \in {"p", "q", "host"} : in.sans = <<u>>
               \/ \E u, v \in {"p", "q", "host"} : in.sans = <<u, v>>
        BY DEF IdentityInput
      <3>2. CASE in.sans = <<>>
        BY <3>1, <3>2
      <3>3. ASSUME NEW u \in {"p", "q", "host"}, in.sans = <<u>>
            PROVE  in.sans \in Seq({"p", "q", "host"})
        BY <3>3
      <3>4. ASSUME NEW u \in {"p", "q", "host"}, NEW v \in {"p", "q", "host"}, in.sans = <<u, v>>
            PROVE  in.sans \in Seq({"p", "q", "host"})
        BY <3>4
      <3> QED BY <3>1, <3>2, <3>3, <3>4
    <2>3. ASSUME NEW d \in attestation',
                 Cardinality({k \in 1..Len(d.in.sans) : d.in.sans[k] \in Canonical}) <= 1
          PROVE  d.accepted /\ (d.sender \in Canonical => d.verified = d.sender)
      <3>1. /\ d.in = in /\ d.sender = emitted(in) /\ d.verified = attested(in.sans, in.attesting)
            /\ d.accepted <=> /\ authorized(emitted(in), canonicalCertSan(in.sans))
                              /\ emitted(in) \in Canonical => attested(in.sans, in.attesting) # None
        BY <2>1 DEF decision
      <3> DEFINE K == {k \in 1..Len(in.sans) : in.sans[k] \in Canonical}
      <3>2. Cardinality(K) <= 1
        BY <2>3, <3>1, Zenon
      <3>3. IsFiniteSet(K)
        <4>1. PICK n \in Nat : n = Len(in.sans)
          BY <2>2
        <4>2. IsFiniteSet(1..n)
          BY FS_Interval
        <4>3. K \subseteq 1..n
          BY <4>1
        <4> HIDE DEF K
        <4> QED BY <4>2, <4>3, FS_Subset
      <3>4. \A i, j \in K : i = j
        <4> HIDE DEF K
        <4> QED BY <3>2, <3>3, AtMostOne
      <3>5. \A i, j \in 1..Len(in.sans) : in.sans[i] \in Canonical /\ in.sans[j] \in Canonical => i = j
        BY <3>4
      <3> HIDE DEF K
      <3>6. /\ authorized(emitted(in), canonicalCertSan(in.sans))
            /\ emitted(in) \in Canonical => attested(in.sans, in.attesting) = emitted(in)
        BY <2>2, <3>5, EmittedIsAttested
      <3> QED BY <3>1, <3>6 DEF Canonical, None
    <2>4. EmittedIsAccepted'
      BY <2>3, Zenon DEF EmittedIsAccepted
    <2>5. UNCHANGED <<net, pins, admitted, views>>
      BY <1>3 DEF ResolveIdentity
    <2> QED BY <2>4, <2>5, NetRests DEF DiscoveryIInv, PinHolds
  <1>4. CASE PinNext
    BY <1>4, HandshakeKeeps DEF PinNext
  <1>5. CASE ViewNext
    <2> DEFINE View == [coordinator : MeshMembers, expected : SUBSET MeshMembers,
                        current : SUBSET MeshMembers, lost : SUBSET MeshMembers,
                        state : {"healthy", "isolated", "partitioned", "degraded"}]
    <2>0. /\ views \in [MeshMembers -> View]
          /\ \A v \in View : Detected(v) \in View
      BY DEF DiscoveryIInv, Detected, evaluateState
    <2>1. PICK n \in MeshMembers : Elect(n) \/ \E m \in MeshMembers \ {n} :
              AddKnownPeer(n, m) \/ PeerLost(n, m) \/ PeerReconnected(n, m)
      BY <1>5 DEF ViewNext
    <2>2. views' \in [MeshMembers -> View]
      <3>1. CASE Elect(n)
        <4>1. elect(n, views[n].current) \in MeshMembers
          BY <2>0, Elects
        <4>2. [views[n] EXCEPT !.coordinator = elect(n, views[n].current)] \in View
          BY <2>0, <4>1
        <4> QED BY <2>0, <3>1, <4>2 DEF Elect
      <3>2. ASSUME NEW m \in MeshMembers \ {n}, AddKnownPeer(n, m) \/ PeerLost(n, m) \/ PeerReconnected(n, m)
            PROVE  views' \in [MeshMembers -> View]
        <4>1. views[n] \in View /\ m \in MeshMembers
          BY <2>0
        <4> DEFINE a == [views[n] EXCEPT !.expected = @ \cup {m}, !.lost = @ \ {m}]
                   b == [views[n] EXCEPT !.current = @ \ {m}, !.lost = @ \cup {m}]
                   c == [views[n] EXCEPT !.current = @ \cup {m}, !.lost = @ \ {m}]
        <4>2. a \in View
          BY <4>1
        <4>3. b \in View
          BY <4>1
        <4>4. c \in View
          BY <4>1
        <4>5. \/ views' = [views EXCEPT ![n] = Detected(a)]
              \/ views' = [views EXCEPT ![n] = Detected(b)]
              \/ views' = [views EXCEPT ![n] = Detected(c)]
          BY <3>2, Zenon DEF AddKnownPeer, PeerLost, PeerReconnected
        <4> HIDE DEF a, b, c, View
        <4> QED BY <2>0, <4>2, <4>3, <4>4, <4>5
      <3> QED BY <2>1, <3>1, <3>2
    <2>3. UNCHANGED <<net, attestation, pins, admitted>>
      BY <2>1 DEF Elect, AddKnownPeer, PeerLost, PeerReconnected
    <2> QED BY <2>2, <2>3, NetRests DEF DiscoveryIInv, EmittedIsAccepted, PinHolds
  <1>6. CASE UNCHANGED discoveryVars
    BY <1>6, NetRests DEF discoveryVars, DiscoveryIInv, EmittedIsAccepted, PinHolds
  <1> QED BY <1>1, <1>2, <1>3, <1>4, <1>5, <1>6 DEF InputNext

\* A node is accepted under the identity it emits, a pin holds for good, and
\* nodes that see the same elect the same, with any number of hosts and nodes
\* (peer-identity.ts, server-identity-pin.ts, coordinator.ts).
THEOREM IdentitiesHold ==
    DiscoveryInit /\ [][NetNext \/ InputNext \/ PinNext \/ ViewNext]_discoveryVars =>
        [](EmittedIsAccepted /\ PinHolds /\ ElectionAgrees)
  <1>1. DiscoveryIInv => EmittedIsAccepted /\ PinHolds /\ ElectionAgrees
    BY DEF DiscoveryIInv, ElectionAgrees, elect
  <1> QED BY <1>1, DiscoveryInitIInv, DiscoveryStep, PTL

\* Nodes under one policy find each other where the policy says, for addresses of
\* any width (discovery-policy.ts, discovery.ts).
THEOREM NodesAreFoundWhereAllowed ==
    DiscoveryInit /\ [][NetNext \/ InputNext \/ PinNext \/ ViewNext]_discoveryVars => []FoundWhereAllowed
  <1>1. DiscoveryIInv => FoundWhereAllowed
    BY DEF DiscoveryIInv, NetIInv, FoundWhereAllowed
  <1> QED BY <1>1, DiscoveryInitIInv, DiscoveryStep, PTL
=============================================================================
