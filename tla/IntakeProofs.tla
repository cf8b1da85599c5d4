---------------------------- MODULE IntakeProofs ----------------------------
(***************************************************************************)
(* Proofs about AlertIntake, LlmAccess and EvidenceCollection, whose       *)
(* shared tables, counters and graph are reached in any order: the queue   *)
(* and the rows an alert waits in, the bucket and the cache in front of    *)
(* the model, the nodes of collectors that run side by side.  For every    *)
(* set of alerts, callers, keys and entities, every capacity and time to   *)
(* live.                                                                   *)
(***************************************************************************)
EXTENDS AlertIntake, LlmAccess, EvidenceCollection, FiniteSetTheorems,
        WellFoundedInduction, TLAPS

-----------------------------------------------------------------------------
(* The token bucket *)

LEMMA OneMore == \A x \in Int, p \in Int : (x + 1) * p = x * p + p
  OBVIOUS

LEMMA FullBucket == Capacity * PollsPerToken \in Nat
  BY LlmAssumption

\* Refilling earns at most the time that passed and never more than fits.
LEMMA RefillEarns ==
    ASSUME LlmTypeOK
    PROVE  /\ Refill(bucket).parts \in 0..(Capacity * PollsPerToken)
           /\ Refill(bucket).refilled = clock
           /\ Refill(bucket).parts - clock <= bucket.parts - bucket.refilled
<1> DEFINE full == Capacity * PollsPerToken
<1>1. full \in Nat
  BY FullBucket
<1>2. bucket \in [parts : 0..full, refilled : 1..clock] /\ clock \in Nat
  BY DEF LlmTypeOK
<1> HIDE DEF full
<1>3. bucket.parts \in 0..full /\ bucket.refilled \in 1..clock
  BY <1>2
<1>4. Refill(bucket) = [parts |-> IF bucket.parts + (clock - bucket.refilled) > full THEN full
                                  ELSE bucket.parts + (clock - bucket.refilled),
                        refilled |-> clock]
  BY DEF Refill, full
<1>5. /\ Refill(bucket).parts \in 0..full /\ Refill(bucket).refilled = clock
      /\ Refill(bucket).parts - clock <= bucket.parts - bucket.refilled
  BY <1>1, <1>2, <1>3, <1>4
<1> QED
  BY <1>5 DEF full

LEMMA PaidGrows ==
    ASSUME NEW m \in Int, NEW i \in Int
    PROVE  /\ Paid(m, i) \in Int
           /\ Paid(m + 1, i) = Paid(m, i) + PollsPerToken
           /\ Paid(i, i) = PollsPerToken - Capacity * PollsPerToken
<1> DEFINE x == m - i + 1 - Capacity
<1>1. Capacity \in Int /\ PollsPerToken \in Int
  BY LlmAssumption
<1>2. x \in Int /\ x * PollsPerToken \in Int
  BY <1>1
<1>3. m + 1 - i + 1 - Capacity = x + 1 /\ i - i + 1 - Capacity = 1 - Capacity
  BY <1>1
<1>4. (x + 1) * PollsPerToken = x * PollsPerToken + PollsPerToken
  BY <1>1, <1>2, OneMore
<1>5. (1 - Capacity) * PollsPerToken = PollsPerToken - Capacity * PollsPerToken
  BY <1>1
<1> QED
  BY <1>2, <1>3, <1>4, <1>5 DEF Paid

\* A sum that is covered stays covered while the bucket is refilled.
LEMMA StaysCovered ==
    ASSUME NEW paid \in Int, NEW parts \in Int, NEW refilled \in Int, NEW since \in Int,
           NEW left \in Int, NEW now \in Int,
           paid + parts <= refilled - since, left - now <= parts - refilled
    PROVE  paid + left <= now - since
  OBVIOUS

\* Whether or not a token is given, what was paid stays accounted for.
LEMMA TryAcquireKeeps ==
    ASSUME LlmTypeOK, GrantsPaid, BurstBounded, clock' = clock,
           NEW c, NEW n, NEW key, TryAcquire(c, n, key)
    PROVE  /\ bucket' \in [parts : 0..(Capacity * PollsPerToken), refilled : 1..clock]
           /\ grants' \in Seq(Nat)
           /\ GrantsPaid' /\ BurstBounded'
<1> DEFINE full == Capacity * PollsPerToken
           b == Refill(bucket)
           N == Len(grants)
<1>1. /\ full \in Nat /\ PollsPerToken \in Nat \ {0} /\ clock \in Nat \ {0}
      /\ grants \in Seq(Nat) /\ N \in Nat
      /\ bucket.parts \in 0..full /\ bucket.refilled \in 1..clock
  BY LlmAssumption, FullBucket DEF LlmTypeOK
<1>2. /\ b.parts \in 0..full /\ b.refilled = clock
      /\ b.parts - clock <= bucket.parts - bucket.refilled
      /\ b = [parts |-> b.parts, refilled |-> clock]
  <2>1. b = [parts |-> b.parts, refilled |-> clock]
    BY DEF Refill
  <2> QED
    BY <2>1, RefillEarns
<1>3. ASSUME NEW i \in 1..N
      PROVE  Paid(N, i) + b.parts <= clock - grants[i]
  <2>1. Paid(N, i) + bucket.parts <= bucket.refilled - grants[i] /\ grants[i] \in Nat
    BY <1>1 DEF GrantsPaid
  <2>2. Paid(N, i) \in Int
    BY <1>1, PaidGrows
  <2> HIDE DEF full, b, N
  <2>3. /\ bucket.parts \in Int /\ bucket.refilled \in Int /\ clock \in Int
        /\ b.parts \in Int /\ grants[i] \in Int
    BY <1>1, <1>2, <2>1
  <2> QED
    BY <1>2, <2>1, <2>2, <2>3, StaysCovered
<1>4. \A i, j \in 1..N : i <= j => Paid(j, i) <= grants[j] - grants[i]
  BY <1>1 DEF BurstBounded
<1> HIDE DEF full, b, N
<1>5. CASE b.parts >= PollsPerToken
  <2>1. /\ bucket' = [parts |-> b.parts - PollsPerToken, refilled |-> clock]
        /\ grants' = Append(grants, clock)
    BY <1>2, <1>5 DEF TryAcquire, b
  <2> DEFINE left == b.parts - PollsPerToken
  <2>2. left \in 0..full /\ bucket' = [parts |-> left, refilled |-> clock]
    BY <1>1, <1>2, <1>5, <2>1
  <2>3. /\ grants' \in Seq(Nat) /\ Len(grants') = N + 1 /\ grants'[N + 1] = clock
        /\ \A i \in 1..N : grants'[i] = grants[i]
    BY <1>1, <2>1 DEF N
  <2>4. ASSUME NEW i \in 1..(N + 1)
        PROVE  Paid(N + 1, i) + left <= clock - grants'[i]
    <3>1. CASE i \in 1..N
      <4>1. Paid(N + 1, i) = Paid(N, i) + PollsPerToken /\ Paid(N, i) \in Int
        <5>1. N \in Int /\ i \in Int
          BY <1>1, <3>1
        <5> QED
          BY <5>1, PaidGrows
      <4>2. Paid(N + 1, i) + left = Paid(N, i) + b.parts
        BY <1>1, <1>2, <4>1
      <4> QED
        BY <1>3, <2>3, <3>1, <4>2
    <3>2. CASE i = N + 1
      <4>1. Paid(N + 1, i) = PollsPerToken - full
        BY <1>1, <3>2, PaidGrows DEF full
      <4>2. Paid(N + 1, i) + left <= 0
        BY <1>1, <1>2, <4>1
      <4> QED
        BY <1>1, <2>3, <3>2, <4>2
    <3> QED
      BY <1>1, <3>1, <3>2
  <2>5. ASSUME NEW i \in 1..(N + 1), NEW j \in 1..(N + 1), i <= j
        PROVE  Paid(j, i) <= grants'[j] - grants'[i]
    <3>1. CASE j \in 1..N
      <4>1. i \in 1..N
        BY <1>1, <2>5, <3>1
      <4> QED
        BY <1>4, <2>3, <2>5, <3>1, <4>1
    <3>2. CASE j = N + 1
      <4>1. Paid(N + 1, i) + left <= clock - grants'[i]
        BY <2>4
      <4>2. Paid(N + 1, i) \in Int
        BY <1>1, PaidGrows
      <4>4. grants'[i] \in Int /\ clock \in Int /\ left \in Nat
        BY <1>1, <2>2, <2>3
      <4> HIDE DEF left
      <4>3. Paid(N + 1, i) <= clock - grants'[i]
        BY <4>1, <4>2, <4>4
      <4> QED
        BY <2>3, <3>2, <4>3
    <3> QED
      BY <1>1, <3>1, <3>2
  <2> HIDE DEF left
  <2>6. bucket' \in [parts : 0..full, refilled : 1..clock]
    BY <1>1, <2>2
  <2>7. GrantsPaid'
    BY <2>2, <2>3, <2>4 DEF GrantsPaid
  <2>8. BurstBounded'
    BY <2>3, <2>5 DEF BurstBounded
  <2> QED
    BY <2>3, <2>6, <2>7, <2>8 DEF full
<1>6. CASE ~(b.parts >= PollsPerToken)
  <2>1. bucket' = b /\ grants' = grants
    BY <1>6 DEF TryAcquire, b
  <2>2. bucket' \in [parts : 0..full, refilled : 1..clock]
    BY <1>1, <1>2, <2>1
  <2>3. GrantsPaid'
    <3>1. bucket'.parts = b.parts /\ bucket'.refilled = clock /\ Len(grants') = N
          /\ DOMAIN grants' = 1..N
      BY <1>1, <1>2, <2>1 DEF N
    <3> QED
      BY <1>3, <2>1, <3>1 DEF GrantsPaid
  <2>4. BurstBounded'
    BY <2>1 DEF BurstBounded
  <2> QED
    BY <1>1, <2>1, <2>2, <2>3, <2>4 DEF full
<1> QED
  BY <1>5, <1>6

-----------------------------------------------------------------------------
(* The cache, and the invariant of both *)

LEMMA StoreIs == \A state : StoreFor(state) \in {"redis", "memory"}
  BY DEF StoreFor

\* What the invariant says of the limiter, and what it says of the cache.
LimiterOK == /\ clock \in Nat \ {0}
             /\ bucket \in [parts : 0..(Capacity * PollsPerToken), refilled : 1..clock]
             /\ grants \in Seq(Nat)
             /\ GrantsPaid /\ BurstBounded
CacheOK == /\ redis \in {"unchecked", "never", "up", "down"}
           /\ cache \in [{"redis", "memory"} -> [Keys -> [born : Nat, expires : Nat]]]
           /\ EntriesExpire

LEMMA LlmParts == LlmInvariant <=> LimiterOK /\ CacheOK /\ ServedFresh
  BY DEF LlmInvariant, LlmTypeOK, LimiterOK, CacheOK

LEMMA LlmPartsNext == LlmInvariant' <=> LimiterOK' /\ CacheOK' /\ ServedFresh'
  BY DEF LlmInvariant, LlmTypeOK, LimiterOK, CacheOK

LEMMA NothingServed == served = NotServed => ServedFresh
  BY LlmAssumption DEF NotServed, ServedFresh

LEMMA NothingServedNext == served' = NotServed => ServedFresh'
  BY LlmAssumption DEF NotServed, ServedFresh

LEMMA LimiterStays ==
    ASSUME LimiterOK, UNCHANGED <<clock, bucket, grants>>
    PROVE  LimiterOK'
  BY DEF LimiterOK, GrantsPaid, BurstBounded

LEMMA LimiterServes ==
    ASSUME LlmInvariant, clock' = clock, NEW c, NEW n, NEW key, TryAcquire(c, n, key)
    PROVE  LimiterOK'
  BY TryAcquireKeeps DEF LlmInvariant, LlmTypeOK, LimiterOK

\* One entry of one store is set to nothing, or to an answer of this moment.
LEMMA EntrySet ==
    ASSUME CacheOK, redis' \in {"unchecked", "never", "up", "down"},
           NEW st \in {"redis", "memory"}, NEW key,
           NEW new \in [born : Nat, expires : Nat],
           new = NoAnswer \/ new.expires = new.born + TTL,
           cache' = [cache EXCEPT ![st][key] = new]
    PROVE  CacheOK'
<1>1. cache' \in [{"redis", "memory"} -> [Keys -> [born : Nat, expires : Nat]]]
  BY DEF CacheOK
<1>2. ASSUME NEW t \in {"redis", "memory"}, NEW k \in Keys
      PROVE  cache'[t][k] = NoAnswer \/ cache'[t][k].expires = cache'[t][k].born + TTL
  <2>1. cache'[t][k] = cache[t][k] \/ cache'[t][k] = new
    BY DEF CacheOK
  <2> QED
    BY <2>1 DEF CacheOK, EntriesExpire
<1> QED
  BY <1>1, <1>2 DEF CacheOK, EntriesExpire

LEMMA LlmInitInductive == LlmInit => LlmInvariant
<1> SUFFICES ASSUME LlmInit PROVE LlmInvariant
  OBVIOUS
<1>1. LimiterOK
  <2>1. bucket \in [parts : 0..(Capacity * PollsPerToken), refilled : 1..clock]
    BY FullBucket DEF LlmInit
  <2> QED
    BY <2>1 DEF LlmInit, LimiterOK, GrantsPaid, BurstBounded
<1>2. CacheOK
  BY DEF LlmInit, CacheOK, EntriesExpire, NoAnswer
<1>3. ServedFresh
  BY NothingServed DEF LlmInit
<1> QED
  BY <1>1, <1>2, <1>3, LlmParts

\* What is alive is younger than the time to live.
LEMMA HitKeeps ==
    ASSUME LlmInvariant, NEW c \in Callers, NEW k \in Keys, Hit(c, k)
    PROVE  LlmInvariant'
<1> DEFINE st == StoreFor(redis')
           entry == cache[st][k]
<1>1. LimiterOK'
  BY LlmParts, LimiterStays DEF Hit
<1>2. CacheOK'
  BY LlmParts DEF Hit, CacheOK, Checked, EntriesExpire
<1>3. entry \in [born : Nat, expires : Nat] /\ entry.expires > clock /\ clock \in Nat \ {0}
  BY StoreIs DEF LlmInvariant, LlmTypeOK, Hit, Live
<1>4. entry # NoAnswer
  BY <1>3 DEF NoAnswer
<1>5. entry.expires = entry.born + TTL
  BY <1>4, StoreIs DEF LlmInvariant, EntriesExpire
<1>6. served' = clock - entry.born
  BY DEF Hit
<1> HIDE DEF entry
<1>7. ServedFresh'
  BY <1>3, <1>5, <1>6, LlmAssumption DEF ServedFresh
<1> QED
  BY <1>1, <1>2, <1>7, LlmPartsNext

LEMMA MissKeeps ==
    ASSUME LlmInvariant, NEW c \in Callers, NEW k \in Keys, Miss(c, k)
    PROVE  LlmInvariant'
<1>1. LimiterOK'
  BY LimiterServes DEF Miss
<1>2. CacheOK'
  <2>1. CacheOK /\ redis' \in {"unchecked", "never", "up", "down"}
    BY LlmParts DEF Miss, Checked, CacheOK
  <2>2. NoAnswer \in [born : Nat, expires : Nat] /\ StoreFor(redis') \in {"redis", "memory"}
    BY StoreIs DEF NoAnswer
  <2>3. cache' = [cache EXCEPT ![StoreFor(redis')][k] = NoAnswer]
    BY DEF Miss
  <2> QED
    BY <2>1, <2>2, <2>3, EntrySet
<1>3. ServedFresh'
  BY NothingServedNext DEF Miss
<1> QED
  BY <1>1, <1>2, <1>3, LlmPartsNext

LEMMA PollKeeps ==
    ASSUME LlmInvariant, NEW c \in Callers, Poll(c)
    PROVE  LlmInvariant'
<1>1. LimiterOK'
  <2>1. CASE caller[c].polls + 1 < MaxPolls
    <3>1. TryAcquire(c, caller[c].polls + 1, caller[c].key) /\ clock' = clock
      BY <2>1 DEF Poll
    <3> QED
      BY <3>1, LimiterServes
  <2>2. CASE ~(caller[c].polls + 1 < MaxPolls)
    <3>1. UNCHANGED <<clock, bucket, grants>>
      BY <2>2 DEF Poll
    <3> QED
      BY <3>1, LlmParts, LimiterStays
  <2> QED
    BY <2>1, <2>2
<1>2. CacheOK'
  BY LlmParts DEF Poll, CacheOK, EntriesExpire
<1>3. ServedFresh'
  BY NothingServedNext DEF Poll
<1> QED
  BY <1>1, <1>2, <1>3, LlmPartsNext

LEMMA AnsweredKeeps ==
    ASSUME LlmInvariant, NEW c \in Callers, Answered(c)
    PROVE  LlmInvariant'
<1>1. LimiterOK'
  BY LlmParts, LimiterStays DEF Answered
<1>2. CacheOK'
  <2> DEFINE new == [born |-> clock, expires |-> clock + TTL]
  <2>1. CacheOK /\ redis' = redis /\ clock \in Nat
    BY LlmParts DEF Answered, LimiterOK
  <2>2. CASE cache' = [cache EXCEPT ![StoreFor(redis)][caller[c].key] = new]
    <3>1. new \in [born : Nat, expires : Nat] /\ new.expires = new.born + TTL
      BY <2>1, LlmAssumption
    <3> HIDE DEF new
    <3>2. redis' \in {"unchecked", "never", "up", "down"}
      BY <2>1 DEF CacheOK
    <3> QED
      BY <2>1, <2>2, <3>1, <3>2, StoreIs, EntrySet
  <2>3. CASE UNCHANGED cache
    BY <2>1, <2>3 DEF CacheOK, EntriesExpire
  <2> QED
    BY <2>2, <2>3 DEF Answered
<1>3. ServedFresh'
  BY NothingServedNext DEF Answered
<1> QED
  BY <1>1, <1>2, <1>3, LlmPartsNext

LEMMA MomentKeeps ==
    ASSUME LlmInvariant, Moment
    PROVE  LlmInvariant'
<1>1. LimiterOK'
  <2>1. /\ clock \in Nat \ {0} /\ clock' = clock + 1
        /\ bucket \in [parts : 0..(Capacity * PollsPerToken), refilled : 1..clock]
    BY DEF Moment, LlmInvariant, LlmTypeOK
  <2>2. bucket \in [parts : 0..(Capacity * PollsPerToken), refilled : 1..clock']
    BY <2>1
  <2> QED
    BY <2>1, <2>2 DEF Moment, LlmInvariant, LlmTypeOK, LimiterOK, GrantsPaid, BurstBounded
<1>2. CacheOK'
  BY LlmParts DEF Moment, CacheOK, EntriesExpire
<1>3. ServedFresh'
  BY NothingServedNext DEF Moment
<1> QED
  BY <1>1, <1>2, <1>3, LlmPartsNext

LEMMA RedisSwitchesKeeps ==
    ASSUME LlmInvariant, RedisSwitches
    PROVE  LlmInvariant'
<1>1. LimiterOK'
  BY LlmParts, LimiterStays DEF RedisSwitches
<1>2. CacheOK'
  BY LlmParts DEF RedisSwitches, CacheOK, EntriesExpire
<1>3. ServedFresh'
  BY NothingServedNext DEF RedisSwitches
<1> QED
  BY <1>1, <1>2, <1>3, LlmPartsNext

LEMMA LlmNextInductive == LlmInvariant /\ [LlmNext]_llmVars => LlmInvariant'
<1> SUFFICES ASSUME LlmInvariant, [LlmNext]_llmVars PROVE LlmInvariant'
  OBVIOUS
<1>1. CASE UNCHANGED llmVars
  BY <1>1, LlmParts, LlmPartsNext, LimiterStays DEF llmVars, CacheOK, EntriesExpire, ServedFresh
<1>2. CASE LlmNext
  BY <1>2, HitKeeps, MissKeeps, PollKeeps, AnsweredKeeps, MomentKeeps, RedisSwitchesKeeps
     DEF LlmNext
<1> QED
  BY <1>1, <1>2

\* CallersServed, for every capacity, rate, time to live and number of callers:
\* no stretch of time sees more grants than a full bucket and its earnings, and
\* no answer is served past its time, whichever store it came from.
THEOREM ServedTheorem == LlmSpec => []CallersServed
<1>1. LlmInvariant => CallersServed
  BY DEF LlmInvariant, CallersServed
<1> QED
  BY <1>1, LlmInitInductive, LlmNextInductive, PTL DEF LlmSpec

-----------------------------------------------------------------------------
(* The risk of the entities *)

RiskOK == /\ risk = [e \in RiskEntities |-> risk[e]]
          /\ \A e \in RiskEntities : risk[e].promoted \in BOOLEAN
          /\ PromotedOnce

\* What PromotedOnce says of one entity.
Announced(r) == /\ r.promoted \in BOOLEAN
                /\ r.cumulative >= PromotionThreshold => r.promoted
                /\ r.announced = IF r.promoted THEN 1 ELSE 0

\* Whatever the score and however much was halved away, an entity is announced
\* at the step that promotes it and at no other.
LEMMA RecordAnnounces ==
    ASSUME NEW r, NEW score, Announced(r)
    PROVE  Announced(RecordRisk(r, score))
<1> DEFINE total == Halved(r.cumulative, tick - r.last) + score
           over == total >= PromotionThreshold
           crosses == over /\ ~r.promoted
<1>1. RecordRisk(r, score) =
          [cumulative |-> total, last |-> tick, promoted |-> r.promoted \/ crosses,
           announced |-> r.announced + IF crosses THEN 1 ELSE 0]
  BY DEF RecordRisk
<1> HIDE DEF total
<1>2. RecordRisk(r, score).cumulative >= PromotionThreshold <=> over
  BY <1>1
<1>3. RecordRisk(r, score).promoted <=> r.promoted \/ over
  <2>1. RecordRisk(r, score).promoted = (r.promoted \/ crosses)
    BY <1>1
  <2>2. r.promoted \in BOOLEAN
    BY DEF Announced
  <2> HIDE DEF over
  <2> QED
    BY <2>1, <2>2, Zenon
<1>4. RecordRisk(r, score).promoted \in BOOLEAN
  BY <1>1
<1>5. RecordRisk(r, score).announced = r.announced + IF over /\ ~r.promoted THEN 1 ELSE 0
  BY <1>1
<1> HIDE DEF over
<1>6. RecordRisk(r, score).announced = IF RecordRisk(r, score).promoted THEN 1 ELSE 0
  <2>1. CASE r.promoted
    BY <2>1, <1>3, <1>5 DEF Announced
  <2>2. CASE ~r.promoted
    BY <2>2, <1>3, <1>5 DEF Announced
  <2> QED
    BY <2>1, <2>2
<1> QED
  BY <1>2, <1>3, <1>4, <1>6 DEF Announced

LEMMA NoRiskAnnounced == Announced(NoRisk)
  BY DEF Announced, NoRisk, PromotionThreshold, Scale

LEMMA RiskIs == RiskOK <=> /\ risk = [e \in RiskEntities |-> risk[e]]
                           /\ \A e \in RiskEntities : Announced(risk[e])
  BY DEF RiskOK, PromotedOnce, Announced

LEMMA RiskNextIs == RiskOK' <=> /\ risk' = [e \in RiskEntities |-> risk'[e]]
                                /\ \A e \in RiskEntities : Announced(risk'[e])
  BY DEF RiskOK, PromotedOnce, Announced

LEMMA RiskAfterKeeps ==
    ASSUME RiskOK, NEW a, risk' = RiskAfter(a)
    PROVE  RiskOK'
<1>1. ASSUME NEW e \in RiskEntities PROVE Announced(risk'[e])
  <2>1. risk'[e] = risk[e] \/ risk'[e] = RecordRisk(risk[e], Score[a.severity])
    BY DEF RiskAfter
  <2> QED
    BY <2>1, RiskIs, RecordAnnounces
<1>2. risk' = [e \in RiskEntities |-> risk'[e]]
  BY DEF RiskAfter
<1> QED
  BY <1>1, <1>2, RiskNextIs

LEMMA RiskStays ==
    ASSUME RiskOK, risk' = risk
    PROVE  RiskOK'
  BY RiskIs, RiskNextIs

-----------------------------------------------------------------------------
(* The alerts *)

Status == {"absent", Pending, "in_progress"}
Channels == [database : 0..1, memory : 0..1]

TablesOK ==
    /\ up \in BOOLEAN /\ tick \in 0..LastTick
    /\ alert \in Seq(AlertObject) /\ known \subseteq Alerts /\ queue \in Seq(Alerts)
    /\ row \in Seq(Status) /\ Len(row) = Len(alert)
    /\ handed \in Seq(Channels) /\ Len(handed) = Len(alert)
    /\ spent \in [ingests : Nat, outages : Nat, restarts : Nat]

LEMMA IntakeParts ==
    IntakeInvariant <=> TablesOK /\ RowsTellHanded /\ NothingForgotten /\ RiskOK
  BY DEF IntakeInvariant, IntakeTypeOK, TablesOK, RiskOK, Status, Channels

LEMMA IntakePartsNext ==
    IntakeInvariant' <=> TablesOK' /\ RowsTellHanded' /\ NothingForgotten' /\ RiskOK'
  BY DEF IntakeInvariant, IntakeTypeOK, TablesOK, RiskOK, Status, Channels

\* An insert changes the row of its alert only, and only a missing one.
LEMMA RowInserted ==
    ASSUME NEW rows \in Seq(Status), NEW a \in 1..Len(rows), NEW r, r = RowAfter(a, rows)
    PROVE  /\ r \in Seq(Status) /\ Len(r) = Len(rows)
           /\ \A b \in 1..Len(rows) :
                 r[b] = rows[b] \/ (b = a /\ rows[b] = "absent" /\ r[b] = Pending)
<1>1. CASE r = rows
  BY <1>1
<1>2. CASE r = [rows EXCEPT ![a] = Pending] /\ rows[a] = "absent"
  <2>1. Pending \in Status
    BY DEF Status
  <2> QED
    BY <1>2, <2>1
<1> QED
  BY <1>1, <1>2 DEF RowAfter

\* The queue is appended to, and holds what it held.
LEMMA QueueGrows ==
    ASSUME NEW n \in Nat, NEW a \in 1..n, queue \in Seq(1..n), queue' = Append(queue, a)
    PROVE  /\ queue' \in Seq(1..n)
           /\ \E i \in DOMAIN queue' : queue'[i] = a
           /\ \A b : (\E i \in DOMAIN queue : queue[i] = b)
                        => \E i \in DOMAIN queue' : queue'[i] = b
<1>1. /\ queue' \in Seq(1..n) /\ DOMAIN queue' = 1..(Len(queue) + 1)
      /\ queue'[Len(queue) + 1] = a /\ \A i \in 1..Len(queue) : queue'[i] = queue[i]
  OBVIOUS
<1>2. Len(queue) \in Nat /\ DOMAIN queue = 1..Len(queue)
  OBVIOUS
<1>3. 1..Len(queue) \subseteq 1..(Len(queue) + 1) /\ Len(queue) + 1 \in 1..(Len(queue) + 1)
  BY <1>2
<1> QED
  BY <1>1, <1>2, <1>3

\* An ingest is counted; no life ends by it.
LEMMA IngestCounted ==
    ASSUME TablesOK, spent' = [spent EXCEPT !.ingests = @ + 1]
    PROVE  /\ spent' \in [ingests : Nat, outages : Nat, restarts : Nat]
           /\ spent'.restarts = spent.restarts
<1>1. spent \in [ingests : Nat, outages : Nat, restarts : Nat]
  BY DEF TablesOK
<1>2. spent.ingests + 1 \in Nat
  BY <1>1
<1> QED
  BY <1>1, <1>2

LEMMA IntakeInitInductive == IntakeInit => IntakeInvariant
<1> SUFFICES ASSUME IntakeInit PROVE IntakeInvariant
  OBVIOUS
<1>1. TablesOK
  BY IntakeAssumption DEF IntakeInit, TablesOK, Alerts
<1>2. RowsTellHanded /\ NothingForgotten
  BY DEF IntakeInit, RowsTellHanded, NothingForgotten, Alerts
<1>3. RiskOK
  BY NoRiskAnnounced, RiskIs DEF IntakeInit
<1> QED
  BY <1>1, <1>2, <1>3, IntakeParts

\* The steps that leave the alerts, their rows, the queue and the lives alone.
LEMMA TablesStay ==
    ASSUME IntakeInvariant, UNCHANGED <<alert, queue, row, handed>>,
           up' \in BOOLEAN, tick' \in 0..LastTick, known' \subseteq known,
           spent' \in [ingests : Nat, outages : Nat, restarts : Nat],
           spent'.restarts = spent.restarts
    PROVE  TablesOK' /\ RowsTellHanded' /\ NothingForgotten'
  BY IntakeParts DEF TablesOK, RowsTellHanded, NothingForgotten, Alerts, Handed

LEMMA IngestDuplicateKeeps ==
    ASSUME IntakeInvariant, NEW kind \in AlertKinds, IngestDuplicate(kind)
    PROVE  IntakeInvariant'
<1> DEFINE Merged(a) == [alert[a] EXCEPT !.count = @ + 1,
                             !.severity = IF kind.severity > @ THEN kind.severity ELSE @,
                             !.entities = @ \cup kind.entities]
<1>0. TablesOK /\ RowsTellHanded /\ NothingForgotten /\ RiskOK
  BY IntakeParts
<1>1. PICK a \in Parent(kind.fp) : /\ alert' = [alert EXCEPT ![a] = Merged(a)]
                                  /\ queue' = Append(queue, a)
                                  /\ row' = RowAfter(a, row)
                                  /\ risk' = RiskAfter(Merged(a))
  BY DEF IngestDuplicate
<1>2. a \in 1..Len(alert) /\ alert \in Seq(AlertObject) /\ Len(alert) \in Nat
  BY <1>0 DEF Parent, TablesOK, Alerts
<1>3. Merged(a) \in AlertObject /\ Merged(a).life = alert[a].life
  <2>1. alert[a] \in AlertObject
    BY <1>2
  <2>2. kind.severity \in 1..5 /\ kind.entities \subseteq UNION {k.entities : k \in AlertKinds}
    BY IntakeAssumption
  <2>3. /\ alert[a].severity \in 1..5 /\ alert[a].count + 1 \in Nat \ {0}
        /\ alert[a].entities \subseteq UNION {k.entities : k \in AlertKinds}
    BY <2>1 DEF AlertObject
  <2> DEFINE severity == IF kind.severity > alert[a].severity THEN kind.severity
                         ELSE alert[a].severity
             entities == alert[a].entities \cup kind.entities
             count == alert[a].count + 1
  <2>4. /\ severity \in 1..5 /\ count \in Nat \ {0}
        /\ entities \in SUBSET UNION {k.entities : k \in AlertKinds}
    BY <2>2, <2>3
  <2>5. Merged(a) = [alert[a] EXCEPT !.count = count, !.severity = severity,
                                     !.entities = entities]
    OBVIOUS
  <2> HIDE DEF severity, entities, count, Merged
  <2> QED
    BY <2>1, <2>4, <2>5 DEF AlertObject
<1> HIDE DEF Merged
<1>4. /\ alert' \in Seq(AlertObject) /\ Len(alert') = Len(alert)
      /\ \A b \in 1..Len(alert) : alert'[b].life = alert[b].life
  BY <1>1, <1>2, <1>3
<1>5. /\ row' \in Seq(Status) /\ Len(row') = Len(alert)
      /\ \A b \in 1..Len(alert) :
            row'[b] = row[b] \/ (row[b] = "absent" /\ row'[b] = Pending)
  BY <1>0, <1>1, <1>2, RowInserted DEF TablesOK
<1>6. /\ queue' \in Seq(1..Len(alert))
      /\ \A b : (\E i \in DOMAIN queue : queue[i] = b) => \E i \in DOMAIN queue' : queue'[i] = b
  <2>1. queue \in Seq(1..Len(alert))
    BY <1>0, <1>2 DEF TablesOK, Alerts
  <2> QED
    BY <1>1, <1>2, <2>1, QueueGrows
<1>7. /\ handed' = handed /\ known' = known /\ up' = up /\ tick' = tick
      /\ spent' = [spent EXCEPT !.ingests = @ + 1]
  BY DEF IngestDuplicate
<1>8. spent' \in [ingests : Nat, outages : Nat, restarts : Nat] /\ spent'.restarts = spent.restarts
  BY <1>0, <1>7, IngestCounted
<1>9. TablesOK'
  BY <1>0, <1>4, <1>5, <1>6, <1>7, <1>8 DEF TablesOK, Alerts
<1>10. DOMAIN alert' = 1..Len(alert) /\ DOMAIN alert = 1..Len(alert)
  BY <1>2, <1>4
<1>11. RowsTellHanded'
  BY <1>0, <1>4, <1>5, <1>7, <1>8, <1>10 DEF RowsTellHanded, Alerts, Pending
<1>12. NothingForgotten'
  <2> SUFFICES ASSUME NEW b \in 1..Len(alert)
               PROVE  \/ Handed(b) \/ row'[b] = Pending
                      \/ \E i \in DOMAIN queue' : queue'[i] = b
                      \/ row'[b] = "absent" /\ alert'[b].life < spent'.restarts
    BY <1>7, <1>10 DEF NothingForgotten, Alerts, Handed
  <2> QED
    BY <1>0, <1>4, <1>5, <1>6, <1>8, <1>10 DEF NothingForgotten, Alerts
<1>13. RiskOK'
  BY <1>0, <1>1, RiskAfterKeeps
<1> QED
  BY <1>9, <1>11, <1>12, <1>13, IntakePartsNext

LEMMA IngestNewKeeps ==
    ASSUME IntakeInvariant, NEW kind \in AlertKinds, IngestNew(kind)
    PROVE  IntakeInvariant'
<1> DEFINE a == Len(alert) + 1
           new == [fp |-> kind.fp, severity |-> kind.severity, entities |-> kind.entities,
                   count |-> 1, born |-> tick, life |-> spent.restarts]
<1>0. TablesOK /\ RowsTellHanded /\ NothingForgotten /\ RiskOK
  BY IntakeParts
<1>1. /\ alert' = Append(alert, new) /\ known' = known \cup {a} /\ queue' = Append(queue, a)
      /\ row' = RowAfter(a, Append(row, "absent"))
      /\ handed' = Append(handed, [database |-> 0, memory |-> 0])
      /\ risk' = RiskAfter(new)
      /\ spent' = [spent EXCEPT !.ingests = @ + 1]
      /\ UNCHANGED <<store, up, tick, calls>>
  BY DEF IngestNew
<1>2. /\ alert \in Seq(AlertObject) /\ Len(alert) \in Nat /\ a \in 1..a
      /\ queue \in Seq(1..Len(alert)) /\ known \subseteq 1..Len(alert)
      /\ row \in Seq(Status) /\ Len(row) = Len(alert)
      /\ handed \in Seq(Channels) /\ Len(handed) = Len(alert)
      /\ spent \in [ingests : Nat, outages : Nat, restarts : Nat]
  BY <1>0 DEF TablesOK, Alerts
<1>3. new \in AlertObject /\ new.life = spent.restarts
  BY <1>0, <1>2, IntakeAssumption DEF AlertObject, TablesOK
<1> HIDE DEF new
<1>4. /\ alert' \in Seq(AlertObject) /\ Len(alert') = a /\ alert'[a] = new
      /\ \A b \in 1..Len(alert) : alert'[b] = alert[b]
  BY <1>1, <1>2, <1>3
<1>5. /\ row' \in Seq(Status) /\ Len(row') = a /\ row'[a] \in {"absent", Pending}
      /\ \A b \in 1..Len(alert) : row'[b] = row[b]
  <2>1. /\ Append(row, "absent") \in Seq(Status) /\ Len(Append(row, "absent")) = a
        /\ Append(row, "absent")[a] = "absent"
        /\ \A b \in 1..Len(alert) : Append(row, "absent")[b] = row[b] /\ b # a
    BY <1>2 DEF Status
  <2> DEFINE rows == Append(row, "absent")
  <2>2. 1..a = (1..Len(alert)) \cup {a}
    BY <1>2
  <2> HIDE DEF rows
  <2>3. rows \in Seq(Status) /\ Len(rows) = a /\ a \in 1..Len(rows)
    BY <1>2, <2>1 DEF rows
  <2>4. /\ row' \in Seq(Status) /\ Len(row') = a
        /\ \A b \in 1..a :
              row'[b] = rows[b] \/ (b = a /\ rows[b] = "absent" /\ row'[b] = Pending)
    <3>1. row' = RowAfter(a, rows)
      BY <1>1 DEF rows
    <3> HIDE DEF a
    <3>2. /\ row' \in Seq(Status) /\ Len(row') = Len(rows)
          /\ \A b \in 1..Len(rows) :
                row'[b] = rows[b] \/ (b = a /\ rows[b] = "absent" /\ row'[b] = Pending)
      BY <2>3, <3>1, RowInserted
    <3> QED
      BY <2>3, <3>2
  <2>5. rows[a] = "absent" /\ \A b \in 1..Len(alert) : rows[b] = row[b] /\ b # a
    BY <2>1 DEF rows
  <2> QED
    BY <2>2, <2>4, <2>5
<1>6. /\ queue' \in Seq(1..a) /\ \E i \in DOMAIN queue' : queue'[i] = a
      /\ \A b : (\E i \in DOMAIN queue : queue[i] = b) => \E i \in DOMAIN queue' : queue'[i] = b
  <2>1. queue \in Seq(1..a) /\ a \in Nat /\ a \in 1..a
    BY <1>2
  <2>2. queue' = Append(queue, a)
    BY <1>1
  <2> HIDE DEF a
  <2> QED
    BY <2>1, <2>2, QueueGrows
<1>7. /\ handed' \in Seq(Channels) /\ Len(handed') = a /\ handed'[a].database = 0
      /\ \A b \in 1..Len(alert) : handed'[b] = handed[b]
  BY <1>1, <1>2 DEF Channels
<1>8. spent' \in [ingests : Nat, outages : Nat, restarts : Nat] /\ spent'.restarts = spent.restarts
  BY <1>0, <1>1, IngestCounted
<1>9. DOMAIN alert' = 1..a /\ DOMAIN alert = 1..Len(alert) /\ known' \subseteq 1..a
  BY <1>1, <1>2, <1>4
<1>10. TablesOK'
  BY <1>0, <1>1, <1>4, <1>5, <1>6, <1>7, <1>8, <1>9 DEF TablesOK, Alerts
<1>11. RowsTellHanded'
  <2> SUFFICES ASSUME NEW b \in 1..a
               PROVE  /\ row'[b] = "in_progress" <=> handed'[b].database = 1
                      /\ alert'[b].life <= spent'.restarts
    BY <1>9 DEF RowsTellHanded, Alerts
  <2>1. CASE b = a
    BY <2>1, <1>2, <1>3, <1>4, <1>5, <1>7, <1>8 DEF Pending
  <2>2. CASE b \in 1..Len(alert)
    BY <2>2, <1>0, <1>4, <1>5, <1>7, <1>8, <1>9 DEF RowsTellHanded, Alerts
  <2> QED
    BY <1>2, <2>1, <2>2
<1>12. NothingForgotten'
  <2> SUFFICES ASSUME NEW b \in 1..a
               PROVE  \/ handed'[b].database + handed'[b].memory > 0 \/ row'[b] = Pending
                      \/ \E i \in DOMAIN queue' : queue'[i] = b
                      \/ row'[b] = "absent" /\ alert'[b].life < spent'.restarts
    BY <1>9 DEF NothingForgotten, Alerts, Handed
  <2>1. CASE b = a
    BY <2>1, <1>6
  <2>2. CASE b \in 1..Len(alert)
    BY <2>2, <1>0, <1>4, <1>5, <1>6, <1>7, <1>8, <1>9 DEF NothingForgotten, Alerts, Handed
  <2>3. b = a \/ b \in 1..Len(alert)
    BY <1>2
  <2> QED
    BY <2>1, <2>2, <2>3
<1>13. RiskOK'
  BY <1>0, <1>1, RiskAfterKeeps
<1> QED
  BY <1>10, <1>11, <1>12, <1>13, IntakePartsNext

\* What a step has to show when it neither adds an alert nor ends a life.
LEMMA TablesByAlert ==
    ASSUME IntakeInvariant, UNCHANGED <<up, tick, alert, known, risk, spent>>,
           queue' \in Seq(1..Len(alert)),
           row' \in Seq(Status), Len(row') = Len(alert),
           handed' \in Seq(Channels), Len(handed') = Len(alert),
           \A a \in 1..Len(alert) : row'[a] = "in_progress" <=> handed'[a].database = 1,
           \A a \in 1..Len(alert) :
               \/ handed'[a].database + handed'[a].memory > 0 \/ row'[a] = Pending
               \/ \E i \in DOMAIN queue' : queue'[i] = a
               \/ (row'[a] = "absent" /\ alert[a].life < spent.restarts)
    PROVE  IntakeInvariant'
<1>0. TablesOK /\ RowsTellHanded /\ RiskOK /\ DOMAIN alert = 1..Len(alert)
  BY IntakeParts DEF TablesOK
<1>1. TablesOK'
  BY <1>0 DEF TablesOK, Alerts
<1>2. RowsTellHanded'
  BY <1>0 DEF RowsTellHanded, Alerts
<1>3. NothingForgotten'
  BY <1>0 DEF NothingForgotten, Alerts, Handed
<1>4. RiskOK'
  BY <1>0, RiskStays
<1> QED
  BY <1>1, <1>2, <1>3, <1>4, IntakePartsNext

\* The rows that wait are handed out, and wait no longer.
LEMMA PendingFromDatabaseKeeps ==
    ASSUME IntakeInvariant, PendingFromDatabase
    PROVE  IntakeInvariant'
<1>0. TablesOK /\ RowsTellHanded /\ NothingForgotten
  BY IntakeParts
<1>1. /\ Alerts = 1..Len(alert) /\ Len(alert) \in Nat
      /\ queue \in Seq(1..Len(alert))
      /\ row \in Seq(Status) /\ Len(row) = Len(alert)
      /\ handed \in Seq(Channels) /\ Len(handed) = Len(alert)
  BY <1>0 DEF TablesOK, Alerts
<1>2. /\ UNCHANGED <<up, tick, alert, known, queue, risk, spent>>
      /\ row' = [a \in 1..Len(alert) |-> IF row[a] = Pending THEN "in_progress" ELSE row[a]]
      /\ handed' = [a \in 1..Len(alert) |-> IF row[a] = Pending
                       THEN [handed[a] EXCEPT !.database = @ + 1] ELSE handed[a]]
  BY <1>1 DEF PendingFromDatabase, QueueAfterDatabase, RowsAfterDatabase, Waiting
<1>3. ASSUME NEW a \in 1..Len(alert)
      PROVE  /\ row[a] \in Status /\ handed[a] \in Channels
             /\ row[a] = "in_progress" <=> handed[a].database = 1
             /\ row[a] = Pending =>
                   /\ row'[a] = "in_progress"
                   /\ handed'[a] \in Channels /\ handed'[a].database = 1
                   /\ handed'[a].memory = handed[a].memory
             /\ row[a] # Pending => row'[a] = row[a] /\ handed'[a] = handed[a]
  <2>1. row[a] \in Status /\ handed[a] \in Channels
    BY <1>1
  <2>2. row[a] = "in_progress" <=> handed[a].database = 1
    BY <1>0, <1>1 DEF RowsTellHanded
  <2>3. ASSUME row[a] = Pending
        PROVE  /\ row'[a] = "in_progress"
               /\ handed'[a] \in Channels /\ handed'[a].database = 1
               /\ handed'[a].memory = handed[a].memory
    <3>1. handed[a].database = 0 /\ handed[a].database + 1 = 1
      BY <2>1, <2>2, <2>3 DEF Pending, Channels
    <3>2. handed'[a] = [handed[a] EXCEPT !.database = 1]
      BY <1>2, <2>3, <3>1
    <3> QED
      BY <1>2, <2>1, <2>3, <3>2 DEF Channels
  <2> QED
    BY <1>2, <2>1, <2>2, <2>3
<1>4. row' \in Seq(Status) /\ Len(row') = Len(alert)
  <2>1. row' \in [1..Len(alert) -> Status]
    BY <1>2, <1>3 DEF Status
  <2> QED
    BY <1>1, <2>1
<1>5. handed' \in Seq(Channels) /\ Len(handed') = Len(alert)
  <2>1. handed' \in [1..Len(alert) -> Channels]
    <3>1. \A a \in 1..Len(alert) : handed'[a] \in Channels
      BY <1>3
    <3>2. handed' = [a \in 1..Len(alert) |-> handed'[a]]
      BY <1>2
    <3> QED
      BY <3>1, <3>2
  <2> QED
    BY <1>1, <2>1
<1>6. \A a \in 1..Len(alert) : row'[a] = "in_progress" <=> handed'[a].database = 1
  BY <1>3
<1>7. ASSUME NEW a \in 1..Len(alert)
      PROVE  \/ handed'[a].database + handed'[a].memory > 0 \/ row'[a] = Pending
             \/ \E i \in DOMAIN queue' : queue'[i] = a
             \/ (row'[a] = "absent" /\ alert[a].life < spent.restarts)
  <2>1. CASE row[a] = Pending
    <3>1. handed'[a].database = 1 /\ handed'[a].memory \in Nat
      BY <2>1, <1>3 DEF Channels
    <3> QED
      BY <3>1
  <2>2. CASE row[a] # Pending
    BY <2>2, <1>0, <1>1, <1>2, <1>3 DEF NothingForgotten, Handed
  <2> QED
    BY <2>1, <2>2
<1> QED
  BY <1>1, <1>2, <1>4, <1>5, <1>6, <1>7, TablesByAlert

\* The queue is emptied into the caller's hands.
LEMMA PendingFromMemoryKeeps ==
    ASSUME IntakeInvariant, PendingFromMemory
    PROVE  IntakeInvariant'
<1> DEFINE Queued(a) == \E i \in DOMAIN queue : queue[i] = a
<1>0. TablesOK /\ RowsTellHanded /\ NothingForgotten
  BY IntakeParts
<1>1. /\ Alerts = 1..Len(alert) /\ Len(alert) \in Nat
      /\ row \in Seq(Status) /\ Len(row) = Len(alert)
      /\ handed \in Seq(Channels) /\ Len(handed) = Len(alert)
  BY <1>0 DEF TablesOK, Alerts
<1>2. /\ UNCHANGED <<up, tick, alert, known, row, risk, spent>> /\ queue' = <<>>
      /\ handed' = [a \in 1..Len(alert) |-> IF Queued(a)
                       THEN [handed[a] EXCEPT !.memory = 1] ELSE handed[a]]
  BY <1>1 DEF PendingFromMemory
<1>3. ASSUME NEW a \in 1..Len(alert)
      PROVE  /\ handed[a] \in Channels /\ handed'[a] \in Channels
             /\ handed'[a].database = handed[a].database
             /\ Queued(a) => handed'[a].memory = 1
             /\ ~Queued(a) => handed'[a] = handed[a]
  <2>1. handed[a] \in Channels
    BY <1>1
  <2> HIDE DEF Queued
  <2>2. handed'[a] = IF Queued(a) THEN [handed[a] EXCEPT !.memory = 1] ELSE handed[a]
    BY <1>2
  <2> QED
    BY <2>1, <2>2 DEF Channels
<1>4. handed' \in Seq(Channels) /\ Len(handed') = Len(alert)
  <2>1. handed' \in [1..Len(alert) -> Channels]
    <3>1. \A a \in 1..Len(alert) : handed'[a] \in Channels
      BY <1>3
    <3>2. handed' = [a \in 1..Len(alert) |-> handed'[a]]
      BY <1>2
    <3> QED
      BY <3>1, <3>2
  <2> QED
    BY <1>1, <2>1
<1>5. \A a \in 1..Len(alert) : row'[a] = "in_progress" <=> handed'[a].database = 1
  BY <1>0, <1>1, <1>2, <1>3 DEF RowsTellHanded
<1>6. ASSUME NEW a \in 1..Len(alert)
      PROVE  \/ handed'[a].database + handed'[a].memory > 0 \/ row'[a] = Pending
             \/ \E i \in DOMAIN queue' : queue'[i] = a
             \/ (row'[a] = "absent" /\ alert[a].life < spent.restarts)
  <2>1. CASE Queued(a)
    <3>1. handed'[a].memory = 1 /\ handed'[a].database \in Nat
      BY <2>1, <1>3 DEF Channels
    <3> QED
      BY <3>1
  <2>2. CASE ~Queued(a)
    <3>1. handed'[a] = handed[a]
      BY <2>2, <1>3
    <3> QED
      BY <2>2, <3>1, <1>0, <1>1, <1>2 DEF NothingForgotten, Handed
  <2> QED
    BY <2>1, <2>2
<1>7. queue' \in Seq(1..Len(alert))
  BY <1>2
<1> QED
  BY <1>1, <1>2, <1>4, <1>5, <1>6, <1>7, TablesByAlert

\* A restart takes the queue; what only the queue held is of an ended life.
LEMMA IntakeRestartKeeps ==
    ASSUME IntakeInvariant, IntakeRestart
    PROVE  IntakeInvariant'
<1>0. TablesOK /\ RowsTellHanded /\ NothingForgotten
  BY IntakeParts
<1>1. /\ UNCHANGED <<up, tick, alert, row, handed>> /\ known' = {} /\ queue' = <<>>
      /\ risk' = [e \in RiskEntities |-> NoRisk]
      /\ spent' = [spent EXCEPT !.restarts = @ + 1]
  BY DEF IntakeRestart
<1>2. /\ spent.restarts \in Nat /\ spent'.restarts = spent.restarts + 1
      /\ spent' \in [ingests : Nat, outages : Nat, restarts : Nat]
  <2>1. spent \in [ingests : Nat, outages : Nat, restarts : Nat]
    BY <1>0 DEF TablesOK
  <2>2. spent.restarts \in Nat /\ spent.restarts + 1 \in Nat
    BY <2>1
  <2> QED
    BY <1>1, <2>1, <2>2
<1>3. TablesOK'
  BY <1>0, <1>1, <1>2 DEF TablesOK, Alerts
<1>4. ASSUME NEW a \in 1..Len(alert)
      PROVE  /\ row[a] = "in_progress" <=> handed[a].database = 1
             /\ alert[a].life \in Nat /\ alert[a].life < spent'.restarts
             /\ row[a] \in Status /\ handed[a] \in Channels
  <2>1. alert[a] \in AlertObject /\ row[a] \in Status /\ handed[a] \in Channels
    BY <1>0 DEF TablesOK
  <2>2. alert[a].life <= spent.restarts /\ (row[a] = "in_progress" <=> handed[a].database = 1)
    BY <1>0 DEF RowsTellHanded, TablesOK, Alerts
  <2>3. alert[a].life \in Nat
    BY <2>1 DEF AlertObject
  <2> QED
    BY <1>2, <2>1, <2>2, <2>3
<1>5. DOMAIN alert = 1..Len(alert)
  BY <1>0 DEF TablesOK
<1>6. RowsTellHanded'
  <2>1. \A a \in 1..Len(alert) : alert[a].life <= spent'.restarts
    BY <1>2, <1>4
  <2> QED
    BY <1>1, <1>4, <1>5, <2>1 DEF RowsTellHanded, Alerts
<1>7. NothingForgotten'
  <2> SUFFICES ASSUME NEW a \in 1..Len(alert)
               PROVE  \/ handed[a].database + handed[a].memory > 0 \/ row[a] = Pending
                      \/ (row[a] = "absent" /\ alert[a].life < spent'.restarts)
    BY <1>1, <1>5 DEF NothingForgotten, Alerts, Handed
  <2>1. CASE row[a] = "in_progress"
    <3>1. handed[a].database = 1 /\ handed[a].memory \in Nat
      BY <2>1, <1>4 DEF Channels
    <3> QED
      BY <3>1
  <2> QED
    BY <2>1, <1>4 DEF Status
<1>8. RiskOK'
  BY <1>1, NoRiskAnnounced, RiskNextIs
<1> QED
  BY <1>3, <1>6, <1>7, <1>8, IntakePartsNext

LEMMA ResetRiskKeeps ==
    ASSUME IntakeInvariant, NEW e \in RiskEntities, ResetRisk(e)
    PROVE  IntakeInvariant'
<1>0. TablesOK /\ RiskOK
  BY IntakeParts
<1>1. risk' = [risk EXCEPT ![e] = NoRisk]
      /\ UNCHANGED <<up, tick, alert, known, queue, row, handed, spent>>
  BY DEF ResetRisk
<1>2. RiskOK'
  <2>1. risk' = [d \in RiskEntities |-> IF d = e THEN NoRisk ELSE risk[d]]
    BY <1>0, <1>1 DEF RiskOK
  <2>2. \A d \in RiskEntities : Announced(risk'[d])
    BY <1>0, <2>1, NoRiskAnnounced, RiskIs
  <2> QED
    BY <2>1, <2>2, RiskNextIs
<1>3. TablesOK' /\ RowsTellHanded' /\ NothingForgotten'
  BY <1>0, <1>1, TablesStay DEF TablesOK
<1> QED
  BY <1>2, <1>3, IntakePartsNext

LEMMA FaultsKeep ==
    ASSUME IntakeInvariant, CleanupExpired \/ HalfLife \/ DatabaseFails \/ DatabaseReturns
    PROVE  IntakeInvariant'
<1>0. TablesOK /\ RiskOK
  BY IntakeParts
<1>1. RiskOK'
  BY <1>0, RiskStays DEF CleanupExpired, HalfLife, DatabaseFails, DatabaseReturns
<1>2. CASE CleanupExpired
  BY <1>0, <1>1, <1>2, TablesStay, IntakePartsNext DEF CleanupExpired, TablesOK
<1>3. CASE HalfLife
  <2>1. tick' \in 0..LastTick
    BY <1>0, <1>3, IntakeAssumption DEF HalfLife, TablesOK
  <2> QED
    BY <1>0, <1>1, <1>3, <2>1, TablesStay, IntakePartsNext DEF HalfLife, TablesOK
<1>4. CASE DatabaseFails
  <2>1. spent \in [ingests : Nat, outages : Nat, restarts : Nat]
    BY <1>0 DEF TablesOK
  <2>2. spent.outages + 1 \in Nat
    BY <2>1
  <2>3. /\ spent' \in [ingests : Nat, outages : Nat, restarts : Nat]
        /\ spent'.restarts = spent.restarts
    BY <1>4, <2>1, <2>2 DEF DatabaseFails
  <2> QED
    BY <1>0, <1>1, <1>4, <2>3, TablesStay, IntakePartsNext DEF DatabaseFails, TablesOK
<1>5. CASE DatabaseReturns
  BY <1>0, <1>1, <1>5, TablesStay, IntakePartsNext DEF DatabaseReturns, TablesOK
<1> QED
  BY <1>2, <1>3, <1>4, <1>5

LEMMA IntakeNextInductive == IntakeInvariant /\ [IntakeNext]_intakeVars => IntakeInvariant'
<1> SUFFICES ASSUME IntakeInvariant, [IntakeNext]_intakeVars PROVE IntakeInvariant'
  OBVIOUS
<1>1. CASE UNCHANGED intakeVars
  <2>1. TablesOK /\ RiskOK
    BY IntakeParts
  <2>2. RiskOK'
    BY <1>1, <2>1, RiskStays DEF intakeVars
  <2>3. TablesOK' /\ RowsTellHanded' /\ NothingForgotten'
    BY <1>1, <2>1, TablesStay DEF intakeVars, TablesOK
  <2> QED
    BY <2>2, <2>3, IntakePartsNext
<1>2. CASE IntakeNext
  BY <1>2, IngestNewKeeps, IngestDuplicateKeeps, PendingFromDatabaseKeeps,
     PendingFromMemoryKeeps, IntakeRestartKeeps, ResetRiskKeeps, FaultsKeep DEF IntakeNext
<1> QED
  BY <1>1, <1>2

\* The queue, the rows and what was handed out agree, and every promotion was
\* announced, at every moment.
THEOREM IntakeInvariantHolds == IntakeSpec => []IntakeInvariant
  BY IntakeInitInductive, IntakeNextInductive, PTL DEF IntakeSpec

\* AlertsAccounted, for every set of kinds of alerts and every number of
\* outages and restarts: nothing accepted is forgotten but what only a lost
\* queue held, and the table hands an alert out once.
THEOREM AccountedTheorem == IntakeSpec => []AlertsAccounted
<1>1. ASSUME IntakeInvariant PROVE DatabaseHandsOnce
  <2> SUFFICES ASSUME NEW a \in Alerts PROVE handed[a].database <= 1
    BY DEF DatabaseHandsOnce
  <2>1. handed[a] \in Channels
    BY <1>1, IntakeParts DEF TablesOK, Alerts
  <2>2. handed[a].database \in 0..1
    BY <2>1 DEF Channels
  <2> QED
    BY <2>2
<1>2. IntakeInvariant => AlertsAccounted
  BY <1>1 DEF IntakeInvariant, AlertsAccounted
<1> QED
  BY <1>2, IntakeInvariantHolds, PTL

\* PromotedOnce, for all entities and scores: an entity over the threshold is
\* promoted, and its promotion was announced once.
THEOREM PromotedTheorem == IntakeSpec => []PromotedOnce
<1>1. IntakeInvariant => PromotedOnce
  BY DEF IntakeInvariant
<1> QED
  BY <1>1, IntakeInvariantHolds, PTL

-----------------------------------------------------------------------------
(* A round of the evidence agent *)

\* A set of natural numbers has a least one.
LEMMA NatMin ==
    ASSUME NEW S \in SUBSET Nat, S # {}
    PROVE  Min(S) \in S /\ \A y \in S : Min(S) <= y
<1> DEFINE R == OpToRel(<, Nat)
<1>1. IsWellFoundedOn(R, Nat)
  BY NatLessThanWellFounded
<1>2. \A x, y \in Nat : <<y, x>> \in R <=> y < x
  BY Zenon DEF OpToRel
<1> HIDE DEF R
<1>3. PICK x \in S : \A y \in S : ~(<<y, x>> \in R)
  BY <1>1, WFMin
<1>4. ASSUME NEW y \in S PROVE x <= y
  <2>1. x \in Nat /\ y \in Nat
    OBVIOUS
  <2>2. ~(y < x)
    BY <1>2, <1>3, <2>1
  <2> QED
    BY <2>1, <2>2
<1> QED
  BY <1>4 DEF Min

LEMMA WithNodeRaises ==
    ASSUME NEW g, NEW e, NEW r \in Nat, g \in [DOMAIN g -> Nat]
    PROVE  /\ WithNode(g, e, r) \in [DOMAIN g \cup {e} -> Nat]
           /\ \A k \in DOMAIN g : WithNode(g, e, r)[k] >= g[k]
           /\ \A k \in DOMAIN g : k # e => WithNode(g, e, r)[k] = g[k]
           /\ WithNode(g, e, r)[e] >= r
           /\ \/ WithNode(g, e, r)[e] = r
              \/ e \in DOMAIN g /\ WithNode(g, e, r)[e] = g[e]
<1> DEFINE w == WithNode(g, e, r)
<1>1. \A k \in DOMAIN g : g[k] \in Nat
  OBVIOUS
<1>2. w = [k \in DOMAIN g \cup {e} |-> IF k # e THEN g[k]
                                       ELSE IF e \in DOMAIN g THEN Raised(g[e], r)
                                       ELSE r]
  BY DEF WithNode
<1> HIDE DEF w
<1>3. \A k \in DOMAIN g \cup {e} : k # e => k \in DOMAIN g /\ w[k] = g[k]
  BY <1>2
<1>4. w[e] = IF e \in DOMAIN g THEN Raised(g[e], r) ELSE r
  BY <1>2
<1>5. /\ w[e] \in Nat /\ w[e] >= r
      /\ e \in DOMAIN g => w[e] >= g[e]
      /\ w[e] = r \/ (e \in DOMAIN g /\ w[e] = g[e])
  BY <1>1, <1>4 DEF Raised
<1>6. w \in [DOMAIN g \cup {e} -> Nat]
  <2>1. \A k \in DOMAIN g \cup {e} : w[k] \in Nat
    BY <1>1, <1>3, <1>5
  <2> QED
    BY <1>2, <2>1
<1>7. \A k \in DOMAIN g : w[k] >= g[k]
  BY <1>1, <1>3, <1>5
<1> QED
  BY <1>3, <1>5, <1>6, <1>7 DEF w

LEMMA EvidenceTyped ==
    ASSUME EvidenceInvariant
    PROVE  /\ Len(targets) \in Nat /\ DOMAIN targets = 1..Len(targets)
           /\ \A i \in DOMAIN targets : targets[i] \in EvidenceEntity
           /\ \A i \in DOMAIN targets : noderisk[i] \in Nat /\ task[i] \in TaskStates
           /\ DOMAIN task = DOMAIN targets /\ evRound \in Nat /\ RoundsEnded \in Int
           /\ \A h \in heard : h \in HeardAnswer /\ h.risk \in Nat /\ h.round \in Nat
           /\ \A e \in DOMAIN graph : graph[e] \in Nat
           /\ \A e \in DOMAIN fed : fed[e] \in Nat
<1>1. EvidenceTypeOK
  BY DEF EvidenceInvariant
<1>2. Len(targets) \in Nat /\ DOMAIN targets = 1..Len(targets)
      /\ \A i \in DOMAIN targets : targets[i] \in EvidenceEntity
  BY <1>1 DEF EvidenceTypeOK
<1>3. /\ \A i \in DOMAIN targets : noderisk[i] \in Nat /\ task[i] \in TaskStates
      /\ DOMAIN task = DOMAIN targets /\ evRound \in Nat
  BY <1>1 DEF EvidenceTypeOK
<1>4. \A h \in heard : h \in HeardAnswer /\ h.risk \in Nat /\ h.round \in Nat
  BY <1>1 DEF EvidenceTypeOK, HeardAnswer
<1>5. /\ \A e \in DOMAIN graph : graph[e] \in Nat
      /\ \A e \in DOMAIN fed : fed[e] \in Nat
  BY <1>1 DEF EvidenceTypeOK
<1>6. RoundsEnded \in Int
  BY <1>3 DEF RoundsEnded
<1> QED
  BY <1>2, <1>3, <1>4, <1>5, <1>6

LEMMA RunningFinite ==
    ASSUME EvidenceInvariant
    PROVE  \A state : IsFiniteSet(In(state)) /\ In(state) \subseteq DOMAIN targets
<1> SUFFICES ASSUME NEW state PROVE IsFiniteSet(In(state)) /\ In(state) \subseteq DOMAIN targets
  OBVIOUS
<1>1. DOMAIN targets = 1..Len(targets) /\ Len(targets) \in Nat /\ DOMAIN task = DOMAIN targets
  BY EvidenceTyped
<1>2. In(state) \in SUBSET (1..Len(targets))
  BY <1>1 DEF In
<1>3. IsFiniteSet(1..Len(targets))
  BY <1>1, FS_Interval
<1> QED
  BY <1>1, <1>2, <1>3, FS_Subset

\* Of the nodes the merge takes there is one of an entity at most, so its
\* order is nothing and each risk counts.
LEMMA MergeCounts ==
    ASSUME EvidenceInvariant
    PROVE  /\ MergedNodes(graph) \in [DOMAIN graph \cup {targets[i] :
                                   i \in {j \in DOMAIN targets : Registered(j)}} -> Nat]
           /\ \A e \in DOMAIN graph : MergedNodes(graph)[e] >= graph[e]
           /\ \A i \in DOMAIN targets :
                 Registered(i) => MergedNodes(graph)[targets[i]] >= noderisk[i]
           /\ \A e \in DOMAIN MergedNodes(graph) :
                 \/ e \in DOMAIN graph /\ MergedNodes(graph)[e] = graph[e]
                 \/ \E i \in DOMAIN targets : /\ targets[i] = e
                                              /\ MergedNodes(graph)[e] = noderisk[i]
<1> DEFINE m == MergedNodes(graph)
           dom == DOMAIN graph \cup {targets[i] : i \in {j \in DOMAIN targets : Registered(j)}}
<1>1. /\ DOMAIN targets = 1..Len(targets) /\ Len(targets) \in Nat
      /\ graph \in [DOMAIN graph -> Nat]
      /\ \A i \in DOMAIN targets : noderisk[i] \in Nat
      /\ \A e \in DOMAIN graph : graph[e] \in Nat
  BY EvidenceTyped DEF EvidenceInvariant, EvidenceTypeOK
<1>2. DOMAIN m = dom /\ \A e \in dom :
          m[e] = IF NodeOf(e) = {} THEN graph[e]
                 ELSE WithNode(graph, e, noderisk[Min(NodeOf(e))])[e]
  BY DEF MergedNodes
<1>3. m = [e \in dom |-> m[e]]
  BY <1>2 DEF MergedNodes
<1>4. ASSUME NEW i \in DOMAIN targets, Registered(i)
      PROVE  Min(NodeOf(targets[i])) = i /\ NodeOf(targets[i]) # {}
  <2>1. i \in NodeOf(targets[i])
    BY <1>4 DEF NodeOf
  <2>2. ASSUME NEW j \in NodeOf(targets[i]) PROVE j = i
    <3>1. Registered(j) /\ targets[j] = targets[i] /\ j \in EvidenceNodes /\ i \in EvidenceNodes
      BY <1>4 DEF NodeOf, Registered
    <3>2. i <= j /\ j <= i
      BY <1>4, <3>1 DEF Registered
    <3> QED
      BY <1>1, <3>2 DEF EvidenceNodes, NodeOf
  <2>3. NodeOf(targets[i]) \in SUBSET Nat
    BY <1>1 DEF NodeOf
  <2> QED
    BY <2>1, <2>2, <2>3, NatMin
<1>5. \A e \in dom : NodeOf(e) # {} =>
          \E i \in DOMAIN targets : Registered(i) /\ targets[i] = e
  BY DEF NodeOf
<1>6. \A e \in dom : NodeOf(e) = {} => e \in DOMAIN graph
  BY DEF NodeOf
<1> HIDE DEF m, dom
<1>7. ASSUME NEW i \in DOMAIN targets, Registered(i), targets[i] \in dom
      PROVE  /\ m[targets[i]] \in Nat /\ m[targets[i]] >= noderisk[i]
             /\ targets[i] \in DOMAIN graph => m[targets[i]] >= graph[targets[i]]
             /\ \/ m[targets[i]] = noderisk[i]
                \/ targets[i] \in DOMAIN graph /\ m[targets[i]] = graph[targets[i]]
  <2> DEFINE e == targets[i]
             r == noderisk[i]
  <2>1. m[e] = WithNode(graph, e, r)[e]
    BY <1>2, <1>4, <1>7
  <2>2. r \in Nat
    BY <1>1
  <2> HIDE DEF e, r
  <2>3. /\ WithNode(graph, e, r) \in [DOMAIN graph \cup {e} -> Nat]
        /\ \A k \in DOMAIN graph : WithNode(graph, e, r)[k] >= graph[k]
        /\ WithNode(graph, e, r)[e] >= r
        /\ \/ WithNode(graph, e, r)[e] = r
           \/ e \in DOMAIN graph /\ WithNode(graph, e, r)[e] = graph[e]
    BY <1>1, <2>2, WithNodeRaises
  <2>4. /\ m[e] \in Nat /\ m[e] >= r /\ (e \in DOMAIN graph => m[e] >= graph[e])
        /\ m[e] = r \/ (e \in DOMAIN graph /\ m[e] = graph[e])
    BY <2>1, <2>3
  <2> QED
    BY <2>4 DEF e, r
<1>8. \A i \in DOMAIN targets : Registered(i) => targets[i] \in dom
  BY DEF dom
<1>9. ASSUME NEW e \in dom
      PROVE  /\ m[e] \in Nat
             /\ e \in DOMAIN graph => m[e] >= graph[e]
             /\ \/ e \in DOMAIN graph /\ m[e] = graph[e]
                \/ \E i \in DOMAIN targets : targets[i] = e /\ m[e] = noderisk[i]
  <2>1. CASE NodeOf(e) = {}
    BY <1>1, <1>2, <1>6, <2>1
  <2>2. CASE NodeOf(e) # {}
    BY <1>5, <1>7, <2>2
  <2> QED
    BY <2>1, <2>2
<1>10. m \in [dom -> Nat]
  BY <1>3, <1>9
<1>11. /\ \A e \in DOMAIN graph : m[e] >= graph[e]
       /\ \A i \in DOMAIN targets : Registered(i) => m[targets[i]] >= noderisk[i]
       /\ \A e \in DOMAIN m : \/ e \in DOMAIN graph /\ m[e] = graph[e]
                              \/ \E i \in DOMAIN targets : targets[i] = e /\ m[e] = noderisk[i]
  <2>1. DOMAIN graph \subseteq dom
    BY DEF dom
  <2> QED
    BY <1>2, <1>7, <1>8, <1>9, <2>1
<1> QED
  BY <1>10, <1>11 DEF m, dom

LEMMA EvidenceStarts == EvidenceInit => EvidenceInvariant
<1> SUFFICES ASSUME EvidenceInit PROVE EvidenceInvariant
  OBVIOUS
<1>1. /\ targets = <<>> /\ task = <<>> /\ noderisk = <<>> /\ graph = <<>> /\ fed = <<>>
      /\ DOMAIN targets = {} /\ DOMAIN task = {} /\ DOMAIN graph = {} /\ DOMAIN fed = {}
      /\ skilled = 0 /\ Len(targets) = 0 /\ heard = {} /\ links = {}
      /\ gathering = "idle" /\ evRound = 0
  BY DEF EvidenceInit
<1>2. EvidenceTypeOK
  <2>1. seeds \in Seq(EvidenceEntity)
    BY EvidenceAssumption DEF EvidenceInit
  <2>2. targets \in Seq(EvidenceEntity)
    BY <1>1
  <2>3. /\ task \in [DOMAIN targets -> TaskStates] /\ noderisk \in [DOMAIN targets -> Nat]
        /\ graph \in [DOMAIN graph -> Nat] /\ fed \in [DOMAIN fed -> Nat]
    BY <1>1
  <2> QED
    BY <1>1, <2>1, <2>2, <2>3 DEF EvidenceTypeOK
<1>3. In("running") = {}
  BY <1>1 DEF In
<1>4. Cardinality(In("running")) <= MaxParallelTasks
  <2>1. Cardinality(In("running")) = 0
    BY <1>3, FS_EmptySet
  <2> QED
    BY <2>1, EvidenceAssumption
<1>5. TasksCollect /\ RisksHeard /\ HeardCounts /\ FedEachRound
  BY <1>1 DEF TasksCollect, RisksHeard, HeardCounts, FedEachRound
<1> QED
  BY <1>2, <1>4, <1>5 DEF EvidenceInvariant

LEMMA StartRoundKeeps ==
    ASSUME EvidenceInvariant, NEW requested \in Seq(EvidenceRequests), StartRound(requested)
    PROVE  EvidenceInvariant'
<1>1. /\ gathering = "idle" /\ gathering' = "collect" /\ evRound' = evRound + 1
      /\ targets' = AllEntities(requested) /\ skilled' = 0
      /\ task' = [i \in DOMAIN targets' |->
                     IF targets'[i].type \in CollectorTypes THEN "waiting" ELSE "none"]
      /\ noderisk' = [i \in DOMAIN targets' |-> 0]
      /\ UNCHANGED <<seeds, graph, links, fed, heard>>
  BY DEF StartRound
<1>2. targets' \in Seq(EvidenceEntity)
  <2>1. seeds \in Seq(EvidenceEntity) /\ requested \in Seq(EvidenceEntity)
    BY EvidenceAssumption DEF EvidenceInvariant, EvidenceTypeOK
  <2> QED
    BY <1>1, <2>1 DEF AllEntities
<1>3. evRound \in Nat /\ RoundsEnded' = RoundsEnded /\ RoundsEnded = evRound
  BY <1>1, EvidenceTyped DEF RoundsEnded
<1>4. EvidenceTypeOK'
  <2>1. task' \in [DOMAIN targets' -> TaskStates] /\ noderisk' \in [DOMAIN targets' -> Nat]
    BY <1>1 DEF TaskStates
  <2>2. Len(targets') \in Nat
    BY <1>2
  <2> QED
    BY <1>1, <1>2, <1>3, <2>1, <2>2 DEF EvidenceInvariant, EvidenceTypeOK
<1>5. (Cardinality(In("running")) <= MaxParallelTasks)'
  <2>1. In("running")' = {}
    BY <1>1 DEF In
  <2>2. Cardinality(In("running")') = 0
    BY <2>1, FS_EmptySet, Zenon
  <2> QED
    BY <2>2, EvidenceAssumption
<1>6. RisksHeard'
  BY <1>1 DEF EvidenceInvariant, RisksHeard
<1>7. HeardCounts'
  <2> SUFFICES ASSUME NEW h \in heard
      PROVE  /\ h.round \in 1..(evRound + 1)
             /\ h.entity \in DOMAIN graph /\ (h.first => graph[h.entity] >= h.risk)
    BY <1>1 DEF HeardCounts
  <2>1. h.round \in 1..evRound
        /\ h.entity \in DOMAIN graph /\ (h.first => graph[h.entity] >= h.risk)
    BY <1>1 DEF EvidenceInvariant, HeardCounts
  <2> QED
    BY <1>3, <2>1
<1>8. FedEachRound'
  BY <1>1, <1>3 DEF EvidenceInvariant, FedEachRound
<1>9. TasksCollect'
  BY <1>1 DEF TasksCollect
<1> QED
  BY <1>4, <1>5, <1>6, <1>7, <1>8, <1>9 DEF EvidenceInvariant

\* A task moves to another state, and perhaps its answer is heard.
LEMMA TaskMoves ==
    ASSUME EvidenceInvariant, gathering = "collect", NEW i \in DOMAIN targets,
           task[i] \in {"waiting", "running"}, NEW state \in TaskStates, NEW r \in Nat,
           task' = [task EXCEPT ![i] = state], noderisk' = [noderisk EXCEPT ![i] = r],
           Cardinality(In("running")') <= MaxParallelTasks,
           UNCHANGED <<seeds, targets, skilled, graph, links, fed, gathering, evRound>>,
           heard \subseteq heard', heard' \subseteq HeardAnswer,
           \A h \in heard' : h \in heard \/ ( /\ h.entity = targets[i] /\ h.round = evRound
                                              /\ h.risk = r /\ state = "collected"
                                              /\ h.first => Registered(i) ),
           r = noderisk[i] \/ \E h \in heard' : h.entity = targets[i] /\ h.risk = r
    PROVE  EvidenceInvariant'
<1>1. /\ evRound \in Nat /\ evRound > 0 /\ RoundsEnded = evRound - 1
      /\ RoundsEnded' = RoundsEnded
  BY DEF EvidenceInvariant, EvidenceTypeOK, RoundsEnded
<1>2. /\ task' \in [DOMAIN targets -> TaskStates] /\ noderisk' \in [DOMAIN targets -> Nat]
      /\ task'[i] = state /\ noderisk'[i] = r
      /\ \A k \in DOMAIN targets : k # i => task'[k] = task[k] /\ noderisk'[k] = noderisk[k]
  BY DEF EvidenceInvariant, EvidenceTypeOK
<1>3. EvidenceTypeOK'
  BY <1>2 DEF EvidenceInvariant, EvidenceTypeOK
<1>4. RisksHeard'
  <2>1. ASSUME NEW k \in DOMAIN targets, noderisk'[k] # 0
        PROVE  \E h \in heard' : h.entity = targets[k] /\ h.risk = noderisk'[k]
    <3>1. noderisk[k] # 0 => \E h \in heard : h.entity = targets[k] /\ h.risk = noderisk[k]
      BY DEF EvidenceInvariant, RisksHeard
    <3> QED
      BY <1>2, <2>1, <3>1
  <2>2. \A e \in DOMAIN graph : \E h \in heard' : h.entity = e /\ h.risk = graph[e]
    BY DEF EvidenceInvariant, RisksHeard
  <2>3. /\ \A k \in 1..skilled : targets[k] \in DOMAIN graph
        /\ DOMAIN fed \subseteq DOMAIN graph
    BY DEF EvidenceInvariant, RisksHeard
  <2> QED
    BY <2>1, <2>2, <2>3 DEF RisksHeard
<1>5. HeardCounts'
  <2>1. \A k \in DOMAIN targets : Registered(k)' <=> Registered(k)
    BY DEF Registered, EvidenceNodes
  <2> SUFFICES ASSUME NEW h \in heard'
      PROVE  /\ h.round \in 1..evRound
             /\ \/ h.entity \in DOMAIN graph /\ (h.first => graph[h.entity] >= h.risk)
                \/ /\ h.round = evRound
                   /\ \E k \in DOMAIN targets :
                         /\ targets[k] = h.entity /\ task'[k] = "collected"
                         /\ h.first => Registered(k) /\ noderisk'[k] >= h.risk
    BY <2>1 DEF HeardCounts
  <2>2. CASE h \in heard
    <3>1. /\ h.round \in 1..evRound
          /\ \/ h.entity \in DOMAIN graph /\ (h.first => graph[h.entity] >= h.risk)
             \/ /\ h.round = evRound
                /\ \E k \in DOMAIN targets :
                      /\ targets[k] = h.entity /\ task[k] = "collected"
                      /\ h.first => Registered(k) /\ noderisk[k] >= h.risk
      BY <2>2 DEF EvidenceInvariant, HeardCounts
    <3> QED
      BY <1>2, <3>1
  <2>3. CASE h \notin heard
    <3>1. /\ h.entity = targets[i] /\ h.round = evRound /\ h.risk = r /\ state = "collected"
          /\ h.first => Registered(i)
      BY <2>3
    <3>2. task'[i] = "collected" /\ noderisk'[i] >= h.risk /\ h.round \in 1..evRound
      BY <1>1, <1>2, <3>1
    <3> QED
      BY <3>1, <3>2
  <2> QED
    BY <2>2, <2>3
<1>6. FedEachRound'
  <2>1. \A h \in heard' : h.round <= RoundsEnded => h \in heard
    BY <1>1
  <2>2. \A e \in DOMAIN fed :
            \E h \in heard : h.entity = e /\ fed[e] <= RoundsEnded - h.round + 1
    BY DEF EvidenceInvariant, FedEachRound
  <2>3. \A h \in heard : h.first /\ h.risk > 0 /\ h.round <= RoundsEnded =>
            h.entity \in DOMAIN fed /\ fed[h.entity] >= RoundsEnded - h.round + 1
    BY DEF EvidenceInvariant, FedEachRound
  <2> QED
    BY <1>1, <2>1, <2>2, <2>3 DEF FedEachRound
<1>7. TasksCollect'
  BY <1>2 DEF EvidenceInvariant, TasksCollect
<1> QED
  BY <1>3, <1>4, <1>5, <1>6, <1>7 DEF EvidenceInvariant

LEMMA StartTaskKeeps ==
    ASSUME EvidenceInvariant, NEW i \in DOMAIN targets, StartTask(i)
    PROVE  EvidenceInvariant'
<1>1. /\ gathering = "collect" /\ In("waiting") # {} /\ i = Min(In("waiting"))
      /\ Cardinality(In("running")) < MaxParallelTasks
      /\ task' = [task EXCEPT ![i] = "running"]
      /\ UNCHANGED <<seeds, targets, noderisk, skilled, graph, links, fed, gathering,
                     evRound, heard>>
  BY DEF StartTask
<1>2. /\ DOMAIN targets = 1..Len(targets) /\ DOMAIN task = DOMAIN targets
      /\ noderisk[i] \in Nat /\ noderisk = [noderisk EXCEPT ![i] = noderisk[i]]
  BY EvidenceTyped DEF EvidenceInvariant, EvidenceTypeOK
<1>3. task[i] = "waiting"
  <2>1. In("waiting") \in SUBSET Nat
    BY <1>2, EvidenceTyped DEF In
  <2>2. i \in In("waiting")
    BY <1>1, <2>1, NatMin
  <2> QED
    BY <2>2 DEF In
<1>4. Cardinality(In("running")') <= MaxParallelTasks
  <2>1. In("running")' = In("running") \cup {i}
    BY <1>1, <1>2 DEF In
  <2>2. i \notin In("running") /\ IsFiniteSet(In("running"))
    BY <1>3, RunningFinite DEF In
  <2>3. Cardinality(In("running") \cup {i}) = Cardinality(In("running")) + 1
        /\ Cardinality(In("running")) \in Nat
    BY <2>2, FS_AddElement, FS_CardinalityType
  <2>4. Cardinality(In("running")') = Cardinality(In("running")) + 1
    BY <2>1, <2>3, Zenon
  <2> QED
    BY <1>1, <2>3, <2>4, EvidenceAssumption
<1>5. heard' \subseteq HeardAnswer /\ "running" \in TaskStates
  BY <1>1 DEF EvidenceInvariant, EvidenceTypeOK, TaskStates
<1> QED
  BY <1>1, <1>2, <1>3, <1>4, <1>5, TaskMoves

\* What ends a running task leaves no more of them.
LEMMA OneRunsLess ==
    ASSUME EvidenceInvariant, NEW i \in In("running"), NEW state \in {"collected", "failed"},
           task' = [task EXCEPT ![i] = state]
    PROVE  Cardinality(In("running")') <= MaxParallelTasks
<1>1. In("running")' \in SUBSET In("running")
  BY DEF In
<1>2. IsFiniteSet(In("running"))
  BY RunningFinite
<1>3. /\ Cardinality(In("running")') <= Cardinality(In("running"))
      /\ Cardinality(In("running")) \in Nat /\ Cardinality(In("running")') \in Nat
  BY <1>1, <1>2, FS_Subset, FS_CardinalityType
<1> QED
  BY <1>3, EvidenceAssumption DEF EvidenceInvariant

LEMMA CollectorRaisesKeeps ==
    ASSUME EvidenceInvariant, NEW i \in DOMAIN targets, CollectorRaises(i)
    PROVE  EvidenceInvariant'
<1>1. /\ gathering = "collect" /\ i \in In("running")
      /\ task' = [task EXCEPT ![i] = "failed"]
      /\ UNCHANGED <<seeds, targets, noderisk, skilled, graph, links, fed, gathering,
                     evRound, heard>>
  BY DEF CollectorRaises
<1>2. /\ noderisk[i] \in Nat /\ noderisk = [noderisk EXCEPT ![i] = noderisk[i]]
      /\ task[i] = "running"
  BY <1>1, EvidenceTyped DEF EvidenceInvariant, EvidenceTypeOK, In
<1>3. Cardinality(In("running")') <= MaxParallelTasks
  BY <1>1, OneRunsLess
<1>4. heard' \subseteq HeardAnswer /\ "failed" \in TaskStates
  BY <1>1 DEF EvidenceInvariant, EvidenceTypeOK, TaskStates
<1> QED
  BY <1>1, <1>2, <1>3, <1>4, TaskMoves

LEMMA CollectorAnswersKeeps ==
    ASSUME EvidenceInvariant, NEW i \in DOMAIN targets, NEW r \in EvidenceRisks,
           CollectorAnswers(i, r)
    PROVE  EvidenceInvariant'
<1> DEFINE first == \A j \in 1..(i - 1) : targets[j].id # targets[i].id
           answer == [entity |-> targets[i], risk |-> r, round |-> evRound, first |-> first]
<1>1. /\ gathering = "collect" /\ i \in In("running")
      /\ task' = [task EXCEPT ![i] = "collected"]
      /\ noderisk' = [noderisk EXCEPT ![i] = r]
      /\ heard' = heard \cup {answer}
      /\ UNCHANGED <<seeds, targets, skilled, graph, links, fed, gathering, evRound>>
  BY DEF CollectorAnswers, Answer
<1>2. r \in Nat /\ targets[i] \in EvidenceEntity /\ evRound \in Nat /\ task[i] = "running"
  BY <1>1, EvidenceTyped, EvidenceAssumption DEF In
<1>3. first \in BOOLEAN
  OBVIOUS
<1>4. /\ answer \in HeardAnswer /\ answer.entity = targets[i] /\ answer.round = evRound
      /\ answer.risk = r /\ answer.first = first
  <2> HIDE DEF first
  <2> QED
    BY <1>2, <1>3 DEF HeardAnswer
<1>5. first => Registered(i)
  <2> SUFFICES ASSUME first PROVE Registered(i)
    OBVIOUS
  <2>1. i \in Nat /\ DOMAIN targets = 1..Len(targets) /\ Len(targets) \in Nat
    BY EvidenceTyped
  <2>2. i \in EvidenceNodes
    BY <1>2 DEF EvidenceInvariant, TasksCollect, EvidenceNodes, CollectorTypes
  <2>3. \A j \in EvidenceNodes : targets[j].id = targets[i].id => i <= j
    BY <2>1 DEF EvidenceNodes
  <2> QED
    BY <2>2, <2>3 DEF Registered
<1> HIDE DEF answer, first
<1>6. Cardinality(In("running")') <= MaxParallelTasks
  BY <1>1, OneRunsLess
<1>7. heard' \subseteq HeardAnswer /\ "collected" \in TaskStates
  BY <1>1, <1>4 DEF EvidenceInvariant, EvidenceTypeOK, TaskStates
<1>8. \A h \in heard' : h \in heard \/ ( /\ h.entity = targets[i] /\ h.round = evRound
                                         /\ h.risk = r /\ "collected" = "collected"
                                         /\ h.first => Registered(i) )
  BY <1>1, <1>4, <1>5
<1>9. heard \subseteq heard' /\ \E h \in heard' : h.entity = targets[i] /\ h.risk = r
  BY <1>1, <1>4
<1> QED
  BY <1>1, <1>2, <1>6, <1>7, <1>8, <1>9, TaskMoves

LEMMA GatherReturnsKeeps ==
    ASSUME EvidenceInvariant, GatherReturns
    PROVE  EvidenceInvariant'
<1>1. /\ gathering = "collect" /\ gathering' = "skills"
      /\ UNCHANGED <<seeds, targets, task, noderisk, skilled, graph, links, fed, evRound, heard>>
  BY DEF GatherReturns
<1>2. RoundsEnded' = RoundsEnded
  BY <1>1 DEF RoundsEnded
<1>3. In("running")' = In("running")
  BY <1>1 DEF In
<1>4. (Cardinality(In("running")) <= MaxParallelTasks)'
  BY <1>3, Zenon DEF EvidenceInvariant
<1>5. \A k \in DOMAIN targets : Registered(k)' <=> Registered(k)
  BY <1>1 DEF Registered, EvidenceNodes
<1>6. EvidenceTypeOK' /\ TasksCollect'
  BY <1>1 DEF EvidenceInvariant, EvidenceTypeOK, TasksCollect
<1>7. RisksHeard' /\ HeardCounts'
  BY <1>1, <1>5 DEF EvidenceInvariant, RisksHeard, HeardCounts
<1>8. FedEachRound'
  BY <1>1, <1>2 DEF EvidenceInvariant, FedEachRound
<1> QED
  BY <1>4, <1>6, <1>7, <1>8 DEF EvidenceInvariant

LEMMA ExecuteSkillsKeeps ==
    ASSUME EvidenceInvariant, NEW r \in EvidenceRisks, ExecuteSkills(r)
    PROVE  EvidenceInvariant'
<1> DEFINE e == targets[skilled + 1]
           answer == [entity |-> e, risk |-> r, round |-> evRound, first |-> TRUE]
<1>1. /\ gathering = "skills" /\ skilled < Len(targets) /\ skilled' = skilled + 1
      /\ graph' = WithNode(graph, e, r) /\ heard' = heard \cup {answer}
      /\ UNCHANGED <<seeds, targets, task, noderisk, links, fed, gathering, evRound>>
  BY DEF ExecuteSkills, Answer
<1>2. /\ skilled \in Nat /\ skilled + 1 \in 1..Len(targets) /\ Len(targets) \in Nat
      /\ DOMAIN targets = 1..Len(targets)
  BY <1>1, EvidenceTyped DEF EvidenceInvariant, EvidenceTypeOK
<1>3. e \in EvidenceEntity /\ r \in Nat /\ evRound \in Nat /\ evRound > 0
      /\ RoundsEnded = evRound - 1 /\ RoundsEnded' = RoundsEnded
  BY <1>1, <1>2, EvidenceTyped, EvidenceAssumption
     DEF EvidenceInvariant, EvidenceTypeOK, RoundsEnded
<1>4. /\ answer \in HeardAnswer /\ answer.entity = e /\ answer.round = evRound
      /\ answer.risk = r
  <2> HIDE DEF e
  <2> QED
    BY <1>3 DEF HeardAnswer
<1>5. \A k \in 1..skilled' : k \in 1..skilled \/ targets[k] = e
  BY <1>1, <1>2
<1> HIDE DEF e, answer
<1>6. /\ graph \in [DOMAIN graph -> Nat] /\ graph' \in [DOMAIN graph \cup {e} -> Nat]
      /\ \A k \in DOMAIN graph : graph[k] \in Nat
      /\ \A k \in DOMAIN graph : graph'[k] >= graph[k]
      /\ \A k \in DOMAIN graph : k # e => graph'[k] = graph[k]
      /\ graph'[e] >= r
      /\ graph'[e] = r \/ (e \in DOMAIN graph /\ graph'[e] = graph[e])
  <2>1. graph \in [DOMAIN graph -> Nat]
    BY DEF EvidenceInvariant, EvidenceTypeOK
  <2> DEFINE w == WithNode(graph, e, r)
  <2>2. /\ w \in [DOMAIN graph \cup {e} -> Nat]
        /\ \A k \in DOMAIN graph : w[k] >= graph[k]
        /\ \A k \in DOMAIN graph : k # e => w[k] = graph[k]
        /\ w[e] >= r
        /\ w[e] = r \/ (e \in DOMAIN graph /\ w[e] = graph[e])
    BY <1>3, <2>1, WithNodeRaises
  <2>3. graph' = w /\ \A k \in DOMAIN graph : graph[k] \in Nat
    BY <1>1, <2>1
  <2> HIDE DEF w
  <2> QED
    BY <2>1, <2>2, <2>3
<1>7. DOMAIN graph' = DOMAIN graph \cup {e} /\ \A k \in DOMAIN graph' : graph'[k] \in Nat
  BY <1>6
<1>8. EvidenceTypeOK'
  <2>1. graph' \in [DOMAIN graph' -> Nat]
    BY <1>6, <1>7
  <2>2. skilled' \in 0..Len(targets')
    BY <1>1, <1>2
  <2>3. heard' \subseteq HeardAnswer
    BY <1>1, <1>4 DEF EvidenceInvariant, EvidenceTypeOK
  <2> QED
    BY <1>1, <2>1, <2>2, <2>3 DEF EvidenceInvariant, EvidenceTypeOK
<1>9. (Cardinality(In("running")) <= MaxParallelTasks)' /\ TasksCollect'
  <2>1. In("running")' = In("running")
    BY <1>1 DEF In
  <2>2. (Cardinality(In("running")) <= MaxParallelTasks)'
    BY <2>1, Zenon DEF EvidenceInvariant
  <2> QED
    BY <1>1, <2>2 DEF EvidenceInvariant, TasksCollect
<1>10. RisksHeard'
  <2>1. ASSUME NEW k \in DOMAIN targets, noderisk[k] # 0
        PROVE  \E h \in heard' : h.entity = targets[k] /\ h.risk = noderisk[k]
    BY <1>1, <2>1 DEF EvidenceInvariant, RisksHeard
  <2>2. ASSUME NEW k \in DOMAIN graph'
        PROVE  \E h \in heard' : h.entity = k /\ h.risk = graph'[k]
    <3>1. CASE k = e /\ graph'[e] = r
      BY <1>1, <1>4, <3>1
    <3>2. CASE k \in DOMAIN graph /\ graph'[k] = graph[k]
      BY <1>1, <3>2 DEF EvidenceInvariant, RisksHeard
    <3> QED
      BY <1>6, <1>7, <3>1, <3>2
  <2>3. \A k \in 1..skilled' : targets[k] \in DOMAIN graph'
    BY <1>5, <1>7 DEF EvidenceInvariant, RisksHeard
  <2>4. DOMAIN fed \subseteq DOMAIN graph'
    BY <1>7 DEF EvidenceInvariant, RisksHeard
  <2> QED
    BY <1>1, <2>1, <2>2, <2>3, <2>4 DEF RisksHeard
<1>11. HeardCounts'
  <2>1. \A k \in DOMAIN targets : Registered(k)' <=> Registered(k)
    BY <1>1 DEF Registered, EvidenceNodes
  <2> SUFFICES ASSUME NEW h \in heard'
      PROVE  /\ h.round \in 1..evRound
             /\ \/ h.entity \in DOMAIN graph' /\ (h.first => graph'[h.entity] >= h.risk)
                \/ /\ h.round = evRound
                   /\ \E k \in DOMAIN targets :
                         /\ targets[k] = h.entity /\ task[k] = "collected"
                         /\ h.first => Registered(k) /\ noderisk[k] >= h.risk
    BY <1>1, <2>1 DEF HeardCounts
  <2>2. CASE h \in heard
    <3>1. /\ h.round \in 1..evRound /\ h.risk \in Nat
          /\ \/ h.entity \in DOMAIN graph /\ (h.first => graph[h.entity] >= h.risk)
             \/ /\ h.round = evRound
                /\ \E k \in DOMAIN targets :
                      /\ targets[k] = h.entity /\ task[k] = "collected"
                      /\ h.first => Registered(k) /\ noderisk[k] >= h.risk
      BY <2>2, EvidenceTyped DEF EvidenceInvariant, HeardCounts
    <3>2. ASSUME NEW k \in DOMAIN graph, graph[k] >= h.risk
          PROVE  graph'[k] >= h.risk
      <4>1. graph[k] \in Nat /\ graph'[k] \in Nat /\ graph'[k] >= graph[k]
        BY <1>6, <1>7
      <4> QED
        BY <3>1, <3>2, <4>1
    <3> QED
      BY <1>7, <3>1, <3>2
  <2>3. CASE h = answer
    BY <1>3, <1>4, <1>6, <1>7, <2>3
  <2> QED
    BY <1>1, <2>2, <2>3
<1>12. FedEachRound'
  <2>1. \A h \in heard' : h.round <= RoundsEnded => h \in heard
    BY <1>1, <1>3, <1>4
  <2>2. \A k \in DOMAIN fed :
            \E h \in heard : h.entity = k /\ fed[k] <= RoundsEnded - h.round + 1
    BY DEF EvidenceInvariant, FedEachRound
  <2>3. \A h \in heard : h.first /\ h.risk > 0 /\ h.round <= RoundsEnded =>
            h.entity \in DOMAIN fed /\ fed[h.entity] >= RoundsEnded - h.round + 1
    BY DEF EvidenceInvariant, FedEachRound
  <2>4. heard \subseteq heard'
    BY <1>1
  <2> QED
    BY <1>1, <1>3, <2>1, <2>2, <2>3, <2>4 DEF FedEachRound
<1> QED
  BY <1>8, <1>9, <1>10, <1>11, <1>12 DEF EvidenceInvariant

\* The links of a round are between its targets.
LEMMA LinksTyped ==
    ASSUME EvidenceInvariant
    PROVE  HeuristicLinks \subseteq [from : EvidenceEntity, to : EvidenceEntity]
<1> DEFINE hosts == {i \in DOMAIN targets : targets[i].type = "host"}
<1>1. hosts \in SUBSET Nat /\ hosts \subseteq DOMAIN targets
  BY EvidenceTyped
<1>2. hosts # {} => targets[Min(hosts)] \in EvidenceEntity
  BY <1>1, NatMin, EvidenceTyped
<1>3. ToSet(targets) \subseteq EvidenceEntity
  BY EvidenceTyped DEF ToSet
<1>4. HeuristicLinks = IF hosts = {} THEN {}
                       ELSE {[from |-> x, to |-> targets[Min(hosts)]] :
                               x \in {y \in ToSet(targets) : y.type \in {"process", "user"}}}
  BY DEF HeuristicLinks
<1> HIDE DEF hosts
<1> QED
  BY <1>2, <1>3, <1>4

LEMMA MergeRoundKeeps ==
    ASSUME EvidenceInvariant, MergeRound
    PROVE  EvidenceInvariant'
<1>1. /\ gathering = "skills" /\ skilled = Len(targets) /\ gathering' = "idle"
      /\ graph' = MergedNodes(graph) /\ links' = links \cup HeuristicLinks
      /\ fed' = [k \in DOMAIN graph' |->
                   (IF k \in DOMAIN fed THEN fed[k] ELSE 0) + IF graph'[k] > 0 THEN 1 ELSE 0]
      /\ targets' = <<>> /\ task' = <<>> /\ noderisk' = <<>> /\ skilled' = 0
      /\ UNCHANGED <<seeds, evRound, heard>>
  BY DEF MergeRound
<1>2. /\ evRound \in Nat /\ evRound > 0 /\ RoundsEnded = evRound - 1 /\ RoundsEnded' = evRound
      /\ DOMAIN targets = 1..skilled
  BY <1>1, EvidenceTyped DEF EvidenceInvariant, EvidenceTypeOK, RoundsEnded
<1>3. \A i \in DOMAIN targets : targets[i] \in DOMAIN graph
  BY <1>2 DEF EvidenceInvariant, RisksHeard
<1>4. /\ graph' \in [DOMAIN graph -> Nat] /\ DOMAIN graph' = DOMAIN graph
      /\ \A k \in DOMAIN graph : graph[k] \in Nat /\ graph'[k] \in Nat /\ graph'[k] >= graph[k]
      /\ \A i \in DOMAIN targets : Registered(i) => graph'[targets[i]] >= noderisk[i]
      /\ \A k \in DOMAIN graph : \/ graph'[k] = graph[k]
                                 \/ \E i \in DOMAIN targets : targets[i] = k
                                                              /\ graph'[k] = noderisk[i]
  <2>1. DOMAIN graph \cup {targets[i] : i \in {j \in DOMAIN targets : Registered(j)}}
          = DOMAIN graph
    BY <1>3
  <2>2. /\ graph' \in [DOMAIN graph -> Nat]
        /\ \A k \in DOMAIN graph : graph'[k] >= graph[k]
        /\ \A i \in DOMAIN targets : Registered(i) => graph'[targets[i]] >= noderisk[i]
        /\ \A k \in DOMAIN graph' : \/ k \in DOMAIN graph /\ graph'[k] = graph[k]
                                    \/ \E i \in DOMAIN targets : targets[i] = k
                                                                 /\ graph'[k] = noderisk[i]
    BY <1>1, <2>1, MergeCounts
  <2> QED
    BY <2>2, EvidenceTyped
<1>5. /\ DOMAIN fed' = DOMAIN graph
      /\ \A k \in DOMAIN graph : k \in DOMAIN fed =>
            fed[k] \in Nat /\ fed'[k] \in Nat /\ fed[k] <= fed'[k] /\ fed'[k] <= fed[k] + 1
            /\ (graph'[k] > 0 => fed'[k] = fed[k] + 1)
      /\ \A k \in DOMAIN graph : k \notin DOMAIN fed =>
            fed'[k] \in Nat /\ fed'[k] <= 1 /\ (graph'[k] > 0 => fed'[k] = 1)
  BY <1>1, <1>4, EvidenceTyped
<1>6. EvidenceTypeOK'
  <2>1. links' \subseteq [from : EvidenceEntity, to : EvidenceEntity]
    BY <1>1, LinksTyped DEF EvidenceInvariant, EvidenceTypeOK
  <2>2. graph' \in [DOMAIN graph' -> Nat]
    BY <1>4
  <2>3. fed' \in [DOMAIN fed' -> Nat]
    <3>1. \A k \in DOMAIN fed' : fed'[k] \in Nat
      BY <1>5
    <3>2. fed' = [k \in DOMAIN fed' |-> fed'[k]]
      BY <1>1
    <3> QED
      BY <3>1, <3>2
  <2>4. targets' \in Seq(EvidenceEntity) /\ Len(targets') = 0 /\ DOMAIN targets' = {}
    BY <1>1
  <2>5. task' \in [DOMAIN targets' -> TaskStates] /\ noderisk' \in [DOMAIN targets' -> Nat]
    BY <1>1
  <2> QED
    BY <1>1, <2>1, <2>2, <2>3, <2>4, <2>5 DEF EvidenceInvariant, EvidenceTypeOK
<1>7. DOMAIN targets' = {} /\ DOMAIN task' = {}
  BY <1>1
<1>8. (Cardinality(In("running")) <= MaxParallelTasks)' /\ TasksCollect'
  <2>1. In("running")' = {}
    BY <1>7 DEF In
  <2>2. Cardinality(In("running")') = 0
    BY <2>1, FS_EmptySet, Zenon
  <2> QED
    BY <1>7, <2>2, EvidenceAssumption DEF TasksCollect
<1>9. RisksHeard'
  <2>1. ASSUME NEW k \in DOMAIN graph
        PROVE  \E h \in heard : h.entity = k /\ h.risk = graph'[k]
    <3>1. \E h \in heard : h.entity = k /\ h.risk = graph[k]
      BY DEF EvidenceInvariant, RisksHeard
    <3>2. CASE graph'[k] = graph[k]
      BY <3>1, <3>2
    <3>3. CASE graph'[k] # graph[k]
      <4>1. PICK i \in DOMAIN targets : targets[i] = k /\ graph'[k] = noderisk[i]
        BY <1>4, <3>3
      <4>2. graph'[k] # 0
        BY <1>4, <3>3
      <4> QED
        BY <4>1, <4>2 DEF EvidenceInvariant, RisksHeard
    <3> QED
      BY <3>2, <3>3
  <2>2. 1..skilled' = {}
    BY <1>1
  <2> QED
    BY <1>1, <1>4, <1>5, <1>7, <2>1, <2>2 DEF RisksHeard
<1>10. ASSUME NEW h \in heard
       PROVE  /\ h.round \in 1..evRound /\ h.risk \in Nat
              /\ h.entity \in DOMAIN graph /\ (h.first => graph'[h.entity] >= h.risk)
  <2>1. /\ h.round \in 1..evRound /\ h.risk \in Nat
        /\ \/ h.entity \in DOMAIN graph /\ (h.first => graph[h.entity] >= h.risk)
           \/ \E k \in DOMAIN targets : /\ targets[k] = h.entity
                                        /\ h.first => Registered(k) /\ noderisk[k] >= h.risk
    BY EvidenceTyped DEF EvidenceInvariant, HeardCounts
  <2>2. CASE h.entity \in DOMAIN graph /\ (h.first => graph[h.entity] >= h.risk)
    BY <1>4, <2>1, <2>2
  <2>3. ASSUME NEW k \in DOMAIN targets, targets[k] = h.entity,
               h.first => Registered(k) /\ noderisk[k] >= h.risk
        PROVE  h.entity \in DOMAIN graph /\ (h.first => graph'[h.entity] >= h.risk)
    <3>1. h.entity \in DOMAIN graph /\ noderisk[k] \in Nat /\ graph'[h.entity] \in Nat
      BY <1>3, <1>4, <2>3, EvidenceTyped
    <3>2. h.first => graph'[h.entity] >= noderisk[k] /\ noderisk[k] >= h.risk
      BY <1>4, <2>3
    <3> QED
      BY <2>1, <3>1, <3>2
  <2> QED
    BY <2>1, <2>2, <2>3
<1>11. HeardCounts'
  BY <1>1, <1>4, <1>10 DEF HeardCounts
<1>12. FedEachRound'
  <2>1. ASSUME NEW k \in DOMAIN fed'
        PROVE  \E h \in heard : h.entity = k /\ fed'[k] <= evRound - h.round + 1
    <3>1. CASE k \in DOMAIN fed
      <4>1. PICK h \in heard : h.entity = k /\ fed[k] <= (evRound - 1) - h.round + 1
        BY <1>2, <3>1 DEF EvidenceInvariant, FedEachRound
      <4>2. h.round \in 1..evRound /\ fed[k] \in Nat /\ fed'[k] \in Nat /\ fed'[k] <= fed[k] + 1
        BY <1>5, <1>10, <3>1, <2>1
      <4>3. fed'[k] <= evRound - h.round + 1
        BY <1>2, <4>1, <4>2
      <4> QED
        BY <4>1, <4>3
    <3>2. CASE k \notin DOMAIN fed
      <4>1. PICK h \in heard : h.entity = k
        BY <1>5 DEF EvidenceInvariant, RisksHeard
      <4>2. h.round \in 1..evRound /\ fed'[k] \in Nat /\ fed'[k] <= 1
        BY <1>5, <1>10, <3>2
      <4>3. fed'[k] <= evRound - h.round + 1
        BY <1>2, <4>2
      <4> QED
        BY <4>1, <4>3
    <3> QED
      BY <3>1, <3>2
  <2>2. ASSUME NEW h \in heard, h.first, h.risk > 0
        PROVE  h.entity \in DOMAIN fed' /\ fed'[h.entity] >= evRound - h.round + 1
    <3> DEFINE k == h.entity
    <3>1. h.round \in 1..evRound /\ k \in DOMAIN graph /\ graph'[k] > 0 /\ k \in DOMAIN fed'
      BY <1>4, <1>5, <1>10, <2>2
    <3>2. CASE h.round <= evRound - 1
      <4>1. k \in DOMAIN fed /\ fed[k] >= (evRound - 1) - h.round + 1
        BY <1>2, <2>2, <3>2 DEF EvidenceInvariant, FedEachRound
      <4>2. fed'[k] = fed[k] + 1 /\ fed[k] \in Nat
        BY <1>5, <3>1, <4>1
      <4> QED
        BY <1>2, <3>1, <4>1, <4>2
    <3>3. CASE h.round = evRound
      <4>1. fed'[k] \in Nat /\ fed'[k] >= 1
        <5>1. CASE k \in DOMAIN fed
          BY <1>5, <3>1, <5>1
        <5>2. CASE k \notin DOMAIN fed
          BY <1>5, <3>1, <5>2
        <5> QED
          BY <5>1, <5>2
      <4> QED
        BY <1>2, <3>1, <3>3, <4>1
    <3> QED
      BY <1>2, <3>1, <3>2, <3>3
  <2> QED
    BY <1>1, <1>2, <2>1, <2>2 DEF FedEachRound
<1> QED
  BY <1>6, <1>8, <1>9, <1>11, <1>12 DEF EvidenceInvariant

\* EvidenceInvariant (EvidenceAgent.execute and the collectors): in whatever
\* order the collectors end, every answer counts in the graph or waits at its
\* node for the merge, and the tracker keeps count of the rounds.
THEOREM EvidenceInvariantHolds == EvidenceSpec => []EvidenceInvariant
<1>1. EvidenceInvariant /\ [EvidenceNext]_evidenceVars => EvidenceInvariant'
  <2> SUFFICES ASSUME EvidenceInvariant, [EvidenceNext]_evidenceVars
               PROVE  EvidenceInvariant'
    OBVIOUS
  <2>1. ASSUME NEW e \in EvidenceRequests, StartRound(<<e>>)
        PROVE  EvidenceInvariant'
    <3>1. <<e>> \in Seq(EvidenceRequests)
      OBVIOUS
    <3> QED
      BY <2>1, <3>1, StartRoundKeeps
  <2>2. CASE StartRound(<<>>)
    <3>1. <<>> \in Seq(EvidenceRequests)
      OBVIOUS
    <3> QED
      BY <2>2, <3>1, StartRoundKeeps
  <2>3. ASSUME NEW i \in DOMAIN targets, StartTask(i)
        PROVE  EvidenceInvariant'
    BY <2>3, StartTaskKeeps
  <2>4. ASSUME NEW i \in DOMAIN targets, CollectorRaises(i)
        PROVE  EvidenceInvariant'
    BY <2>4, CollectorRaisesKeeps
  <2>5. ASSUME NEW i \in DOMAIN targets, NEW r \in EvidenceRisks, CollectorAnswers(i, r)
        PROVE  EvidenceInvariant'
    BY <2>5, CollectorAnswersKeeps
  <2>6. CASE GatherReturns
    BY <2>6, GatherReturnsKeeps
  <2>7. ASSUME NEW r \in EvidenceRisks, ExecuteSkills(r)
        PROVE  EvidenceInvariant'
    BY <2>7, ExecuteSkillsKeeps
  <2>8. CASE MergeRound
    BY <2>8, MergeRoundKeeps
  <2>9. CASE UNCHANGED evidenceVars
    <3>1. UNCHANGED <<seeds, targets, task, noderisk, skilled, graph, links, fed,
                      gathering, evRound, heard>>
      BY <2>9 DEF evidenceVars
    <3>2. In("running")' = In("running") /\ RoundsEnded' = RoundsEnded
      BY <3>1 DEF In, RoundsEnded
    <3>3. (Cardinality(In("running")) <= MaxParallelTasks)'
      BY <3>2, Zenon DEF EvidenceInvariant
    <3>4. \A k \in DOMAIN targets : Registered(k)' <=> Registered(k)
      BY <3>1 DEF Registered, EvidenceNodes
    <3>5. EvidenceTypeOK' /\ TasksCollect'
      BY <3>1 DEF EvidenceInvariant, EvidenceTypeOK, TasksCollect
    <3>6. RisksHeard' /\ HeardCounts' /\ FedEachRound'
      BY <3>1, <3>2, <3>4 DEF EvidenceInvariant, RisksHeard, HeardCounts, FedEachRound
    <3> QED
      BY <3>3, <3>5, <3>6 DEF EvidenceInvariant
  <2> QED
    BY <2>1, <2>2, <2>3, <2>4, <2>5, <2>6, <2>7, <2>8, <2>9 DEF EvidenceNext
<1> QED
  BY <1>1, EvidenceStarts, PTL DEF EvidenceSpec

\* EvidenceAccounts (EvidenceAgent.execute, EvidenceCollectionOrchestrator),
\* for any entities, answers and number of collectors at a time: the graph is
\* what was answered, each entity at its highest score, the tracker was fed
\* once a round, and the semaphore holds.
THEOREM EvidenceTheorem == EvidenceSpec => []EvidenceAccounts
<1>1. EvidenceInvariant => EvidenceAccounts
  <2> SUFFICES ASSUME EvidenceInvariant, gathering = "idle",
                      NEW e \in {h.entity : h \in heard}
      PROVE  LET mine == {h \in heard : h.entity = e}
                 sure == {h.risk : h \in {x \in mine : x.first}}
                 since == {h.round : h \in {x \in mine : x.risk > 0 /\ x.first}}
             IN  /\ e \in DOMAIN graph
                 /\ graph[e] \in {h.risk : h \in mine}
                 /\ \A r \in sure : graph[e] >= r
                 /\ fed[e] <= evRound - Min({h.round : h \in mine}) + 1
                 /\ since # {} => fed[e] >= evRound - Min(since) + 1
    BY DEF EvidenceInvariant, EvidenceAccounts
  <2> DEFINE mine == {h \in heard : h.entity = e}
             sure == {h.risk : h \in {x \in mine : x.first}}
             rounds == {h.round : h \in mine}
             since == {h.round : h \in {x \in mine : x.risk > 0 /\ x.first}}
  <2>1. /\ RoundsEnded = evRound /\ evRound \in Nat /\ DOMAIN fed = DOMAIN graph
        /\ \A h \in heard : h.round \in 1..evRound /\ h.entity \in DOMAIN graph
                            /\ (h.first => graph[h.entity] >= h.risk)
    BY EvidenceTyped DEF RoundsEnded, EvidenceInvariant, RisksHeard, HeardCounts
  <2>2. e \in DOMAIN graph /\ e \in DOMAIN fed /\ fed[e] \in Nat
    BY <2>1, EvidenceTyped
  <2>3. graph[e] \in {h.risk : h \in mine}
    <3>1. PICK h \in heard : h.entity = e /\ h.risk = graph[e]
      BY <2>2 DEF EvidenceInvariant, RisksHeard
    <3> QED
      BY <3>1
  <2>4. \A r \in sure : graph[e] >= r
    BY <2>1
  <2>5. fed[e] <= evRound - Min(rounds) + 1
    <3>1. PICK h \in heard : h.entity = e /\ fed[e] <= evRound - h.round + 1
      BY <2>1, <2>2 DEF EvidenceInvariant, FedEachRound
    <3>2. rounds \in SUBSET Nat /\ h.round \in rounds
      BY <2>1, <3>1
    <3> HIDE DEF rounds
    <3>3. Min(rounds) \in Nat /\ Min(rounds) <= h.round /\ h.round \in Nat
      BY <3>2, NatMin
    <3> QED
      BY <2>1, <2>2, <3>1, <3>3
  <2>6. since # {} => fed[e] >= evRound - Min(since) + 1
    <3>1. since \in SUBSET Nat
      BY <2>1
    <3>2. \A k \in since : fed[e] >= evRound - k + 1
      BY <2>1, <2>2 DEF EvidenceInvariant, FedEachRound
    <3> HIDE DEF since
    <3> QED
      BY <3>1, <3>2, NatMin
  <2> QED
    BY <2>2, <2>3, <2>4, <2>5, <2>6
<1> QED
  BY <1>1, EvidenceInvariantHolds, PTL

=============================================================================
