--------------------------- MODULE SanOFT_proofs ---------------------------
(***************************************************************************)
(* The EVM contract for every supply, set of owners and accepted bucket    *)
(* settings: its buckets stay well formed, meter their traffic to the      *)
(* fraction of a token, and are refilled by time alone.                    *)
(***************************************************************************)
EXTENDS SanOFT, Arith_proofs

\* What a bucket holds after its pending refill, in 1/refillDuration tokens.
Level(b) == _preview(b).available * b.refillDuration + _preview(b).remainder

\* The level of a full bucket.
Brim(b) == b.capacity * b.refillDuration

\* The stored level, before the pending refill.
Stored(b) == b.available * b.refillDuration + b.remainder

\* Idle for MaxBucketIdle seconds, the bucket is full.
FillsInTime(b) == Brim(b) <= MaxBucketIdle * b.refillAmount

\* A well-typed, well-formed bucket.
Sound(b) == b \in Buckets /\ WellFormed(b) /\ FillsInTime(b)

LEMMA BucketFields ==
    ASSUME NEW b, Sound(b)
    PROVE  /\ b.capacity \in Nat \ {0} /\ b.available \in 0 .. b.capacity
           /\ b.refillAmount \in 1 .. b.capacity
           /\ b.refillDuration \in Nat \ {0}
           /\ b.remainder \in 0 .. b.refillDuration - 1
           /\ b.available = b.capacity => b.remainder = 0
           /\ b.idle \in Nat /\ b.idle <= MaxBucketIdle /\ MaxBucketIdle \in Nat
  BY BucketAssumption DEF Sound, WellFormed, Accepted, Buckets

\* A multiple and less than one more stay below the next multiple.
LEMMA BelowMultiple ==
    ASSUME NEW x \in Nat, NEW y \in Nat, NEW d \in Nat \ {0}, NEW f \in 0 .. d - 1,
           x < y
    PROVE  x * d + f < y * d
<1>1. x + 1 <= y
  OBVIOUS
<1>2. (x + 1) * d <= y * d
  BY <1>1, SMT
<1>3. (x + 1) * d = x * d + d
  BY SMT
<1>4. x * d \in Int /\ y * d \in Int
  OBVIOUS
<1> QED
  BY <1>2, <1>3, <1>4

\* _preview adds the pending refill to the level, exactly, up to the brim, and
\* what it returns is well formed.
LEMMA PreviewExact ==
    ASSUME NEW b, Sound(b)
    PROVE  /\ _preview(b).available \in 0 .. b.capacity
           /\ _preview(b).remainder \in 0 .. b.refillDuration - 1
           /\ _preview(b).available = b.capacity => _preview(b).remainder = 0
           /\ Level(b) = MinOf(Brim(b), Stored(b) + b.idle * b.refillAmount)
<1>. DEFINE c == b.capacity
            v == b.available
            n == b.refillAmount
            d == b.refillDuration
            r == b.remainder
<1>1. /\ c \in Nat \ {0} /\ v \in 0 .. c /\ n \in Nat \ {0} /\ d \in Nat \ {0}
      /\ r \in 0 .. d - 1 /\ b.idle \in Nat
      /\ v = c => r = 0
  BY BucketFields
<1>2. /\ c * d \in Nat /\ v * d \in Nat /\ b.idle * n \in Nat
  BY <1>1, SMT
<1>3. v < c => v * d + r < c * d
  BY <1>1, BelowMultiple
<1>4. CASE b.idle = 0 \/ v = c
  <2>1. _preview(b) = [available |-> v, remainder |-> r]
    BY <1>4 DEF _preview
  <2>2. Level(b) = v * d + r
    BY <2>1 DEF Level
  <2>3. CASE v = c
    <3>1. v * d + r = c * d
      BY <1>1, <1>2, <2>3
    <3> QED
      BY <1>1, <1>2, <2>1, <2>2, <2>3, <3>1 DEF MinOf, Brim, Stored
  <2>4. CASE b.idle = 0 /\ v # c
    <3>1. b.idle * n = 0
      BY <1>1, <2>4, SMT
    <3>2. v < c
      BY <1>1, <2>4
    <3> QED
      BY <1>1, <1>2, <1>3, <2>1, <2>2, <2>4, <3>1, <3>2 DEF MinOf, Brim, Stored
  <2> QED
    BY <1>4, <2>3, <2>4
<1>5. CASE ~(b.idle = 0 \/ v = c)
  <2>. DEFINE a == b.idle * n
              q == a \div d
              m == a % d
              combined == m + r
              carry == IF combined >= d THEN 1 ELSE 0
              added == q + carry
              f == combined - carry * d
  <2>1. a \in Nat /\ q \in Int /\ m \in 0 .. d - 1 /\ a = d * q + m
    <3>1. a \in Nat /\ d \in Nat \ {0}
      BY <1>1, <1>2
    <3>. HIDE DEF a, d
    <3> QED
      BY <3>1, DivMod
  <2>2. q \in Nat
    <3>1. d * 0 <= a
      BY <1>1, <2>1, SMT
    <3> QED
      BY <1>1, <2>1, <3>1, DivLess
  <2>3. _preview(b) = IF added >= c - v
                      THEN [available |-> c, remainder |-> 0]
                      ELSE [available |-> v + added, remainder |-> f]
    BY <1>5 DEF _preview
  <2>. HIDE DEF a, q, m
  <2>4. carry \in {0, 1} /\ added \in Nat /\ f \in 0 .. d - 1
    BY <1>1, <2>1, <2>2
  <2>5. v * d + r + a = (v + added) * d + f
    <3>1. (v + added) * d = v * d + q * d + carry * d
      BY <1>1, <2>2, <2>4, SMT
    <3>2. q * d = d * q /\ q * d \in Int /\ carry * d \in Int
      BY <1>1, <2>2, <2>4, SMT
    <3> QED
      BY <1>1, <1>2, <2>1, <2>2, <2>4, <3>1, <3>2
  <2>. HIDE DEF carry, added, f, combined
  <2>6. Stored(b) + b.idle * b.refillAmount = (v + added) * d + f
    BY <2>5 DEF Stored, a
  <2>7. (v + added) * d \in Nat
    BY <1>1, <2>4, SMT
  <2>8. CASE added >= c - v
    <3>1. c <= v + added
      BY <1>1, <2>4, <2>8
    <3>2. c * d <= (v + added) * d
      BY <1>1, <2>4, <3>1, SMT
    <3>3. _preview(b) = [available |-> c, remainder |-> 0]
      BY <2>3, <2>8
    <3>4. Level(b) = c * d
      BY <1>2, <3>3 DEF Level
    <3> QED
      BY <1>1, <1>2, <2>4, <2>6, <2>7, <3>2, <3>3, <3>4 DEF MinOf, Brim
  <2>9. CASE ~(added >= c - v)
    <3>1. v + added < c /\ v + added \in Nat
      BY <1>1, <2>4, <2>9
    <3>2. (v + added) * d + f < c * d
      BY <1>1, <2>4, <3>1, BelowMultiple
    <3>3. _preview(b) = [available |-> v + added, remainder |-> f]
      BY <2>3, <2>9
    <3>4. Level(b) = (v + added) * d + f
      BY <3>3 DEF Level
    <3> QED
      BY <1>1, <1>2, <2>4, <2>6, <2>7, <3>1, <3>2, <3>3, <3>4 DEF MinOf, Brim
  <2> QED
    BY <2>8, <2>9
<1> QED
  BY <1>4, <1>5

LEMMA LevelBounds ==
    ASSUME NEW b, Sound(b)
    PROVE  /\ Level(b) \in 0 .. Brim(b) /\ Brim(b) \in Nat
           /\ Stored(b) \in Nat /\ b.idle * b.refillAmount \in Nat
<1>1. Brim(b) \in Nat /\ Stored(b) \in Nat /\ b.idle * b.refillAmount \in Nat
  BY BucketFields, SMT DEF Brim, Stored
<1>2. Level(b) = MinOf(Brim(b), Stored(b) + b.idle * b.refillAmount)
  BY PreviewExact
<1> QED
  BY <1>1, <1>2 DEF MinOf

\* The whole tokens available are the quotient of the level.
LEMMA AvailableIsQuotient ==
    ASSUME NEW b, Sound(b)
    PROVE  _available(b) = Level(b) \div b.refillDuration
<1>. DEFINE p == _preview(b)
            d == b.refillDuration
<1>1. p.available \in Nat /\ p.remainder \in 0 .. d - 1 /\ d \in Nat \ {0}
  BY BucketFields, PreviewExact
<1>2. Level(b) = d * p.available + p.remainder /\ d * p.available \in Int
  <2>1. p.available * d = d * p.available
    BY <1>1, SMT
  <2> QED
    BY <1>1, <2>1 DEF Level
<1>. HIDE DEF d
<1>3. Level(b) \div d = p.available
  <2>1. /\ Level(b) \in Int /\ d * p.available <= Level(b)
        /\ Level(b) < d * p.available + d
    BY <1>1, <1>2
  <2>. HIDE DEF p
  <2> QED
    BY <1>1, <2>1, DivUnique
<1> QED
  BY <1>3 DEF _available, d

\* An empty idle time leaves nothing to refill.
LEMMA SettledLevel ==
    ASSUME NEW b, Sound(b), b.idle = 0
    PROVE  Level(b) = Stored(b)
  BY DEF Level, Stored, _preview

-----------------------------------------------------------------------------
(* The operations. *)

\* _consume takes the amount off the level, exactly.
LEMMA ConsumeExact ==
    ASSUME NEW b, Sound(b), NEW amount \in Nat, CanTake(b, amount)
    PROVE  LET c == _consume(b, amount)
           IN  /\ Sound(c) /\ Brim(c) = Brim(b)
               /\ Level(c) = Level(b) - amount * b.refillDuration
               /\ amount * b.refillDuration <= Level(b)
               /\ _available(c) = _available(b) - amount
<1>. DEFINE c == _consume(b, amount)
            p == _preview(b)
            d == b.refillDuration
<1>1. /\ p.available \in 0 .. b.capacity /\ p.remainder \in 0 .. d - 1
      /\ p.available = b.capacity => p.remainder = 0
  BY PreviewExact
<1>2. amount <= p.available
  BY DEF CanTake, _available
<1>3. /\ b.capacity \in Nat /\ d \in Nat \ {0} /\ b \in Buckets
  BY BucketFields DEF Sound
<1>4. c = [b EXCEPT !.available = p.available - amount, !.remainder = p.remainder,
                    !.idle = 0]
  BY <1>3 DEF _consume, _refill, Buckets
<1>5. /\ c.capacity = b.capacity /\ c.refillAmount = b.refillAmount
      /\ c.refillDuration = d /\ c.idle = 0
      /\ c.available = p.available - amount /\ c.remainder = p.remainder
  BY <1>3, <1>4 DEF Buckets
<1>6. c \in Buckets
  <2>1. /\ p.available - amount \in Nat /\ p.remainder \in Nat
        /\ 0 \in 0 .. MaxBucketIdle
    BY <1>1, <1>2, <1>3, BucketAssumption
  <2>. HIDE DEF c, p
  <2> QED
    BY <1>3, <1>4, <2>1 DEF Buckets
<1>. HIDE DEF c, p
<1>7. (p.available - amount) * d = p.available * d - amount * d
      /\ p.available * d \in Int /\ amount * d \in Int
  BY <1>1, <1>3, SMT
<1>8. amount * d <= p.available * d
  BY <1>1, <1>2, <1>3, SMT
<1>9. Sound(c)
  BY <1>1, <1>2, <1>3, <1>5, <1>6 DEF Sound, WellFormed, Accepted, FillsInTime, Brim
<1>10. Level(c) = Level(b) - amount * d /\ amount * d <= Level(b)
  <2>1. Level(c) = (p.available - amount) * d + p.remainder
    BY <1>5, <1>9, SettledLevel DEF Stored
  <2> QED
    BY <1>1, <1>3, <1>7, <1>8, <2>1 DEF Level, p
<1>11. Brim(c) = Brim(b)
  BY <1>5 DEF Brim
<1>12. _available(c) = p.available - amount
  BY <1>5 DEF _available, _preview
<1> QED
  BY <1>9, <1>10, <1>11, <1>12 DEF c, p, _available

\* A second adds refillAmount to the level, up to the brim.
LEMMA OlderExact ==
    ASSUME NEW b, Sound(b)
    PROVE  LET c == Older(b)
           IN  /\ Sound(c) /\ Brim(c) = Brim(b)
               /\ Level(c) = MinOf(Brim(b), Level(b) + b.refillAmount)
<1>. DEFINE c == Older(b)
            n == b.refillAmount
<1>1. /\ n \in Nat /\ b.idle \in Nat /\ b.idle <= MaxBucketIdle
      /\ MaxBucketIdle \in Nat /\ b \in Buckets
  BY BucketFields DEF Sound
<1>2. /\ c.capacity = b.capacity /\ c.refillAmount = n
      /\ c.refillDuration = b.refillDuration /\ c.available = b.available
      /\ c.remainder = b.remainder /\ c.idle = MinOf(b.idle + 1, MaxBucketIdle)
  BY <1>1 DEF Older, Buckets
<1>3. c \in Buckets
  BY <1>1 DEF Older, Buckets, MinOf
<1>. HIDE DEF c
<1>4. Sound(c)
  BY <1>2, <1>3 DEF Sound, WellFormed, Accepted, FillsInTime, Brim
<1>5. Brim(c) = Brim(b) /\ Stored(c) = Stored(b)
  BY <1>2 DEF Brim, Stored
<1>6. Level(c) = MinOf(Brim(b), Stored(b) + c.idle * n)
  BY <1>2, <1>4, <1>5, PreviewExact
<1>7. Level(b) = MinOf(Brim(b), Stored(b) + b.idle * n)
  BY PreviewExact
<1>8. Brim(b) \in Nat /\ Stored(b) \in Nat /\ b.idle * n \in Nat
  BY LevelBounds
<1>9. CASE b.idle < MaxBucketIdle
  <2>1. c.idle = b.idle + 1
    BY <1>1, <1>2, <1>9 DEF MinOf
  <2>2. (b.idle + 1) * n = b.idle * n + n
    BY <1>1, SMT
  <2>3. Level(c) = MinOf(Brim(b), Stored(b) + (b.idle * n + n))
    BY <1>6, <2>1, <2>2
  <2>. HIDE DEF n
  <2>4. Level(c) = MinOf(Brim(b), Level(b) + n)
    BY <1>1, <1>7, <1>8, <2>3 DEF MinOf
  <2> QED
    BY <1>4, <1>5, <2>4 DEF c, n
<1>10. CASE b.idle = MaxBucketIdle
  <2>1. c.idle = b.idle
    BY <1>1, <1>2, <1>10 DEF MinOf
  <2>2. Brim(b) <= b.idle * n
    BY <1>10 DEF Sound, FillsInTime
  <2>3. Level(b) = Brim(b)
    BY <1>7, <1>8, <2>2 DEF MinOf
  <2>4. Level(c) = Level(b)
    BY <1>6, <1>7, <2>1
  <2>5. Level(c) = MinOf(Brim(b), Level(b) + n)
    BY <1>1, <1>8, <2>3, <2>4 DEF MinOf
  <2> QED
    BY <1>4, <1>5, <2>5 DEF c
<1> QED
  BY <1>1, <1>9, <1>10

\* A configured bucket holds the whole tokens it had, up to the new capacity.
LEMMA ConfigureExact ==
    ASSUME NEW b, Sound(b), NEW s \in BucketSettings, Accepted(s)
    PROVE  LET c == _configureBucket(b, s)
           IN  /\ Sound(c) /\ Brim(c) = s.capacity * s.refillDuration
               /\ c.capacity = s.capacity /\ c.refillDuration = s.refillDuration
               /\ Level(c) = MinOf(_available(b), s.capacity) * s.refillDuration
               /\ _available(c) = MinOf(_available(b), s.capacity)
<1>. DEFINE c == _configureBucket(b, s)
            a == MinOf(_available(b), s.capacity)
<1>1. _available(b) \in Nat
  BY PreviewExact, BucketFields DEF _available
<1>2. /\ s.capacity \in Nat \ {0} /\ s.refillAmount \in Nat \ {0}
      /\ s.refillDuration \in Nat \ {0}
  BY EvmAssumption DEF Settings, Accepted
<1>3. a \in Nat /\ a <= s.capacity
  BY <1>1, <1>2 DEF MinOf
<1>4. s.capacity * s.refillDuration <= MaxBucketIdle * s.refillAmount
  BY BucketIdleAssumption
<1>. HIDE DEF a
<1>5. c = [capacity |-> s.capacity, available |-> a, refillAmount |-> s.refillAmount,
           refillDuration |-> s.refillDuration, idle |-> 0, remainder |-> 0]
  BY DEF _configureBucket, a
<1>6. c \in Buckets
  BY <1>2, <1>3, <1>5, BucketAssumption DEF Buckets
<1>7. Sound(c)
  BY <1>2, <1>3, <1>4, <1>5, <1>6 DEF Sound, WellFormed, Accepted, FillsInTime, Brim
<1>8. Level(c) = a * s.refillDuration /\ Brim(c) = s.capacity * s.refillDuration
  <2>1. Level(c) = a * s.refillDuration + 0
    BY <1>5, <1>7, SettledLevel DEF Stored
  <2>2. a * s.refillDuration \in Int
    BY <1>2, <1>3, SMT
  <2> QED
    BY <1>5, <2>1, <2>2 DEF Brim
<1>9. _available(c) = a
  BY <1>5 DEF _available, _preview
<1> QED
  BY <1>5, <1>7, <1>8, <1>9 DEF c, a

-----------------------------------------------------------------------------
(* Metering. *)

LEMMA MetersByLevel ==
    ASSUME NEW b, NEW used
    PROVE  BucketMeters(b, used) <=> used <= Brim(b) /\ Level(b) = Brim(b) - used
  BY DEF BucketMeters, Level, Brim

LEMMA ConsumeMeters ==
    ASSUME NEW b, NEW used \in Nat, NEW amount \in Nat,
           Sound(b), BucketMeters(b, used), CanTake(b, amount)
    PROVE  /\ used + amount * b.refillDuration \in Nat
           /\ BucketMeters(_consume(b, amount), used + amount * b.refillDuration)
<1>1. used <= Brim(b) /\ Level(b) = Brim(b) - used /\ Brim(b) \in Nat
  BY MetersByLevel, LevelBounds
<1>2. amount * b.refillDuration \in Nat
  BY BucketFields, SMT
<1>. DEFINE c == _consume(b, amount)
<1>3. /\ Brim(c) = Brim(b) /\ Level(c) = Level(b) - amount * b.refillDuration
      /\ amount * b.refillDuration <= Level(b)
  BY ConsumeExact
<1>. HIDE DEF c
<1>4. BucketMeters(c, used + amount * b.refillDuration)
  BY <1>1, <1>2, <1>3, MetersByLevel
<1> QED
  BY <1>2, <1>4 DEF c

LEMMA OlderMeters ==
    ASSUME NEW b, NEW used \in Nat, Sound(b), BucketMeters(b, used)
    PROVE  /\ Monus(used, b.refillAmount) \in Nat
           /\ BucketMeters(Older(b), Monus(used, b.refillAmount))
<1>1. used <= Brim(b) /\ Level(b) = Brim(b) - used /\ Brim(b) \in Nat
  BY MetersByLevel, LevelBounds
<1>2. b.refillAmount \in Nat
  BY BucketFields
<1>. DEFINE c == Older(b)
<1>3. Brim(c) = Brim(b) /\ Level(c) = MinOf(Brim(b), Level(b) + b.refillAmount)
  BY OlderExact
<1>. HIDE DEF c
<1>4. Monus(used, b.refillAmount) \in Nat
  BY <1>2 DEF Monus
<1>5. /\ Monus(used, b.refillAmount) <= Brim(c)
      /\ Level(c) = Brim(c) - Monus(used, b.refillAmount)
  BY <1>1, <1>2, <1>3 DEF Monus, MinOf
<1> QED
  BY <1>4, <1>5, MetersByLevel DEF c

LEMMA ConfigureMeters ==
    ASSUME NEW b, NEW used \in Nat, Sound(b), BucketMeters(b, used),
           NEW s \in BucketSettings, Accepted(s)
    PROVE  /\ UsedAfterConfigure(b, used, s) \in Nat
           /\ BucketMeters(_configureBucket(b, s), UsedAfterConfigure(b, used, s))
<1>. DEFINE c == _configureBucket(b, s)
            a == MinOf(_available(b), s.capacity)
<1>1. (b.capacity * b.refillDuration - used) \div b.refillDuration = _available(b)
  <2>1. b.capacity * b.refillDuration - used = Level(b)
    BY MetersByLevel DEF Brim
  <2> QED
    BY <2>1, AvailableIsQuotient
<1>2. UsedAfterConfigure(b, used, s) = (s.capacity - a) * s.refillDuration
  BY <1>1 DEF UsedAfterConfigure
<1>3. _available(b) \in Nat /\ s.capacity \in Nat /\ s.refillDuration \in Nat
  BY PreviewExact, BucketFields, EvmAssumption DEF _available, Settings
<1>4. a \in Nat /\ s.capacity - a \in Nat
  BY <1>3 DEF MinOf
<1>5. /\ Brim(c) = s.capacity * s.refillDuration
      /\ Level(c) = a * s.refillDuration
  BY ConfigureExact
<1>. HIDE DEF a, c
<1>6. /\ (s.capacity - a) * s.refillDuration
             = s.capacity * s.refillDuration - a * s.refillDuration
      /\ (s.capacity - a) * s.refillDuration \in Nat
      /\ s.capacity * s.refillDuration \in Nat /\ a * s.refillDuration \in Nat
  BY <1>3, <1>4, SMT
<1>7. BucketMeters(c, UsedAfterConfigure(b, used, s))
  BY <1>2, <1>5, <1>6, MetersByLevel
<1> QED
  BY <1>2, <1>6, <1>7 DEF c

-----------------------------------------------------------------------------
(* The contract. *)

BucketsSound ==
    /\ Sound(outBucket) /\ outUsed \in Nat /\ OutboundExact
    /\ Sound(inBucket) /\ inUsed \in Nat /\ InboundExact

RestOK ==
    /\ owner \in Owners /\ evmPaused \in BOOLEAN /\ evmPeer \in EvmPeers
    /\ totalSupply \in 0 .. MaxSupply

\* The inductive invariant: metering needs the settings to be accepted ones and
\* to fill a bucket in time, which every way of setting them ensures.
EvmInv == RestOK /\ BucketsSound

LEMMA InvImplies == EvmInv => EvmTypeOK /\ BucketsWellFormed
  BY DEF EvmInv, RestOK, BucketsSound, Sound, EvmTypeOK, BucketsWellFormed

LEMMA InitHolds == Init => EvmInv
<1>1. SUFFICES ASSUME Init PROVE EvmInv
  OBVIOUS
<1>. DEFINE c == FullBucket(Canary)
<1>2. /\ Canary.capacity \in Nat \ {0} /\ Canary.refillAmount \in Nat \ {0}
      /\ Canary.refillAmount <= Canary.capacity /\ Canary.capacity <= MaxCapacity
      /\ Canary.refillDuration \in Nat \ {0}
  BY EvmAssumption DEF Settings, Accepted
<1>3. Canary.capacity * Canary.refillDuration <= MaxBucketIdle * Canary.refillAmount
  BY EvmAssumption, BucketIdleAssumption
<1>4. c = [capacity |-> Canary.capacity, available |-> Canary.capacity,
           refillAmount |-> Canary.refillAmount,
           refillDuration |-> Canary.refillDuration, idle |-> 0, remainder |-> 0]
  BY DEF FullBucket
<1>. HIDE DEF c
<1>5. c \in Buckets
  BY <1>2, <1>4, BucketAssumption DEF Buckets
<1>6. Sound(c)
  BY <1>2, <1>3, <1>4, <1>5 DEF Sound, WellFormed, Accepted, FillsInTime, Brim
<1>7. BucketMeters(c, 0)
  <2>1. Level(c) = Stored(c) /\ Stored(c) = Brim(c) + 0 /\ Brim(c) \in Nat
    BY <1>4, <1>6, SettledLevel, LevelBounds DEF Stored, Brim
  <2> QED
    BY <2>1, MetersByLevel
<1>8. BucketsSound
  BY <1>1, <1>6, <1>7 DEF Init, BucketsSound, OutboundExact, InboundExact, c
<1>9. RestOK
  BY <1>1, EvmAssumption DEF Init, RestOK
<1> QED
  BY <1>8, <1>9 DEF EvmInv

LEMMA StayingAges ==
    ASSUME NEW b, Sound(b)
    PROVE  Aging(b, b)
<1>1. _available(b) \in Nat
  BY PreviewExact, BucketFields DEF _available
<1> QED
  BY <1>1 DEF Aging

LEMMA SendStep ==
    ASSUME EvmInv, NEW amount \in EvmAmounts, NEW min, send(amount, min)
    PROVE  EvmInv' /\ Aging(outBucket, outBucket') /\ Aging(inBucket, inBucket')
<1>1. /\ CanTake(outBucket, amount) /\ amount <= totalSupply
      /\ totalSupply' = totalSupply - amount
      /\ outBucket' = _consume(outBucket, amount)
      /\ outUsed' = outUsed + amount * outBucket.refillDuration
      /\ UNCHANGED <<owner, evmPaused, evmPeer, inBucket, inUsed>>
  BY DEF send
<1>2. amount \in Nat
  BY EvmAssumption
<1>3. Sound(outBucket) /\ outUsed \in Nat /\ BucketMeters(outBucket, outUsed)
  BY DEF EvmInv, BucketsSound, OutboundExact
<1>4. /\ Sound(_consume(outBucket, amount))
      /\ _available(_consume(outBucket, amount)) = _available(outBucket) - amount
  BY <1>1, <1>2, <1>3, ConsumeExact
<1>5. outUsed' \in Nat /\ BucketMeters(outBucket', outUsed')
  BY <1>1, <1>2, <1>3, ConsumeMeters
<1>6. RestOK'
  BY <1>1, <1>2, EvmAssumption DEF EvmInv, RestOK
<1>7. BucketsSound'
  BY <1>1, <1>4, <1>5 DEF EvmInv, BucketsSound, OutboundExact, InboundExact
<1>8. _available(outBucket) \in Nat
  BY <1>3, PreviewExact, BucketFields DEF _available
<1>9. Aging(outBucket, outBucket')
  BY <1>1, <1>2, <1>4, <1>8 DEF Aging
<1>10. Aging(inBucket, inBucket')
  BY <1>1, StayingAges DEF EvmInv, BucketsSound
<1> QED
  BY <1>6, <1>7, <1>9, <1>10 DEF EvmInv

LEMMA ReceiveStep ==
    ASSUME EvmInv, NEW amount \in EvmAmounts, NEW sender, lzReceive(sender, amount)
    PROVE  EvmInv' /\ Aging(outBucket, outBucket') /\ Aging(inBucket, inBucket')
<1>1. /\ CanTake(inBucket, amount) /\ totalSupply + amount <= MaxSupply
      /\ totalSupply' = totalSupply + amount
      /\ inBucket' = _consume(inBucket, amount)
      /\ inUsed' = inUsed + amount * inBucket.refillDuration
      /\ UNCHANGED <<owner, evmPaused, evmPeer, outBucket, outUsed>>
  BY DEF lzReceive
<1>2. amount \in Nat
  BY EvmAssumption
<1>3. Sound(inBucket) /\ inUsed \in Nat /\ BucketMeters(inBucket, inUsed)
  BY DEF EvmInv, BucketsSound, InboundExact
<1>4. /\ Sound(_consume(inBucket, amount))
      /\ _available(_consume(inBucket, amount)) = _available(inBucket) - amount
  BY <1>1, <1>2, <1>3, ConsumeExact
<1>5. inUsed' \in Nat /\ BucketMeters(inBucket', inUsed')
  BY <1>1, <1>2, <1>3, ConsumeMeters
<1>6. RestOK'
  BY <1>1, <1>2, EvmAssumption DEF EvmInv, RestOK
<1>7. BucketsSound'
  BY <1>1, <1>4, <1>5 DEF EvmInv, BucketsSound, OutboundExact, InboundExact
<1>8. _available(inBucket) \in Nat
  BY <1>3, PreviewExact, BucketFields DEF _available
<1>9. Aging(inBucket, inBucket')
  BY <1>1, <1>2, <1>4, <1>8 DEF Aging
<1>10. Aging(outBucket, outBucket')
  BY <1>1, StayingAges DEF EvmInv, BucketsSound
<1> QED
  BY <1>6, <1>7, <1>9, <1>10 DEF EvmInv

LEMMA TickStep ==
    ASSUME EvmInv, tick
    PROVE  EvmInv' /\ Aging(outBucket, outBucket') /\ Aging(inBucket, inBucket')
<1>1. /\ outBucket' = Older(outBucket) /\ inBucket' = Older(inBucket)
      /\ outUsed' = Monus(outUsed, outBucket.refillAmount)
      /\ inUsed' = Monus(inUsed, inBucket.refillAmount)
      /\ UNCHANGED <<owner, evmPaused, evmPeer, totalSupply>>
  BY DEF tick
<1>2. /\ Sound(outBucket) /\ outUsed \in Nat /\ BucketMeters(outBucket, outUsed)
      /\ Sound(inBucket) /\ inUsed \in Nat /\ BucketMeters(inBucket, inUsed)
  BY DEF EvmInv, BucketsSound, OutboundExact, InboundExact
<1>3. Sound(Older(outBucket)) /\ Sound(Older(inBucket))
  BY <1>2, OlderExact
<1>4. /\ outUsed' \in Nat /\ BucketMeters(outBucket', outUsed')
      /\ inUsed' \in Nat /\ BucketMeters(inBucket', inUsed')
  BY <1>1, <1>2, OlderMeters
<1>5. BucketsSound'
  BY <1>1, <1>3, <1>4 DEF BucketsSound, OutboundExact, InboundExact
<1>6. RestOK'
  BY <1>1 DEF EvmInv, RestOK
<1> QED
  BY <1>1, <1>5, <1>6 DEF EvmInv, Aging

LEMMA OutboundStep ==
    ASSUME EvmInv, NEW s \in BucketSettings, NEW by, setOutboundRateLimit(by, s)
    PROVE  EvmInv' /\ Aging(outBucket, outBucket') /\ Aging(inBucket, inBucket')
<1>1. /\ Accepted(s)
      /\ outBucket' = _configureBucket(outBucket, s)
      /\ outUsed' = UsedAfterConfigure(outBucket, outUsed, s)
      /\ UNCHANGED <<owner, evmPaused, evmPeer, totalSupply, inBucket, inUsed>>
  BY DEF setOutboundRateLimit
<1>2. Sound(outBucket) /\ outUsed \in Nat /\ BucketMeters(outBucket, outUsed)
  BY DEF EvmInv, BucketsSound, OutboundExact
<1>3. /\ Sound(_configureBucket(outBucket, s))
      /\ _available(_configureBucket(outBucket, s))
           = MinOf(_available(outBucket), s.capacity)
  BY <1>1, <1>2, ConfigureExact
<1>4. outUsed' \in Nat /\ BucketMeters(outBucket', outUsed')
  BY <1>1, <1>2, ConfigureMeters
<1>5. _available(outBucket) \in Nat /\ s.capacity \in Nat
  BY <1>2, PreviewExact, BucketFields, EvmAssumption DEF _available, Settings
<1>6. BucketsSound'
  BY <1>1, <1>3, <1>4 DEF EvmInv, BucketsSound, OutboundExact, InboundExact
<1>7. RestOK'
  BY <1>1 DEF EvmInv, RestOK
<1>8. Aging(outBucket, outBucket')
  BY <1>1, <1>3, <1>5 DEF Aging, MinOf
<1>9. Aging(inBucket, inBucket')
  BY <1>1, StayingAges DEF EvmInv, BucketsSound
<1> QED
  BY <1>6, <1>7, <1>8, <1>9 DEF EvmInv

LEMMA InboundStep ==
    ASSUME EvmInv, NEW s \in BucketSettings, NEW by, setInboundRateLimit(by, s)
    PROVE  EvmInv' /\ Aging(outBucket, outBucket') /\ Aging(inBucket, inBucket')
<1>1. /\ Accepted(s)
      /\ inBucket' = _configureBucket(inBucket, s)
      /\ inUsed' = UsedAfterConfigure(inBucket, inUsed, s)
      /\ UNCHANGED <<owner, evmPaused, evmPeer, totalSupply, outBucket, outUsed>>
  BY DEF setInboundRateLimit
<1>2. Sound(inBucket) /\ inUsed \in Nat /\ BucketMeters(inBucket, inUsed)
  BY DEF EvmInv, BucketsSound, InboundExact
<1>3. /\ Sound(_configureBucket(inBucket, s))
      /\ _available(_configureBucket(inBucket, s))
           = MinOf(_available(inBucket), s.capacity)
  BY <1>1, <1>2, ConfigureExact
<1>4. inUsed' \in Nat /\ BucketMeters(inBucket', inUsed')
  BY <1>1, <1>2, ConfigureMeters
<1>5. _available(inBucket) \in Nat /\ s.capacity \in Nat
  BY <1>2, PreviewExact, BucketFields, EvmAssumption DEF _available, Settings
<1>6. BucketsSound'
  BY <1>1, <1>3, <1>4 DEF EvmInv, BucketsSound, OutboundExact, InboundExact
<1>7. RestOK'
  BY <1>1 DEF EvmInv, RestOK
<1>8. Aging(inBucket, inBucket')
  BY <1>1, <1>3, <1>5 DEF Aging, MinOf
<1>9. Aging(outBucket, outBucket')
  BY <1>1, StayingAges DEF EvmInv, BucketsSound
<1> QED
  BY <1>6, <1>7, <1>8, <1>9 DEF EvmInv

\* Every step keeps the invariant, and only tick lets more through.
LEMMA StepHolds ==
    ASSUME EvmInv, [Next]_evmVars
    PROVE  EvmInv' /\ Aging(outBucket, outBucket') /\ Aging(inBucket, inBucket')
<1>. DEFINE Goal == EvmInv' /\ Aging(outBucket, outBucket') /\ Aging(inBucket, inBucket')
<1>1. ASSUME RestOK', UNCHANGED <<outBucket, inBucket, outUsed, inUsed>>
      PROVE  Goal
  <2>1. BucketsSound'
    BY <1>1 DEF EvmInv, BucketsSound, OutboundExact, InboundExact
  <2>2. Aging(outBucket, outBucket') /\ Aging(inBucket, inBucket')
    BY <1>1, StayingAges DEF EvmInv, BucketsSound
  <2> QED
    BY <1>1, <2>1, <2>2 DEF EvmInv
<1>2. ASSUME NEW by \in Owners, pause(by) PROVE Goal
  BY <1>1, <1>2 DEF EvmInv, RestOK, pause
<1>3. ASSUME NEW by \in Owners, unpause(by) PROVE Goal
  BY <1>1, <1>3 DEF EvmInv, RestOK, unpause
<1>4. ASSUME NEW by \in Owners, NEW to \in Owners, transferOwnership(by, to) PROVE Goal
  BY <1>1, <1>4 DEF EvmInv, RestOK, transferOwnership
<1>5. ASSUME NEW by \in Owners, NEW p \in EvmPeers, setPeer(by, p) PROVE Goal
  BY <1>1, <1>5 DEF EvmInv, RestOK, setPeer
<1>6. ASSUME NEW by \in Owners, NEW s \in BucketSettings, setOutboundRateLimit(by, s)
      PROVE Goal
  BY <1>6, OutboundStep
<1>7. ASSUME NEW by \in Owners, NEW s \in BucketSettings, setInboundRateLimit(by, s)
      PROVE Goal
  BY <1>7, InboundStep
<1>8. ASSUME NEW amount \in EvmAmounts, NEW min \in {0, amount}, send(amount, min)
      PROVE Goal
  BY <1>8, SendStep
<1>9. ASSUME NEW sender \in EvmPeers, NEW amount \in EvmAmounts,
             lzReceive(sender, amount)
      PROVE Goal
  BY <1>9, ReceiveStep
<1>10. CASE tick
  BY <1>10, TickStep
<1>11. CASE UNCHANGED evmVars
  BY <1>1, <1>11 DEF EvmInv, RestOK, evmVars
<1>12. CASE Administer
  BY <1>12, <1>2, <1>3, <1>4, <1>5, <1>6, <1>7 DEF Administer
<1>13. CASE Transfer
  BY <1>13, <1>8, <1>9 DEF Transfer
<1> QED
  BY <1>10, <1>11, <1>12, <1>13 DEF Next

\* The inductive invariant holds in every reachable state.
THEOREM EvmInvariant == Spec => []EvmInv
  BY InitHolds, StepHolds, PTL DEF Spec

\* Every reachable state of the contract is well typed (SanOFT.sol).
THEOREM EvmTypesAlwaysHold == Spec => []EvmTypeOK
  BY EvmInvariant, InvImplies, PTL

\* What _preview relies on without checking holds whenever it is called.
THEOREM BucketsAlwaysWellFormed == Spec => []BucketsWellFormed
  BY EvmInvariant, InvImplies, PTL

\* Outbound traffic is metered to the fraction of a token, for every accepted
\* setting and every schedule of calls (_preview, _consume, _configureBucket).
THEOREM OutboundAlwaysExact == Spec => []OutboundExact
<1>1. EvmInv => OutboundExact
  BY DEF EvmInv, BucketsSound
<1> QED
  BY <1>1, EvmInvariant, PTL

\* And so is inbound traffic.
THEOREM InboundAlwaysExact == Spec => []InboundExact
<1>1. EvmInv => InboundExact
  BY DEF EvmInv, BucketsSound
<1> QED
  BY <1>1, EvmInvariant, PTL

\* No call of the contract raises what the next transfer may take, for every
\* setting an owner may ask for: only a passing second does.
THEOREM TimeAloneRefills == Spec => OnlyTimeRefills
<1>1. EvmInv /\ [Next]_evmVars =>
          [Aging(outBucket, outBucket') /\ Aging(inBucket, inBucket')]_evmVars
  BY StepHolds
<1> QED
  BY <1>1, EvmInvariant, PTL DEF Spec, OnlyTimeRefills

=============================================================================
