-------------------------- MODULE SolanaOFT_proofs --------------------------
(***************************************************************************)
(* The Solana program for every supply, fee, limit and set of keys: what   *)
(* the amount adjustment of a send guarantees, what a limiter's operations *)
(* do to its level, the program's types, the coverage of the liability by  *)
(* the escrow, and the metering of traffic by the limiters.                *)
(***************************************************************************)
EXTENDS SolanaOFT, Arith_proofs

-----------------------------------------------------------------------------
(* The adjustment of amounts: AdjustSound, from the two directions of the *)
(* mint's fee and from the removal of dust.                               *)
U == ONE_IN_BASIS_POINTS

-----------------------------------------------------------------------------
\* The mint's fee is at most its cap, at most the rounded up share, and at most
\* the amount.
LEMMA TokenFeeBounds ==
    ASSUME NEW tf \in TokenFees, NEW a \in Nat
    PROVE  /\ TokenFeeOn(tf, a) \in Nat
           /\ TokenFeeOn(tf, a) <= a
           /\ TokenFeeOn(tf, a) <= tf.max
           /\ TokenFeeOn(tf, a) <= CeilDiv(a * tf.bps, U)
           /\ PostFee(tf, a) \in Nat /\ PostFee(tf, a) <= a
<1>1. tf.bps \in Nat /\ tf.bps <= U /\ tf.max \in Nat /\ U \in Nat \ {0}
  BY RatesAssumption, WordAssumption DEF TokenFees, Amounts, U
<1>2. a * tf.bps \in Nat
  BY <1>1
<1>3. CeilDiv(a * tf.bps, U) \in Nat
  BY <1>1, <1>2, CeilDivReaches
<1>4. a * tf.bps <= U * a
  BY <1>1, SMT
<1>5. CeilDiv(a * tf.bps, U) <= a
  BY <1>1, <1>2, <1>4, CeilDivLeast
<1> QED
  BY <1>1, <1>3, <1>5 DEF TokenFeeOn, PostFee, MinOf, U

\* What PreFee asks to transfer delivers at least the amount wanted.
LEMMA PostOfPre ==
    ASSUME NEW tf \in TokenFees, NEW z \in Nat
    PROVE  PreFee(tf, z) \in Nat /\ z <= PostFee(tf, PreFee(tf, z))
<1>1. tf.bps \in Nat /\ tf.bps <= U /\ tf.max \in Nat /\ U \in Nat \ {0}
  BY RatesAssumption, WordAssumption DEF TokenFees, Amounts, U
<1>2. CASE tf.bps = 0 \/ z = 0
  BY <1>2, <1>1 DEF PreFee, PostFee, TokenFeeOn
<1>3. ASSUME PreFee(tf, z) = z + tf.max
      PROVE  PreFee(tf, z) \in Nat /\ z <= PostFee(tf, PreFee(tf, z))
  <2>1. z + tf.max \in Nat
    BY <1>1
  <2>2. TokenFeeOn(tf, z + tf.max) <= tf.max /\ TokenFeeOn(tf, z + tf.max) \in Nat
    BY <2>1, TokenFeeBounds
  <2> QED
    BY <1>1, <1>3, <2>1, <2>2 DEF PostFee
<1>4. CASE tf.bps # 0 /\ z # 0 /\ tf.bps = U
  BY <1>1, <1>3, <1>4 DEF PreFee, U
<1>5. CASE tf.bps # 0 /\ z # 0 /\ tf.bps # U
  <2>. DEFINE raw == CeilDiv(z * U, U - tf.bps)
  <2>1. U - tf.bps \in Nat \ {0} /\ z * U \in Nat
    BY <1>1, <1>5
  <2>2. raw \in Nat /\ z * U <= (U - tf.bps) * raw
    BY <2>1, CeilDivReaches
  <2>3. PreFee(tf, z) = IF raw - z >= tf.max THEN z + tf.max ELSE raw
    BY <1>5 DEF PreFee, U
  <2>4. CASE raw - z >= tf.max
    BY <1>3, <2>3, <2>4
  <2>5. CASE ~(raw - z >= tf.max)
    <3>1. PreFee(tf, z) = raw
      BY <2>3, <2>5
    <3>2. raw * tf.bps <= U * (raw - z)
      <4>1. (U - tf.bps) * raw = U * raw - raw * tf.bps
        BY <1>1, <2>2, SMT
      <4>2. U * (raw - z) = U * raw - z * U
        BY <1>1, <2>2, SMT
      <4>3. U * raw \in Int /\ raw * tf.bps \in Int /\ z * U \in Int
        BY <1>1, <2>2
      <4> QED
        BY <2>2, <4>1, <4>2, <4>3
    <3>3. CeilDiv(raw * tf.bps, U) <= raw - z
      <4>1. raw * tf.bps \in Nat /\ raw - z \in Int
        BY <1>1, <2>2
      <4> QED
        BY <1>1, <3>2, <4>1, CeilDivLeast
    <3>4. /\ TokenFeeOn(tf, raw) \in Nat
          /\ TokenFeeOn(tf, raw) <= CeilDiv(raw * tf.bps, U)
          /\ CeilDiv(raw * tf.bps, U) \in Nat
      <4>1. raw * tf.bps \in Nat
        BY <1>1, <2>2
      <4> QED
        BY <1>1, <2>2, <4>1, TokenFeeBounds, CeilDivReaches
    <3> QED
      BY <2>2, <3>1, <3>3, <3>4 DEF PostFee
  <2> QED
    BY <2>4, <2>5
<1> QED
  BY <1>2, <1>4, <1>5

\* PreFee never asks for more than an amount that would have been enough.
LEMMA PreLeast ==
    ASSUME NEW tf \in TokenFees, NEW a \in Nat, NEW z \in Nat,
           z <= PostFee(tf, a)
    PROVE  PreFee(tf, z) <= a
<1>1. tf.bps \in Nat /\ tf.bps <= U /\ tf.max \in Nat /\ U \in Nat \ {0}
  BY RatesAssumption, WordAssumption DEF TokenFees, Amounts, U
<1>2. CASE tf.bps = 0 \/ z = 0
  BY <1>2, <1>1 DEF PreFee, PostFee, TokenFeeOn
<1>3. CASE tf.bps # 0 /\ z # 0
  <2>. DEFINE c == CeilDiv(a * tf.bps, U)
  <2>1. a * tf.bps \in Nat
    BY <1>1
  <2>2. c \in Nat /\ a * tf.bps <= U * c
    BY <1>1, <2>1, CeilDivReaches
  <2>3. a # 0
    BY <1>3, TokenFeeBounds
  <2>4. z <= a - MinOf(c, tf.max)
    BY <1>3, <2>3 DEF PostFee, TokenFeeOn, U
  <2>5. CASE tf.bps = U
    <3>1. U * a <= U * c
      BY <1>1, <2>2, <2>5, SMT
    <3>2. a <= c
      BY <1>1, <2>2, <3>1, SMT
    <3>3. PreFee(tf, z) = tf.max + z
      BY <1>3, <2>5 DEF PreFee, U
    <3> QED
      BY <1>1, <1>3, <2>2, <2>4, <3>2, <3>3 DEF MinOf
  <2>6. CASE tf.bps # U
    <3>. DEFINE raw == CeilDiv(z * U, U - tf.bps)
    <3>1. U - tf.bps \in Nat \ {0} /\ z * U \in Nat
      BY <1>1, <1>3, <2>6
    <3>2. raw \in Nat
      BY <3>1, CeilDivReaches
    <3>3. PreFee(tf, z) = IF raw - z >= tf.max THEN z + tf.max ELSE raw
      BY <1>3, <2>6 DEF PreFee, U
    <3>4. CASE tf.max <= c
      BY <1>1, <2>2, <2>4, <3>2, <3>3, <3>4 DEF MinOf
    <3>5. CASE c < tf.max
      <4>1. z <= a - c
        BY <1>1, <2>2, <2>4, <3>5 DEF MinOf
      <4>2. z * U <= (a - c) * U
        BY <1>1, <2>2, <4>1, SMT
      <4>3. /\ (a - c) * U = a * U - U * c
            /\ (U - tf.bps) * a = a * U - a * tf.bps
            /\ a * U \in Int /\ U * c \in Int
        BY <1>1, <2>2, SMT
      <4>4. z * U <= (U - tf.bps) * a
        BY <2>1, <2>2, <3>1, <4>2, <4>3
      <4>5. raw <= a
        BY <3>1, <4>4, CeilDivLeast
      <4> QED
        BY <1>1, <3>2, <3>3, <4>5
    <3> QED
      BY <1>1, <2>2, <3>4, <3>5
  <2> QED
    BY <2>5, <2>6
<1> QED
  BY <1>2, <1>3

-----------------------------------------------------------------------------
(* Whole shared units. *)

LEMMA MultipleHasNoDust ==
    ASSUME NEW q \in Int
    PROVE  /\ (ld2sd_rate * q) % ld2sd_rate = 0
           /\ (ld2sd_rate * q) \div ld2sd_rate = q
<1>. DEFINE x == ld2sd_rate * q
<1>1. ld2sd_rate \in Nat \ {0}
  BY RatesAssumption
<1>2. x \in Int
  BY <1>1
<1>3. x \div ld2sd_rate = q
  BY <1>1, <1>2, DivUnique
<1>. HIDE DEF x
<1>4. x = ld2sd_rate * (x \div ld2sd_rate) + (x % ld2sd_rate) /\ x % ld2sd_rate \in Int
  BY <1>1, <1>2, DivMod
<1> QED
  BY <1>1, <1>2, <1>3, <1>4 DEF x

\* A difference of whole shared units is whole.
LEMMA WholeDifference ==
    ASSUME NEW x \in Int, NEW y \in Int,
           x % ld2sd_rate = 0, y % ld2sd_rate = 0
    PROVE  (x - y) % ld2sd_rate = 0 /\ (x + y) % ld2sd_rate = 0
<1>. DEFINE p == x \div ld2sd_rate
            q == y \div ld2sd_rate
<1>1. ld2sd_rate \in Nat \ {0}
  BY RatesAssumption
<1>2. p \in Int /\ q \in Int /\ x = ld2sd_rate * p /\ y = ld2sd_rate * q
  BY <1>1, DivMod
<1>3. x - y = ld2sd_rate * (p - q) /\ x + y = ld2sd_rate * (p + q)
  BY <1>1, <1>2, SMT
<1>4. p - q \in Int /\ p + q \in Int
  BY <1>2
<1> QED
  BY <1>3, <1>4, MultipleHasNoDust

LEMMA RemovedDust ==
    ASSUME NEW x \in Nat
    PROVE  /\ remove_dust(x) \in Nat
           /\ remove_dust(x) <= x
           /\ remove_dust(x) % ld2sd_rate = 0
<1>. DEFINE q == x \div ld2sd_rate
<1>1. ld2sd_rate \in Nat \ {0}
  BY RatesAssumption
<1>2. /\ q \in Int /\ x % ld2sd_rate \in 0 .. ld2sd_rate - 1
      /\ x = ld2sd_rate * q + (x % ld2sd_rate)
  BY <1>1, DivMod
<1>3. ld2sd_rate * 0 <= x
  BY <1>1
<1>4. 0 <= q
  BY <1>1, <1>3, DivLess
<1>5. remove_dust(x) = ld2sd_rate * q
  BY <1>1, <1>2 DEF remove_dust
<1>6. ld2sd_rate * q \in Nat
  BY <1>1, <1>2, <1>4
<1> QED
  BY <1>1, <1>2, <1>5, <1>6, MultipleHasNoDust

\* Sending whole shared units and converting them back loses nothing.
LEMMA SharedUnitsRoundTrip ==
    ASSUME NEW x \in Nat, x % ld2sd_rate = 0
    PROVE  ld2sd(x) \in Nat /\ sd2ld(ld2sd(x)) = x
<1>1. ld2sd_rate \in Nat \ {0}
  BY RatesAssumption
<1>2. x \div ld2sd_rate \in Int /\ x = ld2sd_rate * (x \div ld2sd_rate)
  BY <1>1, DivMod
<1>3. ld2sd_rate * 0 <= x
  BY <1>1
<1>4. 0 <= x \div ld2sd_rate
  BY <1>1, <1>3, DivLess
<1> QED
  BY <1>1, <1>2, <1>4 DEF ld2sd, sd2ld

\* The program's own fee is a part of the amount.
LEMMA FeeBounds ==
    ASSUME NEW a \in Nat, NEW d \in 0 .. U - 1, NEW bps \in Option(0 .. U - 1)
    PROVE  calculate_fee(a, d, bps) \in Nat /\ calculate_fee(a, d, bps) <= a
<1>. DEFINE b == IF bps = None THEN d ELSE bps
            f == (a * b) \div U
<1>1. U \in Nat \ {0} /\ b \in Nat /\ b <= U
  BY RatesAssumption DEF Option, U
<1>2. a * b \in Nat /\ a * b <= U * a
  BY <1>1, SMT
<1>3. f \in Int /\ U * f <= a * b
  <2>. DEFINE n == a * b
  <2>1. n \in Int
    BY <1>2
  <2>. HIDE DEF n
  <2>2. n \div U \in Int /\ n % U \in 0 .. U - 1 /\ n = U * (n \div U) + (n % U)
    BY <1>1, <2>1, DivMod
  <2>3. U * (n \div U) <= n
    BY <1>1, <2>1, <2>2
  <2> QED
    BY <2>2, <2>3 DEF n
<1>4. U * 0 <= a * b
  BY <1>1, <1>2
<1>5. 0 <= f
  BY <1>1, <1>2, <1>4, DivLess
<1>6. U * f <= U * a
  BY <1>1, <1>2, <1>3
<1>7. f <= a
  BY <1>1, <1>3, <1>6, SMT
<1>8. calculate_fee(a, d, bps) = f
  BY DEF calculate_fee, U
<1> QED
  BY <1>3, <1>5, <1>7, <1>8

-----------------------------------------------------------------------------
\* A send debits at most what was asked, delivers to the escrow at least the
\* bridged amount and the program's fee (exactly, for a burn), and bridges a
\* whole number of shared units: compute_fee_and_adjust_amount.
THEOREM AdjustSound ==
    ASSUME NEW type \in {"Adapter", "Native"}, NEW amount \in Nat,
           NEW tf \in TokenFees, NEW d \in 0 .. U - 1,
           NEW bps \in Option(0 .. U - 1)
    PROVE  LET a == Adjust(type, amount, tf, d, bps)
           IN  /\ a.sent \in Nat /\ a.received \in Nat /\ a.fee \in Nat
               /\ a.sent <= amount
               /\ a.received + a.fee <= a.sent
               /\ type = "Adapter" => a.received + a.fee <= PostFee(tf, a.sent)
               /\ type = "Native" => a.received + a.fee = a.sent
               /\ a.received % ld2sd_rate = 0
<1>. DEFINE post == IF type = "Adapter" THEN PostFee(tf, amount) ELSE amount
            base == remove_dust(post)
            sent == IF type = "Adapter" THEN PreFee(tf, base) ELSE base
            share == calculate_fee(base, d, bps)
            fee == remove_dust(share)
<1>0. Adjust(type, amount, tf, d, bps) =
        [sent |-> sent, received |-> base - fee, fee |-> fee]
  BY DEF Adjust
<1>1. post \in Nat /\ post <= amount
  <2>1. PostFee(tf, amount) \in Nat /\ PostFee(tf, amount) <= amount
    BY TokenFeeBounds
  <2> QED
    BY <2>1
<1>. HIDE DEF post
<1>2. base \in Nat /\ base <= post /\ base % ld2sd_rate = 0
  BY <1>1, RemovedDust
<1>3. share \in Nat /\ share <= base
  BY <1>2, FeeBounds
<1>4. fee \in Nat /\ fee <= base /\ fee % ld2sd_rate = 0
  <2>1. fee \in Nat /\ fee <= share /\ fee % ld2sd_rate = 0
    BY <1>3, RemovedDust
  <2> QED
    BY <1>2, <1>3, <2>1
<1>5. (base - fee) % ld2sd_rate = 0
  BY <1>2, <1>4, WholeDifference
<1>7. CASE type = "Adapter"
  <2>1. sent \in Nat /\ base <= PostFee(tf, sent)
    BY <1>2, <1>7, PostOfPre
  <2>2. sent <= amount
    <3>1. base <= PostFee(tf, amount)
      BY <1>2, <1>7 DEF post
    <3>. HIDE DEF base
    <3>2. PreFee(tf, base) <= amount
      BY <1>2, <3>1, PreLeast
    <3> QED
      BY <1>7, <3>2
  <2>3. PostFee(tf, sent) <= sent /\ PostFee(tf, sent) \in Nat
    BY <2>1, TokenFeeBounds
  <2> QED
    BY <1>2, <1>4, <1>5, <1>0, <1>7, <2>1, <2>2, <2>3
<1>8. CASE type = "Native"
  BY <1>1, <1>2, <1>4, <1>5, <1>0, <1>8
<1> QED
  BY <1>7, <1>8

-----------------------------------------------------------------------------
(* The operations of a limiter. *)

LEMMA LimiterFields ==
    ASSUME NEW l \in Limiters
    PROVE  /\ l.capacity \in Nat /\ l.capacity <= MaxU64
           /\ l.tokens \in Nat /\ l.tokens <= MaxU64
           /\ l.rate \in Nat /\ l.rate <= MaxU64
           /\ l.idle \in Nat /\ l.idle <= MaxIdle
           /\ l.idle * l.rate \in Nat
           /\ MaxU64 \in Nat /\ MaxIdle \in Nat /\ MaxU64 <= MaxIdle
           /\ l # None
<1>1. /\ l.capacity \in Nat /\ l.capacity <= MaxU64
      /\ l.tokens \in Nat /\ l.tokens <= MaxU64
      /\ l.rate \in Nat /\ l.rate <= MaxU64
      /\ l.idle \in Nat /\ l.idle <= MaxIdle
  BY WordAssumption, IdleAssumption DEF Limiters, Amounts
<1> QED
  BY <1>1, WordAssumption, IdleAssumption, NoneAssumption

\* Refilling with extra tokens is refilling and then adding them, up to the
\* capacity: no saturation changes the result.
LEMMA RefilledExact ==
    ASSUME NEW l \in Limiters, NEW extra \in Nat
    PROVE  /\ Refilled(l, extra) = MinOf(l.capacity, Refilled(l, 0) + extra)
           /\ Refilled(l, 0) = MinOf(l.capacity, l.tokens + l.idle * l.rate)
           /\ Refilled(l, extra) \in 0 .. l.capacity
<1>. DEFINE p == l.idle * l.rate
<1>1. /\ p \in Nat /\ l.capacity \in Nat /\ l.tokens \in Nat /\ MaxU64 \in Nat
      /\ l.capacity <= MaxU64
  BY LimiterFields
<1>. HIDE DEF p
<1>2. \A e \in Nat : Refilled(l, e) =
        MinOf(l.capacity, SatAdd(l.tokens, SatAdd(e, MinOf(p, MaxU64))))
  BY DEF Refilled, SatMul, p
<1>3. \A e \in Nat : Refilled(l, e) = MinOf(l.capacity, l.tokens + p + e)
  BY <1>1, <1>2 DEF SatAdd, MinOf
<1>4. Refilled(l, 0) = MinOf(l.capacity, l.tokens + p)
  BY <1>1, <1>3
<1>5. Refilled(l, extra) = MinOf(l.capacity, l.tokens + p + extra)
  BY <1>3
<1>6. Refilled(l, extra) = MinOf(l.capacity, Refilled(l, 0) + extra)
  BY <1>1, <1>4, <1>5 DEF MinOf
<1>7. Refilled(l, extra) \in 0 .. l.capacity
  BY <1>1, <1>5 DEF MinOf
<1> QED
  BY <1>4, <1>6, <1>7 DEF p

\* A second adds the rate, up to the capacity, also when idle stops counting.
LEMMA AgedExact ==
    ASSUME NEW l \in Limiters
    PROVE  /\ Aged(l) \in Limiters
           /\ Aged(l).capacity = l.capacity
           /\ Refilled(Aged(l), 0) = MinOf(l.capacity, Refilled(l, 0) + l.rate)
<1>. DEFINE a == [l EXCEPT !.idle = MinOf(l.idle + 1, MaxIdle)]
<1>1. l.idle \in Nat /\ l.idle <= MaxIdle /\ MaxIdle \in Nat /\ l # None
  BY LimiterFields
<1>2. MinOf(l.idle + 1, MaxIdle) \in 0 .. MaxIdle
  BY <1>1 DEF MinOf
<1>3. /\ a \in Limiters /\ a.capacity = l.capacity /\ a.tokens = l.tokens
      /\ a.rate = l.rate /\ a.idle = MinOf(l.idle + 1, MaxIdle)
  BY <1>2 DEF Limiters
<1>4. Aged(l) = a
  BY <1>1 DEF Aged
<1>. HIDE DEF a
<1>5. Refilled(a, 0) = MinOf(l.capacity, l.tokens + a.idle * l.rate)
  BY <1>3, RefilledExact
<1>6. Refilled(l, 0) = MinOf(l.capacity, l.tokens + l.idle * l.rate)
  BY RefilledExact
<1>7. /\ l.rate \in Nat /\ l.tokens \in Nat /\ l.capacity \in Nat
      /\ l.idle * l.rate \in Nat /\ l.capacity <= MaxIdle
  BY LimiterFields
<1>8. CASE l.idle + 1 <= MaxIdle
  <2>1. a.idle * l.rate = l.idle * l.rate + l.rate
    BY <1>1, <1>3, <1>7, <1>8, SMT DEF MinOf
  <2> QED
    BY <1>3, <1>4, <1>5, <1>6, <1>7, <2>1 DEF MinOf
<1>9. CASE ~(l.idle + 1 <= MaxIdle)
  <2>1. l.idle = MaxIdle /\ a.idle = l.idle
    BY <1>1, <1>3, <1>9 DEF MinOf
  <2>2. CASE l.rate = 0
    BY <1>3, <1>4, <1>5, <1>6, <1>7, <2>1, <2>2 DEF MinOf
  <2>3. CASE l.rate # 0
    <3>1. l.idle * l.rate >= l.idle
      BY <1>1, <1>7, <2>3, SMT
    <3> QED
      BY <1>1, <1>3, <1>4, <1>5, <1>6, <1>7, <2>1, <3>1 DEF MinOf
  <2> QED
    BY <2>2, <2>3
<1> QED
  BY <1>8, <1>9

\* The level right after an operation is what it left in the bucket.
LEMMA LevelWhenFresh ==
    ASSUME NEW l \in Limiters, l.idle = 0, l.tokens <= l.capacity
    PROVE  Refilled(l, 0) = l.tokens
<1>1. l.tokens \in Nat /\ l.capacity \in Nat /\ l.rate \in Nat
  BY LimiterFields
<1>2. l.idle * l.rate = 0
  BY <1>1
<1>3. Refilled(l, 0) = MinOf(l.capacity, l.tokens + l.idle * l.rate)
  BY RefilledExact
<1> QED
  BY <1>1, <1>2, <1>3 DEF MinOf

\* The operations keep the type, and the level is the obvious sum.
LEMMA RefillEffect ==
    ASSUME NEW l \in Limiters, NEW extra \in Nat
    PROVE  /\ refill(l, extra) \in Limiters
           /\ refill(l, extra).capacity = l.capacity
           /\ refill(l, extra).rate = l.rate
           /\ Refilled(refill(l, extra), 0)
                = MinOf(l.capacity, Refilled(l, 0) + extra)
<1>. DEFINE r == refill(l, extra)
<1>1. /\ Refilled(l, extra) \in 0 .. l.capacity
      /\ Refilled(l, extra) = MinOf(l.capacity, Refilled(l, 0) + extra)
  BY RefilledExact
<1>2. l.capacity \in Nat /\ l.capacity <= MaxU64 /\ MaxU64 \in Nat /\ MaxIdle \in Nat
  BY LimiterFields
<1>3. Refilled(l, extra) \in Amounts /\ 0 \in 0 .. MaxIdle
  BY <1>1, <1>2 DEF Amounts
<1>4. /\ r \in Limiters /\ r.capacity = l.capacity /\ r.idle = 0
      /\ r.tokens = Refilled(l, extra) /\ r.rate = l.rate
  BY <1>3 DEF refill, Limiters
<1>5. r.tokens <= r.capacity
  BY <1>1, <1>2, <1>4
<1> QED
  BY <1>1, <1>4, <1>5, LevelWhenFresh

LEMMA ConsumeEffect ==
    ASSUME NEW l \in Limiters, NEW amount \in Nat, CanConsume(l, amount)
    PROVE  /\ consume(l, amount) \in Limiters
           /\ consume(l, amount).capacity = l.capacity
           /\ Refilled(consume(l, amount), 0) = Refilled(l, 0) - amount
<1>. DEFINE r == consume(l, amount)
<1>1. Refilled(l, 0) \in 0 .. l.capacity /\ amount <= Refilled(l, 0)
  BY RefilledExact DEF CanConsume
<1>2. l.capacity \in Nat /\ l.capacity <= MaxU64 /\ MaxU64 \in Nat /\ MaxIdle \in Nat
  BY LimiterFields
<1>3. Refilled(l, 0) - amount \in Amounts /\ 0 \in 0 .. MaxIdle
  BY <1>1, <1>2 DEF Amounts
<1>4. /\ r \in Limiters /\ r.capacity = l.capacity /\ r.idle = 0
      /\ r.tokens = Refilled(l, 0) - amount
  BY <1>3 DEF consume, Limiters
<1>5. r.tokens <= r.capacity
  BY <1>1, <1>2, <1>4
<1> QED
  BY <1>4, <1>5, LevelWhenFresh

LEMMA SetCapacityEffect ==
    ASSUME NEW l \in Limiters, NEW capacity \in Amounts
    PROVE  /\ set_capacity(l, capacity) \in Limiters
           /\ set_capacity(l, capacity).capacity = capacity
           /\ Refilled(set_capacity(l, capacity), 0) = capacity
<1>. DEFINE r == set_capacity(l, capacity)
<1>1. 0 \in 0 .. MaxIdle /\ capacity \in Nat
  BY WordAssumption, IdleAssumption DEF Amounts
<1>2. /\ r \in Limiters /\ r.capacity = capacity /\ r.idle = 0
      /\ r.tokens = capacity
  BY <1>1 DEF set_capacity, Limiters
<1> QED
  BY <1>1, <1>2, LevelWhenFresh

LEMMA SetRateEffect ==
    ASSUME NEW l \in Limiters, NEW rate \in Amounts
    PROVE  /\ set_rate(l, rate) \in Limiters
           /\ set_rate(l, rate).capacity = l.capacity
           /\ Refilled(set_rate(l, rate), 0) = Refilled(l, 0)
<1>. DEFINE r == set_rate(l, rate)
<1>1. Refilled(l, 0) \in 0 .. l.capacity
  BY RefilledExact
<1>2. l.capacity \in Nat /\ l.capacity <= MaxU64 /\ MaxU64 \in Nat /\ MaxIdle \in Nat
  BY LimiterFields
<1>3. Refilled(l, 0) \in Amounts /\ 0 \in 0 .. MaxIdle
  BY <1>1, <1>2 DEF Amounts
<1>4. /\ r \in Limiters /\ r.capacity = l.capacity /\ r.idle = 0
      /\ r.tokens = Refilled(l, 0)
  BY <1>3 DEF set_rate, refill, Limiters
<1>5. r.tokens <= r.capacity
  BY <1>1, <1>2, <1>4
<1> QED
  BY <1>4, <1>5, LevelWhenFresh

LEMMA DefaultLimiterEffect ==
    DefaultLimiter \in Limiters /\ DefaultLimiter.capacity = 0
        /\ Refilled(DefaultLimiter, 0) = 0
<1>1. DefaultLimiter \in Limiters /\ DefaultLimiter.capacity = 0
  BY WordAssumption, IdleAssumption DEF DefaultLimiter, Limiters, Amounts
<1>2. Refilled(DefaultLimiter, 0) \in 0 .. 0
  BY <1>1, RefilledExact
<1> QED
  BY <1>1, <1>2

-----------------------------------------------------------------------------
(* The program. *)

\* What the parameters and the types give to every step.
LEMMA StoreFacts ==
    ASSUME SolanaTypeOK
    PROVE  /\ store.oft_type \in {"Adapter", "Native"}
           /\ store.tvl_ld \in Nat /\ store.tvl_ld <= MaxU64
           /\ store.default_fee_bps \in 0 .. U - 1
           /\ peer.fee_bps \in Option(0 .. U - 1)
           /\ peer.out \in Option(Limiters) /\ peer.in \in Option(Limiters)
           /\ tokenFee \in TokenFees
           /\ escrow \in Nat /\ wallet \in Nat /\ MaxU64 \in Nat
           /\ wallet + escrow <= MaxU64
           /\ outDebt \in Nat /\ inDebt \in Nat
  BY WordAssumption DEF SolanaTypeOK, Stores, PeerConfigs, Amounts, U

\* The adjustment of a send under the present configuration.
LEMMA AdjustedSound ==
    ASSUME SolanaTypeOK, NEW amount \in Nat
    PROVE  LET a == Adjusted(amount)
           IN  /\ a.sent \in Nat /\ a.received \in Nat /\ a.fee \in Nat
               /\ a.sent <= amount
               /\ a.received + a.fee <= a.sent
               /\ store.oft_type = "Adapter" =>
                    a.received + a.fee <= PostFee(tokenFee, a.sent)
               /\ store.oft_type = "Native" => a.received + a.fee = a.sent
               /\ a.received % ld2sd_rate = 0
  BY StoreFacts, AdjustSound DEF Adjusted

\* AdjustmentSound holds in every well-typed state: it does not depend on how
\* the configuration was reached.
LEMMA AdjustmentAlwaysSound == SolanaTypeOK => AdjustmentSound
<1>1. SUFFICES ASSUME SolanaTypeOK, NEW amount \in Amounts
               PROVE  LET a == Adjusted(amount)
                      IN  /\ a.sent <= amount
                          /\ PostFee(tokenFee, a.sent) >= a.received + a.fee
                              \/ store.oft_type = "Native"
                          /\ a.received \in Nat /\ a.received % ld2sd_rate = 0
  BY DEF AdjustmentSound
<1>. DEFINE a == Adjusted(amount)
<1>2. amount \in Nat
  BY WordAssumption DEF Amounts
<1>3. /\ a.sent \in Nat /\ a.received \in Nat /\ a.fee \in Nat
      /\ a.sent <= amount
      /\ store.oft_type = "Adapter" =>
           a.received + a.fee <= PostFee(tokenFee, a.sent)
      /\ a.received % ld2sd_rate = 0
  BY <1>1, <1>2, AdjustedSound
<1>4. PostFee(tokenFee, a.sent) \in Nat
  BY <1>1, <1>3, StoreFacts, TokenFeeBounds
<1>5. store.oft_type \in {"Adapter", "Native"}
  BY <1>1, StoreFacts
<1>. HIDE DEF a
<1> QED
  BY <1>3, <1>4, <1>5 DEF a

-----------------------------------------------------------------------------
(* The limiters. *)

\* What a transfer, a second or an update makes of an optional limiter that
\* meters its traffic: it keeps its type and still meters.
LEMMA ConsumedMeters ==
    ASSUME NEW l \in Option(Limiters), NEW debt \in Nat, NEW amount \in Nat,
           Admits(l, amount)
    PROVE  /\ Consumed(l, amount) \in Option(Limiters)
           /\ DebtAfterSpending(l, debt, amount) \in Nat
           /\ LimiterMeters(l, debt) =>
                LimiterMeters(Consumed(l, amount), DebtAfterSpending(l, debt, amount))
<1>1. CASE l = None
  BY <1>1 DEF Consumed, DebtAfterSpending, LimiterMeters, Option
<1>2. CASE l # None
  <2>1. l \in Limiters /\ CanConsume(l, amount)
    BY <1>2 DEF Option, Admits
  <2>. DEFINE c == consume(l, amount)
  <2>2. /\ c \in Limiters /\ c.capacity = l.capacity
        /\ Refilled(c, 0) = Refilled(l, 0) - amount
    BY <2>1, ConsumeEffect
  <2>3. c # None /\ l.capacity \in Nat
    BY <2>1, <2>2, LimiterFields
  <2>4. Refilled(l, 0) \in 0 .. l.capacity /\ amount <= Refilled(l, 0)
    BY <2>1, RefilledExact DEF CanConsume
  <2>. HIDE DEF c
  <2>5. Consumed(l, amount) = c /\ DebtAfterSpending(l, debt, amount) = debt + amount
    BY <1>2 DEF Consumed, DebtAfterSpending, c
  <2>6. ASSUME LimiterMeters(l, debt) PROVE LimiterMeters(c, debt + amount)
    <3>1. debt <= l.capacity /\ Refilled(l, 0) = l.capacity - debt
      BY <1>2, <2>6 DEF LimiterMeters
    <3>2. debt + amount <= c.capacity /\ Refilled(c, 0) = c.capacity - (debt + amount)
      BY <2>2, <2>3, <2>4, <3>1
    <3> QED
      BY <2>3, <3>2 DEF LimiterMeters
  <2> QED
    BY <2>2, <2>5, <2>6 DEF Option
<1> QED
  BY <1>1, <1>2

LEMMA CreditMeters ==
    ASSUME NEW l \in Option(Limiters), NEW debt \in Nat, NEW amount \in Nat
    PROVE  /\ CrossRefilled(l, amount) \in Option(Limiters)
           /\ DebtAfterCredit(debt, amount) \in Nat
           /\ LimiterMeters(l, debt) =>
                LimiterMeters(CrossRefilled(l, amount), DebtAfterCredit(debt, amount))
<1>1. DebtAfterCredit(debt, amount) \in Nat
  BY DEF DebtAfterCredit, Monus
<1>2. CASE l = None
  BY <1>1, <1>2 DEF CrossRefilled, DebtAfterCredit, Monus, LimiterMeters, Option
<1>3. CASE l # None
  <2>1. l \in Limiters
    BY <1>3 DEF Option
  <2>. DEFINE c == refill(l, amount)
  <2>2. /\ c \in Limiters /\ c.capacity = l.capacity
        /\ Refilled(c, 0) = MinOf(l.capacity, Refilled(l, 0) + amount)
    BY <2>1, RefillEffect
  <2>3. c # None /\ l.capacity \in Nat
    BY <2>1, <2>2, LimiterFields
  <2>. HIDE DEF c
  <2>4. CrossRefilled(l, amount) = c
    BY <1>3 DEF CrossRefilled, c
  <2>5. ASSUME LimiterMeters(l, debt) PROVE LimiterMeters(c, DebtAfterCredit(debt, amount))
    <3>1. debt <= l.capacity /\ Refilled(l, 0) = l.capacity - debt
      BY <1>3, <2>5 DEF LimiterMeters
    <3> QED
      BY <2>2, <2>3, <3>1 DEF LimiterMeters, DebtAfterCredit, Monus, MinOf
  <2> QED
    BY <1>1, <2>2, <2>4, <2>5 DEF Option
<1> QED
  BY <1>2, <1>3

LEMMA SecondMeters ==
    ASSUME NEW l \in Option(Limiters), NEW debt \in Nat
    PROVE  /\ Aged(l) \in Option(Limiters)
           /\ DebtAfterSecond(l, debt) \in Nat
           /\ LimiterMeters(l, debt) => LimiterMeters(Aged(l), DebtAfterSecond(l, debt))
<1>1. CASE l = None
  BY <1>1 DEF Aged, DebtAfterSecond, LimiterMeters, Option
<1>2. CASE l # None
  <2>1. l \in Limiters
    BY <1>2 DEF Option
  <2>2. /\ Aged(l) \in Limiters /\ Aged(l).capacity = l.capacity
        /\ Refilled(Aged(l), 0) = MinOf(l.capacity, Refilled(l, 0) + l.rate)
    BY <2>1, AgedExact
  <2>3. Aged(l) # None /\ l.capacity \in Nat /\ l.rate \in Nat
    BY <2>1, <2>2, LimiterFields
  <2>4. DebtAfterSecond(l, debt) = Monus(debt, l.rate) /\ Monus(debt, l.rate) \in Nat
    BY <1>2, <2>3 DEF DebtAfterSecond, Monus
  <2>5. ASSUME LimiterMeters(l, debt) PROVE LimiterMeters(Aged(l), Monus(debt, l.rate))
    <3>1. debt <= l.capacity /\ Refilled(l, 0) = l.capacity - debt
      BY <1>2, <2>5 DEF LimiterMeters
    <3> QED
      BY <2>2, <2>3, <3>1 DEF LimiterMeters, Monus, MinOf
  <2> QED
    BY <2>2, <2>4, <2>5 DEF Option
<1> QED
  BY <1>1, <1>2

LEMMA UpdateMeters ==
    ASSUME NEW l \in Option(Limiters), NEW debt \in Nat, NEW p \in LimiterParams
    PROVE  /\ update_rate_limiter(l, p) \in Option(Limiters)
           /\ DebtAfterUpdate(debt, p) \in Nat
           /\ LimiterMeters(l, debt) =>
                LimiterMeters(update_rate_limiter(l, p), DebtAfterUpdate(debt, p))
<1>1. DebtAfterUpdate(debt, p) \in Nat
  BY DEF DebtAfterUpdate
<1>2. CASE p = None
  BY <1>2 DEF update_rate_limiter, DebtAfterUpdate, LimiterMeters, Option
<1>3. CASE p # None
  <2>. DEFINE l0 == IF l = None THEN DefaultLimiter ELSE l
              l1 == IF p.capacity = None THEN l0 ELSE set_capacity(l0, p.capacity)
              l2 == IF p.rate = None THEN l1 ELSE set_rate(l1, p.rate)
              d == DebtAfterUpdate(debt, p)
  <2>1. p.capacity \in Option(Amounts) /\ p.rate \in Option(Amounts)
    BY <1>3 DEF LimiterParams, Option
  <2>2. /\ l0 \in Limiters
        /\ LimiterMeters(l, debt) =>
             debt <= l0.capacity /\ Refilled(l0, 0) = l0.capacity - debt
    BY DefaultLimiterEffect DEF LimiterMeters, Option
  <2>. HIDE DEF l0
  <2>3. /\ l1 \in Limiters
        /\ LimiterMeters(l, debt) =>
             d <= l1.capacity /\ Refilled(l1, 0) = l1.capacity - d
    <3>1. CASE p.capacity = None
      BY <1>3, <2>2, <3>1 DEF DebtAfterUpdate
    <3>2. CASE p.capacity # None
      <4>1. p.capacity \in Amounts /\ p.capacity \in Nat /\ d = 0
        BY <2>1, <3>2, WordAssumption DEF Option, Amounts, DebtAfterUpdate
      <4>2. /\ set_capacity(l0, p.capacity) \in Limiters
            /\ set_capacity(l0, p.capacity).capacity = p.capacity
            /\ Refilled(set_capacity(l0, p.capacity), 0) = p.capacity
        BY <2>2, <4>1, SetCapacityEffect
      <4>3. l1 = set_capacity(l0, p.capacity)
        BY <3>2
      <4>. HIDE DEF l1
      <4> QED
        BY <4>1, <4>2, <4>3
    <3> QED
      BY <3>1, <3>2
  <2>. HIDE DEF l1
  <2>4. /\ l2 \in Limiters
        /\ LimiterMeters(l, debt) =>
             d <= l2.capacity /\ Refilled(l2, 0) = l2.capacity - d
    <3>1. CASE p.rate = None
      BY <2>3, <3>1
    <3>2. CASE p.rate # None
      <4>1. p.rate \in Amounts
        BY <2>1, <3>2 DEF Option
      <4>2. /\ set_rate(l1, p.rate) \in Limiters
            /\ set_rate(l1, p.rate).capacity = l1.capacity
            /\ Refilled(set_rate(l1, p.rate), 0) = Refilled(l1, 0)
        BY <2>3, <4>1, SetRateEffect
      <4> QED
        BY <2>3, <3>2, <4>2
    <3> QED
      BY <3>1, <3>2
  <2>5. update_rate_limiter(l, p) = l2
    BY <1>3 DEF update_rate_limiter, l1, l0
  <2>. HIDE DEF l2, d
  <2>6. l2 # None
    BY <2>4, LimiterFields
  <2>7. LimiterMeters(l, debt) => LimiterMeters(l2, d)
    BY <2>4, <2>6 DEF LimiterMeters
  <2> QED
    BY <1>1, <2>4, <2>5, <2>7 DEF Option, d
<1> QED
  BY <1>2, <1>3, <1>1

-----------------------------------------------------------------------------
(* The inductive invariant. *)

\* init_oft writes a new store, so the one before it must owe nothing.
NothingOwedBeforeInit == ~initialized => store.tvl_ld = 0

\* The amounts that move are the liability's, so these hold together: coverage
\* needs the types, whole units need that a received message is a whole number
\* of them, and each limiter meters on its own.
SolanaInv ==
    /\ SolanaTypeOK
    /\ EscrowCoversTVL
    /\ TVLWholeUnits
    /\ NothingOwedBeforeInit
    /\ OutboundMetered
    /\ InboundMetered

LEMMA InitInv == Init => SolanaInv
<1>. SUFFICES ASSUME Init PROVE SolanaInv
  OBVIOUS
<1>1. PICK type \in OFTTypes, admin \in Keys :
        store = NewStore(type, admin) /\ delegate = admin
  BY DEF Init
<1>2. type \in {"Adapter", "Native"} /\ ONE_IN_BASIS_POINTS \in Nat \ {0}
      /\ MaxU64 \in Nat /\ ld2sd_rate \in Nat \ {0}
  BY SolanaAssumption, RatesAssumption, WordAssumption
<1>3. store \in Stores /\ store.tvl_ld = 0
  BY <1>1, <1>2 DEF NewStore, Stores, Amounts, Option
<1>4. peer \in PeerConfigs /\ peer.out = None /\ peer.in = None
  BY SolanaAssumption DEF Init, NewPeer, PeerConfigs, Option
<1>5. SolanaTypeOK
  <2>1. /\ escrow \in Amounts /\ wallet \in Amounts
        /\ wallet + escrow <= MaxU64
    BY <1>2, SolanaAssumption DEF Init, Amounts
  <2>2. outDebt \in Nat /\ inDebt \in Nat
    BY DEF Init
  <2> QED
    BY <1>1, <1>3, <1>4, <2>1, <2>2, SolanaAssumption DEF Init, SolanaTypeOK
<1>6. 0 % ld2sd_rate = 0
  <2>1. 0 = ld2sd_rate * 0
    BY <1>2
  <2> QED
    BY <2>1, MultipleHasNoDust
<1> QED
  BY <1>3, <1>4, <1>5, <1>6
  DEF Init, SolanaInv, EscrowCoversTVL, TVLWholeUnits,
      NothingOwedBeforeInit, OutboundMetered, InboundMetered, LimiterMeters

\* init_oft writes a store that owes nothing.
LEMMA InitOFTKeepsInv ==
    ASSUME SolanaInv, NEW type \in OFTTypes, NEW admin \in Keys,
           InitOFT(type, admin)
    PROVE  SolanaInv'
<1>1. type \in {"Adapter", "Native"} /\ ONE_IN_BASIS_POINTS \in Nat \ {0}
      /\ MaxU64 \in Nat /\ ld2sd_rate \in Nat \ {0}
  BY SolanaAssumption, RatesAssumption, WordAssumption
<1>2. store' \in Stores /\ store'.tvl_ld = 0
  BY <1>1 DEF InitOFT, NewStore, Stores, Amounts, Option
<1>3. SolanaTypeOK'
  BY <1>2 DEF InitOFT, SolanaInv, SolanaTypeOK
<1>4. 0 % ld2sd_rate = 0
  <2>1. 0 = ld2sd_rate * 0
    BY <1>1
  <2> QED
    BY <2>1, MultipleHasNoDust
<1>5. escrow' \in Nat
  BY <1>1, <1>3 DEF SolanaTypeOK, Amounts
<1> QED
  BY <1>2, <1>3, <1>4, <1>5
  DEF InitOFT, SolanaInv, EscrowCoversTVL, TVLWholeUnits,
      NothingOwedBeforeInit, OutboundMetered, InboundMetered

\* A step that keeps the store's books and the limiters keeps the invariant.
LEMMA BooksKeepInv ==
    ASSUME SolanaInv, SolanaTypeOK',
           store'.tvl_ld = store.tvl_ld, store'.oft_type = store.oft_type,
           store.tvl_ld <= escrow',
           peer'.out = peer.out, peer'.in = peer.in,
           outDebt' = outDebt, inDebt' = inDebt, initialized' = initialized
    PROVE  SolanaInv'
  BY DEF SolanaInv, EscrowCoversTVL, TVLWholeUnits, NothingOwedBeforeInit,
      OutboundMetered, InboundMetered

LEMMA SetOFTConfigKeepsInv ==
    ASSUME SolanaInv, NEW key \in Keys, SetOFTConfig(key)
    PROVE  SolanaInv'
<1>1. ONE_IN_BASIS_POINTS \in Nat \ {0} /\ FeeSettings \subseteq Nat
  BY SolanaAssumption, RatesAssumption
<1>2. /\ store' \in Stores
      /\ store'.tvl_ld = store.tvl_ld /\ store'.oft_type = store.oft_type
  BY <1>1 DEF SetOFTConfig, ValidFeeBps, SolanaInv, SolanaTypeOK, Stores, Option
<1>3. SolanaTypeOK'
  BY <1>2 DEF SetOFTConfig, SolanaInv, SolanaTypeOK
<1> QED
  BY <1>2, <1>3, BooksKeepInv DEF SetOFTConfig, SolanaInv, EscrowCoversTVL

LEMMA SetDelegateKeepsInv ==
    ASSUME SolanaInv, NEW key \in Keys, SetDelegate(key)
    PROVE  SolanaInv'
<1>1. SolanaTypeOK'
  BY DEF SetDelegate, SolanaInv, SolanaTypeOK
<1> QED
  BY <1>1, BooksKeepInv DEF SetDelegate, SolanaInv, EscrowCoversTVL

LEMMA SetPeerConfigKeepsInv ==
    ASSUME SolanaInv, NEW key \in Keys, SetPeerConfig(key)
    PROVE  SolanaInv'
<1>1. ONE_IN_BASIS_POINTS \in Nat \ {0} /\ FeeSettings \subseteq Nat
  BY SolanaAssumption, RatesAssumption
<1>2. /\ peer' \in PeerConfigs
      /\ peer'.out = peer.out /\ peer'.in = peer.in
  BY <1>1 DEF SetPeerConfig, ValidFeeBps, SolanaInv, SolanaTypeOK, PeerConfigs, Option
<1>3. SolanaTypeOK'
  BY <1>2 DEF SetPeerConfig, SolanaInv, SolanaTypeOK
<1> QED
  BY <1>2, <1>3, BooksKeepInv DEF SetPeerConfig, SolanaInv, EscrowCoversTVL

LEMMA SetPauseKeepsInv ==
    ASSUME SolanaInv, NEW key \in Keys, NEW pausing \in BOOLEAN,
           SetPause(key, pausing)
    PROVE  SolanaInv'
<1>1. /\ store' \in Stores
      /\ store'.tvl_ld = store.tvl_ld /\ store'.oft_type = store.oft_type
  BY DEF SetPause, SolanaInv, SolanaTypeOK, Stores
<1>2. SolanaTypeOK'
  BY <1>1 DEF SetPause, SolanaInv, SolanaTypeOK
<1> QED
  BY <1>1, <1>2, BooksKeepInv DEF SetPause, SolanaInv, EscrowCoversTVL

LEMMA SetOutboundKeepsInv ==
    ASSUME SolanaInv, NEW key \in Keys, NEW p \in LimitSettings,
           SetOutboundRateLimit(key, p)
    PROVE  SolanaInv'
<1>. DEFINE l == update_rate_limiter(peer.out, p)
<1>1. p \in LimiterParams
  BY SolanaAssumption
<1>2. peer.out \in Option(Limiters) /\ outDebt \in Nat /\ peer \in PeerConfigs
  BY StoreFacts DEF SolanaInv, SolanaTypeOK
<1>3. /\ l \in Option(Limiters) /\ DebtAfterUpdate(outDebt, p) \in Nat
      /\ LimiterMeters(l, DebtAfterUpdate(outDebt, p))
  BY <1>1, <1>2, UpdateMeters DEF SolanaInv, OutboundMetered
<1>. HIDE DEF l
<1>4. peer' = [peer EXCEPT !.out = l] /\ outDebt' = DebtAfterUpdate(outDebt, p)
  BY DEF SetOutboundRateLimit, l
<1>5. peer' \in PeerConfigs /\ peer'.out = l /\ peer'.in = peer.in
  BY <1>2, <1>3, <1>4 DEF PeerConfigs
<1>6. SolanaTypeOK'
  BY <1>3, <1>4, <1>5 DEF SetOutboundRateLimit, SolanaInv, SolanaTypeOK
<1> QED
  BY <1>3, <1>4, <1>5, <1>6
  DEF SetOutboundRateLimit, SolanaInv, EscrowCoversTVL, TVLWholeUnits,
      NothingOwedBeforeInit, OutboundMetered, InboundMetered

LEMMA SetInboundKeepsInv ==
    ASSUME SolanaInv, NEW key \in Keys, NEW p \in LimitSettings,
           SetInboundRateLimit(key, p)
    PROVE  SolanaInv'
<1>. DEFINE l == update_rate_limiter(peer.in, p)
<1>1. p \in LimiterParams
  BY SolanaAssumption
<1>2. peer.in \in Option(Limiters) /\ inDebt \in Nat /\ peer \in PeerConfigs
  BY StoreFacts DEF SolanaInv, SolanaTypeOK
<1>3. /\ l \in Option(Limiters) /\ DebtAfterUpdate(inDebt, p) \in Nat
      /\ LimiterMeters(l, DebtAfterUpdate(inDebt, p))
  BY <1>1, <1>2, UpdateMeters DEF SolanaInv, InboundMetered
<1>. HIDE DEF l
<1>4. peer' = [peer EXCEPT !.in = l] /\ inDebt' = DebtAfterUpdate(inDebt, p)
  BY DEF SetInboundRateLimit, l
<1>5. peer' \in PeerConfigs /\ peer'.in = l /\ peer'.out = peer.out
  BY <1>2, <1>3, <1>4 DEF PeerConfigs
<1>6. SolanaTypeOK'
  BY <1>3, <1>4, <1>5 DEF SetInboundRateLimit, SolanaInv, SolanaTypeOK
<1> QED
  BY <1>3, <1>4, <1>5, <1>6
  DEF SetInboundRateLimit, SolanaInv, EscrowCoversTVL, TVLWholeUnits,
      NothingOwedBeforeInit, OutboundMetered, InboundMetered

\* withdraw_fee leaves the liability covered by its own check.
LEMMA WithdrawFeeKeepsInv ==
    ASSUME SolanaInv, NEW key \in Keys, NEW fee \in AskedAmounts,
           WithdrawFee(key, fee)
    PROVE  SolanaInv'
<1>1. fee \in Nat
  BY SolanaAssumption, WordAssumption DEF Amounts
<1>2. /\ store.tvl_ld \in Nat /\ escrow \in Nat /\ wallet \in Nat /\ MaxU64 \in Nat
      /\ wallet + escrow <= MaxU64
  BY StoreFacts DEF SolanaInv
<1>3. store.tvl_ld <= escrow - fee
  BY <1>1, <1>2 DEF WithdrawFee, Withdrawable
<1>4. escrow' \in Amounts /\ wallet' \in Amounts /\ wallet' + escrow' <= MaxU64
  BY <1>1, <1>2, <1>3 DEF WithdrawFee, Amounts
<1>5. SolanaTypeOK'
  BY <1>4 DEF WithdrawFee, SolanaInv, SolanaTypeOK
<1> QED
  BY <1>3, <1>5, BooksKeepInv DEF WithdrawFee

LEMMA DonateKeepsInv ==
    ASSUME SolanaInv, NEW amount \in AskedAmounts, Donate(amount)
    PROVE  SolanaInv'
<1>1. amount \in Nat
  BY SolanaAssumption, WordAssumption DEF Amounts
<1>2. /\ store.tvl_ld \in Nat /\ escrow \in Nat /\ wallet \in Nat /\ MaxU64 \in Nat
      /\ wallet + escrow <= MaxU64 /\ tokenFee \in TokenFees
  BY StoreFacts DEF SolanaInv
<1>3. PostFee(tokenFee, amount) \in Nat /\ PostFee(tokenFee, amount) <= amount
  BY <1>1, <1>2, TokenFeeBounds
<1>4. escrow' \in Amounts /\ wallet' \in Amounts /\ wallet' + escrow' <= MaxU64
  BY <1>1, <1>2, <1>3 DEF Donate, Amounts
<1>5. SolanaTypeOK'
  BY <1>4 DEF Donate, SolanaInv, SolanaTypeOK
<1>6. store.tvl_ld <= escrow'
  BY <1>2, <1>3 DEF Donate, SolanaInv, EscrowCoversTVL
<1> QED
  BY <1>5, <1>6, BooksKeepInv DEF Donate

LEMMA ChangeTokenFeeKeepsInv ==
    ASSUME SolanaInv, ChangeTokenFee
    PROVE  SolanaInv'
<1>1. SolanaTypeOK'
  BY SolanaAssumption DEF ChangeTokenFee, SolanaInv, SolanaTypeOK
<1> QED
  BY <1>1, BooksKeepInv DEF ChangeTokenFee, SolanaInv, EscrowCoversTVL

LEMMA TickKeepsInv ==
    ASSUME SolanaInv, Tick
    PROVE  SolanaInv'
<1>. DEFINE lo == Aged(peer.out)
            li == Aged(peer.in)
<1>1. /\ peer.out \in Option(Limiters) /\ outDebt \in Nat /\ peer \in PeerConfigs
      /\ peer.in \in Option(Limiters) /\ inDebt \in Nat
  BY StoreFacts DEF SolanaInv, SolanaTypeOK
<1>2. /\ lo \in Option(Limiters) /\ DebtAfterSecond(peer.out, outDebt) \in Nat
      /\ LimiterMeters(lo, DebtAfterSecond(peer.out, outDebt))
  BY <1>1, SecondMeters DEF SolanaInv, OutboundMetered
<1>3. /\ li \in Option(Limiters) /\ DebtAfterSecond(peer.in, inDebt) \in Nat
      /\ LimiterMeters(li, DebtAfterSecond(peer.in, inDebt))
  BY <1>1, SecondMeters DEF SolanaInv, InboundMetered
<1>. HIDE DEF lo, li
<1>4. peer' = [peer EXCEPT !.out = lo, !.in = li]
  BY DEF Tick, lo, li
<1>5. peer' \in PeerConfigs /\ peer'.out = lo /\ peer'.in = li
  BY <1>1, <1>2, <1>3, <1>4 DEF PeerConfigs
<1>6. SolanaTypeOK'
  BY <1>2, <1>3, <1>5 DEF Tick, SolanaInv, SolanaTypeOK
<1> QED
  BY <1>2, <1>3, <1>5, <1>6
  DEF Tick, SolanaInv, EscrowCoversTVL, TVLWholeUnits, NothingOwedBeforeInit,
      OutboundMetered, InboundMetered

\* The limiters across a send: outbound spends, inbound is credited.
LEMMA SendMeters ==
    ASSUME SolanaInv, NEW amount \in Nat, Admits(peer.out, amount),
           peer' = [peer EXCEPT !.out = Consumed(@, amount),
                                !.in = CrossRefilled(@, amount)],
           outDebt' = DebtAfterSpending(peer.out, outDebt, amount),
           inDebt' = DebtAfterCredit(inDebt, amount)
    PROVE  /\ peer' \in PeerConfigs /\ outDebt' \in Nat /\ inDebt' \in Nat
           /\ OutboundMetered' /\ InboundMetered'
<1>. DEFINE spent == Consumed(peer.out, amount)
            credited == CrossRefilled(peer.in, amount)
<1>1. /\ peer.out \in Option(Limiters) /\ outDebt \in Nat /\ peer \in PeerConfigs
      /\ peer.in \in Option(Limiters) /\ inDebt \in Nat
      /\ LimiterMeters(peer.out, outDebt) /\ LimiterMeters(peer.in, inDebt)
  BY StoreFacts DEF SolanaInv, SolanaTypeOK, OutboundMetered, InboundMetered
<1>2. spent \in Option(Limiters) /\ outDebt' \in Nat /\ LimiterMeters(spent, outDebt')
  BY <1>1, ConsumedMeters
<1>3. credited \in Option(Limiters) /\ inDebt' \in Nat /\ LimiterMeters(credited, inDebt')
  BY <1>1, CreditMeters
<1>4. peer' = [peer EXCEPT !.out = spent, !.in = credited]
  OBVIOUS
<1>. HIDE DEF spent, credited
<1>5. peer' \in PeerConfigs /\ peer'.out = spent /\ peer'.in = credited
  BY <1>1, <1>2, <1>3, <1>4 DEF PeerConfigs
<1> QED
  BY <1>2, <1>3, <1>5 DEF OutboundMetered, InboundMetered

\* The limiters across a receive: inbound spends, outbound is credited.
LEMMA ReceiveMeters ==
    ASSUME SolanaInv, NEW amount \in Nat, Admits(peer.in, amount),
           peer' = [peer EXCEPT !.in = Consumed(@, amount),
                                !.out = CrossRefilled(@, amount)],
           inDebt' = DebtAfterSpending(peer.in, inDebt, amount),
           outDebt' = DebtAfterCredit(outDebt, amount)
    PROVE  /\ peer' \in PeerConfigs /\ outDebt' \in Nat /\ inDebt' \in Nat
           /\ OutboundMetered' /\ InboundMetered'
<1>. DEFINE spent == Consumed(peer.in, amount)
            credited == CrossRefilled(peer.out, amount)
<1>1. /\ peer.out \in Option(Limiters) /\ outDebt \in Nat /\ peer \in PeerConfigs
      /\ peer.in \in Option(Limiters) /\ inDebt \in Nat
      /\ LimiterMeters(peer.out, outDebt) /\ LimiterMeters(peer.in, inDebt)
  BY StoreFacts DEF SolanaInv, SolanaTypeOK, OutboundMetered, InboundMetered
<1>2. spent \in Option(Limiters) /\ inDebt' \in Nat /\ LimiterMeters(spent, inDebt')
  BY <1>1, ConsumedMeters
<1>3. credited \in Option(Limiters) /\ outDebt' \in Nat /\ LimiterMeters(credited, outDebt')
  BY <1>1, CreditMeters
<1>4. peer' = [peer EXCEPT !.in = spent, !.out = credited]
  OBVIOUS
<1>. HIDE DEF spent, credited
<1>5. peer' \in PeerConfigs /\ peer'.in = spent /\ peer'.out = credited
  BY <1>1, <1>2, <1>3, <1>4 DEF PeerConfigs
<1> QED
  BY <1>2, <1>3, <1>5 DEF OutboundMetered, InboundMetered

\* A send: what it adds to the liability, a whole number of shared units, is no
\* more than what reaches the escrow once the mint's fee is withheld.
LEMMA SendKeepsInv ==
    ASSUME SolanaInv, NEW amount \in AskedAmounts, NEW min \in {0, amount},
           Send(amount, min)
    PROVE  SolanaInv'
<1>. DEFINE a == Adjusted(amount)
<1>1. amount \in Nat
  BY SolanaAssumption, WordAssumption DEF Amounts
<1>2. /\ store.oft_type \in {"Adapter", "Native"}
      /\ store.tvl_ld \in Nat /\ escrow \in Nat /\ wallet \in Nat /\ MaxU64 \in Nat
      /\ wallet + escrow <= MaxU64 /\ tokenFee \in TokenFees
  BY StoreFacts DEF SolanaInv
<1>3. /\ a.sent \in Nat /\ a.received \in Nat /\ a.fee \in Nat
      /\ a.received + a.fee <= a.sent
      /\ store.oft_type = "Adapter" =>
           a.received + a.fee <= PostFee(tokenFee, a.sent)
      /\ a.received % ld2sd_rate = 0
  BY <1>1, AdjustedSound DEF SolanaInv
<1>4. /\ PostFee(tokenFee, a.sent) \in Nat /\ PostFee(tokenFee, a.sent) <= a.sent
      /\ PostFee(tokenFee, a.fee) \in Nat /\ PostFee(tokenFee, a.fee) <= a.fee
  BY <1>2, <1>3, TokenFeeBounds
<1>. HIDE DEF a
<1>5. /\ Admits(peer.out, a.received)
      /\ peer' = [peer EXCEPT !.out = Consumed(@, a.received),
                              !.in = CrossRefilled(@, a.received)]
      /\ outDebt' = DebtAfterSpending(peer.out, outDebt, a.received)
      /\ inDebt' = DebtAfterCredit(inDebt, a.received)
      /\ \/ store.oft_type = "Adapter" /\ MovedByAdapter(a)
         \/ store.oft_type = "Native" /\ MovedByNative(a)
      /\ UNCHANGED <<initialized, delegate, peerExists, tokenFee>>
  BY DEF Send, a
<1>6. /\ peer' \in PeerConfigs /\ outDebt' \in Nat /\ inDebt' \in Nat
      /\ OutboundMetered' /\ InboundMetered'
  BY <1>3, <1>5, SendMeters
<1>7. /\ store' \in Stores /\ EscrowCoversTVL' /\ TVLWholeUnits'
      /\ escrow' \in Amounts /\ wallet' \in Amounts /\ wallet' + escrow' <= MaxU64
  <2>1. CASE store.oft_type = "Adapter"
    <3>1. /\ a.sent <= wallet /\ store.tvl_ld + a.received <= MaxU64
          /\ store' = [store EXCEPT !.tvl_ld = @ + a.received]
          /\ escrow' = escrow + PostFee(tokenFee, a.sent)
          /\ wallet' = wallet - PostFee(tokenFee, a.sent)
      BY <1>5, <2>1 DEF MovedByAdapter
    <3>2. /\ store' \in Stores /\ store'.oft_type = "Adapter"
          /\ store'.tvl_ld = store.tvl_ld + a.received
      BY <1>2, <1>3, <2>1, <3>1 DEF SolanaInv, SolanaTypeOK, Stores, Amounts
    <3>3. store'.tvl_ld % ld2sd_rate = 0
      <4>1. store.tvl_ld \in Int /\ store.tvl_ld % ld2sd_rate = 0
        BY <1>2 DEF SolanaInv, TVLWholeUnits
      <4>2. a.received \in Int /\ a.received % ld2sd_rate = 0
        BY <1>2, <1>3
      <4>3. (store.tvl_ld + a.received) % ld2sd_rate = 0
        BY <4>1, <4>2, WholeDifference, RatesAssumption
      <4> QED
        BY <3>2, <4>3
    <3>4. store'.tvl_ld <= escrow'
      BY <1>2, <1>3, <1>4, <2>1, <3>1, <3>2 DEF SolanaInv, EscrowCoversTVL
    <3>5. /\ escrow' \in Amounts /\ wallet' \in Amounts
          /\ wallet' + escrow' <= MaxU64
      BY <1>2, <1>3, <1>4, <3>1 DEF Amounts
    <3> QED
      BY <3>2, <3>3, <3>4, <3>5 DEF EscrowCoversTVL, TVLWholeUnits
  <2>2. CASE store.oft_type = "Native"
    <3>1. /\ a.sent <= wallet /\ store' = store
          /\ escrow' = escrow + PostFee(tokenFee, a.fee)
          /\ wallet' = wallet - (a.sent - a.fee) - PostFee(tokenFee, a.fee)
      BY <1>5, <2>2 DEF MovedByNative
    <3>2. /\ escrow' \in Amounts /\ wallet' \in Amounts
          /\ wallet' + escrow' <= MaxU64 /\ escrow <= escrow'
      BY <1>2, <1>3, <1>4, <3>1 DEF Amounts
    <3>3. store.tvl_ld <= escrow'
      BY <1>2, <3>2 DEF SolanaInv, EscrowCoversTVL, Amounts
    <3> QED
      BY <3>1, <3>2, <3>3
      DEF SolanaInv, SolanaTypeOK, EscrowCoversTVL, TVLWholeUnits
  <2> QED
    BY <1>2, <2>1, <2>2
<1>8. SolanaTypeOK'
  BY <1>5, <1>6, <1>7 DEF SolanaInv, SolanaTypeOK
<1>9. initialized'
  BY DEF Send
<1> QED
  BY <1>6, <1>7, <1>8, <1>9 DEF SolanaInv, NothingOwedBeforeInit

\* lz_receive pays out of the escrow exactly what it takes off the liability.
LEMMA LzReceiveKeepsInv ==
    ASSUME SolanaInv, NEW sender \in Peers, NEW amount_sd \in AskedAmounts,
           LzReceive(sender, amount_sd)
    PROVE  SolanaInv'
<1>. DEFINE amount == sd2ld(amount_sd)
<1>1. amount_sd \in Nat /\ ld2sd_rate \in Nat \ {0}
  BY SolanaAssumption, RatesAssumption, WordAssumption DEF Amounts
<1>2. amount \in Nat /\ amount = ld2sd_rate * amount_sd
  BY <1>1 DEF sd2ld
<1>3. amount % ld2sd_rate = 0
  BY <1>1, <1>2, MultipleHasNoDust
<1>4. /\ store.oft_type \in {"Adapter", "Native"}
      /\ store.tvl_ld \in Nat /\ escrow \in Nat /\ wallet \in Nat /\ MaxU64 \in Nat
      /\ wallet + escrow <= MaxU64
  BY StoreFacts DEF SolanaInv
<1>. HIDE DEF amount
<1>5. /\ Admits(peer.in, amount)
      /\ peer' = [peer EXCEPT !.in = Consumed(@, amount),
                              !.out = CrossRefilled(@, amount)]
      /\ inDebt' = DebtAfterSpending(peer.in, inDebt, amount)
      /\ outDebt' = DebtAfterCredit(outDebt, amount)
      /\ wallet' = wallet + amount
      /\ \/ /\ store.oft_type = "Adapter"
            /\ amount <= store.tvl_ld /\ amount <= escrow
            /\ store' = [store EXCEPT !.tvl_ld = @ - amount]
            /\ escrow' = escrow - amount
         \/ /\ store.oft_type = "Native"
            /\ wallet + escrow + amount <= MaxU64
            /\ UNCHANGED <<store, escrow>>
      /\ UNCHANGED <<initialized, delegate, peerExists, tokenFee>>
  BY DEF LzReceive, amount
<1>6. /\ peer' \in PeerConfigs /\ outDebt' \in Nat /\ inDebt' \in Nat
      /\ OutboundMetered' /\ InboundMetered'
  BY <1>2, <1>5, ReceiveMeters
<1>7. /\ store' \in Stores /\ EscrowCoversTVL' /\ TVLWholeUnits'
      /\ escrow' \in Amounts /\ wallet' \in Amounts /\ wallet' + escrow' <= MaxU64
  <2>1. CASE store.oft_type = "Adapter"
    <3>1. /\ amount <= store.tvl_ld /\ amount <= escrow
          /\ store' = [store EXCEPT !.tvl_ld = @ - amount]
          /\ escrow' = escrow - amount
      BY <1>5, <2>1
    <3>2. /\ store' \in Stores /\ store'.oft_type = "Adapter"
          /\ store'.tvl_ld = store.tvl_ld - amount
      BY <1>2, <1>4, <2>1, <3>1 DEF SolanaInv, SolanaTypeOK, Stores, Amounts
    <3>3. store'.tvl_ld % ld2sd_rate = 0
      <4>1. store.tvl_ld \in Int /\ store.tvl_ld % ld2sd_rate = 0
        BY <1>4 DEF SolanaInv, TVLWholeUnits
      <4>2. amount \in Int /\ amount % ld2sd_rate = 0
        BY <1>2, <1>3
      <4>3. (store.tvl_ld - amount) % ld2sd_rate = 0
        BY <4>1, <4>2, WholeDifference, RatesAssumption
      <4> QED
        BY <3>2, <4>3
    <3>4. store'.tvl_ld <= escrow'
      BY <1>2, <1>4, <3>1, <3>2 DEF SolanaInv, EscrowCoversTVL
    <3>5. /\ escrow' \in Amounts /\ wallet' \in Amounts
          /\ wallet' + escrow' <= MaxU64
      BY <1>2, <1>4, <1>5, <3>1 DEF Amounts
    <3> QED
      BY <3>2, <3>3, <3>4, <3>5 DEF EscrowCoversTVL, TVLWholeUnits
  <2>2. CASE store.oft_type = "Native"
    <3>1. store' = store /\ escrow' = escrow /\ wallet + escrow + amount <= MaxU64
      BY <1>5, <2>2
    <3>2. wallet' \in Amounts /\ wallet' + escrow' <= MaxU64
      BY <1>2, <1>4, <1>5, <3>1 DEF Amounts
    <3> QED
      BY <3>1, <3>2 DEF SolanaInv, SolanaTypeOK, EscrowCoversTVL, TVLWholeUnits
  <2> QED
    BY <1>4, <2>1, <2>2
<1>8. SolanaTypeOK'
  BY <1>5, <1>6, <1>7 DEF SolanaInv, SolanaTypeOK
<1>9. initialized'
  BY DEF LzReceive
<1> QED
  BY <1>6, <1>7, <1>8, <1>9 DEF SolanaInv, NothingOwedBeforeInit

LEMMA StutterKeepsInv ==
    ASSUME SolanaInv, UNCHANGED solanaVars
    PROVE  SolanaInv'
BY DEF solanaVars, SolanaInv, SolanaTypeOK, EscrowCoversTVL, TVLWholeUnits,
       NothingOwedBeforeInit, OutboundMetered, InboundMetered

LEMMA NextKeepsInv ==
    ASSUME SolanaInv, [Next]_solanaVars
    PROVE  SolanaInv'
<1>1. CASE Next
  <2>1. CASE \E type \in OFTTypes, admin \in Keys : InitOFT(type, admin)
    BY <2>1, InitOFTKeepsInv
  <2>2. CASE Configure
    <3>1. PICK key \in Keys :
            \/ SetOFTConfig(key)
            \/ SetDelegate(key)
            \/ SetPeerConfig(key)
            \/ \E p \in LimitSettings : SetOutboundRateLimit(key, p)
            \/ \E p \in LimitSettings : SetInboundRateLimit(key, p)
            \/ \E fee \in AskedAmounts : WithdrawFee(key, fee)
            \/ \E pausing \in BOOLEAN : SetPause(key, pausing)
      BY <2>2 DEF Configure
    <3> QED
      BY <3>1, SetOFTConfigKeepsInv, SetDelegateKeepsInv, SetPeerConfigKeepsInv,
         SetOutboundKeepsInv, SetInboundKeepsInv, WithdrawFeeKeepsInv,
         SetPauseKeepsInv
  <2>3. CASE Transfer
    BY <2>3, SendKeepsInv, LzReceiveKeepsInv DEF Transfer
  <2>4. CASE Environment
    BY <2>4, DonateKeepsInv, ChangeTokenFeeKeepsInv, TickKeepsInv DEF Environment
  <2> QED
    BY <1>1, <2>1, <2>2, <2>3, <2>4 DEF Next
<1>2. CASE UNCHANGED solanaVars
  BY <1>2, StutterKeepsInv
<1> QED
  BY <1>1, <1>2

\* The invariant holds in every state of the program.
THEOREM Invariant == Spec => []SolanaInv
<1>1. SolanaInv /\ [Next]_solanaVars => SolanaInv'
  BY NextKeepsInv
<1> QED
  BY InitInv, <1>1, PTL DEF Spec

\* Every state is well typed: no balance, limiter level or fee leaves its
\* range, for every supply and configuration.
THEOREM TypesAlwaysHold == Spec => []SolanaTypeOK
<1>1. SolanaInv => SolanaTypeOK
  BY DEF SolanaInv
<1> QED
  BY Invariant, <1>1, PTL

\* The escrow always covers the liability (send, lz_receive, withdraw_fee).
THEOREM EscrowAlwaysCovers == Spec => []EscrowCoversTVL
<1>1. SolanaInv => EscrowCoversTVL
  BY DEF SolanaInv
<1> QED
  BY Invariant, <1>1, PTL

\* The liability is always a whole number of shared units (remove_dust).
THEOREM LiabilityAlwaysWhole == Spec => []TVLWholeUnits
<1>1. SolanaInv => TVLWholeUnits
  BY DEF SolanaInv
<1> QED
  BY Invariant, <1>1, PTL

\* The adjustment of every amount is sound under every configuration that is
\* reached (compute_fee_and_adjust_amount).
THEOREM AdjustmentAlwaysHolds == Spec => []AdjustmentSound
<1>1. SolanaInv => AdjustmentSound
  BY AdjustmentAlwaysSound DEF SolanaInv
<1> QED
  BY Invariant, <1>1, PTL

\* Each limiter's level is always its capacity less the net traffic of the
\* worst window (RateLimiter).
THEOREM LimitersAlwaysMeter == Spec => [](OutboundMetered /\ InboundMetered)
<1>1. SolanaInv => OutboundMetered /\ InboundMetered
  BY DEF SolanaInv
<1> QED
  BY Invariant, <1>1, PTL

\* The inbound limiter by itself: what lz_receive may take is the capacity less
\* the net inflow of the worst window.
THEOREM InboundAlwaysMeters == Spec => []InboundMetered
BY LimitersAlwaysMeter, PTL

\* A step that leaves the escrow and the liability alone moves no custody.
LEMMA StillCustody ==
    ASSUME SolanaTypeOK, escrow' = escrow, store'.tvl_ld = store.tvl_ld
    PROVE  CustodyStep
<1>1. escrow \in Nat
  BY StoreFacts
<1> QED
  BY <1>1 DEF CustodyStep

\* A send is unpaused, and the escrow does not fall in it.
LEMMA SendCustody ==
    ASSUME SolanaTypeOK, NEW amount \in AskedAmounts, NEW min \in {0, amount},
           Send(amount, min)
    PROVE  CustodyStep
<1>. DEFINE a == Adjusted(amount)
<1>1. escrow \in Nat /\ tokenFee \in TokenFees
  BY StoreFacts
<1>2. a.sent \in Nat /\ a.fee \in Nat
  <2>1. amount \in Nat
    BY SolanaAssumption, WordAssumption DEF Amounts
  <2> QED
    BY <2>1, AdjustedSound
<1>3. PostFee(tokenFee, a.sent) \in Nat /\ PostFee(tokenFee, a.fee) \in Nat
  BY <1>1, <1>2, TokenFeeBounds
<1>. HIDE DEF a
<1>4. ~store.paused /\ (MovedByAdapter(a) \/ MovedByNative(a))
  BY DEF Send, NotPaused, a
<1>5. ~(escrow' < escrow)
  BY <1>1, <1>3, <1>4 DEF MovedByAdapter, MovedByNative
<1> QED
  BY <1>4, <1>5 DEF CustodyStep

\* A receive is unpaused, and the escrow falls in it as the liability does.
LEMMA LzReceiveCustody ==
    ASSUME SolanaTypeOK, NEW sender \in Peers, NEW amount_sd \in AskedAmounts,
           LzReceive(sender, amount_sd)
    PROVE  CustodyStep
<1>. DEFINE amount == sd2ld(amount_sd)
<1>1. escrow \in Nat /\ store.tvl_ld \in Nat /\ store \in Stores
  BY StoreFacts DEF SolanaTypeOK
<1>2. amount \in Nat
  BY SolanaAssumption, RatesAssumption, WordAssumption DEF Amounts, sd2ld
<1>. HIDE DEF amount
<1>3. /\ ~store.paused
      /\ \/ /\ store' = [store EXCEPT !.tvl_ld = @ - amount]
            /\ escrow' = escrow - amount
         \/ UNCHANGED <<store, escrow>>
  BY DEF LzReceive, NotPaused, amount
<1>4. CASE UNCHANGED <<store, escrow>>
  BY <1>4, StillCustody
<1>5. CASE /\ store' = [store EXCEPT !.tvl_ld = @ - amount]
           /\ escrow' = escrow - amount
  <2>1. store'.tvl_ld = store.tvl_ld - amount
    BY <1>1, <1>5 DEF Stores
  <2> QED
    BY <1>1, <1>2, <1>3, <1>5, <2>1 DEF CustodyStep
<1> QED
  BY <1>3, <1>4, <1>5

\* withdraw_fee may run in a paused store, but stops at the liability.
LEMMA WithdrawFeeCustody ==
    ASSUME SolanaTypeOK, NEW key \in Keys, NEW fee \in AskedAmounts,
           WithdrawFee(key, fee)
    PROVE  CustodyStep
<1>1. fee \in Nat /\ escrow \in Nat /\ store.tvl_ld \in Nat
  BY StoreFacts, SolanaAssumption, WordAssumption DEF Amounts
<1> QED
  BY <1>1 DEF WithdrawFee, Withdrawable, CustodyStep

LEMMA NextCustody ==
    ASSUME SolanaInv, Next
    PROVE  CustodyStep
<1>0. SolanaTypeOK
  BY DEF SolanaInv
<1>1. CASE \E type \in OFTTypes, admin \in Keys : InitOFT(type, admin)
  BY <1>0, <1>1, StillCustody
  DEF SolanaInv, NothingOwedBeforeInit, InitOFT, NewStore
<1>2. CASE Configure
  <2>1. PICK key \in Keys :
          \/ SetOFTConfig(key)
          \/ SetDelegate(key)
          \/ SetPeerConfig(key)
          \/ \E p \in LimitSettings : SetOutboundRateLimit(key, p)
          \/ \E p \in LimitSettings : SetInboundRateLimit(key, p)
          \/ \E fee \in AskedAmounts : WithdrawFee(key, fee)
          \/ \E pausing \in BOOLEAN : SetPause(key, pausing)
    BY <1>2 DEF Configure
  <2>2. CASE SetOFTConfig(key)
    BY <1>0, <2>2, StillCustody DEF SetOFTConfig, SolanaTypeOK, Stores
  <2>3. CASE SetDelegate(key)
    BY <1>0, <2>3, StillCustody DEF SetDelegate
  <2>4. CASE SetPeerConfig(key)
    BY <1>0, <2>4, StillCustody DEF SetPeerConfig
  <2>5. CASE \E p \in LimitSettings : SetOutboundRateLimit(key, p)
    BY <1>0, <2>5, StillCustody DEF SetOutboundRateLimit
  <2>6. CASE \E p \in LimitSettings : SetInboundRateLimit(key, p)
    BY <1>0, <2>6, StillCustody DEF SetInboundRateLimit
  <2>7. CASE \E fee \in AskedAmounts : WithdrawFee(key, fee)
    BY <1>0, <2>7, WithdrawFeeCustody
  <2>8. CASE \E pausing \in BOOLEAN : SetPause(key, pausing)
    BY <1>0, <2>8, StillCustody DEF SetPause, SolanaTypeOK, Stores
  <2> QED
    BY <2>1, <2>2, <2>3, <2>4, <2>5, <2>6, <2>7, <2>8
<1>3. CASE Transfer
  BY <1>0, <1>3, SendCustody, LzReceiveCustody DEF Transfer
<1>4. CASE \E amount \in AskedAmounts : Donate(amount)
  <2>1. PICK amount \in AskedAmounts : Donate(amount)
    BY <1>4
  <2>2. amount \in Nat /\ escrow \in Nat /\ tokenFee \in TokenFees
    BY <1>0, StoreFacts, SolanaAssumption, WordAssumption DEF Amounts
  <2>3. PostFee(tokenFee, amount) \in Nat
    BY <2>2, TokenFeeBounds
  <2> QED
    BY <2>1, <2>2, <2>3 DEF Donate, CustodyStep
<1>5. CASE ChangeTokenFee
  BY <1>0, <1>5, StillCustody DEF ChangeTokenFee
<1>6. CASE Tick
  BY <1>0, <1>6, StillCustody DEF Tick
<1> QED
  BY <1>1, <1>2, <1>3, <1>4, <1>5, <1>6 DEF Next, Environment

\* Custody never leaves the escrow but with the liability, or above it, and
\* never with the liability while paused (lz_receive, withdraw_fee, send).
THEOREM CustodyAlwaysAccounted == Spec => CustodyLeavesWithLiability
<1>1. SolanaInv /\ [Next]_solanaVars => [CustodyStep]_solanaVars
  BY NextCustody
<1> QED
  BY Invariant, <1>1, PTL DEF Spec, CustodyLeavesWithLiability

=============================================================================
