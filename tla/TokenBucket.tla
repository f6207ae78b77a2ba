---------------------------- MODULE TokenBucket ----------------------------
(***************************************************************************)
(* The rate-limit bucket of contracts/SanOFT.sol: refillAmount tokens per  *)
(* refillDuration seconds, refilled lazily, the division's remainder       *)
(* carried from one refill to the next.                                    *)
(*                                                                         *)
(* lastUpdated is kept as idle, the seconds since it, which stops at       *)
(* MaxBucketIdle: ValidSetting buckets are full by then.                   *)
(***************************************************************************)
EXTENDS Arith

CONSTANTS MaxCapacity,    \* type(uint64).max, the largest capacity accepted
          MaxBucketIdle   \* bound: seconds of idleness that are told apart

ASSUME BucketAssumption == MaxCapacity \in Nat /\ MaxBucketIdle \in Nat

Buckets == [capacity : Nat, available : Nat, refillAmount : Nat,
            refillDuration : Nat \ {0}, idle : 0 .. MaxBucketIdle,
            remainder : Nat]

Settings == [capacity : Nat, refillAmount : Nat, refillDuration : Nat]

\* What _configureBucket accepts.
Accepted(s) ==
    /\ s.capacity # 0
    /\ s.capacity <= MaxCapacity
    /\ s.refillAmount # 0
    /\ s.refillAmount <= s.capacity
    /\ s.refillDuration # 0

\* _initializeBucket: full.
FullBucket(s) ==
    [capacity |-> s.capacity, available |-> s.capacity,
     refillAmount |-> s.refillAmount, refillDuration |-> s.refillDuration,
     idle |-> 0, remainder |-> 0]

\* _preview: whole tokens and the fraction of one, in 1/refillDuration.
_preview(b) ==
    IF b.idle = 0 \/ b.available = b.capacity
    THEN [available |-> b.available, remainder |-> b.remainder]
    ELSE LET accrued  == b.idle * b.refillAmount
             combined == (accrued % b.refillDuration) + b.remainder
             carry    == IF combined >= b.refillDuration THEN 1 ELSE 0
             added    == (accrued \div b.refillDuration) + carry
         IN  IF added >= b.capacity - b.available
             THEN [available |-> b.capacity, remainder |-> 0]
             ELSE [available |-> b.available + added,
                   remainder |-> combined - carry * b.refillDuration]

_available(b) == _preview(b).available

\* Mutated form of _refill: the fraction of a token is lost.
_refill_Truncated(b) == [b EXCEPT !.available = _available(b), !.idle = 0]

_refill(b) == [b EXCEPT !.available = _preview(b).available,
                        !.remainder = _preview(b).remainder,
                        !.idle = 0]

\* Mutated forms of CanTake: against the capacity, and off by one.
CanTake_Capacity(b, amount) == amount <= b.capacity
CanTake_OffByOne(b, amount) == amount < _available(b)

\* _consume reverts unless this holds.
CanTake(b, amount) == amount <= _available(b)

\* Mutated form of _consume: lastUpdated is not moved.
_consume_Untimed(b, amount) == [b EXCEPT !.available = _available(b) - amount]

_consume(b, amount) == [_refill(b) EXCEPT !.available = @ - amount]

\* Mutated forms of _configureBucket: keeps the fraction of the old duration,
\* and fills to the new capacity as the Solana limiter does.
_configureBucket_Remainder(b, s) ==
    [FullBucket(s) EXCEPT !.available = MinOf(_available(b), s.capacity),
                          !.remainder = _preview(b).remainder]
_configureBucket_Full(b, s) == FullBucket(s)

\* _configureBucket settles at the old rate, then clamps to the new capacity.
_configureBucket(b, s) ==
    [capacity |-> s.capacity, available |-> MinOf(_available(b), s.capacity),
     refillAmount |-> s.refillAmount, refillDuration |-> s.refillDuration,
     idle |-> 0, remainder |-> 0]

Older(b) == [b EXCEPT !.idle = MinOf(@ + 1, MaxBucketIdle)]

=============================================================================
