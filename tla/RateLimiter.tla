---------------------------- MODULE RateLimiter ----------------------------
(***************************************************************************)
(* The Solana rate limiter of programs/oft/src/state/peer_config.rs: a     *)
(* bucket of tokens refilled at a whole number of tokens per second.       *)
(*                                                                         *)
(* last_refill_time is kept as idle, the seconds since it: every operation *)
(* reads only the difference current_time - last_refill_time.  idle stops  *)
(* counting at MaxIdle, which IdleAssumption makes long enough to fill any *)
(* bucket, so a longer wait cannot be told from it.                        *)
(***************************************************************************)
EXTENDS Word64

CONSTANT MaxIdle        \* bound: seconds of idleness that are told apart

Limiters == [capacity : Amounts, tokens : Amounts,
             rate : Amounts, idle : 0 .. MaxIdle]

\* p of update_rate_limiter: None, or a capacity and a rate, each an option.
LimiterParams == Option([capacity : Option(Amounts), rate : Option(Amounts)])

ASSUME IdleAssumption == MaxIdle \in Nat /\ MaxU64 <= MaxIdle

ASSUME NoneAssumption ==
    /\ None \notin Limiters
    /\ None \notin [capacity : Option(Amounts), rate : Option(Amounts)]

\* RateLimiter::default(), all zero; a last_refill_time of 0 is long ago.
DefaultLimiter == [capacity |-> 0, tokens |-> 0, rate |-> 0, idle |-> MaxIdle]

\* Tokens a refill(extra) leaves, each step saturating as the code's does.
Refilled(l, extra) ==
    MinOf(l.capacity,
          SatAdd(l.tokens, SatAdd(extra, SatMul(l.idle, l.rate))))

\* Mutated form of refill: last_refill_time is not moved.
refill_Untimed(l, extra) == [l EXCEPT !.tokens = Refilled(l, extra)]

refill(l, extra) == [l EXCEPT !.tokens = Refilled(l, extra), !.idle = 0]

CanConsume(l, amount) == amount <= Refilled(l, 0)

consume(l, amount) == [l EXCEPT !.tokens = Refilled(l, 0) - amount, !.idle = 0]

\* A new capacity fills the bucket; it does not settle what had accrued.
set_capacity(l, capacity) ==
    [l EXCEPT !.capacity = capacity, !.tokens = capacity, !.idle = 0]

\* Mutated form of set_rate: the new rate applies to the time already past.
set_rate_Unsettled(l, rate) == [l EXCEPT !.rate = rate]

\* A new rate first settles what had accrued at the old one.
set_rate(l, rate) == [refill(l, 0) EXCEPT !.rate = rate]

\* SetPeerConfig::update_rate_limiter.
update_rate_limiter(limiter, p) ==
    IF p = None THEN None
    ELSE LET l0 == IF limiter = None THEN DefaultLimiter ELSE limiter
             l1 == IF p.capacity = None THEN l0 ELSE set_capacity(l0, p.capacity)
         IN  IF p.rate = None THEN l1 ELSE set_rate(l1, p.rate)

\* The two uses a transfer makes of an optional limiter: None limits nothing.
Admits(limiter, amount) == limiter # None => CanConsume(limiter, amount)
Consumed(limiter, amount) ==
    IF limiter = None THEN None ELSE consume(limiter, amount)
CrossRefilled(limiter, amount) ==
    IF limiter = None THEN None ELSE refill(limiter, amount)

\* One second passes.
Aged(limiter) ==
    IF limiter = None THEN None
    ELSE [limiter EXCEPT !.idle = MinOf(@ + 1, MaxIdle)]

=============================================================================
