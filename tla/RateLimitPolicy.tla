--------------------------- MODULE RateLimitPolicy ---------------------------
(***************************************************************************)
(* The rate limits a production plan may have: one of four profiles, on    *)
(* both chains and in both directions.  Solana refills so much a second,   *)
(* Robinhood its whole capacity over a day.                                *)
(***************************************************************************)
EXTENDS Integers

Day == 86400

Profiles ==
    {[capacity |->    500000000000, refill |->    5787037],
     [capacity |->  30000000000000, refill |->  347222222],
     [capacity |->  50000000000000, refill |->  578703703],
     [capacity |-> 100000000000000, refill |-> 1157407407]}

Directions == {"outbound", "inbound"}

\* A limiter that is missing is refused, never taken for no limit.
Limiters == [capacity : Int, refill : Int, duration : Int]
Plans == [{"Solana", "Robinhood"} -> [Directions -> Limiters]]

DirectionGiven(limiter) == limiter.capacity > 0 /\ limiter.refill > 0

PlanApproved(plan, profile) ==
    \A d \in Directions :
        /\ DirectionGiven(plan["Solana"][d])
        /\ DirectionGiven(plan["Robinhood"][d])
        /\ plan["Robinhood"][d].duration = Day
        /\ plan["Solana"][d].capacity = profile.capacity
        /\ plan["Robinhood"][d].capacity = profile.capacity
        /\ plan["Solana"][d].refill = profile.refill
        /\ plan["Robinhood"][d].refill = profile.capacity

\* A task that sets a limiter of the Solana store names a profile by its values.
TaskApproved(capacity, refill) ==
    [capacity |-> capacity, refill |-> refill] \in Profiles

Across(c) == IF c = "Solana" THEN "Robinhood" ELSE "Solana"

=============================================================================
