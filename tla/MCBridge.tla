------------------------------ MODULE MCBridge ------------------------------
(* Small instances of Bridge for TLC. *)
EXTENDS Bridge

NoTokenFees == {[bps |-> 0, max |-> 0]}

\* A quarter, rounded up and capped.
OneTokenFee == {[bps |-> 1, max |-> 2]}

NoLimits == {None}

\* Two tokens at once, refilled in a second.
SmallCanary == [capacity |-> 2, refillAmount |-> 2, refillDuration |-> 1]

\* A limiter that two receives in a second exhaust.
OneLimit == {[capacity |-> 2, rate |-> 1]}

NoSettings == {}

\* Bound: nobody is made pauser or unpauser (adapter_money explores them); the
\* admin and the owner pause and unpause.
NoPausers == store.pauser = None /\ store.unpauser = None

=============================================================================
