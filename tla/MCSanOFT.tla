------------------------------ MODULE MCSanOFT ------------------------------
(* A small instance of SanOFT for TLC. *)
EXTENDS SanOFT, TLC

OwnerSymmetry == Permutations(Owners)

\* The canary shape: a full refill in one duration.
SomeCanary == [capacity |-> 3, refillAmount |-> 3, refillDuration |-> 2]

\* A refill that does not divide its duration, one slower than a token a
\* second, and three settings the contract refuses.
SomeSettings ==
    {SomeCanary,
     [capacity |-> 4, refillAmount |-> 2, refillDuration |-> 3],
     [capacity |-> 2, refillAmount |-> 1, refillDuration |-> 2],
     [capacity |-> 2, refillAmount |-> 3, refillDuration |-> 1],
     [capacity |-> 2, refillAmount |-> 1, refillDuration |-> 0],
     [capacity |-> 5, refillAmount |-> 1, refillDuration |-> 1]}

=============================================================================
