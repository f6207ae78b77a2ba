---------------------------- MODULE MCSolanaOFT ----------------------------
(* Small instances of SolanaOFT for TLC. *)
EXTENDS SolanaOFT, TLC

KeySymmetry == Permutations(Keys)

NoTokenFee == [bps |-> 0, max |-> 0]

\* 4 basis points in a whole: a quarter with a low and a high cap, three
\* quarters, and the whole amount up to a cap.
SomeTokenFees == {NoTokenFee, [bps |-> 1, max |-> 1], [bps |-> 3, max |-> 9],
                  [bps |-> 4, max |-> 2]}

NoTokenFees == {NoTokenFee}

NoLimits == {None}

\* Every shape of RateLimitParams: no limiter, a full bucket, a capacity
\* alone, a rate alone, and neither.
SomeLimits ==
    {None,
     [capacity |-> 2, rate |-> 1],
     [capacity |-> 4, rate |-> None],
     [capacity |-> None, rate |-> 3],
     [capacity |-> None, rate |-> None]}

=============================================================================
