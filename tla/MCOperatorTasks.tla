--------------------------- MODULE MCOperatorTasks ---------------------------
(* Two OFTs, and amounts of 0, 2 and 3 local units, two of them with a digit *)
(* too many.                                                                *)
EXTENDS OperatorTasks

MCOFTs == {"oft 1", "oft 2"}
MCMinters == {Wallet}
MCAmounts == {1, 5, 6}
MCMinimums == {3}

\* Bound: the fee and the pause change, or roles are handed over, not both: the
\* handoff reads neither.
Apart == changes = 0 \/ handed = {}

=============================================================================
