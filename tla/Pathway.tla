------------------------------ MODULE Pathway ------------------------------
(* The two chains, as the scripts that read both of them name them. *)

Chains == {"Solana", "Robinhood"}

Other(c) == IF c = "Solana" THEN "Robinhood" ELSE "Solana"

=============================================================================
