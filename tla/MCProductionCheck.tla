-------------------------- MODULE MCProductionCheck --------------------------
(* A small instance of ProductionCheck for TLC. *)
EXTENDS ProductionCheck, TLC

CONSTANTS g1, g2

ThereAndBack == (g1 :> "Solana") @@ (g2 :> "Robinhood")
Ones == (g1 :> 1) @@ (g2 :> 1)

\* Bounds: one unpause, transfer and pause of Solana, one transfer more of
\* Robinhood.
Txs == [c \in Chains |-> IF c = "Solana" THEN 3 ELSE 4]

Distractions == chain["Solana"].donated + Cardinality(chain["Solana"].astray)
                                        + Cardinality(chain["Robinhood"].astray)

\* Bound: one thing besides transfers and pauses is out of order at a time, and
\* only while the checker may see it come or go.
OneDistraction == Distractions <= (IF pinned # None \/ seen # << >> THEN 1 ELSE 0)

=============================================================================
