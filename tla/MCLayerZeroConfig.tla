-------------------------- MODULE MCLayerZeroConfig --------------------------
(* The pinned confirmations: 32 of Solana, 30 of Robinhood. *)
EXTENDS LayerZeroConfig

MCSourceConfirmations == [c \in Chains |-> IF c = "Solana" THEN 32 ELSE 30]
=============================================================================
