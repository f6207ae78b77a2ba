---------------------------- MODULE TransferFee ----------------------------
(***************************************************************************)
(* How an amount asked for by a sender becomes (debited, bridged, fee):     *)
(* compute_fee_and_adjust_amount and the functions it calls, from          *)
(* programs/oft/src/instructions/quote_send.rs and state/oft.rs.           *)
(*                                                                         *)
(* A token fee is a record [bps, max]: the Token-2022 TransferFeeConfig of *)
(* the epoch.  A mint without the extension is the record with bps = 0.    *)
(* The rates are parameters, so that a check with few basis points reaches *)
(* every rounding that 10_000 of them reach.                               *)
(***************************************************************************)
EXTENDS Word64

CONSTANTS ONE_IN_BASIS_POINTS,  \* 10_000 in the program
          ld2sd_rate            \* local units per shared unit, 1 for SAN

ASSUME RatesAssumption ==
    /\ ONE_IN_BASIS_POINTS \in Nat \ {0}
    /\ ld2sd_rate \in Nat \ {0}

TokenFees == [bps : 0 .. ONE_IN_BASIS_POINTS, max : Amounts]

-----------------------------------------------------------------------------
\* spl-token-2022, TransferFee::calculate_fee: the fee rounds up, then is capped.
TokenFeeOn(tf, amount) ==
    IF tf.bps = 0 \/ amount = 0 THEN 0
    ELSE MinOf(CeilDiv(amount * tf.bps, ONE_IN_BASIS_POINTS), tf.max)

\* get_post_fee_amount_ld: what arrives when amount is transferred.
PostFee(tf, amount) == amount - TokenFeeOn(tf, amount)

\* Mutated form of PreFee: rounds down.
PreFeeRoundedDown(tf, post) ==
    IF tf.bps \in {0, ONE_IN_BASIS_POINTS} \/ post = 0 THEN post
    ELSE MinOf((post * ONE_IN_BASIS_POINTS) \div (ONE_IN_BASIS_POINTS - tf.bps),
               post + tf.max)

\* calculate_pre_fee_amount without its final narrowing to u64.
PreFee(tf, post) ==
    IF tf.bps = 0 THEN post
    ELSE IF post = 0 THEN 0
    ELSE IF tf.bps = ONE_IN_BASIS_POINTS THEN tf.max + post
    ELSE LET raw == CeilDiv(post * ONE_IN_BASIS_POINTS,
                            ONE_IN_BASIS_POINTS - tf.bps)
         IN  IF raw - post >= tf.max THEN post + tf.max ELSE raw

\* Mutated form of remove_dust: leaves the dust.
remove_no_dust(amount) == amount

remove_dust(amount) == amount - (amount % ld2sd_rate)
ld2sd(amount) == amount \div ld2sd_rate
sd2ld(amount) == amount * ld2sd_rate

\* The peer's fee, when set, replaces the default one.
calculate_fee(amount, default_bps, bps) ==
    (amount * (IF bps = None THEN default_bps ELSE bps)) \div ONE_IN_BASIS_POINTS

\* compute_fee_and_adjust_amount: [sent, received, fee] for an amount asked.
Adjust(type, amount, tf, default_bps, bps) ==
    LET base == IF type = "Adapter"
                THEN remove_dust(PostFee(tf, amount))
                ELSE remove_dust(amount)
        sent == IF type = "Adapter" THEN PreFee(tf, base) ELSE base
        fee  == remove_dust(calculate_fee(base, default_bps, bps))
    IN  [sent |-> sent, received |-> base - fee, fee |-> fee]

=============================================================================
