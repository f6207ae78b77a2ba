----------------------------- MODULE SolanaOFT -----------------------------
(***************************************************************************)
(* The Solana OFT program (programs/oft/src): the OFTStore, the escrow     *)
(* token account it owns, and the PeerConfig of the one remote chain.      *)
(*                                                                         *)
(* One action is one instruction.  A Solana transaction is atomic, so an   *)
(* instruction that fails anywhere (a require!, an account constraint, a   *)
(* checked operation, a CPI) is an action that is not enabled.             *)
(*                                                                         *)
(* clear and send of the LayerZero Endpoint are abstracted to an arbitrary *)
(* authenticated message and an arbitrary accepted one: Endpoint.tla and   *)
(* Bridge.tla say which messages there are.                                *)
(***************************************************************************)
EXTENDS TransferFee, RateLimiter

CONSTANTS Keys,             \* public keys that sign
          Peers,            \* 32-byte addresses of OApps on the remote chain
          ZeroAddress,      \* the all-zero one, of a peer account just created
          EnforcedOptions,  \* type-3 option strings, opaque
          NoOptions,        \* the empty one
          OFTTypes,         \* subset of {"Adapter", "Native"} that is deployed
          InitialSupply,    \* canonical tokens in circulation at the start
          TokenFeeSettings, \* Token-2022 fees the mint's authority may set
          FeeSettings,      \* basis points the admin may ask for
          LimitSettings,    \* rate limit parameters the admin may ask for
          AskedAmounts      \* amounts a sender, admin or donor may ask for

ASSUME SolanaAssumption ==
    /\ ZeroAddress \in Peers
    /\ NoOptions \in EnforcedOptions
    /\ None \notin Keys
    /\ OFTTypes \subseteq {"Adapter", "Native"}
    /\ InitialSupply \in Amounts
    /\ TokenFeeSettings \subseteq TokenFees
    /\ FeeSettings \subseteq Nat
    /\ LimitSettings \subseteq LimiterParams
    /\ AskedAmounts \subseteq Amounts

VARIABLES
    initialized, \* init_oft has run
    store,       \* OFTStore
    delegate,    \* OAppRegistry.delegate, kept by the Endpoint
    peerExists,  \* the PeerConfig account has been created
    peer,        \* PeerConfig
    tokenFee,    \* the mint's transfer fee of this epoch
    escrow,      \* amount of the token_escrow account
    wallet,      \* every other canonical token, withheld fees included
    outDebt,     \* history: largest net outflow of any window ending now,
    inDebt       \*   less the refill due in it (and the same, inbound)

solanaVars == <<initialized, store, delegate, peerExists, peer, tokenFee,
                escrow, wallet, outDebt, inDebt>>

Stores == [oft_type : {"Adapter", "Native"}, tvl_ld : Amounts, admin : Keys,
           default_fee_bps : 0 .. ONE_IN_BASIS_POINTS - 1, paused : BOOLEAN,
           pauser : Option(Keys), unpauser : Option(Keys)]

PeerConfigs == [address : Peers, fee_bps : Option(0 .. ONE_IN_BASIS_POINTS - 1),
                options : EnforcedOptions,
                out : Option(Limiters), in : Option(Limiters)]

\* The peer account as init_if_needed creates it, before the config is applied.
NewPeer == [address |-> ZeroAddress, fee_bps |-> None, options |-> NoOptions,
            out |-> None, in |-> None]

NewStore(type, admin) ==
    [oft_type |-> type, tvl_ld |-> 0, admin |-> admin, default_fee_bps |-> 0,
     paused |-> TRUE, pauser |-> None, unpauser |-> None]

SolanaTypeOK ==
    /\ initialized \in BOOLEAN
    /\ store \in Stores
    /\ delegate \in Keys
    /\ peerExists \in BOOLEAN
    /\ peer \in PeerConfigs
    /\ tokenFee \in TokenFees
    /\ escrow \in Amounts
    /\ wallet \in Amounts
    /\ wallet + escrow <= MaxU64
    /\ outDebt \in Nat
    /\ inDebt \in Nat

-----------------------------------------------------------------------------
Init ==
    /\ initialized = FALSE
    /\ \E type \in OFTTypes, admin \in Keys :
          store = NewStore(type, admin) /\ delegate = admin
    /\ peerExists = FALSE
    /\ peer = NewPeer
    /\ tokenFee \in TokenFeeSettings
    /\ escrow = 0
    /\ wallet = InitialSupply
    /\ outDebt = 0
    /\ inDebt = 0

\* init_oft: anyone may pay for it and choose the type and the admin.  There
\* is no store before it, and no instruction reads the value Init gives one.
InitOFT(type, admin) ==
    /\ ~initialized
    /\ initialized' = TRUE
    /\ store' = NewStore(type, admin)
    /\ delegate' = admin
    /\ UNCHANGED <<peerExists, peer, tokenFee, escrow, wallet, outDebt, inDebt>>

-----------------------------------------------------------------------------
(* Instructions of the admin. *)

SignedByAdmin(key) == initialized /\ key = store.admin

\* Mutated form of ValidFeeBps: accepts the whole amount as the fee.
ValidFeeBps_OffByOne(bps) == bps <= ONE_IN_BASIS_POINTS

\* What set_oft_config and set_peer_config require of a fee.
ValidFeeBps(bps) == bps < ONE_IN_BASIS_POINTS

\* set_oft_config, one disjunct per SetOFTConfigParams that writes the store.
SetOFTConfig(key) ==
    /\ SignedByAdmin(key)
    /\ \/ \E k \in Keys : store' = [store EXCEPT !.admin = k]
       \/ \E bps \in FeeSettings :
             /\ ValidFeeBps(bps)
             /\ store' = [store EXCEPT !.default_fee_bps = bps]
       \/ \E p \in BOOLEAN : store' = [store EXCEPT !.paused = p]
       \/ \E k \in Option(Keys) : store' = [store EXCEPT !.pauser = k]
       \/ \E k \in Option(Keys) : store' = [store EXCEPT !.unpauser = k]
    /\ UNCHANGED <<initialized, delegate, peerExists, peer, tokenFee, escrow,
                   wallet, outDebt, inDebt>>

\* set_oft_config with Delegate: the write is in the Endpoint's OAppRegistry.
SetDelegate(key) ==
    /\ SignedByAdmin(key)
    /\ delegate' \in Keys
    /\ UNCHANGED <<initialized, store, peerExists, peer, tokenFee, escrow,
                   wallet, outDebt, inDebt>>

\* set_peer_config with PeerAddress, FeeBps or EnforcedOptions.
SetPeerConfig(key) ==
    /\ SignedByAdmin(key)
    /\ peerExists' = TRUE
    /\ \/ \E a \in Peers : peer' = [peer EXCEPT !.address = a]
       \/ \E bps \in Option(FeeSettings) :
             /\ bps # None => ValidFeeBps(bps)
             /\ peer' = [peer EXCEPT !.fee_bps = bps]
       \/ \E o \in EnforcedOptions : peer' = [peer EXCEPT !.options = o]
    /\ UNCHANGED <<initialized, store, delegate, tokenFee, escrow, wallet,
                   outDebt, inDebt>>

\* A new capacity, or no limiter, forgets the traffic seen so far.
DebtAfterUpdate(debt, p) ==
    IF p = None \/ p.capacity # None THEN 0 ELSE debt

SetOutboundRateLimit(key, p) ==
    /\ SignedByAdmin(key)
    /\ peerExists' = TRUE
    /\ peer' = [peer EXCEPT !.out = update_rate_limiter(peer.out, p)]
    /\ outDebt' = DebtAfterUpdate(outDebt, p)
    /\ UNCHANGED <<initialized, store, delegate, tokenFee, escrow, wallet, inDebt>>

SetInboundRateLimit(key, p) ==
    /\ SignedByAdmin(key)
    /\ peerExists' = TRUE
    /\ peer' = [peer EXCEPT !.in = update_rate_limiter(peer.in, p)]
    /\ inDebt' = DebtAfterUpdate(inDebt, p)
    /\ UNCHANGED <<initialized, store, delegate, tokenFee, escrow, wallet, outDebt>>

\* Mutated form of Withdrawable: forgets the liability.
Withdrawable_All(fee) == escrow >= fee

\* What withdraw_fee may take: the escrow's balance above the liability.
Withdrawable(fee) == store.tvl_ld <= escrow /\ escrow - store.tvl_ld >= fee

\* withdraw_fee: it has no pause guard.
WithdrawFee(key, fee) ==
    /\ SignedByAdmin(key)
    /\ Withdrawable(fee)
    /\ escrow' = escrow - fee
    /\ wallet' = wallet + fee
    /\ UNCHANGED <<initialized, store, delegate, peerExists, peer, tokenFee,
                   outDebt, inDebt>>
-----------------------------------------------------------------------------
\* set_pause, signed by the pauser to pause and by the unpauser to unpause.
is_valid_signer(key, pausing) ==
    key = IF pausing THEN store.pauser ELSE store.unpauser

SetPause(key, pausing) ==
    /\ initialized
    /\ is_valid_signer(key, pausing)
    /\ store' = [store EXCEPT !.paused = pausing]
    /\ UNCHANGED <<initialized, delegate, peerExists, peer, tokenFee, escrow,
                   wallet, outDebt, inDebt>>

-----------------------------------------------------------------------------
(* Transfers. *)

\* Mutated form of NotPaused: no guard.
NotPaused_Unchecked == TRUE

\* require!(!oft_store.paused) of send and lz_receive.
NotPaused == ~store.paused

\* What a send of amount is turned into under the present configuration.
Adjusted(amount) ==
    Adjust(store.oft_type, amount, tokenFee, store.default_fee_bps, peer.fee_bps)

DebtAfterSpending(limiter, debt, amount) ==
    IF limiter = None THEN 0 ELSE debt + amount

DebtAfterCredit(debt, amount) == Monus(debt, amount)

\* The tokens a send moves into the escrow, net of the mint's own fee, and
\* those it burns.
MovedByAdapter(a) ==
    /\ a.sent <= wallet
    /\ store.tvl_ld + a.received <= MaxU64
    /\ store' = [store EXCEPT !.tvl_ld = @ + a.received]
    /\ escrow' = escrow + PostFee(tokenFee, a.sent)
    /\ wallet' = wallet - PostFee(tokenFee, a.sent)

MovedByNative(a) ==
    /\ a.sent <= wallet
    /\ escrow' = escrow + PostFee(tokenFee, a.fee)
    /\ wallet' = wallet - (a.sent - a.fee) - PostFee(tokenFee, a.fee)
    /\ UNCHANGED store

Send(amount, minAmount) ==
    /\ initialized /\ peerExists
    /\ NotPaused
    /\ LET a == Adjusted(amount)
       IN  /\ a.received >= minAmount
           /\ Admits(peer.out, a.received)
           /\ peer' = [peer EXCEPT !.out = Consumed(@, a.received),
                                   !.in = CrossRefilled(@, a.received)]
           /\ \/ store.oft_type = "Adapter" /\ MovedByAdapter(a)
              \/ store.oft_type = "Native" /\ MovedByNative(a)
           /\ outDebt' = DebtAfterSpending(peer.out, outDebt, a.received)
           /\ inDebt' = DebtAfterCredit(inDebt, a.received)
    /\ UNCHANGED <<initialized, delegate, peerExists, tokenFee>>

\* lz_receive of a message that the Endpoint's clear authenticates.
LzReceive(sender, amount_sd) ==
    /\ initialized /\ peerExists
    /\ sender = peer.address
    /\ NotPaused
    /\ LET amount == sd2ld(amount_sd)
       IN  /\ amount <= MaxU64
           /\ Admits(peer.in, amount)
           /\ peer' = [peer EXCEPT !.in = Consumed(@, amount),
                                   !.out = CrossRefilled(@, amount)]
           /\ \/ /\ store.oft_type = "Adapter"
                 /\ amount <= store.tvl_ld
                 /\ amount <= escrow
                 /\ store' = [store EXCEPT !.tvl_ld = @ - amount]
                 /\ escrow' = escrow - amount
              \/ /\ store.oft_type = "Native"
                 /\ wallet + escrow + amount <= MaxU64
                 /\ UNCHANGED <<store, escrow>>
           /\ wallet' = wallet + amount
           /\ inDebt' = DebtAfterSpending(peer.in, inDebt, amount)
           /\ outDebt' = DebtAfterCredit(outDebt, amount)
    /\ UNCHANGED <<initialized, delegate, peerExists, tokenFee>>

-----------------------------------------------------------------------------
(* Outside the program: a plain token transfer into the escrow, the mint's *)
(* fee authority, and the clock.                                           *)

Donate(amount) ==
    /\ initialized
    /\ amount <= wallet
    /\ escrow' = escrow + PostFee(tokenFee, amount)
    /\ wallet' = wallet - PostFee(tokenFee, amount)
    /\ UNCHANGED <<initialized, store, delegate, peerExists, peer, tokenFee,
                   outDebt, inDebt>>

ChangeTokenFee ==
    /\ tokenFee' \in TokenFeeSettings
    /\ UNCHANGED <<initialized, store, delegate, peerExists, peer, escrow,
                   wallet, outDebt, inDebt>>

DebtAfterSecond(limiter, debt) ==
    IF limiter = None THEN 0 ELSE Monus(debt, limiter.rate)

Tick ==
    /\ peer' = [peer EXCEPT !.out = Aged(@), !.in = Aged(@)]
    /\ outDebt' = DebtAfterSecond(peer.out, outDebt)
    /\ inDebt' = DebtAfterSecond(peer.in, inDebt)
    /\ UNCHANGED <<initialized, store, delegate, peerExists, tokenFee, escrow,
                   wallet>>

-----------------------------------------------------------------------------
Configure ==
    \E key \in Keys :
        \/ SetOFTConfig(key)
        \/ SetDelegate(key)
        \/ SetPeerConfig(key)
        \/ \E p \in LimitSettings : SetOutboundRateLimit(key, p)
        \/ \E p \in LimitSettings : SetInboundRateLimit(key, p)
        \/ \E fee \in AskedAmounts : WithdrawFee(key, fee)
        \/ \E pausing \in BOOLEAN : SetPause(key, pausing)

Transfer ==
    \/ \E amount \in AskedAmounts : \E min \in {0, amount} : Send(amount, min)
    \/ \E sender \in Peers, amount_sd \in AskedAmounts : LzReceive(sender, amount_sd)

Environment ==
    \/ \E amount \in AskedAmounts : Donate(amount)
    \/ ChangeTokenFee
    \/ Tick

Next ==
    \/ \E type \in OFTTypes, admin \in Keys : InitOFT(type, admin)
    \/ Configure
    \/ Transfer
    \/ Environment

Spec == Init /\ [][Next]_solanaVars

-----------------------------------------------------------------------------
(* Properties. *)

\* The escrow account holds at least the recorded liability at every
\* transaction boundary, whatever the fees, donations and withdrawals
\* (docs/ESCROW_SECURITY_REVIEW.md; send.rs, lz_receive.rs, withdraw_fee.rs).
EscrowCoversTVL == store.tvl_ld <= escrow

\* The liability is a whole number of shared units, so nothing is lost when
\* send divides it by ld2sd_rate to build the message (remove_dust, ld2sd);
\* a native store records none.
TVLWholeUnits ==
    /\ store.tvl_ld % ld2sd_rate = 0
    /\ store.oft_type = "Native" => store.tvl_ld = 0

\* Under the configuration of the moment, no send debits more than was asked
\* for, and what then reaches the escrow covers both the bridged amount and
\* the program's own fee, through both roundings of the mint's fee
\* (compute_fee_and_adjust_amount, calculate_pre_fee_amount).
AdjustmentSound ==
    \A amount \in Amounts :
        LET a == Adjusted(amount)
        IN  /\ a.sent <= amount
            /\ PostFee(tokenFee, a.sent) >= a.received + a.fee
                \/ store.oft_type = "Native"
            /\ a.received \in Nat /\ a.received % ld2sd_rate = 0

\* A limiter's lazily refilled level is always its capacity less the net
\* traffic of the worst window ending now: in every window since the capacity
\* was set, sends minus receives are at most the capacity plus the refill due,
\* however the calls are spread in time and however the other direction's
\* transfers refill it (RateLimiter::refill, try_consume, set_rate).
LimiterMeters(limiter, debt) ==
    IF limiter = None THEN debt = 0
    ELSE /\ debt <= limiter.capacity
         /\ Refilled(limiter, 0) = limiter.capacity - debt

OutboundMetered == LimiterMeters(peer.out, outDebt)
InboundMetered == LimiterMeters(peer.in, inDebt)

\* Custody leaves the escrow in two ways only: with the same fall of the
\* liability, which a paused store never makes, or without touching the
\* liability, which the rest then still covers (lz_receive, withdraw_fee).
CustodyStep ==
    /\ escrow' < escrow =>
         \/ escrow - escrow' = store.tvl_ld - store'.tvl_ld
         \/ store'.tvl_ld = store.tvl_ld /\ escrow' >= store.tvl_ld
    /\ store.paused => store'.tvl_ld = store.tvl_ld

CustodyLeavesWithLiability == [][CustodyStep]_solanaVars

=============================================================================
