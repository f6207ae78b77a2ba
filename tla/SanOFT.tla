------------------------------- MODULE SanOFT -------------------------------
(***************************************************************************)
(* The EVM contract of the bridge, contracts/SanOFT.sol: LayerZero's OFT   *)
(* with a pause and two token buckets.  One action is one transaction; a   *)
(* revert undoes it, so a reverting call is an action that is not enabled. *)
(* The inherited entry points (send, lzReceive, setPeer, transferOwnership)*)
(* are modelled from how the contract overrides and uses them.             *)
(*                                                                         *)
(* SAN has six decimals on both chains, so the OFT's local and shared      *)
(* units are the same and removing dust changes nothing.                   *)
(***************************************************************************)
EXTENDS TokenBucket

CONSTANTS Owners,         \* addresses that may own the contract
          EvmPeers,       \* OApp addresses on Solana a peer may be set to
          NoPeer,         \* bytes32(0), no peer
          Canary,         \* the constructor's bucket setting
          BucketSettings, \* settings the owner may ask for
          EvmAmounts,     \* amounts a sender may ask for or a message carries
          MaxSupply       \* bound on totalSupply

ASSUME EvmAssumption ==
    /\ NoPeer \in EvmPeers
    /\ BucketSettings \subseteq Settings
    /\ Canary \in Settings /\ Accepted(Canary)
    /\ EvmAmounts \subseteq Nat
    /\ MaxSupply \in Nat

\* MaxBucketIdle seconds fill every bucket there can be.
ASSUME BucketIdleAssumption ==
    \A s \in BucketSettings \cup {Canary} :
        Accepted(s) => s.capacity * s.refillDuration
                           <= MaxBucketIdle * s.refillAmount

VARIABLES
    owner,       \* Ownable
    evmPaused,   \* Pausable
    evmPeer,     \* peers[Solana eid]
    totalSupply,
    outBucket,   \* _outboundBucket
    inBucket,    \* _inboundBucket
    outUsed,     \* history: largest outflow of any window ending now, less
    inUsed       \*   the refill due in it, in 1/refillDuration tokens

evmVars == <<owner, evmPaused, evmPeer, totalSupply, outBucket, inBucket,
             outUsed, inUsed>>

EvmTypeOK ==
    /\ owner \in Owners
    /\ evmPaused \in BOOLEAN
    /\ evmPeer \in EvmPeers
    /\ totalSupply \in 0 .. MaxSupply
    /\ outBucket \in Buckets
    /\ inBucket \in Buckets
    /\ outUsed \in Nat
    /\ inUsed \in Nat

Init ==
    /\ owner \in Owners
    /\ evmPaused = TRUE
    /\ evmPeer = NoPeer
    /\ totalSupply = 0
    /\ outBucket = FullBucket(Canary)
    /\ inBucket = FullBucket(Canary)
    /\ outUsed = 0
    /\ inUsed = 0

-----------------------------------------------------------------------------
(* onlyOwner. *)

pause(by) ==
    /\ by = owner
    /\ ~evmPaused
    /\ evmPaused' = TRUE
    /\ UNCHANGED <<owner, evmPeer, totalSupply, outBucket, inBucket, outUsed, inUsed>>

unpause(by) ==
    /\ by = owner
    /\ evmPaused
    /\ evmPaused' = FALSE
    /\ UNCHANGED <<owner, evmPeer, totalSupply, outBucket, inBucket, outUsed, inUsed>>

\* transferOwnership; renounceOwnership always reverts, so Owners is all.
transferOwnership(by, to) ==
    /\ by = owner
    /\ owner' = to
    /\ UNCHANGED <<evmPaused, evmPeer, totalSupply, outBucket, inBucket, outUsed, inUsed>>

setPeer(by, p) ==
    /\ by = owner
    /\ evmPeer' = p
    /\ UNCHANGED <<owner, evmPaused, totalSupply, outBucket, inBucket, outUsed, inUsed>>

\* The reconfigured bucket starts from the whole tokens it had, at most the
\* new capacity; what is missing to the new capacity counts as used.
UsedAfterConfigure(b, used, s) ==
    LET left == (b.capacity * b.refillDuration - used) \div b.refillDuration
    IN  (s.capacity - MinOf(left, s.capacity)) * s.refillDuration

setOutboundRateLimit(by, s) ==
    /\ by = owner
    /\ Accepted(s)
    /\ outBucket' = _configureBucket(outBucket, s)
    /\ outUsed' = UsedAfterConfigure(outBucket, outUsed, s)
    /\ UNCHANGED <<owner, evmPaused, evmPeer, totalSupply, inBucket, inUsed>>

setInboundRateLimit(by, s) ==
    /\ by = owner
    /\ Accepted(s)
    /\ inBucket' = _configureBucket(inBucket, s)
    /\ inUsed' = UsedAfterConfigure(inBucket, inUsed, s)
    /\ UNCHANGED <<owner, evmPaused, evmPeer, totalSupply, outBucket, outUsed>>

-----------------------------------------------------------------------------
(* Transfers. *)

\* Mutated form of _requireNotPaused: no guard.
_requireNotPaused_Unchecked == TRUE

\* Pausable, in _debitView; whenNotPaused of _credit is the same.
_requireNotPaused == ~evmPaused

\* send: _debit burns what _debitView allows and the outbound bucket pays.
send(amount, minAmount) ==
    /\ evmPeer # NoPeer
    /\ _requireNotPaused
    /\ amount >= minAmount
    /\ CanTake(outBucket, amount)
    /\ amount <= totalSupply
    /\ totalSupply' = totalSupply - amount
    /\ outBucket' = _consume(outBucket, amount)
    /\ outUsed' = outUsed + amount * outBucket.refillDuration
    /\ UNCHANGED <<owner, evmPaused, evmPeer, inBucket, inUsed>>

\* lzReceive from the Endpoint: _credit consumes the inbound bucket and mints.
lzReceive(sender, amount) ==
    /\ evmPeer # NoPeer /\ sender = evmPeer
    /\ _requireNotPaused
    /\ CanTake(inBucket, amount)
    /\ totalSupply + amount <= MaxSupply
    /\ totalSupply' = totalSupply + amount
    /\ inBucket' = _consume(inBucket, amount)
    /\ inUsed' = inUsed + amount * inBucket.refillDuration
    /\ UNCHANGED <<owner, evmPaused, evmPeer, outBucket, outUsed>>

\* The block timestamp moves on by a second.
tick ==
    /\ outBucket' = Older(outBucket)
    /\ inBucket' = Older(inBucket)
    /\ outUsed' = Monus(outUsed, outBucket.refillAmount)
    /\ inUsed' = Monus(inUsed, inBucket.refillAmount)
    /\ UNCHANGED <<owner, evmPaused, evmPeer, totalSupply>>

-----------------------------------------------------------------------------
Administer ==
    \E by \in Owners :
        \/ pause(by)
        \/ unpause(by)
        \/ \E to \in Owners : transferOwnership(by, to)
        \/ \E p \in EvmPeers : setPeer(by, p)
        \/ \E s \in BucketSettings : setOutboundRateLimit(by, s)
        \/ \E s \in BucketSettings : setInboundRateLimit(by, s)

Transfer ==
    \/ \E amount \in EvmAmounts : \E min \in {0, amount} : send(amount, min)
    \/ \E sender \in EvmPeers, amount \in EvmAmounts : lzReceive(sender, amount)

Next == Administer \/ Transfer \/ tick

Spec == Init /\ [][Next]_evmVars

-----------------------------------------------------------------------------
(* Properties. *)

\* A lazily refilled bucket, whole tokens and carried remainder together, is
\* always the capacity less what the worst window used: over any window, flow
\* in one direction is at most the capacity plus the exact fractional refill,
\* and no schedule of calls loses or gains a fraction of a token
\* (_preview, _refill, _consume, _configureBucket).
BucketMeters(b, used) ==
    LET p == _preview(b)
    IN  /\ used <= b.capacity * b.refillDuration
        /\ p.available * b.refillDuration + p.remainder
               = b.capacity * b.refillDuration - used

OutboundExact == BucketMeters(outBucket, outUsed)
InboundExact == BucketMeters(inBucket, inUsed)

\* The facts _preview relies on without checking: a stored remainder is less
\* than a token, and a full bucket carries none, so its early return for a
\* full bucket drops nothing (SanOFT.sol, _preview).
WellFormed(b) ==
    /\ Accepted([capacity |-> b.capacity, refillAmount |-> b.refillAmount,
                 refillDuration |-> b.refillDuration])
    /\ b.available <= b.capacity
    /\ b.remainder < b.refillDuration
    /\ b.available = b.capacity => b.remainder = 0

BucketsWellFormed == WellFormed(outBucket) /\ WellFormed(inBucket)

\* Only the passing of a second ever lets more through: no call, and above all
\* no reconfiguration, raises what the next transfer may take.  A raised
\* capacity is not a burst, a lowered one clamps, and the time that has passed
\* is settled at the old rate
\* (docs/EVM_EMERGENCY_CONTROLS_DESIGN.md:74; _configureBucket, _refill).
Aging(b, b2) == b2 = Older(b) \/ _available(b2) <= _available(b)

OnlyTimeRefills == [][Aging(outBucket, outBucket') /\ Aging(inBucket, inBucket')]_evmVars

=============================================================================
