------------------------------- MODULE Bridge -------------------------------
(***************************************************************************)
(* The bridge: the Solana OFT program, the SanOFT contract and the         *)
(* LayerZero Endpoint between them.  Sending a packet is part of the       *)
(* transaction that debits the sender, and executing it part of the one    *)
(* that credits the receiver; everything in between is other steps, of     *)
(* anyone, in any order.                                                   *)
(*                                                                         *)
(* Only the two OApps send to the two OApps.  Either administrator may set *)
(* any peer at any time, wrong ones included: packets for a receiver that  *)
(* does not exist stay on their pathway.                                   *)
(***************************************************************************)
EXTENDS Integers, Sequences, Sums

CONSTANTS ONE_IN_BASIS_POINTS, ld2sd_rate, MaxU64, None, MaxIdle, Keys, Peers,
          ZeroAddress, EnforcedOptions, NoOptions, OFTTypes, InitialSupply,
          TokenFeeSettings, FeeSettings, LimitSettings, AskedAmounts
CONSTANTS MaxCapacity, MaxBucketIdle, Owners, EvmPeers, NoPeer, Canary,
          BucketSettings, EvmAmounts, MaxSupply
CONSTANTS Window, MaxPackets
CONSTANTS SolOApp,  \* the store's address, among EvmPeers
          EvmOApp   \* the contract's address, among Peers

ASSUME OAppAssumption ==
    /\ SolOApp \in EvmPeers \ {NoPeer}
    /\ EvmOApp \in Peers \ {ZeroAddress}
    /\ OFTTypes = {"Adapter"}
    /\ Window \in Nat /\ MaxPackets \in Nat

VARIABLES initialized, store, delegate, peerExists, peer, tokenFee, escrow,
          wallet, outDebt, inDebt
VARIABLES owner, evmPaused, evmPeer, totalSupply, outBucket, inBucket, outUsed,
          inUsed
VARIABLES
    channel,
    outstanding  \* history: sent less executed, per destination, shared units

Paths == ({"Evm"} \X Peers) \cup ({"Sol"} \X EvmPeers)
LivePaths == {<<"Evm", EvmOApp>>, <<"Sol", SolOApp>>}

Sol == INSTANCE SolanaOFT
Evm == INSTANCE SanOFT
Lz == INSTANCE Endpoint

\* The parts' own assumptions on the parameters the books depend on; Sol and
\* Evm are instances, which leave theirs to this module.
ASSUME BooksAssumption ==
    /\ ONE_IN_BASIS_POINTS \in Nat \ {0} /\ ld2sd_rate \in Nat \ {0}
    /\ MaxU64 \in Nat /\ MaxSupply \in Nat
    /\ TokenFeeSettings \subseteq Sol!TokenFees
    /\ FeeSettings \subseteq Nat
    /\ AskedAmounts \subseteq Nat /\ EvmAmounts \subseteq Nat
    /\ ZeroAddress \in Peers /\ NoPeer \in EvmPeers
    /\ None \notin [to : {"Evm", "Sol"}, amount : Nat, settled : BOOLEAN]

ASSUME ProgramAssumption ==
    /\ None \notin Nat \cup Keys \cup Sol!Limiters
    /\ None \notin [capacity : Sol!Option(Sol!Amounts), rate : Sol!Option(Sol!Amounts)]
    /\ MaxIdle \in Nat /\ MaxU64 <= MaxIdle
    /\ NoOptions \in EnforcedOptions
    /\ InitialSupply \in Sol!Amounts /\ AskedAmounts \subseteq Sol!Amounts
    /\ LimitSettings \subseteq Sol!LimiterParams

ASSUME ContractAssumption ==
    /\ MaxCapacity \in Nat /\ MaxBucketIdle \in Nat
    /\ BucketSettings \cup {Canary} \subseteq Evm!Settings /\ Evm!Accepted(Canary)
    /\ \A s \in BucketSettings \cup {Canary} :
          Evm!Accepted(s) => s.capacity * s.refillDuration
                                 <= MaxBucketIdle * s.refillAmount

solVars == <<initialized, store, delegate, peerExists, peer, tokenFee, escrow,
             wallet, outDebt, inDebt>>
evmVars == <<owner, evmPaused, evmPeer, totalSupply, outBucket, inBucket,
             outUsed, inUsed>>
vars == <<solVars, evmVars, channel, outstanding>>

Init ==
    /\ Sol!Init
    /\ Evm!Init
    /\ Lz!Init
    /\ outstanding = [to \in {"Evm", "Sol"} |-> 0]

-----------------------------------------------------------------------------
\* Mutated form of Bridged: the message carries local units.
Bridged_Unscaled(amount) == Sol!Adjusted(amount).received

\* The amount of the message a send builds, in shared units.
Bridged(amount) == Sol!ld2sd(Sol!Adjusted(amount).received)

SendFromSolana(amount, minAmount) ==
    LET shared == Bridged(amount)
    IN  /\ Sol!Send(amount, minAmount)
        /\ Lz!send(<<"Evm", peer.address>>, shared)
        /\ outstanding' = [outstanding EXCEPT !["Evm"] = @ + shared]
        /\ UNCHANGED evmVars

SendFromEvm(amount, minAmount) ==
    /\ Evm!send(amount, minAmount)
    /\ Lz!send(<<"Sol", evmPeer>>, amount)
    /\ outstanding' = [outstanding EXCEPT !["Sol"] = @ + amount]
    /\ UNCHANGED solVars

ReceiveOnEvm(n) ==
    LET path == <<"Evm", EvmOApp>>
    IN  /\ Lz!execute(path, n)
        /\ Evm!lzReceive(SolOApp, channel[path][n].amount)
        /\ outstanding' = [outstanding EXCEPT !["Evm"] = @ - channel[path][n].amount]
        /\ UNCHANGED solVars

ReceiveOnSolana(n) ==
    LET path == <<"Sol", SolOApp>>
    IN  /\ Lz!execute(path, n)
        /\ Sol!LzReceive(EvmOApp, channel[path][n].amount)
        /\ outstanding' = [outstanding EXCEPT !["Sol"] = @ - channel[path][n].amount]
        /\ UNCHANGED evmVars

Verify(path, n) ==
    /\ Lz!verify(path, n)
    /\ UNCHANGED <<solVars, evmVars, outstanding>>

\* What the tasks of tasks/solana/endpoint do to a packet for the store, signed
\* by the store's delegate.
Withdraw(n) ==
    LET path == <<"Sol", SolOApp>>
    IN  /\ initialized
        /\ \/ Lz!skip(path, n)
           \/ Lz!clear(path, n)
           \/ Lz!nilify(path, n)
           \/ Lz!burn(path, n)
        /\ UNCHANGED <<solVars, evmVars, outstanding>>

OnSolana ==
    /\ \/ \E type \in OFTTypes, admin \in Keys : Sol!InitOFT(type, admin)
       \/ Sol!Configure
       \/ \E amount \in AskedAmounts : Sol!Donate(amount)
       \/ Sol!ChangeTokenFee
    /\ UNCHANGED <<evmVars, channel, outstanding>>

OnEvm ==
    /\ Evm!Administer
    /\ UNCHANGED <<solVars, channel, outstanding>>

\* Both chains see the same second go by.
Tick ==
    /\ Sol!Tick
    /\ Evm!tick
    /\ UNCHANGED <<channel, outstanding>>

Transfer ==
    \/ \E amount \in AskedAmounts : \E min \in {0, amount} : SendFromSolana(amount, min)
    \/ \E amount \in EvmAmounts : \E min \in {0, amount} : SendFromEvm(amount, min)
    \/ \E n \in 1 .. MaxPackets : ReceiveOnEvm(n) \/ ReceiveOnSolana(n)

Network ==
    \/ \E path \in Paths, n \in 1 .. MaxPackets : Verify(path, n)
    \/ \E n \in 1 .. MaxPackets : Withdraw(n)

Next == Transfer \/ Network \/ OnSolana \/ OnEvm \/ Tick

Spec == Init /\ [][Next]_vars

\* Time passes, the verifier networks verify what was sent, and somebody keeps
\* submitting a packet that would execute: the executor, or a retry by hand,
\* which needs no permission.  Nothing else has to happen.
Fairness ==
    /\ WF_vars(Tick)
    /\ \A path \in LivePaths, n \in 1 .. MaxPackets : WF_vars(Verify(path, n))
    /\ \A n \in 1 .. MaxPackets : WF_vars(ReceiveOnEvm(n))
    /\ \A n \in 1 .. MaxPackets : WF_vars(ReceiveOnSolana(n))

FairSpec == Spec /\ Fairness

-----------------------------------------------------------------------------
(* Properties. *)

Ids == Paths \X (1 .. MaxPackets)
Packet(id) == channel[id[1]][id[2]]
Opened(id) == id[2] \in Lz!Nonces(id[1])
Sent == {id \in Ids : Opened(id)}
Settled == {id \in Sent : Packet(id).status = "delivered"}

\* What was sent to a chain and never executed there: not yet verified, waiting
\* for a retry, withdrawn by the delegate, or addressed to nobody.
Undelivered(destinations) ==
    SumOver([id \in Sent |-> Packet(id).amount],
            {id \in Sent \ Settled : id[1][1] \in destinations})

\* The escrow's liability is the representation's supply plus all that is
\* outstanding in either direction, failed, blocked and withdrawn packets
\* included (docs/IN_FLIGHT_EVIDENCE_MODEL.md:66-79; send.rs, lz_receive.rs,
\* SanOFT.sol _debit and _credit).
Conservation ==
    store.tvl_ld =
        Sol!sd2ld(totalSupply + outstanding["Evm"] + outstanding["Sol"])

\* What the two chains' own books leave unexplained is exactly the packets on
\* the pathways that were never executed: none is executed twice, or for
\* another amount, whatever the delegate's tasks do to its nonce.
OutstandingIsUndelivered ==
    \A to \in {"Evm", "Sol"} : outstanding[to] = Undelivered({to})

\* Every token of the representation is backed by the escrow, and so is every
\* packet on its way, in either direction (docs/ARCHITECTURE.md:59).
EscrowBacksSupply ==
    Sol!sd2ld(totalSupply + Undelivered({"Evm", "Sol"})) <= escrow

\* With both chains paused nothing is opened or settled, though packets are
\* still verified and withdrawn: the emergency stop is complete
\* (docs/EVM_EMERGENCY_CONTROLS_DESIGN.md; send.rs, lz_receive.rs, SanOFT.sol).
EmergencyStop ==
    [][store.paused /\ evmPaused =>
         /\ store'.tvl_ld = store.tvl_ld
         /\ UNCHANGED <<totalSupply, Sent, Settled>>]_vars

\* The bridge implements the ledger of claims: each send opens one claim, each
\* execution settles one claim once and for its own amount.
LedgerAmounts == 0 .. (MaxU64 + MaxSupply)

\* A packet is a claim on its destination, settled once it is executed.
Claims ==
    [id \in Ids |->
        IF Opened(id) THEN [to |-> id[1][1], amount |-> Packet(id).amount,
                            settled |-> Packet(id).status = "delivered"]
                      ELSE None]

Ledger == INSTANCE BridgeLedger WITH
    Ids <- Ids,
    TransferAmounts <- LedgerAmounts,
    NoClaim <- None,
    locked <- Sol!ld2sd(store.tvl_ld),
    minted <- totalSupply,
    claims <- Claims

ImplementsLedger == Ledger!Spec

\* Once both chains stay unpaused with the right peers, every packet between the
\* OApps is executed unless the delegate withdraws it: a receive that failed on
\* a pause, a wrong peer, an empty bucket or a missing earlier nonce has lost
\* nothing and succeeds on a retry
\* (docs/PARTIAL_CONFIGURATION_SECURITY.md:50; lz_receive.rs, SanOFT.sol _credit).
Operational ==
    /\ initialized /\ ~store.paused /\ ~evmPaused
    /\ peer.address = EvmOApp /\ evmPeer = SolOApp

Done(id) == Opened(id) /\ Packet(id).status \in {"delivered", "discarded", "nilified"}

EveryPacketExecuted ==
    <>[]Operational =>
        \A path \in LivePaths, n \in 1 .. MaxPackets :
            Opened(<<path, n>>) ~> Done(<<path, n>>)

=============================================================================
