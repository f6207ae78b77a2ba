--------------------------- MODULE AdapterRuntime ---------------------------
(***************************************************************************)
(* The OFT program over the mock Endpoint: the system that                 *)
(* test/anchor/oftAdapter.runtime.test.ts drives.  init_oft registers the  *)
(* store with the admin as its delegate; send is part of the program's     *)
(* send, and clear of its lz_receive, in the same transaction.  The mock   *)
(* has no set_delegate, so set_oft_config with Delegate fails.             *)
(*                                                                         *)
(* Payments into the escrow and changes of the mint's fee, which touch     *)
(* neither the liability nor the mock, are left to SolanaOFT's own runs.   *)
(***************************************************************************)
EXTENDS Integers, Sums

CONSTANTS ONE_IN_BASIS_POINTS, ld2sd_rate, MaxU64, None, MaxIdle, Keys, Peers,
          ZeroAddress, EnforcedOptions, NoOptions, OFTTypes, InitialSupply,
          TokenFeeSettings, FeeSettings, LimitSettings, AskedAmounts
CONSTANTS Libraries, Guids, Absent, MaxCount
CONSTANTS Store,    \* the store's address
          Nonces,   \* nonces an authorised message may carry
          Wirings   \* configurations the delegate may set

ASSUME RuntimeAssumption ==
    /\ OFTTypes = {"Adapter"}
    /\ Wirings \subseteq SUBSET Libraries

VARIABLES initialized, store, delegate, peerExists, peer, tokenFee, escrow,
          wallet, outDebt, inDebt
VARIABLES oapp_registry, packet_counter, authorized_message
VARIABLES
    bridged  \* history: amounts of all sends so far, in local units

OApps == {Store}
Origins == Peers \X Nonces

Sol == INSTANCE SolanaOFT
Mock == INSTANCE EndpointMock WITH Authorities <- Keys, Messages <- AskedAmounts

\* The program's own assumptions, which an instance leaves to this module.
ASSUME ProgramAssumption ==
    /\ ONE_IN_BASIS_POINTS \in Nat \ {0} /\ ld2sd_rate \in Nat \ {0}
    /\ MaxU64 \in Nat /\ MaxIdle \in Nat /\ MaxU64 <= MaxIdle
    /\ None \notin Nat \cup Keys \cup Sol!Limiters
    /\ None \notin [capacity : Sol!Option(Sol!Amounts), rate : Sol!Option(Sol!Amounts)]
    /\ ZeroAddress \in Peers /\ NoOptions \in EnforcedOptions
    /\ InitialSupply \in Sol!Amounts /\ AskedAmounts \subseteq Sol!Amounts
    /\ TokenFeeSettings \subseteq Sol!TokenFees /\ FeeSettings \subseteq Nat
    /\ LimitSettings \subseteq Sol!LimiterParams

ASSUME AbsentAssumption == Absent \notin Mock!AuthorizedMessages

solVars == <<initialized, store, delegate, peerExists, peer, tokenFee, escrow,
             wallet, outDebt, inDebt>>
mockVars == <<oapp_registry, packet_counter, authorized_message>>
vars == <<solVars, mockVars, bridged>>

Init == Sol!Init /\ Mock!Init /\ bridged = 0

InitOFT ==
    /\ \E type \in OFTTypes, admin \in Keys :
          Sol!InitOFT(type, admin) /\ Mock!register_oapp(Store, admin)
    /\ UNCHANGED bridged

Send(amount, minAmount) ==
    /\ Sol!Send(amount, minAmount)
    /\ Mock!send(Store)
    /\ bridged' = bridged + Sol!Adjusted(amount).received

LzReceive(guid, origin, message) ==
    /\ Mock!clear(Store, guid, origin, message)
    /\ Sol!LzReceive(origin[1], message)
    /\ UNCHANGED bridged

OnProgram ==
    /\ \E key \in Keys :
          \/ Sol!SetOFTConfig(key)
          \/ Sol!SetPeerConfig(key)
          \/ \E p \in LimitSettings : Sol!SetOutboundRateLimit(key, p)
          \/ \E p \in LimitSettings : Sol!SetInboundRateLimit(key, p)
          \/ \E fee \in AskedAmounts : Sol!WithdrawFee(key, fee)
          \/ \E pausing \in BOOLEAN : Sol!SetPause(key, pausing)
    /\ UNCHANGED <<mockVars, bridged>>

OnMock ==
    /\ \E key \in Keys :
          \/ \E wiring \in Wirings : Mock!set_mock_config(Store, key, wiring)
          \/ Mock!init_mock_packet_counter(Store, key)
          \/ \E guid \in Guids, origin \in Origins, message \in AskedAmounts :
                Mock!authorize_message(Store, key, guid, origin, message)
    /\ UNCHANGED <<solVars, bridged>>

Tick == Sol!Tick /\ UNCHANGED <<mockVars, bridged>>

Next ==
    \/ InitOFT
    \/ OnProgram
    \/ OnMock
    \/ \E amount \in AskedAmounts : \E min \in {0, amount} : Send(amount, min)
    \/ \E guid \in Guids, origin \in Origins, message \in AskedAmounts :
          LzReceive(guid, origin, message)
    \/ Tick

Spec == Init /\ [][Next]_vars

-----------------------------------------------------------------------------
(* Properties. *)

Message(guid) == authorized_message[<<Store, guid>>]

Exists(guid) == Message(guid) # Absent

Consumed ==
    {guid \in Guids : Exists(guid) /\ Message(guid).consumed}

\* The liability is what was bridged less the messages that were consumed, each
\* once and for the amount it was authorised with: a receive that fails after
\* the Endpoint's clear leaves both alone, and none releases custody twice
\* (lz_receive.rs, endpoint-mock runtime.rs; the replay and rollback cases of
\* test/anchor/oftAdapter.runtime.test.ts).
LiabilityIsOpen ==
    store.tvl_ld = bridged
        - Sol!sd2ld(SumOver([guid \in Consumed |-> Message(guid).message],
                            Consumed))

\* A message that was authorised keeps its origin and contents for ever, and one
\* that was consumed stays consumed, whatever its delegate signs afterwards.
MessagesAreFinal ==
    [][\A guid \in Guids : Exists(guid) =>
         /\ Message(guid)' # Absent
         /\ Message(guid)'.origin = Message(guid).origin
         /\ Message(guid)'.message = Message(guid).message
         /\ guid \in Consumed => guid \in Consumed']_vars

=============================================================================
