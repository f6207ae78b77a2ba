------------------------ MODULE AdapterRuntime_proofs ------------------------
(***************************************************************************)
(* The program over the mock Endpoint, for every number of messages, keys  *)
(* and peers: the program's own theorems hold of it, a message never       *)
(* changes once it is authorised, and the liability is what was bridged    *)
(* less the messages consumed.                                             *)
(***************************************************************************)
EXTENDS AdapterRuntime, Arith_proofs

Program == INSTANCE SolanaOFT_proofs

-----------------------------------------------------------------------------
(* Each behaviour is one of the program. *)

LEMMA SameSends ==
    ASSUME NEW amount, NEW min, Sol!Send(amount, min)
    PROVE  /\ Program!Send(amount, min)
           /\ Program!Adjusted(amount) = Sol!Adjusted(amount)
<1>1. Program!Adjusted(amount) = Sol!Adjusted(amount)
  BY DEF Sol!Adjusted, Sol!Adjust, Sol!remove_dust, Sol!PostFee, Sol!PreFee,
         Sol!TokenFeeOn, Sol!CeilDiv, Sol!MinOf, Sol!calculate_fee,
         Program!Adjusted, Program!Adjust, Program!remove_dust, Program!PostFee,
         Program!PreFee, Program!TokenFeeOn, Program!CeilDiv, Program!MinOf,
         Program!calculate_fee
<1> QED
  BY <1>1
  DEF Sol!Send, Sol!NotPaused, Sol!Admits, Sol!CanConsume, Sol!Consumed, Sol!consume,
      Sol!CrossRefilled, Sol!refill, Sol!Refilled, Sol!SatAdd, Sol!SatMul, Sol!MinOf,
      Sol!Monus, Sol!MovedByAdapter, Sol!MovedByNative, Sol!PostFee, Sol!TokenFeeOn,
      Sol!CeilDiv, Sol!DebtAfterSpending, Sol!DebtAfterCredit,
      Program!Send, Program!NotPaused, Program!Admits, Program!CanConsume,
      Program!Consumed, Program!consume, Program!CrossRefilled, Program!refill,
      Program!Refilled, Program!SatAdd, Program!SatMul, Program!MinOf, Program!Monus,
      Program!MovedByAdapter, Program!MovedByNative, Program!PostFee,
      Program!TokenFeeOn, Program!CeilDiv, Program!DebtAfterSpending,
      Program!DebtAfterCredit

LEMMA SameReceives ==
    ASSUME NEW sender, NEW amount, Sol!LzReceive(sender, amount)
    PROVE  Program!LzReceive(sender, amount)
  BY DEF Sol!LzReceive, Sol!NotPaused, Sol!sd2ld, Sol!Admits, Sol!CanConsume,
         Sol!Consumed, Sol!consume, Sol!CrossRefilled, Sol!refill, Sol!Refilled,
         Sol!SatAdd, Sol!SatMul, Sol!MinOf, Sol!Monus, Sol!DebtAfterSpending,
         Sol!DebtAfterCredit,
         Program!LzReceive, Program!NotPaused, Program!sd2ld, Program!Admits,
         Program!CanConsume, Program!Consumed, Program!consume,
         Program!CrossRefilled, Program!refill, Program!Refilled, Program!SatAdd,
         Program!SatMul, Program!MinOf, Program!Monus, Program!DebtAfterSpending,
         Program!DebtAfterCredit

LEMMA SameSettings ==
    ASSUME NEW key \in Keys
    PROVE  /\ Sol!SetOFTConfig(key) => Program!Configure
           /\ Sol!SetPeerConfig(key) => Program!Configure
           /\ \A p \in LimitSettings : Sol!SetOutboundRateLimit(key, p) => Program!Configure
           /\ \A p \in LimitSettings : Sol!SetInboundRateLimit(key, p) => Program!Configure
           /\ \A fee \in AskedAmounts : Sol!WithdrawFee(key, fee) => Program!Configure
           /\ \A pausing \in BOOLEAN : Sol!SetPause(key, pausing) => Program!Configure
<1>1. /\ Sol!SetOFTConfig(key) => Program!SetOFTConfig(key)
      /\ Sol!SetPeerConfig(key) => Program!SetPeerConfig(key)
      /\ \A fee : Sol!WithdrawFee(key, fee) => Program!WithdrawFee(key, fee)
      /\ \A pausing : Sol!SetPause(key, pausing) => Program!SetPause(key, pausing)
  BY DEF Sol!SetOFTConfig, Sol!SetPeerConfig, Sol!WithdrawFee, Sol!SetPause,
         Sol!SignedByAdmin, Sol!ValidFeeBps, Sol!Option, Sol!Withdrawable,
         Sol!is_valid_signer,
         Program!SetOFTConfig, Program!SetPeerConfig, Program!WithdrawFee,
         Program!SetPause, Program!SignedByAdmin, Program!ValidFeeBps,
         Program!Option, Program!Withdrawable, Program!is_valid_signer
<1>2. ASSUME NEW p
      PROVE  /\ Sol!SetOutboundRateLimit(key, p) => Program!SetOutboundRateLimit(key, p)
             /\ Sol!SetInboundRateLimit(key, p) => Program!SetInboundRateLimit(key, p)
  BY DEF Sol!SetOutboundRateLimit, Sol!SetInboundRateLimit, Sol!SignedByAdmin,
         Sol!DebtAfterUpdate, Sol!update_rate_limiter, Sol!DefaultLimiter,
         Sol!set_capacity, Sol!set_rate, Sol!refill, Sol!Refilled, Sol!SatAdd,
         Sol!SatMul, Sol!MinOf,
         Program!SetOutboundRateLimit, Program!SetInboundRateLimit,
         Program!SignedByAdmin, Program!DebtAfterUpdate,
         Program!update_rate_limiter, Program!DefaultLimiter,
         Program!set_capacity, Program!set_rate, Program!refill, Program!Refilled,
         Program!SatAdd, Program!SatMul, Program!MinOf
<1> QED
  BY <1>1, <1>2 DEF Program!Configure

LEMMA ProgramStep ==
    ASSUME [Next]_vars
    PROVE  [Program!Next]_(Program!solanaVars)
<1>1. CASE InitOFT
  BY <1>1 DEF InitOFT, Sol!InitOFT, Program!InitOFT, Sol!NewStore, Program!NewStore,
              Program!Next
<1>2. CASE OnProgram
  BY <1>2, SameSettings DEF OnProgram, Program!Next
<1>3. CASE \E amount \in AskedAmounts : \E min \in {0, amount} : Send(amount, min)
  BY <1>3, SameSends DEF Send, Program!Next, Program!Transfer
<1>4. CASE \E guid \in Guids, origin \in Origins, message \in AskedAmounts :
             LzReceive(guid, origin, message)
  <2>1. PICK guid \in Guids, origin \in Origins, message \in AskedAmounts :
          LzReceive(guid, origin, message)
    BY <1>4
  <2>2. origin[1] \in Peers /\ Program!LzReceive(origin[1], message)
    BY <2>1, SameReceives DEF LzReceive, Origins
  <2> QED
    BY <2>2 DEF Program!Next, Program!Transfer
<1>5. CASE Tick
  BY <1>5 DEF Tick, Sol!Tick, Program!Tick, Sol!Aged, Program!Aged,
              Sol!DebtAfterSecond, Program!DebtAfterSecond, Sol!MinOf, Program!MinOf,
              Sol!Monus, Program!Monus, Program!Next, Program!Environment
<1>6. CASE OnMock \/ UNCHANGED vars
  BY <1>6 DEF OnMock, vars, solVars, Program!solanaVars
<1> QED
  BY <1>1, <1>2, <1>3, <1>4, <1>5, <1>6 DEF Next

\* Over the mock the OFT program behaves as it does alone, against any sender of
\* messages: what is proved of it is true of the runtime the tests drive.
THEOREM RuntimeRunsProgram == Spec => Program!Spec
<1>1. Init => Program!Init
  BY DEF Init, Sol!Init, Program!Init, Sol!NewStore, Program!NewStore, Sol!NewPeer,
         Program!NewPeer
<1>2. [Next]_vars => [Program!Next]_(Program!solanaVars)
  BY ProgramStep
<1> QED
  BY <1>1, <1>2, PTL DEF Spec, Program!Spec

\* The assumptions under which the program is proved hold of this instance.
LEMMA ProgramAssumed ==
    /\ MaxU64 \in Nat /\ None \notin Nat
    /\ ONE_IN_BASIS_POINTS \in Nat \ {0} /\ ld2sd_rate \in Nat \ {0}
    /\ MaxIdle \in Nat /\ MaxU64 <= MaxIdle
    /\ None \notin Program!Limiters
    /\ None \notin [capacity : Program!Option(Program!Amounts),
                    rate : Program!Option(Program!Amounts)]
    /\ ZeroAddress \in Peers /\ NoOptions \in EnforcedOptions /\ None \notin Keys
    /\ OFTTypes \subseteq {"Adapter", "Native"}
    /\ InitialSupply \in Program!Amounts
    /\ TokenFeeSettings \subseteq Program!TokenFees
    /\ FeeSettings \subseteq Nat
    /\ LimitSettings \subseteq Program!LimiterParams
    /\ AskedAmounts \subseteq Program!Amounts
  BY ProgramAssumption, RuntimeAssumption
  DEF Sol!Amounts, Program!Amounts, Sol!TokenFees, Program!TokenFees, Sol!Limiters,
      Program!Limiters, Sol!LimiterParams, Program!LimiterParams, Sol!Option,
      Program!Option

LEMMA ProgramHolds ==
    Spec => []Program!SolanaTypeOK /\ []Program!AdjustmentSound
<1>1. Program!Spec => []Program!SolanaTypeOK /\ []Program!AdjustmentSound
  BY ProgramAssumed, Program!TypesAlwaysHold, Program!AdjustmentAlwaysHolds
<1> QED
  BY <1>1, RuntimeRunsProgram, PTL

-----------------------------------------------------------------------------
(* The messages. *)

MessagesTyped ==
    authorized_message \in [OApps \X Guids -> Mock!AuthorizedMessages \cup {Absent}]

\* What is never undone about the message of a guid.
Final(guid) ==
    Exists(guid) =>
        /\ Message(guid)' # Absent
        /\ Message(guid)'.origin = Message(guid).origin
        /\ Message(guid)'.message = Message(guid).message
        /\ guid \in Consumed => guid \in Consumed'

LEMMA MessageOf ==
    ASSUME MessagesTyped, NEW guid \in Guids
    PROVE  /\ <<Store, guid>> \in OApps \X Guids
           /\ Exists(guid) => Message(guid) \in Mock!AuthorizedMessages
  BY DEF MessagesTyped, Exists, OApps, Message

\* A message is authorised where there is none.
LEMMA AuthorizeEffect ==
    ASSUME MessagesTyped, NEW key, NEW guid \in Guids, NEW origin \in Origins,
           NEW message \in AskedAmounts,
           Mock!authorize_message(Store, key, guid, origin, message)
    PROVE  /\ MessagesTyped'
           /\ Consumed' = Consumed
           /\ \A g \in Guids : Final(g)
<1>. DEFINE new == Mock!Unconsumed(origin, message)
<1>1. new \in Mock!AuthorizedMessages /\ new.consumed = FALSE
  BY DEF Mock!Unconsumed, Mock!AuthorizedMessages
<1>. HIDE DEF new
<1>2. /\ Message(guid) = Absent
      /\ authorized_message' = [authorized_message EXCEPT ![<<Store, guid>>] = new]
  BY DEF Mock!authorize_message, Message, new
<1>3. MessagesTyped'
  BY <1>1, <1>2, MessageOf DEF MessagesTyped, Message
<1>4. Message(guid)' = new
  BY <1>2, MessageOf DEF MessagesTyped, Message
<1>5. \A g \in Guids \ {guid} :
        Message(g)' = Message(g)
  BY <1>2, MessageOf DEF MessagesTyped, Message
<1>6. ~Exists(guid) /\ guid \notin Consumed /\ guid \notin Consumed'
  BY <1>1, <1>2, <1>4 DEF Exists, Consumed
<1>7. \A g \in Guids \ {guid} : g \in Consumed' <=> g \in Consumed
  BY <1>5 DEF Exists, Consumed
<1>8. Consumed' = Consumed
  BY <1>6, <1>7 DEF Consumed
<1> QED
  BY <1>3, <1>5, <1>6, <1>8 DEF Final, Exists

\* clear consumes one message that was not consumed, and changes nothing else.
LEMMA ClearEffect ==
    ASSUME MessagesTyped, NEW guid \in Guids, NEW origin \in Origins,
           NEW message \in AskedAmounts,
           Mock!clear(Store, guid, origin, message)
    PROVE  /\ MessagesTyped'
           /\ guid \notin Consumed /\ Consumed' = Consumed \cup {guid}
           /\ Message(guid).message = message
           /\ \A g \in Guids : Final(g)
<1>. DEFINE old == Message(guid)
            new == [old EXCEPT !.consumed = TRUE]
<1>1. /\ old = Mock!Unconsumed(origin, message)
      /\ authorized_message' = [authorized_message EXCEPT ![<<Store, guid>>] = new]
  BY MessageOf DEF Mock!clear, Mock!Matches, MessagesTyped, Message
<1>2. old \in Mock!AuthorizedMessages
  BY <1>1 DEF Mock!Unconsumed, Mock!AuthorizedMessages
<1>3. old.origin = origin /\ old.message = message /\ old.consumed = FALSE
  BY <1>1 DEF Mock!Unconsumed
<1>4. /\ new \in Mock!AuthorizedMessages /\ new.consumed = TRUE
      /\ new.origin = old.origin /\ new.message = old.message
  BY <1>2 DEF Mock!AuthorizedMessages
<1>. HIDE DEF new
<1>5. Message(guid)' = new
  BY <1>1, MessageOf DEF MessagesTyped, Message
<1>6. \A g \in Guids \ {guid} :
        Message(g)' = Message(g)
  BY <1>1, MessageOf DEF MessagesTyped, Message
<1>7. MessagesTyped'
  BY <1>1, <1>4, MessageOf DEF MessagesTyped, Message
<1>8. old # Absent /\ new # Absent
  BY <1>2, <1>4, AbsentAssumption
<1>9. guid \notin Consumed /\ guid \in Consumed'
  BY <1>3, <1>4, <1>5, <1>8 DEF Exists, Consumed
<1>10. \A g \in Guids \ {guid} : g \in Consumed' <=> g \in Consumed
  BY <1>6 DEF Exists, Consumed
<1>11. Consumed' = Consumed \cup {guid}
  BY <1>9, <1>10 DEF Consumed
<1>12. Final(guid)
  BY <1>4, <1>5, <1>8, <1>9 DEF Final
<1>13. \A g \in Guids \ {guid} : Final(g)
  BY <1>6, <1>10 DEF Final, Exists
<1> QED
  BY <1>3, <1>7, <1>9, <1>11, <1>12, <1>13

\* Every step authorises a message, consumes one with a receive, or leaves them.
LEMMA MessagesStep ==
    ASSUME MessagesTyped, [Next]_vars
    PROVE  /\ MessagesTyped'
           /\ \A g \in Guids : Final(g)
           /\ \/ Consumed' = Consumed
              \/ \E guid \in Guids, origin \in Origins, message \in AskedAmounts :
                    LzReceive(guid, origin, message)
<1>1. CASE OnMock
  <2>1. \/ authorized_message' = authorized_message
        \/ \E key \in Keys, guid \in Guids, origin \in Origins, message \in AskedAmounts :
              Mock!authorize_message(Store, key, guid, origin, message)
    BY <1>1 DEF OnMock, Mock!set_mock_config, Mock!init_mock_packet_counter
  <2> QED
    BY <2>1, AuthorizeEffect DEF MessagesTyped, Final, Exists, Consumed, Message
<1>2. CASE \E guid \in Guids, origin \in Origins, message \in AskedAmounts :
             LzReceive(guid, origin, message)
  BY <1>2, ClearEffect DEF LzReceive
<1>3. CASE \/ InitOFT \/ OnProgram \/ Tick \/ UNCHANGED vars
           \/ \E amount \in AskedAmounts : \E min \in {0, amount} : Send(amount, min)
  <2>1. authorized_message' = authorized_message
    BY <1>3 DEF InitOFT, OnProgram, Tick, Send, vars, mockVars, Mock!register_oapp,
                Mock!send
  <2> QED
    BY <2>1 DEF MessagesTyped, Final, Exists, Consumed, Message
<1> QED
  BY <1>1, <1>2, <1>3 DEF Next

LEMMA MessagesInit == Init => MessagesTyped
  BY DEF Init, Mock!Init, MessagesTyped

\* A message that was authorised keeps its origin and contents, and one that was
\* consumed stays so, whatever its delegate signs afterwards
\* (endpoint-mock runtime.rs, authorize_message and clear).
THEOREM MessagesAlwaysFinal == Spec => MessagesAreFinal
<1>1. MessagesTyped /\ [Next]_vars => MessagesTyped'
  BY MessagesStep
<1>2. MessagesTyped /\ [Next]_vars =>
        [\A guid \in Guids : Exists(guid) =>
           /\ Message(guid)' # Absent
           /\ Message(guid)'.origin = Message(guid).origin
           /\ Message(guid)'.message = Message(guid).message
           /\ guid \in Consumed => guid \in Consumed']_vars
  BY MessagesStep DEF Final
<1> QED
  BY <1>1, <1>2, MessagesInit, PTL DEF Spec, MessagesAreFinal

-----------------------------------------------------------------------------
(* The liability. *)

Contents == [guid \in Consumed |-> Message(guid).message]

\* init_oft writes a new store, so the one before it must owe nothing.
MoneyInv ==
    /\ MessagesTyped
    /\ IsFiniteSet(Consumed)
    /\ bridged \in Int
    /\ store.oft_type = "Adapter"
    /\ ~initialized => store.tvl_ld = 0
    /\ LiabilityIsOpen

LEMMA ContentsNatural ==
    ASSUME MessagesTyped
    PROVE  \A guid \in Consumed : Contents[guid] \in Nat /\ Contents[guid] \in AskedAmounts
<1>. TAKE guid \in Consumed
<1>1. Message(guid) \in Mock!AuthorizedMessages
  BY MessageOf DEF Consumed
<1>2. Message(guid).message \in AskedAmounts
  BY <1>1 DEF Mock!AuthorizedMessages
<1>3. AskedAmounts \subseteq Nat
  BY ProgramAssumption DEF Sol!Amounts
<1> QED
  BY <1>2, <1>3 DEF Contents

\* A step that consumes nothing leaves what was consumed as it was.
LEMMA SameContents ==
    ASSUME MoneyInv, Consumed' = Consumed, \A g \in Guids : Final(g)
    PROVE  SumOver(Contents, Consumed)' = SumOver(Contents, Consumed)
<1>1. \A g \in Consumed : Contents'[g] = Contents[g]
  BY DEF Contents, Consumed, Final
<1>2. PICK f, h, S : f = Contents /\ h = Contents' /\ S = Consumed
  OBVIOUS
<1>3. SumOver(f, S) = SumOver(h, S)
  BY <1>1, <1>2, SumSame DEF MoneyInv
<1> QED
  BY <1>2, <1>3

LEMMA SendMoney ==
    ASSUME MoneyInv, Program!SolanaTypeOK, Program!AdjustmentSound,
           NEW amount \in AskedAmounts, NEW min, Send(amount, min)
    PROVE  \E r \in Nat : /\ store'.tvl_ld = store.tvl_ld + r
                          /\ bridged' = bridged + r
                          /\ store'.oft_type = store.oft_type
                          /\ initialized /\ initialized'
<1>. DEFINE r == Sol!Adjusted(amount).received
<1>1. Sol!Send(amount, min) /\ bridged' = bridged + r
  BY DEF Send
<1>2. r \in Nat
  <2>1. Program!Adjusted(amount).received \in Nat
    BY ProgramAssumption DEF Program!AdjustmentSound, Sol!Amounts, Program!Amounts
  <2> QED
    BY <1>1, <2>1, SameSends
<1>3. store \in Program!Stores
  BY DEF Program!SolanaTypeOK
<1>4. initialized /\ initialized' = initialized
      /\ store' = [store EXCEPT !.tvl_ld = @ + r]
  BY <1>1 DEF Sol!Send, Sol!MovedByAdapter, MoneyInv
<1>. HIDE DEF r
<1> QED
  BY <1>1, <1>2, <1>3, <1>4 DEF Program!Stores

LEMMA ReceiveMoney ==
    ASSUME MoneyInv, Program!SolanaTypeOK, NEW guid \in Guids, NEW origin \in Origins,
           NEW message \in AskedAmounts, LzReceive(guid, origin, message)
    PROVE  /\ store'.tvl_ld = store.tvl_ld - Sol!sd2ld(message)
           /\ bridged' = bridged
           /\ store'.oft_type = store.oft_type
           /\ initialized /\ initialized'
<1>. DEFINE r == Sol!sd2ld(message)
<1>1. store \in Program!Stores
  BY DEF Program!SolanaTypeOK
<1>2. initialized /\ initialized' = initialized /\ bridged' = bridged
      /\ store' = [store EXCEPT !.tvl_ld = @ - r]
  BY DEF LzReceive, Sol!LzReceive, MoneyInv
<1>. HIDE DEF r
<1>3. store'.tvl_ld = store.tvl_ld - r /\ store'.oft_type = store.oft_type
  BY <1>1, <1>2 DEF Program!Stores
<1> QED
  BY <1>2, <1>3 DEF r

\* The steps that send and receive nothing.
LEMMA OtherMoney ==
    ASSUME MoneyInv, Program!SolanaTypeOK,
           InitOFT \/ OnProgram \/ OnMock \/ Tick \/ UNCHANGED vars
    PROVE  /\ store'.tvl_ld = store.tvl_ld /\ store'.oft_type = "Adapter"
           /\ bridged' = bridged
           /\ initialized => initialized'
<1>1. store \in Program!Stores /\ store.oft_type = "Adapter"
      /\ (~initialized => store.tvl_ld = 0)
  BY DEF Program!SolanaTypeOK, MoneyInv
<1>2. CASE InitOFT
  BY <1>1, <1>2, RuntimeAssumption DEF InitOFT, Sol!InitOFT, Sol!NewStore
<1>3. CASE OnProgram
  <2>1. PICK key \in Keys :
          \/ Sol!SetOFTConfig(key)
          \/ Sol!SetPeerConfig(key)
          \/ \E p \in LimitSettings : Sol!SetOutboundRateLimit(key, p)
          \/ \E p \in LimitSettings : Sol!SetInboundRateLimit(key, p)
          \/ \E fee \in AskedAmounts : Sol!WithdrawFee(key, fee)
          \/ \E pausing \in BOOLEAN : Sol!SetPause(key, pausing)
    BY <1>3 DEF OnProgram
  <2>2. bridged' = bridged /\ initialized' = initialized
    BY <1>3 DEF OnProgram, Sol!SetOFTConfig, Sol!SetPeerConfig,
                Sol!SetOutboundRateLimit, Sol!SetInboundRateLimit, Sol!WithdrawFee,
                Sol!SetPause
  <2>3. \/ store' = store
        \/ \E k : store' = [store EXCEPT !.admin = k]
        \/ \E k : store' = [store EXCEPT !.default_fee_bps = k]
        \/ \E k : store' = [store EXCEPT !.paused = k]
        \/ \E k : store' = [store EXCEPT !.pauser = k]
        \/ \E k : store' = [store EXCEPT !.unpauser = k]
    BY <2>1 DEF Sol!SetOFTConfig, Sol!SetPeerConfig, Sol!SetOutboundRateLimit,
                Sol!SetInboundRateLimit, Sol!WithdrawFee, Sol!SetPause
  <2>4. store'.tvl_ld = store.tvl_ld /\ store'.oft_type = store.oft_type
    BY <1>1, <2>3 DEF Program!Stores
  <2> QED
    BY <1>1, <2>2, <2>4
<1>4. CASE OnMock \/ Tick \/ UNCHANGED vars
  BY <1>1, <1>4 DEF OnMock, Tick, Sol!Tick, vars, solVars
<1> QED
  BY <1>2, <1>3, <1>4

LEMMA MoneyStep ==
    ASSUME MoneyInv, Program!SolanaTypeOK, Program!AdjustmentSound, [Next]_vars
    PROVE  MoneyInv'
<1>. DEFINE total == SumOver(Contents, Consumed)
<1>0. /\ MessagesTyped /\ IsFiniteSet(Consumed) /\ bridged \in Int
      /\ store.oft_type = "Adapter" /\ (~initialized => store.tvl_ld = 0)
      /\ store.tvl_ld = bridged - Sol!sd2ld(total)
  BY DEF MoneyInv, LiabilityIsOpen, Contents
<1>1. MessagesTyped' /\ \A g \in Guids : Final(g)
  BY <1>0, MessagesStep
<1>2. /\ total \in Nat /\ ld2sd_rate \in Nat
      /\ Sol!sd2ld(total) = total * ld2sd_rate
  <2>1. total \in Nat
    BY <1>0, ContentsNatural, SumNat
  <2> QED
    BY <2>1, ProgramAssumption DEF Sol!sd2ld
<1>3. SUFFICES /\ IsFiniteSet(Consumed)' /\ bridged' \in Int
               /\ store'.oft_type = "Adapter"
               /\ ~initialized' => store'.tvl_ld = 0
               /\ store'.tvl_ld = bridged' - Sol!sd2ld(total')
  BY <1>1 DEF MoneyInv, LiabilityIsOpen, Contents
<1>4. CASE \E amount \in AskedAmounts : \E min \in {0, amount} : Send(amount, min)
  <2>1. PICK r \in Nat : /\ store'.tvl_ld = store.tvl_ld + r
                         /\ bridged' = bridged + r
                         /\ store'.oft_type = store.oft_type
                         /\ initialized /\ initialized'
    BY <1>4, SendMoney
  <2>2. Consumed' = Consumed
    BY <1>4 DEF Send, Mock!send, Consumed, Exists, Message
  <2>3. total' = total
    BY <1>1, <2>2, SameContents
  <2>. HIDE DEF total
  <2> QED
    BY <1>0, <1>2, <2>1, <2>2, <2>3
<1>5. CASE \E guid \in Guids, origin \in Origins, message \in AskedAmounts :
             LzReceive(guid, origin, message)
  <2>1. PICK guid \in Guids, origin \in Origins, message \in AskedAmounts :
          LzReceive(guid, origin, message)
    BY <1>5
  <2>2. /\ guid \notin Consumed /\ Consumed' = Consumed \cup {guid}
        /\ Message(guid).message = message
    BY <1>0, <2>1, ClearEffect DEF LzReceive
  <2>3. /\ store'.tvl_ld = store.tvl_ld - Sol!sd2ld(message) /\ bridged' = bridged
        /\ store'.oft_type = store.oft_type /\ initialized /\ initialized'
    BY <2>1, ReceiveMoney
  <2>4. Message(guid)'.message = message /\ message \in Nat
    <3>1. Exists(guid)
      <4>1. Message(guid) = Mock!Unconsumed(origin, message)
        BY <2>1 DEF LzReceive, Mock!clear, Mock!Matches, Message
      <4>2. Mock!Unconsumed(origin, message) \in Mock!AuthorizedMessages
        BY DEF Mock!Unconsumed, Mock!AuthorizedMessages
      <4> QED
        BY <4>1, <4>2, AbsentAssumption DEF Exists
    <3> QED
      BY <1>1, <2>2, <3>1, ProgramAssumption DEF Final, Sol!Amounts
  <2>5. PICK f, h, S, T : /\ f = Contents /\ h = Contents'
                          /\ S = Consumed /\ T = Consumed'
    OBVIOUS
  <2>6. /\ \A g \in S : h[g] = f[g] /\ f[g] \in Nat
        /\ h[guid] = message
    <3>1. \A g \in Consumed : Contents'[g] = Contents[g]
      BY <1>1, <2>2 DEF Contents, Consumed, Final
    <3>2. Contents'[guid] = message
      BY <2>2, <2>4 DEF Contents
    <3> QED
      BY <1>0, <2>5, <3>1, <3>2, ContentsNatural
  <2>7. SumOver(h, T) = message + SumOver(h, S)
    BY <1>0, <2>2, <2>4, <2>5, <2>6, SumAdd
  <2>8. SumOver(h, S) = SumOver(f, S)
    BY <1>0, <2>5, <2>6, SumSame
  <2>9. total' = total + message
    BY <1>2, <2>4, <2>5, <2>7, <2>8
  <2>10. IsFiniteSet(Consumed')
    BY <1>0, <2>2, FS_AddElement
  <2>. HIDE DEF total
  <2>11. /\ Sol!sd2ld(message) = message * ld2sd_rate
         /\ Sol!sd2ld(total') = total * ld2sd_rate + message * ld2sd_rate
         /\ total * ld2sd_rate \in Int /\ message * ld2sd_rate \in Int
    <3>1. (total + message) * ld2sd_rate = total * ld2sd_rate + message * ld2sd_rate
      BY <1>2, <2>4, SMT
    <3> QED
      BY <1>2, <2>4, <2>9, <3>1 DEF Sol!sd2ld
  <2> QED
    BY <1>0, <1>2, <2>3, <2>10, <2>11
<1>6. CASE InitOFT \/ OnProgram \/ OnMock \/ Tick \/ UNCHANGED vars
  <2>1. /\ store'.tvl_ld = store.tvl_ld /\ store'.oft_type = "Adapter"
        /\ bridged' = bridged
        /\ initialized => initialized'
    BY <1>6, OtherMoney
  <2>2. Consumed' = Consumed
    <3>1. CASE OnMock
      <4>1. \/ authorized_message' = authorized_message
            \/ \E key \in Keys, guid \in Guids, origin \in Origins, message \in AskedAmounts :
                  Mock!authorize_message(Store, key, guid, origin, message)
        BY <3>1 DEF OnMock, Mock!set_mock_config, Mock!init_mock_packet_counter
      <4> QED
        BY <1>0, <4>1, AuthorizeEffect DEF Consumed, Exists, Message
    <3>2. CASE InitOFT \/ OnProgram \/ Tick \/ UNCHANGED vars
      BY <3>2 DEF InitOFT, OnProgram, Tick, vars, mockVars, Mock!register_oapp,
                  Consumed, Exists, Message
    <3> QED
      BY <1>6, <3>1, <3>2
  <2>3. total' = total
    BY <1>1, <2>2, SameContents
  <2>. HIDE DEF total
  <2> QED
    BY <1>0, <2>1, <2>2, <2>3
<1> QED
  BY <1>4, <1>5, <1>6 DEF Next

LEMMA MoneyInit == Init => MoneyInv
<1>. SUFFICES ASSUME Init PROVE MoneyInv
  OBVIOUS
<1>1. MessagesTyped
  BY MessagesInit
<1>2. \A guid \in Guids : Message(guid) = Absent
  BY DEF Init, Mock!Init, Message, OApps
<1>3. Consumed = {}
  BY <1>2 DEF Consumed, Exists
<1>4. store.tvl_ld = 0 /\ store.oft_type = "Adapter" /\ bridged = 0
  BY RuntimeAssumption DEF Init, Sol!Init, Sol!NewStore
<1>5. LiabilityIsOpen
  <2>1. 0 = 0 - 0 * ld2sd_rate
    BY ProgramAssumption
  <2> QED
    BY <1>3, <1>4, <2>1, SumEmpty DEF LiabilityIsOpen, Sol!sd2ld
<1> QED
  BY <1>1, <1>3, <1>4, <1>5, FS_EmptySet DEF MoneyInv

\* The liability is what was bridged less the messages consumed, each once and
\* for the amount it was authorised with: no receive, whenever it is tried,
\* retried or rolled back, releases custody twice (lz_receive.rs,
\* endpoint-mock runtime.rs).
THEOREM LiabilityAlwaysOpen == Spec => []LiabilityIsOpen
<1>1. MoneyInv /\ Program!SolanaTypeOK /\ Program!AdjustmentSound /\ [Next]_vars => MoneyInv'
  BY MoneyStep
<1>2. MoneyInv => LiabilityIsOpen
  BY DEF MoneyInv
<1> QED
  BY <1>1, <1>2, MoneyInit, ProgramHolds, PTL DEF Spec

=============================================================================
