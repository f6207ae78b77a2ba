--------------------------- MODULE Bridge_proofs ---------------------------
(***************************************************************************)
(* The bridge for every number of packets, keys, peers and fees: the books *)
(* of the two chains agree with what is outstanding, both pauses together  *)
(* stop it, and it implements the ledger of claims.                        *)
(***************************************************************************)
EXTENDS Bridge, Arith_proofs

Rate == ld2sd_rate

\* The part of the types that the books depend on.
BooksTyped ==
    /\ store \in Sol!Stores /\ store.oft_type = "Adapter"
    /\ {"address", "fee_bps"} \subseteq DOMAIN peer
    /\ peer.address \in Peers
    /\ peer.fee_bps \in Sol!Option(Nat)
    /\ tokenFee \in Sol!TokenFees
    /\ totalSupply \in 0 .. MaxSupply
    /\ evmPeer \in EvmPeers
    /\ outstanding \in [{"Evm", "Sol"} -> Int]
    /\ channel \in [Paths -> Seq(Lz!Packets)]

\* init_oft writes a new store, so the one before it must owe nothing.
NothingOwedBeforeInit == ~initialized => store.tvl_ld = 0

BridgeInv == BooksTyped /\ NothingOwedBeforeInit /\ Conservation

-----------------------------------------------------------------------------
(* Shared units. *)

LEMMA WholeQuotient ==
    ASSUME NEW q \in Int
    PROVE  Sol!ld2sd(Rate * q) = q /\ Sol!ld2sd(q * Rate) = q
<1>1. Rate \in Nat \ {0}
  BY BooksAssumption DEF Rate
<1>. DEFINE x == Rate * q
<1>2. x \in Int /\ x = q * Rate
  BY <1>1
<1>3. Rate * q <= x /\ x < Rate * q + Rate
  BY <1>1
<1>. HIDE DEF x
<1>4. x \div Rate = q
  BY <1>1, <1>2, <1>3, DivUnique
<1> QED
  BY <1>2, <1>4 DEF Sol!ld2sd, Rate, x

\* What remove_dust leaves of an integer is a whole number of shared units.
LEMMA DustLeavesWhole ==
    ASSUME NEW x \in Int
    PROVE  Sol!remove_dust(x) \in Int /\ \E q \in Int : Sol!remove_dust(x) = Rate * q
<1>1. Rate \in Nat \ {0}
  BY BooksAssumption DEF Rate
<1>2. /\ x \div Rate \in Int /\ x % Rate \in 0 .. Rate - 1
      /\ x = Rate * (x \div Rate) + (x % Rate)
  BY <1>1, DivMod
<1>3. Sol!remove_dust(x) = Rate * (x \div Rate)
  BY <1>1, <1>2 DEF Sol!remove_dust, Rate
<1> QED
  BY <1>1, <1>2, <1>3

\* A send bridges a whole number of shared units: the message carries exactly
\* what the liability is raised by.
LEMMA BridgedIsWhole ==
    ASSUME BooksTyped, NEW amount \in Nat
    PROVE  LET r == Sol!Adjusted(amount).received
           IN  r \in Int /\ Bridged(amount) \in Int /\ r = Rate * Bridged(amount)
<1>. DEFINE U == ONE_IN_BASIS_POINTS
            post == Sol!PostFee(tokenFee, amount)
            base == Sol!remove_dust(post)
            share == Sol!calculate_fee(base, store.default_fee_bps, peer.fee_bps)
            fee == Sol!remove_dust(share)
            r == Sol!Adjusted(amount).received
<1>1. U \in Nat \ {0} /\ Rate \in Nat \ {0} /\ MaxU64 \in Nat
  BY BooksAssumption DEF Rate
<1>2. post \in Int
  <2>1. tokenFee.bps \in Int /\ tokenFee.max \in Int
    BY <1>1 DEF BooksTyped, Sol!TokenFees, Sol!Amounts
  <2>. DEFINE c == amount * tokenFee.bps + U - 1
  <2>2. c \in Int
    BY <1>1, <2>1
  <2>. HIDE DEF c
  <2>3. c \div U \in Int
    BY <1>1, <2>2, DivMod
  <2>4. Sol!CeilDiv(amount * tokenFee.bps, U) \in Int
    BY <2>3 DEF Sol!CeilDiv, c
  <2>5. Sol!TokenFeeOn(tokenFee, amount) \in Int
    BY <2>1, <2>4 DEF Sol!TokenFeeOn, Sol!MinOf
  <2> QED
    BY <2>5 DEF Sol!PostFee
<1>. HIDE DEF post
<1>3. base \in Int /\ \E q \in Int : base = Rate * q
  BY <1>2, DustLeavesWhole
<1>4. r = base - fee
  BY DEF BooksTyped, Sol!Adjusted, Sol!Adjust, post
<1>. HIDE DEF base
<1>5. share \in Int
  <2>. DEFINE bps == IF peer.fee_bps = None THEN store.default_fee_bps ELSE peer.fee_bps
  <2>1. bps \in Int
    BY <1>1 DEF BooksTyped, Sol!Option, Sol!Stores
  <2>. HIDE DEF bps
  <2>2. base * bps \in Int
    BY <1>3, <2>1
  <2>3. (base * bps) \div U \in Int
    BY <1>1, <2>2, DivMod
  <2> QED
    BY <2>3 DEF Sol!calculate_fee, bps
<1>. HIDE DEF share
<1>6. fee \in Int /\ \E q \in Int : fee = Rate * q
  BY <1>5, DustLeavesWhole
<1>. HIDE DEF fee
<1>7. PICK p \in Int, q \in Int : base = Rate * p /\ fee = Rate * q
  BY <1>3, <1>6
<1>8. r = Rate * (p - q) /\ p - q \in Int
  BY <1>1, <1>4, <1>7
<1>9. Bridged(amount) = p - q
  BY <1>8, WholeQuotient DEF Bridged
<1> QED
  BY <1>1, <1>8, <1>9

-----------------------------------------------------------------------------
(* The pathways. *)

LEMMA PathFacts ==
    /\ LivePaths \subseteq Paths
    /\ \A a \in Peers : <<"Evm", a>> \in Paths
    /\ \A a \in EvmPeers : <<"Sol", a>> \in Paths
  BY OAppAssumption DEF LivePaths, Paths

LEMMA PacketTyped ==
    ASSUME BooksTyped, NEW path \in Paths, NEW n \in Lz!Nonces(path)
    PROVE  channel[path][n] \in Lz!Packets /\ channel[path][n].amount \in Nat
<1>1. channel[path] \in Seq(Lz!Packets)
  BY DEF BooksTyped
<1>2. channel[path][n] \in Lz!Packets
  BY <1>1 DEF Lz!Nonces
<1> QED
  BY <1>2 DEF Lz!Packets

\* Marking a packet keeps the number of packets and every amount.
LEMMA MarkEffect ==
    ASSUME BooksTyped, NEW path \in Paths, NEW n \in Lz!Nonces(path),
           NEW status \in Lz!Statuses, Lz!Mark(path, n, status)
    PROVE  /\ channel' \in [Paths -> Seq(Lz!Packets)]
           /\ \A p \in Paths :
                /\ Len(channel'[p]) = Len(channel[p])
                /\ \A m \in Lz!Nonces(p) :
                     channel'[p][m] = IF p = path /\ m = n
                                      THEN [channel[p][m] EXCEPT !.status = status]
                                      ELSE channel[p][m]
<1>. DEFINE old == channel[path]
            new == [old EXCEPT ![n].status = status]
<1>1. /\ channel \in [Paths -> Seq(Lz!Packets)]
      /\ channel' = [channel EXCEPT ![path] = new]
  BY DEF BooksTyped, Lz!Mark
<1>2. old \in Seq(Lz!Packets) /\ n \in 1 .. Len(old) /\ old[n] \in Lz!Packets
  BY <1>1, PacketTyped DEF Lz!Nonces
<1>3. [old[n] EXCEPT !.status = status] \in Lz!Packets
  BY <1>2 DEF Lz!Packets
<1>4. /\ new \in Seq(Lz!Packets) /\ Len(new) = Len(old)
      /\ \A m \in 1 .. Len(old) :
           new[m] = IF m = n THEN [old[m] EXCEPT !.status = status] ELSE old[m]
  BY <1>2, <1>3
<1>. HIDE DEF new
<1> QED
  BY <1>1, <1>4 DEF Lz!Nonces

LEMMA SendEffect ==
    ASSUME BooksTyped, NEW path \in Paths, NEW amount \in Nat,
           Lz!send(path, amount)
    PROVE  /\ channel' \in [Paths -> Seq(Lz!Packets)]
           /\ Len(channel[path]) \in Nat /\ Len(channel[path]) + 1 <= MaxPackets
           /\ \A p \in Paths :
                /\ Len(channel'[p]) = Len(channel[p]) + (IF p = path THEN 1 ELSE 0)
                /\ \A m \in Lz!Nonces(p) : channel'[p][m] = channel[p][m]
           /\ channel'[path][Len(channel[path]) + 1] =
                [amount |-> amount, status |-> "sent"]
<1>. DEFINE packet == [amount |-> amount, status |-> "sent"]
            new == Append(channel[path], packet)
<1>1. packet \in Lz!Packets
  BY DEF Lz!Packets, Lz!Statuses
<1>2. /\ channel \in [Paths -> Seq(Lz!Packets)]
      /\ channel' = [channel EXCEPT ![path] = new]
      /\ Len(channel[path]) < MaxPackets
  BY DEF BooksTyped, Lz!send
<1>3. channel[path] \in Seq(Lz!Packets) /\ Len(channel[path]) \in Nat /\ MaxPackets \in Nat
  BY <1>2, OAppAssumption
<1>. HIDE DEF packet
<1>4. /\ new \in Seq(Lz!Packets) /\ Len(new) = Len(channel[path]) + 1
      /\ new[Len(channel[path]) + 1] = packet
      /\ \A m \in 1 .. Len(channel[path]) : new[m] = channel[path][m]
  BY <1>1, <1>3
<1>. HIDE DEF new
<1>5. \A p \in Paths : channel[p] \in Seq(Lz!Packets)
  BY <1>2
<1> QED
  BY <1>2, <1>3, <1>4, <1>5 DEF Lz!Nonces, packet

-----------------------------------------------------------------------------
(* What each action does to the books. *)

\* Conservation survives a step that moves the liability and the rest by the
\* same number of shared units.
LEMMA BalancedMove ==
    ASSUME BooksTyped, Conservation, NEW d \in Int,
           store'.tvl_ld = store.tvl_ld + Rate * d,
           totalSupply' + outstanding'["Evm"] + outstanding'["Sol"]
               = totalSupply + outstanding["Evm"] + outstanding["Sol"] + d
    PROVE  Conservation'
<1>. DEFINE k == totalSupply + outstanding["Evm"] + outstanding["Sol"]
<1>1. k \in Int /\ store.tvl_ld = k * Rate /\ Rate \in Nat
  BY BooksAssumption DEF BooksTyped, Conservation, Sol!sd2ld, Rate
<1>2. totalSupply' + outstanding'["Evm"] + outstanding'["Sol"] = k + d
  OBVIOUS
<1>. HIDE DEF k
<1>3. store'.tvl_ld = (k + d) * Rate
  BY <1>1, SMT
<1> QED
  BY <1>2, <1>3 DEF Conservation, Sol!sd2ld, Rate

LEMMA SendFromSolanaEffect ==
    ASSUME BridgeInv, NEW amount \in AskedAmounts, NEW min \in {0, amount},
           SendFromSolana(amount, min)
    PROVE  /\ BridgeInv'
           /\ initialized /\ ~store.paused
           /\ Bridged(amount) \in 0 .. MaxU64
           /\ Lz!send(<<"Evm", peer.address>>, Bridged(amount))
           /\ store'.tvl_ld = store.tvl_ld + Rate * Bridged(amount)
           /\ totalSupply' = totalSupply
<1>. DEFINE a == Sol!Adjusted(amount)
            r == a.received
            shared == Bridged(amount)
<1>1. /\ amount \in Nat /\ min \in Nat /\ MaxU64 \in Nat
      /\ Rate \in Nat \ {0}
  BY BooksAssumption DEF Rate
<1>2. BooksTyped /\ Conservation
  BY DEF BridgeInv
<1>3. r \in Int /\ shared \in Int /\ r = Rate * shared
  BY <1>1, <1>2, BridgedIsWhole
<1>. HIDE DEF shared
<1>4. /\ initialized /\ ~store.paused
      /\ r >= min
      /\ peer' = [peer EXCEPT !.out = Sol!Consumed(@, r), !.in = Sol!CrossRefilled(@, r)]
      /\ store.tvl_ld + r <= MaxU64
      /\ store' = [store EXCEPT !.tvl_ld = @ + r]
      /\ UNCHANGED <<initialized, tokenFee>>
  BY <1>2 DEF SendFromSolana, Sol!Send, Sol!NotPaused, Sol!MovedByAdapter, BooksTyped
<1>5. /\ Lz!send(<<"Evm", peer.address>>, shared)
      /\ outstanding' = [outstanding EXCEPT !["Evm"] = @ + shared]
      /\ UNCHANGED evmVars
  BY DEF SendFromSolana, shared
<1>. HIDE DEF a
<1>6. store.tvl_ld \in Nat /\ r \in 0 .. MaxU64
  BY <1>1, <1>2, <1>3, <1>4 DEF BooksTyped, Sol!Stores, Sol!Amounts
<1>7. shared \in 0 .. MaxU64
  <2>1. 0 <= shared
    <3>1. SUFFICES ASSUME shared <= -1 PROVE FALSE
      BY <1>3
    <3>2. Rate * shared <= Rate * (-1)
      BY <1>1, <1>3, <3>1, SMT
    <3> QED
      BY <1>1, <1>3, <1>6, <3>2
  <2>2. shared <= Rate * shared
    BY <1>1, <1>3, <2>1, SMT
  <2> QED
    BY <1>1, <1>3, <1>6, <2>1, <2>2
<1>8. /\ store' \in Sol!Stores /\ store'.oft_type = "Adapter"
      /\ store'.tvl_ld = store.tvl_ld + r
  <2>1. store \in Sol!Stores /\ store.oft_type = "Adapter"
    BY <1>2 DEF BooksTyped
  <2>2. store.tvl_ld + r \in Sol!Amounts
    BY <1>1, <1>4, <1>6 DEF Sol!Amounts
  <2> QED
    BY <1>4, <2>1, <2>2 DEF Sol!Stores
<1>9. <<"Evm", peer.address>> \in Paths
  BY <1>2, PathFacts DEF BooksTyped
<1>10. channel' \in [Paths -> Seq(Lz!Packets)]
  <2>1. shared \in Nat
    BY <1>1, <1>7
  <2> QED
    BY <1>2, <1>5, <1>9, <2>1, SendEffect
<1>11. /\ {"address", "fee_bps"} \subseteq DOMAIN peer'
       /\ peer'.address = peer.address /\ peer'.fee_bps = peer.fee_bps
  BY <1>2, <1>4 DEF BooksTyped
<1>12. totalSupply' = totalSupply /\ evmPeer' = evmPeer
  BY <1>5 DEF evmVars
<1>13. /\ outstanding' \in [{"Evm", "Sol"} -> Int]
       /\ outstanding'["Evm"] = outstanding["Evm"] + shared
       /\ outstanding'["Sol"] = outstanding["Sol"]
  BY <1>2, <1>3, <1>5 DEF BooksTyped
<1>14. BooksTyped'
  BY <1>2, <1>4, <1>8, <1>10, <1>11, <1>12, <1>13 DEF BooksTyped
<1>15. Conservation'
  <2>1. /\ totalSupply' + outstanding'["Evm"] + outstanding'["Sol"]
             = totalSupply + outstanding["Evm"] + outstanding["Sol"] + shared
        /\ store'.tvl_ld = store.tvl_ld + Rate * shared
    BY <1>2, <1>3, <1>8, <1>12, <1>13 DEF BooksTyped
  <2> QED
    BY <1>2, <1>3, <2>1, BalancedMove
<1> QED
  BY <1>3, <1>4, <1>5, <1>7, <1>8, <1>12, <1>14, <1>15
  DEF BridgeInv, NothingOwedBeforeInit, shared

LEMMA SendFromEvmEffect ==
    ASSUME BridgeInv, NEW amount \in EvmAmounts, NEW min \in {0, amount},
           SendFromEvm(amount, min)
    PROVE  /\ BridgeInv'
           /\ ~evmPaused
           /\ amount \in Nat /\ amount <= totalSupply
           /\ Lz!send(<<"Sol", evmPeer>>, amount)
           /\ store' = store
           /\ totalSupply' = totalSupply - amount
<1>1. amount \in Nat
  BY BooksAssumption
<1>2. BooksTyped /\ Conservation
  BY DEF BridgeInv
<1>3. /\ ~evmPaused /\ amount <= totalSupply
      /\ totalSupply' = totalSupply - amount /\ evmPeer' = evmPeer
      /\ Lz!send(<<"Sol", evmPeer>>, amount)
      /\ outstanding' = [outstanding EXCEPT !["Sol"] = @ + amount]
      /\ UNCHANGED <<initialized, store, peer, tokenFee>>
  BY DEF SendFromEvm, Evm!send, Evm!_requireNotPaused, solVars
<1>4. <<"Sol", evmPeer>> \in Paths
  BY <1>2, PathFacts DEF BooksTyped
<1>5. channel' \in [Paths -> Seq(Lz!Packets)]
  BY <1>1, <1>2, <1>3, <1>4, SendEffect
<1>6. /\ outstanding' \in [{"Evm", "Sol"} -> Int]
      /\ outstanding'["Evm"] = outstanding["Evm"]
      /\ outstanding'["Sol"] = outstanding["Sol"] + amount
  BY <1>1, <1>2, <1>3 DEF BooksTyped
<1>7. totalSupply' \in 0 .. MaxSupply
  BY <1>1, <1>2, <1>3, BooksAssumption DEF BooksTyped
<1>8. BooksTyped'
  BY <1>2, <1>3, <1>5, <1>6, <1>7 DEF BooksTyped
<1>9. Conservation'
  <2>1. /\ totalSupply' + outstanding'["Evm"] + outstanding'["Sol"]
             = totalSupply + outstanding["Evm"] + outstanding["Sol"]
        /\ store' = store
    BY <1>1, <1>2, <1>3, <1>6 DEF BooksTyped
  <2> QED
    BY <1>2, <2>1 DEF Conservation
<1> QED
  BY <1>1, <1>3, <1>8, <1>9 DEF BridgeInv, NothingOwedBeforeInit

\* The packet a receive executes.
LEMMA ExecuteFacts ==
    ASSUME BooksTyped, NEW path \in LivePaths, NEW n \in Nat, Lz!execute(path, n)
    PROVE  /\ path \in Paths /\ n \in Lz!Nonces(path)
           /\ channel[path][n].amount \in Nat
           /\ channel[path][n].status = "verified"
           /\ Lz!Mark(path, n, "delivered")
           /\ channel' \in [Paths -> Seq(Lz!Packets)]
<1>1. /\ path \in Paths /\ n \in Lz!Nonces(path)
      /\ channel[path][n].status = "verified"
      /\ Lz!Mark(path, n, "delivered")
  BY PathFacts DEF Lz!execute, Lz!Is
<1>2. "delivered" \in Lz!Statuses
  BY DEF Lz!Statuses
<1> QED
  BY <1>1, <1>2, PacketTyped, MarkEffect

LEMMA ReceiveOnEvmEffect ==
    ASSUME BridgeInv, NEW n \in 1 .. MaxPackets, ReceiveOnEvm(n)
    PROVE  /\ BridgeInv'
           /\ ~evmPaused
           /\ Lz!execute(<<"Evm", EvmOApp>>, n)
           /\ store' = store
           /\ totalSupply' = totalSupply + channel[<<"Evm", EvmOApp>>][n].amount
<1>. DEFINE path == <<"Evm", EvmOApp>>
            amount == channel[path][n].amount
<1>1. n \in Nat /\ path \in LivePaths
  BY OAppAssumption DEF LivePaths
<1>2. BooksTyped /\ Conservation
  BY DEF BridgeInv
<1>3. /\ ~evmPaused
      /\ Lz!execute(path, n)
      /\ totalSupply' = totalSupply + amount /\ totalSupply' <= MaxSupply
      /\ evmPeer' = evmPeer
      /\ outstanding' = [outstanding EXCEPT !["Evm"] = @ - amount]
      /\ UNCHANGED <<initialized, store, peer, tokenFee>>
  BY DEF ReceiveOnEvm, Evm!lzReceive, Evm!_requireNotPaused, solVars
<1>. HIDE DEF path
<1>4. amount \in Nat /\ channel' \in [Paths -> Seq(Lz!Packets)]
  BY <1>1, <1>2, <1>3, ExecuteFacts
<1>. HIDE DEF amount
<1>5. /\ outstanding' \in [{"Evm", "Sol"} -> Int]
      /\ outstanding'["Evm"] = outstanding["Evm"] - amount
      /\ outstanding'["Sol"] = outstanding["Sol"]
  BY <1>2, <1>3, <1>4 DEF BooksTyped
<1>6. totalSupply' \in 0 .. MaxSupply
  BY <1>2, <1>3, <1>4, BooksAssumption DEF BooksTyped
<1>7. BooksTyped'
  BY <1>2, <1>3, <1>4, <1>5, <1>6 DEF BooksTyped
<1>8. Conservation'
  <2>1. /\ totalSupply' + outstanding'["Evm"] + outstanding'["Sol"]
             = totalSupply + outstanding["Evm"] + outstanding["Sol"]
        /\ store' = store
    BY <1>2, <1>3, <1>4, <1>5 DEF BooksTyped
  <2> QED
    BY <1>2, <2>1 DEF Conservation
<1> QED
  BY <1>3, <1>7, <1>8 DEF BridgeInv, NothingOwedBeforeInit, path, amount

LEMMA ReceiveOnSolanaEffect ==
    ASSUME BridgeInv, NEW n \in 1 .. MaxPackets, ReceiveOnSolana(n)
    PROVE  /\ BridgeInv'
           /\ ~store.paused
           /\ Lz!execute(<<"Sol", SolOApp>>, n)
           /\ store.tvl_ld = store'.tvl_ld + Rate * channel[<<"Sol", SolOApp>>][n].amount
           /\ totalSupply' = totalSupply
<1>. DEFINE path == <<"Sol", SolOApp>>
            amount == channel[path][n].amount
            local == amount * Rate
<1>1. /\ n \in Nat /\ path \in LivePaths
      /\ Rate \in Nat \ {0} /\ MaxU64 \in Nat
  BY OAppAssumption, BooksAssumption DEF LivePaths, Rate
<1>2. BooksTyped /\ Conservation
  BY DEF BridgeInv
<1>3. /\ initialized /\ ~store.paused
      /\ Lz!execute(path, n)
      /\ outstanding' = [outstanding EXCEPT !["Sol"] = @ - amount]
      /\ peer' = [peer EXCEPT !.in = Sol!Consumed(@, local), !.out = Sol!CrossRefilled(@, local)]
      /\ local <= store.tvl_ld
      /\ store' = [store EXCEPT !.tvl_ld = @ - local]
      /\ UNCHANGED <<initialized, tokenFee, totalSupply, evmPeer>>
  BY <1>2 DEF ReceiveOnSolana, Sol!LzReceive, Sol!NotPaused, Sol!sd2ld, Rate,
              BooksTyped, evmVars
<1>. HIDE DEF path
<1>4. amount \in Nat /\ channel' \in [Paths -> Seq(Lz!Packets)]
  BY <1>1, <1>2, <1>3, ExecuteFacts
<1>. HIDE DEF amount
<1>5. local \in Nat /\ local = Rate * amount
  BY <1>1, <1>4
<1>. HIDE DEF local
<1>6. /\ store' \in Sol!Stores /\ store'.oft_type = "Adapter"
      /\ store'.tvl_ld = store.tvl_ld - local /\ store.tvl_ld \in Nat
  BY <1>1, <1>2, <1>3, <1>5 DEF BooksTyped, Sol!Stores, Sol!Amounts
<1>7. /\ {"address", "fee_bps"} \subseteq DOMAIN peer'
      /\ peer'.address = peer.address /\ peer'.fee_bps = peer.fee_bps
  BY <1>2, <1>3 DEF BooksTyped
<1>8. /\ outstanding' \in [{"Evm", "Sol"} -> Int]
      /\ outstanding'["Sol"] = outstanding["Sol"] - amount
      /\ outstanding'["Evm"] = outstanding["Evm"]
  BY <1>2, <1>3, <1>4 DEF BooksTyped
<1>9. BooksTyped'
  BY <1>2, <1>3, <1>4, <1>6, <1>7, <1>8 DEF BooksTyped
<1>10. Conservation'
  <2>1. /\ totalSupply' + outstanding'["Evm"] + outstanding'["Sol"]
             = totalSupply + outstanding["Evm"] + outstanding["Sol"] + (-amount)
        /\ -amount \in Int
    BY <1>2, <1>3, <1>4, <1>8 DEF BooksTyped
  <2>2. store'.tvl_ld = store.tvl_ld + Rate * (-amount)
    BY <1>1, <1>4, <1>5, <1>6, SMT
  <2> QED
    BY <1>2, <2>1, <2>2, BalancedMove
<1>11. store.tvl_ld = store'.tvl_ld + Rate * amount
  BY <1>5, <1>6
<1> QED
  BY <1>3, <1>9, <1>10, <1>11 DEF BridgeInv, NothingOwedBeforeInit, path, amount

\* Verifiers and the delegate move a packet that was not executed to a status
\* that does not say it was.
LEMMA NetworkEffect ==
    ASSUME BridgeInv, Network
    PROVE  /\ \E path \in Paths : \E n \in Lz!Nonces(path),
                 status \in Lz!Statuses \ {"delivered"} :
                   /\ channel[path][n].status # "delivered"
                   /\ Lz!Mark(path, n, status)
           /\ UNCHANGED <<solVars, evmVars, outstanding>>
<1>1. CASE \E path \in Paths, n \in 1 .. MaxPackets : Verify(path, n)
  <2>1. PICK path \in Paths, n \in 1 .. MaxPackets : Verify(path, n)
    BY <1>1
  <2>2. /\ n \in Lz!Nonces(path) /\ channel[path][n].status # "delivered"
        /\ Lz!Mark(path, n, "verified")
        /\ UNCHANGED <<solVars, evmVars, outstanding>>
    BY <2>1 DEF Verify, Lz!verify, Lz!Is
  <2> QED
    BY <2>2 DEF Lz!Statuses
<1>2. CASE \E n \in 1 .. MaxPackets : Withdraw(n)
  <2>. DEFINE path == <<"Sol", SolOApp>>
  <2>1. PICK n \in 1 .. MaxPackets : Withdraw(n)
    BY <1>2
  <2>2. UNCHANGED <<solVars, evmVars, outstanding>>
    BY <2>1 DEF Withdraw
  <2>3. path \in Paths
    BY OAppAssumption, PathFacts
  <2>4. PICK status \in {"discarded", "nilified"} :
          /\ n \in Lz!Nonces(path) /\ channel[path][n].status # "delivered"
          /\ Lz!Mark(path, n, status)
    BY <2>1 DEF Withdraw, Lz!skip, Lz!clear, Lz!nilify, Lz!burn, Lz!Is
  <2> QED
    BY <2>2, <2>3, <2>4 DEF Lz!Statuses
<1> QED
  BY <1>1, <1>2 DEF Network

LEMMA NetworkKeepsInv ==
    ASSUME BridgeInv, Network
    PROVE  BridgeInv'
<1>1. BooksTyped
  BY DEF BridgeInv
<1>2. PICK path \in Paths : \E n \in Lz!Nonces(path), status \in Lz!Statuses :
        Lz!Mark(path, n, status)
  BY NetworkEffect
<1>3. channel' \in [Paths -> Seq(Lz!Packets)]
  BY <1>1, <1>2, MarkEffect
<1>4. UNCHANGED <<solVars, evmVars, outstanding>>
  BY NetworkEffect
<1> QED
  BY <1>3, <1>4
  DEF BridgeInv, BooksTyped, NothingOwedBeforeInit, Conservation, solVars, evmVars

\* A step that leaves the liability, the supply and the packets alone.
LEMMA BooksUntouched ==
    ASSUME BridgeInv,
           store' \in Sol!Stores, store'.oft_type = "Adapter",
           store'.tvl_ld = store.tvl_ld,
           {"address", "fee_bps"} \subseteq DOMAIN peer',
           peer'.address \in Peers, peer'.fee_bps \in Sol!Option(Nat),
           tokenFee' \in Sol!TokenFees, evmPeer' \in EvmPeers,
           initialized => initialized',
           UNCHANGED <<totalSupply, outstanding, channel>>
    PROVE  BridgeInv'
  BY DEF BridgeInv, BooksTyped, NothingOwedBeforeInit, Conservation

LEMMA OnSolanaEffect ==
    ASSUME BridgeInv, OnSolana
    PROVE  /\ BridgeInv'
           /\ store'.tvl_ld = store.tvl_ld
           /\ UNCHANGED <<totalSupply, channel>>
<1>1. /\ ONE_IN_BASIS_POINTS \in Nat \ {0} /\ MaxU64 \in Nat
      /\ FeeSettings \subseteq Nat /\ TokenFeeSettings \subseteq Sol!TokenFees
      /\ OFTTypes = {"Adapter"}
  BY BooksAssumption, OAppAssumption
<1>2. /\ BooksTyped /\ (~initialized => store.tvl_ld = 0)
      /\ UNCHANGED <<totalSupply, evmPeer, channel, outstanding>>
  BY DEF BridgeInv, NothingOwedBeforeInit, OnSolana, evmVars
<1>3. /\ store' \in Sol!Stores /\ store'.oft_type = "Adapter"
      /\ store'.tvl_ld = store.tvl_ld
      /\ {"address", "fee_bps"} \subseteq DOMAIN peer'
      /\ peer'.address \in Peers /\ peer'.fee_bps \in Sol!Option(Nat)
      /\ tokenFee' \in Sol!TokenFees
      /\ initialized => initialized'
  <2>1. CASE \E type \in OFTTypes, admin \in Keys : Sol!InitOFT(type, admin)
    BY <1>1, <1>2, <2>1
    DEF BooksTyped, Sol!InitOFT, Sol!NewStore, Sol!Stores, Sol!Amounts, Sol!Option
  <2>2. CASE Sol!Configure
    <3>1. PICK key \in Keys :
            \/ Sol!SetOFTConfig(key)
            \/ Sol!SetDelegate(key)
            \/ Sol!SetPeerConfig(key)
            \/ \E p \in LimitSettings : Sol!SetOutboundRateLimit(key, p)
            \/ \E p \in LimitSettings : Sol!SetInboundRateLimit(key, p)
            \/ \E fee \in AskedAmounts : Sol!WithdrawFee(key, fee)
            \/ \E pausing \in BOOLEAN : Sol!SetPause(key, pausing)
      BY <2>2 DEF Sol!Configure
    <3>2. CASE Sol!SetOFTConfig(key)
      <4>1. UNCHANGED <<initialized, peer, tokenFee>>
        BY <3>2 DEF Sol!SetOFTConfig
      <4>2. store \in Sol!Stores /\ store.oft_type = "Adapter"
        BY <1>2 DEF BooksTyped
      <4>3. \/ \E k \in Keys : store' = [store EXCEPT !.admin = k]
            \/ \E bps \in 0 .. ONE_IN_BASIS_POINTS - 1 :
                  store' = [store EXCEPT !.default_fee_bps = bps]
            \/ \E p \in BOOLEAN : store' = [store EXCEPT !.paused = p]
            \/ \E k \in Sol!Option(Keys) : store' = [store EXCEPT !.pauser = k]
            \/ \E k \in Sol!Option(Keys) : store' = [store EXCEPT !.unpauser = k]
        BY <1>1, <3>2 DEF Sol!SetOFTConfig, Sol!ValidFeeBps
      <4>4. /\ store' \in Sol!Stores /\ store'.oft_type = "Adapter"
            /\ store'.tvl_ld = store.tvl_ld
        BY <4>2, <4>3 DEF Sol!Stores
      <4> QED
        BY <1>2, <4>1, <4>4 DEF BooksTyped
    <3>3. CASE Sol!SetPeerConfig(key)
      <4>1. UNCHANGED <<initialized, store, tokenFee>>
        BY <3>3 DEF Sol!SetPeerConfig
      <4>2. \/ \E a \in Peers : peer' = [peer EXCEPT !.address = a]
            \/ \E bps \in Sol!Option(FeeSettings) : peer' = [peer EXCEPT !.fee_bps = bps]
            \/ \E o \in EnforcedOptions : peer' = [peer EXCEPT !.options = o]
        BY <3>3 DEF Sol!SetPeerConfig
      <4>3. /\ {"address", "fee_bps"} \subseteq DOMAIN peer'
            /\ peer'.address \in Peers /\ peer'.fee_bps \in Sol!Option(Nat)
        BY <1>1, <1>2, <4>2 DEF BooksTyped, Sol!Option
      <4> QED
        BY <1>2, <4>1, <4>3 DEF BooksTyped
    <3>4. CASE \/ \E p \in LimitSettings : Sol!SetOutboundRateLimit(key, p)
               \/ \E p \in LimitSettings : Sol!SetInboundRateLimit(key, p)
      <4>1. UNCHANGED <<initialized, store, tokenFee>>
        BY <3>4 DEF Sol!SetOutboundRateLimit, Sol!SetInboundRateLimit
      <4>2. PICK l : peer' = [peer EXCEPT !.out = l] \/ peer' = [peer EXCEPT !.in = l]
        BY <3>4 DEF Sol!SetOutboundRateLimit, Sol!SetInboundRateLimit
      <4>3. /\ {"address", "fee_bps"} \subseteq DOMAIN peer'
            /\ peer'.address = peer.address /\ peer'.fee_bps = peer.fee_bps
        BY <1>2, <4>2 DEF BooksTyped
      <4> QED
        BY <1>2, <4>1, <4>3 DEF BooksTyped
    <3>5. CASE \/ Sol!SetDelegate(key)
               \/ \E fee \in AskedAmounts : Sol!WithdrawFee(key, fee)
      BY <1>2, <3>5 DEF BooksTyped, Sol!SetDelegate, Sol!WithdrawFee
    <3>6. CASE \E pausing \in BOOLEAN : Sol!SetPause(key, pausing)
      BY <1>2, <3>6 DEF BooksTyped, Sol!SetPause, Sol!Stores
    <3> QED
      BY <3>1, <3>2, <3>3, <3>4, <3>5, <3>6
  <2>3. CASE \/ \E amount \in AskedAmounts : Sol!Donate(amount)
             \/ Sol!ChangeTokenFee
    BY <1>1, <1>2, <2>3 DEF BooksTyped, Sol!Donate, Sol!ChangeTokenFee
  <2> QED
    BY <2>1, <2>2, <2>3 DEF OnSolana
<1>4. evmPeer' \in EvmPeers
  BY <1>2 DEF BooksTyped
<1> QED
  BY <1>2, <1>3, <1>4, BooksUntouched

LEMMA OnEvmEffect ==
    ASSUME BridgeInv, OnEvm
    PROVE  /\ BridgeInv'
           /\ store' = store
           /\ UNCHANGED <<totalSupply, channel>>
<1>1. UNCHANGED <<initialized, store, peer, tokenFee, channel, outstanding>>
  BY DEF OnEvm, solVars
<1>2. totalSupply' = totalSupply /\ evmPeer' \in EvmPeers
  BY DEF BridgeInv, BooksTyped, OnEvm, Evm!Administer, Evm!pause, Evm!unpause, Evm!transferOwnership,
         Evm!setPeer, Evm!setOutboundRateLimit, Evm!setInboundRateLimit
<1> QED
  BY <1>1, <1>2 DEF BridgeInv, BooksTyped, NothingOwedBeforeInit, Conservation

LEMMA TickEffect ==
    ASSUME BridgeInv, Tick
    PROVE  /\ BridgeInv'
           /\ store' = store
           /\ UNCHANGED <<totalSupply, channel>>
<1>1. /\ UNCHANGED <<initialized, store, tokenFee, totalSupply, evmPeer,
                     channel, outstanding>>
      /\ peer' = [peer EXCEPT !.out = Sol!Aged(@), !.in = Sol!Aged(@)]
  BY DEF Tick, Sol!Tick, Evm!tick
<1>2. /\ {"address", "fee_bps"} \subseteq DOMAIN peer'
      /\ peer'.address = peer.address /\ peer'.fee_bps = peer.fee_bps
  BY <1>1 DEF BridgeInv, BooksTyped
<1> QED
  BY <1>1, <1>2 DEF BridgeInv, BooksTyped, NothingOwedBeforeInit, Conservation

-----------------------------------------------------------------------------
(* The invariant. *)

LEMMA InitHolds == Init => BridgeInv
<1>. SUFFICES ASSUME Init PROVE BridgeInv
  OBVIOUS
<1>1. /\ ONE_IN_BASIS_POINTS \in Nat \ {0} /\ MaxU64 \in Nat /\ Rate \in Nat
      /\ OFTTypes = {"Adapter"} /\ TokenFeeSettings \subseteq Sol!TokenFees
      /\ ZeroAddress \in Peers /\ NoPeer \in EvmPeers
  BY BooksAssumption, OAppAssumption DEF Rate
<1>2. /\ \E admin \in Keys : store = Sol!NewStore("Adapter", admin)
      /\ peer = Sol!NewPeer /\ tokenFee \in TokenFeeSettings
      /\ totalSupply = 0 /\ evmPeer = NoPeer
      /\ channel = [path \in Paths |-> << >>]
      /\ outstanding = [to \in {"Evm", "Sol"} |-> 0]
  BY <1>1 DEF Init, Sol!Init, Evm!Init, Lz!Init
<1>3. store \in Sol!Stores /\ store.oft_type = "Adapter" /\ store.tvl_ld = 0
  BY <1>1, <1>2 DEF Sol!NewStore, Sol!Stores, Sol!Amounts, Sol!Option
<1>4. /\ {"address", "fee_bps"} \subseteq DOMAIN peer
      /\ peer.address \in Peers /\ peer.fee_bps \in Sol!Option(Nat)
  BY <1>1, <1>2 DEF Sol!NewPeer, Sol!Option
<1>5. outstanding["Evm"] = 0 /\ outstanding["Sol"] = 0
      /\ outstanding \in [{"Evm", "Sol"} -> Int]
  BY <1>2
<1>6. channel \in [Paths -> Seq(Lz!Packets)]
  BY <1>2
<1>7. Conservation
  BY <1>1, <1>2, <1>3, <1>5 DEF Conservation, Sol!sd2ld, Rate
<1>8. totalSupply \in 0 .. MaxSupply
  BY <1>2, BooksAssumption
<1> QED
  BY <1>1, <1>2, <1>3, <1>4, <1>5, <1>6, <1>7, <1>8
  DEF BridgeInv, BooksTyped, NothingOwedBeforeInit

LEMMA StepHolds == BridgeInv /\ [Next]_vars => BridgeInv'
<1>. SUFFICES ASSUME BridgeInv, [Next]_vars PROVE BridgeInv'
  OBVIOUS
<1>1. CASE \E amount \in AskedAmounts : \E min \in {0, amount} : SendFromSolana(amount, min)
  BY <1>1, SendFromSolanaEffect
<1>2. CASE \E amount \in EvmAmounts : \E min \in {0, amount} : SendFromEvm(amount, min)
  BY <1>2, SendFromEvmEffect
<1>3. CASE \E n \in 1 .. MaxPackets : ReceiveOnEvm(n) \/ ReceiveOnSolana(n)
  BY <1>3, ReceiveOnEvmEffect, ReceiveOnSolanaEffect
<1>4. CASE Network
  BY <1>4, NetworkKeepsInv
<1>5. CASE OnSolana \/ OnEvm \/ Tick
  BY <1>5, OnSolanaEffect, OnEvmEffect, TickEffect
<1>6. CASE UNCHANGED vars
  BY <1>6 DEF vars, solVars, evmVars, BridgeInv, BooksTyped, NothingOwedBeforeInit,
              Conservation
<1> QED
  BY <1>1, <1>2, <1>3, <1>4, <1>5, <1>6 DEF Next, Transfer

THEOREM BridgeInvariant == Spec => []BridgeInv
  BY InitHolds, StepHolds, PTL DEF Spec

\* The liability recorded on Solana is the supply on the EVM chain plus what was
\* sent and not executed, in every state, for every mint fee, program fee, dust
\* and order of transactions of both chains (send.rs, lz_receive.rs, SanOFT.sol).
THEOREM AlwaysConserved == Spec => []Conservation
<1>1. BridgeInv => Conservation
  BY DEF BridgeInv
<1> QED
  BY <1>1, BridgeInvariant, PTL

-----------------------------------------------------------------------------
(* The emergency stop and the ledger of claims. *)

\* Verifying and withdrawing packets neither sends nor executes any.
LEMMA NetworkSettlesNothing ==
    ASSUME BridgeInv, Network
    PROVE  \A id \in Ids :
             /\ Opened(id)' = Opened(id)
             /\ Opened(id) => /\ Packet(id)'.amount = Packet(id).amount
                              /\ (Packet(id)'.status = "delivered") =
                                   (Packet(id).status = "delivered")
<1>1. BooksTyped
  BY DEF BridgeInv
<1>2. PICK path \in Paths : \E n \in Lz!Nonces(path), status \in Lz!Statuses \ {"delivered"} :
        channel[path][n].status # "delivered" /\ Lz!Mark(path, n, status)
  BY NetworkEffect
<1>3. PICK n \in Lz!Nonces(path), status \in Lz!Statuses \ {"delivered"} :
        channel[path][n].status # "delivered" /\ Lz!Mark(path, n, status)
  BY <1>2
<1>4. \A p \in Paths :
        /\ Len(channel'[p]) = Len(channel[p])
        /\ \A m \in Lz!Nonces(p) :
             channel'[p][m] = IF p = path /\ m = n
                              THEN [channel[p][m] EXCEPT !.status = status]
                              ELSE channel[p][m]
  BY <1>1, <1>3, MarkEffect
<1>5. SUFFICES ASSUME NEW id \in Ids
               PROVE  /\ Opened(id)' = Opened(id)
                      /\ Opened(id) => /\ Packet(id)'.amount = Packet(id).amount
                                       /\ (Packet(id)'.status = "delivered") =
                                            (Packet(id).status = "delivered")
  OBVIOUS
<1>6. id[1] \in Paths
  BY <1>5 DEF Ids
<1>7. Opened(id)' = Opened(id)
  BY <1>4, <1>6 DEF Opened, Lz!Nonces
<1>8. ASSUME Opened(id)
      PROVE  /\ Packet(id)'.amount = Packet(id).amount
             /\ (Packet(id)'.status = "delivered") = (Packet(id).status = "delivered")
  <2>. DEFINE old == channel[id[1]][id[2]]
              new == channel'[id[1]][id[2]]
  <2>1. id[2] \in Lz!Nonces(id[1]) /\ old \in Lz!Packets
    BY <1>1, <1>6, <1>8, PacketTyped DEF Opened
  <2>2. new = old \/ (new = [old EXCEPT !.status = status] /\ old.status # "delivered")
    BY <1>3, <1>4, <1>6, <2>1
  <2>. HIDE DEF old, new
  <2>3. new.amount = old.amount /\ (new.status = "delivered") = (old.status = "delivered")
    BY <2>1, <2>2 DEF Lz!Packets
  <2> QED
    BY <2>3 DEF Packet, old, new
<1> QED
  BY <1>7, <1>8

\* While both chains are paused, transactions, verifications and withdrawals of
\* any kind and order move no liability and no supply, and send and execute
\* nothing (send.rs, lz_receive.rs, SanOFT.sol).
THEOREM BothPausesStop == Spec => EmergencyStop
<1>1. ASSUME BridgeInv, [Next]_vars, store.paused, evmPaused
      PROVE  /\ store'.tvl_ld = store.tvl_ld
             /\ UNCHANGED <<totalSupply, Sent, Settled>>
  <2>1. CASE Transfer
    BY <1>1, <2>1, SendFromSolanaEffect, SendFromEvmEffect, ReceiveOnEvmEffect,
       ReceiveOnSolanaEffect DEF Transfer
  <2>2. CASE Network
    <3>1. store' = store /\ totalSupply' = totalSupply
      BY <1>1, <2>2, NetworkEffect DEF solVars, evmVars
    <3>2. Sent' = Sent /\ Settled' = Settled
      BY <1>1, <2>2, NetworkSettlesNothing DEF Sent, Settled
    <3> QED
      BY <3>1, <3>2
  <2>3. CASE OnSolana \/ OnEvm \/ Tick \/ UNCHANGED vars
    <3>1. /\ store'.tvl_ld = store.tvl_ld
          /\ UNCHANGED <<totalSupply, channel>>
      BY <1>1, <2>3, OnSolanaEffect, OnEvmEffect, TickEffect DEF vars, solVars, evmVars
    <3> QED
      BY <3>1 DEF Sent, Settled, Opened, Packet, Lz!Nonces
  <2> QED
    BY <1>1, <2>1, <2>2, <2>3 DEF Next
<1>2. BridgeInv /\ [Next]_vars =>
        [store.paused /\ evmPaused =>
           /\ store'.tvl_ld = store.tvl_ld
           /\ UNCHANGED <<totalSupply, Sent, Settled>>]_vars
  BY <1>1
<1> QED
  BY <1>2, BridgeInvariant, PTL DEF Spec, EmergencyStop

\* The liability in shared units moves by whole shared units.
LEMMA LockedMoves ==
    ASSUME BridgeInv, NEW d \in Int, store'.tvl_ld = store.tvl_ld + Rate * d
    PROVE  Sol!ld2sd(store'.tvl_ld) = Sol!ld2sd(store.tvl_ld) + d
<1>. DEFINE k == totalSupply + outstanding["Evm"] + outstanding["Sol"]
<1>1. k \in Int /\ store.tvl_ld = k * Rate /\ Rate \in Nat
  BY BooksAssumption DEF BridgeInv, BooksTyped, Conservation, Sol!sd2ld, Rate
<1>. HIDE DEF k
<1>2. store'.tvl_ld = (k + d) * Rate /\ k + d \in Int
  BY <1>1, SMT
<1> QED
  BY <1>1, <1>2, WholeQuotient

LEMMA SendOpensClaim ==
    ASSUME BooksTyped, NEW path \in Paths, NEW amount \in Nat,
           Lz!send(path, amount)
    PROVE  \E id \in Ids :
             /\ id[1] = path
             /\ Claims[id] = None
             /\ Claims' = [Claims EXCEPT ![id] =
                              [to |-> path[1], amount |-> amount, settled |-> FALSE]]
<1>. DEFINE packet == [amount |-> amount, status |-> "sent"]
<1>0. Len(channel[path]) \in Nat
  BY SendEffect
<1>. PICK n \in Nat : n = Len(channel[path]) + 1
  BY <1>0
<1>. DEFINE id == <<path, n>>
<1>1. /\ Len(channel[path]) \in Nat /\ n <= MaxPackets
      /\ \A p \in Paths :
           /\ Len(channel'[p]) = Len(channel[p]) + (IF p = path THEN 1 ELSE 0)
           /\ \A m \in Lz!Nonces(p) : channel'[p][m] = channel[p][m]
      /\ channel'[path][n] = packet
  BY SendEffect
<1>. HIDE DEF packet
<1>2. n \in Nat /\ n = Len(channel[path]) + 1 /\ Len(channel'[path]) = n
  <2>1. Len(channel'[path]) = Len(channel[path]) + (IF path = path THEN 1 ELSE 0)
    BY <1>1
  <2> QED
    BY <1>1, <2>1
<1>3. n \in 1 .. MaxPackets /\ n \notin 1 .. Len(channel[path]) /\ n \in 1 .. n
  BY <1>1, <1>2, OAppAssumption
<1>4. /\ id \in Ids /\ ~Opened(id) /\ Opened(id)'
      /\ Packet(id)' = packet
  <2>1. id \in Ids
    BY <1>3 DEF Ids
  <2>2. ~Opened(id) /\ Opened(id)'
    BY <1>2, <1>3 DEF Opened, Lz!Nonces
  <2>3. Packet(id)' = packet
    BY <1>1 DEF Packet
  <2> QED
    BY <2>1, <2>2, <2>3
<1>5. \A other \in Ids \ {id} :
        Opened(other)' = Opened(other)
        /\ (Opened(other) => Packet(other)' = Packet(other))
  <2>1. SUFFICES ASSUME NEW other \in Ids \ {id}
                 PROVE  /\ Opened(other)' = Opened(other)
                        /\ Opened(other) => Packet(other)' = Packet(other)
    OBVIOUS
  <2>2. PICK p \in Paths, m \in 1 .. MaxPackets : other = <<p, m>>
    BY DEF Ids
  <2>3. p = path => m # n
    BY <2>1, <2>2
  <2>4. Len(channel[p]) \in Nat
    BY DEF BooksTyped
  <2>5. m \in 1 .. Len(channel'[p]) <=> m \in 1 .. Len(channel[p])
    <3>1. CASE p = path
      <4>1. Len(channel'[p]) = Len(channel[p]) + 1 /\ m # Len(channel[p]) + 1
        BY <1>2, <2>3, <3>1
      <4> QED
        BY <2>2, <2>4, <4>1
    <3>2. CASE p # path
      <4>1. Len(channel'[p]) = Len(channel[p]) + (IF p = path THEN 1 ELSE 0)
        BY <1>1
      <4>2. Len(channel'[p]) = Len(channel[p])
        BY <2>4, <3>2, <4>1
      <4> QED
        BY <4>2
    <3> QED
      BY <3>1, <3>2
  <2>6. m \in 1 .. Len(channel[p]) => channel'[p][m] = channel[p][m]
    BY <1>1 DEF Lz!Nonces
  <2> QED
    BY <2>2, <2>5, <2>6 DEF Opened, Packet, Lz!Nonces
<1>. HIDE DEF id
<1>6. Claims[id] = None
  BY <1>4 DEF Claims
<1>7. id[1] = path
  BY DEF id
<1>8. Claims' = [Claims EXCEPT ![id] = [to |-> path[1], amount |-> amount, settled |-> FALSE]]
  <2>1. /\ Packet(id)'.amount = amount
        /\ (Packet(id)'.status = "delivered") = FALSE
    BY <1>4 DEF packet
  <2>2. Claims'[id] = [to |-> path[1], amount |-> amount, settled |-> FALSE]
    BY <1>4, <1>7, <2>1 DEF Claims
  <2>3. \A other \in Ids \ {id} : Claims'[other] = Claims[other]
    BY <1>5 DEF Claims
  <2>4. Claims = [i \in Ids |-> Claims[i]] /\ Claims' = [i \in Ids |-> Claims'[i]]
    BY DEF Claims
  <2> QED
    BY <1>4, <2>2, <2>3, <2>4
<1> QED
  BY <1>4, <1>6, <1>7, <1>8

LEMMA ClaimField ==
    ASSUME NEW to, NEW amount, NEW s, NEW v
    PROVE  [[to |-> to, amount |-> amount, settled |-> s] EXCEPT !.settled = v]
             = [to |-> to, amount |-> amount, settled |-> v]
<1>. DEFINE fields == {"to", "amount", "settled"}
            f == [to |-> to, amount |-> amount, settled |-> s]
            g == [f EXCEPT !.settled = v]
            h == [to |-> to, amount |-> amount, settled |-> v]
<1>1. g = [x \in fields |-> g[x]] /\ h = [x \in fields |-> h[x]]
  BY SMT
<1>2. g.to = to /\ g.amount = amount /\ g.settled = v
  BY <1>1
<1>3. h.to = to /\ h.amount = amount /\ h.settled = v
  OBVIOUS
<1>. HIDE DEF g, h
<1>4. \A x \in fields : g[x] = h[x]
  BY <1>2, <1>3
<1> QED
  BY <1>1, <1>4 DEF g, h

LEMMA ExecuteMarksClaim ==
    ASSUME BooksTyped, NEW path \in LivePaths, NEW n \in 1 .. MaxPackets,
           Lz!execute(path, n)
    PROVE  \E id \in Ids :
             /\ Claims[id] # None
             /\ Claims[id].to = path[1]
             /\ Claims[id].amount = channel[path][n].amount
             /\ ~Claims[id].settled
             /\ Claims' = [Claims EXCEPT ![id].settled = TRUE]
             /\ LET claim(settled) == [to |-> path[1], amount |-> channel[path][n].amount,
                                       settled |-> settled]
                IN  /\ Claims[id] = claim(FALSE)
                    /\ Claims' = [Claims EXCEPT ![id] = claim(TRUE)]
<1>. DEFINE id == <<path, n>>
            old == channel[path][n]
            claim == [to |-> path[1], amount |-> old.amount, settled |-> FALSE]
<1>1. /\ path \in Paths /\ n \in Lz!Nonces(path)
      /\ old.amount \in Nat /\ old.status = "verified"
      /\ Lz!Mark(path, n, "delivered")
  BY ExecuteFacts
<1>2. old \in Lz!Packets /\ path[1] \in {"Evm", "Sol"}
  BY <1>1, PacketTyped DEF LivePaths
<1>3. \A p \in Paths :
        /\ Len(channel'[p]) = Len(channel[p])
        /\ \A m \in Lz!Nonces(p) :
             channel'[p][m] = IF p = path /\ m = n
                              THEN [channel[p][m] EXCEPT !.status = "delivered"]
                              ELSE channel[p][m]
  <2>1. "delivered" \in Lz!Statuses
    BY DEF Lz!Statuses
  <2> QED
    BY <1>1, <2>1, MarkEffect
<1>4. id \in Ids /\ Opened(id) /\ Opened(id)' /\ id[1] = path /\ id[2] = n
  BY <1>1, <1>3 DEF Ids, Opened, Lz!Nonces
<1>5. Packet(id) = old /\ Packet(id)' = [old EXCEPT !.status = "delivered"]
  BY <1>1, <1>3 DEF Packet
<1>6. \A other \in Ids \ {id} :
        /\ Opened(other)' = Opened(other)
        /\ Opened(other) => Packet(other)' = Packet(other)
  <2>1. SUFFICES ASSUME NEW other \in Ids \ {id}
                 PROVE  /\ Opened(other)' = Opened(other)
                        /\ Opened(other) => Packet(other)' = Packet(other)
    OBVIOUS
  <2>2. PICK p \in Paths, m \in 1 .. MaxPackets : other = <<p, m>>
    BY DEF Ids
  <2>3. ~(p = path /\ m = n)
    BY <2>1, <2>2
  <2> QED
    BY <1>3, <2>2, <2>3 DEF Opened, Packet, Lz!Nonces
<1>. HIDE DEF id, old
<1>7. Claims[id] = claim
  <2>1. Packet(id).amount = old.amount /\ Packet(id).status # "delivered"
    BY <1>1, <1>5
  <2> QED
    BY <1>4, <2>1 DEF Claims
<1>8. claim # None
  <2>1. claim \in [to : {"Evm", "Sol"}, amount : Nat, settled : BOOLEAN]
    BY <1>1, <1>2
  <2> QED
    BY <2>1, BooksAssumption
<1>9. /\ Claims' = [Claims EXCEPT ![id].settled = TRUE]
      /\ Claims' = [Claims EXCEPT ![id] = [to |-> path[1], amount |-> old.amount,
                                            settled |-> TRUE]]
  <2>1. /\ Packet(id)'.amount = old.amount
        /\ Packet(id)'.status = "delivered"
    BY <1>2, <1>5 DEF Lz!Packets
  <2>2. Claims'[id] = [to |-> path[1], amount |-> old.amount, settled |-> TRUE]
    BY <1>4, <2>1 DEF Claims
  <2>3. [Claims[id] EXCEPT !.settled = TRUE]
          = [to |-> path[1], amount |-> old.amount, settled |-> TRUE]
    <3>1. [claim EXCEPT !.settled = TRUE]
            = [to |-> path[1], amount |-> old.amount, settled |-> TRUE]
      BY ClaimField, Zenon
    <3> QED
      BY <1>7, <3>1
  <2>4. \A other \in Ids \ {id} : Claims'[other] = Claims[other]
    BY <1>6 DEF Claims
  <2>5. Claims = [i \in Ids |-> Claims[i]] /\ Claims' = [i \in Ids |-> Claims'[i]]
    BY DEF Claims
  <2> QED
    BY <1>4, <2>2, <2>3, <2>4, <2>5
<1>10. /\ Claims[id] # None /\ ~Claims[id].settled
       /\ Claims[id].to = path[1] /\ Claims[id].amount = old.amount
  BY <1>7, <1>8
<1> QED
  BY <1>4, <1>7, <1>9, <1>10 DEF old

LEMMA ExecuteSettlesClaim ==
    ASSUME BooksTyped, NEW path \in LivePaths, NEW n \in 1 .. MaxPackets,
           Lz!execute(path, n)
    PROVE  \E id \in Ids :
             /\ Claims[id] # None
             /\ Claims[id].to = path[1]
             /\ Claims[id].amount = channel[path][n].amount
             /\ ~Claims[id].settled
             /\ Claims' = [Claims EXCEPT ![id].settled = TRUE]
  BY ExecuteMarksClaim, Zenon

LEMMA LedgerInit == Init => Ledger!Init
<1>. SUFFICES ASSUME Init PROVE Ledger!Init
  OBVIOUS
<1>1. /\ store.tvl_ld = 0 /\ totalSupply = 0
      /\ channel = [path \in Paths |-> << >>]
  BY OAppAssumption DEF Init, Sol!Init, Sol!NewStore, Evm!Init, Lz!Init
<1>2. Sol!ld2sd(store.tvl_ld) = 0
  <2>1. 0 = Rate * 0
    BY BooksAssumption DEF Rate
  <2> QED
    BY <1>1, <2>1, WholeQuotient
<1>3. \A id \in Ids : ~Opened(id)
  BY <1>1 DEF Ids, Opened, Lz!Nonces
<1>4. Claims = [id \in Ids |-> None]
  BY <1>3 DEF Claims
<1> QED
  BY <1>1, <1>2, <1>4 DEF Ledger!Init

LEMMA OpenedIsClaim ==
    ASSUME NEW id \in Ids, NEW side \in {"Evm", "Sol"}, NEW amount \in Nat,
           Claims' = [Claims EXCEPT ![id] =
                         [to |-> side, amount |-> amount, settled |-> FALSE]]
    PROVE  Claims'[id] # None
<1>. DEFINE claim == [to |-> side, amount |-> amount, settled |-> FALSE]
<1>1. DOMAIN Claims = Ids
  BY DEF Claims
<1>2. claim # None
  <2>1. claim \in [to : {"Evm", "Sol"}, amount : Nat, settled : BOOLEAN]
    OBVIOUS
  <2> QED
    BY <2>1, BooksAssumption
<1>. HIDE DEF claim
<1>3. Claims' = [Claims EXCEPT ![id] = claim]
  BY DEF claim
<1>4. Claims'[id] = claim
  <2>. DEFINE old == Claims
  <2>1. DOMAIN old = Ids /\ Claims' = [old EXCEPT ![id] = claim]
    BY <1>1, <1>3
  <2>. HIDE DEF old
  <2> QED
    BY <2>1
<1> QED
  BY <1>2, <1>4

\* Every step of the bridge opens a claim, settles one, or changes none of what
\* the ledger records.
LEMMA LedgerStep ==
    ASSUME BridgeInv, [Next]_vars
    PROVE  [Ledger!Next]_<<Sol!ld2sd(store.tvl_ld), totalSupply, Claims>>
<1>. DEFINE locked == Sol!ld2sd(store.tvl_ld)
<1>0. BooksTyped /\ MaxU64 \in Nat /\ MaxSupply \in Nat
  BY BooksAssumption DEF BridgeInv
<1>1. ASSUME NEW amount \in AskedAmounts, NEW min \in {0, amount},
             SendFromSolana(amount, min)
      PROVE  Ledger!Next
  <2>. DEFINE shared == Bridged(amount)
  <2>1. /\ shared \in 0 .. MaxU64
        /\ Lz!send(<<"Evm", peer.address>>, shared)
        /\ store'.tvl_ld = store.tvl_ld + Rate * shared
        /\ totalSupply' = totalSupply
    BY <1>1, SendFromSolanaEffect
  <2>. HIDE DEF shared
  <2>2. shared \in Nat /\ shared \in LedgerAmounts
    BY <1>0, <2>1 DEF LedgerAmounts
  <2>3. locked' = locked + shared
    BY <2>1, <2>2, LockedMoves
  <2>4. <<"Evm", peer.address>> \in Paths
    BY <1>0, PathFacts DEF BooksTyped
  <2>5. PICK id \in Ids :
          /\ Claims[id] = None
          /\ Claims' = [Claims EXCEPT ![id] =
                           [to |-> "Evm", amount |-> shared, settled |-> FALSE]]
    BY <1>0, <2>1, <2>2, <2>4, SendOpensClaim
  <2>6. Ledger!OpenOnEvm(id, shared)
    BY <2>1, <2>3, <2>5 DEF Ledger!OpenOnEvm
  <2>7. Claims'[id] # None
    BY <2>2, <2>5, OpenedIsClaim
  <2> QED
    BY <2>2, <2>5, <2>6, <2>7 DEF Ledger!Open, Ledger!Next
<1>2. ASSUME NEW amount \in EvmAmounts, NEW min \in {0, amount},
             SendFromEvm(amount, min)
      PROVE  Ledger!Next
  <2>1. /\ amount \in Nat /\ amount <= totalSupply
        /\ Lz!send(<<"Sol", evmPeer>>, amount)
        /\ store' = store
        /\ totalSupply' = totalSupply - amount
    BY <1>2, SendFromEvmEffect
  <2>2. amount \in LedgerAmounts
    BY <1>0, <2>1 DEF LedgerAmounts, BooksTyped
  <2>3. <<"Sol", evmPeer>> \in Paths
    BY <1>0, PathFacts DEF BooksTyped
  <2>4. PICK id \in Ids :
          /\ Claims[id] = None
          /\ Claims' = [Claims EXCEPT ![id] =
                           [to |-> "Sol", amount |-> amount, settled |-> FALSE]]
    BY <1>0, <2>1, <2>3, SendOpensClaim
  <2>5. Ledger!OpenOnSol(id, amount)
    BY <2>1, <2>4 DEF Ledger!OpenOnSol
  <2>6. Claims'[id] # None
    BY <2>1, <2>4, OpenedIsClaim
  <2> QED
    BY <2>2, <2>4, <2>5, <2>6 DEF Ledger!Open, Ledger!Next
<1>3. ASSUME NEW n \in 1 .. MaxPackets, ReceiveOnEvm(n)
      PROVE  Ledger!Next
  <2>. DEFINE path == <<"Evm", EvmOApp>>
              amount == channel[path][n].amount
  <2>1. /\ Lz!execute(path, n)
        /\ store' = store
        /\ totalSupply' = totalSupply + amount
    BY <1>3, ReceiveOnEvmEffect
  <2>2. path \in LivePaths /\ path[1] = "Evm"
    BY DEF LivePaths
  <2>. HIDE DEF path
  <2>3. PICK id \in Ids :
          /\ Claims[id] # None /\ ~Claims[id].settled
          /\ Claims[id].to = "Evm" /\ Claims[id].amount = amount
          /\ Claims' = [Claims EXCEPT ![id].settled = TRUE]
    BY <1>0, <2>1, <2>2, ExecuteSettlesClaim
  <2>. HIDE DEF amount
  <2>4. Ledger!Settle(id)
    BY <2>1, <2>3 DEF Ledger!Settle
  <2> QED
    BY <2>4 DEF Ledger!Next
<1>4. ASSUME NEW n \in 1 .. MaxPackets, ReceiveOnSolana(n)
      PROVE  Ledger!Next
  <2>. DEFINE path == <<"Sol", SolOApp>>
              amount == channel[path][n].amount
  <2>1. /\ Lz!execute(path, n)
        /\ store.tvl_ld = store'.tvl_ld + Rate * amount
        /\ totalSupply' = totalSupply
        /\ BooksTyped'
    BY <1>4, ReceiveOnSolanaEffect DEF BridgeInv
  <2>2. path \in LivePaths /\ path[1] = "Sol" /\ n \in Nat
    BY OAppAssumption DEF LivePaths
  <2>. HIDE DEF path
  <2>3. amount \in Nat
    BY <1>0, <2>1, <2>2, ExecuteFacts
  <2>4. PICK id \in Ids :
          /\ Claims[id] # None /\ ~Claims[id].settled
          /\ Claims[id].to = "Sol" /\ Claims[id].amount = amount
          /\ Claims' = [Claims EXCEPT ![id].settled = TRUE]
    BY <1>0, <2>1, <2>2, ExecuteSettlesClaim
  <2>. HIDE DEF amount
  <2>5. store'.tvl_ld = store.tvl_ld + Rate * (-amount) /\ -amount \in Int
    <3>1. store'.tvl_ld \in Int /\ Rate \in Nat
      BY <1>0, <2>1, BooksAssumption DEF BooksTyped, Sol!Stores, Sol!Amounts, Rate
    <3>2. Rate * (-amount) = -(Rate * amount) /\ Rate * amount \in Int
      BY <2>3, <3>1, SMT
    <3> QED
      BY <2>1, <2>3, <3>1, <3>2
  <2>6. locked' = locked - amount
    <3>1. locked' = locked + (-amount)
      BY <2>5, LockedMoves
    <3>2. locked \in Int
      <4>1. store.tvl_ld \in Int /\ Rate \in Nat \ {0}
        BY <1>0, BooksAssumption DEF BooksTyped, Sol!Stores, Sol!Amounts, Rate
      <4>2. store.tvl_ld \div Rate \in Int
        BY <4>1, DivMod
      <4> QED
        BY <4>2 DEF Sol!ld2sd, Rate
    <3> QED
      BY <2>3, <3>1, <3>2
  <2>7. Ledger!Settle(id)
    BY <2>1, <2>4, <2>6 DEF Ledger!Settle
  <2> QED
    BY <2>7 DEF Ledger!Next
<1>5. ASSUME Network
      PROVE  UNCHANGED <<locked, totalSupply, Claims>>
  <2>1. store' = store /\ totalSupply' = totalSupply
    BY <1>5, NetworkEffect DEF solVars, evmVars
  <2>2. Claims' = Claims
    BY <1>5, NetworkSettlesNothing DEF Claims
  <2> QED
    BY <2>1, <2>2
<1>6. ASSUME OnSolana \/ OnEvm \/ Tick \/ UNCHANGED vars
      PROVE  UNCHANGED <<locked, totalSupply, Claims>>
  <2>1. store'.tvl_ld = store.tvl_ld /\ UNCHANGED <<totalSupply, channel>>
    BY <1>6, OnSolanaEffect, OnEvmEffect, TickEffect DEF vars, solVars, evmVars
  <2>2. Claims' = Claims
    BY <2>1 DEF Claims, Opened, Packet, Lz!Nonces
  <2> QED
    BY <2>1, <2>2
<1> QED
  BY <1>1, <1>2, <1>3, <1>4, <1>5, <1>6 DEF Next, Transfer

\* The bridge implements the ledger of claims for every instance: a transfer
\* opens one claim on the other chain, each claim is settled at most once and for
\* the amount it was opened with, and nothing else moves the locked tokens or
\* the supply (send.rs, lz_receive.rs, SanOFT.sol).
THEOREM BridgeImplementsLedger == Spec => ImplementsLedger
<1>1. BridgeInv /\ [Next]_vars => [Ledger!Next]_<<Sol!ld2sd(store.tvl_ld), totalSupply, Claims>>
  BY LedgerStep
<1> QED
  BY LedgerInit, <1>1, BridgeInvariant, PTL
  DEF Spec, ImplementsLedger, Ledger!Spec, Ledger!ledgerVars

-----------------------------------------------------------------------------
(* What is outstanding is what the pathways hold. *)

\* The claims on a chain that are not settled, and their sum.
Owed(c, to) == {id \in Ids : c[id] # None /\ ~c[id].settled /\ c[id].to = to}
Worth(c) == [id \in Ids |-> c[id].amount]
TotalOwed(c, to) == SumOver(Worth(c), Owed(c, to))

\* Finitely many claims are open on a chain, each for a natural amount.
Countable(c, to) ==
    IsFiniteSet(Owed(c, to)) /\ \A id \in Owed(c, to) : c[id].amount \in Nat

ClaimsInv ==
    \A to \in {"Evm", "Sol"} :
        Countable(Claims, to) /\ outstanding[to] = TotalOwed(Claims, to)

\* One more open claim adds its amount to what its chain is owed.
LEMMA OpeningAddsOwed ==
    ASSUME NEW c, NEW c2, NEW id \in Ids, NEW amount \in Nat, NEW on, NEW to,
           c = [i \in Ids |-> c[i]], c[id] = None,
           [to |-> on, amount |-> amount, settled |-> FALSE] # None,
           c2 = [c EXCEPT ![id] = [to |-> on, amount |-> amount, settled |-> FALSE]],
           Countable(c, to)
    PROVE  /\ Countable(c2, to)
           /\ TotalOwed(c2, to) = TotalOwed(c, to) + (IF to = on THEN amount ELSE 0)
<1>. DEFINE claim == [to |-> on, amount |-> amount, settled |-> FALSE]
            old == Owed(c, to)
            new == Owed(c2, to)
<1>1. /\ c2[id] = claim /\ claim # None
      /\ \A i \in Ids \ {id} : c2[i] = c[i]
  <2>1. id \in DOMAIN c
    BY Zenon
  <2>2. c2[id] = claim
    BY <2>1
  <2> QED
    BY <2>2
<1>2. claim.to = on /\ claim.amount = amount /\ claim.settled = FALSE
  OBVIOUS
<1>. HIDE DEF claim
<1>3. id \notin old /\ new = IF to = on THEN old \cup {id} ELSE old
  BY <1>1, <1>2 DEF Owed
<1>4. IsFiniteSet(old) /\ \A i \in old : c[i].amount \in Nat
  BY DEF Countable
<1>5. /\ \A i \in old : Worth(c2)[i] = Worth(c)[i] /\ Worth(c2)[i] \in Nat
      /\ Worth(c2)[id] = amount
  BY <1>1, <1>2, <1>3, <1>4 DEF Worth, Owed
<1>6. Countable(c2, to)
  <2>1. IsFiniteSet(new)
    BY <1>3, <1>4, FS_AddElement
  <2>2. \A i \in new : c2[i].amount \in Nat
    BY <1>1, <1>2, <1>3, <1>4 DEF Owed
  <2> QED
    BY <2>1, <2>2 DEF Countable
<1>0. TotalOwed(c, to) = SumOver(Worth(c), old) /\ TotalOwed(c2, to) = SumOver(Worth(c2), new)
  BY DEF TotalOwed
<1>. HIDE DEF old, new
<1>7. SumOver(Worth(c2), old) = SumOver(Worth(c), old)
  BY <1>4, <1>5, SumSame
<1>8. SumOver(Worth(c2), old) \in Nat
  BY <1>4, <1>5, SumNat
<1>9. CASE to = on
  <2>1. SumOver(Worth(c2), old \cup {id}) = Worth(c2)[id] + SumOver(Worth(c2), old)
    BY <1>3, <1>4, <1>5, SumAdd
  <2> QED
    BY <1>0, <1>3, <1>5, <1>6, <1>7, <1>8, <1>9, <2>1
<1>10. CASE to # on
  BY <1>0, <1>3, <1>6, <1>7, <1>8, <1>10
<1> QED
  BY <1>9, <1>10

\* Settling an open claim takes its amount off what its chain is owed.
LEMMA SettlingTakesOwed ==
    ASSUME NEW c, NEW c2, NEW id \in Ids, NEW amount \in Nat, NEW on, NEW to,
           c = [i \in Ids |-> c[i]],
           c[id] = [to |-> on, amount |-> amount, settled |-> FALSE],
           c[id] # None,
           c2 = [c EXCEPT ![id] = [to |-> on, amount |-> amount, settled |-> TRUE]],
           Countable(c, to)
    PROVE  /\ Countable(c2, to)
           /\ TotalOwed(c2, to) = TotalOwed(c, to) - (IF to = on THEN amount ELSE 0)
<1>. DEFINE claim == [to |-> on, amount |-> amount, settled |-> FALSE]
            done == [to |-> on, amount |-> amount, settled |-> TRUE]
            old == Owed(c, to)
            new == Owed(c2, to)
<1>1. /\ c2[id] = done
      /\ \A i \in Ids \ {id} : c2[i] = c[i]
  <2>1. id \in DOMAIN c
    BY Zenon
  <2>2. c2[id] = done
    BY <2>1
  <2> QED
    BY <2>2
<1>2. /\ claim.to = on /\ claim.amount = amount /\ claim.settled = FALSE
      /\ done.settled = TRUE /\ c[id] = claim
  OBVIOUS
<1>. HIDE DEF claim, done
<1>3. /\ new = old \ {id} /\ id \notin new
      /\ id \in old <=> to = on
  BY <1>1, <1>2 DEF Owed
<1>4. IsFiniteSet(old) /\ \A i \in old : c[i].amount \in Nat
  BY DEF Countable
<1>5. /\ \A i \in new : Worth(c2)[i] = Worth(c)[i] /\ c2[i] = c[i]
      /\ \A i \in old : Worth(c)[i] \in Nat
      /\ Worth(c)[id] = amount
  BY <1>1, <1>2, <1>3, <1>4 DEF Worth, Owed
<1>6. IsFiniteSet(new)
  BY <1>3, <1>4, FS_RemoveElement
<1>7. Countable(c2, to)
  BY <1>3, <1>4, <1>5, <1>6 DEF Countable, new
<1>0. TotalOwed(c, to) = SumOver(Worth(c), old) /\ TotalOwed(c2, to) = SumOver(Worth(c2), new)
  BY DEF TotalOwed
<1>. HIDE DEF old, new
<1>8. SumOver(Worth(c2), new) = SumOver(Worth(c), new)
  BY <1>5, <1>6, SumSame
<1>9. SumOver(Worth(c), new) \in Nat
  BY <1>3, <1>5, <1>6, SumNat
<1>10. CASE to = on
  <2>1. SumOver(Worth(c), old) = Worth(c)[id] + SumOver(Worth(c), old \ {id})
    BY <1>3, <1>4, <1>5, <1>10, SumRemove
  <2> QED
    BY <1>0, <1>3, <1>5, <1>7, <1>8, <1>9, <1>10, <2>1
<1>11. CASE to # on
  <2>1. new = old
    BY <1>3, <1>11
  <2> QED
    BY <1>0, <1>7, <1>8, <1>9, <1>11, <2>1
<1> QED
  BY <1>10, <1>11

\* A packet that was sent is a claim on its destination.
LEMMA ClaimOf ==
    ASSUME BooksTyped, NEW id \in Ids
    PROVE  /\ id[1][1] \in {"Evm", "Sol"}
           /\ Claims[id] # None <=> Opened(id)
           /\ Opened(id) => /\ Packet(id).amount \in Nat
                            /\ Claims[id].to = id[1][1]
                            /\ Claims[id].amount = Packet(id).amount
                            /\ Claims[id].settled = (Packet(id).status = "delivered")
<1>. DEFINE claim == [to |-> id[1][1], amount |-> Packet(id).amount,
                      settled |-> Packet(id).status = "delivered"]
<1>1. id[1] \in Paths /\ id[1][1] \in {"Evm", "Sol"}
  BY DEF Ids, Paths
<1>2. Claims[id] = IF Opened(id) THEN claim ELSE None
  BY DEF Claims
<1>3. ASSUME Opened(id)
      PROVE  Packet(id).amount \in Nat /\ claim # None
  <2>1. Packet(id).amount \in Nat
    BY <1>1, <1>3, PacketTyped DEF Opened, Packet
  <2>2. claim \in [to : {"Evm", "Sol"}, amount : Nat, settled : BOOLEAN]
    BY <1>1, <2>1
  <2> QED
    BY <2>1, <2>2, BooksAssumption
<1>4. /\ claim.to = id[1][1] /\ claim.amount = Packet(id).amount
      /\ claim.settled = (Packet(id).status = "delivered")
  OBVIOUS
<1>. HIDE DEF claim
<1> QED
  BY <1>1, <1>2, <1>3, <1>4

\* The packets that were sent to a chain and never executed are the open claims.
LEMMA UndeliveredIsOwed ==
    ASSUME BooksTyped, NEW to \in {"Evm", "Sol"}, Countable(Claims, to)
    PROVE  /\ {id \in Sent \ Settled : id[1][1] \in {to}} = Owed(Claims, to)
           /\ Undelivered({to}) = TotalOwed(Claims, to)
<1>. DEFINE left == {id \in Sent \ Settled : id[1][1] \in {to}}
            worth == [id \in Sent |-> Packet(id).amount]
<1>1. \A id \in Ids : id \in left <=> id \in Owed(Claims, to)
  BY ClaimOf DEF Sent, Settled, Owed
<1>2. left = Owed(Claims, to)
  BY <1>1 DEF Sent, Owed
<1>3. \A id \in left : worth[id] = Worth(Claims)[id]
  BY ClaimOf DEF Worth, Sent
<1>4. IsFiniteSet(left)
  BY <1>2 DEF Countable
<1>5. Undelivered({to}) = SumOver(worth, left)
  BY DEF Undelivered
<1>. HIDE DEF left, worth
<1>6. SumOver(worth, left) = SumOver(Worth(Claims), left)
  BY <1>3, <1>4, SumSame
<1> QED
  BY <1>2, <1>5, <1>6 DEF TotalOwed, left

\* Every step opens a claim and raises what is outstanding by it, settles one
\* and lowers it by that, or leaves both alone.
Opens(id, on, amount) ==
    /\ Claims[id] = None
    /\ [to |-> on, amount |-> amount, settled |-> FALSE] # None
    /\ Claims' = [Claims EXCEPT ![id] = [to |-> on, amount |-> amount, settled |-> FALSE]]
    /\ outstanding' = [outstanding EXCEPT ![on] = @ + amount]

Settles(id, on, amount) ==
    /\ Claims[id] # None
    /\ Claims[id] = [to |-> on, amount |-> amount, settled |-> FALSE]
    /\ Claims' = [Claims EXCEPT ![id] = [to |-> on, amount |-> amount, settled |-> TRUE]]
    /\ outstanding' = [outstanding EXCEPT ![on] = @ - amount]

LEMMA TransferMovesClaim ==
    ASSUME BridgeInv, Transfer
    PROVE  \E id \in Ids, on \in {"Evm", "Sol"}, amount \in Nat :
              Opens(id, on, amount) \/ Settles(id, on, amount)
<1>0. BooksTyped
  BY DEF BridgeInv
<1>. DEFINE claim(on, amount) == [to |-> on, amount |-> amount, settled |-> FALSE]
<1>1. \A on \in {"Evm", "Sol"}, amount \in Nat : claim(on, amount) # None
  <2>1. SUFFICES ASSUME NEW on \in {"Evm", "Sol"}, NEW amount \in Nat
                 PROVE  claim(on, amount) # None
    OBVIOUS
  <2>2. claim(on, amount) \in [to : {"Evm", "Sol"}, amount : Nat, settled : BOOLEAN]
    OBVIOUS
  <2> QED
    BY <2>2, BooksAssumption
<1>2. CASE \E amount \in AskedAmounts : \E min \in {0, amount} : SendFromSolana(amount, min)
  <2>0. PICK asked \in AskedAmounts : \E min \in {0, asked} : SendFromSolana(asked, min)
    BY <1>2
  <2>1. PICK min \in {0, asked} : SendFromSolana(asked, min)
    BY <2>0
  <2>2. PICK amount \in Nat : amount = Bridged(asked)
    BY <2>1, SendFromSolanaEffect, BooksAssumption
  <2>3. /\ Lz!send(<<"Evm", peer.address>>, amount)
        /\ outstanding' = [outstanding EXCEPT !["Evm"] = @ + amount]
    BY <2>1, <2>2 DEF SendFromSolana
  <2>4. <<"Evm", peer.address>> \in Paths
    BY <1>0, PathFacts DEF BooksTyped
  <2>5. PICK id \in Ids :
          /\ Claims[id] = None
          /\ Claims' = [Claims EXCEPT ![id] = claim("Evm", amount)]
    BY <1>0, <2>3, <2>4, SendOpensClaim
  <2>6. Opens(id, "Evm", amount)
    BY <1>1, <2>3, <2>5 DEF Opens
  <2> QED
    BY <2>6
<1>3. CASE \E amount \in EvmAmounts : \E min \in {0, amount} : SendFromEvm(amount, min)
  <2>0. PICK amount \in EvmAmounts : \E min \in {0, amount} : SendFromEvm(amount, min)
    BY <1>3
  <2>1. PICK min \in {0, amount} : SendFromEvm(amount, min)
    BY <2>0
  <2>2. /\ amount \in Nat
        /\ Lz!send(<<"Sol", evmPeer>>, amount)
        /\ outstanding' = [outstanding EXCEPT !["Sol"] = @ + amount]
    BY <2>1, SendFromEvmEffect DEF SendFromEvm
  <2>3. <<"Sol", evmPeer>> \in Paths
    BY <1>0, PathFacts DEF BooksTyped
  <2>4. PICK id \in Ids :
          /\ Claims[id] = None
          /\ Claims' = [Claims EXCEPT ![id] = claim("Sol", amount)]
    BY <1>0, <2>2, <2>3, SendOpensClaim
  <2>5. Opens(id, "Sol", amount)
    BY <1>1, <2>2, <2>4 DEF Opens
  <2> QED
    BY <2>2, <2>5
<1>4. ASSUME NEW n \in 1 .. MaxPackets, NEW path \in LivePaths,
             Lz!execute(path, n),
             outstanding' = [outstanding EXCEPT ![path[1]] = @ - channel[path][n].amount]
      PROVE  \E id \in Ids, on \in {"Evm", "Sol"}, amount \in Nat :
                Opens(id, on, amount) \/ Settles(id, on, amount)
  <2>1. n \in Nat
    BY OAppAssumption
  <2>2. PICK amount \in Nat : amount = channel[path][n].amount
    BY <1>0, <1>4, <2>1, ExecuteFacts
  <2>3. PICK on \in {"Evm", "Sol"} : on = path[1]
    BY DEF LivePaths
  <2>4. PICK id \in Ids :
          /\ Claims[id] # None
          /\ Claims[id] = [to |-> path[1], amount |-> channel[path][n].amount,
                           settled |-> FALSE]
          /\ Claims' = [Claims EXCEPT ![id] =
                           [to |-> path[1], amount |-> channel[path][n].amount,
                            settled |-> TRUE]]
    BY <1>0, <1>4, ExecuteMarksClaim, Zenon
  <2>5. Settles(id, on, amount)
    BY <1>4, <2>2, <2>3, <2>4, Zenon DEF Settles
  <2> QED
    BY <2>5
<1>5. CASE \E n \in 1 .. MaxPackets : ReceiveOnEvm(n) \/ ReceiveOnSolana(n)
  <2>1. PICK n \in 1 .. MaxPackets : ReceiveOnEvm(n) \/ ReceiveOnSolana(n)
    BY <1>5
  <2>2. PICK path \in LivePaths :
          /\ Lz!execute(path, n)
          /\ outstanding' = [outstanding EXCEPT ![path[1]] = @ - channel[path][n].amount]
    BY <2>1 DEF ReceiveOnEvm, ReceiveOnSolana, LivePaths
  <2> QED
    BY <1>4, <2>2
<1> QED
  BY <1>2, <1>3, <1>5 DEF Transfer

LEMMA ClaimsStep ==
    ASSUME BridgeInv, ClaimsInv, [Next]_vars
    PROVE  ClaimsInv'
<1>0. /\ Claims = [i \in Ids |-> Claims[i]]
      /\ outstanding \in [{"Evm", "Sol"} -> Int]
  BY DEF Claims, BridgeInv, BooksTyped
<1>1. CASE Transfer
  <2>1. PICK id \in Ids, on \in {"Evm", "Sol"}, amount \in Nat :
          Opens(id, on, amount) \/ Settles(id, on, amount)
    BY <1>1, TransferMovesClaim
  <2>2. SUFFICES ASSUME NEW to \in {"Evm", "Sol"}
                 PROVE  /\ Countable(Claims', to)
                        /\ outstanding'[to] = TotalOwed(Claims', to)
    BY DEF ClaimsInv, Countable, TotalOwed, Owed, Worth
  <2>3. Countable(Claims, to) /\ outstanding[to] = TotalOwed(Claims, to)
    BY DEF ClaimsInv
  <2>4. CASE Opens(id, on, amount)
    <3>1. outstanding'[to] = outstanding[to] + (IF to = on THEN amount ELSE 0)
      BY <1>0, <2>4 DEF Opens
    <3>. PICK c, c2 : c = Claims /\ c2 = Claims'
      OBVIOUS
    <3>2. /\ Countable(c2, to)
          /\ TotalOwed(c2, to) = TotalOwed(c, to) + (IF to = on THEN amount ELSE 0)
      BY <1>0, <2>3, <2>4, OpeningAddsOwed DEF Opens
    <3> QED
      BY <2>3, <3>1, <3>2
  <2>5. CASE Settles(id, on, amount)
    <3>1. outstanding'[to] = outstanding[to] - (IF to = on THEN amount ELSE 0)
      BY <1>0, <2>5 DEF Settles
    <3>. PICK c, c2 : c = Claims /\ c2 = Claims'
      OBVIOUS
    <3>2. /\ Countable(c2, to)
          /\ TotalOwed(c2, to) = TotalOwed(c, to) - (IF to = on THEN amount ELSE 0)
      BY <1>0, <2>3, <2>5, SettlingTakesOwed DEF Settles
    <3> QED
      BY <2>3, <3>1, <3>2
  <2> QED
    BY <2>1, <2>4, <2>5
<1>2. CASE Network \/ OnSolana \/ OnEvm \/ Tick \/ UNCHANGED vars
  <2>1. Claims' = Claims
    <3>1. CASE Network
      BY <3>1, NetworkSettlesNothing DEF Claims
    <3>2. CASE OnSolana \/ OnEvm \/ Tick \/ UNCHANGED vars
      BY <3>2 DEF OnSolana, OnEvm, Tick, vars, Claims, Opened, Packet, Lz!Nonces
    <3> QED
      BY <1>2, <3>1, <3>2
  <2>2. outstanding' = outstanding
    BY <1>2, NetworkEffect DEF OnSolana, OnEvm, Tick, vars
  <2> QED
    BY <2>1, <2>2 DEF ClaimsInv, Countable, TotalOwed, Owed, Worth
<1> QED
  BY <1>1, <1>2 DEF Next

LEMMA ClaimsInit == Init => ClaimsInv
<1>. SUFFICES ASSUME Init, NEW to \in {"Evm", "Sol"}
              PROVE  Countable(Claims, to) /\ outstanding[to] = TotalOwed(Claims, to)
  BY DEF ClaimsInv
<1>1. Claims = [id \in Ids |-> None]
  BY LedgerInit DEF Ledger!Init
<1>2. Owed(Claims, to) = {}
  BY <1>1 DEF Owed
<1>3. outstanding[to] = 0
  BY DEF Init
<1> QED
  BY <1>2, <1>3, SumEmpty, FS_EmptySet DEF Countable, TotalOwed

THEOREM ClaimsInvariant == Spec => [](BridgeInv /\ ClaimsInv)
<1>1. Init => BridgeInv /\ ClaimsInv
  BY InitHolds, ClaimsInit
<1>2. BridgeInv /\ ClaimsInv /\ [Next]_vars => (BridgeInv /\ ClaimsInv)'
  BY StepHolds, ClaimsStep
<1> QED
  BY <1>1, <1>2, PTL DEF Spec

\* What the books of the two chains leave unexplained is exactly the packets that
\* were sent and never executed, in each direction, whatever verifiers, executors
\* and the delegate do with them (send.rs, lz_receive.rs, SanOFT.sol; the tasks
\* skip, clear, nilify and burn).
THEOREM OutstandingAlwaysUndelivered == Spec => []OutstandingIsUndelivered
<1>1. BridgeInv /\ ClaimsInv => OutstandingIsUndelivered
  <2>. SUFFICES ASSUME BridgeInv, ClaimsInv, NEW to \in {"Evm", "Sol"}
                PROVE  outstanding[to] = Undelivered({to})
    BY DEF OutstandingIsUndelivered
  <2>1. BooksTyped /\ Countable(Claims, to) /\ outstanding[to] = TotalOwed(Claims, to)
    BY DEF BridgeInv, ClaimsInv
  <2> QED
    BY <2>1, UndeliveredIsOwed
<1> QED
  BY <1>1, ClaimsInvariant, PTL

-----------------------------------------------------------------------------
(* The parts within the bridge: each behaviour of the bridge is one of the *)
(* program and one of the contract, so what is proved of them holds here.  *)

Program == INSTANCE SolanaOFT_proofs WITH AskedAmounts <- 0 .. MaxU64

\* The operators of the two instances of the program are the same.
LEMMA SameSends ==
    ASSUME NEW amount, NEW min, Sol!Send(amount, min)
    PROVE  Program!Send(amount, min)
<1>1. Program!Adjusted(amount) = Sol!Adjusted(amount)
  BY DEF Sol!Adjusted, Sol!Adjust, Sol!remove_dust, Sol!PostFee, Sol!PreFee,
         Sol!TokenFeeOn, Sol!CeilDiv, Sol!MinOf, Sol!calculate_fee,
         Program!Adjusted, Program!Adjust, Program!remove_dust, Program!PostFee,
         Program!PreFee, Program!TokenFeeOn, Program!CeilDiv, Program!MinOf,
         Program!calculate_fee
<1> QED
  BY <1>1
  DEF Sol!Send, Sol!NotPaused, Sol!Admits, Sol!CanConsume, Sol!Consumed, Sol!consume,
      Sol!CrossRefilled, Sol!refill, Sol!Refilled, Sol!SatAdd, Sol!SatMul, Sol!MinOf,
      Sol!Monus, Sol!MovedByAdapter, Sol!MovedByNative, Sol!PostFee, Sol!TokenFeeOn,
      Sol!CeilDiv, Sol!DebtAfterSpending, Sol!DebtAfterCredit,
      Program!Send, Program!NotPaused, Program!Admits, Program!CanConsume,
      Program!Consumed, Program!consume, Program!CrossRefilled, Program!refill,
      Program!Refilled, Program!SatAdd, Program!SatMul, Program!MinOf, Program!Monus,
      Program!MovedByAdapter, Program!MovedByNative, Program!PostFee,
      Program!TokenFeeOn, Program!CeilDiv, Program!DebtAfterSpending,
      Program!DebtAfterCredit

LEMMA SameReceives ==
    ASSUME NEW sender, NEW amount, Sol!LzReceive(sender, amount)
    PROVE  Program!LzReceive(sender, amount)
  BY DEF Sol!LzReceive, Sol!NotPaused, Sol!sd2ld, Sol!Admits, Sol!CanConsume,
         Sol!Consumed, Sol!consume, Sol!CrossRefilled, Sol!refill, Sol!Refilled,
         Sol!SatAdd, Sol!SatMul, Sol!MinOf, Sol!Monus, Sol!DebtAfterSpending,
         Sol!DebtAfterCredit,
         Program!LzReceive, Program!NotPaused, Program!sd2ld, Program!Admits,
         Program!CanConsume, Program!Consumed, Program!consume,
         Program!CrossRefilled, Program!refill, Program!Refilled, Program!SatAdd,
         Program!SatMul, Program!MinOf, Program!Monus, Program!DebtAfterSpending,
         Program!DebtAfterCredit

LEMMA SameSettings ==
    /\ \A type, admin : Sol!InitOFT(type, admin) => Program!InitOFT(type, admin)
    /\ Sol!Configure => Program!Configure
    /\ \A amount : Sol!Donate(amount) => Program!Donate(amount)
    /\ Sol!ChangeTokenFee => Program!ChangeTokenFee
    /\ Sol!Tick => Program!Tick
<1>1. ASSUME NEW key
      PROVE  /\ Sol!SetOFTConfig(key) => Program!SetOFTConfig(key)
             /\ Sol!SetDelegate(key) => Program!SetDelegate(key)
             /\ Sol!SetPeerConfig(key) => Program!SetPeerConfig(key)
             /\ \A fee : Sol!WithdrawFee(key, fee) => Program!WithdrawFee(key, fee)
             /\ \A pausing : Sol!SetPause(key, pausing) => Program!SetPause(key, pausing)
  BY DEF Sol!SetOFTConfig, Sol!SetDelegate, Sol!SetPeerConfig, Sol!WithdrawFee,
         Sol!SetPause, Sol!SignedByAdmin, Sol!ValidFeeBps, Sol!Option,
         Sol!Withdrawable, Sol!is_valid_signer,
         Program!SetOFTConfig, Program!SetDelegate, Program!SetPeerConfig,
         Program!WithdrawFee, Program!SetPause, Program!SignedByAdmin,
         Program!ValidFeeBps, Program!Option, Program!Withdrawable,
         Program!is_valid_signer
<1>2. ASSUME NEW key, NEW p
      PROVE  /\ Sol!SetOutboundRateLimit(key, p) => Program!SetOutboundRateLimit(key, p)
             /\ Sol!SetInboundRateLimit(key, p) => Program!SetInboundRateLimit(key, p)
  BY DEF Sol!SetOutboundRateLimit, Sol!SetInboundRateLimit, Sol!SignedByAdmin,
         Sol!DebtAfterUpdate, Sol!update_rate_limiter, Sol!DefaultLimiter,
         Sol!set_capacity, Sol!set_rate, Sol!refill, Sol!Refilled, Sol!SatAdd,
         Sol!SatMul, Sol!MinOf,
         Program!SetOutboundRateLimit, Program!SetInboundRateLimit,
         Program!SignedByAdmin, Program!DebtAfterUpdate,
         Program!update_rate_limiter, Program!DefaultLimiter,
         Program!set_capacity, Program!set_rate, Program!refill, Program!Refilled,
         Program!SatAdd, Program!SatMul, Program!MinOf
<1>3. AskedAmounts \subseteq 0 .. MaxU64
  BY ProgramAssumption DEF Sol!Amounts
<1>4. Sol!Configure => Program!Configure
  BY <1>1, <1>2, <1>3 DEF Sol!Configure, Program!Configure
<1>5. \A amount : Sol!Donate(amount) => Program!Donate(amount)
  BY DEF Sol!Donate, Program!Donate, Sol!PostFee, Sol!TokenFeeOn, Sol!CeilDiv,
         Sol!MinOf, Program!PostFee, Program!TokenFeeOn, Program!CeilDiv,
         Program!MinOf
<1>6. Sol!Tick => Program!Tick
  BY DEF Sol!Tick, Program!Tick, Sol!Aged, Program!Aged, Sol!DebtAfterSecond,
         Program!DebtAfterSecond, Sol!MinOf, Program!MinOf, Sol!Monus, Program!Monus
<1> QED
  BY <1>4, <1>5, <1>6
  DEF Sol!InitOFT, Program!InitOFT, Sol!NewStore, Program!NewStore,
      Sol!ChangeTokenFee, Program!ChangeTokenFee

LEMMA ProgramStep ==
    ASSUME BridgeInv, [Next]_vars
    PROVE  [Program!Next]_(Program!solanaVars)
<1>0. /\ AskedAmounts \subseteq 0 .. MaxU64 /\ MaxU64 \in Nat /\ Rate \in Nat \ {0}
      /\ EvmOApp \in Peers
  BY ProgramAssumption, BooksAssumption, OAppAssumption DEF Sol!Amounts, Rate
<1>1. CASE \E amount \in AskedAmounts : \E min \in {0, amount} : SendFromSolana(amount, min)
  BY <1>0, <1>1, SameSends DEF SendFromSolana, Program!Next, Program!Transfer
<1>2. CASE \E n \in 1 .. MaxPackets : ReceiveOnSolana(n)
  <2>. DEFINE path == <<"Sol", SolOApp>>
  <2>1. PICK n \in 1 .. MaxPackets : ReceiveOnSolana(n)
    BY <1>2
  <2>2. /\ Lz!execute(path, n) /\ path \in LivePaths /\ n \in Nat
        /\ Sol!LzReceive(EvmOApp, channel[path][n].amount)
    BY <2>1, OAppAssumption DEF ReceiveOnSolana, LivePaths
  <2>3. BooksTyped
    BY DEF BridgeInv
  <2>4. PICK amount \in Nat : amount = channel[path][n].amount
    BY <2>2, <2>3, ExecuteFacts
  <2>5. amount * Rate <= MaxU64
    BY <2>2, <2>4 DEF Sol!LzReceive, Sol!sd2ld, Rate
  <2>6. amount <= amount * Rate
    BY <1>0, SMT
  <2>7. amount \in 0 .. MaxU64
    BY <1>0, <2>5, <2>6
  <2>8. Program!LzReceive(EvmOApp, amount)
    BY <2>2, <2>4, SameReceives
  <2> QED
    BY <1>0, <2>7, <2>8 DEF Program!Next, Program!Transfer
<1>3. CASE OnSolana
  BY <1>0, <1>3, SameSettings DEF OnSolana, Program!Next, Program!Environment
<1>4. CASE Tick
  BY <1>4, SameSettings DEF Tick, Program!Next, Program!Environment
<1>5. CASE \/ \E amount \in EvmAmounts : \E min \in {0, amount} : SendFromEvm(amount, min)
           \/ \E n \in 1 .. MaxPackets : ReceiveOnEvm(n)
           \/ Network \/ OnEvm \/ UNCHANGED vars
  BY <1>5, NetworkEffect
  DEF SendFromEvm, ReceiveOnEvm, OnEvm, vars, solVars, Program!solanaVars
<1> QED
  BY <1>1, <1>2, <1>3, <1>4, <1>5 DEF Next, Transfer

\* Within the bridge the OFT program behaves as it does alone, against any sender
\* of messages: what is proved of it is true of the bridge (send.rs, lz_receive.rs).
THEOREM BridgeRunsProgram == Spec => Program!Spec
<1>1. Init => Program!Init
  BY DEF Init, Sol!Init, Program!Init, Sol!NewStore, Program!NewStore, Sol!NewPeer,
         Program!NewPeer
<1>2. BridgeInv /\ [Next]_vars => [Program!Next]_(Program!solanaVars)
  BY ProgramStep
<1> QED
  BY <1>1, <1>2, BridgeInvariant, PTL DEF Spec, Program!Spec

\* The assumptions under which the program is proved hold of this instance.
LEMMA ProgramAssumed ==
    /\ MaxU64 \in Nat /\ None \notin Nat
    /\ ONE_IN_BASIS_POINTS \in Nat \ {0} /\ ld2sd_rate \in Nat \ {0}
    /\ MaxIdle \in Nat /\ MaxU64 <= MaxIdle
    /\ None \notin Program!Limiters
    /\ None \notin [capacity : Program!Option(Program!Amounts),
                    rate : Program!Option(Program!Amounts)]
    /\ ZeroAddress \in Peers /\ NoOptions \in EnforcedOptions /\ None \notin Keys
    /\ OFTTypes \subseteq {"Adapter", "Native"}
    /\ InitialSupply \in Program!Amounts
    /\ TokenFeeSettings \subseteq Program!TokenFees
    /\ FeeSettings \subseteq Nat
    /\ LimitSettings \subseteq Program!LimiterParams
    /\ 0 .. MaxU64 \subseteq Program!Amounts
<1>1. /\ MaxU64 \in Nat /\ None \notin Nat
      /\ ONE_IN_BASIS_POINTS \in Nat \ {0} /\ ld2sd_rate \in Nat \ {0}
  BY BooksAssumption, ProgramAssumption
<1>2. MaxIdle \in Nat /\ MaxU64 <= MaxIdle
  BY ProgramAssumption
<1>3. /\ None \notin Program!Limiters
      /\ None \notin [capacity : Program!Option(Program!Amounts),
                      rate : Program!Option(Program!Amounts)]
  BY ProgramAssumption DEF Sol!Limiters, Program!Limiters, Sol!Option, Program!Option,
                           Sol!Amounts, Program!Amounts
<1>4. /\ ZeroAddress \in Peers /\ NoOptions \in EnforcedOptions /\ None \notin Keys
      /\ OFTTypes \subseteq {"Adapter", "Native"}
      /\ InitialSupply \in Program!Amounts
      /\ TokenFeeSettings \subseteq Program!TokenFees
      /\ FeeSettings \subseteq Nat
      /\ LimitSettings \subseteq Program!LimiterParams
      /\ 0 .. MaxU64 \subseteq Program!Amounts
  BY ProgramAssumption, BooksAssumption, OAppAssumption
  DEF Sol!Amounts, Program!Amounts, Sol!TokenFees, Program!TokenFees,
      Sol!LimiterParams, Program!LimiterParams, Sol!Option, Program!Option
<1> QED
  BY <1>1, <1>2, <1>3, <1>4

LEMMA CoveredInBridge == Spec => []Program!EscrowCoversTVL
<1>1. Program!Spec => []Program!EscrowCoversTVL
  BY ProgramAssumed, Program!EscrowAlwaysCovers
<1> QED
  BY <1>1, BridgeRunsProgram, PTL

Contract == INSTANCE SanOFT_proofs WITH EvmAmounts <- Nat

LEMMA ContractStep ==
    ASSUME BridgeInv, [Next]_vars
    PROVE  [Contract!Next]_(Contract!evmVars)
<1>0. /\ EvmAmounts \subseteq Nat /\ SolOApp \in EvmPeers /\ BooksTyped
  BY BooksAssumption, OAppAssumption DEF BridgeInv
<1>1. CASE \E amount \in EvmAmounts : \E min \in {0, amount} : SendFromEvm(amount, min)
  <2>1. PICK amount \in EvmAmounts : \E min \in {0, amount} : SendFromEvm(amount, min)
    BY <1>1
  <2>2. PICK min \in {0, amount} : Evm!send(amount, min)
    BY <2>1 DEF SendFromEvm
  <2>3. Contract!send(amount, min)
    BY <2>2
    DEF Evm!send, Evm!_requireNotPaused, Evm!CanTake, Evm!_consume, Evm!_refill,
        Evm!_available, Evm!_preview, Contract!send, Contract!_requireNotPaused,
        Contract!CanTake, Contract!_consume, Contract!_refill, Contract!_available,
        Contract!_preview
  <2> QED
    BY <1>0, <2>3 DEF Contract!Next, Contract!Transfer
<1>2. CASE \E n \in 1 .. MaxPackets : ReceiveOnEvm(n)
  <2>. DEFINE path == <<"Evm", EvmOApp>>
  <2>1. PICK n \in 1 .. MaxPackets : ReceiveOnEvm(n)
    BY <1>2
  <2>2. /\ Lz!execute(path, n) /\ path \in LivePaths /\ n \in Nat
        /\ Evm!lzReceive(SolOApp, channel[path][n].amount)
    BY <2>1, OAppAssumption DEF ReceiveOnEvm, LivePaths
  <2>3. PICK amount \in Nat : amount = channel[path][n].amount
    BY <1>0, <2>2, ExecuteFacts
  <2>4. Contract!lzReceive(SolOApp, amount)
    BY <2>2, <2>3
    DEF Evm!lzReceive, Evm!_requireNotPaused, Evm!CanTake, Evm!_consume, Evm!_refill,
        Evm!_available, Evm!_preview, Contract!lzReceive, Contract!_requireNotPaused,
        Contract!CanTake, Contract!_consume, Contract!_refill, Contract!_available,
        Contract!_preview
  <2> QED
    BY <1>0, <2>4 DEF Contract!Next, Contract!Transfer
<1>3. CASE OnEvm
  <2>1. Evm!Administer => Contract!Administer
    BY DEF Evm!Administer, Evm!pause, Evm!unpause, Evm!transferOwnership, Evm!setPeer,
           Evm!setOutboundRateLimit, Evm!setInboundRateLimit, Evm!Accepted,
           Evm!_configureBucket, Evm!UsedAfterConfigure, Evm!_available, Evm!_preview,
           Evm!MinOf, Contract!Administer, Contract!pause, Contract!unpause,
           Contract!transferOwnership, Contract!setPeer,
           Contract!setOutboundRateLimit, Contract!setInboundRateLimit,
           Contract!Accepted, Contract!_configureBucket,
           Contract!UsedAfterConfigure, Contract!_available, Contract!_preview,
           Contract!MinOf
  <2> QED
    BY <1>3, <2>1 DEF OnEvm, Contract!Next
<1>4. CASE Tick
  BY <1>4 DEF Tick, Evm!tick, Evm!Older, Evm!MinOf, Evm!Monus, Contract!Next,
              Contract!tick, Contract!Older, Contract!MinOf, Contract!Monus
<1>5. CASE \/ \E amount \in AskedAmounts : \E min \in {0, amount} : SendFromSolana(amount, min)
           \/ \E n \in 1 .. MaxPackets : ReceiveOnSolana(n)
           \/ Network \/ OnSolana \/ UNCHANGED vars
  BY <1>5, NetworkEffect
  DEF SendFromSolana, ReceiveOnSolana, OnSolana, vars, evmVars, Contract!evmVars
<1> QED
  BY <1>1, <1>2, <1>3, <1>4, <1>5 DEF Next, Transfer

\* Within the bridge the EVM contract behaves as it does alone, against any
\* message of its peer (SanOFT.sol).
THEOREM BridgeRunsContract == Spec => Contract!Spec
<1>1. Init => Contract!Init
  BY DEF Init, Evm!Init, Contract!Init, Evm!FullBucket, Contract!FullBucket
<1>2. BridgeInv /\ [Next]_vars => [Contract!Next]_(Contract!evmVars)
  BY ContractStep
<1> QED
  BY <1>1, <1>2, BridgeInvariant, PTL DEF Spec, Contract!Spec

\* In the bridge the four limiters meter their traffic exactly, each chain's in
\* both directions, while the packets of the other chain arrive in any order
\* (RateLimiter::refill and try_consume; SanOFT.sol, _preview and _consume).
THEOREM LimitersMeterTheBridge ==
    Spec => []( /\ Program!OutboundMetered /\ Program!InboundMetered
                /\ Contract!OutboundExact /\ Contract!InboundExact )
<1>1. Program!Spec => [](Program!OutboundMetered /\ Program!InboundMetered)
  BY ProgramAssumed, Program!LimitersAlwaysMeter
<1>2. /\ MaxCapacity \in Nat /\ MaxBucketIdle \in Nat
      /\ NoPeer \in EvmPeers /\ Nat \subseteq Nat /\ MaxSupply \in Nat
      /\ BucketSettings \subseteq Contract!Settings
      /\ Canary \in Contract!Settings /\ Contract!Accepted(Canary)
      /\ \A s \in BucketSettings \cup {Canary} :
            Contract!Accepted(s) => s.capacity * s.refillDuration
                                        <= MaxBucketIdle * s.refillAmount
  BY ContractAssumption, BooksAssumption
  DEF Evm!Settings, Contract!Settings, Evm!Accepted, Contract!Accepted
<1>3. Contract!Spec => []Contract!OutboundExact /\ []Contract!InboundExact
  BY <1>2, Contract!OutboundAlwaysExact, Contract!InboundAlwaysExact
<1> QED
  BY <1>1, <1>3, BridgeRunsProgram, BridgeRunsContract, PTL

\* What is undelivered in both directions is the sum of the two.
LEMMA UndeliveredAdds ==
    ASSUME BridgeInv, ClaimsInv
    PROVE  /\ Undelivered({"Evm", "Sol"}) = outstanding["Evm"] + outstanding["Sol"]
           /\ outstanding["Evm"] \in Int /\ outstanding["Sol"] \in Int
<1>. DEFINE worth == [id \in Sent |-> Packet(id).amount]
            left(to) == {id \in Sent \ Settled : id[1][1] \in {to}}
            both == {id \in Sent \ Settled : id[1][1] \in {"Evm", "Sol"}}
<1>1. BooksTyped
  BY DEF BridgeInv
<1>2. ASSUME NEW to \in {"Evm", "Sol"}
      PROVE  /\ outstanding[to] = SumOver(worth, left(to))
             /\ IsFiniteSet(left(to))
             /\ \A id \in left(to) : worth[id] \in Int
  <2>1. Countable(Claims, to) /\ outstanding[to] = TotalOwed(Claims, to)
    BY DEF ClaimsInv
  <2>2. left(to) = Owed(Claims, to) /\ Undelivered({to}) = TotalOwed(Claims, to)
    BY <1>1, <2>1, UndeliveredIsOwed
  <2>3. Undelivered({to}) = SumOver(worth, left(to))
    BY DEF Undelivered
  <2>4. \A id \in left(to) : worth[id] \in Int
    BY <1>1, ClaimOf DEF Sent
  <2> QED
    BY <2>1, <2>2, <2>3, <2>4 DEF Countable
<1>3. Undelivered({"Evm", "Sol"}) = SumOver(worth, both)
  BY DEF Undelivered
<1>4. PICK evm, sol : evm = left("Evm") /\ sol = left("Sol")
  OBVIOUS
<1>5. both = evm \cup sol /\ evm \cap sol = {}
  BY <1>4
<1>6. /\ outstanding["Evm"] = SumOver(worth, evm) /\ outstanding["Sol"] = SumOver(worth, sol)
      /\ IsFiniteSet(evm) /\ IsFiniteSet(sol)
      /\ \A id \in evm \cup sol : worth[id] \in Int
  BY <1>2, <1>4
<1>. HIDE DEF worth, both
<1>7. SumOver(worth, evm \cup sol) = SumOver(worth, evm) + SumOver(worth, sol)
  BY <1>5, <1>6, SumDisjoint
<1>8. outstanding["Evm"] \in Int /\ outstanding["Sol"] \in Int
  BY <1>1 DEF BooksTyped
<1> QED
  BY <1>3, <1>5, <1>6, <1>7, <1>8

\* The escrow backs every token of the representation and every packet that was
\* sent and never executed, for all fees, donations, withdrawals and orders of
\* the transactions of both chains (docs/ARCHITECTURE.md:59).
THEOREM EscrowAlwaysBacks == Spec => []EscrowBacksSupply
<1>1. BridgeInv /\ ClaimsInv /\ Program!EscrowCoversTVL => EscrowBacksSupply
  <2>. SUFFICES ASSUME BridgeInv, ClaimsInv, Program!EscrowCoversTVL
                PROVE  EscrowBacksSupply
    OBVIOUS
  <2>1. store.tvl_ld <= escrow
    BY DEF Program!EscrowCoversTVL
  <2>2. store.tvl_ld = Sol!sd2ld(totalSupply + outstanding["Evm"] + outstanding["Sol"])
    BY DEF BridgeInv, Conservation
  <2>3. totalSupply \in Int
    BY BooksAssumption DEF BridgeInv, BooksTyped
  <2>4. totalSupply + Undelivered({"Evm", "Sol"})
          = totalSupply + outstanding["Evm"] + outstanding["Sol"]
    BY <2>3, UndeliveredAdds
  <2> QED
    BY <2>1, <2>2, <2>4 DEF EscrowBacksSupply
<1> QED
  BY <1>1, ClaimsInvariant, CoveredInBridge, PTL

=============================================================================
