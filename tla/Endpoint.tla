------------------------------ MODULE Endpoint ------------------------------
(***************************************************************************)
(* The LayerZero Endpoint between the two OApps: what the repository's     *)
(* contracts, tasks (tasks/solana/endpoint) and scripts rely on.  A        *)
(* pathway is one direction and one receiver; its packets are numbered     *)
(* 1, 2, ... by nonce.                                                     *)
(*                                                                         *)
(* The verifier networks verify packets in any order; the executor, or     *)
(* anyone retrying by hand, submits a verified packet whenever the ones    *)
(* before it are accounted for.  The delegate of the receiving OApp may    *)
(* withdraw a packet from that: skip, clear, nilify and burn.              *)
(***************************************************************************)
EXTENDS Integers, Sequences

CONSTANTS Paths,      \* pathways packets are sent on
          LivePaths,  \* those whose receiver is an OApp that exists
          Window,     \* PENDING_INBOUND_NONCE_MAX_LEN, 256
          MaxPackets  \* bound on the packets of one pathway

VARIABLE channel  \* channel[path][nonce], a packet

Statuses == {"sent", "verified", "nilified", "delivered", "discarded"}

Packets == [amount : Nat, status : Statuses]

ChannelTypeOK == channel \in [Paths -> Seq(Packets)]

Nonces(path) == 1 .. Len(channel[path])

Init == channel = [path \in Paths |-> << >>]

\* Every nonce up to it has been verified, or withdrawn by the delegate.
InboundNonce(path) ==
    LET reached == {n \in 0 .. Len(channel[path]) :
                        \A m \in 1 .. n : channel[path][m].status # "sent"}
    IN  CHOOSE n \in reached : \A m \in reached : m <= n

Mark(path, n, status) == channel' = [channel EXCEPT ![path][n].status = status]

Is(path, n, statuses) == n \in Nonces(path) /\ channel[path][n].status \in statuses

-----------------------------------------------------------------------------
send(path, amount) ==
    /\ Len(channel[path]) < MaxPackets
    /\ channel' = [channel EXCEPT ![path] =
                       Append(@, [amount |-> amount, status |-> "sent"])]

\* A nilified packet may be verified again.
verify(path, n) ==
    /\ path \in LivePaths
    /\ Is(path, n, {"sent", "nilified"})
    /\ Mark(path, n, "verified")

\* Mutated form of execute: a delivered packet may be executed again.
execute_Replayed(path, n) ==
    /\ path \in LivePaths
    /\ Is(path, n, {"verified", "delivered"})
    /\ n <= InboundNonce(path)
    /\ Mark(path, n, "delivered")

\* The receiver executes the packet: the Endpoint's clear, in its transaction.
execute(path, n) ==
    /\ path \in LivePaths
    /\ Is(path, n, {"verified"})
    /\ n <= InboundNonce(path)
    /\ Mark(path, n, "delivered")

\* tasks/solana/endpoint/skip.ts: a nonce not yet verified is given up.  One that
\* is skipped before it is sent is taken to be skipped just after.
skip(path, n) ==
    /\ Is(path, n, {"sent"})
    /\ n > InboundNonce(path)
    /\ n <= InboundNonce(path) + Window
    /\ Mark(path, n, "discarded")

\* Mutated form of clear: takes the packet for executed.
clear_Settled(path, n) ==
    /\ Is(path, n, {"verified"})
    /\ n <= InboundNonce(path)
    /\ Mark(path, n, "delivered")

\* tasks/solana/endpoint/clear.ts: cleared without being executed.
clear(path, n) ==
    /\ Is(path, n, {"verified"})
    /\ n <= InboundNonce(path)
    /\ Mark(path, n, "discarded")

\* tasks/solana/endpoint/nilify.ts: the verification is withdrawn.
nilify(path, n) ==
    /\ Is(path, n, {"verified"})
    /\ Mark(path, n, "nilified")

\* tasks/solana/endpoint/burn.ts: withdrawn for good.
burn(path, n) ==
    /\ Is(path, n, {"verified", "nilified"})
    /\ n <= InboundNonce(path)
    /\ Mark(path, n, "discarded")

=============================================================================
