-------------------------- MODULE InFlightInventory --------------------------
(***************************************************************************)
(* The in-flight manifest: what it says of every packet of both directions *)
(* and what its parser demands of it before anybody relies on it.          *)
(* Hashes, keys, identities of the deployment and the canonical order are  *)
(* data: a set of messages has no order, a checksum binds the contents.    *)
(***************************************************************************)
EXTENDS Integers, FiniteSets, Sums, Pathway

CONSTANTS Guids,   \* LayerZero GUIDs
          Hosts,   \* protocol and host of an RPC URL
          None     \* the value of what is not there

\* What LayerZero Scan may say of a message; "OTHER" stands for the rest.
ApiStatuses == {"DELIVERED", "CONFIRMING", "INFLIGHT", "FAILED", "BLOCKED", "OTHER"}

PacketStatuses == {"in_flight", "delivered", "failed", "blocked", "unresolved"}

-----------------------------------------------------------------------------
(* Evidence and manifests. *)

\* What one chain shows of a packet: where it came from, for how much, and the
\* height of the event.
Events == [guid : Guids, from : Chains, amount : Nat, height : Nat]

\* A packet sent, and where it was received if it was.
Messages == [guid : Guids, from : Chains, amount : Nat, height : Nat,
             status : PacketStatuses, gotAt : Nat \cup {None}, api : ApiStatuses]

Unresolved(messages) == {m \in messages : m.status # "delivered"}

Total(messages, c) ==
    SumOver([m \in messages |-> m.amount], {m \in Unresolved(messages) : m.from = c})

\* The totals a manifest declares; raw[c] is what left c and has not arrived.
Summary(messages) ==
    [results |-> Cardinality(messages),
     unresolved |-> Cardinality(Unresolved(messages)),
     raw |-> [c \in Chains |-> Total(messages, c)]]

-----------------------------------------------------------------------------
(* parseInFlightInventory *)

InRange(height, r) == r.from <= height /\ height <= r.to

\* The range is whole and final to its end.
ValidRange(r) == r.from <= r.to /\ 0 < r.to /\ r.to = r.finalized

\* Mutated form of Reconciled: the two URLs may be of one host.
Reconciled_OneHost(manifest) == manifest.agreed /\ manifest.corroborated

\* Two providers at least of each chain, told apart by protocol and host.
Reconciled(manifest) ==
    /\ \A c \in Chains : Cardinality(manifest.providers[c]) >= 2
    /\ manifest.agreed
    /\ manifest.corroborated

DistinctGuids(messages) ==
    \A m, n \in messages : m.guid = n.guid => m = n

\* A delivered packet shows where it arrived, and nobody denies it.
ValidDelivered(m, ranges) ==
    /\ m.gotAt # None
    /\ InRange(m.gotAt, ranges[Other(m.from)])
    /\ m.api \in {"DELIVERED", "CONFIRMING"}

\* Any other shows no arrival, and nobody claims one.
ValidOutstanding(m) == m.gotAt = None /\ m.api # "DELIVERED"

ValidMessage(m, ranges) ==
    /\ m.amount > 0
    /\ InRange(m.height, ranges[m.from])
    /\ IF m.status = "delivered" THEN ValidDelivered(m, ranges)
                                 ELSE ValidOutstanding(m)

Parses(manifest) ==
    /\ \A c \in Chains : ValidRange(manifest.ranges[c])
    /\ Reconciled(manifest)
    /\ DistinctGuids(manifest.messages)
    /\ \A m \in manifest.messages : ValidMessage(m, manifest.ranges)
    /\ manifest.summary = Summary(manifest.messages)

=============================================================================
