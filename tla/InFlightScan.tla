---------------------------- MODULE InFlightScan ----------------------------
(***************************************************************************)
(* The scanner of packets in flight, while both chains move.  It asks two  *)
(* providers of each chain for the same range of finalized blocks, in any  *)
(* order; then LayerZero Scan for the status of every packet sent; and     *)
(* makes a manifest only if all of them tell one story.  On each chain one *)
(* host may lie: it hides or invents one event, in every answer alike.     *)
(***************************************************************************)
EXTENDS InFlightInventory

CONSTANTS SentFrom,    \* SentFrom[g], the chain g is sent from
          Amount,      \* Amount[g], what g credits, which may be nothing
          MaxHeight,   \* MaxHeight[c], bound on the height of a chain
          MaxFailed,   \* bound on failed transactions on Solana
          Requests,    \* what the operator may ask for
          Reports      \* the statuses LayerZero Scan may report

Roles == {"primary", "secondary"}

ASSUME ScanAssumption ==
    /\ IsFiniteSet(Guids)
    /\ None \notin Nat
    /\ SentFrom \in [Guids -> Chains]
    /\ Amount \in [Guids -> Nat]
    /\ Reports \subseteq ApiStatuses
    /\ \A q \in Requests :
          /\ q.from \in [Chains -> Nat] /\ q.to \in [Chains -> Nat]
          /\ q.host \in [Roles -> [Chains -> Hosts]]
          /\ q.liar \in [Chains -> Hosts \cup {None}]

VARIABLES height,    \* height[c], the finalized head of a chain
          txs,       \* txs[c], its finalized transactions that emit an event
          request,   \* what the running scan was asked, None before
          read,      \* read[role][c], what a provider answered, None before
          manifest,  \* the manifest printed, None before
          outcome    \* of the scan: idle, scanning, failed, rejected, accepted

chainVars == <<height, txs>>
scanVars == <<request, read, manifest, outcome>>
vars == <<height, txs, request, read, manifest, outcome>>

Unread == [role \in Roles |-> [c \in Chains |-> None]]

Init ==
    /\ height = [c \in Chains |-> 0]
    /\ txs = [c \in Chains |-> {}]
    /\ request = None
    /\ read = Unread
    /\ manifest = None
    /\ outcome = "idle"

-----------------------------------------------------------------------------
(* The chains. *)

Succeeded(c, name) == {t \in txs[c] : t.ok /\ t.name = name}

IsSent(g) == \E t \in Succeeded(SentFrom[g], "OFTSent") : t.guid = g
IsReceived(g) == \E t \in Succeeded(Other(SentFrom[g]), "OFTReceived") : t.guid = g

\* What may happen next on a chain.
Possible(c, name, g) ==
    \/ name = "OFTSent" /\ SentFrom[g] = c /\ ~IsSent(g)
    \/ name = "OFTReceived" /\ SentFrom[g] = Other(c) /\ IsSent(g) /\ ~IsReceived(g)

\* A failed transaction leaves its events in Solana's transaction records; on
\* the EVM it leaves no log.
Failed == {t \in txs["Solana"] : ~t.ok}

EmptyBlock(c) ==
    /\ height[c] < MaxHeight[c]
    /\ height' = [height EXCEPT ![c] = @ + 1]
    /\ UNCHANGED <<txs, scanVars>>

Block(c, name, g, ok) ==
    /\ height[c] < MaxHeight[c]
    /\ Possible(c, name, g)
    /\ ok \/ (c = "Solana" /\ Cardinality(Failed) < MaxFailed)
    /\ height' = [height EXCEPT ![c] = @ + 1]
    /\ txs' = [txs EXCEPT ![c] = @ \cup
                   {[name |-> name, guid |-> g, height |-> height[c] + 1, ok |-> ok]}]
    /\ UNCHANGED scanVars

-----------------------------------------------------------------------------
(* One provider's answer about one chain: scanSolana and scanRobinhood. *)

\* The end of the range is final on the provider asked.
requireFinalizedRangeEnd(to, head) == 0 < to /\ to <= head

\* Events of transactions without an error.
Extracted(c) == {t \in txs[c] : t.ok}

Event(t, from) == [guid |-> t.guid, from |-> from, amount |-> Amount[t.guid],
                   height |-> t.height]

\* Every event in the range, both ends included.
Scanned(c, r) ==
    LET inside == {t \in Extracted(c) : InRange(t.height, r)}
    IN  [sent |-> {Event(t, c) : t \in {u \in inside : u.name = "OFTSent"}},
         received |-> {Event(t, Other(c)) : t \in {u \in inside : u.name = "OFTReceived"}}]

\* The answer with one event hidden or invented at the end of the range.
Lies(c, r, answer) ==
    LET invented(from) ==
            {[guid |-> g, from |-> from, amount |-> Amount[g], height |-> r.to] :
                g \in {h \in Guids : SentFrom[h] = from}}
    IN  {[answer EXCEPT !.sent = @ \ {e}] : e \in answer.sent} \cup
        {[answer EXCEPT !.received = @ \ {e}] : e \in answer.received} \cup
        {[answer EXCEPT !.sent = @ \cup {e}] :
            e \in {i \in invented(c) : \A s \in answer.sent : s.guid # i.guid}} \cup
        {[answer EXCEPT !.received = @ \cup {e}] :
            e \in {i \in invented(Other(c)) : \A s \in answer.received : s.guid # i.guid}}

Asked(c) == [from |-> request.from[c], to |-> request.to[c], finalized |-> request.to[c]]

\* A lying host tells both roles the same.
Answers(role, c) ==
    LET truth == Scanned(c, Asked(c))
        host == request.host[role][c]
        told == {read[other][c] : other \in {o \in Roles : request.host[o][c] = host}} \ {None}
    IN  IF request.liar[c] # host THEN {truth}
        ELSE IF told # {} THEN told
        ELSE Lies(c, Asked(c), truth)

-----------------------------------------------------------------------------
(* buildInFlightManifest *)

Sent(role) == UNION {read[role][c].sent : c \in Chains}
Received(role) == UNION {read[role][c].received : c \in Chains}

Agree == read["primary"] = read["secondary"]

NotReplayed(received) == \A e, f \in received : e.guid = f.guid => e = f

Arrivals(s, received) == {e \in received : e.guid = s.guid}

\* Mutated form of Consistent: a delivery only the API knows of is let through.
Consistent_Trusting(s, received, api) ==
    /\ \A e \in Arrivals(s, received) : e.from = s.from /\ e.amount = s.amount
    /\ Arrivals(s, received) # {} => api \in {"DELIVERED", "CONFIRMING"}

\* Both chains say the same of a packet, and the API does not contradict them.
Consistent(s, received, api) ==
    /\ \A e \in Arrivals(s, received) : e.from = s.from /\ e.amount = s.amount
    /\ IF Arrivals(s, received) # {} THEN api \in {"DELIVERED", "CONFIRMING"}
                                     ELSE api # "DELIVERED"

\* Mutated form of NoOrphan: receives left over are ignored.
NoOrphan_Ignored(sent, received) == TRUE

\* Nothing arrived that was not sent.
NoOrphan(sent, received) == \A e \in received : \E s \in sent : s.guid = e.guid

unresolvedStatus(api) ==
    CASE api = "FAILED" -> "failed"
      [] api = "BLOCKED" -> "blocked"
      [] api \in {"INFLIGHT", "CONFIRMING"} -> "in_flight"
      [] OTHER -> "unresolved"

MessageOf(s, received, api) ==
    LET arrivals == Arrivals(s, received)
        delivered == arrivals # {}
    IN  [guid |-> s.guid, from |-> s.from, amount |-> s.amount, height |-> s.height,
         status |-> IF delivered THEN "delivered" ELSE unresolvedStatus(api),
         gotAt |-> IF delivered THEN (CHOOSE e \in arrivals : TRUE).height ELSE None,
         api |-> api]

\* What LayerZero Scan answers about the packets sent: None where it omits one.
Statuses(sent) == [{s.guid : s \in sent} -> Reports \cup {None}]

\* One story of both providers, both chains and the API.
Buildable(sent, received, statuses) ==
    /\ \A s \in sent : statuses[s.guid] # None
    /\ Agree
    /\ NotReplayed(received)
    /\ \A s \in sent : Consistent(s, received, statuses[s.guid])
    /\ NoOrphan(sent, received)

Built(sent, received, statuses) ==
    LET messages == {MessageOf(s, received, statuses[s.guid]) : s \in sent}
    IN  [ranges |-> [c \in Chains |-> Asked(c)],
         providers |-> [c \in Chains |-> {request.host[role][c] : role \in Roles}],
         agreed |-> TRUE,
         corroborated |-> TRUE,
         messages |-> messages,
         summary |-> Summary(messages)]

-----------------------------------------------------------------------------
(* scanProductionInFlight *)

Start(q) ==
    /\ outcome = "idle"
    /\ request' = q
    /\ outcome' = "scanning"
    /\ UNCHANGED <<height, txs, read, manifest>>

Answer(role, c) ==
    /\ outcome = "scanning"
    /\ read[role][c] = None
    /\ requireFinalizedRangeEnd(request.to[c], height[c])
    /\ \E answer \in Answers(role, c) :
          read' = [read EXCEPT ![role][c] = answer]
    /\ UNCHANGED <<height, txs, request, manifest, outcome>>

\* A provider is behind, has pruned its history or does not answer.
Unavailable ==
    /\ outcome = "scanning"
    /\ \E role \in Roles, c \in Chains : read[role][c] = None
    /\ outcome' = "failed"
    /\ UNCHANGED <<height, txs, request, read, manifest>>

AllRead == \A role \in Roles, c \in Chains : read[role][c] # None

Finish ==
    /\ outcome = "scanning"
    /\ AllRead
    /\ LET sent == Sent("primary")
           received == Received("primary")
       IN  \E statuses \in Statuses(sent) :
              LET built == Built(sent, received, statuses)
              IN  IF Buildable(sent, received, statuses) /\ Parses(built)
                  THEN /\ manifest' = built
                       /\ outcome' = "accepted"
                  ELSE /\ outcome' = IF Buildable(sent, received, statuses)
                                     THEN "rejected" ELSE "failed"
                       /\ UNCHANGED manifest
    /\ read' = Unread
    /\ UNCHANGED <<height, txs, request>>

Next ==
    \/ \E c \in Chains : EmptyBlock(c)
    \/ \E c \in Chains, name \in {"OFTSent", "OFTReceived"}, g \in Guids, ok \in BOOLEAN :
          Block(c, name, g, ok)
    \/ \E q \in Requests : Start(q)
    \/ \E role \in Roles, c \in Chains : Answer(role, c)
    \/ Unavailable
    \/ Finish

Spec == Init /\ [][Next]_vars

-----------------------------------------------------------------------------
(* Properties. *)

SentBy(g, c, low, high) ==
    \E t \in Succeeded(SentFrom[g], "OFTSent") :
        SentFrom[g] = c /\ t.guid = g /\ low <= t.height /\ t.height <= high

ReceivedBy(g, low, high) ==
    \E t \in Succeeded(Other(SentFrom[g]), "OFTReceived") :
        t.guid = g /\ low <= t.height /\ t.height <= high

SentWithin(g) == SentBy(g, SentFrom[g], request.from[SentFrom[g]], request.to[SentFrom[g]])

\* Sent in the range of its chain and not received in the range of the other.
InFlight(g) ==
    /\ SentWithin(g)
    /\ LET d == Other(SentFrom[g])
       IN  ~ReceivedBy(g, request.from[d], request.to[d])

\* An accepted manifest lists as outstanding exactly the packets that left one
\* chain within its range and did not arrive on the other within that, at
\* their amounts: whatever one host of each chain hides or invents, whatever
\* the API says, however late the reads, and whatever the chains did since.
ManifestIsTrueCut ==
    outcome = "accepted" =>
        {<<m.guid, m.amount>> : m \in Unresolved(manifest.messages)} =
            {<<g, Amount[g]>> : g \in {h \in Guids : InFlight(h)}}

\* What the canonical chain owes at the end of its range, less what the other
\* chain has minted at the end of its own, is what an accepted manifest counts
\* in flight, although the two ends are different moments: receives whose send
\* the cut misses are refused.  The ranges must start before the first packet.
Owed(c) == {g \in Guids : SentBy(g, c, 0, request.to[c])}
Paid(c) == {g \in Guids : SentFrom[g] = Other(c) /\ ReceivedBy(g, 0, request.to[c])}

Sum(S) == SumOver(Amount, S)

ManifestBalances ==
    outcome = "accepted" /\ (\A c \in Chains : request.from[c] <= 1) =>
        LET locked == Sum(Owed("Solana")) - Sum(Paid("Solana"))
            minted == Sum(Paid("Robinhood")) - Sum(Owed("Robinhood"))
        IN  locked = minted + manifest.summary.raw["Solana"]
                            + manifest.summary.raw["Robinhood"]

\* One host was named twice for a chain, or a range that is empty.
BadRequest ==
    \E c \in Chains : \/ request.host["primary"][c] = request.host["secondary"][c]
                      \/ request.from[c] > request.to[c]

\* What the builder makes of evidence of which all tell one story the parser
\* refuses for a bad request, or for a packet of nothing that was truly sent in
\* the range asked for: no lie, late read or answer of the API is a cause.
RejectedForCause ==
    outcome = "rejected" =>
        BadRequest \/ \E g \in Guids : Amount[g] = 0 /\ SentWithin(g)

\* The parser refuses a scan's evidence for nothing but what the evidence model
\* lists, of which a packet of nothing, as both chains let through, is none.
EvidenceParses == outcome = "rejected" => BadRequest

=============================================================================
