---------------------------- MODULE Readers_proofs ----------------------------
(***************************************************************************)
(* What the scripts that read two moving chains may conclude.  The         *)
(* configuration check, for every number of writes and of changes of       *)
(* LayerZero's defaults before, between and after its reads: what it       *)
(* accepts is in force because the application set it.  The scanner, for   *)
(* every number of packets and heights, any request and any lie of one     *)
(* host of a chain: what it accepts is the truth of the cut asked for.     *)
(* The two specifications share no variable.                               *)
(***************************************************************************)
EXTENDS LayerZeroConfig, InFlightScan, Arith_proofs

\* What has been read of a chain says of the application's own settings what
\* they still are.  What it says of LayerZero's defaults may have changed.
Faithful(c) ==
    LET o == seen[c]
        answered == DOMAIN seen[c]
    IN  /\ "sendExplicit" \in answered /\ o.sendExplicit => app[c].library["send"] # Inherited
        /\ "sendLibrary" \in answered /\ app[c].library["send"] # Inherited =>
              o.sendLibrary = app[c].library["send"]
        /\ "receiveLibrary" \in answered =>
              /\ o.receiveLibrary.explicit => app[c].library["receive"] # Inherited
              /\ app[c].library["receive"] # Inherited =>
                    o.receiveLibrary.address = app[c].library["receive"]
        /\ "rawExecutor" \in answered => o.rawExecutor = app[c].executor
        /\ "peer" \in answered => o.peer = app[c].peer
        /\ "rawSend" \in answered => o.rawSend = app[c].uln["send"]
        /\ "rawReceive" \in answered => o.rawReceive = app[c].uln["receive"]

\* A verdict is of a finished check, whose observation is kept until the next.
Judged ==
    verdict = "pass" =>
        /\ reading = "none"
        /\ \A c \in Chains : DOMAIN seen[c] = Fields /\ ValidChain(c, seen[c])

CheckInv ==
    /\ DOMAIN app = Chains /\ DOMAIN seen = Chains
    /\ reading \in Chains \cup {"none"}
    /\ reading = "Robinhood" => DOMAIN seen["Solana"] = Fields
    /\ \A c \in steady : c \in Chains /\ Faithful(c)
    /\ Judged

-----------------------------------------------------------------------------
LEMMA ConfigInitHolds == ConfigInit => CheckInv
  BY DEF ConfigInit, CheckInv, Judged

\* An application that is written to is steady no more; the others' values are
\* what they were.
LEMMA WriteStep ==
    ASSUME CheckInv, NEW c \in Chains, Write(c)
    PROVE  CheckInv'
<1>1. /\ \A d \in Chains \ {c} : app'[d] = app[d]
      /\ DOMAIN app' = Chains
      /\ steady' = steady \ {c}
      /\ UNCHANGED checkVars
  BY DEF Write, CheckInv
<1>2. ASSUME NEW d \in steady' PROVE d \in Chains /\ Faithful(d)'
  <2>1. d \in Chains /\ Faithful(d) /\ app'[d] = app[d] /\ seen' = seen
    BY <1>1, <1>2 DEF CheckInv, checkVars
  <2> QED
    BY <2>1 DEF Faithful
<1>3. Judged'
  BY <1>1 DEF CheckInv, Judged, checkVars
<1> QED
  BY <1>1, <1>2, <1>3 DEF CheckInv, checkVars

\* No default is among what the invariant mentions.
LEMMA ChangeDefaultStep ==
    ASSUME CheckInv, NEW c \in Chains, ChangeDefault(c)
    PROVE  CheckInv'
<1>1. UNCHANGED <<app, steady, checkVars>>
  BY DEF ChangeDefault
<1> QED
  BY <1>1 DEF CheckInv, Judged, Faithful, checkVars

LEMMA BeginStep ==
    ASSUME CheckInv, NEW atOnce \in BOOLEAN, NEW official \in BOOLEAN,
           Begin(atOnce, official)
    PROVE  CheckInv'
<1>1. /\ steady' = {} /\ DOMAIN seen' = Chains /\ app' = app
      /\ verdict' # "pass" /\ reading' \in {"Solana", "none"}
  BY DEF Begin, configVars
<1> QED
  BY <1>1 DEF CheckInv, Judged, Chains

\* What the calls return of the application's own settings.
LEMMA ReadableFacts ==
    ASSUME NEW c \in Chains
    PROVE  LET r == Readable(c)
           IN  /\ r["sendExplicit"] => app[c].library["send"] # Inherited
               /\ app[c].library["send"] # Inherited =>
                     r["sendLibrary"] = app[c].library["send"]
               /\ r["receiveLibrary"].explicit => app[c].library["receive"] # Inherited
               /\ app[c].library["receive"] # Inherited =>
                     r["receiveLibrary"].address = app[c].library["receive"]
               /\ r["rawExecutor"] = app[c].executor
               /\ r["peer"] = app[c].peer
               /\ r["rawSend"] = app[c].uln["send"]
               /\ r["rawReceive"] = app[c].uln["receive"]
  BY DEF Readable, Library, InForce

\* A read adds what is true now; what was read before is still true, or the
\* chain is not steady.
LEMMA ReadStep ==
    ASSUME CheckInv, Read
    PROVE  CheckInv'
<1>. DEFINE c == reading
            fields == IF pinned THEN Fields ELSE Calls(c)[NextCall(c)]
            old == seen[c]
            new == [f \in fields \cup DOMAIN old |->
                       IF f \in fields THEN Readable(c)[f] ELSE old[f]]
<1>1. /\ c \in Chains
      /\ seen' = [seen EXCEPT ![c] = new]
      /\ steady' = IF DOMAIN old = {} THEN steady \cup {c} ELSE steady
      /\ DOMAIN old # Fields
      /\ app' = app /\ reading' = reading /\ verdict' = verdict
  BY DEF Read, CheckInv, configVars
<1>2. /\ DOMAIN seen' = Chains /\ seen'[c] = new
      /\ \A d \in Chains \ {c} : seen'[d] = seen[d]
  BY <1>1 DEF CheckInv
<1>. HIDE DEF fields
<1>3. ASSUME c \in steady \/ DOMAIN old = {}
      PROVE  Faithful(c)'
  <2>. DEFINE r == Readable(c)
  <2>1. DOMAIN new = fields \cup DOMAIN old
    OBVIOUS
  <2>2. ASSUME NEW f \in DOMAIN new
        PROVE  \/ f \in fields /\ new[f] = r[f]
               \/ f \in DOMAIN old /\ new[f] = old[f]
    <3>1. CASE f \in fields
      <4>1. new[f] = r[f]
        BY <2>1, <3>1
      <4> QED
        BY <3>1, <4>1
    <3>2. CASE f \notin fields
      <4>1. f \in DOMAIN old /\ new[f] = old[f]
        BY <2>1, <2>2, <3>2
      <4> QED
        BY <4>1
    <3> QED
      BY <3>1, <3>2
  <2>3. DOMAIN old # {} => Faithful(c)
    BY <1>3 DEF CheckInv
  <2>4. /\ r["sendExplicit"] => app[c].library["send"] # Inherited
        /\ app[c].library["send"] # Inherited => r["sendLibrary"] = app[c].library["send"]
        /\ r["receiveLibrary"].explicit => app[c].library["receive"] # Inherited
        /\ app[c].library["receive"] # Inherited =>
              r["receiveLibrary"].address = app[c].library["receive"]
        /\ r["rawExecutor"] = app[c].executor
        /\ r["peer"] = app[c].peer
        /\ r["rawSend"] = app[c].uln["send"]
        /\ r["rawReceive"] = app[c].uln["receive"]
    BY <1>1, ReadableFacts
  <2>5. seen'[c'] = new /\ app'[c'] = app[c]
    BY <1>1, <1>2
  <2>. HIDE DEF new, r
  <2>6. /\ "sendExplicit" \in DOMAIN new /\ new["sendExplicit"] => app[c].library["send"] # Inherited
        /\ "sendLibrary" \in DOMAIN new /\ app[c].library["send"] # Inherited =>
              new["sendLibrary"] = app[c].library["send"]
    BY <2>2, <2>3, <2>4 DEF Faithful
  <2>7. "receiveLibrary" \in DOMAIN new =>
           /\ new["receiveLibrary"].explicit => app[c].library["receive"] # Inherited
           /\ app[c].library["receive"] # Inherited =>
                 new["receiveLibrary"].address = app[c].library["receive"]
    BY <2>2, <2>3, <2>4 DEF Faithful
  <2>8. /\ "rawExecutor" \in DOMAIN new => new["rawExecutor"] = app[c].executor
        /\ "peer" \in DOMAIN new => new["peer"] = app[c].peer
        /\ "rawSend" \in DOMAIN new => new["rawSend"] = app[c].uln["send"]
        /\ "rawReceive" \in DOMAIN new => new["rawReceive"] = app[c].uln["receive"]
    BY <2>2, <2>3, <2>4 DEF Faithful
  <2> QED
    BY <2>5, <2>6, <2>7, <2>8 DEF Faithful
<1>. HIDE DEF new
<1>4. ASSUME NEW d \in steady' PROVE d \in Chains /\ Faithful(d)'
  <2>1. CASE d = c
    BY <1>1, <1>3, <1>4, <2>1
  <2>2. CASE d # c
    <3>1. d \in Chains /\ Faithful(d) /\ seen'[d] = seen[d] /\ app' = app
      BY <1>1, <1>2, <1>4, <2>2 DEF CheckInv
    <3> QED
      BY <3>1 DEF Faithful
  <2> QED
    BY <2>1, <2>2
<1>5. verdict' # "pass"
  BY <1>1 DEF CheckInv, Judged, Chains
<1> QED
  BY <1>1, <1>2, <1>4, <1>5 DEF CheckInv, Judged, Chains

LEMMA ProceedStep ==
    ASSUME CheckInv, Proceed
    PROVE  CheckInv'
<1>1. UNCHANGED <<app, seen, steady>> /\ DOMAIN seen[reading] = Fields /\ reading \in Chains
  BY DEF Proceed, configVars, CheckInv
<1>2. \A c \in steady : Faithful(c)' = Faithful(c)
  BY <1>1 DEF Faithful
<1>3. CASE reading = "Solana"
  BY <1>1, <1>2, <1>3 DEF Proceed, CheckInv, Judged, Chains
<1>4. CASE reading = "Robinhood"
  <2>1. \A c \in Chains : DOMAIN seen[c] = Fields
    BY <1>1, <1>4 DEF CheckInv, Chains
  <2>2. /\ reading' = "none"
        /\ verdict' = "pass" => \A c \in Chains : ValidChain(c, seen[c])
    BY <1>4 DEF Proceed
  <2>3. Judged'
    BY <1>1, <2>1, <2>2 DEF Judged
  <2> QED
    BY <1>1, <1>2, <2>2, <2>3 DEF CheckInv
<1> QED
  BY <1>1, <1>3, <1>4 DEF Chains

LEMMA ConfigStepHolds == CheckInv /\ [ConfigNext]_allVars => CheckInv'
<1>. SUFFICES ASSUME CheckInv, [ConfigNext]_allVars PROVE CheckInv'
  OBVIOUS
<1>1. CASE UNCHANGED allVars
  BY <1>1 DEF allVars, configVars, checkVars, CheckInv, Judged, Faithful
<1> QED
  BY <1>1, WriteStep, ChangeDefaultStep, BeginStep, ReadStep, ProceedStep DEF ConfigNext

-----------------------------------------------------------------------------
\* Values read as explicitly set, and right, are in force by themselves.
LEMMA AcceptedIsInForce ==
    ASSUME CheckInv, verdict = "pass", NEW c \in steady
    PROVE  c \in Chains /\ ConfigInForce(c) = Policy(c)
<1>. DEFINE o == seen[c]
            a == app[c]
<1>1. c \in Chains /\ Faithful(c) /\ DOMAIN o = Fields /\ ValidChain(c, o)
  BY DEF CheckInv, Judged
<1>2. \A side \in Sides : PolicyConfirmations(c, side) \in Nat \ {0}
  BY <1>1, ConfirmationsAssumption DEF PolicyConfirmations, Chains, Other, Sides
<1>3. a.library["send"] = "policy" /\ a.library["receive"] = "policy"
  BY <1>1 DEF Faithful, ValidChain, Fields
<1>4. a.executor = "policy" /\ a.peer = "policy"
  BY <1>1 DEF Faithful, ValidChain, Fields
<1>5. /\ a.uln["send"].required = "none" /\ a.uln["send"].optional = "policy"
      /\ a.uln["send"].confirmations = PolicyConfirmations(c, "send")
  BY <1>1 DEF Faithful, ValidChain, ValidUln, Explicit, Fields
<1>6. /\ a.uln["receive"].required = "none" /\ a.uln["receive"].optional = "policy"
      /\ a.uln["receive"].confirmations = PolicyConfirmations(c, "receive")
  BY <1>1 DEF Faithful, ValidChain, ValidUln, Explicit, Fields
<1>. HIDE DEF a, o
<1>7. \A side \in Sides : Library(c, side) = "policy"
  BY <1>3 DEF Sides, Library, InForce, Inherited, a
<1>8. \A side \in Sides :
        UlnInForce(Library(c, side), a.uln[side], default[c].uln[side])
          = [confirmations |-> PolicyConfirmations(c, side),
             required |-> "none", optional |-> "policy"]
  BY <1>2, <1>5, <1>6, <1>7 DEF Sides, UlnInForce, InForce, Inherited
<1>9. InForce(a.executor, default[c].executor) = "policy"
  BY <1>4 DEF InForce, Inherited
<1> QED
  BY <1>1, <1>4, <1>7, <1>8, <1>9 DEF ConfigInForce, Policy, a

\* A configuration the check accepted stays the policy's in force whatever
\* LayerZero does to its defaults, until the application is written to
\* (validateProductionLayerZeroPolicy, checkLayerZeroConfig.ts).
THEOREM AcceptedAlwaysInForce == ConfigSpec => []AcceptedStaysInForce
<1>1. CheckInv => AcceptedStaysInForce
  BY AcceptedIsInForce DEF AcceptedStaysInForce
<1> QED
  BY ConfigInitHolds, ConfigStepHolds, <1>1, PTL DEF ConfigSpec

\* Once both chains are accepted a packet's source waits for the confirmations
\* its destination asks for (layerZeroConfigPolicy.ts).
THEOREM AcceptedAlwaysVerify == ConfigSpec => []AcceptedPathwaysVerify
<1>1. CheckInv => AcceptedPathwaysVerify
  <2>1. SUFFICES ASSUME CheckInv, verdict = "pass", steady = Chains, NEW c \in Chains
                 PROVE  ConfigInForce(c).uln["send"].confirmations
                          >= ConfigInForce(Other(c)).uln["receive"].confirmations
    BY DEF AcceptedPathwaysVerify
  <2>2. Other(c) \in Chains /\ Other(Other(c)) = c
    BY DEF Other, Chains
  <2>3. ConfigInForce(c) = Policy(c) /\ ConfigInForce(Other(c)) = Policy(Other(c))
    BY <2>1, <2>2, AcceptedIsInForce
  <2>4. /\ Policy(c).uln["send"].confirmations = SourceConfirmations[c]
        /\ Policy(Other(c)).uln["receive"].confirmations = SourceConfirmations[c]
    BY <2>2 DEF Policy, Sides, PolicyConfirmations
  <2>5. SourceConfirmations[c] \in Nat
    BY ConfirmationsAssumption
  <2> QED
    BY <2>3, <2>4, <2>5
<1> QED
  BY ConfigInitHolds, ConfigStepHolds, <1>1, PTL DEF ConfigSpec

-----------------------------------------------------------------------------
\* The scanner.

Names == {"OFTSent", "OFTReceived"}

\* Every transaction is of its chain and dated, and succeeds once.
ChainsInv ==
    /\ height \in [Chains -> Nat] /\ DOMAIN txs = Chains
    /\ \A c \in Chains : \A t \in txs[c] :
          /\ t.name \in Names /\ t.guid \in Guids
          /\ t.height \in 1 .. height[c]
          /\ SentFrom[t.guid] = (IF t.name = "OFTSent" THEN c ELSE Other(c))
    /\ \A c \in Chains : \A t, u \in txs[c] :
          t.ok /\ u.ok /\ t.name = u.name /\ t.guid = u.guid => t = u

\* What honest providers of both chains show of the ranges asked for.
Truth(c) == Scanned(c, Asked(c))
TrulySent == UNION {Truth(c).sent : c \in Chains}
TrulyReceived == UNION {Truth(c).received : c \in Chains}

Final(c) == 0 < request.to[c] /\ request.to[c] <= height[c]

\* An honest answer is true of the chain, then and later.
ReadsInv ==
    /\ outcome = "idle" => read = Unread
    /\ outcome # "idle" => request \in Requests
    /\ outcome = "scanning" =>
          /\ DOMAIN read = Roles /\ \A role \in Roles : DOMAIN read[role] = Chains
          /\ \A role \in Roles, c \in Chains : read[role][c] # None =>
                /\ Final(c)
                /\ request.liar[c] # request.host[role][c] => read[role][c] = Truth(c)

\* A packet of the ranges that the manifest must not hold for delivered.
TrulyOwed == {s \in TrulySent : Arrivals(s, TrulyReceived) = {}}

\* Which packets, from where and for how much, evidence or messages are of.
Projected(set) == {[guid |-> m.guid, from |-> m.from, amount |-> m.amount] : m \in set}

\* What was accepted is of the two chains as they are to the ends of the ranges.
AcceptedInv ==
    outcome = "accepted" =>
        /\ \A c \in Chains : Final(c)
        /\ NoOrphan(TrulySent, TrulyReceived)
        /\ Projected(Unresolved(manifest.messages)) = Projected(TrulyOwed)
        /\ DistinctGuids(manifest.messages)
        /\ manifest.summary = Summary(manifest.messages)

ScanInv == ChainsInv /\ ReadsInv /\ AcceptedInv /\ RejectedForCause

-----------------------------------------------------------------------------
(* The chains. *)

LEMMA ChainsKept ==
    ASSUME ChainsInv, [Next]_vars
    PROVE  /\ ChainsInv'
           /\ \A c \in Chains : height[c] <= height'[c]
           /\ \A c \in Chains : txs[c] \subseteq txs'[c]
           /\ \A c \in Chains : \A t \in txs'[c] : t \in txs[c] \/ t.height > height[c]
<1>1. CASE UNCHANGED chainVars
  BY <1>1 DEF chainVars, ChainsInv
<1>2. ASSUME NEW c \in Chains, EmptyBlock(c)
      PROVE  /\ ChainsInv'
             /\ \A d \in Chains : height[d] <= height'[d] /\ txs'[d] = txs[d]
  BY <1>2 DEF EmptyBlock, ChainsInv
<1>3. ASSUME NEW c \in Chains, NEW name \in Names, NEW g \in Guids, NEW ok \in BOOLEAN,
             Block(c, name, g, ok)
      PROVE  /\ ChainsInv'
             /\ \A d \in Chains : height[d] <= height'[d] /\ txs[d] \subseteq txs'[d]
             /\ \A d \in Chains : \A t \in txs'[d] : t \in txs[d] \/ t.height > height[d]
  <2>. DEFINE new == [name |-> name, guid |-> g, height |-> height[c] + 1, ok |-> ok]
  <2>1. /\ height' \in [Chains -> Nat] /\ DOMAIN txs' = Chains
        /\ height'[c] = height[c] + 1 /\ txs'[c] = txs[c] \cup {new}
        /\ \A d \in Chains \ {c} : height'[d] = height[d] /\ txs'[d] = txs[d]
    BY <1>3 DEF Block, ChainsInv
  <2>2. /\ height[c] \in Nat
        /\ SentFrom[g] = (IF name = "OFTSent" THEN c ELSE Other(c))
        /\ \A t \in txs[c] : ~(t.ok /\ t.name = name /\ t.guid = g)
    BY <1>3 DEF Block, Possible, IsSent, IsReceived, Succeeded, ChainsInv, Names, Other,
                Chains
  <2>3. /\ new.name = name /\ new.guid = g /\ new.height = height[c] + 1 /\ new.ok = ok
        /\ new.height \in 1 .. height'[c] /\ new.height > height[c]
    BY <2>1, <2>2
  <2> HIDE DEF new
  <2>4. ASSUME NEW d \in Chains, NEW t \in txs'[d]
        PROVE  /\ t.name \in Names /\ t.guid \in Guids
               /\ t.height \in 1 .. height'[d]
               /\ SentFrom[t.guid] = (IF t.name = "OFTSent" THEN d ELSE Other(d))
    <3>1. CASE t \in txs[d]
      <4>1. t.height \in 1 .. height[d] /\ height[d] \in Nat /\ height'[d] \in Nat
            /\ height[d] <= height'[d]
        BY <2>1, <3>1 DEF ChainsInv
      <4>2. t.height \in 1 .. height'[d]
        BY <4>1
      <4> QED
        BY <3>1, <4>2 DEF ChainsInv
    <3>2. CASE d = c /\ t = new
      BY <2>2, <2>3, <3>2
    <3> QED
      BY <2>1, <3>1, <3>2
  <2>5. ASSUME NEW d \in Chains, NEW t \in txs'[d], NEW u \in txs'[d],
               t.ok, u.ok, t.name = u.name, t.guid = u.guid
        PROVE  t = u
    BY <2>1, <2>2, <2>3, <2>5 DEF ChainsInv
  <2> QED
    BY <2>1, <2>3, <2>4, <2>5 DEF ChainsInv
<1>4. CASE Unavailable \/ Finish \/ (\E q \in Requests : Start(q))
           \/ (\E role \in Roles, c \in Chains : Answer(role, c)) \/ UNCHANGED vars
  BY <1>1, <1>4 DEF Unavailable, Finish, Start, Answer, chainVars, vars
<1> QED
  BY <1>2, <1>3, <1>4 DEF Next, Names

LEMMA TruthOf ==
    ASSUME NEW c \in Chains
    PROVE  /\ \A e : e \in Truth(c).sent <=>
                 \E t \in txs[c] : /\ t.ok /\ t.name = "OFTSent" /\ InRange(t.height, Asked(c))
                                   /\ e = Event(t, c)
           /\ \A e : e \in Truth(c).received <=>
                 \E t \in txs[c] : /\ t.ok /\ t.name = "OFTReceived"
                                   /\ InRange(t.height, Asked(c)) /\ e = Event(t, Other(c))
BY DEF Truth, Scanned, Extracted

\* A final range shows the same for ever.
LEMMA TruthKept ==
    ASSUME ChainsInv, [Next]_vars, request \in Requests, UNCHANGED request,
           NEW c \in Chains, Final(c)
    PROVE  Truth(c)' = Truth(c) /\ Final(c)'
<1>1. request.to \in [Chains -> Nat] /\ request.from \in [Chains -> Nat]
  BY ScanAssumption
<1>2. /\ ChainsInv' /\ height[c] <= height'[c] /\ txs[c] \subseteq txs'[c]
      /\ \A t \in txs'[c] : t \in txs[c] \/ t.height > height[c]
  BY ChainsKept
<1>3. /\ request.to[c] \in Nat /\ height[c] \in Nat /\ height'[c] \in Nat
      /\ \A t \in txs'[c] : t.height \in Nat
  BY <1>1, <1>2 DEF ChainsInv
<1>4. Final(c)'
  BY <1>2, <1>3 DEF Final
<1>5. Asked(c)' = Asked(c) /\ Asked(c).to = request.to[c]
  BY DEF Asked
<1>6. {t \in Extracted(c) : InRange(t.height, Asked(c))}'
          = {t \in Extracted(c) : InRange(t.height, Asked(c))}
  BY <1>2, <1>3, <1>5 DEF Extracted, InRange, Final
<1>7. Truth(c)' = Truth(c)
  BY <1>5, <1>6 DEF Truth, Scanned, Event
<1> QED
  BY <1>4, <1>7

\* So does the evidence of both chains.
LEMMA EvidenceKept ==
    ASSUME ChainsInv, [Next]_vars, request \in Requests, UNCHANGED request,
           \A c \in Chains : Final(c)
    PROVE  /\ \A c \in Chains : Final(c)'
           /\ TrulySent' = TrulySent /\ TrulyReceived' = TrulyReceived
<1>1. \A c \in Chains : Truth(c)' = Truth(c) /\ Final(c)'
  BY TruthKept
<1> QED
  BY <1>1 DEF TrulySent, TrulyReceived

-----------------------------------------------------------------------------
(* What true evidence is like. *)

LEMMA EvidenceOf ==
    ASSUME ChainsInv
    PROVE  /\ \A e \in TrulySent :
                 /\ e.guid \in Guids /\ e.from \in Chains /\ SentFrom[e.guid] = e.from
                 /\ e.amount = Amount[e.guid] /\ InRange(e.height, Asked(e.from))
                 /\ e.height \in Nat /\ e.height > 0
                 /\ \E t \in txs[e.from] : /\ t.ok /\ t.name = "OFTSent"
                                           /\ t.guid = e.guid /\ t.height = e.height
           /\ \A e \in TrulyReceived :
                 /\ e.guid \in Guids /\ e.from \in Chains /\ SentFrom[e.guid] = e.from
                 /\ e.amount = Amount[e.guid] /\ InRange(e.height, Asked(Other(e.from)))
                 /\ e.height \in Nat /\ e.height > 0
                 /\ \E t \in txs[Other(e.from)] : /\ t.ok /\ t.name = "OFTReceived"
                                                  /\ t.guid = e.guid /\ t.height = e.height
<1>1. ASSUME NEW c \in Chains, NEW t \in txs[c]
      PROVE  /\ t.guid \in Guids /\ t.height \in Nat /\ t.height > 0
             /\ t.name = "OFTSent" => SentFrom[t.guid] = c
             /\ t.name = "OFTReceived" => SentFrom[t.guid] = Other(c)
  BY <1>1 DEF ChainsInv
<1>2. \A c \in Chains : Other(c) \in Chains /\ Other(Other(c)) = c
  BY DEF Chains, Other
<1>3. ASSUME NEW t, NEW from
      PROVE  /\ Event(t, from).guid = t.guid /\ Event(t, from).from = from
             /\ Event(t, from).amount = Amount[t.guid]
             /\ Event(t, from).height = t.height
  BY DEF Event
<1>4. ASSUME NEW e \in TrulySent
      PROVE  \E c \in Chains : \E t \in txs[c] :
                 /\ t.ok /\ t.name = "OFTSent" /\ InRange(t.height, Asked(c))
                 /\ e = Event(t, c)
  BY TruthOf DEF TrulySent
<1>5. ASSUME NEW e \in TrulyReceived
      PROVE  \E c \in Chains : \E t \in txs[c] :
                 /\ t.ok /\ t.name = "OFTReceived" /\ InRange(t.height, Asked(c))
                 /\ e = Event(t, Other(c))
  BY TruthOf DEF TrulyReceived
<1> QED
  BY <1>1, <1>2, <1>3, <1>4, <1>5

\* One send and at most one receive of a packet.
LEMMA EvidenceUnique ==
    ASSUME ChainsInv
    PROVE  /\ \A e, f \in TrulySent : e.guid = f.guid => e = f
           /\ \A e, f \in TrulyReceived : e.guid = f.guid => e = f
<1>1. \A c \in Chains : \A t, u \in txs[c] :
          t.ok /\ u.ok /\ t.name = u.name /\ t.guid = u.guid => t = u
  BY DEF ChainsInv
<1>2. \A c, d \in Chains : Other(c) \in Chains /\ Other(Other(c)) = c
                           /\ (Other(c) = Other(d) => c = d)
  BY DEF Chains, Other
<1>3. \A c \in Chains : \A t \in txs[c] :
          SentFrom[t.guid] = (IF t.name = "OFTSent" THEN c ELSE Other(c))
  BY DEF ChainsInv
<1>4. ASSUME NEW e \in TrulySent, NEW f \in TrulySent, e.guid = f.guid PROVE e = f
  <2>1. PICK c \in Chains : \E t \in txs[c] : t.ok /\ t.name = "OFTSent" /\ e = Event(t, c)
    BY TruthOf DEF TrulySent
  <2>2. PICK t \in txs[c] : t.ok /\ t.name = "OFTSent" /\ e = Event(t, c)
    BY <2>1
  <2>3. PICK d \in Chains : \E u \in txs[d] : u.ok /\ u.name = "OFTSent" /\ f = Event(u, d)
    BY TruthOf DEF TrulySent
  <2>4. PICK u \in txs[d] : u.ok /\ u.name = "OFTSent" /\ f = Event(u, d)
    BY <2>3
  <2>5. t.guid = u.guid
    BY <1>4, <2>2, <2>4 DEF Event
  <2>6. c = d
    BY <1>3, <2>2, <2>4, <2>5
  <2>7. t = u
    BY <1>1, <2>2, <2>4, <2>5, <2>6
  <2> QED
    BY <2>2, <2>4, <2>6, <2>7
<1>5. ASSUME NEW e \in TrulyReceived, NEW f \in TrulyReceived, e.guid = f.guid PROVE e = f
  <2>1. PICK c \in Chains : \E t \in txs[c] : t.ok /\ t.name = "OFTReceived" /\ e = Event(t, Other(c))
    BY TruthOf DEF TrulyReceived
  <2>2. PICK t \in txs[c] : t.ok /\ t.name = "OFTReceived" /\ e = Event(t, Other(c))
    BY <2>1
  <2>3. PICK d \in Chains : \E u \in txs[d] : u.ok /\ u.name = "OFTReceived" /\ f = Event(u, Other(d))
    BY TruthOf DEF TrulyReceived
  <2>4. PICK u \in txs[d] : u.ok /\ u.name = "OFTReceived" /\ f = Event(u, Other(d))
    BY <2>3
  <2>5. t.guid = u.guid
    BY <1>5, <2>2, <2>4 DEF Event
  <2>6. c = d
    BY <1>2, <1>3, <2>2, <2>4, <2>5
  <2>7. t = u
    BY <1>1, <2>2, <2>4, <2>5, <2>6
  <2> QED
    BY <2>2, <2>4, <2>6, <2>7
<1> QED
  BY <1>4, <1>5

-----------------------------------------------------------------------------
(* The manifest that is made of it. *)

LEMMA MessageMade ==
    ASSUME NEW s, NEW received, NEW api
    PROVE  LET m == MessageOf(s, received, api)
           IN  /\ m.guid = s.guid /\ m.from = s.from /\ m.amount = s.amount
               /\ m.height = s.height /\ m.api = api
               /\ IF Arrivals(s, received) = {} THEN m.status # "delivered" /\ m.gotAt = None
                  ELSE /\ m.status = "delivered"
                       /\ \E e \in Arrivals(s, received) : m.gotAt = e.height
<1>1. unresolvedStatus(api) # "delivered"
  BY DEF unresolvedStatus
<1>2. Arrivals(s, received) # {} =>
          (CHOOSE e \in Arrivals(s, received) : TRUE) \in Arrivals(s, received)
  OBVIOUS
<1> QED
  BY <1>1, <1>2 DEF MessageOf

MessagesOf(sent, received, statuses) ==
    {MessageOf(s, received, statuses[s.guid]) : s \in sent}

LEMMA TruthMakesMessages ==
    ASSUME ChainsInv, NEW statuses
    PROVE  LET messages == MessagesOf(TrulySent, TrulyReceived, statuses)
           IN  /\ DistinctGuids(messages)
               /\ Projected(Unresolved(messages)) = Projected(TrulyOwed)
<1>. DEFINE made(s) == MessageOf(s, TrulyReceived, statuses[s.guid])
            messages == MessagesOf(TrulySent, TrulyReceived, statuses)
<1>1. \A s \in TrulySent :
          /\ made(s).guid = s.guid /\ made(s).from = s.from /\ made(s).amount = s.amount
          /\ made(s).status # "delivered" <=> Arrivals(s, TrulyReceived) = {}
  BY MessageMade
<1>2. \A m : m \in messages <=> \E s \in TrulySent : m = made(s)
  BY DEF MessagesOf
<1>3. ASSUME NEW m \in messages, NEW n \in messages, m.guid = n.guid
      PROVE  m = n
  <2>1. PICK s \in TrulySent : m = made(s)
    BY <1>2
  <2>2. PICK r \in TrulySent : n = made(r)
    BY <1>2
  <2>3. s.guid = r.guid
    BY <1>1, <1>3, <2>1, <2>2
  <2>4. s = r
    BY <2>3, EvidenceUnique
  <2> QED
    BY <2>1, <2>2, <2>4
<1>4. \A m : m \in Unresolved(messages) <=> \E s \in TrulyOwed : m = made(s)
  BY <1>1, <1>2 DEF Unresolved, TrulyOwed
<1>5. \A s \in TrulyOwed : s \in TrulySent
  BY DEF TrulyOwed
<1> HIDE DEF made, messages
<1>6. Projected(Unresolved(messages)) = Projected(TrulyOwed)
  BY <1>1, <1>4, <1>5 DEF Projected
<1>7. DistinctGuids(messages)
  BY <1>3 DEF DistinctGuids
<1> QED
  BY <1>6, <1>7 DEF messages

LEMMA TwoOfThem ==
    ASSUME NEW a, NEW b
    PROVE  Cardinality({a, b}) = (IF a = b THEN 1 ELSE 2)
<1>1. IsFiniteSet({b}) /\ Cardinality({b}) = 1
  BY FS_Singleton
<1>2. {a, b} = {b} \cup {a}
  OBVIOUS
<1>3. Cardinality({b} \cup {a}) = IF a \in {b} THEN 1 ELSE 2
  BY <1>1, FS_AddElement
<1> QED
  BY <1>2, <1>3

\* What the two chains show in the ranges asked for is their evidence.
LEMMA SeenIsSent ==
    ASSUME ChainsInv, NEW g \in Guids
    PROVE  /\ SentBy(g, SentFrom[g], request.from[SentFrom[g]], request.to[SentFrom[g]])
                 <=> \E e \in TrulySent : e.guid = g
           /\ ReceivedBy(g, request.from[Other(SentFrom[g])], request.to[Other(SentFrom[g])])
                 <=> \E e \in TrulyReceived : e.guid = g
<1>1. SentFrom[g] \in Chains /\ Other(SentFrom[g]) \in Chains
      /\ Other(Other(SentFrom[g])) = SentFrom[g]
  BY ScanAssumption DEF Chains, Other
<1>2. \A c \in Chains : Asked(c).from = request.from[c] /\ Asked(c).to = request.to[c]
  BY DEF Asked
<1>3. ASSUME NEW e \in TrulySent, e.guid = g
      PROVE  SentBy(g, SentFrom[g], request.from[SentFrom[g]], request.to[SentFrom[g]])
  BY <1>2, <1>3, EvidenceOf DEF SentBy, Succeeded, InRange
<1>4. ASSUME SentBy(g, SentFrom[g], request.from[SentFrom[g]], request.to[SentFrom[g]])
      PROVE  \E e \in TrulySent : e.guid = g
  <2>1. PICK t \in txs[SentFrom[g]] :
          /\ t.ok /\ t.name = "OFTSent" /\ t.guid = g
          /\ InRange(t.height, Asked(SentFrom[g]))
    BY <1>1, <1>2, <1>4 DEF SentBy, Succeeded, InRange
  <2>2. Event(t, SentFrom[g]) \in Truth(SentFrom[g]).sent
    BY <1>1, <2>1, TruthOf
  <2>3. Event(t, SentFrom[g]).guid = g
    BY <2>1 DEF Event
  <2> QED
    BY <1>1, <2>2, <2>3 DEF TrulySent
<1>5. ASSUME NEW e \in TrulyReceived, e.guid = g
      PROVE  ReceivedBy(g, request.from[Other(SentFrom[g])], request.to[Other(SentFrom[g])])
  <2>1. e.from = SentFrom[g] /\ InRange(e.height, Asked(Other(SentFrom[g])))
    BY <1>5, EvidenceOf
  <2>2. PICK t \in txs[Other(SentFrom[g])] :
          t.ok /\ t.name = "OFTReceived" /\ t.guid = g /\ t.height = e.height
    BY <1>5, <2>1, EvidenceOf
  <2> QED
    BY <1>1, <1>2, <2>1, <2>2 DEF ReceivedBy, Succeeded, InRange
<1>6. ASSUME ReceivedBy(g, request.from[Other(SentFrom[g])], request.to[Other(SentFrom[g])])
      PROVE  \E e \in TrulyReceived : e.guid = g
  <2>1. PICK t \in txs[Other(SentFrom[g])] :
          /\ t.ok /\ t.name = "OFTReceived" /\ t.guid = g
          /\ InRange(t.height, Asked(Other(SentFrom[g])))
    BY <1>1, <1>2, <1>6 DEF ReceivedBy, Succeeded, InRange
  <2>2. Event(t, Other(Other(SentFrom[g]))) \in Truth(Other(SentFrom[g])).received
    BY <1>1, <2>1, TruthOf
  <2>3. Event(t, Other(Other(SentFrom[g]))).guid = g
    BY <2>1 DEF Event
  <2> QED
    BY <1>1, <2>2, <2>3 DEF TrulyReceived
<1> QED
  BY <1>3, <1>4, <1>5, <1>6

\* Two providers are two hosts only if they are named apart.
LEMMA TwoHostsNeeded ==
    ASSUME NEW sent, NEW received, NEW statuses, NEW c \in Chains
    PROVE  Cardinality(Built(sent, received, statuses).providers[c]) >= 2 <=>
               request.host["primary"][c] # request.host["secondary"][c]
<1>1. Built(sent, received, statuses).providers[c]
          = {request.host["primary"][c], request.host["secondary"][c]}
  BY DEF Built, Roles
<1>. DEFINE a == request.host["primary"][c]
            b == request.host["secondary"][c]
<1>2. Cardinality({a, b}) >= 2 <=> a # b
  <2> HIDE DEF a, b
  <2>1. Cardinality({a, b}) = (IF a = b THEN 1 ELSE 2)
    BY TwoOfThem
  <2> QED
    BY <2>1
<1> QED
  BY <1>1, <1>2

\* The parser accepts what true evidence of packets that credit something, and
\* two hosts, make.
LEMMA TruthParses ==
    ASSUME ChainsInv, request \in Requests, \A c \in Chains : Final(c),
           \A s \in TrulySent : s.amount > 0,
           \A c \in Chains : request.from[c] <= request.to[c],
           \A c \in Chains : request.host["primary"][c] # request.host["secondary"][c],
           NEW statuses \in Statuses(TrulySent),
           Buildable(TrulySent, TrulyReceived, statuses)
    PROVE  Parses(Built(TrulySent, TrulyReceived, statuses))
<1>. DEFINE built == Built(TrulySent, TrulyReceived, statuses)
            messages == MessagesOf(TrulySent, TrulyReceived, statuses)
<1>1. /\ built.messages = messages /\ built.summary = Summary(messages)
      /\ built.agreed /\ built.corroborated
      /\ \A c \in Chains : built.ranges[c] = Asked(c)
  BY DEF Built, MessagesOf
<1>2. ASSUME NEW c \in Chains PROVE ValidRange(built.ranges[c])
  <2>1. /\ Asked(c).from = request.from[c] /\ Asked(c).to = request.to[c]
        /\ Asked(c).finalized = request.to[c]
    BY DEF Asked
  <2>2. built.ranges[c] = Asked(c)
    BY <1>1
  <2>3. request.from[c] <= request.to[c] /\ 0 < request.to[c]
    BY DEF Final
  <2> QED
    BY <2>1, <2>2, <2>3 DEF ValidRange
<1>3. Reconciled(built)
  BY <1>1, TwoHostsNeeded DEF Reconciled
<1>4. ASSUME NEW m \in messages
      PROVE  ValidMessage(m, built.ranges)
  <2>1. PICK s \in TrulySent : m = MessageOf(s, TrulyReceived, statuses[s.guid])
    BY DEF MessagesOf
  <2>2. /\ m.from = s.from /\ m.amount = s.amount /\ m.height = s.height
        /\ m.api = statuses[s.guid]
        /\ IF Arrivals(s, TrulyReceived) = {} THEN m.status # "delivered" /\ m.gotAt = None
           ELSE /\ m.status = "delivered"
                /\ \E e \in Arrivals(s, TrulyReceived) : m.gotAt = e.height
    BY <2>1, MessageMade
  <2>3. /\ s.from \in Chains /\ s.guid \in Guids /\ s.amount = Amount[s.guid]
        /\ SentFrom[s.guid] = s.from
        /\ InRange(s.height, Asked(s.from))
    BY EvidenceOf
  <2>4. m.amount > 0
    BY <2>2
  <2>5. InRange(m.height, built.ranges[m.from])
    BY <1>1, <2>2, <2>3
  <2>6. Consistent(s, TrulyReceived, statuses[s.guid])
    BY DEF Buildable
  <2>7. CASE Arrivals(s, TrulyReceived) = {}
    BY <2>2, <2>4, <2>5, <2>6, <2>7 DEF ValidMessage, ValidOutstanding, Consistent
  <2>8. CASE Arrivals(s, TrulyReceived) # {}
    <3>1. PICK e \in Arrivals(s, TrulyReceived) : m.gotAt = e.height
      BY <2>2, <2>8
    <3>2. /\ e.from = s.from /\ InRange(e.height, Asked(Other(e.from))) /\ e.height \in Nat
      BY <2>3, EvidenceOf DEF Arrivals
    <3>3. Other(s.from) \in Chains
      BY <2>3 DEF Chains, Other
    <3>4. ValidDelivered(m, built.ranges)
      BY <1>1, <2>2, <2>6, <2>8, <3>1, <3>2, <3>3, ScanAssumption DEF ValidDelivered, Consistent
    <3> QED
      BY <2>2, <2>4, <2>5, <2>8, <3>4 DEF ValidMessage
  <2> QED
    BY <2>7, <2>8
<1>5. DistinctGuids(messages)
  BY TruthMakesMessages
<1> QED
  BY <1>1, <1>2, <1>3, <1>4, <1>5 DEF Parses

-----------------------------------------------------------------------------
(* The steps. *)

LEMMA HonestAnswers ==
    ASSUME ReadsInv, outcome = "scanning", AllRead
    PROVE  /\ request \in Requests /\ \A c \in Chains : Final(c)
           /\ Agree /\ (\A c \in Chains : request.host["primary"][c] # request.host["secondary"][c])
                 => Sent("primary") = TrulySent /\ Received("primary") = TrulyReceived
<1>1. /\ request \in Requests
      /\ \A role \in Roles, c \in Chains :
            /\ Final(c)
            /\ request.liar[c] # request.host[role][c] => read[role][c] = Truth(c)
  BY DEF ReadsInv, AllRead
<1>2. \A c \in Chains : Final(c)
  BY <1>1 DEF Roles
<1>3. ASSUME Agree, \A c \in Chains : request.host["primary"][c] # request.host["secondary"][c]
      PROVE  Sent("primary") = TrulySent /\ Received("primary") = TrulyReceived
  <2>1. \A c \in Chains : read["primary"][c] = Truth(c)
    BY <1>1, <1>3 DEF Agree, Roles
  <2> QED
    BY <2>1 DEF Sent, Received, TrulySent, TrulyReceived
<1> QED
  BY <1>1, <1>2, <1>3

LEMMA FinishStep ==
    ASSUME ScanInv, Finish
    PROVE  ReadsInv' /\ AcceptedInv' /\ RejectedForCause'
<1>1. /\ outcome = "scanning" /\ AllRead /\ read' = Unread /\ UNCHANGED <<height, txs, request>>
      /\ ChainsInv /\ ReadsInv
  BY DEF Finish, ScanInv
<1>2. PICK statuses \in Statuses(Sent("primary")) :
        LET built == Built(Sent("primary"), Received("primary"), statuses)
            buildable == Buildable(Sent("primary"), Received("primary"), statuses)
        IN  IF buildable /\ Parses(built) THEN manifest' = built /\ outcome' = "accepted"
            ELSE outcome' = (IF buildable THEN "rejected" ELSE "failed")
  BY DEF Finish
<1>. DEFINE built == Built(Sent("primary"), Received("primary"), statuses)
            buildable == Buildable(Sent("primary"), Received("primary"), statuses)
            apart == \A c \in Chains : request.host["primary"][c] # request.host["secondary"][c]
<1>3. request \in Requests /\ \A c \in Chains : Final(c)
  BY <1>1, HonestAnswers
<1>4. outcome' \in {"accepted", "rejected", "failed"}
  BY <1>2
<1>5. ReadsInv'
  BY <1>1, <1>3, <1>4 DEF ReadsInv
<1>6. /\ TrulySent' = TrulySent /\ TrulyReceived' = TrulyReceived
      /\ TrulyOwed' = TrulyOwed /\ \A c \in Chains : Final(c)'
  <2>1. TrulySent' = TrulySent /\ TrulyReceived' = TrulyReceived /\ \A c \in Chains : Final(c)'
    BY <1>1, <1>3 DEF TrulySent, TrulyReceived, Truth, Scanned, Extracted, Asked, Event, Final
  <2> QED
    BY <2>1 DEF TrulyOwed, Arrivals
<1>7. ASSUME outcome' = "accepted" PROVE AcceptedInv'
  <2>1. buildable /\ Parses(built) /\ manifest' = built
    BY <1>2, <1>7
  <2>2. apart
    BY <2>1, TwoHostsNeeded DEF Parses, Reconciled
  <2>3. Sent("primary") = TrulySent /\ Received("primary") = TrulyReceived
    BY <1>1, <2>1, <2>2, HonestAnswers DEF Buildable
  <2>4. /\ built.messages = MessagesOf(TrulySent, TrulyReceived, statuses)
        /\ built.summary = Summary(built.messages)
    BY <2>3 DEF Built, MessagesOf
  <2>5. NoOrphan(TrulySent, TrulyReceived)
    BY <2>1, <2>3 DEF Buildable
  <2>6. /\ DistinctGuids(built.messages)
        /\ Projected(Unresolved(built.messages)) = Projected(TrulyOwed)
    BY <1>1, <2>4, TruthMakesMessages
  <2>7. /\ DistinctGuids(manifest.messages)'
        /\ Projected(Unresolved(manifest.messages))' = Projected(TrulyOwed)
        /\ (manifest.summary = Summary(manifest.messages))'
    <3> HIDE DEF built
    <3> QED
      BY <2>1, <2>4, <2>6 DEF DistinctGuids, Projected, Unresolved, Summary, Total
  <2>8. NoOrphan(TrulySent, TrulyReceived)' /\ Projected(TrulyOwed)' = Projected(TrulyOwed)
    BY <1>6, <2>5 DEF NoOrphan, Projected
  <2> QED
    BY <1>6, <2>7, <2>8 DEF AcceptedInv
<1>8. ASSUME outcome' = "rejected" PROVE RejectedForCause'
  <2>1. buildable /\ ~Parses(built)
    BY <1>2, <1>8
  <2>2. ASSUME ~BadRequest
        PROVE  \E g \in Guids : Amount[g] = 0 /\ SentWithin(g)
    <3>1. apart /\ \A c \in Chains : request.from[c] <= request.to[c]
      BY <1>3, <2>2, ScanAssumption DEF BadRequest
    <3>2. Sent("primary") = TrulySent /\ Received("primary") = TrulyReceived
      BY <1>1, <2>1, <3>1, HonestAnswers DEF Buildable
    <3>3. PICK s \in TrulySent : ~(s.amount > 0)
      BY <1>1, <1>3, <2>1, <3>1, <3>2, TruthParses
    <3>4. s.guid \in Guids /\ s.amount = Amount[s.guid]
      BY <1>1, EvidenceOf
    <3>5. Amount[s.guid] = 0
      BY <3>3, <3>4, ScanAssumption
    <3>6. SentWithin(s.guid)
      BY <1>1, <3>4, SeenIsSent DEF SentWithin
    <3> QED
      BY <3>4, <3>5, <3>6
  <2>3. (BadRequest <=> BadRequest') /\ \A g \in Guids : SentWithin(g) <=> SentWithin(g)'
    BY <1>1 DEF BadRequest, SentWithin, SentBy, Succeeded
  <2> QED
    BY <2>2, <2>3 DEF RejectedForCause
<1> QED
  BY <1>4, <1>5, <1>7, <1>8 DEF AcceptedInv, RejectedForCause

\* A read that is honest is of a range that is final.
LEMMA AnswerStep ==
    ASSUME ScanInv, NEW role \in Roles, NEW c \in Chains, Answer(role, c)
    PROVE  ReadsInv'
<1>1. /\ outcome = "scanning" /\ outcome' = outcome /\ UNCHANGED <<height, txs, request>>
      /\ ChainsInv /\ ReadsInv
  BY DEF Answer, ScanInv
<1>2. PICK answer \in Answers(role, c) : read' = [read EXCEPT ![role][c] = answer]
  BY DEF Answer
<1>3. /\ request \in Requests /\ DOMAIN read = Roles
      /\ \A r \in Roles : DOMAIN read[r] = Chains
      /\ \A r \in Roles, d \in Chains : read[r][d] # None =>
            Final(d) /\ (request.liar[d] # request.host[r][d] => read[r][d] = Truth(d))
  BY <1>1 DEF ReadsInv
<1>4. Final(c)
  BY DEF Answer, requireFinalizedRangeEnd, Final
<1>5. request.liar[c] # request.host[role][c] => answer = Truth(c)
  BY <1>2 DEF Answers, Truth
<1>6. \A d \in Chains : (Final(d)' <=> Final(d)) /\ Truth(d)' = Truth(d)
  BY <1>1 DEF Final, Truth, Scanned, Extracted, Asked, Event
<1>7. /\ DOMAIN read' = Roles /\ \A r \in Roles : DOMAIN read'[r] = Chains
      /\ read'[role][c] = answer
      /\ \A r \in Roles, d \in Chains : r # role \/ d # c => read'[r][d] = read[r][d]
  BY <1>2, <1>3
<1>8. \A r \in Roles, d \in Chains : read'[r][d] # None =>
          Final(d)' /\ (request'.liar[d] # request'.host[r][d] => read'[r][d] = Truth(d)')
  BY <1>1, <1>3, <1>4, <1>5, <1>6, <1>7
<1> QED
  BY <1>1, <1>3, <1>7, <1>8 DEF ReadsInv

\* While the chains move alone, evidence that was final stays as it is.
LEMMA ChainStep ==
    ASSUME ScanInv, [Next]_vars, UNCHANGED scanVars
    PROVE  ReadsInv' /\ AcceptedInv' /\ RejectedForCause'
<1>1. ChainsInv /\ ReadsInv /\ AcceptedInv /\ RejectedForCause
      /\ request' = request /\ read' = read /\ manifest' = manifest /\ outcome' = outcome
  BY DEF ScanInv, scanVars
<1>2. ASSUME outcome = "scanning"
      PROVE  \A role \in Roles, c \in Chains : read[role][c] # None =>
                /\ Final(c)'
                /\ request.liar[c] # request.host[role][c] => read[role][c] = Truth(c)'
  <2>1. request \in Requests
        /\ \A role \in Roles, c \in Chains : read[role][c] # None =>
              Final(c) /\ (request.liar[c] # request.host[role][c] => read[role][c] = Truth(c))
    BY <1>1, <1>2 DEF ReadsInv
  <2>2. \A c \in Chains : Final(c) => Truth(c)' = Truth(c) /\ Final(c)'
    BY <1>1, <2>1, TruthKept
  <2> QED
    BY <2>1, <2>2
<1>3. ReadsInv'
  BY <1>1, <1>2 DEF ReadsInv
<1>4. ASSUME outcome = "accepted"
      PROVE  AcceptedInv'
  <2>1. request \in Requests /\ \A c \in Chains : Final(c)
    BY <1>1, <1>4 DEF ReadsInv, AcceptedInv
  <2>2. /\ \A c \in Chains : Final(c)'
        /\ TrulySent' = TrulySent /\ TrulyReceived' = TrulyReceived
    BY <1>1, <2>1, EvidenceKept
  <2>3. TrulyOwed' = TrulyOwed
    BY <2>2 DEF TrulyOwed, Arrivals
  <2> QED
    BY <1>1, <1>4, <2>2, <2>3
    DEF AcceptedInv, NoOrphan, Projected, Unresolved, DistinctGuids, Summary, Total
<1>5. AcceptedInv'
  BY <1>1, <1>4 DEF AcceptedInv
<1>6. RejectedForCause'
  <2>1. BadRequest => BadRequest'
    BY <1>1 DEF BadRequest
  <2>2. ASSUME NEW g \in Guids, SentWithin(g) PROVE SentWithin(g)'
    <3>1. SentFrom[g] \in Chains
      BY ScanAssumption
    <3>2. txs[SentFrom[g]] \subseteq txs'[SentFrom[g]]
      BY <1>1, <3>1, ChainsKept
    <3> QED
      BY <1>1, <2>2, <3>2 DEF SentWithin, SentBy, Succeeded
  <2> QED
    BY <1>1, <2>1, <2>2 DEF RejectedForCause
<1> QED
  BY <1>3, <1>5, <1>6

LEMMA ScanStep ==
    ASSUME ScanInv, [Next]_vars
    PROVE  ScanInv'
<1>1. ChainsInv'
  BY ChainsKept DEF ScanInv
<1>2. CASE \E q \in Requests : Start(q)
  <2>1. PICK q \in Requests : Start(q)
    BY <1>2
  <2>2. /\ read = Unread /\ read' = Unread /\ request' = q /\ outcome' = "scanning"
    BY <2>1 DEF Start, ScanInv, ReadsInv
  <2>3. /\ DOMAIN Unread = Roles /\ \A role \in Roles : DOMAIN Unread[role] = Chains
        /\ \A role \in Roles, c \in Chains : Unread[role][c] = None
    BY DEF Unread
  <2>4. ReadsInv'
    BY <2>2, <2>3 DEF ReadsInv
  <2> QED
    BY <1>1, <2>2, <2>4 DEF ScanInv, AcceptedInv, RejectedForCause
<1>3. CASE \E role \in Roles, c \in Chains : Answer(role, c)
  <2>1. ReadsInv' /\ outcome' = "scanning"
    BY <1>3, AnswerStep DEF Answer
  <2> QED
    BY <1>1, <2>1 DEF ScanInv, AcceptedInv, RejectedForCause
<1>4. CASE Unavailable
  BY <1>1, <1>4 DEF Unavailable, ScanInv, ReadsInv, AcceptedInv, RejectedForCause
<1>5. CASE Finish
  BY <1>1, <1>5, FinishStep DEF ScanInv
<1>6. CASE \/ \E c \in Chains : EmptyBlock(c)
           \/ \E c \in Chains, name \in {"OFTSent", "OFTReceived"}, g \in Guids, ok \in BOOLEAN :
                 Block(c, name, g, ok)
           \/ UNCHANGED vars
  <2>1. UNCHANGED scanVars
    BY <1>6 DEF EmptyBlock, Block, vars, scanVars
  <2> QED
    BY <1>1, <2>1, ChainStep DEF ScanInv
<1> QED
  BY <1>2, <1>3, <1>4, <1>5, <1>6 DEF Next

\* In every reachable state each chain's events are dated and single, what the
\* honest hosts answered is the truth of the ranges asked for, and what was
\* accepted was made of it (scanProviderPair, buildInFlightManifest).
THEOREM ScanInvariant == Spec => []ScanInv
<1>1. Init => ScanInv
  BY DEF Init, ScanInv, ChainsInv, ReadsInv, AcceptedInv, RejectedForCause
<1>2. ScanInv /\ [Next]_vars => ScanInv'
  BY ScanStep
<1> QED
  BY <1>1, <1>2, PTL DEF Spec

\* When the parser refuses a manifest the builder made (parseInFlightInventory,
\* buildInFlightManifest), one host was named twice, a range is empty or a packet
\* that credits nothing was sent in it: for any number of packets and amounts,
\* nothing a lying host hides or invents, nothing the API answers and no move of
\* the chains between the reads makes the two disagree.
THEOREM RejectedAlwaysForCause == Spec => []RejectedForCause
<1>1. ScanInv => RejectedForCause
  BY DEF ScanInv
<1> QED
  BY <1>1, ScanInvariant, PTL

-----------------------------------------------------------------------------
(* What an accepted manifest says. *)

LEMMA OwedIsInFlight ==
    ASSUME ChainsInv
    PROVE  /\ \A s \in TrulyOwed : /\ s.guid \in Guids /\ s.amount = Amount[s.guid]
                                   /\ s.from = SentFrom[s.guid] /\ InFlight(s.guid)
           /\ \A g \in Guids : InFlight(g) => \E s \in TrulyOwed : s.guid = g
<1>1. ASSUME NEW g \in Guids
      PROVE  InFlight(g) <=> /\ \E e \in TrulySent : e.guid = g
                             /\ ~\E e \in TrulyReceived : e.guid = g
  BY SeenIsSent DEF InFlight, SentWithin
<1> QED
  BY <1>1, EvidenceOf DEF TrulyOwed, Arrivals

LEMMA OutstandingOf ==
    ASSUME NEW S, NEW T, Projected(S) = Projected(T)
    PROVE  /\ \A m \in S : \E s \in T : m.guid = s.guid /\ m.from = s.from /\ m.amount = s.amount
           /\ \A s \in T : \E m \in S : m.guid = s.guid /\ m.from = s.from /\ m.amount = s.amount
<1>1. ASSUME NEW A, NEW B, Projected(A) \subseteq Projected(B), NEW m \in A
      PROVE  \E s \in B : m.guid = s.guid /\ m.from = s.from /\ m.amount = s.amount
  <2>1. [guid |-> m.guid, from |-> m.from, amount |-> m.amount] \in Projected(B)
    BY <1>1 DEF Projected
  <2>2. PICK s \in B : [guid |-> m.guid, from |-> m.from, amount |-> m.amount]
                          = [guid |-> s.guid, from |-> s.from, amount |-> s.amount]
    BY <2>1 DEF Projected
  <2> QED
    BY <2>2
<1> QED
  BY <1>1

\* An accepted manifest lists as outstanding exactly the packets that left one
\* chain within its range and did not arrive on the other within that, at their
\* amounts (scanProductionInFlight.ts, buildInFlightManifest), for any number of
\* packets, any lie of one host of a chain and any statuses of the API.
THEOREM ManifestAlwaysTrueCut == Spec => []ManifestIsTrueCut
<1>1. ScanInv => ManifestIsTrueCut
  <2>. SUFFICES ASSUME ScanInv, outcome = "accepted"
                PROVE  {<<m.guid, m.amount>> : m \in Unresolved(manifest.messages)}
                           = {<<g, Amount[g]>> : g \in {h \in Guids : InFlight(h)}}
    BY DEF ManifestIsTrueCut
  <2>1. ChainsInv /\ Projected(Unresolved(manifest.messages)) = Projected(TrulyOwed)
    BY DEF ScanInv, AcceptedInv
  <2>2. /\ \A m \in Unresolved(manifest.messages) : \E s \in TrulyOwed :
              m.guid = s.guid /\ m.from = s.from /\ m.amount = s.amount
        /\ \A s \in TrulyOwed : \E m \in Unresolved(manifest.messages) :
              m.guid = s.guid /\ m.from = s.from /\ m.amount = s.amount
    BY <2>1, OutstandingOf
  <2>3. \A m \in Unresolved(manifest.messages) :
            m.guid \in Guids /\ InFlight(m.guid) /\ m.amount = Amount[m.guid]
    BY <2>1, <2>2, OwedIsInFlight
  <2>4. \A g \in Guids : InFlight(g) =>
            \E m \in Unresolved(manifest.messages) : m.guid = g /\ m.amount = Amount[g]
    BY <2>1, <2>2, OwedIsInFlight
  <2> QED
    BY <2>3, <2>4
<1> QED
  BY <1>1, ScanInvariant, PTL

-----------------------------------------------------------------------------
(* The totals. *)

OnTheWay(c) == {g \in Guids : SentFrom[g] = c /\ InFlight(g)}

LEMMA SumOfAmounts ==
    ASSUME NEW S \in SUBSET Guids
    PROVE  IsFiniteSet(S) /\ Sum(S) \in Int /\ \A g \in S : Amount[g] \in Int
<1>1. IsFiniteSet(S) /\ \A g \in S : Amount[g] \in Int
  BY FS_Subset, ScanAssumption
<1> QED
  BY <1>1, SumInt DEF Sum

\* The total a manifest declares for a chain is that of the packets on the way.
LEMMA TotalIsOnTheWay ==
    ASSUME ScanInv, outcome = "accepted", NEW c \in Chains
    PROVE  manifest.summary.raw[c] = Sum(OnTheWay(c))
<1>. DEFINE messages == manifest.messages
            U == Unresolved(messages)
            G == OnTheWay(c)
            f == [m \in messages |-> m.amount]
            h == [g \in G |-> CHOOSE m \in U : m.guid = g]
<1>1. ChainsInv /\ DistinctGuids(messages) /\ manifest.summary = Summary(messages)
      /\ Projected(U) = Projected(TrulyOwed)
  BY DEF ScanInv, AcceptedInv
<1>2. /\ \A m \in U : \E s \in TrulyOwed :
            m.guid = s.guid /\ m.from = s.from /\ m.amount = s.amount
      /\ \A s \in TrulyOwed : \E m \in U :
            m.guid = s.guid /\ m.from = s.from /\ m.amount = s.amount
  BY <1>1, OutstandingOf
<1>3. \A m \in U : /\ m.guid \in Guids /\ InFlight(m.guid) /\ m.amount = Amount[m.guid]
                   /\ m.from = SentFrom[m.guid]
  BY <1>1, <1>2, OwedIsInFlight
<1>4. \A g \in G : \E m \in U : m.guid = g
  BY <1>1, <1>2, OwedIsInFlight DEF OnTheWay
<1>5. \A g \in G : h[g] \in U /\ h[g].guid = g
  BY <1>4
<1>6. U \subseteq messages /\ \A m, n \in U : m.guid = n.guid => m = n
  BY <1>1 DEF DistinctGuids, Unresolved
<1>7. {h[g] : g \in G} = {m \in U : m.from = c}
  <2>1. ASSUME NEW g \in G PROVE h[g].from = c
    BY <1>3, <1>5 DEF OnTheWay
  <2>2. ASSUME NEW m \in U, m.from = c PROVE m.guid \in G /\ m = h[m.guid]
    <3>1. m.guid \in G
      BY <1>3, <2>2 DEF OnTheWay
    <3> HIDE DEF h, U, G
    <3> QED
      BY <1>5, <1>6, <2>2, <3>1
  <2> HIDE DEF h, U, G
  <2> QED
    BY <1>5, <2>1, <2>2
<1>8. IsFiniteSet(G) /\ \A g \in G : Amount[g] \in Int
  BY SumOfAmounts DEF OnTheWay
<1>9. /\ \A x, y \in G : h[x] = h[y] => x = y
      /\ \A g \in G : f[h[g]] = Amount[g]
  <2>1. ASSUME NEW g \in G PROVE f[h[g]] = Amount[g]
    <3>1. h[g] \in U /\ h[g].guid = g /\ h[g] \in messages /\ h[g].amount = Amount[g]
      BY <1>3, <1>5, <1>6
    <3> HIDE DEF h, U, G
    <3> QED
      BY <3>1
  <2> HIDE DEF h, U, G
  <2> QED
    BY <1>5, <2>1
<1>10. SumOver(f, {m \in U : m.from = c}) = SumOver(Amount, G)
  <2>. DEFINE T == {m \in U : m.from = c}
  <2>1. \A y : y \in T <=> \E g \in G : y = h[g]
    <3> HIDE DEF h, G
    <3> QED
      BY <1>7
  <2> HIDE DEF h, f, G, T
  <2>2. \A g \in G : Amount[g] \in Int /\ f[h[g]] = Amount[g]
    BY <1>8, <1>9
  <2>3. SumOver(f, T) = SumOver(Amount, G)
    BY <1>8, <1>9, <2>1, <2>2, SumImage
  <2> QED
    BY <2>3 DEF T
<1>11. Total(messages, c) = SumOver(f, {m \in U : m.from = c})
  BY DEF Total
<1>12. manifest.summary.raw[c] = Total(messages, c)
  BY <1>1 DEF Summary
<1> QED
  BY <1>10, <1>11, <1>12 DEF Sum

\* With ranges that begin before the first packet, what left a chain up to the
\* end of its range arrived up to the end of the other's, or is on the way.
LEMMA OwedIsPaidOrOnTheWay ==
    ASSUME ScanInv, outcome = "accepted", \A d \in Chains : request.from[d] <= 1,
           NEW c \in Chains
    PROVE  Sum(Owed(c)) = Sum(Paid(Other(c))) + Sum(OnTheWay(c))
<1>1. ChainsInv /\ NoOrphan(TrulySent, TrulyReceived) /\ request \in Requests
  BY DEF ScanInv, AcceptedInv, ReadsInv
<1>2. Other(c) \in Chains /\ Other(Other(c)) = c
  BY DEF Chains, Other
<1>3. \A d \in Chains : /\ request.from[d] \in Nat /\ request.from[d] <= 1
                        /\ \A t \in txs[d] : t.height \in Nat /\ t.height >= 1
  <2>1. ASSUME NEW d \in Chains PROVE request.from[d] \in Nat
    BY <1>1, <2>1, ScanAssumption
  <2>2. ASSUME NEW d \in Chains, NEW t \in txs[d] PROVE t.height \in Nat /\ t.height >= 1
    <3>1. t.height \in 1 .. height[d] /\ height[d] \in Nat
      BY <1>1, <2>2 DEF ChainsInv
    <3> QED
      BY <3>1
  <2> QED
    BY <2>1, <2>2
<1>4. ASSUME NEW g \in Guids, SentFrom[g] = c
      PROVE  /\ g \in Owed(c) <=> \E e \in TrulySent : e.guid = g
             /\ g \in Paid(Other(c)) <=> \E e \in TrulyReceived : e.guid = g
  <2>1. SentBy(g, c, 0, request.to[c]) <=> SentBy(g, c, request.from[c], request.to[c])
    BY <1>3, <1>4 DEF SentBy, Succeeded
  <2>2. ReceivedBy(g, 0, request.to[Other(c)])
            <=> ReceivedBy(g, request.from[Other(c)], request.to[Other(c)])
    BY <1>2, <1>3, <1>4 DEF ReceivedBy, Succeeded
  <2> QED
    BY <1>1, <1>2, <1>4, <2>1, <2>2, SeenIsSent DEF Owed, Paid
<1>5. \A g \in Owed(c) : g \in Guids /\ SentFrom[g] = c
  BY DEF Owed, SentBy
<1>6. \A g \in Paid(Other(c)) : g \in Guids /\ SentFrom[g] = c
  BY <1>2 DEF Paid
<1>7. \A g \in Guids : InFlight(g) <=> /\ \E e \in TrulySent : e.guid = g
                                       /\ ~\E e \in TrulyReceived : e.guid = g
  BY <1>1, SeenIsSent DEF InFlight, SentWithin
<1>8. \A e \in TrulyReceived : \E s \in TrulySent : s.guid = e.guid
  BY <1>1 DEF NoOrphan
<1>9. /\ Owed(c) = Paid(Other(c)) \cup OnTheWay(c)
      /\ Paid(Other(c)) \cap OnTheWay(c) = {}
  BY <1>4, <1>5, <1>6, <1>7, <1>8 DEF OnTheWay
<1>10. Paid(Other(c)) \in SUBSET Guids /\ OnTheWay(c) \in SUBSET Guids
  BY <1>6 DEF OnTheWay
<1>11. /\ IsFiniteSet(Paid(Other(c))) /\ IsFiniteSet(OnTheWay(c))
       /\ \A g \in Paid(Other(c)) \cup OnTheWay(c) : Amount[g] \in Int
  BY <1>10, SumOfAmounts
<1>. DEFINE P == Paid(Other(c))
            W == OnTheWay(c)
<1>12. SumOver(Amount, P \cup W) = SumOver(Amount, P) + SumOver(Amount, W)
  <2> HIDE DEF P, W
  <2> QED
    BY <1>9, <1>11, SumDisjoint DEF P, W
<1> QED
  BY <1>9, <1>12 DEF Sum

\* What the canonical chain owes at the end of its range, less what the other
\* chain has minted at the end of its own, is what an accepted manifest counts in
\* flight, although the two ends are different moments (buildInFlightManifest).
THEOREM ManifestAlwaysBalances == Spec => []ManifestBalances
<1>1. ScanInv => ManifestBalances
  <2>. SUFFICES ASSUME ScanInv, outcome = "accepted", \A c \in Chains : request.from[c] <= 1
                PROVE  Sum(Owed("Solana")) - Sum(Paid("Solana"))
                           = (Sum(Paid("Robinhood")) - Sum(Owed("Robinhood")))
                                 + manifest.summary.raw["Solana"]
                                 + manifest.summary.raw["Robinhood"]
    BY DEF ManifestBalances
  <2>1. /\ "Solana" \in Chains /\ "Robinhood" \in Chains
        /\ Other("Solana") = "Robinhood" /\ Other("Robinhood") = "Solana"
    BY DEF Chains, Other
  <2>2. /\ manifest.summary.raw["Solana"] = Sum(OnTheWay("Solana"))
        /\ manifest.summary.raw["Robinhood"] = Sum(OnTheWay("Robinhood"))
    BY <2>1, TotalIsOnTheWay
  <2>3. /\ Sum(Owed("Solana")) = Sum(Paid("Robinhood")) + Sum(OnTheWay("Solana"))
        /\ Sum(Owed("Robinhood")) = Sum(Paid("Solana")) + Sum(OnTheWay("Robinhood"))
    BY <2>1, OwedIsPaidOrOnTheWay
  <2>4. /\ Sum(Paid("Robinhood")) \in Int /\ Sum(Paid("Solana")) \in Int
        /\ Sum(OnTheWay("Solana")) \in Int /\ Sum(OnTheWay("Robinhood")) \in Int
    BY SumOfAmounts DEF Paid, OnTheWay
  <2> QED
    BY <2>2, <2>3, <2>4
<1> QED
  BY <1>1, ScanInvariant, PTL
=============================================================================
