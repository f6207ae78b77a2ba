--------------------------- MODULE ProductionCheck ---------------------------
(***************************************************************************)
(* The production checker over a bridge that keeps moving.  An operator    *)
(* approves a manifest of packets in flight, of ranges that end earlier,   *)
(* and the state expected; the checker then observes both chains twice,    *)
(* pinning a Robinhood block and taking one Solana account snapshot each   *)
(* time, and passes only if both observations match and are the same.      *)
(***************************************************************************)
EXTENDS Integers, FiniteSets, Sequences, Sums, Pathway

CONSTANTS Guids,      \* LayerZero GUIDs
          SentFrom,   \* SentFrom[g], the chain g is sent from
          Amount,     \* Amount[g], what g moves: a manifest with a packet that
                      \* moves nothing is refused before it can be approved
          MaxTxs,     \* MaxTxs[c], bound on the transactions of a chain
          Starts,     \* where the ranges of a manifest may start
          Changing,   \* the aspects of the setup that may change
          None        \* the value of what is not there

\* What the policy compares with approved values besides amounts and pauses.
Aspects == {"programs", "authorities", "messaging", "limits"}

ASSUME CheckAssumption ==
    /\ IsFiniteSet(Guids)
    /\ None # "pass"
    /\ SentFrom \in [Guids -> Chains]
    /\ Amount \in [Guids -> Nat \ {0}]
    /\ MaxTxs \in [Chains -> Nat]
    /\ Starts \subseteq Nat \ {0}
    /\ Changing \subseteq Aspects

VARIABLES chain,     \* chain[c], a chain's state now, its height included
          before,    \* before[c], the state one transaction earlier
          sentAt,    \* sentAt[g], height of the send, 0 before
          gotAt,     \* gotAt[g], height of the receive, 0 before
          openedAt,  \* openedAt[c], height of the last unpause
          approved,  \* what the operator approved, None before
          slot,      \* finalizedSlotBefore of the running collection, or None
          pinned,    \* the Robinhood state it pinned, or None
          seen,      \* the observations collected, in order
          verdict    \* None, "pass" or "fail"

bridgeVars == <<chain, before, sentAt, gotAt, openedAt>>
checkVars == <<slot, pinned, seen, verdict>>
vars == <<chain, before, sentAt, gotAt, openedAt, approved, slot, pinned, seen, verdict>>

Sum(S) == SumOver(Amount, S)

\* Both applications are deployed, configured as approved and paused.
Deployed == [height |-> 0, paused |-> TRUE, money |-> 0, donated |-> 0, astray |-> {}]

Init ==
    /\ chain = [c \in Chains |-> Deployed]
    /\ before = chain
    /\ sentAt = [g \in Guids |-> 0]
    /\ gotAt = [g \in Guids |-> 0]
    /\ openedAt = [c \in Chains |-> 0]
    /\ approved = None
    /\ slot = None
    /\ pinned = None
    /\ seen = << >>
    /\ verdict = None

-----------------------------------------------------------------------------
(* The bridge: money is the liability on Solana, the supply on Robinhood. *)

Commit(c, s) ==
    /\ chain[c].height < MaxTxs[c]
    /\ chain' = [chain EXCEPT ![c] = [s EXCEPT !.height = @ + 1]]
    /\ before' = [before EXCEPT ![c] = chain[c]]

SetPause(c, paused) ==
    /\ chain[c].paused # paused
    /\ Commit(c, [chain[c] EXCEPT !.paused = paused])
    /\ openedAt' = IF paused THEN openedAt
                   ELSE [openedAt EXCEPT ![c] = chain[c].height + 1]
    /\ UNCHANGED <<sentAt, gotAt, approved, checkVars>>

\* Locks on Solana, burns on Robinhood.
Send(g) ==
    LET c == SentFrom[g]
        moved == IF c = "Solana" THEN Amount[g] ELSE -Amount[g]
    IN  /\ sentAt[g] = 0 /\ ~chain[c].paused /\ chain[c].money + moved >= 0
        /\ Commit(c, [chain[c] EXCEPT !.money = @ + moved])
        /\ sentAt' = [sentAt EXCEPT ![g] = chain[c].height + 1]
        /\ UNCHANGED <<gotAt, openedAt, approved, checkVars>>

\* Mints on Robinhood, unlocks on Solana.
Receive(g) ==
    LET c == Other(SentFrom[g])
        moved == IF c = "Solana" THEN -Amount[g] ELSE Amount[g]
    IN  /\ sentAt[g] # 0 /\ gotAt[g] = 0 /\ ~chain[c].paused
        /\ Commit(c, [chain[c] EXCEPT !.money = @ + moved])
        /\ gotAt' = [gotAt EXCEPT ![g] = chain[c].height + 1]
        /\ UNCHANGED <<sentAt, openedAt, approved, checkVars>>

\* Anybody may send tokens to the escrow account.
Donate ==
    /\ chain["Solana"].donated = 0
    /\ Commit("Solana", [chain["Solana"] EXCEPT !.donated = 1])
    /\ UNCHANGED <<sentAt, gotAt, openedAt, approved, checkVars>>

\* An authority changes something the policy pins, or changes it back.
Reconfigure(c, aspect) ==
    /\ Commit(c, [chain[c] EXCEPT !.astray =
                      IF aspect \in @ THEN @ \ {aspect} ELSE @ \cup {aspect}])
    /\ UNCHANGED <<sentAt, gotAt, openedAt, approved, checkVars>>

-----------------------------------------------------------------------------
(* What the operator approves: an accepted manifest and the state expected. *)

Listed(from, to) == {g \in Guids : sentAt[g] \in from..to[SentFrom[g]]}
Delivered(from, to) == {g \in Guids : gotAt[g] \in from..to[Other(SentFrom[g])]}

\* The manifest InFlightScan makes of these ranges, if it accepts them: every
\* receive they show has its send.
Manifest(from, to) ==
    [to |-> to,
     messages |-> Listed(from, to),
     outstanding |-> Listed(from, to) \ Delivered(from, to)]

Raw(manifest, c) == Sum({g \in manifest.outstanding : SentFrom[g] = c})

\* The ranges end at the head of a chain or one transaction earlier, and may
\* start after packets they should list. Heights count transactions: blocks
\* without any between two of them are a range whose end is before its start.
Approve(expected, from, to) ==
    /\ approved = None
    /\ \A c \in Chains : to[c] \in {chain[c].height, before[c].height}
    /\ Delivered(from, to) \subseteq Listed(from, to)
    /\ approved' = [expected |-> expected,
                    supply |-> chain["Robinhood"].money,
                    manifest |-> Manifest(from, to)]
    /\ UNCHANGED <<bridgeVars, checkVars>>

-----------------------------------------------------------------------------
(* validateProductionMainnetObservation *)

\* The slot of the snapshot lies between the finalized slots read around it.
validateCommonContextEnvelope(slotBefore, contextSlot, slotAfter) ==
    slotBefore <= contextSlot /\ contextSlot <= slotAfter

ProgramsApproved(o) == \A c \in Chains : "programs" \notin o[c].astray
AuthoritiesApproved(o) == \A c \in Chains : "authorities" \notin o[c].astray
MessagingApproved(o) == \A c \in Chains : "messaging" \notin o[c].astray
LimitsApproved(o) == \A c \in Chains : "limits" \notin o[c].astray

EscrowBalance(o) == o["Solana"].money + o["Solana"].donated

SupplyApproved(o) ==
    /\ EscrowBalance(o) >= o["Solana"].money
    /\ o["Robinhood"].money = approved.supply

\* The manifest's ends are no later than the states observed.
EndsBeforeObservation(o) == \A c \in Chains : approved.manifest.to[c] <= o[c].height

\* Mutated form of Accounted: what is missing from the manifest is not missed.
Accounted_AtLeast(o) ==
    o["Solana"].money >= o["Robinhood"].money + Raw(approved.manifest, "Solana")
                                              + Raw(approved.manifest, "Robinhood")

Accounted(o) ==
    o["Solana"].money = o["Robinhood"].money + Raw(approved.manifest, "Solana")
                                             + Raw(approved.manifest, "Robinhood")

\* Mutated form of BothPaused: one paused application is taken for both.
BothPaused_Either(o) == \E c \in Chains : o[c].paused

BothPaused(o) == \A c \in Chains : o[c].paused

\* Open, and nothing was ever bridged as far as the manifest shows.
OpenAndEmpty(o) ==
    /\ \A c \in Chains : ~o[c].paused /\ o[c].money = 0
    /\ EscrowBalance(o) = 0
    /\ approved.manifest.messages = {}

Valid(o) ==
    /\ ProgramsApproved(o) /\ AuthoritiesApproved(o)
    /\ MessagingApproved(o) /\ LimitsApproved(o)
    /\ SupplyApproved(o)
    /\ EndsBeforeObservation(o)
    /\ Accounted(o)
    /\ IF approved.expected = "PRE_ACTIVATION_INERT" THEN BothPaused(o)
                                                     ELSE OpenAndEmpty(o)

\* Mutated form of Stable: only what validation reads must repeat.
Stable_AmountsOnly(first, second) ==
    \A c \in Chains : first[c].money = second[c].money

\* Everything observed but the heights.
Stable(first, second) ==
    \A c \in Chains : [first[c] EXCEPT !.height = 0] = [second[c] EXCEPT !.height = 0]

-----------------------------------------------------------------------------
(* checkProductionMainnet: two collections, then the verdict. *)

\* A provider may answer with the state one transaction ago.
Nearly(c) == {chain[c], before[c]}

PinRobinhood ==
    /\ approved # None /\ verdict = None /\ Len(seen) < 2 /\ pinned = None
    /\ pinned' \in Nearly("Robinhood")
    /\ UNCHANGED <<bridgeVars, approved, slot, seen, verdict>>

ReadSlotBefore ==
    /\ pinned # None /\ slot = None
    /\ \E s \in Nearly("Solana") : slot' = s.height
    /\ UNCHANGED <<bridgeVars, approved, pinned, seen, verdict>>

\* Robinhood is read at the pinned block throughout.
Observation(s) == [c \in Chains |-> IF c = "Solana" THEN s ELSE pinned]

\* All accounts of one slot; the slot before is the least that is asked for.
TakeSnapshot ==
    /\ slot # None
    /\ \E s, after \in Nearly("Solana") :
          /\ s.height >= slot
          /\ IF validateCommonContextEnvelope(slot, s.height, after.height)
             THEN /\ seen' = Append(seen, Observation(s))
                  /\ UNCHANGED verdict
             ELSE /\ verdict' = "fail"
                  /\ UNCHANGED seen
    /\ pinned' = None
    /\ slot' = None
    /\ UNCHANGED <<bridgeVars, approved>>

Decide ==
    /\ Len(seen) = 2 /\ verdict = None
    /\ verdict' = IF Valid(seen[1]) /\ Valid(seen[2]) /\ Stable(seen[1], seen[2])
                  THEN "pass" ELSE "fail"
    /\ UNCHANGED <<bridgeVars, approved, slot, pinned, seen>>

Ends == {to \in [Chains -> UNION {0..MaxTxs[c] : c \in Chains}] :
            \A c \in Chains : to[c] <= MaxTxs[c]}

States == {"PRE_ACTIVATION_INERT", "CANARY_ACTIVE"}

Next ==
    \/ \E c \in Chains, paused \in BOOLEAN : SetPause(c, paused)
    \/ \E g \in Guids : Send(g) \/ Receive(g)
    \/ Donate
    \/ \E c \in Chains, aspect \in Changing : Reconfigure(c, aspect)
    \/ \E expected \in States, from \in Starts, to \in Ends :
          Approve(expected, from, to)
    \/ PinRobinhood
    \/ ReadSlotBefore
    \/ TakeSnapshot
    \/ Decide

Spec == Init /\ [][Next]_vars

-----------------------------------------------------------------------------
(* Properties. *)

Outstanding == {g \in Guids : sentAt[g] # 0 /\ gotAt[g] = 0}

\* Nothing was bridged since the ends of the manifest's ranges.
QuietSinceTheEnds ==
    \A g \in Guids : /\ sentAt[g] <= approved.manifest.to[SentFrom[g]]
                     /\ gotAt[g] <= approved.manifest.to[Other(SentFrom[g])]

\* No packet that the manifest holds for outstanding had arrived before its
\* ranges began, as none has if they begin with the deployment.
NoneArrivedEarlier == \A g \in approved.manifest.outstanding : gotAt[g] = 0

\* If nothing was bridged since the manifest's ends, a pass means that the
\* manifest lists exactly the packets in flight, also where its ranges started
\* after the sends of some of them: the books of the two chains give an
\* omission away, unless a packet listed in error makes up for it.
QuietPassIsExact ==
    verdict = "pass" /\ QuietSinceTheEnds /\ NoneArrivedEarlier =>
        approved.manifest.outstanding = Outstanding

\* A pass before activation means that the manifest's total is what is in
\* flight, for as long as nobody unpauses, whatever was bridged between the
\* manifest's ends and the observations, which are of different moments.
PausedPassIsExact ==
    /\ verdict = "pass" /\ approved.expected = "PRE_ACTIVATION_INERT"
    /\ \A c \in Chains : openedAt[c] <= seen[1][c].height
    => Sum(Outstanding) = Raw(approved.manifest, "Solana") + Raw(approved.manifest, "Robinhood")

\* A single transaction on a chain between two observations of it is refused,
\* be it one that every check of an observation lets through.
OneChangeIsNoticed ==
    verdict = "pass" =>
        \A c \in Chains : seen[2][c].height # seen[1][c].height + 1

\* docs/IN_FLIGHT_EVIDENCE_MODEL.md:57-60 says that exact accounting and the
\* pause and zero-state requirements reject economically meaningful activity
\* between the manifest's ends and the observation: a pass would mean that the
\* manifest's totals are right in each direction.
GapActivityRejected ==
    /\ verdict = "pass" /\ approved.expected = "PRE_ACTIVATION_INERT"
    /\ \A c \in Chains : openedAt[c] <= seen[1][c].height
    => \A c \in Chains : Raw(approved.manifest, c) = Sum({g \in Outstanding : SentFrom[g] = c})

=============================================================================
