--------------------------- MODULE LayerZeroConfig ---------------------------
(***************************************************************************)
(* The configuration that decides which verifiers a message needs, and the *)
(* check that it is the pinned policy.  An application sets a value or     *)
(* inherits LayerZero's default, which LayerZero may change at any time:   *)
(* the values in force may be the policy's by accident.  The production    *)
(* check reads each chain at one moment, an account snapshot on Solana and *)
(* a pinned block on Robinhood; the check of the configuration alone makes *)
(* one call after another.                                                 *)
(***************************************************************************)
EXTENDS Integers, Sequences, Pathway

CONSTANTS SourceConfirmations,  \* SourceConfirmations[c], of messages from c
          MaxDefaultChanges,    \* bound on changes of defaults
          MaxWrites             \* bound on writes of the applications

Sides == {"send", "receive"}

ASSUME ConfirmationsAssumption == SourceConfirmations \in [Chains -> Nat \ {0}]

\* What a value not set reads as: no address, no verifiers counted.
Inherited == "inherited"

\* "policy" is what the policy asks for, "foreign" stands for any other value,
\* "none" is the explicit choice of no required verifier (a count of 255).
Values == {"policy", "foreign"}
Required == {"none", "foreign"}
Confirmations == {SourceConfirmations[c] : c \in Chains}

VARIABLES app,      \* app[c], what the application on a chain has set
          default,  \* default[c], LayerZero's defaults for the pathway
          pinned,   \* whether the check running reads a chain at one moment
          reading,  \* the chain it reads, "none" when no check runs
          seen,     \* seen[c], what it read of a chain, by field
          verdict,  \* of the last check: "none", "pass" or "fail"
          changes,  \* how often a default changed
          writes,   \* how often an application was written to
          steady    \* history: the chains not written to since they were read

configVars == <<app, default, changes, writes>>
checkVars == <<pinned, reading, seen, verdict>>
allVars == <<configVars, checkVars, steady>>

-----------------------------------------------------------------------------
(* Configurations. *)

\* Mutated form of PolicyConfirmations: a chain's own on both of its sides.
PolicyConfirmations_Own(c, side) == SourceConfirmations[c]

\* A message waits for the confirmations of the chain it was sent from.
PolicyConfirmations(c, side) ==
    SourceConfirmations[IF side = "send" THEN c ELSE Other(c)]

Policy(c) ==
    [library |-> [side \in Sides |-> "policy"], executor |-> "policy", peer |-> "policy",
     uln |-> [side \in Sides |-> [confirmations |-> PolicyConfirmations(c, side),
                                  required |-> "none", optional |-> "policy"]]]

InForce(set, inherited) == IF set = Inherited THEN inherited ELSE set

\* A foreign library knows nothing of what was set in the policy's.
UlnInForce(library, set, inherited) ==
    IF library = "foreign" THEN inherited
    ELSE [confirmations |-> IF set.confirmations > 0 THEN set.confirmations
                                                     ELSE inherited.confirmations,
          required |-> InForce(set.required, inherited.required),
          optional |-> InForce(set.optional, inherited.optional)]

Library(c, side) == InForce(app[c].library[side], default[c].library[side])

ConfigInForce(c) ==
    [library |-> [side \in Sides |-> Library(c, side)],
     executor |-> InForce(app[c].executor, default[c].executor),
     peer |-> app[c].peer,
     uln |-> [side \in Sides |->
                 UlnInForce(Library(c, side), app[c].uln[side], default[c].uln[side])]]

\* A configuration with one value changed, to one of those set or to nothing.
Variants(config, nothing, zero) ==
    {[config EXCEPT !.library[side] = v] : side \in Sides, v \in Values \cup nothing} \cup
    {[config EXCEPT !.executor = v] : v \in Values \cup nothing} \cup
    {[config EXCEPT !.peer = v] : v \in Values \cup nothing} \cup
    {[config EXCEPT !.uln[side].confirmations = n] : side \in Sides, n \in Confirmations \cup zero} \cup
    {[config EXCEPT !.uln[side].required = v] : side \in Sides, v \in Required \cup nothing} \cup
    {[config EXCEPT !.uln[side].optional = v] : side \in Sides, v \in Values \cup nothing}

-----------------------------------------------------------------------------
(* What the check reads, in the order of its calls. *)

\* On Robinhood the library answers with the values in force and with those the
\* application set; on Solana only the application's accounts are read.
Readable(c) ==
    LET final == IF c = "Solana" THEN app[c] ELSE ConfigInForce(c)
    IN  [sendLibrary |-> Library(c, "send"),
         sendExplicit |-> app[c].library["send"] # Inherited,
         receiveLibrary |-> [address |-> Library(c, "receive"),
                             explicit |-> app[c].library["receive"] # Inherited],
         executor |-> final.executor,
         rawExecutor |-> app[c].executor,
         peer |-> app[c].peer,
         send |-> final.uln["send"],
         rawSend |-> app[c].uln["send"],
         receive |-> final.uln["receive"],
         rawReceive |-> app[c].uln["receive"]]

Fields == {"sendLibrary", "sendExplicit", "receiveLibrary", "executor", "rawExecutor",
           "peer", "send", "rawSend", "receive", "rawReceive"}

\* The fields each call returns.
Calls(c) ==
    IF c = "Solana"
    THEN <<{"sendLibrary", "sendExplicit"}, {"receiveLibrary"},
           {"executor", "rawExecutor", "send", "rawSend"}, {"receive", "rawReceive"}, {"peer"}>>
    ELSE <<{"sendLibrary"}, {"sendExplicit"}, {"receiveLibrary"}, {"executor"}, {"rawExecutor"},
           {"peer"}, {"send"}, {"rawSend"}, {"receive"}, {"rawReceive"}>>

\* The call a check makes next: one that returns a field it has not read.
NextCall(c) ==
    LET open == {i \in DOMAIN Calls(c) : Calls(c)[i] \cap DOMAIN seen[c] = {}}
    IN  CHOOSE i \in open : \A j \in open : i <= j

-----------------------------------------------------------------------------
(* The verdict. *)

Explicit(final, raw) ==
    /\ raw.required = "none"
    /\ raw.confirmations > 0
    /\ raw.confirmations = final.confirmations
    /\ raw.optional # Inherited
    /\ raw.optional = final.optional

\* Mutated form of ValidUln: that the confirmations are set is not asked.
ValidUln_FinalOnly(c, side, final, raw) ==
    /\ raw.required = "none"
    /\ raw.optional # Inherited
    /\ final.required = "none"
    /\ final.confirmations = PolicyConfirmations(c, side)
    /\ final.optional = "policy"

ValidUln(c, side, final, raw) ==
    /\ Explicit(final, raw)
    /\ final.required = "none"
    /\ final.confirmations = PolicyConfirmations(c, side)
    /\ final.optional = "policy"

\* That Robinhood's executor comes with a message size is left out: the check
\* asks for one that is set, whatever it is.
ValidChain(c, o) ==
    /\ o.sendLibrary = "policy"
    /\ o.receiveLibrary.address = "policy"
    /\ o.executor = "policy"
    /\ o.sendExplicit
    /\ o.receiveLibrary.explicit
    /\ o.rawExecutor # Inherited
    /\ o.rawExecutor = o.executor
    /\ o.peer = "policy"
    /\ ValidUln(c, "send", o.send, o.rawSend)
    /\ ValidUln(c, "receive", o.receive, o.rawReceive)

-----------------------------------------------------------------------------
(* Wired as the policy says but for one value on one chain; the defaults    *)
(* happen to be what the policy asks for.                                   *)
ConfigInit ==
    /\ \E c \in Chains : \E config \in Variants(Policy(c), {Inherited}, {0}) :
           app = [d \in Chains |-> IF d = c THEN config ELSE Policy(d)]
    /\ default = [c \in Chains |-> Policy(c)]
    /\ pinned = FALSE
    /\ reading = "none"
    /\ seen = [c \in Chains |-> << >>]
    /\ verdict = "none"
    /\ changes = 0
    /\ writes = 0
    /\ steady = {}

\* The owner or the delegate of an application writes one value.
Write(c) ==
    /\ writes < MaxWrites
    /\ \E config \in Variants(app[c], {Inherited}, {0}) \ {app[c]} :
           app' = [app EXCEPT ![c] = config]
    /\ writes' = writes + 1
    /\ steady' = steady \ {c}
    /\ UNCHANGED <<default, changes, checkVars>>

\* LayerZero changes one default; a peer has none.
ChangeDefault(c) ==
    /\ changes < MaxDefaultChanges
    /\ \E config \in Variants(default[c], {}, {}) \ {default[c]} :
           /\ config.peer = default[c].peer
           /\ default' = [default EXCEPT ![c] = config]
    /\ changes' = changes + 1
    /\ UNCHANGED <<app, writes, steady, checkVars>>

\* The metadata of LayerZero is fetched first: it names the pinned Endpoint, and
\* deprecates no verifier of the policy, or the check fails.
Begin(atOnce, official) ==
    /\ reading = "none"
    /\ pinned' = atOnce
    /\ seen' = [c \in Chains |-> << >>]
    /\ steady' = {}
    /\ IF official
       THEN reading' = "Solana" /\ verdict' = "none"
       ELSE reading' = "none" /\ verdict' = "fail"
    /\ UNCHANGED configVars

\* A whole chain at one moment, or the next call; a chain is steady from the
\* first of its reads on.
Read ==
    LET c == reading
        fields == IF pinned THEN Fields ELSE Calls(c)[NextCall(c)]
    IN  /\ c # "none"
        /\ DOMAIN seen[c] # Fields
        /\ seen' = [seen EXCEPT ![c] =
                       [f \in fields \cup DOMAIN @ |->
                           IF f \in fields THEN Readable(c)[f] ELSE @[f]]]
        /\ steady' = IF DOMAIN seen[c] = {} THEN steady \cup {c} ELSE steady
        /\ UNCHANGED <<configVars, pinned, reading, verdict>>

\* Robinhood is inspected after Solana; then the observation is judged.
Proceed ==
    /\ reading # "none"
    /\ DOMAIN seen[reading] = Fields
    /\ IF reading = "Solana"
       THEN reading' = "Robinhood" /\ UNCHANGED verdict
       ELSE /\ reading' = "none"
            /\ verdict' = IF \A c \in Chains : ValidChain(c, seen[c]) THEN "pass" ELSE "fail"
    /\ UNCHANGED <<configVars, pinned, seen, steady>>

ConfigNext ==
    \/ \E c \in Chains : Write(c) \/ ChangeDefault(c)
    \/ \E atOnce, official \in BOOLEAN : Begin(atOnce, official)
    \/ Read
    \/ Proceed

ConfigSpec == ConfigInit /\ [][ConfigNext]_allVars

-----------------------------------------------------------------------------
(* A configuration the check accepted is the policy's in force, whatever    *)
(* LayerZero does to its defaults during the check and afterwards, for as   *)
(* long as the application is not written to: no value the check read was   *)
(* right because a default happened to be.                                  *)
AcceptedStaysInForce ==
    verdict = "pass" => \A c \in steady : ConfigInForce(c) = Policy(c)

(* Once both chains are accepted, the verifiers of a message wait, where it *)
(* is sent, for at least the confirmations its destination asks for: no     *)
(* packet is paid for that its destination can never verify.                *)
AcceptedPathwaysVerify ==
    (verdict = "pass" /\ steady = Chains) =>
        \A c \in Chains :
            ConfigInForce(c).uln["send"].confirmations
                >= ConfigInForce(Other(c)).uln["receive"].confirmations

=============================================================================
