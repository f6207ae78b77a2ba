---------------------------- MODULE BridgeLedger ----------------------------
(***************************************************************************)
(* What the bridge promises, without fees, limits, pauses or messages: a   *)
(* transfer opens a claim on the other chain, and a claim is settled at    *)
(* most once, for the amount it was opened with.  A claim that nobody      *)
(* settles stays a liability for ever.                                     *)
(***************************************************************************)
EXTENDS Integers

CONSTANTS Ids,              \* names of transfers
          TransferAmounts,  \* amounts of transfers, in shared units
          NoClaim           \* the value of a claim not opened

VARIABLES locked,  \* canonical tokens owed by the escrow, in shared units
          minted,  \* supply of the representation
          claims   \* claims[id], NoClaim or [to, amount, settled]

ledgerVars == <<locked, minted, claims>>

Init ==
    /\ locked = 0
    /\ minted = 0
    /\ claims = [id \in Ids |-> NoClaim]

\* Tokens are locked to open a claim on the representation.
OpenOnEvm(id, amount) ==
    /\ locked' = locked + amount
    /\ claims' = [claims EXCEPT ![id] =
                      [to |-> "Evm", amount |-> amount, settled |-> FALSE]]
    /\ UNCHANGED minted

\* The representation is burnt to open a claim on the locked tokens.
OpenOnSol(id, amount) ==
    /\ minted' = minted - amount
    /\ claims' = [claims EXCEPT ![id] =
                      [to |-> "Sol", amount |-> amount, settled |-> FALSE]]
    /\ UNCHANGED locked

Settle(id) ==
    LET c == claims[id]
    IN  /\ c # NoClaim /\ ~c.settled
        /\ claims' = [claims EXCEPT ![id].settled = TRUE]
        /\ locked' = IF c.to = "Sol" THEN locked - c.amount ELSE locked
        /\ minted' = IF c.to = "Evm" THEN minted + c.amount ELSE minted

\* An id names one claim, from the step that opens it on.
Open(id) ==
    /\ claims[id] = NoClaim
    /\ claims'[id] # NoClaim
    /\ \E amount \in TransferAmounts : OpenOnEvm(id, amount) \/ OpenOnSol(id, amount)

Next == \E id \in Ids : Open(id) \/ Settle(id)

Spec == Init /\ [][Next]_ledgerVars

=============================================================================
