--------------------------- MODULE MCInFlightScan ---------------------------
(* A small instance of InFlightScan for TLC. *)
EXTENDS InFlightScan, TLC

CONSTANTS g1, g2, g3, g0, p1, p2

\* Two packets that credit something leave Solana, another leaves Robinhood, and
\* one that credits nothing leaves Robinhood too.
TwoAndTwo == (g1 :> "Solana") @@ (g2 :> "Solana") @@ (g3 :> "Robinhood") @@ (g0 :> "Robinhood")
Amounts == (g1 :> 1) @@ (g2 :> 2) @@ (g3 :> 4) @@ (g0 :> 0)

Hosting(secondary) ==
    [role \in Roles |-> [c \in Chains |-> IF role = "primary" THEN p1 ELSE secondary[c]]]

\* Bounds: three blocks of Solana, two of Robinhood.
Heights == [c \in Chains |-> IF c = "Solana" THEN 3 ELSE 2]

Ends == {t \in [Chains -> 1..3] : t["Robinhood"] <= 2}
Early == [c \in Chains |-> 1]
Honest == [c \in Chains |-> None]
TwoHosts == [c \in Chains |-> p2]

\* Honest providers and any range, late starts included; or one host that lies
\* on one chain, in either role or, with the same host named twice, in both; the
\* ranges of a liar end two blocks on, while Solana may move on to a third.
SomeRequests ==
    {[from |-> f, to |-> t, host |-> Hosting(TwoHosts), liar |-> Honest] :
        f \in [Chains -> 1..2], t \in Ends} \cup
    {[from |-> Early, to |-> t, host |-> Hosting([TwoHosts EXCEPT ![c] = l[2]]),
      liar |-> [Honest EXCEPT ![c] = l[1]]] :
        t \in {[c \in Chains |-> 2]}, c \in Chains,
        l \in {<<p1, p2>>, <<p2, p2>>, <<p1, p1>>}}

=============================================================================
