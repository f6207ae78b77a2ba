----------------------- MODULE ProductionCheck_proofs -----------------------
(***************************************************************************)
(* What a pass of the production checker means, for any number of packets, *)
(* amounts and transactions and wherever the ranges of its manifest start: *)
(* exact packets when quiet, exact totals when paused, and no transaction  *)
(* between two observations overlooked.                                    *)
(***************************************************************************)
EXTENDS ProductionCheck, Arith_proofs

ChainStates == [height : Nat, paused : BOOLEAN, money : Int, donated : {0, 1},
                astray : SUBSET Aspects]

\* What moved on a chain up to a height, and the money that makes there.
SentBy(c, h) == {g \in Guids : SentFrom[g] = c /\ sentAt[g] # 0 /\ sentAt[g] <= h}
GotBy(c, h) == {g \in Guids : SentFrom[g] = Other(c) /\ gotAt[g] # 0 /\ gotAt[g] <= h}

Ledger(c, h) == IF c = "Solana" THEN Sum(SentBy(c, h)) - Sum(GotBy(c, h))
                                ELSE Sum(GotBy(c, h)) - Sum(SentBy(c, h))

\* Nothing moved on a chain later than a height.
SettledAt(c, h) ==
    \A g \in Guids : /\ SentFrom[g] = c => sentAt[g] <= h
                     /\ SentFrom[g] = Other(c) => gotAt[g] <= h

\* Two states differ in more than their heights.
Changed(s, t) == [s EXCEPT !.height = 0] # [t EXCEPT !.height = 0]

\* A state that a chain had: its books are those of its height; if it was paused
\* and the chain was not opened since, nothing moved since; and of the last
\* three states of the chain, each differs from the one before it.
Past(s, c) ==
    /\ s \in ChainStates /\ s.height <= chain[c].height
    /\ s.money = Ledger(c, s.height)
    /\ s.paused /\ openedAt[c] <= s.height => chain[c].paused /\ SettledAt(c, s.height)
    /\ s.height = chain[c].height => s = chain[c]
    /\ s.height + 1 = chain[c].height => s = before[c]
    /\ s.height + 2 = chain[c].height => Changed(s, before[c])

BridgeTyped ==
    /\ chain \in [Chains -> ChainStates] /\ before \in [Chains -> ChainStates]
    /\ sentAt \in [Guids -> Nat] /\ gotAt \in [Guids -> Nat]
    /\ openedAt \in [Chains -> Nat]

\* The last transaction of a chain changed something, and none is dated later.
History ==
    \A c \in Chains :
        /\ Past(chain[c], c) /\ Past(before[c], c)
        /\ openedAt[c] <= chain[c].height
        /\ SettledAt(c, chain[c].height)
        /\ IF chain[c].height = 0 THEN before[c] = chain[c]
           ELSE before[c].height + 1 = chain[c].height /\ Changed(before[c], chain[c])

\* What arrived was sent.
InOrder == \A g \in Guids : gotAt[g] # 0 => sentAt[g] # 0

BridgeInv == BridgeTyped /\ History /\ InOrder

\* What is collected was so: the later observation of a chain is of the same
\* height, of the next with something changed, or of a later one.
Later(s, t) == t.height = s.height + 1 => Changed(s, t)

CheckTyped ==
    /\ seen \in Seq([Chains -> ChainStates]) /\ Len(seen) <= 2
    /\ pinned # None => Past(pinned, "Robinhood") /\ Len(seen) < 2
    /\ slot # None => pinned # None

Collected ==
    /\ \A i \in 1 .. Len(seen) : \A c \in Chains : Past(seen[i][c], c)
    /\ Len(seen) = 1 /\ pinned # None => Later(seen[1]["Robinhood"], pinned)
    /\ Len(seen) = 2 => \A c \in Chains : Later(seen[1][c], seen[2][c])

\* The manifest lists what its ranges show, as the chains still do.
ManifestKept ==
    approved # None =>
        \E from \in Nat \ {0}, to \in [Chains -> Nat] :
            /\ \A c \in Chains : to[c] <= chain[c].height
            /\ approved.manifest = Manifest(from, to)

PassedFor ==
    verdict = "pass" => /\ Len(seen) = 2 /\ approved # None
                        /\ Valid(seen[1]) /\ Valid(seen[2]) /\ Stable(seen[1], seen[2])

Needed == seen # << >> \/ pinned # None => approved # None

CheckInv == CheckTyped /\ Collected /\ ManifestKept /\ PassedFor /\ Needed

ProductionInv == BridgeInv /\ CheckInv

-----------------------------------------------------------------------------
(* Sums of amounts. *)

LEMMA SumOfAmounts ==
    ASSUME NEW S \in SUBSET Guids
    PROVE  /\ IsFiniteSet(S) /\ Sum(S) \in Nat
           /\ \A x \in S : Amount[x] \in Int
<1>1. IsFiniteSet(S)
  BY CheckAssumption, FS_Subset
<1>2. \A x \in S : Amount[x] \in Nat
  BY CheckAssumption
<1> QED
  BY <1>1, <1>2, SumNat DEF Sum

LEMMA SumOfMore ==
    ASSUME NEW S \in SUBSET Guids, NEW g \in Guids \ S
    PROVE  Sum(S \cup {g}) = Amount[g] + Sum(S)
<1>1. \A x \in S \cup {g} : Amount[x] \in Int
  BY CheckAssumption
<1> QED
  BY <1>1, SumOfAmounts, SumAdd DEF Sum

LEMMA SumOfBoth ==
    ASSUME NEW S \in SUBSET Guids, NEW T \in SUBSET Guids, S \cap T = {}
    PROVE  Sum(S \cup T) = Sum(S) + Sum(T)
<1>1. \A x \in S \cup T : Amount[x] \in Int
  BY CheckAssumption
<1> QED
  BY <1>1, SumOfAmounts, SumDisjoint DEF Sum

LEMMA SumOfLess ==
    ASSUME NEW S \in SUBSET Guids, NEW T \in SUBSET S
    PROVE  Sum(S \ T) = Sum(S) - Sum(T)
<1>1. (S \ T) \cup T = S /\ (S \ T) \cap T = {}
  OBVIOUS
<1>2. Sum(S) = Sum(S \ T) + Sum(T)
  BY <1>1, SumOfBoth
<1> QED
  BY <1>2, SumOfAmounts

\* Packets have positive amounts: no two sets, one in the other, sum up the same.
LEMMA SumTellsApart ==
    ASSUME NEW S \in SUBSET Guids, NEW T \in SUBSET S, Sum(S) = Sum(T)
    PROVE  S = T
<1>1. SUFFICES ASSUME NEW g \in S \ T PROVE FALSE
  OBVIOUS
<1>2. Sum(S \ T) = 0
  BY SumOfLess, SumOfAmounts
<1>3. Sum(S \ T) = Amount[g] + Sum((S \ T) \ {g})
  BY SumOfAmounts, SumRemove DEF Sum
<1>4. Sum((S \ T) \ {g}) \in Nat /\ Amount[g] \in Nat \ {0}
  BY SumOfAmounts, CheckAssumption
<1> QED
  BY <1>2, <1>3, <1>4

-----------------------------------------------------------------------------
(* What every transaction of a chain does. *)

Advance(c) ==
    /\ chain' \in [Chains -> ChainStates] /\ before' \in [Chains -> ChainStates]
    /\ openedAt' \in [Chains -> Nat]
    /\ sentAt' \in [Guids -> Nat] /\ gotAt' \in [Guids -> Nat]
    /\ chain'[c].height = chain[c].height + 1 /\ before'[c] = chain[c]
    /\ Changed(chain[c], chain'[c])
    /\ \A d \in Chains \ {c} : /\ chain'[d] = chain[d] /\ before'[d] = before[d]
                               /\ openedAt'[d] = openedAt[d]
    /\ \A g \in Guids :
          /\ \/ sentAt'[g] = sentAt[g]
             \/ /\ SentFrom[g] = c /\ sentAt[g] = 0 /\ ~chain[c].paused
                /\ sentAt'[g] = chain[c].height + 1
          /\ \/ gotAt'[g] = gotAt[g]
             \/ /\ SentFrom[g] = Other(c) /\ gotAt[g] = 0 /\ ~chain[c].paused
                /\ gotAt'[g] = chain[c].height + 1
    /\ chain'[c].money = Ledger(c, chain[c].height)'
    /\ openedAt'[c] \in {openedAt[c], chain[c].height + 1}
    /\ chain[c].paused /\ ~chain'[c].paused => openedAt'[c] = chain[c].height + 1

LEMMA OtherSide ==
    ASSUME NEW c \in Chains
    PROVE  Other(c) \in Chains /\ Other(c) # c /\ Other(Other(c)) = c
           /\ \A d \in Chains : d = c \/ d = Other(c)
BY DEF Chains, Other

\* The transactions up to a height that a chain had are not added to.
LEMMA SidesStay ==
    ASSUME BridgeInv, NEW c \in Chains, Advance(c), NEW d \in Chains, NEW h \in Nat,
           h <= chain[d].height
    PROVE  SentBy(d, h)' = SentBy(d, h) /\ GotBy(d, h)' = GotBy(d, h)
<1>1. chain[c].height \in Nat /\ (d = c \/ d = Other(c)) /\ Other(c) # c
  BY OtherSide DEF BridgeInv, BridgeTyped, ChainStates
<1>2. ASSUME NEW g \in Guids, SentFrom[g] = d
      PROVE  sentAt'[g] # 0 /\ sentAt'[g] <= h <=> sentAt[g] # 0 /\ sentAt[g] <= h
  <2>1. \/ sentAt'[g] = sentAt[g]
        \/ SentFrom[g] = c /\ sentAt[g] = 0 /\ sentAt'[g] = chain[c].height + 1
    BY DEF Advance
  <2>2. sentAt[g] \in Nat
    BY DEF BridgeInv, BridgeTyped
  <2> QED
    BY <1>1, <1>2, <2>1, <2>2
<1>3. ASSUME NEW g \in Guids, SentFrom[g] = Other(d)
      PROVE  gotAt'[g] # 0 /\ gotAt'[g] <= h <=> gotAt[g] # 0 /\ gotAt[g] <= h
  <2>1. \/ gotAt'[g] = gotAt[g]
        \/ SentFrom[g] = Other(c) /\ gotAt[g] = 0 /\ gotAt'[g] = chain[c].height + 1
    BY DEF Advance
  <2>2. gotAt[g] \in Nat
    BY DEF BridgeInv, BridgeTyped
  <2>3. Other(d) = Other(c) => d = c
    BY OtherSide
  <2> QED
    BY <1>1, <1>3, <2>1, <2>2, <2>3
<1> QED
  BY <1>2, <1>3 DEF SentBy, GotBy

LEMMA PastStays ==
    ASSUME BridgeInv, NEW c \in Chains, Advance(c), NEW d \in Chains, NEW s, Past(s, d)
    PROVE  Past(s, d)'
<1>1. /\ s \in ChainStates /\ s.height \in Nat /\ s.height <= chain[d].height
      /\ chain[d].height \in Nat /\ chain[c].height \in Nat
  BY DEF Past, BridgeInv, BridgeTyped, ChainStates
<1>2. Ledger(d, s.height)' = Ledger(d, s.height)
  BY <1>1, SidesStay DEF Ledger
<1>3. CASE d # c
  <2>1. chain'[d] = chain[d] /\ before'[d] = before[d] /\ openedAt'[d] = openedAt[d]
    BY <1>3 DEF Advance
  <2>2. SettledAt(d, s.height) => SettledAt(d, s.height)'
    <3>1. \A g \in Guids : /\ SentFrom[g] = d => sentAt'[g] = sentAt[g]
                           /\ SentFrom[g] = Other(d) => gotAt'[g] = gotAt[g]
      BY <1>3, OtherSide DEF Advance
    <3> QED
      BY <3>1 DEF SettledAt
  <2> QED
    BY <1>1, <1>2, <2>1, <2>2 DEF Past
<1>4. CASE d = c
  <2>1. /\ chain'[c].height = chain[c].height + 1 /\ before'[c] = chain[c]
        /\ Changed(chain[c], chain'[c])
    BY DEF Advance
  <2>2. s.paused /\ openedAt'[c] <= s.height => chain'[c].paused /\ SettledAt(c, s.height)'
    <3>. SUFFICES ASSUME s.paused, openedAt'[c] <= s.height
                  PROVE  chain'[c].paused /\ SettledAt(c, s.height)'
      OBVIOUS
    <3>1. openedAt'[c] = openedAt[c]
      BY <1>1, <1>4 DEF Advance
    <3>2. chain[c].paused /\ SettledAt(c, s.height)
      BY <1>4, <3>1 DEF Past
    <3>3. chain'[c].paused
      BY <1>1, <1>4, <3>2 DEF Advance
    <3>4. \A g \in Guids : sentAt'[g] = sentAt[g] /\ gotAt'[g] = gotAt[g]
      BY <3>2 DEF Advance
    <3> QED
      BY <3>2, <3>3, <3>4 DEF SettledAt
  <2>3. /\ s.height # chain'[c].height
        /\ s.height + 1 = chain'[c].height => s = chain[c]
    BY <1>1, <1>4, <2>1 DEF Past
  <2>4. s.height + 2 = chain'[c].height => Changed(s, chain[c])
    <3>. SUFFICES ASSUME s.height + 1 = chain[c].height
                  PROVE  Changed(s, chain[c])
      BY <1>1, <2>1
    <3>1. s = before[c]
      BY <1>4 DEF Past
    <3>2. chain[c].height # 0
      BY <1>1, <1>4
    <3> QED
      BY <3>1, <3>2 DEF BridgeInv, History
  <2> QED
    BY <1>1, <1>2, <1>4, <2>1, <2>2, <2>3, <2>4 DEF Past
<1> QED
  BY <1>3, <1>4

LEMMA BridgeAdvances ==
    ASSUME BridgeInv, NEW c \in Chains, Advance(c), InOrder'
    PROVE  BridgeInv'
<1>1. BridgeTyped'
  BY DEF Advance, BridgeTyped
<1>2. ASSUME NEW d \in Chains
      PROVE  /\ openedAt'[d] <= chain'[d].height
             /\ SettledAt(d, chain[d].height)'
  <2>1. /\ openedAt[d] <= chain[d].height /\ SettledAt(d, chain[d].height)
        /\ chain[d].height \in Nat /\ openedAt[d] \in Nat
    BY DEF BridgeInv, History, BridgeTyped, ChainStates
  <2>2. \A g \in Guids : /\ sentAt[g] \in Nat /\ gotAt[g] \in Nat
                         /\ sentAt'[g] \in {sentAt[g], chain[c].height + 1}
                         /\ gotAt'[g] \in {gotAt[g], chain[c].height + 1}
    BY DEF BridgeInv, BridgeTyped, Advance
  <2>3. CASE d = c
    BY <2>1, <2>2, <2>3 DEF Advance, SettledAt
  <2>4. CASE d # c
    <3>1. \A g \in Guids : /\ SentFrom[g] = d => sentAt'[g] = sentAt[g]
                           /\ SentFrom[g] = Other(d) => gotAt'[g] = gotAt[g]
      BY <2>4, OtherSide DEF Advance
    <3> QED
      BY <2>1, <2>4, <3>1 DEF Advance, SettledAt
  <2> QED
    BY <2>3, <2>4
<1>3. ASSUME NEW d \in Chains
      PROVE  Past(before[d], d)'
  <2>1. before'[d] \in {before[d], chain[d]}
    BY DEF Advance
  <2>2. PICK s : s = before'[d]
    OBVIOUS
  <2>3. Past(s, d)
    BY <2>1, <2>2 DEF BridgeInv, History
  <2>4. Past(s, d)'
    BY <2>3, PastStays
  <2> QED
    BY <2>2, <2>4
<1>4. ASSUME NEW d \in Chains
      PROVE  Past(chain[d], d)'
  <2>1. CASE d = c
    <3>1. /\ chain'[c] \in ChainStates
          /\ chain'[c].money = Ledger(c, chain[c].height)'
      BY DEF Advance
    <3>2. SettledAt(c, chain[c].height)' /\ openedAt'[c] <= chain'[c].height
      BY <1>2
    <3>3. chain'[c].height \in Nat
      BY <3>1 DEF ChainStates
    <3>4. PICK s : s = chain'[c]
      OBVIOUS
    <3>5. Past(s, c)'
      BY <3>1, <3>2, <3>3, <3>4 DEF Past
    <3> QED
      BY <2>1, <3>4, <3>5
  <2>2. CASE d # c
    <3>1. PICK s : s = chain'[d]
      OBVIOUS
    <3>2. s = chain[d]
      BY <2>2, <3>1 DEF Advance
    <3>3. Past(s, d)'
      BY <3>2, PastStays DEF BridgeInv, History
    <3> QED
      BY <3>1, <3>3
  <2> QED
    BY <2>1, <2>2
<1>5. ASSUME NEW d \in Chains
      PROVE  IF chain'[d].height = 0 THEN before'[d] = chain'[d]
             ELSE before'[d].height + 1 = chain'[d].height /\ Changed(before'[d], chain'[d])
  <2>1. chain[d].height \in Nat
    BY DEF BridgeInv, BridgeTyped, ChainStates
  <2>2. CASE d = c
    BY <2>1, <2>2 DEF Advance
  <2>3. CASE d # c
    BY <2>3 DEF Advance, BridgeInv, History
  <2> QED
    BY <2>2, <2>3
<1>6. History'
  BY <1>2, <1>3, <1>4, <1>5 DEF History, Past, Changed
<1> QED
  BY <1>1, <1>6 DEF BridgeInv

-----------------------------------------------------------------------------
(* The transactions. *)

LEMMA FieldChanged ==
    ASSUME NEW s \in ChainStates, NEW t \in ChainStates,
           s.paused # t.paused \/ s.money # t.money \/ s.donated # t.donated
                               \/ s.astray # t.astray
    PROVE  Changed(s, t)
<1>. DEFINE u == [s EXCEPT !.height = 0]
            v == [t EXCEPT !.height = 0]
<1>1. /\ u.paused = s.paused /\ u.money = s.money /\ u.donated = s.donated
      /\ u.astray = s.astray
  BY DEF ChainStates
<1>2. /\ v.paused = t.paused /\ v.money = t.money /\ v.donated = t.donated
      /\ v.astray = t.astray
  BY DEF ChainStates
<1>3. u # v
  BY <1>1, <1>2
<1> QED
  BY <1>3 DEF Changed

\* Whatever a transaction commits, with what it says of packets and openings.
LEMMA CommitAdvances ==
    ASSUME BridgeInv, NEW c \in Chains, NEW s \in ChainStates, Commit(c, s),
           s.height = chain[c].height,
           s.paused # chain[c].paused \/ s.money # chain[c].money
               \/ s.donated # chain[c].donated \/ s.astray # chain[c].astray,
           sentAt' \in [Guids -> Nat], gotAt' \in [Guids -> Nat],
           openedAt' \in [Chains -> Nat],
           \A d \in Chains \ {c} : openedAt'[d] = openedAt[d],
           \A g \in Guids :
              /\ \/ sentAt'[g] = sentAt[g]
                 \/ /\ SentFrom[g] = c /\ sentAt[g] = 0 /\ ~chain[c].paused
                    /\ sentAt'[g] = chain[c].height + 1
              /\ \/ gotAt'[g] = gotAt[g]
                 \/ /\ SentFrom[g] = Other(c) /\ gotAt[g] = 0 /\ ~chain[c].paused
                    /\ gotAt'[g] = chain[c].height + 1,
           s.money = Ledger(c, chain[c].height)',
           openedAt'[c] \in {openedAt[c], chain[c].height + 1},
           chain[c].paused /\ ~s.paused => openedAt'[c] = chain[c].height + 1
    PROVE  Advance(c)
<1>. DEFINE t == [s EXCEPT !.height = @ + 1]
<1>1. /\ t \in ChainStates /\ t.height = chain[c].height + 1 /\ t.paused = s.paused
      /\ t.money = s.money /\ t.donated = s.donated /\ t.astray = s.astray
  BY DEF ChainStates
<1>2. /\ chain' = [chain EXCEPT ![c] = t] /\ before' = [before EXCEPT ![c] = chain[c]]
      /\ chain \in [Chains -> ChainStates] /\ before \in [Chains -> ChainStates]
  BY DEF Commit, BridgeInv, BridgeTyped
<1>. HIDE DEF t
<1>3. Changed(chain[c], t)
  BY <1>1, <1>2, FieldChanged
<1>4. /\ chain' \in [Chains -> ChainStates] /\ before' \in [Chains -> ChainStates]
      /\ chain'[c] = t /\ before'[c] = chain[c]
      /\ \A d \in Chains \ {c} : chain'[d] = chain[d] /\ before'[d] = before[d]
  BY <1>1, <1>2
<1> QED
  BY <1>1, <1>3, <1>4 DEF Advance

\* The books of the last state, and of it with one packet more.
LEMMA BooksNow ==
    ASSUME BridgeInv, NEW c \in Chains
    PROVE  /\ chain[c].money = Ledger(c, chain[c].height)
           /\ chain[c].money \in Int /\ chain[c].height \in Nat
           /\ chain[c] \in ChainStates
BY DEF BridgeInv, History, Past, BridgeTyped, ChainStates

LEMMA CommitHeight ==
    ASSUME BridgeInv, NEW c \in Chains, NEW s \in ChainStates, Commit(c, s),
           s.height = chain[c].height
    PROVE  chain'[c].height = chain[c].height + 1
BY DEF Commit, BridgeInv, BridgeTyped, ChainStates

LEMMA NothingMoves ==
    ASSUME BridgeInv, NEW c \in Chains, UNCHANGED <<sentAt, gotAt>>,
           chain'[c].height = chain[c].height + 1
    PROVE  Ledger(c, chain[c].height)' = chain[c].money
<1>1. \A g \in Guids : /\ SentFrom[g] = c => sentAt[g] <= chain[c].height
                       /\ SentFrom[g] = Other(c) => gotAt[g] <= chain[c].height
                       /\ sentAt[g] \in Nat /\ gotAt[g] \in Nat
  BY DEF BridgeInv, History, SettledAt, BridgeTyped
<1>2. /\ SentBy(c, chain[c].height)' = SentBy(c, chain[c].height)
      /\ GotBy(c, chain[c].height)' = GotBy(c, chain[c].height)
  BY <1>1, BooksNow DEF SentBy, GotBy
<1> QED
  BY <1>2, BooksNow DEF Ledger

LEMMA PacketSent ==
    ASSUME BridgeInv, NEW g \in Guids, NEW c, c = SentFrom[g], sentAt[g] = 0,
           chain'[c].height = chain[c].height + 1, UNCHANGED gotAt,
           sentAt' = [sentAt EXCEPT ![g] = chain[c].height + 1]
    PROVE  Ledger(c, chain[c].height)' =
               chain[c].money + (IF c = "Solana" THEN Amount[g] ELSE -Amount[g])
<1>0. c \in Chains /\ Amount[g] \in Nat
  BY CheckAssumption
<1>. DEFINE sent == SentBy(c, chain[c].height)
            got == GotBy(c, chain[c].height)
<1>1. \A h \in Guids : /\ SentFrom[h] = c => sentAt[h] <= chain[c].height
                       /\ SentFrom[h] = Other(c) => gotAt[h] <= chain[c].height
                       /\ sentAt[h] \in Nat /\ gotAt[h] \in Nat
  BY <1>0 DEF BridgeInv, History, SettledAt, BridgeTyped
<1>2. \A h \in Guids : sentAt'[h] = IF h = g THEN chain[c].height + 1 ELSE sentAt[h]
  BY DEF BridgeInv, BridgeTyped
<1>3. /\ SentBy(c, chain[c].height)' = sent \cup {g} /\ g \in Guids \ sent
      /\ GotBy(c, chain[c].height)' = got
  <2>1. chain[c].height \in Nat
    BY <1>0, BooksNow
  <2>2. SentBy(c, chain[c].height)' = sent \cup {g}
    BY <1>1, <1>2, <2>1 DEF SentBy
  <2>3. g \in Guids \ sent
    BY DEF SentBy
  <2>4. GotBy(c, chain[c].height)' = got
    BY <1>1, <2>1 DEF GotBy
  <2> QED
    BY <2>2, <2>3, <2>4
<1>4. sent \in SUBSET Guids /\ got \in SUBSET Guids
  BY DEF SentBy, GotBy
<1>. HIDE DEF sent, got
<1>5. Sum(sent \cup {g}) = Amount[g] + Sum(sent) /\ Sum(sent) \in Nat /\ Sum(got) \in Nat
  BY <1>3, <1>4, SumOfMore, SumOfAmounts
<1>6. chain[c].money = IF c = "Solana" THEN Sum(sent) - Sum(got) ELSE Sum(got) - Sum(sent)
  BY <1>0, BooksNow DEF Ledger, sent, got
<1>7. Ledger(c, chain[c].height)' = IF c = "Solana" THEN Sum(sent \cup {g}) - Sum(got)
                                    ELSE Sum(got) - Sum(sent \cup {g})
  BY <1>3 DEF Ledger
<1> QED
  BY <1>0, <1>5, <1>6, <1>7

LEMMA PacketReceived ==
    ASSUME BridgeInv, NEW g \in Guids, NEW c, c = Other(SentFrom[g]), gotAt[g] = 0,
           chain'[c].height = chain[c].height + 1, UNCHANGED sentAt,
           gotAt' = [gotAt EXCEPT ![g] = chain[c].height + 1]
    PROVE  Ledger(c, chain[c].height)' =
               chain[c].money + (IF c = "Solana" THEN -Amount[g] ELSE Amount[g])
<1>0. c \in Chains /\ Amount[g] \in Nat /\ SentFrom[g] = Other(c)
  BY CheckAssumption, OtherSide
<1>. DEFINE sent == SentBy(c, chain[c].height)
            got == GotBy(c, chain[c].height)
<1>1. \A h \in Guids : /\ SentFrom[h] = c => sentAt[h] <= chain[c].height
                       /\ SentFrom[h] = Other(c) => gotAt[h] <= chain[c].height
                       /\ sentAt[h] \in Nat /\ gotAt[h] \in Nat
  BY <1>0 DEF BridgeInv, History, SettledAt, BridgeTyped
<1>2. \A h \in Guids : gotAt'[h] = IF h = g THEN chain[c].height + 1 ELSE gotAt[h]
  BY DEF BridgeInv, BridgeTyped
<1>3. /\ GotBy(c, chain[c].height)' = got \cup {g} /\ g \in Guids \ got
      /\ SentBy(c, chain[c].height)' = sent
  <2>1. chain[c].height \in Nat
    BY <1>0, BooksNow
  <2>2. GotBy(c, chain[c].height)' = got \cup {g}
    <3>1. PICK k : k = chain[c].height /\ chain'[c].height = k + 1 /\ k \in Nat
      BY <2>1
    <3>2. \A h \in Guids : SentFrom[h] = Other(c) =>
              (gotAt'[h] # 0 /\ gotAt'[h] <= k + 1 <=> h = g \/ (gotAt[h] # 0 /\ gotAt[h] <= k))
      BY <1>1, <1>2, <3>1
    <3> QED
      BY <1>0, <3>1, <3>2 DEF GotBy
  <2>3. g \in Guids \ got
    BY DEF GotBy
  <2>4. SentBy(c, chain[c].height)' = sent
    BY <1>1, <2>1 DEF SentBy
  <2> QED
    BY <2>2, <2>3, <2>4
<1>4. sent \in SUBSET Guids /\ got \in SUBSET Guids
  BY DEF SentBy, GotBy
<1>. HIDE DEF sent, got
<1>5. Sum(got \cup {g}) = Amount[g] + Sum(got) /\ Sum(sent) \in Nat /\ Sum(got) \in Nat
  BY <1>3, <1>4, SumOfMore, SumOfAmounts
<1>6. chain[c].money = IF c = "Solana" THEN Sum(sent) - Sum(got) ELSE Sum(got) - Sum(sent)
  BY <1>0, BooksNow DEF Ledger, sent, got
<1>7. Ledger(c, chain[c].height)' = IF c = "Solana" THEN Sum(sent) - Sum(got \cup {g})
                                    ELSE Sum(got \cup {g}) - Sum(sent)
  BY <1>3 DEF Ledger
<1> QED
  BY <1>0, <1>5, <1>6, <1>7

LEMMA SetPauseAdvances ==
    ASSUME BridgeInv, NEW c \in Chains, NEW paused \in BOOLEAN, SetPause(c, paused)
    PROVE  Advance(c) /\ InOrder'
<1>. DEFINE s == [chain[c] EXCEPT !.paused = paused]
<1>1. /\ s \in ChainStates /\ s.height = chain[c].height /\ s.money = chain[c].money
      /\ s.paused = paused /\ chain[c].height \in Nat /\ openedAt \in [Chains -> Nat]
      /\ sentAt \in [Guids -> Nat] /\ gotAt \in [Guids -> Nat]
  BY DEF ChainStates, BridgeInv, BridgeTyped
<1>2. /\ Commit(c, s) /\ chain[c].paused # paused /\ UNCHANGED <<sentAt, gotAt>>
      /\ openedAt' = IF paused THEN openedAt
                     ELSE [openedAt EXCEPT ![c] = chain[c].height + 1]
  BY DEF SetPause
<1>. HIDE DEF s
<1>3. Ledger(c, chain[c].height)' = s.money
  BY <1>1, <1>2, CommitHeight, NothingMoves
<1>4. /\ openedAt' \in [Chains -> Nat] /\ \A d \in Chains \ {c} : openedAt'[d] = openedAt[d]
      /\ openedAt'[c] \in {openedAt[c], chain[c].height + 1}
      /\ ~paused => openedAt'[c] = chain[c].height + 1
  BY <1>1, <1>2
<1>5. Advance(c)
  BY <1>1, <1>2, <1>3, <1>4, CommitAdvances
<1> QED
  BY <1>2, <1>5 DEF BridgeInv, InOrder

LEMMA SendAdvances ==
    ASSUME BridgeInv, NEW g \in Guids, Send(g)
    PROVE  Advance(SentFrom[g]) /\ InOrder'
<1>. PICK c : c = SentFrom[g]
  OBVIOUS
<1>. DEFINE moved == IF c = "Solana" THEN Amount[g] ELSE -Amount[g]
            s == [chain[c] EXCEPT !.money = @ + moved]
<1>0. c \in Chains /\ moved \in Int /\ moved # 0
  BY CheckAssumption
<1>1. /\ s \in ChainStates /\ s.height = chain[c].height /\ s.money = chain[c].money + moved
      /\ s.paused = chain[c].paused /\ chain[c].height \in Nat /\ chain[c].money \in Int
      /\ openedAt \in [Chains -> Nat]
      /\ sentAt \in [Guids -> Nat] /\ gotAt \in [Guids -> Nat]
  BY <1>0 DEF ChainStates, BridgeInv, BridgeTyped
<1>2. /\ Commit(c, s) /\ sentAt[g] = 0 /\ ~chain[c].paused /\ UNCHANGED <<gotAt, openedAt>>
      /\ sentAt' = [sentAt EXCEPT ![g] = chain[c].height + 1]
  BY DEF Send
<1>. HIDE DEF s
<1>3. Ledger(c, chain[c].height)' = s.money
  BY <1>0, <1>1, <1>2, CommitHeight, PacketSent
<1>4. /\ sentAt' \in [Guids -> Nat] /\ sentAt'[g] = chain[c].height + 1
      /\ \A h \in Guids \ {g} : sentAt'[h] = sentAt[h]
  BY <1>1, <1>2
<1>. HIDE DEF moved
<1>5. s.money # chain[c].money
  BY <1>0, <1>1
<1>6. Advance(c)
  BY <1>0, <1>1, <1>2, <1>3, <1>4, <1>5, CommitAdvances
<1>7. InOrder'
  BY <1>1, <1>2, <1>4 DEF BridgeInv, InOrder
<1> QED
  BY <1>6, <1>7

LEMMA ReceiveAdvances ==
    ASSUME BridgeInv, NEW g \in Guids, Receive(g)
    PROVE  Advance(Other(SentFrom[g])) /\ InOrder'
<1>. PICK c : c = Other(SentFrom[g])
  OBVIOUS
<1>. DEFINE moved == IF c = "Solana" THEN -Amount[g] ELSE Amount[g]
            s == [chain[c] EXCEPT !.money = @ + moved]
<1>0. c \in Chains /\ moved \in Int /\ moved # 0 /\ SentFrom[g] = Other(c)
  BY CheckAssumption, OtherSide
<1>1. /\ s \in ChainStates /\ s.height = chain[c].height /\ s.money = chain[c].money + moved
      /\ s.paused = chain[c].paused /\ chain[c].height \in Nat /\ chain[c].money \in Int
      /\ openedAt \in [Chains -> Nat]
      /\ sentAt \in [Guids -> Nat] /\ gotAt \in [Guids -> Nat]
  BY <1>0 DEF ChainStates, BridgeInv, BridgeTyped
<1>2. /\ Commit(c, s) /\ gotAt[g] = 0 /\ sentAt[g] # 0 /\ ~chain[c].paused
      /\ UNCHANGED <<sentAt, openedAt>>
      /\ gotAt' = [gotAt EXCEPT ![g] = chain[c].height + 1]
  BY DEF Receive
<1>. HIDE DEF s
<1>3. Ledger(c, chain[c].height)' = s.money
  BY <1>0, <1>1, <1>2, CommitHeight, PacketReceived
<1>4. /\ gotAt' \in [Guids -> Nat] /\ gotAt'[g] = chain[c].height + 1
      /\ \A h \in Guids \ {g} : gotAt'[h] = gotAt[h]
  BY <1>1, <1>2
<1>. HIDE DEF moved
<1>5. s.money # chain[c].money
  <2>1. moved \in Int /\ moved # 0
    BY <1>0
  <2>2. s.money = chain[c].money + moved /\ chain[c].money \in Int
    BY <1>1
  <2> QED
    BY <2>1, <2>2
<1>6. Advance(c)
  <2>1. \A h \in Guids : \/ gotAt'[h] = gotAt[h]
                         \/ /\ SentFrom[h] = Other(c) /\ gotAt[h] = 0 /\ ~chain[c].paused
                            /\ gotAt'[h] = chain[c].height + 1
    BY <1>0, <1>2, <1>4
  <2>2. /\ sentAt' = sentAt /\ openedAt' = openedAt
        /\ openedAt'[c] \in {openedAt[c], chain[c].height + 1}
        /\ ~(chain[c].paused /\ ~s.paused)
    BY <1>1, <1>2
  <2> QED
    BY <1>0, <1>1, <1>2, <1>3, <1>4, <1>5, <2>1, <2>2, CommitAdvances
<1>7. InOrder'
  BY <1>1, <1>2, <1>4 DEF BridgeInv, InOrder
<1> QED
  BY <1>6, <1>7

LEMMA DonateAdvances ==
    ASSUME BridgeInv, Donate
    PROVE  Advance("Solana") /\ InOrder'
<1>. PICK c \in Chains : c = "Solana"
  BY DEF Chains
<1>. DEFINE s == [chain[c] EXCEPT !.donated = 1]
<1>1. /\ s \in ChainStates /\ s.height = chain[c].height /\ s.money = chain[c].money
      /\ s.paused = chain[c].paused /\ s.donated = 1
      /\ chain[c].height \in Nat /\ openedAt \in [Chains -> Nat]
      /\ sentAt \in [Guids -> Nat] /\ gotAt \in [Guids -> Nat]
  BY DEF ChainStates, BridgeInv, BridgeTyped
<1>2. /\ Commit(c, s) /\ chain[c].donated = 0 /\ UNCHANGED <<sentAt, gotAt, openedAt>>
  BY DEF Donate
<1>. HIDE DEF s
<1>3. Ledger(c, chain[c].height)' = s.money
  BY <1>1, <1>2, CommitHeight, NothingMoves
<1>4. Advance(c)
  BY <1>1, <1>2, <1>3, CommitAdvances
<1> QED
  BY <1>2, <1>4 DEF BridgeInv, InOrder

LEMMA ReconfigureAdvances ==
    ASSUME BridgeInv, NEW c \in Chains, NEW aspect \in Changing, Reconfigure(c, aspect)
    PROVE  Advance(c) /\ InOrder'
<1>. DEFINE toggled == IF aspect \in chain[c].astray THEN chain[c].astray \ {aspect}
                       ELSE chain[c].astray \cup {aspect}
            s == [chain[c] EXCEPT !.astray = toggled]
<1>0. aspect \in Aspects
  BY CheckAssumption
<1>1. chain[c].astray \in SUBSET Aspects
  BY DEF ChainStates, BridgeInv, BridgeTyped
<1>2. toggled \in SUBSET Aspects /\ toggled # chain[c].astray
  BY <1>0, <1>1
<1>3. /\ Commit(c, [chain[c] EXCEPT !.astray =
                       IF aspect \in @ THEN @ \ {aspect} ELSE @ \cup {aspect}])
      /\ UNCHANGED <<sentAt, gotAt, openedAt>>
  BY DEF Reconfigure
<1>4. Commit(c, s)
  BY <1>3 DEF Commit
<1>. HIDE DEF toggled
<1>5. /\ s \in ChainStates /\ s.height = chain[c].height /\ s.money = chain[c].money
      /\ s.paused = chain[c].paused /\ s.astray = toggled
      /\ chain[c].height \in Nat /\ openedAt \in [Chains -> Nat]
      /\ sentAt \in [Guids -> Nat] /\ gotAt \in [Guids -> Nat]
  BY <1>2 DEF ChainStates, BridgeInv, BridgeTyped
<1>. HIDE DEF s
<1>6. Ledger(c, chain[c].height)' = s.money
  BY <1>3, <1>4, <1>5, CommitHeight, NothingMoves
<1>7. Advance(c)
  BY <1>2, <1>3, <1>4, <1>5, <1>6, CommitAdvances
<1> QED
  BY <1>3, <1>7 DEF BridgeInv, InOrder

Transaction ==
    \/ \E c \in Chains, paused \in BOOLEAN : SetPause(c, paused)
    \/ \E g \in Guids : Send(g) \/ Receive(g)
    \/ Donate
    \/ \E c \in Chains, aspect \in Changing : Reconfigure(c, aspect)

LEMMA TransactionAdvances ==
    ASSUME BridgeInv, Transaction
    PROVE  /\ \E c \in Chains : Advance(c)
           /\ InOrder'
           /\ UNCHANGED <<approved, checkVars>>
<1>1. \A g \in Guids : SentFrom[g] \in Chains /\ Other(SentFrom[g]) \in Chains
  BY CheckAssumption, OtherSide
<1>2. "Solana" \in Chains
  BY DEF Chains
<1>3. UNCHANGED <<approved, checkVars>>
  BY DEF Transaction, SetPause, Send, Receive, Donate, Reconfigure
<1> QED
  BY <1>1, <1>2, <1>3, SetPauseAdvances, SendAdvances, ReceiveAdvances, DonateAdvances,
     ReconfigureAdvances DEF Transaction

-----------------------------------------------------------------------------
(* The check. *)

LEMMA ManifestStays ==
    ASSUME BridgeInv, NEW c \in Chains, Advance(c), NEW from \in Nat \ {0},
           NEW to \in [Chains -> Nat], \A d \in Chains : to[d] <= chain[d].height
    PROVE  Manifest(from, to)' = Manifest(from, to)
<1>1. \A g \in Guids : /\ SentFrom[g] \in Chains /\ Other(SentFrom[g]) \in Chains
                       /\ sentAt[g] \in Nat /\ gotAt[g] \in Nat
  BY CheckAssumption, OtherSide DEF BridgeInv, BridgeTyped
<1>2. chain[c].height \in Nat /\ to[c] <= chain[c].height
  BY DEF BridgeInv, BridgeTyped, ChainStates
<1>3. ASSUME NEW g \in Guids
      PROVE  sentAt'[g] \in from .. to[SentFrom[g]] <=> sentAt[g] \in from .. to[SentFrom[g]]
  <2>1. \/ sentAt'[g] = sentAt[g]
        \/ SentFrom[g] = c /\ sentAt[g] = 0 /\ sentAt'[g] = chain[c].height + 1
    BY DEF Advance
  <2> QED
    BY <1>1, <1>2, <2>1
<1>4. ASSUME NEW g \in Guids
      PROVE  gotAt'[g] \in from .. to[Other(SentFrom[g])]
                 <=> gotAt[g] \in from .. to[Other(SentFrom[g])]
  <2>1. \/ gotAt'[g] = gotAt[g]
        \/ Other(SentFrom[g]) = c /\ gotAt[g] = 0 /\ gotAt'[g] = chain[c].height + 1
    BY OtherSide DEF Advance
  <2>2. PICK d \in Chains : d = Other(SentFrom[g])
    BY <1>1
  <2>3. to[d] \in Nat
    BY <2>2
  <2> QED
    BY <1>1, <1>2, <2>1, <2>2, <2>3
<1>5. Listed(from, to)' = Listed(from, to) /\ Delivered(from, to)' = Delivered(from, to)
  BY <1>3, <1>4 DEF Listed, Delivered
<1> QED
  BY <1>5 DEF Manifest

LEMMA CheckDuringTransaction ==
    ASSUME ProductionInv, NEW c \in Chains, Advance(c), UNCHANGED <<approved, checkVars>>
    PROVE  CheckInv'
<1>1. slot' = slot /\ pinned' = pinned /\ seen' = seen /\ verdict' = verdict
      /\ approved' = approved /\ BridgeInv /\ CheckInv
  BY DEF checkVars, ProductionInv
<1>2. ASSUME NEW d \in Chains, NEW s, Past(s, d)
      PROVE  Past(s, d)'
  BY <1>1, <1>2, PastStays
<1>3. pinned' # None => Past(pinned, "Robinhood")'
  <2>. SUFFICES ASSUME pinned # None PROVE Past(pinned, "Robinhood")'
    BY <1>1
  <2>1. PICK s : s = pinned
    OBVIOUS
  <2>2. Past(s, "Robinhood")'
    BY <1>1, <1>2, <2>1 DEF CheckInv, CheckTyped, Chains
  <2> QED
    BY <1>1, <2>1, <2>2
<1>4. CheckTyped'
  BY <1>1, <1>3 DEF CheckInv, CheckTyped
<1>5. Collected'
  <2>1. ASSUME NEW i \in 1 .. Len(seen), NEW d \in Chains
        PROVE  Past(seen[i][d], d)'
    <3>1. PICK s : s = seen[i][d]
      OBVIOUS
    <3>2. Past(s, d)'
      BY <1>1, <1>2, <3>1 DEF CheckInv, Collected
    <3> QED
      BY <1>1, <3>1, <3>2
  <2> QED
    BY <1>1, <2>1 DEF CheckInv, Collected
<1>6. ManifestKept'
  <2>. SUFFICES ASSUME approved # None
                PROVE  \E from \in Nat \ {0}, to \in [Chains -> Nat] :
                           /\ \A d \in Chains : to[d] <= chain'[d].height
                           /\ approved'.manifest = Manifest(from, to)'
    BY <1>1 DEF ManifestKept
  <2>1. PICK from \in Nat \ {0}, to \in [Chains -> Nat] :
            /\ \A d \in Chains : to[d] <= chain[d].height
            /\ approved.manifest = Manifest(from, to)
    BY <1>1 DEF CheckInv, ManifestKept
  <2>2. Manifest(from, to)' = Manifest(from, to)
    BY <1>1, <2>1, ManifestStays
  <2>3. ASSUME NEW d \in Chains
        PROVE  to[d] <= chain'[d].height
    <3>1. chain[d].height \in Nat /\ chain'[d].height \in {chain[d].height, chain[d].height + 1}
      BY <1>1 DEF Advance, BridgeInv, BridgeTyped, ChainStates
    <3> QED
      BY <2>1, <3>1
  <2> QED
    BY <1>1, <2>1, <2>2, <2>3
<1>7. PassedFor' /\ Needed'
  BY <1>1 DEF CheckInv, PassedFor, Needed, Valid, ProgramsApproved, AuthoritiesApproved,
     MessagingApproved, LimitsApproved, SupplyApproved, EscrowBalance, EndsBeforeObservation,
     Accounted, Raw, BothPaused, OpenAndEmpty, Stable
<1> QED
  BY <1>4, <1>5, <1>6, <1>7 DEF CheckInv

\* The bridge is as it was.
LEMMA BridgeAlone ==
    ASSUME BridgeInv, UNCHANGED bridgeVars
    PROVE  /\ BridgeInv'
           /\ \A c \in Chains : \A s : Past(s, c) => Past(s, c)'
           /\ \A from, to : Manifest(from, to)' = Manifest(from, to)
<1>1. chain' = chain /\ before' = before /\ sentAt' = sentAt /\ gotAt' = gotAt
      /\ openedAt' = openedAt
  BY DEF bridgeVars
<1>2. ASSUME NEW c, NEW h
      PROVE  Ledger(c, h)' = Ledger(c, h) /\ (SettledAt(c, h)' <=> SettledAt(c, h))
  BY <1>1 DEF Ledger, SentBy, GotBy, SettledAt
<1>3. ASSUME NEW c \in Chains, NEW s, Past(s, c)
      PROVE  Past(s, c)'
  BY <1>1, <1>2, <1>3 DEF Past
<1>4. ASSUME NEW c \in Chains
      PROVE  Past(chain[c], c)' /\ Past(before[c], c)'
  <2>1. PICK s, t : s = chain[c] /\ t = before[c]
    OBVIOUS
  <2>2. Past(s, c)' /\ Past(t, c)'
    BY <1>3, <2>1 DEF BridgeInv, History
  <2> QED
    BY <1>1, <2>1, <2>2
<1>5. BridgeInv'
  BY <1>1, <1>4 DEF BridgeInv, BridgeTyped, History, InOrder, SettledAt
<1>6. \A from, to : Manifest(from, to)' = Manifest(from, to)
  BY <1>1 DEF Manifest, Listed, Delivered
<1> QED
  BY <1>3, <1>5, <1>6

LEMMA ApproveStep ==
    ASSUME ProductionInv, NEW expected \in States, NEW from \in Starts, NEW to \in Ends,
           Approve(expected, from, to)
    PROVE  ProductionInv'
<1>1. /\ approved = None /\ UNCHANGED <<bridgeVars, checkVars>>
      /\ \A c \in Chains : to[c] \in {chain[c].height, before[c].height}
      /\ approved' = [expected |-> expected, supply |-> chain["Robinhood"].money,
                      manifest |-> Manifest(from, to)]
      /\ BridgeInv /\ CheckInv
  BY DEF Approve, ProductionInv
<1>2. /\ BridgeInv'
      /\ \A c \in Chains : \A s : Past(s, c) => Past(s, c)'
      /\ Manifest(from, to)' = Manifest(from, to)
  BY <1>1, BridgeAlone
<1>3. /\ seen = << >> /\ pinned = None /\ seen' = seen /\ pinned' = pinned /\ slot' = slot
      /\ verdict' = verdict /\ verdict # "pass" /\ chain' = chain
  BY <1>1 DEF CheckInv, Needed, PassedFor, bridgeVars, checkVars
<1>4. from \in Nat \ {0} /\ to \in [Chains -> Nat] /\ \A c \in Chains : to[c] <= chain[c].height
  <2>1. \A c \in Chains : /\ chain[c].height \in Nat /\ before[c].height \in Nat
                          /\ before[c].height <= chain[c].height
    BY <1>1 DEF BridgeInv, BridgeTyped, ChainStates, History, Past
  <2>2. to = [c \in Chains |-> to[c]]
    BY DEF Ends
  <2>3. \A c \in Chains : to[c] \in Nat /\ to[c] <= chain[c].height
    BY <1>1, <2>1
  <2> QED
    BY <2>2, <2>3, CheckAssumption
<1>5. ManifestKept'
  <2>1. approved'.manifest = Manifest(from, to)'
    BY <1>1, <1>2
  <2> QED
    BY <1>3, <1>4, <2>1 DEF ManifestKept
<1>6. CheckTyped' /\ Collected' /\ PassedFor' /\ Needed'
  BY <1>1, <1>3 DEF CheckInv, CheckTyped, Collected, PassedFor, Needed
<1> QED
  BY <1>2, <1>5, <1>6 DEF ProductionInv, CheckInv

\* A provider answers with one of the last two states, which are told from an
\* earlier observation by more than the height if they are the next.
LEMMA NearlyIsLater ==
    ASSUME BridgeInv, NEW c \in Chains, NEW t \in Nearly(c)
    PROVE  /\ Past(t, c)
           /\ \A s : Past(s, c) => Later(s, t)
<1>1. Past(t, c)
  BY DEF Nearly, BridgeInv, History
<1>2. ASSUME NEW s, Past(s, c), t.height = s.height + 1
      PROVE  Changed(s, t)
  <2>1. s.height \in Nat /\ t.height \in Nat /\ chain[c].height \in Nat
    BY <1>1, <1>2 DEF Past, ChainStates, BridgeInv, BridgeTyped
  <2>2. chain[c].height # 0 => /\ before[c].height + 1 = chain[c].height
                               /\ Changed(before[c], chain[c])
    BY DEF BridgeInv, History
  <2>3. CASE t = chain[c]
    BY <1>2, <2>1, <2>2, <2>3 DEF Past
  <2>4. CASE t = before[c] /\ t # chain[c]
    <3>1. chain[c].height # 0
      BY <2>4 DEF BridgeInv, History
    <3>2. s.height + 2 = chain[c].height
      BY <1>2, <2>1, <2>2, <2>4, <3>1
    <3> QED
      BY <1>2, <2>4, <3>2 DEF Past
  <2> QED
    BY <2>3, <2>4 DEF Nearly
<1> QED
  BY <1>1, <1>2 DEF Later

\* What the steps of the check that leave the bridge alone keep.
LEMMA CheckAlone ==
    ASSUME ProductionInv, UNCHANGED <<bridgeVars, approved>>
    PROVE  /\ BridgeInv' /\ ManifestKept'
           /\ \A c \in Chains : \A s : Past(s, c) => Past(s, c)'
           /\ \A o : Valid(o)' <=> Valid(o)
<1>1. /\ BridgeInv' /\ BridgeInv /\ CheckInv
      /\ \A c \in Chains : \A s : Past(s, c) => Past(s, c)'
      /\ \A from, to : Manifest(from, to)' = Manifest(from, to)
  BY BridgeAlone DEF ProductionInv
<1>2. ManifestKept'
  <2>1. CASE approved = None
    BY <2>1 DEF ManifestKept
  <2>2. CASE approved # None
    <3>1. PICK from \in Nat \ {0}, to \in [Chains -> Nat] :
              /\ \A c \in Chains : to[c] <= chain[c].height
              /\ approved.manifest = Manifest(from, to)
      BY <1>1, <2>2 DEF CheckInv, ManifestKept
    <3>2. approved'.manifest = Manifest(from, to)' /\ chain' = chain
      BY <1>1, <3>1 DEF bridgeVars
    <3> QED
      BY <3>1, <3>2 DEF ManifestKept
  <2> QED
    BY <2>1, <2>2
<1>3. ASSUME NEW o
      PROVE  Valid(o)' <=> Valid(o)
  BY DEF Valid, ProgramsApproved, AuthoritiesApproved, MessagingApproved, LimitsApproved,
     SupplyApproved, EscrowBalance, EndsBeforeObservation, Accounted, Raw, BothPaused,
     OpenAndEmpty
<1> QED
  BY <1>1, <1>2, <1>3

LEMMA PinRobinhoodStep ==
    ASSUME ProductionInv, PinRobinhood
    PROVE  ProductionInv'
<1>1. /\ approved # None /\ verdict = None /\ Len(seen) < 2 /\ pinned = None
      /\ pinned' \in Nearly("Robinhood")
      /\ UNCHANGED <<bridgeVars, approved>> /\ slot' = slot /\ seen' = seen /\ verdict' = verdict
      /\ BridgeInv /\ CheckInv /\ "Robinhood" \in Chains
  BY DEF PinRobinhood, ProductionInv, Chains
<1>2. /\ BridgeInv' /\ ManifestKept'
      /\ \A c \in Chains : \A s : Past(s, c) => Past(s, c)'
      /\ \A o : Valid(o)' <=> Valid(o)
  BY <1>1, CheckAlone
<1>3. PICK t : t = pinned'
  OBVIOUS
<1>4. Past(t, "Robinhood") /\ \A s : Past(s, "Robinhood") => Later(s, t)
  BY <1>1, <1>3, NearlyIsLater
<1>5. CheckTyped'
  <2>1. Past(pinned, "Robinhood")'
    <3>1. Past(t, "Robinhood")'
      BY <1>1, <1>2, <1>4
    <3>2. Past(pinned, "Robinhood")' <=> Past(t, "Robinhood")'
      BY <1>3 DEF Past
    <3> QED
      BY <3>1, <3>2
  <2> QED
    BY <1>1, <2>1 DEF CheckInv, CheckTyped
<1>6. Collected'
  <2>1. ASSUME NEW i \in 1 .. Len(seen), NEW c \in Chains
        PROVE  Past(seen[i][c], c)'
    <3>1. PICK s : s = seen[i][c]
      OBVIOUS
    <3>2. Past(s, c)'
      BY <1>1, <1>2, <3>1 DEF CheckInv, Collected
    <3> QED
      BY <1>1, <3>1, <3>2
  <2>2. Len(seen) = 1 => Later(seen[1]["Robinhood"], pinned')
    BY <1>1, <1>3, <1>4 DEF CheckInv, Collected
  <2> QED
    BY <1>1, <2>1, <2>2 DEF CheckInv, Collected, Later, Changed
<1>7. PassedFor' /\ Needed'
  BY <1>1, CheckAssumption DEF CheckInv, PassedFor, Needed
<1> QED
  BY <1>2, <1>5, <1>6, <1>7 DEF ProductionInv, CheckInv

LEMMA ReadSlotBeforeStep ==
    ASSUME ProductionInv, ReadSlotBefore
    PROVE  ProductionInv'
<1>1. /\ pinned # None /\ UNCHANGED <<bridgeVars, approved>>
      /\ pinned' = pinned /\ seen' = seen /\ verdict' = verdict /\ BridgeInv /\ CheckInv
  BY DEF ReadSlotBefore, ProductionInv
<1>2. /\ BridgeInv' /\ ManifestKept'
      /\ \A c \in Chains : \A s : Past(s, c) => Past(s, c)'
      /\ \A o : Valid(o)' <=> Valid(o)
  BY <1>1, CheckAlone
<1>3. CheckTyped'
  <2>1. PICK s : s = pinned
    OBVIOUS
  <2>2. Past(s, "Robinhood")'
    BY <1>1, <1>2, <2>1 DEF CheckInv, CheckTyped, Chains
  <2>3. Past(pinned, "Robinhood")'
    BY <1>1, <2>1, <2>2
  <2> QED
    BY <1>1, <2>3 DEF CheckInv, CheckTyped
<1>4. Collected'
  <2>1. ASSUME NEW i \in 1 .. Len(seen), NEW c \in Chains
        PROVE  Past(seen[i][c], c)'
    <3>1. PICK s : s = seen[i][c]
      OBVIOUS
    <3>2. Past(s, c)'
      BY <1>1, <1>2, <3>1 DEF CheckInv, Collected
    <3> QED
      BY <1>1, <3>1, <3>2
  <2> QED
    BY <1>1, <2>1 DEF CheckInv, Collected
<1>5. PassedFor' /\ Needed'
  BY <1>1, <1>2 DEF CheckInv, PassedFor, Needed, Stable
<1> QED
  BY <1>2, <1>3, <1>4, <1>5 DEF ProductionInv, CheckInv

LEMMA TakeSnapshotStep ==
    ASSUME ProductionInv, TakeSnapshot
    PROVE  ProductionInv'
<1>1. /\ slot # None /\ pinned' = None /\ slot' = None /\ UNCHANGED <<bridgeVars, approved>>
      /\ BridgeInv /\ CheckInv
  BY DEF TakeSnapshot, ProductionInv
<1>2. \/ \E s \in Nearly("Solana") : seen' = Append(seen, Observation(s)) /\ verdict' = verdict
      \/ seen' = seen /\ verdict' = "fail"
  BY DEF TakeSnapshot
<1>3. /\ BridgeInv' /\ ManifestKept'
      /\ \A c \in Chains : \A s : Past(s, c) => Past(s, c)'
      /\ \A o : Valid(o)' <=> Valid(o)
  BY <1>1, CheckAlone
<1>4. /\ pinned # None /\ Past(pinned, "Robinhood") /\ Len(seen) < 2 /\ approved # None
      /\ seen \in Seq([Chains -> ChainStates])
      /\ "Robinhood" \in Chains /\ "Solana" \in Chains
  BY <1>1 DEF CheckInv, CheckTyped, Needed, Chains
<1>5. CASE seen' = seen /\ verdict' = "fail"
  <2>1. ASSUME NEW i \in 1 .. Len(seen), NEW c \in Chains
        PROVE  Past(seen[i][c], c)'
    <3>1. PICK s : s = seen[i][c]
      OBVIOUS
    <3>2. Past(s, c)'
      BY <1>1, <1>3, <3>1 DEF CheckInv, Collected
    <3> QED
      BY <1>5, <3>1, <3>2
  <2>2. CheckTyped' /\ Collected' /\ PassedFor' /\ Needed'
    BY <1>1, <1>4, <1>5, <2>1 DEF CheckInv, CheckTyped, Collected, PassedFor, Needed
  <2> QED
    BY <1>3, <2>2 DEF ProductionInv, CheckInv
<1>6. ASSUME NEW s \in Nearly("Solana"), seen' = Append(seen, Observation(s)), verdict' = verdict
      PROVE  ProductionInv'
  <2>. DEFINE o == Observation(s)
  <2>1. Past(s, "Solana") /\ \A t : Past(t, "Solana") => Later(t, s)
    BY <1>1, <1>4, NearlyIsLater
  <2>2. /\ o \in [Chains -> ChainStates] /\ o["Solana"] = s /\ o["Robinhood"] = pinned
        /\ \A c \in Chains : Past(o[c], c)
    BY <1>4, <2>1 DEF Observation, Chains, Past
  <2>. HIDE DEF o
  <2>3. /\ seen' \in Seq([Chains -> ChainStates]) /\ Len(seen') = Len(seen) + 1
        /\ seen'[Len(seen) + 1] = o /\ \A i \in 1 .. Len(seen) : seen'[i] = seen[i]
    BY <1>4, <1>6, <2>2 DEF o
  <2>4. Len(seen) \in Nat
    BY <1>4
  <2>5. CheckTyped'
    BY <1>1, <1>4, <2>3, <2>4 DEF CheckTyped
  <2>6. Collected'
    <3>1. ASSUME NEW i \in 1 .. Len(seen'), NEW c \in Chains
          PROVE  Past(seen[i][c], c)'
      <4>1. PICK t : t = seen'[i][c]
        OBVIOUS
      <4>2. Past(t, c)
        <5>1. CASE i = Len(seen) + 1
          BY <2>2, <2>3, <4>1, <5>1
        <5>2. CASE i # Len(seen) + 1
          <6>1. i \in 1 .. Len(seen)
            BY <2>3, <2>4, <5>2
          <6> QED
            BY <1>1, <2>3, <4>1, <6>1 DEF CheckInv, Collected
        <5> QED
          BY <5>1, <5>2
      <4>3. Past(t, c)'
        BY <1>3, <4>2
      <4> QED
        BY <4>1, <4>3 DEF Past
    <3>2. Len(seen') = 2 => \A c \in Chains : Later(seen'[1][c], seen'[2][c])
      <4>. SUFFICES ASSUME Len(seen') = 2, NEW c \in Chains
                    PROVE  Later(seen'[1][c], seen'[2][c])
        OBVIOUS
      <4>0. Len(seen) = 1
        <5>1. Len(seen') = Len(seen) + 1
          BY <2>3
        <5>2. \A n \in Nat : n + 1 = 2 => n = 1
          OBVIOUS
        <5> QED
          BY <2>4, <5>1, <5>2
      <4>. SUFFICES Later(seen[1][c], o[c])
        BY <2>3, <4>0
      <4>1. CASE c = "Solana"
        BY <1>1, <2>1, <2>2, <4>0, <4>1 DEF CheckInv, Collected
      <4>2. CASE c = "Robinhood"
        BY <1>1, <1>4, <2>2, <4>0, <4>2 DEF CheckInv, Collected
      <4> QED
        BY <4>1, <4>2 DEF Chains
    <3> QED
      BY <1>1, <3>1, <3>2 DEF Collected, Later, Changed
  <2>7. PassedFor' /\ Needed'
    BY <1>1, <1>4, <1>6 DEF CheckInv, PassedFor, Needed
  <2> QED
    BY <1>3, <2>5, <2>6, <2>7 DEF ProductionInv, CheckInv
<1> QED
  BY <1>2, <1>5, <1>6

LEMMA DecideStep ==
    ASSUME ProductionInv, Decide
    PROVE  ProductionInv'
<1>1. /\ Len(seen) = 2 /\ UNCHANGED <<bridgeVars, approved>>
      /\ verdict' = IF Valid(seen[1]) /\ Valid(seen[2]) /\ Stable(seen[1], seen[2])
                    THEN "pass" ELSE "fail"
      /\ slot' = slot /\ pinned' = pinned /\ seen' = seen /\ BridgeInv /\ CheckInv
  BY DEF Decide, ProductionInv
<1>2. /\ BridgeInv' /\ ManifestKept'
      /\ \A c \in Chains : \A s : Past(s, c) => Past(s, c)'
      /\ \A o : Valid(o)' <=> Valid(o)
  BY <1>1, CheckAlone
<1>3. seen # << >> /\ approved # None /\ pinned = None /\ pinned' = None
  <2>1. seen # << >>
    <3>1. Len(<< >>) = 0
      OBVIOUS
    <3> QED
      BY <1>1, <3>1
  <2>2. ~(2 < 2)
    OBVIOUS
  <2>3. pinned = None
    <3>1. pinned # None => Len(seen) < 2
      BY <1>1 DEF CheckInv, CheckTyped
    <3> QED
      BY <1>1, <2>2, <3>1
  <2>4. approved # None
    BY <1>1, <2>1 DEF CheckInv, Needed
  <2> QED
    BY <1>1, <2>1, <2>3, <2>4
<1>4. CheckTyped' /\ Needed'
  BY <1>1, <1>3 DEF CheckInv, CheckTyped, Needed
<1>5. Collected'
  <2>1. ASSUME NEW i \in 1 .. Len(seen), NEW c \in Chains
        PROVE  Past(seen[i][c], c)'
    <3>1. PICK s : s = seen[i][c]
      OBVIOUS
    <3>2. Past(s, c)'
      BY <1>1, <1>2, <3>1 DEF CheckInv, Collected
    <3> QED
      BY <1>1, <3>1, <3>2
  <2> QED
    BY <1>1, <1>3, <2>1 DEF CheckInv, Collected
<1>6. PassedFor'
  <2>1. \A o : Valid(o) => Valid(o)'
    BY <1>2
  <2>2. PICK o1, o2 : o1 = seen[1] /\ o2 = seen[2]
    OBVIOUS
  <2>3. verdict' = "pass" => Valid(o1)' /\ Valid(o2)' /\ Stable(o1, o2)
    BY <1>1, <2>1, <2>2
  <2>4. verdict' = "pass" => Valid(seen[1])' /\ Valid(seen[2])'
    BY <1>1, <2>2, <2>3
  <2> QED
    BY <1>1, <1>3, <2>2, <2>3, <2>4 DEF PassedFor, Stable
<1> QED
  BY <1>2, <1>4, <1>5, <1>6 DEF ProductionInv, CheckInv

LEMMA ProductionStep ==
    ASSUME ProductionInv, [Next]_vars
    PROVE  ProductionInv'
<1>1. ASSUME Transaction
      PROVE  ProductionInv'
  <2>1. BridgeInv
    BY DEF ProductionInv
  <2>2. PICK c \in Chains : Advance(c)
    BY <1>1, <2>1, TransactionAdvances
  <2>3. InOrder' /\ UNCHANGED <<approved, checkVars>>
    BY <1>1, <2>1, TransactionAdvances
  <2>4. BridgeInv' /\ CheckInv'
    BY <2>1, <2>2, <2>3, BridgeAdvances, CheckDuringTransaction
  <2> QED
    BY <2>4 DEF ProductionInv
<1>2. ASSUME UNCHANGED vars
      PROVE  ProductionInv'
  <2>1. /\ UNCHANGED <<bridgeVars, approved>> /\ slot' = slot /\ pinned' = pinned
        /\ seen' = seen /\ verdict' = verdict /\ BridgeInv /\ CheckInv
    BY <1>2 DEF vars, bridgeVars, ProductionInv
  <2>2. /\ BridgeInv' /\ ManifestKept'
        /\ \A c \in Chains : \A s : Past(s, c) => Past(s, c)'
        /\ \A o : Valid(o)' <=> Valid(o)
    BY <2>1, CheckAlone
  <2>3. pinned' # None => Past(pinned, "Robinhood")'
    <3>1. PICK s : s = pinned
      OBVIOUS
    <3>2. pinned # None => Past(s, "Robinhood")'
      BY <2>1, <2>2, <3>1 DEF CheckInv, CheckTyped, Chains
    <3> QED
      BY <2>1, <3>1, <3>2
  <2>4. ASSUME NEW i \in 1 .. Len(seen), NEW c \in Chains
        PROVE  Past(seen[i][c], c)'
    <3>1. PICK s : s = seen[i][c]
      OBVIOUS
    <3>2. Past(s, c)'
      BY <2>1, <2>2, <3>1 DEF CheckInv, Collected
    <3> QED
      BY <2>1, <3>1, <3>2
  <2>5. CheckTyped' /\ Collected' /\ Needed'
    BY <2>1, <2>3, <2>4 DEF CheckInv, CheckTyped, Collected, Needed
  <2>6. PassedFor'
    <3>1. PICK o1, o2 : o1 = seen[1] /\ o2 = seen[2]
      OBVIOUS
    <3>2. verdict' = "pass" => Valid(o1)' /\ Valid(o2)'
      BY <2>1, <2>2, <3>1 DEF CheckInv, PassedFor
    <3>3. verdict' = "pass" => Valid(seen[1])' /\ Valid(seen[2])'
      BY <2>1, <3>1, <3>2
    <3> QED
      BY <2>1, <3>3 DEF CheckInv, PassedFor, Stable
  <2> QED
    BY <2>2, <2>5, <2>6 DEF ProductionInv, CheckInv
<1> QED
  BY <1>1, <1>2, ApproveStep, PinRobinhoodStep, ReadSlotBeforeStep, TakeSnapshotStep, DecideStep
     DEF Next, Transaction

LEMMA ProductionInit == Init => ProductionInv
<1>. SUFFICES ASSUME Init PROVE ProductionInv
  OBVIOUS
<1>1. /\ Deployed \in ChainStates /\ Deployed.height = 0 /\ Deployed.money = 0
  BY DEF Deployed, ChainStates
<1>2. BridgeTyped
  BY <1>1 DEF Init, BridgeTyped
<1>3. /\ \A c \in Chains : chain[c] = Deployed /\ before[c] = Deployed /\ openedAt[c] = 0
      /\ \A g \in Guids : sentAt[g] = 0 /\ gotAt[g] = 0
  BY DEF Init
<1>4. ASSUME NEW c \in Chains
      PROVE  Past(Deployed, c)
  <2>1. SentBy(c, 0) = {} /\ GotBy(c, 0) = {}
    BY <1>3 DEF SentBy, GotBy
  <2>2. Sum({}) = 0
    BY SumEmpty DEF Sum
  <2>3. Ledger(c, 0) = 0
    BY <2>1, <2>2 DEF Ledger
  <2>4. SettledAt(c, 0)
    BY <1>3 DEF SettledAt
  <2>5. Deployed.paused = TRUE
    BY DEF Deployed
  <2> QED
    BY <1>1, <1>3, <2>3, <2>4, <2>5 DEF Past
<1>5. History
  BY <1>1, <1>3, <1>4 DEF History, SettledAt
<1>6. BridgeInv
  BY <1>2, <1>3, <1>5 DEF BridgeInv, InOrder
<1>7. seen = << >> /\ Len(seen) = 0 /\ pinned = None /\ slot = None /\ approved = None
      /\ verdict # "pass"
  BY CheckAssumption DEF Init
<1>8. CheckInv
  BY <1>7 DEF CheckInv, CheckTyped, Collected, ManifestKept, PassedFor, Needed
<1> QED
  BY <1>6, <1>8 DEF ProductionInv

-----------------------------------------------------------------------------
(* What the sums of an observation say. *)

\* Of an observation after which nothing moved, the difference of its amounts is
\* what is in flight.
LEMMA InFlightTotal ==
    ASSUME BridgeInv, NEW o, \A c \in Chains : Past(o[c], c) /\ SettledAt(c, o[c].height)
    PROVE  Sum(Outstanding) = o["Solana"].money - o["Robinhood"].money
<1>. DEFINE sent(c) == {g \in Guids : SentFrom[g] = c /\ sentAt[g] # 0}
            got(c) == {g \in Guids : SentFrom[g] = c /\ gotAt[g] # 0}
<1>1. /\ "Solana" \in Chains /\ "Robinhood" \in Chains
      /\ Other("Solana") = "Robinhood" /\ Other("Robinhood") = "Solana"
      /\ \A g \in Guids : SentFrom[g] = "Solana" \/ SentFrom[g] = "Robinhood"
  BY CheckAssumption DEF Chains, Other
<1>2. ASSUME NEW c \in Chains
      PROVE  SentBy(c, o[c].height) = sent(c) /\ GotBy(c, o[c].height) = got(Other(c))
  BY DEF SentBy, GotBy, SettledAt
<1>3. /\ o["Solana"].money = Sum(sent("Solana")) - Sum(got("Robinhood"))
      /\ o["Robinhood"].money = Sum(got("Solana")) - Sum(sent("Robinhood"))
  <2>1. /\ o["Solana"].money = Ledger("Solana", o["Solana"].height)
        /\ o["Robinhood"].money = Ledger("Robinhood", o["Robinhood"].height)
    BY <1>1 DEF Past
  <2> QED
    BY <1>1, <1>2, <2>1 DEF Ledger
<1>4. /\ sent("Solana") \in SUBSET Guids /\ sent("Robinhood") \in SUBSET Guids
      /\ got("Solana") \in SUBSET sent("Solana")
      /\ got("Robinhood") \in SUBSET sent("Robinhood")
  BY DEF BridgeInv, InOrder
<1>5. Outstanding = (sent("Solana") \ got("Solana")) \cup (sent("Robinhood") \ got("Robinhood"))
  BY <1>1 DEF Outstanding
<1>6. (sent("Solana") \ got("Solana")) \cap (sent("Robinhood") \ got("Robinhood")) = {}
  BY <1>1
<1>. HIDE DEF sent, got
<1>7. Sum(Outstanding) = Sum(sent("Solana") \ got("Solana"))
                             + Sum(sent("Robinhood") \ got("Robinhood"))
  BY <1>4, <1>5, <1>6, SumOfBoth
<1>8. /\ Sum(sent("Solana") \ got("Solana")) = Sum(sent("Solana")) - Sum(got("Solana"))
      /\ Sum(sent("Robinhood") \ got("Robinhood"))
             = Sum(sent("Robinhood")) - Sum(got("Robinhood"))
  BY <1>4, SumOfLess
<1>9. /\ Sum(sent("Solana")) \in Int /\ Sum(got("Solana")) \in Int
      /\ Sum(sent("Robinhood")) \in Int /\ Sum(got("Robinhood")) \in Int
  BY <1>4, SumOfAmounts
<1> QED
  BY <1>3, <1>7, <1>8, <1>9

\* An accepted observation counts as much in flight as its manifest does.
LEMMA ManifestTotal ==
    ASSUME BridgeInv, NEW o, \A c \in Chains : Past(o[c], c) /\ SettledAt(c, o[c].height),
           Accounted(o), approved.manifest.outstanding \in SUBSET Guids
    PROVE  /\ Sum(Outstanding) = Raw(approved.manifest, "Solana")
                                     + Raw(approved.manifest, "Robinhood")
           /\ Sum(Outstanding) = Sum(approved.manifest.outstanding)
<1>. DEFINE listed == approved.manifest.outstanding
            from(c) == {g \in listed : SentFrom[g] = c}
<1>1. /\ from("Solana") \in SUBSET Guids /\ from("Robinhood") \in SUBSET Guids
      /\ from("Solana") \cup from("Robinhood") = listed
      /\ from("Solana") \cap from("Robinhood") = {}
  BY CheckAssumption DEF Chains
<1>2. /\ Raw(approved.manifest, "Solana") = Sum(from("Solana"))
      /\ Raw(approved.manifest, "Robinhood") = Sum(from("Robinhood"))
  BY DEF Raw
<1>. HIDE DEF from
<1>3. /\ Sum(listed) = Sum(from("Solana")) + Sum(from("Robinhood"))
      /\ Sum(from("Solana")) \in Int /\ Sum(from("Robinhood")) \in Int
  BY <1>1, SumOfBoth, SumOfAmounts
<1>4. o["Solana"].money \in Int /\ o["Robinhood"].money \in Int
  BY DEF Past, ChainStates, Chains
<1>5. Sum(Outstanding) = o["Solana"].money - o["Robinhood"].money
  BY InFlightTotal
<1> QED
  BY <1>2, <1>3, <1>4, <1>5 DEF Accounted

LEMMA PassGives ==
    ASSUME ProductionInv, verdict = "pass"
    PROVE  /\ BridgeInv /\ Valid(seen[1]) /\ Valid(seen[2]) /\ Stable(seen[1], seen[2])
           /\ \A c \in Chains : Past(seen[1][c], c) /\ Later(seen[1][c], seen[2][c])
           /\ \E from \in Nat \ {0}, to \in [Chains -> Nat] :
                  approved.manifest = Manifest(from, to)
BY DEF ProductionInv, CheckInv, PassedFor, Collected, ManifestKept

-----------------------------------------------------------------------------
(* However the bridge moves and the providers lag, what was collected is of  *)
(* states the chains had, in their order, and the manifest approved is still *)
(* the one its ranges show.                                                  *)
THEOREM ProductionInvariant == Spec => []ProductionInv
<1>1. Init => ProductionInv
  BY ProductionInit
<1>2. ProductionInv /\ [Next]_vars => ProductionInv'
  BY ProductionStep
<1> QED
  BY <1>1, <1>2, PTL DEF Spec

(* A pass means that the manifest lists exactly the packets in flight if     *)
(* nothing was bridged since its ends and nothing it lists had arrived       *)
(* before its ranges began: equal totals of positive amounts leave no room   *)
(* for an omission.                                                          *)
THEOREM QuietPassAlwaysExact == Spec => []QuietPassIsExact
<1>1. ProductionInv => QuietPassIsExact
  <2>. SUFFICES ASSUME ProductionInv, verdict = "pass", QuietSinceTheEnds, NoneArrivedEarlier
                PROVE  approved.manifest.outstanding = Outstanding
    BY DEF QuietPassIsExact
  <2>. DEFINE o == seen[1]
  <2>1. PICK from \in Nat \ {0}, to \in [Chains -> Nat] : approved.manifest = Manifest(from, to)
    BY PassGives
  <2>2. /\ BridgeInv /\ Valid(o) /\ \A c \in Chains : Past(o[c], c)
    BY PassGives
  <2>. HIDE DEF o
  <2>3. approved.manifest.to = to
        /\ approved.manifest.outstanding = Listed(from, to) \ Delivered(from, to)
    BY <2>1 DEF Manifest
  <2>4. ASSUME NEW c \in Chains
        PROVE  SettledAt(c, o[c].height)
    <3>1. to[c] \in Nat /\ o[c].height \in Nat /\ to[c] <= o[c].height
      BY <2>2, <2>3 DEF Valid, EndsBeforeObservation, Past, ChainStates
    <3>2. ASSUME NEW g \in Guids
          PROVE  /\ SentFrom[g] = c => sentAt[g] <= o[c].height
                 /\ SentFrom[g] = Other(c) => gotAt[g] <= o[c].height
      <4>1. /\ sentAt[g] \in Nat /\ gotAt[g] \in Nat
            /\ sentAt[g] <= to[SentFrom[g]] /\ gotAt[g] <= to[Other(SentFrom[g])]
        BY <2>2, <2>3 DEF BridgeInv, BridgeTyped, QuietSinceTheEnds
      <4>2. SentFrom[g] = Other(c) => Other(SentFrom[g]) = c
        BY OtherSide
      <4> QED
        BY <3>1, <4>1, <4>2
    <3> QED
      BY <3>2 DEF SettledAt
  <2>5. approved.manifest.outstanding \in SUBSET Outstanding
    <3>1. ASSUME NEW g \in Listed(from, to)
          PROVE  g \in Guids /\ sentAt[g] # 0
      BY DEF Listed
    <3> QED
      BY <2>3, <3>1 DEF NoneArrivedEarlier, Outstanding
  <2>6. Outstanding \in SUBSET Guids
    BY DEF Outstanding
  <2>7. Accounted(o)
    BY <2>2 DEF Valid
  <2>8. Sum(Outstanding) = Sum(approved.manifest.outstanding)
    BY <2>2, <2>4, <2>5, <2>6, <2>7, ManifestTotal
  <2> QED
    BY <2>5, <2>6, <2>8, SumTellsApart
<1> QED
  BY <1>1, ProductionInvariant, PTL

(* A pass before activation means that the total of the manifest is what is  *)
(* in flight, for as long as nobody unpauses, whatever was bridged between   *)
(* the ends of the manifest and the observations.                            *)
THEOREM PausedPassAlwaysExact == Spec => []PausedPassIsExact
<1>1. ProductionInv => PausedPassIsExact
  <2>. SUFFICES ASSUME ProductionInv, verdict = "pass",
                       approved.expected = "PRE_ACTIVATION_INERT",
                       \A c \in Chains : openedAt[c] <= seen[1][c].height
                PROVE  Sum(Outstanding) = Raw(approved.manifest, "Solana")
                                              + Raw(approved.manifest, "Robinhood")
    BY DEF PausedPassIsExact
  <2>. DEFINE o == seen[1]
  <2>1. PICK from \in Nat \ {0}, to \in [Chains -> Nat] : approved.manifest = Manifest(from, to)
    BY PassGives
  <2>2. /\ BridgeInv /\ Valid(o) /\ \A c \in Chains : Past(o[c], c)
    BY PassGives
  <2>3. Accounted(o) /\ BothPaused(o)
    BY <2>2 DEF Valid
  <2>4. \A c \in Chains : SettledAt(c, o[c].height)
    BY <2>2, <2>3 DEF BothPaused, Past
  <2>. HIDE DEF o
  <2>5. approved.manifest.outstanding \in SUBSET Guids
    BY <2>1 DEF Manifest, Listed
  <2> QED
    BY <2>2, <2>3, <2>4, <2>5, ManifestTotal
<1> QED
  BY <1>1, ProductionInvariant, PTL

(* No single transaction of a chain between its two observations is let      *)
(* through, not even one that every check of an observation accepts: every   *)
(* transaction changes something that must repeat.                           *)
THEOREM OneChangeAlwaysNoticed == Spec => []OneChangeIsNoticed
<1>1. ProductionInv => OneChangeIsNoticed
  <2>. SUFFICES ASSUME ProductionInv, verdict = "pass", NEW c \in Chains,
                       seen[2][c].height = seen[1][c].height + 1
                PROVE  FALSE
    BY DEF OneChangeIsNoticed
  <2>1. Stable(seen[1], seen[2]) /\ Later(seen[1][c], seen[2][c])
    BY PassGives
  <2> QED
    BY <2>1 DEF Stable, Later, Changed
<1> QED
  BY <1>1, ProductionInvariant, PTL
=============================================================================
