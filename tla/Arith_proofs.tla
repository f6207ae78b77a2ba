---------------------------- MODULE Arith_proofs ----------------------------
(***************************************************************************)
(* Facts that the other proof modules cite: integer division, and sums     *)
(* over finite sets.                                                       *)
(***************************************************************************)
EXTENDS Arith, Sums, FiniteSetTheorems, TLAPS

-----------------------------------------------------------------------------
(* Division. *)

\* The quotient and the remainder of an integer by a positive one.
LEMMA DivMod ==
    ASSUME NEW a \in Int, NEW b \in Nat \ {0}
    PROVE  /\ a \div b \in Int
           /\ a % b \in 0 .. b - 1
           /\ a = b * (a \div b) + (a % b)
  BY SMT

\* The quotient is the only integer between those two multiples.
LEMMA DivUnique ==
    ASSUME NEW a \in Int, NEW b \in Nat \ {0}, NEW q \in Int,
           b * q <= a, a < b * q + b
    PROVE  a \div b = q
<1>1. /\ a \div b \in Int /\ a % b \in Int /\ 0 <= a % b /\ a % b < b
      /\ a = b * (a \div b) + (a % b)
  BY DivMod
<1>. DEFINE p == a \div b
<1>2. p \in Int /\ b * p <= a /\ a < b * p + b
  BY <1>1
<1>3. CASE p < q
  <2>1. p + 1 <= q
    BY <1>2, <1>3
  <2>2. b * (p + 1) <= b * q
    BY <2>1, <1>2, SMT
  <2>3. b * (p + 1) = b * p + b
    BY <1>2, SMT
  <2> QED
    BY <2>2, <2>3, <1>2, SMT
<1>4. CASE q < p
  <2>1. q + 1 <= p
    BY <1>2, <1>4
  <2>2. b * (q + 1) <= b * p
    BY <2>1, <1>2, SMT
  <2>3. b * (q + 1) = b * q + b
    BY SMT
  <2> QED
    BY <2>2, <2>3, <1>2, SMT
<1> QED
  BY <1>2, <1>3, <1>4

\* A dividend below a multiple of the divisor has its quotient below it.
LEMMA DivLess ==
    ASSUME NEW a \in Int, NEW b \in Nat \ {0}, NEW q \in Int, b * q <= a
    PROVE  q <= a \div b
<1>. DEFINE p == a \div b
<1>1. p \in Int /\ a < b * p + b
  BY DivMod
<1>2. SUFFICES ASSUME p < q PROVE FALSE
  BY <1>1
<1>3. p + 1 <= q
  BY <1>1, <1>2
<1>4. b * (p + 1) <= b * q
  BY <1>1, <1>3, SMT
<1>5. b * (p + 1) = b * p + b
  BY <1>1, SMT
<1> QED
  BY <1>1, <1>4, <1>5, SMT

\* CeilDiv is the least integer whose product with the divisor reaches a.
LEMMA CeilDivReaches ==
    ASSUME NEW a \in Nat, NEW b \in Nat \ {0}
    PROVE  CeilDiv(a, b) \in Nat /\ a <= b * CeilDiv(a, b)
<1>. DEFINE c == CeilDiv(a, b)
<1>1. a + b - 1 \in Int
  OBVIOUS
<1>2. c \in Int /\ a + b - 1 < b * c + b
  BY <1>1, DivMod DEF CeilDiv
<1>3. a <= b * c
  BY <1>2, SMT
<1>4. b * 0 <= a + b - 1
  BY SMT
<1>5. 0 <= c
  BY <1>1, <1>4, DivLess DEF CeilDiv
<1> QED
  BY <1>2, <1>3, <1>5

LEMMA CeilDivLeast ==
    ASSUME NEW a \in Nat, NEW b \in Nat \ {0}, NEW q \in Int, a <= b * q
    PROVE  CeilDiv(a, b) <= q
<1>. DEFINE c == CeilDiv(a, b)
<1>1. c \in Int /\ b * c <= a + b - 1
  BY DivMod DEF CeilDiv
<1>2. SUFFICES ASSUME q < c PROVE FALSE
  BY <1>1
<1>3. q + 1 <= c
  BY <1>1, <1>2
<1>4. b * (q + 1) <= b * c
  BY <1>1, <1>3, SMT
<1>5. b * (q + 1) = b * q + b
  BY SMT
<1> QED
  BY <1>1, <1>4, <1>5, SMT

-----------------------------------------------------------------------------
(* Sums. *)

Pick(s) == CHOOSE x \in s : TRUE

Sums(f, g, S) ==
    g = [s \in SUBSET S |-> IF s = {} THEN 0 ELSE f[Pick(s)] + g[s \ {Pick(s)}]]

Chosen(f, S) == CHOOSE g : Sums(f, g, S)

LEMMA SumIsChosen ==
    ASSUME NEW f, NEW S
    PROVE  SumOver(f, S) = Chosen(f, S)[S]
  BY DEF SumOver, MapThenSumSet, MapThenFoldSet, Chosen, Sums, Pick

LEMMA Minimal ==
    ASSUME NEW S, IsFiniteSet(S), NEW T \in SUBSET SUBSET S, T # {}
    PROVE  \E x \in T : \A y \in T : y \subseteq x => y = x
<1>1. IsWellFoundedOn(StrictSubsetOrdering(S), FiniteSubsetsOf(S))
  BY FS_StrictSubsetOrderingWellFounded
<1>2. T \subseteq FiniteSubsetsOf(S)
  BY FS_FiniteSubsetsOfFinite
<1>3. \E x \in T : \A y \in T : ~(<<y, x>> \in StrictSubsetOrdering(S))
  BY <1>1, <1>2, WFMin
<1> QED
  BY <1>3 DEF StrictSubsetOrdering

LEMMA PickIn ==
    ASSUME NEW s, s # {}
    PROVE  Pick(s) \in s /\ s \ {Pick(s)} # s
  BY DEF Pick

\* What Sums says pointwise.
LEMMA SumsAt ==
    ASSUME NEW f, NEW S, NEW g, Sums(f, g, S), NEW s \in SUBSET S
    PROVE  g[s] = IF s = {} THEN 0 ELSE f[Pick(s)] + g[s \ {Pick(s)}]
  <1>. DEFINE G(h) == [r \in SUBSET S |-> IF r = {} THEN 0 ELSE f[Pick(r)] + h[r \ {Pick(r)}]]
  <1>1. g = G(g)
    BY DEF Sums
  <1>2. G(g)[s] = IF s = {} THEN 0 ELSE f[Pick(s)] + g[s \ {Pick(s)}]
    OBVIOUS
  <1> HIDE DEF G
  <1> QED
    BY <1>1, <1>2

LEMMA SumsTop ==
    ASSUME NEW f, NEW S, NEW g, Sums(f, g, S)
    PROVE  g[S] = IF S = {} THEN 0 ELSE f[Pick(S)] + g[S \ {Pick(S)}]
<1>1. \A s \in SUBSET S :
        g[s] = IF s = {} THEN 0 ELSE f[Pick(s)] + g[s \ {Pick(s)}]
  BY SumsAt
<1> QED
  BY <1>1

LEMMA SumsUnique ==
    ASSUME NEW f, NEW S, IsFiniteSet(S), NEW T \in SUBSET S, NEW g, NEW h,
           Sums(f, g, S), Sums(f, h, T)
    PROVE  \A s \in SUBSET T : g[s] = h[s]
<1>. DEFINE Bad == {s \in SUBSET T : g[s] # h[s]}
<1>1. SUFFICES ASSUME Bad # {} PROVE FALSE
  OBVIOUS
<1>2. Bad \in SUBSET SUBSET S
  OBVIOUS
<1>3. PICK s \in Bad : \A y \in Bad : y \subseteq s => y = s
  <2> HIDE DEF Bad
  <2> QED
    BY <1>1, <1>2, Minimal
<1>4. s \in SUBSET S /\ s \in SUBSET T
  BY <1>3
<1>5. g[s] = IF s = {} THEN 0 ELSE f[Pick(s)] + g[s \ {Pick(s)}]
  BY <1>4, SumsAt
<1>6. h[s] = IF s = {} THEN 0 ELSE f[Pick(s)] + h[s \ {Pick(s)}]
  BY <1>4, SumsAt
<1>7. g[s] # h[s]
  BY <1>3
<1>8. s # {}
  BY <1>5, <1>6, <1>7
<1>9. s \ {Pick(s)} \in SUBSET T /\ s \ {Pick(s)} \notin Bad
  BY <1>3, <1>8, PickIn
<1>10. g[s \ {Pick(s)}] = h[s \ {Pick(s)}]
  BY <1>9
<1> HIDE DEF Bad
<1> QED
  BY <1>5, <1>6, <1>7, <1>8, <1>10

LEMMA SumsExist ==
    ASSUME NEW f, NEW S, IsFiniteSet(S)
    PROVE  Sums(f, Chosen(f, S), S)
<1>. DEFINE Bad == {s \in SUBSET S : ~Sums(f, Chosen(f, s), s)}
<1>1. SUFFICES ASSUME Bad # {} PROVE FALSE
  OBVIOUS
<1>2. PICK T \in Bad : \A y \in Bad : y \subseteq T => y = T
  <2>1. Bad \in SUBSET SUBSET S
    OBVIOUS
  <2> HIDE DEF Bad
  <2> QED
    BY <1>1, <2>1, Minimal
<1>3. ASSUME NEW U \in SUBSET T, U # T PROVE Sums(f, Chosen(f, U), U)
  BY <1>2, <1>3
<1>. DEFINE At(s) == IF s = {} THEN 0 ELSE f[Pick(s)] + Chosen(f, s \ {Pick(s)})[s \ {Pick(s)}]
            h == [s \in SUBSET T |-> At(s)]
<1>4. ASSUME NEW s \in SUBSET T, s # {}
      PROVE  h[s \ {Pick(s)}] = Chosen(f, s \ {Pick(s)})[s \ {Pick(s)}]
  <2>. DEFINE u == s \ {Pick(s)}
  <2>1. u \in SUBSET T /\ u # T
    BY <1>4, PickIn
  <2>2. Sums(f, Chosen(f, u), u)
    BY <1>3, <2>1
  <2>3. Chosen(f, u)[u] = IF u = {} THEN 0 ELSE f[Pick(u)] + Chosen(f, u)[u \ {Pick(u)}]
    BY <2>2, SumsTop
  <2>4. h[u] = At(u)
    BY <2>1
  <2>5. CASE u = {}
    BY <2>3, <2>4, <2>5
  <2>6. CASE u # {}
    <3>. DEFINE v == u \ {Pick(u)}
    <3>1. v \in SUBSET u /\ v # T
      BY <2>1, <2>6, PickIn
    <3>2. Sums(f, Chosen(f, v), v)
      BY <1>3, <2>1, <3>1
    <3>3. IsFiniteSet(u)
      BY <2>1, FS_Subset
    <3>4. Chosen(f, u)[v] = Chosen(f, v)[v]
      <4>1. v \in SUBSET v
        OBVIOUS
      <4> HIDE DEF u, v
      <4> QED
        BY <2>2, <3>1, <3>2, <3>3, <4>1, SumsUnique
    <3> QED
      BY <2>3, <2>4, <2>6, <3>4
  <2> QED
    BY <2>5, <2>6
<1>5. h = [s \in SUBSET T |-> IF s = {} THEN 0 ELSE f[Pick(s)] + h[s \ {Pick(s)}]]
  <2>1. ASSUME NEW s \in SUBSET T
        PROVE  At(s) = IF s = {} THEN 0 ELSE f[Pick(s)] + h[s \ {Pick(s)}]
    BY <1>4
  <2> HIDE DEF At
  <2> QED
    BY <2>1
<1>6. Sums(f, h, T)
  <2> HIDE DEF h
  <2> QED
    BY <1>5 DEF Sums
<1>7. Sums(f, Chosen(f, T), T)
  <2> HIDE DEF h
  <2> QED
    BY <1>6 DEF Chosen
<1> QED
  BY <1>7

\* The recursion that SumOver was defined by.
LEMMA SumUnfolds ==
    ASSUME NEW f, NEW S, IsFiniteSet(S), S # {}
    PROVE  SumOver(f, S) = f[Pick(S)] + SumOver(f, S \ {Pick(S)})
<1>. DEFINE T == S \ {Pick(S)}
<1>1. T \in SUBSET S /\ IsFiniteSet(T)
  BY FS_Subset
<1>2. Sums(f, Chosen(f, S), S) /\ Sums(f, Chosen(f, T), T)
  BY <1>1, SumsExist
<1>3. Chosen(f, S)[S] = f[Pick(S)] + Chosen(f, S)[T]
  BY <1>2, SumsAt
<1>4. Chosen(f, S)[T] = Chosen(f, T)[T]
  <2>1. T \in SUBSET T
    OBVIOUS
  <2> HIDE DEF T
  <2> QED
    BY <1>1, <1>2, <2>1, SumsUnique
<1> QED
  BY <1>3, <1>4, SumIsChosen

LEMMA SumEmpty ==
    ASSUME NEW f
    PROVE  SumOver(f, {}) = 0
<1>1. Sums(f, Chosen(f, {}), {})
  BY SumsExist, FS_EmptySet
<1>2. Chosen(f, {})[{}] = 0
  BY <1>1, SumsAt
<1> QED
  BY <1>2, SumIsChosen

LEMMA SumInt ==
    ASSUME NEW f, NEW S, IsFiniteSet(S), \A x \in S : f[x] \in Int
    PROVE  SumOver(f, S) \in Int
<1>. DEFINE Bad == {s \in SUBSET S : SumOver(f, s) \notin Int}
<1>1. SUFFICES ASSUME Bad # {} PROVE FALSE
  OBVIOUS
<1>2. PICK s \in Bad : \A y \in Bad : y \subseteq s => y = s
  <2>1. Bad \in SUBSET SUBSET S
    OBVIOUS
  <2> HIDE DEF Bad
  <2> QED
    BY <1>1, <2>1, Minimal
<1>3. s # {}
  BY SumEmpty
<1>4. IsFiniteSet(s)
  BY FS_Subset
<1>5. s \ {Pick(s)} \notin Bad /\ f[Pick(s)] \in Int
  BY <1>2, <1>3, PickIn
<1> QED
  BY <1>3, <1>4, <1>5, SumUnfolds

\* Any element may be taken out first.
LEMMA SumRemove ==
    ASSUME NEW f, NEW S, IsFiniteSet(S), \A x \in S : f[x] \in Int, NEW e \in S
    PROVE  SumOver(f, S) = f[e] + SumOver(f, S \ {e})
<1>. DEFINE Bad == {s \in SUBSET S : \E x \in s : SumOver(f, s) # f[x] + SumOver(f, s \ {x})}
<1>1. SUFFICES ASSUME Bad # {} PROVE FALSE
  OBVIOUS
<1>2. PICK s \in Bad : \A y \in Bad : y \subseteq s => y = s
  <2>1. Bad \in SUBSET SUBSET S
    OBVIOUS
  <2> HIDE DEF Bad
  <2> QED
    BY <1>1, <2>1, Minimal
<1>3. PICK x \in s : SumOver(f, s) # f[x] + SumOver(f, s \ {x})
  OBVIOUS
<1>. DEFINE p == Pick(s)
            r == s \ {x, p}
<1>4. IsFiniteSet(s) /\ IsFiniteSet(s \ {x}) /\ IsFiniteSet(r) /\ p \in s
  BY <1>3, FS_Subset, PickIn
<1>5. SumOver(f, s) = f[p] + SumOver(f, s \ {p})
  BY <1>3, <1>4, SumUnfolds
<1>6. x # p
  BY <1>3, <1>5
<1>7. s \ {p} \notin Bad /\ s \ {x} \notin Bad
  BY <1>2, <1>4
<1>8. SumOver(f, s \ {p}) = f[x] + SumOver(f, r)
  <2>1. x \in s \ {p} /\ (s \ {p}) \ {x} = r /\ s \ {p} \in SUBSET S
    BY <1>6
  <2> QED
    BY <1>7, <2>1
<1>9. SumOver(f, s \ {x}) = f[p] + SumOver(f, r)
  <2>1. p \in s \ {x} /\ (s \ {x}) \ {p} = r /\ s \ {x} \in SUBSET S
    BY <1>4, <1>6
  <2> QED
    BY <1>7, <2>1
<1>10. SumOver(f, r) \in Int /\ f[x] \in Int /\ f[p] \in Int
  BY <1>4, SumInt
<1> HIDE DEF p, r
<1> QED
  BY <1>3, <1>5, <1>8, <1>9, <1>10

LEMMA SumAdd ==
    ASSUME NEW f, NEW S, IsFiniteSet(S), NEW e, e \notin S,
           \A x \in S \cup {e} : f[x] \in Int
    PROVE  SumOver(f, S \cup {e}) = f[e] + SumOver(f, S)
<1>1. IsFiniteSet(S \cup {e}) /\ (S \cup {e}) \ {e} = S
  BY FS_AddElement
<1> QED
  BY <1>1, SumRemove

\* Only the values on the set matter.
LEMMA SumSame ==
    ASSUME NEW f, NEW g, NEW S, IsFiniteSet(S), \A x \in S : f[x] = g[x]
    PROVE  SumOver(f, S) = SumOver(g, S)
<1>. DEFINE Bad == {s \in SUBSET S : SumOver(f, s) # SumOver(g, s)}
<1>1. SUFFICES ASSUME Bad # {} PROVE FALSE
  OBVIOUS
<1>2. PICK s \in Bad : \A y \in Bad : y \subseteq s => y = s
  <2>1. Bad \in SUBSET SUBSET S
    OBVIOUS
  <2> HIDE DEF Bad
  <2> QED
    BY <1>1, <2>1, Minimal
<1>3. s # {}
  BY SumEmpty
<1>4. IsFiniteSet(s)
  BY FS_Subset
<1>5. s \ {Pick(s)} \notin Bad /\ f[Pick(s)] = g[Pick(s)]
  BY <1>2, <1>3, PickIn
<1> QED
  BY <1>3, <1>4, <1>5, SumUnfolds

LEMMA SumDisjoint ==
    ASSUME NEW f, NEW S, NEW T, IsFiniteSet(S), IsFiniteSet(T), S \cap T = {},
           \A x \in S \cup T : f[x] \in Int
    PROVE  SumOver(f, S \cup T) = SumOver(f, S) + SumOver(f, T)
<1>. DEFINE Bad == {s \in SUBSET S : SumOver(f, s \cup T) # SumOver(f, s) + SumOver(f, T)}
<1>1. SUFFICES ASSUME Bad # {} PROVE FALSE
  OBVIOUS
<1>2. PICK s \in Bad : \A y \in Bad : y \subseteq s => y = s
  <2>1. Bad \in SUBSET SUBSET S
    OBVIOUS
  <2> HIDE DEF Bad
  <2> QED
    BY <1>1, <2>1, Minimal
<1>3. SumOver(f, T) \in Int
  BY SumInt
<1>4. s # {}
  <2>1. {} \cup T = T
    OBVIOUS
  <2> QED
    BY <1>3, <2>1, SumEmpty
<1>. DEFINE p == Pick(s)
            r == s \ {p}
<1>5. p \in s /\ f[p] \in Int /\ r \notin Bad /\ r \in SUBSET S
  BY <1>2, <1>4, PickIn
<1>6. IsFiniteSet(r) /\ IsFiniteSet(s) /\ IsFiniteSet(r \cup T) /\ SumOver(f, r) \in Int
  BY FS_Subset, FS_Union, SumInt
<1>7. s \cup T = (r \cup T) \cup {p} /\ p \notin r \cup T /\ s = r \cup {p} /\ p \notin r
  BY <1>5
<1>8. SumOver(f, s \cup T) = f[p] + SumOver(f, r \cup T)
  BY <1>6, <1>7, SumAdd
<1>9. SumOver(f, s) = f[p] + SumOver(f, r)
  BY <1>6, <1>7, SumAdd
<1> HIDE DEF p, r
<1> QED
  BY <1>3, <1>5, <1>6, <1>8, <1>9

LEMMA SumNat ==
    ASSUME NEW f, NEW S, IsFiniteSet(S), \A x \in S : f[x] \in Nat
    PROVE  SumOver(f, S) \in Nat
<1>. DEFINE Bad == {s \in SUBSET S : SumOver(f, s) \notin Nat}
<1>1. SUFFICES ASSUME Bad # {} PROVE FALSE
  OBVIOUS
<1>2. PICK s \in Bad : \A y \in Bad : y \subseteq s => y = s
  <2>1. Bad \in SUBSET SUBSET S
    OBVIOUS
  <2> HIDE DEF Bad
  <2> QED
    BY <1>1, <2>1, Minimal
<1>3. s # {}
  BY SumEmpty
<1>4. IsFiniteSet(s)
  BY FS_Subset
<1>5. s \ {Pick(s)} \notin Bad /\ f[Pick(s)] \in Nat
  BY <1>2, <1>3, PickIn
<1> QED
  BY <1>3, <1>4, <1>5, SumUnfolds
\* A sum over what a set is renamed to, no two of its members to the same.
LEMMA SumImage ==
    ASSUME NEW f, NEW S, IsFiniteSet(S), NEW h,
           \A x, y \in S : h[x] = h[y] => x = y,
           NEW g, \A x \in S : g[x] \in Int /\ f[h[x]] = g[x],
           NEW T, \A y : y \in T <=> \E x \in S : y = h[x]
    PROVE  IsFiniteSet(T) /\ SumOver(f, T) = SumOver(g, S)
<1>. DEFINE I(s) == {h[x] : x \in s}
            Good(s) == IsFiniteSet(I(s)) /\ SumOver(f, I(s)) = SumOver(g, s)
            Bad == {s \in SUBSET S : ~Good(s)}
<1>1. SUFFICES ASSUME Bad # {} PROVE FALSE
  <2>1. I(S) = T
    OBVIOUS
  <2>2. SUFFICES Good(S)
    BY <2>1
  <2> QED
    OBVIOUS
<1>2. PICK s \in Bad : \A y \in Bad : y \subseteq s => y = s
  <2>1. Bad \in SUBSET SUBSET S
    OBVIOUS
  <2> HIDE DEF Bad
  <2> QED
    BY <1>1, <2>1, Minimal
<1>3. s # {}
  <2>1. I({}) = {}
    OBVIOUS
  <2>2. Good({})
    BY <2>1, FS_EmptySet, SumEmpty
  <2> QED
    BY <2>2
<1>. DEFINE p == Pick(s)
            r == s \ {p}
<1>4. p \in s /\ p \in S /\ r \notin Bad /\ r \in SUBSET S
  BY <1>2, <1>3, PickIn
<1>5. IsFiniteSet(I(r)) /\ SumOver(f, I(r)) = SumOver(g, r) /\ IsFiniteSet(r)
  <2>1. Good(r)
    BY <1>4
  <2>2. IsFiniteSet(r)
    BY <1>4, FS_Subset
  <2> QED
    BY <2>1, <2>2
<1>6. s = r \cup {p} /\ p \notin r /\ I(s) = I(r) \cup {h[p]} /\ h[p] \notin I(r)
  BY <1>4
<1>7. SumOver(g, s) = g[p] + SumOver(g, r)
  <2>1. IsFiniteSet(s) /\ \A x \in s : g[x] \in Int
    <3>1. s \in SUBSET S
      BY <1>2
    <3> QED
      BY <3>1, FS_Subset
  <2>. HIDE DEF I, Good, Bad
  <2>2. SumOver(g, s) = g[p] + SumOver(g, s \ {p})
    <3>. DEFINE q == p
    <3>1. q \in s
      BY <1>4
    <3>. HIDE DEF q
    <3>2. SumOver(g, s) = g[q] + SumOver(g, s \ {q})
      BY <2>1, <3>1, SumRemove
    <3> QED
      BY <3>2 DEF q
  <2> QED
    BY <2>2
<1>8. SumOver(f, I(s)) = f[h[p]] + SumOver(f, I(r))
  <2>1. ASSUME NEW y \in I(r) \cup {h[p]} PROVE f[y] \in Int
    <3>1. PICK x \in S : y = h[x]
      BY <1>4, <1>6, <2>1
    <3> QED
      BY <3>1
  <2>. DEFINE D == I(r)
              e == h[p]
  <2>2. IsFiniteSet(D) /\ e \notin D /\ I(s) = D \cup {e} /\ \A y \in D \cup {e} : f[y] \in Int
    BY <1>5, <1>6, <2>1
  <2>3. SumOver(f, D \cup {e}) = f[e] + SumOver(f, D)
    <3> HIDE DEF D, e
    <3> QED
      BY <2>2, SumAdd
  <2> QED
    BY <2>2, <2>3
<1>9. IsFiniteSet(I(s))
  <2>. DEFINE D == I(r)
              e == h[p]
  <2>1. IsFiniteSet(D) /\ I(s) = D \cup {e}
    BY <1>5, <1>6
  <2>2. IsFiniteSet(D \cup {e})
    <3> HIDE DEF D, e
    <3> QED
      BY <2>1, FS_AddElement
  <2> QED
    BY <2>1, <2>2
<1>10. Good(s)
  BY <1>4, <1>5, <1>7, <1>8, <1>9
<1> QED
  BY <1>10
=============================================================================
