----------------------------- MODULE SumTheorems -----------------------------
(***************************************************************************)
(* Sums over finite sets, and the induction that they need.                *)
(***************************************************************************)
EXTENDS Integers, FiniteSets, Functions, FiniteSetTheorems, TLAPS

\* Induction over the natural numbers, stated of a set: the theorems of the
\* library state it of an operator, which no installed prover instantiates.
\* The least number outside the set would have a predecessor in it.
LEMMA NatSetInduction ==
    ASSUME NEW S, 0 \in S, \A n \in Nat : n \in S => n + 1 \in S
    PROVE  Nat \subseteq S
<1> DEFINE R == OpToRel(<, Nat)
           T == Nat \ S
<1>1. SUFFICES ASSUME T # {} PROVE FALSE
  OBVIOUS
<1>2. IsWellFoundedOn(R, Nat)
  BY NatLessThanWellFounded, Zenon
<1>3. \A n \in Nat : <<n, n + 1>> \in R
  BY DEF OpToRel
<1> HIDE DEF R
<1>4. PICK x \in T : \A y \in T : ~ (<<y, x>> \in R)
  <2>1. T \subseteq Nat
    OBVIOUS
  <2> HIDE DEF T
  <2> QED
    BY <1>1, <1>2, <2>1, WFMin
<1>5. x # 0 /\ x \in Nat
  BY <1>4
<1>6. x - 1 \in Nat /\ x = (x - 1) + 1
  BY <1>5
<1>7. <<x - 1, x>> \in R
  BY <1>3, <1>6
<1>8. x - 1 \in S
  BY <1>4, <1>6, <1>7
<1> QED
  BY <1>4, <1>6, <1>8

\* Induction over the subsets of a finite set, in the order of their sizes.
LEMMA FiniteSetInduction ==
    ASSUME NEW D, IsFiniteSet(D), NEW F, {} \in F,
           ASSUME NEW s \in SUBSET D, s # {}, \A x \in s : s \ {x} \in F
           PROVE  s \in F
    PROVE  SUBSET D \subseteq F
<1> DEFINE N == {n \in Nat : \A s \in SUBSET D : Cardinality(s) = n => s \in F}
<1>1. \A s \in SUBSET D : IsFiniteSet(s) /\ Cardinality(s) \in Nat
  BY FS_Subset, FS_CardinalityType
<1>2. 0 \in N
  <2>1. \A s \in SUBSET D : Cardinality(s) = 0 => s = {}
    BY <1>1, FS_EmptySet
  <2> QED
    BY <2>1
<1>3. ASSUME NEW n \in Nat, n \in N PROVE n + 1 \in N
  <2>1. SUFFICES ASSUME NEW s \in SUBSET D, Cardinality(s) = n + 1 PROVE s \in F
    OBVIOUS
  <2>2. s # {}
    <3>1. Cardinality({}) = 0 /\ Cardinality(s) # 0
      BY <2>1, FS_EmptySet
    <3> QED
      BY <3>1
  <2>3. ASSUME NEW x \in s PROVE s \ {x} \in F
    <3>1. Cardinality(s \ {x}) = n
      BY <1>1, <2>1, FS_RemoveElement
    <3> QED
      BY <1>3, <3>1
  <2> QED
    BY <2>2, <2>3
<1> HIDE DEF N
<1>4. Nat \subseteq N
  BY <1>2, <1>3, NatSetInduction
<1> QED
  BY <1>1, <1>4 DEF N

-----------------------------------------------------------------------------
(***************************************************************************)
(* Sums: SumFunctionOnSet takes the elements of a set in an order that     *)
(* CHOOSE decides.  Its recursion has a solution on every finite set, so   *)
(* it can be unfolded, and the order turns out not to matter.              *)
(***************************************************************************)
Pick(s) == CHOOSE x \in s : TRUE

\* A function of the subsets of D that sums c over each.
Adds(g, c, D) ==
    \A s \in SUBSET D : g[s] = IF s = {} THEN 0 ELSE c[Pick(s)] + g[s \ {Pick(s)}]

\* The equation of the fold.
Solves(g, c, D) ==
    g = [s \in SUBSET D |-> IF s = {} THEN 0 ELSE c[Pick(s)] + g[s \ {Pick(s)}]]

LEMMA PickIsMember == ASSUME NEW s, s # {} PROVE Pick(s) \in s
BY DEF Pick

\* It has a solution, from the smaller sets to the larger.
LEMMA SumsExist ==
    ASSUME NEW D, IsFiniteSet(D), NEW c
    PROVE  \E g : Solves(g, c, D)
<1> DEFINE Small(n) == {s \in SUBSET D : Cardinality(s) <= n}
           Body(g, s) == IF s = {} THEN 0 ELSE c[Pick(s)] + g[s \ {Pick(s)}]
           Solved(n) == \E g : g = [s \in Small(n) |-> Body(g, s)]
           N == {n \in Nat : Solved(n)}
<1>1. \A s \in SUBSET D : IsFiniteSet(s) /\ Cardinality(s) \in Nat
  BY FS_Subset, FS_CardinalityType
<1>2. 0 \in N
  <2>1. \A s \in Small(0) : s = {}
    BY <1>1, FS_EmptySet
  <2> DEFINE g == [s \in Small(0) |-> 0]
  <2>2. g = [s \in Small(0) |-> Body(g, s)]
    BY <2>1
  <2> QED
    BY <2>2
<1>3. ASSUME NEW n \in Nat, n \in N PROVE n + 1 \in N
  <2>1. PICK g : g = [s \in Small(n) |-> Body(g, s)]
    BY <1>3
  <2> DEFINE f == [s \in Small(n + 1) |-> Body(g, s)]
  <2>2. ASSUME NEW s \in Small(n) PROVE f[s] = g[s]
    <3>1. s \in Small(n + 1)
      BY <1>1
    <3> QED
      BY <2>1, <3>1
  <2>3. ASSUME NEW s \in Small(n + 1), s # {} PROVE s \ {Pick(s)} \in Small(n)
    BY <1>1, <2>3, FS_RemoveElement, PickIsMember
  <2>4. \A s \in Small(n + 1) : Body(g, s) = Body(f, s)
    BY <2>2, <2>3
  <2> HIDE DEF Body, Small
  <2>5. f = [s \in Small(n + 1) |-> Body(f, s)]
    BY <2>4
  <2>6. Solved(n + 1)
    <3> HIDE DEF f
    <3> QED
      BY <2>5
  <2> QED
    BY <2>6
<1> HIDE DEF N
<1>4. Cardinality(D) \in N
  BY <1>1, <1>2, <1>3, NatSetInduction
<1>5. Small(Cardinality(D)) = SUBSET D
  <2>1. \A s \in SUBSET D : Cardinality(s) <= Cardinality(D)
    BY FS_Subset
  <2> QED
    BY <2>1
<1>6. PICK g : g = [s \in SUBSET D |-> Body(g, s)]
  BY <1>4, <1>5 DEF N
<1>7. Solves(g, c, D)
  BY <1>6 DEF Solves
<1> QED
  BY <1>7

\* And one only, which depends on the terms in D.
LEMMA SumsAgree ==
    ASSUME NEW D, IsFiniteSet(D), NEW g, NEW c, NEW h, NEW d, Adds(g, c, D), Adds(h, d, D),
           \A i \in D : c[i] = d[i]
    PROVE  \A s \in SUBSET D : g[s] = h[s]
<1> DEFINE F == {s \in SUBSET D : g[s] = h[s]}
<1>1. {} \in F
  BY DEF Adds
<1>2. ASSUME NEW s \in SUBSET D, s # {}, \A x \in s : s \ {x} \in F PROVE s \in F
  <2>1. Pick(s) \in s /\ g[s \ {Pick(s)}] = h[s \ {Pick(s)}]
    BY <1>2, PickIsMember
  <2> QED
    BY <1>2, <2>1 DEF Adds
<1> HIDE DEF F
<1>3. SUBSET D \subseteq F
  BY <1>1, <1>2, FiniteSetInduction
<1> QED
  BY <1>3 DEF F

\* The library's sum is that solution.
LEMMA SumsAdd ==
    ASSUME NEW D, IsFiniteSet(D), NEW c
    PROVE  \E g : Adds(g, c, D) /\ SumFunctionOnSet(c, D) = g[D]
<1>1. \E g : Solves(g, c, D)
  BY SumsExist
<1>2. Solves(CHOOSE g : Solves(g, c, D), c, D)
  BY <1>1, Zenon
<1>3. SumFunctionOnSet(c, D) = (CHOOSE g : Solves(g, c, D))[D]
  BY Zenon DEF SumFunctionOnSet, FoldFunctionOnSet, MapThenFoldSet, Pick, Solves
<1>4. \A g : Solves(g, c, D) => Adds(g, c, D)
  BY DEF Adds, Solves
<1> QED
  BY <1>2, <1>3, <1>4

\* The sum of nothing, and of a set by way of the element that the fold picks.
LEMMA SumByPick ==
    ASSUME NEW D, IsFiniteSet(D), NEW c
    PROVE  /\ SumFunctionOnSet(c, {}) = 0
           /\ D # {} => SumFunctionOnSet(c, D) = c[Pick(D)] + SumFunctionOnSet(c, D \ {Pick(D)})
<1>1. PICK g : Adds(g, c, D) /\ SumFunctionOnSet(c, D) = g[D]
  BY SumsAdd
<1>2. ASSUME NEW s \in SUBSET D PROVE SumFunctionOnSet(c, s) = g[s]
  <2>1. IsFiniteSet(s)
    BY FS_Subset
  <2>2. PICK h : Adds(h, c, s) /\ SumFunctionOnSet(c, s) = h[s]
    BY <2>1, SumsAdd
  <2>3. Adds(g, c, s)
    BY <1>1 DEF Adds
  <2>4. h[s] = g[s]
    BY <2>1, <2>2, <2>3, SumsAgree
  <2> QED
    BY <2>2, <2>4
<1>3. SumFunctionOnSet(c, {}) = g[{}] /\ SumFunctionOnSet(c, D \ {Pick(D)}) = g[D \ {Pick(D)}]
  BY <1>2
<1> QED
  BY <1>1, <1>3 DEF Adds

LEMMA SumEmpty == ASSUME NEW c PROVE SumFunctionOnSet(c, {}) = 0
<1>1. IsFiniteSet({})
  BY FS_EmptySet
<1> QED
  BY <1>1, SumByPick

\* Only the terms in the set matter.
LEMMA SumSame ==
    ASSUME NEW D, IsFiniteSet(D), NEW c, NEW d, \A i \in D : c[i] = d[i]
    PROVE  SumFunctionOnSet(c, D) = SumFunctionOnSet(d, D)
<1>1. PICK g : Adds(g, c, D) /\ SumFunctionOnSet(c, D) = g[D]
  BY SumsAdd
<1>2. PICK h : Adds(h, d, D) /\ SumFunctionOnSet(d, D) = h[D]
  BY SumsAdd
<1>3. g[D] = h[D]
  BY <1>1, <1>2, SumsAgree
<1> QED
  BY <1>1, <1>2, <1>3

\* The kinds of a sum, and its growth with its terms.
LEMMA SumIsInt ==
    ASSUME NEW D, IsFiniteSet(D), NEW c, \A i \in D : c[i] \in Int
    PROVE  SumFunctionOnSet(c, D) \in Int
<1> DEFINE F == {s \in SUBSET D : SumFunctionOnSet(c, s) \in Int}
<1>1. {} \in F
  BY SumEmpty
<1>2. ASSUME NEW s \in SUBSET D, s # {}, \A x \in s : s \ {x} \in F PROVE s \in F
  <2>1. Pick(s) \in s /\ SumFunctionOnSet(c, s) = c[Pick(s)] + SumFunctionOnSet(c, s \ {Pick(s)})
    BY <1>2, PickIsMember, FS_Subset, SumByPick
  <2> QED
    BY <1>2, <2>1
<1> HIDE DEF F
<1>3. SUBSET D \subseteq F
  BY <1>1, <1>2, FiniteSetInduction
<1> QED
  BY <1>3 DEF F

\* A sum by way of any of its terms: the order of the fold does not matter.
LEMMA SumRemove ==
    ASSUME NEW D, IsFiniteSet(D), NEW c, \A i \in D : c[i] \in Int, NEW x \in D
    PROVE  SumFunctionOnSet(c, D) = c[x] + SumFunctionOnSet(c, D \ {x})
<1> DEFINE F == {s \in SUBSET D : \A y \in s : SumFunctionOnSet(c, s) = c[y] + SumFunctionOnSet(c, s \ {y})}
<1>1. {} \in F
  OBVIOUS
<1>2. ASSUME NEW s \in SUBSET D, s # {}, \A y \in s : s \ {y} \in F PROVE s \in F
  <2> DEFINE p == Pick(s)
  <2>1. p \in s /\ SumFunctionOnSet(c, s) = c[p] + SumFunctionOnSet(c, s \ {p})
    BY <1>2, PickIsMember, FS_Subset, SumByPick
  <2> HIDE DEF p
  <2>2. SUFFICES ASSUME NEW y \in s, y # p PROVE SumFunctionOnSet(c, s) = c[y] + SumFunctionOnSet(c, s \ {y})
    BY <2>1
  <2>3. SumFunctionOnSet(c, s \ {p}) = c[y] + SumFunctionOnSet(c, (s \ {p}) \ {y})
    BY <1>2, <2>1, <2>2
  <2>4. SumFunctionOnSet(c, s \ {y}) = c[p] + SumFunctionOnSet(c, (s \ {y}) \ {p})
    BY <1>2, <2>1, <2>2
  <2>5. (s \ {p}) \ {y} = (s \ {y}) \ {p}
    OBVIOUS
  <2>6. SumFunctionOnSet(c, (s \ {p}) \ {y}) \in Int
    <3>1. IsFiniteSet((s \ {p}) \ {y})
      BY FS_Subset
    <3> QED
      BY <3>1, SumIsInt
  <2>7. c[p] \in Int /\ c[y] \in Int
    BY <2>1
  <2> DEFINE r == SumFunctionOnSet(c, (s \ {p}) \ {y})
  <2>8. SumFunctionOnSet(c, s \ {p}) = c[y] + r /\ SumFunctionOnSet(c, s \ {y}) = c[p] + r
    BY <2>3, <2>4, <2>5
  <2> HIDE DEF r, F
  <2>9. r \in Int
    BY <2>6 DEF r
  <2> QED
    BY <2>1, <2>7, <2>8, <2>9
<1> HIDE DEF F
<1>3. SUBSET D \subseteq F
  BY <1>1, <1>2, FiniteSetInduction
<1> QED
  BY <1>3 DEF F

LEMMA SumGrows ==
    ASSUME NEW D, IsFiniteSet(D), NEW c, NEW d,
           \A i \in D : c[i] \in Int /\ d[i] \in Int /\ c[i] <= d[i]
    PROVE  SumFunctionOnSet(c, D) <= SumFunctionOnSet(d, D)
<1> DEFINE F == {s \in SUBSET D : SumFunctionOnSet(c, s) <= SumFunctionOnSet(d, s)}
<1>1. {} \in F
  BY SumEmpty
<1>2. ASSUME NEW s \in SUBSET D, s # {}, \A x \in s : s \ {x} \in F PROVE s \in F
  <2>1. PICK x \in s : TRUE
    BY <1>2
  <2>2. /\ SumFunctionOnSet(c, s) = c[x] + SumFunctionOnSet(c, s \ {x})
        /\ SumFunctionOnSet(d, s) = d[x] + SumFunctionOnSet(d, s \ {x})
    BY FS_Subset, SumRemove
  <2>3. SumFunctionOnSet(c, s \ {x}) \in Int /\ SumFunctionOnSet(d, s \ {x}) \in Int
    BY FS_Subset, SumIsInt
  <2>4. c[x] \in Int /\ d[x] \in Int /\ c[x] <= d[x]
    BY <2>1
  <2> QED
    BY <1>2, <2>2, <2>3, <2>4
<1> HIDE DEF F
<1>3. SUBSET D \subseteq F
  BY <1>1, <1>2, FiniteSetInduction
<1> QED
  BY <1>3 DEF F

LEMMA SumIsNat ==
    ASSUME NEW D, IsFiniteSet(D), NEW c, \A i \in D : c[i] \in Nat
    PROVE  SumFunctionOnSet(c, D) \in Nat
<1> DEFINE F == {s \in SUBSET D : SumFunctionOnSet(c, s) \in Nat}
<1>1. {} \in F
  BY SumEmpty
<1>2. ASSUME NEW s \in SUBSET D, s # {}, \A x \in s : s \ {x} \in F PROVE s \in F
  <2>1. Pick(s) \in s /\ SumFunctionOnSet(c, s) = c[Pick(s)] + SumFunctionOnSet(c, s \ {Pick(s)})
    BY <1>2, PickIsMember, FS_Subset, SumByPick
  <2> QED
    BY <1>2, <2>1
<1> HIDE DEF F
<1>3. SUBSET D \subseteq F
  BY <1>1, <1>2, FiniteSetInduction
<1> QED
  BY <1>3 DEF F

\* No term of a sum of natural numbers is more than the sum.
LEMMA SumBoundsTerms ==
    ASSUME NEW D, IsFiniteSet(D), NEW c, \A i \in D : c[i] \in Nat, NEW x \in D
    PROVE  c[x] <= SumFunctionOnSet(c, D)
<1>1. SumFunctionOnSet(c, D) = c[x] + SumFunctionOnSet(c, D \ {x})
  BY SumRemove
<1>2. SumFunctionOnSet(c, D \ {x}) \in Nat
  BY FS_Subset, SumIsNat
<1> QED
  BY <1>1, <1>2

\* One term is one more.
LEMMA SumGainsOne ==
    ASSUME NEW D, IsFiniteSet(D), NEW c, NEW d, NEW x \in D,
           \A i \in D : c[i] \in Int,
           \A i \in D : d[i] = IF i = x THEN c[i] + 1 ELSE c[i]
    PROVE  SumFunctionOnSet(d, D) = SumFunctionOnSet(c, D) + 1
<1>1. SumFunctionOnSet(c, D) = c[x] + SumFunctionOnSet(c, D \ {x})
  BY SumRemove
<1>2. \A i \in D : d[i] \in Int
  OBVIOUS
<1>3. SumFunctionOnSet(d, D) = d[x] + SumFunctionOnSet(d, D \ {x})
  BY <1>2, SumRemove
<1>4. IsFiniteSet(D \ {x})
  BY FS_Subset
<1>5. SumFunctionOnSet(d, D \ {x}) = SumFunctionOnSet(c, D \ {x})
  BY <1>4, SumSame
<1>6. SumFunctionOnSet(c, D \ {x}) \in Int
  BY <1>4, SumIsInt
<1>7. d[x] = c[x] + 1 /\ c[x] \in Int
  OBVIOUS
<1> QED
  BY <1>1, <1>3, <1>5, <1>6, <1>7

=============================================================================
