---------------------------- MODULE FiguresProofs ----------------------------
(***************************************************************************)
(* Proofs about the figures of the board (BoardWindows), of the month's    *)
(* P&L (PnlFigures over PnlTemplate) and about targets (Targets).          *)
(*                                                                         *)
(* The board: that it compares like with like at every moment, for every   *)
(* calendar date, every set of pizzerias and all takings, also over the    *)
(* rows it has kept.  The month: that a snapshot renders as the operations *)
(* do, that PlanFact's report v2 agrees with the operations, that the      *)
(* history of revenue reads as the reports, that the retained profit is    *)
(* the flow, that each row of the template is explained by the categories  *)
(* listed for it, and that a path keeps its number when the template is    *)
(* saved again; for every tree of categories, every template and all       *)
(* parts.  Targets: that a copied month is followed.                       *)
(*                                                                         *)
(* The first section is about sums over finite sets.  They, the branches   *)
(* of a template and the numbers of its lines are defined by recursion;    *)
(* what is proved of them follows from a least counterexample: of the sets *)
(* a claim fails for, one has the fewest elements.                         *)
(***************************************************************************)
EXTENDS FiguresParts, FiniteSetTheorems, SequenceTheorems,
        WellFoundedInduction, TLAPS

-----------------------------------------------------------------------------
(* Sums. *)

\* A set of natural numbers that is not empty has a least element.
LEMMA LeastNumber ==
  ASSUME NEW T \in SUBSET Nat, T # {}
  PROVE  \E n \in T : \A m \in T : n <= m
<1> DEFINE R == OpToRel(<, Nat)
<1>1. IsWellFoundedOn(R, Nat)
  BY NatLessThanWellFounded
<1>2. \A x, y \in Nat : y < x => <<y, x>> \in R
  BY DEF OpToRel
<1> HIDE DEF R
<1>3. PICK n \in T : \A m \in T : ~ (<<m, n>> \in R)
  BY <1>1, WFMin
<1>4. \A m \in T : ~ (m < n)
  BY <1>2, <1>3
<1> QED BY <1>4

\* The element a sum takes first.
Chosen(s) == CHOOSE x \in s : TRUE

\* g gives the sums of f over the sets of D.
Sums(f, D, g) ==
  g = [s \in D |-> IF s = {} THEN 0 ELSE f[Chosen(s)] + g[s \ {Chosen(s)}]]

\* The function the community modules define a sum by.
SumsOf(f, S) ==
  CHOOSE g : g = [s \in SUBSET S |-> IF s = {} THEN 0 ELSE f[Chosen(s)] + g[s \ {Chosen(s)}]]

\* A sum is the value of that function.
LEMMA SumIsSumsOf ==
  ASSUME NEW f, NEW S
  PROVE  SumFunctionOnSet(f, S) = SumsOf(f, S)[S]
BY DEF SumFunctionOnSet, FoldFunctionOnSet, MapThenFoldSet, SumsOf, Chosen

\* The subsets of at most n elements.
Small(S, n) == {s \in SUBSET S : Cardinality(s) <= n}

\* A set of at most n elements without one of them has at most n - 1.
LEMMA SmallOfOne ==
  ASSUME NEW S, IsFiniteSet(S), NEW n \in Nat, NEW s \in Small(S, n), s # {}
  PROVE  /\ Chosen(s) \in s
         /\ n # 0 
         /\ s \ {Chosen(s)} \in Small(S, n - 1)
<1>1. Chosen(s) \in s
  BY DEF Chosen
<1>2. IsFiniteSet(s)
  BY FS_Subset DEF Small
<1>3. Cardinality(s \ {Chosen(s)}) = Cardinality(s) - 1
  BY <1>1, <1>2, FS_RemoveElement
<1>4. Cardinality(s) \in Nat /\ Cardinality(s) # 0 
  BY <1>2, FS_CardinalityType, FS_EmptySet
<1> QED BY <1>1, <1>3, <1>4 DEF Small

\* There are sums over the subsets of at most n elements: at the least n
\* without, those of n - 1 would extend to it.
LEMMA PartialSums ==
  ASSUME NEW f, NEW S, IsFiniteSet(S), NEW n \in Nat
  PROVE  \E g : Sums(f, Small(S, n), g)
<1> DEFINE T == {k \in Nat : ~ \E g : Sums(f, Small(S, k), g)}
<1>1. SUFFICES ASSUME T # {} PROVE FALSE
  OBVIOUS
<1>2. PICK k \in T : \A m \in T : k <= m
  BY <1>1, LeastNumber
<1>3. k # 0
  <2> DEFINE g == [s \in Small(S, 0) |-> 0]
  <2>1. \A s \in Small(S, 0) : s = {}
    BY SmallOfOne
  <2>2. g = [s \in Small(S, 0) |-> IF s = {} THEN 0 ELSE f[Chosen(s)] + g[s \ {Chosen(s)}]]
    BY <2>1
  <2>3. Sums(f, Small(S, 0), g)
    BY <2>2 DEF Sums
  <2> QED BY <2>3
<1>4. PICK g : Sums(f, Small(S, k - 1), g)
  <2>1. k - 1 \in Nat /\ k - 1 \notin T
    BY <1>2, <1>3
  <2> QED BY <2>1
<1> DEFINE h == [s \in Small(S, k) |-> IF s = {} THEN 0 ELSE f[Chosen(s)] + g[s \ {Chosen(s)}]]
<1>5. \A s \in Small(S, k - 1) : s \in Small(S, k) /\ h[s] = g[s]
  <2>1. \A s \in Small(S, k - 1) : Cardinality(s) \in Nat
    BY FS_Subset, FS_CardinalityType DEF Small
  <2>2. \A s \in Small(S, k - 1) : s \in Small(S, k)
    BY <2>1 DEF Small
  <2> QED BY <2>2, <1>4 DEF Sums
<1>6. \A s \in Small(S, k) : s # {} => s \ {Chosen(s)} \in Small(S, k - 1)
  BY SmallOfOne
<1>7. h = [s \in Small(S, k) |-> IF s = {} THEN 0 ELSE f[Chosen(s)] + h[s \ {Chosen(s)}]]
  <2>1. \A s \in Small(S, k) : s # {} => h[s \ {Chosen(s)}] = g[s \ {Chosen(s)}]
    BY <1>5, <1>6
  <2> QED BY <2>1
<1>8. Sums(f, Small(S, k), h)
  <2> HIDE DEF h
  <2> QED BY <1>7 DEF Sums
<1> QED BY <1>8

\* So there are sums over all subsets of a finite set.
LEMMA SumsExist ==
  ASSUME NEW f, NEW S, IsFiniteSet(S)
  PROVE  Sums(f, SUBSET S, SumsOf(f, S))
<1>1. Small(S, Cardinality(S)) = SUBSET S
  BY FS_Subset DEF Small
<1>2. \E g : Sums(f, SUBSET S, g)
  <2>1. \E g : Sums(f, Small(S, Cardinality(S)), g)
    BY PartialSums, FS_CardinalityType
  <2> QED BY <1>1, <2>1
<1> QED BY <1>2 DEF SumsOf, Sums

\* Of a property that holds of a set when it holds of its proper subsets: it
\* holds of every finite set.
LEMMA InductionOnSubsets ==
  ASSUME NEW S, IsFiniteSet(S), NEW G,
         \A s \in SUBSET S :
            (\A u \in SUBSET S : u \subseteq s /\ u # s => u \in G) => s \in G
  PROVE  S \in G
<1> DEFINE T == {n \in Nat : \E s \in SUBSET S : Cardinality(s) = n /\ s \notin G}
<1>1. \A s \in SUBSET S : Cardinality(s) \in Nat
  BY FS_Subset, FS_CardinalityType
<1>2. SUFFICES ASSUME S \notin G PROVE FALSE
  OBVIOUS
<1>3. T # {}
  BY <1>1, <1>2
<1>4. PICK n \in T : \A m \in T : n <= m
  <2> HIDE DEF T
  <2>1. T \in SUBSET Nat
    BY DEF T
  <2> QED BY <1>3, <2>1, LeastNumber
<1>5. PICK s \in SUBSET S : Cardinality(s) = n /\ s \notin G
  OBVIOUS
<1>6. ASSUME NEW u \in SUBSET S, u \subseteq s, u # s
      PROVE  u \in G
  <2>1. IsFiniteSet(s)
    BY FS_Subset
  <2>2. Cardinality(u) < Cardinality(s)
    BY <1>1, <1>6, <2>1, FS_Subset
  <2> QED BY <1>1, <1>4, <1>5, <2>2
<1> QED BY <1>5, <1>6

\* The sum over a set does not depend on the set it is a subset of.
LEMMA SumsWithin ==
  ASSUME NEW f, NEW S, IsFiniteSet(S), NEW D \in SUBSET S
  PROVE  SumsOf(f, D)[D] = SumsOf(f, S)[D]
<1> DEFINE G == {s \in SUBSET D : SumsOf(f, D)[s] = SumsOf(f, S)[s]}
<1>1. IsFiniteSet(D)
  BY FS_Subset
<1>2. /\ Sums(f, SUBSET D, SumsOf(f, D))
      /\ Sums(f, SUBSET S, SumsOf(f, S))
  BY <1>1, SumsExist
<1>3. ASSUME NEW s \in SUBSET D,
             \A u \in SUBSET D : u \subseteq s /\ u # s => u \in G
      PROVE  s \in G
  <2>1. s # {} => Chosen(s) \in s
    BY DEF Chosen
  <2>2. s # {} => s \ {Chosen(s)} \in G
    BY <1>3, <2>1
  <2>3. /\ SumsOf(f, D)[s] = IF s = {} THEN 0
                             ELSE f[Chosen(s)] + SumsOf(f, D)[s \ {Chosen(s)}]
        /\ SumsOf(f, S)[s] = IF s = {} THEN 0
                             ELSE f[Chosen(s)] + SumsOf(f, S)[s \ {Chosen(s)}]
    BY <1>2, s \in SUBSET S DEF Sums
  <2> QED BY <2>2, <2>3
<1>4. D \in G
  <2> HIDE DEF G
  <2> QED BY <1>1, <1>3, InductionOnSubsets
<1> QED BY <1>4

\* A sum is the chosen element's value and the sum of the rest.
LEMMA SumStep ==
  ASSUME NEW f, NEW S, IsFiniteSet(S)
  PROVE  SumFunctionOnSet(f, S) =
           IF S = {} THEN 0
           ELSE f[Chosen(S)] + SumFunctionOnSet(f, S \ {Chosen(S)})
<1>1. Sums(f, SUBSET S, SumsOf(f, S))
  BY SumsExist
<1>2. SumsOf(f, S)[S] = IF S = {} THEN 0
                        ELSE f[Chosen(S)] + SumsOf(f, S)[S \ {Chosen(S)}]
  BY <1>1 DEF Sums
<1>3. SumsOf(f, S \ {Chosen(S)})[S \ {Chosen(S)}] = SumsOf(f, S)[S \ {Chosen(S)}]
  BY SumsWithin
<1> QED BY <1>2, <1>3, SumIsSumsOf

\* The sum of nothing.
LEMMA SumOfNone ==
  ASSUME NEW f
  PROVE  SumFunctionOnSet(f, {}) = 0
BY SumStep, FS_EmptySet

\* A sum of integers is an integer.
LEMMA SumType ==
  ASSUME NEW S, IsFiniteSet(S), NEW f, \A x \in S : f[x] \in Int
  PROVE  SumFunctionOnSet(f, S) \in Int
<1> DEFINE G == {s \in SUBSET S : SumFunctionOnSet(f, s) \in Int}
<1>1. ASSUME NEW s \in SUBSET S,
             \A u \in SUBSET S : u \subseteq s /\ u # s => u \in G
      PROVE  s \in G
  <2>1. s # {} => Chosen(s) \in s
    BY DEF Chosen
  <2>2. s # {} => s \ {Chosen(s)} \in G
    BY <1>1, <2>1
  <2>3. IsFiniteSet(s)
    BY FS_Subset
  <2>4. CASE s = {}
    BY <2>4, SumOfNone
  <2>5. CASE s # {}
    <3>1. SumFunctionOnSet(f, s) = f[Chosen(s)] + SumFunctionOnSet(f, s \ {Chosen(s)})
      BY <2>3, <2>5, SumStep
    <3>2. f[Chosen(s)] \in Int /\ SumFunctionOnSet(f, s \ {Chosen(s)}) \in Int
      BY <2>1, <2>2, <2>5
    <3> QED BY <3>1, <3>2
  <2> QED BY <2>4, <2>5
<1>2. S \in G
  <2> HIDE DEF G
  <2> QED BY <1>1, InductionOnSubsets
<1> QED BY <1>2

\* Every element may be the first: the order does not matter.
LEMMA SumInsert ==
  ASSUME NEW S, IsFiniteSet(S), NEW f, \A x \in S : f[x] \in Int, NEW x \in S
  PROVE  SumFunctionOnSet(f, S) = f[x] + SumFunctionOnSet(f, S \ {x})
<1> DEFINE G == {s \in SUBSET S :
                   \A y \in s : SumFunctionOnSet(f, s)
                                  = f[y] + SumFunctionOnSet(f, s \ {y})}
<1>1. ASSUME NEW s \in SUBSET S,
             \A u \in SUBSET S : u \subseteq s /\ u # s => u \in G,
             NEW y \in s
      PROVE  SumFunctionOnSet(f, s) = f[y] + SumFunctionOnSet(f, s \ {y})
  <2> DEFINE c == Chosen(s)
  <2>1. c \in s
    BY DEF Chosen
  <2> HIDE DEF c
  <2>2. \A u \in SUBSET S : IsFiniteSet(u) /\ SumFunctionOnSet(f, u) \in Int
    <3> TAKE u \in SUBSET S
    <3>1. IsFiniteSet(u)
      BY FS_Subset
    <3> QED BY <3>1, SumType
  <2>3. SumFunctionOnSet(f, s) = f[c] + SumFunctionOnSet(f, s \ {c})
    BY <2>1, <2>2, SumStep DEF c
  <2>4. CASE y = c
    BY <2>3, <2>4, Zenon
  <2>5. CASE y # c
    <3>1. s \ {c} \in G /\ s \ {y} \in G
      BY <1>1, <2>1
    <3>2. SumFunctionOnSet(f, s \ {c}) = f[y] + SumFunctionOnSet(f, (s \ {c}) \ {y})
      BY <3>1, <2>5
    <3>3. SumFunctionOnSet(f, s \ {y}) = f[c] + SumFunctionOnSet(f, (s \ {y}) \ {c})
      BY <3>1, <2>1, <2>5
    <3>4. (s \ {c}) \ {y} = (s \ {y}) \ {c}
      OBVIOUS
    <3>5. f[c] \in Int /\ f[y] \in Int /\ SumFunctionOnSet(f, (s \ {y}) \ {c}) \in Int
      BY <2>1, <2>2
    <3>6. SumFunctionOnSet(f, s \ {c}) = f[y] + SumFunctionOnSet(f, (s \ {y}) \ {c})
      BY <3>2, <3>4, Zenon
    <3> DEFINE rest == SumFunctionOnSet(f, (s \ {y}) \ {c})
    <3> HIDE DEF rest
    <3>7. f[c] + (f[y] + rest) = f[y] + (f[c] + rest)
      BY <3>5 DEF rest
    <3> QED BY <2>3, <3>3, <3>6, <3>7, Zenon DEF rest
  <2> QED BY <2>4, <2>5
<1>2. S \in G
  <2>1. \A s \in SUBSET S :
          (\A u \in SUBSET S : u \subseteq s /\ u # s => u \in G) => s \in G
    BY <1>1
  <2> HIDE DEF G
  <2> QED BY <2>1, InductionOnSubsets
<1> QED BY <1>2

\* Equal terms have equal sums.
LEMMA SumOfEquals ==
  ASSUME NEW S, IsFiniteSet(S), NEW f, NEW g, \A x \in S : f[x] = g[x]
  PROVE  SumFunctionOnSet(f, S) = SumFunctionOnSet(g, S)
<1> DEFINE G == {s \in SUBSET S : SumFunctionOnSet(f, s) = SumFunctionOnSet(g, s)}
<1>1. ASSUME NEW s \in SUBSET S,
             \A u \in SUBSET S : u \subseteq s /\ u # s => u \in G
      PROVE  s \in G
  <2>1. s # {} => Chosen(s) \in s
    BY DEF Chosen
  <2>2. s # {} => s \ {Chosen(s)} \in G
    BY <1>1, <2>1
  <2>3. IsFiniteSet(s)
    BY FS_Subset
  <2> QED BY <2>1, <2>2, <2>3, SumStep
<1>2. S \in G
  <2> HIDE DEF G
  <2> QED BY <1>1, InductionOnSubsets
<1> QED BY <1>2

\* The sum over two sets that share nothing.
LEMMA SumOfUnion ==
  ASSUME NEW A, NEW B, IsFiniteSet(A), IsFiniteSet(B), A \cap B = {},
         NEW f, \A x \in A \cup B : f[x] \in Int
  PROVE  SumFunctionOnSet(f, A \cup B) = SumFunctionOnSet(f, A) + SumFunctionOnSet(f, B)
<1> DEFINE G == {s \in SUBSET B :
                   SumFunctionOnSet(f, A \cup s) = SumFunctionOnSet(f, A) + SumFunctionOnSet(f, s)}
<1>1. SumFunctionOnSet(f, A) \in Int
  BY SumType
<1>2. ASSUME NEW s \in SUBSET B,
             \A u \in SUBSET B : u \subseteq s /\ u # s => u \in G
      PROVE  s \in G
  <2>1. CASE s = {}
    <3>1. A \cup s = A
      BY <2>1
    <3>2. SumFunctionOnSet(f, s) = 0
      BY <2>1, SumOfNone, Zenon
    <3>3. SumFunctionOnSet(f, A \cup s) = SumFunctionOnSet(f, A)
      BY <3>1, Zenon
    <3> QED BY <1>1, <3>2, <3>3
  <2>2. CASE s # {}
    <3>1. PICK y \in s : TRUE
      BY <2>2
    <3>2. s \ {y} \in G
      BY <1>2, <3>1
    <3>3. IsFiniteSet(s) /\ IsFiniteSet(s \ {y}) /\ IsFiniteSet(A \cup s)
      BY FS_Subset, FS_Union
    <3>4. SumFunctionOnSet(f, s) = f[y] + SumFunctionOnSet(f, s \ {y})
      BY <3>1, <3>3, SumInsert
    <3>5. SumFunctionOnSet(f, A \cup s) = f[y] + SumFunctionOnSet(f, (A \cup s) \ {y})
      BY <3>1, <3>3, SumInsert
    <3>6. (A \cup s) \ {y} = A \cup (s \ {y})
      BY <3>1
    <3>7. SumFunctionOnSet(f, A \cup s) = f[y] + SumFunctionOnSet(f, A \cup (s \ {y}))
      BY <3>5, <3>6, Zenon
    <3>8. SumFunctionOnSet(f, s \ {y}) \in Int /\ f[y] \in Int
      BY <3>1, <3>3, SumType
    <3> QED BY <1>1, <3>2, <3>4, <3>7, <3>8
  <2> QED BY <2>1, <2>2
<1>3. B \in G
  <2> HIDE DEF G
  <2> QED BY <1>2, InductionOnSubsets
<1> QED BY <1>3

\* The elements of S with a key.
WithKey(S, key, k) == {x \in S : key[x] = k}

\* A sum may be taken key by key.
LEMMA SumByKey ==
  ASSUME NEW S, NEW K, IsFiniteSet(S), IsFiniteSet(K), NEW key, \A x \in S : key[x] \in K,
         NEW f, \A x \in S : f[x] \in Int,
         NEW g, \A k \in K : g[k] = SumFunctionOnSet(f, WithKey(S, key, k))
  PROVE  SumFunctionOnSet(g, K) = SumFunctionOnSet(f, S)
<1> DEFINE Of(C) == {x \in S : key[x] \in C}
<1> DEFINE G == {C \in SUBSET K : SumFunctionOnSet(g, C) = SumFunctionOnSet(f, Of(C))}
<1>1. ASSUME NEW C \in SUBSET K,
             \A u \in SUBSET K : u \subseteq C /\ u # C => u \in G
      PROVE  C \in G
  <2>1. CASE C = {}
    <3>1. Of(C) = {}
      BY <2>1
    <3>2. SumFunctionOnSet(f, Of(C)) = 0
      <4> HIDE DEF Of
      <4> QED BY <3>1, SumOfNone, Zenon
    <3>3. SumFunctionOnSet(g, C) = 0
      BY <2>1, SumOfNone, Zenon
    <3> QED BY <3>2, <3>3
  <2>2. CASE C # {}
    <3>1. PICK k \in C : TRUE
      BY <2>2
    <3> DEFINE A == Of(C \ {k})
               B == WithKey(S, key, k)
    <3>2. Of(C) = A \cup B /\ A \cap B = {} /\ A \subseteq S /\ B \subseteq S
      BY <3>1 DEF WithKey
    <3>3. SumFunctionOnSet(g, C \ {k}) = SumFunctionOnSet(f, A)
      BY <1>1, <3>1
    <3>4. g[k] = SumFunctionOnSet(f, B)
      BY <3>1
    <3> HIDE DEF Of, A, B, G
    <3>5. IsFiniteSet(A) /\ IsFiniteSet(B) /\ IsFiniteSet(C)
      BY <3>2, FS_Subset
    <3>6. SumFunctionOnSet(f, A \cup B) = SumFunctionOnSet(f, A) + SumFunctionOnSet(f, B)
      BY <3>2, <3>5, SumOfUnion
    <3>7. \A c \in C : g[c] \in Int
      <4> TAKE c \in C
      <4>1. WithKey(S, key, c) \subseteq S /\ IsFiniteSet(WithKey(S, key, c))
        BY FS_Subset DEF WithKey
      <4> QED BY <4>1, SumType
    <3>8. SumFunctionOnSet(g, C) = g[k] + SumFunctionOnSet(g, C \ {k})
      BY <3>1, <3>5, <3>7, SumInsert
    <3>9. SumFunctionOnSet(f, A) \in Int /\ SumFunctionOnSet(f, B) \in Int
      BY <3>2, <3>5, SumType
    <3>10. SumFunctionOnSet(g, C) = SumFunctionOnSet(f, A \cup B)
      BY <3>3, <3>4, <3>6, <3>8, <3>9
    <3>11. SumFunctionOnSet(g, C) = SumFunctionOnSet(f, Of(C))
      BY <3>2, <3>10, Zenon
    <3> QED BY <3>11 DEF G
  <2> QED BY <2>1, <2>2
<1>2. K \in G
  <2> HIDE DEF G
  <2> QED BY <1>1, InductionOnSubsets
<1>3. Of(K) = S
  OBVIOUS
<1>4. SumFunctionOnSet(f, Of(K)) = SumFunctionOnSet(f, S)
  <2> HIDE DEF Of
  <2> QED BY <1>3, Zenon
<1> QED BY <1>2, <1>4

\* Two sums whose terms differ by no more than a third's differ by no more
\* than its sum.
LEMMA SumsApart ==
  ASSUME NEW S, IsFiniteSet(S), NEW f, NEW g, NEW h,
         \A x \in S : f[x] \in Int /\ g[x] \in Int /\ h[x] \in Int /\ f[x] - g[x] \in 0..h[x]
  PROVE  SumFunctionOnSet(f, S) - SumFunctionOnSet(g, S) \in 0..SumFunctionOnSet(h, S)
<1> DEFINE Fits(s) == SumFunctionOnSet(f, s) - SumFunctionOnSet(g, s) \in 0..SumFunctionOnSet(h, s)
<1> DEFINE G == {s \in SUBSET S : Fits(s)}
<1>1. ASSUME NEW s \in SUBSET S,
             \A u \in SUBSET S : u \subseteq s /\ u # s => u \in G
      PROVE  s \in G
  <2>1. CASE s = {}
    BY <2>1, SumOfNone
  <2>2. CASE s # {}
    <3>1. PICK y \in s : TRUE
      BY <2>2
    <3>2. Fits(s \ {y})
      BY <1>1, <3>1
    <3>3. IsFiniteSet(s) /\ IsFiniteSet(s \ {y})
      BY FS_Subset
    <3>4. /\ SumFunctionOnSet(f, s) = f[y] + SumFunctionOnSet(f, s \ {y})
          /\ SumFunctionOnSet(g, s) = g[y] + SumFunctionOnSet(g, s \ {y})
          /\ SumFunctionOnSet(h, s) = h[y] + SumFunctionOnSet(h, s \ {y})
      BY <3>1, <3>3, SumInsert
    <3>5. /\ SumFunctionOnSet(f, s \ {y}) \in Int
          /\ SumFunctionOnSet(g, s \ {y}) \in Int
          /\ SumFunctionOnSet(h, s \ {y}) \in Int
      BY <3>3, SumType
    <3>6. f[y] \in Int /\ g[y] \in Int /\ h[y] \in Int /\ f[y] - g[y] \in 0..h[y]
      BY <3>1
    <3> QED BY <3>2, <3>4, <3>5, <3>6
  <2> QED BY <2>1, <2>2
<1>2. S \in G
  <2> HIDE DEF G
  <2> QED BY <1>1, InductionOnSubsets
<1> QED BY <1>2

\* A sum of natural numbers is one.
LEMMA SumOfNaturals ==
  ASSUME NEW S, IsFiniteSet(S), NEW f, \A x \in S : f[x] \in Nat
  PROVE  SumFunctionOnSet(f, S) \in Nat
<1> DEFINE zero == [x \in S |-> 0]
<1>1. \A x \in S : f[x] \in Int /\ zero[x] \in Int /\ f[x] - zero[x] \in 0..f[x]
  OBVIOUS
<1> HIDE DEF zero
<1>2. SumFunctionOnSet(f, S) - SumFunctionOnSet(zero, S) \in 0..SumFunctionOnSet(f, S)
  BY <1>1, SumsApart
<1>3. SumFunctionOnSet(f, S) \in Int /\ SumFunctionOnSet(zero, S) \in Int
  BY <1>1, SumType
<1> QED BY <1>2, <1>3

-----------------------------------------------------------------------------
(* The calendar and the windows of the board. *)

\* Moments of any year.
Moment == [date : Dates, min : 0..1439, secs : BOOLEAN]

\* The first n days of a month, once each.
SumOfDays(p, n) == SumFunction([k \in 1..n |-> Rate[p] * k * 1440])

\* Every month has 28 to 31 days; only February differs between years.
LEMMA MonthsHaveDays ==
  /\ \A y \in Int, m \in 1..12 : DaysIn(y, m) \in 28..31
  /\ \A y, z \in Int, m \in 1..12 : m # 2 => DaysIn(y, m) = DaysIn(z, m)
  /\ \A y \in Int : DaysIn(y, 2) \in 28..29
BY DEF DaysIn

\* The fields of a date.
LEMMA DatesAreRecords ==
  ASSUME NEW d \in Dates
  PROVE  /\ d = [y |-> d.y, m |-> d.m, d |-> d.d]
         /\ d.y \in Nat /\ d.m \in 1..12 /\ d.d \in 1..31 /\ d.d <= DaysIn(d.y, d.m)
BY DEF Dates

\* The day a week before is a day of some month.
LEMMA Week ==
  ASSUME NEW d \in Dates
  PROVE  DaysBefore(d, 7).d \in Nat
<1>1. \A y \in Int, m \in 1..12 : DaysIn(y, m) \in 28..31
  BY MonthsHaveDays
<1>2. d.y \in Nat /\ d.m \in 1..12 /\ d.d \in 1..31 /\ d = [y |-> d.y, m |-> d.m, d |-> d.d]
  BY DatesAreRecords
<1>3. CASE d.d > 7
  BY <1>2, <1>3 DEF DaysBefore
<1>4. CASE ~ d.d > 7
  <2> DEFINE y == IF d.m = 1 THEN d.y - 1 ELSE d.y
             m == IF d.m = 1 THEN 12 ELSE d.m - 1
  <2>1. y \in Int /\ m \in 1..12
    BY <1>2
  <2>2. DaysIn(y, m) \in 28..31
    BY <1>1, <2>1
  <2>3. DaysBefore(d, 7).d = d.d - 7 + DaysIn(y, m)
    BY <1>4 DEF DaysBefore
  <2> HIDE DEF y, m
  <2> QED BY <1>2, <2>2, <2>3
<1> QED BY <1>3, <1>4

\* The hour of a minute.
LEMMA Hours ==
  ASSUME NEW t \in Moment
  PROVE  /\ t.min \div 60 \in 0..23
         /\ FloorToHour(t.min) = 60 * (t.min \div 60)
         /\ t.min - FloorToHour(t.min) \in 0..59
         /\ t.min % 60 = t.min - FloorToHour(t.min)
         /\ FloorToHour(t.min) \div 60 = t.min \div 60
<1> DEFINE min == t.min
           h   == min \div 60
<1>1. min \in 0..1439
  BY DEF Moment
<1> HIDE DEF min
<1>2. h \in 0..23 /\ min - 60 * h \in 0..59 /\ min % 60 = min - 60 * h
  BY <1>1
<1>3. (60 * h) \div 60 = h
  <2> HIDE DEF h
  <2> QED BY <1>2
<1> QED BY <1>2, <1>3 DEF FloorToHour, min

\* The full hour k is at most half an hour away; in the last half hour of a
\* day it is its last.
NearHour(t, k) == \/ t.min - 60 * k \in -30..30
                  \/ k = 23 /\ t.min > 1410

\* RoundToNearestHour gives a full hour no more than half an hour away, but in
\* the last half hour of a day.
LEMMA NearestHour ==
  ASSUME NEW t \in Moment
  PROVE  \E k \in 0..23 :
            /\ RoundToNearestHour(t) = 60 * k
            /\ RoundToNearestHour(t) \div 60 = k
            /\ NearHour(t, k)
<1> DEFINE h == t.min \div 60
           r == t.min % 60
           up == r > 30 \/ (r = 30 /\ t.secs)
<1>1. t.min \in 0..1439 /\ t.secs \in BOOLEAN
  BY DEF Moment
<1>2. h \in 0..23 /\ FloorToHour(t.min) = 60 * h /\ r \in 0..59 /\ t.min = 60 * h + r
  <2>1. /\ h \in 0..23 /\ FloorToHour(t.min) = 60 * h
        /\ t.min - FloorToHour(t.min) \in 0..59 /\ r = t.min - FloorToHour(t.min)
    BY Hours
  <2> HIDE DEF h, r
  <2> QED BY <1>1, <2>1
<1>3. RoundToNearestHour(t) = IF up /\ 60 * h + 60 < 1440 THEN 60 * h + 60 ELSE 60 * h
  BY <1>2 DEF RoundToNearestHour
<1>4. r > 30 => up
  OBVIOUS
<1>5. up => r >= 30
  BY <1>2
<1> HIDE DEF h, r, up
<1>6. CASE up /\ 60 * h + 60 < 1440
  <2>3. h + 1 \in 0..23
    BY <1>2, <1>6
  <2>1. RoundToNearestHour(t) = 60 * (h + 1)
    BY <1>2, <1>3, <1>6
  <2>2. (60 * (h + 1)) \div 60 = h + 1
    BY <1>2
  <2>4. NearHour(t, h + 1)
    BY <1>2, <1>5, <1>6 DEF NearHour
  <2> QED BY <2>1, <2>2, <2>3, <2>4
<1>7. CASE ~ (up /\ 60 * h + 60 < 1440)
  <2>1. RoundToNearestHour(t) = 60 * h
    BY <1>3, <1>7
  <2>2. (60 * h) \div 60 = h
    BY <1>2
  <2>3. NearHour(t, h)
    BY <1>2, <1>4, <1>5, <1>7 DEF NearHour
  <2> QED BY <1>2, <2>1, <2>2, <2>3
<1> QED BY <1>6, <1>7

\* On the first there is no finished day.
LEMMA FirstOfMonth ==
  ASSUME NEW t \in Moment, t.date.d = 1
  PROVE  MtdDegenerate(ComputeBoardWindows(t), t)
<1>1. t.date \in Dates
  BY DEF Moment
<1>2. t.date = First(t.date)
  BY <1>1, DatesAreRecords DEF First
<1>3. ComputeBoardWindows(t).mtd.to.date = t.date
  BY <1>2 DEF ComputeBoardWindows, At
<1> QED BY <1>1, <1>3, DatesAreRecords DEF MtdDegenerate, Earlier

\* Later in a month the finished days are the first to yesterday, this year
\* and last.
LEMMA LaterInMonth ==
  ASSUME NEW t \in Moment, t.date.d # 1
  PROVE  LET w == ComputeBoardWindows(t)
             d == t.date
         IN /\ ~ MtdDegenerate(w, t)
            /\ d.d - 1 \in 1..30
            /\ w.mtd.from.date = [y |-> d.y, m |-> d.m, d |-> 1]
            /\ w.mtd.to.date = [y |-> d.y, m |-> d.m, d |-> d.d - 1]
            /\ w.mtd_lfl.from.date = [y |-> d.y - 1, m |-> d.m, d |-> 1]
            /\ w.mtd_lfl.to.date = [y |-> d.y - 1, m |-> d.m, d |-> d.d - 1]
<1> DEFINE w == ComputeBoardWindows(t)
           d == t.date
           last == [y |-> d.y, m |-> d.m, d |-> d.d - 1]
<1>1. /\ d = [y |-> d.y, m |-> d.m, d |-> d.d]
      /\ d.y \in Nat /\ d.m \in 1..12 /\ d.d \in 2..31 /\ d.d <= DaysIn(d.y, d.m)
  BY DatesAreRecords DEF Moment
<1>2. First(d) = [y |-> d.y, m |-> d.m, d |-> 1] /\ d # First(d)
  <2>1. First(d) = [y |-> d.y, m |-> d.m, d |-> 1]
    BY <1>1 DEF First
  <2> QED BY <1>1, <2>1
<1>3. Yesterday(d) = last
  BY <1>1 DEF Yesterday, DaysBefore
<1>4. DaysIn(d.y - 1, d.m) \in 28..31 /\ d.d - 1 <= DaysIn(d.y - 1, d.m)
  <2>1. CASE d.m = 2
    BY <1>1, <2>1, MonthsHaveDays
  <2>2. CASE d.m # 2
    BY <1>1, <2>2, MonthsHaveDays
  <2> QED BY <2>1, <2>2
<1>5. /\ ShiftYear(First(d)) = [y |-> d.y - 1, m |-> d.m, d |-> 1]
      /\ ShiftYear(last) = [y |-> d.y - 1, m |-> d.m, d |-> d.d - 1]
  BY <1>1, <1>2, <1>4 DEF ShiftYear
<1>6. /\ w.mtd.from.date = First(d) /\ w.mtd.to.date = last
      /\ w.mtd_lfl.from.date = ShiftYear(First(d)) /\ w.mtd_lfl.to.date = ShiftYear(last)
  BY <1>2, <1>3 DEF ComputeBoardWindows, At
<1>7. ~ MtdDegenerate(w, t)
  BY <1>1, <1>6 DEF MtdDegenerate, Earlier
<1> HIDE DEF w
<1> QED BY <1>1, <1>2, <1>5, <1>6, <1>7 DEF w

\* The windows that end within a day.
LEMMA HourWindows ==
  ASSUME NEW t \in Moment
  PROVE  LET w == ComputeBoardWindows(t)
         IN /\ w.today = [from |-> At(t.date, 0), to |-> At(t.date, t.min)]
            /\ w.last_week = [from |-> At(DaysBefore(t.date, 7), 0),
                              to |-> At(DaysBefore(t.date, 7), RoundToNearestHour(t))]
            /\ w.ly_day = [from |-> At(ShiftYear(t.date), 0),
                           to |-> At(ShiftYear(t.date), FloorToHour(t.min))]
BY DEF ComputeBoardWindows

\* A window without today in it is summed from whole days.
LEMMA WholeDays ==
  ASSUME NEW p, NEW t, NEW from, NEW to, NEW n,
         from.d = 1, to.d = n, \A k \in 1..n : [from EXCEPT !.d = k] # t.date
  PROVE  MonthlyFull(p, from, to, t) = SumOfDays(p, n)
<1>1. [k \in from.d..to.d |->
         Rate[p] * k * (IF [from EXCEPT !.d = k] = t.date THEN t.min ELSE 1440)]
      = [k \in 1..n |-> Rate[p] * k * 1440]
  OBVIOUS
<1> QED BY <1>1, Zenon DEF MonthlyFull, SumOfDays

\* The day of last year has the same number, but for the 29th of February.
LEMMA LastYearsDay ==
  ASSUME NEW d \in Dates
  PROVE  /\ ShiftYear(d).d \in Nat
         /\ ShiftYear(d).d = d.d \/ (d.m = 2 /\ d.d = 29)
<1>1. d.y \in Nat /\ d.m \in 1..12 /\ d.d \in 1..31 /\ d.d <= DaysIn(d.y, d.m)
  BY DatesAreRecords
<1>2. /\ DaysIn(d.y - 1, d.m) \in 28..31
      /\ d.m # 2 => DaysIn(d.y, d.m) = DaysIn(d.y - 1, d.m)
      /\ DaysIn(d.y, 2) \in 28..29
  BY <1>1, MonthsHaveDays
<1> QED BY <1>1, <1>2 DEF ShiftYear

\* The takings of whole days are a natural number.
LEMMA SumOfDaysType ==
  ASSUME NEW p \in Pizzerias, NEW n \in Nat
  PROVE  SumOfDays(p, n) \in Nat
<1> DEFINE f == [k \in 1..n |-> Rate[p] * k * 1440]
<1>1. \A k \in 1..n : f[k] \in Nat
  BY BoardWindowsAssumption
<1>2. IsFiniteSet(1..n) /\ DOMAIN f = 1..n
  BY FS_Interval
<1> HIDE DEF f
<1>3. SumFunctionOnSet(f, 1..n) \in Nat
  BY <1>1, <1>2, SumOfNaturals
<1> QED BY <1>2, <1>3, Zenon DEF SumOfDays, SumFunction, f

-----------------------------------------------------------------------------
(* The kept rows and what a build gathers. *)

\* The takings of a pizzeria on a date from midnight to an hour.
ToHour(p, d, h) == Rate[p] * d.d * (60 * h)

\* What a kept row says is what Dodo IS would answer for the window of its key.
RightRow(k, v) ==
  /\ k = <<k[1], k[2], <<k[3][1], k[3][2]>>>>
  /\ k[2] \in Pizzerias /\ k[3][1].d \in Nat
  /\ \/ k[1] \in {"sales_lw", "sales_ly_day"} /\ k[3][2] \in 0..23
                                              /\ v = ToHour(k[2], k[3][1], k[3][2])
     \/ k[1] = "monthly_lfl" /\ v = SumOfDays(k[2], k[3][1].d)

\* The rows of dodois_window_cache are right.
KeptIsRight == \A k \in DOMAIN kept : RightRow(k, kept[k])

\* The window of a date from midnight to an hour, and what Dodo IS answers for it.
UpToHour(d, h) == [from |-> At(d, 0), to |-> At(d, 60 * h)]

Fetched(S, win) == [p \in S |-> SalesByChannel(p, win)]

\* The key of a window up to an hour names its date and the hour.
LEMMA HourIsKey ==
  ASSUME NEW d, NEW h \in 0..23
  PROVE  ToKey(UpToHour(d, h)) = <<d, h>>
<1>1. (60 * h) \div 60 = h
  OBVIOUS
<1> QED BY <1>1 DEF ToKey, UpToHour, At

\* A kept row or a fetched one: the takings up to the hour of its key.
LEMMA MergedHours ==
  ASSUME KeptIsRight, NEW kind \in {"sales_lw", "sales_ly_day"}, NEW S \in SUBSET Pizzerias,
         NEW d, d.d \in Nat, NEW h \in 0..23, NEW p \in S
  PROVE  MergeWindow(kind, <<d, h>>, Fetched(S, UpToHour(d, h)))[p] = ToHour(p, d, h)
<1>1. SalesByChannel(p, UpToHour(d, h)) = ToHour(p, d, h)
  <2>1. Rate[p] \in Nat
    BY BoardWindowsAssumption
  <2>2. 60 * h - 0 = 60 * h
    OBVIOUS
  <2> QED BY <2>1, <2>2 DEF SalesByChannel, ToHour, UpToHour, At
<1>2. MergeWindow(kind, <<d, h>>, Fetched(S, UpToHour(d, h)))[p]
        = IF <<kind, p, <<d, h>>>> \in DOMAIN kept THEN kept[<<kind, p, <<d, h>>>>]
          ELSE SalesByChannel(p, UpToHour(d, h))
  BY DEF MergeWindow, Lookup, Fetched
<1>3. ASSUME <<kind, p, <<d, h>>>> \in DOMAIN kept
      PROVE  kept[<<kind, p, <<d, h>>>>] = ToHour(p, d, h)
  BY <1>3 DEF KeptIsRight, RightRow
<1> QED BY <1>1, <1>2, <1>3

\* What a build gathers for today and its baseline of last week.
LEMMA TodayIsCompared ==
  ASSUME KeptIsRight, NEW t \in Moment, NEW S \in SUBSET Pizzerias, NEW p \in S
  PROVE  LET w == ComputeBoardWindows(t)
             g == Gathered(S, w, t)
         IN /\ g.today[p] = Rate[p] * t.date.d * t.min
            /\ \E k \in 0..23 :
                 /\ ToKey(w.last_week) = <<DaysBefore(t.date, 7), k>>
                 /\ g.lw[p] = ToHour(p, DaysBefore(t.date, 7), k)
                 /\ NearHour(t, k)
<1> DEFINE w == ComputeBoardWindows(t)
           g == Gathered(S, w, t)
           week == DaysBefore(t.date, 7)
<1>1. t.date \in Dates /\ t.min \in 0..1439
  BY DEF Moment
<1>2. /\ w.today = [from |-> At(t.date, 0), to |-> At(t.date, t.min)]
      /\ w.last_week = [from |-> At(week, 0), to |-> At(week, RoundToNearestHour(t))]
  BY HourWindows
<1>3. /\ g.today[p] = SalesByChannel(p, w.today)
      /\ g.lw = MergeWindow("sales_lw", ToKey(w.last_week), Fetched(S, w.last_week))
  BY DEF Gathered, Fetched
<1>4. week.d \in Nat
  BY <1>1, Week
<1> HIDE DEF w, g, week
<1>5. SalesByChannel(p, w.today) = Rate[p] * t.date.d * t.min
  BY <1>1, <1>2 DEF SalesByChannel, At
<1>6. PICK k \in 0..23 : /\ RoundToNearestHour(t) = 60 * k
                         /\ NearHour(t, k)
  BY NearestHour
<1>7. w.last_week = UpToHour(week, k)
  BY <1>2, <1>6 DEF UpToHour
<1>8. ToKey(w.last_week) = <<week, k>>
  BY <1>7, HourIsKey
<1>9. g.lw[p] = ToHour(p, week, k)
  <2>1. MergeWindow("sales_lw", <<week, k>>, Fetched(S, UpToHour(week, k)))[p]
          = ToHour(p, week, k)
    BY <1>4, MergedHours
  <2> QED BY <1>3, <1>7, <1>8, <2>1
<1>10. \E j \in 0..23 :
         /\ ToKey(w.last_week) = <<week, j>>
         /\ g.lw[p] = ToHour(p, week, j)
         /\ NearHour(t, j)
  BY <1>6, <1>8, <1>9, Zenon
<1> QED BY <1>3, <1>5, <1>10, Zenon DEF w, g, week

\* What a build gathers for the day of last year; an empty window is nothing.
LEMMA LastYearIsCompared ==
  ASSUME KeptIsRight, NEW t \in Moment, NEW S \in SUBSET Pizzerias, NEW p \in S
  PROVE  LET w == ComputeBoardWindows(t)
             g == Gathered(S, w, t)
         IN /\ ToKey(w.ly_day) = <<ShiftYear(t.date), t.min \div 60>>
            /\ g.lyDay[p] = ToHour(p, ShiftYear(t.date), t.min \div 60)
<1> DEFINE w == ComputeBoardWindows(t)
           g == Gathered(S, w, t)
           h == t.min \div 60
<1>1. t.date \in Dates /\ t.min \in 0..1439
  BY DEF Moment
<1>2. w.ly_day = [from |-> At(ShiftYear(t.date), 0), to |-> At(ShiftYear(t.date), FloorToHour(t.min))]
  BY HourWindows
<1>3. h \in 0..23 /\ FloorToHour(t.min) = 60 * h
  BY Hours
<1>4. ShiftYear(t.date).d \in Nat
  BY <1>1, LastYearsDay
<1> DEFINE merged == MergeWindow("sales_ly_day", ToKey(w.ly_day), Fetched(S, w.ly_day))
<1>5. g.lyDay = IF EmptyLyDay(w) THEN [q \in S |-> 0] ELSE merged
  BY DEF Gathered, Fetched
<1> HIDE DEF w, g, h
<1>6. /\ ToKey(w.ly_day) = <<ShiftYear(t.date), h>>
      /\ merged[p] = ToHour(p, ShiftYear(t.date), h)
  <2>1. w.ly_day = UpToHour(ShiftYear(t.date), h)
    BY <1>2, <1>3 DEF UpToHour
  <2>2. ToKey(w.ly_day) = <<ShiftYear(t.date), h>>
    BY <1>3, <2>1, HourIsKey
  <2>3. MergeWindow("sales_ly_day", <<ShiftYear(t.date), h>>,
                    Fetched(S, UpToHour(ShiftYear(t.date), h)))[p]
          = ToHour(p, ShiftYear(t.date), h)
    BY <1>3, <1>4, MergedHours
  <2> QED BY <2>1, <2>2, <2>3
<1> HIDE DEF merged
<1>7. ASSUME EmptyLyDay(w)
      PROVE  ToHour(p, ShiftYear(t.date), h) = 0
  <2>1. 60 * h = 0
    BY <1>2, <1>3, <1>7 DEF EmptyLyDay, At
  <2>2. Rate[p] \in Nat
    BY BoardWindowsAssumption
  <2> QED BY <1>4, <2>1, <2>2 DEF ToHour
<1> QED BY <1>5, <1>6, <1>7 DEF w, g, h

\* What a build gathers for the finished days: this year's and last year's
\* are the same days.
LEMMA MonthIsCompared ==
  ASSUME KeptIsRight, NEW t \in Moment, NEW S \in SUBSET Pizzerias, NEW p \in S
  PROVE  LET w == ComputeBoardWindows(t)
             g == Gathered(S, w, t)
         IN /\ t.date.d = 1 => g.mtd[p] = 0 /\ g.lfl[p] = 0
            /\ t.date.d # 1 => /\ w.mtd_lfl.to.date.d = t.date.d - 1
                               /\ g.mtd[p] = SumOfDays(p, t.date.d - 1)
                               /\ g.lfl[p] = SumOfDays(p, t.date.d - 1)
<1> DEFINE w == ComputeBoardWindows(t)
           g == Gathered(S, w, t)
           n == t.date.d - 1
           fetched == [q \in S |-> MonthlyFull(q, w.mtd_lfl.from.date, w.mtd_lfl.to.date, t)]
           key == ToKey(w.mtd_lfl)
<1>1. /\ g.mtd[p] = IF MtdDegenerate(w, t) THEN 0
                    ELSE MonthlyFull(p, w.mtd.from.date, w.mtd.to.date, t)
      /\ g.lfl[p] = IF MtdDegenerate(w, t) THEN 0
                    ELSE MergeWindow("monthly_lfl", key, fetched)[p]
  BY DEF Gathered
<1>2. CASE t.date.d = 1
  BY <1>1, <1>2, FirstOfMonth
<1>3. CASE t.date.d # 1
  <2> HIDE DEF g
  <2>1. /\ ~ MtdDegenerate(w, t)
        /\ n \in 1..30
        /\ w.mtd.from.date = [y |-> t.date.y, m |-> t.date.m, d |-> 1]
        /\ w.mtd.to.date = [y |-> t.date.y, m |-> t.date.m, d |-> n]
        /\ w.mtd_lfl.from.date = [y |-> t.date.y - 1, m |-> t.date.m, d |-> 1]
        /\ w.mtd_lfl.to.date = [y |-> t.date.y - 1, m |-> t.date.m, d |-> n]
    BY <1>3, LaterInMonth
  <2>2. t.date.y \in Nat /\ t.date.d \in Nat
    BY DatesAreRecords DEF Moment
  <2> HIDE DEF w
  <2>3. MonthlyFull(p, w.mtd.from.date, w.mtd.to.date, t) = SumOfDays(p, n)
    <3>1. \A k \in 1..n : [w.mtd.from.date EXCEPT !.d = k] # t.date
      BY <2>1, <2>2
    <3> QED BY <2>1, <3>1, WholeDays
  <2>4. fetched[p] = SumOfDays(p, n)
    <3>1. \A k \in 1..n : [w.mtd_lfl.from.date EXCEPT !.d = k] # t.date
      BY <2>1, <2>2
    <3>2. MonthlyFull(p, w.mtd_lfl.from.date, w.mtd_lfl.to.date, t) = SumOfDays(p, n)
      BY <2>1, <3>1, WholeDays
    <3> QED BY <3>2
  <2>5. MergeWindow("monthly_lfl", key, fetched)[p]
          = IF <<"monthly_lfl", p, key>> \in DOMAIN kept THEN kept[<<"monthly_lfl", p, key>>]
            ELSE fetched[p]
    BY DEF MergeWindow, Lookup
  <2>6. key[1].d = n
    BY <2>1 DEF ToKey
  <2> HIDE DEF key
  <2>7. ASSUME <<"monthly_lfl", p, key>> \in DOMAIN kept
        PROVE  kept[<<"monthly_lfl", p, key>>] = SumOfDays(p, n)
    BY <2>6, <2>7 DEF KeptIsRight, RightRow
  <2>8. MergeWindow("monthly_lfl", key, fetched)[p] = SumOfDays(p, n)
    BY <2>4, <2>5, <2>7
  <2> HIDE DEF fetched
  <2> QED BY <1>1, <1>3, <2>1, <2>3, <2>8 DEF w, g
<1> QED BY <1>2, <1>3

\* Takings up to an hour are a natural number.
LEMMA ToHourType ==
  ASSUME NEW p \in Pizzerias, NEW d, d.d \in Nat, NEW h \in 0..23
  PROVE  ToHour(p, d, h) \in Nat
<1>1. Rate[p] \in Nat
  BY BoardWindowsAssumption
<1> DEFINE a == Rate[p] * d.d
           b == 60 * h
<1>2. a \in Nat /\ b \in Nat
  BY <1>1
<1> HIDE DEF a, b
<1>3. a * b \in Nat
  BY <1>2
<1> QED BY <1>3 DEF ToHour, a, b

\* So are those of every right row.
LEMMA RightRowsAreNatural ==
  ASSUME NEW k, NEW v, RightRow(k, v)
  PROVE  v \in Nat
BY ToHourType, SumOfDaysType DEF RightRow

\* A build writes right rows only.
LEMMA WrittenIsRight ==
  ASSUME KeptIsRight, NEW t \in Moment, NEW S \in SUBSET Pizzerias,
         kept' = kept ++ Written(Gathered(S, ComputeBoardWindows(t), t),
                                 ComputeBoardWindows(t), t)
  PROVE  KeptIsRight'
<1> DEFINE w == ComputeBoardWindows(t)
           g == Gathered(S, w, t)
           lw == Rows("sales_lw", ToKey(w.last_week), g.lw)
           lfl == Rows("monthly_lfl", ToKey(w.mtd_lfl), g.lfl)
           lyDay == Rows("sales_ly_day", ToKey(w.ly_day), g.lyDay)
<1>1. DOMAIN g.lw = S /\ DOMAIN g.lfl = S /\ DOMAIN g.lyDay = S
  BY DEF Gathered, MergeWindow
<1>2. ASSUME NEW k \in DOMAIN lw
      PROVE  RightRow(k, lw[k])
  <2>1. PICK p \in S : k = <<"sales_lw", p, ToKey(w.last_week)>> /\ lw[k] = g.lw[p]
    BY <1>1 DEF Rows
  <2>2. \E j \in 0..23 : /\ ToKey(w.last_week) = <<DaysBefore(t.date, 7), j>>
                         /\ g.lw[p] = ToHour(p, DaysBefore(t.date, 7), j)
    BY TodayIsCompared
  <2>3. DaysBefore(t.date, 7).d \in Nat
    BY Week DEF Moment
  <2> HIDE DEF w, g, lw
  <2> QED BY <2>1, <2>2, <2>3 DEF RightRow
<1>3. ASSUME NEW k \in DOMAIN lyDay
      PROVE  RightRow(k, lyDay[k])
  <2>1. PICK p \in S : k = <<"sales_ly_day", p, ToKey(w.ly_day)>> /\ lyDay[k] = g.lyDay[p]
    BY <1>1 DEF Rows
  <2>2. /\ ToKey(w.ly_day) = <<ShiftYear(t.date), t.min \div 60>>
        /\ g.lyDay[p] = ToHour(p, ShiftYear(t.date), t.min \div 60)
    BY LastYearIsCompared
  <2>3. ShiftYear(t.date).d \in Nat /\ t.min \div 60 \in 0..23
    <3>1. t.date \in Dates /\ t.min \in 0..1439
      BY DEF Moment
    <3> HIDE DEF w, g, lw, lfl, lyDay
    <3>2. ShiftYear(t.date).d \in Nat
      BY <3>1, LastYearsDay
    <3>3. t.min \div 60 \in 0..23
      BY <3>1
    <3> QED BY <3>2, <3>3
  <2> HIDE DEF w, g, lyDay
  <2> QED BY <2>1, <2>2, <2>3 DEF RightRow
<1>4. ASSUME ~ MtdDegenerate(w, t), NEW k \in DOMAIN lfl
      PROVE  RightRow(k, lfl[k])
  <2>1. PICK p \in S : k = <<"monthly_lfl", p, ToKey(w.mtd_lfl)>> /\ lfl[k] = g.lfl[p]
    BY <1>1 DEF Rows
  <2>2. t.date.d # 1
    BY <1>4, FirstOfMonth
  <2>3. w.mtd_lfl.to.date.d = t.date.d - 1 /\ g.lfl[p] = SumOfDays(p, t.date.d - 1)
    BY <2>2, MonthIsCompared
  <2>4. t.date.d - 1 \in Nat
    BY <2>2, DatesAreRecords DEF Moment
  <2>5. ToKey(w.mtd_lfl) = <<w.mtd_lfl.to.date, w.mtd_lfl.to.min \div 60>>
    BY DEF ToKey
  <2> HIDE DEF w, g, lfl
  <2> QED BY <2>1, <2>3, <2>4, <2>5 DEF RightRow
<1>5. kept' = kept ++ (lw ++ (IF MtdDegenerate(w, t) THEN <<>> ELSE lfl)
                          ++ (IF EmptyLyDay(w) THEN <<>> ELSE lyDay))
  BY DEF Written
<1> DEFINE B == IF MtdDegenerate(w, t) THEN <<>> ELSE lfl
           C == IF EmptyLyDay(w) THEN <<>> ELSE lyDay
<1>6. ASSUME NEW k \in DOMAIN kept'
      PROVE  \/ k \in DOMAIN kept /\ kept'[k] = kept[k]
             \/ k \in DOMAIN lw /\ kept'[k] = lw[k]
             \/ ~ MtdDegenerate(w, t) /\ k \in DOMAIN lfl /\ kept'[k] = lfl[k]
             \/ k \in DOMAIN lyDay /\ kept'[k] = lyDay[k]
  <2> HIDE DEF w, g, lw, lfl, lyDay
  <2>1. DOMAIN <<>> = {}
    OBVIOUS
  <2>2. DOMAIN B \subseteq (IF MtdDegenerate(w, t) THEN {} ELSE DOMAIN lfl)
    BY <2>1
  <2>3. DOMAIN C \subseteq DOMAIN lyDay
    BY <2>1
  <2>4. ~ MtdDegenerate(w, t) => B = lfl
    OBVIOUS
  <2>5. C # <<>> => C = lyDay
    OBVIOUS
  <2> HIDE DEF B, C
  <2>6. kept' = kept ++ (lw ++ B ++ C)
    BY <1>5 DEF B, C
  <2>7. \/ k \in DOMAIN kept /\ kept'[k] = kept[k]
        \/ k \in DOMAIN lw /\ kept'[k] = lw[k]
        \/ k \in DOMAIN B /\ kept'[k] = B[k]
        \/ k \in DOMAIN C /\ kept'[k] = C[k]
    BY <1>6, <2>6 DEF ++
  <2> QED BY <2>1, <2>2, <2>3, <2>4, <2>5, <2>7
<1> HIDE DEF w, g, lw, lfl, lyDay
<1>7. \A k \in DOMAIN kept' : RightRow(k, kept'[k])
  BY <1>2, <1>3, <1>4, <1>6 DEF KeptIsRight
<1> QED BY <1>7 DEF KeptIsRight

\* What the monthly endpoint answers is a natural number.
LEMMA MonthlyFullType ==
  ASSUME NEW p \in Pizzerias, NEW t \in Moment, NEW from, NEW to, from.d = 1, to.d \in Nat
  PROVE  MonthlyFull(p, from, to, t) \in Nat
<1> DEFINE f == [k \in from.d..to.d |->
                   Rate[p] * k * (IF [from EXCEPT !.d = k] = t.date THEN t.min ELSE 1440)]
<1>1. \A k \in from.d..to.d : f[k] \in Nat
  <2> TAKE k \in from.d..to.d
  <2> DEFINE m == IF [from EXCEPT !.d = k] = t.date THEN t.min ELSE 1440
  <2>1. m \in Nat
    BY DEF Moment
  <2>2. k \in Nat /\ Rate[p] \in Nat
    BY BoardWindowsAssumption
  <2> HIDE DEF m
  <2>3. (Rate[p] * k) * m \in Nat
    BY <2>1, <2>2
  <2> QED BY <2>3 DEF m
<1>2. IsFiniteSet(from.d..to.d) /\ DOMAIN f = from.d..to.d
  <2>1. from.d \in Int /\ to.d \in Int
    OBVIOUS
  <2>2. IsFiniteSet(from.d..to.d)
    BY <2>1, FS_Interval
  <2> QED BY <2>2
<1>3. MonthlyFull(p, from, to, t) = SumFunctionOnSet(f, from.d..to.d)
  BY <1>2 DEF MonthlyFull, SumFunction
<1> HIDE DEF f
<1>4. SumFunctionOnSet(f, from.d..to.d) \in Nat
  BY <1>1, <1>2, SumOfNaturals
<1> QED BY <1>3, <1>4

\* The full month of last year is one, from the history or fetched.
LEMMA FullMonthType ==
  ASSUME NEW t \in Moment, NEW S \in SUBSET Pizzerias,
         \A k \in DOMAIN history : history[k] \in Nat, NEW p \in S
  PROVE  LyFullMonth(S, ComputeBoardWindows(t), t)[p] \in Nat
<1> DEFINE w == ComputeBoardWindows(t)
           from == w.last_year_full_month.from.date
           to == w.last_year_full_month.to.date
<1>1. t.date.y \in Nat /\ t.date.m \in 1..12 /\ t.date = [y |-> t.date.y, m |-> t.date.m, d |-> t.date.d]
  BY DatesAreRecords DEF Moment
<1>2. from = ShiftYear(First(t.date)) /\ to = LastDayOfMonth(ShiftYear(First(t.date)))
  BY DEF ComputeBoardWindows, At
<1>3. /\ First(t.date) = [y |-> t.date.y, m |-> t.date.m, d |-> 1]
      /\ DaysIn(t.date.y - 1, t.date.m) \in 28..31
  BY <1>1, MonthsHaveDays DEF First
<1>4. ShiftYear(First(t.date)) = [y |-> t.date.y - 1, m |-> t.date.m, d |-> 1]
  BY <1>1, <1>3 DEF ShiftYear
<1>5. from.d = 1 /\ to.d \in Nat
  BY <1>2, <1>3, <1>4 DEF LastDayOfMonth
<1>6. LyFullMonth(S, w, t)[p]
        = IF <<p, from>> \in DOMAIN history THEN history[<<p, from>>]
          ELSE MonthlyFull(p, from, to, t)
  BY DEF LyFullMonth, Lookup
<1> HIDE DEF w, from, to
<1>7. MonthlyFull(p, from, to, t) \in Nat
  BY <1>5, MonthlyFullType
<1> QED BY <1>6, <1>7 DEF w, from, to

\* Arithmetic of the gap of less than an hour.
LEMMA Scaled ==
  ASSUME NEW a \in Nat, NEW x \in 0..59
  PROVE  a * x \in 0..(60 * a)
OBVIOUS

LEMMA Difference ==
  ASSUME NEW a \in Int, NEW x \in Int, NEW y \in Int
  PROVE  a * x - a * y = a * (x - y) /\ a * x \in Int /\ a * y \in Int
OBVIOUS

\* The month of a project's block and its baseline differ by less than an hour.
MonthFits(b, p, t) == b.month.value \in Int /\ b.month.baseline \in Int
                      /\ b.month.value - b.month.baseline \in 0..(60 * Rate[p] * t.date.d)

\* The block of a project compares like with like.
LEMMA BlockIsLikeForLike ==
  ASSUME KeptIsRight, NEW t \in Moment, NEW S \in SUBSET Pizzerias, NEW p \in S, NEW ly
  PROVE  LET w == ComputeBoardWindows(t)
             b == Block(p, Gathered(S, w, t), ly, w)
         IN /\ \E k \in 0..23 :
                 /\ b.day.baseline = Rate[p] * DaysBefore(t.date, 7).d * 60 * k
                 /\ NearHour(t, k)
            /\ b.forecast.method = "lfl" => /\ b.forecast.value[2] = b.ly_full
                                            /\ b.forecast.value[1] = b.forecast.value[3]
            /\ ~ (t.date.m = 2 /\ t.date.d = 29) => MonthFits(b, p, t)
<1> DEFINE w == ComputeBoardWindows(t)
           g == Gathered(S, w, t)
           b == Block(p, g, ly, w)
           h == t.min \div 60
<1>1. t.date \in Dates /\ t.min \in 0..1439 /\ t.date.d \in 1..31
  BY DatesAreRecords DEF Moment
<1>2. Rate[p] \in Nat /\ p \in Pizzerias
  BY BoardWindowsAssumption
<1>3. /\ g.today[p] = Rate[p] * t.date.d * t.min
      /\ \E k \in 0..23 :
           /\ g.lw[p] = ToHour(p, DaysBefore(t.date, 7), k)
           /\ NearHour(t, k)
  BY TodayIsCompared
<1>4. g.lyDay[p] = ToHour(p, ShiftYear(t.date), h)
  BY LastYearIsCompared
<1>5. g.mtd[p] = g.lfl[p] /\ g.mtd[p] \in Nat
  <2>1. CASE t.date.d = 1
    BY <2>1, MonthIsCompared
  <2>2. CASE t.date.d # 1
    <3>1. t.date.d - 1 \in Nat
      BY <1>1
    <3> QED BY <1>2, <2>2, <3>1, MonthIsCompared, SumOfDaysType
  <2> QED BY <2>1, <2>2
<1>6. /\ b.day.baseline = g.lw[p]
      /\ b.month.value = g.mtd[p] + g.today[p]
      /\ b.month.baseline = g.lfl[p] + g.lyDay[p]
      /\ b.ly_full = ly[p]
      /\ b.forecast = ForecastMonth(g.mtd[p], g.lfl[p], ly[p],
                                    w.last_year_full_month.to.date.d, w.mtd.to.date.d)
  BY DEF Block, MetricBlock
<1> HIDE DEF w, g, b, h
<1>7. \E k \in 0..23 :
         /\ b.day.baseline = Rate[p] * DaysBefore(t.date, 7).d * 60 * k
         /\ NearHour(t, k)
  <2>1. PICK k \in 0..23 : /\ g.lw[p] = ToHour(p, DaysBefore(t.date, 7), k)
                           /\ NearHour(t, k)
    BY <1>3
  <2>2. DaysBefore(t.date, 7).d \in Nat
    BY <1>1, Week
  <2> DEFINE a == Rate[p] * DaysBefore(t.date, 7).d
  <2>3. a \in Nat
    BY <1>2, <2>2
  <2> HIDE DEF a
  <2>4. a * (60 * k) = a * 60 * k
    BY <2>3
  <2>5. b.day.baseline = a * 60 * k
    BY <1>6, <2>1, <2>4 DEF ToHour, a
  <2> QED BY <2>1, <2>5, Zenon DEF a
<1>8. b.forecast.method = "lfl" => /\ b.forecast.value[2] = b.ly_full
                                   /\ b.forecast.value[1] = b.forecast.value[3]
  BY <1>5, <1>6 DEF ForecastMonth
<1>9. ASSUME ~ (t.date.m = 2 /\ t.date.d = 29)
      PROVE  MonthFits(b, p, t)
  <2>1. ShiftYear(t.date).d = t.date.d
    BY <1>1, <1>9, LastYearsDay
  <2>2. h \in 0..23 /\ t.min - 60 * h \in 0..59
    BY Hours DEF h
  <2> DEFINE a == Rate[p] * t.date.d
             x == t.min - 60 * h
  <2>3. a \in Nat /\ x \in 0..59
    BY <1>1, <1>2, <2>2
  <2>4. g.today[p] = a * t.min /\ g.lyDay[p] = a * (60 * h)
    BY <1>3, <1>4, <2>1 DEF ToHour
  <2>5. 60 * Rate[p] * t.date.d = 60 * a
    BY <1>1, <1>2
  <2> HIDE DEF a
  <2>6. a * t.min - a * (60 * h) = a * x /\ a * t.min \in Int /\ a * (60 * h) \in Int
    <3>1. a \in Int /\ t.min \in Int /\ 60 * h \in Int
      BY <1>1, <2>2, <2>3
    <3> QED BY <3>1, Difference
  <2> HIDE DEF x
  <2>7. a * x \in 0..(60 * a)
    BY <2>3, Scaled
  <2>8. /\ b.month.value = g.mtd[p] + a * t.min
        /\ b.month.baseline = g.mtd[p] + a * (60 * h)
    BY <1>5, <1>6, <2>4
  <2> QED BY <1>5, <2>5, <2>6, <2>7, <2>8 DEF MonthFits
<1> QED BY <1>7, <1>8, <1>9, Zenon DEF b, g, w

\* The totals of the network, in a state and in the next.
FitsSum(S, pay, t) ==
  LET net == NetMonth(pay)
  IN net.value - net.baseline \in 0..SumFunction([p \in S |-> 60 * Rate[p] * t.date.d])

\* The totals of the network differ by no more than the projects together.
LEMMA NetworkFitsSum ==
  ASSUME NEW S \in SUBSET Pizzerias, NEW t \in Moment, NEW pay, DOMAIN pay = S,
         \A p \in S : MonthFits(pay[p], p, t)
  PROVE  FitsSum(S, pay, t)
<1> DEFINE f == [p \in DOMAIN pay |-> pay[p].month.value]
           g == [p \in DOMAIN pay |-> pay[p].month.baseline]
           h == [p \in S |-> 60 * Rate[p] * t.date.d]
<1>1. IsFiniteSet(S)
  BY BoardWindowsAssumption, FS_Subset
<1>2. \A p \in S : f[p] \in Int /\ g[p] \in Int /\ h[p] \in Int /\ f[p] - g[p] \in 0..h[p]
  <2> TAKE p \in S
  <2>1. Rate[p] \in Nat /\ t.date.d \in Nat
    BY BoardWindowsAssumption, DatesAreRecords DEF Moment
  <2>2. h[p] \in Int
    BY <2>1
  <2> QED BY <2>2 DEF MonthFits
<1>3. DOMAIN f = S /\ DOMAIN g = S /\ DOMAIN h = S
  OBVIOUS
<1>4. NetMonth(pay).value = SumFunction(f) /\ NetMonth(pay).baseline = SumFunction(g)
  BY DEF NetMonth, MetricBlock
<1> HIDE DEF f, g, h
<1>5. SumFunctionOnSet(f, S) - SumFunctionOnSet(g, S) \in 0..SumFunctionOnSet(h, S)
  BY <1>1, <1>2, SumsApart
<1>6. /\ SumFunction(f) = SumFunctionOnSet(f, S)
      /\ SumFunction(g) = SumFunctionOnSet(g, S)
      /\ SumFunction(h) = SumFunctionOnSet(h, S)
  BY <1>3, Zenon DEF SumFunction
<1>7. NetMonth(pay).value - NetMonth(pay).baseline \in 0..SumFunction(h)
  BY <1>4, <1>5, <1>6
<1> QED BY <1>7 DEF FitsSum, h

\* The same of the next state.
LEMMA NetworkFits ==
  ASSUME NEW S \in SUBSET Pizzerias, NEW t \in Moment, DOMAIN payload' = S, now' = t,
         \A p \in S : MonthFits(payload'[p], p, t)
  PROVE  SameMonth'
<1>1. FitsSum(S, payload', t)
  BY NetworkFitsSum
<1>2. \A p \in S : payload'[p].month.value - payload'[p].month.baseline
                     \in 0..(60 * Rate[p] * t.date.d)
  BY DEF MonthFits
<1> QED BY <1>1, <1>2 DEF SameMonth, FitsSum, Blocks, NetMonth

\* A payload of nobody.
LEMMA NobodyFits ==
  ASSUME NEW pay, DOMAIN pay = {}, NEW t
  PROVE  FitsSum({}, pay, t)
<1> DEFINE f == [p \in DOMAIN pay |-> pay[p].month.value]
           g == [p \in DOMAIN pay |-> pay[p].month.baseline]
           h == [p \in {} |-> 60 * Rate[p] * t.date.d]
<1>1. NetMonth(pay).value = SumFunction(f) /\ NetMonth(pay).baseline = SumFunction(g)
  BY DEF NetMonth, MetricBlock
<1>2. DOMAIN f = {} /\ DOMAIN g = {} /\ DOMAIN h = {}
  OBVIOUS
<1> HIDE DEF f, g, h
<1>3. SumFunction(f) = 0 /\ SumFunction(g) = 0 /\ SumFunction(h) = 0
  BY <1>2, SumOfNone, Zenon DEF SumFunction
<1>4. NetMonth(pay).value - NetMonth(pay).baseline \in 0..SumFunction(h)
  BY <1>1, <1>3
<1> QED BY <1>4 DEF FitsSum, h

\* The same of a state and of the next.
LEMMA NothingOfNobody ==
  /\ DOMAIN payload = {} => SameMonth
  /\ DOMAIN payload' = {} => SameMonth'
<1>1. ASSUME DOMAIN payload = {} PROVE SameMonth
  BY <1>1, NobodyFits DEF SameMonth, FitsSum, Blocks, NetMonth
<1>2. ASSUME DOMAIN payload' = {} PROVE SameMonth'
  BY <1>2, NobodyFits DEF SameMonth, FitsSum, Blocks, NetMonth
<1> QED BY <1>1, <1>2

\* The inductive invariant: the figures shown follow from the rows kept.
WindowsInv == TypeOK /\ KeptIsRight /\ LikeForLike

\* The moments of the specification are moments.
LEMMA MomentsAreMoments == Moments \subseteq Moment
BY BoardWindowsAssumption DEF Moment

\* SameMonth of a payload and a moment.
SameMonthOf(pay, t) ==
  /\ \A p \in DOMAIN pay :
        pay[p].month.value - pay[p].month.baseline \in 0..(60 * Rate[p] * t.date.d)
  /\ FitsSum(DOMAIN pay, pay, t)

LEMMA SameMonthIs ==
  /\ SameMonth <=> SameMonthOf(payload, now)
  /\ SameMonth' <=> SameMonthOf(payload', now')
<1>1. SameMonth <=> SameMonthOf(payload, now)
  BY DEF SameMonth, SameMonthOf, FitsSum, Blocks
<1>2. SameMonth' <=> SameMonthOf(payload', now')
  BY DEF SameMonth, SameMonthOf, FitsSum, Blocks
<1> QED BY <1>1, <1>2

\* The invariant holds initially and every step keeps it.
LEMMA WindowsStart == Init => WindowsInv
<1> SUFFICES ASSUME Init PROVE WindowsInv
  OBVIOUS
<1>1. DOMAIN kept = {} /\ DOMAIN history = {} /\ DOMAIN payload = {}
  BY DEF Init
<1>2. TypeOK /\ KeptIsRight
  BY <1>1, BoardWindowsAssumption DEF Init, TypeOK, KeptIsRight, Blocks
<1>3. SameDay /\ ForecastIsLastYears
  BY <1>1 DEF SameDay, ForecastIsLastYears, Blocks
<1>4. SameMonth
  BY <1>1, NothingOfNobody
<1> QED BY <1>2, <1>3, <1>4 DEF WindowsInv, LikeForLike

LEMMA WindowsStep == WindowsInv /\ [Next]_vars => WindowsInv'
<1> SUFFICES ASSUME WindowsInv, [Next]_vars PROVE WindowsInv'
  OBVIOUS
<1>1. TypeOK /\ KeptIsRight /\ LikeForLike
  BY DEF WindowsInv
<1>2. ASSUME NEW t \in Moments, NEW S \in SUBSET Pizzerias, BuildBoardPayload(t, S)
      PROVE  WindowsInv'
  <2> DEFINE w == ComputeBoardWindows(t)
             g == Gathered(S, w, t)
             ly == LyFullMonth(S, w, t)
             from == w.last_year_full_month.from.date
             taken == [k \in {<<p, from>> : p \in S} |-> ly[k[1]]]
  <2>1. /\ builds < MaxBuilds /\ now' = t /\ builds' = builds + 1
        /\ kept' = kept ++ Written(g, w, t)
        /\ history' = history ++ taken
        /\ payload' = [p \in S |-> Block(p, g, ly, w)]
    BY <1>2 DEF BuildBoardPayload
  <2>2. t \in Moment
    BY MomentsAreMoments
  <2>3. KeptIsRight'
    BY <1>1, <2>1, <2>2, WrittenIsRight
  <2>4. \A p \in S : ly[p] \in Nat
    BY <1>1, <2>2, FullMonthType DEF TypeOK
  <2>5. \A p \in S :
          /\ \E k \in 0..23 :
               /\ payload'[p].day.baseline = Rate[p] * DaysBefore(t.date, 7).d * 60 * k
               /\ NearHour(t, k)
          /\ payload'[p].forecast.method = "lfl" =>
                /\ payload'[p].forecast.value[2] = payload'[p].ly_full
                /\ payload'[p].forecast.value[1] = payload'[p].forecast.value[3]
          /\ ~ (t.date.m = 2 /\ t.date.d = 29) => MonthFits(payload'[p], p, t)
    BY <1>1, <2>1, <2>2, BlockIsLikeForLike
  <2> HIDE DEF w, g, ly
  <2>6. \A k \in DOMAIN history' : history'[k] \in Nat
    <3>1. \A k \in DOMAIN taken : taken[k] \in Nat
      BY <2>4
    <3> HIDE DEF taken
    <3> QED BY <1>1, <2>1, <3>1 DEF TypeOK, ++
  <2>7. \A k \in DOMAIN kept' : kept'[k] \in Nat
    BY <2>3, RightRowsAreNatural DEF KeptIsRight
  <2>8. DOMAIN payload' = S
    BY <2>1
  <2>9. TypeOK'
    BY <1>1, <2>1, <2>6, <2>7, <2>8, BoardWindowsAssumption DEF TypeOK, Blocks
  <2> HIDE DEF taken
  <2>10. SameDay'
    BY <2>1, <2>5, <2>8 DEF SameDay, Blocks, NearHour
  <2>11. ForecastIsLastYears'
    BY <2>5, <2>8 DEF ForecastIsLastYears, Blocks
  <2>12. ASSUME ~ (t.date.m = 2 /\ t.date.d = 29)
         PROVE  SameMonth'
    <3>1. \A p \in S : MonthFits(payload'[p], p, t)
      BY <2>5, <2>12
    <3> QED BY <2>1, <2>8, <3>1, <2>2, NetworkFits
  <2> QED BY <2>1, <2>3, <2>9, <2>10, <2>11, <2>12 DEF WindowsInv, LikeForLike
<1>3. ASSUME NEW t \in Moments, NEW S \in SUBSET Pizzerias, FullMonthFails(t, S)
      PROVE  WindowsInv'
  <2>1. /\ builds < MaxBuilds /\ now' = t /\ builds' = builds + 1
        /\ kept' = kept ++ Written(Gathered(S, ComputeBoardWindows(t), t),
                                   ComputeBoardWindows(t), t)
        /\ history' = history
        /\ payload' = <<>>
    BY <1>3 DEF FullMonthFails
  <2>2. t \in Moment
    BY MomentsAreMoments
  <2>3. KeptIsRight'
    BY <1>1, <2>1, <2>2, WrittenIsRight
  <2>4. \A k \in DOMAIN kept' : kept'[k] \in Nat
    BY <2>3, RightRowsAreNatural DEF KeptIsRight
  <2>5. DOMAIN payload' = {}
    BY <2>1
  <2>6. TypeOK'
    BY <1>1, <2>1, <2>4, <2>5, BoardWindowsAssumption DEF TypeOK, Blocks
  <2>7. SameDay' /\ ForecastIsLastYears'
    BY <2>5 DEF SameDay, ForecastIsLastYears, Blocks
  <2>8. SameMonth'
    BY <2>5, NothingOfNobody
  <2> QED BY <2>3, <2>6, <2>7, <2>8 DEF WindowsInv, LikeForLike
<1>4. CASE UNCHANGED vars
  <2>1. /\ now' = now /\ kept' = kept /\ history' = history /\ payload' = payload
        /\ builds' = builds
    BY <1>4 DEF vars
  <2>2. TypeOK' /\ KeptIsRight'
    BY <1>1, <2>1 DEF WindowsInv, TypeOK, KeptIsRight, Blocks
  <2>3. SameDay' /\ ForecastIsLastYears'
    BY <1>1, <2>1 DEF WindowsInv, LikeForLike, SameDay, ForecastIsLastYears, Blocks
  <2>4. ASSUME SameMonth
        PROVE  SameMonth'
    <3>1. SameMonthOf(payload, now)
      BY <2>4, SameMonthIs
    <3>2. SameMonthOf(payload', now')
      BY <2>1, <3>1, Zenon
    <3> QED BY <3>2, SameMonthIs
  <2> QED BY <1>1, <2>1, <2>2, <2>3, <2>4 DEF WindowsInv, LikeForLike
<1> QED BY <1>2, <1>3, <1>4 DEF Next

\* The board's rows, history and payload have their types in every reachable state.
THEOREM WindowsTypes == Spec => []TypeOK
<1>1. WindowsInv => TypeOK
  BY DEF WindowsInv
<1> QED BY <1>1, WindowsStart, WindowsStep, PTL DEF Spec

\* _build_board_payload compares like with like: the month and its baseline of
\* last year count the same days once each, a day is compared with the same
\* stretch of the day a week before, and a month that repeats last year's is
\* forecast to be last year's; at every date of the calendar but the 29th of
\* February, for the month, and whatever rows earlier builds have kept.
THEOREM BoardComparesLikeWithLike == Spec => []LikeForLike
<1>1. WindowsInv => LikeForLike
  BY DEF WindowsInv
<1> QED BY <1>1, WindowsStart, WindowsStep, PTL DEF Spec

-----------------------------------------------------------------------------
(* Targets. *)

\* The fields of a target's key.
LEMMA RowsHaveFields ==
  ASSUME NEW k \in Key, NEW m
  PROVE  /\ k = TargetRow(k.kind, k.project, k.code, k.month)
         /\ [k EXCEPT !.month = m] = TargetRow(k.kind, k.project, k.code, m)
BY DEF Key, TargetRow

\* A table keeps its types when a row is put into it.
LEMMA PutType ==
  ASSUME NEW f, NEW D, DOMAIN f \subseteq D, NEW V, \A x \in DOMAIN f : f[x] \in V,
         NEW k \in D, NEW v \in V
  PROVE  /\ DOMAIN Put(f, k, v) \subseteq D
         /\ \A x \in DOMAIN Put(f, k, v) : Put(f, k, v)[x] \in V
BY DEF Put

\* Types of the targets, initially and after each operation.
LEMMA TargetsStart == TargetsInit => TargetsTypeOK
BY TargetsAssumption DEF TargetsInit, TargetsTypeOK

LEMMA UpsertTypes ==
  ASSUME TargetsTypeOK, NEW k \in Key, NEW v \in Values, Upsert(k, v)
  PROVE  TargetsTypeOK'
<1>1. targets' = Put(targets, k, v) /\ edits' \in 0..MaxEdits
  BY TargetsAssumption DEF Upsert, Edited, TargetsTypeOK
<1> QED BY <1>1, PutType DEF TargetsTypeOK

LEMMA DeleteTypes ==
  ASSUME TargetsTypeOK, NEW k, Delete(k)
  PROVE  TargetsTypeOK'
BY TargetsAssumption DEF Delete, Edited, TargetsTypeOK

\* The table after a copy.
LEMMA CopiedTable ==
  ASSUME TargetsTypeOK, NEW from \in Months \union {Always}, NEW to \in Months \union {Always},
         CopyTargets(from, to)
  PROVE  /\ \A kind \in Kinds, project \in Units \union {Network}, code \in Codes :
           /\ TargetRow(kind, project, code, to) \in DOMAIN targets'
                <=> \/ TargetRow(kind, project, code, from) \in DOMAIN targets
                    \/ TargetRow(kind, project, code, to) \in DOMAIN targets
           /\ TargetRow(kind, project, code, from) \in DOMAIN targets
                => targets'[TargetRow(kind, project, code, to)]
                     = targets[TargetRow(kind, project, code, from)]
         /\ \A kind \in Kinds, project \in Units \union {Network}, code \in Codes,
               month \in (Months \union {Always}) \ {to} :
                /\ TargetRow(kind, project, code, month) \in DOMAIN targets'
                     <=> TargetRow(kind, project, code, month) \in DOMAIN targets
                /\ TargetRow(kind, project, code, month) \in DOMAIN targets
                     => targets'[TargetRow(kind, project, code, month)]
                          = targets[TargetRow(kind, project, code, month)]
<1> DEFINE Moved == {[k EXCEPT !.month = to] : k \in Copied(from)}
           laid == [q \in Moved |-> targets[[q EXCEPT !.month = from]]]
<1>1. targets' = laid ++ targets
  BY DEF CopyTargets
<1>2. \A k \in Copied(from) : /\ k \in Key /\ k \in DOMAIN targets /\ k.month = from
                              /\ k = TargetRow(k.kind, k.project, k.code, from)
                              /\ [k EXCEPT !.month = to] = TargetRow(k.kind, k.project, k.code, to)
  BY RowsHaveFields DEF Copied, RowsOf, TargetsTypeOK
<1>3. ASSUME NEW kind \in Kinds, NEW project \in Units \union {Network}, NEW code \in Codes,
             NEW month \in Months \union {Always}
      PROVE  TargetRow(kind, project, code, month) \in Moved
               <=> (month = to /\ TargetRow(kind, project, code, from) \in DOMAIN targets)
  <2>1. ASSUME TargetRow(kind, project, code, month) \in Moved
        PROVE  month = to /\ TargetRow(kind, project, code, from) \in DOMAIN targets
    <3>1. PICK k \in Copied(from) : TargetRow(kind, project, code, month)
                                      = TargetRow(k.kind, k.project, k.code, to)
      BY <1>2, <2>1
    <3>2. month = to /\ kind = k.kind /\ project = k.project /\ code = k.code
      BY <3>1 DEF TargetRow
    <3> QED BY <1>2, <3>2
  <2>2. ASSUME TargetRow(kind, project, code, from) \in DOMAIN targets, month = to
        PROVE  TargetRow(kind, project, code, month) \in Moved
    <3> DEFINE k == TargetRow(kind, project, code, from)
    <3>1. k \in Copied(from)
      BY <2>2 DEF Copied, RowsOf, TargetRow
    <3>2. [k EXCEPT !.month = to] = TargetRow(kind, project, code, month)
      BY <2>2 DEF TargetRow
    <3> QED BY <3>1, <3>2
  <2> QED BY <2>1, <2>2
<1>4. ASSUME NEW kind, NEW project, NEW code
      PROVE  [TargetRow(kind, project, code, to) EXCEPT !.month = from]
                = TargetRow(kind, project, code, from)
  BY DEF TargetRow
<1> HIDE DEF Moved
<1>5. ASSUME NEW q \in Moved
      PROVE  q \in DOMAIN targets' /\ targets'[q] = targets[[q EXCEPT !.month = from]]
  BY <1>1 DEF ++
<1>6. ASSUME NEW q, q \notin Moved
      PROVE  /\ q \in DOMAIN targets' <=> q \in DOMAIN targets
             /\ q \in DOMAIN targets => targets'[q] = targets[q]
  BY <1>1, <1>6 DEF ++
<1> QED BY <1>3, <1>4, <1>5, <1>6

\* Copying keeps the types.
LEMMA CopyTypes ==
  ASSUME TargetsTypeOK, NEW from \in Months \union {Always}, NEW to \in Months \union {Always},
         CopyTargets(from, to)
  PROVE  TargetsTypeOK'
<1> DEFINE Moved == {[k EXCEPT !.month = to] : k \in Copied(from)}
           laid == [q \in Moved |-> targets[[q EXCEPT !.month = from]]]
<1>1. targets' = laid ++ targets /\ edits' \in 0..MaxEdits
  BY TargetsAssumption DEF CopyTargets, Edited, TargetsTypeOK
<1>2. ASSUME NEW q \in Moved
      PROVE  q \in Key /\ targets[[q EXCEPT !.month = from]] \in Values
  <2>1. PICK k \in Copied(from) : q = [k EXCEPT !.month = to]
    BY <1>2
  <2>2. k \in Key /\ k \in DOMAIN targets /\ k.month = from
    BY DEF Copied, RowsOf, TargetsTypeOK
  <2>3. q \in Key /\ [q EXCEPT !.month = from] = k
    BY <2>1, <2>2 DEF Key
  <2> QED BY <2>2, <2>3 DEF TargetsTypeOK
<1> HIDE DEF Moved
<1>3. DOMAIN targets' \subseteq Key /\ \A q \in DOMAIN targets' : targets'[q] \in Values
  BY <1>1, <1>2 DEF ++, TargetsTypeOK
<1> QED BY <1>1, <1>3 DEF TargetsTypeOK

\* Every step keeps the types.
LEMMA TargetsStep == TargetsTypeOK /\ [TargetsNext]_targetVars => TargetsTypeOK'
<1> SUFFICES ASSUME TargetsTypeOK, [TargetsNext]_targetVars PROVE TargetsTypeOK'
  OBVIOUS
<1>1. CASE UNCHANGED targetVars
  BY <1>1 DEF targetVars, TargetsTypeOK
<1>2. ASSUME NEW c \in Codes, NEW month \in Months \union {Always},
             \/ DeleteDefaultTarget(c, month)
             \/ DeleteOpsTarget(c, month)
             \/ \E p \in Units : \/ DeleteTarget(p, c, month)
                                 \/ DeleteOpsProjectTarget(p, c, month)
      PROVE  TargetsTypeOK'
  <2>1. PICK k : Delete(k)
    BY <1>2 DEF DeleteDefaultTarget, DeleteOpsTarget, DeleteTarget, DeleteOpsProjectTarget
  <2> QED BY <2>1, DeleteTypes
<1>3. ASSUME NEW c \in Codes, NEW month \in Months \union {Always}, NEW v \in Values,
             \/ UpsertDefaultTarget(c, month, v)
             \/ UpsertOpsTarget(c, month, v)
             \/ \E p \in Units : \/ UpsertTarget(p, c, month, v)
                                 \/ UpsertOpsProjectTarget(p, c, month, v)
      PROVE  TargetsTypeOK'
  <2>1. \A kind \in Kinds, project \in Units \union {Network} :
           TargetRow(kind, project, c, month) \in Key
    BY DEF TargetRow, Key
  <2>2. PICK k \in Key : Upsert(k, v)
    BY <1>3, <2>1 DEF UpsertDefaultTarget, UpsertOpsTarget, UpsertTarget,
                      UpsertOpsProjectTarget, Kinds
  <2> QED BY <2>2, UpsertTypes
<1> QED BY <1>1, <1>2, <1>3, CopyTypes DEF TargetsNext

\* The least element of a set of numbers.
LEMMA LeastIs ==
  ASSUME NEW T \in SUBSET Nat, NEW n \in T, \A m \in T : n <= m
  PROVE  Min(T) = n
<1>1. \E x \in T : \A y \in T : x <= y
  OBVIOUS
<1>2. Min(T) \in T /\ \A y \in T : Min(T) <= y
  BY <1>1, Zenon DEF Min
<1>3. \A x, y \in Nat : x <= y /\ y <= x => x = y
  OBVIOUS
<1> DEFINE least == Min(T)
<1>4. least \in Nat /\ n \in Nat /\ least <= n /\ n <= least
  <2> HIDE DEF least
  <2>1. least \in T /\ \A y \in T : least <= y
    BY <1>2 DEF least
  <2> QED BY <2>1
<1> QED BY <1>3, <1>4

\* The first row of four there is, as a set; FirstFound says it as TargetOf does.
InForce(table, r1, r2, r3, r4) ==
  IF r1 \in DOMAIN table THEN {table[r1]}
  ELSE IF r2 \in DOMAIN table THEN {table[r2]}
  ELSE IF r3 \in DOMAIN table THEN {table[r3]}
  ELSE IF r4 \in DOMAIN table THEN {table[r4]}
  ELSE {}

FirstFound(table, places) ==
  LET found == {i \in DOMAIN places : places[i] \in DOMAIN table}
  IN IF found = {} THEN {} ELSE {table[places[Min(found)]]}

\* Both are the same.
LEMMA FirstFoundIsInForce ==
  ASSUME NEW table, NEW r1, NEW r2, NEW r3, NEW r4
  PROVE  FirstFound(table, <<r1, r2, r3, r4>>) = InForce(table, r1, r2, r3, r4)
<1> DEFINE places == <<r1, r2, r3, r4>>
           found == {i \in DOMAIN places : places[i] \in DOMAIN table}
<1>1. DOMAIN places = 1..4 /\ places[1] = r1 /\ places[2] = r2 /\ places[3] = r3 /\ places[4] = r4
  OBVIOUS
<1> HIDE DEF places
<1>2. found \in SUBSET Nat /\ found \subseteq {1, 2, 3, 4}
  BY <1>1
<1>3. /\ 1 \in found <=> r1 \in DOMAIN table
      /\ 2 \in found <=> r2 \in DOMAIN table
      /\ 3 \in found <=> r3 \in DOMAIN table
      /\ 4 \in found <=> r4 \in DOMAIN table
  BY <1>1
<1>4. FirstFound(table, places) = IF found = {} THEN {} ELSE {table[places[Min(found)]]}
  BY DEF FirstFound
<1> HIDE DEF found
<1>5. CASE 1 \in found
  <2>1. Min(found) = 1
    BY <1>2, <1>5, LeastIs
  <2> QED BY <1>1, <1>3, <1>4, <1>5, <2>1 DEF InForce, places
<1>6. CASE 1 \notin found /\ 2 \in found
  <2>1. Min(found) = 2
    BY <1>2, <1>6, LeastIs
  <2> QED BY <1>1, <1>3, <1>4, <1>6, <2>1 DEF InForce, places
<1>7. CASE 1 \notin found /\ 2 \notin found /\ 3 \in found
  <2>1. Min(found) = 3
    BY <1>2, <1>7, LeastIs
  <2> QED BY <1>1, <1>3, <1>4, <1>7, <2>1 DEF InForce, places
<1>8. CASE 1 \notin found /\ 2 \notin found /\ 3 \notin found /\ 4 \in found
  <2>1. Min(found) = 4
    BY <1>2, <1>8, LeastIs
  <2> QED BY <1>1, <1>3, <1>4, <1>8, <2>1 DEF InForce, places
<1>9. CASE found = {}
  BY <1>3, <1>4, <1>9 DEF InForce, places
<1> QED BY <1>2, <1>5, <1>6, <1>7, <1>8, <1>9

\* The target in force, before and after a step.
LEMMA TargetsInForce ==
  /\ \A kind, p, c, m :
       TargetOf(kind, p, c, m)
         = InForce(targets, TargetRow(kind, p, c, m), TargetRow(kind, p, c, Always),
                   TargetRow(kind, Network, c, m), TargetRow(kind, Network, c, Always))
  /\ \A kind, p, c, m :
       TargetOf(kind, p, c, m)'
         = InForce(targets', TargetRow(kind, p, c, m), TargetRow(kind, p, c, Always),
                   TargetRow(kind, Network, c, m), TargetRow(kind, Network, c, Always))
<1>1. ASSUME NEW kind, NEW p, NEW c, NEW m
      PROVE  /\ TargetOf(kind, p, c, m) = FirstFound(targets, RowsFor(kind, p, c, m))
             /\ TargetOf(kind, p, c, m)' = FirstFound(targets', RowsFor(kind, p, c, m))
  <2>1. TargetOf(kind, p, c, m) = FirstFound(targets, RowsFor(kind, p, c, m))
    BY Zenon DEF TargetOf, FirstFound
  <2>2. TargetOf(kind, p, c, m)' = FirstFound(targets', RowsFor(kind, p, c, m))
    BY Zenon DEF TargetOf, FirstFound, RowsFor, TargetRow
  <2> QED BY <2>1, <2>2
<1>2. ASSUME NEW table, NEW kind, NEW p, NEW c, NEW m
      PROVE  FirstFound(table, RowsFor(kind, p, c, m))
               = InForce(table, TargetRow(kind, p, c, m), TargetRow(kind, p, c, Always),
                         TargetRow(kind, Network, c, m), TargetRow(kind, Network, c, Always))
  BY FirstFoundIsInForce, Zenon DEF RowsFor
<1>3. ASSUME NEW kind, NEW p, NEW c, NEW m
      PROVE  TargetOf(kind, p, c, m)
               = InForce(targets, TargetRow(kind, p, c, m), TargetRow(kind, p, c, Always),
                         TargetRow(kind, Network, c, m), TargetRow(kind, Network, c, Always))
  <2>1. TargetOf(kind, p, c, m) = FirstFound(targets, RowsFor(kind, p, c, m))
    BY <1>1
  <2>2. FirstFound(targets, RowsFor(kind, p, c, m))
           = InForce(targets, TargetRow(kind, p, c, m), TargetRow(kind, p, c, Always),
                     TargetRow(kind, Network, c, m), TargetRow(kind, Network, c, Always))
    BY <1>2
  <2> QED BY <2>1, <2>2
<1>4. ASSUME NEW kind, NEW p, NEW c, NEW m
      PROVE  TargetOf(kind, p, c, m)'
               = InForce(targets', TargetRow(kind, p, c, m), TargetRow(kind, p, c, Always),
                         TargetRow(kind, Network, c, m), TargetRow(kind, Network, c, Always))
  <2>1. TargetOf(kind, p, c, m)' = FirstFound(targets', RowsFor(kind, p, c, m))
    BY <1>1
  <2>2. FirstFound(targets', RowsFor(kind, p, c, m))
           = InForce(targets', TargetRow(kind, p, c, m), TargetRow(kind, p, c, Always),
                     TargetRow(kind, Network, c, m), TargetRow(kind, Network, c, Always))
    BY <1>2
  <2> QED BY <2>1, <2>2
<1> QED BY <1>3, <1>4

\* After a copy over a month with no row the copied one lacks, the same target
\* is in force in both.
LEMMA CopyFollows ==
  ASSUME TargetsTypeOK, NEW from \in Months \union {Always}, NEW to \in Months \union {Always},
         CopyTargets(from, to),
         \A k \in RowsOf(to) : [k EXCEPT !.month = from] \in DOMAIN targets,
         NEW kind \in Kinds, NEW p \in Units, NEW c \in Codes
  PROVE  TargetOf(kind, p, c, to)' = TargetOf(kind, p, c, from)
<1> DEFINE R(project, month) == TargetRow(kind, project, c, month)
<1>1. from # to
  BY DEF CopyTargets
<1>2. ASSUME NEW q \in {p, Network}
      PROVE  /\ R(q, to) \in DOMAIN targets => R(q, from) \in DOMAIN targets
             /\ R(q, to) \in DOMAIN targets' <=> R(q, from) \in DOMAIN targets
             /\ R(q, from) \in DOMAIN targets => targets'[R(q, to)] = targets[R(q, from)]
             /\ to # Always => /\ R(q, Always) \in DOMAIN targets'
                                    <=> R(q, Always) \in DOMAIN targets
                               /\ R(q, Always) \in DOMAIN targets
                                    => targets'[R(q, Always)] = targets[R(q, Always)]
  <2>1. R(q, to) \in DOMAIN targets => R(q, from) \in DOMAIN targets
    <3>1. R(q, to).month = to /\ [R(q, to) EXCEPT !.month = from] = R(q, from)
      BY DEF TargetRow
    <3> HIDE DEF R
    <3> QED BY <3>1 DEF RowsOf
  <2>2. q \in Units \union {Network}
    OBVIOUS
  <2>3. /\ R(q, to) \in DOMAIN targets'
             <=> (R(q, from) \in DOMAIN targets \/ R(q, to) \in DOMAIN targets)
        /\ R(q, from) \in DOMAIN targets => targets'[R(q, to)] = targets[R(q, from)]
    BY <2>2, CopiedTable
  <2>4. to # Always => /\ R(q, Always) \in DOMAIN targets' <=> R(q, Always) \in DOMAIN targets
                       /\ R(q, Always) \in DOMAIN targets
                            => targets'[R(q, Always)] = targets[R(q, Always)]
    <3>1. \A month \in (Months \union {Always}) \ {to} :
             /\ TargetRow(kind, q, c, month) \in DOMAIN targets'
                  <=> TargetRow(kind, q, c, month) \in DOMAIN targets
             /\ TargetRow(kind, q, c, month) \in DOMAIN targets
                  => targets'[TargetRow(kind, q, c, month)]
                       = targets[TargetRow(kind, q, c, month)]
      <4>1. \A k1 \in Kinds, project \in Units \union {Network}, code \in Codes,
               month \in (Months \union {Always}) \ {to} :
                /\ TargetRow(k1, project, code, month) \in DOMAIN targets'
                     <=> TargetRow(k1, project, code, month) \in DOMAIN targets
                /\ TargetRow(k1, project, code, month) \in DOMAIN targets
                     => targets'[TargetRow(k1, project, code, month)]
                          = targets[TargetRow(k1, project, code, month)]
        BY CopiedTable, Zenon
      <4> QED BY <2>2, <4>1
    <3> QED BY <3>1
  <2> HIDE DEF R
  <2> QED BY <2>1, <2>3, <2>4
<1> HIDE DEF R
<1>3. InForce(targets', R(p, to), R(p, Always), R(Network, to), R(Network, Always))
        = InForce(targets, R(p, from), R(p, Always), R(Network, from), R(Network, Always))
  <2>1. CASE to = Always
    BY <1>2, <2>1 DEF InForce
  <2>2. CASE to # Always
    BY <1>2, <2>2 DEF InForce
  <2> QED BY <2>1, <2>2
<1> QED BY <1>3, TargetsInForce DEF R

\* The table of targets has its types in every reachable state.
THEOREM TargetsTypes == TargetsSpec => []TargetsTypeOK
BY TargetsStart, TargetsStep, PTL DEF TargetsSpec

\* POST /api/targets/copy: after a copy over a month that has no row the copied
\* one lacks, every pizzeria has there the targets of the copied month, those
\* of the network and the general ones it falls back on included.
THEOREM CopiesAreFollowed == TargetsSpec => CopiedMonthFollows
<1>1. TargetsTypeOK /\ [TargetsNext]_targetVars =>
        [\A from, to \in Months \union {Always} :
           ( /\ CopyTargets(from, to)
             /\ \A k \in RowsOf(to) : [k EXCEPT !.month = from] \in DOMAIN targets )
           => \A kind \in Kinds, p \in Units, c \in Codes :
                TargetOf(kind, p, c, to)' = TargetOf(kind, p, c, from)]_targetVars
  BY CopyFollows
<1> QED BY <1>1, TargetsTypes, PTL DEF TargetsSpec, CopiedMonthFollows

-----------------------------------------------------------------------------
(* The figures of the month: what aggregates are, and the cascade of profits. *)

\* The sum of the negated terms.
LEMMA SumNegated ==
  ASSUME NEW S, IsFiniteSet(S), NEW f, NEW g, \A x \in S : f[x] \in Int /\ g[x] = - f[x]
  PROVE  SumFunctionOnSet(g, S) = - SumFunctionOnSet(f, S)
<1> DEFINE G == {s \in SUBSET S : SumFunctionOnSet(g, s) = - SumFunctionOnSet(f, s)}
<1>1. ASSUME NEW s \in SUBSET S,
             \A u \in SUBSET S : u \subseteq s /\ u # s => u \in G
      PROVE  s \in G
  <2>1. CASE s = {}
    BY <2>1, SumOfNone
  <2>2. CASE s # {}
    <3>1. PICK y \in s : TRUE
      BY <2>2
    <3>2. SumFunctionOnSet(g, s \ {y}) = - SumFunctionOnSet(f, s \ {y})
      BY <1>1, <3>1
    <3>3. IsFiniteSet(s) /\ IsFiniteSet(s \ {y})
      BY FS_Subset
    <3>4. /\ SumFunctionOnSet(f, s) = f[y] + SumFunctionOnSet(f, s \ {y})
          /\ SumFunctionOnSet(g, s) = g[y] + SumFunctionOnSet(g, s \ {y})
      BY <3>1, <3>3, SumInsert
    <3>5. SumFunctionOnSet(f, s \ {y}) \in Int
      BY <3>3, SumType
    <3>6. f[y] \in Int /\ g[y] = - f[y]
      BY <3>1
    <3>7. SumFunctionOnSet(g, s) = - SumFunctionOnSet(f, s)
      BY <3>2, <3>4, <3>5, <3>6
    <3> QED BY <3>7
  <2> QED BY <2>1, <2>2
<1>2. S \in G
  <2> HIDE DEF G
  <2> QED BY <1>1, InductionOnSubsets
<1> QED BY <1>2

\* What a tally has at a key, or 0 where it has none.
LEMMA GotTally ==
  ASSUME NEW key, NEW amount, NEW k
  PROVE  Got(Tally(key, amount), k) = SumFunctionOnSet(amount, {x \in DOMAIN key : key[x] = k})
<1>1. CASE k \in Range(key)
  BY <1>1 DEF Got, Tally
<1>2. CASE k \notin Range(key)
  <2>1. {x \in DOMAIN key : key[x] = k} = {}
    BY <1>2 DEF Range
  <2>2. SumFunctionOnSet(amount, {x \in DOMAIN key : key[x] = k}) = 0
    BY <2>1, SumOfNone, Zenon
  <2> QED BY <1>2, <2>2 DEF Got, Tally
<1> QED BY <1>1, <1>2

\* The parts that make up the amounts of a code, of a category and of a
\* channel of a project.
CodedParts(P, pid, code, codes) ==
  {p \in P : Kept(p, {pid}, codes) /\ codes[p.cid] # "none" /\ codes[p.cid] = code}
CategoryParts(P, pid, cid, codes) ==
  {p \in P : Kept(p, {pid}, codes) /\ p.cid = cid}
ChannelParts(P, pid, channel, codes) ==
  {p \in CodedParts(P, pid, "REVENUE", codes) : Channel(p.cid) = channel}

\* The signed amounts of parts.
SignedParts(S) == [p \in S |-> Signed(p)]

LEMMA SignedIsInteger ==
  ASSUME NEW p, p.value \in Int
  PROVE  Signed(p) \in Int
BY DEF Signed

LEMMA GotAggregates ==
  ASSUME NEW P, IsFiniteSet(P), NEW projects, NEW codes, NEW pid
  PROVE  LET agg == Aggregates(P, projects, codes)
         IN /\ \A code : Got(agg.codes, <<pid, code>>) =
                  IF pid \in projects
                  THEN SumFunction(SignedParts(CodedParts(P, pid, code, codes))) ELSE 0
            /\ \A cid : Got(agg.cats, <<pid, cid>>) =
                  IF pid \in projects
                  THEN SumFunction(SignedParts(CategoryParts(P, pid, cid, codes))) ELSE 0
            /\ \A channel : Got(agg.channels, <<pid, channel>>) =
                  IF pid \in projects
                  THEN SumFunction(SignedParts(ChannelParts(P, pid, channel, codes))) ELSE 0
<1> DEFINE keptParts    == {p \in P : Kept(p, projects, codes)}
           coded   == {p \in keptParts : codes[p.cid] # "none"}
           revenue == {p \in coded : codes[p.cid] = "REVENUE"}
           signed  == [p \in keptParts |-> Signed(p)]
           K1 == [p \in keptParts |-> <<p.pid, p.cid>>]
           K2 == [p \in coded |-> <<p.pid, codes[p.cid]>>]
           K3 == [p \in revenue |-> <<p.pid, Channel(p.cid)>>]
           A(cid) == {p \in DOMAIN K1 : K1[p] = <<pid, cid>>}
           B(code) == {p \in DOMAIN K2 : K2[p] = <<pid, code>>}
           C(ch) == {p \in DOMAIN K3 : K3[p] = <<pid, ch>>}
           agg == Aggregates(P, projects, codes)
<1>1. /\ agg.cats = Tally(K1, signed) /\ agg.codes = Tally(K2, signed)
      /\ agg.channels = Tally(K3, signed)
  BY Zenon DEF Aggregates
<1>2. pid \in projects =>
        /\ \A cid : A(cid) = CategoryParts(P, pid, cid, codes)
        /\ \A code : B(code) = CodedParts(P, pid, code, codes)
        /\ \A ch : C(ch) = ChannelParts(P, pid, ch, codes)
  BY DEF Kept, CategoryParts, CodedParts, ChannelParts
<1>3. pid \notin projects => \A x : A(x) = {} /\ B(x) = {} /\ C(x) = {}
  BY DEF Kept
<1>4. ASSUME NEW S, S \subseteq keptParts
      PROVE  SumFunctionOnSet(signed, S) = SumFunction(SignedParts(S))
  <2>1. IsFiniteSet(S)
    BY <1>4, FS_Subset
  <2>2. \A x \in S : signed[x] = SignedParts(S)[x]
    BY <1>4 DEF SignedParts
  <2>3. DOMAIN SignedParts(S) = S
    BY DEF SignedParts
  <2> HIDE DEF signed
  <2>4. SumFunctionOnSet(signed, S) = SumFunctionOnSet(SignedParts(S), S)
    BY <2>1, <2>2, SumOfEquals
  <2> QED BY <2>3, <2>4, Zenon DEF SumFunction
<1>5. \A x : A(x) \subseteq keptParts /\ B(x) \subseteq keptParts /\ C(x) \subseteq keptParts
  OBVIOUS
<1>6. /\ \A x : Got(agg.cats, <<pid, x>>) = SumFunctionOnSet(signed, A(x))
      /\ \A x : Got(agg.codes, <<pid, x>>) = SumFunctionOnSet(signed, B(x))
      /\ \A x : Got(agg.channels, <<pid, x>>) = SumFunctionOnSet(signed, C(x))
  <2> HIDE DEF K1, K2, K3, signed, agg
  <2>1. \A x : /\ Got(Tally(K1, signed), <<pid, x>>) = SumFunctionOnSet(signed, A(x))
               /\ Got(Tally(K2, signed), <<pid, x>>) = SumFunctionOnSet(signed, B(x))
               /\ Got(Tally(K3, signed), <<pid, x>>) = SumFunctionOnSet(signed, C(x))
    BY GotTally
  <2> HIDE DEF A, B, C
  <2> QED BY <1>1, <2>1, Zenon
<1> HIDE DEF A, B, C, signed, agg, keptParts
<1>7. CASE pid \in projects
  <2>1. \A x : /\ SumFunctionOnSet(signed, A(x)) = SumFunction(SignedParts(A(x)))
               /\ SumFunctionOnSet(signed, B(x)) = SumFunction(SignedParts(B(x)))
               /\ SumFunctionOnSet(signed, C(x)) = SumFunction(SignedParts(C(x)))
    BY <1>4, <1>5
  <2> QED BY <1>2, <1>6, <1>7, <2>1, Zenon DEF agg
<1>8. CASE pid \notin projects
  <2>1. SumFunctionOnSet(signed, {}) = 0
    BY SumOfNone
  <2> QED BY <1>3, <1>6, <1>8, <2>1, Zenon DEF agg
<1> QED BY <1>7, <1>8

\* A sum with one more term.
LEMMA SumWithOneMore ==
  ASSUME NEW S, IsFiniteSet(S), NEW x, x \notin S, NEW f, \A y \in S \cup {x} : f[y] \in Int
  PROVE  /\ IsFiniteSet(S \cup {x})
         /\ SumFunctionOnSet(f, S \cup {x}) = SumFunctionOnSet(f, S) + f[x]
<1>1. IsFiniteSet(S \cup {x})
  BY FS_AddElement
<1>2. SumFunctionOnSet(f, S \cup {x}) = f[x] + SumFunctionOnSet(f, (S \cup {x}) \ {x})
  BY <1>1, SumInsert
<1>3. (S \cup {x}) \ {x} = S
  OBVIOUS
<1>4. SumFunctionOnSet(f, S \cup {x}) = f[x] + SumFunctionOnSet(f, S)
  BY <1>2, <1>3, Zenon
<1>5. SumFunctionOnSet(f, S) \in Int
  BY SumType
<1> QED BY <1>1, <1>4, <1>5

\* The sum over the variable costs, written out.
LEMMA VariableCosts ==
  ASSUME NEW f, \A c \in VariableCodes : f[c] \in Int
  PROVE  /\ IsFiniteSet(VariableCodes)
         /\ SumFunctionOnSet(f, VariableCodes) =
              f["UC"] + f["LC"] + f["DC"] + f["RENT"] + f["MARKETING"] + f["FRANCHISE"] + f["OTHER_OPEX"]
<1> DEFINE D0 == {}
<1>0. IsFiniteSet(D0) /\ SumFunctionOnSet(f, D0) = 0
  BY FS_EmptySet, SumOfNone
<1> DEFINE D1 == D0 \cup {"UC"}
<1> DEFINE D2 == D1 \cup {"LC"}
<1> DEFINE D3 == D2 \cup {"DC"}
<1> DEFINE D4 == D3 \cup {"RENT"}
<1> DEFINE D5 == D4 \cup {"MARKETING"}
<1> DEFINE D6 == D5 \cup {"FRANCHISE"}
<1> DEFINE D7 == D6 \cup {"OTHER_OPEX"}
<1>1. IsFiniteSet(D1) /\ SumFunctionOnSet(f, D1) = SumFunctionOnSet(f, D0) + f["UC"]
  <2>1. "UC" \notin D0 /\ \A y \in D0 \cup {"UC"} : f[y] \in Int
    BY DEF VariableCodes
  <2> HIDE DEF D0
  <2> QED BY <1>0, <2>1, SumWithOneMore
<1>2. IsFiniteSet(D2) /\ SumFunctionOnSet(f, D2) = SumFunctionOnSet(f, D1) + f["LC"]
  <2>1. "LC" \notin D1 /\ \A y \in D1 \cup {"LC"} : f[y] \in Int
    BY DEF VariableCodes
  <2> HIDE DEF D1
  <2> QED BY <1>1, <2>1, SumWithOneMore
<1>3. IsFiniteSet(D3) /\ SumFunctionOnSet(f, D3) = SumFunctionOnSet(f, D2) + f["DC"]
  <2>1. "DC" \notin D2 /\ \A y \in D2 \cup {"DC"} : f[y] \in Int
    BY DEF VariableCodes
  <2> HIDE DEF D2
  <2> QED BY <1>2, <2>1, SumWithOneMore
<1>4. IsFiniteSet(D4) /\ SumFunctionOnSet(f, D4) = SumFunctionOnSet(f, D3) + f["RENT"]
  <2>1. "RENT" \notin D3 /\ \A y \in D3 \cup {"RENT"} : f[y] \in Int
    BY DEF VariableCodes
  <2> HIDE DEF D3
  <2> QED BY <1>3, <2>1, SumWithOneMore
<1>5. IsFiniteSet(D5) /\ SumFunctionOnSet(f, D5) = SumFunctionOnSet(f, D4) + f["MARKETING"]
  <2>1. "MARKETING" \notin D4 /\ \A y \in D4 \cup {"MARKETING"} : f[y] \in Int
    BY DEF VariableCodes
  <2> HIDE DEF D4
  <2> QED BY <1>4, <2>1, SumWithOneMore
<1>6. IsFiniteSet(D6) /\ SumFunctionOnSet(f, D6) = SumFunctionOnSet(f, D5) + f["FRANCHISE"]
  <2>1. "FRANCHISE" \notin D5 /\ \A y \in D5 \cup {"FRANCHISE"} : f[y] \in Int
    BY DEF VariableCodes
  <2> HIDE DEF D5
  <2> QED BY <1>5, <2>1, SumWithOneMore
<1>7. IsFiniteSet(D7) /\ SumFunctionOnSet(f, D7) = SumFunctionOnSet(f, D6) + f["OTHER_OPEX"]
  <2>1. "OTHER_OPEX" \notin D6 /\ \A y \in D6 \cup {"OTHER_OPEX"} : f[y] \in Int
    BY DEF VariableCodes
  <2> HIDE DEF D6
  <2> QED BY <1>6, <2>1, SumWithOneMore
<1>8. D7 = VariableCodes
  BY DEF VariableCodes
<1>9. f["UC"] \in Int /\ f["LC"] \in Int /\ f["DC"] \in Int /\ f["RENT"] \in Int /\ f["MARKETING"] \in Int /\ f["FRANCHISE"] \in Int /\ f["OTHER_OPEX"] \in Int
  BY DEF VariableCodes
<1> HIDE DEF D0, D1, D2, D3, D4, D5, D6, D7
<1>11. SumFunctionOnSet(f, D7) = f["UC"] + f["LC"] + f["DC"] + f["RENT"] + f["MARKETING"] + f["FRANCHISE"] + f["OTHER_OPEX"]
  BY <1>1, <1>2, <1>3, <1>4, <1>5, <1>6, <1>7, <1>9, <1>0
<1> QED BY <1>7, <1>8, <1>11, Zenon

\* The sum over all codes of the lines' own: the variable costs and the rest.
LEMMA AllAmounts ==
  ASSUME NEW f, \A c \in OwnCodes : f[c] \in Int
  PROVE  /\ IsFiniteSet(OwnCodes)
         /\ SumFunctionOnSet(f, OwnCodes) =
              SumFunctionOnSet(f, VariableCodes) + f["REVENUE"] + f["MGMT"] + f["OTHER_INCOME"] + f["NON_OPER_EXPENSE"] + f["INTEREST"] + f["TAX"] + f["DIVIDENDS"]
<1> DEFINE D0 == VariableCodes
<1>0. IsFiniteSet(D0) /\ SumFunctionOnSet(f, D0) \in Int
  <2>1. \A c \in VariableCodes : f[c] \in Int
    BY DEF OwnCodes, VariableCodes
  <2> QED BY <2>1, VariableCosts, SumType
<1> DEFINE D1 == D0 \cup {"REVENUE"}
<1> DEFINE D2 == D1 \cup {"MGMT"}
<1> DEFINE D3 == D2 \cup {"OTHER_INCOME"}
<1> DEFINE D4 == D3 \cup {"NON_OPER_EXPENSE"}
<1> DEFINE D5 == D4 \cup {"INTEREST"}
<1> DEFINE D6 == D5 \cup {"TAX"}
<1> DEFINE D7 == D6 \cup {"DIVIDENDS"}
<1>1. IsFiniteSet(D1) /\ SumFunctionOnSet(f, D1) = SumFunctionOnSet(f, D0) + f["REVENUE"]
  <2>1. "REVENUE" \notin D0 /\ \A y \in D0 \cup {"REVENUE"} : f[y] \in Int
    BY DEF VariableCodes, OwnCodes
  <2> HIDE DEF D0
  <2> QED BY <1>0, <2>1, SumWithOneMore
<1>2. IsFiniteSet(D2) /\ SumFunctionOnSet(f, D2) = SumFunctionOnSet(f, D1) + f["MGMT"]
  <2>1. "MGMT" \notin D1 /\ \A y \in D1 \cup {"MGMT"} : f[y] \in Int
    BY DEF VariableCodes, OwnCodes
  <2> HIDE DEF D1
  <2> QED BY <1>1, <2>1, SumWithOneMore
<1>3. IsFiniteSet(D3) /\ SumFunctionOnSet(f, D3) = SumFunctionOnSet(f, D2) + f["OTHER_INCOME"]
  <2>1. "OTHER_INCOME" \notin D2 /\ \A y \in D2 \cup {"OTHER_INCOME"} : f[y] \in Int
    BY DEF VariableCodes, OwnCodes
  <2> HIDE DEF D2
  <2> QED BY <1>2, <2>1, SumWithOneMore
<1>4. IsFiniteSet(D4) /\ SumFunctionOnSet(f, D4) = SumFunctionOnSet(f, D3) + f["NON_OPER_EXPENSE"]
  <2>1. "NON_OPER_EXPENSE" \notin D3 /\ \A y \in D3 \cup {"NON_OPER_EXPENSE"} : f[y] \in Int
    BY DEF VariableCodes, OwnCodes
  <2> HIDE DEF D3
  <2> QED BY <1>3, <2>1, SumWithOneMore
<1>5. IsFiniteSet(D5) /\ SumFunctionOnSet(f, D5) = SumFunctionOnSet(f, D4) + f["INTEREST"]
  <2>1. "INTEREST" \notin D4 /\ \A y \in D4 \cup {"INTEREST"} : f[y] \in Int
    BY DEF VariableCodes, OwnCodes
  <2> HIDE DEF D4
  <2> QED BY <1>4, <2>1, SumWithOneMore
<1>6. IsFiniteSet(D6) /\ SumFunctionOnSet(f, D6) = SumFunctionOnSet(f, D5) + f["TAX"]
  <2>1. "TAX" \notin D5 /\ \A y \in D5 \cup {"TAX"} : f[y] \in Int
    BY DEF VariableCodes, OwnCodes
  <2> HIDE DEF D5
  <2> QED BY <1>5, <2>1, SumWithOneMore
<1>7. IsFiniteSet(D7) /\ SumFunctionOnSet(f, D7) = SumFunctionOnSet(f, D6) + f["DIVIDENDS"]
  <2>1. "DIVIDENDS" \notin D6 /\ \A y \in D6 \cup {"DIVIDENDS"} : f[y] \in Int
    BY DEF VariableCodes, OwnCodes
  <2> HIDE DEF D6
  <2> QED BY <1>6, <2>1, SumWithOneMore
<1>8. D7 = OwnCodes
  BY DEF VariableCodes, OwnCodes
<1>9. f["REVENUE"] \in Int /\ f["MGMT"] \in Int /\ f["OTHER_INCOME"] \in Int /\ f["NON_OPER_EXPENSE"] \in Int /\ f["INTEREST"] \in Int /\ f["TAX"] \in Int /\ f["DIVIDENDS"] \in Int
  BY DEF OwnCodes
<1> HIDE DEF D0, D1, D2, D3, D4, D5, D6, D7
<1>11. SumFunctionOnSet(f, D7) = SumFunctionOnSet(f, D0) + f["REVENUE"] + f["MGMT"] + f["OTHER_INCOME"] + f["NON_OPER_EXPENSE"] + f["INTEREST"] + f["TAX"] + f["DIVIDENDS"]
  BY <1>0, <1>1, <1>2, <1>3, <1>4, <1>5, <1>6, <1>7, <1>9
<1> QED BY <1>7, <1>8, <1>11, Zenon DEF D0


\* The part as it moved: an inflow is positive.
Moved(p) == IF p.op = "Income" THEN p.value ELSE - p.value

\* The classified parts of a project.
FlowOf(P, pid, codes) == {p \in P : Kept(p, {pid}, codes) /\ codes[p.cid] # "none"}

\* Where every category stands on the side of its code, the amount of a code
\* is what moved, or the opposite.
LEMMA SidesOfCodes ==
  ASSUME NEW P, IsFiniteSet(P), \A p \in P : p.value \in Int, NEW pid, NEW codes, NEW c,
         \A p \in FlowOf(P, pid, codes) : OnItsSide(codes[p.cid], Categories[p.cid].op)
  PROVE  LET S == CodedParts(P, pid, c, codes)
             moved == [p \in FlowOf(P, pid, codes) |-> Moved(p)]
             amount == SumFunction(SignedParts(S))
         IN /\ amount \in Int
            /\ SumFunctionOnSet(moved, S) = IF c \in IncomeCodes THEN amount ELSE - amount
<1> DEFINE S == CodedParts(P, pid, c, codes)
           moved == [p \in FlowOf(P, pid, codes) |-> Moved(p)]
           signed == SignedParts(S)
<1>1. IsFiniteSet(S) /\ DOMAIN signed = S /\ S \subseteq P /\ S \subseteq FlowOf(P, pid, codes)
  BY FS_Subset DEF CodedParts, SignedParts, FlowOf
<1>2. \A p \in S : /\ signed[p] = Signed(p) /\ moved[p] = Moved(p)
                   /\ signed[p] \in Int /\ moved[p] \in Int
  BY <1>1 DEF SignedParts, Signed, Moved
<1>3. \A p \in S : Moved(p) = IF c \in IncomeCodes THEN Signed(p) ELSE - Signed(p)
  <2> TAKE p \in S
  <2>1. /\ p.op \in {"Income", "Outcome"} /\ codes[p.cid] = c
        /\ Categories[p.cid].op \in {"Income", "Outcome", "Capital"}
        /\ (c \in IncomeCodes) = (Categories[p.cid].op = "Income")
        /\ p.value \in Int
    BY <1>1 DEF CodedParts, Kept, OnItsSide
  <2> QED BY <2>1 DEF Moved, Signed
<1> HIDE DEF S, moved, signed
<1>4. SumFunctionOnSet(signed, S) \in Int
  BY <1>1, <1>2, SumType
<1>5. CASE c \in IncomeCodes
  <2>1. \A p \in S : moved[p] = signed[p]
    BY <1>2, <1>3, <1>5
  <2>2. SumFunctionOnSet(moved, S) = SumFunctionOnSet(signed, S)
    BY <1>1, <2>1, SumOfEquals
  <2> QED BY <1>1, <1>4, <1>5, <2>2, Zenon DEF SumFunction, S, moved, signed
<1>6. CASE c \notin IncomeCodes
  <2>1. \A p \in S : signed[p] \in Int /\ moved[p] = - signed[p]
    BY <1>2, <1>3, <1>6
  <2>2. SumFunctionOnSet(moved, S) = - SumFunctionOnSet(signed, S)
    BY <1>1, <2>1, SumNegated
  <2> QED BY <1>1, <1>4, <1>6, <2>2, Zenon DEF SumFunction, S, moved, signed
<1> QED BY <1>5, <1>6

LEMMA Cascade ==
  ASSUME NEW r \in Int, NEW v \in Int, NEW m \in Int, NEW o \in Int, NEW n \in Int,
         NEW i \in Int, NEW t \in Int, NEW d \in Int
  PROVE  ((((r - v) - m) + (o - n)) - i - t) - d
           = (- v) + r + (- m) + o + (- n) + (- i) + (- t) + (- d)
OBVIOUS

\* What is left of the profit is what moved.
LEMMA RetainedIsFlow ==
  ASSUME NEW P, IsFiniteSet(P), \A p \in P : p.value \in Int,
         NEW projects, NEW pid \in projects, NEW codes,
         \A p \in FlowOf(P, pid, codes) : OnItsSide(codes[p.cid], Categories[p.cid].op)
  PROVE  AmountOf(Aggregates(P, projects, codes), pid, "RETAINED")
           = SumFunction([p \in FlowOf(P, pid, codes) |-> Moved(p)])
<1> DEFINE agg   == Aggregates(P, projects, codes)
           S     == FlowOf(P, pid, codes)
           moved == [p \in S |-> Moved(p)]
           own   == OwnAmounts(agg, pid)
           side  == [c \in OwnCodes |-> IF c \in IncomeCodes THEN own[c] ELSE - own[c]]
           key   == [p \in S |-> codes[p.cid]]
<1>1. \A c \in OwnCodes : own[c] = SumFunction(SignedParts(CodedParts(P, pid, c, codes)))
  <2> HIDE DEF agg
  <2>1. \A c : Got(agg.codes, <<pid, c>>) = SumFunction(SignedParts(CodedParts(P, pid, c, codes)))
    BY GotAggregates DEF agg
  <2> QED BY <2>1 DEF OwnAmounts
<1>2. \A c \in OwnCodes : /\ own[c] \in Int /\ side[c] \in Int
                          /\ SumFunctionOnSet(moved, CodedParts(P, pid, c, codes)) = side[c]
  <2> TAKE c \in OwnCodes
  <2> DEFINE amount == SumFunction(SignedParts(CodedParts(P, pid, c, codes)))
  <2>1. /\ amount \in Int
        /\ SumFunctionOnSet(moved, CodedParts(P, pid, c, codes))
             = IF c \in IncomeCodes THEN amount ELSE - amount
    BY SidesOfCodes
  <2>2. own[c] = amount
    BY <1>1
  <2> HIDE DEF own, moved, amount
  <2> QED BY <2>1, <2>2
<1>3. /\ IsFiniteSet(S) /\ S \subseteq P /\ DOMAIN moved = S /\ (\A p \in S : key[p] \in OwnCodes)
      /\ \A p \in S : moved[p] \in Int
  BY FS_Subset DEF FlowOf, OnItsSide, Moved, Kept
<1>4. \A c \in OwnCodes : WithKey(S, key, c) = CodedParts(P, pid, c, codes)
  BY DEF WithKey, FlowOf, CodedParts
<1> HIDE DEF agg, S, moved, own, side, key
<1>5. \A c \in OwnCodes : side[c] = SumFunctionOnSet(moved, WithKey(S, key, c))
  BY <1>2, <1>4
<1>6. IsFiniteSet(OwnCodes) /\ IsFiniteSet(VariableCodes)
  <2>1. \A c \in VariableCodes : own[c] \in Int
    BY <1>2 DEF OwnCodes, VariableCodes
  <2> QED BY <1>2, <2>1, AllAmounts, VariableCosts
<1>7. SumFunctionOnSet(side, OwnCodes) = SumFunctionOnSet(moved, S)
  BY <1>3, <1>5, <1>6, SumByKey
<1>8. SumFunctionOnSet(side, VariableCodes) = - SumFunctionOnSet(own, VariableCodes)
  <2>1. \A c \in VariableCodes : own[c] \in Int /\ side[c] = - own[c]
    BY <1>2 DEF VariableCodes, OwnCodes, IncomeCodes, side
  <2> QED BY <1>6, <2>1, SumNegated
<1>9. /\ side["REVENUE"] = own["REVENUE"] /\ side["OTHER_INCOME"] = own["OTHER_INCOME"]
      /\ side["MGMT"] = - own["MGMT"] /\ side["NON_OPER_EXPENSE"] = - own["NON_OPER_EXPENSE"]
      /\ side["INTEREST"] = - own["INTEREST"] /\ side["TAX"] = - own["TAX"]
      /\ side["DIVIDENDS"] = - own["DIVIDENDS"]
  BY DEF OwnCodes, IncomeCodes, side
<1>10. /\ own["REVENUE"] \in Int /\ own["OTHER_INCOME"] \in Int /\ own["MGMT"] \in Int
       /\ own["NON_OPER_EXPENSE"] \in Int /\ own["INTEREST"] \in Int /\ own["TAX"] \in Int
       /\ own["DIVIDENDS"] \in Int /\ SumFunctionOnSet(own, VariableCodes) \in Int
  <2>1. \A c \in VariableCodes : own[c] \in Int
    BY <1>2 DEF OwnCodes, VariableCodes
  <2>2. SumFunctionOnSet(own, VariableCodes) \in Int
    BY <1>6, <2>1, SumType
  <2> QED BY <1>2, <2>2 DEF OwnCodes
<1>11. SumFunctionOnSet(side, OwnCodes) =
         SumFunctionOnSet(side, VariableCodes) + side["REVENUE"] + side["MGMT"]
           + side["OTHER_INCOME"] + side["NON_OPER_EXPENSE"] + side["INTEREST"] + side["TAX"]
           + side["DIVIDENDS"]
  BY <1>2, AllAmounts
<1>12. AmountOf(agg, pid, "RETAINED") =
         ((((own["REVENUE"] - SumFunctionOnSet(own, VariableCodes)) - own["MGMT"])
           + (own["OTHER_INCOME"] - own["NON_OPER_EXPENSE"])) - own["INTEREST"] - own["TAX"])
           - own["DIVIDENDS"]
  BY DEF AmountOf, own
<1>13. AmountOf(agg, pid, "RETAINED") = SumFunctionOnSet(moved, S)
  <2>1. SumFunctionOnSet(side, OwnCodes) =
          (- SumFunctionOnSet(own, VariableCodes)) + own["REVENUE"] + (- own["MGMT"])
           + own["OTHER_INCOME"] + (- own["NON_OPER_EXPENSE"]) + (- own["INTEREST"])
           + (- own["TAX"]) + (- own["DIVIDENDS"])
    BY <1>8, <1>9, <1>11, Zenon
  <2>2. \A r, v, m, o, n, i, t, d \in Int :
          ((((r - v) - m) + (o - n)) - i - t) - d
            = (- v) + r + (- m) + o + (- n) + (- i) + (- t) + (- d)
    BY Cascade
  <2>3. ((((own["REVENUE"] - SumFunctionOnSet(own, VariableCodes)) - own["MGMT"])
           + (own["OTHER_INCOME"] - own["NON_OPER_EXPENSE"])) - own["INTEREST"] - own["TAX"])
           - own["DIVIDENDS"]
         = (- SumFunctionOnSet(own, VariableCodes)) + own["REVENUE"] + (- own["MGMT"])
           + own["OTHER_INCOME"] + (- own["NON_OPER_EXPENSE"]) + (- own["INTEREST"])
           + (- own["TAX"]) + (- own["DIVIDENDS"])
    BY <1>10, <2>2
  <2> QED BY <1>7, <1>12, <2>1, <2>3, Zenon
<1> QED BY <1>3, <1>13, Zenon DEF SumFunction, agg, S, moved

LEMMA ProfitFlows ==
  ASSUME IsFiniteSet(parts), parts \subseteq Parts
  PROVE  ProfitIsTheFlow
<1> DEFINE codes == CodesOf(rows)
           agg   == Aggregates(parts, Projects, codes)
           flow(pid) == {p \in parts : Kept(p, {pid}, codes) /\ codes[p.cid] # "none"}
<1>1. ASSUME \A p \in UNION {flow(q) : q \in Projects} :
               OnItsSide(codes[p.cid], Categories[p.cid].op),
             NEW pid \in Projects
      PROVE  AmountOf(agg, pid, "RETAINED")
               = SumFunction([p \in flow(pid) |-> IF p.op = "Income" THEN p.value ELSE - p.value])
  <2>1. flow(pid) = FlowOf(parts, pid, codes)
    BY DEF FlowOf
  <2>2. \A p \in parts : p.value \in Int
    BY PnlFiguresAssumption
  <2>3. \A p \in FlowOf(parts, pid, codes) : OnItsSide(codes[p.cid], Categories[p.cid].op)
    BY <1>1, <2>1
  <2> HIDE DEF codes
  <2>4. AmountOf(Aggregates(parts, Projects, codes), pid, "RETAINED")
          = SumFunction([p \in FlowOf(parts, pid, codes) |-> Moved(p)])
    BY <2>2, <2>3, RetainedIsFlow
  <2> HIDE DEF flow
  <2> QED BY <2>1, <2>4, Zenon DEF Moved
<1> QED BY <1>1, Zenon DEF ProfitIsTheFlow

-----------------------------------------------------------------------------
(* A snapshot renders as the parts. *)

\* Two aggregates that are the same for the projects to show.
SameFor(a, b, shown) ==
  \A p \in shown : /\ \A code : Got(a.codes, <<p, code>>) = Got(b.codes, <<p, code>>)
                   /\ \A cid : Got(a.cats, <<p, cid>>) = Got(b.cats, <<p, cid>>)
                   /\ \A ch : Got(a.channels, <<p, ch>>) = Got(b.channels, <<p, ch>>)

\* They have the same amounts by code, and the same dividends of shares.
LEMMA SameAmounts ==
  ASSUME NEW a, NEW b, NEW shown, SameFor(a, b, shown), NEW p \in shown
  PROVE  /\ \A code : AmountOf(a, p, code) = AmountOf(b, p, code)
         /\ Revenue(a, p) = Revenue(b, p)
         /\ \A code : Denominator(a, p, code) = Denominator(b, p, code)
         /\ \A R, rowOf : Direct(a, R, rowOf, p) = Direct(b, R, rowOf, p)
<1>1. OwnAmounts(a, p) = OwnAmounts(b, p)
  BY DEF OwnAmounts, SameFor
<1>2. \A code : AmountOf(a, p, code) = AmountOf(b, p, code)
  BY <1>1, Zenon DEF AmountOf
<1>3. Revenue(a, p) = Revenue(b, p)
  BY DEF Revenue, SameFor
<1>4. \A code : Denominator(a, p, code) = Denominator(b, p, code)
  BY <1>3 DEF Denominator, SameFor
<1>5. ASSUME NEW R, NEW rowOf
      PROVE  Direct(a, R, rowOf, p) = Direct(b, R, rowOf, p)
  <2> DEFINE X(r) == {c \in DOMAIN rowOf : rowOf[c] = r}
             A(r) == [c \in X(r) |-> Got(a.cats, <<p, c>>)]
             B(r) == [c \in X(r) |-> Got(b.cats, <<p, c>>)]
  <2>1. \A r : A(r) = B(r)
    <3> HIDE DEF X
    <3> QED BY DEF SameFor
  <2> HIDE DEF A, B
  <2>2. [r \in R |-> SumFunction(A(r))] = [r \in R |-> SumFunction(B(r))]
    BY <2>1
  <2> QED BY <2>2, Zenon DEF Direct, A, B
<1> QED BY <1>2, <1>3, <1>4, <1>5

\* They have the same lines.
LEMMA SameLines ==
  ASSUME NEW a, NEW b, NEW shown, SameFor(a, b, shown)
  PROVE  Lines(a, shown) = Lines(b, shown)
<1> DEFINE A(code) == [p \in shown |-> AmountOf(a, p, code)]
           B(code) == [p \in shown |-> AmountOf(b, p, code)]
           C(code) == [p \in shown |-> Denominator(a, p, code)]
           D(code) == [p \in shown |-> Denominator(b, p, code)]
<1>1. \A code : A(code) = B(code) /\ C(code) = D(code)
  <2>1. \A code : \A p \in shown : /\ AmountOf(a, p, code) = AmountOf(b, p, code)
                                   /\ Denominator(a, p, code) = Denominator(b, p, code)
    BY SameAmounts
  <2> QED BY <2>1
<1> HIDE DEF A, B, C, D
<1>2. [code \in LineCodes |-> Row(shown, A(code), C(code))]
        = [code \in LineCodes |-> Row(shown, B(code), D(code))]
  BY <1>1
<1> QED BY <1>2, Zenon DEF Lines, A, B, C, D

\* They have the same lines of the template.
LEMMA SameTemplate ==
  ASSUME NEW a, NEW b, NEW shown, SameFor(a, b, shown),
         NEW R, NEW rowOf, NEW totals, NEW lines, NEW level
  PROVE  TemplateLines(a, R, rowOf, totals, shown, lines, level)
           = TemplateLines(b, R, rowOf, totals, shown, lines, level)
<1>1. ASSUME NEW r
      PROVE  RowFigures(a, totals, shown, lines, r) = RowFigures(b, totals, shown, lines, r)
  <2> DEFINE A == [p \in shown |-> Denominator(a, p, r.code)]
             B == [p \in shown |-> Denominator(b, p, r.code)]
             T == [p \in shown |-> totals[p][r]]
  <2>1. A = B
    <3>1. \A p \in shown : Denominator(a, p, r.code) = Denominator(b, p, r.code)
      BY SameAmounts
    <3> QED BY <3>1
  <2> HIDE DEF A, B, T
  <2>2. (IF r.calc THEN CalcRow(lines, r) ELSE Row(shown, T, A))
          = (IF r.calc THEN CalcRow(lines, r) ELSE Row(shown, T, B))
    BY <2>1, Zenon
  <2> QED BY <2>2, Zenon DEF RowFigures, A, B, T
<1> DEFINE cats(r) == IF r.calc THEN {} ELSE CategoriesOf(R, rowOf, r)
           seen == {r \in R : RowLevel(r) <= level}
<1> HIDE DEF cats, seen
<1>2. [r \in seen |-> [figures    |-> RowFigures(a, totals, shown, lines, r),
                       categories |-> cats(r)]]
      = [r \in seen |-> [figures    |-> RowFigures(b, totals, shown, lines, r),
                         categories |-> cats(r)]]
  BY <1>1
<1> QED BY <1>2, Zenon DEF TemplateLines, cats, seen

\* They are rendered as the same lines and the same template.
LEMMA SameRendering ==
  ASSUME NEW a, NEW b, NEW filter, SameFor(a, b, Shown(a, filter)),
         Shown(a, filter) = Shown(b, filter), NEW R, NEW M, NEW level
  PROVE  /\ Render(a, R, M, filter, level).lines = Render(b, R, M, filter, level).lines
         /\ Render(a, R, M, filter, level).template = Render(b, R, M, filter, level).template
<1> DEFINE codes     == CodesOf(R)
           rowOf     == RowOf(R, codes)
           shown     == Shown(a, filter)
           lines     == Lines(a, shown)
           totalsA   == [p \in shown |-> Rollup(R, Direct(a, R, rowOf, p))]
           totalsB   == [p \in shown |-> Rollup(R, Direct(b, R, rowOf, p))]
           revenueA  == [p \in shown |-> Revenue(a, p)]
           revenueB  == [p \in shown |-> Revenue(b, p)]
<1>1. totalsA = totalsB /\ revenueA = revenueB
  <2>1. \A p \in shown : /\ Direct(a, R, rowOf, p) = Direct(b, R, rowOf, p)
                         /\ Revenue(a, p) = Revenue(b, p)
    BY SameAmounts
  <2> HIDE DEF rowOf, shown
  <2> QED BY <2>1
<1>2. Lines(b, shown) = lines
  BY SameLines
<1>3. TemplateLines(a, R, rowOf, totalsA, shown, lines, level)
        = TemplateLines(b, R, rowOf, totalsB, shown, lines, level)
  <2> HIDE DEF rowOf, shown, lines
  <2>1. TemplateLines(a, R, rowOf, totalsA, shown, lines, level)
          = TemplateLines(b, R, rowOf, totalsA, shown, lines, level)
    BY SameTemplate DEF shown
  <2> HIDE DEF totalsA, totalsB
  <2> QED BY <1>1, <2>1, Zenon
<1> DEFINE amounts(totals) == [p \in shown |-> LineAmounts(totals[p], R, lines, p)]
           linesOf(totals, revenue) ==
             Visible(WithMetrics(lines, M, amounts(totals), revenue, shown), M, level)
<1>4. /\ Render(a, R, M, filter, level).lines = linesOf(totalsA, revenueA)
      /\ Render(a, R, M, filter, level).template
           = TemplateLines(a, R, rowOf, totalsA, shown, lines, level)
  BY Zenon DEF Render
<1>5. /\ Render(b, R, M, filter, level).lines = linesOf(totalsB, revenueB)
      /\ Render(b, R, M, filter, level).template
           = TemplateLines(b, R, rowOf, totalsB, shown, lines, level)
  <2> DEFINE S == Shown(b, filter)
             L == Lines(b, S)
             T == [p \in S |-> Rollup(R, Direct(b, R, rowOf, p))]
  <2>1. /\ Render(b, R, M, filter, level).lines =
             Visible(WithMetrics(L, M, [p \in S |-> LineAmounts(T[p], R, L, p)],
                                 [p \in S |-> Revenue(b, p)], S), M, level)
        /\ Render(b, R, M, filter, level).template
             = TemplateLines(b, R, rowOf, T, S, L, level)
    BY Zenon DEF Render
  <2>2. S = shown
    OBVIOUS
  <2>3. L = lines
    BY <1>2, <2>2
  <2> HIDE DEF S, L
  <2> QED BY <2>1, <2>2, <2>3
<1> HIDE DEF linesOf, totalsA, totalsB, revenueA, revenueB, rowOf, shown, lines
<1> QED BY <1>1, <1>3, <1>4, <1>5, Zenon

\* The amounts by category are listed by project and category.
KeysOf(P, projects, codes) == {<<p.pid, p.cid>> : p \in {p \in P : Kept(p, projects, codes)}}

LEMMA CatsListed ==
  ASSUME NEW P, NEW projects, NEW codes
  PROVE  DOMAIN Aggregates(P, projects, codes).cats = KeysOf(P, projects, codes)
<1> DEFINE keptParts == {p \in P : Kept(p, projects, codes)}
           key == [p \in keptParts |-> <<p.pid, p.cid>>]
           cats == Aggregates(P, projects, codes).cats
<1>1. cats = Tally(key, [p \in keptParts |-> Signed(p)])
  BY Zenon DEF Aggregates
<1>2. Range(key) = KeysOf(P, projects, codes)
  BY DEF Range, KeysOf
<1> HIDE DEF key, cats
<1>3. DOMAIN cats = Range(key)
  BY <1>1 DEF Tally
<1> QED BY <1>2, <1>3 DEF cats

LEMMA KeysArePairs ==
  ASSUME NEW P, NEW projects, NEW codes, NEW k \in KeysOf(P, projects, codes)
  PROVE  k = <<k[1], k[2]>> /\ k[1] \in projects
BY DEF KeysOf, Kept

ByPairs(cats) == \A k \in DOMAIN cats : k = <<k[1], k[2]>> /\ cats[k] = Got(cats, <<k[1], k[2]>>)

LEMMA CatsByPairs ==
  ASSUME NEW P, NEW projects, NEW codes
  PROVE  ByPairs(Aggregates(P, projects, codes).cats)
<1> DEFINE cats == Aggregates(P, projects, codes).cats
<1>1. \A k \in DOMAIN cats : k = <<k[1], k[2]>>
  BY CatsListed, KeysArePairs
<1> HIDE DEF cats
<1>2. ASSUME NEW k \in DOMAIN cats
      PROVE  cats[k] = Got(cats, <<k[1], k[2]>>)
  <2>1. cats[k] = Got(cats, k)
    BY DEF Got
  <2>2. k = <<k[1], k[2]>>
    BY <1>1
  <2>3. Got(cats, k) = Got(cats, <<k[1], k[2]>>)
    BY <2>2, Zenon
  <2> QED BY <2>1, <2>3, Zenon
<1> QED BY <1>1, <1>2 DEF ByPairs, cats

\* What a snapshot over all projects gives for a filter is what the parts give.
LEMMA AggregatesOfFilter ==
  ASSUME NEW P, IsFiniteSet(P), NEW filter \in Filters, NEW codes
  PROVE  LET a == Aggregates(P, Projects, codes)
             b == Aggregates(P, ProjectsAsked(filter), codes)
         IN /\ Shown(a, filter) = Shown(b, filter)
            /\ SameFor(a, b, Shown(a, filter))
            /\ \A k : (k \in DOMAIN a.cats /\ k[1] \in ProjectsAsked(filter)) <=> k \in DOMAIN b.cats
            /\ SameFor(a, b, ProjectsAsked(filter))
<1> DEFINE a == Aggregates(P, Projects, codes)
           b == Aggregates(P, ProjectsAsked(filter), codes)
<1>1. CASE filter = {}
  <2>1. ProjectsAsked(filter) = Projects
    BY <1>1 DEF ProjectsAsked
  <2>2. a = b
    BY <2>1
  <2>3. \A k : k \in DOMAIN a.cats => k[1] \in Projects
    BY CatsListed, KeysArePairs
  <2> HIDE DEF a, b
  <2> QED BY <2>1, <2>2, <2>3 DEF a, b, SameFor
<1>2. CASE filter # {}
  <2>1. ProjectsAsked(filter) = filter /\ filter \subseteq Projects
    BY <1>2, PnlFiguresAssumption DEF ProjectsAsked
  <2>2. Shown(a, filter) = filter /\ Shown(b, filter) = filter
    <3> HIDE DEF a, b
    <3> QED BY <1>2, <2>1 DEF Shown
  <2>3. ASSUME NEW pid \in filter
        PROVE  /\ \A code : Got(a.codes, <<pid, code>>) = Got(b.codes, <<pid, code>>)
               /\ \A cid : Got(a.cats, <<pid, cid>>) = Got(b.cats, <<pid, cid>>)
               /\ \A ch : Got(a.channels, <<pid, ch>>) = Got(b.channels, <<pid, ch>>)
    <3>1. pid \in Projects /\ pid \in ProjectsAsked(filter)
      BY <2>1
    <3> QED BY <3>1, GotAggregates
  <2>4. \A k : (k \in DOMAIN a.cats /\ k[1] \in filter) <=> k \in DOMAIN b.cats
    <3>1. \A p \in P : (Kept(p, Projects, codes) /\ p.pid \in filter)
                          <=> Kept(p, ProjectsAsked(filter), codes)
      BY <2>1 DEF Kept
    <3>2. DOMAIN a.cats = KeysOf(P, Projects, codes)
      BY CatsListed
    <3>3. DOMAIN b.cats = KeysOf(P, ProjectsAsked(filter), codes)
      BY CatsListed
    <3>4. \A k : (k \in KeysOf(P, Projects, codes) /\ k[1] \in filter)
                   <=> k \in KeysOf(P, ProjectsAsked(filter), codes)
      <4> HIDE DEF a, b
      <4> QED BY <3>1 DEF KeysOf
    <3> HIDE DEF a, b
    <3> QED BY <3>2, <3>3, <3>4
  <2>5. SameFor(a, b, filter)
    <3> HIDE DEF a, b
    <3> QED BY <2>3 DEF SameFor
  <2> HIDE DEF a, b
  <2> QED BY <2>1, <2>2, <2>4, <2>5, Zenon DEF a, b
<1> QED BY <1>1, <1>2

\* The snapshot and the parts are rendered as the same answer.
LEMMA SnapshotAnswersAsParts ==
  ASSUME NEW P, IsFiniteSet(P), NEW filter \in Filters, NEW R, NEW M, NEW level
  PROVE  SameAnswer(Render(Aggregates(P, Projects, CodesOf(R)), R, M, filter, level),
                    BuildPnl(P, R, M, filter, level), filter)
<1> DEFINE codes == CodesOf(R)
           a == Aggregates(P, Projects, codes)
           b == Aggregates(P, ProjectsAsked(filter), codes)
           asked == ProjectsAsked(filter)
           ra == Render(a, R, M, filter, level)
           rb == Render(b, R, M, filter, level)
           OnlyAsked(f) == [k \in {k \in DOMAIN f : k[1] \in asked} |-> f[k]]
           ca == CategoryBreakdown(a, M, codes, level)
           cb == CategoryBreakdown(b, M, codes, level)
<1>1. /\ Shown(a, filter) = Shown(b, filter)
      /\ SameFor(a, b, Shown(a, filter))
      /\ \A k : (k \in DOMAIN a.cats /\ k[1] \in asked) <=> k \in DOMAIN b.cats
      /\ SameFor(a, b, asked)
  <2> HIDE DEF codes
  <2> QED BY AggregatesOfFilter
<1>2. ByPairs(a.cats) /\ ByPairs(b.cats)
  BY CatsByPairs
<1>4. ra.categories = ca /\ rb.categories = cb
  BY Zenon DEF Render
<1> HIDE DEF codes, a, b, asked
<1>5. ra.lines = rb.lines /\ ra.template = rb.template
  BY <1>1, SameRendering
<1>6. \A k \in DOMAIN b.cats : a.cats[k] = b.cats[k] /\ Revenue(a, k[1]) = Revenue(b, k[1])
  <2> TAKE k \in DOMAIN b.cats
  <2>1. k \in DOMAIN a.cats /\ k[1] \in asked
    BY <1>1
  <2>2. Got(a.cats, <<k[1], k[2]>>) = Got(b.cats, <<k[1], k[2]>>)
    BY <1>1, <2>1 DEF SameFor
  <2>3. Revenue(a, k[1]) = Revenue(b, k[1])
    BY <1>1, <2>1, SameAmounts
  <2>4. a.cats[k] = Got(a.cats, <<k[1], k[2]>>) /\ b.cats[k] = Got(b.cats, <<k[1], k[2]>>)
    BY <1>2, <2>1, Zenon DEF ByPairs
  <2> QED BY <2>2, <2>3, <2>4, Zenon
<1>7. OnlyAsked(ca) = OnlyAsked(cb)
  <2> DEFINE Seen(k) == LevelOf(M, codes[k[2]]) <= level
  <2>1. /\ DOMAIN ca = {k \in DOMAIN a.cats : Seen(k)}
        /\ DOMAIN cb = {k \in DOMAIN b.cats : Seen(k)}
        /\ \A k \in DOMAIN ca : ca[k] = Figure(a.cats[k], Revenue(a, k[1]))
        /\ \A k \in DOMAIN cb : cb[k] = Figure(b.cats[k], Revenue(b, k[1]))
    BY DEF CategoryBreakdown
  <2> HIDE DEF ca, cb, Seen
  <2>2. {k \in DOMAIN ca : k[1] \in asked} = {k \in DOMAIN cb : k[1] \in asked}
    BY <1>1, <2>1
  <2>3. \A k \in DOMAIN cb : k \in DOMAIN b.cats /\ k \in DOMAIN ca
    BY <1>1, <2>1
  <2>4. \A k \in DOMAIN cb : ca[k] = cb[k]
    <3> TAKE k \in DOMAIN cb
    <3>1. a.cats[k] = b.cats[k] /\ Revenue(a, k[1]) = Revenue(b, k[1])
      BY <1>6, <2>3
    <3>2. Figure(a.cats[k], Revenue(a, k[1])) = Figure(b.cats[k], Revenue(b, k[1]))
      BY <3>1, Zenon
    <3> QED BY <2>1, <2>3, <3>2, Zenon
  <2> QED BY <2>2, <2>4
<1> HIDE DEF ra, rb, ca, cb
<1>8. SameAnswer(ra, rb, filter)
  <2>1. OnlyAsked(ra.categories) = OnlyAsked(rb.categories)
    BY <1>4, <1>7, Zenon
  <2> QED BY <1>5, <2>1, Zenon DEF SameAnswer, asked
<1> QED BY <1>8, Zenon DEF BuildPnl, ra, rb, a, b, codes

-----------------------------------------------------------------------------
\* What is kept of a frozen month are the aggregates of its parts.
SnapshotIsOfParts ==
    /\ parts \subseteq Parts /\ IsFiniteSet(parts)
    /\ snapshot # <<>> => snapshot.agg = Aggregates(parts, Projects, snapshot.codes)

LEMMA SnapshotStart == FiguresInit => SnapshotIsOfParts
BY FS_EmptySet DEF FiguresInit, SnapshotIsOfParts

LEMMA SnapshotStep == SnapshotIsOfParts /\ [FiguresNext]_figuresVars => SnapshotIsOfParts'
<1> SUFFICES ASSUME SnapshotIsOfParts, [FiguresNext]_figuresVars PROVE SnapshotIsOfParts'
  OBVIOUS
<1>1. CASE UNCHANGED <<parts, snapshot>>
  BY <1>1 DEF SnapshotIsOfParts
<1>2. ASSUME NEW p \in Parts \ parts, EnterPart(p)
      PROVE  SnapshotIsOfParts'
  <2>1. parts' = parts \union {p} /\ snapshot = <<>> /\ snapshot' = snapshot
    BY <1>2 DEF EnterPart
  <2>2. IsFiniteSet(parts \union {p})
    BY FS_AddElement DEF SnapshotIsOfParts
  <2> QED BY <2>1, <2>2 DEF SnapshotIsOfParts
<1>3. ASSUME NEW filter \in Filters, FreezeMonth(filter)
      PROVE  SnapshotIsOfParts'
  <2>1. /\ parts' = parts
        /\ snapshot' = [agg   |-> Aggregates(parts, Projects, CodesOf(rows)),
                        codes |-> CodesOf(rows)]
    BY <1>3 DEF FreezeMonth, SnapshotProjects
  <2>2. snapshot'.agg = Aggregates(parts', Projects, snapshot'.codes)
    BY <2>1
  <2> QED BY <2>1, <2>2 DEF SnapshotIsOfParts
<1> QED BY <1>1, <1>2, <1>3 DEF FiguresNext, figuresVars

LEMMA SnapshotOfParts == FiguresSpec => []SnapshotIsOfParts
BY SnapshotStart, SnapshotStep, PTL DEF FiguresSpec

THEOREM SnapshotIsAsGoodAsParts == FiguresSpec => []SnapshotRendersAsRaw
<1>1. SnapshotIsOfParts => SnapshotRendersAsRaw
  <2> SUFFICES ASSUME SnapshotIsOfParts, CodesUnchanged,
                      NEW filter \in Filters, NEW level \in Levels
               PROVE  SameAnswer(Render(snapshot.agg, rows, metrics, filter, level),
                                 BuildPnl(parts, rows, metrics, filter, level), filter)
    BY Zenon DEF SnapshotRendersAsRaw, SnapshotAnswers
  <2>1. IsFiniteSet(parts) /\ snapshot.agg = Aggregates(parts, Projects, CodesOf(rows))
    BY Zenon DEF SnapshotIsOfParts, CodesUnchanged
  <2>2. SameAnswer(Render(Aggregates(parts, Projects, CodesOf(rows)), rows, metrics, filter, level),
                   BuildPnl(parts, rows, metrics, filter, level), filter)
    BY <2>1, SnapshotAnswersAsParts
  <2> QED BY <2>1, <2>2, Zenon
<1> QED BY <1>1, SnapshotOfParts, PTL

THEOREM RetainedIsTheFlow == FiguresSpec => []ProfitIsTheFlow
<1>1. SnapshotIsOfParts => ProfitIsTheFlow
  BY ProfitFlows DEF SnapshotIsOfParts
<1> QED BY <1>1, SnapshotOfParts, PTL

-----------------------------------------------------------------------------
(* The history of revenue reads as the reports. *)

\* The image of a finite set is finite.
LEMMA RangeIsFinite ==
  ASSUME NEW key, IsFiniteSet(DOMAIN key), key = [x \in DOMAIN key |-> key[x]]
  PROVE  IsFiniteSet(Range(key))
<1>1. key \in Surjection(DOMAIN key, Range(key))
  BY DEF Surjection, Range
<1> QED BY <1>1, FS_Surjection

\* The sum of a tally over some of its keys is the sum over what has them.
LEMMA SumOfTally ==
  ASSUME NEW key, IsFiniteSet(DOMAIN key), key = [x \in DOMAIN key |-> key[x]],
         NEW amount, \A x \in DOMAIN key : amount[x] \in Int,
         NEW K \in SUBSET DOMAIN Tally(key, amount)
  PROVE  SumFunctionOnSet(Tally(key, amount), K)
           = SumFunctionOnSet(amount, {x \in DOMAIN key : key[x] \in K})
<1> DEFINE S == {x \in DOMAIN key : key[x] \in K}
           tally == Tally(key, amount)
<1>1. IsFiniteSet(S) /\ \A x \in S : key[x] \in K /\ amount[x] \in Int
  BY FS_Subset
<1>2. IsFiniteSet(K) /\ K \subseteq Range(key)
  <2>1. K \subseteq Range(key)
    BY DEF Tally
  <2> QED BY <2>1, RangeIsFinite, FS_Subset
<1>3. \A k \in K : tally[k] = SumFunctionOnSet(amount, WithKey(S, key, k))
  <2> TAKE k \in K
  <2>1. {x \in DOMAIN key : key[x] = k} = WithKey(S, key, k)
    BY DEF WithKey
  <2>2. tally[k] = SumFunctionOnSet(amount, {x \in DOMAIN key : key[x] = k})
    BY <1>2 DEF Tally
  <2> HIDE DEF S
  <2> QED BY <2>1, <2>2, Zenon
<1> HIDE DEF S, tally
<1>4. SumFunctionOnSet(tally, K) = SumFunctionOnSet(amount, S)
  BY <1>1, <1>2, <1>3, SumByKey
<1> QED BY <1>4 DEF S, tally

\* The same parts have the same signed amounts, whatever other parts are signed.
LEMMA SumOfSigned ==
  ASSUME NEW P, IsFiniteSet(P), NEW S \in SUBSET P
  PROVE  SumFunctionOnSet(SignedParts(P), S) = SumFunction(SignedParts(S))
<1>1. IsFiniteSet(S) /\ DOMAIN SignedParts(S) = S
  BY FS_Subset DEF SignedParts
<1>2. \A x \in S : SignedParts(P)[x] = SignedParts(S)[x]
  BY DEF SignedParts
<1>3. SumFunctionOnSet(SignedParts(P), S) = SumFunctionOnSet(SignedParts(S), S)
  BY <1>1, <1>2, SumOfEquals
<1> QED BY <1>1, <1>3, Zenon DEF SumFunction

\* What the history of some parts has of a project: a sum over its channels.
OfProject(earned, pid) == {k \in DOMAIN earned : k[1] = pid}
ByChannel(P) == Tally([p \in P |-> <<p.pid, Channel(p.cid)>>], SignedParts(P))

LEMMA ChannelsAddUp ==
  ASSUME NEW P, IsFiniteSet(P), \A p \in P : p.value \in Int, NEW pid
  PROVE  SumFunctionOnSet(ByChannel(P), OfProject(ByChannel(P), pid))
           = SumFunction(SignedParts({p \in P : p.pid = pid}))
<1> DEFINE key == [p \in P |-> <<p.pid, Channel(p.cid)>>]
           earned == ByChannel(P)
           K == OfProject(earned, pid)
           S == {p \in P : p.pid = pid}
<1>1. IsFiniteSet(DOMAIN key) /\ key = [x \in DOMAIN key |-> key[x]] /\ DOMAIN key = P
  OBVIOUS
<1>2. \A x \in P : SignedParts(P)[x] \in Int
  BY SignedIsInteger DEF SignedParts
<1>3. {x \in P : key[x] \in K} = S
  <2>1. DOMAIN earned = Range(key)
    BY DEF ByChannel, Tally
  <2>2. \A x \in P : key[x] \in Range(key) /\ key[x][1] = x.pid
    BY DEF Range
  <2> HIDE DEF key, earned
  <2> QED BY <2>1, <2>2 DEF OfProject
<1>4. earned = Tally(key, SignedParts(P)) /\ K \in SUBSET DOMAIN earned
  BY DEF ByChannel, OfProject
<1> HIDE DEF key, earned, K
<1>5. SumFunctionOnSet(earned, K) = SumFunctionOnSet(SignedParts(P), {x \in DOMAIN key : key[x] \in K})
  BY <1>1, <1>2, <1>4, SumOfTally
<1>6. {x \in DOMAIN key : key[x] \in K} = S
  BY <1>1, <1>3
<1>7. SumFunctionOnSet(SignedParts(P), S) = SumFunction(SignedParts(S))
  BY SumOfSigned
<1> HIDE DEF S
<1>8. SumFunctionOnSet(earned, K) = SumFunction(SignedParts(S))
  BY <1>5, <1>6, <1>7, Zenon
<1> QED BY <1>8 DEF earned, K, S

\* The revenue of a project in an answer with a filter.
RevenueIn(P, pid, filter, codes) ==
  IF pid \in ProjectsAsked(filter)
  THEN SumFunction(SignedParts(CodedParts(P, pid, "REVENUE", codes))) ELSE 0

LEMMA RevenueInReport ==
  ASSUME NEW P, IsFiniteSet(P), NEW pid, NEW filter, NEW codes
  PROVE  AmountOf(Aggregates(P, ProjectsAsked(filter), codes), pid, "REVENUE")
           = RevenueIn(P, pid, filter, codes)
<1> DEFINE agg == Aggregates(P, ProjectsAsked(filter), codes)
<1>1. Got(agg.codes, <<pid, "REVENUE">>) = RevenueIn(P, pid, filter, codes)
  BY GotAggregates DEF RevenueIn
<1> HIDE DEF agg
<1>2. OwnAmounts(agg, pid)["REVENUE"] = Got(agg.codes, <<pid, "REVENUE">>)
  BY DEF OwnAmounts, OwnCodes
<1>3. AmountOf(agg, pid, "REVENUE") = OwnAmounts(agg, pid)["REVENUE"]
  BY DEF AmountOf
<1> QED BY <1>1, <1>2, <1>3, Zenon DEF agg

\* Before the month is frozen the history is of the parts.
LEMMA HistoryBefore ==
  ASSUME NEW P, IsFiniteSet(P), \A p \in P : p.value \in Int,
         \A p \in P : p.committed /\ p.pid \in Projects \union {"none"},
         NEW codes, \A c \in DOMAIN Categories : Categories[c].op = "Capital" => codes[c] # "REVENUE",
         NEW filter \in Filters, NEW pid \in Projects
  PROVE  LET earned == HistoryOfParts(P, codes, filter)
         IN SumFunctionOnSet(earned, OfProject(earned, pid)) = RevenueIn(P, pid, filter, codes)
<1> DEFINE counted == {p \in P : /\ p.op \in {"Income", "Outcome"}
                                 /\ p.date = "in"
                                 /\ p.pid # "none" /\ (filter # {} => p.pid \in filter)
                                 /\ p.cid \in DOMAIN Categories
                                 /\ Categories[p.cid].op \in {"Income", "Outcome"}
                                 /\ codes[p.cid] = "REVENUE"}
           earned == HistoryOfParts(P, codes, filter)
           S == {p \in counted : p.pid = pid}
<1>1. earned = ByChannel(counted)
  BY Zenon DEF HistoryOfParts, ByChannel, SignedParts
<1>2. IsFiniteSet(counted) /\ \A p \in counted : p.value \in Int
  BY FS_Subset
<1>3. pid # "none"
  BY PnlFiguresAssumption
<1>4. filter = {} \/ pid \in filter => S = CodedParts(P, pid, "REVENUE", codes)
  <2> SUFFICES ASSUME filter = {} \/ pid \in filter
               PROVE  S = CodedParts(P, pid, "REVENUE", codes)
    OBVIOUS
  <2>1. \A p \in P : p \in S <=> p \in CodedParts(P, pid, "REVENUE", codes)
    BY <1>3 DEF CodedParts, Kept
  <2> QED BY <2>1 DEF CodedParts
<1>5. ~ (filter = {} \/ pid \in filter) => S = {}
  OBVIOUS
<1>6. pid \in ProjectsAsked(filter) <=> (filter = {} \/ pid \in filter)
  BY DEF ProjectsAsked
<1>7. SumFunction(SignedParts({})) = 0
  BY SumOfNone DEF SumFunction, SignedParts
<1> HIDE DEF counted
<1>8. SumFunctionOnSet(ByChannel(counted), OfProject(ByChannel(counted), pid))
        = SumFunction(SignedParts(S))
  BY <1>2, ChannelsAddUp
<1> HIDE DEF S, earned
<1>9. SumFunctionOnSet(earned, OfProject(earned, pid)) = SumFunction(SignedParts(S))
  BY <1>1, <1>8, Zenon
<1>10. SumFunction(SignedParts(S)) = RevenueIn(P, pid, filter, codes)
  BY <1>4, <1>5, <1>6, <1>7, Zenon DEF RevenueIn
<1> QED BY <1>9, <1>10 DEF earned

\* The channels of aggregates are those of the parts of the revenue.
RevenueParts(P, projects, codes) ==
  {p \in P : Kept(p, projects, codes) /\ codes[p.cid] # "none" /\ codes[p.cid] = "REVENUE"}

LEMMA ChannelsOfAggregates ==
  ASSUME NEW P, IsFiniteSet(P), NEW projects, NEW codes
  PROVE  Aggregates(P, projects, codes).channels = ByChannel(RevenueParts(P, projects, codes))
<1> DEFINE keptParts    == {p \in P : Kept(p, projects, codes)}
           coded   == {p \in keptParts : codes[p.cid] # "none"}
           revenue == {p \in coded : codes[p.cid] = "REVENUE"}
           signed  == [p \in keptParts |-> Signed(p)]
           key     == [p \in revenue |-> <<p.pid, Channel(p.cid)>>]
           With(k) == {x \in DOMAIN key : key[x] = k}
<1>1. Aggregates(P, projects, codes).channels = Tally(key, signed)
  BY Zenon DEF Aggregates
<1>2. revenue = RevenueParts(P, projects, codes)
  BY DEF RevenueParts
<1>3. \A k : SumFunctionOnSet(signed, With(k)) = SumFunctionOnSet(SignedParts(revenue), With(k))
  <2> TAKE k
  <2>1. IsFiniteSet(With(k))
    <3>1. With(k) \subseteq P
      OBVIOUS
    <3> QED BY <3>1, FS_Subset
  <2>2. \A x \in With(k) : signed[x] = SignedParts(revenue)[x]
    BY DEF SignedParts
  <2> HIDE DEF signed, With
  <2> QED BY <2>1, <2>2, SumOfEquals
<1>4. Tally(key, signed) = Tally(key, SignedParts(revenue))
  <2> HIDE DEF key, signed
  <2>1. [k \in Range(key) |-> SumFunctionOnSet(signed, With(k))]
          = [k \in Range(key) |-> SumFunctionOnSet(SignedParts(revenue), With(k))]
    <3> HIDE DEF With, revenue
    <3> QED BY <1>3
  <2> QED BY <2>1, Zenon DEF Tally
<1>5. ByChannel(revenue) = Tally(key, SignedParts(revenue))
  BY DEF ByChannel
<1> HIDE DEF key, signed, revenue
<1> QED BY <1>1, <1>2, <1>4, <1>5, Zenon

\* After, it is what the snapshot has by channel.
LEMMA HistoryAfter ==
  ASSUME NEW P, IsFiniteSet(P), \A p \in P : p.value \in Int,
         NEW codes, NEW filter \in Filters, NEW pid \in Projects
  PROVE  LET earned == HistoryOfSnapshot(Aggregates(P, Projects, codes), filter)
         IN SumFunctionOnSet(earned, OfProject(earned, pid)) = RevenueIn(P, pid, filter, codes)
<1> DEFINE agg == Aggregates(P, Projects, codes)
           earned == HistoryOfSnapshot(agg, filter)
           revenue == RevenueParts(P, Projects, codes)
           S == {p \in revenue : p.pid = pid}
           all == ByChannel(revenue)
           K == OfProject(all, pid)
<1>1. agg.channels = all
  BY ChannelsOfAggregates
<1>2. IsFiniteSet(revenue) /\ \A p \in revenue : p.value \in Int
  BY FS_Subset DEF RevenueParts
<1>3. S = CodedParts(P, pid, "REVENUE", codes)
  BY DEF RevenueParts, CodedParts, Kept
<1>4. pid \in ProjectsAsked(filter) <=> (filter = {} \/ pid \in filter)
  BY DEF ProjectsAsked
<1>5. SumFunctionOnSet(all, K) = SumFunction(SignedParts(S))
  <2> HIDE DEF revenue
  <2> QED BY <1>2, ChannelsAddUp
<1>6. IsFiniteSet(K)
  <2> DEFINE key == [p \in revenue |-> <<p.pid, Channel(p.cid)>>]
  <2>1. IsFiniteSet(DOMAIN key) /\ key = [x \in DOMAIN key |-> key[x]]
    BY <1>2
  <2> HIDE DEF key
  <2>2. IsFiniteSet(Range(key))
    BY <2>1, RangeIsFinite
  <2>3. K \subseteq Range(key)
    BY DEF OfProject, ByChannel, Tally, key
  <2> QED BY <2>2, <2>3, FS_Subset
<1>7. earned = [k \in {k \in DOMAIN all : filter # {} => k[1] \in filter} |-> all[k]]
  <2> HIDE DEF agg, all
  <2> QED BY <1>1, Zenon DEF HistoryOfSnapshot
<1> HIDE DEF agg, earned, revenue, S, all
<1>8. CASE filter = {} \/ pid \in filter
  <2>1. OfProject(earned, pid) = K /\ \A k \in K : earned[k] = all[k]
    BY <1>7, <1>8 DEF OfProject
  <2>2. SumFunctionOnSet(earned, K) = SumFunctionOnSet(all, K)
    BY <1>6, <2>1, SumOfEquals
  <2>3. SumFunctionOnSet(earned, OfProject(earned, pid)) = SumFunction(SignedParts(S))
    BY <1>5, <2>1, <2>2, Zenon
  <2>4. RevenueIn(P, pid, filter, codes) = SumFunction(SignedParts(S))
    BY <1>3, <1>4, <1>8, Zenon DEF RevenueIn
  <2> QED BY <2>3, <2>4, Zenon DEF earned, agg
<1>9. CASE ~ (filter = {} \/ pid \in filter)
  <2>1. OfProject(earned, pid) = {}
    BY <1>7, <1>9 DEF OfProject
  <2>2. SumFunctionOnSet(earned, OfProject(earned, pid)) = 0
    BY <2>1, SumOfNone, Zenon
  <2>3. RevenueIn(P, pid, filter, codes) = 0
    BY <1>4, <1>9 DEF RevenueIn
  <2> QED BY <2>2, <2>3 DEF earned, agg
<1> QED BY <1>8, <1>9

THEOREM HistoryIsOfReports == FiguresSpec => []HistoryAgreesWithReport
<1>1. SnapshotIsOfParts => HistoryAgreesWithReport
  <2> SUFFICES ASSUME SnapshotIsOfParts,
                      \A p \in parts : p.committed /\ p.pid \in Projects \union {"none"},
                      \A c \in DOMAIN Categories :
                         Categories[c].op = "Capital" => CodesOf(rows)[c] # "REVENUE",
                      snapshot # <<>> => CodesUnchanged,
                      NEW filter \in Filters, NEW pid \in Projects
               PROVE  SumFunctionOnSet(RevenueHistory(filter), OfProject(RevenueHistory(filter), pid))
                        = AmountOf(Aggregates(parts, ProjectsAsked(filter), CodesOf(rows)),
                                   pid, "REVENUE")
    BY Zenon DEF HistoryAgreesWithReport, OfProject
  <2> DEFINE codes == CodesOf(rows)
             earned == RevenueHistory(filter)
  <2>1. IsFiniteSet(parts) /\ \A p \in parts : p.value \in Int
    BY PnlFiguresAssumption DEF SnapshotIsOfParts
  <2>2. SumFunctionOnSet(earned, OfProject(earned, pid)) = RevenueIn(parts, pid, filter, codes)
    <3>1. CASE snapshot = <<>>
      <4>1. earned = HistoryOfParts(parts, codes, filter)
        BY <3>1, Zenon DEF RevenueHistory
      <4> HIDE DEF earned, codes
      <4>2. \A c \in DOMAIN Categories : Categories[c].op = "Capital" => codes[c] # "REVENUE"
        BY DEF codes
      <4> QED BY <2>1, <4>1, <4>2, HistoryBefore
    <3>2. CASE snapshot # <<>>
      <4>1. snapshot.agg = Aggregates(parts, Projects, codes)
        BY <3>2, Zenon DEF SnapshotIsOfParts, CodesUnchanged
      <4>2. earned = HistoryOfSnapshot(Aggregates(parts, Projects, codes), filter)
        BY <3>2, <4>1, Zenon DEF RevenueHistory
      <4> HIDE DEF earned, codes
      <4> QED BY <2>1, <4>2, HistoryAfter
    <3> QED BY <3>1, <3>2
  <2> QED BY <2>1, <2>2, RevenueInReport, Zenon
<1> QED BY <1>1, SnapshotOfParts, PTL

-----------------------------------------------------------------------------
(* The report v2 against the operations. *)

LEMMA PrefixIs ==
  ASSUME NEW T, NEW s \in Seq(T), NEW t \in Seq(T)
  PROVE  IsPrefix(s, t) <=> /\ Len(s) <= Len(t)
                            /\ \A i \in 1..Len(s) : s[i] = t[i]
<1>1. SubSeq(s, 1, Len(s)) = s
  BY SubSeqFull
<1> SUFFICES ASSUME Len(s) <= Len(t)
             PROVE  SubSeq(t, 1, Len(s)) = s <=> \A i \in 1..Len(s) : s[i] = t[i]
  BY <1>1 DEF IsPrefix
<1>2. \A i \in 1..Len(s) : t[i] \in T
  OBVIOUS
<1>3. /\ SubSeq(t, 1, Len(s)) \in Seq(T) /\ Len(SubSeq(t, 1, Len(s))) = Len(s)
      /\ \A i \in 1..Len(s) : SubSeq(t, 1, Len(s))[i] = t[i]
  BY <1>2, SubSeqProperties
<1> QED BY <1>3, SeqEqual

LEMMA FrontIs ==
  ASSUME NEW T, NEW s \in Seq(T), s # <<>>, NEW t \in Seq(T)
  PROVE  Front(s) = t <=> /\ Len(s) = Len(t) + 1
                          /\ \A i \in 1..Len(t) : t[i] = s[i]
<1> DEFINE n == Len(s) - 1
<1>1. n \in Nat /\ Len(s) = n + 1 /\ \A i \in 1..n : s[i] \in T
  OBVIOUS
<1>2. /\ SubSeq(s, 1, n) \in Seq(T) /\ Len(SubSeq(s, 1, n)) = n
      /\ \A i \in 1..n : SubSeq(s, 1, n)[i] = s[i]
  BY <1>1, SubSeqProperties
<1>3. Front(s) = SubSeq(s, 1, n)
  BY DEF Front
<1> HIDE DEF n
<1> QED BY <1>1, <1>2, <1>3, SeqEqual

\* The path of a category.
Path(c) == Categories[c].path

LEMMA PathsAreSequences ==
  ASSUME NEW c \in DOMAIN Categories
  PROVE  Path(c) \in Seq(Titles) /\ Path(c) # <<>> /\ Len(Path(c)) \in Nat \ {0}
<1>1. Path(c) \in Seq(Titles) /\ Path(c) # <<>>
  BY PnlFiguresAssumption DEF CategoriesAreATree, Path
<1> QED BY <1>1

\* Of what lies under a category and is not on it, each lies under one child.
Under(c, d) == IsPrefix(Path(c), Path(d))

LEMMA OneChildAbove ==
  ASSUME NEW c \in DOMAIN Categories, NEW d \in DOMAIN Categories, Under(c, d), d # c
  PROVE  \E e \in Children[c] : /\ Under(e, d)
                                /\ \A x \in Children[c] : Under(x, d) => x = e
<1>1. /\ Path(c) \in Seq(Titles) /\ Path(d) \in Seq(Titles)
      /\ Len(Path(c)) \in Nat \ {0} /\ Len(Path(d)) \in Nat
  BY PathsAreSequences
<1>2. Path(c) # Path(d)
  BY PnlFiguresAssumption DEF CategoriesAreATree, Path
<1>3. Len(Path(c)) <= Len(Path(d)) /\ \A i \in 1..Len(Path(c)) : Path(c)[i] = Path(d)[i]
  BY <1>1, PrefixIs DEF Under
<1>4. Len(Path(c)) < Len(Path(d))
  BY <1>1, <1>2, <1>3, SeqEqual
<1> DEFINE n == Len(Path(c)) + 1
<1>5. n \in 1..Len(Path(d)) /\ n \in DOMAIN Path(d) /\ n \in Nat
  BY <1>1, <1>4
<1>6. PICK e \in DOMAIN Categories : Path(e) = SubSeq(Path(d), 1, n)
  BY <1>5, PnlFiguresAssumption DEF CategoriesAreATree, Path
<1>7. Len(Path(e)) = n /\ Path(e) \in Seq(Titles) /\ \A i \in 1..n : Path(e)[i] = Path(d)[i]
  <2>1. \A i \in 1..n : Path(d)[i] \in Titles
    BY <1>1, <1>5
  <2> QED BY <1>5, <1>6, <2>1, SubSeqProperties
<1>8. Under(e, d)
  BY <1>1, <1>4, <1>7, PrefixIs DEF Under
<1>9. Front(Path(e)) = Path(c)
  <2>1. Path(e) # <<>>
    BY PathsAreSequences
  <2> QED BY <1>1, <1>3, <1>7, <2>1, FrontIs
<1>10. e \in Children[c]
  BY <1>9 DEF Children, Path
<1>11. ASSUME NEW x \in Children[c], Under(x, d)
       PROVE  x = e
  <2>1. x \in DOMAIN Categories /\ Front(Path(x)) = Path(c)
    BY DEF Children, Path
  <2>2. Path(x) \in Seq(Titles) /\ Path(x) # <<>>
    BY <2>1, PathsAreSequences
  <2>3. Len(Path(x)) = n
    BY <1>1, <2>1, <2>2, FrontIs
  <2>4. \A i \in 1..n : Path(x)[i] = Path(d)[i]
    BY <1>1, <1>11, <2>2, <2>3, PrefixIs DEF Under
  <2>5. Path(x) = Path(e)
    BY <1>7, <2>2, <2>3, <2>4, SeqEqual
  <2> QED BY <2>1, <2>5, PnlFiguresAssumption DEF CategoriesAreATree, Path
<1> QED BY <1>8, <1>10, <1>11

\* What lies under a child lies under the category and is not on it.
LEMMA UnderChild ==
  ASSUME NEW c \in DOMAIN Categories, NEW e \in Children[c],
         NEW d \in DOMAIN Categories, Under(e, d)
  PROVE  Under(c, d) /\ d # c
<1>1. e \in DOMAIN Categories /\ Front(Path(e)) = Path(c)
  BY DEF Children, Path
<1>2. /\ Path(c) \in Seq(Titles) /\ Path(d) \in Seq(Titles) /\ Path(e) \in Seq(Titles)
      /\ Path(e) # <<>> /\ Len(Path(c)) \in Nat
  BY <1>1, PathsAreSequences
<1>3. Len(Path(e)) = Len(Path(c)) + 1 /\ \A i \in 1..Len(Path(c)) : Path(c)[i] = Path(e)[i]
  BY <1>1, <1>2, FrontIs
<1>4. Len(Path(e)) <= Len(Path(d)) /\ \A i \in 1..Len(Path(e)) : Path(e)[i] = Path(d)[i]
  BY <1>2, PrefixIs DEF Under
<1>5. Len(Path(c)) < Len(Path(d)) /\ \A i \in 1..Len(Path(c)) : Path(c)[i] = Path(d)[i]
  BY <1>2, <1>3, <1>4
<1>6. IsPrefix(Path(c), Path(d))
  BY <1>2, <1>5, PrefixIs
<1>7. d # c
  BY <1>2, <1>5
<1> QED BY <1>6, <1>7 DEF Under

\* The parts PlanFact's report counts.
Counted(P, pid) ==
  {p \in P : /\ p.op \in {"Income", "Outcome"} /\ p.date = "in" /\ p.committed
             /\ p.pid = pid /\ p.cid \in DOMAIN Categories}

\* What the report has on a category itself are the parts of that category.
LEMMA OwnTotalIs ==
  ASSUME NEW P, IsFiniteSet(P), \A p \in P : p.value \in Int, NEW pid,
         NEW c \in DOMAIN Categories
  PROVE  OwnTotal(P, pid, c) = SumFunction(SignedParts({p \in Counted(P, pid) : p.cid = c}))
<1> DEFINE U(x)   == {p \in Counted(P, pid) : Under(x, p.cid)}
           Standing     == {p \in Counted(P, pid) : p.cid = c}
           Below  == U(c) \ Standing
           kids   == Children[c]
           signed == SignedParts(P)
           total  == [x \in kids |-> ReportTotal(P, pid, x)]
           key    == [p \in Below |-> CHOOSE x \in kids : Under(x, p.cid)]
<1>1. IsFiniteSet(Standing) /\ IsFiniteSet(Below) /\ \A x : IsFiniteSet(U(x))
  <2>1. IsFiniteSet(Counted(P, pid))
    BY FS_Subset DEF Counted
  <2> QED BY <2>1, FS_Subset
<1>2. IsFiniteSet(kids) /\ kids \subseteq DOMAIN Categories
  BY FS_Subset, PnlFiguresAssumption DEF Children
<1>3. \A p \in Counted(P, pid) : p \in P /\ p.cid \in DOMAIN Categories
  BY DEF Counted
<1>4. \A p \in P : signed[p] \in Int
  BY SignedIsInteger DEF SignedParts
<1>5. ASSUME NEW x
      PROVE  ReportTotal(P, pid, x) = SumFunctionOnSet(signed, U(x))
  <2>1. U(x) = {p \in P : /\ p.op \in {"Income", "Outcome"} /\ p.date = "in" /\ p.committed
                          /\ p.pid = pid /\ p.cid \in DOMAIN Categories
                          /\ IsPrefix(Categories[x].path, Categories[p.cid].path)}
    BY DEF Counted, Under, Path
  <2>2. ReportTotal(P, pid, x) = SumFunction(SignedParts(U(x)))
    <3> HIDE DEF U
    <3> QED BY <2>1, Zenon DEF ReportTotal, SignedParts
  <2>3. U(x) \in SUBSET P
    BY <1>3
  <2> HIDE DEF U, signed
  <2> QED BY <2>2, <2>3, SumOfSigned DEF signed
<1>6. \A p \in Standing : Under(c, p.cid)
  BY PathsAreSequences, PrefixIs DEF Under
<1>7. U(c) = Standing \cup Below /\ Standing \cap Below = {}
  BY <1>6
<1>8. ASSUME NEW p \in Below
      PROVE  key[p] \in kids /\ \A x \in kids : Under(x, p.cid) <=> key[p] = x
  <2>1. p.cid \in DOMAIN Categories /\ Under(c, p.cid) /\ p.cid # c
    BY <1>3, <1>8
  <2>2. PICK e \in kids : Under(e, p.cid) /\ \A x \in kids : Under(x, p.cid) => x = e
    BY <2>1, OneChildAbove
  <2>3. key[p] = e
    BY <2>2
  <2> HIDE DEF key, kids
  <2> QED BY <2>2, <2>3
<1>9. ASSUME NEW x \in kids
      PROVE  U(x) = WithKey(Below, key, x)
  <2>1. \A p \in U(x) : p \in Below
    <3> TAKE p \in U(x)
    <3>1. p.cid \in DOMAIN Categories /\ Under(x, p.cid)
      BY <1>3
    <3>2. Under(c, p.cid) /\ p.cid # c
      BY <3>1, UnderChild
    <3> QED BY <3>2
  <2>2. \A p \in Below : p \in U(x) <=> key[p] = x
    <3> TAKE p \in Below
    <3>1. Under(x, p.cid) <=> key[p] = x
      BY <1>8
    <3> HIDE DEF key
    <3> QED BY <3>1
  <2> HIDE DEF key, Below, U
  <2> QED BY <2>1, <2>2 DEF WithKey
<1>10. Standing \subseteq P /\ Below \subseteq P
  BY <1>3
<1> HIDE DEF U, Standing, Below, kids, signed, key
<1>11. \A x \in kids : total[x] = SumFunctionOnSet(signed, WithKey(Below, key, x))
  BY <1>5, <1>9
<1> HIDE DEF total
<1>12. SumFunctionOnSet(total, kids) = SumFunctionOnSet(signed, Below)
  BY <1>1, <1>2, <1>4, <1>8, <1>10, <1>11, SumByKey
<1>13. SumFunctionOnSet(signed, Standing \cup Below)
         = SumFunctionOnSet(signed, Standing) + SumFunctionOnSet(signed, Below)
  BY <1>1, <1>4, <1>7, <1>10, SumOfUnion
<1>14. SumFunctionOnSet(signed, Standing) \in Int /\ SumFunctionOnSet(signed, Below) \in Int
  BY <1>1, <1>4, <1>10, SumType
<1>15. OwnTotal(P, pid, c) = ReportTotal(P, pid, c) - SumFunctionOnSet(total, kids)
  <2>1. DOMAIN total = kids
    BY DEF total
  <2> QED BY <2>1, Zenon DEF OwnTotal, SumFunction, total, kids
<1>16. ReportTotal(P, pid, c) = SumFunctionOnSet(signed, Standing) + SumFunctionOnSet(signed, Below)
  BY <1>5, <1>7, <1>13
<1>17. OwnTotal(P, pid, c) = SumFunctionOnSet(signed, Standing)
  BY <1>12, <1>14, <1>15, <1>16
<1>18. SumFunctionOnSet(signed, Standing) = SumFunction(SignedParts(Standing))
  BY <1>10, SumOfSigned DEF signed
<1> QED BY <1>17, <1>18, Zenon DEF Standing

\* The amounts of the entries of the report.
EntryAmounts(P) == [e \in Entries(P) |-> e.own]

\* The entries and the parts of a project under some categories.
EntriesOf(P, pid, C) == {e \in Entries(P) : e.pid = pid /\ e.cid \in C}
CountedIn(P, pid, C) == {p \in Counted(P, pid) : p.cid \in C}

LEMMA EntriesAre ==
  ASSUME NEW P, IsFiniteSet(P), \A p \in P : p.value \in Int
  PROVE  /\ IsFiniteSet(Entries(P))
         /\ \A e \in Entries(P) :
              /\ e.cid \in Reported /\ e.own \in Int /\ e.own = OwnTotal(P, e.pid, e.cid) /\ e.own # 0
              /\ e = [pid |-> e.pid, cid |-> e.cid, own |-> e.own]
         /\ \A pid \in {p.pid : p \in P} \ {"none"}, cid \in Reported :
              OwnTotal(P, pid, cid) # 0
                => [pid |-> pid, cid |-> cid, own |-> OwnTotal(P, pid, cid)] \in Entries(P)
         /\ \A e \in Entries(P) : e.pid \in {p.pid : p \in P}
<1> DEFINE pids == {p.pid : p \in P} \ {"none"}
           pidOf == [p \in P |-> p.pid]
           entry == [x \in pids \X Reported |->
                       [pid |-> x[1], cid |-> x[2], own |-> OwnTotal(P, x[1], x[2])]]
<1>1. IsFiniteSet(pids)
  <2>1. pids \subseteq Range(pidOf)
    BY DEF Range
  <2>2. IsFiniteSet(DOMAIN pidOf) /\ pidOf = [p \in DOMAIN pidOf |-> pidOf[p]]
    OBVIOUS
  <2> HIDE DEF pidOf
  <2>3. IsFiniteSet(Range(pidOf))
    BY <2>2, RangeIsFinite
  <2> HIDE DEF pids
  <2> QED BY <2>1, <2>3, FS_Subset
<1>2. IsFiniteSet(Reported) /\ Reported \subseteq DOMAIN Categories
  BY PnlFiguresAssumption, FS_Subset DEF Reported
<1>3. IsFiniteSet(pids \X Reported)
  BY <1>1, <1>2, FS_Product
<1>4. IsFiniteSet(Range(entry))
  <2>1. IsFiniteSet(DOMAIN entry) /\ entry = [x \in DOMAIN entry |-> entry[x]]
    BY <1>3
  <2> HIDE DEF entry
  <2> QED BY <2>1, RangeIsFinite
<1>5. \A e \in Entries(P) : e \in Range(entry)
  <2> TAKE e \in Entries(P)
  <2>1. PICK pid \in pids, cid \in Reported :
          e = [pid |-> pid, cid |-> cid, own |-> OwnTotal(P, pid, cid)]
    BY DEF Entries
  <2>2. <<pid, cid>> \in DOMAIN entry /\ entry[<<pid, cid>>] = e
    BY <2>1
  <2> HIDE DEF entry
  <2> QED BY <2>2 DEF Range
<1>6. IsFiniteSet(Entries(P))
  BY <1>4, <1>5, FS_Subset
<1>7. ASSUME NEW pid, NEW cid \in Reported
      PROVE  OwnTotal(P, pid, cid) \in Int
  <2> DEFINE S == {p \in Counted(P, pid) : p.cid = cid}
  <2>1. OwnTotal(P, pid, cid) = SumFunction(SignedParts(S))
    BY <1>2, OwnTotalIs
  <2>2. S \subseteq P
    BY DEF Counted
  <2>3. IsFiniteSet(S)
    BY <2>2, FS_Subset
  <2>4. \A p \in S : SignedParts(S)[p] \in Int
    BY <2>2, SignedIsInteger DEF SignedParts
  <2>5. DOMAIN SignedParts(S) = S
    BY DEF SignedParts
  <2> HIDE DEF S
  <2>6. SumFunctionOnSet(SignedParts(S), S) \in Int
    BY <2>3, <2>4, SumType
  <2> QED BY <2>1, <2>5, <2>6, Zenon DEF SumFunction
<1>8. \A e \in Entries(P) :
        /\ e.cid \in Reported /\ e.own = OwnTotal(P, e.pid, e.cid) /\ e.own # 0
        /\ e = [pid |-> e.pid, cid |-> e.cid, own |-> e.own]
        /\ e.pid \in {p.pid : p \in P}
  BY DEF Entries
<1>9. \A pid \in {p.pid : p \in P} \ {"none"}, cid \in Reported :
        OwnTotal(P, pid, cid) # 0
          => [pid |-> pid, cid |-> cid, own |-> OwnTotal(P, pid, cid)] \in Entries(P)
  BY DEF Entries
<1> QED BY <1>6, <1>7, <1>8, <1>9

LEMMA SumOfOne ==
  ASSUME NEW x, NEW f, f[x] \in Int
  PROVE  SumFunctionOnSet(f, {x}) = f[x]
<1>1. /\ IsFiniteSet({x}) /\ \A y \in {x} : f[y] \in Int
      /\ {x} \ {x} = {}
  BY FS_Singleton
<1>2. SumFunctionOnSet(f, {x}) = f[x] + SumFunctionOnSet(f, {x} \ {x})
  BY <1>1, SumInsert
<1> QED BY <1>1, <1>2, SumOfNone

\* The entry of a project and a category, or none, sums to the own total.
LEMMA SumOfEntry ==
  ASSUME NEW P, IsFiniteSet(P), \A p \in P : p.value \in Int,
         NEW pid, pid # "none", NEW cid \in Reported, NEW S,
         S = {e \in Entries(P) : e.pid = pid /\ e.cid = cid}
  PROVE  SumFunctionOnSet(EntryAmounts(P), S) = OwnTotal(P, pid, cid)
<1> DEFINE own == OwnTotal(P, pid, cid)
           entry == [pid |-> pid, cid |-> cid, own |-> own]
<1>1. CASE own = 0
  <2>1. S = {}
    BY <1>1, EntriesAre
  <2> QED BY <1>1, <2>1, SumOfNone
<1>2. CASE own # 0
  <2>1. pid \in {p.pid : p \in P}
    <3> SUFFICES ASSUME pid \notin {p.pid : p \in P}
                 PROVE  FALSE
      OBVIOUS
    <3> DEFINE T == {p \in Counted(P, pid) : p.cid = cid}
    <3>1. T = {}
      BY DEF Counted
    <3>2. cid \in DOMAIN Categories
      BY DEF Reported
    <3>3. own = SumFunction(SignedParts(T))
      BY <3>2, OwnTotalIs
    <3>4. DOMAIN SignedParts(T) = {}
      BY <3>1 DEF SignedParts
    <3> HIDE DEF T, own
    <3>5. SumFunction(SignedParts(T)) = 0
      BY <3>4, SumOfNone, Zenon DEF SumFunction
    <3> QED BY <1>2, <3>3, <3>5
  <2>2. entry \in Entries(P)
    BY <1>2, <2>1, EntriesAre
  <2>3. S = {entry}
    BY <2>2, EntriesAre
  <2>4. EntryAmounts(P)[entry] = own /\ own \in Int
    BY <2>2, EntriesAre DEF EntryAmounts
  <2> HIDE DEF entry, own
  <2>5. SumFunctionOnSet(EntryAmounts(P), {entry}) = EntryAmounts(P)[entry]
    BY <2>4, SumOfOne
  <2> QED BY <2>3, <2>4, <2>5 DEF own
<1> QED BY <1>1, <1>2

\* Under any categories of the report, the entries bring what the parts do.
LEMMA EntriesBringParts ==
  ASSUME NEW P, IsFiniteSet(P), \A p \in P : p.value \in Int,
         NEW pid, pid # "none", NEW C \in SUBSET Reported
  PROVE  SumFunctionOnSet(EntryAmounts(P), EntriesOf(P, pid, C))
           = SumFunction(SignedParts(CountedIn(P, pid, C)))
<1> DEFINE E == EntriesOf(P, pid, C)
           S == CountedIn(P, pid, C)
           own == [c \in C |-> OwnTotal(P, pid, c)]
           keyE == [e \in E |-> e.cid]
           keyS == [p \in S |-> p.cid]
           signed == SignedParts(P)
           amounts == EntryAmounts(P)
<1>1. IsFiniteSet(C) /\ C \subseteq DOMAIN Categories
  BY PnlFiguresAssumption, FS_Subset DEF Reported
<1>2. IsFiniteSet(E) /\ \A e \in E : amounts[e] \in Int /\ keyE[e] \in C
  <2>1. IsFiniteSet(Entries(P)) /\ E \subseteq Entries(P)
    BY EntriesAre DEF EntriesOf
  <2>2. \A e \in E : amounts[e] \in Int /\ keyE[e] \in C
    BY EntriesAre DEF EntriesOf, EntryAmounts
  <2> QED BY <2>1, <2>2, FS_Subset
<1>3. S \in SUBSET P
  BY DEF CountedIn, Counted
<1>4. IsFiniteSet(S) /\ \A p \in S : signed[p] \in Int /\ keyS[p] \in C
  <2>1. \A p \in S : signed[p] \in Int
    BY <1>3, SignedIsInteger DEF SignedParts
  <2>2. \A p \in S : keyS[p] \in C
    BY DEF CountedIn
  <2> QED BY <1>3, <2>1, <2>2, FS_Subset
<1>5. \A c \in C : own[c] = SumFunctionOnSet(amounts, WithKey(E, keyE, c))
  <2> TAKE c \in C
  <2> DEFINE at == WithKey(E, keyE, c)
  <2>1. at = {e \in Entries(P) : e.pid = pid /\ e.cid = c}
    BY DEF WithKey, EntriesOf
  <2>2. c \in Reported /\ own[c] = OwnTotal(P, pid, c)
    OBVIOUS
  <2> HIDE DEF at, own
  <2>3. SumFunctionOnSet(amounts, at) = OwnTotal(P, pid, c)
    BY <2>1, <2>2, SumOfEntry
  <2> QED BY <2>2, <2>3 DEF at
<1>6. \A c \in C : own[c] = SumFunctionOnSet(signed, WithKey(S, keyS, c))
  <2> TAKE c \in C
  <2> DEFINE at == WithKey(S, keyS, c)
             of == {p \in Counted(P, pid) : p.cid = c}
  <2>1. at = of
    BY DEF WithKey, CountedIn
  <2>2. at \in SUBSET P
    BY <1>3 DEF WithKey
  <2>3. c \in DOMAIN Categories /\ own[c] = OwnTotal(P, pid, c)
    BY <1>1
  <2>4. OwnTotal(P, pid, c) = SumFunction(SignedParts(of))
    BY <2>3, OwnTotalIs
  <2> HIDE DEF at, own, of
  <2>5. SumFunctionOnSet(signed, at) = SumFunction(SignedParts(at))
    BY <2>2, SumOfSigned DEF signed
  <2> QED BY <2>1, <2>3, <2>4, <2>5 DEF at
<1> HIDE DEF E, S, own, keyE, keyS, signed, amounts
<1>7. SumFunctionOnSet(own, C) = SumFunctionOnSet(amounts, E)
  BY <1>1, <1>2, <1>5, SumByKey
<1>8. SumFunctionOnSet(own, C) = SumFunctionOnSet(signed, S)
  BY <1>1, <1>4, <1>6, SumByKey
<1>9. SumFunctionOnSet(signed, S) = SumFunction(SignedParts(S))
  BY <1>3, SumOfSigned DEF signed
<1> QED BY <1>7, <1>8, <1>9 DEF E, S, amounts

\* The categories of the report with a code, in a channel, and one of them.
OfCode(codes, code) == {c \in Reported : codes[c] # "none" /\ codes[c] = code}
OfChannel(codes, ch) == {c \in OfCode(codes, "REVENUE") : Channel(c) = ch}
OfCategory(codes, cid) == {c \in Reported : codes[c] # "none" /\ c = cid}

EntryTotal(P, pid, C) == SumFunctionOnSet(EntryAmounts(P), EntriesOf(P, pid, C))

LEMMA GotReport ==
  ASSUME NEW P, NEW codes, NEW pid
  PROVE  /\ \A code : Got(ReportAggregates(P, codes).codes, <<pid, code>>)
                         = EntryTotal(P, pid, OfCode(codes, code))
         /\ \A ch : Got(ReportAggregates(P, codes).channels, <<pid, ch>>)
                       = EntryTotal(P, pid, OfChannel(codes, ch))
         /\ \A cid : codes[cid] # "none" =>
              Got(ReportAggregates(P, codes).cats, <<pid, cid>>)
                = EntryTotal(P, pid, OfCategory(codes, cid))
<1> DEFINE own == Entries(P)
           coded   == {e \in own : codes[e.cid] # "none"}
           revenue == {e \in coded : codes[e.cid] = "REVENUE"}
           amount  == EntryAmounts(P)
           K1 == [e \in own |-> <<e.pid, e.cid>>]
           K2 == [e \in coded |-> <<e.pid, codes[e.cid]>>]
           K3 == [e \in revenue |-> <<e.pid, Channel(e.cid)>>]
           A(cid) == {e \in DOMAIN K1 : K1[e] = <<pid, cid>>}
           B(code) == {e \in DOMAIN K2 : K2[e] = <<pid, code>>}
           C(ch) == {e \in DOMAIN K3 : K3[e] = <<pid, ch>>}
           v2 == ReportAggregates(P, codes)
<1>1. /\ v2.cats = Tally(K1, amount) /\ v2.codes = Tally(K2, amount)
      /\ v2.channels = Tally(K3, amount)
  BY Zenon DEF ReportAggregates, EntryAmounts
<1>2. \A e \in own : e.cid \in Reported
  BY DEF Entries
<1>3. /\ \A cid : codes[cid] # "none" => A(cid) = EntriesOf(P, pid, OfCategory(codes, cid))
      /\ \A code : B(code) = EntriesOf(P, pid, OfCode(codes, code))
      /\ \A ch : C(ch) = EntriesOf(P, pid, OfChannel(codes, ch))
  <2> HIDE DEF own
  <2>1. \A cid : codes[cid] # "none" => A(cid) = EntriesOf(P, pid, OfCategory(codes, cid))
    BY <1>2 DEF EntriesOf, OfCategory, own
  <2>2. \A code : B(code) = EntriesOf(P, pid, OfCode(codes, code))
    BY <1>2 DEF EntriesOf, OfCode, own
  <2>3. \A ch : C(ch) = EntriesOf(P, pid, OfChannel(codes, ch))
    BY <1>2 DEF EntriesOf, OfChannel, OfCode, own
  <2> QED BY <2>1, <2>2, <2>3
<1>4. /\ \A x : Got(v2.cats, <<pid, x>>) = SumFunctionOnSet(amount, A(x))
      /\ \A x : Got(v2.codes, <<pid, x>>) = SumFunctionOnSet(amount, B(x))
      /\ \A x : Got(v2.channels, <<pid, x>>) = SumFunctionOnSet(amount, C(x))
  <2> HIDE DEF K1, K2, K3, amount, v2
  <2>1. \A x : /\ Got(Tally(K1, amount), <<pid, x>>) = SumFunctionOnSet(amount, A(x))
               /\ Got(Tally(K2, amount), <<pid, x>>) = SumFunctionOnSet(amount, B(x))
               /\ Got(Tally(K3, amount), <<pid, x>>) = SumFunctionOnSet(amount, C(x))
    BY GotTally
  <2> HIDE DEF A, B, C
  <2> QED BY <1>1, <2>1, Zenon
<1> HIDE DEF A, B, C
<1> QED BY <1>3, <1>4, Zenon DEF EntryTotal

\* The parts the operations count under a code, in a channel and under a
\* classified category are those the report counts.
LEMMA SameParts ==
  ASSUME NEW P, NEW codes, NEW pid,
         \A c \in DOMAIN Categories :
            Categories[c].op = "Capital" /\ codes[c] # "none" => c \in Reported
  PROVE  /\ \A code : CountedIn(P, pid, OfCode(codes, code)) = CodedParts(P, pid, code, codes)
         /\ \A ch : CountedIn(P, pid, OfChannel(codes, ch)) = ChannelParts(P, pid, ch, codes)
         /\ \A cid : codes[cid] # "none" =>
               CountedIn(P, pid, OfCategory(codes, cid)) = CategoryParts(P, pid, cid, codes)
<1>1. \A c \in Reported : c \in DOMAIN Categories /\ Categories[c].op \in {"Income", "Outcome", "Capital"}
  BY DEF Reported
<1>2. \A p \in P : codes[p.cid] # "none" =>
         (Kept(p, {pid}, codes) <=> p \in Counted(P, pid) /\ p.cid \in Reported)
  BY <1>1 DEF Kept, Counted, Reported
<1>3. \A code : CountedIn(P, pid, OfCode(codes, code)) = CodedParts(P, pid, code, codes)
  BY <1>2 DEF CountedIn, OfCode, CodedParts, Counted
<1>4. \A ch : CountedIn(P, pid, OfChannel(codes, ch)) = ChannelParts(P, pid, ch, codes)
  BY <1>2 DEF CountedIn, OfChannel, OfCode, CodedParts, ChannelParts, Counted
<1>5. \A cid : codes[cid] # "none" =>
         CountedIn(P, pid, OfCategory(codes, cid)) = CategoryParts(P, pid, cid, codes)
  BY <1>2 DEF CountedIn, OfCategory, CategoryParts, Counted
<1> QED BY <1>3, <1>4, <1>5

LEMMA ReportOfCode ==
  ASSUME NEW P, NEW codes, NEW pid, NEW code
  PROVE  Got(ReportAggregates(P, codes).codes, <<pid, code>>)
           = EntryTotal(P, pid, OfCode(codes, code))
BY GotReport

LEMMA ReportOfChannel ==
  ASSUME NEW P, NEW codes, NEW pid, NEW ch
  PROVE  Got(ReportAggregates(P, codes).channels, <<pid, ch>>)
           = EntryTotal(P, pid, OfChannel(codes, ch))
BY GotReport

\* Over any parts of the month, with the codes of the template or any other,
\* operations and report give the same of a project of the key.
LEMMA ReportGivesTheSame ==
  ASSUME NEW P, IsFiniteSet(P), \A p \in P : p.value \in Int, NEW codes, NEW pid \in Projects,
         \A c \in DOMAIN Categories :
            Categories[c].op = "Capital" /\ codes[c] # "none" => c \in Reported
  PROVE  LET raw == Aggregates(P, Projects, codes)
             v2  == ReportAggregates(P, codes)
         IN /\ \A code : Got(raw.codes, <<pid, code>>) = Got(v2.codes, <<pid, code>>)
            /\ \A ch : Got(raw.channels, <<pid, ch>>) = Got(v2.channels, <<pid, ch>>)
            /\ \A cid : codes[cid] # "none" =>
                  Got(raw.cats, <<pid, cid>>) = Got(v2.cats, <<pid, cid>>)
<1> DEFINE raw == Aggregates(P, Projects, codes)
           v2  == ReportAggregates(P, codes)
           Total(S) == SumFunction(SignedParts(S))
<1>1. pid # "none"
  BY PnlFiguresAssumption
<1>2. /\ \A code : Got(raw.codes, <<pid, code>>) = Total(CodedParts(P, pid, code, codes))
      /\ \A ch : Got(raw.channels, <<pid, ch>>) = Total(ChannelParts(P, pid, ch, codes))
      /\ \A cid : Got(raw.cats, <<pid, cid>>) = Total(CategoryParts(P, pid, cid, codes))
  BY GotAggregates
<1>3. /\ \A code : Got(v2.codes, <<pid, code>>) = EntryTotal(P, pid, OfCode(codes, code))
      /\ \A ch : Got(v2.channels, <<pid, ch>>) = EntryTotal(P, pid, OfChannel(codes, ch))
      /\ \A cid : codes[cid] # "none" =>
            Got(v2.cats, <<pid, cid>>) = EntryTotal(P, pid, OfCategory(codes, cid))
  <2>1. \A code : Got(v2.codes, <<pid, code>>) = EntryTotal(P, pid, OfCode(codes, code))
    BY ReportOfCode
  <2>2. \A ch : Got(v2.channels, <<pid, ch>>) = EntryTotal(P, pid, OfChannel(codes, ch))
    BY ReportOfChannel
  <2>3. \A cid : codes[cid] # "none" =>
            Got(v2.cats, <<pid, cid>>) = EntryTotal(P, pid, OfCategory(codes, cid))
    BY GotReport
  <2> HIDE DEF v2
  <2> QED BY <2>1, <2>2, <2>3
<1>4. \A C \in SUBSET Reported : EntryTotal(P, pid, C) = Total(CountedIn(P, pid, C))
  BY <1>1, EntriesBringParts DEF EntryTotal
<1>5. /\ \A code : CountedIn(P, pid, OfCode(codes, code)) = CodedParts(P, pid, code, codes)
      /\ \A ch : CountedIn(P, pid, OfChannel(codes, ch)) = ChannelParts(P, pid, ch, codes)
      /\ \A cid : codes[cid] # "none" =>
            CountedIn(P, pid, OfCategory(codes, cid)) = CategoryParts(P, pid, cid, codes)
  BY SameParts
<1>6. \A x : /\ OfCode(codes, x) \in SUBSET Reported
             /\ OfChannel(codes, x) \in SUBSET Reported
             /\ OfCategory(codes, x) \in SUBSET Reported
  BY DEF OfCode, OfChannel, OfCategory
<1> HIDE DEF raw, v2, Total
<1>7. \A code : Got(raw.codes, <<pid, code>>) = Got(v2.codes, <<pid, code>>)
  BY <1>2, <1>3, <1>4, <1>5, <1>6, Zenon
<1>8. \A ch : Got(raw.channels, <<pid, ch>>) = Got(v2.channels, <<pid, ch>>)
  BY <1>2, <1>3, <1>4, <1>5, <1>6, Zenon
<1>9. \A cid : codes[cid] # "none" => Got(raw.cats, <<pid, cid>>) = Got(v2.cats, <<pid, cid>>)
  BY <1>2, <1>3, <1>4, <1>5, <1>6, Zenon
<1> QED BY <1>7, <1>8, <1>9 DEF raw, v2

LEMMA PairsOfRange ==
  ASSUME NEW key, \A x \in DOMAIN key : key[x] = <<key[x][1], key[x][2]>>
  PROVE  \A k \in Range(key) : k = <<k[1], k[2]>>
BY DEF Range

\* What either lists is listed by pairs.
LEMMA ReportIsByPairs ==
  ASSUME NEW P, NEW codes
  PROVE  LET raw == Aggregates(P, Projects, codes)
             v2  == ReportAggregates(P, codes)
         IN \A k \in DOMAIN raw.codes \cup DOMAIN v2.codes
                       \cup DOMAIN raw.channels \cup DOMAIN v2.channels
                       \cup DOMAIN raw.cats \cup DOMAIN v2.cats : k = <<k[1], k[2]>>
<1> DEFINE keptParts    == {p \in P : Kept(p, Projects, codes)}
           coded   == {p \in keptParts : codes[p.cid] # "none"}
           revenue == {p \in coded : codes[p.cid] = "REVENUE"}
           signed  == [p \in keptParts |-> Signed(p)]
           own     == Entries(P)
           codedE   == {e \in own : codes[e.cid] # "none"}
           revenueE == {e \in codedE : codes[e.cid] = "REVENUE"}
           amount  == EntryAmounts(P)
           K1 == [p \in keptParts |-> <<p.pid, p.cid>>]
           K2 == [p \in coded |-> <<p.pid, codes[p.cid]>>]
           K3 == [p \in revenue |-> <<p.pid, Channel(p.cid)>>]
           E1 == [e \in own |-> <<e.pid, e.cid>>]
           E2 == [e \in codedE |-> <<e.pid, codes[e.cid]>>]
           E3 == [e \in revenueE |-> <<e.pid, Channel(e.cid)>>]
           raw == Aggregates(P, Projects, codes)
           v2 == ReportAggregates(P, codes)
<1>1. /\ raw.cats = Tally(K1, signed) /\ raw.codes = Tally(K2, signed)
      /\ raw.channels = Tally(K3, signed)
  BY Zenon DEF Aggregates
<1>2. /\ v2.cats = Tally(E1, amount) /\ v2.codes = Tally(E2, amount)
      /\ v2.channels = Tally(E3, amount)
  BY Zenon DEF ReportAggregates, EntryAmounts
<1>3. /\ \A k \in Range(K1) : k = <<k[1], k[2]>>
      /\ \A k \in Range(K2) : k = <<k[1], k[2]>>
      /\ \A k \in Range(K3) : k = <<k[1], k[2]>>
  <2>1. /\ \A p \in DOMAIN K1 : K1[p] = <<p.pid, p.cid>>
        /\ \A p \in DOMAIN K2 : K2[p] = <<p.pid, codes[p.cid]>>
        /\ \A p \in DOMAIN K3 : K3[p] = <<p.pid, Channel(p.cid)>>
    OBVIOUS
  <2> HIDE DEF K1, K2, K3
  <2> QED BY <2>1, PairsOfRange
<1>4. /\ \A k \in Range(E1) : k = <<k[1], k[2]>>
      /\ \A k \in Range(E2) : k = <<k[1], k[2]>>
      /\ \A k \in Range(E3) : k = <<k[1], k[2]>>
  <2>1. /\ \A e \in DOMAIN E1 : E1[e] = <<e.pid, e.cid>>
        /\ \A e \in DOMAIN E2 : E2[e] = <<e.pid, codes[e.cid]>>
        /\ \A e \in DOMAIN E3 : E3[e] = <<e.pid, Channel(e.cid)>>
    OBVIOUS
  <2> HIDE DEF E1, E2, E3
  <2> QED BY <2>1, PairsOfRange
<1> HIDE DEF K1, K2, K3, E1, E2, E3, signed, amount, raw, v2
<1>5. /\ DOMAIN raw.cats = Range(K1) /\ DOMAIN raw.codes = Range(K2)
      /\ DOMAIN raw.channels = Range(K3)
      /\ DOMAIN v2.cats = Range(E1) /\ DOMAIN v2.codes = Range(E2)
      /\ DOMAIN v2.channels = Range(E3)
  BY <1>1, <1>2 DEF Tally
<1> QED BY <1>3, <1>4, <1>5 DEF raw, v2

LEMMA ReportAgrees ==
  ASSUME IsFiniteSet(parts), parts \subseteq Parts
  PROVE  V2AgreesWithRaw
<1> DEFINE codes == CodesOf(rows)
           raw == Aggregates(parts, Projects, codes)
           v2  == ReportAggregates(parts, codes)
           Listed(f) == {k \in DOMAIN f : k[1] \in Projects}
<1> SUFFICES ASSUME \A c \in DOMAIN Categories :
                       Categories[c].op = "Capital" /\ codes[c] # "none" => c \in Reported
             PROVE  /\ \A k \in Listed(raw.codes) \union Listed(v2.codes) :
                         Got(raw.codes, k) = Got(v2.codes, k)
                    /\ \A k \in Listed(raw.channels) \union Listed(v2.channels) :
                         Got(raw.channels, k) = Got(v2.channels, k)
                    /\ \A k \in Listed(raw.cats) \union Listed(v2.cats) :
                         codes[k[2]] # "none" => Got(raw.cats, k) = Got(v2.cats, k)
  BY Zenon DEF V2AgreesWithRaw
<1>1. \A p \in parts : p.value \in Int
  BY PnlFiguresAssumption
<1> HIDE DEF codes
<1>2. \A pid \in Projects :
        /\ \A code : Got(raw.codes, <<pid, code>>) = Got(v2.codes, <<pid, code>>)
        /\ \A ch : Got(raw.channels, <<pid, ch>>) = Got(v2.channels, <<pid, ch>>)
        /\ \A cid : codes[cid] # "none" =>
              Got(raw.cats, <<pid, cid>>) = Got(v2.cats, <<pid, cid>>)
  BY <1>1, ReportGivesTheSame
<1>3. \A k \in DOMAIN raw.codes \cup DOMAIN v2.codes
                 \cup DOMAIN raw.channels \cup DOMAIN v2.channels
                 \cup DOMAIN raw.cats \cup DOMAIN v2.cats : k = <<k[1], k[2]>>
  BY ReportIsByPairs
<1> HIDE DEF raw, v2
<1>4. \A k \in Listed(raw.codes) \union Listed(v2.codes) : Got(raw.codes, k) = Got(v2.codes, k)
  <2> TAKE k \in Listed(raw.codes) \union Listed(v2.codes)
  <2>1. k = <<k[1], k[2]>> /\ k[1] \in Projects
    BY <1>3
  <2> QED BY <1>2, <2>1, Zenon
<1>5. \A k \in Listed(raw.channels) \union Listed(v2.channels) :
        Got(raw.channels, k) = Got(v2.channels, k)
  <2> TAKE k \in Listed(raw.channels) \union Listed(v2.channels)
  <2>1. k = <<k[1], k[2]>> /\ k[1] \in Projects
    BY <1>3
  <2> QED BY <1>2, <2>1, Zenon
<1>6. \A k \in Listed(raw.cats) \union Listed(v2.cats) :
        codes[k[2]] # "none" => Got(raw.cats, k) = Got(v2.cats, k)
  <2> TAKE k \in Listed(raw.cats) \union Listed(v2.cats)
  <2>1. k = <<k[1], k[2]>> /\ k[1] \in Projects
    BY <1>3
  <2> QED BY <1>2, <2>1, Zenon
<1> QED BY <1>4, <1>5, <1>6

\* The report v2 gives every amount by code, channel and classified category
\* that the operations give (pnl_v2.py v2_to_aggregates against the first
\* half of build_pnl), whatever parts were entered and whatever the template:
\* the subtraction of the children from a category leaves the category's own
\* parts, whichever levels of the tree have parts.
THEOREM ReportAgreesWithOperations == FiguresSpec => []V2AgreesWithRaw
<1>1. SnapshotIsOfParts => V2AgreesWithRaw
  BY ReportAgrees DEF SnapshotIsOfParts
<1> QED BY <1>1, SnapshotOfParts, PTL

-----------------------------------------------------------------------------
(* Branches of the template and what is rolled up over them. *)

\* What makes the branches of rows end: ids are unique and children come later.
Forest(R) ==
  /\ IsFiniteSet(R)
  /\ \A r \in R : r.id[2] \in Nat
  /\ \A r, q \in R : r.id = q.id => r = q
  /\ \A r, q \in R : q.parent = r.id => r.id[2] < q.id[2]

Kids(R, r) == {x \in R : x.parent = r.id}

\* g gives the branches of the rows of D, which have their children among them.
IsBranch(R, D, g) ==
  g = [r \in D |-> {r} \union UNION {g[q] : q \in Kids(R, r)}]

LEMMA BranchesChosen ==
  ASSUME NEW R
  PROVE  Branches(R) = CHOOSE g : IsBranch(R, R, g)
BY DEF Branches, IsBranch, Kids

\* Numbers of a finite set of rows are bounded.
LEMMA BoundedRows ==
  ASSUME NEW R, Forest(R)
  PROVE  \E n \in Nat : \A r \in R : r.id[2] < n
<1> DEFINE G == {s \in SUBSET R : \E n \in Nat : \A r \in s : r.id[2] < n}
<1>1. ASSUME NEW s \in SUBSET R,
             \A u \in SUBSET R : u \subseteq s /\ u # s => u \in G
      PROVE  s \in G
  <2>1. CASE s = {}
    BY <2>1
  <2>2. CASE s # {}
    <3>1. PICK y \in s : TRUE
      BY <2>2
    <3>2. s \ {y} \in G
      BY <1>1, <3>1
    <3>3. PICK n \in Nat : \A r \in s \ {y} : r.id[2] < n
      BY <3>2
    <3>4. y.id[2] \in Nat
      BY <3>1 DEF Forest
    <3> DEFINE m == n + y.id[2] + 1
    <3>5. m \in Nat /\ y.id[2] < m /\ n <= m
      BY <3>4
    <3>6. \A r \in s : r.id[2] < m
      <4> TAKE r \in s
      <4>1. r.id[2] \in Nat
        BY DEF Forest
      <4>2. CASE r = y
        BY <3>5, <4>2
      <4>3. CASE r # y
        BY <3>3, <3>5, <4>1, <4>3
      <4> QED BY <4>2, <4>3
    <3> QED BY <3>5, <3>6
  <2> QED BY <2>1, <2>2
<1>2. IsFiniteSet(R)
  BY DEF Forest
<1>3. R \in G
  <2> HIDE DEF G
  <2> QED BY <1>1, <1>2, InductionOnSubsets
<1> QED BY <1>3

\* Branches exist.
LEMMA BranchesExist ==
  ASSUME NEW R, Forest(R)
  PROVE  IsBranch(R, R, Branches(R))
<1>1. PICK n \in Nat : \A r \in R : r.id[2] < n
  BY BoundedRows
<1> DEFINE D(k) == {r \in R : n <= r.id[2] + k}
           T == {k \in Nat : ~ \E g : IsBranch(R, D(k), g)}
<1>2. SUFFICES ASSUME T # {} PROVE FALSE
  <2>1. n \notin T
    BY <1>2
  <2>2. D(n) = R
    BY DEF Forest
  <2>3. \E g : IsBranch(R, R, g)
    <3> HIDE DEF D
    <3> QED BY <2>1, <2>2
  <2> QED BY <2>3, BranchesChosen
<1>3. PICK k \in T : \A m \in T : k <= m
  BY <1>2, LeastNumber
<1>4. k # 0
  <2> DEFINE none == [r \in {} |-> {}]
  <2>1. D(0) = {}
    BY <1>1 DEF Forest
  <2>2. IsBranch(R, {}, none)
    BY DEF IsBranch
  <2>3. \E g : IsBranch(R, D(0), g)
    <3> HIDE DEF D, none
    <3> QED BY <2>1, <2>2
  <2> QED BY <2>3
<1>5. k - 1 \in Nat /\ k - 1 \notin T
  <2> HIDE DEF T
  <2>1. k \in Nat
    BY <1>3 DEF T
  <2> QED BY <1>3, <1>4, <2>1
<1>6. PICK g : IsBranch(R, D(k - 1), g)
  BY <1>5
<1> DEFINE h == [r \in D(k) |-> {r} \union UNION {g[q] : q \in Kids(R, r)}]
<1>7. \A r \in D(k) : Kids(R, r) \subseteq D(k - 1)
  <2> TAKE r \in D(k)
  <2> SUFFICES ASSUME NEW x \in Kids(R, r)
               PROVE  x \in D(k - 1)
    OBVIOUS
  <2>1. x \in R /\ r \in R /\ r.id[2] < x.id[2] /\ r.id[2] \in Nat /\ x.id[2] \in Nat
    BY DEF Kids, Forest
  <2>2. n <= r.id[2] + k
    OBVIOUS
  <2> QED BY <1>1, <1>5, <2>1, <2>2
<1>8. \A q \in D(k - 1) : q \in D(k)
  BY <1>1, <1>5 DEF Forest
<1>9. \A q \in D(k - 1) : h[q] = g[q]
  <2> HIDE DEF D
  <2> TAKE q \in D(k - 1)
  <2>1. g[q] = {q} \union UNION {g[x] : x \in Kids(R, q)}
    BY <1>6 DEF IsBranch
  <2> QED BY <1>8, <2>1
<1>10. IsBranch(R, D(k), h)
  <2>1. \A r \in D(k) : {g[q] : q \in Kids(R, r)} = {h[q] : q \in Kids(R, r)}
    <3> HIDE DEF D, h
    <3> QED BY <1>7, <1>9
  <2>2. h = [r \in D(k) |-> {r} \union UNION {h[q] : q \in Kids(R, r)}]
    <3> HIDE DEF D
    <3>1. \A r \in D(k) : h[r] = {r} \union UNION {g[q] : q \in Kids(R, r)}
      OBVIOUS
    <3>2. h = [r \in D(k) |-> h[r]]
      OBVIOUS
    <3> HIDE DEF h
    <3>3. \A r \in D(k) : h[r] = {r} \union UNION {h[q] : q \in Kids(R, r)}
      BY <2>1, <3>1, Zenon
    <3> QED BY <3>2, <3>3
  <2> HIDE DEF h, D
  <2> QED BY <2>2 DEF IsBranch
<1>11. k \notin T
  <2> HIDE DEF D, h
  <2> QED BY <1>10
<1> QED BY <1>3, <1>11

\* Induction along the branches, from the leaves up.
LEMMA InductionOnRows ==
  ASSUME NEW R, Forest(R), NEW G,
         \A r \in R : (\A q \in Kids(R, r) : q \in G) => r \in G
  PROVE  R \subseteq G
<1>1. PICK n \in Nat : \A r \in R : r.id[2] < n
  BY BoundedRows
<1>2. SUFFICES ASSUME NEW bad \in R, bad \notin G PROVE FALSE
  OBVIOUS
<1> DEFINE T == {k \in Nat : \E r \in R : r \notin G /\ k + r.id[2] = n}
<1>3. \A r \in R : r.id[2] \in Nat
  BY DEF Forest
<1>4. \A r \in R : r \notin G => n - r.id[2] \in T
  <2> TAKE r \in R
  <2>1. r.id[2] \in Nat /\ r.id[2] < n
    BY <1>1, <1>3
  <2>2. n - r.id[2] \in Nat /\ (n - r.id[2]) + r.id[2] = n
    BY <2>1
  <2> QED BY <2>2
<1>5. PICK k \in T : \A m \in T : k <= m
  BY <1>2, <1>4, LeastNumber
<1>6. PICK r \in R : r \notin G /\ k + r.id[2] = n
  BY <1>5
<1>7. PICK q \in Kids(R, r) : q \notin G
  BY <1>6
<1>8. q \in R /\ r.id[2] < q.id[2]
  BY DEF Kids, Forest
<1>9. n - q.id[2] \in T /\ k <= n - q.id[2]
  BY <1>4, <1>5, <1>7, <1>8
<1> QED BY <1>3, <1>6, <1>8, <1>9

LEMMA BranchIs ==
  ASSUME NEW R, Forest(R), NEW r \in R
  PROVE  Branches(R)[r] = {r} \union UNION {Branches(R)[q] : q \in Kids(R, r)}
BY BranchesExist DEF IsBranch

\* A branch is of the rows, has its root, and the rest comes later.
LEMMA BranchIsLater ==
  ASSUME NEW R, Forest(R), NEW r \in R
  PROVE  /\ Branches(R)[r] \subseteq R
         /\ r \in Branches(R)[r]
         /\ \A q \in Branches(R)[r] : q = r \/ r.id[2] < q.id[2]
<1> DEFINE G == {x \in R : /\ Branches(R)[x] \subseteq R
                           /\ \A q \in Branches(R)[x] : q = x \/ x.id[2] < q.id[2]}
<1>1. ASSUME NEW x \in R, \A q \in Kids(R, x) : q \in G
      PROVE  x \in G
  <2>1. Branches(R)[x] = {x} \union UNION {Branches(R)[q] : q \in Kids(R, x)}
    BY BranchIs
  <2>2. ASSUME NEW q \in Branches(R)[x], q # x
        PROVE  q \in R /\ x.id[2] < q.id[2]
    <3>1. PICK y \in Kids(R, x) : q \in Branches(R)[y]
      BY <2>1, <2>2
    <3>2. y \in R /\ x.id[2] < y.id[2] /\ x.id[2] \in Nat /\ y.id[2] \in Nat
      BY DEF Kids, Forest
    <3>3. q \in R /\ (q = y \/ y.id[2] < q.id[2])
      BY <1>1, <3>1
    <3>4. q.id[2] \in Nat
      BY <3>3 DEF Forest
    <3> QED BY <3>2, <3>3, <3>4
  <2> QED BY <2>2
<1>2. R \subseteq G
  <2> HIDE DEF G
  <2> QED BY <1>1, InductionOnRows
<1>3. r \in Branches(R)[r]
  BY BranchIs
<1> QED BY <1>2, <1>3

\* In a branch every row but the root has its parent there.
LEMMA ParentInBranch ==
  ASSUME NEW R, Forest(R), NEW r \in R, NEW q \in Branches(R)[r], q # r
  PROVE  \E s \in Branches(R)[r] : q \in Kids(R, s)
<1> DEFINE Ok(x, b) == b = x \/ \E s \in Branches(R)[x] : b \in Kids(R, s)
           G == {x \in R : \A b \in Branches(R)[x] : Ok(x, b)}
<1>1. ASSUME NEW x \in R, \A y \in Kids(R, x) : y \in G
      PROVE  x \in G
  <2>1. Branches(R)[x] = {x} \union UNION {Branches(R)[y] : y \in Kids(R, x)}
    BY BranchIs
  <2>2. ASSUME NEW b \in Branches(R)[x], b # x
        PROVE  \E s \in Branches(R)[x] : b \in Kids(R, s)
    <3>1. PICK y \in Kids(R, x) : b \in Branches(R)[y]
      BY <2>1, <2>2
    <3>2. CASE b = y
      BY <2>1, <3>1, <3>2
    <3>3. CASE b # y
      <4>1. PICK s \in Branches(R)[y] : b \in Kids(R, s)
        BY <1>1, <3>1, <3>3
      <4> QED BY <2>1, <3>1, <4>1
    <3> QED BY <3>2, <3>3
  <2> QED BY <2>2
<1>2. R \subseteq G
  <2> HIDE DEF G
  <2> QED BY <1>1, InductionOnRows
<1> QED BY <1>2

\* Two branches with a row in common: one is in the other.
LEMMA BranchesNest ==
  ASSUME NEW R, Forest(R), NEW r \in R, NEW s \in R,
         NEW q \in Branches(R)[r], q \in Branches(R)[s]
  PROVE  r \in Branches(R)[s] \/ s \in Branches(R)[r]
<1> DEFINE B == Branches(R)
           Apart == r \notin B[s] /\ s \notin B[r]
           T == {n \in Nat : \E x \in R : x.id[2] = n /\ x \in B[r] /\ x \in B[s]}
<1>1. SUFFICES ASSUME Apart PROVE FALSE
  OBVIOUS
<1>2. q \in R /\ q.id[2] \in T
  BY BranchIsLater DEF Forest
<1>3. PICK n \in T : \A m \in T : n <= m
  BY <1>2, LeastNumber
<1>4. PICK x \in R : x.id[2] = n /\ x \in B[r] /\ x \in B[s]
  BY <1>3
<1>5. x # r /\ x # s
  BY <1>1, <1>4
<1>6. PICK a \in B[r] : x \in Kids(R, a)
  BY <1>4, <1>5, ParentInBranch
<1>7. PICK b \in B[s] : x \in Kids(R, b)
  BY <1>4, <1>5, ParentInBranch
<1>8. a \in R /\ b \in R
  BY BranchIsLater
<1>9. a = b
  BY <1>6, <1>7, <1>8 DEF Kids, Forest
<1>10. a.id[2] < n /\ a.id[2] \in Nat
  BY <1>4, <1>6, <1>8 DEF Kids, Forest
<1>11. a.id[2] \in T
  BY <1>8, <1>9, <1>10
<1> QED BY <1>3, <1>10, <1>11

\* Of what lies under a row, each lies under one child.
LEMMA OneKidAbove ==
  ASSUME NEW R, Forest(R), NEW r \in R
  PROVE  /\ \A x \in Kids(R, r) : x \in R /\ r \notin Branches(R)[x]
         /\ \A x, y \in Kids(R, r) :
               Branches(R)[x] \cap Branches(R)[y] # {} => x = y
<1>1. \A x \in Kids(R, r) : x \in R /\ r \notin Branches(R)[x] /\ r.id[2] < x.id[2]
  <2> TAKE x \in Kids(R, r)
  <2>1. x \in R /\ r.id[2] < x.id[2] /\ r.id[2] \in Nat /\ x.id[2] \in Nat
    BY DEF Kids, Forest
  <2> QED BY <2>1, BranchIsLater
<1>2. ASSUME NEW x \in Kids(R, r), NEW y \in Kids(R, r), x \in Branches(R)[y]
      PROVE  x = y
  <2>1. SUFFICES ASSUME x # y PROVE FALSE
    OBVIOUS
  <2>2. PICK s \in Branches(R)[y] : x \in Kids(R, s)
    BY <1>1, <1>2, <2>1, ParentInBranch
  <2>3. s \in R
    BY <1>1, BranchIsLater
  <2>4. s = r
    BY <2>2, <2>3 DEF Kids, Forest
  <2> QED BY <1>1, <2>2, <2>4
<1>3. ASSUME NEW x \in Kids(R, r), NEW y \in Kids(R, r),
             Branches(R)[x] \cap Branches(R)[y] # {}
      PROVE  x = y
  <2>1. PICK q : q \in Branches(R)[x] /\ q \in Branches(R)[y]
    BY <1>3
  <2>2. x \in Branches(R)[y] \/ y \in Branches(R)[x]
    BY <1>1, <2>1, BranchesNest
  <2> QED BY <1>2, <2>2
<1> QED BY <1>1, <1>3

\* The sums over the branches of rows.
BranchSums(R, direct) == [r \in R |-> SumFunctionOnSet(direct, Branches(R)[r])]

\* g is what stands on each row with all under it.
IsRollup(R, direct, g) ==
  g = [r \in R |-> direct[r] + SumFunction([q \in Kids(R, r) |-> g[q]])]

LEMMA RollupChosen ==
  ASSUME NEW R, NEW direct
  PROVE  Rollup(R, direct) = CHOOSE g : IsRollup(R, direct, g)
BY DEF Rollup, IsRollup, Kids

LEMMA SumOfBranch ==
  ASSUME NEW R, Forest(R), NEW direct, \A r \in R : direct[r] \in Int, NEW r \in R
  PROVE  /\ SumFunctionOnSet(direct, Branches(R)[r]) \in Int
         /\ SumFunctionOnSet(direct, Branches(R)[r])
              = direct[r] + SumFunctionOnSet(BranchSums(R, direct), Kids(R, r))
<1> DEFINE B == Branches(R)[r]
           rest == B \ {r}
           kids == Kids(R, r)
           key == [q \in rest |-> CHOOSE x \in kids : q \in Branches(R)[x]]
           sums == BranchSums(R, direct)
<1>1. B \subseteq R /\ r \in B /\ B = {r} \union UNION {Branches(R)[q] : q \in kids}
  BY BranchIsLater, BranchIs
<1>2. IsFiniteSet(B) /\ IsFiniteSet(rest) /\ IsFiniteSet(kids) /\ kids \subseteq R
  BY <1>1, FS_Subset DEF Forest, Kids
<1>3. ASSUME NEW q \in rest
      PROVE  key[q] \in kids /\ \A x \in kids : q \in Branches(R)[x] <=> key[q] = x
  <2>1. PICK x \in kids : q \in Branches(R)[x]
    BY <1>1, <1>3
  <2>2. \A y \in kids : q \in Branches(R)[y] => y = x
    <3> TAKE y \in kids
    <3> HAVE q \in Branches(R)[y]
    <3>1. q \in Branches(R)[x] \cap Branches(R)[y]
      BY <2>1
    <3> QED BY <3>1, OneKidAbove
  <2>3. key[q] = x
    <3> HIDE DEF kids
    <3> QED BY <2>1, <2>2
  <2> HIDE DEF key, kids
  <2> QED BY <2>1, <2>2, <2>3
<1>4. ASSUME NEW x \in kids
      PROVE  Branches(R)[x] = WithKey(rest, key, x)
  <2>1. \A q \in Branches(R)[x] : q \in rest
    BY <1>1, OneKidAbove
  <2>2. \A q \in rest : q \in Branches(R)[x] <=> key[q] = x
    BY <1>3
  <2> HIDE DEF key, rest, kids
  <2> QED BY <2>1, <2>2 DEF WithKey
<1>5. \A q \in B : direct[q] \in Int
  BY <1>1
<1> HIDE DEF B, rest, kids, key
<1>6. \A x \in kids : sums[x] = SumFunctionOnSet(direct, WithKey(rest, key, x))
  <2> TAKE x \in kids
  <2>1. sums[x] = SumFunctionOnSet(direct, Branches(R)[x])
    BY <1>2 DEF BranchSums
  <2> QED BY <1>4, <2>1, Zenon
<1>7. \A q \in rest : q \in B /\ direct[q] \in Int /\ key[q] \in kids
  BY <1>3, <1>5 DEF rest
<1> HIDE DEF sums
<1>8. SumFunctionOnSet(sums, kids) = SumFunctionOnSet(direct, rest)
  BY <1>2, <1>6, <1>7, SumByKey
<1>9. SumFunctionOnSet(direct, B) = direct[r] + SumFunctionOnSet(direct, B \ {r})
  BY <1>1, <1>2, <1>5, SumInsert
<1>10. SumFunctionOnSet(direct, B) \in Int
  BY <1>2, <1>5, SumType
<1>11. SumFunctionOnSet(direct, B) = direct[r] + SumFunctionOnSet(sums, kids)
  BY <1>8, <1>9 DEF rest
<1> QED BY <1>10, <1>11, Zenon DEF B, kids, sums

\* What a row shows is the sum over its branch.
LEMMA RollupIsSum ==
  ASSUME NEW R, Forest(R), NEW direct, \A r \in R : direct[r] \in Int, NEW r \in R
  PROVE  Rollup(R, direct)[r] = SumFunctionOnSet(direct, Branches(R)[r])
<1> DEFINE sums == BranchSums(R, direct)
           total == Rollup(R, direct)
           G == {x \in R : total[x] = sums[x]}
<1>1. \A x \in R : /\ IsFiniteSet(Kids(R, x)) /\ Kids(R, x) \subseteq R
                   /\ sums[x] = direct[x] + SumFunctionOnSet(sums, Kids(R, x))
  <2> TAKE x \in R
  <2>1. Kids(R, x) \subseteq R
    BY DEF Kids
  <2>2. IsFiniteSet(Kids(R, x))
    BY <2>1, FS_Subset DEF Forest
  <2>3. sums[x] = SumFunctionOnSet(direct, Branches(R)[x])
    BY DEF BranchSums
  <2>4. SumFunctionOnSet(direct, Branches(R)[x])
          = direct[x] + SumFunctionOnSet(BranchSums(R, direct), Kids(R, x))
    BY SumOfBranch
  <2> QED BY <2>1, <2>2, <2>3, <2>4
<1>2. ASSUME NEW g, NEW x \in R
      PROVE  SumFunction([q \in Kids(R, x) |-> g[q]]) = SumFunctionOnSet(g, Kids(R, x))
  <2> DEFINE f == [q \in Kids(R, x) |-> g[q]]
  <2>1. DOMAIN f = Kids(R, x) /\ \A q \in Kids(R, x) : f[q] = g[q]
    OBVIOUS
  <2> HIDE DEF f
  <2>2. SumFunctionOnSet(f, Kids(R, x)) = SumFunctionOnSet(g, Kids(R, x))
    BY <1>1, <2>1, SumOfEquals
  <2>3. SumFunction(f) = SumFunctionOnSet(f, Kids(R, x))
    BY <2>1, Zenon DEF SumFunction
  <2> QED BY <2>2, <2>3 DEF f
<1>3. IsRollup(R, direct, sums)
  <2>1. sums = [x \in R |-> sums[x]]
    BY DEF BranchSums
  <2> HIDE DEF sums
  <2>2. \A x \in R : sums[x] = direct[x] + SumFunction([q \in Kids(R, x) |-> sums[q]])
    BY <1>1, <1>2, Zenon
  <2>3. [x \in R |-> sums[x]]
          = [x \in R |-> direct[x] + SumFunction([q \in Kids(R, x) |-> sums[q]])]
    BY <2>2
  <2> QED BY <2>1, <2>3, Zenon DEF IsRollup
<1>4. IsRollup(R, direct, total)
  BY <1>3, RollupChosen
<1> HIDE DEF sums, total
<1>5. \A x \in R : total[x] = direct[x] + SumFunctionOnSet(total, Kids(R, x))
  <2> TAKE x \in R
  <2>1. total[x] = direct[x] + SumFunction([q \in Kids(R, x) |-> total[q]])
    <3> DEFINE E(y) == direct[y] + SumFunction([q \in Kids(R, y) |-> total[q]])
    <3>1. total = [y \in R |-> E(y)]
      BY <1>4, Zenon DEF IsRollup
    <3> HIDE DEF E
    <3>2. total[x] = E(x)
      BY <3>1
    <3> QED BY <3>2 DEF E
  <2> QED BY <1>2, <2>1, Zenon
<1>6. ASSUME NEW x \in R, \A q \in Kids(R, x) : q \in G
      PROVE  x \in G
  <2>1. \A q \in Kids(R, x) : total[q] = sums[q]
    BY <1>6
  <2>2. SumFunctionOnSet(total, Kids(R, x)) = SumFunctionOnSet(sums, Kids(R, x))
    BY <1>1, <2>1, SumOfEquals
  <2> QED BY <1>1, <1>5, <2>2
<1>7. R \subseteq G
  <2> HIDE DEF G
  <2> QED BY <1>6, InductionOnRows
<1>8. total[r] = sums[r]
  BY <1>7
<1> QED BY <1>8 DEF total, sums, BranchSums

\* What a row shows is what the categories of its branch brought.
LEMMA RollupOfCategories ==
  ASSUME NEW R, Forest(R), NEW rowOf, IsFiniteSet(DOMAIN rowOf),
         NEW agg, NEW pid, \A c \in DOMAIN rowOf : Got(agg.cats, <<pid, c>>) \in Int,
         NEW r \in R
  PROVE  Rollup(R, Direct(agg, R, rowOf, pid))[r]
           = SumFunction([c \in CategoriesOf(R, rowOf, r) |-> Got(agg.cats, <<pid, c>>)])
<1> DEFINE direct == Direct(agg, R, rowOf, pid)
           brought == [c \in DOMAIN rowOf |-> Got(agg.cats, <<pid, c>>)]
           On(x) == {c \in DOMAIN rowOf : rowOf[c] = x}
           cats == CategoriesOf(R, rowOf, r)
           B == Branches(R)[r]
<1>1. \A x : /\ IsFiniteSet(On(x))
             /\ SumFunction([c \in On(x) |-> Got(agg.cats, <<pid, c>>)])
                  = SumFunctionOnSet(brought, On(x))
  <2> TAKE x
  <2> DEFINE f == [c \in On(x) |-> Got(agg.cats, <<pid, c>>)]
  <2>1. IsFiniteSet(On(x))
    BY FS_Subset
  <2>2. DOMAIN f = On(x) /\ \A c \in On(x) : f[c] = brought[c]
    OBVIOUS
  <2> HIDE DEF f, On, brought
  <2>3. SumFunction(f) = SumFunctionOnSet(f, On(x))
    BY <2>2, Zenon DEF SumFunction
  <2>4. SumFunctionOnSet(f, On(x)) = SumFunctionOnSet(brought, On(x))
    BY <2>1, <2>2, SumOfEquals
  <2> QED BY <2>1, <2>3, <2>4 DEF f
<1>2. \A x \in R : direct[x] = SumFunctionOnSet(brought, On(x))
  <2> TAKE x \in R
  <2>1. direct[x] = SumFunction([c \in On(x) |-> Got(agg.cats, <<pid, c>>)])
    BY DEF Direct
  <2> HIDE DEF direct, brought, On
  <2> QED BY <1>1, <2>1
<1>3. \A c \in DOMAIN rowOf : brought[c] \in Int
  OBVIOUS
<1>4. \A x \in R : direct[x] \in Int
  <2> TAKE x \in R
  <2>1. \A c \in On(x) : brought[c] \in Int
    BY <1>3
  <2> HIDE DEF On, brought, direct
  <2>2. SumFunctionOnSet(brought, On(x)) \in Int
    BY <1>1, <2>1, SumType
  <2> QED BY <1>2, <2>2
<1>5. IsFiniteSet(cats) /\ cats \subseteq DOMAIN rowOf /\ \A c \in cats : rowOf[c] \in B
  <2>1. cats \subseteq DOMAIN rowOf /\ \A c \in cats : rowOf[c] \in B
    BY DEF CategoriesOf
  <2> QED BY <2>1, FS_Subset
<1>6. B \subseteq R /\ IsFiniteSet(B)
  BY BranchIsLater, FS_Subset DEF Forest
<1>7. \A x \in B : On(x) = WithKey(cats, rowOf, x)
  BY DEF WithKey, CategoriesOf
<1>8. Rollup(R, direct)[r] = SumFunctionOnSet(direct, B)
  <2> HIDE DEF direct
  <2> QED BY <1>4, RollupIsSum
<1>9. SumFunction([c \in cats |-> Got(agg.cats, <<pid, c>>)]) = SumFunctionOnSet(brought, cats)
  <2> DEFINE f == [c \in cats |-> Got(agg.cats, <<pid, c>>)]
  <2>1. DOMAIN f = cats /\ \A c \in cats : f[c] = brought[c]
    BY <1>5
  <2> HIDE DEF f, cats, brought
  <2>2. SumFunction(f) = SumFunctionOnSet(f, cats)
    BY <2>1, Zenon DEF SumFunction
  <2>3. SumFunctionOnSet(f, cats) = SumFunctionOnSet(brought, cats)
    BY <1>5, <2>1, SumOfEquals
  <2> QED BY <2>2, <2>3 DEF f
<1> HIDE DEF direct, brought, On, cats, B
<1>10. \A x \in B : direct[x] = SumFunctionOnSet(brought, WithKey(cats, rowOf, x))
  <2> TAKE x \in B
  <2>1. x \in R /\ On(x) = WithKey(cats, rowOf, x)
    BY <1>6, <1>7
  <2>2. direct[x] = SumFunctionOnSet(brought, On(x))
    BY <1>2, <2>1
  <2> QED BY <2>1, <2>2, Zenon
<1>11. SumFunctionOnSet(direct, B) = SumFunctionOnSet(brought, cats)
  BY <1>3, <1>5, <1>6, <1>10, SumByKey
<1> QED BY <1>8, <1>9, <1>11 DEF direct, cats

-----------------------------------------------------------------------------
(* The numbers of the lines of a saved tree. *)

\* The functions a fold from the left is defined by: to every set of indices
\* the result over the nodes at them, in their order.
IsFold(tree, old, D, g) ==
  g = [s \in D |-> IF s = {} THEN [lines |-> <<>>, next |-> NextLine(old)]
                   ELSE NumberNode(old, g[s \ {Max(s)}], tree[Max(s)])]

LEMMA NumberedChosen ==
  ASSUME NEW tree, NEW old
  PROVE  Numbered(tree, old) = (CHOOSE g : IsFold(tree, old, SUBSET DOMAIN tree, g))[DOMAIN tree].lines
BY DEF Numbered, FoldLeft, MapThenFoldSet, IsFold

\* A finite set of whole numbers has a greatest.
LEMMA MaxIs ==
  ASSUME NEW S \in SUBSET Int, IsFiniteSet(S), S # {}
  PROVE  Max(S) \in S /\ \A y \in S : y <= Max(S)
<1> DEFINE Has(s) == \E x \in s : \A y \in s : y <= x
           G == {s \in SUBSET S : s # {} => Has(s)}
<1>1. ASSUME NEW s \in SUBSET S,
             \A u \in SUBSET S : u \subseteq s /\ u # s => u \in G
      PROVE  s \in G
  <2>1. SUFFICES ASSUME s # {} PROVE Has(s)
    OBVIOUS
  <2>2. PICK y \in s : TRUE
    BY <2>1
  <2>3. s \ {y} \in G
    BY <1>1, <2>2
  <2>4. CASE s \ {y} = {}
    BY <2>2, <2>4
  <2>5. CASE s \ {y} # {}
    <3>1. PICK x \in s \ {y} : \A z \in s \ {y} : z <= x
      BY <2>3, <2>5
    <3>2. CASE y <= x
      BY <3>1, <3>2
    <3>3. CASE ~ (y <= x)
      <4>1. \A z \in s : z <= y
        BY <3>1, <3>3
      <4> QED BY <4>1
    <3> QED BY <3>2, <3>3
  <2> QED BY <2>4, <2>5
<1>2. S \in G
  <2> HIDE DEF G
  <2> QED BY <1>1, InductionOnSubsets
<1>3. Has(S)
  BY <1>2
<1>4. \E x \in S : \A y \in S : x >= y
  BY <1>3
<1>5. Max(S) \in S /\ \A y \in S : Max(S) >= y
  BY <1>4 DEF Max
<1> QED BY <1>5

LEMMA FoldWithin ==
  ASSUME NEW tree, NEW old, NEW S \in SUBSET Nat, IsFiniteSet(S), NEW n \in Nat
  PROVE  \E g : IsFold(tree, old, Small(S, n), g)
<1> DEFINE T == {k \in Nat : ~ \E g : IsFold(tree, old, Small(S, k), g)}
           base == [lines |-> <<>>, next |-> NextLine(old)]
           Step(acc, s) == NumberNode(old, acc, tree[Max(s)])
<1>1. SUFFICES ASSUME T # {} PROVE FALSE
  OBVIOUS
<1>2. PICK k \in T : \A m \in T : k <= m
  BY <1>1, LeastNumber
<1>3. \A s \in SUBSET S : IsFiniteSet(s) /\ Cardinality(s) \in Nat
  BY FS_Subset, FS_CardinalityType
<1>4. k # 0
  <2>1. Small(S, 0) = {{}}
    <3>1. \A s \in Small(S, 0) : s = {}
      BY <1>3, FS_EmptySet DEF Small
    <3>2. {} \in Small(S, 0)
      BY FS_EmptySet DEF Small
    <3> QED BY <3>1, <3>2
  <2> DEFINE g == [s \in {{}} |-> base]
  <2>2. IsFold(tree, old, Small(S, 0), g)
    BY <2>1 DEF IsFold
  <2> QED BY <2>2
<1>5. k - 1 \in Nat /\ k - 1 \notin T
  <2> HIDE DEF T
  <2>1. k \in Nat
    BY <1>2 DEF T
  <2> QED BY <1>2, <1>4, <2>1
<1>6. PICK g : IsFold(tree, old, Small(S, k - 1), g)
  BY <1>5
<1> DEFINE h == [s \in Small(S, k) |-> IF s = {} THEN base ELSE Step(g[s \ {Max(s)}], s)]
<1>7. \A s \in Small(S, k) : s # {} => s \ {Max(s)} \in Small(S, k - 1)
  <2> TAKE s \in Small(S, k)
  <2> HAVE s # {}
  <2>1. s \in SUBSET S /\ s \in SUBSET Int /\ IsFiniteSet(s) /\ Cardinality(s) \in Nat
    BY <1>3 DEF Small
  <2>2. Max(s) \in s
    BY <2>1, MaxIs
  <2>3. Cardinality(s \ {Max(s)}) = Cardinality(s) - 1
    BY <2>1, <2>2, FS_RemoveElement
  <2>4. Cardinality(s) <= k /\ k \in Nat
    BY <1>2 DEF Small
  <2>5. s \ {Max(s)} \in SUBSET S
    BY <2>1
  <2>6. Cardinality(s \ {Max(s)}) <= k - 1
    <3> HIDE DEF T
    <3> QED BY <2>1, <2>3, <2>4
  <2> QED BY <2>5, <2>6 DEF Small
<1>8. Small(S, k - 1) \subseteq Small(S, k)
  BY <1>3, <1>5 DEF Small
<1>9. \A s \in Small(S, k - 1) : h[s] = g[s]
  <2> HIDE DEF base, Step
  <2> TAKE s \in Small(S, k - 1)
  <2>1. g[s] = IF s = {} THEN base ELSE Step(g[s \ {Max(s)}], s)
    BY <1>6 DEF IsFold, base, Step
  <2> QED BY <1>8, <2>1
<1>10. IsFold(tree, old, Small(S, k), h)
  <2> HIDE DEF base, Step
  <2>1. \A s \in Small(S, k) : h[s] = IF s = {} THEN base ELSE Step(g[s \ {Max(s)}], s)
    OBVIOUS
  <2>2. h = [s \in Small(S, k) |-> h[s]]
    OBVIOUS
  <2> HIDE DEF h
  <2>3. \A s \in Small(S, k) : h[s] = IF s = {} THEN base ELSE Step(h[s \ {Max(s)}], s)
    <3> TAKE s \in Small(S, k)
    <3>1. CASE s = {}
      BY <2>1, <3>1
    <3>2. CASE s # {}
      <4>1. h[s \ {Max(s)}] = g[s \ {Max(s)}]
        BY <1>7, <1>9, <3>2
      <4> QED BY <2>1, <3>2, <4>1
    <3> QED BY <3>1, <3>2
  <2>4. h = [s \in Small(S, k) |-> IF s = {} THEN base ELSE Step(h[s \ {Max(s)}], s)]
    BY <2>2, <2>3
  <2> QED BY <2>4, Zenon DEF IsFold, base, Step
<1>11. k \notin T
  <2> HIDE DEF h
  <2> QED BY <1>10
<1> QED BY <1>2, <1>11

\* The numbers and the next free one after the first i nodes.
Acc(tree, old, i) == (CHOOSE g : IsFold(tree, old, SUBSET (DOMAIN tree), g))[1..i]

LEMMA AccIs ==
  ASSUME NEW tree, NEW n \in Nat, DOMAIN tree = 1..n, NEW old
  PROVE  /\ Numbered(tree, old) = Acc(tree, old, n).lines
         /\ Acc(tree, old, 0) = [lines |-> <<>>, next |-> NextLine(old)]
         /\ \A i \in 1..n : Acc(tree, old, i) = NumberNode(old, Acc(tree, old, i - 1), tree[i])
<1> DEFINE S == 1..n
           fold == CHOOSE g : IsFold(tree, old, SUBSET S, g)
<1>1. IsFiniteSet(S) /\ Cardinality(S) \in Nat /\ S \in SUBSET Nat
  BY FS_Interval, FS_CardinalityType
<1>2. Small(S, Cardinality(S)) = SUBSET S
  <2>1. \A s \in SUBSET S : Cardinality(s) <= Cardinality(S)
    BY <1>1, FS_Subset
  <2> QED BY <2>1 DEF Small
<1>3. IsFold(tree, old, SUBSET S, fold)
  <2>1. \E g : IsFold(tree, old, Small(S, Cardinality(S)), g)
    BY <1>1, FoldWithin
  <2> HIDE DEF S
  <2>2. \E g : IsFold(tree, old, SUBSET S, g)
    BY <1>2, <2>1
  <2> QED BY <2>2
<1>4. \A i : Acc(tree, old, i) = fold[1..i]
  BY DEF Acc
<1>5. Numbered(tree, old) = fold[S].lines
  BY NumberedChosen
<1> HIDE DEF fold
<1>6. \A s \in SUBSET S :
        fold[s] = IF s = {} THEN [lines |-> <<>>, next |-> NextLine(old)]
                  ELSE NumberNode(old, fold[s \ {Max(s)}], tree[Max(s)])
  <2> HIDE DEF S
  <2> DEFINE E(s) == IF s = {} THEN [lines |-> <<>>, next |-> NextLine(old)]
                     ELSE NumberNode(old, fold[s \ {Max(s)}], tree[Max(s)])
  <2>1. fold = [s \in SUBSET S |-> E(s)]
    BY <1>3, Zenon DEF IsFold
  <2> HIDE DEF E
  <2>2. \A s \in SUBSET S : fold[s] = E(s)
    BY <2>1
  <2> QED BY <2>2 DEF E
<1>7. Acc(tree, old, 0) = [lines |-> <<>>, next |-> NextLine(old)]
  <2>1. 1..0 = {} /\ {} \in SUBSET S
    OBVIOUS
  <2>2. fold[{}] = [lines |-> <<>>, next |-> NextLine(old)]
    BY <1>6, <2>1
  <2> QED BY <1>4, <2>1, <2>2
<1>8. ASSUME NEW i \in 1..n
      PROVE  Acc(tree, old, i) = NumberNode(old, Acc(tree, old, i - 1), tree[i])
  <2>1. (1..i) \in SUBSET S /\ (1..i) # {} /\ (1..i) \in SUBSET Int
    <3>1. i \in 1..i /\ \A j \in 1..i : j \in S /\ j \in Int
      BY <1>8
    <3> QED BY <3>1
  <2>2. Max(1..i) = i
    <3>1. IsFiniteSet(1..i)
      BY <1>1, <2>1, FS_Subset
    <3>2. Max(1..i) \in 1..i /\ \A y \in 1..i : y <= Max(1..i)
      BY <2>1, <3>1, MaxIs
    <3> QED BY <1>8, <3>2
  <2>3. (1..i) \ {i} = 1..(i - 1)
    BY <1>8
  <2>4. fold[1..i] = NumberNode(old, fold[(1..i) \ {Max(1..i)}], tree[Max(1..i)])
    BY <1>6, <2>1
  <2> QED BY <1>4, <2>2, <2>3, <2>4
<1> QED BY <1>4, <1>5, <1>7, <1>8

\* Induction up to n.
LEMMA InductionTo ==
  ASSUME NEW n \in Nat, NEW G, 0 \in G, \A i \in 1..n : i - 1 \in G => i \in G
  PROVE  \A i \in 0..n : i \in G
<1> DEFINE T == {i \in Nat : i <= n /\ i \notin G}
<1>1. SUFFICES ASSUME T # {} PROVE FALSE
  OBVIOUS
<1>2. PICK k \in T : \A m \in T : k <= m
  BY <1>1, LeastNumber
<1>3. k \in 1..n /\ k - 1 \in Nat /\ k - 1 <= n
  BY <1>2
<1>4. k - 1 \in G
  <2>1. k - 1 \notin T
    <3> HIDE DEF T
    <3> QED BY <1>2, <1>3
  <2> QED BY <1>3, <2>1
<1> QED BY <1>2, <1>3, <1>4

\* Numbers by path as a save reads them.
Numbers(old) == IsFiniteSet(DOMAIN old) /\ \A p \in DOMAIN old : old[p] \in Nat \ {0}

LEMMA NextLineIs ==
  ASSUME NEW old, Numbers(old)
  PROVE  /\ NextLine(old) \in Nat \ {0}
         /\ \A p \in DOMAIN old : old[p] < NextLine(old)
<1> DEFINE f == [p \in DOMAIN old |-> old[p]]
           S == {0} \union {old[p] : p \in DOMAIN old}
<1>1. IsFiniteSet(S)
  <2>1. DOMAIN f = DOMAIN old /\ f = [p \in DOMAIN f |-> f[p]] /\ IsFiniteSet(DOMAIN f)
    BY DEF Numbers
  <2>2. Range(f) = {old[p] : p \in DOMAIN old}
    BY DEF Range
  <2> HIDE DEF f
  <2>3. IsFiniteSet(Range(f))
    BY <2>1, RangeIsFinite
  <2>4. IsFiniteSet({0})
    BY FS_Singleton
  <2>5. IsFiniteSet({0} \union Range(f))
    BY <2>3, <2>4, FS_Union
  <2> QED BY <2>2, <2>5, Zenon
<1>2. S \in SUBSET Int /\ S # {} /\ 0 \in S /\ \A x \in S : x \in Nat
  BY DEF Numbers
<1>3. \A p \in DOMAIN old : old[p] \in S
  OBVIOUS
<1>4. NextLine(old) = 1 + Max(S)
  BY DEF NextLine
<1> HIDE DEF S
<1>5. Max(S) \in S /\ \A y \in S : y <= Max(S)
  BY <1>1, <1>2, MaxIs
<1>6. Max(S) \in Nat
  BY <1>2, <1>5
<1>7. ASSUME NEW p \in DOMAIN old
      PROVE  old[p] < NextLine(old)
  <2>1. old[p] \in Nat /\ old[p] <= Max(S)
    BY <1>2, <1>3, <1>5
  <2> QED BY <1>4, <1>6, <2>1
<1>8. NextLine(old) \in Nat \ {0}
  BY <1>4, <1>6
<1> QED BY <1>7, <1>8

\* The first i nodes have numbers of their own or those of their paths.
Progress(tree, old, acc, i) ==
  /\ acc.lines \in Seq(Nat \ {0}) /\ Len(acc.lines) = i
  /\ acc.next \in Nat /\ NextLine(old) <= acc.next
  /\ \A j \in 1..i : \/ NextLine(old) <= acc.lines[j]
                     \/ tree[j].path \in DOMAIN old /\ acc.lines[j] = old[tree[j].path]

LEMMA ProgressOfNode ==
  ASSUME NEW n \in Nat, NEW tree, NEW old, Numbers(old), NEW i \in 1..n,
         NEW acc, Progress(tree, old, acc, i - 1)
  PROVE  LET after == NumberNode(old, acc, tree[i])
         IN /\ Progress(tree, old, after, i)
            /\ \A j \in 1..(i - 1) : after.lines[j] = acc.lines[j]
            /\ (tree[i].path \in DOMAIN old /\ old[tree[i].path] \notin ToSet(acc.lines))
                 => after.lines[i] = old[tree[i].path]
<1> DEFINE path == tree[i].path
           after == NumberNode(old, acc, tree[i])
           Known == path \in DOMAIN old /\ old[path] \notin ToSet(acc.lines)
           line == IF Known THEN old[path] ELSE acc.next
<1>1. /\ after.lines = Append(acc.lines, line)
      /\ after.next = IF Known THEN acc.next ELSE acc.next + 1
  BY DEF NumberNode
<1>2. /\ acc.lines \in Seq(Nat \ {0}) /\ Len(acc.lines) = i - 1
      /\ acc.next \in Nat /\ NextLine(old) <= acc.next
      /\ \A j \in 1..(i - 1) : \/ NextLine(old) <= acc.lines[j]
                               \/ tree[j].path \in DOMAIN old /\ acc.lines[j] = old[tree[j].path]
  BY DEF Progress
<1>3. NextLine(old) \in Nat \ {0}
  BY NextLineIs
<1>4. line \in Nat \ {0} /\ (Known => line = old[path]) /\ (~ Known => line = acc.next)
  BY <1>2, <1>3 DEF Numbers
<1> HIDE DEF line
<1>5. /\ after.lines \in Seq(Nat \ {0}) /\ Len(after.lines) = i
      /\ after.lines[i] = line
      /\ \A j \in 1..(i - 1) : after.lines[j] = acc.lines[j]
  BY <1>1, <1>2, <1>4
<1>6. after.next \in Nat /\ NextLine(old) <= after.next
  BY <1>1, <1>2, <1>3
<1> HIDE DEF after
<1>7. \A j \in 1..i : \/ NextLine(old) <= after.lines[j]
                      \/ tree[j].path \in DOMAIN old /\ after.lines[j] = old[tree[j].path]
  <2> TAKE j \in 1..i
  <2>1. CASE j = i
    BY <1>2, <1>4, <1>5, <2>1
  <2>2. CASE j # i
    <3>1. j \in 1..(i - 1)
      BY <2>2
    <3>2. after.lines[j] = acc.lines[j]
      BY <1>5, <3>1
    <3> QED BY <1>2, <3>1, <3>2
  <2> QED BY <2>1, <2>2
<1>8. Progress(tree, old, after, i)
  BY <1>5, <1>6, <1>7 DEF Progress
<1>9. Known => after.lines[i] = old[path]
  BY <1>4, <1>5
<1> QED BY <1>5, <1>8, <1>9 DEF after

LEMMA NodeTakesNumber ==
  ASSUME NEW n \in Nat, NEW tree, NEW old, Numbers(old), NEW i \in 1..n,
         NEW acc, Progress(tree, old, acc, i - 1),
         tree[i].path \in DOMAIN old, old[tree[i].path] \notin ToSet(acc.lines)
  PROVE  NumberNode(old, acc, tree[i]).lines[i] = old[tree[i].path]
BY ProgressOfNode

LEMMA AccProgress ==
  ASSUME NEW tree, NEW n \in Nat, DOMAIN tree = 1..n, NEW old, Numbers(old)
  PROVE  \A i \in 0..n : Progress(tree, old, Acc(tree, old, i), i)
<1> DEFINE G == {i \in 0..n : Progress(tree, old, Acc(tree, old, i), i)}
<1>1. 0 \in G
  <2>1. Acc(tree, old, 0) = [lines |-> <<>>, next |-> NextLine(old)]
    BY AccIs
  <2>2. NextLine(old) \in Nat
    BY NextLineIs
  <2> DEFINE acc == Acc(tree, old, 0)
  <2>3. acc.lines = <<>> /\ acc.next = NextLine(old)
    BY <2>1
  <2>4. <<>> \in Seq(Nat \ {0}) /\ Len(<<>>) = 0 /\ 1..0 = {}
    OBVIOUS
  <2> HIDE DEF acc
  <2>5. Progress(tree, old, acc, 0)
    BY <2>2, <2>3, <2>4 DEF Progress
  <2> QED BY <2>5 DEF acc
<1>2. ASSUME NEW i \in 1..n, i - 1 \in G
      PROVE  i \in G
  <2>1. Progress(tree, old, Acc(tree, old, i - 1), i - 1)
    BY <1>2
  <2>2. Acc(tree, old, i) = NumberNode(old, Acc(tree, old, i - 1), tree[i])
    BY AccIs
  <2>3. Progress(tree, old, NumberNode(old, Acc(tree, old, i - 1), tree[i]), i)
    BY <2>1, ProgressOfNode
  <2> QED BY <2>2, <2>3
<1>3. \A i \in 0..n : i \in G
  <2> HIDE DEF G
  <2> QED BY <1>1, <1>2, InductionTo
<1> QED BY <1>3

\* What a step has numbered keeps its number.
LEMMA AccKeeps ==
  ASSUME NEW tree, NEW n \in Nat, DOMAIN tree = 1..n, NEW old, Numbers(old), NEW j \in 1..n
  PROVE  Acc(tree, old, n).lines[j] = Acc(tree, old, j).lines[j]
<1> DEFINE G == {i \in 0..n : j <= i => Acc(tree, old, i).lines[j] = Acc(tree, old, j).lines[j]}
<1>1. 0 \in G
  <2>1. 0 \in 0..n /\ ~ (j <= 0)
    OBVIOUS
  <2> QED BY <2>1, Zenon
<1>2. ASSUME NEW i \in 1..n, i - 1 \in G
      PROVE  i \in G
  <2>1. CASE i < j
    BY <2>1
  <2>2. CASE i = j
    BY <2>2
  <2>3. CASE j < i
    <3>1. Acc(tree, old, i - 1).lines[j] = Acc(tree, old, j).lines[j] /\ j \in 1..(i - 1)
      BY <1>2, <2>3
    <3>2. Acc(tree, old, i) = NumberNode(old, Acc(tree, old, i - 1), tree[i])
      BY AccIs
    <3>3. i - 1 \in 0..n
      OBVIOUS
    <3>4. Progress(tree, old, Acc(tree, old, i - 1), i - 1)
      BY <3>3, AccProgress
    <3>5. NumberNode(old, Acc(tree, old, i - 1), tree[i]).lines[j] = Acc(tree, old, i - 1).lines[j]
      BY <3>1, <3>4, ProgressOfNode
    <3> QED BY <3>1, <3>2, <3>5
  <2> QED BY <2>1, <2>2, <2>3
<1>3. \A i \in 0..n : i \in G
  <2> HIDE DEF G
  <2> QED BY <1>1, <1>2, InductionTo
<1>4. n \in 0..n /\ j <= n
  OBVIOUS
<1> QED BY <1>3, <1>4

\* The numbers of a tree: one for each node, from 1.
LEMMA NumberedType ==
  ASSUME NEW tree \in Seq(Nodes), NEW old, Numbers(old)
  PROVE  Numbered(tree, old) \in Seq(Nat \ {0}) /\ Len(Numbered(tree, old)) = Len(tree)
<1> DEFINE n == Len(tree)
<1>1. n \in Nat /\ DOMAIN tree = 1..n /\ n \in 0..n
  OBVIOUS
<1> HIDE DEF n
<1>2. Progress(tree, old, Acc(tree, old, n), n)
  BY <1>1, AccProgress
<1>3. Numbered(tree, old) = Acc(tree, old, n).lines
  BY <1>1, AccIs
<1> QED BY <1>2, <1>3 DEF Progress, n

-----------------------------------------------------------------------------
(* The rows of a template. *)

\* A row of the template (its code is a string: the two that a row may be
\* given are named for the provers).
RowType == [id : (Nat \ {0}) \X (Nat \ {0}), path : Seq(Titles) \ {<<>>},
            calc : BOOLEAN, leaf : BOOLEAN, code : STRING \union {"none", "UC"}, sort : Nat \ {0},
            line : Nat \ {0}, parent : {<<>>} \union (Nat \X Nat)]

\* Rows with ids of their own, each after its parent.
RowsFit(R) ==
  /\ R \subseteq RowType /\ IsFiniteSet(R)
  /\ \A r, q \in R : r.id = q.id => r = q
  /\ \A r \in R : r.parent # <<>> => r.parent[2] < r.id[2]

LEMMA RowsAreForest ==
  ASSUME NEW R, RowsFit(R)
  PROVE  Forest(R)
<1>1. \A r \in R : /\ r.id \in (Nat \ {0}) \X (Nat \ {0}) /\ r.id[2] \in Nat
                   /\ r.id # <<>>
  BY DEF RowsFit, RowType
<1>2. \A r, q \in R : q.parent = r.id => r.id[2] < q.id[2]
  BY <1>1 DEF RowsFit
<1> QED BY <1>1, <1>2 DEF RowsFit, Forest

\* The rows of a tree saved as the k-th change.
LEMMA TreeRowsFit ==
  ASSUME NEW tree \in Seq(Nodes), NEW old, Numbers(old), NEW k \in Nat \ {0}
  PROVE  /\ RowsFit(TreeRows(tree, old, k))
         /\ \A r \in TreeRows(tree, old, k) : r.id[1] = k
<1> DEFINE lines == Numbered(tree, old)
           parent(i) == IF ParentAt(tree, i) = {} THEN <<>> ELSE <<k, Max(ParentAt(tree, i))>>
           row == [i \in DOMAIN tree |->
                     [id |-> <<k, i>>, path |-> tree[i].path, calc |-> tree[i].calc,
                      leaf |-> tree[i].leaf, code |-> tree[i].code, sort |-> i,
                      line |-> lines[i], parent |-> parent(i)]]
           R == TreeRows(tree, old, k)
<1>1. R = Range(row)
  <2>1. \A i \in DOMAIN tree : row[i] =
          [id |-> <<k, i>>, path |-> tree[i].path, calc |-> tree[i].calc,
           leaf |-> tree[i].leaf, code |-> tree[i].code, sort |-> i,
           line |-> lines[i], parent |-> parent(i)]
    OBVIOUS
  <2>2. R = {row[i] : i \in DOMAIN tree}
    <3> HIDE DEF row, parent, lines
    <3> QED BY <2>1 DEF TreeRows, parent, lines
  <2>3. DOMAIN row = DOMAIN tree
    OBVIOUS
  <2> HIDE DEF row, R
  <2> QED BY <2>2, <2>3 DEF Range
<1>2. /\ DOMAIN tree = 1..Len(tree) /\ Len(tree) \in Nat
      /\ DOMAIN lines = 1..Len(tree) /\ \A i \in DOMAIN tree : lines[i] \in Nat \ {0}
  BY NumberedType
<1>3. \A i \in DOMAIN tree : tree[i] \in Nodes /\ i \in Nat \ {0}
  BY <1>2
<1>4. \A i \in DOMAIN tree : parent(i) # <<>> => parent(i) \in Nat \X Nat /\ parent(i)[2] < i
  <2> TAKE i \in DOMAIN tree
  <2> HAVE parent(i) # <<>>
  <2>1. /\ ParentAt(tree, i) # {} /\ ParentAt(tree, i) \subseteq 1..(i - 1)
        /\ parent(i) = <<k, Max(ParentAt(tree, i))>>
    BY DEF ParentAt
  <2>2. IsFiniteSet(ParentAt(tree, i)) /\ ParentAt(tree, i) \in SUBSET Int
    <3>1. IsFiniteSet(1..(i - 1))
      BY <1>3, FS_Interval
    <3>2. \A j \in 1..(i - 1) : j \in Int
      OBVIOUS
    <3> QED BY <2>1, <3>1, <3>2, FS_Subset
  <2>3. Max(ParentAt(tree, i)) \in 1..(i - 1)
    BY <2>1, <2>2, MaxIs
  <2>4. Max(ParentAt(tree, i)) \in Nat /\ Max(ParentAt(tree, i)) < i
    BY <1>3, <2>3
  <2> HIDE DEF parent
  <2> QED BY <2>1, <2>4
<1> HIDE DEF lines, parent
<1>5. \A i \in DOMAIN tree :
        /\ row[i] \in RowType /\ row[i].id = <<k, i>>
        /\ row[i].parent # <<>> => row[i].parent[2] < row[i].id[2]
  <2> TAKE i \in DOMAIN tree
  <2>1. row[i] = [id |-> <<k, i>>, path |-> tree[i].path, calc |-> tree[i].calc,
                  leaf |-> tree[i].leaf, code |-> tree[i].code, sort |-> i,
                  line |-> lines[i], parent |-> parent(i)]
    OBVIOUS
  <2>2. /\ tree[i].path \in Seq(Titles) \ {<<>>} /\ tree[i].calc \in BOOLEAN
        /\ tree[i].leaf \in BOOLEAN /\ tree[i].code \in STRING
    BY <1>3 DEF Nodes
  <2>3. /\ <<k, i>> \in (Nat \ {0}) \X (Nat \ {0}) /\ i \in Nat \ {0} /\ lines[i] \in Nat \ {0}
        /\ parent(i) \in {<<>>} \union (Nat \X Nat)
    BY <1>2, <1>3, <1>4
  <2>4. parent(i) # <<>> => parent(i)[2] < i
    BY <1>4
  <2> HIDE DEF row
  <2>5. row[i] \in RowType
    BY <2>1, <2>2, <2>3 DEF RowType
  <2> QED BY <2>1, <2>4, <2>5
<1>6. IsFiniteSet(R)
  <2>1. IsFiniteSet(DOMAIN row) /\ row = [i \in DOMAIN row |-> row[i]]
    BY <1>2, FS_Interval
  <2> HIDE DEF row, R
  <2> QED BY <1>1, <2>1, RangeIsFinite
<1>7. DOMAIN row = DOMAIN tree
  OBVIOUS
<1> HIDE DEF row, R
<1>8. \A r \in R : \E i \in DOMAIN tree : r = row[i]
  BY <1>1, <1>7 DEF Range
<1>9. R \subseteq RowType
  BY <1>5, <1>8
<1>10. \A r, q \in R : r.id = q.id => r = q
  <2> TAKE r \in R, q \in R
  <2> HAVE r.id = q.id
  <2>1. PICK i \in DOMAIN tree : r = row[i]
    BY <1>8
  <2>2. PICK j \in DOMAIN tree : q = row[j]
    BY <1>8
  <2>3. r.id = <<k, i>> /\ q.id = <<k, j>>
    BY <1>5, <2>1, <2>2
  <2> QED BY <2>1, <2>2, <2>3
<1>11. \A r \in R : r.parent # <<>> => r.parent[2] < r.id[2]
  BY <1>5, <1>8
<1>12. \A r \in R : r.id[1] = k
  BY <1>5, <1>8
<1> QED BY <1>6, <1>9, <1>10, <1>11, <1>12 DEF RowsFit, R

\* The number of the next change of the rows: no row is of it yet.
LEMMA NextChange ==
  ASSUME NEW R, RowsFit(R)
  PROVE  LET k == 1 + Max({0} \union {r.id[1] : r \in R})
         IN k \in Nat \ {0} /\ \A r \in R : r.id[1] < k
<1> DEFINE f == [r \in R |-> r.id[1]]
           S == {0} \union {r.id[1] : r \in R}
<1>1. \A r \in R : r.id[1] \in Nat \ {0}
  BY DEF RowsFit, RowType
<1>2. IsFiniteSet(S)
  <2>1. DOMAIN f = R /\ f = [p \in DOMAIN f |-> f[p]] /\ IsFiniteSet(DOMAIN f)
    BY DEF RowsFit
  <2>2. Range(f) = {r.id[1] : r \in R}
    BY DEF Range
  <2> HIDE DEF f
  <2>3. IsFiniteSet(Range(f))
    BY <2>1, RangeIsFinite
  <2>4. IsFiniteSet({0})
    BY FS_Singleton
  <2>5. IsFiniteSet({0} \union Range(f))
    BY <2>3, <2>4, FS_Union
  <2> QED BY <2>2, <2>5, Zenon
<1>3. S \in SUBSET Int /\ S # {} /\ (\A x \in S : x \in Nat) /\ \A r \in R : r.id[1] \in S
  BY <1>1
<1> HIDE DEF S
<1>4. Max(S) \in S /\ \A y \in S : y <= Max(S)
  BY <1>2, <1>3, MaxIs
<1>5. Max(S) \in Nat
  BY <1>3, <1>4
<1>6. 1 + Max(S) \in Nat \ {0}
  BY <1>5
<1>7. ASSUME NEW r \in R
      PROVE  r.id[1] < 1 + Max(S)
  <2>1. r.id[1] \in Nat /\ r.id[1] <= Max(S)
    BY <1>1, <1>3, <1>4
  <2> QED BY <1>5, <2>1
<1> QED BY <1>6, <1>7 DEF S

\* The numbers by path that a save reads are numbers of rows with the path.
LEMMA LineOfFits ==
  ASSUME NEW R, RowsFit(R), NEW old \in LineOf(R)
  PROVE  /\ Numbers(old) /\ DOMAIN old = {r.path : r \in R}
         /\ \A p \in DOMAIN old : \E r \in R : r.path = p /\ old[p] = r.line
<1> DEFINE linesAt(p) == {r.line : r \in {q \in R : q.path = p}}
           paths == {r.path : r \in R}
           doubled == {p \in paths : Cardinality(linesAt(p)) > 1}
           one == [p \in paths |-> CHOOSE n \in linesAt(p) : TRUE]
           choices == {f \in [doubled -> {r.line : r \in R}] :
                          \A p \in doubled : f[p] \in linesAt(p)}
<1>1. PICK f \in choices : old = f ++ one
  BY DEF LineOf
<1>2. DOMAIN f = doubled /\ \A p \in doubled : f[p] \in linesAt(p)
  BY <1>1
<1>3. \A p \in paths : one[p] \in linesAt(p)
  OBVIOUS
<1> HIDE DEF linesAt
<1>4. DOMAIN old = paths /\ \A p \in paths : old[p] \in linesAt(p)
  <2>1. doubled \subseteq paths /\ DOMAIN one = paths
    OBVIOUS
  <2> HIDE DEF doubled, paths, one, choices
  <2>2. old = [p \in doubled \union paths |-> IF p \in doubled THEN f[p] ELSE one[p]]
    BY <1>1, <1>2, <2>1 DEF ++
  <2>3. /\ DOMAIN old = doubled \union paths
        /\ \A p \in doubled \union paths : old[p] = IF p \in doubled THEN f[p] ELSE one[p]
    BY <2>2
  <2> QED BY <1>2, <1>3, <2>1, <2>3
<1>5. IsFiniteSet(paths)
  <2> DEFINE pathOf == [r \in R |-> r.path]
  <2>1. DOMAIN pathOf = R /\ pathOf = [r \in DOMAIN pathOf |-> pathOf[r]] /\ IsFiniteSet(R)
    BY DEF RowsFit
  <2>2. Range(pathOf) = paths
    BY DEF Range
  <2> HIDE DEF pathOf, paths
  <2>3. IsFiniteSet(Range(pathOf))
    BY <2>1, RangeIsFinite
  <2> QED BY <2>2, <2>3
<1>6. \A p \in paths : \E r \in R : r.path = p /\ old[p] = r.line
  BY <1>4 DEF linesAt
<1>7. \A r \in R : r.line \in Nat \ {0}
  BY DEF RowsFit, RowType
<1> HIDE DEF paths
<1> QED BY <1>4, <1>5, <1>6, <1>7 DEF Numbers, paths

-----------------------------------------------------------------------------
(* The template: one lemma for each action. *)

\* A save: its tree is of the trees, its numbers are numbers of lines.
SaveFits(s) ==
  /\ DOMAIN s = {"step", "tree", "old", "doomed"}
  /\ s.step \in {"idle", "read", "waiting", "deleted"}
  /\ s.tree \in Trees \union {<<>>}
  /\ Numbers(s.old)

SavesFit == DOMAIN saving = Admins /\ \A a \in Admins : SaveFits(saving[a])
FormatsFit(M) == \A c \in DOMAIN M : M[c].format \in Formats

\* The inductive invariant of the template.
TemplateInv ==
  /\ RowsFit(rows)
  /\ SavesFit
  /\ FormatsFit(metrics)
  /\ saves \in 0..MaxSaves

LEMMA NoNumbers == Numbers(<<>>)
<1>1. DOMAIN <<>> = {}
  OBVIOUS
<1> QED BY <1>1, FS_EmptySet DEF Numbers

LEMMA IdleFits == SaveFits(Idle)
<1>1. Idle = [step |-> "idle", tree |-> <<>>, old |-> <<>>, doomed |-> {}]
  BY DEF Idle
<1> QED BY <1>1, NoNumbers DEF SaveFits

LEMMA TemplateStart == TemplateInit => TemplateInv
<1> SUFFICES ASSUME TemplateInit
             PROVE  TemplateInv
  OBVIOUS
<1>1. RowsFit(rows)
  BY FS_EmptySet DEF TemplateInit, RowsFit
<1>2. SavesFit
  BY IdleFits DEF TemplateInit, SavesFit
<1>3. FormatsFit(metrics) /\ saves \in 0..MaxSaves
  BY PnlTemplateAssumption DEF TemplateInit, FormatsFit
<1> QED BY <1>1, <1>2, <1>3 DEF TemplateInv

\* One save changes, the others stay.
LEMMA SavesStep ==
  ASSUME SavesFit, NEW a \in Admins, NEW s, SaveFits(s), saving' = [saving EXCEPT ![a] = s]
  PROVE  SavesFit'
<1>1. DOMAIN saving' = Admins /\ \A b \in Admins : saving'[b] = IF b = a THEN s ELSE saving[b]
  BY DEF SavesFit
<1>2. \A b \in Admins : SaveFits(saving'[b])
  BY <1>1 DEF SavesFit
<1>3. \A b \in Admins : SaveFits(saving[b])'
  BY <1>2 DEF SaveFits, Numbers
<1> QED BY <1>1, <1>3 DEF SavesFit

LEMMA SaveTemplateStep ==
  ASSUME TemplateInv, NEW a \in Admins, NEW tree \in Trees, SaveTemplate(a, tree)
  PROVE  TemplateInv'
<1>1. PICK old \in LineOf(rows) :
        saving' = [saving EXCEPT ![a] = [step |-> "read", tree |-> tree,
                                         old |-> old, doomed |-> {}]]
  BY DEF SaveTemplate
<1>2. Numbers(old)
  BY LineOfFits DEF TemplateInv
<1>3. SaveFits([step |-> "read", tree |-> tree, old |-> old, doomed |-> {}])
  BY <1>2 DEF SaveFits
<1>4. SavesFit'
  BY <1>1, <1>3, SavesStep DEF TemplateInv
<1>5. saves' \in 0..MaxSaves /\ rows' = rows /\ metrics' = metrics
  BY PnlTemplateAssumption DEF TemplateInv, SaveTemplate
<1> QED BY <1>4, <1>5 DEF TemplateInv, RowsFit, FormatsFit

LEMMA ClearTemplateStep ==
  ASSUME TemplateInv, NEW a \in Admins, ClearTemplate(a)
  PROVE  TemplateInv'
<1> DEFINE s == [saving[a] EXCEPT !.step = "read"]
<1>1. SaveFits(s)
  BY DEF TemplateInv, SavesFit, SaveFits
<1>2. saving' = [saving EXCEPT ![a] = s]
  BY DEF ClearTemplate
<1> HIDE DEF s
<1>3. SavesFit'
  BY <1>1, <1>2, SavesStep DEF TemplateInv
<1>4. saves' \in 0..MaxSaves /\ rows' = rows /\ metrics' = metrics
  BY PnlTemplateAssumption DEF TemplateInv, ClearTemplate
<1> QED BY <1>3, <1>4 DEF TemplateInv, RowsFit, FormatsFit

LEMMA DeleteBeginsStep ==
  ASSUME TemplateInv, NEW a \in Admins, DeleteBegins(a)
  PROVE  TemplateInv'
<1> DEFINE s == [saving[a] EXCEPT !.doomed = rows,
                   !.step = IF rows \intersect Held # {} THEN "waiting" ELSE "deleted"]
           step == IF rows \intersect Held # {} THEN "waiting" ELSE "deleted"
<1>1. SaveFits(s)
  <2>1. SaveFits(saving[a]) /\ step \in {"idle", "read", "waiting", "deleted"}
    BY DEF TemplateInv, SavesFit
  <2> HIDE DEF step
  <2> QED BY <2>1 DEF SaveFits, step
<1>2. saving' = [saving EXCEPT ![a] = s]
  BY DEF DeleteBegins, TemplateInv, SavesFit
<1> HIDE DEF s
<1>3. SavesFit'
  BY <1>1, <1>2, SavesStep DEF TemplateInv
<1> QED BY <1>3 DEF TemplateInv, DeleteBegins, RowsFit, FormatsFit

LEMMA DeleteResumesStep ==
  ASSUME TemplateInv, NEW a \in Admins, DeleteResumes(a)
  PROVE  TemplateInv'
<1> DEFINE s == [saving[a] EXCEPT !.step = "deleted"]
<1>1. SaveFits(s)
  BY DEF TemplateInv, SavesFit, SaveFits
<1>2. saving' = [saving EXCEPT ![a] = s]
  BY DEF DeleteResumes
<1> HIDE DEF s
<1>3. SavesFit'
  BY <1>1, <1>2, SavesStep DEF TemplateInv
<1> QED BY <1>3 DEF TemplateInv, DeleteResumes, RowsFit, FormatsFit

LEMMA CommitTemplateStep ==
  ASSUME TemplateInv, NEW a \in Admins, CommitTemplate(a)
  PROVE  TemplateInv'
<1> DEFINE k == 1 + Max({0} \union {r.id[1] : r \in rows})
           remain == rows \ saving[a].doomed
           new == TreeRows(saving[a].tree, saving[a].old, k)
<1>1. RowsFit(rows) /\ SavesFit /\ SaveFits(saving[a])
  BY DEF TemplateInv, SavesFit
<1>2. k \in Nat \ {0} /\ \A r \in rows : r.id[1] < k
  BY <1>1, NextChange
<1>3. saving[a].tree \in Seq(Nodes) /\ Numbers(saving[a].old)
  <2>1. saving[a].tree \in Trees \/ saving[a].tree = <<>>
    BY <1>1 DEF SaveFits
  <2>2. \A t \in Trees : t \in Seq(Nodes)
    BY PnlTemplateAssumption
  <2>3. <<>> \in Seq(Nodes)
    OBVIOUS
  <2>4. Numbers(saving[a].old)
    BY <1>1 DEF SaveFits
  <2> QED BY <2>1, <2>2, <2>3, <2>4
<1>4. rows' = remain \union new
  BY DEF CommitTemplate
<1> HIDE DEF k
<1>5. RowsFit(new) /\ \A r \in new : r.id[1] = k
  BY <1>2, <1>3, TreeRowsFit
<1>6. \A r \in remain : r \in rows /\ r.id[1] # k
  <2> TAKE r \in remain
  <2>1. r \in rows /\ r.id[1] < k /\ r.id[1] \in Nat
    BY <1>1, <1>2 DEF RowsFit, RowType
  <2> QED BY <1>2, <2>1
<1> HIDE DEF remain, new
<1>7. RowsFit(remain \union new)
  <2>1. remain \union new \subseteq RowType /\ remain \subseteq rows
    BY <1>1, <1>5, <1>6 DEF RowsFit
  <2>2. IsFiniteSet(remain \union new)
    <3>1. IsFiniteSet(remain) /\ IsFiniteSet(new)
      BY <1>1, <1>5, <2>1, FS_Subset DEF RowsFit
    <3> QED BY <3>1, FS_Union
  <2>3. \A r, q \in remain \union new : r.id = q.id => r = q
    <3> TAKE r \in remain \union new, q \in remain \union new
    <3> HAVE r.id = q.id
    <3>1. CASE r \in remain /\ q \in remain
      BY <1>1, <1>6, <3>1 DEF RowsFit
    <3>2. CASE r \in new /\ q \in new
      BY <1>5, <3>2 DEF RowsFit
    <3>3. CASE r \in remain /\ q \in new
      BY <1>5, <1>6, <3>3
    <3>4. CASE r \in new /\ q \in remain
      BY <1>5, <1>6, <3>4
    <3> QED BY <3>1, <3>2, <3>3, <3>4
  <2>4. \A r \in remain \union new : r.parent # <<>> => r.parent[2] < r.id[2]
    BY <1>1, <1>5, <1>6 DEF RowsFit
  <2> QED BY <2>1, <2>2, <2>3, <2>4 DEF RowsFit
<1>8. RowsFit(rows)'
  BY <1>4, <1>7 DEF RowsFit
<1>9. SavesFit'
  BY <1>1, IdleFits, SavesStep DEF CommitTemplate
<1> QED BY <1>8, <1>9 DEF TemplateInv, CommitTemplate, FormatsFit

LEMMA PatchTemplateNodeStep ==
  ASSUME TemplateInv, NEW r \in rows, NEW code \in {"none", "UC"}, PatchTemplateNode(r, code)
  PROVE  TemplateInv'
<1> DEFINE q == [r EXCEPT !.code = code]
           others == rows \ {r}
<1>1. RowsFit(rows) /\ r \in RowType
  BY DEF TemplateInv, RowsFit
<1>2. q \in RowType /\ q.id = r.id /\ q.parent = r.parent
  <2>1. r \in RowType /\ code \in STRING \union {"none", "UC"}
    BY <1>1
  <2> QED BY <2>1 DEF RowType
<1>3. rows' = others \union {q}
  BY DEF PatchTemplateNode
<1> HIDE DEF q
<1>4. RowsFit(others \union {q})
  <2>1. others \union {q} \subseteq RowType
    BY <1>1, <1>2 DEF RowsFit
  <2>2. IsFiniteSet(others \union {q})
    <3>1. IsFiniteSet(others) /\ IsFiniteSet({q})
      BY <1>1, FS_Subset, FS_Singleton DEF RowsFit
    <3> QED BY <3>1, FS_Union
  <2>3. \A x, y \in others \union {q} : x.id = y.id => x = y
    BY <1>1, <1>2 DEF RowsFit
  <2>4. \A x \in others \union {q} : x.parent # <<>> => x.parent[2] < x.id[2]
    BY <1>1, <1>2 DEF RowsFit
  <2> QED BY <2>1, <2>2, <2>3, <2>4 DEF RowsFit
<1>5. RowsFit(rows)'
  BY <1>3, <1>4 DEF RowsFit
<1>6. saves' \in 0..MaxSaves /\ saving' = saving /\ metrics' = metrics
  BY PnlTemplateAssumption DEF TemplateInv, PatchTemplateNode
<1> QED BY <1>5, <1>6 DEF TemplateInv, SavesFit, SaveFits, Numbers, FormatsFit

LEMMA MetricSpecFormats == \A i \in DOMAIN MetricSpec : MetricSpec[i][2] \in Formats
BY DEF MetricSpec, Formats

LEMMA GatheredFit == FormatsFit(GatherMetrics(rows))
<1> DEFINE Of(sown, G) == [c \in {MetricSpec[i][1] : i \in sown} |->
              LET i == CHOOSE i \in sown : MetricSpec[i][1] = c
              IN Metric(G[c], MetricSpec[i][2], MetricSpec[i][3])]
<1> QED BY MetricSpecFormats DEF FormatsFit, GatherMetrics, Metric

LEMMA MetricsStep ==
  ASSUME TemplateInv, FormatsFit(metrics'), saves' \in 0..MaxSaves, rows' = rows, saving' = saving
  PROVE  TemplateInv'
<1>1. FormatsFit(metrics)'
  BY DEF FormatsFit
<1> QED BY <1>1 DEF TemplateInv, RowsFit, SavesFit, SaveFits, Numbers

LEMMA TemplateStep == TemplateInv /\ [TemplateNext]_templateVars => TemplateInv'
<1> SUFFICES ASSUME TemplateInv, [TemplateNext]_templateVars
             PROVE  TemplateInv'
  OBVIOUS
<1>1. CASE UNCHANGED templateVars
  BY <1>1 DEF templateVars, TemplateInv, RowsFit, SavesFit, SaveFits, Numbers, FormatsFit
<1>2. ASSUME NEW a \in Admins, NEW tree \in Trees, SaveTemplate(a, tree)
      PROVE  TemplateInv'
  BY <1>2, SaveTemplateStep
<1>3. ASSUME NEW a \in Admins, ClearTemplate(a)
      PROVE  TemplateInv'
  BY <1>3, ClearTemplateStep
<1>4. ASSUME NEW a \in Admins, DeleteBegins(a)
      PROVE  TemplateInv'
  BY <1>4, DeleteBeginsStep
<1>5. ASSUME NEW a \in Admins, DeleteResumes(a)
      PROVE  TemplateInv'
  BY <1>5, DeleteResumesStep
<1>6. ASSUME NEW a \in Admins, CommitTemplate(a)
      PROVE  TemplateInv'
  BY <1>6, CommitTemplateStep
<1>7. ASSUME NEW r \in rows, NEW code \in {"none", "UC"}, PatchTemplateNode(r, code)
      PROVE  TemplateInv'
  BY <1>7, PatchTemplateNodeStep
<1>8. ASSUME NEW m \in WrittenMetrics, UpsertMetric(m)
      PROVE  TemplateInv'
  <2>1. FormatsFit(metrics')
    BY <1>8, PnlTemplateAssumption DEF TemplateInv, FormatsFit, UpsertMetric, Put, Metric
  <2>2. saves' \in 0..MaxSaves /\ rows' = rows /\ saving' = saving
    BY <1>8, PnlTemplateAssumption DEF TemplateInv, UpsertMetric
  <2> QED BY <2>1, <2>2, MetricsStep
<1>9. ASSUME NEW code \in DOMAIN metrics, DeleteMetric(code)
      PROVE  TemplateInv'
  <2>1. FormatsFit(metrics')
    BY <1>9 DEF TemplateInv, FormatsFit, DeleteMetric
  <2>2. saves' \in 0..MaxSaves /\ rows' = rows /\ saving' = saving
    BY <1>9, PnlTemplateAssumption DEF TemplateInv, DeleteMetric
  <2> QED BY <2>1, <2>2, MetricsStep
<1>10. ASSUME NEW reseed \in BOOLEAN, SeedMetrics(reseed)
       PROVE  TemplateInv'
  <2>1. FormatsFit(metrics')
    <3>1. metrics' = IF reseed THEN GatherMetrics(rows) ELSE metrics ++ GatherMetrics(rows)
      BY <1>10 DEF SeedMetrics
    <3>2. FormatsFit(metrics) /\ FormatsFit(GatherMetrics(rows))
      BY GatheredFit DEF TemplateInv
    <3>3. \A f, g : FormatsFit(f) /\ FormatsFit(g) => FormatsFit(f ++ g)
      BY DEF FormatsFit, ++
    <3> QED BY <3>1, <3>2, <3>3
  <2>2. saves' \in 0..MaxSaves /\ rows' = rows /\ saving' = saving
    BY <1>10, PnlTemplateAssumption DEF TemplateInv, SeedMetrics
  <2> QED BY <2>1, <2>2, MetricsStep
<1> QED BY <1>1, <1>2, <1>3, <1>4, <1>5, <1>6, <1>7, <1>8, <1>9, <1>10 DEF TemplateNext

-----------------------------------------------------------------------------
(* The month with its template. *)

\* The inductive invariant of the month with its template.
FiguresInv ==
  /\ TemplateInv
  /\ SnapshotIsOfParts
  /\ snapshot # <<>> => DOMAIN snapshot.codes = DOMAIN Categories

LEMMA TemplateTypes == TemplateInv => TemplateTypeOK
<1> SUFFICES ASSUME TemplateInv
             PROVE  TemplateTypeOK
  OBVIOUS
<1>1. \A r \in rows : r.path \in Seq(Titles) /\ r.line \in Nat \ {0}
  BY DEF TemplateInv, RowsFit, RowType
<1>2. \A a \in Admins : /\ saving[a].step \in {"idle", "read", "waiting", "deleted"}
                        /\ saving[a].tree \in Trees \union {<<>>}
  BY DEF TemplateInv, SavesFit, SaveFits
<1>3. (\A c \in DOMAIN metrics : metrics[c].format \in Formats) /\ saves \in 0..MaxSaves
  BY DEF TemplateInv, FormatsFit
<1> QED BY <1>1, <1>2, <1>3 DEF TemplateTypeOK

LEMMA FiguresStart == FiguresInit => FiguresInv
BY TemplateStart, SnapshotStart DEF FiguresInit, FiguresInv

LEMMA FiguresStep == FiguresInv /\ [FiguresNext]_figuresVars => FiguresInv'
<1> SUFFICES ASSUME FiguresInv, [FiguresNext]_figuresVars
             PROVE  FiguresInv'
  OBVIOUS
<1>1. SnapshotIsOfParts'
  BY SnapshotStep DEF FiguresInv
<1>2. TemplateInv'
  <2>1. [TemplateNext]_templateVars
    BY DEF FiguresNext, EnterPart, FreezeMonth, figuresVars, templateVars
  <2> QED BY <2>1, TemplateStep DEF FiguresInv
<1>3. (snapshot # <<>> => DOMAIN snapshot.codes = DOMAIN Categories)'
  <2>1. CASE UNCHANGED snapshot
    BY <2>1 DEF FiguresInv
  <2>2. ASSUME NEW filter \in Filters, FreezeMonth(filter)
        PROVE  DOMAIN snapshot'.codes = DOMAIN Categories
    <3>1. snapshot' = [agg   |-> Aggregates(parts, SnapshotProjects(filter), CodesOf(rows)),
                       codes |-> CodesOf(rows)]
      BY <2>2, Zenon DEF FreezeMonth
    <3>2. snapshot'.codes = CodesOf(rows)
      BY <3>1
    <3>3. DOMAIN CodesOf(rows) = DOMAIN Categories
      BY DEF CodesOf
    <3> QED BY <3>2, <3>3
  <2> QED BY <2>1, <2>2 DEF FiguresNext, EnterPart, figuresVars
<1> QED BY <1>1, <1>2, <1>3 DEF FiguresInv

LEMMA FiguresAreFit == FiguresSpec => []FiguresInv
BY FiguresStart, FiguresStep, PTL DEF FiguresSpec

\* The types of the month, its template and its metrics (store.py
\* replace_template_tree, update_template_node, upsert_metric, seed_metrics;
\* pnl.py): rows with paths of titles and positive numbers, saves of known
\* trees at known steps, metrics of the three formats, finitely many parts and
\* a code for each category in a snapshot.
THEOREM FiguresTypes == FiguresSpec => []FiguresTypeOK
<1>1. FiguresInv => FiguresTypeOK
  BY TemplateTypes DEF FiguresInv, SnapshotIsOfParts, FiguresTypeOK
<1> QED BY <1>1, FiguresAreFit, PTL

-----------------------------------------------------------------------------
(* The rows of the template explain their amounts. *)

LEMMA RowsOfCategories ==
  ASSUME NEW R, NEW codes
  PROVE  DOMAIN RowOf(R, codes) \subseteq DOMAIN Categories
<1> DEFINE path(c)  == Categories[c].path
           same(c)  == {r \in R : r.path = path(c)}
           ends(c)  == {r \in R : IsSuffix(path(c), r.path)}
           above(c) == {r \in R : IsStrictPrefix(r.path, path(c))}
           named(c) == {r \in R : r.leaf /\ ~ r.calc /\ Title(r) = Last(path(c))}
           coded(c) == {r \in named(c) : codes[c] # "none" /\ r.code = codes[c]}
           found(c) == IF same(c) # {} THEN same(c)
                       ELSE IF ends(c) # {} THEN ends(c)
                       ELSE IF above(c) # {} THEN above(c)
                       ELSE IF coded(c) # {} THEN coded(c) ELSE named(c)
           placed == {<<c, Deepest(found(c))>> : c \in {d \in DOMAIN Categories : found(d) # {}}}
           F == [c \in {x[1] : x \in placed} |-> (CHOOSE x \in placed : x[1] = c)[2]]
<1>1. RowOf(R, codes) = F
  BY DEF RowOf
<1> HIDE DEF found
<1>2. \A x \in placed : x[1] \in DOMAIN Categories
  OBVIOUS
<1> HIDE DEF placed
<1>3. DOMAIN F \subseteq DOMAIN Categories
  BY <1>2
<1> QED BY <1>1, <1>3

LEMMA CategoriesBringIntegers ==
  ASSUME NEW P, IsFiniteSet(P), P \subseteq Parts, NEW projects, NEW codes, NEW pid, NEW cid
  PROVE  Got(Aggregates(P, projects, codes).cats, <<pid, cid>>) \in Int
<1> DEFINE own == CategoryParts(P, pid, cid, codes)
<1>1. Got(Aggregates(P, projects, codes).cats, <<pid, cid>>)
        = IF pid \in projects THEN SumFunction(SignedParts(own)) ELSE 0
  BY GotAggregates
<1>2. own \subseteq P /\ IsFiniteSet(own)
  <2>1. own \subseteq P
    BY DEF CategoryParts, CodedParts
  <2> QED BY <2>1, FS_Subset
<1>3. \A p \in own : p.value \in Int
  BY <1>2, PnlFiguresAssumption
<1> HIDE DEF own
<1>4. SumFunction(SignedParts(own)) \in Int
  <2>1. DOMAIN SignedParts(own) = own /\ \A p \in own : SignedParts(own)[p] \in Int
    BY <1>3, SignedIsInteger DEF SignedParts
  <2>2. SumFunctionOnSet(SignedParts(own), own) \in Int
    BY <1>2, <2>1, SumType
  <2> QED BY <2>1, <2>2 DEF SumFunction
<1> QED BY <1>1, <1>4

LEMMA DrillExplains ==
  ASSUME RowsFit(rows), IsFiniteSet(parts), parts \subseteq Parts
  PROVE  DrillExplainsAmount
<1> DEFINE codes == CodesOf(rows)
           agg   == Aggregates(parts, Projects, codes)
           rowOf == RowOf(rows, codes)
<1>1. Forest(rows)
  BY RowsAreForest
<1>2. IsFiniteSet(DOMAIN rowOf)
  BY RowsOfCategories, PnlFiguresAssumption, FS_Subset
<1> HIDE DEF codes
<1>3. \A p, c : Got(agg.cats, <<p, c>>) \in Int
  BY CategoriesBringIntegers
<1> HIDE DEF agg, rowOf
<1>4. \A r \in rows, p \in Projects :
        Rollup(rows, Direct(agg, rows, rowOf, p))[r]
          = SumFunction([c \in CategoriesOf(rows, rowOf, r) |-> Got(agg.cats, <<p, c>>)])
  BY <1>1, <1>2, <1>3, RollupOfCategories
<1>5. ASSUME NEW r \in rows, NEW q \in rows,
             r \notin Branches(rows)[q], q \notin Branches(rows)[r]
      PROVE  CategoriesOf(rows, rowOf, r) \intersect CategoriesOf(rows, rowOf, q) = {}
  BY <1>1, <1>5, BranchesNest DEF CategoriesOf
<1> QED BY <1>4, <1>5, Zenon DEF DrillExplainsAmount, codes, agg, rowOf

\* The amount of each row of the template, with all that lies under it, is
\* what the categories listed for its drill-down brought, and rows on
\* different branches list different ones (pnl.py build_template_breakdown:
\* _rollup and cats_rollup walk the same tree), after any saves of the
\* template, overlapping ones too.
THEOREM RowsExplainTheirAmounts == FiguresSpec => []DrillExplainsAmount
<1>1. FiguresInv => DrillExplainsAmount
  BY DrillExplains DEF FiguresInv, TemplateInv, SnapshotIsOfParts
<1> QED BY <1>1, FiguresAreFit, PTL

-----------------------------------------------------------------------------
(* A path keeps its number. *)

\* If only one table of numbers can be read, each row's number is its path's.
LEMMA NumbersReadAre ==
  ASSUME NEW R, RowsFit(R), NEW old, LineOf(R) = {old}, NEW r \in R
  PROVE  r.path \in DOMAIN old /\ old[r.path] = r.line
<1> DEFINE linesAt(p) == {x.line : x \in {q \in R : q.path = p}}
           paths == {x.path : x \in R}
           doubled == {p \in paths : Cardinality(linesAt(p)) > 1}
           one == [p \in paths |-> CHOOSE n \in linesAt(p) : TRUE]
           choices == {f \in [doubled -> {x.line : x \in R}] :
                          \A p \in doubled : f[p] \in linesAt(p)}
           f == [p \in doubled |-> IF p = r.path THEN r.line ELSE one[p]]
<1>1. \A g \in choices : old = g ++ one
  BY DEF LineOf
<1>2. \A p \in paths : one[p] \in linesAt(p) /\ linesAt(p) \subseteq {x.line : x \in R}
  OBVIOUS
<1>3. r.path \in paths /\ r.line \in linesAt(r.path)
  OBVIOUS
<1> HIDE DEF linesAt
<1>4. old = f ++ one
  <2>1. \A p \in doubled : f[p] \in linesAt(p) /\ f[p] \in {x.line : x \in R}
    BY <1>2, <1>3
  <2>2. f \in [doubled -> {x.line : x \in R}]
    BY <2>1
  <2> HIDE DEF f
  <2>3. f \in choices
    BY <2>1, <2>2
  <2> QED BY <1>1, <2>3
<1>5. CASE r.path \in doubled
  <2>1. DOMAIN f = doubled /\ DOMAIN one = paths /\ f[r.path] = r.line
    BY <1>5
  <2> HIDE DEF f, one, doubled, paths
  <2> QED BY <1>4, <1>5, <2>1 DEF ++
<1>6. CASE r.path \notin doubled
  <2>1. IsFiniteSet(linesAt(r.path))
    <3> DEFINE S == {q \in R : q.path = r.path}
               line == [q \in S |-> q.line]
    <3>1. IsFiniteSet(S)
      BY FS_Subset DEF RowsFit
    <3>2. DOMAIN line = S /\ line = [q \in DOMAIN line |-> line[q]]
      OBVIOUS
    <3>3. Range(line) = linesAt(r.path)
      BY DEF Range, linesAt
    <3> HIDE DEF S, line
    <3>4. IsFiniteSet(Range(line))
      BY <3>1, <3>2, RangeIsFinite
    <3> QED BY <3>3, <3>4
  <2>2. Cardinality(linesAt(r.path)) \in Nat /\ ~ (Cardinality(linesAt(r.path)) > 1)
    BY <1>3, <1>6, <2>1, FS_CardinalityType
  <2>3. one[r.path] = r.line
    <3>1. one[r.path] \in linesAt(r.path) /\ r.line \in linesAt(r.path)
      BY <1>2, <1>3
    <3>2. SUFFICES ASSUME one[r.path] # r.line PROVE FALSE
      OBVIOUS
    <3>3. {one[r.path], r.line} \subseteq linesAt(r.path)
      BY <3>1
    <3>4. Cardinality({one[r.path], r.line}) = 2
      <4>1. IsFiniteSet({r.line}) /\ Cardinality({r.line}) = 1
        BY FS_Singleton
      <4> HIDE DEF one
      <4>2. Cardinality({r.line} \union {one[r.path]})
              = IF one[r.path] \in {r.line} THEN Cardinality({r.line})
                ELSE Cardinality({r.line}) + 1
        BY <4>1, FS_AddElement, Zenon
      <4>3. one[r.path] \notin {r.line}
        BY <3>2
      <4>4. {r.line} \union {one[r.path]} = {one[r.path], r.line}
        OBVIOUS
      <4>5. Cardinality({r.line} \union {one[r.path]}) = 2
        BY <4>1, <4>2, <4>3
      <4> QED BY <4>4, <4>5, Zenon
    <3>5. Cardinality({one[r.path], r.line}) <= Cardinality(linesAt(r.path))
      BY <2>1, <3>3, FS_Subset
    <3> QED BY <2>2, <3>4, <3>5
  <2>4. DOMAIN f = doubled /\ DOMAIN one = paths
    OBVIOUS
  <2> HIDE DEF f, one, doubled, paths
  <2> QED BY <1>3, <1>4, <1>6, <2>3, <2>4 DEF ++
<1> QED BY <1>5, <1>6

\* Different paths have different numbers.
Distinct(old) == \A p, q \in DOMAIN old : old[p] = old[q] => p = q

LEMMA NumbersReadAreDistinct ==
  ASSUME NEW R, RowsFit(R), NEW old \in LineOf(R), \A r, q \in R : r.line = q.line => r = q
  PROVE  Distinct(old)
<1>1. \A p \in DOMAIN old : \E r \in R : r.path = p /\ old[p] = r.line
  BY LineOfFits
<1> QED BY <1>1 DEF Distinct

\* The first node of a path that has a number takes it.
LEMMA FirstTakesNumber ==
  ASSUME NEW tree, NEW n \in Nat, DOMAIN tree = 1..n, NEW old, Numbers(old), Distinct(old),
         NEW i \in 1..n, tree[i].path \in DOMAIN old,
         \A j \in 1..(i - 1) : tree[j].path # tree[i].path
  PROVE  Numbered(tree, old)[i] = old[tree[i].path]
<1> DEFINE acc == Acc(tree, old, i - 1)
           p == tree[i].path
<1>1. Progress(tree, old, acc, i - 1)
  <2>1. i - 1 \in 0..n
    OBVIOUS
  <2> QED BY <2>1, AccProgress
<1>2. old[p] \in Nat /\ old[p] < NextLine(old) /\ NextLine(old) \in Nat
  BY NextLineIs DEF Numbers
<1> HIDE DEF acc
<1>3. old[p] \notin ToSet(acc.lines)
  <2>1. /\ DOMAIN acc.lines = 1..(i - 1)
        /\ \A j \in 1..(i - 1) :
             \/ NextLine(old) <= acc.lines[j]
             \/ tree[j].path \in DOMAIN old /\ acc.lines[j] = old[tree[j].path]
    BY <1>1 DEF Progress
  <2>2. \A j \in 1..(i - 1) : acc.lines[j] # old[p]
    <3> TAKE j \in 1..(i - 1)
    <3>1. CASE NextLine(old) <= acc.lines[j]
      BY <1>2, <3>1
    <3>2. CASE tree[j].path \in DOMAIN old /\ acc.lines[j] = old[tree[j].path]
      BY <3>2 DEF Distinct
    <3> QED BY <2>1, <3>1, <3>2
  <2> QED BY <2>1, <2>2 DEF ToSet
<1>4. NumberNode(old, acc, tree[i]).lines[i] = old[p]
  <2>1. i \in 1..n /\ Progress(tree, old, acc, i - 1) /\ Numbers(old)
    BY <1>1
  <2>2. (tree[i].path \in DOMAIN old /\ old[tree[i].path] \notin ToSet(acc.lines))
          => NumberNode(old, acc, tree[i]).lines[i] = old[tree[i].path]
    BY <2>1, NodeTakesNumber
  <2> QED BY <1>3, <2>2
<1>5. Acc(tree, old, i).lines[i] = old[p]
  BY <1>4, AccIs DEF acc
<1>6. Numbered(tree, old)[i] = Acc(tree, old, i).lines[i]
  BY AccIs, AccKeeps
<1> QED BY <1>5, <1>6

\* A path with a number that is in the tree keeps it in one of its rows.
LEMMA PathKeepsLine ==
  ASSUME NEW tree \in Seq(Nodes), NEW old, Numbers(old), Distinct(old), NEW k,
         NEW i \in DOMAIN tree, tree[i].path \in DOMAIN old
  PROVE  \E q \in TreeRows(tree, old, k) :
            q.path = tree[i].path /\ q.line = old[tree[i].path]
<1> DEFINE n == Len(tree)
           S == {j \in 1..n : tree[j].path = tree[i].path}
<1>1. n \in Nat /\ DOMAIN tree = 1..n
  OBVIOUS
<1> HIDE DEF n
<1>2. PICK j \in S : \A m \in S : j <= m
  <2>1. S \subseteq Nat /\ S # {}
    BY <1>1
  <2> QED BY <2>1, LeastNumber
<1>3. j \in 1..n /\ tree[j].path = tree[i].path
  BY <1>2
<1>4. \A m \in 1..(j - 1) : tree[m].path # tree[j].path
  <2> TAKE m \in 1..(j - 1)
  <2>1. m \in 1..n /\ ~ (j <= m)
    BY <1>1, <1>3
  <2> QED BY <1>2, <1>3, <2>1
<1>5. Numbered(tree, old)[j] = old[tree[j].path]
  BY <1>1, <1>3, <1>4, FirstTakesNumber
<1> DEFINE q == [id |-> <<k, j>>, path |-> tree[j].path, calc |-> tree[j].calc,
                 leaf |-> tree[j].leaf, code |-> tree[j].code, sort |-> j,
                 line |-> Numbered(tree, old)[j],
                 parent |-> IF ParentAt(tree, j) = {} THEN <<>>
                            ELSE <<k, Max(ParentAt(tree, j))>>]
<1>6. q \in TreeRows(tree, old, k)
  BY <1>1, <1>3 DEF TreeRows
<1>7. q.path = tree[i].path /\ q.line = old[tree[i].path]
  BY <1>3, <1>5
<1> HIDE DEF q
<1> QED BY <1>6, <1>7

\* Only its own commit ends a save that has deleted.
LEMMA SaveEndsByCommit ==
  ASSUME TemplateInv, [TemplateNext]_templateVars, NEW a \in Admins,
         saving[a].step = "deleted", saving'[a] = Idle
  PROVE  CommitTemplate(a)
<1>1. saving[a] # Idle /\ saving'[a].step = "idle" /\ DOMAIN saving = Admins
  BY DEF Idle, TemplateInv, SavesFit
<1>2. ASSUME NEW b \in Admins, b # a, NEW s, saving' = [saving EXCEPT ![b] = s]
      PROVE  saving'[a] = saving[a]
  BY <1>2
<1>3. saving'[a] # saving[a]
  BY <1>1
<1>4. ASSUME NEW b \in Admins, NEW tree \in Trees, SaveTemplate(b, tree)
      PROVE  FALSE
  <2>1. saving[b] = Idle /\ b # a
    BY <1>1, <1>4 DEF SaveTemplate
  <2>2. PICK old : saving' = [saving EXCEPT ![b] = [step |-> "read", tree |-> tree,
                                                    old |-> old, doomed |-> {}]]
    BY <1>4 DEF SaveTemplate
  <2> QED BY <1>1, <1>3, <2>1, <2>2
<1>5. ASSUME NEW b \in Admins, ClearTemplate(b)
      PROVE  FALSE
  <2>1. b # a
    BY <1>1, <1>5 DEF ClearTemplate
  <2> QED BY <1>3, <1>5, <2>1 DEF ClearTemplate
<1>6. ASSUME NEW b \in Admins, DeleteBegins(b)
      PROVE  FALSE
  <2>1. b # a
    BY <1>6 DEF DeleteBegins
  <2> DEFINE s == [saving[b] EXCEPT !.doomed = rows,
                     !.step = IF rows \intersect Held # {} THEN "waiting" ELSE "deleted"]
  <2>2. saving' = [saving EXCEPT ![b] = s]
    BY <1>1, <1>6 DEF DeleteBegins
  <2> HIDE DEF s
  <2> QED BY <1>1, <1>3, <2>1, <2>2
<1>7. ASSUME NEW b \in Admins, DeleteResumes(b)
      PROVE  FALSE
  <2>1. b # a
    BY <1>7 DEF DeleteResumes
  <2> QED BY <1>3, <1>7, <2>1 DEF DeleteResumes
<1>8. ASSUME NEW b \in Admins, CommitTemplate(b)
      PROVE  b = a
  BY <1>2, <1>3, <1>8 DEF CommitTemplate
<1>9. (\E r \in rows, code \in {"none", "UC"} : PatchTemplateNode(r, code)) => saving' = saving
  BY DEF PatchTemplateNode
<1>10. (\E m \in WrittenMetrics : UpsertMetric(m)) => saving' = saving
  BY DEF UpsertMetric
<1>11. (\E code \in DOMAIN metrics : DeleteMetric(code)) => saving' = saving
  BY DEF DeleteMetric
<1>12. (\E reseed \in BOOLEAN : SeedMetrics(reseed)) => saving' = saving
  BY DEF SeedMetrics
<1>13. UNCHANGED templateVars => saving' = saving
  BY DEF templateVars
<1>14. saving' # saving
  BY <1>3
<1> QED BY <1>4, <1>5, <1>6, <1>7, <1>8, <1>9, <1>10, <1>11, <1>12, <1>13, <1>14, Zenon
        DEF TemplateNext

LEMMA PathKeptByCommit ==
  ASSUME TemplateInv, NEW a \in Admins, CommitTemplate(a), NEW r \in rows,
         saving[a].tree # <<>>, saving[a].doomed = rows, LineOf(rows) = {saving[a].old},
         LinesAreUnique, NEW i \in DOMAIN saving[a].tree, saving[a].tree[i].path = r.path
  PROVE  \E q \in rows' : q.path = r.path /\ q.line = r.line
<1> DEFINE tree == saving[a].tree
           old == saving[a].old
           k == 1 + Max({0} \union {x.id[1] : x \in rows})
<1>1. RowsFit(rows) /\ old \in LineOf(rows)
  BY DEF TemplateInv
<1>2. Numbers(old) /\ Distinct(old)
  BY <1>1, LineOfFits, NumbersReadAreDistinct DEF LinesAreUnique
<1>3. r.path \in DOMAIN old /\ old[r.path] = r.line
  BY <1>1, NumbersReadAre
<1>4. tree \in Seq(Nodes)
  <2>1. tree \in Trees \union {<<>>}
    BY DEF TemplateInv, SavesFit, SaveFits
  <2> QED BY <2>1, PnlTemplateAssumption
<1>5. rows' = (rows \ saving[a].doomed) \union TreeRows(tree, old, k)
  BY DEF CommitTemplate
<1> HIDE DEF k, tree, old
<1>6. \E q \in TreeRows(tree, old, k) : q.path = tree[i].path /\ q.line = old[tree[i].path]
  BY <1>2, <1>3, <1>4, PathKeepsLine DEF tree
<1> QED BY <1>3, <1>5, <1>6 DEF tree

\* A line that a formula of a metric names by its number stays under that
\* number when the tree is saved again (store.py replace_template_tree: a
\* path takes its old number, a new one a number above all): whatever the
\* old and the new tree, if the save was not overlapped and the paths and
\* numbers were unambiguous.
THEOREM KeptPathsKeepNumbers == TemplateSpec => KeptPathsKeepLines
<1>1. TemplateInv /\ [TemplateNext]_templateVars =>
      [\A a \in Admins, r \in rows :
          ( /\ saving[a].step = "deleted" /\ saving'[a] = Idle
            /\ saving[a].tree # <<>>
            /\ saving[a].doomed = rows
            /\ LineOf(rows) = {saving[a].old}
            /\ LinesAreUnique
            /\ \E i \in DOMAIN saving[a].tree : saving[a].tree[i].path = r.path )
          => \E q \in rows' : q.path = r.path /\ q.line = r.line]_templateVars
  <2> SUFFICES ASSUME TemplateInv, [TemplateNext]_templateVars,
                      NEW a \in Admins, NEW r \in rows,
                      saving[a].step = "deleted", saving'[a] = Idle,
                      saving[a].tree # <<>>, saving[a].doomed = rows,
                      LineOf(rows) = {saving[a].old}, LinesAreUnique,
                      NEW i \in DOMAIN saving[a].tree, saving[a].tree[i].path = r.path
               PROVE  \E q \in rows' : q.path = r.path /\ q.line = r.line
    OBVIOUS
  <2>1. CommitTemplate(a)
    BY SaveEndsByCommit
  <2> QED BY <2>1, PathKeptByCommit
<1> QED BY <1>1, TemplateStart, TemplateStep, PTL DEF TemplateSpec, KeptPathsKeepLines

-----------------------------------------------------------------------------
(* Numbers are unique while one save runs at a time. *)

\* The numbers given so far differ, and the next free one is above them.
Apart(acc) ==
  \A j, m \in DOMAIN acc.lines :
     acc.lines[j] < acc.next /\ (acc.lines[j] = acc.lines[m] => j = m)

LEMMA ApartOfNode ==
  ASSUME NEW n \in Nat, NEW tree, NEW old, Numbers(old), NEW i \in 1..n,
         NEW acc, Progress(tree, old, acc, i - 1), Apart(acc)
  PROVE  Apart(NumberNode(old, acc, tree[i]))
<1> DEFINE path == tree[i].path
           after == NumberNode(old, acc, tree[i])
           Known == path \in DOMAIN old /\ old[path] \notin ToSet(acc.lines)
           line == IF Known THEN old[path] ELSE acc.next
           next == IF Known THEN acc.next ELSE acc.next + 1
<1>1. after.lines = Append(acc.lines, line) /\ after.next = next
  BY DEF NumberNode
<1>2. /\ acc.lines \in Seq(Nat \ {0}) /\ Len(acc.lines) = i - 1 /\ i - 1 \in Nat
      /\ acc.next \in Nat /\ NextLine(old) <= acc.next
  BY DEF Progress
<1>3. NextLine(old) \in Nat /\ \A p \in DOMAIN old : old[p] \in Nat \ {0} /\ old[p] < NextLine(old)
  BY NextLineIs DEF Numbers
<1>4. line \in Nat \ {0} /\ next \in Nat /\ acc.next <= next /\ line < next
  <2>1. acc.next # 0
    BY <1>2, NextLineIs
  <2> QED BY <1>2, <1>3, <2>1
<1>5. DOMAIN acc.lines = 1..(i - 1) /\ \A j \in 1..(i - 1) : acc.lines[j] \in Nat
  BY <1>2
<1>6. \A j \in 1..(i - 1) : acc.lines[j] # line
  <2>1. CASE Known
    BY <1>5, <2>1 DEF ToSet
  <2>2. CASE ~ Known
    BY <1>2, <1>5, <2>2 DEF Apart
  <2> QED BY <2>1, <2>2
<1>7. \A j, m \in 1..(i - 1) : acc.lines[j] < next /\ (acc.lines[j] = acc.lines[m] => j = m)
  <2>1. ASSUME NEW j \in 1..(i - 1), NEW m \in 1..(i - 1)
        PROVE  acc.lines[j] < acc.next /\ (acc.lines[j] = acc.lines[m] => j = m)
    BY <1>5 DEF Apart
  <2> HIDE DEF line, next, after
  <2>2. \A j \in 1..(i - 1) : acc.lines[j] < acc.next => acc.lines[j] < next
    BY <1>2, <1>4, <1>5
  <2> QED BY <2>1, <2>2
<1> HIDE DEF line, next, after
<1>8. /\ DOMAIN after.lines = 1..i /\ after.lines[i] = line
      /\ \A j \in 1..(i - 1) : after.lines[j] = acc.lines[j]
  BY <1>1, <1>2, <1>4
<1>9. ASSUME NEW j \in 1..i, NEW m \in 1..i
      PROVE  after.lines[j] < after.next /\ (after.lines[j] = after.lines[m] => j = m)
  <2>1. j = i \/ j \in 1..(i - 1)
    OBVIOUS
  <2>2. m = i \/ m \in 1..(i - 1)
    OBVIOUS
  <2> QED BY <1>1, <1>4, <1>6, <1>7, <1>8, <2>1, <2>2
<1>10. Apart(after)
  BY <1>8, <1>9 DEF Apart
<1> QED BY <1>10 DEF after

\* The nodes of a tree get different numbers.
LEMMA NumbersDiffer ==
  ASSUME NEW tree \in Seq(Nodes), NEW old, Numbers(old)
  PROVE  \A j, m \in DOMAIN tree :
            Numbered(tree, old)[j] = Numbered(tree, old)[m] => j = m
<1> DEFINE n == Len(tree)
           G == {i \in 0..n : Apart(Acc(tree, old, i))}
<1>1. n \in Nat /\ DOMAIN tree = 1..n
  OBVIOUS
<1> HIDE DEF n
<1>2. 0 \in G
  <2>1. Acc(tree, old, 0) = [lines |-> <<>>, next |-> NextLine(old)]
    BY <1>1, AccIs
  <2>2. DOMAIN <<>> = {}
    OBVIOUS
  <2> QED BY <1>1, <2>1, <2>2 DEF Apart
<1>3. ASSUME NEW i \in 1..n, i - 1 \in G
      PROVE  i \in G
  <2>1. Apart(Acc(tree, old, i - 1)) /\ i - 1 \in 0..n /\ i \in 0..n
    BY <1>1, <1>3
  <2>2. Progress(tree, old, Acc(tree, old, i - 1), i - 1)
    BY <1>1, <2>1, AccProgress
  <2>3. Apart(NumberNode(old, Acc(tree, old, i - 1), tree[i]))
    BY <1>1, <2>1, <2>2, ApartOfNode
  <2>4. Acc(tree, old, i) = NumberNode(old, Acc(tree, old, i - 1), tree[i])
    BY <1>1, AccIs
  <2> QED BY <2>1, <2>3, <2>4
<1>4. n \in G
  <2> HIDE DEF G
  <2>1. n \in 0..n
    BY <1>1
  <2> QED BY <1>1, <1>2, <1>3, <2>1, InductionTo
<1>5. Progress(tree, old, Acc(tree, old, n), n)
  <2>1. n \in 0..n
    BY <1>1
  <2> QED BY <1>1, <2>1, AccProgress
<1>6. DOMAIN Acc(tree, old, n).lines = 1..n
  BY <1>1, <1>5 DEF Progress
<1>7. Numbered(tree, old) = Acc(tree, old, n).lines
  BY <1>1, AccIs
<1> QED BY <1>1, <1>4, <1>6, <1>7 DEF Apart

LEMMA TreeRowsDiffer ==
  ASSUME NEW tree \in Seq(Nodes), NEW old, Numbers(old), NEW k
  PROVE  \A r, q \in TreeRows(tree, old, k) : r.line = q.line => r = q
<1> DEFINE row(i) == [id |-> <<k, i>>, path |-> tree[i].path, calc |-> tree[i].calc,
                      leaf |-> tree[i].leaf, code |-> tree[i].code, sort |-> i,
                      line |-> Numbered(tree, old)[i],
                      parent |-> IF ParentAt(tree, i) = {} THEN <<>>
                                 ELSE <<k, Max(ParentAt(tree, i))>>]
<1>1. TreeRows(tree, old, k) = {row(i) : i \in DOMAIN tree}
  BY DEF TreeRows
<1>2. \A i : row(i).line = Numbered(tree, old)[i]
  OBVIOUS
<1>3. \A i, j \in DOMAIN tree : row(i).line = row(j).line => i = j
  BY <1>2, NumbersDiffer
<1> HIDE DEF row
<1> QED BY <1>1, <1>3

\* While one administrator saves at a time, no save waits, and one that has
\* deleted is to delete all rows there are.
OneSaveInv ==
  /\ TemplateInv
  /\ \A a \in Admins :
       /\ saving[a].step # "waiting"
       /\ saving[a].step = "deleted" => rows \subseteq saving[a].doomed
  /\ LinesAreUnique

LEMMA OneSaveStart == TemplateInit => OneSaveInv
BY TemplateStart DEF TemplateInit, OneSaveInv, LinesAreUnique, Idle

\* A step that leaves the rows alone and moves one save.
LEMMA OneSaveMoves ==
  ASSUME \A a, b \in Admins : a = b, OneSaveInv, TemplateInv', rows' = rows,
         NEW a \in Admins, NEW s, saving' = [saving EXCEPT ![a] = s],
         s.step # "waiting", s.step = "deleted" => rows \subseteq s.doomed
  PROVE  OneSaveInv'
<1>1. \A b \in Admins : b = a /\ saving'[b] = s
  BY DEF OneSaveInv, TemplateInv, SavesFit
<1>2. LinesAreUnique'
  BY DEF OneSaveInv, LinesAreUnique
<1> QED BY <1>1, <1>2 DEF OneSaveInv

LEMMA OneSaveCommits ==
  ASSUME \A a, b \in Admins : a = b, OneSaveInv, TemplateInv',
         NEW a \in Admins, CommitTemplate(a)
  PROVE  OneSaveInv'
<1> DEFINE k == 1 + Max({0} \union {r.id[1] : r \in rows})
           new == TreeRows(saving[a].tree, saving[a].old, k)
<1>1. SaveFits(saving[a]) /\ DOMAIN saving = Admins
  BY DEF OneSaveInv, TemplateInv, SavesFit
<1>2. saving[a].tree \in Seq(Nodes) /\ Numbers(saving[a].old)
  <2>1. saving[a].tree \in Trees \/ saving[a].tree = <<>>
    BY <1>1 DEF SaveFits
  <2>2. <<>> \in Seq(Nodes)
    OBVIOUS
  <2> QED BY <1>1, <2>1, <2>2, PnlTemplateAssumption DEF SaveFits
<1>3. rows' = (rows \ saving[a].doomed) \union new
  BY DEF CommitTemplate
<1> HIDE DEF k
<1>4. \A r, q \in new : r.line = q.line => r = q
  BY <1>2, TreeRowsDiffer
<1> HIDE DEF new
<1>5. rows' = new
  BY <1>3 DEF OneSaveInv, CommitTemplate
<1>6. LinesAreUnique'
  BY <1>4, <1>5 DEF LinesAreUnique
<1>7. \A b \in Admins : b = a /\ saving'[b].step = "idle"
  BY <1>1 DEF CommitTemplate, Idle
<1> QED BY <1>6, <1>7 DEF OneSaveInv

\* No row can be patched while a save holds all.
LEMMA OneSavePatched ==
  ASSUME OneSaveInv, TemplateInv',
         NEW r \in rows, NEW code \in {"none", "UC"}, PatchTemplateNode(r, code)
  PROVE  OneSaveInv'
<1> DEFINE q == [r EXCEPT !.code = code]
<1>1. r \in RowType /\ r \notin Held /\ saving' = saving
  BY DEF OneSaveInv, TemplateInv, RowsFit, PatchTemplateNode
<1>2. q.line = r.line
  BY <1>1 DEF RowType
<1>3. rows' = (rows \ {r}) \union {q}
  BY DEF PatchTemplateNode
<1> HIDE DEF q
<1>4. LinesAreUnique'
  BY <1>2, <1>3 DEF OneSaveInv, LinesAreUnique
<1>5. \A a \in Admins : saving[a].step # "deleted"
  BY <1>1 DEF OneSaveInv, Held
<1>6. \A a \in Admins : saving'[a].step # "waiting" /\ saving'[a].step # "deleted"
  BY <1>1, <1>5 DEF OneSaveInv
<1> QED BY <1>4, <1>6 DEF OneSaveInv

LEMMA OneSaveStep ==
  ASSUME \A a, b \in Admins : a = b, OneSaveInv, [TemplateNext]_templateVars
  PROVE  OneSaveInv'
<1>1. TemplateInv'
  BY TemplateStep DEF OneSaveInv
<1>2. \A a \in Admins : SaveFits(saving[a])
  BY DEF OneSaveInv, TemplateInv, SavesFit
<1>3. ASSUME rows' = rows, saving' = saving
      PROVE  OneSaveInv'
  BY <1>1, <1>3 DEF OneSaveInv, LinesAreUnique
<1>4. ASSUME NEW a \in Admins, NEW tree \in Trees, SaveTemplate(a, tree)
      PROVE  OneSaveInv'
  <2>1. PICK old : saving' = [saving EXCEPT ![a] = [step |-> "read", tree |-> tree,
                                                    old |-> old, doomed |-> {}]]
    BY <1>4 DEF SaveTemplate
  <2>2. rows' = rows
    BY <1>4 DEF SaveTemplate
  <2> DEFINE s == [step |-> "read", tree |-> tree, old |-> old, doomed |-> {}]
  <2>3. s.step # "waiting" /\ s.step # "deleted" /\ saving' = [saving EXCEPT ![a] = s]
    BY <2>1
  <2> HIDE DEF s
  <2> QED BY <1>1, <2>2, <2>3, OneSaveMoves
<1>5. ASSUME NEW a \in Admins, ClearTemplate(a)
      PROVE  OneSaveInv'
  <2> DEFINE s == [saving[a] EXCEPT !.step = "read"]
  <2>1. saving' = [saving EXCEPT ![a] = s] /\ rows' = rows
    BY <1>5 DEF ClearTemplate
  <2>2. s.step # "deleted" /\ s.step # "waiting"
    BY <1>2 DEF SaveFits
  <2> HIDE DEF s
  <2> QED BY <1>1, <2>1, <2>2, OneSaveMoves
<1>6. ASSUME NEW a \in Admins, DeleteBegins(a)
      PROVE  OneSaveInv'
  <2>1. Held = {}
    BY <1>6 DEF Held, DeleteBegins
  <2> DEFINE s == [saving[a] EXCEPT !.doomed = rows,
                     !.step = IF rows \intersect Held # {} THEN "waiting" ELSE "deleted"]
  <2>2. saving' = [saving EXCEPT ![a] = s] /\ rows' = rows
    BY <1>6 DEF DeleteBegins, OneSaveInv, TemplateInv, SavesFit
  <2>3. s.doomed = rows /\ s.step # "waiting"
    BY <1>2, <2>1 DEF SaveFits
  <2> HIDE DEF s
  <2> QED BY <1>1, <2>2, <2>3, OneSaveMoves
<1>7. ASSUME NEW a \in Admins, DeleteResumes(a)
      PROVE  OneSaveInv'
  BY <1>7 DEF DeleteResumes, OneSaveInv
<1>8. ASSUME NEW a \in Admins, CommitTemplate(a)
      PROVE  OneSaveInv'
  BY <1>1, <1>8, OneSaveCommits
<1>9. ASSUME NEW r \in rows, NEW code \in {"none", "UC"}, PatchTemplateNode(r, code)
      PROVE  OneSaveInv'
  BY <1>1, <1>9, OneSavePatched
<1>10. (\E m \in WrittenMetrics : UpsertMetric(m)) => rows' = rows /\ saving' = saving
  BY DEF UpsertMetric
<1>11. (\E code \in DOMAIN metrics : DeleteMetric(code)) => rows' = rows /\ saving' = saving
  BY DEF DeleteMetric
<1>12. (\E reseed \in BOOLEAN : SeedMetrics(reseed)) => rows' = rows /\ saving' = saving
  BY DEF SeedMetrics
<1>13. UNCHANGED templateVars => rows' = rows /\ saving' = saving
  BY DEF templateVars
<1> QED BY <1>3, <1>4, <1>5, <1>6, <1>7, <1>8, <1>9, <1>10, <1>11, <1>12, <1>13, Zenon
        DEF TemplateNext

\* A number of a line names one row (store.py replace_template_tree,
\* used_line_nos), for any trees and any sequence of saves, deletions and
\* patches, if one save ends before the next begins.  With two at once both
\* trees may stay, each with the same numbers.
THEOREM NumbersAreUnique ==
  ASSUME \A a, b \in Admins : a = b
  PROVE  TemplateSpec => []LinesAreUnique
<1>1. OneSaveInv /\ [TemplateNext]_templateVars => OneSaveInv'
  BY OneSaveStep
<1>2. OneSaveInv => LinesAreUnique
  BY DEF OneSaveInv
<1> QED BY <1>1, <1>2, OneSaveStart, PTL DEF TemplateSpec

-----------------------------------------------------------------------------
(* The parts side by side. *)

\* A step of one part is a step or a stutter of each of them.
LEMMA PartsApart ==
  FiguresPartsNext => /\ [Next]_vars
                      /\ [FiguresNext]_figuresVars
                      /\ [TargetsNext]_targetVars
<1> SUFFICES ASSUME FiguresPartsNext
             PROVE  /\ [Next]_vars
                    /\ [FiguresNext]_figuresVars
                    /\ [TargetsNext]_targetVars
  OBVIOUS
<1>1. CASE part = "windows" /\ Next /\ UNCHANGED <<figuresVars, targetsState>>
  BY <1>1 DEF targetsState, targetVars
<1>2. CASE TemplateNext /\ UNCHANGED <<metrics, parts, snapshot, windowsState, targetsState>>
  BY <1>2 DEF FiguresNext, windowsState, targetsState, vars, targetVars
<1>3. CASE FiguresNext /\ UNCHANGED <<windowsState, targetsState>>
  BY <1>3 DEF windowsState, targetsState, vars, targetVars
<1>4. CASE TargetsNext /\ UNCHANGED <<windowsState, figuresVars>>
  BY <1>4 DEF windowsState, vars
<1> QED BY <1>1, <1>2, <1>3, <1>4 DEF FiguresPartsNext

\* Every variable of the board's figures, the template, the month and the targets
\* keeps its type, for any of their constants (day_window.py, board.py, pnl.py,
\* store.py).
THEOREM FiguresPartsTypes == FiguresPartsSpec => []TypesOK
<1> DEFINE PartsInv == WindowsInv /\ FiguresInv /\ TargetsTypeOK
<1>1. FiguresPartsInit => PartsInv
  BY WindowsStart, FiguresStart, TargetsStart DEF FiguresPartsInit
<1>2. ASSUME PartsInv, FiguresPartsNext PROVE PartsInv'
  <2>1. [Next]_vars /\ [FiguresNext]_figuresVars /\ [TargetsNext]_targetVars
    BY <1>2, PartsApart
  <2> QED BY <1>2, <2>1, WindowsStep, FiguresStep, TargetsStep
<1>3. ASSUME PartsInv, UNCHANGED <<part, windowsState, figuresVars, targetsState>>
      PROVE  PartsInv'
  <2>1. UNCHANGED vars /\ UNCHANGED figuresVars /\ UNCHANGED targetVars
    BY <1>3 DEF windowsState, targetsState, vars, targetVars
  <2> QED BY <1>3, <2>1, WindowsStep, FiguresStep, TargetsStep
<1>4. PartsInv => TypesOK
  BY TemplateTypes DEF WindowsInv, FiguresInv, SnapshotIsOfParts, FiguresTypeOK, TypesOK
<1> HIDE DEF PartsInv
<1>5. FiguresPartsSpec => []PartsInv
  BY <1>1, <1>2, <1>3, PTL DEF FiguresPartsSpec
<1> QED BY <1>4, <1>5, PTL
=============================================================================
