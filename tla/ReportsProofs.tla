---------------------------- MODULE ReportsProofs ----------------------------
(***************************************************************************)
(* Proofs about Reports, for any number of tenants, taxis, drivers,        *)
(* categories and rows, and any amounts and dates.                         *)
(***************************************************************************)
EXTENDS Reports, FiniteSetTheorems, WellFoundedInduction, TLAPS

-----------------------------------------------------------------------------
(* Sums over finite sets.  The library defines a sum by recursion on       *)
(* subsets, which takes the elements in an order of its own; a property of *)
(* all finite sets is proved by a minimal counterexample.                  *)

\* A set of subsets of a finite set has a member with no smaller one in it.
LEMMA SmallestSubset ==
    ASSUME NEW S, IsFiniteSet(S), NEW B \in SUBSET (SUBSET S), B # {}
    PROVE  \E T \in B : \A U \in B : U \subseteq T => U = T
<1>1. B \subseteq FiniteSubsetsOf(S)
    BY FS_Subset DEF FiniteSubsetsOf
<1>2. PICK T \in B : \A U \in B : ~(<<U, T>> \in StrictSubsetOrdering(S))
    BY <1>1, FS_StrictSubsetOrderingWellFounded, WFMin
<1>3. \A U \in B : U \subseteq T => U = T
    BY <1>2 DEF StrictSubsetOrdering
<1>4. QED
    BY <1>3

Chosen(s) == CHOOSE x \in s : TRUE

\* g is the recursive function that sums f over the subsets of S.
IsSum(g, f, S) ==
    g = [s \in SUBSET S |-> IF s = {} THEN 0 ELSE f[Chosen(s)] + g[s \ {Chosen(s)}]]

LEMMA SumOverIs ==
    ASSUME NEW f, NEW S
    PROVE  SumOver(f, S) = (CHOOSE g : IsSum(g, f, S))[S]
BY DEF SumOver, MapThenSumSet, MapThenFoldSet, IsSum, Chosen

LEMMA ChosenIn == ASSUME NEW s, s # {} PROVE Chosen(s) \in s
BY DEF Chosen

LEMMA SumAt ==
    ASSUME NEW g, NEW f, NEW S, IsSum(g, f, S), NEW s \in SUBSET S
    PROVE  g[s] = IF s = {} THEN 0 ELSE f[Chosen(s)] + g[s \ {Chosen(s)}]
BY DEF IsSum

\* Two such functions agree where both are defined.
LEMMA SumsAgree ==
    ASSUME NEW f, NEW S, NEW T, NEW g, NEW h, IsSum(g, f, S), IsSum(h, f, T),
           T \subseteq S, IsFiniteSet(T)
    PROVE  \A s \in SUBSET T : g[s] = h[s]
<1>1. SUFFICES ASSUME \E s \in SUBSET T : g[s] # h[s] PROVE FALSE
    OBVIOUS
<1> DEFINE B == {s \in SUBSET T : g[s] # h[s]}
<1>2. PICK s \in B : \A u \in B : u \subseteq s => u = s
    <2>1. B \in SUBSET (SUBSET T) /\ B # {}
        BY <1>1
    <2> HIDE DEF B
    <2>2. QED
        BY <2>1, SmallestSubset
<1>3. s \in SUBSET T /\ s \in SUBSET S /\ g[s] # h[s]
    BY <1>2
<1>4. g[s] = (IF s = {} THEN 0 ELSE f[Chosen(s)] + g[s \ {Chosen(s)}])
    BY <1>3, SumAt
<1>5. h[s] = (IF s = {} THEN 0 ELSE f[Chosen(s)] + h[s \ {Chosen(s)}])
    BY <1>3, SumAt
<1>6. s # {} /\ Chosen(s) \in s
    BY <1>3, <1>4, <1>5, ChosenIn
<1>7. g[s \ {Chosen(s)}] = h[s \ {Chosen(s)}]
    BY <1>2, <1>3, <1>6
<1>8. QED
    BY <1>3, <1>4, <1>5, <1>6, <1>7

LEMMA SumRestricted ==
    ASSUME NEW g, NEW f, NEW S, IsSum(g, f, S), NEW T \in SUBSET S
    PROVE  \E h : IsSum(h, f, T) /\ h[T] = g[T]
<1> DEFINE h == [u \in SUBSET T |-> g[u]]
<1>1. ASSUME NEW u \in SUBSET T
      PROVE  h[u] = IF u = {} THEN 0 ELSE f[Chosen(u)] + h[u \ {Chosen(u)}]
    BY SumAt
<1>2. IsSum(h, f, T)
    BY <1>1 DEF IsSum
<1>3. h[T] = g[T]
    OBVIOUS
<1>4. QED
    BY <1>2, <1>3

\* The sum over a part of S is the recursive function's value there.
LEMMA SumOverPart ==
    ASSUME NEW g, NEW f, NEW S, IsFiniteSet(S), IsSum(g, f, S), NEW T \in SUBSET S
    PROVE  SumOver(f, T) = g[T]
<1>1. PICK h : IsSum(h, f, T) /\ h[T] = g[T]
    BY SumRestricted
<1>2. PICK k : k = CHOOSE h2 : IsSum(h2, f, T)
    OBVIOUS
<1>3. IsSum(k, f, T)
    BY <1>1, <1>2
<1>4. SumOver(f, T) = k[T]
    BY <1>2, SumOverIs
<1>5. IsFiniteSet(T)
    BY FS_Subset
<1>6. k[T] = h[T]
    BY <1>1, <1>3, <1>5, SumsAgree
<1>7. QED
    BY <1>1, <1>4, <1>6

LEMMA SumExists ==
    ASSUME NEW f, NEW S, IsFiniteSet(S)
    PROVE  \E g : IsSum(g, f, S)
<1>1. SUFFICES ASSUME ~ \E g : IsSum(g, f, S) PROVE FALSE
    OBVIOUS
<1> DEFINE B == {s \in SUBSET S : ~ \E g : IsSum(g, f, s)}
<1>2. PICK s \in B : \A u \in B : u \subseteq s => u = s
    <2>1. B \in SUBSET (SUBSET S) /\ B # {}
        BY <1>1
    <2> HIDE DEF B
    <2>2. QED
        BY <2>1, SmallestSubset
<1>3. s \in SUBSET S /\ (~ \E g : IsSum(g, f, s)) /\ IsFiniteSet(s)
    BY <1>2, FS_Subset
<1>4. \A t \in SUBSET s : t # s => \E g : IsSum(g, f, t)
    BY <1>2, <1>3
<1>5. ASSUME NEW t \in SUBSET s, t # s
      PROVE  SumOver(f, t) = IF t = {} THEN 0
                             ELSE f[Chosen(t)] + SumOver(f, t \ {Chosen(t)})
    <2>1. PICK g : IsSum(g, f, t)
        BY <1>4, <1>5
    <2>2. IsFiniteSet(t)
        BY <1>3, FS_Subset
    <2>3. SumOver(f, t) = g[t]
        BY <2>1, <2>2, SumOverPart
    <2>4. SumOver(f, t \ {Chosen(t)}) = g[t \ {Chosen(t)}]
        BY <2>1, <2>2, SumOverPart
    <2>5. g[t] = IF t = {} THEN 0 ELSE f[Chosen(t)] + g[t \ {Chosen(t)}]
        BY <2>1, SumAt
    <2>6. QED
        BY <2>3, <2>4, <2>5
<1> DEFINE value == IF s = {} THEN 0 ELSE f[Chosen(s)] + SumOver(f, s \ {Chosen(s)})
           h == [t \in SUBSET s |-> IF t = s THEN value ELSE SumOver(f, t)]
<1>6. ASSUME NEW t \in SUBSET s
      PROVE  h[t] = IF t = {} THEN 0 ELSE f[Chosen(t)] + h[t \ {Chosen(t)}]
    <2>1. CASE t = {}
        BY <1>5, <2>1
    <2>2. CASE t # {}
        <3>1. t \ {Chosen(t)} \in SUBSET s /\ t \ {Chosen(t)} # s
            BY <2>2, ChosenIn
        <3>2. h[t \ {Chosen(t)}] = SumOver(f, t \ {Chosen(t)})
            BY <3>1
        <3>3. h[t] = f[Chosen(t)] + SumOver(f, t \ {Chosen(t)})
            BY <1>5, <2>2
        <3>4. QED
            BY <2>2, <3>2, <3>3
    <2>3. QED
        BY <2>1, <2>2
<1>7. IsSum(h, f, s)
    BY <1>6 DEF IsSum
<1>8. QED
    BY <1>3, <1>7

\* What a sum is: nothing over no element, else one of its elements and the rest.
LEMMA SumUnfolds ==
    ASSUME NEW f, NEW S, IsFiniteSet(S)
    PROVE  SumOver(f, S) = IF S = {} THEN 0
                           ELSE f[Chosen(S)] + SumOver(f, S \ {Chosen(S)})
<1>1. PICK g : IsSum(g, f, S)
    BY SumExists
<1>2. SumOver(f, S) = g[S] /\ SumOver(f, S \ {Chosen(S)}) = g[S \ {Chosen(S)}]
    BY <1>1, SumOverPart
<1>3. QED
    BY <1>1, <1>2, SumAt

LEMMA SumOverNothing == ASSUME NEW f PROVE SumOver(f, {}) = 0
BY SumUnfolds, FS_EmptySet

LEMMA SumOverSome ==
    ASSUME NEW f, NEW S, IsFiniteSet(S), S # {}
    PROVE  /\ Chosen(S) \in S
           /\ SumOver(f, S) = f[Chosen(S)] + SumOver(f, S \ {Chosen(S)})
BY SumUnfolds, ChosenIn

\* Sums of natural numbers are natural numbers.
LEMMA SumIsNat ==
    ASSUME NEW f, NEW S, IsFiniteSet(S), \A x \in S : f[x] \in Nat
    PROVE  SumOver(f, S) \in Nat
<1>1. SUFFICES ASSUME SumOver(f, S) \notin Nat PROVE FALSE
    OBVIOUS
<1> DEFINE B == {s \in SUBSET S : SumOver(f, s) \notin Nat}
<1>2. PICK s \in B : \A u \in B : u \subseteq s => u = s
    <2>1. B \in SUBSET (SUBSET S) /\ B # {}
        BY <1>1
    <2> HIDE DEF B
    <2>2. QED
        BY <2>1, SmallestSubset
<1>3. s \in SUBSET S /\ SumOver(f, s) \notin Nat /\ IsFiniteSet(s)
    BY <1>2, FS_Subset
<1>4. s # {}
    BY <1>3, SumOverNothing
<1>5. Chosen(s) \in s /\ SumOver(f, s) = f[Chosen(s)] + SumOver(f, s \ {Chosen(s)})
    BY <1>3, <1>4, SumOverSome
<1>6. SumOver(f, s \ {Chosen(s)}) \in Nat
    BY <1>2, <1>3, <1>5
<1>7. f[Chosen(s)] \in Nat
    BY <1>3, <1>5
<1>8. QED
    BY <1>3, <1>5, <1>6, <1>7

\* Any element may be taken first.
LEMMA SumTakes ==
    ASSUME NEW f, NEW S, IsFiniteSet(S), \A x \in S : f[x] \in Nat
    PROVE  \A x \in S : SumOver(f, S) = f[x] + SumOver(f, S \ {x})
<1> DEFINE Fits(s) == \A x \in s : SumOver(f, s) = f[x] + SumOver(f, s \ {x})
           B == {s \in SUBSET S : ~ Fits(s)}
<1>1. SUFFICES ASSUME ~ Fits(S) PROVE FALSE
    OBVIOUS
<1>2. PICK s \in B : \A u \in B : u \subseteq s => u = s
    <2>1. B \in SUBSET (SUBSET S) /\ B # {}
        BY <1>1
    <2> HIDE DEF B
    <2>2. QED
        BY <2>1, SmallestSubset
<1>3. s \in SUBSET S /\ (~ Fits(s)) /\ IsFiniteSet(s)
    BY <1>2, FS_Subset
<1>4. PICK x \in s : SumOver(f, s) # f[x] + SumOver(f, s \ {x})
    BY <1>3
<1>5. PICK c \in s : c = Chosen(s) /\ SumOver(f, s) = f[c] + SumOver(f, s \ {c})
    BY <1>3, <1>4, SumOverSome
<1>6. x # c
    BY <1>4, <1>5
<1>7. Fits(s \ {c}) /\ Fits(s \ {x})
    BY <1>2, <1>3, <1>4, <1>5
<1>8. SumOver(f, s \ {c}) = f[x] + SumOver(f, (s \ {c}) \ {x})
    BY <1>6, <1>7
<1>9. SumOver(f, s \ {x}) = f[c] + SumOver(f, (s \ {x}) \ {c})
    BY <1>6, <1>7
<1>10. (s \ {c}) \ {x} = (s \ {x}) \ {c}
    OBVIOUS
<1>11. IsFiniteSet((s \ {x}) \ {c}) /\ \A y \in (s \ {x}) \ {c} : f[y] \in Nat
    BY <1>3, FS_Subset
<1>12. SumOver(f, (s \ {x}) \ {c}) \in Nat /\ f[x] \in Nat /\ f[c] \in Nat
    BY <1>3, <1>11, SumIsNat
<1>13. PICK n \in Nat : n = SumOver(f, (s \ {x}) \ {c})
    BY <1>12
<1>14. SumOver(f, s) = f[c] + (f[x] + n)
    BY <1>5, <1>8, <1>10, <1>13
<1>15. f[x] + SumOver(f, s \ {x}) = f[x] + (f[c] + n)
    BY <1>9, <1>13
<1>16. f[c] + (f[x] + n) = f[x] + (f[c] + n)
    BY <1>12
<1>17. QED
    BY <1>4, <1>14, <1>15, <1>16

\* Sums over disjoint sets add up.
LEMMA SumOfTwo ==
    ASSUME NEW f, NEW S, IsFiniteSet(S), \A x \in S : f[x] \in Nat,
           NEW A \in SUBSET S, NEW C \in SUBSET S, A \cap C = {}
    PROVE  SumOver(f, A \cup C) = SumOver(f, A) + SumOver(f, C)
<1> DEFINE Fits(s) == SumOver(f, s \cup C) = SumOver(f, s) + SumOver(f, C)
           B == {s \in SUBSET A : ~ Fits(s)}
<1>1. SUFFICES ASSUME ~ Fits(A) PROVE FALSE
    OBVIOUS
<1>2. PICK s \in B : \A u \in B : u \subseteq s => u = s
    <2>1. B \in SUBSET (SUBSET A) /\ B # {} /\ IsFiniteSet(A)
        BY <1>1, FS_Subset
    <2> HIDE DEF B
    <2>2. QED
        BY <2>1, SmallestSubset
<1>3. s \in SUBSET A /\ (~ Fits(s)) /\ IsFiniteSet(s) /\ IsFiniteSet(C) /\ IsFiniteSet(s \cup C)
    BY <1>2, FS_Subset
<1>4. /\ SumOver(f, C) \in Nat /\ SumOver(f, s) \in Nat
      /\ \A x \in s \cup C : f[x] \in Nat
    BY <1>3, SumIsNat
<1>5. s # {}
    <2>1. SUFFICES ASSUME s = {} PROVE Fits(s)
        BY <1>3
    <2>2. s \cup C = C /\ SumOver(f, s) = 0
        BY <2>1, SumOverNothing
    <2>3. SumOver(f, s \cup C) = SumOver(f, C)
        BY <2>2
    <2>4. 0 + SumOver(f, C) = SumOver(f, C)
        BY <1>4
    <2>5. QED
        BY <2>2, <2>3, <2>4
<1>6. PICK x \in s : TRUE
    BY <1>5
<1>7. Fits(s \ {x})
    BY <1>2, <1>3, <1>6
<1>8. SumOver(f, s) = f[x] + SumOver(f, s \ {x})
    BY <1>3, <1>4, SumTakes
<1>9. SumOver(f, s \cup C) = f[x] + SumOver(f, (s \cup C) \ {x})
    BY <1>3, <1>4, SumTakes
<1>10. (s \cup C) \ {x} = (s \ {x}) \cup C
    BY <1>3
<1>11. SumOver(f, s \ {x}) \in Nat /\ f[x] \in Nat
    <2>1. IsFiniteSet(s \ {x}) /\ \A y \in s \ {x} : f[y] \in Nat
        BY <1>3, <1>4, FS_Subset
    <2>2. QED
        BY <1>4, <2>1, SumIsNat
<1>12. PICK m \in Nat, n \in Nat, k \in Nat :
           m = SumOver(f, s \ {x}) /\ n = SumOver(f, C) /\ k = f[x]
    BY <1>4, <1>11
<1>13. SumOver(f, s \cup C) = k + (m + n)
    BY <1>7, <1>9, <1>10, <1>12
<1>14. SumOver(f, s) + SumOver(f, C) = (k + m) + n
    BY <1>8, <1>12
<1>15. k + (m + n) = (k + m) + n
    OBVIOUS
<1>16. QED
    BY <1>3, <1>13, <1>14, <1>15

\* Only the values on the set count.
LEMMA SumSame ==
    ASSUME NEW f, NEW g, NEW S, IsFiniteSet(S), \A x \in S : f[x] = g[x]
    PROVE  SumOver(f, S) = SumOver(g, S)
<1> DEFINE B == {s \in SUBSET S : SumOver(f, s) # SumOver(g, s)}
<1>1. SUFFICES ASSUME SumOver(f, S) # SumOver(g, S) PROVE FALSE
    OBVIOUS
<1>2. PICK s \in B : \A u \in B : u \subseteq s => u = s
    <2>1. B \in SUBSET (SUBSET S) /\ B # {}
        BY <1>1
    <2> HIDE DEF B
    <2>2. QED
        BY <2>1, SmallestSubset
<1>3. s \in SUBSET S /\ SumOver(f, s) # SumOver(g, s) /\ IsFiniteSet(s)
    BY <1>2, FS_Subset
<1>4. s # {}
    BY <1>3, SumOverNothing
<1>5. /\ Chosen(s) \in s
      /\ SumOver(f, s) = f[Chosen(s)] + SumOver(f, s \ {Chosen(s)})
      /\ SumOver(g, s) = g[Chosen(s)] + SumOver(g, s \ {Chosen(s)})
    BY <1>3, <1>4, SumOverSome
<1>6. SumOver(f, s \ {Chosen(s)}) = SumOver(g, s \ {Chosen(s)})
    BY <1>2, <1>3, <1>5
<1>7. QED
    BY <1>3, <1>5, <1>6

\* The lines of a grouping add up to the rows that are in one of the groups.
LEMMA GroupsSum ==
    ASSUME NEW f, NEW R, IsFiniteSet(R), \A i \in R : f[i] \in Nat,
           NEW K, IsFiniteSet(K), NEW key, NEW rows, rows = {i \in R : key[i] \in K},
           NEW line, line = [k \in K |-> SumOver(f, {i \in R : key[i] = k})]
    PROVE  SumOver(line, K) = SumOver(f, rows)
<1> DEFINE In(s) == {i \in R : key[i] \in s}
           Fits(s) == SumOver(line, s) = SumOver(f, In(s))
           B == {s \in SUBSET K : ~ Fits(s)}
<1>1. SUFFICES ASSUME ~ Fits(K) PROVE FALSE
    OBVIOUS
<1>2. PICK s \in B : \A u \in B : u \subseteq s => u = s
    <2>1. B \in SUBSET (SUBSET K) /\ B # {}
        BY <1>1
    <2> HIDE DEF B
    <2>2. QED
        BY <2>1, SmallestSubset
<1>3. s \in SUBSET K /\ (~ Fits(s)) /\ IsFiniteSet(s)
    BY <1>2, FS_Subset
<1>4. s # {}
    <2>1. SUFFICES ASSUME s = {} PROVE Fits(s)
        BY <1>3
    <2>2. In(s) = {}
        BY <2>1
    <2>3. SumOver(line, s) = 0 /\ SumOver(f, In(s)) = 0
        BY <2>1, <2>2, SumOverNothing
    <2>4. QED
        BY <2>3
<1>5. PICK k \in s : SumOver(line, s) = line[k] + SumOver(line, s \ {k})
    <2>1. Chosen(s) \in s /\ SumOver(line, s) = line[Chosen(s)] + SumOver(line, s \ {Chosen(s)})
        BY <1>3, <1>4, SumOverSome
    <2>2. QED
        BY <2>1
<1>6. SumOver(line, s \ {k}) = SumOver(f, In(s \ {k}))
    BY <1>2, <1>3, <1>5
<1>7. line[k] = SumOver(f, {i \in R : key[i] = k})
    BY <1>3, <1>5
<1>8. PICK A, C : A = {i \in R : key[i] = k} /\ C = In(s \ {k})
    OBVIOUS
<1>9. A \in SUBSET R /\ C \in SUBSET R /\ A \cap C = {} /\ A \cup C = In(s)
    BY <1>5, <1>8
<1>10. SumOver(f, A \cup C) = SumOver(f, A) + SumOver(f, C)
    BY <1>9, SumOfTwo
<1>11. SumOver(line, s) = SumOver(f, A) + SumOver(f, C)
    BY <1>5, <1>6, <1>7, <1>8
<1>12. QED
    BY <1>3, <1>9, <1>10, <1>11

\* The same of counts.
LEMMA GroupsCount ==
    ASSUME NEW R, IsFiniteSet(R), NEW K, IsFiniteSet(K), NEW key, NEW line,
           \A k \in K : line[k] = Cardinality({i \in R : key[i] = k})
    PROVE  SumOver(line, K) = Cardinality({i \in R : key[i] \in K})
<1> DEFINE In(s) == {i \in R : key[i] \in s}
           Fits(s) == SumOver(line, s) = Cardinality(In(s))
           B == {s \in SUBSET K : ~ Fits(s)}
<1>1. SUFFICES ASSUME ~ Fits(K) PROVE FALSE
    OBVIOUS
<1>2. PICK s \in B : \A u \in B : u \subseteq s => u = s
    <2>1. B \in SUBSET (SUBSET K) /\ B # {}
        BY <1>1
    <2> HIDE DEF B
    <2>2. QED
        BY <2>1, SmallestSubset
<1>3. s \in SUBSET K /\ (~ Fits(s)) /\ IsFiniteSet(s)
    BY <1>2, FS_Subset
<1>4. s # {}
    <2>1. SUFFICES ASSUME s = {} PROVE Fits(s)
        BY <1>3
    <2>2. In(s) = {}
        BY <2>1
    <2>3. SumOver(line, s) = 0 /\ Cardinality(In(s)) = 0
        BY <2>1, <2>2, SumOverNothing, FS_EmptySet
    <2>4. QED
        BY <2>3
<1>5. PICK k \in s : SumOver(line, s) = line[k] + SumOver(line, s \ {k})
    <2>1. Chosen(s) \in s /\ SumOver(line, s) = line[Chosen(s)] + SumOver(line, s \ {Chosen(s)})
        BY <1>3, <1>4, SumOverSome
    <2>2. QED
        BY <2>1
<1>6. SumOver(line, s \ {k}) = Cardinality(In(s \ {k}))
    BY <1>2, <1>3, <1>5
<1>7. line[k] = Cardinality({i \in R : key[i] = k})
    BY <1>3, <1>5
<1>8. PICK A, C : A = {i \in R : key[i] = k} /\ C = In(s \ {k})
    OBVIOUS
<1>9. A \in SUBSET R /\ C \in SUBSET R /\ A \cap C = {} /\ A \cup C = In(s)
    BY <1>5, <1>8
<1>10. IsFiniteSet(A) /\ IsFiniteSet(C)
    BY <1>9, FS_Subset
<1>11. Cardinality(A \cup C) = Cardinality(A) + Cardinality(C)
    <2>1. Cardinality(A \cup C) = Cardinality(A) + Cardinality(C) - Cardinality(A \cap C)
        BY <1>10, FS_Union
    <2>2. /\ Cardinality(A \cap C) = 0
          /\ Cardinality(A) \in Nat /\ Cardinality(C) \in Nat
        BY <1>9, <1>10, FS_EmptySet, FS_CardinalityType
    <2>3. QED
        BY <2>1, <2>2
<1>12. SumOver(line, s) = Cardinality(A) + Cardinality(C)
    BY <1>5, <1>6, <1>7, <1>8
<1>13. QED
    BY <1>3, <1>9, <1>11, <1>12

-----------------------------------------------------------------------------
(* Positions in a list whose rows come in descending order.                *)

Pos(M, i) == Cardinality({j \in M : j > i})

LEMMA SmallestNat ==
    ASSUME NEW T \in SUBSET Nat, T # {}
    PROVE  \E n \in T : \A m \in T : n <= m
<1>1. PICK n \in T : \A m \in T : ~(<<m, n>> \in OpToRel(<, Nat))
    BY NatLessThanWellFounded, WFMin
<1>2. ASSUME NEW m \in T PROVE n <= m
    <2>1. m \in Nat /\ n \in Nat /\ ~(m < n)
        BY <1>1 DEF OpToRel
    <2>2. QED
        BY <2>1
<1>3. QED
    BY <1>2

LEMMA PosIsNat ==
    ASSUME NEW M, IsFiniteSet(M), NEW i
    PROVE  /\ Pos(M, i) \in Nat /\ IsFiniteSet({j \in M : j > i})
           /\ Cardinality(M) \in Nat
BY FS_Subset, FS_CardinalityType DEF Pos

\* No two rows share a position, and a position is less than the length.
LEMMA PosOrder ==
    ASSUME NEW M \in SUBSET Nat, IsFiniteSet(M), NEW i \in M
    PROVE  /\ Pos(M, i) < Cardinality(M)
           /\ \A j \in M : i > j => Pos(M, i) < Pos(M, j)
<1>1. PICK A : A = {k \in M : k > i}
    OBVIOUS
<1>2. IsFiniteSet(A) /\ Cardinality(A) \in Nat /\ Pos(M, i) = Cardinality(A) /\ i \notin A
    BY <1>1, FS_Subset, FS_CardinalityType DEF Pos
<1>3. Cardinality(A \cup {i}) = Cardinality(A) + 1
    BY <1>2, FS_AddElement
<1>4. ASSUME NEW T \in SUBSET M, A \cup {i} \subseteq T PROVE Cardinality(A) < Cardinality(T)
    <2>1. IsFiniteSet(T) /\ Cardinality(T) \in Nat
        BY FS_Subset, FS_CardinalityType
    <2>2. Cardinality(A \cup {i}) <= Cardinality(T)
        BY <1>4, <2>1, FS_Subset
    <2>3. QED
        BY <1>2, <1>3, <2>1, <2>2
<1>5. Pos(M, i) < Cardinality(M)
    BY <1>1, <1>2, <1>4
<1>6. ASSUME NEW j \in M, i > j PROVE Pos(M, i) < Pos(M, j)
    <2>1. ASSUME NEW k \in A \cup {i} PROVE k \in {l \in M : l > j}
        <3>1. k \in M /\ k \in Nat /\ i \in Nat /\ j \in Nat /\ (k > i \/ k = i)
            BY <1>1
        <3>2. k > j
            BY <1>6, <3>1
        <3>3. QED
            BY <3>1, <3>2
    <2>2. A \cup {i} \subseteq {l \in M : l > j}
        BY <2>1
    <2>3. QED
        BY <1>2, <1>4, <2>2 DEF Pos
<1>7. QED
    BY <1>5, <1>6

\* Every position up to that of a row is taken.
LEMMA PosFilled ==
    ASSUME NEW M \in SUBSET Nat, IsFiniteSet(M), NEW i \in M,
           NEW m \in Nat, m <= Pos(M, i)
    PROVE  \E j \in M : Pos(M, j) = m
<1> DEFINE P == {Pos(M, j) : j \in {k \in M : m <= Pos(M, k)}}
<1>1. PICK p \in P : \A q \in P : p <= q
    <2>1. P \in SUBSET Nat /\ P # {}
        BY PosIsNat
    <2> HIDE DEF P
    <2>2. QED
        BY <2>1, SmallestNat
<1>2. PICK j \in M : m <= Pos(M, j) /\ p = Pos(M, j)
    BY <1>1
<1>3. \A k \in M : m <= Pos(M, k) => Pos(M, j) <= Pos(M, k)
    BY <1>1, <1>2
<1> HIDE DEF P
<1>4. CASE Pos(M, j) = m
    BY <1>4
<1>5. CASE Pos(M, j) # m
    <2>1. PICK L : L = {k \in M : k > j}
        OBVIOUS
    <2>2. L # {}
        <3>1. SUFFICES ASSUME L = {} PROVE FALSE
            OBVIOUS
        <3>2. Pos(M, j) = 0
            BY <2>1, <3>1, FS_EmptySet DEF Pos
        <3>3. QED
            BY <1>2, <1>5, <3>2
    <2>3. PICK k \in L : \A l \in L : k <= l
        BY <2>1, <2>2, SmallestNat
    <2>4. PICK A : A = {l \in M : l > k}
        OBVIOUS
    <2>5. L = A \cup {k} /\ k \notin A /\ k \in M /\ k > j
        <3>1. k \in M /\ k \in Nat /\ j \in Nat /\ k > j /\ k \notin A
            BY <2>1, <2>3, <2>4
        <3>2. ASSUME NEW l \in M PROVE l \in L <=> l \in A \cup {k}
            <4>1. l \in Nat /\ (l \in L <=> l > j) /\ (l \in A <=> l > k)
                BY <2>1, <2>4
            <4>2. l \in L => k <= l
                BY <2>3
            <4>3. QED
                BY <3>1, <4>1, <4>2
        <3>3. L \subseteq M /\ A \subseteq M
            BY <2>1, <2>4
        <3>4. QED
            BY <3>1, <3>2, <3>3
    <2>6. IsFiniteSet(A) /\ Pos(M, k) = Cardinality(A) /\ Pos(M, k) \in Nat
        BY <2>4, PosIsNat DEF Pos
    <2>7. Pos(M, j) = Pos(M, k) + 1
        <3>1. Cardinality(A \cup {k}) = Cardinality(A) + 1
            BY <2>5, <2>6, FS_AddElement
        <3>2. Pos(M, j) = Cardinality(L)
            BY <2>1 DEF Pos
        <3>3. QED
            BY <2>5, <2>6, <3>1, <3>2
    <2>8. Pos(M, j) \in Nat
        BY PosIsNat
    <2>9. m <= Pos(M, k)
        BY <1>2, <1>5, <2>6, <2>7, <2>8
    <2>10. Pos(M, j) <= Pos(M, k)
        BY <1>3, <2>5, <2>9
    <2>11. QED
        BY <2>6, <2>7, <2>10
<1>6. QED
    BY <1>4, <1>5

\* A page has no more rows than positions.
LEMMA PageSize ==
    ASSUME NEW M \in SUBSET Nat, IsFiniteSet(M), NEW a \in Nat, NEW b \in Nat, a <= b,
           NEW page \in SUBSET M, \A i \in page : a <= Pos(M, i) /\ Pos(M, i) < b
    PROVE  /\ Cardinality(page) \in Nat /\ a + Cardinality(page) <= b
           /\ (Cardinality(page) = 0 <=> page = {})
<1>1. IsFiniteSet(page) /\ Cardinality(page) \in Nat
    BY FS_Subset, FS_CardinalityType
<1> DEFINE pos == [i \in page |-> Pos(M, i)]
<1>2. ASSUME NEW i \in page PROVE Pos(M, i) \in a..(b - 1)
    <2>1. PICK n \in Nat : n = Pos(M, i)
        BY PosIsNat
    <2>2. a <= n /\ n < b
        BY <2>1
    <2>3. n \in a..(b - 1)
        BY <2>2
    <2>4. QED
        BY <2>1, <2>3
<1>3. \A i, j \in page : i # j => Pos(M, i) # Pos(M, j)
    <2>1. TAKE i, j \in page
    <2>2. i \in Nat /\ j \in Nat /\ Pos(M, i) \in Nat /\ Pos(M, j) \in Nat
        BY PosIsNat
    <2>3. i > j => Pos(M, i) < Pos(M, j)
        BY PosOrder
    <2>4. j > i => Pos(M, j) < Pos(M, i)
        BY PosOrder
    <2>5. QED
        BY <2>2, <2>3, <2>4
<1>4. pos \in Injection(page, a..(b - 1))
    BY <1>2, <1>3 DEF Injection, IsInjective
<1>5. IsFiniteSet(a..(b - 1)) /\ Cardinality(a..(b - 1)) = b - a
    <2>1. a \in Int /\ b - 1 \in Int
        OBVIOUS
    <2>2. /\ IsFiniteSet(a..(b - 1))
          /\ Cardinality(a..(b - 1)) = IF a > b - 1 THEN 0 ELSE (b - 1) - a + 1
        BY <2>1, FS_Interval
    <2>3. QED
        BY <2>2
<1> HIDE DEF pos
<1>6. Cardinality(page) <= Cardinality(a..(b - 1))
    BY <1>4, <1>5, FS_Injection
<1>7. a + Cardinality(page) <= b
    <2>1. PICK n \in Nat : n = Cardinality(page)
        BY <1>1
    <2>2. n <= b - a
        BY <1>5, <1>6, <2>1
    <2>3. QED
        BY <2>1, <2>2
<1>8. Cardinality(page) = 0 <=> page = {}
    BY <1>1, FS_EmptySet
<1>9. QED
    BY <1>1, <1>7, <1>8


-----------------------------------------------------------------------------
(* The inductive invariant.                                                *)

\* The category of a row exists.
RowsOK == \A i \in DOMAIN expenses : expenses[i].category \notin deleted

\* A call writes to a row that is there, and has not found it approved:
\* validTransitions lets nothing out of approved.
CallsOK ==
    \A c \in Callers : call[c] # None =>
        /\ call[c].row \in DOMAIN expenses
        /\ call[c].read # StatusApproved

\* A reader who filters on no status has seen every row he began with up to
\* the offset; the end of the walk is the end of the list.
WalkOK ==
    (walk # None /\ walk.filter.statuses = {}) =>
        /\ walk.base \subseteq Matching(walk.filter)
        /\ \A i \in walk.base : Position(walk.filter, i) < walk.offset => i \in walk.seen
        /\ walk.ended => walk.base \subseteq walk.seen

IInv == TypeOK /\ RowsOK /\ CallsOK /\ WalkOK

LEMMA PositionIsPos == \A f, i : Position(f, i) = Pos(Matching(f), i)
BY DEF Position, Before, Pos

LEMMA RowFields ==
    ASSUME TypeOK, NEW i \in DOMAIN expenses
    PROVE  /\ expenses[i] \in Row /\ i \in 1..NExpenses /\ i \in Nat
           /\ expenses[i].taxi \in Taxis /\ expenses[i].driver \in Drivers
           /\ expenses[i].category \in Categories /\ expenses[i].status \in Status
           /\ expenses[i].amount \in Amounts \cup {None}
           /\ expenses[i].created_at \in Instants
<1>1. expenses \in Seq(Row) /\ Len(expenses) \in Nat /\ Len(expenses) <= NExpenses
      /\ DOMAIN expenses = 1..Len(expenses)
    BY DEF TypeOK
<1>2. expenses[i] \in Row /\ i \in Nat /\ 1 <= i /\ i <= NExpenses
    BY <1>1, AmountsAssumption
<1>3. QED
    BY <1>2, AmountsAssumption DEF Row

LEMMA MatchingIsFinite ==
    ASSUME TypeOK, NEW f
    PROVE  /\ Matching(f) \subseteq DOMAIN expenses
           /\ Matching(f) \in SUBSET Nat /\ IsFiniteSet(Matching(f))
           /\ Matching(f) \in SUBSET (1..NExpenses)
           /\ Cardinality(Matching(f)) \in Nat /\ Cardinality(Matching(f)) <= NExpenses
<1>1. Matching(f) \subseteq DOMAIN expenses
    BY DEF Matching
<1>2. Matching(f) \in SUBSET (1..NExpenses) /\ Matching(f) \in SUBSET Nat
    BY <1>1, RowFields
<1>3. IsFiniteSet(1..NExpenses) /\ Cardinality(1..NExpenses) = NExpenses
    BY AmountsAssumption, FS_Interval
<1>4. /\ IsFiniteSet(Matching(f)) /\ Cardinality(Matching(f)) <= NExpenses
      /\ Cardinality(Matching(f)) \in Nat
    BY <1>2, <1>3, FS_Subset, FS_CardinalityType
<1>5. QED
    BY <1>1, <1>2, <1>4

\* A step that keeps what a filter without statuses looks at, and only adds
\* rows at the end, keeps WalkOK and the walk's type.
RowsKept ==
    /\ DOMAIN expenses \subseteq (DOMAIN expenses)'
    /\ \A i \in DOMAIN expenses :
           /\ expenses'[i].taxi = expenses[i].taxi
           /\ expenses'[i].driver = expenses[i].driver
           /\ expenses'[i].category = expenses[i].category
           /\ expenses'[i].created_at = expenses[i].created_at

LEMMA MatchingGrows ==
    ASSUME RowsKept, NEW f, f.statuses = {}
    PROVE  Matching(f) \subseteq Matching(f)'
BY DEF RowsKept, Matching, Matches, OwnerOfRow

\* A row's position never falls when rows are added.
LEMMA PosGrows ==
    ASSUME NEW M, NEW L, IsFiniteSet(L), M \subseteq L, NEW i
    PROVE  Pos(M, i) \in Nat /\ Pos(L, i) \in Nat /\ Pos(M, i) <= Pos(L, i)
<1>1. PICK A, C : A = {j \in M : j > i} /\ C = {j \in L : j > i}
    OBVIOUS
<1>2. A \in SUBSET C /\ IsFiniteSet(C) /\ Pos(M, i) = Cardinality(A) /\ Pos(L, i) = Cardinality(C)
    BY <1>1, FS_Subset DEF Pos
<1>3. QED
    BY <1>2, FS_Subset, FS_CardinalityType

LEMMA TablesKeepWalk ==
    ASSUME IInv, TypeOK', RowsKept, UNCHANGED walk
    PROVE  WalkOK'
<1>1. SUFFICES ASSUME walk # None, walk.filter.statuses = {} PROVE WalkOK'
    BY DEF WalkOK
<1>2. PICK f : f = walk.filter
    OBVIOUS
<1>3. f = walk'.filter /\ walk' = walk
    BY <1>2
<1>4. PICK M, L : M = Matching(f) /\ L = Matching(f)'
    OBVIOUS
<1>5. M \subseteq L
    BY <1>1, <1>2, <1>4, MatchingGrows
<1>6. IsFiniteSet(L)
    <2>1. PICK n \in Nat : n = Len(expenses')
        BY DEF TypeOK
    <2>2. L \subseteq 1..n
        BY <1>4, <2>1 DEF Matching, TypeOK
    <2>3. IsFiniteSet(1..n)
        BY FS_Interval
    <2>4. QED
        BY <2>2, <2>3, FS_Subset
<1>7. /\ walk.base \subseteq M
      /\ \A i \in walk.base : Pos(M, i) < walk.offset => i \in walk.seen
      /\ walk.ended => walk.base \subseteq walk.seen
    BY <1>1, <1>2, <1>4, PositionIsPos DEF IInv, WalkOK
<1>8. walk.offset \in Nat
    BY <1>1, AmountsAssumption DEF IInv, TypeOK, Walk
<1>9. ASSUME NEW i \in walk.base, Pos(L, i) < walk.offset PROVE i \in walk.seen
    <2>1. Pos(M, i) \in Nat /\ Pos(L, i) \in Nat /\ Pos(M, i) <= Pos(L, i)
        BY <1>5, <1>6, PosGrows
    <2>2. Pos(M, i) < walk.offset
        BY <1>8, <1>9, <2>1
    <2>3. QED
        BY <1>7, <2>2
<1>10. \A i : Position(f, i)' = Pos(L, i)
    BY <1>4 DEF Position, Before, Pos
<1>11. walk'.base \subseteq L /\ (walk'.ended => walk'.base \subseteq walk'.seen)
    BY <1>3, <1>5, <1>7
<1>12. \A i \in walk'.base : Position(f, i)' < walk'.offset => i \in walk'.seen
    BY <1>3, <1>9, <1>10
<1>13. QED
    BY <1>3, <1>4, <1>11, <1>12 DEF WalkOK

\* Some calls end, the others go on.
CallsKept ==
    /\ call' \in [Callers -> StatusCall \cup {None}]
    /\ \A c \in Callers : call'[c] \in {None, call[c]}

LEMMA RowsKeepCalls == ASSUME IInv, RowsKept, CallsKept PROVE CallsOK'
<1>1. ASSUME NEW c \in Callers, call'[c] # None
      PROVE  call'[c].row \in DOMAIN expenses' /\ call'[c].read # StatusApproved
    <2>1. call'[c] = call[c]
        BY <1>1 DEF CallsKept
    <2>2. call[c].row \in DOMAIN expenses /\ call[c].read # StatusApproved
        BY <1>1, <2>1 DEF IInv, CallsOK
    <2>3. QED
        BY <2>1, <2>2 DEF RowsKept
<1>2. QED
    BY <1>1 DEF CallsOK

LEMMA SameCalls == ASSUME IInv, UNCHANGED call PROVE CallsKept
BY DEF IInv, TypeOK, CallsKept

LEMMA ReturnKeeps == ASSUME IInv, NEW c \in Callers, Return(c) PROVE CallsKept
<1>1. call \in [Callers -> StatusCall \cup {None}]
    BY DEF IInv, TypeOK
<1>2. QED
    BY <1>1 DEF Return, CallsKept

-----------------------------------------------------------------------------
(* The steps.                                                              *)

LEMMA InitInv == ASSUME Init PROVE IInv
<1>1. expenses \in Seq(Row) /\ Len(expenses) = 0
    BY DEF Init
<1>2. TypeOK
    BY <1>1, AmountsAssumption DEF Init, TypeOK
<1>3. RowsOK /\ CallsOK /\ WalkOK
    BY <1>1 DEF Init, RowsOK, CallsOK, WalkOK
<1>4. QED
    BY <1>2, <1>3 DEF IInv

LEMMA RegisterKeeps ==
    ASSUME IInv, NEW x \in Taxis, NEW d \in Drivers, NEW g \in Categories,
           NEW t \in Instants, Register(x, d, g, t)
    PROVE  IInv'
<1>1. PICK e : e = [taxi |-> x, driver |-> d, category |-> g, status |-> StatusPending,
                    amount |-> None, created_at |-> t]
    OBVIOUS
<1>2. e \in Row /\ e.taxi = x /\ e.driver = d /\ e.category = g
    BY <1>1 DEF Row, Status
<1>3. /\ expenses' = Append(expenses, e) /\ Len(expenses) < NExpenses
      /\ g \notin deleted /\ UNCHANGED <<active, deleted, walk, call>>
    BY <1>1 DEF Register
<1>4. PICK n \in Nat : n = Len(expenses) /\ DOMAIN expenses = 1..n
    BY DEF IInv, TypeOK
<1>5. expenses \in Seq(Row)
    BY DEF IInv, TypeOK
<1>6. /\ expenses' \in Seq(Row) /\ Len(expenses') = n + 1 /\ DOMAIN expenses' = 1..(n + 1)
      /\ expenses'[n + 1] = e /\ \A i \in 1..n : expenses'[i] = expenses[i]
    BY <1>2, <1>3, <1>4, <1>5
<1>7. TypeOK'
    <2>1. n + 1 <= NExpenses
        BY <1>3, <1>4, AmountsAssumption
    <2>2. QED
        BY <1>3, <1>6, <2>1 DEF IInv, TypeOK
<1>8. RowsOK'
    <2>1. ASSUME NEW i \in DOMAIN expenses'
          PROVE  expenses'[i].category \notin deleted
        <3>1. CASE i = n + 1
            BY <1>2, <1>3, <1>6, <3>1
        <3>2. CASE i # n + 1
            <4>1. i \in 1..n
                BY <1>6, <3>2
            <4>2. expenses'[i] = expenses[i]
                BY <1>6, <4>1
            <4>3. QED
                BY <1>4, <4>1, <4>2 DEF IInv, RowsOK
        <3>3. QED
            BY <3>1, <3>2
    <2>2. QED
        BY <1>3, <2>1 DEF RowsOK
<1>9. RowsKept
    <2>1. 1..n \subseteq 1..(n + 1)
        OBVIOUS
    <2>2. QED
        BY <1>4, <1>6, <2>1 DEF RowsKept
<1>10. CallsOK'
    BY <1>3, <1>9, SameCalls, RowsKeepCalls
<1>11. QED
    BY <1>3, <1>7, <1>8, <1>9, <1>10, TablesKeepWalk DEF IInv

\* A row that gets another status or amount.
LEMMA RowChangeKeeps ==
    ASSUME IInv, NEW i \in DOMAIN expenses, NEW e \in Row,
           e.taxi = expenses[i].taxi, e.driver = expenses[i].driver,
           e.category = expenses[i].category, e.created_at = expenses[i].created_at,
           expenses' = [expenses EXCEPT ![i] = e], UNCHANGED <<active, deleted, walk>>,
           CallsKept
    PROVE  IInv'
<1>1. PICK n \in Nat : n = Len(expenses) /\ DOMAIN expenses = 1..n
    BY DEF IInv, TypeOK
<1>2. expenses \in Seq(Row)
    BY DEF IInv, TypeOK
<1>3. /\ expenses' \in Seq(Row) /\ Len(expenses') = n /\ DOMAIN expenses' = 1..n
      /\ expenses'[i] = e /\ \A j \in 1..n : j # i => expenses'[j] = expenses[j]
    BY <1>1, <1>2
<1>4. TypeOK'
    BY <1>1, <1>3 DEF IInv, TypeOK, CallsKept
<1>5. \A j \in 1..n :
          /\ expenses'[j].taxi = expenses[j].taxi
          /\ expenses'[j].driver = expenses[j].driver
          /\ expenses'[j].category = expenses[j].category
          /\ expenses'[j].created_at = expenses[j].created_at
    BY <1>3
<1>6. RowsKept
    BY <1>1, <1>3, <1>5 DEF RowsKept
<1>7. RowsOK'
    BY <1>1, <1>3, <1>5 DEF IInv, RowsOK
<1>8. CallsOK'
    BY <1>6, RowsKeepCalls
<1>9. QED
    BY <1>4, <1>6, <1>7, <1>8, TablesKeepWalk DEF IInv

LEMMA UpdateAmountKeeps ==
    ASSUME IInv, NEW i \in DOMAIN expenses, NEW a \in Amounts, UpdateAmount(i, a)
    PROVE  IInv'
<1>1. PICK e : e = [expenses[i] EXCEPT !.amount = a]
    OBVIOUS
<1>2. expenses' = [expenses EXCEPT ![i] = e] /\ UNCHANGED <<active, deleted, walk, call>>
    BY <1>1 DEF UpdateAmount
<1>3. expenses[i] \in Row
    BY RowFields DEF IInv
<1>4. /\ e \in Row /\ e.taxi = expenses[i].taxi /\ e.driver = expenses[i].driver
      /\ e.category = expenses[i].category /\ e.created_at = expenses[i].created_at
    BY <1>1, <1>3 DEF Row
<1>5. QED
    BY <1>2, <1>4, SameCalls, RowChangeKeeps

LEMMA ReadStatusKeeps ==
    ASSUME IInv, NEW c \in Callers, NEW i \in DOMAIN expenses, NEW status \in Status,
           ReadStatus(c, i, status)
    PROVE  IInv'
<1>1. PICK s : s = [row |-> i, read |-> expenses[i].status, status |-> status]
    OBVIOUS
<1>2. call' = [call EXCEPT ![c] = s] /\ UNCHANGED <<expenses, active, deleted, walk>>
    BY <1>1 DEF ReadStatus
<1>3. expenses[i].status \in Status /\ i \in 1..NExpenses
    BY RowFields DEF IInv
<1>4. s \in StatusCall
    BY <1>1, <1>3 DEF StatusCall
<1>5. expenses[i].status # StatusApproved
    BY <1>3 DEF ReadStatus, canTransition, validTransitions, Status, StatusPending,
        StatusConfirmed, StatusNeedsEvidence, StatusApproved, StatusRejected
<1>6. call \in [Callers -> StatusCall \cup {None}]
    BY DEF IInv, TypeOK
<1>7. call' \in [Callers -> StatusCall \cup {None}]
    BY <1>2, <1>4, <1>6
<1>8. TypeOK' /\ RowsOK' /\ RowsKept
    BY <1>2, <1>7 DEF IInv, TypeOK, RowsOK, RowsKept
<1>9. CallsOK'
    <2>1. ASSUME NEW k \in Callers, call'[k] # None
          PROVE  call'[k].row \in DOMAIN expenses /\ call'[k].read # StatusApproved
        <3>1. CASE k = c
            BY <1>1, <1>2, <1>5, <1>6, <3>1
        <3>2. CASE k # c
            <4>1. call'[k] = call[k]
                BY <1>2, <1>6, <3>2
            <4>2. QED
                BY <2>1, <4>1 DEF IInv, CallsOK
        <3>3. QED
            BY <3>1, <3>2
    <2>2. QED
        BY <1>2, <2>1 DEF CallsOK
<1>10. QED
    BY <1>2, <1>8, <1>9, TablesKeepWalk DEF IInv

\* The row a call has decided about.
LEMMA CallFields ==
    ASSUME IInv, NEW c \in Callers, call[c] # None
    PROVE  /\ call[c] \in StatusCall /\ call[c].row \in DOMAIN expenses
           /\ call[c].status \in Status /\ call[c].read # StatusApproved
<1>1. call[c] \in StatusCall
    BY DEF IInv, TypeOK
<1>2. QED
    BY <1>1 DEF IInv, CallsOK, StatusCall

LEMMA UpdateStatusKeeps ==
    ASSUME IInv, NEW c \in Callers, UpdateStatus(c)
    PROVE  IInv'
<1>1. PICK i, e : i = call[c].row /\ e = [expenses[i] EXCEPT !.status = call[c].status]
    OBVIOUS
<1>2. /\ expenses' = [expenses EXCEPT ![i] = e] /\ UNCHANGED <<active, deleted, walk>>
      /\ call[c] # None /\ Return(c)
    BY <1>1 DEF UpdateStatus
<1>3. i \in DOMAIN expenses /\ call[c].status \in Status
    BY <1>1, <1>2, CallFields
<1>4. expenses[i] \in Row
    BY <1>3, RowFields DEF IInv
<1>5. /\ e \in Row /\ e.taxi = expenses[i].taxi /\ e.driver = expenses[i].driver
      /\ e.category = expenses[i].category /\ e.created_at = expenses[i].created_at
    BY <1>1, <1>3, <1>4 DEF Row
<1>6. QED
    BY <1>2, <1>3, <1>5, ReturnKeeps, RowChangeKeeps

LEMMA FailKeeps ==
    ASSUME IInv, NEW c \in Callers, Fail(c)
    PROVE  IInv'
<1>1. CallsKept
    BY ReturnKeeps DEF Fail
<1>2. TypeOK' /\ RowsOK' /\ RowsKept
    BY <1>1 DEF IInv, TypeOK, RowsOK, RowsKept, CallsKept, Fail
<1>3. QED
    BY <1>1, <1>2, RowsKeepCalls, TablesKeepWalk DEF IInv, Fail

LEMMA DeactivateKeeps ==
    ASSUME IInv, NEW x, Deactivate(x)
    PROVE  IInv'
<1>1. TypeOK' /\ RowsKept
    BY DEF IInv, TypeOK, Deactivate, RowsKept
<1>2. RowsOK' /\ CallsOK'
    BY DEF IInv, RowsOK, CallsOK, Deactivate
<1>3. QED
    BY <1>1, <1>2, TablesKeepWalk DEF IInv, Deactivate

LEMMA DeleteCategoryKeeps ==
    ASSUME IInv, NEW g \in Categories, DeleteCategory(g)
    PROVE  IInv'
<1>1. TypeOK' /\ RowsKept
    BY DEF IInv, TypeOK, DeleteCategory, RowsKept
<1>2. RowsOK' /\ CallsOK'
    BY DEF IInv, RowsOK, CallsOK, DeleteCategory
<1>3. QED
    BY <1>1, <1>2, TablesKeepWalk DEF IInv, DeleteCategory

LEMMA StartWalkKeeps ==
    ASSUME IInv, NEW f \in Filters, NEW limit \in Limits, StartWalk(f, limit)
    PROVE  IInv'
<1>1. PICK w : w = [filter |-> f, limit |-> limit, offset |-> 0, base |-> Matching(f),
                    seen |-> {}, ended |-> FALSE]
    OBVIOUS
<1>2. walk' = w /\ UNCHANGED <<expenses, active, deleted, call>>
    BY <1>1 DEF StartWalk
<1>3. Matching(f) \in SUBSET (1..NExpenses) /\ IsFiniteSet(Matching(f))
    BY MatchingIsFinite DEF IInv
<1>4. w \in Walk
    BY <1>1, <1>3, FiltersAssumption, AmountsAssumption DEF Walk
<1>5. TypeOK' /\ RowsOK' /\ CallsOK'
    BY <1>2, <1>4 DEF IInv, TypeOK, RowsOK, CallsOK
<1>6. WalkOK'
    <2>1. /\ w.filter = f /\ w.offset = 0 /\ w.base = Matching(f) /\ w.ended = FALSE
          /\ Matching(f)' = Matching(f)
        BY <1>1, <1>2 DEF Matching, Matches
    <2>2. \A i : Position(f, i)' = Pos(Matching(f), i)
        BY <2>1 DEF Position, Before, Pos
    <2>3. \A i : Pos(Matching(f), i) \in Nat
        BY <1>3, PosIsNat
    <2>4. \A i : ~ (Pos(Matching(f), i) < 0)
        BY <2>3
    <2>5. QED
        BY <1>2, <2>1, <2>2, <2>4 DEF WalkOK
<1>7. QED
    BY <1>5, <1>6 DEF IInv

\* A page is at least one row long.
LEMMA LimitClamped ==
    ASSUME NEW n \in Limits
    PROVE  clampLimit(clampLimit(parseLimit(n))) \in 1..MaxLimit
<1>1. /\ n \in Int /\ MaxLimit \in Nat /\ DefaultLimit \in Nat
      /\ 1 <= DefaultLimit /\ DefaultLimit <= MaxLimit
    BY LimitsAssumption
<1>2. PICK p : p = parseLimit(n)
    OBVIOUS
<1>3. p \in Nat /\ 1 <= p /\ p <= MaxLimit
    BY <1>1, <1>2 DEF parseLimit
<1>4. clampLimit(p) = p
    BY <1>1, <1>3 DEF clampLimit
<1>5. QED
    BY <1>1, <1>2, <1>3, <1>4

LEMMA NextPageKeeps ==
    ASSUME IInv, NextPage
    PROVE  IInv'
<1>1. PICK w \in Walk : w = walk /\ walk # None /\ ~ w.ended
    BY DEF NextPage, IInv, TypeOK
<1>2. PICK f, M, n : f = w.filter /\ M = Matching(f)
                     /\ n = clampLimit(clampLimit(parseLimit(w.limit)))
    OBVIOUS
<1>3. n \in Nat /\ 1 <= n
    <2>1. w.limit \in Limits
        BY DEF Walk
    <2>2. n \in 1..MaxLimit
        BY <1>2, <2>1, LimitClamped
    <2>3. QED
        BY <2>2, LimitsAssumption
<1>4. PICK a \in Nat : a = w.offset /\ a <= NExpenses
    BY AmountsAssumption DEF Walk
<1>5. /\ M \in SUBSET Nat /\ IsFiniteSet(M) /\ M \in SUBSET (1..NExpenses)
      /\ Cardinality(M) \in Nat /\ Cardinality(M) <= NExpenses
    BY <1>2, MatchingIsFinite DEF IInv
<1>6. PICK page : page = List(w.filter, w.limit, w.offset)
    OBVIOUS
<1>7. page = {i \in M : a <= Pos(M, i) /\ Pos(M, i) < a + n}
    BY <1>2, <1>4, <1>6, PositionIsPos DEF List
<1>8. PICK c \in Nat : c = Cardinality(page) /\ a + c <= a + n /\ (c = 0 <=> page = {})
    <2>1. page \in SUBSET M /\ \A i \in page : a <= Pos(M, i) /\ Pos(M, i) < a + n
        BY <1>7
    <2>2. a + n \in Nat /\ a <= a + n
        BY <1>3
    <2>3. QED
        BY <1>5, <2>1, <2>2, PageSize
<1>9. a + c <= NExpenses
    <2>1. CASE page = {}
        BY <1>4, <1>8, <2>1, AmountsAssumption
    <2>2. CASE page # {}
        <3>1. \A i \in page : a <= Pos(M, i) /\ Pos(M, i) < Cardinality(M)
            BY <1>5, <1>7, PosOrder
        <3>2. PICK i \in page : TRUE
            BY <2>2
        <3>3. PICK q \in Nat : q = Pos(M, i)
            BY <1>5, PosIsNat
        <3>4. a <= Cardinality(M)
            BY <1>5, <3>1, <3>2, <3>3
        <3>5. page \in SUBSET M
            BY <1>7
        <3>6. a + Cardinality(page) <= Cardinality(M)
            BY <1>5, <3>1, <3>4, <3>5, PageSize
        <3>7. QED
            BY <1>5, <1>8, <3>6, AmountsAssumption
    <2>3. QED
        BY <2>1, <2>2
<1>10. PICK v : v = [w EXCEPT !.offset = a + c, !.seen = w.seen \cup page,
                              !.ended = (page = {})]
    OBVIOUS
<1>11. walk' = v /\ UNCHANGED <<expenses, active, deleted, call>>
    BY <1>1, <1>4, <1>6, <1>8, <1>10 DEF NextPage
<1>12. /\ v.filter = f /\ v.base = w.base /\ v.offset = a + c
       /\ v.seen = w.seen \cup page /\ v.ended = (page = {})
    BY <1>2, <1>10 DEF Walk
<1>13. v \in Walk
    <2>1. page \in SUBSET (1..NExpenses)
        BY <1>5, <1>7
    <2> a + c \in 0..NExpenses
        BY <1>9, AmountsAssumption
    <2>2. QED
        BY <1>10, <2>1 DEF Walk
<1>14. TypeOK' /\ RowsOK' /\ CallsOK'
    BY <1>11, <1>13 DEF IInv, TypeOK, RowsOK, CallsOK
<1>15. WalkOK'
    <2>1. SUFFICES ASSUME f.statuses = {} PROVE WalkOK'
        BY <1>11, <1>12 DEF WalkOK
    <2>2. /\ w.base \subseteq M
          /\ \A i \in w.base : Pos(M, i) < a => i \in w.seen
        BY <1>1, <1>2, <1>4, <2>1, PositionIsPos DEF IInv, WalkOK
    <2>3. Matching(f)' = M /\ \A i : Position(f, i)' = Pos(M, i)
        BY <1>2, <1>11 DEF Matching, Matches, Position, Before, Pos
    <2>4. ASSUME NEW i \in w.base, Pos(M, i) < a + c PROVE i \in v.seen
        <3>1. PICK q \in Nat : q = Pos(M, i)
            BY <1>5, PosIsNat
        <3>2. q < a \/ (a <= q /\ q < a + n)
            BY <1>3, <1>8, <2>4, <3>1
        <3>3. i \in M
            BY <2>2
        <3>4. QED
            BY <1>7, <1>12, <2>2, <3>1, <3>2, <3>3
    <2>5. ASSUME page = {}, NEW i \in w.base PROVE i \in v.seen
        <3>1. PICK q \in Nat : q = Pos(M, i)
            BY <1>5, PosIsNat
        <3>2. CASE q < a
            BY <1>12, <2>2, <3>1, <3>2
        <3>3. CASE ~ (q < a)
            <4>1. a <= Pos(M, i) /\ i \in M
                BY <2>2, <3>1, <3>3
            <4>2. PICK j \in M : Pos(M, j) = a
                BY <1>5, <4>1, PosFilled
            <4>3. j \in page
                BY <1>3, <1>7, <4>2
            <4>4. QED
                BY <2>5, <4>3
        <3>4. QED
            BY <3>2, <3>3
    <2>6. /\ v.base \subseteq Matching(f)'
          /\ \A i \in v.base : Position(f, i)' < v.offset => i \in v.seen
          /\ v.ended => v.base \subseteq v.seen
        BY <1>12, <2>2, <2>3, <2>4, <2>5
    <2>7. QED
        BY <1>11, <1>12, <2>6 DEF WalkOK
<1>16. QED
    BY <1>14, <1>15 DEF IInv

LEMMA StutterKeeps == ASSUME IInv, UNCHANGED vars PROVE IInv'
<1>1. TypeOK' /\ RowsOK' /\ CallsOK' /\ RowsKept
    BY DEF IInv, TypeOK, RowsOK, CallsOK, RowsKept, vars
<1>2. QED
    BY <1>1, TablesKeepWalk DEF IInv, vars

\* The invariant holds at the start and no step breaks it.
THEOREM Invariance == Spec => []IInv
<1>1. Init => IInv
    BY InitInv
<1>2. IInv /\ [Next]_vars => IInv'
    <2>1. SUFFICES ASSUME IInv, Next PROVE IInv'
        BY StutterKeeps
    <2>2. CASE \E x \in Taxis, d \in Drivers, g \in Categories, t \in Instants :
                   Register(x, d, g, t)
        BY <2>1, <2>2, RegisterKeeps
    <2>3. CASE \E i \in Rows, a \in Amounts : UpdateAmount(i, a)
        BY <2>1, <2>3, UpdateAmountKeeps DEF Rows
    <2>4. CASE \E c \in Callers : \/ \E i \in Rows, status \in Status : ReadStatus(c, i, status)
                                  \/ UpdateStatus(c)
                                  \/ Fail(c)
        BY <2>1, <2>4, ReadStatusKeeps, UpdateStatusKeeps, FailKeeps DEF Rows
    <2>5. CASE \E x \in active : Deactivate(x)
        BY <2>1, <2>5, DeactivateKeeps
    <2>6. CASE \E g \in Categories : DeleteCategory(g)
        BY <2>1, <2>6, DeleteCategoryKeeps
    <2>7. CASE \E f \in Filters, limit \in Limits : StartWalk(f, limit)
        BY <2>1, <2>7, StartWalkKeeps
    <2>8. CASE NextPage
        BY <2>1, <2>8, NextPageKeeps
    <2>9. QED
        BY <2>1, <2>2, <2>3, <2>4, <2>5, <2>6, <2>7, <2>8 DEF Next
<1>3. QED
    BY <1>1, <1>2, PTL DEF Spec

\* Tables and the reader's walk keep their types.
THEOREM TypeCorrect == Spec => []TypeOK
<1>1. IInv => TypeOK
    BY DEF IInv
<1>2. QED
    BY <1>1, Invariance, PTL

\* An owner who reads on until an empty page has seen every expense that was
\* there when the reading began: LIMIT, OFFSET and ORDER BY created_at DESC
\* (src/internal/expense/repository.go) against rows registered, reviewed and
\* deactivated between the pages.
THEOREM NothingIsMissed == Spec => []WalkMissesNothing
<1>1. IInv => WalkMissesNothing
    BY DEF IInv, WalkOK, WalkMissesNothing
<1>2. QED
    BY <1>1, Invariance, PTL

-----------------------------------------------------------------------------
(* The three reports.                                                      *)

\* The taxi, the driver and the category of every row.
TaxiOf == [i \in DOMAIN expenses |-> expenses[i].taxi]
DriverOf == [i \in DOMAIN expenses |-> expenses[i].driver]
CategoryOf == [i \in DOMAIN expenses |-> expenses[i].category]

\* The counted rows whose taxi, driver or category (key) is owner o's.
RowsOf(key, o, p) == {i \in Counted(p) : OwnerOf[key[i]] = o}

LEMMA CountedIsFinite ==
    ASSUME TypeOK, NEW p
    PROVE  IsFiniteSet(Counted(p)) /\ Counted(p) \subseteq DOMAIN expenses
<1>1. PICK n \in Nat : n = Len(expenses) /\ DOMAIN expenses = 1..n
    BY DEF TypeOK
<1>2. Counted(p) \in SUBSET (1..n)
    BY <1>1 DEF Counted
<1>3. IsFiniteSet(1..n)
    BY FS_Interval
<1>4. QED
    BY <1>1, <1>2, <1>3, FS_Subset

\* What SUM adds for a row, NULL included.
LEMMA AmountIsNat ==
    ASSUME TypeOK, NEW i \in DOMAIN expenses
    PROVE  AmountOf[i] \in Nat
<1>1. expenses[i].amount \in Amounts \cup {None}
    BY RowFields
<1>2. PICK a : a = expenses[i].amount
    OBVIOUS
<1>3. AmountOf[i] = IF a = None THEN 0 ELSE a
    BY <1>2 DEF AmountOf
<1>4. CASE a = None
    BY <1>3, <1>4
<1>5. CASE a # None
    <2>1. a \in Amounts
        BY <1>1, <1>2, <1>5
    <2>2. a \in Nat
        BY <2>1, AmountsAssumption
    <2>3. QED
        BY <1>3, <1>5, <2>2
<1>6. QED
    BY <1>4, <1>5

\* A report whose groups hold exactly the rows of R adds up to the sum over R.
AddsUpTo(report, R) ==
    /\ Overall(report) = Sum(R)
    /\ LinesCount(report) = Cardinality(R)
    /\ LinesTotal(report) = SumOver(AmountOf, R)

LEMMA ReportAddsUp ==
    ASSUME TypeOK, NEW p, NEW K, IsFiniteSet(K), NEW key, NEW report,
           report = [x \in K |-> Sum({i \in Counted(p) : key[i] = x})],
           NEW R, R = {i \in Counted(p) : key[i] \in K}
    PROVE  AddsUpTo(report, R)
<1>1. PICK C, f : C = Counted(p) /\ f = AmountOf
    OBVIOUS
<1>2. IsFiniteSet(C) /\ C \subseteq DOMAIN expenses
    BY <1>1, CountedIsFinite
<1>3. ASSUME NEW i \in C PROVE f[i] \in Nat
    BY <1>1, <1>2, AmountIsNat
<1>4. PICK count, total :
          /\ count = [x \in DOMAIN report |-> report[x].count]
          /\ total = [x \in DOMAIN report |-> report[x].total]
    OBVIOUS
<1>5. DOMAIN report = K
    OBVIOUS
<1>6. \A x \in K : /\ count[x] = Cardinality({i \in C : key[i] = x})
                   /\ total[x] = SumOver(f, {i \in C : key[i] = x})
    BY <1>1, <1>4, <1>5 DEF Sum
<1>7. SumOver(count, K) = Cardinality(R)
    BY <1>1, <1>2, <1>6, GroupsCount
<1>8. SumOver(total, K) = SumOver(f, R)
    <2>1. \A i \in C : f[i] \in Nat
        BY <1>3
    <2>2. total = [x \in K |-> SumOver(f, {i \in C : key[i] = x})]
        BY <1>4, <1>6
    <2>3. R = {i \in C : key[i] \in K} /\ IsFiniteSet(C)
        BY <1>1, <1>2
    <2>4. QED
        BY <2>1, <2>2, <2>3, GroupsSum
<1>9. LinesCount(report) = Cardinality(R) /\ LinesTotal(report) = SumOver(f, R)
    BY <1>4, <1>5, <1>7, <1>8 DEF LinesCount, LinesTotal
<1>10. QED
    BY <1>1, <1>9 DEF AddsUpTo, Overall, Sum

\* Each of the three queries, scoped by another table's owner_id, adds up to
\* the rows whose taxi, driver or category is the owner's.
LEMMA TaxisAddUp ==
    ASSUME IInv, NEW o, NEW p PROVE AddsUpTo(SumByTaxi(o, p), RowsOf(TaxiOf, o, p))
<1>1. PICK K : K = {t \in Taxis : OwnerOf[t] = o}
    OBVIOUS
<1>2. IsFiniteSet(K)
    BY <1>1, TenantsAssumption, FS_Subset
<1>3. Counted(p) \subseteq DOMAIN expenses
    BY DEF Counted
<1>4. SumByTaxi(o, p) = [x \in K |-> Sum({i \in Counted(p) : TaxiOf[i] = x})]
    <2>1. \A x : {i \in Counted(p) : expenses[i].taxi = x} = {i \in Counted(p) : TaxiOf[i] = x}
        BY <1>3 DEF TaxiOf
    <2>2. QED
        BY <1>1, <2>1 DEF SumByTaxi
<1>5. RowsOf(TaxiOf, o, p) = {i \in Counted(p) : TaxiOf[i] \in K}
    BY <1>1, <1>3, RowFields DEF IInv, RowsOf, TaxiOf
<1>6. QED
    BY <1>2, <1>4, <1>5, ReportAddsUp DEF IInv

LEMMA DriversAddUp ==
    ASSUME IInv, NEW o, NEW p PROVE AddsUpTo(SumByDriver(o, p), RowsOf(DriverOf, o, p))
<1>1. PICK K : K = {d \in Drivers : OwnerOf[d] = o}
    OBVIOUS
<1>2. IsFiniteSet(K)
    BY <1>1, TenantsAssumption, FS_Subset
<1>3. Counted(p) \subseteq DOMAIN expenses
    BY DEF Counted
<1>4. SumByDriver(o, p) = [x \in K |-> Sum({i \in Counted(p) : DriverOf[i] = x})]
    <2>1. \A x : {i \in Counted(p) : expenses[i].driver = x} = {i \in Counted(p) : DriverOf[i] = x}
        BY <1>3 DEF DriverOf
    <2>2. QED
        BY <1>1, <2>1 DEF SumByDriver
<1>5. RowsOf(DriverOf, o, p) = {i \in Counted(p) : DriverOf[i] \in K}
    BY <1>1, <1>3, RowFields DEF IInv, RowsOf, DriverOf
<1>6. QED
    BY <1>2, <1>4, <1>5, ReportAddsUp DEF IInv

LEMMA CategoriesAddUp ==
    ASSUME IInv, NEW o, NEW p PROVE AddsUpTo(SumByCategory(o, p), RowsOf(CategoryOf, o, p))
<1>1. PICK K : K = {g \in Categories \ deleted : OwnerOf[g] = o}
    OBVIOUS
<1>2. IsFiniteSet(K)
    BY <1>1, TenantsAssumption, FS_Subset
<1>3. Counted(p) \subseteq DOMAIN expenses
    BY DEF Counted
<1>4. SumByCategory(o, p) = [x \in K |-> Sum({i \in Counted(p) : CategoryOf[i] = x})]
    <2>1. \A x : {i \in Counted(p) : expenses[i].category = x}
                   = {i \in Counted(p) : CategoryOf[i] = x}
        BY <1>3 DEF CategoryOf
    <2>2. QED
        BY <1>1, <2>1 DEF SumByCategory
<1>5. RowsOf(CategoryOf, o, p) = {i \in Counted(p) : CategoryOf[i] \in K}
    BY <1>1, <1>3, RowFields DEF IInv, RowsOK, RowsOf, CategoryOf
<1>6. QED
    BY <1>2, <1>4, <1>5, ReportAddsUp DEF IInv

\* For every owner and period the totals and counts per taxi, per driver and
\* per category (SumByTaxi, SumByDriver, SumByCategory of the repository) add
\* up to the same, if the owner shares none of the rows with another tenant.
THEOREM ReportsAlwaysAgree == Spec => []ReportsAgree
<1>1. ASSUME IInv, NEW o \in Owners, NEW p \in DateRange,
             \A i \in Counted(p) : Touches(expenses[i], o) => Whole(expenses[i])
      PROVE  Cardinality(Summaries(o, p)) = 1
    <2>1. PICK R : R = RowsOf(DriverOf, o, p)
        OBVIOUS
    <2>2. Counted(p) \subseteq DOMAIN expenses
        BY DEF Counted
    <2>3. RowsOf(TaxiOf, o, p) = R /\ RowsOf(CategoryOf, o, p) = R
        BY <1>1, <2>1, <2>2 DEF RowsOf, TaxiOf, DriverOf, CategoryOf, Touches, Whole
    <2>4. /\ Overall(SumByTaxi(o, p)) = Sum(R) /\ Overall(SumByDriver(o, p)) = Sum(R)
          /\ Overall(SumByCategory(o, p)) = Sum(R)
        BY <1>1, <2>1, <2>3, TaxisAddUp, DriversAddUp, CategoriesAddUp DEF AddsUpTo
    <2>5. Summaries(o, p) = {Sum(R)}
        BY <2>4 DEF Summaries
    <2>6. QED
        BY <2>5, FS_Singleton
<1>2. IInv => ReportsAgree
    BY <1>1 DEF ReportsAgree
<1>3. QED
    BY <1>2, Invariance, PTL

\* What the owners' reports of one kind add up to, all owners together.
LEMMA OwnersAddUp ==
    ASSUME TypeOK, NEW p, NEW key, \A i \in Counted(p) : OwnerOf[key[i]] \in Owners,
           NEW count, count = [o \in Owners |-> Cardinality(RowsOf(key, o, p))],
           NEW total, total = [o \in Owners |-> SumOver(AmountOf, RowsOf(key, o, p))]
    PROVE  /\ SumOver(count, Owners) = Cardinality(Counted(p))
           /\ SumOver(total, Owners) = SumOver(AmountOf, Counted(p))
<1>1. PICK C, f, k : /\ C = Counted(p) /\ f = AmountOf
                     /\ k = [i \in Counted(p) |-> OwnerOf[key[i]]]
    OBVIOUS
<1>2. IsFiniteSet(C) /\ IsFiniteSet(Owners) /\ \A i \in C : f[i] \in Nat
    BY <1>1, CountedIsFinite, AmountIsNat, TenantsAssumption
<1>3. \A o : RowsOf(key, o, p) = {i \in C : k[i] = o}
    BY <1>1 DEF RowsOf
<1>4. C = {i \in C : k[i] \in Owners}
    BY <1>1
<1>5. SumOver(count, Owners) = Cardinality(C)
    <2>1. \A o \in Owners : count[o] = Cardinality({i \in C : k[i] = o})
        BY <1>3
    <2>2. SumOver(count, Owners) = Cardinality({i \in C : k[i] \in Owners})
        BY <1>2, <2>1, GroupsCount
    <2>3. QED
        BY <1>4, <2>2
<1>6. SumOver(total, Owners) = SumOver(f, C)
    <2>1. total = [o \in Owners |-> SumOver(f, {i \in C : k[i] = o})]
        BY <1>1, <1>3
    <2>2. QED
        BY <1>2, <1>4, <2>1, GroupsSum
<1>7. QED
    BY <1>1, <1>5, <1>6

\* No approved expense is missing from the reports of all owners, or counted
\* twice (SumByTaxi, SumByDriver, SumByCategory of the repository), whosever
\* its taxi, driver and category are.
THEOREM NothingIsLostOrDoubled == Spec => []EveryRowIsReported
<1>1. ASSUME IInv, NEW p
      PROVE  /\ SumOver([o \in Owners |-> LinesCount(SumByTaxi(o, p))], Owners)
                  = Cardinality(Counted(p))
             /\ SumOver([o \in Owners |-> LinesTotal(SumByTaxi(o, p))], Owners)
                  = SumOver(AmountOf, Counted(p))
    <2>1. \A i \in Counted(p) : OwnerOf[TaxiOf[i]] \in Owners
        BY <1>1, RowFields, TenantsAssumption DEF IInv, Counted, TaxiOf
    <2>2. PICK count, total :
              /\ count = [o \in Owners |-> Cardinality(RowsOf(TaxiOf, o, p))]
              /\ total = [o \in Owners |-> SumOver(AmountOf, RowsOf(TaxiOf, o, p))]
        OBVIOUS
    <2>3. /\ count = [o \in Owners |-> LinesCount(SumByTaxi(o, p))]
          /\ total = [o \in Owners |-> LinesTotal(SumByTaxi(o, p))]
        BY <1>1, <2>2, TaxisAddUp DEF AddsUpTo
    <2>4. QED
        BY <1>1, <2>1, <2>2, <2>3, OwnersAddUp DEF IInv
<1>2. ASSUME IInv, NEW p
      PROVE  /\ SumOver([o \in Owners |-> LinesCount(SumByDriver(o, p))], Owners)
                  = Cardinality(Counted(p))
             /\ SumOver([o \in Owners |-> LinesTotal(SumByDriver(o, p))], Owners)
                  = SumOver(AmountOf, Counted(p))
    <2>1. \A i \in Counted(p) : OwnerOf[DriverOf[i]] \in Owners
        BY <1>2, RowFields, TenantsAssumption DEF IInv, Counted, DriverOf
    <2>2. PICK count, total :
              /\ count = [o \in Owners |-> Cardinality(RowsOf(DriverOf, o, p))]
              /\ total = [o \in Owners |-> SumOver(AmountOf, RowsOf(DriverOf, o, p))]
        OBVIOUS
    <2>3. /\ count = [o \in Owners |-> LinesCount(SumByDriver(o, p))]
          /\ total = [o \in Owners |-> LinesTotal(SumByDriver(o, p))]
        BY <1>2, <2>2, DriversAddUp DEF AddsUpTo
    <2>4. QED
        BY <1>2, <2>1, <2>2, <2>3, OwnersAddUp DEF IInv
<1>3. ASSUME IInv, NEW p
      PROVE  /\ SumOver([o \in Owners |-> LinesCount(SumByCategory(o, p))], Owners)
                  = Cardinality(Counted(p))
             /\ SumOver([o \in Owners |-> LinesTotal(SumByCategory(o, p))], Owners)
                  = SumOver(AmountOf, Counted(p))
    <2>1. \A i \in Counted(p) : OwnerOf[CategoryOf[i]] \in Owners
        BY <1>3, RowFields, TenantsAssumption DEF IInv, Counted, CategoryOf
    <2>2. PICK count, total :
              /\ count = [o \in Owners |-> Cardinality(RowsOf(CategoryOf, o, p))]
              /\ total = [o \in Owners |-> SumOver(AmountOf, RowsOf(CategoryOf, o, p))]
        OBVIOUS
    <2>3. /\ count = [o \in Owners |-> LinesCount(SumByCategory(o, p))]
          /\ total = [o \in Owners |-> LinesTotal(SumByCategory(o, p))]
        BY <1>3, <2>2, CategoriesAddUp DEF AddsUpTo
    <2>4. QED
        BY <1>3, <2>1, <2>2, <2>3, OwnersAddUp DEF IInv
<1>4. IInv => EveryRowIsReported
    BY <1>1, <1>2, <1>3 DEF EveryRowIsReported
<1>5. QED
    BY <1>4, Invariance, PTL

-----------------------------------------------------------------------------
(* Approved rows stay.                                                     *)

CountsAre ==
    \A o \in Owners, p \in DateRange :
        /\ LinesCount(SumByCategory(o, p)) = Cardinality(RowsOf(CategoryOf, o, p))
        /\ IsFiniteSet(RowsOf(CategoryOf, o, p))

LEMMA CountsAreOf == IInv => CountsAre
<1>1. ASSUME IInv, NEW p, NEW o PROVE IsFiniteSet(RowsOf(CategoryOf, o, p))
    <2>1. IsFiniteSet(Counted(p)) /\ RowsOf(CategoryOf, o, p) \in SUBSET Counted(p)
        BY <1>1, CountedIsFinite DEF IInv, RowsOf
    <2>2. QED
        BY <2>1, FS_Subset
<1>2. QED
    BY <1>1, CategoriesAddUp DEF CountsAre, AddsUpTo

\* What the sums read of row i is the same after the step.
SameLine(i) ==
    /\ i \in DOMAIN expenses'
    /\ expenses'[i].status = expenses[i].status
    /\ expenses'[i].category = expenses[i].category
    /\ expenses'[i].created_at = expenses[i].created_at

LEMMA LineStays ==
    ASSUME NEW o, NEW p, NEW i \in RowsOf(CategoryOf, o, p), SameLine(i)
    PROVE  i \in RowsOf(CategoryOf, o, p)'
BY DEF SameLine, RowsOf, Counted, CategoryOf

\* A write of a status changes no line but its own.
LEMMA OtherLinesStay ==
    ASSUME IInv, NEW c \in Callers, UpdateStatus(c),
           NEW i \in DOMAIN expenses, i # call[c].row
    PROVE  SameLine(i)
<1>1. PICK n \in Nat : n = Len(expenses) /\ DOMAIN expenses = 1..n
    BY DEF IInv, TypeOK
<1>2. expenses \in Seq(Row) /\ i \in 1..n
    BY <1>1 DEF IInv, TypeOK
<1>3. PICK k, e : k = call[c].row /\ expenses' = [expenses EXCEPT ![k] = e]
    BY DEF UpdateStatus
<1>4. QED
    BY <1>1, <1>2, <1>3 DEF SameLine

\* Only the write of a call that overlapped the approval takes a row away.
LEMMA ApprovedStays ==
    ASSUME IInv, Next, NEW o \in Owners, NEW p \in DateRange,
           ~ \E c \in Callers : OverwritesApproval(c)
    PROVE  RowsOf(CategoryOf, o, p) \subseteq RowsOf(CategoryOf, o, p)'
<1>1. SUFFICES ASSUME NEW i \in RowsOf(CategoryOf, o, p) PROVE SameLine(i)
    BY LineStays
<1>2. PICK n \in Nat : n = Len(expenses) /\ DOMAIN expenses = 1..n
    BY DEF IInv, TypeOK
<1>3. i \in 1..n /\ expenses[i].status = StatusApproved /\ expenses \in Seq(Row)
    BY <1>2 DEF RowsOf, Counted, IInv, TypeOK
<1>4. CASE \E e : expenses' = Append(expenses, e)
    BY <1>2, <1>3, <1>4 DEF SameLine
<1>5. ASSUME NEW k \in Rows, NEW a, UpdateAmount(k, a) PROVE SameLine(i)
    <2>1. PICK e : e = [expenses[k] EXCEPT !.amount = a]
        OBVIOUS
    <2>2. expenses[k] \in Row
        BY <1>5, RowFields DEF IInv, Rows
    <2>3. /\ e.status = expenses[k].status /\ e.category = expenses[k].category
          /\ e.created_at = expenses[k].created_at
        BY <2>1, <2>2 DEF Row
    <2>4. expenses' = [expenses EXCEPT ![k] = e]
        BY <1>5, <2>1 DEF UpdateAmount
    <2>5. QED
        BY <1>2, <1>3, <2>3, <2>4 DEF SameLine
<1>6. ASSUME NEW c \in Callers, UpdateStatus(c) PROVE SameLine(i)
    <2>1. call[c] # None /\ call[c].read # StatusApproved
        BY <1>6, CallFields DEF UpdateStatus
    <2>2. i # call[c].row
        BY <1>3, <1>6, <2>1 DEF OverwritesApproval
    <2>3. QED
        BY <1>2, <1>3, <1>6, <2>2, OtherLinesStay
<1>7. CASE UNCHANGED expenses
    BY <1>2, <1>3, <1>7 DEF SameLine
<1>8. QED
    BY <1>4, <1>5, <1>6, <1>7
       DEF Next, Register, ReadStatus, Fail, Deactivate, DeleteCategory, StartWalk, NextPage

\* Such a write takes away one row at most.
LEMMA OneRowLeaves ==
    ASSUME IInv, NEW c \in Callers, UpdateStatus(c), NEW o \in Owners, NEW p \in DateRange
    PROVE  RowsOf(CategoryOf, o, p) \ {call[c].row} \subseteq RowsOf(CategoryOf, o, p)'
<1>1. SUFFICES ASSUME NEW i \in RowsOf(CategoryOf, o, p), i # call[c].row
               PROVE  SameLine(i)
    BY LineStays
<1>2. i \in DOMAIN expenses
    BY DEF RowsOf, Counted
<1>3. QED
    BY <1>1, <1>2, OtherLinesStay

\* A set that keeps all but one element of another is smaller by one at most.
LEMMA SmallerByOne ==
    ASSUME NEW A, NEW C, NEW x, IsFiniteSet(A), IsFiniteSet(C), A \ {x} \subseteq C
    PROVE  /\ Cardinality(A) \in Nat /\ Cardinality(C) \in Nat
           /\ Cardinality(C) < Cardinality(A) => Cardinality(C) = Cardinality(A) - 1
<1>1. IsFiniteSet(A \ {x}) /\ Cardinality(A \ {x}) <= Cardinality(C)
    BY FS_Subset
<1>2. Cardinality(A) \in Nat /\ Cardinality(C) \in Nat /\ Cardinality(A \ {x}) \in Nat
    BY <1>1, FS_CardinalityType
<1>3. CASE x \in A
    <2>1. Cardinality(A \ {x}) = Cardinality(A) - 1
        BY <1>3, FS_RemoveElement
    <2>2. QED
        BY <1>1, <1>2, <2>1
<1>4. CASE x \notin A
    <2>1. A \ {x} = A
        BY <1>4
    <2>2. Cardinality(A) <= Cardinality(C)
        BY <1>1, <2>1
    <2>3. QED
        BY <1>2, <2>2
<1>5. QED
    BY <1>3, <1>4

\* A report loses a row of the past only to a call that overlapped its
\* approval: validTransitions lets nothing out of approved, a used category
\* cannot be deleted, rows are never deleted (the foreign keys of expenses).
THEOREM CountsStay == Spec => CountsShrinkByOverlapOnly
<1>1. IInv => CountsAre
    BY CountsAreOf
<1>2. IInv /\ CountsAre /\ CountsAre' /\ [Next]_vars =>
        [\A o \in Owners, p \in DateRange :
            LinesCount(SumByCategory(o, p))' < LinesCount(SumByCategory(o, p)) =>
                /\ LinesCount(SumByCategory(o, p))' = LinesCount(SumByCategory(o, p)) - 1
                /\ \E c \in Callers : OverwritesApproval(c)]_<<expenses, deleted>>
    <2>1. SUFFICES ASSUME IInv, CountsAre, CountsAre', Next,
                          NEW o \in Owners, NEW p \in DateRange,
                          LinesCount(SumByCategory(o, p))' < LinesCount(SumByCategory(o, p))
                   PROVE  /\ LinesCount(SumByCategory(o, p))'
                               = LinesCount(SumByCategory(o, p)) - 1
                          /\ \E c \in Callers : OverwritesApproval(c)
        BY DEF vars
    <2>2. PICK A, C : A = RowsOf(CategoryOf, o, p) /\ C = RowsOf(CategoryOf, o, p)'
        OBVIOUS
    <2>3. /\ LinesCount(SumByCategory(o, p)) = Cardinality(A)
          /\ LinesCount(SumByCategory(o, p))' = Cardinality(C)
          /\ IsFiniteSet(A) /\ IsFiniteSet(C)
        BY <2>1, <2>2 DEF CountsAre
    <2>4. \E c \in Callers : OverwritesApproval(c)
        <3>1. SUFFICES ASSUME ~ \E c \in Callers : OverwritesApproval(c) PROVE FALSE
            OBVIOUS
        <3>2. A \subseteq C
            BY <2>1, <2>2, <3>1, ApprovedStays
        <3>3. Cardinality(A) <= Cardinality(C)
            BY <2>3, <3>2, FS_Subset
        <3>4. Cardinality(A) \in Nat /\ Cardinality(C) \in Nat
            BY <2>3, FS_CardinalityType
        <3>5. QED
            BY <2>1, <2>3, <3>3, <3>4
    <2>5. PICK c \in Callers : OverwritesApproval(c)
        BY <2>4
    <2>6. A \ {call[c].row} \subseteq C
        BY <2>1, <2>2, <2>5, OneRowLeaves DEF OverwritesApproval
    <2>7. Cardinality(C) = Cardinality(A) - 1
        BY <2>1, <2>3, <2>6, SmallerByOne
    <2>8. QED
        BY <2>3, <2>4, <2>7
<1>3. QED
    BY <1>1, <1>2, Invariance, PTL DEF Spec, CountsShrinkByOverlapOnly

=============================================================================
