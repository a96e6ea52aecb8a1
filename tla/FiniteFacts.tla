----------------------------- MODULE FiniteFacts -----------------------------
(* Facts about sets of naturals, finite sets and sums over them that several *)
(* proofs need.  They stand in for inductions: what fails somewhere fails    *)
(* first somewhere.                                                          *)
EXTENDS Integers, Sums, FiniteSetTheorems, WellFoundedInduction, TLAPS

\* A set of naturals that is not empty has a least element.
LEMMA LeastNatural ==
    ASSUME NEW T \in SUBSET Nat, T # {}
    PROVE  \E m \in T : \A n \in T : m <= n
<1>1. PICK m \in T : \A n \in T : ~(<<n, m>> \in OpToRel(<, Nat))
  BY NatLessThanWellFounded, WFMin, Zenon
<1>2. \A n \in T : ~(n < m)
  BY <1>1 DEF OpToRel
<1> QED
  BY <1>2

\* A finite one has a greatest.
LEMMA GreatestNatural ==
    ASSUME NEW S \in SUBSET Nat, IsFiniteSet(S), S # {}
    PROVE  \E m \in S : \A n \in S : n <= m
<1> DEFINE Top(T) == \E m \in T : \A n \in T : n <= m
           Bad == {c \in Nat : \E T \in SUBSET S : T # {} /\ Cardinality(T) = c /\ ~Top(T)}
<1>1. SUFFICES ASSUME ~Top(S) PROVE FALSE
  OBVIOUS
<1>2. Cardinality(S) \in Bad
  BY <1>1, FS_CardinalityType
<1>3. PICK c \in Bad : \A d \in Bad : c <= d
  <2>1. Bad \in SUBSET Nat /\ Bad # {}
    BY <1>2
  <2> HIDE DEF Bad
  <2> QED
    BY <2>1, LeastNatural
<1>4. PICK T \in SUBSET S : T # {} /\ Cardinality(T) = c /\ ~Top(T)
  BY DEF Bad
<1>5. PICK t \in T : TRUE
  BY <1>4
<1>6. IsFiniteSet(T) /\ Cardinality(T \ {t}) = c - 1 /\ c \in Nat /\ c - 1 \in Nat
  <2>1. IsFiniteSet(T)
    BY FS_Subset
  <2>2. IsFiniteSet(T \ {t}) /\ Cardinality(T \ {t}) = c - 1
    BY <1>4, <1>5, <2>1, FS_RemoveElement
  <2> QED
    BY <2>1, <2>2, FS_CardinalityType
<1>7. CASE T \ {t} = {}
  <2>1. T = {t} /\ t \in Nat
    BY <1>5, <1>7
  <2> QED
    BY <1>4, <2>1
<1>8. CASE T \ {t} # {} /\ ~Top(T \ {t})
  <2>1. c - 1 \in Bad
    BY <1>6, <1>8
  <2>2. c <= c - 1
    BY <1>3, <2>1
  <2> QED
    BY <1>6, <2>2
<1>9. CASE Top(T \ {t})
  <2>1. PICK m \in T \ {t} : \A n \in T \ {t} : n <= m
    BY <1>9
  <2>2. m \in Nat /\ t \in Nat /\ T \subseteq Nat
    BY <1>5
  <2>3. CASE t <= m
    <3>1. \A n \in T : n <= m
      BY <2>1, <2>3
    <3> QED
      BY <1>4, <2>1, <3>1
  <2>4. CASE m <= t
    <3>1. \A n \in T : n <= t
      BY <2>1, <2>2, <2>4
    <3> QED
      BY <1>4, <1>5, <3>1
  <2> QED
    BY <2>2, <2>3, <2>4
<1> QED
  BY <1>7, <1>8, <1>9

\* A set of subsets of a finite set that is not empty has a minimal element.
LEMMA MinimalSubset ==
    ASSUME NEW S, IsFiniteSet(S), NEW B \in SUBSET (SUBSET S), B # {}
    PROVE  \E T \in B : \A x \in T : T \ {x} \notin B
<1> DEFINE Sizes == {c \in Nat : \E T \in B : Cardinality(T) = c}
<1>1. \A T \in B : IsFiniteSet(T) /\ Cardinality(T) \in Nat
  BY FS_Subset, FS_CardinalityType
<1>2. Sizes # {} /\ Sizes \in SUBSET Nat
  BY <1>1
<1>3. PICK c \in Sizes : \A d \in Sizes : c <= d
  <2> HIDE DEF Sizes
  <2> QED
    BY <1>2, LeastNatural
<1>4. PICK T \in B : Cardinality(T) = c
  BY <1>3
<1>5. SUFFICES ASSUME NEW x \in T, T \ {x} \in B PROVE FALSE
  BY <1>4
<1>6. Cardinality(T \ {x}) = c - 1 /\ c \in Nat
  BY <1>1, <1>4, <1>5, FS_RemoveElement
<1>7. c - 1 \in Sizes
  BY <1>1, <1>5, <1>6
<1> QED
  BY <1>3, <1>6, <1>7

-----------------------------------------------------------------------------
(* Sums.  SumOver folds over a set in an order that CHOOSE fixes; the facts *)
(* below do not depend on it.                                               *)

\* The element that the fold takes next.
Chosen(s) == CHOOSE x \in s : TRUE

\* h gives the sums of f over the subsets of S.
Adds(f, S, h) ==
    h = [s \in SUBSET S |-> IF s = {} THEN 0 ELSE f[Chosen(s)] + h[s \ {Chosen(s)}]]

LEMMA ChosenIn ==
    ASSUME NEW s, s # {}
    PROVE  Chosen(s) \in s
  BY DEF Chosen

LEMMA SumIsFold ==
    ASSUME NEW f, NEW S
    PROVE  SumOver(f, S) = (CHOOSE h : Adds(f, S, h))[S]
  BY SMT DEF SumOver, MapThenSumSet, MapThenFoldSet, Adds, Chosen

\* The sums of subsets of up to n elements.
AddsUpTo(f, S, n, h) ==
    h = [s \in {t \in SUBSET S : Cardinality(t) <= n} |->
            IF s = {} THEN 0 ELSE f[Chosen(s)] + h[s \ {Chosen(s)}]]

LEMMA AddsUpToStep ==
    ASSUME NEW f, NEW S, IsFiniteSet(S), NEW n \in Nat, NEW h, AddsUpTo(f, S, n, h)
    PROVE  \E g : AddsUpTo(f, S, n + 1, g)
<1> DEFINE D(k) == {t \in SUBSET S : Cardinality(t) <= k}
           g == [s \in D(n + 1) |-> IF s = {} THEN 0 ELSE f[Chosen(s)] + h[s \ {Chosen(s)}]]
<1>1. \A s \in SUBSET S : IsFiniteSet(s) /\ Cardinality(s) \in Nat
  BY FS_Subset, FS_CardinalityType
<1>2. \A s \in D(n) : s \in D(n + 1)
  BY <1>1
<1>3. \A s \in D(n) : h[s] = IF s = {} THEN 0 ELSE f[Chosen(s)] + h[s \ {Chosen(s)}]
  BY DEF AddsUpTo
<1>4. \A s \in D(n) : g[s] = h[s]
  BY <1>2, <1>3
<1>5. \A s \in D(n + 1) : s # {} => s \ {Chosen(s)} \in D(n)
  <2>1. SUFFICES ASSUME NEW s \in D(n + 1), s # {} PROVE s \ {Chosen(s)} \in D(n)
    OBVIOUS
  <2>2. IsFiniteSet(s) /\ Cardinality(s) \in Nat /\ Cardinality(s) <= n + 1 /\ Chosen(s) \in s
    BY <1>1, <2>1, ChosenIn
  <2>3. Cardinality(s \ {Chosen(s)}) = Cardinality(s) - 1
    BY <2>2, FS_RemoveElement
  <2> QED
    BY <2>2, <2>3
<1>6. g = [s \in D(n + 1) |-> IF s = {} THEN 0 ELSE f[Chosen(s)] + g[s \ {Chosen(s)}]]
  BY <1>4, <1>5
<1>7. AddsUpTo(f, S, n + 1, g)
  BY <1>6 DEF AddsUpTo
<1> QED
  BY <1>7

LEMMA AddsExists ==
    ASSUME NEW f, NEW S, IsFiniteSet(S)
    PROVE  \E h : Adds(f, S, h)
<1> DEFINE Bad == {n \in Nat : ~\E h : AddsUpTo(f, S, n, h)}
<1>1. \A s \in SUBSET S : IsFiniteSet(s) /\ Cardinality(s) \in Nat
  BY FS_Subset, FS_CardinalityType
<1>2. 0 \notin Bad
  <2> DEFINE h == [s \in {t \in SUBSET S : Cardinality(t) <= 0} |-> 0]
  <2>1. \A s \in SUBSET S : Cardinality(s) <= 0 => s = {}
    BY <1>1, FS_EmptySet
  <2>2. h = [s \in {t \in SUBSET S : Cardinality(t) <= 0} |->
               IF s = {} THEN 0 ELSE f[Chosen(s)] + h[s \ {Chosen(s)}]]
    BY <2>1
  <2> HIDE DEF h
  <2>3. AddsUpTo(f, S, 0, h)
    BY <2>2 DEF AddsUpTo
  <2> QED
    BY <2>3
<1>3. Bad = {}
  <2>1. SUFFICES ASSUME Bad # {} PROVE FALSE
    OBVIOUS
  <2>2. PICK n \in Bad : \A m \in Bad : n <= m
    <3>1. Bad \in SUBSET Nat
      OBVIOUS
    <3> HIDE DEF Bad
    <3> QED
      BY <2>1, <3>1, LeastNatural
  <2>3. n \in Nat /\ n # 0
    BY <1>2, <2>2
  <2>4. n - 1 \in Nat /\ n - 1 \notin Bad
    BY <2>2, <2>3
  <2>5. PICK h : AddsUpTo(f, S, n - 1, h)
    BY <2>4
  <2>6. \E g : AddsUpTo(f, S, (n - 1) + 1, g)
    BY <2>4, <2>5, AddsUpToStep
  <2>7. (n - 1) + 1 = n
    BY <2>3
  <2> QED
    BY <2>2, <2>6, <2>7
<1>4. Cardinality(S) \in Nat
  BY FS_CardinalityType
<1>5. PICK h : AddsUpTo(f, S, Cardinality(S), h)
  BY <1>3, <1>4
<1>6. {t \in SUBSET S : Cardinality(t) <= Cardinality(S)} = SUBSET S
  BY FS_Subset
<1>7. Adds(f, S, h)
  BY <1>5, <1>6 DEF AddsUpTo, Adds
<1> QED
  BY <1>7

\* The fold of an empty set, and of one from which the fold takes an element.
LEMMA SumStep ==
    ASSUME NEW f, NEW S, IsFiniteSet(S)
    PROVE  \E h : /\ Adds(f, S, h)
                  /\ SumOver(f, S) = h[S]
<1> DEFINE h == CHOOSE g : Adds(f, S, g)
<1>1. Adds(f, S, h)
  BY AddsExists, Zenon
<1>2. SumOver(f, S) = h[S]
  BY SumIsFold
<1> QED
  BY <1>1, <1>2

\* The functions of the fold agree wherever the summands do.
LEMMA AddsAgree ==
    ASSUME NEW f, NEW g, NEW S, IsFiniteSet(S), NEW T, T \subseteq S,
           \A x \in T : f[x] = g[x],
           NEW h, Adds(f, S, h), NEW k, Adds(g, T, k)
    PROVE  h[T] = k[T]
<1> DEFINE Bad == {s \in SUBSET T : h[s] # k[s]}
<1>0. /\ \A s \in SUBSET S : h[s] = IF s = {} THEN 0 ELSE f[Chosen(s)] + h[s \ {Chosen(s)}]
      /\ \A s \in SUBSET T : k[s] = IF s = {} THEN 0 ELSE g[Chosen(s)] + k[s \ {Chosen(s)}]
  BY DEF Adds
<1>1. IsFiniteSet(T)
  BY FS_Subset
<1>2. Bad = {}
  <2>1. SUFFICES ASSUME Bad # {} PROVE FALSE
    OBVIOUS
  <2>2. PICK s \in Bad : \A x \in s : s \ {x} \notin Bad
    <3>1. Bad \in SUBSET (SUBSET T)
      OBVIOUS
    <3> HIDE DEF Bad
    <3> QED
      BY <1>1, <2>1, <3>1, MinimalSubset
  <2>3. s \in SUBSET S /\ s \in SUBSET T
    BY <2>2
  <2>4. CASE s = {}
    BY <1>0, <2>2, <2>3, <2>4
  <2>5. CASE s # {}
    <3>1. Chosen(s) \in s
      BY <2>5, ChosenIn
    <3>2. h[s \ {Chosen(s)}] = k[s \ {Chosen(s)}]
      BY <2>2, <2>3, <3>1
    <3>3. f[Chosen(s)] = g[Chosen(s)]
      BY <2>3, <3>1
    <3>4. h[s] = f[Chosen(s)] + h[s \ {Chosen(s)}] /\ k[s] = g[Chosen(s)] + k[s \ {Chosen(s)}]
      BY <1>0, <2>3, <2>5
    <3> QED
      BY <2>2, <3>2, <3>3, <3>4
  <2> QED
    BY <2>4, <2>5
<1> QED
  BY <1>2

\* A sum depends only on the values on its set.
LEMMA SumEqual ==
    ASSUME NEW f, NEW g, NEW S, IsFiniteSet(S), \A x \in S : f[x] = g[x]
    PROVE  SumOver(f, S) = SumOver(g, S)
<1>1. PICK h : Adds(f, S, h) /\ SumOver(f, S) = h[S]
  BY SumStep
<1>2. PICK k : Adds(g, S, k) /\ SumOver(g, S) = k[S]
  BY SumStep
<1>3. h[S] = k[S]
  BY <1>1, <1>2, AddsAgree
<1> QED
  BY <1>1, <1>2, <1>3

LEMMA SumEmpty ==
    ASSUME NEW f
    PROVE  SumOver(f, {}) = 0
<1>1. IsFiniteSet({})
  BY FS_EmptySet
<1>2. PICK h : Adds(f, {}, h) /\ SumOver(f, {}) = h[{}]
  BY <1>1, SumStep
<1> QED
  BY <1>2 DEF Adds

\* The function of a fold over a set gives the sums over its subsets.
LEMMA SumsWithin ==
    ASSUME NEW f, NEW S, IsFiniteSet(S), NEW h, Adds(f, S, h), NEW T, T \subseteq S
    PROVE  SumOver(f, T) = h[T]
<1>1. IsFiniteSet(T)
  BY FS_Subset
<1>2. PICK k : Adds(f, T, k) /\ SumOver(f, T) = k[T]
  BY <1>1, SumStep
<1>3. ASSUME NEW g, \A x \in T : f[x] = g[x], Adds(g, T, k)
      PROVE  h[T] = k[T]
  BY <1>3, AddsAgree
<1>4. h[T] = k[T]
  BY <1>2, <1>3
<1> QED
  BY <1>2, <1>4

\* The fold takes one element, and the rest is a sum again.
LEMMA SumOfChosen ==
    ASSUME NEW f, NEW S, IsFiniteSet(S), S # {}
    PROVE  SumOver(f, S) = f[Chosen(S)] + SumOver(f, S \ {Chosen(S)})
<1>1. PICK h : Adds(f, S, h) /\ SumOver(f, S) = h[S]
  BY SumStep
<1>2. h[S] = f[Chosen(S)] + h[S \ {Chosen(S)}]
  BY <1>1 DEF Adds
<1>3. SumOver(f, S \ {Chosen(S)}) = h[S \ {Chosen(S)}]
  BY <1>1, SumsWithin
<1> QED
  BY <1>1, <1>2, <1>3

\* A sum of integers is an integer, and of naturals a natural.
LEMMA SumType ==
    ASSUME NEW f, NEW S, IsFiniteSet(S)
    PROVE  /\ (\A x \in S : f[x] \in Int) => SumOver(f, S) \in Int
           /\ (\A x \in S : f[x] \in Nat) => SumOver(f, S) \in Nat
<1>1. ASSUME NEW N, N = Int \/ N = Nat, \A x \in S : f[x] \in N
      PROVE  SumOver(f, S) \in N
  <2> DEFINE Bad == {T \in SUBSET S : SumOver(f, T) \notin N}
  <2>1. SUFFICES ASSUME Bad # {} PROVE FALSE
    OBVIOUS
  <2>2. PICK T \in Bad : \A x \in T : T \ {x} \notin Bad
    <3>1. Bad \in SUBSET (SUBSET S)
      OBVIOUS
    <3> HIDE DEF Bad
    <3> QED
      BY <2>1, <3>1, MinimalSubset
  <2>3. T \in SUBSET S /\ IsFiniteSet(T) /\ SumOver(f, T) \notin N
    BY <2>2, FS_Subset
  <2>4. T # {}
    BY <1>1, <2>3, SumEmpty
  <2>5. Chosen(T) \in T /\ SumOver(f, T) = f[Chosen(T)] + SumOver(f, T \ {Chosen(T)})
    BY <2>3, <2>4, ChosenIn, SumOfChosen
  <2>6. SumOver(f, T \ {Chosen(T)}) \in N /\ f[Chosen(T)] \in N
    BY <1>1, <2>2, <2>3, <2>5
  <2> QED
    BY <1>1, <2>3, <2>5, <2>6
<1> QED
  BY <1>1

\* Any element can be taken out of a sum.
LEMMA SumTakeOut ==
    ASSUME NEW f, NEW S, IsFiniteSet(S), \A x \in S : f[x] \in Int, NEW a \in S
    PROVE  SumOver(f, S) = f[a] + SumOver(f, S \ {a})
<1> DEFINE Bad == {T \in SUBSET S :
                     \E e \in T : SumOver(f, T) # f[e] + SumOver(f, T \ {e})}
<1>1. SUFFICES ASSUME Bad # {} PROVE FALSE
  OBVIOUS
<1>2. PICK T \in Bad : \A x \in T : T \ {x} \notin Bad
  <2>1. Bad \in SUBSET (SUBSET S)
    OBVIOUS
  <2> HIDE DEF Bad
  <2> QED
    BY <1>1, <2>1, MinimalSubset
<1>3. PICK e \in T : SumOver(f, T) # f[e] + SumOver(f, T \ {e})
  BY <1>2
<1>4. T \in SUBSET S /\ IsFiniteSet(T)
  BY <1>2, FS_Subset
<1>5. PICK c \in T : c = Chosen(T)
  BY <1>3, ChosenIn
<1>6. SumOver(f, T) = f[c] + SumOver(f, T \ {c})
  BY <1>4, <1>5, SumOfChosen
<1>7. c # e
  BY <1>3, <1>6
<1>8. SumOver(f, T \ {c}) = f[e] + SumOver(f, (T \ {c}) \ {e})
  <2>1. T \ {c} \notin Bad /\ T \ {c} \in SUBSET S /\ e \in T \ {c}
    BY <1>2, <1>4, <1>7
  <2> QED
    BY <2>1
<1>9. SumOver(f, T \ {e}) = f[c] + SumOver(f, (T \ {e}) \ {c})
  <2>1. T \ {e} \notin Bad /\ T \ {e} \in SUBSET S /\ c \in T \ {e}
    BY <1>2, <1>4, <1>7
  <2> QED
    BY <2>1
<1>10. SumOver(f, (T \ {c}) \ {e}) = SumOver(f, (T \ {e}) \ {c})
  <2>1. (T \ {c}) \ {e} = (T \ {e}) \ {c}
    OBVIOUS
  <2> QED
    BY <2>1, Zenon
<1>11. SumOver(f, (T \ {e}) \ {c}) \in Int /\ f[c] \in Int /\ f[e] \in Int
  <2>1. IsFiniteSet((T \ {e}) \ {c}) /\ \A x \in (T \ {e}) \ {c} : f[x] \in Int
    BY <1>4, FS_Subset
  <2> QED
    BY <1>4, <2>1, SumType
<1>12. SumOver(f, T) = f[e] + SumOver(f, T \ {e})
  BY <1>6, <1>8, <1>9, <1>10, <1>11
<1> QED
  BY <1>3, <1>12

\* A new element is added to a sum.
LEMMA SumAdd ==
    ASSUME NEW f, NEW S, IsFiniteSet(S), NEW a, a \notin S, \A x \in S \cup {a} : f[x] \in Int
    PROVE  SumOver(f, S \cup {a}) = SumOver(f, S) + f[a]
<1>1. IsFiniteSet(S \cup {a}) /\ a \in S \cup {a} /\ (S \cup {a}) \ {a} = S
  BY FS_AddElement
<1>2. SumOver(f, S \cup {a}) = f[a] + SumOver(f, S)
  BY <1>1, SumTakeOut
<1>3. SumOver(f, S) \in Int /\ f[a] \in Int
  BY SumType
<1> QED
  BY <1>2, <1>3

\* Two functions that differ at one element have sums that differ by as much.
LEMMA SumChange ==
    ASSUME NEW f, NEW g, NEW S, IsFiniteSet(S), NEW a \in S,
           \A x \in S : f[x] \in Int /\ g[x] \in Int,
           \A x \in S \ {a} : f[x] = g[x]
    PROVE  SumOver(g, S) = SumOver(f, S) + (g[a] - f[a])
<1>1. SumOver(f, S) = f[a] + SumOver(f, S \ {a}) /\ SumOver(g, S) = g[a] + SumOver(g, S \ {a})
  BY SumTakeOut
<1>2. IsFiniteSet(S \ {a})
  BY FS_Subset
<1>3. SumOver(f, S \ {a}) = SumOver(g, S \ {a})
  BY <1>2, SumEqual
<1>4. SumOver(f, S \ {a}) \in Int /\ f[a] \in Int /\ g[a] \in Int
  BY <1>2, SumType
<1> QED
  BY <1>1, <1>3, <1>4

\* A sum of zeros is zero.
LEMMA SumZero ==
    ASSUME NEW f, NEW S, IsFiniteSet(S), \A x \in S : f[x] = 0
    PROVE  SumOver(f, S) = 0
<1> DEFINE Bad == {T \in SUBSET S : SumOver(f, T) # 0}
<1>1. SUFFICES ASSUME Bad # {} PROVE FALSE
  OBVIOUS
<1>2. PICK T \in Bad : \A x \in T : T \ {x} \notin Bad
  <2>1. Bad \in SUBSET (SUBSET S)
    OBVIOUS
  <2> HIDE DEF Bad
  <2> QED
    BY <1>1, <2>1, MinimalSubset
<1>3. T \in SUBSET S /\ IsFiniteSet(T) /\ SumOver(f, T) # 0
  BY <1>2, FS_Subset
<1>4. T # {}
  BY <1>3, SumEmpty
<1>5. PICK c \in T : c = Chosen(T)
  BY <1>4, ChosenIn
<1>6. SumOver(f, T) = f[c] + SumOver(f, T \ {c})
  BY <1>3, <1>4, <1>5, SumOfChosen
<1>7. SumOver(f, T \ {c}) = 0
  BY <1>2, <1>3
<1> QED
  BY <1>3, <1>6, <1>7

\* A sum of naturals over a part is at most the sum over the whole.
LEMMA SumPart ==
    ASSUME NEW f, NEW S, IsFiniteSet(S), \A x \in S : f[x] \in Nat, NEW P \in SUBSET S
    PROVE  SumOver(f, P) <= SumOver(f, S)
<1> DEFINE Bad == {T \in SUBSET S : ~(SumOver(f, T \cap P) <= SumOver(f, T))}
<1>1. ASSUME Bad # {} PROVE FALSE
  <2>1. PICK T \in Bad : \A x \in T : T \ {x} \notin Bad
    <3>1. Bad \in SUBSET (SUBSET S)
      OBVIOUS
    <3> HIDE DEF Bad
    <3> QED
      BY <1>1, <3>1, MinimalSubset
  <2>2. /\ T \in SUBSET S /\ IsFiniteSet(T) /\ IsFiniteSet(T \cap P)
        /\ \A x \in T : f[x] \in Nat /\ f[x] \in Int
        /\ ~(SumOver(f, T \cap P) <= SumOver(f, T))
    BY <2>1, FS_Subset
  <2>3. SumOver(f, T \cap P) \in Nat /\ SumOver(f, T) \in Nat
    BY <2>2, SumType
  <2>4. CASE T = {}
    <3>1. T \cap P = T
      BY <2>4
    <3>2. SumOver(f, T \cap P) = SumOver(f, T)
      BY <3>1, Zenon
    <3> QED
      BY <2>2, <2>3, <3>2
  <2>5. CASE T # {}
    <3>1. PICK c \in T : TRUE
      BY <2>5
    <3>2. SumOver(f, T) = f[c] + SumOver(f, T \ {c})
      BY <2>2, SumTakeOut
    <3>3. SumOver(f, (T \ {c}) \cap P) <= SumOver(f, T \ {c})
      BY <2>1, <2>2, <3>1
    <3>4. /\ IsFiniteSet(T \ {c}) /\ IsFiniteSet((T \ {c}) \cap P)
          /\ f[c] \in Nat
      BY <2>2, FS_Subset
    <3>5. SumOver(f, T \ {c}) \in Nat /\ SumOver(f, (T \ {c}) \cap P) \in Nat
      BY <2>2, <3>4, SumType
    <3>6. CASE c \in P
      <4>1. c \in T \cap P /\ (T \cap P) \ {c} = (T \ {c}) \cap P
        BY <3>6
      <4>2. \A x \in T \cap P : f[x] \in Int
        BY <2>2
      <4>3. SumOver(f, T \cap P) = f[c] + SumOver(f, (T \ {c}) \cap P)
        BY <2>2, <4>1, <4>2, SumTakeOut
      <4> QED
        BY <2>2, <3>2, <3>3, <3>4, <3>5, <4>3
    <3>7. CASE c \notin P
      <4>1. T \cap P = (T \ {c}) \cap P
        BY <3>7
      <4>2. SumOver(f, T \cap P) = SumOver(f, (T \ {c}) \cap P)
        BY <4>1, Zenon
      <4> QED
        BY <2>2, <3>2, <3>3, <3>4, <3>5, <4>2
    <3> QED
      BY <3>6, <3>7
  <2> QED
    BY <2>4, <2>5
<1>2. S \in SUBSET S /\ S \cap P = P
  OBVIOUS
<1> QED
  BY <1>1, <1>2

\* One natural of a sum is at most the sum.
LEMMA SumMember ==
    ASSUME NEW f, NEW S, IsFiniteSet(S), \A x \in S : f[x] \in Nat, NEW a \in S
    PROVE  f[a] <= SumOver(f, S)
<1>1. SumOver(f, S) = f[a] + SumOver(f, S \ {a})
  BY SumTakeOut
<1>2. IsFiniteSet(S \ {a})
  BY FS_Subset
<1>3. SumOver(f, S \ {a}) \in Nat /\ f[a] \in Nat
  BY <1>2, SumType
<1> QED
  BY <1>1, <1>3

\* Sums of smaller numbers are smaller.
LEMMA SumMonotone ==
    ASSUME NEW f, NEW g, NEW S, IsFiniteSet(S),
           \A x \in S : f[x] \in Int /\ g[x] \in Int /\ f[x] <= g[x]
    PROVE  SumOver(f, S) <= SumOver(g, S)
<1> DEFINE Bad == {T \in SUBSET S : ~(SumOver(f, T) <= SumOver(g, T))}
<1>1. ASSUME Bad # {} PROVE FALSE
  <2>1. PICK T \in Bad : \A x \in T : T \ {x} \notin Bad
    <3>1. Bad \in SUBSET (SUBSET S)
      OBVIOUS
    <3> HIDE DEF Bad
    <3> QED
      BY <1>1, <3>1, MinimalSubset
  <2>2. /\ T \in SUBSET S /\ IsFiniteSet(T) /\ ~(SumOver(f, T) <= SumOver(g, T))
        /\ \A x \in T : f[x] \in Int /\ g[x] \in Int /\ f[x] <= g[x]
    BY <2>1, FS_Subset
  <2>3. T # {}
    BY <2>2, SumEmpty
  <2>4. PICK c \in T : TRUE
    BY <2>3
  <2>5. SumOver(f, T) = f[c] + SumOver(f, T \ {c}) /\ SumOver(g, T) = g[c] + SumOver(g, T \ {c})
    BY <2>2, SumTakeOut
  <2>6. SumOver(f, T \ {c}) <= SumOver(g, T \ {c})
    BY <2>1, <2>2, <2>4
  <2>7. IsFiniteSet(T \ {c}) /\ \A x \in T \ {c} : f[x] \in Int /\ g[x] \in Int
    BY <2>2, FS_Subset
  <2>8. SumOver(f, T \ {c}) \in Int /\ SumOver(g, T \ {c}) \in Int
    BY <2>7, SumType
  <2>9. \A a, b, m, n \in Int : a <= b /\ m <= n => a + m <= b + n
    OBVIOUS
  <2>10. f[c] + SumOver(f, T \ {c}) <= g[c] + SumOver(g, T \ {c})
    BY <2>2, <2>6, <2>8, <2>9
  <2> QED
    BY <2>2, <2>5, <2>10
<1>2. S \in SUBSET S
  OBVIOUS
<1> QED
  BY <1>1, <1>2

\* The sum of sums.
LEMMA SumPlus ==
    ASSUME NEW f, NEW g, NEW h, NEW S, IsFiniteSet(S),
           \A x \in S : f[x] \in Int /\ g[x] \in Int /\ h[x] = f[x] + g[x]
    PROVE  SumOver(h, S) = SumOver(f, S) + SumOver(g, S)
<1> DEFINE Bad == {T \in SUBSET S : SumOver(h, T) # SumOver(f, T) + SumOver(g, T)}
<1>1. ASSUME Bad # {} PROVE FALSE
  <2>1. PICK T \in Bad : \A x \in T : T \ {x} \notin Bad
    <3>1. Bad \in SUBSET (SUBSET S)
      OBVIOUS
    <3> HIDE DEF Bad
    <3> QED
      BY <1>1, <3>1, MinimalSubset
  <2>2. /\ T \in SUBSET S /\ IsFiniteSet(T) /\ SumOver(h, T) # SumOver(f, T) + SumOver(g, T)
        /\ \A x \in T : f[x] \in Int /\ g[x] \in Int /\ h[x] \in Int
    BY <2>1, FS_Subset
  <2>3. PICK c \in T : TRUE
    BY <2>2, SumEmpty
  <2>4. /\ SumOver(f, T) = f[c] + SumOver(f, T \ {c})
        /\ SumOver(g, T) = g[c] + SumOver(g, T \ {c})
        /\ SumOver(h, T) = h[c] + SumOver(h, T \ {c})
    BY <2>2, SumTakeOut
  <2>5. SumOver(h, T \ {c}) = SumOver(f, T \ {c}) + SumOver(g, T \ {c})
    BY <2>1, <2>2, <2>3
  <2>6. IsFiniteSet(T \ {c}) /\ \A x \in T \ {c} : f[x] \in Int /\ g[x] \in Int
    BY <2>2, FS_Subset
  <2>7. SumOver(f, T \ {c}) \in Int /\ SumOver(g, T \ {c}) \in Int
    BY <2>6, SumType
  <2>8. h[c] = f[c] + g[c] /\ f[c] \in Int /\ g[c] \in Int
    BY <2>2, <2>3
  <2>9. \A a, b, m, n \in Int : (a + b) + (m + n) = (a + m) + (b + n)
    OBVIOUS
  <2>10. SumOver(h, T) = SumOver(f, T) + SumOver(g, T)
    BY <2>4, <2>5, <2>7, <2>8, <2>9
  <2> QED
    BY <2>2, <2>10
<1>2. S \in SUBSET S
  OBVIOUS
<1> QED
  BY <1>1, <1>2

\* What is zero may be left out of a sum.
LEMMA SumOutside ==
    ASSUME NEW g, NEW W, IsFiniteSet(W), \A y \in W : g[y] \in Int, NEW P \in SUBSET W,
           \A y \in W \ P : g[y] = 0
    PROVE  SumOver(g, W) = SumOver(g, P)
<1> DEFINE Bad == {Q \in SUBSET (W \ P) : SumOver(g, P \cup Q) # SumOver(g, P)}
<1>0. IsFiniteSet(P) /\ IsFiniteSet(W \ P)
  BY FS_Subset, FS_Difference
<1>1. ASSUME Bad # {} PROVE FALSE
  <2>1. PICK Q \in Bad : \A x \in Q : Q \ {x} \notin Bad
    <3>1. Bad \in SUBSET (SUBSET (W \ P))
      OBVIOUS
    <3> HIDE DEF Bad
    <3> QED
      BY <1>0, <1>1, <3>1, MinimalSubset
  <2>2. Q \in SUBSET (W \ P) /\ SumOver(g, P \cup Q) # SumOver(g, P)
    BY <2>1
  <2>3. Q # {}
    <3>1. ASSUME Q = {} PROVE FALSE
      <4>1. P \cup Q = P
        BY <3>1
      <4> QED
        BY <2>2, <4>1, Zenon
    <3> QED
      BY <3>1
  <2>4. PICK c \in Q : TRUE
    BY <2>3
  <2>5. PICK V : V = P \cup Q
    OBVIOUS
  <2>6. V \in SUBSET W
    BY <2>2, <2>5
  <2>7. IsFiniteSet(V)
    BY <2>6, FS_Subset
  <2>8. c \in V /\ g[c] = 0 /\ \A x \in V : g[x] \in Int
    BY <2>2, <2>5, <2>6
  <2>9. SumOver(g, V) = g[c] + SumOver(g, V \ {c})
    BY <2>7, <2>8, SumTakeOut
  <2>10. V \ {c} = P \cup (Q \ {c})
    BY <2>2, <2>5
  <2>11. SumOver(g, P \cup (Q \ {c})) = SumOver(g, P)
    BY <2>1, <2>2
  <2>12. SumOver(g, V \ {c}) = SumOver(g, P)
    BY <2>10, <2>11, Zenon
  <2>13. SumOver(g, P) \in Int
    BY <1>0, SumType
  <2>14. SumOver(g, V) = SumOver(g, P)
    BY <2>8, <2>9, <2>12, <2>13
  <2> QED
    BY <2>2, <2>5, <2>14, Zenon
<1>2. W \ P \in SUBSET (W \ P) /\ P \cup (W \ P) = W
  OBVIOUS
<1>3. SumOver(g, P \cup (W \ P)) = SumOver(g, P)
  BY <1>1, <1>2
<1> QED
  BY <1>2, <1>3, Zenon

\* A sum may go over other names of the same things.
LEMMA SumRenamed ==
    ASSUME NEW f, NEW S, IsFiniteSet(S), \A x \in S : f[x] \in Int,
           NEW g, NEW W, IsFiniteSet(W), \A y \in W : g[y] \in Int,
           NEW b, \A x \in S : b[x] \in W /\ g[b[x]] = f[x],
           \A x, y \in S : b[x] = b[y] => x = y,
           \A y \in W : (\A x \in S : b[x] # y) => g[y] = 0
    PROVE  SumOver(f, S) = SumOver(g, W)
<1> DEFINE Img(T) == {b[x] : x \in T}
           Bad == {T \in SUBSET S : SumOver(f, T) # SumOver(g, Img(T))}
<1>1. ASSUME Bad # {} PROVE FALSE
  <2>1. PICK T \in Bad : \A x \in T : T \ {x} \notin Bad
    <3>1. Bad \in SUBSET (SUBSET S)
      OBVIOUS
    <3> HIDE DEF Bad
    <3> QED
      BY <1>1, <3>1, MinimalSubset
  <2>2. T \in SUBSET S /\ IsFiniteSet(T) /\ SumOver(f, T) # SumOver(g, Img(T))
    BY <2>1, FS_Subset
  <2>3. T # {}
    <3>1. ASSUME T = {} PROVE FALSE
      <4>1. Img(T) = {}
        BY <3>1
      <4>2. SumOver(g, Img(T)) = SumOver(g, {}) /\ SumOver(f, T) = SumOver(f, {})
        BY <3>1, <4>1, Zenon
      <4> QED
        BY <2>2, <4>2, SumEmpty
    <3> QED
      BY <3>1
  <2>4. PICK c \in T : TRUE
    BY <2>3
  <2>5. SumOver(f, T) = f[c] + SumOver(f, T \ {c})
    BY <2>2, SumTakeOut
  <2>6. SumOver(f, T \ {c}) = SumOver(g, Img(T \ {c}))
    BY <2>1, <2>2, <2>4
  <2>7. PICK V : V = Img(T)
    OBVIOUS
  <2>8. V \in SUBSET W
    BY <2>2, <2>7
  <2>9. IsFiniteSet(V)
    BY <2>8, FS_Subset
  <2>10. PICK d : d = b[c]
    OBVIOUS
  <2>11. d \in V /\ g[d] = f[c] /\ \A y \in V : g[y] \in Int
    BY <2>2, <2>4, <2>7, <2>8, <2>10
  <2>12. SumOver(g, V) = g[d] + SumOver(g, V \ {d})
    BY <2>9, <2>11, SumTakeOut
  <2>13. V \ {d} = Img(T \ {c})
    <3>1. \A x \in T : b[x] = d <=> x = c
      BY <2>2, <2>4, <2>10
    <3> QED
      BY <2>7, <3>1
  <2>14. SumOver(g, V \ {d}) = SumOver(f, T \ {c})
    BY <2>6, <2>13, Zenon
  <2>15. SumOver(g, V) = SumOver(f, T)
    BY <2>5, <2>11, <2>12, <2>14
  <2> HIDE DEF Img, Bad
  <2> QED
    BY <2>2, <2>7, <2>15, Zenon
<1>2. SumOver(f, S) = SumOver(g, Img(S))
  BY <1>1
<1>3. PICK P : P = Img(S)
  OBVIOUS
<1>4. P \in SUBSET W /\ \A y \in W \ P : g[y] = 0
  BY <1>3
<1>5. SumOver(g, W) = SumOver(g, P)
  BY <1>4, SumOutside
<1> HIDE DEF Img, Bad
<1> QED
  BY <1>2, <1>3, <1>5, Zenon
=============================================================================
