----------------------- MODULE CheckSliceRemoverProofs -----------------------
(* Proofs about CheckSliceRemover, for every set of functions, every choice *)
(* of marked checks and every order in which they are removed.              *)
EXTENDS CheckSliceRemover, FiniteSetTheorems, SequenceTheorems, FiniteFacts, TLAPS

\* Unlinking an instruction: what comes behind it moves up.
LEMMA RemoveFirstFacts ==
    ASSUME NEW T, NEW s \in Seq(T), NEW e, NEW r, r = RemoveFirst(s, e)
    PROVE  /\ r \in Seq(T)
           /\ e \notin ToSet(s) => r = s
           /\ e \in ToSet(s) =>
                 \E k \in 1..Len(s) :
                    /\ s[k] = e /\ Len(r) = Len(s) - 1
                    /\ \A m \in 1..Len(r) : r[m] = IF m < k THEN s[m] ELSE s[m + 1]
<1>1. Len(s) \in Nat /\ DOMAIN s = 1..Len(s) /\ s \in [1..Len(s) -> T]
  BY LenProperties
<1>2. CASE e \notin ToSet(s)
  <2>1. ~\E i \in 1..Len(s) : s[i] = e
    BY <1>1, <1>2 DEF ToSet
  <2>2. r = s
    BY <2>1 DEF RemoveFirst
  <2> QED
    BY <1>2, <2>2
<1>3. CASE e \in ToSet(s)
  <2> DEFINE I == {i \in 1..Len(s) : s[i] = e}
  <2>1. I # {} /\ I \in SUBSET Nat /\ \E i \in 1..Len(s) : s[i] = e
    BY <1>1, <1>3 DEF ToSet
  <2>2. SelectInSeq(s, LAMBDA v : v = e) = CHOOSE x \in I : \A y \in I : x <= y
    BY <2>1 DEF SelectInSeq, Min
  <2>3. \E x \in I : \A y \in I : x <= y
    <3> HIDE DEF I
    <3> QED
      BY <2>1, LeastNatural
  <2>4. PICK k : k = SelectInSeq(s, LAMBDA v : v = e)
    OBVIOUS
  <2>5. k \in I
    <3> HIDE DEF I
    <3> QED
      BY <2>2, <2>3, <2>4
  <2>6. k \in 1..Len(s) /\ s[k] = e
    BY <2>5
  <2>7. r = RemoveAt(s, k)
    BY <2>1, <2>4 DEF RemoveFirst
  <2>8. PICK a, b : a = SubSeq(s, 1, k - 1) /\ b = SubSeq(s, k + 1, Len(s))
    OBVIOUS
  <2>9. /\ a \in Seq(T) /\ Len(a) = k - 1
        /\ \A i \in 1..(k - 1) : a[i] = s[i]
    <3>1. 1 \in Int /\ k - 1 \in Int /\ \A i \in 1..(k - 1) : s[i] \in T
      BY <1>1, <2>6
    <3>2. /\ SubSeq(s, 1, k - 1) \in Seq(T)
          /\ Len(SubSeq(s, 1, k - 1)) = IF 1 <= k - 1 THEN (k - 1) - 1 + 1 ELSE 0
          /\ \A i \in 1..((k - 1) - 1 + 1) : SubSeq(s, 1, k - 1)[i] = s[1 + i - 1]
      BY <3>1, SubSeqProperties
    <3>3. (IF 1 <= k - 1 THEN (k - 1) - 1 + 1 ELSE 0) = k - 1 /\ (k - 1) - 1 + 1 = k - 1
      BY <2>6
    <3>4. \A i \in 1..(k - 1) : 1 + i - 1 = i
      OBVIOUS
    <3> QED
      BY <2>8, <3>2, <3>3, <3>4
  <2>10. /\ b \in Seq(T) /\ Len(b) = Len(s) - k
         /\ \A i \in 1..(Len(s) - k) : b[i] = s[k + i]
    <3>1. k + 1 \in Int /\ Len(s) \in Int /\ \A i \in (k + 1)..Len(s) : s[i] \in T
      BY <1>1, <2>6
    <3>2. /\ SubSeq(s, k + 1, Len(s)) \in Seq(T)
          /\ Len(SubSeq(s, k + 1, Len(s))) = IF k + 1 <= Len(s) THEN Len(s) - (k + 1) + 1 ELSE 0
          /\ \A i \in 1..(Len(s) - (k + 1) + 1) : SubSeq(s, k + 1, Len(s))[i] = s[(k + 1) + i - 1]
      BY <3>1, SubSeqProperties
    <3>3. /\ (IF k + 1 <= Len(s) THEN Len(s) - (k + 1) + 1 ELSE 0) = Len(s) - k
          /\ Len(s) - (k + 1) + 1 = Len(s) - k
      <4>1. \A n, j \in Int : j <= n => n - (j + 1) + 1 = n - j /\ (~(j + 1 <= n) => n - j = 0)
        OBVIOUS
      <4>2. Len(s) \in Int /\ k \in Int /\ k <= Len(s)
        BY <1>1, <2>6
      <4> QED
        BY <4>1, <4>2
    <3>4. \A i \in 1..(Len(s) - k) : (k + 1) + i - 1 = k + i
      BY <2>6
    <3> QED
      BY <2>8, <3>2, <3>3, <3>4
  <2>11. /\ r \in Seq(T) /\ Len(r) = Len(a) + Len(b)
         /\ \A i \in 1..(Len(a) + Len(b)) : r[i] = IF i <= Len(a) THEN a[i] ELSE b[i - Len(a)]
    <3>1. r = a \o b
      BY <2>7, <2>8 DEF RemoveAt
    <3>2. a \in Seq(T) /\ b \in Seq(T)
      BY <2>9, <2>10
    <3> QED
      BY <3>1, <3>2, ConcatProperties
  <2>12. Len(r) = Len(s) - 1
    BY <1>1, <2>6, <2>9, <2>10, <2>11
  <2>13. ASSUME NEW m \in 1..Len(r) PROVE r[m] = IF m < k THEN s[m] ELSE s[m + 1]
    <3>1. CASE m < k
      <4>1. m \in 1..(k - 1) /\ m <= Len(a)
        BY <2>6, <2>9, <2>13, <3>1
      <4> QED
        BY <2>9, <2>11, <2>13, <3>1, <4>1
    <3>2. CASE ~(m < k)
      <4>1. ~(m <= Len(a)) /\ m - Len(a) \in 1..(Len(s) - k) /\ k + (m - Len(a)) = m + 1
        BY <1>1, <2>6, <2>9, <2>12, <2>13, <3>2
      <4>2. r[m] = b[m - Len(a)]
        BY <2>11, <2>13, <4>1
      <4> QED
        BY <2>10, <3>2, <4>1, <4>2
    <3> QED
      BY <3>1, <3>2
  <2> QED
    BY <1>3, <2>6, <2>11, <2>12, <2>13
<1> QED
  BY <1>2, <1>3

-----------------------------------------------------------------------------
(* Where the instructions are.                                              *)

\* Every instruction is in one place.
PlacedIn(S, B) ==
    \A b, c \in S : \A m \in DOMAIN B[b], n \in DOMAIN B[c] : B[b][m] = B[c][n] => b = c /\ m = n

OneEach(s) == \A m, n \in DOMAIN s : s[m] = s[n] => m = n

\* r is s without some of its places.
Embeds(r, s) ==
    \E f \in [DOMAIN r -> DOMAIN s] :
        /\ \A m \in DOMAIN r : r[m] = s[f[m]]
        /\ \A m, n \in DOMAIN r : f[m] = f[n] => m = n

LEMMA WithoutOne ==
    ASSUME NEW s \in Seq(Insts), NEW i, NEW r, r = RemoveFirst(s, i)
    PROVE  /\ r \in Seq(Insts)
           /\ ToSet(r) \subseteq ToSet(s) /\ ToSet(s) \ {i} \subseteq ToSet(r)
           /\ Embeds(r, s)
           /\ OneEach(s) => i \notin ToSet(r)
<1>1. /\ r \in Seq(Insts)
      /\ i \notin ToSet(s) => r = s
      /\ i \in ToSet(s) =>
            \E k \in 1..Len(s) :
               /\ s[k] = i /\ Len(r) = Len(s) - 1
               /\ \A m \in 1..Len(r) : r[m] = IF m < k THEN s[m] ELSE s[m + 1]
  BY RemoveFirstFacts
<1>2. Len(s) \in Nat /\ DOMAIN s = 1..Len(s) /\ Len(r) \in Nat /\ DOMAIN r = 1..Len(r)
  BY <1>1, LenProperties
<1>3. CASE i \notin ToSet(s)
  <2>1. r = s
    BY <1>1, <1>3
  <2>2. PICK f : f = [m \in DOMAIN s |-> m]
    OBVIOUS
  <2>3. f \in [DOMAIN r -> DOMAIN s] /\ \A m \in DOMAIN r : f[m] = m
    BY <2>1, <2>2
  <2>4. Embeds(r, s)
    BY <2>1, <2>3 DEF Embeds
  <2> QED
    BY <1>1, <1>3, <2>1, <2>4
<1>4. CASE i \in ToSet(s)
  <2>1. PICK k \in 1..Len(s) :
           /\ s[k] = i /\ Len(r) = Len(s) - 1
           /\ \A m \in 1..Len(r) : r[m] = IF m < k THEN s[m] ELSE s[m + 1]
    BY <1>1, <1>4
  <2>2. PICK f : f = [m \in DOMAIN r |-> IF m < k THEN m ELSE m + 1]
    OBVIOUS
  <2>3. ASSUME NEW m \in DOMAIN r
        PROVE  /\ f[m] \in DOMAIN s /\ f[m] # k /\ r[m] = s[f[m]]
               /\ f[m] = IF m < k THEN m ELSE m + 1
    <3>1. f[m] = IF m < k THEN m ELSE m + 1
      BY <2>2
    <3>2. m \in 1..Len(r) /\ m \in Int /\ k \in Int /\ m >= 1 /\ m <= Len(s) - 1
      BY <1>2, <2>1
    <3>3. f[m] \in 1..Len(s) /\ f[m] # k
      BY <1>2, <3>1, <3>2
    <3> QED
      BY <1>2, <2>1, <3>1, <3>2, <3>3
  <2>4. \A m, n \in DOMAIN r : f[m] = f[n] => m = n
    <3> TAKE m, n \in DOMAIN r
    <3>1. m \in Int /\ n \in Int /\ k \in Int
      BY <1>2
    <3>2. /\ f[m] = IF m < k THEN m ELSE m + 1
          /\ f[n] = IF n < k THEN n ELSE n + 1
      BY <2>3
    <3> QED
      BY <3>1, <3>2
  <2>5. f \in [DOMAIN r -> DOMAIN s]
    BY <2>2, <2>3
  <2>6. ToSet(r) \subseteq ToSet(s)
    BY <2>3 DEF ToSet
  <2>7. ASSUME NEW j \in DOMAIN s, s[j] # i PROVE s[j] \in ToSet(r)
    <3>1. j # k /\ j \in Int /\ k \in Int /\ j \in 1..Len(s)
      BY <1>2, <2>1, <2>7
    <3>2. CASE j < k
      <4>1. j \in 1..Len(r)
        BY <1>2, <2>1, <3>1, <3>2
      <4>2. r[j] = s[j]
        BY <2>1, <3>2, <4>1
      <4> QED
        BY <1>2, <4>1, <4>2 DEF ToSet
    <3>3. CASE j > k
      <4>1. j - 1 \in 1..Len(r) /\ ~(j - 1 < k) /\ (j - 1) + 1 = j
        BY <1>2, <2>1, <3>1, <3>3
      <4>2. r[j - 1] = s[j]
        BY <2>1, <4>1
      <4> QED
        BY <1>2, <4>1, <4>2 DEF ToSet
    <3> QED
      BY <3>1, <3>2, <3>3
  <2>8. ToSet(s) \ {i} \subseteq ToSet(r)
    BY <2>7 DEF ToSet
  <2>9. OneEach(s) => i \notin ToSet(r)
    <3> SUFFICES ASSUME OneEach(s), NEW m \in DOMAIN r, r[m] = i
                 PROVE  FALSE
      BY DEF ToSet
    <3>1. f[m] \in DOMAIN s /\ f[m] # k /\ r[m] = s[f[m]] /\ k \in DOMAIN s /\ s[k] = i
      BY <1>2, <2>1, <2>3
    <3> QED
      BY <3>1 DEF OneEach
  <2>10. Embeds(r, s)
    BY <2>3, <2>4, <2>5 DEF Embeds
  <2> QED
    BY <1>1, <2>6, <2>8, <2>9, <2>10
<1> QED
  BY <1>3, <1>4

\* Erasing an instruction: the others stay where they are.
LEMMA WithoutFacts ==
    ASSUME body \in [Blocks -> Seq(Insts)], blocks \subseteq Blocks, PlacedIn(blocks, body),
           NEW i, NEW B, B = WithoutInst(i)
    PROVE  /\ B \in [Blocks -> Seq(Insts)]
           /\ PlacedIn(blocks, B)
           /\ \A b \in Blocks : /\ ToSet(B[b]) \subseteq ToSet(body[b])
                                /\ ToSet(body[b]) \ {i} \subseteq ToSet(B[b])
           /\ \A b \in blocks : i \notin ToSet(B[b])
<1>1. ASSUME NEW b \in Blocks
      PROVE  /\ B[b] = RemoveFirst(body[b], i) /\ B[b] \in Seq(Insts)
             /\ ToSet(B[b]) \subseteq ToSet(body[b]) /\ ToSet(body[b]) \ {i} \subseteq ToSet(B[b])
             /\ Embeds(B[b], body[b])
             /\ OneEach(body[b]) => i \notin ToSet(B[b])
  <2>1. B[b] = RemoveFirst(body[b], i) /\ body[b] \in Seq(Insts)
    BY DEF WithoutInst
  <2>2. PICK s, r : s = body[b] /\ r = B[b]
    OBVIOUS
  <2>3. s \in Seq(Insts) /\ r = RemoveFirst(s, i)
    BY <2>1, <2>2
  <2>4. /\ r \in Seq(Insts)
        /\ ToSet(r) \subseteq ToSet(s) /\ ToSet(s) \ {i} \subseteq ToSet(r)
        /\ Embeds(r, s)
        /\ OneEach(s) => i \notin ToSet(r)
    BY <2>3, WithoutOne
  <2> QED
    BY <2>1, <2>2, <2>4
<1>2. B \in [Blocks -> Seq(Insts)]
  BY <1>1 DEF WithoutInst
<1>3. PlacedIn(blocks, B)
  <2> SUFFICES ASSUME NEW b \in blocks, NEW c \in blocks, NEW m \in DOMAIN B[b], NEW n \in DOMAIN B[c],
                      B[b][m] = B[c][n]
               PROVE  b = c /\ m = n
    BY DEF PlacedIn
  <2>1. PICK f \in [DOMAIN B[b] -> DOMAIN body[b]] :
           /\ \A k \in DOMAIN B[b] : B[b][k] = body[b][f[k]]
           /\ \A k, l \in DOMAIN B[b] : f[k] = f[l] => k = l
    BY <1>1 DEF Embeds
  <2>2. PICK g \in [DOMAIN B[c] -> DOMAIN body[c]] :
           /\ \A k \in DOMAIN B[c] : B[c][k] = body[c][g[k]]
           /\ \A k, l \in DOMAIN B[c] : g[k] = g[l] => k = l
    BY <1>1 DEF Embeds
  <2>3. /\ f[m] \in DOMAIN body[b] /\ g[n] \in DOMAIN body[c]
        /\ body[b][f[m]] = body[c][g[n]]
    BY <2>1, <2>2
  <2>4. b = c /\ f[m] = g[n]
    BY <2>3 DEF PlacedIn
  <2>5. n \in DOMAIN B[b] /\ B[b][n] = B[b][m]
    BY <2>4
  <2>6. f[n] \in DOMAIN body[b] /\ body[b][f[n]] = body[b][f[m]]
    BY <2>1, <2>5
  <2>7. f[n] = f[m]
    BY <2>3, <2>6 DEF PlacedIn
  <2> QED
    BY <2>1, <2>4, <2>5, <2>7
<1>4. \A b \in blocks : i \notin ToSet(B[b])
  <2> TAKE b \in blocks
  <2>1. OneEach(body[b])
    BY DEF PlacedIn, OneEach
  <2> QED
    BY <1>1, <2>1
<1> QED
  BY <1>1, <1>2, <1>3, <1>4

\* Merging a block into its predecessor.
LEMMA MergeFacts ==
    ASSUME body \in [Blocks -> Seq(Insts)], blocks \subseteq Blocks, PlacedIn(blocks, body),
           NEW p \in blocks, NEW b \in blocks, p # b,
           NEW B, B = [body EXCEPT ![p] = body[p] \o body[b]]
    PROVE  /\ B \in [Blocks -> Seq(Insts)]
           /\ PlacedIn(blocks \ {b}, B)
           /\ ToSet(B[p]) = ToSet(body[p]) \cup ToSet(body[b])
           /\ \A c \in Blocks \ {p} : B[c] = body[c]
<1>1. PICK s, t, r : s = body[p] /\ t = body[b] /\ r = s \o t
  OBVIOUS
<1>2. s \in Seq(Insts) /\ t \in Seq(Insts)
  BY <1>1
<1>3. /\ r \in Seq(Insts) /\ Len(r) = Len(s) + Len(t)
      /\ \A i \in 1..(Len(s) + Len(t)) : r[i] = IF i <= Len(s) THEN s[i] ELSE t[i - Len(s)]
  BY <1>1, <1>2, ConcatProperties
<1>4. /\ Len(s) \in Nat /\ DOMAIN s = 1..Len(s) /\ Len(t) \in Nat /\ DOMAIN t = 1..Len(t)
      /\ DOMAIN r = 1..(Len(s) + Len(t))
  BY <1>2, <1>3, LenProperties
<1>5. B[p] = r /\ B \in [Blocks -> Seq(Insts)] /\ \A c \in Blocks \ {p} : B[c] = body[c]
  BY <1>1, <1>3
<1>6. \A m \in DOMAIN r : \/ m \in DOMAIN s /\ m <= Len(s) /\ r[m] = s[m]
                          \/ m - Len(s) \in DOMAIN t /\ m > Len(s) /\ r[m] = t[m - Len(s)]
  <2> TAKE m \in DOMAIN r
  <2>1. CASE m <= Len(s)
    <3>1. m \in 1..Len(s)
      BY <1>4, <2>1
    <3> QED
      BY <1>3, <1>4, <2>1, <3>1
  <2>2. CASE m > Len(s)
    <3>1. m - Len(s) \in 1..Len(t) /\ ~(m <= Len(s))
      BY <1>4, <2>2
    <3> QED
      BY <1>3, <1>4, <2>2, <3>1
  <2> QED
    BY <1>4, <2>1, <2>2
<1>7. ToSet(r) = ToSet(s) \cup ToSet(t)
  <2>1. ToSet(r) \subseteq ToSet(s) \cup ToSet(t)
    BY <1>6 DEF ToSet
  <2>2. ASSUME NEW m \in DOMAIN s PROVE s[m] \in ToSet(r)
    <3>1. m \in DOMAIN r /\ m <= Len(s)
      BY <1>4
    <3> QED
      BY <1>3, <1>4, <3>1 DEF ToSet
  <2>3. ASSUME NEW m \in DOMAIN t PROVE t[m] \in ToSet(r)
    <3>1. m + Len(s) \in DOMAIN r /\ ~(m + Len(s) <= Len(s)) /\ (m + Len(s)) - Len(s) = m
      BY <1>4
    <3>2. r[m + Len(s)] = t[m]
      BY <1>3, <1>4, <3>1
    <3> QED
      BY <3>1, <3>2 DEF ToSet
  <2> QED
    BY <2>1, <2>2, <2>3 DEF ToSet
<1>8. \A m, n \in DOMAIN r : r[m] = r[n] => m = n
  <2> SUFFICES ASSUME NEW m \in DOMAIN r, NEW n \in DOMAIN r, r[m] = r[n] PROVE m = n
    OBVIOUS
  <2>1. /\ \A k, l \in DOMAIN s : s[k] = s[l] => k = l
        /\ \A k, l \in DOMAIN t : t[k] = t[l] => k = l
        /\ \A k \in DOMAIN s, l \in DOMAIN t : s[k] # t[l]
    BY <1>1 DEF PlacedIn
  <2>2. m \in Int /\ n \in Int /\ Len(s) \in Int
    BY <1>4
  <2>3. CASE m <= Len(s)
    BY <1>6, <2>1, <2>2, <2>3
  <2>4. CASE m > Len(s)
    <3>1. n > Len(s) /\ t[m - Len(s)] = t[n - Len(s)]
          /\ m - Len(s) \in DOMAIN t /\ n - Len(s) \in DOMAIN t
      BY <1>6, <2>1, <2>2, <2>4
    <3>2. m - Len(s) = n - Len(s)
      BY <2>1, <3>1
    <3> QED
      BY <2>2, <3>2
  <2> QED
    BY <2>2, <2>3, <2>4
<1>9. ASSUME NEW c \in blocks \ {p, b}, NEW m \in DOMAIN B[c], NEW n \in DOMAIN r
      PROVE  B[c][m] # r[n]
  <2>1. B[c] = body[c] /\ m \in DOMAIN body[c]
    BY <1>5, <1>9
  <2>2. CASE n \in DOMAIN s /\ r[n] = s[n]
    <3>1. r[n] = body[p][n] /\ n \in DOMAIN body[p]
      BY <1>1, <2>2
    <3>2. c \in blocks /\ c # p
      OBVIOUS
    <3>3. body[c][m] # body[p][n]
      BY <2>1, <3>1, <3>2 DEF PlacedIn
    <3> QED
      BY <2>1, <3>1, <3>3
  <2>3. CASE n - Len(s) \in DOMAIN t /\ r[n] = t[n - Len(s)]
    <3>1. r[n] = body[b][n - Len(s)] /\ n - Len(s) \in DOMAIN body[b]
      BY <1>1, <2>3
    <3>2. c \in blocks /\ c # b
      OBVIOUS
    <3>3. body[c][m] # body[b][n - Len(s)]
      BY <2>1, <3>1, <3>2 DEF PlacedIn
    <3> QED
      BY <2>1, <3>1, <3>3
  <2> QED
    BY <1>6, <2>2, <2>3
<1>10. PlacedIn(blocks \ {b}, B)
  <2> SUFFICES ASSUME NEW c \in blocks \ {b}, NEW d \in blocks \ {b}, NEW m \in DOMAIN B[c],
                      NEW n \in DOMAIN B[d], B[c][m] = B[d][n]
               PROVE  c = d /\ m = n
    BY DEF PlacedIn
  <2>1. CASE c = p /\ d = p
    BY <1>5, <1>8, <2>1
  <2>2. CASE c # p /\ d # p
    BY <1>5, <2>2 DEF PlacedIn
  <2>3. CASE c = p /\ d # p
    BY <1>5, <1>9, <2>3
  <2>4. CASE c # p /\ d = p
    BY <1>5, <1>9, <2>4
  <2> QED
    BY <2>1, <2>2, <2>3, <2>4
<1> QED
  BY <1>1, <1>5, <1>7, <1>10

-----------------------------------------------------------------------------
(* Layer 1: types, and the bypass of a report block.  While its             *)
(* predecessors are redirected, those that are left are exactly the blocks  *)
(* that still branch to it, and each of them passes the test of the first   *)
(* loop: its branch and that of the report block are as they were.          *)

Arity(t) ==
    \A b \in Blocks :
        /\ t[b].op = "br" => Len(t[b].to) = 1
        /\ t[b].op = "cbr" => Len(t[b].to) = 2
        /\ t[b].op = "unreachable" => Len(t[b].to) = 0

Rep == BlockOf(CB)

BypassInv ==
    pc = "redirect" =>
        /\ predecessors(Rep) = Preds
        /\ Rep \notin Preds
        /\ term[Rep].op \in {"br", "unreachable"}
        /\ \A p \in Preds : canRedirect(p, Rep)

TInv ==
    /\ prog \in Programs
    /\ TypeOK
    /\ Arity(term)
    /\ PlacedIn(blocks, body)
    /\ BypassInv

LEMMA ProgramFacts ==
    ASSUME prog \in Programs
    PROVE  IsFunction(prog)
  BY ProgramsAssumption

\* A branch with one target, and one with two.
LEMMA Targets ==
    ASSUME term \in [Blocks -> Terminators], Arity(term), NEW p \in Blocks
    PROVE  /\ Succs(p) \subseteq Blocks
           /\ term[p].op = "br" => /\ term[p].to[1] \in Blocks
                                   /\ Succs(p) = {term[p].to[1]}
           /\ term[p].op = "cbr" => /\ term[p].to[1] \in Blocks /\ term[p].to[2] \in Blocks
                                    /\ Succs(p) = {term[p].to[1], term[p].to[2]}
           /\ term[p].op = "unreachable" => Succs(p) = {}
<1>1. term[p].to \in Seq(Blocks)
  BY DEF Terminators
<1>2. PICK q : q = term[p].to
  OBVIOUS
<1>3. q \in [1..Len(q) -> Blocks] /\ DOMAIN q = 1..Len(q) /\ Len(q) \in Nat
  BY <1>1, <1>2, LenProperties
<1>4. Succs(p) = {q[i] : i \in 1..Len(q)}
  BY <1>2, <1>3 DEF Succs, ToSet
<1>5. /\ term[p].op = "br" => Len(q) = 1
      /\ term[p].op = "cbr" => Len(q) = 2
      /\ term[p].op = "unreachable" => Len(q) = 0
  BY <1>2 DEF Arity
<1>6. ASSUME Len(q) = 1 PROVE q[1] \in Blocks /\ Succs(p) = {q[1]}
  <2>1. 1 \in 1..Len(q) /\ \A i \in 1..Len(q) : i = 1
    BY <1>6
  <2> QED
    BY <1>3, <1>4, <2>1
<1>7. ASSUME Len(q) = 2 PROVE q[1] \in Blocks /\ q[2] \in Blocks /\ Succs(p) = {q[1], q[2]}
  <2>1. 1 \in 1..Len(q) /\ 2 \in 1..Len(q) /\ \A i \in 1..Len(q) : i = 1 \/ i = 2
    BY <1>7
  <2> QED
    BY <1>3, <1>4, <2>1
<1>8. ASSUME Len(q) = 0 PROVE Succs(p) = {}
  <2>1. \A i \in 1..Len(q) : FALSE
    BY <1>8
  <2> QED
    BY <1>4, <2>1
<1>9. Succs(p) \subseteq Blocks
  BY <1>3, <1>4
<1> QED
  BY <1>2, <1>5, <1>6, <1>7, <1>8, <1>9

\* A predecessor that can be redirected has a block to go to.
LEMMA SafeTarget ==
    ASSUME term \in [Blocks -> Terminators], Arity(term), blocks \subseteq Blocks,
           NEW R, NEW p \in predecessors(R), canRedirect(p, R)
    PROVE  SafeSucc(p, R) \in Blocks /\ SafeSucc(p, R) # R
<1>1. p \in Blocks /\ R \in Succs(p) /\ R \in Blocks
  BY Targets DEF predecessors
<1>2. Fallthrough(R) # None => Fallthrough(R) \in Blocks
  BY <1>1, Targets DEF Fallthrough
<1>3. term[p].op = "cbr" => OtherSucc(p, R) \in Blocks
  BY <1>1, Targets DEF OtherSucc
<1> QED
  BY <1>2, <1>3 DEF canRedirect, SafeSucc

LEMMA TypesInit == Init => TInv
<1> SUFFICES ASSUME Init PROVE TInv
  OBVIOUS
<1>1. IsFunction(prog)
  BY ProgramFacts DEF Init
<1>2. /\ blocks = prog.blocks /\ body = prog.body /\ term = prog.term /\ prog \in Programs
      /\ pc = "next" /\ CallsToErase = prog.marked /\ CB = None /\ Preds = {} /\ Removed = 0
      /\ Slice.insts = {} /\ Slice.blocks = {}
  BY DEF Init
<1>3. TypeOK
  BY <1>1, <1>2 DEF TypeOK, IsFunction, ClassOf
<1>4. Arity(term) /\ PlacedIn(blocks, body)
  BY <1>1, <1>2 DEF IsFunction, Arity, PlacedIn
<1> QED
  BY <1>2, <1>3, <1>4 DEF TInv, BypassInv

LEMMA LiveInsts ==
    ASSUME TypeOK
    PROVE  Live \subseteq Insts /\ \A b \in Blocks : InstsOf(b) \subseteq Insts
<1>1. \A b \in Blocks : InstsOf(b) \subseteq Insts
  <2> TAKE b \in Blocks
  <2>1. body[b] \in [1..Len(body[b]) -> Insts] /\ DOMAIN body[b] = 1..Len(body[b])
    BY LenProperties DEF TypeOK
  <2> QED
    BY <2>1 DEF InstsOf, ToSet
<1> QED
  BY <1>1 DEF Live, TypeOK

LEMMA SliceTypes ==
    ASSUME TypeOK, NEW i \in Insts, NEW Cut
    PROVE  collectCheckSlice(i, Cut).insts \subseteq Insts /\ collectCheckSlice(i, Cut).blocks \subseteq blocks
<1>1. Live \subseteq Insts /\ \A b \in Blocks : InstsOf(b) \subseteq Insts
  BY LiveInsts
<1>2. SliceWalk(i) \subseteq blocks
  BY DEF SliceWalk
<1>3. ASSUME NEW S \in SUBSET Insts, NEW C PROVE Backward(S, C) \subseteq Insts
  <2>1. \A o \in Sources : o \in Insts
    BY <1>1 DEF Sources
  <2>2. \A o \in Backward(S, C) : o \in S \/ o \in Sources
    BY Zenon DEF Backward
  <2> QED
    BY <2>1, <2>2
<1>4. \A p : TerminatorInst(p) \subseteq Insts
  BY <1>1 DEF TerminatorInst
<1> DEFINE Walk == SliceWalk(i)
           SliceBlocks == {b \in Walk : isSanitizerOnlyBlock(b, i)}
           Guards == {p \in UNION {predecessors(b) : b \in Walk} : isSanitizerOnlyTerminator(p)}
           Ends == UNION {TerminatorInst(p) : p \in Guards}
<1>5. /\ collectCheckSlice(i, Cut).insts =
            Backward({i}, {}) \cup Backward(Ends, Cut) \cup UNION {InstsOf(b) : b \in SliceBlocks}
      /\ collectCheckSlice(i, Cut).blocks = SliceBlocks
  BY DEF collectCheckSlice
<1>6. SliceBlocks \subseteq blocks
  BY <1>2
<1>7. Ends \in SUBSET Insts
  BY <1>4
<1> HIDE DEF SliceBlocks, Ends
<1>8. Backward({i}, {}) \subseteq Insts /\ Backward(Ends, Cut) \subseteq Insts
  BY <1>3, <1>7
<1>9. UNION {InstsOf(b) : b \in SliceBlocks} \subseteq Insts
  BY <1>1, <1>6 DEF TypeOK
<1> QED
  BY <1>5, <1>6, <1>8, <1>9

LEMMA FewerBlocks ==
    ASSUME NEW S, NEW B, PlacedIn(S, B), NEW T \in SUBSET S
    PROVE  PlacedIn(T, B)
  BY DEF PlacedIn

\* Redirecting a branch.
LEMMA RedirectKeeps ==
    ASSUME TInv, NEW p \in Blocks, Redirect(p)
    PROVE  TInv'
<1>1. /\ pc = "redirect" /\ p \in Preds /\ Preds' = Preds \ {p} /\ pc' = pc
      /\ term' = [term EXCEPT ![p] = [op |-> "br", cond |-> None, to |-> <<SafeSucc(p, Rep)>>]]
      /\ UNCHANGED <<prog, blocks, body, CallsToErase, CB, Slice, Removed>>
  BY DEF Redirect, Rep
<1>2. /\ predecessors(Rep) = Preds /\ Rep \notin Preds
      /\ term[Rep].op \in {"br", "unreachable"}
      /\ \A q \in Preds : canRedirect(q, Rep)
      /\ term \in [Blocks -> Terminators] /\ Arity(term) /\ blocks \subseteq Blocks
  BY <1>1 DEF TInv, TypeOK, BypassInv
<1>3. Rep' = Rep
  BY <1>1 DEF Rep, BlockOf, InstsOf
<1>4. PICK R : R = Rep
  OBVIOUS
<1>5. PICK S \in Blocks : S = SafeSucc(p, R) /\ S # R
  BY <1>1, <1>2, <1>4, SafeTarget
<1>6. PICK t : t = term'
  OBVIOUS
<1>7. t = [term EXCEPT ![p] = [op |-> "br", cond |-> None, to |-> <<S>>]]
  BY <1>1, <1>4, <1>5, <1>6
<1>8. [op |-> "br", cond |-> None, to |-> <<S>>] \in Terminators
  BY DEF Terminators, TermClasses
<1>9. t \in [Blocks -> Terminators] /\ t[p] = [op |-> "br", cond |-> None, to |-> <<S>>]
      /\ \A q \in Blocks \ {p} : t[q] = term[q]
  BY <1>2, <1>7, <1>8
<1>10. t[p].op = "br" /\ t[p].to = <<S>>
  BY <1>9
<1>11. Arity(t)
  <2>1. Len(t[p].to) = 1
    BY <1>10
  <2>2. \A q \in Blocks : q = p \/ t[q] = term[q]
    BY <1>9
  <2> QED
    BY <1>2, <1>10, <2>1, <2>2 DEF Arity
<1>12. TypeOK'
  <2>1. \A i \in Insts : ClassOf(i)' = ClassOf(i)
    BY <1>1 DEF ClassOf
  <2>2. term' \in [Blocks -> Terminators] /\ Preds' \subseteq Blocks
    BY <1>1, <1>6, <1>9 DEF TInv, TypeOK
  <2> QED
    BY <1>1, <2>1, <2>2 DEF TInv, TypeOK
<1>13. BypassInv'
  <2>1. ToSet(t[p].to) = {S}
    <3>1. Len(<<S>>) = 1 /\ <<S>>[1] = S /\ DOMAIN <<S>> = {1}
      OBVIOUS
    <3> QED
      BY <1>10, <3>1 DEF ToSet
  <2>2. {q \in blocks : R \in ToSet(t[q].to)} = predecessors(R) \ {p}
    BY <1>2, <1>5, <1>9, <2>1 DEF predecessors, Succs
  <2>3. predecessors(Rep)' = Preds'
    BY <1>1, <1>2, <1>3, <1>4, <1>6, <2>2 DEF predecessors, Succs
  <2>4. R # p /\ R \notin Preds'
    BY <1>1, <1>2, <1>4
  <2>5. R \in Blocks
    BY <1>1, <1>2, <1>4, Targets DEF predecessors
  <2>6. t[R] = term[R]
    BY <1>9, <2>4, <2>5
  <2>7. ASSUME NEW q \in Preds' PROVE canRedirect(q, R)'
    <3>1. q \in Preds /\ q # p /\ q \in Blocks
      BY <1>1 DEF TInv, TypeOK
    <3>2. t[q] = term[q] /\ canRedirect(q, R)
      BY <1>2, <1>4, <1>9, <3>1
    <3> QED
      BY <1>6, <2>6, <3>2 DEF canRedirect, SafeSucc, OtherSucc, Fallthrough
  <2> QED
    BY <1>1, <1>2, <1>3, <1>4, <1>6, <2>3, <2>4, <2>6, <2>7 DEF BypassInv
<1> QED
  BY <1>1, <1>6, <1>11, <1>12, <1>13 DEF TInv

LEMMA TypesNext == TInv /\ [Next]_vars => TInv'
<1> SUFFICES ASSUME TInv, [Next]_vars PROVE TInv'
  OBVIOUS
<1>0. /\ prog \in Programs /\ TypeOK /\ Arity(term) /\ PlacedIn(blocks, body) /\ BypassInv
      /\ blocks \subseteq Blocks /\ body \in [Blocks -> Seq(Insts)] /\ term \in [Blocks -> Terminators]
      /\ \A i \in Insts : ClassOf(i) \in InstClasses
  BY DEF TInv, TypeOK
\* Outside of a bypass the branches stay what they are.
<1>1. ASSUME prog' = prog, blocks' \subseteq blocks, body' \in [Blocks -> Seq(Insts)],
             PlacedIn(blocks', body'),
             term' \in [Blocks -> Terminators], Arity(term'),
             pc' \in {"next", "bypass", "dead", "cleanup", "merge", "lastcleanup", "lastmerge", "done"},
             CallsToErase' \subseteq CallsToErase, CB' \in Insts \cup {None},
             Slice'.insts \subseteq Insts, Slice'.blocks \subseteq Blocks,
             Preds' = Preds, Removed' \in Nat
      PROVE  TInv'
  <2>1. \A i \in Insts : ClassOf(i)' = ClassOf(i)
    BY <1>1 DEF ClassOf
  <2>2. TypeOK'
    BY <1>0, <1>1, <2>1 DEF TypeOK
  <2>3. BypassInv'
    BY <1>1 DEF BypassInv
  <2> QED
    BY <1>0, <1>1, <2>2, <2>3 DEF TInv
<1>2. /\ CB \in Insts \cup {None} /\ Slice.insts \subseteq Insts /\ Slice.blocks \subseteq Blocks
      /\ Removed \in Nat /\ Removed + 1 \in Nat /\ CallsToErase \subseteq prog.marked
  BY <1>0 DEF TypeOK
<1>3. ASSUME NEW i \in Insts, TakeCall(i) PROVE TInv'
  <2>1. /\ UNCHANGED <<prog, ir, Preds, Removed>> /\ pc' = "bypass" /\ CB' = i
        /\ CallsToErase' \subseteq CallsToErase /\ \E Cut : Slice' = collectCheckSlice(i, Cut)
    BY <1>3 DEF TakeCall
  <2>2. Slice'.insts \subseteq Insts /\ Slice'.blocks \subseteq Blocks
    BY <1>0, <2>1, SliceTypes
  <2> QED
    BY <1>0, <1>1, <1>2, <2>1, <2>2 DEF ir
<1>4. CASE StartBypass
  <2>1. /\ canBypass(CB) /\ Preds' = predecessors(Rep) /\ pc' = "redirect"
        /\ UNCHANGED <<prog, ir, CallsToErase, CB, Slice, Removed>>
    BY <1>4 DEF StartBypass, Rep
  <2>2. blocks' = blocks /\ body' = body /\ term' = term
    BY <2>1 DEF ir
  <2>3. Rep' = Rep
    BY <2>1, <2>2 DEF Rep, BlockOf, InstsOf
  <2>4. predecessors(Rep)' = predecessors(Rep)
    BY <2>2, <2>3 DEF predecessors, Succs
  <2>5. /\ term[Rep].op \in {"br", "unreachable"}
        /\ \A p \in predecessors(Rep) : canRedirect(p, Rep)
    BY <2>1 DEF canBypass, Rep
  <2>6. Rep \notin predecessors(Rep)
    <3> SUFFICES ASSUME Rep \in predecessors(Rep) PROVE FALSE
      OBVIOUS
    <3>1. Rep \in Blocks /\ Rep \in Succs(Rep)
      BY <1>0 DEF predecessors
    <3>2. term[Rep].op = "br"
      BY <1>0, <2>5, <3>1, Targets
    <3>3. term[Rep].to[1] = Rep
      BY <1>0, <3>1, <3>2, Targets
    <3>4. Fallthrough(Rep) = Rep /\ Rep # None
      BY <3>1, <3>2, <3>3, ProgramsAssumption DEF Fallthrough
    <3> QED
      BY <2>5, <3>4 DEF canRedirect, SafeSucc
  <2>7. \A p \in predecessors(Rep) : canRedirect(p, Rep)'
    BY <2>2, <2>3, <2>5 DEF canRedirect, SafeSucc, OtherSucc, Fallthrough
  <2>8. BypassInv'
    BY <2>1, <2>2, <2>3, <2>4, <2>5, <2>6, <2>7 DEF BypassInv
  <2>9. predecessors(Rep) \subseteq Blocks
    BY <1>0 DEF predecessors
  <2>10. TypeOK'
    <3>1. \A i \in Insts : ClassOf(i)' = ClassOf(i)
      BY <2>1 DEF ClassOf
    <3> QED
      BY <1>0, <2>1, <2>2, <2>9, <3>1 DEF TypeOK
  <2> QED
    BY <1>0, <2>1, <2>2, <2>8, <2>10 DEF TInv
<1>5. CASE DeleteReportBlock
  <2>1. /\ blocks' = blocks \ {Rep} /\ Removed' = Removed + 1 /\ pc' = "cleanup"
        /\ UNCHANGED <<prog, body, term, CallsToErase, CB, Slice, Preds>>
    BY <1>5 DEF DeleteReportBlock, Rep
  <2>2. PlacedIn(blocks', body')
    BY <1>0, <2>1, FewerBlocks
  <2> QED
    BY <1>0, <1>1, <1>2, <2>1, <2>2
<1>6. ASSUME NEW i, body' = WithoutInst(i), pc' \in {"dead", "cleanup", "lastcleanup"}, Removed' \in Nat,
             UNCHANGED <<prog, blocks, term, CallsToErase, CB, Slice, Preds>>
      PROVE  TInv'
  <2>1. PICK B : B = body'
    OBVIOUS
  <2>2. B \in [Blocks -> Seq(Insts)] /\ PlacedIn(blocks, B)
    BY <1>0, <1>6, <2>1, WithoutFacts
  <2>3. body' \in [Blocks -> Seq(Insts)] /\ PlacedIn(blocks', body')
    BY <1>6, <2>1, <2>2
  <2> QED
    BY <1>0, <1>1, <1>2, <1>6, <2>3
<1>7. CASE EraseDirect
  BY <1>2, <1>6, <1>7 DEF EraseDirect
<1>8. ASSUME NEW i \in Insts, EraseDead(i) PROVE TInv'
  BY <1>2, <1>6, <1>8 DEF EraseDead
<1>9. ASSUME NEW i \in Insts, CleanUp(i) PROVE TInv'
  BY <1>2, <1>6, <1>9 DEF CleanUp
<1>10. ASSUME UNCHANGED <<prog, ir, CallsToErase, CB, Slice, Preds, Removed>>,
              pc' \in {"next", "cleanup", "done", "lastcleanup"}
       PROVE  TInv'
  BY <1>0, <1>1, <1>2, <1>10 DEF ir
<1>11. CASE Refuse \/ SliceErased \/ Merged \/ LastCleanup
  <2>1. pc' \in {"next", "cleanup", "done", "lastcleanup"}
    BY <1>11 DEF Refuse, SliceErased, Merged, LastCleanup
  <2> QED
    BY <1>10, <1>11, <2>1 DEF Refuse, SliceErased, Merged, LastCleanup
<1>12. CASE EliminateUnreachableBlocks
  <2>1. /\ blocks' \subseteq blocks /\ pc' \in {"merge", "lastmerge"}
        /\ UNCHANGED <<prog, body, term, CallsToErase, CB, Slice, Preds, Removed>>
    BY <1>12 DEF EliminateUnreachableBlocks
  <2>2. PlacedIn(blocks', body')
    BY <1>0, <2>1, FewerBlocks
  <2> QED
    BY <1>0, <1>1, <1>2, <2>1, <2>2
<1>13. ASSUME NEW b \in Blocks, Merge(b) PROVE TInv'
  <2>1. PICK p : p = CHOOSE q \in blocks : predecessors(b) = {q}
    OBVIOUS
  <2>2. /\ pc \in {"merge", "lastmerge"} /\ b \in blocks /\ canMerge(b)
        /\ blocks' = blocks \ {b} /\ body' = [body EXCEPT ![p] = body[p] \o body[b]]
        /\ term' = [term EXCEPT ![p] = term[b]]
        /\ UNCHANGED <<prog, pc, CallsToErase, CB, Slice, Preds, Removed>>
    BY <1>13, <2>1 DEF Merge
  <2>3. p \in blocks /\ p # b
    BY <2>1, <2>2 DEF canMerge
  <2>4. PICK B : B = body'
    OBVIOUS
  <2>5. B \in [Blocks -> Seq(Insts)] /\ PlacedIn(blocks \ {b}, B)
    BY <1>0, <2>2, <2>3, <2>4, MergeFacts
  <2>6. PICK t : t = term'
    OBVIOUS
  <2>7. t \in [Blocks -> Terminators] /\ Arity(t)
    BY <1>0, <2>2, <2>3, <2>6 DEF Arity
  <2>8. body' \in [Blocks -> Seq(Insts)] /\ PlacedIn(blocks', body') /\ blocks' \subseteq blocks
    BY <2>2, <2>4, <2>5
  <2>9. term' \in [Blocks -> Terminators] /\ Arity(term') /\ pc' \in {"merge", "lastmerge"}
    BY <2>2, <2>6, <2>7
  <2> QED
    BY <1>0, <1>1, <1>2, <2>2, <2>8, <2>9
<1>14. CASE UNCHANGED vars
  <2>1. UNCHANGED <<prog, blocks, body, term, pc, CallsToErase, CB, Slice, Preds, Removed>>
    BY <1>14 DEF vars
  <2>2. TypeOK'
    BY <1>0, <2>1 DEF TypeOK, ClassOf
  <2>3. Rep' = Rep
    BY <2>1 DEF Rep, BlockOf, InstsOf
  <2>4. BypassInv'
    BY <1>0, <2>1, <2>3 DEF BypassInv, predecessors, Succs, canRedirect, SafeSucc, OtherSucc, Fallthrough
  <2> QED
    BY <1>0, <2>1, <2>2, <2>4 DEF TInv
<1> QED
  BY <1>3, <1>4, <1>5, <1>7, <1>8, <1>9, <1>11, <1>12, <1>13, <1>14, RedirectKeeps DEF Next, Return

LEMMA TypeInvariance == Spec => []TInv
  BY TypesInit, TypesNext, PTL DEF Spec

(* The state keeps its types; in particular every branch that is redirected *)
(* has a block to go to.                                                    *)
THEOREM TypeCorrect == Spec => []TypeOK
<1>1. TInv => TypeOK
  BY DEF TInv
<1> QED
  BY <1>1, TypeInvariance, PTL

(* A bypass that was begun is completed: the predecessors that are left to  *)
(* redirect are those that still branch to the report block, so that it has *)
(* none when bypassReportBlock asks again.                                  *)
THEOREM BypassIsCompleted == Spec => []BypassCompletes
<1>1. TInv => BypassCompletes
  BY DEF TInv, BypassInv, BypassCompletes, Rep
<1> QED
  BY <1>1, TypeInvariance, PTL

-----------------------------------------------------------------------------
(* Every step leaves less to do.                                            *)

\* A number of two digits, the second below w, falls with its first digit.
LEMMA DigitFalls ==
    \A a, aa, c, cc, w \in Nat : aa < a /\ cc < w => aa * w + cc < a * w + c
<1> TAKE a, aa, c, cc, w \in Nat
<1> HAVE aa < a /\ cc < w
<1>1. PICK d \in Nat : a = aa + 1 + d
  <2>1. a - aa - 1 \in Nat /\ a = aa + 1 + (a - aa - 1)
    OBVIOUS
  <2> QED
    BY <2>1
<1>2. a * w = aa * w + w + d * w
  BY <1>1
<1>3. d * w \in Nat /\ aa * w \in Nat
  OBVIOUS
<1> QED
  BY <1>2, <1>3

\* The marked checks are checks of the function.
LEMMA MarkedFacts ==
    ASSUME TInv
    PROVE  /\ prog.marked \subseteq Insts /\ IsFiniteSet(prog.marked)
           /\ \A i \in prog.marked : isCheck(i)
<1>1. IsFunction(prog)
  BY ProgramFacts DEF TInv
<1>2. \A b \in prog.blocks : ToSet(prog.body[b]) \subseteq Insts
  <2> TAKE b \in prog.blocks
  <2>1. prog.body[b] \in Seq(Insts)
    BY <1>1 DEF IsFunction
  <2>2. prog.body[b] \in [1..Len(prog.body[b]) -> Insts] /\ DOMAIN prog.body[b] = 1..Len(prog.body[b])
    BY <2>1, LenProperties
  <2> QED
    BY <2>2 DEF ToSet
<1>3. prog.marked \subseteq UNION {ToSet(prog.body[b]) : b \in prog.blocks}
  BY <1>1 DEF IsFunction
<1>4. prog.marked \subseteq Insts
  BY <1>2, <1>3
<1>5. IsFiniteSet(prog.marked)
  BY <1>4, ProgramsAssumption, FS_Subset
<1>6. \A i \in prog.marked : isCheck(i)
  BY <1>1 DEF IsFunction, isCheck, ClassOf
<1> QED
  BY <1>4, <1>5, <1>6

LEMMA Sizes ==
    ASSUME TInv
    PROVE  /\ IsFiniteSet(Live) /\ IsFiniteSet(blocks) /\ IsFiniteSet(Preds) /\ IsFiniteSet(CallsToErase)
           /\ Cardinality(Live) \in Nat /\ Cardinality(blocks) \in Nat /\ Cardinality(Preds) \in Nat
           /\ Cardinality(CallsToErase) \in Nat
           /\ CodeLeft \in Nat /\ Width \in Nat /\ CodeLeft < Width
           /\ PhaseLeft \in 1..8
<1>1. IsFiniteSet(Insts) /\ IsFiniteSet(Blocks)
  BY ProgramsAssumption
<1>2. Live \subseteq Insts /\ blocks \subseteq Blocks /\ Preds \subseteq Blocks
  BY LiveInsts DEF TInv, TypeOK
<1>3. CallsToErase \subseteq Insts
  BY MarkedFacts DEF TInv, TypeOK
<1>4. /\ IsFiniteSet(Live) /\ Cardinality(Live) <= Cardinality(Insts)
      /\ IsFiniteSet(blocks) /\ Cardinality(blocks) <= Cardinality(Blocks)
      /\ IsFiniteSet(Preds) /\ Cardinality(Preds) <= Cardinality(Blocks)
      /\ IsFiniteSet(CallsToErase)
  BY <1>1, <1>2, <1>3, FS_Subset
<1>5. /\ Cardinality(Live) \in Nat /\ Cardinality(blocks) \in Nat /\ Cardinality(Preds) \in Nat
      /\ Cardinality(CallsToErase) \in Nat /\ Cardinality(Insts) \in Nat /\ Cardinality(Blocks) \in Nat
  BY <1>1, <1>4, FS_CardinalityType
<1>6. CodeLeft \in Nat /\ Width \in Nat /\ CodeLeft < Width
  BY <1>4, <1>5 DEF CodeLeft, Width
<1>7. PhaseLeft \in 1..8
  BY DEF TInv, TypeOK, PhaseLeft
<1> QED
  BY <1>4, <1>5, <1>6, <1>7

\* A smaller set.
LEMMA Fewer ==
    ASSUME NEW S, IsFiniteSet(S), NEW T \in SUBSET S, T # S
    PROVE  Cardinality(T) \in Nat /\ Cardinality(S) \in Nat /\ Cardinality(T) < Cardinality(S)
  BY FS_Subset, FS_CardinalityType

\* Erasing an instruction takes it, and only it, out of the function.
LEMMA LiveWithout ==
    ASSUME TInv, NEW i, body' = WithoutInst(i), blocks' = blocks
    PROVE  Live' = Live \ {i}
<1>1. PICK B : B = body'
  OBVIOUS
<1>2. body \in [Blocks -> Seq(Insts)] /\ blocks \subseteq Blocks /\ PlacedIn(blocks, body)
  BY DEF TInv, TypeOK
<1>3. /\ \A b \in Blocks : /\ ToSet(B[b]) \subseteq ToSet(body[b])
                           /\ ToSet(body[b]) \ {i} \subseteq ToSet(B[b])
      /\ \A b \in blocks : i \notin ToSet(B[b])
  BY <1>1, <1>2, WithoutFacts
<1>4. Live' = UNION {ToSet(B[b]) : b \in blocks} /\ Live = UNION {ToSet(body[b]) : b \in blocks}
  BY <1>1 DEF Live, InstsOf
<1>5. \A b \in blocks : ToSet(B[b]) = ToSet(body[b]) \ {i}
  BY <1>2, <1>3
<1> QED
  BY <1>4, <1>5

\* Merging two blocks keeps every instruction.
LEMMA LiveMerge ==
    ASSUME TInv, NEW b \in Blocks, Merge(b)
    PROVE  Live' = Live /\ blocks' = blocks \ {b} /\ b \in blocks
<1>1. PICK p : p = CHOOSE q \in blocks : predecessors(b) = {q}
  OBVIOUS
<1>2. /\ b \in blocks /\ canMerge(b) /\ blocks' = blocks \ {b}
      /\ body' = [body EXCEPT ![p] = body[p] \o body[b]]
  BY <1>1 DEF Merge
<1>3. p \in blocks /\ p # b
  BY <1>1, <1>2 DEF canMerge
<1>4. PICK B : B = body'
  OBVIOUS
<1>5. body \in [Blocks -> Seq(Insts)] /\ blocks \subseteq Blocks /\ PlacedIn(blocks, body)
  BY DEF TInv, TypeOK
<1>6. /\ ToSet(B[p]) = ToSet(body[p]) \cup ToSet(body[b])
      /\ \A c \in Blocks \ {p} : B[c] = body[c]
  BY <1>2, <1>3, <1>4, <1>5, MergeFacts
<1>7. Live' = UNION {ToSet(B[c]) : c \in blocks \ {b}} /\ Live = UNION {ToSet(body[c]) : c \in blocks}
  BY <1>2, <1>4 DEF Live, InstsOf
<1>8. \A c \in blocks \ {b} : ToSet(B[c]) \subseteq UNION {ToSet(body[d]) : d \in blocks}
  BY <1>2, <1>3, <1>5, <1>6
<1>9. \A c \in blocks : ToSet(body[c]) \subseteq UNION {ToSet(B[d]) : d \in blocks \ {b}}
  <2> TAKE c \in blocks
  <2>1. p \in blocks \ {b} /\ ToSet(B[p]) \subseteq UNION {ToSet(B[d]) : d \in blocks \ {b}}
    BY <1>3
  <2>2. CASE c = p \/ c = b
    BY <1>6, <2>1, <2>2
  <2>3. CASE c # p /\ c # b
    <3>1. c \in blocks \ {b} /\ B[c] = body[c]
      BY <1>5, <1>6, <2>3
    <3> QED
      BY <3>1
  <2> QED
    BY <2>2, <2>3
<1> QED
  BY <1>2, <1>7, <1>8, <1>9

Bounded ==
    /\ Cardinality(CallsToErase) \in Nat
    /\ CodeLeft \in Nat /\ CodeLeft < Width
    /\ PhaseLeft \in 1..8

LEMMA RankFalls ==
    ASSUME TInv, Bounded', [Next]_vars, vars' # vars
    PROVE  Rank' < Rank
<1>2. /\ IsFiniteSet(Live) /\ IsFiniteSet(blocks) /\ IsFiniteSet(Preds) /\ IsFiniteSet(CallsToErase)
      /\ Cardinality(Live) \in Nat /\ Cardinality(blocks) \in Nat /\ Cardinality(Preds) \in Nat
      /\ Cardinality(CallsToErase) \in Nat
      /\ CodeLeft \in Nat /\ Width \in Nat /\ CodeLeft < Width /\ PhaseLeft \in 1..8
  BY Sizes
<1>3. /\ Cardinality(CallsToErase)' \in Nat
      /\ CodeLeft' \in Nat /\ Width' = Width /\ CodeLeft' < Width /\ PhaseLeft' \in 1..8
  <2>1. Width' = Width
    BY DEF Width
  <2> QED
    BY <2>1 DEF Bounded
\* A call is taken, or the removal enters a later phase.
<1>4. ASSUME 10 * Cardinality(CallsToErase)' + PhaseLeft' < 10 * Cardinality(CallsToErase) + PhaseLeft
      PROVE  Rank' < Rank
  <2>1. PICK a \in Nat : a = 10 * Cardinality(CallsToErase) + PhaseLeft
    BY <1>2
  <2>2. PICK aa \in Nat : aa = 10 * Cardinality(CallsToErase)' + PhaseLeft'
    BY <1>3
  <2>3. aa * Width + CodeLeft' < a * Width + CodeLeft
    BY <1>2, <1>3, <1>4, <2>1, <2>2, DigitFalls
  <2> QED
    BY <1>3, <2>1, <2>2, <2>3 DEF Rank
<1>5. ASSUME CallsToErase' = CallsToErase, PhaseLeft' < PhaseLeft PROVE Rank' < Rank
  BY <1>2, <1>3, <1>4, <1>5
\* Within a phase, there is less code to work off.
<1>6. ASSUME CallsToErase' = CallsToErase, pc' = pc, CodeLeft' < CodeLeft PROVE Rank' < Rank
  <2>1. PhaseLeft' = PhaseLeft
    BY <1>6 DEF PhaseLeft
  <2>2. PICK h \in Int : h = (10 * Cardinality(CallsToErase) + PhaseLeft) * Width
    BY <1>2
  <2>3. Rank = h + CodeLeft /\ Rank' = h + CodeLeft'
    BY <1>3, <1>6, <2>1, <2>2 DEF Rank
  <2>4. \A c, cc \in Nat : cc < c => h + cc < h + c
    OBVIOUS
  <2>5. h + CodeLeft' < h + CodeLeft
    BY <1>2, <1>3, <1>6, <2>4
  <2> QED
    BY <2>3, <2>5
<1>7. ASSUME NEW i \in Insts, TakeCall(i) PROVE Rank' < Rank
  <2>1. pc = "next" /\ pc' = "bypass" /\ i \in CallsToErase /\ CallsToErase' = CallsToErase \ {i}
    BY <1>7 DEF TakeCall
  <2>2. Cardinality(CallsToErase') = Cardinality(CallsToErase) - 1
    BY <1>2, <2>1, FS_RemoveElement
  <2>3. PhaseLeft = 4 /\ PhaseLeft' = 8
    BY <2>1 DEF PhaseLeft
  <2> QED
    BY <1>2, <1>4, <2>2, <2>3
<1>8. CASE StartBypass \/ DeleteReportBlock \/ EraseDirect \/ Refuse \/ SliceErased
           \/ EliminateUnreachableBlocks \/ Merged \/ LastCleanup
  <2>1. CallsToErase' = CallsToErase
    BY <1>8 DEF StartBypass, DeleteReportBlock, EraseDirect, Refuse, SliceErased,
                EliminateUnreachableBlocks, Merged, LastCleanup
  <2>2. \/ pc = "bypass" /\ pc' \in {"redirect", "dead", "next"}
        \/ pc \in {"redirect", "dead"} /\ pc' = "cleanup"
        \/ pc = "cleanup" /\ pc' = "merge"
        \/ pc = "lastcleanup" /\ pc' = "lastmerge"
        \/ pc = "merge" /\ pc' = "next"
        \/ pc = "lastmerge" /\ pc' = "done"
        \/ pc = "next" /\ pc' = "lastcleanup"
    BY <1>8 DEF StartBypass, DeleteReportBlock, EraseDirect, Refuse, SliceErased,
                EliminateUnreachableBlocks, Merged, LastCleanup
  <2>3. PhaseLeft' < PhaseLeft
    BY <2>2 DEF PhaseLeft
  <2> QED
    BY <1>5, <2>1, <2>3
<1>9. ASSUME NEW p \in Blocks, Redirect(p) PROVE Rank' < Rank
  <2>1. /\ p \in Preds /\ Preds' = Preds \ {p}
        /\ UNCHANGED <<blocks, body, pc, CallsToErase>>
    BY <1>9 DEF Redirect
  <2>2. Live' = Live
    BY <2>1 DEF Live, InstsOf
  <2>3. Cardinality(Preds') \in Nat /\ Cardinality(Preds') < Cardinality(Preds)
    BY <1>2, <2>1, Fewer
  <2>4. CodeLeft' < CodeLeft
    BY <1>2, <2>1, <2>2, <2>3 DEF CodeLeft
  <2> QED
    BY <1>6, <2>1, <2>4
<1>10. ASSUME NEW i \in Insts, EraseDead(i) \/ CleanUp(i) PROVE Rank' < Rank
  <2>1. /\ i \in Live /\ body' = WithoutInst(i)
        /\ UNCHANGED <<blocks, pc, CallsToErase, Preds>>
    BY <1>10 DEF EraseDead, CleanUp, canEraseInstruction
  <2>2. Live' = Live \ {i}
    BY <2>1, LiveWithout
  <2>3. Cardinality(Live') \in Nat /\ Cardinality(Live') < Cardinality(Live)
    BY <1>2, <2>1, <2>2, Fewer
  <2>4. CodeLeft' < CodeLeft
    BY <1>2, <2>1, <2>3 DEF CodeLeft
  <2> QED
    BY <1>6, <2>1, <2>4
<1>11. ASSUME NEW b \in Blocks, Merge(b) PROVE Rank' < Rank
  <2>1. Live' = Live /\ blocks' = blocks \ {b} /\ b \in blocks
    BY <1>11, LiveMerge
  <2>2. UNCHANGED <<pc, CallsToErase, Preds>>
    BY <1>11 DEF Merge
  <2>3. Cardinality(blocks') \in Nat /\ Cardinality(blocks') < Cardinality(blocks)
    BY <1>2, <2>1, Fewer
  <2>4. CodeLeft' < CodeLeft
    BY <1>2, <2>1, <2>2, <2>3 DEF CodeLeft
  <2> QED
    BY <1>6, <2>2, <2>4
<1> QED
  BY <1>7, <1>8, <1>9, <1>10, <1>11 DEF Next, Return

(* The loops of eraseDeadSliceInstructions, cleanupDeadInstructions and     *)
(* simplifyCFG, and the removal of all checks, come to an end: a step that  *)
(* changes anything leaves less to do.                                      *)
THEOREM EveryStepShrinks == Spec => LoopsShrink
<1>1. TInv => Bounded
  BY Sizes DEF Bounded
<1>2. TInv /\ Bounded' /\ [Next]_vars => [Rank' < Rank]_vars
  BY RankFalls
<1> QED
  BY <1>1, <1>2, TypeInvariance, PTL DEF Spec, LoopsShrink

-----------------------------------------------------------------------------
(* Layer 2: what removal takes away, in functions as sanitizers leave them. *)
(* Between two steps every block can be reached, but for a report block     *)
(* that is being bypassed; work that keeps a block from being taken for     *)
(* sanitizer code stays where it is; and no check and no runtime call gets  *)
(* into a slice as the operand of something.                                *)

EntryInv ==
    /\ EntryBlock \in blocks
    /\ \E i \in InstsOf(EntryBlock) : ClassOf(i) = "effect"

Works(S) == \E i \in S : ClassOf(i) = "effect"
Serves(S) == \E i \in S : ClassOf(i) = "runtime"

WorkInv == \A b \in blocks : Serves(InstsOf(b)) => Works(InstsOf(b))

ReachInv == \A b \in blocks : b \in Reachable \/ (pc = "redirect" /\ b = Rep)

PhiValues(inc, i) == {inc[i][q] : q \in DOMAIN inc[i]}

ValuesInv ==
    /\ DOMAIN incoming = DOMAIN prog.incoming
    /\ \A i \in DOMAIN incoming : PhiValues(incoming, i) \subseteq PhiValues(prog.incoming, i)
    /\ \A b \in Blocks : term[b].cond \in {None} \cup {prog.term[c].cond : c \in Blocks}

SliceInv ==
    pc \in {"bypass", "redirect", "dead"} =>
        \A i \in Slice.insts : ClassOf(i) \in {"check", "runtime", "effect"} => i = CB

CallInv ==
    /\ CallsToErase \subseteq Live
    /\ pc \in {"bypass", "redirect"} => CB \in Live /\ CB \in prog.marked \ CallsToErase
    /\ pc = "redirect" => \A i \in InstsOf(Rep) : isSanitizerOnlyInstruction(i) /\ (isCheck(i) => i = CB)
    /\ pc = "dead" => CB \notin Live
    /\ Removed = Cardinality(prog.marked \ Live)

KeptInv ==
    /\ AsInstrumented(prog)
    /\ EntryInv
    /\ WorkInv
    /\ ReachInv
    /\ ValuesInv
    /\ SliceInv
    /\ CallInv
    /\ Observable \subseteq Live

\* What is not observable.
Quiet(i) == ClassOf(i) \notin {"effect", "runtime"} /\ (isCheck(i) => i \in prog.marked)

LEMMA KeptInit == Init /\ AsInstrumented(prog) => KeptInv
<1> SUFFICES ASSUME Init, AsInstrumented(prog) PROVE KeptInv
  OBVIOUS
<1>1. /\ blocks = prog.blocks /\ body = prog.body /\ term = prog.term /\ prog \in Programs
      /\ incoming = prog.incoming
      /\ pc = "next" /\ CallsToErase = prog.marked /\ Removed = 0 /\ Slice.insts = {}
  BY DEF Init
<1>2. IsFunction(prog)
  BY <1>1, ProgramFacts
<1>3. EntryInv /\ WorkInv
  BY <1>1, <1>2 DEF EntryInv, WorkInv, Works, Serves, InstsOf, ClassOf, AsInstrumented, IsFunction
<1>4. ReachInv
  BY <1>1 DEF ReachInv, Reachable, AsInstrumented
<1>5. ValuesInv
  BY <1>1 DEF ValuesInv
<1>6. Live = UNION {ToSet(prog.body[b]) : b \in prog.blocks}
  BY <1>1 DEF Live, InstsOf
<1>7. prog.marked \subseteq Live
  BY <1>2, <1>6 DEF IsFunction
<1>8. Cardinality(prog.marked \ Live) = 0
  <2>1. prog.marked \ Live = {}
    BY <1>7
  <2> QED
    BY <2>1, FS_EmptySet
<1>9. CallInv
  BY <1>1, <1>7, <1>8 DEF CallInv
<1>10. Observable \subseteq Live
  BY <1>6 DEF Observable, Code0
<1>11. SliceInv
  BY <1>1 DEF SliceInv
<1> QED
  BY <1>3, <1>4, <1>5, <1>9, <1>10, <1>11 DEF KeptInv

\* The values of checks and of runtime calls are not used.
LEMMA NotUsed ==
    ASSUME TypeOK, AsInstrumented(prog), ValuesInv, NEW v \in Insts,
           ClassOf(v) \in {"check", "invoke", "runtime"}
    PROVE  /\ \A i \in Insts : v \notin Operands(i)
           /\ \A b \in Blocks : term[b].cond # v
<1>1. /\ \A i \in Insts : v \notin prog.uses[i]
      /\ \A i \in DOMAIN prog.incoming : \A q \in DOMAIN prog.incoming[i] : prog.incoming[i][q] # v
      /\ \A b \in Blocks : prog.term[b].cond # v
      /\ \A i \in Insts : ClassOf(i) = "phi" => i \in DOMAIN prog.incoming
  BY DEF AsInstrumented, ClassOf
<1>2. \A i \in DOMAIN prog.incoming : v \notin PhiValues(prog.incoming, i)
  BY <1>1 DEF PhiValues
<1>3. \A i \in DOMAIN incoming : v \notin PhiValues(incoming, i)
  BY <1>2 DEF ValuesInv
<1>4. \A i \in Insts : v \notin Operands(i)
  <2> TAKE i \in Insts
  <2>1. CASE ClassOf(i) = "phi"
    <3>1. i \in DOMAIN incoming
      BY <1>1, <2>1 DEF ValuesInv
    <3>2. Operands(i) = PhiValues(incoming, i) \ {None}
      BY <2>1 DEF Operands, PhiValues
    <3> QED
      BY <1>3, <3>1, <3>2
  <2>2. CASE ClassOf(i) # "phi"
    BY <1>1, <2>2 DEF Operands
  <2> QED
    BY <2>1, <2>2
<1>5. ASSUME NEW b \in Blocks PROVE term[b].cond # v
  <2>1. None \notin Insts
    BY ProgramsAssumption
  <2>2. term[b].cond \in {None} \cup {prog.term[c].cond : c \in Blocks}
    BY DEF ValuesInv
  <2> QED
    BY <1>1, <2>1, <2>2
<1> QED
  BY <1>4, <1>5

\* The check is the only check in its slice, but for the invokes that guard
\* it, and no work of the program or the runtime is in it.
LEMMA SliceIsOwn ==
    ASSUME TInv, AsInstrumented(prog), ValuesInv, WorkInv, NEW i \in Insts, NEW Cut
    PROVE  \A j \in collectCheckSlice(i, Cut).insts : ClassOf(j) \in {"check", "runtime", "effect"} => j = i
<1>0. TypeOK /\ blocks \subseteq Blocks
  BY DEF TInv, TypeOK
<1>1. Live \subseteq Insts /\ \A b \in Blocks : InstsOf(b) \subseteq Insts
  BY <1>0, LiveInsts
<1>2. \A o \in Sources : ClassOf(o) \notin {"check", "runtime", "effect"}
  BY <1>0, <1>1, NotUsed DEF Sources, isSanitizerOnlyInstruction
<1>3. \A S, C : \A o \in Backward(S, C) : o \in S \/ o \in Sources
  BY Zenon DEF Backward
<1>4. ASSUME NEW p \in Blocks, NEW o \in TerminatorInst(p) PROVE ClassOf(o) \notin {"check", "runtime", "effect"}
  <2>1. CASE o = term[p].cond
    <3>1. o \in Insts
      BY <1>1 DEF TerminatorInst
    <3>2. ClassOf(o) \notin {"check", "runtime"}
      BY <1>0, <2>1, <3>1, NotUsed
    <3> QED
      BY <3>2 DEF TerminatorInst, isSanitizerOnlyInstruction
  <2>2. CASE ClassOf(o) = "invoke"
    BY <2>2
  <2> QED
    BY <2>1, <2>2 DEF TerminatorInst
<1>5. ASSUME NEW b \in blocks, isSanitizerOnlyBlock(b, i), NEW j \in InstsOf(b),
             ClassOf(j) \in {"check", "runtime", "effect"}
      PROVE  j = i
  <2>1. ~Works(InstsOf(b))
    BY <1>5 DEF isSanitizerOnlyBlock, isSanitizerOnlyInstruction, Works
  <2>2. ~Serves(InstsOf(b))
    BY <2>1 DEF WorkInv
  <2>3. ClassOf(j) \notin {"runtime", "effect"}
    BY <2>1, <2>2 DEF Works, Serves
  <2> QED
    BY <1>5, <2>3 DEF isSanitizerOnlyBlock, isCheck
<1> DEFINE Walk == SliceWalk(i)
           SliceBlocks == {b \in Walk : isSanitizerOnlyBlock(b, i)}
           Guards == {p \in UNION {predecessors(b) : b \in Walk} : isSanitizerOnlyTerminator(p)}
           Ends == UNION {TerminatorInst(p) : p \in Guards}
<1>6. collectCheckSlice(i, Cut).insts =
          Backward({i}, {}) \cup Backward(Ends, Cut) \cup UNION {InstsOf(b) : b \in SliceBlocks}
  BY DEF collectCheckSlice
<1>7. \A b \in SliceBlocks : b \in blocks /\ isSanitizerOnlyBlock(b, i)
  BY DEF SliceWalk
<1>8. \A o \in Ends : ClassOf(o) \notin {"check", "runtime", "effect"}
  <2>1. \A p \in Guards : p \in Blocks
    BY <1>0 DEF predecessors
  <2> QED
    BY <1>4, <2>1
<1> HIDE DEF SliceBlocks, Ends
<1> TAKE j \in collectCheckSlice(i, Cut).insts
<1> HAVE ClassOf(j) \in {"check", "runtime", "effect"}
<1>9. CASE j \in Backward({i}, {})
  BY <1>2, <1>3, <1>9
<1>10. CASE j \in Backward(Ends, Cut)
  BY <1>2, <1>3, <1>8, <1>10
<1>11. CASE j \in UNION {InstsOf(b) : b \in SliceBlocks}
  BY <1>5, <1>7, <1>11
<1> QED
  BY <1>6, <1>9, <1>10, <1>11

\* Ways that are left when one block is left out: if what led to it, and what
\* it led to, is now reached from p.
LEMMA ReachWithout ==
    ASSUME NEW t, NEW tt, NEW p \in Blocks, NEW r \in Blocks, p # r,
           \A c \in Blocks \ {p, r} : tt[c] = t[c],
           ToSet(t[p].to) \subseteq {r} \cup ToSet(tt[p].to),
           ToSet(t[r].to) \subseteq ToSet(tt[p].to),
           tt[r] = t[r]
    PROVE  ReachFrom(t, {EntryBlock}) \ {r} \subseteq ReachFrom(tt, {EntryBlock})
<1> SUFFICES ASSUME NEW b \in ReachFrom(t, {EntryBlock}), b # r,
                    NEW C \in SUBSET Blocks, EntryBlock \in C,
                    \A c \in C : ToSet(tt[c].to) \subseteq C
             PROVE  b \in C
  BY DEF ReachFrom
<1>1. CASE p \in C
  <2>1. PICK D : D = C \cup {r}
    OBVIOUS
  <2>2. D \in SUBSET Blocks /\ {EntryBlock} \subseteq D
    BY <2>1
  <2>3. ASSUME NEW c \in D PROVE ToSet(t[c].to) \subseteq D
    <3>1. CASE c = p
      BY <1>1, <2>1, <3>1
    <3>2. CASE c = r
      BY <1>1, <2>1, <3>2
    <3>3. CASE c \in Blocks \ {p, r}
      <4>1. c \in C /\ tt[c] = t[c]
        BY <2>1, <3>3
      <4> QED
        BY <2>1, <4>1
    <3> QED
      BY <2>2, <3>1, <3>2, <3>3
  <2>4. b \in D
    BY <2>2, <2>3 DEF ReachFrom
  <2> QED
    BY <2>1, <2>4
<1>2. CASE p \notin C
  <2>1. \A c \in C : tt[c] = t[c]
    BY <1>2
  <2>2. \A c \in C : ToSet(t[c].to) \subseteq C
    BY <2>1
  <2>3. {EntryBlock} \subseteq C
    OBVIOUS
  <2> QED
    BY <2>2, <2>3 DEF ReachFrom
<1> QED
  BY <1>1, <1>2

LEMMA ValuesKept ==
    ASSUME ValuesInv, prog' = prog, NEW inc, inc = incoming', DOMAIN inc = DOMAIN incoming,
           \A i \in DOMAIN incoming : PhiValues(inc, i) \subseteq PhiValues(incoming, i),
           \A b \in Blocks : term'[b].cond \in {None} \cup {term[c].cond : c \in Blocks}
    PROVE  ValuesInv'
<1>1. \A i \in DOMAIN incoming : PhiValues(inc, i) \subseteq PhiValues(prog.incoming, i)
  BY DEF ValuesInv
<1>2. \A i : PhiValues(prog.incoming, i)' = PhiValues(prog.incoming, i) /\ PhiValues(incoming, i)' = PhiValues(inc, i)
  BY DEF PhiValues
<1>3. \A b \in Blocks : term'[b].cond \in {None} \cup {prog.term[c].cond : c \in Blocks}
  BY DEF ValuesInv
<1> QED
  BY <1>1, <1>2, <1>3 DEF ValuesInv

LEMMA KeepValues ==
    ASSUME NEW inc, NEW b, NEW P
    PROVE  /\ DOMAIN KeepIncoming(inc, b, P) = DOMAIN inc
           /\ \A i \in DOMAIN inc : PhiValues(KeepIncoming(inc, b, P), i) \subseteq PhiValues(inc, i)
<1>1. DOMAIN KeepIncoming(inc, b, P) = DOMAIN inc
  BY DEF KeepIncoming
<1>2. ASSUME NEW i \in DOMAIN inc PROVE PhiValues(KeepIncoming(inc, b, P), i) \subseteq PhiValues(inc, i)
  <2>1. CASE i \in InstsOf(b)
    <3>1. KeepIncoming(inc, b, P)[i] = [p \in DOMAIN inc[i] \cap (P \cup {None}) |-> inc[i][p]]
      BY <2>1 DEF KeepIncoming
    <3> QED
      BY <3>1 DEF PhiValues
  <2>2. CASE i \notin InstsOf(b)
    BY <2>2 DEF PhiValues, KeepIncoming
  <2> QED
    BY <2>1, <2>2
<1> QED
  BY <1>1, <1>2

\* Erasing a marked check, or an instruction that is nobody's work.
LEMMA EraseKeeps ==
    ASSUME TInv, KeptInv, NEW i \in Live, Quiet(i), body' = WithoutInst(i),
           UNCHANGED <<prog, blocks, term, incoming>>
    PROVE  /\ EntryInv' /\ WorkInv' /\ ValuesInv' /\ Live' = Live \ {i}
           /\ (Observable \subseteq Live)'
           /\ Reachable' = Reachable
<1>1. PICK B : B = body'
  OBVIOUS
<1>2. body \in [Blocks -> Seq(Insts)] /\ blocks \subseteq Blocks /\ PlacedIn(blocks, body)
  BY DEF TInv, TypeOK
<1>3. \A b \in Blocks : /\ ToSet(B[b]) \subseteq ToSet(body[b])
                        /\ ToSet(body[b]) \ {i} \subseteq ToSet(B[b])
  BY <1>1, <1>2, WithoutFacts
<1>4. \A b : InstsOf(b)' = ToSet(B[b]) /\ InstsOf(b) = ToSet(body[b])
  BY <1>1 DEF InstsOf
<1>5. \A j : ClassOf(j)' = ClassOf(j)
  BY DEF ClassOf
<1>6. EntryBlock \in blocks /\ \E j \in InstsOf(EntryBlock) : ClassOf(j) = "effect"
  BY DEF KeptInv, EntryInv
<1>7. ClassOf(i) \notin {"effect", "runtime"}
  BY DEF Quiet
<1>8. EntryInv'
  <2>1. PICK j \in InstsOf(EntryBlock) : ClassOf(j) = "effect"
    BY <1>6
  <2>2. j # i /\ EntryBlock \in Blocks
    BY <1>2, <1>6, <1>7, <2>1
  <2>3. j \in InstsOf(EntryBlock)'
    BY <1>3, <1>4, <2>1, <2>2
  <2> QED
    BY <1>5, <1>6, <2>1, <2>3 DEF EntryInv
<1>9. WorkInv'
  <2> SUFFICES ASSUME NEW b \in blocks, Serves(InstsOf(b))' PROVE Works(InstsOf(b))'
    BY DEF WorkInv
  <2>1. PICK k \in InstsOf(b)' : ClassOf(k) = "runtime"
    BY <1>5 DEF Serves
  <2>2. k \in InstsOf(b) /\ b \in Blocks
    BY <1>2, <1>3, <1>4, <2>1
  <2>3. PICK j \in InstsOf(b) : ClassOf(j) = "effect"
    BY <2>1, <2>2 DEF KeptInv, WorkInv, Works, Serves
  <2>4. j \in InstsOf(b)'
    BY <1>3, <1>4, <1>7, <2>2, <2>3
  <2> QED
    BY <1>5, <2>3, <2>4 DEF Works
<1>10. ValuesInv'
  <2>1. \A j : PhiValues(incoming, j)' = PhiValues(incoming, j) /\ PhiValues(prog.incoming, j)' = PhiValues(prog.incoming, j)
    BY DEF PhiValues
  <2> QED
    BY <2>1 DEF KeptInv, ValuesInv
<1>11. Live' = Live \ {i}
  BY LiveWithout
<1>12. (Observable \subseteq Live)'
  <2>1. Observable' = Observable
    BY DEF Observable, Code0, isCheck, ClassOf
  <2>2. i \notin Observable
    BY DEF Quiet, Observable
  <2> QED
    BY <1>11, <2>1, <2>2 DEF KeptInv
<1>13. Reachable' = Reachable
  BY DEF Reachable
<1> QED
  BY <1>8, <1>9, <1>10, <1>11, <1>12, <1>13

LEMMA SameCode ==
    ASSUME KeptInv, UNCHANGED <<prog, blocks, body>>
    PROVE  /\ AsInstrumented(prog)' /\ EntryInv' /\ WorkInv' /\ (Observable \subseteq Live)'
           /\ Live' = Live /\ \A b : InstsOf(b)' = InstsOf(b)
           /\ \A i : ClassOf(i)' = ClassOf(i) /\ isCheck(i)' = isCheck(i)
<1>1. \A b : InstsOf(b)' = InstsOf(b)
  BY DEF InstsOf
<1>2. \A i : ClassOf(i)' = ClassOf(i) /\ isCheck(i)' = isCheck(i)
  BY DEF ClassOf, isCheck
<1>3. Live' = Live
  BY <1>1 DEF Live
<1>4. AsInstrumented(prog)'
  BY DEF KeptInv, AsInstrumented
<1>5. EntryInv'
  BY <1>1, <1>2 DEF KeptInv, EntryInv
<1>6. WorkInv'
  BY <1>1, <1>2 DEF KeptInv, WorkInv, Works, Serves
<1>7. Observable' = Observable
  BY <1>2 DEF Observable, Code0
<1> QED
  BY <1>1, <1>2, <1>3, <1>4, <1>5, <1>6, <1>7 DEF KeptInv

\* The IR is as it was.
LEMMA SameIR ==
    ASSUME KeptInv, UNCHANGED <<prog, ir>>
    PROVE  /\ UNCHANGED <<prog, blocks, body, term, incoming>>
           /\ ValuesInv' /\ Reachable' = Reachable
           /\ CB' = CB => Rep' = Rep
<1>1. UNCHANGED <<prog, blocks, body, term, incoming>>
  BY DEF ir
<1>2. ValuesInv'
  BY <1>1 DEF KeptInv, ValuesInv, PhiValues
<1>3. Reachable' = Reachable
  BY <1>1 DEF Reachable
<1>4. CB' = CB => Rep' = Rep
  BY <1>1 DEF Rep, BlockOf, InstsOf
<1> QED
  BY <1>1, <1>2, <1>3, <1>4

LEMMA KeptRests ==
    ASSUME KeptInv, UNCHANGED <<prog, ir, CallsToErase, Removed>>,
           pc # "redirect", pc' \notin {"bypass", "redirect", "dead"}
    PROVE  KeptInv'
<1>1. UNCHANGED <<prog, blocks, body>>
  BY DEF ir
<1>2. /\ AsInstrumented(prog)' /\ EntryInv' /\ WorkInv' /\ (Observable \subseteq Live)' /\ Live' = Live
  BY <1>1, SameCode
<1>3. ValuesInv' /\ Reachable' = Reachable
  BY SameIR
<1>4. ReachInv'
  BY <1>1, <1>3 DEF KeptInv, ReachInv
<1>5. CallInv'
  BY <1>2 DEF KeptInv, CallInv
<1> QED
  BY <1>2, <1>3, <1>4, <1>5 DEF KeptInv, SliceInv

LEMMA KeptTake ==
    ASSUME TInv, KeptInv, NEW i \in Insts, TakeCall(i)
    PROVE  KeptInv'
<1>1. /\ pc = "next" /\ i \in CallsToErase /\ CallsToErase' = CallsToErase \ {i} /\ CB' = i
      /\ pc' = "bypass" /\ UNCHANGED <<prog, ir, Preds, Removed>>
      /\ \E Cut : Slice' = collectCheckSlice(i, Cut)
  BY DEF TakeCall
<1>2. UNCHANGED <<prog, blocks, body>>
  BY <1>1 DEF ir
<1>3. /\ AsInstrumented(prog)' /\ EntryInv' /\ WorkInv' /\ (Observable \subseteq Live)' /\ Live' = Live
      /\ \A j : ClassOf(j)' = ClassOf(j)
  BY <1>2, SameCode
<1>4. ValuesInv' /\ Reachable' = Reachable
  BY <1>1, SameIR
<1>5. ReachInv'
  BY <1>1, <1>2, <1>4 DEF KeptInv, ReachInv
<1>6. CallsToErase \subseteq Live /\ CallsToErase \subseteq prog.marked
  BY DEF TInv, TypeOK, KeptInv, CallInv
<1>7. CallInv'
  BY <1>1, <1>2, <1>3, <1>6 DEF KeptInv, CallInv
<1>8. \A j \in Slice'.insts : ClassOf(j) \in {"check", "runtime", "effect"} => j = i
  BY <1>1, SliceIsOwn DEF KeptInv
<1>9. SliceInv'
  BY <1>1, <1>3, <1>8 DEF SliceInv
<1> QED
  BY <1>3, <1>4, <1>5, <1>7, <1>9 DEF KeptInv

LEMMA KeptStartBypass ==
    ASSUME KeptInv, StartBypass
    PROVE  KeptInv'
<1>1. /\ pc = "bypass" /\ canBypass(CB) /\ pc' = "redirect"
      /\ UNCHANGED <<prog, ir, CallsToErase, CB, Slice, Removed>>
  BY DEF StartBypass
<1>2. UNCHANGED <<prog, blocks, body>>
  BY <1>1 DEF ir
<1>3. /\ AsInstrumented(prog)' /\ EntryInv' /\ WorkInv' /\ (Observable \subseteq Live)' /\ Live' = Live
      /\ \A b : InstsOf(b)' = InstsOf(b)
      /\ \A i : ClassOf(i)' = ClassOf(i) /\ isCheck(i)' = isCheck(i)
  BY <1>2, SameCode
<1>4. ValuesInv' /\ Reachable' = Reachable /\ Rep' = Rep
  BY <1>1, SameIR
<1>5. ReachInv'
  BY <1>1, <1>2, <1>4 DEF KeptInv, ReachInv
<1>6. \A i \in InstsOf(Rep) : isSanitizerOnlyInstruction(i) /\ (isCheck(i) => i = CB)
  BY <1>1 DEF canBypass, isSanitizerOnlyBlock, Rep
<1>7. \A i \in InstsOf(Rep)' : isSanitizerOnlyInstruction(i)' /\ (isCheck(i)' => i = CB)
  BY <1>3, <1>4, <1>6 DEF isSanitizerOnlyInstruction
<1>8. CallInv'
  BY <1>1, <1>2, <1>3, <1>7 DEF KeptInv, CallInv
<1>9. SliceInv'
  BY <1>1, <1>3 DEF KeptInv, SliceInv
<1> QED
  BY <1>3, <1>4, <1>5, <1>8, <1>9 DEF KeptInv

\* A branch that is redirected closes no way but the one through the report
\* block, which goes on to the same place.
LEMMA KeptRedirect ==
    ASSUME TInv, KeptInv, NEW p \in Blocks, Redirect(p)
    PROVE  KeptInv'
<1>1. /\ pc = "redirect" /\ pc' = pc /\ p \in Preds
      /\ term' = [term EXCEPT ![p] = [op |-> "br", cond |-> None, to |-> <<SafeSucc(p, Rep)>>]]
      /\ incoming' = KeepIncoming(incoming, Rep, predecessors(Rep) \ {p})
      /\ UNCHANGED <<prog, blocks, body, CallsToErase, CB, Slice, Removed>>
  BY DEF Redirect, Rep
<1>2. /\ predecessors(Rep) = Preds /\ Rep \notin Preds
      /\ term[Rep].op \in {"br", "unreachable"}
      /\ canRedirect(p, Rep)
      /\ term \in [Blocks -> Terminators] /\ Arity(term) /\ blocks \subseteq Blocks
  BY <1>1 DEF TInv, TypeOK, BypassInv
<1>3. /\ AsInstrumented(prog)' /\ EntryInv' /\ WorkInv' /\ (Observable \subseteq Live)' /\ Live' = Live
      /\ \A b : InstsOf(b)' = InstsOf(b)
      /\ \A i : ClassOf(i)' = ClassOf(i) /\ isCheck(i)' = isCheck(i)
  BY <1>1, SameCode
<1>4. Rep' = Rep
  BY <1>1, <1>3 DEF Rep, BlockOf
<1>5. PICK R \in Blocks : R = Rep
  BY <1>1, <1>2, Targets DEF predecessors
<1>6. PICK S \in Blocks : S = SafeSucc(p, R) /\ S # R
  BY <1>1, <1>2, <1>5, SafeTarget
<1>7. PICK t : t = term'
  OBVIOUS
<1>8. t = [term EXCEPT ![p] = [op |-> "br", cond |-> None, to |-> <<S>>]]
  BY <1>1, <1>5, <1>6, <1>7
<1>9. /\ t[p].to = <<S>> /\ t[p].cond = None /\ DOMAIN t = Blocks
      /\ \A q \in Blocks \ {p} : t[q] = term[q]
  BY <1>2, <1>8
<1>10. ToSet(t[p].to) = {S}
  <2>1. Len(<<S>>) = 1 /\ <<S>>[1] = S /\ DOMAIN <<S>> = {1}
    OBVIOUS
  <2> QED
    BY <1>9, <2>1 DEF ToSet
<1>11. p # R /\ canRedirect(p, R) /\ R \in Succs(p)
  BY <1>1, <1>2, <1>5 DEF predecessors
<1>12. Succs(R) \subseteq {S}
  <2>1. CASE term[R].op = "br"
    <3>1. Fallthrough(R) = term[R].to[1] /\ Succs(R) = {term[R].to[1]} /\ term[R].to[1] # None
      BY <1>2, <2>1, Targets, ProgramsAssumption DEF Fallthrough
    <3> QED
      BY <1>6, <3>1 DEF SafeSucc
  <2>2. CASE term[R].op = "unreachable"
    BY <1>2, <2>2, Targets
  <2> QED
    BY <1>2, <1>5, <2>1, <2>2
<1>13. Succs(p) \subseteq {R, S}
  <2>1. CASE term[p].op = "br"
    BY <1>2, <1>11, <2>1, Targets
  <2>2. CASE term[p].op = "cbr"
    <3>1. Succs(p) = {term[p].to[1], term[p].to[2]}
      BY <1>2, <2>2, Targets
    <3>2. Succs(p) \subseteq {R, OtherSucc(p, R)}
      BY <1>11, <3>1 DEF OtherSucc
    <3>3. OtherSucc(p, R) = S
      BY <1>6, <1>11, <2>2 DEF canRedirect, SafeSucc
    <3> QED
      BY <3>2, <3>3
  <2> QED
    BY <1>11, <2>1, <2>2 DEF canRedirect
<1>14. ReachFrom(term, {EntryBlock}) \ {R} \subseteq ReachFrom(t, {EntryBlock})
  <2>1. \A c \in Blocks \ {p, R} : t[c] = term[c]
    BY <1>9
  <2>2. ToSet(term[p].to) \subseteq {R} \cup ToSet(t[p].to) /\ ToSet(term[R].to) \subseteq ToSet(t[p].to)
    BY <1>10, <1>12, <1>13 DEF Succs
  <2>3. t[R] = term[R]
    BY <1>9, <1>11
  <2> QED
    BY <1>11, <2>1, <2>2, <2>3, ReachWithout
<1>15. ReachInv'
  <2>1. Reachable' = ReachFrom(t, {EntryBlock}) /\ Reachable = ReachFrom(term, {EntryBlock})
    BY <1>7 DEF Reachable
  <2> QED
    BY <1>1, <1>4, <1>5, <1>14, <2>1 DEF KeptInv, ReachInv
<1>16. ValuesInv'
  <2>1. PICK inc : inc = incoming'
    OBVIOUS
  <2>2. /\ DOMAIN inc = DOMAIN incoming
        /\ \A i \in DOMAIN incoming : PhiValues(inc, i) \subseteq PhiValues(incoming, i)
    BY <1>1, <2>1, KeepValues
  <2>3. \A b \in Blocks : term'[b].cond \in {None} \cup {term[c].cond : c \in Blocks}
    BY <1>7, <1>9
  <2> QED
    BY <1>1, <2>1, <2>2, <2>3, ValuesKept DEF KeptInv
<1>17. CallInv'
  BY <1>1, <1>3, <1>4 DEF KeptInv, CallInv, isSanitizerOnlyInstruction
<1>18. SliceInv'
  BY <1>1, <1>3 DEF KeptInv, SliceInv
<1> QED
  BY <1>3, <1>15, <1>16, <1>17, <1>18 DEF KeptInv

\* The block that is deleted holds its check, and otherwise nobody's work.
LEMMA KeptDelete ==
    ASSUME TInv, KeptInv, DeleteReportBlock
    PROVE  KeptInv'
<1>1. /\ pc = "redirect" /\ pc' = "cleanup" /\ blocks' = blocks \ {Rep} /\ Removed' = Removed + 1
      /\ incoming' = IF Fallthrough(Rep) = None THEN incoming
                     ELSE KeepIncoming(incoming, Fallthrough(Rep), Blocks \ {Rep})
      /\ UNCHANGED <<prog, body, term, CallsToErase, CB, Slice, Preds>>
  BY DEF DeleteReportBlock, Rep
<1>2. /\ CB \in Live /\ CB \in prog.marked \ CallsToErase
      /\ \A i \in InstsOf(Rep) : isSanitizerOnlyInstruction(i) /\ (isCheck(i) => i = CB)
      /\ CallsToErase \subseteq Live /\ Removed = Cardinality(prog.marked \ Live)
      /\ Observable \subseteq Live
  BY <1>1 DEF KeptInv, CallInv
<1>3. Rep \in blocks /\ CB \in InstsOf(Rep)
  BY <1>2 DEF Live, Rep, BlockOf
<1>4. ~Works(InstsOf(Rep)) /\ ~Serves(InstsOf(Rep))
  <2>1. ~Works(InstsOf(Rep))
    BY <1>2 DEF Works, isSanitizerOnlyInstruction
  <2> QED
    BY <1>3, <2>1 DEF KeptInv, WorkInv
<1>5. (\A b : InstsOf(b)' = InstsOf(b)) /\ (\A i : ClassOf(i)' = ClassOf(i) /\ isCheck(i)' = isCheck(i))
  BY <1>1 DEF InstsOf, ClassOf, isCheck
<1>6. PlacedIn(blocks, body) /\ body \in [Blocks -> Seq(Insts)] /\ blocks \subseteq Blocks
  BY DEF TInv, TypeOK
<1>7. \A b \in blocks : CB \in InstsOf(b) => b = Rep
  BY <1>3, <1>6 DEF PlacedIn, InstsOf, ToSet
<1>8. Live' = UNION {InstsOf(b) : b \in blocks \ {Rep}}
  BY <1>1, <1>5 DEF Live
<1>9. \A i \in Live : i \in Live' \/ i \in InstsOf(Rep)
  BY <1>8 DEF Live
<1>10. Live' \subseteq Live /\ CB \notin Live'
  BY <1>7, <1>8 DEF Live
<1>11. AsInstrumented(prog)'
  BY <1>1 DEF KeptInv, AsInstrumented
<1>12. EntryInv'
  <2>1. EntryBlock # Rep
    BY <1>4 DEF KeptInv, EntryInv, Works
  <2> QED
    BY <1>1, <1>5, <2>1 DEF KeptInv, EntryInv
<1>13. WorkInv'
  BY <1>1, <1>5 DEF KeptInv, WorkInv, Works, Serves
<1>14. ReachInv'
  <2>1. Reachable' = Reachable
    BY <1>1 DEF Reachable
  <2> QED
    BY <1>1, <2>1 DEF KeptInv, ReachInv
<1>15. ValuesInv'
  <2>1. PICK inc : inc = incoming'
    OBVIOUS
  <2>2. /\ DOMAIN inc = DOMAIN incoming
        /\ \A i \in DOMAIN incoming : PhiValues(inc, i) \subseteq PhiValues(incoming, i)
    <3>1. CASE inc = incoming
      BY <3>1
    <3>2. CASE inc = KeepIncoming(incoming, Fallthrough(Rep), Blocks \ {Rep})
      BY <3>2, KeepValues
    <3> QED
      BY <1>1, <2>1, <3>1, <3>2
  <2>3. \A b \in Blocks : term'[b].cond \in {None} \cup {term[c].cond : c \in Blocks}
    BY <1>1
  <2> QED
    BY <1>1, <2>1, <2>2, <2>3, ValuesKept DEF KeptInv
<1>16. \A i \in prog.marked : isCheck(i)
  BY MarkedFacts
<1>17. CallsToErase \subseteq Live'
  <2> SUFFICES ASSUME NEW i \in CallsToErase, i \in InstsOf(Rep) PROVE FALSE
    BY <1>2, <1>9
  <2>1. i \in prog.marked
    BY DEF TInv, TypeOK
  <2> QED
    BY <1>2, <1>16, <2>1
<1>18. Removed' = Cardinality(prog.marked \ Live')
  <2>1. prog.marked \ Live' = (prog.marked \ Live) \cup {CB}
    BY <1>2, <1>9, <1>10, <1>16
  <2>2. IsFiniteSet(prog.marked \ Live)
    <3>1. IsFiniteSet(prog.marked) /\ prog.marked \ Live \subseteq prog.marked
      BY MarkedFacts
    <3> QED
      BY <3>1, FS_Subset
  <2>3. CB \notin prog.marked \ Live
    BY <1>2
  <2>4. Cardinality((prog.marked \ Live) \cup {CB}) = Cardinality(prog.marked \ Live) + 1
    BY <2>2, <2>3, FS_AddElement
  <2> QED
    BY <1>1, <1>2, <2>1, <2>4
<1>19. CallInv'
  BY <1>1, <1>17, <1>18 DEF CallInv
<1>20. (Observable \subseteq Live)'
  <2>1. Observable' = Observable
    BY <1>1, <1>5 DEF Observable, Code0
  <2>2. ASSUME NEW i \in Observable, i \in InstsOf(Rep) PROVE FALSE
    BY <1>2, <1>4, <2>2 DEF Observable, Works, Serves
  <2> QED
    BY <1>2, <1>9, <2>1, <2>2
<1>21. SliceInv'
  BY <1>1 DEF SliceInv
<1> QED
  BY <1>11, <1>12, <1>13, <1>14, <1>15, <1>19, <1>20, <1>21 DEF KeptInv

\* An instruction other than a check and a runtime call goes.
LEMMA KeptErase ==
    ASSUME TInv, KeptInv, NEW i \in Live, ~isCheck(i), ClassOf(i) \notin {"effect", "runtime"},
           body' = WithoutInst(i), pc' = pc, pc \in {"dead", "cleanup", "lastcleanup"},
           UNCHANGED <<prog, blocks, term, incoming, CallsToErase, CB, Slice, Removed>>
    PROVE  KeptInv'
<1>1. Quiet(i)
  BY DEF Quiet
<1>2. /\ EntryInv' /\ WorkInv' /\ ValuesInv' /\ Live' = Live \ {i} /\ (Observable \subseteq Live)'
      /\ Reachable' = Reachable
  BY <1>1, EraseKeeps
<1>3. AsInstrumented(prog)'
  BY DEF KeptInv, AsInstrumented
<1>4. ReachInv'
  BY <1>2 DEF KeptInv, ReachInv
<1>5. i \notin prog.marked /\ CallsToErase \subseteq prog.marked
  BY MarkedFacts DEF TInv, TypeOK
<1>6. prog.marked \ Live' = prog.marked \ Live
  BY <1>2, <1>5
<1>7. CallInv'
  BY <1>2, <1>5, <1>6 DEF KeptInv, CallInv
<1>8. SliceInv'
  BY DEF KeptInv, SliceInv, ClassOf
<1> QED
  BY <1>2, <1>3, <1>4, <1>7, <1>8 DEF KeptInv

LEMMA KeptEraseDirect ==
    ASSUME TInv, KeptInv, EraseDirect
    PROVE  KeptInv'
<1>1. /\ pc = "bypass" /\ pc' = "dead" /\ ClassOf(CB) = "check" /\ body' = WithoutInst(CB)
      /\ Removed' = Removed + 1
      /\ UNCHANGED <<prog, blocks, term, incoming, CallsToErase, CB, Slice, Preds>>
  BY DEF EraseDirect
<1>2. /\ CB \in Live /\ CB \in prog.marked \ CallsToErase
      /\ CallsToErase \subseteq Live /\ Removed = Cardinality(prog.marked \ Live)
  BY <1>1 DEF KeptInv, CallInv
<1>3. Quiet(CB)
  BY <1>1, <1>2 DEF Quiet
<1>4. /\ EntryInv' /\ WorkInv' /\ ValuesInv' /\ Live' = Live \ {CB} /\ (Observable \subseteq Live)'
      /\ Reachable' = Reachable
  BY <1>1, <1>2, <1>3, EraseKeeps
<1>5. AsInstrumented(prog)'
  BY <1>1 DEF KeptInv, AsInstrumented
<1>6. ReachInv'
  BY <1>1, <1>4 DEF KeptInv, ReachInv
<1>7. Removed' = Cardinality(prog.marked \ Live')
  <2>1. prog.marked \ Live' = (prog.marked \ Live) \cup {CB} /\ CB \notin prog.marked \ Live
    BY <1>2, <1>4
  <2>2. IsFiniteSet(prog.marked \ Live)
    <3>1. IsFiniteSet(prog.marked) /\ prog.marked \ Live \subseteq prog.marked
      BY MarkedFacts
    <3> QED
      BY <3>1, FS_Subset
  <2>3. Cardinality((prog.marked \ Live) \cup {CB}) = Cardinality(prog.marked \ Live) + 1
    BY <2>1, <2>2, FS_AddElement
  <2> QED
    BY <1>1, <1>2, <2>1, <2>3
<1>8. CallInv'
  BY <1>1, <1>2, <1>4, <1>7 DEF CallInv
<1>9. SliceInv'
  BY <1>1 DEF KeptInv, SliceInv, ClassOf
<1> QED
  BY <1>4, <1>5, <1>6, <1>8, <1>9 DEF KeptInv

\* No block is given up: all of them can be reached.
LEMMA KeptEliminate ==
    ASSUME TInv, KeptInv, EliminateUnreachableBlocks
    PROVE  KeptInv'
<1>1. /\ pc \in {"cleanup", "lastcleanup"} /\ pc' \in {"merge", "lastmerge"}
      /\ blocks' = blocks \cap Reachable
      /\ incoming' = [i \in DOMAIN incoming |->
                         [p \in DOMAIN incoming[i] \cap (Reachable \cup {None}) |-> incoming[i][p]]]
      /\ UNCHANGED <<prog, body, term, CallsToErase, CB, Slice, Preds, Removed>>
  BY DEF EliminateUnreachableBlocks
<1>2. blocks' = blocks
  BY <1>1 DEF KeptInv, ReachInv
<1>3. /\ AsInstrumented(prog)' /\ EntryInv' /\ WorkInv' /\ (Observable \subseteq Live)' /\ Live' = Live
  BY <1>1, <1>2, SameCode
<1>4. ReachInv'
  <2>1. Reachable' = Reachable
    BY <1>1 DEF Reachable
  <2> QED
    BY <1>1, <1>2, <2>1 DEF KeptInv, ReachInv
<1>5. ValuesInv'
  <2>1. PICK inc : inc = incoming'
    OBVIOUS
  <2>2. /\ DOMAIN inc = DOMAIN incoming
        /\ \A i \in DOMAIN incoming :
              inc[i] = [p \in DOMAIN incoming[i] \cap (Reachable \cup {None}) |-> incoming[i][p]]
    BY <1>1, <2>1
  <2>3. \A i \in DOMAIN incoming : PhiValues(inc, i) \subseteq PhiValues(incoming, i)
    BY <2>2 DEF PhiValues
  <2>4. \A b \in Blocks : term'[b].cond \in {None} \cup {term[c].cond : c \in Blocks}
    BY <1>1
  <2> QED
    BY <1>1, <2>1, <2>2, <2>3, <2>4, ValuesKept DEF KeptInv
<1>6. CallInv'
  BY <1>1, <1>3 DEF KeptInv, CallInv
<1>7. SliceInv'
  BY <1>1 DEF SliceInv
<1> QED
  BY <1>3, <1>4, <1>5, <1>6, <1>7 DEF KeptInv

LEMMA KeptMerge ==
    ASSUME TInv, KeptInv, NEW b \in Blocks, Merge(b)
    PROVE  KeptInv'
<1>1. PICK p : p = CHOOSE q \in blocks : predecessors(b) = {q}
  OBVIOUS
<1>2. /\ pc \in {"merge", "lastmerge"} /\ b \in blocks /\ canMerge(b)
      /\ blocks' = blocks \ {b} /\ body' = [body EXCEPT ![p] = body[p] \o body[b]]
      /\ term' = [term EXCEPT ![p] = term[b]]
      /\ incoming' = [i \in DOMAIN incoming |->
             IF i \in InstsOf(b) /\ p \in DOMAIN incoming[i]
             THEN [q \in {None} |-> incoming[i][p]]
             ELSE IF b \in DOMAIN incoming[i]
             THEN [q \in (DOMAIN incoming[i] \ {b}) \cup {p} |->
                      incoming[i][IF q = p THEN b ELSE q]]
             ELSE incoming[i]]
      /\ UNCHANGED <<prog, pc, CallsToErase, CB, Slice, Preds, Removed>>
  BY <1>1 DEF Merge
<1>3. p \in blocks /\ p # b /\ b # EntryBlock /\ predecessors(b) = {p} /\ Succs(p) = {b}
  BY <1>1, <1>2 DEF canMerge
<1>4. /\ body \in [Blocks -> Seq(Insts)] /\ blocks \subseteq Blocks /\ PlacedIn(blocks, body)
      /\ term \in [Blocks -> Terminators]
  BY DEF TInv, TypeOK
<1>5. PICK B : B = body'
  OBVIOUS
<1>6. /\ ToSet(B[p]) = ToSet(body[p]) \cup ToSet(body[b])
      /\ \A c \in Blocks \ {p} : B[c] = body[c]
  BY <1>2, <1>3, <1>4, <1>5, MergeFacts
<1>7. /\ InstsOf(p)' = InstsOf(p) \cup InstsOf(b)
      /\ \A c \in blocks \ {p} : InstsOf(c)' = InstsOf(c)
  BY <1>4, <1>5, <1>6 DEF InstsOf
<1>8. \A i : ClassOf(i)' = ClassOf(i) /\ isCheck(i)' = isCheck(i)
  BY <1>2 DEF ClassOf, isCheck
<1>9. Live' = Live
  BY LiveMerge
<1>10. AsInstrumented(prog)'
  BY <1>2 DEF KeptInv, AsInstrumented
<1>11. EntryInv'
  <2>1. InstsOf(EntryBlock) \subseteq InstsOf(EntryBlock)'
    BY <1>7 DEF KeptInv, EntryInv
  <2> QED
    BY <1>2, <1>3, <1>8, <2>1 DEF KeptInv, EntryInv
<1>12. WorkInv'
  <2> SUFFICES ASSUME NEW c \in blocks \ {b}, Serves(InstsOf(c))' PROVE Works(InstsOf(c))'
    BY <1>2 DEF WorkInv
  <2>1. CASE c = p
    <3>1. Serves(InstsOf(p)) \/ Serves(InstsOf(b))
      BY <1>7, <1>8, <2>1 DEF Serves
    <3>2. Works(InstsOf(p)) \/ Works(InstsOf(b))
      BY <1>2, <1>3, <3>1 DEF KeptInv, WorkInv
    <3> QED
      BY <1>7, <1>8, <2>1, <3>2 DEF Works
  <2>2. CASE c # p
    BY <1>7, <1>8, <2>2 DEF KeptInv, WorkInv, Works, Serves
  <2> QED
    BY <2>1, <2>2
<1>13. ReachInv'
  <2>1. PICK t : t = term'
    OBVIOUS
  <2>2. t[p] = term[b] /\ \A c \in Blocks \ {p} : t[c] = term[c]
    BY <1>2, <1>3, <1>4, <2>1
  <2>3. ToSet(term[p].to) \subseteq {b} \cup ToSet(t[p].to) /\ ToSet(term[b].to) \subseteq ToSet(t[p].to)
    BY <1>3, <2>2 DEF Succs
  <2>4. p \in Blocks /\ t[b] = term[b] /\ \A c \in Blocks \ {p, b} : t[c] = term[c]
    BY <1>3, <1>4, <2>2
  <2>5. ReachFrom(term, {EntryBlock}) \ {b} \subseteq ReachFrom(t, {EntryBlock})
    BY <1>3, <2>3, <2>4, ReachWithout
  <2>6. Reachable' = ReachFrom(t, {EntryBlock}) /\ Reachable = ReachFrom(term, {EntryBlock})
    BY <2>1 DEF Reachable
  <2> QED
    BY <1>2, <2>5, <2>6 DEF KeptInv, ReachInv
<1>14. ValuesInv'
  <2>1. PICK inc : inc = incoming'
    OBVIOUS
  <2>2. DOMAIN inc = DOMAIN incoming
    BY <1>2, <2>1
  <2>3. ASSUME NEW i \in DOMAIN incoming PROVE PhiValues(inc, i) \subseteq PhiValues(incoming, i)
    <3>1. CASE p \in DOMAIN incoming[i] /\ inc[i] = [q \in {None} |-> incoming[i][p]]
      BY <3>1 DEF PhiValues
    <3>2. CASE b \in DOMAIN incoming[i] /\ inc[i] = [q \in (DOMAIN incoming[i] \ {b}) \cup {p} |->
                                                     incoming[i][IF q = p THEN b ELSE q]]
      BY <3>2 DEF PhiValues
    <3>3. CASE inc[i] = incoming[i]
      BY <3>3 DEF PhiValues
    <3> QED
      BY <1>2, <2>1, <3>1, <3>2, <3>3
  <2>4. \A c \in Blocks : term'[c].cond \in {None} \cup {term[d].cond : d \in Blocks}
    BY <1>2, <1>4
  <2> QED
    BY <1>2, <2>1, <2>2, <2>3, <2>4, ValuesKept DEF KeptInv
<1>15. CallInv'
  BY <1>2, <1>9 DEF KeptInv, CallInv
<1>16. SliceInv'
  BY <1>2 DEF SliceInv
<1>17. (Observable \subseteq Live)'
  <2>1. Observable' = Observable
    BY <1>2, <1>8 DEF Observable, Code0
  <2> QED
    BY <1>9, <2>1 DEF KeptInv
<1> QED
  BY <1>10, <1>11, <1>12, <1>13, <1>14, <1>15, <1>16, <1>17 DEF KeptInv

LEMMA KeptNext == TInv /\ KeptInv /\ [Next]_vars => KeptInv'
<1> SUFFICES ASSUME TInv, KeptInv, [Next]_vars PROVE KeptInv'
  OBVIOUS
<1>1. ASSUME NEW i \in Insts, EraseDead(i) PROVE KeptInv'
  <2>1. /\ pc = "dead" /\ i \in Slice.insts /\ i \in Live /\ ClassOf(i) \notin {"invoke", "asm"} /\ UseEmpty(i)
        /\ body' = WithoutInst(i)
        /\ UNCHANGED <<prog, blocks, term, incoming, pc, CallsToErase, CB, Slice, Removed>>
    BY <1>1 DEF EraseDead, canEraseInstruction
  <2>2. i # CB
    BY <2>1 DEF KeptInv, CallInv
  <2>3. ClassOf(i) \notin {"check", "runtime", "effect"}
    BY <2>1, <2>2 DEF KeptInv, SliceInv
  <2> QED
    BY <2>1, <2>3, KeptErase DEF isCheck
<1>2. ASSUME NEW i \in Insts, CleanUp(i) PROVE KeptInv'
  <2>1. /\ pc \in {"cleanup", "lastcleanup"} /\ i \in Live /\ ClassOf(i) \in {"pure", "load", "phi"}
        /\ body' = WithoutInst(i)
        /\ UNCHANGED <<prog, blocks, term, incoming, pc, CallsToErase, CB, Slice, Removed>>
    BY <1>2 DEF CleanUp, isInstructionTriviallyDead
  <2> QED
    BY <2>1, KeptErase DEF isCheck
<1>3. CASE Refuse \/ SliceErased \/ Merged \/ LastCleanup
  <2>1. pc # "redirect" /\ pc' \notin {"bypass", "redirect", "dead"}
    BY <1>3 DEF Refuse, SliceErased, Merged, LastCleanup
  <2>2. UNCHANGED <<prog, ir, CallsToErase, Removed>>
    BY <1>3 DEF Refuse, SliceErased, Merged, LastCleanup
  <2> QED
    BY <2>1, <2>2, KeptRests
<1>4. CASE UNCHANGED vars
  <2>1. UNCHANGED <<prog, blocks, body, term, incoming, pc, CallsToErase, CB, Slice, Removed>>
    BY <1>4 DEF vars
  <2>2. /\ AsInstrumented(prog)' /\ EntryInv' /\ WorkInv' /\ (Observable \subseteq Live)' /\ Live' = Live
        /\ \A b : InstsOf(b)' = InstsOf(b)
        /\ \A i : ClassOf(i)' = ClassOf(i) /\ isCheck(i)' = isCheck(i)
    BY <2>1, SameCode
  <2>3. ValuesInv' /\ Reachable' = Reachable /\ Rep' = Rep
    BY <2>1, SameIR DEF ir
  <2>4. ReachInv' /\ SliceInv'
    BY <2>1, <2>2, <2>3 DEF KeptInv, ReachInv, SliceInv
  <2>5. CallInv'
    BY <2>1, <2>2, <2>3 DEF KeptInv, CallInv, isSanitizerOnlyInstruction
  <2> QED
    BY <2>2, <2>3, <2>4, <2>5 DEF KeptInv
<1> QED
  BY <1>1, <1>2, <1>3, <1>4, KeptTake, KeptStartBypass, KeptRedirect, KeptDelete, KeptEraseDirect,
     KeptEliminate, KeptMerge DEF Next, Return

LEMMA KeptInvariance == AsInstrumented(prog) /\ Spec => []KeptInv
  BY KeptInit, KeptNext, TypeInvariance, PTL DEF Spec

(* In a function as sanitizers leave it, removing slices takes away no      *)
(* effect of the program and no check that was to be kept: not with a       *)
(* report block that is deleted, not as part of a slice that is erased, and *)
(* not as code that can no longer be reached.                               *)
THEOREM KeptCodeStays == AsInstrumented(prog) /\ Spec => []KeptCodeSurvives
<1>1. KeptInv => KeptCodeSurvives
  BY DEF KeptInv, KeptCodeSurvives
<1> QED
  BY <1>1, KeptInvariance, PTL

(* In such a function the number of checks that is reported is the number   *)
(* of marked checks that are gone, and the loop of eraseMarkedChecks never  *)
(* takes up a call that went with an earlier removal.                       *)
THEOREM CountIsTrue == AsInstrumented(prog) /\ Spec => []RemovedIsGone
<1>1. KeptInv => RemovedIsGone
  BY DEF KeptInv, CallInv, RemovedIsGone
<1> QED
  BY <1>1, KeptInvariance, PTL

-----------------------------------------------------------------------------
(* Layer 3: ways through the function.                                      *)

\* Branches stay inside the function at every step.
ClosedInv == \A b \in blocks : Succs(b) \subseteq blocks

LEMMA ReachFacts ==
    ASSUME NEW t, NEW S \in SUBSET Blocks, \A b \in Blocks : ToSet(t[b].to) \subseteq Blocks
    PROVE  /\ S \subseteq ReachFrom(t, S) /\ ReachFrom(t, S) \subseteq Blocks
           /\ \A c \in ReachFrom(t, S) : ToSet(t[c].to) \subseteq ReachFrom(t, S)
           /\ \A C \in SUBSET Blocks :
                 S \subseteq C /\ (\A c \in C : ToSet(t[c].to) \subseteq C) => ReachFrom(t, S) \subseteq C
<1>1. S \subseteq ReachFrom(t, S) /\ ReachFrom(t, S) \subseteq Blocks
  BY DEF ReachFrom
<1>2. \A C \in SUBSET Blocks :
          S \subseteq C /\ (\A c \in C : ToSet(t[c].to) \subseteq C) => ReachFrom(t, S) \subseteq C
  BY DEF ReachFrom
<1>3. ASSUME NEW c \in ReachFrom(t, S), NEW d \in ToSet(t[c].to) PROVE d \in ReachFrom(t, S)
  <2>1. d \in Blocks
    BY <1>1
  <2>2. ASSUME NEW C \in SUBSET Blocks, S \subseteq C, \A e \in C : ToSet(t[e].to) \subseteq C
        PROVE  d \in C
    BY <1>2, <2>2
  <2> QED
    BY <2>1, <2>2 DEF ReachFrom
<1> QED
  BY <1>1, <1>2, <1>3

\* The branch of p is led past r, to where r leads or where p led as well.
LedPast(t, tt, p, r, s) ==
    /\ \A b \in Blocks : ToSet(t[b].to) \subseteq Blocks
    /\ \A b \in Blocks \ {p} : tt[b] = t[b]
    /\ ToSet(tt[p].to) = {s} /\ r \in ToSet(t[p].to) /\ ToSet(t[p].to) \subseteq {r, s}
    /\ ToSet(t[r].to) \subseteq {s} /\ s \in ToSet(t[p].to) \cup ToSet(t[r].to)

LEMMA ReachPast ==
    ASSUME NEW t, NEW tt, NEW p \in Blocks, NEW r \in Blocks, NEW s \in Blocks, p # r,
           LedPast(t, tt, p, r, s)
    PROVE  \A b, c \in Blocks \ {r} :
              c \in ReachFrom(t, ToSet(t[b].to)) <=> c \in ReachFrom(tt, ToSet(tt[b].to))
<1>0. /\ \A b \in Blocks : ToSet(t[b].to) \subseteq Blocks
      /\ \A b \in Blocks \ {p} : tt[b] = t[b]
      /\ ToSet(tt[p].to) = {s} /\ r \in ToSet(t[p].to) /\ ToSet(t[p].to) \subseteq {r, s}
      /\ ToSet(t[r].to) \subseteq {s} /\ s \in ToSet(t[p].to) \cup ToSet(t[r].to)
  BY DEF LedPast
<1> USE <1>0
<1> TAKE b, c \in Blocks \ {r}
<1>1. \A d \in Blocks : ToSet(tt[d].to) \subseteq Blocks
  OBVIOUS
<1>2. ASSUME c \in ReachFrom(t, ToSet(t[b].to)) PROVE c \in ReachFrom(tt, ToSet(tt[b].to))
  <2> SUFFICES ASSUME NEW C \in SUBSET Blocks, ToSet(tt[b].to) \subseteq C,
                      \A d \in C : ToSet(tt[d].to) \subseteq C
               PROVE  c \in C
    BY DEF ReachFrom
  <2>1. CASE s \in C
    <3>1. PICK D : D = C \cup {r}
      OBVIOUS
    <3>2. \A d \in D : ToSet(t[d].to) \subseteq D
      BY <2>1, <3>1
    <3>3. D \in SUBSET Blocks /\ ToSet(t[b].to) \subseteq D
      BY <2>1, <3>1
    <3>4. ReachFrom(t, ToSet(t[b].to)) \subseteq D
      BY <3>2, <3>3 DEF ReachFrom
    <3> QED
      BY <1>2, <3>1, <3>4
  <2>2. CASE s \notin C
    <3>1. p \notin C /\ b # p
      BY <2>2
    <3>2. \A d \in C : ToSet(t[d].to) \subseteq C
      BY <3>1
    <3>3. ToSet(t[b].to) \subseteq C
      BY <3>1
    <3> QED
      BY <1>2, <3>2, <3>3 DEF ReachFrom
  <2> QED
    BY <2>1, <2>2
<1>3. ASSUME c \in ReachFrom(tt, ToSet(tt[b].to)) PROVE c \in ReachFrom(t, ToSet(t[b].to))
  <2> SUFFICES ASSUME NEW C \in SUBSET Blocks, ToSet(t[b].to) \subseteq C,
                      \A d \in C : ToSet(t[d].to) \subseteq C
               PROVE  c \in C
    BY DEF ReachFrom
  <2>1. ToSet(t[p].to) \subseteq C => s \in C
    <3>1. ASSUME ToSet(t[p].to) \subseteq C PROVE ToSet(t[r].to) \subseteq C
      BY <3>1
    <3> QED
      BY <3>1
  <2>2. \A d \in C : ToSet(tt[d].to) \subseteq C
    BY <2>1
  <2>3. ToSet(tt[b].to) \subseteq C
    BY <2>1
  <2> QED
    BY <1>3, <2>2, <2>3 DEF ReachFrom
<1> QED
  BY <1>2, <1>3

\* r is appended to p, its only predecessor, of which it is the only successor.
LEMMA ReachJoined ==
    ASSUME NEW t, NEW tt, NEW L \in SUBSET Blocks, \A b \in L : ToSet(t[b].to) \subseteq L,
           \A b \in Blocks : ToSet(t[b].to) \subseteq Blocks,
           NEW p \in L, NEW r \in L, p # r,
           \A c \in Blocks \ {p} : tt[c] = t[c], tt[p] = t[r],
           ToSet(t[p].to) = {r}, \A q \in L : r \in ToSet(t[q].to) => q = p,
           NEW S \in SUBSET L, r \notin S
    PROVE  /\ \A c \in Blocks \ {r} : c \in ReachFrom(t, S) <=> c \in ReachFrom(tt, S)
           /\ r \in ReachFrom(t, S) <=> p \in ReachFrom(tt, S)
<1>0. S \in SUBSET Blocks /\ \A d \in Blocks : ToSet(tt[d].to) \subseteq Blocks
  OBVIOUS
<1>1. PICK X, Y : X = ReachFrom(t, S) /\ Y = ReachFrom(tt, S)
  OBVIOUS
<1>2. /\ S \subseteq X /\ X \subseteq Blocks /\ (\A c \in X : ToSet(t[c].to) \subseteq X)
      /\ \A C \in SUBSET Blocks :
            S \subseteq C /\ (\A c \in C : ToSet(t[c].to) \subseteq C) => X \subseteq C
  BY <1>0, <1>1, ReachFacts
<1>3. /\ S \subseteq Y /\ Y \subseteq Blocks /\ (\A c \in Y : ToSet(tt[c].to) \subseteq Y)
      /\ \A C \in SUBSET Blocks :
            S \subseteq C /\ (\A c \in C : ToSet(tt[c].to) \subseteq C) => Y \subseteq C
  BY <1>0, <1>1, ReachFacts
<1>4. Y \subseteq X
  <2>1. \A c \in X : ToSet(tt[c].to) \subseteq X
    BY <1>2
  <2> QED
    BY <1>2, <1>3, <2>1
<1>5. X \subseteq Y \cup {r}
  <2>1. CASE p \in Y
    <3>1. PICK D : D = Y \cup {r}
      OBVIOUS
    <3>2. ASSUME NEW c \in D PROVE ToSet(t[c].to) \subseteq D
      <4>1. CASE c = p
        BY <3>1, <4>1
      <4>2. CASE c = r
        BY <1>3, <2>1, <3>1, <4>2
      <4>3. CASE c \in Y \ {p, r}
        BY <1>3, <3>1, <4>3
      <4> QED
        BY <3>1, <4>1, <4>2, <4>3
    <3>3. D \in SUBSET Blocks /\ S \subseteq D
      BY <1>3, <3>1
    <3> QED
      BY <1>2, <3>1, <3>2, <3>3
  <2>2. CASE p \notin Y
    BY <1>2, <1>3, <2>2
  <2> QED
    BY <2>1, <2>2
<1>6. ASSUME p \notin Y PROVE r \notin X
  <2>1. PICK C : C = (Y \cap L) \ {r}
    OBVIOUS
  <2>2. ASSUME NEW c \in C PROVE ToSet(t[c].to) \subseteq C
    <3>1. c \in L /\ c \in Y /\ c # p /\ tt[c] = t[c]
      BY <1>6, <2>1
    <3> QED
      BY <1>3, <2>1, <3>1
  <2>3. C \in SUBSET Blocks /\ S \subseteq C
    BY <1>3, <2>1
  <2> QED
    BY <1>2, <2>1, <2>2, <2>3
<1>7. p \in Y => r \in X
  BY <1>2, <1>4
<1> QED
  BY <1>1, <1>4, <1>5, <1>6, <1>7

\* Where the predecessors of a block that is being bypassed will lead.
LEMMA BypassFacts ==
    ASSUME TInv, pc = "redirect", NEW p \in Preds
    PROVE  \E R, S \in Blocks :
              /\ R = Rep /\ S = SafeSucc(p, R) /\ S # R /\ p # R /\ p \in predecessors(R) /\ canRedirect(p, R)
              /\ R \in Succs(p) /\ Succs(p) \subseteq {R, S} /\ Succs(R) \subseteq {S}
              /\ S \in Succs(p) \cup Succs(R)
              /\ term[p].op = "cbr" => S \in Succs(p)
<1>1. /\ predecessors(Rep) = Preds /\ Rep \notin Preds /\ p \in Blocks
      /\ term[Rep].op \in {"br", "unreachable"}
      /\ canRedirect(p, Rep)
      /\ term \in [Blocks -> Terminators] /\ Arity(term) /\ blocks \subseteq Blocks
  BY DEF TInv, TypeOK, BypassInv
<1>2. PICK R \in Blocks : R = Rep
  BY <1>1, Targets DEF predecessors
<1>3. PICK S \in Blocks : S = SafeSucc(p, R) /\ S # R
  BY <1>1, <1>2, SafeTarget
<1>4. p # R /\ p \in predecessors(R) /\ canRedirect(p, R) /\ R \in Succs(p)
  BY <1>1, <1>2 DEF predecessors
<1>5. Succs(R) \subseteq {S} /\ (Fallthrough(R) # None => S = Fallthrough(R) /\ S \in Succs(R))
  <2>1. CASE term[R].op = "br"
    <3>1. Fallthrough(R) = term[R].to[1] /\ Succs(R) = {term[R].to[1]} /\ term[R].to[1] # None
      BY <1>1, <2>1, Targets, ProgramsAssumption DEF Fallthrough
    <3> QED
      BY <1>3, <3>1 DEF SafeSucc
  <2>2. CASE term[R].op = "unreachable"
    BY <1>1, <2>2, Targets DEF Fallthrough
  <2> QED
    BY <1>1, <1>2, <2>1, <2>2
<1>6. /\ Succs(p) \subseteq {R, S} /\ (term[p].op = "cbr" => S \in Succs(p))
      /\ term[p].op = "br" => Fallthrough(R) # None
  <2>1. CASE term[p].op = "br"
    BY <1>1, <1>4, <2>1, Targets DEF canRedirect
  <2>2. CASE term[p].op = "cbr"
    <3>1. Succs(p) = {term[p].to[1], term[p].to[2]}
      BY <1>1, <2>2, Targets
    <3>2. Succs(p) \subseteq {R, OtherSucc(p, R)} /\ OtherSucc(p, R) \in Succs(p)
      BY <1>4, <3>1 DEF OtherSucc
    <3>3. OtherSucc(p, R) = S
      BY <1>3, <1>4, <2>2 DEF canRedirect, SafeSucc
    <3> QED
      BY <2>2, <3>2, <3>3
  <2> QED
    BY <1>4, <2>1, <2>2 DEF canRedirect
<1>7. S \in Succs(p) \cup Succs(R)
  BY <1>4, <1>5, <1>6 DEF canRedirect
<1> QED
  BY <1>2, <1>3, <1>4, <1>5, <1>6, <1>7

\* What Redirect(p) does to the branches.
LEMMA RedirectFacts ==
    ASSUME TInv, NEW p \in Blocks, Redirect(p)
    PROVE  \E R, S \in Blocks :
              /\ R = Rep /\ S = SafeSucc(p, R) /\ S # R /\ p # R /\ p \in predecessors(R) /\ canRedirect(p, R)
              /\ term' = [term EXCEPT ![p] = [op |-> "br", cond |-> None, to |-> <<S>>]]
              /\ ToSet(term'[p].to) = {S} /\ term'[p].cond = None
              /\ \A q \in Blocks \ {p} : term'[q] = term[q]
              /\ R \in Succs(p) /\ Succs(p) \subseteq {R, S} /\ Succs(R) \subseteq {S}
              /\ S \in Succs(p) \cup Succs(R)
              /\ term[p].op = "cbr" => S \in Succs(p)
<1>1. /\ pc = "redirect" /\ p \in Preds
      /\ term' = [term EXCEPT ![p] = [op |-> "br", cond |-> None, to |-> <<SafeSucc(p, Rep)>>]]
  BY DEF Redirect, Rep
<1>2. PICK R, S \in Blocks :
         /\ R = Rep /\ S = SafeSucc(p, R) /\ S # R /\ p # R /\ p \in predecessors(R) /\ canRedirect(p, R)
         /\ R \in Succs(p) /\ Succs(p) \subseteq {R, S} /\ Succs(R) \subseteq {S}
         /\ S \in Succs(p) \cup Succs(R)
         /\ term[p].op = "cbr" => S \in Succs(p)
  BY <1>1, BypassFacts
<1>3. term' = [term EXCEPT ![p] = [op |-> "br", cond |-> None, to |-> <<S>>]]
  BY <1>1, <1>2
<1>4. /\ term'[p].to = <<S>> /\ term'[p].cond = None
      /\ \A q \in Blocks \ {p} : term'[q] = term[q]
  BY <1>3 DEF TInv, TypeOK
<1>5. ToSet(term'[p].to) = {S}
  <2>1. Len(<<S>>) = 1 /\ <<S>>[1] = S /\ DOMAIN <<S>> = {1}
    OBVIOUS
  <2> QED
    BY <1>4, <2>1 DEF ToSet
<1> QED
  BY <1>2, <1>3, <1>4, <1>5

\* What Merge(b) does to the blocks.
LEMMA JoinFacts ==
    ASSUME TInv, NEW b \in Blocks, Merge(b)
    PROVE  \E p \in blocks :
              /\ b \in blocks /\ p # b /\ b # EntryBlock
              /\ predecessors(b) = {p} /\ Succs(p) = {b} /\ b \notin Succs(b)
              /\ blocks' = blocks \ {b} /\ body' = [body EXCEPT ![p] = body[p] \o body[b]]
              /\ term'[p] = term[b] /\ \A q \in Blocks \ {p} : term'[q] = term[q]
              /\ incoming' = [i \in DOMAIN incoming |->
                     IF i \in InstsOf(b) /\ p \in DOMAIN incoming[i]
                     THEN [q \in {None} |-> incoming[i][p]]
                     ELSE IF b \in DOMAIN incoming[i]
                     THEN [q \in (DOMAIN incoming[i] \ {b}) \cup {p} |->
                              incoming[i][IF q = p THEN b ELSE q]]
                     ELSE incoming[i]]
              /\ UNCHANGED <<prog, pc>>
<1>1. PICK p : p = CHOOSE q \in blocks : predecessors(b) = {q}
  OBVIOUS
<1>2. /\ b \in blocks /\ canMerge(b)
      /\ blocks' = blocks \ {b} /\ body' = [body EXCEPT ![p] = body[p] \o body[b]]
      /\ term' = [term EXCEPT ![p] = term[b]]
      /\ incoming' = [i \in DOMAIN incoming |->
             IF i \in InstsOf(b) /\ p \in DOMAIN incoming[i]
             THEN [q \in {None} |-> incoming[i][p]]
             ELSE IF b \in DOMAIN incoming[i]
             THEN [q \in (DOMAIN incoming[i] \ {b}) \cup {p} |->
                      incoming[i][IF q = p THEN b ELSE q]]
             ELSE incoming[i]]
      /\ UNCHANGED <<prog, pc>>
  BY <1>1 DEF Merge
<1>3. p \in blocks /\ p # b /\ b # EntryBlock /\ predecessors(b) = {p} /\ Succs(p) = {b}
  BY <1>1, <1>2 DEF canMerge
<1>4. blocks \subseteq Blocks /\ term \in [Blocks -> Terminators]
  BY DEF TInv, TypeOK
<1>5. term'[p] = term[b] /\ \A q \in Blocks \ {p} : term'[q] = term[q]
  BY <1>2, <1>3, <1>4
<1>6. b \notin Succs(b)
  BY <1>2, <1>3 DEF predecessors
<1> QED
  BY <1>2, <1>3, <1>5, <1>6

LEMMA ClosedSame ==
    ASSUME ClosedInv, UNCHANGED <<blocks, term>>
    PROVE  ClosedInv'
  BY DEF ClosedInv, Succs

LEMMA ClosedInit == Init => ClosedInv
<1> SUFFICES ASSUME Init PROVE ClosedInv
  OBVIOUS
<1>1. IsFunction(prog) /\ blocks = prog.blocks /\ term = prog.term
  BY ProgramFacts DEF Init
<1> QED
  BY <1>1 DEF IsFunction, ClosedInv, Succs

LEMMA ClosedNext == TInv /\ ClosedInv /\ [Next]_vars => ClosedInv'
<1> SUFFICES ASSUME TInv, ClosedInv, [Next]_vars PROVE ClosedInv'
  OBVIOUS
<1>0. term \in [Blocks -> Terminators] /\ blocks \subseteq Blocks
  BY DEF TInv, TypeOK
<1>1. ASSUME NEW p \in Blocks, Redirect(p) PROVE ClosedInv'
  <2>1. PICK R, S \in Blocks :
              /\ R = Rep /\ p \in predecessors(R)
              /\ ToSet(term'[p].to) = {S}
              /\ \A q \in Blocks \ {p} : term'[q] = term[q]
              /\ R \in Succs(p)
              /\ S \in Succs(p) \cup Succs(R)
    BY <1>1, RedirectFacts
  <2>2. blocks' = blocks /\ p \in blocks
    BY <1>1, <2>1 DEF Redirect, predecessors
  <2>3. S \in blocks
    BY <2>1, <2>2 DEF ClosedInv
  <2> QED
    BY <1>0, <2>1, <2>2, <2>3 DEF ClosedInv, Succs
<1>2. CASE DeleteReportBlock
  <2>1. /\ predecessors(Rep) = {} /\ blocks' = blocks \ {Rep} /\ term' = term
    BY <1>2 DEF DeleteReportBlock, Rep
  <2> QED
    BY <2>1 DEF ClosedInv, Succs, predecessors
<1>3. CASE EliminateUnreachableBlocks
  <2>1. blocks' = blocks \cap Reachable /\ term' = term
    BY <1>3 DEF EliminateUnreachableBlocks
  <2>2. \A c \in Reachable : \A d \in Succs(c) : d \in Blocks => d \in Reachable
    BY DEF Reachable, ReachFrom, Succs
  <2> QED
    BY <1>0, <2>1, <2>2 DEF ClosedInv, Succs
<1>4. ASSUME NEW b \in Blocks, Merge(b) PROVE ClosedInv'
  <2>1. PICK p \in blocks :
              /\ b \in blocks /\ p # b
              /\ predecessors(b) = {p} /\ b \notin Succs(b)
              /\ blocks' = blocks \ {b}
              /\ term'[p] = term[b] /\ \A q \in Blocks \ {p} : term'[q] = term[q]
    BY <1>4, JoinFacts
  <2>2. \A q \in blocks : b \in Succs(q) => q = p
    BY <2>1 DEF predecessors
  <2> QED
    BY <1>0, <2>1, <2>2 DEF ClosedInv, Succs
<1>5. ASSUME NEW i \in Insts, TakeCall(i) \/ EraseDead(i) \/ CleanUp(i) PROVE ClosedInv'
  <2>1. UNCHANGED <<blocks, term>>
    BY <1>5 DEF TakeCall, EraseDead, CleanUp, ir
  <2> QED
    BY <2>1, ClosedSame
<1>6. CASE StartBypass \/ EraseDirect \/ Refuse \/ SliceErased \/ Merged \/ LastCleanup \/ Return \/ UNCHANGED vars
  <2>1. UNCHANGED <<blocks, term>>
    BY <1>6 DEF StartBypass, EraseDirect, Refuse, SliceErased, Merged, LastCleanup, Return, vars, ir
  <2> QED
    BY <2>1, ClosedSame
<1> QED
  BY <1>1, <1>2, <1>3, <1>4, <1>5, <1>6 DEF Next

LEMMA ClosedInvariance == Spec => []ClosedInv
  BY ClosedInit, ClosedNext, TypeInvariance, PTL DEF Spec

-----------------------------------------------------------------------------
(* Layer 4: what can follow what.  Later says it of blocks and places,      *)
(* without choosing them; each step keeps it for the code that stays.       *)

Before(s, x, y) == \E m, n \in DOMAIN s : m < n /\ s[m] = x /\ s[n] = y

Later(S, B, t, x, y) ==
    \E b, c \in S :
       /\ x \in ToSet(B[b]) /\ y \in ToSet(B[c])
       /\ c \in ReachFrom(t, ToSet(t[b].to)) \/ (b = c /\ Before(B[b], x, y))

FlowInv ==
    \A x, y \in Observable :
        Later(blocks, body, term, x, y) <=> Later(prog.blocks, prog.body, prog.term, x, y)

\* An instruction is in one block, in one place of it.
LEMMA OnePlace ==
    ASSUME NEW S, NEW B, PlacedIn(S, B), NEW b \in S, NEW c \in S, NEW x,
           x \in ToSet(B[b]), x \in ToSet(B[c])
    PROVE  b = c
  BY DEF PlacedIn, ToSet

LEMMA LaterIs ==
    ASSUME NEW S, NEW B, PlacedIn(S, B), NEW t, NEW x, NEW y,
           \E b \in S : x \in ToSet(B[b]), \E c \in S : y \in ToSet(B[c])
    PROVE  CanFollow([b \in S |-> B[b]], t, x, y) <=> Later(S, B, t, x, y)
<1>1. PICK F : F = [b \in S |-> B[b]]
  OBVIOUS
<1>2. DOMAIN F = S /\ \A b \in S : F[b] = B[b]
  BY <1>1
<1>3. PICK bx : bx = CHOOSE b \in DOMAIN F : x \in ToSet(F[b])
  OBVIOUS
<1>4. PICK by : by = CHOOSE b \in DOMAIN F : y \in ToSet(F[b])
  OBVIOUS
<1>5. bx \in S /\ x \in ToSet(B[bx]) /\ by \in S /\ y \in ToSet(B[by])
  BY <1>2, <1>3, <1>4
<1>6. \A b \in S : (x \in ToSet(B[b]) => b = bx) /\ (y \in ToSet(B[b]) => b = by)
  BY <1>5, OnePlace
<1>7. PICK m : m = CHOOSE n \in DOMAIN F[bx] : F[bx][n] = x
  OBVIOUS
<1>8. PICK n : n = CHOOSE k \in DOMAIN F[by] : F[by][k] = y
  OBVIOUS
<1>9. m \in DOMAIN B[bx] /\ B[bx][m] = x /\ n \in DOMAIN B[by] /\ B[by][n] = y
  BY <1>2, <1>5, <1>7, <1>8 DEF ToSet
<1>10. \A k \in DOMAIN B[bx] : (B[bx][k] = x => k = m) /\ (bx = by /\ B[bx][k] = y => k = n)
  BY <1>5, <1>9 DEF PlacedIn
<1>11. CanFollow(F, t, x, y) <=> by \in ReachFrom(t, ToSet(t[bx].to)) \/ (bx = by /\ m < n)
  BY <1>3, <1>4, <1>7, <1>8 DEF CanFollow
<1>12. bx = by => (Before(B[bx], x, y) <=> m < n)
  BY <1>9, <1>10 DEF Before
<1>13. Later(S, B, t, x, y) <=>
          by \in ReachFrom(t, ToSet(t[bx].to)) \/ (bx = by /\ Before(B[bx], x, y))
  BY <1>5, <1>6 DEF Later
<1> QED
  BY <1>1, <1>11, <1>12, <1>13

\* Unlinking another instruction keeps the order of two.
LEMMA OrderWithout ==
    ASSUME NEW s \in Seq(Insts), NEW i, NEW r, r = RemoveFirst(s, i),
           NEW x, NEW y, x # i, y # i
    PROVE  Before(r, x, y) <=> Before(s, x, y)
<1>0. Insts = Insts /\ Len(s) \in Nat /\ DOMAIN s = 1..Len(s)
  BY LenProperties
<1>1. /\ r \in Seq(Insts)
      /\ i \notin ToSet(s) => r = s
      /\ i \in ToSet(s) =>
            \E k \in 1..Len(s) :
               /\ s[k] = i /\ Len(r) = Len(s) - 1
               /\ \A m \in 1..Len(r) : r[m] = IF m < k THEN s[m] ELSE s[m + 1]
  BY RemoveFirstFacts
<1>2. CASE i \notin ToSet(s)
  BY <1>1, <1>2
<1>3. CASE i \in ToSet(s)
  <2>1. PICK k \in 1..Len(s) :
               /\ s[k] = i /\ Len(r) = Len(s) - 1
               /\ \A m \in 1..Len(r) : r[m] = IF m < k THEN s[m] ELSE s[m + 1]
    BY <1>1, <1>3
  <2>2. DOMAIN r = 1..(Len(s) - 1) /\ DOMAIN r = 1..Len(r)
    BY <1>1, <2>1, LenProperties
  <2>3. ASSUME Before(r, x, y) PROVE Before(s, x, y)
    <3>1. PICK m, n \in DOMAIN r : m < n /\ r[m] = x /\ r[n] = y
      BY <2>3 DEF Before
    <3>2. PICK mm : mm = IF m < k THEN m ELSE m + 1
      OBVIOUS
    <3>3. PICK nn : nn = IF n < k THEN n ELSE n + 1
      OBVIOUS
    <3>4. s[mm] = x /\ s[nn] = y
      BY <2>1, <2>2, <3>1, <3>2, <3>3
    <3>5. mm \in 1..Len(s) /\ nn \in 1..Len(s) /\ mm < nn
      BY <1>0, <2>1, <2>2, <3>1, <3>2, <3>3
    <3> QED
      BY <1>0, <3>4, <3>5 DEF Before
  <2>4. ASSUME Before(s, x, y) PROVE Before(r, x, y)
    <3>1. PICK m, n \in DOMAIN s : m < n /\ s[m] = x /\ s[n] = y
      BY <2>4 DEF Before
    <3>2. m # k /\ n # k
      BY <2>1, <3>1
    <3>3. PICK mm : mm = IF m < k THEN m ELSE m - 1
      OBVIOUS
    <3>4. PICK nn : nn = IF n < k THEN n ELSE n - 1
      OBVIOUS
    <3>5. mm \in 1..(Len(s) - 1) /\ nn \in 1..(Len(s) - 1) /\ mm < nn
      BY <1>0, <2>1, <3>1, <3>2, <3>3, <3>4
    <3>6. (mm < k <=> m < k) /\ (~(mm < k) => mm + 1 = m)
      BY <1>0, <2>1, <3>1, <3>2, <3>3
    <3>7. (nn < k <=> n < k) /\ (~(nn < k) => nn + 1 = n)
      BY <1>0, <2>1, <3>1, <3>2, <3>4
    <3>8. r[mm] = x /\ r[nn] = y
      BY <2>1, <2>2, <3>1, <3>3, <3>4, <3>5, <3>6, <3>7
    <3> QED
      BY <2>2, <3>5, <3>8 DEF Before
  <2> QED
    BY <2>3, <2>4
<1> QED
  BY <1>2, <1>3

\* Of two blocks put together, the first comes before the second.
LEMMA OrderJoined ==
    ASSUME NEW s \in Seq(Insts), NEW u \in Seq(Insts), NEW x, NEW y,
           ToSet(s) \cap ToSet(u) = {}
    PROVE  /\ x \in ToSet(s) /\ y \in ToSet(s) => (Before(s \o u, x, y) <=> Before(s, x, y))
           /\ x \in ToSet(u) /\ y \in ToSet(u) => (Before(s \o u, x, y) <=> Before(u, x, y))
           /\ x \in ToSet(s) /\ y \in ToSet(u) => Before(s \o u, x, y) /\ ~Before(s \o u, y, x)
<1>1. PICK w : w = s \o u
  OBVIOUS
<1>2. /\ Len(s) \in Nat /\ Len(u) \in Nat /\ DOMAIN s = 1..Len(s) /\ DOMAIN u = 1..Len(u)
      /\ DOMAIN w = 1..(Len(s) + Len(u))
      /\ \A n \in 1..(Len(s) + Len(u)) : w[n] = IF n <= Len(s) THEN s[n] ELSE u[n - Len(s)]
  BY <1>1, LenProperties, ConcatProperties
<1>3. \A n \in 1..Len(s) : n \in DOMAIN w /\ w[n] = s[n]
  BY <1>2
<1>4. ASSUME NEW n \in 1..Len(u) PROVE Len(s) + n \in DOMAIN w /\ w[Len(s) + n] = u[n]
  <2>1. Len(s) + n \in 1..(Len(s) + Len(u)) /\ ~(Len(s) + n <= Len(s)) /\ Len(s) + n - Len(s) = n
    BY <1>2
  <2> QED
    BY <1>2, <2>1
<1>5. ASSUME NEW n \in DOMAIN w, w[n] \in ToSet(s) PROVE n \in 1..Len(s) /\ s[n] = w[n]
  <2>1. ASSUME ~(n <= Len(s)) PROVE FALSE
    <3>1. n - Len(s) \in 1..Len(u) /\ w[n] = u[n - Len(s)]
      BY <1>2, <2>1
    <3>2. w[n] \in ToSet(u)
      BY <1>2, <3>1 DEF ToSet
    <3> QED
      BY <1>5, <3>2
  <2> QED
    BY <1>2, <2>1
<1>6. ASSUME NEW n \in DOMAIN w, w[n] \in ToSet(u)
      PROVE  n > Len(s) /\ n - Len(s) \in 1..Len(u) /\ u[n - Len(s)] = w[n]
  <2>1. ASSUME n <= Len(s) PROVE FALSE
    <3>1. n \in 1..Len(s) /\ w[n] = s[n]
      BY <1>2, <2>1
    <3>2. w[n] \in ToSet(s)
      BY <1>2, <3>1 DEF ToSet
    <3> QED
      BY <1>6, <3>2
  <2>2. n > Len(s)
    BY <1>2, <2>1
  <2>3. n - Len(s) \in 1..Len(u)
    BY <1>2, <2>2
  <2> QED
    BY <1>2, <2>2, <2>3
<1>7. ASSUME x \in ToSet(s), y \in ToSet(s) PROVE Before(w, x, y) <=> Before(s, x, y)
  BY <1>2, <1>3, <1>5, <1>7 DEF Before
<1>8. ASSUME x \in ToSet(u), y \in ToSet(u) PROVE Before(w, x, y) <=> Before(u, x, y)
  <2>1. ASSUME Before(w, x, y) PROVE Before(u, x, y)
    <3>1. PICK m, n \in DOMAIN w : m < n /\ w[m] = x /\ w[n] = y
      BY <2>1 DEF Before
    <3>2. m - Len(s) \in 1..Len(u) /\ u[m - Len(s)] = x /\ n - Len(s) \in 1..Len(u) /\ u[n - Len(s)] = y
      BY <1>6, <1>8, <3>1
    <3>3. m - Len(s) < n - Len(s)
      BY <1>2, <3>1
    <3> QED
      BY <1>2, <3>2, <3>3 DEF Before
  <2>2. ASSUME Before(u, x, y) PROVE Before(w, x, y)
    <3>1. PICK m, n \in DOMAIN u : m < n /\ u[m] = x /\ u[n] = y
      BY <2>2 DEF Before
    <3>2. Len(s) + m < Len(s) + n
      BY <1>2, <3>1
    <3>3. /\ Len(s) + m \in DOMAIN w /\ w[Len(s) + m] = x
          /\ Len(s) + n \in DOMAIN w /\ w[Len(s) + n] = y
      BY <1>2, <1>4, <3>1
    <3> QED
      BY <3>2, <3>3 DEF Before
  <2> QED
    BY <2>1, <2>2
<1>9. ASSUME x \in ToSet(s), y \in ToSet(u) PROVE Before(w, x, y) /\ ~Before(w, y, x)
  <2>1. PICK m \in 1..Len(s) : s[m] = x
    BY <1>2, <1>9 DEF ToSet
  <2>2. PICK n \in 1..Len(u) : u[n] = y
    BY <1>2, <1>9 DEF ToSet
  <2>3. m \in DOMAIN w /\ w[m] = x /\ Len(s) + n \in DOMAIN w /\ w[Len(s) + n] = y
    BY <1>3, <1>4, <2>1, <2>2
  <2>4. m < Len(s) + n
    BY <1>2
  <2>5. ASSUME NEW i \in DOMAIN w, NEW j \in DOMAIN w, i < j, w[i] = y, w[j] = x PROVE FALSE
    <3>1. i > Len(s) /\ j \in 1..Len(s)
      BY <1>5, <1>6, <1>9, <2>5
    <3> QED
      BY <1>2, <2>5, <3>1
  <2> QED
    BY <2>3, <2>4, <2>5 DEF Before
<1> QED
  BY <1>1, <1>7, <1>8, <1>9

LEMMA FlowBy ==
    ASSUME FlowInv, prog' = prog,
           \A x, y \in Observable : Later(blocks', body', term', x, y) <=> Later(blocks, body, term, x, y)
    PROVE  FlowInv'
<1>1. Observable' = Observable
  BY DEF Observable, Code0, isCheck, ClassOf
<1> QED
  BY <1>1 DEF FlowInv

LEMMA FlowErase ==
    ASSUME TInv, FlowInv, NEW i, i \notin Observable, body' = WithoutInst(i),
           UNCHANGED <<prog, blocks, term>>
    PROVE  FlowInv'
<1>1. body \in [Blocks -> Seq(Insts)] /\ blocks \subseteq Blocks /\ PlacedIn(blocks, body)
  BY DEF TInv, TypeOK
<1>2. PICK B : B = body'
  OBVIOUS
<1>3. \A b \in Blocks : ToSet(B[b]) \subseteq ToSet(body[b]) /\ ToSet(body[b]) \ {i} \subseteq ToSet(B[b])
  BY <1>1, <1>2, WithoutFacts
<1>4. ASSUME NEW x \in Observable, NEW y \in Observable
      PROVE  Later(blocks, B, term, x, y) <=> Later(blocks, body, term, x, y)
  <2>1. x # i /\ y # i
    OBVIOUS
  <2>2. \A b \in blocks : (x \in ToSet(B[b]) <=> x \in ToSet(body[b])) /\ (y \in ToSet(B[b]) <=> y \in ToSet(body[b]))
    BY <1>1, <1>3, <2>1
  <2>3. ASSUME NEW b \in blocks PROVE Before(B[b], x, y) <=> Before(body[b], x, y)
    <3>1. body[b] \in Seq(Insts) /\ B[b] = RemoveFirst(body[b], i)
      BY <1>1, <1>2 DEF WithoutInst
    <3> QED
      BY <2>1, <3>1, OrderWithout
  <2> QED
    BY <2>2, <2>3 DEF Later
<1> QED
  BY <1>2, <1>4, FlowBy

\* Nothing of what the program does is in a block that is bypassed.
LEMMA NothingObserved ==
    ASSUME TInv, KeptInv, pc = "redirect", NEW x \in Observable
    PROVE  x \notin InstsOf(Rep) /\ Rep \in blocks
<1>1. /\ CB \in Live /\ CB \in prog.marked \ CallsToErase
      /\ \A i \in InstsOf(Rep) : isSanitizerOnlyInstruction(i) /\ (isCheck(i) => i = CB)
  BY DEF KeptInv, CallInv
<1>2. Rep \in blocks
  BY <1>1 DEF Live, Rep, BlockOf
<1>3. ~Works(InstsOf(Rep))
  BY <1>1 DEF Works, isSanitizerOnlyInstruction
<1>4. ~Serves(InstsOf(Rep))
  BY <1>2, <1>3 DEF KeptInv, WorkInv
<1> QED
  BY <1>1, <1>2, <1>3, <1>4 DEF Observable, Works, Serves

LEMMA FlowRedirect ==
    ASSUME TInv, KeptInv, FlowInv, NEW p \in Blocks, Redirect(p)
    PROVE  FlowInv'
<1>1. pc = "redirect" /\ UNCHANGED <<prog, blocks, body>>
  BY DEF Redirect
<1>2. PICK R, S \in Blocks :
         /\ R = Rep /\ p # R /\ ToSet(term'[p].to) = {S}
         /\ \A q \in Blocks \ {p} : term'[q] = term[q]
         /\ R \in Succs(p) /\ Succs(p) \subseteq {R, S} /\ Succs(R) \subseteq {S}
         /\ S \in Succs(p) \cup Succs(R)
  BY RedirectFacts
<1>3. PICK t : t = term'
  OBVIOUS
<1>4. term \in [Blocks -> Terminators] /\ Arity(term) /\ blocks \subseteq Blocks
  BY DEF TInv, TypeOK
<1>5. \A b \in Blocks : ToSet(term[b].to) \subseteq Blocks
  BY <1>4, Targets DEF Succs
<1>6. \A b, c \in Blocks \ {R} :
         c \in ReachFrom(term, ToSet(term[b].to)) <=> c \in ReachFrom(t, ToSet(t[b].to))
  <2>1. LedPast(term, t, p, R, S)
    BY <1>2, <1>3, <1>5 DEF Succs, LedPast
  <2>2. p # R
    BY <1>2
  <2> QED
    BY <2>1, <2>2, ReachPast
<1>7. ASSUME NEW x \in Observable, NEW y \in Observable
      PROVE  Later(blocks, body, t, x, y) <=> Later(blocks, body, term, x, y)
  <2>1. \A b \in blocks : x \in ToSet(body[b]) \/ y \in ToSet(body[b]) => b # R
    BY <1>1, <1>2, NothingObserved DEF InstsOf
  <2>2. \A b, c \in blocks : x \in ToSet(body[b]) /\ y \in ToSet(body[c]) =>
          (c \in ReachFrom(term, ToSet(term[b].to)) <=> c \in ReachFrom(t, ToSet(t[b].to)))
    BY <1>4, <1>6, <2>1
  <2> QED
    BY <2>2 DEF Later
<1> QED
  BY <1>1, <1>3, <1>7, FlowBy

LEMMA FlowDelete ==
    ASSUME TInv, KeptInv, FlowInv, DeleteReportBlock
    PROVE  FlowInv'
<1>1. pc = "redirect" /\ blocks' = blocks \ {Rep} /\ UNCHANGED <<prog, body, term>>
  BY DEF DeleteReportBlock, Rep
<1>2. PICK S : S = blocks'
  OBVIOUS
<1>3. ASSUME NEW x \in Observable, NEW y \in Observable
      PROVE  Later(S, body, term, x, y) <=> Later(blocks, body, term, x, y)
  <2>1. \A b \in blocks : x \in ToSet(body[b]) \/ y \in ToSet(body[b]) => b \in S
    BY <1>1, <1>2, NothingObserved DEF InstsOf
  <2> QED
    BY <1>1, <1>2, <2>1 DEF Later
<1> QED
  BY <1>1, <1>2, <1>3, FlowBy

LEMMA FlowSame ==
    ASSUME FlowInv, UNCHANGED <<prog, blocks, body, term>>
    PROVE  FlowInv'
  BY FlowBy

\* Joining two blocks: what came by way of the edge now comes by the order.
LEMMA FlowMerge ==
    ASSUME TInv, ClosedInv, FlowInv, NEW r \in Blocks, Merge(r)
    PROVE  FlowInv'
<1>1. PICK p \in blocks :
         /\ r \in blocks /\ p # r
         /\ predecessors(r) = {p} /\ Succs(p) = {r} /\ r \notin Succs(r)
         /\ blocks' = blocks \ {r} /\ body' = [body EXCEPT ![p] = body[p] \o body[r]]
         /\ term'[p] = term[r] /\ \A q \in Blocks \ {p} : term'[q] = term[q]
         /\ prog' = prog
  BY JoinFacts
<1>2. /\ body \in [Blocks -> Seq(Insts)] /\ blocks \subseteq Blocks /\ PlacedIn(blocks, body)
      /\ term \in [Blocks -> Terminators] /\ Arity(term)
  BY DEF TInv, TypeOK
<1>3. PICK B : B = body'
  OBVIOUS
<1>4. PICK t : t = term'
  OBVIOUS
<1>5. PICK L : L = blocks \ {r}
  OBVIOUS
<1>6. /\ B[p] = body[p] \o body[r] /\ ToSet(B[p]) = ToSet(body[p]) \cup ToSet(body[r])
      /\ \A c \in L \ {p} : B[c] = body[c]
  <2>1. body' = [body EXCEPT ![p] = body[p] \o body[r]]
    BY <1>1
  <2>2. /\ ToSet(B[p]) = ToSet(body[p]) \cup ToSet(body[r])
        /\ \A c \in Blocks \ {p} : B[c] = body[c]
    <3>1. p \in blocks /\ r \in blocks /\ p # r
      BY <1>1
    <3>2. body \in [Blocks -> Seq(Insts)] /\ blocks \subseteq Blocks /\ PlacedIn(blocks, body)
      BY <1>2
    <3> QED
      BY <1>3, <2>1, <3>1, <3>2, MergeFacts
  <2> QED
    BY <1>1, <1>2, <1>3, <1>5, <2>1, <2>2
<1>7. /\ p \in L /\ t[p] = term[r] /\ \A q \in Blocks \ {p} : t[q] = term[q]
  BY <1>1, <1>4, <1>5
<1>8. \A b \in Blocks : ToSet(term[b].to) \subseteq Blocks
  BY <1>2, Targets DEF Succs
<1>9. \A b \in blocks : ToSet(term[b].to) \subseteq blocks /\ (r \in ToSet(term[b].to) => b = p)
  BY <1>1 DEF ClosedInv, Succs, predecessors
<1> DEFINE W(b, c) == c \in ReachFrom(term, ToSet(term[b].to))
           V(b, c) == c \in ReachFrom(t, ToSet(t[b].to))
<1>10. ASSUME NEW S \in SUBSET blocks, r \notin S
       PROVE  /\ \A c \in Blocks \ {r} : c \in ReachFrom(term, S) <=> c \in ReachFrom(t, S)
              /\ r \in ReachFrom(term, S) <=> p \in ReachFrom(t, S)
  <2>1. ToSet(term[p].to) = {r} /\ r \in Blocks
    BY <1>1 DEF Succs
  <2> QED
    BY <1>1, <1>2, <1>7, <1>8, <1>9, <1>10, <2>1, ReachJoined
<1>11. ASSUME NEW b \in L, b # p
       PROVE  (\A c \in L : W(b, c) <=> V(b, c)) /\ (W(b, r) <=> V(b, p))
  <2>1. ToSet(term[b].to) \subseteq blocks /\ r \notin ToSet(term[b].to) /\ t[b] = term[b]
    BY <1>2, <1>5, <1>7, <1>9, <1>11
  <2>2. /\ \A c \in Blocks \ {r} : c \in ReachFrom(term, ToSet(term[b].to)) <=> c \in ReachFrom(t, ToSet(term[b].to))
        /\ r \in ReachFrom(term, ToSet(term[b].to)) <=> p \in ReachFrom(t, ToSet(term[b].to))
    BY <1>10, <2>1
  <2> QED
    BY <1>2, <1>5, <2>1, <2>2
<1>12. (\A c \in L : W(r, c) <=> V(p, c)) /\ (W(r, r) <=> V(p, p))
  <2>1. ToSet(term[r].to) \subseteq blocks /\ r \notin ToSet(term[r].to) /\ t[p] = term[r]
    BY <1>1, <1>7, <1>9
  <2>2. /\ \A c \in Blocks \ {r} : c \in ReachFrom(term, ToSet(term[r].to)) <=> c \in ReachFrom(t, ToSet(term[r].to))
        /\ r \in ReachFrom(term, ToSet(term[r].to)) <=> p \in ReachFrom(t, ToSet(term[r].to))
    BY <1>10, <2>1
  <2> QED
    BY <1>2, <1>5, <2>1, <2>2
<1>13. (\A c \in L : W(p, c) <=> W(r, c)) /\ W(p, r)
  <2>1. /\ ToSet(term[p].to) = {r} /\ ToSet(term[p].to) \in SUBSET Blocks
        /\ ToSet(term[r].to) \in SUBSET Blocks
    BY <1>1, <1>8 DEF Succs
  <2>2. PICK X, Y : X = ReachFrom(term, {r}) /\ Y = ReachFrom(term, ToSet(term[r].to))
    OBVIOUS
  <2>3. /\ r \in X /\ X \subseteq Blocks /\ (\A c \in X : ToSet(term[c].to) \subseteq X)
        /\ \A C \in SUBSET Blocks : r \in C /\ (\A c \in C : ToSet(term[c].to) \subseteq C) => X \subseteq C
    BY <1>8, <2>1, <2>2, ReachFacts
  <2>4. /\ ToSet(term[r].to) \subseteq Y /\ Y \subseteq Blocks /\ (\A c \in Y : ToSet(term[c].to) \subseteq Y)
        /\ \A C \in SUBSET Blocks :
              ToSet(term[r].to) \subseteq C /\ (\A c \in C : ToSet(term[c].to) \subseteq C) => Y \subseteq C
    BY <1>8, <2>1, <2>2, ReachFacts
  <2>5. Y \subseteq X
    BY <2>3, <2>4
  <2>6. X \subseteq Y \cup {r}
    <3>1. PICK D : D = Y \cup {r}
      OBVIOUS
    <3>2. \A c \in D : ToSet(term[c].to) \subseteq D
      BY <2>4, <3>1
    <3>3. D \in SUBSET Blocks /\ r \in D
      BY <2>4, <3>1
    <3> QED
      BY <2>3, <3>1, <3>2, <3>3
  <2> QED
    BY <1>5, <2>1, <2>2, <2>3, <2>5, <2>6
<1>14. ToSet(body[p]) \cap ToSet(body[r]) = {} /\ body[p] \in Seq(Insts) /\ body[r] \in Seq(Insts)
  <2>1. ToSet(body[p]) \cap ToSet(body[r]) = {}
    BY <1>1, <1>2, OnePlace
  <2> QED
    BY <1>1, <1>2, <2>1
<1>15. ASSUME NEW x, NEW y
       PROVE  /\ x \in ToSet(body[p]) /\ y \in ToSet(body[p]) => (Before(B[p], x, y) <=> Before(body[p], x, y))
              /\ x \in ToSet(body[r]) /\ y \in ToSet(body[r]) => (Before(B[p], x, y) <=> Before(body[r], x, y))
              /\ x \in ToSet(body[p]) /\ y \in ToSet(body[r]) => Before(B[p], x, y)
              /\ x \in ToSet(body[r]) /\ y \in ToSet(body[p]) => ~Before(B[p], x, y)
  BY <1>6, <1>14, OrderJoined
<1>16. ASSUME NEW x \in Observable, NEW y \in Observable
       PROVE  Later(L, B, t, x, y) <=> Later(blocks, body, term, x, y)
  <2> DEFINE Old(b, c) == /\ x \in ToSet(body[b]) /\ y \in ToSet(body[c])
                          /\ W(b, c) \/ (b = c /\ Before(body[b], x, y))
             New(b, c) == /\ x \in ToSet(B[b]) /\ y \in ToSet(B[c])
                          /\ V(b, c) \/ (b = c /\ Before(B[b], x, y))
  <2>1. Later(blocks, body, term, x, y) <=> \E b, c \in blocks : Old(b, c)
    BY DEF Later
  <2>2. Later(L, B, t, x, y) <=> \E b, c \in L : New(b, c)
    BY DEF Later
  <2> HIDE DEF W, V
  <2>3. \A b \in L \ {p} : (x \in ToSet(B[b]) <=> x \in ToSet(body[b])) /\ (y \in ToSet(B[b]) <=> y \in ToSet(body[b]))
                           /\ (Before(B[b], x, y) <=> Before(body[b], x, y))
    BY <1>6
  <2>4. ASSUME NEW b \in L \ {p}, NEW c \in L \ {p} PROVE New(b, c) <=> Old(b, c)
    BY <1>11, <2>3
  <2>5. ASSUME NEW b \in L \ {p} PROVE New(b, p) <=> Old(b, p) \/ Old(b, r)
    BY <1>1, <1>5, <1>6, <1>7, <1>11, <2>3
  <2>6. ASSUME NEW c \in L \ {p} PROVE New(p, c) <=> Old(p, c) \/ Old(r, c)
    BY <1>1, <1>5, <1>6, <1>7, <1>12, <1>13, <2>3
  <2>7. New(p, p) <=> Old(p, p) \/ Old(p, r) \/ Old(r, p) \/ Old(r, r)
    <3>1. V(p, p) <=> W(r, r)
      BY <1>12
    <3>2. W(p, p) <=> W(r, p)
      BY <1>7, <1>13
    <3>3. V(p, p) <=> W(r, p)
      BY <1>7, <1>12
    <3>4. W(p, r)
      BY <1>13
    <3> QED
      BY <1>1, <1>6, <1>15, <3>1, <3>2, <3>3, <3>4
  <2>8. blocks = L \cup {r}
    BY <1>1, <1>5
  <2> HIDE DEF Old, New
  <2>9. (\E b, c \in L : New(b, c)) <=> \E b, c \in blocks : Old(b, c)
    <3>1. ASSUME NEW b \in L, NEW c \in L, New(b, c) PROVE \E bb, cc \in blocks : Old(bb, cc)
      BY <1>1, <1>7, <2>4, <2>5, <2>6, <2>7, <2>8, <3>1
    <3>2. ASSUME NEW b \in blocks, NEW c \in blocks, Old(b, c) PROVE \E bb, cc \in L : New(bb, cc)
      BY <1>1, <1>7, <2>4, <2>5, <2>6, <2>7, <2>8, <3>2
    <3> QED
      BY <3>1, <3>2
  <2> QED
    BY <2>1, <2>2, <2>9
<1> QED
  BY <1>1, <1>3, <1>4, <1>5, <1>16, FlowBy

LEMMA FlowInit == Init => FlowInv
<1> SUFFICES ASSUME Init PROVE FlowInv
  OBVIOUS
<1>1. blocks = prog.blocks /\ body = prog.body /\ term = prog.term
  BY DEF Init
<1> QED
  BY <1>1 DEF FlowInv

LEMMA FlowNext == TInv /\ KeptInv /\ ClosedInv /\ FlowInv /\ [Next]_vars => FlowInv'
<1> SUFFICES ASSUME TInv, KeptInv, ClosedInv, FlowInv, [Next]_vars PROVE FlowInv'
  OBVIOUS
<1>1. ASSUME NEW i \in Insts, EraseDead(i) PROVE FlowInv'
  <2>1. /\ pc = "dead" /\ i \in Slice.insts /\ i \in Live /\ ClassOf(i) \notin {"invoke", "asm"}
        /\ body' = WithoutInst(i) /\ UNCHANGED <<prog, blocks, term>>
    BY <1>1 DEF EraseDead, canEraseInstruction
  <2>2. i # CB
    BY <2>1 DEF KeptInv, CallInv
  <2>3. ClassOf(i) \notin {"check", "runtime", "effect"}
    BY <2>1, <2>2 DEF KeptInv, SliceInv
  <2>4. i \notin Observable
    BY <2>1, <2>3 DEF Observable, isCheck
  <2> QED
    BY <2>1, <2>4, FlowErase
<1>2. ASSUME NEW i \in Insts, CleanUp(i) PROVE FlowInv'
  <2>1. ClassOf(i) \in {"pure", "load", "phi"} /\ body' = WithoutInst(i) /\ UNCHANGED <<prog, blocks, term>>
    BY <1>2 DEF CleanUp, isInstructionTriviallyDead
  <2>2. i \notin Observable
    BY <2>1 DEF Observable, isCheck
  <2> QED
    BY <2>1, <2>2, FlowErase
<1>3. CASE EraseDirect
  <2>1. pc = "bypass" /\ ClassOf(CB) = "check" /\ body' = WithoutInst(CB) /\ UNCHANGED <<prog, blocks, term>>
    BY <1>3 DEF EraseDirect
  <2>2. CB \notin Observable
    BY <2>1 DEF KeptInv, CallInv, Observable
  <2> QED
    BY <2>1, <2>2, FlowErase
<1>4. CASE EliminateUnreachableBlocks
  <2>1. /\ pc \in {"cleanup", "lastcleanup"} /\ blocks' = blocks \cap Reachable /\ UNCHANGED <<prog, body, term>>
    BY <1>4 DEF EliminateUnreachableBlocks
  <2>2. blocks' = blocks
    BY <2>1 DEF KeptInv, ReachInv
  <2> QED
    BY <2>1, <2>2, FlowSame
<1>5. ASSUME NEW i \in Insts, TakeCall(i) PROVE FlowInv'
  <2>1. UNCHANGED <<prog, blocks, body, term>>
    BY <1>5 DEF TakeCall, ir
  <2> QED
    BY <2>1, FlowSame
<1>6. CASE StartBypass \/ Refuse \/ SliceErased \/ Merged \/ LastCleanup \/ Return \/ UNCHANGED vars
  <2>1. UNCHANGED <<prog, blocks, body, term>>
    BY <1>6 DEF StartBypass, Refuse, SliceErased, Merged, LastCleanup, Return, vars, ir
  <2> QED
    BY <2>1, FlowSame
<1> QED
  BY <1>1, <1>2, <1>3, <1>4, <1>5, <1>6, FlowRedirect, FlowDelete, FlowMerge DEF Next

(* In a function as sanitizers leave it, whatever of the program could be   *)
(* executed after something else still can, and nothing new can: the        *)
(* branches bypassReportBlock redirects, the blocks DeleteDeadBlock and     *)
(* simplifyCFG take out and the blocks they join change no order of work.   *)
THEOREM WaysStay == AsInstrumented(prog) /\ Spec => []FlowPreserved
<1>1. TInv /\ KeptInv /\ FlowInv => FlowPreserved
  <2> SUFFICES ASSUME TInv, KeptInv, FlowInv, NEW x \in Observable, NEW y \in Observable
               PROVE  CanFollow([b \in blocks |-> body[b]], term, x, y)
                        <=> CanFollow([b \in prog.blocks |-> prog.body[b]], prog.term, x, y)
    BY DEF FlowPreserved
  <2>1. PlacedIn(blocks, body) /\ x \in Live /\ y \in Live
    BY DEF TInv, KeptInv
  <2>2. (\E b \in blocks : x \in ToSet(body[b])) /\ (\E b \in blocks : y \in ToSet(body[b]))
    BY <2>1 DEF Live, InstsOf
  <2>3. PlacedIn(prog.blocks, prog.body)
    BY ProgramFacts DEF TInv, IsFunction, PlacedIn
  <2>4. (\E b \in prog.blocks : x \in ToSet(prog.body[b])) /\ (\E b \in prog.blocks : y \in ToSet(prog.body[b]))
    BY DEF Observable, Code0
  <2>5. CanFollow([b \in blocks |-> body[b]], term, x, y) <=> Later(blocks, body, term, x, y)
    BY <2>1, <2>2, LaterIs
  <2>6. CanFollow([b \in prog.blocks |-> prog.body[b]], prog.term, x, y)
           <=> Later(prog.blocks, prog.body, prog.term, x, y)
    BY <2>3, <2>4, LaterIs
  <2> QED
    BY <2>5, <2>6 DEF FlowInv
<1> QED
  BY <1>1, FlowInit, FlowNext, TypeInvariance, KeptInvariance, ClosedInvariance, PTL DEF Spec

-----------------------------------------------------------------------------
(* Layer 5: the IR is well formed at every step, not only between two       *)
(* removals, as long as bypassed blocks can be spared.                      *)

UsesInv ==
    /\ \A i \in Live : Operands(i) \subseteq Live
    /\ \A b \in blocks : term[b].cond \in Live \cup {None}

PhiInv ==
    \A b \in blocks : \A i \in InstsOf(b) :
        ClassOf(i) = "phi" => DOMAIN incoming[i] \in {predecessors(b), {None}}

ShapeInv == UsesInv /\ PhiInv

LEMMA PhisEntered ==
    ASSUME TInv, KeptInv
    PROVE  \A i \in Insts : ClassOf(i) = "phi" => i \in DOMAIN incoming
  BY DEF KeptInv, AsInstrumented, ValuesInv, ClassOf

LEMMA ShapeInit == Init /\ WellFormedIR => ShapeInv
<1> SUFFICES ASSUME Init, WellFormedIR PROVE ShapeInv
  OBVIOUS
<1>1. Between
  BY DEF Init, Between
<1> QED
  BY <1>1 DEF WellFormedIR, ShapeInv, UsesInv, PhiInv

LEMMA ShapeSame ==
    ASSUME ShapeInv, UNCHANGED <<prog, blocks, body, term, incoming>>
    PROVE  ShapeInv'
<1>1. /\ \A b : InstsOf(b)' = InstsOf(b) /\ Succs(b)' = Succs(b)
      /\ \A i : ClassOf(i)' = ClassOf(i)
  BY DEF InstsOf, Succs, ClassOf
<1>2. Live' = Live /\ \A b : predecessors(b)' = predecessors(b)
  BY <1>1 DEF Live, predecessors
<1>3. \A i : Operands(i)' = Operands(i)
  BY <1>1 DEF Operands
<1> QED
  BY <1>1, <1>2, <1>3 DEF ShapeInv, UsesInv, PhiInv

\* An instruction that nothing uses can go.
LEMMA ShapeErase ==
    ASSUME TInv, ShapeInv, NEW i, UseEmpty(i), body' = WithoutInst(i),
           UNCHANGED <<prog, blocks, term, incoming>>
    PROVE  ShapeInv'
<1>1. Live' = Live \ {i}
  BY LiveWithout
<1>2. PICK B : B = body'
  OBVIOUS
<1>3. body \in [Blocks -> Seq(Insts)] /\ blocks \subseteq Blocks /\ PlacedIn(blocks, body)
  BY DEF TInv, TypeOK
<1>4. \A b \in Blocks : ToSet(B[b]) \subseteq ToSet(body[b])
  BY <1>2, <1>3, WithoutFacts
<1>5. \A b \in blocks : InstsOf(b)' \subseteq InstsOf(b)
  BY <1>2, <1>3, <1>4 DEF InstsOf
<1>6. \A b : predecessors(b)' = predecessors(b)
  BY DEF predecessors, Succs
<1>7. \A j : ClassOf(j)' = ClassOf(j) /\ Operands(j)' = Operands(j)
  BY DEF ClassOf, Operands
<1>8. UsesInv'
  <2>1. ASSUME NEW j \in Live, j # i PROVE Operands(j) \subseteq Live \ {i}
    BY DEF ShapeInv, UsesInv, UseEmpty, UserInsts
  <2>2. ASSUME NEW b \in blocks PROVE term[b].cond \in (Live \ {i}) \cup {None}
    BY DEF ShapeInv, UsesInv, UseEmpty, UserBranches
  <2> QED
    BY <1>1, <1>7, <2>1, <2>2 DEF UsesInv
<1>9. PhiInv'
  BY <1>5, <1>6, <1>7 DEF ShapeInv, PhiInv
<1> QED
  BY <1>8, <1>9 DEF ShapeInv

\* What KeepIncoming leaves of a phi.
LEMMA KeepFacts ==
    ASSUME NEW b, NEW P, NEW i \in DOMAIN incoming, NEW k, k = KeepIncoming(incoming, b, P)
    PROVE  /\ i \notin InstsOf(b) => k[i] = incoming[i]
           /\ i \in InstsOf(b) => /\ DOMAIN k[i] = DOMAIN incoming[i] \cap (P \cup {None})
                                  /\ \A q \in DOMAIN k[i] : k[i][q] = incoming[i][q]
<1>1. CASE i \in InstsOf(b)
  <2>1. k[i] = [p \in DOMAIN incoming[i] \cap (P \cup {None}) |-> incoming[i][p]]
    BY <1>1 DEF KeepIncoming
  <2> QED
    BY <1>1, <2>1
<1>2. CASE i \notin InstsOf(b)
  BY <1>2 DEF KeepIncoming
<1> QED
  BY <1>1, <1>2

LEMMA ShapeRedirect ==
    ASSUME TInv, KeptInv, ClosedInv, ShapeInv, BypassIsClean, NEW p \in Blocks, Redirect(p)
    PROVE  ShapeInv'
<1>1. /\ pc = "redirect" /\ p \in Preds /\ UNCHANGED <<prog, blocks, body>>
      /\ incoming' = KeepIncoming(incoming, Rep, predecessors(Rep) \ {p})
  BY DEF Redirect, Rep
<1>2. PICK R, S \in Blocks :
         /\ R = Rep /\ S = SafeSucc(p, R) /\ S # R /\ p # R /\ p \in predecessors(R)
         /\ ToSet(term'[p].to) = {S} /\ term'[p].cond = None
         /\ \A q \in Blocks \ {p} : term'[q] = term[q]
         /\ R \in Succs(p) /\ Succs(p) \subseteq {R, S} /\ Succs(R) \subseteq {S}
         /\ S \in Succs(p) \cup Succs(R)
  BY RedirectFacts
<1>3. /\ blocks \subseteq Blocks /\ PlacedIn(blocks, body)
      /\ \A b \in Blocks : InstsOf(b) \subseteq Insts
      /\ Live \subseteq Insts
  BY LiveInsts DEF TInv, TypeOK
<1>4. /\ \A b : InstsOf(b)' = InstsOf(b)
      /\ \A i : ClassOf(i)' = ClassOf(i)
      /\ Live' = Live
  BY <1>1, SameCode
<1>5. R \in blocks /\ S \in blocks /\ p \in blocks
  <2>1. p \in blocks
    BY <1>2 DEF predecessors
  <2>2. R \in blocks
    BY <1>2, <2>1 DEF ClosedInv
  <2> QED
    BY <1>2, <2>1, <2>2 DEF ClosedInv
<1>6. PICK k : k = incoming'
  OBVIOUS
<1>7. \A i \in DOMAIN incoming :
         /\ i \notin InstsOf(R) => k[i] = incoming[i]
         /\ i \in InstsOf(R) => /\ DOMAIN k[i] = DOMAIN incoming[i] \cap ((predecessors(R) \ {p}) \cup {None})
                                /\ \A q \in DOMAIN k[i] : k[i][q] = incoming[i][q]
  BY <1>1, <1>2, <1>6, KeepFacts
<1>8. \A i \in Live : Operands(i)' \subseteq Operands(i)
  <2> SUFFICES ASSUME NEW i \in Live PROVE Operands(i)' \subseteq Operands(i)
    OBVIOUS
  <2>1. CASE ClassOf(i) # "phi"
    BY <1>1, <1>4, <2>1 DEF Operands
  <2>2. CASE ClassOf(i) = "phi"
    <3>1. i \in DOMAIN incoming
      BY <1>3, <2>2, PhisEntered
    <3>2. DOMAIN k[i] \subseteq DOMAIN incoming[i] /\ \A q \in DOMAIN k[i] : k[i][q] = incoming[i][q]
      BY <1>7, <3>1
    <3> QED
      BY <1>4, <1>6, <2>2, <3>2 DEF Operands
  <2> QED
    BY <2>1, <2>2
<1>9. UsesInv'
  <2>1. \A b \in blocks : term'[b].cond \in Live \cup {None}
    BY <1>2, <1>3 DEF ShapeInv, UsesInv
  <2> QED
    BY <1>1, <1>4, <1>8, <2>1 DEF ShapeInv, UsesInv
<1>10. /\ predecessors(R)' = predecessors(R) \ {p}
       /\ predecessors(S)' = predecessors(S) \cup {p}
       /\ \A b \in blocks \ {R, S} : predecessors(b)' = predecessors(b)
  <2>1. \A q \in blocks \ {p} : Succs(q)' = Succs(q)
    BY <1>2, <1>3 DEF Succs
  <2>2. Succs(p)' = {S}
    BY <1>2 DEF Succs
  <2>3. \A b : predecessors(b)' = {q \in blocks : b \in Succs(q)'}
    BY <1>1 DEF predecessors
  <2> QED
    BY <1>2, <1>5, <2>1, <2>2, <2>3 DEF predecessors
<1>11. ASSUME NEW b \in blocks, NEW i \in InstsOf(b), ClassOf(i) = "phi"
       PROVE  DOMAIN k[i] \in {predecessors(b)', {None}}
  <2>1. i \in DOMAIN incoming /\ DOMAIN incoming[i] \in {predecessors(b), {None}}
    BY <1>3, <1>11, PhisEntered DEF ShapeInv, PhiInv
  <2>2. CASE b = R
    <3>1. None \notin predecessors(R)
      BY <1>3, ProgramsAssumption DEF predecessors
    <3> QED
      BY <1>7, <1>10, <1>11, <2>1, <2>2, <3>1
  <2>3. CASE b # R
    <3>1. i \notin InstsOf(R)
      BY <1>3, <1>5, <1>11, <2>3, OnePlace DEF InstsOf
    <3>2. k[i] = incoming[i]
      BY <1>7, <2>1, <3>1
    <3>3. CASE b # S
      BY <1>10, <2>1, <2>3, <3>2, <3>3
    <3>4. CASE b = S
      <4>1. p \notin predecessors(S) => DOMAIN incoming[i] = {None}
        BY <1>1, <1>2, <1>11, <3>4 DEF BypassIsClean, Rep
      <4> QED
        BY <1>10, <2>1, <3>2, <3>4, <4>1
    <3> QED
      BY <3>3, <3>4
  <2> QED
    BY <2>2, <2>3
<1>12. PhiInv'
  BY <1>1, <1>4, <1>6, <1>11 DEF PhiInv
<1> QED
  BY <1>9, <1>12 DEF ShapeInv

LEMMA ShapeDelete ==
    ASSUME TInv, KeptInv, ClosedInv, ShapeInv, BypassIsClean, DeleteReportBlock
    PROVE  ShapeInv'
<1>1. /\ pc = "redirect" /\ blocks' = blocks \ {Rep} /\ predecessors(Rep) = {}
      /\ incoming' = IF Fallthrough(Rep) = None THEN incoming
                     ELSE KeepIncoming(incoming, Fallthrough(Rep), Blocks \ {Rep})
      /\ UNCHANGED <<prog, body, term>>
  BY DEF DeleteReportBlock, Rep
<1>2. PICK R : R = Rep
  OBVIOUS
<1>3. /\ blocks \subseteq Blocks /\ PlacedIn(blocks, body) /\ term \in [Blocks -> Terminators] /\ Arity(term)
      /\ \A b \in Blocks : InstsOf(b) \subseteq Insts
      /\ Live \subseteq Insts
  BY LiveInsts DEF TInv, TypeOK
<1>4. R \in blocks /\ CB \in InstsOf(R)
  BY <1>1, <1>2 DEF KeptInv, CallInv, Live, Rep, BlockOf
<1>5. /\ \A b : InstsOf(b)' = InstsOf(b) /\ Succs(b)' = Succs(b)
      /\ \A i : ClassOf(i)' = ClassOf(i)
  BY <1>1 DEF InstsOf, Succs, ClassOf
<1>6. \A b \in blocks \ {R} : \A i \in InstsOf(b) : i \notin InstsOf(R)
  BY <1>3, <1>4, OnePlace DEF InstsOf
<1>7. Live' = Live \ InstsOf(R)
  <2>1. Live' = UNION {InstsOf(b) : b \in blocks \ {R}}
    BY <1>1, <1>2, <1>5 DEF Live
  <2> QED
    BY <1>6, <2>1 DEF Live
<1>8. /\ term[R].op \in {"br", "unreachable"}
      /\ Fallthrough(R) # None => Succs(R) = {Fallthrough(R)}
      /\ Fallthrough(R) = None => Succs(R) = {}
  <2>1. term[R].op \in {"br", "unreachable"} /\ R \in Blocks
    BY <1>1, <1>2, <1>3, <1>4 DEF TInv, BypassInv
  <2> QED
    BY <1>3, <2>1, Targets, ProgramsAssumption DEF Fallthrough
<1>9. /\ \A b \in blocks : b # Fallthrough(R) => R \notin predecessors(b)
      /\ \A b : predecessors(b)' = predecessors(b) \ {R}
  <2>1. \A b : predecessors(b)' = {q \in blocks \ {R} : b \in Succs(q)}
    BY <1>1, <1>2, <1>5 DEF predecessors
  <2> QED
    BY <1>8, <2>1 DEF predecessors
<1>10. PICK k : k = incoming'
  OBVIOUS
<1>11. \A i \in DOMAIN incoming :
         /\ k[i] = incoming[i] \/ i \in InstsOf(Fallthrough(R))
         /\ Fallthrough(R) # None /\ i \in InstsOf(Fallthrough(R)) =>
               /\ DOMAIN k[i] = DOMAIN incoming[i] \cap ((Blocks \ {R}) \cup {None})
               /\ \A q \in DOMAIN k[i] : k[i][q] = incoming[i][q]
         /\ Fallthrough(R) = None => k[i] = incoming[i]
  <2>1. CASE Fallthrough(R) = None
    BY <1>1, <1>2, <1>10, <2>1
  <2>2. CASE Fallthrough(R) # None
    <3>1. k = KeepIncoming(incoming, Fallthrough(R), Blocks \ {R})
      BY <1>1, <1>2, <1>10, <2>2
    <3> QED
      BY <2>2, <3>1, KeepFacts
  <2> QED
    BY <2>1, <2>2
<1>12. ASSUME NEW b \in blocks \ {R}, NEW i \in InstsOf(b), ClassOf(i) = "phi"
       PROVE  /\ i \in DOMAIN incoming
              /\ DOMAIN k[i] \in {predecessors(b)', {None}}
              /\ DOMAIN k[i] \subseteq DOMAIN incoming[i] \ {R}
              /\ \A q \in DOMAIN k[i] : k[i][q] = incoming[i][q]
  <2>1. i \in DOMAIN incoming /\ DOMAIN incoming[i] \in {predecessors(b), {None}}
    BY <1>3, <1>12, PhisEntered DEF ShapeInv, PhiInv
  <2>2. predecessors(b) \subseteq Blocks /\ R # None /\ None \notin Blocks
    BY <1>3, <1>4, ProgramsAssumption DEF predecessors
  <2>3. CASE b = Fallthrough(R)
    <3>1. Fallthrough(R) # None
      BY <1>3, <1>12, <2>2, <2>3
    <3>2. DOMAIN k[i] = DOMAIN incoming[i] \cap ((Blocks \ {R}) \cup {None}) /\ \A q \in DOMAIN k[i] : k[i][q] = incoming[i][q]
      BY <1>11, <1>12, <2>1, <2>3, <3>1
    <3> QED
      BY <1>9, <2>1, <2>2, <3>2
  <2>4. CASE b # Fallthrough(R)
    <3>1. k[i] = incoming[i]
      <4>1. CASE Fallthrough(R) = None
        BY <1>11, <2>1, <4>1
      <4>2. CASE Fallthrough(R) # None
        <5>1. Fallthrough(R) \in blocks
          BY <1>4, <1>8, <4>2 DEF ClosedInv
        <5>2. i \notin InstsOf(Fallthrough(R))
          BY <1>3, <1>12, <2>4, <5>1, OnePlace DEF InstsOf
        <5> QED
          BY <1>11, <2>1, <5>2
      <4> QED
        BY <4>1, <4>2
    <3>2. R \notin predecessors(b)
      BY <1>9, <2>4
    <3> QED
      BY <1>9, <2>1, <2>2, <3>1, <3>2
  <2> QED
    BY <2>3, <2>4
<1>13. ASSUME NEW j \in Live \ InstsOf(R) PROVE Operands(j)' \subseteq Live \ InstsOf(R)
  <2>1. Operands(j) \subseteq Live /\ \A i \in InstsOf(R) : i \notin OperandsBut(j, R)
    BY <1>1, <1>2 DEF ShapeInv, UsesInv, BypassIsClean, Rep
  <2>2. CASE ClassOf(j) # "phi"
    BY <1>1, <1>5, <2>1, <2>2 DEF Operands, OperandsBut
  <2>3. CASE ClassOf(j) = "phi"
    <3>1. PICK b \in blocks \ {R} : j \in InstsOf(b)
      BY DEF Live
    <3>2. DOMAIN k[j] \subseteq DOMAIN incoming[j] \ {R} /\ \A q \in DOMAIN k[j] : k[j][q] = incoming[j][q]
      BY <1>12, <2>3, <3>1
    <3>3. Operands(j)' = {k[j][q] : q \in DOMAIN k[j]} \ {None}
      BY <1>5, <1>10, <2>3 DEF Operands
    <3>4. Operands(j) = {incoming[j][q] : q \in DOMAIN incoming[j]} \ {None}
      BY <2>3 DEF Operands
    <3>5. OperandsBut(j, R) = {incoming[j][q] : q \in DOMAIN incoming[j] \ {R}}
      BY <2>3 DEF OperandsBut
    <3> QED
      BY <2>1, <3>2, <3>3, <3>4, <3>5
  <2> QED
    BY <2>2, <2>3
<1>14. UsesInv'
  <2>1. ASSUME NEW b \in blocks \ {R} PROVE term[b].cond \in (Live \ InstsOf(R)) \cup {None}
    BY <1>1, <1>2 DEF ShapeInv, UsesInv, BypassIsClean, Rep
  <2> QED
    BY <1>1, <1>2, <1>7, <1>13, <2>1 DEF UsesInv
<1>15. PhiInv'
  BY <1>1, <1>2, <1>5, <1>10, <1>12 DEF PhiInv
<1> QED
  BY <1>14, <1>15 DEF ShapeInv

\* All blocks can be reached: nothing changes.
LEMMA ShapeEliminate ==
    ASSUME TInv, KeptInv, ShapeInv, EliminateUnreachableBlocks
    PROVE  ShapeInv'
<1>1. /\ pc \in {"cleanup", "lastcleanup"} /\ blocks' = blocks \cap Reachable
      /\ incoming' = [i \in DOMAIN incoming |->
                         [p \in DOMAIN incoming[i] \cap (Reachable \cup {None}) |-> incoming[i][p]]]
      /\ UNCHANGED <<prog, body, term>>
  BY DEF EliminateUnreachableBlocks
<1>2. blocks' = blocks /\ blocks \subseteq Reachable
  BY <1>1 DEF KeptInv, ReachInv
<1>3. /\ \A b : InstsOf(b)' = InstsOf(b) /\ Succs(b)' = Succs(b)
      /\ \A i : ClassOf(i)' = ClassOf(i)
  BY <1>1 DEF InstsOf, Succs, ClassOf
<1>4. Live' = Live /\ \A b : predecessors(b)' = predecessors(b)
  BY <1>2, <1>3 DEF Live, predecessors
<1>5. PICK k : k = incoming'
  OBVIOUS
<1>6. ASSUME NEW b \in blocks, NEW i \in InstsOf(b), ClassOf(i) = "phi"
      PROVE  DOMAIN k[i] = DOMAIN incoming[i] /\ \A q \in DOMAIN k[i] : k[i][q] = incoming[i][q]
  <2>1. i \in DOMAIN incoming /\ DOMAIN incoming[i] \in {predecessors(b), {None}}
    <3>1. i \in Insts
      BY LiveInsts DEF TInv, Live
    <3> QED
      BY <1>6, <3>1, PhisEntered DEF ShapeInv, PhiInv
  <2>2. DOMAIN incoming[i] \subseteq Reachable \cup {None}
    BY <1>2, <2>1 DEF predecessors
  <2>3. k[i] = [p \in DOMAIN incoming[i] \cap (Reachable \cup {None}) |-> incoming[i][p]]
    BY <1>1, <1>5, <2>1
  <2> QED
    BY <2>2, <2>3
<1>7. \A i \in Live : Operands(i)' = Operands(i)
  <2> SUFFICES ASSUME NEW i \in Live PROVE Operands(i)' = Operands(i)
    OBVIOUS
  <2>1. CASE ClassOf(i) # "phi"
    BY <1>1, <1>3, <2>1 DEF Operands
  <2>2. CASE ClassOf(i) = "phi"
    <3>1. PICK b \in blocks : i \in InstsOf(b)
      BY DEF Live
    <3>2. DOMAIN k[i] = DOMAIN incoming[i] /\ \A q \in DOMAIN k[i] : k[i][q] = incoming[i][q]
      BY <1>6, <2>2, <3>1
    <3> QED
      BY <1>3, <1>5, <2>2, <3>2 DEF Operands
  <2> QED
    BY <2>1, <2>2
<1>8. UsesInv'
  BY <1>1, <1>2, <1>4, <1>7 DEF ShapeInv, UsesInv
<1>9. PhiInv'
  BY <1>2, <1>3, <1>4, <1>5, <1>6 DEF ShapeInv, PhiInv
<1> QED
  BY <1>8, <1>9 DEF ShapeInv

LEMMA ShapeMerge ==
    ASSUME TInv, KeptInv, ShapeInv, NEW r \in Blocks, Merge(r)
    PROVE  ShapeInv'
<1>1. PICK p \in blocks :
         /\ r \in blocks /\ p # r
         /\ predecessors(r) = {p} /\ Succs(p) = {r} /\ r \notin Succs(r)
         /\ blocks' = blocks \ {r} /\ body' = [body EXCEPT ![p] = body[p] \o body[r]]
         /\ term'[p] = term[r] /\ (\A q \in Blocks \ {p} : term'[q] = term[q])
         /\ incoming' = [i \in DOMAIN incoming |->
                IF i \in InstsOf(r) /\ p \in DOMAIN incoming[i]
                THEN [q \in {None} |-> incoming[i][p]]
                ELSE IF r \in DOMAIN incoming[i]
                THEN [q \in (DOMAIN incoming[i] \ {r}) \cup {p} |->
                         incoming[i][IF q = p THEN r ELSE q]]
                ELSE incoming[i]]
         /\ prog' = prog
  BY JoinFacts
<1>2. /\ body \in [Blocks -> Seq(Insts)] /\ blocks \subseteq Blocks /\ PlacedIn(blocks, body)
      /\ \A b \in Blocks : InstsOf(b) \subseteq Insts
      /\ Live \subseteq Insts
  BY LiveInsts DEF TInv, TypeOK
<1>3. PICK B : B = body'
  OBVIOUS
<1>4. /\ ToSet(B[p]) = ToSet(body[p]) \cup ToSet(body[r])
      /\ \A c \in Blocks \ {p} : B[c] = body[c]
  <2>1. body' = [body EXCEPT ![p] = body[p] \o body[r]] /\ p \in blocks /\ r \in blocks /\ p # r
    BY <1>1
  <2> QED
    BY <1>2, <1>3, <2>1, MergeFacts
<1>5. /\ InstsOf(p)' = InstsOf(p) \cup InstsOf(r)
      /\ \A c \in blocks \ {p} : InstsOf(c)' = InstsOf(c)
  BY <1>2, <1>3, <1>4 DEF InstsOf
<1>6. (\A i : ClassOf(i)' = ClassOf(i)) /\ Live' = Live
  BY <1>1, LiveMerge DEF ClassOf
<1>7. PICK k : k = incoming'
  OBVIOUS
<1>8. ASSUME NEW i \in DOMAIN incoming
      PROVE  /\ i \in InstsOf(r) /\ p \in DOMAIN incoming[i] =>
                    DOMAIN k[i] = {None} /\ k[i][None] = incoming[i][p]
             /\ ~(i \in InstsOf(r) /\ p \in DOMAIN incoming[i]) /\ r \in DOMAIN incoming[i] =>
                    /\ DOMAIN k[i] = (DOMAIN incoming[i] \ {r}) \cup {p}
                    /\ \A q \in DOMAIN k[i] : k[i][q] = incoming[i][IF q = p THEN r ELSE q]
             /\ ~(i \in InstsOf(r) /\ p \in DOMAIN incoming[i]) /\ r \notin DOMAIN incoming[i] => k[i] = incoming[i]
  <2>1. k[i] = IF i \in InstsOf(r) /\ p \in DOMAIN incoming[i]
               THEN [q \in {None} |-> incoming[i][p]]
               ELSE IF r \in DOMAIN incoming[i]
               THEN [q \in (DOMAIN incoming[i] \ {r}) \cup {p} |-> incoming[i][IF q = p THEN r ELSE q]]
               ELSE incoming[i]
    BY <1>1, <1>7
  <2> QED
    BY <2>1
<1>9. ASSUME NEW i \in DOMAIN incoming, NEW q \in DOMAIN k[i]
      PROVE  \E s \in DOMAIN incoming[i] : k[i][q] = incoming[i][s]
  BY <1>8
<1>10. \A i \in Live : Operands(i)' \subseteq Operands(i)
  <2> SUFFICES ASSUME NEW i \in Live PROVE Operands(i)' \subseteq Operands(i)
    OBVIOUS
  <2>1. CASE ClassOf(i) # "phi"
    BY <1>1, <1>6, <2>1 DEF Operands
  <2>2. CASE ClassOf(i) = "phi"
    <3>1. i \in DOMAIN incoming
      BY <1>2, <2>2, PhisEntered
    <3>2. \A q \in DOMAIN k[i] : \E s \in DOMAIN incoming[i] : k[i][q] = incoming[i][s]
      BY <1>9, <3>1
    <3> QED
      BY <1>6, <1>7, <2>2, <3>2 DEF Operands
  <2> QED
    BY <2>1, <2>2
<1>11. UsesInv'
  <2>1. \A b \in blocks \ {r} : term'[b].cond \in Live \cup {None}
    BY <1>1, <1>2 DEF ShapeInv, UsesInv
  <2> QED
    BY <1>1, <1>6, <1>10, <2>1 DEF ShapeInv, UsesInv
<1>12. ASSUME NEW c \in blocks \ {r}
       PROVE  /\ p \notin predecessors(c)
              /\ r \in predecessors(c) => predecessors(c)' = (predecessors(c) \ {r}) \cup {p}
              /\ r \notin predecessors(c) => predecessors(c)' = predecessors(c)
  <2>1. Succs(p)' = Succs(r) /\ \A q \in blocks \ {p} : Succs(q)' = Succs(q)
    BY <1>1, <1>2 DEF Succs
  <2>2. predecessors(c)' = {q \in blocks \ {r} : c \in Succs(q)'}
    BY <1>1 DEF predecessors
  <2>3. p \notin predecessors(c)
    BY <1>1, <1>12 DEF predecessors
  <2> QED
    BY <1>1, <2>1, <2>2, <2>3 DEF predecessors
<1>13. None \notin blocks
  BY <1>2, ProgramsAssumption
<1>14. ASSUME NEW b \in blocks, NEW i \in InstsOf(b), ClassOf(i) = "phi"
       PROVE  i \in DOMAIN incoming /\ DOMAIN incoming[i] \in {predecessors(b), {None}}
  BY <1>2, <1>14, PhisEntered DEF ShapeInv, PhiInv
<1>15. ASSUME NEW c \in blocks \ {r}, NEW i \in InstsOf(c), ClassOf(i) = "phi"
       PROVE  DOMAIN k[i] \in {predecessors(c)', {None}}
  <2>1. i \in DOMAIN incoming /\ DOMAIN incoming[i] \in {predecessors(c), {None}}
    BY <1>14, <1>15
  <2>2. i \notin InstsOf(r)
    BY <1>1, <1>2, <1>15, OnePlace DEF InstsOf
  <2>3. CASE r \in DOMAIN incoming[i]
    <3>1. DOMAIN incoming[i] = predecessors(c)
      BY <1>1, <1>13, <2>1, <2>3
    <3>2. DOMAIN k[i] = (DOMAIN incoming[i] \ {r}) \cup {p}
      BY <1>8, <2>1, <2>2, <2>3
    <3> QED
      BY <1>12, <2>3, <3>1, <3>2
  <2>4. CASE r \notin DOMAIN incoming[i]
    <3>1. k[i] = incoming[i]
      BY <1>8, <2>1, <2>2, <2>4
    <3> QED
      BY <1>12, <2>1, <2>4, <3>1
  <2> QED
    BY <2>3, <2>4
<1>16. ASSUME NEW i \in InstsOf(r), ClassOf(i) = "phi" PROVE DOMAIN k[i] = {None}
  <2>1. i \in DOMAIN incoming /\ DOMAIN incoming[i] \in {{p}, {None}}
    BY <1>1, <1>14, <1>16
  <2> QED
    BY <1>1, <1>8, <1>13, <1>16, <2>1
<1>17. PhiInv'
  <2> SUFFICES ASSUME NEW c \in blocks \ {r}, NEW i \in InstsOf(c)', ClassOf(i) = "phi"
               PROVE  DOMAIN k[i] \in {predecessors(c)', {None}}
    BY <1>1, <1>6, <1>7 DEF PhiInv
  <2>1. i \in InstsOf(c) \/ i \in InstsOf(r)
    BY <1>5
  <2> QED
    BY <1>15, <1>16, <2>1
<1> QED
  BY <1>11, <1>17 DEF ShapeInv

LEMMA ShapeNext ==
    TInv /\ KeptInv /\ ClosedInv /\ ShapeInv /\ BypassIsClean /\ [Next]_vars => ShapeInv'
<1> SUFFICES ASSUME TInv, KeptInv, ClosedInv, ShapeInv, BypassIsClean, [Next]_vars PROVE ShapeInv'
  OBVIOUS
<1>1. ASSUME NEW i \in Insts, EraseDead(i) \/ CleanUp(i) PROVE ShapeInv'
  <2>1. UseEmpty(i) /\ body' = WithoutInst(i) /\ UNCHANGED <<prog, blocks, term, incoming>>
    BY <1>1 DEF EraseDead, canEraseInstruction, CleanUp, isInstructionTriviallyDead
  <2> QED
    BY <2>1, ShapeErase
<1>2. CASE EraseDirect
  <2>1. UseEmpty(CB) /\ body' = WithoutInst(CB) /\ UNCHANGED <<prog, blocks, term, incoming>>
    BY <1>2 DEF EraseDirect
  <2> QED
    BY <2>1, ShapeErase
<1>3. ASSUME NEW i \in Insts, TakeCall(i) PROVE ShapeInv'
  <2>1. UNCHANGED <<prog, blocks, body, term, incoming>>
    BY <1>3 DEF TakeCall, ir
  <2> QED
    BY <2>1, ShapeSame
<1>4. CASE StartBypass \/ Refuse \/ SliceErased \/ Merged \/ LastCleanup \/ Return \/ UNCHANGED vars
  <2>1. UNCHANGED <<prog, blocks, body, term, incoming>>
    BY <1>4 DEF StartBypass, Refuse, SliceErased, Merged, LastCleanup, Return, vars, ir
  <2> QED
    BY <2>1, ShapeSame
<1> QED
  BY <1>1, <1>2, <1>3, <1>4, ShapeRedirect, ShapeDelete, ShapeEliminate, ShapeMerge DEF Next

(* A function as sanitizers leave it that is well formed stays so from one  *)
(* removal to the next, if every bypassed block can be spared: the two      *)
(* questions BypassIsClean asks are the only ones removeCheckSlice leaves   *)
(* open.  Whatever else it erases, redirects, deletes and joins keeps       *)
(* values, branches and phis consistent.                                    *)
THEOREM IRStaysWellFormed ==
    AsInstrumented(prog) /\ WellFormedIR /\ Spec /\ []BypassIsClean => []WellFormedIR
<1>1. KeptInv /\ ClosedInv /\ ShapeInv => WellFormedIR
  BY DEF KeptInv, EntryInv, ClosedInv, ShapeInv, UsesInv, PhiInv, WellFormedIR
<1> QED
  BY <1>1, ShapeInit, ShapeNext, TypeInvariance, KeptInvariance, ClosedInvariance, PTL DEF Spec

-----------------------------------------------------------------------------
(* Layer 6: bypassed blocks can be spared, in functions whose blocks        *)
(* without effects stand aside.  A block that has no effect now never had   *)
(* one, since effects stay; so it is enough to follow those blocks.         *)

Idle(b) == \A i \in InstsOf(b) : ClassOf(i) # "effect"

HasPhis(b) == \E j \in InstsOf(b) : ClassOf(j) = "phi" /\ DOMAIN incoming[j] # {None}

ApartInv ==
    \A R \in blocks : Idle(R) => \A i \in InstsOf(R) :
        /\ \A b \in blocks \ {R} : term[b].cond # i
        /\ \A j \in Live \ InstsOf(R) : i \notin OperandsBut(j, R)

\* The block that is being bypassed loses its predecessors one by one.
AheadInv ==
    \A R, J \in blocks :
        Idle(R) /\ J \in Succs(R) /\ HasPhis(J) /\ ~(pc = "redirect" /\ J = Rep)
          => predecessors(R) \subseteq predecessors(J)

AsideInv == ApartInv /\ AheadInv

LEMMA AsideInit == Init /\ AsInstrumented(prog) /\ IdleBlocksAside(prog) => AsideInv
<1> SUFFICES ASSUME Init, AsInstrumented(prog), IdleBlocksAside(prog) PROVE AsideInv
  OBVIOUS
<1>1. /\ blocks = prog.blocks /\ body = prog.body /\ term = prog.term
      /\ incoming = prog.incoming /\ pc = "next" /\ prog \in Programs
  BY DEF Init
<1>2. IsFunction(prog)
  BY <1>1, ProgramFacts
<1>3. ASSUME NEW R \in blocks, Idle(R)
      PROVE  \A i \in ToSet(prog.body[R]) : prog.op[i] # "effect"
  BY <1>1, <1>3 DEF Idle, InstsOf, ClassOf
<1>4. ASSUME NEW R \in blocks, Idle(R), NEW i \in InstsOf(R)
      PROVE  /\ \A b \in blocks \ {R} : term[b].cond # i
             /\ \A j \in Live \ InstsOf(R) : i \notin OperandsBut(j, R)
  <2>1. ASSUME NEW b \in blocks \ {R}
        PROVE  /\ term[b].cond # i
               /\ \A j \in InstsOf(b) : IF ClassOf(j) = "phi"
                                        THEN \A q \in DOMAIN incoming[j] \ {R} : incoming[j][q] # i
                                        ELSE i \notin prog.uses[j]
    <3>1. /\ \A x \in ToSet(prog.body[R]) : prog.op[x] # "effect"
          /\ R \in prog.blocks /\ b \in prog.blocks \ {R} /\ i \in ToSet(prog.body[R])
      BY <1>1, <1>3, <1>4 DEF InstsOf
    <3>2. /\ prog.term[b].cond # i
          /\ \A j \in ToSet(prog.body[b]) :
                IF prog.op[j] = "phi"
                THEN \A q \in DOMAIN prog.incoming[j] \ {R} : prog.incoming[j][q] # i
                ELSE i \notin prog.uses[j]
      BY <3>1, Zenon DEF IdleBlocksAside
    <3> QED
      BY <1>1, <3>2 DEF InstsOf, ClassOf
  <2>2. ASSUME NEW j \in Live \ InstsOf(R) PROVE i \notin OperandsBut(j, R)
    <3>1. PICK b \in blocks \ {R} : j \in InstsOf(b)
      BY DEF Live
    <3>2. CASE ClassOf(j) = "phi"
      BY <2>1, <3>1, <3>2 DEF OperandsBut
    <3>3. CASE ClassOf(j) # "phi"
      BY <2>1, <3>1, <3>3 DEF OperandsBut, Operands
    <3> QED
      BY <3>2, <3>3
  <2> QED
    BY <2>1, <2>2
<1>5. ASSUME NEW R \in blocks, NEW J \in blocks, Idle(R), J \in Succs(R), HasPhis(J)
      PROVE  predecessors(R) \subseteq predecessors(J)
  <2>1. \E j \in ToSet(prog.body[J]) : prog.op[j] = "phi"
    BY <1>1, <1>5 DEF HasPhis, InstsOf, ClassOf
  <2>2. \A b \in prog.blocks : R \in ToSet(prog.term[b].to) => J \in ToSet(prog.term[b].to)
    BY <1>1, <1>3, <1>5, <2>1 DEF IdleBlocksAside, Succs
  <2> QED
    BY <1>1, <2>2 DEF predecessors, Succs
<1> QED
  BY <1>4, <1>5 DEF AsideInv, ApartInv, AheadInv

\* The block that is being bypassed has no effect.
LEMMA BypassedIsIdle ==
    ASSUME KeptInv, pc = "redirect"
    PROVE  Rep \in blocks /\ Idle(Rep)
  BY DEF KeptInv, CallInv, Live, Rep, BlockOf, Idle, isSanitizerOnlyInstruction

LEMMA AsideIsClean ==
    ASSUME TInv, KeptInv, ClosedInv, AsideInv
    PROVE  BypassIsClean
<1> SUFFICES ASSUME pc = "redirect"
             PROVE  /\ \A i \in InstsOf(Rep) :
                          /\ \A b \in blocks \ {Rep} : term[b].cond # i
                          /\ \A j \in Live \ InstsOf(Rep) : i \notin OperandsBut(j, Rep)
                    /\ \A p \in Preds : p \notin predecessors(SafeSucc(p, Rep)) =>
                          \A j \in InstsOf(SafeSucc(p, Rep)) :
                              ClassOf(j) = "phi" => DOMAIN incoming[j] = {None}
  BY DEF BypassIsClean, Rep
<1>1. Rep \in blocks /\ Idle(Rep)
  BY BypassedIsIdle
<1>2. ASSUME NEW p \in Preds, p \notin predecessors(SafeSucc(p, Rep))
      PROVE  ~HasPhis(SafeSucc(p, Rep))
  <2>1. PICK R, S \in Blocks :
           /\ R = Rep /\ S = SafeSucc(p, R) /\ S # R /\ p \in predecessors(R)
           /\ S \in Succs(p) \cup Succs(R)
    BY BypassFacts
  <2>2. S \in Succs(R) /\ S \in blocks
    BY <1>1, <1>2, <2>1 DEF predecessors, ClosedInv
  <2> QED
    BY <1>1, <1>2, <2>1, <2>2 DEF AsideInv, AheadInv
<1> QED
  BY <1>1, <1>2 DEF AsideInv, ApartInv, HasPhis

\* An instruction that is no effect goes: no block becomes idle.
LEMMA AsideErase ==
    ASSUME TInv, AsideInv, NEW i, ClassOf(i) # "effect", body' = WithoutInst(i),
           UNCHANGED <<prog, blocks, term, incoming>>, pc # "redirect"
    PROVE  AsideInv'
<1>1. Live' = Live \ {i}
  BY LiveWithout
<1>2. PICK B : B = body'
  OBVIOUS
<1>3. body \in [Blocks -> Seq(Insts)] /\ blocks \subseteq Blocks /\ PlacedIn(blocks, body)
  BY DEF TInv, TypeOK
<1>4. \A b \in blocks : ToSet(B[b]) = ToSet(body[b]) \ {i}
  BY <1>2, <1>3, WithoutFacts
<1>5. \A b \in blocks : InstsOf(b)' = InstsOf(b) \ {i}
  BY <1>2, <1>3, <1>4 DEF InstsOf
<1>6. \A b : Succs(b)' = Succs(b) /\ predecessors(b)' = predecessors(b)
  BY DEF predecessors, Succs
<1>7. \A j : ClassOf(j)' = ClassOf(j) /\ \A b : OperandsBut(j, b)' = OperandsBut(j, b)
  BY DEF ClassOf, Operands, OperandsBut
<1>8. \A b \in blocks : (Idle(b)' => Idle(b)) /\ (HasPhis(b)' => HasPhis(b))
  BY <1>5, <1>7 DEF Idle, HasPhis
<1>9. ApartInv'
  <2> SUFFICES ASSUME NEW R \in blocks, Idle(R)', NEW x \in InstsOf(R)'
               PROVE  /\ \A b \in blocks \ {R} : term[b].cond # x
                      /\ \A j \in Live' \ InstsOf(R)' : x \notin OperandsBut(j, R)
    BY <1>7 DEF ApartInv
  <2>1. x \in InstsOf(R) /\ Idle(R) /\ Live' \ InstsOf(R)' \subseteq Live \ InstsOf(R)
    BY <1>1, <1>5, <1>8
  <2> QED
    BY <2>1 DEF AsideInv, ApartInv
<1>10. AheadInv'
  <2> SUFFICES ASSUME NEW R \in blocks, NEW J \in blocks, Idle(R)', J \in Succs(R)', HasPhis(J)'
               PROVE  predecessors(R)' \subseteq predecessors(J)'
    BY DEF AheadInv
  <2> QED
    BY <1>6, <1>8 DEF AsideInv, AheadInv
<1> QED
  BY <1>9, <1>10 DEF AsideInv

LEMMA AsideSame ==
    ASSUME AsideInv, UNCHANGED <<prog, blocks, body, term, incoming>>, pc # "redirect"
    PROVE  AsideInv'
<1>1. /\ \A b : InstsOf(b)' = InstsOf(b) /\ Succs(b)' = Succs(b)
      /\ \A i : ClassOf(i)' = ClassOf(i)
  BY DEF InstsOf, Succs, ClassOf
<1>2. Live' = Live /\ \A b : predecessors(b)' = predecessors(b)
  BY <1>1 DEF Live, predecessors
<1>3. \A i : \A b : OperandsBut(i, b)' = OperandsBut(i, b)
  BY <1>1 DEF Operands, OperandsBut
<1>4. \A b : Idle(b)' = Idle(b) /\ HasPhis(b)' = HasPhis(b)
  BY <1>1 DEF Idle, HasPhis
<1>5. ApartInv'
  BY <1>1, <1>2, <1>3, <1>4 DEF AsideInv, ApartInv
<1>6. AheadInv'
  BY <1>1, <1>2, <1>4 DEF AsideInv, AheadInv
<1> QED
  BY <1>5, <1>6 DEF AsideInv

\* Less may be used, and phis may lose entries.
LEMMA ApartLess ==
    ASSUME ApartInv, blocks' \subseteq blocks, Live' \subseteq Live, None \notin Live,
           \A b \in blocks' : Idle(b)' => Idle(b),
           \A b \in blocks' : InstsOf(b)' = InstsOf(b),
           \A b \in blocks' : term'[b].cond \in {term[b].cond, None},
           \A j \in Live', b \in blocks' : OperandsBut(j, b)' \subseteq OperandsBut(j, b)
    PROVE  ApartInv'
<1> SUFFICES ASSUME NEW R \in blocks', Idle(R)', NEW x \in InstsOf(R)'
             PROVE  /\ \A b \in blocks' \ {R} : term'[b].cond # x
                    /\ \A j \in Live' \ InstsOf(R)' : x \notin OperandsBut(j, R)'
  BY DEF ApartInv
<1>1. x \in InstsOf(R) /\ Idle(R) /\ R \in blocks
  OBVIOUS
<1>2. /\ \A b \in blocks \ {R} : term[b].cond # x
      /\ \A j \in Live \ InstsOf(R) : x \notin OperandsBut(j, R)
  BY <1>1 DEF ApartInv
<1>3. x # None
  BY <1>1 DEF Live
<1>4. ASSUME NEW b \in blocks' \ {R} PROVE term'[b].cond # x
  BY <1>2, <1>3
<1>5. ASSUME NEW j \in Live' \ InstsOf(R)' PROVE x \notin OperandsBut(j, R)'
  BY <1>2
<1> QED
  BY <1>4, <1>5

LEMMA AsideRedirect ==
    ASSUME TInv, KeptInv, ClosedInv, AsideInv, NEW p \in Blocks, Redirect(p)
    PROVE  AsideInv'
<1>1. /\ pc = "redirect" /\ p \in Preds /\ UNCHANGED <<prog, blocks, body, pc, CB>>
      /\ incoming' = KeepIncoming(incoming, Rep, predecessors(Rep) \ {p})
  BY DEF Redirect, Rep
<1>2. PICK R, S \in Blocks :
         /\ R = Rep /\ S = SafeSucc(p, R) /\ S # R /\ p # R /\ p \in predecessors(R)
         /\ ToSet(term'[p].to) = {S} /\ term'[p].cond = None
         /\ \A q \in Blocks \ {p} : term'[q] = term[q]
         /\ R \in Succs(p) /\ Succs(p) \subseteq {R, S} /\ Succs(R) \subseteq {S}
         /\ S \in Succs(p) \cup Succs(R)
  BY RedirectFacts
<1>3. /\ blocks \subseteq Blocks /\ PlacedIn(blocks, body)
      /\ Live \subseteq Insts
  BY LiveInsts DEF TInv, TypeOK
<1>4. /\ \A b : InstsOf(b)' = InstsOf(b)
      /\ \A i : ClassOf(i)' = ClassOf(i)
      /\ Live' = Live
  BY <1>1, SameCode
<1>5. R \in blocks /\ S \in blocks /\ p \in blocks /\ Idle(R) /\ Rep' = R
  <2>1. p \in blocks
    BY <1>2 DEF predecessors
  <2>2. R \in blocks /\ Idle(R)
    BY <1>1, <1>2, BypassedIsIdle
  <2>3. Rep' = Rep
    BY <1>1, <1>4 DEF Rep, BlockOf
  <2> QED
    BY <1>2, <2>1, <2>2, <2>3 DEF ClosedInv
<1>6. PICK k : k = incoming'
  OBVIOUS
<1>7. ASSUME NEW j \in Live, ClassOf(j) = "phi"
      PROVE  /\ DOMAIN k[j] \subseteq DOMAIN incoming[j]
             /\ \A q \in DOMAIN k[j] : k[j][q] = incoming[j][q]
             /\ j \notin InstsOf(R) => k[j] = incoming[j]
  <2>1. j \in DOMAIN incoming
    BY <1>3, <1>7, PhisEntered
  <2> QED
    BY <1>1, <1>2, <1>6, <2>1, KeepFacts
<1>8. \A b : Idle(b)' = Idle(b)
  BY <1>4 DEF Idle
<1>9. ApartInv'
  <2>1. ASSUME NEW j \in Live, NEW b \in blocks PROVE OperandsBut(j, b)' \subseteq OperandsBut(j, b)
    <3>1. CASE ClassOf(j) # "phi"
      BY <1>1, <1>4, <3>1 DEF OperandsBut, Operands
    <3>2. CASE ClassOf(j) = "phi"
      <4>1. DOMAIN k[j] \subseteq DOMAIN incoming[j] /\ \A q \in DOMAIN k[j] : k[j][q] = incoming[j][q]
        BY <1>7, <3>2
      <4>2. OperandsBut(j, b)' = {k[j][q] : q \in DOMAIN k[j] \ {b}}
        BY <1>4, <1>6, <3>2 DEF OperandsBut
      <4>3. OperandsBut(j, b) = {incoming[j][q] : q \in DOMAIN incoming[j] \ {b}}
        BY <3>2 DEF OperandsBut
      <4> QED
        BY <4>1, <4>2, <4>3
    <3> QED
      BY <3>1, <3>2
  <2>2. \A b \in blocks : term'[b].cond \in {term[b].cond, None}
    BY <1>2, <1>3
  <2>3. None \notin Live
    BY <1>3, ProgramsAssumption
  <2> QED
    BY <1>1, <1>4, <1>8, <2>1, <2>2, <2>3, ApartLess DEF AsideInv
<1>10. /\ Succs(p)' = {S}
       /\ \A q \in blocks \ {p} : Succs(q)' = Succs(q)
  BY <1>2, <1>3 DEF Succs
<1>11. ASSUME NEW J \in blocks, J # R, HasPhis(J)' PROVE HasPhis(J)
  <2>1. PICK j \in InstsOf(J) : ClassOf(j) = "phi" /\ DOMAIN k[j] # {None}
    BY <1>4, <1>6, <1>11 DEF HasPhis
  <2>2. j \in Live /\ j \notin InstsOf(R)
    BY <1>3, <1>5, <1>11, <2>1, OnePlace DEF InstsOf, Live
  <2> QED
    BY <1>7, <2>1, <2>2 DEF HasPhis
\* Where a block without effects leads on to phis, as seen before the step.
<1>12. ASSUME NEW K \in blocks, NEW J \in blocks, Idle(K), J \in Succs(K), HasPhis(J), J # R,
              NEW q \in blocks, K \in Succs(q)
       PROVE  J \in Succs(q)
  BY <1>2, <1>12 DEF AsideInv, AheadInv, predecessors
<1>13. ASSUME NEW K \in blocks, NEW J \in blocks, Idle(K), J \in Succs(K)', HasPhis(J)', J # R,
              NEW q \in blocks, K \in Succs(q)'
       PROVE  J \in Succs(q)'
  <2>1. HasPhis(J)
    BY <1>11, <1>13
  <2>2. HasPhis(S) => S \in Succs(p)
    BY <1>2, <1>5, <1>12
  <2>3. CASE q # p /\ K # p
    BY <1>10, <1>12, <1>13, <2>1, <2>3
  <2>4. CASE q # p /\ K = p
    <3>1. J = S /\ K \in Succs(q)
      BY <1>10, <1>13, <2>4
    <3>2. J \in Succs(q)
      BY <1>12, <1>13, <2>1, <2>2, <2>4, <3>1
    <3> QED
      BY <1>10, <2>4, <3>2
  <2>5. CASE q = p
    <3>1. K = S
      BY <1>10, <1>13, <2>5
    <3>2. CASE K = p
      BY <1>10, <1>13, <2>5, <3>1, <3>2
    <3>3. CASE K # p
      <4>1. J \in Succs(S)
        BY <1>10, <1>13, <3>1, <3>3
      <4>2. S \in Succs(p) => J \in Succs(p)
        BY <1>5, <1>12, <1>13, <2>1, <3>1, <4>1
      <4>3. S \in Succs(R) => J \in Succs(R)
        BY <1>5, <1>12, <1>13, <2>1, <3>1, <4>1
      <4> QED
        BY <1>2, <1>10, <1>13, <2>5, <4>2, <4>3
    <3> QED
      BY <3>2, <3>3
  <2> QED
    BY <2>3, <2>4, <2>5
<1>14. AheadInv'
  <2> SUFFICES ASSUME NEW K \in blocks, NEW J \in blocks, Idle(K)', J \in Succs(K)', HasPhis(J)', J # R
               PROVE  predecessors(K)' \subseteq predecessors(J)'
    BY <1>1, <1>5 DEF AheadInv
  <2>1. \A q \in blocks : K \in Succs(q)' => J \in Succs(q)'
    BY <1>8, <1>13
  <2> QED
    BY <1>1, <2>1 DEF predecessors
<1> QED
  BY <1>9, <1>14 DEF AsideInv

LEMMA AsideDelete ==
    ASSUME TInv, KeptInv, ClosedInv, AsideInv, DeleteReportBlock
    PROVE  AsideInv'
<1>1. /\ pc = "redirect" /\ blocks' = blocks \ {Rep} /\ UNCHANGED <<prog, body, term>>
      /\ incoming' = IF Fallthrough(Rep) = None THEN incoming
                     ELSE KeepIncoming(incoming, Fallthrough(Rep), Blocks \ {Rep})
  BY DEF DeleteReportBlock, Rep
<1>2. PICK R : R = Rep
  OBVIOUS
<1>3. None \notin Live /\ Live \subseteq Insts
  BY LiveInsts, ProgramsAssumption DEF TInv, TypeOK
<1>4. /\ \A b : InstsOf(b)' = InstsOf(b) /\ Succs(b)' = Succs(b)
      /\ \A i : ClassOf(i)' = ClassOf(i)
  BY <1>1 DEF InstsOf, Succs, ClassOf
<1>5. Live' \subseteq Live
  BY <1>1, <1>4 DEF Live
<1>6. PICK k : k = incoming'
  OBVIOUS
<1>7. ASSUME NEW j \in Live, ClassOf(j) = "phi"
      PROVE  /\ DOMAIN k[j] \subseteq DOMAIN incoming[j]
             /\ \A q \in DOMAIN k[j] : k[j][q] = incoming[j][q]
             /\ DOMAIN incoming[j] = {None} => DOMAIN k[j] = {None}
  <2>1. j \in DOMAIN incoming
    BY <1>3, <1>7, PhisEntered
  <2>2. CASE Fallthrough(R) = None
    BY <1>1, <1>2, <1>6, <2>2
  <2>3. CASE Fallthrough(R) # None
    <3>1. k = KeepIncoming(incoming, Fallthrough(R), Blocks \ {R})
      BY <1>1, <1>2, <1>6, <2>3
    <3> QED
      BY <2>1, <3>1, KeepFacts
  <2> QED
    BY <2>2, <2>3
<1>8. \A b : Idle(b)' = Idle(b)
  BY <1>4 DEF Idle
<1>9. ASSUME NEW b \in blocks, HasPhis(b)' PROVE HasPhis(b)
  <2>1. PICK j \in InstsOf(b) : ClassOf(j) = "phi" /\ DOMAIN k[j] # {None}
    BY <1>4, <1>6, <1>9 DEF HasPhis
  <2>2. j \in Live
    BY DEF Live
  <2> QED
    BY <1>7, <2>1, <2>2 DEF HasPhis
<1>10. ApartInv'
  <2>1. ASSUME NEW j \in Live, NEW b \in blocks PROVE OperandsBut(j, b)' \subseteq OperandsBut(j, b)
    <3>1. CASE ClassOf(j) # "phi"
      BY <1>1, <1>4, <3>1 DEF OperandsBut, Operands
    <3>2. CASE ClassOf(j) = "phi"
      <4>1. DOMAIN k[j] \subseteq DOMAIN incoming[j] /\ \A q \in DOMAIN k[j] : k[j][q] = incoming[j][q]
        BY <1>7, <3>2
      <4>2. OperandsBut(j, b)' = {k[j][q] : q \in DOMAIN k[j] \ {b}}
        BY <1>4, <1>6, <3>2 DEF OperandsBut
      <4>3. OperandsBut(j, b) = {incoming[j][q] : q \in DOMAIN incoming[j] \ {b}}
        BY <3>2 DEF OperandsBut
      <4> QED
        BY <4>1, <4>2, <4>3
    <3> QED
      BY <3>1, <3>2
  <2> QED
    BY <1>1, <1>3, <1>4, <1>5, <1>8, <2>1, ApartLess DEF AsideInv
<1>11. AheadInv'
  <2> SUFFICES ASSUME NEW K \in blocks \ {R}, NEW J \in blocks \ {R}, Idle(K)', J \in Succs(K)', HasPhis(J)'
               PROVE  predecessors(K)' \subseteq predecessors(J)'
    BY <1>1, <1>2 DEF AheadInv
  <2>1. predecessors(K) \subseteq predecessors(J)
    BY <1>2, <1>4, <1>8, <1>9 DEF AsideInv, AheadInv
  <2>2. \A b : predecessors(b)' = predecessors(b) \ {R}
    BY <1>1, <1>2, <1>4 DEF predecessors
  <2> QED
    BY <2>1, <2>2
<1> QED
  BY <1>10, <1>11 DEF AsideInv

\* All blocks can be reached: nothing changes.
LEMMA AsideEliminate ==
    ASSUME TInv, KeptInv, ShapeInv, AsideInv, EliminateUnreachableBlocks
    PROVE  AsideInv'
<1>1. /\ pc \in {"cleanup", "lastcleanup"} /\ blocks' = blocks \cap Reachable
      /\ incoming' = [i \in DOMAIN incoming |->
                         [p \in DOMAIN incoming[i] \cap (Reachable \cup {None}) |-> incoming[i][p]]]
      /\ UNCHANGED <<prog, body, term>>
  BY DEF EliminateUnreachableBlocks
<1>2. blocks' = blocks /\ blocks \subseteq Reachable
  BY <1>1 DEF KeptInv, ReachInv
<1>3. /\ \A b : InstsOf(b)' = InstsOf(b) /\ Succs(b)' = Succs(b)
      /\ \A i : ClassOf(i)' = ClassOf(i)
  BY <1>1 DEF InstsOf, Succs, ClassOf
<1>4. Live' = Live /\ \A b : predecessors(b)' = predecessors(b)
  BY <1>2, <1>3 DEF Live, predecessors
<1>5. PICK k : k = incoming'
  OBVIOUS
<1>6. ASSUME NEW i \in Live, ClassOf(i) = "phi"
      PROVE  DOMAIN k[i] = DOMAIN incoming[i] /\ \A q \in DOMAIN k[i] : k[i][q] = incoming[i][q]
  <2>1. PICK b \in blocks : i \in InstsOf(b)
    BY DEF Live
  <2>2. i \in DOMAIN incoming /\ DOMAIN incoming[i] \in {predecessors(b), {None}}
    <3>1. i \in Insts
      BY LiveInsts DEF TInv, Live
    <3> QED
      BY <1>6, <2>1, <3>1, PhisEntered DEF ShapeInv, PhiInv
  <2>3. DOMAIN incoming[i] \subseteq Reachable \cup {None}
    BY <1>2, <2>2 DEF predecessors
  <2>4. k[i] = [p \in DOMAIN incoming[i] \cap (Reachable \cup {None}) |-> incoming[i][p]]
    BY <1>1, <1>5, <2>2
  <2> QED
    BY <2>3, <2>4
<1>7. ASSUME NEW i \in Live, NEW b \in blocks PROVE OperandsBut(i, b)' = OperandsBut(i, b)
  <2>1. CASE ClassOf(i) # "phi"
    BY <1>1, <1>3, <2>1 DEF OperandsBut, Operands
  <2>2. CASE ClassOf(i) = "phi"
    <3>1. DOMAIN k[i] = DOMAIN incoming[i] /\ \A q \in DOMAIN k[i] : k[i][q] = incoming[i][q]
      BY <1>6, <2>2
    <3> QED
      BY <1>3, <1>5, <2>2, <3>1 DEF OperandsBut
  <2> QED
    BY <2>1, <2>2
<1>8. \A b : Idle(b)' = Idle(b)
  BY <1>3 DEF Idle
<1>9. ASSUME NEW b \in blocks, HasPhis(b)' PROVE HasPhis(b)
  <2>1. PICK j \in InstsOf(b) : ClassOf(j) = "phi" /\ DOMAIN k[j] # {None}
    BY <1>3, <1>5, <1>9 DEF HasPhis
  <2>2. j \in Live
    BY DEF Live
  <2> QED
    BY <1>6, <2>1, <2>2 DEF HasPhis
<1>10. ApartInv'
  BY <1>1, <1>2, <1>3, <1>4, <1>7, <1>8 DEF AsideInv, ApartInv
<1>11. AheadInv'
  <2> SUFFICES ASSUME NEW K \in blocks, NEW J \in blocks, Idle(K)', J \in Succs(K)', HasPhis(J)'
               PROVE  predecessors(K)' \subseteq predecessors(J)'
    BY <1>2 DEF AheadInv
  <2> QED
    BY <1>1, <1>3, <1>4, <1>8, <1>9 DEF AsideInv, AheadInv
<1> QED
  BY <1>10, <1>11 DEF AsideInv

LEMMA AsideMerge ==
    ASSUME TInv, KeptInv, ShapeInv, AsideInv, NEW r \in Blocks, Merge(r)
    PROVE  AsideInv'
<1>1. PICK p \in blocks :
         /\ r \in blocks /\ p # r
         /\ predecessors(r) = {p} /\ Succs(p) = {r} /\ r \notin Succs(r)
         /\ blocks' = blocks \ {r} /\ body' = [body EXCEPT ![p] = body[p] \o body[r]]
         /\ term'[p] = term[r] /\ (\A q \in Blocks \ {p} : term'[q] = term[q])
         /\ incoming' = [i \in DOMAIN incoming |->
                IF i \in InstsOf(r) /\ p \in DOMAIN incoming[i]
                THEN [q \in {None} |-> incoming[i][p]]
                ELSE IF r \in DOMAIN incoming[i]
                THEN [q \in (DOMAIN incoming[i] \ {r}) \cup {p} |->
                         incoming[i][IF q = p THEN r ELSE q]]
                ELSE incoming[i]]
         /\ UNCHANGED <<prog, pc>>
  BY JoinFacts
<1>2. /\ body \in [Blocks -> Seq(Insts)] /\ blocks \subseteq Blocks /\ PlacedIn(blocks, body)
      /\ Live \subseteq Insts /\ pc # "redirect"
  BY LiveInsts DEF TInv, TypeOK, Merge
<1>3. PICK B : B = body'
  OBVIOUS
<1>4. /\ ToSet(B[p]) = ToSet(body[p]) \cup ToSet(body[r])
      /\ \A c \in Blocks \ {p} : B[c] = body[c]
  <2>1. body' = [body EXCEPT ![p] = body[p] \o body[r]] /\ p \in blocks /\ r \in blocks /\ p # r
    BY <1>1
  <2> QED
    BY <1>2, <1>3, <2>1, MergeFacts
<1>5. /\ InstsOf(p)' = InstsOf(p) \cup InstsOf(r)
      /\ \A c \in blocks \ {p} : InstsOf(c)' = InstsOf(c)
  BY <1>2, <1>3, <1>4 DEF InstsOf
<1>6. (\A i : ClassOf(i)' = ClassOf(i)) /\ Live' = Live
  BY <1>1, LiveMerge DEF ClassOf
<1>7. PICK k : k = incoming'
  OBVIOUS
<1>8. ASSUME NEW i \in DOMAIN incoming
      PROVE  /\ i \in InstsOf(r) /\ p \in DOMAIN incoming[i] =>
                    DOMAIN k[i] = {None} /\ k[i][None] = incoming[i][p]
             /\ ~(i \in InstsOf(r) /\ p \in DOMAIN incoming[i]) /\ r \in DOMAIN incoming[i] =>
                    /\ DOMAIN k[i] = (DOMAIN incoming[i] \ {r}) \cup {p}
                    /\ \A q \in DOMAIN k[i] : k[i][q] = incoming[i][IF q = p THEN r ELSE q]
             /\ ~(i \in InstsOf(r) /\ p \in DOMAIN incoming[i]) /\ r \notin DOMAIN incoming[i] => k[i] = incoming[i]
  <2>1. k[i] = IF i \in InstsOf(r) /\ p \in DOMAIN incoming[i]
               THEN [q \in {None} |-> incoming[i][p]]
               ELSE IF r \in DOMAIN incoming[i]
               THEN [q \in (DOMAIN incoming[i] \ {r}) \cup {p} |-> incoming[i][IF q = p THEN r ELSE q]]
               ELSE incoming[i]
    BY <1>1, <1>7
  <2> QED
    BY <2>1
\* An entry that does not come from c now did not come from c before, nor, if
\* c is the joined block, from either half.
<1>9. ASSUME NEW j \in Live, ClassOf(j) = "phi", NEW c \in blocks \ {r},
             c = p => j \notin InstsOf(r), NEW q \in DOMAIN k[j] \ {c}
      PROVE  \E s \in DOMAIN incoming[j] :
                s # c /\ (c = p => s # r) /\ k[j][q] = incoming[j][s]
  <2>1. j \in DOMAIN incoming
    BY <1>2, <1>9, PhisEntered
  <2>2. CASE j \in InstsOf(r) /\ p \in DOMAIN incoming[j]
    BY <1>1, <1>8, <1>9, <2>1, <2>2
  <2>3. CASE ~(j \in InstsOf(r) /\ p \in DOMAIN incoming[j]) /\ r \in DOMAIN incoming[j]
    <3>1. /\ DOMAIN k[j] = (DOMAIN incoming[j] \ {r}) \cup {p}
          /\ k[j][q] = incoming[j][IF q = p THEN r ELSE q]
      BY <1>8, <1>9, <2>1, <2>3
    <3>2. CASE q = p
      BY <1>9, <2>3, <3>1, <3>2
    <3>3. CASE q # p
      BY <1>9, <3>1, <3>3
    <3> QED
      BY <3>2, <3>3
  <2>4. CASE ~(j \in InstsOf(r) /\ p \in DOMAIN incoming[j]) /\ r \notin DOMAIN incoming[j]
    <3>1. k[j] = incoming[j]
      BY <1>8, <2>1, <2>4
    <3> QED
      BY <1>9, <2>4, <3>1
  <2> QED
    BY <2>2, <2>3, <2>4
<1>10. ASSUME NEW j \in Live, NEW c \in blocks \ {r}, c = p => j \notin InstsOf(r)
       PROVE  /\ OperandsBut(j, c)' \subseteq OperandsBut(j, c)
              /\ c = p => OperandsBut(j, c)' \subseteq OperandsBut(j, r)
  <2>1. CASE ClassOf(j) # "phi"
    BY <1>1, <1>6, <2>1 DEF OperandsBut, Operands
  <2>2. CASE ClassOf(j) = "phi"
    <3>1. \A q \in DOMAIN k[j] \ {c} : \E s \in DOMAIN incoming[j] :
             s # c /\ (c = p => s # r) /\ k[j][q] = incoming[j][s]
      BY <1>9, <1>10, <2>2
    <3>2. OperandsBut(j, c)' = {k[j][q] : q \in DOMAIN k[j] \ {c}}
      BY <1>6, <1>7, <2>2 DEF OperandsBut
    <3>3. /\ OperandsBut(j, c) = {incoming[j][q] : q \in DOMAIN incoming[j] \ {c}}
          /\ OperandsBut(j, r) = {incoming[j][q] : q \in DOMAIN incoming[j] \ {r}}
      BY <2>2 DEF OperandsBut
    <3> QED
      BY <3>1, <3>2, <3>3
  <2> QED
    BY <2>1, <2>2
<1>11. /\ Idle(p)' => Idle(p) /\ Idle(r)
       /\ \A c \in blocks \ {p} : Idle(c)' = Idle(c)
  BY <1>5, <1>6 DEF Idle
<1>12. ASSUME NEW c \in blocks \ {r}, Idle(c)', NEW x \in InstsOf(c)'
       PROVE  /\ \A b \in blocks \ {r, c} : term'[b].cond # x
              /\ \A j \in Live \ InstsOf(c)' : x \notin OperandsBut(j, c)'
  <2>1. CASE c = p
    <3>1. Idle(p) /\ Idle(r) /\ (x \in InstsOf(p) \/ x \in InstsOf(r))
      BY <1>5, <1>11, <1>12, <2>1
    <3>2. \A b \in blocks \ {r, c} : term[b].cond # x
      BY <1>1, <2>1, <3>1 DEF AsideInv, ApartInv
    <3>3. ASSUME NEW j \in Live \ InstsOf(c)' PROVE x \notin OperandsBut(j, c)'
      <4>1. j \notin InstsOf(p) /\ j \notin InstsOf(r)
        BY <1>5, <2>1
      <4>2. x \notin OperandsBut(j, p) \/ x \notin OperandsBut(j, r)
        BY <1>1, <3>1, <4>1 DEF AsideInv, ApartInv
      <4> QED
        BY <1>10, <1>12, <2>1, <4>1, <4>2
    <3> QED
      BY <1>1, <1>2, <2>1, <3>2, <3>3
  <2>2. CASE c # p
    <3>1. Idle(c) /\ x \in InstsOf(c) /\ InstsOf(c)' = InstsOf(c)
      BY <1>5, <1>11, <1>12, <2>2
    <3>2. /\ \A b \in blocks \ {c} : term[b].cond # x
          /\ \A j \in Live \ InstsOf(c) : x \notin OperandsBut(j, c)
      BY <3>1 DEF AsideInv, ApartInv
    <3>3. \A b \in blocks \ {r, c} : term'[b].cond # x
      BY <1>1, <1>2, <1>12, <3>2
    <3>4. \A j \in Live \ InstsOf(c)' : x \notin OperandsBut(j, c)'
      BY <1>10, <1>12, <2>2, <3>1, <3>2
    <3> QED
      BY <3>3, <3>4
  <2> QED
    BY <2>1, <2>2
<1>13. ApartInv'
  BY <1>1, <1>6, <1>12 DEF ApartInv
<1>14. Succs(p)' = Succs(r) /\ \A q \in blocks \ {p} : Succs(q)' = Succs(q)
  BY <1>1, <1>2 DEF Succs
<1>15. ASSUME NEW J \in blocks \ {r}, HasPhis(J)' PROVE HasPhis(J)
  <2>1. PICK j \in InstsOf(J)' : ClassOf(j) = "phi" /\ DOMAIN k[j] # {None}
    BY <1>6, <1>7, <1>15 DEF HasPhis
  <2>2. j \in Live /\ j \in DOMAIN incoming /\ (j \in InstsOf(J) \/ j \in InstsOf(r))
    <3>1. j \in InstsOf(J) \/ j \in InstsOf(r)
      BY <1>5
    <3>2. j \in Live
      BY <1>1, <3>1 DEF Live
    <3> QED
      BY <1>2, <2>1, <3>1, <3>2, PhisEntered
  <2>3. None \notin blocks
    BY <1>2, ProgramsAssumption
  <2>4. j \notin InstsOf(r)
    <3> SUFFICES ASSUME j \in InstsOf(r) PROVE FALSE
      OBVIOUS
    <3>1. DOMAIN incoming[j] \in {{p}, {None}}
      BY <1>1, <2>1 DEF ShapeInv, PhiInv
    <3> QED
      BY <1>1, <1>8, <2>1, <2>2, <2>3, <3>1
  <2>5. DOMAIN incoming[j] # {None}
    BY <1>1, <1>8, <2>1, <2>2, <2>3, <2>4
  <2> QED
    BY <2>1, <2>2, <2>4, <2>5 DEF HasPhis
<1>16. ASSUME NEW K \in blocks, NEW J \in blocks, Idle(K), J \in Succs(K), HasPhis(J),
              NEW q \in blocks, K \in Succs(q)
       PROVE  J \in Succs(q)
  BY <1>2, <1>16 DEF AsideInv, AheadInv, predecessors
<1>17. ASSUME NEW K \in blocks \ {r}, NEW J \in blocks \ {r}, Idle(K)', J \in Succs(K)', HasPhis(J)',
              NEW q \in blocks \ {r}, K \in Succs(q)'
       PROVE  J \in Succs(q)'
  <2>1. HasPhis(J)
    BY <1>15, <1>17
  <2>2. CASE K = p
    \* Idle blocks in a row: what is behind the second is behind the first.
    <3>1. J \in Succs(p)
      BY <1>1, <1>11, <1>14, <1>16, <1>17, <2>1, <2>2
    <3> QED
      BY <1>1, <1>17, <3>1
  <2>3. CASE K # p
    <3>1. Idle(K) /\ J \in Succs(K)
      BY <1>11, <1>14, <1>17, <2>3
    <3>2. CASE q = p
      BY <1>1, <1>14, <1>16, <1>17, <2>1, <3>1, <3>2
    <3>3. CASE q # p
      BY <1>14, <1>16, <1>17, <2>1, <3>1, <3>3
    <3> QED
      BY <3>2, <3>3
  <2> QED
    BY <2>2, <2>3
<1>18. AheadInv'
  <2> SUFFICES ASSUME NEW K \in blocks \ {r}, NEW J \in blocks \ {r}, Idle(K)', J \in Succs(K)', HasPhis(J)'
               PROVE  predecessors(K)' \subseteq predecessors(J)'
    BY <1>1 DEF AheadInv
  <2>1. \A q \in blocks \ {r} : K \in Succs(q)' => J \in Succs(q)'
    BY <1>17
  <2> QED
    BY <1>1, <2>1 DEF predecessors
<1> QED
  BY <1>13, <1>18 DEF AsideInv

LEMMA AsideNext ==
    TInv /\ KeptInv /\ ClosedInv /\ ShapeInv /\ AsideInv /\ [Next]_vars => AsideInv'
<1> SUFFICES ASSUME TInv, KeptInv, ClosedInv, ShapeInv, AsideInv, [Next]_vars PROVE AsideInv'
  OBVIOUS
<1>1. ASSUME NEW i \in Insts, EraseDead(i) PROVE AsideInv'
  <2>1. /\ pc = "dead" /\ i \in Slice.insts /\ i \in Live
        /\ body' = WithoutInst(i) /\ UNCHANGED <<prog, blocks, term, incoming>>
    BY <1>1 DEF EraseDead, canEraseInstruction
  <2>2. ClassOf(i) # "effect"
    BY <2>1 DEF KeptInv, SliceInv, CallInv
  <2> QED
    BY <2>1, <2>2, AsideErase
<1>2. ASSUME NEW i \in Insts, CleanUp(i) PROVE AsideInv'
  <2>1. /\ pc # "redirect" /\ ClassOf(i) # "effect"
        /\ body' = WithoutInst(i) /\ UNCHANGED <<prog, blocks, term, incoming>>
    BY <1>2 DEF CleanUp, isInstructionTriviallyDead
  <2> QED
    BY <2>1, AsideErase
<1>3. CASE EraseDirect
  <2>1. /\ pc # "redirect" /\ ClassOf(CB) # "effect"
        /\ body' = WithoutInst(CB) /\ UNCHANGED <<prog, blocks, term, incoming>>
    BY <1>3 DEF EraseDirect
  <2> QED
    BY <2>1, AsideErase
<1>4. ASSUME NEW i \in Insts, TakeCall(i) PROVE AsideInv'
  <2>1. UNCHANGED <<prog, blocks, body, term, incoming>> /\ pc # "redirect"
    BY <1>4 DEF TakeCall, ir
  <2> QED
    BY <2>1, AsideSame
<1>5. CASE StartBypass \/ Refuse \/ SliceErased \/ Merged \/ LastCleanup
  <2>1. UNCHANGED <<prog, blocks, body, term, incoming>> /\ pc # "redirect"
    BY <1>5 DEF StartBypass, Refuse, SliceErased, Merged, LastCleanup, ir
  <2> QED
    BY <2>1, AsideSame
<1>6. CASE Return \/ UNCHANGED vars
  <2>1. UNCHANGED <<prog, blocks, body, term, incoming, pc, CB>>
    BY <1>6 DEF Return, vars
  <2>2. AsideInv' <=> AsideInv
    BY <2>1 DEF AsideInv, ApartInv, AheadInv, Idle, HasPhis, OperandsBut, Operands, Live, InstsOf,
                Succs, predecessors, ClassOf, Rep, BlockOf
  <2> QED
    BY <2>2
<1> QED
  BY <1>1, <1>2, <1>3, <1>4, <1>5, <1>6, AsideRedirect, AsideDelete, AsideEliminate, AsideMerge DEF Next

LEMMA AsideInvariance ==
    AsInstrumented(prog) /\ IdleBlocksAside(prog) /\ WellFormedIR /\ Spec => [](ShapeInv /\ AsideInv)
<1>1. TInv /\ KeptInv /\ ClosedInv /\ AsideInv => BypassIsClean
  BY AsideIsClean
<1> QED
  BY <1>1, ShapeInit, ShapeNext, AsideInit, AsideNext, TypeInvariance, KeptInvariance, ClosedInvariance, PTL
     DEF Spec

(* Where blocks without effects stand aside, every bypassed block can be    *)
(* spared, although bypassReportBlock does not ask: no value of it is used  *)
(* elsewhere, and no phi lacks an entry for a redirected predecessor.       *)
THEOREM BypassStaysClean ==
    AsInstrumented(prog) /\ IdleBlocksAside(prog) /\ WellFormedIR /\ Spec => []BypassIsClean
<1>1. TInv /\ KeptInv /\ ClosedInv /\ AsideInv => BypassIsClean
  BY AsideIsClean
<1> QED
  BY <1>1, AsideInvariance, TypeInvariance, KeptInvariance, ClosedInvariance, PTL

(* Such a function stays well formed whatever is marked in it, in whatever  *)
(* order the checks are removed.                                            *)
THEOREM InstrumentedStaysWellFormed ==
    AsInstrumented(prog) /\ IdleBlocksAside(prog) /\ WellFormedIR /\ Spec => []WellFormedIR
  BY BypassStaysClean, IRStaysWellFormed, PTL
=============================================================================
