-------------------------- MODULE ResultTablesProofs --------------------------
(* Proofs about the two tables made of the summaries: PublishedResults, for *)
(* any summaries, any outcomes of their runs and any number of reruns       *)
(* during a collection, and SanRazorAccess, for any files of bitcode, any   *)
(* number of threads and any order of their results.                        *)
EXTENDS PublishedResults, SanRazorAccess, FiniteSetTheorems, SequenceTheorems, FiniteFacts, TLAPS

Rows == [file : Files, data : Outcomes]

\* A row of a summary is in the table the collector keeps.
Has(f) == \E r \in rows : r.file = f

(* The collector knows the files it has read as they are, unless they were  *)
(* touched since they were listed; it keeps one row of a file at most.      *)
TInv ==
    /\ summary \in [Files -> Outcomes \cup {None, Empty}]
    /\ todo = None \/ todo \in SUBSET (DOMAIN Paths)
    /\ rows \in SUBSET Rows /\ IsFiniteSet(rows)
    /\ \A r \in rows : Kept(r.file, r.data)

RowsInv ==
    todo # None =>
        /\ \A r, q \in rows : r.file = q.file => r = q
        /\ \A n \in DOMAIN Paths :
              /\ n \in todo => ~Has(Paths[n])
              /\ n \notin todo /\ Paths[n] \notin moved =>
                    IF summary[Paths[n]] \notin {None, Empty} /\ Kept(Paths[n], summary[Paths[n]])
                    THEN [file |-> Paths[n], data |-> summary[Paths[n]]] \in rows
                    ELSE ~Has(Paths[n])

PInv == TInv /\ RowsInv /\ PublishedHoldsUp

LEMMA FilesFacts ==
    /\ IsFiniteSet(Files) /\ DOMAIN Paths \subseteq Nat
    /\ \A n \in DOMAIN Paths : Paths[n] \in Files
    /\ \A f \in Files : \E n \in DOMAIN Paths : Paths[n] = f
    /\ \A m, n \in DOMAIN Paths : Paths[m] = Paths[n] => m = n
<1>1. Paths \in Seq(Range(Paths)) /\ IsInjective(Paths)
  BY PublishedAssumption
<1>2. Paths \in [1..Len(Paths) -> Range(Paths)] /\ Len(Paths) \in Nat /\ DOMAIN Paths = 1..Len(Paths)
  BY <1>1, LenProperties
<1>3. Paths \in Surjection(DOMAIN Paths, Files)
  BY <1>2 DEF Surjection, Files, Range
<1>4. IsFiniteSet(DOMAIN Paths)
  BY <1>2, FS_Interval
<1>5. IsFiniteSet(Files)
  BY <1>3, <1>4, FS_Surjection
<1>6. \A m, n \in DOMAIN Paths : Paths[m] = Paths[n] => m = n
  BY <1>1 DEF IsInjective
<1> QED
  BY <1>2, <1>5, <1>6 DEF Files, Range

LEMMA NextToRead ==
    ASSUME NEW T \in SUBSET (DOMAIN Paths), T # {}
    PROVE  Min(T) \in T
<1>1. T \in SUBSET Nat
  BY FilesFacts
<1>2. \E m \in T : \A n \in T : m <= n
  BY <1>1, LeastNatural
<1> QED
  BY <1>2 DEF Min

LEMMA TypesInit == Init => PInv
<1> SUFFICES ASSUME Init PROVE PInv
  OBVIOUS
<1>1. TInv
  BY FS_EmptySet DEF Init, TInv
<1> QED
  BY <1>1 DEF Init, PInv, RowsInv, PublishedHoldsUp

\* The files move on; the collector waits.
LEMMA RunsKeep ==
    ASSUME PInv, NEW f \in Files, NEW v \in Outcomes \cup {None, Empty},
           summary' = [summary EXCEPT ![f] = v], Touch(f), UNCHANGED <<todo, rows, published>>
    PROVE  PInv'
<1>1. TInv'
  BY DEF PInv, TInv
<1>2. RowsInv'
  <2> SUFFICES ASSUME todo # None PROVE RowsInv'
    BY DEF RowsInv
  <2>1. moved' = moved \cup {f}
    BY DEF Touch
  <2>2. \A n \in DOMAIN Paths : Paths[n] \notin moved' => summary'[Paths[n]] = summary[Paths[n]] /\ Paths[n] \notin moved
    BY <2>1, FilesFacts DEF PInv, TInv
  <2>3. rows' = rows /\ todo' = todo /\ \A g : Has(g)' <=> Has(g)
    BY DEF Has
  <2>4. \A r, q \in rows' : r.file = q.file => r = q
    BY <2>3 DEF PInv, RowsInv
  <2>5. \A n \in DOMAIN Paths : n \in todo' => ~Has(Paths[n])'
    BY <2>3 DEF PInv, RowsInv
  <2>6. ASSUME NEW n \in DOMAIN Paths, n \notin todo', Paths[n] \notin moved'
        PROVE  IF summary'[Paths[n]] \notin {None, Empty} /\ Kept(Paths[n], summary'[Paths[n]])
               THEN [file |-> Paths[n], data |-> summary'[Paths[n]]] \in rows'
               ELSE ~Has(Paths[n])'
    BY <2>2, <2>3, <2>6 DEF PInv, RowsInv
  <2> QED
    BY <2>4, <2>5, <2>6 DEF RowsInv
<1>3. PublishedHoldsUp'
  BY DEF PInv, PublishedHoldsUp
<1> QED
  BY <1>1, <1>2, <1>3 DEF PInv

LEMMA ListKeeps ==
    ASSUME PInv, ListSummaries
    PROVE  PInv'
<1>1. /\ todo' = {n \in DOMAIN Paths : summary[Paths[n]] # None} /\ rows' = {} /\ moved' = {}
      /\ UNCHANGED <<summary, published>>
  BY DEF ListSummaries
<1>2. TInv'
  BY <1>1, FS_EmptySet DEF PInv, TInv
<1>3. RowsInv'
  BY <1>1 DEF RowsInv, Has
<1>4. PublishedHoldsUp'
  BY <1>1 DEF PInv, PublishedHoldsUp
<1> QED
  BY <1>2, <1>3, <1>4 DEF PInv

LEMMA ReadKeeps ==
    ASSUME PInv, ReadSummary
    PROVE  PInv'
<1>1. PICK n : n = Min(todo)
  OBVIOUS
<1>2. PICK f, d : f = Paths[n] /\ d = summary[f]
  OBVIOUS
<1>3. /\ todo # None /\ todo # {} /\ todo \in SUBSET (DOMAIN Paths)
      /\ UNCHANGED <<summary, published, moved>>
      /\ IF d = None
         THEN todo' = None /\ rows' = rows
         ELSE /\ todo' = todo \ {n}
              /\ rows' = IF d # Empty /\ Kept(f, d) THEN rows \cup {[file |-> f, data |-> d]} ELSE rows
  BY <1>1, <1>2 DEF ReadSummary, PInv, TInv
<1>4. n \in todo /\ n \in DOMAIN Paths /\ f \in Files
  BY <1>1, <1>2, <1>3, NextToRead, FilesFacts
<1>5. PublishedHoldsUp'
  BY <1>3 DEF PInv, PublishedHoldsUp
<1>6. PICK new : new = [file |-> f, data |-> d]
  OBVIOUS
<1>7. ASSUME d \notin {None, Empty} PROVE new \in Rows /\ new.file = f /\ new.data = d
  BY <1>2, <1>4, <1>6, <1>7 DEF PInv, TInv, Rows
<1>8. IsFiniteSet(rows) /\ IsFiniteSet(rows \cup {new})
  BY FS_AddElement DEF PInv, TInv
<1>9. \/ rows' = rows
      \/ d \notin {None, Empty} /\ Kept(f, d) /\ rows' = rows \cup {new}
  BY <1>3, <1>6
<1>10. rows' \in SUBSET Rows /\ IsFiniteSet(rows') /\ \A r \in rows' : Kept(r.file, r.data)
  BY <1>7, <1>8, <1>9 DEF PInv, TInv
<1>11. TInv'
  BY <1>3, <1>10 DEF PInv, TInv
<1>12. ~Has(f)
  BY <1>2, <1>3, <1>4 DEF PInv, RowsInv
<1>13. RowsInv'
  <2> SUFFICES ASSUME d # None PROVE RowsInv'
    BY <1>3 DEF RowsInv
  <2>1. todo' = todo \ {n} /\ rows' = IF d # Empty /\ Kept(f, d) THEN rows \cup {new} ELSE rows
    BY <1>3, <1>6
  <2>2. \A r, q \in rows' : r.file = q.file => r = q
    BY <1>3, <1>7, <1>12, <2>1 DEF PInv, RowsInv, Has
  <2>3. ASSUME NEW m \in DOMAIN Paths, m # n
        PROVE  /\ Has(Paths[m])' <=> Has(Paths[m])
               /\ [file |-> Paths[m], data |-> summary[Paths[m]]] \in rows' <=>
                     [file |-> Paths[m], data |-> summary[Paths[m]]] \in rows
    <3>1. Paths[m] # f
      BY <1>2, <1>4, <2>3, FilesFacts
    <3>2. [file |-> Paths[m], data |-> summary[Paths[m]]] # new
      <4>1. [file |-> Paths[m], data |-> summary[Paths[m]]].file = Paths[m] /\ new.file = f
        BY <1>6
      <4> QED
        BY <3>1, <4>1
    <3>3. new.file # Paths[m]
      BY <1>6, <3>1
    <3> QED
      BY <2>1, <3>2, <3>3 DEF Has
  <2>4. \A m \in DOMAIN Paths : m \in todo' => ~Has(Paths[m])'
    BY <1>3, <2>1, <2>3 DEF PInv, RowsInv
  <2>5. IF d # Empty /\ Kept(f, d) THEN new \in rows' ELSE ~Has(f)'
    BY <1>12, <2>1 DEF Has
  <2>6. ASSUME NEW m \in DOMAIN Paths, m \notin todo', Paths[m] \notin moved
        PROVE  IF summary[Paths[m]] \notin {None, Empty} /\ Kept(Paths[m], summary[Paths[m]])
               THEN [file |-> Paths[m], data |-> summary[Paths[m]]] \in rows'
               ELSE ~Has(Paths[m])'
    <3>1. CASE m = n
      BY <1>2, <1>6, <2>5, <3>1
    <3>2. CASE m # n
      <4>1. m \notin todo
        BY <2>1, <2>6, <3>2
      <4> QED
        BY <1>3, <2>3, <2>6, <3>2, <4>1 DEF PInv, RowsInv
    <3> QED
      BY <3>1, <3>2
  <2> QED
    BY <1>3, <2>2, <2>4, <2>6 DEF RowsInv
<1> QED
  BY <1>5, <1>11, <1>13 DEF PInv

LEMMA TwoElements ==
    ASSUME NEW S, IsFiniteSet(S)
    PROVE  /\ Cardinality(S) \in Nat
           /\ Cardinality(S) >= 2 <=> \E a, b \in S : a # b
<1>1. Cardinality(S) \in Nat
  BY FS_CardinalityType
<1>2. Cardinality(S) = 0 <=> S = {}
  BY FS_EmptySet
<1>3. Cardinality(S) = 1 <=> \E x : S = {x}
  BY FS_Singleton
<1>4. (\E a, b \in S : a # b) <=> S # {} /\ ~\E x : S = {x}
  OBVIOUS
<1>5. \A c \in Nat : c >= 2 <=> c # 0 /\ c # 1
  OBVIOUS
<1> QED
  BY <1>1, <1>2, <1>3, <1>4, <1>5

LEMMA SanitizersFinite ==
    ASSUME NEW S, IsFiniteSet(S), NEW p
    PROVE  IsFiniteSet(SanitizersOf(S, p))
<1>1. PICK Q : Q = {q \in S : project_key(q) = p}
  OBVIOUS
<1>2. PICK f : f = [r \in Q |-> r.file.sanitizer]
  OBVIOUS
<1>3. f \in Surjection(Q, SanitizersOf(S, p))
  BY <1>1, <1>2 DEF Surjection, SanitizersOf
<1>4. Q \in SUBSET S
  BY <1>1
<1>5. IsFiniteSet(Q)
  BY <1>4, FS_Subset
<1> QED
  BY <1>3, <1>5, FS_Surjection

\* The filters take projects as a whole: a row stays exactly if its project
\* has fewer than two rows that are worse, and not a single sanitizer.
LEMMA PublishedOf ==
    ASSUME NEW S, NEW T, T = single_sanitizer(multiple_negative_reductions(S))
    PROVE  /\ T \subseteq S
           /\ \A r \in S : r \in T <=> /\ ~(Cardinality(Worse(S, project_key(r))) >= 2)
                                       /\ ~(Cardinality(SanitizersOf(S, project_key(r))) = 1)
<1>1. PICK A : A = multiple_negative_reductions(S)
  OBVIOUS
<1>2. \A r : r \in A <=> r \in S /\ ~(Cardinality(Worse(S, project_key(r))) >= 2)
  BY <1>1 DEF multiple_negative_reductions, Without
<1>3. \A r : r \in T <=> r \in A /\ ~(Cardinality(SanitizersOf(A, project_key(r))) = 1)
  BY <1>1 DEF single_sanitizer, Without
<1>4. ASSUME NEW r \in A PROVE SanitizersOf(A, project_key(r)) = SanitizersOf(S, project_key(r))
  <2>1. {q \in A : project_key(q) = project_key(r)} = {q \in S : project_key(q) = project_key(r)}
    BY <1>2
  <2> QED
    BY <2>1 DEF SanitizersOf
<1> QED
  BY <1>2, <1>3, <1>4

LEMMA Signs ==
    \A n, b, a \in Nat \ {0} :
        (b - a) * (b - n) < 0 <=> \/ a > b /\ b > n
                                  \/ a < b /\ b < n
<1>1. \A x, y \in Int : x < 0 /\ y > 0 => x * y < 0
  OBVIOUS
<1>2. \A x, y \in Int : x > 0 /\ y < 0 => x * y < 0
  OBVIOUS
<1>3. \A x, y \in Int : x >= 0 /\ y >= 0 => x * y >= 0
  OBVIOUS
<1>4. \A x, y \in Int : x <= 0 /\ y <= 0 => x * y >= 0
  OBVIOUS
<1>5. ASSUME NEW x \in Int, NEW y \in Int
      PROVE  x * y < 0 <=> (x < 0 /\ y > 0) \/ (x > 0 /\ y < 0)
  <2>1. x * y \in Int
    OBVIOUS
  <2>2. \A z \in Int : z >= 0 => ~(z < 0)
    OBVIOUS
  <2>3. \/ (x < 0 /\ y > 0) \/ (x > 0 /\ y < 0)
        \/ (x >= 0 /\ y >= 0) \/ (x <= 0 /\ y <= 0)
    OBVIOUS
  <2>4. CASE (x < 0 /\ y > 0) \/ (x > 0 /\ y < 0)
    BY <1>1, <1>2, <2>4
  <2>5. CASE ~((x < 0 /\ y > 0) \/ (x > 0 /\ y < 0))
    <3>1. x * y >= 0
      BY <1>3, <1>4, <2>3, <2>5
    <3> QED
      BY <2>1, <2>2, <2>5, <3>1
  <2> QED
    BY <2>4, <2>5
<1>6. ASSUME NEW n \in Nat \ {0}, NEW b \in Nat \ {0}, NEW a \in Nat \ {0}
      PROVE  (b - a) * (b - n) < 0 <=> (a > b /\ b > n) \/ (a < b /\ b < n)
  <2>1. b - a \in Int /\ b - n \in Int
    OBVIOUS
  <2>2. /\ b - a < 0 <=> a > b
        /\ b - a > 0 <=> a < b
        /\ b - n < 0 <=> b < n
        /\ b - n > 0 <=> b > n
    OBVIOUS
  <2> QED
    BY <1>5, <2>1, <2>2
<1> QED
  BY <1>6

\* Of a run that ended well, the sign of the quotient is that of DESAN's saving
\* times that of the sanitizer's overhead.
LEMMA WorseMeans ==
    ASSUME NEW d \in Outcomes, is_successful_runtime(d)
    PROVE  /\ {d.native.time, d.before.time, d.after.time} \subseteq Nat \ {0}
           /\ has_negative_overhead_reduction(d) <=>
                 \/ d.after.time > d.before.time /\ d.before.time > d.native.time
                 \/ d.after.time < d.before.time /\ d.before.time < d.native.time
<1>1. PICK n, b, a : n = d.native.time /\ b = d.before.time /\ a = d.after.time
  OBVIOUS
<1>2. d.native.status = "S" /\ d.before.status = "S" /\ d.after.status = "S"
  BY DEF is_successful_runtime
<1>3. n \in Nat \ {0} /\ b \in Nat \ {0} /\ a \in Nat \ {0} /\ None \notin {n, b, a}
  BY <1>1, <1>2, PublishedAssumption
<1>4. n > 0
  BY <1>3
<1>5. overhead_reduction(d.native, d.before, d.after) =
        IF b # n THEN <<b - a, b - n>> ELSE None
  BY <1>1, <1>2, <1>3, <1>4 DEF overhead_reduction
<1>6. <<b - a, b - n>> # None
  <2>1. b - a \in Int /\ b - n \in Int
    BY <1>3
  <2> QED
    BY <2>1, PublishedAssumption
<1>7. b = n => ~((a > b /\ b > n) \/ (a < b /\ b < n))
  BY <1>3
<1>8. has_negative_overhead_reduction(d) <=> (a > b /\ b > n) \/ (a < b /\ b < n)
  <2>1. CASE b = n
    BY <1>5, <1>7, <2>1 DEF has_negative_overhead_reduction, Negative
  <2>2. CASE b # n
    <3>1. has_negative_overhead_reduction(d) <=> (b - a) * (b - n) < 0
      BY <1>5, <1>6, <2>2 DEF has_negative_overhead_reduction, Negative
    <3> QED
      BY <1>3, <3>1, Signs
  <2> QED
    BY <2>1, <2>2
<1> QED
  BY <1>1, <1>3, <1>8

LEMMA WriteKeeps ==
    ASSUME PInv, WriteTable
    PROVE  PInv'
<1>1. /\ todo' = None /\ UNCHANGED <<summary, rows, moved>>
      /\ published' = single_sanitizer(multiple_negative_reductions(rows))
  BY DEF WriteTable
<1>2. TInv' /\ RowsInv'
  BY <1>1 DEF PInv, TInv, RowsInv
<1>3. PICK T : T = published'
  OBVIOUS
<1>4. /\ rows \in SUBSET Rows /\ IsFiniteSet(rows)
      /\ \A r \in rows : Kept(r.file, r.data)
  BY DEF PInv, TInv
<1>5. /\ T \subseteq rows
      /\ \A r \in rows : r \in T <=> /\ ~(Cardinality(Worse(rows, project_key(r))) >= 2)
                                     /\ ~(Cardinality(SanitizersOf(rows, project_key(r))) = 1)
  BY <1>1, <1>3, PublishedOf
<1>6. ASSUME NEW r \in T,
             NEW project, project = {q \in T : project_key(q) = project_key(r)},
             NEW slower, slower = {q \in project : /\ q.data.after.time > q.data.before.time
                                                   /\ q.data.before.time > q.data.native.time}
      PROVE  Cardinality({q.file.sanitizer : q \in project}) >= 2 /\ Cardinality(slower) <= 1
  <2>1. PICK k : k = project_key(r)
    OBVIOUS
  <2>2. /\ r \in rows
        /\ ~(Cardinality(Worse(rows, k)) >= 2)
        /\ ~(Cardinality(SanitizersOf(rows, k)) = 1)
    BY <1>5, <2>1
  <2>3. project = {q \in rows : project_key(q) = k}
    BY <1>5, <1>6, <2>1, <2>2
  <2>4. {q.file.sanitizer : q \in project} = SanitizersOf(rows, k)
    BY <2>3 DEF SanitizersOf
  <2>5. Cardinality(SanitizersOf(rows, k)) >= 2
    <3>1. PICK S : S = SanitizersOf(rows, k)
      OBVIOUS
    <3>2. IsFiniteSet(S)
      BY <1>4, <3>1, SanitizersFinite
    <3>3. r.file.sanitizer \in S
      BY <2>1, <2>2, <3>1 DEF SanitizersOf
    <3>4. Cardinality(S) \in Nat /\ (Cardinality(S) = 0 <=> S = {})
      BY <3>2, FS_CardinalityType, FS_EmptySet
    <3>5. \A c \in Nat : c # 0 /\ ~(c = 1) => c >= 2
      OBVIOUS
    <3> QED
      BY <2>2, <3>1, <3>3, <3>4, <3>5
  <2>6. slower \subseteq Worse(rows, k)
    <3> SUFFICES ASSUME NEW q \in slower PROVE q \in Worse(rows, k)
      OBVIOUS
    <3>1. q \in rows /\ project_key(q) = k
      BY <1>6, <2>3
    <3>2. q.data \in Outcomes /\ is_successful_runtime(q.data)
      BY <1>4, <3>1 DEF Rows, Kept
    <3>3. has_negative_overhead_reduction(q.data)
      BY <1>6, <3>2, WorseMeans
    <3> QED
      BY <3>1, <3>3 DEF Worse
  <2>7. Cardinality(slower) <= 1
    <3>1. PICK W : W = Worse(rows, k)
      OBVIOUS
    <3>2. W \in SUBSET rows
      BY <3>1 DEF Worse
    <3>3. IsFiniteSet(W)
      BY <1>4, <3>2, FS_Subset
    <3>4. slower \in SUBSET W
      BY <2>6, <3>1
    <3>5. IsFiniteSet(slower) /\ Cardinality(slower) <= Cardinality(W)
      BY <3>3, <3>4, FS_Subset
    <3>6. Cardinality(W) \in Nat /\ Cardinality(slower) \in Nat
      BY <3>3, <3>5, FS_CardinalityType
    <3>7. \A c, w \in Nat : c <= w /\ ~(w >= 2) => c <= 1
      OBVIOUS
    <3> QED
      BY <2>2, <3>1, <3>5, <3>6, <3>7
  <2> QED
    BY <2>4, <2>5, <2>7
<1>7. PublishedHoldsUp'
  BY <1>3, <1>6 DEF PublishedHoldsUp
<1> QED
  BY <1>2, <1>7 DEF PInv

LEMMA FinishesKeep ==
    ASSUME PInv, NEW f \in Files, RunFails(f)
    PROVE  PInv'
<1>1. UNCHANGED <<summary, todo, rows, published, moved>>
  BY DEF RunFails
<1> QED
  BY <1>1 DEF PInv, TInv, RowsInv, Has, PublishedHoldsUp

LEMMA PNext == PInv /\ [Next]_vars => PInv'
<1> SUFFICES ASSUME PInv, [Next]_vars PROVE PInv'
  OBVIOUS
<1>1. ASSUME NEW f \in Files, RemoveSummary(f) PROVE PInv'
  <2>1. summary' = [summary EXCEPT ![f] = None] /\ Touch(f) /\ UNCHANGED <<todo, rows, published>>
    BY <1>1 DEF RemoveSummary
  <2> QED
    BY <2>1, RunsKeep
<1>2. ASSUME NEW f \in Files, RunFails(f) PROVE PInv'
  BY <1>2, FinishesKeep
<1>3. ASSUME NEW f \in Files, OpenSummary(f) PROVE PInv'
  <2>1. summary' = [summary EXCEPT ![f] = Empty] /\ Touch(f) /\ UNCHANGED <<todo, rows, published>>
    BY <1>3 DEF OpenSummary
  <2> QED
    BY <2>1, RunsKeep
<1>4. ASSUME NEW f \in Files, WriteSummary(f) PROVE PInv'
  <2>1. PICK o \in Outcomes : summary' = [summary EXCEPT ![f] = o]
    BY <1>4 DEF WriteSummary
  <2>2. Touch(f) /\ UNCHANGED <<todo, rows, published>>
    BY <1>4 DEF WriteSummary
  <2> QED
    BY <2>1, <2>2, RunsKeep
<1>5. CASE ListSummaries
  BY <1>5, ListKeeps
<1>6. CASE ReadSummary
  BY <1>6, ReadKeeps
<1>7. CASE WriteTable
  BY <1>7, WriteKeeps
<1>8. CASE UNCHANGED vars
  BY <1>8 DEF vars, PInv, TInv, RowsInv, Has, PublishedHoldsUp
<1> QED
  BY <1>1, <1>2, <1>3, <1>4, <1>5, <1>6, <1>7, <1>8 DEF Next

\* Whatever runs again during a collection, collect_all_results publishes
\* projects with results of two sanitizers at least and with one at most under
\* which DESAN's program is the slower one.
THEOREM PublishedRowsHold == Spec => []PublishedHoldsUp
<1>1. Spec => []PInv
  BY TypesInit, PNext, PTL DEF Spec
<1>2. PInv => PublishedHoldsUp
  BY DEF PInv
<1> QED
  BY <1>1, <1>2, PTL

LEMMA KeyOfFile ==
    /\ \A r : project_key(r) = project_key([file |-> r.file])
    /\ \A f : project_key([file |-> f])[2] = f.benchmark
BY DEF project_key

\* The rows of a project whose files did not move are the runs the summaries
\* have of it, unless the project is excluded.
LEMMA RowsOfProject ==
    ASSUME PInv, todo = {}, NEW k, Own(k) \cap moved = {}
    PROVE  IF k[2] \in ExcludedBenchmarks
           THEN \A r \in rows : project_key(r) # k
           ELSE {r \in rows : project_key(r) = k} = {[file |-> f, data |-> summary[f]] : f \in Ran(k)}
<1>1. rows \in SUBSET Rows /\ \A r \in rows : Kept(r.file, r.data)
  BY DEF PInv, TInv
<1>2. \A f : f \in Own(k) <=> f \in Files /\ project_key([file |-> f]) = k
  BY DEF Own
<1>3. \A r \in rows : project_key(r) = k <=> r.file \in Own(k)
  BY <1>1, <1>2, KeyOfFile DEF Rows
<1>4. \A f \in Own(k) : f.benchmark = k[2]
  BY <1>2, KeyOfFile
<1>5. CASE k[2] \in ExcludedBenchmarks
  BY <1>1, <1>3, <1>4, <1>5 DEF Kept, is_excluded_project
<1>6. CASE k[2] \notin ExcludedBenchmarks
  <2>1. ASSUME NEW f \in Own(k)
        PROVE  IF f \in Ran(k) THEN [file |-> f, data |-> summary[f]] \in rows ELSE ~Has(f)
    <3>1. PICK n \in DOMAIN Paths : Paths[n] = f
      BY <1>2, FilesFacts
    <3>2. f \notin moved
      OBVIOUS
    <3>3. IF summary[f] \notin {None, Empty} /\ Kept(f, summary[f])
          THEN [file |-> f, data |-> summary[f]] \in rows
          ELSE ~Has(f)
      <4>1. todo # None /\ n \notin todo
        BY PublishedAssumption
      <4> QED
        BY <3>1, <3>2, <4>1 DEF PInv, RowsInv
    <3>4. f \in Ran(k) <=> summary[f] \notin {None, Empty} /\ Kept(f, summary[f])
      BY <1>4, <1>6 DEF Ran, Kept, is_successful_runtime, has_inserted_checks, is_excluded_project
    <3> QED
      BY <3>3, <3>4
  <2>2. ASSUME NEW r \in rows, project_key(r) = k
        PROVE  \E f \in Ran(k) : r = [file |-> f, data |-> summary[f]]
    <3>1. r.file \in Own(k) /\ Has(r.file)
      BY <1>3, <2>2 DEF Has
    <3>2. r.file \in Ran(k) /\ [file |-> r.file, data |-> summary[r.file]] \in rows
      BY <2>1, <3>1
    <3>3. todo # None
      BY PublishedAssumption
    <3>4. r = [file |-> r.file, data |-> summary[r.file]]
      <4>1. PICK q : q = [file |-> r.file, data |-> summary[r.file]]
        OBVIOUS
      <4>2. q \in rows /\ q.file = r.file
        BY <3>2, <4>1
      <4>3. \A a, b \in rows : a.file = b.file => a = b
        BY <3>3 DEF PInv, RowsInv
      <4> QED
        BY <4>1, <4>2, <4>3
    <3> QED
      BY <3>2, <3>4
  <2>3. ASSUME NEW f \in Ran(k)
        PROVE  /\ [file |-> f, data |-> summary[f]] \in rows
               /\ project_key([file |-> f, data |-> summary[f]]) = k
    <3>1. f \in Own(k)
      BY DEF Ran
    <3>2. [file |-> f, data |-> summary[f]] \in rows
      BY <2>1, <3>1
    <3> QED
      BY <1>3, <3>1, <3>2
  <2>4. {r \in rows : project_key(r) = k} = {[file |-> f, data |-> summary[f]] : f \in Ran(k)}
    BY <2>2, <2>3
  <2> QED
    BY <1>6, <2>4
<1> QED
  BY <1>5, <1>6

LEMMA TableIsCurrent ==
    ASSUME PInv, [Next]_vars, published' # published,
           NEW k, k \in {project_key([file |-> f]) : f \in Files}, Own(k) \cap moved = {},
           NEW shown, shown = {r \in published' : r.file \in Own(k)}
    PROVE  \/ shown = {[file |-> f, data |-> summary[f]] : f \in Ran(k)}
           \/ /\ shown = {}
              /\ \/ k[2] \in ExcludedBenchmarks
                 \/ Cardinality({f.sanitizer : f \in Ran(k)}) < 2
                 \/ Cardinality(Lost(k)) >= 2
<1>1. WriteTable
  BY DEF Next, vars, RemoveSummary, RunFails, OpenSummary, WriteSummary, ListSummaries, ReadSummary
<1>2. PICK T : T = published'
  OBVIOUS
<1>3. todo = {} /\ T = single_sanitizer(multiple_negative_reductions(rows))
  BY <1>1, <1>2 DEF WriteTable
<1>4. /\ T \subseteq rows
      /\ \A r \in rows : r \in T <=> /\ ~(Cardinality(Worse(rows, project_key(r))) >= 2)
                                     /\ ~(Cardinality(SanitizersOf(rows, project_key(r))) = 1)
  BY <1>3, PublishedOf
<1>5. /\ rows \in SUBSET Rows /\ IsFiniteSet(rows)
      /\ \A r \in rows : Kept(r.file, r.data)
  BY DEF PInv, TInv
<1>6. PICK own : own = {r \in rows : project_key(r) = k}
  OBVIOUS
<1>7. \A r \in rows : project_key(r) = k <=> r.file \in Own(k)
  BY <1>5, KeyOfFile DEF Own, Rows
<1>8. shown = {r \in own : r \in T}
  BY <1>2, <1>4, <1>6, <1>7
<1>9. CASE k[2] \in ExcludedBenchmarks
  BY <1>3, <1>6, <1>8, <1>9, RowsOfProject
<1>10. CASE k[2] \notin ExcludedBenchmarks
  <2>1. own = {[file |-> f, data |-> summary[f]] : f \in Ran(k)}
    BY <1>3, <1>6, <1>10, RowsOfProject
  <2>2. CASE Cardinality(Worse(rows, k)) >= 2
    <3>1. shown = {}
      BY <1>4, <1>6, <1>8, <2>2
    <3>2. PICK W : W = Worse(rows, k)
      OBVIOUS
    <3>3. W \in SUBSET rows
      BY <3>2 DEF Worse
    <3>4. IsFiniteSet(W)
      BY <1>5, <3>3, FS_Subset
    <3>5. PICK a, b \in W : a # b
      BY <2>2, <3>2, <3>4, TwoElements
    <3>6. ASSUME NEW w \in W
          PROVE  \E f \in Lost(k) : w = [file |-> f, data |-> summary[f]]
      <4>1. w \in own /\ w \in rows /\ has_negative_overhead_reduction(w.data)
        BY <1>6, <3>2 DEF Worse
      <4>2. PICK f \in Ran(k) : w = [file |-> f, data |-> summary[f]]
        BY <2>1, <4>1
      <4>3. w.data \in Outcomes /\ is_successful_runtime(w.data) /\ w.data = summary[f]
        BY <1>5, <4>1, <4>2 DEF Rows, Kept
      <4>4. f \in Lost(k)
        BY <4>1, <4>3, WorseMeans DEF Lost
      <4> QED
        BY <4>2, <4>4
    <3>7. \E f, g \in Lost(k) : f # g
      BY <3>5, <3>6
    <3>8. PICK L : L = Lost(k)
      OBVIOUS
    <3>9. L \in SUBSET Files
      BY <3>8 DEF Lost, Ran, Own
    <3>10. IsFiniteSet(L)
      BY <3>9, FilesFacts, FS_Subset
    <3>11. Cardinality(L) >= 2
      BY <3>7, <3>8, <3>10, TwoElements
    <3> QED
      BY <3>1, <3>8, <3>11
  <2>3. CASE Cardinality(SanitizersOf(rows, k)) = 1
    <3>1. shown = {}
      BY <1>4, <1>6, <1>8, <2>3
    <3>2. SanitizersOf(rows, k) = {f.sanitizer : f \in Ran(k)}
      <4>1. SanitizersOf(rows, k) = {r.file.sanitizer : r \in own}
        BY <1>6 DEF SanitizersOf
      <4>2. ASSUME NEW r \in own PROVE \E f \in Ran(k) : r.file.sanitizer = f.sanitizer
        <5>1. PICK f \in Ran(k) : r = [file |-> f, data |-> summary[f]]
          BY <2>1
        <5>2. r.file = f
          BY <5>1
        <5> QED
          BY <5>2
      <4>3. ASSUME NEW f \in Ran(k) PROVE \E r \in own : f.sanitizer = r.file.sanitizer
        <5>1. PICK r \in own : r = [file |-> f, data |-> summary[f]]
          BY <2>1
        <5>2. r.file = f
          BY <5>1
        <5> QED
          BY <5>2
      <4> QED
        BY <4>1, <4>2, <4>3
    <3>3. Cardinality({f.sanitizer : f \in Ran(k)}) = 1
      BY <2>3, <3>2
    <3>4. Cardinality({f.sanitizer : f \in Ran(k)}) < 2
      BY <3>3
    <3> QED
      BY <3>1, <3>4
  <2>4. CASE /\ ~(Cardinality(Worse(rows, k)) >= 2)
             /\ ~(Cardinality(SanitizersOf(rows, k)) = 1)
    <3>1. shown = own
      BY <1>4, <1>6, <1>8, <2>4
    <3> QED
      BY <2>1, <3>1
  <2> QED
    BY <2>2, <2>3, <2>4
<1> QED
  BY <1>9, <1>10

\* A new table agrees with the summaries on every project whose files were at
\* rest during the collection, whatever happened to the others.
THEOREM TableAgrees == Spec => PublishedIsCurrent
<1>1. Spec => []PInv
  BY TypesInit, PNext, PTL DEF Spec
<1>2. PInv /\ [Next]_vars =>
        [published' # published =>
          \A k \in {project_key([file |-> f]) : f \in Files} :
             LET shown == {r \in published' : r.file \in Own(k)}
             IN  Own(k) \cap moved = {} =>
                    \/ shown = {[file |-> f, data |-> summary[f]] : f \in Ran(k)}
                    \/ /\ shown = {}
                       /\ \/ k[2] \in ExcludedBenchmarks
                          \/ Cardinality({f.sanitizer : f \in Ran(k)}) < 2
                          \/ Cardinality(Lost(k)) >= 2]_vars
  BY TableIsCurrent
<1> QED
  BY <1>1, <1>2, PTL DEF Spec, PublishedIsCurrent

-----------------------------------------------------------------------------
(* SanRazor's disabled checks.                                              *)

\* What the scripts are given.
LEMMA Inputs ==
    /\ IsFiniteSet(Bitcode) /\ IsFiniteSet(Benchmarks) /\ Benchmarks \subseteq Nat
    /\ \A b \in Bitcode : /\ b.level \in LevelSet /\ b.benchmark \in Benchmarks
                          /\ IsFiniteSet(Disabled(b.ir))
    /\ \A l \in LevelSet : \A s \in LevelSummaries[l] :
          /\ s # Missing /\ DOMAIN s \subseteq Benchmarks
          /\ \A x \in DOMAIN s : s[x].original \in Nat /\ s[x].removed \in Nat
    /\ Missing \notin [Bitcode -> TaskStates]
    /\ \A D \in SUBSET Benchmarks : Cut \notin [D -> RewrittenRows]
<1>1. /\ IsFiniteSet(Bitcode) /\ IsFiniteSet(Benchmarks) /\ Benchmarks \subseteq Nat
      /\ \A b \in Bitcode : b.level \in LevelSet /\ b.benchmark \in Benchmarks
      /\ Missing \notin [Bitcode -> TaskStates]
      /\ \A D \in SUBSET Benchmarks : Cut \notin [D -> RewrittenRows]
  BY SanRazorAssumption DEF LevelSet
<1>2. \A b \in Bitcode : IsFiniteSet(Disabled(b.ir))
  BY FilesAssumption
<1>3. ASSUME NEW l \in LevelSet, NEW s \in LevelSummaries[l]
      PROVE  /\ s # Missing /\ DOMAIN s \subseteq Benchmarks
             /\ \A x \in DOMAIN s : s[x].original \in Nat /\ s[x].removed \in Nat
  <2>1. /\ s # Missing /\ DOMAIN s \subseteq Benchmarks
        /\ \A x \in DOMAIN s : s[x].original \in Nat /\ s[x].removed \in 0..s[x].original
    BY <1>3, SanRazorAssumption DEF LevelSet
  <2> QED
    BY <2>1
<1> QED
  BY <1>1, <1>2, <1>3

\* Every disabled check of a file is of one kind.
LEMMA KindsAdd ==
    ASSUME NEW ir, IsFiniteSet(Disabled(ir)), NEW c, c = classify_file(ir)
    PROVE  /\ c.detected = Cardinality(Disabled(ir))
           /\ c.detected \in Nat /\ c.read \in Nat /\ c.write \in Nat /\ c.unknown \in Nat
           /\ c.read + c.write + c.unknown = c.detected
<1>1. PICK D, R, W, U :
         /\ D = Disabled(ir) /\ R = OfKind(ir, "read")
         /\ W = OfKind(ir, "write") /\ U = OfKind(ir, "unknown")
  OBVIOUS
<1>2. c.detected = Cardinality(D) /\ c.read = Cardinality(R) /\ c.write = Cardinality(W) /\ c.unknown = Cardinality(U)
  BY <1>1 DEF classify_file
<1>3. \A x : classify_handler(x) \in {"read", "write", "unknown"}
  BY DEF classify_handler
<1>4. /\ R \in SUBSET D /\ W \in SUBSET D /\ U \in SUBSET D
      /\ D = (R \cup W) \cup U /\ R \cap W = {} /\ (R \cup W) \cap U = {}
  BY <1>1, <1>3 DEF OfKind
<1>5. IsFiniteSet(D) /\ IsFiniteSet(R) /\ IsFiniteSet(W) /\ IsFiniteSet(U)
  BY <1>1, <1>4, FS_Subset
<1>6. /\ Cardinality(D) \in Nat /\ Cardinality(R) \in Nat /\ Cardinality(W) \in Nat /\ Cardinality(U) \in Nat
  BY <1>5, FS_CardinalityType
<1>7. /\ IsFiniteSet(R \cup W)
      /\ Cardinality(R \cup W) = Cardinality(R) + Cardinality(W) - Cardinality(R \cap W)
  BY <1>5, FS_Union
<1>8. Cardinality((R \cup W) \cup U) = Cardinality(R \cup W) + Cardinality(U) - Cardinality((R \cup W) \cap U)
  BY <1>5, <1>7, FS_Union
<1>9. Cardinality(D) = Cardinality(R) + Cardinality(W) + Cardinality(U)
  <2>1. Cardinality(R \cap W) = 0 /\ Cardinality((R \cup W) \cap U) = 0
    BY <1>4, FS_EmptySet
  <2>2. Cardinality(R \cup W) = Cardinality(R) + Cardinality(W)
    BY <1>6, <1>7, <2>1
  <2>3. Cardinality((R \cup W) \cup U) = Cardinality(R) + Cardinality(W) + Cardinality(U)
    BY <1>6, <1>8, <2>1, <2>2
  <2> QED
    BY <1>4, <2>3
<1> QED
  BY <1>1, <1>2, <1>6, <1>9

KeyOf(b) == <<b.level, b.benchmark>>

\* The files whose result was taken, all and those of a row.
Taken == {b \in Bitcode : task # Missing /\ task[b] = "taken"}
TakenOf(k) == {b \in Taken : KeyOf(b) = k}

DetectedIn == [b \in Bitcode |-> classify_file(b.ir).detected]
ReadIn == [b \in Bitcode |-> classify_file(b.ir).read]
WriteIn == [b \in Bitcode |-> classify_file(b.ir).write]
UnknownIn == [b \in Bitcode |-> classify_file(b.ir).unknown]

\* The counts c are those of the files S.
CountsOf(c, S) ==
    /\ c.detected = SumOver(DetectedIn, S)
    /\ c.read = SumOver(ReadIn, S)
    /\ c.write = SumOver(WriteIn, S)
    /\ c.unknown = SumOver(UnknownIn, S)

(* Tasks, the summaries of the levels and those the script was given.        *)
TaskInv ==
    /\ task = Missing \/ task \in [Bitcode -> TaskStates]
    /\ DOMAIN levelSummary = LevelSet /\ DOMAIN rewritten = LevelSet
    /\ \A l \in LevelSet : levelSummary[l] = Missing \/ levelSummary[l] \in LevelSummaries[l]
    /\ task # Missing =>
          \A l \in LevelSet : given[l] = Missing \/ given[l] \in LevelSummaries[l]

(* Whatever was taken so far has been added up, once.                        *)
SumInv ==
    /\ DOMAIN aggregated = {KeyOf(b) : b \in Taken}
    /\ \A k \in DOMAIN aggregated : CountsOf(aggregated[k], TakenOf(k))

(* The table has a row for every line of the summaries it was made with.     *)
RowInv ==
    access # Missing =>
        /\ DOMAIN access \subseteq Keys
        /\ \A k \in DOMAIN access : /\ access[k].removed \in Nat /\ access[k].read \in Nat
                                    /\ access[k].write \in Nat /\ access[k].unknown \in Nat
        /\ \A l \in LevelSet : used[l] # Missing => \A x \in DOMAIN used[l] : <<l, x>> \in DOMAIN access

SRInv == TaskInv /\ SumInv /\ RowInv /\ AggregationExact

LEMMA CountTypes ==
    \A b \in Bitcode :
       /\ DetectedIn[b] \in Nat /\ ReadIn[b] \in Nat /\ WriteIn[b] \in Nat /\ UnknownIn[b] \in Nat
       /\ ReadIn[b] + WriteIn[b] + UnknownIn[b] = DetectedIn[b]
       /\ DetectedIn[b] = Cardinality(Disabled(b.ir))
<1> SUFFICES ASSUME NEW b \in Bitcode
             PROVE  /\ DetectedIn[b] \in Nat /\ ReadIn[b] \in Nat /\ WriteIn[b] \in Nat /\ UnknownIn[b] \in Nat
                    /\ ReadIn[b] + WriteIn[b] + UnknownIn[b] = DetectedIn[b]
                    /\ DetectedIn[b] = Cardinality(Disabled(b.ir))
  OBVIOUS
<1>1. PICK c : c = classify_file(b.ir)
  OBVIOUS
<1>2. IsFiniteSet(Disabled(b.ir))
  BY Inputs
<1>3. DetectedIn[b] = c.detected /\ ReadIn[b] = c.read /\ WriteIn[b] = c.write /\ UnknownIn[b] = c.unknown
  BY <1>1 DEF DetectedIn, ReadIn, WriteIn, UnknownIn
<1> QED
  BY <1>1, <1>2, <1>3, KindsAdd

\* The counts of some files are naturals, and every check is of one kind.
LEMMA CountsFacts ==
    ASSUME NEW S \in SUBSET Bitcode, NEW c, CountsOf(c, S)
    PROVE  /\ c.detected \in Nat /\ c.read \in Nat /\ c.write \in Nat /\ c.unknown \in Nat
           /\ c.read + c.write + c.unknown = c.detected
           /\ c.detected = SumOver([b \in Bitcode |-> Cardinality(Disabled(b.ir))], S)
<1>1. IsFiniteSet(S)
  BY Inputs, FS_Subset
<1>2. \A b \in S : /\ DetectedIn[b] \in Nat /\ ReadIn[b] \in Nat /\ WriteIn[b] \in Nat /\ UnknownIn[b] \in Nat
                   /\ ReadIn[b] + WriteIn[b] + UnknownIn[b] = DetectedIn[b]
                   /\ DetectedIn[b] = Cardinality(Disabled(b.ir))
  BY CountTypes
<1>3. /\ SumOver(DetectedIn, S) \in Nat /\ SumOver(ReadIn, S) \in Nat
      /\ SumOver(WriteIn, S) \in Nat /\ SumOver(UnknownIn, S) \in Nat
  <2>1. /\ \A b \in S : DetectedIn[b] \in Nat
        /\ \A b \in S : ReadIn[b] \in Nat
        /\ \A b \in S : WriteIn[b] \in Nat
        /\ \A b \in S : UnknownIn[b] \in Nat
    BY <1>2
  <2> QED
    BY <1>1, <2>1, SumType
<1>4. PICK h : h = [b \in S |-> ReadIn[b] + WriteIn[b]]
  OBVIOUS
<1>5. SumOver(h, S) = SumOver(ReadIn, S) + SumOver(WriteIn, S)
  <2>1. \A b \in S : ReadIn[b] \in Int /\ WriteIn[b] \in Int /\ h[b] = ReadIn[b] + WriteIn[b]
    BY <1>2, <1>4
  <2> QED
    BY <1>1, <2>1, SumPlus
<1>6. SumOver(DetectedIn, S) = SumOver(h, S) + SumOver(UnknownIn, S)
  <2>1. \A b \in S : h[b] \in Int /\ UnknownIn[b] \in Int /\ DetectedIn[b] = h[b] + UnknownIn[b]
    BY <1>2, <1>4
  <2> QED
    BY <1>1, <2>1, SumPlus
<1>7. PICK g : g = [b \in Bitcode |-> Cardinality(Disabled(b.ir))]
  OBVIOUS
<1>8. SumOver(DetectedIn, S) = SumOver(g, S)
  <2>1. \A b \in S : DetectedIn[b] = g[b]
    BY <1>2, <1>7
  <2> QED
    BY <1>1, <2>1, SumEqual
<1>9. /\ c.detected = SumOver(DetectedIn, S) /\ c.read = SumOver(ReadIn, S)
      /\ c.write = SumOver(WriteIn, S) /\ c.unknown = SumOver(UnknownIn, S)
  BY DEF CountsOf
<1> QED
  BY <1>3, <1>5, <1>6, <1>7, <1>8, <1>9

LEMMA NothingCounted == CountsOf(NoCounts, {})
  BY SumEmpty DEF CountsOf, NoCounts

\* One more file.
LEMMA CountsPlus ==
    ASSUME NEW S \in SUBSET Bitcode, NEW c, CountsOf(c, S), NEW b \in Bitcode, b \notin S
    PROVE  CountsOf(Plus(c, classify_file(b.ir)), S \cup {b})
<1>1. IsFiniteSet(S)
  BY Inputs, FS_Subset
<1>2. \A x \in S \cup {b} : /\ DetectedIn[x] \in Int /\ ReadIn[x] \in Int
                            /\ WriteIn[x] \in Int /\ UnknownIn[x] \in Int
  BY CountTypes
<1>3. /\ SumOver(DetectedIn, S \cup {b}) = SumOver(DetectedIn, S) + DetectedIn[b]
      /\ SumOver(ReadIn, S \cup {b}) = SumOver(ReadIn, S) + ReadIn[b]
      /\ SumOver(WriteIn, S \cup {b}) = SumOver(WriteIn, S) + WriteIn[b]
      /\ SumOver(UnknownIn, S \cup {b}) = SumOver(UnknownIn, S) + UnknownIn[b]
  BY <1>1, <1>2, SumAdd
<1>4. PICK d : d = classify_file(b.ir)
  OBVIOUS
<1>5. DetectedIn[b] = d.detected /\ ReadIn[b] = d.read /\ WriteIn[b] = d.write /\ UnknownIn[b] = d.unknown
  BY <1>4 DEF DetectedIn, ReadIn, WriteIn, UnknownIn
<1> QED
  BY <1>3, <1>4, <1>5 DEF CountsOf, Plus

LEMMA SRInit == AccessInit => SRInv
<1> SUFFICES ASSUME AccessInit PROVE SRInv
  OBVIOUS
<1>1. task = Missing /\ access = Missing /\ aggregated = << >>
      /\ levelSummary = [l \in LevelSet |-> Missing] /\ rewritten = [l \in LevelSet |-> Missing]
  BY DEF AccessInit
<1>2. Taken = {} /\ DOMAIN aggregated = {}
  BY <1>1 DEF Taken
<1> QED
  BY <1>1, <1>2 DEF SRInv, TaskInv, SumInv, RowInv, AggregationExact

\* The table stays.
LEMMA TableStays ==
    ASSUME RowInv, AggregationExact, UNCHANGED <<access, total, used>>
    PROVE  RowInv' /\ AggregationExact'
<1>1. RowInv'
  BY DEF RowInv
<1>2. AggregationExact'
  BY DEF AggregationExact, FilesOf
<1> QED
  BY <1>1, <1>2

\* No result is taken.
LEMMA SumsStay ==
    ASSUME SumInv, UNCHANGED aggregated, Taken' = Taken
    PROVE  SumInv'
<1>1. \A k : TakenOf(k)' = TakenOf(k)
  BY DEF TakenOf
<1>2. \A k : CountsOf(aggregated[k], TakenOf(k))' <=> CountsOf(aggregated[k], TakenOf(k))
  BY <1>1 DEF CountsOf
<1> QED
  BY <1>2 DEF SumInv

LEMMA SRTakeResult ==
    ASSUME SRInv, NEW b \in Bitcode, TakeResult(b)
    PROVE  SRInv'
<1>1. /\ task # Missing /\ task[b] = "done" /\ task' = [task EXCEPT ![b] = "taken"]
      /\ UNCHANGED <<levelSummary, given, access, total, used, rewritten>>
  BY DEF TakeResult
<1>2. PICK key, old :
         /\ key = KeyOf(b) /\ old = IF key \in DOMAIN aggregated THEN aggregated[key] ELSE NoCounts
         /\ aggregated' = [k \in DOMAIN aggregated \cup {key} |->
                              IF k = key THEN Plus(old, classify_file(b.ir)) ELSE aggregated[k]]
  BY DEF TakeResult, KeyOf
<1>3. task \in [Bitcode -> TaskStates]
  BY <1>1 DEF SRInv, TaskInv
<1>4. /\ task' \in [Bitcode -> TaskStates] /\ task' # Missing
      /\ task'[b] = "taken" /\ \A c \in Bitcode \ {b} : task'[c] = task[c]
  <2>1. task' \in [Bitcode -> TaskStates]
    BY <1>1, <1>3 DEF TaskStates
  <2>2. task'[b] = "taken" /\ \A c \in Bitcode \ {b} : task'[c] = task[c]
    BY <1>1, <1>3
  <2> QED
    BY <2>1, <2>2, Inputs
<1>5. TaskInv'
  BY <1>1, <1>4 DEF SRInv, TaskInv
<1>6. b \notin Taken /\ Taken' = Taken \cup {b} /\ Taken \subseteq Bitcode
  BY <1>1, <1>4 DEF Taken
<1>7. DOMAIN aggregated = {KeyOf(c) : c \in Taken} /\ \A k \in DOMAIN aggregated : CountsOf(aggregated[k], TakenOf(k))
  BY DEF SRInv, SumInv
<1>8. TakenOf(key)' = TakenOf(key) \cup {b} /\ \A k : k # key => TakenOf(k)' = TakenOf(k)
  BY <1>2, <1>6 DEF TakenOf
<1>9. CountsOf(old, TakenOf(key))
  <2>1. CASE key \in DOMAIN aggregated
    BY <1>2, <1>7, <2>1
  <2>2. CASE key \notin DOMAIN aggregated
    <3>1. TakenOf(key) = {}
      BY <1>7, <2>2 DEF TakenOf
    <3> QED
      BY <1>2, <2>2, <3>1, NothingCounted
  <2> QED
    BY <2>1, <2>2
<1>10. CountsOf(Plus(old, classify_file(b.ir)), TakenOf(key) \cup {b})
  <2>1. TakenOf(key) \in SUBSET Bitcode /\ b \notin TakenOf(key)
    BY <1>6 DEF TakenOf
  <2> QED
    BY <1>9, <2>1, CountsPlus
<1>11. SumInv'
  <2>1. DOMAIN aggregated' = {KeyOf(c) : c \in Taken'}
    BY <1>2, <1>6, <1>7
  <2>2. ASSUME NEW k \in DOMAIN aggregated' PROVE CountsOf(aggregated'[k], TakenOf(k)')
    <3>1. CASE k = key
      BY <1>2, <1>8, <1>10, <3>1
    <3>2. CASE k # key
      <4>1. k \in DOMAIN aggregated /\ aggregated'[k] = aggregated[k]
        BY <1>2, <2>2, <3>2
      <4> QED
        BY <1>7, <1>8, <3>2, <4>1
    <3> QED
      BY <3>1, <3>2
  <2>3. \A k : CountsOf(aggregated[k], TakenOf(k))' <=> CountsOf(aggregated'[k], TakenOf(k)')
    BY DEF CountsOf
  <2> QED
    BY <2>1, <2>2, <2>3 DEF SumInv
<1> QED
  BY <1>1, <1>5, <1>11, TableStays DEF SRInv

\* The counts a row of the table is made of.
RowCounts(k) == IF k \in DOMAIN aggregated THEN aggregated[k] ELSE NoCounts

\* When all results are taken, a row has the counts of all its files.
LEMMA RowsComplete ==
    ASSUME SRInv, Taken = Bitcode, NEW k \in Keys
    PROVE  CountsOf(RowCounts(k), FilesOf(k[1], k[2])) /\ FilesOf(k[1], k[2]) \in SUBSET Bitcode
<1>1. k = <<k[1], k[2]>>
  BY DEF Keys
<1>2. FilesOf(k[1], k[2]) = TakenOf(k)
  <2>1. \A b \in Bitcode : KeyOf(b) = k <=> b.level = k[1] /\ b.benchmark = k[2]
    BY <1>1 DEF KeyOf
  <2> QED
    BY <2>1 DEF FilesOf, TakenOf
<1>3. DOMAIN aggregated = {KeyOf(c) : c \in Taken} /\ \A q \in DOMAIN aggregated : CountsOf(aggregated[q], TakenOf(q))
  BY DEF SRInv, SumInv
<1>4. CASE k \in DOMAIN aggregated
  BY <1>2, <1>3, <1>4 DEF RowCounts, TakenOf
<1>5. CASE k \notin DOMAIN aggregated
  <2>1. TakenOf(k) = {}
    BY <1>3, <1>5 DEF TakenOf
  <2> QED
    BY <1>2, <1>5, <2>1, NothingCounted DEF RowCounts
<1> QED
  BY <1>4, <1>5

\* What is true of the rows is true of their sum.
LEMMA TotalsAdd ==
    ASSUME NEW S, IsFiniteSet(S), NEW row,
           \A k \in S : /\ row[k].read \in Nat /\ row[k].write \in Nat /\ row[k].unknown \in Nat
                        /\ row[k].read + row[k].write + row[k].unknown = row[k].removed
    PROVE  SumOver([k \in S |-> row[k].read], S) + SumOver([k \in S |-> row[k].write], S)
             + SumOver([k \in S |-> row[k].unknown], S) = SumOver([k \in S |-> row[k].removed], S)
<1>1. PICK r, w, u, d, h :
         /\ r = [k \in S |-> row[k].read] /\ w = [k \in S |-> row[k].write]
         /\ u = [k \in S |-> row[k].unknown] /\ d = [k \in S |-> row[k].removed]
         /\ h = [k \in S |-> row[k].read + row[k].write]
  OBVIOUS
<1>2. SumOver(h, S) = SumOver(r, S) + SumOver(w, S)
  <2>1. \A k \in S : r[k] \in Int /\ w[k] \in Int /\ h[k] = r[k] + w[k]
    BY <1>1
  <2> QED
    BY <2>1, SumPlus
<1>3. SumOver(d, S) = SumOver(h, S) + SumOver(u, S)
  <2>1. \A k \in S : h[k] \in Int /\ u[k] \in Int /\ d[k] = h[k] + u[k]
    BY <1>1
  <2> QED
    BY <2>1, SumPlus
<1> QED
  BY <1>1, <1>2, <1>3

LEMMA SRWriteAccess ==
    ASSUME SRInv, WriteAccess
    PROVE  SRInv'
<1>1. /\ task # Missing /\ (\A b \in Bitcode : task[b] = "taken")
      /\ used' = given /\ task' = Missing /\ aggregated' = << >>
      /\ UNCHANGED <<levelSummary, rewritten>>
  BY DEF WriteAccess, Exit
<1>2. PICK rows1 : rows1 = [k \in {q \in Keys : q[2] \in Benches(q[1])} |-> AccessRow(k[1], k[2])]
  OBVIOUS
<1>3. PICK OwnRows : OwnRows = [l \in LevelSet |-> {k \in DOMAIN rows1 : k[1] = l}]
  OBVIOUS
<1>4. /\ access' = rows1
      /\ total' = [l \in {m \in LevelSet : OwnRows[m] # {}} |->
                      [reported |-> SumOver([k \in OwnRows[l] |-> rows1[k].reported], OwnRows[l]),
                       removed |-> SumOver([k \in OwnRows[l] |-> rows1[k].removed], OwnRows[l]),
                       read |-> SumOver([k \in OwnRows[l] |-> rows1[k].read], OwnRows[l]),
                       write |-> SumOver([k \in OwnRows[l] |-> rows1[k].write], OwnRows[l]),
                       unknown |-> SumOver([k \in OwnRows[l] |-> rows1[k].unknown], OwnRows[l])]]
  BY <1>2, <1>3 DEF WriteAccess
<1>5. Taken = Bitcode
  BY <1>1 DEF Taken
<1>6. ASSUME NEW k \in DOMAIN rows1
      PROVE  /\ k \in Keys
             /\ rows1[k].removed = RowCounts(k).detected /\ rows1[k].read = RowCounts(k).read
             /\ rows1[k].write = RowCounts(k).write /\ rows1[k].unknown = RowCounts(k).unknown
  <2>1. k \in Keys /\ rows1[k] = AccessRow(k[1], k[2]) /\ k = <<k[1], k[2]>>
    BY <1>2, <1>6 DEF Keys
  <2>2. PICK c : c = RowCounts(k)
    OBVIOUS
  <2>3. c = IF <<k[1], k[2]>> \in DOMAIN aggregated THEN aggregated[<<k[1], k[2]>>] ELSE NoCounts
    BY <2>1, <2>2 DEF RowCounts
  <2>4. \E v : AccessRow(k[1], k[2]) =
                  [reported |-> v, removed |-> c.detected, read |-> c.read, write |-> c.write, unknown |-> c.unknown]
    BY <2>3 DEF AccessRow
  <2> QED
    BY <2>1, <2>2, <2>4
<1>7. ASSUME NEW k \in DOMAIN rows1
      PROVE  /\ rows1[k].removed \in Nat /\ rows1[k].read \in Nat /\ rows1[k].write \in Nat /\ rows1[k].unknown \in Nat
             /\ rows1[k].read + rows1[k].write + rows1[k].unknown = rows1[k].removed
             /\ rows1[k].removed =
                   SumOver([b \in Bitcode |-> Cardinality(Disabled(b.ir))], FilesOf(k[1], k[2]))
  <2>1. CountsOf(RowCounts(k), FilesOf(k[1], k[2])) /\ FilesOf(k[1], k[2]) \in SUBSET Bitcode
    BY <1>5, <1>6, RowsComplete
  <2>2. PICK c : c = RowCounts(k)
    OBVIOUS
  <2>3. /\ c.detected \in Nat /\ c.read \in Nat /\ c.write \in Nat /\ c.unknown \in Nat
        /\ c.read + c.write + c.unknown = c.detected
        /\ c.detected = SumOver([b \in Bitcode |-> Cardinality(Disabled(b.ir))], FilesOf(k[1], k[2]))
    BY <2>1, <2>2, CountsFacts
  <2> QED
    BY <1>6, <2>2, <2>3
<1>8. \A b \in Bitcode : <<b.level, b.benchmark>> \in DOMAIN rows1
  <2> SUFFICES ASSUME NEW b \in Bitcode PROVE <<b.level, b.benchmark>> \in DOMAIN rows1
    OBVIOUS
  <2>1. KeyOf(b) \in DOMAIN aggregated
    BY <1>5 DEF SRInv, SumInv
  <2>2. b.level \in LevelSet /\ b.benchmark \in Benchmarks
    BY Inputs
  <2>3. b.benchmark \in Benches(b.level)
    BY <2>1, <2>2 DEF Benches, KeyOf
  <2> QED
    BY <1>2, <2>2, <2>3 DEF Keys
<1>9. ASSUME NEW l \in DOMAIN total' PROVE total'[l].read + total'[l].write + total'[l].unknown = total'[l].removed
  <2>1. l \in LevelSet /\ OwnRows[l] = {k \in DOMAIN rows1 : k[1] = l}
    BY <1>3, <1>4, <1>9
  <2>2. IsFiniteSet(OwnRows[l])
    <3>1. IsFiniteSet({l} \X Benchmarks)
      BY Inputs, FS_Singleton, FS_Product
    <3>2. OwnRows[l] \in SUBSET ({l} \X Benchmarks)
      BY <1>6, <2>1 DEF Keys
    <3> QED
      BY <3>1, <3>2, FS_Subset
  <2>3. PICK S : S = OwnRows[l]
    OBVIOUS
  <2>4. \A k \in S : /\ rows1[k].read \in Nat /\ rows1[k].write \in Nat /\ rows1[k].unknown \in Nat
                     /\ rows1[k].read + rows1[k].write + rows1[k].unknown = rows1[k].removed
    BY <1>7, <2>1, <2>3
  <2>5. SumOver([k \in S |-> rows1[k].read], S) + SumOver([k \in S |-> rows1[k].write], S)
          + SumOver([k \in S |-> rows1[k].unknown], S) = SumOver([k \in S |-> rows1[k].removed], S)
    BY <2>2, <2>3, <2>4, TotalsAdd
  <2>6. /\ total'[l].read = SumOver([k \in S |-> rows1[k].read], S)
        /\ total'[l].write = SumOver([k \in S |-> rows1[k].write], S)
        /\ total'[l].unknown = SumOver([k \in S |-> rows1[k].unknown], S)
        /\ total'[l].removed = SumOver([k \in S |-> rows1[k].removed], S)
    BY <1>4, <1>9, <2>3
  <2> QED
    BY <2>5, <2>6
<1>10. TaskInv'
  BY <1>1 DEF SRInv, TaskInv
<1>11. SumInv'
  <2>1. Taken' = {} /\ DOMAIN aggregated' = {}
    BY <1>1 DEF Taken
  <2> QED
    BY <2>1 DEF SumInv
<1>12. RowInv'
  <2>1. DOMAIN rows1 \subseteq Keys
    BY <1>6
  <2>2. ASSUME NEW l \in LevelSet, given[l] # Missing, NEW x \in DOMAIN given[l]
        PROVE  <<l, x>> \in DOMAIN rows1
    <3>1. x \in Benchmarks
      BY <1>1, <2>2, Inputs DEF SRInv, TaskInv
    <3>2. x \in Benches(l)
      BY <2>2, <3>1 DEF Benches
    <3> QED
      BY <1>2, <3>1, <3>2 DEF Keys
  <2> QED
    BY <1>1, <1>4, <1>7, <2>1, <2>2 DEF RowInv
<1>13. AggregationExact'
  BY <1>4, <1>7, <1>8, <1>9 DEF AggregationExact, FilesOf
<1> QED
  BY <1>10, <1>11, <1>12, <1>13 DEF SRInv

\* Steps that take no result and write no table.
LEMMA SROther ==
    ASSUME SRInv, TaskInv', Taken' = Taken, UNCHANGED <<aggregated, access, total, used>>
    PROVE  SRInv'
  BY SumsStay, TableStays DEF SRInv

LEMMA SRWriteSummary ==
    ASSUME SRInv, NEW l \in LevelSet, WriteLevelSummary(l)
    PROVE  SRInv'
<1>1. PICK s \in LevelSummaries[l] : levelSummary' = [levelSummary EXCEPT ![l] = s]
  BY DEF WriteLevelSummary
<1>2. UNCHANGED <<given, task, aggregated, access, total, used, rewritten>>
  BY DEF WriteLevelSummary
<1>3. TaskInv'
  BY <1>1, <1>2 DEF SRInv, TaskInv
<1>4. Taken' = Taken
  BY <1>2 DEF Taken
<1> QED
  BY <1>2, <1>3, <1>4, SROther

LEMMA SRSubmit ==
    ASSUME SRInv, Submit
    PROVE  SRInv'
<1>1. /\ task = Missing /\ task' = [b \in Bitcode |-> "queued"]
      /\ UNCHANGED <<levelSummary, aggregated, access, total, used, rewritten>>
  BY DEF Submit
<1>2. PICK L : given' = [l \in LevelSet |-> IF l \in L THEN levelSummary[l] ELSE Missing]
  BY DEF Submit
<1>3. task' \in [Bitcode -> TaskStates] /\ \A b \in Bitcode : task'[b] # "taken"
  BY <1>1 DEF TaskStates
<1>4. TaskInv'
  BY <1>1, <1>2, <1>3 DEF SRInv, TaskInv
<1>5. Taken' = Taken
  BY <1>1, <1>3 DEF Taken
<1> QED
  BY <1>1, <1>4, <1>5, SROther

LEMMA SRWork ==
    ASSUME SRInv, NEW b \in Bitcode, StartTask(b) \/ EndTask(b)
    PROVE  SRInv'
<1>1. /\ task # Missing /\ task[b] \in {"queued", "running"}
      /\ UNCHANGED <<levelSummary, given, aggregated, access, total, used, rewritten>>
  BY DEF StartTask, EndTask
<1>2. PICK st \in {"running", "done", "failed"} : task' = [task EXCEPT ![b] = st]
  BY DEF StartTask, EndTask
<1>3. task \in [Bitcode -> TaskStates]
  BY <1>1 DEF SRInv, TaskInv
<1>4. task' \in [Bitcode -> TaskStates]
  BY <1>2, <1>3 DEF TaskStates
<1>5. task' # Missing
  BY <1>4, Inputs
<1>6. Taken' = Taken
  <2>1. \A c \in Bitcode : task'[c] = "taken" <=> task[c] = "taken"
    BY <1>1, <1>2, <1>3
  <2> QED
    BY <1>1, <1>5, <2>1 DEF Taken
<1>7. TaskInv'
  BY <1>1, <1>4 DEF SRInv, TaskInv
<1> QED
  BY <1>1, <1>6, <1>7, SROther

LEMMA SRTakeFailure ==
    ASSUME SRInv, NEW b \in Bitcode, TakeFailure(b)
    PROVE  SRInv'
<1>1. UNCHANGED <<levelSummary, given, task, aggregated, access, total, used, rewritten>>
  BY DEF TakeFailure
<1>2. TaskInv' /\ Taken' = Taken
  BY <1>1 DEF SRInv, TaskInv, Taken
<1> QED
  BY <1>1, <1>2, SROther

LEMMA SRDied ==
    ASSUME SRInv, Died
    PROVE  SRInv'
<1>1. /\ task' = Missing /\ aggregated' = << >>
      /\ UNCHANGED <<levelSummary, access, total, used, rewritten>>
  BY DEF Died, Exit
<1>2. TaskInv'
  BY <1>1 DEF SRInv, TaskInv
<1>3. SumInv'
  <2>1. Taken' = {} /\ DOMAIN aggregated' = {}
    BY <1>1 DEF Taken
  <2> QED
    BY <2>1 DEF SumInv
<1> QED
  BY <1>1, <1>2, <1>3, TableStays DEF SRInv

LEMMA SRApply ==
    ASSUME SRInv, NEW l \in LevelSet, Apply(l)
    PROVE  SRInv'
<1>1. UNCHANGED <<levelSummary, given, task, aggregated, access, total, used>>
  BY DEF Apply
<1>2. DOMAIN rewritten' = DOMAIN rewritten
  BY DEF Apply
<1>3. TaskInv' /\ Taken' = Taken
  BY <1>1, <1>2 DEF SRInv, TaskInv, Taken
<1> QED
  BY <1>1, <1>3, SROther

LEMMA SRInvariance == AccessSpec => []SRInv
<1>1. AccessInit => SRInv
  BY SRInit
<1>2. SRInv /\ [AccessNext]_accessVars => SRInv'
  <2> SUFFICES ASSUME SRInv, [AccessNext]_accessVars PROVE SRInv'
    OBVIOUS
  <2>1. CASE UNCHANGED accessVars
    <3>1. UNCHANGED <<levelSummary, given, task, aggregated, access, total, used, rewritten>>
      BY <2>1 DEF accessVars
    <3>2. TaskInv' /\ Taken' = Taken
      BY <3>1 DEF SRInv, TaskInv, Taken
    <3> QED
      BY <3>1, <3>2, SROther
  <2>2. CASE \E l \in LevelSet : WriteLevelSummary(l) \/ Apply(l)
    BY <2>2, SRWriteSummary, SRApply
  <2>3. CASE \E b \in Bitcode : StartTask(b) \/ EndTask(b) \/ TakeResult(b) \/ TakeFailure(b)
    BY <2>3, SRWork, SRTakeResult, SRTakeFailure
  <2>4. CASE Submit \/ Died \/ WriteAccess
    BY <2>4, SRSubmit, SRDied, SRWriteAccess
  <2> QED
    BY <2>1, <2>2, <2>3, <2>4 DEF AccessNext
<1> QED
  BY <1>1, <1>2, PTL DEF AccessSpec

\* sanrazor_removed_access_summary.py, main: whatever the number of files,
\* threads and levels, in whatever order results are taken, after a result
\* that raised and in a second run of the script, the table that is written
\* has for every benchmark the sum of the disabled checks of all its files,
\* each counted once and as one kind, and the TOTAL rows add up.
THEOREM AccessTableExact == AccessSpec => []AggregationExact
<1>1. SRInv => AggregationExact
  BY DEF SRInv
<1> QED
  BY <1>1, SRInvariance, PTL

\* The step that rewrites a summary, in a state of the scripts.
LEMMA RewriteStep ==
    ASSUME SRInv, NEW l \in LevelSet, Apply(l), used[l] = levelSummary[l]
    PROVE  /\ rewritten'[l] # Cut
           /\ DOMAIN rewritten'[l] = DOMAIN levelSummary[l]
           /\ \A x \in DOMAIN levelSummary[l] :
                 /\ "reported" \in DOMAIN rewritten'[l][x]
                 /\ rewritten'[l][x].reported = levelSummary[l][x].removed
                 /\ rewritten'[l][x].removed = access[<<l, x>>].removed
                 /\ rewritten'[l][x].read + rewritten'[l][x].write + rewritten'[l][x].unknown
                       = rewritten'[l][x].removed
                 /\ rewritten'[l][x].remaining <= rewritten'[l][x].original
<1>1. PICK s, D : s = levelSummary[l] /\ D = DOMAIN s
  OBVIOUS
<1>2. s # Missing /\ D # {} /\ access # Missing
  BY <1>1 DEF Apply
<1>3. /\ D \in SUBSET Benchmarks /\ Benchmarks \subseteq Nat
      /\ \A x \in D : s[x].original \in Nat /\ s[x].removed \in Nat
  BY <1>1, <1>2, Inputs DEF SRInv, TaskInv
<1>4. \A x \in D : <<l, x>> \in DOMAIN access
  BY <1>1, <1>2 DEF SRInv, RowInv
<1>5. ASSUME NEW x \in D
      PROVE  /\ access[<<l, x>>].removed \in Nat /\ access[<<l, x>>].read \in Nat
             /\ access[<<l, x>>].write \in Nat /\ access[<<l, x>>].unknown \in Nat
             /\ access[<<l, x>>].read + access[<<l, x>>].write + access[<<l, x>>].unknown
                   = access[<<l, x>>].removed
  <2>1. <<l, x>> \in DOMAIN access
    BY <1>4
  <2>2. \A k \in DOMAIN access : /\ access[k].removed \in Nat /\ access[k].read \in Nat
                                 /\ access[k].write \in Nat /\ access[k].unknown \in Nat
    BY <1>2 DEF SRInv, RowInv
  <2>3. \A k \in DOMAIN access : access[k].read + access[k].write + access[k].unknown = access[k].removed
    BY <1>2 DEF SRInv, AggregationExact
  <2> QED
    BY <2>1, <2>2, <2>3
<1>6. Min(D) \in D
  <2>1. \E m \in D : \A n \in D : m <= n
    BY <1>2, <1>3, LeastNatural
  <2> QED
    BY <2>1 DEF Min
<1>7. rewritten'[l] = [x \in D |-> Rewrite(s[x], access[<<l, x>>])]
  <2>1. DOMAIN rewritten = LevelSet
    BY DEF SRInv, TaskInv
  <2>2. <<l, Min(D)>> \in DOMAIN access
    BY <1>4, <1>6
  <2>3. rewritten' = [rewritten EXCEPT ![l] =
                        [x \in D |-> IF <<l, x>> \in DOMAIN access THEN Rewrite(s[x], access[<<l, x>>])
                                     ELSE s[x]]]
    BY <1>1, <2>2 DEF Apply
  <2> QED
    BY <1>4, <2>1, <2>3
<1>8. ASSUME NEW x \in D
      PROVE  \E r \in RewrittenRows :
                /\ rewritten'[l][x] = r
                /\ r.reported = s[x].removed /\ r.removed = access[<<l, x>>].removed
                /\ r.read + r.write + r.unknown = r.removed /\ r.remaining <= r.original
                /\ "reported" \in DOMAIN r
  <2>1. PICK a, o, m : a = access[<<l, x>>] /\ o = s[x].original /\ m = Max({0, o - a.removed})
    OBVIOUS
  <2>2. o \in Nat /\ a.removed \in Nat
    BY <1>3, <1>5, <2>1
  <2>3. m \in Nat /\ m <= o
    <3>1. m \in {0, o - a.removed} /\ m >= 0
      <4>1. \E y \in {0, o - a.removed} : \A z \in {0, o - a.removed} : z <= y
        BY <2>2
      <4>2. m \in {0, o - a.removed} /\ \A z \in {0, o - a.removed} : z <= m
        BY <2>1, <4>1 DEF Max
      <4> QED
        BY <2>2, <4>2
    <3> QED
      BY <2>2, <3>1
  <2>4. PICK r : r = [original |-> o, reported |-> s[x].removed, removed |-> a.removed, remaining |-> m,
                      read |-> a.read, write |-> a.write, unknown |-> a.unknown]
    OBVIOUS
  <2>5. rewritten'[l][x] = r
    BY <1>7, <2>1, <2>4 DEF Rewrite
  <2>6. r \in RewrittenRows
    BY <1>3, <1>5, <2>1, <2>2, <2>3, <2>4 DEF RewrittenRows
  <2>7. r.read + r.write + r.unknown = r.removed /\ r.remaining <= r.original
    BY <1>5, <2>1, <2>3, <2>4
  <2>8. "reported" \in DOMAIN r /\ r.reported = s[x].removed /\ r.removed = access[<<l, x>>].removed
    BY <2>1, <2>4
  <2> QED
    BY <2>5, <2>6, <2>7, <2>8
<1>9. rewritten'[l] # Cut /\ DOMAIN rewritten'[l] = D
  <2>1. rewritten'[l] \in [D -> RewrittenRows]
    BY <1>7, <1>8
  <2> QED
    BY <1>3, <2>1, Inputs
<1> QED
  BY <1>1, <1>8, <1>9

\* apply_sanrazor_detected_disabled_counts.py: with a table that was made with
\* the level's present summary, the rewrite never stops in the middle of the
\* file, and every row it leaves adds up - for all summaries, levels and files.
THEOREM RewritesAreWhole == AccessSpec => RewriteIsWhole
<1>1. SRInv /\ [AccessNext]_accessVars =>
         [\A l \in LevelSet :
             rewritten'[l] # rewritten[l] /\ used[l] = levelSummary[l] =>
                 /\ rewritten'[l] # Cut
                 /\ DOMAIN rewritten'[l] = DOMAIN levelSummary[l]
                 /\ \A x \in DOMAIN levelSummary[l] :
                       LET r == rewritten'[l][x]
                       IN  /\ "reported" \in DOMAIN r /\ r.reported = levelSummary[l][x].removed
                           /\ r.removed = access[<<l, x>>].removed
                           /\ r.read + r.write + r.unknown = r.removed
                           /\ r.remaining <= r.original]_accessVars
  <2> SUFFICES ASSUME SRInv, AccessNext, NEW l \in LevelSet,
                      rewritten'[l] # rewritten[l], used[l] = levelSummary[l]
               PROVE  Apply(l)
    BY RewriteStep
  <2>1. rewritten' # rewritten
    OBVIOUS
  <2>2. PICK m \in LevelSet : Apply(m)
    BY <2>1 DEF AccessNext, WriteLevelSummary, StartTask, EndTask, TakeResult, TakeFailure,
                Submit, Died, WriteAccess
  <2>3. \A k \in LevelSet \ {m} : rewritten'[k] = rewritten[k]
    BY <2>2 DEF Apply, SRInv, TaskInv
  <2> QED
    BY <2>2, <2>3
<1> QED
  BY <1>1, SRInvariance, PTL DEF AccessSpec, RewriteIsWhole

==============================================================================
