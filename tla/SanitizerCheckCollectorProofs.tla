-------------------- MODULE SanitizerCheckCollectorProofs --------------------
(* Proofs about SanitizerCheckCollector, for every set of runtime functions, *)
(* every profile and module, all limits and ratios.                          *)
EXTENDS SanitizerCheckCollector, FiniteSetTheorems, SequenceTheorems, FiniteFacts, TLAPS

Keys == Sanitizers \X Stems

LEMMA FiniteKeys == IsFiniteSet(Sanitizers) /\ IsFiniteSet(Stems) /\ IsFiniteSet(Keys)
<1>1. IsFiniteSet({"ASan"}) /\ IsFiniteSet({"UBSan"}) /\ IsFiniteSet({"MemSan"})
  BY FS_Singleton
<1>2. IsFiniteSet(({"ASan"} \cup {"UBSan"}) \cup {"MemSan"})
  BY <1>1, FS_Union
<1>3. Sanitizers = ({"ASan"} \cup {"UBSan"}) \cup {"MemSan"}
  BY DEF Sanitizers
<1>4. IsFiniteSet(Sanitizers)
  BY <1>2, <1>3
<1>5. IsFiniteSet(Stems)
  BY CollectorAssumption
<1> QED
  BY <1>4, <1>5, FS_Product DEF Keys

-----------------------------------------------------------------------------
(* Layer 1: types.  The counters stay within the bound because none of them *)
(* exceeds the number of calls seen.                                        *)

CountersBehind ==
    /\ \A k \in Keys : CheckCounts[k] <= calls
    /\ \A s \in Sanitizers : SanitizerTotals[s] <= calls
    /\ TotalChecks <= calls

TInv == TypeOK /\ CountersBehind

\* What a row that is accepted adds.
LEMMA AcceptedRow ==
    ASSUME NEW row \in RowsOf, accepted(row)
    PROVE  /\ <<ParsedSanitizer(row), row.name.stem>> \in Keys
           /\ row.cost \in Nat \cup {NaN}
<1>1. row.name.stem \in Stems /\ row.san \in Sanitizers \cup {"Unknown"}
  BY CollectorAssumption DEF RowsOf, Names
<1>2. Kind[row.name.stem] \in Sanitizers \cup {"Unknown"}
  BY <1>1, CollectorAssumption
<1>3. ParsedSanitizer(row) \in Sanitizers \cup {"Unknown"}
  <2>1. classifySanitizerName(canonicalCalleeName(row.name)) \in Sanitizers \cup {"Unknown"}
    <3>1. /\ canonicalCalleeName(row.name).prefixed = FALSE
          /\ canonicalCalleeName(row.name).stem = row.name.stem
      BY DEF canonicalCalleeName, RowsOf, Names
    <3> QED
      BY <1>2, <3>1 DEF classifySanitizerName
  <2> QED
    BY <1>1, <2>1 DEF ParsedSanitizer
<1>4. ParsedSanitizer(row) \in Sanitizers
  BY <1>3 DEF accepted
<1>5. row.cost \in Costs \cup {NoText, NaN} /\ row.cost # NoText /\ ~IsNegative(row.cost)
  BY DEF accepted, RowsOf
<1>6. row.cost \in Nat \cup {NaN}
  <2>1. Costs \subseteq Int
    BY CollectorAssumption
  <2>2. row.cost \in Int \/ row.cost = NaN
    BY <1>5, <2>1
  <2>3. \A x \in Int : ~(x < 0) => x \in Nat
    OBVIOUS
  <2> QED
    BY <1>5, <2>2, <2>3 DEF IsNegative
<1> QED
  BY <1>1, <1>4, <1>6 DEF Keys

LEMMA PlusType ==
    ASSUME NEW x \in Nat \cup {NaN}, NEW y \in Nat \cup {NaN}
    PROVE  Plus(x, y) \in Nat \cup {NaN}
  BY DEF Plus

\* The check that a call is.
LEMMA RecordedCall ==
    ASSUME NEW name \in Names \cup {NoName}, name # NoName,
           classifySanitizerName(canonicalCalleeName(name)) # "Unknown"
    PROVE  /\ classifySanitizerName(canonicalCalleeName(name)) \in Sanitizers
           /\ name.stem \in Stems
<1>1. name \in Names /\ name.stem \in Stems
  BY DEF Names
<1>2. Kind[name.stem] \in Sanitizers \cup {"Unknown"}
  BY <1>1, CollectorAssumption
<1>3. /\ canonicalCalleeName(name).prefixed = FALSE
      /\ canonicalCalleeName(name).stem = name.stem
  BY <1>1 DEF canonicalCalleeName, Names
<1> QED
  BY <1>1, <1>2, <1>3 DEF classifySanitizerName

\* What Sorted returns: the elements of the set, in order.
LEMMA SortedProperties ==
    ASSUME NEW S, NEW T, S \subseteq T, IsFiniteSet(S), NEW q,
           q \in [1..Cardinality(S) -> S]
    PROVE  q \in Seq(T) /\ Len(q) = Cardinality(S) /\ DOMAIN q = 1..Len(q)
<1>1. Cardinality(S) \in Nat
  BY FS_CardinalityType
<1>2. q \in [1..Cardinality(S) -> T]
  OBVIOUS
<1>3. q \in Seq(T)
  BY <1>1, <1>2, IsASeq
<1>4. DOMAIN q = 1..Cardinality(S)
  OBVIOUS
<1> QED
  BY <1>1, <1>3, <1>4, LenProperties

LEMMA StatsFinite ==
    ASSUME NEW s \in Sanitizers, CheckCounts \in [Keys -> 0..MaxCalls]
    PROVE  /\ IsFiniteSet(StatsOf(s))
           /\ StatsOf(s) \subseteq StatType
<1> DEFINE f == [t \in FoundOf(s) |-> StatOf(s, t)]
<1>1. FoundOf(s) \subseteq Stems /\ IsFiniteSet(FoundOf(s))
  BY FiniteKeys, FS_Subset DEF FoundOf
<1>2. f \in Surjection(FoundOf(s), StatsOf(s))
  BY DEF Surjection, StatsOf
<1>3. IsFiniteSet(StatsOf(s))
  BY <1>1, <1>2, FS_Surjection
<1>4. ASSUME NEW t \in FoundOf(s) PROVE CheckCounts[<<s, t>>] \in Nat
  <2>1. <<s, t>> \in Keys
    BY <1>1 DEF Keys
  <2>2. CheckCounts[<<s, t>>] \in 0..MaxCalls /\ MaxCalls \in Nat
    BY <2>1, CollectorAssumption
  <2> QED
    BY <2>2
<1>5. ASSUME NEW t \in FoundOf(s) PROVE StatOf(s, t) \in StatType
  BY <1>1, <1>4 DEF StatOf, StatType
<1> QED
  BY <1>3, <1>5 DEF StatsOf

\* What getStatsForSanitizer returns.
LEMMA StatsSorted ==
    ASSUME NEW s \in Sanitizers, CheckCounts \in [Keys -> 0..MaxCalls],
           NEW q \in getStatsForSanitizer(s)
    PROVE  /\ q \in Seq(StatType)
           /\ ToSet(q) = StatsOf(s)
           /\ \A i, j \in 1..Len(q) : i < j => Before(q[i], q[j])
<1>1. /\ q \in [1..Cardinality(StatsOf(s)) -> StatsOf(s)]
      /\ ToSet(q) = StatsOf(s)
      /\ \A i, j \in DOMAIN q : i < j => Before(q[i], q[j])
  BY DEF getStatsForSanitizer, Sorted
<1>2. q \in Seq(StatType) /\ DOMAIN q = 1..Len(q)
  BY <1>1, StatsFinite, SortedProperties
<1> QED
  BY <1>1, <1>2

\* The final sort keeps the chosen stats.
LEMMA CoreSorted ==
    ASSUME CoreChecks \in Seq(StatType), NEW q \in Sorted(ToSet(CoreChecks), CoreBefore)
    PROVE  q \in Seq(StatType) /\ ToSet(q) = ToSet(CoreChecks)
<1>1. q \in [1..Cardinality(ToSet(CoreChecks)) -> ToSet(CoreChecks)] /\ ToSet(q) = ToSet(CoreChecks)
  BY DEF Sorted
<1>2. /\ CoreChecks \in [1..Len(CoreChecks) -> StatType] /\ Len(CoreChecks) \in Nat
      /\ DOMAIN CoreChecks = 1..Len(CoreChecks)
  BY LenProperties
<1>3. ToSet(CoreChecks) \subseteq StatType
  BY <1>2 DEF ToSet
<1>4. IsFiniteSet(ToSet(CoreChecks))
  <2>1. CoreChecks \in Surjection(1..Len(CoreChecks), ToSet(CoreChecks))
    BY <1>2 DEF Surjection, ToSet
  <2>2. IsFiniteSet(1..Len(CoreChecks))
    BY <1>2, FS_Interval
  <2> QED
    BY <2>1, <2>2, FS_Surjection
<1>5. q \in Seq(StatType)
  BY <1>1, <1>3, <1>4, SortedProperties
<1> QED
  BY <1>1, <1>5

LEMMA TypesInit == Init => TInv
<1> SUFFICES ASSUME Init PROVE TInv
  OBVIOUS
<1>1. 0 \in Nat /\ MaxCalls \in Nat /\ MaxRows \in Nat
  BY CollectorAssumption
<1>2. << >> \in Seq(Sanitizers) /\ << >> \in Seq(StatType)
  BY EmptySeq
<1>3. TypeOK
  BY <1>1, <1>2 DEF Init, TypeOK
<1>4. CountersBehind
  BY DEF Init, CountersBehind, Keys
<1> QED
  BY <1>3, <1>4 DEF TInv

LEMMA TypesNext == TInv /\ [Next]_vars => TInv'
<1> SUFFICES ASSUME TInv, [Next]_vars PROVE TInv'
  OBVIOUS
<1>0. TypeOK /\ CountersBehind
  BY DEF TInv
<1>1. ASSUME NEW row \in RowsOf, ReadRow(row) PROVE TInv'
  <2>1. /\ rows' \in 0..MaxRows
        /\ RuntimeCosts' \in [Keys -> Nat \cup {NaN}] /\ TotalRuntimeCost' \in Nat \cup {NaN}
    <3>1. rows' \in 0..MaxRows
      BY <1>0, <1>1, CollectorAssumption DEF ReadRow, TypeOK
    <3>2. CASE accepted(row)
      <4> DEFINE k == <<ParsedSanitizer(row), row.name.stem>>
      <4>1. k \in Keys /\ row.cost \in Nat \cup {NaN}
        BY <3>2, AcceptedRow
      <4>2. RuntimeCosts[k] \in Nat \cup {NaN} /\ TotalRuntimeCost \in Nat \cup {NaN}
        BY <1>0, <4>1 DEF TypeOK, Keys
      <4>3. Plus(RuntimeCosts[k], row.cost) \in Nat \cup {NaN} /\ Plus(TotalRuntimeCost, row.cost) \in Nat \cup {NaN}
        BY <4>1, <4>2, PlusType
      <4>4. /\ RuntimeCosts' = [RuntimeCosts EXCEPT ![k] = Plus(RuntimeCosts[k], row.cost)]
            /\ TotalRuntimeCost' = Plus(TotalRuntimeCost, row.cost)
        BY <1>1, <3>2 DEF ReadRow
      <4> QED
        BY <1>0, <3>1, <4>1, <4>3, <4>4 DEF TypeOK, Keys
    <3>3. CASE ~accepted(row)
      BY <1>0, <1>1, <3>1, <3>3 DEF ReadRow, TypeOK, Keys
    <3> QED
      BY <3>2, <3>3
  <2>2. UNCHANGED <<pc, options, counts, choice>>
    BY <1>1 DEF ReadRow
  <2>3. TypeOK'
    BY <1>0, <2>1, <2>2 DEF TypeOK, options, counts, choice, Keys
  <2>4. CountersBehind'
    BY <1>0, <2>2 DEF CountersBehind, counts
  <2> QED
    BY <2>3, <2>4 DEF TInv
<1>2. CASE ProfileRead
  BY <1>0, <1>2 DEF ProfileRead, TInv, TypeOK, CountersBehind, options, profile, counts, choice
<1>3. ASSUME NEW name \in Names \cup {NoName}, CollectCall(name) PROVE TInv'
  <2>1. /\ calls' = calls + 1 /\ calls \in Nat /\ calls + 1 \in 0..MaxCalls /\ calls < MaxCalls
        /\ UNCHANGED <<pc, options, profile, choice>>
    BY <1>0, <1>3, CollectorAssumption DEF CollectCall, TypeOK
  <2>2. /\ CheckCounts \in [Keys -> Nat] /\ SanitizerTotals \in [Sanitizers -> Nat]
        /\ TotalChecks \in Nat /\ MaxCalls \in Nat
    BY <1>0, CollectorAssumption DEF TypeOK, Keys
  <2>3. /\ CheckCounts' \in [Keys -> Nat] /\ \A k \in Keys : CheckCounts'[k] <= CheckCounts[k] + 1
        /\ SanitizerTotals' \in [Sanitizers -> Nat]
        /\ \A s \in Sanitizers : SanitizerTotals'[s] <= SanitizerTotals[s] + 1
        /\ TotalChecks' \in Nat /\ TotalChecks' <= TotalChecks + 1
    <3> DEFINE san == classifySanitizerName(canonicalCalleeName(name))
    <3>1. CASE name # NoName /\ san # "Unknown"
      <4>1. san \in Sanitizers /\ name.stem \in Stems
        BY <3>1, RecordedCall
      <4>2. recordCheck(san, name.stem)
        BY <1>3, <3>1 DEF CollectCall
      <4>3. <<san, name.stem>> \in Keys
        BY <4>1 DEF Keys
      <4> HIDE DEF san
      <4> QED
        BY <2>2, <4>1, <4>2, <4>3 DEF recordCheck
    <3>2. CASE ~(name # NoName /\ san # "Unknown")
      BY <1>3, <2>2, <3>2 DEF CollectCall
    <3> QED
      BY <3>1, <3>2
  <2>4. CountersBehind'
    <3>1. \A k \in Keys : CheckCounts'[k] <= calls'
      BY <1>0, <2>1, <2>2, <2>3 DEF CountersBehind
    <3>2. \A s \in Sanitizers : SanitizerTotals'[s] <= calls'
      BY <1>0, <2>1, <2>2, <2>3 DEF CountersBehind
    <3>3. TotalChecks' <= calls'
      BY <1>0, <2>1, <2>2, <2>3 DEF CountersBehind
    <3> QED
      BY <3>1, <3>2, <3>3 DEF CountersBehind
  <2>5. /\ CheckCounts' \in [Keys -> 0..MaxCalls] /\ SanitizerTotals' \in [Sanitizers -> 0..MaxCalls]
        /\ TotalChecks' \in 0..MaxCalls
    BY <2>1, <2>2, <2>3, <2>4 DEF CountersBehind
  <2>6. TypeOK'
    BY <1>0, <2>1, <2>5 DEF TypeOK, options, profile, choice, Keys
  <2> QED
    BY <2>4, <2>6 DEF TInv
<1>4. CASE Collected
  <2>1. <<"ASan", "UBSan", "MemSan">> \in Seq(Sanitizers)
    BY DEF Sanitizers
  <2>2. UNCHANGED <<options, profile, counts, Stats, Added, CoreChecks>> /\ pc' = "choose" /\ pending' \in Seq(Sanitizers)
    BY <1>4, <2>1 DEF Collected
  <2> QED
    BY <1>0, <2>2 DEF TInv, TypeOK, CountersBehind, options, profile, counts
<1>5. CASE NextSanitizer
  <2>1. Head(pending) \in Sanitizers /\ Tail(pending) \in Seq(Sanitizers)
    BY <1>0, <1>5, HeadTailProperties DEF NextSanitizer, TypeOK
  <2>2. Stats' \in Seq(StatType)
    BY <1>0, <1>5, <2>1, StatsSorted DEF NextSanitizer, TypeOK, Keys
  <2>3. /\ pending' = Tail(pending) /\ Added' = 0
        /\ UNCHANGED <<pc, options, profile, counts, CoreChecks>>
    BY <1>5 DEF NextSanitizer
  <2> QED
    BY <1>0, <2>1, <2>2, <2>3 DEF TInv, TypeOK, CountersBehind, options, profile, counts
<1>6. CASE Choose
  <2>1. Head(Stats) \in StatType /\ Tail(Stats) \in Seq(StatType)
    BY <1>0, <1>6, HeadTailProperties DEF Choose, TypeOK
  <2>2. Append(CoreChecks, Head(Stats)) \in Seq(StatType) /\ Added + 1 \in Nat
    BY <1>0, <2>1, AppendProperties DEF TypeOK
  <2>3. /\ Stats' = Tail(Stats) /\ CoreChecks' = Append(CoreChecks, Head(Stats)) /\ Added' = Added + 1
        /\ UNCHANGED <<pc, options, profile, counts, pending>>
    BY <1>6 DEF Choose
  <2> QED
    BY <1>0, <2>1, <2>2, <2>3 DEF TInv, TypeOK, CountersBehind, options, profile, counts
<1>7. CASE Skip
  <2>1. Tail(Stats) \in Seq(StatType)
    BY <1>0, <1>7, HeadTailProperties DEF Skip, TypeOK
  <2>2. Stats' = Tail(Stats) /\ UNCHANGED <<pc, options, profile, counts, pending, Added, CoreChecks>>
    BY <1>7 DEF Skip
  <2> QED
    BY <1>0, <2>1, <2>2 DEF TInv, TypeOK, CountersBehind, options, profile, counts
<1>8. CASE Break
  <2>1. << >> \in Seq(StatType)
    BY EmptySeq
  <2>2. Stats' = << >> /\ UNCHANGED <<pc, options, profile, counts, pending, Added, CoreChecks>>
    BY <1>8 DEF Break
  <2> QED
    BY <1>0, <2>1, <2>2 DEF TInv, TypeOK, CountersBehind, options, profile, counts
<1>9. CASE SortCore
  <2>1. CoreChecks' \in Seq(StatType)
    BY <1>0, <1>9, CoreSorted DEF SortCore, TypeOK
  <2>2. pc' = "done" /\ UNCHANGED <<options, profile, counts, pending, Stats, Added>>
    BY <1>9 DEF SortCore
  <2> QED
    BY <1>0, <2>1, <2>2 DEF TInv, TypeOK, CountersBehind, options, profile, counts
<1>10. CASE UNCHANGED vars
  BY <1>0, <1>10 DEF vars, TInv, TypeOK, CountersBehind, options, profile, counts, choice
<1> QED
  BY <1>1, <1>2, <1>3, <1>4, <1>5, <1>6, <1>7, <1>8, <1>9, <1>10 DEF Next, Return

LEMMA TypeInvariance == Spec => []TInv
  BY TypesInit, TypesNext, PTL DEF Spec

(* The state keeps its types: costs are naturals or not a number, whatever  *)
(* the profile says, and no counter exceeds the number of calls.            *)
THEOREM TypeCorrect == Spec => []TypeOK
<1>1. TInv => TypeOK
  BY DEF TInv
<1> QED
  BY <1>1, TypeInvariance, PTL

-----------------------------------------------------------------------------
(* Layer 2: the counters agree, and so do the costs, as long as they are    *)
(* numbers.  The total of the costs stops being a number with the first     *)
(* cost that is not one, and never becomes one again.                       *)

CountsOf(s) == [t \in Stems |-> CheckCounts[<<s, t>>]]

CostsAgree ==
    TotalRuntimeCost # NaN =>
        /\ \A k \in Keys : RuntimeCosts[k] \in Nat
        /\ SumOver(RuntimeCosts, Keys) = TotalRuntimeCost

LEMMA AgreesInit == Init => TotalsAgree /\ CostsAgree
<1> SUFFICES ASSUME Init PROVE TotalsAgree /\ CostsAgree
  OBVIOUS
<1>1. /\ SanitizerTotals = [s \in Sanitizers |-> 0] /\ TotalChecks = 0 /\ TotalRuntimeCost = 0
      /\ CheckCounts = [k \in Keys |-> 0] /\ RuntimeCosts = [k \in Keys |-> 0]
  BY DEF Init, Keys
<1>2. SumOver(SanitizerTotals, Sanitizers) = 0
  <2>1. \A s \in Sanitizers : SanitizerTotals[s] = 0
    BY <1>1
  <2> QED
    BY <2>1, FiniteKeys, SumZero
<1>3. ASSUME NEW s \in Sanitizers PROVE SumOver(CountsOf(s), Stems) = 0
  <2>1. ASSUME NEW t \in Stems PROVE CountsOf(s)[t] = 0
    <3>1. <<s, t>> \in Keys
      BY DEF Keys
    <3> QED
      BY <1>1, <3>1 DEF CountsOf
  <2> QED
    BY <2>1, FiniteKeys, SumZero
<1>4. SumOver(RuntimeCosts, Keys) = 0
  <2>1. \A k \in Keys : RuntimeCosts[k] = 0
    BY <1>1
  <2> QED
    BY <2>1, FiniteKeys, SumZero
<1>5. TotalsAgree
  BY <1>1, <1>2, <1>3 DEF TotalsAgree, CountsOf
<1> QED
  BY <1>1, <1>4, <1>5 DEF CostsAgree

\* One recorded call: each of the three counters grows by one.
LEMMA RecordAgrees ==
    ASSUME TypeOK, TypeOK', TotalsAgree, NEW san \in Sanitizers, NEW stem \in Stems, recordCheck(san, stem)
    PROVE  TotalsAgree'
<1> DEFINE k == <<san, stem>>
<1>1. /\ CheckCounts \in [Keys -> Int] /\ CheckCounts' \in [Keys -> Int]
      /\ SanitizerTotals \in [Sanitizers -> Int] /\ SanitizerTotals' \in [Sanitizers -> Int]
      /\ TotalChecks \in Int
  <2>1. 0..MaxCalls \subseteq Int
    BY CollectorAssumption
  <2>2. /\ CheckCounts \in [Keys -> 0..MaxCalls] /\ SanitizerTotals \in [Sanitizers -> 0..MaxCalls]
        /\ TotalChecks \in 0..MaxCalls
    BY DEF TypeOK, Keys
  <2>3. CheckCounts' \in [Keys -> 0..MaxCalls] /\ SanitizerTotals' \in [Sanitizers -> 0..MaxCalls]
    BY DEF TypeOK, Keys
  <2> QED
    BY <2>1, <2>2, <2>3
<1>2. /\ k \in Keys /\ CheckCounts' = [CheckCounts EXCEPT ![k] = CheckCounts[k] + 1]
      /\ SanitizerTotals' = [SanitizerTotals EXCEPT ![san] = SanitizerTotals[san] + 1]
      /\ TotalChecks' = TotalChecks + 1
  BY DEF recordCheck, Keys
<1>3. SumOver(SanitizerTotals', Sanitizers) = SumOver(SanitizerTotals, Sanitizers) + 1
  <2>1. PICK f : f = SanitizerTotals
    OBVIOUS
  <2>2. PICK g : g = SanitizerTotals'
    OBVIOUS
  <2>3. /\ \A s \in Sanitizers : f[s] \in Int /\ g[s] \in Int
        /\ \A s \in Sanitizers \ {san} : f[s] = g[s]
    BY <1>1, <1>2, <2>1, <2>2
  <2>4. SumOver(g, Sanitizers) = SumOver(f, Sanitizers) + (g[san] - f[san])
    BY <2>3, FiniteKeys, SumChange
  <2>5. g[san] = f[san] + 1 /\ f[san] \in Int
    BY <1>1, <1>2, <2>1, <2>2
  <2>6. g[san] - f[san] = 1
    BY <2>5
  <2> QED
    BY <2>1, <2>2, <2>4, <2>6
<1>4. ASSUME NEW s \in Sanitizers
      PROVE  SanitizerTotals'[s] = SumOver([t \in Stems |-> CheckCounts'[<<s, t>>]], Stems)
  <2>1. PICK f : f = [t \in Stems |-> CheckCounts[<<s, t>>]]
    OBVIOUS
  <2>2. PICK g : g = [t \in Stems |-> CheckCounts'[<<s, t>>]]
    OBVIOUS
  <2>3. \A t \in Stems : <<s, t>> \in Keys
    BY DEF Keys
  <2>4. \A t \in Stems : f[t] \in Int /\ g[t] \in Int /\ f[t] = CheckCounts[<<s, t>>] /\ g[t] = CheckCounts'[<<s, t>>]
    BY <1>1, <2>1, <2>2, <2>3
  <2>5. SanitizerTotals[s] = SumOver(f, Stems)
    BY <2>1 DEF TotalsAgree
  <2>6. CASE s = san
    <3>1. \A t \in Stems \ {stem} : f[t] = g[t]
      <4>1. \A t \in Stems \ {stem} : <<s, t>> # k
        OBVIOUS
      <4> QED
        BY <1>1, <1>2, <2>3, <2>4, <4>1
    <3>2. SumOver(g, Stems) = SumOver(f, Stems) + (g[stem] - f[stem])
      <4>1. \A t \in Stems : f[t] \in Int /\ g[t] \in Int
        BY <2>4
      <4>2. IsFiniteSet(Stems)
        BY FiniteKeys
      <4> QED
        BY <3>1, <4>1, <4>2, SumChange
    <3>3. g[stem] = f[stem] + 1 /\ f[stem] \in Int
      BY <1>1, <1>2, <2>4, <2>6
    <3>4. g[stem] - f[stem] = 1
      BY <3>3
    <3>5. SanitizerTotals'[s] = SanitizerTotals[s] + 1
      BY <1>1, <1>2, <2>6
    <3> QED
      BY <2>2, <2>5, <3>2, <3>4, <3>5
  <2>7. CASE s # san
    <3>1. \A t \in Stems : f[t] = g[t]
      <4>1. \A t \in Stems : <<s, t>> # k
        BY <2>7
      <4> QED
        BY <1>1, <1>2, <2>3, <2>4, <4>1
    <3>2. SumOver(f, Stems) = SumOver(g, Stems)
      BY <3>1, FiniteKeys, SumEqual
    <3>3. SanitizerTotals'[s] = SanitizerTotals[s]
      BY <1>1, <1>2, <2>7
    <3> QED
      BY <2>2, <2>5, <3>2, <3>3
  <2> QED
    BY <2>6, <2>7
<1>5. TotalChecks' = SumOver(SanitizerTotals', Sanitizers)
  BY <1>2, <1>3 DEF TotalsAgree
<1> QED
  BY <1>4, <1>5 DEF TotalsAgree

\* One accepted row: the cost of its check type and the total grow alike.
LEMMA RowAgrees ==
    ASSUME TypeOK, CostsAgree, NEW row \in RowsOf, accepted(row), ReadRow(row)
    PROVE  CostsAgree'
<1> DEFINE k == <<ParsedSanitizer(row), row.name.stem>>
<1>0. k \in Keys /\ row.cost \in Nat \cup {NaN}
  BY AcceptedRow
<1>1. /\ RuntimeCosts \in [Keys -> Nat \cup {NaN}] /\ TotalRuntimeCost \in Nat \cup {NaN} /\ NaN \notin Int
      /\ RuntimeCosts' = [RuntimeCosts EXCEPT ![k] = Plus(RuntimeCosts[k], row.cost)]
      /\ TotalRuntimeCost' = Plus(TotalRuntimeCost, row.cost)
  BY CollectorAssumption DEF ReadRow, TypeOK, Keys
<1> HIDE DEF k
<1>2. SUFFICES ASSUME TotalRuntimeCost' # NaN
               PROVE  /\ \A j \in Keys : RuntimeCosts'[j] \in Nat
                      /\ SumOver(RuntimeCosts', Keys) = TotalRuntimeCost'
  BY DEF CostsAgree
<1>3. /\ TotalRuntimeCost # NaN /\ row.cost # NaN
      /\ TotalRuntimeCost' = TotalRuntimeCost + row.cost
      /\ TotalRuntimeCost \in Nat /\ row.cost \in Nat
  BY <1>0, <1>1, <1>2 DEF Plus
<1>4. /\ \A j \in Keys : RuntimeCosts[j] \in Nat
      /\ SumOver(RuntimeCosts, Keys) = TotalRuntimeCost
  BY <1>3 DEF CostsAgree
<1>5. RuntimeCosts[k] # NaN /\ RuntimeCosts[k] \in Nat
  <2>1. RuntimeCosts[k] \in Nat
    BY <1>0, <1>4
  <2>2. NaN \notin Nat
    BY <1>1
  <2> QED
    BY <2>1, <2>2
<1>6. Plus(RuntimeCosts[k], row.cost) = RuntimeCosts[k] + row.cost
  BY <1>3, <1>5 DEF Plus
<1>7. PICK f : f = RuntimeCosts
  OBVIOUS
<1>8. PICK g : g = RuntimeCosts'
  OBVIOUS
<1>9. /\ g[k] = f[k] + row.cost /\ f[k] \in Nat
      /\ \A j \in Keys \ {k} : f[j] = g[j]
      /\ \A j \in Keys : f[j] \in Nat
  BY <1>0, <1>1, <1>4, <1>5, <1>6, <1>7, <1>8
<1>10. \A j \in Keys : g[j] \in Nat
  <2>1. g[k] \in Nat
    BY <1>3, <1>9
  <2> QED
    BY <1>9, <2>1
<1>11. SumOver(g, Keys) = SumOver(f, Keys) + (g[k] - f[k])
  <2>1. \A j \in Keys : f[j] \in Int /\ g[j] \in Int
    BY <1>9, <1>10
  <2> QED
    BY <1>0, <1>9, <2>1, FiniteKeys, SumChange
<1>12. g[k] - f[k] = row.cost
  BY <1>3, <1>9
<1>13. SumOver(g, Keys) = TotalRuntimeCost'
  BY <1>3, <1>4, <1>7, <1>11, <1>12
<1> QED
  BY <1>8, <1>10, <1>13

LEMMA AgreesNext == TInv /\ TInv' /\ TotalsAgree /\ CostsAgree /\ [Next]_vars => (TotalsAgree /\ CostsAgree)'
<1> SUFFICES ASSUME TInv, TInv', TotalsAgree, CostsAgree, [Next]_vars PROVE TotalsAgree' /\ CostsAgree'
  OBVIOUS
<1>0. TypeOK /\ TypeOK'
  BY DEF TInv
<1>1. UNCHANGED counts => TotalsAgree'
  BY DEF TotalsAgree, counts
<1>2. UNCHANGED <<RuntimeCosts, TotalRuntimeCost>> => CostsAgree'
  BY DEF CostsAgree
<1>3. ASSUME NEW row \in RowsOf, ReadRow(row) PROVE TotalsAgree' /\ CostsAgree'
  <2>1. TotalsAgree'
    BY <1>1, <1>3 DEF ReadRow
  <2>2. CASE accepted(row)
    BY <1>0, <1>3, <2>1, <2>2, RowAgrees
  <2>3. CASE ~accepted(row)
    BY <1>2, <1>3, <2>1, <2>3 DEF ReadRow
  <2> QED
    BY <2>2, <2>3
<1>4. ASSUME NEW name \in Names \cup {NoName}, CollectCall(name) PROVE TotalsAgree' /\ CostsAgree'
  <2> DEFINE san == classifySanitizerName(canonicalCalleeName(name))
  <2>1. CostsAgree'
    BY <1>2, <1>4 DEF CollectCall, profile
  <2>2. CASE name # NoName /\ san # "Unknown"
    <3>1. san \in Sanitizers /\ name.stem \in Stems
      BY <2>2, RecordedCall
    <3>2. recordCheck(san, name.stem)
      BY <1>4, <2>2 DEF CollectCall
    <3> HIDE DEF san
    <3> QED
      BY <1>0, <2>1, <3>1, <3>2, RecordAgrees
  <2>3. CASE ~(name # NoName /\ san # "Unknown")
    <3>1. UNCHANGED <<CheckCounts, SanitizerTotals, TotalChecks>>
      BY <1>4, <2>3 DEF CollectCall
    <3> QED
      BY <2>1, <3>1 DEF TotalsAgree
  <2> QED
    BY <2>2, <2>3
<1>5. ASSUME UNCHANGED <<profile, counts>> PROVE TotalsAgree' /\ CostsAgree'
  BY <1>1, <1>2, <1>5 DEF profile
<1>6. CASE ProfileRead \/ Collected \/ NextSanitizer \/ Choose \/ Skip \/ Break \/ SortCore \/ Return \/ UNCHANGED vars
  BY <1>5, <1>6 DEF ProfileRead, Collected, NextSanitizer, Choose, Skip, Break, SortCore, Return, vars
<1> QED
  BY <1>3, <1>4, <1>6 DEF Next

LEMMA AgreeInvariance == Spec => [](TotalsAgree /\ CostsAgree)
<1>1. Init => TotalsAgree /\ CostsAgree
  BY AgreesInit
<1>2. TInv /\ TInv' /\ (TotalsAgree /\ CostsAgree) /\ [Next]_vars => (TotalsAgree /\ CostsAgree)'
  BY AgreesNext
<1> QED
  BY <1>1, <1>2, TypeInvariance, PTL DEF Spec

(* The three counters of recordCheck agree with each other.                 *)
THEOREM CountersAgree == Spec => []TotalsAgree
  BY AgreeInvariance, PTL

(* The runtime shares are parts of a whole: every cost that is printed as a *)
(* share of the total is one of its summands.                               *)
THEOREM SharesAdd == Spec => []SharesBounded
<1>1. TInv /\ TotalsAgree /\ CostsAgree => SharesBounded
  <2> SUFFICES ASSUME TInv, CostsAgree, HasRuntimeRatio
               PROVE  /\ \A k \in Found : RuntimeCosts[k] \in 0..TotalRuntimeCost
                      /\ SumOver(RuntimeCosts, Found) <= TotalRuntimeCost
    BY DEF SharesBounded
  <2>1. /\ \A k \in Keys : RuntimeCosts[k] \in Nat
        /\ SumOver(RuntimeCosts, Keys) = TotalRuntimeCost
        /\ TotalRuntimeCost \in Nat
    BY CollectorAssumption DEF CostsAgree, HasRuntimeRatio, TInv, TypeOK
  <2>2. Found \in SUBSET Keys
    BY DEF Found, Keys
  <2>3. SumOver(RuntimeCosts, Found) <= SumOver(RuntimeCosts, Keys)
    BY <2>1, <2>2, FiniteKeys, SumPart
  <2>4. \A k \in Keys : RuntimeCosts[k] <= SumOver(RuntimeCosts, Keys)
    BY <2>1, FiniteKeys, SumMember
  <2> QED
    BY <2>1, <2>2, <2>3, <2>4
<1> QED
  BY <1>1, AgreeInvariance, TypeInvariance, PTL

-----------------------------------------------------------------------------
(* Layer 3: the selection.  For each sanitizer that is no longer pending,   *)
(* In has been chosen, Left is still to come and the rest of Found has been *)
(* passed over: skipped as too rare, after which everything to come is too  *)
(* rare, or dropped when the limit was reached.                             *)

LeftIn(q, s) == {t \in Stems : StatOf(s, t) \in ToSet(q)}
RareOf(s) == {t \in FoundOf(s) : Rare(s, t)}

Segment(F, In, Left, count, R, limit) ==
    /\ In \subseteq F /\ Left \subseteq F /\ In \cap Left = {}
    /\ \A t \in In, u \in F \ In : count[u] <= count[t]
    /\ \A t \in In : t \in R => In = {t}
    /\ limit # 0 => Cardinality(In) <= limit
    /\ \A u \in F \ (In \cup Left) : u \in R \/ (limit # 0 /\ Cardinality(In) >= limit)
    /\ In = {} => Left = F
    /\ F \ (In \cup Left) # {} => Left \subseteq R

SegmentOf(s) ==
    Segment(FoundOf(s), ChosenOf(s), LeftIn(Stats, s), CountsOf(s), RareOf(s), CoreTopN)

StatsOrdered(q, s) ==
    /\ \A i \in 1..Len(q) : q[i] \in StatsOf(s)
    /\ \A i, j \in 1..Len(q) : i < j => Before(q[i], q[j])

PhaseInv ==
    /\ pc \in {"profile", "collect"} => pending = << >> /\ CoreChecks = << >>
    /\ pc = "done" => pending = << >>
    /\ pc # "choose" => Stats = << >>

PendingInv ==
    /\ \A i, j \in 1..Len(pending) : i # j => pending[i] # pending[j]
    /\ \A s \in ToSet(pending) : ChosenOf(s) = {}

StatsInv ==
    Stats # << >> =>
        \E s \in Sanitizers \ ToSet(pending) :
            Added = Cardinality(ChosenOf(s)) /\ StatsOrdered(Stats, s)

ChoiceInv ==
    /\ PhaseInv
    /\ PendingInv
    /\ StatsInv
    /\ pc \in {"choose", "done"} =>
          \A s \in Sanitizers \ ToSet(pending) : SegmentOf(s)

\* At first nothing of a sanitizer is chosen and all of it is to come.
LEMMA SegmentStart ==
    ASSUME NEW F, NEW count, NEW R, NEW limit \in Nat
    PROVE  Segment(F, {}, F, count, R, limit)
<1>1. Cardinality({}) = 0
  BY FS_EmptySet
<1> QED
  BY <1>1 DEF Segment

\* The next check type is chosen: it is not too rare, or the first one.
LEMMA SegmentChoose ==
    ASSUME NEW F \in SUBSET Stems, NEW In, NEW Left, NEW count \in [Stems -> Nat], NEW R \in SUBSET F,
           NEW limit \in Nat, Segment(F, In, Left, count, R, limit),
           \A u \in R, v \in F : count[v] <= count[u] => v \in R,
           NEW t \in Left, \A v \in Left : count[v] <= count[t],
           limit = 0 \/ Cardinality(In) < limit,
           t \notin R \/ In = {}
    PROVE  /\ Segment(F, In \cup {t}, Left \ {t}, count, R, limit)
           /\ Cardinality(In \cup {t}) = Cardinality(In) + 1
<1>1. /\ In \subseteq F /\ Left \subseteq F /\ In \cap Left = {}
      /\ \A r \in In, u \in F \ In : count[u] <= count[r]
      /\ \A r \in In : r \in R => In = {r}
      /\ \A u \in F \ (In \cup Left) : u \in R \/ (limit # 0 /\ Cardinality(In) >= limit)
      /\ In = {} => Left = F
      /\ F \ (In \cup Left) # {} => Left \subseteq R
  BY DEF Segment
<1>2. IsFiniteSet(In) /\ t \notin In
  BY <1>1, FiniteKeys, FS_Subset
<1>3. Cardinality(In \cup {t}) = Cardinality(In) + 1 /\ Cardinality(In) \in Nat
  BY <1>2, FS_AddElement, FS_CardinalityType
<1>4. F \ ((In \cup {t}) \cup (Left \ {t})) = F \ (In \cup Left)
  OBVIOUS
<1>5. F \ (In \cup Left) = {}
  <2>1. CASE In = {}
    BY <1>1, <2>1
  <2>2. CASE t \notin R
    BY <1>1, <2>2
  <2> QED
    BY <2>1, <2>2
<1>6. \A r \in In \cup {t}, u \in F \ (In \cup {t}) : count[u] <= count[r]
  <2> TAKE r \in In \cup {t}, u \in F \ (In \cup {t})
  <2>1. CASE r \in In
    BY <1>1, <2>1
  <2>2. CASE r = t
    <3>1. u \in Left
      BY <1>5
    <3> QED
      BY <2>2, <3>1
  <2> QED
    BY <2>1, <2>2
<1>7. \A r \in In \cup {t} : r \in R => In \cup {t} = {r}
  <2> SUFFICES ASSUME NEW r \in In \cup {t}, r \in R PROVE In \cup {t} = {r}
    OBVIOUS
  <2>1. CASE In = {}
    BY <2>1
  <2>2. CASE In # {}
    <3>1. t \notin R /\ r \in In
      BY <2>2
    <3>2. count[t] <= count[r]
      BY <1>1, <1>2, <3>1
    <3> QED
      BY <1>1, <3>1, <3>2
  <2> QED
    BY <2>1, <2>2
<1>8. limit # 0 => Cardinality(In \cup {t}) <= limit
  BY <1>3
<1>9. /\ In \cup {t} \subseteq F /\ Left \ {t} \subseteq F /\ (In \cup {t}) \cap (Left \ {t}) = {}
      /\ In \cup {t} # {}
  BY <1>1
<1> QED
  BY <1>3, <1>4, <1>5, <1>6, <1>7, <1>8, <1>9 DEF Segment

\* The next check type is skipped: it is too rare, and not the first one.
LEMMA SegmentSkip ==
    ASSUME NEW F, NEW In, NEW Left, NEW count, NEW R, NEW limit,
           Segment(F, In, Left, count, R, limit),
           \A u \in R, v \in F : count[v] <= count[u] => v \in R,
           NEW t \in Left, \A v \in Left : count[v] <= count[t],
           t \in R, In # {}
    PROVE  Segment(F, In, Left \ {t}, count, R, limit)
<1>1. /\ In \subseteq F /\ Left \subseteq F /\ In \cap Left = {}
      /\ \A r \in In, u \in F \ In : count[u] <= count[r]
      /\ \A r \in In : r \in R => In = {r}
      /\ limit # 0 => Cardinality(In) <= limit
      /\ \A u \in F \ (In \cup Left) : u \in R \/ (limit # 0 /\ Cardinality(In) >= limit)
  BY DEF Segment
<1>2. Left \subseteq R
  BY <1>1
<1>3. \A u \in F \ (In \cup (Left \ {t})) : u \in R \/ (limit # 0 /\ Cardinality(In) >= limit)
  <2> TAKE u \in F \ (In \cup (Left \ {t}))
  <2>1. CASE u = t
    BY <2>1
  <2>2. CASE u # t
    BY <1>1, <2>2
  <2> QED
    BY <2>1, <2>2
<1> QED
  BY <1>1, <1>2, <1>3 DEF Segment

\* Nothing more is chosen: the limit is reached.
LEMMA SegmentBreak ==
    ASSUME NEW F, NEW In, NEW Left, NEW count, NEW R, NEW limit \in Nat,
           Segment(F, In, Left, count, R, limit),
           limit # 0, Cardinality(In) >= limit
    PROVE  Segment(F, In, {}, count, R, limit)
<1>1. In # {}
  <2>1. Cardinality({}) = 0
    BY FS_EmptySet
  <2>2. \A c \in Nat : c # 0 => ~(0 >= c)
    OBVIOUS
  <2>3. CASE In = {}
    <3>1. Cardinality(In) = 0
      BY <2>1, <2>3
    <3> QED
      BY <2>2, <3>1
  <2> QED
    BY <2>3
<1> QED
  BY <1>1 DEF Segment

\* The head of the stats to come, and the stats behind it.
LEMMA TailFacts ==
    ASSUME NEW q \in Seq(StatType), q # << >>, NEW s \in Sanitizers,
           CheckCounts \in [Keys -> 0..MaxCalls], StatsOrdered(q, s)
    PROVE  \E t \in FoundOf(s) :
              /\ Head(q) = StatOf(s, t)
              /\ t \in LeftIn(q, s)
              /\ \A v \in LeftIn(q, s) : CountsOf(s)[v] <= CountsOf(s)[t]
              /\ LeftIn(Tail(q), s) = LeftIn(q, s) \ {t}
              /\ StatsOrdered(Tail(q), s)
<1>1. /\ Len(q) \in Nat /\ Len(q) >= 1 /\ DOMAIN q = 1..Len(q) /\ Head(q) = q[1]
      /\ Tail(q) \in Seq(StatType) /\ Len(Tail(q)) = Len(q) - 1
      /\ DOMAIN Tail(q) = 1..(Len(q) - 1)
      /\ \A i \in 1..(Len(q) - 1) : Tail(q)[i] = q[i + 1]
  <2>1. Tail(q) \in Seq(StatType) /\ Len(Tail(q)) = Len(q) - 1
        /\ \A i \in 1..Len(Tail(q)) : Tail(q)[i] = q[i + 1]
    BY HeadTailProperties
  <2>2. Len(q) \in Nat /\ DOMAIN q = 1..Len(q) /\ DOMAIN Tail(q) = 1..Len(Tail(q)) /\ Len(q) # 0
    BY <2>1, LenProperties, EmptySeq
  <2>3. Head(q) = q[1]
    BY HeadTailProperties
  <2> QED
    BY <2>1, <2>2, <2>3
<1>2. /\ \A i \in 1..Len(q) : q[i] \in StatsOf(s)
      /\ \A i, j \in 1..Len(q) : i < j => Before(q[i], q[j])
  BY DEF StatsOrdered
<1>3. PICK t \in FoundOf(s) : q[1] = StatOf(s, t)
  <2>1. q[1] \in StatsOf(s)
    BY <1>1, <1>2
  <2> QED
    BY <2>1 DEF StatsOf
<1>4. t \in Stems /\ t \in Nat /\ CheckCounts[<<s, t>>] \in Nat
  <2>1. t \in Stems /\ <<s, t>> \in Keys
    BY DEF FoundOf, Keys
  <2> QED
    BY <2>1, CollectorAssumption
<1>5. \A v \in Stems : v # t => StatOf(s, v) # StatOf(s, t)
  BY DEF StatOf
<1>6. ~Before(StatOf(s, t), StatOf(s, t))
  BY <1>4 DEF Before, StatOf
<1>7. t \in LeftIn(q, s)
  BY <1>1, <1>3, <1>4 DEF LeftIn, ToSet
<1>8. ASSUME NEW v \in LeftIn(q, s), v # t
      PROVE  \E i \in 1..(Len(q) - 1) : StatOf(s, v) = Tail(q)[i]
  <2>1. PICK i \in 1..Len(q) : StatOf(s, v) = q[i]
    BY <1>1 DEF LeftIn, ToSet
  <2>2. i # 1
    BY <1>3, <1>5, <1>8, <2>1 DEF LeftIn
  <2>3. i - 1 \in 1..(Len(q) - 1) /\ (i - 1) + 1 = i
    BY <1>1, <2>2
  <2>4. Tail(q)[i - 1] = q[i]
    BY <1>1, <2>3
  <2> QED
    BY <2>1, <2>3, <2>4
<1>9. ASSUME NEW i \in 1..(Len(q) - 1), NEW v \in Stems, StatOf(s, v) = Tail(q)[i]
      PROVE  v # t /\ v \in LeftIn(q, s) /\ CountsOf(s)[v] <= CountsOf(s)[t]
  <2>1. i + 1 \in 1..Len(q) /\ 1 \in 1..Len(q) /\ 1 < i + 1 /\ StatOf(s, v) = q[i + 1]
    BY <1>1, <1>9
  <2>2. Before(StatOf(s, t), StatOf(s, v))
    BY <1>2, <1>3, <2>1
  <2>3. v # t
    BY <1>6, <2>2
  <2>4. v \in LeftIn(q, s)
    BY <1>1, <2>1 DEF LeftIn, ToSet
  <2>5. CheckCounts[<<s, v>>] \in Nat
    <3>1. <<s, v>> \in Keys
      BY DEF Keys
    <3> QED
      BY <3>1, CollectorAssumption
  <2>6. CheckCounts[<<s, v>>] <= CheckCounts[<<s, t>>]
    BY <1>4, <2>2, <2>5 DEF Before, StatOf
  <2> QED
    BY <1>4, <2>3, <2>4, <2>6 DEF CountsOf
<1>10. \A v \in LeftIn(q, s) : CountsOf(s)[v] <= CountsOf(s)[t]
  <2> TAKE v \in LeftIn(q, s)
  <2>1. CASE v = t
    BY <1>4, <2>1 DEF CountsOf
  <2>2. CASE v # t
    BY <1>8, <1>9, <2>2 DEF LeftIn
  <2> QED
    BY <2>1, <2>2
<1>11. LeftIn(Tail(q), s) = LeftIn(q, s) \ {t}
  <2>1. ASSUME NEW v \in LeftIn(Tail(q), s) PROVE v \in LeftIn(q, s) \ {t}
    <3>1. \E i \in 1..(Len(q) - 1) : StatOf(s, v) = Tail(q)[i]
      BY <1>1 DEF LeftIn, ToSet
    <3> QED
      BY <1>9, <3>1 DEF LeftIn
  <2>2. ASSUME NEW v \in LeftIn(q, s) \ {t} PROVE v \in LeftIn(Tail(q), s)
    <3>1. \E i \in 1..(Len(q) - 1) : StatOf(s, v) = Tail(q)[i]
      BY <1>8
    <3> QED
      BY <1>1, <3>1 DEF LeftIn, ToSet
  <2> QED
    BY <2>1, <2>2
<1>12. StatsOrdered(Tail(q), s)
  <2>1. \A i \in 1..Len(Tail(q)) : Tail(q)[i] = q[i + 1] /\ i + 1 \in 1..Len(q)
    BY <1>1
  <2>2. \A i, j \in 1..Len(Tail(q)) : i < j => i + 1 < j + 1
    OBVIOUS
  <2> QED
    BY <1>2, <2>1, <2>2 DEF StatsOrdered
<1> QED
  BY <1>1, <1>3, <1>7, <1>10, <1>11, <1>12

\* Of the other sanitizers nothing is to come.
LEMMA OthersLeft ==
    ASSUME NEW q \in Seq(StatType), NEW s \in Sanitizers, StatsOrdered(q, s),
           NEW r \in Sanitizers, r # s
    PROVE  LeftIn(q, r) = {}
<1>1. ASSUME NEW t \in Stems, StatOf(r, t) \in ToSet(q) PROVE FALSE
  <2>1. PICK i \in 1..Len(q) : q[i] = StatOf(r, t)
    BY <1>1, LenProperties DEF ToSet
  <2>2. PICK u \in FoundOf(s) : q[i] = StatOf(s, u)
    <3>1. q[i] \in StatsOf(s)
      BY DEF StatsOrdered
    <3> QED
      BY <3>1 DEF StatsOf
  <2>3. StatOf(r, t).san = r /\ StatOf(s, u).san = s
    BY DEF StatOf
  <2> QED
    BY <2>1, <2>2, <2>3
<1> QED
  BY <1>1 DEF LeftIn

LEMMA NoneLeft == \A s \in Sanitizers : LeftIn(<< >>, s) = {}
<1>1. ToSet(<< >>) = {}
  BY DEF ToSet
<1> QED
  BY <1>1 DEF LeftIn

\* What is chosen grows by what is appended.
LEMMA CoreGrows ==
    ASSUME CoreChecks \in Seq(StatType), NEW s \in Sanitizers, NEW t \in Stems,
           StatOf(s, t) \in StatType, CoreChecks' = Append(CoreChecks, StatOf(s, t))
    PROVE  /\ ChosenOf(s)' = ChosenOf(s) \cup {t}
           /\ \A r \in Sanitizers : r # s => ChosenOf(r)' = ChosenOf(r)
<1>1. ToSet(CoreChecks') = ToSet(CoreChecks) \cup {StatOf(s, t)}
  <2>1. PICK q : q = CoreChecks
    OBVIOUS
  <2>2. PICK p : p = CoreChecks'
    OBVIOUS
  <2>3. /\ Len(p) = Len(q) + 1 /\ Len(q) \in Nat /\ p[Len(q) + 1] = StatOf(s, t)
        /\ \A i \in 1..Len(q) : p[i] = q[i]
        /\ DOMAIN p = 1..Len(p) /\ DOMAIN q = 1..Len(q)
    <3>1. q \in Seq(StatType) /\ p = Append(q, StatOf(s, t))
      BY <2>1, <2>2
    <3>2. p \in Seq(StatType)
      BY <3>1, AppendProperties
    <3> QED
      BY <3>1, <3>2, AppendProperties, LenProperties
  <2>4. \A i \in 1..Len(p) : i \in 1..Len(q) \/ i = Len(q) + 1
    BY <2>3
  <2>5. \A i \in 1..Len(q) : i \in 1..Len(p)
    BY <2>3
  <2>6. Len(q) + 1 \in 1..Len(p)
    BY <2>3
  <2>7. ToSet(p) = ToSet(q) \cup {StatOf(s, t)}
    BY <2>3, <2>4, <2>5, <2>6 DEF ToSet
  <2> QED
    BY <2>1, <2>2, <2>7
<1>2. Core' = Core \cup {<<s, t>>}
  <2>1. StatOf(s, t).san = s /\ StatOf(s, t).stem = t
    BY DEF StatOf
  <2> QED
    BY <1>1, <2>1 DEF Core
<1> QED
  BY <1>2 DEF ChosenOf

\* While nothing is counted, the tables of counts are what they were.
LEMMA SameCounts ==
    ASSUME UNCHANGED <<options, counts>>, NEW s \in Sanitizers
    PROVE  /\ FoundOf(s)' = FoundOf(s) /\ StatsOf(s)' = StatsOf(s)
           /\ CountsOf(s)' = CountsOf(s) /\ RareOf(s)' = RareOf(s)
           /\ LeftIn(Stats, s)' = LeftIn(Stats', s)
<1>1. CheckCounts' = CheckCounts /\ SanitizerTotals' = SanitizerTotals /\ CoreMinRatio' = CoreMinRatio
  BY DEF counts, options
<1>2. FoundOf(s)' = FoundOf(s) /\ CountsOf(s)' = CountsOf(s)
  BY <1>1 DEF FoundOf, CountsOf
<1>3. StatsOf(s)' = StatsOf(s)
  BY <1>1, <1>2 DEF StatsOf, StatOf
<1>4. RareOf(s)' = RareOf(s)
  BY <1>1, <1>2 DEF RareOf, Rare, TooRare, StatOf
<1>5. LeftIn(Stats, s)' = LeftIn(Stats', s)
  BY <1>1 DEF LeftIn, StatOf
<1> QED
  BY <1>2, <1>3, <1>4, <1>5

\* So a segment changes only with what is chosen and what is to come.
LEMMA SegmentNow ==
    ASSUME UNCHANGED <<options, counts>>, NEW s \in Sanitizers,
           Segment(FoundOf(s), ChosenOf(s)', LeftIn(Stats', s), CountsOf(s), RareOf(s), CoreTopN)
    PROVE  SegmentOf(s)'
<1>1. CoreTopN' = CoreTopN
  BY DEF options
<1>2. /\ FoundOf(s)' = FoundOf(s) /\ CountsOf(s)' = CountsOf(s) /\ RareOf(s)' = RareOf(s)
      /\ LeftIn(Stats, s)' = LeftIn(Stats', s)
  BY SameCounts
<1> QED
  BY <1>1, <1>2 DEF SegmentOf

\* What is no more frequent than a check type below the ratio is below it, too.
LEMMA RareDownwards ==
    ASSUME TypeOK, NEW s \in Sanitizers, NEW u \in RareOf(s), NEW v \in FoundOf(s),
           CountsOf(s)[v] <= CountsOf(s)[u]
    PROVE  v \in RareOf(s)
<1>1. PICK p : p = CoreMinRatio * SanitizerTotals[s]
  OBVIOUS
<1>2. p \in Int
  <2>1. CoreMinRatio \in 0..100 /\ SanitizerTotals[s] \in 0..MaxCalls /\ MaxCalls \in Nat
    BY CollectorAssumption DEF TypeOK
  <2>2. \A x, y \in Int : x * y \in Int
    OBVIOUS
  <2> QED
    BY <1>1, <2>1, <2>2
<1>3. u \in Stems /\ v \in Stems
  BY DEF RareOf, FoundOf
<1>4. CheckCounts[<<s, u>>] \in Int /\ CheckCounts[<<s, v>>] \in Int
  <2>1. <<s, u>> \in Keys /\ <<s, v>> \in Keys
    BY <1>3 DEF Keys
  <2>2. MaxCalls \in Nat /\ CheckCounts \in [Keys -> 0..MaxCalls]
    BY CollectorAssumption DEF TypeOK, Keys
  <2> QED
    BY <2>1, <2>2
<1>5. 100 * CheckCounts[<<s, u>>] < p
  BY <1>1 DEF RareOf, Rare, TooRare, StatOf
<1>6. CheckCounts[<<s, v>>] <= CheckCounts[<<s, u>>]
  BY <1>3 DEF CountsOf
<1>7. 100 * CheckCounts[<<s, v>>] < p
  BY <1>2, <1>4, <1>5, <1>6
<1> QED
  BY <1>1, <1>7 DEF RareOf, Rare, TooRare, StatOf

LEMMA PendingSanitizers == TypeOK => ToSet(pending) \subseteq Sanitizers
<1> SUFFICES ASSUME TypeOK PROVE ToSet(pending) \subseteq Sanitizers
  OBVIOUS
<1>1. pending \in [1..Len(pending) -> Sanitizers] /\ DOMAIN pending = 1..Len(pending)
  BY LenProperties DEF TypeOK
<1> QED
  BY <1>1 DEF ToSet

\* Before the selection there is nothing to keep.
LEMMA ChoiceIdle ==
    ASSUME pc' \in {"profile", "collect"}, pending' = << >>, Stats' = << >>, CoreChecks' = << >>
    PROVE  ChoiceInv'
<1>1. PhaseInv' /\ StatsInv'
  BY DEF PhaseInv, StatsInv
<1>2. PendingInv'
  <2>1. Len(<< >>) = 0 /\ ToSet(<< >>) = {}
    BY DEF ToSet
  <2> QED
    BY <2>1 DEF PendingInv
<1> QED
  BY <1>1, <1>2 DEF ChoiceInv

\* A step within the list of one sanitizer.
LEMMA ChoiceStep ==
    ASSUME TypeOK, ChoiceInv, pc = "choose", UNCHANGED <<pc, options, counts, pending>>,
           NEW s \in Sanitizers \ ToSet(pending),
           Stats' \in Seq(StatType), StatsOrdered(Stats, s), StatsOrdered(Stats', s),
           \A r \in Sanitizers : r # s => ChosenOf(r)' = ChosenOf(r),
           Added' = Cardinality(ChosenOf(s)'),
           Segment(FoundOf(s), ChosenOf(s)', LeftIn(Stats', s), CountsOf(s), RareOf(s), CoreTopN)
    PROVE  ChoiceInv'
<1>0. PhaseInv /\ PendingInv /\ \A r \in Sanitizers \ ToSet(pending) : SegmentOf(r)
  BY DEF ChoiceInv
<1>1. pc' = "choose" /\ pending' = pending /\ UNCHANGED <<options, counts>>
  OBVIOUS
<1>2. PhaseInv'
  BY <1>1 DEF PhaseInv
<1>3. PendingInv'
  <2>1. \A r \in ToSet(pending) : ChosenOf(r)' = ChosenOf(r)
    BY PendingSanitizers
  <2> QED
    BY <1>0, <1>1, <2>1 DEF PendingInv
<1>4. StatsInv'
  <2>1. StatsOf(s)' = StatsOf(s)
    BY <1>1, SameCounts
  <2>2. StatsOrdered(Stats, s)'
    BY <2>1 DEF StatsOrdered
  <2> QED
    BY <1>1, <2>2 DEF StatsInv
<1>5. ASSUME NEW r \in Sanitizers \ ToSet(pending) PROVE SegmentOf(r)'
  <2>1. CASE r = s
    BY <1>1, <2>1, SegmentNow
  <2>2. CASE r # s
    <3>1. Stats \in Seq(StatType)
      BY DEF TypeOK
    <3>2. LeftIn(Stats, r) = {}
      BY <2>2, <3>1, OthersLeft
    <3>3. LeftIn(Stats', r) = {}
      <4>1. PICK q : q = Stats'
        OBVIOUS
      <4> QED
        BY <2>2, <4>1, OthersLeft
    <3>4. SegmentOf(r) /\ ChosenOf(r)' = ChosenOf(r)
      BY <1>0, <2>2
    <3>5. Segment(FoundOf(r), ChosenOf(r)', LeftIn(Stats', r), CountsOf(r), RareOf(r), CoreTopN)
      BY <3>2, <3>3, <3>4 DEF SegmentOf
    <3> QED
      BY <1>1, <3>5, SegmentNow
  <2> QED
    BY <2>1, <2>2
<1> QED
  BY <1>1, <1>2, <1>3, <1>4, <1>5 DEF ChoiceInv

\* The sanitizer whose list is being worked off is s, the head of its list t.
Current(s, t) ==
    /\ t \in FoundOf(s)
    /\ Added = Cardinality(ChosenOf(s)) /\ StatsOrdered(Stats, s) /\ SegmentOf(s)
    /\ Head(Stats) = StatOf(s, t) /\ StatOf(s, t) \in StatType
    /\ t \in LeftIn(Stats, s)
    /\ \A v \in LeftIn(Stats, s) : CountsOf(s)[v] <= CountsOf(s)[t]
    /\ Tail(Stats) \in Seq(StatType)
    /\ LeftIn(Tail(Stats), s) = LeftIn(Stats, s) \ {t}
    /\ StatsOrdered(Tail(Stats), s)
    /\ FoundOf(s) \in SUBSET Stems /\ CountsOf(s) \in [Stems -> Nat]
    /\ RareOf(s) \in SUBSET FoundOf(s) /\ CoreTopN \in Nat
    /\ \A u \in RareOf(s), v \in FoundOf(s) : CountsOf(s)[v] <= CountsOf(s)[u] => v \in RareOf(s)

LEMMA AtHead ==
    ASSUME TypeOK, ChoiceInv, pc = "choose", Stats # << >>
    PROVE  \E s \in Sanitizers \ ToSet(pending), t \in Stems : Current(s, t)
<1>1. PICK s \in Sanitizers \ ToSet(pending) :
          Added = Cardinality(ChosenOf(s)) /\ StatsOrdered(Stats, s)
  BY DEF ChoiceInv, StatsInv
<1>2. SegmentOf(s)
  BY DEF ChoiceInv
<1>3. CheckCounts \in [Keys -> 0..MaxCalls] /\ Stats \in Seq(StatType)
  BY DEF TypeOK, Keys
<1>4. PICK t \in FoundOf(s) :
          /\ Head(Stats) = StatOf(s, t)
          /\ t \in LeftIn(Stats, s)
          /\ \A v \in LeftIn(Stats, s) : CountsOf(s)[v] <= CountsOf(s)[t]
          /\ LeftIn(Tail(Stats), s) = LeftIn(Stats, s) \ {t}
          /\ StatsOrdered(Tail(Stats), s)
  <2>1. PICK q : q = Stats
    OBVIOUS
  <2> QED
    BY <1>1, <1>3, <2>1, TailFacts
<1>5. Head(Stats) \in StatType /\ Tail(Stats) \in Seq(StatType)
  BY <1>3, HeadTailProperties
<1>6. FoundOf(s) \in SUBSET Stems /\ RareOf(s) \in SUBSET FoundOf(s) /\ CoreTopN \in Nat
  BY CollectorAssumption DEF FoundOf, RareOf, TypeOK
<1>7. CountsOf(s) \in [Stems -> Nat]
  <2>1. ASSUME NEW u \in Stems PROVE CheckCounts[<<s, u>>] \in Nat
    <3>1. <<s, u>> \in Keys /\ 0..MaxCalls \subseteq Nat
      BY CollectorAssumption DEF Keys
    <3> QED
      BY <1>3, <3>1
  <2> QED
    BY <2>1 DEF CountsOf
<1>8. \A u \in RareOf(s), v \in FoundOf(s) : CountsOf(s)[v] <= CountsOf(s)[u] => v \in RareOf(s)
  BY RareDownwards
<1> QED
  BY <1>1, <1>2, <1>4, <1>5, <1>6, <1>7, <1>8 DEF Current

LEMMA ChooseKeeps == TypeOK /\ ChoiceInv /\ Choose => ChoiceInv'
<1> SUFFICES ASSUME TypeOK, ChoiceInv, Choose PROVE ChoiceInv'
  OBVIOUS
<1>1. /\ pc = "choose" /\ Stats # << >> /\ ~limitReached /\ ~skips(Head(Stats))
      /\ CoreChecks' = Append(CoreChecks, Head(Stats)) /\ Added' = Added + 1 /\ Stats' = Tail(Stats)
      /\ UNCHANGED <<pc, options, counts, pending>>
  BY DEF Choose
<1>2. PICK s \in Sanitizers \ ToSet(pending), t \in Stems : Current(s, t)
  BY <1>1, AtHead
<1> USE DEF Current
<1>3. IsFiniteSet(ChosenOf(s)) /\ Cardinality(ChosenOf(s)) \in Nat
      /\ (Cardinality(ChosenOf(s)) = 0 => ChosenOf(s) = {})
  <2>1. ChosenOf(s) \subseteq Stems
    BY DEF ChosenOf
  <2>2. IsFiniteSet(ChosenOf(s))
    BY <2>1, FiniteKeys, FS_Subset
  <2> QED
    BY <2>2, FS_CardinalityType, FS_EmptySet
<1>4. CoreTopN = 0 \/ Cardinality(ChosenOf(s)) < CoreTopN
  BY <1>1, <1>2, <1>3 DEF limitReached
<1>5. t \notin RareOf(s) \/ ChosenOf(s) = {}
  <2>1. t \in RareOf(s) => TooRare(StatOf(s, t))
    BY DEF RareOf, Rare
  <2>2. TooRare(StatOf(s, t)) => ~(Added > 0)
    BY <1>1, <1>2 DEF skips
  <2> QED
    BY <1>2, <1>3, <2>1, <2>2
<1>6. Segment(FoundOf(s), ChosenOf(s), LeftIn(Stats, s), CountsOf(s), RareOf(s), CoreTopN)
  BY <1>2 DEF SegmentOf
<1>7. /\ Segment(FoundOf(s), ChosenOf(s) \cup {t}, LeftIn(Stats, s) \ {t}, CountsOf(s), RareOf(s), CoreTopN)
      /\ Cardinality(ChosenOf(s) \cup {t}) = Cardinality(ChosenOf(s)) + 1
  <2>1. PICK F, In, Left, count, R, limit :
            /\ F = FoundOf(s) /\ In = ChosenOf(s) /\ Left = LeftIn(Stats, s)
            /\ count = CountsOf(s) /\ R = RareOf(s) /\ limit = CoreTopN
    OBVIOUS
  <2>2. /\ F \in SUBSET Stems /\ count \in [Stems -> Nat] /\ R \in SUBSET F /\ limit \in Nat
        /\ Segment(F, In, Left, count, R, limit)
        /\ \A u \in R, v \in F : count[v] <= count[u] => v \in R
        /\ t \in Left /\ \A v \in Left : count[v] <= count[t]
        /\ limit = 0 \/ Cardinality(In) < limit
        /\ t \notin R \/ In = {}
    BY <1>2, <1>4, <1>5, <1>6, <2>1
  <2>3. /\ Segment(F, In \cup {t}, Left \ {t}, count, R, limit)
        /\ Cardinality(In \cup {t}) = Cardinality(In) + 1
    BY <2>2, SegmentChoose
  <2> QED
    BY <2>1, <2>3
<1>8. /\ ChosenOf(s)' = ChosenOf(s) \cup {t}
      /\ \A r \in Sanitizers : r # s => ChosenOf(r)' = ChosenOf(r)
  <2>1. t \in Stems /\ CoreChecks \in Seq(StatType)
    BY <1>2 DEF TypeOK
  <2> QED
    BY <1>1, <1>2, <2>1, CoreGrows
<1>9. Added' = Cardinality(ChosenOf(s)')
  BY <1>1, <1>2, <1>7, <1>8
<1>10. Segment(FoundOf(s), ChosenOf(s)', LeftIn(Stats', s), CountsOf(s), RareOf(s), CoreTopN)
  BY <1>1, <1>2, <1>7, <1>8
<1>11. Stats' \in Seq(StatType) /\ StatsOrdered(Stats', s)
  BY <1>1, <1>2
<1> QED
  BY <1>1, <1>2, <1>8, <1>9, <1>10, <1>11, ChoiceStep

LEMMA SkipKeeps == TypeOK /\ ChoiceInv /\ Skip => ChoiceInv'
<1> SUFFICES ASSUME TypeOK, ChoiceInv, Skip PROVE ChoiceInv'
  OBVIOUS
<1>1. /\ pc = "choose" /\ Stats # << >> /\ skips(Head(Stats))
      /\ Stats' = Tail(Stats)
      /\ UNCHANGED <<pc, options, counts, pending>> /\ UNCHANGED <<Added, CoreChecks>>
  BY DEF Skip
<1>2. PICK s \in Sanitizers \ ToSet(pending), t \in Stems : Current(s, t)
  BY <1>1, AtHead
<1> USE DEF Current
<1>3. t \in RareOf(s) /\ ChosenOf(s) # {}
  <2>1. TooRare(StatOf(s, t)) /\ Added > 0
    BY <1>1, <1>2 DEF skips
  <2>2. CASE ChosenOf(s) = {}
    <3>1. Added = 0
      BY <1>2, <2>2, FS_EmptySet
    <3> QED
      BY <2>1, <3>1
  <2> QED
    BY <1>2, <2>1, <2>2 DEF RareOf, Rare
<1>4. Segment(FoundOf(s), ChosenOf(s), LeftIn(Stats, s), CountsOf(s), RareOf(s), CoreTopN)
  BY <1>2 DEF SegmentOf
<1>5. Segment(FoundOf(s), ChosenOf(s), LeftIn(Stats, s) \ {t}, CountsOf(s), RareOf(s), CoreTopN)
  <2>1. PICK F, In, Left, count, R, limit :
            /\ F = FoundOf(s) /\ In = ChosenOf(s) /\ Left = LeftIn(Stats, s)
            /\ count = CountsOf(s) /\ R = RareOf(s) /\ limit = CoreTopN
    OBVIOUS
  <2>2. /\ Segment(F, In, Left, count, R, limit)
        /\ \A u \in R, v \in F : count[v] <= count[u] => v \in R
        /\ t \in Left /\ \A v \in Left : count[v] <= count[t]
        /\ t \in R /\ In # {}
    BY <1>2, <1>3, <1>4, <2>1
  <2>3. Segment(F, In, Left \ {t}, count, R, limit)
    BY <2>2, SegmentSkip
  <2> QED
    BY <2>1, <2>3
<1>6. \A r \in Sanitizers : ChosenOf(r)' = ChosenOf(r)
  BY <1>1 DEF ChosenOf, Core
<1>7. Segment(FoundOf(s), ChosenOf(s)', LeftIn(Stats', s), CountsOf(s), RareOf(s), CoreTopN)
  BY <1>1, <1>2, <1>5, <1>6
<1>8. /\ Stats' \in Seq(StatType) /\ StatsOrdered(Stats', s)
      /\ Added' = Cardinality(ChosenOf(s)')
  BY <1>1, <1>2, <1>6
<1> QED
  BY <1>1, <1>2, <1>6, <1>7, <1>8, ChoiceStep

LEMMA BreakKeeps == TypeOK /\ ChoiceInv /\ Break => ChoiceInv'
<1> SUFFICES ASSUME TypeOK, ChoiceInv, Break PROVE ChoiceInv'
  OBVIOUS
<1>1. /\ pc = "choose" /\ Stats # << >> /\ limitReached /\ Stats' = << >>
      /\ UNCHANGED <<pc, options, counts, pending>> /\ UNCHANGED <<Added, CoreChecks>>
  BY DEF Break
<1>2. PICK s \in Sanitizers \ ToSet(pending) :
          Added = Cardinality(ChosenOf(s)) /\ StatsOrdered(Stats, s) /\ SegmentOf(s) /\ CoreTopN \in Nat
  BY <1>1, AtHead DEF Current
<1>3. Segment(FoundOf(s), ChosenOf(s), {}, CountsOf(s), RareOf(s), CoreTopN)
  <2>1. Segment(FoundOf(s), ChosenOf(s), LeftIn(Stats, s), CountsOf(s), RareOf(s), CoreTopN)
    BY <1>2 DEF SegmentOf
  <2>2. CoreTopN # 0 /\ Cardinality(ChosenOf(s)) >= CoreTopN
    BY <1>1, <1>2 DEF limitReached
  <2> QED
    BY <1>2, <2>1, <2>2, SegmentBreak
<1>4. \A r \in Sanitizers : ChosenOf(r)' = ChosenOf(r)
  BY <1>1 DEF ChosenOf, Core
<1>5. LeftIn(Stats', s) = {}
  BY <1>1, NoneLeft
<1>6. Segment(FoundOf(s), ChosenOf(s)', LeftIn(Stats', s), CountsOf(s), RareOf(s), CoreTopN)
  BY <1>3, <1>4, <1>5
<1>7. Stats' \in Seq(StatType) /\ StatsOrdered(Stats', s) /\ Added' = Cardinality(ChosenOf(s)')
  <2>1. << >> \in Seq(StatType) /\ Len(<< >>) = 0
    BY EmptySeq
  <2> QED
    BY <1>1, <1>2, <1>4, <2>1 DEF StatsOrdered
<1> QED
  BY <1>1, <1>2, <1>4, <1>6, <1>7, ChoiceStep

LEMMA CollectedKeeps == TypeOK /\ ChoiceInv /\ Collected => ChoiceInv'
<1> SUFFICES ASSUME TypeOK, ChoiceInv, Collected PROVE ChoiceInv'
  OBVIOUS
<1>1. /\ pc = "collect" /\ pc' = "choose" /\ pending' = <<"ASan", "UBSan", "MemSan">>
      /\ Stats' = Stats /\ CoreChecks' = CoreChecks
  BY DEF Collected
<1>2. Stats = << >> /\ CoreChecks = << >>
  BY <1>1 DEF ChoiceInv, PhaseInv
<1>3. /\ Len(pending') = 3 /\ pending'[1] = "ASan" /\ pending'[2] = "UBSan" /\ pending'[3] = "MemSan"
      /\ DOMAIN pending' = 1..3
  BY <1>1
<1>4. ToSet(pending') = Sanitizers
  <2>1. 1 \in 1..3 /\ 2 \in 1..3 /\ 3 \in 1..3 /\ \A i \in 1..3 : i = 1 \/ i = 2 \/ i = 3
    OBVIOUS
  <2> QED
    BY <1>3, <2>1 DEF ToSet, Sanitizers
<1>5. \A i, j \in 1..Len(pending') : i # j => pending'[i] # pending'[j]
  <2>1. \A i \in 1..3 : i = 1 \/ i = 2 \/ i = 3
    OBVIOUS
  <2> QED
    BY <1>3, <2>1
<1>6. \A s \in Sanitizers : ChosenOf(s)' = {}
  <2>1. ToSet(CoreChecks') = {}
    BY <1>1, <1>2 DEF ToSet
  <2> QED
    BY <2>1 DEF ChosenOf, Core
<1>7. PhaseInv' /\ StatsInv'
  BY <1>1, <1>2 DEF PhaseInv, StatsInv
<1>8. PendingInv'
  BY <1>4, <1>5, <1>6 DEF PendingInv
<1> QED
  BY <1>4, <1>7, <1>8 DEF ChoiceInv

LEMMA NextSanitizerKeeps == TypeOK /\ ChoiceInv /\ NextSanitizer => ChoiceInv'
<1> SUFFICES ASSUME TypeOK, ChoiceInv, NextSanitizer PROVE ChoiceInv'
  OBVIOUS
<1>1. /\ pc = "choose" /\ pending # << >> /\ Stats = << >> /\ Added' = 0
      /\ Stats' \in getStatsForSanitizer(Head(pending)) /\ pending' = Tail(pending)
      /\ pc' = pc /\ UNCHANGED <<options, counts>> /\ CoreChecks' = CoreChecks
  BY DEF NextSanitizer
<1>2. PendingInv /\ \A r \in Sanitizers \ ToSet(pending) : SegmentOf(r)
  BY <1>1 DEF ChoiceInv
<1>3. PICK s \in Sanitizers : s = Head(pending)
  BY <1>1, HeadTailProperties DEF TypeOK
<1>4. /\ pending[1] = s /\ Len(pending) \in Nat /\ Len(pending) >= 1 /\ Len(pending') = Len(pending) - 1
      /\ \A i \in 1..Len(pending') : pending'[i] = pending[i + 1]
      /\ DOMAIN pending = 1..Len(pending) /\ DOMAIN pending' = 1..Len(pending')
  <2>1. PICK q : q = pending
    OBVIOUS
  <2>2. PICK p : p = pending'
    OBVIOUS
  <2>3. q \in Seq(Sanitizers) /\ q # << >> /\ p = Tail(q)
    BY <1>1, <2>1, <2>2 DEF TypeOK
  <2>4. /\ p \in Seq(Sanitizers) /\ Len(p) = Len(q) - 1
        /\ \A i \in 1..Len(p) : p[i] = q[i + 1]
    BY <2>3, HeadTailProperties
  <2>5. /\ Len(q) \in Nat /\ Len(q) # 0 /\ DOMAIN q = 1..Len(q) /\ DOMAIN p = 1..Len(p)
    BY <2>3, <2>4, LenProperties, EmptySeq
  <2>6. q[1] = s
    BY <1>3, <2>1
  <2>7. Len(q) >= 1
    BY <2>5
  <2> QED
    BY <2>1, <2>2, <2>4, <2>5, <2>6, <2>7
<1>5. \A i \in 1..Len(pending') : i + 1 \in 1..Len(pending) /\ i + 1 # 1
  BY <1>4
<1>6. 1 \in 1..Len(pending) /\ s \in ToSet(pending)
  <2>1. 1 \in 1..Len(pending)
    BY <1>4
  <2> QED
    BY <1>4, <2>1 DEF ToSet
<1>7. ToSet(pending') \subseteq ToSet(pending) /\ s \notin ToSet(pending')
  <2> SUFFICES ASSUME NEW i \in 1..Len(pending')
               PROVE  pending'[i] \in ToSet(pending) /\ pending'[i] # s
    BY <1>4 DEF ToSet
  <2>1. pending'[i] = pending[i + 1] /\ i + 1 \in 1..Len(pending) /\ i + 1 # 1
    BY <1>4, <1>5
  <2>2. pending[i + 1] # pending[1]
    BY <1>2, <1>6, <2>1 DEF PendingInv
  <2> QED
    BY <1>4, <2>1, <2>2 DEF ToSet
<1>8. \A r \in ToSet(pending) : r = s \/ r \in ToSet(pending')
  <2> SUFFICES ASSUME NEW i \in 1..Len(pending), pending[i] # s
               PROVE  pending[i] \in ToSet(pending')
    BY <1>4 DEF ToSet
  <2>1. i # 1
    BY <1>4
  <2>2. i - 1 \in 1..Len(pending') /\ (i - 1) + 1 = i
    BY <1>4, <2>1
  <2>3. pending'[i - 1] = pending[i]
    BY <1>4, <2>2
  <2> QED
    BY <1>4, <2>2, <2>3 DEF ToSet
<1>9. \A r \in Sanitizers : ChosenOf(r)' = ChosenOf(r)
  BY <1>1 DEF ChosenOf, Core
<1>10. ChosenOf(s) = {}
  BY <1>2, <1>6 DEF PendingInv
<1>11. CheckCounts \in [Keys -> 0..MaxCalls]
  BY DEF TypeOK, Keys
<1>12. Stats' \in Seq(StatType) /\ ToSet(Stats') = StatsOf(s) /\ StatsOrdered(Stats', s)
  <2>1. PICK q : q = Stats'
    OBVIOUS
  <2>2. q \in getStatsForSanitizer(s)
    BY <1>1, <1>3, <2>1
  <2>3. /\ q \in Seq(StatType)
        /\ ToSet(q) = StatsOf(s)
        /\ \A i, j \in 1..Len(q) : i < j => Before(q[i], q[j])
    BY <1>11, <2>2, StatsSorted
  <2>4. DOMAIN q = 1..Len(q)
    BY <2>3, LenProperties
  <2>5. \A i \in 1..Len(q) : q[i] \in StatsOf(s)
    BY <2>3, <2>4 DEF ToSet
  <2> QED
    BY <2>1, <2>3, <2>5 DEF StatsOrdered
<1>13. LeftIn(Stats', s) = FoundOf(s)
  <2>1. LeftIn(Stats', s) = {t \in Stems : StatOf(s, t) \in StatsOf(s)}
    BY <1>12 DEF LeftIn
  <2>2. ASSUME NEW t \in Stems, StatOf(s, t) \in StatsOf(s) PROVE t \in FoundOf(s)
    <3>1. PICK u \in FoundOf(s) : StatOf(s, t) = StatOf(s, u)
      BY <2>2 DEF StatsOf
    <3>2. StatOf(s, t).stem = t /\ StatOf(s, u).stem = u
      BY DEF StatOf
    <3> QED
      BY <3>1, <3>2
  <2>3. \A t \in FoundOf(s) : t \in Stems /\ StatOf(s, t) \in StatsOf(s)
    BY DEF FoundOf, StatsOf
  <2> QED
    BY <2>1, <2>2, <2>3
<1>14. PhaseInv'
  BY <1>1 DEF PhaseInv
<1>15. PendingInv'
  <2>1. \A i, j \in 1..Len(pending') : i # j => pending'[i] # pending'[j]
    <3> TAKE i, j \in 1..Len(pending')
    <3>1. i # j => i + 1 # j + 1
      OBVIOUS
    <3> QED
      BY <1>2, <1>4, <1>5, <3>1 DEF PendingInv
  <2>2. \A r \in ToSet(pending') : r \in ToSet(pending) /\ r \in Sanitizers
    BY <1>7, PendingSanitizers
  <2>3. \A r \in ToSet(pending') : ChosenOf(r)' = {}
    BY <1>2, <1>9, <2>2 DEF PendingInv
  <2> QED
    BY <2>1, <2>3 DEF PendingInv
<1>16. StatsInv'
  <2>1. StatsOf(s)' = StatsOf(s)
    BY <1>1, SameCounts
  <2>2. StatsOrdered(Stats, s)'
    BY <1>12, <2>1 DEF StatsOrdered
  <2>3. Added' = Cardinality(ChosenOf(s)')
    BY <1>1, <1>9, <1>10, FS_EmptySet
  <2> QED
    BY <1>7, <2>2, <2>3 DEF StatsInv
<1>17. ASSUME NEW r \in Sanitizers \ ToSet(pending') PROVE SegmentOf(r)'
  <2>1. CASE r = s
    <3>1. CoreTopN \in Nat
      BY CollectorAssumption DEF TypeOK
    <3>2. Segment(FoundOf(r), {}, FoundOf(r), CountsOf(r), RareOf(r), CoreTopN)
      BY <3>1, SegmentStart
    <3>3. ChosenOf(r)' = {} /\ LeftIn(Stats', r) = FoundOf(r)
      BY <1>9, <1>10, <1>13, <2>1
    <3>4. Segment(FoundOf(r), ChosenOf(r)', LeftIn(Stats', r), CountsOf(r), RareOf(r), CoreTopN)
      BY <3>2, <3>3
    <3> QED
      BY <1>1, <3>4, SegmentNow
  <2>2. CASE r # s
    <3>1. r \notin ToSet(pending)
      BY <1>8, <2>2
    <3>2. SegmentOf(r) /\ ChosenOf(r)' = ChosenOf(r)
      BY <1>2, <1>9, <3>1
    <3>3. LeftIn(Stats, r) = {}
      BY <1>1, NoneLeft
    <3>4. LeftIn(Stats', r) = {}
      <4>1. PICK q : q = Stats'
        OBVIOUS
      <4> QED
        BY <1>12, <2>2, <4>1, OthersLeft
    <3>5. Segment(FoundOf(r), ChosenOf(r)', LeftIn(Stats', r), CountsOf(r), RareOf(r), CoreTopN)
      BY <3>2, <3>3, <3>4 DEF SegmentOf
    <3> QED
      BY <1>1, <3>5, SegmentNow
  <2> QED
    BY <2>1, <2>2
<1> QED
  BY <1>14, <1>15, <1>16, <1>17 DEF ChoiceInv

LEMMA SortCoreKeeps == TypeOK /\ ChoiceInv /\ SortCore => ChoiceInv'
<1> SUFFICES ASSUME TypeOK, ChoiceInv, SortCore PROVE ChoiceInv'
  OBVIOUS
<1>1. /\ pc = "choose" /\ pc' = "done" /\ pending = << >> /\ Stats = << >>
      /\ pending' = << >> /\ Stats' = << >> /\ UNCHANGED <<options, counts>>
      /\ CoreChecks' \in Sorted(ToSet(CoreChecks), CoreBefore)
  BY DEF SortCore
<1>2. ToSet(CoreChecks') = ToSet(CoreChecks)
  <2>1. PICK q : q = CoreChecks'
    OBVIOUS
  <2> QED
    BY <1>1, <2>1, CoreSorted DEF TypeOK
<1>3. \A r \in Sanitizers : ChosenOf(r)' = ChosenOf(r)
  BY <1>2 DEF ChosenOf, Core
<1>4. PhaseInv' /\ StatsInv'
  BY <1>1 DEF PhaseInv, StatsInv
<1>5. PendingInv'
  <2>1. Len(<< >>) = 0 /\ ToSet(<< >>) = {}
    BY DEF ToSet
  <2> QED
    BY <1>1, <2>1 DEF PendingInv
<1>6. ASSUME NEW r \in Sanitizers PROVE SegmentOf(r)'
  <2>1. ToSet(pending) = {}
    BY <1>1 DEF ToSet
  <2>2. SegmentOf(r)
    BY <1>1, <2>1 DEF ChoiceInv
  <2>3. Segment(FoundOf(r), ChosenOf(r)', LeftIn(Stats', r), CountsOf(r), RareOf(r), CoreTopN)
    BY <1>1, <1>3, <2>2 DEF SegmentOf
  <2> QED
    BY <1>1, <2>3, SegmentNow
<1> QED
  BY <1>4, <1>5, <1>6 DEF ChoiceInv

LEMMA ChoiceNext == TypeOK /\ ChoiceInv /\ [Next]_vars => ChoiceInv'
<1> SUFFICES ASSUME TypeOK, ChoiceInv, [Next]_vars PROVE ChoiceInv'
  OBVIOUS
<1>1. ASSUME pc \in {"profile", "collect"}, pc' \in {"profile", "collect"}, UNCHANGED choice
      PROVE  ChoiceInv'
  <2>1. pending = << >> /\ Stats = << >> /\ CoreChecks = << >>
    BY <1>1 DEF ChoiceInv, PhaseInv
  <2>2. pending' = << >> /\ Stats' = << >> /\ CoreChecks' = << >>
    BY <1>1, <2>1 DEF choice
  <2> QED
    BY <1>1, <2>2, ChoiceIdle
<1>2. ASSUME NEW row \in RowsOf, ReadRow(row) PROVE ChoiceInv'
  BY <1>1, <1>2 DEF ReadRow
<1>3. CASE ProfileRead
  BY <1>1, <1>3 DEF ProfileRead
<1>4. ASSUME NEW name \in Names \cup {NoName}, CollectCall(name) PROVE ChoiceInv'
  BY <1>1, <1>4 DEF CollectCall
<1>5. ASSUME UNCHANGED vars PROVE ChoiceInv'
  <2>1. UNCHANGED <<pc, options, counts, pending, Stats, Added, CoreChecks>>
    BY <1>5 DEF vars, choice
  <2>2. \A r \in Sanitizers : ChosenOf(r)' = ChosenOf(r)
    BY <2>1 DEF ChosenOf, Core
  <2>3. ASSUME NEW r \in Sanitizers, SegmentOf(r) PROVE SegmentOf(r)'
    <3>1. Segment(FoundOf(r), ChosenOf(r)', LeftIn(Stats', r), CountsOf(r), RareOf(r), CoreTopN)
      BY <2>1, <2>2, <2>3 DEF SegmentOf
    <3> QED
      BY <2>1, <3>1, SegmentNow
  <2>4. PhaseInv'
    BY <2>1 DEF ChoiceInv, PhaseInv
  <2>5. PendingInv'
    <3>1. \A r \in ToSet(pending) : ChosenOf(r)' = ChosenOf(r)
      BY <2>2, PendingSanitizers
    <3> QED
      BY <2>1, <3>1 DEF ChoiceInv, PendingInv
  <2>6. StatsInv'
    <3>1. \A r \in Sanitizers : StatsOf(r)' = StatsOf(r)
      BY <2>1, SameCounts
    <3>2. \A r \in Sanitizers : StatsOrdered(Stats, r) => StatsOrdered(Stats, r)'
      BY <2>1, <3>1 DEF StatsOrdered
    <3> QED
      BY <2>1, <2>2, <3>2 DEF ChoiceInv, StatsInv
  <2> QED
    BY <2>1, <2>3, <2>4, <2>5, <2>6 DEF ChoiceInv
<1> QED
  BY <1>2, <1>3, <1>4, <1>5, CollectedKeeps, NextSanitizerKeeps, ChooseKeeps, SkipKeeps, BreakKeeps,
     SortCoreKeeps DEF Next, Return

LEMMA ChoiceStarts == Init => ChoiceInv
<1> SUFFICES ASSUME Init PROVE ChoiceInv
  OBVIOUS
<1>1. pc = "profile" /\ pending = << >> /\ Stats = << >> /\ CoreChecks = << >>
  BY DEF Init
<1>2. PendingInv
  <2>1. Len(<< >>) = 0 /\ ToSet(<< >>) = {}
    BY DEF ToSet
  <2> QED
    BY <1>1, <2>1 DEF PendingInv
<1> QED
  BY <1>1, <1>2 DEF ChoiceInv, PhaseInv, StatsInv

LEMMA ChoiceInvariance == Spec => []ChoiceInv
<1>1. Init => ChoiceInv
  BY ChoiceStarts
<1>2. TInv => TypeOK
  BY DEF TInv
<1> QED
  BY <1>1, <1>2, ChoiceNext, TypeInvariance, PTL DEF Spec

\* When the selection is over, no check type of any sanitizer is to come.
LEMMA AtTheEnd ==
    ASSUME ChoiceInv, pc = "done", NEW s \in Sanitizers
    PROVE  Segment(FoundOf(s), ChosenOf(s), {}, CountsOf(s), RareOf(s), CoreTopN)
<1>1. pending = << >> /\ Stats = << >>
  BY DEF ChoiceInv, PhaseInv
<1>2. ToSet(pending) = {} /\ LeftIn(Stats, s) = {}
  BY <1>1, NoneLeft DEF ToSet
<1> QED
  BY <1>2 DEF ChoiceInv, SegmentOf

(* The core is a top segment of the check types of each sanitizer.          *)
THEOREM CoreIsATopSegment == Spec => []CoreIsTopSegment
<1>1. ChoiceInv => CoreIsTopSegment
  <2> SUFFICES ASSUME ChoiceInv, pc = "done", NEW s \in Sanitizers PROVE TopSegment(s)
    BY DEF CoreIsTopSegment
  <2>1. Segment(FoundOf(s), ChosenOf(s), {}, CountsOf(s), RareOf(s), CoreTopN)
    BY AtTheEnd
  <2>2. /\ ChosenOf(s) \subseteq FoundOf(s) /\ FoundOf(s) \subseteq Stems
        /\ \A t \in ChosenOf(s), u \in FoundOf(s) \ ChosenOf(s) : CountsOf(s)[u] <= CountsOf(s)[t]
        /\ \A t \in ChosenOf(s) : t \in RareOf(s) => ChosenOf(s) = {t}
        /\ CoreTopN # 0 => Cardinality(ChosenOf(s)) <= CoreTopN
        /\ \A u \in FoundOf(s) \ ChosenOf(s) : u \in RareOf(s) \/ LimitUsedUp(s)
    BY <2>1 DEF Segment, FoundOf, LimitUsedUp
  <2>3. \A t \in Stems : CountsOf(s)[t] = CheckCounts[<<s, t>>]
    BY DEF CountsOf
  <2>4. \A t \in FoundOf(s) : t \in RareOf(s) <=> Rare(s, t)
    BY DEF RareOf
  <2>5. \A t \in ChosenOf(s), u \in FoundOf(s) \ ChosenOf(s) : CheckCounts[<<s, u>>] <= CheckCounts[<<s, t>>]
    <3> TAKE t \in ChosenOf(s), u \in FoundOf(s) \ ChosenOf(s)
    <3>1. t \in Stems /\ u \in Stems /\ CountsOf(s)[u] <= CountsOf(s)[t]
      BY <2>2
    <3> QED
      BY <2>3, <3>1
  <2>6. \A u \in FoundOf(s) \ ChosenOf(s) : Rare(s, u) \/ LimitUsedUp(s)
    BY <2>2, <2>4
  <2>7. \A t \in ChosenOf(s) : Rare(s, t) => ChosenOf(s) = {t}
    BY <2>2, <2>4
  <2> QED
    BY <2>2, <2>5, <2>6, <2>7 DEF TopSegment
<1> QED
  BY <1>1, ChoiceInvariance, PTL

(* Every sanitizer with a check has a core check: its total is not zero, so *)
(* one of the counts it is the sum of is not.                               *)
THEOREM EverySanitizerHasCore == Spec => []NoSanitizerForgotten
<1>1. TInv /\ TotalsAgree /\ ChoiceInv => NoSanitizerForgotten
  <2> SUFFICES ASSUME TypeOK, TotalsAgree, ChoiceInv, pc = "done",
                      NEW s \in Sanitizers, SanitizerTotals[s] > 0
               PROVE  ChosenOf(s) # {}
    BY DEF NoSanitizerForgotten, TInv
  <2>1. ChosenOf(s) = {} => FoundOf(s) = {}
    BY AtTheEnd DEF Segment
  <2>2. FoundOf(s) # {}
    <3> SUFFICES ASSUME FoundOf(s) = {} PROVE FALSE
      OBVIOUS
    <3>1. ASSUME NEW t \in Stems PROVE CountsOf(s)[t] = 0
      <4>1. <<s, t>> \in Keys /\ MaxCalls \in Nat
        BY CollectorAssumption DEF Keys
      <4>2. CheckCounts[<<s, t>>] \in 0..MaxCalls
        BY <4>1 DEF TypeOK, Keys
      <4>3. ~(CheckCounts[<<s, t>>] > 0)
        BY DEF FoundOf
      <4>4. CheckCounts[<<s, t>>] = 0
        BY <4>1, <4>2, <4>3
      <4> QED
        BY <4>4 DEF CountsOf
    <3>2. SumOver(CountsOf(s), Stems) = 0
      BY <3>1, FiniteKeys, SumZero
    <3>3. SanitizerTotals[s] = 0
      BY <3>2 DEF TotalsAgree, CountsOf
    <3> QED
      BY <3>3
  <2> QED
    BY <2>1, <2>2
<1> QED
  BY <1>1, AgreeInvariance, TypeInvariance, ChoiceInvariance, PTL
=============================================================================
