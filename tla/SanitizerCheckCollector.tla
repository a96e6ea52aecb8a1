---------------------- MODULE SanitizerCheckCollector ----------------------
(* SanitizerCheckCollector as DESANPass::run drives it: load the profile,   *)
(* count the sanitizer calls of all functions, then choose the core checks  *)
(* to which the elimination is confined.                                    *)
(*                                                                          *)
(* A callee name is a stem, its spelling on the platform (Mach-O adds an    *)
(* underscore) and nothing else.  Ratios are compared as exact fractions;   *)
(* the doubles of the code round, but not across the bound of a comparison  *)
(* for counts this small.                                                   *)
EXTENDS Integers, Sequences, SequencesExt, FiniteSets, Sums

CONSTANTS
    Stems,      \* canonical names of runtime functions, numbered in string order
    Kind,       \* the sanitizer whose check a stem is, or "Unknown"
    MaxCalls,   \* bound: call instructions in the module
    MaxRows,    \* bound: rows of the profile
    RowSanitizers, \* what the sanitizer field of a row is parsed to
    Costs,      \* numbers a row of the profile may hold
    TopNs,      \* values of -desan-core-top-n
    MinRatios,  \* values of -desan-core-min-ratio, in percent
    NoText,     \* a cost field that is not a number
    NaN,        \* strtod reads "nan", too
    NoName      \* an indirect call, or a callee without a name

Sanitizers == {"ASan", "UBSan", "MemSan"}

ASSUME CollectorAssumption ==
    /\ Stems \subseteq Nat
    /\ IsFiniteSet(Stems)
    /\ Kind \in [Stems -> Sanitizers \cup {"Unknown"}]
    /\ MaxCalls \in Nat /\ MaxRows \in Nat
    /\ RowSanitizers \subseteq Sanitizers \cup {"Unknown"}
    /\ Costs \subseteq Int
    /\ NaN \notin Int
    /\ TopNs \subseteq Nat /\ MinRatios \subseteq 0..100

VARIABLES
    pc,
    CoreTopN, CoreMinRatio,     \* the options of this run
    rows,                       \* rows of the profile read so far
    RuntimeCosts,               \* per sanitizer and stem
    TotalRuntimeCost,
    calls,                      \* call instructions seen so far
    CheckCounts,                \* per sanitizer and stem
    SanitizerTotals, TotalChecks,
    pending,                    \* sanitizers identifyCoreChecks has not done
    Stats, Added,               \* the sanitizer it is at: stats left, chosen
    CoreChecks                  \* its result so far

profile == <<rows, RuntimeCosts, TotalRuntimeCost>>
counts == <<calls, CheckCounts, SanitizerTotals, TotalChecks>>
choice == <<pending, Stats, Added, CoreChecks>>
options == <<CoreTopN, CoreMinRatio>>
vars == <<pc, options, profile, counts, choice>>

-----------------------------------------------------------------------------
(* Names *)

Names == [stem : Stems, prefixed : BOOLEAN]

canonicalCalleeName(n) == [n EXCEPT !.prefixed = FALSE]

\* The names are compared with their prefixes: ___asan_load is not __asan_load.
classifySanitizerName(n) == IF n.prefixed THEN "Unknown" ELSE Kind[n.stem]

-----------------------------------------------------------------------------
(* The profile.  A row has one, two (name, cost) or more (sanitizer, name,  *)
(* cost) fields; what the sanitizer field says need not fit the name.       *)

RowsOf ==
    [fields : {2, 3}, san : RowSanitizers, name : Names,
     cost : Costs \cup {NoText, NaN}]

ParsedSanitizer(row) ==
    IF row.fields = 2 THEN classifySanitizerName(canonicalCalleeName(row.name)) ELSE row.san

IsNegative(x) == x # NaN /\ x < 0

Plus(x, y) == IF x = NaN \/ y = NaN THEN NaN ELSE x + y

\* Mutant: negative costs are taken.
accepted_Negative(row) == row.cost # NoText /\ ParsedSanitizer(row) # "Unknown"

accepted(row) ==
    /\ row.cost # NoText
    /\ ParsedSanitizer(row) # "Unknown"
    /\ ~IsNegative(row.cost)

\* RuntimeRatio of a check type is shown: the total is a positive number.
HasRuntimeRatio == TotalRuntimeCost # NaN /\ TotalRuntimeCost > 0

-----------------------------------------------------------------------------
Init ==
    /\ pc = "profile"
    /\ CoreTopN \in TopNs
    /\ CoreMinRatio \in MinRatios
    /\ rows = 0
    /\ RuntimeCosts = [k \in Sanitizers \X Stems |-> 0]
    /\ TotalRuntimeCost = 0
    /\ calls = 0
    /\ CheckCounts = [k \in Sanitizers \X Stems |-> 0]
    /\ SanitizerTotals = [s \in Sanitizers |-> 0]
    /\ TotalChecks = 0
    /\ pending = << >>
    /\ Stats = << >>
    /\ Added = 0
    /\ CoreChecks = << >>

\* loadProfile, one line of the file.
ReadRow(row) ==
    /\ pc = "profile"
    /\ rows < MaxRows
    /\ rows' = rows + 1
    /\ LET k == <<ParsedSanitizer(row), row.name.stem>> IN
       IF accepted(row)
       THEN /\ RuntimeCosts' = [RuntimeCosts EXCEPT ![k] = Plus(@, row.cost)]
            /\ TotalRuntimeCost' = Plus(TotalRuntimeCost, row.cost)
       ELSE UNCHANGED <<RuntimeCosts, TotalRuntimeCost>>
    /\ UNCHANGED <<pc, options, counts, choice>>

\* The end of the file, a file that cannot be read, or none: the pass goes on.
ProfileRead ==
    /\ pc = "profile"
    /\ pc' = "collect"
    /\ UNCHANGED <<options, profile, counts, choice>>

\* Mutant: the grand total counts check types.
recordCheck_TotalOnce(san, stem) ==
    /\ CheckCounts' = [CheckCounts EXCEPT ![<<san, stem>>] = @ + 1]
    /\ SanitizerTotals' = [SanitizerTotals EXCEPT ![san] = @ + 1]
    /\ TotalChecks' = IF CheckCounts[<<san, stem>>] = 0 THEN TotalChecks + 1 ELSE TotalChecks

recordCheck(san, stem) ==
    /\ CheckCounts' = [CheckCounts EXCEPT ![<<san, stem>>] = @ + 1]
    /\ SanitizerTotals' = [SanitizerTotals EXCEPT ![san] = @ + 1]
    /\ TotalChecks' = TotalChecks + 1

\* collectChecks, one call instruction of a defined function.
CollectCall(name) ==
    /\ pc = "collect"
    /\ calls < MaxCalls
    /\ calls' = calls + 1
    /\ IF name # NoName /\ classifySanitizerName(canonicalCalleeName(name)) # "Unknown"
       THEN recordCheck(classifySanitizerName(canonicalCalleeName(name)), name.stem)
       ELSE UNCHANGED <<CheckCounts, SanitizerTotals, TotalChecks>>
    /\ UNCHANGED <<pc, options, profile, choice>>

Collected ==
    /\ pc = "collect"
    /\ pc' = "choose"
    /\ pending' = <<"ASan", "UBSan", "MemSan">>
    /\ UNCHANGED <<options, profile, counts, Stats, Added, CoreChecks>>

-----------------------------------------------------------------------------
(* identifyCoreChecks *)

Before(x, y) ==
    IF x.count # y.count THEN x.count > y.count ELSE x.stem < y.stem

\* The elements of S in the given order: one sequence if the order is total.
Sorted(S, before(_, _)) ==
    {q \in [1..Cardinality(S) -> S] :
        ToSet(q) = S /\ \A i, j \in DOMAIN q : i < j => before(q[i], q[j])}

FoundOf(san) == {t \in Stems : CheckCounts[<<san, t>>] > 0}

StatOf(san, t) == [san |-> san, stem |-> t, count |-> CheckCounts[<<san, t>>]]

StatsOf(san) == {StatOf(san, t) : t \in FoundOf(san)}

getStatsForSanitizer(san) == Sorted(StatsOf(san), Before)

NextSanitizer ==
    /\ pc = "choose"
    /\ pending # << >>
    /\ Stats = << >>
    /\ Stats' \in getStatsForSanitizer(Head(pending))
    /\ Added' = 0
    /\ pending' = Tail(pending)
    /\ UNCHANGED <<pc, options, profile, counts, CoreChecks>>

TooRare(stat) == 100 * stat.count < CoreMinRatio * SanitizerTotals[stat.san]

\* Mutant: the first check type has to pass the ratio, too.
skips_First(stat) == TooRare(stat)

skips(stat) == TooRare(stat) /\ Added > 0

\* Mutant: one more than the limit is chosen.
limitReached_Late == CoreTopN # 0 /\ Added > CoreTopN

limitReached == CoreTopN # 0 /\ Added >= CoreTopN

Choose ==
    /\ pc = "choose"
    /\ Stats # << >>
    /\ ~limitReached
    /\ ~skips(Head(Stats))
    /\ CoreChecks' = Append(CoreChecks, Head(Stats))
    /\ Added' = Added + 1
    /\ Stats' = Tail(Stats)
    /\ UNCHANGED <<pc, options, profile, counts, pending>>

Skip ==
    /\ pc = "choose"
    /\ Stats # << >>
    /\ ~limitReached
    /\ skips(Head(Stats))
    /\ Stats' = Tail(Stats)
    /\ UNCHANGED <<pc, options, profile, counts, pending, Added, CoreChecks>>

\* The break out of the loop.
Break ==
    /\ pc = "choose"
    /\ Stats # << >>
    /\ limitReached
    /\ Stats' = << >>
    /\ UNCHANGED <<pc, options, profile, counts, pending, Added, CoreChecks>>

\* sanitizerKindName, compared as strings.
NameRank(san) == CASE san = "ASan" -> 1 [] san = "MemSan" -> 2 [] san = "UBSan" -> 3

CoreBefore(x, y) ==
    IF x.count # y.count THEN x.count > y.count
    ELSE IF x.san # y.san THEN NameRank(x.san) < NameRank(y.san)
    ELSE x.stem < y.stem

\* The final sort; the pass keeps the result as CoreCheckSet.
SortCore ==
    /\ pc = "choose"
    /\ pending = << >> /\ Stats = << >>
    /\ CoreChecks' \in Sorted(ToSet(CoreChecks), CoreBefore)
    /\ pc' = "done"
    /\ UNCHANGED <<options, profile, counts, pending, Stats, Added>>

Return ==
    /\ pc = "done"
    /\ UNCHANGED vars

Next ==
    \/ \E row \in RowsOf : ReadRow(row)
    \/ ProfileRead
    \/ \E name \in Names \cup {NoName} : CollectCall(name)
    \/ Collected
    \/ NextSanitizer
    \/ Choose
    \/ Skip
    \/ Break
    \/ SortCore
    \/ Return

Spec == Init /\ [][Next]_vars

-----------------------------------------------------------------------------
StatType == [san : Sanitizers, stem : Stems, count : Nat]

(* The types of the state: costs that loadProfile accepts are never below   *)
(* zero, and no counter of recordCheck exceeds the number of calls.         *)
TypeOK ==
    /\ pc \in {"profile", "collect", "choose", "done"}
    /\ CoreTopN \in TopNs /\ CoreMinRatio \in MinRatios
    /\ rows \in 0..MaxRows /\ calls \in 0..MaxCalls
    /\ RuntimeCosts \in [Sanitizers \X Stems -> Nat \cup {NaN}]
    /\ TotalRuntimeCost \in Nat \cup {NaN}
    /\ CheckCounts \in [Sanitizers \X Stems -> 0..MaxCalls]
    /\ SanitizerTotals \in [Sanitizers -> 0..MaxCalls]
    /\ TotalChecks \in 0..MaxCalls
    /\ pending \in Seq(Sanitizers)
    /\ Stats \in Seq(StatType) /\ CoreChecks \in Seq(StatType)
    /\ Added \in Nat

Core == {<<c.san, c.stem>> : c \in ToSet(CoreChecks)}
Found == {k \in Sanitizers \X Stems : CheckCounts[k] > 0}

(* The three counters agree: the total of a sanitizer is the sum over its   *)
(* check types, and the grand total the sum over the sanitizers             *)
(* (recordCheck); the ratios of dumpCheckStatistics divide by them.         *)
TotalsAgree ==
    /\ \A s \in Sanitizers :
          SanitizerTotals[s] = SumOver([t \in Stems |-> CheckCounts[<<s, t>>]], Stems)
    /\ TotalChecks = SumOver(SanitizerTotals, Sanitizers)

ChosenOf(s) == {t \in Stems : <<s, t>> \in Core}
LimitUsedUp(s) == CoreTopN # 0 /\ Cardinality(ChosenOf(s)) >= CoreTopN
Rare(s, t) == TooRare(StatOf(s, t))

TopSegment(s) ==
    LET In == ChosenOf(s)
        Out == FoundOf(s) \ In
    IN  /\ \A t \in In, u \in Out : CheckCounts[<<s, u>>] <= CheckCounts[<<s, t>>]
        /\ CoreTopN # 0 => Cardinality(In) <= CoreTopN
        /\ \A u \in Out : Rare(s, u) \/ LimitUsedUp(s)
        /\ \A t \in In : Rare(s, t) => In = {t}

(* The chosen checks are a top segment: a check type that is left out is    *)
(* never more frequent than a chosen one of its sanitizer, at most CoreTopN *)
(* are chosen, one at or above the minimal ratio is left out only when the  *)
(* limit is used up, and one below it is chosen only if it is the only one. *)
CoreIsTopSegment ==
    pc = "done" => \A s \in Sanitizers : TopSegment(s)

(* Every sanitizer with a check in the module has a core check.  The users  *)
(* of the core set take an empty one for "all checks are core"              *)
(* (CheckGraphBuilder::isCoreCheck), which is right only since it is empty  *)
(* for modules without checks alone.                                        *)
NoSanitizerForgotten ==
    pc = "done" => \A s \in Sanitizers :
        SanitizerTotals[s] > 0 => ChosenOf(s) # {}

(* The runtime shares of the check types in the module never add up to more *)
(* than the whole, whatever the rows of the profile say (unknown names,     *)
(* sanitizers that do not fit, repeated, negative or unreadable costs).     *)
SharesBounded ==
    HasRuntimeRatio =>
        /\ \A k \in Found : RuntimeCosts[k] \in 0..TotalRuntimeCost
        /\ SumOver(RuntimeCosts, Found) <= TotalRuntimeCost

=============================================================================
