--------------------------- MODULE SummaryScripts ---------------------------
(* What the summary scripts compute: the check counts of a log, the time    *)
(* and status of a variant, and the overheads of a configuration            *)
(* (spec_asan_summary.py, opensource_summary.py, spec_asanmm_summary.py,    *)
(* opensource_asanmm_summary.py, spec_sanrazor_summary.py,                  *)
(* count_sanitizer_checks.py).                                              *)
(*                                                                          *)
(* A log is the sequence of the lines the scripts look at, each with the    *)
(* name or the number behind its colon; None where the writer was stopped   *)
(* before it.  Check types stand for the runtime functions they are named   *)
(* after.                                                                   *)
EXTENDS Integers, Sequences, SequencesExt, FiniteSetsExt

CONSTANT None

-----------------------------------------------------------------------------
(* The writers of the logs *)

SanitizerOf == [load |-> "asan", store |-> "asan", memcpy |-> "asan", mismatch |-> "ubsan"]
CheckTypes == DOMAIN SanitizerOf

READ_PREFIXES == {"load"}
WRITE_PREFIXES == {"store"}
DEFAULT_CORE_PREFIXES == READ_PREFIXES \cup WRITE_PREFIXES

\* The checks of a module, per type.
Sum(checks, T) == MapThenSumSet(LAMBDA t : checks[t], T)

Line(key, val) == [key |-> key, val |-> val]

TypeLines(checks, T) ==
    FlattenSeq([i \in 1..Cardinality(T) |->
        LET t == SetToSeq(T)[i] IN <<Line("type", t), Line("count", checks[t])>>])

Present(checks, s) == {t \in CheckTypes : SanitizerOf[t] = s /\ checks[t] > 0}

\* dumpCheckStatistics prints the number of all checks, then every sanitizer
\* with its own; the eliminator's number is the last line of the pass.
PassLog(checks, removed) ==
    <<Line("total", Sum(checks, CheckTypes))>>
    \o FlattenSeq([i \in 1..2 |->
           LET s == <<"asan", "ubsan">>[i]
           IN  <<Line("total", Sum(checks, Present(checks, s)))>> \o TypeLines(checks, Present(checks, s))])
    \o <<Line("removed", removed)>>

normalize_kind(kind) ==
    CASE kind = "address" -> "asan" [] kind = "undefined" -> "ubsan" [] kind = "memory" -> "msan"
      [] OTHER -> kind

\* The types whose names begin with the prefix of the sanitizer.
WithPrefix(kind) ==
    {t \in CheckTypes : kind \in {"asan", "ubsan", "msan"} => SanitizerOf[t] = kind}

\* count_sanitizer_checks.py prints one number of all checks of the sanitizer.
CountLog(checks, sanitizer) ==
    LET T == {t \in WithPrefix(normalize_kind(sanitizer)) : checks[t] > 0}
    IN  <<Line("total", Sum(checks, T))>> \o TypeLines(checks, T)

\* What is left of a line's value when the writer is stopped in it: nothing,
\* or the leading digits of the number.
CutValues(l) ==
    {None} \cup IF l.key # "type" /\ l.val >= 10 THEN {l.val \div 10} ELSE {}

\* All that the writer of a log can leave when it is stopped.
Stopped(log) ==
    {SubSeq(log, 1, i) : i \in 0..Len(log)} \cup
    UNION {{Append(SubSeq(log, 1, i - 1), [log[i] EXCEPT !.val = v]) : v \in CutValues(log[i])} :
              i \in DOMAIN log}

-----------------------------------------------------------------------------
(* The readers *)

Number(l) == IF l.val = None THEN 0 ELSE l.val

\* Mutant: the last total stands, as in the scripts for ASAN--.
PassLine_LastTotal(s, l, core) ==
    CASE l.key = "total" -> [s EXCEPT !.total = Number(l)]
      [] l.key = "type" -> [s EXCEPT !.type = l.val]
      [] l.key = "count" /\ s.type # None ->
            [s EXCEPT !.core = IF s.type \in core THEN @ + Number(l) ELSE @, !.type = None]
      [] l.key = "removed" -> [s EXCEPT !.removed = Number(l)]
      [] OTHER -> s

\* The first total is that of all sanitizers; a count belongs to the type
\* before it.
PassLine(s, l, core) ==
    CASE l.key = "total" /\ ~s.saw -> [s EXCEPT !.total = Number(l), !.saw = TRUE]
      [] l.key = "type" -> [s EXCEPT !.type = l.val]
      [] l.key = "count" /\ s.type # None ->
            [s EXCEPT !.core = IF s.type \in core THEN @ + Number(l) ELSE @, !.type = None]
      [] l.key = "removed" -> [s EXCEPT !.removed = Number(l)]
      [] OTHER -> s

\* parse_pass_log; a log that is missing reads as an empty one.
parse_pass_log(log, core) ==
    FoldLeft(LAMBDA s, l : PassLine(s, l, core),
             [total |-> 0, core |-> 0, removed |-> 0, type |-> None, saw |-> FALSE], log)

\* A number that is not there raises: "Count:" has no second word, which no
\* script expects; the other lines have one that is no number, which only
\* opensource_summary.py does not expect.
Raises(log, expected) ==
    /\ log # << >>
    /\ Last(log).val = None
    /\ Last(log).key \notin expected \cup {"type"}
    /\ Last(log).key = "total" => \A i \in 1..(Len(log) - 1) : log[i].key # "total"

CheckLine(s, l) ==
    CASE l.key = "total" -> [s EXCEPT !.total = Number(l)]
      [] l.key = "type" -> [s EXCEPT !.type = l.val]
      [] l.key = "count" /\ s.type # None ->
            [s EXCEPT !.counts[s.type] = @ + Number(l), !.named = TRUE, !.type = None]
      [] OTHER -> s

\* parse_check_log of the scripts for ASAN--: the counts stand in for a total
\* that is zero or could not be read.
parse_check_log(log) ==
    LET s == FoldLeft(CheckLine, [total |-> 0, counts |-> [t \in CheckTypes |-> 0],
                                  named |-> FALSE, type |-> None], log)
    IN  [s EXCEPT !.total = IF @ = 0 THEN Sum(s.counts, CheckTypes) ELSE @]

sum_prefix(counts, prefixes) == Sum(counts, prefixes)

-----------------------------------------------------------------------------
(* Times and overheads.  A result is [time, status]. *)

NotRun == [time |-> None, status |-> "NR"]

\* Mutant: the selection of SPEC is not looked at.
Takes_FirstTimed(old, row) == old = None \/ (old.time = None /\ row.time # None)

\* parse_runtime_csv of the SPEC scripts: whether a row replaces the one the
\* benchmark has.
Takes(old, row) == old = None \/ (old.time = None /\ row.time # None) \/ row.selected

RuntimeRow(old, row) ==
    IF Takes(old, row)
    THEN [time |-> row.time, status |-> IF row.status = "" THEN "NR" ELSE row.status]
    ELSE old

\* parse_runtime_rsf: a file of SPEC's raw results is read by itself and then
\* overrides what the files before it said of the benchmark.
parse_runtime_rsf(old, file) ==
    LET new == FoldLeft(RuntimeRow, None, file) IN IF new = None THEN old ELSE new

\* parse_check_file: SanRazor writes two lines for a unit, whose first has its
\* numbers, and repeats those of a unit that is compiled again.
parse_check_file(lines) ==
    LET units == {lines[i] : i \in {j \in DOMAIN lines : j % 2 = 1 /\ lines[j].original # None}}
    IN  [original |-> MapThenSumSet(LAMBDA l : l.original, units),
         remaining |-> MapThenSumSet(LAMBDA l : l.remaining, units)]

\* summarize_runtime of the open-source scripts: the mean, as a fraction, of
\* the runs that succeeded.
summarize_runtime(runs) ==
    LET good == SelectSeq(runs, LAMBDA r : r.status = "S" /\ r.time # None)
    IN  IF good = << >> THEN NotRun
        ELSE [time |-> <<FoldLeft(LAMBDA a, r : a + r.time, 0, good), Len(good)>>, status |-> "S"]

\* compute_overhead_metrics: the share of the sanitizer's overhead that is
\* gone, as numerator and denominator.
overhead_reduction(native, before, after) ==
    IF /\ native.status = "S" /\ before.status = "S" /\ after.status = "S"
       /\ None \notin {native.time, before.time, after.time}
       /\ native.time > 0 /\ before.time # native.time
    THEN <<before.time - after.time, before.time - native.time>>
    ELSE None

\* The sign of a fraction whose denominator may be negative.
Negative(q) == q # None /\ q[1] * q[2] < 0

=============================================================================
