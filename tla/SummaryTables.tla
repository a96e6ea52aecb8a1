---------------------------- MODULE SummaryTables ----------------------------
(* The summary scripts at work on one benchmark: spec_asan_summary.py and   *)
(* opensource_summary.py for DESAN, spec_asanmm_summary.py and              *)
(* opensource_asanmm_summary.py for ASAN--, spec_sanrazor_summary.py for    *)
(* SanRazor.  A script reads the compile records, each with the log of its  *)
(* unit, or SanRazor's own numbers, then the times, and writes a row of its *)
(* table.                                                                   *)
(*                                                                          *)
(* The records and logs are the ones the compiler wrapper leaves            *)
(* (spec_desan_common.sh): those of a pass that was stopped end anywhere.   *)
(* SPEC's csv files are read in the order in which glob gives them.         *)
EXTENDS SummaryScripts

CONSTANTS
    Modules,        \* what the units contain: functions from CheckTypes to numbers
    CheckFiles,     \* SanRazor's files: sequences of [original, remaining]
    MaxUnits,       \* bound: records in a file
    MaxRows,        \* bound: rows of times of a variant
    Times           \* run times

ASSUME SummaryAssumption ==
    /\ \A c \in Modules : DOMAIN c = CheckTypes /\ \A t \in CheckTypes : c[t] \in Nat
    /\ MaxUnits \in Nat /\ MaxRows \in Nat
    /\ Times \subseteq Nat /\ None \notin Times
    /\ \A f \in CheckFiles : \A i \in DOMAIN f : DOMAIN f[i] = {"original", "remaining"}

VARIABLES
    script,     \* the script that runs
    stage,      \* "base", "records", "times", "written" or "raised"
    units,      \* records read of the present file
    counts,     \* the row of the benchmark, of ASan's records and of the tool's
    result,     \* the time and status of a variant; open source: its runs
    row,        \* the row that was written, or None
    inserted,   \* history: checks in the units that count, per file
    selected,   \* history: SPEC's selected run, or None
    rows        \* history: rows of times read

vars == <<script, stage, units, counts, result, row, inserted, selected, rows>>

DesanScripts == {"spec_asan", "opensource"}
AsanmmScripts == {"spec_asanmm", "opensource_asanmm"}
SanRazorScripts == {"spec_sanrazor"}
OpenSource == {"opensource", "opensource_asanmm"}

Zero == [compile_units |-> 0, fallback_units |-> 0, total |-> 0, core |-> 0, removed |-> 0,
         read |-> 0, write |-> 0, remaining |-> 0]

Files == {"base", "records"}

Init ==
    /\ script \in DesanScripts \cup AsanmmScripts \cup SanRazorScripts
    /\ stage = IF script \in AsanmmScripts THEN "base" ELSE "records"
    /\ units = 0
    /\ counts = [f \in Files |-> Zero]
    /\ result = IF script \in OpenSource THEN << >> ELSE None
    /\ row = None
    /\ inserted = [f \in Files |-> 0]
    /\ selected = None
    /\ rows = 0

-----------------------------------------------------------------------------
(* The records *)

\* The logs of a unit, by the status of its record.  The scripts treat a unit
\* that could not be lowered like one that could not be compiled to IR.
DesanLogs(c, status) ==
    CASE status = "pass" -> {PassLog(c, n) : n \in {0, Sum(c, CheckTypes)}}
      [] status = "pass-fallback" -> Stopped(PassLog(c, Sum(c, CheckTypes)))
      [] status = "ir-compile-fallback" -> {<< >>}

DesanStatuses == {"pass", "pass-fallback", "ir-compile-fallback"}

DirectLogs(c, status) ==
    IF status = "direct-ir" THEN Stopped(CountLog(c, "asan")) ELSE {<< >>}

DirectStatuses == {"direct-ir", "direct-ir-fallback"}

\* parse_records for DESAN: a pass that was not used removed nothing.
DesanRecord(k, status, log) ==
    LET p == parse_pass_log(log, DEFAULT_CORE_PREFIXES)
        counted == [k EXCEPT !.compile_units = @ + 1, !.total = @ + p.total, !.core = @ + p.core]
    IN  CASE status = "pass" -> [counted EXCEPT !.removed = @ + p.removed]
          [] status = "pass-fallback" -> [counted EXCEPT !.fallback_units = @ + 1]
          [] OTHER -> [k EXCEPT !.compile_units = @ + 1, !.fallback_units = @ + 1]

\* parse_records for ASAN--.
AsanmmRecord(k, status, log) ==
    LET p == parse_check_log(log)
    IN  [k EXCEPT !.compile_units = @ + 1,
                  !.fallback_units = IF p.named \/ status = "direct-ir" THEN @ ELSE @ + 1,
                  !.total = @ + p.total,
                  !.core = @ + sum_prefix(p.counts, DEFAULT_CORE_PREFIXES),
                  !.read = @ + sum_prefix(p.counts, READ_PREFIXES),
                  !.write = @ + sum_prefix(p.counts, WRITE_PREFIXES)]

\* The lines whose missing number a script survives.
Expected == IF script = "opensource" THEN {} ELSE {"total", "removed"}

ReadRecord ==
    /\ stage \in Files /\ script \notin SanRazorScripts
    /\ units < MaxUnits
    /\ units' = units + 1
    /\ \E c \in Modules :
          \E status \in IF script \in DesanScripts THEN DesanStatuses ELSE DirectStatuses :
             \E log \in IF script \in DesanScripts THEN DesanLogs(c, status) ELSE DirectLogs(c, status) :
                IF Raises(log, Expected)
                THEN stage' = "raised" /\ UNCHANGED <<counts, inserted>>
                ELSE /\ counts' = [counts EXCEPT ![stage] =
                                      IF script \in DesanScripts THEN DesanRecord(@, status, log)
                                      ELSE AsanmmRecord(@, status, log)]
                     /\ inserted' = [inserted EXCEPT ![stage] = @ + Sum(c, CheckTypes)]
                     /\ UNCHANGED stage
    /\ UNCHANGED <<script, result, row, selected, rows>>

\* A row of a header that was written twice is none of the benchmark's: the
\* SPEC scripts know its words, the others its benchmark's name is wrong for.
SkipHeader ==
    /\ stage \in Files /\ script \notin SanRazorScripts
    /\ units < MaxUnits
    /\ units' = units + 1
    /\ UNCHANGED <<script, stage, counts, result, row, inserted, selected, rows>>

\* parse_checks: the files of a benchmark are added up.
ReadCheckFile ==
    /\ stage \in Files /\ script \in SanRazorScripts
    /\ units < MaxUnits
    /\ units' = units + 1
    /\ \E file \in CheckFiles :
          LET n == parse_check_file(file)
          IN  /\ counts' = [counts EXCEPT ![stage].total = @ + n.original, ![stage].remaining = @ + n.remaining]
              /\ inserted' = [inserted EXCEPT ![stage] = @ + n.original]
    /\ UNCHANGED <<script, stage, result, row, selected, rows>>

NextFile ==
    /\ stage \in Files
    /\ stage' = IF stage = "base" THEN "records" ELSE "times"
    /\ units' = 0
    /\ UNCHANGED <<script, counts, result, row, inserted, selected, rows>>

-----------------------------------------------------------------------------
(* The times of a variant *)

SpecRows == [time : Times \cup {None}, status : {"S", "RE", ""}, selected : BOOLEAN]

\* parse_runtime_csv of the SPEC scripts.  SPEC selects at most one run.
ReadSpecRow ==
    /\ stage = "times" /\ script \notin OpenSource \cup SanRazorScripts
    /\ rows < MaxRows
    /\ rows' = rows + 1
    /\ \E r \in SpecRows :
          /\ r.selected => selected = None
          /\ result' = RuntimeRow(result, r)
          /\ selected' = IF r.selected THEN r ELSE selected
    /\ UNCHANGED <<script, stage, units, counts, row, inserted>>

\* The driver for SanRazor gives raw results; the runs of a benchmark are in
\* one file, and SPEC selects one of them at most.
ReadRsf ==
    /\ stage = "times" /\ script \in SanRazorScripts
    /\ rows = 0
    /\ \E file \in BoundedSeq(SpecRows, MaxRows) :
          /\ \A i, j \in DOMAIN file : file[i].selected /\ file[j].selected => i = j
          /\ rows' = Len(file)
          /\ result' = parse_runtime_rsf(result, file)
          /\ selected' = FoldLeft(LAMBDA old, r : IF r.selected THEN r ELSE old, selected, file)
    /\ UNCHANGED <<script, stage, units, counts, row, inserted>>

\* parse_runtime_csv of the open-source scripts; run_runtime has written a
\* time with every status but NR.
ReadRun ==
    /\ stage = "times" /\ script \in OpenSource
    /\ rows < MaxRows
    /\ rows' = rows + 1
    /\ \E r \in [time : Times, status : {"S", "RE"}] \cup {NotRun} : result' = Append(result, r)
    /\ UNCHANGED <<script, stage, units, counts, row, inserted, selected>>

\* main: the row.  The SPEC scripts leave out a benchmark they know nothing
\* of.
Time == IF script \in OpenSource THEN summarize_runtime(result)
        ELSE IF result = None THEN NotRun ELSE result

\* main of the scripts for DESAN.
DesanRow ==
    LET c == counts["records"]
    IN  [original |-> c.total, core |-> c.core, removed |-> c.removed, time |-> Time]

\* main of the scripts for ASAN--: what the other compiler no longer inserts.
AsanmmRow ==
    LET b == counts["base"]
        a == counts["records"]
    IN  [original |-> b.total, core |-> b.core, removed |-> b.total - a.total,
         read_removed |-> b.read - a.read, write_removed |-> b.write - a.write,
         core_after |-> a.core, time |-> Time]

\* main of the script for SanRazor.
SanRazorRow ==
    LET c == counts["records"]
    IN  [original |-> c.total, removed |-> Max({0, c.total - c.remaining}), time |-> Time]

WriteRow ==
    /\ stage = "times"
    /\ stage' = "written"
    /\ row' = IF script = "spec_asan" /\ counts["records"].compile_units = 0 /\ Time.status = "NR"
              THEN None
              ELSE CASE script \in DesanScripts -> DesanRow
                     [] script \in AsanmmScripts -> AsanmmRow
                     [] script \in SanRazorScripts -> SanRazorRow
    /\ UNCHANGED <<script, units, counts, result, inserted, selected, rows>>

Next ==
    \/ ReadRecord \/ SkipHeader \/ ReadCheckFile \/ NextFile
    \/ ReadSpecRow \/ ReadRsf \/ ReadRun \/ WriteRow

Spec == Init /\ [][Next]_vars

-----------------------------------------------------------------------------
(* Properties *)

\* Wherever the logs of stopped passes end, the counts of a table fit
\* together and never exceed what the units contained: core checks are part
\* of the original ones, so are the removed ones (a pass that fell back
\* removed nothing), and every core check ASAN-- saves is a read or a write.
CountsWithinTotal ==
    /\ \A f \in Files :
          LET c == counts[f]
          IN  /\ c.core <= c.total /\ c.total <= inserted[f]
              /\ c.removed <= c.total
              /\ c.fallback_units <= c.compile_units
              /\ script \in AsanmmScripts => c.read + c.write = c.core
    /\ row # None /\ script \notin AsanmmScripts => row.removed <= row.original
    /\ row # None /\ script \in AsanmmScripts =>
          row.read_removed + row.write_removed = row.core - row.core_after

\* In whatever order the files and their rows are read, the time of a variant
\* is that of the run SPEC selected, when it has one; of the runs of an
\* open-source project only those that succeeded count.
RuntimeIsSelected ==
    IF script \in OpenSource
    THEN LET good == {result[i].time : i \in {j \in DOMAIN result : result[j].status = "S"}}
         IN  /\ Time.status = "S" <=> good # {}
             /\ good # {} => /\ Min(good) * Time.time[2] <= Time.time[1]
                            /\ Time.time[1] <= Max(good) * Time.time[2]
    ELSE selected # None /\ selected.time # None =>
            /\ result.time = selected.time
            /\ selected.status # "" => result.status = selected.status

=============================================================================
