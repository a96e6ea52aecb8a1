-------------------------- MODULE PublishedResults --------------------------
(* The table of all results (collect_all_results.py) over a directory in    *)
(* which configurations are run again meanwhile.                            *)
(*                                                                          *)
(* A rerun removes the summary of its configuration, runs and writes a new  *)
(* one, or fails and leaves none; the collector lists the summaries, opens  *)
(* one after the other and writes the table when it has read them all.  The *)
(* row of a summary is [native, before, after, original]; a summary of SPEC *)
(* stands here for one of its benchmarks.                                   *)
EXTENDS SummaryScripts, Functions

CONSTANTS
    Paths,              \* the summaries in sorted order: [stem, suite, benchmark, sanitizer]
    Outcomes,           \* the rows a run can end with
    ExcludedBenchmarks, \* EXCLUDED_BENCHMARKS
    MaxReruns,          \* bound: reruns of all configurations
    Empty               \* a summary that is open and not written yet

ASSUME PublishedAssumption ==
    /\ MaxReruns \in Nat
    /\ None # Empty
    /\ Outcomes \cap {None, Empty} = {}
    /\ Paths \in Seq(Range(Paths)) /\ IsInjective(Paths)
    /\ None \notin Nat \cup (Int \X Int) /\ None # {}
    /\ \A o \in Outcomes : \A v \in {"native", "before", "after"} :
          o[v].status = "S" => o[v].time \in Nat \ {0}

Files == Range(Paths)

VARIABLES
    summary,    \* [Files -> Outcomes, Empty or None]
    reruns,     \* reruns started
    running,    \* configurations that run
    todo,       \* positions in Paths of the summaries listed and not read, or None
                \* when no collector runs
    rows,       \* rows the collector has kept
    published,  \* rows of the table, or None
    moved       \* history: summaries that changed since they were listed

vars == <<summary, reruns, running, todo, rows, published, moved>>

Init ==
    /\ summary \in [Files -> Outcomes \cup {None}]
    /\ reruns = 0
    /\ running = {}
    /\ todo = None
    /\ rows = {}
    /\ published = None
    /\ moved = {}

-----------------------------------------------------------------------------
(* The filters, over sets of rows [file, data], one for a file *)

result_group(f) ==
    CASE f.stem \in {"spec-cpu2006", "spec-cpu2017", "openssl", "git"} -> f.stem
      [] f.stem \notin {"spec-cpu2006", "spec-cpu2017", "openssl", "git"} /\ f.suite = "OpenSource" -> "opensource"
      [] OTHER -> f.suite

project_key(r) == <<result_group(r.file), r.file.benchmark>>

\* Mutant: the status of the program under test is not looked at.
is_successful_runtime_BaseOnly(d) == \A s \in {d.native, d.before} : s.status = "S"

is_successful_runtime(d) == \A s \in {d.native, d.before, d.after} : s.status = "S"

has_inserted_checks(d) == d.original > 0

is_excluded_project(f) == f.benchmark \in ExcludedBenchmarks

has_negative_overhead_reduction(d) == Negative(overhead_reduction(d.native, d.before, d.after))

Without(rs, projects) == {r \in rs : project_key(r) \notin projects}

\* Rows of a project in which DESAN made the overhead worse.
Worse(rs, p) == {r \in rs : project_key(r) = p /\ has_negative_overhead_reduction(r.data)}

\* Mutant: off by one.
multiple_negative_reductions_Three(rs) ==
    Without(rs, {p \in {project_key(r) : r \in rs} : Cardinality(Worse(rs, p)) > 2})

\* filter_projects_with_multiple_negative_reductions
multiple_negative_reductions(rs) ==
    Without(rs, {p \in {project_key(r) : r \in rs} : Cardinality(Worse(rs, p)) >= 2})

SanitizersOf(rs, p) == {r.file.sanitizer : r \in {q \in rs : project_key(q) = p}}

\* filter_projects_with_single_sanitizer
single_sanitizer(rs) ==
    Without(rs, {p \in {project_key(r) : r \in rs} : Cardinality(SanitizersOf(rs, p)) = 1})

Kept(f, d) == ~is_excluded_project(f) /\ is_successful_runtime(d) /\ has_inserted_checks(d)

-----------------------------------------------------------------------------
(* The runs *)

Touch(f) == moved' = IF todo = None THEN moved ELSE moved \cup {f}

\* run_one of the batch script: the old summary goes before the run.
RemoveSummary(f) ==
    /\ reruns < MaxReruns /\ f \notin running
    /\ reruns' = reruns + 1
    /\ running' = running \cup {f}
    /\ summary' = [summary EXCEPT ![f] = None]
    /\ Touch(f)
    /\ UNCHANGED <<todo, rows, published>>

\* A build or a run fails, or the script that sums them up.
RunFails(f) ==
    /\ f \in running /\ summary[f] = None
    /\ running' = running \ {f}
    /\ UNCHANGED <<summary, reruns, todo, rows, published, moved>>

\* The summary script opens the file and writes it when it ends.
OpenSummary(f) ==
    /\ f \in running /\ summary[f] = None
    /\ summary' = [summary EXCEPT ![f] = Empty]
    /\ Touch(f)
    /\ UNCHANGED <<reruns, running, todo, rows, published>>

WriteSummary(f) ==
    /\ f \in running /\ summary[f] = Empty
    /\ running' = running \ {f}
    /\ \E o \in Outcomes : summary' = [summary EXCEPT ![f] = o]
    /\ Touch(f)
    /\ UNCHANGED <<reruns, todo, rows, published>>

-----------------------------------------------------------------------------
(* The collector *)

ListSummaries ==
    /\ todo = None
    /\ todo' = {n \in DOMAIN Paths : summary[Paths[n]] # None}
    /\ rows' = {}
    /\ moved' = {}
    /\ UNCHANGED <<summary, reruns, running, published>>

\* The body of the loop: a summary that is gone ends the script, one that is
\* not written yet has no row.
ReadSummary ==
    /\ todo \notin {None, {}}
    /\ LET n == Min(todo)
           f == Paths[n]
           d == summary[f]
       IN  IF d = None
           THEN todo' = None /\ UNCHANGED rows
           ELSE /\ todo' = todo \ {n}
                /\ rows' = IF d # Empty /\ Kept(f, d) THEN rows \cup {[file |-> f, data |-> d]} ELSE rows
    /\ UNCHANGED <<summary, reruns, running, published, moved>>

\* The rest of main; the order of the rows of the table is not modelled.
WriteTable ==
    /\ todo = {}
    /\ todo' = None
    /\ published' = single_sanitizer(multiple_negative_reductions(rows))
    /\ UNCHANGED <<summary, reruns, running, rows, moved>>

Next ==
    \/ \E f \in Files : RemoveSummary(f) \/ RunFails(f) \/ OpenSummary(f) \/ WriteSummary(f)
    \/ ListSummaries \/ ReadSummary \/ WriteTable

Spec == Init /\ [][Next]_vars

-----------------------------------------------------------------------------
(* Properties *)

\* Whatever is run again during a collection, a published project has
\* results of two sanitizers at least, and DESAN's program took longer than
\* the sanitizer's, which took longer than the native one, under one of them
\* at most.
PublishedHoldsUp ==
    published # None =>
        \A r \in published :
            LET project == {q \in published : project_key(q) = project_key(r)}
                slower == {q \in project : /\ q.data.after.time > q.data.before.time
                                           /\ q.data.before.time > q.data.native.time}
            IN  /\ Cardinality({q.file.sanitizer : q \in project}) >= 2
                /\ Cardinality(slower) <= 1

\* The runs of project k that ended well, as the summaries have them, and
\* those in which DESAN did not reduce the overhead.
Own(k) == {f \in Files : project_key([file |-> f]) = k}
Ran(k) ==
    {f \in Own(k) : /\ summary[f] \notin {None, Empty}
                    /\ \A v \in {"native", "before", "after"} : summary[f][v].status = "S"
                    /\ summary[f].original > 0}
Lost(k) ==
    {f \in Ran(k) : LET d == summary[f] IN
        \/ d.after.time > d.before.time /\ d.before.time > d.native.time
        \/ d.after.time < d.before.time /\ d.before.time < d.native.time}

\* A table agrees with the summaries on every project whose runs are at rest
\* during the collection, whatever happens to the files of others: it has
\* all rows of the project that ran to the end with checks, or none, and none
\* only for an excluded project, one with such rows of fewer than two
\* sanitizers, or one with two in which DESAN did not reduce the overhead.
PublishedIsCurrent ==
    [][published' # published =>
          \A k \in {project_key([file |-> f]) : f \in Files} :
             LET shown == {r \in published' : r.file \in Own(k)}
             IN  Own(k) \cap moved = {} =>
                    \/ shown = {[file |-> f, data |-> summary[f]] : f \in Ran(k)}
                    \/ /\ shown = {}
                       /\ \/ k[2] \in ExcludedBenchmarks
                          \/ Cardinality({f.sanitizer : f \in Ran(k)}) < 2
                          \/ Cardinality(Lost(k)) >= 2]_vars

=============================================================================
