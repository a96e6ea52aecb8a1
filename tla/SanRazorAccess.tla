--------------------------- MODULE SanRazorAccess ---------------------------
(* The checks SanRazor disabled: sanrazor_removed_access_summary.py counts  *)
(* them in the transformed bitcode with a pool of threads, and              *)
(* apply_sanrazor_detected_disabled_counts.py writes them over SanRazor's   *)
(* own numbers in the summary of a level (spec_sanrazor_summary.py).        *)
(*                                                                          *)
(* A module of bitcode is the sequence of its blocks, [fn, label, lines];   *)
(* the label of a block that has no name is Missing.  Of the lines the      *)
(* scripts look at branches SanRazor made constant, [op |-> "br", to |->    *)
(* the successor that is never taken], and calls of UBSan's handlers,       *)
(* [op |-> "call", callee, kind |-> the TypeCheckKind of its data].         *)
(*                                                                          *)
(* The names differ from those of PublishedResults: the proofs are about    *)
(* both.                                                                    *)
EXTENDS Integers, Sequences, SequencesExt, FiniteSets, FiniteSetsExt, Sums, TLC

CONSTANTS
    Levels,         \* the levels on the command line, a sequence
    Bitcode,        \* the .sr.bc files: [level, benchmark, name, ir]
    Benchmarks,
    LevelSummaries, \* what the summary of a level can hold: [original, removed] per benchmark,
                    \* a set for every level
    MaxWorkers,     \* --jobs
    Missing,        \* Python's None
    Cut             \* a file that ends in the middle

TaskStates == {"queued", "running", "done", "failed", "taken"}

\* The rows of a summary that was rewritten.
RewrittenRows ==
    [original : Nat, reported : Nat, removed : Nat, remaining : Nat,
     read : Nat, write : Nat, unknown : Nat]

ASSUME SanRazorAssumption ==
    /\ MaxWorkers \in Nat \ {0}
    /\ IsFiniteSet(Bitcode)
    /\ \A b \in Bitcode : b.level \in Range(Levels) /\ b.benchmark \in Benchmarks
    /\ Benchmarks \subseteq Nat /\ IsFiniteSet(Benchmarks)
    /\ \A l \in Range(Levels) : \A s \in LevelSummaries[l] :
          /\ s # Missing /\ DOMAIN s \subseteq Benchmarks
          /\ \A x \in DOMAIN s : s[x].original \in Nat /\ s[x].removed \in 0..s[x].original
    /\ Missing \notin [Bitcode -> TaskStates]
    /\ \A D \in SUBSET Benchmarks : Cut \notin [D -> RewrittenRows]

VARIABLES
    levelSummary,   \* [level -> its summary, or Missing]
    given,          \* the summaries the access script was given, by level, or Missing
    task,           \* [Bitcode -> TaskStates], or Missing: no script runs
    raised,         \* whether a result raised
    aggregated,     \* counts by <<level, benchmark>>
    access,         \* the table of the access script by <<level, benchmark>>, or Missing
    total,          \* its TOTAL rows by level
    used,           \* history: the summaries the table was made with
    rewritten       \* [level -> the rewritten summary, Cut or Missing]

accessVars == <<levelSummary, given, task, raised, aggregated, access, total, used, rewritten>>

LevelSet == Range(Levels)
Keys == LevelSet \X Benchmarks
NoCounts == [detected |-> 0, read |-> 0, write |-> 0, unknown |-> 0]

AccessInit ==
    /\ levelSummary = [l \in LevelSet |-> Missing]
    /\ given = Missing
    /\ task = Missing
    /\ raised = FALSE
    /\ aggregated = << >>
    /\ access = Missing
    /\ total = Missing
    /\ used = Missing
    /\ rewritten = [l \in LevelSet |-> Missing]

-----------------------------------------------------------------------------
(* The count of a file *)

\* The lines of a module by label, and the labels in order: the lines of a
\* block without a label go to the block before it, and a label that comes
\* again starts anew.
parse_blocks(ir) ==
    FoldLeft(LAMBDA s, b :
                CASE b.label # Missing ->
                        [blocks |-> (b.label :> b.lines) @@ s.blocks,
                         order |-> Append(s.order, b.label), current |-> b.label]
                  [] b.label = Missing /\ s.current # Missing ->
                        [s EXCEPT !.blocks[s.current] = @ \o b.lines]
                  [] OTHER -> s,
             [blocks |-> << >>, order |-> << >>, current |-> Missing], ir)

\* The first call of a handler among the lines, or Missing.
first_ubsan_call(lines) ==
    LET calls == SelectSeq(lines, LAMBDA x : x.op = "call")
    IN  IF calls = << >> THEN Missing ELSE calls[1]

classify_handler(call) ==
    CASE call.callee = "type_mismatch_v1" /\ call.kind = 0 -> "read"
      [] call.callee = "type_mismatch_v1" /\ call.kind = 1 -> "write"
      [] OTHER -> "unknown"

\* The handler behind the branch at line n of the m-th label, or Missing.
HandlerAt(p, m, n) ==
    LET x == p.blocks[p.order[m]][n]
    IN  IF x.op = "br" /\ x.to \in DOMAIN p.blocks THEN first_ubsan_call(p.blocks[x.to]) ELSE Missing

\* The lines whose branch has a handler behind it, label by label: a label that
\* comes twice has its lines counted twice.
Disabled(ir) ==
    LET p == parse_blocks(ir)
    IN  UNION {{<<m, n>> : n \in {i \in DOMAIN p.blocks[p.order[m]] : HandlerAt(p, m, i) # Missing}} :
               m \in DOMAIN p.order}

OfKind(ir, kind) ==
    {d \in Disabled(ir) : classify_handler(HandlerAt(parse_blocks(ir), d[1], d[2])) = kind}

classify_file(ir) ==
    [detected |-> Cardinality(Disabled(ir)), read |-> Cardinality(OfKind(ir, "read")),
     write |-> Cardinality(OfKind(ir, "write")), unknown |-> Cardinality(OfKind(ir, "unknown"))]

\* A file has finitely many lines.
ASSUME FilesAssumption == \A b \in Bitcode : IsFiniteSet(Disabled(b.ir))

Plus(c, d) ==
    [detected |-> c.detected + d.detected, read |-> c.read + d.read,
     write |-> c.write + d.write, unknown |-> c.unknown + d.unknown]

-----------------------------------------------------------------------------
(* The summary of a level *)

\* spec_sanrazor_summary.py at the end of a run of the level, which may be
\* run again.
WriteLevelSummary(l) ==
    /\ \E s \in LevelSummaries[l] : levelSummary' = [levelSummary EXCEPT ![l] = s]
    /\ UNCHANGED <<given, task, raised, aggregated, access, total, used, rewritten>>

-----------------------------------------------------------------------------
(* The access script *)

\* main up to the end of the submissions; the summaries of the levels are
\* options of the command line.
Submit ==
    /\ task = Missing
    /\ task' = [b \in Bitcode |-> "queued"]
    /\ \E L \in SUBSET LevelSet : given' = [l \in LevelSet |-> IF l \in L THEN levelSummary[l] ELSE Missing]
    /\ UNCHANGED <<levelSummary, raised, aggregated, access, total, used, rewritten>>

Working == {b \in Bitcode : task[b] = "running"}

StartTask(b) ==
    /\ task # Missing /\ task[b] = "queued"
    /\ Cardinality(Working) < MaxWorkers
    /\ task' = [task EXCEPT ![b] = "running"]
    /\ UNCHANGED <<levelSummary, given, raised, aggregated, access, total, used, rewritten>>

\* classify_file returns, or llvm-dis fails and it raises.
EndTask(b) ==
    /\ task # Missing /\ task[b] = "running"
    /\ \E end \in {"done", "failed"} : task' = [task EXCEPT ![b] = end]
    /\ UNCHANGED <<levelSummary, given, raised, aggregated, access, total, used, rewritten>>

\* Mutant: the last file of a benchmark stands.
TakeResult_Replaces(b) ==
    /\ task # Missing /\ ~raised /\ task[b] = "done"
    /\ task' = [task EXCEPT ![b] = "taken"]
    /\ aggregated' = (<<b.level, b.benchmark>> :> classify_file(b.ir)) @@ aggregated
    /\ UNCHANGED <<levelSummary, given, raised, access, total, used, rewritten>>

\* The body of the loop over as_completed.
TakeResult(b) ==
    /\ task # Missing /\ ~raised /\ task[b] = "done"
    /\ task' = [task EXCEPT ![b] = "taken"]
    /\ LET key == <<b.level, b.benchmark>>
           old == IF key \in DOMAIN aggregated THEN aggregated[key] ELSE NoCounts
       IN  aggregated' = [k \in DOMAIN aggregated \cup {key} |->
                             IF k = key THEN Plus(old, classify_file(b.ir)) ELSE aggregated[k]]
    /\ UNCHANGED <<levelSummary, given, raised, access, total, used, rewritten>>

\* The result of a task that failed raises in the loop; the pool then runs
\* what was submitted to its end.
TakeFailure(b) ==
    /\ task # Missing /\ ~raised /\ task[b] = "failed"
    /\ raised' = TRUE
    /\ UNCHANGED <<levelSummary, given, task, aggregated, access, total, used, rewritten>>

\* What the script knew goes with it.
Exit == task' = Missing /\ given' = Missing /\ raised' = FALSE /\ aggregated' = << >>

Died ==
    /\ raised /\ task # Missing
    /\ \A b \in Bitcode : task[b] \notin {"queued", "running"}
    /\ Exit
    /\ UNCHANGED <<levelSummary, access, total, used, rewritten>>

\* Mutant: only benchmarks with bitcode have a row.
Benches_Aggregated(l) == {x \in Benchmarks : <<l, x>> \in DOMAIN aggregated}

\* The benchmarks of a level that have bitcode or a line in its summary.
Benches(l) ==
    {x \in Benchmarks : \/ <<l, x>> \in DOMAIN aggregated
                        \/ given[l] # Missing /\ x \in DOMAIN given[l]}

AccessRow(l, x) ==
    LET c == IF <<l, x>> \in DOMAIN aggregated THEN aggregated[<<l, x>>] ELSE NoCounts
    IN  [reported |-> IF given[l] # Missing /\ x \in DOMAIN given[l] THEN given[l][x].removed ELSE c.detected,
         removed |-> c.detected, read |-> c.read, write |-> c.write, unknown |-> c.unknown]

\* The rest of main and write_outputs.
WriteAccess ==
    /\ task # Missing /\ ~raised /\ \A b \in Bitcode : task[b] = "taken"
    /\ LET rows == [k \in {q \in Keys : q[2] \in Benches(q[1])} |-> AccessRow(k[1], k[2])]
           own(l) == {k \in DOMAIN rows : k[1] = l}
       IN  /\ access' = rows
           /\ total' = [l \in {m \in LevelSet : own(m) # {}} |->
                           [reported |-> SumOver([k \in own(l) |-> rows[k].reported], own(l)),
                            removed |-> SumOver([k \in own(l) |-> rows[k].removed], own(l)),
                            read |-> SumOver([k \in own(l) |-> rows[k].read], own(l)),
                            write |-> SumOver([k \in own(l) |-> rows[k].write], own(l)),
                            unknown |-> SumOver([k \in own(l) |-> rows[k].unknown], own(l))]]
    /\ used' = given
    /\ Exit
    /\ UNCHANGED <<levelSummary, rewritten>>

-----------------------------------------------------------------------------
(* The rewrite of a level's summary *)

Rewrite(row, a) ==
    [original |-> row.original, reported |-> row.removed, removed |-> a.removed,
     remaining |-> Max({0, row.original - a.removed}),
     read |-> a.read, write |-> a.write, unknown |-> a.unknown]

\* The columns are those of the first row: a row with others raises when it
\* is written, after the file was opened.  The rows are in the order of the
\* benchmarks' names.
Apply(l) ==
    /\ levelSummary[l] # Missing /\ DOMAIN levelSummary[l] # {} /\ access # Missing
    /\ LET known(x) == <<l, x>> \in DOMAIN access
           first == Min(DOMAIN levelSummary[l])
       IN  rewritten' = [rewritten EXCEPT ![l] =
              IF ~known(first) /\ \E x \in DOMAIN levelSummary[l] : known(x)
              THEN Cut
              ELSE [x \in DOMAIN levelSummary[l] |->
                       IF known(x) THEN Rewrite(levelSummary[l][x], access[<<l, x>>]) ELSE levelSummary[l][x]]]
    /\ UNCHANGED <<levelSummary, given, task, raised, aggregated, access, total, used>>

AccessNext ==
    \/ \E l \in LevelSet : WriteLevelSummary(l) \/ Apply(l)
    \/ \E b \in Bitcode : StartTask(b) \/ EndTask(b) \/ TakeResult(b) \/ TakeFailure(b)
    \/ Submit \/ Died \/ WriteAccess

AccessSpec == AccessInit /\ [][AccessNext]_accessVars

-----------------------------------------------------------------------------
(* Properties *)

FilesOf(l, x) == {b \in Bitcode : b.level = l /\ b.benchmark = x}

\* In whatever order the threads end, and whatever was run before, the table
\* has the sum of all files of a benchmark, each of whose checks is a read, a
\* write or unknown; a table is never made of some of the files.
AggregationExact ==
    access # Missing =>
        /\ \A k \in DOMAIN access :
              /\ access[k].removed =
                    SumOver([b \in Bitcode |-> Cardinality(Disabled(b.ir))], FilesOf(k[1], k[2]))
              /\ access[k].read + access[k].write + access[k].unknown = access[k].removed
        /\ \A b \in Bitcode : <<b.level, b.benchmark>> \in DOMAIN access
        /\ \A l \in DOMAIN total : total[l].read + total[l].write + total[l].unknown = total[l].removed

\* A rewrite with a table that was made with the present summary of the level
\* succeeds: every row has the disabled checks for removed, SanRazor's own
\* number beside them, and no more checks than there were.
RewriteIsWhole ==
    [][\A l \in LevelSet :
          rewritten'[l] # rewritten[l] /\ used[l] = levelSummary[l] =>
              /\ rewritten'[l] # Cut
              /\ DOMAIN rewritten'[l] = DOMAIN levelSummary[l]
              /\ \A x \in DOMAIN levelSummary[l] :
                    LET r == rewritten'[l][x]
                    IN  /\ "reported" \in DOMAIN r /\ r.reported = levelSummary[l][x].removed
                        /\ r.removed = access[<<l, x>>].removed
                        /\ r.read + r.write + r.unknown = r.removed
                        /\ r.remaining <= r.original]_accessVars

\* Branches made constant that lead to a handler in their own function.
DisabledPaths(ir) ==
    LET leads(i, j) == /\ ir[i].lines[j].op = "br"
                       /\ \E k \in DOMAIN ir : /\ ir[k].fn = ir[i].fn
                                               /\ ir[k].label = ir[i].lines[j].to
                                               /\ first_ubsan_call(ir[k].lines) # Missing
    IN  Cardinality(UNION {{<<i, j>> : j \in {n \in DOMAIN ir[i].lines : leads(i, n)}} : i \in DOMAIN ir})

\* README.md:260-262: the removed checks are "the number of UBSan handler paths
\* that the transformed IR actually disables", whatever the blocks of other
\* functions of the file are called.
CountIsDisabledPaths ==
    access # Missing =>
        \A k \in DOMAIN access :
            access[k].removed = SumOver([b \in Bitcode |-> DisabledPaths(b.ir)], FilesOf(k[1], k[2]))

=============================================================================
