# DESAN: TLA+ models, model checking and proofs

DESAN is an LLVM module pass that deletes redundant sanitizer checks from
instrumented IR, with scripts that build programs through it and evaluate the
result. This directory models its core, checks the models with TLC and proves
the main results about every part but two of it with TLAPS. Paths are relative to
the repository.

## Inventory

**Check collection** (`lib/SanitizerCheckCollector.cpp`). State: counts per
(sanitizer, check type), totals, profile costs. Operations: `loadProfile`,
`collectChecks`/`recordCheck`, `getStatsForSanitizer`, `identifyCoreChecks`.
The pass hands the core set to grouping, where *empty* means *all*. Hard: the
boundaries of limit, ratio and first check type; rows of the profile that do not
fit. Correct when the counters agree, the core set is a top segment of every
sanitizer and forgets none.

**Variable analysis** (`lib/CheckedVariableAnalyzer.cpp`). Recursive walks over
operands and uses; no state between calls. Its answers (base, offsets, access
type) are inputs of the models. Hard: visited sets shared between the arms of a
phi, depth and instruction budgets.

**Grouping and check graph** (`lib/CheckGraphBuilder.cpp`). State: the groups
(keyed by variable, filled in layout order), per group a graph of successors and
dominators. The graph is used for dumps and LLM prompts only. Correct when the
graph says what runs of the program do.

**Elimination** (`lib/RedundantCheckEliminator.cpp`). State: two flags per
group, marked calls, the candidates, the count. It walks the groups, marks, then
gives the marked calls one by one to the slice remover. Two orders are those of
pointer values and so differ from run to run. Correct when the deletions do not
depend on them and each deleted check has a kept one that stands for it.

**Slice removal** (`lib/CheckSliceRemover.cpp`). State: the IR. A check goes by
bypassing and deleting its report block, or by erasing the call with what only
served it; then dead code is cleaned up and the control-flow graph simplified,
after *every* removal. Hard: each removal changes what the next one sees.
Correct when the function stays well formed and keeps the program's effects.

**Pass driver and LLM assistance** (`lib/DESANPass.cpp`,
`lib/LLMAssistedAnalyzer.cpp`). The driver calls the above in order. LLM queries
are advisory; they are bounded by a budget tested in six places.

**Compiler wrapper** (`scripts/spec_desan_common.sh`, `run_pass.sh`). Called by
make once per object, several at a time. Shared state: the records file, sidecar
files named by a hash. Compile to IR, run the pass under `timeout`, lower; each
failure falls back to a direct compile. `opensource_summary.py` reads the
records. Hard: no lock, interrupts, hanging passes, names that repeat.

**Batch runs and comparison** (`run_oss_batch_after_read_check_elimination.py`,
its start scripts and collectors, `run_oss_asanmm_comparison.py`). State: source
directories and archives that all of them share, an output directory and a
summary per project and sanitizer, status files per shard, their merge. Hard:
timeouts that do not reach grandchildren, kills, results removed before their
status is rewritten, a batch and a comparison that prepare the same project.
Correct when a status and the data beside it are of one run, nothing is built
from half a source unless two runs met in it, and a table loses no project.

**Summary scripts** (`spec_asan_summary.py`, `opensource_summary.py`,
`spec_asanmm_summary.py`, `opensource_asanmm_summary.py`,
`spec_sanrazor_summary.py`, `count_sanitizer_checks.py`). They read compile
records, the log of every unit and the times of the variants and write a row per
benchmark. Hard: logs of stopped passes, rows in any order, five copies of one
idea that differ. Correct when the numbers of a row fit together and are of what
was compiled and run.

**Table of all results** (`collect_all_results.py`). Lists the summaries, reads
one after the other, filters, writes. Hard: reruns that remove and rewrite
summaries meanwhile; filters on the sign of a quotient and on the number of
sanitizers left.

**SanRazor's disabled checks** (`sanrazor_removed_access_summary.py`,
`apply_sanrazor_detected_disabled_counts.py`). A pool of threads counts disabled
handler paths in bitcode, the sums go into a table, and the table over the
removed checks in a level's summary. Hard: completion order, failing tasks,
labels that repeat, rows with different columns.

**Evaluation drivers** (`scripts/evaluate.sh`, `common.sh`, the SPEC and
single-project `run_*` drivers): linear scripts around external tools.

## Modules

| Module | Models | State and actions |
|---|---|---|
| `CheckGroups` | `makeVariableKey`, `isCoreCheck`, the guards of `groupChecksByVariable` | pure; a module is a function from positions to what the collector and the analyzer say of the call there. Also the policy on the layout: `Redundant` |
| `RetentionPolicy` | abstract specification | `Mark`, `Erase`, `Finish` of redundant checks, without scan, flags or groups |
| `RedundantCheckEliminator` | `groupChecksByVariable`, `eliminateRedundantChecks`, `eraseMarkedChecks` | `ScanCall`, `EnterGroup`, `KeepCheck`, `MarkForRemoval`, `RemoveCheckSlice`, `RemoveRefused`, ...; groups and marked calls in any order |
| `CheckGraphBuilder` | `findCheckAnchor`, `computeReachability`, `isReachable`, `computeDominance` | the double loop, one block of a search per step |
| `CheckExecution` | composes the graph with a run of the functions | `Invoke`, `Perform` for an inline check, `Test` for the checks whose report blocks a branch guards, `Branch` |
| `CheckSliceRemover` | the slice remover inside the loop of `eraseMarkedChecks` | one step per redirected predecessor, erased instruction, merged block |
| `SanitizerCheckCollector` | the collector as the pass drives it | one step per row of the profile, call, check type |
| `CompileWrapper` | the wrapper, the records file, `parse_records` | one step per external command or file operation of each job |
| `OssBatch` | `run_one`, `main` and the preparation of sources of the batch runner, the start scripts, the merge of status files, the collected table, the comparison with ASAN-- | one step per stage of a task in each shard (`RemoveOut`, `OutRemoved`, `Download`, `Unpack`, `Install`, `CloneEnds`, `BuildVariant`, ...); `StartWave`, `StartComparison`, `KillWave`, `Collect` by the operator |
| `SummaryScripts` | the pure parts of the summary scripts: the lines of a log as the writers leave them and as the readers take them, times, overheads | operators only, folds over lines and rows |
| `SummaryTables` | one of the five scripts at work on one benchmark | `ReadRecord`, `SkipHeader`, `ReadCheckFile`, `ReadSpecRow`, `ReadRsf`, `ReadRun`, `WriteRow` |
| `PublishedResults` | `collect_all_results.py` beside reruns; uses `SummaryScripts` for the overheads | `RemoveSummary`, `RunFails`, `OpenSummary`, `WriteSummary` of the runs; `ListSummaries`, `ReadSummary`, `WriteTable` of the collector |
| `Sums` | | the sum of a function over a finite set |
| `SanRazorAccess` | the counting of disabled checks and the rewrite of a level's summary | `Submit`, `StartTask`, `EndTask`, `TakeResult`, `TakeFailure`, `WriteAccess`, `Apply` |

The modules `...Proofs` hold the theorems about the module of their name, and
`FiniteFacts` the lemmas on naturals, finite sets and sums that several of them
need.

Operators whose names end in a suffix behind an underscore (`shouldKeep_NoFirst`)
are mutants: they are not used by the specifications, and replace the definition
after them to see that a property can fail.

### Abstractions

* LLVM is external. `DominatorTree` is given by its definition;
  `MergeBlockIntoPredecessor`, `EliminateUnreachableBlocks`,
  `isInstructionTriviallyDead` and `removePredecessor` by what they do to the
  abstract IR.
* The eliminator leaves open whether a slice can be removed; `CheckSliceRemover`
  shows when it can.
* An instruction is a class and its operands. A phi that LLVM folds to its only
  value stays in the model as a name of that value. The order in which
  `collectControlFlowSlice` visits predecessors decides where the walk over
  operands stops; `TakeCall` takes any set of such places.
* Walks that go on until nothing is added, over operands and over the
  control-flow graph, are least closed sets; sorts are the sorted arrangement.
* `eraseDeadSliceInstructions` reads instructions it freed in an earlier round;
  the model takes the outcome in which they are seen as unlinked.
* In `CheckExecution` the elimination appears as its proved outcome: a READ goes
  exactly if the check before it in its group is a READ.
* Ratios are compared as exact fractions.
* Compiler, `opt` and make are external: commands succeed or fail, `opt` may hang.
* In `OssBatch` downloads, clones and builds end or are stopped by their timeout;
  a stopped one may leave an orphan in its output directory. The removal of old
  results (`rmtree`) takes two steps, between which any part of them may be
  gone and the shard may be killed; an orphan at work there can make it fail,
  and no handler is in force. A source directory is absent, partial or whole. A batch wave is started when none is running,
  which the scripts do not enforce; the comparison may run beside it, and with
  `--projects` for an end of its list. `reported`, `last`, `ordered` and
  `disturbed` are history variables.
* A log is the sequence of the lines that the scripts look at. A stopped writer
  leaves any beginning of it, the last line without its number or with the
  leading digits of it. Means and percentages are fractions. `parse_check_file`
  drops rows that repeat in all nine columns, the model those that repeat in the
  two that are counted.
* In `PublishedResults` a summary file stands for one benchmark, rows are a set
  and the summaries are read in the order of their paths. A run that succeeded
  has a positive time: the scripts time whole commands, and keep three decimals.
* In `SanRazorAccess` a bitcode file is a sequence of labelled blocks with the
  branches SanRazor made constant and the handler calls; `declare` lines, which
  `first_ubsan_call` would also match, are left out. `llvm-dis` succeeds or
  fails. Costs and percentages are left out.

## Runs

| Run | Question | Bounds |
|---|---|---|
| `eliminator` | Do the flags implement the policy, in every order? Does it end? | all modules of 4 calls out of 10 kinds: 2 variables, static and dynamic offsets that the key merges, all access types, a check that is not core, one that cannot be analyzed, a plain call. Four positions give every run READ, barrier, READ, READ and two groups interleaved |
| `graph` | Does the graph agree with runs of the program? | all control-flow graphs of a 3-block and a 1-block function, 3 checks, inline or behind one or two guards; loops, diamonds and unreachable blocks occur |
| `graph_covered` | Is every deletion covered on every path? **Violated** | 2 checks suffice |
| `slices` | Does removal preserve the function, whatever is marked, in any order? | functions of up to 4 blocks: report blocks that trap or fall through, with one or two guards, switch and invoke, checks in the middle of program code, phis, also behind a block that is bypassed; every non-empty set of checks marked. A bypassed block never leaves a use or a phi behind (`BypassIsClean`) |
| `slice_uses` | The same for functions with a value that leaves a report-like block. **Violated** | one family of functions |
| `collector` | Is the core set right at its boundaries? | 5 names, 5 calls, 2 rows, limits 0 and 2, ratios 20 and 60 percent; 2 rows give repeated and conflicting costs, 5 calls ties and rare types |
| `wrapper` | Do records and summary tell the truth, and does the build end? | 2 compiles, a third with the names of the first, and a link; three modes, with and without fallback |
| `batch` | Do statuses, sources and results belong together after failures, kills and reruns, side by side, and do waves end? | a batch and its rerun of an archive project, and a comparison of a git project and that one; 2 starts, so each wave can be restarted, follow another or, with the comparison, run beside it. Two starts show every way in which one run meets the leavings of another |
| `tables` | Do the numbers of a row fit together, and is the time the selected one? | five scripts; 2 records of 2 kinds of units (several types and sanitizers; a number of two digits to be cut), every end of every log; 2 rows of times, the least that can hide one another |
| `published` | Do its rows pass the script's filters and show the present summaries, during reruns? | a project with three sanitizers and an excluded one; 5 outcomes (faster, slower, faster under a sanitizer that saved time, without checks, not run) in every combination; 2 reruns, so that two sanitizers of a project can change during one collection |
| `sanrazor` | Is the table the sum of all files, and the rewrite whole? | 3 files, two of one benchmark, 2 threads, 2 levels, a benchmark without bitcode; summaries may be written anew at any time |
| `sanrazor_labels` | Is the count the number of disabled handler paths? **Violated** | the same |

`slices` is about *instrumented* functions (`Instrumented` in
`MCCheckSliceRemover`): blocks that look like report blocks are report blocks.
The entry has an instruction of its own, no report-like block computes a value
for the program or calls a runtime function that works for it, and a block with
phis behind a report block is reached only by conditional branches around it.
`slice_uses` drops one of these and shows what the code then does. Two other
families of `MCCheckSliceRemover` can be selected with its constant `Family`:
`"entry"`, where an entry block made of a check and a branch passes all tests
for a report block, since it has no predecessor to object, and is deleted
(`WellFormedIR` fails); and `"runtime"`, where `__msan_memcpy` and its like
count as sanitizer-only and go with a bypassed block (`KeptCodeSurvives` fails).

Deadlock is checked in `slices`, `collector` and `sanrazor`, where a finished
system has a step of its own or can begin again. In the others it simply stops:
the pass returns (`Termination` says that it does), a run of a function ends, a
build is over (`BuildEnds`), the last wave has ended (`WavesEnd`), a summary
script has written its row, nothing is collected any more.

**Fairness.** `eliminator`: weak fairness of the next step, since the pass is a
single thread that nothing blocks. `wrapper`: weak fairness of every job, since
jobs are processes the system schedules; no fairness makes a command succeed or
a hung pass wake up. That the build ends rests on `timeout`, which the
configuration enables as the default of `DESAN_SPEC_PASS_TIMEOUT` does. `batch`:
weak fairness of every shard, of the comparison and of the end of a wave; every
external command is run with a timeout, so a step of a shard ends. Orphans need
not, and nobody need start or collect anything. The other specifications state
no fairness: their properties are about what a step may not do.

### What the violations show

1. `graph_covered`: groups follow the layout of the module, across functions and
   branches, and the dominance that the graph builder computes is not consulted.
   A READ behind one branch is deleted on account of a READ behind another.
   `DominatedRunsCovered` (run `graph`) shows that consulting it would suffice.
2. `slice_uses`: the bypass deletes a block without looking at the uses of its
   values, unlike the other path of the remover and unlike the README's rule 7.
3. `sanrazor_labels`: the blocks of a file are kept by label, across functions.
   A label that comes again drops the lines of the function before it and counts
   those of the later function twice, so the number in the table is not the
   number of disabled handler paths.

`SummaryComplete` is stated for builds in which no two jobs were recording at
once: the check for the header and the appends are not atomic, and a row
written before the header makes the summary ignore the file.

`MergedIsLatest` and `DataFitStatus` are stated for waves started in the order in
which their files are merged. The merge goes by file name: a rerun script that is
started again, and stopped before it reports, uncovers the statuses of earlier
waves although a later one had been collected. `CollectedStays` holds in any
order. A task killed before its row leaves the old status without its data, or
beside data of its own, of which `DataFitStatus` says nothing.

`SuccessIsComplete` holds of a row of success until a later run takes its key up
(`last`). That run begins with the removal: killed or dead in the midst of it, it
leaves the old row beside a part of the builds and times. The summary is removed
after them, so the collected table still shows the old numbers, and they are
those of the row: `DataFitStatus` includes these keys. When the removal fails,
nothing catches it (the handler that is to "keep the batch moving" begins after
it): the shard ends without a row for this task and the ones behind it.
`EveryTaskReported` is about shards that come to their end.

`BuiltFromWhole` excludes the runs in whose preparation another shard met them:
a comparison started during a batch can rename the tree that `tar` is still
extracting for the other. It is about archives; a clone that was stopped is
taken for a clone by later runs. `ComparisonIsCurrent` is about the projects of
the comparison that ended: its tables always list all default projects, with
whatever summaries earlier comparisons left.

`PublishedIsCurrent` follows the code in what counts as a negative reduction: the
sign of (before - after) / (before - native), which turns when the sanitizer's
program was faster than the native one. The README (lines 274-276) says that
rows without removed checks are left out of its tables; `collect_all_results.py`
tests the inserted ones only. `RewriteIsWhole` needs a table made with the
present summary (`--summary-csv`), which the README's command does not give;
without it the first row may have no entry, and the rewrite leaves a cut file.

## Proofs

What the runs check on small instances is proved here for every value of the
constants: any number of calls, blocks, jobs, tasks or files. 35 of the 40
properties are theorems. Every theorem has the form `Spec => []Inv` or
`Spec => [][A]_vars`; those of the slice remover say below what they assume of
the function. Behind each stands an inductive invariant, since none of the
properties is inductive as it is.

| Module | Theorems (property) | Inductive invariant |
|---|---|---|
| `RedundantCheckEliminatorProofs` | `TypeCorrect`, `MarkingIsPolicy` (`MarkedIsPolicy`), `WitnessKept` (`KeptWitness`), `RemovedCount` (`RemovedIsErased`), `Implements` (`ImplementsPolicy`) | `IInv` |
| `CheckExecutionProofs` | `DominatorsPerformed` (`DominatorsRan`), `EdgesExact` (`EdgesArePaths`), `DominatedCovered` (`DominatedRunsCovered`), `EdgesFollowed` (`RunsFollowEdges`) | `IInv` (`SearchInv`, `EdgesInv`, `RunInv`) |
| `CheckSliceRemoverProofs` | `BypassIsCompleted` (`BypassCompletes`), `EveryStepShrinks` (`LoopsShrink`), `KeptCodeStays` (`KeptCodeSurvives`), `CountIsTrue` (`RemovedIsGone`), `WaysStay` (`FlowPreserved`), `IRStaysWellFormed` and `InstrumentedStaysWellFormed` (`WellFormedIR`), `BypassStaysClean` (`BypassIsClean`) | `TInv`, `KeptInv`, `ClosedInv`, `FlowInv`, `ShapeInv`, `AsideInv` |
| `SanitizerCheckCollectorProofs` | `TypeCorrect`, `CountersAgree` (`TotalsAgree`), `SharesAdd` (`SharesBounded`), `CoreIsATopSegment` (`CoreIsTopSegment`), `EverySanitizerHasCore` (`NoSanitizerForgotten`) | `TInv`, `ChoiceInv` |
| `CompileWrapperProofs` | `RecordsAreTrue` (`RecordTellsTheTruth`), `ObjectsAreCounted` (`NoObjectUncounted`), `SummaryIsComplete` (`SummaryComplete`) | `IInv`, `HInv`, `LogInv` |
| `OssBatchProofs` | `TypeCorrect`, `SuccessComplete`, `TasksReported`, `DataFits`, `BuiltWhole`, `MergedLatest`, `ComparisonCurrent`, `CollectionsKeep` (the types of the state, and the properties of run `batch` but `WavesEnd`) | `WInv`, `TInv`, `RInv`, `CInv`, `LInv`, `SInv` |
| `ResultTablesProofs` | `PublishedRowsHold` (`PublishedHoldsUp`), `TableAgrees` (`PublishedIsCurrent`); `AccessTableExact` (`AggregationExact`), `RewritesAreWhole` (`RewriteIsWhole`) | `PInv`; `SRInv` |

**Elimination.** `MarkedIsPolicy` speaks of the layout, the code of flags and
sequences. `IInv` ties them together: each sequence lists, in ascending order
and completely, the calls of its key among those scanned (`GroupSound`,
`GroupSorted`, `GroupComplete`); which groups are done, walked or untouched
(`PhaseInv`); inside a group the flags say whether a check was seen and whether
the last one was a barrier (`FlagsInv`); the marked calls are the READs directly
after a READ among those decided (`MarkInv`); the calls left, the erased ones
and the count (`EraseInv`). `RedundantIff` turns "directly after a READ in the
sequence" into `Redundant` on the layout, and `InvWitness` follows a run of
deleted READs back to its first element. The refinement needs only that the
marking is the policy's once erasing begins.

**Graph and runs.** The search keeps the visited blocks within the reachable
ones and closed but for the stack, so that at its end it has found a path
exactly if there is one. A run keeps the blocks it went through on a path from
the entry: whatever dominates the anchor of a check has been passed. The proof
corrected the model: all reports guarded by one branch are tested when that
branch is reached, not each when it likes (`Test`).

**Slice removal.** `TInv` holds for every function: types, the number of operands
of a class, that an instruction stands in one place, and that the predecessors
collected by `bypassReportBlock` are still those of the block (`BypassInv`).
`Rank` is a number of two digits, the calls and the phase before the code left;
each step lowers one digit and does not raise a higher one. `KeptInv` is about
functions as sanitizers leave them (`AsInstrumented`, the hypothesis of
`KeptCodeStays` and `CountIsTrue`; `MCCheckSliceRemover` assumes it of all
functions of run `slices`, and TLC evaluates that): the entry keeps an
instruction of its own and is never bypassed (`EntryInv`), a block with a
runtime call keeps the work beside it (`WorkInv`), all blocks stay reachable, so
that the clean-up deletes none that anything depends on (`ReachInv`), checks and
runtime calls compute nothing that is used (`ValuesInv`), a slice contains no
check but its own and no effect (`SliceInv`), and the calls to be erased are
live (`CallInv`). Without the hypothesis both properties are false: see the
families `"entry"` and `"runtime"` above.

The way from one piece of work to another (`WaysStay`) is followed through every
step, not only between removals. `FlowInv` says that what can come after what is
as in the original function, by a path or by the order inside a block. A
redirected edge goes where the bypassed block went, a joined block has one way
in and its predecessor one way out, and a deleted block had no predecessor left
(`ReachPast`, `ReachJoined` and the lemmas beside them compare reachability
before and after); branches end in blocks of the function throughout
(`ClosedInv`).

`WellFormedIR` is asked between removals; `ShapeInv` has operands, conditions and
the entries of phis at every step. The code leaves two questions open when it
bypasses a block: whether one of its values is used elsewhere, and whether a
block that gets a new predecessor has phis without an entry for it.
`BypassIsClean` is the pair of them, and `IRStaysWellFormed` says that nothing
else can go wrong. `BypassStaysClean` answers both for functions whose blocks
without effects stand aside (`IdleBlocksAside`): what such a block computes stays
inside it or enters a phi along its own edge, and a block with phis behind it is
also behind each of its predecessors, as with a guard that branches around its
report. Effects never go (`KeptInv`), so a block that is idle now was idle from
the start, and this is preserved (`AsideInv`). `InstrumentedStaysWellFormed` puts
both together, with conditions on the original function only. 6056 of the 6672
functions of run `slices` have idle blocks aside, and TLC evaluates that one with
a report block between a branch and a phi is among them; for the others
`BypassIsClean` is what the run shows. `slice_uses` is what happens when a value
does leave a bypassed block.

**Collector.** The three counters are sums over sets that a call changes at one
place (`SumChange`). The core types of a sanitizer are those chosen on the way
through its sorted types up to the present position, at most one of them too
rare. That every row of the profile leaves costs which add up to the total, or a
total that is no number, gives `SharesBounded`.

**Wrapper.** `IInv` says from the place of a job whether it has its row, and
which status fits the object under its name. `HInv` follows the header of the
records file as long as no two jobs record at once. `LogInv` is about a job none
of whose names another job uses: its log has what its own pass wrote, nothing or
all, as its place and status tell. The lines of the records file then stand for
the jobs one to one, and `SumRenamed` takes the sum from lines to jobs.

**Batch.** The invariants say of each shard which tasks are behind it and how far
its present one is; of each key which run the output directory, the summary and
the latest row belong to, unless another shard met it or a later run has begun to
remove it (`ReportFits`: no summary is younger than that run, and one that is not
younger than the row is the row's own); and of the merge that no
file read later holds an older row, as long as waves are started in its order.

**Table of all results.** While the collector reads, the summaries behind it are
as it has them, unless their files were touched since they were listed
(`RowsInv`), and a row has passed the filter of rows (`TInv`). Both filters
remove projects as a whole (`PublishedOf`), and the sign of the quotient is that
of two differences (`WorseMeans`).

**SanRazor's disabled checks.** What was taken so far has been added up, once: the
table in memory has a row for each benchmark of a taken file, with the sums over
exactly those files (`SumInv`). A task is taken once and only when done, and a
script that raised leaves nothing behind (`TaskInv`); so a table that is written
has all files. `KindsAdd` splits the checks of a file into its three kinds. A
written table has a row for every line of the summaries it was made with
(`RowInv`), which is why the first row of a rewrite decides its columns rightly.
The module has names of its own (`AccessSpec`, `Missing`), so that one module can
hold these proofs beside those about the table of all results.

Assumptions on constants are named in the modules, and TLC evaluates them in
every run: types and finiteness of sets (`CallsAssumption`,
`CollectorAssumption`, `WrapperAssumption`, `BatchAssumption`); markers such as
`None`, `NaN`, `NoGroup` and `NoBlock` differ from what they are used beside, as
Python's `None` and C++'s null do; the summaries are listed once each
(`PublishedAssumption`; a directory has no name twice); a function of the slice
remover has each instruction in one place and branches inside itself, as LLVM's
verifier demands, and the calls marked in it are checks (`ProgramsAssumption`); the shards of a
wave share no project and later waves have later files in the merge
(`BatchAssumption`, as `run_oss_extra50_shards.sh` and the names of its files
have it); a file of bitcode has finitely many lines, and a summary of SanRazor
has counts of at least zero and removes no more than there is
(`FilesAssumption`, `SanRazorAssumption`; `spec_sanrazor_summary.py` takes the
maximum with 0).

Only model-checked:

* the liveness properties `Termination`, `BuildEnds` and `WavesEnd`: fairness is
  outside the prover's reach;
* `CountsWithinTotal` and `RuntimeIsSelected` of `SummaryTables`: its operators
  fold over sequences of lines, which needs an induction over data that the
  provers have not.

For the same reason the theorems about `SanRazorAccess` say nothing of what
`parse_blocks`, a fold, makes of a file: they hold for whatever it returns.

## Not modelled

The variable analysis (its results are inputs), the LLM queries (advisory), dump
output, argument parsing and the Fortran path of the wrapper, `evaluate.sh` and
the SPEC and single-project drivers (linear scripts), the build commands and
inputs of the projects (data), the layout of printed tables. `PROJECT.json` gives
the reason for each, and lists the hazards with the properties that cover them.

## Plan

1. Done: collector, grouping, elimination with its policy, graph, slice removal,
   wrapper; batch runs with the comparison; summary scripts, table of all
   results, SanRazor's disabled checks; the proofs above.
2. `DESANPass`: the loop of LLM queries and its budget; `CheckedVariableAnalyzer`:
   traces on small value graphs against a reference without visited sets and
   budgets.
