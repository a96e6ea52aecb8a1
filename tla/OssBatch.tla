------------------------------ MODULE OssBatch ------------------------------
(* The runs over the open-source projects: DESAN's batches                  *)
(* (run_oss_batch_after_read_check_elimination.py and the scripts that      *)
(* start it in shards and reruns, collect_oss_all_results.sh,               *)
(* collect_oss_batch_results.py) and the comparison with ASAN--             *)
(* (run_oss_asanmm_comparison.py), which imports the batch's preparation of *)
(* the sources and works in the same source directories.                    *)
(*                                                                          *)
(* A wave is one of the start scripts: it removes the status files of its   *)
(* shards and starts them side by side.  A shard runs its tasks, pairs of a *)
(* project and a sanitizer, one after the other.  The comparison is a wave  *)
(* of one shard, whose sanitizer is ASAN--, and can be started for some of  *)
(* its projects: the model takes the ends of its list.  The operator starts *)
(* a batch wave when no other is running, the comparison at any time, may   *)
(* kill either, and collects between batch waves.                           *)
(*                                                                          *)
(* curl, git, tar and the builds are external: each ends, or is stopped by  *)
(* its timeout.  A timeout kills the shell only, and a killed shard leaves  *)
(* what it had started: that goes on as an orphan.  An archive is           *)
(* downloaded once and stays.                                               *)
EXTENDS Integers, Sequences, SequencesExt, FiniteSets

CONSTANTS
    Projects,
    GitProjects,    \* those fetched with git; the others are archives
    Sanitizers,     \* ASAN-- is the one of the comparison
    Waves,          \* numbered in the order in which status files are merged
    Comparison,     \* the wave that is the comparison
    Shards,         \* per wave, its shards, numbered in the order of their names
    Tasks,          \* per shard, its tasks in order
    MaxStarts,      \* bound: waves started
    None

Keys == Projects \X Sanitizers
Batches == Waves \ {Comparison}
ShardsOf(W) == UNION {Shards[v] : v \in W}
AllShards == ShardsOf(Waves)
Compared == {k \in Keys : \E x \in Shards[Comparison] : k \in ToSet(Tasks[x])}
Variants == 3       \* native, sanitizer, and DESAN or ASAN--

ASSUME BatchAssumption ==
    /\ GitProjects \subseteq Projects
    /\ Waves \subseteq Nat /\ Comparison \in Waves
    /\ \A v \in Waves : Shards[v] \subseteq Nat
    /\ IsFiniteSet(AllShards) /\ \E x \in AllShards : Shards[Comparison] = {x}
    /\ \A u, v \in Waves : u < v => \A x \in Shards[u], y \in Shards[v] : x < y
    /\ \A v \in Waves : \A x, y \in Shards[v] : x # y =>
          \A i \in DOMAIN Tasks[x], j \in DOMAIN Tasks[y] : Tasks[x][i][1] # Tasks[y][j][1]
    /\ \A x \in AllShards : Tasks[x] \in Seq(Keys) \ {<< >>} /\ IsInjective(Tasks[x])
    /\ \A x \in ShardsOf(Batches) : ToSet(Tasks[x]) \cap Compared = {}
    /\ MaxStarts \in Nat
    /\ None \notin [key : Keys, status : {"S", "FAIL"}, run : Nat]
    /\ None \notin [run : Nat, used : BOOLEAN, built : Nat, timed : BOOLEAN, whole : BOOLEAN]

VARIABLES
    starts,     \* waves started so far
    active,     \* the waves under way
    run,        \* per shard, the number of its latest start
    pc,         \* per shard, where run_one is
    at,         \* per shard, the number of its task
    outcome,    \* per shard, summary_status of its task
    archive,    \* per project, the downloaded archive
    src,        \* per project, its source directory
    tmp,        \* per project, the shard whose tree is being extracted, or None
    out,        \* per key, its out_root: None or [run, used, built, timed, whole]
    summary,    \* per key, the run whose summary.csv is there, or None
    rows,       \* per shard, its status file
    batch,      \* the status file of all batches: per key a row or None
    md, csv,    \* the comparison's tables: per key, the run it shows, or None
    last,       \* per key, the latest run that took it up
    reported,   \* per key, the latest row any run has written
    ordered,    \* batch waves were started in the order in which they are merged
    disturbed   \* keys during whose run another shard prepared the project

shards == <<run, pc, at, outcome>>
sources == <<archive, src, tmp>>
files == <<out, summary>>
tables == <<batch, md, csv>>
history == <<last, reported, ordered, disturbed>>
vars == <<starts, active, shards, sources, files, rows, tables, history>>

Trees == {"absent", "partial", "whole"}
Over == {"off", "done", "crashed", "killed"}

Key(x) == Tasks[x][at[x]]
Project(x) == Key(x)[1]

Init ==
    /\ starts = 0 /\ active = {}
    /\ run = [x \in AllShards |-> 0]
    /\ pc = [x \in AllShards |-> "off"]
    /\ at = [x \in AllShards |-> 1]
    /\ outcome = [x \in AllShards |-> None]
    /\ archive = [p \in Projects |-> "absent"]
    /\ src = [p \in Projects |-> "absent"]
    /\ tmp = [p \in Projects |-> None]
    /\ out = [k \in Keys |-> None]
    /\ summary = [k \in Keys |-> None]
    /\ rows = [x \in AllShards |-> << >>]
    /\ batch = [k \in Keys |-> None]
    /\ md = [k \in Compared |-> None] /\ csv = md
    /\ last = [k \in Keys |-> 0]
    /\ reported = [k \in Keys |-> None]
    /\ ordered = TRUE
    /\ disturbed = {}

-----------------------------------------------------------------------------
(* The start scripts and the operator *)

Started(v, first) ==
    /\ v \notin active
    /\ starts < MaxStarts
    /\ starts' = starts + 1
    /\ active' = active \cup {v}
    /\ run' = [x \in AllShards |-> IF x \in Shards[v] THEN starts + 1 ELSE run[x]]
    /\ pc' = [x \in AllShards |-> IF x \in Shards[v] THEN "next" ELSE pc[x]]
    /\ at' = [x \in AllShards |-> IF x \in Shards[v] THEN first ELSE at[x]]
    /\ outcome' = [x \in AllShards |-> IF x \in Shards[v] THEN None ELSE outcome[x]]
    /\ rows' = [x \in AllShards |-> IF x \in Shards[v] THEN << >> ELSE rows[x]]

\* The status files of the wave are removed and its shards started.  Waves
\* stay in order as long as only earlier ones have reported anything.
StartWave(v) ==
    /\ active \cap Batches = {}
    /\ Started(v, 1)
    /\ ordered' = (ordered /\ \A u \in Batches : \A y \in Shards[u] : rows[y] # << >> => u < v)
    /\ UNCHANGED <<sources, files, tables, last, reported, disturbed>>

\* main of the comparison opens its status file anew, with --projects for
\* some of the projects.
StartComparison ==
    /\ \E first \in UNION {DOMAIN Tasks[x] : x \in Shards[Comparison]} : Started(Comparison, first)
    /\ UNCHANGED <<sources, files, tables, history>>

KillWave(v) ==
    /\ v \in active
    /\ \E x \in Shards[v] : pc[x] \notin Over
    /\ pc' = [x \in AllShards |-> IF x \in Shards[v] /\ pc[x] \notin Over THEN "killed" ELSE pc[x]]
    /\ UNCHANGED <<starts, active, run, at, outcome, sources, files, rows, tables, history>>

WaveEnds(v) ==
    /\ v \in active
    /\ \A x \in Shards[v] : pc[x] \in Over
    /\ active' = active \ {v}
    /\ UNCHANGED <<starts, shards, sources, files, rows, tables, history>>

-----------------------------------------------------------------------------
(* run_one *)

Goto(x, l) == pc' = [pc EXCEPT ![x] = l]

Decide(x, s) == outcome' = [outcome EXCEPT ![x] = s] /\ Goto(x, "row")

\* What can be left of an out_root while rmtree is at work in it.
Remains(o) ==
    IF o = None THEN {None}
    ELSE [run : {o.run}, used : {o.used}, built : 0..o.built, timed : {FALSE, o.timed}, whole : {o.whole}]

\* The run takes up its next task: rmtree begins to remove the old out_root,
\* file by file.
RemoveOut(x) ==
    /\ pc[x] = "next"
    /\ at[x] <= Len(Tasks[x])
    /\ \E o \in Remains(out[Key(x)]) : out' = [out EXCEPT ![Key(x)] = o]
    /\ last' = [last EXCEPT ![Key(x)] = run[x]]
    /\ Goto(x, "clear")
    /\ UNCHANGED <<starts, active, run, at, outcome, sources, summary, rows, tables, reported, ordered, disturbed>>

\* The old out_root is gone.  Or a command of the earlier run that was stopped
\* and is still at work there has made rmtree fail half way, and no handler is
\* in force yet.
OutRemoved(x) ==
    /\ pc[x] = "clear"
    /\ \/ /\ out' = [out EXCEPT ![Key(x)] = None]
          /\ disturbed' = disturbed \ {Key(x)}
          /\ Goto(x, "unlink")
       \/ /\ out[Key(x)] # None /\ out[Key(x)].used
          /\ Goto(x, "crashed")
          /\ UNCHANGED <<out, disturbed>>
    /\ UNCHANGED <<starts, active, run, at, outcome, sources, summary, rows, tables, last, reported, ordered>>

EmptyOut(x) == [run |-> run[x], used |-> FALSE, built |-> 0, timed |-> FALSE, whole |-> TRUE]

\* Mutant: the old summary stays.
RemoveSummary_Stays(x) ==
    /\ pc[x] = "unlink"
    /\ out' = [out EXCEPT ![Key(x)] = EmptyOut(x)]
    /\ Goto(x, "source")
    /\ UNCHANGED <<starts, active, run, at, outcome, sources, summary, rows, tables, history>>

\* So are the old summaries, and an empty out_root is made.
RemoveSummary(x) ==
    /\ pc[x] = "unlink"
    /\ summary' = [summary EXCEPT ![Key(x)] = None]
    /\ out' = [out EXCEPT ![Key(x)] = EmptyOut(x)]
    /\ Goto(x, "source")
    /\ UNCHANGED <<starts, active, run, at, outcome, sources, rows, tables, history>>

\* Every shard that is between the preparation of the same source and its
\* last copy of it meets this one.
Disturb(x) ==
    LET met == {y \in AllShards \ {x} :
                   /\ pc[y] \in {"unpack", "install", "clone", "build"}
                   /\ Project(y) = Project(x)}
    IN  disturbed' = disturbed \cup UNION {{Key(x), Key(y)} : y \in met}

Torn(p) == IF src[p] = "absent" THEN "absent" ELSE "partial"

\* prepare_archive downloads unless there is a file.  A download that fails or
\* is stopped can leave a part, which later runs take for the archive; one
\* that succeeds can have brought something else.  Then the removal of the
\* old source begins.
Download(x) ==
    /\ pc[x] = "source"
    /\ Project(x) \notin GitProjects
    /\ LET p == Project(x)
       IN  /\ \E a \in Trees :
                /\ archive[p] # "absent" => a = archive[p]
                /\ archive' = [archive EXCEPT ![p] = a]
           /\ \/ /\ archive'[p] # "absent"
                 /\ src' = [src EXCEPT ![p] = Torn(p)]
                 /\ Disturb(x)
                 /\ Goto(x, "unpack")
                 /\ UNCHANGED outcome
              \/ /\ archive[p] = "absent" /\ archive'[p] # "whole"
                 /\ Decide(x, "FAIL")
                 /\ UNCHANGED <<src, disturbed>>
    /\ UNCHANGED <<starts, active, run, at, tmp, files, rows, tables, last, reported, ordered>>

\* The old source and a tree that is left over are gone, and tar begins.  Two
\* that remove the same files can make each other fail.
Unpack(x) ==
    /\ pc[x] = "unpack"
    /\ LET p == Project(x)
       IN  \/ /\ src' = [src EXCEPT ![p] = "absent"]
              /\ tmp' = [tmp EXCEPT ![p] = x]
              /\ Goto(x, "install")
              /\ UNCHANGED outcome
           \/ Key(x) \in disturbed /\ Decide(x, "FAIL") /\ UNCHANGED <<src, tmp>>
    /\ UNCHANGED <<starts, active, run, at, archive, files, rows, tables, history>>

\* Mutant: the exit status of tar is not looked at.
Install_StatusIgnored(x) ==
    /\ pc[x] = "install"
    /\ LET p == Project(x)
       IN  \/ /\ tmp[p] # None /\ src[p] = "absent"
              /\ src' = [src EXCEPT ![p] = IF archive[p] = "whole" /\ tmp[p] = x THEN "whole" ELSE "partial"]
              /\ tmp' = [tmp EXCEPT ![p] = None]
              /\ Goto(x, "build")
              /\ UNCHANGED outcome
           \/ Decide(x, "FAIL") /\ UNCHANGED <<src, tmp>>
    /\ UNCHANGED <<starts, active, run, at, archive, files, rows, tables, history>>

\* tar has ended and its tree is renamed to the source directory.  When
\* another shard has begun to extract since, its tree is renamed as far as it
\* has come; when that shard has renamed it, or there is a source, the rename
\* fails.  So does tar on what is not the archive.
Install(x) ==
    /\ pc[x] = "install"
    /\ LET p == Project(x)
       IN  \/ /\ archive[p] = "whole" /\ tmp[p] # None /\ src[p] = "absent"
              /\ src' = [src EXCEPT ![p] = IF tmp[p] = x THEN "whole" ELSE "partial"]
              /\ tmp' = [tmp EXCEPT ![p] = None]
              /\ Goto(x, "build")
              /\ UNCHANGED outcome
           \/ Decide(x, "FAIL") /\ UNCHANGED <<src, tmp>>
    /\ UNCHANGED <<starts, active, run, at, archive, files, rows, tables, history>>

\* prepare_git: clone, or update the clone that is there.  That the update
\* fails is not looked at, only that it is stopped or that submodules fail.
PrepareGit(x) ==
    /\ pc[x] = "source"
    /\ Project(x) \in GitProjects
    /\ Disturb(x)
    /\ LET p == Project(x)
       IN  \/ /\ src[p] = "absent"
              /\ src' = [src EXCEPT ![p] = "partial"]
              /\ Goto(x, "clone")
              /\ UNCHANGED outcome
           \/ /\ src[p] # "absent"
              /\ src' = [src EXCEPT ![p] = "whole"] \/ UNCHANGED src
              /\ \/ Goto(x, "build") /\ UNCHANGED outcome
                 \/ Decide(x, "FAIL")
    /\ UNCHANGED <<starts, active, run, at, archive, tmp, files, rows, tables, last, reported, ordered>>

\* A clone that fails is removed by git; one that is stopped stays.
CloneEnds(x) ==
    /\ pc[x] = "clone"
    /\ LET p == Project(x)
       IN  \/ src' = [src EXCEPT ![p] = "whole"] /\ Goto(x, "build") /\ UNCHANGED outcome
           \/ /\ src' = [src EXCEPT ![p] = "absent"] \/ UNCHANGED src
              /\ Decide(x, "FAIL")
    /\ UNCHANGED <<starts, active, run, at, archive, tmp, files, rows, tables, history>>

\* copy_source raises when there is nothing to copy.
Built(x) ==
    /\ src[Project(x)] # "absent"
    /\ out' = [out EXCEPT ![Key(x)].used = TRUE,
                          ![Key(x)].built = @ + 1,
                          ![Key(x)].whole = @ /\ src[Project(x)] = "whole"]
    /\ Goto(x, IF out'[Key(x)].built = Variants THEN "run" ELSE "build")
    /\ UNCHANGED outcome

\* Mutant: the exit status of a build is not looked at.
BuildVariant_StatusIgnored(x) ==
    /\ pc[x] = "build"
    /\ \/ Built(x)
       \/ Goto(x, "run") /\ UNCHANGED <<out, outcome>>
    /\ UNCHANGED <<starts, active, run, at, sources, summary, rows, tables, history>>

\* build_variant: native, sanitizer, DESAN or ASAN--.  A build that fails or
\* is stopped ends the task.
BuildVariant(x) ==
    /\ pc[x] = "build"
    /\ \/ Built(x)
       \/ /\ out' = [out EXCEPT ![Key(x)].used = TRUE]
          /\ Decide(x, "FAIL")
    /\ UNCHANGED <<starts, active, run, at, sources, summary, rows, tables, history>>

\* run_runtime, once per variant: every run gives a row of runtime.csv, failed
\* and stopped ones too.
RunVariants(x) ==
    /\ pc[x] = "run"
    /\ out' = [out EXCEPT ![Key(x)].timed = TRUE]
    /\ Goto(x, "summarize")
    /\ UNCHANGED <<starts, active, run, at, outcome, sources, summary, rows, tables, history>>

\* The exit status of the summary script is not looked at.
Summarize(x) ==
    /\ pc[x] = "summarize"
    /\ summary' = [summary EXCEPT ![Key(x)] = run[x]] \/ UNCHANGED summary
    /\ Decide(x, "S")
    /\ UNCHANGED <<starts, active, run, at, sources, out, rows, tables, history>>

Row(x) == [key |-> Key(x), status |-> outcome[x], run |-> run[x]]

\* Mutant: a failed task ends without a row.
WriteRow_FailDropped(x) ==
    /\ pc[x] = "row"
    /\ rows' = [rows EXCEPT ![x] = IF outcome[x] = "S" THEN Append(@, Row(x)) ELSE @]
    /\ reported' = [reported EXCEPT ![Key(x)] = Row(x)]
    /\ at' = [at EXCEPT ![x] = @ + 1]
    /\ Goto(x, "next")
    /\ UNCHANGED <<starts, active, run, outcome, sources, files, tables, last, ordered, disturbed>>

\* Mutant: a failed task is tried again until it succeeds.
WriteRow_Retries(x) ==
    /\ pc[x] = "row"
    /\ IF outcome[x] = "S"
       THEN /\ rows' = [rows EXCEPT ![x] = Append(@, Row(x))]
            /\ reported' = [reported EXCEPT ![Key(x)] = Row(x)]
            /\ at' = [at EXCEPT ![x] = @ + 1]
       ELSE UNCHANGED <<rows, reported, at>>
    /\ Goto(x, "next")
    /\ UNCHANGED <<starts, active, run, outcome, sources, files, tables, last, ordered, disturbed>>

\* The row of the task, flushed; then the next task.
WriteRow(x) ==
    /\ pc[x] = "row"
    /\ rows' = [rows EXCEPT ![x] = Append(@, Row(x))]
    /\ reported' = [reported EXCEPT ![Key(x)] = Row(x)]
    /\ at' = [at EXCEPT ![x] = @ + 1]
    /\ Goto(x, "next")
    /\ UNCHANGED <<starts, active, run, outcome, sources, files, tables, last, ordered, disturbed>>

Finish(x) ==
    /\ pc[x] = "next"
    /\ at[x] > Len(Tasks[x])
    /\ Goto(x, "done")
    /\ UNCHANGED <<starts, active, run, at, outcome, sources, files, rows, history>>

\* collect_results ends the comparison: its tables show every summary that is
\* there; with none, the csv file stays as it was.
CollectResults(x) ==
    /\ Finish(x)
    /\ md' = [k \in Compared |-> summary[k]]
    /\ csv' = IF \A k \in Compared : md'[k] = None THEN csv ELSE md'
    /\ UNCHANGED batch

-----------------------------------------------------------------------------
(* The collection *)

RowsFor(x, k) == {i \in DOMAIN rows[x] : rows[x][i].key = k}

Holders(k) == {x \in ShardsOf(Batches) : RowsFor(x, k) # {}}

LastRow(x, k) == rows[x][Max(RowsFor(x, k))]

\* Mutant: the first file that has a row wins.
Merged_FirstWins(k) == IF Holders(k) = {} THEN batch[k] ELSE LastRow(Min(Holders(k)), k)

\* Mutant: the status file of all batches is not read back.
Merged_BatchLost(k) == IF Holders(k) = {} THEN None ELSE LastRow(Max(Holders(k)), k)

\* The status files are read in the order batch, waves, shards; the last row
\* of a key stands.
Merged(k) == IF Holders(k) = {} THEN batch[k] ELSE LastRow(Max(Holders(k)), k)

\* A row of the table: the status, and the data of the summary that is there.
TableRow(k) == [row |-> Merged(k), data |-> summary[k]]

\* The merged file replaces the one of all batches, and the table is printed.
Collect ==
    /\ active \cap Batches = {}
    /\ batch' = [k \in Keys |-> TableRow(k).row]
    /\ UNCHANGED <<starts, active, shards, sources, files, rows, md, csv, history>>

RunOne(x) ==
    \/ RemoveOut(x) \/ OutRemoved(x) \/ RemoveSummary(x)
    \/ Download(x) \/ Unpack(x) \/ Install(x) \/ PrepareGit(x) \/ CloneEnds(x)
    \/ BuildVariant(x) \/ RunVariants(x) \/ Summarize(x) \/ WriteRow(x)

\* main of a shard.
ShardStep(x) == RunOne(x) \/ (Finish(x) /\ UNCHANGED tables)

\* run_one and main of the comparison: the same commands in the same order, on
\* an out_root, a log and summaries of its own.
ComparisonStep(x) == RunOne(x) \/ CollectResults(x)

Next ==
    \/ \E v \in Batches : StartWave(v)
    \/ StartComparison
    \/ \E v \in Waves : KillWave(v)
    \/ \E v \in Waves : WaveEnds(v)
    \/ \E x \in ShardsOf(Batches) : ShardStep(x)
    \/ \E x \in Shards[Comparison] : ComparisonStep(x)
    \/ Collect

\* The processes of a wave are scheduled, and what they call ends or times
\* out.  Orphans may go on for ever, and nobody need collect or start.
Spec ==
    /\ Init /\ [][Next]_vars
    /\ \A x \in ShardsOf(Batches) : WF_vars(ShardStep(x))
    /\ \A x \in Shards[Comparison] : WF_vars(ComparisonStep(x))
    /\ \A v \in Waves : WF_vars(WaveEnds(v))

-----------------------------------------------------------------------------
StatusRow == [key : Keys, status : {"S", "FAIL"}, run : 1..starts]

(* The types of the state: a run is not summarized, reported or collected   *)
(* before it was started, and has no more builds than variants.             *)
TypeOK ==
    /\ starts \in 0..MaxStarts /\ active \subseteq Waves
    /\ run \in [AllShards -> 0..starts]
    /\ pc \in [AllShards -> Over \cup {"next", "clear", "unlink", "source", "unpack", "install", "clone",
                                       "build", "run", "summarize", "row"}]
    /\ \A x \in AllShards : at[x] \in 1..(Len(Tasks[x]) + 1)
    /\ outcome \in [AllShards -> {"S", "FAIL", None}]
    /\ archive \in [Projects -> Trees]
    /\ src \in [Projects -> Trees]
    /\ tmp \in [Projects -> AllShards \cup {None}]
    /\ out \in [Keys -> {None} \cup [run : 1..starts, used : BOOLEAN, built : 0..Variants,
                                     timed : BOOLEAN, whole : BOOLEAN]]
    /\ summary \in [Keys -> {None} \cup 1..starts]
    /\ rows \in [AllShards -> Seq(StatusRow)]
    /\ batch \in [Keys -> StatusRow \cup {None}]
    /\ md \in [Compared -> {None} \cup 1..starts]
    /\ csv \in [Compared -> {None} \cup 1..starts]
    /\ last \in [Keys -> 0..starts]
    /\ reported \in [Keys -> StatusRow \cup {None}]
    /\ ordered \in BOOLEAN
    /\ disturbed \subseteq Keys

(* A run that reported success has left all it is summarized from: three    *)
(* builds and three variants timed, of its own and not of an earlier run    *)
(* (run_one stops at the first failure) - until a later run takes the key   *)
(* up.  That one begins with rmtree, and when it dies in it, part of the    *)
(* results is gone and the row of success stands.                           *)
SuccessIsComplete ==
    \A k \in Keys :
        reported[k] # None /\ reported[k].status = "S" /\ reported[k].run = last[k] =>
            out[k].run = last[k] /\ out[k].built = Variants /\ out[k].timed

(* What was built from an archive was built from the whole of it, after any *)
(* number of killed runs, broken downloads and trees that were left half    *)
(* removed or half extracted (prepare_archive begins anew every time), as   *)
(* long as no other shard prepared the same project in the meantime, which  *)
(* the shards of one wave never do and the comparison can.                  *)
BuiltFromWhole ==
    \A k \in Keys : out[k] # None /\ k[1] \notin GitProjects /\ k \notin disturbed => out[k].whole

Reported(x) == [i \in DOMAIN rows[x] |-> rows[x][i].key]

(* A shard that came to its end has one row for every task, in their order, *)
(* whatever failed ("keep the batch moving", the handler of run_one).       *)
EveryTaskReported ==
    \A x \in AllShards : pc[x] = "done" =>
        /\ x \in ShardsOf(Batches) => Reported(x) = Tasks[x]
        /\ rows[x] # << >> /\ IsSuffix(Reported(x), Tasks[x])

(* When the batch waves were started in the order in which their files are  *)
(* merged, a collection between them gives every key the latest row any     *)
(* run has written, although it reads the files of earlier waves and of     *)
(* earlier collections too and waves may have been killed.                  *)
MergedIsLatest ==
    active \cap Batches = {} /\ ordered =>
        \A k \in Keys \ Compared : Merged(k) = reported[k]

(* Then the table shows no data but those of the run whose status stands    *)
(* beside them, and none beside a failure, also after runs that were        *)
(* stopped or died while they removed old results, unless the data are of   *)
(* a later run, which was stopped before it reported.                       *)
DataFitStatus ==
    active \cap Batches = {} /\ ordered =>
        \A k \in Keys \ Compared :
            summary[k] # None /\ reported[k] # None /\ summary[k] <= reported[k].run =>
                /\ TableRow(k).row.status = "S"
                /\ TableRow(k).data = TableRow(k).row.run

(* When a comparison has come to its end, its table shows a project it ran  *)
(* only with the data of that comparison, although earlier ones, killed or  *)
(* not, have left summaries, and no project without a status of success;    *)
(* the csv file shows the same or the table is empty.  (Projects left out   *)
(* with --projects are shown with what earlier comparisons left.)           *)
ComparisonIsCurrent ==
    \A x \in Shards[Comparison] : pc[x] = "done" =>
        /\ \A i \in DOMAIN rows[x] :
              LET r == rows[x][i]
              IN  md[r.key] # None => md[r.key] = run[x] /\ r.status = "S"
        /\ csv = md \/ \A k \in Compared : md[k] = None

(* A collection loses no key: the file of all batches keeps the status of a *)
(* key when the wave that reported it is started anew, in whatever order.   *)
CollectedStays ==
    [][\A k \in Keys : batch[k] # None => batch'[k] # None]_vars

(* Every wave comes to an end: no failure keeps a shard from its next task, *)
(* and shards that work side by side never wait for each other.  (The       *)
(* operator starts no more than MaxStarts waves.)                           *)
WavesEnd == <>[](active = {})

=============================================================================
