--------------------------- MODULE CompileWrapper ---------------------------
(* scripts/spec_desan_common.sh: the compiler wrapper that a build calls in *)
(* place of the compiler, once per object and, with make -j, several at a   *)
(* time.  The invocations share the records file, from which the summary of *)
(* the evaluation is made afterwards (opensource_summary.py), and the       *)
(* sidecar files, whose names are a hash of directory, source, output and   *)
(* flags.                                                                   *)
(*                                                                          *)
(* Compiler, opt and make are external: a command of theirs succeeds or     *)
(* fails, and opt may hang.                                                 *)
EXTENDS Integers, Sequences, SequencesExt, FiniteSets, Sums

CONSTANTS
    Jobs,       \* invocations of the wrapper during one build
    Links,      \* those that link or only preprocess
    Key,        \* per job, the hash that names its sidecar files
    Checks,     \* per job, the checks the pass finds in its source
    Modes,      \* "desan", "direct" (pass disabled) or "native" (no sanitizer)
    PassTimeout,    \* the pass is run under timeout(1)
    None

ASSUME WrapperAssumption ==
    /\ IsFiniteSet(Jobs)
    /\ Links \subseteq Jobs
    /\ DOMAIN Key = Jobs
    /\ Checks \in [Jobs -> Nat]
    /\ Modes \subseteq {"desan", "direct", "native"}
    /\ PassTimeout \in BOOLEAN
    /\ None \notin Jobs

Compiles == Jobs \ Links
Keys == {Key[j] : j \in Jobs}

VARIABLES
    mode, Fallback, RecordIr,   \* DESAN_SPEC_* of this build, where they matter
    pc,         \* per job, the next command of the wrapper
    status,     \* per job, the status it is going to record
    object,     \* per key, the object file: None or [by, from]
    log,        \* per key, the pass log: None or [by, total]
    exists,     \* the records file is there
    records,    \* its lines: Header or [job, status]
    overlap     \* two jobs were in desan_spec_record_compile at once

shared == <<object, log, exists, records, overlap>>
settings == <<mode, Fallback, RecordIr>>
vars == <<settings, pc, status, shared>>

Ended == {"waiting", "ok", "failed", "killed"}
Recording == {"checkheader", "openheader", "writeheader", "row"}

Statuses == {"pass", "ir-compile-fallback", "pass-fallback", "lower-fallback",
             "direct", "direct-ir", "direct-ir-fallback", "direct-native"}

ASSUME NoneAssumption == None \notin Statuses \cup [by : Jobs, total : Nat]

Header == [job |-> None, status |-> None]

Init ==
    /\ mode \in Modes
    /\ Fallback \in BOOLEAN /\ (~Fallback => mode = "desan")
    /\ RecordIr \in BOOLEAN /\ (RecordIr => mode = "direct")
    /\ pc = [j \in Jobs |-> "waiting"]
    /\ status = [j \in Jobs |-> None]
    /\ object = [k \in Keys |-> None]
    /\ log = [k \in Keys |-> None]
    /\ exists = FALSE
    /\ records = << >>
    /\ overlap = FALSE

Goto(j, l) == pc' = [pc EXCEPT ![j] = l]

\* desan_spec_record_compile begins.
Record(j, s) ==
    /\ Goto(j, "checkheader")
    /\ status' = [status EXCEPT ![j] = s]
    /\ overlap' = (overlap \/ \E i \in Jobs \ {j} : pc[i] \in Recording)

-----------------------------------------------------------------------------
(* desan_spec_c_or_cxx *)

\* make starts a job; it does not make one file twice at a time, and links
\* when nothing is compiled any more.
Start(j) ==
    /\ pc[j] = "waiting"
    /\ j \in Links => \A i \in Compiles : pc[i] \in Ended \ {"waiting"}
    /\ \A i \in Jobs \ {j} : Key[i] = Key[j] => pc[i] \in Ended
    /\ IF j \in Links THEN Goto(j, "link") /\ UNCHANGED <<status, overlap>>
       ELSE IF mode = "desan" THEN Goto(j, "ir") /\ UNCHANGED <<status, overlap>>
       ELSE IF mode = "native" THEN Record(j, "direct-native")
       ELSE IF RecordIr THEN Goto(j, "sidecar") /\ UNCHANGED <<status, overlap>>
       ELSE Record(j, "direct")
    /\ UNCHANGED <<settings, object, log, exists, records>>

\* Linking and preprocessing are handed through and leave no record.
Link(j) ==
    /\ pc[j] = "link"
    /\ Goto(j, "ok") \/ Goto(j, "failed")
    /\ UNCHANGED <<settings, status, shared>>

\* The IR of a direct compile, made only to count its checks.  That the
\* counting script fails is not looked at.
Sidecar(j) ==
    /\ pc[j] = "sidecar"
    /\ \/ /\ \E n \in {0, Checks[j]} : log' = [log EXCEPT ![Key[j]] = [by |-> j, total |-> n]]
          /\ Record(j, "direct-ir")
       \/ /\ log' = [log EXCEPT ![Key[j]] = [by |-> j, total |-> 0]]
          /\ Record(j, "direct-ir-fallback")
    /\ UNCHANGED <<settings, object, exists, records>>

\* A failed step: record why and compile directly, or give up.
FallBack(j, s) ==
    IF Fallback THEN Record(j, s) ELSE Goto(j, "failed") /\ UNCHANGED <<status, overlap>>

CompileIR(j) ==
    /\ pc[j] = "ir"
    /\ \/ Goto(j, "startpass") /\ UNCHANGED <<status, overlap>>
       \/ FallBack(j, "ir-compile-fallback")
    /\ UNCHANGED <<settings, object, log, exists, records>>

\* The shell truncates the log before the pass runs.
StartPass(j) ==
    /\ pc[j] = "startpass"
    /\ log' = [log EXCEPT ![Key[j]] = [by |-> j, total |-> 0]]
    /\ Goto(j, "pass")
    /\ UNCHANGED <<settings, status, object, exists, records, overlap>>

\* The collector prints its statistics, or opt fails, or it hangs.
PassStatistics(j) ==
    /\ pc[j] = "pass"
    /\ \/ /\ log' = [log EXCEPT ![Key[j]] = [by |-> j, total |-> Checks[j]]]
          /\ Goto(j, "passend")
          /\ UNCHANGED <<status, overlap>>
       \/ FallBack(j, "pass-fallback") /\ UNCHANGED log
       \/ Goto(j, "hung") /\ UNCHANGED <<status, log, overlap>>
    /\ UNCHANGED <<settings, object, exists, records>>

\* The elimination and the optimizations behind it.
PassEnds(j) ==
    /\ pc[j] = "passend"
    /\ \/ Goto(j, "lower") /\ UNCHANGED <<status, overlap>>
       \/ FallBack(j, "pass-fallback")
       \/ Goto(j, "hung") /\ UNCHANGED <<status, overlap>>
    /\ UNCHANGED <<settings, object, log, exists, records>>

\* Mutant: the exit status of timeout(1) is not looked at.
TimeoutFires_Ignored(j) ==
    /\ pc[j] = "hung"
    /\ PassTimeout
    /\ Goto(j, "pass")
    /\ UNCHANGED <<settings, status, shared>>

TimeoutFires(j) ==
    /\ pc[j] = "hung"
    /\ PassTimeout
    /\ FallBack(j, "pass-fallback")
    /\ UNCHANGED <<settings, object, log, exists, records>>

\* Mutant: the function returns once the object is made.
Lower_NoRecord(j) ==
    /\ pc[j] = "lower"
    /\ \/ /\ object' = [object EXCEPT ![Key[j]] = [by |-> j, from |-> "optimized"]]
          /\ Goto(j, "ok")
          /\ UNCHANGED <<status, overlap>>
       \/ /\ FallBack(j, "lower-fallback")
          /\ object' = [object EXCEPT ![Key[j]] = None]
    /\ UNCHANGED <<settings, log, exists, records>>

Lower(j) ==
    /\ pc[j] = "lower"
    /\ \/ /\ object' = [object EXCEPT ![Key[j]] = [by |-> j, from |-> "optimized"]]
          /\ Record(j, "pass")
       \/ /\ FallBack(j, "lower-fallback")
          /\ object' = [object EXCEPT ![Key[j]] = None]
    /\ UNCHANGED <<settings, log, exists, records>>

\* The plain compile behind every record but "pass".
DirectCompile(j) ==
    /\ pc[j] = "direct"
    /\ \/ /\ object' = [object EXCEPT ![Key[j]] = [by |-> j, from |-> "direct"]]
          /\ Goto(j, "ok")
       \/ /\ object' = [object EXCEPT ![Key[j]] = None]
          /\ Goto(j, "failed")
    /\ UNCHANGED <<settings, status, log, exists, records, overlap>>

-----------------------------------------------------------------------------
(* desan_spec_record_compile *)

\* Mutant: the test for the file is the wrong way round.
CheckHeader_Inverted(j) ==
    /\ pc[j] = "checkheader"
    /\ Goto(j, IF exists THEN "openheader" ELSE "row")
    /\ UNCHANGED <<settings, status, shared>>

CheckHeader(j) ==
    /\ pc[j] = "checkheader"
    /\ Goto(j, IF exists THEN "row" ELSE "openheader")
    /\ UNCHANGED <<settings, status, shared>>

\* The redirection creates the file, printf writes into it.
OpenHeader(j) ==
    /\ pc[j] = "openheader"
    /\ exists' = TRUE
    /\ Goto(j, "writeheader")
    /\ UNCHANGED <<settings, status, object, log, records, overlap>>

WriteHeader(j) ==
    /\ pc[j] = "writeheader"
    /\ records' = Append(records, Header)
    /\ Goto(j, "row")
    /\ UNCHANGED <<settings, status, object, log, exists, overlap>>

\* Mutant: the file is overwritten, not appended to.
AppendRow_Truncates(j) ==
    /\ pc[j] = "row"
    /\ exists' = TRUE
    /\ records' = <<Header, [job |-> j, status |-> status[j]]>>
    /\ Goto(j, IF status[j] = "pass" THEN "ok" ELSE "direct")
    /\ UNCHANGED <<settings, status, object, log, overlap>>

AppendRow(j) ==
    /\ pc[j] = "row"
    /\ exists' = TRUE
    /\ records' = Append(records, [job |-> j, status |-> status[j]])
    /\ Goto(j, IF status[j] = "pass" THEN "ok" ELSE "direct")
    /\ UNCHANGED <<settings, status, object, log, overlap>>

\* The build is interrupted; the signal reaches every process of it.
Interrupt ==
    /\ \E j \in Jobs : pc[j] \notin Ended
    /\ pc' = [j \in Jobs |-> IF pc[j] \in {"ok", "failed"} THEN pc[j] ELSE "killed"]
    /\ UNCHANGED <<settings, status, shared>>

Step(j) ==
    \/ Start(j) \/ Link(j) \/ Sidecar(j)
    \/ CompileIR(j) \/ StartPass(j) \/ PassStatistics(j) \/ PassEnds(j)
    \/ TimeoutFires(j) \/ Lower(j) \/ DirectCompile(j)
    \/ CheckHeader(j) \/ OpenHeader(j) \/ WriteHeader(j) \/ AppendRow(j)

Next == (\E j \in Jobs : Step(j)) \/ Interrupt

Spec == Init /\ [][Next]_vars /\ \A j \in Jobs : WF_vars(Step(j))

-----------------------------------------------------------------------------
(* parse_records: the first line names the fields, lines that repeat it are *)
(* of no benchmark, and without it no line is.                              *)

\* The statuses whose pass log is read.
Logged == {"pass", "pass-fallback"}

CountedRows ==
    IF records # << >> /\ Head(records) = Header
    THEN {i \in 2..Len(records) : records[i] # Header}
    ELSE {}

compile_units == Cardinality(CountedRows)

\* The checks in the log of a line, as read at the end.
ReadTotals ==
    [i \in CountedRows |-> LET l == log[Key[records[i].job]] IN
                              IF records[i].status \in Logged /\ l # None THEN l.total ELSE 0]

total_checks == SumOver(ReadTotals, CountedRows)

-----------------------------------------------------------------------------
(* The types of the state: every line desan_spec_record_compile writes has  *)
(* one of the statuses the summary scripts know.                            *)
TypeOK ==
    /\ mode \in Modes /\ Fallback \in BOOLEAN /\ RecordIr \in BOOLEAN
    /\ pc \in [Jobs -> Ended \cup Recording \cup
                  {"link", "ir", "sidecar", "startpass", "pass", "passend", "hung",
                   "lower", "direct"}]
    /\ status \in [Jobs -> Statuses \cup {None}]
    /\ object \in [Keys -> {None} \cup [by : Jobs, from : {"optimized", "direct"}]]
    /\ log \in [Keys -> {None} \cup [by : Jobs, total : Nat]]
    /\ exists \in BOOLEAN /\ overlap \in BOOLEAN
    /\ records \in Seq({Header} \cup [job : Jobs, status : Statuses])

RowsOf(j) == {i \in DOMAIN records : records[i].job = j}

(* A job that ends well has left one row, and the row tells how the object  *)
(* that exists now was made: from the optimized IR iff the status is pass.  *)
RecordTellsTheTruth ==
    \A j \in Compiles : pc[j] = "ok" =>
        /\ Cardinality(RowsOf(j)) = 1
        /\ LET o == object[Key[j]] IN
           o # None /\ o.by = j =>
              \A i \in RowsOf(j) : (records[i].status = "pass") <=> (o.from = "optimized")

(* No object goes uncounted: one that exists has a row, or its job is about *)
(* to write one, or was killed before it could.                             *)
NoObjectUncounted ==
    \A k \in Keys :
        object[k] # None =>
            \/ RowsOf(object[k].by) # {}
            \/ pc[object[k].by] \in Recording \cup {"killed"}

AllOver == \A j \in Jobs : pc[j] \in Ended

\* The checks of the jobs that recorded a status in S.
ChecksOf(S) ==
    SumOver([j \in Jobs |-> IF RowsOf(j) # {} /\ status[j] \in S THEN Checks[j] ELSE 0], Jobs)

\* No job was killed and no two recorded at once.
Undisturbed == AllOver /\ ~overlap /\ \A j \in Jobs : pc[j] # "killed"

(* After an undisturbed build the summary counts every recorded job.        *)
UnitsComplete ==
    Undisturbed => compile_units = Cardinality({j \in Jobs : RowsOf(j) # {}})

(* If besides no two jobs used the same file names, it adds up the checks   *)
(* of the objects that were optimized, and of those that fell back only     *)
(* what the pass had counted before it failed.                              *)
SummaryComplete ==
    /\ UnitsComplete
    /\ /\ Undisturbed
       /\ \A i, j \in Compiles : i # j /\ Key[i] = Key[j] => "waiting" \in {pc[i], pc[j]}
       => total_checks \in ChecksOf({"pass"})..ChecksOf({"pass", "pass-fallback"})

(* The build comes to an end: a pass that hangs is stopped, and every job   *)
(* finishes or is killed.                                                   *)
BuildEnds == <>[]AllOver

=============================================================================
